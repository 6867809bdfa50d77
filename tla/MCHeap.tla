-------------------------------- MODULE MCHeap -------------------------------
(* Heap for TLC.  Pages of 64 bytes: the sizes asked for are half a page,   *)
(* a page, and more than a page, with their headers.                        *)
EXTENDS Heap

MCMemSizes == {MaxPages}
MCSizes    == {19, 52, 60}
=============================================================================
