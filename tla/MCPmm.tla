-------------------------------- MODULE MCPmm --------------------------------
(* Pmm for TLC: memory from nothing to more than the bitmap can describe,   *)
(* sizes that are no multiple of a page, and frees of any page, of address  *)
(* 0, of an address inside a page and of a page beyond the bitmap.          *)
EXTENDS Pmm

MCMemSizes  == 0 .. PageKiB * (MaxPages + 1) + 1
MCAddresses == {PageSize * i : i \in 0 .. MaxPages + 1} \cup {PageSize * ReservedPages + 1}
=============================================================================
