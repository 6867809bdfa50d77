-------------------------------- MODULE MCTfs --------------------------------
(* Tfs for TLC: more names than slots, texts that are empty, that fit, that  *)
(* fill a file up to its last byte and that do not fit, and handles on both  *)
(* sides of the table.                                                       *)
EXTENDS Tfs

CONSTANTS a, b

MCTexts == {<<>>, <<a>>, <<b>>, <<a, b>>, <<b, a, b>>}
MCFds   == -1 .. MaxFiles
=============================================================================
