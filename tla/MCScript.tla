------------------------------- MODULE MCScript -------------------------------
(* Script for TLC: every file of up to MaxLength characters, with a line    *)
(* buffer that some of their lines do not fit in.                           *)
EXTENDS Script

CONSTANT MaxLength

MCScripts == UNION {[1 .. n -> Tokens] : n \in 0 .. MaxLength}
=============================================================================
