------------------------------- MODULE MCShell -------------------------------
(* Shell for TLC: a session table that is smaller than the file table, which *)
(* has fewer slots than there are names.                                     *)
EXTENDS Shell

CONSTANTS a

MCTexts == {<<a>>, <<a, a>>}
MCFds   == -1 .. MaxFiles
=============================================================================
