------------------------------ MODULE MCConsole ------------------------------
(* Console for TLC: a screen of two short rows, a prompt of one character, a   *)
(* line buffer that is as wide as the screen, and a table with the four kinds  *)
(* of keys.                                                                    *)
EXTENDS Console

MCTable  == [sc \in 0 .. 4 |-> CASE sc = 0 -> NoChar
                                 [] sc = 1 -> NewLine
                                 [] sc = 2 -> BackSpace
                                 [] sc = 3 -> "a"
                                 [] sc = 4 -> " "]
MCCells  == {" ", "a", Return}
MCGlyphs == {" ", "a"}
MCBanner == <<"a", "LF">>
MCPrompt == <<"a">>
=============================================================================
