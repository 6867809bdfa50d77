----------------------------- MODULE MCTerminal -----------------------------
(* Terminal for TLC.  The state file is the one that bridge.py makes of an    *)
(* image of pack_image.py, whose kernel is a byte that is no text, with a     *)
(* file "a" packed twice; or it lists no file.                                *)
EXTENDS Terminal

I == INSTANCE Image WITH NameLen <- 8

MCNames   == {<<97>>, <<98>>}
MCTexts   == {<<1>>}
MCNewline == 10

InitFiles == << [name |-> <<97>>, data |-> <<2, 10>>], [name |-> <<97>>, data |-> <<3>>] >>

Bridged == << [name |-> I!KERNEL, content |-> <<65533>>],
              [name |-> <<97>>, content |-> <<2, 10>>], [name |-> <<97>>, content |-> <<3>>] >>

MCStateLists == {Bridged, <<>>}

\* Letters of one byte and U+FFFD as numbers.
Numbers(text) == [i \in DOMAIN text |-> IF text[i] = I!Replacement THEN 65533 ELSE text[i][1]]

ASSUME BridgedAssumption ==
    LET read == I!parse_image(I!pack_image(<<255>>, InitFiles)).files
    IN  Bridged = [i \in DOMAIN read |-> [read[i] EXCEPT !.content = Numbers(@)]]
=============================================================================
