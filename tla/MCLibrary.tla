------------------------------ MODULE MCLibrary ------------------------------
(* Library for TLC: bytes on both sides of the sign, ints of eight bits, lines *)
(* of up to six characters, images of up to three files.                       *)
EXTENDS Library

MCMemories     == {m \in [0 .. 5 -> {0, 1, 255}] : m[5] = 0}
MCFills        == {255, 256}
MCValues       == -128 .. 127
MCBases        == {0, 2, 3, 10, 16, 36, 37}
MCCommandLines == SeqOf({Space, 97, 98}, 6)
\* Letters of one to four bytes, and U+FFFD as a letter.
MCTexts        == {<<>>, << <<1>>, <<10>> >>, << <<195, 169>>, <<2>> >>,
                   << <<228, 189, 160>> >>, << <<240, 159, 152, 128>>, Replacement >>}
\* A byte that begins no letter, a letter that is not completed, a form that is too long.
MCKernels      == {<<>>, <<255, 0>>, <<226, 130, 40>>, <<224, 128, 228, 189>>}
MCFiles        == {[name |-> <<97>>, data |-> FlattenSeq(t)] : t \in MCTexts}
                  \cup {[name |-> KERNEL, data |-> <<2>>]}
MCAddresses    == {0, 65535, 65536, 1193046, 2147483647}
MCWords        == {0, 1, 255}
MCChars        == -128 .. 127
=============================================================================
