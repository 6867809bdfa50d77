-------------------------------- MODULE Tokens --------------------------------
(***************************************************************************)
(* How the shell cuts a line into words (src/user/shell.cpp, from          *)
(* sh_skip_spaces to sh_exec_line): in place, by writing NUL over the      *)
(* blank behind a word.  A line is its characters with the NUL behind      *)
(* them; a pointer is an index into it, 0 the null pointer.                *)
(***************************************************************************)
EXTENDS Integers, Sequences, SequencesExt, FiniteSetsExt

CONSTANTS Space, NUL   \* ' ' and '\0'

ASSUME TokensAssumption == Space # NUL

-----------------------------------------------------------------------------
\* The string a pointer shows: what is before the next NUL.
StringAt(line, p) == SubSeq(line, p, Min({i \in p .. Len(line) : line[i] = NUL}) - 1)

sh_skip_spaces(line, p) == Min({i \in p .. Len(line) : line[i] # Space})

\* A mistake the checks rule out: the rest begins at the NUL that ends the word.
EndOfTokenAtNul(line, s) ==
    LET e == Min({i \in s .. Len(line) : line[i] \in {Space, NUL}}) IN
    [line |-> [line EXCEPT ![e] = NUL], p |-> e]

\* Where the word at s ends: the line with NUL there, and where the rest begins.
EndOfToken(line, s) ==
    LET e == Min({i \in s .. Len(line) : line[i] \in {Space, NUL}}) IN
    [line |-> [line EXCEPT ![e] = NUL], p |-> IF line[e] = Space THEN e + 1 ELSE e]

\* The word returned, the line and *p afterwards.
sh_next_token(line, p) ==
    LET s == sh_skip_spaces(line, p) IN
    IF line[s] = NUL THEN [tok |-> 0, line |-> line, p |-> s]
    ELSE [tok  |-> s, line |-> EndOfToken(line, s).line, p |-> EndOfToken(line, s).p]

\* What sh_exec_line has in hand in the branch of write, the one that takes most: the
\* command, the name and the text as strings, if there is one.
Arguments(line) ==
    LET cmd  == sh_next_token(line, 1)
        name == sh_next_token(cmd.line, cmd.p)
        text == sh_skip_spaces(name.line, name.p)
        String(p) == IF p = 0 THEN <<>> ELSE StringAt(name.line, p)
    IN  [cmd |-> String(cmd.tok), name |-> String(name.tok), text |-> String(text)]

-----------------------------------------------------------------------------
(* What words are                                                          *)

IsWord(w)   == \A i \in DOMAIN w : w[i] \notin {Space, NUL}
IsBlank(s)  == \A i \in DOMAIN s : s[i] = Space

\* s is blanks, the word w, and rest; w is empty only if nothing is left, and ends where
\* a blank or the end is.
Begins(s, w, rest) ==
    \E i, j \in 0 .. Len(s) :
        /\ i <= j
        /\ IsBlank(SubSeq(s, 1, i))
        /\ w = SubSeq(s, i + 1, j) /\ IsWord(w)
        /\ rest = SubSeq(s, j + 1, Len(s))
        /\ rest # <<>> => w # <<>> /\ rest[1] = Space

\* s without the blanks before it.
IsTrimmed(s, t) == IsSuffix(t, s) /\ IsBlank(SubSeq(s, 1, Len(s) - Len(t)))
                                  /\ (t # <<>> => t[1] # Space)

\* The arguments of the line s are its first two words, and what follows them from the
\* next character that is no blank, blanks within it included.
AreWords(s, args) ==
    \E r1, r2 \in {SubSeq(s, i, Len(s)) : i \in 1 .. Len(s) + 1} :
        /\ Begins(s, args.cmd, r1)
        /\ Begins(r1, args.name, r2)
        /\ IsTrimmed(r2, args.text)
=============================================================================
