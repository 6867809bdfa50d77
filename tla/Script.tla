------------------------------- MODULE Script -------------------------------
(***************************************************************************)
(* tfs_run_fd and tfs_exec_line (src/fs/turboxfs.cpp): the content of a    *)
(* file is cut into lines in one pass, through a line buffer of fixed      *)
(* size, and each line is executed as soon as it ends, until one is exit.  *)
(*                                                                         *)
(* What is left out: which characters print and putc put on the screen.    *)
(* A line that is neither skipped nor exit has an effect, the one of its   *)
(* text, and "ran" is the sequence of these effects.                       *)
(*                                                                         *)
(* What Tfs has too begins with Script here, so that one module can be     *)
(* about all of turboxfs.cpp.                                              *)
(***************************************************************************)
EXTENDS Integers, Sequences, SequencesExt, FiniteSetsExt

CONSTANTS
    LineMax,    \* sizeof(line) - 1
    Scripts     \* contents of files: sequences of Tokens

\* "sp" stands for space and tab, "exit" for the four letters, "x" for other text.
Tokens == {"LF", "CR", "sp", "#", "exit", "x"}

ASSUME ScriptAssumption == LineMax \in Nat \ {0} /\ Scripts \subseteq Seq(Tokens)

VARIABLES
    data,      \* content of the file
    i,         \* next character to look at, from 1 on
    line,      \* the line buffer up to li
    running,
    ran        \* the lines that had an effect, without their indentation

scriptVars == <<data, i, line, running, ran>>

-----------------------------------------------------------------------------
(* tfs_exec_line                                                           *)

\* A line without its leading blanks.
Stripped(l) ==
    LET begin == SelectInSeq(l, LAMBDA c : c # "sp")
    IN  IF begin = 0 THEN <<>> ELSE SubSeq(l, begin, Len(l))

Skips(l) == Stripped(l) = <<>> \/ Stripped(l)[1] = "#"
Exits(l) == ~ Skips(l) /\ Stripped(l)[1] = "exit"

tfs_exec_line(l) ==
    /\ running' = ~ Exits(l)
    /\ ran' = IF Skips(l) \/ Exits(l) THEN ran ELSE Append(ran, Stripped(l))

-----------------------------------------------------------------------------
(* tfs_run_fd                                                              *)

ScriptInit ==
    /\ data \in Scripts
    /\ i = 1 /\ line = <<>> /\ running = TRUE /\ ran = <<>>

More == running /\ i <= Len(data)

\* CR is ignored.
CarriageReturn ==
    /\ More /\ data[i] = "CR"
    /\ i' = i + 1
    /\ UNCHANGED <<data, line, running, ran>>

\* A mistake the checks rule out: the next line is collected behind this one.
LineFeedKeepingLine ==
    /\ More /\ data[i] = "LF"
    /\ tfs_exec_line(line)
    /\ i' = i + 1
    /\ UNCHANGED <<data, line>>

LineFeed ==
    /\ More /\ data[i] = "LF"
    /\ tfs_exec_line(line)
    /\ line' = <<>>
    /\ i' = i + 1
    /\ UNCHANGED data

\* What a line has too many is dropped.
Collect ==
    /\ More /\ data[i] \notin {"CR", "LF"}
    /\ line' = IF Len(line) < LineMax THEN Append(line, data[i]) ELSE line
    /\ i' = i + 1
    /\ UNCHANGED <<data, running, ran>>

\* A last line without a line feed is executed too.
LastLine ==
    /\ running /\ i = Len(data) + 1 /\ line # <<>>
    /\ tfs_exec_line(line)
    /\ line' = <<>>
    /\ i' = i + 1
    /\ UNCHANGED data

\* There is no line to execute any more: tfs_run_fd returns 0.
Returned == ~ running \/ (i > Len(data) /\ line = <<>>)

ScriptNext == CarriageReturn \/ LineFeed \/ Collect \/ LastLine

ScriptSpec == ScriptInit /\ [][ScriptNext]_scriptVars

-----------------------------------------------------------------------------
(* Properties                                                              *)

(***************************************************************************)
(* What a script d means, without a pass or a buffer.  A line starts at    *)
(* the beginning, 0, and behind every line feed.  It goes on to the next   *)
(* line feed or the end; of its characters but the CRs it has the first    *)
(* LineMax.  The lines before the first exit count, and those that are not *)
(* to be skipped have an effect, in their order.                           *)
(***************************************************************************)
Starts(d) == {b \in 0 .. Len(d) : b = 0 \/ d[b] = "LF"}

LineEnd(d, b) == Min({e \in b + 1 .. Len(d) + 1 : e = Len(d) + 1 \/ d[e] = "LF"})

\* The characters after b and before e, without the CRs.
Between(d, b, e) ==
    FlattenSeq([k \in 1 .. e - b - 1 |-> IF d[b + k] = "CR" THEN <<>> ELSE <<d[b + k]>>])

Cut(l) == IF Len(l) > LineMax THEN SubSeq(l, 1, LineMax) ELSE l

LineAt(d, b) == Cut(Between(d, b, LineEnd(d, b)))

Counts(d, b) ==
    /\ b \in Starts(d) /\ ~ Skips(LineAt(d, b))
    /\ \A a \in Starts(d) : a <= b => ~ Exits(LineAt(d, a))

EffectAt(d, b) == IF Counts(d, b) THEN <<Stripped(LineAt(d, b))>> ELSE <<>>

Meaning(d) == FlattenSeq([k \in 1 .. Len(d) + 1 |-> EffectAt(d, k - 1)])

\* turboxfs.cpp:211 on: a script is run line by line. Whatever its line ends, long lines
\* and last line are, what has been executed is the beginning of what it means, and all
\* of it when tfs_run_fd returns.
RunsTheScript ==
    /\ IsPrefix(ran, Meaning(data))
    /\ Returned => ran = Meaning(data)
=============================================================================
