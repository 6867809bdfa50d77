------------------------------ MODULE Terminal ------------------------------
(***************************************************************************)
(* The web terminal (src/web/terminal.js): commands on files in the memory *)
(* of the browser, a command history, and, while the user is typing, a     *)
(* fetch of the state file that bridge.py has made, which is laid over     *)
(* these files when it arrives.                                            *)
(*                                                                         *)
(* The page has one thread.  A task (an event of the network or a key) is  *)
(* followed at once by the promise callbacks it has made ready, one after  *)
(* the other; only then comes the next task.  So a key is handled when     *)
(* nothing or only the network is waited for: the stages in Tasks.         *)
(*                                                                         *)
(* A line is what execCommand makes of it: [cmd, name, text], where cmd is *)
(* "blank" for no words, and "other" for every line that only prints: ls,  *)
(* cat, run and help, unknown commands, and calls with too few arguments.  *)
(*                                                                         *)
(* Names are any but "hasOwnProperty" and "__proto__": files is a plain    *)
(* object, and a file of the first name hides the method that create,      *)
(* write, run and cat call.                                                *)
(*                                                                         *)
(* What Shell has too begins with Web here, so that one module can be      *)
(* about both shells.                                                      *)
(***************************************************************************)
EXTENDS Integers, Sequences, SequencesExt, FiniteSetsExt

CONSTANTS
    WebNames,    \* names of files
    WebTexts,    \* texts of a write command, sequences of characters
    Newline,     \* "\n"
    StateLists,  \* what fs_state.json may hold: sequences of [name, content]
    MaxCommands  \* bound of the model: commands in the history

ASSUME TerminalAssumption ==
    /\ Newline \in Int
    /\ WebTexts \subseteq Seq(Int)
    /\ StateLists \subseteq Seq([name : Seq(Int), content : Seq(Int)])

VARIABLES
    files,       \* the files that exist, name -> content
    mode,        \* "local" or "sync"
    stage,       \* where trySyncFromBridge is
    fetched,     \* the list in the state file, once its body has been parsed
    input,       \* the line in the input field
    history,     \* the lines entered
    historyIdx

filesVars == <<files, mode>>
syncVars  == <<stage, fetched>>
lineVars  == <<input, history, historyIdx>>
webVars   == <<filesVars, syncVars, lineVars>>

Line(cmd, n, text) == [cmd |-> cmd, name |-> n, text |-> text]

NoName == <<>>

Blank  == Line("blank", NoName, <<>>)
Prints == Line("other", NoName, <<>>)
Lines  == {Blank, Prints}
          \cup {Line("create", n, <<>>) : n \in WebNames}
          \cup {Line("write", n, text) : n \in WebNames, text \in WebTexts}

Tasks     == {"fetching", "reading", "ready"}
Callbacks == {"answered", "refused", "parsed", "failed", "decided"}

\* The files f with the content of n set: an assignment to f[n].
With(f, n, content) ==
    [m \in DOMAIN f \cup {n} |-> IF m = n THEN content ELSE f[m]]

-----------------------------------------------------------------------------
(* The synchronisation, and the file it fetches.                           *)

\* The browser settles the fetch: with the file, with an HTTP error, or without an answer.
FetchSettles ==
    /\ stage = "fetching"
    /\ stage' \in {"answered", "refused", "failed"}
    /\ UNCHANGED <<filesVars, fetched, lineVars>>

\* A mistake the checks rule out: after an error status the file is fetched again.
ResponseThenRetrying ==
    /\ stage \in {"answered", "refused"}
    /\ stage' = IF stage = "answered" THEN "reading" ELSE "fetching"
    /\ UNCHANGED <<filesVars, fetched, lineVars>>

\* then: an error status throws, else the body is awaited.
ResponseThen ==
    /\ stage \in {"answered", "refused"}
    /\ stage' = IF stage = "answered" THEN "reading" ELSE "failed"
    /\ UNCHANGED <<filesVars, fetched, lineVars>>

\* The body has come; it is JSON, or was cut off while the file was being written.
BodyArrives ==
    /\ stage = "reading"
    /\ \/ \E list \in StateLists : stage' = "parsed" /\ fetched' = list
       \/ stage' = "failed" /\ UNCHANGED fetched
    /\ UNCHANGED <<filesVars, lineVars>>

\* A mistake the checks rule out: files that exist are kept.
OverlaidKeeping(f, list) ==
    FoldLeft(LAMBDA g, e : IF e.name \in DOMAIN f THEN g ELSE With(g, e.name, e.content),
             f, list)

Overlaid(f, list) == FoldLeft(LAMBDA g, e : With(g, e.name, e.content), f, list)

\* then: the list is laid over what the user has made meanwhile.
SyncThen ==
    /\ stage = "parsed"
    /\ files' = Overlaid(files, fetched)
    /\ mode' = "sync"
    /\ stage' = "decided"
    /\ UNCHANGED <<fetched, lineVars>>

SyncCatch ==
    /\ stage = "failed"
    /\ mode' = "local"
    /\ stage' = "decided"
    /\ UNCHANGED <<files, fetched, lineVars>>

\* then: the ready line.
ReadyThen ==
    /\ stage = "decided"
    /\ stage' = "ready"
    /\ UNCHANGED <<filesVars, fetched, lineVars>>

-----------------------------------------------------------------------------
(* The keys                                                                *)

create(n) == files' = IF n \in DOMAIN files THEN files ELSE With(files, n, <<>>)

write(n, text) ==
    files' = IF n \in DOMAIN files
             THEN With(files, n, files[n] \o text \o <<Newline>>) ELSE files

execCommand(line) ==
    CASE line.cmd = "create" -> create(line.name)
      [] line.cmd = "write"  -> write(line.name, line.text)
      [] OTHER               -> UNCHANGED files

\* The user edits the line.
Edit(line) ==
    /\ stage \in Tasks
    /\ input' = line
    /\ UNCHANGED <<filesVars, syncVars, history, historyIdx>>

\* A mistake the checks rule out: the index stays where the arrows have left it.
RememberedInPlace(line) ==
    /\ history' = Append(history, line)
    /\ UNCHANGED historyIdx

Remembered(line) ==
    /\ history' = Append(history, line)
    /\ historyIdx' = Len(history')

Enter ==
    /\ stage \in Tasks
    /\ input' = Blank
    /\ IF input = Blank
       THEN UNCHANGED <<history, historyIdx>>
       ELSE Len(history) < MaxCommands /\ Remembered(input)
    /\ execCommand(input)
    /\ UNCHANGED <<mode, syncVars>>

ArrowUp ==
    /\ stage \in Tasks
    /\ historyIdx > 0
    /\ historyIdx' = historyIdx - 1
    /\ input' = history[historyIdx' + 1]
    /\ UNCHANGED <<filesVars, syncVars, history>>

ArrowDown ==
    /\ stage \in Tasks
    /\ IF historyIdx < Len(history) - 1
       THEN historyIdx' = historyIdx + 1 /\ input' = history[historyIdx' + 1]
       ELSE historyIdx' = Len(history) /\ input' = Blank
    /\ UNCHANGED <<filesVars, syncVars, history>>

-----------------------------------------------------------------------------
WebInit ==
    /\ files = [n \in {} |-> <<>>]
    /\ mode = "local"
    /\ stage = "fetching"
    /\ fetched = <<>>
    /\ input = Blank
    /\ history = <<>>
    /\ historyIdx = -1

Sync == FetchSettles \/ ResponseThen \/ BodyArrives \/ SyncThen \/ SyncCatch \/ ReadyThen

Keys == (\E line \in Lines : Edit(line)) \/ Enter \/ ArrowUp \/ ArrowDown

WebNext == Sync \/ Keys

\* The browser runs callbacks that are ready, and settles what it has been asked to fetch.
Fairness == WF_webVars(Sync)

WebSpec == WebInit /\ [][WebNext]_webVars /\ Fairness

-----------------------------------------------------------------------------
(* Properties                                                              *)

Packed(list) == {list[i].name : i \in DOMAIN list}

\* The variables have their types; the history index is -1 only while nothing has been
\* entered, and never leads the arrow keys out of the history.
TypeOK ==
    /\ \A n \in DOMAIN files : files[n] \in Seq(Int)
    /\ mode \in {"local", "sync"}
    /\ stage \in Tasks \cup Callbacks
    /\ fetched \in StateLists \cup {<<>>}
    /\ input \in Lines
    /\ history \in Seq(Lines \ {Blank})
    /\ historyIdx \in -1 .. Len(history)
    /\ historyIdx = -1 => history = <<>>

(* What commands are meant to do to files f: a name is there when it was or has been
   created, and its text is what it was and what has been written since. *)
CreatedAt(cmds, n) == {i \in DOMAIN cmds : cmds[i].cmd = "create" /\ cmds[i].name = n}

WrittenAfter(cmds, k, n) ==
    FlattenSeq([i \in 1 .. Len(cmds) - k |->
                  IF cmds[k + i].cmd = "write" /\ cmds[k + i].name = n
                  THEN cmds[k + i].text \o <<Newline>> ELSE <<>>])

Meant(f, cmds) ==
    [n \in DOMAIN f \cup {m \in WebNames : CreatedAt(cmds, m) # {}} |->
        IF n \in DOMAIN f THEN f[n] \o WrittenAfter(cmds, 0, n)
                          ELSE WrittenAfter(cmds, Min(CreatedAt(cmds, n)), n)]

NoFiles == [n \in {} |-> <<>>]

\* The list over the files: the last entry of a name counts.
Replaced(f, list) ==
    [n \in DOMAIN f \cup Packed(list) |->
        IF n \in Packed(list)
        THEN list[Max({i \in DOMAIN list : list[i].name = n})].content ELSE f[n]]

\* The files are what the commands entered have made of nothing; or, in sync mode, what
\* the commands after some point have made of the fetched files over what those before
\* it had made.  So the synchronisation takes effect once, as a whole, between two
\* commands, takes no file away, and what is written after it is never lost.
FilesAreTheHistory ==
    IF mode = "sync"
    THEN \E k \in 0 .. Len(history) :
           files = Meant(Replaced(Meant(NoFiles, SubSeq(history, 1, k)), fetched),
                         SubSeq(history, k + 1, Len(history)))
    ELSE files = Meant(NoFiles, history)

\* The terminal decides for a mode and says that it is ready, whatever becomes of the
\* fetch and whatever the user types meanwhile.
ModeIsDecided == <>[](stage = "ready")
=============================================================================
