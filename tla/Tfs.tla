--------------------------------- MODULE Tfs ---------------------------------
(***************************************************************************)
(* The file table of TurboxFS (src/fs/turboxfs.cpp): fixed slots, found by *)
(* name with a linear search, written by appending.  No operation frees a  *)
(* slot.  The table outlives every process; its callers are the system     *)
(* calls (through vfs.cpp and ipc_adapter.cpp), none of which is preempted. *)
(*                                                                         *)
(* A name is a value, a text a sequence; what a pointer that is 0 does is  *)
(* that of a name that is not admitted or of a handle that is not valid.   *)
(***************************************************************************)
EXTENDS Integers, Sequences, FiniteSets

CONSTANTS
    MaxFiles,   \* TFS_MAX_FILES
    MaxSize,    \* TFS_MAX_SIZE
    Names,      \* names of 1 .. TFS_NAME_LEN-1 characters
    BadNames,   \* the null pointer, the empty name, and longer ones
    Bytes,      \* what a file is made of
    Texts,      \* what clients write
    Fds         \* what clients use as a handle

ASSUME TfsAssumption ==
    /\ MaxFiles \in Nat /\ MaxSize \in Nat
    /\ Names \cap BadNames = {}
    /\ Texts \subseteq Seq(Bytes)
    /\ Fds \subseteq Int

VARIABLES
    ready,    \* g_tfs_ready
    table,    \* g_files: [used, name, data], size being the length of data
    result    \* of the latest call: what it returns and what it puts into buf

vars == <<ready, table, result>>

Slots  == 0 .. MaxFiles - 1
NoName == "none"       \* name[0] = '\0'
Unused == [used |-> FALSE, name |-> NoName, data |-> <<>>]

Returns(r) == result' = [ret |-> r, buf |-> <<>>]

-----------------------------------------------------------------------------
\* The static variables before tfs_init are zero.
Init ==
    /\ ready = FALSE
    /\ table = [s \in Slots |-> Unused]
    /\ result = [ret |-> -1, buf |-> <<>>]

\* The start of the kernel is to call it, once, before any process runs.
tfs_init ==
    /\ ~ ready
    /\ ready' = TRUE
    /\ table' = [s \in Slots |-> Unused]
    /\ Returns(0)

\* The slot at which tfs_find, or the search of tfs_create for a slot, stops.
IsFirst(s, S) == s \in S /\ \A t \in S : s <= t

Holders(n) == {s \in Slots : table[s].used /\ table[s].name = n}

\* A mistake the checks rule out: the search begins with the second slot.
FreeSlotsFromOne == {s \in Slots : s > 0 /\ ~ table[s].used}

FreeSlots  == {s \in Slots : ~ table[s].used}

\* A mistake the checks rule out: the table is not searched for the name first.
tfs_create_twice(n) ==
    IF ~ ready \/ n \in BadNames \/ FreeSlots = {}
    THEN Returns(-1) /\ UNCHANGED <<ready, table>>
    ELSE \E s \in Slots :
           /\ IsFirst(s, FreeSlots)
           /\ table' = [table EXCEPT ![s] = [used |-> TRUE, name |-> n, data |-> <<>>]]
           /\ Returns(s)
           /\ UNCHANGED ready

tfs_create(n) ==
    /\ UNCHANGED ready
    /\ \/ /\ ~ ready \/ n \in BadNames
          /\ Returns(-1) /\ UNCHANGED table
       \/ /\ ready /\ n \notin BadNames
          /\ \E s \in Slots : IsFirst(s, Holders(n)) /\ Returns(s)
          /\ UNCHANGED table
       \/ /\ ready /\ n \notin BadNames
          /\ Holders(n) = {}
          /\ IF FreeSlots = {}
             THEN Returns(-1) /\ UNCHANGED table
             ELSE \E s \in Slots :
                    /\ IsFirst(s, FreeSlots)
                    /\ table' = [table EXCEPT
                                   ![s] = [used |-> TRUE, name |-> n, data |-> <<>>]]
                    /\ Returns(s)

Valid(fd) == fd \in Slots /\ table[fd].used

Least(m, n) == IF m <= n THEN m ELSE n

\* A mistake the checks rule out: the text is written though there is no room for it.
tfs_write_untruncated(fd, text) ==
    /\ Valid(fd)
    /\ table' = [table EXCEPT ![fd].data = @ \o text]
    /\ Returns(Len(text))
    /\ UNCHANGED ready

tfs_write(fd, text) ==
    /\ UNCHANGED ready
    /\ IF ~ Valid(fd)
       THEN Returns(-1) /\ UNCHANGED table
       ELSE LET f == table[fd]
                n == Least(Len(text), MaxSize - Len(f.data))
            IN  /\ table' = [table EXCEPT ![fd] =
                               [used |-> f.used, name |-> f.name,
                                data |-> f.data \o SubSeq(text, 1, n)]]
                /\ Returns(n)

tfs_read(fd, len) ==
    /\ UNCHANGED <<ready, table>>
    /\ IF ~ Valid(fd)
       THEN Returns(-1)
       ELSE LET n == Least(len, Len(table[fd].data))
            IN  result' = [ret |-> n, buf |-> SubSeq(table[fd].data, 1, n)]

Next ==
    \/ tfs_init
    \/ \E n \in Names \cup BadNames : tfs_create(n)
    \/ \E fd \in Fds : \E text \in Texts : tfs_write(fd, text)
    \/ \E fd \in Fds : \E len \in 0 .. MaxSize + 1 : tfs_read(fd, len)

Spec == Init /\ [][Next]_vars

-----------------------------------------------------------------------------
(* Properties                                                              *)

\* The variables have their types; no file outgrows its array.
TypeOK ==
    /\ ready \in BOOLEAN
    /\ table \in [Slots -> [used : BOOLEAN, name : Names \cup {NoName}, data : Seq(Bytes)]]
    /\ \A s \in Slots : Len(table[s].data) <= MaxSize

\* The slots in use are those before the free ones: the handles given out are 0, 1, ...
\* in this order, and a handle below a valid one is valid.  HandlesAreCounted rests on it.
UsedIsPrefix ==
    \A s, t \in Slots : s <= t /\ table[t].used => table[s].used

Used == {s \in Slots : table[s].used}

Count == Cardinality(Used)

\* What SysRun and SysCreate of Kernel make of the file table: an old handle, or the next.
Handed(fd) == fd \in 0 .. Count /\ Count' = IF fd = Count THEN Count + 1 ELSE Count

\* Kernel takes the table for a number of files, and may: a handle is valid when it is
\* below the number; tfs_create hands out one of these, or the number itself, which it then
\* raises by one, while the table has room; no other call changes the number.
HandlesAreCounted ==
    [][ /\ \A fd \in Fds : Valid(fd)' <=> fd \in 0 .. Count' - 1
        /\ \A n \in Names : tfs_create(n) /\ result'.ret # -1 => Handed(result'.ret)
        /\ Count' = Count \/ (ready /\ Count < MaxFiles /\ result'.ret = Count /\ Handed(Count))
      ]_vars

F == INSTANCE FileStore WITH
        Handles <- Slots, Asked <- Fds, Tried <- Names \cup BadNames,
        open <- ready,
        store <- [s \in Used |-> [name |-> table[s].name, data |-> table[s].data]]

\* The table implements FileStore: two files never have the same name, a handle names
\* the same file for good, and nothing that has been written is lost or reordered,
\* whatever the order of calls that create, find, fill and read files.
FileStoreSpec == F!Spec
=============================================================================
