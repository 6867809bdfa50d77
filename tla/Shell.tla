-------------------------------- MODULE Shell --------------------------------
(***************************************************************************)
(* The commands of the user shell (src/user/shell.cpp) on top of the file  *)
(* table, which it shares with every other program.  There is no system    *)
(* call that opens a file, so the shell keeps a table of its own with the  *)
(* names and handles of the files it has created.  That table is static:   *)
(* it is neither cleared when the shell exits, nor when shell_main is      *)
(* entered again on top of an activation that waits (see Kernel), so there *)
(* is nothing to model of an exit or a new start.                          *)
(*                                                                         *)
(* A command is one step: the shell makes at most one call that changes    *)
(* the file table, and only "run" waits, after that call.                  *)
(***************************************************************************)
EXTENDS Integers, Sequences

CONSTANTS
    MaxFiles, MaxSize, Names, BadNames, Bytes, Texts, Fds,   \* as in Tfs
    SH_MAX_FILES,   \* entries of the session table
    CatSize         \* sizeof(buf) - 1 in cmd_cat

ASSUME ShellAssumption ==
    /\ MaxFiles \in Nat
    /\ SH_MAX_FILES \in Nat /\ CatSize \in 0 .. MaxSize + 1

VARIABLES
    ready, table, result,   \* the file table
    session,                \* g_files of shell.cpp: [used, name, fd]
    created                 \* history: the names "create" has answered a handle for

T == INSTANCE Tfs

tfsVars == <<ready, table, result>>
vars    == <<tfsVars, session, created>>

Entries == 0 .. SH_MAX_FILES - 1
NoEntry == [used |-> FALSE, name |-> T!NoName, fd |-> 0]

Init ==
    /\ T!Init
    /\ session = [e \in Entries |-> NoEntry]
    /\ created = {}

-----------------------------------------------------------------------------
(* The session table                                                       *)

\* sh_find stops at the first of them, sh_register at the first unused entry.
Registered(n) == {e \in Entries : session[e].used /\ session[e].name = n}

\* A mistake the checks rule out: an entry is taken without a look at its flag.
UnusedOrNot == Entries

Unused == {e \in Entries : ~ session[e].used}

\* A mistake the checks rule out: the name is not looked for first.
sh_register_twice(n, fd) ==
    IF Unused = {}
    THEN UNCHANGED session
    ELSE \E e \in Entries :
           /\ T!IsFirst(e, Unused)
           /\ session' = [session EXCEPT ![e] = [used |-> TRUE, name |-> n, fd |-> fd]]

\* When the table is full the file is not registered.
sh_register(n, fd) ==
    \/ \E e \in Entries :
         /\ T!IsFirst(e, Registered(n))
         /\ session' = [session EXCEPT ![e] = [used |-> TRUE, name |-> n, fd |-> fd]]
    \/ /\ Registered(n) = {}
       /\ IF Unused = {}
          THEN UNCHANGED session
          ELSE \E e \in Entries :
                 /\ T!IsFirst(e, Unused)
                 /\ session' = [session EXCEPT ![e] = [used |-> TRUE, name |-> n, fd |-> fd]]

-----------------------------------------------------------------------------
(* The commands                                                            *)

\* A mistake the checks rule out: a refused create is registered too.
cmd_create_unchecked(n) ==
    /\ T!tfs_create(n)
    /\ sh_register(n, result'.ret)
    /\ created' = created \cup {n}

cmd_create(n) ==
    /\ T!tfs_create(n)
    /\ IF result'.ret < 0
       THEN UNCHANGED <<session, created>>
       ELSE sh_register(n, result'.ret) /\ created' = created \cup {n}

\* A command on a name that is not registered is refused by the shell itself.
cmd_write(n, text) ==
    /\ \E e \in Entries : T!IsFirst(e, Registered(n)) /\ T!tfs_write(session[e].fd, text)
    /\ UNCHANGED <<session, created>>

cmd_cat(n) ==
    /\ \E e \in Entries : T!IsFirst(e, Registered(n)) /\ T!tfs_read(session[e].fd, CatSize)
    /\ UNCHANGED <<session, created>>

\* vfs_run creates the file when there is none; the session table is not asked.
cmd_run(n) ==
    /\ T!tfs_create(n)
    /\ UNCHANGED <<session, created>>

Command ==
    \/ \E n \in Names \cup BadNames : cmd_create(n) \/ cmd_cat(n) \/ cmd_run(n)
    \/ \E n \in Names \cup BadNames : \E text \in Texts : cmd_write(n, text)

\* The kernel, and programs other than the shell.
Others == T!Next /\ UNCHANGED <<session, created>>

Next == Command \/ Others

Spec == Init /\ [][Next]_vars

-----------------------------------------------------------------------------
(* Properties                                                              *)

\* The handle the shell has noted is that of the file of this name, whatever the shell
\* and the other programs do to the file table: a command reaches the file it names.
SessionNamesItsFiles ==
    \A e \in Entries : session[e].used =>
        T!Valid(session[e].fd) /\ table[session[e].fd].name = session[e].name

\* shell.cpp:79, "notes what has been created": a file the shell has created is missing
\* from its table only when the table is full, with as many other files.
CreatedIsRegistered ==
    \A n \in created : Registered(n) # {} \/
        \A e, f \in Entries : /\ session[e].used
                              /\ session[e].name = session[f].name => e = f

\* The entry of a file never moves, changes or vanishes.
EntriesAreForGood ==
    [][\A e \in Entries : session[e].used => session'[e] = session[e]]_vars
=============================================================================
