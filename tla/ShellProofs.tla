----------------------------- MODULE ShellProofs -----------------------------
(***************************************************************************)
(* Proofs about the two shells.  About Shell, for any number of files,     *)
(* entries and names: what is needed of the file table is that a name is   *)
(* held by one slot at most, that used slots keep their names, and that    *)
(* tfs_create answers the slot of the name; the contents of the files play *)
(* no part.  About Terminal, for any names and texts, any lists of files   *)
(* that the state file may hold, and histories of any length.              *)
(***************************************************************************)
EXTENDS Shell, Terminal, Induction

\* The table maps the slots; names are distinct; only tfs_init makes room for files.
TableInv ==
    /\ table = [s \in T!Slots |-> table[s]]
    /\ \A s, t \in T!Slots :
         table[s].used /\ table[t].used /\ table[s].name = table[t].name => s = t
    /\ \A s \in T!Slots : table[s].used => ready

\* The files keep their slots and their names.
FilesStay ==
    \A s \in T!Slots : table[s].used => table'[s].used /\ table'[s].name = table[s].name

Asked == Names \cup BadNames

SessionEntry == [used : BOOLEAN, name : Asked \cup {T!NoName}, fd : Int]

SessionType == session \in [Entries -> SessionEntry]

\* No name has two entries.
EntriesDistinct ==
    \A e, f \in Entries :
        session[e].used /\ session[f].used /\ session[e].name = session[f].name => e = f

IInv ==
    /\ TableInv
    /\ SessionType
    /\ SessionNamesItsFiles
    /\ EntriesDistinct
    /\ CreatedIsRegistered

-----------------------------------------------------------------------------
(* The file table.                                                         *)

\* A slot that becomes a file of a new name.
LEMMA NewFile ==
    ASSUME TableInv, ready, UNCHANGED ready, NEW n, T!Holders(n) = {},
           NEW s \in T!Slots, ~ table[s].used,
           table' = [table EXCEPT ![s] = [used |-> TRUE, name |-> n, data |-> <<>>]]
    PROVE  TableInv' /\ FilesStay /\ table'[s].used /\ table'[s].name = n
<1> DEFINE new == [used |-> TRUE, name |-> n, data |-> <<>>]
<1>1. new.used /\ new.name = n
  OBVIOUS
<1>2. table' = [table EXCEPT ![s] = new]
  OBVIOUS
<1> HIDE DEF new
<1>3. \A t \in T!Slots : table'[t] = IF t = s THEN new ELSE table[t]
  BY <1>2 DEF TableInv
<1>4. table' = [t \in T!Slots |-> table'[t]]
  BY <1>2, <1>3 DEF TableInv
<1>5. \A t \in T!Slots : table[t].used => table[t].name # n
  BY DEF T!Holders
<1>6. QED
  BY <1>1, <1>3, <1>4, <1>5 DEF TableInv, FilesStay

\* tfs_create: what it does to the table, and what it answers.
LEMMA CreateStep ==
    ASSUME TableInv, NEW n, T!tfs_create(n)
    PROVE  /\ TableInv' /\ FilesStay
           /\ ~ (result'.ret < 0) => /\ result'.ret \in T!Slots
                                     /\ table'[result'.ret].used
                                     /\ table'[result'.ret].name = n
<1>1. CASE T!Returns(-1) /\ UNCHANGED <<ready, table>>
  <2>1. result'.ret = -1
    BY <1>1 DEF T!Returns
  <2>2. QED
    BY <1>1, <2>1 DEF TableInv, FilesStay
<1>2. CASE \E s \in T!Slots : T!IsFirst(s, T!Holders(n)) /\ T!Returns(s) /\ UNCHANGED <<ready, table>>
  <2>1. PICK s \in T!Slots : T!IsFirst(s, T!Holders(n)) /\ T!Returns(s) /\ UNCHANGED <<ready, table>>
    BY <1>2
  <2>2. result'.ret = s
    BY <2>1 DEF T!Returns
  <2>3. table[s].used /\ table[s].name = n
    BY <2>1 DEF T!IsFirst, T!Holders
  <2>4. QED
    BY <2>1, <2>2, <2>3 DEF TableInv, FilesStay
<1>3. CASE /\ ready /\ UNCHANGED ready /\ T!Holders(n) = {}
           /\ \E s \in T!Slots :
                /\ T!IsFirst(s, T!FreeSlots)
                /\ table' = [table EXCEPT ![s] = [used |-> TRUE, name |-> n, data |-> <<>>]]
                /\ T!Returns(s)
  <2>1. PICK s \in T!Slots :
             /\ T!IsFirst(s, T!FreeSlots)
             /\ table' = [table EXCEPT ![s] = [used |-> TRUE, name |-> n, data |-> <<>>]]
             /\ T!Returns(s)
    BY <1>3
  <2>2. result'.ret = s
    BY <2>1 DEF T!Returns
  <2>3. ~ table[s].used
    BY <2>1 DEF T!IsFirst, T!FreeSlots
  <2>4. TableInv' /\ FilesStay /\ table'[s].used /\ table'[s].name = n
    BY <1>3, <2>1, <2>3, NewFile
  <2>5. QED
    BY <2>2, <2>4
<1>4. QED
  BY <1>1, <1>2, <1>3 DEF T!tfs_create

\* tfs_write changes no name.
LEMMA WriteStep ==
    ASSUME TableInv, NEW fd, NEW text, T!tfs_write(fd, text)
    PROVE  TableInv' /\ FilesStay
<1>1. CASE ~ T!Valid(fd)
  BY <1>1 DEF T!tfs_write, TableInv, FilesStay
<1>2. CASE T!Valid(fd)
  <2>1. PICK data : table' = [table EXCEPT ![fd] =
                      [used |-> table[fd].used, name |-> table[fd].name, data |-> data]]
    BY <1>2 DEF T!tfs_write
  <2> DEFINE new == [used |-> table[fd].used, name |-> table[fd].name, data |-> data]
  <2>2. new.used = table[fd].used /\ new.name = table[fd].name
    OBVIOUS
  <2>3. table' = [table EXCEPT ![fd] = new]
    BY <2>1
  <2> HIDE DEF new
  <2>4. fd \in T!Slots /\ UNCHANGED ready
    BY <1>2 DEF T!Valid, T!tfs_write
  <2>5. \A t \in T!Slots : table'[t] = IF t = fd THEN new ELSE table[t]
    BY <2>3, <2>4 DEF TableInv
  <2>6. \A t \in T!Slots : table'[t].used = table[t].used /\ table'[t].name = table[t].name
    BY <2>2, <2>5
  <2>7. table' = [t \in T!Slots |-> table'[t]]
    BY <2>3, <2>5 DEF TableInv
  <2>8. QED
    BY <2>4, <2>6, <2>7 DEF TableInv, FilesStay
<1>3. QED
  BY <1>1, <1>2

\* Every step of the file table.
LEMMA TableStep ==
    ASSUME TableInv, T!Next
    PROVE  TableInv' /\ FilesStay
<1>1. CASE T!tfs_init
  <2>1. \A s \in T!Slots : ~ table[s].used
    BY <1>1 DEF T!tfs_init, TableInv
  <2>2. table' = [s \in T!Slots |-> T!Unused] /\ ~ T!Unused.used
    BY <1>1 DEF T!tfs_init, T!Unused
  <2>3. \A s \in T!Slots : table'[s] = T!Unused
    BY <2>2
  <2>4. table' = [s \in T!Slots |-> table'[s]]
    BY <2>2, <2>3
  <2>5. \A s \in T!Slots : ~ table'[s].used
    BY <2>2, <2>3
  <2>6. QED
    BY <2>1, <2>4, <2>5 DEF TableInv, FilesStay
<1>2. ASSUME NEW n \in Names \cup BadNames, T!tfs_create(n)
      PROVE  TableInv' /\ FilesStay
  BY <1>2, CreateStep
<1>3. ASSUME NEW fd \in Fds, NEW text \in Texts, T!tfs_write(fd, text)
      PROVE  TableInv' /\ FilesStay
  BY <1>3, WriteStep
<1>4. ASSUME NEW fd \in Fds, NEW len \in 0 .. MaxSize + 1, T!tfs_read(fd, len)
      PROVE  TableInv' /\ FilesStay
  BY <1>4 DEF T!tfs_read, TableInv, FilesStay
<1>5. QED
  BY <1>1, <1>2, <1>3, <1>4 DEF T!Next

-----------------------------------------------------------------------------
(* The session table.                                                      *)

\* Where only the file table changes, the notes of the shell stay good.
LEMMA SessionStays ==
    ASSUME IInv, TableInv', FilesStay, UNCHANGED <<session, created>>
    PROVE  IInv'
<1>1. SessionNamesItsFiles'
  BY DEF IInv, SessionNamesItsFiles, FilesStay, T!Valid
<1>2. EntriesDistinct' /\ SessionType'
  BY DEF IInv, EntriesDistinct, SessionType
<1>3. CreatedIsRegistered'
  BY DEF IInv, CreatedIsRegistered, Registered
<1>4. QED
  BY <1>1, <1>2, <1>3 DEF IInv

\* An entry that is written with the name and the slot of a file.
LEMMA EntryWritten ==
    ASSUME IInv, TableInv', FilesStay, NEW n \in Asked, NEW fd \in T!Slots,
           table'[fd].used, table'[fd].name = n,
           NEW e \in Entries,
           session' = [session EXCEPT ![e] = [used |-> TRUE, name |-> n, fd |-> fd]],
           \A f \in Entries : session[f].used /\ session[f].name = n => f = e,
           session[e].used => session[e].name = n
    PROVE  /\ SessionType' /\ SessionNamesItsFiles' /\ EntriesDistinct'
           /\ session'[e].used /\ session'[e].name = n
           /\ \A f \in Entries : session[f].used => session'[f] = session[f]
<1> DEFINE new == [used |-> TRUE, name |-> n, fd |-> fd]
<1>1. new \in SessionEntry /\ new.used /\ new.name = n /\ new.fd = fd
  BY DEF SessionEntry, T!Slots
<1>2. session' = [session EXCEPT ![e] = new]
  OBVIOUS
<1>3. \A f \in Entries : session[f].used => T!Valid(session[f].fd)
                                            /\ table[session[f].fd].name = session[f].name
  BY DEF IInv, SessionNamesItsFiles
<1>4. session \in [Entries -> SessionEntry]
  BY DEF IInv, SessionType
<1> HIDE DEF new
<1>5. \A f \in Entries : session'[f] = IF f = e THEN new ELSE session[f]
  BY <1>2, <1>4
<1>6. SessionType'
  BY <1>1, <1>2, <1>4 DEF SessionType
<1>7. SessionNamesItsFiles'
  BY <1>1, <1>3, <1>5 DEF SessionNamesItsFiles, FilesStay, T!Valid
<1>8. EntriesDistinct'
  BY <1>1, <1>5 DEF IInv, EntriesDistinct
<1>9. session[e].used => session[e] = new
  <2> SUFFICES ASSUME session[e].used PROVE session[e] = new
    OBVIOUS
  <2>1. session[e].fd \in T!Slots /\ table'[session[e].fd].used
        /\ table'[session[e].fd].name = n
    BY <1>3 DEF FilesStay, T!Valid
  <2>2. session[e].fd = fd
    BY <2>1 DEF TableInv
  <2>3. session[e] \in SessionEntry /\ session[e].name = n
    BY <1>4
  <2>4. QED
    BY <2>2, <2>3 DEF new, SessionEntry
<1>10. QED
  BY <1>1, <1>5, <1>6, <1>7, <1>8, <1>9

\* sh_register with what tfs_create has answered.
LEMMA RegisterStep ==
    ASSUME IInv, TableInv', FilesStay, NEW n \in Asked, NEW fd \in T!Slots,
           table'[fd].used, table'[fd].name = n, sh_register(n, fd),
           created' = created \cup {n}
    PROVE  IInv' /\ \A f \in Entries : session[f].used => session'[f] = session[f]
<1>1. ASSUME NEW e \in Entries,
             session' = [session EXCEPT ![e] = [used |-> TRUE, name |-> n, fd |-> fd]],
             \A f \in Entries : session[f].used /\ session[f].name = n => f = e,
             session[e].used => session[e].name = n
      PROVE  IInv' /\ \A f \in Entries : session[f].used => session'[f] = session[f]
  <2>1. /\ SessionType' /\ SessionNamesItsFiles' /\ EntriesDistinct'
        /\ session'[e].used /\ session'[e].name = n
        /\ \A f \in Entries : session[f].used => session'[f] = session[f]
    BY <1>1, EntryWritten
  <2>2. Registered(n)' # {}
    BY <2>1 DEF Registered
  <2>3. ASSUME NEW m \in created, Registered(m) # {}
        PROVE  Registered(m)' # {}
    BY <2>1, <2>3 DEF Registered
  <2>4. ASSUME NEW m \in created,
               \A f, g \in Entries : session[f].used
                                     /\ (session[f].name = session[g].name => f = g)
        PROVE  \A f, g \in Entries : session'[f].used
                                     /\ (session'[f].name = session'[g].name => f = g)
    BY <2>1, <2>4
  <2>5. CreatedIsRegistered'
    BY <2>2, <2>3, <2>4 DEF IInv, CreatedIsRegistered, Registered
  <2>6. QED
    BY <2>1, <2>5 DEF IInv
<1>2. CASE \E e \in Entries :
             /\ T!IsFirst(e, Registered(n))
             /\ session' = [session EXCEPT ![e] = [used |-> TRUE, name |-> n, fd |-> fd]]
  <2>1. PICK e \in Entries :
             /\ T!IsFirst(e, Registered(n))
             /\ session' = [session EXCEPT ![e] = [used |-> TRUE, name |-> n, fd |-> fd]]
    BY <1>2
  <2>2. session[e].used /\ session[e].name = n
    BY <2>1 DEF T!IsFirst, Registered
  <2>3. \A f \in Entries : session[f].used /\ session[f].name = n => f = e
    BY <2>2 DEF IInv, EntriesDistinct
  <2>4. QED
    BY <1>1, <2>1, <2>2, <2>3
<1>3. CASE /\ Registered(n) = {}
           /\ \E e \in Entries :
                /\ T!IsFirst(e, Unused)
                /\ session' = [session EXCEPT ![e] = [used |-> TRUE, name |-> n, fd |-> fd]]
  <2>1. PICK e \in Entries :
             /\ T!IsFirst(e, Unused)
             /\ session' = [session EXCEPT ![e] = [used |-> TRUE, name |-> n, fd |-> fd]]
    BY <1>3
  <2>2. ~ session[e].used
    BY <2>1 DEF T!IsFirst, Unused
  <2>3. \A f \in Entries : ~ (session[f].used /\ session[f].name = n)
    BY <1>3 DEF Registered
  <2>4. QED
    BY <1>1, <2>1, <2>2, <2>3
<1>4. CASE Unused = {} /\ UNCHANGED session
  <2>1. \A f \in Entries : session[f].used
    BY <1>4 DEF Unused
  <2>2. \A f, g \in Entries : session[f].name = session[g].name => f = g
    BY <2>1 DEF IInv, EntriesDistinct
  <2>3. CreatedIsRegistered'
    BY <1>4, <2>1, <2>2 DEF CreatedIsRegistered
  <2>4. SessionNamesItsFiles' /\ EntriesDistinct' /\ SessionType'
    BY <1>4 DEF IInv, SessionNamesItsFiles, EntriesDistinct, SessionType, FilesStay, T!Valid
  <2>5. QED
    BY <1>4, <2>3, <2>4 DEF IInv
<1>5. QED
  BY <1>2, <1>3, <1>4 DEF sh_register

-----------------------------------------------------------------------------
(* The invariant.                                                          *)

\* Both tables start empty.
LEMMA InitInv == Init => IInv
<1> SUFFICES ASSUME Init PROVE IInv
  OBVIOUS
<1>1. \A s \in T!Slots : table[s] = T!Unused /\ ~ T!Unused.used
  BY DEF Init, T!Init, T!Unused
<1>2. table = [s \in T!Slots |-> table[s]]
  BY DEF Init, T!Init
<1>3. TableInv
  BY <1>1, <1>2 DEF TableInv
<1>4. session = [e \in Entries |-> NoEntry] /\ NoEntry \in SessionEntry /\ ~ NoEntry.used
  BY DEF Init, NoEntry, SessionEntry
<1>5. SessionType /\ \A e \in Entries : ~ session[e].used
  BY <1>4 DEF SessionType
<1>6. created = {}
  BY DEF Init
<1>7. QED
  BY <1>3, <1>5, <1>6 DEF IInv, SessionNamesItsFiles, EntriesDistinct, CreatedIsRegistered

\* A step keeps the invariant, and the entries.
LEMMA NextInv ==
    ASSUME IInv, [Next]_vars
    PROVE  IInv' /\ \A e \in Entries : session[e].used => session'[e] = session[e]
<1>1. ASSUME NEW n \in Asked, cmd_create(n)
      PROVE  IInv' /\ \A e \in Entries : session[e].used => session'[e] = session[e]
  <2>1. /\ TableInv' /\ FilesStay
        /\ ~ (result'.ret < 0) => /\ result'.ret \in T!Slots
                                  /\ table'[result'.ret].used
                                  /\ table'[result'.ret].name = n
    BY <1>1, CreateStep DEF cmd_create, IInv
  <2>2. CASE result'.ret < 0
    BY <1>1, <2>1, <2>2, SessionStays DEF cmd_create
  <2>3. CASE ~ (result'.ret < 0)
    <3>1. result'.ret \in T!Slots /\ table'[result'.ret].used /\ table'[result'.ret].name = n
      BY <2>1, <2>3
    <3>2. QED
      BY <1>1, <2>1, <2>3, <3>1, RegisterStep DEF cmd_create
  <2>4. QED
    BY <2>2, <2>3
<1>2. ASSUME NEW n \in Asked, cmd_cat(n)
      PROVE  IInv' /\ \A e \in Entries : session[e].used => session'[e] = session[e]
  <2>1. UNCHANGED <<ready, table>> /\ UNCHANGED <<session, created>>
    BY <1>2 DEF cmd_cat, T!tfs_read
  <2>2. TableInv' /\ FilesStay
    BY <2>1 DEF IInv, TableInv, FilesStay
  <2>3. QED
    BY <2>1, <2>2, SessionStays
<1>3. ASSUME NEW n \in Asked, cmd_run(n)
      PROVE  IInv' /\ \A e \in Entries : session[e].used => session'[e] = session[e]
  <2>1. TableInv' /\ FilesStay
    BY <1>3, CreateStep DEF cmd_run, IInv
  <2>2. QED
    BY <1>3, <2>1, SessionStays DEF cmd_run
<1>4. ASSUME NEW n \in Asked, NEW text \in Texts, cmd_write(n, text)
      PROVE  IInv' /\ \A e \in Entries : session[e].used => session'[e] = session[e]
  <2>1. TableInv' /\ FilesStay
    BY <1>4, WriteStep DEF cmd_write, IInv
  <2>2. QED
    BY <1>4, <2>1, SessionStays DEF cmd_write
<1>5. CASE Others
  <2>1. TableInv' /\ FilesStay
    BY <1>5, TableStep DEF Others, IInv
  <2>2. QED
    BY <1>5, <2>1, SessionStays DEF Others
<1>6. CASE UNCHANGED vars
  <2>1. UNCHANGED <<ready, table>> /\ UNCHANGED <<session, created>>
    BY <1>6 DEF vars, tfsVars
  <2>2. TableInv' /\ FilesStay
    BY <2>1 DEF IInv, TableInv, FilesStay
  <2>3. QED
    BY <2>1, <2>2, SessionStays
<1>7. QED
  BY <1>1, <1>2, <1>3, <1>4, <1>5, <1>6 DEF Next, Command, Asked

\* The inductive invariant of the shell over the file table.
THEOREM Invariant == Spec => []IInv
<1>1. IInv /\ [Next]_vars => IInv'
  BY NextInv
<1>2. QED
  BY <1>1, InitInv, PTL DEF Spec

\* A name in the session table leads to the file of this name.
THEOREM HandlesAreGood == Spec => []SessionNamesItsFiles
<1>1. IInv => SessionNamesItsFiles
  BY DEF IInv
<1>2. QED
  BY <1>1, Invariant, PTL

\* What has been created is in the session table, unless that is full with other files.
THEOREM NothingForgotten == Spec => []CreatedIsRegistered
<1>1. IInv => CreatedIsRegistered
  BY DEF IInv
<1>2. QED
  BY <1>1, Invariant, PTL

\* Entries neither move, change nor vanish.
THEOREM EntriesStay == Spec => EntriesAreForGood
<1>1. IInv /\ [Next]_vars =>
        [\A e \in Entries : session[e].used => session'[e] = session[e]]_vars
  BY NextInv
<1>2. QED
  BY <1>1, Invariant, PTL DEF Spec, EntriesAreForGood

-----------------------------------------------------------------------------
(* The web terminal.                                                       *)

WebEntry == [name : Seq(Int), content : Seq(Int)]

\* Files are texts under names.
AreFiles(f) == f = [n \in DOMAIN f |-> f[n]] /\ \A n \in DOMAIN f : f[n] \in Seq(Int)

\* One file is set.
LEMMA WithFile ==
    ASSUME NEW f, AreFiles(f), NEW n, NEW content \in Seq(Int), NEW g, g = With(f, n, content)
    PROVE  /\ AreFiles(g) /\ DOMAIN g = DOMAIN f \cup {n} /\ g[n] = content
           /\ \A m \in DOMAIN f : m # n => g[m] = f[m]
  BY DEF AreFiles, With

\* The first k entries of a list laid over f: the last one of a name counts.
FirstOver(f, list, k) ==
    [n \in DOMAIN f \cup {list[i].name : i \in 1 .. k} |->
        IF n \in {list[i].name : i \in 1 .. k}
        THEN list[Max({i \in 1 .. k : list[i].name = n})].content ELSE f[n]]

\* One more entry.
LEMMA OneMore ==
    ASSUME NEW list \in Seq(WebEntry), NEW f, AreFiles(f), NEW k \in 1 .. Len(list),
           AreFiles(FirstOver(f, list, k - 1))
    PROVE  /\ FirstOver(f, list, k)
                = With(FirstOver(f, list, k - 1), list[k].name, list[k].content)
           /\ AreFiles(FirstOver(f, list, k))
<1>1. PICK j \in Nat : j = k - 1 /\ k = j + 1
  OBVIOUS
<1>2. PICK e \in WebEntry : e = list[k]
  BY ElementOfSeq
<1>3. PICK g : g = FirstOver(f, list, j)
  OBVIOUS
<1>4. PICK h : h = FirstOver(f, list, k)
  OBVIOUS
<1> DEFINE Among(i) == {list[x].name : x \in 1 .. i}
           At(i, n) == {x \in 1 .. i : list[x].name = n}
<1>5. Among(k) = Among(j) \cup {e.name}
  <2>1. 1 .. k = 1 .. j \cup {k}
    BY <1>1
  <2> QED  BY <1>2, <2>1
<1>6. /\ DOMAIN g = DOMAIN f \cup Among(j)
      /\ \A n \in DOMAIN g : g[n] = IF n \in Among(j) THEN list[Max(At(j, n))].content ELSE f[n]
  BY <1>3 DEF FirstOver
<1>7. /\ DOMAIN h = DOMAIN f \cup Among(k) /\ h = [n \in DOMAIN h |-> h[n]]
      /\ \A n \in DOMAIN h : h[n] = IF n \in Among(k) THEN list[Max(At(k, n))].content ELSE f[n]
  BY <1>4 DEF FirstOver
<1>8. h[e.name] = e.content
  <2>1. k \in At(k, e.name) /\ At(k, e.name) \in SUBSET (1 .. j + 1) /\ e.name \in Among(k)
    BY <1>1, <1>2, <1>5
  <2>2. Max(At(k, e.name)) = k
    <3> HIDE DEF At
    <3> QED  BY <1>1, <2>1, Turns
  <2> QED  BY <1>2, <1>7, <2>1, <2>2
<1>9. ASSUME NEW n \in DOMAIN g, n # e.name PROVE h[n] = g[n]
  <2>1. At(k, n) = At(j, n)
    <3>1. 1 .. k = 1 .. j \cup {k}
      BY <1>1
    <3> QED  BY <1>2, <1>9, <3>1
  <2>2. n \in Among(k) <=> n \in Among(j)
    BY <1>5, <1>9
  <2> HIDE DEF At, Among
  <2> QED  BY <1>5, <1>6, <1>7, <1>9, <2>1, <2>2
<1> HIDE DEF At, Among
<1>10. DOMAIN h = DOMAIN g \cup {e.name}
  BY <1>5, <1>6, <1>7
<1>11. h = With(g, e.name, e.content)
  <2>1. ASSUME NEW n \in DOMAIN h PROVE h[n] = IF n = e.name THEN e.content ELSE g[n]
    BY <1>8, <1>9, <1>10
  <2> QED  BY <1>7, <1>10, <2>1 DEF With
<1>12. AreFiles(h)
  <2>1. e.content \in Seq(Int) /\ AreFiles(g)
    BY <1>1, <1>2, <1>3 DEF WebEntry
  <2> QED  BY <1>11, <2>1, WithFile
<1> QED  BY <1>1, <1>2, <1>3, <1>4, <1>11, <1>12

\* The loop over the list lays all of it over the files.
LEMMA ListIsLaid ==
    ASSUME NEW list \in Seq(WebEntry), NEW f, AreFiles(f)
    PROVE  /\ Overlaid(f, list) = FirstOver(f, list, Len(list))
           /\ AreFiles(Overlaid(f, list))
<1> DEFINE n    == Len(list)
           A    == DOMAIN f \cup {list[i].name : i \in 1 .. n}
           S    == UNION {[d -> Seq(Int)] : d \in SUBSET A}
           body == [x \in (1 .. n) \X S |-> With(x[2], list[x[1]].name, list[x[1]].content)]
           Eq(g) == g = [t \in SUBSET DOMAIN list |->
                           IF t = {} THEN f
                           ELSE With(g[t \ {Max(t)}], list[Max(t)].name, list[Max(t)].content)]
           fold == CHOOSE g : Eq(g)
<1>1. n \in Nat /\ DOMAIN list = 1 .. n /\ \A i \in 1 .. n : list[i] \in WebEntry
  BY LenProperties, ElementOfSeq
<1>2. f \in S
  BY DEF AreFiles
<1>3. ASSUME NEW g \in S PROVE AreFiles(g) /\ DOMAIN g \subseteq A
  <2>1. PICK d \in SUBSET A : g \in [d -> Seq(Int)]
    BY <1>3
  <2> HIDE DEF A, S
  <2> QED  BY <2>1 DEF AreFiles
<1>4. ASSUME NEW g, AreFiles(g), DOMAIN g \subseteq A PROVE g \in S
  <2>1. g \in [DOMAIN g -> Seq(Int)]
    BY <1>4 DEF AreFiles
  <2> HIDE DEF A
  <2> QED  BY <1>4, <2>1
<1>5. body \in [(1 .. n) \X S -> S]
  <2>1. ASSUME NEW k \in 1 .. n, NEW g \in S
        PROVE  With(g, list[k].name, list[k].content) \in S
    <3>1. list[k].content \in Seq(Int) /\ list[k].name \in A
      BY <1>1 DEF WebEntry
    <3>2. PICK m \in A, content \in Seq(Int) : m = list[k].name /\ content = list[k].content
      BY <3>1
    <3>3. PICK h : h = With(g, m, content)
      OBVIOUS
    <3> HIDE DEF A, S, n
    <3>4. AreFiles(g) /\ DOMAIN g \subseteq A
      BY <1>3
    <3>5. AreFiles(h) /\ DOMAIN h = DOMAIN g \cup {m}
      BY <3>3, <3>4, WithFile
    <3> QED  BY <1>4, <3>2, <3>3, <3>4, <3>5
  <2> HIDE DEF S, n
  <2> QED  BY <2>1
<1>6. Overlaid(f, list) = fold[DOMAIN list]
  BY DEF Overlaid, FoldLeft, MapThenFoldSet, Max
<1>7. Eq(fold)
  <2>1. PICK it \in [SUBSET (1 .. n) -> S] : Iterates(it, n, f, body)
    <3> HIDE DEF S, body, n
    <3> QED  BY <1>1, <1>2, <1>5, LoopExists
  <2>2. ASSUME NEW t \in SUBSET (1 .. n)
        PROVE  it[t] = IF t = {} THEN f
                       ELSE With(it[t \ {Max(t)}], list[Max(t)].name, list[Max(t)].content)
    <3> HIDE DEF S
    <3>1. CASE t = {}
      <4> HIDE DEF body, n
      <4> QED  BY <2>1, <3>1 DEF Iterates
    <3>2. CASE t # {}
      <4>1. PICK x, r : x = Max(t) /\ r = t \ {Max(t)}
        OBVIOUS
      <4>2. x \in 1 .. n /\ r \in SUBSET (1 .. n)
        <5>1. Max(t) \in t /\ t \ {Max(t)} \in SUBSET (1 .. n)
          <6> HIDE DEF n
          <6> QED  BY <1>1, <3>2, LastTurn
        <5> QED  BY <4>1, <5>1
      <4>3. it[t] = body[<<x, it[r]>>]
        <5> HIDE DEF body, n
        <5> QED  BY <2>1, <3>2, <4>1 DEF Iterates
      <4>4. it[r] \in S
        BY <2>1, <4>2
      <4> QED  BY <3>2, <4>1, <4>2, <4>3, <4>4
    <3> QED  BY <3>1, <3>2
  <2>3. Eq(it)
    <3>1. it = [t \in SUBSET DOMAIN list |-> it[t]]
      BY <1>1, <2>1
    <3> HIDE DEF n, S, body
    <3> QED  BY <1>1, <2>2, <3>1
  <2> HIDE DEF Eq
  <2> QED  BY <2>3
<1> HIDE DEF fold
<1>8. PICK run \in [0 .. n -> S] : Runs(run, n, f, body, fold[1 .. n])
  <2>1. fold[{}] = f
    <3>1. {} \in SUBSET DOMAIN list
      OBVIOUS
    <3> QED  BY <1>7, <3>1
  <2>2. ASSUME NEW t \in SUBSET (1 .. n), t # {}, fold[t \ {Max(t)}] \in S
        PROVE  fold[t] = body[<<Max(t), fold[t \ {Max(t)}]>>]
    <3>1. Max(t) \in 1 .. n
      <4> HIDE DEF n
      <4> QED  BY <1>1, <2>2, LastTurn
    <3>2. fold[t] = With(fold[t \ {Max(t)}], list[Max(t)].name, list[Max(t)].content)
      BY <1>1, <1>7, <2>2
    <3> HIDE DEF S
    <3> QED  BY <2>2, <3>1, <3>2
  <2>3. Folds(fold, n, S, f, body)
    <3> HIDE DEF S, body, n
    <3> QED  BY <2>1, <2>2 DEF Folds
  <2> HIDE DEF S, body, n
  <2> QED  BY <1>1, <1>2, <1>5, <2>3, FoldRuns
<1> DEFINE Good == {k \in 0 .. n : run[k] = FirstOver(f, list, k) /\ AreFiles(run[k])}
<1>9. 0 \in Good
  <2>1. FirstOver(f, list, 0) = f
    <3>1. 1 .. 0 = {}
      OBVIOUS
    <3> QED  BY <3>1 DEF FirstOver, AreFiles
  <2>2. 0 \in 0 .. n
    BY <1>1
  <2> HIDE DEF n
  <2> QED  BY <1>8, <2>1, <2>2 DEF Runs
<1>10. ASSUME NEW k \in 1 .. n, k - 1 \in Good PROVE k \in Good
  <2>1. k - 1 \in 0 .. n /\ k \in 0 .. n
    BY <1>1
  <2>2. run[k - 1] \in S /\ run[k - 1] = FirstOver(f, list, k - 1) /\ AreFiles(run[k - 1])
    <3> HIDE DEF S
    <3> QED  BY <1>8, <1>10, <2>1
  <2>3. run[k] = With(run[k - 1], list[k].name, list[k].content)
    <3> HIDE DEF S
    <3>1. run[k] = body[<<k, run[k - 1]>>]
      BY <1>8 DEF Runs
    <3> QED  BY <2>2, <3>1
  <2>4. /\ FirstOver(f, list, k)
             = With(FirstOver(f, list, k - 1), list[k].name, list[k].content)
        /\ AreFiles(FirstOver(f, list, k))
    BY <2>2, OneMore
  <2> QED  BY <2>1, <2>2, <2>3, <2>4
<1>11. n \in Good
  <2> HIDE DEF Good, n
  <2>1. n \in 0 .. n
    BY <1>1
  <2> QED  BY <1>1, <1>9, <1>10, <2>1, UpTo
<1> HIDE DEF S
<1> QED  BY <1>1, <1>6, <1>8, <1>11 DEF Runs

\* What the list makes of files is what the property says.
LEMMA OverlaidReplaces ==
    ASSUME NEW list \in Seq(WebEntry), NEW f, AreFiles(f)
    PROVE  Overlaid(f, list) = Replaced(f, list) /\ AreFiles(Overlaid(f, list))
<1>1. DOMAIN list = 1 .. Len(list)
  BY LenProperties
<1>2. FirstOver(f, list, Len(list)) = Replaced(f, list)
  BY <1>1 DEF FirstOver, Replaced, Packed, Max
<1> QED  BY <1>2, ListIsLaid

\* A line is a command of one of four kinds, and what it writes is a text.
LEMMA LinesAreCommands ==
    ASSUME NEW c \in Lines
    PROVE  /\ c.cmd \in {"create", "write", "other", "blank"}
           /\ c.cmd = "create" => c.name \in WebNames
           /\ c.cmd = "write" => c.text \o <<Newline>> \in Seq(Int)
<1>1. \A text \in WebTexts : text \o <<Newline>> \in Seq(Int)
  <2>1. <<Newline>> \in Seq(Int) /\ \A text \in WebTexts : text \in Seq(Int)
    BY TerminalAssumption DEF TerminalAssumption
  <2> QED  BY <2>1, ConcatProperties
<1> QED  BY <1>1 DEF Lines, Line, Blank, Prints

\* What the command c writes to the file n.
Written(c, n) ==
    IF c.cmd = "write" /\ c.name = n THEN c.text \o <<Newline>> ELSE <<>>

\* One command more writes behind what the commands before it have written.
WritesMore(cmds, c, n, k) ==
    /\ WrittenAfter(cmds, k, n) \in Seq(Int)
    /\ WrittenAfter(Append(cmds, c), k, n) = WrittenAfter(cmds, k, n) \o Written(c, n)

\* This holds of every command, wherever the counting starts.
LEMMA WrittenNext ==
    ASSUME NEW cmds \in Seq(Lines), NEW c \in Lines,
           NEW n, NEW k \in 0 .. Len(cmds)
    PROVE  WritesMore(cmds, c, n, k)
<1> DEFINE more == Append(cmds, c)
<1> DEFINE L == Len(cmds)
           ss == [i \in 1 .. L - k |-> Written(cmds[k + i], n)]
           tt == [i \in 1 .. L + 1 - k |-> Written(more[k + i], n)]
<1>1. /\ L \in Nat /\ k \in Nat /\ L - k \in Nat /\ L + 1 - k \in Nat /\ L + 1 - k = (L - k) + 1
      /\ Len(more) = L + 1 /\ more \in Seq(Lines) /\ more[L + 1] = c
      /\ \A i \in 1 .. L : more[i] = cmds[i]
  BY LenProperties, AppendProperties
<1> HIDE DEF L, more
<1>2. ASSUME NEW d \in Lines PROVE Written(d, n) \in Seq(Int)
  BY LinesAreCommands DEF Written
<1>3. \A i \in 1 .. L + 1 : more[i] \in Lines
  BY <1>1, ElementOfSeq
<1>4. tt \in Seq(Seq(Int)) /\ Len(tt) = L + 1 - k
  <2>1. ASSUME NEW i \in 1 .. L + 1 - k PROVE Written(more[k + i], n) \in Seq(Int)
    <3>1. k + i \in 1 .. L + 1
      BY <1>1
    <3> QED  BY <1>2, <1>3, <3>1
  <2> DEFINE e(i) == Written(more[k + i], n)
  <2>2. \A i \in 1 .. L + 1 - k : e(i) \in Seq(Int)
    BY <2>1
  <2> HIDE DEF e
  <2>3. [i \in 1 .. L + 1 - k |-> e(i)] \in Seq(Seq(Int))
    BY <1>1, <2>2, IsASeq
  <2>4. tt \in Seq(Seq(Int))
    BY <2>3 DEF e
  <2>5. DOMAIN tt = 1 .. L + 1 - k
    OBVIOUS
  <2> HIDE DEF tt
  <2> QED  BY <1>1, <2>4, <2>5, LenProperties
<1>5. ss \in Seq(Seq(Int)) /\ Len(ss) = L - k /\ \A i \in 1 .. L - k : tt[i] = ss[i]
  <2>1. ASSUME NEW i \in 1 .. L - k
        PROVE  Written(cmds[k + i], n) \in Seq(Int) /\ tt[i] = Written(cmds[k + i], n)
    <3>1. k + i \in 1 .. L + 1 /\ k + i \in 1 .. L /\ i \in 1 .. L + 1 - k
      BY <1>1
    <3>2. more[k + i] = cmds[k + i] /\ cmds[k + i] \in Lines
      BY <1>1, <1>3, <3>1
    <3> QED  BY <1>2, <3>1, <3>2
  <2> HIDE DEF tt
  <2> DEFINE e(i) == Written(cmds[k + i], n)
  <2>2. \A i \in 1 .. L - k : e(i) \in Seq(Int)
    BY <2>1
  <2> HIDE DEF e
  <2>3. [i \in 1 .. L - k |-> e(i)] \in Seq(Seq(Int))
    <3>1. L - k \in Nat
      BY <1>1
    <3> QED  BY <2>2, <3>1, IsASeq
  <2>4. ss \in Seq(Seq(Int))
    BY <2>3 DEF e
  <2>5. DOMAIN ss = 1 .. L - k
    OBVIOUS
  <2>6. \A i \in 1 .. L - k : tt[i] = ss[i]
    BY <2>1
  <2> HIDE DEF ss
  <2>7. Len(ss) = L - k
    BY <1>1, <2>4, <2>5, LenProperties
  <2> QED  BY <2>4, <2>6, <2>7
<1>6. tt[(L - k) + 1] = Written(c, n)
  <2>1. (L - k) + 1 \in 1 .. L + 1 - k /\ k + ((L - k) + 1) = L + 1
    BY <1>1
  <2> QED  BY <1>1, <2>1
<1>7. WrittenAfter(cmds, k, n) = FlattenSeq(ss) /\ WrittenAfter(more, k, n) = FlattenSeq(tt)
  <2>1. /\ WrittenAfter(cmds, k, n)
             = FlattenSeq([i \in 1 .. Len(cmds) - k |-> Written(cmds[k + i], n)])
        /\ WrittenAfter(more, k, n)
             = FlattenSeq([i \in 1 .. Len(more) - k |-> Written(more[k + i], n)])
    BY DEF WrittenAfter, Written
  <2>2. Len(more) = L + 1 /\ Len(cmds) = L
    BY <1>1 DEF L
  <2>3. /\ [i \in 1 .. Len(cmds) - k |-> Written(cmds[k + i], n)] = ss
        /\ [i \in 1 .. Len(more) - k |-> Written(more[k + i], n)] = tt
    BY <2>2
  <2> HIDE DEF ss, tt
  <2> QED  BY <2>1, <2>3
<1> HIDE DEF ss, tt
<1>8. PICK x : x = Written(c, n)
  OBVIOUS
<1>9. FlattenSeq(ss) \in Seq(Int) /\ FlattenSeq(tt) = FlattenSeq(ss) \o x
  <2>1. Len(tt) = Len(ss) + 1 /\ tt[Len(ss) + 1] = x
    BY <1>1, <1>4, <1>5, <1>6, <1>8
  <2>2. \A i \in 1 .. Len(ss) : tt[i] = ss[i]
    BY <1>5
  <2>3. OneLonger(tt, ss, x)
    BY <2>1, <2>2 DEF OneLonger
  <2> QED  BY <1>4, <1>5, <2>3, FlattenMore
<1> QED  BY <1>7, <1>8, <1>9 DEF WritesMore, more

\* Nothing has been written after the last command.
LEMMA NothingWritten ==
    ASSUME NEW cmds, NEW k, k = Len(cmds), k \in Nat, NEW n
    PROVE  WrittenAfter(cmds, k, n) = <<>>
<1>1. k - k = 0
  OBVIOUS
<1> DEFINE ss == [i \in 1 .. k - k |-> Written(cmds[k + i], n)]
<1>2. WrittenAfter(cmds, k, n) = FlattenSeq(ss)
  BY DEF WrittenAfter, Written
<1>3. ss = <<>>
  <2>1. ss \in Seq({})
    BY <1>1
  <2>2. DOMAIN ss = 1 .. 0
    BY <1>1
  <2> HIDE DEF ss
  <2> QED  BY <2>1, <2>2, LenProperties, EmptySeq
<1> HIDE DEF ss
<1> QED  BY <1>2, <1>3, EmptySeq DEF FlattenSeq

\* One command more may be the first that creates n.
CreatesMore(old, new, made, last) ==
    /\ new = old \cup (IF made THEN {last} ELSE {})
    /\ old # {} => Min(new) = Min(old) /\ Min(old) \in 1 .. last - 1
    /\ old = {} /\ new # {} => Min(new) = last

\* So it is with the commands that create n.
LEMMA CreatedNext ==
    ASSUME NEW cmds \in Seq(Lines), NEW c \in Lines, NEW n
    PROVE  CreatesMore(CreatedAt(cmds, n), CreatedAt(Append(cmds, c), n),
                       c.cmd = "create" /\ c.name = n, Len(cmds) + 1)
<1> DEFINE more == Append(cmds, c)
           old  == CreatedAt(cmds, n)
           new  == CreatedAt(more, n)
<1>1. /\ Len(cmds) \in Nat /\ DOMAIN cmds = 1 .. Len(cmds) /\ DOMAIN more = 1 .. Len(cmds) + 1
      /\ more[Len(cmds) + 1] = c /\ \A i \in 1 .. Len(cmds) : more[i] = cmds[i]
  BY LenProperties, AppendProperties
<1> HIDE DEF more
<1>2. PICK L \in Nat : L = Len(cmds)
  BY <1>1
<1>3. /\ old = {i \in 1 .. L : cmds[i].cmd = "create" /\ cmds[i].name = n}
      /\ new = {i \in 1 .. L + 1 : more[i].cmd = "create" /\ more[i].name = n}
  BY <1>1, <1>2 DEF CreatedAt
<1> HIDE DEF old, new
<1>4. /\ old \subseteq 1 .. L
      /\ new = old \cup (IF c.cmd = "create" /\ c.name = n THEN {L + 1} ELSE {})
  <2>1. 1 .. L + 1 = 1 .. L \cup {L + 1}
    OBVIOUS
  <2> QED  BY <1>1, <1>2, <1>3, <2>1
<1>5. ASSUME old # {} PROVE Min(new) = Min(old) /\ Min(old) \in 1 .. L
  <2>1. PICK m : m = Min(old)
    OBVIOUS
  <2>2. m \in old /\ \A x \in old : m <= x
    <3>1. old \subseteq Nat
      BY <1>4
    <3> QED  BY <1>5, <2>1, <3>1, MinIs
  <2>3. m \in 1 .. L /\ m \in new /\ \A x \in new : m <= x
    BY <1>4, <2>2
  <2>4. new \subseteq Nat
    BY <1>4
  <2>5. \A x \in new : (\A y \in new : x <= y) => x = m
    BY <2>3, <2>4
  <2>6. Min(new) = m
    BY <2>3, <2>5 DEF Min
  <2> QED  BY <2>1, <2>3, <2>6
<1>6. ASSUME old = {}, new # {} PROVE Min(new) = L + 1
  <2>1. new = {L + 1}
    BY <1>4, <1>6
  <2> QED  BY <2>1 DEF Min
<1>7. CreatesMore(old, new, c.cmd = "create" /\ c.name = n, L + 1)
  BY <1>4, <1>5, <1>6 DEF CreatesMore
<1> QED  BY <1>2, <1>7 DEF old, new, more

\* WebTexts one after the other.
LEMMA TextsConcat ==
    \A x, y, z \in Seq(Int) : (x \o y) \o z = x \o (y \o z)
<1> SUFFICES ASSUME NEW x \in Seq(Int), NEW y \in Seq(Int), NEW z \in Seq(Int)
             PROVE  (x \o y) \o z = x \o (y \o z)
  OBVIOUS
<1> QED  BY ConcatAssociative

\* What a command does to files.
Effect(f, c) ==
    IF c.cmd = "create" /\ c.name \notin DOMAIN f THEN With(f, c.name, <<>>)
    ELSE IF c.cmd = "write" /\ c.name \in DOMAIN f
    THEN With(f, c.name, f[c.name] \o c.text \o <<Newline>>) ELSE f

\* What commands are meant to do to the files f, file by file.
IsMeant(g, cmds, f) ==
    /\ g = [n \in DOMAIN g |-> g[n]]
    /\ DOMAIN g = DOMAIN f \cup {m \in WebNames : CreatedAt(cmds, m) # {}}
    /\ \A n \in DOMAIN g : g[n] = IF n \in DOMAIN f
         THEN f[n] \o WrittenAfter(cmds, 0, n)
         ELSE WrittenAfter(cmds, Min(CreatedAt(cmds, n)), n)

\* This is what Meant says.
LEMMA MeantIs ==
    ASSUME NEW cmds, NEW f
    PROVE  IsMeant(Meant(f, cmds), cmds, f)
  BY DEF IsMeant, Meant, Min

\* Without a command nothing happens.
LEMMA MeantNone ==
    ASSUME NEW f, AreFiles(f)
    PROVE  Meant(f, <<>>) = f
<1>1. PICK g : g = Meant(f, <<>>)
  OBVIOUS
<1>2. Len(<<>>) = 0 /\ DOMAIN <<>> = {}
  BY EmptySeq
<1>3. \A m : CreatedAt(<<>>, m) = {}
  BY <1>2 DEF CreatedAt
<1>4. DOMAIN g = DOMAIN f /\ g = [n \in DOMAIN g |-> g[n]]
  <2>1. IsMeant(g, <<>>, f)
    BY <1>1, MeantIs
  <2>2. {m \in WebNames : CreatedAt(<<>>, m) # {}} = {}
    BY <1>3
  <2> QED  BY <2>1, <2>2 DEF IsMeant
<1>5. ASSUME NEW n \in DOMAIN f PROVE g[n] = f[n]
  <2>1. WrittenAfter(<<>>, 0, n) = <<>>
    BY <1>2, NothingWritten
  <2>2. g[n] = f[n] \o <<>>
    <3>1. IsMeant(g, <<>>, f)
      BY <1>1, MeantIs
    <3> QED  BY <1>4, <2>1, <3>1 DEF IsMeant
  <2>3. f[n] \in Seq(Int)
    BY DEF AreFiles
  <2> QED  BY <2>2, <2>3, ConcatEmptySeq
<1> QED  BY <1>1, <1>4, <1>5 DEF AreFiles

\* What commands make of files are files, and one command more has its effect on them.
MeansMore(f, cmds, c) ==
    /\ AreFiles(Meant(f, cmds))
    /\ Meant(f, Append(cmds, c)) = Effect(Meant(f, cmds), c)

\* Whatever the command is, and whether or not there is the file it names.
LEMMA MeantNext ==
    ASSUME NEW cmds \in Seq(Lines), NEW c \in Lines,
           NEW f, AreFiles(f)
    PROVE  MeansMore(f, cmds, c)
<1>14. PICK more : more = Append(cmds, c)
  OBVIOUS
<1>1. PICK g, h : g = Meant(f, cmds) /\ h = Meant(f, more)
  OBVIOUS
<1>2. /\ g = [n \in DOMAIN g |-> g[n]]
      /\ DOMAIN g = DOMAIN f \cup {m \in WebNames : CreatedAt(cmds, m) # {}}
      /\ \A n \in DOMAIN g : g[n] = IF n \in DOMAIN f
           THEN f[n] \o WrittenAfter(cmds, 0, n)
           ELSE WrittenAfter(cmds, Min(CreatedAt(cmds, n)), n)
  <2>1. IsMeant(g, cmds, f)
    BY <1>1, MeantIs
  <2> QED  BY <2>1 DEF IsMeant
<1>3. /\ h = [n \in DOMAIN h |-> h[n]]
      /\ DOMAIN h = DOMAIN f \cup {m \in WebNames : CreatedAt(more, m) # {}}
      /\ \A n \in DOMAIN h : h[n] = IF n \in DOMAIN f
           THEN f[n] \o WrittenAfter(more, 0, n)
           ELSE WrittenAfter(more, Min(CreatedAt(more, n)), n)
  <2>1. IsMeant(h, more, f)
    BY <1>1, MeantIs
  <2> QED  BY <2>1 DEF IsMeant
<1>4. PICK L \in Nat : L = Len(cmds) /\ Len(more) = L + 1
  BY <1>14, LenProperties, AppendProperties
<1>5. ASSUME NEW n
      PROVE  /\ CreatedAt(more, n) = CreatedAt(cmds, n)
                  \cup (IF c.cmd = "create" /\ c.name = n THEN {L + 1} ELSE {})
             /\ CreatedAt(cmds, n) # {} =>
                  /\ Min(CreatedAt(more, n)) = Min(CreatedAt(cmds, n))
                  /\ Min(CreatedAt(cmds, n)) \in 1 .. L
             /\ CreatedAt(cmds, n) = {} /\ CreatedAt(more, n) # {} =>
                  Min(CreatedAt(more, n)) = L + 1
  <2>1. CreatesMore(CreatedAt(cmds, n), CreatedAt(more, n),
                    c.cmd = "create" /\ c.name = n, L + 1)
    BY <1>4, <1>14, CreatedNext
  <2>2. (L + 1) - 1 = L
    OBVIOUS
  <2> QED  BY <2>1, <2>2 DEF CreatesMore
<1>6. ASSUME NEW n, NEW k \in 0 .. L
      PROVE  /\ WrittenAfter(cmds, k, n) \in Seq(Int)
             /\ WrittenAfter(more, k, n) = WrittenAfter(cmds, k, n) \o Written(c, n)
  <2>1. k \in 0 .. Len(cmds)
    BY <1>4
  <2>2. WritesMore(cmds, c, n, k)
    BY <2>1, WrittenNext
  <2> QED  BY <1>14, <2>2 DEF WritesMore
<1>7. ASSUME NEW n PROVE Written(c, n) \in Seq(Int)
  BY LinesAreCommands DEF Written
<1>8. ASSUME NEW n \in DOMAIN g PROVE n \in DOMAIN h /\ h[n] = g[n] \o Written(c, n) /\ g[n] \in Seq(Int)
  <2>1. n \in DOMAIN h
    BY <1>2, <1>3, <1>5
  <2>2. CASE n \in DOMAIN f
    <3>1. f[n] \in Seq(Int) /\ 0 \in 0 .. L
      BY <2>2 DEF AreFiles
    <3>2. PICK s \in Seq(Int) : s = WrittenAfter(cmds, 0, n)
      BY <1>6, <3>1
    <3>3. g[n] = f[n] \o s /\ h[n] = f[n] \o (s \o Written(c, n))
      BY <1>2, <1>3, <1>6, <2>1, <2>2, <3>1, <3>2
    <3>4. PICK x \in Seq(Int), y \in Seq(Int) : x = f[n] /\ y = Written(c, n)
      BY <1>7, <3>1
    <3>5. x \o s \in Seq(Int) /\ x \o (s \o y) = (x \o s) \o y
      <4>1. x \o s \in Seq(Int)
        BY ConcatProperties
      <4>2. (x \o s) \o y = x \o (s \o y)
        BY TextsConcat
      <4> QED  BY <4>1, <4>2
    <3> QED  BY <2>1, <3>3, <3>4, <3>5
  <2>3. CASE n \notin DOMAIN f
    <3>1. CreatedAt(cmds, n) # {}
      BY <1>2, <2>3
    <3>2. PICK k \in 0 .. L : k = Min(CreatedAt(cmds, n)) /\ k = Min(CreatedAt(more, n))
      BY <1>5, <3>1
    <3>3. g[n] = WrittenAfter(cmds, k, n) /\ h[n] = WrittenAfter(more, k, n)
      BY <1>2, <1>3, <2>1, <2>3, <3>2
    <3> QED  BY <1>6, <2>1, <3>2, <3>3
  <2> QED  BY <2>2, <2>3
<1>9. AreFiles(g)
  BY <1>2, <1>8 DEF AreFiles
<1>10. ASSUME NEW n \in DOMAIN h, n \notin DOMAIN g
       PROVE  c.cmd = "create" /\ c.name = n /\ h[n] = <<>>
  <2>1. n \notin DOMAIN f /\ n \in WebNames /\ CreatedAt(more, n) # {} /\ CreatedAt(cmds, n) = {}
    BY <1>2, <1>3, <1>10
  <2>2. c.cmd = "create" /\ c.name = n
    BY <1>5, <2>1
  <2>3. h[n] = WrittenAfter(more, L + 1, n)
    BY <1>3, <1>5, <2>1
  <2>4. L + 1 \in Nat
    OBVIOUS
  <2> QED  BY <1>4, <2>2, <2>3, <2>4, NothingWritten
<1>11. c.cmd = "create" => c.name \in DOMAIN h
  <2> SUFFICES ASSUME c.cmd = "create" PROVE c.name \in DOMAIN h
    OBVIOUS
  <2>1. c.name \in WebNames
    BY LinesAreCommands
  <2>2. CreatedAt(more, c.name) # {}
    BY <1>5
  <2> QED  BY <1>3, <2>1, <2>2
<1>15. SUFFICES h = Effect(g, c)
  BY <1>1, <1>9, <1>14 DEF MeansMore
<1>12. CASE c.cmd = "create" /\ c.name \notin DOMAIN g
  <2>1. DOMAIN h = DOMAIN g \cup {c.name}
    BY <1>8, <1>10, <1>11, <1>12
  <2>2. ASSUME NEW n \in DOMAIN h PROVE h[n] = IF n = c.name THEN <<>> ELSE g[n]
    <3>1. CASE n \in DOMAIN g
      <4>1. Written(c, n) = <<>>
        BY <1>12 DEF Written
      <4>2. g[n] \o <<>> = g[n]
        BY <1>8, <3>1, ConcatEmptySeq
      <4> QED  BY <1>8, <1>12, <3>1, <4>1, <4>2
    <3>2. CASE n \notin DOMAIN g
      BY <1>10, <3>2
    <3> QED  BY <3>1, <3>2
  <2>3. h = With(g, c.name, <<>>)
    BY <1>3, <2>1, <2>2 DEF With
  <2> QED  BY <1>12, <2>3 DEF Effect
<1>13. CASE ~ (c.cmd = "create" /\ c.name \notin DOMAIN g)
  <2>1. DOMAIN h = DOMAIN g
    BY <1>8, <1>10, <1>13
  <2>2. CASE c.cmd = "write" /\ c.name \in DOMAIN g
    <3>1. g[c.name] \o c.text \o <<Newline>> = g[c.name] \o (c.text \o <<Newline>>)
      <4>1. g[c.name] \in Seq(Int) /\ <<Newline>> \in Seq(Int)
        BY TerminalAssumption, <1>8, <2>2 DEF TerminalAssumption
      <4>2. c.text \in Seq(Int)
        <5>1. c.text \in WebTexts
          BY <2>2 DEF Lines, Line, Blank, Prints
        <5> QED  BY TerminalAssumption, <5>1 DEF TerminalAssumption
      <4> QED  BY <4>1, <4>2, TextsConcat
    <3>2. ASSUME NEW n \in DOMAIN h
          PROVE  h[n] = IF n = c.name THEN g[c.name] \o (c.text \o <<Newline>>) ELSE g[n]
      <4>1. h[n] = g[n] \o Written(c, n) /\ g[n] \o <<>> = g[n]
        BY <1>8, <2>1, ConcatEmptySeq
      <4> QED  BY <2>2, <4>1 DEF Written
    <3>3. h = With(g, c.name, g[c.name] \o c.text \o <<Newline>>)
      <4>1. DOMAIN h = DOMAIN g \cup {c.name}
        BY <2>1, <2>2
      <4> QED  BY <1>3, <3>1, <3>2, <4>1 DEF With
    <3> QED  BY <1>13, <2>2, <3>3 DEF Effect
  <2>3. CASE ~ (c.cmd = "write" /\ c.name \in DOMAIN g)
    <3>1. ASSUME NEW n \in DOMAIN g PROVE h[n] = g[n]
      <4>1. h[n] = g[n] \o Written(c, n) /\ g[n] \o <<>> = g[n]
        BY <1>8, ConcatEmptySeq
      <4>2. Written(c, n) = <<>>
        BY <2>3 DEF Written
      <4> QED  BY <4>1, <4>2
    <3>2. h = g
      BY <1>2, <1>3, <2>1, <3>1
    <3> QED  BY <1>13, <2>3, <3>2 DEF Effect
  <2> QED  BY <2>2, <2>3
<1> QED  BY <1>12, <1>13

\* A command leaves files.
LEMMA EffectFiles ==
    ASSUME NEW f, AreFiles(f), NEW c \in Lines
    PROVE  AreFiles(Effect(f, c))
<1>1. CASE c.cmd = "create" /\ c.name \notin DOMAIN f
  <2>1. <<>> \in Seq(Int)
    BY EmptySeq
  <2> QED  BY <1>1, <2>1, WithFile DEF Effect
<1>2. CASE c.cmd = "write" /\ c.name \in DOMAIN f
  <2>1. PICK n, text : n = c.name /\ text = f[c.name] \o c.text \o <<Newline>>
    OBVIOUS
  <2>2. text \in Seq(Int)
    <3>1. c.text \in WebTexts
      BY <1>2 DEF Lines, Line, Blank, Prints
    <3>2. f[c.name] \in Seq(Int)
      BY <1>2 DEF AreFiles
    <3>3. c.text \in Seq(Int) /\ <<Newline>> \in Seq(Int)
      BY TerminalAssumption, <3>1 DEF TerminalAssumption
    <3>4. PICK x \in Seq(Int), y \in Seq(Int), z \in Seq(Int) :
             x = f[c.name] /\ y = c.text /\ z = <<Newline>>
      BY <3>2, <3>3
    <3>5. x \o y \in Seq(Int)
      BY ConcatProperties
    <3>6. (x \o y) \o z \in Seq(Int)
      BY <3>5, ConcatProperties
    <3> QED  BY <2>1, <3>4, <3>6
  <2>3. AreFiles(With(f, n, text))
    BY <2>2, WithFile
  <2> QED  BY <1>2, <2>1, <2>3 DEF Effect
<1> QED  BY <1>1, <1>2 DEF Effect

\* What the commands h have made, when the list came after the first k of them.
Synced(h, list, k) ==
    Meant(Replaced(Meant(NoFiles, SubSeq(h, 1, k)), list), SubSeq(h, k + 1, Len(h)))

\* What commands make of files are files.
LEMMA MeantFiles ==
    ASSUME NEW cmds \in Seq(Lines), NEW f, AreFiles(f)
    PROVE  AreFiles(Meant(f, cmds))
<1>1. Blank \in Lines
  BY DEF Lines
<1> QED  BY <1>1, MeantNext DEF MeansMore

\* The terminal starts with files: none.
LEMMA NoFilesAreFiles == AreFiles(NoFiles)
  BY DEF AreFiles, NoFiles

\* The first k of the commands h, and those behind them and one more, which make more.
Parted(h, more, c, k, before, after) ==
    /\ before \in Seq(Lines) /\ before = SubSeq(h, 1, k) /\ before = SubSeq(more, 1, k)
    /\ after \in Seq(Lines) /\ after = SubSeq(h, k + 1, Len(h))
    /\ Append(after, c) = SubSeq(more, k + 1, Len(more))

\* A command more stands behind the last one, wherever the history is parted.
LEMMA LaterCommands ==
    ASSUME NEW h \in Seq(Lines), NEW c \in Lines, NEW more, more = Append(h, c),
           NEW k \in 0 .. Len(h)
    PROVE  \E before, after : Parted(h, more, c, k, before, after)
<1>1. PICK L \in Nat : L = Len(h)
  BY LenProperties
<1>2. /\ more \in Seq(Lines) /\ Len(more) = L + 1 /\ more[L + 1] = c
      /\ \A i \in 1 .. L : more[i] = h[i]
  BY <1>1, AppendProperties
<1>3. k \in Nat /\ k <= L /\ k + 1 \in Nat /\ k + 1 >= 1 /\ L + 1 \in Nat
  BY <1>1
<1>4. SubSeq(h, 1, k) \in Seq(Lines) /\ SubSeq(more, 1, k) = SubSeq(h, 1, k)
  <2>1. \A i \in 1 .. k : h[i] = more[i]
    BY <1>2, <1>3
  <2>2. k <= Len(h) /\ k <= Len(more) /\ 1 \in Nat /\ 1 >= 1
    BY <1>1, <1>2, <1>3
  <2>3. SubSeq(h, 1, k) \in Seq(Lines)
    BY <1>3, <2>2, Piece
  <2>4. SubSeq(h, 1, k) = SubSeq(more, 1, k)
    BY <1>2, <1>3, <2>1, <2>2, SamePiece
  <2> QED  BY <2>3, <2>4
<1>5. PICK a \in Nat, b \in Nat : a = k + 1 /\ b = L + 1 /\ a <= b
  BY <1>3
<1>6. PICK s, t : s = SubSeq(h, a, L) /\ t = SubSeq(more, a, b)
  OBVIOUS
<1>7. /\ s \in Seq(Lines) /\ Len(s) = IF a <= L THEN L - a + 1 ELSE 0
      /\ \A i \in 1 .. L - a + 1 : s[i] = h[a + i - 1]
  <2>1. a >= 1 /\ L <= Len(h)
    BY <1>1, <1>5
  <2> QED  BY <1>6, <2>1, Piece
<1>8. /\ t \in Seq(Lines) /\ Len(t) = IF a <= b THEN b - a + 1 ELSE 0
      /\ \A i \in 1 .. b - a + 1 : t[i] = more[a + i - 1]
  <2>1. a >= 1 /\ b <= Len(more)
    BY <1>2, <1>5
  <2> QED  BY <1>2, <1>6, <2>1, Piece
<1>9. PICK m \in Nat : m = L - k
  BY <1>3
<1>10. Len(s) = m /\ Len(t) = m + 1
  BY <1>3, <1>5, <1>7, <1>8, <1>9
<1>11. PICK u : u = Append(s, c)
  OBVIOUS
<1>12. u \in Seq(Lines) /\ Len(u) = m + 1 /\ u[m + 1] = c /\ \A i \in 1 .. m : u[i] = s[i]
  BY <1>7, <1>10, <1>11, AppendProperties
<1>13. ASSUME NEW i \in 1 .. m + 1 PROVE t[i] = u[i]
  <2>1. i \in 1 .. b - a + 1 /\ a + i - 1 = k + i
    BY <1>3, <1>5, <1>9
  <2>2. t[i] = more[k + i]
    BY <1>8, <2>1
  <2>3. CASE i = m + 1
    <3>1. k + i = L + 1
      BY <1>3, <1>9, <2>3
    <3> QED  BY <1>2, <1>12, <2>2, <2>3, <3>1
  <2>4. CASE i # m + 1
    <3>1. i \in 1 .. m /\ i \in 1 .. L - a + 1 /\ k + i \in 1 .. L
      BY <1>3, <1>5, <1>9, <2>4
    <3>2. s[i] = h[k + i] /\ u[i] = s[i]
      BY <1>7, <1>12, <2>1, <3>1
    <3> QED  BY <1>2, <2>2, <3>1, <3>2
  <2> QED  BY <2>3, <2>4
<1>14. t = u
  <2>1. Len(t) = Len(u) /\ \A i \in 1 .. Len(t) : t[i] = u[i]
    BY <1>10, <1>12, <1>13
  <2> QED  BY <1>8, <1>12, <2>1, SeqEqual
<1>15. PICK before : before = SubSeq(h, 1, k)
  OBVIOUS
<1>16. Parted(h, more, c, k, before, s)
  <2>1. s = SubSeq(h, k + 1, Len(h)) /\ t = SubSeq(more, k + 1, Len(more))
    BY <1>1, <1>2, <1>5, <1>6
  <2> QED  BY <1>4, <1>7, <1>11, <1>14, <1>15, <2>1 DEF Parted
<1> QED  BY <1>16

\* A command after the synchronisation has its effect on what there is.
LEMMA SyncedNext ==
    ASSUME NEW h \in Seq(Lines), NEW c \in Lines,
           NEW k \in 0 .. Len(h), NEW list \in Seq(WebEntry)
    PROVE  Synced(Append(h, c), list, k) = Effect(Synced(h, list, k), c)
<1>1. PICK more : more = Append(h, c)
  OBVIOUS
<1>2. PICK before, after : Parted(h, more, c, k, before, after)
  BY <1>1, LaterCommands
<1>3. PICK f : f = Replaced(Meant(NoFiles, before), list)
  OBVIOUS
<1>4. AreFiles(f)
  <2>1. AreFiles(Meant(NoFiles, before))
    BY <1>2, MeantFiles, NoFilesAreFiles DEF Parted
  <2> QED  BY <1>3, <2>1, OverlaidReplaces
<1>5. Meant(f, Append(after, c)) = Effect(Meant(f, after), c)
  <2>1. after \in Seq(Lines)
    BY <1>2 DEF Parted
  <2>2. MeansMore(f, after, c)
    BY <1>4, <2>1, MeantNext
  <2> QED  BY <2>2 DEF MeansMore
<1> QED  BY <1>1, <1>2, <1>3, <1>5 DEF Synced, Parted

\* The list comes after all of the commands.
LEMMA SyncedNow ==
    ASSUME NEW h \in Seq(Lines), NEW list \in Seq(WebEntry)
    PROVE  Synced(h, list, Len(h)) = Overlaid(Meant(NoFiles, h), list)
<1>1. SubSeq(h, 1, Len(h)) = h /\ SubSeq(h, Len(h) + 1, Len(h)) = <<>>
  <2>1. PICK L \in Nat : L = Len(h)
    BY LenProperties
  <2>2. /\ SubSeq(h, 1, L) \in Seq(Lines)
        /\ Len(SubSeq(h, 1, L)) = IF 1 <= L THEN L - 1 + 1 ELSE 0
        /\ \A i \in 1 .. L - 1 + 1 : SubSeq(h, 1, L)[i] = h[1 + i - 1]
    <3>1. 1 \in Nat /\ 1 >= 1 /\ L <= Len(h)
      BY <2>1
    <3> QED  BY <3>1, Piece
  <2>3. Len(SubSeq(h, 1, L)) = L /\ \A i \in 1 .. L : SubSeq(h, 1, L)[i] = h[i]
    BY <2>2
  <2>4. SubSeq(h, 1, L) = h
    BY <2>1, <2>2, <2>3, SeqEqual
  <2>5. /\ SubSeq(h, L + 1, L) \in Seq(Lines)
        /\ Len(SubSeq(h, L + 1, L)) = IF L + 1 <= L THEN L - (L + 1) + 1 ELSE 0
    <3>1. L + 1 \in Nat /\ L + 1 >= 1 /\ L <= Len(h)
      BY <2>1
    <3> QED  BY <3>1, Piece
  <2>6. SubSeq(h, L + 1, L) = <<>>
    BY <2>5, EmptySeq
  <2> QED  BY <2>1, <2>4, <2>6
<1>2. PICK f : f = Meant(NoFiles, h)
  OBVIOUS
<1>3. AreFiles(f)
  BY <1>2, MeantFiles, NoFilesAreFiles
<1>4. Overlaid(f, list) = Replaced(f, list) /\ AreFiles(Overlaid(f, list))
  BY <1>3, OverlaidReplaces
<1>5. Meant(Overlaid(f, list), <<>>) = Overlaid(f, list)
  BY <1>4, MeantNone
<1> QED  BY <1>1, <1>2, <1>4, <1>5 DEF Synced

\* What holds between two steps of the terminal: files is in sync mode only when the
\* synchronisation is over, so that there is one list, fetched, that they were laid under.
WebInv ==
    /\ TypeOK
    /\ FilesAreTheHistory
    /\ AreFiles(files)
    /\ mode = "sync" => stage \in {"decided", "ready"}

\* There are no files, no history and no list yet.
LEMMA WebStarts == WebInit => WebInv
<1> SUFFICES ASSUME WebInit PROVE WebInv
  OBVIOUS
<1>1. files = NoFiles /\ mode = "local" /\ history = <<>> /\ stage = "fetching" /\ fetched = <<>>
  BY DEF WebInit, NoFiles
<1>2. Meant(NoFiles, <<>>) = NoFiles
  BY MeantNone, NoFilesAreFiles
<1>3. FilesAreTheHistory
  BY <1>1, <1>2 DEF FilesAreTheHistory
<1>4. TypeOK
  <2>1. input = Blank /\ historyIdx = -1 /\ historyIdx \in -1 .. 0
    BY DEF WebInit
  <2>2. history \in Seq(Lines \ {Blank}) /\ Len(history) = 0
    BY <1>1, EmptySeq
  <2>3. Blank \in Lines /\ stage \in Tasks /\ DOMAIN files = {}
    BY <1>1 DEF Lines, Tasks, NoFiles
  <2> QED  BY <1>1, <2>1, <2>2, <2>3 DEF TypeOK
<1> QED  BY <1>1, <1>3, <1>4, NoFilesAreFiles DEF WebInv

\* What has been fetched is a list of files, or nothing yet.
LEMMA FetchedList ==
    ASSUME TypeOK
    PROVE  fetched \in Seq(WebEntry)
<1>1. <<>> \in Seq(WebEntry)
  BY EmptySeq
<1> QED  BY TerminalAssumption, <1>1 DEF TypeOK, TerminalAssumption, WebEntry

\* The files and the history a step keeps are as before what the commands have made.
LEMMA FilesKept ==
    ASSUME FilesAreTheHistory, UNCHANGED <<files, history>>,
           mode' = mode, mode = "sync" => fetched' = fetched
    PROVE  FilesAreTheHistory'
  BY DEF FilesAreTheHistory

\* A step of the synchronisation.
LEMMA SyncSteps ==
    ASSUME WebInv, Sync
    PROVE  WebInv'
<1> USE DEF filesVars, syncVars, lineVars
<1>1. /\ TypeOK /\ FilesAreTheHistory /\ AreFiles(files)
      /\ mode = "sync" => stage \in {"decided", "ready"}
  BY DEF WebInv
<1>2. UNCHANGED <<input, history, historyIdx>>
  BY DEF Sync, FetchSettles, ResponseThen, BodyArrives, SyncThen, SyncCatch,
         ReadyThen
<1>3. ASSUME AreFiles(files'), mode' \in {"local", "sync"}, stage' \in Tasks \cup Callbacks,
             fetched' \in StateLists \cup {<<>>}
      PROVE  TypeOK'
  <2>1. \A n \in DOMAIN files' : files'[n] \in Seq(Int)
    BY <1>3 DEF AreFiles
  <2>2. /\ input' \in Lines /\ history' \in Seq(Lines \ {Blank})
        /\ historyIdx' \in -1 .. Len(history') /\ (historyIdx' = -1 => history' = <<>>)
    BY <1>1, <1>2 DEF TypeOK
  <2> QED  BY <1>3, <2>1, <2>2 DEF TypeOK
<1>4. mode \in {"local", "sync"} /\ fetched \in StateLists \cup {<<>>}
  BY <1>1 DEF TypeOK
<1>5. CASE \/ FetchSettles \/ ResponseThen \/ BodyArrives \/ ReadyThen
  <2>1. UNCHANGED <<files, mode>> /\ (mode = "sync" => fetched' = fetched /\ stage' = "ready")
    BY <1>1, <1>5 DEF FetchSettles, ResponseThen, BodyArrives, ReadyThen
  <2>2. stage' \in Tasks \cup Callbacks /\ fetched' \in StateLists \cup {<<>>}
    BY <1>4, <1>5 DEF FetchSettles, ResponseThen, BodyArrives, ReadyThen,
                      Tasks, Callbacks
  <2>3. FilesAreTheHistory'
    BY <1>1, <1>2, <2>1, FilesKept
  <2>4. AreFiles(files')
    BY <1>1, <2>1
  <2>5. TypeOK'
    BY <1>3, <1>4, <2>1, <2>2, <2>4
  <2> QED  BY <2>1, <2>3, <2>4, <2>5 DEF WebInv
<1>6. CASE SyncThen
  <2>1. /\ mode = "local" /\ files' = Overlaid(files, fetched) /\ mode' = "sync"
        /\ stage' = "decided" /\ UNCHANGED fetched
    BY <1>1, <1>4, <1>6 DEF SyncThen
  <2>2. fetched \in Seq(WebEntry) /\ history \in Seq(Lines)
    <3>1. history \in Seq(Lines \ {Blank})
      BY <1>1 DEF TypeOK
    <3> QED  BY <1>1, <3>1, FetchedList
  <2>3. files = Meant(NoFiles, history)
    BY <1>1, <2>1 DEF FilesAreTheHistory
  <2>4. files' = Synced(history', fetched', Len(history'))
    <3>1. Synced(history, fetched, Len(history)) = Overlaid(files, fetched)
      BY <2>2, <2>3, SyncedNow
    <3> QED  BY <1>2, <2>1, <3>1
  <2>5. Len(history') \in 0 .. Len(history')
    <3>1. Len(history) \in Nat
      BY <2>2, LenProperties
    <3> QED  BY <1>2, <3>1
  <2>6. FilesAreTheHistory'
    BY <2>1, <2>4, <2>5 DEF FilesAreTheHistory, Synced
  <2>7. AreFiles(files')
    BY <1>1, <2>1, <2>2, OverlaidReplaces
  <2>8. TypeOK'
    BY <1>3, <1>4, <2>1, <2>7 DEF Callbacks
  <2> QED  BY <2>1, <2>6, <2>7, <2>8 DEF WebInv
<1>7. CASE SyncCatch
  <2>1. /\ mode = "local" /\ mode' = "local" /\ stage' = "decided" /\ UNCHANGED <<files, fetched>>
    BY <1>1, <1>4, <1>7 DEF SyncCatch
  <2>2. FilesAreTheHistory'
    BY <1>1, <1>2, <2>1, FilesKept
  <2>3. TypeOK' /\ AreFiles(files')
    BY <1>1, <1>3, <1>4, <2>1 DEF Callbacks
  <2> QED  BY <2>1, <2>2, <2>3 DEF WebInv
<1> QED  BY <1>5, <1>6, <1>7 DEF Sync

\* The command that is entered has its effect.
LEMMA ExecEffect ==
    ASSUME NEW c \in Lines, execCommand(c), AreFiles(files)
    PROVE  files' = Effect(files, c)
<1>1. CASE c.cmd = "create"
  BY <1>1 DEF execCommand, create, Effect
<1>2. CASE c.cmd = "write"
  BY <1>2 DEF execCommand, write, Effect
<1>3. CASE c.cmd # "create" /\ c.cmd # "write"
  BY <1>3 DEF execCommand, Effect
<1> QED  BY <1>1, <1>2, <1>3

\* A command more in the history is a command more on the files.
LEMMA Remembers ==
    ASSUME TypeOK, FilesAreTheHistory, NEW c \in Lines,
           history' = Append(history, c), files' = Effect(files, c), UNCHANGED <<mode, fetched>>
    PROVE  FilesAreTheHistory'
<1>1. history \in Seq(Lines) /\ fetched \in Seq(WebEntry)
  <2>1. history \in Seq(Lines \ {Blank})
    BY DEF TypeOK
  <2> QED  BY <2>1, FetchedList
<1>2. Len(history) \in Nat /\ Len(history') = Len(history) + 1
  BY <1>1, LenProperties, AppendProperties
<1>3. CASE mode # "sync"
  <2>1. files = Meant(NoFiles, history)
    BY <1>3 DEF FilesAreTheHistory
  <2>2. MeansMore(NoFiles, history, c)
    BY <1>1, MeantNext, NoFilesAreFiles
  <2>3. files' = Meant(NoFiles, history')
    BY <2>1, <2>2 DEF MeansMore
  <2> QED  BY <1>3, <2>3 DEF FilesAreTheHistory
<1>4. CASE mode = "sync"
  <2>1. PICK k \in 0 .. Len(history) : files = Synced(history, fetched, k)
    BY <1>4 DEF FilesAreTheHistory, Synced
  <2>2. Synced(Append(history, c), fetched, k) = Effect(Synced(history, fetched, k), c)
    BY <1>1, SyncedNext
  <2>3. k \in 0 .. Len(history') /\ files' = Synced(history', fetched', k)
    BY <1>2, <2>1, <2>2
  <2> QED  BY <1>4, <2>3 DEF FilesAreTheHistory, Synced
<1> QED  BY <1>3, <1>4

\* A key.
LEMMA KeySteps ==
    ASSUME WebInv, Keys
    PROVE  WebInv'
<1> USE DEF filesVars, syncVars, lineVars
<1>1. /\ TypeOK /\ FilesAreTheHistory /\ AreFiles(files)
      /\ mode = "sync" => stage \in {"decided", "ready"}
  BY DEF WebInv
<1>2. UNCHANGED <<mode, stage, fetched>>
  BY DEF Keys, Edit, Enter, ArrowUp, ArrowDown
<1>3. /\ input \in Lines /\ history \in Seq(Lines \ {Blank})
      /\ historyIdx \in -1 .. Len(history) /\ (historyIdx = -1 => history = <<>>)
      /\ Blank \in Lines
  BY <1>1 DEF TypeOK, Lines
<1>4. PICK L \in Nat : L = Len(history)
  BY <1>3, LenProperties
<1>5. \A i \in 1 .. L : history[i] \in Lines
  BY <1>3, <1>4, ElementOfSeq
<1>6. ASSUME AreFiles(files'), input' \in Lines, history' \in Seq(Lines \ {Blank}),
             historyIdx' \in -1 .. Len(history'), historyIdx' = -1 => history' = <<>>
      PROVE  TypeOK'
  <2>1. \A n \in DOMAIN files' : files'[n] \in Seq(Int)
    BY <1>6 DEF AreFiles
  <2>2. mode' \in {"local", "sync"} /\ stage' \in Tasks \cup Callbacks
        /\ fetched' \in StateLists \cup {<<>>}
    BY <1>1, <1>2 DEF TypeOK
  <2> QED  BY <1>6, <2>1, <2>2 DEF TypeOK
<1>7. CASE UNCHANGED <<files, history>> /\ input' \in Lines
           /\ historyIdx' \in -1 .. L /\ (historyIdx' = -1 => history = <<>>)
  <2>1. FilesAreTheHistory'
    BY <1>1, <1>2, <1>7, FilesKept
  <2>2. AreFiles(files')
    BY <1>1, <1>7
  <2>3. TypeOK'
    BY <1>3, <1>4, <1>6, <1>7, <2>2
  <2> QED  BY <1>1, <1>2, <2>1, <2>2, <2>3 DEF WebInv
<1>8. CASE \E line \in Lines : Edit(line)
  <2>1. UNCHANGED <<files, history, historyIdx>> /\ input' \in Lines
    BY <1>8 DEF Edit
  <2> QED  BY <1>3, <1>4, <1>7, <2>1
<1>9. CASE ArrowUp
  <2>1. /\ historyIdx > 0 /\ historyIdx' = historyIdx - 1 /\ input' = history[historyIdx' + 1]
        /\ UNCHANGED <<files, history>>
    BY <1>9 DEF ArrowUp
  <2>2. PICK x \in 1 .. L : x = historyIdx
    BY <1>3, <1>4, <2>1
  <2>3. historyIdx' \in 0 .. L /\ historyIdx' + 1 = x
    BY <2>1, <2>2
  <2>4. input' \in Lines
    BY <1>5, <2>1, <2>3
  <2>5. historyIdx' \in -1 .. L /\ historyIdx' # -1
    BY <2>3
  <2> QED  BY <1>7, <2>1, <2>4, <2>5
<1>10. CASE ArrowDown
  <2>1. UNCHANGED <<files, history>>
    BY <1>10 DEF ArrowDown
  <2>2. CASE historyIdx < L - 1
    <3>1. historyIdx' = historyIdx + 1 /\ input' = history[historyIdx' + 1]
      BY <1>4, <1>10, <2>2 DEF ArrowDown
    <3>2. PICK x \in 1 .. L : x = historyIdx' + 1 /\ historyIdx' \in 0 .. L
      BY <1>3, <1>4, <2>2, <3>1
    <3>3. input' \in Lines
      BY <1>5, <3>1, <3>2
    <3>4. historyIdx' \in -1 .. L /\ historyIdx' # -1
      BY <3>2
    <3> QED  BY <1>7, <2>1, <3>3, <3>4
  <2>3. CASE ~ (historyIdx < L - 1)
    <3>1. historyIdx' = L /\ input' = Blank
      BY <1>4, <1>10, <2>3 DEF ArrowDown
    <3>2. historyIdx' \in -1 .. L /\ historyIdx' # -1
      BY <3>1
    <3> QED  BY <1>3, <1>7, <2>1, <3>1, <3>2
  <2> QED  BY <2>2, <2>3
<1>11. CASE Enter
  <2>1. /\ input' = Blank /\ execCommand(input)
        /\ IF input = Blank THEN UNCHANGED <<history, historyIdx>>
           ELSE history' = Append(history, input) /\ historyIdx' = Len(history')
    BY <1>11 DEF Enter, Remembered
  <2>2. files' = Effect(files, input)
    BY <1>1, <1>3, <2>1, ExecEffect
  <2>3. CASE input = Blank
    <3>1. files' = files
      BY <2>2, <2>3 DEF Effect, Blank, Line
    <3> QED  BY <1>3, <1>4, <1>7, <2>1, <2>3, <3>1
  <2>4. CASE input # Blank
    <3>1. history' = Append(history, input) /\ historyIdx' = Len(history')
      BY <2>1, <2>4
    <3>2. /\ history' \in Seq(Lines \ {Blank}) /\ Len(history') = L + 1
          /\ historyIdx' = L + 1
      <4>1. input \in Lines \ {Blank}
        BY <1>3, <2>4
      <4> QED  BY <1>3, <1>4, <3>1, <4>1, AppendProperties
    <3>3. FilesAreTheHistory'
      BY <1>1, <1>2, <1>3, <2>2, <3>1, Remembers
    <3>4. AreFiles(files')
      BY <1>1, <1>3, <2>2, EffectFiles
    <3>5. historyIdx' \in -1 .. Len(history') /\ historyIdx' # -1
      BY <3>2
    <3>6. TypeOK'
      BY <1>3, <1>6, <2>1, <3>2, <3>4, <3>5
    <3> QED  BY <1>1, <1>2, <3>3, <3>4, <3>6 DEF WebInv
  <2> QED  BY <2>3, <2>4
<1> QED  BY <1>8, <1>9, <1>10, <1>11 DEF Keys

\* A step that changes nothing keeps the invariant.
LEMMA WebStutters ==
    ASSUME WebInv, UNCHANGED webVars
    PROVE  WebInv'
  BY DEF WebInv, webVars, filesVars, syncVars, lineVars, TypeOK, FilesAreTheHistory,
         AreFiles

\* It holds in every state of the terminal.
LEMMA WebInvariant == WebSpec => []WebInv
<1>1. WebInv /\ [WebNext]_webVars => WebInv'
  BY SyncSteps, KeySteps, WebStutters DEF WebNext
<1> QED  BY <1>1, WebStarts, PTL DEF WebSpec

\* The variables of the web terminal have their types, and the history index stays within
\* the history (terminal.js, the keydown handler).
THEOREM WebTypeCorrect == WebSpec => []TypeOK
<1>1. WebInv => TypeOK
  BY DEF WebInv
<1> QED  BY <1>1, WebInvariant, PTL

\* The files of the web terminal are what the commands have made, before and after one
\* synchronisation (terminal.js, trySyncFromBridge and execCommand).
THEOREM WebFilesAreTheHistory == WebSpec => []FilesAreTheHistory
<1>1. WebInv => FilesAreTheHistory
  BY DEF WebInv
<1> QED  BY <1>1, WebInvariant, PTL
=============================================================================
