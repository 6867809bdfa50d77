------------------------------ MODULE TfsProofs ------------------------------
(***************************************************************************)
(* Proofs about Tfs for any number of slots, size of files, names and      *)
(* texts, and about Script for any script and any line buffer.             *)
(*                                                                         *)
(* The inductive invariant of the file table adds to the properties of Tfs *)
(* that the names are distinct, so that the first holder of a name is its  *)
(* only one, and that only an initialised table has files, with admissible *)
(* names.  The one of the interpreter says in which line the pass is, and  *)
(* that the lines before it have left what they mean.                      *)
(***************************************************************************)
EXTENDS Tfs, Script, Induction

NamesDistinct ==
    \A s, t \in Slots :
        table[s].used /\ table[t].used /\ table[s].name = table[t].name => s = t

UsedAreNamed == \A s \in Slots : table[s].used => ready /\ table[s].name \in Names

IInv == TypeOK /\ UsedIsPrefix /\ NamesDistinct /\ UsedAreNamed

File == [used : BOOLEAN, name : Names \cup {NoName}, data : Seq(Bytes)]

-----------------------------------------------------------------------------
(* The operators.                                                          *)

\* A prefix of a sequence, and what it is appended to.
LEMMA PrefixType ==
    ASSUME NEW S, NEW t \in Seq(S), NEW d \in Seq(S), NEW n \in 0 .. Len(t)
    PROVE  /\ SubSeq(t, 1, n) \in Seq(S) /\ Len(SubSeq(t, 1, n)) = n
           /\ d \o SubSeq(t, 1, n) \in Seq(S)
           /\ Len(d \o SubSeq(t, 1, n)) = Len(d) + n
<1>1. SubSeq(t, 1, n) \in Seq(S) /\ Len(SubSeq(t, 1, n)) = n
  <2>1. 1 \in 1 .. Len(t) + 1 /\ n \in 0 .. Len(t)
    BY LenProperties, SMT
  <2>2. QED
    BY <2>1, SubSeqProperties, LenProperties, SMT
<1>2. QED
  BY <1>1, ConcatProperties

\* What tfs_write puts into a file fits into the text and into the file.
LEMMA RoomForText ==
    ASSUME NEW d \in Seq(Bytes), Len(d) <= MaxSize, NEW t \in Seq(Bytes)
    PROVE  LET n == Least(Len(t), MaxSize - Len(d))
           IN  /\ n \in 0 .. Len(t) /\ n \in 0 .. MaxSize /\ Len(d) + n <= MaxSize
               /\ n = Len(t) \/ Len(d) + n = MaxSize
<1>1. Len(d) \in Nat /\ Len(t) \in Nat
  BY LenProperties
<1>2. QED
  BY <1>1, TfsAssumption, SMT DEF Least

-----------------------------------------------------------------------------
(* The invariant.                                                          *)

\* The invariant holds of the zeroed table.
LEMMA InitInv == Init => IInv
<1> SUFFICES ASSUME Init PROVE IInv
  OBVIOUS
<1>1. Unused \in File /\ Len(Unused.data) = 0 /\ ~ Unused.used
  BY EmptySeq, SMT DEF Unused, File
<1>2. \A s \in Slots : table[s] = Unused
  BY DEF Init
<1>3. TypeOK
  <2> HIDE DEF File
  <2>1. table \in [Slots -> File] /\ ready \in BOOLEAN
    BY <1>1 DEF Init
  <2>2. QED
    BY <1>1, <1>2, <2>1, TfsAssumption, SMT DEF TypeOK, File
<1>4. QED
  BY <1>1, <1>2, <1>3 DEF IInv, UsedIsPrefix, NamesDistinct, UsedAreNamed

\* tfs_init, a new file, and a longer file.
LEMMA InitStep == IInv /\ tfs_init => IInv'
<1> SUFFICES ASSUME tfs_init PROVE IInv'
  OBVIOUS
<1>1. Unused \in File /\ Len(Unused.data) = 0 /\ ~ Unused.used
  BY EmptySeq, SMT DEF Unused, File
<1>2. \A s \in Slots : table'[s] = Unused
  BY DEF tfs_init
<1>3. TypeOK'
  BY <1>1, <1>2, TfsAssumption DEF tfs_init, TypeOK, File
<1>4. QED
  BY <1>1, <1>2, <1>3 DEF IInv, UsedIsPrefix, NamesDistinct, UsedAreNamed

\* tfs_create puts a new name into the first free slot.
LEMMA NewFileStep ==
    ASSUME IInv, ready, UNCHANGED ready, NEW n \in Names, Holders(n) = {},
           NEW s \in Slots, IsFirst(s, FreeSlots),
           table' = [table EXCEPT ![s] = [used |-> TRUE, name |-> n, data |-> <<>>]]
    PROVE  IInv'
<1> DEFINE new == [used |-> TRUE, name |-> n, data |-> <<>>]
<1>1. new \in File /\ Len(new.data) = 0 /\ new.used /\ new.name = n
  BY EmptySeq, SMT DEF File
<1>2. table \in [Slots -> File] /\ \A t \in Slots : Len(table[t].data) <= MaxSize
  BY DEF IInv, TypeOK, File
<1> HIDE DEF new
<1>3. table' = [table EXCEPT ![s] = new]
  BY DEF new
<1>4. table' \in [Slots -> File] /\ \A t \in Slots : table'[t] = IF t = s THEN new ELSE table[t]
  BY <1>1, <1>2, <1>3
<1>5. TypeOK'
  BY <1>1, <1>2, <1>4, TfsAssumption DEF TypeOK, File, IInv
<1>6. UsedIsPrefix'
  <2>1. \A t \in Slots : t < s => table[t].used
    BY DEF IsFirst, FreeSlots, Slots
  <2>2. QED
    BY <1>1, <1>4, <2>1 DEF IInv, UsedIsPrefix, Slots
<1>7. NamesDistinct' /\ UsedAreNamed'
  BY <1>1, <1>4 DEF IInv, NamesDistinct, UsedAreNamed, Holders
<1>8. QED
  BY <1>5, <1>6, <1>7 DEF IInv

\* tfs_write makes one file longer, up to its capacity.
LEMMA WriteStep ==
    ASSUME IInv, NEW fd \in Fds, NEW text \in Texts, tfs_write(fd, text)
    PROVE  IInv'
<1>1. CASE ~ Valid(fd)
  BY <1>1 DEF tfs_write, IInv, TypeOK, UsedIsPrefix, NamesDistinct, UsedAreNamed
<1>2. CASE Valid(fd)
  <2> DEFINE d == table[fd].data
             n == Least(Len(text), MaxSize - Len(d))
             new == [used |-> table[fd].used, name |-> table[fd].name,
                     data |-> d \o SubSeq(text, 1, n)]
  <2>1. fd \in Slots /\ table \in [Slots -> File] /\ \A t \in Slots : Len(table[t].data) <= MaxSize
    BY <1>2 DEF Valid, IInv, TypeOK, File
  <2>2. d \in Seq(Bytes) /\ Len(d) <= MaxSize /\ text \in Seq(Bytes)
    BY <2>1, TfsAssumption DEF File
  <2>3. n \in 0 .. Len(text) /\ Len(d) + n <= MaxSize
    BY <2>2, RoomForText
  <2>4. d \o SubSeq(text, 1, n) \in Seq(Bytes) /\ Len(d \o SubSeq(text, 1, n)) = Len(d) + n
    <3> HIDE DEF d, n
    <3>1. QED
      BY <2>2, <2>3, PrefixType
  <2>5. new \in File /\ Len(new.data) <= MaxSize
        /\ new.used = table[fd].used /\ new.name = table[fd].name
    BY <2>1, <2>3, <2>4 DEF File
  <2>6. ready' = ready /\ table' = [table EXCEPT ![fd] = new]
    BY <1>2 DEF tfs_write
  <2> HIDE DEF new
  <2>7. table' \in [Slots -> File]
        /\ \A t \in Slots : table'[t] = IF t = fd THEN new ELSE table[t]
    BY <2>1, <2>5, <2>6
  <2>8. TypeOK'
    BY <2>1, <2>5, <2>6, <2>7 DEF TypeOK, File, IInv
  <2>9. UsedIsPrefix' /\ NamesDistinct' /\ UsedAreNamed'
    BY <1>2, <2>5, <2>6, <2>7 DEF Valid, IInv, UsedIsPrefix, NamesDistinct, UsedAreNamed
  <2>10. QED
    BY <2>8, <2>9 DEF IInv
<1>3. QED
  BY <1>1, <1>2

\* Every call preserves the invariant.
LEMMA NextInv == IInv /\ [Next]_vars => IInv'
<1> SUFFICES ASSUME IInv, [Next]_vars PROVE IInv'
  OBVIOUS
<1>1. ASSUME ready' = ready, table' = table PROVE IInv'
  BY <1>1 DEF IInv, TypeOK, UsedIsPrefix, NamesDistinct, UsedAreNamed
<1>2. CASE tfs_init
  BY <1>2, InitStep
<1>3. ASSUME NEW n \in Names \cup BadNames, tfs_create(n) PROVE IInv'
  <2>1. CASE table' = table
    BY <1>1, <1>3, <2>1 DEF tfs_create
  <2>2. CASE table' # table
    <3>1. n \in Names /\ Holders(n) = {} /\ ready /\ UNCHANGED ready
      BY <1>3, <2>2 DEF tfs_create
    <3>2. PICK s \in Slots :
            /\ IsFirst(s, FreeSlots)
            /\ table' = [table EXCEPT ![s] = [used |-> TRUE, name |-> n, data |-> <<>>]]
      BY <1>3, <2>2 DEF tfs_create
    <3>3. QED
      BY <3>1, <3>2, NewFileStep
  <2>3. QED
    BY <2>1, <2>2
<1>4. ASSUME NEW fd \in Fds, NEW text \in Texts, tfs_write(fd, text) PROVE IInv'
  BY <1>4, WriteStep
<1>5. ASSUME NEW fd \in Fds, NEW len \in 0 .. MaxSize + 1, tfs_read(fd, len) PROVE IInv'
  BY <1>1, <1>5 DEF tfs_read
<1>6. CASE UNCHANGED vars
  BY <1>1, <1>6 DEF vars
<1>7. QED
  BY <1>2, <1>3, <1>4, <1>5, <1>6 DEF Next

\* The inductive invariant.
THEOREM Invariant == Spec => []IInv
<1>1. QED
  BY InitInv, NextInv, PTL DEF Spec

\* The variables of the file table have their types, and no file outgrows its array,
\* whatever texts are written (tfs_write).
THEOREM TypeCorrect == Spec => []TypeOK
<1>1. IInv => TypeOK
  BY DEF IInv
<1>2. QED
  BY <1>1, Invariant, PTL

\* The slots in use are always a beginning of the table (tfs_create).
THEOREM Prefix == Spec => []UsedIsPrefix
<1>1. IInv => UsedIsPrefix
  BY DEF IInv
<1>2. QED
  BY <1>1, Invariant, PTL

-----------------------------------------------------------------------------
(* Tfs implements FileStore.                                               *)

Store == [s \in Used |-> [name |-> table[s].name, data |-> table[s].data]]

\* The holder of a name is found, and no admissible name is taken for another one.
LEMMA InUse == IInv => \A n : F!NameInUse(n) <=> Holders(n) # {}
BY DEF F!NameInUse, Holders, Used

\* The zeroed table is the store that is not there yet.
LEMMA StoreInit == Init => F!Init
<1> SUFFICES ASSUME Init PROVE F!Init
  OBVIOUS
<1>1. Used = {}
  BY DEF Init, Used, Unused
<1>2. Store = [h \in {} |-> <<>>]
  BY <1>1 DEF Store
<1>3. QED
  BY <1>2 DEF Store, Init, F!Init, F!Refusal, F!Result

\* The table as the store sees it after a step that leaves it alone.
LEMMA SameStore == UNCHANGED <<ready, table>> => UNCHANGED <<ready, Store>>
BY DEF Store, Used

\* tfs_init opens the store.
LEMMA StoreOpen == IInv /\ tfs_init => F!Open
<1> SUFFICES ASSUME IInv, tfs_init PROVE F!Open
  OBVIOUS
<1>1. Used = {}
  BY DEF tfs_init, IInv, UsedAreNamed, Used
<1>2. Used' = {}
  BY DEF tfs_init, Used, Unused
<1>3. Store' = Store
  BY <1>1, <1>2 DEF Store
<1>4. QED
  BY <1>3 DEF Store, tfs_init, Returns, F!Open, F!Result

\* tfs_create creates a file of the store, finds it, or is refused as the store refuses.
LEMMA StoreCreate ==
    ASSUME IInv, NEW n \in Names \cup BadNames, tfs_create(n)
    PROVE  \/ F!RefuseCreate(n)
           \/ n \in Names /\ \E h \in Slots : F!Create(h, n) \/ F!Find(h, n)
<1>1. CASE (~ ready \/ n \in BadNames) /\ Returns(-1) /\ UNCHANGED <<ready, table>>
  <2>1. Holders(n) = {} /\ (n \notin Names \/ ~ ready)
    BY <1>1, TfsAssumption DEF Holders, IInv, UsedAreNamed
  <2>2. QED
    BY <1>1, <2>1, InUse, SameStore DEF Store, Returns, F!RefuseCreate, F!Refusal, F!Result
<1>2. CASE /\ ready /\ n \notin BadNames
           /\ \E s \in Slots : IsFirst(s, Holders(n)) /\ Returns(s)
           /\ UNCHANGED <<ready, table>>
  <2>1. PICK s \in Slots : s \in Holders(n) /\ Returns(s)
    BY <1>2 DEF IsFirst
  <2>2. F!Find(s, n)
    BY <1>2, <2>1, SameStore DEF Holders, Used, Store, Returns, F!Find, F!Result
  <2>3. QED
    BY <1>2, <2>2
<1>3. CASE ready /\ n \notin BadNames /\ Holders(n) = {} /\ UNCHANGED ready
  <2>1. CASE FreeSlots = {} /\ Returns(-1) /\ UNCHANGED table
    <3>1. Used = Slots
      BY <2>1 DEF Used, FreeSlots
    <3>2. QED
      BY <1>3, <2>1, <3>1, InUse, SameStore
         DEF Store, Returns, F!RefuseCreate, F!Refusal, F!Result
  <2>2. ASSUME NEW s \in Slots, IsFirst(s, FreeSlots), Returns(s),
               table' = [table EXCEPT ![s] = [used |-> TRUE, name |-> n, data |-> <<>>]]
        PROVE  F!Create(s, n)
    <3> DEFINE new == [used |-> TRUE, name |-> n, data |-> <<>>]
    <3>1. new.used /\ [name |-> new.name, data |-> new.data] = [name |-> n, data |-> <<>>]
      OBVIOUS
    <3>2. \A t \in Slots : table'[t] = IF t = s THEN new ELSE table[t]
      BY <2>2 DEF IInv, TypeOK
    <3> HIDE DEF new
    <3>3. s \notin Used
      BY <2>2 DEF IsFirst, FreeSlots, Used
    <3>4. Used' = Used \cup {s}
      BY <3>1, <3>2 DEF Used
    <3>5. Store' = [g \in Used \cup {s} |->
                      IF g = s THEN [name |-> n, data |-> <<>>] ELSE Store[g]]
      BY <3>1, <3>2, <3>3, <3>4 DEF Store, Used
    <3>6. DOMAIN Store = Used
      BY DEF Store
    <3>7. QED
      BY <1>3, <2>2, <3>3, <3>5, <3>6, InUse DEF Store, Returns, F!Create, F!Result
  <2>3. n \in Names
    BY <1>3
  <2>4. QED
    BY <1>1, <1>3, <2>1, <2>2, <2>3 DEF tfs_create, IsFirst
<1>4. QED
  BY <1>1, <1>2, <1>3 DEF tfs_create

\* tfs_read reads the beginning of a file of the store.
LEMMA StoreRead ==
    ASSUME IInv, NEW fd \in Fds, NEW len \in 0 .. MaxSize + 1, tfs_read(fd, len)
    PROVE  \/ F!RefuseHandle(fd)
           \/ fd \in Slots /\ \E k \in 0 .. MaxSize : F!Read(fd, k)
<1>1. CASE ~ Valid(fd)
  BY <1>1, SameStore
     DEF tfs_read, Valid, Used, Store, Returns, F!RefuseHandle, F!Refusal, F!Result
<1>2. CASE Valid(fd)
  <2> DEFINE k == Least(len, Len(table[fd].data))
  <2>1. fd \in Slots /\ fd \in Used
    BY <1>2 DEF Valid, Used
  <2>2. table[fd].data \in Seq(Bytes) /\ Len(table[fd].data) <= MaxSize
    BY <2>1 DEF IInv, TypeOK
  <2>3. k \in 0 .. MaxSize /\ k <= Len(table[fd].data)
    BY <2>2, LenProperties, TfsAssumption, SMT DEF Least
  <2>4. Store[fd].data = table[fd].data
    BY <2>1 DEF Store
  <2>5. result' = [ret |-> k, buf |-> SubSeq(table[fd].data, 1, k)]
        /\ UNCHANGED <<ready, table>>
    BY <1>2 DEF tfs_read
  <2> HIDE DEF k
  <2>6. F!Read(fd, k)
    BY <2>1, <2>3, <2>4, <2>5, SameStore DEF Store, F!Read, F!Result
  <2>7. QED
    BY <2>1, <2>3, <2>6
<1>3. QED
  BY <1>1, <1>2

\* tfs_write appends to a file of the store what there is room for.
LEMMA StoreWrite ==
    ASSUME IInv, NEW fd \in Fds, NEW text \in Texts, tfs_write(fd, text)
    PROVE  \/ F!RefuseHandle(fd)
           \/ fd \in Slots /\ \E k \in 0 .. MaxSize : F!Write(fd, text, k)
<1>1. CASE ~ Valid(fd)
  BY <1>1, SameStore
     DEF tfs_write, Valid, Used, Store, Returns, F!RefuseHandle, F!Refusal, F!Result
<1>2. CASE Valid(fd)
  <2> DEFINE d == table[fd].data
             k == Least(Len(text), MaxSize - Len(d))
             new == [used |-> table[fd].used, name |-> table[fd].name,
                     data |-> d \o SubSeq(text, 1, k)]
  <2>1. fd \in Slots /\ fd \in Used /\ table[fd].used
    BY <1>2 DEF Valid, Used
  <2>2. d \in Seq(Bytes) /\ Len(d) <= MaxSize /\ text \in Seq(Bytes)
    BY <2>1, TfsAssumption DEF IInv, TypeOK
  <2>3. /\ k \in 0 .. MaxSize /\ k <= Len(text) /\ Len(d) + k <= MaxSize
        /\ k = Len(text) \/ Len(d) + k = MaxSize
    <3>1. Len(text) \in Nat
      BY <2>2, LenProperties
    <3>2. QED
      BY <2>2, <3>1, RoomForText
  <2>4. new.used = table[fd].used /\ new.name = table[fd].name
        /\ new.data = d \o SubSeq(text, 1, k)
    OBVIOUS
  <2>5. ready' = ready /\ result' = [ret |-> k, buf |-> <<>>]
        /\ table' = [table EXCEPT ![fd] = new]
    BY <1>2 DEF tfs_write, Returns
  <2> HIDE DEF new, k
  <2>6. \A t \in Slots : table'[t] = IF t = fd THEN new ELSE table[t]
    BY <2>5 DEF IInv, TypeOK
  <2>7. Used' = Used
    BY <2>1, <2>4, <2>6 DEF Used
  <2>8. Store[fd] = [name |-> table[fd].name, data |-> d] /\ DOMAIN Store = Used
    BY <2>1 DEF Store
  <2>9. Store' = [Store EXCEPT ![fd] = [name |-> Store[fd].name,
                                        data |-> Store[fd].data \o SubSeq(text, 1, k)]]
    <3> DEFINE file == [name |-> table[fd].name, data |-> d \o SubSeq(text, 1, k)]
    <3>1. [name |-> new.name, data |-> new.data] = file
      BY <2>4
    <3>2. Store' = [g \in Used |-> IF g = fd THEN file ELSE Store[g]]
      BY <2>6, <2>7, <3>1 DEF Store, Used
    <3>3. Store[fd].name = table[fd].name /\ Store[fd].data = d
      BY <2>8
    <3> HIDE DEF d, file
    <3>4. QED
      BY <2>8, <3>2, <3>3 DEF file, Store
  <2>10. F!Write(fd, text, k)
    <3>1. Store[fd].data = d /\ fd \in DOMAIN Store
      BY <2>1, <2>8
    <3>2. QED
      BY <2>3, <2>5, <2>9, <3>1 DEF Store, F!Write, F!Result
  <2>11. k \in 0 .. MaxSize
    BY <2>3
  <2>12. QED
    BY <2>1, <2>10, <2>11 DEF F!Write
<1>3. QED
  BY <1>1, <1>2

\* Every step of the table is a step of the store, or changes nothing.
LEMMA StoreStep == IInv /\ [Next]_vars => [F!Next]_<<ready, Store, result>>
<1> SUFFICES ASSUME IInv, [Next]_vars PROVE [F!Next]_<<ready, Store, result>>
  OBVIOUS
<1>1. CASE tfs_init
  BY <1>1, StoreOpen DEF F!Next
<1>2. ASSUME NEW n \in Names \cup BadNames, tfs_create(n) PROVE F!Next
  BY <1>2, StoreCreate DEF F!Next
<1>3. ASSUME NEW fd \in Fds, NEW text \in Texts, tfs_write(fd, text) PROVE F!Next
  BY <1>3, StoreWrite DEF F!Next
<1>4. ASSUME NEW fd \in Fds, NEW len \in 0 .. MaxSize + 1, tfs_read(fd, len) PROVE F!Next
  BY <1>4, StoreRead DEF F!Next
<1>5. CASE UNCHANGED vars
  BY <1>5, SameStore DEF vars
<1>6. QED
  BY <1>1, <1>2, <1>3, <1>4, <1>5 DEF Next

\* The file table implements FileStore, for any capacity and any texts: a handle keeps
\* its name and what has been written (tfs_create, tfs_write, tfs_read).
THEOREM Refinement == Spec => FileStoreSpec
<1>1. IInv /\ [Next]_vars => [F!Next]_<<ready, Store, result>>
  BY StoreStep
<1>2. Init => F!Init
  BY StoreInit
<1>3. QED
  BY <1>1, <1>2, Invariant, PTL DEF Spec, FileStoreSpec, F!Spec, Store
-----------------------------------------------------------------------------
(* The table as Kernel counts it.                                          *)

\* A beginning of the table with as many slots as there are files.
LEMMA UsedIs ==
    ASSUME NEW U, NEW c, U \subseteq Slots, \A s, t \in Slots : s <= t /\ t \in U => s \in U,
           c = Cardinality(U)
    PROVE  c \in 0 .. MaxFiles /\ U = 0 .. c - 1
<1>1. PICK n \in Nat : n = MaxFiles /\ Slots = 0 .. n - 1
  BY TfsAssumption DEF Slots
<1> DEFINE Free == (0 .. n) \ U
<1>2. n \in Free
  BY <1>1
<1>3. PICK m \in Free : \A x \in Free : m <= x
  <2>1. Free \subseteq Nat /\ Free # {}
    BY <1>2
  <2> HIDE DEF Free
  <2> QED  BY <2>1, HasLeast
<1>4. m \in 0 .. n /\ m \notin U
  OBVIOUS
<1>5. \A x \in 0 .. m - 1 : x \in U
  <2>1. \A x \in 0 .. m - 1 : x \in 0 .. n /\ ~ (m <= x)
    BY <1>4
  <2> QED  BY <1>3, <2>1
<1>6. \A x \in U : x \in 0 .. m - 1
  <2> SUFFICES ASSUME NEW x \in U, x >= m PROVE FALSE
    BY <1>1
  <2>1. x \in Slots /\ m \in Slots
    BY <1>1, <1>4
  <2> QED  BY <1>1, <1>4, <2>1
<1>7. U = 0 .. m - 1
  BY <1>5, <1>6
<1>8. Cardinality(0 .. m - 1) = m
  <2>1. m \in Nat /\ 0 \in Int /\ m - 1 \in Int
    BY <1>4
  <2>2. Cardinality(0 .. m - 1) = IF 0 > m - 1 THEN 0 ELSE (m - 1) - 0 + 1
    BY <2>1, FS_Interval
  <2> QED  BY <2>1, <2>2
<1> QED  BY <1>1, <1>4, <1>7, <1>8

\* The files are those below their number.
LEMMA Counted == IInv => Count \in 0 .. MaxFiles /\ Used = 0 .. Count - 1
<1> SUFFICES ASSUME IInv PROVE Count \in 0 .. MaxFiles /\ Used = 0 .. Count - 1
  OBVIOUS
<1>1. Used \subseteq Slots /\ \A s, t \in Slots : s <= t /\ t \in Used => s \in Used
  BY DEF Used, IInv, UsedIsPrefix
<1> QED  BY <1>1, UsedIs DEF Count

\* So they are after a step.
LEMMA CountedNext == IInv' => Count' \in 0 .. MaxFiles /\ Used' = 0 .. Count' - 1
<1> SUFFICES ASSUME IInv' PROVE Count' \in 0 .. MaxFiles /\ Used' = 0 .. Count' - 1
  OBVIOUS
<1>1. Used' \subseteq Slots /\ \A s, t \in Slots : s <= t /\ t \in Used' => s \in Used'
  BY DEF Used, IInv, UsedIsPrefix
<1> QED  BY <1>1, UsedIs DEF Count

\* A call that keeps the files in use keeps their number.
LEMMA SameCount == Used' = Used => Count' = Count
BY DEF Count

\* tfs_create hands out a handle below the number of files, or that number.
LEMMA CreateCounts ==
    ASSUME IInv, IInv', NEW n \in Names \cup BadNames, tfs_create(n)
    PROVE  /\ result'.ret # -1 => Handed(result'.ret)
           /\ \/ Count' = Count
              \/ ready /\ Count < MaxFiles /\ result'.ret = Count /\ Handed(Count)
<1>1. Count \in 0 .. MaxFiles /\ Used = 0 .. Count - 1
  BY Counted
<1>2. Count' \in 0 .. MaxFiles /\ Used' = 0 .. Count' - 1
  BY CountedNext
<1>3. ASSUME UNCHANGED table PROVE Count' = Count
  BY <1>3, SameCount DEF Used
<1>4. MaxFiles \in Nat /\ Slots = 0 .. MaxFiles - 1
  BY TfsAssumption DEF Slots
<1>5. CASE Returns(-1) /\ UNCHANGED table
  BY <1>3, <1>5 DEF Returns
<1>6. ASSUME NEW s \in Slots, IsFirst(s, Holders(n)), Returns(s), UNCHANGED table
      PROVE  /\ result'.ret # -1 => Handed(result'.ret)
             /\ Count' = Count
  <2>1. s \in Used
    BY <1>6 DEF IsFirst, Holders, Used
  <2>2. s \in 0 .. Count /\ s # Count
    BY <1>1, <2>1
  <2> QED  BY <1>3, <1>6, <2>2 DEF Returns, Handed
<1>7. ASSUME ready, NEW s \in Slots, IsFirst(s, FreeSlots), Returns(s),
             table' = [table EXCEPT ![s] = [used |-> TRUE, name |-> n, data |-> <<>>]]
      PROVE  Handed(s) /\ s = Count /\ Count < MaxFiles
  <2>1. s \notin Used /\ \A t \in Slots : t < s => t \in Used
    BY <1>4, <1>7 DEF IsFirst, FreeSlots, Used
  <2>2. s = Count
    BY <1>1, <1>4, <2>1
  <2>3. \A t \in Slots : t \in Used' <=> t = s \/ t \in Used
    <3> DEFINE new == [used |-> TRUE, name |-> n, data |-> <<>>]
    <3>1. new.used
      OBVIOUS
    <3> HIDE DEF new
    <3>2. table' = [table EXCEPT ![s] = new]
      BY <1>7 DEF new
    <3>3. \A t \in Slots : table'[t] = IF t = s THEN new ELSE table[t]
      BY <3>2 DEF IInv, TypeOK
    <3> QED  BY <3>1, <3>3 DEF Used
  <2>4. PICK c, d : c = Count /\ d = Count'
    OBVIOUS
  <2>5. \A t \in 0 .. MaxFiles - 1 : t \in 0 .. d - 1 <=> t = c \/ t \in 0 .. c - 1
    BY <1>1, <1>2, <1>4, <2>2, <2>3, <2>4
  <2>6. c \in 0 .. MaxFiles /\ d \in 0 .. MaxFiles /\ c \in 0 .. MaxFiles - 1
    BY <1>1, <1>2, <1>4, <1>7, <2>2, <2>4
  <2>7. d = c + 1
    <3>1. c \in 0 .. d - 1
      BY <2>5, <2>6
    <3>2. d - 1 \in 0 .. MaxFiles - 1 /\ d - 1 \in 0 .. d - 1
      BY <1>4, <2>6, <3>1
    <3>3. d - 1 = c \/ d - 1 \in 0 .. c - 1
      BY <2>5, <3>2
    <3> QED  BY <2>6, <3>1, <3>3
  <2> QED  BY <1>1, <1>4, <2>2, <2>4, <2>6, <2>7 DEF Handed
<1>8. ASSUME ready, NEW s \in Slots, IsFirst(s, FreeSlots), Returns(s),
             table' = [table EXCEPT ![s] = [used |-> TRUE, name |-> n, data |-> <<>>]]
      PROVE  result'.ret = s
  BY <1>8 DEF Returns
<1> QED  BY <1>5, <1>6, <1>7, <1>8 DEF tfs_create

\* tfs_write keeps the files in use.
LEMMA WriteKeepsUsed ==
    ASSUME IInv, NEW fd \in Fds, NEW text \in Texts, tfs_write(fd, text)
    PROVE  Used' = Used
<1>1. CASE ~ Valid(fd)
  BY <1>1 DEF tfs_write, Used
<1>2. CASE Valid(fd)
  <2>1. PICK new : new.used = table[fd].used /\ table' = [table EXCEPT ![fd] = new]
    <3> DEFINE k == Least(Len(text), MaxSize - Len(table[fd].data))
               new == [used |-> table[fd].used, name |-> table[fd].name,
                       data |-> table[fd].data \o SubSeq(text, 1, k)]
    <3>1. table' = [table EXCEPT ![fd] = new]
      BY <1>2 DEF tfs_write
    <3>2. new.used = table[fd].used
      OBVIOUS
    <3> HIDE DEF new
    <3> QED  BY <3>1, <3>2
  <2>2. \A s \in Slots : table'[s].used = table[s].used
    BY <2>1 DEF IInv, TypeOK
  <2> QED  BY <2>2 DEF Used
<1> QED  BY <1>1, <1>2

\* What Kernel takes the table for is what it is, for any capacity: the handles in use are
\* those below the number of files, and tfs_create hands out one of these or the next
\* (turboxfs.cpp, tfs_create; ipc_adapter.cpp, vfs_run).
THEOREM KernelCounts == Spec => HandlesAreCounted
<1> DEFINE A == /\ \A fd \in Fds : Valid(fd)' <=> fd \in 0 .. Count' - 1
                /\ \A n \in Names : tfs_create(n) /\ result'.ret # -1 => Handed(result'.ret)
                /\ \/ Count' = Count
                   \/ ready /\ Count < MaxFiles /\ result'.ret = Count /\ Handed(Count)
<1>1. IInv /\ IInv' /\ [Next]_vars => [A]_vars
  <2> SUFFICES ASSUME IInv, IInv', Next PROVE A
    OBVIOUS
  <2>1. \A fd \in Fds : Valid(fd)' <=> fd \in 0 .. Count' - 1
    <3>1. Used' = 0 .. Count' - 1
      BY CountedNext
    <3>2. \A fd \in Fds : Valid(fd)' <=> fd \in Used'
      BY DEF Valid, Used
    <3> QED  BY <3>1, <3>2
  <2>2. \A n \in Names : tfs_create(n) /\ result'.ret # -1 => Handed(result'.ret)
    BY CreateCounts
  <2>3. \/ Count' = Count
        \/ ready /\ Count < MaxFiles /\ result'.ret = Count /\ Handed(Count)
    <3>1. CASE tfs_init
      <4>1. Used = {} /\ Used' = {}
        BY <3>1 DEF tfs_init, IInv, UsedAreNamed, Used, Unused
      <4> QED  BY <4>1, SameCount
    <3>2. ASSUME NEW n \in Names \cup BadNames, tfs_create(n)
          PROVE  \/ Count' = Count
                 \/ ready /\ Count < MaxFiles /\ result'.ret = Count /\ Handed(Count)
      BY <3>2, CreateCounts
    <3>3. ASSUME NEW fd \in Fds, NEW text \in Texts, tfs_write(fd, text) PROVE Count' = Count
      BY <3>3, WriteKeepsUsed, SameCount
    <3>4. ASSUME NEW fd \in Fds, NEW len \in 0 .. MaxSize + 1, tfs_read(fd, len)
          PROVE  Count' = Count
      BY <3>4, SameCount DEF tfs_read, Used
    <3> QED  BY <3>1, <3>2, <3>3, <3>4 DEF Next
  <2> QED  BY <2>1, <2>2, <2>3
<1> QED  BY <1>1, Invariant, PTL DEF Spec, HandlesAreCounted

-----------------------------------------------------------------------------
(* The script interpreter.                                                 *)

\* Between one position and the next there is one character more, unless it is a CR.
LEMMA BetweenNext ==
    ASSUME NEW d \in Seq(Tokens), NEW b \in Nat, NEW e \in Nat, b < e, e <= Len(d)
    PROVE  /\ Between(d, b, e) \in Seq(Tokens)
           /\ Between(d, b, e + 1)
                = IF d[e] = "CR" THEN Between(d, b, e) ELSE Append(Between(d, b, e), d[e])
<1> DEFINE Part(k) == IF d[b + k] = "CR" THEN <<>> ELSE <<d[b + k]>>
           ss == [k \in 1 .. e - b - 1 |-> Part(k)]
           tt == [k \in 1 .. (e + 1) - b - 1 |-> Part(k)]
<1>1. PICK n \in Nat : n = e - b - 1 /\ (e + 1) - b - 1 = n + 1 /\ b + (n + 1) = e
  OBVIOUS
<1>2. \A k \in 1 .. n + 1 : b + k \in 1 .. Len(d)
  BY <1>1, LenProperties
<1>3. \A k \in 1 .. n + 1 : Part(k) \in Seq(Tokens)
  <2> SUFFICES ASSUME NEW k \in 1 .. n + 1 PROVE Part(k) \in Seq(Tokens)
    OBVIOUS
  <2>1. d[b + k] \in Tokens
    BY <1>2, ElementOfSeq
  <2>2. <<>> \in Seq(Tokens) /\ \A c \in Tokens : <<c>> \in Seq(Tokens)
    OBVIOUS
  <2> QED  BY <2>1, <2>2
<1>4. Part(n + 1) = IF d[e] = "CR" THEN <<>> ELSE <<d[e]>>
  BY <1>1
<1>5. Between(d, b, e) = FlattenSeq(ss) /\ Between(d, b, e + 1) = FlattenSeq(tt)
  BY DEF Between
<1> HIDE DEF Part
<1>6. ss = [k \in 1 .. n |-> Part(k)] /\ tt = [k \in 1 .. n + 1 |-> Part(k)]
  BY <1>1
<1> HIDE DEF ss, tt
<1>7. ss \in Seq(Seq(Tokens)) /\ tt \in Seq(Seq(Tokens))
  <2>1. \A k \in 1 .. n : Part(k) \in Seq(Tokens)
    <3>1. \A k \in 1 .. n : k \in 1 .. n + 1
      OBVIOUS
    <3> QED  BY <1>3, <3>1
  <2>2. [k \in 1 .. n |-> Part(k)] \in Seq(Seq(Tokens))
    BY <2>1, IsASeq
  <2>3. n + 1 \in Nat
    OBVIOUS
  <2>4. [k \in 1 .. n + 1 |-> Part(k)] \in Seq(Seq(Tokens))
    BY <1>3, <2>3, IsASeq
  <2> QED  BY <1>6, <2>2, <2>4
<1>8. Len(ss) = n /\ Len(tt) = n + 1
  <2>1. DOMAIN ss = 1 .. n /\ DOMAIN tt = 1 .. n + 1
    BY <1>6
  <2> QED  BY <1>7, <2>1, LenProperties
<1>9. OneLonger(tt, ss, Part(n + 1))
  <2>1. \A k \in 1 .. n : tt[k] = ss[k]
    BY <1>6
  <2>2. tt[n + 1] = Part(n + 1)
    BY <1>6
  <2> QED  BY <1>8, <2>1, <2>2 DEF OneLonger
<1>10. FlattenSeq(ss) \in Seq(Tokens) /\ FlattenSeq(tt) = FlattenSeq(ss) \o Part(n + 1)
  BY <1>7, <1>9, FlattenMore
<1>11. PICK s \in Seq(Tokens) : s = FlattenSeq(ss)
  BY <1>10
<1>12. s \o <<>> = s
  BY ConcatEmptySeq
<1>13. d[e] \in Tokens
  <2>1. e \in 1 .. Len(d)
    BY LenProperties
  <2> QED  BY <2>1, ElementOfSeq
<1>14. s \o <<d[e]>> = Append(s, d[e])
  BY <1>13, AppendIsConcat
<1> QED  BY <1>4, <1>5, <1>10, <1>11, <1>12, <1>14

\* At the start of a line there is nothing yet.
LEMMA BetweenNone ==
    ASSUME NEW d, NEW b \in Nat
    PROVE  Between(d, b, b + 1) = <<>>
<1> DEFINE Part(k) == IF d[b + k] = "CR" THEN <<>> ELSE <<d[b + k]>>
           ss == [k \in 1 .. (b + 1) - b - 1 |-> Part(k)]
<1>1. Between(d, b, b + 1) = FlattenSeq(ss)
  BY DEF Between
<1> HIDE DEF Part
<1>2. (b + 1) - b - 1 = 0
  OBVIOUS
<1>3. ss = <<>>
  <2>1. ss \in Seq({})
    BY <1>2
  <2>2. DOMAIN ss = 1 .. 0
    BY <1>2
  <2> HIDE DEF ss
  <2> QED  BY <2>1, <2>2, LenProperties, EmptySeq
<1> HIDE DEF ss
<1> QED  BY <1>1, <1>3, EmptySeq DEF FlattenSeq

\* The line buffer takes a character more, unless it is full.
LEMMA CutNext ==
    ASSUME NEW s \in Seq(Tokens), NEW c \in Tokens
    PROVE  /\ Cut(s) \in Seq(Tokens)
           /\ Cut(Append(s, c)) = IF Len(Cut(s)) < LineMax THEN Append(Cut(s), c) ELSE Cut(s)
<1>1. PICK m \in Nat, n \in Nat : m = LineMax /\ n = Len(s)
  BY ScriptAssumption, LenProperties DEF ScriptAssumption
<1>5. PICK t : t = Append(s, c)
  OBVIOUS
<1>2. /\ t \in Seq(Tokens) /\ Len(t) = n + 1 /\ t[n + 1] = c
      /\ \A k \in 1 .. n : t[k] = s[k]
  BY <1>1, <1>5, AppendProperties
<1>3. CASE n < m
  BY <1>1, <1>2, <1>3, <1>5 DEF Cut
<1>4. CASE n >= m
  <2>1. PICK u, v : u = SubSeq(s, 1, m) /\ v = SubSeq(t, 1, m)
    OBVIOUS
  <2>2. 1 \in Nat /\ 1 >= 1 /\ m <= Len(s) /\ m <= Len(t)
    BY <1>1, <1>2, <1>4
  <2>3. /\ u \in Seq(Tokens) /\ Len(u) = IF 1 <= m THEN m - 1 + 1 ELSE 0
        /\ \A k \in 1 .. m - 1 + 1 : u[k] = s[1 + k - 1]
    BY <2>1, <2>2, Piece
  <2>4. \A k \in 1 .. m : s[k] = t[k]
    BY <1>2, <1>4
  <2>5. u = v
    BY <1>2, <2>1, <2>2, <2>4, SamePiece
  <2>6. Len(u) = m
    BY <2>3
  <2>7. Cut(t) = v
    BY <1>1, <1>2, <1>4, <2>1 DEF Cut
  <2>8. CASE n = m
    <3>1. Cut(s) = s
      BY <1>1, <2>8 DEF Cut
    <3>2. u = s
      <4>1. \A k \in 1 .. m : u[k] = s[k]
        BY <2>3
      <4> QED  BY <1>1, <2>3, <2>6, <2>8, <4>1, SeqEqual
    <3> QED  BY <1>1, <1>5, <2>5, <2>6, <2>7, <3>1, <3>2
  <2>9. CASE n # m
    <3>1. Cut(s) = u
      BY <1>1, <1>4, <2>1, <2>9 DEF Cut
    <3> QED  BY <1>1, <1>5, <2>3, <2>5, <2>6, <2>7, <3>1
  <2> QED  BY <2>8, <2>9
<1> QED  BY <1>3, <1>4

\* A line without characters is skipped.
LEMMA EmptyLine == Skips(<<>>) /\ Cut(<<>>) = <<>>
<1>1. Len(<<>>) = 0
  OBVIOUS
<1>2. Stripped(<<>>) = <<>>
  BY <1>1 DEF Stripped, SelectInSeq
<1>3. Cut(<<>>) = <<>>
  BY <1>1, ScriptAssumption DEF Cut, ScriptAssumption
<1> QED  BY <1>2, <1>3 DEF Skips

\* What a line of d leaves.
Effects(d) == {Stripped(LineAt(d, b)) : b \in 0 .. Len(d)}

\* run[b] is what the lines that start before b leave.
IsRun(run, d) ==
    /\ run \in [0 .. Len(d) + 1 -> Seq(Effects(d))]
    /\ run[0] = <<>> /\ Meaning(d) = run[Len(d) + 1]
    /\ \A b \in 0 .. Len(d) : run[b + 1] = run[b] \o EffectAt(d, b)
    /\ \A b \in 0 .. Len(d) : EffectAt(d, b) \in Seq(Effects(d))

Before(d) == CHOOSE run : IsRun(run, d)

\* There is such a run for every script.
LEMMA BeforeRuns ==
    ASSUME NEW d \in Seq(Tokens)
    PROVE  IsRun(Before(d), d)
<1> DEFINE n == Len(d) + 1
           ss == [k \in 1 .. n |-> EffectAt(d, k - 1)]
           S  == Effects(d)
<1>1. n \in Nat /\ n > 0 /\ n = Len(d) + 1 /\ Len(d) \in Nat
  BY LenProperties
<1>2. ASSUME NEW b \in 0 .. Len(d) PROVE EffectAt(d, b) \in Seq(S)
  <2>1. Stripped(LineAt(d, b)) \in S
    BY DEF Effects
  <2> HIDE DEF S
  <2>2. PICK x \in S : x = Stripped(LineAt(d, b))
    BY <2>1
  <2>3. <<>> \in Seq(S) /\ <<x>> \in Seq(S)
    OBVIOUS
  <2> QED  BY <2>2, <2>3 DEF EffectAt
<1> HIDE DEF n, S
<1>3. ss \in Seq(Seq(S)) /\ Len(ss) = n
  <2>1. \A k \in 1 .. n : EffectAt(d, k - 1) \in Seq(S)
    <3> SUFFICES ASSUME NEW k \in 1 .. n PROVE EffectAt(d, k - 1) \in Seq(S)
      OBVIOUS
    <3>1. k - 1 \in 0 .. Len(d)
      BY <1>1
    <3> QED  BY <1>2, <3>1
  <2> DEFINE e(k) == EffectAt(d, k - 1)
  <2>2. \A k \in 1 .. n : e(k) \in Seq(S)
    BY <2>1
  <2> HIDE DEF e
  <2>3. [k \in 1 .. n |-> e(k)] \in Seq(Seq(S))
    BY <1>1, <2>2, IsASeq
  <2>4. ss \in Seq(Seq(S))
    BY <2>3 DEF e
  <2>5. DOMAIN ss = 1 .. n
    OBVIOUS
  <2> HIDE DEF ss
  <2> QED  BY <1>1, <2>4, <2>5, LenProperties
<1>4. \A k \in 1 .. n : ss[k] = EffectAt(d, k - 1)
  OBVIOUS
<1>5. Meaning(d) = FlattenSeq(ss)
  BY DEF Meaning, n
<1> HIDE DEF ss
<1>6. PICK run \in [0 .. n -> Seq(S)] :
        /\ run[0] = <<>> /\ FlattenSeq(ss) = run[n]
        /\ \A k \in 1 .. n : run[k] = run[k - 1] \o ss[k]
  <2>1. Len(ss) > 0
    BY <1>1, <1>3
  <2>2. PICK run \in [0 .. Len(ss) -> Seq(S)] :
          /\ run[0] = <<>> /\ FlattenSeq(ss) = run[Len(ss)]
          /\ \A k \in 1 .. Len(ss) : run[k] = run[k - 1] \o ss[k]
    BY <1>3, <2>1, FlattenRuns
  <2> QED  BY <1>3, <2>2
<1>7. ASSUME NEW b \in 0 .. Len(d) PROVE run[b + 1] = run[b] \o EffectAt(d, b)
  <2>1. PICK k \in 1 .. n : k = b + 1 /\ k - 1 = b
    BY <1>1
  <2>2. ss[k] = EffectAt(d, b)
    BY <1>4, <2>1
  <2> QED  BY <1>6, <2>1, <2>2
<1>8. IsRun(run, d)
  BY <1>1, <1>2, <1>5, <1>6, <1>7 DEF S, IsRun
<1> QED  BY <1>8 DEF Before

\* Lines that leave nothing change nothing.
LEMMA NothingLeft ==
    ASSUME NEW d \in Seq(Tokens), NEW b \in 0 .. Len(d) + 1, NEW c \in 0 .. Len(d) + 1, b <= c,
           \A a \in b .. c - 1 : EffectAt(d, a) = <<>>
    PROVE  Before(d)[c] = Before(d)[b]
<1> DEFINE run == Before(d)
           S   == Effects(d)
<1>1. /\ run \in [0 .. Len(d) + 1 -> Seq(S)]
      /\ \A a \in 0 .. Len(d) : run[a + 1] = run[a] \o EffectAt(d, a)
  BY BeforeRuns DEF IsRun
<1>2. PICK n \in Nat, m \in Nat : n = Len(d) /\ m = c - b /\ b \in Nat /\ c \in Nat /\ b + m = c
  BY LenProperties
<1> HIDE DEF run, S
<1> DEFINE T == {k \in 0 .. m : run[b + k] = run[b]}
<1>3. 0 \in T
  BY <1>2
<1>4. ASSUME NEW k \in 1 .. m, k - 1 \in T PROVE k \in T
  <2>1. PICK a \in b .. c - 1 : a = b + (k - 1) /\ a + 1 = b + k /\ a \in 0 .. n
    BY <1>2
  <2>2. run[a + 1] = run[a] \o <<>> /\ run[a] \in Seq(S)
    <3>1. a \in 0 .. n + 1
      BY <2>1
    <3> QED  BY <1>1, <1>2, <2>1, <3>1
  <2>3. run[a] \o <<>> = run[a]
    BY <2>2, ConcatEmptySeq
  <2>4. run[a] = run[b] /\ k \in 0 .. m
    BY <1>4, <2>1
  <2> QED  BY <2>1, <2>2, <2>3, <2>4
<1>5. m \in T
  <2> HIDE DEF T
  <2>1. m \in 0 .. m
    BY <1>2
  <2> QED  BY <1>2, <1>3, <1>4, <2>1, UpTo
<1> QED  BY <1>2, <1>5 DEF run

\* What the first lines leave is the beginning of the meaning.
LEMMA BeforeIsPrefix ==
    ASSUME NEW d \in Seq(Tokens), NEW b \in 0 .. Len(d) + 1
    PROVE  IsPrefix(Before(d)[b], Meaning(d))
<1> DEFINE run == Before(d)
           S   == Effects(d)
<1>1. /\ run \in [0 .. Len(d) + 1 -> Seq(S)] /\ Meaning(d) = run[Len(d) + 1]
      /\ \A a \in 0 .. Len(d) : run[a + 1] = run[a] \o EffectAt(d, a)
      /\ \A a \in 0 .. Len(d) : EffectAt(d, a) \in Seq(S)
  BY BeforeRuns DEF IsRun
<1>2. PICK n \in Nat, m \in Nat : n = Len(d) /\ b \in Nat /\ b + m = n + 1
  BY LenProperties
<1> HIDE DEF run, S
<1>3. PICK s \in Seq(S) : s = run[b]
  BY <1>1
<1> DEFINE T == {k \in 0 .. m : \E r \in Seq(S) : run[b + k] = s \o r}
<1>4. 0 \in T
  <2>1. <<>> \in Seq(S) /\ s \o <<>> = s /\ b + 0 = b /\ 0 \in 0 .. m
    BY <1>2, ConcatEmptySeq
  <2> QED  BY <1>3, <2>1
<1>5. ASSUME NEW k \in 1 .. m, k - 1 \in T PROVE k \in T
  <2>1. PICK r \in Seq(S) : run[b + (k - 1)] = s \o r
    BY <1>5
  <2>2. PICK a \in 0 .. n : a = b + (k - 1) /\ a + 1 = b + k
    BY <1>2
  <2>3. PICK x \in Seq(S) : x = EffectAt(d, a)
    BY <1>1, <1>2, <2>2
  <2>4. run[a + 1] = (s \o r) \o x
    BY <1>1, <1>2, <2>1, <2>2, <2>3
  <2>5. (s \o r) \o x = s \o (r \o x)
    BY ConcatAssociative
  <2>6. r \o x \in Seq(S)
    BY ConcatProperties
  <2>7. k \in 0 .. m
    BY <1>2
  <2> QED  BY <2>2, <2>4, <2>5, <2>6, <2>7
<1>6. PICK r \in Seq(S) : Meaning(d) = s \o r
  <2>1. m \in T
    <3> HIDE DEF T
    <3>1. m \in 0 .. m
      BY <1>2
    <3> QED  BY <1>2, <1>4, <1>5, <3>1, UpTo
  <2> QED  BY <1>1, <1>2, <2>1
<1>7. PICK u, p, q : u = s \o r /\ p = Len(s) /\ q = Len(r)
  OBVIOUS
<1>8. /\ u \in Seq(S) /\ Len(u) = p + q /\ p \in Nat /\ q \in Nat
      /\ \A j \in 1 .. p : u[j] = s[j]
  BY <1>7, After
<1>9. SubSeq(s, 1, p) = SubSeq(u, 1, p)
  <2>1. 1 \in Nat /\ 1 >= 1 /\ p <= Len(s) /\ p <= Len(u) /\ \A j \in 1 .. p : s[j] = u[j]
    BY <1>7, <1>8
  <2> QED  BY <1>8, <2>1, SamePiece
<1>10. Len(s) <= Len(u)
  BY <1>7, <1>8
<1> QED  BY <1>3, <1>6, <1>7, <1>9, <1>10 DEF IsPrefix, run

\* A line whose end has come: it is what has been collected, and it leaves its effect, or
\* it is the last one that counts.
Done(d, b, e, l) ==
    /\ LineAt(d, b) = l
    /\ Exits(l) => Meaning(d) = Before(d)[b]
    /\ ~ Exits(l) => Before(d)[e]
                       = IF Skips(l) THEN Before(d)[b] ELSE Append(Before(d)[b], Stripped(l))
    /\ e = Len(d) + 1 => Meaning(d) = Before(d)[e]

\* This holds wherever a line of d ends, if no line before it is an exit.
LEMMA LineDone ==
    ASSUME NEW d \in Seq(Tokens), NEW b \in Starts(d), NEW e \in b + 1 .. Len(d) + 1,
           e = Len(d) + 1 \/ d[e] = "LF", \A x \in b + 1 .. e - 1 : d[x] # "LF",
           \A a \in Starts(d) : a < b => ~ Exits(LineAt(d, a))
    PROVE  Done(d, b, e, Cut(Between(d, b, e)))
<1>1. PICK n \in Nat : n = Len(d) /\ b \in 0 .. n /\ e \in b + 1 .. n + 1
  BY LenProperties DEF Starts
<1>2. LineEnd(d, b) = e
  <2> DEFINE T == {x \in b + 1 .. n + 1 : x = n + 1 \/ d[x] = "LF"}
  <2>1. T \subseteq Nat /\ e \in T
    BY <1>1
  <2>2. \A x \in T : e <= x
    BY <1>1
  <2>3. PICK m : m = Min(T)
    OBVIOUS
  <2>4. m \in T /\ \A x \in T : m <= x
    <3> HIDE DEF T
    <3>1. T # {}
      BY <2>1
    <3> QED  BY <2>1, <2>3, <3>1, MinIs
  <2>5. m = e
    <3> HIDE DEF T
    <3>1. m \in Nat /\ e \in Nat /\ m <= e /\ e <= m
      BY <2>1, <2>2, <2>4
    <3> QED  BY <3>1
  <2> QED  BY <1>1, <2>3, <2>5 DEF LineEnd
<1>3. PICK l : l = Cut(Between(d, b, e))
  OBVIOUS
<1>4. LineAt(d, b) = l
  BY <1>2, <1>3 DEF LineAt
<1>5. /\ Meaning(d) = Before(d)[n + 1] /\ Before(d)[b + 1] = Before(d)[b] \o EffectAt(d, b)
      /\ Before(d)[b] \in Seq(Effects(d))
  <2>1. b \in 0 .. n + 1
    BY <1>1
  <2> QED  BY <1>1, <2>1, BeforeRuns DEF IsRun
<1>6. CASE Exits(l)
  <2>1. ASSUME NEW a \in b .. n PROVE EffectAt(d, a) = <<>>
    <3>1. ~ Counts(d, a)
      <4>1. b <= a /\ b \in Starts(d)
        BY <1>1
      <4> QED  BY <1>4, <1>6, <4>1 DEF Counts
    <3> QED  BY <3>1 DEF EffectAt
  <2>2. b \in 0 .. n + 1 /\ n + 1 \in 0 .. n + 1 /\ b <= n + 1 /\ (n + 1) - 1 = n
    BY <1>1
  <2>3. PICK c : c = n + 1
    OBVIOUS
  <2>4. \A a \in b .. c - 1 : EffectAt(d, a) = <<>>
    BY <2>1, <2>2, <2>3
  <2>5. Before(d)[c] = Before(d)[b]
    BY <1>1, <2>2, <2>3, <2>4, NothingLeft
  <2> QED  BY <1>3, <1>4, <1>5, <1>6, <1>1, <2>3, <2>5 DEF Done
<1>7. CASE ~ Exits(l)
  <2>1. EffectAt(d, b) = IF Skips(l) THEN <<>> ELSE <<Stripped(l)>>
    <3>1. \A a \in Starts(d) : a <= b => a < b \/ a = b
      BY <1>1 DEF Starts
    <3>2. Counts(d, b) <=> ~ Skips(l)
      BY <1>4, <1>7, <3>1 DEF Counts
    <3> QED  BY <1>4, <3>2 DEF EffectAt
  <2>2. Before(d)[b + 1] = IF Skips(l) THEN Before(d)[b] ELSE Append(Before(d)[b], Stripped(l))
    <3>1. PICK s \in Seq(Effects(d)) : s = Before(d)[b]
      BY <1>5
    <3>2. s \o <<>> = s
      BY ConcatEmptySeq
    <3>3. PICK x \in Effects(d) : x = Stripped(l)
      BY <1>1, <1>4 DEF Effects
    <3>4. s \o <<x>> = Append(s, x)
      BY AppendIsConcat
    <3> QED  BY <1>5, <2>1, <3>1, <3>2, <3>3, <3>4
  <2>3. ASSUME NEW a \in b + 1 .. e - 1 PROVE EffectAt(d, a) = <<>>
    <3>1. a \notin Starts(d)
      BY <1>1 DEF Starts
    <3> QED  BY <3>1 DEF EffectAt, Counts
  <2>4. PICK c : c = b + 1
    OBVIOUS
  <2>5. c \in 0 .. n + 1 /\ e \in 0 .. n + 1 /\ c <= e
    BY <1>1, <2>4
  <2>6. \A a \in c .. e - 1 : EffectAt(d, a) = <<>>
    BY <2>3, <2>4
  <2>7. Before(d)[e] = Before(d)[c]
    BY <1>1, <2>5, <2>6, NothingLeft
  <2> QED  BY <1>1, <1>3, <1>4, <1>5, <1>7, <2>2, <2>4, <2>7 DEF Done
<1> QED  BY <1>6, <1>7

\* The interpreter is in the line that starts behind b: all before it has been executed.
AtLine(b) ==
    /\ b \in Starts(data) /\ b < i /\ i <= Len(data) + 1
    /\ \A e \in b + 1 .. i - 1 : data[e] # "LF"
    /\ \A a \in Starts(data) : a < b => ~ Exits(LineAt(data, a))
    /\ line = Cut(Between(data, b, i))
    /\ ran = Before(data)[b]

\* The interpreter is in a line, or has done all.
ScriptInv ==
    /\ data \in Seq(Tokens)
    /\ i \in 1 .. Len(data) + 2
    /\ IF running /\ i <= Len(data) + 1 THEN \E b \in 0 .. Len(data) : AtLine(b)
       ELSE ran = Meaning(data)

\* The pass starts in the line that starts at the beginning.
LEMMA ScriptStarts == ScriptInit => ScriptInv
<1> SUFFICES ASSUME ScriptInit PROVE ScriptInv
  OBVIOUS
<1>1. /\ data \in Seq(Tokens) /\ i = 1 /\ line = <<>> /\ running = TRUE /\ ran = <<>>
  BY ScriptAssumption DEF ScriptInit, ScriptAssumption
<1>2. PICK n \in Nat : n = Len(data) /\ 0 \in 0 .. n /\ 1 \in 1 .. n + 2 /\ 1 <= n + 1
  BY <1>1, LenProperties
<1>3. AtLine(0)
  <2>1. 0 \in Starts(data) /\ \A a \in Starts(data) : ~ (a < 0)
    BY <1>2 DEF Starts
  <2>2. Between(data, 0, 0 + 1) = <<>>
    BY BetweenNone
  <2>3. line = Cut(Between(data, 0, i))
    BY <1>1, <2>2, EmptyLine
  <2>4. ran = Before(data)[0]
    BY <1>1, BeforeRuns DEF IsRun
  <2>5. 1 .. 0 = {} /\ 0 + 1 = 1 /\ 1 - 1 = 0
    OBVIOUS
  <2> QED  BY <1>1, <1>2, <2>1, <2>3, <2>4, <2>5 DEF AtLine
<1> QED  BY <1>1, <1>2, <1>3 DEF ScriptInv

\* A character stays in the line or ends it; in the latter case its effect follows.
LEMMA ScriptSteps ==
    ASSUME ScriptInv, ScriptNext
    PROVE  ScriptInv'
<1>1. data \in Seq(Tokens) /\ data' = data /\ i' = i + 1 /\ running /\ i \in Int
      /\ i >= 1 /\ i <= Len(data) + 1
  BY DEF ScriptInv, ScriptNext, CarriageReturn, LineFeed, Collect, LastLine, More
<1>2. PICK n \in Nat : n = Len(data)
  BY <1>1, LenProperties
<1>3. PICK b \in 0 .. n : AtLine(b)
  BY <1>1, <1>2 DEF ScriptInv
<1>4. PICK d \in Seq(Tokens) : d = data
  BY <1>1
<1>5. /\ b \in Starts(d) /\ b < i
      /\ \A e \in b + 1 .. i - 1 : d[e] # "LF"
      /\ \A a \in Starts(d) : a < b => ~ Exits(LineAt(d, a))
      /\ line = Cut(Between(d, b, i))
      /\ ran = Before(d)[b]
  BY <1>3, <1>4 DEF AtLine
<1>6. PICK k \in Nat : k = i /\ k <= n + 1 /\ k >= 1 /\ b < k /\ i' = k + 1
  BY <1>1, <1>2, <1>5
<1>7. CASE CarriageReturn \/ Collect
  <2>1. k <= n /\ d[k] # "LF" /\ UNCHANGED <<running, ran>>
        /\ line' = IF d[k] = "CR" \/ ~ (Len(line) < LineMax) THEN line ELSE Append(line, d[k])
    BY <1>2, <1>4, <1>6, <1>7 DEF CarriageReturn, Collect, More
  <2>2. /\ Between(d, b, k) \in Seq(Tokens)
        /\ Between(d, b, k + 1)
             = IF d[k] = "CR" THEN Between(d, b, k) ELSE Append(Between(d, b, k), d[k])
    <3>1. b \in Nat /\ b < k /\ k <= Len(d)
      BY <1>2, <1>4, <1>6, <2>1
    <3> QED  BY <3>1, BetweenNext
  <2>3. d[k] \in Tokens
    <3>1. k \in 1 .. Len(d)
      BY <1>2, <1>4, <1>6, <2>1
    <3> QED  BY <3>1, ElementOfSeq
  <2>4. PICK s \in Seq(Tokens), c \in Tokens : s = Between(d, b, k) /\ c = d[k]
    BY <2>2, <2>3
  <2>5. Cut(Append(s, c)) = IF Len(Cut(s)) < LineMax THEN Append(Cut(s), c) ELSE Cut(s)
    BY CutNext
  <2>6. line' = Cut(Between(d, b, k + 1))
    BY <1>5, <1>6, <2>1, <2>2, <2>4, <2>5
  <2>7. \A e \in b + 1 .. (k + 1) - 1 : d[e] # "LF"
    <3>1. \A e \in b + 1 .. (k + 1) - 1 : e \in b + 1 .. k - 1 \/ e = k
      BY <1>6
    <3> QED  BY <1>5, <1>6, <2>1, <3>1
  <2>8. b < k + 1 /\ k + 1 <= n + 1 /\ k + 1 \in 1 .. n + 2
    BY <1>6, <2>1
  <2>9. AtLine(b)'
    BY <1>1, <1>2, <1>4, <1>5, <1>6, <2>1, <2>6, <2>7, <2>8 DEF AtLine
  <2> QED  BY <1>1, <1>2, <1>3, <1>6, <2>1, <2>8, <2>9 DEF ScriptInv
<1>8. CASE LineFeed \/ LastLine
  <2>1. /\ k = n + 1 \/ d[k] = "LF"
        /\ k <= n => d[k] = "LF"
        /\ line' = <<>> /\ running' = ~ Exits(line)
        /\ ran' = IF Skips(line) \/ Exits(line) THEN ran ELSE Append(ran, Stripped(line))
    BY <1>2, <1>4, <1>6, <1>8 DEF LineFeed, LastLine, More, tfs_exec_line
  <2>2. Done(d, b, k, line)
    <3>1. k \in b + 1 .. Len(d) + 1 /\ (k = Len(d) + 1 \/ d[k] = "LF")
      BY <1>2, <1>4, <1>6, <2>1
    <3>2. \A e \in b + 1 .. k - 1 : d[e] # "LF"
      BY <1>5, <1>6
    <3>3. Done(d, b, k, Cut(Between(d, b, k)))
      BY <1>5, <3>1, <3>2, LineDone
    <3> QED  BY <1>5, <1>6, <3>3
  <2>3. k + 1 \in 1 .. n + 2
    BY <1>6
  <2>4. CASE Exits(line)
    <3>1. ran' = Meaning(d) /\ ~ running'
      BY <1>5, <2>1, <2>2, <2>4 DEF Done
    <3> QED  BY <1>1, <1>2, <1>4, <1>6, <2>3, <3>1 DEF ScriptInv
  <2>5. CASE ~ Exits(line)
    <3>1. ran' = Before(d)[k] /\ running'
      BY <1>5, <2>1, <2>2, <2>5 DEF Done
    <3>2. CASE k = n + 1
      <4>1. ran' = Meaning(d)
        BY <1>2, <1>4, <2>2, <3>1, <3>2 DEF Done
      <4>2. ~ (i' <= Len(data') + 1)
        BY <1>1, <1>2, <1>6, <3>2
      <4> QED  BY <1>1, <1>2, <1>4, <1>6, <2>3, <4>1, <4>2 DEF ScriptInv
    <3>3. CASE k # n + 1
      <4>1. k \in 0 .. n /\ k \in 1 .. n /\ d[k] = "LF" /\ k < k + 1 /\ k + 1 <= n + 1
        BY <1>6, <2>1, <3>3
      <4>2. k \in Starts(d)
        BY <1>2, <1>4, <4>1 DEF Starts
      <4>3. \A e \in k + 1 .. (k + 1) - 1 : d[e] # "LF"
        BY <1>6
      <4>4. ASSUME NEW a \in Starts(d), a < k PROVE ~ Exits(LineAt(d, a))
        <5>1. CASE a < b
          BY <1>5, <5>1
        <5>2. CASE a = b
          BY <2>2, <2>5, <5>2 DEF Done
        <5>3. CASE a > b
          <6>1. a \in b + 1 .. i - 1 /\ d[a] = "LF"
            BY <1>6, <4>4, <5>3 DEF Starts
          <6> QED  BY <1>5, <6>1
        <5> QED  BY <1>6, <4>4, <5>1, <5>2, <5>3 DEF Starts
      <4>5. line' = Cut(Between(d, k, k + 1))
        BY <1>6, <2>1, BetweenNone, EmptyLine
      <4>6. AtLine(k)'
        BY <1>1, <1>2, <1>4, <1>6, <3>1, <4>1, <4>2, <4>3, <4>4, <4>5 DEF AtLine
      <4> QED  BY <1>1, <1>2, <1>6, <2>3, <3>1, <4>1, <4>6 DEF ScriptInv
    <3> QED  BY <3>2, <3>3
  <2> QED  BY <2>4, <2>5
<1> QED  BY <1>7, <1>8 DEF ScriptNext

\* A step that changes nothing keeps the invariant.
LEMMA ScriptStutters ==
    ASSUME ScriptInv, UNCHANGED scriptVars
    PROVE  ScriptInv'
  BY DEF ScriptInv, scriptVars, AtLine

\* What has been executed is the beginning of the meaning, and all of it at the end.
LEMMA InvRuns == ScriptInv => RunsTheScript
<1> SUFFICES ASSUME ScriptInv PROVE RunsTheScript
  OBVIOUS
<1>1. PICK n \in Nat : n = Len(data) /\ data \in Seq(Tokens) /\ i \in 1 .. n + 2
  BY LenProperties DEF ScriptInv
<1>2. Meaning(data) = Before(data)[n + 1]
  BY <1>1, BeforeRuns DEF IsRun
<1>3. CASE running /\ i <= n + 1
  <2>1. PICK b \in 0 .. n : AtLine(b)
    BY <1>1, <1>3 DEF ScriptInv
  <2>2. IsPrefix(ran, Meaning(data))
    <3>1. b \in 0 .. Len(data) + 1
      BY <1>1
    <3> QED  BY <1>1, <2>1, <3>1, BeforeIsPrefix DEF AtLine
  <2>3. ASSUME Returned PROVE ran = Meaning(data)
    <3>1. i = n + 1 /\ line = <<>>
      BY <1>1, <1>3, <2>3 DEF Returned
    <3>2. Done(data, b, n + 1, line)
      <4>1. n + 1 \in b + 1 .. Len(data) + 1 /\ n + 1 = Len(data) + 1
        BY <1>1
      <4>2. /\ b \in Starts(data) /\ \A e \in b + 1 .. (n + 1) - 1 : data[e] # "LF"
            /\ \A a \in Starts(data) : a < b => ~ Exits(LineAt(data, a))
            /\ line = Cut(Between(data, b, n + 1))
        BY <2>1, <3>1 DEF AtLine
      <4>3. PICK e : e = n + 1
        OBVIOUS
      <4>4. Done(data, b, e, Cut(Between(data, b, e)))
        BY <1>1, <4>1, <4>2, <4>3, LineDone
      <4> QED  BY <4>2, <4>3, <4>4
    <3>3. Skips(line) /\ ~ Exits(line)
      BY <3>1, EmptyLine DEF Exits
    <3> QED  BY <1>2, <2>1, <3>2, <3>3 DEF Done, AtLine
  <2> QED  BY <2>2, <2>3 DEF RunsTheScript
<1>4. CASE ~ (running /\ i <= n + 1)
  <2>1. ran = Meaning(data)
    BY <1>1, <1>4 DEF ScriptInv
  <2>2. n + 1 \in 0 .. Len(data) + 1
    BY <1>1
  <2>3. IsPrefix(Before(data)[n + 1], Meaning(data))
    BY <1>1, <2>2, BeforeIsPrefix
  <2> QED  BY <1>2, <2>1, <2>3 DEF RunsTheScript
<1> QED  BY <1>3, <1>4

\* A script is run line by line, whatever its lines are (turboxfs.cpp:211 on).
THEOREM ScriptIsRun == ScriptSpec => []RunsTheScript
<1>1. ScriptInv /\ [ScriptNext]_scriptVars => ScriptInv'
  BY ScriptSteps, ScriptStutters
<1> QED  BY <1>1, ScriptStarts, InvRuns, PTL DEF ScriptSpec
=============================================================================
