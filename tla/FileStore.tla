------------------------------ MODULE FileStore ------------------------------
(***************************************************************************)
(* What the file system promises, without slots or searches: a file has a  *)
(* handle and a name of its own, both for good; what has been written to   *)
(* it stays and is followed by what is written later; a read returns the   *)
(* beginning of what has been written.  Tfs implements this module.        *)
(***************************************************************************)
EXTENDS Integers, Sequences

CONSTANTS
    Handles,    \* what a file can be called by
    Asked,      \* what clients take for a handle
    Names,      \* the names a file can have
    Tried,      \* what clients take for a name
    Texts,      \* what can be written in one call
    MaxSize     \* room of a file

VARIABLES
    open,     \* the store is there
    store,    \* store[h]: the file [name, data] with handle h
    result    \* of the latest call: [ret, buf]

Result(r, b) == [ret |-> r, buf |-> b]
Refusal      == Result(-1, <<>>)

NameInUse(n) == \E h \in DOMAIN store : store[h].name = n

Init == open = FALSE /\ store = [h \in {} |-> <<>>] /\ result = Refusal

Open ==
    /\ ~ open
    /\ open' = TRUE
    /\ result' = Result(0, <<>>)
    /\ UNCHANGED store

Create(h, n) ==
    /\ open
    /\ h \notin DOMAIN store /\ ~ NameInUse(n)
    /\ store' = [g \in DOMAIN store \cup {h} |->
                   IF g = h THEN [name |-> n, data |-> <<>>] ELSE store[g]]
    /\ result' = Result(h, <<>>)
    /\ UNCHANGED open

Find(h, n) ==
    /\ h \in DOMAIN store /\ store[h].name = n
    /\ result' = Result(h, <<>>)
    /\ UNCHANGED <<open, store>>

\* An admissible name is refused only when there is no store or no room in it.
RefuseCreate(n) ==
    /\ n \notin Names \/ ~ open \/ DOMAIN store = Handles
    /\ ~ NameInUse(n)
    /\ result' = Refusal
    /\ UNCHANGED <<open, store>>

\* As much of the text as there is room for.
Write(h, text, k) ==
    /\ h \in DOMAIN store
    /\ k <= Len(text) /\ Len(store[h].data) + k <= MaxSize
    /\ k = Len(text) \/ Len(store[h].data) + k = MaxSize
    /\ store' = [store EXCEPT ![h] = [name |-> @.name, data |-> @.data \o SubSeq(text, 1, k)]]
    /\ result' = Result(k, <<>>)
    /\ UNCHANGED open

Read(h, k) ==
    /\ h \in DOMAIN store
    /\ k <= Len(store[h].data)
    /\ result' = Result(k, SubSeq(store[h].data, 1, k))
    /\ UNCHANGED <<open, store>>

RefuseHandle(h) ==
    /\ h \notin DOMAIN store
    /\ result' = Refusal
    /\ UNCHANGED <<open, store>>

Next ==
    \/ Open
    \/ \E n \in Names : \E h \in Handles : Create(h, n) \/ Find(h, n)
    \/ \E n \in Tried : RefuseCreate(n)
    \/ \E h \in Handles : \E k \in 0 .. MaxSize :
         Read(h, k) \/ \E text \in Texts : Write(h, text, k)
    \/ \E h \in Asked : RefuseHandle(h)

Spec == Init /\ [][Next]_<<open, store, result>>
=============================================================================
