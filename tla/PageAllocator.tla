---------------------------- MODULE PageAllocator ----------------------------
(***************************************************************************)
(* What the page allocator promises its clients, without bitmap, counter   *)
(* or scan: a page is handed out to one owner at a time, a request is      *)
(* refused only when every page has an owner, and a page without an owner  *)
(* cannot be given back.  Pmm implements this module.                      *)
(***************************************************************************)
CONSTANTS
    Pages,     \* all the pages there can be
    NoPage     \* the answer to a request that is refused

VARIABLES
    pool,      \* the pages the allocator manages
    owned,     \* those of them that are handed out
    answer     \* the answer to the latest request

Init == pool = {} /\ owned = {} /\ answer = NoPage

Setup ==
    /\ pool = {}
    /\ pool' \in SUBSET Pages
    /\ UNCHANGED <<owned, answer>>

Grant(p) ==
    /\ p \in pool \ owned
    /\ owned' = owned \cup {p}
    /\ answer' = p
    /\ UNCHANGED pool

Refuse ==
    /\ owned = pool
    /\ answer' = NoPage
    /\ UNCHANGED <<pool, owned>>

GiveBack(p) ==
    /\ p \in owned
    /\ owned' = owned \ {p}
    /\ UNCHANGED <<pool, answer>>

Next ==
    \/ Setup
    \/ \E p \in Pages : Grant(p) \/ GiveBack(p)
    \/ Refuse

Spec == Init /\ [][Next]_<<pool, owned, answer>>
=============================================================================
