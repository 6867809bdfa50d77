------------------------------ MODULE Mailboxes ------------------------------
(***************************************************************************)
(* What the process table and the IPC of the kernel promise, without       *)
(* scheduler, stack or spinning.  Processes come and go; one of them       *)
(* executes.  Each has room for one unread word and is in one call of      *)
(* ipc_send or ipc_recv at most.  What happens to processes, calls and     *)
(* words is done by the executing process, in its own name:                *)
(*   - a word gets into a mailbox by a call of ipc_send of its sender, to  *)
(*     the receiver named there, which is alive and has no unread word;    *)
(*     the call ends with it, so it delivers its word once at most;        *)
(*   - a word stays as it is until its owner, in a call of ipc_recv, takes *)
(*     it out, or exits.                                                   *)
(* A call may be given up, or be lost while others execute; it never comes *)
(* back.  Kernel implements this module.                                   *)
(***************************************************************************)
CONSTANTS
    Procs,      \* the slots of the process table
    Main,       \* the kernel main context, which is no IPC partner
    Permanent,  \* a process that never exits: the FS server
    Words       \* the words that are ever sent

VARIABLES
    alive,      \* the living processes
    mail,       \* mail[p]: {} or the one unread <<sender, word>> of p
    running,    \* the process that executes
    sending,    \* sending[p]: {} or the <<receiver, word>> of the ipc_send that p is in
    receiving   \* the processes that are in ipc_recv

mailVars == <<alive, mail, running, sending, receiving>>

Init ==
    /\ alive = {Main}
    /\ mail = [p \in Procs |-> {}]
    /\ running = Main
    /\ sending = [p \in Procs |-> {}]
    /\ receiving = {}

InNoCall == sending[running] = {} /\ running \notin receiving

\* From now on the running process is in the calls of ipc_send, and of ipc_recv if r.
IsIn(calls, r) ==
    /\ sending' = [sending EXCEPT ![running] = calls]
    /\ receiving' = IF r THEN receiving \cup {running} ELSE receiving \ {running}

\* The running process begins to send m to q.
BeginsToSend(q, m) ==
    /\ sending[running] = {}
    /\ running # Main /\ q \in alive \ {Main, running}
    /\ IsIn({<<q, m>>}, FALSE)

-----------------------------------------------------------------------------
Send(q, m) ==
    /\ BeginsToSend(q, m)
    /\ UNCHANGED <<alive, mail, running>>

\* A call is given up, ipc_recv is entered, or both.
ReceiveOrGiveUp ==
    /\ \E r \in BOOLEAN : IsIn({}, r)
    /\ UNCHANGED <<alive, mail, running>>

Deliver(q, m) ==
    /\ <<q, m>> \in sending[running]
    /\ q \in alive /\ mail[q] = {}
    /\ mail' = [mail EXCEPT ![q] = {<<running, m>>}]
    /\ \E r \in BOOLEAN : IsIn({}, r)
    /\ UNCHANGED <<alive, running>>

\* The running process may go on to its next call at once.
Take ==
    /\ running \in receiving /\ mail[running] # {}
    /\ mail' = [mail EXCEPT ![running] = {}]
    /\ \/ \E r \in BOOLEAN : IsIn({}, r)
       \/ \E q \in Procs, m \in Words : BeginsToSend(q, m)
    /\ UNCHANGED <<alive, running>>

Create(p) ==
    /\ InNoCall
    /\ p \in Procs \ alive
    /\ alive' = alive \cup {p}
    /\ UNCHANGED <<mail, running, sending, receiving>>

\* Another process executes, perhaps in a new ipc_recv; the calls of some are lost.
Switch(p) ==
    /\ p \in alive'
    /\ running' = p
    /\ \E lost \in SUBSET Procs :
         /\ sending' = [q \in Procs |-> IF q \in lost THEN {} ELSE sending[q]]
         /\ receiving' \in {receiving \ lost, (receiving \ lost) \cup {p}}

Yield(p) == Switch(p) /\ UNCHANGED <<alive, mail>>

Exit(p) ==
    /\ InNoCall
    /\ running \notin {Main, Permanent}
    /\ alive' = alive \ {running}
    /\ mail' = [mail EXCEPT ![running] = {}]
    /\ Switch(p)

Next ==
    \/ \E p \in Procs : Create(p) \/ Exit(p) \/ Yield(p)
    \/ \E q \in Procs : \E m \in Words : Send(q, m) \/ Deliver(q, m)
    \/ Take \/ ReceiveOrGiveUp

Spec == Init /\ [][Next]_mailVars
=============================================================================
