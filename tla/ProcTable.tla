------------------------------ MODULE ProcTable ------------------------------
(***************************************************************************)
(* The process table of the microkernel (src/kernel/fork.cpp): sixteen     *)
(* static PCBs, each with a state, an entry function and a mailbox of one  *)
(* word.  The pid of a process is its slot index plus one, so the field    *)
(* PCB.pid is not kept.  No code ever stores PROC_BLOCKED or PROC_ZOMBIE   *)
(* (proc_set_state has no caller), so a slot is FREE or READY.             *)
(*                                                                         *)
(* The module has the operations, not a behaviour: Kernel composes them    *)
(* with the scheduler and the IPC primitives.                              *)
(***************************************************************************)
EXTENDS Integers

CONSTANT MaxProcs        \* MAX_PROCS: number of PCB slots

ASSUME MaxProcsAssumption == MaxProcs \in Nat /\ MaxProcs >= 3

VARIABLES
    state,   \* state[s]: "FREE" or "READY"
    entry,   \* entry[s]: the function a READY slot is run from
    box,     \* box[s]: the mailbox of slot s
    hint     \* g_next_pid_hint

procVars == <<state, entry, box, hint>>

Slots     == 0 .. MaxProcs - 1
UserSlots == 1 .. MaxProcs - 1     \* every slot but the kernel main context
Pid(s)    == s + 1
SlotOf(p) == p - 1

NoEntry == "none"
Server  == "fs_server_loop"
Program == "program"      \* shell_main, demo_main or any entry given to tbx_fork
Entries == {Server, Program}

(***************************************************************************)
(* A mailbox is pending exactly when its sender is a pid, which is never   *)
(* 0; what a taken message leaves behind in ipc_msg and ipc_from is never  *)
(* read again and is not kept.                                             *)
(***************************************************************************)
NoMail     == [msg |-> 0, from |-> 0]
Pending(s) == box[s].from # 0

\* A mistake the checks rule out: the hint taken for a pid.
procs_init_from_pid2 ==
    /\ state = [s \in Slots |-> IF s = 0 THEN "READY" ELSE "FREE"]
    /\ entry = [s \in Slots |-> NoEntry]
    /\ box   = [s \in Slots |-> NoMail]
    /\ hint  = 2

procs_init ==
    /\ state = [s \in Slots |-> IF s = 0 THEN "READY" ELSE "FREE"]
    /\ entry = [s \in Slots |-> NoEntry]
    /\ box   = [s \in Slots |-> NoMail]
    /\ hint  = 1

(***************************************************************************)
(* kernel_fork scans the slots 1, 2, ... MaxProcs-1 as a ring, starting    *)
(* from the hint: 1 + (hint-1+off) % (MaxProcs-1) for off = 0, 1, ...      *)
(* ScanOffset(s) is the off at which slot s is looked at.                  *)
(***************************************************************************)
FreeSlots == {s \in UserSlots : state[s] = "FREE"}

ScanStart == IF hint < MaxProcs THEN hint ELSE 1

ScanOffset(s) ==
    IF s >= ScanStart THEN s - ScanStart ELSE s - ScanStart + MaxProcs - 1

\* The successful path of kernel_fork, with e # 0; it sets slot s.
kernel_fork(e, s) ==
    /\ s \in FreeSlots
    /\ \A t \in FreeSlots : ScanOffset(s) <= ScanOffset(t)
    /\ state' = [state EXCEPT ![s] = "READY"]
    /\ entry' = [entry EXCEPT ![s] = e]
    /\ box'   = [box EXCEPT ![s] = NoMail]
    /\ hint'  = s + 1

\* A mistake the checks rule out: the mailbox outlives its owner.
proc_exit_keeping_mail(s) ==
    /\ state' = [state EXCEPT ![s] = "FREE"]
    /\ entry' = [entry EXCEPT ![s] = NoEntry]
    /\ UNCHANGED <<box, hint>>

\* proc_exit_current for g_current = s.
proc_exit(s) ==
    IF s = 0
    THEN UNCHANGED procVars
    ELSE /\ state' = [state EXCEPT ![s] = "FREE"]
         /\ entry' = [entry EXCEPT ![s] = NoEntry]
         /\ box'   = [box EXCEPT ![s] = NoMail]
         /\ UNCHANGED hint

\* proc_ipc_deliver when the mailbox is empty, and proc_ipc_take when it is not.
proc_ipc_deliver(s, m, p) == box' = [box EXCEPT ![s] = [msg |-> m, from |-> p]]

proc_ipc_take(s) == box' = [box EXCEPT ![s] = NoMail]
=============================================================================
