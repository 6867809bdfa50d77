-------------------------------- MODULE Kernel --------------------------------
(***************************************************************************)
(* The cooperative kernel of TurboxOS: boot of the two first processes     *)
(* (kernel.cpp), process table (fork.cpp), scheduler (sched.cpp), IPC      *)
(* (ipc.cpp), the file system server and its client (ipc_adapter.cpp), and *)
(* the system calls that reach them.                                       *)
(*                                                                         *)
(* There is no stack per process: sched_yield CALLS the entry function of  *)
(* the next READY slot, from its beginning, on the stack of the caller.    *)
(* So the state of the machine is one stack of activations, of which only  *)
(* the topmost executes; an activation below it is inside a sched_yield    *)
(* and continues only when everything above it has returned.               *)
(*                                                                         *)
(* A step runs from one scheduling point to the next one: there is one     *)
(* thread and the kernel is not preempted, so nothing happens in between.  *)
(***************************************************************************)
EXTENDS ProcTable, Sequences

CONSTANTS
    SpinLimit,   \* IPC_SPIN_LIMIT
    MaxFiles,    \* TFS_MAX_FILES
    TfsReady,    \* g_tfs_ready: whether tfs_init has been called before the programs run.
                 \* Nothing in the tree calls it (see Boot); where it has not been, the
                 \* file calls fail and no request is ever sent.
    MaxDepth     \* bound of the model: activations the stack has room for

ASSUME KernelAssumption ==
    /\ SpinLimit \in Nat \ {0}
    /\ MaxFiles \in Nat
    /\ TfsReady \in BOOLEAN
    /\ MaxDepth \in Nat

\* A handle has 24 bits of a request word.
ASSUME HandleAssumption == MaxFiles <= 16777216

VARIABLES
    current,   \* g_current
    stack,     \* the activations, the oldest first
    files      \* number of files: tfs_create hands out the handles 0, 1, ...

kernelVars == <<current, stack, files>>
vars       == <<procVars, kernelVars>>

-----------------------------------------------------------------------------
(* Activations.  "me" is what ipc_send and ipc_recv read from g_current    *)
(* when they are called, "saved" is the local cur of the sched_yield that  *)
(* called the entry function.                                              *)

FS_SERVER_PID == 2
ServerSlot    == SlotOf(FS_SERVER_PID)

PCs == {"fork_fs", "fork_shell", "idle",           \* kernel_main
        "fs_recv", "fs_send",                      \* fs_server_loop
        "code", "run_send", "run_recv", "exited"}  \* a program

Frame == [slot : Slots, saved : Slots, pc : PCs, spin : 0 .. SpinLimit,
          me : Slots, to : Slots, msg : Int]

Activation(s, cur, pc) ==
    [slot |-> s, saved |-> cur, pc |-> pc, spin |-> 0, me |-> s, to |-> 0, msg |-> 0]

Top == stack[Len(stack)]

Continue(f) == stack' = [stack EXCEPT ![Len(stack)] = f]

(***************************************************************************)
(* sched_yield: from cur+1 around the ring, cur itself last, slot 0 never. *)
(* st is the table as the scan sees it; f is the calling activation as it  *)
(* will find itself when the entry function returns.                       *)
(***************************************************************************)
ReadySlots(st) == {s \in UserSlots : st[s] = "READY"}

\* A mistake the checks rule out: the ring is scanned downwards.
RingDistanceDown(cur, s) == IF s < cur THEN cur - s ELSE cur - s + MaxProcs

RingDistance(cur, s) == IF s > cur THEN s - cur ELSE s - cur + MaxProcs

IsNextReady(st, cur, s) ==
    /\ s \in ReadySlots(st)
    /\ \A t \in ReadySlots(st) : RingDistance(cur, s) <= RingDistance(cur, t)

EntryPoint(e) == IF e = Server THEN "fs_recv" ELSE "code"

sched_yield(st, cur, f) ==
    IF ReadySlots(st) = {}
    THEN current' = cur /\ Continue(f)
    ELSE /\ Len(stack) < MaxDepth
         /\ \E s \in UserSlots :
              /\ IsNextReady(st, cur, s)
              /\ current' = s
              /\ stack' = Append([stack EXCEPT ![Len(stack)] = f],
                                 Activation(s, cur, EntryPoint(entry[s])))

-----------------------------------------------------------------------------
(* IPC.  The words are those of ipc_adapter.cpp.                           *)

IPC_OP_RUN == 1

RunRequest(fd) == IPC_OP_RUN + 256 * fd           \* op | (fd << 8)
OpOf(m)        == m % 256                         \* m & 0xFF
FdOf(m)        == (m \div 256) % 16777216         \* (m >> 8) & 0xFFFFFF

\* A mistake the checks rule out: the newest file is out of range.
tfs_run_fd_short(fd) == IF fd < files - 1 THEN 0 ELSE -1

tfs_run_fd(fd) == IF fd < files THEN 0 ELSE -1

\* The checks ipc_send makes before its loop.
ValidDest(p) ==
    /\ SlotOf(p) \in UserSlots
    /\ state[SlotOf(p)] # "FREE"

\* A mistake the checks rule out: g_current is read before sched_yield has set it.
EnterStale(f, pc, to, m) ==
    [slot |-> f.slot, saved |-> f.saved, pc |-> pc, spin |-> 0, me |-> f.saved,
     to |-> to, msg |-> m]

\* Activation f at pc, with the locals of a call that begins there.
Enter(f, pc, to, m) ==
    [slot |-> f.slot, saved |-> f.saved, pc |-> pc, spin |-> 0, me |-> current,
     to |-> to, msg |-> m]

\* At the head of the loop of ipc_send(p, m).
Sending(f, pc, p, m) == Enter(f, pc, SlotOf(p), m)

\* Outside ipc_send, or at the head of the loop of ipc_recv.
At(f, pc) == Enter(f, pc, 0, 0)

Spun(f) == [f EXCEPT !.spin = @ + 1]

\* One turn of the loop of ipc_send; after says where it continues when it returns.
SendTurn(after) ==
    IF Pending(Top.to)
    THEN sched_yield(state, current, Spun(Top)) /\ UNCHANGED box
    ELSE /\ proc_ipc_deliver(Top.to, Top.msg, Pid(Top.me))
         /\ Continue(At(Top, after))
         /\ UNCHANGED current

\* A turn of the loop of ipc_recv that takes no message the caller gets to see:
\* the mailbox is empty, or holds the word -1, which is dropped.
RecvTurn ==
    /\ IF Pending(Top.me) THEN proc_ipc_take(Top.me) ELSE UNCHANGED box
    /\ sched_yield(state, current, Spun(Top))

Received == Pending(Top.me) /\ box[Top.me].msg # -1

-----------------------------------------------------------------------------
(* kernel_main                                                             *)

ForkFsServer ==
    /\ Top.pc = "fork_fs"
    /\ \E s \in UserSlots : kernel_fork(Server, s)
    /\ Continue(At(Top, "fork_shell"))
    /\ UNCHANGED <<current, files>>

ForkShell ==
    /\ Top.pc = "fork_shell"
    /\ \E s \in UserSlots : kernel_fork(Program, s)
    /\ Continue(At(Top, "idle"))
    /\ UNCHANGED <<current, files>>

Idle ==
    /\ Top.pc = "idle"
    /\ sched_yield(state, current, Top)
    /\ UNCHANGED <<procVars, files>>

-----------------------------------------------------------------------------
(* fs_server_loop                                                          *)

\* ipc_send(src, result) is refused at once, or its loop is entered.
Answer(p, result) ==
    Continue(IF ValidDest(p) THEN Sending(Top, "fs_send", p, result)
                             ELSE At(Top, "fs_recv"))

FsRequest ==
    /\ Top.pc = "fs_recv" /\ Top.spin < SpinLimit
    /\ Received
    /\ LET m == box[Top.me].msg IN
         Answer(box[Top.me].from, IF OpOf(m) = IPC_OP_RUN THEN tfs_run_fd(FdOf(m)) ELSE -1)
    /\ proc_ipc_take(Top.me)
    /\ UNCHANGED <<state, entry, hint, current, files>>

FsWait ==
    /\ Top.pc = "fs_recv" /\ Top.spin < SpinLimit
    /\ ~ Received
    /\ RecvTurn
    /\ UNCHANGED <<state, entry, hint, files>>

\* A mistake the checks rule out: the server leaves its loop when nothing arrives.
FsIdleReturns ==
    /\ Top.pc = "fs_recv" /\ Top.spin = SpinLimit
    /\ current' = Top.saved
    /\ stack' = SubSeq(stack, 1, Len(stack) - 1)
    /\ UNCHANGED <<procVars, files>>

\* ipc_recv gives up with -1: an unknown opcode, answered to src = 0 with -1.
FsIdle ==
    /\ Top.pc = "fs_recv" /\ Top.spin = SpinLimit
    /\ Answer(0, -1)
    /\ UNCHANGED <<procVars, current, files>>

\* When the loop of ipc_send gives up, the answer is dropped.
FsReply ==
    /\ Top.pc = "fs_send"
    /\ IF Top.spin < SpinLimit
       THEN SendTurn("fs_recv")
       ELSE Continue(At(Top, "fs_recv")) /\ UNCHANGED <<box, current>>
    /\ UNCHANGED <<state, entry, hint, files>>

-----------------------------------------------------------------------------
(* System calls of a program.  SYS_WRITE, SYS_READ, SYS_PUTC and SYS_GETC  *)
(* change nothing that is modelled here, and so do the failing calls.      *)

SysFork ==
    /\ Top.pc = "code"
    /\ \E s \in UserSlots : kernel_fork(Program, s)
    /\ UNCHANGED kernelVars

\* A mistake the checks rule out: g_current is not reset before the yield.
SysExitFromSelf ==
    /\ Top.pc = "code"
    /\ proc_exit(current)
    /\ sched_yield(state', current, At(Top, "exited"))
    /\ UNCHANGED files

\* proc_exit_current sets g_current = 0 and sched_yield starts from there.
SysExit ==
    /\ Top.pc = "code"
    /\ proc_exit(current)
    /\ sched_yield(state', 0, At(Top, "exited"))
    /\ UNCHANGED files

\* A mistake the checks rule out: the table has no last slot.
SysCreateUnbounded ==
    /\ Top.pc = "code"
    /\ files <= MaxFiles
    /\ files' = files + 1
    /\ UNCHANGED <<procVars, current, stack>>

SysCreate ==
    /\ Top.pc = "code"
    /\ TfsReady
    /\ files < MaxFiles
    /\ files' = files + 1
    /\ UNCHANGED <<procVars, current, stack>>

\* vfs_run up to the loop of ipc_send: tfs_create finds or creates the file.
SysRun ==
    /\ Top.pc = "code"
    /\ TfsReady
    /\ \E fd \in 0 .. MaxFiles - 1 :
         /\ fd <= files
         /\ files' = IF fd = files THEN files + 1 ELSE files
         /\ IF ValidDest(FS_SERVER_PID)
            THEN Continue(Sending(Top, "run_send", FS_SERVER_PID, RunRequest(fd)))
            ELSE UNCHANGED stack       \* the caller runs the file itself
    /\ UNCHANGED <<procVars, current>>

RunSend ==
    /\ Top.pc = "run_send" /\ Top.spin < SpinLimit
    /\ SendTurn("run_recv")
    /\ UNCHANGED <<state, entry, hint, files>>

\* The fallback of vfs_run: the caller runs the file itself.
RunLocally ==
    /\ Top.pc = "run_send" /\ Top.spin = SpinLimit
    /\ Continue(At(Top, "code"))
    /\ UNCHANGED <<procVars, current, files>>

\* A mistake the checks rule out: the answer is read but not taken.
RunReplyPeeking ==
    /\ Top.pc = "run_recv" /\ Top.spin < SpinLimit
    /\ Received
    /\ Continue(At(Top, "code"))
    /\ UNCHANGED <<procVars, current, files>>

RunReply ==
    /\ Top.pc = "run_recv" /\ Top.spin < SpinLimit
    /\ Received
    /\ proc_ipc_take(Top.me)
    /\ Continue(At(Top, "code"))
    /\ UNCHANGED <<state, entry, hint, current, files>>

RunWait ==
    /\ Top.pc = "run_recv" /\ Top.spin < SpinLimit
    /\ ~ Received
    /\ RecvTurn
    /\ UNCHANGED <<state, entry, hint, files>>

RunTimeout ==
    /\ Top.pc = "run_recv" /\ Top.spin = SpinLimit
    /\ Continue(At(Top, "code"))
    /\ UNCHANGED <<procVars, current, files>>

\* A mistake the checks rule out: g_current is not restored.
ReturnKeepingCurrent ==
    /\ Top.pc = "code"
    /\ stack' = SubSeq(stack, 1, Len(stack) - 1)
    /\ UNCHANGED <<procVars, current, files>>

\* The entry function returns to proc_run, and sched_yield restores g_current.
Return ==
    /\ Top.pc = "code"
    /\ current' = Top.saved
    /\ stack' = SubSeq(stack, 1, Len(stack) - 1)
    /\ UNCHANGED <<procVars, files>>

-----------------------------------------------------------------------------
Init ==
    /\ procs_init
    /\ current = 0
    /\ stack = << Activation(0, 0, "fork_fs") >>
    /\ files = 0

KernelMain == ForkFsServer \/ ForkShell \/ Idle

FsServer == FsRequest \/ FsWait \/ FsIdle \/ FsReply

UserProgram ==
    \/ SysFork \/ SysExit \/ SysCreate \/ SysRun
    \/ RunSend \/ RunLocally \/ RunReply \/ RunWait \/ RunTimeout
    \/ Return

Next == KernelMain \/ FsServer \/ UserProgram

Spec == Init /\ [][Next]_vars

-----------------------------------------------------------------------------
(* Properties                                                              *)

\* Every variable has its type; the stack always has its bottom activation.
TypeOK ==
    /\ state \in [Slots -> {"FREE", "READY"}]
    /\ entry \in [Slots -> Entries \cup {NoEntry}]
    /\ box \in [Slots -> [msg : Int, from : 0 .. MaxProcs]]
    /\ hint \in 1 .. MaxProcs
    /\ current \in Slots
    /\ stack \in Seq(Frame) /\ Len(stack) >= 1
    /\ files \in 0 .. MaxFiles

\* Once kernel_main has forked it, the FS server and nothing else runs as pid 2,
\* for ever: the constant FS_SERVER_PID of ipc_adapter.cpp never goes stale, in
\* spite of exits and of a fork that reuses slots as a ring.
FsServerHoldsPid2 ==
    Top.pc # "fork_fs" =>
        \A s \in UserSlots : /\ entry[s] = Server <=> s = ServerSlot
                             /\ s = ServerSlot => state[s] = "READY"

\* g_current names the process whose activation executes, and that process is
\* alive: sched_yield restores it, across any nesting of yields, exits and returns.
CurrentExecutes ==
    /\ current = Top.slot
    /\ state[current] = "READY"
    /\ Top.pc # "exited"

\* From one activation of the FS server to the next one the slots rise, and each
\* activation was called by the one below it, which is still alive.  So no process
\* but the server has two activations that can still continue.
RoundAscends ==
    \A i \in 1 .. Len(stack) - 1 :
        stack[i+1].slot # ServerSlot =>
            /\ stack[i].slot < stack[i+1].slot
            /\ stack[i+1].saved = stack[i].slot
            /\ stack[i].pc # "exited"

\* Only a living process has mail, and never kernel main: ipc_send tests the
\* state of the receiver once, before its loop, and delivers after any number
\* of yields, in each of which other processes run, exit and fork.
NoMailToTheDead == \A s \in Slots : Pending(s) => s # 0 /\ state[s] = "READY"

\* The server only gets run requests for existing files from other processes, and
\* they only get the server's answer 0: no word is -1, which ipc_recv would drop.
MailFollowsProtocol ==
    \A s \in Slots : Pending(s) =>
        IF s = ServerSlot
        THEN /\ \E fd \in 0 .. files - 1 : box[s].msg = RunRequest(fd)
             /\ SlotOf(box[s].from) \in UserSlots \ {ServerSlot}
        ELSE box[s] = [msg |-> 0, from |-> FS_SERVER_PID]

\* The rendezvous of ipc_adapter.cpp: whoever the server has a request from, or an
\* answer for, has room for the answer.  So the server never spins in ipc_send and
\* never drops an answer, though clients take answers late and send again.
ServerNeverWaits ==
    /\ Top.pc = "fs_send" => ~ Pending(Top.to)
    /\ Top.pc = "fs_recv" /\ Pending(ServerSlot) => ~ Pending(SlotOf(box[ServerSlot].from))

\* Answers are not matched with requests: a process whose earlier activation was buried
\* in vfs_run can send again and find the answer to its earlier request (ipc_adapter.cpp
\* :75).  That is all that can go wrong: a process that has a request waiting at the
\* server and an answer waiting for itself is at the first turn of its ipc_recv, where it
\* takes that answer before anything else runs, so a second answer never meets the first.
LateAnswer ==
    Pending(ServerSlot) /\ Pending(SlotOf(box[ServerSlot].from)) =>
        Top.pc = "run_recv" /\ Top.spin = 0 /\ Top.me = SlotOf(box[ServerSlot].from)

\* Activation i has an activation of the FS server above it.
Buried(i) == \E j \in i + 1 .. Len(stack) : stack[j].slot = ServerSlot

\* What is below an activation of the FS server never executes again: neither the
\* idle loop of kernel_main, nor a caller of vfs_run that has let the server run.
BuriedForGood ==
    [][\A i \in 1 .. Len(stack) : Buried(i) =>
         i < Len(stack') /\ stack'[i] = stack[i] /\ Buried(i)']_vars

\* kernel_fork never gives away the slot of a process that has exited while a run
\* request of it waits for the server or for its answer: no process can receive
\* the answer to a request of the former owner of its pid.
NoReuseUnderRequest ==
    [][\A s \in UserSlots : state[s] = "FREE" /\ state'[s] = "READY" =>
         /\ box[ServerSlot].from # Pid(s)
         /\ \A i \in 1 .. Len(stack) :
              stack[i].pc = "fs_send" /\ ~ Buried(i) => stack[i].to # s]_vars

Unread(s) == IF Pending(s) THEN {<<SlotOf(box[s].from), box[s].msg>>} ELSE {}

\* The activations that can still continue, and those of them inside ipc_send or ipc_recv.
Live      == {i \in 1 .. Len(stack) : ~ Buried(i)}
InSend    == {i \in Live : stack[i].pc \in {"run_send", "fs_send"}}
InReceive == {i \in Live : stack[i].pc \in {"run_recv", "fs_recv"}}

Sends(s) == {<<stack[i].to, stack[i].msg>> : i \in {j \in InSend : stack[j].slot = s}}

M == INSTANCE Mailboxes WITH
        Procs <- Slots, Main <- 0, Permanent <- ServerSlot,
        Words <- {0} \cup {RunRequest(fd) : fd \in 0 .. MaxFiles - 1},
        alive <- {s \in Slots : state[s] = "READY"},
        mail  <- [s \in Slots |-> Unread(s)],
        running   <- current,
        sending   <- [s \in Slots |-> Sends(s)],
        receiving <- {stack[i].slot : i \in InReceive}

\* Process table and IPC implement one-word mailboxes of living processes: whatever
\* exits, forks and yields come between the turns of its loop, a call of ipc_send puts
\* its word once at most, in the name of the process that executes, into the empty mailbox
\* of the living process it was called for; only the owner takes it out, in ipc_recv; and
\* nothing else, a fork with a full table for one, touches a mailbox in use.
MailboxesSpec == M!Spec

\* ipc_adapter.cpp:73, "the answer is certain to arrive": an activation that waits for an
\* answer which is there can go on to take it.  (By BuriedForGood it cannot when an
\* activation of the server is above it.)
AnsweredCallerContinues ==
    \A i \in 1 .. Len(stack) :
        stack[i].pc = "run_recv" /\ Pending(stack[i].me) => ~ Buried(i)
=============================================================================
