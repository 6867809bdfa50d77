---------------------------- MODULE KernelProofs ----------------------------
(***************************************************************************)
(* The safety properties of Kernel, proved for every size of the process   *)
(* table, every spin limit, every number of files and every depth of stack.*)
(***************************************************************************)
EXTENDS Kernel, Induction

-----------------------------------------------------------------------------
(* The inductive invariant                                                 *)

KernelPCs  == {"fork_fs", "fork_shell", "idle"}
ServerPCs  == {"fs_recv", "fs_send"}
ProgramPCs == {"code", "run_send", "run_recv", "exited"}

\* Until kernel_main yields for the first time it is alone, and its fork of the FS
\* server finds the table as procs_init left it.
Boot ==
    /\ Top.pc \in KernelPCs => Len(stack) = 1
    /\ Top.pc = "fork_fs" => /\ hint = 1
                             /\ \A s \in UserSlots : state[s] = "FREE" /\ entry[s] = NoEntry

\* An activation runs the code of its slot; the arguments of its ipc_send.
FrameOK(f, n) ==
    /\ f.slot = 0 <=> f.pc \in KernelPCs
    /\ f.slot = ServerSlot <=> f.pc \in ServerPCs
    /\ f.me = f.slot
    /\ f.pc = "run_send" =>
         f.to = ServerSlot /\ \E fd \in 0 .. n - 1 : f.msg = RunRequest(fd)
    /\ f.pc = "fs_send" => f.to \in UserSlots \ {ServerSlot} /\ f.msg = 0

\* Only the bottom activation is that of kernel_main.
Shapes ==
    \A i \in 1 .. Len(stack) :
        /\ FrameOK(stack[i], files)
        /\ stack[i].slot = 0 <=> i = 1

\* What is below the top of the stack is inside sched_yield, which the server never
\* calls from ipc_send, and is alive unless a server activation has buried it.
Suspended ==
    \A i \in 1 .. Len(stack) - 1 :
        /\ stack[i].pc \notin {"fork_fs", "fork_shell", "fs_send", "code"}
        /\ ~ Buried(i) => state[stack[i].slot] = "READY"

\* The server answers at once what it has taken: nothing new has arrived meanwhile,
\* and the receiver is alive and has room.
Answering ==
    Top.pc = "fs_send" =>
        /\ ~ Pending(ServerSlot)
        /\ ~ Pending(Top.to)
        /\ state[Top.to] = "READY"

\* A request whose sender has exited is about to be taken by the server.
DeadRequest ==
    Pending(ServerSlot) /\ state[SlotOf(box[ServerSlot].from)] = "FREE" =>
        Top.pc = "fs_recv" /\ Top.spin = 0

IInv ==
    /\ TypeOK
    /\ Boot
    /\ FsServerHoldsPid2
    /\ Shapes
    /\ CurrentExecutes
    /\ RoundAscends
    /\ Suspended
    /\ NoMailToTheDead
    /\ MailFollowsProtocol
    /\ Answering
    /\ LateAnswer
    /\ DeadRequest

-----------------------------------------------------------------------------
(* The stack as a sequence                                                 *)

\* Replacing the top activation by f leaves the depth and the others alone.
LEMMA ContinueFacts ==
    ASSUME stack \in Seq(Frame), Len(stack) >= 1, NEW f \in Frame, Continue(f)
    PROVE  /\ stack' \in Seq(Frame)
           /\ Len(stack') = Len(stack)
           /\ Top' = f
           /\ \A i \in 1 .. Len(stack) - 1 : stack'[i] = stack[i]
  BY DEF Continue, Top

\* Calling an entry function on top of f leaves what is below f alone.
LEMMA CallFacts ==
    ASSUME stack \in Seq(Frame), Len(stack) >= 1, NEW f \in Frame, NEW g \in Frame,
           stack' = Append([stack EXCEPT ![Len(stack)] = f], g)
    PROVE  /\ stack' \in Seq(Frame)
           /\ Len(stack') = Len(stack) + 1
           /\ Top' = g
           /\ stack'[Len(stack)] = f
           /\ \A i \in 1 .. Len(stack) - 1 : stack'[i] = stack[i]
  BY DEF Top

\* Returning from an entry function uncovers the activation below.
LEMMA ReturnFacts ==
    ASSUME stack \in Seq(Frame), Len(stack) >= 2,
           stack' = SubSeq(stack, 1, Len(stack) - 1)
    PROVE  /\ stack' \in Seq(Frame)
           /\ Len(stack') = Len(stack) - 1
           /\ Top' = stack[Len(stack) - 1]
           /\ \A i \in 1 .. Len(stack) - 1 : stack'[i] = stack[i]
  BY DEF Top

-----------------------------------------------------------------------------
(* What the three kinds of step do to the stack                            *)

\* What an activation relies on survives a step that adds files and activations.
LEMMA FrameOKMonotone ==
    ASSUME NEW f \in Frame, NEW m \in Nat, NEW n \in Nat, m <= n, FrameOK(f, m)
    PROVE  FrameOK(f, n)
  BY DEF FrameOK

\* A step in which the top activation moves on, no process dies and no file vanishes.
LEMMA ContinueStep ==
    ASSUME IInv, NEW f \in Frame, Continue(f), current' = current,
           f.slot = Top.slot, f.saved = Top.saved, f.pc # "exited", FrameOK(f, files'),
           files' \in Nat, files <= files',
           \A s \in Slots : state[s] = "READY" => state'[s] = "READY"
    PROVE  /\ stack' \in Seq(Frame) /\ Len(stack') = Len(stack) /\ Top' = f
           /\ Shapes' /\ CurrentExecutes' /\ RoundAscends' /\ Suspended'
<1>1. /\ stack \in Seq(Frame) /\ Len(stack) >= 1 /\ files \in Nat /\ Len(stack) \in Nat
      /\ \A i \in 1 .. Len(stack) : stack[i] \in Frame
  BY KernelAssumption DEF IInv, TypeOK
<1>2. /\ stack' \in Seq(Frame) /\ Len(stack') = Len(stack) /\ Top' = f
      /\ \A i \in 1 .. Len(stack) - 1 : stack'[i] = stack[i]
  BY <1>1, ContinueFacts
<1>3. stack'[Len(stack)] = f
  BY <1>2 DEF Top
<1>4. \A i \in 1 .. Len(stack) : stack'[i].slot = stack[i].slot /\ stack'[i].saved = stack[i].saved
  BY <1>1, <1>2, <1>3 DEF Top
<1>5. Shapes'
  <2>1. SUFFICES ASSUME NEW i \in 1 .. Len(stack)
                 PROVE  FrameOK(stack'[i], files') /\ (stack'[i].slot = 0 <=> i = 1)
    BY <1>2 DEF Shapes
  <2>2. CASE i = Len(stack)
    BY <1>3, <1>4, <2>2 DEF IInv, Shapes
  <2>3. CASE i # Len(stack)
    <3>1. FrameOK(stack[i], files)
      BY DEF IInv, Shapes
    <3>2. stack'[i] = stack[i]
      BY <1>1, <1>2, <2>3
    <3>3. FrameOK(stack[i], files')
      BY <1>1, <3>1, FrameOKMonotone
    <3> QED  BY <1>4, <3>2, <3>3 DEF IInv, Shapes
  <2> QED  BY <2>2, <2>3
<1>6. CurrentExecutes'
  BY <1>2 DEF IInv, CurrentExecutes, TypeOK
<1>7. RoundAscends'
  <2>1. ASSUME NEW i \in 1 .. Len(stack) - 1 PROVE stack'[i] = stack[i]
    BY <1>2
  <2>2. ASSUME NEW i \in 1 .. Len(stack) - 1, stack'[i+1].slot # ServerSlot
        PROVE  /\ stack[i].slot < stack'[i+1].slot
               /\ stack'[i+1].saved = stack[i].slot
               /\ stack[i].pc # "exited"
    <3>1. i + 1 \in 1 .. Len(stack)
      BY <1>1
    <3> QED  BY <1>4, <2>2, <3>1 DEF IInv, RoundAscends
  <2> QED  BY <1>2, <2>1, <2>2 DEF RoundAscends
<1>8. Suspended'
  <2>1. ASSUME NEW i \in 1 .. Len(stack) PROVE Buried(i)' <=> Buried(i)
    BY <1>1, <1>2, <1>4 DEF Buried
  <2>2. \A i \in 1 .. Len(stack) - 1 : stack'[i] = stack[i] /\ stack[i].slot \in Slots
    BY <1>1, <1>2 DEF Frame
  <2> QED  BY <1>1, <1>2, <2>1, <2>2 DEF IInv, Suspended
<1> QED  BY <1>2, <1>5, <1>6, <1>7, <1>8

\* A step in which f, the old top, calls the entry function of slot s.  The step may
\* kill processes when it is the server that is called.
LEMMA CallStep ==
    ASSUME IInv, NEW f \in Frame, NEW s \in UserSlots, NEW cur \in Slots,
           stack' = Append([stack EXCEPT ![Len(stack)] = f],
                           Activation(s, cur, EntryPoint(entry[s]))),
           current' = s, files' = files,
           f.slot = Top.slot, f.saved = Top.saved, FrameOK(f, files),
           f.pc \notin {"fork_fs", "fork_shell", "fs_send", "code"},
           entry[s] = Server <=> s = ServerSlot,
           state'[s] = "READY",
           s # ServerSlot => /\ cur = Top.slot /\ Top.slot < s /\ f.pc # "exited"
                             /\ \A t \in Slots : state[t] = "READY" => state'[t] = "READY"
    PROVE  /\ stack' \in Seq(Frame) /\ Len(stack') = Len(stack) + 1
           /\ Top' = Activation(s, cur, EntryPoint(entry[s]))
           /\ Shapes' /\ CurrentExecutes' /\ RoundAscends' /\ Suspended'
<1> DEFINE g == Activation(s, cur, EntryPoint(entry[s]))
<1>1. /\ stack \in Seq(Frame) /\ Len(stack) >= 1 /\ files \in Nat /\ Len(stack) \in Nat
      /\ \A i \in 1 .. Len(stack) : stack[i] \in Frame
  BY KernelAssumption DEF IInv, TypeOK
<1>2. /\ g \in Frame /\ g.slot = s /\ g.saved = cur /\ g.pc # "exited"
      /\ g.pc = EntryPoint(entry[s]) /\ g.me = s
  BY KernelAssumption, MaxProcsAssumption
     DEF Activation, EntryPoint, Frame, PCs, Slots, UserSlots
<1>3. /\ stack' \in Seq(Frame) /\ Len(stack') = Len(stack) + 1 /\ Top' = g
      /\ stack'[Len(stack)] = f
      /\ \A i \in 1 .. Len(stack) - 1 : stack'[i] = stack[i]
  BY <1>1, <1>2, CallFacts
<1>4. stack'[Len(stack) + 1] = g
  BY <1>3 DEF Top
<1>5. \A i \in 1 .. Len(stack) : stack'[i].slot = stack[i].slot /\ stack'[i].saved = stack[i].saved
  BY <1>1, <1>3 DEF Top
<1> HIDE DEF g
<1>6. FrameOK(g, files)
  BY <1>2, MaxProcsAssumption
     DEF FrameOK, EntryPoint, UserSlots, KernelPCs, ServerPCs, ServerSlot, SlotOf, FS_SERVER_PID
<1>7. Shapes'
  <2>1. SUFFICES ASSUME NEW i \in 1 .. Len(stack) + 1
                 PROVE  FrameOK(stack'[i], files) /\ (stack'[i].slot = 0 <=> i = 1)
    BY <1>3 DEF Shapes
  <2>2. CASE i = Len(stack) + 1
    BY <1>1, <1>2, <1>4, <1>6, <2>2 DEF UserSlots
  <2>3. CASE i = Len(stack)
    BY <1>1, <1>3, <1>5, <2>3 DEF IInv, Shapes
  <2>4. CASE i \in 1 .. Len(stack) - 1
    BY <1>1, <1>3, <1>5, <2>4 DEF IInv, Shapes
  <2> QED  BY <1>1, <2>2, <2>3, <2>4
<1>8. CurrentExecutes'
  BY <1>2, <1>3 DEF CurrentExecutes
<1>9. RoundAscends'
  <2>1. SUFFICES ASSUME NEW i \in 1 .. Len(stack), stack'[i+1].slot # ServerSlot
                 PROVE  /\ stack'[i].slot < stack'[i+1].slot
                        /\ stack'[i+1].saved = stack'[i].slot
                        /\ stack'[i].pc # "exited"
    BY <1>1, <1>3 DEF RoundAscends
  <2>2. CASE i = Len(stack)
    BY <1>1, <1>2, <1>3, <1>4, <1>5, <2>1, <2>2 DEF Top
  <2>3. CASE i # Len(stack)
    <3>1. i \in 1 .. Len(stack) - 1 /\ i + 1 \in 1 .. Len(stack) /\ stack'[i] = stack[i]
      BY <1>1, <1>3, <2>3
    <3>2. stack[i+1].slot # ServerSlot
      BY <1>5, <2>1, <3>1
    <3> QED  BY <1>5, <3>1, <3>2 DEF IInv, RoundAscends
  <2> QED  BY <2>2, <2>3
<1>10. Suspended'
  <2>1. SUFFICES ASSUME NEW i \in 1 .. Len(stack)
                 PROVE  /\ stack'[i].pc \notin {"fork_fs", "fork_shell", "fs_send", "code"}
                        /\ ~ Buried(i)' => state'[stack'[i].slot] = "READY"
    BY <1>1, <1>3 DEF Suspended
  <2>2. stack'[i].pc \notin {"fork_fs", "fork_shell", "fs_send", "code"}
    BY <1>1, <1>3 DEF IInv, Suspended
  <2>3. ~ Buried(i)' => s # ServerSlot
    BY <1>1, <1>2, <1>3, <1>4 DEF Buried
  <2>4. ASSUME ~ Buried(i)' PROVE i = Len(stack) \/ ~ Buried(i)
    BY <1>1, <1>3, <1>5, <2>4 DEF Buried
  <2>5. stack[i].slot \in Slots
    BY <1>1 DEF Frame
  <2>6. ~ Buried(i)' => state[stack[i].slot] = "READY"
    BY <1>1, <2>4 DEF IInv, Suspended, CurrentExecutes, Top
  <2> QED  BY <1>5, <2>2, <2>3, <2>5, <2>6
<1> QED  BY <1>3, <1>7, <1>8, <1>9, <1>10 DEF g

\* A step in which the entry function of the top activation returns.
LEMMA ReturnStep ==
    ASSUME IInv, Len(stack) >= 2, Top.slot # ServerSlot,
           stack' = SubSeq(stack, 1, Len(stack) - 1),
           current' = Top.saved, files' = files, state' = state
    PROVE  /\ stack' \in Seq(Frame) /\ Len(stack') = Len(stack) - 1
           /\ Top' = stack[Len(stack) - 1]
           /\ Shapes' /\ CurrentExecutes' /\ RoundAscends' /\ Suspended'
<1>1. /\ stack \in Seq(Frame) /\ Len(stack) >= 1 /\ files \in Nat /\ Len(stack) \in Nat
      /\ \A i \in 1 .. Len(stack) : stack[i] \in Frame
  BY KernelAssumption DEF IInv, TypeOK
<1>2. /\ stack' \in Seq(Frame) /\ Len(stack') = Len(stack) - 1
      /\ Top' = stack[Len(stack) - 1]
      /\ \A i \in 1 .. Len(stack) - 1 : stack'[i] = stack[i]
  BY <1>1, ReturnFacts
<1>3. Shapes'
  BY <1>1, <1>2 DEF IInv, Shapes
<1>4. RoundAscends'
  <2>1. SUFFICES ASSUME NEW i \in 1 .. Len(stack) - 2, stack'[i+1].slot # ServerSlot
                 PROVE  /\ stack'[i].slot < stack'[i+1].slot
                        /\ stack'[i+1].saved = stack'[i].slot
                        /\ stack'[i].pc # "exited"
    BY <1>1, <1>2 DEF RoundAscends
  <2>2. /\ i \in 1 .. Len(stack) - 1
        /\ stack'[i] = stack[i] /\ stack'[i+1] = stack[i+1]
    BY <1>1, <1>2
  <2> QED  BY <2>1, <2>2 DEF IInv, RoundAscends
<1>5. ASSUME NEW i \in 1 .. Len(stack) - 1 PROVE Buried(i)' <=> Buried(i)
  BY <1>1, <1>2 DEF Buried, Top
<1>6. Suspended'
  BY <1>1, <1>2, <1>5 DEF IInv, Suspended
<1>7. CurrentExecutes'
  <2>1. Len(stack) - 1 \in 1 .. Len(stack) - 1 /\ (Len(stack) - 1) + 1 = Len(stack)
    BY <1>1
  <2>2. /\ Top.saved = stack[Len(stack) - 1].slot
        /\ stack[Len(stack) - 1].pc # "exited"
    BY <2>1 DEF IInv, RoundAscends, Top
  <2>3. ~ Buried(Len(stack) - 1)
    BY <1>1, <2>1 DEF Buried, Top
  <2>4. state[stack[Len(stack) - 1].slot] = "READY"
    BY <2>1, <2>3 DEF IInv, Suspended
  <2> QED  BY <1>2, <2>2, <2>4 DEF CurrentExecutes
<1> QED  BY <1>2, <1>3, <1>4, <1>6, <1>7

-----------------------------------------------------------------------------
(* Yields and words                                                        *)

\* What the invariant says of the executing activation.
LEMMA TopFacts ==
    ASSUME IInv
    PROVE  /\ stack \in Seq(Frame) /\ Len(stack) \in Nat /\ Len(stack) >= 1
           /\ Top \in Frame /\ FrameOK(Top, files)
           /\ Top.slot = current /\ Top.me = current /\ current \in Slots
           /\ state[current] = "READY"
           /\ files \in 0 .. MaxFiles
           /\ ServerSlot = 1 /\ ServerSlot \in UserSlots
           /\ \A s \in UserSlots : s \in Slots /\ s # 0
  BY KernelAssumption, MaxProcsAssumption
     DEF IInv, TypeOK, Shapes, CurrentExecutes, FrameOK, Top, Slots, UserSlots,
         ServerSlot, SlotOf, FS_SERVER_PID

\* The server is always ready, so the ring scan never wraps past its slot 1: it ends
\* there or at a slot above the caller's.
LEMMA YieldStep ==
    ASSUME IInv, NEW f \in Frame, sched_yield(state, current, f),
           f.slot = Top.slot, f.saved = Top.saved, FrameOK(f, files),
           f.pc \in {"idle", "fs_recv", "run_send", "run_recv"},
           Top.pc # "fork_fs", state' = state, files' = files
    PROVE  /\ stack' \in Seq(Frame) /\ Len(stack') = Len(stack) + 1
           /\ current' \in UserSlots
           /\ Top'.pc \in {"fs_recv", "code"} /\ Top'.spin = 0
           /\ Shapes' /\ CurrentExecutes' /\ RoundAscends' /\ Suspended'
<1>1. /\ ServerSlot \in ReadySlots(state) /\ ServerSlot = 1
      /\ \A s \in UserSlots : entry[s] = Server <=> s = ServerSlot
  BY TopFacts DEF IInv, FsServerHoldsPid2, ReadySlots
<1>2. PICK s \in UserSlots :
        /\ IsNextReady(state, current, s)
        /\ current' = s
        /\ stack' = Append([stack EXCEPT ![Len(stack)] = f],
                           Activation(s, current, EntryPoint(entry[s])))
  BY <1>1 DEF sched_yield
<1>3. /\ s \in UserSlots /\ state[s] = "READY"
      /\ RingDistance(current, s) <= RingDistance(current, ServerSlot)
  BY <1>1, <1>2 DEF IsNextReady, ReadySlots
<1>4. s # ServerSlot => current < s
  BY <1>1, <1>3, TopFacts, MaxProcsAssumption DEF RingDistance, Slots, UserSlots
<1>5. /\ stack' \in Seq(Frame) /\ Len(stack') = Len(stack) + 1
      /\ Top' = Activation(s, current, EntryPoint(entry[s]))
      /\ Shapes' /\ CurrentExecutes' /\ RoundAscends' /\ Suspended'
  BY <1>1, <1>2, <1>3, <1>4, TopFacts, CallStep
<1>6. Top'.pc \in {"fs_recv", "code"} /\ Top'.spin = 0
  BY <1>5 DEF Activation, EntryPoint
<1> QED  BY <1>2, <1>5, <1>6

\* The server decodes from a run request the handle that was encoded.
LEMMA RequestWord ==
    ASSUME NEW fd \in Nat
    PROVE  /\ RunRequest(fd) \in Int /\ RunRequest(fd) >= 1
           /\ OpOf(RunRequest(fd)) = IPC_OP_RUN
  BY DEF RunRequest, OpOf, IPC_OP_RUN

\* (op | fd << 8) gives op and fd back to the server (ipc_adapter.cpp).
LEMMA RequestHandle ==
    ASSUME NEW fd \in 0 .. MaxFiles - 1
    PROVE  FdOf(RunRequest(fd)) = fd
  BY KernelAssumption, HandleAssumption, SMT DEF RunRequest, FdOf, IPC_OP_RUN

\* Every waiting word is one that ipc_recv hands to its caller.
LEMMA MailIsReceived ==
    ASSUME IInv, NEW s \in Slots, Pending(s)
    PROVE  box[s].msg # -1 /\ SlotOf(box[s].from) \in UserSlots
<1>1. CASE s = ServerSlot
  <2>1. PICK fd \in 0 .. files - 1 : box[s].msg = RunRequest(fd)
    BY <1>1 DEF IInv, MailFollowsProtocol
  <2>2. fd \in Nat
    BY TopFacts, KernelAssumption
  <2> QED  BY <1>1, <2>1, <2>2, RequestWord DEF IInv, MailFollowsProtocol
<1>2. CASE s # ServerSlot
  BY <1>2, TopFacts DEF IInv, MailFollowsProtocol, ServerSlot
<1> QED  BY <1>1, <1>2

\* The top activation keeps its place when it moves on: one more turn of a loop, or
\* the head of another one.
LEMMA SpunFacts ==
    ASSUME NEW f \in Frame, f.spin < SpinLimit, FrameOK(f, files)
    PROVE  /\ Spun(f) \in Frame /\ FrameOK(Spun(f), files)
           /\ Spun(f).slot = f.slot /\ Spun(f).saved = f.saved
           /\ Spun(f).pc = f.pc
<1>1. f.spin + 1 \in 0 .. SpinLimit
  BY KernelAssumption DEF Frame
<1> DEFINE g == Spun(f)
<1>2. /\ g \in Frame /\ g.slot = f.slot /\ g.saved = f.saved /\ g.pc = f.pc
      /\ g.me = f.me /\ g.to = f.to /\ g.msg = f.msg
  BY <1>1, SMT DEF Spun, Frame
<1> HIDE DEF g
<1>3. FrameOK(g, files)
  BY <1>2, SMT DEF FrameOK
<1> QED  BY <1>2, <1>3 DEF g

\* The activation that continues outside an IPC loop has its type.
LEMMA AtFacts ==
    ASSUME IInv, NEW n \in Nat, NEW pc \in PCs,
           pc \in ServerPCs <=> Top.pc \in ServerPCs,
           pc \in KernelPCs <=> Top.pc \in KernelPCs,
           pc \notin {"run_send", "fs_send"}
    PROVE  /\ At(Top, pc) \in Frame /\ FrameOK(At(Top, pc), n)
           /\ At(Top, pc).slot = Top.slot /\ At(Top, pc).saved = Top.saved
           /\ At(Top, pc).pc = pc /\ At(Top, pc).spin = 0 /\ At(Top, pc).me = current
<1>1. /\ Top.saved \in Slots /\ Top.slot = current /\ current \in Slots /\ 0 \in Slots
      /\ 0 \in 0 .. SpinLimit /\ FrameOK(Top, files)
  BY TopFacts, KernelAssumption, MaxProcsAssumption DEF Frame, Slots
<1> DEFINE g == At(Top, pc)
<1>2. /\ g.slot = current /\ g.saved = Top.saved /\ g.pc = pc /\ g.spin = 0
      /\ g.me = current /\ g.to = 0 /\ g.msg = 0
  BY <1>1 DEF At, Enter
<1>3. g \in Frame
  BY <1>1 DEF At, Enter, Frame
<1> HIDE DEF g
<1>4. FrameOK(g, n)
  BY <1>1, <1>2 DEF FrameOK
<1> QED  BY <1>1, <1>2, <1>3, <1>4 DEF g

-----------------------------------------------------------------------------
(* The invariant holds initially and every action preserves it             *)

\* The invariant holds at the start of kernel_main.
LEMMA InitInv == Init => IInv
<1> SUFFICES ASSUME Init PROVE IInv
  OBVIOUS
<1>1. /\ stack = << Activation(0, 0, "fork_fs") >> /\ Len(stack) = 1
      /\ Top = Activation(0, 0, "fork_fs") /\ stack[1] = Top
  BY DEF Init, Top
<1>2. Top \in Frame /\ Top.slot = 0 /\ Top.pc = "fork_fs" /\ Top.me = 0
  BY <1>1, KernelAssumption, MaxProcsAssumption DEF Activation, Frame, Slots, PCs
<1>3. TypeOK
  BY <1>1, <1>2, KernelAssumption, MaxProcsAssumption
     DEF Init, procs_init, TypeOK, Slots, NoMail
<1>4. Boot /\ FsServerHoldsPid2
  <2>1. /\ hint = 1
        /\ \A s \in UserSlots : s \in Slots /\ s # 0
    BY MaxProcsAssumption DEF Init, procs_init, UserSlots, Slots
  <2>2. \A s \in UserSlots : state[s] = "FREE" /\ entry[s] = NoEntry
    BY <2>1 DEF Init, procs_init
  <2> QED  BY <1>1, <1>2, <2>1, <2>2 DEF Boot, FsServerHoldsPid2
<1>5. Shapes
  BY <1>1, <1>2, MaxProcsAssumption
     DEF Shapes, FrameOK, KernelPCs, ServerPCs, ServerSlot, SlotOf, FS_SERVER_PID
<1>6. CurrentExecutes
  BY <1>1, <1>2, MaxProcsAssumption DEF Init, procs_init, CurrentExecutes, Slots
<1>7. RoundAscends /\ Suspended
  BY <1>1 DEF RoundAscends, Suspended
<1>8. \A s \in Slots : ~ Pending(s)
  BY DEF Init, procs_init, Pending, NoMail
<1>9. ServerSlot \in Slots
  BY MaxProcsAssumption DEF ServerSlot, SlotOf, FS_SERVER_PID, Slots
<1>10. NoMailToTheDead /\ MailFollowsProtocol /\ LateAnswer /\ DeadRequest
  BY <1>8, <1>9 DEF NoMailToTheDead, MailFollowsProtocol, LateAnswer, DeadRequest
<1>11. Answering
  BY <1>2 DEF Answering
<1> QED  BY <1>3, <1>4, <1>5, <1>6, <1>7, <1>10, <1>11 DEF IInv

\* The first fork of kernel_main preserves it: the server gets pid 2.
LEMMA ForkFsServerInv == IInv /\ ForkFsServer => IInv'
<1> SUFFICES ASSUME IInv, ForkFsServer PROVE IInv'
  OBVIOUS
<1> DEFINE f == At(Top, "fork_shell")
<1>1. PICK s \in UserSlots : kernel_fork(Server, s)
  BY DEF ForkFsServer
<1>2. /\ hint = 1 /\ Len(stack) = 1 /\ current = 0
      /\ \A t \in UserSlots : state[t] = "FREE" /\ entry[t] = NoEntry
  BY TopFacts DEF ForkFsServer, IInv, Boot, KernelPCs, FrameOK
<1>3. s = ServerSlot
  BY <1>1, <1>2, TopFacts, MaxProcsAssumption
     DEF kernel_fork, FreeSlots, ScanOffset, ScanStart, UserSlots
<1>4. /\ f \in Frame /\ f.slot = Top.slot /\ f.saved = Top.saved /\ f.pc = "fork_shell"
      /\ FrameOK(f, files)
  BY TopFacts, KernelAssumption, AtFacts DEF ForkFsServer, PCs, KernelPCs, ServerPCs
<1>5. /\ Continue(f) /\ current' = current /\ files' = files
  BY DEF ForkFsServer
<1>6. /\ state' = [state EXCEPT ![s] = "READY"] /\ entry' = [entry EXCEPT ![s] = Server]
      /\ box' = [box EXCEPT ![s] = NoMail] /\ hint' = s + 1
  BY <1>1 DEF kernel_fork
<1>7. /\ state \in [Slots -> {"FREE", "READY"}] /\ entry \in [Slots -> Entries \cup {NoEntry}]
      /\ box \in [Slots -> [msg : Int, from : 0 .. MaxProcs]]
  BY DEF IInv, TypeOK
<1> HIDE DEF f
<1>8. /\ stack' \in Seq(Frame) /\ Len(stack') = Len(stack) /\ Top' = f
      /\ Shapes' /\ CurrentExecutes' /\ RoundAscends' /\ Suspended'
  BY <1>4, <1>5, <1>6, <1>7, TopFacts, KernelAssumption, ContinueStep
<1>9. TypeOK'
  BY <1>1, <1>2, <1>3, <1>5, <1>6, <1>7, <1>8, TopFacts, MaxProcsAssumption
     DEF TypeOK, IInv, Entries, NoMail, UserSlots
<1>10. Boot' /\ Answering'
  BY <1>2, <1>4, <1>8 DEF Boot, Answering
<1>11. FsServerHoldsPid2'
  BY <1>2, <1>3, <1>6, <1>7, TopFacts DEF FsServerHoldsPid2, Server, NoEntry
<1>12. \A t \in Slots : ~ Pending(t)
  BY <1>2, TopFacts DEF IInv, NoMailToTheDead, UserSlots, Slots
<1>13. \A t \in Slots : ~ Pending(t)'
  BY <1>6, <1>7, <1>12 DEF Pending, NoMail
<1>14. NoMailToTheDead' /\ MailFollowsProtocol' /\ LateAnswer' /\ DeadRequest'
  BY <1>13, TopFacts DEF NoMailToTheDead, MailFollowsProtocol, LateAnswer, DeadRequest
<1> QED  BY <1>8, <1>9, <1>10, <1>11, <1>14 DEF IInv

\* A fork of a program, by kernel_main or by a program, whose activation moves on to f.
LEMMA ForkProgramInv ==
    ASSUME IInv, NEW f \in Frame, Continue(f), NEW s \in UserSlots, kernel_fork(Program, s),
           current' = current, files' = files,
           f.slot = Top.slot, f.saved = Top.saved, FrameOK(f, files),
           \/ Top.pc = "fork_shell" /\ f.pc = "idle"
           \/ Top.pc = "code" /\ f.pc = "code"
    PROVE  IInv'
<1>1. /\ state' = [state EXCEPT ![s] = "READY"] /\ entry' = [entry EXCEPT ![s] = Program]
      /\ box' = [box EXCEPT ![s] = NoMail] /\ hint' = s + 1 /\ state[s] = "FREE"
  BY DEF kernel_fork, FreeSlots
<1>2. /\ state \in [Slots -> {"FREE", "READY"}] /\ entry \in [Slots -> Entries \cup {NoEntry}]
      /\ box \in [Slots -> [msg : Int, from : 0 .. MaxProcs]]
  BY DEF IInv, TypeOK
<1>3. /\ stack' \in Seq(Frame) /\ Len(stack') = Len(stack) /\ Top' = f
      /\ Shapes' /\ CurrentExecutes' /\ RoundAscends' /\ Suspended'
  BY <1>1, <1>2, TopFacts, KernelAssumption, ContinueStep
<1>4. TypeOK'
  BY <1>1, <1>2, <1>3, TopFacts, MaxProcsAssumption
     DEF TypeOK, IInv, Entries, NoMail, UserSlots
<1>5. Boot' /\ Answering'
  BY <1>3 DEF IInv, Boot, Answering, KernelPCs
<1>6. /\ s # ServerSlot /\ s # 0 /\ s \in Slots
      /\ \A t \in UserSlots : /\ entry[t] = Server <=> t = ServerSlot
                              /\ t = ServerSlot => state[t] = "READY"
  BY <1>1, TopFacts DEF IInv, FsServerHoldsPid2
<1>7. FsServerHoldsPid2'
  BY <1>1, <1>2, <1>6, TopFacts DEF FsServerHoldsPid2, Server, Program
<1>8. ~ Pending(s) /\ ~ Pending(s)' /\ \A t \in Slots \ {s} : box'[t] = box[t]
  BY <1>1, <1>2, <1>6 DEF IInv, NoMailToTheDead, Pending, NoMail
<1>9. \A t \in Slots : Pending(t)' => Pending(t) /\ t # s /\ box'[t] = box[t]
  BY <1>8 DEF Pending
<1>10. NoMailToTheDead'
  BY <1>1, <1>2, <1>9 DEF IInv, NoMailToTheDead
<1>11. MailFollowsProtocol'
  BY <1>9 DEF IInv, MailFollowsProtocol
<1>12. Pending(ServerSlot)' =>
         /\ Pending(ServerSlot) /\ box'[ServerSlot] = box[ServerSlot]
         /\ SlotOf(box[ServerSlot].from) \in Slots
  BY <1>9, TopFacts, MailIsReceived
<1>13. LateAnswer'
  BY <1>9, <1>12 DEF IInv, LateAnswer
<1>14. DeadRequest'
  BY <1>1, <1>2, <1>12 DEF IInv, DeadRequest
<1> QED  BY <1>3, <1>4, <1>5, <1>7, <1>10, <1>11, <1>13, <1>14 DEF IInv

\* The second fork of kernel_main preserves it.
LEMMA ForkShellInv == IInv /\ ForkShell => IInv'
<1> SUFFICES ASSUME IInv, ForkShell PROVE IInv'
  OBVIOUS
<1> DEFINE f == At(Top, "idle")
<1>1. PICK s \in UserSlots : kernel_fork(Program, s)
  BY DEF ForkShell
<1>2. /\ f \in Frame /\ f.slot = Top.slot /\ f.saved = Top.saved /\ f.pc = "idle"
      /\ FrameOK(f, files)
  BY TopFacts, KernelAssumption, AtFacts DEF ForkShell, PCs, KernelPCs, ServerPCs
<1>3. /\ Continue(f) /\ current' = current /\ files' = files /\ Top.pc = "fork_shell"
  BY DEF ForkShell
<1> HIDE DEF f
<1> QED  BY <1>1, <1>2, <1>3, ForkProgramInv

\* So does SYS_FORK: the new process has no mail and no activation.
LEMMA SysForkInv == IInv /\ SysFork => IInv'
<1> SUFFICES ASSUME IInv, SysFork PROVE IInv'
  OBVIOUS
<1>1. PICK s \in UserSlots : kernel_fork(Program, s)
  BY DEF SysFork
<1>2. Top.pc = "code" /\ current' = current /\ files' = files /\ stack' = stack
  BY DEF SysFork, kernelVars
<1>3. Continue(Top)
  BY <1>2, TopFacts DEF Continue, Top
<1> QED  BY <1>1, <1>2, <1>3, TopFacts, ForkProgramInv

-----------------------------------------------------------------------------
(* Steps that leave the process table alone                                *)

\* A program or the server moves on to f, with the process table as it is and no
\* word waiting for the top activation to take it.
LEMMA QuietContinueInv ==
    ASSUME IInv, NEW f \in Frame, Continue(f), current' = current, UNCHANGED procVars,
           NEW n \in files .. MaxFiles, files' = n,
           f.slot = Top.slot, f.saved = Top.saved, FrameOK(f, n),
           f.pc \in {"code", "run_send", "fs_recv"},
           Top.pc \in {"code", "run_send", "run_recv", "fs_recv", "fs_send"},
           Top.pc \in {"run_recv", "fs_recv"} => Top.spin # 0
    PROVE  IInv'
<1>1. state' = state /\ entry' = entry /\ box' = box /\ hint' = hint
  BY DEF procVars
<1>2. files \in Nat /\ n \in Nat /\ files <= n /\ n \in 0 .. MaxFiles
  BY TopFacts, KernelAssumption
<1>3. /\ stack' \in Seq(Frame) /\ Len(stack') = Len(stack) /\ Top' = f
      /\ Shapes' /\ CurrentExecutes' /\ RoundAscends' /\ Suspended'
  BY <1>1, <1>2, ContinueStep
<1>4. TypeOK'
  BY <1>1, <1>2, <1>3, TopFacts DEF TypeOK, IInv
<1>5. Boot' /\ Answering'
  BY <1>3 DEF Boot, Answering, KernelPCs
<1>6. FsServerHoldsPid2' /\ NoMailToTheDead'
  BY <1>1, <1>3 DEF IInv, FsServerHoldsPid2, NoMailToTheDead, Pending, Boot
<1>7. MailFollowsProtocol'
  <2>1. ASSUME NEW fd \in 0 .. files - 1 PROVE fd \in 0 .. n - 1
    BY <1>2
  <2>2. \A s \in Slots : box'[s] = box[s] /\ (Pending(s)' <=> Pending(s))
    BY <1>1 DEF Pending
  <2>3. ASSUME Pending(ServerSlot)
        PROVE  /\ \E fd \in 0 .. n - 1 : box[ServerSlot].msg = RunRequest(fd)
               /\ SlotOf(box[ServerSlot].from) \in UserSlots \ {ServerSlot}
    BY <2>1, <2>3, TopFacts DEF IInv, MailFollowsProtocol
  <2> QED  BY <2>2, <2>3 DEF IInv, MailFollowsProtocol
<1>8. LateAnswer' /\ DeadRequest'
  BY <1>1 DEF IInv, LateAnswer, DeadRequest, Pending
<1> QED  BY <1>3, <1>4, <1>5, <1>6, <1>7, <1>8 DEF IInv

\* The same for a step in which the top activation, as f, yields.
LEMMA QuietYieldInv ==
    ASSUME IInv, NEW f \in Frame, sched_yield(state, current, f), UNCHANGED <<procVars, files>>,
           f.slot = Top.slot, f.saved = Top.saved, FrameOK(f, files),
           f.pc \in {"idle", "fs_recv", "run_send", "run_recv"}, Top.pc = f.pc,
           Top.pc = "run_recv" => ~ Pending(Top.me),
           Top.pc = "fs_recv" => ~ Pending(ServerSlot)
    PROVE  IInv'
<1>1. state' = state /\ entry' = entry /\ box' = box /\ hint' = hint /\ files' = files
  BY DEF procVars
<1>2. /\ stack' \in Seq(Frame) /\ Len(stack') = Len(stack) + 1
      /\ current' \in UserSlots
      /\ Top'.pc \in {"fs_recv", "code"} /\ Top'.spin = 0
      /\ Shapes' /\ CurrentExecutes' /\ RoundAscends' /\ Suspended'
  BY <1>1, YieldStep
<1>3. TypeOK'
  BY <1>1, <1>2, TopFacts DEF TypeOK, IInv
<1>4. Boot' /\ Answering'
  BY <1>2 DEF Boot, Answering, KernelPCs
<1>5. FsServerHoldsPid2' /\ NoMailToTheDead' /\ MailFollowsProtocol'
  BY <1>1 DEF IInv, FsServerHoldsPid2, NoMailToTheDead, MailFollowsProtocol, Pending
<1>6. LateAnswer' /\ DeadRequest'
  BY <1>1 DEF IInv, LateAnswer, DeadRequest, Pending
<1> QED  BY <1>2, <1>3, <1>4, <1>5, <1>6 DEF IInv

\* So does the idle loop of kernel_main.
LEMMA IdleInv == IInv /\ Idle => IInv'
<1> SUFFICES ASSUME IInv, Idle PROVE IInv'
  OBVIOUS
<1>1. /\ Top.pc = "idle" /\ sched_yield(state, current, Top)
      /\ UNCHANGED <<procVars, files>>
  BY DEF Idle
<1> QED  BY <1>1, TopFacts, QuietYieldInv

\* So does the ipc_recv of the server that gives up.
LEMMA FsIdleInv == IInv /\ FsIdle => IInv'
<1> SUFFICES ASSUME IInv, FsIdle PROVE IInv'
  OBVIOUS
<1>1. /\ Top.pc = "fs_recv" /\ Top.spin = SpinLimit /\ Top.spin # 0
      /\ current' = current /\ UNCHANGED procVars /\ files' = files
  BY KernelAssumption DEF FsIdle
<1>2. Continue(At(Top, "fs_recv"))
  <2>1. ~ ValidDest(0)
    BY MaxProcsAssumption DEF ValidDest, SlotOf, UserSlots
  <2> QED  BY <2>1 DEF FsIdle, Answer
<1>3. /\ At(Top, "fs_recv") \in Frame /\ FrameOK(At(Top, "fs_recv"), files)
      /\ At(Top, "fs_recv").slot = Top.slot /\ At(Top, "fs_recv").saved = Top.saved
      /\ At(Top, "fs_recv").pc = "fs_recv"
  BY <1>1, TopFacts, KernelAssumption, AtFacts DEF PCs, ServerPCs, KernelPCs
<1>4. files \in files .. MaxFiles
  BY TopFacts, KernelAssumption
<1> QED  BY <1>1, <1>2, <1>3, <1>4, QuietContinueInv

\* RunLocally and RunTimeout: a loop of the program has given up.
LEMMA RunGivesUpInv == IInv /\ (RunLocally \/ RunTimeout) => IInv'
<1> SUFFICES ASSUME IInv, RunLocally \/ RunTimeout PROVE IInv'
  OBVIOUS
<1>1. /\ Top.pc \in {"run_send", "run_recv"} /\ Top.spin # 0
      /\ current' = current /\ UNCHANGED procVars /\ files' = files
      /\ Continue(At(Top, "code"))
  BY KernelAssumption DEF RunLocally, RunTimeout
<1>2. /\ At(Top, "code") \in Frame /\ FrameOK(At(Top, "code"), files)
      /\ At(Top, "code").slot = Top.slot /\ At(Top, "code").saved = Top.saved
      /\ At(Top, "code").pc = "code"
  BY <1>1, TopFacts, KernelAssumption, AtFacts DEF PCs, ServerPCs, KernelPCs
<1>3. files \in files .. MaxFiles
  BY TopFacts, KernelAssumption
<1> QED  BY <1>1, <1>2, <1>3, QuietContinueInv

\* So does SYS_CREATE.
LEMMA SysCreateInv == IInv /\ SysCreate => IInv'
<1> SUFFICES ASSUME IInv, SysCreate PROVE IInv'
  OBVIOUS
<1>1. /\ Top.pc = "code" /\ current' = current /\ UNCHANGED procVars /\ stack' = stack
      /\ files < MaxFiles /\ files' = files + 1
  BY DEF SysCreate
<1>2. Continue(Top)
  BY <1>1, TopFacts DEF Continue, Top
<1>3. files + 1 \in files .. MaxFiles /\ files \in Nat /\ files + 1 \in Nat
  BY <1>1, TopFacts, KernelAssumption
<1>4. FrameOK(Top, files + 1)
  BY <1>3, TopFacts, FrameOKMonotone
<1> QED  BY <1>1, <1>2, <1>3, <1>4, TopFacts, QuietContinueInv

\* So does vfs_run up to its ipc_send.
LEMMA SysRunInv == IInv /\ SysRun => IInv'
<1> SUFFICES ASSUME IInv, SysRun PROVE IInv'
  OBVIOUS
<1>1. PICK fd \in 0 .. MaxFiles - 1 :
        /\ fd <= files
        /\ files' = IF fd = files THEN files + 1 ELSE files
        /\ IF ValidDest(FS_SERVER_PID)
           THEN Continue(Sending(Top, "run_send", FS_SERVER_PID, RunRequest(fd)))
           ELSE UNCHANGED stack
  BY DEF SysRun
<1>2. Top.pc = "code" /\ current' = current /\ UNCHANGED procVars
  BY DEF SysRun
<1> DEFINE f == Sending(Top, "run_send", FS_SERVER_PID, RunRequest(fd))
           n == IF fd = files THEN files + 1 ELSE files
<1>3. /\ fd \in Nat /\ n \in files .. MaxFiles /\ n \in Nat /\ fd \in 0 .. n - 1
  BY <1>1, TopFacts, KernelAssumption
<1>4. ValidDest(FS_SERVER_PID)
  BY <1>2, TopFacts DEF IInv, FsServerHoldsPid2, ValidDest, ServerSlot
<1>5. Continue(f) /\ files' = n
  BY <1>1, <1>4
<1>6. /\ f.slot = Top.slot /\ f.saved = Top.saved /\ f.pc = "run_send" /\ f.me = current
      /\ f.to = ServerSlot /\ f.msg = RunRequest(fd)
  BY TopFacts DEF Sending, Enter, ServerSlot
<1>7. f \in Frame
  <2>1. /\ Top.saved \in Slots /\ Top.slot \in Slots /\ ServerSlot \in Slots
        /\ RunRequest(fd) \in Int /\ 0 \in 0 .. SpinLimit
    BY <1>3, TopFacts, RequestWord, KernelAssumption DEF Frame
  <2> QED  BY <2>1, TopFacts DEF Sending, Enter, Frame, PCs, ServerSlot
<1> HIDE DEF f, n
<1>8. FrameOK(f, n)
  BY <1>2, <1>3, <1>6, TopFacts DEF FrameOK, KernelPCs, ServerPCs
<1> QED  BY <1>2, <1>3, <1>5, <1>6, <1>7, <1>8, QuietContinueInv

\* So does an entry function that returns to sched_yield.
LEMMA ReturnInv == IInv /\ Return => IInv'
<1> SUFFICES ASSUME IInv, Return PROVE IInv'
  OBVIOUS
<1>1. /\ Top.pc = "code" /\ current' = Top.saved
      /\ stack' = SubSeq(stack, 1, Len(stack) - 1)
      /\ state' = state /\ entry' = entry /\ box' = box /\ hint' = hint /\ files' = files
  BY DEF Return, procVars
<1>2. Len(stack) >= 2 /\ Top.slot # ServerSlot
  <2>1. Top.slot # ServerSlot /\ Top.slot # 0
    BY <1>1, TopFacts DEF FrameOK, KernelPCs, ServerPCs
  <2>2. Len(stack) # 1
    BY <2>1, TopFacts DEF IInv, Shapes, Top
  <2>3. Len(stack) \in Nat /\ Len(stack) >= 1
    BY TopFacts
  <2> QED  BY <2>1, <2>2, <2>3
<1>3. /\ stack' \in Seq(Frame) /\ Len(stack') = Len(stack) - 1
      /\ Top' = stack[Len(stack) - 1]
      /\ Shapes' /\ CurrentExecutes' /\ RoundAscends' /\ Suspended'
  BY <1>1, <1>2, ReturnStep
<1>4. Top'.pc \notin {"fork_fs", "fork_shell", "fs_send", "code"}
  <2>1. Len(stack) - 1 \in 1 .. Len(stack) - 1
    BY <1>2, TopFacts
  <2> QED  BY <1>3, <2>1 DEF IInv, Suspended
<1>5. TypeOK'
  <2>1. Top.saved \in Slots
    BY TopFacts DEF Frame
  <2>2. Len(stack') >= 1
    BY <1>2, <1>3, TopFacts
  <2> QED  BY <1>1, <1>3, <2>1, <2>2 DEF TypeOK, IInv
<1>6. Boot' /\ Answering'
  <2>1. Top'.pc \in KernelPCs => Len(stack') = 1
    BY <1>2, <1>3, TopFacts DEF IInv, Shapes, FrameOK
  <2> QED  BY <1>4, <2>1 DEF Boot, Answering
<1>7. FsServerHoldsPid2' /\ NoMailToTheDead' /\ MailFollowsProtocol'
  BY <1>1 DEF IInv, FsServerHoldsPid2, NoMailToTheDead, MailFollowsProtocol, Pending
<1>8. LateAnswer' /\ DeadRequest'
  BY <1>1 DEF IInv, LateAnswer, DeadRequest, Pending
<1> QED  BY <1>3, <1>5, <1>6, <1>7, <1>8 DEF IInv

-----------------------------------------------------------------------------
(* Steps that send, receive or kill                                        *)

\* So does a yield of the waiting server.
LEMMA FsWaitInv == IInv /\ FsWait => IInv'
<1> SUFFICES ASSUME IInv, FsWait PROVE IInv'
  OBVIOUS
<1>1. /\ Top.pc = "fs_recv" /\ Top.spin < SpinLimit /\ ~ Received /\ RecvTurn
      /\ state' = state /\ entry' = entry /\ hint' = hint /\ files' = files
  BY DEF FsWait
<1>2. Top.me = ServerSlot
  BY <1>1, TopFacts DEF FrameOK, ServerPCs
<1>3. ~ Pending(ServerSlot)
  BY <1>1, <1>2, TopFacts, MailIsReceived DEF Received
<1>4. UNCHANGED <<procVars, files>> /\ sched_yield(state, current, Spun(Top))
  BY <1>1, <1>2, <1>3 DEF RecvTurn, procVars
<1>5. /\ Spun(Top) \in Frame /\ FrameOK(Spun(Top), files)
      /\ Spun(Top).slot = Top.slot /\ Spun(Top).saved = Top.saved
      /\ Spun(Top).pc = Top.pc
  BY <1>1, TopFacts, SpunFacts
<1> QED  BY <1>1, <1>3, <1>4, <1>5, QuietYieldInv

\* So does a yield of a caller that waits for its answer.
LEMMA RunWaitInv == IInv /\ RunWait => IInv'
<1> SUFFICES ASSUME IInv, RunWait PROVE IInv'
  OBVIOUS
<1>1. /\ Top.pc = "run_recv" /\ Top.spin < SpinLimit /\ ~ Received /\ RecvTurn
      /\ state' = state /\ entry' = entry /\ hint' = hint /\ files' = files
  BY DEF RunWait
<1>2. ~ Pending(Top.me)
  BY <1>1, TopFacts, MailIsReceived DEF Received
<1>3. UNCHANGED <<procVars, files>> /\ sched_yield(state, current, Spun(Top))
  BY <1>1, <1>2 DEF RecvTurn, procVars
<1>4. /\ Spun(Top) \in Frame /\ FrameOK(Spun(Top), files)
      /\ Spun(Top).slot = Top.slot /\ Spun(Top).saved = Top.saved
      /\ Spun(Top).pc = Top.pc
  BY <1>1, TopFacts, SpunFacts
<1> QED  BY <1>1, <1>2, <1>3, <1>4, QuietYieldInv

\* One turn of the loop of ipc_send in which the word is delivered to slot d.
LEMMA DeliverFacts ==
    ASSUME IInv, NEW d \in UserSlots, NEW m \in Int, proc_ipc_deliver(d, m, Pid(current)),
           state[d] = "READY", current # 0
    PROVE  /\ box' \in [Slots -> [msg : Int, from : 0 .. MaxProcs]]
           /\ box'[d] = [msg |-> m, from |-> Pid(current)]
           /\ SlotOf(box'[d].from) = current /\ Pending(d)'
           /\ \A s \in Slots \ {d} : box'[s] = box[s] /\ (Pending(s)' <=> Pending(s))
<1>1. box \in [Slots -> [msg : Int, from : 0 .. MaxProcs]] /\ d \in Slots
  BY TopFacts DEF IInv, TypeOK
<1>2. Pid(current) \in 0 .. MaxProcs /\ Pid(current) # 0 /\ SlotOf(Pid(current)) = current
  BY TopFacts, MaxProcsAssumption DEF Pid, SlotOf, Slots
<1> QED  BY <1>1, <1>2 DEF proc_ipc_deliver, Pending

\* So does a turn of ipc_send in vfs_run, which delivers or yields.
LEMMA RunSendInv == IInv /\ RunSend => IInv'
<1> SUFFICES ASSUME IInv, RunSend PROVE IInv'
  OBVIOUS
<1>1. /\ Top.pc = "run_send" /\ Top.spin < SpinLimit /\ SendTurn("run_recv")
      /\ state' = state /\ entry' = entry /\ hint' = hint /\ files' = files
  BY DEF RunSend
<1>2. /\ Top.to = ServerSlot /\ current # ServerSlot /\ current # 0
      /\ \E fd \in 0 .. files - 1 : Top.msg = RunRequest(fd)
  BY <1>1, TopFacts DEF FrameOK, KernelPCs, ServerPCs
<1>3. CASE Pending(ServerSlot)
  <2>1. UNCHANGED <<procVars, files>> /\ sched_yield(state, current, Spun(Top))
    BY <1>1, <1>2, <1>3 DEF SendTurn, procVars
  <2>2. /\ Spun(Top) \in Frame /\ FrameOK(Spun(Top), files)
        /\ Spun(Top).slot = Top.slot /\ Spun(Top).saved = Top.saved
        /\ Spun(Top).pc = Top.pc
    BY <1>1, TopFacts, SpunFacts
  <2> QED  BY <1>1, <2>1, <2>2, QuietYieldInv
<1>4. CASE ~ Pending(ServerSlot)
  <2> DEFINE f == At(Top, "run_recv")
  <2>1. /\ proc_ipc_deliver(ServerSlot, Top.msg, Pid(current))
        /\ Continue(f) /\ current' = current
    BY <1>1, <1>2, <1>4, TopFacts DEF SendTurn
  <2>2. /\ f \in Frame /\ FrameOK(f, files) /\ f.slot = Top.slot /\ f.saved = Top.saved
        /\ f.pc = "run_recv" /\ f.spin = 0 /\ f.me = current
    BY <1>1, TopFacts, KernelAssumption, AtFacts DEF PCs, ServerPCs, KernelPCs
  <2>3. state[ServerSlot] = "READY" /\ Top.msg \in Int
    BY <1>1, TopFacts DEF IInv, FsServerHoldsPid2, Frame
  <2>4. /\ box' \in [Slots -> [msg : Int, from : 0 .. MaxProcs]]
        /\ box'[ServerSlot] = [msg |-> Top.msg, from |-> Pid(current)]
        /\ SlotOf(box'[ServerSlot].from) = current
        /\ \A s \in Slots \ {ServerSlot} : box'[s] = box[s] /\ (Pending(s)' <=> Pending(s))
    BY <1>2, <2>1, <2>3, TopFacts, DeliverFacts
  <2> HIDE DEF f
  <2>5. /\ stack' \in Seq(Frame) /\ Len(stack') = Len(stack) /\ Top' = f
        /\ Shapes' /\ CurrentExecutes' /\ RoundAscends' /\ Suspended'
    BY <1>1, <2>1, <2>2, TopFacts, KernelAssumption, ContinueStep
  <2>6. TypeOK'
    BY <1>1, <2>1, <2>4, <2>5, TopFacts DEF TypeOK, IInv
  <2>7. Boot' /\ Answering'
    BY <2>2, <2>5 DEF Boot, Answering, KernelPCs
  <2>8. FsServerHoldsPid2'
    BY <1>1, <2>5 DEF IInv, FsServerHoldsPid2
  <2>9. NoMailToTheDead'
    BY <1>1, <2>3, <2>4, TopFacts DEF IInv, NoMailToTheDead
  <2>10. MailFollowsProtocol'
    <3>1. current \in UserSlots \ {ServerSlot}
      BY <1>2, TopFacts DEF Slots, UserSlots
    <3> QED  BY <1>1, <1>2, <2>4, <3>1 DEF IInv, MailFollowsProtocol
  <2>11. LateAnswer'
    BY <2>2, <2>4, <2>5 DEF LateAnswer
  <2>12. DeadRequest'
    BY <1>1, <2>4, TopFacts DEF DeadRequest
  <2> QED  BY <2>5, <2>6, <2>7, <2>8, <2>9, <2>10, <2>11, <2>12 DEF IInv
<1> QED  BY <1>3, <1>4

\* The owner of slot d takes its word.
LEMMA TakeFacts ==
    ASSUME IInv, NEW d \in Slots, proc_ipc_take(d)
    PROVE  /\ box' \in [Slots -> [msg : Int, from : 0 .. MaxProcs]]
           /\ ~ Pending(d)'
           /\ \A s \in Slots \ {d} : box'[s] = box[s] /\ (Pending(s)' <=> Pending(s))
<1>1. box \in [Slots -> [msg : Int, from : 0 .. MaxProcs]]
  BY DEF IInv, TypeOK
<1>2. NoMail \in [msg : Int, from : 0 .. MaxProcs]
  BY MaxProcsAssumption DEF NoMail
<1> QED  BY <1>1, <1>2 DEF proc_ipc_take, Pending, NoMail

\* So does the caller that takes its answer.
LEMMA RunReplyInv == IInv /\ RunReply => IInv'
<1> SUFFICES ASSUME IInv, RunReply PROVE IInv'
  OBVIOUS
<1> DEFINE f == At(Top, "code")
<1>1. /\ Top.pc = "run_recv" /\ proc_ipc_take(Top.me) /\ Continue(f)
      /\ state' = state /\ entry' = entry /\ hint' = hint
      /\ current' = current /\ files' = files
  BY DEF RunReply
<1>2. Top.me = current /\ current \in Slots
  BY TopFacts
<1>3. /\ f \in Frame /\ FrameOK(f, files) /\ f.slot = Top.slot /\ f.saved = Top.saved
      /\ f.pc = "code"
  BY <1>1, TopFacts, KernelAssumption, AtFacts DEF PCs, ServerPCs, KernelPCs
<1>4. /\ box' \in [Slots -> [msg : Int, from : 0 .. MaxProcs]]
      /\ ~ Pending(current)'
      /\ \A s \in Slots \ {current} : box'[s] = box[s] /\ (Pending(s)' <=> Pending(s))
  BY <1>1, <1>2, TakeFacts
<1> HIDE DEF f
<1>5. /\ stack' \in Seq(Frame) /\ Len(stack') = Len(stack) /\ Top' = f
      /\ Shapes' /\ CurrentExecutes' /\ RoundAscends' /\ Suspended'
  BY <1>1, <1>3, TopFacts, KernelAssumption, ContinueStep
<1>6. TypeOK'
  BY <1>1, <1>4, <1>5, TopFacts DEF TypeOK, IInv
<1>7. Boot' /\ Answering'
  BY <1>3, <1>5 DEF Boot, Answering, KernelPCs
<1>8. FsServerHoldsPid2' /\ NoMailToTheDead' /\ MailFollowsProtocol'
  BY <1>1, <1>4, <1>5 DEF IInv, FsServerHoldsPid2, NoMailToTheDead, MailFollowsProtocol
<1>9. Pending(ServerSlot)' => /\ Pending(ServerSlot) /\ box'[ServerSlot] = box[ServerSlot]
                              /\ SlotOf(box[ServerSlot].from) \in Slots
  <2>1. current # ServerSlot /\ ServerSlot \in Slots
    BY <1>1, TopFacts DEF FrameOK, ServerPCs
  <2>2. Pending(ServerSlot) => SlotOf(box[ServerSlot].from) \in Slots
    BY <2>1, TopFacts, MailIsReceived
  <2> QED  BY <1>4, <2>1, <2>2
<1>10. LateAnswer'
  <2>1. SUFFICES ASSUME Pending(ServerSlot)', Pending(SlotOf(box[ServerSlot].from))'
                 PROVE  FALSE
    BY DEF LateAnswer
  <2> DEFINE q == SlotOf(box[ServerSlot].from)
  <2>2. Pending(ServerSlot) /\ box'[ServerSlot] = box[ServerSlot] /\ q \in Slots
    BY <1>9, <2>1
  <2>3. box'[SlotOf(box'[ServerSlot].from)].from # 0
    BY <2>1 DEF Pending
  <2>4. box'[q].from # 0
    BY <2>2, <2>3
  <2> HIDE DEF q
  <2>5. Pending(q) /\ q # current
    BY <1>1, <1>4, <2>2, <2>4 DEF Pending
  <2> QED  BY <1>2, <2>2, <2>5 DEF IInv, LateAnswer, q
<1>11. DeadRequest'
  BY <1>1, <1>9 DEF IInv, DeadRequest
<1> QED  BY <1>5, <1>6, <1>7, <1>8, <1>10, <1>11 DEF IInv

\* So does the server that takes a request and runs the file.
LEMMA FsRequestInv == IInv /\ FsRequest => IInv'
<1> SUFFICES ASSUME IInv, FsRequest PROVE IInv'
  OBVIOUS
<1> DEFINE p == box[ServerSlot].from
           f == IF ValidDest(p) THEN Sending(Top, "fs_send", p, 0) ELSE At(Top, "fs_recv")
<1>1. /\ Top.pc = "fs_recv" /\ Received /\ proc_ipc_take(Top.me)
      /\ state' = state /\ entry' = entry /\ hint' = hint
      /\ current' = current /\ files' = files
  BY DEF FsRequest
<1>2. Top.me = ServerSlot /\ current = ServerSlot /\ ServerSlot \in Slots
  BY <1>1, TopFacts DEF FrameOK, ServerPCs
<1>3. Pending(ServerSlot)
  BY <1>1, <1>2 DEF Received
<1>4. /\ SlotOf(p) \in UserSlots \ {ServerSlot}
      /\ \E fd \in 0 .. files - 1 : box[ServerSlot].msg = RunRequest(fd)
  BY <1>2, <1>3 DEF IInv, MailFollowsProtocol
<1>5. PICK fd \in 0 .. files - 1 : box[ServerSlot].msg = RunRequest(fd)
  BY <1>4
<1>6. /\ OpOf(box[ServerSlot].msg) = IPC_OP_RUN
      /\ tfs_run_fd(FdOf(box[ServerSlot].msg)) = 0
  <2>1. fd \in Nat /\ fd \in 0 .. MaxFiles - 1 /\ fd < files
    BY TopFacts, KernelAssumption
  <2>2. FdOf(RunRequest(fd)) = fd /\ OpOf(RunRequest(fd)) = IPC_OP_RUN
    BY <2>1, RequestWord, RequestHandle
  <2> QED  BY <1>5, <2>1, <2>2 DEF tfs_run_fd
<1>7. Continue(f)
  BY <1>1, <1>2, <1>6 DEF FsRequest, Answer
<1>8. /\ f \in Frame /\ f.slot = Top.slot /\ f.saved = Top.saved /\ FrameOK(f, files)
      /\ f.pc \in {"fs_send", "fs_recv"}
      /\ f.pc = "fs_send" => f.to = SlotOf(p) /\ state[SlotOf(p)] = "READY"
  <2>1. CASE ValidDest(p)
    <3>1. /\ f.slot = Top.slot /\ f.saved = Top.saved /\ f.pc = "fs_send" /\ f.me = current
          /\ f.to = SlotOf(p) /\ f.msg = 0
      BY <2>1, TopFacts DEF Sending, Enter
    <3>2. f \in Frame
      <4>1. /\ Top.saved \in Slots /\ Top.slot \in Slots /\ SlotOf(p) \in Slots
            /\ 0 \in 0 .. SpinLimit
        BY <1>4, TopFacts, KernelAssumption DEF Frame
      <4> QED  BY <2>1, <4>1, TopFacts DEF Sending, Enter, Frame, PCs
    <3>3. state[SlotOf(p)] = "READY"
      BY <1>4, <2>1, TopFacts DEF ValidDest, IInv, TypeOK
    <3> HIDE DEF f, p
    <3>4. FrameOK(f, files)
      BY <1>2, <1>4, <3>1, TopFacts DEF FrameOK, KernelPCs, ServerPCs
    <3> QED  BY <3>1, <3>2, <3>3, <3>4
  <2>2. CASE ~ ValidDest(p)
    BY <1>1, <2>2, TopFacts, KernelAssumption, AtFacts DEF PCs, ServerPCs, KernelPCs
  <2> QED  BY <2>1, <2>2
<1>9. /\ box' \in [Slots -> [msg : Int, from : 0 .. MaxProcs]]
      /\ ~ Pending(ServerSlot)'
      /\ \A s \in Slots \ {ServerSlot} : box'[s] = box[s] /\ (Pending(s)' <=> Pending(s))
  BY <1>1, <1>2, TakeFacts
<1>10. ~ Pending(SlotOf(p))
  BY <1>1, <1>3 DEF IInv, LateAnswer
<1> HIDE DEF f, p
<1>11. /\ stack' \in Seq(Frame) /\ Len(stack') = Len(stack) /\ Top' = f
       /\ Shapes' /\ CurrentExecutes' /\ RoundAscends' /\ Suspended'
  BY <1>1, <1>7, <1>8, TopFacts, KernelAssumption, ContinueStep
<1>12. TypeOK'
  BY <1>1, <1>9, <1>11, TopFacts DEF TypeOK, IInv
<1>13. Boot'
  BY <1>8, <1>11 DEF Boot, KernelPCs
<1>14. FsServerHoldsPid2' /\ NoMailToTheDead' /\ MailFollowsProtocol'
  BY <1>1, <1>9, <1>11 DEF IInv, FsServerHoldsPid2, NoMailToTheDead, MailFollowsProtocol
<1>15. Answering'
  BY <1>1, <1>4, <1>8, <1>9, <1>10, <1>11, TopFacts DEF Answering
<1>16. LateAnswer' /\ DeadRequest'
  BY <1>9 DEF LateAnswer, DeadRequest
<1> QED  BY <1>11, <1>12, <1>13, <1>14, <1>15, <1>16 DEF IInv

\* So does the answer of the server.
LEMMA FsReplyInv == IInv /\ FsReply => IInv'
<1> SUFFICES ASSUME IInv, FsReply PROVE IInv'
  OBVIOUS
<1> DEFINE f == At(Top, "fs_recv")
<1>1. /\ Top.pc = "fs_send" /\ ~ Pending(ServerSlot) /\ ~ Pending(Top.to)
      /\ state[Top.to] = "READY"
      /\ state' = state /\ entry' = entry /\ hint' = hint /\ files' = files
  BY DEF FsReply, IInv, Answering
<1>2. /\ Top.to \in UserSlots \ {ServerSlot} /\ Top.msg = 0
      /\ current = ServerSlot /\ Top.me = ServerSlot
  BY <1>1, TopFacts DEF FrameOK, ServerPCs
<1>3. /\ f \in Frame /\ FrameOK(f, files) /\ f.slot = Top.slot /\ f.saved = Top.saved
      /\ f.pc = "fs_recv"
  BY <1>1, TopFacts, KernelAssumption, AtFacts DEF PCs, ServerPCs, KernelPCs
<1>4. CASE Top.spin < SpinLimit
  <2>1. /\ proc_ipc_deliver(Top.to, 0, Pid(current)) /\ Continue(f) /\ current' = current
    BY <1>1, <1>2, <1>4 DEF FsReply, SendTurn
  <2>2. /\ box' \in [Slots -> [msg : Int, from : 0 .. MaxProcs]]
        /\ box'[Top.to] = [msg |-> 0, from |-> FS_SERVER_PID]
        /\ \A s \in Slots \ {Top.to} : box'[s] = box[s] /\ (Pending(s)' <=> Pending(s))
    <3>1. Pid(current) = FS_SERVER_PID /\ current # 0 /\ 0 \in Int
      BY <1>2, TopFacts DEF Pid, FS_SERVER_PID
    <3> QED  BY <1>1, <1>2, <2>1, <3>1, DeliverFacts
  <2> HIDE DEF f
  <2>3. /\ stack' \in Seq(Frame) /\ Len(stack') = Len(stack) /\ Top' = f
        /\ Shapes' /\ CurrentExecutes' /\ RoundAscends' /\ Suspended'
    BY <1>1, <1>3, <2>1, TopFacts, KernelAssumption, ContinueStep
  <2>4. TypeOK'
    BY <1>1, <2>1, <2>2, <2>3, TopFacts DEF TypeOK, IInv
  <2>5. Boot' /\ Answering'
    BY <1>3, <2>3 DEF Boot, Answering, KernelPCs
  <2>6. FsServerHoldsPid2'
    BY <1>1, <2>3 DEF IInv, FsServerHoldsPid2
  <2>7. NoMailToTheDead'
    BY <1>1, <1>2, <2>2, TopFacts DEF IInv, NoMailToTheDead
  <2>8. ~ Pending(ServerSlot)'
    BY <1>1, <1>2, <2>2, TopFacts
  <2>10. MailFollowsProtocol'
    <3>1. SUFFICES ASSUME NEW s \in Slots, Pending(s)', s # ServerSlot
                   PROVE  box'[s] = [msg |-> 0, from |-> FS_SERVER_PID]
      BY <2>8 DEF MailFollowsProtocol
    <3>2. CASE s = Top.to
      BY <2>2, <3>2
    <3>3. CASE s # Top.to
      BY <2>2, <3>1, <3>3 DEF IInv, MailFollowsProtocol
    <3> QED  BY <3>2, <3>3
  <2>9. LateAnswer' /\ DeadRequest'
    BY <2>8 DEF LateAnswer, DeadRequest
  <2> QED  BY <2>3, <2>4, <2>5, <2>6, <2>7, <2>9, <2>10 DEF IInv
<1>5. CASE ~ (Top.spin < SpinLimit)
  <2>1. Continue(f) /\ current' = current /\ UNCHANGED procVars
    BY <1>1, <1>5 DEF FsReply, procVars
  <2>2. files \in files .. MaxFiles
    BY TopFacts, KernelAssumption
  <2> HIDE DEF f
  <2> QED  BY <1>1, <1>3, <2>1, <2>2, QuietContinueInv
<1> QED  BY <1>4, <1>5

\* So does SYS_EXIT: slot and mailbox are freed and another process is entered.
LEMMA SysExitInv == IInv /\ SysExit => IInv'
<1> SUFFICES ASSUME IInv, SysExit PROVE IInv'
  OBVIOUS
<1> DEFINE f == At(Top, "exited")
<1>1. /\ Top.pc = "code" /\ proc_exit(current) /\ sched_yield(state', 0, f)
      /\ files' = files
  BY DEF SysExit
<1>2. /\ current \in UserSlots \ {ServerSlot} /\ current # 0
  BY <1>1, TopFacts DEF FrameOK, KernelPCs, ServerPCs, Slots, UserSlots
<1>3. /\ state' = [state EXCEPT ![current] = "FREE"]
      /\ entry' = [entry EXCEPT ![current] = NoEntry]
      /\ box' = [box EXCEPT ![current] = NoMail] /\ hint' = hint
  BY <1>1, <1>2 DEF proc_exit
<1>4. /\ state \in [Slots -> {"FREE", "READY"}] /\ entry \in [Slots -> Entries \cup {NoEntry}]
      /\ proc_ipc_take(current)
  BY <1>3 DEF IInv, TypeOK, proc_ipc_take
<1>5. /\ f \in Frame /\ FrameOK(f, files) /\ f.slot = Top.slot /\ f.saved = Top.saved
      /\ f.pc = "exited"
  BY <1>1, TopFacts, KernelAssumption, AtFacts DEF PCs, ServerPCs, KernelPCs
<1> HIDE DEF f
<1>6. /\ entry[ServerSlot] = Server /\ state'[ServerSlot] = "READY"
      /\ ServerSlot \in ReadySlots(state')
  BY <1>1, <1>2, <1>3, <1>4, TopFacts DEF IInv, FsServerHoldsPid2, ReadySlots
<1>7. PICK s \in UserSlots :
        /\ IsNextReady(state', 0, s)
        /\ current' = s
        /\ stack' = Append([stack EXCEPT ![Len(stack)] = f],
                           Activation(s, 0, EntryPoint(entry[s])))
  BY <1>1, <1>6 DEF sched_yield
<1>8. s = ServerSlot
  <2>1. RingDistance(0, s) <= RingDistance(0, ServerSlot)
    BY <1>6, <1>7 DEF IsNextReady
  <2> QED  BY <2>1, TopFacts, MaxProcsAssumption DEF RingDistance, UserSlots
<1>9. /\ stack' \in Seq(Frame) /\ Len(stack') = Len(stack) + 1
      /\ Top' = Activation(ServerSlot, 0, EntryPoint(Server))
      /\ Shapes' /\ CurrentExecutes' /\ RoundAscends' /\ Suspended'
  <2>1. 0 \in Slots
    BY MaxProcsAssumption DEF Slots
  <2> QED  BY <1>1, <1>5, <1>6, <1>7, <1>8, <2>1, CallStep
<1>10. Top'.pc = "fs_recv" /\ Top'.spin = 0
  BY <1>9 DEF Activation, EntryPoint
<1>11. /\ box' \in [Slots -> [msg : Int, from : 0 .. MaxProcs]]
       /\ ~ (box'[current].from # 0)
       /\ \A t \in Slots \ {current} : box'[t] = box[t] /\ (Pending(t)' <=> Pending(t))
       /\ current \in Slots
  BY <1>3, <1>4, TopFacts, TakeFacts DEF NoMail, IInv, TypeOK
<1>12. TypeOK'
  BY <1>1, <1>3, <1>4, <1>7, <1>9, <1>11, TopFacts DEF TypeOK, IInv
<1>13. Boot' /\ Answering'
  BY <1>10 DEF Boot, Answering, KernelPCs
<1>14. FsServerHoldsPid2'
  BY <1>1, <1>2, <1>3, <1>4, TopFacts DEF IInv, FsServerHoldsPid2, NoEntry, Server
<1>16. \A t \in Slots : Pending(t)' => t # current /\ Pending(t) /\ box'[t] = box[t]
  BY <1>11 DEF Pending
<1>17. NoMailToTheDead'
  BY <1>2, <1>3, <1>4, <1>16 DEF IInv, NoMailToTheDead
<1>18. MailFollowsProtocol'
  BY <1>1, <1>16 DEF IInv, MailFollowsProtocol
<1>19. LateAnswer'
  <2>1. SUFFICES ASSUME Pending(ServerSlot)', Pending(SlotOf(box[ServerSlot].from))'
                 PROVE  FALSE
    BY DEF LateAnswer
  <2> DEFINE q == SlotOf(box[ServerSlot].from)
  <2>2. Pending(ServerSlot) /\ box'[ServerSlot] = box[ServerSlot] /\ q \in Slots
    BY <1>16, <2>1, TopFacts, MailIsReceived
  <2>3. box'[SlotOf(box'[ServerSlot].from)].from # 0
    BY <2>1 DEF Pending
  <2>4. box'[q].from # 0
    BY <2>2, <2>3
  <2> HIDE DEF q
  <2>5. Pending(q)
    BY <1>11, <2>2, <2>4 DEF Pending
  <2> QED  BY <1>1, <2>2, <2>5 DEF IInv, LateAnswer, q
<1>20. DeadRequest'
  BY <1>10 DEF DeadRequest
<1> QED  BY <1>9, <1>12, <1>13, <1>14, <1>17, <1>18, <1>19, <1>20 DEF IInv
-----------------------------------------------------------------------------
(* The invariant                                                           *)

\* Every step of the kernel preserves the invariant.
LEMMA NextInv == IInv /\ [Next]_vars => IInv'
<1> SUFFICES ASSUME IInv, [Next]_vars PROVE IInv'
  OBVIOUS
<1>1. CASE KernelMain
  BY <1>1, ForkFsServerInv, ForkShellInv, IdleInv DEF KernelMain
<1>2. CASE FsServer
  BY <1>2, FsRequestInv, FsWaitInv, FsIdleInv, FsReplyInv DEF FsServer
<1>3. CASE UserProgram
  BY <1>3, SysForkInv, SysExitInv, SysCreateInv, SysRunInv, RunSendInv, RunGivesUpInv,
     RunReplyInv, RunWaitInv, ReturnInv DEF UserProgram
<1>4. CASE UNCHANGED vars
  <2>1. /\ state' = state /\ entry' = entry /\ box' = box /\ hint' = hint
        /\ current' = current /\ stack' = stack /\ files' = files
    BY <1>4 DEF vars, procVars, kernelVars
  <2>2. Top' = Top
    BY <2>1 DEF Top
  <2> QED  BY <2>1, <2>2 DEF IInv, TypeOK, Boot, FsServerHoldsPid2, Shapes, CurrentExecutes,
              RoundAscends, Suspended, NoMailToTheDead, MailFollowsProtocol, Answering,
              LateAnswer, DeadRequest, Pending, Buried
<1> QED  BY <1>1, <1>2, <1>3, <1>4 DEF Next

\* In every reachable state the inductive invariant holds: the only processes that can
\* still run form one rising round of yields above the latest server activation.
THEOREM Invariant == Spec => []IInv
<1>1. Init => IInv
  BY InitInv
<1>2. IInv /\ [Next]_vars => IInv'
  BY NextInv
<1> QED  BY <1>1, <1>2, PTL DEF Spec

-----------------------------------------------------------------------------
(* The invariants                                                          *)

\* Every variable keeps its type.
THEOREM TypeCorrect == Spec => []TypeOK
<1>1. IInv => TypeOK
  BY DEF IInv
<1> QED  BY <1>1, Invariant, PTL

\* The FS server, and nothing else, runs as pid 2, whatever exits and forks.
THEOREM ServerIsPid2 == Spec => []FsServerHoldsPid2
<1>1. IInv => FsServerHoldsPid2
  BY DEF IInv
<1> QED  BY <1>1, Invariant, PTL

\* g_current is the slot of the executing activation, and alive.
THEOREM CurrentIsTop == Spec => []CurrentExecutes
<1>1. IInv => CurrentExecutes
  BY DEF IInv
<1> QED  BY <1>1, Invariant, PTL

\* Above the latest server activation the slots rise, and each caller is alive.
THEOREM Rounds == Spec => []RoundAscends
<1>1. IInv => RoundAscends
  BY DEF IInv
<1> QED  BY <1>1, Invariant, PTL

\* ipc_send never leaves a word in the mailbox of a FREE slot.
THEOREM MailOfTheLiving == Spec => []NoMailToTheDead
<1>1. IInv => NoMailToTheDead
  BY DEF IInv
<1> QED  BY <1>1, Invariant, PTL

\* Every waiting word is a well-formed request or the server's answer 0; so -1, which
\* ipc_recv cannot tell from an empty mailbox, is never sent.
THEOREM Protocol == Spec => []MailFollowsProtocol
<1>1. IInv => MailFollowsProtocol
  BY DEF IInv
<1> QED  BY <1>1, Invariant, PTL

\* Only the first turn of an ipc_recv finds an answer while a request of its process waits.
THEOREM StaleAnswers == Spec => []LateAnswer
<1>1. IInv => LateAnswer
  BY DEF IInv
<1> QED  BY <1>1, Invariant, PTL

\* The receiver of an answer has room for it: fs_server_loop never drops one.
THEOREM Rendezvous == Spec => []ServerNeverWaits
<1>1. IInv => ServerNeverWaits
  BY DEF IInv, Answering, LateAnswer, ServerNeverWaits
<1> QED  BY <1>1, Invariant, PTL

-----------------------------------------------------------------------------
(* What is buried stays so                                                 *)

\* A step leaves what is below the top alone, and a server activation on the top too.
StackGrows ==
    /\ stack' \in Seq(Frame) /\ Len(stack') >= Len(stack) - 1
    /\ \A i \in 1 .. Len(stack) - 1 : Len(stack') >= i => stack'[i] = stack[i]
    /\ Top.slot = ServerSlot =>
         Len(stack') >= Len(stack) /\ stack'[Len(stack)].slot = ServerSlot

\* A step of the executing activation changes nothing below it.
LEMMA ContinueGrows ==
    ASSUME IInv, IInv', NEW f, Continue(f), f.slot = Top.slot
    PROVE  StackGrows
<1>1. /\ stack \in Seq(Frame) /\ Len(stack) \in Nat /\ Len(stack) >= 1
      /\ stack' \in Seq(Frame) /\ Len(stack') \in Nat
  <2>1. TypeOK /\ TypeOK'
    BY DEF IInv
  <2>2. stack \in Seq(Frame) /\ Len(stack) >= 1 /\ stack' \in Seq(Frame)
    BY <2>1 DEF TypeOK
  <2> QED  BY <2>2
<1>2. DOMAIN stack' = DOMAIN stack
  BY DEF Continue
<1>3. Len(stack') = Len(stack)
  BY <1>1, <1>2
<1>4. stack'[Len(stack)] = f /\ \A i \in 1 .. Len(stack) - 1 : stack'[i] = stack[i]
  BY <1>1 DEF Continue
<1> QED  BY <1>1, <1>3, <1>4 DEF StackGrows

\* sched_yield changes nothing below its caller.
LEMMA YieldGrows ==
    ASSUME IInv, IInv', NEW st, NEW cur \in Slots, NEW f \in Frame,
           sched_yield(st, cur, f), f.slot = Top.slot
    PROVE  StackGrows
<1>1. /\ stack \in Seq(Frame) /\ Len(stack) \in Nat /\ Len(stack) >= 1
      /\ stack' \in Seq(Frame) /\ Len(stack') \in Nat
  <2>1. TypeOK /\ TypeOK'
    BY DEF IInv
  <2>2. stack \in Seq(Frame) /\ Len(stack) >= 1 /\ stack' \in Seq(Frame)
    BY <2>1 DEF TypeOK
  <2> QED  BY <2>2
<1>2. CASE ReadySlots(st) = {}
  BY <1>2, ContinueGrows DEF sched_yield
<1>3. CASE ReadySlots(st) # {}
  <2>1. PICK s \in UserSlots :
          stack' = Append([stack EXCEPT ![Len(stack)] = f],
                          Activation(s, cur, EntryPoint(entry[s])))
    BY <1>3 DEF sched_yield
  <2>2. Activation(s, cur, EntryPoint(entry[s])) \in Frame
    BY KernelAssumption, MaxProcsAssumption
       DEF Activation, EntryPoint, Frame, PCs, Slots, UserSlots
  <2>3. /\ Len(stack') = Len(stack) + 1 /\ stack'[Len(stack)] = f
        /\ \A i \in 1 .. Len(stack) - 1 : stack'[i] = stack[i]
    BY <1>1, <2>1, <2>2, CallFacts
  <2> QED  BY <1>1, <2>3 DEF StackGrows
<1> QED  BY <1>2, <1>3

\* No step removes or changes what is below an activation of the server.
LEMMA NextGrows == IInv /\ IInv' /\ Next => StackGrows
<1> SUFFICES ASSUME IInv, IInv', Next PROVE StackGrows
  OBVIOUS
<1>1. Top \in Frame /\ current \in Slots /\ 0 \in Slots
  BY TopFacts, MaxProcsAssumption DEF Slots
<1>2. stack' = stack => StackGrows
  BY TopFacts DEF StackGrows, Top
<1>3. ASSUME NEW pc, Continue(At(Top, pc)) PROVE StackGrows
  <2>1. At(Top, pc).slot = Top.slot
    BY DEF At, Enter
  <2> QED  BY <1>3, <2>1, ContinueGrows
<1>4. Top.spin < SpinLimit /\ sched_yield(state, current, Spun(Top)) => StackGrows
  BY <1>1, TopFacts, SpunFacts, YieldGrows
<1>5. ASSUME NEW pc, SendTurn(pc), Top.spin < SpinLimit PROVE StackGrows
  BY <1>5, <1>3, <1>4 DEF SendTurn
<1>6. RecvTurn /\ Top.spin < SpinLimit => StackGrows
  BY <1>4 DEF RecvTurn
<1>7. ASSUME NEW p, NEW r, Answer(p, r) PROVE StackGrows
  <2>1. /\ Sending(Top, "fs_send", p, r).slot = Top.slot
        /\ At(Top, "fs_recv").slot = Top.slot
    BY DEF Sending, At, Enter
  <2> QED  BY <1>7, <2>1, ContinueGrows DEF Answer
<1>8. CASE KernelMain
  <2>1. Idle => StackGrows
    BY <1>1, YieldGrows DEF Idle
  <2> QED  BY <1>8, <1>3, <2>1 DEF KernelMain, ForkFsServer, ForkShell
<1>9. CASE FsServer
  <2>1. FsRequest \/ FsIdle => StackGrows
    BY <1>7 DEF FsRequest, FsIdle
  <2>2. FsWait => StackGrows
    BY <1>6 DEF FsWait
  <2>3. FsReply => StackGrows
    BY <1>5, <1>3 DEF FsReply
  <2> QED  BY <1>9, <2>1, <2>2, <2>3 DEF FsServer
<1>10. CASE SysExit
  <2>1. At(Top, "exited") \in Frame
    BY <1>10, TopFacts, AtFacts, KernelAssumption DEF SysExit, PCs, ServerPCs, KernelPCs
  <2>2. sched_yield(state', 0, At(Top, "exited"))
    BY <1>10 DEF SysExit
  <2>3. At(Top, "exited").slot = Top.slot
    BY DEF At, Enter
  <2> QED  BY <1>1, <2>1, <2>2, <2>3, YieldGrows
<1>11. CASE SysRun
  <2>1. ASSUME NEW fd \in 0 .. MaxFiles - 1,
               Continue(Sending(Top, "run_send", FS_SERVER_PID, RunRequest(fd)))
        PROVE  StackGrows
    <3>1. Sending(Top, "run_send", FS_SERVER_PID, RunRequest(fd)).slot = Top.slot
      BY DEF Sending, Enter
    <3> QED  BY <2>1, <3>1, ContinueGrows
  <2> QED  BY <1>2, <1>11, <2>1 DEF SysRun
<1>12. CASE Return
  <2>1. Top.pc = "code" /\ stack' = SubSeq(stack, 1, Len(stack) - 1)
    BY <1>12 DEF Return
  <2>2. Top.slot # ServerSlot /\ Top.slot # 0
    BY <2>1, TopFacts DEF FrameOK, KernelPCs, ServerPCs
  <2>3. Len(stack) >= 2
    BY <2>2, TopFacts DEF IInv, Shapes, Top
  <2> QED  BY <2>1, <2>2, <2>3, TopFacts, ReturnFacts DEF StackGrows
<1>13. CASE RunSend \/ RunWait
  BY <1>5, <1>6, <1>13 DEF RunSend, RunWait
<1>14. CASE SysFork \/ SysCreate
  BY <1>2, <1>14 DEF SysFork, SysCreate, kernelVars
<1>15. CASE RunLocally \/ RunReply \/ RunTimeout
  BY <1>15, <1>3 DEF RunLocally, RunReply, RunTimeout
<1> QED  BY <1>8, <1>9, <1>10, <1>11, <1>12, <1>13, <1>14, <1>15 DEF Next, UserProgram

\* An activation below one of the FS server never executes again.
THEOREM BuriedStaysBuried == Spec => BuriedForGood
<1> DEFINE A == \A i \in 1 .. Len(stack) : Buried(i) =>
                  i < Len(stack') /\ stack'[i] = stack[i] /\ Buried(i)'
<1>1. IInv /\ IInv' /\ [Next]_vars => A \/ UNCHANGED vars
  <2> SUFFICES ASSUME IInv, IInv', Next PROVE A
    OBVIOUS
  <2>1. SUFFICES ASSUME NEW i \in 1 .. Len(stack), NEW j \in i + 1 .. Len(stack),
                        stack[j].slot = ServerSlot
                 PROVE  i < Len(stack') /\ stack'[i] = stack[i] /\ Buried(i)'
    BY DEF Buried
  <2>2. StackGrows /\ stack \in Seq(Frame) /\ Len(stack) \in Nat
    BY NextGrows, TopFacts
  <2>3. j \in i + 1 .. Len(stack') /\ stack'[j].slot = ServerSlot
    <3>1. CASE j = Len(stack)
      BY <2>1, <2>2, <3>1 DEF StackGrows, Top
    <3>2. CASE j # Len(stack)
      BY <2>1, <2>2, <3>2 DEF StackGrows
    <3> QED  BY <3>1, <3>2
  <2> QED  BY <2>1, <2>2, <2>3 DEF StackGrows, Buried
<1>2. [][A \/ UNCHANGED vars]_vars => [][A]_vars
  BY PTL
<1> QED  BY <1>1, <1>2, Invariant, PTL DEF Spec, BuriedForGood
-----------------------------------------------------------------------------
(* Slots that are reused                                                   *)

\* kernel_fork never gives away the pid that a run request under way is to be
\* answered to.
THEOREM NoReuse == Spec => NoReuseUnderRequest
<1> DEFINE A == \A s \in UserSlots : state[s] = "FREE" /\ state'[s] = "READY" =>
                  /\ box[ServerSlot].from # Pid(s)
                  /\ \A i \in 1 .. Len(stack) :
                       stack[i].pc = "fs_send" /\ ~ Buried(i) => stack[i].to # s
<1>1. IInv /\ [Next]_vars => A \/ UNCHANGED vars
  <2> SUFFICES ASSUME IInv, Next, NEW s \in UserSlots, state[s] = "FREE", state'[s] = "READY"
               PROVE  /\ box[ServerSlot].from # Pid(s)
                      /\ \A i \in 1 .. Len(stack) :
                           stack[i].pc = "fs_send" /\ ~ Buried(i) => stack[i].to # s
    OBVIOUS
  <2>1. Top.pc \in {"fork_fs", "fork_shell", "code"}
    <3>1. state' # state
      OBVIOUS
    <3>2. ForkFsServer \/ ForkShell \/ SysFork \/ SysExit
      BY <3>1 DEF Next, KernelMain, FsServer, UserProgram, Idle, FsRequest, FsWait, FsIdle,
           FsReply, SysCreate, SysRun, RunSend, RunLocally, RunReply, RunWait, RunTimeout,
           Return, procVars
    <3> QED  BY <3>2 DEF ForkFsServer, ForkShell, SysFork, SysExit
  <2>2. ASSUME box[ServerSlot].from = Pid(s) PROVE FALSE
    <3>1. Pending(ServerSlot) /\ SlotOf(box[ServerSlot].from) = s
      BY <2>2, MaxProcsAssumption DEF Pending, Pid, SlotOf, UserSlots
    <3> QED  BY <2>1, <3>1 DEF IInv, DeadRequest
  <2>3. \A i \in 1 .. Len(stack) : stack[i].pc # "fs_send"
    BY <2>1, TopFacts DEF IInv, Suspended, Top
  <2> QED  BY <2>2, <2>3
<1>2. [][A \/ UNCHANGED vars]_vars => [][A]_vars
  BY PTL
<1> QED  BY <1>1, <1>2, Invariant, PTL DEF Spec, NoReuseUnderRequest

-----------------------------------------------------------------------------
(* The calls of ipc_send and ipc_recv that can still continue              *)

\* What activation f does in the IPC: the call of ipc_send it is in, and whether it is
\* in ipc_recv.
CallsOf(f)  == IF f.pc \in {"run_send", "fs_send"} THEN {<<f.to, f.msg>>} ELSE {}
Receives(f) == f.pc \in {"run_recv", "fs_recv"}

Listening == {stack[i].slot : i \in InReceive}

\* No process has a second activation that can still continue beside the executing one:
\* the slots rise, and an activation of the server buries the others.
LEMMA LiveBelow ==
    ASSUME IInv, NEW i \in 1 .. Len(stack) - 1, ~ Buried(i)
    PROVE  stack[i].slot # Top.slot
<1>1. PICK n \in Nat : n = Len(stack) /\ n >= 1
  BY TopFacts
<1>2. ASSUME NEW j \in 1 .. n PROVE stack[j].slot \in Int
  <2>1. stack[j] \in Frame
    BY <1>1, TopFacts
  <2>2. stack[j].slot \in Slots
    BY <2>1 DEF Frame
  <2> QED  BY <2>2, MaxProcsAssumption DEF Slots
<1> DEFINE T == {k \in 0 .. n - 1 :
                   ~ Buried(n - k) => /\ stack[n - k].slot <= Top.slot
                                      /\ k > 0 => stack[n - k].slot < Top.slot}
<1>3. 0 \in T
  BY <1>1, <1>2 DEF Top
<1>4. ASSUME NEW k \in 1 .. n - 1, k - 1 \in T PROVE k \in T
  <2>1. /\ n - k \in 1 .. Len(stack) - 1 /\ (n - k) + 1 = n - (k - 1)
        /\ n - (k - 1) \in 1 .. n
    BY <1>1
  <2>2. ASSUME ~ Buried(n - k)
        PROVE  ~ Buried(n - (k - 1)) /\ stack[n - (k - 1)].slot # ServerSlot
    BY <1>1, <2>1, <2>2 DEF Buried
  <2>3. ASSUME ~ Buried(n - k) PROVE stack[n - k].slot < Top.slot
    <3>1. stack[n - (k - 1)].slot <= Top.slot
      BY <1>4, <2>2, <2>3
    <3>2. stack[n - k].slot < stack[n - (k - 1)].slot
      BY <2>1, <2>2, <2>3 DEF IInv, RoundAscends
    <3>3. stack[n - k].slot \in Int /\ stack[n - (k - 1)].slot \in Int /\ Top.slot \in Int
      BY <1>1, <1>2, <2>1 DEF Top
    <3> QED  BY <3>1, <3>2, <3>3
  <2>4. stack[n - k].slot \in Int /\ Top.slot \in Int
    BY <1>1, <1>2, <2>1 DEF Top
  <2>5. ~ Buried(n - k) => stack[n - k].slot <= Top.slot
    BY <2>3, <2>4
  <2>6. k \in 0 .. n - 1
    BY <1>1
  <2> QED  BY <2>3, <2>5, <2>6
<1> HIDE DEF T
<1>5. \A k \in 0 .. n - 1 : k \in T
  <2>1. PICK l \in Nat : l = n - 1
    BY <1>1
  <2>2. \A k \in 1 .. l : k - 1 \in T => k \in T
    BY <1>4, <2>1
  <2>3. \A k \in 0 .. l : k \in T
    BY <1>3, <2>2, UpTo
  <2> QED  BY <2>1, <2>3
<1>6. n - i \in 0 .. n - 1 /\ n - i > 0 /\ n - (n - i) = i
  BY <1>1
<1>7. n - i \in T
  BY <1>5, <1>6
<1>8. stack[i].slot < Top.slot
  BY <1>6, <1>7 DEF T
<1>9. stack[i].slot \in Int /\ Top.slot \in Int
  BY <1>1, <1>2 DEF Top
<1> QED  BY <1>8, <1>9

\* The executing process is in the calls of its top activation.
LEMMA TopCalls ==
    ASSUME IInv
    PROVE  /\ Len(stack) \in Live
           /\ \A i \in Live : stack[i].slot = current => i = Len(stack)
           /\ Sends(current) = CallsOf(Top)
           /\ current \in Listening <=> Receives(Top)
<1>1. PICK n \in Nat : n = Len(stack) /\ n >= 1
  BY TopFacts
<1>2. n \in Live
  BY <1>1 DEF Live, Buried
<1>3. \A i \in Live : stack[i].slot = current => i = n
  BY <1>1, LiveBelow, TopFacts DEF Live
<1>4. stack[n] = Top /\ Top.slot = current
  BY <1>1, TopFacts DEF Top
<1>5. Sends(current) = CallsOf(Top)
  BY <1>2, <1>3, <1>4 DEF Sends, InSend, CallsOf
<1>6. current \in Listening <=> Receives(Top)
  BY <1>2, <1>3, <1>4 DEF Listening, InReceive, Receives
<1> QED  BY <1>1, <1>2, <1>3, <1>5, <1>6

\* When the top activation moves on, the calls of its process are replaced by those of
\* the new one, and nobody else's change.
LEMMA ContinueViews ==
    ASSUME IInv, IInv', NEW f, Continue(f), f.slot = Top.slot
    PROVE  /\ [s \in Slots |-> Sends(s)]' =
                [[s \in Slots |-> Sends(s)] EXCEPT ![current] = CallsOf(f)]
           /\ Listening' = IF Receives(f) THEN Listening \cup {current}
                                          ELSE Listening \ {current}
<1>1. PICK n \in Nat : n = Len(stack) /\ n >= 1
  BY TopFacts
<1>2. /\ Len(stack') = n /\ stack'[n] = f
      /\ \A i \in 1 .. n - 1 : stack'[i] = stack[i]
  BY <1>1 DEF Continue, IInv, TypeOK
<1>3. \A i \in 1 .. n : stack'[i].slot = stack[i].slot
  BY <1>1, <1>2 DEF Top
<1>4. Live' = Live
  BY <1>1, <1>2, <1>3 DEF Live, Buried
<1>5. /\ n \in Live /\ \A i \in Live : i \in 1 .. n /\ (stack[i].slot = current => i = n)
      /\ stack[n].slot = current /\ f.slot = current
  BY <1>1, TopCalls, TopFacts DEF Live, Top
<1>6. \A i \in Live : i # n => stack'[i] = stack[i]
  BY <1>1, <1>2, <1>5
<1>7. ASSUME NEW s \in Slots PROVE Sends(s)' = IF s = current THEN CallsOf(f) ELSE Sends(s)
  <2>1. CASE s = current
    BY <1>2, <1>3, <1>4, <1>5, <2>1 DEF Sends, InSend, CallsOf
  <2>2. CASE s # current
    <3>1. {j \in InSend' : stack'[j].slot = s} = {j \in InSend : stack[j].slot = s}
      BY <1>2, <1>3, <1>4, <1>5, <1>6, <2>2 DEF InSend
    <3>2. \A j \in {k \in InSend : stack[k].slot = s} : stack'[j] = stack[j]
      BY <1>5, <1>6, <2>2 DEF InSend
    <3> QED  BY <2>2, <3>1, <3>2 DEF Sends
  <2> QED  BY <2>1, <2>2
<1>8. Listening' = IF Receives(f) THEN Listening \cup {current} ELSE Listening \ {current}
  BY <1>2, <1>3, <1>4, <1>5, <1>6 DEF Listening, InReceive, Receives
<1>9. current \in Slots
  BY TopFacts
<1> QED  BY <1>7, <1>8, <1>9

\* When f, in the same calls as the old top, calls a program, no call changes; when the
\* server is called, all calls of the others are buried and it is in a new ipc_recv.
LEMMA CallViews ==
    ASSUME IInv, NEW f \in Frame, f.slot = Top.slot, NEW p \in UserSlots,
           NEW g \in Frame, g.slot = p, g.pc = IF p = ServerSlot THEN "fs_recv" ELSE "code",
           stack' = Append([stack EXCEPT ![Len(stack)] = f], g),
           p # ServerSlot => CallsOf(f) = CallsOf(Top) /\ (Receives(f) <=> Receives(Top))
    PROVE  /\ [s \in Slots |-> Sends(s)]' =
                [s \in Slots |-> IF p = ServerSlot THEN {} ELSE Sends(s)]
           /\ Listening' = IF p = ServerSlot THEN {p} ELSE Listening
<1>1. PICK n \in Nat : n = Len(stack) /\ n >= 1
  BY TopFacts
<1>2. /\ Len(stack') = n + 1 /\ stack'[n] = f /\ stack'[n + 1] = g
      /\ \A i \in 1 .. n - 1 : stack'[i] = stack[i]
  BY <1>1, TopFacts, CallFacts DEF Top
<1>3. \A i \in 1 .. n : stack'[i].slot = stack[i].slot
  BY <1>1, <1>2 DEF Top
<1>4. CallsOf(g) = {} /\ (Receives(g) <=> p = ServerSlot)
  BY DEF CallsOf, Receives
<1>5. CASE p = ServerSlot
  <2>1. \A i \in 1 .. n + 1 : Buried(i)' <=> i < n + 1
    BY <1>1, <1>2, <1>5 DEF Buried
  <2>2. Live' = {n + 1}
    BY <1>1, <1>2, <2>1 DEF Live
  <2>3. \A s \in Slots : Sends(s)' = {}
    BY <1>2, <1>4, <2>2 DEF Sends, InSend, CallsOf
  <2>4. Listening' = {p}
    BY <1>2, <1>4, <1>5, <2>2 DEF Listening, InReceive, Receives
  <2> QED  BY <1>5, <2>3, <2>4
<1>6. CASE p # ServerSlot
  <2>1. \A i \in 1 .. n : Buried(i)' <=> Buried(i)
    BY <1>1, <1>2, <1>3, <1>6 DEF Buried
  <2>2. ~ Buried(n + 1)'
    BY <1>1, <1>2 DEF Buried
  <2>3. Live' = Live \cup {n + 1}
    BY <1>1, <1>2, <2>1, <2>2 DEF Live
  <2>4. /\ \A i \in Live : i \in 1 .. n /\ (i # n => stack'[i] = stack[i])
        /\ stack[n] = Top
    BY <1>1, <1>2 DEF Live, Top
  <2>5. \A i \in Live : /\ stack'[i].slot = stack[i].slot
                        /\ CallsOf(stack'[i]) = CallsOf(stack[i])
                        /\ Receives(stack'[i]) <=> Receives(stack[i])
    BY <1>2, <1>3, <1>6, <2>4
  <2>6. ASSUME NEW s \in Slots PROVE Sends(s)' = Sends(s)
    <3>1. ASSUME NEW c, c \in Sends(s)' PROVE c \in Sends(s)
      <4>1. PICK i \in InSend' : stack'[i].slot = s /\ c = <<stack'[i].to, stack'[i].msg>>
        BY <3>1 DEF Sends
      <4>2. i \in Live' /\ stack'[i].pc \in {"run_send", "fs_send"}
        BY <4>1 DEF InSend
      <4>3. i \in Live
        BY <1>2, <1>6, <2>3, <4>2
      <4>4. c \in CallsOf(stack[i]) /\ stack[i].slot = s
        BY <2>5, <4>1, <4>2, <4>3 DEF CallsOf
      <4> QED  BY <4>3, <4>4 DEF Sends, InSend, CallsOf
    <3>2. ASSUME NEW c, c \in Sends(s) PROVE c \in Sends(s)'
      <4>1. PICK i \in InSend : stack[i].slot = s /\ c = <<stack[i].to, stack[i].msg>>
        BY <3>2 DEF Sends
      <4>2. i \in Live /\ stack[i].pc \in {"run_send", "fs_send"}
        BY <4>1 DEF InSend
      <4>3. c \in CallsOf(stack'[i]) /\ stack'[i].slot = s /\ i \in Live'
        BY <2>3, <2>5, <4>1, <4>2 DEF CallsOf
      <4> QED  BY <4>3 DEF Sends, InSend, CallsOf
    <3> QED  BY <3>1, <3>2
  <2>7. Listening' = Listening
    <3>1. Listening' = {stack'[i].slot : i \in {j \in Live' : Receives(stack'[j])}}
      BY DEF Listening, InReceive, Receives
    <3>2. Listening = {stack[i].slot : i \in {j \in Live : Receives(stack[j])}}
      BY DEF Listening, InReceive, Receives
    <3>3. {j \in Live' : Receives(stack'[j])} = {j \in Live : Receives(stack[j])}
      BY <1>2, <1>4, <1>6, <2>3, <2>5
    <3> QED  BY <2>5, <3>1, <3>2, <3>3
  <2> QED  BY <1>6, <2>6, <2>7
<1> QED  BY <1>5, <1>6

\* When a program returns, it is in no call.
LEMMA ReturnViews ==
    ASSUME IInv, Len(stack) >= 2, Top.pc = "code",
           stack' = SubSeq(stack, 1, Len(stack) - 1)
    PROVE  /\ [s \in Slots |-> Sends(s)]' = [s \in Slots |-> Sends(s)]
           /\ Listening' = Listening
<1>1. PICK n \in Nat : n = Len(stack) /\ n >= 2
  BY TopFacts
<1>2. /\ Len(stack') = n - 1
      /\ \A i \in 1 .. n - 1 : stack'[i] = stack[i]
  BY <1>1, TopFacts, ReturnFacts
<1>3. stack[n] = Top /\ Top.slot # ServerSlot
  BY <1>1, TopFacts DEF Top, FrameOK, ServerPCs
<1>4. \A i \in 1 .. n - 1 : Buried(i)' <=> Buried(i)
  BY <1>1, <1>2, <1>3 DEF Buried
<1>5. InSend' = InSend /\ InReceive' = InReceive
  BY <1>1, <1>2, <1>3, <1>4 DEF InSend, InReceive, Live
<1>6. \A i \in InSend \cup InReceive : stack'[i] = stack[i]
  BY <1>1, <1>2, <1>3 DEF InSend, InReceive, Live
<1>7. \A s \in Slots : Sends(s)' = Sends(s)
  BY <1>5, <1>6 DEF Sends
<1> QED  BY <1>5, <1>6, <1>7 DEF Listening

-----------------------------------------------------------------------------
(* Process table and IPC implement Mailboxes                               *)

Alive   == {s \in Slots : state[s] = "READY"}
MailMap == [s \in Slots |-> Unread(s)]
SendMap == [s \in Slots |-> Sends(s)]
WordSet == {0} \cup {RunRequest(fd) : fd \in 0 .. MaxFiles - 1}

\* What the transitions of a mailbox are for Mailboxes.
LEMMA UnreadFacts ==
    ASSUME NEW s \in Slots
    PROVE  /\ Unread(s) = {} <=> ~ Pending(s)
           /\ box'[s] = box[s] => Unread(s)' = Unread(s)
           /\ box'[s] = NoMail => Unread(s)' = {}
           /\ \A m, p \in Int : box'[s] = [msg |-> m, from |-> p] /\ p # 0 =>
                Unread(s)' = {<<SlotOf(p), m>>}
<1>1. Unread(s) = {} <=> ~ Pending(s)
  BY DEF Unread
<1>2. box'[s] = box[s] => Unread(s)' = Unread(s)
  BY DEF Unread, Pending
<1>3. box'[s] = NoMail => Unread(s)' = {}
  BY DEF Unread, Pending, NoMail
<1>4. ASSUME NEW m \in Int, NEW p \in Int, box'[s] = [msg |-> m, from |-> p], p # 0
      PROVE  Unread(s)' = {<<SlotOf(p), m>>}
  <2>1. box'[s].msg = m /\ box'[s].from = p
    BY <1>4
  <2> QED  BY <1>4, <2>1 DEF Unread, Pending
<1> QED  BY <1>1, <1>2, <1>3, <1>4

\* A step that leaves processes and mailboxes alone leaves those of Mailboxes alone.
LEMMA QuietMail ==
    ASSUME state' = state, box' = box
    PROVE  Alive' = Alive /\ MailMap' = MailMap
<1>1. \A s \in Slots : Unread(s)' = Unread(s)
  BY DEF Unread, Pending
<1> QED  BY <1>1 DEF Alive, MailMap

\* Emptying the mailbox of s changes no other.
LEMMA EmptiedMail ==
    ASSUME IInv, NEW s \in Slots, box' = [box EXCEPT ![s] = NoMail]
    PROVE  MailMap' = [MailMap EXCEPT ![s] = {}]
<1>1. box'[s] = NoMail /\ \A t \in Slots \ {s} : box'[t] = box[t]
  BY DEF IInv, TypeOK
<1>2. Unread(s)' = {} /\ \A t \in Slots \ {s} : Unread(t)' = Unread(t)
  BY <1>1, UnreadFacts
<1> QED  BY <1>2 DEF MailMap

\* The top activation that moves on to f is in the calls of f from now on.
LEMMA MovesOn ==
    ASSUME IInv, IInv', NEW f, Continue(f), f.slot = Top.slot,
           NEW calls, calls = CallsOf(f), NEW r \in BOOLEAN, r <=> Receives(f)
    PROVE  M!IsIn(calls, r)
<1>1. /\ SendMap' = [SendMap EXCEPT ![current] = calls]
      /\ Listening' = IF r THEN Listening \cup {current} ELSE Listening \ {current}
  BY ContinueViews DEF SendMap
<1> QED  BY <1>1 DEF M!IsIn, SendMap, Listening

\* A process that executes a program or kernel_main is in no call.
LEMMA InNoCall ==
    ASSUME IInv, Top.pc \in {"fork_fs", "fork_shell", "idle", "code", "exited"}
    PROVE  M!InNoCall
<1>1. Sends(current) = {} /\ current \notin Listening /\ current \in Slots
  BY TopCalls, TopFacts DEF CallsOf, Receives
<1> QED  BY <1>1 DEF M!InNoCall, Listening

\* The head of the loop of ipc_send is where the process begins to send.
LEMMA SendBegins ==
    ASSUME IInv, IInv', NEW f, Continue(f), f.slot = Top.slot,
           f.pc \in {"run_send", "fs_send"}, Top.pc \in {"code", "fs_recv"},
           NEW q \in UserSlots, q = f.to, NEW m, m = f.msg,
           q # current, state[q] = "READY"
    PROVE  M!BeginsToSend(q, m)
<1>1. M!IsIn({<<q, m>>}, FALSE)
  <2>1. CallsOf(f) = {<<q, m>>} /\ ~ Receives(f)
    BY DEF CallsOf, Receives
  <2> QED  BY <2>1, MovesOn
<1>2. Sends(current) = {} /\ current \in Slots /\ current # 0
  BY TopCalls, TopFacts DEF CallsOf, FrameOK, KernelPCs
<1>3. q \in Alive \ {0, current}
  BY TopFacts DEF Alive
<1> QED  BY <1>1, <1>2, <1>3 DEF M!BeginsToSend, Alive

\* kernel_fork is a Create of Mailboxes.
LEMMA CreateRefined ==
    ASSUME IInv, NEW e, NEW s, kernel_fork(e, s), Top.pc \in {"fork_fs", "fork_shell", "code"},
           current' = current, SendMap' = SendMap, Listening' = Listening
    PROVE  M!Create(s)
<1>1. s \in UserSlots /\ s \in Slots /\ state[s] = "FREE" /\ ~ Pending(s)
  BY TopFacts DEF kernel_fork, FreeSlots, IInv, NoMailToTheDead
<1>2. Alive' = Alive \cup {s}
  BY <1>1 DEF Alive, kernel_fork, IInv, TypeOK
<1>3. \A t \in Slots : Unread(t)' = Unread(t)
  BY <1>1, UnreadFacts DEF kernel_fork, IInv, TypeOK
<1>4. M!InNoCall
  BY InNoCall
<1> QED  BY <1>1, <1>2, <1>3, <1>4 DEF Alive, SendMap, Listening, M!Create

\* The turn of ipc_send that delivers is a Deliver of Mailboxes.
LEMMA DeliverRefined ==
    ASSUME IInv, IInv', Top.pc \in {"run_send", "fs_send"}, current \in UserSlots,
           Top.to \in UserSlots, state[Top.to] = "READY", ~ Pending(Top.to),
           Top.msg \in WordSet,
           proc_ipc_deliver(Top.to, Top.msg, Pid(Top.me)), state' = state, current' = current,
           NEW f, Continue(f), f.slot = Top.slot, f.pc \in {"run_recv", "fs_recv"}
    PROVE  \E q \in Slots : \E m \in WordSet : M!Deliver(q, m)
<1>1. PICK q \in Slots : q = Top.to
  BY TopFacts
<1>2. PICK m \in WordSet : m = Top.msg
  OBVIOUS
<1>3. /\ q \in UserSlots /\ m \in Int /\ Top.me = current
      /\ Pid(current) \in Int /\ Pid(current) # 0
      /\ SlotOf(Pid(current)) = current
  <2>1. m \in Int
    BY <1>2, TopFacts DEF Frame
  <2>2. current \in 1 .. MaxProcs - 1
    BY DEF UserSlots
  <2>3. Pid(current) \in Int /\ Pid(current) # 0 /\ SlotOf(Pid(current)) = current
    BY <2>2, MaxProcsAssumption DEF Pid, SlotOf
  <2> QED  BY <1>1, <2>1, <2>3, TopFacts
<1>4. /\ box'[q] = [msg |-> m, from |-> Pid(current)]
      /\ \A t \in Slots \ {q} : box'[t] = box[t]
  BY <1>1, <1>2, <1>3 DEF proc_ipc_deliver, IInv, TypeOK
<1>5. Unread(q)' = {<<current, m>>} /\ \A t \in Slots \ {q} : Unread(t)' = Unread(t)
  <2>1. Unread(q)' = {<<SlotOf(Pid(current)), m>>}
    BY <1>3, <1>4, UnreadFacts
  <2>2. \A t \in Slots \ {q} : Unread(t)' = Unread(t)
    BY <1>4, UnreadFacts
  <2> QED  BY <1>3, <2>1, <2>2
<1>6. MailMap' = [MailMap EXCEPT ![q] = {<<current, m>>}] /\ MailMap[q] = {}
  BY <1>1, <1>5, UnreadFacts DEF MailMap
<1>7. Alive' = Alive /\ q \in Alive
  BY <1>1 DEF Alive
<1>8. <<q, m>> \in SendMap[current]
  BY <1>1, <1>2, TopCalls, TopFacts DEF SendMap, CallsOf
<1>9. M!IsIn({}, TRUE)
  <2>1. CallsOf(f) = {} /\ Receives(f)
    BY DEF CallsOf, Receives
  <2> QED  BY <2>1, MovesOn
<1>10. M!Deliver(q, m)
  BY <1>6, <1>7, <1>8, <1>9 DEF M!Deliver, Alive, MailMap, SendMap
<1> QED  BY <1>10

\* A call of ipc_recv that returns a word is a Take of Mailboxes.
LEMMA TakeRefined ==
    ASSUME IInv, Top.pc \in {"run_recv", "fs_recv"}, Pending(current),
           proc_ipc_take(current), state' = state, current' = current,
           \/ \E r \in BOOLEAN : M!IsIn({}, r)
           \/ \E q \in Slots, m \in WordSet : M!BeginsToSend(q, m)
    PROVE  M!Take
<1>1. MailMap' = [MailMap EXCEPT ![current] = {}] /\ MailMap[current] # {}
  BY EmptiedMail, UnreadFacts, TopFacts DEF proc_ipc_take, MailMap
<1>2. current \in Listening
  BY TopCalls DEF Receives
<1>3. Alive' = Alive
  BY DEF Alive
<1> QED  BY <1>1, <1>2, <1>3 DEF M!Take, MailMap, Listening, Alive, WordSet

\* Giving up ipc_send or ipc_recv changes neither processes nor words.
LEMMA GivesUp ==
    ASSUME IInv, IInv', NEW f, Continue(f), f.slot = Top.slot,
           f.pc \notin {"run_send", "fs_send"},
           state' = state, box' = box, current' = current
    PROVE  M!ReceiveOrGiveUp
<1>1. \E r \in BOOLEAN : M!IsIn({}, r)
  <2>1. CallsOf(f) = {}
    BY DEF CallsOf
  <2>2. PICK r \in BOOLEAN : r <=> Receives(f)
    OBVIOUS
  <2> QED  BY <2>1, <2>2, MovesOn
<1>2. Alive' = Alive /\ MailMap' = MailMap
  BY QuietMail
<1> QED  BY <1>1, <1>2 DEF M!ReceiveOrGiveUp, Alive, MailMap

\* The call of an entry function is a Switch of Mailboxes.
LEMMA SwitchRefined ==
    ASSUME IInv, NEW f \in Frame, f.slot = Top.slot, NEW p \in UserSlots, NEW cur \in Slots,
           stack' = Append([stack EXCEPT ![Len(stack)] = f],
                           Activation(p, cur, EntryPoint(entry[p]))),
           entry[p] = Server <=> p = ServerSlot,
           current' = p, state'[p] = "READY",
           p # ServerSlot => CallsOf(f) = CallsOf(Top) /\ (Receives(f) <=> Receives(Top))
    PROVE  M!Switch(p)
<1> DEFINE g == Activation(p, cur, EntryPoint(entry[p]))
<1>1. /\ g \in Frame /\ g.slot = p
      /\ g.pc = IF p = ServerSlot THEN "fs_recv" ELSE "code"
  BY KernelAssumption, MaxProcsAssumption
     DEF Activation, EntryPoint, Frame, PCs, Slots, UserSlots
<1>2. stack' = Append([stack EXCEPT ![Len(stack)] = f], g)
  OBVIOUS
<1> HIDE DEF g
<1>3. /\ SendMap' = [s \in Slots |-> IF p = ServerSlot THEN {} ELSE Sends(s)]
      /\ Listening' = IF p = ServerSlot THEN {p} ELSE Listening
  BY <1>1, <1>2, CallViews DEF SendMap
<1>4. p \in Alive'
  BY TopFacts DEF Alive
<1>5. PICK lost \in SUBSET Slots : lost = IF p = ServerSlot THEN Slots ELSE {}
  OBVIOUS
<1>6. SendMap' = [s \in Slots |-> IF s \in lost THEN {} ELSE SendMap[s]]
  BY <1>3, <1>5 DEF SendMap
<1>7. Listening \subseteq Slots
  <2>1. \A i \in 1 .. Len(stack) : stack[i] \in Frame
    BY TopFacts
  <2>2. \A i \in InReceive : stack[i].slot \in Slots
    BY <2>1 DEF InReceive, Live, Frame
  <2> QED  BY <2>2 DEF Listening
<1>8. Listening' \in {Listening \ lost, (Listening \ lost) \cup {p}}
  BY <1>3, <1>5, <1>7
<1> QED  BY <1>4, <1>6, <1>8 DEF M!Switch, Alive, SendMap, Listening

\* sched_yield is a Yield of Mailboxes.
LEMMA YieldRefined ==
    ASSUME IInv, NEW f \in Frame, sched_yield(state, current, f), f.slot = Top.slot,
           f.pc = Top.pc, f.to = Top.to, f.msg = Top.msg,
           Top.pc # "fork_fs", state' = state, box' = box
    PROVE  \E p \in Slots : M!Yield(p)
<1>1. /\ ServerSlot \in ReadySlots(state)
      /\ \A s \in UserSlots : entry[s] = Server <=> s = ServerSlot
  BY TopFacts DEF IInv, FsServerHoldsPid2, ReadySlots
<1>2. PICK p \in UserSlots :
        /\ IsNextReady(state, current, p)
        /\ current' = p
        /\ stack' = Append([stack EXCEPT ![Len(stack)] = f],
                           Activation(p, current, EntryPoint(entry[p])))
  BY <1>1 DEF sched_yield
<1>3. state'[p] = "READY" /\ p \in Slots /\ current \in Slots
  BY <1>2, TopFacts DEF IsNextReady, ReadySlots
<1>4. CallsOf(f) = CallsOf(Top) /\ (Receives(f) <=> Receives(Top))
  BY DEF CallsOf, Receives
<1>5. M!Switch(p)
  BY <1>1, <1>2, <1>3, <1>4, SwitchRefined
<1>6. Alive' = Alive /\ MailMap' = MailMap
  BY QuietMail
<1> QED  BY <1>3, <1>5, <1>6 DEF M!Yield, Alive, MailMap

\* proc_exit_current is an Exit of Mailboxes; it always enters the server.
LEMMA ExitRefined ==
    ASSUME IInv, SysExit
    PROVE  \E p \in Slots : M!Exit(p)
<1> DEFINE f == At(Top, "exited")
<1>1. /\ Top.pc = "code" /\ proc_exit(current) /\ sched_yield(state', 0, f)
  BY DEF SysExit
<1>2. /\ current \in UserSlots \ {ServerSlot} /\ current # 0 /\ current \in Slots
  BY <1>1, TopFacts DEF FrameOK, KernelPCs, ServerPCs, Slots, UserSlots
<1>3. /\ state' = [state EXCEPT ![current] = "FREE"]
      /\ box' = [box EXCEPT ![current] = NoMail]
  BY <1>1, <1>2 DEF proc_exit
<1>4. /\ state[ServerSlot] = "READY" /\ ServerSlot # current /\ ServerSlot = 1
      /\ \A s \in UserSlots : entry[s] = Server <=> s = ServerSlot
  BY <1>1, <1>2, TopFacts DEF IInv, FsServerHoldsPid2
<1>5. state'[ServerSlot] = "READY" /\ ServerSlot \in ReadySlots(state')
  BY <1>3, <1>4, TopFacts DEF IInv, TypeOK, ReadySlots
<1>6. PICK p \in UserSlots :
        /\ IsNextReady(state', 0, p)
        /\ current' = p
        /\ stack' = Append([stack EXCEPT ![Len(stack)] = f],
                           Activation(p, 0, EntryPoint(entry[p])))
  BY <1>1, <1>5 DEF sched_yield
<1>7. p = ServerSlot
  BY <1>4, <1>5, <1>6, MaxProcsAssumption DEF IsNextReady, RingDistance, UserSlots
<1>8. f \in Frame /\ f.slot = Top.slot /\ 0 \in Slots /\ p \in Slots
  BY <1>1, <1>6, TopFacts, KernelAssumption, MaxProcsAssumption, AtFacts
     DEF PCs, ServerPCs, KernelPCs, Slots
<1> HIDE DEF f
<1>9. M!Switch(p)
  BY <1>4, <1>5, <1>6, <1>7, <1>8, SwitchRefined
<1>10. Alive' = Alive \ {current}
  BY <1>2, <1>3 DEF Alive, IInv, TypeOK
<1>11. MailMap' = [MailMap EXCEPT ![current] = {}]
  BY <1>2, <1>3, EmptiedMail
<1>12. M!InNoCall
  BY <1>1, InNoCall
<1>13. M!Exit(p)
  BY <1>2, <1>9, <1>10, <1>11, <1>12 DEF M!Exit, Alive, MailMap
<1> QED  BY <1>8, <1>13

\* A step of Mailboxes, or none.
MailStep ==
    M!Next \/ UNCHANGED << Alive, MailMap, current, SendMap, Listening >>

\* What the clauses of Mailboxes contribute to a step.
LEMMA MailSteps ==
    /\ \A p \in Slots : M!Create(p) \/ M!Exit(p) \/ M!Yield(p) => MailStep
    /\ \A q \in Slots : \A m \in WordSet : M!Send(q, m) \/ M!Deliver(q, m) => MailStep
    /\ M!Take \/ M!ReceiveOrGiveUp => MailStep
  BY DEF MailStep, M!Next, WordSet

\* A step that changes nothing but files is none of Mailboxes.
LEMMA NoMailStep ==
    ASSUME UNCHANGED <<procVars, current, stack>>
    PROVE  MailStep /\ SendMap' = SendMap /\ Listening' = Listening
<1>1. Alive' = Alive /\ MailMap' = MailMap
  BY QuietMail DEF procVars
<1>2. Live' = Live
  BY DEF Live, Buried
<1>3. InSend' = InSend /\ InReceive' = InReceive
  BY <1>2 DEF InSend, InReceive
<1>4. SendMap' = SendMap /\ Listening' = Listening
  BY <1>3 DEF SendMap, Sends, Listening
<1> QED  BY <1>1, <1>4 DEF MailStep

\* The forks of kernel_main and of programs.
LEMMA ForksRefined ==
    ASSUME IInv, IInv', ForkFsServer \/ ForkShell \/ SysFork PROVE MailStep
<1>1. ASSUME NEW e, \E s \in UserSlots : kernel_fork(e, s), current' = current,
             Top.pc \in {"fork_fs", "fork_shell", "code"},
             SendMap' = SendMap, Listening' = Listening
      PROVE  MailStep
  BY <1>1, CreateRefined, TopFacts, MailSteps
<1>2. CASE SysFork
  <2>1. SendMap' = SendMap /\ Listening' = Listening
    <3>1. Live' = Live
      BY <1>2 DEF Live, Buried, SysFork, kernelVars
    <3>2. InSend' = InSend /\ InReceive' = InReceive
      BY <1>2, <3>1 DEF InSend, InReceive, SysFork, kernelVars
    <3> QED  BY <1>2, <3>2 DEF SendMap, Sends, Listening, SysFork, kernelVars
  <2> QED  BY <1>1, <1>2, <2>1 DEF SysFork, kernelVars
<1>3. CASE ForkFsServer \/ ForkShell
  <2>1. PICK pc \in {"fork_shell", "idle"} : Continue(At(Top, pc))
    BY <1>3 DEF ForkFsServer, ForkShell
  <2> DEFINE f == At(Top, pc)
  <2>2. f.slot = Top.slot /\ f.pc = pc
    BY TopFacts DEF At, Enter
  <2> HIDE DEF f
  <2>3. CallsOf(f) = {} /\ ~ Receives(f)
    BY <2>2 DEF CallsOf, Receives
  <2>4. Sends(current) = {} /\ current \notin Listening
    BY <1>3, TopCalls DEF CallsOf, Receives, ForkFsServer, ForkShell
  <2>5. SendMap' = [SendMap EXCEPT ![current] = {}] /\ Listening' = Listening \ {current}
    BY <2>1, <2>2, <2>3, ContinueViews DEF SendMap, f
  <2>6. SendMap' = SendMap /\ Listening' = Listening
    BY <2>4, <2>5, TopFacts DEF SendMap
  <2> QED  BY <1>1, <1>3, <2>6 DEF ForkFsServer, ForkShell
<1> QED  BY <1>2, <1>3

\* The server takes a request and begins to answer it.
LEMMA FsRequestRefined ==
    ASSUME IInv, IInv', FsRequest PROVE MailStep
<1> DEFINE p == box[ServerSlot].from
           f == Sending(Top, "fs_send", p, 0)
<1>1. /\ Top.pc = "fs_recv" /\ Received /\ proc_ipc_take(Top.me)
      /\ state' = state /\ current' = current
  BY DEF FsRequest
<1>2. Top.me = ServerSlot /\ current = ServerSlot /\ ServerSlot \in Slots
  BY <1>1, TopFacts DEF FrameOK, ServerPCs
<1>3. Pending(ServerSlot) /\ SlotOf(p) \in UserSlots \ {ServerSlot}
  BY <1>1, <1>2 DEF Received, IInv, MailFollowsProtocol
<1>4. PICK fd \in 0 .. files - 1 : box[ServerSlot].msg = RunRequest(fd)
  BY <1>2, <1>3 DEF IInv, MailFollowsProtocol
<1>5. /\ OpOf(box[ServerSlot].msg) = IPC_OP_RUN
      /\ tfs_run_fd(FdOf(box[ServerSlot].msg)) = 0
  <2>1. fd \in Nat /\ fd \in 0 .. MaxFiles - 1 /\ fd < files
    BY TopFacts, KernelAssumption
  <2>2. FdOf(RunRequest(fd)) = fd /\ OpOf(RunRequest(fd)) = IPC_OP_RUN
    BY <2>1, RequestWord, RequestHandle
  <2> QED  BY <1>4, <2>1, <2>2 DEF tfs_run_fd
<1>6. CASE ValidDest(p)
  <2>1. Continue(f)
    BY <1>1, <1>2, <1>5, <1>6 DEF FsRequest, Answer
  <2>2. f.slot = Top.slot /\ f.pc = "fs_send" /\ f.to = SlotOf(p) /\ f.msg = 0
    BY DEF Sending, Enter
  <2>3. state[SlotOf(p)] = "READY"
    BY <1>3, <1>6, TopFacts DEF ValidDest, IInv, TypeOK
  <2> HIDE DEF f
  <2>4. PICK q \in UserSlots : q = f.to
    BY <1>3, <2>2
  <2>5. q # current /\ state[q] = "READY" /\ q \in Slots /\ f.pc \in {"run_send", "fs_send"}
    BY <1>2, <1>3, <2>2, <2>3, <2>4, TopFacts
  <2>6. M!BeginsToSend(q, 0)
    BY <1>1, <2>1, <2>2, <2>4, <2>5, SendBegins
  <2>7. \E r \in Slots, m \in WordSet : M!BeginsToSend(r, m)
    <3>1. 0 \in WordSet
      BY DEF WordSet
    <3> QED  BY <2>5, <2>6, <3>1
  <2> QED  BY <1>1, <1>2, <1>3, <2>7, TakeRefined, MailSteps
<1>7. CASE ~ ValidDest(p)
  <2> DEFINE g == At(Top, "fs_recv")
  <2>1. Continue(g)
    BY <1>1, <1>2, <1>5, <1>7 DEF FsRequest, Answer
  <2>2. g.slot = Top.slot /\ g.pc = "fs_recv"
    BY DEF At, Enter
  <2> HIDE DEF g
  <2>3. M!IsIn({}, TRUE)
    <3>1. CallsOf(g) = {} /\ Receives(g)
      BY <2>2 DEF CallsOf, Receives
    <3> QED  BY <2>1, <2>2, <3>1, MovesOn
  <2> QED  BY <1>1, <1>2, <1>3, <2>3, TakeRefined, MailSteps
<1> QED  BY <1>6, <1>7

\* The caller of vfs_run takes the answer.
LEMMA RunReplyRefined ==
    ASSUME IInv, IInv', RunReply PROVE MailStep
<1> DEFINE f == At(Top, "code")
<1>1. f.slot = Top.slot /\ f.pc = "code"
  BY DEF At, Enter
<1>2. /\ Top.pc = "run_recv" /\ Pending(current) /\ proc_ipc_take(current)
      /\ state' = state /\ current' = current /\ Continue(f)
  BY TopFacts DEF RunReply, Received
<1> HIDE DEF f
<1>3. M!IsIn({}, FALSE)
  <2>1. CallsOf(f) = {} /\ ~ Receives(f)
    BY <1>1 DEF CallsOf, Receives
  <2> QED  BY <1>1, <1>2, <2>1, MovesOn
<1> QED  BY <1>2, <1>3, TakeRefined, MailSteps

\* Yields of kernel_main and of those who wait in ipc_send or ipc_recv.
LEMMA YieldsRefined ==
    ASSUME IInv,
           \/ Idle \/ FsWait \/ RunWait
           \/ RunSend /\ Pending(Top.to)
    PROVE  MailStep
<1>1. /\ Top.pc # "fork_fs" /\ UNCHANGED <<state, box>>
      /\ \E f \in Frame : /\ sched_yield(state, current, f)
                          /\ f.slot = Top.slot /\ f.pc = Top.pc
                          /\ f.to = Top.to /\ f.msg = Top.msg
  <2>1. Top.spin < SpinLimit =>
          /\ Spun(Top) \in Frame /\ Spun(Top).slot = Top.slot /\ Spun(Top).pc = Top.pc
          /\ Spun(Top).to = Top.to /\ Spun(Top).msg = Top.msg
    BY TopFacts, SpunFacts DEF Spun, Frame
  <2>2. CASE Idle
    BY <2>2, TopFacts DEF Idle, procVars
  <2>3. CASE FsWait \/ RunWait
    <3>1. ~ Pending(Top.me)
      BY <2>3, TopFacts, MailIsReceived DEF FsWait, RunWait, Received
    <3> QED  BY <2>1, <2>3, <3>1 DEF FsWait, RunWait, RecvTurn
  <2>4. CASE RunSend /\ Pending(Top.to)
    BY <2>1, <2>4 DEF RunSend, SendTurn
  <2> QED  BY <2>2, <2>3, <2>4
<1>2. \E p \in Slots : M!Yield(p)
  BY <1>1, YieldRefined
<1> QED  BY <1>2, MailSteps

\* A program returns to the activation that called it.
LEMMA ReturnRefined ==
    ASSUME IInv, IInv', Return PROVE MailStep
<1>1. Len(stack) >= 2
  <2>1. Top.slot # 0
    BY TopFacts DEF Return, FrameOK, KernelPCs
  <2> QED  BY <2>1, TopFacts DEF IInv, Shapes, Top
<1>2. SendMap' = SendMap /\ Listening' = Listening
  BY <1>1, ReturnViews DEF Return, SendMap
<1>3. Alive' = Alive /\ MailMap' = MailMap
  BY QuietMail DEF Return, procVars
<1>4. PICK p \in Slots : p = current'
  BY DEF IInv, TypeOK
<1>5. p \in Alive'
  BY <1>4 DEF IInv, CurrentExecutes, Alive
<1>6. SendMap = [s \in Slots |-> IF s \in {} THEN {} ELSE SendMap[s]]
  BY DEF SendMap
<1>7. PICK lost \in SUBSET Slots : lost = {}
  OBVIOUS
<1>8. M!Switch(p)
  BY <1>2, <1>4, <1>5, <1>6, <1>7 DEF M!Switch, Alive, SendMap, Listening
<1>9. M!Yield(p)
  BY <1>3, <1>8 DEF M!Yield, Alive, MailMap
<1> QED  BY <1>9, MailSteps

\* vfs_run begins to send its request, or runs the file itself.
LEMMA SysRunRefined ==
    ASSUME IInv, IInv', SysRun PROVE MailStep
<1>1. PICK fd \in 0 .. MaxFiles - 1 :
        Continue(Sending(Top, "run_send", FS_SERVER_PID, RunRequest(fd))) \/ UNCHANGED stack
  BY DEF SysRun
<1>2. CASE UNCHANGED stack
  BY <1>2, NoMailStep DEF SysRun
<1>3. CASE Continue(Sending(Top, "run_send", FS_SERVER_PID, RunRequest(fd)))
  <2> DEFINE f == Sending(Top, "run_send", FS_SERVER_PID, RunRequest(fd))
  <2>1. /\ f.slot = Top.slot /\ f.pc = "run_send" /\ f.to = ServerSlot
        /\ f.msg = RunRequest(fd)
    BY DEF Sending, Enter, ServerSlot
  <2>2. Continue(f)
    BY <1>3
  <2> HIDE DEF f
  <2>3. Top.pc = "code" /\ current # ServerSlot /\ state[ServerSlot] = "READY"
    BY TopFacts DEF SysRun, FrameOK, ServerPCs, IInv, FsServerHoldsPid2
  <2>4. PICK m : m = RunRequest(fd)
    OBVIOUS
  <2>5. M!BeginsToSend(ServerSlot, m)
    <3>1. PICK q \in UserSlots : q = ServerSlot
      BY TopFacts
    <3>2. /\ q = f.to /\ m = f.msg /\ q # current /\ state[q] = "READY"
          /\ f.pc \in {"run_send", "fs_send"} /\ Top.pc \in {"code", "fs_recv"}
      BY <2>1, <2>3, <2>4, <3>1
    <3>3. M!BeginsToSend(q, m)
      BY <2>1, <2>2, <3>2, SendBegins
    <3> QED  BY <3>1, <3>3
  <2>6. Alive' = Alive /\ MailMap' = MailMap /\ current' = current
    BY QuietMail DEF SysRun, procVars
  <2>7. M!Send(ServerSlot, m)
    BY <2>5, <2>6 DEF M!Send, Alive, MailMap
  <2>8. ServerSlot \in Slots /\ m \in WordSet
    BY <2>4, TopFacts DEF WordSet
  <2> QED  BY <2>7, <2>8, MailSteps
<1> QED  BY <1>1, <1>2, <1>3

\* Deliveries, and calls that are given up.
LEMMA CallsEndRefined ==
    ASSUME IInv, IInv',
           \/ RunSend /\ ~ Pending(Top.to)
           \/ FsReply \/ FsIdle \/ RunLocally \/ RunTimeout
    PROVE  MailStep
<1>1. ASSUME NEW pc, Continue(At(Top, pc)), pc \notin {"run_send", "fs_send"},
             UNCHANGED <<state, box, current>>
      PROVE  MailStep
  <2>1. At(Top, pc).slot = Top.slot /\ At(Top, pc).pc = pc
    BY DEF At, Enter
  <2> QED  BY <1>1, <2>1, GivesUp, MailSteps
<1>2. CASE RunLocally \/ RunTimeout
  BY <1>1, <1>2 DEF RunLocally, RunTimeout, procVars
<1>3. CASE FsIdle
  <2>1. ~ ValidDest(0)
    BY DEF ValidDest, SlotOf, UserSlots
  <2> QED  BY <1>1, <1>3, <2>1 DEF FsIdle, Answer, procVars
<1>4. ASSUME Top.pc \in {"run_send", "fs_send"}, current \in UserSlots,
             Top.to \in UserSlots, state[Top.to] = "READY", ~ Pending(Top.to),
             Top.msg \in WordSet, state' = state,
             NEW pc \in {"run_recv", "fs_recv"}, SendTurn(pc)
      PROVE  MailStep
  <2>1. At(Top, pc).slot = Top.slot /\ At(Top, pc).pc = pc
    BY DEF At, Enter
  <2>2. /\ proc_ipc_deliver(Top.to, Top.msg, Pid(Top.me)) /\ Continue(At(Top, pc))
        /\ current' = current
    BY <1>4 DEF SendTurn
  <2>3. \E q \in Slots : \E m \in WordSet : M!Deliver(q, m)
    BY <1>4, <2>1, <2>2, DeliverRefined
  <2> QED  BY <2>3, MailSteps
<1>5. CASE RunSend /\ ~ Pending(Top.to)
  <2>1. /\ Top.to = ServerSlot /\ current \in UserSlots
        /\ state[ServerSlot] = "READY"
    BY <1>5, TopFacts DEF RunSend, FrameOK, KernelPCs, ServerPCs, Slots, UserSlots, IInv,
       FsServerHoldsPid2
  <2>2. PICK fd \in 0 .. files - 1 : Top.msg = RunRequest(fd)
    BY <1>5, TopFacts DEF RunSend, FrameOK
  <2>3. fd \in 0 .. MaxFiles - 1
    BY TopFacts, KernelAssumption
  <2>4. Top.msg \in WordSet
    BY <2>2, <2>3 DEF WordSet
  <2> QED  BY <1>4, <1>5, <2>1, <2>4, TopFacts DEF RunSend
<1>6. CASE FsReply
  <2>1. /\ ~ Pending(Top.to) /\ state[Top.to] = "READY" /\ state' = state
        /\ Top.to \in UserSlots /\ Top.msg \in WordSet /\ current \in UserSlots
    BY <1>6, TopFacts DEF FsReply, IInv, Answering, FrameOK, ServerPCs, WordSet
  <2>2. CASE Top.spin < SpinLimit
    BY <1>4, <1>6, <2>1, <2>2 DEF FsReply
  <2>3. CASE ~ (Top.spin < SpinLimit)
    BY <1>1, <1>6, <2>3 DEF FsReply
  <2> QED  BY <2>2, <2>3
<1> QED  BY <1>2, <1>3, <1>5, <1>6

\* Every step of the kernel is a step of Mailboxes, or changes nothing in it.
LEMMA NextRefined == IInv /\ IInv' /\ [Next]_vars => MailStep
<1> SUFFICES ASSUME IInv, IInv', [Next]_vars PROVE MailStep
  OBVIOUS
<1>1. CASE KernelMain
  BY <1>1, ForksRefined, YieldsRefined DEF KernelMain
<1>2. CASE FsServer
  BY <1>2, FsRequestRefined, YieldsRefined, CallsEndRefined DEF FsServer
<1>3. CASE SysExit
  BY <1>3, ExitRefined, MailSteps
<1>4. CASE SysCreate
  BY <1>4, NoMailStep DEF SysCreate
<1>5. CASE UNCHANGED vars
  BY <1>5, NoMailStep DEF vars, kernelVars
<1>6. CASE SysFork \/ SysRun \/ RunSend \/ RunLocally \/ RunReply \/ RunWait \/ RunTimeout \/ Return
  BY <1>6, ForksRefined, SysRunRefined, YieldsRefined, CallsEndRefined, RunReplyRefined,
     ReturnRefined
<1> QED  BY <1>1, <1>2, <1>3, <1>4, <1>5, <1>6 DEF Next, UserProgram

\* The kernel implements one-word mailboxes of living processes: the executing process
\* delivers each word it sends once at most, to the process it is for, which alone takes it.
THEOREM Refinement == Spec => MailboxesSpec
<1>1. Init => M!Init
  <2> SUFFICES ASSUME Init PROVE M!Init
    OBVIOUS
  <2>1. {s \in Slots : state[s] = "READY"} = {0}
    <3>1. 0 \in Slots /\ \A s \in Slots : state[s] = "READY" <=> s = 0
      BY MaxProcsAssumption DEF Init, procs_init, Slots
    <3> QED  BY <3>1
  <2>2. \A s \in Slots : Unread(s) = {}
    BY DEF Init, procs_init, Unread, Pending, NoMail
  <2>3. Len(stack) = 1 /\ stack[1].pc = "fork_fs" /\ current = 0
    BY DEF Init, Activation
  <2>4. InSend = {} /\ InReceive = {}
    BY <2>3 DEF InSend, InReceive, Live
  <2>5. (\A s \in Slots : Sends(s) = {}) /\ Listening = {}
    BY <2>4 DEF Sends, Listening
  <2> QED  BY <2>1, <2>2, <2>3, <2>5 DEF M!Init, Listening
<1>2. IInv /\ IInv' /\ [Next]_vars => [M!Next]_(M!mailVars)
  BY NextRefined DEF MailStep, M!mailVars, Alive, MailMap, SendMap, Listening
<1> QED  BY <1>1, <1>2, Invariant, PTL DEF Spec, MailboxesSpec, M!Spec
=============================================================================
