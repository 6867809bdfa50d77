---------------------------- MODULE LibraryProofs ----------------------------
(***************************************************************************)
(* Proofs about Library: the way into the kernel and back, for any values  *)
(* of the registers and any addresses; the words of a command line, for    *)
(* any line; images of any size, read after any byte; and the functions on *)
(* memory, strings and numbers, for any memory and ints of any width.      *)
(***************************************************************************)
EXTENDS Library, Induction, SequenceTheorems

-----------------------------------------------------------------------------
(* The stack of a system call.                                             *)

\* A stack that has only got n words more than s is s again when they are dropped.
LEMMA DropPushed ==
    ASSUME NEW S, NEW s \in Seq(S), NEW u \in Seq(S), NEW n \in Nat,
           Len(u) = Len(s) + n, \A i \in 1 .. Len(s) : u[i] = s[i]
    PROVE  Dropped(u, n) = s
<1>1. Len(s) \in Nat /\ Len(u) \in Nat
  BY LenProperties
<1>2. \A i \in 1 .. Len(s) : u[i] \in S
  BY <1>1, ElementOfSeq
<1> DEFINE d == SubSeq(u, 1, Len(s))
<1>3. d \in Seq(S) /\ Len(d) = Len(s) /\ \A i \in 1 .. Len(s) : d[i] = u[i]
  <2>1. /\ d \in Seq(S)
        /\ Len(d) = IF 1 <= Len(s) THEN Len(s) - 1 + 1 ELSE 0
        /\ \A i \in 1 .. Len(s) - 1 + 1 : d[i] = u[1 + i - 1]
    BY <1>1, <1>2, SubSeqProperties
  <2>2. QED
    BY <1>1, <2>1
<1>4. d = s
  BY <1>1, <1>3, SeqEqual
<1>5. Len(u) - n = Len(s)
  BY <1>1
<1>6. QED
  BY <1>4, <1>5 DEF Dropped

\* Four words on a stack p, and one more on top of them: where the dispatcher looks, and
\* that p is found again below.
LEMMA CallFacts ==
    ASSUME NEW S, NEW p \in Seq(S), NEW four \in Seq(S), NEW top \in Seq(S),
           Len(four) = Len(p) + 4, \A i \in 1 .. Len(p) : four[i] = p[i],
           Len(top) = Len(four) + 1, \A i \in 1 .. Len(four) : top[i] = four[i]
    PROVE  /\ At(top, 1) = four[Len(p) + 4] /\ At(top, 2) = four[Len(p) + 3]
           /\ At(top, 3) = four[Len(p) + 2] /\ At(top, 4) = four[Len(p) + 1]
           /\ Dropped(top, 5) = p
<1>1. Len(p) \in Nat
  BY LenProperties
<1>2. Len(top) = Len(p) + 5
  BY <1>1
<1>3. /\ Len(p) + 1 \in 1 .. Len(four) /\ Len(p) + 2 \in 1 .. Len(four)
      /\ Len(p) + 3 \in 1 .. Len(four) /\ Len(p) + 4 \in 1 .. Len(four)
  BY <1>1
<1>4. /\ At(top, 1) = four[Len(p) + 4] /\ At(top, 2) = four[Len(p) + 3]
      /\ At(top, 3) = four[Len(p) + 2] /\ At(top, 4) = four[Len(p) + 1]
  BY <1>1, <1>2, <1>3 DEF At
<1>5. \A i \in 1 .. Len(p) : top[i] = p[i]
  BY <1>1
<1>6. Dropped(top, 5) = p
  BY <1>1, <1>2, <1>5, DropPushed
<1>7. QED
  BY <1>4, <1>6

\* The callee finds its four arguments above the address it returns to.
LEMMA CallOnStack ==
    ASSUME NEW S, NEW p \in Seq(S), NEW a1 \in S, NEW a2 \in S, NEW a3 \in S, NEW a4 \in S,
           "back" \in S
    PROVE  /\ At(Called(p, a4, a3, a2, a1), 1) = a4 /\ At(Called(p, a4, a3, a2, a1), 2) = a3
           /\ At(Called(p, a4, a3, a2, a1), 3) = a2 /\ At(Called(p, a4, a3, a2, a1), 4) = a1
           /\ Dropped(Called(p, a4, a3, a2, a1), 5) = p
<1> DEFINE b == "back"
<1> SUFFICES ASSUME NEW four, four = p \o <<a1, a2, a3, a4>>, NEW top, top = four \o <<b>>
             PROVE  /\ At(top, 1) = a4 /\ At(top, 2) = a3
                    /\ At(top, 3) = a2 /\ At(top, 4) = a1
                    /\ Dropped(top, 5) = p
  BY DEF Called
<1> b \in S
  OBVIOUS
<1> HIDE DEF b
<1>1. Len(p) \in Nat
  BY LenProperties
<1>2. /\ four \in Seq(S) /\ Len(four) = Len(p) + 4
      /\ \A i \in 1 .. Len(p) : four[i] = p[i]
  BY <1>1
<1>3. /\ four[Len(p) + 1] = a1 /\ four[Len(p) + 2] = a2
      /\ four[Len(p) + 3] = a3 /\ four[Len(p) + 4] = a4
  BY <1>1
<1>4. ASSUME NEW t \in Seq(S)
      PROVE  /\ t \o <<b>> \in Seq(S) /\ Len(t \o <<b>>) = Len(t) + 1
             /\ \A i \in 1 .. Len(t) : (t \o <<b>>)[i] = t[i]
  BY LenProperties
<1>5. /\ top \in Seq(S) /\ Len(top) = Len(four) + 1
      /\ \A i \in 1 .. Len(four) : top[i] = four[i]
  BY <1>2, <1>4
<1>6. ASSUME NEW f \in Seq(S), NEW t \in Seq(S), f = four, t = top
      PROVE  /\ At(t, 1) = f[Len(p) + 4] /\ At(t, 2) = f[Len(p) + 3]
             /\ At(t, 3) = f[Len(p) + 2] /\ At(t, 4) = f[Len(p) + 1]
             /\ Dropped(t, 5) = p
  <2>1. /\ Len(f) = Len(p) + 4 /\ (\A i \in 1 .. Len(p) : f[i] = p[i])
        /\ Len(t) = Len(f) + 1 /\ (\A i \in 1 .. Len(f) : t[i] = f[i])
    BY <1>2, <1>5, <1>6, Zenon
  <2>2. QED
    BY <2>1, CallFacts
<1>7. QED
  BY <1>2, <1>3, <1>5, <1>6, Zenon

\* The caller drops its arguments, whatever the callee has made of them.
LEMMA CallReturns ==
    ASSUME NEW S, NEW p \in Seq(S), NEW junk \in S
    PROVE  Dropped(Overwritten(p, junk), 4) = p
<1> SUFFICES ASSUME NEW four, four = p \o <<junk, junk, junk, junk>>
             PROVE  Dropped(four, 4) = p
  BY DEF Overwritten
<1>1. Len(p) \in Nat
  BY LenProperties
<1>2. /\ four \in Seq(S) /\ Len(four) = Len(p) + 4
      /\ \A i \in 1 .. Len(p) : four[i] = p[i]
  BY <1>1
<1>3. QED
  BY <1>1, <1>2, DropPushed

\* The stack of pushad with the result in the place of eax: popad gives the registers with
\* the result, and below is the stack of the interrupt.
LEMMA PopFacts ==
    ASSUME NEW S, NEW regs \in [Registers -> S], NEW s \in Seq(S), Len(s) \in S,
           NEW result \in S
    PROVE  /\ Pushad(regs, s) \in Seq(S)
           /\ Popad(WithResult(Pushad(regs, s), result)) = [regs EXCEPT !["eax"] = result]
           /\ Dropped(WithResult(Pushad(regs, s), result), 8) = s
<1>1. Len(s) \in Nat
  BY LenProperties
<1>2. ASSUME NEW p \in Seq(S), Len(p) = Len(s) + 8,
             \A i \in 1 .. Len(s) : p[i] = s[i],
             p[Len(s) + 2] = regs["ecx"], p[Len(s) + 3] = regs["edx"],
             p[Len(s) + 4] = regs["ebx"], p[Len(s) + 6] = regs["ebp"],
             p[Len(s) + 7] = regs["esi"], p[Len(s) + 8] = regs["edi"]
      PROVE  /\ Popad(WithResult(p, result)) = [regs EXCEPT !["eax"] = result]
             /\ Dropped(WithResult(p, result), 8) = s
  <2> DEFINE saved == WithResult(p, result)
  <2>1. /\ saved \in Seq(S) /\ Len(saved) = Len(s) + 8
        /\ saved[Len(s) + 1] = result
        /\ saved[Len(s) + 2] = regs["ecx"] /\ saved[Len(s) + 3] = regs["edx"]
        /\ saved[Len(s) + 4] = regs["ebx"] /\ saved[Len(s) + 6] = regs["ebp"]
        /\ saved[Len(s) + 7] = regs["esi"] /\ saved[Len(s) + 8] = regs["edi"]
        /\ \A i \in 1 .. Len(s) : saved[i] = s[i]
    BY <1>1, <1>2 DEF WithResult
  <2> HIDE DEF saved
  <2>2. /\ At(saved, 7) = result
        /\ At(saved, 0) = regs["edi"] /\ At(saved, 1) = regs["esi"]
        /\ At(saved, 2) = regs["ebp"] /\ At(saved, 4) = regs["ebx"]
        /\ At(saved, 5) = regs["edx"] /\ At(saved, 6) = regs["ecx"]
    BY <1>1, <2>1 DEF At
  <2>3. Popad(saved) = [regs EXCEPT !["eax"] = result]
    BY <2>2 DEF Popad, Registers
  <2>4. Dropped(saved, 8) = s
    BY <1>1, <2>1, DropPushed
  <2>5. QED
    BY <2>3, <2>4 DEF saved
<1>3. /\ regs["eax"] \in S /\ regs["ecx"] \in S /\ regs["edx"] \in S /\ regs["ebx"] \in S
      /\ regs["ebp"] \in S /\ regs["esi"] \in S /\ regs["edi"] \in S
  BY DEF Registers
<1> DEFINE p == Pushad(regs, s)
<1>4. /\ p \in Seq(S) /\ Len(p) = Len(s) + 8
      /\ \A i \in 1 .. Len(s) : p[i] = s[i]
      /\ p[Len(s) + 2] = regs["ecx"] /\ p[Len(s) + 3] = regs["edx"]
      /\ p[Len(s) + 4] = regs["ebx"] /\ p[Len(s) + 6] = regs["ebp"]
      /\ p[Len(s) + 7] = regs["esi"] /\ p[Len(s) + 8] = regs["edi"]
  BY <1>1, <1>3 DEF Pushad
<1> HIDE DEF p
<1>5. QED
  BY <1>2, <1>4 DEF p

\* The whole stub, for any registers, any stack and any frame of three words.
Outcome(regs, result, frame, stack) ==
    [regs |-> [regs EXCEPT !["eax"] = result], frame |-> frame, stack |-> stack]

\* The dispatcher gets what the caller had, and the stub gives it back but for eax.
LEMMA StubFacts ==
    ASSUME NEW S, NEW regs \in [Registers -> S], NEW below \in Seq(S), NEW f1 \in S,
           NEW f2 \in S, NEW f3 \in S, NEW result \in S, NEW junk \in S, "back" \in S,
           Len(below) + 3 \in S
    PROVE  /\ DispatchArguments(AtDispatch(regs, Interrupt(below, <<f1, f2, f3>>))) =
                <<regs["eax"], regs["ebx"], regs["ecx"], regs["edx"]>>
           /\ isr_syscall_stub(regs, Interrupt(below, <<f1, f2, f3>>), result, junk) =
                Outcome(regs, result, <<f1, f2, f3>>, below)
<1> DEFINE stack == below \o <<f1, f2, f3>>
<1>1. Len(below) \in Nat
  BY LenProperties
<1>2. /\ stack \in Seq(S) /\ Len(stack) = Len(below) + 3
      /\ \A i \in 1 .. Len(below) : stack[i] = below[i]
      /\ stack[Len(below) + 1] = f1 /\ stack[Len(below) + 2] = f2
      /\ stack[Len(below) + 3] = f3
  BY <1>1
<1>3. Interrupt(below, <<f1, f2, f3>>) = stack
  BY DEF Interrupt
<1> HIDE DEF stack
<1>4. Dropped(stack, 3) = below
  BY <1>1, <1>2, DropPushed
<1>5. SubSeq(stack, Len(stack) - 2, Len(stack)) = <<f1, f2, f3>>
  <2>1. /\ Len(stack) - 2 = Len(below) + 1
        /\ Len(stack) - 2 \in 1 .. Len(stack) /\ Len(stack) \in Nat
    BY <1>1, <1>2
  <2> DEFINE frame == SubSeq(stack, Len(below) + 1, Len(below) + 3)
  <2>2. frame \in Seq(S) /\ Len(frame) = 3
    <3>1. \A i \in Len(below) + 1 .. Len(below) + 3 : stack[i] \in S
      BY <1>1, <1>2, ElementOfSeq
    <3>2. /\ frame \in Seq(S)
          /\ Len(frame) = IF Len(below) + 1 <= Len(below) + 3
                          THEN Len(below) + 3 - (Len(below) + 1) + 1 ELSE 0
      BY <1>1, <3>1, SubSeqProperties
    <3>3. QED
      BY <1>1, <3>2
  <2>3. frame[1] = f1 /\ frame[2] = f2 /\ frame[3] = f3
    BY <1>1, <1>2
  <2> HIDE DEF frame
  <2>4. frame = <<f1, f2, f3>>
    BY <2>2, <2>3
  <2>5. QED
    BY <1>1, <1>2, <2>1, <2>4 DEF frame
<1>6. /\ Pushad(regs, stack) \in Seq(S)
      /\ Popad(WithResult(Pushad(regs, stack), result)) = [regs EXCEPT !["eax"] = result]
      /\ Dropped(WithResult(Pushad(regs, stack), result), 8) = stack
  BY <1>2, PopFacts
<1>7. /\ regs["eax"] \in S /\ regs["ecx"] \in S /\ regs["edx"] \in S /\ regs["ebx"] \in S
  BY DEF Registers
<1> DEFINE p == Pushad(regs, stack)
           top == Called(p, regs["eax"], regs["ebx"], regs["ecx"], regs["edx"])
<1>8. /\ At(top, 1) = regs["eax"] /\ At(top, 2) = regs["ebx"]
      /\ At(top, 3) = regs["ecx"] /\ At(top, 4) = regs["edx"]
      /\ Dropped(top, 5) = p
  <2>1. p \in Seq(S)
    BY <1>6
  <2>2. \A a1, a2, a3, a4 \in S :
           LET c == Called(p, a4, a3, a2, a1)
           IN  /\ At(c, 1) = a4 /\ At(c, 2) = a3 /\ At(c, 3) = a2 /\ At(c, 4) = a1
               /\ Dropped(c, 5) = p
    BY <2>1, CallOnStack
  <2> DEFINE eax == regs["eax"]
             ebx == regs["ebx"]
             ecx == regs["ecx"]
             edx == regs["edx"]
  <2>3. edx \in S /\ ecx \in S /\ ebx \in S /\ eax \in S
    BY <1>7
  <2> HIDE DEF p, eax, ebx, ecx, edx
  <2>4. LET c == Called(p, eax, ebx, ecx, edx)
        IN  /\ At(c, 1) = eax /\ At(c, 2) = ebx /\ At(c, 3) = ecx /\ At(c, 4) = edx
            /\ Dropped(c, 5) = p
    BY <2>2, <2>3
  <2>5. QED
    BY <2>4 DEF eax, ebx, ecx, edx, p
<1>9. Dropped(Overwritten(p, junk), 4) = p
  BY <1>6, CallReturns
<1>10. Dropped(Dispatched(AtDispatch(regs, stack), junk), 4) = Pushad(regs, stack)
  BY <1>8, <1>9 DEF AtDispatch, Dispatched
<1>11. isr_syscall_stub(regs, stack, result, junk) =
          Outcome(regs, result, <<f1, f2, f3>>, below)
  BY <1>4, <1>5, <1>6, <1>10 DEF isr_syscall_stub, Outcome
<1>12. DispatchArguments(AtDispatch(regs, stack)) =
          <<regs["eax"], regs["ebx"], regs["ecx"], regs["edx"]>>
  BY <1>8 DEF AtDispatch, DispatchArguments
<1>13. QED
  BY <1>3, <1>11, <1>12

\* For any number, arguments and result, and whatever the compiler leaves in the registers
\* it may use.
LEMMA Kept ==
    ASSUME NEW n, NEW a1, NEW a2, NEW a3, NEW result, NEW junk
    PROVE  RegistersAreKept(n, <<a1, a2, a3>>, result, junk)
<1>1. ASSUME NEW S, n \in S, a1 \in S, a2 \in S, a3 \in S, result \in S, junk \in S,
             5 \in S, 11 \in S, 12 \in S, 13 \in S, 14 \in S, 15 \in S, 16 \in S,
             "back" \in S, "eflags" \in S, "cs" \in S, "eip" \in S,
             NEW regs, regs = sys_call(Before0, n, a1, a2, a3)
      PROVE  /\ DispatchArguments(AtDispatch(regs, Interrupt(Stack0, Frame0))) =
                  <<n, a1, a2, a3>>
             /\ isr_syscall_stub(regs, Interrupt(Stack0, Frame0), result, junk) =
                  Outcome(regs, result, Frame0, Stack0)
  <2>1. Before0 \in [Registers -> S]
    BY <1>1 DEF Before0
  <2>2. /\ regs \in [Registers -> S]
        /\ regs["eax"] = n /\ regs["ebx"] = a1 /\ regs["ecx"] = a2 /\ regs["edx"] = a3
    BY <1>1, <2>1 DEF sys_call, Registers
  <2>3. Stack0 \in Seq(S) /\ Len(Stack0) + 3 \in S
    <3>1. Stack0 \in Seq(S) /\ Len(Stack0) = 2
      BY <1>1 DEF Stack0
    <3>2. QED
      BY <1>1, <3>1
  <2>4. ASSUME NEW f1 \in S, NEW f2 \in S, NEW f3 \in S
        PROVE  /\ DispatchArguments(AtDispatch(regs, Interrupt(Stack0, <<f1, f2, f3>>))) =
                    <<regs["eax"], regs["ebx"], regs["ecx"], regs["edx"]>>
               /\ isr_syscall_stub(regs, Interrupt(Stack0, <<f1, f2, f3>>), result, junk) =
                    Outcome(regs, result, <<f1, f2, f3>>, Stack0)
    BY <1>1, <2>2, <2>3, StubFacts
  <2>5. QED
    BY <1>1, <2>2, <2>4 DEF Frame0
<1> DEFINE regs  == sys_call(Before0, n, a1, a2, a3)
           stack == Interrupt(Stack0, Frame0)
           end   == isr_syscall_stub(regs, stack, result, junk)
<1>2. /\ DispatchArguments(AtDispatch(regs, stack)) = <<n, a1, a2, a3>>
      /\ end = Outcome(regs, result, Frame0, Stack0)
  <2> DEFINE S == {n, a1, a2, a3, result, junk, 5, 11, 12, 13, 14, 15, 16,
                   "back", "eflags", "cs", "eip"}
  <2>1. /\ n \in S /\ a1 \in S /\ a2 \in S /\ a3 \in S /\ result \in S /\ junk \in S
        /\ 5 \in S /\ 11 \in S /\ 12 \in S /\ 13 \in S /\ 14 \in S /\ 15 \in S /\ 16 \in S
        /\ "back" \in S /\ "eflags" \in S /\ "cs" \in S /\ "eip" \in S
    OBVIOUS
  <2> HIDE DEF S
  <2>2. QED
    BY <1>1, <2>1
<1>3. <<n>> \o <<a1, a2, a3>> = <<n, a1, a2, a3>>
  <2> DEFINE S == {n, a1, a2, a3}
  <2>1. /\ <<n>> \o <<a1, a2, a3>> \in Seq(S) /\ <<n, a1, a2, a3>> \in Seq(S)
        /\ Len(<<n>> \o <<a1, a2, a3>>) = 4 /\ Len(<<n, a1, a2, a3>>) = 4
    OBVIOUS
  <2>2. \A i \in 1 .. 4 : (<<n>> \o <<a1, a2, a3>>)[i] = <<n, a1, a2, a3>>[i]
    OBVIOUS
  <2>3. QED
    BY <2>1, <2>2, SeqEqual
<1> HIDE DEF stack, end
<1>4. /\ end.regs = [regs EXCEPT !["eax"] = result]
      /\ end.frame = Frame0 /\ end.stack = Stack0
  BY <1>2 DEF Outcome
<1>5. QED
  BY <1>2, <1>3, <1>4 DEF RegistersAreKept, stack, end

-----------------------------------------------------------------------------
(* Descriptors, gates and characters.                                      *)

\* The segments of gdt.cpp are those of the loader, and flat.
LEMMA Descriptors == SegmentsAreFlat
<1>1. /\ gdt[1] = gdt_set_gate(0, 0, 0, 0) /\ gdt[2] = gdt_set_gate(0, 1048575, 154, 207)
      /\ gdt[3] = gdt_set_gate(0, 1048575, 146, 207) /\ DOMAIN gdt = 1 .. 3
  BY DEF gdt
<1>2. BytesOf(gdt_set_gate(0, 0, 0, 0)) = gdt_start[1]
  BY SMT DEF BytesOf, gdt_set_gate, gdt_start
<1>3. BytesOf(gdt_set_gate(0, 1048575, 154, 207)) = gdt_start[2]
  BY SMT DEF BytesOf, gdt_set_gate, gdt_start
<1>4. BytesOf(gdt_set_gate(0, 1048575, 146, 207)) = gdt_start[3]
  BY SMT DEF BytesOf, gdt_set_gate, gdt_start
<1>5. Segment(gdt_start[2]) = Flat(1)
  BY SMT DEF Segment, gdt_start, Flat
<1>6. Segment(gdt_start[3]) = Flat(0)
  BY SMT DEF Segment, gdt_start, Flat
<1>7. \A i \in 1 .. 3 : BytesOf(gdt[i]) = gdt_start[i]
  <2>1. \A i \in 1 .. 3 : i = 1 \/ i = 2 \/ i = 3
    BY SMT
  <2>2. QED
    BY <1>1, <1>2, <1>3, <1>4, <2>1
<1>8. QED
  BY <1>1, <1>3, <1>4, <1>5, <1>6, <1>7 DEF SegmentsAreFlat

\* An address is found again in the two halves of a gate.
LEMMA Halves ==
    ASSUME NEW a \in Nat, a \div 65536 < 65536
    PROVE  (a % 65536) + 65536 * ((a \div 65536) % 65536) = a
<1>1. a \div 65536 \in Nat /\ (a % 65536) + 65536 * (a \div 65536) = a
  BY SMT
<1>2. (a \div 65536) % 65536 = a \div 65536
  BY <1>1, SMT
<1>3. QED
  BY <1>1, <1>2

\* Each gate leads to its stub, and only the one of the system call is open to ring 3.
LEMMA Gates ==
    ASSUME NEW handler \in Addresses, NEW default \in Addresses
    PROVE  GatesLeadToStubs(handler, default)
<1>1. ASSUME NEW v \in 0 .. 255
      PROVE  LET t == Target(idt(default, handler)[v]) IN
             /\ t.address = IF v = SYSCALL_VECTOR THEN handler ELSE default
             /\ t.ring = IF v = SYSCALL_VECTOR THEN 3 ELSE 0
             /\ t.present = 1 /\ t.type = 14
             /\ Segment(BytesOf(gdt[(t.selector \div 8) + 1])).code = 1
  <2> DEFINE stub == IF v = SYSCALL_VECTOR THEN handler ELSE default
             attr == IF v = SYSCALL_VECTOR THEN 238 ELSE 142
             t    == Target(idt_set_gate(stub, 8, attr))
  <2>1. idt(default, handler)[v] = idt_set_gate(stub, 8, attr)
    BY <1>1 DEF idt
  <2>2. t.address = stub
    <3>1. stub \in Nat /\ stub \div 65536 < 65536
      BY LibraryAssumption
    <3>2. t.address = (stub % 65536) + 65536 * ((stub \div 65536) % 65536)
      BY DEF Target, idt_set_gate
    <3>3. QED
      BY <3>1, <3>2, Halves
  <2>3. t.selector = 8
    BY DEF Target, idt_set_gate
  <2>4. /\ t.ring = (attr \div 32) % 4 /\ t.present = attr \div 128 /\ t.type = attr % 16
    BY DEF Target, idt_set_gate
  <2>5. /\ (238 \div 32) % 4 = 3 /\ 238 \div 128 = 1 /\ 238 % 16 = 14
        /\ (142 \div 32) % 4 = 0 /\ 142 \div 128 = 1 /\ 142 % 16 = 14
        /\ (8 \div 8) + 1 = 2
    BY SMT
  <2>6. Segment(BytesOf(gdt[2])).code = 1
    BY Descriptors DEF SegmentsAreFlat, Flat
  <2>7. QED
    BY <2>1, <2>2, <2>3, <2>4, <2>5, <2>6
<1>2. QED
  BY <1>1 DEF GatesLeadToStubs

\* A character passes both ways through a word.
LEMMA Characters ==
    ASSUME NEW c \in Chars
    PROVE  putc_char(tbx_putc_word(c)) = c /\ getc_char(getc_word(c)) = c
<1>1. c \in -128 .. 127
  BY LibraryAssumption
<1>2. (c % 256) % 256 = c % 256 /\ Signed(c % 256) = c
  BY <1>1, SMT DEF Signed
<1>3. QED
  BY <1>2 DEF putc_char, tbx_putc_word, getc_char, getc_word

\* A system call reaches the dispatcher with its number and arguments, and the program gets
\* its result and everything else back (isr_syscall_stub, sys_call, idt_init, gdt_init).
THEOREM WayThrough == Spec => []SystemCallsPass
<1>1. Init => SystemCallsPass
  BY DEF Init, NoCall, SystemCallsPass
<1>2. SystemCallsPass /\ [Next]_call => SystemCallsPass'
  <2> SUFFICES ASSUME SystemCallsPass, [Next]_call PROVE SystemCallsPass'
    OBVIOUS
  <2>1. CASE CallMemory
    BY <2>1 DEF CallMemory, SystemCallsPass
  <2>2. CASE CallNumber
    BY <2>2 DEF CallNumber, SystemCallsPass
  <2>3. CASE CallLine
    BY <2>3 DEF CallLine, SystemCallsPass
  <2>4. CASE CallImage
    BY <2>4 DEF CallImage, SystemCallsPass
  <2>5. CASE CallKernel
    <3>1. PICK n \in SyscallNum \cup {0, 9}, a1, a2, a3, result, junk \in Words :
             call' = [of |-> "kernel", n |-> n, args |-> <<a1, a2, a3>>, result |-> result,
                      junk |-> junk]
      BY <2>5 DEF CallKernel
    <3>2. RegistersAreKept(n, <<a1, a2, a3>>, result, junk)
      BY Kept
    <3>3. QED
      BY <3>1, <3>2 DEF SystemCallsPass
  <2>6. CASE CallGate
    BY <2>6, Descriptors, Gates DEF CallGate, SystemCallsPass
  <2>7. CASE CallChar
    BY <2>7, Characters DEF CallChar, SystemCallsPass
  <2>8. CASE UNCHANGED call
    BY <2>8 DEF SystemCallsPass
  <2>9. QED
    BY <2>1, <2>2, <2>3, <2>4, <2>5, <2>6, <2>7, <2>8 DEF Next
<1>3. QED
  BY <1>1, <1>2, PTL DEF Spec

-----------------------------------------------------------------------------
(* Pieces of sequences                                                     *)

\* A piece of the end of a sequence is a piece of it.
LEMMA PieceOfEnd ==
    ASSUME NEW S, NEW s \in Seq(S), NEW e \in Nat, e >= 1, NEW a \in Nat, a >= 1,
           NEW b \in Nat, e + b <= Len(s) + 1
    PROVE  SubSeq(SubSeq(s, e, Len(s)), a, b) = SubSeq(s, e + a - 1, e + b - 1)
<1> DEFINE n == Len(s)
           r == SubSeq(s, e, n)
           u == SubSeq(r, a, b)
           v == SubSeq(s, e + a - 1, e + b - 1)
<1>1. n \in Nat
  BY LenProperties
<1>2. /\ r \in Seq(S) /\ Len(r) = IF e <= n THEN n - e + 1 ELSE 0
      /\ \A i \in 1 .. n - e + 1 : r[i] = s[e + i - 1]
  BY <1>1, Piece
<1>3. b <= Len(r)
  <2> HIDE DEF r
  <2> QED  BY <1>1, <1>2
<1>4. /\ u \in Seq(S) /\ Len(u) = IF a <= b THEN b - a + 1 ELSE 0
      /\ \A i \in 1 .. b - a + 1 : u[i] = r[a + i - 1]
  <2> HIDE DEF r
  <2> QED  BY <1>2, <1>3, Piece
<1>5. /\ v \in Seq(S)
      /\ Len(v) = IF e + a - 1 <= e + b - 1 THEN (e + b - 1) - (e + a - 1) + 1 ELSE 0
      /\ \A i \in 1 .. (e + b - 1) - (e + a - 1) + 1 : v[i] = s[(e + a - 1) + i - 1]
  <2>1. e + a - 1 \in Nat /\ e + b - 1 \in Nat /\ e + a - 1 >= 1 /\ e + b - 1 <= Len(s)
    BY <1>1
  <2> QED  BY <2>1, Piece
<1> HIDE DEF u, v, r
<1>6. Len(u) = Len(v)
  BY <1>4, <1>5
<1>7. ASSUME NEW i \in 1 .. Len(u) PROVE u[i] = v[i]
  <2>1. /\ i \in 1 .. b - a + 1 /\ i \in 1 .. (e + b - 1) - (e + a - 1) + 1
        /\ a + i - 1 \in 1 .. n - e + 1
        /\ e + (a + i - 1) - 1 = (e + a - 1) + i - 1
    BY <1>1, <1>4, <1>7
  <2> QED  BY <1>2, <1>4, <1>5, <2>1
<1>8. u = v
  BY <1>4, <1>5, <1>6, <1>7, SeqEqual
<1> QED  BY <1>8 DEF u, v, r, n

\* The end of a sequence is a suffix of every longer end.
LEMMA EndIsSuffix ==
    ASSUME NEW S, NEW s \in Seq(S), NEW a \in 1 .. Len(s) + 1
    PROVE  IsSuffix(SubSeq(s, a, Len(s)), s)
<1> DEFINE n == Len(s)
           t == SubSeq(s, a, n)
           k == n + 1 - a
           u == Reverse(t)
           v == Reverse(s)
<1>1. n \in Nat /\ a \in Nat /\ a >= 1 /\ k \in Nat /\ k <= n
  BY LenProperties
<1>2. t \in Seq(S) /\ Len(t) = k /\ \A i \in 1 .. k : t[i] = s[a + i - 1]
  <2>1. /\ t \in Seq(S) /\ Len(t) = IF a <= n THEN n - a + 1 ELSE 0
        /\ \A i \in 1 .. n - a + 1 : t[i] = s[a + i - 1]
    BY <1>1, Piece
  <2>2. n - a + 1 = k /\ (IF a <= n THEN n - a + 1 ELSE 0) = k
    BY <1>1
  <2> HIDE DEF t, k
  <2> QED  BY <2>1, <2>2
<1> HIDE DEF t
<1>3. ASSUME NEW w \in Seq(S)
      PROVE  /\ Reverse(w) \in Seq(S) /\ Len(Reverse(w)) = Len(w)
             /\ \A i \in 1 .. Len(w) : Reverse(w)[i] = w[Len(w) - i + 1]
  <2>1. Len(w) \in Nat
    BY LenProperties
  <2>2. \A i \in 1 .. Len(w) : w[Len(w) - i + 1] \in S
    BY <2>1, ElementOfSeq
  <2> QED  BY <2>1, <2>2 DEF Reverse
<1>4. u \in Seq(S) /\ Len(u) = k /\ \A i \in 1 .. k : u[i] = t[k - i + 1]
  <2>1. u \in Seq(S) /\ Len(u) = Len(t) /\ \A i \in 1 .. Len(t) : u[i] = t[Len(t) - i + 1]
    BY <1>2, <1>3
  <2> HIDE DEF u
  <2> QED  BY <1>2, <2>1
<1>5. v \in Seq(S) /\ Len(v) = n /\ \A i \in 1 .. n : v[i] = s[n - i + 1]
  BY <1>3
<1> HIDE DEF u, v
<1>6. \A i \in 1 .. k : u[i] = v[i]
  <2> SUFFICES ASSUME NEW i \in 1 .. k PROVE u[i] = v[i]
    OBVIOUS
  <2>1. i \in 1 .. n /\ k - i + 1 \in 1 .. k /\ a + (k - i + 1) - 1 = n - i + 1
    BY <1>1
  <2> HIDE DEF k
  <2> QED  BY <1>2, <1>4, <1>5, <2>1
<1>7. SubSeq(u, 1, k) = SubSeq(v, 1, k)
  <2> HIDE DEF k, n
  <2>1. 1 \in Nat /\ 1 >= 1 /\ k <= Len(u) /\ k <= Len(v)
    BY <1>1, <1>4, <1>5
  <2> QED  BY <1>1, <1>4, <1>5, <1>6, <2>1, SamePiece
<1>8. IsPrefix(u, v)
  <2> HIDE DEF k, n
  <2> QED  BY <1>1, <1>4, <1>5, <1>7 DEF IsPrefix
<1> QED  BY <1>8 DEF IsSuffix, u, v, t

-----------------------------------------------------------------------------
(* The words of a command line                                             *)

\* The characters of a line with the NUL behind them.
LEMMA LineParts ==
    ASSUME NEW s \in Seq(Int), \A i \in DOMAIN s : s[i] # NUL
    PROVE  LET l == Append(s, NUL) IN
           /\ Len(s) \in Nat /\ Len(l) = Len(s) + 1 /\ l \in Seq(Int \cup {NUL})
           /\ \A i \in 1 .. Len(s) : l[i] = s[i] /\ s[i] # NUL
           /\ l[Len(s) + 1] = NUL
<1>1. s \in Seq(Int \cup {NUL}) /\ DOMAIN s = 1 .. Len(s) /\ Len(s) \in Nat
  BY SeqMonotonic, LenProperties
<1>2. NUL \in Int \cup {NUL}
  OBVIOUS
<1> DEFINE S == Int \cup {NUL}
           l == Append(s, NUL)
<1>3. /\ l \in Seq(S) /\ Len(l) = Len(s) + 1
      /\ \A i \in 1 .. Len(s) : l[i] = s[i]
      /\ l[Len(s) + 1] = NUL
  <2> HIDE DEF S
  <2> QED  BY <1>1, <1>2, AppendProperties DEF S
<1> QED  BY <1>1, <1>3

\* The line l is being cut: from p on it is still what s is.
Uncut(l, s, p) ==
    /\ l \in Seq(Int \cup {NUL}) /\ Len(l) = Len(s) + 1
    /\ p \in 1 .. Len(s) + 1
    /\ \A i \in p .. Len(s) : l[i] = s[i]
    /\ l[Len(s) + 1] = NUL

\* From p on, s is blanks, then the characters of a word from a on, then, from e on, the rest.
WordAt(s, p, a, e) ==
    /\ p <= a /\ a <= e
    /\ \A i \in p .. a - 1 : s[i] = Space
    /\ \A i \in a .. e - 1 : s[i] \notin {Space, NUL}
    /\ e <= Len(s) => a < e /\ s[e] = Space

\* What is left of the line after a cut at e.
AfterCut(l, s, a, e) == IF a = Len(s) + 1 THEN l ELSE [l EXCEPT ![e] = NUL]

\* sh_next_token finds a word, cuts behind it, and goes on after the blank that it has
\* overwritten; or there is none, and it goes to the end.
LEMMA TokenFound ==
    ASSUME NEW s \in Seq(Int), \A i \in 1 .. Len(s) : s[i] # NUL,
           NEW l, NEW p, Uncut(l, s, p)
    PROVE  \E a, e \in 1 .. Len(s) + 1 :
             LET t == sh_next_token(l, p)
                 q == IF e <= Len(s) THEN e + 1 ELSE e
             IN  /\ WordAt(s, p, a, e)
                 /\ t.tok = IF a = Len(s) + 1 THEN 0 ELSE a
                 /\ t.line = AfterCut(l, s, a, e) /\ t.p = q
                 /\ Uncut(t.line, s, q)
<1> DEFINE n == Len(s)
           S == Int \cup {NUL}
           t == sh_next_token(l, p)
<1>1. /\ n \in Nat /\ l \in Seq(S) /\ Len(l) = n + 1 /\ p \in 1 .. n + 1 /\ p \in Nat
      /\ \A i \in p .. n : l[i] = s[i]
      /\ l[n + 1] = NUL
  BY LenProperties DEF Uncut
<1>2. /\ \A i \in 1 .. n + 1 : l[i] \in S
      /\ \A i \in p .. n + 1 : l[i] = NUL <=> i = n + 1
      /\ Space # NUL
  <2>1. \A i \in 1 .. n + 1 : l[i] \in S
    <3> HIDE DEF S
    <3> QED  BY <1>1, ElementOfSeq
  <2>2. ASSUME NEW i \in p .. n + 1 PROVE l[i] = NUL <=> i = n + 1
    <3>1. i = n + 1 \/ (i \in p .. n /\ i \in 1 .. n)
      BY <1>1
    <3> QED  BY <1>1, <3>1
  <2> QED  BY <2>1, <2>2, TokensAssumption
<1> HIDE DEF n, S
<1> DEFINE a == sh_skip_spaces(l, p)
           T == {i \in p .. n + 1 : l[i] # Space}
<1>3. a \in T /\ a \in p .. n + 1 /\ \A x \in p .. a - 1 : x \notin T
  <2>1. T \subseteq p .. n + 1 /\ n + 1 \in T /\ n + 1 \in Nat
    BY <1>1, <1>2
  <2>2. a = Min(T)
    BY <1>1 DEF sh_skip_spaces
  <2> HIDE DEF T, a
  <2> QED  BY <1>1, <2>1, <2>2, First
<1>4. PICK b : /\ b = a /\ b \in p .. n + 1 /\ b \in 1 .. n + 1 /\ b \in Nat /\ l[b] # Space
               /\ \A i \in p .. b - 1 : s[i] = Space
  <2> HIDE DEF a
  <2>1. a \in p .. n + 1 /\ a \in 1 .. n + 1 /\ a \in Nat /\ l[a] # Space
    BY <1>1, <1>3
  <2>2. ASSUME NEW i \in p .. a - 1 PROVE s[i] = Space
    <3>1. i \in p .. n /\ i \in p .. n + 1 /\ i \notin T
      BY <1>1, <1>3, <2>1
    <3> QED  BY <1>1, <3>1
  <2> QED  BY <2>1, <2>2
<1>5. CASE b = n + 1
  <2>1. t = [tok |-> 0, line |-> l, p |-> b]
    BY <1>1, <1>4, <1>5 DEF sh_next_token
  <2>2. t.tok = 0 /\ t.line = l /\ t.p = n + 1
    BY <1>5, <2>1
  <2>3. WordAt(s, p, n + 1, n + 1)
    BY <1>1, <1>4, <1>5 DEF WordAt, n
  <2>4. Uncut(l, s, n + 1) /\ n + 1 \in 1 .. n + 1 /\ ~ (n + 1 <= n)
    BY <1>1 DEF Uncut, n, S
  <2> HIDE DEF t
  <2> QED  BY <2>2, <2>3, <2>4 DEF AfterCut, t, n
<1>6. CASE b # n + 1
  <2>1. b \in p .. n /\ l[b] # NUL
    BY <1>1, <1>2, <1>4, <1>6
  <2> DEFINE E == {i \in b .. n + 1 : l[i] \in {Space, NUL}}
  <2>2. PICK e : /\ e = Min(E) /\ e \in E /\ e \in b .. n + 1 /\ e \in Nat
                 /\ \A x \in b .. e - 1 : x \notin E
    <3>1. E \subseteq b .. n + 1 /\ n + 1 \in E /\ n + 1 \in Nat
      BY <1>1, <1>4
    <3>2. Min(E) \in E /\ Min(E) \in b .. n + 1 /\ \A x \in b .. Min(E) - 1 : x \notin E
      <4> HIDE DEF E
      <4> QED  BY <1>4, <3>1, First
    <3>3. \A x \in b .. n + 1 : x \in Nat
      BY <1>4
    <3> HIDE DEF E
    <3> QED  BY <3>2, <3>3
  <2>3. EndOfToken(l, b) = [line |-> [l EXCEPT ![e] = NUL],
                            p |-> IF l[e] = Space THEN e + 1 ELSE e]
    BY <1>1, <2>2 DEF EndOfToken
  <2>4. t = [tok |-> b, line |-> [l EXCEPT ![e] = NUL],
             p |-> IF l[e] = Space THEN e + 1 ELSE e]
    <3>1. t = [tok |-> b, line |-> EndOfToken(l, b).line, p |-> EndOfToken(l, b).p]
      BY <1>4, <2>1 DEF sh_next_token
    <3> HIDE DEF t
    <3> QED  BY <2>3, <3>1
  <2>5. e \in p .. n + 1 /\ b <= e /\ e # b /\ (l[e] = Space <=> e <= n)
    <3>1. e \in p .. n + 1 /\ b <= e
      BY <1>1, <1>4, <2>2
    <3>2. e # b
      BY <1>4, <2>1, <2>2
    <3>3. l[e] = NUL <=> e = n + 1
      BY <1>2, <3>1
    <3>4. l[e] = Space <=> e <= n
      BY <1>1, <1>2, <2>2, <3>1, <3>3
    <3> QED  BY <3>1, <3>2, <3>4
  <2>6. WordAt(s, p, b, e)
    <3>1. ASSUME NEW i \in b .. e - 1 PROVE s[i] \notin {Space, NUL}
      <4>1. i \in b .. n + 1 /\ i \in p .. n /\ i \notin E
        BY <1>1, <1>4, <2>2, <2>5
      <4> QED  BY <1>1, <4>1
    <3>2. e <= n => b < e /\ s[e] = Space
      BY <1>1, <1>4, <2>2, <2>5
    <3> QED  BY <1>1, <1>4, <2>5, <3>1, <3>2 DEF WordAt, n
  <2> DEFINE q == IF e <= n THEN e + 1 ELSE e
  <2>7. t.tok = b /\ t.line = [l EXCEPT ![e] = NUL] /\ t.p = q
    BY <2>4, <2>5
  <2>8. Uncut([l EXCEPT ![e] = NUL], s, q)
    <3> DEFINE m == [l EXCEPT ![e] = NUL]
    <3>1. /\ m \in Seq(S) /\ Len(m) = n + 1
          /\ \A i \in 1 .. n + 1 : m[i] = IF i = e THEN NUL ELSE l[i]
      <4>1. e \in 1 .. Len(l) /\ NUL \in S
        BY <1>1, <2>5 DEF S
      <4> QED  BY <1>1, <4>1, ExceptSeq
    <3> HIDE DEF m
    <3>2. q \in 1 .. n + 1 /\ q >= e
      BY <1>1, <2>2, <2>5
    <3>3. m[n + 1] = NUL
      BY <1>1, <3>1
    <3>4. ASSUME NEW i \in q .. n PROVE m[i] = s[i]
      <4>1. i \in 1 .. n + 1 /\ i \in p .. n /\ i # e
        BY <1>1, <2>2, <2>5, <3>2
      <4> QED  BY <1>1, <3>1, <4>1
    <3> HIDE DEF q
    <3> QED  BY <3>1, <3>2, <3>3, <3>4 DEF Uncut, n, S, m
  <2>9. e \in 1 .. n + 1
    BY <1>1, <2>5
  <2> HIDE DEF t
  <2> QED  BY <1>4, <1>6, <2>6, <2>7, <2>8, <2>9 DEF AfterCut, t, n
<1> QED  BY <1>5, <1>6

\* A word of the cut line is a piece of the line that was typed.
LEMMA WordShown ==
    ASSUME NEW s \in Seq(Int), \A i \in 1 .. Len(s) : s[i] # NUL,
           NEW m \in Seq(Int \cup {NUL}), Len(m) = Len(s) + 1,
           NEW a \in 1 .. Len(s) + 1, NEW e \in 1 .. Len(s) + 1, a <= e,
           \A i \in a .. e - 1 : m[i] = s[i], m[e] = NUL
    PROVE  StringAt(m, a) = SubSeq(s, a, e - 1)
<1> DEFINE n == Len(s)
           S == Int \cup {NUL}
           T == {i \in a .. n + 1 : m[i] = NUL}
<1>1. n \in Nat /\ a \in Nat /\ e \in Nat /\ a >= 1 /\ e - 1 \in Nat /\ e - 1 <= n
  BY LenProperties
<1>2. PICK k : /\ k = Min(T) /\ k \in T
               /\ \A x \in T : k <= x
  <2>1. T \subseteq Nat /\ e \in T
    BY <1>1
  <2> HIDE DEF T
  <2> QED  BY <2>1, MinIs
<1>3. k = e
  <2>1. k <= e /\ k \in a .. n + 1
    BY <1>1, <1>2
  <2>2. CASE k < e
    <3>1. k \in a .. e - 1 /\ k \in 1 .. n
      BY <1>1, <2>1, <2>2
    <3> QED  BY <1>2, <3>1
  <2> QED  BY <1>1, <2>1, <2>2
<1>4. StringAt(m, a) = SubSeq(m, a, e - 1)
  <2>1. StringAt(m, a) = SubSeq(m, a, Min(T) - 1)
    BY DEF StringAt
  <2> HIDE DEF T
  <2> QED  BY <1>2, <1>3, <2>1
<1>5. s \in Seq(S)
  BY SeqMonotonic
<1>6. SubSeq(m, a, e - 1) = SubSeq(s, a, e - 1)
  <2>1. e - 1 <= Len(m) /\ m \in Seq(S)
    BY <1>1
  <2> HIDE DEF S, n
  <2> QED  BY <1>1, <1>5, <2>1, SamePiece DEF n
<1> QED  BY <1>4, <1>6

\* The words and the rest that the positions stand for.
LEMMA BeginsAt ==
    ASSUME NEW s \in Seq(Int), NEW f \in 1 .. Len(s) + 1, NEW a \in 1 .. Len(s) + 1,
           NEW e \in 1 .. Len(s) + 1, WordAt(s, f, a, e)
    PROVE  Begins(SubSeq(s, f, Len(s)), SubSeq(s, a, e - 1), SubSeq(s, e, Len(s)))
<1> DEFINE n == Len(s)
           r == SubSeq(s, f, n)
           w == SubSeq(s, a, e - 1)
           t == SubSeq(s, e, n)
<1>1. /\ n \in Nat /\ f \in Nat /\ a \in Nat /\ e \in Nat
      /\ f >= 1 /\ a >= 1 /\ e >= 1 /\ f <= a /\ a <= e /\ e <= n + 1
  BY LenProperties DEF WordAt
<1>2. Len(r) = n - f + 1
  <2>1. Len(r) = IF f <= n THEN n - f + 1 ELSE 0
    BY <1>1, Piece
  <2> HIDE DEF r
  <2> QED  BY <1>1, <2>1
<1>3. SubSeq(r, 1, a - f) = SubSeq(s, f, a - 1)
  <2>1. a - f \in Nat /\ 1 \in Nat /\ 1 >= 1 /\ f + (a - f) <= n + 1
        /\ f + 1 - 1 = f /\ f + (a - f) - 1 = a - 1
    BY <1>1
  <2>2. SubSeq(SubSeq(s, f, Len(s)), 1, a - f) = SubSeq(s, f + 1 - 1, f + (a - f) - 1)
    BY <1>1, <2>1, PieceOfEnd
  <2> QED  BY <2>1, <2>2
<1>4. SubSeq(r, a - f + 1, e - f) = w
  <2>1. a - f + 1 \in Nat /\ a - f + 1 >= 1 /\ e - f \in Nat /\ f + (e - f) <= n + 1
        /\ f + (a - f + 1) - 1 = a /\ f + (e - f) - 1 = e - 1
    BY <1>1
  <2>2. SubSeq(SubSeq(s, f, Len(s)), a - f + 1, e - f)
          = SubSeq(s, f + (a - f + 1) - 1, f + (e - f) - 1)
    BY <1>1, <2>1, PieceOfEnd
  <2> QED  BY <2>1, <2>2
<1>5. SubSeq(r, e - f + 1, n - f + 1) = t
  <2>1. e - f + 1 \in Nat /\ e - f + 1 >= 1 /\ n - f + 1 \in Nat /\ f + (n - f + 1) <= n + 1
        /\ f + (e - f + 1) - 1 = e /\ f + (n - f + 1) - 1 = n
    BY <1>1
  <2>2. SubSeq(SubSeq(s, f, Len(s)), e - f + 1, n - f + 1)
          = SubSeq(s, f + (e - f + 1) - 1, f + (n - f + 1) - 1)
    BY <1>1, <2>1, PieceOfEnd
  <2> QED  BY <2>1, <2>2
<1>6. IsBlank(SubSeq(s, f, a - 1))
  <2>1. a - 1 \in Nat /\ a - 1 <= n
    BY <1>1
  <2> DEFINE u == SubSeq(s, f, a - 1)
  <2>2. /\ u \in Seq(Int) /\ Len(u) = IF f <= a - 1 THEN (a - 1) - f + 1 ELSE 0
        /\ \A i \in 1 .. (a - 1) - f + 1 : u[i] = s[f + i - 1]
    BY <1>1, <2>1, Piece
  <2> HIDE DEF u
  <2>3. DOMAIN u = 1 .. Len(u) /\ Len(u) = a - f
    BY <1>1, <2>2, LenProperties
  <2>4. ASSUME NEW i \in DOMAIN u PROVE u[i] = Space
    <3>1. i \in 1 .. (a - 1) - f + 1 /\ f + i - 1 \in f .. a - 1
      BY <1>1, <2>3
    <3> QED  BY <2>2, <3>1 DEF WordAt
  <2> QED  BY <2>4 DEF IsBlank, u
<1>7. /\ IsWord(w) /\ w \in Seq(Int) /\ Len(w) = e - a
  <2>1. e - 1 \in Nat /\ e - 1 <= n
    BY <1>1
  <2>2. /\ w \in Seq(Int) /\ Len(w) = IF a <= e - 1 THEN (e - 1) - a + 1 ELSE 0
        /\ \A i \in 1 .. (e - 1) - a + 1 : w[i] = s[a + i - 1]
    BY <1>1, <2>1, Piece
  <2> HIDE DEF w
  <2>3. DOMAIN w = 1 .. Len(w) /\ Len(w) = e - a
    BY <1>1, <2>2, LenProperties
  <2>4. ASSUME NEW i \in DOMAIN w PROVE w[i] \notin {Space, NUL}
    <3>1. i \in 1 .. (e - 1) - a + 1 /\ a + i - 1 \in a .. e - 1
      BY <1>1, <2>3
    <3> QED  BY <2>2, <3>1 DEF WordAt
  <2> QED  BY <2>2, <2>3, <2>4 DEF IsWord
<1>8. ASSUME t # <<>> PROVE w # <<>> /\ t[1] = Space
  <2>1. /\ t \in Seq(Int) /\ Len(t) = IF e <= n THEN n - e + 1 ELSE 0
        /\ \A i \in 1 .. n - e + 1 : t[i] = s[e + i - 1]
    BY <1>1, Piece
  <2>2. Len(t) # 0
    <3> HIDE DEF t
    <3> QED  BY <1>8, <2>1, EmptySeq
  <2> HIDE DEF t, w
  <2>3. e <= n
    BY <2>1, <2>2
  <2>4. a < e /\ s[e] = Space
    BY <2>3 DEF WordAt, n
  <2>5. 1 \in 1 .. n - e + 1 /\ e + 1 - 1 = e
    BY <1>1, <2>3
  <2>6. Len(w) # 0
    BY <1>1, <1>7, <2>4
  <2>7. w # <<>>
    BY <2>6, EmptySeq
  <2> QED  BY <2>1, <2>4, <2>5, <2>7
<1>9. a - f \in 0 .. Len(r) /\ e - f \in 0 .. Len(r) /\ a - f <= e - f
  BY <1>1, <1>2
<1> DEFINE i == a - f
           j == e - f
<1>10. /\ i \in 0 .. Len(r) /\ j \in 0 .. Len(r) /\ i <= j
       /\ IsBlank(SubSeq(r, 1, i))
       /\ w = SubSeq(r, i + 1, j) /\ IsWord(w)
       /\ t = SubSeq(r, j + 1, Len(r))
       /\ t # <<>> => w # <<>> /\ t[1] = Space
  BY <1>2, <1>3, <1>4, <1>5, <1>6, <1>7, <1>8, <1>9
<1> HIDE DEF i, j, r, w, t
<1>11. Begins(r, w, t)
  BY <1>10 DEF Begins
<1> QED  BY <1>11 DEF r, w, t

\* The rest without the blanks before it.
LEMMA TrimmedAt ==
    ASSUME NEW s \in Seq(Int), NEW e \in 1 .. Len(s) + 1, NEW a \in 1 .. Len(s) + 1, e <= a,
           \A i \in e .. a - 1 : s[i] = Space, a <= Len(s) => s[a] # Space
    PROVE  IsTrimmed(SubSeq(s, e, Len(s)), SubSeq(s, a, Len(s)))
<1> DEFINE n == Len(s)
           r == SubSeq(s, e, n)
           t == SubSeq(s, a, n)
<1>1. /\ n \in Nat /\ a \in Nat /\ e \in Nat /\ a >= 1 /\ e >= 1 /\ a <= n + 1
  BY LenProperties
<1>2. /\ r \in Seq(Int) /\ Len(r) = n - e + 1
  <2>1. r \in Seq(Int) /\ Len(r) = IF e <= n THEN n - e + 1 ELSE 0
    BY <1>1, Piece
  <2> HIDE DEF r
  <2> QED  BY <1>1, <2>1
<1>3. /\ t \in Seq(Int) /\ Len(t) = n - a + 1
      /\ \A i \in 1 .. n - a + 1 : t[i] = s[a + i - 1]
  <2>1. t \in Seq(Int) /\ (Len(t) = IF a <= n THEN n - a + 1 ELSE 0)
        /\ \A i \in 1 .. n - a + 1 : t[i] = s[a + i - 1]
    BY <1>1, Piece
  <2> HIDE DEF t
  <2> QED  BY <1>1, <2>1
<1>4. SubSeq(r, a - e + 1, n - e + 1) = t
  <2>1. a - e + 1 \in Nat /\ a - e + 1 >= 1 /\ n - e + 1 \in Nat /\ e + (n - e + 1) <= n + 1
        /\ e + (a - e + 1) - 1 = a /\ e + (n - e + 1) - 1 = n
    BY <1>1
  <2>2. SubSeq(SubSeq(s, e, Len(s)), a - e + 1, n - e + 1)
          = SubSeq(s, e + (a - e + 1) - 1, e + (n - e + 1) - 1)
    BY <1>1, <2>1, PieceOfEnd
  <2> QED  BY <2>1, <2>2
<1>5. IsSuffix(t, r)
  <2>1. a - e + 1 \in 1 .. Len(r) + 1
    BY <1>1, <1>2
  <2> HIDE DEF r, t
  <2>2. IsSuffix(SubSeq(r, a - e + 1, Len(r)), r)
    BY <1>2, <2>1, EndIsSuffix
  <2> QED  BY <1>2, <1>4, <2>2
<1> DEFINE u == SubSeq(s, e, a - 1)
<1>6. SubSeq(r, 1, Len(r) - Len(t)) = u
  <2>1. a - e \in Nat /\ 1 \in Nat /\ 1 >= 1 /\ e + (a - e) <= n + 1
        /\ e + 1 - 1 = e /\ e + (a - e) - 1 = a - 1
    BY <1>1
  <2>2. SubSeq(SubSeq(s, e, Len(s)), 1, a - e) = SubSeq(s, e + 1 - 1, e + (a - e) - 1)
    BY <1>1, <2>1, PieceOfEnd
  <2>3. Len(r) - Len(t) = a - e
    <3> HIDE DEF r, t
    <3> QED  BY <1>1, <1>2, <1>3
  <2> QED  BY <2>1, <2>2, <2>3
<1>7. IsBlank(u)
  <2>1. a - 1 \in Nat /\ a - 1 <= n
    BY <1>1
  <2>2. /\ u \in Seq(Int) /\ Len(u) = IF e <= a - 1 THEN (a - 1) - e + 1 ELSE 0
        /\ \A i \in 1 .. (a - 1) - e + 1 : u[i] = s[e + i - 1]
    BY <1>1, <2>1, Piece
  <2> HIDE DEF u
  <2>3. DOMAIN u = 1 .. Len(u) /\ Len(u) = a - e
    BY <1>1, <2>2, LenProperties
  <2>4. ASSUME NEW i \in DOMAIN u PROVE u[i] = Space
    <3>1. i \in 1 .. (a - 1) - e + 1 /\ e + i - 1 \in e .. a - 1
      BY <1>1, <2>3
    <3> QED  BY <2>2, <3>1
  <2> QED  BY <2>4 DEF IsBlank
<1>8. ASSUME t # <<>> PROVE t[1] # Space
  <2>1. Len(t) # 0
    <3> HIDE DEF t
    <3> QED  BY <1>3, <1>8, EmptySeq
  <2> HIDE DEF t
  <2>2. a <= n /\ 1 \in 1 .. n - a + 1 /\ a + 1 - 1 = a
    <3>1. n - a + 1 # 0 /\ a \in Nat /\ n \in Nat /\ a <= n + 1
      BY <1>1, <1>3, <2>1
    <3> HIDE DEF n
    <3> QED  BY <3>1
  <2> QED  BY <1>3, <2>2
<1> HIDE DEF r, t, u
<1>9. IsTrimmed(r, t)
  BY <1>5, <1>6, <1>7, <1>8 DEF IsTrimmed
<1> QED  BY <1>9 DEF r, t

\* The shell's cuts give the words of the line, for every line.
LEMMA WordsFound ==
    ASSUME NEW s \in Seq(Int), \A i \in 1 .. Len(s) : s[i] # NUL
    PROVE  AreWords(s, Arguments(Append(s, NUL)))
<1> DEFINE n == Len(s)
           S == Int \cup {NUL}
           l0 == Append(s, NUL)
<1>1. n \in Nat /\ DOMAIN s = 1 .. n
  BY LenProperties
<1>2. Uncut(l0, s, 1)
  <2>1. /\ Len(l0) = n + 1 /\ l0 \in Seq(S)
        /\ \A i \in 1 .. n : l0[i] = s[i]
        /\ l0[n + 1] = NUL
    BY <1>1, LineParts
  <2> HIDE DEF l0, S, n
  <2>2. 1 \in 1 .. n + 1
    BY <1>1
  <2> QED  BY <2>1, <2>2 DEF Uncut, n, S
<1> HIDE DEF l0
<1> DEFINE cmd == sh_next_token(l0, 1)
<1>3. PICK a1, e1 \in 1 .. n + 1 :
         LET q == IF e1 <= n THEN e1 + 1 ELSE e1
         IN  /\ WordAt(s, 1, a1, e1)
             /\ cmd.tok = IF a1 = n + 1 THEN 0 ELSE a1
             /\ cmd.line = AfterCut(l0, s, a1, e1) /\ cmd.p = q
             /\ Uncut(cmd.line, s, q)
  BY <1>2, TokenFound
<1> DEFINE q1 == IF e1 <= n THEN e1 + 1 ELSE e1
<1> HIDE DEF cmd
<1>4. PICK l1 : l1 = cmd.line /\ l1 = AfterCut(l0, s, a1, e1) /\ Uncut(l1, s, q1) /\ cmd.p = q1
  BY <1>3
<1> DEFINE name == sh_next_token(l1, q1)
<1>5. PICK a2, e2 \in 1 .. n + 1 :
         LET q == IF e2 <= n THEN e2 + 1 ELSE e2
         IN  /\ WordAt(s, q1, a2, e2)
             /\ name.tok = IF a2 = n + 1 THEN 0 ELSE a2
             /\ name.line = AfterCut(l1, s, a2, e2) /\ name.p = q
             /\ Uncut(name.line, s, q)
  <2> HIDE DEF q1
  <2> QED  BY <1>4, TokenFound
<1> DEFINE q2 == IF e2 <= n THEN e2 + 1 ELSE e2
<1> HIDE DEF name
<1>6. PICK l2 : l2 = name.line /\ l2 = AfterCut(l1, s, a2, e2) /\ Uncut(l2, s, q2) /\ name.p = q2
  BY <1>5
<1>7. /\ a1 \in Nat /\ e1 \in Nat /\ a2 \in Nat /\ e2 \in Nat
      /\ q1 \in Nat /\ q2 \in Nat /\ e1 <= q1 /\ e2 <= q2 /\ q1 <= n + 1 /\ q2 <= n + 1
      /\ a1 <= e1 /\ q1 <= a2 /\ a2 <= e2
  BY <1>1, <1>3, <1>5 DEF WordAt
<1> DEFINE a3 == sh_skip_spaces(l2, q2)
           T == {i \in q2 .. n + 1 : l2[i] # Space}
<1>8. a3 \in T /\ a3 \in q2 .. n + 1 /\ \A x \in q2 .. a3 - 1 : x \notin T
  <2> HIDE DEF q2
  <2>1. Len(l2) = n + 1 /\ l2[n + 1] = NUL
    BY <1>6 DEF Uncut
  <2>2. T \subseteq q2 .. n + 1 /\ n + 1 \in T /\ n + 1 \in Nat
    BY <1>1, <1>7, <2>1, TokensAssumption
  <2>3. a3 = Min(T)
    BY <2>1 DEF sh_skip_spaces
  <2> HIDE DEF T, a3
  <2> QED  BY <1>7, <2>2, <2>3, First
<1>9. PICK b : /\ b = a3 /\ b \in 1 .. n + 1 /\ b \in Nat /\ q2 <= b
               /\ \A i \in q2 .. b - 1 : s[i] = Space
               /\ b <= n => s[b] # Space
  <2> HIDE DEF a3, q2
  <2>1. a3 \in 1 .. n + 1 /\ a3 \in Nat /\ q2 <= a3 /\ 1 <= q2
    BY <1>1, <1>6, <1>7, <1>8 DEF Uncut
  <2>2. \A i \in q2 .. n : l2[i] = s[i]
    BY <1>6 DEF Uncut
  <2>3. ASSUME NEW i \in q2 .. a3 - 1 PROVE s[i] = Space
    <3>1. i \in q2 .. n /\ i \in q2 .. n + 1 /\ i \notin T
      BY <1>1, <1>7, <1>8, <2>1
    <3> QED  BY <2>2, <3>1
  <2>4. a3 <= n => s[a3] # Space
    BY <1>7, <1>8, <2>1, <2>2
  <2> QED  BY <2>1, <2>3, <2>4
<1> HIDE DEF a3
<1> DEFINE String(p) == IF p = 0 THEN <<>> ELSE StringAt(l2, p)
<1>10. Arguments(l0) = [cmd |-> String(cmd.tok), name |-> String(name.tok), text |-> String(a3)]
  BY <1>4, <1>6 DEF Arguments, cmd, name, a3
<1>11. /\ l1 \in Seq(S) /\ Len(l1) = n + 1 /\ l2 \in Seq(S) /\ Len(l2) = n + 1
       /\ l0 \in Seq(S) /\ Len(l0) = n + 1
       /\ (\A i \in 1 .. n : l0[i] = s[i]) /\ (\A i \in q1 .. n : l1[i] = s[i])
       /\ (\A i \in q2 .. n : l2[i] = s[i]) /\ l2[n + 1] = NUL
  BY <1>2, <1>4, <1>6 DEF Uncut
<1>12. ASSUME NEW l \in Seq(S), Len(l) = n + 1, NEW a \in 1 .. n + 1, NEW e \in 1 .. n + 1,
              a # n + 1, NEW m, m = AfterCut(l, s, a, e)
       PROVE  m[e] = NUL /\ \A i \in 1 .. n + 1 : i # e => m[i] = l[i]
  <2>1. m = [l EXCEPT ![e] = NUL]
    BY <1>12 DEF AfterCut
  <2>2. DOMAIN l = 1 .. n + 1
    BY <1>12, LenProperties
  <2> QED  BY <2>1, <2>2
<1>13. \A l, e : AfterCut(l, s, n + 1, e) = l
  BY DEF AfterCut
<1> HIDE DEF q1, q2, S
<1>14. String(cmd.tok) = SubSeq(s, a1, e1 - 1)
  <2>1. CASE a1 = n + 1
    <3>1. n + 1 \in Int /\ e1 - 1 \in Int /\ e1 - 1 < n + 1 /\ cmd.tok = 0
      BY <1>1, <1>3, <1>7, <2>1
    <3>2. SubSeq(s, n + 1, e1 - 1) = <<>>
      BY <3>1, SubSeqEmpty
    <3> QED  BY <2>1, <3>1, <3>2
  <2>2. CASE a1 # n + 1
    <3>1. /\ l1[e1] = NUL
          /\ \A i \in 1 .. n + 1 : i # e1 => l1[i] = l0[i]
      <4>1. l0 \in Seq(S) /\ Len(l0) = n + 1 /\ l1 = AfterCut(l0, s, a1, e1)
        BY <1>4, <1>11
      <4> HIDE DEF n
      <4> QED  BY <1>12, <2>2, <4>1
    <3>2. \A i \in 1 .. e1 : l2[i] = l1[i]
      <4>1. CASE a2 = n + 1
        BY <1>6, <1>13, <4>1
      <4>2. CASE a2 # n + 1
        <5>1. \A i \in 1 .. n + 1 : i # e2 => l2[i] = l1[i]
          <6>1. l1 \in Seq(S) /\ Len(l1) = n + 1 /\ l2 = AfterCut(l1, s, a2, e2)
            BY <1>6, <1>11
          <6> HIDE DEF n
          <6> QED  BY <1>12, <4>2, <6>1
        <5>2. e1 < e2
          <6>1. CASE e1 <= n
            BY <1>7, <6>1 DEF q1
          <6>2. CASE e1 = n + 1
            BY <1>1, <1>7, <4>2, <6>2
          <6> QED  BY <1>1, <6>1, <6>2
        <5>3. \A i \in 1 .. e1 : i # e2 /\ i \in 1 .. n + 1
          BY <1>1, <1>7, <5>2
        <5> QED  BY <5>1, <5>3
      <4> QED  BY <4>1, <4>2
    <3>3. l2[e1] = NUL
      BY <1>7, <3>1, <3>2
    <3>4. ASSUME NEW i \in a1 .. e1 - 1 PROVE l2[i] = s[i]
      <4>1. i \in 1 .. e1 /\ i # e1 /\ i \in 1 .. n /\ i \in 1 .. n + 1
        BY <1>1, <1>7
      <4> QED  BY <1>11, <3>1, <3>2, <4>1
    <3>5. StringAt(l2, a1) = SubSeq(s, a1, e1 - 1)
      BY <1>7, <1>11, <3>3, <3>4, WordShown DEF S, n
    <3>6. cmd.tok = a1 /\ a1 # 0
      BY <1>3, <2>2
    <3> QED  BY <3>5, <3>6
  <2> QED  BY <2>1, <2>2
<1>15. String(name.tok) = SubSeq(s, a2, e2 - 1)
  <2>1. CASE a2 = n + 1
    <3>1. n + 1 \in Int /\ e2 - 1 \in Int /\ e2 - 1 < n + 1 /\ name.tok = 0
      BY <1>1, <1>5, <1>7, <2>1
    <3>2. SubSeq(s, n + 1, e2 - 1) = <<>>
      BY <3>1, SubSeqEmpty
    <3> QED  BY <2>1, <3>1, <3>2
  <2>2. CASE a2 # n + 1
    <3>1. /\ l2[e2] = NUL
          /\ \A i \in 1 .. n + 1 : i # e2 => l2[i] = l1[i]
      <4>1. l1 \in Seq(S) /\ Len(l1) = n + 1 /\ l2 = AfterCut(l1, s, a2, e2)
        BY <1>6, <1>11
      <4> HIDE DEF n
      <4> QED  BY <1>12, <2>2, <4>1
    <3>2. ASSUME NEW i \in a2 .. e2 - 1 PROVE l2[i] = s[i]
      <4>1. i # e2 /\ i \in q1 .. n /\ i \in 1 .. n + 1
        BY <1>1, <1>7
      <4> QED  BY <1>11, <3>1, <4>1
    <3>3. StringAt(l2, a2) = SubSeq(s, a2, e2 - 1)
      BY <1>7, <1>11, <3>1, <3>2, WordShown DEF S, n
    <3>4. name.tok = a2 /\ a2 # 0
      BY <1>5, <2>2
    <3> QED  BY <3>3, <3>4
  <2> QED  BY <2>1, <2>2
<1>16. String(a3) = SubSeq(s, b, n)
  <2>1. n + 1 \in 1 .. n + 1 /\ b <= n + 1 /\ (n + 1) - 1 = n
    BY <1>1, <1>9
  <2>2. ASSUME NEW i \in b .. (n + 1) - 1 PROVE l2[i] = s[i]
    <3>1. i \in q2 .. n
      BY <1>1, <1>7, <1>9
    <3> QED  BY <1>11, <3>1
  <2>3. StringAt(l2, b) = SubSeq(s, b, (n + 1) - 1)
    <3>1. PICK e, m : e = n + 1 /\ m = l2
      OBVIOUS
    <3>2. /\ e \in 1 .. Len(s) + 1 /\ b \in 1 .. Len(s) + 1 /\ b <= e
          /\ m \in Seq(Int \cup {NUL}) /\ Len(m) = Len(s) + 1 /\ m[e] = NUL
      BY <1>9, <1>11, <2>1, <3>1 DEF S, n
    <3>3. \A i \in b .. e - 1 : m[i] = s[i]
      BY <2>2, <3>1
    <3>4. StringAt(m, b) = SubSeq(s, b, e - 1)
      BY <3>2, <3>3, WordShown
    <3> QED  BY <3>1, <3>4
  <2>4. a3 # 0
    BY <1>9
  <2> QED  BY <1>9, <2>1, <2>3, <2>4
<1> HIDE DEF String
<1> DEFINE args == Arguments(l0)
           r1 == SubSeq(s, e1, n)
           r2 == SubSeq(s, e2, n)
<1>17. args.cmd = SubSeq(s, a1, e1 - 1) /\ args.name = SubSeq(s, a2, e2 - 1)
       /\ args.text = SubSeq(s, b, n)
  <2>1. args = [cmd |-> String(cmd.tok), name |-> String(name.tok), text |-> String(a3)]
    BY <1>10
  <2> HIDE DEF args, l0
  <2> QED  BY <1>14, <1>15, <1>16, <2>1
<1> HIDE DEF args
<1>18. Begins(s, args.cmd, r1)
  <2>1. SubSeq(s, 1, Len(s)) = s
    BY SubSeqFull
  <2>2. 1 \in 1 .. Len(s) + 1
    BY <1>1
  <2>3. Begins(SubSeq(s, 1, Len(s)), SubSeq(s, a1, e1 - 1), SubSeq(s, e1, Len(s)))
    BY <1>3, <2>2, BeginsAt
  <2> QED  BY <1>17, <2>1, <2>3
<1>19. Begins(r1, args.name, r2)
  <2>1. WordAt(s, e1, a2, e2)
    <3>1. ASSUME NEW i \in e1 .. a2 - 1 PROVE s[i] = Space
      <4>1. CASE i < q1
        <5>1. e1 <= n /\ i = e1
          BY <1>1, <1>7, <4>1 DEF q1
        <5> QED  BY <1>3, <5>1 DEF WordAt
      <4>2. CASE ~ (i < q1)
        <5>1. i \in q1 .. a2 - 1
          BY <1>7, <4>2
        <5> QED  BY <1>5, <5>1 DEF WordAt, q1
      <4> QED  BY <4>1, <4>2
    <3>2. e1 <= a2 /\ a2 <= e2
      BY <1>7
    <3>3. /\ \A i \in a2 .. e2 - 1 : s[i] \notin {Space, NUL}
          /\ e2 <= Len(s) => a2 < e2 /\ s[e2] = Space
      BY <1>5 DEF WordAt
    <3> QED  BY <3>1, <3>2, <3>3 DEF WordAt
  <2>2. Begins(SubSeq(s, e1, Len(s)), SubSeq(s, a2, e2 - 1), SubSeq(s, e2, Len(s)))
    BY <2>1, BeginsAt
  <2> QED  BY <1>17, <2>2
<1>20. IsTrimmed(r2, args.text)
  <2>1. ASSUME NEW i \in e2 .. b - 1 PROVE s[i] = Space
    <3>1. CASE i < q2
      <4>1. e2 <= n /\ i = e2
        BY <1>1, <1>7, <3>1 DEF q2
      <4> QED  BY <1>5, <4>1 DEF WordAt
    <3>2. CASE ~ (i < q2)
      <4>1. i \in q2 .. b - 1
        BY <1>7, <1>9, <3>2
      <4> QED  BY <1>9, <4>1
    <3> QED  BY <3>1, <3>2
  <2>2. e2 <= b
    BY <1>7, <1>9
  <2>3. IsTrimmed(SubSeq(s, e2, Len(s)), SubSeq(s, b, Len(s)))
    BY <1>9, <2>1, <2>2, TrimmedAt
  <2> QED  BY <1>17, <2>3
<1>21. r1 \in {SubSeq(s, i, n) : i \in 1 .. n + 1} /\ r2 \in {SubSeq(s, i, n) : i \in 1 .. n + 1}
  OBVIOUS
<1> HIDE DEF r1, r2
<1>22. AreWords(s, args)
  BY <1>18, <1>19, <1>20, <1>21 DEF AreWords, n
<1> QED  BY <1>22 DEF args, l0

\* Whatever blanks a line has and wherever it ends, the command, the name and the text are
\* its first two words and what follows them (sh_next_token, sh_skip_spaces).
THEOREM LineIsCut == Spec => []TokensAreWords
<1>1. Init => TokensAreWords
  BY DEF Init, NoCall, TokensAreWords
<1>2. TokensAreWords /\ [Next]_call => TokensAreWords'
  <2> SUFFICES ASSUME TokensAreWords, [Next]_call PROVE TokensAreWords'
    OBVIOUS
  <2>1. CASE CallMemory
    BY <2>1 DEF CallMemory, TokensAreWords
  <2>2. CASE CallNumber
    BY <2>2 DEF CallNumber, TokensAreWords
  <2>3. CASE CallLine
    <3>1. PICK line \in CommandLines : call' = [of |-> "line", line |-> line]
      BY <2>3 DEF CallLine
    <3>2. line \in Seq(Int) /\ \A i \in DOMAIN line : line[i] # NUL
      BY LibraryAssumption
    <3>3. DOMAIN line = 1 .. Len(line)
      BY <3>2, LenProperties
    <3>4. AreWords(line, Arguments(Append(line, NUL)))
      BY <3>2, <3>3, WordsFound
    <3> QED  BY <3>1, <3>4 DEF TokensAreWords
  <2>4. CASE CallImage
    BY <2>4 DEF CallImage, TokensAreWords
  <2>5. CASE CallKernel
    BY <2>5 DEF CallKernel, TokensAreWords
  <2>6. CASE CallGate
    BY <2>6 DEF CallGate, TokensAreWords
  <2>7. CASE CallChar
    BY <2>7 DEF CallChar, TokensAreWords
  <2>8. CASE UNCHANGED call
    BY <2>8 DEF TokensAreWords
  <2> QED  BY <2>1, <2>2, <2>3, <2>4, <2>5, <2>6, <2>7, <2>8 DEF Next
<1> QED  BY <1>1, <1>2, PTL DEF Spec

-----------------------------------------------------------------------------
(* The image                                                               *)

Byte   == 0 .. 255
NameByte == 1 .. 255

\* Four bytes hold a number, the lowest first.
LEMMA PackedBack ==
    ASSUME NEW n \in Nat, Fits32(n)
    PROVE  /\ Pack32(n) \in Seq(Byte) /\ Len(Pack32(n)) = 4
           /\ Pack32(n)[1] + 256 * Pack32(n)[2] + 65536 * Pack32(n)[3]
                + 16777216 * Pack32(n)[4] = n
<1>1. PICK q1, q2, q3 : q1 = n \div 256 /\ q2 = n \div 65536 /\ q3 = n \div 16777216
  OBVIOUS
<1>2. q1 \in Nat /\ n = 256 * q1 + (n % 256) /\ n % 256 \in Byte
  BY <1>1 DEF Byte
<1>3. q2 \in Nat /\ q1 = 256 * q2 + (q1 % 256) /\ q1 % 256 \in Byte
  <2>1. q2 = q1 \div 256
    BY <1>1, SMTT(60)
  <2> QED  BY <1>2, <2>1 DEF Byte
<1>4. q3 \in Nat /\ q2 = 256 * q3 + (q2 % 256) /\ q2 % 256 \in Byte
  <2>1. q3 = q2 \div 256
    BY <1>1, SMTT(60)
  <2> QED  BY <1>3, <2>1 DEF Byte
<1>5. q3 % 256 = q3 /\ q3 \in Byte
  <2>1. q2 < 65536
    BY <1>1 DEF Fits32
  <2>2. q3 < 256
    BY <1>4, <2>1 DEF Byte
  <2> QED  BY <1>4, <2>2 DEF Byte
<1>6. Pack32(n) = <<n % 256, q1 % 256, q2 % 256, q3>>
  BY <1>1, <1>5 DEF Pack32
<1>7. Pack32(n) \in Seq(Byte) /\ Len(Pack32(n)) = 4
  BY <1>2, <1>3, <1>4, <1>5, <1>6
<1>8. (n % 256) + 256 * (q1 % 256) + 65536 * (q2 % 256) + 16777216 * q3 = n
  <2>1. PICK r0, r1, r2 \in Int : r0 = n % 256 /\ r1 = q1 % 256 /\ r2 = q2 % 256
    BY <1>2, <1>3, <1>4 DEF Byte
  <2>2. n = 256 * q1 + r0 /\ q1 = 256 * q2 + r1 /\ q2 = 256 * q3 + r2
    BY <1>2, <1>3, <1>4, <2>1
  <2>3. r0 + 256 * r1 + 65536 * r2 + 16777216 * q3 = n
    BY <1>2, <1>3, <1>4, <2>2
  <2> QED  BY <2>1, <2>3
<1> QED  BY <1>6, <1>7, <1>8

\* Where the parts are, when part k begins behind position off[k - 1] - off[0].
LEMMA PartsPlaced ==
    ASSUME NEW S, NEW ss \in Seq(Seq(S)), Len(ss) > 0, NEW off \in [0 .. Len(ss) -> Nat],
           \A k \in 1 .. Len(ss) : off[k] = off[k - 1] + Len(ss[k])
    PROVE  /\ FlattenSeq(ss) \in Seq(S) /\ Len(FlattenSeq(ss)) = off[Len(ss)] - off[0]
           /\ \A k \in 1 .. Len(ss) : off[0] <= off[k - 1] /\ off[k] <= off[Len(ss)]
           /\ \A k \in 1 .. Len(ss) : \A j \in 1 .. Len(ss[k]) :
                FlattenSeq(ss)[off[k - 1] - off[0] + j] = ss[k][j]
<1> DEFINE n == Len(ss)
<1>1. /\ n \in Nat /\ n > 0 /\ \A k \in 1 .. n : ss[k] \in Seq(S) /\ Len(ss[k]) \in Nat
      /\ off[0] \in Nat
  BY LenProperties, ElementOfSeq
<1>2. PICK run \in [0 .. n -> Seq(S)] :
              /\ run[0] = <<>> /\ FlattenSeq(ss) = run[n]
              /\ \A k \in 1 .. n : run[k] = run[k - 1] \o ss[k]
  BY FlattenRuns
<1>3. PICK b \in Nat : b = off[0]
  BY <1>1
<1> DEFINE Placed(r, m) ==
             /\ b <= off[m] /\ Len(r) = off[m] - b
             /\ \A k \in 1 .. m :
                  /\ b <= off[k - 1] /\ off[k] <= off[m]
                  /\ \A j \in 1 .. Len(ss[k]) : r[off[k - 1] - b + j] = ss[k][j]
           T == {m \in 0 .. n : Placed(run[m], m)}
<1>8. off \in [0 .. n -> Nat]
  OBVIOUS
<1> HIDE DEF n
<1>4. 0 \in T
  <2>1. Placed(<<>>, 0)
    <3>1. \A k \in 1 .. 0 : FALSE
      OBVIOUS
    <3>2. Len(<<>>) = off[0] - b
      BY <1>3
    <3> QED  BY <1>3, <3>1, <3>2
  <2> HIDE DEF Placed
  <2> QED  BY <1>1, <1>2, <2>1
<1>5. ASSUME NEW m \in 1 .. n, m - 1 \in T PROVE m \in T
  <2>1. m \in Nat /\ m \in 0 .. n /\ m - 1 \in 0 .. n
    BY <1>1
  <2>2. PICK r \in Seq(S), s \in Seq(S), c \in Nat, d \in Nat :
           r = run[m - 1] /\ s = ss[m] /\ c = off[m - 1] /\ d = off[m]
    BY <1>1, <1>2, <1>8, <2>1
  <2>3. Placed(r, m - 1)
    BY <1>5, <2>2
  <2>4. PICK u : u = run[m] /\ u = r \o s
    BY <1>2, <2>2
  <2>5. PICK p \in Nat, q \in Nat : p = Len(r) /\ q = Len(s)
    BY LenProperties
  <2>6. Len(u) = p + q /\ \A i \in 1 .. p + q : u[i] = IF i <= p THEN r[i] ELSE s[i - p]
    BY <2>4, <2>5, ConcatProperties
  <2>7. d = c + q /\ p = c - b /\ b <= c
    BY <2>2, <2>3, <2>5 DEF n
  <2>8. b <= d /\ Len(u) = d - b
    <3>1. Len(u) = p + q
      BY <2>6
    <3> QED  BY <2>7, <3>1
  <2>10. ASSUME NEW k \in 1 .. m
        PROVE  /\ b <= off[k - 1] /\ off[k] <= off[m]
               /\ \A j \in 1 .. Len(ss[k]) : u[off[k - 1] - b + j] = ss[k][j]
    <3>1. CASE k = m
      <4>1. ASSUME NEW j \in 1 .. q PROVE u[c - b + j] = s[j]
        <5>1. PICK i \in Int : i = c - b + j
          OBVIOUS
        <5>2. i \in 1 .. p + q /\ ~ (i <= p) /\ i - p = j
          BY <2>7, <5>1
        <5> QED  BY <2>6, <5>1, <5>2
      <4>2. /\ off[k - 1] = c /\ off[k] = d /\ off[m] = d /\ ss[k] = s /\ Len(ss[k]) = q
        BY <2>2, <2>5, <3>1, Zenon
      <4>3. b <= c /\ d <= d
        BY <2>7
      <4> QED  BY <4>1, <4>2, <4>3
    <3>2. CASE k # m
      <4>1. k \in 1 .. m - 1 /\ k \in 1 .. n /\ k \in 0 .. n /\ k - 1 \in 0 .. n
        BY <1>1, <2>1, <3>2
      <4>2. PICK e \in Nat, f \in Nat, l \in Nat : e = off[k - 1] /\ f = off[k] /\ l = Len(ss[k])
        BY <1>1, <1>8, <4>1
      <4>3. /\ b <= e /\ f <= c
            /\ \A j \in 1 .. l : r[e - b + j] = ss[k][j]
        BY <2>2, <2>3, <4>1, <4>2
      <4>4. f = e + l
        BY <4>1, <4>2 DEF n
      <4>5. ASSUME NEW j \in 1 .. l PROVE u[e - b + j] = ss[k][j]
        <5>1. PICK i \in Int : i = e - b + j
          OBVIOUS
        <5>2. b <= e /\ f <= c
          BY <4>3
        <5>3. i \in 1 .. p + q /\ i <= p
          BY <2>7, <4>4, <5>1, <5>2
        <5> QED  BY <2>6, <4>3, <5>1, <5>3
      <4>6. b <= e /\ f <= d
        <5>1. b <= e /\ f <= c
          BY <4>3
        <5> QED  BY <2>7, <5>1
      <4> QED  BY <2>2, <4>2, <4>5, <4>6
    <3> QED  BY <3>1, <3>2
  <2>9. Placed(u, m)
    BY <2>2, <2>8, <2>10
  <2> HIDE DEF Placed
  <2> QED  BY <2>1, <2>4, <2>9
<1>6. n \in T
  <2> HIDE DEF T
  <2>1. n \in 0 .. n
    BY <1>1
  <2> QED  BY <1>1, <1>4, <1>5, <2>1, UpTo
<1>7. Placed(run[n], n) /\ run[n] \in Seq(S)
  BY <1>2, <1>6
<1> QED  BY <1>2, <1>3, <1>7 DEF n

ImageEntry == [name : Seq(NameByte), data : Seq(Byte)]

\* The cursor of each entry: the data begin behind the table, and each behind the one before.
LEMMA CursorRuns ==
    ASSUME NEW entries \in Seq(ImageEntry)
    PROVE  \E off \in [0 .. Len(entries) -> Nat] :
              /\ off[0] = DataOffset(Len(entries))
              /\ \A k \in 1 .. Len(entries) : /\ off[k] = off[k - 1] + Len(entries[k].data)
                                              /\ Cursor(entries, k) = off[k - 1]
<1> DEFINE n == Len(entries)
           base == DataOffset(n)
           body == [x \in (1 .. n) \X Nat |-> x[2] + Len(entries[x[1]].data)]
<1>1. n \in Nat /\ \A i \in 1 .. n : entries[i].data \in Seq(Byte) /\ Len(entries[i].data) \in Nat
  <2>1. n \in Nat /\ \A i \in 1 .. n : entries[i] \in ImageEntry
    BY LenProperties, ElementOfSeq
  <2>2. \A x \in Seq(Byte) : Len(x) \in Nat
    BY LenProperties
  <2> QED  BY <2>1, <2>2 DEF ImageEntry
<1>2. base \in Nat
  <2>1. NameLen + 4 + 4 \in Nat /\ Len(MAGIC) = 6
    BY ImageAssumption DEF MAGIC
  <2> QED  BY <1>1, <2>1 DEF DataOffset
<1> HIDE DEF n, base
<1>3. body \in [(1 .. n) \X Nat -> Nat]
  BY <1>1
<1>4. PICK it \in [SUBSET (1 .. n) -> Nat] : Iterates(it, n, base, body)
  <2> HIDE DEF body
  <2> QED  BY <1>1, <1>2, <1>3, LoopExists
<1> DEFINE off == [k \in 0 .. n |-> it[1 .. k]]
<1>5. \A k \in 0 .. n : 1 .. k \in SUBSET (1 .. n)
  BY <1>1
<1>6. off \in [0 .. n -> Nat]
  BY <1>4, <1>5
<1>7. off[0] = base
  <2>1. 1 .. 0 = {} /\ {} \in SUBSET (1 .. n) /\ 0 \in 0 .. n
    BY <1>1
  <2> HIDE DEF body
  <2> QED  BY <1>4, <2>1 DEF Iterates
<1>8. ASSUME NEW k \in 1 .. n PROVE off[k] = off[k - 1] + Len(entries[k].data)
  <2>1. k \in Nat /\ k > 0 /\ k \in 0 .. n /\ k - 1 \in 0 .. n /\ k \in 1 .. k
    BY <1>1
  <2>2. Max(1 .. k) = k /\ (1 .. k) \ {k} = 1 .. k - 1
    BY <2>1, MaxOfBeginning
  <2>3. 1 .. k \in SUBSET (1 .. n) /\ 1 .. k # {} /\ 1 .. k - 1 \in SUBSET (1 .. n)
    BY <1>5, <2>1
  <2>4. it[1 .. k] = body[<<k, it[1 .. k - 1]>>]
    <3> HIDE DEF body
    <3> QED  BY <1>4, <2>2, <2>3 DEF Iterates
  <2>5. it[1 .. k - 1] \in Nat
    BY <1>4, <2>3
  <2> QED  BY <2>1, <2>4, <2>5
<1>9. ASSUME NEW k \in 1 .. n PROVE Cursor(entries, k) = off[k - 1]
  <2> DEFINE s == SubSeq(entries, 1, k - 1)
             m == k - 1
  <2>1. /\ m \in Nat /\ m <= n /\ Len(s) = m /\ DOMAIN s = 1 .. m
        /\ \A i \in 1 .. m : s[i] = entries[i] /\ i \in 1 .. n
    <3>1. m \in Nat /\ m <= n /\ 1 \in Nat /\ 1 >= 1
      BY <1>1
    <3>2. /\ s \in Seq(ImageEntry)
          /\ Len(s) = IF 1 <= m THEN m - 1 + 1 ELSE 0
          /\ \A i \in 1 .. m - 1 + 1 : s[i] = entries[1 + i - 1]
      <4> HIDE DEF m
      <4>1. m <= Len(entries)
        BY <3>1 DEF n
      <4>2. /\ SubSeq(entries, 1, m) \in Seq(ImageEntry)
            /\ Len(SubSeq(entries, 1, m)) = IF 1 <= m THEN m - 1 + 1 ELSE 0
            /\ \A i \in 1 .. m - 1 + 1 : SubSeq(entries, 1, m)[i] = entries[1 + i - 1]
        BY <3>1, <4>1, Piece
      <4> QED  BY <4>2 DEF m
    <3>3. Len(s) = m /\ DOMAIN s = 1 .. Len(s)
      <4> HIDE DEF s, m
      <4> QED  BY <3>1, <3>2, LenProperties
    <3> HIDE DEF s, m
    <3>4. ASSUME NEW i \in 1 .. m PROVE s[i] = entries[i] /\ i \in 1 .. n
      <4>1. i \in 1 .. m - 1 + 1 /\ 1 + i - 1 = i /\ i \in 1 .. n
        BY <1>1, <3>1
      <4> QED  BY <3>2, <4>1
    <3> QED  BY <3>1, <3>3, <3>4
  <2> HIDE DEF s, m
  <2> DEFINE Eq(f) == f = [t \in SUBSET DOMAIN s |->
                             IF t = {} THEN base ELSE f[t \ {Max(t)}] + Len(s[Max(t)].data)]
             g == CHOOSE f : Eq(f)
  <2>2. Cursor(entries, k) = g[DOMAIN s]
    BY DEF Cursor, FoldLeft, MapThenFoldSet, s, m, base, n
  <2>3. Eq(g)
    <3> DEFINE f == [t \in SUBSET (1 .. m) |-> it[t]]
    <3>1. ASSUME NEW t \in SUBSET (1 .. m)
          PROVE  f[t] = IF t = {} THEN base ELSE f[t \ {Max(t)}] + Len(s[Max(t)].data)
      <4>1. t \in SUBSET (1 .. n)
        BY <2>1
      <4>2. CASE t = {}
        <5> HIDE DEF body
        <5> QED  BY <1>4, <4>1, <4>2 DEF Iterates
      <4>3. CASE t # {}
        <5>1. Max(t) \in t /\ t \ {Max(t)} \in SUBSET (1 .. n)
          BY <1>1, <4>1, <4>3, LastTurn
        <5>2. PICK x, r : x = Max(t) /\ r = t \ {Max(t)}
          OBVIOUS
        <5>3. x \in 1 .. m /\ x \in 1 .. n /\ r \in SUBSET (1 .. n) /\ r \in SUBSET (1 .. m)
          BY <2>1, <5>1, <5>2
        <5>4. it[t] = body[<<x, it[r]>>]
          <6> HIDE DEF body
          <6> QED  BY <1>4, <4>1, <4>3, <5>2 DEF Iterates
        <5>5. it[r] \in Nat
          BY <1>4, <5>3
        <5>6. it[t] = it[r] + Len(entries[x].data)
          BY <5>3, <5>4, <5>5
        <5>7. s[x] = entries[x]
          BY <2>1, <5>3
        <5> QED  BY <4>3, <5>2, <5>3, <5>6, <5>7
      <4> QED  BY <4>2, <4>3
    <3>2. f = [t \in SUBSET DOMAIN s |-> f[t]]
      BY <2>1
    <3>3. Eq(f)
      <4> HIDE DEF f, body
      <4> QED  BY <2>1, <3>1, <3>2
    <3> HIDE DEF Eq, f
    <3> QED  BY <3>3
  <2>4. ASSUME NEW j \in 0 .. m PROVE 1 .. j \in SUBSET DOMAIN s
    BY <2>1
  <2> DEFINE T == {j \in 0 .. m : g[1 .. j] = off[j]}
  <2> HIDE DEF g
  <2>5. 0 \in T
    <3>1. 1 .. 0 = {} /\ {} \in SUBSET DOMAIN s /\ 0 \in 0 .. m
      BY <2>1
    <3> HIDE DEF off
    <3> QED  BY <1>7, <2>3, <3>1
  <2>6. ASSUME NEW j \in 1 .. m, j - 1 \in T PROVE j \in T
    <3>1. j \in Nat /\ j > 0 /\ j \in 0 .. m /\ j - 1 \in 0 .. m /\ j \in 1 .. j
      BY <2>1
    <3>2. Max(1 .. j) = j /\ (1 .. j) \ {j} = 1 .. j - 1
      BY <3>1, MaxOfBeginning
    <3>3. 1 .. j \in SUBSET DOMAIN s /\ 1 .. j # {}
      BY <2>4, <3>1
    <3> HIDE DEF off
    <3>4. g[1 .. j] = g[1 .. j - 1] + Len(s[j].data)
      BY <2>3, <3>2, <3>3
    <3>5. g[1 .. j - 1] = off[j - 1]
      BY <2>6
    <3>6. off[j] = off[j - 1] + Len(entries[j].data) /\ s[j] = entries[j]
      BY <1>8, <2>1
    <3> QED  BY <3>1, <3>4, <3>5, <3>6
  <2>7. m \in T
    <3> HIDE DEF T
    <3>1. m \in 0 .. m
      BY <2>1
    <3> QED  BY <2>1, <2>5, <2>6, <3>1, UpTo
  <2>8. g[1 .. m] = off[m]
    BY <2>7
  <2> HIDE DEF off
  <2> QED  BY <2>1, <2>2, <2>8 DEF m
<1> HIDE DEF off
<1> QED  BY <1>6, <1>7, <1>8, <1>9 DEF n, base

RowOf(name, a, l) == Padded(name) \o Pack32(a) \o Pack32(l)

IsRow(row, name, a, l) ==
    /\ row \in Seq(Byte) /\ Len(row) = NameLen + 8
    /\ Padded(name) \in Seq(Byte) /\ Len(Padded(name)) = NameLen
    /\ \A j \in 1 .. NameLen : row[j] = Padded(name)[j]
    /\ \A j \in 1 .. 4 : row[NameLen + j] = Pack32(a)[j]
    /\ \A j \in 1 .. 4 : row[NameLen + 4 + j] = Pack32(l)[j]

\* A row of the table: the name, filled up with NULs, and two numbers.
LEMMA RowParts ==
    ASSUME NEW name \in Seq(NameByte), Len(name) < NameLen,
           NEW a \in Nat, Fits32(a), NEW l \in Nat, Fits32(l)
    PROVE  IsRow(RowOf(name, a, l), name, a, l)
<1> DEFINE row == RowOf(name, a, l)
<1>1. NameLen \in Nat /\ Len(name) \in Nat /\ name \in Seq(Byte)
  <2>1. NameByte \subseteq Byte
    BY DEF NameByte, Byte
  <2> QED  BY <2>1, ImageAssumption, LenProperties, SeqMonotonic
<1> DEFINE nuls == [i \in 1 .. NameLen - Len(name) |-> 0]
<1>2. nuls \in Seq(Byte) /\ Len(nuls) = NameLen - Len(name)
  <2>1. NameLen - Len(name) \in Nat /\ \A i \in 1 .. NameLen - Len(name) : 0 \in Byte
    BY <1>1 DEF Byte
  <2> QED  BY <2>1, IsASeq
<1> HIDE DEF nuls
<1>3. Padded(name) \in Seq(Byte) /\ Len(Padded(name)) = NameLen
  <2>1. Padded(name) = name \o nuls
    BY DEF Padded, nuls
  <2>2. Len(name \o nuls) = Len(name) + Len(nuls) /\ name \o nuls \in Seq(Byte)
    BY <1>1, <1>2, ConcatProperties
  <2> QED  BY <1>1, <1>2, <2>1, <2>2
<1>4. PICK p \in Seq(Byte), x \in Seq(Byte), y \in Seq(Byte) :
         /\ p = Padded(name) /\ x = Pack32(a) /\ y = Pack32(l)
         /\ Len(p) = NameLen /\ Len(x) = 4 /\ Len(y) = 4
  BY <1>3, PackedBack
<1>5. PICK h : h = p \o x
  OBVIOUS
<1>11. PICK four : four = 4
  OBVIOUS
<1>12. /\ h \in Seq(Byte) /\ Len(h) = NameLen + four
       /\ \A j \in 1 .. NameLen : h[j] = p[j]
       /\ \A j \in 1 .. four : h[NameLen + j] = x[j]
  <2>1. NameLen = Len(p) /\ four = Len(x)
    BY <1>4, <1>11
  <2> QED  BY <1>5, <2>1, After
<1>6. PICK m \in Nat : m = NameLen + 4
  BY <1>1
<1>7. /\ row \in Seq(Byte) /\ Len(row) = m + four
      /\ \A j \in 1 .. m : row[j] = h[j]
      /\ \A j \in 1 .. four : row[m + j] = y[j]
  <2>1. row = h \o y /\ m = Len(h) /\ four = Len(y) /\ h \in Seq(Byte) /\ y \in Seq(Byte)
    BY <1>4, <1>5, <1>6, <1>11, <1>12 DEF RowOf
  <2> HIDE DEF row
  <2> QED  BY <2>1, After
<1> HIDE DEF row
<1>8. ASSUME NEW j \in 1 .. NameLen PROVE row[j] = p[j]
  <2>1. j \in 1 .. m
    BY <1>1, <1>6
  <2> QED  BY <1>7, <1>11, <1>12, <2>1
<1>9. ASSUME NEW j \in 1 .. 4 PROVE row[NameLen + j] = x[j]
  <2>1. NameLen + j \in 1 .. m
    BY <1>1, <1>6
  <2> QED  BY <1>7, <1>11, <1>12, <2>1
<1>10. NameLen + 8 = m + 4
  BY <1>1, <1>6
<1> QED  BY <1>3, <1>4, <1>6, <1>7, <1>8, <1>9, <1>10, <1>11 DEF row, IsRow

\* The kernel and the files, with names that fit.
LEMMA EntriesAre ==
    ASSUME NEW kernel \in Seq(Byte), NEW files \in Seq(ImageEntry), Packable(kernel, files),
           NEW E, E = Entries(kernel, files)
    PROVE  /\ E \in Seq(ImageEntry) /\ Len(E) = 1 + Len(files) /\ Len(files) \in Nat
           /\ E[1] = [name |-> KERNEL, data |-> kernel]
           /\ \A i \in 1 .. Len(files) : E[1 + i] = files[i]
           /\ \A k \in 1 .. Len(E) : Len(E[k].name) < NameLen
<1>1. /\ KERNEL \in Seq(NameByte) /\ Len(KERNEL) < NameLen
  BY ImageAssumption DEF KERNEL, NameByte
<1> DEFINE first == << [name |-> KERNEL, data |-> kernel] >>
<1>2. first \in Seq(ImageEntry) /\ Len(first) = 1 /\ first[1] = [name |-> KERNEL, data |-> kernel]
  BY <1>1 DEF ImageEntry
<1>3. E = first \o files
  BY DEF Entries
<1> HIDE DEF first
<1>4. PICK n \in Nat : n = Len(files)
  BY LenProperties
<1>5. /\ E \in Seq(ImageEntry) /\ Len(E) = 1 + n
      /\ \A j \in 1 .. 1 : E[j] = first[j]
      /\ \A j \in 1 .. n : E[1 + j] = files[j]
  <2>1. PICK one : one = 1
    OBVIOUS
  <2>2. one = Len(first) /\ n = Len(files) /\ first \in Seq(ImageEntry)
    BY <1>2, <1>4, <2>1
  <2>3. /\ E \in Seq(ImageEntry) /\ Len(E) = one + n
        /\ \A j \in 1 .. one : E[j] = first[j]
        /\ \A j \in 1 .. n : E[one + j] = files[j]
    BY <1>3, <2>2, After
  <2> QED  BY <2>1, <2>3
<1>6. ASSUME NEW k \in 1 .. Len(E) PROVE Len(E[k].name) < NameLen
  <2>1. CASE k = 1
    BY <1>1, <1>2, <1>5, <2>1
  <2>2. CASE k # 1
    <3>1. k - 1 \in 1 .. n /\ 1 + (k - 1) = k
      BY <1>4, <1>5, <2>2
    <3>2. DOMAIN files = 1 .. n
      BY <1>4, LenProperties
    <3> QED  BY <1>5, <3>1, <3>2 DEF Packable
  <2> QED  BY <2>1, <2>2
<1> QED  BY <1>2, <1>4, <1>5, <1>6

\* The image l of the entries E, the data of which begin behind the positions off.
Layout(l, E, off) ==
    /\ l \in Seq(Byte) /\ Len(l) = off[Len(E)] /\ off \in [0 .. Len(E) -> Nat]
    /\ off[0] = 10 + (NameLen + 8) * Len(E)
    /\ Fits32(Len(E))
    /\ \A k \in 1 .. Len(E) : Fits32(off[k - 1]) /\ Fits32(Len(E[k].data))
    /\ \A k \in 1 .. Len(E) : /\ off[k] = off[k - 1] + Len(E[k].data)
                              /\ off[k] <= off[Len(E)] /\ off[0] <= off[k - 1]
    /\ \A j \in 1 .. 6 : l[j] = MAGIC[j]
    /\ \A j \in 1 .. 4 : l[6 + j] = Pack32(Len(E))[j]
    /\ \A k \in 1 .. Len(E) : \E pos \in Nat :
         /\ pos = 10 + (NameLen + 8) * (k - 1) /\ pos + (NameLen + 8) <= off[0]
         /\ \A j \in 1 .. NameLen : l[pos + j] = Padded(E[k].name)[j]
         /\ \A j \in 1 .. 4 : l[pos + NameLen + j] = Pack32(off[k - 1])[j]
         /\ \A j \in 1 .. 4 : l[pos + NameLen + 4 + j] = Pack32(Len(E[k].data))[j]
    /\ \A k \in 1 .. Len(E) : \A j \in 1 .. Len(E[k].data) : l[off[k - 1] + j] = E[k].data[j]

\* pack_image lays it out like this.
LEMMA ImageIsLaidOut ==
    ASSUME NEW kernel \in Seq(Byte), NEW files \in Seq(ImageEntry), Packable(kernel, files),
           NEW E, E = Entries(kernel, files)
    PROVE  \E off : Layout(pack_image(kernel, files), E, off)
<1> DEFINE n == Len(E)
           W == NameLen + 8
<1>1. /\ E \in Seq(ImageEntry) /\ n \in Nat /\ n > 0 /\ DOMAIN E = 1 .. n
      /\ \A k \in 1 .. n : Len(E[k].name) < NameLen
  <2>1. /\ E \in Seq(ImageEntry) /\ n = 1 + Len(files) /\ Len(files) \in Nat
        /\ \A k \in 1 .. n : Len(E[k].name) < NameLen
    BY EntriesAre
  <2> QED  BY <2>1, LenProperties
<1>2. W \in Nat /\ NameLen \in Nat /\ W = NameLen + 8
  BY ImageAssumption
<1>3. \A k \in 1 .. n : E[k] \in ImageEntry
  BY <1>1, ElementOfSeq
<1>4. \A k \in 1 .. n : E[k].name \in Seq(NameByte) /\ E[k].data \in Seq(Byte)
                        /\ Len(E[k].data) \in Nat
  <2>1. \A x \in Seq(Byte) : Len(x) \in Nat
    BY LenProperties
  <2> QED  BY <1>3, <2>1 DEF ImageEntry
<1>5. PICK off \in [0 .. n -> Nat] :
              /\ off[0] = DataOffset(n)
              /\ \A k \in 1 .. n : /\ off[k] = off[k - 1] + Len(E[k].data)
                                   /\ Cursor(E, k) = off[k - 1]
  BY <1>1, CursorRuns
<1>6. off[0] = 10 + W * n /\ off[0] \in Nat /\ off[n] \in Nat
  <2>1. DataOffset(n) = 6 + 4 + (NameLen + 4 + 4) * n
    BY DEF DataOffset, MAGIC
  <2>2. NameLen + 4 + 4 = W
    BY <1>2
  <2>3. W * n \in Nat /\ 0 \in 0 .. n /\ n \in 0 .. n
    BY <1>1, <1>2
  <2> HIDE DEF W, n
  <2> QED  BY <1>5, <2>1, <2>2, <2>3
<1>7. /\ Fits32(n)
      /\ \A k \in 1 .. n : Fits32(off[k - 1]) /\ Fits32(Len(E[k].data)) /\ off[k - 1] \in Nat
  <2>1. /\ Fits32(n) /\ \A k \in 1 .. n : Fits32(Cursor(E, k)) /\ Fits32(Len(E[k].data))
    BY <1>1 DEF Packable
  <2>2. \A k \in 1 .. n : k - 1 \in 0 .. n
    BY <1>1
  <2> HIDE DEF n
  <2> QED  BY <1>5, <2>1, <2>2
<1> HIDE DEF n, W
<1> DEFINE Row(k) == RowOf(E[k].name, off[k - 1], Len(E[k].data))
           rows == [k \in 1 .. n |-> Row(k)]
<1>8. ASSUME NEW k \in 1 .. n
      PROVE  /\ Row(k) \in Seq(Byte) /\ Len(Row(k)) = W
             /\ \A j \in 1 .. NameLen : Row(k)[j] = Padded(E[k].name)[j]
             /\ \A j \in 1 .. 4 : Row(k)[NameLen + j] = Pack32(off[k - 1])[j]
             /\ \A j \in 1 .. 4 : Row(k)[NameLen + 4 + j] = Pack32(Len(E[k].data))[j]
  <2>1. PICK name \in Seq(NameByte), a \in Nat, l \in Nat :
           /\ name = E[k].name /\ Len(name) < NameLen
           /\ a = off[k - 1] /\ Fits32(a) /\ l = Len(E[k].data) /\ Fits32(l)
    BY <1>1, <1>4, <1>7
  <2>2. IsRow(RowOf(name, a, l), name, a, l)
    BY <2>1, RowParts
  <2>3. IsRow(Row(k), E[k].name, off[k - 1], Len(E[k].data))
    BY <2>1, <2>2
  <2> HIDE DEF Row
  <2> QED  BY <1>2, <2>3 DEF IsRow
<1> HIDE DEF Row
<1>9. rows \in Seq(Seq(Byte)) /\ Len(rows) = n
  BY <1>1, <1>8, IsASeq
<1>10. FlattenSeq(rows) = Table(E)
  <2>1. rows = [i \in DOMAIN E |->
                  Padded(E[i].name) \o Pack32(Cursor(E, i)) \o Pack32(Len(E[i].data))]
    BY <1>1, <1>5 DEF Row, RowOf
  <2> HIDE DEF rows
  <2> QED  BY <2>1 DEF Table
<1>11. \A k \in 1 .. n : rows[k] = Row(k)
  OBVIOUS
<1> HIDE DEF rows
<1> DEFINE at == [k \in 0 .. n |-> W * k]
<1>12. /\ at \in [0 .. n -> Nat] /\ at[0] = 0 /\ at[n] = W * n
       /\ \A k \in 1 .. n : at[k] = at[k - 1] + W /\ at[k - 1] = W * (k - 1)
  <2>1. ASSUME NEW k \in 0 .. n PROVE W * k \in Nat
    BY <1>1, <1>2
  <2>2. ASSUME NEW k \in 1 .. n
        PROVE  k \in 0 .. n /\ k - 1 \in 0 .. n /\ W * k = W * (k - 1) + W
    BY <1>1, <1>2
  <2>3. 0 \in 0 .. n /\ n \in 0 .. n /\ W * 0 = 0
    BY <1>1, <1>2
  <2> QED  BY <2>1, <2>2, <2>3
<1> HIDE DEF at
<1>13. PICK tab \in Seq(Byte) :
          /\ tab = Table(E) /\ Len(tab) = W * n
          /\ \A k \in 1 .. n : at[k] <= at[n]
          /\ \A k \in 1 .. n : \A j \in 1 .. W : tab[at[k - 1] + j] = Row(k)[j]
  <2>1. Len(rows) > 0 /\ \A k \in 1 .. Len(rows) : at[k] = at[k - 1] + Len(rows[k])
    BY <1>1, <1>8, <1>9, <1>11, <1>12
  <2>2. /\ FlattenSeq(rows) \in Seq(Byte) /\ Len(FlattenSeq(rows)) = at[n] - at[0]
        /\ \A k \in 1 .. n : at[k] <= at[n]
        /\ \A k \in 1 .. n : \A j \in 1 .. Len(rows[k]) :
             FlattenSeq(rows)[at[k - 1] - at[0] + j] = rows[k][j]
    <3>1. rows \in Seq(Seq(Byte)) /\ at \in [0 .. Len(rows) -> Nat]
      BY <1>9, <1>12
    <3>2. /\ FlattenSeq(rows) \in Seq(Byte)
          /\ Len(FlattenSeq(rows)) = at[Len(rows)] - at[0]
          /\ \A k \in 1 .. Len(rows) : at[0] <= at[k - 1] /\ at[k] <= at[Len(rows)]
          /\ \A k \in 1 .. Len(rows) : \A j \in 1 .. Len(rows[k]) :
               FlattenSeq(rows)[at[k - 1] - at[0] + j] = rows[k][j]
      BY <2>1, <3>1, PartsPlaced
    <3> QED  BY <1>9, <3>2
  <2>3. PICK tab : tab = Table(E)
    OBVIOUS
  <2>4. tab \in Seq(Byte) /\ Len(tab) = W * n
    <3>1. W * n \in Nat /\ at[0] = 0 /\ at[n] = W * n
      BY <1>1, <1>2, <1>12
    <3>2. tab \in Seq(Byte) /\ Len(tab) = at[n] - at[0]
      BY <1>10, <2>2, <2>3
    <3>3. at[n] - at[0] = W * n
      BY <3>1
    <3> QED  BY <3>2, <3>3
  <2>5. ASSUME NEW k \in 1 .. n, NEW j \in 1 .. W PROVE tab[at[k - 1] + j] = Row(k)[j]
    <3>1. Len(rows[k]) = W /\ rows[k] = Row(k)
      BY <1>8, <1>11
    <3>2. tab[at[k - 1] - at[0] + j] = rows[k][j]
      BY <1>10, <2>2, <2>3, <3>1
    <3>3. at[k - 1] - at[0] + j = at[k - 1] + j
      <4>1. at[k - 1] \in Nat /\ at[0] = 0
        BY <1>1, <1>12
      <4> QED  BY <4>1
    <3> QED  BY <3>1, <3>2, <3>3
  <2> QED  BY <2>2, <2>3, <2>4, <2>5
<1> DEFINE datas == [k \in 1 .. n |-> E[k].data]
<1>14. datas \in Seq(Seq(Byte)) /\ Len(datas) = n
  BY <1>1, <1>4, IsASeq
<1>15. \A k \in 1 .. n : datas[k] = E[k].data
  OBVIOUS
<1>16. FlattenSeq(datas) = FlattenSeq([i \in DOMAIN E |-> E[i].data])
  BY <1>1
<1> HIDE DEF datas
<1>27. PICK d : d = FlattenSeq(datas)
  OBVIOUS
<1>17. /\ d \in Seq(Byte) /\ Len(d) = off[n] - off[0]
       /\ \A k \in 1 .. n : off[0] <= off[k - 1] /\ off[k] <= off[n]
       /\ \A k \in 1 .. n : \A j \in 1 .. Len(E[k].data) :
            d[off[k - 1] - off[0] + j] = E[k].data[j]
  <2>1. Len(datas) > 0 /\ \A k \in 1 .. Len(datas) : off[k] = off[k - 1] + Len(datas[k])
    BY <1>1, <1>5, <1>14, <1>15
  <2>2. datas \in Seq(Seq(Byte)) /\ off \in [0 .. Len(datas) -> Nat]
    BY <1>14
  <2>3. /\ FlattenSeq(datas) \in Seq(Byte)
        /\ Len(FlattenSeq(datas)) = off[Len(datas)] - off[0]
        /\ \A k \in 1 .. Len(datas) : off[0] <= off[k - 1] /\ off[k] <= off[Len(datas)]
        /\ \A k \in 1 .. Len(datas) : \A j \in 1 .. Len(datas[k]) :
             FlattenSeq(datas)[off[k - 1] - off[0] + j] = datas[k][j]
    BY <2>1, <2>2, PartsPlaced
  <2>4. /\ d \in Seq(Byte) /\ Len(d) = off[n] - off[0]
        /\ \A k \in 1 .. n : off[0] <= off[k - 1] /\ off[k] <= off[n]
        /\ \A k \in 1 .. n : \A j \in 1 .. Len(datas[k]) :
             d[off[k - 1] - off[0] + j] = datas[k][j]
    BY <1>14, <1>27, <2>3
  <2> QED  BY <1>15, <2>4
<1>18. PICK h \in Seq(Byte) :
          /\ h = MAGIC \o Pack32(n) /\ Len(h) = 10
          /\ \A j \in 1 .. 6 : h[j] = MAGIC[j]
          /\ \A j \in 1 .. 4 : h[6 + j] = Pack32(n)[j]
  <2>1. PICK six, four : six = 6 /\ four = 4
    OBVIOUS
  <2>2. MAGIC \in Seq(Byte) /\ six = Len(MAGIC)
    BY <2>1 DEF MAGIC, Byte
  <2>3. Pack32(n) \in Seq(Byte) /\ four = Len(Pack32(n))
    BY <1>1, <1>7, <2>1, PackedBack
  <2>4. PICK h : h = MAGIC \o Pack32(n)
    OBVIOUS
  <2>5. /\ h \in Seq(Byte) /\ Len(h) = six + four
        /\ \A j \in 1 .. six : h[j] = MAGIC[j]
        /\ \A j \in 1 .. four : h[six + j] = Pack32(n)[j]
    BY <2>2, <2>3, <2>4, After
  <2>6. six + four = 10
    BY <2>1
  <2> QED  BY <2>1, <2>4, <2>5, <2>6
<1>19. PICK g \in Seq(Byte) :
          /\ g = h \o tab /\ Len(g) = off[0]
          /\ \A j \in 1 .. 10 : g[j] = h[j]
          /\ \A j \in 1 .. W * n : g[10 + j] = tab[j]
  <2>1. PICK ten, x : ten = 10 /\ x = W * n
    OBVIOUS
  <2>2. ten = Len(h) /\ x = Len(tab)
    BY <1>13, <1>18, <2>1
  <2>3. PICK g : g = h \o tab
    OBVIOUS
  <2>4. /\ g \in Seq(Byte) /\ Len(g) = ten + x
        /\ \A j \in 1 .. ten : g[j] = h[j]
        /\ \A j \in 1 .. x : g[ten + j] = tab[j]
    BY <2>2, <2>3, After
  <2> QED  BY <1>6, <2>1, <2>3, <2>4
<1>20. PICK l \in Seq(Byte) :
          /\ l = g \o d /\ Len(l) = off[n]
          /\ \A j \in 1 .. off[0] : l[j] = g[j]
          /\ \A j \in 1 .. off[n] - off[0] : l[off[0] + j] = d[j]
  <2>1. PICK y, z : y = off[0] /\ z = off[n] - off[0]
    OBVIOUS
  <2>2. y = Len(g) /\ z = Len(d) /\ d \in Seq(Byte)
    BY <1>17, <1>19, <2>1
  <2>3. PICK l : l = g \o d
    OBVIOUS
  <2>4. /\ l \in Seq(Byte) /\ Len(l) = y + z
        /\ \A j \in 1 .. y : l[j] = g[j]
        /\ \A j \in 1 .. z : l[y + j] = d[j]
    BY <2>2, <2>3, After
  <2>5. y + z = off[n]
    BY <1>6, <2>1
  <2> QED  BY <2>1, <2>3, <2>4, <2>5
<1>21. l = pack_image(kernel, files)
  BY <1>13, <1>16, <1>18, <1>19, <1>20, <1>27 DEF pack_image, n
<1>22. /\ \A j \in 1 .. 6 : l[j] = MAGIC[j]
       /\ \A j \in 1 .. 4 : l[6 + j] = Pack32(n)[j]
  <2>1. W * n \in Nat /\ off[0] = 10 + W * n
    BY <1>1, <1>2, <1>6
  <2>2. ASSUME NEW j \in 1 .. 10 PROVE l[j] = h[j]
    <3>1. j \in 1 .. off[0]
      BY <2>1
    <3> QED  BY <1>19, <1>20, <3>1
  <2>3. \A j \in 1 .. 6 : j \in 1 .. 10
    OBVIOUS
  <2>4. \A j \in 1 .. 4 : 6 + j \in 1 .. 10
    OBVIOUS
  <2> QED  BY <1>18, <2>2, <2>3, <2>4
<1>23. ASSUME NEW k \in 1 .. n
       PROVE  \E pos \in Nat :
         /\ pos = 10 + (NameLen + 8) * (k - 1) /\ pos + (NameLen + 8) <= off[0]
         /\ \A j \in 1 .. NameLen : l[pos + j] = Padded(E[k].name)[j]
         /\ \A j \in 1 .. 4 : l[pos + NameLen + j] = Pack32(off[k - 1])[j]
         /\ \A j \in 1 .. 4 : l[pos + NameLen + 4 + j] = Pack32(Len(E[k].data))[j]
  <2>1. PICK x \in Nat, y \in Nat, z \in Nat : x = at[k - 1] /\ y = at[n] /\ z = off[0]
    <3>1. k - 1 \in 0 .. n /\ n \in 0 .. n
      BY <1>1
    <3> QED  BY <1>6, <1>12, <3>1
  <2>2. x + W <= y /\ z = 10 + y /\ y = W * n /\ x = W * (k - 1)
    <3>1. at[k] <= at[n] /\ at[k] = at[k - 1] + W /\ at[n] = W * n /\ at[k - 1] = W * (k - 1)
      BY <1>12, <1>13
    <3> QED  BY <1>6, <2>1, <3>1
  <2>3. ASSUME NEW j \in 1 .. W PROVE l[10 + x + j] = Row(k)[j]
    <3>1. PICK i \in Int : i = x + j
      OBVIOUS
    <3>2. i \in 1 .. y /\ 10 + i = 10 + x + j /\ 10 + i \in 1 .. z
      BY <1>2, <2>2, <3>1
    <3>3. l[10 + i] = g[10 + i]
      BY <1>20, <2>1, <3>2
    <3>4. g[10 + i] = tab[i]
      BY <1>19, <2>2, <3>2
    <3>5. tab[i] = Row(k)[j]
      BY <1>13, <2>1, <3>1
    <3> QED  BY <3>2, <3>3, <3>4, <3>5
  <2>4. PICK pos \in Nat : pos = 10 + x
    OBVIOUS
  <2>5. ASSUME NEW j \in 1 .. W PROVE l[pos + j] = Row(k)[j]
    BY <2>3, <2>4
  <2>6. \A j \in 1 .. NameLen : j \in 1 .. W
    BY <1>2
  <2>7. ASSUME NEW j \in 1 .. 4
        PROVE  /\ NameLen + j \in 1 .. W /\ pos + (NameLen + j) = pos + NameLen + j
               /\ NameLen + 4 + j \in 1 .. W /\ pos + (NameLen + 4 + j) = pos + NameLen + 4 + j
    BY <1>2
  <2>8. \A j \in 1 .. NameLen : l[pos + j] = Padded(E[k].name)[j]
    BY <1>8, <2>5, <2>6
  <2>9. ASSUME NEW j \in 1 .. 4
        PROVE  l[pos + NameLen + j] = Pack32(off[k - 1])[j]
    <3>1. PICK i \in 1 .. W : i = NameLen + j /\ pos + i = pos + NameLen + j
      BY <2>7
    <3>2. Row(k)[NameLen + j] = Pack32(off[k - 1])[j]
      BY <1>8
    <3> QED  BY <2>5, <3>1, <3>2
  <2>10. ASSUME NEW j \in 1 .. 4
         PROVE  l[pos + NameLen + 4 + j] = Pack32(Len(E[k].data))[j]
    <3>1. PICK i \in 1 .. W : i = NameLen + 4 + j /\ pos + i = pos + NameLen + 4 + j
      BY <2>7
    <3>2. Row(k)[NameLen + 4 + j] = Pack32(Len(E[k].data))[j]
      BY <1>8
    <3> QED  BY <2>5, <3>1, <3>2
  <2>11. pos = 10 + (NameLen + 8) * (k - 1) /\ pos + (NameLen + 8) <= off[0]
    BY <1>2, <2>1, <2>2, <2>4
  <2> QED  BY <2>8, <2>9, <2>10, <2>11
<1>24. ASSUME NEW k \in 1 .. n, NEW j \in 1 .. Len(E[k].data)
       PROVE  l[off[k - 1] + j] = E[k].data[j]
  <2>1. PICK e \in Nat, f \in Nat, m \in Nat, y \in Nat, z \in Nat :
           e = off[k - 1] /\ f = off[k] /\ m = Len(E[k].data) /\ y = off[0] /\ z = off[n]
    <3>1. k - 1 \in 0 .. n /\ k \in 0 .. n
      BY <1>1
    <3> QED  BY <1>4, <1>5, <1>6, <3>1
  <2>2. f = e + m /\ y <= e /\ f <= z
    BY <1>5, <1>17, <2>1
  <2>7. j \in 1 .. m
    BY <2>1
  <2>3. PICK i \in Int : i = e - y + j
    BY <2>7
  <2>4. i \in 1 .. z - y /\ y + i = e + j
    BY <2>2, <2>3, <2>7
  <2>5. l[y + i] = d[i]
    BY <1>20, <2>1, <2>4
  <2>6. d[i] = E[k].data[j]
    BY <1>17, <2>1, <2>3
  <2> QED  BY <2>1, <2>4, <2>5, <2>6
<1>25. off[0] = 10 + (NameLen + 8) * n
  BY <1>6 DEF W
<1>26. Layout(l, E, off)
  BY <1>5, <1>7, <1>17, <1>20, <1>22, <1>23, <1>24, <1>25 DEF Layout, n
<1> QED  BY <1>21, <1>26

\* Four packed bytes are read as the number they hold.
LEMMA ReadBack ==
    ASSUME NEW v \in Nat, Fits32(v), NEW d, NEW pos \in Nat,
           \A j \in 1 .. 4 : d[pos + j] = Pack32(v)[j]
    PROVE  Unpack32(d, pos) = v
  BY PackedBack DEF Unpack32

IsSlice(u, d, from, to) ==
    /\ u \in Seq(Byte) /\ Len(u) \in Nat
    /\ to <= Len(d) => Len(u) = to - from
    /\ Len(u) <= to - from
    /\ \A i \in 1 .. Len(u) : u[i] = d[from + i] /\ from + i \in 1 .. Len(d)

\* A slice, which is shorter where the bytes have ended.
LEMMA Sliced ==
    ASSUME NEW d \in Seq(Byte), NEW from \in Nat, NEW to \in Nat, from <= to
    PROVE  IsSlice(Slice(d, from, to), d, from, to)
<1>1. PICK c \in Nat : c = Len(d)
  BY LenProperties
<1>2. PICK m \in Nat : m = IF to < c THEN to ELSE c
  OBVIOUS
<1>3. PICK a \in Nat : a = from + 1
  OBVIOUS
<1>4. PICK u : u = SubSeq(d, a, m)
  OBVIOUS
<1>5. /\ u \in Seq(Byte) /\ Len(u) = IF a <= m THEN m - a + 1 ELSE 0
      /\ \A i \in 1 .. m - a + 1 : u[i] = d[a + i - 1]
  <2>1. a >= 1 /\ m <= Len(d)
    BY <1>1, <1>2, <1>3
  <2> QED  BY <1>4, <2>1, Piece
<1>6. PICK p \in Nat : p = Len(u)
  BY <1>5, LenProperties
<1>7. p = IF from + 1 <= m THEN m - from ELSE 0
  BY <1>3, <1>5, <1>6
<1>8. (to <= c => p = to - from) /\ p <= to - from
  BY <1>2, <1>7
<1>9. ASSUME NEW i \in 1 .. p PROVE u[i] = d[from + i] /\ from + i \in 1 .. c
  <2>1. i \in 1 .. m - a + 1 /\ a + i - 1 = from + i /\ from + i \in 1 .. c
    BY <1>2, <1>3, <1>7
  <2> QED  BY <1>5, <2>1
<1>10. u = Slice(d, from, to)
  BY <1>1, <1>2, <1>3, <1>4 DEF Slice
<1> QED  BY <1>1, <1>5, <1>6, <1>8, <1>9, <1>10 DEF IsSlice

\* The name is what precedes the NULs.
LEMMA NameRead ==
    ASSUME NEW name \in Seq(NameByte), Len(name) < NameLen,
           NEW s \in Seq(Byte), Len(s) = NameLen, \A j \in 1 .. NameLen : s[j] = Padded(name)[j]
    PROVE  UpToNul(s) = name
<1>1. PICK n \in Nat : n = Len(name)
  BY LenProperties
<1>2. NameLen \in Nat /\ n < NameLen
  BY <1>1, ImageAssumption
<1>3. name \in Seq(Byte) /\ \A i \in 1 .. n : name[i] \in NameByte
  <2>1. NameByte \subseteq Byte
    BY DEF NameByte, Byte
  <2> QED  BY <1>1, <2>1, SeqMonotonic, ElementOfSeq
<1>4. /\ \A i \in 1 .. n : s[i] = name[i] /\ s[i] # 0
      /\ s[n + 1] = 0
  <2>1. PICK q \in Nat : q = NameLen - n
    BY <1>2
  <2> DEFINE nuls == [i \in 1 .. q |-> 0]
  <2>2. nuls \in Seq(Byte) /\ Len(nuls) = q
    <3>1. \A i \in 1 .. q : 0 \in Byte
      BY DEF Byte
    <3> QED  BY <3>1, IsASeq
  <2>3. nuls[1] = 0
    BY <1>2, <2>1
  <2>4. Padded(name) = name \o nuls
    BY <1>1, <2>1 DEF Padded
  <2> HIDE DEF nuls
  <2>5. /\ \A j \in 1 .. n : Padded(name)[j] = name[j]
        /\ \A j \in 1 .. q : Padded(name)[n + j] = nuls[j]
    BY <1>1, <1>3, <2>2, <2>4, After
  <2>6. n + 1 \in 1 .. NameLen /\ 1 \in 1 .. q /\ \A i \in 1 .. n : i \in 1 .. NameLen
    BY <1>2, <2>1
  <2>7. \A x \in NameByte : x # 0
    BY DEF NameByte
  <2> QED  BY <1>3, <2>3, <2>5, <2>6, <2>7
<1> DEFINE I == {i \in 1 .. Len(s) : s[i] = 0}
<1>5. n + 1 \in I /\ I \subseteq Nat
  BY <1>2, <1>4
<1>6. PICK m : m = Min(I)
  OBVIOUS
<1>7. m \in I /\ m <= n + 1
  <2> HIDE DEF I
  <2> QED  BY <1>5, <1>6, MinIs
<1>8. m = n + 1 /\ m # 0
  <2>1. m \in Nat /\ m \in 1 .. NameLen /\ s[m] = 0
    BY <1>2, <1>7
  <2>2. m \notin 1 .. n
    BY <1>4, <2>1
  <2>3. m <= n + 1
    BY <1>7
  <2> QED  BY <1>2, <2>1, <2>2, <2>3
<1>9. UpToNul(s) = SubSeq(s, 1, m - 1)
  BY <1>5, <1>6, <1>8 DEF UpToNul, SelectInSeq
<1> HIDE DEF I
<1>10. UpToNul(s) = SubSeq(s, 1, n)
  <2>1. m - 1 = n
    BY <1>8
  <2> QED  BY <1>9, <2>1
<1>11. SubSeq(s, 1, n) = SubSeq(name, 1, n)
  <2>1. n <= Len(s) /\ n <= Len(name) /\ 1 \in Nat /\ 1 >= 1
    BY <1>1, <1>2
  <2>2. \A i \in 1 .. n : s[i] = name[i]
    BY <1>4
  <2> QED  BY <1>3, <2>1, <2>2, SamePiece
<1> QED  BY <1>1, <1>10, <1>11, SubSeqFull

-----------------------------------------------------------------------------
(* The decoder of UTF-8                                                    *)

\* The decoder's state, and that a text has more letters than another, or as many.
Decoder == [text : Seq(Seq(Byte)), part : Seq(Byte)]

Grown(new, old) == Len(old) <= Len(new) /\ \A i \in 1 .. Len(old) : new[i] = old[i]

\* Growing is transitive.
LEMMA GrownMore ==
    ASSUME NEW x \in Seq(Seq(Byte)), NEW y \in Seq(Seq(Byte)), NEW z \in Seq(Seq(Byte)),
           Grown(y, x), Grown(z, y)
    PROVE  Grown(z, x)
<1>1. PICK p \in Nat, q \in Nat, r \in Nat : p = Len(x) /\ q = Len(y) /\ r = Len(z)
  BY LenProperties
<1>2. p <= q /\ q <= r /\ (\A i \in 1 .. p : y[i] = x[i]) /\ \A i \in 1 .. q : z[i] = y[i]
  BY <1>1 DEF Grown
<1>3. p <= r /\ \A i \in 1 .. p : z[i] = x[i]
  BY <1>2
<1> QED  BY <1>1, <1>3 DEF Grown

\* A letter more.
LEMMA LetterMore ==
    ASSUME NEW text \in Seq(Seq(Byte)), NEW p \in Seq(Byte)
    PROVE  /\ Append(text, p) \in Seq(Seq(Byte)) /\ Len(Append(text, p)) = Len(text) + 1
           /\ Grown(Append(text, p), text)
           /\ Append(text, p) # <<>> /\ Last(Append(text, p)) = p /\ Front(Append(text, p)) = text
<1>1. PICK n \in Nat : n = Len(text)
  BY LenProperties
<1>2. PICK u : u = Append(text, p)
  OBVIOUS
<1>3. /\ u \in Seq(Seq(Byte)) /\ Len(u) = n + 1 /\ u[n + 1] = p
      /\ \A i \in 1 .. n : u[i] = text[i]
  BY <1>1, <1>2, AppendProperties
<1>4. u # <<>> /\ Last(u) = p
  BY <1>1, <1>3, EmptySeq DEF Last
<1>5. Front(u) = text
  <2>1. Front(u) = SubSeq(u, 1, n)
    BY <1>3 DEF Front
  <2>2. SubSeq(u, 1, n) = SubSeq(text, 1, n)
    <3>1. 1 \in Nat /\ 1 >= 1 /\ n <= Len(u) /\ n <= Len(text)
      BY <1>1, <1>3
    <3> QED  BY <1>3, <3>1, SamePiece
  <2> QED  BY <1>1, <2>1, <2>2, SubSeqFull
<1> QED  BY <1>1, <1>2, <1>3, <1>4, <1>5 DEF Grown

\* A byte changes the state of the decoder to another, and takes no letter back.
LEMMA ByteGot ==
    ASSUME NEW s \in Decoder, NEW b \in Byte
    PROVE  GetByte(s, b) \in Decoder /\ Grown(GetByte(s, b).text, s.text)
<1>1. PICK x \in Seq(Seq(Byte)), p \in Seq(Byte) : x = s.text /\ p = s.part
  BY DEF Decoder
<1>2. Replacement \in Seq(Byte) /\ <<b>> \in Seq(Byte) /\ <<>> \in Seq(Byte)
  BY EmptySeq DEF Replacement, Byte
<1>3. Append(p, b) \in Seq(Byte)
  BY AppendProperties
<1>4. PICK y \in Seq(Seq(Byte)) :
         y = (IF p = <<>> THEN x ELSE Append(x, Replacement)) /\ Grown(y, x)
  <2>1. Grown(x, x)
    BY LenProperties DEF Grown
  <2> QED  BY <1>2, <2>1, LetterMore
<1>5. ASSUME NEW z \in Seq(Seq(Byte)), Grown(z, x), NEW q \in Seq(Byte)
      PROVE  /\ Taken(z, q) \in Decoder /\ Grown(Taken(z, q).text, x)
             /\ Append(z, q) \in Seq(Seq(Byte)) /\ Grown(Append(z, q), x)
  <2>1. Append(z, q) \in Seq(Seq(Byte)) /\ Grown(Append(z, q), z)
    BY LetterMore
  <2>2. Grown(Append(z, q), x)
    BY <1>5, <2>1, GrownMore
  <2> QED  BY <1>2, <1>5, <2>1, <2>2 DEF Taken, Decoder
<1>6. CASE BeginsLetter(Append(p, b))
  <2>1. GetByte(s, b) = Taken(x, Append(p, b)) /\ Grown(x, x)
    BY <1>1, <1>6, LenProperties DEF GetByte, Grown
  <2> QED  BY <1>1, <1>3, <1>5, <2>1
<1>7. CASE ~ BeginsLetter(Append(p, b)) /\ BeginsLetter(<<b>>)
  <2>1. GetByte(s, b) = Taken(y, <<b>>)
    BY <1>1, <1>4, <1>7 DEF GetByte
  <2> QED  BY <1>1, <1>2, <1>4, <1>5, <2>1
<1>8. CASE ~ BeginsLetter(Append(p, b)) /\ ~ BeginsLetter(<<b>>)
  <2>1. GetByte(s, b) = [text |-> Append(y, Replacement), part |-> <<>>]
    BY <1>1, <1>4, <1>8 DEF GetByte
  <2>2. Append(y, Replacement) \in Seq(Seq(Byte)) /\ Grown(Append(y, Replacement), x)
    BY <1>2, <1>4, <1>5
  <2> QED  BY <1>1, <1>2, <2>1, <2>2 DEF Decoder
<1> QED  BY <1>6, <1>7, <1>8

\* The states of the decoder after each of the bytes w.
Decodes(run, w) ==
    /\ run \in [0 .. Len(w) -> Decoder] /\ run[0] = NoBytes
    /\ \A k \in 1 .. Len(w) : run[k] = GetByte(run[k - 1], w[k])

LEMMA DecoderRuns ==
    ASSUME NEW w \in Seq(Byte)
    PROVE  \E run : Decodes(run, w) /\ FoldLeft(GetByte, NoBytes, w) = run[Len(w)]
<1> DEFINE n == Len(w)
           body == [x \in (1 .. n) \X Decoder |-> GetByte(x[2], w[x[1]])]
<1>1. n \in Nat /\ DOMAIN w = 1 .. n /\ \A k \in 1 .. n : w[k] \in Byte
  BY LenProperties, ElementOfSeq
<1>2. body \in [(1 .. n) \X Decoder -> Decoder]
  <2>1. \A v \in Decoder, b \in Byte : GetByte(v, b) \in Decoder
    BY ByteGot
  <2> HIDE DEF n
  <2> QED  BY <1>1, <2>1
<1>3. NoBytes \in Decoder
  BY EmptySeq DEF NoBytes, Decoder
<1> DEFINE Eq(i) == i = [t \in SUBSET DOMAIN w |->
                           IF t = {} THEN NoBytes ELSE GetByte(i[t \ {Max(t)}], w[Max(t)])]
           fold == CHOOSE i : Eq(i)
<1>4. FoldLeft(GetByte, NoBytes, w) = fold[1 .. n]
  BY <1>1 DEF FoldLeft, MapThenFoldSet
<1> HIDE DEF n
<1>5. Eq(fold)
  <2>1. PICK it \in [SUBSET (1 .. n) -> Decoder] : Iterates(it, n, NoBytes, body)
    <3> HIDE DEF body
    <3> QED  BY <1>1, <1>2, <1>3, LoopExists
  <2>2. ASSUME NEW t \in SUBSET (1 .. n)
        PROVE  it[t] = IF t = {} THEN NoBytes ELSE GetByte(it[t \ {Max(t)}], w[Max(t)])
    <3>1. CASE t = {}
      <4> HIDE DEF body
      <4> QED  BY <2>1, <3>1 DEF Iterates
    <3>2. CASE t # {}
      <4>1. PICK x, r : x = Max(t) /\ r = t \ {Max(t)}
        OBVIOUS
      <4>2. x \in 1 .. n /\ r \in SUBSET (1 .. n)
        <5>1. Max(t) \in t /\ t \ {Max(t)} \in SUBSET (1 .. n)
          BY <1>1, <3>2, LastTurn
        <5> QED  BY <4>1, <5>1
      <4>3. it[t] = body[<<x, it[r]>>]
        <5> HIDE DEF body
        <5> QED  BY <2>1, <3>2, <4>1 DEF Iterates
      <4>4. it[r] \in Decoder
        BY <2>1, <4>2
      <4>5. body[<<x, it[r]>>] = GetByte(it[r], w[x])
        BY <4>2, <4>4
      <4> QED  BY <3>2, <4>1, <4>3, <4>5
    <3> QED  BY <3>1, <3>2
  <2>3. Eq(it)
    <3>1. it = [t \in SUBSET DOMAIN w |-> it[t]]
      BY <1>1, <2>1
    <3> QED  BY <1>1, <2>2, <3>1
  <2> HIDE DEF Eq
  <2> QED  BY <2>3
<1> HIDE DEF fold
<1>6. PICK run \in [0 .. n -> Decoder] : Runs(run, n, NoBytes, body, fold[1 .. n])
  <2>1. fold[{}] = NoBytes
    <3>1. {} \in SUBSET DOMAIN w
      OBVIOUS
    <3> QED  BY <1>5, <3>1
  <2>2. ASSUME NEW t \in SUBSET (1 .. n), t # {}, fold[t \ {Max(t)}] \in Decoder
        PROVE  fold[t] = body[<<Max(t), fold[t \ {Max(t)}]>>]
    <3>1. Max(t) \in 1 .. n
      BY <1>1, <2>2, LastTurn
    <3>2. fold[t] = GetByte(fold[t \ {Max(t)}], w[Max(t)])
      BY <1>1, <1>5, <2>2
    <3> QED  BY <2>2, <3>1, <3>2
  <2>3. Folds(fold, n, Decoder, NoBytes, body)
    <3> HIDE DEF body
    <3> QED  BY <2>1, <2>2 DEF Folds
  <2> HIDE DEF body
  <2> QED  BY <1>1, <1>2, <1>3, <2>3, FoldRuns
<1>7. \A k \in 1 .. n : run[k] = GetByte(run[k - 1], w[k])
  <2> SUFFICES ASSUME NEW k \in 1 .. n PROVE run[k] = GetByte(run[k - 1], w[k])
    OBVIOUS
  <2>1. k - 1 \in 0 .. n
    BY <1>1
  <2>2. run[k - 1] \in Decoder
    BY <2>1
  <2>3. run[k] = body[<<k, run[k - 1]>>]
    BY <1>6 DEF Runs
  <2> QED  BY <2>2, <2>3
<1> HIDE DEF body
<1>8. Decodes(run, w) /\ fold[1 .. n] = run[n]
  BY <1>6, <1>7 DEF Runs, Decodes, n
<1> QED  BY <1>4, <1>8 DEF n

\* The letters that a beginning of the bytes has given stay.
LEMMA LettersStay ==
    ASSUME NEW u \in Seq(Byte), NEW v \in Seq(Byte), Grown(v, u),
           NEW r, Decodes(r, u), NEW s, Decodes(s, v)
    PROVE  /\ r[Len(u)] = s[Len(u)]
           /\ Grown(s[Len(v)].text, s[Len(u)].text)
<1>1. PICK p \in Nat, q \in Nat : p = Len(u) /\ q = Len(v)
  BY LenProperties
<1>2. p <= q /\ (\A i \in 1 .. p : v[i] = u[i]) /\ \A i \in 1 .. q : v[i] \in Byte
  BY <1>1, ElementOfSeq DEF Grown
<1>3. /\ r[0] = NoBytes /\ \A k \in 1 .. p : r[k] = GetByte(r[k - 1], u[k])
      /\ s[0] = NoBytes /\ \A k \in 1 .. q : s[k] = GetByte(s[k - 1], v[k])
      /\ s \in [0 .. q -> Decoder]
  BY <1>1 DEF Decodes
<1>4. \A k \in 0 .. p : r[k] = s[k]
  <2> DEFINE T == {k \in 0 .. p : r[k] = s[k]}
  <2>1. 0 \in T
    BY <1>3
  <2>2. ASSUME NEW k \in 1 .. p, k - 1 \in T PROVE k \in T
    <3>1. k \in 1 .. q /\ k \in 0 .. p
      BY <1>2
    <3> QED  BY <1>2, <1>3, <2>2, <3>1
  <2> HIDE DEF T
  <2>3. \A k \in 0 .. p : k \in T
    BY <2>1, <2>2, UpTo
  <2> QED  BY <2>3 DEF T
<1>5. \A k \in 0 .. q : s[k].text \in Seq(Seq(Byte)) /\ Len(s[k].text) \in Nat
  <2> SUFFICES ASSUME NEW k \in 0 .. q
               PROVE  s[k].text \in Seq(Seq(Byte)) /\ Len(s[k].text) \in Nat
    OBVIOUS
  <2>1. s[k] \in Decoder
    BY <1>3
  <2>2. s[k].text \in Seq(Seq(Byte))
    BY <2>1 DEF Decoder
  <2> QED  BY <2>2, LenProperties
<1>6. \A k \in 0 .. q : k >= p => Grown(s[k].text, s[p].text)
  <2> DEFINE T == {k \in 0 .. q : k >= p => Grown(s[k].text, s[p].text)}
  <2>1. Grown(s[p].text, s[p].text)
    <3>1. p \in 0 .. q
      BY <1>2
    <3> QED  BY <1>5, <3>1 DEF Grown
  <2>2. 0 \in T
    BY <2>1
  <2>3. ASSUME NEW k \in 1 .. q, k - 1 \in T PROVE k \in T
    <3>1. k \in 0 .. q /\ k - 1 \in 0 .. q /\ p \in 0 .. q
      BY <1>2
    <3>2. CASE k - 1 >= p
      <4>1. Grown(s[k - 1].text, s[p].text)
        BY <2>3, <3>2
      <4>2. Grown(s[k].text, s[k - 1].text)
        <5>1. s[k - 1] \in Decoder /\ v[k] \in Byte
          BY <1>2, <1>3, <3>1
        <5>2. Grown(GetByte(s[k - 1], v[k]).text, s[k - 1].text)
          BY <5>1, ByteGot
        <5> QED  BY <1>3, <5>2
      <4>3. Grown(s[k].text, s[p].text)
        BY <1>5, <3>1, <4>1, <4>2, GrownMore
      <4> QED  BY <3>1, <4>3
    <3>3. CASE ~ (k - 1 >= p)
      <4>1. k >= p => k = p
        BY <3>3
      <4> QED  BY <2>1, <3>1, <4>1
    <3> QED  BY <3>2, <3>3
  <2> HIDE DEF T
  <2>4. \A k \in 0 .. q : k \in T
    BY <2>2, <2>3, UpTo
  <2> QED  BY <2>4 DEF T
<1>7. p \in 0 .. p /\ q \in 0 .. q /\ q >= p
  BY <1>2
<1> QED  BY <1>1, <1>4, <1>6, <1>7

\* A text that has grown begins with the old one.
LEMMA GrownPrefix ==
    ASSUME NEW x \in Seq(Seq(Byte)), NEW y \in Seq(Seq(Byte)), Grown(y, x)
    PROVE  IsPrefix(x, y)
<1>1. PICK p \in Nat, q \in Nat : p = Len(x) /\ q = Len(y)
  BY LenProperties
<1>2. p <= q /\ 1 \in Nat /\ 1 >= 1 /\ p <= Len(x) /\ p <= Len(y)
  BY <1>1 DEF Grown
<1>3. SubSeq(x, 1, p) = SubSeq(y, 1, p)
  <2>1. \A i \in 1 .. p : x[i] = y[i]
    BY <1>1 DEF Grown
  <2> QED  BY <1>2, <2>1, SamePiece
<1> QED  BY <1>1, <1>2, <1>3 DEF IsPrefix

\* Bytes that have been cut are a text that has been cut.
LEMMA DecodedCut ==
    ASSUME NEW u \in Seq(Byte), NEW v \in Seq(Byte), Len(u) <= Len(v),
           \A i \in 1 .. Len(u) : u[i] = v[i]
    PROVE  /\ IsCutOf(Decoded(u), Decoded(v))
           /\ Len(u) = Len(v) => Decoded(u) = Decoded(v)
<1>1. PICK p \in Nat, q \in Nat : p = Len(u) /\ q = Len(v)
  BY LenProperties
<1>2. PICK r : Decodes(r, u) /\ FoldLeft(GetByte, NoBytes, u) = r[Len(u)]
  BY DecoderRuns
<1>3. PICK s : Decodes(s, v) /\ FoldLeft(GetByte, NoBytes, v) = s[Len(v)]
  BY DecoderRuns
<1>4. Grown(v, u)
  BY DEF Grown
<1>5. r[p] = s[p] /\ Grown(s[q].text, s[p].text)
  BY <1>1, <1>2, <1>3, <1>4, LettersStay
<1>6. PICK a \in Decoder, b \in Decoder : a = s[p] /\ b = s[q]
  <2>1. s \in [0 .. q -> Decoder] /\ p \in 0 .. q /\ q \in 0 .. q
    BY <1>1, <1>3 DEF Decodes
  <2> QED  BY <2>1
<1>7. /\ Decoded(u) = IF a.part = <<>> THEN a.text ELSE Append(a.text, Replacement)
      /\ Decoded(v) = IF b.part = <<>> THEN b.text ELSE Append(b.text, Replacement)
  BY <1>1, <1>2, <1>3, <1>5, <1>6 DEF Decoded
<1>8. PICK x \in Seq(Seq(Byte)), y \in Seq(Seq(Byte)) : x = a.text /\ y = b.text /\ Grown(y, x)
  BY <1>5, <1>6 DEF Decoder
<1>9. Replacement \in Seq(Byte)
  BY DEF Replacement, Byte
<1>10. Decoded(v) \in Seq(Seq(Byte)) /\ Grown(Decoded(v), x)
  <2>1. CASE b.part = <<>>
    BY <1>7, <1>8, <2>1
  <2>2. CASE b.part # <<>>
    <3>1. /\ Append(y, Replacement) \in Seq(Seq(Byte))
          /\ Grown(Append(y, Replacement), y)
      BY <1>9, LetterMore
    <3>2. Grown(Append(y, Replacement), x)
      BY <1>8, <3>1, GrownMore
    <3> QED  BY <1>7, <1>8, <2>2, <3>1, <3>2
  <2> QED  BY <2>1, <2>2
<1>11. IsPrefix(x, Decoded(v))
  BY <1>10, GrownPrefix
<1>12. IsCutOf(Decoded(u), Decoded(v))
  <2>1. CASE a.part = <<>>
    BY <1>7, <1>8, <1>11, <2>1 DEF IsCutOf
  <2>2. CASE a.part # <<>>
    <3>1. Decoded(u) = Append(x, Replacement)
      BY <1>7, <1>8, <2>2
    <3>2. Decoded(u) # <<>> /\ Last(Decoded(u)) = Replacement /\ Front(Decoded(u)) = x
      BY <1>9, <3>1, LetterMore
    <3> QED  BY <1>11, <3>2 DEF IsCutOf
  <2> QED  BY <2>1, <2>2
<1>13. Len(u) = Len(v) => Decoded(u) = Decoded(v)
  BY <1>1, <1>5, <1>6, <1>7
<1> QED  BY <1>12, <1>13

\* A piece from the beginning, and one that is longer by an element.
LEMMA PieceMore ==
    ASSUME NEW S, NEW s \in Seq(S), NEW k \in 1 .. Len(s)
    PROVE  /\ SubSeq(s, 1, k) \in Seq(S) /\ Len(SubSeq(s, 1, k)) = k
           /\ \A i \in 1 .. k : SubSeq(s, 1, k)[i] = s[i]
           /\ SubSeq(s, 1, k) = Append(SubSeq(s, 1, k - 1), s[k])
           /\ SubSeq(s, 1, k - 1) \in Seq(S) /\ s[k] \in S
<1>1. PICK n \in Nat : n = Len(s)
  BY LenProperties
<1>2. PICK h \in Nat : h = k - 1
  BY <1>1
<1>3. PICK a, b : a = SubSeq(s, 1, h) /\ b = SubSeq(s, 1, k)
  OBVIOUS
<1>4. k \in Nat /\ 1 \in Nat /\ 1 >= 1 /\ h <= Len(s) /\ k <= Len(s)
  BY <1>1, <1>2
<1>5. a \in Seq(S) /\ Len(a) = h /\ \A i \in 1 .. h : a[i] = s[i]
  <2>1. /\ a \in Seq(S) /\ Len(a) = IF 1 <= h THEN h - 1 + 1 ELSE 0
        /\ \A i \in 1 .. h - 1 + 1 : a[i] = s[1 + i - 1]
    BY <1>3, <1>4, Piece
  <2>2. h - 1 + 1 = h /\ \A i \in 1 .. h : 1 + i - 1 = i
    OBVIOUS
  <2> QED  BY <2>1, <2>2
<1>6. b \in Seq(S) /\ Len(b) = k /\ \A i \in 1 .. k : b[i] = s[i]
  <2>1. /\ b \in Seq(S) /\ Len(b) = IF 1 <= k THEN k - 1 + 1 ELSE 0
        /\ \A i \in 1 .. k - 1 + 1 : b[i] = s[1 + i - 1]
    BY <1>3, <1>4, Piece
  <2>2. k - 1 + 1 = k /\ \A i \in 1 .. k : 1 + i - 1 = i
    BY <1>4
  <2> QED  BY <1>4, <2>1, <2>2
<1>7. s[k] \in S
  BY <1>1, ElementOfSeq
<1>8. PICK c : c = Append(a, s[k])
  OBVIOUS
<1>9. /\ c \in Seq(S) /\ Len(c) = h + 1 /\ c[h + 1] = s[k]
      /\ \A i \in 1 .. h : c[i] = a[i]
  BY <1>5, <1>7, <1>8, AppendProperties
<1>10. b = c
  <2>1. \A i \in 1 .. k : b[i] = c[i]
    <3> SUFFICES ASSUME NEW i \in 1 .. k PROVE b[i] = c[i]
      OBVIOUS
    <3>1. h + 1 = k /\ (i = k \/ i \in 1 .. h)
      BY <1>2, <1>4
    <3> QED  BY <1>5, <1>6, <1>9, <3>1
  <2>2. Len(c) = k
    BY <1>2, <1>9
  <2> QED  BY <1>6, <1>9, <2>1, <2>2, SeqEqual
<1> QED  BY <1>2, <1>3, <1>5, <1>6, <1>7, <1>8, <1>10

\* The first bytes of a letter begin one, and are one only all together.
LEMMA LetterBegins ==
    ASSUME NEW x \in Seq(Byte), IsLetter(x), NEW j \in 1 .. Len(x)
    PROVE  /\ BeginsLetter(SubSeq(x, 1, j))
           /\ IsLetter(SubSeq(x, 1, j)) <=> j = Len(x)
<1>1. PICK m \in Nat, z \in Nat : m = Len(x) /\ z = LetterSize(x[1])
  <2>1. Len(x) \in Nat
    BY LenProperties
  <2>2. LetterSize(x[1]) \in Nat
    BY DEF LetterSize
  <2> QED  BY <2>1, <2>2
<1>2. PICK p : p = SubSeq(x, 1, j)
  OBVIOUS
<1>3. p \in Seq(Byte) /\ Len(p) = j /\ \A i \in 1 .. j : p[i] = x[i]
  BY <1>2, PieceMore
<1>4. /\ m \in 1 .. z /\ m = z /\ (m > 1 => x[2] \in Second(x[1]))
      /\ \A i \in 3 .. m : x[i] \in 128 .. 191
  BY <1>1 DEF IsLetter, BeginsLetter
<1>5. p[1] = x[1] /\ (j > 1 => p[2] = x[2]) /\ \A i \in 3 .. j : p[i] = x[i] /\ i \in 3 .. m
  BY <1>1, <1>3
<1>6. BeginsLetter(p)
  <2>1. j \in 1 .. z /\ (j > 1 => m > 1)
    BY <1>1, <1>4
  <2> QED  BY <1>1, <1>3, <1>4, <1>5, <2>1 DEF BeginsLetter
<1>7. IsLetter(p) <=> j = m
  BY <1>1, <1>3, <1>4, <1>5, <1>6 DEF IsLetter
<1> QED  BY <1>1, <1>2, <1>6, <1>7

\* Where each letter of a text begins.
LEMMA LetterPlaces ==
    ASSUME NEW text \in Seq(Seq(Byte))
    PROVE  \E off \in [0 .. Len(text) -> Nat] :
              off[0] = 0 /\ \A k \in 1 .. Len(text) : off[k] = off[k - 1] + Len(text[k])
<1>1. PICK n \in Nat : n = Len(text)
  BY LenProperties
<1>2. \A k \in 1 .. n : Len(text[k]) \in Nat
  BY <1>1, ElementOfSeq, LenProperties
<1> DEFINE down == [k \in 1 .. n |-> k - 1]
           body == [x \in (1 .. n) \X Nat |-> x[2] + Len(text[x[1]])]
<1>3. PICK f \in [0 .. n -> Nat] : Recurs(f, n, 0, down, body)
  <2>1. body \in [(1 .. n) \X Nat -> Nat] /\ 0 \in Nat
    BY <1>2
  <2>2. \A k \in 1 .. n : down[k] \in 0 .. k - 1
    BY <1>1
  <2> HIDE DEF down, body
  <2> QED  BY <1>1, <2>1, <2>2, RecursionExists
<1>4. ASSUME NEW k \in 1 .. n PROVE f[k] = f[k - 1] + Len(text[k])
  <2>1. down[k] = k - 1 /\ k - 1 \in 0 .. n
    BY <1>1
  <2>2. f[k] = body[<<k, f[k - 1]>>]
    BY <1>3, <2>1 DEF Recurs
  <2>3. f[k - 1] \in Nat
    BY <1>3, <2>1
  <2> QED  BY <2>2, <2>3
<1> QED  BY <1>1, <1>3, <1>4 DEF Recurs

\* The bytes x are those of w behind position at.
LiesAt(x, w, at) == at + Len(x) <= Len(w) /\ \A j \in 1 .. Len(x) : w[at + j] = x[j]

\* After at bytes the decoder has read the text, and no part of a letter more.
HasRead(run, at, text) == run[at] = [text |-> text, part |-> <<>>]

\* The decoder reads the bytes of a letter behind those of others.
LEMMA LetterDecoded ==
    ASSUME NEW x \in Seq(Byte), IsLetter(x), NEW w \in Seq(Byte), NEW run, Decodes(run, w),
           NEW at \in Nat, LiesAt(x, w, at),
           NEW text \in Seq(Seq(Byte)), HasRead(run, at, text)
    PROVE  HasRead(run, at + Len(x), Append(text, x))
<1>1. PICK m \in Nat, n \in Nat : m = Len(x) /\ n = Len(w) /\ m >= 1
  <2>1. Len(x) \in Nat /\ Len(w) \in Nat
    BY LenProperties
  <2>2. LetterSize(x[1]) \in Nat
    BY DEF LetterSize
  <2> QED  BY <2>1, <2>2 DEF IsLetter, BeginsLetter
<1> DEFINE State(j) == [text |-> text, part |-> SubSeq(x, 1, j)]
           T == {j \in 0 .. m : j < m => run[at + j] = State(j)}
<1>2. ASSUME NEW j \in 1 .. m, j - 1 \in T
      PROVE  run[at + j] = Taken(text, SubSeq(x, 1, j))
  <2>1. j - 1 < m /\ at + (j - 1) = at + j - 1 /\ at + j \in 1 .. n
    BY <1>1 DEF LiesAt
  <2>2. run[at + j] = GetByte(run[at + j - 1], w[at + j])
    BY <1>1, <2>1 DEF Decodes
  <2>3. run[at + j - 1] = State(j - 1)
    BY <1>2, <2>1
  <2>4. w[at + j] = x[j]
    BY <1>1 DEF LiesAt
  <2>5. SubSeq(x, 1, j) = Append(SubSeq(x, 1, j - 1), x[j])
    BY <1>1, PieceMore
  <2>6. BeginsLetter(SubSeq(x, 1, j))
    BY <1>1, LetterBegins
  <2>7. GetByte(State(j - 1), x[j]) = Taken(text, SubSeq(x, 1, j))
    BY <2>5, <2>6 DEF GetByte
  <2> QED  BY <2>2, <2>3, <2>4, <2>7
<1>3. 0 \in T
  <2>1. at + 0 = at /\ SubSeq(x, 1, 0) = <<>>
    BY SubSeqEmpty
  <2> QED  BY <1>1, <2>1 DEF HasRead
<1>4. ASSUME NEW j \in 1 .. m, j - 1 \in T PROVE j \in T
  <2>1. run[at + j] = Taken(text, SubSeq(x, 1, j))
    BY <1>2, <1>4
  <2>2. j # m => ~ IsLetter(SubSeq(x, 1, j))
    BY <1>1, LetterBegins
  <2>3. j # m => run[at + j] = State(j)
    BY <2>1, <2>2 DEF Taken
  <2>4. j \in 0 .. m /\ (j < m => j # m)
    BY <1>1
  <2> HIDE DEF State
  <2> QED  BY <2>3, <2>4
<1>5. \A j \in 0 .. m : j \in T
  <2> HIDE DEF T
  <2> QED  BY <1>1, <1>3, <1>4, UpTo
<1>6. run[at + m] = Taken(text, SubSeq(x, 1, m))
  <2>1. m \in 1 .. m /\ m - 1 \in 0 .. m
    BY <1>1
  <2> HIDE DEF T
  <2> QED  BY <1>2, <1>5, <2>1
<1>7. SubSeq(x, 1, m) = x
  BY <1>1, SubSeqFull
<1> QED  BY <1>1, <1>6, <1>7 DEF Taken, HasRead

\* A text arrives letter for letter.
LEMMA TextDecoded ==
    ASSUME NEW text \in Seq(Seq(Byte)), \A i \in DOMAIN text : IsLetter(text[i])
    PROVE  Decoded(FlattenSeq(text)) = text
<1>1. PICK n \in Nat : n = Len(text)
  BY LenProperties
<1>2. PICK w : w = FlattenSeq(text)
  OBVIOUS
<1>3. CASE n = 0
  <2>1. text = <<>>
    BY <1>1, <1>3, EmptySeq
  <2>2. w = <<>> /\ w \in Seq(Byte) /\ Len(w) = 0
    BY <1>2, <2>1, EmptySeq DEF FlattenSeq
  <2>3. PICK run : Decodes(run, w) /\ FoldLeft(GetByte, NoBytes, w) = run[Len(w)]
    BY <2>2, DecoderRuns
  <2>4. FoldLeft(GetByte, NoBytes, w) = NoBytes
    BY <2>2, <2>3 DEF Decodes
  <2> QED  BY <1>2, <2>1, <2>4 DEF Decoded, NoBytes
<1>4. CASE n > 0
  <2>1. PICK off \in [0 .. n -> Nat] :
           off[0] = 0 /\ \A k \in 1 .. n : off[k] = off[k - 1] + Len(text[k])
    BY <1>1, LetterPlaces
  <2>2. /\ w \in Seq(Byte) /\ Len(w) = off[n] - off[0]
        /\ \A k \in 1 .. n : off[0] <= off[k - 1] /\ off[k] <= off[n]
        /\ \A k \in 1 .. n : \A j \in 1 .. Len(text[k]) : w[off[k - 1] - off[0] + j] = text[k][j]
    <3>1. /\ off \in [0 .. Len(text) -> Nat] /\ Len(text) > 0
          /\ \A k \in 1 .. Len(text) : off[k] = off[k - 1] + Len(text[k])
      BY <1>1, <1>4, <2>1
    <3>2. /\ FlattenSeq(text) \in Seq(Byte) /\ Len(FlattenSeq(text)) = off[Len(text)] - off[0]
          /\ \A k \in 1 .. Len(text) : off[0] <= off[k - 1] /\ off[k] <= off[Len(text)]
          /\ \A k \in 1 .. Len(text) : \A j \in 1 .. Len(text[k]) :
               FlattenSeq(text)[off[k - 1] - off[0] + j] = text[k][j]
      BY <3>1, PartsPlaced
    <3> QED  BY <1>1, <1>2, <3>2
  <2>3. Len(w) = off[n]
    <3>1. off[n] \in Nat
      BY <2>1
    <3> QED  BY <2>1, <2>2, <3>1
  <2>4. PICK run : Decodes(run, w) /\ FoldLeft(GetByte, NoBytes, w) = run[Len(w)]
    BY <2>2, DecoderRuns
  <2> DEFINE T == {k \in 0 .. n : run[off[k]] = [text |-> SubSeq(text, 1, k), part |-> <<>>]}
  <2>5. 0 \in T
    <3>1. SubSeq(text, 1, 0) = <<>> /\ 0 \in 0 .. n
      BY SubSeqEmpty
    <3> QED  BY <2>1, <2>4, <3>1 DEF Decodes, NoBytes
  <2>6. ASSUME NEW k \in 1 .. n, k - 1 \in T PROVE k \in T
    <3>1. PICK at \in Nat : at = off[k - 1] /\ at - 0 = at
      <4>1. k - 1 \in 0 .. n
        BY <1>1
      <4> QED  BY <2>1, <4>1
    <3>2. PICK x \in Seq(Byte) : x = text[k] /\ IsLetter(x)
      <4>1. k \in DOMAIN text /\ text[k] \in Seq(Byte)
        BY <1>1, ElementOfSeq, LenProperties
      <4> QED  BY <4>1
    <3>3. /\ off[k] = at + Len(x) /\ at + Len(x) <= Len(w)
          /\ \A j \in 1 .. Len(x) : w[at + j] = x[j]
      BY <2>1, <2>2, <2>3, <3>1, <3>2
    <3>4. PICK t \in Seq(Seq(Byte)) : t = SubSeq(text, 1, k - 1) /\ SubSeq(text, 1, k) = Append(t, x)
      BY <1>1, <3>2, PieceMore
    <3>5. HasRead(run, at, t)
      BY <2>6, <3>1, <3>4 DEF HasRead
    <3>6. HasRead(run, at + Len(x), Append(t, x))
      <4>1. Decodes(run, w) /\ w \in Seq(Byte) /\ IsLetter(x)
        BY <2>2, <2>4, <3>2
      <4>2. LiesAt(x, w, at)
        BY <3>3 DEF LiesAt
      <4> QED  BY <3>5, <4>1, <4>2, LetterDecoded
    <3>7. k \in 0 .. n
      BY <1>1
    <3> QED  BY <3>3, <3>4, <3>6, <3>7 DEF HasRead
  <2>7. run[off[n]] = [text |-> text, part |-> <<>>]
    <3>1. \A k \in 0 .. n : k \in T
      <4> HIDE DEF T
      <4> QED  BY <1>1, <2>5, <2>6, UpTo
    <3>2. n \in 0 .. n /\ SubSeq(text, 1, n) = text
      BY <1>1, SubSeqFull
    <3> QED  BY <3>1, <3>2
  <2> QED  BY <1>2, <2>3, <2>4, <2>7 DEF Decoded
<1> QED  BY <1>1, <1>3, <1>4

-----------------------------------------------------------------------------
(* An image is read                                                        *)

NamesFit(E) == \A k \in 1 .. Len(E) : Len(E[k].name) < NameLen

\* What the first c bytes d of the image l, laid out along off, give of the entries E.
IsReading(d, c, l, E, off) ==
    /\ Raises(d) <=> c < off[0]
    /\ c >= off[0] => parse_image(d).files = [k \in 1 .. Len(E) |-> EntryAt(d, k)]
    /\ c >= off[0] => \A k \in 1 .. Len(E) :
         /\ EntryAt(d, k).name = E[k].name
         /\ IsCutOf(EntryAt(d, k).content, Decoded(E[k].data))
         /\ c = Len(l) => EntryAt(d, k).content = Decoded(E[k].data)

\* What parse_image makes of the first c bytes of an image.
LEMMA ImageIsRead ==
    ASSUME NEW E \in Seq(ImageEntry), NamesFit(E), NEW l, NEW off, Layout(l, E, off),
           NEW c \in 0 .. Len(l)
    PROVE  IsReading(SubSeq(l, 1, c), c, l, E, off)
<1>d. PICK d : d = SubSeq(l, 1, c)
  OBVIOUS
<1>1. PICK n \in Nat : n = Len(E)
  BY LenProperties
<1>2. PICK z \in Nat, b \in Nat : z = Len(l) /\ z = off[n] /\ b = off[0]
  <2>1. l \in Seq(Byte) /\ Len(l) = off[n] /\ off \in [0 .. n -> Nat] /\ 0 \in 0 .. n
    BY <1>1 DEF Layout
  <2> QED  BY <2>1, LenProperties
<1>3. c \in Nat /\ c <= z
  BY <1>2
<1>4. d \in Seq(Byte) /\ Len(d) = c /\ \A x \in 1 .. c : d[x] = l[x]
  <2>1. l \in Seq(Byte) /\ 1 \in Nat /\ 1 >= 1 /\ c <= Len(l)
    BY <1>2, <1>3 DEF Layout
  <2>2. /\ d \in Seq(Byte) /\ Len(d) = IF 1 <= c THEN c - 1 + 1 ELSE 0
        /\ \A x \in 1 .. c - 1 + 1 : d[x] = l[1 + x - 1]
    BY <1>d, <1>3, <2>1, Piece
  <2>3. Len(d) = c
    BY <1>3, <2>2
  <2>4. ASSUME NEW x \in 1 .. c PROVE d[x] = l[x]
    <3>1. x \in 1 .. c - 1 + 1 /\ 1 + x - 1 = x
      BY <1>3
    <3> QED  BY <2>2, <3>1
  <2> QED  BY <2>2, <2>3, <2>4
<1>5. NameLen \in Nat /\ (NameLen + 8) * n \in Nat /\ b = 10 + (NameLen + 8) * n
  <2>1. NameLen \in Nat /\ b = 10 + (NameLen + 8) * n
    BY <1>1, <1>2, ImageAssumption DEF Layout
  <2>2. NameLen + 8 \in Nat
    BY <2>1
  <2> QED  BY <2>1, <2>2
<1>6. b <= z
  <2>1. CASE n = 0
    BY <1>2, <2>1
  <2>2. CASE n # 0
    <3>1. n \in 1 .. n /\ n - 1 \in 0 .. n
      BY <2>2
    <3>2. PICK e \in Nat, f \in Nat : e = off[n - 1] /\ f = Len(E[n].data)
      <4>1. off \in [0 .. n -> Nat]
        BY <1>1 DEF Layout
      <4>2. E[n] \in ImageEntry
        BY <1>1, <3>1, ElementOfSeq
      <4>3. E[n].data \in Seq(Byte)
        BY <4>2 DEF ImageEntry
      <4> QED  BY <3>1, <4>1, <4>3, LenProperties
    <3>3. off[n] = e + f /\ b <= e
      BY <1>1, <1>2, <3>1, <3>2 DEF Layout
    <3> QED  BY <1>2, <3>2, <3>3
  <2> QED  BY <2>1, <2>2
<1>7. ASSUME c >= 10 PROVE Slice(d, 0, 6) = MAGIC /\ Unpack32(d, 6) = n
  <2>1. \A j \in 1 .. 6 : j \in 1 .. c
    BY <1>3, <1>7
  <2>2. \A j \in 1 .. 4 : 6 + j \in 1 .. c
    BY <1>3, <1>7
  <2>3. /\ \A j \in 1 .. 6 : d[j] = MAGIC[j]
        /\ \A j \in 1 .. 4 : d[6 + j] = Pack32(n)[j]
    BY <1>1, <1>4, <2>1, <2>2 DEF Layout
  <2>4. Fits32(n) /\ 6 \in Nat
    BY <1>1 DEF Layout
  <2>5. Unpack32(d, 6) = n
    BY <2>3, <2>4, ReadBack
  <2>6. PICK u : u = Slice(d, 0, 6)
    OBVIOUS
  <2>7. /\ u \in Seq(Byte) /\ Len(u) = 6
        /\ \A i \in 1 .. 6 : u[i] = d[0 + i]
    <3>1. PICK from \in Nat, to \in Nat : from = 0 /\ to = 6
      OBVIOUS
    <3>2. d \in Seq(Byte) /\ from <= to /\ to <= Len(d) /\ to - from = 6
      BY <1>3, <1>4, <1>7, <3>1
    <3>3. IsSlice(Slice(d, from, to), d, from, to)
      BY <3>2, Sliced
    <3>4. IsSlice(u, d, from, to)
      BY <2>6, <3>1, <3>3
    <3>5. /\ u \in Seq(Byte) /\ Len(u) = 6
          /\ \A i \in 1 .. 6 : u[i] = d[from + i]
      BY <3>2, <3>4 DEF IsSlice
    <3> QED  BY <3>1, <3>5
  <2>8. MAGIC \in Seq(Byte) /\ Len(MAGIC) = 6
    BY DEF MAGIC, Byte
  <2>9. \A i \in 1 .. 6 : u[i] = MAGIC[i]
    <3>1. \A i \in 1 .. 6 : 0 + i = i
      OBVIOUS
    <3> QED  BY <2>3, <2>7, <3>1
  <2>10. u = MAGIC
    BY <2>7, <2>8, <2>9, SeqEqual
  <2> QED  BY <2>5, <2>6, <2>10
<1>8. Raises(d) <=> c < b
  <2>1. CASE c < 10
    <3>1. Raises(d)
      BY <1>4, <2>1 DEF Raises
    <3> QED  BY <1>3, <1>5, <2>1, <3>1
  <2>2. CASE ~ (c < 10)
    <3>1. Slice(d, 0, 6) = MAGIC /\ Unpack32(d, 6) = n
      BY <1>3, <1>7, <2>2
    <3>2. Raises(d) <=> c < 10 + (NameLen + 8) * n
      BY <1>4, <2>2, <3>1 DEF Raises
    <3> QED  BY <1>5, <3>2
  <2> QED  BY <2>1, <2>2
<1>9. ASSUME c >= b PROVE parse_image(d).files = [k \in 1 .. n |-> EntryAt(d, k)]
  <2>1. ~ Raises(d) /\ c >= 10
    <3>1. b >= 10
      BY <1>5
    <3>2. c >= 10 /\ ~ (c < b)
      BY <1>3, <1>9, <3>1
    <3> QED  BY <1>8, <3>2
  <2>2. Unpack32(d, 6) = n
    BY <1>7, <2>1
  <2> QED  BY <2>1, <2>2 DEF parse_image
<1>10. ASSUME c >= b, NEW k \in 1 .. n
       PROVE  /\ EntryAt(d, k).name = E[k].name
              /\ IsCutOf(EntryAt(d, k).content, Decoded(E[k].data))
              /\ c = z => EntryAt(d, k).content = Decoded(E[k].data)
  <2>1. PICK pos \in Nat :
         /\ pos = 10 + (NameLen + 8) * (k - 1) /\ pos + (NameLen + 8) <= b
         /\ \A j \in 1 .. NameLen : l[pos + j] = Padded(E[k].name)[j]
         /\ \A j \in 1 .. 4 : l[pos + NameLen + j] = Pack32(off[k - 1])[j]
         /\ \A j \in 1 .. 4 : l[pos + NameLen + 4 + j] = Pack32(Len(E[k].data))[j]
    BY <1>1, <1>2 DEF Layout
  <2>2. PICK name \in Seq(NameByte), data \in Seq(Byte) :
           name = E[k].name /\ data = E[k].data /\ Len(name) < NameLen
    <3>1. E[k] \in ImageEntry /\ Len(E[k].name) < NameLen
      BY <1>1, ElementOfSeq DEF NamesFit
    <3> QED  BY <3>1 DEF ImageEntry
  <2>3. PICK e \in Nat, f \in Nat, m \in Nat : e = off[k - 1] /\ f = off[k] /\ m = Len(data)
    <3>1. off \in [0 .. n -> Nat] /\ k \in 0 .. n /\ k - 1 \in 0 .. n
      BY <1>1 DEF Layout
    <3> QED  BY <3>1, LenProperties
  <2>4. f = e + m /\ f <= z /\ b <= e /\ Fits32(e) /\ Fits32(m)
    BY <1>1, <1>2, <2>2, <2>3 DEF Layout
  <2>5. PICK w \in Nat : w = pos + NameLen
    BY <1>5
  <2>6. w + 8 <= c /\ pos + (NameLen + 8) <= c
    <3>1. pos + (NameLen + 8) <= b
      BY <2>1
    <3> QED  BY <1>2, <1>3, <1>5, <1>10, <2>5, <3>1
  <2>7. Unpack32(d, w) = e
    <3>1. ASSUME NEW j \in 1 .. 4 PROVE d[w + j] = Pack32(e)[j]
      <4>1. w + j \in 1 .. c /\ w + j = pos + NameLen + j
        BY <1>3, <2>5, <2>6
      <4> QED  BY <1>4, <2>1, <2>3, <4>1
    <3> QED  BY <2>4, <3>1, ReadBack
  <2>8. Unpack32(d, w + 4) = m
    <3>1. ASSUME NEW j \in 1 .. 4 PROVE d[(w + 4) + j] = Pack32(m)[j]
      <4>1. (w + 4) + j \in 1 .. c /\ (w + 4) + j = pos + NameLen + 4 + j
        BY <1>3, <1>5, <2>5, <2>6
      <4>2. l[pos + NameLen + 4 + j] = Pack32(m)[j]
        BY <2>1, <2>2, <2>3
      <4> QED  BY <1>4, <4>1, <4>2
    <3>2. w + 4 \in Nat
      OBVIOUS
    <3> QED  BY <2>4, <3>1, <3>2, ReadBack
  <2>9. EntryAt(d, k) = [name |-> UpToNul(Slice(d, pos, pos + NameLen)),
                         content |-> Decoded(Slice(d, e, e + m))]
    <3>1. pos = 10 + (NameLen + 8) * (k - 1) /\ pos + NameLen = w
          /\ pos + NameLen + 4 = w + 4
      BY <1>5, <2>1, <2>5
    <3> QED  BY <2>7, <2>8, <3>1 DEF EntryAt
  <2>10. UpToNul(Slice(d, pos, pos + NameLen)) = name
    <3>1. PICK s : s = Slice(d, pos, w)
      OBVIOUS
    <3>2. /\ s \in Seq(Byte) /\ Len(s) = NameLen
          /\ \A i \in 1 .. NameLen : s[i] = d[pos + i]
      <4>1. pos <= w /\ w <= Len(d) /\ w - pos = NameLen
        BY <1>3, <1>4, <1>5, <2>5, <2>6
      <4>2. d \in Seq(Byte)
        BY <1>4
      <4>3. IsSlice(s, d, pos, w)
        BY <3>1, <4>1, <4>2, Sliced
      <4> QED  BY <4>1, <4>3 DEF IsSlice
    <3>3. ASSUME NEW j \in 1 .. NameLen PROVE s[j] = Padded(name)[j]
      <4>1. pos + j \in 1 .. c
        BY <1>3, <1>5, <2>6
      <4> QED  BY <1>4, <2>1, <2>2, <3>2, <4>1
    <3>4. UpToNul(s) = name
      BY <2>2, <3>2, <3>3, NameRead
    <3> QED  BY <2>5, <3>1, <3>4
  <2>11. PICK u : u = Slice(d, e, e + m)
    OBVIOUS
  <2>12. /\ u \in Seq(Byte) /\ Len(u) \in Nat /\ Len(u) <= m
         /\ c = z => Len(u) = m
         /\ \A i \in 1 .. Len(u) : u[i] = d[e + i] /\ e + i \in 1 .. c
    <3>1. PICK g \in Nat : g = e + m /\ e <= g /\ g - e = m
      OBVIOUS
    <3>4. d \in Seq(Byte) /\ Len(d) = c
      BY <1>4
    <3>5. IsSlice(Slice(d, e, g), d, e, g)
      BY <3>1, <3>4, Sliced
    <3>2. /\ u \in Seq(Byte) /\ Len(u) \in Nat
          /\ g <= c => Len(u) = g - e
          /\ Len(u) <= g - e
          /\ \A i \in 1 .. Len(u) : u[i] = d[e + i] /\ e + i \in 1 .. c
      BY <2>11, <3>1, <3>4, <3>5 DEF IsSlice
    <3>3. c = z => g <= c
      BY <1>3, <2>3, <2>4, <3>1
    <3> QED  BY <3>1, <3>2, <3>3
  <2>13. ASSUME NEW i \in 1 .. Len(u) PROVE u[i] = data[i]
    <3>1. i \in 1 .. m
      BY <2>12
    <3>2. l[e + i] = data[i]
      BY <1>1, <2>2, <2>3, <3>1 DEF Layout
    <3> QED  BY <1>4, <2>12, <3>2
  <2>14. /\ IsCutOf(Decoded(u), Decoded(data))
         /\ Len(u) = m => Decoded(u) = Decoded(data)
    <3>1. Len(u) <= Len(data) /\ u \in Seq(Byte) /\ m = Len(data)
      BY <2>3, <2>12
    <3> QED  BY <2>13, <3>1, DecodedCut
  <2> QED  BY <2>2, <2>9, <2>10, <2>11, <2>12, <2>14
<1>11. IsReading(d, c, l, E, off)
  BY <1>1, <1>2, <1>8, <1>9, <1>10 DEF IsReading
<1> QED  BY <1>d, <1>11

\* What the image is to hold, entry by entry.
LEMMA ContentsAre ==
    ASSUME NEW kernel \in Seq(Byte), NEW files \in Seq(ImageEntry), Packable(kernel, files),
           NEW E, E = Entries(kernel, files), NEW n, n = Len(E)
    PROVE  Contents(kernel, files)
             = [k \in 1 .. n |-> [name |-> E[k].name, content |-> Decoded(E[k].data)]]
<1>1. PICK m \in Nat : m = Len(files) /\ n = 1 + m /\ n \in Nat /\ DOMAIN files = 1 .. m
  BY EntriesAre, LenProperties
<1> DEFINE G(e) == [name |-> e.name, content |-> Decoded(e.data)]
           S    == {G(E[k]) : k \in 1 .. n}
           t    == [i \in 1 .. m |-> G(files[i])]
<1>2. E[1] = [name |-> KERNEL, data |-> kernel] /\ \A i \in 1 .. m : E[1 + i] = files[i]
  BY <1>1, EntriesAre
<1>3. PICK first : first = << G(E[1]) >>
  OBVIOUS
<1>4. PICK u : u = first \o t
  OBVIOUS
<1>5. u = Contents(kernel, files)
  BY <1>1, <1>2, <1>3, <1>4 DEF Contents
<1>6. first \in Seq(S) /\ Len(first) = 1 /\ first[1] = G(E[1])
  <2>1. 1 \in 1 .. n
    BY <1>1
  <2>2. G(E[1]) \in S
    BY <2>1
  <2> HIDE DEF S, G
  <2> QED  BY <1>3, <2>2
<1>7. t \in Seq(S) /\ Len(t) = m
  <2>1. ASSUME NEW i \in 1 .. m PROVE G(files[i]) \in S
    <3>1. 1 + i \in 1 .. n /\ E[1 + i] = files[i]
      BY <1>1, <1>2
    <3> HIDE DEF G
    <3> QED  BY <3>1
  <2> HIDE DEF S, G
  <2> QED  BY <1>1, <2>1, IsASeq
<1>8. \A i \in 1 .. m : t[i] = G(files[i])
  OBVIOUS
<1> HIDE DEF t
<1>9. /\ Len(u) = 1 + m /\ u \in Seq(S)
      /\ \A j \in 1 .. 1 : u[j] = first[j]
      /\ \A j \in 1 .. m : u[1 + j] = t[j]
  <2>1. PICK one : one = 1
    OBVIOUS
  <2>2. one = Len(first) /\ m = Len(t) /\ first \in Seq(S) /\ t \in Seq(S)
    BY <1>6, <1>7, <2>1
  <2> HIDE DEF S
  <2>3. /\ u \in Seq(S) /\ Len(u) = one + m
        /\ \A j \in 1 .. one : u[j] = first[j]
        /\ \A j \in 1 .. m : u[one + j] = t[j]
    BY <1>4, <2>2, After
  <2> QED  BY <2>1, <2>3
<1>10. ASSUME NEW k \in 1 .. n PROVE u[k] = G(E[k])
  <2> HIDE DEF G, S
  <2>1. CASE k = 1
    BY <1>6, <1>9, <2>1
  <2>2. CASE k # 1
    <3>1. PICK j \in 1 .. m : k = 1 + j
      <4>1. k - 1 \in 1 .. m /\ k = 1 + (k - 1)
        BY <1>1, <2>2
      <4> QED  BY <4>1
    <3> QED  BY <1>2, <1>8, <1>9, <3>1
  <2> QED  BY <2>1, <2>2
<1>11. u = [k \in 1 .. n |-> u[k]]
  <2>1. DOMAIN u = 1 .. n /\ u = [k \in DOMAIN u |-> u[k]]
    <3> HIDE DEF S
    <3> QED  BY <1>1, <1>9, LenProperties, SeqDef
  <2> QED  BY <2>1
<1>12. [k \in 1 .. n |-> u[k]] = [k \in 1 .. n |-> G(E[k])]
  <2> HIDE DEF G, S
  <2> QED  BY <1>10
<1> QED  BY <1>5, <1>11, <1>12

\* What ImageArrives says of the reading of an image l of which cut bytes have been written.
Arrives(read, packed, entries, l, cut) ==
    /\ cut = Len(l) => ~ read.raised /\ read.files = packed
    /\ \A i \in DOMAIN packed : \A text \in Texts :
         entries[i].data = FlattenSeq(text) => packed[i].content = text
    /\ ~ read.raised =>
         /\ Len(read.files) = Len(packed)
         /\ \A i \in DOMAIN packed :
              /\ read.files[i].name = packed[i].name
              /\ IsCutOf(read.files[i].content, packed[i].content)
    /\ read.raised => cut < DataOffset(Len(packed))

\* This holds of every image, wherever the writing has stopped.
LEMMA OneImage ==
    ASSUME NEW kernel \in Seq(Byte), NEW files \in Seq(ImageEntry), Packable(kernel, files),
           NEW cut \in 0 .. Len(pack_image(kernel, files))
    PROVE  Arrives(parse_image(SubSeq(pack_image(kernel, files), 1, cut)),
                   Contents(kernel, files), Entries(kernel, files),
                   pack_image(kernel, files), cut)
<1>l. PICK l : l = pack_image(kernel, files)
  OBVIOUS
<1>p. PICK packed : packed = Contents(kernel, files)
  OBVIOUS
<1>r. PICK read : read = parse_image(SubSeq(l, 1, cut))
  OBVIOUS
<1>c. cut \in 0 .. Len(l)
  BY <1>l
<1>1. PICK E : E = Entries(kernel, files)
  OBVIOUS
<1>2. PICK off : Layout(l, E, off)
  BY <1>l, <1>1, ImageIsLaidOut
<1>3. /\ E \in Seq(ImageEntry) /\ Len(E) = 1 + Len(files) /\ Len(files) \in Nat
      /\ \A k \in 1 .. Len(E) : Len(E[k].name) < NameLen
  BY <1>1, EntriesAre
<1>4. PICK n \in Nat : n = Len(E) /\ n >= 1
  BY <1>3
<1>5. PICK d : d = SubSeq(l, 1, cut)
  OBVIOUS
<1>6. /\ Raises(d) <=> cut < off[0]
      /\ cut >= off[0] => parse_image(d).files = [k \in 1 .. n |-> EntryAt(d, k)]
      /\ cut >= off[0] => \A k \in 1 .. n :
           /\ EntryAt(d, k).name = E[k].name
           /\ IsCutOf(EntryAt(d, k).content, Decoded(E[k].data))
           /\ cut = Len(l) => EntryAt(d, k).content = Decoded(E[k].data)
  <2>1. NamesFit(E) /\ E \in Seq(ImageEntry)
    BY <1>3 DEF NamesFit
  <2>3. IsReading(SubSeq(l, 1, cut), cut, l, E, off)
    BY <1>c, <1>2, <2>1, ImageIsRead
  <2>2. /\ Raises(d) <=> cut < off[0]
        /\ cut >= off[0] => parse_image(d).files = [k \in 1 .. Len(E) |-> EntryAt(d, k)]
        /\ cut >= off[0] => \A k \in 1 .. Len(E) :
             /\ EntryAt(d, k).name = E[k].name
             /\ IsCutOf(EntryAt(d, k).content, Decoded(E[k].data))
             /\ cut = Len(l) => EntryAt(d, k).content = Decoded(E[k].data)
    BY <1>5, <2>3 DEF IsReading
  <2> QED  BY <1>4, <2>2
<1>7. read.raised <=> Raises(d)
  BY <1>r, <1>5 DEF parse_image
<1>8. PICK b \in Nat, z \in Nat : b = off[0] /\ z = Len(l) /\ b <= z
  <2>1. /\ off \in [0 .. n -> Nat] /\ Len(l) = off[n] /\ off[0] <= off[n - 1]
        /\ off[n - 1] <= off[n]
    <3>1. n \in 1 .. n
      BY <1>4
    <3>2. off \in [0 .. n -> Nat] /\ n - 1 \in 0 .. n
      BY <1>2, <1>4 DEF Layout
    <3>3. PICK x \in Nat : x = off[n - 1]
      BY <3>2
    <3>4. PICK y \in Nat : y = Len(E[n].data)
      <4>1. E[n] \in ImageEntry
        BY <1>3, <1>4, <3>1, ElementOfSeq
      <4> QED  BY <4>1, LenProperties DEF ImageEntry
    <3>5. off[n] = x + y /\ off[0] <= x /\ Len(l) = off[n]
      BY <1>2, <1>4, <3>1, <3>3, <3>4 DEF Layout
    <3> QED  BY <3>2, <3>3, <3>4, <3>5
  <2>2. PICK b \in Nat, x \in Nat, z \in Nat : b = off[0] /\ x = off[n - 1] /\ z = off[n]
    <3>1. 0 \in 0 .. n /\ n - 1 \in 0 .. n /\ n \in 0 .. n
      BY <1>4
    <3> QED  BY <2>1, <3>1
  <2> QED  BY <2>1, <2>2
<1>9. packed = [k \in 1 .. n |-> [name |-> E[k].name, content |-> Decoded(E[k].data)]]
  BY <1>p, <1>1, <1>4, ContentsAre
<1>10. DOMAIN packed = 1 .. n /\ Len(packed) = n
  BY <1>9
<1>11. DataOffset(Len(packed)) = b
  <2>1. b = 10 + (NameLen + 8) * n /\ NameLen \in Nat
    BY <1>2, <1>4, <1>8, ImageAssumption DEF Layout
  <2>2. Len(MAGIC) = 6
    BY DEF MAGIC
  <2> QED  BY <1>10, <2>1, <2>2 DEF DataOffset
<1>12. cut \in Nat /\ cut <= z
  BY <1>c, <1>8
<1>13. cut = z => ~ read.raised /\ read.files = packed
  <2> SUFFICES ASSUME cut = z PROVE ~ read.raised /\ read.files = packed
    OBVIOUS
  <2>1. cut >= b /\ ~ (cut < b)
    BY <1>8, <1>12
  <2>2. read.files = [k \in 1 .. n |-> EntryAt(d, k)]
    BY <1>r, <1>5, <1>6, <1>8, <2>1
  <2>3. ASSUME NEW k \in 1 .. n
        PROVE EntryAt(d, k) = [name |-> E[k].name, content |-> Decoded(E[k].data)]
    <3>1. EntryAt(d, k).name = E[k].name /\ EntryAt(d, k).content = Decoded(E[k].data)
      BY <1>6, <1>8, <2>1
    <3>2. EntryAt(d, k) = [name |-> EntryAt(d, k).name, content |-> EntryAt(d, k).content]
      BY DEF EntryAt
    <3> QED  BY <3>1, <3>2
  <2> QED  BY <1>6, <1>7, <1>8, <1>9, <2>1, <2>2, <2>3
<1>14. ~ read.raised => /\ Len(read.files) = n
                        /\ \A i \in 1 .. n :
                             /\ read.files[i].name = packed[i].name
                             /\ IsCutOf(read.files[i].content, packed[i].content)
  <2> SUFFICES ASSUME ~ read.raised
               PROVE  /\ Len(read.files) = n
                      /\ \A i \in 1 .. n :
                           /\ read.files[i].name = packed[i].name
                           /\ IsCutOf(read.files[i].content, packed[i].content)
    OBVIOUS
  <2>1. cut >= b
    BY <1>6, <1>7, <1>8, <1>12
  <2>2. read.files = [k \in 1 .. n |-> EntryAt(d, k)]
    BY <1>r, <1>5, <1>6, <1>8, <2>1
  <2>3. Len(read.files) = n
    BY <2>2
  <2>4. ASSUME NEW i \in 1 .. n
        PROVE  /\ read.files[i].name = packed[i].name
               /\ IsCutOf(read.files[i].content, packed[i].content)
    <3>1. read.files[i] = EntryAt(d, i)
      BY <2>2
    <3>2. packed[i].name = E[i].name /\ packed[i].content = Decoded(E[i].data)
      BY <1>9
    <3> QED  BY <1>6, <1>8, <2>1, <3>1, <3>2
  <2> QED  BY <2>3, <2>4
<1>15. read.raised => cut < DataOffset(Len(packed))
  BY <1>6, <1>7, <1>8, <1>11
<1>16. ASSUME NEW i \in 1 .. n, NEW text \in Texts, E[i].data = FlattenSeq(text)
       PROVE  packed[i].content = text
  <2>1. packed[i].content = Decoded(E[i].data)
    BY <1>9
  <2>2. text \in Seq(Seq(Byte)) /\ \A j \in DOMAIN text : IsLetter(text[j])
    BY LibraryAssumption DEF Byte
  <2>3. Decoded(FlattenSeq(text)) = text
    BY <2>2, TextDecoded
  <2> QED  BY <1>16, <2>1, <2>3
<1>17. Arrives(read, packed, E, l, cut)
  BY <1>8, <1>10, <1>13, <1>14, <1>15, <1>16 DEF Arrives
<1> QED  BY <1>l, <1>p, <1>r, <1>1, <1>17

\* bridge.py reads what pack_image.py has packed, whatever the bytes of the kernel and of
\* the files are, and texts letter by letter; and from a beginning of an image nothing, or
\* every name with the beginnings of the contents, of which a letter may be broken.
THEOREM ImageIsRestored == Spec => []ImageArrives
<1>1. Init => ImageArrives
  BY DEF Init, NoCall, ImageArrives
<1>2. ImageArrives /\ [Next]_call => ImageArrives'
  <2> SUFFICES ASSUME ImageArrives, [Next]_call PROVE ImageArrives'
    OBVIOUS
  <2>1. CASE CallMemory
    BY <2>1 DEF CallMemory, ImageArrives
  <2>2. CASE CallNumber
    BY <2>2 DEF CallNumber, ImageArrives
  <2>3. CASE CallLine
    BY <2>3 DEF CallLine, ImageArrives
  <2>4. CASE CallImage
    <3>1. PICK kernel \in Kernels, files \in SeqOf(Files, 2) :
            /\ Packable(kernel, files)
            /\ \E cut \in 0 .. Len(pack_image(kernel, files)) :
                 call' = [of |-> "image", kernel |-> kernel, files |-> files, cut |-> cut]
      BY <2>4 DEF CallImage
    <3>2. PICK cut \in 0 .. Len(pack_image(kernel, files)) :
                 call' = [of |-> "image", kernel |-> kernel, files |-> files, cut |-> cut]
      BY <3>1
    <3>3. kernel \in Seq(Byte) /\ files \in Seq(ImageEntry)
      <4>1. kernel \in Seq(Byte) /\ Files \subseteq ImageEntry
        BY LibraryAssumption DEF Byte, NameByte, ImageEntry
      <4>2. files \in Seq(Files)
        <5>1. PICK m \in 0 .. 2 : files \in [1 .. m -> Files]
          BY DEF SeqOf
        <5>2. m \in Nat
          OBVIOUS
        <5> QED  BY <5>1, <5>2, SeqDef
      <4> QED  BY <4>1, <4>2, SeqMonotonic
    <3>4. Packable(kernel, files)
      BY <3>1
    <3>5. Arrives(parse_image(SubSeq(pack_image(kernel, files), 1, cut)),
                  Contents(kernel, files), Entries(kernel, files),
                  pack_image(kernel, files), cut)
      BY <3>3, <3>4, OneImage
    <3>6. call'.kernel = kernel /\ call'.files = files /\ call'.cut = cut
      BY <3>2
    <3> QED  BY <3>5, <3>6 DEF ImageArrives, Arrives
  <2>5. CASE CallKernel
    BY <2>5 DEF CallKernel, ImageArrives
  <2>6. CASE CallGate
    BY <2>6 DEF CallGate, ImageArrives
  <2>7. CASE CallChar
    BY <2>7 DEF CallChar, ImageArrives
  <2>8. CASE UNCHANGED call
    BY <2>8 DEF ImageArrives
  <2> QED  BY <2>1, <2>2, <2>3, <2>4, <2>5, <2>6, <2>7, <2>8 DEF Next
<1> QED  BY <1>1, <1>2, PTL DEF Spec

-----------------------------------------------------------------------------
(* Powers and numbers                                                      *)

\* A product of a number of at least two.
LEMMA Double ==
    ASSUME NEW b \in Nat, b >= 2, NEW q \in Nat
    PROVE  b * q >= 2 * q
  BY SMT

\* A quotient of a positive number is less, and with the remainder it gives the number.
LEMMA Quotient ==
    ASSUME NEW v \in Nat, v > 0, NEW b \in Nat, b >= 2
    PROVE  /\ v \div b \in Nat /\ v \div b < v /\ v % b \in 0 .. b - 1
           /\ v = b * (v \div b) + (v % b)
<1>1. PICK q, r : q = v \div b /\ r = v % b
  OBVIOUS
<1>2. q \in Int /\ r \in 0 .. b - 1 /\ v = b * q + r
  BY <1>1, SMT
<1>3. q >= 0
  BY <1>2, SMT
<1>4. q < v
  <2>1. PICK p \in Int : p = b * q
    BY <1>2
  <2>2. p >= 2 * q
    BY <1>2, <1>3, <2>1, Double
  <2>3. v = p + r
    BY <1>2, <2>1
  <2>4. q \in Int /\ r \in Int /\ r >= 0
    BY <1>2
  <2> QED  BY <1>3, <2>1, <2>2, <2>3, <2>4
<1> QED  BY <1>1, <1>2, <1>3, <1>4

\* Each power is twice the one before.
LEMMA PowersDouble ==
    /\ PowerOf2 \in [0 .. IntBits -> Nat \ {0}] /\ PowerOf2[0] = 1
    /\ \A n \in 1 .. IntBits : PowerOf2[n] = 2 * PowerOf2[n - 1]
<1> DEFINE down == [k \in 1 .. IntBits |-> k - 1]
           body == [x \in (1 .. IntBits) \X Nat |-> 2 * x[2]]
<1>1. IntBits \in Nat
  BY RuntimeAssumption DEF RuntimeAssumption
<1>2. PICK f \in [0 .. IntBits -> Nat] : Recurs(f, IntBits, 1, down, body)
  <2>1. body \in [(1 .. IntBits) \X Nat -> Nat] /\ 1 \in Nat
    OBVIOUS
  <2>2. \A k \in 1 .. IntBits : down[k] \in 0 .. k - 1
    BY <1>1
  <2> HIDE DEF down, body
  <2> QED  BY <1>1, <2>1, <2>2, RecursionExists
<1>3. f[0] = 1 /\ \A n \in 1 .. IntBits : f[n] = 2 * f[n - 1]
  <2>1. \A n \in 1 .. IntBits : down[n] = n - 1 /\ n - 1 \in 0 .. IntBits
    BY <1>1
  <2>2. \A n \in 1 .. IntBits : f[n] = body[<<n, f[n - 1]>>]
    BY <1>2, <2>1 DEF Recurs
  <2>3. \A n \in 1 .. IntBits : f[n - 1] \in Nat
    BY <2>1
  <2> QED  BY <1>2, <2>2, <2>3 DEF Recurs
<1> DEFINE Eq(p) == p = [n \in 0 .. IntBits |-> IF n = 0 THEN 1 ELSE 2 * p[n - 1]]
<1>4. Eq(f)
  <2>1. \A n \in 0 .. IntBits : n # 0 => n \in 1 .. IntBits
    BY <1>1
  <2> QED  BY <1>2, <1>3, <2>1
<1>5. Eq(PowerOf2)
  <2>1. PowerOf2 = CHOOSE p : Eq(p)
    BY DEF PowerOf2
  <2> HIDE DEF Eq
  <2> QED  BY <1>4, <2>1
<1>6. PowerOf2[0] = 1 /\ \A n \in 1 .. IntBits : PowerOf2[n] = 2 * PowerOf2[n - 1]
  <2>1. 0 \in 0 .. IntBits /\ \A n \in 1 .. IntBits : n \in 0 .. IntBits /\ n # 0
    BY <1>1
  <2> QED  BY <1>5, <2>1
<1>7. \A n \in 0 .. IntBits : PowerOf2[n] \in Nat \ {0}
  <2> DEFINE T == {n \in 0 .. IntBits : PowerOf2[n] \in Nat \ {0}}
  <2>1. 0 \in T
    BY <1>1, <1>6
  <2>2. ASSUME NEW k \in 1 .. IntBits, k - 1 \in T PROVE k \in T
    <3>1. k \in 0 .. IntBits
      BY <1>1
    <3> QED  BY <1>6, <2>2, <3>1
  <2>3. \A k \in 0 .. IntBits : k \in T
    <3> HIDE DEF T
    <3> QED  BY <1>1, <2>1, <2>2, UpTo
  <2> QED  BY <2>3
<1>8. PowerOf2 = [n \in 0 .. IntBits |-> PowerOf2[n]]
  BY <1>5
<1> QED  BY <1>6, <1>7, <1>8

\* ValueOf adds one digit after the other.
LEMMA ValueRuns ==
    ASSUME NEW b \in Nat, NEW s \in Seq(Nat)
    PROVE  \E run \in [0 .. Len(s) -> Nat] :
              /\ run[0] = 0 /\ run[Len(s)] = ValueOf(s, b)
              /\ \A k \in 1 .. Len(s) : run[k] = run[k - 1] * b + s[k]
<1> DEFINE n == Len(s)
           body == [x \in (1 .. n) \X Nat |-> x[2] * b + s[x[1]]]
<1>1. n \in Nat /\ DOMAIN s = 1 .. n /\ \A k \in 1 .. n : s[k] \in Nat
  BY LenProperties, ElementOfSeq
<1>2. body \in [(1 .. n) \X Nat -> Nat]
  <2>1. \A v \in Nat, d \in Nat : v * b + d \in Nat
    OBVIOUS
  <2> HIDE DEF n
  <2> QED  BY <1>1, <2>1
<1> DEFINE Eq(i) == i = [t \in SUBSET DOMAIN s |->
                           IF t = {} THEN 0 ELSE i[t \ {Max(t)}] * b + s[Max(t)]]
           fold == CHOOSE i : Eq(i)
<1>3. ValueOf(s, b) = fold[1 .. n]
  BY <1>1 DEF ValueOf, FoldLeft, MapThenFoldSet
<1> HIDE DEF n
<1>4. Eq(fold)
  <2>1. PICK it \in [SUBSET (1 .. n) -> Nat] : Iterates(it, n, 0, body)
    <3> HIDE DEF body
    <3> QED  BY <1>1, <1>2, LoopExists
  <2>2. ASSUME NEW t \in SUBSET (1 .. n)
        PROVE  it[t] = IF t = {} THEN 0 ELSE it[t \ {Max(t)}] * b + s[Max(t)]
    <3>1. CASE t = {}
      <4> HIDE DEF body
      <4> QED  BY <2>1, <3>1 DEF Iterates
    <3>2. CASE t # {}
      <4>1. PICK x, r : x = Max(t) /\ r = t \ {Max(t)}
        OBVIOUS
      <4>2. x \in 1 .. n /\ r \in SUBSET (1 .. n)
        <5>1. Max(t) \in t /\ t \ {Max(t)} \in SUBSET (1 .. n)
          BY <1>1, <3>2, LastTurn
        <5> QED  BY <4>1, <5>1
      <4>3. it[t] = body[<<x, it[r]>>]
        <5> HIDE DEF body
        <5> QED  BY <2>1, <3>2, <4>1 DEF Iterates
      <4>4. it[r] \in Nat
        BY <2>1, <4>2
      <4>5. body[<<x, it[r]>>] = it[r] * b + s[x]
        BY <4>2, <4>4
      <4> QED  BY <3>2, <4>1, <4>3, <4>5
    <3> QED  BY <3>1, <3>2
  <2>3. Eq(it)
    <3>1. it = [t \in SUBSET DOMAIN s |-> it[t]]
      BY <1>1, <2>1
    <3> QED  BY <1>1, <2>2, <3>1
  <2> HIDE DEF Eq
  <2> QED  BY <2>3
<1> HIDE DEF fold
<1>5. PICK run \in [0 .. n -> Nat] : Runs(run, n, 0, body, fold[1 .. n])
  <2>1. fold[{}] = 0
    <3>1. {} \in SUBSET DOMAIN s
      OBVIOUS
    <3> QED  BY <1>4, <3>1
  <2>2. ASSUME NEW t \in SUBSET (1 .. n), t # {}, fold[t \ {Max(t)}] \in Nat
        PROVE  fold[t] = body[<<Max(t), fold[t \ {Max(t)}]>>]
    <3>1. Max(t) \in 1 .. n
      BY <1>1, <2>2, LastTurn
    <3>2. fold[t] = fold[t \ {Max(t)}] * b + s[Max(t)]
      BY <1>1, <1>4, <2>2
    <3> QED  BY <2>2, <3>1, <3>2
  <2>3. Folds(fold, n, Nat, 0, body)
    <3> HIDE DEF body
    <3> QED  BY <2>1, <2>2 DEF Folds
  <2> HIDE DEF body
  <2> QED  BY <1>1, <1>2, <2>3, FoldRuns
<1>6. \A k \in 1 .. n : run[k] = run[k - 1] * b + s[k]
  <2> SUFFICES ASSUME NEW k \in 1 .. n PROVE run[k] = run[k - 1] * b + s[k]
    OBVIOUS
  <2>1. k - 1 \in 0 .. n
    BY <1>1
  <2>2. run[k - 1] \in Nat
    BY <2>1
  <2>3. run[k] = body[<<k, run[k - 1]>>]
    BY <1>5 DEF Runs
  <2> QED  BY <2>2, <2>3
<1> HIDE DEF body
<1> QED  BY <1>3, <1>5, <1>6 DEF Runs, n

\* No digits are worth nothing.
LEMMA ValueNone ==
    ASSUME NEW b \in Nat
    PROVE  ValueOf(<<>>, b) = 0
<1>1. <<>> \in Seq(Nat) /\ Len(<<>>) = 0
  BY EmptySeq
<1> QED  BY <1>1, ValueRuns

\* A digit more shifts the others by one place.
LEMMA ValueMore ==
    ASSUME NEW b \in Nat, NEW s \in Seq(Nat), NEW t \in Seq(Nat), NEW x \in Nat,
           OneLonger(t, s, x)
    PROVE  ValueOf(s, b) \in Nat /\ ValueOf(t, b) = ValueOf(s, b) * b + x
<1>1. PICK n \in Nat : n = Len(s)
  BY LenProperties
<1>2. Len(t) = n + 1 /\ (\A i \in 1 .. n : t[i] = s[i]) /\ t[n + 1] = x
  BY <1>1 DEF OneLonger
<1>3. PICK p \in [0 .. n -> Nat] :
        /\ p[0] = 0 /\ p[n] = ValueOf(s, b)
        /\ \A k \in 1 .. n : p[k] = p[k - 1] * b + s[k]
  BY <1>1, ValueRuns
<1>4. PICK q \in [0 .. n + 1 -> Nat] :
        /\ q[0] = 0 /\ q[n + 1] = ValueOf(t, b)
        /\ \A k \in 1 .. n + 1 : q[k] = q[k - 1] * b + t[k]
  <2>1. PICK q \in [0 .. Len(t) -> Nat] :
        /\ q[0] = 0 /\ q[Len(t)] = ValueOf(t, b)
        /\ \A k \in 1 .. Len(t) : q[k] = q[k - 1] * b + t[k]
    BY ValueRuns
  <2> QED  BY <1>2, <2>1
<1> DEFINE T == {k \in 0 .. n : p[k] = q[k]}
<1>5. 0 \in T
  BY <1>3, <1>4
<1>6. ASSUME NEW k \in 1 .. n, k - 1 \in T PROVE k \in T
  <2>1. k \in 0 .. n /\ k \in 1 .. n + 1 /\ t[k] = s[k]
    BY <1>2
  <2>2. p[k - 1] = q[k - 1]
    BY <1>6
  <2>3. p[k] = p[k - 1] * b + s[k] /\ q[k] = q[k - 1] * b + t[k]
    BY <1>3, <1>4, <2>1
  <2> QED  BY <2>1, <2>2, <2>3
<1>7. n \in T
  <2> HIDE DEF T
  <2>1. n \in 0 .. n
    OBVIOUS
  <2> QED  BY <1>5, <1>6, <2>1, UpTo
<1>8. n + 1 \in 1 .. n + 1 /\ (n + 1) - 1 = n /\ n \in 0 .. n
  OBVIOUS
<1>9. q[n + 1] = q[n] * b + x
  BY <1>2, <1>4, <1>8
<1> QED  BY <1>3, <1>4, <1>7, <1>8, <1>9

\* The digits of every number, the last one first.
DigitsAre(d, base) ==
    /\ d \in [0 .. UIntSize - 1 -> Seq(0 .. base - 1)] /\ d[0] = <<>>
    /\ \A v \in 1 .. UIntSize - 1 : d[v] = <<v % base>> \o d[v \div base]

\* The loop of itoa finds them.
LEMMA DigitsFound ==
    ASSUME NEW base \in Nat, base >= 2
    PROVE  DigitsAre(DigitsOf(base), base)
<1> DEFINE n == UIntSize - 1
           V == Seq(0 .. base - 1)
           down == [v \in 1 .. n |-> v \div base]
           body == [x \in (1 .. n) \X V |-> <<x[1] % base>> \o x[2]]
<1>1. n \in Nat /\ 0 \in 0 .. n
  <2>1. IntBits \in Nat /\ IntBits > 1
    BY RuntimeAssumption DEF RuntimeAssumption
  <2>2. PowerOf2[IntBits] \in Nat \ {0}
    BY <2>1, PowersDouble
  <2> QED  BY <2>2 DEF UIntSize
<1> HIDE DEF n
<1>2. ASSUME NEW v \in 1 .. n
      PROVE  v \div base \in 0 .. v - 1 /\ v % base \in 0 .. base - 1
  <2>1. v \in Nat /\ v > 0
    BY <1>1
  <2>2. v \div base \in Nat /\ v \div base < v /\ v % base \in 0 .. base - 1
    BY <2>1, Quotient
  <2> QED  BY <2>1, <2>2
<1>3. body \in [(1 .. n) \X V -> V] /\ <<>> \in V
  <2>1. ASSUME NEW v \in 1 .. n, NEW s \in V PROVE <<v % base>> \o s \in V
    <3>1. <<v % base>> \in Seq(0 .. base - 1)
      BY <1>2
    <3> QED  BY <3>1, ConcatProperties
  <2>2. <<>> \in V
    BY EmptySeq
  <2> HIDE DEF V
  <2> QED  BY <2>1, <2>2
<1>4. PICK f \in [0 .. n -> V] : Recurs(f, n, <<>>, down, body)
  <2>1. \A k \in 1 .. n : down[k] \in 0 .. k - 1
    BY <1>2
  <2> HIDE DEF V, down, body
  <2> QED  BY <1>1, <1>3, <2>1, RecursionExists
<1>5. f[0] = <<>>
  <2> HIDE DEF V, down, body
  <2> QED  BY <1>4 DEF Recurs
<1>6. ASSUME NEW v \in 1 .. n PROVE f[v] = <<v % base>> \o f[v \div base]
  <2>1. v \div base \in 0 .. n
    <3>1. PICK q \in 0 .. v - 1 : q = v \div base
      BY <1>2
    <3>2. q \in 0 .. n
      BY <1>1
    <3> QED  BY <3>1, <3>2
  <2>2. f[v \div base] \in V
    BY <2>1
  <2>3. f[v] = body[<<v, f[down[v]]>>]
    BY <1>4 DEF Recurs
  <2>4. down[v] = v \div base
    OBVIOUS
  <2> HIDE DEF V
  <2> QED  BY <2>2, <2>3, <2>4
<1> DEFINE Eq(d) == d = [v \in 0 .. n |-> IF v = 0 THEN <<>>
                                           ELSE <<v % base>> \o d[v \div base]]
<1>7. Eq(f)
  <2>1. \A v \in 0 .. n : v = 0 \/ v \in 1 .. n
    BY <1>1
  <2>2. f = [v \in 0 .. n |-> f[v]]
    OBVIOUS
  <2> QED  BY <1>5, <1>6, <2>1, <2>2
<1>8. Eq(DigitsOf(base))
  <2>1. DigitsOf(base) = CHOOSE d : Eq(d)
    BY DEF DigitsOf, n
  <2> HIDE DEF Eq
  <2> QED  BY <1>7, <2>1
<1>9. PICK d : d = DigitsOf(base)
  OBVIOUS
<1>10. d[0] = <<>> /\ \A v \in 1 .. n : d[v] = <<v % base>> \o d[v \div base]
  <2>1. \A v \in 1 .. n : v \in 0 .. n /\ v # 0
    BY <1>1
  <2> QED  BY <1>1, <1>8, <1>9, <2>1
<1>11. \A v \in 0 .. n : d[v] = f[v]
  <2> DEFINE T == {k \in 0 .. n : \A v \in 0 .. k : d[v] = f[v]}
  <2>1. 0 \in T
    <3>1. d[0] = f[0] /\ \A v \in 0 .. 0 : v = 0
      BY <1>5, <1>10
    <3> QED  BY <1>1, <3>1
  <2>2. ASSUME NEW k \in 1 .. n, k - 1 \in T PROVE k \in T
    <3>1. k \div base \in 0 .. k - 1 /\ k \in 0 .. n
      <4>1. k \in 0 .. n
        BY <1>1
      <4> QED  BY <1>2, <4>1
    <3>2. d[k \div base] = f[k \div base]
      BY <2>2, <3>1
    <3>3. d[k] = f[k]
      BY <1>6, <1>10, <3>2
    <3>4. \A v \in 0 .. k : v = k \/ v \in 0 .. k - 1
      BY <3>1
    <3> QED  BY <2>2, <3>1, <3>3, <3>4
  <2>3. n \in T
    <3> HIDE DEF T
    <3>1. n \in 0 .. n
      BY <1>1
    <3> QED  BY <1>1, <2>1, <2>2, <3>1, UpTo
  <2> QED  BY <2>3
<1>12. d \in [0 .. n -> V]
  <2>1. d = [v \in 0 .. n |-> d[v]]
    BY <1>8, <1>9
  <2>2. \A v \in 0 .. n : f[v] \in V
    OBVIOUS
  <2> HIDE DEF V
  <2> QED  BY <1>11, <2>1, <2>2
<1> QED  BY <1>9, <1>10, <1>12 DEF DigitsAre, n

\* The remainder of a number between -m and m.
LEMMA SmallRemainder ==
    ASSUME NEW m \in Nat, NEW v \in Int, -m < v, v < m
    PROVE  /\ v % m \in 0 .. m - 1
           /\ v % m = IF v < 0 THEN v + m ELSE v
<1>1. PICK q, r : q = v \div m /\ r = v % m
  OBVIOUS
<1>2. q \in Int /\ r \in 0 .. m - 1 /\ v = m * q + r /\ m > 0
  BY <1>1, SMT
<1>3. PICK p \in Int : p = m * q
  BY <1>2
<1>4. q >= 1 => p >= m
  BY <1>2, <1>3, SMT
<1>5. q = 0 => p = 0
  BY <1>2, <1>3, SMT
<1>6. q = -1 => p = -m
  BY <1>2, <1>3, SMT
<1>7. q <= -2 => p <= -(2 * m)
  BY <1>2, <1>3, SMT
<1>8. r \in Int /\ 0 <= r /\ r < m /\ v = p + r /\ (q >= 1 \/ q = 0 \/ q = -1 \/ q <= -2)
  BY <1>2, <1>3
<1>9. r = IF v < 0 THEN v + m ELSE v
  BY <1>3, <1>4, <1>5, <1>6, <1>7, <1>8
<1> QED  BY <1>1, <1>2, <1>9

\* What is put before a sequence comes behind it when both are reversed.
LEMMA ReverseMore ==
    ASSUME NEW S, NEW x \in S, NEW s \in Seq(S)
    PROVE  /\ Reverse(s) \in Seq(S) /\ Len(Reverse(s)) = Len(s)
           /\ OneLonger(Reverse(<<x>> \o s), Reverse(s), x)
           /\ Reverse(<<x>> \o s) \in Seq(S)
<1>1. PICK n \in Nat : n = Len(s)
  BY LenProperties
<1>2. PICK t : t = <<x>> \o s
  OBVIOUS
<1>3. t \in Seq(S) /\ Len(t) = n + 1 /\ t[1] = x /\ \A i \in 1 .. n : t[1 + i] = s[i]
  <2>1. <<x>> \in Seq(S) /\ Len(<<x>>) = 1 /\ <<x>>[1] = x
    OBVIOUS
  <2>2. /\ t \in Seq(S) /\ Len(t) = 1 + n
        /\ \A j \in 1 .. 1 : t[j] = <<x>>[j]
        /\ \A j \in 1 .. n : t[1 + j] = s[j]
    <3>1. PICK h : h = <<x>> /\ h \in Seq(S) /\ 1 = Len(h) /\ h[1] = x
      BY <2>1
    <3>2. t = h \o s
      BY <1>2, <3>1
    <3> QED  BY <1>1, <3>1, <3>2, After
  <2> QED  BY <2>1, <2>2
<1>4. \A i \in 1 .. n : s[i] \in S
  BY <1>1, ElementOfSeq
<1>5. \A i \in 1 .. n + 1 : t[i] \in S
  BY <1>3, ElementOfSeq
<1>6. Reverse(s) = [i \in 1 .. n |-> s[(n - i) + 1]]
  BY <1>1 DEF Reverse
<1>7. Reverse(t) = [i \in 1 .. n + 1 |-> t[((n + 1) - i) + 1]]
  BY <1>3 DEF Reverse
<1>8. \A i \in 1 .. n : (n - i) + 1 \in 1 .. n /\ ((n + 1) - i) + 1 = 1 + ((n - i) + 1)
  OBVIOUS
<1>9. Reverse(s) \in Seq(S) /\ Len(Reverse(s)) = n
  BY <1>4, <1>6, <1>8
<1>10. Reverse(t) \in Seq(S) /\ Len(Reverse(t)) = n + 1
  <2>1. \A i \in 1 .. n + 1 : ((n + 1) - i) + 1 \in 1 .. n + 1
    OBVIOUS
  <2> QED  BY <1>5, <1>7, <2>1
<1>11. \A i \in 1 .. n : Reverse(t)[i] = Reverse(s)[i]
  BY <1>3, <1>6, <1>7, <1>8
<1>12. Reverse(t)[n + 1] = x
  <2>1. n + 1 \in 1 .. n + 1 /\ ((n + 1) - (n + 1)) + 1 = 1
    OBVIOUS
  <2> QED  BY <1>3, <1>7, <2>1
<1> QED  BY <1>1, <1>2, <1>9, <1>10, <1>11, <1>12 DEF OneLonger

\* The digits of v, written in their order, are worth v, and do not begin with a 0.
Shows(s, v, base) ==
    /\ s \in Seq(0 .. base - 1) /\ ValueOf(s, base) = v
    /\ v > 0 => Len(s) > 0 /\ s[1] # 0

\* A digit more behind a number.
LEMMA ShowsMore ==
    ASSUME NEW base \in Nat, base >= 2, NEW v \in Nat, v > 0,
           NEW s \in Seq(0 .. base - 1),
           Shows(Reverse(s), v \div base, base), v \div base = 0 => s = <<>>
    PROVE  Shows(Reverse(<<v % base>> \o s), v, base)
<1>1. PICK q \in Nat, x \in 0 .. base - 1 :
        q = v \div base /\ x = v % base /\ v = base * q + x
  BY Quotient
<1>2. PICK r, t : r = Reverse(s) /\ t = Reverse(<<x>> \o s)
  OBVIOUS
<1>3. /\ r \in Seq(0 .. base - 1) /\ Len(r) = Len(s) /\ OneLonger(t, r, x)
      /\ t \in Seq(0 .. base - 1)
  BY <1>2, ReverseMore
<1>4. Shows(r, q, base) /\ (q = 0 => s = <<>>)
  BY <1>1, <1>2
<1>5. ValueOf(t, base) = v
  <2>1. r \in Seq(Nat) /\ t \in Seq(Nat) /\ x \in Nat
    BY <1>3
  <2>2. ValueOf(t, base) = ValueOf(r, base) * base + x
    BY <1>3, <2>1, ValueMore
  <2>3. ValueOf(r, base) = q
    BY <1>4 DEF Shows
  <2>4. q * base = base * q
    OBVIOUS
  <2> QED  BY <1>1, <2>2, <2>3, <2>4
<1>6. Len(t) > 0 /\ t[1] # 0
  <2>1. Len(r) \in Nat /\ Len(t) = Len(r) + 1 /\ t[Len(r) + 1] = x
        /\ \A i \in 1 .. Len(r) : t[i] = r[i]
    BY <1>3, LenProperties DEF OneLonger
  <2>2. CASE q = 0
    <3>1. Len(r) = 0
      BY <1>3, <1>4, <2>2, EmptySeq
    <3>2. base * q = 0
      BY <2>2
    <3>3. x = v
      BY <1>1, <3>2
    <3> QED  BY <2>1, <3>1, <3>3
  <2>3. CASE q # 0
    <3>1. Len(r) > 0 /\ r[1] # 0
      BY <1>4, <2>3 DEF Shows
    <3> QED  BY <2>1, <3>1
  <2> QED  BY <2>2, <2>3
<1> QED  BY <1>1, <1>2, <1>3, <1>5, <1>6 DEF Shows

\* The digits the loop finds show every number.
LEMMA DigitsShow ==
    ASSUME NEW base \in Nat, base >= 2, NEW d, DigitsAre(d, base)
    PROVE  \A v \in 0 .. UIntSize - 1 : Shows(Reverse(d[v]), v, base) /\ (v = 0 => d[v] = <<>>)
<1>1. PICK n \in Nat : n = UIntSize - 1
  <2>1. IntBits \in 0 .. IntBits
    BY RuntimeAssumption DEF RuntimeAssumption
  <2>2. PowerOf2[IntBits] \in Nat \ {0}
    BY <2>1, PowersDouble
  <2> QED  BY <2>2 DEF UIntSize
<1>2. /\ d \in [0 .. n -> Seq(0 .. base - 1)] /\ d[0] = <<>>
      /\ \A v \in 1 .. n : d[v] = <<v % base>> \o d[v \div base]
  BY <1>1 DEF DigitsAre
<1> DEFINE Right(v) == Shows(Reverse(d[v]), v, base) /\ (v = 0 => d[v] = <<>>)
           T == {k \in 0 .. n : \A v \in 0 .. k : Right(v)}
<1>3. Right(0)
  <2>1. Reverse(<<>>) = <<>>
    <3>1. Len(<<>>) = 0 /\ 1 .. 0 = {}
      OBVIOUS
    <3> QED  BY <3>1 DEF Reverse
  <2>2. <<>> \in Seq(0 .. base - 1)
    BY EmptySeq
  <2> QED  BY <1>2, <2>1, <2>2, ValueNone DEF Shows
<1>4. 0 \in T
  <2>1. \A v \in 0 .. 0 : v = 0
    OBVIOUS
  <2> HIDE DEF Right
  <2> QED  BY <1>3, <2>1
<1>5. ASSUME NEW k \in 1 .. n, k - 1 \in T PROVE k \in T
  <2>1. k \in Nat /\ k > 0 /\ k \in 0 .. n
    OBVIOUS
  <2>2. PICK q \in Nat : q = k \div base /\ q < k
    BY <2>1, Quotient
  <2>3. q \in 0 .. k - 1 /\ q \in 0 .. n
    BY <2>1, <2>2
  <2>4. PICK s \in Seq(0 .. base - 1) : s = d[q]
    BY <1>2, <2>3
  <2>5. Right(q)
    <3> HIDE DEF Right
    <3> QED  BY <1>5, <2>3
  <2>6. Shows(Reverse(s), k \div base, base) /\ (k \div base = 0 => s = <<>>)
    BY <2>2, <2>4, <2>5
  <2>7. Shows(Reverse(<<k % base>> \o s), k, base)
    BY <2>1, <2>6, ShowsMore
  <2>8. d[k] = <<k % base>> \o s
    BY <1>2, <2>2, <2>4
  <2>9. Right(k)
    BY <2>1, <2>7, <2>8
  <2>10. \A v \in 0 .. k : v = k \/ v \in 0 .. k - 1
    OBVIOUS
  <2> HIDE DEF Right
  <2> QED  BY <1>5, <2>1, <2>9, <2>10
<1>6. n \in T
  <2> HIDE DEF T
  <2>1. n \in 0 .. n
    OBVIOUS
  <2> QED  BY <1>4, <1>5, <2>1, UpTo
<1> QED  BY <1>1, <1>6

\* One digit is found for a number, and then those of the quotient.
LEMMA DigitsStep ==
    ASSUME NEW base \in Nat, base >= 2, NEW d, DigitsAre(d, base),
           NEW v \in 1 .. UIntSize - 1
    PROVE  \E q \in 0 .. UIntSize - 1 :
              base * q <= v /\ 2 * q <= v /\ Len(d[v]) = Len(d[q]) + 1 /\ Len(d[q]) \in Nat
<1>1. PICK n : n = UIntSize - 1
  OBVIOUS
<1>2. v \in Nat /\ v > 0 /\ v <= n /\ v \in 1 .. n
  BY <1>1
<1>3. PICK q \in Nat, x \in 0 .. base - 1 :
        q = v \div base /\ x = v % base /\ v = base * q + x /\ q < v
  BY <1>2, Quotient
<1>4. q \in 0 .. n
  <2>1. n \in Int
    <3>1. IntBits \in 0 .. IntBits
      BY RuntimeAssumption DEF RuntimeAssumption
    <3>2. PowerOf2[IntBits] \in Nat \ {0}
      BY <3>1, PowersDouble
    <3> QED  BY <1>1, <3>2 DEF UIntSize
  <2> QED  BY <1>2, <1>3, <2>1
<1>5. PICK p \in Int : p = base * q
  BY <1>3
<1>6. p >= 2 * q
  BY <1>5, Double
<1>7. p <= v /\ 2 * q <= v
  BY <1>2, <1>3, <1>5, <1>6
<1>8. d[v] = <<x>> \o d[q] /\ d[q] \in Seq(0 .. base - 1)
  BY <1>1, <1>2, <1>3, <1>4 DEF DigitsAre
<1>9. Len(d[v]) = Len(d[q]) + 1 /\ Len(d[q]) \in Nat
  <2>1. <<x>> \in Seq(0 .. base - 1) /\ Len(<<x>>) = 1
    OBVIOUS
  <2>2. PICK h, s : h = <<x>> /\ s = d[q]
    OBVIOUS
  <2>3. h \in Seq(0 .. base - 1) /\ s \in Seq(0 .. base - 1) /\ Len(h) = 1
    BY <1>8, <2>1, <2>2
  <2>4. Len(h \o s) = Len(h) + Len(s) /\ Len(s) \in Nat
    BY <2>3, ConcatProperties, LenProperties
  <2> QED  BY <1>8, <2>2, <2>3, <2>4
<1> QED  BY <1>1, <1>4, <1>5, <1>7, <1>9

\* A number of k bits has at most k digits.
LEMMA DigitsFit ==
    ASSUME NEW base \in Nat, base >= 2, NEW d, DigitsAre(d, base)
    PROVE  \A k \in 0 .. IntBits :
              \A v \in 0 .. UIntSize - 1 : v < PowerOf2[k] => Len(d[v]) <= k
<1>1. IntBits \in Nat
  BY RuntimeAssumption DEF RuntimeAssumption
<1> DEFINE Fit(k) == \A v \in 0 .. UIntSize - 1 : v < PowerOf2[k] => Len(d[v]) <= k
           T == {k \in 0 .. IntBits : Fit(k)}
<1>2. Len(d[0]) = 0
  BY EmptySeq DEF DigitsAre
<1>3. 0 \in T
  <2>1. ASSUME NEW v \in 0 .. UIntSize - 1, v < PowerOf2[0] PROVE Len(d[v]) <= 0
    <3>1. v = 0
      BY <2>1, PowersDouble
    <3> QED  BY <1>2, <3>1
  <2> QED  BY <1>1, <2>1
<1>4. ASSUME NEW k \in 1 .. IntBits, k - 1 \in T PROVE k \in T
  <2>1. k \in Nat /\ k \in 0 .. IntBits /\ k - 1 \in 0 .. IntBits
    BY <1>1
  <2>2. PICK p \in Nat : p = PowerOf2[k - 1] /\ PowerOf2[k] = 2 * p
    BY <2>1, PowersDouble
  <2>3. ASSUME NEW v \in 0 .. UIntSize - 1, v < PowerOf2[k] PROVE Len(d[v]) <= k
    <3>1. CASE v = 0
      BY <1>2, <2>1, <3>1
    <3>2. CASE v # 0
      <4>1. v \in 1 .. UIntSize - 1
        BY <3>2
      <4>2. PICK q \in 0 .. UIntSize - 1 :
              2 * q <= v /\ Len(d[v]) = Len(d[q]) + 1 /\ Len(d[q]) \in Nat
        BY <4>1, DigitsStep
      <4>3. q < p
        BY <2>2, <2>3, <4>2
      <4>4. Len(d[q]) <= k - 1
        BY <1>4, <2>2, <4>3
      <4> QED  BY <2>1, <4>2, <4>4
    <3> QED  BY <3>1, <3>2
  <2> QED  BY <2>1, <2>3
<1>5. \A k \in 0 .. IntBits : k \in T
  <2> HIDE DEF T
  <2> QED  BY <1>1, <1>3, <1>4, UpTo
<1> QED  BY <1>5

\* itoa shows every int in every base.
LEMMA NumberShown ==
    ASSUME NEW value \in Ints, NEW base \in Int
    PROVE  NumberAgrees(value, base)
<1>1. PICK n \in Nat : n = IntBits /\ n > 1
  BY RuntimeAssumption DEF RuntimeAssumption
<1>2. PICK h \in Nat, g \in Nat : /\ h = PowerOf2[n - 1] /\ UIntSize = 2 * h
                                /\ g = PowerOf2[n - 2] /\ h = 2 * g /\ g > 0
  <2>1. n \in 1 .. n /\ n - 1 \in 1 .. n /\ n - 2 \in 0 .. n /\ (n - 1) - 1 = n - 2
    BY <1>1
  <2>2. PowerOf2[n] = 2 * PowerOf2[n - 1]
    BY <1>1, <2>1, PowersDouble
  <2>3. PowerOf2[n - 1] = 2 * PowerOf2[n - 2]
    BY <1>1, <2>1, PowersDouble
  <2>4. PowerOf2[n - 1] \in Nat /\ PowerOf2[n - 2] \in Nat \ {0}
    <3>1. n - 1 \in 0 .. n
      BY <1>1
    <3> QED  BY <1>1, <2>1, <3>1, PowersDouble
  <2> QED  BY <1>1, <2>2, <2>3, <2>4 DEF UIntSize
<1>3. value \in Int /\ -h <= value /\ value < h
  BY <1>1, <1>2 DEF Ints
<1>4. PICK radix : radix = IF base < 2 \/ base > 36 THEN 10 ELSE base
  OBVIOUS
<1>5. radix \in Nat /\ radix >= 2
  BY <1>4
<1>6. radix = IF base \in 2 .. 36 THEN base ELSE 10
  BY <1>4
<1> DEFINE negative == value < 0 /\ radix = 10
<1>7. PICK m \in Nat : m = UIntSize /\ m = 2 * h
  BY <1>2
<1>8. h = 2 * g /\ g > 0 /\ h > 0 /\ m = 2 * h /\ m > h
  <2>1. h = 2 * g /\ g > 0 /\ m = 2 * h
    BY <1>2, <1>7
  <2>2. h > 0
    BY <2>1
  <2> QED  BY <2>1, <2>2
<1>9. PICK r : r = value % UIntSize
  OBVIOUS
<1>10. r \in Nat /\ r < m /\ r = IF value < 0 THEN value + m ELSE value
  <2>1. -m < value /\ value < m
    BY <1>3, <1>8
  <2>2. /\ value % m \in 0 .. m - 1
        /\ value % m = IF value < 0 THEN value + m ELSE value
    BY <1>3, <2>1, SmallRemainder
  <2>3. r = value % m
    BY <1>7, <1>9
  <2>4. r \in 0 .. m - 1 /\ r = IF value < 0 THEN value + m ELSE value
    BY <2>2, <2>3
  <2> QED  BY <1>7, <2>4
<1>11. PICK v \in Nat : v = IF negative THEN (-(value + 1)) + 1 ELSE r
  BY <1>3, <1>10
<1>12. /\ v <= m - 1
       /\ negative => v = -value /\ v > 0 /\ v <= h
       /\ ~ negative => (v = 0 => value = 0) /\ (value >= 0 => v = value)
  <2>1. CASE negative
    <3>1. value < 0
      BY <2>1
    <3> QED  BY <1>3, <1>10, <1>11, <1>8, <2>1, <3>1
  <2>2. CASE ~ negative
    BY <1>3, <1>10, <1>11, <1>8, <2>2
  <2> QED  BY <2>1, <2>2
<1>13. PICK d : d = DigitsOf(radix) /\ DigitsAre(d, radix)
  BY <1>5, DigitsFound
<1>14. v \in 0 .. UIntSize - 1
  BY <1>12, <1>7
<1>15. PICK s : s = IF v = 0 THEN <<0>> ELSE Reverse(d[v])
  OBVIOUS
<1>16. itoa(value, base) = [negative |-> negative, digits |-> s]
  <2> DEFINE Radix == IF base < 2 \/ base > 36 THEN 10 ELSE base
  <2>1. Radix = radix
    BY <1>4
  <2> HIDE DEF Radix
  <2>2. itoa(value, base) =
          LET neg == value < 0 /\ Radix = 10
              w   == IF neg THEN (-(value + 1)) + 1 ELSE value % UIntSize
          IN  [negative |-> neg,
               digits |-> IF w = 0 THEN <<0>> ELSE Reverse(DigitsOf(Radix)[w])]
    BY DEF itoa, Radix
  <2> QED  BY <1>11, <1>13, <1>15, <1>9, <2>1, <2>2
<1>17. /\ s \in Seq(0 .. radix - 1) /\ ValueOf(s, radix) = v
       /\ v > 0 => s[1] # 0
  <2>1. CASE v = 0
    <3>1. /\ <<0>> \in Seq(Nat) /\ <<>> \in Seq(Nat) /\ <<0>> \in Seq(0 .. radix - 1)
          /\ OneLonger(<<0>>, <<>>, 0)
      BY <1>5 DEF OneLonger
    <3>2. PICK z, e : z = <<0>> /\ e = <<>>
      OBVIOUS
    <3>3. z \in Seq(Nat) /\ e \in Seq(Nat) /\ OneLonger(z, e, 0) /\ 0 \in Nat
      BY <3>1, <3>2
    <3>5. ValueOf(z, radix) = ValueOf(e, radix) * radix + 0
      BY <1>5, <3>3, ValueMore
    <3>6. ValueOf(e, radix) = 0
      BY <1>5, <3>2, ValueNone
    <3>7. ValueOf(z, radix) = 0
      BY <1>5, <3>5, <3>6
    <3>4. ValueOf(<<0>>, radix) = 0
      BY <3>2, <3>7
    <3> QED  BY <1>15, <2>1, <3>1, <3>4
  <2>2. CASE v # 0
    <3>1. Shows(Reverse(d[v]), v, radix)
      BY <1>5, <1>13, <1>14, DigitsShow
    <3> QED  BY <1>15, <2>2, <3>1 DEF Shows
  <2> QED  BY <2>1, <2>2
<1>18. Len(s) \in Nat /\ Len(s) + (IF negative THEN 1 ELSE 0) <= n
  <2>1. CASE v = 0
    BY <1>1, <1>12, <1>15, <2>1
  <2>2. CASE v # 0
    <3>1. d[v] \in Seq(0 .. radix - 1)
      BY <1>13, <1>14 DEF DigitsAre
    <3>2. Len(s) = Len(d[v]) /\ Len(d[v]) \in Nat
      <4>1. PICK t \in Seq(0 .. radix - 1) : t = d[v]
        BY <3>1
      <4>2. 0 \in 0 .. radix - 1
        BY <1>5
      <4>3. Len(Reverse(t)) = Len(t) /\ Len(t) \in Nat
        BY <4>2, ReverseMore, LenProperties
      <4> QED  BY <1>15, <2>2, <4>1, <4>3
    <3>3. \A k \in 0 .. n : \A w \in 0 .. UIntSize - 1 : w < PowerOf2[k] => Len(d[w]) <= k
      BY <1>1, <1>5, <1>13, DigitsFit
    <3>4. Len(d[v]) <= n
      <4>1. n \in 0 .. n /\ v < PowerOf2[n]
        <5>1. v < UIntSize
          BY <1>12, <1>7
        <5> QED  BY <1>1, <5>1 DEF UIntSize
      <4> QED  BY <1>14, <3>3, <4>1
    <3>5. negative => Len(d[v]) + 1 <= n
      <4> SUFFICES ASSUME negative PROVE Len(d[v]) + 1 <= n
        OBVIOUS
      <4>1. radix = 10 /\ v <= 2 * g
        BY <1>2, <1>12
      <4>2. PICK q \in 0 .. UIntSize - 1 :
              radix * q <= v /\ Len(d[v]) = Len(d[q]) + 1 /\ Len(d[q]) \in Nat
        <5>1. v \in 1 .. UIntSize - 1
          BY <1>14, <2>2
        <5> QED  BY <1>5, <1>13, <5>1, DigitsStep
      <4>3. q \in Nat /\ 10 * q <= 2 * g
        <5>1. q \in Nat
          BY <1>7
        <5> QED  BY <4>1, <4>2, <5>1
      <4>4. q < g
        BY <1>2, <4>3
      <4>5. n - 2 \in 0 .. n /\ q < PowerOf2[n - 2]
        BY <1>1, <1>2, <4>4
      <4>6. Len(d[q]) <= n - 2
        BY <3>3, <4>2, <4>5
      <4> QED  BY <1>1, <4>2, <4>6
    <3> HIDE DEF negative
    <3>6. CASE negative
      BY <1>1, <3>2, <3>5, <3>6
    <3>7. CASE ~ negative
      BY <1>1, <3>2, <3>4, <3>7
    <3> QED  BY <3>6, <3>7
  <2> QED  BY <2>1, <2>2
<1>19. /\ IF radix = 10 THEN value = (IF negative THEN -v ELSE v)
                        ELSE ~ negative /\ v = value % UIntSize
       /\ s[1] = 0 => value = 0
  <2>1. CASE negative
    BY <1>3, <1>12, <1>17, <2>1
  <2>2. CASE ~ negative
    <3>1. v = r
      BY <1>11, <2>2
    <3>2. radix = 10 => value >= 0
      BY <1>3, <2>2
    <3>3. s[1] = 0 => value = 0
      BY <1>12, <1>17, <2>2
    <3> QED  BY <1>12, <1>9, <2>2, <3>1, <3>2, <3>3
  <2> QED  BY <2>1, <2>2
<1>20. \A i \in DOMAIN s : s[i] < radix
  <2>1. \A i \in 1 .. Len(s) : s[i] \in 0 .. radix - 1
    BY <1>17, ElementOfSeq
  <2>2. DOMAIN s = 1 .. Len(s)
    BY <1>17, LenProperties
  <2> QED  BY <1>5, <2>1, <2>2
<1>21. PICK t : t = itoa(value, base) /\ t.negative = negative /\ t.digits = s
  BY <1>16
<1> QED  BY <1>1, <1>6, <1>17, <1>18, <1>19, <1>20, <1>21 DEF NumberAgrees

-----------------------------------------------------------------------------
(* Memory.                                                                 *)

\* mem has the addresses from 0 to top, where a NUL is.
Reaches(mem, top) ==
    /\ top \in Nat /\ mem \in [0 .. top -> 0 .. 255] /\ DOMAIN mem = 0 .. top
    /\ mem[top] = 0 /\ Max(DOMAIN mem) = top

\* Every memory does.
LEMMA MemoryReaches ==
    ASSUME NEW mem, IsMemory(mem)
    PROVE  \E top \in Nat : Reaches(mem, top)
<1>1. PICK top \in DOMAIN mem : top \in Nat /\ mem \in [0 .. top -> 0 .. 255] /\ mem[top] = 0
  BY DEF IsMemory
<1>2. DOMAIN mem = 0 .. top
  BY <1>1
<1>3. top \in 0 .. top /\ \A y \in 0 .. top : top >= y
  BY <1>1
<1>4. \A x \in 0 .. top : (\A y \in 0 .. top : x >= y) => x = top
  BY <1>1, <1>3
<1>5. Max(0 .. top) = top
  BY <1>3, <1>4 DEF Max
<1> QED  BY <1>1, <1>2, <1>5 DEF Reaches

\* The less of two numbers.
LEMMA MinOfTwo ==
    ASSUME NEW a \in Nat, NEW b \in Nat
    PROVE  Min({a, b}) = IF a <= b THEN a ELSE b
<1>1. {a, b} \subseteq Nat /\ {a, b} # {}
  OBVIOUS
<1>2. PICK m : m = Min({a, b})
  OBVIOUS
<1>3. m \in {a, b} /\ \A x \in {a, b} : m <= x
  BY <1>1, <1>2, MinIs
<1> QED  BY <1>2, <1>3

\* A function on the numbers from 1 is a sequence.
LEMMA Listed ==
    ASSUME NEW S, NEW l \in Nat, NEW s \in [1 .. l -> S]
    PROVE  s \in Seq(S) /\ Len(s) = l
<1>1. s \in Seq(S)
  BY SeqDef
<1>2. DOMAIN s = 1 .. Len(s) /\ DOMAIN s = 1 .. l /\ Len(s) \in Nat
  BY <1>1, LenProperties
<1>3. PICK k \in Nat : k = Len(s)
  BY <1>2
<1>4. k = l
  <2>1. 1 .. k = 1 .. l
    BY <1>2, <1>3
  <2>2. k > 0 => k \in 1 .. l
    <3>1. k > 0 => k \in 1 .. k
      OBVIOUS
    <3> QED  BY <2>1, <3>1
  <2>3. l > 0 => l \in 1 .. k
    <3>1. l > 0 => l \in 1 .. l
      OBVIOUS
    <3> QED  BY <2>1, <3>1
  <2> QED  BY <2>2, <2>3
<1> QED  BY <1>1, <1>3, <1>4

\* The string at p ends at e.
EndsAt(mem, p, e) == mem[e] = 0 /\ \A q \in p .. e - 1 : mem[q] # 0

\* What a string is: the bytes up to the first NUL, and strlen counts them.
IsString(s, mem, p, e) ==
    /\ s \in Seq(1 .. 255) /\ Len(s) = e - p /\ \A i \in 1 .. e - p : s[i] = mem[p + i - 1]

\* There is a string at every address.
LEMMA StringFound ==
    ASSUME NEW mem, NEW top, Reaches(mem, top), NEW p \in 0 .. top
    PROVE  \E e \in p .. top :
              /\ EndsAt(mem, p, e) /\ IsString(CString(mem, p), mem, p, e)
              /\ strlen(mem, p) = e - p
<1>1. /\ top \in Nat /\ mem \in [0 .. top -> 0 .. 255] /\ DOMAIN mem = 0 .. top
      /\ mem[top] = 0 /\ Max(DOMAIN mem) = top /\ p \in Nat /\ p <= top
  BY DEF Reaches
<1> DEFINE T == {q \in DOMAIN mem : q >= p /\ mem[q] = 0}
<1>2. T \subseteq p .. top /\ top \in T
  BY <1>1
<1>3. PICK e : e = Min(T)
  OBVIOUS
<1>4. e \in T /\ e \in p .. top /\ \A q \in p .. e - 1 : q \notin T
  <2> HIDE DEF T
  <2>1. p \in Nat /\ top \in Nat
    BY <1>1
  <2>2. Min(T) \in T /\ Min(T) \in p .. top /\ \A x \in p .. Min(T) - 1 : x \notin T
    BY <1>2, <2>1, First
  <2> QED  BY <1>3, <2>2
<1>5. mem[e] = 0 /\ \A q \in p .. e - 1 : mem[q] # 0
  <2>1. \A q \in p .. e - 1 : q \in DOMAIN mem /\ q >= p
    BY <1>1, <1>4
  <2> QED  BY <1>4, <2>1
<1>6. PICK s : s = CString(mem, p)
  OBVIOUS
<1>7. s = [i \in 1 .. e - p |-> mem[p + i - 1]]
  <2>1. s = LET end == Min(T) IN [i \in 1 .. end - p |-> mem[p + i - 1]]
    BY <1>6 DEF CString
  <2> HIDE DEF T
  <2> QED  BY <1>3, <2>1
<1>8. IsString(s, mem, p, e)
  <2>1. ASSUME NEW i \in 1 .. e - p PROVE mem[p + i - 1] \in 1 .. 255
    <3>1. p + i - 1 \in p .. e - 1 /\ p + i - 1 \in 0 .. top
      BY <1>1, <1>4
    <3>2. mem[p + i - 1] # 0 /\ mem[p + i - 1] \in 0 .. 255
      BY <1>1, <1>5, <3>1
    <3> QED  BY <3>2
  <2>2. PICK l \in Nat : l = e - p
    BY <1>1, <1>4
  <2>3. s = [i \in 1 .. l |-> s[i]] /\ \A i \in 1 .. l : s[i] = mem[p + i - 1]
    BY <1>7, <2>2
  <2>4. \A i \in 1 .. l : s[i] \in 1 .. 255
    BY <2>1, <2>2, <2>3
  <2>5. s \in Seq(1 .. 255) /\ Len(s) = l
    <3>1. s \in [1 .. l -> 1 .. 255]
      BY <2>3, <2>4
    <3> QED  BY <3>1, Listed
  <2> QED  BY <2>2, <2>3, <2>5 DEF IsString
<1> DEFINE U == {i \in 0 .. Max(DOMAIN mem) - p : mem[p + i] = 0}
<1>9. strlen(mem, p) = e - p
  <2>1. PICK l \in Nat : l = e - p /\ p + l = e /\ l <= top - p
    BY <1>1, <1>4
  <2>2. l \in U
    BY <1>1, <1>5, <2>1
  <2>3. ASSUME NEW i \in U PROVE l <= i
    <3>1. i \in Nat /\ mem[p + i] = 0
      BY <1>1
    <3>2. CASE i < l
      <4>1. p + i \in p .. e - 1
        BY <1>1, <2>1, <3>1, <3>2
      <4> QED  BY <1>5, <3>1, <4>1
    <3> QED  BY <2>1, <3>1, <3>2
  <2>4. U \subseteq Nat /\ U # {}
    BY <1>1, <2>2
  <2>5. strlen(mem, p) = Min(U)
    BY DEF strlen
  <2>6. PICK m : m = Min(U)
    OBVIOUS
  <2>7. m \in U /\ m \in Nat /\ \A x \in U : m <= x
    <3> HIDE DEF U
    <3> QED  BY <2>4, <2>6, MinIs
  <2> HIDE DEF U
  <2>8. l <= m /\ m <= l
    BY <2>2, <2>3, <2>7
  <2> QED  BY <2>1, <2>5, <2>6, <2>7, <2>8
<1> QED  BY <1>4, <1>5, <1>6, <1>8, <1>9 DEF EndsAt

-----------------------------------------------------------------------------
(* The order of strings.                                                   *)

\* u is what a comparison finds at offset k of x: a character, or the end.
Meets(x, k, u) == IF k < Len(x) THEN u = x[k + 1] ELSE u = 0

\* Up to k the strings agree; there u stands in x and v in y, and they differ or both
\* strings end.
Differ(x, y, k, u, v) ==
    /\ k \in Nat /\ k <= Len(x) /\ k <= Len(y) /\ \A j \in 1 .. k : x[j] = y[j]
    /\ u \in Nat /\ Meets(x, k, u) /\ v \in Nat /\ Meets(y, k, v)
    /\ u = v => k = Len(x) /\ k = Len(y)

\* Such strings are ordered by what stands there.
LEMMA OrderIs ==
    ASSUME NEW x \in Seq(Nat), NEW y \in Seq(Nat), NEW k, NEW u, NEW v, Differ(x, y, k, u, v)
    PROVE  Order(x, y) = Sign(u - v)
<1> /\ k \in Nat /\ k <= Len(x) /\ k <= Len(y) /\ \A j \in 1 .. k : x[j] = y[j]
    /\ u \in Nat /\ Meets(x, k, u) /\ v \in Nat /\ Meets(y, k, v)
    /\ u = v => k = Len(x) /\ k = Len(y)
  BY DEF Differ
<1>1. PICK p \in Nat, q \in Nat : p = Len(x) /\ q = Len(y) /\ k <= p /\ k <= q
  BY LenProperties
<1>2. /\ k < p => u = x[k + 1]
      /\ k = p => u = 0
      /\ k < q => v = y[k + 1]
      /\ k = q => v = 0
  BY <1>1 DEF Meets
<1>3. CASE u = v
  <2>1. p = k /\ q = k
    BY <1>1, <1>3
  <2>2. x = y
    BY <1>1, <2>1, SeqEqual
  <2>3. Sign(u - v) = 0
    BY <1>3 DEF Sign
  <2> QED  BY <2>2, <2>3 DEF Order
<1>4. ASSUME u # v PROVE x # y
  <2> SUFFICES ASSUME x = y PROVE FALSE
    OBVIOUS
  <2>1. p = q
    BY <1>1
  <2> QED  BY <1>1, <1>2, <1>4, <2>1
<1>5. CASE u < v
  <2>1. k < q
    BY <1>1, <1>2, <1>5
  <2>2. SubSeq(x, 1, k) = SubSeq(y, 1, k)
    <3>1. 1 \in Nat /\ 1 >= 1
      OBVIOUS
    <3> QED  BY <3>1, SamePiece
  <2>3. k < p => x[k + 1] < y[k + 1]
    BY <1>2, <1>5, <2>1
  <2>4. Before(x, y)
    <3>1. k \in 0 .. Len(x)
      BY <1>1
    <3> QED  BY <1>1, <2>1, <2>2, <2>3, <3>1 DEF Before
  <2>5. Sign(u - v) = -1
    BY <1>5 DEF Sign
  <2> QED  BY <1>4, <1>5, <2>4, <2>5 DEF Order
<1>6. CASE u > v
  <2>1. k < p
    BY <1>1, <1>2, <1>6
  <2>2. ASSUME NEW j \in 0 .. p, j < q, SubSeq(x, 1, j) = SubSeq(y, 1, j),
               j < p => x[j + 1] < y[j + 1]
        PROVE  FALSE
    <3>1. CASE j < k
      <4>1. j + 1 \in 1 .. k /\ j + 1 \in 1 .. p /\ j < p
        BY <1>1, <3>1
      <4>2. x[j + 1] = y[j + 1] /\ x[j + 1] \in Nat
        BY <1>1, <4>1, ElementOfSeq
      <4> QED  BY <2>2, <4>1, <4>2
    <3>2. CASE j = k
      BY <1>2, <1>6, <2>1, <2>2, <3>2
    <3>3. CASE j > k
      <4>1. j \in Nat /\ j <= Len(x) /\ j <= Len(y) /\ 1 \in Nat /\ 1 >= 1
        BY <1>1, <2>2
      <4>2. /\ \A i \in 1 .. j - 1 + 1 : SubSeq(x, 1, j)[i] = x[1 + i - 1]
            /\ \A i \in 1 .. j - 1 + 1 : SubSeq(y, 1, j)[i] = y[1 + i - 1]
        BY <4>1, Piece
      <4>3. k + 1 \in 1 .. j - 1 + 1 /\ 1 + (k + 1) - 1 = k + 1
        BY <3>3, <4>1
      <4>4. x[k + 1] = y[k + 1]
        BY <2>2, <4>2, <4>3
      <4>5. k < q
        BY <1>1, <2>2, <3>3
      <4> QED  BY <1>2, <1>6, <2>1, <4>4, <4>5
    <3> QED  BY <3>1, <3>2, <3>3
  <2>3. ~ Before(x, y)
    BY <1>1, <2>2 DEF Before
  <2>4. Sign(u - v) = 1
    BY <1>6 DEF Sign
  <2> QED  BY <1>4, <1>6, <2>3, <2>4 DEF Order
<1> QED  BY <1>3, <1>5, <1>6

\* n bytes from p on lie in memory.
Inside(p, n, top) == p \in Nat /\ n \in Nat /\ p + n <= top + 1

\* Bytes are copied one after the other.
CopiedBy(run, mem, top, dst, src, n) ==
    /\ run \in [0 .. n -> [0 .. top -> 0 .. 255]]
    /\ run[0] = mem /\ run[n] = memcpy(mem, dst, src, n)
    /\ \A k \in 1 .. n : run[k] = [run[k - 1] EXCEPT ![dst + (k - 1)] = run[k - 1][src + (k - 1)]]

\* The loop of memcpy does so.
LEMMA CopyRuns ==
    ASSUME NEW mem, NEW top, Reaches(mem, top), NEW dst, NEW src, NEW n,
           Inside(dst, n, top), Inside(src, n, top)
    PROVE  \E run : CopiedBy(run, mem, top, dst, src, n)
<1> DEFINE V == [0 .. top -> 0 .. 255]
           Turn(m, i) == [m EXCEPT ![dst + i] = m[src + i]]
           s == [i \in 1 .. n |-> i - 1]
           body == [x \in (1 .. n) \X V |-> Turn(x[2], x[1] - 1)]
<1> /\ dst \in Nat /\ src \in Nat /\ n \in Nat
    /\ dst + n <= top + 1 /\ src + n <= top + 1
  BY DEF Inside
<1>1. top \in Nat /\ mem \in V
  BY DEF Reaches
<1>2. DOMAIN s = 1 .. n /\ \A k \in 1 .. n : s[k] = k - 1
  OBVIOUS
<1>3. ASSUME NEW m \in V, NEW i \in 0 .. n - 1 PROVE Turn(m, i) \in V
  <2>1. dst + i \in 0 .. top /\ src + i \in 0 .. top
    BY <1>1
  <2>2. m[src + i] \in 0 .. 255
    BY <2>1
  <2> QED  BY <2>2
<1> DEFINE Eq(i) == i = [t \in SUBSET DOMAIN s |->
                           IF t = {} THEN mem ELSE Turn(i[t \ {Max(t)}], s[Max(t)])]
           fold == CHOOSE i : Eq(i)
<1>4. memcpy(mem, dst, src, n) = fold[DOMAIN s]
  BY DEF memcpy, FoldLeft, MapThenFoldSet
<1> HIDE DEF Turn, V, s
<1>5. body \in [(1 .. n) \X V -> V]
  <2>1. ASSUME NEW k \in 1 .. n, NEW m \in V PROVE Turn(m, k - 1) \in V
    <3>1. k - 1 \in 0 .. n - 1
      OBVIOUS
    <3> QED  BY <1>3, <3>1
  <2> QED  BY <2>1
<1>6. Eq(fold)
  <2>1. PICK it \in [SUBSET (1 .. n) -> V] : Iterates(it, n, mem, body)
    <3> HIDE DEF body
    <3> QED  BY <1>1, <1>5, LoopExists
  <2>2. ASSUME NEW t \in SUBSET (1 .. n)
        PROVE  it[t] = IF t = {} THEN mem ELSE Turn(it[t \ {Max(t)}], s[Max(t)])
    <3>1. CASE t = {}
      <4> HIDE DEF body
      <4> QED  BY <2>1, <3>1 DEF Iterates
    <3>2. CASE t # {}
      <4>1. PICK x, r : x = Max(t) /\ r = t \ {Max(t)}
        OBVIOUS
      <4>2. x \in 1 .. n /\ r \in SUBSET (1 .. n)
        <5>1. Max(t) \in t /\ t \ {Max(t)} \in SUBSET (1 .. n)
          BY <3>2, LastTurn
        <5> QED  BY <4>1, <5>1
      <4>3. it[t] = body[<<x, it[r]>>]
        <5> HIDE DEF body
        <5> QED  BY <2>1, <3>2, <4>1 DEF Iterates
      <4>4. it[r] \in V
        BY <2>1, <4>2
      <4>5. body[<<x, it[r]>>] = Turn(it[r], x - 1)
        BY <4>2, <4>4
      <4>6. s[x] = x - 1
        BY <1>2, <4>2
      <4> HIDE DEF body
      <4> QED  BY <3>2, <4>1, <4>3, <4>5, <4>6
    <3> QED  BY <3>1, <3>2
  <2>3. Eq(it)
    <3>1. it = [t \in SUBSET DOMAIN s |-> it[t]]
      BY <1>2, <2>1
    <3> QED  BY <1>2, <2>2, <3>1
  <2> HIDE DEF Eq
  <2> QED  BY <2>3
<1> HIDE DEF fold
<1>7. PICK run \in [0 .. n -> V] : Runs(run, n, mem, body, fold[1 .. n])
  <2>1. fold[{}] = mem
    <3>1. {} \in SUBSET DOMAIN s
      OBVIOUS
    <3> QED  BY <1>6, <3>1
  <2>2. ASSUME NEW t \in SUBSET (1 .. n), t # {}, fold[t \ {Max(t)}] \in V
        PROVE  fold[t] = body[<<Max(t), fold[t \ {Max(t)}]>>]
    <3>1. PICK x : x = Max(t)
      OBVIOUS
    <3>2. x \in 1 .. n
      <4>1. Max(t) \in t
        BY <2>2, LastTurn
      <4> QED  BY <3>1, <4>1
    <3>3. fold[t] = Turn(fold[t \ {x}], s[x])
      BY <1>2, <1>6, <2>2, <3>1
    <3>4. s[x] = x - 1
      BY <1>2, <3>2
    <3>5. body[<<x, fold[t \ {x}]>>] = Turn(fold[t \ {x}], x - 1)
      BY <2>2, <3>1, <3>2
    <3> HIDE DEF body
    <3> QED  BY <3>1, <3>3, <3>4, <3>5
  <2>3. Folds(fold, n, V, mem, body)
    <3> HIDE DEF body
    <3> QED  BY <2>1, <2>2 DEF Folds
  <2> HIDE DEF body
  <2> QED  BY <1>1, <1>5, <2>3, FoldRuns
<1>8. ASSUME NEW k \in 1 .. n PROVE run[k] = Turn(run[k - 1], k - 1)
  <2>1. PICK j : j = k - 1 /\ j \in 0 .. n
    OBVIOUS
  <2>2. run[j] \in V
    BY <2>1
  <2>3. run[k] = body[<<k, run[j]>>]
    <3> HIDE DEF body
    <3> QED  BY <1>7, <2>1 DEF Runs
  <2> QED  BY <2>1, <2>2, <2>3
<1>9. run[0] = mem /\ run[n] = memcpy(mem, dst, src, n)
  <2> HIDE DEF body
  <2> QED  BY <1>2, <1>4, <1>7 DEF Runs
<1>10. CopiedBy(run, mem, top, dst, src, n)
  BY <1>7, <1>8, <1>9 DEF CopiedBy, Turn, V
<1> QED  BY <1>10

\* memcpy fills its area with what the other one held, if they lie apart, and touches
\* nothing else.
LEMMA Copies ==
    ASSUME NEW mem, NEW top, Reaches(mem, top), NEW dst \in Nat, NEW src \in Nat,
           NEW n \in Nat, dst + n <= top + 1, src + n <= top + 1
    PROVE  /\ Unchanged(mem, memcpy(mem, dst, src, n), dst, n)
           /\ Apart(dst, src, n) => Bytes(memcpy(mem, dst, src, n), dst, n) = Bytes(mem, src, n)
<1>1. top \in Nat /\ mem \in [0 .. top -> 0 .. 255] /\ DOMAIN mem = 0 .. top
  BY DEF Reaches
<1>2. PICK run : CopiedBy(run, mem, top, dst, src, n)
  <2>1. Inside(dst, n, top) /\ Inside(src, n, top)
    BY DEF Inside
  <2> QED  BY <2>1, CopyRuns
<1> DEFINE Left(k) == \A p \in 0 .. top : p < dst \/ p >= dst + k => run[k][p] = mem[p]
           Put(k) == \A i \in 0 .. k - 1 : run[k][dst + i] = mem[src + i]
           T == {k \in 0 .. n : Left(k) /\ (Apart(dst, src, n) => Put(k))}
<1>3. 0 \in T
  BY <1>2 DEF CopiedBy
<1>4. ASSUME NEW k \in 1 .. n, k - 1 \in T PROVE k \in T
  <2>1. PICK j \in 0 .. n : j = k - 1 /\ k = j + 1 /\ k \in 0 .. n
    OBVIOUS
  <2>2. PICK old \in [0 .. top -> 0 .. 255], new \in [0 .. top -> 0 .. 255] :
          old = run[j] /\ new = run[k]
    BY <1>2, <2>1 DEF CopiedBy
  <2>3. PICK d \in 0 .. top, e \in 0 .. top : d = dst + j /\ e = src + j
    BY <1>1, <2>1
  <2>4. new = [old EXCEPT ![d] = old[e]]
    BY <1>2, <2>1, <2>2, <2>3 DEF CopiedBy
  <2>5. new[d] = old[e] /\ \A p \in 0 .. top : p # d => new[p] = old[p]
    BY <2>4
  <2>6. \A p \in 0 .. top : p < dst \/ p >= dst + j => old[p] = mem[p]
    BY <1>4, <2>1, <2>2
  <2>7. Left(k)
    <3>1. ASSUME NEW p \in 0 .. top, p < dst \/ p >= dst + k PROVE new[p] = mem[p]
      <4>1. p # d /\ (p < dst \/ p >= dst + j)
        BY <2>1, <2>3, <3>1
      <4> QED  BY <2>5, <2>6, <4>1
    <3> QED  BY <2>2, <3>1
  <2>8. Apart(dst, src, n) => Put(k)
    <3> SUFFICES ASSUME Apart(dst, src, n), NEW i \in 0 .. k - 1
                 PROVE  new[dst + i] = mem[src + i]
      BY <2>2
    <3>1. CASE i = j
      <4>1. e < dst \/ e >= dst + j
        BY <2>1, <2>3 DEF Apart
      <4>2. old[e] = mem[e]
        BY <2>6, <4>1
      <4> QED  BY <2>3, <2>5, <3>1, <4>2
    <3>2. CASE i # j
      <4>1. i \in 0 .. j - 1 /\ dst + i # d /\ dst + i \in 0 .. top
        BY <1>1, <2>1, <2>3, <3>2
      <4>2. old[dst + i] = mem[src + i]
        BY <1>4, <2>1, <2>2, <4>1
      <4> QED  BY <2>5, <4>1, <4>2
    <3> QED  BY <3>1, <3>2
  <2> HIDE DEF Left, Put
  <2> QED  BY <2>1, <2>7, <2>8
<1>5. n \in T
  <2> HIDE DEF T
  <2>1. n \in 0 .. n
    OBVIOUS
  <2> QED  BY <1>3, <1>4, <2>1, UpTo
<1>6. PICK new : new = memcpy(mem, dst, src, n)
  OBVIOUS
<1>7. new = run[n]
  BY <1>2, <1>6 DEF CopiedBy
<1>8. Unchanged(mem, new, dst, n)
  <2>1. \A p \in 0 .. top : p \notin dst .. dst + n - 1 => p < dst \/ p >= dst + n
    BY <1>1
  <2> QED  BY <1>1, <1>5, <1>7, <2>1 DEF Unchanged
<1>9. Apart(dst, src, n) => Bytes(new, dst, n) = Bytes(mem, src, n)
  <2> SUFFICES ASSUME Apart(dst, src, n) PROVE Bytes(new, dst, n) = Bytes(mem, src, n)
    OBVIOUS
  <2>1. ASSUME NEW i \in 1 .. n PROVE new[dst + i - 1] = mem[src + i - 1]
    <3>1. PICK j : j = i - 1 /\ j \in 0 .. n - 1 /\ dst + i - 1 = dst + j /\ src + i - 1 = src + j
      OBVIOUS
    <3> QED  BY <1>5, <1>7, <3>1
  <2> QED  BY <2>1 DEF Bytes
<1> QED  BY <1>6, <1>8, <1>9

\* memset fills its area with the low byte, and touches nothing else.
LEMMA Sets ==
    ASSUME NEW mem, NEW top, Reaches(mem, top), NEW dst \in Nat, NEW c \in Int,
           NEW n \in Nat, dst + n <= top + 1
    PROVE  /\ Unchanged(mem, memset(mem, dst, c, n), dst, n)
           /\ Bytes(memset(mem, dst, c, n), dst, n) = [i \in 1 .. n |-> c % 256]
<1>1. top \in Nat /\ DOMAIN mem = 0 .. top
  BY DEF Reaches
<1>2. PICK b : b = c % 256
  OBVIOUS
<1>3. PICK new : new = memset(mem, dst, c, n)
  OBVIOUS
<1>4. new = [p \in 0 .. top |-> IF p \in dst .. dst + n - 1 THEN b ELSE mem[p]]
  BY <1>1, <1>2, <1>3 DEF memset
<1>5. Unchanged(mem, new, dst, n)
  BY <1>1, <1>4 DEF Unchanged
<1>6. Bytes(new, dst, n) = [i \in 1 .. n |-> b]
  <2>1. ASSUME NEW i \in 1 .. n PROVE new[dst + i - 1] = b
    <3>1. dst + i - 1 \in dst .. dst + n - 1 /\ dst + i - 1 \in 0 .. top
      BY <1>1
    <3> QED  BY <1>4, <3>1
  <2> QED  BY <2>1 DEF Bytes
<1> QED  BY <1>2, <1>3, <1>5, <1>6

\* strncpy copies the string and fills up with NULs.
LEMMA CopiesString ==
    ASSUME NEW mem, NEW top, Reaches(mem, top), NEW dst \in 0 .. top, NEW src \in 0 .. top,
           NEW n \in Nat, dst + n <= top + 1, src + n <= top + 1
    PROVE  /\ Unchanged(mem, strncpy(mem, dst, src, n), dst, n)
           /\ Bytes(strncpy(mem, dst, src, n), dst, n) =
                [i \in 1 .. n |-> IF i <= Len(CString(mem, src)) THEN CString(mem, src)[i] ELSE 0]
<1>1. top \in Nat /\ DOMAIN mem = 0 .. top /\ dst \in Nat /\ src \in Nat
  BY DEF Reaches
<1>2. PICK e \in src .. top : /\ IsString(CString(mem, src), mem, src, e)
                            /\ strlen(mem, src) = e - src
  BY StringFound
<1>3. PICK s : s = CString(mem, src)
  OBVIOUS
<1>4. PICK m \in Nat : m = e - src /\ m = strlen(mem, src)
  BY <1>1, <1>2
<1>5. Len(s) = m /\ \A i \in 1 .. m : s[i] = mem[src + i - 1]
  BY <1>2, <1>3, <1>4 DEF IsString
<1>6. PICK l \in Nat : l = IF n <= m THEN n ELSE m
  OBVIOUS
<1>7. Min({n, strlen(mem, src)}) = l
  BY <1>4, <1>6, MinOfTwo
<1>8. PICK new : new = strncpy(mem, dst, src, n)
  OBVIOUS
<1>9. new = [p \in 0 .. top |->
               IF p \in dst .. dst + l - 1 THEN mem[src + (p - dst)]
               ELSE IF p \in dst + l .. dst + n - 1 THEN 0 ELSE mem[p]]
  <2> DEFINE L == Min({n, strlen(mem, src)})
  <2>1. new = [p \in 0 .. top |->
               IF p \in dst .. dst + L - 1 THEN mem[src + (p - dst)]
               ELSE IF p \in dst + L .. dst + n - 1 THEN 0 ELSE mem[p]]
    BY <1>1, <1>8 DEF strncpy
  <2> HIDE DEF L
  <2>2. L = l
    BY <1>7 DEF L
  <2> QED  BY <2>1, <2>2
<1>10. Unchanged(mem, new, dst, n)
  <2>1. ASSUME NEW p \in 0 .. top, p \notin dst .. dst + n - 1 PROVE new[p] = mem[p]
    <3>1. p \notin dst .. dst + l - 1 /\ p \notin dst + l .. dst + n - 1
      BY <1>1, <1>6, <2>1
    <3> QED  BY <1>9, <3>1
  <2> QED  BY <1>1, <2>1 DEF Unchanged
<1>11. Bytes(new, dst, n) = [i \in 1 .. n |-> IF i <= m THEN s[i] ELSE 0]
  <2>1. ASSUME NEW i \in 1 .. n PROVE new[dst + i - 1] = IF i <= m THEN s[i] ELSE 0
    <3>1. PICK p \in 0 .. top : p = dst + i - 1
      BY <1>1
    <3>2. CASE i <= m
      <4>1. p \in dst .. dst + l - 1 /\ src + (p - dst) = src + i - 1 /\ i \in 1 .. m
        BY <1>1, <1>6, <3>1, <3>2
      <4>2. new[p] = mem[src + (p - dst)]
        BY <1>9, <4>1
      <4> QED  BY <1>5, <3>1, <3>2, <4>1, <4>2
    <3>3. CASE i > m
      <4>1. p \notin dst .. dst + l - 1 /\ p \in dst + l .. dst + n - 1
        BY <1>1, <1>6, <3>1, <3>3
      <4>2. new[p] = 0
        BY <1>9, <4>1
      <4> QED  BY <1>4, <3>1, <3>3, <4>2
    <3> QED  BY <1>4, <3>2, <3>3
  <2> QED  BY <2>1 DEF Bytes
<1> QED  BY <1>3, <1>5, <1>8, <1>10, <1>11

\* memcpy, memset and strncpy.
LEMMA Writes ==
    ASSUME NEW mem, NEW top, Reaches(mem, top), NEW dst \in 0 .. top, NEW src \in 0 .. top,
           NEW n \in Nat, dst + n <= top + 1, src + n <= top + 1, NEW c \in Int
    PROVE  WritesAgree(mem, dst, src, n, c)
<1>1. dst \in Nat /\ src \in Nat
  BY DEF Reaches
<1>2. /\ Unchanged(mem, memcpy(mem, dst, src, n), dst, n)
      /\ Apart(dst, src, n) => Bytes(memcpy(mem, dst, src, n), dst, n) = Bytes(mem, src, n)
  BY <1>1, Copies
<1>3. /\ Unchanged(mem, memset(mem, dst, c, n), dst, n)
      /\ Bytes(memset(mem, dst, c, n), dst, n) = [i \in 1 .. n |-> c % 256]
  BY <1>1, Sets
<1>4. /\ Unchanged(mem, strncpy(mem, dst, src, n), dst, n)
      /\ Bytes(strncpy(mem, dst, src, n), dst, n) =
                [i \in 1 .. n |-> IF i <= Len(CString(mem, src)) THEN CString(mem, src)[i] ELSE 0]
  BY CopiesString
<1> QED  BY <1>2, <1>3, <1>4 DEF WritesAgree

\* memcmp orders areas by their bytes.
LEMMA ComparesBytes ==
    ASSUME NEW mem, NEW top, Reaches(mem, top), NEW a \in Nat, NEW b \in Nat,
           NEW n \in Nat, a + n <= top + 1, b + n <= top + 1
    PROVE  Sign(memcmp(mem, a, b, n)) = Order(Bytes(mem, a, n), Bytes(mem, b, n))
<1>1. top \in Nat /\ mem \in [0 .. top -> 0 .. 255]
  BY DEF Reaches
<1>2. PICK x, y : x = Bytes(mem, a, n) /\ y = Bytes(mem, b, n)
  OBVIOUS
<1>3. ASSUME NEW i \in 0 .. n - 1
      PROVE  mem[a + i] \in Nat /\ mem[b + i] \in Nat
  <2>1. a + i \in 0 .. top /\ b + i \in 0 .. top
    BY <1>1
  <2>2. PICK u \in 0 .. 255, v \in 0 .. 255 : u = mem[a + i] /\ v = mem[b + i]
    BY <1>1, <2>1
  <2> QED  BY <2>2
<1>4. /\ x \in Seq(Nat) /\ Len(x) = n /\ \A i \in 0 .. n - 1 : x[i + 1] = mem[a + i]
      /\ y \in Seq(Nat) /\ Len(y) = n /\ \A i \in 0 .. n - 1 : y[i + 1] = mem[b + i]
  <2>1. \A i \in 1 .. n : x[i] = mem[a + i - 1] /\ y[i] = mem[b + i - 1]
    BY <1>2 DEF Bytes
  <2>2. \A i \in 1 .. n : i - 1 \in 0 .. n - 1 /\ a + i - 1 = a + (i - 1) /\ b + i - 1 = b + (i - 1)
    OBVIOUS
  <2>3. x \in [1 .. n -> Nat] /\ y \in [1 .. n -> Nat]
    <3>1. x = [i \in 1 .. n |-> x[i]] /\ y = [i \in 1 .. n |-> y[i]]
      BY <1>2 DEF Bytes
    <3>2. \A i \in 1 .. n : x[i] \in Nat /\ y[i] \in Nat
      BY <1>3, <2>1, <2>2
    <3> QED  BY <3>1, <3>2
  <2>4. x \in Seq(Nat) /\ Len(x) = n /\ y \in Seq(Nat) /\ Len(y) = n
    BY <2>3, Listed
  <2>5. ASSUME NEW i \in 0 .. n - 1 PROVE x[i + 1] = mem[a + i] /\ y[i + 1] = mem[b + i]
    <3>1. i + 1 \in 1 .. n /\ a + (i + 1) - 1 = a + i /\ b + (i + 1) - 1 = b + i
      OBVIOUS
    <3> QED  BY <2>1, <3>1
  <2> QED  BY <2>4, <2>5
<1> DEFINE diff == Differences(mem, a, b, n)
<1>5. CASE diff = {}
  <2>1. \A i \in 0 .. n - 1 : x[i + 1] = y[i + 1]
    BY <1>4, <1>5 DEF Differences
  <2>2. \A j \in 1 .. n : x[j] = y[j]
    <3>1. \A j \in 1 .. n : j - 1 \in 0 .. n - 1 /\ (j - 1) + 1 = j
      OBVIOUS
    <3> QED  BY <2>1, <3>1
  <2>3. x = y
    BY <1>4, <2>2, SeqEqual
  <2>4. memcmp(mem, a, b, n) = 0
    BY <1>5 DEF memcmp
  <2> QED  BY <1>2, <2>3, <2>4 DEF Order, Sign
<1>6. CASE diff # {}
  <2>1. PICK k : k = Min(diff)
    OBVIOUS
  <2>2. k \in diff /\ k \in 0 .. n - 1 /\ \A i \in diff : k <= i
    <3>1. diff \subseteq Nat /\ diff \subseteq 0 .. n - 1
      BY DEF Differences
    <3> HIDE DEF diff
    <3> QED  BY <1>6, <2>1, <3>1, MinIs
  <2>3. PICK u \in Nat, v \in Nat : u = mem[a + k] /\ v = mem[b + k] /\ u # v
    BY <1>3, <2>2 DEF Differences
  <2>4. \A j \in 1 .. k : x[j] = y[j]
    <3> SUFFICES ASSUME NEW j \in 1 .. k PROVE x[j] = y[j]
      OBVIOUS
    <3>1. PICK i : i = j - 1 /\ i + 1 = j /\ i \in 0 .. n - 1 /\ i < k
      BY <2>2
    <3>2. i \notin diff
      BY <2>2, <3>1
    <3>3. mem[a + i] = mem[b + i]
      BY <3>1, <3>2 DEF Differences
    <3> QED  BY <1>4, <3>1, <3>3
  <2>5. Meets(x, k, u) /\ Meets(y, k, v) /\ k <= Len(x) /\ k <= Len(y) /\ k \in Nat
    BY <1>4, <2>2, <2>3 DEF Meets
  <2>6. Order(x, y) = Sign(u - v)
    <3>1. Differ(x, y, k, u, v)
      BY <2>3, <2>4, <2>5 DEF Differ
    <3> QED  BY <1>4, <3>1, OrderIs
  <2>7. memcmp(mem, a, b, n) = u - v
    BY <1>6, <2>1, <2>3 DEF memcmp
  <2> QED  BY <1>2, <2>6, <2>7
<1> QED  BY <1>5, <1>6

\* A beginning of a string.
LEMMA UptoIs ==
    ASSUME NEW S, NEW s \in Seq(S), NEW n \in Nat
    PROVE  /\ Upto(s, n) \in Seq(S) /\ Len(Upto(s, n)) = IF n <= Len(s) THEN n ELSE Len(s)
           /\ \A i \in 1 .. Len(Upto(s, n)) : Upto(s, n)[i] = s[i]
           /\ n >= Len(s) => Upto(s, n) = s
<1>1. PICK l \in Nat : l = Len(s)
  BY LenProperties
<1>2. PICK m \in Nat : m = IF n <= l THEN n ELSE l
  OBVIOUS
<1>3. Min({n, Len(s)}) = m
  BY <1>1, <1>2, MinOfTwo
<1>4. PICK t : t = Upto(s, n)
  OBVIOUS
<1>5. t = SubSeq(s, 1, m)
  BY <1>3, <1>4 DEF Upto
<1>6. /\ SubSeq(s, 1, m) \in Seq(S)
      /\ Len(SubSeq(s, 1, m)) = IF 1 <= m THEN m - 1 + 1 ELSE 0
      /\ \A i \in 1 .. m - 1 + 1 : SubSeq(s, 1, m)[i] = s[1 + i - 1]
  <2>1. 1 \in Nat /\ 1 >= 1 /\ m <= Len(s)
    BY <1>1, <1>2
  <2> QED  BY <2>1, Piece
<1>7. t \in Seq(S) /\ Len(t) = m /\ \A i \in 1 .. m : t[i] = s[i]
  <2>1. \A i \in 1 .. m : i \in 1 .. m - 1 + 1 /\ 1 + i - 1 = i
    OBVIOUS
  <2> QED  BY <1>5, <1>6, <2>1
<1>8. n >= l => t = s
  <2> SUFFICES ASSUME n >= l PROVE t = s
    OBVIOUS
  <2>1. m = l
    BY <1>2
  <2> QED  BY <1>1, <1>7, <2>1, SeqEqual
<1> QED  BY <1>1, <1>2, <1>4, <1>7, <1>8

\* A loop without a bound stops.
LEMMA StopFound ==
    ASSUME NEW mem, NEW top, Reaches(mem, top), NEW a \in 0 .. top, NEW b \in 0 .. top,
           NEW e \in a .. top, EndsAt(mem, a, e), NEW f \in b .. top, EndsAt(mem, b, f),
           NEW m \in Nat, m > e - a
    PROVE  Stops(mem, a, b, m) # {}
<1>1. top \in Nat /\ DOMAIN mem = 0 .. top /\ a \in Nat /\ b \in Nat
  BY DEF Reaches
<1>2. PICK p \in Nat, q \in Nat : /\ p = e - a /\ e = a + p /\ e <= top
                                /\ q = f - b /\ f = b + q /\ f <= top
  BY <1>1
<1>3. CASE p <= q
  <2>1. p \in 0 .. m - 1 /\ a + p \in 0 .. top /\ b + p \in 0 .. top
    BY <1>1, <1>2, <1>3
  <2>2. mem[a + p] = 0
    BY <1>2 DEF EndsAt
  <2> QED  BY <1>1, <2>1, <2>2 DEF Stops
<1>4. CASE q < p
  <2>1. q \in 0 .. m - 1 /\ a + q \in 0 .. top /\ b + q \in 0 .. top /\ a + q \in a .. e - 1
    BY <1>1, <1>2, <1>4
  <2>2. mem[b + q] = 0 /\ mem[a + q] # 0
    BY <1>2, <2>1 DEF EndsAt
  <2> QED  BY <1>1, <2>1, <2>2 DEF Stops
<1> QED  BY <1>3, <1>4

\* Where the loops stop, the strings first differ or both end.
LEMMA Stopped ==
    ASSUME NEW mem, NEW top, Reaches(mem, top), NEW a \in 0 .. top, NEW b \in 0 .. top,
           NEW n \in Nat, NEW e \in a .. top, EndsAt(mem, a, e), NEW f \in b .. top,
           EndsAt(mem, b, f), NEW s, IsString(s, mem, a, e), NEW t, IsString(t, mem, b, f),
           NEW m \in Nat, m = IF n <= (e - a) + 1 THEN n ELSE (e - a) + 1,
           NEW stops, stops = Stops(mem, a, b, m)
    PROVE  Order(Upto(s, n), Upto(t, n)) =
             IF stops = {} THEN 0 ELSE Sign(mem[a + Min(stops)] - mem[b + Min(stops)])
<1>1. /\ top \in Nat /\ mem \in [0 .. top -> 0 .. 255] /\ DOMAIN mem = 0 .. top
      /\ a \in Nat /\ b \in Nat
  BY DEF Reaches
<1>2. PICK p \in Nat, q \in Nat : /\ p = e - a /\ e = a + p /\ e <= top
                                /\ q = f - b /\ f = b + q /\ f <= top
  BY <1>1
<1>3. /\ mem[a + p] = 0 /\ \A i \in 0 .. p - 1 : mem[a + i] # 0
      /\ mem[b + q] = 0 /\ \A i \in 0 .. q - 1 : mem[b + i] # 0
  <2>1. \A i \in 0 .. p - 1 : a + i \in a .. e - 1
    BY <1>1, <1>2
  <2>2. \A i \in 0 .. q - 1 : b + i \in b .. f - 1
    BY <1>1, <1>2
  <2> QED  BY <1>2, <2>1, <2>2 DEF EndsAt
<1>4. /\ s \in Seq(1 .. 255) /\ Len(s) = p /\ \A i \in 1 .. p : s[i] = mem[a + i - 1]
      /\ t \in Seq(1 .. 255) /\ Len(t) = q /\ \A i \in 1 .. q : t[i] = mem[b + i - 1]
  BY <1>2 DEF IsString
<1>5. PICK x, y : x = Upto(s, n) /\ y = Upto(t, n)
  OBVIOUS
<1>6. PICK c \in Nat, d \in Nat : /\ c = IF n <= p THEN n ELSE p
                                /\ d = IF n <= q THEN n ELSE q
  OBVIOUS
<1>7. /\ x \in Seq(Nat) /\ Len(x) = c /\ \A i \in 0 .. c - 1 : x[i + 1] = mem[a + i]
      /\ y \in Seq(Nat) /\ Len(y) = d /\ \A i \in 0 .. d - 1 : y[i + 1] = mem[b + i]
  <2>1. /\ x \in Seq(1 .. 255) /\ Len(x) = c /\ \A i \in 1 .. c : x[i] = s[i]
    <3>1. /\ x \in Seq(1 .. 255) /\ Len(x) = IF n <= Len(s) THEN n ELSE Len(s)
          /\ \A i \in 1 .. Len(x) : x[i] = s[i]
      BY <1>4, <1>5, UptoIs
    <3> QED  BY <1>4, <1>6, <3>1
  <2>2. /\ y \in Seq(1 .. 255) /\ Len(y) = d /\ \A i \in 1 .. d : y[i] = t[i]
    <3>1. /\ y \in Seq(1 .. 255) /\ Len(y) = IF n <= Len(t) THEN n ELSE Len(t)
          /\ \A i \in 1 .. Len(y) : y[i] = t[i]
      BY <1>4, <1>5, UptoIs
    <3> QED  BY <1>4, <1>6, <3>1
  <2>3. 1 .. 255 \subseteq Nat
    OBVIOUS
  <2>4. x \in Seq(Nat) /\ y \in Seq(Nat)
    BY <2>1, <2>2, <2>3, SeqMonotonic
  <2>5. ASSUME NEW i \in 0 .. c - 1 PROVE x[i + 1] = mem[a + i]
    <3>1. i + 1 \in 1 .. c /\ i + 1 \in 1 .. p /\ a + (i + 1) - 1 = a + i
      BY <1>1, <1>6
    <3> QED  BY <1>4, <2>1, <3>1
  <2>6. ASSUME NEW i \in 0 .. d - 1 PROVE y[i + 1] = mem[b + i]
    <3>1. i + 1 \in 1 .. d /\ i + 1 \in 1 .. q /\ b + (i + 1) - 1 = b + i
      BY <1>1, <1>6
    <3> QED  BY <1>4, <2>2, <3>1
  <2> QED  BY <2>1, <2>2, <2>4, <2>5, <2>6
<1> DEFINE Stop(i) == /\ a + i \in 0 .. top /\ b + i \in 0 .. top
                      /\ mem[a + i] # mem[b + i] \/ mem[a + i] = 0
<1>8. stops \subseteq 0 .. m - 1 /\ \A i \in 0 .. m - 1 : i \in stops <=> Stop(i)
  <2>1. stops = {i \in 0 .. m - 1 : /\ {a + i, b + i} \subseteq 0 .. top
                                    /\ mem[a + i] # mem[b + i] \/ mem[a + i] = 0}
    BY <1>1 DEF Stops
  <2>2. stops = {i \in 0 .. m - 1 : Stop(i)}
    BY <2>1
  <2> HIDE DEF Stop
  <2> QED  BY <2>2
<1>9. m = IF n <= p + 1 THEN n ELSE p + 1
  BY <1>2
<1>10. CASE stops = {}
  <2>1. n <= p
    <3> SUFFICES ASSUME n > p PROVE FALSE
      OBVIOUS
    <3>1. p \in 0 .. m - 1 /\ a + p \in 0 .. top
      BY <1>1, <1>2, <1>9
    <3>2. b + p \notin 0 .. top
      BY <1>3, <1>8, <1>10, <3>1
    <3>3. q < p
      BY <1>1, <1>2, <3>2
    <3>4. q \in 0 .. m - 1 /\ a + q \in 0 .. top /\ b + q \in 0 .. top /\ q \in 0 .. p - 1
      BY <1>1, <1>2, <3>1, <3>3
    <3>5. mem[b + q] = 0 /\ mem[a + q] # 0
      BY <1>3, <3>4
    <3> QED  BY <1>8, <1>10, <3>4, <3>5
  <2>2. m = n
    BY <1>9, <2>1
  <2>3. n <= q
    <3> SUFFICES ASSUME n > q PROVE FALSE
      OBVIOUS
    <3>1. q \in 0 .. m - 1 /\ a + q \in 0 .. top /\ b + q \in 0 .. top /\ q \in 0 .. p - 1
      BY <1>1, <1>2, <2>1, <2>2
    <3>2. mem[b + q] = 0 /\ mem[a + q] # 0
      BY <1>3, <3>1
    <3> QED  BY <1>8, <1>10, <3>1, <3>2
  <2>4. c = n /\ d = n
    BY <1>6, <2>1, <2>3
  <2>5. ASSUME NEW j \in 1 .. n PROVE x[j] = y[j]
    <3>1. PICK i : i = j - 1 /\ i \in 0 .. n - 1 /\ i + 1 = j
      OBVIOUS
    <3>2. a + i \in 0 .. top /\ b + i \in 0 .. top /\ i \in 0 .. m - 1
      BY <1>1, <1>2, <2>1, <2>2, <2>3, <3>1
    <3>3. mem[a + i] = mem[b + i]
      BY <1>8, <1>10, <3>2
    <3>4. x[i + 1] = mem[a + i]
      BY <1>7, <2>4, <3>1
    <3>5. y[i + 1] = mem[b + i]
      BY <1>7, <2>4, <3>1
    <3> QED  BY <3>1, <3>3, <3>4, <3>5
  <2>6. x = y
    BY <1>7, <2>4, <2>5, SeqEqual
  <2> QED  BY <1>5, <1>10, <2>6 DEF Order
<1>11. CASE stops # {}
  <2>1. PICK k : k = Min(stops)
    OBVIOUS
  <2>2. k \in stops /\ \A i \in stops : k <= i
    <3>1. stops \subseteq Nat
      BY <1>8
    <3> QED  BY <1>11, <2>1, <3>1, MinIs
  <2>3. /\ k \in 0 .. m - 1 /\ a + k \in 0 .. top /\ b + k \in 0 .. top
        /\ mem[a + k] # mem[b + k] \/ mem[a + k] = 0
    BY <1>8, <2>2
  <2>4. k \in Nat /\ k < n /\ k <= p
    BY <1>9, <2>3
  <2>5. ASSUME NEW i \in 0 .. k - 1 PROVE mem[a + i] = mem[b + i] /\ mem[a + i] # 0
    <3>1. i \in 0 .. m - 1 /\ a + i \in 0 .. top /\ b + i \in 0 .. top /\ ~ (k <= i)
      BY <1>1, <2>3, <2>4
    <3>2. i \notin stops
      BY <2>2, <3>1
    <3> QED  BY <1>8, <3>1, <3>2
  <2>6. k <= q
    <3> SUFFICES ASSUME q < k PROVE FALSE
      BY <2>4
    <3>1. q \in 0 .. k - 1
      BY <2>4
    <3> QED  BY <1>3, <2>5, <3>1
  <2>7. PICK u \in Nat, v \in Nat : u = mem[a + k] /\ v = mem[b + k]
    <3>1. PICK u \in 0 .. 255, v \in 0 .. 255 : u = mem[a + k] /\ v = mem[b + k]
      BY <1>1, <2>3
    <3> QED  BY <3>1
  <2>8. k <= c /\ k <= d
    BY <1>6, <2>4, <2>6
  <2>9. ASSUME NEW j \in 1 .. k PROVE x[j] = y[j]
    <3>1. PICK i : i = j - 1 /\ i + 1 = j /\ i \in 0 .. k - 1 /\ i \in 0 .. c - 1 /\ i \in 0 .. d - 1
      BY <2>4, <2>8
    <3>2. x[i + 1] = mem[a + i]
      BY <1>7, <3>1
    <3>3. y[i + 1] = mem[b + i]
      BY <1>7, <3>1
    <3>4. mem[a + i] = mem[b + i]
      BY <2>5, <3>1
    <3> QED  BY <3>1, <3>2, <3>3, <3>4
  <2>10. Meets(x, k, u)
    <3>1. CASE k < c
      <4>1. k \in 0 .. c - 1
        BY <2>4, <3>1
      <4> QED  BY <1>7, <2>7, <3>1, <4>1 DEF Meets
    <3>2. CASE k = c
      <4>1. k = p
        BY <1>6, <2>4, <3>2
      <4> QED  BY <1>3, <1>7, <2>7, <3>2, <4>1 DEF Meets
    <3> QED  BY <2>4, <2>8, <3>1, <3>2
  <2>11. Meets(y, k, v)
    <3>1. CASE k < d
      <4>1. k \in 0 .. d - 1
        BY <2>4, <3>1
      <4> QED  BY <1>7, <2>7, <3>1, <4>1 DEF Meets
    <3>2. CASE k = d
      <4>1. k = q
        BY <1>6, <2>4, <3>2
      <4> QED  BY <1>3, <1>7, <2>7, <3>2, <4>1 DEF Meets
    <3> QED  BY <2>4, <2>8, <3>1, <3>2
  <2>12. ASSUME u = v PROVE k = c /\ k = d
    <3>1. mem[a + k] = 0 /\ mem[b + k] = 0
      BY <2>3, <2>7, <2>12
    <3>2. k = p
      <4>1. k < p => k \in 0 .. p - 1
        BY <2>4
      <4> QED  BY <1>3, <2>4, <3>1, <4>1
    <3>3. k = q
      <4>1. k < q => k \in 0 .. q - 1
        BY <2>4
      <4> QED  BY <1>3, <2>4, <2>6, <3>1, <4>1
    <3> QED  BY <1>6, <2>4, <3>2, <3>3
  <2>13. Order(x, y) = Sign(u - v)
    <3>1. k <= Len(x) /\ k <= Len(y) /\ (u = v => k = Len(x) /\ k = Len(y))
      BY <1>7, <2>8, <2>12
    <3>2. Differ(x, y, k, u, v)
      BY <2>4, <2>9, <2>10, <2>11, <3>1 DEF Differ
    <3> QED  BY <1>7, <3>2, OrderIs
  <2> QED  BY <1>5, <1>11, <2>1, <2>7, <2>13
<1> QED  BY <1>10, <1>11

\* strlen, memcmp, strcmp and strncmp.
LEMMA Compares ==
    ASSUME NEW mem, NEW top, Reaches(mem, top), NEW a \in 0 .. top, NEW b \in 0 .. top,
           NEW n \in Nat, a + n <= top + 1, b + n <= top + 1
    PROVE  ComparesAgree(mem, a, b, n)
<1>1. top \in Nat /\ a \in Nat /\ b \in Nat
  BY DEF Reaches
<1>2. PICK e \in a .. top : /\ EndsAt(mem, a, e) /\ IsString(CString(mem, a), mem, a, e)
                          /\ strlen(mem, a) = e - a
  BY StringFound
<1>3. PICK f \in b .. top : EndsAt(mem, b, f) /\ IsString(CString(mem, b), mem, b, f)
  BY StringFound
<1>4. PICK s, t : s = CString(mem, a) /\ t = CString(mem, b)
  OBVIOUS
<1>5. PICK p \in Nat, q \in Nat : p = e - a /\ q = f - b
  BY <1>1
<1>6. s \in Seq(1 .. 255) /\ Len(s) = p /\ t \in Seq(1 .. 255) /\ Len(t) = q
  BY <1>2, <1>3, <1>4, <1>5 DEF IsString
<1>7. strlen(mem, a) = Len(s)
  BY <1>2, <1>5, <1>6
<1>8. Sign(memcmp(mem, a, b, n)) = Order(Bytes(mem, a, n), Bytes(mem, b, n))
  BY <1>1, ComparesBytes
<1>9. Sign(0) = 0
  BY DEF Sign
<1>10. Sign(strncmp(mem, a, b, n)) = Order(Upto(s, n), Upto(t, n))
  <2>1. PICK m \in Nat : m = IF n <= p + 1 THEN n ELSE p + 1
    OBVIOUS
  <2>2. Min({n, strlen(mem, a) + 1}) = m
    <3>1. strlen(mem, a) + 1 = p + 1 /\ p + 1 \in Nat
      BY <1>2, <1>5
    <3>2. Min({n, p + 1}) = m
      BY <2>1, MinOfTwo
    <3> QED  BY <3>1, <3>2
  <2>3. PICK stops : stops = Stops(mem, a, b, m)
    OBVIOUS
  <2>4. Order(Upto(s, n), Upto(t, n)) =
             IF stops = {} THEN 0 ELSE Sign(mem[a + Min(stops)] - mem[b + Min(stops)])
    BY <1>2, <1>3, <1>4, <1>5, <2>1, <2>3, Stopped
  <2>5. strncmp(mem, a, b, n) =
          IF stops = {} THEN 0 ELSE mem[a + Min(stops)] - mem[b + Min(stops)]
    BY <2>2, <2>3 DEF strncmp
  <2> QED  BY <1>9, <2>4, <2>5
<1>11. Sign(strcmp(mem, a, b)) = Order(s, t)
  <2>1. PICK k \in Nat : k = p + q + 1
    OBVIOUS
  <2>2. PICK m \in Nat : m = p + 1 /\ m = IF k <= p + 1 THEN k ELSE p + 1
    BY <2>1
  <2>3. PICK stops : stops = Stops(mem, a, b, m)
    OBVIOUS
  <2>4. Order(Upto(s, k), Upto(t, k)) =
             IF stops = {} THEN 0 ELSE Sign(mem[a + Min(stops)] - mem[b + Min(stops)])
    BY <1>2, <1>3, <1>4, <1>5, <2>2, <2>3, Stopped
  <2>5. Upto(s, k) = s /\ Upto(t, k) = t
    BY <1>6, <2>1, UptoIs
  <2>6. stops # {}
    BY <1>1, <1>2, <1>3, <1>5, <2>2, <2>3, StopFound
  <2>7. strcmp(mem, a, b) = mem[a + Min(stops)] - mem[b + Min(stops)]
    <3>1. strlen(mem, a) + 1 = m
      BY <1>2, <1>5, <2>2
    <3> QED  BY <2>3, <3>1 DEF strcmp
  <2> QED  BY <2>4, <2>5, <2>6, <2>7
<1> QED  BY <1>4, <1>7, <1>8, <1>10, <1>11 DEF ComparesAgree

\* In every call, whatever memory holds, wherever the areas lie in it and whatever number
\* and base there are, the functions of string.cpp do what libc's do (memcpy, memset,
\* strncpy, strlen, memcmp, strcmp, strncmp, itoa).
THEOREM StringsAreRight == Spec => []StringsAgree
<1>1. Init => StringsAgree
  BY DEF Init, NoCall, StringsAgree
<1>2. StringsAgree /\ [Next]_call => StringsAgree'
  <2> SUFFICES ASSUME StringsAgree, [Next]_call PROVE StringsAgree'
    OBVIOUS
  <2>1. CASE CallMemory
    <3>1. PICK mem \in Memories, c \in Fills :
            \E dst, src \in DOMAIN mem, n \in 0 .. Max(DOMAIN mem) + 1 :
              /\ {dst + n, src + n} \subseteq 0 .. Max(DOMAIN mem) + 1
              /\ call' = [of |-> "memory", mem |-> mem, dst |-> dst, src |-> src, n |-> n,
                          c |-> c]
      BY <2>1 DEF CallMemory
    <3>2. PICK dst \in DOMAIN mem, src \in DOMAIN mem, n \in 0 .. Max(DOMAIN mem) + 1 :
            /\ {dst + n, src + n} \subseteq 0 .. Max(DOMAIN mem) + 1
            /\ call' = [of |-> "memory", mem |-> mem, dst |-> dst, src |-> src, n |-> n,
                        c |-> c]
      BY <3>1
    <3>3. IsMemory(mem) /\ c \in Int
      BY LibraryAssumption
    <3>4. PICK top \in Nat : Reaches(mem, top)
      BY <3>3, MemoryReaches
    <3>5. /\ dst \in 0 .. top /\ src \in 0 .. top /\ n \in Nat
          /\ dst + n <= top + 1 /\ src + n <= top + 1
      <4>1. DOMAIN mem = 0 .. top /\ Max(DOMAIN mem) = top
        BY <3>4 DEF Reaches
      <4> QED  BY <3>2, <4>1
    <3>6. WritesAgree(mem, dst, src, n, c)
      BY <3>3, <3>4, <3>5, Writes
    <3>7. ComparesAgree(mem, dst, src, n)
      BY <3>4, <3>5, Compares
    <3> QED  BY <3>2, <3>6, <3>7 DEF StringsAgree
  <2>2. CASE CallNumber
    <3>1. PICK value \in Values, base \in Bases :
            call' = [of |-> "number", value |-> value, base |-> base]
      BY <2>2 DEF CallNumber
    <3>2. value \in Ints /\ base \in Int
      BY LibraryAssumption
    <3>3. NumberAgrees(value, base)
      BY <3>2, NumberShown
    <3> QED  BY <3>1, <3>3 DEF StringsAgree
  <2>3. CASE CallLine
    BY <2>3 DEF CallLine, StringsAgree
  <2>4. CASE CallImage
    BY <2>4 DEF CallImage, StringsAgree
  <2>5. CASE CallKernel
    BY <2>5 DEF CallKernel, StringsAgree
  <2>6. CASE CallGate
    BY <2>6 DEF CallGate, StringsAgree
  <2>7. CASE CallChar
    BY <2>7 DEF CallChar, StringsAgree
  <2>8. CASE UNCHANGED call
    BY <2>8 DEF StringsAgree
  <2> QED  BY <2>1, <2>2, <2>3, <2>4, <2>5, <2>6, <2>7, <2>8 DEF Next
<1> QED  BY <1>1, <1>2, PTL DEF Spec
=============================================================================
