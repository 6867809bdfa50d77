--------------------------------- MODULE Gate ---------------------------------
(***************************************************************************)
(* The way into the kernel: the descriptor tables of gdt.cpp, idt.cpp and  *)
(* loader.asm as the processor reads them, and the path of a system call   *)
(* from sys_call through isr_syscall_stub to syscall_dispatch and back.    *)
(*                                                                         *)
(* All code runs in ring 0, on one stack, so int and iretd do not switch   *)
(* stacks.  A stack is a sequence, the word at esp last.                   *)
(***************************************************************************)
EXTENDS Integers, Sequences, SequencesExt

-----------------------------------------------------------------------------
(* Segment descriptors                                                     *)

gdt_set_gate(base, limit, access, gran) ==
    [limit_low   |-> limit % 65536,
     base_low    |-> base % 65536,
     base_mid    |-> (base \div 65536) % 256,
     access      |-> access,
     granularity |-> ((limit \div 65536) % 16) + (gran \div 16) * 16,
     base_high   |-> (base \div 16777216) % 256]

\* gdt_init: nothing, the code segment 0x9A and the data segment 0x92, with 0xCF.
gdt == << gdt_set_gate(0, 0, 0, 0),
          gdt_set_gate(0, 1048575, 154, 207),
          gdt_set_gate(0, 1048575, 146, 207) >>

\* The quadwords of loader.asm, byte by byte from the lowest address on.
gdt_start == << <<0, 0, 0, 0, 0, 0, 0, 0>>,
                <<255, 255, 0, 0, 0, 154, 207, 0>>,
                <<255, 255, 0, 0, 0, 146, 207, 0>> >>

\* struct GdtEntry in memory: packed, low bytes first.
BytesOf(e) == << e.limit_low % 256, e.limit_low \div 256, e.base_low % 256, e.base_low \div 256,
                 e.base_mid, e.access, e.granularity, e.base_high >>

\* What the processor makes of the eight bytes of a descriptor.
Segment(b) ==
    [base    |-> b[3] + 256 * b[4] + 65536 * b[5] + 16777216 * b[8],
     limit   |-> b[1] + 256 * b[2] + 65536 * (b[7] % 16),
     present |-> b[6] \div 128,
     dpl     |-> (b[6] \div 32) % 4,
     code    |-> (b[6] \div 8) % 2,
     pages   |-> b[7] \div 128,
     bits32  |-> (b[7] \div 64) % 2]

\* The flat model the comments of both files ask for: 4 GB from 0, ring 0, 32 bits.
Flat(code) == [base |-> 0, limit |-> 1048575, present |-> 1, dpl |-> 0, code |-> code,
               pages |-> 1, bits32 |-> 1]

-----------------------------------------------------------------------------
(* Gates                                                                   *)

SYSCALL_VECTOR == 128

idt_set_gate(handler, sel, flags) ==
    [offset_low  |-> handler % 65536,
     offset_high |-> (handler \div 65536) % 65536,
     selector    |-> sel,
     zero        |-> 0,
     type_attr   |-> flags]

\* idt_init, with the stubs where the linker has put them.
idt(default_stub, syscall_stub) ==
    [v \in 0 .. 255 |->
        IF v = SYSCALL_VECTOR THEN idt_set_gate(syscall_stub, 8, 238)
                              ELSE idt_set_gate(default_stub, 8, 142)]

\* Where the processor goes through gate g, and the ring it may be called from; both
\* types that occur here, 14 and 15, are of 32 bits, and 14 turns interrupts off.
Target(g) ==
    [address  |-> g.offset_low + 65536 * g.offset_high,
     selector |-> g.selector,
     ring     |-> (g.type_attr \div 32) % 4,
     present  |-> g.type_attr \div 128,
     type     |-> g.type_attr % 16]

-----------------------------------------------------------------------------
(* A system call                                                           *)

SYS_PUTC == 7
SYS_GETC == 8

\* The numbers of SyscallNum; every other one is unknown.
SyscallNum == 1 .. 8

Registers == {"eax", "ecx", "edx", "ebx", "ebp", "esi", "edi"}

\* sys_call loads the number and the arguments.
sys_call(regs, n, a1, a2, a3) ==
    [regs EXCEPT !["eax"] = n, !["ebx"] = a1, !["ecx"] = a2, !["edx"] = a3]

\* pushad: eax, ecx, edx, ebx, the esp before it (here the depth), ebp, esi, edi.
Pushad(regs, stack) ==
    stack \o <<regs["eax"], regs["ecx"], regs["edx"], regs["ebx"], Len(stack),
               regs["ebp"], regs["esi"], regs["edi"]>>

\* [esp + 4 * i]
At(stack, i) == stack[Len(stack) - i]

Dropped(stack, n) == SubSeq(stack, 1, Len(stack) - n)

\* popad: the same words back; the saved esp is skipped.
Popad(stack) ==
    [r \in Registers |->
        CASE r = "edi" -> At(stack, 0) [] r = "esi" -> At(stack, 1) [] r = "ebp" -> At(stack, 2)
          [] r = "ebx" -> At(stack, 4) [] r = "edx" -> At(stack, 5) [] r = "ecx" -> At(stack, 6)
          [] r = "eax" -> At(stack, 7)]

\* What int $0x80 pushes: eflags, cs, eip.
Interrupt(stack, frame) == stack \o frame

\* The words of the call on a stack, and its return address.
Called(stack, num, a1, a2, a3) == stack \o <<a3, a2, a1, num>> \o <<"back">>

\* The stack as syscall_dispatch finds it: from edx, ecx, ebx and eax.
AtDispatch(regs, stack) ==
    Called(Pushad(regs, stack), regs["eax"], regs["ebx"], regs["ecx"], regs["edx"])

\* The arguments of syscall_dispatch: num, a1, a2, a3.
DispatchArguments(stack) == <<At(stack, 1), At(stack, 2), At(stack, 3), At(stack, 4)>>

Overwritten(stack, junk) == stack \o <<junk, junk, junk, junk>>

\* syscall_dispatch keeps ebx, ebp, esi, edi and the stack below its arguments, and leaves
\* any junk in ecx, edx and in its arguments; result is in eax.
Dispatched(stack, junk) == Overwritten(Dropped(stack, 5), junk)

\* A mistake the checks rule out: the result goes where pushad has put ecx.
WithResultLow(stack, result) == [stack EXCEPT ![Len(stack) - 6] = result]

\* mov [esp + 28], eax
WithResult(stack, result) == [stack EXCEPT ![Len(stack) - 7] = result]

\* isr_syscall_stub, from the frame of the interrupt on: the registers and the stack after
\* iretd, and the frame iretd returns through.
isr_syscall_stub(regs, stack, result, junk) ==
    LET returned == Dispatched(AtDispatch(regs, stack), junk)
        saved    == WithResult(Dropped(returned, 4), result)
        left     == Dropped(saved, 8)
    IN  [regs  |-> Popad(saved),
         frame |-> SubSeq(left, Len(left) - 2, Len(left)),
         stack |-> Dropped(left, 3)]

-----------------------------------------------------------------------------
(* Characters; a char is -128 .. 127, a register a number below 2^32, of   *)
(* which only the low byte counts here.                                    *)

Signed(b) == IF b > 127 THEN b - 256 ELSE b

\* tbx_putc: (unsigned int)(unsigned char)c
tbx_putc_word(c) == c % 256

\* syscall_dispatch, SYS_PUTC: (char)(a1 & 0xFF)
putc_char(a1) == Signed(a1 % 256)

\* syscall_dispatch, SYS_GETC: (int)(unsigned char)kbd_getc()
getc_word(c) == c % 256

\* shell_main: (char)tbx_getc()
getc_char(w) == Signed(w % 256)
=============================================================================
