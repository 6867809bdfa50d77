------------------------------- MODULE Library -------------------------------
(***************************************************************************)
(* The algorithms that keep no state of their own, and what each of them   *)
(* is meant to compute: memory, strings and numbers (Runtime), the words   *)
(* of a command line (Tokens), the image file (Image), and the way into    *)
(* the kernel and back (Gate).  A state is a call with its arguments.      *)
(***************************************************************************)
EXTENDS Runtime, Tokens, Image, Gate

CONSTANTS
    Memories,         \* contents of memory, with a NUL at the highest address
    Fills,            \* arguments of memset
    Values, Bases,    \* arguments of itoa
    CommandLines,     \* lines of the shell, without their NUL
    Kernels, Files,   \* contents of kernel binaries; initial files: [name, data]
    Texts,            \* texts that a kernel or a file may hold
    Addresses,        \* addresses of code
    Words,            \* values of registers
    Chars             \* the values of a char

\* Memory has bytes from address 0 up to a NUL.
IsMemory(mem) ==
    \E top \in DOMAIN mem : top \in Nat /\ mem \in [0 .. top -> 0 .. 255] /\ mem[top] = 0

ASSUME LibraryAssumption ==
    /\ \A mem \in Memories : IsMemory(mem)
    /\ Fills \subseteq Int /\ Values \subseteq Ints /\ Bases \subseteq Int
    /\ \A line \in CommandLines : /\ line \in Seq(Int)
                                  /\ \A i \in DOMAIN line : line[i] # NUL
    /\ Kernels \subseteq Seq(0 .. 255)
    /\ Files \subseteq [name : Seq(1 .. 255), data : Seq(0 .. 255)]
    /\ Texts \subseteq Seq(Seq(0 .. 255)) /\ \A t \in Texts : \A i \in DOMAIN t : IsLetter(t[i])
    /\ \A a \in Addresses : a \in Nat /\ a \div 65536 < 65536
    /\ Chars \subseteq -128 .. 127

VARIABLE call

NoCall == [of |-> "nothing"]

-----------------------------------------------------------------------------
(* The calls.  Areas lie in memory.                                        *)

CallMemory ==
    \E mem \in Memories, c \in Fills :
        \E dst, src \in DOMAIN mem, n \in 0 .. Max(DOMAIN mem) + 1 :
            /\ {dst + n, src + n} \subseteq 0 .. Max(DOMAIN mem) + 1
            /\ call' = [of |-> "memory", mem |-> mem, dst |-> dst, src |-> src, n |-> n,
                        c |-> c]

CallNumber ==
    \E value \in Values, base \in Bases :
        call' = [of |-> "number", value |-> value, base |-> base]

CallLine == \E line \in CommandLines : call' = [of |-> "line", line |-> line]

\* The image may be read when only a beginning of it has been written.
CallImage ==
    \E kernel \in Kernels, files \in SeqOf(Files, 2) :
        /\ Packable(kernel, files)
        /\ \E cut \in 0 .. Len(pack_image(kernel, files)) :
             call' = [of |-> "image", kernel |-> kernel, files |-> files, cut |-> cut]

CallKernel ==
    \E n \in SyscallNum \cup {0, 9}, a1, a2, a3, result, junk \in Words :
        call' = [of |-> "kernel", n |-> n, args |-> <<a1, a2, a3>>, result |-> result,
                 junk |-> junk]

CallGate ==
    \E handler, default \in Addresses :
        call' = [of |-> "gate", handler |-> handler, default |-> default]

CallChar == \E c \in Chars : call' = [of |-> "char", c |-> c]

Init == call = NoCall

Next == /\ call = NoCall
        /\ CallMemory \/ CallNumber \/ CallLine \/ CallImage \/ CallKernel \/ CallGate \/ CallChar

Spec == Init /\ [][Next]_call

-----------------------------------------------------------------------------
(* Properties                                                              *)

Unchanged(mem, new, dst, n) == \A p \in DOMAIN mem \ (dst .. dst + n - 1) : new[p] = mem[p]

WritesAgree(mem, dst, src, n, c) ==
    LET copied == memcpy(mem, dst, src, n)
        filled == memset(mem, dst, c, n)
        text   == strncpy(mem, dst, src, n)
        source == CString(mem, src)
    IN  /\ Unchanged(mem, copied, dst, n) /\ Unchanged(mem, filled, dst, n)
        /\ Unchanged(mem, text, dst, n)
        /\ Apart(dst, src, n) => Bytes(copied, dst, n) = Bytes(mem, src, n)
        /\ Bytes(filled, dst, n) = [i \in 1 .. n |-> c % 256]
        /\ Apart(dst, src, n) =>
             Bytes(text, dst, n) =
                 [i \in 1 .. n |-> IF i <= Len(source) THEN source[i] ELSE 0]

ComparesAgree(mem, a, b, n) ==
    /\ strlen(mem, a) = Len(CString(mem, a))
    /\ Sign(memcmp(mem, a, b, n)) = Order(Bytes(mem, a, n), Bytes(mem, b, n))
    /\ Sign(strcmp(mem, a, b)) = Order(CString(mem, a), CString(mem, b))
    /\ Sign(strncmp(mem, a, b, n)) = Order(Upto(CString(mem, a), n), Upto(CString(mem, b), n))

NumberAgrees(value, base) ==
    LET radix == IF base \in 2 .. 36 THEN base ELSE 10
        s     == itoa(value, base)
        shown == ValueOf(s.digits, radix)
    IN  /\ IF radix = 10 THEN value = (IF s.negative THEN -shown ELSE shown)
                         ELSE ~ s.negative /\ shown = value % UIntSize
        /\ \A i \in DOMAIN s.digits : s.digits[i] < radix
        /\ s.digits[1] = 0 => value = 0
        /\ Len(s.digits) + (IF s.negative THEN 1 ELSE 0) <= IntBits

\* The functions of string.cpp do what libc's do: writes fill their area and touch nothing
\* else, strncpy leaves no old data behind a short string, comparisons order strings by
\* unsigned bytes though a char is signed, and itoa shows every int, the least one too, in
\* every base within the 33 bytes runtime.h asks the caller for.
StringsAgree ==
    /\ call.of = "memory" =>
         /\ WritesAgree(call.mem, call.dst, call.src, call.n, call.c)
         /\ ComparesAgree(call.mem, call.dst, call.src, call.n)
    /\ call.of = "number" => NumberAgrees(call.value, call.base)

\* However the blanks lie, and wherever the line ends, the shell's in-place cutting gives
\* the first word, the second word, and the rest of the line with its inner blanks.
TokensAreWords ==
    call.of = "line" => AreWords(call.line, Arguments(Append(call.line, NUL)))

Contents(kernel, files) ==
    << [name |-> KERNEL, content |-> Decoded(kernel)] >>
    \o [i \in DOMAIN files |-> [name |-> files[i].name, content |-> Decoded(files[i].data)]]

\* What a text may become when its bytes are cut: a beginning of it, with a U+FFFD behind
\* it when the cut is inside a letter.
IsCutOf(c, text) ==
    \/ IsPrefix(c, text)
    \/ c # <<>> /\ Last(c) = Replacement /\ IsPrefix(Front(c), text)

\* bridge.py reads from an image what pack_image.py has put in, and a text letter by
\* letter.  From an image of which only a beginning has been written it reads nothing at
\* all, or every name, with contents that may lack their ends, of which a letter may be
\* broken, but are never those of another file.
ImageArrives ==
    call.of = "image" =>
        LET image   == pack_image(call.kernel, call.files)
            entries == Entries(call.kernel, call.files)
            packed  == Contents(call.kernel, call.files)
            read    == parse_image(SubSeq(image, 1, call.cut))
        IN  /\ call.cut = Len(image) => ~ read.raised /\ read.files = packed
            /\ \A i \in DOMAIN packed : \A text \in Texts :
                 entries[i].data = FlattenSeq(text) => packed[i].content = text
            /\ ~ read.raised =>
                 /\ Len(read.files) = Len(packed)
                 /\ \A i \in DOMAIN packed :
                      /\ read.files[i].name = packed[i].name
                      /\ IsCutOf(read.files[i].content, packed[i].content)
            /\ read.raised => call.cut < DataOffset(Len(packed))

\* The segments of loader.asm and of gdt.cpp are the same flat ones.
SegmentsAreFlat ==
    /\ \A i \in DOMAIN gdt : BytesOf(gdt[i]) = gdt_start[i]
    /\ Segment(BytesOf(gdt[2])) = Flat(1) /\ Segment(BytesOf(gdt[3])) = Flat(0)

\* Every gate is present and leads to its stub in the code segment, with interrupts off,
\* and only that of the system call is open to every ring.
GatesLeadToStubs(handler, default) ==
    \A v \in 0 .. 255 :
        LET t == Target(idt(default, handler)[v]) IN
        /\ t.address = IF v = SYSCALL_VECTOR THEN handler ELSE default
        /\ t.ring = IF v = SYSCALL_VECTOR THEN 3 ELSE 0
        /\ t.present = 1 /\ t.type = 14
        /\ Segment(BytesOf(gdt[(t.selector \div 8) + 1])).code = 1

\* The registers and the stack of a program before the call.
Before0 == [r \in Registers |-> CASE r = "ebp" -> 11 [] r = "esi" -> 12 [] r = "edi" -> 13
                                  [] OTHER -> 14]
Stack0  == <<15, 16>>
Frame0  == <<"eflags", "cs", "eip">>

\* The compiler takes it that int 0x80 changes nothing but eax (sys_call declares no
\* more), and so it is: whatever the C++ code behind the stub does to the registers and
\* the arguments it may use, the dispatcher gets what the program has loaded, and the
\* program gets the result, its other registers and its stack.
RegistersAreKept(n, args, result, junk) ==
    LET regs  == sys_call(Before0, n, args[1], args[2], args[3])
        stack == Interrupt(Stack0, Frame0)
        end   == isr_syscall_stub(regs, stack, result, junk)
    IN  /\ DispatchArguments(AtDispatch(regs, stack)) = <<n>> \o args
        /\ end.regs = [regs EXCEPT !["eax"] = result]
        /\ end.frame = Frame0 /\ end.stack = Stack0

\* A system call gets through the tables to the dispatcher, with its number and arguments,
\* and back with the result and everything else as it was; and characters survive the
\* way through registers in both directions, whatever their sign.
SystemCallsPass ==
    /\ call.of = "kernel" => RegistersAreKept(call.n, call.args, call.result, call.junk)
    /\ call.of = "gate" => SegmentsAreFlat /\ GatesLeadToStubs(call.handler, call.default)
    /\ call.of = "char" => /\ putc_char(tbx_putc_word(call.c)) = call.c
                           /\ getc_char(getc_word(call.c)) = call.c
=============================================================================
