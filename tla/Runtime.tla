------------------------------- MODULE Runtime -------------------------------
(***************************************************************************)
(* The memory and string functions of the kernel (src/runtime/string.cpp). *)
(* Memory is a function from addresses to bytes; a char is signed, so the  *)
(* functions that compare have to read it as a byte.                       *)
(***************************************************************************)
EXTENDS Integers, Sequences, SequencesExt, FiniteSetsExt

CONSTANT IntBits   \* 32: the width of an int

ASSUME RuntimeAssumption == IntBits \in Nat /\ IntBits > 1

Sign(n) == IF n < 0 THEN -1 ELSE IF n > 0 THEN 1 ELSE 0

\* The string at p, without its NUL.
CString(mem, p) ==
    LET end == Min({q \in DOMAIN mem : q >= p /\ mem[q] = 0}) IN
    [i \in 1 .. end - p |-> mem[p + i - 1]]

-----------------------------------------------------------------------------
(* Memory                                                                  *)

\* Byte by byte from the first one on.
memcpy(mem, dst, src, n) ==
    FoldLeft(LAMBDA m, i : [m EXCEPT ![dst + i] = m[src + i]],
             mem, [i \in 1 .. n |-> i - 1])

memset(mem, dst, c, n) ==
    [p \in DOMAIN mem |-> IF p \in dst .. dst + n - 1 THEN c % 256 ELSE mem[p]]

\* The offsets below n at which two areas differ.
Differences(mem, a, b, n) == {i \in 0 .. n - 1 : mem[a + i] # mem[b + i]}

memcmp(mem, a, b, n) ==
    LET diff == Differences(mem, a, b, n) IN
    IF diff = {} THEN 0 ELSE mem[a + Min(diff)] - mem[b + Min(diff)]

-----------------------------------------------------------------------------
(* Strings                                                                 *)

strlen(mem, s) == Min({i \in 0 .. Max(DOMAIN mem) - s : mem[s + i] = 0})

\* Where the loops that compare stop: at the first difference or at the end of a.  Both
\* strings have a NUL, so that they stop within memory.
Stops(mem, a, b, n) ==
    {i \in 0 .. n - 1 : /\ {a + i, b + i} \subseteq DOMAIN mem
                        /\ mem[a + i] # mem[b + i] \/ mem[a + i] = 0}

strcmp(mem, a, b) ==
    LET i == Min(Stops(mem, a, b, strlen(mem, a) + 1)) IN mem[a + i] - mem[b + i]

strncmp(mem, a, b, n) ==
    LET stops == Stops(mem, a, b, Min({n, strlen(mem, a) + 1})) IN
    IF stops = {} THEN 0 ELSE mem[a + Min(stops)] - mem[b + Min(stops)]

\* A mistake the checks rule out: the end is written once, and the rest keeps old data.
strncpy_once(mem, dst, src, n) ==
    LET l == Min({n, strlen(mem, src)}) IN
    [p \in DOMAIN mem |-> IF p \in dst .. dst + l - 1 THEN mem[src + (p - dst)]
                          ELSE IF p = dst + l /\ l < n THEN 0 ELSE mem[p]]

\* The two areas do not overlap.
strncpy(mem, dst, src, n) ==
    LET l == Min({n, strlen(mem, src)}) IN
    [p \in DOMAIN mem |-> IF p \in dst .. dst + l - 1 THEN mem[src + (p - dst)]
                          ELSE IF p \in dst + l .. dst + n - 1 THEN 0 ELSE mem[p]]

-----------------------------------------------------------------------------
(* Numbers.  A digit is its value; "-" is the sign.                        *)

\* 2 ^ n; the provers know no powers.
PowerOf2[n \in 0 .. IntBits] == IF n = 0 THEN 1 ELSE 2 * PowerOf2[n - 1]

UIntSize == PowerOf2[IntBits]

Ints == -PowerOf2[IntBits - 1] .. PowerOf2[IntBits - 1] - 1

\* The digits of v, the last one first, as the loop finds them; none for 0.
DigitsOf(base) ==
    LET d[v \in 0 .. UIntSize - 1] ==
          IF v = 0 THEN <<>> ELSE <<v % base>> \o d[v \div base]
    IN  d

\* What itoa puts into buf before the NUL: [negative, digits].
itoa(value, base) ==
    LET radix    == IF base < 2 \/ base > 36 THEN 10 ELSE base
        negative == value < 0 /\ radix = 10
        v        == IF negative THEN (-(value + 1)) + 1 ELSE value % UIntSize
    IN  [negative |-> negative,
         digits   |-> IF v = 0 THEN <<0>> ELSE Reverse(DigitsOf(radix)[v])]

-----------------------------------------------------------------------------
(* What these functions are meant to do                                    *)

\* String x comes before string y, in the order of unsigned bytes.
Before(x, y) ==
    \E k \in 0 .. Len(x) :
        /\ k < Len(y)
        /\ SubSeq(x, 1, k) = SubSeq(y, 1, k)
        /\ k < Len(x) => x[k + 1] < y[k + 1]

Order(x, y) == IF x = y THEN 0 ELSE IF Before(x, y) THEN -1 ELSE 1

\* The first n characters of a string.
Upto(s, n) == SubSeq(s, 1, Min({n, Len(s)}))

Bytes(mem, p, n) == [i \in 1 .. n |-> mem[p + i - 1]]

Apart(dst, src, n) == dst + n <= src \/ src + n <= dst

ValueOf(digits, base) == FoldLeft(LAMBDA v, d : v * base + d, 0, digits)
=============================================================================
