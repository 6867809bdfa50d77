------------------------------ MODULE Induction ------------------------------
(***************************************************************************)
(* Induction over the naturals, and what a loop over a sequence, written   *)
(* as FoldLeft, does turn by turn; that a function defined by recursion    *)
(* exists.  What is shown by induction is a set of numbers, and the body   *)
(* of a loop or of a recursion a function.                                 *)
(***************************************************************************)
EXTENDS Integers, Sequences, SequencesExt, FiniteSetsExt, FiniteSetTheorems,
        SequenceTheorems, TLAPS

\* A set of naturals that is not empty has a least element.
LEMMA HasLeast ==
    ASSUME NEW T, T \subseteq Nat, T # {}
    PROVE  \E x \in T : \A y \in T : x <= y
<1> DEFINE Below == {0 .. n : n \in T}
<1>1. Below \subseteq FiniteSubsetsOf(Nat) /\ Below # {}
  <2>1. ASSUME NEW n \in T PROVE 0 .. n \in SUBSET Nat /\ IsFiniteSet(0 .. n)
    BY FS_Interval
  <2>2. Below # {}
    OBVIOUS
  <2> QED  BY <2>1, <2>2 DEF FiniteSubsetsOf
<1>2. PICK b \in Below : \A c \in Below : ~ (<<c, b>> \in StrictSubsetOrdering(Nat))
  <2> HIDE DEF Below
  <2> QED  BY <1>1, FS_StrictSubsetOrderingWellFounded, WFMin
<1>3. PICK x \in T : b = 0 .. x
  BY <1>2
<1>4. ASSUME NEW y \in T PROVE x <= y
  <2>1. <<0 .. y, 0 .. x>> \notin StrictSubsetOrdering(Nat)
    BY <1>2, <1>3
  <2>2. x \in 0 .. x /\ (x \in 0 .. y => x <= y)
    BY <1>3
  <2>3. CASE ~ (x <= y)
    BY <2>1, <2>2, <2>3, <1>3 DEF StrictSubsetOrdering
  <2> QED  BY <2>3
<1> QED  BY <1>3, <1>4

\* What holds of 0, and of n + 1 when it holds of n, holds of every natural number.
LEMMA NatInduct ==
    ASSUME NEW T, 0 \in T, \A n \in Nat : n \in T => n + 1 \in T
    PROVE  \A n \in Nat : n \in T
<1> DEFINE U == {n \in Nat : n \notin T}
<1>1. CASE U # {}
  <2>1. PICK x \in U : \A y \in U : x <= y
    <3> HIDE DEF U
    <3>1. U \subseteq Nat
      BY DEF U
    <3> QED  BY <1>1, <3>1, HasLeast
  <2>2. x \in Nat /\ x # 0 /\ x - 1 \in Nat /\ x - 1 \notin U
    BY <2>1
  <2>3. x - 1 \in T /\ (x - 1) + 1 = x
    BY <2>2
  <2> QED  BY <2>1, <2>2, <2>3
<1> QED  BY <1>1

\* The same up to a bound.
LEMMA UpTo ==
    ASSUME NEW n \in Nat, NEW T, 0 \in T, \A k \in 1 .. n : k - 1 \in T => k \in T
    PROVE  \A k \in 0 .. n : k \in T
<1> DEFINE U == {k \in Nat : k <= n => k \in T}
<1>1. \A k \in Nat : k \in U
  <2>1. 0 \in U
    OBVIOUS
  <2>2. ASSUME NEW k \in Nat, k \in U PROVE k + 1 \in U
    <3>1. CASE k + 1 <= n
      <4>1. k + 1 \in 1 .. n /\ (k + 1) - 1 = k /\ k \in T
        BY <2>2, <3>1
      <4> QED  BY <4>1
    <3> QED  BY <3>1, <2>2
  <2> HIDE DEF U
  <2> QED  BY <2>1, <2>2, NatInduct
<1> QED  BY <1>1

\* The greatest element of an interval from 1 on that has one.
LEMMA MaxOfBeginning ==
    ASSUME NEW k \in Nat, k > 0
    PROVE  Max(1 .. k) = k /\ (1 .. k) \ {k} = 1 .. k - 1
<1>1. k \in 1 .. k /\ \A y \in 1 .. k : k >= y
  OBVIOUS
<1>2. \A x \in 1 .. k : (\A y \in 1 .. k : x >= y) => x = k
  OBVIOUS
<1> QED  BY <1>1, <1>2 DEF Max

-----------------------------------------------------------------------------
(* Loops                                                                   *)

\* it is what FoldLeft computes with: for a set s of turns, the value after these turns.
Iterates(it, n, base, body) ==
    it = [s \in SUBSET (1 .. n) |->
            IF s = {} THEN base ELSE body[<<Max(s), it[s \ {Max(s)}]>>]]

\* A set within the first k + 1 turns has the last of them as its greatest element, or is
\* within the first k.
LEMMA Turns ==
    ASSUME NEW k \in Nat, NEW s \in SUBSET (1 .. k + 1)
    PROVE  IF k + 1 \in s THEN Max(s) = k + 1 /\ s # {} /\ s \ {Max(s)} \in SUBSET (1 .. k)
           ELSE s \in SUBSET (1 .. k)
<1>1. CASE k + 1 \in s
  <2>1. \A y \in s : k + 1 >= y /\ y \in Int
    OBVIOUS
  <2>2. \A x \in s : (\A y \in s : x >= y) => x = k + 1
    BY <1>1, <2>1
  <2>3. Max(s) = k + 1
    BY <1>1, <2>1, <2>2 DEF Max
  <2> QED  BY <1>1, <2>3
<1>2. CASE k + 1 \notin s
  BY <1>2
<1> QED  BY <1>1, <1>2

\* The last of some turns is one of them.
LEMMA LastTurn ==
    ASSUME NEW n \in Nat, NEW s \in SUBSET (1 .. n), s # {}
    PROVE  Max(s) \in s /\ s \ {Max(s)} \in SUBSET (1 .. n)
<1> DEFINE Among(k) == \A r \in SUBSET (1 .. k) : r # {} => Max(r) \in r
           T == {k \in 0 .. n : Among(k)}
<1>1. 0 \in T
  <2>1. \A r \in SUBSET (1 .. 0) : r = {}
    OBVIOUS
  <2>2. Among(0)
    BY <2>1
  <2> HIDE DEF Among
  <2> QED  BY <2>2
<1>2. ASSUME NEW k \in 1 .. n, k - 1 \in T PROVE k \in T
  <2>1. PICK j \in Nat : j = k - 1 /\ j + 1 = k
    OBVIOUS
  <2>2. ASSUME NEW r \in SUBSET (1 .. k), r # {} PROVE Max(r) \in r
    <3>1. IF k \in r THEN Max(r) = k ELSE r \in SUBSET (1 .. j)
      BY <2>1, Turns
    <3>2. Among(j)
      BY <1>2, <2>1
    <3> QED  BY <2>2, <3>1, <3>2
  <2>3. Among(k)
    BY <2>2
  <2> QED  BY <2>3
<1>3. n \in T
  <2> HIDE DEF T
  <2> QED  BY <1>1, <1>2, UpTo
<1> QED  BY <1>3

\* A loop whose body keeps to a set of values is defined, and its values are in the set.
LEMMA LoopExists ==
    ASSUME NEW n \in Nat, NEW S, NEW base \in S, NEW body \in [(1 .. n) \X S -> S]
    PROVE  \E it \in [SUBSET (1 .. n) -> S] : Iterates(it, n, base, body)
<1> DEFINE Fits(it, k) ==
             \A s \in SUBSET (1 .. k) :
                it[s] = IF s = {} THEN base ELSE body[<<Max(s), it[s \ {Max(s)}]>>]
           Defined(k) == \E it \in [SUBSET (1 .. k) -> S] : Fits(it, k)
           T == {k \in 0 .. n : Defined(k)}
<1>1. 0 \in T
  <2> DEFINE it == [s \in SUBSET (1 .. 0) |-> base]
  <2>1. it \in [SUBSET (1 .. 0) -> S] /\ \A s \in SUBSET (1 .. 0) : s = {}
    OBVIOUS
  <2>2. Fits(it, 0)
    BY <2>1
  <2>3. Defined(0)
    <3> HIDE DEF it, Fits
    <3> QED  BY <2>1, <2>2
  <2> HIDE DEF Defined
  <2> QED  BY <2>3
<1>2. ASSUME NEW k \in 1 .. n, k - 1 \in T PROVE k \in T
  <2>1. PICK j \in Nat : j = k - 1 /\ j + 1 = k
    OBVIOUS
  <2>2. PICK it \in [SUBSET (1 .. j) -> S] : Fits(it, j)
    BY <1>2, <2>1
  <2> DEFINE new == [s \in SUBSET (1 .. k) |->
                       IF k \in s THEN body[<<k, it[s \ {Max(s)}]>>] ELSE it[s]]
  <2>3. ASSUME NEW s \in SUBSET (1 .. k)
        PROVE  IF k \in s THEN Max(s) = k /\ s # {} /\ s \ {Max(s)} \in SUBSET (1 .. j)
               ELSE s \in SUBSET (1 .. j)
    BY <2>1, Turns
  <2>4. new \in [SUBSET (1 .. k) -> S]
    <3> SUFFICES ASSUME NEW s \in SUBSET (1 .. k) PROVE new[s] \in S
      OBVIOUS
    <3>1. CASE k \in s
      <4>1. it[s \ {Max(s)}] \in S /\ k \in 1 .. n
        BY <2>3, <3>1
      <4> QED  BY <3>1, <4>1
    <3>2. CASE k \notin s
      BY <2>3, <3>2
    <3> QED  BY <3>1, <3>2
  <2>5. ASSUME NEW s \in SUBSET (1 .. k)
        PROVE  new[s] = IF s = {} THEN base ELSE body[<<Max(s), new[s \ {Max(s)}]>>]
    <3>1. CASE k \in s
      <4> DEFINE r == s \ {Max(s)}
      <4>1. Max(s) = k /\ s # {} /\ r \in SUBSET (1 .. j)
        BY <2>3, <3>1
      <4> HIDE DEF r
      <4>2. r \in SUBSET (1 .. k) /\ k \notin r
        BY <4>1, <2>1
      <4>3. new[r] = it[r]
        BY <4>2
      <4>4. new[s] = body[<<k, it[r]>>]
        BY <3>1 DEF r
      <4> HIDE DEF new
      <4> QED  BY <4>1, <4>3, <4>4 DEF r
    <3>2. CASE k \notin s
      <4>1. s \in SUBSET (1 .. j) /\ s \ {Max(s)} \in SUBSET (1 .. j)
        BY <2>3, <3>2
      <4>2. s \ {Max(s)} \in SUBSET (1 .. k) /\ k \notin s \ {Max(s)}
        BY <3>2
      <4>3. new[s] = it[s] /\ new[s \ {Max(s)}] = it[s \ {Max(s)}]
        BY <4>2, <3>2
      <4> HIDE DEF new
      <4> QED  BY <4>1, <4>3, <2>2
    <3> QED  BY <3>1, <3>2
  <2>6. Defined(k)
    <3>1. Fits(new, k)
      <4> HIDE DEF new
      <4> QED  BY <2>5
    <3> HIDE DEF new, Fits
    <3> QED  BY <2>4, <3>1
  <2> HIDE DEF Defined
  <2> QED  BY <2>6
<1>3. n \in T
  <2> HIDE DEF T
  <2> QED  BY <1>1, <1>2, UpTo
<1>4. PICK it \in [SUBSET (1 .. n) -> S] : Fits(it, n)
  BY <1>3
<1>5. it = [s \in SUBSET (1 .. n) |-> it[s]]
  OBVIOUS
<1> QED  BY <1>4, <1>5 DEF Iterates

\* g is what a fold computes with, as long as its values are in S.
Folds(g, n, S, base, body) ==
    /\ g[{}] = base
    /\ \A t \in SUBSET (1 .. n) :
          t # {} /\ g[t \ {Max(t)}] \in S => g[t] = body[<<Max(t), g[t \ {Max(t)}]>>]

\* run holds the values of a loop after each of its turns.
Runs(run, n, base, body, last) ==
    /\ run[0] = base /\ run[n] = last
    /\ \A k \in 1 .. n : run[k] = body[<<k, run[k - 1]>>]

\* What a fold computes with, turn by turn.
LEMMA FoldRuns ==
    ASSUME NEW n \in Nat, NEW S, NEW base \in S, NEW body \in [(1 .. n) \X S -> S], NEW g,
           Folds(g, n, S, base, body)
    PROVE  \E run \in [0 .. n -> S] : Runs(run, n, base, body, g[1 .. n])
<1> DEFINE run == [k \in 0 .. n |-> g[1 .. k]]
           T   == {k \in 0 .. n : /\ run[k] \in S
                                  /\ k > 0 => run[k] = body[<<k, run[k - 1]>>]}
<1>1. run[0] = base /\ 0 \in T
  <2>1. 1 .. 0 = {} /\ 0 \in 0 .. n
    OBVIOUS
  <2> QED  BY <2>1 DEF Folds
<1>2. ASSUME NEW k \in 1 .. n, k - 1 \in T PROVE k \in T
  <2>1. k \in Nat /\ k > 0 /\ k \in 0 .. n /\ k - 1 \in 0 .. n
    OBVIOUS
  <2>2. Max(1 .. k) = k /\ (1 .. k) \ {k} = 1 .. k - 1
    BY <2>1, MaxOfBeginning
  <2>3. 1 .. k \in SUBSET (1 .. n) /\ 1 .. k # {}
    <3>1. \A i \in 1 .. k : i \in 1 .. n
      BY <2>1
    <3>2. k \in 1 .. k
      BY <2>1
    <3> QED  BY <3>1, <3>2
  <2>4. g[1 .. k - 1] \in S
    BY <1>2, <2>1
  <2>5. g[1 .. k] = body[<<k, g[1 .. k - 1]>>]
    BY <2>2, <2>3, <2>4 DEF Folds
  <2>6. body[<<k, g[1 .. k - 1]>>] \in S
    BY <2>4
  <2> QED  BY <2>1, <2>5, <2>6
<1>3. \A k \in 0 .. n : k \in T
  <2> HIDE DEF T
  <2> QED  BY <1>1, <1>2, UpTo
<1>4. run \in [0 .. n -> S] /\ run[n] = g[1 .. n]
  <2>1. n \in 0 .. n
    OBVIOUS
  <2>2. ASSUME NEW k \in 0 .. n PROVE run[k] \in S
    <3>1. k \in T
      BY <1>3
    <3> HIDE DEF run
    <3> QED  BY <3>1
  <2>3. run = [k \in 0 .. n |-> run[k]]
    OBVIOUS
  <2>4. run \in [0 .. n -> S]
    <3> HIDE DEF run
    <3> QED  BY <2>2, <2>3
  <2> QED  BY <2>1, <2>4
<1>5. \A k \in 1 .. n : run[k] = body[<<k, run[k - 1]>>]
  BY <1>3
<1> HIDE DEF run
<1> QED  BY <1>1, <1>4, <1>5 DEF Runs

-----------------------------------------------------------------------------
(* Recursion                                                               *)

\* f is defined by recursion: at 0, and at k by its value at a lower number.
Recurs(f, n, first, down, body) ==
    f[0] = first /\ \A k \in 1 .. n : f[k] = body[<<k, f[down[k]]>>]

\* A recursion over the naturals up to n that keeps to a set of values has a solution.
LEMMA RecursionExists ==
    ASSUME NEW n \in Nat, NEW V, NEW first \in V, NEW body \in [(1 .. n) \X V -> V],
           NEW down, \A k \in 1 .. n : down[k] \in 0 .. k - 1
    PROVE  \E f \in [0 .. n -> V] : Recurs(f, n, first, down, body)
<1> DEFINE Defined(k) == \E f \in [0 .. k -> V] : Recurs(f, k, first, down, body)
           T == {k \in 0 .. n : Defined(k)}
<1>1. 0 \in T
  <2> DEFINE f == [k \in 0 .. 0 |-> first]
  <2>1. f \in [0 .. 0 -> V] /\ f[0] = first /\ 1 .. 0 = {}
    OBVIOUS
  <2>2. Recurs(f, 0, first, down, body)
    BY <2>1 DEF Recurs
  <2>3. Defined(0)
    <3> HIDE DEF f
    <3> QED  BY <2>1, <2>2
  <2> HIDE DEF Defined
  <2> QED  BY <2>3
<1>2. ASSUME NEW k \in 1 .. n, k - 1 \in T PROVE k \in T
  <2>1. PICK j \in Nat : j = k - 1 /\ j + 1 = k
    OBVIOUS
  <2>2. PICK f \in [0 .. j -> V] : Recurs(f, j, first, down, body)
    BY <1>2, <2>1
  <2>3. PICK q : q = down[k]
    OBVIOUS
  <2>4. q \in 0 .. j
    BY <2>1, <2>3
  <2> DEFINE g == [i \in 0 .. k |-> IF i = k THEN body[<<k, f[q]>>] ELSE f[i]]
  <2>5. g \in [0 .. k -> V]
    <3>1. f[q] \in V
      BY <2>4
    <3>2. body[<<k, f[q]>>] \in V
      BY <3>1
    <3>3. \A i \in 0 .. k : i = k \/ f[i] \in V
      BY <2>1
    <3> QED  BY <3>2, <3>3
  <2>6. \A i \in 0 .. j : g[i] = f[i]
    BY <2>1
  <2>7. g[0] = first
    BY <2>2, <2>6 DEF Recurs
  <2>8. ASSUME NEW i \in 1 .. k PROVE g[i] = body[<<i, g[down[i]]>>]
    <3>1. CASE i = k
      <4>1. g[i] = body[<<k, f[q]>>]
        BY <3>1
      <4>2. g[down[i]] = f[q]
        BY <2>3, <2>4, <2>6, <3>1
      <4> HIDE DEF g
      <4> QED  BY <3>1, <4>1, <4>2
    <3>2. CASE i # k
      <4>1. i \in 1 .. j /\ i \in 0 .. j
        BY <2>1, <3>2
      <4>2. down[i] \in 0 .. i - 1
        <5>1. i \in 1 .. n
          BY <2>1
        <5> QED  BY <5>1
      <4>3. down[i] \in 0 .. j
        BY <4>1, <4>2
      <4>4. g[i] = f[i] /\ g[down[i]] = f[down[i]]
        BY <2>6, <4>1, <4>3
      <4> HIDE DEF g
      <4> QED  BY <2>2, <4>1, <4>4 DEF Recurs
    <3> QED  BY <3>1, <3>2
  <2>9. Defined(k)
    <3> HIDE DEF g
    <3>1. Recurs(g, k, first, down, body)
      BY <2>7, <2>8 DEF Recurs
    <3> QED  BY <2>5, <3>1
  <2> HIDE DEF Defined
  <2> QED  BY <2>9
<1>3. n \in T
  <2> HIDE DEF T
  <2> QED  BY <1>1, <1>2, UpTo
<1> QED  BY <1>3

-----------------------------------------------------------------------------
(* Pieces of sequences                                                     *)

\* The least element of a set of naturals.
LEMMA MinIs ==
    ASSUME NEW T, T \subseteq Nat, T # {}
    PROVE  Min(T) \in T /\ \A x \in T : Min(T) <= x
  BY HasLeast DEF Min

\* The first of some positions, which is at or before n.
LEMMA First ==
    ASSUME NEW T, NEW p \in Nat, NEW n \in Nat, T \subseteq p .. n, n \in T
    PROVE  /\ Min(T) \in T /\ Min(T) \in p .. n
           /\ \A x \in p .. Min(T) - 1 : x \notin T
<1>1. Min(T) \in T /\ \A x \in T : Min(T) <= x
  <2>1. T \subseteq Nat /\ T # {}
    OBVIOUS
  <2> QED  BY <2>1, MinIs
<1>2. PICK m : m = Min(T)
  OBVIOUS
<1>3. m \in T /\ m \in p .. n /\ \A x \in T : m <= x
  BY <1>1, <1>2
<1>4. ASSUME NEW x \in p .. m - 1 PROVE x \notin T
  BY <1>3
<1> QED  BY <1>2, <1>3, <1>4

\* A piece of a sequence.
LEMMA Piece ==
    ASSUME NEW S, NEW s \in Seq(S), NEW a \in Nat, NEW b \in Nat, a >= 1, b <= Len(s)
    PROVE  /\ SubSeq(s, a, b) \in Seq(S)
           /\ Len(SubSeq(s, a, b)) = IF a <= b THEN b - a + 1 ELSE 0
           /\ \A i \in 1 .. b - a + 1 : SubSeq(s, a, b)[i] = s[a + i - 1]
<1>1. Len(s) \in Nat
  BY LenProperties
<1>2. \A i \in a .. b : s[i] \in S
  BY <1>1, ElementOfSeq
<1>3. a \in Int /\ b \in Int
  OBVIOUS
<1> QED  BY <1>2, <1>3, SubSeqProperties

\* Sequences that agree from a to b have the same piece there.
LEMMA SamePiece ==
    ASSUME NEW S, NEW s \in Seq(S), NEW t \in Seq(S), NEW a \in Nat, NEW b \in Nat,
           a >= 1, b <= Len(s), b <= Len(t), \A i \in a .. b : s[i] = t[i]
    PROVE  SubSeq(s, a, b) = SubSeq(t, a, b)
<1> DEFINE u == SubSeq(s, a, b)
           v == SubSeq(t, a, b)
<1>1. /\ u \in Seq(S) /\ Len(u) = IF a <= b THEN b - a + 1 ELSE 0
      /\ \A i \in 1 .. b - a + 1 : u[i] = s[a + i - 1]
  BY Piece
<1>2. /\ v \in Seq(S) /\ Len(v) = IF a <= b THEN b - a + 1 ELSE 0
      /\ \A i \in 1 .. b - a + 1 : v[i] = t[a + i - 1]
  BY Piece
<1> HIDE DEF u, v
<1>3. \A i \in 1 .. Len(u) : u[i] = v[i]
  <2> SUFFICES ASSUME NEW i \in 1 .. Len(u) PROVE u[i] = v[i]
    OBVIOUS
  <2>1. i \in 1 .. b - a + 1 /\ a + i - 1 \in a .. b
    BY <1>1
  <2> QED  BY <1>1, <1>2, <2>1
<1>4. u = v
  BY <1>1, <1>2, <1>3, SeqEqual
<1> QED  BY <1>4 DEF u, v

\* FlattenSeq puts one sequence after the other.
LEMMA FlattenRuns ==
    ASSUME NEW S, NEW ss \in Seq(Seq(S)), Len(ss) > 0
    PROVE  \E run \in [0 .. Len(ss) -> Seq(S)] :
              /\ run[0] = <<>> /\ FlattenSeq(ss) = run[Len(ss)]
              /\ \A k \in 1 .. Len(ss) : run[k] = run[k - 1] \o ss[k]
<1> DEFINE n == Len(ss)
           Set == Seq(S)
           body == [x \in (1 .. n) \X Set |-> x[2] \o ss[x[1]]]
<1>1. n \in Nat /\ n >= 1 /\ n # 0 /\ \A i \in 1 .. n : ss[i] \in Set
  BY LenProperties, ElementOfSeq
<1>2. body \in [(1 .. n) \X Set -> Set] /\ <<>> \in Set
  <2>1. ASSUME NEW x \in Set, NEW y \in Set PROVE x \o y \in Set
    BY ConcatProperties
  <2> HIDE DEF Set
  <2>2. <<>> \in Set
    BY EmptySeq DEF Set
  <2> QED  BY <1>1, <2>1, <2>2
<1>3. PICK it \in [SUBSET (1 .. n) -> Set] : Iterates(it, n, <<>>, body)
  <2> HIDE DEF Set, body, n
  <2> QED  BY <1>1, <1>2, LoopExists
<1> DEFINE run == [k \in 0 .. n |-> it[1 .. k]]
<1>4. run \in [0 .. n -> Set]
  <2>1. \A k \in 0 .. n : 1 .. k \in SUBSET (1 .. n)
    BY <1>1
  <2> HIDE DEF Set, n
  <2> QED  BY <1>3, <2>1
<1>5. run[0] = <<>>
  <2>1. 1 .. 0 = {} /\ {} \in SUBSET (1 .. n) /\ 0 \in 0 .. n
    BY <1>1
  <2> HIDE DEF Set, body, n
  <2> QED  BY <1>3, <2>1 DEF Iterates
<1>6. ASSUME NEW k \in 1 .. n PROVE run[k] = run[k - 1] \o ss[k]
  <2>1. k \in Nat /\ k > 0 /\ k \in 0 .. n /\ k - 1 \in 0 .. n
    BY <1>1
  <2>2. Max(1 .. k) = k /\ (1 .. k) \ {k} = 1 .. k - 1
    BY <2>1, MaxOfBeginning
  <2>3. 1 .. k \in SUBSET (1 .. n) /\ 1 .. k # {} /\ 1 .. k - 1 \in SUBSET (1 .. n)
    <3> HIDE DEF n
    <3>1. k \in 1 .. k
      BY <2>1
    <3>2. \A y \in 1 .. k : y \in 1 .. n
      BY <1>1, <2>1
    <3>3. \A y \in 1 .. k - 1 : y \in 1 .. n
      BY <1>1, <2>1
    <3> QED  BY <3>1, <3>2, <3>3
  <2> HIDE DEF Set, n
  <2>4. it[1 .. k] = body[<<k, it[1 .. k - 1]>>]
    <3> HIDE DEF body
    <3> QED  BY <1>3, <2>2, <2>3 DEF Iterates
  <2>5. it[1 .. k - 1] \in Set
    BY <2>3
  <2> QED  BY <2>1, <2>4, <2>5
<1> HIDE DEF run
<1>10. run[1] = ss[1]
  <2>1. 1 \in 1 .. n /\ 1 - 1 = 0
    BY <1>1
  <2>2. run[1] = <<>> \o ss[1] /\ ss[1] \in Seq(S)
    <3> HIDE DEF n
    <3> QED  BY <1>1, <1>5, <1>6, <2>1
  <2> QED  BY <2>2, ConcatEmptySeq
<1> DEFINE Eq(f) == f = [i \in 1 .. n |-> IF i = 1 THEN ss[i] ELSE f[i - 1] \o ss[i]]
           fl == CHOOSE f : Eq(f)
<1>7. FlattenSeq(ss) = fl[n]
  BY <1>1 DEF FlattenSeq
<1>8. Eq(fl)
  <2> DEFINE f == [i \in 1 .. n |-> run[i]]
  <2>1. ASSUME NEW i \in 1 .. n PROVE f[i] = IF i = 1 THEN ss[i] ELSE f[i - 1] \o ss[i]
    <3>1. CASE i = 1
      BY <1>10, <3>1
    <3>2. CASE i # 1
      <4>1. i - 1 \in 1 .. n
        BY <1>1, <3>2
      <4> QED  BY <1>6, <3>2, <4>1
    <3> QED  BY <3>1, <3>2
  <2>2. Eq(f)
    <3> HIDE DEF n
    <3>1. f = [i \in 1 .. n |-> f[i]]
      OBVIOUS
    <3> HIDE DEF f
    <3> QED  BY <2>1, <3>1
  <2> HIDE DEF Eq, f
  <2> QED  BY <2>2
<1> HIDE DEF fl
<1>9. n \in {k \in 1 .. n : fl[k] = run[k]}
  <2> DEFINE T == {k \in 0 .. n : k > 0 => fl[k] = run[k]}
  <2>1. 0 \in T
    BY <1>1
  <2>2. ASSUME NEW k \in 1 .. n, k - 1 \in T PROVE k \in T
    <3>1. k \in 0 .. n /\ fl[k] = IF k = 1 THEN ss[k] ELSE fl[k - 1] \o ss[k]
      <4>1. k \in 0 .. n
        BY <1>1
      <4> HIDE DEF n
      <4> QED  BY <1>8, <4>1
    <3>2. CASE k = 1
      BY <1>10, <3>1, <3>2
    <3>3. CASE k # 1
      <4>1. k - 1 > 0
        BY <1>1, <3>3
      <4> QED  BY <1>6, <2>2, <3>1, <3>3, <4>1
    <3> QED  BY <3>2, <3>3
  <2>3. \A k \in 0 .. n : k \in T
    <3> HIDE DEF T, n
    <3> QED  BY <1>1, <2>1, <2>2, UpTo
  <2> QED  BY <1>1, <2>3
<1> QED  BY <1>4, <1>5, <1>6, <1>7, <1>9

\* t is s with x behind it.
OneLonger(t, s, x) ==
    Len(t) = Len(s) + 1 /\ (\A i \in 1 .. Len(s) : t[i] = s[i]) /\ t[Len(s) + 1] = x

\* One sequence more is put behind what the others make.
LEMMA FlattenMore ==
    ASSUME NEW S, NEW ss \in Seq(Seq(S)), NEW tt \in Seq(Seq(S)), NEW x, OneLonger(tt, ss, x)
    PROVE  FlattenSeq(ss) \in Seq(S) /\ FlattenSeq(tt) = FlattenSeq(ss) \o x
<1> DEFINE n == Len(ss)
<1>1. /\ n \in Nat /\ n + 1 \in 1 .. n + 1
      /\ Len(tt) = n + 1 /\ (\A i \in 1 .. n : tt[i] = ss[i]) /\ tt[n + 1] = x
  BY LenProperties DEF OneLonger
<1>2. PICK r \in [0 .. n + 1 -> Seq(S)] :
        /\ r[0] = <<>> /\ FlattenSeq(tt) = r[n + 1]
        /\ \A k \in 1 .. n + 1 : r[k] = r[k - 1] \o tt[k]
  <2>1. Len(tt) > 0 /\ Len(tt) = n + 1
    BY <1>1
  <2>2. PICK r \in [0 .. Len(tt) -> Seq(S)] :
          /\ r[0] = <<>> /\ FlattenSeq(tt) = r[Len(tt)]
          /\ \A k \in 1 .. Len(tt) : r[k] = r[k - 1] \o tt[k]
    BY <2>1, FlattenRuns
  <2> QED  BY <2>1, <2>2
<1>6. n = Len(ss)
  OBVIOUS
<1> HIDE DEF n
<1>3. FlattenSeq(tt) = r[n] \o x /\ r[n] \in Seq(S)
  <2>1. n \in Nat /\ n + 1 \in 1 .. n + 1 /\ tt[n + 1] = x
    BY <1>1
  <2>2. (n + 1) - 1 = n /\ n \in 0 .. n + 1
    BY <2>1
  <2> QED  BY <1>2, <2>1, <2>2
<1>4. CASE n = 0
  <2>1. ss = <<>>
    BY <1>4, <1>6, EmptySeq
  <2>2. FlattenSeq(ss) = <<>>
    BY <1>4, <1>6, <2>1 DEF FlattenSeq
  <2> QED  BY <1>2, <1>3, <1>4, <2>2
<1>5. CASE n # 0
  <2>1. PICK q \in [0 .. n -> Seq(S)] :
          /\ q[0] = <<>> /\ FlattenSeq(ss) = q[n]
          /\ \A k \in 1 .. n : q[k] = q[k - 1] \o ss[k]
    <3>1. Len(ss) > 0
      BY <1>1, <1>5, <1>6
    <3>2. PICK q \in [0 .. Len(ss) -> Seq(S)] :
            /\ q[0] = <<>> /\ FlattenSeq(ss) = q[Len(ss)]
            /\ \A k \in 1 .. Len(ss) : q[k] = q[k - 1] \o ss[k]
      BY <3>1, FlattenRuns
    <3> QED  BY <1>6, <3>2
  <2> DEFINE T == {k \in 0 .. n : q[k] = r[k]}
  <2>2. 0 \in T
    BY <1>1, <1>2, <2>1
  <2>3. ASSUME NEW k \in 1 .. n, k - 1 \in T PROVE k \in T
    <3>1. n \in Nat
      BY <1>1
    <3>2. k \in 0 .. n /\ k \in 1 .. n + 1
      BY <3>1
    <3>3. tt[k] = ss[k] /\ q[k - 1] = r[k - 1]
      BY <1>1, <2>3
    <3> QED  BY <1>2, <2>1, <3>2, <3>3
  <2>4. n \in T
    <3> HIDE DEF T
    <3>1. n \in 0 .. n
      BY <1>1
    <3> QED  BY <1>1, <2>2, <2>3, <3>1, UpTo
  <2> QED  BY <1>3, <2>1, <2>4
<1> QED  BY <1>4, <1>5

\* Two sequences one after the other.
LEMMA After ==
    ASSUME NEW S, NEW s \in Seq(S), NEW t \in Seq(S), NEW u, u = s \o t,
           NEW p, p = Len(s), NEW q, q = Len(t)
    PROVE  /\ u \in Seq(S) /\ Len(u) = p + q /\ p \in Nat /\ q \in Nat
           /\ \A j \in 1 .. p : u[j] = s[j]
           /\ \A j \in 1 .. q : u[p + j] = t[j]
<1>1. p \in Nat /\ q \in Nat
  BY LenProperties
<1>2. u \in Seq(S) /\ Len(u) = p + q
  BY ConcatProperties
<1>3. \A i \in 1 .. p + q : u[i] = IF i <= p THEN s[i] ELSE t[i - p]
  BY ConcatProperties
<1>4. ASSUME NEW j \in 1 .. p PROVE u[j] = s[j]
  <2>1. j \in 1 .. p + q /\ j <= p
    BY <1>1
  <2> QED  BY <1>3, <2>1
<1>5. ASSUME NEW j \in 1 .. q PROVE u[p + j] = t[j]
  <2>1. PICK i \in Int : i = p + j
    BY <1>1
  <2>2. i \in 1 .. p + q /\ ~ (i <= p) /\ i - p = j
    BY <1>1, <2>1
  <2> QED  BY <1>3, <2>1, <2>2
<1> QED  BY <1>1, <1>2, <1>4, <1>5
=============================================================================
