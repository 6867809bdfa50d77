------------------------------ MODULE HeapProofs ------------------------------
(***************************************************************************)
(* The invariants of Heap, proved for every number of pages, page size and *)
(* set of sizes.  A list of blocks is described by which byte is in which  *)
(* block; each operation on the list gets a lemma about its bytes.         *)
(***************************************************************************)
EXTENDS Heap, Induction, SequenceTheorems

PP == INSTANCE PmmProofs WITH Addresses <- {p * PageSize : p \in 0 .. MaxPages - 1}

\* Byte x is in block b.
Within(x, b) == b.addr <= x /\ x < End(b)

\* A block has bytes, and begins on a word boundary.
Proper(b) == b.size > 0 /\ b.addr % 4 = 0

IsList(l) == l \in Seq(Block) /\ \A i \in DOMAIN l : Proper(l[i])

\* No byte is in two blocks of l.
Disjoint(l) ==
    \A i, j \in DOMAIN l : \A x \in Nat : Within(x, l[i]) /\ Within(x, l[j]) => i = j

\* Byte x is in a block of l.
Covered(x, l) == \E i \in DOMAIN l : Within(x, l[i])

Merged(l) ==
    \A i \in 1 .. Len(l) - 1 : ~ (l[i].free /\ l[i+1].free /\ End(l[i]) = l[i+1].addr)

\* The bytes of the heap's pages, and no others, are in blocks.
Tiles(l, pages) == \A x \in Nat : Covered(x, l) <=> x \div PageSize \in pages

\* The allocated blocks of l are what callers hold.
Holds(l, hs) ==
    /\ \A h \in hs : \E i \in DOMAIN l : /\ l[i].addr = h.ptr - HeaderSize
                                         /\ ~ l[i].free
                                         /\ l[i].size >= HeaderSize + h.size
    /\ \A i \in DOMAIN l : ~ l[i].free => \E h \in hs : h.ptr = l[i].addr + HeaderSize

\* No address is held twice.
Distinct(hs) == \A g, h \in hs : g.ptr = h.ptr => g = h

ListInv == /\ IsList(heap) /\ Disjoint(heap) /\ Merged(heap)
           /\ Tiles(heap, HeapPages)
           /\ Holds(heap, held)

TypeInv == /\ call \in [size : Sizes \cup {0}, left : Nat, grown : BOOLEAN]
           /\ call # Idle => call.size \in Sizes
           /\ held \subseteq [ptr : Nat, size : Sizes]
           /\ others \subseteq P!Managed \cap bitmap

IInv == PP!IInv /\ TypeInv /\ ListInv /\ Distinct(held)

-----------------------------------------------------------------------------
(* Numbers                                                                 *)

\* The assumptions hold of the sizes, and of the allocator as it is used here.
LEMMA Constants_ ==
    /\ PageSize \in Nat /\ PageSize > 0 /\ PageSize % 4 = 0
    /\ HeaderSize \in Nat /\ HeaderSize > 0 /\ HeaderSize % 4 = 0
    /\ MinSplit \in Nat /\ MinSplit > 0 /\ WordSize \in Nat
    /\ PP!PmmAssumption
  BY HeapAssumption, PagesAssumption DEF P!PmmAssumption, PP!PmmAssumption

\* A remainder of less than the divisor.
LEMMA Small ==
    ASSUME NEW w \in Nat, NEW n \in Nat, n < w
    PROVE  n % w = n
  OBVIOUS

\* What kmalloc looks for has room for the header and the size asked for.
LEMMA Request ==
    ASSUME NEW size \in Sizes
    PROVE  LET n == Need(align4(size)) IN
           /\ n \in Nat /\ n % 4 = 0 /\ n >= HeaderSize + size /\ n > 0
           /\ (n + MinSplit) % WordSize = n + MinSplit
<1>1. size \in Nat /\ size + 3 + HeaderSize + MinSplit < WordSize
  BY HeapAssumption
<1> DEFINE a == ((size + 3) \div 4) * 4
<1>2. a \in Nat /\ a >= size /\ a <= size + 3 /\ a % 4 = 0
  BY <1>1
<1>3. align4(size) = a
  BY <1>1, Constants_, Small DEF align4
<1> HIDE DEF a
<1>4. Need(a) = a + HeaderSize
  BY <1>1, <1>2, Constants_, Small DEF Need
<1>5. (a + HeaderSize + MinSplit) % WordSize = a + HeaderSize + MinSplit
  BY <1>1, <1>2, Constants_, Small
<1>6. (a + HeaderSize) % 4 = 0
  BY <1>2, Constants_
<1> QED  BY <1>1, <1>2, <1>3, <1>4, <1>5, <1>6, Constants_

\* The bytes of page p.
LEMMA PageOfByte ==
    ASSUME NEW p \in Nat, NEW x \in Nat
    PROVE  x \div PageSize = p <=> p * PageSize <= x /\ x < p * PageSize + PageSize
  BY Constants_

\* A page begins on a word boundary.
LEMMA PageAligned ==
    ASSUME NEW p \in Nat
    PROVE  p * PageSize \in Nat /\ (p * PageSize) % 4 = 0
<1> DEFINE q == PageSize \div 4
<1>1. PageSize = 4 * q /\ q \in Nat
  BY Constants_
<1> HIDE DEF q
<1>2. p * PageSize = 4 * (p * q) /\ p * q \in Nat
  BY <1>1
<1> QED  BY <1>2

-----------------------------------------------------------------------------
(* Lists                                                                   *)

\* Blocks are where they were: so are the bytes.
LEMMA SamePlaces ==
    ASSUME NEW l, IsList(l), NEW m \in Seq(Block), Len(m) = Len(l),
           \A j \in 1 .. Len(l) : m[j].addr = l[j].addr /\ m[j].size = l[j].size
    PROVE  /\ IsList(m) /\ (Disjoint(l) => Disjoint(m))
           /\ \A x \in Nat : Covered(x, m) <=> Covered(x, l)
<1>1. DOMAIN l = 1 .. Len(l) /\ DOMAIN m = DOMAIN l
  BY LenProperties DEF IsList
<1>2. \A j \in DOMAIN l : \A x \in Nat : Within(x, m[j]) <=> Within(x, l[j])
  BY <1>1 DEF Within, End
<1> QED  BY <1>1, <1>2 DEF IsList, Proper, Disjoint, Covered

\* One block of the list is replaced.
LEMMA Replaced ==
    ASSUME NEW l, IsList(l), NEW i \in DOMAIN l, NEW b \in Block
    PROVE  /\ ReplaceAt(l, i, b) \in Seq(Block)
           /\ Len(ReplaceAt(l, i, b)) = Len(l) /\ Len(l) \in Nat
           /\ DOMAIN l = 1 .. Len(l) /\ DOMAIN ReplaceAt(l, i, b) = DOMAIN l
           /\ \A j \in DOMAIN l : ReplaceAt(l, i, b)[j] = IF j = i THEN b ELSE l[j]
<1>1. l \in Seq(Block) /\ DOMAIN l = 1 .. Len(l) /\ Len(l) \in Nat
  BY LenProperties DEF IsList
<1>2. ReplaceAt(l, i, b) = [l EXCEPT ![i] = b]
  BY DEF ReplaceAt
<1>3. /\ ReplaceAt(l, i, b) \in Seq(Block) /\ Len(ReplaceAt(l, i, b)) = Len(l)
      /\ \A j \in 1 .. Len(l) : ReplaceAt(l, i, b)[j] = IF j = i THEN b ELSE l[j]
  BY <1>1, <1>2, ExceptSeq
<1>4. DOMAIN ReplaceAt(l, i, b) = 1 .. Len(l)
  BY <1>3, LenProperties
<1> QED  BY <1>1, <1>3, <1>4

\* A block is put into the list.
LEMMA Inserted ==
    ASSUME NEW l \in Seq(Block), NEW i \in 1 .. Len(l) + 1, NEW b \in Block
    PROVE  /\ InsertAt(l, i, b) \in Seq(Block)
           /\ Len(InsertAt(l, i, b)) = Len(l) + 1
           /\ \A j \in 1 .. Len(l) + 1 :
                InsertAt(l, i, b)[j] = IF j < i THEN l[j] ELSE IF j = i THEN b ELSE l[j - 1]
<1>1. Len(l) \in Nat /\ \A j \in 1 .. Len(l) : l[j] \in Block
  BY LenProperties, ElementOfSeq
<1> DEFINE u == SubSeq(l, 1, i - 1)
           v == SubSeq(l, i, Len(l))
<1>2. /\ u \in Seq(Block) /\ Len(u) = i - 1
      /\ \A j \in 1 .. i - 1 : u[j] = l[j]
  <2>1. i - 1 \in Int /\ (\A j \in 1 .. i - 1 : l[j] \in Block) /\ (i - 1) - 1 + 1 = i - 1
    BY <1>1
  <2>2. /\ u \in Seq(Block) /\ Len(u) = IF 1 <= i - 1 THEN (i - 1) - 1 + 1 ELSE 0
        /\ \A j \in 1 .. (i - 1) - 1 + 1 : u[j] = l[1 + j - 1]
    BY <2>1, SubSeqProperties
  <2> HIDE DEF u
  <2>3. \A j \in 1 .. i - 1 : 1 + j - 1 = j
    OBVIOUS
  <2> QED  BY <2>1, <2>2, <2>3, <1>1
<1>3. /\ v \in Seq(Block) /\ Len(v) = Len(l) - i + 1
      /\ \A j \in 1 .. Len(l) - i + 1 : v[j] = l[i + j - 1]
  <2>1. \A j \in i .. Len(l) : l[j] \in Block
    BY <1>1
  <2>2. /\ v \in Seq(Block) /\ Len(v) = IF i <= Len(l) THEN Len(l) - i + 1 ELSE 0
        /\ \A j \in 1 .. Len(l) - i + 1 : v[j] = l[i + j - 1]
    BY <2>1, <1>1, SubSeqProperties
  <2> HIDE DEF v
  <2> QED  BY <2>2, <1>1
<1>4. <<b>> \in Seq(Block) /\ Len(<<b>>) = 1 /\ <<b>>[1] = b
  OBVIOUS
<1> DEFINE one == <<b>>
           w   == u \o one
<1> HIDE DEF u, v, one
<1>5. /\ w \in Seq(Block) /\ Len(w) = i
      /\ \A j \in 1 .. i : w[j] = IF j < i THEN l[j] ELSE b
  <2>1. /\ w \in Seq(Block) /\ Len(w) = Len(u) + Len(one)
        /\ \A j \in 1 .. Len(u) + Len(one) :
              w[j] = IF j <= Len(u) THEN u[j] ELSE one[j - Len(u)]
    BY <1>2, <1>4, ConcatProperties DEF one
  <2> HIDE DEF w
  <2> QED  BY <2>1, <1>1, <1>2, <1>4 DEF one
<1> DEFINE z == w \o v
<1> HIDE DEF w
<1>6. /\ z \in Seq(Block) /\ Len(z) = Len(w) + Len(v)
      /\ \A j \in 1 .. Len(w) + Len(v) : z[j] = IF j <= Len(w) THEN w[j] ELSE v[j - Len(w)]
  BY <1>3, <1>5, ConcatProperties
<1> HIDE DEF z
<1>7. \A j \in 1 .. Len(l) + 1 : z[j] = IF j < i THEN l[j] ELSE IF j = i THEN b ELSE l[j - 1]
  <2> SUFFICES ASSUME NEW j \in 1 .. Len(l) + 1
               PROVE  z[j] = IF j < i THEN l[j] ELSE IF j = i THEN b ELSE l[j - 1]
    OBVIOUS
  <2>1. CASE j <= i
    BY <2>1, <1>1, <1>3, <1>5, <1>6
  <2>2. CASE j > i
    <3>1. j - i \in 1 .. Len(l) - i + 1 /\ i + (j - i) - 1 = j - 1
      BY <2>2, <1>1
    <3>2. v[j - i] = l[j - 1]
      BY <1>3, <3>1
    <3> QED  BY <2>2, <3>2, <1>1, <1>3, <1>5, <1>6
  <2> QED  BY <2>1, <2>2, <1>1
<1>8. z = InsertAt(l, i, b)
  BY DEF z, w, u, v, one, InsertAt
<1> QED  BY <1>1, <1>3, <1>5, <1>6, <1>7, <1>8

\* A block that serves a request as a whole.
LEMMA Whole ==
    ASSUME NEW l, IsList(l), NEW i \in DOMAIN l,
           NEW b \in Block, b.addr = l[i].addr, b.size = l[i].size, ~ b.free,
           NEW m, m = ReplaceAt(l, i, b)
    PROVE  /\ IsList(m) /\ (Disjoint(l) => Disjoint(m)) /\ (Merged(l) => Merged(m))
           /\ \A x \in Nat : Covered(x, m) <=> Covered(x, l)
           /\ DOMAIN m = DOMAIN l /\ \A j \in DOMAIN l : m[j] = IF j = i THEN b ELSE l[j]
<1>1. /\ m \in Seq(Block) /\ Len(m) = Len(l) /\ Len(l) \in Nat
      /\ DOMAIN l = 1 .. Len(l) /\ DOMAIN m = DOMAIN l
      /\ \A j \in DOMAIN l : m[j] = IF j = i THEN b ELSE l[j]
  BY Replaced
<1>2. \A j \in 1 .. Len(l) : m[j].addr = l[j].addr /\ m[j].size = l[j].size
  BY <1>1
<1>3. Merged(l) => Merged(m)
  BY <1>1, <1>2 DEF Merged, End
<1> QED  BY <1>1, <1>2, <1>3, SamePlaces

\* The list after a cut, place by place.
LEMMA CutList ==
    ASSUME NEW l, IsList(l), NEW i \in DOMAIN l, NEW b \in Block, NEW c \in Block
    PROVE  LET m == InsertAt(ReplaceAt(l, i, b), i + 1, c) IN
           /\ m \in Seq(Block) /\ Len(m) = Len(l) + 1
           /\ \A j \in 1 .. Len(l) + 1 :
                m[j] = IF j < i THEN l[j] ELSE IF j = i THEN b ELSE IF j = i + 1 THEN c
                       ELSE l[j - 1]
<1> DEFINE r == ReplaceAt(l, i, b)
           m == InsertAt(r, i + 1, c)
<1>1. /\ r \in Seq(Block) /\ Len(r) = Len(l) /\ Len(l) \in Nat
      /\ DOMAIN l = 1 .. Len(l)
      /\ \A j \in DOMAIN l : r[j] = IF j = i THEN b ELSE l[j]
  BY Replaced
<1>2. i \in 1 .. Len(l) /\ i + 1 \in 1 .. Len(r) + 1
  BY <1>1
<1>3. /\ m \in Seq(Block) /\ Len(m) = Len(l) + 1
      /\ \A j \in 1 .. Len(l) + 1 :
           m[j] = IF j < i + 1 THEN r[j] ELSE IF j = i + 1 THEN c ELSE r[j - 1]
  <2> HIDE DEF r
  <2> DEFINE k == i + 1
  <2>1. k \in 1 .. Len(r) + 1
    BY <1>2
  <2> HIDE DEF k
  <2>2. /\ InsertAt(r, k, c) \in Seq(Block) /\ Len(InsertAt(r, k, c)) = Len(r) + 1
        /\ \A j \in 1 .. Len(r) + 1 :
             InsertAt(r, k, c)[j] = IF j < k THEN r[j] ELSE IF j = k THEN c ELSE r[j - 1]
    BY <1>1, <2>1, Inserted
  <2> QED  BY <1>1, <2>2 DEF k
<1> HIDE DEF m, r
<1>4. ASSUME NEW j \in 1 .. Len(l) + 1
      PROVE  m[j] = IF j < i THEN l[j] ELSE IF j = i THEN b ELSE IF j = i + 1 THEN c
                    ELSE l[j - 1]
  <2>1. CASE j <= i
    <3>1. j \in DOMAIN l /\ m[j] = r[j]
      BY <2>1, <1>1, <1>2, <1>3
    <3> QED  BY <2>1, <3>1, <1>1, <1>2
  <2>2. CASE j > i + 1
    <3>1. j - 1 \in DOMAIN l /\ j - 1 # i /\ m[j] = r[j - 1]
      BY <2>2, <1>1, <1>2, <1>3
    <3> QED  BY <2>2, <3>1, <1>1, <1>2
  <2>3. CASE j = i + 1
    BY <2>3, <1>1, <1>2, <1>3
  <2> QED  BY <2>1, <2>2, <2>3, <1>1, <1>2
<1> QED  BY <1>3, <1>4 DEF m, r

\* A free block is cut in two: b serves the request, c is the rest.
LEMMA Split ==
    ASSUME NEW l, IsList(l), NEW i \in DOMAIN l, l[i].free,
           NEW b \in Block, b.addr = l[i].addr, ~ b.free, Proper(b),
           NEW c \in Block, c.addr = End(b), End(c) = End(l[i]), Proper(c),
           NEW m \in Seq(Block), Len(m) = Len(l) + 1,
           \A j \in 1 .. Len(l) + 1 :
                m[j] = IF j < i THEN l[j] ELSE IF j = i THEN b ELSE IF j = i + 1 THEN c
                       ELSE l[j - 1]
    PROVE  /\ IsList(m) /\ (Disjoint(l) => Disjoint(m)) /\ (Merged(l) => Merged(m))
           /\ \A x \in Nat : Covered(x, m) <=> Covered(x, l)
<1>1. Len(l) \in Nat /\ DOMAIN l = 1 .. Len(l) /\ i \in 1 .. Len(l)
  <2>1. l \in Seq(Block)
    BY DEF IsList
  <2>2. Len(l) \in Nat /\ DOMAIN l = 1 .. Len(l)
    BY <2>1, LenProperties
  <2> QED  BY <2>2
<1>3. m \in Seq(Block) /\ Len(m) = Len(l) + 1
  OBVIOUS
<1>4. DOMAIN m = 1 .. Len(l) + 1
  BY LenProperties
<1>5. \A j \in 1 .. Len(l) + 1 :
         m[j] = IF j < i THEN l[j] ELSE IF j = i THEN b ELSE IF j = i + 1 THEN c ELSE l[j - 1]
  OBVIOUS
<1>6. \A j \in DOMAIN l : l[j] \in Block /\ Proper(l[j])
  BY <1>1, ElementOfSeq DEF IsList
<1> DEFINE from(j) == IF j <= i THEN j ELSE j - 1
<1>7. \A j \in DOMAIN m : from(j) \in DOMAIN l
  BY <1>1, <1>4
<1>8. \A x \in Nat : Within(x, l[i]) <=> Within(x, b) \/ Within(x, c)
  <2>1. /\ b.addr \in Nat /\ b.size \in Nat /\ c.addr \in Nat /\ c.size \in Nat
        /\ l[i].addr \in Nat /\ l[i].size \in Nat /\ b.size > 0 /\ c.size > 0
    BY <1>1, <1>6 DEF Block, Proper
  <2> QED  BY <2>1 DEF Within, End
<1>9. \A x \in Nat : ~ (Within(x, b) /\ Within(x, c))
  BY DEF Within, End, Block
<1>10. ASSUME NEW j \in DOMAIN m, NEW x \in Nat, Within(x, m[j])
       PROVE  Within(x, l[from(j)])
  <2>1. CASE j < i
    <3>1. m[j] = l[j] /\ from(j) = j
      BY <2>1, <1>1, <1>4, <1>5
    <3> QED  BY <3>1, <1>10
  <2>2. CASE j = i \/ j = i + 1
    <3>1. (m[j] = b \/ m[j] = c) /\ from(j) = i
      BY <2>2, <1>1, <1>4, <1>5
    <3> QED  BY <3>1, <1>8, <1>10
  <2>3. CASE j > i + 1
    <3>1. m[j] = l[j - 1] /\ from(j) = j - 1
      BY <2>3, <1>1, <1>4, <1>5
    <3> QED  BY <3>1, <1>10
  <2> QED  BY <2>1, <2>2, <2>3, <1>1, <1>4
<1>11. IsList(m)
  <2> SUFFICES ASSUME NEW j \in DOMAIN m PROVE Proper(m[j])
    BY <1>3 DEF IsList
  <2>1. CASE j > i + 1
    <3>1. m[j] = l[j - 1] /\ j - 1 \in DOMAIN l
      BY <2>1, <1>1, <1>4, <1>5
    <3> QED  BY <3>1, <1>6
  <2> QED  BY <2>1, <1>1, <1>4, <1>5, <1>6
<1>12. Disjoint(l) => Disjoint(m)
  <2> SUFFICES ASSUME Disjoint(l), NEW j \in DOMAIN m, NEW k \in DOMAIN m, NEW x \in Nat,
                      Within(x, m[j]), Within(x, m[k])
               PROVE  j = k
    BY DEF Disjoint
  <2>1. from(j) = from(k)
    <3>1. Within(x, l[from(j)]) /\ Within(x, l[from(k)])
      BY <1>10
    <3>2. from(j) \in DOMAIN l /\ from(k) \in DOMAIN l
      BY <1>7
    <3> HIDE DEF from
    <3> QED  BY <3>1, <3>2 DEF Disjoint
  <2>2. j = k \/ (j = i /\ k = i + 1) \/ (j = i + 1 /\ k = i)
    BY <2>1, <1>1, <1>4
  <2>3. m[i] = b /\ m[i + 1] = c
    BY <1>1, <1>5
  <2> QED  BY <2>2, <2>3, <1>9
<1>13. ASSUME NEW x \in Nat PROVE Covered(x, m) <=> Covered(x, l)
  <2>1. ASSUME Covered(x, m) PROVE Covered(x, l)
    <3>1. PICK j \in DOMAIN m : Within(x, m[j])
      BY <2>1 DEF Covered
    <3>2. from(j) \in DOMAIN l /\ Within(x, l[from(j)])
      BY <3>1, <1>7, <1>10
    <3> HIDE DEF from
    <3> QED  BY <3>2 DEF Covered
  <2>2. ASSUME Covered(x, l) PROVE Covered(x, m)
    <3>1. PICK j \in DOMAIN l : Within(x, l[j])
      BY <2>2 DEF Covered
    <3>2. CASE j < i
      <4>1. j \in DOMAIN m /\ m[j] = l[j]
        BY <3>2, <1>1, <1>4, <1>5
      <4> QED  BY <3>1, <4>1 DEF Covered
    <3>3. CASE j = i
      <4>1. i \in DOMAIN m /\ i + 1 \in DOMAIN m /\ m[i] = b /\ m[i + 1] = c
        BY <1>1, <1>4, <1>5
      <4> QED  BY <3>1, <3>3, <4>1, <1>8 DEF Covered
    <3>4. CASE j > i
      <4>1. j + 1 \in DOMAIN m /\ m[j + 1] = l[(j + 1) - 1] /\ (j + 1) - 1 = j
        BY <3>4, <1>1, <1>4, <1>5
      <4> QED  BY <3>1, <4>1 DEF Covered
    <3> QED  BY <3>2, <3>3, <3>4, <1>1
  <2> QED  BY <2>1, <2>2
<1>14. Merged(l) => Merged(m)
  <2> SUFFICES ASSUME Merged(l), NEW j \in 1 .. Len(m) - 1,
                      m[j].free, m[j+1].free, End(m[j]) = m[j+1].addr
               PROVE  FALSE
    BY DEF Merged
  <2>1. CASE j + 1 < i
    <3>1. m[j] = l[j] /\ m[j+1] = l[j+1] /\ j \in 1 .. Len(l) - 1
      BY <2>1, <1>1, <1>3, <1>5
    <3> QED  BY <3>1 DEF Merged
  <2>2. CASE j + 1 = i \/ j = i
    <3>1. m[i] = b
      BY <1>1, <1>5
    <3> QED  BY <2>2, <3>1
  <2>3. CASE j = i + 1
    <3>1. m[j] = c /\ m[j+1] = l[i+1] /\ i \in 1 .. Len(l) - 1
      <4>1. j \in 1 .. Len(l) + 1 /\ j + 1 \in 1 .. Len(l) + 1 /\ (j + 1) - 1 = i + 1
        BY <2>3, <1>1, <1>3
      <4> QED  BY <2>3, <4>1, <1>1, <1>3, <1>5
    <3> QED  BY <3>1 DEF Merged
  <2>4. CASE j > i + 1
    <3>1. /\ j \in 1 .. Len(l) + 1 /\ j + 1 \in 1 .. Len(l) + 1 /\ (j + 1) - 1 = j
          /\ j - 1 \in 1 .. Len(l) - 1 /\ (j - 1) + 1 = j
      BY <2>4, <1>1, <1>3
    <3>2. m[j] = l[j-1] /\ m[j+1] = l[j]
      BY <2>4, <3>1, <1>1, <1>5
    <3> QED  BY <3>1, <3>2 DEF Merged
  <2> QED  BY <2>1, <2>2, <2>3, <2>4, <1>1
<1> QED  BY <1>11, <1>12, <1>13, <1>14

\* A block whose bytes are new is hung behind the list.
LEMMA Appended ==
    ASSUME NEW l, IsList(l), Disjoint(l), NEW b \in Block, Proper(b),
           \A x \in Nat : Within(x, b) => ~ Covered(x, l),
           NEW m, m = Append(l, b)
    PROVE  /\ IsList(m) /\ Disjoint(m)
           /\ \A x \in Nat : Covered(x, m) <=> Covered(x, l) \/ Within(x, b)
           /\ Len(l) \in Nat /\ DOMAIN l = 1 .. Len(l)
           /\ Len(m) = Len(l) + 1 /\ DOMAIN m = 1 .. Len(l) + 1
           /\ m[Len(l) + 1] = b /\ \A j \in DOMAIN l : m[j] = l[j]
<1>1. l \in Seq(Block) /\ Len(l) \in Nat /\ DOMAIN l = 1 .. Len(l)
  <2>1. l \in Seq(Block)
    BY DEF IsList
  <2> QED  BY <2>1, LenProperties
<1>2. /\ m \in Seq(Block) /\ Len(m) = Len(l) + 1
      /\ m[Len(l) + 1] = b /\ \A j \in 1 .. Len(l) : m[j] = l[j]
  BY <1>1, AppendProperties
<1>3. DOMAIN m = 1 .. Len(l) + 1
  BY <1>2, LenProperties
<1>4. IsList(m)
  BY <1>1, <1>2, <1>3 DEF IsList
<1>5. ASSUME NEW x \in Nat, NEW j \in DOMAIN m
      PROVE  Within(x, m[j]) <=> IF j = Len(l) + 1 THEN Within(x, b) ELSE Within(x, l[j])
  BY <1>1, <1>2, <1>3
<1>6. ASSUME NEW x \in Nat PROVE Covered(x, m) <=> Covered(x, l) \/ Within(x, b)
  <2>1. Covered(x, m) => Covered(x, l) \/ Within(x, b)
    BY <1>1, <1>3, <1>5 DEF Covered
  <2>2. Covered(x, l) => Covered(x, m)
    BY <1>1, <1>3, <1>5 DEF Covered
  <2>3. Within(x, b) => Covered(x, m)
    BY <1>1, <1>3, <1>5 DEF Covered
  <2> QED  BY <2>1, <2>2, <2>3
<1>7. Disjoint(m)
  <2> SUFFICES ASSUME NEW j \in DOMAIN m, NEW k \in DOMAIN m, NEW x \in Nat,
                      Within(x, m[j]), Within(x, m[k])
               PROVE  j = k
    BY DEF Disjoint
  <2>1. CASE j # Len(l) + 1 /\ k # Len(l) + 1
    BY <2>1, <1>1, <1>3, <1>5 DEF Disjoint
  <2>2. CASE j = Len(l) + 1 /\ k # Len(l) + 1
    BY <2>2, <1>1, <1>3, <1>5 DEF Covered
  <2>3. CASE j # Len(l) + 1 /\ k = Len(l) + 1
    BY <2>3, <1>1, <1>3, <1>5 DEF Covered
  <2> QED  BY <2>1, <2>2, <2>3
<1> QED  BY <1>1, <1>2, <1>3, <1>4, <1>6, <1>7

\* What is hung behind the last block leaves no two neighbours to merge, unless it is to
\* be merged with that block itself.
LEMMA AppendedMerged ==
    ASSUME NEW l, Merged(l), NEW m, NEW b, Len(l) \in Nat,
           Len(m) = Len(l) + 1, m[Len(l) + 1] = b, \A j \in 1 .. Len(l) : m[j] = l[j],
           Len(l) > 0 =>
             ~ (l[Len(l)].free /\ b.free /\ End(l[Len(l)]) = b.addr)
    PROVE  Merged(m)
<1> SUFFICES ASSUME NEW j \in 1 .. Len(m) - 1
             PROVE  ~ (m[j].free /\ m[j+1].free /\ End(m[j]) = m[j+1].addr)
  BY DEF Merged
<1>1. CASE j = Len(l)
  <2>1. m[j] = l[Len(l)] /\ m[j+1] = b /\ Len(l) > 0
    BY <1>1
  <2> QED  BY <2>1
<1>2. CASE j # Len(l)
  <2>1. j \in 1 .. Len(l) - 1 /\ m[j] = l[j] /\ m[j+1] = l[j+1]
    BY <1>2
  <2> QED  BY <2>1 DEF Merged
<1> QED  BY <1>1, <1>2

\* The last block takes in the bytes of c, which are new and follow it.
LEMMA Enlarged ==
    ASSUME NEW l, IsList(l), Disjoint(l), NEW n, n = Len(l), n > 0,
           NEW c \in Block, Proper(c), c.addr = End(l[n]),
           \A x \in Nat : Within(x, c) => ~ Covered(x, l),
           NEW b \in Block, b.addr = l[n].addr, b.free = l[n].free, b.size = l[n].size + c.size,
           NEW m, m = ReplaceAt(l, n, b)
    PROVE  /\ IsList(m) /\ Disjoint(m) /\ (Merged(l) => Merged(m))
           /\ \A x \in Nat : Covered(x, m) <=> Covered(x, l) \/ Within(x, c)
           /\ n \in DOMAIN l /\ DOMAIN m = DOMAIN l
           /\ \A j \in DOMAIN l : m[j] = IF j = n THEN b ELSE l[j]
<1>1. l \in Seq(Block) /\ Len(l) \in Nat /\ DOMAIN l = 1 .. Len(l) /\ n \in DOMAIN l
  <2>1. l \in Seq(Block)
    BY DEF IsList
  <2> QED  BY <2>1, LenProperties
<1>2. /\ m \in Seq(Block) /\ Len(m) = Len(l) /\ DOMAIN m = DOMAIN l
      /\ \A j \in DOMAIN l : m[j] = IF j = n THEN b ELSE l[j]
  BY <1>1, Replaced
<1>3. l[n] \in Block /\ Proper(l[n])
  BY <1>1 DEF IsList
<1>4. \A x \in Nat : Within(x, b) <=> Within(x, l[n]) \/ Within(x, c)
  <2>1. /\ b.addr \in Nat /\ b.size \in Nat /\ c.addr \in Nat /\ c.size \in Nat
        /\ l[n].addr \in Nat /\ l[n].size \in Nat
    BY <1>3 DEF Block
  <2> QED  BY <2>1 DEF Within, End
<1>5. IsList(m)
  <2>1. Proper(b)
    BY <1>3 DEF Proper, Block
  <2> QED  BY <1>2, <2>1 DEF IsList
<1>6. ASSUME NEW x \in Nat, NEW j \in DOMAIN m
      PROVE  Within(x, m[j]) <=> IF j = n THEN Within(x, l[n]) \/ Within(x, c)
                                 ELSE Within(x, l[j])
  BY <1>2, <1>4
<1>7. ASSUME NEW x \in Nat PROVE Covered(x, m) <=> Covered(x, l) \/ Within(x, c)
  <2>1. Covered(x, m) => Covered(x, l) \/ Within(x, c)
    BY <1>1, <1>2, <1>6 DEF Covered
  <2>2. Covered(x, l) => Covered(x, m)
    BY <1>1, <1>2, <1>6 DEF Covered
  <2>3. Within(x, c) => Covered(x, m)
    BY <1>1, <1>2, <1>6 DEF Covered
  <2> QED  BY <2>1, <2>2, <2>3
<1>8. Disjoint(m)
  <2> SUFFICES ASSUME NEW j \in DOMAIN m, NEW k \in DOMAIN m, NEW x \in Nat,
                      Within(x, m[j]), Within(x, m[k])
               PROVE  j = k
    BY DEF Disjoint
  <2>1. CASE Within(x, c)
    <3>1. \A i \in DOMAIN l : ~ Within(x, l[i])
      BY <2>1 DEF Covered
    <3> QED  BY <3>1, <1>2, <1>6
  <2>2. CASE ~ Within(x, c)
    <3>1. Within(x, l[j]) /\ Within(x, l[k])
      BY <2>2, <1>6
    <3> QED  BY <3>1, <1>2 DEF Disjoint
  <2> QED  BY <2>1, <2>2
<1>9. Merged(l) => Merged(m)
  <2> SUFFICES ASSUME Merged(l), NEW j \in 1 .. Len(m) - 1
               PROVE  ~ (m[j].free /\ m[j+1].free /\ End(m[j]) = m[j+1].addr)
    BY DEF Merged
  <2>1. /\ j \in 1 .. Len(l) - 1 /\ j \in DOMAIN l /\ j + 1 \in DOMAIN l /\ j # n
        /\ m[j] = l[j]
    BY <1>1, <1>2
  <2>2. m[j+1].free = l[j+1].free /\ m[j+1].addr = l[j+1].addr
    BY <2>1, <1>2
  <2> QED  BY <2>1, <2>2 DEF Merged
<1> QED  BY <1>1, <1>2, <1>5, <1>7, <1>8, <1>9

\* A block with more bytes.
LEMMA Grown ==
    ASSUME NEW d \in Block, NEW e \in Nat
    PROVE  /\ [d EXCEPT !.size = @ + e] \in Block
           /\ [d EXCEPT !.size = @ + e].addr = d.addr
           /\ [d EXCEPT !.size = @ + e].free = d.free
           /\ [d EXCEPT !.size = @ + e].size = d.size + e
  BY DEF Block

\* The last block of a list.
LEMMA LastBlock ==
    ASSUME NEW l, IsList(l), l # <<>>
    PROVE  /\ Last(l) = l[Len(l)] /\ Len(l) \in DOMAIN l /\ Len(l) > 0
           /\ Last(l) \in Block /\ Proper(Last(l))
<1>1. l \in Seq(Block) /\ Len(l) \in Nat /\ DOMAIN l = 1 .. Len(l) /\ Len(l) > 0
  <2>1. l \in Seq(Block)
    BY DEF IsList
  <2> QED  BY <2>1, LenProperties, EmptySeq
<1> QED  BY <1>1 DEF Last, IsList

-----------------------------------------------------------------------------
(* Merging                                                                 *)

\* The allocated blocks of two lists are the same.
SameAllocated(l, m) ==
    /\ \A i \in DOMAIN l : ~ l[i].free => \E j \in DOMAIN m : m[j] = l[i]
    /\ \A j \in DOMAIN m : ~ m[j].free => \E i \in DOMAIN l : l[i] = m[j]

\* A turn of the loop of kfree: b, whose bytes are new, gets behind the list or into its
\* last block.
LEMMA JoinedList ==
    ASSUME NEW l, IsList(l), Disjoint(l), Merged(l), NEW b \in Block, Proper(b),
           \A x \in Nat : Within(x, b) => ~ Covered(x, l)
    PROVE  /\ IsList(Joined(l, b)) /\ Disjoint(Joined(l, b)) /\ Merged(Joined(l, b))
           /\ \A x \in Nat : Covered(x, Joined(l, b)) <=> Covered(x, l) \/ Within(x, b)
           /\ SameAllocated(Append(l, b), Joined(l, b))
<1> DEFINE a == Append(l, b)
           m == Joined(l, b)
<1>1. /\ IsList(a) /\ Disjoint(a)
      /\ \A x \in Nat : Covered(x, a) <=> Covered(x, l) \/ Within(x, b)
      /\ Len(l) \in Nat /\ DOMAIN l = 1 .. Len(l)
      /\ Len(a) = Len(l) + 1 /\ DOMAIN a = 1 .. Len(l) + 1
      /\ a[Len(l) + 1] = b /\ \A j \in DOMAIN l : a[j] = l[j]
  BY Appended
<1>2. CASE l # <<>> /\ Last(l).free /\ b.free /\ End(Last(l)) = b.addr
  <2>1. PICK n : n = Len(l)
    OBVIOUS
  <2>2. /\ Last(l) = l[n] /\ n \in DOMAIN l /\ n > 0 /\ l[n] \in Block /\ b.size \in Nat
    BY <1>2, <2>1, LastBlock DEF Block
  <2>3. PICK d \in Block : /\ d.addr = l[n].addr /\ d.free = l[n].free
                           /\ d.size = l[n].size + b.size
                           /\ m = ReplaceAt(l, n, d)
    <3> DEFINE d == [Last(l) EXCEPT !.size = @ + b.size]
    <3>1. /\ d \in Block /\ d.addr = Last(l).addr /\ d.free = Last(l).free
          /\ d.size = Last(l).size + b.size
      BY <2>2, Grown
    <3>2. m = ReplaceAt(l, n, d)
      BY <1>2, <2>1 DEF Joined
    <3> HIDE DEF d, m
    <3> QED  BY <2>2, <3>1, <3>2
  <2> HIDE DEF m, a
  <2>4. b.addr = End(l[n])
    BY <1>2, <2>2
  <2>5. /\ IsList(m) /\ Disjoint(m) /\ (Merged(l) => Merged(m))
        /\ \A x \in Nat : Covered(x, m) <=> Covered(x, l) \/ Within(x, b)
        /\ DOMAIN m = DOMAIN l
        /\ \A j \in DOMAIN l : m[j] = IF j = n THEN d ELSE l[j]
    BY <2>1, <2>2, <2>3, <2>4, Enlarged
  <2>6. SameAllocated(a, m)
    <3>1. b.free /\ l[n].free /\ d.free
      BY <1>2, <2>2, <2>3
    <3>2. ASSUME NEW i \in DOMAIN a, ~ a[i].free PROVE \E j \in DOMAIN m : m[j] = a[i]
      <4>1. i # Len(l) + 1
        BY <1>1, <3>1, <3>2
      <4>2. i \in DOMAIN l /\ a[i] = l[i]
        BY <4>1, <1>1
      <4>3. i # n
        BY <4>2, <3>1, <3>2
      <4>4. m[i] = a[i] /\ i \in DOMAIN m
        BY <4>2, <4>3, <2>5
      <4> QED  BY <4>4
    <3>3. ASSUME NEW j \in DOMAIN m, ~ m[j].free PROVE \E i \in DOMAIN a : a[i] = m[j]
      <4>1. j # n
        BY <2>5, <3>1, <3>3
      <4>2. j \in DOMAIN a /\ a[j] = m[j]
        BY <4>1, <1>1, <2>5
      <4> QED  BY <4>2
    <3> QED  BY <3>2, <3>3 DEF SameAllocated
  <2> QED  BY <2>5, <2>6 DEF m, a
<1>3. CASE ~ (l # <<>> /\ Last(l).free /\ b.free /\ End(Last(l)) = b.addr)
  <2>1. m = a
    BY <1>3 DEF Joined
  <2>2. Len(l) > 0 => ~ (l[Len(l)].free /\ b.free /\ End(l[Len(l)]) = b.addr)
    <3> SUFFICES ASSUME Len(l) > 0
                 PROVE  ~ (l[Len(l)].free /\ b.free /\ End(l[Len(l)]) = b.addr)
      OBVIOUS
    <3>1. l # <<>>
      BY EmptySeq
    <3> QED  BY <3>1, <1>3, LastBlock
  <2>3. Merged(a)
    <3> HIDE DEF a
    <3> QED  BY <1>1, <2>2, AppendedMerged
  <2>4. SameAllocated(a, a)
    BY DEF SameAllocated
  <2> HIDE DEF m, a
  <2> QED  BY <1>1, <2>1, <2>3, <2>4 DEF m, a
<1> QED  BY <1>2, <1>3

\* What kfree makes of the list: neighbours that were both free are one block, and the
\* bytes and the allocated blocks are what they were.
LEMMA Coalesced ==
    ASSUME NEW h, IsList(h), Disjoint(h)
    PROVE  /\ IsList(Coalesce(h)) /\ Disjoint(Coalesce(h)) /\ Merged(Coalesce(h))
           /\ \A x \in Nat : Covered(x, Coalesce(h)) <=> Covered(x, h)
           /\ SameAllocated(h, Coalesce(h))
<1> DEFINE n == Len(h)
           body == [p \in (1 .. n) \X Seq(Block) |-> Joined(p[2], h[p[1]])]
<1>1. n \in Nat /\ DOMAIN h = 1 .. n /\ \A i \in 1 .. n : h[i] \in Block /\ Proper(h[i])
  <2>1. h \in Seq(Block)
    BY DEF IsList
  <2>2. Len(h) \in Nat /\ DOMAIN h = 1 .. Len(h)
    BY <2>1, LenProperties
  <2> QED  BY <2>1, <2>2, ElementOfSeq DEF IsList
<1>2. ASSUME NEW l \in Seq(Block), NEW b \in Block PROVE Joined(l, b) \in Seq(Block)
  <2>1. CASE l # <<>> /\ Last(l).free /\ b.free /\ End(Last(l)) = b.addr
    <3>1. Len(l) \in 1 .. Len(l) /\ Last(l) = l[Len(l)] /\ Last(l) \in Block /\ b.size \in Nat
      <4>1. Len(l) \in 1 .. Len(l)
        BY <2>1, LenProperties, EmptySeq
      <4> QED  BY <4>1, ElementOfSeq DEF Last, Block
    <3> DEFINE d == [Last(l) EXCEPT !.size = @ + b.size]
    <3>2. d \in Block
      BY <3>1, Grown
    <3>3. Joined(l, b) = [l EXCEPT ![Len(l)] = d]
      BY <2>1 DEF Joined, ReplaceAt
    <3> HIDE DEF d
    <3> QED  BY <3>1, <3>2, <3>3, ExceptSeq
  <2>2. CASE ~ (l # <<>> /\ Last(l).free /\ b.free /\ End(Last(l)) = b.addr)
    <3>1. Joined(l, b) = Append(l, b)
      BY <2>2 DEF Joined
    <3> QED  BY <3>1, AppendProperties
  <2> QED  BY <2>1, <2>2
<1>3. body \in [(1 .. n) \X Seq(Block) -> Seq(Block)]
  BY <1>1, <1>2
<1>4. <<>> \in Seq(Block)
  BY EmptySeq
<1> DEFINE Eq(i) == i = [s \in SUBSET DOMAIN h |->
                           IF s = {} THEN <<>> ELSE Joined(i[s \ {Max(s)}], h[Max(s)])]
           it == CHOOSE i : Eq(i)
<1>5. Coalesce(h) = it[DOMAIN h]
  BY DEF Coalesce, FoldLeft, MapThenFoldSet
<1>6. \E i : Eq(i)
  <2>1. PICK i \in [SUBSET (1 .. n) -> Seq(Block)] : Iterates(i, n, <<>>, body)
    <3> HIDE DEF n, body
    <3> QED  BY <1>1, <1>3, <1>4, LoopExists
  <2>2. ASSUME NEW s \in SUBSET (1 .. n), s # {}
        PROVE  body[<<Max(s), i[s \ {Max(s)}]>>] = Joined(i[s \ {Max(s)}], h[Max(s)])
    <3>1. Max(s) \in 1 .. n /\ s \ {Max(s)} \in SUBSET (1 .. n)
      <4> HIDE DEF n
      <4> QED  BY <1>1, <2>2, LastTurn
    <3>2. i[s \ {Max(s)}] \in Seq(Block)
      BY <3>1
    <3> QED  BY <3>1, <3>2
  <2>3. Eq(i)
    <3> HIDE DEF n, body
    <3> QED  BY <1>1, <2>1, <2>2 DEF Iterates
  <2> HIDE DEF Eq
  <2> QED  BY <2>3
<1>7. Eq(it)
  <2> HIDE DEF Eq
  <2> QED  BY <1>6
<1> DEFINE run(k) == it[1 .. k]
<1>8. run(0) = <<>>
  <2>1. 1 .. 0 = {} /\ {} \in SUBSET DOMAIN h
    OBVIOUS
  <2> HIDE DEF it
  <2> QED  BY <1>7, <2>1
<1>9. ASSUME NEW k \in 1 .. n PROVE run(k) = Joined(run(k - 1), h[k])
  <2>1. /\ Max(1 .. k) = k /\ (1 .. k) \ {k} = 1 .. k - 1
        /\ 1 .. k \in SUBSET DOMAIN h /\ 1 .. k # {}
    <3> HIDE DEF n
    <3> QED  BY <1>1, MaxOfBeginning
  <2> HIDE DEF it
  <2> QED  BY <1>7, <2>1
<1> HIDE DEF run, it, n, body
<1> DEFINE Good(k) ==
             /\ IsList(run(k)) /\ Disjoint(run(k)) /\ Merged(run(k))
             /\ \A x \in Nat : Covered(x, run(k)) <=> \E j \in 1 .. k : Within(x, h[j])
             /\ \A j \in 1 .. k : ~ h[j].free => \E i \in DOMAIN run(k) : run(k)[i] = h[j]
             /\ \A i \in DOMAIN run(k) : ~ run(k)[i].free => \E j \in 1 .. k : h[j] = run(k)[i]
           T == {k \in 0 .. n : Good(k)}
<1>10. 0 \in T
  <2>1. DOMAIN run(0) = {} /\ Len(run(0)) = 0
    BY <1>4, <1>8, EmptySeq, LenProperties
  <2>2. IsList(run(0)) /\ Disjoint(run(0)) /\ Merged(run(0)) /\ \A x \in Nat : ~ Covered(x, run(0))
    <3> DEFINE e == run(0)
    <3>1. e \in Seq(Block) /\ DOMAIN e = {} /\ Len(e) = 0
      BY <1>4, <1>8, <2>1
    <3> HIDE DEF e
    <3>2. IsList(e)
      BY <3>1 DEF IsList
    <3>3. Disjoint(e) /\ \A x \in Nat : ~ Covered(x, e)
      BY <3>1 DEF Disjoint, Covered
    <3>4. Merged(e)
      <4>1. 1 .. Len(e) - 1 = {}
        BY <3>1
      <4> QED  BY <4>1 DEF Merged
    <3> QED  BY <3>2, <3>3, <3>4 DEF e
  <2>3. Good(0)
    BY <2>1, <2>2
  <2> QED  BY <1>1, <2>3
<1>11. ASSUME NEW k \in 1 .. n, k - 1 \in T PROVE k \in T
  <2>1. Good(k - 1)
    BY <1>11
  <2> DEFINE l == run(k - 1)
             b == h[k]
             m == Joined(l, b)
  <2>2. b \in Block /\ Proper(b)
    BY <1>1
  <2>3. \A x \in Nat : Within(x, b) => ~ Covered(x, l)
    <3> SUFFICES ASSUME NEW x \in Nat, Within(x, b), Covered(x, l) PROVE FALSE
      OBVIOUS
    <3>1. PICK j \in 1 .. k - 1 : Within(x, h[j])
      BY <2>1
    <3>2. j \in DOMAIN h /\ k \in DOMAIN h /\ j # k
      BY <1>1
    <3> QED  BY <3>1, <3>2 DEF Disjoint
  <2>4. /\ IsList(m) /\ Disjoint(m) /\ Merged(m)
        /\ \A x \in Nat : Covered(x, m) <=> Covered(x, l) \/ Within(x, b)
        /\ SameAllocated(Append(l, b), m)
    <3>1. IsList(l) /\ Disjoint(l) /\ Merged(l)
      BY <2>1
    <3> HIDE DEF l, b, Good
    <3> QED  BY <2>2, <2>3, <3>1, JoinedList
  <2>5. PICK a : /\ a = Append(l, b) /\ Len(l) \in Nat /\ DOMAIN l = 1 .. Len(l)
                 /\ DOMAIN a = 1 .. Len(l) + 1
                 /\ a[Len(l) + 1] = b /\ \A j \in DOMAIN l : a[j] = l[j]
    <3>1. IsList(l) /\ Disjoint(l)
      BY <2>1
    <3> HIDE DEF l, b, Good
    <3> QED  BY <2>2, <2>3, <3>1, Appended
  <2>6. ASSUME NEW x \in Nat
        PROVE  Covered(x, m) <=> \E j \in 1 .. k : Within(x, h[j])
    <3>1. Covered(x, l) <=> \E j \in 1 .. k - 1 : Within(x, h[j])
      BY <2>1
    <3>2. (\E j \in 1 .. k : Within(x, h[j])) <=>
            (\E j \in 1 .. k - 1 : Within(x, h[j])) \/ Within(x, h[k])
      BY <1>1
    <3> QED  BY <2>4, <3>1, <3>2
  <2>7. ASSUME NEW j \in 1 .. k, ~ h[j].free PROVE \E i \in DOMAIN m : m[i] = h[j]
    <3>1. \E i \in DOMAIN a : a[i] = h[j]
      <4>1. CASE j = k
        <5>1. Len(l) + 1 \in DOMAIN a /\ a[Len(l) + 1] = h[j]
          BY <2>5, <4>1
        <5> QED  BY <5>1
      <4>2. CASE j # k
        <5>1. j \in 1 .. k - 1
          BY <1>1, <4>2
        <5>2. PICK i \in DOMAIN l : l[i] = h[j]
          BY <5>1, <2>1, <2>7
        <5>3. i \in DOMAIN a /\ a[i] = h[j]
          BY <5>2, <2>5
        <5> QED  BY <5>3
      <4> QED  BY <4>1, <4>2
    <3>2. PICK i \in DOMAIN a : a[i] = h[j]
      BY <3>1
    <3> HIDE DEF m, l, b
    <3> QED  BY <2>4, <2>5, <2>7, <3>2 DEF SameAllocated
  <2>8. ASSUME NEW i \in DOMAIN m, ~ m[i].free PROVE \E j \in 1 .. k : h[j] = m[i]
    <3>1. PICK j \in DOMAIN a : a[j] = m[i]
      <4> HIDE DEF m, l, b
      <4> QED  BY <2>4, <2>5, <2>8 DEF SameAllocated
    <3>2. CASE j = Len(l) + 1
      <4>1. k \in 1 .. k /\ h[k] = m[i]
        BY <3>1, <3>2, <2>5, <1>1
      <4> QED  BY <4>1
    <3>3. CASE j # Len(l) + 1
      <4>1. j \in DOMAIN l /\ l[j] = m[i]
        BY <3>1, <3>3, <2>5
      <4>2. PICK e \in 1 .. k - 1 : h[e] = l[j]
        BY <4>1, <2>1, <2>8
      <4>3. e \in 1 .. k
        BY <1>1
      <4> QED  BY <4>1, <4>2, <4>3
    <3> QED  BY <3>2, <3>3
  <2>9. Good(k)
    <3>1. run(k) = m
      BY <1>9
    <3> HIDE DEF m
    <3> QED  BY <2>4, <2>6, <2>7, <2>8, <3>1
  <2> HIDE DEF Good
  <2> QED  BY <2>9, <1>1
<1>12. Good(n)
  <2>1. n \in T
    <3> HIDE DEF T
    <3> QED  BY <1>1, <1>10, <1>11, UpTo
  <2> HIDE DEF Good
  <2> QED  BY <2>1
<1>13. Coalesce(h) = run(n)
  BY <1>1, <1>5 DEF run
<1> QED  BY <1>1, <1>12, <1>13 DEF Covered, SameAllocated

-----------------------------------------------------------------------------
(* The operations of the heap                                              *)

\* First fit finds a free block that is large enough.
LEMMA Fit ==
    ASSUME IsList(heap), NEW want, NEW i, i = FirstFit(want), i # 0
    PROVE  i \in DOMAIN heap /\ heap[i].free /\ heap[i].size >= Need(want)
<1> DEFINE I == {j \in 1 .. Len(heap) : heap[j].free /\ heap[j].size >= Need(want)}
<1>1. heap \in Seq(Block)
  BY DEF IsList
<1>2. Len(heap) \in Nat /\ DOMAIN heap = 1 .. Len(heap)
  BY <1>1, LenProperties
<1>3. I # {} /\ i = Min(I)
  BY DEF FirstFit, SelectInSeq
<1>4. i \in I
  <2>1. I \subseteq Nat
    BY <1>2
  <2> HIDE DEF I
  <2>2. \E x \in I : \A y \in I : x <= y
    BY <1>3, <2>1, HasLeast
  <2> QED  BY <1>3, <2>2 DEF Min
<1> QED  BY <1>2, <1>4

\* What becomes of the list when block i serves a request.
LEMMA Carved ==
    ASSUME IsList(heap), Disjoint(heap), Merged(heap), NEW size \in Sizes,
           NEW i \in DOMAIN heap, heap[i].free, heap[i].size >= Need(align4(size)),
           NEW m, m = Carve(i, align4(size))
    PROVE  /\ IsList(m) /\ Disjoint(m) /\ Merged(m)
           /\ \A x \in Nat : Covered(x, m) <=> Covered(x, heap)
           /\ \E j \in DOMAIN m : /\ m[j].addr = heap[i].addr /\ ~ m[j].free
                                  /\ m[j].size >= HeaderSize + size
           /\ \A k \in DOMAIN heap : ~ heap[k].free => \E j \in DOMAIN m : m[j] = heap[k]
           /\ \A j \in DOMAIN m : ~ m[j].free =>
                 m[j].addr = heap[i].addr \/ \E k \in DOMAIN heap : m[j] = heap[k]
<1>1. PICK n \in Nat : /\ n = Need(align4(size))
                       /\ n % 4 = 0 /\ n >= HeaderSize + size /\ n > 0
                       /\ (n + MinSplit) % WordSize = n + MinSplit
  BY Request
<1>2. PICK o \in Block : o = heap[i] /\ Proper(o)
  <2>1. heap \in Seq(Block)
    BY DEF IsList
  <2>2. i \in 1 .. Len(heap)
    BY <2>1, LenProperties
  <2> QED  BY <2>1, <2>2, ElementOfSeq DEF IsList
<1>3. size \in Nat
  BY HeapAssumption
<1>4. CASE o.size >= (n + MinSplit) % WordSize
  <2> DEFINE b == [addr |-> o.addr, size |-> n, free |-> FALSE]
             c == [addr |-> o.addr + n, size |-> o.size - n, free |-> TRUE]
  <2>1. o.addr \in Nat /\ o.size \in Nat /\ o.addr % 4 = 0 /\ o.size >= n + MinSplit
    BY <1>1, <1>2, <1>4 DEF Block, Proper
  <2>2. /\ b \in Block /\ b.addr = o.addr /\ ~ b.free /\ Proper(b) /\ b.size = n
    BY <1>1, <2>1 DEF Block, Proper
  <2>3. (o.addr + n) % 4 = 0
    BY <1>1, <2>1
  <2>4. /\ c \in Block /\ c.addr = End(b) /\ End(c) = End(o) /\ Proper(c) /\ c.free
    BY <1>1, <2>1, <2>3, Constants_ DEF Block, Proper, End
  <2>5. m = InsertAt(ReplaceAt(heap, i, b), i + 1, c)
    BY <1>1, <1>2, <1>4 DEF Carve
  <2> HIDE DEF b, c
  <2>6. /\ m \in Seq(Block) /\ Len(m) = Len(heap) + 1
        /\ \A j \in 1 .. Len(heap) + 1 :
             m[j] = IF j < i THEN heap[j] ELSE IF j = i THEN b ELSE IF j = i + 1 THEN c
                    ELSE heap[j - 1]
    <3> DEFINE z == InsertAt(ReplaceAt(heap, i, b), i + 1, c)
    <3>1. /\ z \in Seq(Block) /\ Len(z) = Len(heap) + 1
          /\ \A j \in 1 .. Len(heap) + 1 :
               z[j] = IF j < i THEN heap[j] ELSE IF j = i THEN b ELSE IF j = i + 1 THEN c
                      ELSE heap[j - 1]
      BY <2>2, <2>4, CutList
    <3> HIDE DEF z
    <3> QED  BY <2>5, <3>1 DEF z
  <2>7. /\ IsList(m) /\ Disjoint(m) /\ Merged(m)
        /\ \A x \in Nat : Covered(x, m) <=> Covered(x, heap)
    BY <1>2, <2>2, <2>4, <2>6, Split
  <2>8. Len(heap) \in Nat /\ DOMAIN heap = 1 .. Len(heap) /\ DOMAIN m = 1 .. Len(heap) + 1
    <3>1. heap \in Seq(Block)
      BY DEF IsList
    <3> QED  BY <2>6, <3>1, LenProperties
  <2>9. i \in DOMAIN m /\ m[i] = b
    BY <2>6, <2>8
  <2>10. ASSUME NEW k \in DOMAIN heap, ~ heap[k].free PROVE \E j \in DOMAIN m : m[j] = heap[k]
    <3>1. CASE k < i
      <4>1. k \in DOMAIN m /\ m[k] = heap[k]
        BY <2>6, <2>8, <3>1
      <4> QED  BY <4>1
    <3>2. CASE k > i
      <4>1. k + 1 \in DOMAIN m /\ (k + 1) - 1 = k /\ m[k + 1] = heap[(k + 1) - 1]
        BY <2>6, <2>8, <3>2
      <4> QED  BY <4>1
    <3> QED  BY <2>8, <2>10, <3>1, <3>2
  <2>11. ASSUME NEW j \in DOMAIN m, ~ m[j].free
         PROVE  m[j].addr = heap[i].addr \/ \E k \in DOMAIN heap : m[j] = heap[k]
    <3>1. CASE j < i
      <4>1. j \in DOMAIN heap /\ m[j] = heap[j]
        BY <2>6, <2>8, <3>1
      <4> QED  BY <4>1
    <3>2. CASE j = i
      BY <1>2, <2>2, <2>9, <3>2
    <3>3. CASE j = i + 1
      BY <2>4, <2>6, <2>8, <2>11, <3>3
    <3>4. CASE j > i + 1
      <4>1. j - 1 \in DOMAIN heap /\ m[j] = heap[j - 1]
        BY <2>6, <2>8, <3>4
      <4> QED  BY <4>1
    <3> QED  BY <2>8, <3>1, <3>2, <3>3, <3>4
  <2> QED  BY <1>1, <1>2, <2>2, <2>7, <2>9, <2>10, <2>11
<1>5. CASE ~ (o.size >= (n + MinSplit) % WordSize)
  <2> DEFINE b == [o EXCEPT !.free = FALSE]
  <2>1. b \in Block /\ b.addr = o.addr /\ b.size = o.size /\ ~ b.free
    BY DEF Block
  <2>2. m = ReplaceAt(heap, i, b)
    BY <1>1, <1>2, <1>5 DEF Carve
  <2> HIDE DEF b
  <2>3. /\ IsList(m) /\ Disjoint(m) /\ Merged(m)
        /\ \A x \in Nat : Covered(x, m) <=> Covered(x, heap)
        /\ DOMAIN m = DOMAIN heap /\ \A j \in DOMAIN heap : m[j] = IF j = i THEN b ELSE heap[j]
    BY <1>2, <2>1, <2>2, Whole
  <2>4. o.size >= HeaderSize + size
    BY <1>1, <1>2, <1>3, Constants_ DEF Block
  <2>5. \A k \in DOMAIN heap : ~ heap[k].free => \E j \in DOMAIN m : m[j] = heap[k]
    BY <2>3
  <2>6. \A j \in DOMAIN m : ~ m[j].free =>
           m[j].addr = heap[i].addr \/ \E k \in DOMAIN heap : m[j] = heap[k]
    BY <1>2, <2>1, <2>3
  <2>7. \E j \in DOMAIN m : /\ m[j].addr = heap[i].addr /\ ~ m[j].free
                            /\ m[j].size >= HeaderSize + size
    BY <1>2, <2>1, <2>3, <2>4
  <2> QED  BY <2>3, <2>5, <2>6, <2>7
<1> QED  BY <1>4, <1>5

\* Two blocks of the list that begin at one address are one.
LEMMA OneBlockPerAddress ==
    ASSUME NEW l, IsList(l), Disjoint(l), NEW i \in DOMAIN l, NEW j \in DOMAIN l,
           l[i].addr = l[j].addr
    PROVE  i = j
<1>1. l \in Seq(Block)
  BY DEF IsList
<1>2. DOMAIN l = 1 .. Len(l)
  BY <1>1, LenProperties
<1>3. /\ l[i] \in Block /\ l[j] \in Block /\ Proper(l[i]) /\ Proper(l[j])
  BY <1>1, <1>2, ElementOfSeq DEF IsList
<1>4. l[i].addr \in Nat /\ Within(l[i].addr, l[i]) /\ Within(l[i].addr, l[j])
  BY <1>3 DEF Block, Proper, Within, End
<1> QED  BY <1>4 DEF Disjoint

\* A pass of kmalloc that finds a block.
LEMMA Taken ==
    ASSUME IsList(heap), Disjoint(heap), Merged(heap), Holds(heap, held), Distinct(held),
           held \subseteq [ptr : Nat, size : Sizes],
           NEW size \in Sizes, NEW i, i = FirstFit(align4(size)), i # 0,
           Take(i, align4(size), size)
    PROVE  /\ IsList(heap') /\ Disjoint(heap') /\ Merged(heap') /\ Holds(heap', held')
           /\ \A x \in Nat : Covered(x, heap') <=> Covered(x, heap)
           /\ Distinct(held') /\ held' \subseteq [ptr : Nat, size : Sizes]
<1>1. i \in DOMAIN heap /\ heap[i].free /\ heap[i].size >= Need(align4(size))
  BY Fit
<1> DEFINE m == heap'
           new == [ptr |-> heap[i].addr + HeaderSize, size |-> size]
<1>2. m = Carve(i, align4(size)) /\ held' = held \cup {new}
  BY DEF Take
<1>3. heap[i].addr \in Nat
  <2>1. heap \in Seq(Block)
    BY DEF IsList
  <2>2. i \in 1 .. Len(heap)
    BY <1>1, <2>1, LenProperties
  <2>3. heap[i] \in Block
    BY <2>1, <2>2, ElementOfSeq
  <2> QED  BY <2>3 DEF Block
<1>4. new \in [ptr : Nat, size : Sizes] /\ new.ptr - HeaderSize = heap[i].addr /\ new.size = size
      /\ new.ptr = heap[i].addr + HeaderSize
  BY <1>3, Constants_
<1>5. /\ IsList(m) /\ Disjoint(m) /\ Merged(m)
      /\ \A x \in Nat : Covered(x, m) <=> Covered(x, heap)
      /\ \E j \in DOMAIN m : /\ m[j].addr = heap[i].addr /\ ~ m[j].free
                             /\ m[j].size >= HeaderSize + size
      /\ \A k \in DOMAIN heap : ~ heap[k].free => \E j \in DOMAIN m : m[j] = heap[k]
      /\ \A j \in DOMAIN m : ~ m[j].free =>
            m[j].addr = heap[i].addr \/ \E k \in DOMAIN heap : m[j] = heap[k]
  <2> HIDE DEF m
  <2> QED  BY <1>1, <1>2, Carved
<1>6. \A h \in held : h.ptr # new.ptr
  <2> SUFFICES ASSUME NEW h \in held, h.ptr = new.ptr PROVE FALSE
    OBVIOUS
  <2>1. PICK j \in DOMAIN heap : heap[j].addr = h.ptr - HeaderSize /\ ~ heap[j].free
    BY DEF Holds
  <2>2. heap[j].addr = heap[i].addr
    BY <1>4, <2>1
  <2> QED  BY <1>1, <2>1, <2>2, OneBlockPerAddress
<1> HIDE DEF m, new
<1>7. Distinct(held') /\ held' \subseteq [ptr : Nat, size : Sizes]
  BY <1>2, <1>4, <1>6 DEF Distinct
<1>8. Holds(m, held')
  <2>1. ASSUME NEW h \in held'
        PROVE  \E j \in DOMAIN m : /\ m[j].addr = h.ptr - HeaderSize /\ ~ m[j].free
                                   /\ m[j].size >= HeaderSize + h.size
    <3>1. CASE h = new
      BY <1>4, <1>5, <3>1
    <3>2. CASE h \in held
      <4>1. PICK k \in DOMAIN heap : /\ heap[k].addr = h.ptr - HeaderSize /\ ~ heap[k].free
                                     /\ heap[k].size >= HeaderSize + h.size
        BY <3>2 DEF Holds
      <4>2. PICK j \in DOMAIN m : m[j] = heap[k]
        BY <1>5, <4>1
      <4> QED  BY <4>1, <4>2
    <3> QED  BY <1>2, <3>1, <3>2
  <2>2. ASSUME NEW j \in DOMAIN m, ~ m[j].free
        PROVE  \E h \in held' : h.ptr = m[j].addr + HeaderSize
    <3>1. CASE m[j].addr = heap[i].addr
      BY <1>2, <1>4, <3>1
    <3>2. CASE \E k \in DOMAIN heap : m[j] = heap[k]
      <4>1. PICK k \in DOMAIN heap : m[j] = heap[k]
        BY <3>2
      <4>2. PICK h \in held : h.ptr = heap[k].addr + HeaderSize
        BY <2>2, <4>1 DEF Holds
      <4> QED  BY <1>2, <4>1, <4>2
    <3> QED  BY <1>5, <2>2, <3>1, <3>2
  <2> QED  BY <2>1, <2>2 DEF Holds
<1> QED  BY <1>5, <1>7, <1>8 DEF m

\* What heap_grow makes of the list with a page that was not the heap's.
LEMMA PageAdded ==
    ASSUME IsList(heap), Disjoint(heap), Merged(heap), Holds(heap, held),
           held \subseteq [ptr : Nat, size : Sizes],
           NEW pages, Tiles(heap, pages), NEW p \in Nat, p \notin pages,
           NEW m, m = AddPage(p)
    PROVE  /\ IsList(m) /\ Disjoint(m) /\ Merged(m) /\ Holds(m, held)
           /\ Tiles(m, pages \cup {p})
<1>1. PICK c \in Block : /\ c.addr = p * PageSize /\ c.size = PageSize /\ c.free
                         /\ c = [addr |-> p * PageSize, size |-> PageSize, free |-> TRUE]
  <2>1. p * PageSize \in Nat /\ PageSize \in Nat
    BY PageAligned, Constants_
  <2> QED  BY <2>1 DEF Block
<1>2. Proper(c) /\ \A x \in Nat : Within(x, c) <=> x \div PageSize = p
  <2>1. p * PageSize \in Nat /\ (p * PageSize) % 4 = 0
    BY PageAligned
  <2>2. Proper(c)
    BY <1>1, <2>1, Constants_ DEF Proper
  <2>3. \A x \in Nat : Within(x, c) <=> p * PageSize <= x /\ x < p * PageSize + PageSize
    BY <1>1 DEF Within, End
  <2> QED  BY <2>2, <2>3, PageOfByte
<1>3. \A x \in Nat : Within(x, c) => ~ Covered(x, heap)
  BY <1>2 DEF Tiles
<1>4. ASSUME NEW l, \A x \in Nat : Covered(x, l) <=> Covered(x, heap) \/ Within(x, c)
      PROVE  Tiles(l, pages \cup {p})
  BY <1>2, <1>4 DEF Tiles
<1>5. heap \in Seq(Block)
  BY DEF IsList
<1>6. Len(heap) \in Nat /\ DOMAIN heap = 1 .. Len(heap)
  BY <1>5, LenProperties
<1>7. CASE heap # <<>> /\ End(Last(heap)) = p * PageSize
  <2>1. PICK n : n = Len(heap)
    OBVIOUS
  <2>2. /\ Last(heap) = heap[n] /\ n \in DOMAIN heap /\ n > 0 /\ heap[n] \in Block
    BY <1>7, <2>1, LastBlock
  <2>3. PICK b \in Block : /\ b.addr = heap[n].addr /\ b.free = heap[n].free
                           /\ b.size = heap[n].size + c.size
                           /\ m = ReplaceAt(heap, n, b)
    <3> DEFINE b == [Last(heap) EXCEPT !.size = @ + PageSize]
    <3>1. /\ b \in Block /\ b.addr = Last(heap).addr /\ b.free = Last(heap).free
          /\ b.size = Last(heap).size + PageSize
      BY <2>2, Constants_, Grown
    <3>2. m = ReplaceAt(heap, n, b)
      BY <1>7, <2>1 DEF AddPage
    <3> HIDE DEF b
    <3> QED  BY <1>1, <2>2, <3>1, <3>2
  <2>4. c.addr = End(heap[n])
    BY <1>1, <1>7, <2>2
  <2>5. /\ IsList(m) /\ Disjoint(m) /\ (Merged(heap) => Merged(m))
        /\ \A x \in Nat : Covered(x, m) <=> Covered(x, heap) \/ Within(x, c)
        /\ DOMAIN m = DOMAIN heap
        /\ \A j \in DOMAIN heap : m[j] = IF j = n THEN b ELSE heap[j]
    BY <1>2, <1>3, <2>1, <2>2, <2>3, <2>4, Enlarged
  <2>6. \A j \in DOMAIN heap : m[j].addr = heap[j].addr /\ m[j].free = heap[j].free
    BY <2>3, <2>5
  <2>7. Holds(m, held)
    <3>1. ASSUME NEW h \in held
          PROVE  \E j \in DOMAIN m : /\ m[j].addr = h.ptr - HeaderSize /\ ~ m[j].free
                                     /\ m[j].size >= HeaderSize + h.size
      <4>1. PICK j \in DOMAIN heap : /\ heap[j].addr = h.ptr - HeaderSize /\ ~ heap[j].free
                                     /\ heap[j].size >= HeaderSize + h.size
        BY DEF Holds
      <4>2. heap[j].size \in Nat /\ h.size \in Nat
        <5>1. heap[j] \in Block /\ h.size \in Sizes
          BY <1>5, <1>6, ElementOfSeq
        <5> QED  BY <5>1, HeapAssumption DEF Block
      <4>3. m[j].size >= HeaderSize + h.size
        <5>1. c.size \in Nat /\ HeaderSize \in Nat
          BY Constants_ DEF Block
        <5>2. m[j].size = heap[j].size \/ m[j].size = heap[j].size + c.size
          BY <2>3, <2>5
        <5> QED  BY <4>1, <4>2, <5>1, <5>2
      <4> QED  BY <2>5, <2>6, <4>1, <4>3
    <3>2. \A j \in DOMAIN m : ~ m[j].free => \E h \in held : h.ptr = m[j].addr + HeaderSize
      BY <2>5, <2>6 DEF Holds
    <3> QED  BY <3>1, <3>2 DEF Holds
  <2> QED  BY <1>4, <2>5, <2>7
<1>8. CASE ~ (heap # <<>> /\ End(Last(heap)) = p * PageSize)
  <2>1. m = Append(heap, c)
    BY <1>1, <1>8 DEF AddPage
  <2>2. /\ IsList(m) /\ Disjoint(m)
        /\ \A x \in Nat : Covered(x, m) <=> Covered(x, heap) \/ Within(x, c)
        /\ Len(m) = Len(heap) + 1 /\ DOMAIN m = 1 .. Len(heap) + 1
        /\ m[Len(heap) + 1] = c /\ \A j \in DOMAIN heap : m[j] = heap[j]
    BY <1>2, <1>3, <2>1, Appended
  <2>3. Len(heap) > 0 =>
          ~ (heap[Len(heap)].free /\ c.free /\ End(heap[Len(heap)]) = c.addr)
    <3> SUFFICES ASSUME Len(heap) > 0 PROVE End(heap[Len(heap)]) # c.addr
      OBVIOUS
    <3>1. heap # <<>>
      BY EmptySeq
    <3> QED  BY <1>1, <1>8, <3>1, LastBlock
  <2>4. Merged(m)
    BY <1>6, <2>2, <2>3, AppendedMerged
  <2>5. Holds(m, held)
    <3>1. ASSUME NEW h \in held
          PROVE  \E j \in DOMAIN m : /\ m[j].addr = h.ptr - HeaderSize /\ ~ m[j].free
                                     /\ m[j].size >= HeaderSize + h.size
      <4>1. PICK j \in DOMAIN heap : /\ heap[j].addr = h.ptr - HeaderSize /\ ~ heap[j].free
                                     /\ heap[j].size >= HeaderSize + h.size
        BY DEF Holds
      <4>2. j \in DOMAIN m /\ m[j] = heap[j]
        BY <1>6, <2>2
      <4> QED  BY <4>1, <4>2
    <3>2. ASSUME NEW j \in DOMAIN m, ~ m[j].free
          PROVE  \E h \in held : h.ptr = m[j].addr + HeaderSize
      <4>1. j # Len(heap) + 1
        BY <1>1, <2>2, <3>2
      <4>2. j \in DOMAIN heap /\ m[j] = heap[j]
        BY <1>6, <2>2, <4>1
      <4> QED  BY <3>2, <4>2 DEF Holds
    <3> QED  BY <3>1, <3>2 DEF Holds
  <2> QED  BY <1>4, <2>2, <2>4, <2>5
<1> QED  BY <1>7, <1>8

\* What kfree makes of the list.
LEMMA Freed ==
    ASSUME IsList(heap), Disjoint(heap), Holds(heap, held), Distinct(held),
           held \subseteq [ptr : Nat, size : Sizes], NEW h \in held, kfree(h)
    PROVE  /\ IsList(heap') /\ Disjoint(heap') /\ Merged(heap') /\ Holds(heap', held')
           /\ \A x \in Nat : Covered(x, heap') <=> Covered(x, heap)
           /\ Distinct(held')
<1> DEFINE g(i) == [heap[i] EXCEPT !.free = TRUE]
           f == [i \in DOMAIN heap |-> IF heap[i].addr = h.ptr - HeaderSize THEN g(i)
                                       ELSE heap[i]]
           m == heap'
<1>1. heap \in Seq(Block)
  BY DEF IsList
<1>2. Len(heap) \in Nat /\ DOMAIN heap = 1 .. Len(heap)
  BY <1>1, LenProperties
<1>3. ASSUME NEW i \in DOMAIN heap
      PROVE  /\ heap[i] \in Block
             /\ g(i) \in Block /\ g(i).addr = heap[i].addr /\ g(i).size = heap[i].size
             /\ g(i).free
  <2>1. PICK b \in Block : b = heap[i]
    BY <1>1, <1>2, ElementOfSeq
  <2>2. g(i) = [b EXCEPT !.free = TRUE]
    BY <2>1
  <2>3. LET d == [b EXCEPT !.free = TRUE]
        IN  d \in Block /\ d.addr = b.addr /\ d.size = b.size /\ d.free
    BY DEF Block
  <2> HIDE DEF g
  <2> QED  BY <2>1, <2>2, <2>3
<1>4. m = Coalesce(f) /\ held' = held \ {h}
  BY DEF kfree
<1> HIDE DEF g, m
<1>5. f \in [1 .. Len(heap) -> Block]
  BY <1>2, <1>3
<1>6. /\ \A i \in DOMAIN heap : /\ f[i].addr = heap[i].addr /\ f[i].size = heap[i].size
                                /\ heap[i].addr = h.ptr - HeaderSize => f[i].free
                                /\ heap[i].addr # h.ptr - HeaderSize => f[i] = heap[i]
      /\ DOMAIN f = DOMAIN heap
  BY <1>3
<1> HIDE DEF f
<1>7. f \in Seq(Block) /\ Len(f) = Len(heap)
  <2>1. f \in Seq(Block)
    BY <1>2, <1>5, SeqDef
  <2>2. DOMAIN f = 1 .. Len(f) /\ Len(f) \in Nat
    BY <2>1, LenProperties
  <2> QED  BY <1>2, <1>6, <2>1, <2>2
<1>8. IsList(f) /\ Disjoint(f) /\ \A x \in Nat : Covered(x, f) <=> Covered(x, heap)
  BY <1>2, <1>6, <1>7, SamePlaces
<1>9. /\ IsList(m) /\ Disjoint(m) /\ Merged(m)
      /\ \A x \in Nat : Covered(x, m) <=> Covered(x, f)
      /\ SameAllocated(f, m)
  BY <1>4, <1>8, Coalesced
<1>10. Holds(m, held')
  <2>1. ASSUME NEW e \in held'
        PROVE  \E j \in DOMAIN m : /\ m[j].addr = e.ptr - HeaderSize /\ ~ m[j].free
                                   /\ m[j].size >= HeaderSize + e.size
    <3>1. PICK k \in DOMAIN heap : /\ heap[k].addr = e.ptr - HeaderSize /\ ~ heap[k].free
                                   /\ heap[k].size >= HeaderSize + e.size
      BY <1>4 DEF Holds
    <3>2. e.ptr # h.ptr /\ e.ptr \in Nat /\ h.ptr \in Nat
      BY <1>4 DEF Distinct
    <3>3. f[k] = heap[k] /\ k \in DOMAIN f
      BY <1>6, <3>1, <3>2, Constants_
    <3>4. PICK j \in DOMAIN m : m[j] = f[k]
      BY <1>9, <3>1, <3>3 DEF SameAllocated
    <3> QED  BY <3>1, <3>3, <3>4
  <2>2. ASSUME NEW j \in DOMAIN m, ~ m[j].free
        PROVE  \E e \in held' : e.ptr = m[j].addr + HeaderSize
    <3>1. PICK k \in DOMAIN f : f[k] = m[j]
      BY <1>9, <2>2 DEF SameAllocated
    <3>2. heap[k].addr # h.ptr - HeaderSize /\ f[k] = heap[k] /\ k \in DOMAIN heap
      BY <1>6, <2>2, <3>1
    <3>3. PICK e \in held : e.ptr = heap[k].addr + HeaderSize
      BY <2>2, <3>1, <3>2 DEF Holds
    <3>4. e # h
      <4>1. heap[k].addr \in Nat
        BY <1>3, <3>2 DEF Block
      <4> QED  BY <3>2, <3>3, <4>1, Constants_
    <3> QED  BY <1>4, <3>1, <3>2, <3>3, <3>4
  <2> QED  BY <2>1, <2>2 DEF Holds
<1>11. Distinct(held')
  BY <1>4 DEF Distinct
<1> QED  BY <1>8, <1>9, <1>10, <1>11 DEF m

-----------------------------------------------------------------------------
(* The pages                                                               *)

\* The steps of the page allocator keep its invariant.
LEMMA PagesInv ==
    ASSUME PP!IInv,
           \/ P!Boot \/ P!pmm_alloc_page \/ P!pmm_alloc_fails \/ UNCHANGED pmmVars
           \/ \E p \in 0 .. MaxPages - 1 : P!pmm_free_page(p * PageSize)
    PROVE  PP!IInv'
<1>1. PP!PmmAssumption
  BY Constants_
<1>2. P!Boot => PP!Boot
  BY DEF P!Boot, PP!Boot, P!pmm_init, PP!pmm_init, P!Pages, PP!Pages
<1>3. P!pmm_alloc_page => PP!pmm_alloc_page
  BY DEF P!pmm_alloc_page, PP!pmm_alloc_page, P!Hit, PP!Hit, P!PageAt, PP!PageAt
<1>4. P!pmm_alloc_fails => PP!pmm_alloc_fails
  BY DEF P!pmm_alloc_fails, PP!pmm_alloc_fails, P!Exhausted, PP!Exhausted, P!Hit, PP!Hit,
         P!PageAt, PP!PageAt, P!NoPage, PP!NoPage
<1>5. ASSUME NEW p \in 0 .. MaxPages - 1, P!pmm_free_page(p * PageSize) PROVE PP!Free
  BY <1>5 DEF PP!Free, P!pmm_free_page, PP!pmm_free_page, P!Freeable, PP!Freeable,
              P!Managed, PP!Managed
<1>6. UNCHANGED pmmVars => UNCHANGED PP!pmmVars
  BY DEF pmmVars, PP!pmmVars
<1>7. [PP!Next]_(PP!pmmVars)
  BY <1>2, <1>3, <1>4, <1>5, <1>6 DEF PP!Next
<1> QED  BY <1>1, <1>7, PP!NextInv

\* The page allocator in numbers.
LEMMA PagesType ==
    ASSUME PP!IInv
    PROVE  /\ P!TypeOK /\ MaxPages \in Nat /\ ReservedPages \in Nat /\ ReservedPages > 0
           /\ bitmap \subseteq 0 .. MaxPages - 1 /\ total \in Nat /\ total <= MaxPages
           /\ P!Managed \subseteq 0 .. MaxPages - 1
           /\ last = 0 => P!Managed = {}
<1>1. /\ MaxPages \in Nat /\ ReservedPages \in Nat /\ ReservedPages > 0
  BY Constants_ DEF PP!PmmAssumption
<1>2. P!TypeOK
  BY DEF PP!IInv, PP!TypeOK, P!TypeOK, PP!Pages, P!Pages, PP!NoPage, P!NoPage
<1>3. last = 0 => total = 0
  BY <1>1 DEF PP!IInv, PP!HintFits
<1>4. bitmap \subseteq 0 .. MaxPages - 1 /\ total \in Nat /\ total <= MaxPages
  BY <1>1, <1>2 DEF P!TypeOK, P!Pages
<1> QED  BY <1>1, <1>2, <1>3, <1>4 DEF P!Managed

\* A page that is granted was free, and nothing else changes.
LEMMA Granted ==
    ASSUME PP!IInv, P!pmm_alloc_page
    PROVE  /\ answer' \in P!Managed \ bitmap /\ answer' \in Nat
           /\ bitmap' = bitmap \cup {answer'} /\ P!Managed' = P!Managed
<1>1. PICK off \in 0 .. total - 1 :
        /\ P!Hit(off)
        /\ bitmap' = bitmap \cup {P!PageAt(off)} /\ answer' = P!PageAt(off) /\ total' = total
  BY DEF P!pmm_alloc_page
<1>2. PP!PageAt(off) = P!PageAt(off) /\ PP!Managed = P!Managed
  BY DEF P!PageAt, PP!PageAt, P!Managed, PP!Managed
<1>3. PP!PageAt(off) >= ReservedPages => PP!PageAt(off) \in PP!Managed
  BY Constants_, PP!ScanInside DEF PP!IInv
<1>4. P!PageAt(off) \in P!Managed \ bitmap
  BY <1>1, <1>2, <1>3 DEF P!Hit
<1>5. P!Managed \subseteq Nat
  BY PagesType
<1> QED  BY <1>1, <1>4, <1>5 DEF P!Managed

-----------------------------------------------------------------------------
(* The invariant                                                           *)

\* Nothing is managed, held or listed before pmm_init.
LEMMA InitInv == Init => IInv
<1> SUFFICES ASSUME Init PROVE IInv
  OBVIOUS
<1>1. PP!IInv
  <2>1. PP!Init
    BY DEF Init, P!Init, PP!Init, P!NoPage, PP!NoPage
  <2> QED  BY <2>1, Constants_, PP!InitInv
<1>2. P!Managed = {}
  BY <1>1, PagesType DEF Init, P!Init
<1>3. TypeInv /\ Distinct(held)
  BY DEF Init, TypeInv, Idle, Distinct
<1>4. DOMAIN heap = {} /\ Len(heap) = 0 /\ heap \in Seq(Block)
  BY EmptySeq, LenProperties DEF Init
<1>5. IsList(heap) /\ Disjoint(heap) /\ Holds(heap, held)
  BY <1>4 DEF Init, IsList, Disjoint, Holds
<1>6. Merged(heap)
  <2>1. 1 .. Len(heap) - 1 = {}
    BY <1>4
  <2> QED  BY <2>1 DEF Merged
<1>7. Tiles(heap, HeapPages)
  BY <1>2, <1>4 DEF Tiles, Covered, HeapPages
<1> QED  BY <1>1, <1>3, <1>5, <1>6, <1>7 DEF IInv, ListInv

\* pmm_init comes before the heap has anything.
LEMMA BootInv == IInv /\ Boot => IInv'
<1> SUFFICES ASSUME IInv, Boot PROVE IInv'
  OBVIOUS
<1>1. PICK kb \in MemSizes : P!pmm_init(kb)
  BY DEF Boot, P!Boot
<1>2. last = 0 /\ UNCHANGED <<heap, call, held, others>>
  BY <1>1 DEF Boot, heapVars, P!pmm_init
<1>3. P!Managed = {} /\ HeapPages = {} /\ others = {}
  BY <1>2, PagesType DEF IInv, TypeInv, HeapPages
<1>4. PP!IInv'
  BY PagesInv DEF IInv, Boot
<1>5. (P!Managed \cap bitmap)' = {}
  BY <1>1 DEF P!pmm_init, P!Managed
<1>6. HeapPages' = {}
  BY <1>5 DEF HeapPages
<1>7. TypeInv'
  BY <1>2, <1>3, <1>5 DEF IInv, TypeInv
<1>8. ListInv' /\ Distinct(held')
  BY <1>2, <1>3, <1>6 DEF IInv, ListInv
<1> QED  BY <1>4, <1>7, <1>8 DEF IInv

\* Steps in which pages do not change hands.
LEMMA SamePages ==
    ASSUME IInv, UNCHANGED <<bitmap, total, others>>
    PROVE  /\ (P!Managed \cap bitmap)' = P!Managed \cap bitmap /\ HeapPages' = HeapPages
           /\ others' \subseteq (P!Managed \cap bitmap)'
           /\ \A l : Tiles(l, HeapPages') <=> Tiles(l, HeapPages)
<1>1. (P!Managed \cap bitmap)' = P!Managed \cap bitmap
  BY DEF P!Managed
<1>2. HeapPages' = HeapPages
  BY <1>1 DEF HeapPages
<1> QED  BY <1>1, <1>2 DEF IInv, TypeInv

\* A request that is served keeps the invariant of the list.
LEMMA ServedInv ==
    ASSUME IInv, UNCHANGED <<bitmap, total, others>>, NEW size \in Sizes,
           FirstFit(align4(size)) # 0, Take(FirstFit(align4(size)), align4(size), size)
    PROVE  ListInv' /\ Distinct(held)' /\ (held \subseteq [ptr : Nat, size : Sizes])'
<1>1. /\ IsList(heap) /\ Disjoint(heap) /\ Merged(heap) /\ Holds(heap, held) /\ Distinct(held)
      /\ held \subseteq [ptr : Nat, size : Sizes] /\ Tiles(heap, HeapPages)
  BY DEF IInv, ListInv, TypeInv
<1>2. PICK i : i = FirstFit(align4(size))
  OBVIOUS
<1>3. /\ IsList(heap') /\ Disjoint(heap') /\ Merged(heap') /\ Holds(heap', held')
      /\ \A x \in Nat : Covered(x, heap') <=> Covered(x, heap)
      /\ Distinct(held') /\ held' \subseteq [ptr : Nat, size : Sizes]
  BY <1>1, <1>2, Taken
<1>4. Tiles(heap', HeapPages')
  BY <1>1, <1>3, SamePages DEF Tiles
<1> QED  BY <1>3, <1>4 DEF ListInv

\* A kmalloc that finds a block leaves the allocator alone.
LEMMA AtOnceInv ==
    ASSUME IInv, NEW size \in Sizes, kmalloc_at_once(size)
    PROVE  IInv'
<1>1. UNCHANGED <<pmmVars, call, others>> /\ UNCHANGED <<bitmap, total, others>>
  BY DEF kmalloc_at_once, pmmVars
<1>2. FirstFit(align4(size)) # 0 /\ Take(FirstFit(align4(size)), align4(size), size)
  BY DEF kmalloc_at_once
<1>3. ListInv' /\ Distinct(held)' /\ (held \subseteq [ptr : Nat, size : Sizes])'
  BY <1>1, <1>2, ServedInv
<1>4. PP!IInv'
  BY <1>1, PagesInv DEF IInv
<1>5. TypeInv'
  BY <1>1, <1>3, SamePages DEF IInv, TypeInv
<1> QED  BY <1>3, <1>4, <1>5 DEF IInv

\* A kmalloc that finds none changes only what it is waiting for.
LEMMA GrowsInv ==
    ASSUME IInv, NEW size \in Sizes, kmalloc_grows(size)
    PROVE  IInv'
<1>1. /\ UNCHANGED <<pmmVars, heap, held, others>> /\ UNCHANGED <<bitmap, total, others>>
  BY DEF kmalloc_grows, pmmVars
<1>2. PICK w \in Nat : w = Need(align4(size))
  BY Request
<1>3. ((w + PageSize - 1) % WordSize) \div PageSize \in Nat
  <2>1. w + PageSize - 1 \in Nat /\ PageSize \in Nat \ {0}
    BY Constants_
  <2>2. WordSize \in Nat \ {0}
    BY HeapAssumption
  <2>3. PICK r \in Nat : r = (w + PageSize - 1) % WordSize
    BY <2>1, <2>2
  <2>4. r \div PageSize \in Nat
    BY <2>1
  <2> QED  BY <2>3, <2>4
<1>4. /\ call'.size = size /\ call'.size \in Sizes
      /\ call' \in [size : Sizes \cup {0}, left : Nat, grown : BOOLEAN]
  BY <1>2, <1>3 DEF kmalloc_grows
<1>5. PP!IInv'
  BY <1>1, PagesInv DEF IInv
<1>6. TypeInv'
  BY <1>1, <1>4, SamePages DEF IInv, TypeInv
<1>7. ListInv' /\ Distinct(held)'
  BY <1>1, SamePages DEF IInv, ListInv
<1> QED  BY <1>5, <1>6, <1>7 DEF IInv

\* A page more is a new block, or the end of the last one.
LEMMA HeapGrowInv == IInv /\ heap_grow => IInv'
<1> SUFFICES ASSUME IInv, heap_grow PROVE IInv'
  OBVIOUS
<1>1. /\ call.left > 0 /\ P!pmm_alloc_page /\ heap' = AddPage(answer')
      /\ UNCHANGED <<held, others>> /\ call' = [call EXCEPT !.left = @ - 1, !.grown = TRUE]
  BY DEF heap_grow
<1>2. /\ answer' \in P!Managed \ bitmap /\ answer' \in Nat
      /\ bitmap' = bitmap \cup {answer'} /\ P!Managed' = P!Managed
  BY <1>1, Granted DEF IInv
<1>3. answer' \notin HeapPages /\ HeapPages' = HeapPages \cup {answer'}
  BY <1>1, <1>2 DEF HeapPages, IInv, TypeInv
<1>4. PP!IInv'
  BY <1>1, PagesInv DEF IInv
<1>5. call # Idle /\ call \in [size : Sizes \cup {0}, left : Nat, grown : BOOLEAN]
      /\ call.size \in Sizes
  <2>1. call # Idle
    <3>1. call.left > 0
      BY <1>1
    <3> QED  BY <3>1 DEF Idle
  <2> QED  BY <2>1 DEF IInv, TypeInv
<1>6. call' \in [size : Sizes \cup {0}, left : Nat, grown : BOOLEAN] /\ call'.size = call.size
  <2>1. PICK c \in [size : Sizes \cup {0}, left : Nat, grown : BOOLEAN] : c = call
    BY <1>5
  <2>2. c.left \in Nat /\ c.left > 0 /\ c.left - 1 \in Nat
    <3>1. c.left \in Nat /\ c.left > 0
      BY <1>1, <2>1
    <3> QED  BY <3>1
  <2>3. call' = [c EXCEPT !.left = c.left - 1, !.grown = TRUE]
    BY <1>1, <2>1
  <2> QED  BY <2>1, <2>2, <2>3
<1>7. TypeInv'
  BY <1>1, <1>2, <1>5, <1>6 DEF IInv, TypeInv
<1>8. /\ IsList(heap') /\ Disjoint(heap') /\ Merged(heap') /\ Holds(heap', held)
      /\ Tiles(heap', HeapPages \cup {answer'})
  <2>1. PICK p \in Nat : p = answer'
    BY <1>2
  <2>2. PICK m : m = heap'
    OBVIOUS
  <2>3. m = AddPage(p) /\ p \notin HeapPages
    BY <1>1, <1>3, <2>1, <2>2
  <2>4. /\ IsList(heap) /\ Disjoint(heap) /\ Merged(heap) /\ Holds(heap, held)
        /\ held \subseteq [ptr : Nat, size : Sizes] /\ Tiles(heap, HeapPages)
    BY DEF IInv, ListInv, TypeInv
  <2>5. /\ IsList(m) /\ Disjoint(m) /\ Merged(m) /\ Holds(m, held)
        /\ Tiles(m, HeapPages \cup {p})
    BY <2>3, <2>4, PageAdded
  <2> QED  BY <2>1, <2>2, <2>5
<1>9. ListInv' /\ Distinct(held)'
  BY <1>1, <1>3, <1>8 DEF IInv, ListInv
<1> QED  BY <1>4, <1>7, <1>9 DEF IInv

\* Without a page the list stays as it is; the second search follows, or the call has ended.
LEMMA GrowFailsInv == IInv /\ heap_grow_fails => IInv'
<1> SUFFICES ASSUME IInv, heap_grow_fails PROVE IInv'
  OBVIOUS
<1>1. /\ call.left > 0 /\ P!pmm_alloc_fails /\ UNCHANGED <<heap, held, others>>
      /\ call' = (IF call.grown THEN [call EXCEPT !.left = 0] ELSE Idle)
      /\ UNCHANGED <<bitmap, total, others>>
  BY DEF heap_grow_fails, P!pmm_alloc_fails
<1>2. PP!IInv'
  BY <1>1, PagesInv DEF IInv
<1>3. call # Idle /\ call \in [size : Sizes \cup {0}, left : Nat, grown : BOOLEAN]
      /\ call.size \in Sizes
  BY <1>1 DEF Idle, IInv, TypeInv
<1>4. /\ call' \in [size : Sizes \cup {0}, left : Nat, grown : BOOLEAN]
      /\ call' # Idle => call'.size \in Sizes
  BY <1>1, <1>3 DEF Idle
<1>5. TypeInv'
  BY <1>1, <1>4, SamePages DEF IInv, TypeInv
<1>6. ListInv' /\ Distinct(held)'
  BY <1>1, SamePages DEF IInv, ListInv
<1> QED  BY <1>2, <1>5, <1>6 DEF IInv

\* The second search takes a block or gives up.
LEMMA AgainInv == IInv /\ kmalloc_again => IInv'
<1> SUFFICES ASSUME IInv, kmalloc_again PROVE IInv'
  OBVIOUS
<1>1. /\ call # Idle /\ call' = Idle /\ UNCHANGED <<pmmVars, others>>
      /\ UNCHANGED <<bitmap, total, others>>
  BY DEF kmalloc_again, pmmVars
<1>2. PICK size \in Sizes : size = call.size
  BY <1>1 DEF IInv, TypeInv
<1>3. PP!IInv'
  BY <1>1, PagesInv DEF IInv
<1>4. ListInv' /\ Distinct(held)' /\ (held \subseteq [ptr : Nat, size : Sizes])'
  <2>1. CASE FirstFit(align4(size)) = 0
    <3>1. UNCHANGED <<heap, held>>
      BY <1>2, <2>1 DEF kmalloc_again
    <3> QED  BY <1>1, <3>1, SamePages DEF IInv, ListInv, TypeInv
  <2>2. CASE FirstFit(align4(size)) # 0
    <3>1. Take(FirstFit(align4(size)), align4(size), size)
      BY <1>2, <2>2 DEF kmalloc_again
    <3> QED  BY <1>1, <2>2, <3>1, ServedInv
  <2> QED  BY <2>1, <2>2
<1>5. call' \in [size : Sizes \cup {0}, left : Nat, grown : BOOLEAN]
  BY <1>1 DEF Idle
<1>6. TypeInv'
  BY <1>1, <1>4, <1>5, SamePages DEF IInv, TypeInv
<1> QED  BY <1>3, <1>4, <1>6 DEF IInv

\* kfree takes the block from its holder and merges the list.
LEMMA KfreeInv ==
    ASSUME IInv, NEW h \in held, kfree(h)
    PROVE  IInv'
<1>1. /\ UNCHANGED <<pmmVars, call, others>> /\ UNCHANGED <<bitmap, total, others>>
      /\ held' \subseteq held
  BY DEF kfree, pmmVars
<1>2. PP!IInv'
  BY <1>1, PagesInv DEF IInv
<1>3. TypeInv'
  BY <1>1, SamePages DEF IInv, TypeInv
<1>4. /\ IsList(heap) /\ Disjoint(heap) /\ Holds(heap, held) /\ Distinct(held)
      /\ held \subseteq [ptr : Nat, size : Sizes] /\ Tiles(heap, HeapPages)
  BY DEF IInv, ListInv, TypeInv
<1>5. /\ IsList(heap') /\ Disjoint(heap') /\ Merged(heap') /\ Holds(heap', held')
      /\ \A x \in Nat : Covered(x, heap') <=> Covered(x, heap)
      /\ Distinct(held')
  BY <1>4, Freed
<1>6. Tiles(heap', HeapPages')
  BY <1>1, <1>4, <1>5, SamePages DEF Tiles
<1> QED  BY <1>2, <1>3, <1>5, <1>6 DEF IInv, ListInv

\* Other clients take pages that are nobody's.
LEMMA TakesInv == IInv /\ OtherTakes => IInv'
<1> SUFFICES ASSUME IInv, OtherTakes PROVE IInv'
  OBVIOUS
<1>1. P!pmm_alloc_page /\ others' = others \cup {answer'} /\ UNCHANGED <<heap, call, held>>
  BY DEF OtherTakes, heapVars
<1>2. /\ answer' \in P!Managed \ bitmap /\ answer' \in Nat
      /\ bitmap' = bitmap \cup {answer'} /\ P!Managed' = P!Managed
  BY <1>1, Granted DEF IInv
<1>3. HeapPages' = HeapPages
  BY <1>1, <1>2 DEF HeapPages
<1>4. PP!IInv'
  BY <1>1, PagesInv DEF IInv
<1>5. TypeInv'
  BY <1>1, <1>2 DEF IInv, TypeInv
<1>6. ListInv' /\ Distinct(held)'
  BY <1>1, <1>3 DEF IInv, ListInv
<1> QED  BY <1>4, <1>5, <1>6 DEF IInv

\* Other clients return pages of their own, never the heap's.
LEMMA ReturnsInv ==
    ASSUME IInv, NEW p \in others, OtherReturns(p)
    PROVE  IInv'
<1>1. /\ P!pmm_free_page(p * PageSize) /\ others' = others \ {p}
      /\ UNCHANGED <<heap, call, held>>
  BY DEF OtherReturns, heapVars
<1>2. p \in 0 .. MaxPages - 1 /\ p \in Nat
  BY PagesType DEF IInv, TypeInv
<1>3. (p * PageSize) \div PageSize = p
  <2>1. p * PageSize \in Nat /\ PageSize > 0 /\ PageSize \in Nat
    BY <1>2, PageAligned, Constants_
  <2> QED  BY <1>2, <2>1, PageOfByte
<1>4. bitmap' = bitmap \ {p} /\ P!Managed' = P!Managed
  BY <1>1, <1>3 DEF P!pmm_free_page, P!Managed
<1>5. PP!IInv'
  BY <1>1, <1>2, PagesInv DEF IInv
<1>6. HeapPages' = HeapPages
  BY <1>1, <1>4 DEF HeapPages
<1>7. TypeInv'
  BY <1>1, <1>4 DEF IInv, TypeInv
<1>8. ListInv' /\ Distinct(held)'
  BY <1>1, <1>6 DEF IInv, ListInv
<1> QED  BY <1>5, <1>7, <1>8 DEF IInv

\* Every step keeps the invariant.
LEMMA NextInv == IInv /\ [Next]_vars => IInv'
<1> SUFFICES ASSUME IInv, [Next]_vars PROVE IInv'
  OBVIOUS
<1>1. CASE UNCHANGED vars
  <2>1. UNCHANGED <<pmmVars, heap, call, held, others>> /\ UNCHANGED <<bitmap, total, others>>
    BY <1>1 DEF vars, heapVars, pmmVars
  <2>2. PP!IInv'
    BY <2>1, PagesInv DEF IInv
  <2>3. TypeInv' /\ ListInv' /\ Distinct(held)'
    BY <2>1, SamePages DEF IInv, TypeInv, ListInv
  <2> QED  BY <2>2, <2>3 DEF IInv
<1>2. CASE Kmalloc
  BY <1>2, AtOnceInv, GrowsInv, HeapGrowInv, GrowFailsInv, AgainInv DEF Kmalloc, KmallocGoesOn
<1>3. CASE Kfree
  BY <1>3, KfreeInv DEF Kfree
<1>4. CASE Other
  BY <1>4, TakesInv, ReturnsInv DEF Other
<1> QED  BY <1>1, <1>2, <1>3, <1>4, BootInv DEF Next

\* The invariant holds in every reachable state.
THEOREM Invariant == Spec => []IInv
<1> QED  BY InitInv, NextInv, PTL DEF Spec

-----------------------------------------------------------------------------
(* The theorems                                                            *)

\* The variables of the heap keep their types.
THEOREM TypeCorrect == Spec => []TypeOK
<1>1. IInv => TypeOK
  BY PagesType DEF IInv, TypeInv, ListInv, IsList, TypeOK
<1> QED  BY <1>1, Invariant, PTL

\* Blocks neither overlap nor reach into a page of somebody else, and no byte of the
\* heap's pages is lost.
THEOREM BlocksTile == Spec => []BlocksTileThePages
<1>1. IInv => BlocksTileThePages
  <2> SUFFICES ASSUME IInv PROVE BlocksTileThePages
    OBVIOUS
  <2>1. /\ IsList(heap) /\ Disjoint(heap) /\ Tiles(heap, HeapPages) /\ heap \in Seq(Block)
    BY DEF IInv, ListInv, IsList
  <2>2. DOMAIN heap = 1 .. Len(heap) /\ Len(heap) \in Nat
    BY <2>1, LenProperties
  <2>3. ASSUME NEW i \in DOMAIN heap
        PROVE  heap[i].addr \in Nat /\ heap[i].size \in Nat /\ heap[i].size > 0
    <3>1. heap[i] \in Block /\ Proper(heap[i])
      BY <2>1, <2>2, ElementOfSeq DEF IsList
    <3> QED  BY <3>1 DEF Block, Proper
  <2>4. ASSUME NEW i \in DOMAIN heap, NEW j \in DOMAIN heap, i < j
        PROVE  End(heap[i]) <= heap[j].addr \/ End(heap[j]) <= heap[i].addr
    <3>1. /\ heap[i].addr \in Nat /\ heap[i].size \in Nat /\ heap[i].size > 0
          /\ heap[j].addr \in Nat /\ heap[j].size \in Nat /\ heap[j].size > 0
      BY <2>3
    <3> DEFINE x == IF heap[i].addr > heap[j].addr THEN heap[i].addr ELSE heap[j].addr
    <3>2. x \in Nat /\ ~ (Within(x, heap[i]) /\ Within(x, heap[j]))
      BY <2>1, <2>2, <2>4, <3>1 DEF Disjoint
    <3> QED  BY <3>1, <3>2 DEF Within, End
  <2>5. ASSUME NEW i \in DOMAIN heap,
               NEW q \in heap[i].addr \div PageSize .. (End(heap[i]) - 1) \div PageSize
        PROVE  q \in HeapPages
    <3>1. PICK a \in Nat, z \in Nat : a = heap[i].addr /\ z = End(heap[i]) - 1 /\ a <= z
      BY <2>3 DEF End
    <3>2. /\ a \div PageSize \in Nat /\ z \div PageSize \in Nat
          /\ a < (a \div PageSize) * PageSize + PageSize
          /\ (z \div PageSize) * PageSize <= z
      BY Constants_
    <3>3. q \in Nat /\ a \div PageSize <= q /\ q <= z \div PageSize
      BY <2>5, <3>1, <3>2
    <3>4. a < q * PageSize + PageSize /\ q * PageSize <= z /\ q * PageSize \in Nat
      BY <3>2, <3>3, Constants_
    <3> DEFINE x == IF a >= q * PageSize THEN a ELSE q * PageSize
    <3>5. x \in Nat /\ q * PageSize <= x /\ x < q * PageSize + PageSize /\ a <= x /\ x <= z
      BY <3>1, <3>4, Constants_
    <3> HIDE DEF x
    <3>6. x \div PageSize = q
      BY <3>3, <3>5, PageOfByte
    <3>7. Within(x, heap[i])
      <4>1. x < End(heap[i])
        BY <2>3, <3>1, <3>5 DEF End
      <4> QED  BY <3>1, <3>5, <4>1 DEF Within
    <3> QED  BY <2>1, <3>5, <3>6, <3>7 DEF Tiles, Covered
  <2>6. ASSUME NEW p \in HeapPages, NEW x \in p * PageSize .. p * PageSize + PageSize - 1
        PROVE  \E i \in DOMAIN heap : x \in heap[i].addr .. End(heap[i]) - 1
    <3>1. p \in Nat
      BY PagesType DEF IInv, HeapPages
    <3>2. p * PageSize \in Nat
      BY <3>1, PageAligned
    <3>3. x \in Nat /\ x \div PageSize = p
      BY <3>1, <3>2, PageOfByte, Constants_
    <3>4. PICK i \in DOMAIN heap : Within(x, heap[i])
      BY <2>1, <3>3 DEF Tiles, Covered
    <3> QED  BY <2>3, <3>3, <3>4 DEF Within, End
  <2> QED  BY <2>4, <2>5, <2>6 DEF BlocksTileThePages
<1> QED  BY <1>1, Invariant, PTL

\* What a caller has got is an allocated block of its own with room for the size asked for.
THEOREM Room == Spec => []RoomForTheRequest
<1>1. IInv => RoomForTheRequest
  <2> SUFFICES ASSUME IInv, NEW h \in held
               PROVE  /\ h.ptr % 4 = 0
                      /\ \E i \in DOMAIN heap : /\ heap[i].addr = h.ptr - HeaderSize
                                                /\ ~ heap[i].free
                                                /\ heap[i].size >= HeaderSize + h.size
                      /\ \A g \in held : g.ptr = h.ptr => g = h
    BY DEF RoomForTheRequest
  <2>1. PICK i \in DOMAIN heap : /\ heap[i].addr = h.ptr - HeaderSize
                                 /\ ~ heap[i].free
                                 /\ heap[i].size >= HeaderSize + h.size
    BY DEF IInv, ListInv, Holds
  <2>2. heap[i].addr \in Nat /\ heap[i].addr % 4 = 0
    <3>1. heap \in Seq(Block)
      BY DEF IInv, ListInv, IsList
    <3>2. i \in 1 .. Len(heap)
      BY <3>1, LenProperties
    <3>3. heap[i] \in Block /\ Proper(heap[i])
      BY <3>1, <3>2, ElementOfSeq DEF IInv, ListInv, IsList
    <3> QED  BY <3>3 DEF Block, Proper
  <2>3. h.ptr \in Nat
    BY DEF IInv, TypeInv
  <2>4. h.ptr % 4 = 0
    BY <2>1, <2>2, <2>3, Constants_
  <2>5. \A g \in held : g.ptr = h.ptr => g = h
    BY DEF IInv, Distinct
  <2> QED  BY <2>1, <2>4, <2>5
<1> QED  BY <1>1, Invariant, PTL

\* Every allocated block is held by a caller.
THEOREM NothingLost == Spec => []NoOrphans
<1>1. IInv => NoOrphans
  BY DEF IInv, ListInv, Holds, NoOrphans
<1> QED  BY <1>1, Invariant, PTL

\* kfree leaves no two free blocks that touch side by side in the list, and neither does
\* cutting a block or adding a page.
THEOREM NothingToMerge == Spec => []FullyCoalesced
<1>1. IInv => FullyCoalesced
  BY DEF IInv, ListInv, Merged, FullyCoalesced
<1> QED  BY <1>1, Invariant, PTL
=============================================================================
