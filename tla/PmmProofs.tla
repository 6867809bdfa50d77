------------------------------ MODULE PmmProofs ------------------------------
(***************************************************************************)
(* The properties of Pmm, proved for every size of the bitmap, number of   *)
(* reserved pages, amount of memory and address that is freed.             *)
(***************************************************************************)
EXTENDS Pmm, FiniteSetTheorems, TLAPS

\* Before pmm_init nothing is managed.  After it the hint is a page or one past the
\* last, unless memory ends below the reserved pages: then it stays at the first page
\* after these.
HintFits ==
    \/ last = 0 /\ total = 0
    \/ last = ReservedPages
    \/ ReservedPages <= last /\ last <= total

IInv == TypeOK /\ HintFits /\ FencesStaySet /\ CountIsExact

-----------------------------------------------------------------------------
(* Numbers and sets                                                        *)

\* The sizes that memory and its managed part are counted in are numbers.
LEMMA SizeIsNat ==
    ASSUME NEW kb \in Nat
    PROVE  kb \div PageKiB \in Nat
  BY PmmAssumption

\* The free pages are finitely many, so that their number counts.
LEMMA FreePagesFinite ==
    ASSUME TypeOK
    PROVE  /\ IsFiniteSet(FreePages)
           /\ Cardinality(FreePages) \in Nat
           /\ Cardinality(FreePages) <= MaxPages
<1>1. FreePages \subseteq 0 .. MaxPages - 1 /\ 0 \in Int /\ MaxPages - 1 \in Int
  BY PmmAssumption DEF TypeOK, FreePages, Managed
<1>2. /\ IsFiniteSet(0 .. MaxPages - 1)
      /\ Cardinality(0 .. MaxPages - 1) = IF 0 > MaxPages - 1 THEN 0 ELSE (MaxPages - 1) - 0 + 1
  BY <1>1, FS_Interval
<1>3. /\ IsFiniteSet(FreePages)
      /\ Cardinality(FreePages) <= Cardinality(0 .. MaxPages - 1)
  BY <1>1, <1>2, FS_Subset
<1>4. Cardinality(FreePages) \in Nat
  BY <1>3, FS_CardinalityType
<1> QED  BY <1>2, <1>3, <1>4, PmmAssumption

\* Whatever page the scan tests is inside the bitmap, and inside the memory if it is
\* not a reserved one.
LEMMA ScanInside ==
    ASSUME TypeOK, HintFits, NEW off \in 0 .. total - 1
    PROVE  /\ PageAt(off) \in Pages
           /\ PageAt(off) >= ReservedPages => PageAt(off) \in Managed
  BY PmmAssumption DEF TypeOK, HintFits, PageAt, Pages, Managed

\* The scan comes by every managed page.
LEMMA ScanReaches ==
    ASSUME TypeOK, HintFits, NEW p \in Managed
    PROVE  \E off \in 0 .. total - 1 : PageAt(off) = p
<1> DEFINE off == IF p >= last THEN p - last ELSE p - last + total
<1>1. off \in 0 .. total - 1 /\ PageAt(off) = p
  BY PmmAssumption DEF TypeOK, HintFits, PageAt, Managed
<1> QED  BY <1>1

-----------------------------------------------------------------------------
(* The inductive invariant                                                 *)

\* Before pmm_init nothing is managed, counted or set.
LEMMA InitInv == Init => IInv
<1> SUFFICES ASSUME Init PROVE IInv
  OBVIOUS
<1>1. FreePages = {}
  BY PmmAssumption DEF Init, FreePages, Managed
<1>2. CountIsExact
  BY <1>1, FS_EmptySet DEF Init, CountIsExact
<1> QED  BY <1>2, PmmAssumption DEF Init, IInv, TypeOK, HintFits, FencesStaySet

\* pmm_init frees the managed pages and sets every other bit (memset 0xFF, bm_clear).
LEMMA BootInv == IInv /\ Boot => IInv'
<1> SUFFICES ASSUME IInv, NEW kb \in MemSizes, pmm_init(kb) PROVE IInv'
  BY DEF Boot
<1> DEFINE k == kb \div PageKiB
           n == IF k > MaxPages THEN MaxPages ELSE k
<1>1. k \in Nat
  BY SizeIsNat, PmmAssumption
<1> HIDE DEF k
<1>2. n \in 0 .. MaxPages
  BY <1>1, PmmAssumption
<1>3. /\ total' = n /\ bitmap' = Pages \ (ReservedPages .. n - 1) /\ last' = ReservedPages
      /\ free' = (IF n > ReservedPages THEN n - ReservedPages ELSE 0) /\ answer' = answer
  BY DEF pmm_init, k
<1> HIDE DEF n
<1>4. FreePages' = ReservedPages .. n - 1
  BY <1>2, <1>3, PmmAssumption DEF FreePages, Managed, Pages
<1>5. Cardinality(ReservedPages .. n - 1) =
        IF ReservedPages > n - 1 THEN 0 ELSE (n - 1) - ReservedPages + 1
  BY <1>2, PmmAssumption, FS_Interval
<1>6. free' = Cardinality(ReservedPages .. n - 1)
  BY <1>2, <1>3, <1>5, PmmAssumption
<1>7. CountIsExact'
  BY <1>4, <1>6 DEF CountIsExact
<1>8. TypeOK'
  BY <1>2, <1>3, PmmAssumption DEF IInv, TypeOK, Pages
<1>9. HintFits' /\ FencesStaySet'
  BY <1>2, <1>3, PmmAssumption DEF HintFits, FencesStaySet, Managed, Pages
<1> QED  BY <1>7, <1>8, <1>9 DEF IInv

\* pmm_alloc_page sets one clear bit of a managed page and counts it once.
LEMMA AllocInv == IInv /\ pmm_alloc_page => IInv'
<1> SUFFICES ASSUME IInv, pmm_alloc_page PROVE IInv'
  OBVIOUS
<1>1. PICK off \in 0 .. total - 1 :
        /\ Hit(off)
        /\ bitmap' = bitmap \cup {PageAt(off)}
        /\ free' = free - 1
        /\ last' = PageAt(off) + 1
        /\ answer' = PageAt(off)
        /\ total' = total
  BY DEF pmm_alloc_page
<1> DEFINE p == PageAt(off)
<1>2. p \in Managed /\ p \in Pages /\ p \notin bitmap /\ p \in FreePages
  BY <1>1, ScanInside DEF IInv, Hit, FreePages
<1>3. /\ bitmap' = bitmap \cup {p} /\ free' = free - 1 /\ last' = p + 1 /\ answer' = p
      /\ total' = total
  BY <1>1
<1> HIDE DEF p
<1>4. FreePages' = FreePages \ {p} /\ Managed' = Managed
  BY <1>3 DEF FreePages, Managed
<1>5. Cardinality(FreePages \ {p}) = Cardinality(FreePages) - 1
  BY <1>2, FreePagesFinite, FS_RemoveElement DEF IInv
<1>6. CountIsExact'
  BY <1>3, <1>4, <1>5 DEF IInv, CountIsExact
<1>7. TypeOK'
  <2>1. free' \in Int /\ free' <= MaxPages
    BY <1>3, PmmAssumption DEF IInv, TypeOK
  <2>2. free' >= 0
    <3>1. IsFiniteSet(FreePages \ {p}) /\ Cardinality(FreePages \ {p}) \in Nat
      BY FreePagesFinite, FS_Subset, FS_CardinalityType DEF IInv
    <3> QED  BY <1>4, <1>6, <3>1 DEF CountIsExact
  <2>3. p + 1 \in 0 .. MaxPages
    BY <1>2, PmmAssumption DEF Pages
  <2> QED  BY <1>2, <1>3, <2>1, <2>2, <2>3 DEF IInv, TypeOK
<1>8. HintFits'
  BY <1>2, <1>3, PmmAssumption DEF IInv, TypeOK, HintFits, Managed
<1>9. FencesStaySet'
  BY <1>2, <1>3, <1>4, PmmAssumption DEF IInv, HintFits, TypeOK, FencesStaySet, Managed
<1> QED  BY <1>6, <1>7, <1>8, <1>9 DEF IInv

\* pmm_free_page clears one set bit of a managed page and counts it once.
LEMMA FreeInv == IInv /\ Free => IInv'
<1> SUFFICES ASSUME IInv, NEW addr \in Addresses, pmm_free_page(addr) PROVE IInv'
  BY DEF Free
<1> DEFINE p == addr \div PageSize
<1>1. /\ p \in Managed /\ p \in bitmap
      /\ bitmap' = bitmap \ {p} /\ free' = free + 1
      /\ last' = (IF p < last THEN p ELSE last)
      /\ total' = total /\ answer' = answer
  BY DEF pmm_free_page, Freeable
<1> HIDE DEF p
<1>2. FreePages' = FreePages \cup {p} /\ p \notin FreePages /\ Managed' = Managed
  BY <1>1 DEF FreePages, Managed
<1>3. Cardinality(FreePages \cup {p}) = Cardinality(FreePages) + 1
  BY <1>2, FreePagesFinite, FS_AddElement DEF IInv
<1>4. CountIsExact'
  BY <1>1, <1>2, <1>3 DEF IInv, CountIsExact
<1>5. FreePages \cup {p} \subseteq ReservedPages .. total - 1
  BY <1>1, <1>2 DEF FreePages, Managed
<1>6. TypeOK'
  <2>1. IsFiniteSet(ReservedPages .. total - 1) /\ Cardinality(ReservedPages .. total - 1) <= MaxPages
    <3>1. ReservedPages \in Int /\ total - 1 \in Int /\ total <= MaxPages
      BY PmmAssumption DEF IInv, TypeOK
    <3>2. /\ IsFiniteSet(ReservedPages .. total - 1)
          /\ Cardinality(ReservedPages .. total - 1) =
               IF ReservedPages > total - 1 THEN 0 ELSE (total - 1) - ReservedPages + 1
      BY <3>1, FS_Interval
    <3>3. (IF ReservedPages > total - 1 THEN 0 ELSE (total - 1) - ReservedPages + 1) <= MaxPages
      BY <3>1, PmmAssumption DEF IInv, TypeOK
    <3> QED  BY <3>2, <3>3
  <2>2. Cardinality(FreePages \cup {p}) <= Cardinality(ReservedPages .. total - 1)
    BY <1>5, <2>1, FS_Subset
  <2>3. Cardinality(ReservedPages .. total - 1) \in Nat /\ Cardinality(FreePages) \in Nat
    BY <2>1, FS_CardinalityType, FreePagesFinite DEF IInv
  <2>4. free' \in 0 .. MaxPages
    BY <1>1, <1>3, <2>1, <2>2, <2>3, PmmAssumption DEF IInv, CountIsExact
  <2>5. last' \in 0 .. MaxPages /\ bitmap' \subseteq Pages
    BY <1>1, PmmAssumption DEF IInv, TypeOK, Managed
  <2> QED  BY <1>1, <2>4, <2>5 DEF IInv, TypeOK
<1>7. HintFits'
  BY <1>1, PmmAssumption DEF IInv, TypeOK, HintFits, Managed
<1>8. FencesStaySet'
  <2>1. last # 0
    BY <1>1, PmmAssumption DEF IInv, TypeOK, HintFits, Managed
  <2> QED  BY <1>1, <1>2, <2>1 DEF IInv, FencesStaySet
<1> QED  BY <1>4, <1>6, <1>7, <1>8 DEF IInv

\* Every step of the allocator preserves the invariant.
LEMMA NextInv == IInv /\ [Next]_pmmVars => IInv'
<1> SUFFICES ASSUME IInv, [Next]_pmmVars PROVE IInv'
  OBVIOUS
<1>1. CASE pmm_alloc_fails \/ UNCHANGED pmmVars
  <2>1. /\ bitmap' = bitmap /\ total' = total /\ free' = free /\ last' = last
        /\ answer' \in Pages \cup {NoPage}
    BY <1>1 DEF pmm_alloc_fails, pmmVars, IInv, TypeOK
  <2> QED  BY <2>1 DEF IInv, TypeOK, HintFits, FencesStaySet, CountIsExact, FreePages, Managed
<1> QED  BY <1>1, BootInv, AllocInv, FreeInv DEF Next

\* The inductive invariant of pmm.cpp holds in every reachable state.
THEOREM Invariant == Spec => []IInv
<1> QED  BY InitInv, NextInv, PTL DEF Spec

-----------------------------------------------------------------------------
(* The theorems                                                            *)

\* The counter and the hint never leave their range.
THEOREM TypeCorrect == Spec => []TypeOK
<1>1. IInv => TypeOK
  BY DEF IInv
<1> QED  BY <1>1, Invariant, PTL

\* g_free_pages is the number of free pages, after any sequence of calls.
THEOREM ExactCount == Spec => []CountIsExact
<1>1. IInv => CountIsExact
  BY DEF IInv
<1> QED  BY <1>1, Invariant, PTL

\* The bits of the reserved pages and those beyond memory stay set.
THEOREM Fences == Spec => []FencesStaySet
<1>1. IInv => FencesStaySet
  BY DEF IInv
<1> QED  BY <1>1, Invariant, PTL

\* The scan neither leaves the bitmap nor considers a page beyond memory.
THEOREM Inside == Spec => []ScanStaysInside
<1>1. IInv => ScanStaysInside
  BY ScanInside DEF IInv, ScanStaysInside
<1> QED  BY <1>1, Invariant, PTL

\* pmm_alloc_page returns 0 only when no page is free.
THEOREM Complete == Spec => []RefusesOnlyWhenFull
<1>1. IInv => RefusesOnlyWhenFull
  <2> SUFFICES ASSUME IInv, Exhausted, NEW p \in FreePages PROVE FALSE
    BY DEF RefusesOnlyWhenFull
  <2>1. PICK off \in 0 .. total - 1 : PageAt(off) = p
    BY ScanReaches DEF IInv, FreePages
  <2>2. p \notin bitmap /\ p >= ReservedPages
    BY PmmAssumption DEF FreePages, Managed, IInv, TypeOK
  <2> QED  BY <2>1, <2>2 DEF Exhausted, Hit
<1> QED  BY <1>1, Invariant, PTL

\* Every step of the bitmap is a step of PageAllocator, or changes nothing it shows.
LEMMA NextRefined ==
    IInv /\ [Next]_pmmVars => [A!Next]_<<Managed, Managed \cap bitmap, answer>>
<1> SUFFICES ASSUME IInv, [Next]_pmmVars
             PROVE  A!Next \/ UNCHANGED <<Managed, Managed \cap bitmap, answer>>
  OBVIOUS
<1>1. CASE Boot
  <2>1. PICK kb \in MemSizes : pmm_init(kb)
    BY <1>1 DEF Boot
  <2> DEFINE k == kb \div PageKiB
             n == IF k > MaxPages THEN MaxPages ELSE k
  <2>2. k \in Nat
    BY SizeIsNat, PmmAssumption
  <2>3. /\ last = 0 /\ total' = n /\ bitmap' = Pages \ (ReservedPages .. n - 1)
        /\ answer' = answer
    BY <2>1 DEF pmm_init
  <2> HIDE DEF k
  <2>4. n \in 0 .. MaxPages
    BY <2>2, PmmAssumption
  <2> HIDE DEF n
  <2>5. Managed = {}
    BY <2>3, PmmAssumption DEF IInv, HintFits, TypeOK, Managed
  <2>6. Managed' \in SUBSET Pages /\ (Managed \cap bitmap)' = {}
    BY <2>3, <2>4, PmmAssumption DEF Managed, Pages
  <2> QED  BY <2>3, <2>5, <2>6 DEF A!Next, A!Setup
<1>2. CASE pmm_alloc_page
  <2>1. PICK off \in 0 .. total - 1 :
          /\ Hit(off)
          /\ bitmap' = bitmap \cup {PageAt(off)}
          /\ answer' = PageAt(off)
          /\ total' = total
    BY <1>2 DEF pmm_alloc_page
  <2>2. PageAt(off) \in Managed \ bitmap /\ PageAt(off) \in Pages
    BY <2>1, ScanInside DEF IInv, Hit
  <2>3. Managed' = Managed /\ (Managed \cap bitmap)' = (Managed \cap bitmap) \cup {PageAt(off)}
    BY <2>1, <2>2 DEF Managed
  <2>4. ASSUME NEW p \in Pages, p = PageAt(off) PROVE A!Grant(p)
    BY <2>1, <2>2, <2>3, <2>4 DEF A!Grant
  <2> QED  BY <2>2, <2>4 DEF A!Next
<1>3. CASE pmm_alloc_fails
  <2>1. FreePages = {}
    <3> SUFFICES ASSUME NEW p \in FreePages PROVE FALSE
      OBVIOUS
    <3>1. PICK off \in 0 .. total - 1 : PageAt(off) = p
      BY ScanReaches DEF IInv, FreePages
    <3>2. p \notin bitmap /\ p >= ReservedPages
      BY PmmAssumption DEF FreePages, Managed, IInv, TypeOK
    <3> QED  BY <1>3, <3>1, <3>2 DEF pmm_alloc_fails, Exhausted, Hit
  <2>2. Managed \cap bitmap = Managed
    BY <2>1 DEF FreePages
  <2>3. Managed' = Managed /\ (Managed \cap bitmap)' = Managed \cap bitmap /\ answer' = NoPage
    BY <1>3 DEF pmm_alloc_fails, Managed
  <2> QED  BY <2>2, <2>3 DEF A!Next, A!Refuse
<1>4. CASE Free
  <2>1. PICK addr \in Addresses : pmm_free_page(addr)
    BY <1>4 DEF Free
  <2> DEFINE p == addr \div PageSize
  <2>2. /\ p \in Managed /\ p \in bitmap /\ bitmap' = bitmap \ {p}
        /\ total' = total /\ answer' = answer
    BY <2>1 DEF pmm_free_page, Freeable
  <2> HIDE DEF p
  <2>3. Managed' = Managed /\ (Managed \cap bitmap)' = (Managed \cap bitmap) \ {p}
    BY <2>2 DEF Managed
  <2>4. p \in Pages
    BY <2>2 DEF IInv, TypeOK
  <2> QED  BY <2>2, <2>3, <2>4 DEF A!Next, A!GiveBack
<1>5. CASE UNCHANGED pmmVars
  BY <1>5 DEF pmmVars, Managed
<1> QED  BY <1>1, <1>2, <1>3, <1>4, <1>5 DEF Next

\* The bitmap, its counter and its hint implement an allocator of single pages.
THEOREM Refinement == Spec => PageAllocatorSpec
<1>1. Init => A!Init
  BY PmmAssumption DEF Init, A!Init, Managed
<1> QED  BY <1>1, Invariant, NextRefined, PTL DEF Spec, PageAllocatorSpec, A!Spec
=============================================================================
