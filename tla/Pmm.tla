--------------------------------- MODULE Pmm ---------------------------------
(***************************************************************************)
(* The physical page allocator (src/mm/pmm.cpp): a bitmap with one bit per *)
(* page, a count of the free pages, and a hint where the next scan of the  *)
(* bitmap begins.  The pages below ReservedPages are never handed out.     *)
(*                                                                         *)
(* A page is named by its number.  The bitmap is the set of the pages      *)
(* whose bit is 1; its bytes and the clearing of a page that is handed out *)
(* are left out.                                                           *)
(***************************************************************************)
EXTENDS Integers, FiniteSets

CONSTANTS
    MaxPages,        \* PMM_MAX_PAGES
    ReservedPages,   \* PMM_RESERVED_PAGES
    PageSize,        \* TURBOX_PAGE_SIZE, in bytes
    PageKiB,         \* TURBOX_PAGE_SIZE / 1024
    MemSizes,        \* sizes of memory, in KiB, pmm_init may be called with
    Addresses        \* addresses clients pass to pmm_free_page

ASSUME PmmAssumption ==
    /\ MaxPages \in Nat /\ ReservedPages \in Nat
    /\ 0 < ReservedPages /\ ReservedPages <= MaxPages
    /\ PageSize \in Nat \ {0} /\ PageKiB \in Nat \ {0}
    /\ MemSizes \subseteq Nat /\ Addresses \subseteq Nat

VARIABLES
    bitmap,    \* g_bitmap: the pages whose bit is set
    total,     \* g_total_pages
    free,      \* g_free_pages
    last,      \* g_last_hint
    answer     \* page returned by the latest pmm_alloc_page, NoPage for 0

pmmVars == <<bitmap, total, free, last, answer>>

Pages  == 0 .. MaxPages - 1
NoPage == -1

Managed   == ReservedPages .. total - 1
FreePages == Managed \ bitmap

-----------------------------------------------------------------------------
(* The static variables before pmm_init are zero.                          *)
Init ==
    /\ bitmap = {}
    /\ total = 0 /\ free = 0 /\ last = 0
    /\ answer = NoPage

\* A mistake the checks rule out: more memory than the bitmap describes.
pmm_init_unclamped(mem_kb) ==
    LET n == mem_kb \div PageKiB
    IN  /\ last = 0
        /\ total' = n
        /\ bitmap' = Pages \ (ReservedPages .. n - 1)
        /\ free' = IF n > ReservedPages THEN n - ReservedPages ELSE 0
        /\ last' = ReservedPages
        /\ UNCHANGED answer

\* kernel_main calls it once, before anything allocates.
pmm_init(mem_kb) ==
    LET pages == mem_kb \div PageKiB
        n     == IF pages > MaxPages THEN MaxPages ELSE pages
    IN  /\ last = 0
        /\ total' = n
        /\ bitmap' = Pages \ (ReservedPages .. n - 1)
        /\ free' = IF n > ReservedPages THEN n - ReservedPages ELSE 0
        /\ last' = ReservedPages
        /\ UNCHANGED answer

\* A mistake the checks rule out: the ring has one page too many.
PageAtLate(off) == IF last + off > total THEN last + off - total ELSE last + off

\* The page looked at when the scan has advanced by off.
PageAt(off) == IF last + off >= total THEN last + off - total ELSE last + off

\* A mistake the checks rule out: the first page after the reserved ones is skipped too.
HitBeyondFirst(off) == PageAt(off) > ReservedPages /\ PageAt(off) \notin bitmap

Hit(off) == PageAt(off) >= ReservedPages /\ PageAt(off) \notin bitmap

\* A mistake the checks rule out: the bit of the page is not set.
pmm_alloc_page_unmarked ==
    \E off \in 0 .. total - 1 :
        /\ Hit(off)
        /\ free' = free - 1
        /\ last' = PageAt(off) + 1
        /\ answer' = PageAt(off)
        /\ UNCHANGED <<bitmap, total>>

pmm_alloc_page ==
    \E off \in 0 .. total - 1 :
        /\ Hit(off)
        /\ \A before \in 0 .. off - 1 : ~ Hit(before)
        /\ bitmap' = bitmap \cup {PageAt(off)}
        /\ free' = free - 1
        /\ last' = PageAt(off) + 1
        /\ answer' = PageAt(off)
        /\ UNCHANGED total

\* The scan comes to its end: pmm_alloc_page returns 0.
Exhausted == \A off \in 0 .. total - 1 : ~ Hit(off)

pmm_alloc_fails ==
    /\ Exhausted
    /\ answer' = NoPage
    /\ UNCHANGED <<bitmap, total, free, last>>

\* Mistakes the checks rule out: no test for a page that is free already, and none
\* for the reserved pages.
FreeableTwice(addr) == addr % PageSize = 0 /\ addr \div PageSize \in Managed

FreeableReserved(addr) ==
    /\ addr % PageSize = 0
    /\ addr \div PageSize < total
    /\ addr \div PageSize \in bitmap

\* The conditions under which pmm_free_page does not return early.
Freeable(addr) ==
    /\ addr % PageSize = 0
    /\ addr \div PageSize \in Managed
    /\ addr \div PageSize \in bitmap

pmm_free_page(addr) ==
    LET i == addr \div PageSize IN
    /\ Freeable(addr)
    /\ bitmap' = bitmap \ {i}
    /\ free' = free + 1
    /\ last' = IF i < last THEN i ELSE last
    /\ UNCHANGED <<total, answer>>

Boot == \E mem_kb \in MemSizes : pmm_init(mem_kb)
Free == \E addr \in Addresses : pmm_free_page(addr)

Next == Boot \/ pmm_alloc_page \/ pmm_alloc_fails \/ Free

Spec == Init /\ [][Next]_pmmVars

-----------------------------------------------------------------------------
(* Properties                                                              *)

\* The variables have their types; the counter and the hint never leave their range.
TypeOK ==
    /\ bitmap \subseteq Pages
    /\ total \in 0 .. MaxPages
    /\ free \in 0 .. MaxPages
    /\ last \in 0 .. MaxPages
    /\ answer \in Pages \cup {NoPage}

\* g_free_pages, which is kept by increments, is the number of zero bits of the
\* managed part of the bitmap.
CountIsExact == free = Cardinality(FreePages)

\* After pmm_init, the scan never tests a bit beyond the bitmap and considers no page
\* beyond the memory, also when the hint is one past the last page or memory ends
\* below the reserved pages, so that the hint is beyond it.
ScanStaysInside ==
    \A off \in 0 .. total - 1 :
        /\ PageAt(off) \in Pages
        /\ PageAt(off) >= ReservedPages => PageAt(off) \in Managed

\* The scan overlooks no page: it comes to its end only when no page is free.
RefusesOnlyWhenFull == Exhausted => FreePages = {}

\* The bits of the reserved pages and those beyond the end of memory stay set.
FencesStaySet == last # 0 => Pages \ Managed \subseteq bitmap

A == INSTANCE PageAllocator WITH pool <- Managed, owned <- Managed \cap bitmap

\* The bitmap allocator implements PageAllocator: no page has two owners, requests are
\* refused only when all pages have one, and a bogus or repeated free changes nothing.
PageAllocatorSpec == A!Spec
=============================================================================
