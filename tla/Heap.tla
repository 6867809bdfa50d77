-------------------------------- MODULE Heap --------------------------------
(***************************************************************************)
(* The kernel heap (src/mm/heap.cpp): a list of blocks, allocated and free *)
(* mixed, searched first-fit.  When nothing fits, kmalloc takes whole      *)
(* pages from the page allocator, hangs them behind the last block, and    *)
(* searches once more.  kfree merges neighbours that are both free.        *)
(*                                                                         *)
(* Nothing interrupts kmalloc, but a page is taken in a step of its own,   *)
(* which is the step of Pmm; "call" is what kmalloc has in its locals      *)
(* between the steps.  The other modules of the kernel that mm.h lets take *)
(* and return pages are the owners of the pages in "others".               *)
(***************************************************************************)
EXTENDS Integers, FiniteSets, Sequences, SequencesExt

CONSTANTS
    MaxPages, ReservedPages, PageSize, PageKiB, MemSizes,   \* as in Pmm
    WordSize,    \* 2^32: unsigned int wraps around there
    HeaderSize,  \* HEAP_HDR_SIZE
    MinSplit,    \* HEAP_MIN_SPLIT
    Sizes        \* the sizes kmalloc is called with; those that wrap around with a
                 \* header and a cut, which are near 2^32, are left out

ASSUME HeapAssumption ==
    /\ {WordSize, HeaderSize, MinSplit} \subseteq Nat /\ MaxPages * PageSize < WordSize
    /\ PageSize % 4 = 0 /\ HeaderSize % 4 = 0 /\ HeaderSize > 0
    /\ HeaderSize < MinSplit /\ MinSplit < PageSize
    /\ \A size \in Sizes : size \in Nat \ {0} /\ size + 3 + HeaderSize + MinSplit < WordSize

VARIABLES
    bitmap, total, free, last, answer,   \* the page allocator
    heap,     \* the list from g_heap_head on: blocks [addr, size, free]
    call,     \* a kmalloc between its two passes
    held,     \* what callers have got and not yet freed: [ptr, size] with the size asked for
    others    \* pages of other modules

\* The page allocator; it is given back whole pages only.
P == INSTANCE Pmm WITH Addresses <- {p * PageSize : p \in 0 .. MaxPages - 1}

ASSUME PagesAssumption == P!PmmAssumption

pmmVars  == <<bitmap, total, free, last, answer>>
heapVars == <<heap, call, held>>
vars     == <<pmmVars, heapVars, others>>

Idle == [size |-> 0, left |-> 0, grown |-> FALSE]

-----------------------------------------------------------------------------
align4(n) == (((n + 3) % WordSize) \div 4) * 4

Need(want) == (want + HeaderSize) % WordSize

\* A mistake the checks rule out: no room is kept for the header.
FirstFitWithoutHeader(want) == SelectInSeq(heap, LAMBDA b : b.free /\ b.size >= want)

\* Index of the first block that fits, 0 if none does.
FirstFit(want) == SelectInSeq(heap, LAMBDA b : b.free /\ b.size >= Need(want))

\* A mistake the checks rule out: the rest is counted without the header cut off.
CarveLongRest(i, want) ==
    LET b == heap[i] IN
    IF b.size >= (Need(want) + MinSplit) % WordSize
    THEN InsertAt(ReplaceAt(heap, i, [addr |-> b.addr, size |-> Need(want), free |-> FALSE]),
                  i + 1,
                  [addr |-> b.addr + Need(want), size |-> b.size - want, free |-> TRUE])
    ELSE ReplaceAt(heap, i, [b EXCEPT !.free = FALSE])

\* The list when the block at i serves a request, its rest cut off when worth it.
Carve(i, want) ==
    LET b == heap[i] IN
    IF b.size >= (Need(want) + MinSplit) % WordSize
    THEN InsertAt(ReplaceAt(heap, i, [addr |-> b.addr, size |-> Need(want), free |-> FALSE]),
                  i + 1,
                  [addr |-> b.addr + Need(want), size |-> b.size - Need(want), free |-> TRUE])
    ELSE ReplaceAt(heap, i, [b EXCEPT !.free = FALSE])

End(b) == b.addr + b.size

\* The list when page p has been hung behind its last block.
AddPage(p) ==
    LET tail == Last(heap) IN
    IF heap # <<>> /\ End(tail) = p * PageSize
    THEN ReplaceAt(heap, Len(heap), [tail EXCEPT !.size = @ + PageSize])
    ELSE Append(heap, [addr |-> p * PageSize, size |-> PageSize, free |-> TRUE])

\* b behind the blocks of done, or merged into the last of them.
Joined(done, b) ==
    IF done # <<>> /\ Last(done).free /\ b.free /\ End(Last(done)) = b.addr
    THEN ReplaceAt(done, Len(done), [Last(done) EXCEPT !.size = @ + b.size])
    ELSE Append(done, b)

\* The list when neighbours that are both free have been merged.
Coalesce(h) == FoldLeft(Joined, <<>>, h)

\* A pass of kmalloc that finds a block.
Take(i, want, size) ==
    /\ heap' = Carve(i, want)
    /\ held' = held \cup {[ptr |-> heap[i].addr + HeaderSize, size |-> size]}

-----------------------------------------------------------------------------
Init == P!Init /\ heap = <<>> /\ call = Idle /\ held = {} /\ others = {}

Boot == P!Boot /\ UNCHANGED <<heapVars, others>>

\* kmalloc finds a block in its first pass.
kmalloc_at_once(size) ==
    LET want == align4(size) IN
    /\ call = Idle
    /\ FirstFit(want) # 0
    /\ Take(FirstFit(want), want, size)
    /\ UNCHANGED <<pmmVars, call, others>>

\* It finds none, and heap_grow sets out to get the pages for it.
kmalloc_grows(size) ==
    LET want == align4(size)
        n    == ((Need(want) + PageSize - 1) % WordSize) \div PageSize
    IN  /\ call = Idle
        /\ FirstFit(want) = 0
        /\ call' = [size |-> size, left |-> IF n = 0 THEN 1 ELSE n, grown |-> FALSE]
        /\ UNCHANGED <<pmmVars, heap, held, others>>

heap_grow ==
    /\ call.left > 0
    /\ P!pmm_alloc_page
    /\ heap' = AddPage(answer')
    /\ call' = [call EXCEPT !.left = @ - 1, !.grown = TRUE]
    /\ UNCHANGED <<held, others>>

\* A mistake the checks rule out: without a page the growth is tried again.
heap_grow_retries ==
    /\ call.left > 0
    /\ P!pmm_alloc_fails
    /\ UNCHANGED <<heap, call, held, others>>

\* No page for the first block: kmalloc returns 0.  None for a later one: it does with
\* what it has got.
heap_grow_fails ==
    /\ call.left > 0
    /\ P!pmm_alloc_fails
    /\ call' = IF call.grown THEN [call EXCEPT !.left = 0] ELSE Idle
    /\ UNCHANGED <<heap, held, others>>

\* The second pass of kmalloc.
kmalloc_again ==
    LET want == align4(call.size) IN
    /\ call # Idle /\ call.left = 0
    /\ call' = Idle
    /\ IF FirstFit(want) = 0
       THEN UNCHANGED <<heap, held>>
       ELSE Take(FirstFit(want), want, call.size)
    /\ UNCHANGED <<pmmVars, others>>

\* Mistakes the checks rule out: the pointer taken for the block, and no merging.
kfree_at_pointer(h) ==
    /\ call = Idle
    /\ heap' = Coalesce([i \in DOMAIN heap |->
                           IF heap[i].addr = h.ptr
                           THEN [heap[i] EXCEPT !.free = TRUE] ELSE heap[i]])
    /\ held' = held \ {h}
    /\ UNCHANGED <<pmmVars, call, others>>

kfree_without_merging(h) ==
    /\ call = Idle
    /\ heap' = [i \in DOMAIN heap |->
                  IF heap[i].addr = h.ptr - HeaderSize
                  THEN [heap[i] EXCEPT !.free = TRUE] ELSE heap[i]]
    /\ held' = held \ {h}
    /\ UNCHANGED <<pmmVars, call, others>>

\* Callers free what they hold, once.
kfree(h) ==
    /\ call = Idle
    /\ heap' = Coalesce([i \in DOMAIN heap |->
                           IF heap[i].addr = h.ptr - HeaderSize
                           THEN [heap[i] EXCEPT !.free = TRUE] ELSE heap[i]])
    /\ held' = held \ {h}
    /\ UNCHANGED <<pmmVars, call, others>>

OtherTakes ==
    /\ call = Idle
    /\ P!pmm_alloc_page
    /\ others' = others \cup {answer'}
    /\ UNCHANGED heapVars

OtherReturns(p) ==
    /\ call = Idle
    /\ P!pmm_free_page(p * PageSize)
    /\ others' = others \ {p}
    /\ UNCHANGED heapVars

\* What a kmalloc that has begun goes on to do.
KmallocGoesOn == heap_grow \/ heap_grow_fails \/ kmalloc_again

Kmalloc == (\E size \in Sizes : kmalloc_at_once(size) \/ kmalloc_grows(size))
           \/ KmallocGoesOn

Kfree == \E h \in held : kfree(h)

Other == OtherTakes \/ \E p \in others : OtherReturns(p)

Next == Boot \/ Kmalloc \/ Kfree \/ Other

\* There is one thread: a kmalloc that has begun is what runs.
Fairness == WF_vars(KmallocGoesOn)

Spec == Init /\ [][Next]_vars /\ Fairness

-----------------------------------------------------------------------------
(* Properties                                                              *)

Block == [addr : Nat, size : Nat, free : BOOLEAN]

\* The variables have their types.
TypeOK ==
    /\ P!TypeOK
    /\ heap \in Seq(Block)
    /\ call \in [size : Sizes \cup {0}, left : Nat, grown : BOOLEAN]
    /\ held \subseteq [ptr : Nat, size : Sizes]
    /\ others \subseteq P!Managed \cap bitmap

HeapPages == (P!Managed \cap bitmap) \ others

\* The blocks tile the pages the heap has taken: they do not overlap, do not reach into
\* a page of somebody else, and no byte is lost, however blocks are cut and merged.
BlocksTileThePages ==
    /\ \A i, j \in DOMAIN heap : i < j =>
         End(heap[i]) <= heap[j].addr \/ End(heap[j]) <= heap[i].addr
    /\ \A i \in DOMAIN heap :
         heap[i].addr \div PageSize .. (End(heap[i]) - 1) \div PageSize \subseteq HeapPages
    /\ \A p \in HeapPages : \A x \in p * PageSize .. p * PageSize + PageSize - 1 :
         \E i \in DOMAIN heap : x \in heap[i].addr .. End(heap[i]) - 1

\* What a caller has got is an allocated block of its own, on a word boundary, with room
\* for the size asked for, and stays so until the caller frees it.
RoomForTheRequest ==
    \A h \in held :
        /\ h.ptr % 4 = 0
        /\ \E i \in DOMAIN heap : /\ heap[i].addr = h.ptr - HeaderSize
                                  /\ ~ heap[i].free
                                  /\ heap[i].size >= HeaderSize + h.size
        /\ \A g \in held : g.ptr = h.ptr => g = h

\* Every allocated block is held by a caller: no block gets lost.
NoOrphans ==
    \A i \in DOMAIN heap :
        ~ heap[i].free => \E h \in held : h.ptr = heap[i].addr + HeaderSize

\* No two neighbours in the list that touch are both free.
FullyCoalesced ==
    \A i \in 1 .. Len(heap) - 1 :
        ~ (heap[i].free /\ heap[i+1].free /\ End(heap[i]) = heap[i+1].addr)

\* Every kmalloc returns, however many pages it asks for and wherever they run out: the
\* search is repeated once and not until something fits.
KmallocReturns == call # Idle ~> call = Idle

\* heap.cpp:115: kmalloc grows the heap and searches again.  So when a request that fits in
\* a page has been granted its page, the second search finds a block.
GrowthSuffices ==
    call.grown /\ call.left = 0 /\ Need(align4(call.size)) <= PageSize =>
        FirstFit(align4(call.size)) # 0
=============================================================================
