-------------------------------- MODULE Kmem --------------------------------
(***************************************************************************)
(* The kernel heap allocator of src/unnamed/part_000 (rmemalloc_t): one    *)
(* sub-heap of chunk_cap chunks of CHUNK_SIZE bytes indexed by the bitset  *)
(* chunk_use, and SLABHEAP_COUNT slab heaps whose blocks are carved out of *)
(* that sub-heap.  kmem_alloc_aligned and kmem_free run under a->lock, so  *)
(* each call is one atomic action.  Addresses are byte addresses; the      *)
(* sub-heap's chunks start at HEAP_BASE, which kmem_add_subheap aligns to  *)
(* HEAP_MAX_ALIGN.  kmem_expand panics, so the allocator has one sub-heap  *)
(* for its whole life and running out of memory ends the process.          *)
(*                                                                         *)
(* A slab block's header and recycle list live inside the block; here the  *)
(* header fields of the block at address b are blk[b], and the recycle     *)
(* list (chunk->next links) is a sequence of chunk addresses, head first.  *)
(* Which slab heap grew a block is the ghost owner[b]; the code keeps no   *)
(* such field and finds a block only by masking a chunk address.          *)
(***************************************************************************)
EXTENDS Integers, SequencesExt, FiniteSets, Bags, RsmMacros

CONSTANTS
    CHUNK_SIZE,           \* bytes per sub-heap chunk
    SLABHEAP_MIN_SIZE,    \* chunk size of slab heap 0
    SLABHEAP_COUNT,       \* number of slab heaps (size classes)
    SLABHEAP_BLOCK_SIZE,  \* bytes per slab block, also its alignment
    PAGE_SIZE,            \* largest alignment kmem_alloc_aligned accepts
    BEST_FIT_THRESHOLD,   \* nchunks from which heap_alloc searches best fit
    SLABBLOCK_HDR,        \* sizeof(slabblock_t)
    HEAP_BASE,            \* h->chunks
    HEAP_SIZE,            \* bytes given to heap_init
    Requests              \* <<size, alignment>> pairs passed to kmem_alloc_aligned

VARIABLES
    chunk_use,  \* h->chunk_use: indices of the chunks in use
    chunk_len,  \* h->chunk_len
    usable,     \* usable[i]: a->slabheaps[i].usable, a block address or Null
    full,       \* full[i]: a->slabheaps[i].full
    blk,        \* blk[b]: header of the slab block at b (next, recycle, len, cap)
    owner,      \* owner[b]: the slab heap that grew block b, or NoClass
    regions,    \* bag of the rmem2_t regions callers hold: [start, size, req, align]
    ret,        \* the last region kmem_alloc_aligned returned, with its request
    fault       \* "none", "oom" (kmem_expand panicked), "assert" or "ub"

vars == <<chunk_use, chunk_len, usable, full, blk, owner, regions, ret, fault>>

Null == 0
NoClass == -1
Classes == 0..SLABHEAP_COUNT - 1
\* a->slabheaps[i].size = 1 << (i + ILOG2(SLABHEAP_MIN_SIZE))
SlabSize(i) == 2^(i + ILOG2(SLABHEAP_MIN_SIZE))

\* heap_init's exponential search for the split between chunks and bitset
RECURSIVE HeapInitSearch(_, _)
HeapInitSearch(cap, sub) ==
    IF cap * CHUNK_SIZE + cap \div 8 > HEAP_SIZE
    THEN HeapInitSearch(cap - sub, sub * 2) ELSE cap
chunk_cap == HeapInitSearch(HEAP_SIZE \div CHUNK_SIZE - 1, 1)

Chunks == 0..chunk_cap - 1
Run(i, n) == i .. i + n - 1
ChunkAddr(i) == HEAP_BASE + i * CHUNK_SIZE
\* addresses where kmem_heapalloc(.., SLABHEAP_BLOCK_SIZE) can place a block
BlockAddrs == {ChunkAddr(i) : i \in {i \in Chunks : ChunkAddr(i) % SLABHEAP_BLOCK_SIZE = 0}}
NoBlock == [next |-> Null, recycle |-> <<>>, len |-> 0, cap |-> 0]
NoRegion == [start |-> Null, size |-> 0, req |-> 0, align |-> 0]

\* The allocator state every helper threads through.
A == [use |-> chunk_use, len |-> chunk_len, usable |-> usable, full |-> full,
      blk |-> blk, owner |-> owner, fault |-> fault]

Apply(st) ==
    /\ chunk_use' = st.use
    /\ chunk_len' = st.len
    /\ usable' = st.usable
    /\ full' = st.full
    /\ blk' = st.blk
    /\ owner' = st.owner
    /\ fault' = st.fault

----------------------------------------------------------------------------
(* bits.h (not among the sources): the runs heap_alloc searches for.       *)

\* chunk indices, multiples of align, where n clear bits start
Fits(use, n, align) ==
    {i \in Chunks : i % align = 0 /\ i + n <= chunk_cap /\ Run(i, n) \cap use = {}}
\* length of the clear run that starts at chunk i
HoleLen(use, i) == Cardinality({j \in Chunks : j >= i /\ Run(i, j - i + 1) \cap use = {}})

bitset_find_first_fit(use, n, align) ==
    IF Fits(use, n, align) = {} THEN -1 ELSE Min(Fits(use, n, align))

bitset_find_best_fit(use, n, align) ==
    LET F == Fits(use, n, align)
        best == Min({HoleLen(use, i) : i \in F})
    IN  IF F = {} THEN -1 ELSE Min({i \in F : HoleLen(use, i) = best})

----------------------------------------------------------------------------
(* The sub-heap.                                                           *)

heap_contains(ptr, size) ==
    ptr >= HEAP_BASE /\ ptr + size <= HEAP_BASE + chunk_cap * CHUNK_SIZE

\* heap_alloc once the bitset has been searched: idx is the first chunk of
\* the run, or -1.  [ptr, size, st]
HeapAllocAt(st, size, alignment, nchunks, idx) ==
    IF chunk_cap - st.len < nchunks \/ idx = -1
    THEN [ptr |-> Null, size |-> size, st |-> st]
    ELSE [ptr |-> ChunkAddr(idx), size |-> nchunks * CHUNK_SIZE,
          st |-> [st EXCEPT !.use = @ \cup Run(idx, nchunks),
                            !.len = @ + nchunks,
                            !.fault = IF IS_ALIGN2(ChunkAddr(idx), alignment)
                                      THEN @ ELSE "assert"]]

\* heap_alloc(h, &size, alignment): first fit for small runs, best fit
\* from BEST_FIT_THRESHOLD chunks on
heap_alloc(st, size, alignment) ==
    LET nchunks == (size + CHUNK_SIZE - 1) \div CHUNK_SIZE
        chunks_align == MaxOf(alignment \div CHUNK_SIZE, 1)
    IN  HeapAllocAt(st, size, alignment, nchunks,
                    IF nchunks < BEST_FIT_THRESHOLD
                    THEN bitset_find_first_fit(st.use, nchunks, chunks_align)
                    ELSE bitset_find_best_fit(st.use, nchunks, chunks_align))

\* mutant: bitset_set_range clears only the first chunk of the run
heap_free_first_chunk(st, ptr, size) ==
    LET idx == ((ptr - (ptr % CHUNK_SIZE)) - HEAP_BASE) \div CHUNK_SIZE
    IN  [st EXCEPT !.use = @ \ {idx}, !.len = @ - size \div CHUNK_SIZE]

heap_free(st, ptr, size) ==
    LET idx == ((ptr - (ptr % CHUNK_SIZE)) - HEAP_BASE) \div CHUNK_SIZE
        n == size \div CHUNK_SIZE
    IN  CASE ~heap_contains(ptr, size) -> [st EXCEPT !.fault = "assert"]
          [] idx \notin st.use         -> [st EXCEPT !.fault = "assert"]
          [] st.len < n                -> [st EXCEPT !.fault = "assert"]
          [] OTHER -> [st EXCEPT !.use = @ \ Run(idx, n), !.len = @ - n]
----------------------------------------------------------------------------
(* The slab heaps.                                                         *)

\* where slabheap_alloc bumps chunk k of block b of slab heap i
SlabChunk(i, b, k) == ALIGN2(b + SLABBLOCK_HDR, SlabSize(i)) + k * SlabSize(i)

\* slabheap_grow once kmem_heapalloc has answered r; when it has no block
\* kmem_expand panics.  [block, st]
SlabheapGrown(r, i) ==
    IF r.ptr = Null
    THEN [block |-> Null, st |-> [r.st EXCEPT !.fault = "oom"]]
    ELSE [block |-> r.ptr,
          st |-> [r.st EXCEPT
                    !.blk[r.ptr] = [next |-> Null, recycle |-> <<>>, len |-> 0,
                                    cap |-> SLABHEAP_BLOCK_SIZE \div SlabSize(i)],
                    !.usable[i] = r.ptr,
                    !.owner[r.ptr] = i]]

\* slabheap_grow: a SLABHEAP_BLOCK_SIZE-aligned block from the sub-heap
slabheap_grow(st, i) ==
    SlabheapGrown(heap_alloc(st, SLABHEAP_BLOCK_SIZE, SLABHEAP_BLOCK_SIZE), i)

\* the block slabheap_alloc takes a chunk from: the head of sh->usable, or
\* a new one.  [block, st]
SlabheapBlock(st, i) ==
    IF st.usable[i] = Null THEN slabheap_grow(st, i)
    ELSE [block |-> st.usable[i], st |-> st]

\* mutant: block->len++ outside the bump branch
SlabheapTakeLenAlways(g, i) ==
    LET b == g.block
        B == g.st.blk[b]
        bump == B.recycle = <<>>
        chunk == IF bump THEN SlabChunk(i, b, B.len) ELSE Head(B.recycle)
        rest == IF bump THEN <<>> ELSE Tail(B.recycle)
    IN  IF b = Null THEN [ptr |-> Null, st |-> g.st]
        ELSE [ptr |-> chunk, st |-> [g.st EXCEPT !.blk[b].recycle = rest,
                                                 !.blk[b].len = B.len + 1]]
slabheap_alloc_len_always(st, i) == SlabheapTakeLenAlways(SlabheapBlock(st, i), i)

\* mutant: block->recycle = chunk instead of chunk->next
SlabheapTakeKeepRecycle(g, i) ==
    LET b == g.block
        s == g.st
        B == s.blk[b]
        bump == B.recycle = <<>>
        chunk == IF bump THEN SlabChunk(i, b, B.len) ELSE Head(B.recycle)
        len == IF bump THEN B.len + 1 ELSE B.len
        rest == IF bump THEN <<>> ELSE B.recycle
        s1 == [s EXCEPT !.blk[b].recycle = rest, !.blk[b].len = len]
        \* the block became full: move it to the head of sh->full
        s2 == [s1 EXCEPT !.usable[i] = B.next, !.blk[b].next = s.full[i],
                         !.full[i] = b]
    IN  CASE b = Null                       -> [ptr |-> Null, st |-> s]
          [] bump /\ B.cap - B.len <= 0     -> [ptr |-> Null, st |-> [s EXCEPT !.fault = "assert"]]
          [] rest = <<>> /\ len = B.cap     -> [ptr |-> chunk, st |-> s2]
          [] OTHER                          -> [ptr |-> chunk, st |-> s1]

slabheap_alloc_keep_recycle(st, i) == SlabheapTakeKeepRecycle(SlabheapBlock(st, i), i)

\* the chunk taken from block g.block: the head of block->recycle, or the
\* next bumped one; block->recycle = chunk->next.  [ptr, st]
SlabheapTake(g, i) ==
    LET b == g.block
        s == g.st
        B == s.blk[b]
        bump == B.recycle = <<>>
        chunk == IF bump THEN SlabChunk(i, b, B.len) ELSE Head(B.recycle)
        len == IF bump THEN B.len + 1 ELSE B.len
        rest == IF bump THEN <<>> ELSE Tail(B.recycle)
        s1 == [s EXCEPT !.blk[b].recycle = rest, !.blk[b].len = len]
        \* the block became full: move it to the head of sh->full
        s2 == [s1 EXCEPT !.usable[i] = B.next, !.blk[b].next = s.full[i],
                         !.full[i] = b]
    IN  CASE b = Null                       -> [ptr |-> Null, st |-> s]
          [] bump /\ B.cap - B.len <= 0     -> [ptr |-> Null, st |-> [s EXCEPT !.fault = "assert"]]
          [] rest = <<>> /\ len = B.cap     -> [ptr |-> chunk, st |-> s2]
          [] OTHER                          -> [ptr |-> chunk, st |-> s1]

\* slabheap_alloc: [ptr, st]
slabheap_alloc(st, i) == SlabheapTake(SlabheapBlock(st, i), i)

\* slabheap_free: the owning block is ptr & SLABHEAP_BLOCK_MASK; if the
\* block was full it becomes the head of sh->usable and sh->full is set to
\* the block's next.  A masked address that is not a block of this slab
\* heap makes the code read a header out of arbitrary memory.
\* mutant: a full block stays on sh->full after a free
slabheap_free_never_usable(st, i, ptr) ==
    [st EXCEPT !.blk[ptr - (ptr % SLABHEAP_BLOCK_SIZE)].recycle = <<ptr>> \o @]

\* mutant: the full-block branch builds on the header read before the push
slabheap_free_drops_chunk(st, i, ptr) ==
    LET b == ptr - (ptr % SLABHEAP_BLOCK_SIZE)
        B == st.blk[b]
    IN  IF B.recycle = <<>> /\ B.len = B.cap
        THEN [st EXCEPT !.full[i] = B.next, !.blk[b].next = st.usable[i], !.usable[i] = b]
        ELSE [st EXCEPT !.blk[b].recycle = <<ptr>> \o @]

slabheap_free(st, i, ptr) ==
    LET b == ptr - (ptr % SLABHEAP_BLOCK_SIZE)
        B == st.blk[b]
        block_full == B.recycle = <<>> /\ B.len = B.cap
        s1 == [st EXCEPT !.blk[b].recycle = <<ptr>> \o @]
        s2 == [s1 EXCEPT !.full[i] = B.next, !.blk[b].next = st.usable[i],
                         !.usable[i] = b]
    IN  CASE ptr % SlabSize(i) # 0                   -> [st EXCEPT !.fault = "assert"]
          [] b \notin BlockAddrs \/ st.owner[b] # i -> [st EXCEPT !.fault = "ub"]
          [] block_full                             -> s2
          [] OTHER                                  -> s1

----------------------------------------------------------------------------
(* kmem_alloc_aligned and kmem_free.                                       *)

\* the first slab heap whose size is at least sz, or NoClass
SlabFor(sz) == IF \E i \in Classes : sz <= SlabSize(i)
               THEN Min({i \in Classes : sz <= SlabSize(i)}) ELSE NoClass

\* kmem_alloc_aligned's allocation: slab heap i, whose size it reports,
\* or the sub-heap when no slab heap is large enough.  [ptr, size, st]
SlabResult(x, i) == [ptr |-> x.ptr, size |-> SlabSize(i), st |-> x.st]
KmemAllocFrom(i, size, alignment) ==
    IF i # NoClass THEN SlabResult(slabheap_alloc(A, i), i)
    ELSE heap_alloc(A, size, alignment)

\* the end of kmem_alloc_aligned: a NULL from either path reaches
\* kmem_expand, which panics; a region is handed out only without a fault
KmemAllocDone(r, size, alignment) ==
    LET st == IF r.ptr = Null /\ r.st.fault = "none"
              THEN [r.st EXCEPT !.fault = "oom"] ELSE r.st
        region == [start |-> r.ptr, size |-> r.size, req |-> size, align |-> alignment]
    IN  /\ Apply(st)
        /\ ret' = IF r.ptr = Null THEN NoRegion ELSE region
        /\ regions' = IF st.fault = "none" THEN regions (+) SetToBag({region})
                      ELSE regions

\* mutant: the slab size ignores the alignment
kmem_alloc_aligned_size_only(size, alignment) ==
    /\ fault = "none"
    /\ KmemAllocDone(KmemAllocFrom(SlabFor(size), size, alignment), size, alignment)

kmem_alloc_aligned(size, alignment) ==
    /\ fault = "none"
    /\ KmemAllocDone(KmemAllocFrom(SlabFor(ALIGN2(size, alignment)), size, alignment),
                     size, alignment)

\* kmem_free's routing: slab heap i when the region's size fits one, else
\* the sub-heap that contains it, else safecheckf(0, ...)
KmemFreeRoute(i, region) ==
    IF i # NoClass THEN slabheap_free(A, i, region.start)
    ELSE IF heap_contains(region.start, region.size)
    THEN heap_free(A, region.start, region.size)
    ELSE [A EXCEPT !.fault = "assert"]

KmemFreeDone(st, region) ==
    /\ Apply(st)
    /\ regions' = regions (-) SetToBag({region})
    /\ UNCHANGED ret

\* mutant: region.size < size instead of <= when picking the slab heap
kmem_free_lt(region) ==
    /\ fault = "none"
    /\ BagIn(region, regions)
    /\ KmemFreeDone(KmemFreeRoute(IF \E j \in Classes : region.size < SlabSize(j)
                                  THEN Min({j \in Classes : region.size < SlabSize(j)})
                                  ELSE NoClass, region), region)

kmem_free(region) ==
    /\ fault = "none"
    /\ BagIn(region, regions)
    /\ KmemFreeDone(KmemFreeRoute(SlabFor(region.size), region), region)

\* kmem_allocator_create: an empty sub-heap, every slab heap without blocks
Init ==
    /\ chunk_use = {}
    /\ chunk_len = 0
    /\ usable = [i \in Classes |-> Null]
    /\ full = [i \in Classes |-> Null]
    /\ blk = [b \in BlockAddrs |-> NoBlock]
    /\ owner = [b \in BlockAddrs |-> NoClass]
    /\ regions = EmptyBag
    /\ ret = NoRegion
    /\ fault = "none"

Next ==
    \/ \E rq \in Requests : kmem_alloc_aligned(rq[1], rq[2])
    \/ \E r \in BagToSet(regions) : kmem_free(r)

Spec == Init /\ [][Next]_vars
----------------------------------------------------------------------------
(* Reading the allocator state.                                            *)

\* the blocks a list head reaches through block->next, one more than there
\* are blocks if the list has a cycle
RECURSIVE Walk(_, _)
Walk(b, k) == IF b = Null THEN <<>>
              ELSE IF k = 0 THEN <<b>> ELSE <<b>> \o Walk(blk[b].next, k - 1)
ListOf(head) == Walk(head, Cardinality(BlockAddrs))

\* slabheap_avail, as the code computes it: len + recycled chunks of every
\* block on the usable list
slabheap_avail(i) ==
    LET L == ListOf(usable[i])
    IN  MapThenSumSet(LAMBDA k : (blk[L[k]].len + Len(blk[L[k]].recycle)) * SlabSize(i),
                      DOMAIN L)
heap_avail == (chunk_cap - chunk_len) * CHUNK_SIZE
kmem_avail == MapThenSumSet(slabheap_avail, Classes) + heap_avail

kmem_alloc_size(size) ==
    IF size <= SlabSize(SLABHEAP_COUNT - 1) THEN CEIL_POW2(size)
    ELSE ALIGN2(size, CHUNK_SIZE)

RegionSet == BagToSet(regions)
Bytes(r) == r.start .. r.start + r.size - 1
SlabBlocks == {b \in BlockAddrs : owner[b] # NoClass}
HeapRegions == {r \in RegionSet : SlabFor(r.size) = NoClass}
ChunksOf(start, size) == Run((start - HEAP_BASE) \div CHUNK_SIZE, size \div CHUNK_SIZE)
\* the chunks slab heap i has bumped out of block b
Bumped(i, b) == {SlabChunk(i, b, k) : k \in 0..blk[b].len - 1}
SlabRegionsIn(b) == {r \in RegionSet : SlabFor(r.size) # NoClass /\
                                       r.start - (r.start % SLABHEAP_BLOCK_SIZE) = b}

----------------------------------------------------------------------------
(* Properties.                                                             *)

TypeOK ==
    /\ chunk_use \subseteq Chunks
    /\ chunk_len \in 0..chunk_cap
    /\ usable \in [Classes -> BlockAddrs \cup {Null}]
    /\ full \in [Classes -> BlockAddrs \cup {Null}]
    /\ owner \in [BlockAddrs -> Classes \cup {NoClass}]
    /\ \A b \in BlockAddrs : blk[b].len \in 0..blk[b].cap
    /\ fault \in {"none", "oom", "assert", "ub"}

\* No call sequence of callers that free only what they were given makes
\* kmem_alloc_aligned or kmem_free fail an assert or read a slab header
\* that is not one (slabheap_free masking a pointer, heap_free, slabheap_alloc).
NoFault == fault \in {"none", "oom"}

\* Two regions callers hold never share a byte: the bitset search, the slab
\* bump pointer and the recycle lists never hand out memory twice.
RegionsDisjoint ==
    \A r \in RegionSet :
        /\ regions[r] = 1
        /\ \A q \in RegionSet : q # r => Bytes(q) \cap Bytes(r) = {}

\* The sub-heap bitset marks exactly the chunks of the heap regions callers
\* hold and of the slab blocks, and h->chunk_len counts them.
HeapAccounting ==
    /\ chunk_use = UNION {ChunksOf(r.start, r.size) : r \in HeapRegions}
                   \cup UNION {ChunksOf(b, SLABHEAP_BLOCK_SIZE) : b \in SlabBlocks}
    /\ chunk_len = Cardinality(chunk_use)

\* Every chunk a slab block has bumped out is either held by exactly one
\* caller or on the block's recycle list, once.
SlabChunksAccounted ==
    \A b \in SlabBlocks :
        LET rec == blk[b].recycle
        IN  /\ Len(rec) = Cardinality(ToSet(rec))
            /\ ToSet(rec) \cap {r.start : r \in SlabRegionsIn(b)} = {}
            /\ ToSet(rec) \cup {r.start : r \in SlabRegionsIn(b)} = Bumped(owner[b], b)

\* Every block of a slab heap is on exactly one of its usable and full
\* lists, both lists end in NULL, usable blocks have a chunk to give and full
\* blocks have none (slabheap_alloc, slabheap_free moving blocks).
SlabListsWellFormed ==
    \A i \in Classes :
        LET U == ListOf(usable[i])
            F == ListOf(full[i])
            Free(b) == blk[b].recycle # <<>> \/ blk[b].len < blk[b].cap
        IN  /\ Len(U) + Len(F) = Cardinality({b \in SlabBlocks : owner[b] = i})
            /\ ToSet(U) \cup ToSet(F) = {b \in SlabBlocks : owner[b] = i}
            /\ \A k \in DOMAIN U : Free(U[k])
            /\ \A k \in DOMAIN F : ~Free(F[k])

\* kmem_alloc_aligned(size, alignment) returns a region aligned to alignment
\* and at least size bytes long (spec 8, Alignment).
RegionAligned == \A r \in RegionSet : IS_ALIGN2(r.start, r.align) /\ r.size >= r.req

\* kmem_avail counts every byte callers do not hold, so an alloc followed
\* by its free leaves it unchanged (spec 8, Round-trip).
AvailExact ==
    fault = "none" =>
        kmem_avail = chunk_cap * CHUNK_SIZE
                     - MapThenSumSet(LAMBDA r : r.size * CopiesIn(r, regions), RegionSet)

\* kmem_alloc_size(size) is the size a request for size bytes reserves
\* (spec 4.3), for any alignment up to SLABHEAP_MIN_SIZE.
AllocSizeAgrees ==
    ret.start # Null /\ ret.align <= SLABHEAP_MIN_SIZE => ret.size = kmem_alloc_size(ret.req)
=============================================================================
