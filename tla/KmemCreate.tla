----------------------------- MODULE KmemCreate -----------------------------
(***************************************************************************)
(* kmem_allocator_create of src/unnamed/part_000 at the build's real       *)
(* constants: how the kernel heap allocator lays itself out over the page  *)
(* run it takes from the PMM.  The rmemalloc_t goes at the top of the run; *)
(* kmem_add_subheap turns the rest into the first sub-heap, placing the    *)
(* subheap_t after the chunks when the run is HEAP_MAX_ALIGN-aligned and   *)
(* in front of them (forfeiting the bytes up to the next HEAP_MAX_ALIGN    *)
(* boundary) when it is not; heap_init then splits the sub-heap between    *)
(* chunks and the chunk-use bitset.  One call is one step.  Where the run *)
(* lies is what the buddy allocator can return for npages pages: a block  *)
(* of npages pages at a multiple of npages from start_addr, which is only *)
(* page-aligned.  sizeof(rmemalloc_t) and sizeof(subheap_t) depend on the *)
(* platform's mutex and bitset_t, so they range over small sets.          *)
(***************************************************************************)
EXTENDS Integers, RsmMacros

CONSTANTS
    PAGE_SIZE,            \* bytes of a page
    CHUNK_SIZE,           \* 64 on a 64-bit build
    SLABHEAP_BLOCK_SIZE,  \* PAGE_SIZE * 16
    SUBHEAP_ALIGN,        \* _Alignof(subheap_t)
    BASE,                 \* a HEAP_MAX_ALIGN boundary at or below start_addr
    AllocatorSizes,       \* values of ALIGN2(sizeof(rmemalloc_t), _Alignof)
    SubheapSizes,         \* values of sizeof(subheap_t)
    InitMems,             \* values of min_initmem
    StartPages,           \* start_addr - BASE, in pages
    Blocks                \* which npages-block of the managed range is returned

HEAP_MIN_SIZE == CHUNK_SIZE * 2
HEAP_MAX_ALIGN == MaxOf(PAGE_SIZE, SLABHEAP_BLOCK_SIZE)

ASSUME /\ BASE % HEAP_MAX_ALIGN = 0
       /\ \A s \in SubheapSizes : s % SUBHEAP_ALIGN = 0
       /\ \A s \in AllocatorSizes : s % SUBHEAP_ALIGN = 0

VARIABLES
    phase,     \* "none", "created", "null" when the call returned NULL, "freed"
    req,       \* [initmem, asz, ssz]: the call's input and the struct sizes
    run,       \* [p, nbyte]: the pages taken from the PMM (p = 0 for none)
    a,         \* the address of the rmemalloc_t
    sub,       \* the subheap kmem_add_subheap added, or NoSubheap
    leaked     \* bytes of PMM pages no allocator owns after the call

vars == <<phase, req, run, a, sub, leaked>>

NoSubheap == [sh |-> 0, chunks |-> 0, size |-> 0, cap |-> 0]

\* mutant: the search reserves a bitset byte per 64 chunks (u64 words)
RECURSIVE HeapInitSearch_words(_, _, _)
HeapInitSearch_words(size, cap, sub_) ==
    IF cap * CHUNK_SIZE + cap \div 64 > size
    THEN HeapInitSearch_words(size, cap - sub_, sub_ * 2) ELSE cap

\* the exponential search of heap_init: from cap = size/CHUNK_SIZE - 1
\* take away 1, 2, 4, ... chunks until chunks plus cap/8 bitset bytes fit
RECURSIVE HeapInitSearch(_, _, _)
HeapInitSearch(size, cap, sub_) ==
    IF cap * CHUNK_SIZE + cap \div 8 > size
    THEN HeapInitSearch(size, cap - sub_, sub_ * 2) ELSE cap

\* heap_init(h, p, size): the chunk_cap it settles on
heap_init(size) == HeapInitSearch(size, (size \div CHUNK_SIZE) - 1, 1)

\* aligned storage: subheap_t at the top, rounded down with ALIGN2_FLOOR,
\* and check_sub_overflow(sh, storage, &size)
AlignedPlacement(storage, size, ssz) ==
    LET sh == ALIGN2_FLOOR((storage + size) - ssz, SUBHEAP_ALIGN)
    IN  IF sh < storage THEN NoSubheap
        ELSE [sh |-> sh, chunks |-> storage, size |-> sh - storage, cap |-> 0]

\* mutant: the bytes forfeited to alignment are not taken off size
UnalignedPlacement_no_diff(storage, size, ssz) ==
    LET st == ALIGN2(storage + ssz, HEAP_MAX_ALIGN)
    IN  IF size < st - storage THEN NoSubheap
        ELSE [sh |-> storage, chunks |-> st, size |-> size, cap |-> 0]

\* unaligned storage: subheap_t at storage, chunks from the next
\* HEAP_MAX_ALIGN boundary above it, check_sub_overflow(size, size_diff)
UnalignedPlacement(storage, size, ssz) ==
    LET st == ALIGN2(storage + ssz, HEAP_MAX_ALIGN)
        diff == st - storage
    IN  IF size < diff THEN NoSubheap
        ELSE [sh |-> storage, chunks |-> st, size |-> size - diff, cap |-> 0]

\* the placement, then the HEAP_MIN_SIZE test and subheap_init
SubheapInit(r) ==
    IF r = NoSubheap \/ r.size < HEAP_MIN_SIZE THEN NoSubheap
    ELSE [r EXCEPT !.cap = heap_init(r.size)]

\* kmem_add_subheap(a, storage, size); NoSubheap where it returns false
kmem_add_subheap(storage, size, ssz) ==
    IF size < ALIGN2(ssz, SUBHEAP_ALIGN) + HEAP_MIN_SIZE THEN NoSubheap
    ELSE SubheapInit(IF IS_ALIGN2(storage, HEAP_MAX_ALIGN)
                     THEN AlignedPlacement(storage, size, ssz)
                     ELSE UnalignedPlacement(storage, size, ssz))

\* mutant: the page count rounded down to a power of two
NPages_floor(asz, initmem) ==
    FLOOR_POW2(ALIGN2(asz + ALIGN_CEIL(initmem, CHUNK_SIZE), PAGE_SIZE) \div PAGE_SIZE)

\* npages = CEIL_POW2(ALIGN2(allocator_size + min_initmem, PAGE_SIZE) / PAGE_SIZE)
NPages(asz, initmem) ==
    CEIL_POW2(ALIGN2(asz + ALIGN_CEIL(initmem, CHUNK_SIZE), PAGE_SIZE) \div PAGE_SIZE)

\* the addresses rmm_allocpages(mm, npages) can return
PmmRuns(npages) ==
    {BASE + (s + j * npages) * PAGE_SIZE : s \in StartPages, j \in Blocks}

\* kmem_allocator_create(mm, min_initmem): rmm_allocpages may return NULL,
\* RHMutexInit may fail (returning NULL with the pages still taken), and
\* a failed kmem_add_subheap is only traced: the allocator is returned
kmem_allocator_create(initmem, asz, ssz) ==
    LET nbyte == NPages(asz, initmem) * PAGE_SIZE
    IN  /\ phase = "none"
        /\ req' = [initmem |-> initmem, asz |-> asz, ssz |-> ssz]
        /\ \/ /\ phase' = "null"
              /\ UNCHANGED <<run, a, sub, leaked>>
           \/ \E p \in PmmRuns(nbyte \div PAGE_SIZE), mutex_ok \in BOOLEAN :
                 /\ run' = [p |-> p, nbyte |-> nbyte]
                 /\ a' = (p + nbyte) - asz
                 /\ IF mutex_ok
                    THEN /\ phase' = "created"
                         /\ sub' = kmem_add_subheap(p, nbyte - asz, ssz)
                         /\ UNCHANGED leaked
                    ELSE /\ phase' = "null"
                         /\ leaked' = nbyte
                         /\ UNCHANGED sub

\* kmem_allocator_free(a): rmm_freepages(a->mm, a->mem_origin), which gives
\* back the creation run (slab blocks and later subheaps are a TODO)
kmem_allocator_free ==
    /\ phase = "created"
    /\ phase' = "freed"
    /\ run' = [p |-> 0, nbyte |-> 0]
    /\ UNCHANGED <<req, a, sub, leaked>>

Init ==
    /\ phase = "none"
    /\ req = [initmem |-> 0, asz |-> 0, ssz |-> 0]
    /\ run = [p |-> 0, nbyte |-> 0]
    /\ a = 0
    /\ sub = NoSubheap
    /\ leaked = 0

Next == \/ \E m \in InitMems, asz \in AllocatorSizes, ssz \in SubheapSizes :
              kmem_allocator_create(m, asz, ssz)
        \/ kmem_allocator_free

Spec == Init /\ [][Next]_vars
----------------------------------------------------------------------------
(* Properties.                                                             *)

TypeOK ==
    /\ phase \in {"none", "created", "null", "freed"}
    /\ run \in [p : Nat, nbyte : Nat]
    /\ sub \in [sh : Nat, chunks : Nat, size : Nat, cap : Nat]
    /\ {a, leaked} \subseteq Nat
    \* the pages taken hold the rmemalloc_t and min_initmem rounded to chunks
    /\ run.p /= 0 => run.nbyte >= req.asz + ALIGN_CEIL(req.initmem, CHUNK_SIZE)

\* the byte ranges an allocator made from the run occupies
ChunkArea == [lo |-> sub.chunks, hi |-> sub.chunks + sub.cap * CHUNK_SIZE]
BitsetArea == [lo |-> ChunkArea.hi, hi |-> ChunkArea.hi + (sub.cap + 7) \div 8]
SubheapArea == [lo |-> sub.sh, hi |-> sub.sh + req.ssz]
AllocatorArea == [lo |-> a, hi |-> a + req.asz]
Apart(r1, r2) == r1.hi <= r2.lo \/ r2.hi <= r1.lo

\* After kmem_allocator_create the chunks heap_alloc hands out, the chunk
\* bitset, the subheap_t and the rmemalloc_t lie inside the pages taken
\* from the PMM, none overlapping another, and the chunks start on a
\* HEAP_MAX_ALIGN boundary (the largest alignment heap_alloc serves) --
\* over both placements of kmem_add_subheap and every run the PMM returns.
LayoutDisjoint ==
    phase = "created" /\ sub /= NoSubheap =>
        LET areas == {ChunkArea, BitsetArea, SubheapArea, AllocatorArea}
        IN  /\ \A r \in areas : run.p <= r.lo /\ r.hi <= run.p + run.nbyte
            /\ \A r1, r2 \in areas : r1 /= r2 => Apart(r1, r2)
            /\ IS_ALIGN2(sub.chunks, HEAP_MAX_ALIGN)

\* heap_init chooses chunk_cap so that the bitset -- chunk_cap bits, a
\* whole number of bytes -- ends inside the sub-heap's run (spec 4.3),
\* although its search counts chunk_cap / 8 bytes, rounded down.
HeapBitsetFits ==
    sub /= NoSubheap =>
        /\ sub.cap > 0
        /\ BitsetArea.hi <= sub.chunks + sub.size
====
