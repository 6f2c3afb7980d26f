------------------------------ MODULE RmmCreate ------------------------------
(***************************************************************************)
(* rmm_create of src/src/mem_mm.c: how the physical memory manager carves *)
(* the region [memp, memp + memsize) it is given.  The rmm_t goes at the  *)
(* top, aligned down with ALIGN2_FLOOR; the per-order bitsets go right    *)
(* below it; one page is reserved; the rest, rounded with ALIGN2_FLOOR to *)
(* pages, becomes the managed range [start_addr, end_addr), seeded into   *)
(* the free lists by Buddy's Seed.  One call is one step; the module      *)
(* checks the layout it leaves for every base and size of a small range.  *)
(* Byte addresses are plain naturals: the region never touches the top of *)
(* the address space, so no uintptr sum wraps.                            *)
(***************************************************************************)
EXTENDS Integers, FiniteSets, FiniteSetsExt, RsmMacros

CONSTANTS
    PAGE_SIZE,   \* bytes of a page
    MAX_ORDER,   \* largest buddy order
    RMM_SIZE,    \* sizeof(rmm_t)
    RMM_ALIGN,   \* _Alignof(rmm_t)
    Bases,       \* values of memp
    MemSizes     \* values of memsize

ASSUME RMM_SIZE % RMM_ALIGN = 0 /\ \A p \in Bases : p >= RMM_SIZE

VARIABLES
    phase,       \* "none", "created", or "oom" when rmm_create returned NULL
    memp,        \* the region rmm_create was given
    memsize,
    mm,          \* the address of the rmm_t
    bitsets,     \* bitsets[k]: [addr, size] of mm->bitsets[k]
    start_addr,  \* mm->start_addr
    end_addr,    \* mm->end_addr
    free_size,   \* mm->free_size, in bytes
    bits,        \* bits[k]: the set bits of mm->bitsets[k] after seeding
    freelists    \* freelists[k]: the seeded blocks, as page offsets

vars == <<phase, memp, memsize, mm, bitsets, start_addr, end_addr, free_size,
          bits, freelists>>

Orders == 0 .. MAX_ORDER
NoBitset == [addr |-> 0, size |-> 0]

\* the seeding loop over npages pages, as the PMM model states it
B(npages) == INSTANCE Buddy WITH NPAGES <- npages, Threads <- {}, ReqPages <- {},
                                 MinReq <- {}, MinMin <- {}, corrupt <- FALSE,
                                 held <- {}, result <- NoBitset, amin <- <<>>,
                                 free_size <- free_size \div PAGE_SIZE

\* check_sub_overflow(a, b, &r): TRUE when a - b wraps
SubOverflow(a, b) == a < b

\* mutant: bset_nbytes counted in 64-bit words instead of bytes
BsetNbytes_words(nchunks) == nchunks \div 64

\* bset_nbytes: nchunks / 8, one bit per page
BsetNbytes(nchunks) == nchunks \div 8

\* mutant: BITSET_SIZE without bset_extra_nbytes
BITSET_SIZE_no_extra(bset_nbytes, order) == bset_nbytes \div 2^order

\* BITSET_SIZE(order): (bset_nbytes >> order) + bset_extra_nbytes
BITSET_SIZE(bset_nbytes, order) == (bset_nbytes \div 2^order) + 2

\* bset_total_size, and where each bitset starts above bitset_start
BitsetTotal(bset_nbytes) == MapThenSumSet(LAMBDA k : BITSET_SIZE(bset_nbytes, k), Orders)
BitsetOffset(bset_nbytes, order) ==
    MapThenSumSet(LAMBDA k : BITSET_SIZE(bset_nbytes, k), 0 .. order - 1)

\* mutant: no page is kept back beside the bitsets
MetaReserve_no_page(bset_nbytes) == BitsetTotal(bset_nbytes)

\* the bytes subtracted from memsize for the bitsets and the spare page
MetaReserve(bset_nbytes) == BitsetTotal(bset_nbytes) + PAGE_SIZE

\* rmm_create(memp, memsize)
rmm_create(p, n) ==
    LET start == ALIGN2(p, PAGE_SIZE)
        end == p + n
        m == ALIGN2_FLOOR(end - RMM_SIZE, RMM_ALIGN)
        nchunks == (m - start) \div PAGE_SIZE
        bset_nbytes == BsetNbytes(nchunks)
        total == BitsetTotal(bset_nbytes)
        size == ALIGN2_FLOOR((m - start) - MetaReserve(bset_nbytes), PAGE_SIZE)
        seeded == B(size \div PAGE_SIZE)!SeedState
    IN  /\ phase = "none"
        /\ memp' = p
        /\ memsize' = n
        /\ IF SubOverflow(m, start)
              \/ SubOverflow(m - start, MetaReserve(bset_nbytes))
              \/ size = 0
           THEN /\ phase' = "oom"
                /\ UNCHANGED <<mm, bitsets, start_addr, end_addr, free_size,
                               bits, freelists>>
           ELSE /\ phase' = "created"
                /\ mm' = m
                /\ bitsets' = [k \in Orders |->
                                 [addr |-> (m - total) + BitsetOffset(bset_nbytes, k),
                                  size |-> BITSET_SIZE(bset_nbytes, k)]]
                /\ start_addr' = start
                /\ end_addr' = start + size
                /\ free_size' = size
                /\ bits' = seeded.bits
                /\ freelists' = seeded.fl

Init ==
    /\ phase = "none"
    /\ memp = 0
    /\ memsize = 0
    /\ mm = 0
    /\ bitsets = [k \in Orders |-> NoBitset]
    /\ start_addr = 0
    /\ end_addr = 0
    /\ free_size = 0
    /\ bits = [k \in Orders |-> {}]
    /\ freelists = [k \in Orders |-> {}]

Next == \E p \in Bases, n \in MemSizes : rmm_create(p, n)

Spec == Init /\ [][Next]_vars
----------------------------------------------------------------------------
(* Properties.                                                             *)

TypeOK ==
    /\ phase \in {"none", "created", "oom"}
    /\ {mm, start_addr, end_addr, free_size} \subseteq Nat
    /\ bitsets \in [Orders -> [addr : Nat, size : Nat]]
    \* a bitset rmm_create laid out always has its bset_extra_nbytes
    /\ phase = "created" => \A k \in Orders : bitsets[k].size > 0
    /\ bits \in [Orders -> SUBSET Nat]
    /\ freelists \in [Orders -> SUBSET Nat]

\* rmm_create's carving keeps its pieces apart and in order: the managed
\* pages start page-aligned at or above memp and end at or below the
\* first bitset, the bitsets follow each other without overlap, and the
\* last one ends where the rmm_t begins; free_size is the managed range.
LayoutDisjoint ==
    phase = "created" =>
        /\ memp <= start_addr
        /\ start_addr % PAGE_SIZE = 0
        /\ free_size = end_addr - start_addr
        /\ end_addr <= bitsets[0].addr
        /\ \A k \in Orders \ {MAX_ORDER} :
              bitsets[k].addr + bitsets[k].size = bitsets[k + 1].addr
        /\ bitsets[MAX_ORDER].addr + bitsets[MAX_ORDER].size = mm
        /\ mm % RMM_ALIGN = 0

\* The bitsets rmm_create sizes from bset_nbytes hold every bit the buddy
\* allocator can touch over the managed pages: at each order the index of
\* any block in range and that of its buddy (the seed's "end buddy" one
\* past the last block included), so no bit_set / bit_get of rmm_create,
\* rmm_allocpages1 or rmm_freepages1 reaches past its bitset.
BitsetsCover ==
    phase = "created" =>
        \A k \in Orders :
            /\ \A b \in bits[k] : b < 8 * bitsets[k].size
            /\ \A s \in 0 .. (free_size \div PAGE_SIZE) - 1 :
                  (s \div 2^k) + 1 < 8 * bitsets[k].size

\* The rmm_t lies inside the region rmm_create was handed, which is what
\* ALIGN2_FLOOR ("rounds down x to nearest a") is used for at the top of
\* the region.
MmInRegion ==
    phase = "created" => memp <= mm /\ mm + RMM_SIZE <= memp + memsize
====
