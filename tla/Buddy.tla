------------------------------- MODULE Buddy -------------------------------
(***************************************************************************)
(* The physical memory manager of src/src/mem_mm.c: a binary buddy         *)
(* allocator over the usable page range [0, NPAGES) of one rmm_t.          *)
(*                                                                         *)
(* Addresses are page numbers relative to mm->start_addr, which is what    *)
(* the code computes with (addr -= mm->start_addr) before it touches a     *)
(* bitset.  Per order k the allocator keeps a free list of blocks of 2^k   *)
(* pages and a bitset with one bit per block of order k; a set bit means   *)
(* "allocated or split" at that order.  Every operation runs to completion *)
(* under mm->lock, so each one is a single atomic action.  The only        *)
(* operation that releases the lock half-way is rmm_allocpages_min, which  *)
(* retries rmm_allocpages in a loop; it is modelled as one step per        *)
(* attempt, per thread.                                                    *)
(*                                                                         *)
(* The free lists are ilist_t rings whose pop end is defined in list.h,    *)
(* which is not part of the sources: a free list is a set and a pop takes  *)
(* any member of it.                                                       *)
(***************************************************************************)
EXTENDS Integers, FiniteSets, Bitwise, FiniteSetsExt, RsmMacros

CONSTANTS
    NPAGES,     \* usable pages left by rmm_create after carving rmm_t and bitsets
    MAX_ORDER,  \* largest order of the buddy tree
    Threads,    \* threads that may sit in the rmm_allocpages_min retry loop
    ReqPages,   \* values of npages passed to rmm_allocpages
    MinReq,     \* values of *req_npages passed to rmm_allocpages_min
    MinMin      \* values of min_npages passed to rmm_allocpages_min

ASSUME NPAGES \in Nat \ {0}
ASSUME MAX_ORDER \in Nat

VARIABLES
    bits,       \* bits[k]: the set bit indices of mm->bitsets[k]
    freelists,  \* freelists[k]: start pages of the blocks on mm->freelists[k]
    free_size,  \* mm->free_size, in pages
    corrupt,    \* an assert of the code failed, or ilist_del ran on a block not on its list
    held,       \* blocks handed out and not yet freed: <<start page, order>>
    result,     \* the last reply of rmm_allocpages: [n |-> npages, addr |-> page or NoAddr]
    amin        \* amin[t]: Idle, or the npages/min_npages of t's rmm_allocpages_min loop

vars == <<bits, freelists, free_size, corrupt, held, result, amin>>

Orders == 0..MAX_ORDER
NoAddr == -1          \* NULL from rmm_allocpages, UINTPTR_MAX from rmm_allocpages1
Idle == [np |-> -1, min |-> -1]

Pow2(k) == 2^k
Log2(n) == CHOOSE k \in 0..n : 2^k = n
\* The allocator state that the recursive helpers thread through.
State == [bits |-> bits, fl |-> freelists, bad |-> corrupt]

\* bit_set(mm->bitsets[order], bit) after assert(!bit_get(...)).
SetBit(st, order, bit) ==
    [st EXCEPT !.bits[order] = @ \cup {bit}, !.bad = @ \/ bit \in st.bits[order]]

(***************************************************************************)
(* rmm_allocpages1: the set of possible outcomes [addr, st] of allocating  *)
(* one block of the order; addr = NoAddr when no block is available.       *)
(***************************************************************************)
RECURSIVE rmm_allocpages1(_, _)

\* Mutant: the top-order bound is off by one, so a free block of order
\* MAX_ORDER is never used.
rmm_allocpages1_maxorder_off_by_one(st, order) ==
    IF order > MAX_ORDER - 1 THEN {[addr |-> NoAddr, st |-> st]}
    ELSE IF st.fl[order] # {}
    THEN { [addr |-> a,
            st   |-> SetBit([st EXCEPT !.fl[order] = @ \ {a}], order, a \div Pow2(order))]
           : a \in st.fl[order] }
    ELSE { IF r.addr = NoAddr THEN r
           ELSE [addr |-> r.addr,
                 st   |-> SetBit([r.st EXCEPT !.fl[order] = @ \cup {r.addr + Pow2(order)}],
                                 order, r.addr \div Pow2(order))]
           : r \in rmm_allocpages1(st, order + 1) }

\* Mutant: a split puts the returned first half (buddy1) on the free list.
rmm_allocpages1_push_buddy1(st, order) ==
    IF order > MAX_ORDER THEN {[addr |-> NoAddr, st |-> st]}
    ELSE IF st.fl[order] # {}
    THEN { [addr |-> a,
            st   |-> SetBit([st EXCEPT !.fl[order] = @ \ {a}], order, a \div Pow2(order))]
           : a \in st.fl[order] }
    ELSE { IF r.addr = NoAddr THEN r
           ELSE [addr |-> r.addr,
                 st   |-> SetBit([r.st EXCEPT !.fl[order] = @ \cup {r.addr}],
                                 order, r.addr \div Pow2(order))]
           : r \in rmm_allocpages1(st, order + 1) }

rmm_allocpages1(st, order) ==
    IF order > MAX_ORDER THEN {[addr |-> NoAddr, st |-> st]}
    ELSE IF st.fl[order] # {}
    THEN { [addr |-> a,
            st   |-> SetBit([st EXCEPT !.fl[order] = @ \ {a}], order, a \div Pow2(order))]
           : a \in st.fl[order] }
    ELSE { IF r.addr = NoAddr THEN r
           ELSE [addr |-> r.addr,
                 st   |-> SetBit([r.st EXCEPT !.fl[order] = @ \cup {r.addr + Pow2(order)}],
                                 order, r.addr \div Pow2(order))]
           : r \in rmm_allocpages1(st, order + 1) }

(***************************************************************************)
(* rmm_freepages1: the order found for the block at addr (-1 if none) and  *)
(* the state after freeing and merging it.                                 *)
(***************************************************************************)
RECURSIVE rmm_freepages1(_, _, _)

\* Mutant: the buddy is taken to be the next block (addr + size) instead of
\* addr XOR size.
rmm_freepages1_buddy_add(st, addr, order) ==
    IF order > MAX_ORDER THEN [ret |-> -1, st |-> st]
    ELSE LET bit   == addr \div Pow2(order)
             buddy == addr + Pow2(order)
             st1   == [st EXCEPT !.bits[order] = @ \ {bit}]
         IN IF bit \notin st.bits[order] THEN rmm_freepages1(st, addr, order + 1)
            ELSE IF buddy \div Pow2(order) \notin st1.bits[order]
            THEN [ret |-> order,
                  st  |-> rmm_freepages1(
                            [st1 EXCEPT !.fl[order] = @ \ {buddy},
                                        !.bad = @ \/ buddy \notin st.fl[order]],
                            MinOf(addr, buddy), order + 1).st]
            ELSE [ret |-> order, st |-> [st1 EXCEPT !.fl[order] = @ \cup {addr}]]

\* Mutant: the merge path forgets bit_clear of the freed block.
rmm_freepages1_merge_keeps_bit(st, addr, order) ==
    IF order > MAX_ORDER THEN [ret |-> -1, st |-> st]
    ELSE LET bit   == addr \div Pow2(order)
             buddy == addr ^^ Pow2(order)
             st1   == [st EXCEPT !.bits[order] = @ \ {bit}]
         IN IF bit \notin st.bits[order] THEN rmm_freepages1(st, addr, order + 1)
            ELSE IF buddy \div Pow2(order) \notin st1.bits[order]
            THEN [ret |-> order,
                  st  |-> rmm_freepages1(
                            [st EXCEPT !.fl[order] = @ \ {buddy},
                                       !.bad = @ \/ buddy \notin st.fl[order]],
                            MinOf(addr, buddy), order + 1).st]
            ELSE [ret |-> order, st |-> [st1 EXCEPT !.fl[order] = @ \cup {addr}]]

\* Mutant: the buddy is never merged; the freed block is always pushed.
rmm_freepages1_no_merge(st, addr, order) ==
    IF order > MAX_ORDER THEN [ret |-> -1, st |-> st]
    ELSE LET bit == addr \div Pow2(order)
             st1 == [st EXCEPT !.bits[order] = @ \ {bit}]
         IN IF bit \notin st.bits[order] THEN rmm_freepages1(st, addr, order + 1)
            ELSE [ret |-> order, st |-> [st1 EXCEPT !.fl[order] = @ \cup {addr}]]

rmm_freepages1(st, addr, order) ==
    IF order > MAX_ORDER THEN [ret |-> -1, st |-> st]
    ELSE LET bit   == addr \div Pow2(order)
             buddy == addr ^^ Pow2(order)
             st1   == [st EXCEPT !.bits[order] = @ \ {bit}]
         IN IF bit \notin st.bits[order] THEN rmm_freepages1(st, addr, order + 1)
            ELSE IF buddy \div Pow2(order) \notin st1.bits[order]
            THEN [ret |-> order,
                  st  |-> rmm_freepages1(
                            [st1 EXCEPT !.fl[order] = @ \ {buddy},
                                        !.bad = @ \/ buddy \notin st.fl[order]],
                            MinOf(addr, buddy), order + 1).st]
            ELSE [ret |-> order, st |-> [st1 EXCEPT !.fl[order] = @ \cup {addr}]]

(***************************************************************************)
(* rmm_create: seed the free lists with the largest power-of-two blocks    *)
(* that fit, capped at 2^MAX_ORDER pages, and set the bit of the imaginary *)
(* buddy past the end of each seed.                                        *)
(***************************************************************************)
RECURSIVE Seed(_, _, _)
Seed(start, npages_total, st) ==
    IF npages_total = 0 THEN st
    ELSE LET npages == MinOf(FLOOR_POW2(npages_total), Pow2(MAX_ORDER))
             order  == Log2(npages)
             bit    == start \div npages
         IN Seed(start + npages, npages_total - npages,
                 [st EXCEPT !.fl[order] = @ \cup {start},
                            !.bits[order] = (@ \ {bit}) \cup {bit + 1}])

SeedState == Seed(0, NPAGES, [bits |-> [k \in Orders |-> {}],
                              fl   |-> [k \in Orders |-> {}],
                              bad  |-> FALSE])

rmm_create ==
    /\ bits = SeedState.bits
    /\ freelists = SeedState.fl
    /\ free_size = NPAGES
    /\ corrupt = FALSE

Init ==
    /\ rmm_create
    /\ held = {}
    /\ result = [n |-> 0, addr |-> NoAddr]
    /\ amin = [t \in Threads |-> Idle]

\* One call of rmm_allocpages(npages) under mm->lock; npages is a power of
\* two or 0.  The reply is left in result.

\* Mutant: free_size is decreased by one page whatever npages is.
rmm_allocpages_one_page(npages) ==
    IF npages = 0
    THEN /\ result' = [n |-> 0, addr |-> NoAddr]
         /\ UNCHANGED <<bits, freelists, free_size, corrupt, held>>
    ELSE \E r \in rmm_allocpages1(State, Log2(npages)) :
         /\ result' = [n |-> npages, addr |-> r.addr]
         /\ IF r.addr = NoAddr
            THEN UNCHANGED <<bits, freelists, free_size, corrupt, held>>
            ELSE /\ bits' = r.st.bits
                 /\ freelists' = r.st.fl
                 /\ corrupt' = r.st.bad
                 /\ free_size' = free_size - 1
                 /\ held' = held \cup {<<r.addr, Log2(npages)>>}

rmm_allocpages(npages) ==
    IF npages = 0
    THEN /\ result' = [n |-> 0, addr |-> NoAddr]
         /\ UNCHANGED <<bits, freelists, free_size, corrupt, held>>
    ELSE \E r \in rmm_allocpages1(State, Log2(npages)) :
         /\ result' = [n |-> npages, addr |-> r.addr]
         /\ IF r.addr = NoAddr
            THEN UNCHANGED <<bits, freelists, free_size, corrupt, held>>
            ELSE /\ bits' = r.st.bits
                 /\ freelists' = r.st.fl
                 /\ corrupt' = r.st.bad
                 /\ free_size' = free_size - npages
                 /\ held' = held \cup {<<r.addr, Log2(npages)>>}

\* Mutant: free_size grows by PAGE_SIZE << (order + 1).
rmm_freepages_double_size(blk) ==
    LET f == rmm_freepages1(State, blk[1], 0)
    IN /\ bits' = f.st.bits
       /\ freelists' = f.st.fl
       /\ corrupt' = f.st.bad
       /\ free_size' = IF f.ret >= 0 THEN free_size + Pow2(f.ret + 1) ELSE free_size
       /\ held' = held \ {blk}
       /\ UNCHANGED <<result, amin>>

\* rmm_freepages(ptr) of a block the caller holds.
rmm_freepages(blk) ==
    LET f == rmm_freepages1(State, blk[1], 0)
    IN /\ bits' = f.st.bits
       /\ freelists' = f.st.fl
       /\ corrupt' = f.st.bad
       /\ free_size' = IF f.ret >= 0 THEN free_size + Pow2(f.ret) ELSE free_size
       /\ held' = held \ {blk}
       /\ UNCHANGED <<result, amin>>

\* rmm_freepages(ptr) of a page that starts no block the caller holds: a
\* second free of a block, or a pointer into one.  The code takes it like
\* any other free; it is not part of Next, but of StraySpec below.
rmm_freepages_stray(a) ==
    /\ a \notin {b[1] : b \in held}
    /\ rmm_freepages(<<a, 0>>)

\* rmm_allocpages_min: entry, rounding the request up and defaulting min to 1.
AllocMinStart(t, req, min) ==
    /\ amin[t] = Idle
    /\ amin' = [amin EXCEPT ![t] = [np |-> CEIL_POW2(req), min |-> IF min = 0 THEN 1 ELSE min]]
    /\ UNCHANGED <<bits, freelists, free_size, corrupt, held, result>>

\* Mutant: the loop has no "npages == min_npages" exit.
AllocMinTry_no_min_exit(t) ==
    LET np == amin[t].np
    IN /\ amin[t] # Idle
       /\ rmm_allocpages(np)
       /\ amin' = [amin EXCEPT ![t] =
                     IF result'.addr # NoAddr THEN Idle ELSE [@ EXCEPT !.np = np \div 2]]

\* rmm_allocpages_min: one iteration of the retry loop (one locked rmm_allocpages).
AllocMinTry(t) ==
    LET np == amin[t].np
    IN /\ amin[t] # Idle
       /\ rmm_allocpages(np)
       /\ amin' = [amin EXCEPT ![t] =
                     IF result'.addr # NoAddr \/ np = amin[t].min THEN Idle
                     ELSE [@ EXCEPT !.np = np \div 2]]

Next ==
    \/ \E n \in ReqPages : rmm_allocpages(n) /\ UNCHANGED amin
    \/ \E blk \in held : rmm_freepages(blk)
    \/ \E t \in Threads, req \in MinReq, min \in MinMin : AllocMinStart(t, req, min)
    \/ \E t \in Threads : AllocMinTry(t)

Spec == Init /\ [][Next]_vars /\ \A t \in Threads : WF_vars(AllocMinTry(t))

\* Callers that may also free what they do not hold.
StraySpec == Init /\ [][Next \/ \E a \in 0..NPAGES - 1 : rmm_freepages_stray(a)]_vars

(***************************************************************************)
(* The read-only queries, each under mm->lock.                             *)
(***************************************************************************)
\* rmm_cap: (end_addr - start_addr) / PAGE_SIZE
rmm_cap == NPAGES
\* rmm_avail_total: free_size / PAGE_SIZE
rmm_avail_total == free_size

\* Mutant: the loop over the orders stops before MAX_ORDER.
rmm_avail_maxregion_below_max ==
    Max({Cardinality(freelists[k]) * Pow2(k) : k \in 0..MAX_ORDER - 1} \cup {0})

\* rmm_avail_maxregion: the largest ilist_count(&freelists[k]) << k
rmm_avail_maxregion ==
    Max({Cardinality(freelists[k]) * Pow2(k) : k \in Orders} \cup {0})

-----------------------------------------------------------------------------
(* Properties *)

BlockPages(b) == b[1] .. (b[1] + Pow2(b[2]) - 1)
FreeBlocks == UNION { {<<a, k>> : a \in freelists[k]} : k \in Orders }

TypeOK ==
    /\ bits \in [Orders -> SUBSET Nat]
    /\ freelists \in [Orders -> SUBSET (0..NPAGES - 1)]
    /\ free_size \in 0..NPAGES
    /\ corrupt \in BOOLEAN
    /\ held \subseteq ((0..NPAGES - 1) \X Orders)
    /\ result \in [n : Nat, addr : (0..NPAGES - 1) \cup {NoAddr}]
    /\ amin \in [Threads -> [np : Nat, min : Nat] \cup {Idle}]

\* No assert of rmm_allocpages1 fires and rmm_freepages1 never unlinks a
\* buddy that is not on its free list.
NoCorruption == ~corrupt

\* The free blocks and the blocks callers hold tile [0, NPAGES) exactly: no
\* page is both free and allocated, handed out twice, or lost by a split or
\* a merge (spec 3, PMM invariant (a)).
BlocksTile ==
    /\ UNION { BlockPages(b) : b \in FreeBlocks \cup held } = 0..NPAGES - 1
    /\ MapThenSumSet(LAMBDA b : Pow2(b[2]), FreeBlocks)
         + MapThenSumSet(LAMBDA b : Pow2(b[2]), held) = NPAGES

\* mm->free_size counts exactly the pages on the free lists (spec 3 (c)).
FreeSizeExact == free_size = MapThenSumSet(LAMBDA b : Pow2(b[2]), FreeBlocks)

\* rmm_freepages finds the order of a held block by probing the bitsets
\* upward from order 0; the first set bit must be at the order the block
\* was allocated with, or the free releases the wrong amount (spec 9.4).
FoundOrder(a) == LET ks == {k \in Orders : a \div Pow2(k) \in bits[k]}
                 IN IF ks = {} THEN -1 ELSE Min(ks)
OrderDeducible == \A b \in held : FoundOrder(b[1]) = b[2]

\* Buddy balance (spec 8): once every allocation has been freed the free
\* lists are the seed lists of rmm_create again.
BuddyBalance == held = {} => freelists = SeedState.fl

\* The queries a caller sizes its requests by agree with each other and
\* with the free lists: every free block of 2^k pages makes
\* rmm_avail_maxregion at least 2^k, which is at most rmm_avail_total,
\* which is at most rmm_cap.  (rmm_avail_maxregion sums the blocks of one
\* order, so it may exceed the largest block: it is not a region size.)
AvailQueries ==
    /\ \A b \in FreeBlocks : Pow2(b[2]) <= rmm_avail_maxregion
    /\ rmm_avail_maxregion <= rmm_avail_total
    /\ rmm_avail_total <= rmm_cap

\* Every rmm_allocpages_min call eventually returns.
AllocMinReturns == \A t \in Threads : amin[t] # Idle ~> amin[t] = Idle

\* The buddy allocator implements the abstract page allocator.
Abstract == INSTANCE PageAlloc
AbstractSpec == Abstract!Spec
=============================================================================
