----------------------------- MODULE RmmSelfTest -----------------------------
(***************************************************************************)
(* init_mm and the self test test_rmm of src/src/mem_mm.c, at the build's  *)
(* own scale: 4 KiB pages, MAX_ORDER 20 and the test's 10 MiB region.      *)
(* init_mm checks the host page size against PAGE_SIZE and runs test_rmm,  *)
(* which carves the region with rmm_create (the RmmCreate model, seeding   *)
(* through Buddy's Seed) and then drives the buddy allocator (Buddy's      *)
(* rmm_allocpages1 and rmm_freepages1) through a fixed call sequence:      *)
(* allocations of 0 and 4 pages, sixteen 4-page blocks and one page, all   *)
(* freed again in "tip-tap" order.  Each call runs under mm->lock and is   *)
(* one step; mm->free_size is kept in bytes, as the code keeps it.         *)
(* osvmem_alloc (os layer, not among the sources) is taken to return the   *)
(* host-page-aligned address MEMP.                                         *)
(***************************************************************************)
EXTENDS Integers, Sequences

CONSTANTS
    PAGE_SIZE,      \* bytes of a page
    MAX_ORDER,      \* largest buddy order
    RMM_SIZE,       \* sizeof(rmm_t)
    RMM_ALIGN,      \* _Alignof(rmm_t)
    MEMSIZE,        \* test_rmm's memsize
    MEMP,           \* the region osvmem_alloc(memsize) maps
    HostPageSizes   \* values mem_pagesize() returns on the supported hosts

VARIABLES
    phase, memp, memsize, mm, bitsets, start_addr, end_addr, free_size,
    bits, freelists,  \* the rmm_t, as RmmCreate names its parts
    corrupt,          \* an assert of rmm_allocpages1 or rmm_freepages1 failed
    host_pagesize,    \* what init_mm read from mem_pagesize(), 0 before
    stage,            \* "init", "create", "calls", "done", or "abort" when an assert failed
    pc,               \* the index in Calls of test_rmm's next call
    ptrs,             \* ptrs[0..15], p and p2 of test_rmm: page offsets or NoAddr
    seed              \* ghost: the free lists rmm_create seeded

vars == <<phase, memp, memsize, mm, bitsets, start_addr, end_addr, free_size,
          bits, freelists, corrupt, host_pagesize, stage, pc, ptrs, seed>>

NoAddr == -1
NPTRS == 16                 \* countof(ptrs)
P == NPTRS                  \* the slot of p
P2 == NPTRS + 1             \* the slot of p2
Slots == 0 .. NPTRS + 1

R == INSTANCE RmmCreate WITH Bases <- {MEMP}, MemSizes <- {MEMSIZE}

\* rmm_allocpages1 and rmm_freepages1 do not read NPAGES; it bounds only
\* Buddy's own type invariant
Bd == INSTANCE Buddy WITH NPAGES <- MEMSIZE \div PAGE_SIZE, Threads <- {},
                          ReqPages <- {}, MinReq <- {}, MinMin <- {},
                          free_size <- free_size \div PAGE_SIZE, corrupt <- FALSE,
                          held <- {}, result <- [n |-> 0, addr |-> NoAddr], amin <- <<>>

Call(op, slot, n) == [op |-> op, slot |-> slot, n |-> n]

\* the free order of the second loop: ptrs[countof(ptrs) - i] for odd i
TipTap(i) == IF i % 2 = 1 THEN NPTRS - i ELSE i

\* test_rmm's calls of the PMM, in program order
Calls ==
    << Call("alloc0", P, 0),
       Call("alloc", P, 4), Call("free", P, 0),
       Call("alloc", P, 4), Call("free", P, 0) >>
    \o [i \in 1 .. NPTRS |-> Call("alloc", i - 1, 4)]
    \o << Call("alloc", P2, 1) >>
    \o [i \in 1 .. NPTRS |-> Call("free", TipTap(i - 1), 0)]
    \o << Call("free", P2, 0) >>

----------------------------------------------------------------------------
(* The steps.                                                              *)

\* init_mm: the host page size must be a multiple or a divisor of
\* PAGE_SIZE, or assertf(0, ...) fires; then test_rmm runs
init_mm ==
    /\ stage = "init"
    /\ \E hp \in HostPageSizes :
         /\ host_pagesize' = hp
         /\ stage' = IF hp % PAGE_SIZE # 0 /\ PAGE_SIZE % hp # 0 THEN "abort" ELSE "create"
    /\ UNCHANGED <<phase, memp, memsize, mm, bitsets, start_addr, end_addr,
                   free_size, bits, freelists, corrupt, pc, ptrs, seed>>

\* test_rmm: memp = osvmem_alloc(memsize); mm = assertnotnull(rmm_create(..))
TestCreate ==
    /\ stage = "create"
    /\ R!rmm_create(MEMP, MEMSIZE)
    /\ stage' = IF phase' = "oom" THEN "abort" ELSE "calls"
    /\ seed' = freelists'
    /\ UNCHANGED <<corrupt, host_pagesize, pc, ptrs>>

\* assertnull(rmm_allocpages(mm, 0)): npages == 0 returns 0 at once
TestAllocNone ==
    /\ pc' = pc + 1
    /\ UNCHANGED <<phase, memp, memsize, mm, bitsets, start_addr, end_addr,
                   free_size, bits, freelists, corrupt, host_pagesize, stage, ptrs, seed>>

\* mutant: free_size grows by PAGE_SIZE << (order + 1)
TestFree_double_size(s) ==
    LET f == Bd!rmm_freepages1(Bd!State, ptrs[s], 0)
    IN  /\ bits' = f.st.bits
        /\ freelists' = f.st.fl
        /\ corrupt' = (corrupt \/ f.st.bad)
        /\ free_size' = IF f.ret >= 0 THEN free_size + PAGE_SIZE * 2^(f.ret + 1) ELSE free_size
        /\ pc' = pc + 1
        /\ UNCHANGED <<phase, memp, memsize, mm, bitsets, start_addr, end_addr,
                       host_pagesize, stage, ptrs, seed>>

\* slot = assertnotnull(rmm_allocpages(mm, npages)), npages a power of two
TestAlloc(s, npages) ==
    \E r \in Bd!rmm_allocpages1(Bd!State, Bd!Log2(npages)) :
        /\ bits' = r.st.bits
        /\ freelists' = r.st.fl
        /\ corrupt' = (corrupt \/ r.st.bad)
        /\ free_size' = IF r.addr = NoAddr THEN free_size ELSE free_size - npages * PAGE_SIZE
        /\ ptrs' = [ptrs EXCEPT ![s] = r.addr]
        /\ stage' = IF r.addr = NoAddr THEN "abort" ELSE stage
        /\ pc' = pc + 1
        /\ UNCHANGED <<phase, memp, memsize, mm, bitsets, start_addr, end_addr,
                       host_pagesize, seed>>

\* rmm_freepages(mm, slot): free_size += PAGE_SIZE << order
TestFree(s) ==
    LET f == Bd!rmm_freepages1(Bd!State, ptrs[s], 0)
    IN  /\ bits' = f.st.bits
        /\ freelists' = f.st.fl
        /\ corrupt' = (corrupt \/ f.st.bad)
        /\ free_size' = IF f.ret >= 0 THEN free_size + PAGE_SIZE * 2^f.ret ELSE free_size
        /\ pc' = pc + 1
        /\ UNCHANGED <<phase, memp, memsize, mm, bitsets, start_addr, end_addr,
                       host_pagesize, stage, ptrs, seed>>

\* the next call of test_rmm
TestCall ==
    /\ stage = "calls"
    /\ pc <= Len(Calls)
    /\ LET c == Calls[pc]
       IN  \/ c.op = "alloc0" /\ TestAllocNone
           \/ c.op = "alloc" /\ TestAlloc(c.slot, c.n)
           \/ c.op = "free" /\ TestFree(c.slot)

\* rmm_dispose(mm), which does nothing, and osvmem_free; test_rmm returns
TestEnd ==
    /\ stage = "calls"
    /\ pc = Len(Calls) + 1
    /\ stage' = "done"
    /\ UNCHANGED <<phase, memp, memsize, mm, bitsets, start_addr, end_addr,
                   free_size, bits, freelists, corrupt, host_pagesize, pc, ptrs, seed>>

Init ==
    /\ R!Init
    /\ corrupt = FALSE
    /\ host_pagesize = 0
    /\ stage = "init"
    /\ pc = 1
    /\ ptrs = [s \in Slots |-> NoAddr]
    /\ seed = freelists

Next == init_mm \/ TestCreate \/ TestCall \/ TestEnd

Spec == Init /\ [][Next]_vars

----------------------------------------------------------------------------
(* Properties.                                                             *)

TypeOK ==
    /\ stage \in {"init", "create", "calls", "done", "abort"}
    /\ pc \in 1 .. Len(Calls) + 1
    /\ ptrs \in [Slots -> (0 .. MEMSIZE \div PAGE_SIZE) \cup {NoAddr}]
    /\ host_pagesize \in HostPageSizes \cup {0}
    /\ free_size \in 0 .. end_addr - start_addr
    /\ corrupt \in BOOLEAN

\* test_rmm passes on every supported host: init_mm's page-size check
\* holds, rmm_create gives a PMM, each of the seventeen allocations of
\* the test gets a block (its assertnotnull holds), and no assert inside
\* rmm_allocpages1 (bit already set) or rmm_freepages1 (buddy not on its
\* free list) fires over the whole sequence.
TestPasses == stage # "abort" /\ ~corrupt

\* When test_rmm ends, every split has been merged back: rmm_avail_total
\* equals rmm_cap again and the free lists are the ones rmm_create seeded,
\* so the before and after figures the test traces agree.
TestRestores ==
    stage = "done" =>
        /\ free_size = end_addr - start_addr
        /\ freelists = seed
====
