-------------------------------- MODULE Vmm --------------------------------
(***************************************************************************)
(* The virtual memory manager of src/src/vm.c: a page directory, a tree   *)
(* of VM_PTAB_LEVELS page tables in host pages that the walk fills in on  *)
(* first touch, and per-thread direct-mapped translation caches in front  *)
(* of it.  The host pages come from the physical memory manager, which    *)
(* other callers share; it hands out any free page, and rmm_freepages     *)
(* writes its free-list links into the first two words of a freed page.   *)
(* The walk runs under pagedir->lock and is one step; a guest access      *)
(* (VM_LOAD / VM_STORE of vm.h) is one step of one thread.  Addresses are *)
(* machine words of WORD_BITS bits.                                       *)
(***************************************************************************)
EXTENDS Integers, FiniteSets, Bitwise

CONSTANTS
    PAGE_SIZE_BITS,   \* log2 of PAGE_SIZE
    VM_ADDR_BITS,     \* vm.h: bits of a guest address
    VM_ADDR_MAX,      \* vm.h: the highest guest address
    VM_PTAB_LEVELS,   \* vm.h: depth of the page-table tree
    VM_PTAB_BITS,     \* vm.h: VFN bits each level indexes with
    VM_CACHE_LEN,     \* vm.h: entries of a translation cache
    WORD_BITS,        \* width of uintptr / u64
    HOST_BASE,        \* host page number of the PMM's first page
    NHOST,            \* pages the PMM manages
    LINK,             \* a free-list link: a host byte address
    ZERO_PAGES,       \* whether VM_ZERO_PAGES is defined
    OTHER_MAX,        \* bound: pages the other PMM callers hold at once
    Threads,          \* threads, each with its own translation cache
    VAddrs,           \* guest addresses accessed
    Sizes,            \* access sizes in bytes (VM_OP_ALIGNMENT)
    Values            \* byte values stored

VARIABLES
    phase,    \* "none", "live" or "disposed": the page directory's life
    pagedir,  \* host page of the vm_pagedir_t, or 0
    root,     \* pagedir->root, a host page number, or 0
    mem,      \* mem[p][o]: byte o of host page p
    owner,    \* ghost: who holds host page p
    cache,    \* cache[t][i]: entry i of thread t's vm_cache_t
    guest,    \* ghost: guest[v], the byte last stored at guest address v
    stray,    \* ghost: an access went outside the directory's backing pages
    fault     \* "none", or the panic or assert that ended the process

vars == <<phase, pagedir, root, mem, owner, cache, guest, stray, fault>>

PAGE_SIZE == 2^PAGE_SIZE_BITS
VM_PTAB_LEN == 2^VM_PTAB_BITS
VFN_BITS == VM_ADDR_BITS - PAGE_SIZE_BITS
VM_ADDR_MIN == PAGE_SIZE
PTE_SIZE == PAGE_SIZE \div VM_PTAB_LEN   \* sizeof(vm_pte_t), scaled
WORD == 2^WORD_BITS
AllOnes == WORD - 1
HostPages == HOST_BASE .. HOST_BASE + NHOST - 1
Offsets == 0 .. PAGE_SIZE - 1
PtabIdx == 0 .. VM_PTAB_LEN - 1
CacheIdx == 0 .. VM_CACHE_LEN - 1
GuestAddrs == VM_ADDR_MIN .. VM_ADDR_MAX
NoVal == -1
Owners == {"free", "other", "pagedir", "table", "data"}

ASSUME /\ VFN_BITS = VM_PTAB_LEVELS * VM_PTAB_BITS
       /\ LINK \notin HostPages
       /\ (HOST_BASE + NHOST) * PAGE_SIZE <= AllOnes

\* vm.h address macros
VM_VFN(vaddr) == vaddr \div PAGE_SIZE
VM_ADDR_PAGE_MASK == AllOnes - (PAGE_SIZE - 1)
VM_PAGE_ADDR(vaddr) == vaddr & VM_ADDR_PAGE_MASK
VM_CACHE_INDEX_VFN_MASK == VM_CACHE_LEN - 1
InvalidEntry == [tag |-> AllOnes, haddr_diff |-> AllOnes]

\* getbits(x, p, n): the n-bit field of x that begins at bit p
getbits(x, p, n) == (x \div 2^(p + 1 - n)) % 2^n

\* mutant: the field starts one bit higher, getbits(x, VFN_BITS - bits, ..)
LevelIndexOffByOne(mvfn, level) ==
    getbits(mvfn, VFN_BITS - (level - 1) * VM_PTAB_BITS, VM_PTAB_BITS)

\* the index the walk takes at a level, and the VFN bits left below it
LevelIndex(mvfn, level) ==
    getbits(mvfn, VFN_BITS - (1 + (level - 1) * VM_PTAB_BITS), VM_PTAB_BITS)
LevelMask(mvfn, level) ==
    getbits(mvfn, VFN_BITS - (1 + level * VM_PTAB_BITS), VFN_BITS - level * VM_PTAB_BITS)

\* a PTE's outaddr lives in the first byte of its slot
PteAt(m, p, i) == m[p][i * PTE_SIZE]
SetPte(m, p, i, v) == [m EXCEPT ![p][i * PTE_SIZE] = v]
Zeroed == [o \in Offsets |-> 0]
\* rmm_freepages puts the block on a free list: next and prev overwrite
\* the first two words of the page
Freed(m, p) == [m EXCEPT ![p][0] = LINK, ![p][PTE_SIZE] = LINK]
\* vm_ptab_create: a page, cleared only #ifdef VM_ZERO_PAGES
PtabCreate(m, p) == IF ZERO_PAGES THEN [m EXCEPT ![p] = Zeroed] ELSE m

FreeIn(own) == {p \in HostPages : own[p] = "free"}

----------------------------------------------------------------------------
(* vm_pagedir_lookup_pte.  A walk state is [mem, owner, fault]; the walk   *)
(* returns every outcome [s, pte] the PMM's choice of pages allows.        *)

\* mutant: the leaf takes a new backing page whatever the PTE holds
LeafStepAlwaysAlloc(s, ptab, index) ==
    IF FreeIn(s.owner) = {} THEN {[s |-> [s EXCEPT !.fault = "oom"], pte |-> 0]}
    ELSE {[s |-> [s EXCEPT !.mem = SetPte(@, ptab, index, p), !.owner[p] = "data"],
           pte |-> p] : p \in FreeIn(s.owner)}

\* the leaf level: a zero PTE gets a backing page, or the process panics
LeafStep(s, ptab, index) ==
    LET pte == PteAt(s.mem, ptab, index)
    IN  IF pte # 0 THEN {[s |-> s, pte |-> pte]}
        ELSE IF FreeIn(s.owner) = {}
        THEN {[s |-> [s EXCEPT !.fault = "oom"], pte |-> 0]}
        ELSE {[s |-> [s EXCEPT !.mem = SetPte(@, ptab, index, p),
                               !.owner[p] = "data"],
               pte |-> p] : p \in FreeIn(s.owner)}

\* mutant: the new table is not stored into ptab[index]
RECURSIVE LookupLevelNoLink(_, _, _, _)
LookupLevelNoLink(s, ptab, level, mvfn) ==
    LET index == LevelIndex(mvfn, level)
        pte == PteAt(s.mem, ptab, index)
        below == LevelMask(mvfn, level)
    IN  CASE level = VM_PTAB_LEVELS -> LeafStep(s, ptab, index)
          [] pte # 0 /\ pte \in HostPages -> LookupLevelNoLink(s, pte, level + 1, below)
          [] pte # 0 -> {[s |-> [s EXCEPT !.fault = "wild"], pte |-> 0]}
          [] FreeIn(s.owner) = {} -> {[s |-> [s EXCEPT !.fault = "oom"], pte |-> 0]}
          [] OTHER ->
               UNION {LookupLevelNoLink([s EXCEPT !.mem = PtabCreate(@, p), !.owner[p] = "table"],
                                        p, level + 1, below) : p \in FreeIn(s.owner)}

\* an interior level: descend through the PTE, or install a new table
RECURSIVE LookupLevel(_, _, _, _)
LookupLevel(s, ptab, level, mvfn) ==
    LET index == LevelIndex(mvfn, level)
        pte == PteAt(s.mem, ptab, index)
        below == LevelMask(mvfn, level)
    IN  CASE level = VM_PTAB_LEVELS -> LeafStep(s, ptab, index)
          [] pte # 0 /\ pte \in HostPages -> LookupLevel(s, pte, level + 1, below)
          \* outaddr << PAGE_SIZE_BITS is no host page: a wild read
          [] pte # 0 -> {[s |-> [s EXCEPT !.fault = "wild"], pte |-> 0]}
          [] FreeIn(s.owner) = {} -> {[s |-> [s EXCEPT !.fault = "oom"], pte |-> 0]}
          [] OTHER ->
               UNION {LookupLevel([s EXCEPT !.mem = SetPte(PtabCreate(@, p), ptab, index, p),
                                            !.owner[p] = "table"],
                                  p, level + 1, below) : p \in FreeIn(s.owner)}

vm_pagedir_lookup_pte(s, vfn) ==
    IF vfn = 0 THEN {[s |-> [s EXCEPT !.fault = "assert"], pte |-> 0]}
    ELSE LookupLevel(s, root, 1, vfn - 1)
----------------------------------------------------------------------------
(* The translation cache and the miss handler.                             *)

\* mutant: the tag comparison is dropped
vm_cache_lookup_no_valid(c, vaddr, alignment) ==
    (c[VM_VFN(vaddr) & VM_CACHE_INDEX_VFN_MASK].haddr_diff + vaddr) % WORD

\* vm_cache_lookup: the host address, or 0 on a miss; the expected tag
\* keeps the vaddr bits below the alignment, so a misaligned vaddr misses
vm_cache_lookup(c, vaddr, alignment) ==
    LET e == c[VM_VFN(vaddr) & VM_CACHE_INDEX_VFN_MASK]
        expected_tag == vaddr & (VM_ADDR_PAGE_MASK ^^ (alignment - 1))
    IN  ((e.haddr_diff + vaddr) % WORD) * (IF e.tag = expected_tag THEN 1 ELSE 0)

\* mutant: haddr_diff is kept as a signed difference
vm_cache_add_nowrap(c, vpaddr, hpaddr) ==
    [c |-> [c EXCEPT ![VM_VFN(vpaddr) & VM_CACHE_INDEX_VFN_MASK] =
                        [tag |-> vpaddr, haddr_diff |-> hpaddr - vpaddr]],
     haddr_diff |-> hpaddr - vpaddr,
     ok |-> vpaddr % PAGE_SIZE = 0 /\ hpaddr % PAGE_SIZE = 0]

\* vm_cache_add: [c, haddr_diff, ok]
vm_cache_add(c, vpaddr, hpaddr) ==
    LET diff == (hpaddr - vpaddr) % WORD
    IN  [c |-> [c EXCEPT ![VM_VFN(vpaddr) & VM_CACHE_INDEX_VFN_MASK] =
                            [tag |-> vpaddr, haddr_diff |-> diff]],
         haddr_diff |-> diff,
         ok |-> vpaddr % PAGE_SIZE = 0 /\ hpaddr % PAGE_SIZE = 0]

\* the end of _vm_cache_miss once the walk has answered r
CacheMissDone(r, c, vaddr) ==
    LET hpaddr == (r.pte * PAGE_SIZE) % WORD
        a == vm_cache_add(c, VM_PAGE_ADDR(vaddr), hpaddr)
    IN  CASE r.s.fault # "none" -> [s |-> r.s, c |-> c, haddr_diff |-> 0]
          [] hpaddr = 0         -> [s |-> r.s, c |-> c, haddr_diff |-> 0]
          [] ~a.ok              -> [s |-> [r.s EXCEPT !.fault = "assert"], c |-> c,
                                    haddr_diff |-> 0]
          [] OTHER              -> [s |-> r.s, c |-> a.c, haddr_diff |-> a.haddr_diff]

\* _vm_cache_miss: every outcome [s, c, haddr_diff]
vm_cache_miss(s, c, vaddr, alignment) ==
    CASE vaddr < VM_ADDR_MIN \/ vaddr > VM_ADDR_MAX ->
           {[s |-> [s EXCEPT !.fault = "range"], c |-> c, haddr_diff |-> 0]}
      [] vaddr % alignment # 0 ->
           {[s |-> [s EXCEPT !.fault = "align"], c |-> c, haddr_diff |-> 0]}
      [] OTHER ->
           {CacheMissDone(r, c, vaddr) : r \in vm_pagedir_lookup_pte(s, VM_VFN(vaddr))}

----------------------------------------------------------------------------
(* The operations.                                                         *)

W == [mem |-> mem, owner |-> owner, fault |-> fault]

\* a load or store of size bytes at host address haddr, once translated
AccessAt(t, op, size, vaddr, x, s, c, haddr, hit) ==
    LET page == haddr \div PAGE_SIZE
        bytes == {(haddr % PAGE_SIZE) + k : k \in 0 .. size - 1}
        ok == s.fault = "none" /\ page \in HostPages
    IN  /\ cache' = [cache EXCEPT ![t] = c]
        /\ owner' = s.owner
        /\ fault' = IF s.fault = "none" /\ page \notin HostPages THEN "wild" ELSE s.fault
        /\ mem' = IF ok /\ op = "store"
                  THEN [s.mem EXCEPT ![page] = [o \in Offsets |-> IF o \in bytes THEN x ELSE @[o]]]
                  ELSE s.mem
        /\ guest' = IF ok /\ op = "store"
                    THEN [v \in GuestAddrs |-> IF v \in vaddr .. vaddr + size - 1 THEN x ELSE guest[v]]
                    ELSE guest
        \* the access was misaligned, or the page is not a backing page
        \* of this directory
        /\ stray' = (stray \/ (ok /\ (vaddr % size # 0 \/ s.owner[page] # "data")))

\* VM_LOAD / VM_STORE (vm.h): the inlined lookup, on a miss _vm_cache_miss,
\* then the access at haddr_diff + vaddr
VmAccess(t, op, size, vaddr, x) ==
    LET h == vm_cache_lookup(cache[t], vaddr, size)
    IN  /\ phase = "live"
        /\ fault = "none"
        /\ IF h # 0
           THEN AccessAt(t, op, size, vaddr, x, W, cache[t], h, TRUE)
           ELSE \E m \in vm_cache_miss(W, cache[t], vaddr, size) :
                  AccessAt(t, op, size, vaddr, x, m.s, m.c,
                           (m.haddr_diff + vaddr) % WORD, FALSE)
        /\ UNCHANGED <<phase, pagedir, root>>

\* vm_pagedir_translate: the walk, for its effect on the tree
vm_pagedir_translate(vaddr) ==
    /\ phase = "live"
    /\ fault = "none"
    /\ \E r \in vm_pagedir_lookup_pte(W, VM_VFN(vaddr)) :
         /\ mem' = r.s.mem
         /\ owner' = r.s.owner
         /\ fault' = r.s.fault
    /\ UNCHANGED <<phase, pagedir, root, cache, guest, stray>>

\* mutant: the error of vm_pagedir_init is not checked, and the pagedir
\* is returned with no root table
vm_pagedir_create_ignore_err ==
    /\ phase = "none"
    /\ fault = "none"
    /\ \E pd \in FreeIn(owner) :
         LET o1 == [owner EXCEPT ![pd] = "pagedir"]
         IN  \/ \E r \in FreeIn(o1) :
                  /\ owner' = [o1 EXCEPT ![r] = "table"]
                  /\ mem' = PtabCreate(mem, r)
                  /\ pagedir' = pd
                  /\ root' = r
                  /\ phase' = "live"
             \/ /\ owner' = o1
                /\ pagedir' = pd
                /\ phase' = "live"
                /\ UNCHANGED <<mem, root>>
    /\ UNCHANGED <<cache, guest, stray, fault>>

\* vm_pagedir_create: a page for the vm_pagedir_t, then vm_pagedir_init
\* takes the root table; when that fails the first page is given back
vm_pagedir_create ==
    /\ phase = "none"
    /\ fault = "none"
    /\ \E pd \in FreeIn(owner) :
         LET o1 == [owner EXCEPT ![pd] = "pagedir"]
         IN  \/ \E r \in FreeIn(o1) :
                  /\ owner' = [o1 EXCEPT ![r] = "table"]
                  /\ mem' = PtabCreate(mem, r)
                  /\ pagedir' = pd
                  /\ root' = r
                  /\ phase' = "live"
             \* vm_pagedir_init fails -- RHMutexInit at any time, or
             \* vm_ptab_create when no page is left -- and the pagedir
             \* page is given back
             \/ /\ mem' = Freed(mem, pd)
                /\ UNCHANGED <<owner, pagedir, root, phase>>
    /\ UNCHANGED <<cache, guest, stray, fault>>

\* vm_pagedir_dispose: vm_ptab_free of the root table only
vm_pagedir_dispose ==
    /\ phase = "live"
    /\ fault = "none"
    /\ phase' = "disposed"
    /\ owner' = [owner EXCEPT ![root] = "free"]
    /\ mem' = Freed(mem, root)
    /\ UNCHANGED <<pagedir, root, cache, guest, stray, fault>>

\* vm_cache_invalidate: memset(cache, 0xff, ...)
vm_cache_invalidate(t) ==
    /\ fault = "none"
    /\ cache' = [cache EXCEPT ![t] = [i \in CacheIdx |-> InvalidEntry]]
    /\ UNCHANGED <<phase, pagedir, root, mem, owner, guest, stray, fault>>

\* vm_cache_invalidate_one (vm.h): the entry vaddr indexes
vm_cache_invalidate_one(t, vaddr) ==
    /\ fault = "none"
    /\ cache' = [cache EXCEPT ![t][VM_VFN(vaddr) & VM_CACHE_INDEX_VFN_MASK] = InvalidEntry]
    /\ UNCHANGED <<phase, pagedir, root, mem, owner, guest, stray, fault>>

\* another caller of the PMM takes a page, or gives one back
OtherAlloc ==
    /\ fault = "none"
    /\ Cardinality({p \in HostPages : owner[p] = "other"}) < OTHER_MAX
    /\ \E p \in FreeIn(owner) : owner' = [owner EXCEPT ![p] = "other"]
    /\ UNCHANGED <<phase, pagedir, root, mem, cache, guest, stray, fault>>

OtherFree ==
    /\ fault = "none"
    /\ \E p \in HostPages :
         /\ owner[p] = "other"
         /\ owner' = [owner EXCEPT ![p] = "free"]
         /\ mem' = Freed(mem, p)
    /\ UNCHANGED <<phase, pagedir, root, cache, guest, stray, fault>>

\* every host page starts as one the PMM has had on a free list: the
\* links in its first two words, zero bytes (the fresh mapping) elsewhere
Init ==
    /\ phase = "none"
    /\ pagedir = 0
    /\ root = 0
    /\ mem = [p \in HostPages |-> Freed([q \in HostPages |-> Zeroed], p)[p]]
    /\ owner = [p \in HostPages |-> "free"]
    /\ cache = [t \in Threads |-> [i \in CacheIdx |-> InvalidEntry]]
    /\ guest = [v \in GuestAddrs |-> NoVal]
    /\ stray = FALSE
    /\ fault = "none"

Next ==
    \/ vm_pagedir_create
    \/ \E t \in Threads, size \in Sizes, v \in VAddrs :
         \/ VmAccess(t, "load", size, v, 0)
         \/ \E x \in Values : VmAccess(t, "store", size, v, x)
    \/ \E v \in VAddrs : vm_pagedir_translate(v)
    \/ \E t \in Threads : vm_cache_invalidate(t)
    \/ \E t \in Threads, v \in VAddrs : vm_cache_invalidate_one(t, v)
    \/ vm_pagedir_dispose
    \/ OtherAlloc
    \/ OtherFree

Spec == Init /\ [][Next]_vars

----------------------------------------------------------------------------
(* Reading the page directory.                                             *)

\* the table pages the tree reaches at a level through nonzero PTEs
RECURSIVE TablesAt(_)
TablesAt(level) ==
    IF level = 1 THEN {root}
    ELSE {PteAt(mem, p, i) : p \in TablesAt(level - 1) \cap HostPages, i \in PtabIdx} \ {0}
Tables == UNION {TablesAt(l) : l \in 1 .. VM_PTAB_LEVELS}
Slots == {<<p, i>> : p \in Tables \cap HostPages, i \in PtabIdx}
Leaves == {PteAt(mem, p, i) : p \in TablesAt(VM_PTAB_LEVELS) \cap HostPages, i \in PtabIdx} \ {0}

\* the backing page the tree holds for vaddr, without allocating; 0 if none
RECURSIVE ResolveLevel(_, _, _)
ResolveLevel(ptab, level, mvfn) ==
    LET pte == PteAt(mem, ptab, LevelIndex(mvfn, level))
    IN  CASE level = VM_PTAB_LEVELS -> pte
          [] pte \in HostPages      -> ResolveLevel(pte, level + 1, LevelMask(mvfn, level))
          [] OTHER                  -> 0
Translation(vaddr) == (ResolveLevel(root, 1, VM_VFN(vaddr) - 1) * PAGE_SIZE) % WORD

----------------------------------------------------------------------------
(* Properties.                                                             *)

\* Types, and the page directory's shape over its life: vm_pagedir_create
\* hands out a pagedir only once vm_pagedir_init has given it a root
\* table, so a pagedir in use (or disposed) has its struct page and a root.
TypeOK ==
    /\ phase \in {"none", "live", "disposed"}
    /\ pagedir \in {0} \cup HostPages
    /\ root \in {0} \cup HostPages
    /\ owner \in [HostPages -> Owners]
    /\ mem \in [HostPages -> [Offsets -> 0 .. AllOnes]]
    /\ cache \in [Threads -> [CacheIdx -> [tag : 0 .. AllOnes, haddr_diff : 0 .. AllOnes]]]
    /\ guest \in [GuestAddrs -> Values \cup {NoVal}]
    /\ fault \in {"none", "oom", "range", "align", "assert", "wild"}
    \* a page directory in use has its struct page and its root table
    /\ phase = "none" => pagedir = 0 /\ root = 0
    /\ phase # "none" => owner[pagedir] = "pagedir" /\ root \in HostPages

\* The page directory is a tree (spec 3): every PTE the walk of
\* vm_pagedir_lookup_pte can reach names a host page; interior PTEs name
\* tables and leaf PTEs backing pages the directory installed; no page is
\* named by two PTEs (so two VFNs never share a backing page) nor is the
\* root; and every page the walk took from the PMM is reachable.
PageTree ==
    phase = "live" =>
        /\ Tables \cup Leaves \subseteq HostPages
        /\ \A p \in Tables : owner[p] = "table"
        /\ \A p \in Leaves : owner[p] = "data"
        /\ \A a, b \in Slots : a # b /\ PteAt(mem, a[1], a[2]) # 0
                                => PteAt(mem, a[1], a[2]) # PteAt(mem, b[1], b[2])
        /\ \A a \in Slots : PteAt(mem, a[1], a[2]) # root
        /\ {p \in HostPages : owner[p] \in {"table", "data"}} = Tables \cup Leaves

\* Cache correctness (spec 8): a valid entry of any thread's cache sits at
\* the index of its tag's VFN, and tag + haddr_diff is the host page that
\* vm_pagedir_translate gives for the tag, however the walks of other
\* threads and vm_pagedir_translate have changed the tree since the entry
\* was added by _vm_cache_miss.
CacheAgrees ==
    phase = "live" =>
        \A t \in Threads, i \in CacheIdx :
            LET e == cache[t][i]
            IN  e # InvalidEntry =>
                    /\ VM_VFN(e.tag) & VM_CACHE_INDEX_VFN_MASK = i
                    /\ Translation(e.tag) # 0
                    /\ (e.tag + e.haddr_diff) % WORD = Translation(e.tag)

\* Round trip (spec 8), as a state: for every guest address a VM_STORE
\* has written, the host byte the page directory translates it to holds
\* the byte last stored there, through whichever mix of cache hits,
\* misses and first-touch walks the threads took.  A VM_LOAD reads that
\* host byte.
MemoryAgrees ==
    phase = "live" =>
        \A v \in GuestAddrs :
            guest[v] # NoVal =>
                LET h == Translation(v) + (v % PAGE_SIZE)
                IN  /\ Translation(v) # 0
                    /\ h \div PAGE_SIZE \in HostPages
                    /\ mem[h \div PAGE_SIZE][h % PAGE_SIZE] = guest[v]

\* Every guest access that VM_LOAD / VM_STORE completed, by a cache hit or
\* after _vm_cache_miss, was aligned to its size and touched a backing
\* page of this page directory; none went to an address outside the host
\* pages.
AccessSound == fault # "wild" /\ ~stray

\* vm_pagedir_dispose gives every page table and backing page of the
\* directory back to the PMM (spec 5).
DisposeReleases ==
    phase = "disposed" => \A p \in HostPages : owner[p] \notin {"table", "data"}
====
