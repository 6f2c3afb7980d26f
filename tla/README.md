# TLA+ models of the rsm memory subsystem

This directory holds TLA+ models of the three memory layers of the runtime, checked with TLC:

- the physical page allocator in `src/src/mem_mm.c` (PMM);
- the virtual memory manager in `src/src/vm.c` (VMM);
- the kernel heap allocator in `src/unnamed/part_000` (KHA).

Every definition is translated from those sources. `PROJECT.json` maps each definition to the lines it models, and lists the runs, the mutants that show each property can fail, the findings and the hazards.

## The system

| Part | Source | State | Operations |
|---|---|---|---|
| PMM (buddy) | `mem_mm.c` `rmm_*` | per-order free lists and bitsets, `free_size` | `rmm_create` (seed), `rmm_allocpages`, `rmm_allocpages_min`, `rmm_freepages` |
| VMM page directory | `vm.c` `vm_pagedir_*` | a tree of page tables in PMM pages, lock | `vm_pagedir_init`, `vm_pagedir_lookup_pte` (walk, first-touch allocation), `vm_pagedir_translate`, `vm_pagedir_dispose` |
| VMM translation cache | `vm.c` `vm_cache_*` | direct-mapped `{tag, haddr_diff}` entries | `vm_cache_lookup`, `vm_cache_add`, `_vm_cache_miss`, `vm_cache_invalidate` |
| KHA sub-heap | `part_000` `heap_*` | chunk bitset `chunk_use`, `chunk_len` | `heap_init`, `heap_alloc` (first/best fit), `heap_free` |
| KHA slab heaps | `part_000` `slabheap_*` | per size class: `usable`/`full` block lists; per block: `next`, `recycle`, `len`, `cap` | `slabheap_grow`, `slabheap_alloc`, `slabheap_free`, `slabheap_avail` |
| KHA top level | `part_000` `kmem_*` | the allocator lock | `kmem_allocator_create` (with `kmem_add_subheap`), `kmem_alloc_aligned`, `kmem_free`, `kmem_alloc_size`, `kmem_avail`, `kmem_allocator_free` |

How the parts interact:

- The KHA takes its memory from the PMM once, at creation. Slab blocks are then carved out of the KHA's own sub-heap.
- The VMM takes one PMM page for every page table and every guest backing page. It holds the page-directory lock while it calls the PMM.
- Each layer serialises its operations with one mutex. So every operation is one atomic step of the model.
- There is one exception: `rmm_allocpages_min` releases the PMM lock between its attempts, so other threads' operations run in between.

## Modules

| Module | Models | Notes |
|---|---|---|
| `RsmMacros` | `MIN`, `ALIGN2`, `ALIGN2_FLOOR`, `ALIGN_CEIL`, `IS_ALIGN2`, `IS_POW2`, `FLOOR_POW2`, `CEIL_POW2`, `ILOG2` of rsmimpl.h | The arithmetic the macros perform. |
| `PageAlloc` | What the PMM promises | `rmm_allocpages(n)` returns a free, aligned run of n pages. It returns NULL only when none exists. |
| `Buddy` | The PMM | Each locked operation is one action. `rmm_allocpages_min` is one action per attempt, per thread. Refines `PageAlloc`. |
| `MCBuddy` | TLC instances of `Buddy` | |
| `Kmem` | The KHA | One sub-heap plus the slab heaps. `kmem_alloc_aligned` and `kmem_free` are one action each, including everything they call. |
| `MCKmem` | TLC instances of `Kmem` | |
| `RmmCreate` | `rmm_create`'s carving of its region | The `rmm_t` at the top, the bitsets below it, a spare page, and the usable range. One call is one step. The seeding comes from `Buddy`'s `Seed` through `B(npages) == INSTANCE Buddy WITH ...`. |
| `MCRmmCreate` | TLC instances of `RmmCreate` | |
| `RmmSelfTest` | `init_mm` and its self test `test_rmm` | Composes `RmmCreate` (the carving of the test's region) with `Buddy`'s `rmm_allocpages1` and `rmm_freepages1`, at the build's own constants. One PMM call is one step. |
| `MCRmmSelfTest` | TLC instance of `RmmSelfTest` | |
| `KmemCreate` | `kmem_allocator_create` and `kmem_allocator_free` at the real constants | The page run from the PMM, the `rmemalloc_t` at its top, `kmem_add_subheap`'s two placements and `heap_init`'s search. One call is one step. |
| `MCKmemCreate` | TLC instances of `KmemCreate` | |
| `Vmm` | The VMM | The page-directory walk, the per-thread translation caches, `VM_LOAD`/`VM_STORE`, and the PMM as a pool of host pages that other callers share. |
| `MCVmm` | TLC instances of `Vmm` | |

### Buddy (PMM)

**State**

| Model | Code |
|---|---|
| `bits[k]` | the set bits of `mm->bitsets[k]` |
| `freelists[k]` | the blocks on `mm->freelists[k]`, as page numbers relative to `start_addr` |
| `free_size` | `mm->free_size`, counted in pages |
| `corrupt` | records a failed assert, or an `ilist_del` of a block that is not on its list |
| `held` | ghost: the blocks callers hold |
| `result` | ghost: the last reply |
| `amin` | ghost: each thread's position in the `rmm_allocpages_min` loop |

**Operations**

- `rmm_allocpages1` and `rmm_freepages1` are recursive operators. Each returns every possible outcome, together with the new state.
- The free lists are rings whose pop end is defined in `list.h`, which is not among the sources. A free list is therefore a set, and a pop may take any member.
- `Seed` replays `rmm_create`'s seeding loop. It includes the "end buddy" bit set past each seed block.
- `rmm_cap`, `rmm_avail_total` and `rmm_avail_maxregion` are the read-only queries, as operators over the state.
- `rmm_freepages_stray(a)` is `rmm_freepages` of a page that starts no held block: a second free, or a pointer into a block. It is not in `Next`. `StraySpec` is `Init /\ [][Next \/ rmm_freepages_stray]_vars`, the PMM under callers that break the free contract.
- `rmm_create`'s carving of the control structure and the bitsets is abstracted to `NPAGES`, the number of usable pages it leaves.

### Kmem (KHA)

**State**

| Model | Code |
|---|---|
| `chunk_use`, `chunk_len` | the sub-heap's bitset and counter |
| `usable[i]`, `full[i]` | the list heads of each slab heap |
| `blk[b]` | the header of the slab block at byte address `b`: `next`, the recycle list as a sequence of chunk addresses, `len`, `cap` |
| `owner[b]` | ghost: the slab heap that grew block `b` |
| `regions` | ghost: the bag of regions callers hold |
| `ret` | ghost: the last region returned |
| `fault` | `"none"`, `"oom"` (the `kmem_expand` panic), `"assert"` or `"ub"` |

A `fault` of `"ub"` means `slabheap_free` masked a pointer to an address that is not a block of that slab heap. It then reads a header out of other memory.

**Operations**

- `heap_alloc`, `heap_free`, `slabheap_grow`, `slabheap_alloc` and `slabheap_free` are operators on a state record. `kmem_alloc_aligned` and `kmem_free` compose them exactly as the code calls them.
- The bump pointer is `ALIGN2(block + sizeof(slabblock_t), size) + len * size`, with the header size as the constant `SLABBLOCK_HDR`.
- `bitset_find_first_fit` and `bitset_find_best_fit` live in `bits.h`, which is not among the sources. They are modelled from spec 4.3: the first run, or the smallest run (ties by lowest index), of n clear bits at a multiple of the chunk alignment.
- `kmem_avail` and `kmem_alloc_size` are read-only, so they are operators, not actions.

### Vmm (VMM)

**State**

| Model | Code |
|---|---|
| `mem[p][o]` | byte `o` of host page `p`; a PTE is the word at `i * sizeof(vm_pte_t)` |
| `root`, `pagedir` | `pagedir->root` and the page that holds the `vm_pagedir_t` |
| `cache[t]` | thread `t`'s `vm_cache_t`: `{tag, haddr_diff}` per entry, word-wide |
| `owner[p]` | ghost: who holds host page `p`: free, another PMM caller, the directory struct, a table, or a backing page |
| `guest[v]` | ghost: the byte last stored at guest address `v` |
| `stray` | ghost: an access completed misaligned, or outside the directory's backing pages |
| `fault` | the panic or assert that ended the process. `"wild"` means a dereference of an address that is no host page. |

**Operations**

- `LookupLevel` is a recursive operator for the loop of `vm_pagedir_lookup_pte`. It returns every outcome that the PMM's choice of page allows. The walk runs under `pagedir->lock`, so it is one step.
- `vm_pagedir_create` may fail after taking the directory's page: `vm_pagedir_init` fails when `RHMutexInit` fails or `vm_ptab_create` finds no page for the root, and the directory page is then given back to the PMM.
- `vm_ptab_create` clears the page only when the constant `ZERO_PAGES` (`VM_ZERO_PAGES`) holds.
- A page that comes from the PMM has been on a free list. `rmm_freepages1`'s `ilist_append` leaves link words in its first two PTE slots, and `Freed` writes them.
- `VmAccess` is `VM_LOAD`/`VM_STORE`: the inlined cache lookup, then `_vm_cache_miss` on a miss, then the access at `haddr_diff + vaddr`. `vm.h` is not among the sources, so this is modelled from spec 4.2 and marked `spec_modelled`.
- `OtherAlloc` and `OtherFree` are the PMM's other callers taking and returning pages.
- Address arithmetic is modulo `2^WORD_BITS`, as the code's `u64`/`uintptr` arithmetic is modulo `2^64`.

### KmemCreate (KHA creation)

`Kmem` starts from a sub-heap whose base and size are constants. `KmemCreate` checks how `kmem_allocator_create` arrives at them, with 4 KiB pages and 64-byte chunks.

| Variable | Code |
|---|---|
| `req` | `min_initmem`, and the sizes of `rmemalloc_t` and `subheap_t` |
| `run` | the pages `rmm_allocpages(mm, npages)` returned (`a->mem_origin`) and their length |
| `a` | the `rmemalloc_t`, at `p + nbyte - allocator_size` |
| `sub` | the sub-heap `kmem_add_subheap` added: where its `subheap_t` lies, `chunks`, the size given to `heap_init` and the `chunk_cap` it chose; `NoSubheap` when it returned false |
| `leaked` | pages taken from the PMM that no allocator owns |

- `NPages` is `CEIL_POW2` of the page count of `allocator_size + ALIGN_CEIL(min_initmem, CHUNK_SIZE)`.
- `PmmRuns` is where the buddy allocator can put a block of `npages` pages: at a multiple of `npages` pages from `start_addr`. `start_addr` is only page-aligned, so its page offset within 64 KiB ranges over all 16 values.
- `kmem_allocator_create` has three outcomes:
  - `rmm_allocpages` returns NULL;
  - `RHMutexInit` fails, and the call returns NULL, keeping the pages;
  - the call returns the allocator, whether or not `kmem_add_subheap` succeeded.
- `AlignedPlacement` and `UnalignedPlacement` are the two branches of `kmem_add_subheap`. `SubheapInit` is its `HEAP_MIN_SIZE` test followed by `heap_init`. `HeapInitSearch` is `heap_init`'s exponential search.
- `kmem_allocator_free` gives back `mem_origin` only.

### RmmSelfTest (PMM self test)

`init_mm` reads `mem_pagesize()` and asserts that it is a multiple or a divisor of `PAGE_SIZE`. In debug builds it then runs `test_rmm`. The test maps 10 MiB, carves it with `rmm_create`, and makes a fixed sequence of PMM calls:

- `rmm_allocpages(mm, 0)`, which must return NULL;
- twice, a 4-page allocation and its free;
- sixteen 4-page allocations into `ptrs`, then one page into `p2`;
- the frees of `ptrs` in "tip-tap" order (0, 15, 2, 13, ...), then of `p2`.

In the model:

- `R == INSTANCE RmmCreate` supplies `rmm_create` itself. Its variables (`bits`, `freelists`, `free_size` in bytes, ...) are this module's. `TestCreate` is that call, followed by `assertnotnull`.
- `Bd == INSTANCE Buddy` supplies `rmm_allocpages1` and `rmm_freepages1`. `TestAlloc` and `TestFree` are `rmm_allocpages` and `rmm_freepages` around them, counting `free_size` in bytes, as the code does.
- `Calls` is the test's call sequence, and `pc` is the position in it. `ptrs` holds the sixteen slots plus `p` and `p2`.
- `stage` becomes `"abort"` when an assert of the test fails. `corrupt` records an assert inside the buddy allocator.
- `osvmem_alloc` is taken to succeed with a host-page-aligned address. It is in the os layer, which is not among the sources.

## Runs

| Run | cfg | Expect | What it shows |
|---|---|---|---|
| `buddy_core` | `Buddy.cfg` | pass | With 7 pages and `MAX_ORDER` 2 (see the bounds section), every interleaving of alloc, free and one thread's `rmm_allocpages_min` keeps the PMM sound. The invariants are `TypeOK`, `NoCorruption`, `BlocksTile`, `FreeSizeExact`, `OrderDeducible`, `BuddyBalance` and `AvailQueries` (largest free block ≤ `rmm_avail_maxregion` ≤ `rmm_avail_total` ≤ `rmm_cap`). `AllocMinReturns` checks that `rmm_allocpages_min` returns. `AbstractSpec` checks that the PMM implements `PageAlloc`. |
| `buddy_maxorder_merge` | `BuddyMaxMerge.cfg` | violation | Freeing one of two free `MAX_ORDER` buddies recurses to `MAX_ORDER+1`, which returns -1. The merged block ends up on no free list, but `free_size` still counts it. Violates `FreeSizeExact`. |
| `buddy_stray_free` | `BuddyStrayFree.cfg` | violation | Freeing page 4 of a fresh 7-page PMM (free, never allocated) climbs to the end-buddy sentinel of the 4-page seed block and frees it, with no assert. Both blocks leave the free lists and `free_size` becomes 11. Spec 7 says such a free aborts. Violates `BlocksTile`. |
| `rmm_create_layout` | `RmmCreate.cfg` | pass | Covers every base in a page and every size up to 200 bytes. The usable pages, the bitsets and the `rmm_t` never overlap (`LayoutDisjoint`). Each bitset holds every bit index the buddy allocator can touch over the usable pages (`BitsetsCover`). |
| `kmem_core` | `Kmem.cfg` | pass | A sub-heap of 3 chunks, two slab heaps, and six requests: two slab sizes, a slab request routed by alignment, a first-fit and a best-fit heap run. No 1-chunk heap request is issued, because the only one (an alignment above the largest slab size) is the misroute of `kmem_free_misroute`. See the list below. |
| `kmem_free_misroute` | `KmemMisroute.cfg` | violation | A 1-chunk sub-heap region, allocated with an alignment above the largest slab size, is freed through `slabheap_free`. Violates `NoFault`. |
| `kmem_full_list_unlink` | `KmemFullList.cfg` | violation | With two full blocks, freeing a chunk of the older one loses the newer one: `sh->full = block->next`. Violates `SlabListsWellFormed`. |
| `kmem_slab_overflow` | `KmemSlabOverflow.cfg` | violation | With the header in front of the chunks, the last bumped chunk lies past the block, in memory the sub-heap gives to another caller. Violates `RegionsDisjoint`. |
| `vmm_core` | `Vmm.cfg` | pass | With zeroed tables, loads, stores, translates, invalidations and other PMM callers in any order keep the directory sound. See the list below. |
| `vmm_unzeroed_ptab` | `VmmUnzeroed.cfg` | violation | Without `VM_ZERO_PAGES`, the new root table holds free-list links. The first access descends through one. Violates `AccessSound`. |
| `kmem_create_layout` | `KmemCreate.cfg` | pass | `kmem_allocator_create` keeps the chunks, the chunk bitset, the `subheap_t` and the `rmemalloc_t` apart and inside its pages, with the chunks 64 KiB-aligned (`LayoutDisjoint`). The bitset of `ceil(chunk_cap/8)` bytes fits the sub-heap, although `heap_init`'s search counts `chunk_cap/8` rounded down (`HeapBitsetFits`). `TypeOK` also checks that the run holds the allocator and `min_initmem`. This covers every page offset of `start_addr`, and the `min_initmem` values listed in the bounds section, from 0 to 4 MiB. They give runs of 1, 2, 16, 32, 64 and 2048 pages. Runs of 128 to 1024 pages are not checked. |
| `rmm_selftest` | `RmmSelfTest.cfg` | pass | `init_mm` and `test_rmm` at 4 KiB pages, `MAX_ORDER` 20 and the test's 10 MiB, which `rmm_create` turns into 2558 usable pages. On 4, 16 and 64 KiB hosts, every assert of the test and of the buddy allocator holds (`TestPasses`). After the tip-tap frees, `free_size` is the whole range again and the free lists are the seeded ones (`TestRestores`). |

Five more divergences are stated as properties but have no run, because `check.sh` allows at most 12 runs.

- **`MmInRegion`** (`RmmCreate`). `ALIGN2_FLOOR` is `(x+1) & ~(a-1)`. When `memp + memsize` is 3 mod the `rmm_t` alignment, it rounds the `rmm_t`'s address up, and the struct ends one byte past the region. Checking `MmInRegion` alone with the `RmmCreate.cfg` constants shows the violation. Callers in the sources pass page-multiple sizes, so it is latent; its run gave way to `rmm_selftest`.

- **`AllocMinReturns` for a `min_npages` that is not a power of two** (`Buddy`). `rmm_allocpages_min` stops only when `npages == min_npages`. A minimum that is not a power of two is never met, `npages` halves to 0 and the loop never ends. Checking `AllocMinReturns` alone, with `Buddy.cfg` changed to `MinMin <- MCMinMinBad`, shows the violation.
- **`DisposeReleases`** (`Vmm`). `vm_pagedir_dispose` frees only the root, and interior tables and backing pages stay allocated. The code marks this `TODO: free all PTEs`. Checking it alone with the `Vmm.cfg` constants shows the violation.

The other two are in read-only queries of the KHA and are stated in `Kmem`. Checking `AvailExact` with the constants of `KmemFullList.cfg`, or `AllocSizeAgrees` with those of `Kmem.cfg`, each alone, shows the violation.

- **`AvailExact`.** `slabheap_avail` counts `len`, the chunks already handed out, as available.
- **`AllocSizeAgrees`.** `kmem_alloc_size(3)` is 4, but the request reserves `SLABHEAP_MIN_SIZE` bytes.

`kmem_core` checks these properties:

- `RegionsDisjoint`: no byte is handed out twice.
- `HeapAccounting`: the bitset equals the chunks of held heap regions plus the slab blocks.
- `SlabChunksAccounted`: every bumped chunk is either held or recycled, exactly once.
- `SlabListsWellFormed`: every block is on exactly one list, and that list matches its fill.
- `RegionAligned`: regions are aligned and big enough.
- `NoFault`: no assert fails and no header is read from non-block memory.

`KmemCreate` also reaches two outcomes that no property claims against:

- **No sub-heap.** One page that is not 64 KiB-aligned is too small for `kmem_add_subheap`'s alignment. This is the `min_initmem` 0 case of `test_kmem` whenever `start_addr` is not 64 KiB-aligned. The allocator comes back without a sub-heap, so its first `kmem_alloc` reaches `kmem_expand`'s panic. `test_kmem` calls this call a success, while spec 2 says sub-heaps are allocated at creation.
- **Leaked pages.** After an `RHMutexInit` failure the pages stay taken (`leaked`).

`vmm_core` checks these properties:

- `TypeOK`: the types, and the directory's life. A pagedir in use or disposed has its struct page and a root table. `vm_pagedir_create` gives the page back when `vm_pagedir_init` fails, and its mutant that keeps the pagedir anyway breaks this.
- `PageTree`: the tables reachable from the root form a tree of host pages the directory owns. No page is named twice, and every page the walk took is reachable.
- `CacheAgrees`: every valid cache entry sits at its tag's index, and `tag + haddr_diff` is the host page the directory translates the tag to.
- `MemoryAgrees`: every guest byte stored is found at its translation (store-then-load round-trip).
- `AccessSound`: no completed access was misaligned, or outside the directory's backing pages, or wild.

Every property of a passing run has a mutant in `PROJECT.json`. The mutant is a plausible bug in one mapped definition, under which TLC finds the property violated.

## Bounds and why they are enough

**Buddy: 7 pages, `MAX_ORDER` 2.**

- The seed is three blocks of 4, 2 and 1 pages. Each has an end-buddy sentinel, and two of them cannot merge with anything.
- Allocation requests of 0, 1, 2, 4 and 8 pages cover four things:
  - the zero early return;
  - splitting two levels deep;
  - merging back to the seed;
  - the `order > MAX_ORDER` failure.
- One thread runs `rmm_allocpages_min(3, min)` with `min` 0 or 2. It interleaves with allocations and frees at every attempt.
- The merge-loss bug needs two `MAX_ORDER` blocks. That run uses 5 pages with `MAX_ORDER` 1.

**Kmem: scaled byte sizes.**

| Constant | 64-bit build | Model |
|---|---|---|
| `CHUNK_SIZE` | 64 | 16 |
| slab sizes | 8, 16, 32, 64 | 8, 16 |
| slab block | 64 KiB | 32 bytes |

The scaling keeps the relations the bugs depend on:

- the largest slab size equals `CHUNK_SIZE`;
- a block is a whole number of chunks and is aligned to its own size;
- alignments go up to the block size;
- `BEST_FIT_THRESHOLD` is 3 in `Kmem.cfg`. The 2-chunk request searches first fit and the 3-chunk request best fit. In the build, the threshold is 128 chunks, so first fit serves almost every heap request. The violation runs keep 2, where the search path does not matter.

In the passing run:

- the sub-heap has 3 chunks, room for one slab block. Every aligned heap run therefore lands at chunk 0, so the run does not test the search over later aligned indices (hazard `part_000:209`). A larger sub-heap lets one size class grow a second block, and then the full-list bug of `kmem_full_list_unlink` fires first;
- `SLABBLOCK_HDR` is 0, the layout the code intends, with all chunks inside the block.

The two bugs that need more room, or the real header, have their own runs with 4 chunks or an 8-byte header.

**RmmCreate: 8-byte pages, `MAX_ORDER` 2, a 12-byte `rmm_t` aligned to 4.**

- The bases 16 to 23 cover every residue modulo the page size and modulo the alignment.
- The sizes 1 to 200 cover three kinds of region:
  - regions too small for the `rmm_t`;
  - regions too small for a page after the bitsets (both out-of-memory paths);
  - regions that seed several `MAX_ORDER` blocks.
- The largest regions have more than 16 pages. So `bset_nbytes` exceeds the two spare bytes, and the bitset sizing is exercised, not covered by slack.

**RmmSelfTest: the build's constants.**

- `PAGE_SIZE` is 4096, `MAX_ORDER` 20, and the region is the test's 10 MiB. `sizeof(rmm_t)` is 544 bytes, the figure `mem_mm.c` gives for `MAX_ORDER` 20. The seeds are blocks of 2048, 256, 128, 64, 32, 16, 8, 4 and 2 pages, so the test's allocations split several orders and its frees merge them back.
- The host page sizes are 4, 16 and 64 KiB. Each passes `init_mm`'s check, and each is one branch of the run.
- The test is deterministic once the host is fixed, so the run has 43 states per host.

**Vmm: scaled addresses.**

| Constant | Model | Why |
|---|---|---|
| page | 4 bytes | leaves two PTEs per table page |
| guest address | 4 bits | two VFN bits, so two levels with two entries each |
| word | 8 bits | `haddr_diff` wraps when a host page lies below a guest page (`HOST_BASE` 1) |
| host pages | 5 | room for the directory struct, the root, one interior table and two backing pages |
| threads | 1 | see below |

- With 4 host pages there is room for only one backing page. Then `CacheAgrees` and `MemoryAgrees` never see two translations.
- The guest addresses cover 4, 5, 8, 12 and 16. That is two pages under one leaf table, one under the other, a second offset in a page (misaligned for 2-byte accesses), and an address past `VM_ADDR_MAX`.
- One thread keeps the run under the time limit. The caches are private to their thread. The only shared state is the tree, which `vm_pagedir_translate` changes in the same way another thread's walks would. So a second thread's cache adds no interleaving that one thread's cache, together with translate, does not already show.

**KmemCreate: the real constants.**

- Pages are 4 KiB, chunks 64 bytes, and `HEAP_MAX_ALIGN` is 64 KiB.
- `start_addr` takes all 16 page offsets within 64 KiB. There are 3 block positions.
- `min_initmem` takes these values:
  - 0 and 1;
  - values just below and above one page;
  - values just below 64 KiB, and 64 KiB itself;
  - 128 KiB;
  - the 4 MiB of `test_kmem`.
- So runs of 1, 2, 16, 32 and 2048 pages occur, aligned and unaligned.
- The struct sizes range over 176 to 256 and 48 to 64 bytes. The exact sizes depend on the platform's `pthread_mutex_t` and on `bitset_t` (`bits.h` is not among the sources).
- `heap_init`'s rounding hazard: 1,344 sizes below 200 kB leave the last bitset byte outside the run. `HeapBitsetFits` shows that none of the sizes creation passes is one of them, at these struct sizes.

## Fairness

`Buddy` assumes weak fairness of each thread's `rmm_allocpages_min` attempt. The thread is inside a loop that only ever blocks on `mm->lock`, and a mutex is eventually granted. No other action is assumed to happen. `Kmem` and `Vmm` have no liveness property and no fairness.

## Deadlock

`Kmem.cfg` sets `CHECK_DEADLOCK FALSE`. The reason is that `kmem_expand` panics ("TODO expand memory"), so an allocation the sub-heap cannot serve ends the process. Those states have no successor on purpose. Every state without a fault has enabled allocation actions. `RmmCreate.cfg` sets it because the module models a single call. `KmemCreate.cfg` sets it because the module models one creation and one free. `RmmSelfTest.cfg` sets it because `test_rmm` returns. `Vmm.cfg` sets it because the walk's out-of-memory, range and misalignment paths `panic`.

## Not modelled

- **Logging, tracing and debug dumps.** This covers `fmt`, `dlog_freelist` and `heap_debug_dump_state`. They change no state.
- **The composition of KHA creation with use.** `Kmem` takes the sub-heap base and size as constants, and `KmemCreate` checks how creation arrives at them. The two scales are too far apart (64-byte chunks against a 3-chunk heap) for one run to hold both. For the PMM, `RmmSelfTest` composes `rmm_create` with the buddy allocator at the real scale, along `test_rmm`'s call sequence.
- **`kmem_cap`.** It is a read-only sum of `chunk_cap * CHUNK_SIZE` over the sub-heaps, and no property reads it.
- **Scrub bytes.** They are data written into memory that no property reads.
- **More than one sub-heap.** `kmem_expand` panics, so a second one never exists.
- **`test_vm` and `init_vmem`.** `test_vm` checks its cache arithmetic on 64-bit constants (`0xdeadbee4`, `0x1065f0000`) and stores at `0xdeadbee4`. TLC's integers stop at `2^31`, so these cannot be evaluated. `Vmm` checks the same wrapping `haddr_diff` arithmetic at an 8-bit word (`CacheAgrees`, `MemoryAgrees`).
- **The PMM's internal structure under the VMM.** `Vmm` takes any free page, which is what `PageAlloc` promises. `Buddy` checks the rest.
- **Instruction encoding and `main` (`part_001`), and the OS wrappers in `part_000`.** They are outside the memory subsystem.
- **`rmm_create_host_vmmap` and `rmm_dispose_host_vmmap`.** They map and unmap host memory around `rmm_create`. `rmm_dispose_host_vmmap` has no caller, and leaves the metadata above `end_addr` mapped (a hazard in `PROJECT.json`). `rmm_dispose` is empty, and is part of `RmmSelfTest`'s last step.

## Plan and status

1. Done: `Buddy`, plus its refinement to `PageAlloc`.
2. Done: `Kmem`, covering the sub-heap, the slab heaps and the top level.
3. Done: `Vmm`, covering the page-directory walk, the translation caches and guest access. It has two findings: unzeroed page tables (a run), and the dispose leak (stated as `DisposeReleases`, without a run).
4. Done: `RmmCreate`. It shows (as `MmInRegion`, now without a run) that `ALIGN2_FLOOR` rounds up when `x mod a = a-1`, which places the `rmm_t` past its region.
5. Done: `KmemCreate`, covering `kmem_add_subheap`'s placement and `heap_init`'s bitset sizing at the real `CHUNK_SIZE`. At `part_000:389`, `ALIGN2_FLOOR` is applied to `end - sizeof(subheap_t)`. Both are multiples of the alignment, so it does not round up there.
6. Done: `RmmSelfTest`, covering `init_mm` and `test_rmm` at the build's scale.
7. Next: A check of `FLOOR_POW2`/`CEIL_POW2`/`ILOG2` against reference definitions at full word width, including `CEIL_POW2` above `2^63`. Two threads in `Vmm` if a faster encoding allows it.
