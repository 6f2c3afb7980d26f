---------------------------- MODULE MCKmemCreate ----------------------------
(* kmem_allocator_create on a 64-bit build: 4 KiB pages, 64-byte chunks,  *)
(* 64 KiB slab blocks.  min_initmem spans the page and HEAP_MAX_ALIGN      *)
(* boundaries and the 4 MiB of test_kmem; start_addr takes every page      *)
(* offset within a 64 KiB unit.                                            *)
EXTENDS KmemCreate

MCAllocatorSizes == {176, 184, 256}
MCSubheapSizes == {48, 56, 64}
MCInitMems == {0, 1, 64, 3840, 3905, 4096, 61440, 65280, 65536, 131072, 4194304}
MCStartPages == 0 .. 15
MCBlocks == 0 .. 2
====
