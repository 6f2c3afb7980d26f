------------------------------- MODULE MCKmem -------------------------------
(***************************************************************************)
(* Model-checking instances of Kmem.  Byte sizes are scaled down from the  *)
(* 64-bit build (CHUNK_SIZE 64, slab sizes 8..64, 64 KiB slab blocks) but  *)
(* keep its shape: the largest slab size equals CHUNK_SIZE, a slab block   *)
(* is a whole number of chunks aligned to its size, and alignments go up   *)
(* to the block size.                                                      *)
(***************************************************************************)
EXTENDS Kmem

\* slab heap 0, slab heap 1 by size and by
\* alignment, two heap chunks aligned to a block (first fit), a best-fit run of three
MCRequests == {<<3, 1>>, <<8, 8>>, <<8, 16>>, <<16, 1>>, <<20, 32>>, <<40, 1>>}

\* a 1-chunk request aligned past the largest slab size
MCRequestsOverAligned == {<<8, 32>>}

\* only the largest slab size, so one slab heap fills two blocks
MCRequestsLargestSlab == {<<16, 1>>}
=============================================================================
