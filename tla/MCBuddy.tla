------------------------------ MODULE MCBuddy ------------------------------
(***************************************************************************)
(* Model-checking instances of Buddy.                                      *)
(***************************************************************************)
EXTENDS Buddy

\* 7 pages, MAX_ORDER 2: seeds of 4, 2 and 1 pages, so every seed has an
\* imaginary end buddy and the tail seeds never merge.
MCReqPages == {0, 1, 2, 4, 8}
\* rmm_allocpages_min inputs that satisfy its unwritten precondition:
\* min_npages a power of two (or 0) no larger than the rounded request.
MCMinReq == {3}
MCMinMin == {0, 2}

\* rmm_allocpages_min with a min_npages that is not a power of two.
MCMinMinBad == {3}
=============================================================================
