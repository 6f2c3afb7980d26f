----------------------------- MODULE PageAlloc -----------------------------
(***************************************************************************)
(* What the physical memory manager promises its callers (spec 4.1, 6):   *)
(* rmm_allocpages(n), n a power of two up to 2^MAX_ORDER, returns n free   *)
(* pages of [0, NPAGES) aligned to n pages, and returns NULL only when no  *)
(* such run of free pages exists; rmm_freepages gives a run back.  There   *)
(* is no bitset, free list or buddy here: the run is any aligned free one. *)
(***************************************************************************)
EXTENDS Integers

CONSTANTS NPAGES, MAX_ORDER

VARIABLES held, result

NoAddr == -1

Pages(b) == b[1] .. (b[1] + 2^b[2] - 1)
InUse == UNION { Pages(b) : b \in held }

\* the aligned runs of 2^k pages that lie in range and are all free
FreeRuns(k) == { <<a, k>> : a \in { a \in 0..NPAGES - 1 :
                    /\ a % 2^k = 0
                    /\ a + 2^k <= NPAGES
                    /\ Pages(<<a, k>>) \cap InUse = {} } }

Init == held = {} /\ result = [n |-> 0, addr |-> NoAddr]

Alloc(k) ==
    /\ k <= MAX_ORDER
    /\ \E b \in FreeRuns(k) :
         /\ held' = held \cup {b}
         /\ result' = [n |-> 2^k, addr |-> b[1]]

\* NULL is a legal answer for 0 pages, for more than 2^MAX_ORDER pages, and
\* when no aligned run of n free pages is left.
Fail(n) ==
    /\ n = 0 \/ \A k \in 0..MAX_ORDER : 2^k = n => FreeRuns(k) = {}
    /\ result' = [n |-> n, addr |-> NoAddr]
    /\ UNCHANGED held

Free(b) ==
    /\ b \in held
    /\ held' = held \ {b}
    /\ UNCHANGED result

Next ==
    \/ \E k \in 0..MAX_ORDER : Alloc(k)
    \/ \E n \in {0} \cup {2^k : k \in 0..NPAGES} : Fail(n)
    \/ \E b \in held : Free(b)

Spec == Init /\ [][Next]_<<held, result>>
=============================================================================
