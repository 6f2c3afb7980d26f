------------------------------- MODULE MCVmm --------------------------------
(***************************************************************************)
(* Model-checking instances of Vmm.  A 4-byte page and a 4-bit guest      *)
(* address space leave 2 VFN bits: two levels of 2-entry tables, so the   *)
(* root has two subtrees and each leaf table two backing pages.  The      *)
(* guest addresses cover two pages of one leaf table, a page of the other *)
(* one, a second offset in the first page (misaligned for 2-byte          *)
(* accesses) and an address past VM_ADDR_MAX.                             *)
(***************************************************************************)
EXTENDS Vmm

MCThreads == {"t1"}
MCVAddrs == {4, 5, 8, 12, 16}
=============================================================================
