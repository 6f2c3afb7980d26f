----------------------------- MODULE MCRmmCreate -----------------------------
(***************************************************************************)
(* Model-checking instances of RmmCreate.  Bases cover every residue of a *)
(* page and of _Alignof(rmm_t); sizes run from regions too small for the  *)
(* rmm_t up to ones that seed several MAX_ORDER blocks.                   *)
(***************************************************************************)
EXTENDS RmmCreate

MCBases == 16 .. 23
MCMemSizes == 1 .. 200
=============================================================================
