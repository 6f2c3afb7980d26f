---------------------------- MODULE MCRmmSelfTest ----------------------------
(***************************************************************************)
(* Model-checking instance of RmmSelfTest: the host page sizes of x86-64   *)
(* (4 KiB), Apple silicon (16 KiB) and 64 KiB arm64 kernels.               *)
(***************************************************************************)
EXTENDS RmmSelfTest

MCHostPageSizes == {4096, 16384, 65536}
=============================================================================
