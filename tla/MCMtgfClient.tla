---------------------------- MODULE MCMtgfClient ----------------------------
(***************************************************************************)
(* An instance of MtgfClient: a workload with a repeated and a single path.*)
(***************************************************************************)
EXTENDS MtgfClient

MCWorkload == <<"p", "q", "p">>
=============================================================================
