---------------------------- MODULE MCMtgfServer ----------------------------
(***************************************************************************)
(* Instances of MtgfServer: a file of two reads, an empty file, a missing  *)
(* key.                                                                    *)
(***************************************************************************)
EXTENDS MtgfServer

MCSize == [j \in Jobs |-> CASE j = "j1" -> 3 [] j = "j2" -> Absent [] j = "j3" -> 0]
=============================================================================
