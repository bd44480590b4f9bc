---------------------------- MODULE MCCacheCrash ----------------------------
(***************************************************************************)
(* Small instances of CacheCrash.                                          *)
(***************************************************************************)
EXTENDS CacheCrash

MCPaths == {"a", "b", "c"}
MCCached == {"a", "b"}
MCSize == [p \in MCPaths |-> IF p = "a" THEN 3 ELSE 1]

\* Requests for files of three packets and of one.
MCWants == <<"a", "b">>

\* And for a file that the cache does not have.
MCWantsMiss == <<"a", "c">>
MCWantsReuse == <<"a", "b", "c">>
=============================================================================
