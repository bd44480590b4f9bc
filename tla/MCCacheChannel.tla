--------------------------- MODULE MCCacheChannel ---------------------------
(***************************************************************************)
(* Small instances of CacheChannel.                                        *)
(***************************************************************************)
EXTENDS CacheChannel

MCPaths == {"a", "b", "c"}
MCCached == {"a", "b"}
MCSize == [p \in MCPaths |-> IF p = "a" THEN 3 ELSE 1]

\* Requests for files of three packets and of one.
MCWants == <<"a", "b">>
=============================================================================
