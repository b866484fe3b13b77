---------------------------- MODULE MCGraphStore ----------------------------
(***************************************************************************)
(* A small instance of GraphStore: task a, b that depends on it, and c     *)
(* that cleans up after it; a graph holds two of them at most.             *)
(***************************************************************************)
EXTENDS GraphStore

CONSTANTS a, b, c

UpstreamFirst == <<a, b, c>>
AfterA == {<<b, a>>, <<c, a>>}
=============================================================================
