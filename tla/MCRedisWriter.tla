--------------------------- MODULE MCRedisWriter ---------------------------
(* An instance of RedisWriter for TLC: a pod on a node, with metadata, and *)
(* the two edges between them.                                             *)
EXTENDS RedisWriter

CONSTANTS pod, node

MCId == {pod, node}
MCEdge == {[from |-> node, to |-> pod], [from |-> pod, to |-> node]}
=============================================================================
