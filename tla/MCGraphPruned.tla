--------------------------- MODULE MCGraphPruned ----------------------------
(* An instance of GraphPruned for TLC: one link.                           *)
EXTENDS GraphPruned

CONSTANTS container, endpoint, calls

MCEmitter == {container}
MCRel == {endpoint}
MCLabel == {calls}
MCLink == [emitter : MCEmitter, rel : MCRel, label : MCLabel]
=============================================================================
