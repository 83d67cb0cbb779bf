---------------------------- MODULE MCGraphOtel ----------------------------
(* Instances of GraphOtel for TLC: two relationship entities; two links    *)
(* share one of them, so that an entity outlives one of its edges.         *)
EXTENDS GraphOtel, TLC

CONSTANTS c1, c2, endpoint, topic, calls, publishes

MCEmitter == {c1, c2}
MCRel == {endpoint, topic}
MCLabel == {calls, publishes}

Link1 == [emitter |-> c1, rel |-> endpoint, label |-> calls]
Link2 == [emitter |-> c2, rel |-> endpoint, label |-> calls]
Link3 == [emitter |-> c1, rel |-> topic, label |-> publishes]

TwoLinks == {Link1, Link2}
ApartLinks == {Link1, Link3}
=============================================================================
