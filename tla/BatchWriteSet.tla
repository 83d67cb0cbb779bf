--------------------------- MODULE BatchWriteSet ---------------------------
(***************************************************************************)
(* The in-memory accumulator of graph-otel (internal/graph/batchset.go and *)
(* Snapshot in batchset_redis.go), with the one shape of data the builder  *)
(* puts into it (internal/builder/builder.go, addRelationship).            *)
(*                                                                         *)
(* A link is one relationship carried by one span-metric record: the       *)
(* emitter (a container or pod that the Kubernetes watcher owns), the      *)
(* endpoint, topic or database it concerns, and a label for the kind and   *)
(* action that tell apart several edges between the same pair.             *)
(*                                                                         *)
(* A set maps every entity and edge it holds to the time it was last seen. *)
(* The builder never calls SetMetadata, so metas is always empty here.     *)
(***************************************************************************)
EXTENDS Integers

CONSTANTS Emitter,   \* ids of containers and pods
          Rel,       \* ids of endpoints, topics and databases
          Label,     \* kind and action of an edge
          Link       \* the relationships that may be observed

ASSUME LinkAssumption == Link \subseteq [emitter : Emitter, rel : Rel, label : Label]
ASSUME IdAssumption == Emitter \cap Rel = {}

Never == -1

Forward(l) == [from |-> l.emitter, to |-> l.rel, label |-> l.label]
Reverse(l) == [from |-> l.rel, to |-> l.emitter, label |-> l.label]
Edge == {Forward(l) : l \in Link} \cup {Reverse(l) : l \in Link}

(* The relationship entity an edge belongs to, whichever way it points.    *)
RelOf(e) == IF e.from \in Rel THEN e.from ELSE e.to

(* Sets of entities and edges without their times: request-local sets,     *)
(* whose times are all zero, and snapshots, whose times nobody reads.      *)
Contents == [entities : SUBSET Rel, edges : SUBSET Edge]
NoContents == [entities |-> {}, edges |-> {}]

NewBatchWriteSet == [entities |-> [r \in Rel |-> Never],
                     edges    |-> [e \in Edge |-> Never]]

(* The request-local set after one Derive per link: the relationship       *)
(* entity is upserted, the reverse edge hangs on it and the forward edge   *)
(* on the emitter, which is not upserted.                                  *)
DeriveAll(links) == [entities |-> {l.rel : l \in links},
                     edges |-> {Forward(l) : l \in links} \cup {Reverse(l) : l \in links}]

(* A planted error: an entry that is already known keeps its old time.     *)
MergeKeepsFirst(s, local, at) ==
  [entities |-> [r \in Rel |-> IF r \in local.entities /\ s.entities[r] = Never
                               THEN at ELSE s.entities[r]],
   edges    |-> [e \in Edge |-> IF e \in local.edges /\ s.edges[e] = Never
                                THEN at ELSE s.edges[e]]]

Merge(s, local, at) ==
  [entities |-> [r \in Rel |-> IF r \in local.entities THEN at ELSE s.entities[r]],
   edges    |-> [e \in Edge |-> IF e \in local.edges THEN at ELSE s.edges[e]]]

(* A planted error: an entry seen exactly TTL ago is dropped too.          *)
StaleAtCutoff(at, cutoff) == at <= cutoff

Stale(at, cutoff) == at < cutoff

Expire(s, cutoff) ==
  [entities |-> [r \in Rel |-> IF Stale(s.entities[r], cutoff) THEN Never ELSE s.entities[r]],
   edges    |-> [e \in Edge |-> IF Stale(s.edges[e], cutoff) THEN Never ELSE s.edges[e]]]

Snapshot(s) == [entities |-> {r \in Rel : s.entities[r] # Never},
                edges    |-> {e \in Edge : s.edges[e] # Never}]
=============================================================================
