----------------------------- MODULE RedisStore -----------------------------
(***************************************************************************)
(* The graph in Redis, as the writers of internal/graph leave it and its   *)
(* reader finds it.  The schema is internal/graph/keys.go:                 *)
(*                                                                         *)
(*   <prefix>:entity:<id>           HASH   core[id], the last_seen_at_ms   *)
(*   <prefix>:entity:<id>:metadata  HASH   meta[id]                        *)
(*   <prefix>:entity:<id>:edges     SET    the edges whose from is id      *)
(*   <prefix>:by_kind:<kind>        SET    byKind                          *)
(*   <prefix>:ids                   SET    ids                             *)
(*                                                                         *)
(* The kind of an entity is the prefix of its id, so one set byKind holds  *)
(* the ids listed under their own kind.  The other fields of the core hash *)
(* (id, kind, name) are written together with last_seen_at_ms and never    *)
(* alone: core[id] = Absent stands for the missing key.                    *)
(*                                                                         *)
(* Redis executes one command at a time.  A pipeline is not a transaction: *)
(* other clients' commands may run between two commands of it, and it may  *)
(* stop half way.  So the unit here is the command.                        *)
(***************************************************************************)
EXTENDS Integers, Sequences

CONSTANTS Id,       \* entity ids
          Field,    \* metadata field names
          Value,    \* metadata field values
          NoValue   \* the field is not in the hash

Absent == -1

NoMeta == [f \in Field |-> NoValue]

EmptyStore == [core   |-> [i \in Id |-> Absent],
               meta   |-> [i \in Id |-> NoMeta],
               edges  |-> {},
               ids    |-> {},
               byKind |-> {}]

-----------------------------------------------------------------------------
(* The commands the writers issue.                                         *)

HSet(i, at)     == [op |-> "HSET", id |-> i, at |-> at]
HSetMeta(i, md) == [op |-> "HSET metadata", id |-> i, fields |-> md]
SAddKind(i)     == [op |-> "SADD by_kind", id |-> i]
SAddId(i)       == [op |-> "SADD ids", id |-> i]
Del(i)          == [op |-> "DEL", id |-> i]
SRemId(i)       == [op |-> "SREM ids", id |-> i]
SRemKind(i)     == [op |-> "SREM by_kind", id |-> i]
SAddEdge(e)     == [op |-> "SADD edges", edge |-> e]
SRemEdge(e)     == [op |-> "SREM edges", edge |-> e]

(* What Redis does with one command.  HSET on the metadata key sets the    *)
(* fields it is given and leaves the other fields of the hash alone.  DEL  *)
(* names the three keys of an entity, so it takes with it every edge       *)
(* stored under that entity, whoever wrote the edge.                       *)
Apply(d, c) ==
  CASE c.op = "HSET"          -> [d EXCEPT !.core = [@ EXCEPT ![c.id] = c.at]]
    [] c.op = "HSET metadata" ->
         [d EXCEPT !.meta = [@ EXCEPT ![c.id] =
            [f \in Field |-> IF c.fields[f] # NoValue THEN c.fields[f]
                                                      ELSE d.meta[c.id][f]]]]
    [] c.op = "SADD by_kind"  -> [d EXCEPT !.byKind = @ \cup {c.id}]
    [] c.op = "SADD ids"      -> [d EXCEPT !.ids = @ \cup {c.id}]
    [] c.op = "DEL"           ->
         [d EXCEPT !.core = [@ EXCEPT ![c.id] = Absent],
                   !.meta = [@ EXCEPT ![c.id] = NoMeta],
                   !.edges = {e \in @ : e.from # c.id}]
    [] c.op = "SREM ids"      -> [d EXCEPT !.ids = @ \ {c.id}]
    [] c.op = "SREM by_kind"  -> [d EXCEPT !.byKind = @ \ {c.id}]
    [] c.op = "SADD edges"    -> [d EXCEPT !.edges = @ \cup {c.edge}]
    [] c.op = "SREM edges"    -> [d EXCEPT !.edges = @ \ {c.edge}]

(* One command after another: the store after k of them, and after all.    *)
(* (Not a fold, of which the provers know nothing.)                        *)
Applied(d, cmds) ==
  LET after[k \in 0..Len(cmds)] == IF k = 0 THEN d ELSE Apply(after[k - 1], cmds[k])
  IN  after
ApplyAll(d, cmds) == Applied(d, cmds)[Len(cmds)]

Exists(d, i) == d.core[i] # Absent

(* An entity is listed when every key that names it does: Get finds it,    *)
(* Size counts it and ListByKind returns it.                               *)
Listed(d, i)   == Exists(d, i) /\ i \in d.ids /\ i \in d.byKind
Unlisted(d, i) == ~Exists(d, i) /\ i \notin d.ids /\ i \notin d.byKind
=============================================================================
