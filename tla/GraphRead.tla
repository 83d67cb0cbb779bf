----------------------------- MODULE GraphRead ------------------------------
(***************************************************************************)
(* One request to graph-read: the HTTP handler (internal/api/api.go) and   *)
(* the reader it calls (internal/graph/redis.go), one Redis command at a   *)
(* time, while the writers write.  Nothing is read in a transaction, so an *)
(* entity, its edges and its metadata may be of three different moments,   *)
(* and a traversal sees every entity at another one.                       *)
(*                                                                         *)
(* Any read may fail, by itself or because the request's context expired.  *)
(* Most failures are silent: an entity that cannot be read is left out.    *)
(* Prune is the one operation of the reader that writes.                   *)
(*                                                                         *)
(* The writers are external here: whole operations of RedisWriter and of   *)
(* the flusher, command by command, on any entity and edge.                *)
(***************************************************************************)
EXTENDS RedisStore, Sequences, FiniteSets, SequencesExt, FiniteSetsExt

CONSTANTS Edge,      \* edges: records with from, to and action
          KindOf,    \* the kind of each id
          NoKind,    \* no kind was given
          Needle,    \* the text a search asks for: values and actions that have it
          Named,     \* the ids that have it in id or name
          Cases,     \* a store, a request and a bound on the operations of the writers
          WrittenIds, WrittenEdges  \* bound: what the writers write

ASSUME IdAssumption == Id \subseteq Nat /\ IsFiniteSet(Id)  \* ids are sorted
ASSUME EdgeAssumption == \A e \in Edge : e.from \in Id /\ e.to \in Id
ASSUME NoKindAssumption == \A i \in Id : KindOf[i] # NoKind

Clock == 2  \* the time now, in milliseconds as it were
Metadata == [Field -> Value \cup {NoValue}]
Stores == [core : [Id -> {Absent} \cup 0..Clock], meta : [Id -> Metadata],
           edges : SUBSET Edge, ids : SUBSET Id, byKind : SUBSET Id]

(* What the handler has parsed: an id as text, a number, or a kind.        *)
WellFormed(r) == /\ r.op \in {"get", "subgraph", "list", "search", "prune"}
                 /\ r.op \in {"get", "subgraph"} => r.id \in Id
                 /\ r.op = "subgraph" => r.depth \in Int
                 /\ r.op = "search" => r.limit \in Int

ASSUME CaseAssumption == \A c \in Cases : /\ c.store \in Stores /\ c.writes \in Nat
                                          /\ WellFormed(c.req)
ASSUME WrittenAssumption == WrittenIds \subseteq Id /\ WrittenEdges \subseteq Edge

VARIABLES
  db,     \* Redis
  pipe,   \* what is left of the writers' current operation
  writes, \* bound: how many more operations they may begin
  call,   \* the locals of the handler and the reader
  seen    \* history, see Seen

vars == <<db, pipe, writes, call, seen>>

MaxDepthParam == 100
MaxLimitParam == 500
DefaultLimit == 50

EdgesOf(d, i) == {e \in d.edges : e.from = i}

(* What is in the store, as far as a reader can tell.                      *)
Contents(d, entities) ==
  [ids |-> entities, edges |-> d.edges,
   meta |-> {p \in Id \X Field : d.meta[p[1]][p[2]] = Needle}]
ListedIds(d) == {i \in Id : Listed(d, i)}
ExistingIds(d) == {i \in Id : Exists(d, i)}

(* History since the request came in: what was there all the time and what *)
(* was there at some time; what the writers added; the store as it would   *)
(* be without this request; and whether a command of the request failed.   *)
Seen(d) == [steady |-> Contents(d, ListedIds(d)), ever |-> Contents(d, ExistingIds(d)),
            added |-> [ids |-> {}, edges |-> {}], alone |-> d, failed |-> FALSE]

Both(c, d) == [ids |-> c.ids \cap d.ids, edges |-> c.edges \cap d.edges,
               meta |-> c.meta \cap d.meta]
Either(c, d) == [ids |-> c.ids \cup d.ids, edges |-> c.edges \cup d.edges,
                 meta |-> c.meta \cup d.meta]

Watch(d) == [seen EXCEPT !.steady = Both(@, Contents(d, ListedIds(d))),
                         !.ever = Either(@, Contents(d, ExistingIds(d)))]

Asked(r) == [pc |-> "request", req |-> r, status |-> 0, ids |-> {}, cur |-> {}, edges |-> {},
             links |-> {}, depth |-> -1, queue |-> <<>>, visited |-> <<>>, max |-> 0,
             found |-> {}, dropped |-> {}, cmds |-> <<>>]

Init ==
  /\ \E c \in Cases : db = c.store /\ writes = c.writes /\ call = Asked(c.req)
  /\ pipe = <<>>
  /\ seen = Seen(db)

-----------------------------------------------------------------------------
(* The writers.                                                            *)

UpsertCommands(i, md) == <<HSet(i, Clock), SAddKind(i), SAddId(i)>>
                         \o (IF \E f \in Field : md[f] # NoValue THEN <<HSetMeta(i, md)>> ELSE <<>>)
DeleteCommands(i) == <<Del(i), SRemId(i), SRemKind(i)>>

Operations == {UpsertCommands(i, md) : i \in WrittenIds, md \in Metadata}
              \cup {DeleteCommands(i) : i \in WrittenIds}
              \cup {<<SAddEdge(e)>> : e \in WrittenEdges} \cup {<<SRemEdge(e)>> : e \in WrittenEdges}

AddedTo(added, c) ==
  CASE c.op \in {"HSET", "HSET metadata", "SADD by_kind", "SADD ids"} -> [added EXCEPT !.ids = @ \cup {c.id}]
    [] c.op = "SADD edges" -> [added EXCEPT !.edges = @ \cup {c.edge}]
    [] OTHER -> added

Execute(c) ==
  /\ db' = Apply(db, c)
  /\ seen' = [Watch(db') EXCEPT !.added = AddedTo(@, c), !.alone = Apply(@, c)]
  /\ UNCHANGED call

BeginWrite(cmds) ==
  /\ call.pc # "done"
  /\ pipe = <<>> /\ writes > 0
  /\ writes' = writes - 1
  /\ pipe' = Tail(cmds)
  /\ Execute(Head(cmds))

Write ==
  /\ pipe # <<>>
  /\ pipe' = Tail(pipe)
  /\ Execute(Head(pipe))
  /\ UNCHANGED writes

-----------------------------------------------------------------------------
(* The handler's checks, before anything is read.                          *)
op == call.req.op

BadRequest(r) == \/ r.op = "subgraph" /\ r.depth \notin 0..MaxDepthParam
                 \/ r.op = "search" /\ r.limit \notin 0..MaxLimitParam
                 \/ r.op = "list" /\ r.kind = NoKind
                 \/ r.op = "prune" /\ r.older <= 0

Request ==
  /\ call.pc = "request"
  /\ call' = IF BadRequest(call.req) THEN [call EXCEPT !.pc = "done", !.status = 400]
             ELSE [call EXCEPT !.pc = IF op \in {"get", "subgraph"} THEN "root" ELSE "ids"]
  /\ seen' = Seen(db)
  /\ UNCHANGED <<db, pipe, writes>>

(* A command of the reader that failed, or not.                            *)
Reply(err, locals) ==
  /\ call' = locals
  /\ seen' = [seen EXCEPT !.failed = @ \/ err]
  /\ UNCHANGED <<db, pipe, writes>>

-----------------------------------------------------------------------------
(* One entity: HGETALL of its core, then SMEMBERS of its edges and HGETALL *)
(* of its metadata in one pipeline.                                        *)
Missing(err, i) == err \/ ~Exists(db, i)

Matched(entity) == (IF entity.id \in Named THEN {"name"} ELSE {})
                   \cup {f \in Field : entity.meta[f] = Needle}
                   \cup {e.action : e \in {x \in entity.edges : x.action = Needle}}

(* Get, and the root of Subgraph.                                          *)
ReadRoot(err) ==
  /\ call.pc = "root"
  /\ LET i == call.req.id
     IN  Reply(err, IF Missing(err, i) THEN [call EXCEPT !.pc = "done", !.status = 404]
                    ELSE [call EXCEPT !.cur = {i},
                            !.pc = IF op = "subgraph" /\ call.req.depth <= 0 THEN "size" ELSE "edges",
                            !.max = IF op = "subgraph" THEN call.req.depth ELSE 0])

(* No depth was asked for: as many hops as there are entities.             *)
ReadSize(err) ==
  /\ call.pc = "size"
  /\ Reply(err, [call EXCEPT !.pc = "edges", !.max = IF err THEN 0 ELSE Cardinality(db.ids)])

Mark(visited, id, depth) ==
  [i \in DOMAIN visited \cup {id} |-> IF i = id THEN depth ELSE visited[i]]

(* A planted error: the queue is used as a stack.                          *)
KeepOnTop(entity) ==
  [call EXCEPT !.pc = "each", !.cur = {}, !.edges = {}, !.found = @ \cup {entity},
     !.visited = Mark(@, entity.id, call.depth + 1), !.queue = <<entity.id>> \o @]

(* What becomes of an entity that was read.                                *)
Keep(entity) ==
  IF op = "subgraph"
  THEN [call EXCEPT !.pc = "each", !.cur = {}, !.edges = {}, !.found = @ \cup {entity},
          !.visited = Mark(@, entity.id, call.depth + 1), !.queue = Append(@, entity.id)]
  ELSE [call EXCEPT !.pc = "each", !.cur = {}, !.edges = {},
          !.found = IF op = "search" /\ Matched(entity) = {} THEN @ ELSE @ \cup {entity}]

ReadEdges(err) ==
  /\ call.pc = "edges"
  /\ \E i \in call.cur :
       Reply(err, IF err THEN Keep([id |-> i, edges |-> {}, meta |-> NoMeta])
                  ELSE [call EXCEPT !.pc = "meta", !.edges = EdgesOf(db, i)])

(* A planted error: a pipeline that failed is sent again, time and again.  *)
ReadMetaAgain(err) ==
  /\ call.pc = "meta"
  /\ \E i \in call.cur :
       Reply(err, IF err THEN [call EXCEPT !.pc = "edges"]
                  ELSE Keep([id |-> i, edges |-> call.edges, meta |-> db.meta[i]]))

(* The pipeline fails as a whole: the edges that were read are not shown.  *)
ReadMeta(err) ==
  /\ call.pc = "meta"
  /\ \E i \in call.cur :
       Reply(err, IF err THEN Keep([id |-> i, edges |-> {}, meta |-> NoMeta])
                  ELSE Keep([id |-> i, edges |-> call.edges, meta |-> db.meta[i]]))

-----------------------------------------------------------------------------
(* Subgraph: a breadth-first search.                                       *)

(* A planted error: the entities at the limit are followed once more.      *)
VisitOneFurther ==
  /\ call.pc = "each" /\ op = "subgraph" /\ call.links = {} /\ call.queue # <<>>
  /\ LET id == Head(call.queue)
         entity == CHOOSE x \in call.found : x.id = id
     IN  Reply(FALSE, [call EXCEPT !.queue = Tail(@), !.depth = call.visited[id],
                !.links = IF call.visited[id] > call.max THEN {} ELSE entity.edges])

(* Next entity of the queue, unless it is as deep as may be.               *)
Visit ==
  /\ call.pc = "each" /\ op = "subgraph" /\ call.links = {} /\ call.queue # <<>>
  /\ LET id == Head(call.queue)
         entity == CHOOSE x \in call.found : x.id = id
     IN  Reply(FALSE, [call EXCEPT !.queue = Tail(@), !.depth = call.visited[id],
                !.links = IF call.visited[id] >= call.max THEN {} ELSE entity.edges])

(* A planted error: who was visited is not looked up.                      *)
FollowAgain(err) ==
  /\ call.pc = "each" /\ op = "subgraph"
  /\ \E e \in call.links :
       LET rest == [call EXCEPT !.links = @ \ {e}]
       IN  Reply(err, IF Missing(err, e.to) THEN rest
                      ELSE [rest EXCEPT !.cur = {e.to}, !.pc = "edges"])

(* An edge of it: a child that was not found may still be found later, by  *)
(* another edge.                                                           *)
Follow(err) ==
  /\ call.pc = "each" /\ op = "subgraph"
  /\ \E e \in call.links :
       LET rest == [call EXCEPT !.links = @ \ {e}]
       IN  IF e.to \in DOMAIN call.visited THEN ~err /\ Reply(FALSE, rest)
           ELSE Reply(err, IF Missing(err, e.to) THEN rest
                           ELSE [rest EXCEPT !.cur = {e.to}, !.pc = "edges"])

-----------------------------------------------------------------------------
(* ListByKind and Search: the ids of an index, then one entity after the   *)
(* other.                                                                  *)

OfKind(kind) == {i \in db.byKind : KindOf[i] = kind}

Index == IF op = "prune" \/ call.req.kind = NoKind THEN db.ids ELSE OfKind(call.req.kind)

ReadIds(err) ==
  /\ call.pc = "ids"
  /\ Reply(err, CASE ~err -> [call EXCEPT !.pc = "each", !.ids = Index]
                  [] err /\ op = "prune" -> [call EXCEPT !.pc = "count"]
                  [] OTHER -> [call EXCEPT !.pc = "done", !.status = 200])

(* A planted error: the list ends at the first entity that is gone.        *)
ReadCoreStops(err) ==
  /\ call.pc = "each" /\ op \in {"list", "search"}
  /\ \E i \in call.ids :
       Reply(err, IF Missing(err, i) THEN [call EXCEPT !.ids = {}]
                  ELSE [call EXCEPT !.ids = @ \ {i}, !.cur = {i}, !.pc = "edges"])

ReadCore(err) ==
  /\ call.pc = "each" /\ op \in {"list", "search"}
  /\ \E i \in call.ids :
       LET rest == [call EXCEPT !.ids = @ \ {i}]
       IN  Reply(err, IF Missing(err, i) THEN rest ELSE [rest EXCEPT !.cur = {i}, !.pc = "edges"])

(* A planted error: the page is cut as the entities come, and sorted then. *)
PageUnsorted(entities, limit) ==
  IF Cardinality(entities) <= limit THEN entities
  ELSE CHOOSE page \in kSubset(limit, entities) : TRUE

(* The first so many of the entities, by id.                               *)
Page(entities, limit) ==
  {x \in entities : Cardinality({y \in entities : y.id < x.id}) < limit}

Limit == IF call.req.limit <= 0 THEN DefaultLimit ELSE call.req.limit

Answer ==
  /\ call.pc = "each" /\ op # "prune"
  /\ call.ids = {} /\ call.links = {} /\ call.queue = <<>>
  /\ Reply(FALSE, [call EXCEPT !.pc = "done", !.status = 200,
                     !.found = IF op = "search" THEN Page(@, Limit) ELSE @])

-----------------------------------------------------------------------------
(* Prune: the times of all entities, then what is too old goes, then the   *)
(* edges that others have to it.                                           *)

Cutoff == call.req.at - call.req.older

ReadTime(err) ==
  /\ call.pc = "each" /\ op = "prune"
  /\ \E i \in call.ids :
       Reply(err, [call EXCEPT !.ids = @ \ {i},
                     !.dropped = IF ~Missing(err, i) /\ db.core[i] < Cutoff THEN @ \cup {i} ELSE @])

BeginDrop ==
  /\ call.pc = "each" /\ op = "prune" /\ call.ids = {}
  /\ Reply(FALSE, IF call.dropped = {} THEN [call EXCEPT !.pc = "count"]
                  ELSE [call EXCEPT !.pc = "kind", !.ids = call.dropped])

(* Without its kind an entity is not taken from its by_kind set.           *)
ReadKind(err) ==
  /\ call.pc = "kind"
  /\ \E i \in call.ids :
       Reply(err, [call EXCEPT !.ids = @ \ {i}, !.pc = "drop",
                     !.cmds = <<Del(i), SRemId(i)>>
                              \o (IF Missing(err, i) THEN <<>> ELSE <<SRemKind(i)>>)])

AfterDrop(rest) == IF rest # <<>> THEN "drop" ELSE IF call.ids # {} THEN "kind" ELSE "survivors"

(* Errors of this pipeline are ignored, and so is what was left of it.     *)
Drop(err) ==
  /\ call.pc = "drop"
  /\ LET rest == IF err THEN <<>> ELSE Tail(call.cmds)
     IN  call' = [call EXCEPT !.cmds = rest, !.pc = AfterDrop(rest)]
  /\ db' = IF err THEN db ELSE Apply(db, Head(call.cmds))
  /\ seen' = [Watch(db') EXCEPT !.failed = @ \/ err]
  /\ UNCHANGED <<pipe, writes>>

(* A planted error: the survivors are those of the first list.             *)
ReadSurvivorsSkipped(err) ==
  /\ call.pc = "survivors"
  /\ Reply(FALSE, [call EXCEPT !.pc = "strip", !.ids = {}])

ReadSurvivors(err) ==
  /\ call.pc = "survivors"
  /\ Reply(err, [call EXCEPT !.pc = "strip", !.ids = IF err THEN {} ELSE db.ids])

(* A planted error: an edge dangles if its target is not among those left. *)
DanglingUnlisted(i) == {e \in EdgesOf(db, i) : e.to \notin db.ids}

Dangling(i) == {e \in EdgesOf(db, i) : e.to \in call.dropped}

ReadSurvivor(err) ==
  /\ call.pc = "strip" /\ call.links = {}
  /\ \E i \in call.ids :
       Reply(err, [call EXCEPT !.ids = @ \ {i}, !.links = IF err THEN {} ELSE Dangling(i)])

Strip(err) ==
  /\ call.pc = "strip"
  /\ \E e \in call.links :
       /\ call' = [call EXCEPT !.links = @ \ {e}]
       /\ db' = IF err THEN db ELSE Apply(db, SRemEdge(e))
  /\ seen' = [Watch(db') EXCEPT !.failed = @ \/ err]
  /\ UNCHANGED <<pipe, writes>>

EndStrip ==
  /\ call.pc = "strip" /\ call.ids = {} /\ call.links = {}
  /\ Reply(FALSE, [call EXCEPT !.pc = "count"])

(* The answer has the size of the graph, which is read last.               *)
Count(err) ==
  /\ call.pc = "count"
  /\ Reply(err, [call EXCEPT !.pc = "done", !.status = 200,
                   !.max = IF err THEN 0 ELSE Cardinality(db.ids)])

-----------------------------------------------------------------------------
Reader ==
  \/ Request \/ Visit \/ Answer \/ BeginDrop \/ EndStrip
  \/ \E err \in BOOLEAN :
       \/ ReadRoot(err) \/ ReadSize(err) \/ ReadEdges(err) \/ ReadMeta(err) \/ Follow(err)
       \/ ReadIds(err) \/ ReadCore(err)
       \/ ReadTime(err) \/ ReadKind(err) \/ Drop(err)
       \/ ReadSurvivors(err) \/ ReadSurvivor(err) \/ Strip(err) \/ Count(err)

Next == Reader \/ (\E cmds \in Operations : BeginWrite(cmds)) \/ Write

Spec == Init /\ [][Next]_vars

(* Every command of a reader ends, by its answer or by its context.  The   *)
(* writers need not write.                                                 *)
FairSpec == Spec /\ WF_vars(Reader)

-----------------------------------------------------------------------------
(* What can be reached from a root in so many hops, the reference for the  *)
(* search.                                                                 *)
Within(contents, root, hops) ==
  LET Level[k \in 0..hops] ==
        IF k = 0 THEN contents.ids \cap {root}
        ELSE Level[k - 1] \cup {e.to : e \in {x \in contents.edges :
                                  x.from \in Level[k - 1] /\ x.to \in contents.ids}}
  IN  Level[hops]

Hops == IF call.req.depth <= 0 THEN Cardinality(Id) ELSE call.req.depth

Done(o) == call.pc = "done" /\ op = o /\ call.status # 400
FoundIds == {x.id : x \in call.found}

Entity == [id : Id, edges : SUBSET Edge, meta : Metadata]

TypeOK ==
  /\ db \in Stores
  /\ writes \in Nat
  /\ call.status \in {0, 200, 400, 404} /\ (call.status # 0 <=> call.pc = "done")
  /\ call.ids \subseteq Id /\ call.cur \subseteq Id /\ Cardinality(call.cur) <= 1
  /\ call.edges \subseteq Edge /\ call.links \subseteq Edge
  /\ Range(call.queue) \subseteq DOMAIN call.visited /\ DOMAIN call.visited \subseteq Id
  /\ call.found \subseteq Entity
  /\ \A x, y \in call.found : x.id = y.id => x = y
  /\ call.dropped \subseteq Id

(* Subgraph misses nothing that stays: whoever can be reached from the     *)
(* root, within the depth asked for, by entities and edges that are there  *)
(* during the whole request is in the answer, however much is added and    *)
(* removed around them meanwhile, unless a read failed (redis.go 123-154). *)
SubgraphFinds ==
  Done("subgraph") /\ ~seen.failed => Within(seen.steady, call.req.id, Hops) \subseteq FoundIds

(* Nor does it go too far: whatever fails or changes, all in the answer is *)
(* reached within the depth by entities and edges that were there, if not  *)
(* all at the same time, and shows only such edges.                        *)
SubgraphInventsNothing ==
  Done("subgraph") =>
    /\ FoundIds \subseteq Within(seen.ever, call.req.id, Hops)
    /\ UNION {x.edges : x \in call.found} \subseteq seen.ever.edges

(* A list has every entity of the kind that was listed during the whole    *)
(* request, though others of the kind go while they are being read         *)
(* (redis.go 159-177).                                                     *)
ListFinds ==
  Done("list") /\ ~seen.failed =>
    {i \in seen.steady.ids : KindOf[i] = call.req.kind} \subseteq FoundIds

(* A search that leaves out an entity which matched all the time, for the  *)
(* same reason, has a full page of matches with smaller ids (redis.go      *)
(* 179-242).                                                               *)
SteadyMatch(i) == /\ i \in seen.steady.ids
                  /\ call.req.kind \in {NoKind, KindOf[i]}
                  /\ \/ i \in Named
                     \/ \E p \in seen.steady.meta : p[1] = i
                     \/ \E e \in seen.steady.edges : e.from = i /\ e.action = Needle

SearchFinds ==
  Done("search") /\ ~seen.failed =>
    \A i \in {j \in Id : SteadyMatch(j)} \ FoundIds :
      Cardinality({j \in FoundIds : j < i}) = Limit

(* Prune takes nothing but what it counted as too old and the edges to and *)
(* from that, at any moment, through failures and concurrent writes: the   *)
(* rest of the store is what the writers made it (redis.go 244-247).       *)
PruneSpares ==
  op = "prune" =>
    /\ \A i \in Id \ call.dropped : /\ db.core[i] = seen.alone.core[i]
                                    /\ db.meta[i] = seen.alone.meta[i]
                                    /\ i \in seen.alone.ids <=> i \in db.ids
                                    /\ i \in seen.alone.byKind <=> i \in db.byKind
    /\ db.edges \subseteq seen.alone.edges
    /\ \A e \in seen.alone.edges \ db.edges : {e.from, e.to} \cap call.dropped # {}

(* And it takes all of that: when it is done and nothing failed, no key    *)
(* names a dropped entity and no entity that was listed throughout has an  *)
(* edge to one, except what a writer added during the prune.               *)
PruneLeavesNothing ==
  Done("prune") /\ ~seen.failed /\ pipe = <<>> =>
    \A i \in call.dropped \ seen.added.ids :
      /\ Unlisted(db, i)
      /\ \A e \in db.edges : e.to = i /\ e.from \in seen.steady.ids => e \in seen.added.edges

(* Every request is answered, whatever the writers do and whatever fails.  *)
RequestReturns == <>(call.pc = "done")
=============================================================================
