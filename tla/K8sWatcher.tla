----------------------------- MODULE K8sWatcher -----------------------------
(***************************************************************************)
(* The watcher of graph-k8s (internal/k8swatch/watcher.go): one informer   *)
(* per kind keeps a cache of the API's objects and queues notifications;   *)
(* the handlers of one kind run one after the other, those of different    *)
(* kinds concurrently, and write what the objects imply.                   *)
(*                                                                         *)
(* The API and client-go are external.  A watch delivers the changes of a  *)
(* kind in order and independently of other kinds, so a cache is behind    *)
(* the API by any amount; a relist after a lost watch shows only the       *)
(* latest state, so changes may be merged, a deletion and re-creation into *)
(* one update too.                                                         *)
(*                                                                         *)
(* The writer is the want of RedisWriter: a call takes effect at once.     *)
(* The calls of one handler are one step: the calls of handlers of         *)
(* different kinds commute (CallsCommute, in K8sWatcherProofs).  A pod's   *)
(* update resolves the owner twice, before it writes, and the cache of     *)
(* ReplicaSets may change in between: that one is two steps.               *)
(***************************************************************************)
EXTENDS K8sMapper, Naturals

CONSTANTS Worlds,       \* sets of object states; a behaviour takes its from one
          DynamicKinds, \* kinds with a CRD, whose informers start last
          MaxChanges,   \* bound: changes in the API
          MaxResyncs,   \* bound: resyncs of an informer
          MaxFaults,    \* bound: how many faults happen
          FaultKinds    \* which: "restart", "batch", "loss"

(* The kinds that have an informer.                                        *)
WatchedKinds == {"node", "namespace", "pod", "replicaset", "deployment", "statefulset",
                 "daemonset", "job", "cronjob", "hpa", "rollout", "scaledobject"}

ASSUME BoundAssumption == MaxChanges \in Nat /\ MaxResyncs \in Nat /\ MaxFaults \in Nat
ASSUME WorldAssumption ==
  \A world \in Worlds :
    /\ IsFiniteSet(world)
    /\ \A o \in world :
         /\ o.kind \in WatchedKinds
         /\ o.kind \in {"pod", "replicaset"} =>
              Len(o.owners) \in Nat /\ DOMAIN o.owners = 1..Len(o.owners)

VARIABLES
  objects,    \* the world: the states that objects may take
  api,        \* the API server's objects
  cache,      \* what the informers have seen, all kinds together
  synced,     \* kinds whose initial list is in the cache
  registered, \* the pod handler is registered
  queue,      \* per kind, the notifications not handled yet
  held,       \* the old Desired of the pod update under way, if any
  graph,      \* entities and edges, as written
  gone,       \* history: ReplicaSets that changed or were absent at some time
  adrift,     \* history: what an earlier process or a dropped batch left
  lost,       \* history: what Redis lost and no handler has written again
  changes, resyncs, faults

vars == <<objects, api, cache, synced, registered, queue, held, graph, gone, adrift,
          lost, changes, resyncs, faults>>

KeyOf(o) == Ent(o.kind, o.name)
Kinds == {o.kind : o \in UNION Worlds}

(* The state of one object among some, a set, and no object in two states. *)
At(objs, k) == {o \in objs : KeyOf(o) = k}
Keys == {KeyOf(o) : o \in objects}
OneEach(objs) == \A o, p \in objs : KeyOf(o) = KeyOf(p) => o = p
OfKind(objs, kind) == {o \in objs : o.kind = kind}
KindsHere == {o.kind : o \in objects}

(* A notification: Add has no old state, Delete no new one.                *)
Notice(old, new) == [old |-> old, new |-> new]
KeysOf(notice) == {KeyOf(o) : o \in notice.old \cup notice.new}

(* ReplicaSets have no handler, and pods have one once it is registered.   *)
HasHandler(kind) == kind # "replicaset" /\ (kind = "pod" => registered)

ReplicaSets == OfKind(cache, "replicaset")

Init ==
  /\ objects \in Worlds
  /\ api \in SUBSET objects /\ OneEach(api)
  /\ cache = {} /\ synced = {} /\ registered = FALSE
  /\ queue = [kind \in Kinds |-> <<>>]
  /\ held = {}
  /\ graph = Nothing
  /\ gone = {rs.name : rs \in OfKind(objects \ api, "replicaset")}
  /\ adrift = Nothing
  /\ lost = Nothing
  /\ changes = 0 /\ resyncs = 0 /\ faults = 0

-----------------------------------------------------------------------------
(* The API server.                                                         *)

Change(o, objs) ==
  /\ changes < MaxChanges
  /\ changes' = changes + 1
  /\ api' = objs
  /\ gone' = gone \cup {rs.name : rs \in OfKind({o}, "replicaset")}
  /\ UNCHANGED <<objects, cache, synced, registered, queue, held, graph, adrift, lost, resyncs, faults>>

(* Created, changed, or deleted and created again.                         *)
ApiSet(o) == o \in objects \ api /\ Change(o, (api \ At(api, KeyOf(o))) \cup {o})

ApiDelete(o) == o \in api /\ Change(o, api \ {o})

-----------------------------------------------------------------------------
(* The informers.                                                          *)

Added(objs) == LET order == SetToSeq(objs) IN [i \in DOMAIN order |-> Notice({}, {order[i]})]
Again(objs) == LET order == SetToSeq(objs)
               IN  [i \in DOMAIN order |-> Notice({order[i]}, {order[i]})]

Notify(kind, notices) ==
  queue' = IF HasHandler(kind) THEN [queue EXCEPT ![kind] = @ \o notices] ELSE queue

(* The initial list.  Handlers registered before the start get it as Adds. *)
Sync(kind) ==
  /\ kind \in KindsHere \ synced
  /\ kind \in DynamicKinds => KindsHere \ DynamicKinds \subseteq synced
  /\ synced' = synced \cup {kind}
  /\ cache' = cache \cup OfKind(api, kind)
  /\ Notify(kind, Added(OfKind(api, kind)))
  /\ UNCHANGED <<objects, api, registered, held, graph, gone, adrift, lost, changes, resyncs, faults>>

(* A watch event, or a relist.                                             *)
Observe(k) ==
  /\ k[1] \in synced
  /\ At(cache, k) # At(api, k)
  /\ cache' = (cache \ At(cache, k)) \cup At(api, k)
  /\ Notify(k[1], <<Notice(At(cache, k), At(api, k))>>)
  /\ UNCHANGED <<objects, api, synced, registered, held, graph, gone, adrift, lost,
                 changes, resyncs, faults>>

(* Every WATCH_RESYNC_PERIOD each cached object comes again as an update   *)
(* to itself.                                                              *)
Resync(kind) ==
  /\ resyncs < MaxResyncs
  /\ HasHandler(kind) /\ OfKind(cache, kind) # {}
  /\ resyncs' = resyncs + 1
  /\ Notify(kind, Again(OfKind(cache, kind)))
  /\ UNCHANGED <<objects, api, cache, synced, registered, held, graph, gone, adrift, lost,
                 changes, faults>>

(* A planted error: objects of every kind are replayed to the pod handler. *)
RegisteredForAll ==
  /\ ~registered
  /\ registered' = TRUE
  /\ queue' = IF "pod" \in Kinds THEN [queue EXCEPT !["pod"] = Added(cache)] ELSE queue
  /\ UNCHANGED <<objects, api, cache, synced, held, graph, gone, adrift, lost, changes, resyncs, faults>>

(* AddEventHandler on an informer that runs already.                       *)
Registered ==
  /\ ~registered
  /\ registered' = TRUE
  /\ queue' = IF "pod" \in Kinds
              THEN [queue EXCEPT !["pod"] = Added(OfKind(cache, "pod"))] ELSE queue
  /\ UNCHANGED <<objects, api, cache, synced, held, graph, gone, adrift, lost, changes, resyncs, faults>>

(* A planted error: only the pods' own cache is waited for.                *)
RegisterPodsEarly == KindsHere \cap {"pod"} \subseteq synced /\ Registered

(* A planted error: the pods that are cached already are not replayed.     *)
RegisterPodsNoReplay ==
  /\ KindsHere \subseteq synced
  /\ ~registered
  /\ registered' = TRUE
  /\ UNCHANGED <<objects, api, cache, synced, queue, held, graph, gone, adrift, lost, changes,
                 resyncs, faults>>

(* Once every cache has synced, Run registers the pod handler; client-go   *)
(* replays the cached pods to it as Adds.                                  *)
RegisterPods == KindsHere \subseteq synced /\ Registered

-----------------------------------------------------------------------------
(* The handlers' writes.                                                   *)

Owned(id) == id[1] \in {"pod", "container"}

Upsert(g, ids)      == [g EXCEPT !.entities = @ \cup ids]
DeleteEntities(g, ids) == [entities |-> g.entities \ ids,
                           edges    |-> {e \in g.edges : e.from \notin ids}]
AddEdges(g, es)     == [g EXCEPT !.edges = @ \cup es]
RemoveEdges(g, es)  == [g EXCEPT !.edges = @ \ es]

ApplyAdd(g, d) == AddEdges(Upsert(g, d.entities), d.edges)

(* A planted error: every entity that drops out is deleted, shared or not. *)
ApplyUpdateDropsShared(g, old, new) ==
  LET kept == DeleteEntities(Upsert(g, new.entities), old.entities \ new.entities)
  IN  RemoveEdges(AddEdges(kept, new.edges \ old.edges), old.edges \ new.edges)

ApplyUpdate(g, old, new) ==
  LET dropped == {id \in old.entities \ new.entities : Owned(id)}
      kept    == DeleteEntities(Upsert(g, new.entities), dropped)
  IN  RemoveEdges(AddEdges(kept, new.edges \ old.edges), old.edges \ new.edges)

(* A planted error: the edges that others hold to the object stay.         *)
ApplyDeleteKeepsEdges(g, d) == DeleteEntities(g, {id \in d.entities : Owned(id)})

ApplyDelete(g, d) ==
  RemoveEdges(DeleteEntities(g, {id \in d.entities : Owned(id)}), d.edges)

-----------------------------------------------------------------------------
(* The handlers.                                                           *)

DesiredNow(objs) == UnionOf({Desired(o, ReplicaSets) : o \in objs})

Next1(kind) == Head(queue[kind])
Pop(kind) == queue' = [queue EXCEPT ![kind] = Tail(@)]

Fault(kind) == kind \in FaultKinds /\ faults < MaxFaults /\ faults' = faults + 1

(* What Redis has of the writes that lead to g when their batch fails: it  *)
(* may have executed those about entities, which come before those about   *)
(* edges; to delete an entity takes its edges along.                       *)
EntitiesOnly(g) == [entities |-> g.entities,
                    edges    |-> {e \in graph.edges : e.from \notin graph.entities \ g.entities}]

(* The writes of a handler reach Redis, or their batch fails, on the way   *)
(* or at the start, and is dropped (rediswriter.go 94).  A batch with the  *)
(* calls of several handlers is several faults.  What it settles, it       *)
(* writes or removes whatever Redis had before.                            *)
Write(g, settled) ==
  /\ \/ /\ graph' = g
        /\ lost' = Without(lost, settled)
        /\ UNCHANGED <<adrift, faults>>
     \/ /\ Fault("batch")
        /\ graph' \in {graph, EntitiesOnly(g)}
        /\ lost' = Both(Without(lost, settled), Without(g, graph'))
        /\ adrift' = Both(adrift, Without(graph', g))
  /\ UNCHANGED <<objects, api, cache, synced, registered, gone, changes, resyncs>>

(* An update writes all entities of the new state, but only the difference *)
(* of the edges.                                                           *)
WriteUpdate(old, new) ==
  Write(ApplyUpdate(graph, old, new), [entities |-> new.entities,
                                       edges |-> (new.edges \ old.edges) \cup (old.edges \ new.edges)])

HandleAdd(kind) ==
  /\ queue[kind] # <<>> /\ Next1(kind).old = {}
  /\ LET d == DesiredNow(Next1(kind).new) IN Write(ApplyAdd(graph, d), d)
  /\ Pop(kind)
  /\ UNCHANGED held

HandleDelete(kind) ==
  /\ queue[kind] # <<>> /\ Next1(kind).new = {}
  /\ LET d == DesiredNow(Next1(kind).old)
     IN  Write(ApplyDelete(graph, d), [entities |-> {}, edges |-> d.edges])
  /\ Pop(kind)
  /\ UNCHANGED held

IsUpdate(kind) == queue[kind] # <<>> /\ Next1(kind).old # {} /\ Next1(kind).new # {}

HandleUpdate(kind) ==
  /\ kind # "pod" /\ IsUpdate(kind)
  /\ WriteUpdate(DesiredNow(Next1(kind).old), DesiredNow(Next1(kind).new))
  /\ Pop(kind)
  /\ UNCHANGED held

(* An update of a pod: the old state with the owner it resolves to now,    *)
(* then the new one, then the difference.                                  *)
ResolveOldPod ==
  /\ "pod" \in Kinds /\ IsUpdate("pod") /\ held = {}
  /\ held' = {DesiredNow(Next1("pod").old)}
  /\ UNCHANGED <<objects, api, cache, synced, registered, queue, graph, gone, adrift, lost,
                 changes, resyncs, faults>>

UpdatePod ==
  /\ held # {}
  /\ \E old \in held : WriteUpdate(old, DesiredNow(Next1("pod").new))
  /\ held' = {}
  /\ Pop("pod")

-----------------------------------------------------------------------------
(* graph-k8s starts anew: caches and queues are gone, the graph is not.    *)
(* All that exists is handled again.                                       *)
Restart ==
  /\ Fault("restart")
  /\ cache' = {} /\ synced' = {} /\ registered' = FALSE
  /\ queue' = [kind \in Kinds |-> <<>>]
  /\ held' = {}
  /\ adrift' = Both(adrift, graph)
  /\ lost' = Nothing
  /\ UNCHANGED <<objects, api, graph, gone, changes, resyncs>>

(* Redis starts anew without its data, as it is deployed by default.       *)
RedisLoss ==
  /\ Fault("loss")
  /\ graph' = Nothing
  /\ adrift' = Nothing
  /\ lost' = Both(lost, graph)
  /\ UNCHANGED <<objects, api, cache, synced, registered, queue, held, gone, changes, resyncs>>

-----------------------------------------------------------------------------
Watcher == \/ \E kind \in KindsHere : Sync(kind)
           \/ \E k \in Keys : Observe(k)
           \/ RegisterPods
           \/ \E kind \in Kinds : HandleAdd(kind)
           \/ \E kind \in Kinds : HandleDelete(kind)
           \/ \E kind \in Kinds : HandleUpdate(kind)
           \/ ResolveOldPod
           \/ UpdatePod

Next == \/ \E o \in objects : ApiSet(o)
        \/ \E o \in objects : ApiDelete(o)
        \/ Watcher
        \/ \E kind \in Kinds : Resync(kind)
        \/ Restart
        \/ RedisLoss

Spec == Init /\ [][Next]_vars

(* Watches are resumed and lists retried for ever, and a handler only      *)
(* waits for the writer's mutex: as long as there is something to see or   *)
(* to handle, something is.  The API need not change.                      *)
FairSpec == Spec /\ WF_vars(Watcher)

-----------------------------------------------------------------------------
(* What the notices about an object start from that come after the n-th of *)
(* a queue: the old state of the first of them, or what the cache has.     *)
From(q, objs, k, n) ==
  LET later == {m \in DOMAIN q : m > n /\ k \in KeysOf(q[m])}
  IN  IF later = {} THEN At(objs, k) ELSE q[Min(later)].old

(* What the next handler about an object takes for its current state.      *)
View(k) == IF HasHandler(k[1]) THEN From(queue[k[1]], cache, k, 0) ELSE {}

Handled == UNION {View(k) : k \in Keys}

(* What does not depend on the cached ReplicaSets: all but a pod's owner.  *)
Fixed(o) == IF o.kind = "pod" THEN MapPod(o, {}) ELSE Desired(o, {})
Implied(objs) == UnionOf({Fixed(o) : o \in objs})

OwnerEdge(e) == e.kind \in {"MANAGES", "MANAGED_BY"} /\ "pod" \in {e.from[1], e.to[1]}
RegionEdge(e) == "region" \in {e.from[1], e.to[1]}

TypeOK ==
  /\ objects \in Worlds
  /\ api \subseteq objects /\ OneEach(api)
  /\ cache \subseteq objects /\ OneEach(cache)
  /\ synced \subseteq KindsHere
  /\ registered \in BOOLEAN
  /\ \A kind \in Kinds : \A i \in DOMAIN queue[kind] :
       LET notice == queue[kind][i]
       IN  /\ notice.old \cup notice.new \subseteq OfKind(objects, kind)
           /\ \E k \in Keys : KeysOf(notice) = {k}
           /\ OneEach(notice.old) /\ OneEach(notice.new)
  /\ Cardinality(held) <= 1
  /\ changes \in 0..MaxChanges /\ resyncs \in 0..MaxResyncs /\ faults \in 0..MaxFaults

(* Every object that was handled and not seen deleted has all its entities *)
(* and edges in the graph, whatever happened to the objects it shares      *)
(* entities with: a pod that leaves a node takes nothing with it           *)
(* (watcher.go 53-57).  What a dropped batch or Redis loses is missing     *)
(* until a handler writes it again.  Apart are the edges of regions, which *)
(* nodes share, and the owners of pods, which the cached ReplicaSets       *)
(* decide.                                                                 *)
NothingMissing ==
  LET d == Implied(Handled)
  IN  /\ d.entities \subseteq graph.entities \cup lost.entities
      /\ {e \in d.edges : ~RegionEdge(e) /\ ~OwnerEdge(e)} \subseteq graph.edges \cup lost.edges

(* The graph has no pod, no container and no edge that no handled object   *)
(* implies, merged events, resyncs and updates of every kind               *)
(* notwithstanding; owners apart, and what an earlier process or a dropped *)
(* batch left.                                                             *)
NothingStale ==
  LET d == Implied(Handled)
  IN  /\ {id \in graph.entities \ adrift.entities : Owned(id)} \subseteq d.entities
      /\ {e \in graph.edges \ adrift.edges : ~OwnerEdge(e)} \subseteq d.edges

(* Waiting for all caches before pods are handled makes owners reliable    *)
(* from the first event (watcher.go 239-242): a pod whose ReplicaSets have *)
(* been there unchanged all along has its owner, exactly the edges to and  *)
(* from that, and loses them when it is deleted.                           *)
PodEdges(es, k) == {e \in es : OwnerEdge(e) /\ k \in {e.from, e.to}}

Settled(k) == \A pod \in At(objects, k) : \A i \in DOMAIN pod.owners :
                pod.owners[i].kind = "replicaset" => pod.owners[i].name \notin gone

OwnersOfSettled ==
  \A k \in {key \in Keys : key[1] = "pod" /\ Settled(key)} :
    LET owners == PodEdges(UnionOf({Desired(o, OfKind(api, "replicaset")) : o \in View(k)}).edges, k)
    IN  /\ owners \subseteq graph.edges \cup lost.edges
        /\ {e.from : e \in owners} \subseteq graph.entities \cup lost.entities
        /\ PodEdges(graph.edges, k) \ adrift.edges \subseteq owners

(* What the next handler of a kind does to a graph.                        *)
Effect(kind, g) ==
  LET notice == Next1(kind)
      old == IF kind = "pod" /\ held # {} THEN UnionOf(held) ELSE DesiredNow(notice.old)
      new == DesiredNow(notice.new)
  IN  CASE notice.old = {} -> ApplyAdd(g, new)
        [] notice.new = {} -> ApplyDelete(g, old)
        [] OTHER           -> ApplyUpdate(g, old, new)

(* The handlers of different kinds run at the same time and write to one   *)
(* graph, with no lock but the writer's: whichever of two is first, the    *)
(* graph comes out the same.                                               *)
HandlersCommute ==
  \A k1, k2 \in {kind \in Kinds : queue[kind] # <<>>} :
    k1 # k2 => Effect(k1, Effect(k2, graph)) = Effect(k2, Effect(k1, graph))

(* When the API stops changing, the graph comes to have every entity of    *)
(* every object, and no pod or container of another, for good, but for     *)
(* what a fault lost or left and no handler has touched since.             *)
EventuallyCurrent ==
  <>[](LET d == Implied(api)
       IN  /\ {id \in d.entities : id[1] # "replicaset"} \subseteq graph.entities \cup lost.entities
           /\ {id \in graph.entities \ adrift.entities : Owned(id)} \subseteq d.entities)

-----------------------------------------------------------------------------
(* What the repository says, and the code does not do.                     *)

(* cmd/graph-k8s/README.md 7-8: graph-k8s creates and deletes these        *)
(* entities based on Kubernetes events; watcher.go 82-84: nodes,           *)
(* namespaces and deployments have their own DeleteFunc.  So the entity of *)
(* an object, if no other object implies it, is in the graph only while    *)
(* the object is there, as far as the handlers have seen.                  *)
DeletedIsGone ==
  \A k \in Keys \cap graph.entities :
    \/ View(k) # {}
    \/ \E o \in objects : KeyOf(o) # k /\ k \in Fixed(o).entities

(* README.md: nodes carrying the topology labels produce                   *)
(* region CONTAINS zone CONTAINS node.  So the region of a handled node    *)
(* contains the node's zone.                                               *)
RegionContainsZone == {e \in Implied(Handled).edges : RegionEdge(e)} \subseteq graph.edges

(* watcher.go 82-84: on a deletion, the edges that other entities hold to  *)
(* the deleted object are dropped.  So no workload manages a pod that was  *)
(* handled as deleted.                                                     *)
NoEdgeToDeletedPod ==
  \A e \in graph.edges : e.to[1] = "pod" => View(e.to) # {}
=============================================================================
