# A specification of otel-k8s-graph

otel-k8s-graph keeps a live graph of a Kubernetes cluster in Redis. One binary
writes the structure it sees in the Kubernetes API, one writes the
relationships it derives from OTel span metrics, and one reads. This directory
specifies the two writers and the reader in TLA+, checks them with TLC and
proves with TLAPS, for every value of the constants, every invariant that the
passing runs check, an action property and two refinements; liveness is checked
by TLC alone. Paths below are
relative to `src/`.

## The system

| Part | State | Operations | Interacts with |
|------|-------|------------|----------------|
| Redis schema, `internal/graph/keys.go` | per entity a core hash, a metadata hash and a set of outgoing edges; `by_kind` and `ids` indexes | HSET, SADD, SREM, DEL, one at a time | all three binaries; nothing else is shared |
| graph-otel receiver, `internal/otlpreceiver` | `Server.set`, a `BatchWriteSet` under a mutex | `Export` (concurrent gRPC calls), `ExpireAndSnapshot` | the builder derives into a request-local set without the lock; the flusher takes snapshots |
| `BatchWriteSet`, `internal/graph/batchset*.go` | entities and edges with last-seen times | Upsert, AddEdges, Merge, Expire, Snapshot, WriteDeltaToRedis | receiver, flusher |
| builder, `internal/builder` | none | `Derive`: an emitter and the endpoints, topics, databases it touches; templatizing | called per datapoint |
| graph-otel flusher, `cmd/graph-otel/main.go` | `previous`, what the last good flush wrote | flush after a delay and at every interval | receiver, Redis |
| `RedisWriter`, `internal/graph/rediswriter.go` | one pipeline and the count of its commands, under a mutex | UpsertEntity, DeleteEntity, AddEdge, RemoveEdge, tick flush, Close | called by all handlers of graph-k8s; executes with the mutex held |
| mapping, `internal/k8swatch/mapper.go`, `dynamic.go` | none | object to entities and edges | called by the handlers |
| watcher, `internal/k8swatch/watcher.go` | client-go's caches and queues | add, update and delete handlers per kind, owner of a pod through the cached ReplicaSets | API server, `RedisWriter` |
| graph reader, `internal/graph/redis.go` | none | Get, ListByKind, Search, Subgraph; Prune, which writes | Redis, while the writers write |
| HTTP API, `internal/api`, and MCP server, `internal/mcp` | none | argument checks, JSON, forwarding | reader, HTTP |
| Helm chart, `helm/graph` | none | how many of each run, Redis without persistence | |

What is hard in it:

* **graph-otel**: exports go on while a snapshot is written; a delta is written
  command by command and may stop anywhere; the next delta is relative to
  `previous`, which lives in memory and may not be what Redis holds.
* **RedisWriter**: several goroutines fill and execute one pipeline, the loop
  and Close race, Exec may fail or be repeated.
* **watcher**: informers of different kinds are independent of each other, see
  the API late and merge changes; handlers write differences, never the state;
  several objects imply the same entity or edge.
* **receiver and builder**: all datapoints of a request share one map; the two
  sides of a call describe it by different attributes and must name one endpoint.
* **reader**: no reader or writer uses a transaction, every command may fail and
  most failures are silent; prune writes what the writers write, and knows of an
  entity only the time of its addition.

What makes each part correct: after a flush Redis shows exactly the
relationships seen within the TTL, at every moment it is a half-way state of
one delta, and nothing unobserved stays (graph-otel); Redis lags behind the
calls by the buffer and by nothing else, and Close drains it (`RedisWriter`);
the graph has what the handled objects imply, no more and no less, and it
catches up with the API (watcher); each datapoint yields what it would yield
alone, callers and callees meet, and numbers stay out of ids (builder); an answer
has all that was there throughout and nothing that was not there at some time,
and prune takes what it dropped and nothing else (reader).

## Modules

`RedisStore` holds the schema and what Redis does with one command. A store is
a record of the core hashes, the metadata hashes, the edges and the two indexes;
`Apply(d, c)` is one command. A pipeline is no transaction, so the command is
the unit everywhere.

`BatchWriteSet` is the accumulator, as operators. A *link* is one relationship
of a span-metric record: emitter, relationship entity, label. `DeriveAll` is the
request-local set, `Merge`, `Expire` and `Snapshot` are the methods.

`GraphOtel` composes the two into the process. Correspondence of state: `set` is
`Server.set`, `previous`, `snap` and `flushNow` are the variables of
`runFlusher` and its closure, `todo` is what the four loops of
`WriteDeltaToRedis` have not visited, `pipe` is the pipeline with `sent` of its
commands executed. Actions: `Export` (the merge under the lock), `BeginFlush`
(`time.Now()` before the lock), `ExpireAndSnapshot` (under the lock, with the
difference to `previous`), `QueueAddEntity`, `QueueDelEntity`, `QueueAddEdge`,
`QueueDelEdge` (one iteration of a loop, in any order Go chooses),
`ExecCommand`, `ExecReturns`, `FinishFlush`; `FailFlush`, `ReplayPipeline`,
`Restart`, `RedisLoss` and `EmitterDeleted` are the faults; the last is graph-k8s
deleting a container, which takes graph-otel's forward edges with it. `observed`,
`adrift` and `wiped` are history: when a link was last seen, and on what a fault
may have left Redis different from `previous`.

`RedisWriter` is the buffered writer. `pipe`, `n`, `mu` are its fields, `ticker`
and `closer` the goroutine of `Run` and the caller of `Close`. `Add` is a call
up to its inline flush, `Exec*` runs with the mutex held. `want` is history: the
store had every accepted call been applied at once. The loop is at its select,
takes a tick (`TickFires`), waits in `Flush` for the mutex and then executes
(`TickFlush`); it sees the stop channel at its select only (`TickerStops`). `Close`
closes that channel and waits without the mutex, `CloseFlush` is its own flush.
`LateWriter` is its abstract
specification: a log from which commands reach the store in order, which may be
given up as a whole, or sent again if that ends in the same store. The log is
mapped to the part of the pipeline that is not executed. `EntityWriter` is the
other: the interface the watcher calls, four calls each of which changes the graph
as a whole. It is mapped to what the store shows (`Shown`): the entities that are
there by all their keys, and the edges.

`Builder` is the derivation as pure operators. Text is taken apart as far as the
rules look into it: a path is a sequence of segments, a URL a form and a path, a
span name words and paths. Digits, placeholders and percent escapes are sets of
segments and a function on them. `Receiver` is `deriveAll`: a walk over one
request, a datapoint per step, with the shared map `buf`, `TemplatizeAttrs` in
place, and the request-local set. What `GraphOtel` exports is its outcome.

`K8sMapper` turns objects into entities and edges, one operator per map
function, and resolves the owner of a pod.

`K8sWatcher` is the watcher over an external model of the API server and
client-go: `api`, one `cache` of which the kinds sync separately, one `queue` of
notifications per kind. `Sync` is the initial list, `Observe` a watch event or a
relist, `Resync` the periodic re-delivery, `RegisterPods` the late registration
of the pod handler with its replay. `HandleAdd`, `HandleUpdate` and
`HandleDelete` run a handler; `ResolveOldPod` and `UpdatePod` are the two halves
of a pod's update, which asks for the owner twice. A handler's writes are one
step because handlers of different kinds write different edges and only pod
handlers delete entities, their own: `HandlersCommute` checks it, with `Effect`
what the next handler of a kind does to a graph, and `CallsCommute` proves it call
by call. `graph` is the `want` of `RedisWriter`,
except that in `Write` the batch a handler's writes were in may fail: Redis then
has none of them, or those about entities and not those about edges. A batch with
the calls of several handlers is several such faults. The other faults are `Restart` and `RedisLoss`. `adrift` is history: what an earlier
process or a dropped batch left in the graph with nobody to remove it; `lost` is
what a fault took and no handler has written again. `View` is what the next
handler about an object takes for its current state, and `Handled` all of those.
`WorldAssumption` says that objects are of the kinds watched, finitely many, and
that the owner references of a pod or a ReplicaSet are a list.

`GraphRead` is one request to graph-read: the handler's checks (`Request`), then
the reader one Redis command at a time. `call` holds the locals of the Go
functions, `found` being what the answer shows. `ReadRoot`, `ReadEdges`,
`ReadMeta` are Get; with `ReadSize`, `Visit` and `Follow` they are Subgraph; with
`ReadIds` and `ReadCore`, ListByKind and Search; `ReadTime` to `Count` are Prune.
Every action that reads or writes takes the outcome of its command, `err`, and
does on an error what the code does. The writers are external: whole operations
of `RedisWriter` and the flusher, command by command, on any of the ids and edges
given. `seen` is history: what was there all the time and at some time since the
request came in, what was added, and `alone`, the store as it would be without
the request.

`GraphPruned` composes `GraphOtel` with the reader of `GraphRead`, by INSTANCE
over the same `db`, for one prune request.

The `MC` modules give the instances. `GraphOtelProofs`, `ReceiverProofs`,
`RedisWriterProofs`, `K8sWatcherProofs`, `GraphReadProofs` and
`GraphReadFindsProofs` have the theorems; `RedisStoreProofs` has the lemmas on
commands and pipelines that they share, and `Induction` those on recursive
functions. Operators commented
as *planted errors* are wrong versions of the definition that follows them; they
are used by no specification and exist to see that the properties notice them.

## Runs

| Run | What it asks | Result |
|-----|--------------|--------|
| `otel_faults` | type; whole relationships; Redis mirrors `previous`; no dangling edge; what is shown is fresh; no command of a flush undoes what is right (`TowardsSnapshot`) | holds, 3.1 million states |
| `otel_live` | everything unobserved leaves Redis, but for what faults set adrift | holds, 317 thousand states |
| `otel_expired` | no entity outlives its expiry (`ExpiredIsGone`) | violated |
| `otel_rebuilt` | a good flush after a loss of Redis restores what is observed (`RebuiltAfterLoss`) | violated |
| `receiver` | each datapoint derives as if alone; caller and callee get one id; numbers reach no id | holds, 74 thousand states |
| `writer` | lag is the buffer; the buffer is bounded; it implements `LateWriter` and, command by command, `EntityWriter` (`ShowsWholeCalls`); Close drains, and returns although the loop may be waiting for the mutex; calls reach Redis | holds, 348 thousand states |
| `watcher` | nothing missing, nothing stale, owners exact, handlers of different kinds commute, the graph catches up, but for what a fault took or left | holds, 535 thousand states |
| `watcher_deleted` | a deleted object's entity goes, unless another object implies it (`DeletedIsGone`) | violated |
| `watcher_region` | regions contain the zones of their nodes (`RegionContainsZone`) | violated |
| `watcher_owner` | no workload manages a deleted pod (`NoEdgeToDeletedPod`) | violated |
| `reader` | Subgraph, lists and searches miss nothing that stays and invent nothing; prune spares the rest and leaves nothing of what it dropped; every request is answered | holds, 964 thousand states |
| `pruned_observed` | prune drops only what was not seen within `older_than` (`DroppedWasUnseen`) | violated |

The six violations are what the code does against what the repository says:

* **A failed flush can leave an entity for ever.** A flush writes an entity and
  fails; the entity expires before the next one. It is neither in the new
  snapshot nor in `previous`, so no delta deletes it
  (`cmd/graph-otel/main.go` 156: "the whole delta is retried").
* **A lost Redis is not rebuilt by graph-otel.** `previous` is not reset, so only
  what was new since then is written, for as long as the process runs.
* **Nodes, namespaces, workloads and autoscalers are never deleted.** Their
  DeleteFunc is `applyDelete`, which deletes pods and containers only.
* **A region loses a zone when one node of it leaves.** The region–zone edges
  are implied by every node of the zone and removed by the first that goes.
* **A deleted pod stays managed.** When a deployment is deleted its ReplicaSet
  may leave the cache before its pods are handled; then the owner is not found,
  and its edge to the pod not removed.
* **Prune drops what is observed all the time.** `last_seen_at_ms` is written
  only by the delta that adds an entity, so to prune an entity is as old as its
  addition, and graph-otel, which has it in `previous`, does not add it again
  (`cmd/graph-read/README.md` 22: "Drop entities not seen for `<dur>`").

Other limits of the code are written into properties rather than runs:

* A pod handled before its ReplicaSet is cached never gets its owner edge,
  because old and new state resolve alike in every later update:
  `OwnersOfSettled` speaks of pods whose ReplicaSets were there all along.
* A dropped batch or a loss of Redis is mended by a resync for entities but not
  for edges, since an update writes the difference of two states that are alike;
  `cmd/graph-k8s/README.md` 32-33 says the graph heals itself. `NothingMissing`,
  `OwnersOfSettled` and `EventuallyCurrent` leave out `lost`.
* After a restart of graph-k8s what disappeared meanwhile stays: `NothingStale`
  and `EventuallyCurrent` leave out `adrift`.
* When graph-k8s deletes a container, graph-otel's edges from it go and are not
  written again while graph-otel sees them: `MirrorsPrevious` leaves them out.
* A read that failed looks like an entity that is gone: Get answers 404, lists
  and searches leave it out. When Subgraph cannot read the size it returns the
  root alone, and when Prune cannot read a kind the entity stays in its
  `by_kind` set. The properties of the reader that promise completeness leave
  out requests with a failed command; those that promise soundness do not.
* Templatizing a URL that has percent escapes twice is not the same as once,
  although its comment says it is idempotent: parsing unescapes, and a malformed
  outcome is then refused. `NumbersCollapse` speaks of templatizing once, as the
  receiver does.

### Bounds

* `otel_faults`: two links of two emitters to one endpoint, so that an entity
  outlives one of its edges; TTL 1 and a clock of 5 values, so that a link
  can be seen, expire and be seen again while a flush is under way; pipelines of
  4 commands, so that one delta takes several; two faults of five kinds, so that
  one can happen while another is being mended. `otel_live` has two links apart, one
  fault and a clock of 4 values. Exports end at `LastExport`, early enough for
  everything to expire.
* `writer`: two handlers, the loop and Close; a batch of 5, so that two calls may
  or may not fill it; 3 calls, so that one can come during and one after Close;
  one fault. `Handler` has only to be larger than one, since handlers differ in
  nothing but who holds the mutex.
* `watcher`: five worlds of three object states each, about one dependence each:
  a deployment's pod that gets scheduled; a pod that comes again under its name
  elsewhere; two nodes in one zone with changing labels; a KEDA object with the
  autoscaler it owns; a job with its cron job and its pod. Three API changes,
  one resync and one fault: a restart, a dropped batch or a loss of Redis.
  Initially any part of the world exists.
* `receiver`: requests of two resources with two datapoints and one, every triple
  of 21 datapoints, which between them take each branch of each rule: both kinds
  of span, every form of URL and name, escapes good and bad, messages, queries, no
  attributes; and requests with an incomplete resource, an empty metric or a
  metric without datapoints. Two datapoints in a row are enough for one to leave
  something in the map, the third to meet it from elsewhere.
* `reader`: each request alone over the writers. A store of three entities, with
  two ways from the root to the last and one way back, and two operations of the
  writers; the full store of three and one operation for every kind of read; a store
  of six entities, in which a depth-first search would go wrong at depth 3;
  requests with arguments out of range. Any command may fail at any time.
* `pruned_observed`: one link; a TTL of 1 below an `older_than` of 2, no faults.

`writer`, `receiver`, `reader` and the `watcher` runs do not check for deadlock: a
closed writer, a request that was answered, and a watcher with nothing to see and
no change left within the bound, do stop.

### Fairness

* `GraphOtel`: weak fairness of the clock and of the flusher as a whole. The
  ticker fires again and again, and every Exec ends by its 60 s context. Exports
  and faults are not fair.
* `RedisWriter`: weak fairness of Exec (it ends by its 30 s context) and of the
  ticks. Strong fairness of the flushes of the loop and of Close, which wait for a
  mutex that handlers take again and again: Go's passes it on to who has waited
  for a millisecond. And of the end of the loop: its select may find a tick
  beside the closed channel, but not choose it for ever. Nobody need call or close.
* `K8sWatcher`: weak fairness of the disjunction of all steps of informers and
  handlers. Reflectors retry for ever and handlers wait for the writer only.
* `GraphRead`: weak fairness of the reader. Each of its commands ends with an
  answer or with the request's context. The writers need not go on.

## Proofs

`GraphOtelProofs` proves for every set of links, TTL, chunk size, clock and
number and kind of faults, from the assumptions on the constants alone
(`LinkAssumption`, `IdAssumption`, `TimeAssumption`, `ChunkAssumption`):

* `TypeCorrect`: `Spec => []TypeOK`. `ApplyType` shows that a command keeps the
  store well typed; one step per action.
* `WholeCorrect`: `Spec => []RelationshipsAreWhole`. The property alone is not
  inductive: the *times* of an edge, its counterpart and its entity must agree
  (an entity may be newer than one edge), which Merge keeps because it stamps
  the three together and Expire respects because it uses one cutoff.
* `MirrorCorrect`: `Spec => []MirrorsPrevious`. The inductive invariant
  `FlushInv` says in the midst of a flush that what is *pending* (in the pipeline
  or still in `todo`) is part of the delta, that everything in the delta that is
  not pending has been written, and that everything outside the delta and not
  adrift agrees with `previous`. It needs that DEL of an expired entity takes
  no edge that stays, which is where `WholeCorrect` comes in: an edge of the
  snapshot has its entity in the snapshot. `AfterCommand`, `DeltaCases` and
  `ClosedEdge` are the lemmas on one command and on the delta.

* `FreshCorrect`: `Spec => []ShownIsFresh`. `TimesInv` says that the last-seen
  times of `set` are those of `observed`, or the link expired; `FreshInv` that what
  is in the snapshot was observed no earlier than the cutoff of the clock that was
  read before the lock, and what was observed in the window is in it. With
  `MirrorsPrevious` the same holds of Redis when the flush is over.
* `NoDanglingCorrect`: `Spec => []NoDanglingEdge`. The strengthening is
  `EntitiesFirst`: in the pipeline no command that adds an entity comes after one
  that adds an edge, nor is an entity still to be queued after it. So whenever an
  edge is added, `MirrorsPrevious` has its entities in Redis, repeated pipelines
  included.
* `TowardsCorrect`: `Spec => TowardsSnapshot`, an action property, from the same
  invariants: what is executed is a command of the current delta (`OnlyDelta` in
  `FlushInv`), whatever an earlier flush left; one that adds names what the
  snapshot has, one that removes what it has not (`DeltaNames`), and the edges a
  DEL takes are none of the snapshot's (`ExecEffect`). Nothing is left out for
  `adrift` here: it holds of stores that faults have left in any state.

`ReceiverProofs`, for every request, any attributes and paths of any length
(`RequestAssumption`, which says what a request is and that `Link` has what its
datapoints may give, `TemplateAssumption`, `EscapeAssumption`: a number and the
template have no percent sign, and `AttrAssumption`):

* `EachAloneCorrect`: `Spec => []DerivesEachAlone`. `WalkInv` says where the walk
  can be; with it each step of the walk adds exactly one datapoint to those that
  are done, or none. `ReadIntoIs`: what the shared map holds after a datapoint does
  not depend on what it held before.
* `TypeCorrect`, and `OutcomeCorrect`, which joins the module to `GraphOtel`: at
  every moment the request-local set is `DeriveAll(links)` for some set of links.
* `MeetCorrect`: `Spec => []CallerMeetsCallee`, for paths that have numbers where
  the route has placeholders and are otherwise like it and without escapes. By `FittingURL` the path that is
  taken out of a templatized URL normalizes to what the route does, in each form
  of URL and although a URL is unescaped twice on this way.
* `CollapseCorrect`: `Spec => []NumbersCollapse`. `DatapointShape` gives the links
  that can come of a datapoint: their actions and endpoints have no numbers, and
  two paths without numbers that differ by numbers only are the same.

`RedisWriterProofs`, for every batch size, set of handlers, number of calls and
faults (`BatchAssumption`, `HandlerAssumption` and what `RedisStore` assumes):

* `BoundedCorrect`: `Spec => []BufferBounded`, and `CloseDrains`: a writer that
  was closed, and not called since its last flush, has an empty buffer. Both from
  `BufferInv`: the literal every call adds is the number of its commands
  (`CallsCount`), whoever finds the mutex free finds room, and the mutex is the
  closer's exactly while it flushes.
* `TypeCorrect`, `LagCorrect`, `DrainedCorrect`: `Spec` implies `[]TypeOK`,
  `[]LagIsTheBuffer` and `[]ClosedIsDrained`. A repeated pipeline starts over on
  a store that has part of it already; so `LagInv` adds that Redis is *some* store
  with the executed part of the pipeline applied, and `Idempotent` that to apply a
  pipeline again changes nothing: a command either leaves a part of a store alone
  or sets it, whatever it was (`CommandsKeepOrSet`). `ApplyConcat` splits a
  pipeline. All three are proved for pipelines of any length.
* `LateCorrect`: `Spec => ImplementsLateWriter`, the refinement. Every action of
  the writer is one of `LateWriter` on the part of the pipeline that is not
  executed, or changes nothing there.
* `CallsCorrect` and `WholeCallsCorrect`, `Spec => ShowsWholeCalls`, the refinement
  of `EntityWriter`. A call is up to four commands, of which at most one changes
  what is shown: the one that completes an upsert, or the DEL of a deletion. For
  that the other commands of a deletion must find the entity no longer there.
  `OrderInv` says so: in the pipeline they come directly after its DEL
  (`KeysFirst`), and once they are reached the entity does not exist. Pipelines
  that are sent again keep it, and so does a batch dropped half-way.
  `CommandShown` is the step.

`GraphReadProofs` and `GraphReadFindsProofs`, for every
store, request, writers and bound on them (`CaseAssumption`, `WrittenAssumption`
and the assumptions on ids and edges):

* `PruneSparesCorrect`: `Spec => []PruneSpares`. `PruneInv` adds to it that stores
  stay stores and that what Prune has in hand, commands and edges to strip, is
  about nothing but what it dropped: an action of a writer changes the store and
  the store without prune alike, and one of prune only what it has in hand.
* `TypeCorrect`: `Spec => []TypeOK`, with the shape of the locals in each phase of
  each request (`ReadInv`).
* `ListFindsCorrect` and `SearchFindsCorrect`. `GatherInv`: what was there all the
  time, if it belongs in the answer, is in it or still to be read, since the index
  that was read first had it. For the page of a search, an entity left out of a
  sorted prefix has as many smaller ones as the prefix is long.
* `SubgraphInventsNothingCorrect`. `Real`: all that was visited at depth n is
  reached within n hops by what was there at some time.
* `SubgraphFindsCorrect`. `Depths`: the queue rises in depth and spans two
  depths, so that the first visit of an entity is along a shortest path; `Thorough`:
  of an entity whose edges have been followed, every steady neighbour has been
  visited, at most one deeper; when the queue is empty, `Ended` gives by induction
  over hops that everything within the depth was found. `Within` is a recursive
  function, and its values are proved to be what its equation says.
* `PruneLeavesNothingCorrect`. `GoneInv` follows a dropped entity that no writer
  wrote again: each key that names it is gone, or its deletion is among the
  commands to come (`Goes`), and an edge to it from a survivor is gone, or the
  survivor is still to be read, or the edge is among those in hand (`Stripped`).
  The writers' part is that their operations begin with DEL if they have one
  (`NoDel`), so that none that is half done when prune looks deletes what it added.

`K8sWatcherProofs`, for any objects and any number of changes, resyncs and faults
(`WorldAssumption`, `BoundAssumption`): `TypeCorrect`, `MissingCorrect`,
`StaleCorrect` and `OwnersCorrect`, that is `Spec => []TypeOK`, `[]NothingMissing`,
`[]NothingStale` and `[]OwnersOfSettled`. None is inductive, and they need one
another; `IInv` has three parts:

* `QueueInv`, the promise of the informers: the old state of a notice about an
  object is where the one before it about that object ended, and the last ends with
  the cache (`Chained`). So taking one off the queue moves `View` of its object from
  the old state to the new, and of no other object; and what has not synced, or
  has no handler yet, has nothing queued (`Waiting`). `FromAppend` and `FromTail`
  are the lemmas on queues, `AddedIs` and `AgainIs` those on lists and resyncs.
* `SteadyInv`: once pods are handled the cache has every ReplicaSet that never
  changed. `held` is what the old state implied with some such cache, since the
  ReplicaSets may change before the update is written.
* `GraphInv`: `NothingMissing`, `NothingStale` and `OwnersInv`, which is
  `OwnersOfSettled` put so that a change in the API does not disturb it.

A handler is then a write about one object (`HandlesIs`), and the lemmas on the
mapping say why it disturbs no other: a pod or container, and an edge that is not
a region's, is implied by one object only (`IdKey`, `EdgeKey`), whichever handler
writes it, and whatever ReplicaSets are cached (`DesiredFaithful`, `FixedPart`). This
is what lets the handlers of different kinds run concurrently. `SameOwner`: two
caches with the same steady ReplicaSets give a settled pod the same owner.

`CommuteCorrect` is `Spec => []HandlersCommute`, and `CallsCommute` the reason for
it, which also justifies that a handler's writes are one step of the model: any
call of a handler commutes with any of a handler of another kind, whatever the
objects, the ReplicaSets each has found and the graph. The objects of two kinds
imply no edge in common (only nodes, of one kind, share one, a region's), and no
entity that one of them deletes is written by the other (`DesiredApart`).

The proofs changed the model where it was wrong. `AfterDrop` of `GraphRead`, and `EmitterFor`
and `TopicLinks` of `Builder`, were CASE expressions of which two guards could
hold, so that they stood for more than the code does; TLC takes the first. And what a pod
implies apart from its owner was its Desired with no ReplicaSet cached, which for a
pod with several owner references may still have an owner, another one than
`ownerForPod` finds with the ReplicaSets: a pod is now taken without owner (`Fixed`).

So every invariant and action property that the passing runs check is a theorem,
and so are both refinements. What stays with TLC
is liveness (`EventuallyForgotten`, `EventuallyWritten`, `CloseReturns`,
`EventuallyCurrent`, `RequestReturns`), since the provers cannot reason about
fairness and ENABLED. Facts about recursive functions are proved from the least
number principle (`Induction`), which the library's well-founded induction gives
for sets.

## What is left out

* Metadata of entities: the builder never sets any, so `BatchWriteSet` has none;
  `K8sMapper` leaves it out; `RedisStore`, `RedisWriter` and `GraphRead` have it,
  including that HSET never removes a field. `SetMetadata` and `UpsertWithEdges`
  have no caller.
* When flushes happen: the delay, interval and the 60 s limit are not related to
  the TTL. Commands that Redis executes after the client has given up on them.
* Of text what no rule looks at. In paths and URLs also escaped slashes and
  question marks, and span names with spaces in their paths; the spelling of span
  kinds. In `GraphRead` whether an entity matches a search is given by its id, a
  metadata value or an action.
* One process per binary and one request at a time. A rolling update of
  graph-otel runs two for a while.
* Of the query API JSON, a search without text and `/healthz`, which keeps no
  state. The MCP server is a client of the API without state; environment parsing
  and the construction of clients happen before anything modelled.

## Plan

Done, in this order: `RedisStore`, `BatchWriteSet`, `GraphOtel`, `RedisWriter`,
`K8sMapper`, `K8sWatcher`, `LateWriter`, `Builder`, `Receiver`, `GraphRead`,
`GraphPruned`, and the proofs above. What is left:

1. A second graph-otel over the same Redis, as during a rolling update, and
   commands of an abandoned pipeline that run late: both make a second writer of
   what `MirrorsPrevious` says.
2. Proofs: that graph-otel with a prune beside it (`GraphPruned`) loses nothing
   else than what prune dropped.
