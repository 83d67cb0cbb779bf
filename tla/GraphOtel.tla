----------------------------- MODULE GraphOtel -----------------------------
(***************************************************************************)
(* The graph-otel binary: OTLP exports accumulate relationships in a       *)
(* mutex-guarded BatchWriteSet (internal/otlpreceiver/receiver.go), and a  *)
(* background flusher (cmd/graph-otel/main.go, runFlusher) expires what    *)
(* was not seen for TTL and writes the difference to the previous flush to *)
(* Redis (internal/graph/batchset_redis.go, WriteDeltaToRedis).            *)
(*                                                                         *)
(* The steps are cut where the code lets others in: the flusher reads the  *)
(* clock, then takes the lock; the snapshot is written after the unlock,   *)
(* in chunks of at least ChunkSize commands that Redis executes one by one *)
(* while exports go on.                                                    *)
(*                                                                         *)
(* When flushes happen (the initial delay, the ticker) is left open: the   *)
(* next one may begin at any time after the last has ended.                *)
(***************************************************************************)
EXTENDS BatchWriteSet, Sequences, FiniteSets

CONSTANTS TTL,         \* GRAPH_EXPIRY_TTL, in ticks of the clock
          ChunkSize,   \* commands per pipeline
          MaxTime,     \* bound: the clock stops here
          MaxFaults,   \* bound: how many faults happen
          FaultKinds   \* which: "fail", "replay", "restart", "loss", "delete"

ASSUME TimeAssumption == TTL \in Nat /\ MaxTime \in Nat /\ MaxFaults \in Nat
ASSUME ChunkAssumption == ChunkSize \in Nat \ {0}

VARIABLES
  now,       \* the clock
  set,       \* Server.set, the shared BatchWriteSet
  pc,        \* where the flusher is
  flushNow,  \* runFlusher's now: the clock when the latest flush began
  previous,  \* runFlusher's previous: what the last good flush wrote
  snap,      \* the copy being written
  todo,      \* what WriteDeltaToRedis has not yet put into a pipeline
  pipe,      \* the commands of the current pipeline
  sent,      \* how many of them Redis has executed
  db,        \* Redis
  observed,  \* history: when this process last saw each link
  adrift,    \* history: entities and edges on which a fault may have left
             \*   Redis different from previous
  wiped,     \* history: Redis lost data since the latest snapshot
  faults     \* how many faults have happened

vars == <<now, set, pc, flushNow, previous, snap, todo, pipe, sent, db,
          observed, adrift, wiped, faults>>

INSTANCE RedisStore WITH Id <- Emitter \cup Rel, Field <- {}, Value <- {}, NoValue <- Never

(* The loop of runFlusher: nothing flushed yet, the clock read, writing,   *)
(* and between flushes with the last one good or failed.                   *)
Between == {"delay", "flushed", "failed"}
PC == Between \cup {"began", "writing"}

(* Exports end early enough for everything to expire before MaxTime.       *)
LastExport == MaxTime - TTL - 1

(* Contents together and apart. *)
With(c, d)    == [entities |-> c.entities \cup d.entities, edges |-> c.edges \cup d.edges]
Without(c, d) == [entities |-> c.entities \ d.entities, edges |-> c.edges \ d.edges]

(* The four loops of WriteDeltaToRedis: what each one still has to visit.  *)
Work == [addEntities : SUBSET Rel, delEntities : SUBSET Rel,
         addEdges : SUBSET Edge, delEdges : SUBSET Edge]
NoWork == [addEntities |-> {}, delEntities |-> {}, addEdges |-> {}, delEdges |-> {}]

(* A planted error: what left the set is not compared.                     *)
DeltaAddsOnly(s, prev) == [addEntities |-> s.entities \ prev.entities,
                           delEntities |-> {},
                           addEdges    |-> s.edges \ prev.edges,
                           delEdges    |-> {}]

Delta(s, prev) == [addEntities |-> s.entities \ prev.entities,
                   delEntities |-> prev.entities \ s.entities,
                   addEdges    |-> s.edges \ prev.edges,
                   delEdges    |-> prev.edges \ s.edges]

(* All that is in one of the two and not in the other.                     *)
DeltaItems == With(Without(snap, previous), Without(previous, snap))

Init ==
  /\ now = 0
  /\ set = NewBatchWriteSet
  /\ pc = "delay"
  /\ flushNow = 0
  /\ previous = NoContents
  /\ snap = NoContents
  /\ todo = NoWork
  /\ pipe = <<>>
  /\ sent = 0
  /\ db = EmptyStore
  /\ observed = [l \in Link |-> Never]
  /\ adrift = NoContents
  /\ wiped = FALSE
  /\ faults = 0

-----------------------------------------------------------------------------
(* Ingest.  Deriving works on a request-local set without the lock; the    *)
(* merge and its time.Now() are one critical section.                      *)

Export(links) ==
  /\ now <= LastExport
  /\ set' = Merge(set, DeriveAll(links), now)
  /\ observed' = [l \in Link |-> IF l \in links THEN now ELSE observed[l]]
  /\ UNCHANGED <<now, pc, flushNow, previous, snap, todo, pipe, sent, db, adrift, wiped, faults>>

Tick ==
  /\ now < MaxTime
  /\ now' = now + 1
  /\ UNCHANGED <<set, pc, flushNow, previous, snap, todo, pipe, sent, db, observed, adrift,
                 wiped, faults>>

-----------------------------------------------------------------------------
(* The flusher.                                                            *)

BeginFlush ==
  /\ pc \in Between
  /\ pc' = "began"
  /\ flushNow' = now
  /\ UNCHANGED <<now, set, previous, snap, todo, pipe, sent, db, observed, adrift, wiped, faults>>

ExpireAndSnapshot ==
  /\ pc = "began"
  /\ pc' = "writing"
  /\ LET rest == Expire(set, flushNow - TTL)
         s    == Snapshot(rest)
     IN  /\ set' = rest
         /\ snap' = s
         /\ todo' = Delta(s, previous)
  /\ wiped' = FALSE
  /\ UNCHANGED <<now, flushNow, previous, pipe, sent, db, observed, adrift, faults>>

(* The pipeline is executed when it is full, and once more at the end.     *)
Executing == pc = "writing" /\ pipe # <<>> /\ (Len(pipe) >= ChunkSize \/ todo = NoWork)
Queueing  == pc = "writing" /\ ~Executing

Queue(cmds, rest) ==
  /\ Queueing
  /\ pipe' = pipe \o cmds
  /\ todo' = rest
  /\ UNCHANGED <<now, set, pc, flushNow, previous, snap, sent, db, observed, adrift, wiped, faults>>

AddEntityCommands(r) == <<HSet(r, flushNow), SAddKind(r), SAddId(r)>>

(* A planted error: the by_kind index is forgotten.                        *)
DelEntityCommandsNoKind(r) == <<Del(r), SRemId(r)>>

DelEntityCommands(r) == <<Del(r), SRemId(r), SRemKind(r)>>

(* Each loop visits its items in an order of Go's choice, and starts when  *)
(* the loop before it has ended.                                           *)
QueueAddEntity ==
  \E r \in todo.addEntities :
    Queue(AddEntityCommands(r), [todo EXCEPT !.addEntities = @ \ {r}])

QueueDelEntity ==
  \E r \in todo.delEntities :
    /\ todo.addEntities = {}
    /\ Queue(DelEntityCommands(r), [todo EXCEPT !.delEntities = @ \ {r}])

(* A planted error: the edges are written before the entities.             *)
QueueAddEdgeEarly ==
  \E e \in todo.addEdges :
    Queue(<<SAddEdge(e)>>, [todo EXCEPT !.addEdges = @ \ {e}])

QueueAddEdge ==
  \E e \in todo.addEdges :
    /\ todo.addEntities = {} /\ todo.delEntities = {}
    /\ Queue(<<SAddEdge(e)>>, [todo EXCEPT !.addEdges = @ \ {e}])

QueueDelEdge ==
  \E e \in todo.delEdges :
    /\ todo.addEntities = {} /\ todo.delEntities = {} /\ todo.addEdges = {}
    /\ Queue(<<SRemEdge(e)>>, [todo EXCEPT !.delEdges = @ \ {e}])

(* Redis executes the next command of the pipeline.                        *)
ExecCommand ==
  /\ Executing
  /\ sent < Len(pipe)
  /\ db' = Apply(db, pipe[sent + 1])
  /\ sent' = sent + 1
  /\ UNCHANGED <<now, set, pc, flushNow, previous, snap, todo, pipe, observed, adrift, wiped, faults>>

(* A planted error: the answers of the old pipeline are counted on.        *)
ExecReturnsKeepsCount ==
  /\ Executing
  /\ sent = Len(pipe)
  /\ pipe' = <<>>
  /\ UNCHANGED <<now, set, pc, flushNow, previous, snap, todo, sent, db, observed, adrift, wiped,
                 faults>>

(* Exec returns: a new, empty pipeline.                                    *)
ExecReturns ==
  /\ Executing
  /\ sent = Len(pipe)
  /\ pipe' = <<>>
  /\ sent' = 0
  /\ UNCHANGED <<now, set, pc, flushNow, previous, snap, todo, db, observed, adrift, wiped, faults>>

(* WriteDeltaToRedis returns without an error: previous = snap.            *)
FinishFlush ==
  /\ pc = "writing" /\ todo = NoWork /\ pipe = <<>>
  /\ pc' = "flushed"
  /\ previous' = snap
  /\ snap' = NoContents
  /\ adrift' = IF wiped THEN adrift ELSE Without(adrift, DeltaItems)
  /\ UNCHANGED <<now, set, flushNow, todo, pipe, sent, db, observed, wiped, faults>>

-----------------------------------------------------------------------------
(* What goes wrong.                                                        *)

Fault(kind) == kind \in FaultKinds /\ faults < MaxFaults /\ faults' = faults + 1

(* A planted error: the pipeline outlives the flush that failed.           *)
FailFlushKeepsPipe ==
  /\ Fault("fail")
  /\ Executing
  /\ pc' = "failed"
  /\ snap' = NoContents /\ todo' = NoWork /\ sent' = 0
  /\ adrift' = With(adrift, DeltaItems)
  /\ UNCHANGED <<now, set, flushNow, previous, pipe, db, observed, wiped>>

(* Exec reports an error (a lost connection, the 60 s context) after Redis *)
(* executed any number of the pipeline's commands.  The rest of the delta  *)
(* is not written and previous stays.                                      *)
FailFlush ==
  /\ Fault("fail")
  /\ Executing
  /\ pc' = "failed"
  /\ snap' = NoContents /\ todo' = NoWork /\ pipe' = <<>> /\ sent' = 0
  /\ adrift' = With(adrift, DeltaItems)
  /\ UNCHANGED <<now, set, flushNow, previous, db, observed, wiped>>

(* The client lost the connection before the answer and sends the whole    *)
(* pipeline again.                                                         *)
ReplayPipeline ==
  /\ Fault("replay")
  /\ Executing /\ sent > 0
  /\ sent' = 0
  /\ UNCHANGED <<now, set, pc, flushNow, previous, snap, todo, pipe, db, observed, adrift, wiped>>

(* The process restarts: everything in memory is gone, Redis is not.       *)
(* There is no flush on shutdown, so a shutdown is the same as a crash.    *)
Restart ==
  /\ Fault("restart")
  /\ set' = NewBatchWriteSet
  /\ pc' = "delay"
  /\ previous' = NoContents /\ snap' = NoContents
  /\ todo' = NoWork /\ pipe' = <<>> /\ sent' = 0
  /\ observed' = [l \in Link |-> Never]
  /\ adrift' = With(adrift, With(previous, snap))
  /\ UNCHANGED <<now, flushNow, db, wiped>>

(* Redis restarts without its data (persistence is off by default).        *)
RedisLoss ==
  /\ Fault("loss")
  /\ db' = EmptyStore
  /\ adrift' = With(adrift, With(previous, snap))
  /\ wiped' = TRUE
  /\ UNCHANGED <<now, set, pc, flushNow, previous, snap, todo, pipe, sent, observed>>

(* graph-k8s deletes a container, or pod: the set of its edges goes as a   *)
(* whole (RedisWriter.DeleteEntity), graph-otel's edges in it too.         *)
EmitterDeleted(c) ==
  /\ Fault("delete")
  /\ db' = Apply(db, Del(c))
  /\ adrift' = With(adrift, [entities |-> {},
                             edges |-> {e \in previous.edges \cup snap.edges : e.from = c}])
  /\ wiped' = TRUE
  /\ UNCHANGED <<now, set, pc, flushNow, previous, snap, todo, pipe, sent, observed>>

-----------------------------------------------------------------------------
Flusher == \/ BeginFlush
           \/ ExpireAndSnapshot
           \/ QueueAddEntity
           \/ QueueDelEntity
           \/ QueueAddEdge
           \/ QueueDelEdge
           \/ ExecCommand
           \/ ExecReturns
           \/ FinishFlush

Next == \/ \E links \in SUBSET Link \ {{}} : Export(links)
        \/ Tick
        \/ Flusher
        \/ FailFlush
        \/ ReplayPipeline
        \/ Restart
        \/ RedisLoss
        \/ \E c \in Emitter : EmitterDeleted(c)

Spec == Init /\ [][Next]_vars

(* The clock runs, the ticker of runFlusher fires again and again, and an  *)
(* Exec that is not answered ends with its 60 s context: the flusher never *)
(* stops for good.  Nobody has to export, and no fault has to happen.      *)
FairSpec == Spec /\ WF_vars(Tick) /\ WF_vars(Flusher)

-----------------------------------------------------------------------------
Commands == {HSet(r, t) : r \in Rel, t \in 0..MaxTime}
            \cup {SAddKind(r) : r \in Rel} \cup {SAddId(r) : r \in Rel}
            \cup {Del(r) : r \in Rel} \cup {SRemId(r) : r \in Rel} \cup {SRemKind(r) : r \in Rel}
            \cup {SAddEdge(e) : e \in Edge} \cup {SRemEdge(e) : e \in Edge}

Stamp == {Never} \cup 0..MaxTime

Store == [core : [Emitter \cup Rel -> Stamp], meta : [Emitter \cup Rel -> {NoMeta}],
          edges : SUBSET Edge, ids : SUBSET Rel, byKind : SUBSET Rel]

TypeOK ==
  /\ now \in 0..MaxTime
  /\ set \in [entities : [Rel -> Stamp], edges : [Edge -> Stamp]]
  /\ pc \in PC
  /\ flushNow \in 0..MaxTime
  /\ previous \in Contents
  /\ snap \in Contents
  /\ todo \in Work
  /\ pipe \in Seq(Commands)
  /\ sent \in 0..Len(pipe)
  /\ db \in Store
  /\ observed \in [Link -> Stamp]
  /\ adrift \in Contents
  /\ wiped \in BOOLEAN
  /\ faults \in 0..MaxFaults

-----------------------------------------------------------------------------
(* The entities and edges that the flush under way is about to change.     *)
InFlight == IF pc = "writing" THEN DeltaItems ELSE NoContents

(* Whatever is merged, expired and copied in whatever order, the set, the  *)
(* snapshot and the previous snapshot never hold an edge without its       *)
(* counterpart or without its relationship entity: Merge stamps the three  *)
(* alike and Expire drops them by the same cutoff (batchset.go 98-130).    *)
Closed(c) == \A l \in Link :
               /\ Forward(l) \in c.edges <=> Reverse(l) \in c.edges
               /\ Forward(l) \in c.edges => l.rel \in c.entities

RelationshipsAreWhole == Closed(Snapshot(set)) /\ Closed(snap) /\ Closed(previous)

(* At every moment, in the middle of a flush too, Redis holds exactly what *)
(* the last good flush wrote, apart from what the flush under way changes  *)
(* and what a fault has set adrift.  In particular the DEL of an expired   *)
(* entity takes no edge of a relationship that is still observed, a        *)
(* pipeline that is sent twice does no harm, and one good flush mends what *)
(* it writes (batchset_redis.go 91-150, cmd/graph-otel/main.go 146-161).   *)
MirrorsPrevious ==
  LET moving == With(adrift, InFlight)
  IN  /\ \A r \in Rel \ moving.entities :
           IF r \in previous.entities THEN Listed(db, r) ELSE Unlisted(db, r)
      /\ \A e \in Edge \ moving.edges : e \in db.edges <=> e \in previous.edges

(* A reader never follows an edge to a relationship entity that is not     *)
(* there, except while the flush that removes that entity runs, and except *)
(* where a fault has set the edge or the entity adrift: entities are added *)
(* before the edges that name them.                                        *)
NoDanglingEdge ==
  \A e \in db.edges \ adrift.edges :
    \/ RelOf(e) \in adrift.entities
    \/ Listed(db, RelOf(e))
    \/ pc = "writing" /\ RelOf(e) \in previous.entities \ snap.entities

(* After a good flush Redis shows a relationship only if it was observed   *)
(* within TTL of the moment the flush began, and shows every relationship  *)
(* observed in that window, even though the clock is read before the lock  *)
(* is taken and exports and ticks come in between (main.go 148-149).       *)
ShownIsFresh ==
  pc = "flushed" =>
    \A l \in Link : \A e \in {Forward(l), Reverse(l)} \ adrift.edges :
      /\ e \in db.edges => observed[l] >= flushNow - TTL
      /\ observed[l] \in (flushNow - TTL)..(flushNow - 1) \ {Never} => e \in db.edges

(* No command of a flush ever undoes what is already as its snapshot has   *)
(* it, hash, index or edge: also when an earlier flush failed half-way,    *)
(* when the pipeline is sent again, when Redis lost what previous has, and *)
(* although DEL takes all edges of the entity with it.  So a flush that is *)
(* cut short anywhere has left Redis nearer to its snapshot, or as it was  *)
(* (batchset_redis.go 47-150, main.go 151-160).                            *)
Kept(wanted, before, after) == (before <=> wanted) => (after <=> wanted)

TowardsSnapshot ==
  [][sent' > sent =>
       /\ \A r \in Rel :
            /\ Kept(r \in snap.entities, Exists(db, r), Exists(db', r))
            /\ Kept(r \in snap.entities, r \in db.byKind, r \in db'.byKind)
            /\ Kept(r \in snap.entities, r \in db.ids, r \in db'.ids)
       /\ \A e \in Edge : Kept(e \in snap.edges, e \in db.edges, e \in db'.edges)]_vars

(* Once nothing is observed any more, every relationship leaves Redis for  *)
(* good, failed and repeated flushes notwithstanding, except what a fault  *)
(* set adrift.                                                             *)
EventuallyForgotten ==
  <>[]( /\ db.edges \subseteq adrift.edges
        /\ \A r \in Rel : ~Unlisted(db, r) => r \in adrift.entities)

-----------------------------------------------------------------------------
(* What the repository says, and a fault refutes.                          *)

(* cmd/graph-otel/main.go 156: after a failed flush the whole delta is     *)
(* retried next cycle; cmd/graph-otel/README.md: expiring a relationship   *)
(* removes its entity.  So after a good flush Redis has only what that     *)
(* flush's snapshot has.                                                   *)
ExpiredIsGone ==
  pc = "flushed" => \A r \in Rel : Exists(db, r) => r \in previous.entities

(* helm/graph/values.yaml: the graph is fully rebuilt from OTel metrics    *)
(* after a restart of Redis.  So a good flush begun after the loss leaves  *)
(* all that is being observed in Redis.                                    *)
RebuiltAfterLoss ==
  pc = "flushed" /\ ~wiped => \A r \in previous.entities : Exists(db, r)
=============================================================================
