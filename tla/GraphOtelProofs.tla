-------------------------- MODULE GraphOtelProofs --------------------------
(***************************************************************************)
(* Theorems about GraphOtel, for any emitters, relationships, links, TTL,  *)
(* chunk size, bounds and kinds of fault.                                  *)
(***************************************************************************)
EXTENDS GraphOtel, TLAPS, SequenceTheorems

LEMMA LinkFacts ==
  ASSUME NEW l \in Link
  PROVE  /\ l.emitter \in Emitter /\ l.rel \in Rel
         /\ Forward(l) \in Edge /\ Reverse(l) \in Edge
         /\ Forward(l).from = l.emitter /\ Reverse(l).from = l.rel
         /\ RelOf(Forward(l)) = l.rel /\ RelOf(Reverse(l)) = l.rel
<1>1. l.emitter \in Emitter /\ l.rel \in Rel
  BY LinkAssumption
<1>2. Forward(l) \in Edge /\ Reverse(l) \in Edge
  BY DEF Edge
<1>3. Forward(l).from = l.emitter /\ Reverse(l).from = l.rel
  BY DEF Forward, Reverse
<1>4. RelOf(Forward(l)) = l.rel /\ RelOf(Reverse(l)) = l.rel
  BY <1>1, IdAssumption DEF Forward, Reverse, RelOf
<1> QED BY <1>1, <1>2, <1>3, <1>4

LEMMA EdgeFacts ==
  ASSUME NEW e \in Edge
  PROVE  /\ RelOf(e) \in Rel /\ e.from \in Emitter \cup Rel
         /\ \E l \in Link : e \in {Forward(l), Reverse(l)}
<1>1. PICK l \in Link : e = Forward(l) \/ e = Reverse(l)
  BY DEF Edge
<1> QED BY <1>1, LinkFacts

(* What each command does to the store.                                    *)
LEMMA HSetEffect ==
  ASSUME NEW d, NEW i, NEW t
  PROVE  Apply(d, HSet(i, t)) = [d EXCEPT !.core = [@ EXCEPT ![i] = t]]
BY DEF Apply, HSet

LEMMA SAddKindEffect ==
  ASSUME NEW d, NEW i PROVE Apply(d, SAddKind(i)) = [d EXCEPT !.byKind = @ \cup {i}]
BY DEF Apply, SAddKind

LEMMA SAddIdEffect ==
  ASSUME NEW d, NEW i PROVE Apply(d, SAddId(i)) = [d EXCEPT !.ids = @ \cup {i}]
BY DEF Apply, SAddId

LEMMA DelEffect ==
  ASSUME NEW d, NEW i
  PROVE  Apply(d, Del(i)) = [d EXCEPT !.core = [@ EXCEPT ![i] = Absent],
                                      !.meta = [@ EXCEPT ![i] = NoMeta],
                                      !.edges = {e \in @ : e.from # i}]
BY DEF Apply, Del

LEMMA SRemIdEffect ==
  ASSUME NEW d, NEW i PROVE Apply(d, SRemId(i)) = [d EXCEPT !.ids = @ \ {i}]
BY DEF Apply, SRemId

LEMMA SRemKindEffect ==
  ASSUME NEW d, NEW i PROVE Apply(d, SRemKind(i)) = [d EXCEPT !.byKind = @ \ {i}]
BY DEF Apply, SRemKind

LEMMA SAddEdgeEffect ==
  ASSUME NEW d, NEW e PROVE Apply(d, SAddEdge(e)) = [d EXCEPT !.edges = @ \cup {e}]
BY DEF Apply, SAddEdge

LEMMA SRemEdgeEffect ==
  ASSUME NEW d, NEW e PROVE Apply(d, SRemEdge(e)) = [d EXCEPT !.edges = @ \ {e}]
BY DEF Apply, SRemEdge

(* Every command is one of eight.                                          *)
LEMMA CommandCases ==
  ASSUME NEW c \in Commands
  PROVE  \/ \E r \in Rel, t \in 0..MaxTime : c = HSet(r, t)
         \/ \E r \in Rel : \/ c = SAddKind(r) \/ c = SAddId(r) \/ c = Del(r)
                           \/ c = SRemId(r) \/ c = SRemKind(r)
         \/ \E e \in Edge : c = SAddEdge(e) \/ c = SRemEdge(e)
BY DEF Commands

(* A container or pod has no core hash from graph-otel, only edges.        *)
LEMMA EmitterDelEffect ==
  ASSUME NEW d \in Store, NEW x \in Emitter
  PROVE  /\ Apply(d, Del(x)) \in Store
         /\ \A r \in Rel : /\ Exists(Apply(d, Del(x)), r) <=> Exists(d, r)
                           /\ r \in Apply(d, Del(x)).ids <=> r \in d.ids
                           /\ r \in Apply(d, Del(x)).byKind <=> r \in d.byKind
         /\ \A e : e \in Apply(d, Del(x)).edges <=> e \in d.edges /\ e.from # x
<1> DEFINE edges == {e \in d.edges : e.from # x}
           core  == [d.core EXCEPT ![x] = Absent]
           meta  == [d.meta EXCEPT ![x] = NoMeta]
<1>1. Apply(d, Del(x)) = [d EXCEPT !.core = core, !.meta = meta, !.edges = edges]
  BY ZenonT(30) DEF Del, Apply
<1>2. /\ \A e : e \in edges <=> e \in d.edges /\ e.from # x
      /\ edges \subseteq Edge
  BY DEF Store
<1>3. core \in [Emitter \cup Rel -> Stamp] /\ meta \in [Emitter \cup Rel -> {NoMeta}]
  BY DEF Store, Stamp, Never, Absent
<1>4. \A r \in Rel : core[r] = d.core[r]
  BY IdAssumption DEF Store
<1> HIDE DEF core, meta, edges
<1> QED BY <1>1, <1>2, <1>3, <1>4 DEF Store, Exists

(* Every command keeps the shape of the store.                             *)
LEMMA ApplyType == ASSUME NEW d \in Store, NEW c \in Commands PROVE Apply(d, c) \in Store
<1>1. CASE \E r \in Rel, t \in 0..MaxTime : c = HSet(r, t)
  <2>1. PICK r \in Rel, t \in 0..MaxTime : c = HSet(r, t)
    BY <1>1
  <2>2. Apply(d, c) = [d EXCEPT !.core = [@ EXCEPT ![r] = t]]
    BY <2>1, HSetEffect
  <2> QED BY <2>2 DEF Store, Stamp
<1>2. ASSUME NEW r \in Rel, c \in {SAddKind(r), SAddId(r), SRemId(r), SRemKind(r)}
      PROVE  Apply(d, c) \in Store
  <2>1. CASE c = SAddKind(r)
    <3>1. Apply(d, c) = [d EXCEPT !.byKind = @ \cup {r}]
      BY <2>1, SAddKindEffect
    <3> QED BY <3>1 DEF Store
  <2>2. CASE c = SAddId(r)
    <3>1. Apply(d, c) = [d EXCEPT !.ids = @ \cup {r}]
      BY <2>2, SAddIdEffect
    <3> QED BY <3>1 DEF Store
  <2>3. CASE c = SRemId(r)
    <3>1. Apply(d, c) = [d EXCEPT !.ids = @ \ {r}]
      BY <2>3, SRemIdEffect
    <3> QED BY <3>1 DEF Store
  <2>4. CASE c = SRemKind(r)
    <3>1. Apply(d, c) = [d EXCEPT !.byKind = @ \ {r}]
      BY <2>4, SRemKindEffect
    <3> QED BY <3>1 DEF Store
  <2> QED BY <1>2, <2>1, <2>2, <2>3, <2>4
<1>3. ASSUME NEW r \in Rel, c = Del(r) PROVE Apply(d, c) \in Store
  <2> DEFINE edges == {e \in d.edges : e.from # r}
             core  == [d.core EXCEPT ![r] = Absent]
             meta  == [d.meta EXCEPT ![r] = NoMeta]
  <2>1. Apply(d, c) = [d EXCEPT !.core = core, !.meta = meta, !.edges = edges]
    BY <1>3, ZenonT(30) DEF Del, Apply
  <2>2. core \in [Emitter \cup Rel -> Stamp]
    BY DEF Store, Stamp, Absent, Never
  <2>3. meta \in [Emitter \cup Rel -> {NoMeta}]
    BY DEF Store
  <2>4. edges \subseteq Edge
    BY DEF Store
  <2> HIDE DEF core, meta, edges
  <2> QED BY <2>1, <2>2, <2>3, <2>4 DEF Store
<1>4. ASSUME NEW e \in Edge, c = SAddEdge(e) \/ c = SRemEdge(e) PROVE Apply(d, c) \in Store
  <2>1. Apply(d, c) \in {[d EXCEPT !.edges = @ \cup {e}], [d EXCEPT !.edges = @ \ {e}]}
    BY <1>4, SAddEdgeEffect, SRemEdgeEffect
  <2> QED BY <2>1 DEF Store
<1> QED BY <1>1, <1>2, <1>3, <1>4, CommandCases

-----------------------------------------------------------------------------
SetType == [entities : [Rel -> Stamp], edges : [Edge -> Stamp]]

LEMMA DeriveAllType == ASSUME NEW links \in SUBSET Link PROVE DeriveAll(links) \in Contents
BY LinkFacts DEF DeriveAll, Contents

LEMMA MergeType ==
  ASSUME NEW s \in SetType, NEW local, NEW at \in Stamp
  PROVE  Merge(s, local, at) \in SetType
BY DEF Merge, SetType

LEMMA ExpireType ==
  ASSUME NEW s \in SetType, NEW cutoff \in Int
  PROVE  Expire(s, cutoff) \in SetType
BY DEF Expire, SetType, Stamp

LEMMA SnapshotType == ASSUME NEW s PROVE Snapshot(s) \in Contents
BY DEF Snapshot, Contents

LEMMA DeltaType ==
  ASSUME NEW s \in Contents, NEW prev \in Contents
  PROVE  Delta(s, prev) \in Work
BY DEF Delta, Contents, Work

LEMMA EmptyTypes ==
  /\ NewBatchWriteSet \in SetType
  /\ NoContents \in Contents
  /\ NoWork \in Work
  /\ EmptyStore \in Store
BY DEF NewBatchWriteSet, SetType, Stamp, NoContents, Contents, NoWork, Work,
       EmptyStore, Store, Absent, Never

(* What each loop of WriteDeltaToRedis queues.                             *)
LEMMA AddEntityType ==
  ASSUME NEW r \in Rel, flushNow \in 0..MaxTime
  PROVE  AddEntityCommands(r) \in Seq(Commands)
BY DEF AddEntityCommands, Commands

LEMMA DelEntityType == ASSUME NEW r \in Rel PROVE DelEntityCommands(r) \in Seq(Commands)
BY DEF DelEntityCommands, Commands

LEMMA EdgeCommandType ==
  ASSUME NEW e \in Edge
  PROVE  <<SAddEdge(e)>> \in Seq(Commands) /\ <<SRemEdge(e)>> \in Seq(Commands)
BY DEF Commands

LEMMA TypeInit == Init => TypeOK
<1> SUFFICES ASSUME Init PROVE TypeOK
  OBVIOUS
<1>1. set \in SetType /\ previous \in Contents /\ snap \in Contents /\ todo \in Work /\ db \in Store
  BY EmptyTypes DEF Init
<1>2. pipe \in Seq(Commands) /\ sent \in 0..Len(pipe)
  BY DEF Init
<1>3. now \in 0..MaxTime /\ flushNow \in 0..MaxTime /\ faults \in 0..MaxFaults
  BY TimeAssumption DEF Init
<1> QED BY <1>1, <1>2, <1>3 DEF Init, TypeOK, SetType, PC, Between, Stamp

LEMMA TypeQueue ==
  ASSUME TypeOK, NEW cmds \in Seq(Commands), NEW rest \in Work, Queue(cmds, rest)
  PROVE  TypeOK'
<1>1. pipe \o cmds \in Seq(Commands) /\ Len(pipe \o cmds) = Len(pipe) + Len(cmds)
  BY DEF TypeOK
<1>2. sent \in 0..Len(pipe \o cmds)
  BY <1>1 DEF TypeOK
<1> QED BY <1>1, <1>2 DEF Queue, TypeOK

LEMMA TypeNext == TypeOK /\ [Next]_vars => TypeOK'
<1> SUFFICES ASSUME TypeOK, [Next]_vars PROVE TypeOK'
  OBVIOUS
<1> USE TimeAssumption
<1>1. ASSUME NEW links \in SUBSET Link, Export(links) PROVE TypeOK'
  <2>1. now \in Stamp /\ set \in SetType
    BY DEF TypeOK, Stamp, SetType
  <2>2. set' \in SetType
    BY <1>1, <2>1, MergeType DEF Export
  <2>3. observed' \in [Link -> Stamp]
    BY <1>1, <2>1 DEF Export, TypeOK
  <2> QED BY <1>1, <2>2, <2>3 DEF Export, TypeOK, SetType
<1>2. CASE Tick
  BY <1>2 DEF Tick, TypeOK
<1>3. CASE BeginFlush
  BY <1>3 DEF BeginFlush, TypeOK, PC
<1>4. CASE ExpireAndSnapshot
  <2>1. set \in SetType /\ flushNow - TTL \in Int
    BY DEF TypeOK, SetType
  <2>2. set' \in SetType
    BY <1>4, <2>1, ExpireType DEF ExpireAndSnapshot
  <2>3. snap' \in Contents
    BY <1>4, SnapshotType DEF ExpireAndSnapshot
  <2>4. todo' = Delta(snap', previous)
    BY <1>4 DEF ExpireAndSnapshot
  <2>5. todo' \in Work
    BY <2>3, <2>4, DeltaType DEF TypeOK
  <2> QED BY <1>4, <2>2, <2>3, <2>5 DEF ExpireAndSnapshot, TypeOK, SetType, PC
<1>5. CASE QueueAddEntity
  <2>1. PICK r \in todo.addEntities :
          Queue(AddEntityCommands(r), [todo EXCEPT !.addEntities = @ \ {r}])
    BY <1>5 DEF QueueAddEntity
  <2>2. r \in Rel /\ [todo EXCEPT !.addEntities = @ \ {r}] \in Work
    BY DEF TypeOK, Work
  <2>3. AddEntityCommands(r) \in Seq(Commands)
    BY <2>2, AddEntityType DEF TypeOK
  <2> QED BY <2>1, <2>2, <2>3, TypeQueue
<1>6. CASE QueueDelEntity
  <2>1. PICK r \in todo.delEntities :
          Queue(DelEntityCommands(r), [todo EXCEPT !.delEntities = @ \ {r}])
    BY <1>6 DEF QueueDelEntity
  <2>2. r \in Rel /\ [todo EXCEPT !.delEntities = @ \ {r}] \in Work
    BY DEF TypeOK, Work
  <2> QED BY <2>1, <2>2, DelEntityType, TypeQueue
<1>7. CASE QueueAddEdge
  <2>1. PICK e \in todo.addEdges :
          Queue(<<SAddEdge(e)>>, [todo EXCEPT !.addEdges = @ \ {e}])
    BY <1>7 DEF QueueAddEdge
  <2>2. e \in Edge /\ [todo EXCEPT !.addEdges = @ \ {e}] \in Work
    BY DEF TypeOK, Work
  <2> QED BY <2>1, <2>2, EdgeCommandType, TypeQueue
<1>8. CASE QueueDelEdge
  <2>1. PICK e \in todo.delEdges :
          Queue(<<SRemEdge(e)>>, [todo EXCEPT !.delEdges = @ \ {e}])
    BY <1>8 DEF QueueDelEdge
  <2>2. e \in Edge /\ [todo EXCEPT !.delEdges = @ \ {e}] \in Work
    BY DEF TypeOK, Work
  <2> QED BY <2>1, <2>2, EdgeCommandType, TypeQueue
<1>9. CASE ExecCommand
  <2>1. pipe[sent + 1] \in Commands
    BY <1>9, ElementOfSeq DEF ExecCommand, TypeOK
  <2>2. db' \in Store
    BY <1>9, <2>1, ApplyType DEF ExecCommand, TypeOK
  <2> QED BY <1>9, <2>2 DEF ExecCommand, TypeOK
<1>10. CASE ExecReturns
  BY <1>10 DEF ExecReturns, TypeOK
<1>11. CASE FinishFlush
  BY <1>11, EmptyTypes DEF FinishFlush, TypeOK, PC, Between, Without, Contents
<1>12. With(adrift, DeltaItems) \in Contents /\ With(adrift, With(previous, snap)) \in Contents
  BY DEF TypeOK, DeltaItems, With, Without, Contents
<1>13. CASE FailFlush
  BY <1>12, <1>13, EmptyTypes DEF FailFlush, Fault, TypeOK, PC, Between
<1>14. CASE ReplayPipeline
  BY <1>14 DEF ReplayPipeline, Fault, TypeOK
<1>15. CASE Restart
  <2>1. set' \in SetType /\ observed' \in [Link -> Stamp]
    BY <1>15, EmptyTypes DEF Restart, Stamp
  <2> QED BY <1>12, <1>15, <2>1, EmptyTypes DEF Restart, Fault, TypeOK, PC, Between, SetType
<1>16. CASE RedisLoss
  BY <1>12, <1>16, EmptyTypes DEF RedisLoss, Fault, TypeOK
<1>17. CASE \E c \in Emitter : EmitterDeleted(c)
  <2>1. PICK c \in Emitter : EmitterDeleted(c)
    BY <1>17
  <2>2. db' \in Store
    BY <2>1, EmitterDelEffect DEF EmitterDeleted, TypeOK
  <2>3. adrift' \in Contents
    BY <2>1 DEF EmitterDeleted, TypeOK, With, Contents
  <2> QED BY <1>12, <2>1, <2>2, <2>3 DEF EmitterDeleted, Fault, TypeOK
<1>18. CASE UNCHANGED vars
  BY <1>18 DEF vars, TypeOK
<1> QED BY <1>1, <1>2, <1>3, <1>4, <1>5, <1>6, <1>7, <1>8, <1>9, <1>10, <1>11, <1>13, <1>14,
           <1>15, <1>16, <1>17, <1>18 DEF Next, Flusher

(* The variables of graph-otel and what Redis holds keep their types.      *)
THEOREM TypeCorrect == Spec => []TypeOK
BY TypeInit, TypeNext, PTL DEF Spec

-----------------------------------------------------------------------------
(* Relationships are whole: the set carries the three entries of a link    *)
(* with times that Expire cannot tell apart in the wrong order.            *)
SetWhole ==
  /\ \A l \in Link : /\ set.edges[Forward(l)] = set.edges[Reverse(l)]
                     /\ set.edges[Forward(l)] <= set.entities[l.rel]
  /\ \A e \in Edge : set.edges[e] <= now

WholeInv == SetWhole /\ Closed(snap) /\ Closed(previous)

LEMMA WholeSnapshot ==
  ASSUME NEW s \in SetType,
         \A l \in Link : /\ s.edges[Forward(l)] = s.edges[Reverse(l)]
                         /\ s.edges[Forward(l)] <= s.entities[l.rel]
  PROVE  Closed(Snapshot(s))
BY LinkFacts DEF Closed, Snapshot, SetType, Stamp, Never

LEMMA DeriveAllClosed ==
  ASSUME NEW links \in SUBSET Link PROVE Closed(DeriveAll(links))
<1> DEFINE c == DeriveAll(links)
<1> SUFFICES ASSUME NEW l \in Link
             PROVE  /\ Forward(l) \in c.edges <=> Reverse(l) \in c.edges
                    /\ Forward(l) \in c.edges => l.rel \in c.entities
  BY DEF Closed
<1>1. ASSUME NEW k \in Link, Forward(l) = Forward(k) \/ Reverse(l) = Reverse(k)
      PROVE  Forward(l) = Forward(k) /\ Reverse(l) = Reverse(k) /\ l.rel = k.rel
  BY <1>1 DEF Forward, Reverse
<1>2. ASSUME NEW k \in Link PROVE Forward(l) # Reverse(k) /\ Reverse(l) # Forward(k)
  BY LinkFacts, IdAssumption
<1>3. ASSUME Forward(l) \in c.edges PROVE Reverse(l) \in c.edges /\ l.rel \in c.entities
  BY <1>1, <1>2, <1>3 DEF DeriveAll
<1>4. ASSUME Reverse(l) \in c.edges PROVE Forward(l) \in c.edges
  BY <1>1, <1>2, <1>4 DEF DeriveAll
<1> QED BY <1>3, <1>4

LEMMA EmptyWhole ==
  /\ Closed(NoContents)
  /\ \A l \in Link : /\ NewBatchWriteSet.edges[Forward(l)] = NewBatchWriteSet.edges[Reverse(l)]
                     /\ NewBatchWriteSet.edges[Forward(l)] <= NewBatchWriteSet.entities[l.rel]
  /\ \A e \in Edge : \A t \in 0..MaxTime : NewBatchWriteSet.edges[e] <= t
<1>1. Closed(NoContents)
  BY DEF Closed, NoContents
<1>2. NewBatchWriteSet.entities = [r \in Rel |-> Never] /\ NewBatchWriteSet.edges = [e \in Edge |-> Never]
  BY DEF NewBatchWriteSet
<1> QED BY <1>1, <1>2, LinkFacts, TimeAssumption DEF Never

LEMMA WholeInit == Init => WholeInv
BY EmptyWhole, TimeAssumption DEF Init, WholeInv, SetWhole

LEMMA WholeNext == TypeOK /\ WholeInv /\ [Next]_vars => WholeInv'
<1> SUFFICES ASSUME TypeOK, WholeInv, [Next]_vars PROVE WholeInv'
  OBVIOUS
<1>1. ASSUME NEW links \in SUBSET Link, Export(links) PROVE WholeInv'
  <2> DEFINE local == DeriveAll(links)
  <2>1. Closed(local)
    BY DeriveAllClosed
  <2>2. set' = Merge(set, local, now)
    BY <1>1 DEF Export
  <2> HIDE DEF local
  <2>3. ASSUME NEW e \in Edge
        PROVE  set'.edges[e] = (IF e \in local.edges THEN now ELSE set.edges[e])
    BY <2>2 DEF Merge
  <2>4. ASSUME NEW r \in Rel
        PROVE  set'.entities[r] = (IF r \in local.entities THEN now ELSE set.entities[r])
    BY <2>2 DEF Merge
  <2>5. now \in 0..MaxTime /\ \A e \in Edge : set.edges[e] \in Stamp
    BY DEF TypeOK
  <2>6. \A e \in Edge : set'.edges[e] <= now
    BY <2>3, <2>5 DEF WholeInv, SetWhole, Stamp
  <2>7. ASSUME NEW l \in Link
        PROVE  /\ set'.edges[Forward(l)] = set'.edges[Reverse(l)]
               /\ set'.edges[Forward(l)] <= set'.entities[l.rel]
    <3>1. /\ set'.edges[Forward(l)] = IF Forward(l) \in local.edges THEN now ELSE set.edges[Forward(l)]
          /\ set'.edges[Reverse(l)] = IF Reverse(l) \in local.edges THEN now ELSE set.edges[Reverse(l)]
          /\ set'.entities[l.rel] = IF l.rel \in local.entities THEN now ELSE set.entities[l.rel]
      BY <2>3, <2>4, LinkFacts
    <3>2. /\ Forward(l) \in local.edges <=> Reverse(l) \in local.edges
          /\ Forward(l) \in local.edges => l.rel \in local.entities
      BY <2>1 DEF Closed
    <3>3. /\ set.edges[Forward(l)] = set.edges[Reverse(l)]
          /\ set.edges[Forward(l)] <= set.entities[l.rel]
          /\ set.edges[Forward(l)] <= now
      BY LinkFacts DEF WholeInv, SetWhole
    <3> QED BY <2>5, <3>1, <3>2, <3>3
  <2> QED BY <1>1, <2>6, <2>7 DEF Export, WholeInv, SetWhole
<1>2. CASE Tick
  BY <1>2 DEF Tick, WholeInv, SetWhole, TypeOK, Stamp, Never
<1>3. CASE ExpireAndSnapshot
  <2> DEFINE cutoff == flushNow - TTL
  <2>1. set \in SetType /\ cutoff \in Int
    BY TimeAssumption DEF TypeOK, SetType
  <2>2. set' = Expire(set, cutoff) /\ snap' = Snapshot(set')
    BY <1>3 DEF ExpireAndSnapshot
  <2>3. set' \in SetType
    BY <2>1, <2>2, ExpireType
  <2> HIDE DEF cutoff
  <2>4. ASSUME NEW e \in Edge
        PROVE  set'.edges[e] = (IF set.edges[e] < cutoff THEN Never ELSE set.edges[e])
    BY <2>2 DEF Expire, Stale
  <2>5. ASSUME NEW r \in Rel
        PROVE  set'.entities[r] = (IF set.entities[r] < cutoff THEN Never ELSE set.entities[r])
    BY <2>2 DEF Expire, Stale
  <2>6. ASSUME NEW l \in Link
        PROVE  /\ set'.edges[Forward(l)] = set'.edges[Reverse(l)]
               /\ set'.edges[Forward(l)] <= set'.entities[l.rel]
    <3>1. /\ set.edges[Forward(l)] = set.edges[Reverse(l)]
          /\ set.edges[Forward(l)] <= set.entities[l.rel]
          /\ set.edges[Forward(l)] \in Stamp /\ set.entities[l.rel] \in Stamp
      BY <2>1, LinkFacts DEF WholeInv, SetWhole, SetType
    <3> QED BY <2>1, <2>4, <2>5, <3>1, LinkFacts DEF Stamp, Never
  <2>7. \A e \in Edge : set'.edges[e] <= now
    BY <2>1, <2>4 DEF WholeInv, SetWhole, SetType, Stamp, Never, TypeOK
  <2>8. Closed(snap')
    BY <2>2, <2>3, <2>6, WholeSnapshot
  <2> QED BY <1>3, <2>6, <2>7, <2>8 DEF ExpireAndSnapshot, WholeInv, SetWhole
<1>4. CASE FinishFlush
  BY <1>4, EmptyWhole DEF FinishFlush, WholeInv, SetWhole
<1>5. CASE FailFlush
  BY <1>5, EmptyWhole DEF FailFlush, WholeInv, SetWhole
<1>6. CASE Restart
  BY <1>6, EmptyWhole DEF Restart, WholeInv, SetWhole, TypeOK
<1>7. ASSUME UNCHANGED <<now, set, snap, previous>> PROVE WholeInv'
  BY <1>7 DEF WholeInv, SetWhole, Closed
<1>8. CASE BeginFlush \/ ExecCommand \/ ExecReturns \/ ReplayPipeline \/ RedisLoss
             \/ (\E c \in Emitter : EmitterDeleted(c)) \/ UNCHANGED vars
  BY <1>7, <1>8 DEF BeginFlush, ExecCommand, ExecReturns, ReplayPipeline, RedisLoss,
     EmitterDeleted, vars
<1>9. CASE QueueAddEntity \/ QueueDelEntity \/ QueueAddEdge \/ QueueDelEdge
  BY <1>7, <1>9 DEF QueueAddEntity, QueueDelEntity, QueueAddEdge, QueueDelEdge, Queue
<1> QED BY <1>1, <1>2, <1>3, <1>4, <1>5, <1>6, <1>8, <1>9 DEF Next, Flusher

(* No interleaving of exports, expiry and flushes, with or without faults, *)
(* leaves half a relationship in the set or in what is written.            *)
THEOREM WholeCorrect == Spec => []RelationshipsAreWhole
<1>1. TypeOK /\ WholeInv => RelationshipsAreWhole
  BY WholeSnapshot DEF WholeInv, SetWhole, RelationshipsAreWhole, TypeOK, SetType
<1>2. Init => TypeOK /\ WholeInv
  BY TypeInit, WholeInit
<1>3. TypeOK /\ WholeInv /\ [Next]_vars => (TypeOK /\ WholeInv)'
  BY TypeNext, WholeNext
<1> QED BY <1>1, <1>2, <1>3, PTL DEF Spec

-----------------------------------------------------------------------------
(* The flush under way.  Pending commands are those of the current         *)
(* pipeline that Redis has not executed.                                   *)
Pending(c) == \E i \in (sent + 1)..Len(pipe) : pipe[i] = c

AddedEntities   == snap.entities \ previous.entities
RemovedEntities == previous.entities \ snap.entities
AddedEdges      == snap.edges \ previous.edges
RemovedEdges    == previous.edges \ snap.edges

LEMMA DeltaParts ==
  /\ DeltaItems.entities = AddedEntities \cup RemovedEntities
  /\ DeltaItems.edges = AddedEdges \cup RemovedEdges
BY DEF DeltaItems, With, Without, AddedEntities, RemovedEntities, AddedEdges, RemovedEdges

DeltaCommands ==
  {HSet(r, flushNow) : r \in AddedEntities} \cup {SAddKind(r) : r \in AddedEntities}
  \cup {SAddId(r) : r \in AddedEntities}
  \cup {Del(r) : r \in RemovedEntities} \cup {SRemId(r) : r \in RemovedEntities}
  \cup {SRemKind(r) : r \in RemovedEntities}
  \cup {SAddEdge(e) : e \in AddedEdges} \cup {SRemEdge(e) : e \in RemovedEdges}

(* Nothing but the delta is queued.                                        *)
OnlyDelta ==
  /\ todo.addEntities \subseteq AddedEntities /\ todo.delEntities \subseteq RemovedEntities
  /\ todo.addEdges \subseteq AddedEdges /\ todo.delEdges \subseteq RemovedEdges
  /\ \A i \in 1..Len(pipe) : pipe[i] \in DeltaCommands

(* Every command of the delta is still to be queued, is pending, or has    *)
(* taken effect for good.                                                  *)
EntityAdds(r) == r \notin todo.addEntities =>
  /\ Exists(db, r) \/ Pending(HSet(r, flushNow))
  /\ r \in db.byKind \/ Pending(SAddKind(r))
  /\ r \in db.ids \/ Pending(SAddId(r))

EntityDels(r) == r \notin todo.delEntities =>
  /\ ~Exists(db, r) \/ Pending(Del(r))
  /\ r \notin db.ids \/ Pending(SRemId(r))
  /\ r \notin db.byKind \/ Pending(SRemKind(r))

EdgeAdds(e) == e \notin todo.addEdges => e \in db.edges \/ Pending(SAddEdge(e))

EdgeDels(e) == e \notin todo.delEdges => e \notin db.edges \/ Pending(SRemEdge(e))

(* What Redis may have lost in the midst of this flush.                    *)
Exempt == IF wiped THEN adrift ELSE NoContents

Progress == /\ \A r \in AddedEntities \ Exempt.entities : EntityAdds(r)
            /\ \A r \in RemovedEntities \ Exempt.entities : EntityDels(r)
            /\ \A e \in AddedEdges \ Exempt.edges : EdgeAdds(e)
            /\ \A e \in RemovedEdges \ Exempt.edges : EdgeDels(e)

WritingInv ==
  IF pc = "writing"
  THEN OnlyDelta /\ Progress
  ELSE snap = NoContents /\ todo = NoWork /\ pipe = <<>> /\ sent = 0

FlushInv == MirrorsPrevious /\ WritingInv

LEMMA FlushInit == Init => FlushInv
<1> SUFFICES ASSUME Init PROVE FlushInv
  OBVIOUS
<1>1. \A r \in Rel : Unlisted(db, r)
  BY DEF Init, EmptyStore, Unlisted, Exists, Absent
<1>2. db.edges = {} /\ previous = NoContents /\ pc = "delay"
  BY DEF Init, EmptyStore
<1>3. MirrorsPrevious
  BY <1>1, <1>2 DEF MirrorsPrevious, NoContents
<1> QED BY <1>3 DEF Init, FlushInv, WritingInv

(* A step that leaves the flusher, Redis and adrift alone.                 *)
LEMMA FlushFrame ==
  ASSUME FlushInv,
         UNCHANGED <<pc, flushNow, previous, snap, todo, pipe, sent, db, adrift, wiped>>
  PROVE  FlushInv'
<1>1. MirrorsPrevious'
  BY DEF FlushInv, MirrorsPrevious, InFlight, DeltaItems
<1>2. OnlyDelta <=> OnlyDelta'
  BY DEF OnlyDelta, DeltaCommands, AddedEntities, RemovedEntities, AddedEdges, RemovedEdges
<1>3. \A c : Pending(c) <=> Pending(c)'
  BY DEF Pending
<1>4. Progress <=> Progress'
  BY <1>3 DEF Progress, EntityAdds, EntityDels, EdgeAdds, EdgeDels, Exempt,
     AddedEntities, RemovedEntities, AddedEdges, RemovedEdges
<1> QED BY <1>1, <1>2, <1>4 DEF FlushInv, WritingInv

LEMMA QueuePending ==
  ASSUME TypeOK, NEW cmds \in Seq(Commands), NEW rest, Queue(cmds, rest)
  PROVE  /\ \A c : Pending(c) => Pending(c)'
         /\ \A j \in 1..Len(cmds) : Pending(cmds[j])'
         /\ \A i \in 1..Len(pipe') : \/ \E k \in 1..Len(pipe) : pipe'[i] = pipe[k]
                                     \/ \E j \in 1..Len(cmds) : pipe'[i] = cmds[j]
<1>1. /\ pipe' = pipe \o cmds /\ sent' = sent
      /\ pipe \in Seq(Commands) /\ sent \in 0..Len(pipe)
      /\ Len(pipe) \in Nat /\ Len(cmds) \in Nat
  BY DEF Queue, TypeOK
<1>2. Len(pipe') = Len(pipe) + Len(cmds)
  BY <1>1
<1>3. \A i \in 1..Len(pipe) : pipe'[i] = pipe[i]
  BY <1>1
<1>4. \A j \in 1..Len(cmds) : pipe'[Len(pipe) + j] = cmds[j]
  BY <1>1
<1>5. ASSUME NEW c, Pending(c) PROVE Pending(c)'
  BY <1>1, <1>2, <1>3, <1>5 DEF Pending
<1>6. ASSUME NEW j \in 1..Len(cmds) PROVE Pending(cmds[j])'
  <2>1. Len(pipe) + j \in (sent' + 1)..Len(pipe')
    BY <1>1, <1>2
  <2> QED BY <2>1, <1>4 DEF Pending
<1>7. ASSUME NEW i \in 1..Len(pipe')
      PROVE  \/ \E k \in 1..Len(pipe) : pipe'[i] = pipe[k]
             \/ \E j \in 1..Len(cmds) : pipe'[i] = cmds[j]
  <2>1. CASE i <= Len(pipe)
    BY <1>1, <1>3, <2>1
  <2>2. CASE i > Len(pipe)
    <3>1. i - Len(pipe) \in 1..Len(cmds) /\ i = Len(pipe) + (i - Len(pipe))
      BY <1>1, <1>2, <2>2
    <3> QED BY <3>1, <1>4
  <2> QED BY <1>1, <2>1, <2>2
<1> QED BY <1>5, <1>6, <1>7

Has(cmds, c) == \E j \in 1..Len(cmds) : cmds[j] = c

(* An iteration of a loop of WriteDeltaToRedis: it takes items from its    *)
(* work and queues the commands of each item it takes.                     *)
LEMMA QueueFlush ==
  ASSUME TypeOK, FlushInv,
         NEW cmds \in Seq(Commands), NEW rest \in Work, Queue(cmds, rest),
         \A j \in 1..Len(cmds) : cmds[j] \in DeltaCommands,
         rest.addEntities \subseteq todo.addEntities,
         rest.delEntities \subseteq todo.delEntities,
         rest.addEdges \subseteq todo.addEdges,
         rest.delEdges \subseteq todo.delEdges,
         \A r \in todo.addEntities \ rest.addEntities :
           Has(cmds, HSet(r, flushNow)) /\ Has(cmds, SAddKind(r)) /\ Has(cmds, SAddId(r)),
         \A r \in todo.delEntities \ rest.delEntities :
           Has(cmds, Del(r)) /\ Has(cmds, SRemId(r)) /\ Has(cmds, SRemKind(r)),
         \A e \in todo.addEdges \ rest.addEdges : Has(cmds, SAddEdge(e)),
         \A e \in todo.delEdges \ rest.delEdges : Has(cmds, SRemEdge(e))
  PROVE  FlushInv'
<1>1. /\ pc = "writing" /\ pc' = "writing" /\ todo' = rest
      /\ UNCHANGED <<flushNow, previous, snap, db, adrift, wiped>>
  BY DEF Queue, Queueing
<1>2. MirrorsPrevious'
  BY <1>1 DEF FlushInv, MirrorsPrevious, InFlight, DeltaItems
<1>3. DeltaCommands' = DeltaCommands /\ AddedEntities' = AddedEntities
      /\ RemovedEntities' = RemovedEntities /\ AddedEdges' = AddedEdges
      /\ RemovedEdges' = RemovedEdges /\ Exempt' = Exempt
  BY <1>1 DEF DeltaCommands, AddedEntities, RemovedEntities, AddedEdges, RemovedEdges, Exempt
<1>4. OnlyDelta
  BY <1>1 DEF FlushInv, WritingInv
<1>5. OnlyDelta'
  <2>1. \A i \in 1..Len(pipe') : pipe'[i] \in DeltaCommands
    BY <1>4, QueuePending DEF OnlyDelta
  <2> QED BY <1>1, <1>3, <1>4, <2>1 DEF OnlyDelta
<1>6. Progress
  BY <1>1 DEF FlushInv, WritingInv
<1>7. Progress'
  <2>1. \A c : Pending(c) => Pending(c)'
    BY QueuePending
  <2>2. \A c : Has(cmds, c) => Pending(c)'
    BY QueuePending DEF Has
  <2>3. ASSUME NEW r \in AddedEntities \ Exempt.entities PROVE EntityAdds(r)'
    <3>1. EntityAdds(r)
      BY <1>6 DEF Progress
    <3>2. CASE r \in todo.addEntities
      BY <1>1, <2>2, <3>2 DEF EntityAdds
    <3>3. CASE r \notin todo.addEntities
      BY <1>1, <2>1, <3>1, <3>3 DEF EntityAdds
    <3> QED BY <3>2, <3>3
  <2>4. ASSUME NEW r \in RemovedEntities \ Exempt.entities PROVE EntityDels(r)'
    <3>1. EntityDels(r)
      BY <1>6 DEF Progress
    <3>2. CASE r \in todo.delEntities
      BY <1>1, <2>2, <3>2 DEF EntityDels
    <3>3. CASE r \notin todo.delEntities
      BY <1>1, <2>1, <3>1, <3>3 DEF EntityDels
    <3> QED BY <3>2, <3>3
  <2>5. ASSUME NEW e \in AddedEdges \ Exempt.edges PROVE EdgeAdds(e)'
    BY <1>1, <1>6, <2>1, <2>2 DEF Progress, EdgeAdds
  <2>6. ASSUME NEW e \in RemovedEdges \ Exempt.edges PROVE EdgeDels(e)'
    BY <1>1, <1>6, <2>1, <2>2 DEF Progress, EdgeDels
  <2> QED BY <1>3, <2>3, <2>4, <2>5, <2>6 DEF Progress
<1> QED BY <1>1, <1>2, <1>5, <1>7 DEF FlushInv, WritingInv

(* The store after one command of the delta, key by key.                   *)
After(c, d) ==
  /\ \A r \in Rel :
       /\ Exists(Apply(d, c), r) <=> (c = HSet(r, flushNow) \/ (Exists(d, r) /\ c # Del(r)))
       /\ r \in Apply(d, c).byKind <=> (c = SAddKind(r) \/ (r \in d.byKind /\ c # SRemKind(r)))
       /\ r \in Apply(d, c).ids <=> (c = SAddId(r) \/ (r \in d.ids /\ c # SRemId(r)))
  /\ \A e \in Edge :
       e \in Apply(d, c).edges <=>
         (c = SAddEdge(e) \/ (e \in d.edges /\ c # SRemEdge(e) /\ c # Del(e.from)))

LEMMA AfterCommand ==
  ASSUME NEW c, NEW d \in Store, flushNow \in 0..MaxTime,
         \/ \E r \in Rel : \/ c = HSet(r, flushNow) \/ c = SAddKind(r) \/ c = SAddId(r)
                           \/ c = Del(r) \/ c = SRemId(r) \/ c = SRemKind(r)
         \/ \E e \in Edge : c = SAddEdge(e) \/ c = SRemEdge(e)
  PROVE  After(c, d)
<1>1. ASSUME NEW x, x \in Rel, c = HSet(x, flushNow) PROVE After(c, d)
  <2>1. Apply(d, c) = [d EXCEPT !.core = [@ EXCEPT ![x] = flushNow]]
    BY <1>1, HSetEffect
  <2>2. \A r : /\ c = HSet(r, flushNow) <=> x = r
              /\ c # SAddKind(r) /\ c # SAddId(r) /\ c # Del(r) /\ c # SRemId(r)
              /\ c # SRemKind(r) /\ c # SAddEdge(r) /\ c # SRemEdge(r)
    BY <1>1 DEF HSet, SAddKind, SAddId, Del, SRemId, SRemKind, SAddEdge, SRemEdge
  <2> QED BY <1>1, <2>1, <2>2 DEF After, Exists, Store, Absent
<1>2. ASSUME NEW x, x \in Rel, c = SAddKind(x) PROVE After(c, d)
  <2>1. Apply(d, c) = [d EXCEPT !.byKind = @ \cup {x}]
    BY <1>2, SAddKindEffect
  <2>2. \A r : /\ c = SAddKind(r) <=> x = r
              /\ c # HSet(r, flushNow) /\ c # SAddId(r) /\ c # Del(r) /\ c # SRemId(r)
              /\ c # SRemKind(r) /\ c # SAddEdge(r) /\ c # SRemEdge(r)
    BY <1>2 DEF HSet, SAddKind, SAddId, Del, SRemId, SRemKind, SAddEdge, SRemEdge
  <2> QED BY <1>2, <2>1, <2>2 DEF After, Exists, Store
<1>3. ASSUME NEW x, x \in Rel, c = SAddId(x) PROVE After(c, d)
  <2>1. Apply(d, c) = [d EXCEPT !.ids = @ \cup {x}]
    BY <1>3, SAddIdEffect
  <2>2. \A r : /\ c = SAddId(r) <=> x = r
              /\ c # HSet(r, flushNow) /\ c # SAddKind(r) /\ c # Del(r) /\ c # SRemId(r)
              /\ c # SRemKind(r) /\ c # SAddEdge(r) /\ c # SRemEdge(r)
    BY <1>3 DEF HSet, SAddKind, SAddId, Del, SRemId, SRemKind, SAddEdge, SRemEdge
  <2> QED BY <1>3, <2>1, <2>2 DEF After, Exists, Store
<1>4. ASSUME NEW x, x \in Rel, c = SRemId(x) PROVE After(c, d)
  <2>1. Apply(d, c) = [d EXCEPT !.ids = @ \ {x}]
    BY <1>4, SRemIdEffect
  <2>2. \A r : /\ c = SRemId(r) <=> x = r
              /\ c # HSet(r, flushNow) /\ c # SAddKind(r) /\ c # SAddId(r) /\ c # Del(r)
              /\ c # SRemKind(r) /\ c # SAddEdge(r) /\ c # SRemEdge(r)
    BY <1>4 DEF HSet, SAddKind, SAddId, Del, SRemId, SRemKind, SAddEdge, SRemEdge
  <2> QED BY <1>4, <2>1, <2>2 DEF After, Exists, Store
<1>5. ASSUME NEW x, x \in Rel, c = SRemKind(x) PROVE After(c, d)
  <2>1. Apply(d, c) = [d EXCEPT !.byKind = @ \ {x}]
    BY <1>5, SRemKindEffect
  <2>2. \A r : /\ c = SRemKind(r) <=> x = r
              /\ c # HSet(r, flushNow) /\ c # SAddKind(r) /\ c # SAddId(r) /\ c # Del(r)
              /\ c # SRemId(r) /\ c # SAddEdge(r) /\ c # SRemEdge(r)
    BY <1>5 DEF HSet, SAddKind, SAddId, Del, SRemId, SRemKind, SAddEdge, SRemEdge
  <2> QED BY <1>5, <2>1, <2>2 DEF After, Exists, Store
<1>6. ASSUME NEW x, x \in Edge, c = SAddEdge(x) PROVE After(c, d)
  <2>1. Apply(d, c) = [d EXCEPT !.edges = @ \cup {x}]
    BY <1>6, SAddEdgeEffect
  <2>2. \A r : /\ c = SAddEdge(r) <=> x = r
              /\ c # HSet(r, flushNow) /\ c # SAddKind(r) /\ c # SAddId(r) /\ c # Del(r)
              /\ c # SRemId(r) /\ c # SRemKind(r) /\ c # SRemEdge(r)
    BY <1>6 DEF HSet, SAddKind, SAddId, Del, SRemId, SRemKind, SAddEdge, SRemEdge
  <2> QED BY <1>6, <2>1, <2>2 DEF After, Exists, Store
<1>7. ASSUME NEW x, x \in Edge, c = SRemEdge(x) PROVE After(c, d)
  <2>1. Apply(d, c) = [d EXCEPT !.edges = @ \ {x}]
    BY <1>7, SRemEdgeEffect
  <2>2. \A r : /\ c = SRemEdge(r) <=> x = r
              /\ c # HSet(r, flushNow) /\ c # SAddKind(r) /\ c # SAddId(r) /\ c # Del(r)
              /\ c # SRemId(r) /\ c # SRemKind(r) /\ c # SAddEdge(r)
    BY <1>7 DEF HSet, SAddKind, SAddId, Del, SRemId, SRemKind, SAddEdge, SRemEdge
  <2> QED BY <1>7, <2>1, <2>2 DEF After, Exists, Store
<1>8. ASSUME NEW x \in Rel, c = Del(x) PROVE After(c, d)
  <2> DEFINE edges == {e \in d.edges : e.from # x}
             core  == [d.core EXCEPT ![x] = Absent]
             meta  == [d.meta EXCEPT ![x] = NoMeta]
  <2>1. Apply(d, c) = [d EXCEPT !.core = core, !.meta = meta, !.edges = edges]
    BY <1>8, ZenonT(30) DEF Del, Apply
  <2>2. \A e \in Edge : e \in edges <=> e \in d.edges /\ e.from # x
    OBVIOUS
  <2>3. \A r \in Rel : core[r] # Absent <=> d.core[r] # Absent /\ r # x
    BY DEF Store
  <2> HIDE DEF core, meta, edges
  <2>4. \A r : /\ c = Del(r) <=> x = r
              /\ c # HSet(r, flushNow) /\ c # SAddKind(r) /\ c # SAddId(r) /\ c # SRemId(r)
              /\ c # SRemKind(r) /\ c # SAddEdge(r) /\ c # SRemEdge(r)
    BY <1>8 DEF HSet, SAddKind, SAddId, Del, SRemId, SRemKind, SAddEdge, SRemEdge
  <2> QED BY <1>8, <2>1, <2>2, <2>3, <2>4 DEF After, Exists, Store
<1> QED BY <1>1, <1>2, <1>3, <1>4, <1>5, <1>6, <1>7, <1>8

LEMMA DeltaCases ==
  ASSUME NEW c \in DeltaCommands
  PROVE  \/ \E r \in AddedEntities : c = HSet(r, flushNow) \/ c = SAddKind(r) \/ c = SAddId(r)
         \/ \E r \in RemovedEntities : c = Del(r) \/ c = SRemId(r) \/ c = SRemKind(r)
         \/ \E e \in AddedEdges : c = SAddEdge(e)
         \/ \E e \in RemovedEdges : c = SRemEdge(e)
BY DEF DeltaCommands

(* A command of the delta names an item of the delta.                      *)
LEMMA DeltaNames ==
  ASSUME NEW c \in DeltaCommands
  PROVE  /\ \A r : c = HSet(r, flushNow) \/ c = SAddKind(r) \/ c = SAddId(r) => r \in AddedEntities
         /\ \A r : c = Del(r) \/ c = SRemId(r) \/ c = SRemKind(r) => r \in RemovedEntities
         /\ \A e : c = SAddEdge(e) => e \in AddedEdges
         /\ \A e : c = SRemEdge(e) => e \in RemovedEdges
<1> DEFINE Named == /\ \A r : c = HSet(r, flushNow) \/ c = SAddKind(r) \/ c = SAddId(r) => r \in AddedEntities
                    /\ \A r : c = Del(r) \/ c = SRemId(r) \/ c = SRemKind(r) => r \in RemovedEntities
                    /\ \A e : c = SAddEdge(e) => e \in AddedEdges
                    /\ \A e : c = SRemEdge(e) => e \in RemovedEdges
<1>1. ASSUME NEW x \in AddedEntities, c = HSet(x, flushNow) PROVE Named
  BY <1>1 DEF HSet, SAddKind, SAddId, Del, SRemId, SRemKind, SAddEdge, SRemEdge
<1>2. ASSUME NEW x \in AddedEntities, c = SAddKind(x) PROVE Named
  BY <1>2 DEF HSet, SAddKind, SAddId, Del, SRemId, SRemKind, SAddEdge, SRemEdge
<1>3. ASSUME NEW x \in AddedEntities, c = SAddId(x) PROVE Named
  BY <1>3 DEF HSet, SAddKind, SAddId, Del, SRemId, SRemKind, SAddEdge, SRemEdge
<1>4. ASSUME NEW x \in RemovedEntities, c = Del(x) PROVE Named
  BY <1>4 DEF HSet, SAddKind, SAddId, Del, SRemId, SRemKind, SAddEdge, SRemEdge
<1>5. ASSUME NEW x \in RemovedEntities, c = SRemId(x) PROVE Named
  BY <1>5 DEF HSet, SAddKind, SAddId, Del, SRemId, SRemKind, SAddEdge, SRemEdge
<1>6. ASSUME NEW x \in RemovedEntities, c = SRemKind(x) PROVE Named
  BY <1>6 DEF HSet, SAddKind, SAddId, Del, SRemId, SRemKind, SAddEdge, SRemEdge
<1>7. ASSUME NEW x \in AddedEdges, c = SAddEdge(x) PROVE Named
  BY <1>7 DEF HSet, SAddKind, SAddId, Del, SRemId, SRemKind, SAddEdge, SRemEdge
<1>8. ASSUME NEW x \in RemovedEdges, c = SRemEdge(x) PROVE Named
  BY <1>8 DEF HSet, SAddKind, SAddId, Del, SRemId, SRemKind, SAddEdge, SRemEdge
<1> HIDE DEF Named
<1>9. Named
  BY <1>1, <1>2, <1>3, <1>4, <1>5, <1>6, <1>7, <1>8, DeltaCases
<1> QED BY <1>9 DEF Named

(* No snapshot has an edge of an entity that it does not have.             *)
LEMMA ClosedEdge ==
  ASSUME NEW s, Closed(s), NEW e \in Edge, e \in s.edges
  PROVE  RelOf(e) \in s.entities /\ (e.from \in Rel => e.from \in s.entities)
<1>1. PICK l \in Link : e = Forward(l) \/ e = Reverse(l)
  BY EdgeFacts
<1>2. l.rel \in s.entities
  BY <1>1 DEF Closed
<1>3. RelOf(e) = l.rel
  BY <1>1, LinkFacts
<1> QED BY <1>2, <1>3 DEF RelOf

(* What Redis has after the next command of a flush.  The DEL of an        *)
(* expired entity takes edges with it, but none that the snapshot has.     *)
LEMMA ExecEffect ==
  ASSUME TypeOK, WholeInv, FlushInv, ExecCommand, NEW c, c = pipe[sent + 1]
  PROVE  /\ c \in DeltaCommands
         /\ \A r \in Rel :
              /\ Exists(db', r) <=> (c = HSet(r, flushNow) \/ (Exists(db, r) /\ c # Del(r)))
              /\ r \in db'.byKind <=> (c = SAddKind(r) \/ (r \in db.byKind /\ c # SRemKind(r)))
              /\ r \in db'.ids <=> (c = SAddId(r) \/ (r \in db.ids /\ c # SRemId(r)))
         /\ \A e \in Edge :
              e \in db'.edges <=>
                (c = SAddEdge(e) \/ (e \in db.edges /\ c # SRemEdge(e) /\ c # Del(e.from)))
         /\ \A e \in Edge : e \in snap.edges => c # Del(e.from)
<1>1. /\ pc = "writing" /\ sent \in Nat /\ sent < Len(pipe) /\ Len(pipe) \in Nat
      /\ db' = Apply(db, c)
  BY DEF ExecCommand, Executing, TypeOK
<1>2. c \in DeltaCommands
  BY <1>1 DEF FlushInv, WritingInv, OnlyDelta
<1>3. /\ db \in Store /\ flushNow \in 0..MaxTime
      /\ snap.entities \subseteq Rel /\ previous.entities \subseteq Rel
      /\ snap.edges \subseteq Edge /\ previous.edges \subseteq Edge
  BY DEF TypeOK, Contents
<1>4. After(c, db)
  BY <1>2, <1>3, DeltaCases, AfterCommand
     DEF AddedEntities, RemovedEntities, AddedEdges, RemovedEdges
<1>5. \A e \in Edge : e \in snap.edges => c # Del(e.from)
  <2> SUFFICES ASSUME NEW e \in Edge, e \in snap.edges, c = Del(e.from) PROVE FALSE
    OBVIOUS
  <2>1. e.from \in RemovedEntities
    BY <1>2, DeltaNames
  <2>2. e.from \in Rel
    BY <1>3, <2>1 DEF RemovedEntities
  <2> QED BY <2>1, <2>2, ClosedEdge DEF WholeInv, RemovedEntities
<1> QED BY <1>1, <1>2, <1>4, <1>5 DEF After

(* One command of the delta: it does what is still to be done, undoes      *)
(* nothing that is done, and touches nothing else.                         *)
LEMMA ExecFlush ==
  ASSUME TypeOK, WholeInv, FlushInv, ExecCommand PROVE FlushInv'
<1> DEFINE c == pipe[sent + 1]
<1>1. /\ pc = "writing" /\ sent \in Nat /\ sent < Len(pipe) /\ Len(pipe) \in Nat
      /\ db' = Apply(db, c) /\ sent' = sent + 1
      /\ UNCHANGED <<pc, flushNow, previous, snap, todo, pipe, adrift, wiped>>
  BY DEF ExecCommand, Executing, TypeOK
<1>2. OnlyDelta /\ Progress /\ c \in DeltaCommands
  BY <1>1 DEF FlushInv, WritingInv, OnlyDelta
<1>3. \A x : Pending(x) => Pending(x)' \/ x = c
  BY <1>1 DEF Pending
<1>4. snap.entities \subseteq Rel /\ previous.entities \subseteq Rel
  BY DEF TypeOK, Contents
<1>5. snap.edges \subseteq Edge /\ previous.edges \subseteq Edge
  BY DEF TypeOK, Contents
<1>6. /\ \A r \in Rel :
           /\ Exists(db', r) <=> (c = HSet(r, flushNow) \/ (Exists(db, r) /\ c # Del(r)))
           /\ r \in db'.byKind <=> (c = SAddKind(r) \/ (r \in db.byKind /\ c # SRemKind(r)))
           /\ r \in db'.ids <=> (c = SAddId(r) \/ (r \in db.ids /\ c # SRemId(r)))
      /\ \A e \in Edge :
           e \in db'.edges <=>
             (c = SAddEdge(e) \/ (e \in db.edges /\ c # SRemEdge(e) /\ c # Del(e.from)))
  BY ExecEffect
<1>7. \A e \in Edge : e \in snap.edges => c # Del(e.from)
  BY ExecEffect
<1> HIDE DEF c
<1>8. MirrorsPrevious'
  <2>1. MirrorsPrevious /\ InFlight = DeltaItems /\ InFlight' = DeltaItems
    BY <1>1 DEF FlushInv, InFlight, DeltaItems
  <2> DEFINE moving == With(adrift, DeltaItems)
  <2>2. ASSUME NEW r \in Rel \ moving.entities
        PROVE  IF r \in previous.entities THEN Listed(db', r) ELSE Unlisted(db', r)
    <3>1. r \notin AddedEntities /\ r \notin RemovedEntities
      BY DeltaParts DEF With
    <3>2. IF r \in previous.entities THEN Listed(db, r) ELSE Unlisted(db, r)
      BY <2>1 DEF MirrorsPrevious
    <3> QED BY <1>2, <1>6, <3>1, <3>2, DeltaNames DEF Listed, Unlisted
  <2>3. ASSUME NEW e \in Edge \ moving.edges
        PROVE  e \in db'.edges <=> e \in previous.edges
    <3>1. e \notin AddedEdges /\ e \notin RemovedEdges
      BY DeltaParts DEF With
    <3>2. e \in db.edges <=> e \in previous.edges
      BY <2>1 DEF MirrorsPrevious
    <3>3. e \in previous.edges <=> e \in snap.edges
      BY <3>1 DEF AddedEdges, RemovedEdges
    <3> QED BY <1>2, <1>6, <1>7, <3>1, <3>2, <3>3, DeltaNames
  <2> QED BY <1>1, <2>1, <2>2, <2>3 DEF MirrorsPrevious
<1>9. /\ AddedEntities' = AddedEntities /\ RemovedEntities' = RemovedEntities
      /\ AddedEdges' = AddedEdges /\ RemovedEdges' = RemovedEdges
      /\ DeltaCommands' = DeltaCommands /\ Exempt' = Exempt
  BY <1>1 DEF AddedEntities, RemovedEntities, AddedEdges, RemovedEdges, DeltaCommands, Exempt
<1>10. OnlyDelta'
  BY <1>1, <1>2, <1>9 DEF OnlyDelta
<1>11. Progress'
  <2>1. ASSUME NEW r \in AddedEntities \ Exempt.entities PROVE EntityAdds(r)'
    <3>1. r \in Rel /\ r \notin RemovedEntities
      BY <1>4 DEF AddedEntities, RemovedEntities
    <3>2. EntityAdds(r)
      BY <1>2 DEF Progress
    <3> QED BY <1>1, <1>2, <1>3, <1>6, <3>1, <3>2, DeltaNames DEF EntityAdds
  <2>2. ASSUME NEW r \in RemovedEntities \ Exempt.entities PROVE EntityDels(r)'
    <3>1. r \in Rel /\ r \notin AddedEntities
      BY <1>4 DEF AddedEntities, RemovedEntities
    <3>2. EntityDels(r)
      BY <1>2 DEF Progress
    <3> QED BY <1>1, <1>2, <1>3, <1>6, <3>1, <3>2, DeltaNames DEF EntityDels
  <2>3. ASSUME NEW e \in AddedEdges \ Exempt.edges PROVE EdgeAdds(e)'
    <3>1. e \in Edge /\ e \notin RemovedEdges /\ c # Del(e.from)
      BY <1>5, <1>7 DEF AddedEdges, RemovedEdges
    <3> QED BY <1>1, <1>2, <1>3, <1>6, <3>1, DeltaNames DEF Progress, EdgeAdds
  <2>4. ASSUME NEW e \in RemovedEdges \ Exempt.edges PROVE EdgeDels(e)'
    <3>1. e \in Edge /\ e \notin AddedEdges
      BY <1>5 DEF AddedEdges, RemovedEdges
    <3> QED BY <1>1, <1>2, <1>3, <1>6, <3>1, DeltaNames DEF Progress, EdgeDels
  <2> QED BY <1>9, <2>1, <2>2, <2>3, <2>4 DEF Progress
<1> QED BY <1>1, <1>8, <1>10, <1>11 DEF FlushInv, WritingInv

(* The snapshot is taken: all of the delta is still to be queued.          *)
LEMMA SnapshotFlush ==
  ASSUME TypeOK, FlushInv, ExpireAndSnapshot PROVE FlushInv'
<1>1. /\ pc = "began" /\ pc' = "writing" /\ wiped' = FALSE
      /\ UNCHANGED <<flushNow, previous, pipe, sent, db, adrift>>
      /\ todo' = Delta(snap', previous)
  BY DEF ExpireAndSnapshot
<1>2. pipe = <<>> /\ InFlight = NoContents
  BY <1>1 DEF FlushInv, WritingInv, InFlight
<1>3. MirrorsPrevious'
  BY <1>1, <1>2 DEF FlushInv, MirrorsPrevious, With, NoContents
<1>4. /\ todo'.addEntities = AddedEntities' /\ todo'.delEntities = RemovedEntities'
      /\ todo'.addEdges = AddedEdges' /\ todo'.delEdges = RemovedEdges'
  BY <1>1 DEF Delta, AddedEntities, RemovedEntities, AddedEdges, RemovedEdges
<1>5. OnlyDelta'
  BY <1>1, <1>2, <1>4 DEF OnlyDelta
<1>6. Progress'
  BY <1>4 DEF Progress, EntityAdds, EntityDels, EdgeAdds, EdgeDels
<1> QED BY <1>1, <1>3, <1>5, <1>6 DEF FlushInv, WritingInv

(* A good end: nothing is left to queue and nothing is pending.            *)
LEMMA FinishFlushInv ==
  ASSUME TypeOK, FlushInv, FinishFlush PROVE FlushInv'
<1>1. /\ pc = "writing" /\ todo = NoWork /\ pipe = <<>> /\ pc' = "flushed"
      /\ previous' = snap /\ snap' = NoContents
      /\ adrift' = IF wiped THEN adrift ELSE Without(adrift, DeltaItems)
      /\ UNCHANGED <<todo, pipe, sent, db>>
  BY DEF FinishFlush
<1>2. \A c : ~Pending(c)
  BY <1>1 DEF Pending, TypeOK
<1>3. sent' = 0
  BY <1>1 DEF TypeOK
<1>4. InFlight = DeltaItems /\ InFlight' = NoContents
  BY <1>1 DEF InFlight
<1> DEFINE EntityOk(r) == IF r \in snap.entities THEN Listed(db, r) ELSE Unlisted(db, r)
           EdgeOk(e) == e \in db.edges <=> e \in snap.edges
<1>5. /\ \A r \in AddedEntities \ Exempt.entities : Listed(db, r)
      /\ \A r \in RemovedEntities \ Exempt.entities : Unlisted(db, r)
      /\ \A e \in AddedEdges \ Exempt.edges : e \in db.edges
      /\ \A e \in RemovedEdges \ Exempt.edges : e \notin db.edges
  <2>1. Progress
    BY <1>1 DEF FlushInv, WritingInv
  <2> QED BY <1>1, <1>2, <2>1 DEF Progress, EntityAdds, EntityDels, EdgeAdds, EdgeDels, NoWork,
          Listed, Unlisted
<1>6. /\ \A r : r \notin adrift'.entities =>
              r \notin Exempt.entities /\ (r \in adrift.entities => r \in DeltaItems.entities)
      /\ \A e : e \notin adrift'.edges =>
              e \notin Exempt.edges /\ (e \in adrift.edges => e \in DeltaItems.edges)
  BY <1>1 DEF Exempt, Without, NoContents
<1>7. ASSUME NEW r \in Rel, r \notin adrift'.entities PROVE EntityOk(r)
  <2>1. CASE r \in AddedEntities \/ r \in RemovedEntities
    BY <1>5, <1>6, <1>7, <2>1 DEF AddedEntities, RemovedEntities
  <2>2. CASE r \notin AddedEntities /\ r \notin RemovedEntities
    <3>1. r \in snap.entities <=> r \in previous.entities
      BY <2>2 DEF AddedEntities, RemovedEntities
    <3>2. r \in Rel \ With(adrift, InFlight).entities
      BY <1>4, <1>6, <1>7, <2>2, DeltaParts DEF With
    <3> QED BY <3>1, <3>2 DEF FlushInv, MirrorsPrevious
  <2> QED BY <2>1, <2>2
<1>8. ASSUME NEW e \in Edge, e \notin adrift'.edges PROVE EdgeOk(e)
  <2>1. CASE e \in AddedEdges \/ e \in RemovedEdges
    BY <1>5, <1>6, <1>8, <2>1 DEF AddedEdges, RemovedEdges
  <2>2. CASE e \notin AddedEdges /\ e \notin RemovedEdges
    <3>1. e \in snap.edges <=> e \in previous.edges
      BY <2>2 DEF AddedEdges, RemovedEdges
    <3>2. e \in Edge \ With(adrift, InFlight).edges
      BY <1>4, <1>6, <1>8, <2>2, DeltaParts DEF With
    <3> QED BY <3>1, <3>2 DEF FlushInv, MirrorsPrevious
  <2> QED BY <2>1, <2>2
<1>9. MirrorsPrevious'
  BY <1>1, <1>4, <1>7, <1>8 DEF MirrorsPrevious, With, NoContents
<1> QED BY <1>1, <1>3, <1>9 DEF FlushInv, WritingInv

(* Between flushes, with nothing under way.                                *)
LEMMA AtRest ==
  ASSUME pc' # "writing", snap' = NoContents, todo' = NoWork, pipe' = <<>>, sent' = 0,
         \A r \in Rel \ adrift'.entities :
           IF r \in previous'.entities THEN Listed(db', r) ELSE Unlisted(db', r),
         \A e \in Edge \ adrift'.edges : e \in db'.edges <=> e \in previous'.edges
  PROVE  FlushInv'
BY DEF FlushInv, MirrorsPrevious, WritingInv, InFlight, With, NoContents

LEMMA FailFlushInv == ASSUME TypeOK, FlushInv, FailFlush PROVE FlushInv'
<1>1. /\ pc = "writing" /\ pc' = "failed" /\ adrift' = With(adrift, DeltaItems)
      /\ snap' = NoContents /\ todo' = NoWork /\ pipe' = <<>> /\ sent' = 0
      /\ UNCHANGED <<previous, db>>
  BY DEF FailFlush, Executing
<1>2. InFlight = DeltaItems /\ MirrorsPrevious
  BY <1>1 DEF InFlight, FlushInv
<1> QED BY <1>1, <1>2, AtRest DEF MirrorsPrevious

(* What neither the old snapshot nor the one being written has, Redis has  *)
(* only if it was adrift already.                                          *)
LEMMA Elsewhere ==
  ASSUME TypeOK, FlushInv
  PROVE  /\ \A r \in Rel \ With(adrift, With(previous, snap)).entities : Unlisted(db, r)
         /\ \A e \in Edge \ With(adrift, With(previous, snap)).edges : e \notin db.edges
<1>1. /\ InFlight.entities \subseteq previous.entities \cup snap.entities
      /\ InFlight.edges \subseteq previous.edges \cup snap.edges
  BY DEF InFlight, DeltaItems, With, Without, NoContents
<1> QED BY <1>1 DEF FlushInv, MirrorsPrevious, With

LEMMA RestartInv == ASSUME TypeOK, FlushInv, Restart PROVE FlushInv'
<1>1. /\ pc' = "delay" /\ adrift' = With(adrift, With(previous, snap)) /\ previous' = NoContents
      /\ snap' = NoContents /\ todo' = NoWork /\ pipe' = <<>> /\ sent' = 0
      /\ UNCHANGED db
  BY DEF Restart
<1> QED BY <1>1, Elsewhere, AtRest DEF NoContents

LEMMA RedisLossInv == ASSUME TypeOK, FlushInv, RedisLoss PROVE FlushInv'
<1>1. /\ adrift' = With(adrift, With(previous, snap)) /\ db' = EmptyStore /\ wiped' = TRUE
      /\ UNCHANGED <<pc, flushNow, previous, snap, todo, pipe, sent>>
  BY DEF RedisLoss
<1>2. /\ \A r \in Rel : Unlisted(db', r)
      /\ db'.edges = {}
  BY <1>1 DEF EmptyStore, Unlisted, Exists, Absent
<1>3. MirrorsPrevious'
  BY <1>1, <1>2 DEF MirrorsPrevious, With
<1>4. OnlyDelta <=> OnlyDelta'
  BY <1>1 DEF OnlyDelta, DeltaCommands, AddedEntities, RemovedEntities, AddedEdges, RemovedEdges
<1>5. Progress'
  BY <1>1 DEF Progress, Exempt, With, AddedEntities, RemovedEntities, AddedEdges, RemovedEdges
<1> QED BY <1>1, <1>3, <1>4, <1>5 DEF FlushInv, WritingInv

(* The edges of a deleted container go and are adrift, all else stays.     *)
LEMMA EmitterDeletedInv ==
  ASSUME TypeOK, FlushInv, NEW c \in Emitter, EmitterDeleted(c) PROVE FlushInv'
<1>1. /\ adrift'.entities = adrift.entities
      /\ \A e : e \in adrift'.edges <=> \/ e \in adrift.edges
                                        \/ e \in previous.edges \cup snap.edges /\ e.from = c
      /\ wiped' = TRUE
      /\ UNCHANGED <<pc, flushNow, previous, snap, todo, pipe, sent>>
  BY DEF EmitterDeleted, With
<1>2. /\ \A r \in Rel : /\ Exists(db', r) <=> Exists(db, r)
                        /\ r \in db'.ids <=> r \in db.ids
                        /\ r \in db'.byKind <=> r \in db.byKind
      /\ \A e : e \in db'.edges <=> e \in db.edges /\ e.from # c
  BY EmitterDelEffect DEF EmitterDeleted, TypeOK
<1>3. InFlight' = InFlight
  BY <1>1 DEF InFlight, DeltaItems
<1>4. MirrorsPrevious'
  <2>1. MirrorsPrevious
    BY DEF FlushInv
  <2>2. ASSUME NEW r \in Rel \ With(adrift', InFlight).entities
        PROVE  IF r \in previous.entities THEN Listed(db', r) ELSE Unlisted(db', r)
    BY <1>1, <1>2, <2>1 DEF MirrorsPrevious, With, Listed, Unlisted
  <2>3. ASSUME NEW e \in Edge \ With(adrift', InFlight).edges
        PROVE  e \in db'.edges <=> e \in previous.edges
    BY <1>1, <1>2, <2>1 DEF MirrorsPrevious, With
  <2> QED BY <1>1, <1>3, <2>2, <2>3 DEF MirrorsPrevious
<1>5. OnlyDelta => OnlyDelta'
  BY <1>1 DEF OnlyDelta, DeltaCommands, AddedEntities, RemovedEntities, AddedEdges, RemovedEdges
<1>6. ASSUME Progress PROVE Progress'
  <2>1. /\ AddedEntities' = AddedEntities /\ RemovedEntities' = RemovedEntities
        /\ AddedEdges' = AddedEdges /\ RemovedEdges' = RemovedEdges
        /\ AddedEntities \subseteq Rel /\ RemovedEntities \subseteq Rel
    BY <1>1 DEF TypeOK, Contents, AddedEntities, RemovedEntities, AddedEdges, RemovedEdges
  <2>2. /\ \A r : r \notin Exempt'.entities => r \notin Exempt.entities
        /\ \A e : e \notin Exempt'.edges => e \notin Exempt.edges
        /\ \A e \in AddedEdges : e \notin Exempt'.edges => e.from # c
    <3>1. Exempt' = adrift'
      BY <1>1 DEF Exempt
    <3>2. /\ \A r : r \in Exempt.entities => r \in adrift.entities
          /\ \A e : e \in Exempt.edges => e \in adrift.edges
      BY DEF Exempt, NoContents
    <3> QED BY <1>1, <3>1, <3>2 DEF AddedEdges
  <2>3. \A x : Pending(x) <=> Pending(x)'
    BY <1>1 DEF Pending
  <2>4. ASSUME NEW r \in AddedEntities \ Exempt'.entities PROVE EntityAdds(r)'
    BY <1>1, <1>2, <1>6, <2>1, <2>2, <2>3 DEF Progress, EntityAdds
  <2>5. ASSUME NEW r \in RemovedEntities \ Exempt'.entities PROVE EntityDels(r)'
    BY <1>1, <1>2, <1>6, <2>1, <2>2, <2>3 DEF Progress, EntityDels
  <2>6. ASSUME NEW e \in AddedEdges \ Exempt'.edges PROVE EdgeAdds(e)'
    BY <1>1, <1>2, <1>6, <2>2, <2>3 DEF Progress, EdgeAdds
  <2>7. ASSUME NEW e \in RemovedEdges \ Exempt'.edges PROVE EdgeDels(e)'
    BY <1>1, <1>2, <1>6, <2>2, <2>3 DEF Progress, EdgeDels
  <2> QED BY <2>1, <2>4, <2>5, <2>6, <2>7 DEF Progress
<1> QED BY <1>1, <1>4, <1>5, <1>6 DEF FlushInv, WritingInv

(* The pipeline is sent again: what was executed is pending once more.     *)
LEMMA ReplayInv == ASSUME TypeOK, FlushInv, ReplayPipeline PROVE FlushInv'
<1>1. /\ pc = "writing" /\ sent' = 0 /\ sent \in Nat
      /\ UNCHANGED <<pc, flushNow, previous, snap, todo, pipe, db, adrift, wiped>>
  BY DEF ReplayPipeline, Executing, TypeOK
<1>2. MirrorsPrevious'
  BY <1>1 DEF FlushInv, MirrorsPrevious, InFlight, DeltaItems
<1>3. OnlyDelta'
  BY <1>1 DEF FlushInv, WritingInv, OnlyDelta, DeltaCommands, AddedEntities, RemovedEntities,
     AddedEdges, RemovedEdges
<1>4. \A c : Pending(c) => Pending(c)'
  BY <1>1 DEF Pending, TypeOK
<1>5. Progress => Progress'
  BY <1>1, <1>4 DEF Progress, EntityAdds, EntityDels, EdgeAdds, EdgeDels, Exempt,
     AddedEntities, RemovedEntities, AddedEdges, RemovedEdges
<1> QED BY <1>1, <1>2, <1>3, <1>5 DEF FlushInv, WritingInv

(* Exec has returned: nothing of the pipeline is pending any more.         *)
LEMMA ReturnInv == ASSUME TypeOK, FlushInv, ExecReturns PROVE FlushInv'
<1>1. /\ pc = "writing" /\ sent = Len(pipe) /\ pipe' = <<>> /\ sent' = 0
      /\ UNCHANGED <<pc, flushNow, previous, snap, todo, db, adrift, wiped>>
  BY DEF ExecReturns, Executing
<1>2. MirrorsPrevious'
  BY <1>1 DEF FlushInv, MirrorsPrevious, InFlight, DeltaItems
<1>3. OnlyDelta'
  BY <1>1 DEF FlushInv, WritingInv, OnlyDelta, AddedEntities, RemovedEntities,
     AddedEdges, RemovedEdges
<1>4. \A c : ~Pending(c)
  BY <1>1 DEF Pending, TypeOK
<1>5. Progress => Progress'
  BY <1>1, <1>4 DEF Progress, EntityAdds, EntityDels, EdgeAdds, EdgeDels, Exempt,
     AddedEntities, RemovedEntities, AddedEdges, RemovedEdges
<1> QED BY <1>1, <1>2, <1>3, <1>5 DEF FlushInv, WritingInv

LEMMA FlushNext == TypeOK /\ WholeInv /\ FlushInv /\ [Next]_vars => FlushInv'
<1> SUFFICES ASSUME TypeOK, WholeInv, FlushInv, [Next]_vars PROVE FlushInv'
  OBVIOUS
<1>1. CASE \E links \in SUBSET Link : Export(links)
  BY <1>1, FlushFrame DEF Export
<1>2. CASE Tick \/ UNCHANGED vars
  BY <1>2, FlushFrame DEF Tick, vars
<1>3. CASE BeginFlush
  <2>1. /\ pc # "writing" /\ pc' # "writing"
        /\ UNCHANGED <<previous, snap, todo, pipe, sent, db, adrift>>
    BY <1>3 DEF BeginFlush, Between
  <2> QED BY <2>1 DEF FlushInv, MirrorsPrevious, InFlight, WritingInv
<1>4. CASE ExpireAndSnapshot
  BY <1>4, SnapshotFlush
<1>5. CASE QueueAddEntity
  <2>1. PICK r \in todo.addEntities :
          Queue(AddEntityCommands(r), [todo EXCEPT !.addEntities = @ \ {r}])
    BY <1>5 DEF QueueAddEntity
  <2> DEFINE cmds == AddEntityCommands(r)
             rest == [todo EXCEPT !.addEntities = @ \ {r}]
  <2>2. r \in Rel /\ rest \in Work /\ cmds \in Seq(Commands)
    BY AddEntityType DEF TypeOK, Work
  <2>3. r \in AddedEntities
    BY <2>1 DEF Queue, Queueing, FlushInv, WritingInv, OnlyDelta
  <2>4. /\ Has(cmds, HSet(r, flushNow)) /\ Has(cmds, SAddKind(r)) /\ Has(cmds, SAddId(r))
        /\ \A j \in 1..Len(cmds) : cmds[j] \in DeltaCommands
    BY <2>3 DEF Has, AddEntityCommands, DeltaCommands
  <2>5. /\ todo.addEntities \ rest.addEntities = {r} /\ rest.addEntities \subseteq todo.addEntities
        /\ rest.delEntities = todo.delEntities
        /\ rest.addEdges = todo.addEdges /\ rest.delEdges = todo.delEdges
    BY DEF TypeOK, Work
  <2> HIDE DEF cmds, rest
  <2> QED BY <2>1, <2>2, <2>4, <2>5, QueueFlush DEF cmds, rest
<1>6. CASE QueueDelEntity
  <2>1. PICK r \in todo.delEntities :
          Queue(DelEntityCommands(r), [todo EXCEPT !.delEntities = @ \ {r}])
    BY <1>6 DEF QueueDelEntity
  <2> DEFINE cmds == DelEntityCommands(r)
             rest == [todo EXCEPT !.delEntities = @ \ {r}]
  <2>2. r \in Rel /\ rest \in Work /\ cmds \in Seq(Commands)
    BY DelEntityType DEF TypeOK, Work
  <2>3. r \in RemovedEntities
    BY <2>1 DEF Queue, Queueing, FlushInv, WritingInv, OnlyDelta
  <2>4. /\ Has(cmds, Del(r)) /\ Has(cmds, SRemId(r)) /\ Has(cmds, SRemKind(r))
        /\ \A j \in 1..Len(cmds) : cmds[j] \in DeltaCommands
    BY <2>3 DEF Has, DelEntityCommands, DeltaCommands
  <2>5. /\ todo.delEntities \ rest.delEntities = {r} /\ rest.delEntities \subseteq todo.delEntities
        /\ rest.addEntities = todo.addEntities
        /\ rest.addEdges = todo.addEdges /\ rest.delEdges = todo.delEdges
    BY DEF TypeOK, Work
  <2> HIDE DEF cmds, rest
  <2> QED BY <2>1, <2>2, <2>4, <2>5, QueueFlush DEF cmds, rest
<1>7. CASE QueueAddEdge
  <2>1. PICK e \in todo.addEdges :
          Queue(<<SAddEdge(e)>>, [todo EXCEPT !.addEdges = @ \ {e}])
    BY <1>7 DEF QueueAddEdge
  <2> DEFINE cmds == <<SAddEdge(e)>>
             rest == [todo EXCEPT !.addEdges = @ \ {e}]
  <2>2. e \in Edge /\ rest \in Work /\ cmds \in Seq(Commands)
    BY EdgeCommandType DEF TypeOK, Work
  <2>3. e \in AddedEdges
    BY <2>1 DEF Queue, Queueing, FlushInv, WritingInv, OnlyDelta
  <2>4. Has(cmds, SAddEdge(e)) /\ \A j \in 1..Len(cmds) : cmds[j] \in DeltaCommands
    BY <2>3 DEF Has, DeltaCommands
  <2>5. /\ todo.addEdges \ rest.addEdges = {e} /\ rest.addEdges \subseteq todo.addEdges
        /\ rest.addEntities = todo.addEntities
        /\ rest.delEntities = todo.delEntities /\ rest.delEdges = todo.delEdges
    BY DEF TypeOK, Work
  <2> HIDE DEF cmds, rest
  <2> QED BY <2>1, <2>2, <2>4, <2>5, QueueFlush DEF cmds, rest
<1>8. CASE QueueDelEdge
  <2>1. PICK e \in todo.delEdges :
          Queue(<<SRemEdge(e)>>, [todo EXCEPT !.delEdges = @ \ {e}])
    BY <1>8 DEF QueueDelEdge
  <2> DEFINE cmds == <<SRemEdge(e)>>
             rest == [todo EXCEPT !.delEdges = @ \ {e}]
  <2>2. e \in Edge /\ rest \in Work /\ cmds \in Seq(Commands)
    BY EdgeCommandType DEF TypeOK, Work
  <2>3. e \in RemovedEdges
    BY <2>1 DEF Queue, Queueing, FlushInv, WritingInv, OnlyDelta
  <2>4. Has(cmds, SRemEdge(e)) /\ \A j \in 1..Len(cmds) : cmds[j] \in DeltaCommands
    BY <2>3 DEF Has, DeltaCommands
  <2>5. /\ todo.delEdges \ rest.delEdges = {e} /\ rest.delEdges \subseteq todo.delEdges
        /\ rest.addEntities = todo.addEntities
        /\ rest.delEntities = todo.delEntities /\ rest.addEdges = todo.addEdges
    BY DEF TypeOK, Work
  <2> HIDE DEF cmds, rest
  <2> QED BY <2>1, <2>2, <2>4, <2>5, QueueFlush DEF cmds, rest
<1>9. CASE ExecCommand \/ ExecReturns \/ FinishFlush
  BY <1>9, ExecFlush, ReturnInv, FinishFlushInv
<1>10. CASE FailFlush \/ ReplayPipeline \/ Restart \/ RedisLoss
  BY <1>10, FailFlushInv, ReplayInv, RestartInv, RedisLossInv
<1>11. CASE \E c \in Emitter : EmitterDeleted(c)
  BY <1>11, EmitterDeletedInv
<1> QED BY <1>1, <1>2, <1>3, <1>4, <1>5, <1>6, <1>7, <1>8, <1>9, <1>10, <1>11 DEF Next, Flusher

(* Redis holds what the last good flush wrote, apart from the delta being  *)
(* written and from what faults set adrift, in every interleaving and for  *)
(* every size of chunk.                                                    *)
THEOREM MirrorCorrect == Spec => []MirrorsPrevious
<1>1. Init => TypeOK /\ WholeInv /\ FlushInv
  BY TypeInit, WholeInit, FlushInit
<1>2. TypeOK /\ WholeInv /\ FlushInv /\ [Next]_vars => (TypeOK /\ WholeInv /\ FlushInv)'
  BY TypeNext, WholeNext, FlushNext
<1>3. FlushInv => MirrorsPrevious
  BY DEF FlushInv
<1> QED BY <1>1, <1>2, <1>3, PTL DEF Spec

-----------------------------------------------------------------------------
(* What a reader of Redis is shown: fresh relationships after every good  *)
(* flush, and no dangling edge at any command.                             *)

(* A link is known by its forward edge.                                    *)
LEMMA ForwardOf ==
  ASSUME NEW links \in SUBSET Link, NEW l \in Link
  PROVE  Forward(l) \in DeriveAll(links).edges <=> l \in links
<1>1. ASSUME NEW k \in links, Forward(l) = Forward(k) PROVE l = k
  <2>1. l.emitter = k.emitter /\ l.rel = k.rel /\ l.label = k.label
    BY <1>1 DEF Forward
  <2> QED BY <2>1, LinkAssumption
<1>2. ASSUME NEW k \in links PROVE Forward(l) # Reverse(k)
  <2>1. Forward(l).from \in Emitter /\ Reverse(k).from \in Rel
    BY LinkFacts
  <2> QED BY <2>1, IdAssumption
<1> QED BY <1>1, <1>2 DEF DeriveAll

(* The set knows when each link was last observed, unless it was too long  *)
(* ago at the latest flush.  The flush's clock is never ahead.             *)
Expired(l) == observed[l] = Never \/ observed[l] < flushNow - TTL

TimesInv ==
  /\ flushNow <= now
  /\ \A l \in Link : /\ observed[l] <= now
                     /\ IF set.edges[Forward(l)] = Never THEN Expired(l)
                        ELSE set.edges[Forward(l)] = observed[l]

LEMMA TimesInit == Init => TimesInv
BY LinkFacts, TimeAssumption DEF Init, TimesInv, Expired, NewBatchWriteSet, Never

LEMMA TimesNext == TypeOK /\ TimesInv /\ [Next]_vars => TimesInv'
<1> SUFFICES ASSUME TypeOK, TimesInv, [Next]_vars PROVE TimesInv'
  OBVIOUS
<1>1. /\ now \in 0..MaxTime /\ flushNow \in 0..MaxTime /\ TTL \in Nat /\ MaxTime \in Nat
      /\ \A l \in Link : observed[l] \in Stamp /\ set.edges[Forward(l)] \in Stamp
  BY LinkFacts, TimeAssumption DEF TypeOK
<1>2. ASSUME NEW links \in SUBSET Link, Export(links) PROVE TimesInv'
  <2>1. ASSUME NEW l \in Link
        PROVE  /\ observed'[l] = IF l \in links THEN now ELSE observed[l]
               /\ set'.edges[Forward(l)] = IF l \in links THEN now ELSE set.edges[Forward(l)]
    BY <1>2, ForwardOf, LinkFacts DEF Export, Merge
  <2>2. UNCHANGED <<now, flushNow>>
    BY <1>2 DEF Export
  <2> QED BY <1>1, <2>1, <2>2 DEF TimesInv, Expired, Never
<1>3. CASE Tick
  BY <1>1, <1>3 DEF Tick, TimesInv, Expired, Stamp, Never
<1>4. CASE BeginFlush
  BY <1>1, <1>4 DEF BeginFlush, TimesInv, Expired, Stamp, Never
<1>5. CASE ExpireAndSnapshot
  <2>1. ASSUME NEW l \in Link
        PROVE  set'.edges[Forward(l)] =
                 IF set.edges[Forward(l)] < flushNow - TTL THEN Never ELSE set.edges[Forward(l)]
    BY <1>5, LinkFacts DEF ExpireAndSnapshot, Expire, Stale
  <2>2. UNCHANGED <<now, flushNow, observed>>
    BY <1>5 DEF ExpireAndSnapshot
  <2> QED BY <1>1, <2>1, <2>2 DEF TimesInv, Expired, Stamp, Never
<1>6. CASE Restart
  BY <1>1, <1>6, LinkFacts DEF Restart, TimesInv, Expired, NewBatchWriteSet, Never
<1>7. ASSUME UNCHANGED <<now, flushNow, set, observed>> PROVE TimesInv'
  BY <1>7 DEF TimesInv, Expired
<1>8. CASE ExecCommand \/ ExecReturns \/ FinishFlush \/ FailFlush \/ ReplayPipeline \/ RedisLoss
             \/ (\E c \in Emitter : EmitterDeleted(c)) \/ UNCHANGED vars
  BY <1>7, <1>8 DEF ExecCommand, ExecReturns, FinishFlush, FailFlush, ReplayPipeline, RedisLoss,
     EmitterDeleted, vars
<1>9. CASE QueueAddEntity \/ QueueDelEntity \/ QueueAddEdge \/ QueueDelEdge
  BY <1>7, <1>9 DEF QueueAddEntity, QueueDelEntity, QueueAddEdge, QueueDelEdge, Queue
<1> QED BY <1>2, <1>3, <1>4, <1>5, <1>6, <1>8, <1>9 DEF Next, Flusher

(* What is being written, and was written by a good flush, are the links   *)
(* that were observed within TTL; others have been observed since it       *)
(* began, if at all.                                                       *)
Latest == IF pc = "writing" THEN snap ELSE previous

FreshInv ==
  pc \in {"writing", "flushed"} =>
    \A l \in Link : IF Forward(l) \in Latest.edges THEN observed[l] >= flushNow - TTL
                    ELSE Expired(l) \/ observed[l] >= flushNow

LEMMA FreshInit == Init => FreshInv
BY DEF Init, FreshInv

LEMMA FreshNext == TypeOK /\ TimesInv /\ FreshInv /\ [Next]_vars => FreshInv'
<1> SUFFICES ASSUME TypeOK, TimesInv, FreshInv, [Next]_vars PROVE FreshInv'
  OBVIOUS
<1>1. /\ now \in 0..MaxTime /\ flushNow \in 0..MaxTime /\ TTL \in Nat /\ MaxTime \in Nat
      /\ flushNow <= now
      /\ \A l \in Link : observed[l] \in Stamp /\ set.edges[Forward(l)] \in Stamp
  BY LinkFacts, TimeAssumption DEF TypeOK, TimesInv
<1>2. ASSUME NEW links \in SUBSET Link, Export(links) PROVE FreshInv'
  <2>1. \A l \in Link : observed'[l] = IF l \in links THEN now ELSE observed[l]
    BY <1>2 DEF Export
  <2>2. UNCHANGED <<pc, flushNow, snap, previous>>
    BY <1>2 DEF Export
  <2> QED BY <1>1, <2>1, <2>2 DEF FreshInv, Latest, Expired
<1>3. CASE ExpireAndSnapshot
  <2>1. /\ UNCHANGED <<flushNow, observed>> /\ pc' = "writing"
        /\ snap' = Snapshot(set') /\ set' = Expire(set, flushNow - TTL)
    BY <1>3 DEF ExpireAndSnapshot
  <2>2. ASSUME NEW l \in Link
        PROVE  /\ set'.edges[Forward(l)] =
                    IF set.edges[Forward(l)] < flushNow - TTL THEN Never ELSE set.edges[Forward(l)]
               /\ Forward(l) \in snap'.edges <=> set'.edges[Forward(l)] # Never
    BY <2>1, LinkFacts DEF Expire, Stale, Snapshot
  <2>3. ASSUME NEW l \in Link
        PROVE  IF Forward(l) \in snap'.edges THEN observed[l] >= flushNow - TTL ELSE Expired(l)
    BY <1>1, <2>2 DEF TimesInv, Expired, Stamp, Never
  <2> QED BY <2>1, <2>3 DEF FreshInv, Latest, Expired
<1>4. CASE FinishFlush
  BY <1>4 DEF FinishFlush, FreshInv, Latest, Expired
<1>5. CASE BeginFlush \/ FailFlush \/ Restart
  BY <1>5 DEF BeginFlush, FailFlush, Restart, FreshInv
<1>6. ASSUME UNCHANGED <<pc, flushNow, observed, snap, previous>> PROVE FreshInv'
  BY <1>6 DEF FreshInv, Latest, Expired
<1>7. CASE Tick \/ ExecCommand \/ ExecReturns \/ ReplayPipeline \/ RedisLoss
             \/ (\E c \in Emitter : EmitterDeleted(c)) \/ UNCHANGED vars
  BY <1>6, <1>7 DEF Tick, ExecCommand, ExecReturns, ReplayPipeline, RedisLoss, EmitterDeleted, vars
<1>8. CASE QueueAddEntity \/ QueueDelEntity \/ QueueAddEdge \/ QueueDelEdge
  BY <1>6, <1>8 DEF QueueAddEntity, QueueDelEntity, QueueAddEdge, QueueDelEdge, Queue
<1> QED BY <1>2, <1>3, <1>4, <1>5, <1>7, <1>8 DEF Next, Flusher

(* After a good flush Redis shows what was observed within TTL of its      *)
(* beginning and nothing else, faults apart, whatever is exported between  *)
(* the reading of the clock and the snapshot.                              *)
THEOREM FreshCorrect == Spec => []ShownIsFresh
<1> DEFINE I == TypeOK /\ WholeInv /\ FlushInv /\ TimesInv /\ FreshInv
<1>1. Init => I
  BY TypeInit, WholeInit, FlushInit, TimesInit, FreshInit
<1>2. I /\ [Next]_vars => I'
  BY TypeNext, WholeNext, FlushNext, TimesNext, FreshNext
<1>3. I => ShownIsFresh
  <2> SUFFICES ASSUME I, pc = "flushed", NEW l \in Link,
                      NEW e \in {Forward(l), Reverse(l)} \ adrift.edges
               PROVE  /\ e \in db.edges => observed[l] >= flushNow - TTL
                      /\ observed[l] \in (flushNow - TTL)..(flushNow - 1) \ {Never}
                           => e \in db.edges
    BY DEF ShownIsFresh
  <2>1. e \in db.edges <=> e \in previous.edges
    BY LinkFacts DEF FlushInv, MirrorsPrevious, InFlight, With, NoContents
  <2>2. e \in previous.edges <=> Forward(l) \in Latest.edges
    BY DEF WholeInv, Closed, Latest
  <2>3. IF Forward(l) \in Latest.edges THEN observed[l] >= flushNow - TTL
        ELSE Expired(l) \/ observed[l] >= flushNow
    BY DEF FreshInv
  <2>4. flushNow \in Int /\ observed[l] \in Int /\ TTL \in Int
    BY TimeAssumption DEF TypeOK, Stamp, Never
  <2> QED BY <2>1, <2>2, <2>3, <2>4 DEF Expired
<1> HIDE DEF I
<1> QED BY <1>1, <1>2, <1>3, PTL DEF Spec

-----------------------------------------------------------------------------
(* No command that adds an entity comes after the addition of an edge, in  *)
(* the pipeline or still to be queued.                                     *)
AddsEntity(c) == \E r \in Rel : c = HSet(r, flushNow) \/ c = SAddKind(r) \/ c = SAddId(r)

EntitiesFirst ==
  /\ \A i, j \in 1..Len(pipe) :
       i < j /\ (\E e \in Edge : pipe[i] = SAddEdge(e)) => ~AddsEntity(pipe[j])
  /\ (\E i \in 1..Len(pipe), e \in Edge : pipe[i] = SAddEdge(e)) => todo.addEntities = {}

LEMMA FirstEmpty == ASSUME pipe = <<>> PROVE EntitiesFirst
BY DEF EntitiesFirst

(* An added edge is no other command, and a command that adds an entity is *)
(* not one that removes anything.                                          *)
LEMMA Apart ==
  /\ \A e, r, t : SAddEdge(e) # HSet(r, t) /\ SAddEdge(e) # SAddKind(r) /\ SAddEdge(e) # SAddId(r)
  /\ \A e : ~AddsEntity(SAddEdge(e)) /\ ~AddsEntity(SRemEdge(e))
  /\ \A r : ~AddsEntity(Del(r)) /\ ~AddsEntity(SRemId(r)) /\ ~AddsEntity(SRemKind(r))
<1>1. \A e, r, t : SAddEdge(e) # HSet(r, t) /\ SAddEdge(e) # SAddKind(r) /\ SAddEdge(e) # SAddId(r)
  BY DEF HSet, SAddKind, SAddId, SAddEdge
<1>2. \A e : ~AddsEntity(SAddEdge(e)) /\ ~AddsEntity(SRemEdge(e))
  BY DEF AddsEntity, HSet, SAddKind, SAddId, SAddEdge, SRemEdge
<1>3. \A r : ~AddsEntity(Del(r)) /\ ~AddsEntity(SRemId(r)) /\ ~AddsEntity(SRemKind(r))
  BY DEF AddsEntity, HSet, SAddKind, SAddId, Del, SRemId, SRemKind
<1> QED BY <1>1, <1>2, <1>3

LEMMA FirstQueue ==
  ASSUME TypeOK, EntitiesFirst,
         NEW cmds \in Seq(Commands), NEW rest, Queue(cmds, rest),
         rest.addEntities \subseteq todo.addEntities,
         \/ todo.addEntities # {} /\ \A k \in 1..Len(cmds), e \in Edge : cmds[k] # SAddEdge(e)
         \/ todo.addEntities = {} /\ \A k \in 1..Len(cmds) : ~AddsEntity(cmds[k])
  PROVE  EntitiesFirst'
<1>1. /\ pipe \in Seq(Commands) /\ pipe' = pipe \o cmds /\ todo' = rest /\ flushNow' = flushNow
  BY DEF TypeOK, Queue
<1>2. /\ Len(pipe') = Len(pipe) + Len(cmds) /\ Len(pipe) \in Nat /\ Len(cmds) \in Nat
      /\ \A k \in 1..Len(pipe') : pipe'[k] = IF k <= Len(pipe) THEN pipe[k] ELSE cmds[k - Len(pipe)]
  BY <1>1, ConcatProperties
<1>3. \A c : AddsEntity(c)' <=> AddsEntity(c)
  BY <1>1 DEF AddsEntity
<1>4. ASSUME NEW i \in 1..Len(pipe'), NEW j \in 1..Len(pipe'), i < j,
             NEW e \in Edge, pipe'[i] = SAddEdge(e), AddsEntity(pipe'[j])
      PROVE  FALSE
  <2>1. CASE j <= Len(pipe)
    <3>1. pipe'[i] = pipe[i] /\ pipe'[j] = pipe[j] /\ i \in 1..Len(pipe) /\ j \in 1..Len(pipe)
      BY <1>2, <1>4, <2>1
    <3> QED BY <1>4, <3>1 DEF EntitiesFirst
  <2>2. CASE j > Len(pipe)
    <3>1. pipe'[j] = cmds[j - Len(pipe)] /\ j - Len(pipe) \in 1..Len(cmds)
      BY <1>2, <2>2
    <3>2. todo.addEntities # {}
      BY <1>4, <3>1
    <3>3. i <= Len(pipe)
      BY <1>2, <1>4, <3>2
    <3> QED BY <1>2, <1>4, <3>2, <3>3 DEF EntitiesFirst
  <2> QED BY <1>2, <2>1, <2>2
<1>5. ASSUME NEW i \in 1..Len(pipe'), NEW e \in Edge, pipe'[i] = SAddEdge(e)
      PROVE  rest.addEntities = {}
  <2>1. CASE i <= Len(pipe)
    <3>1. i \in 1..Len(pipe) /\ pipe[i] = SAddEdge(e)
      BY <1>2, <1>5, <2>1
    <3> QED BY <3>1 DEF EntitiesFirst
  <2>2. CASE i > Len(pipe)
    <3>1. i - Len(pipe) \in 1..Len(cmds) /\ cmds[i - Len(pipe)] = SAddEdge(e)
      BY <1>2, <1>5, <2>2
    <3> QED BY <3>1
  <2> QED BY <1>2, <1>5, <2>1, <2>2
<1> HIDE DEF EntitiesFirst
<1>6. \A i, j \in 1..Len(pipe') :
        i < j /\ (\E e \in Edge : pipe'[i] = SAddEdge(e)) => ~AddsEntity(pipe'[j])
  BY <1>4
<1> QED BY <1>1, <1>3, <1>5, <1>6 DEF EntitiesFirst

LEMMA FirstNext == TypeOK /\ FlushInv /\ EntitiesFirst /\ [Next]_vars => EntitiesFirst'
<1> SUFFICES ASSUME TypeOK, FlushInv, EntitiesFirst, [Next]_vars PROVE EntitiesFirst'
  OBVIOUS
<1>1. CASE QueueAddEntity
  <2>1. PICK r \in todo.addEntities :
          Queue(AddEntityCommands(r), [todo EXCEPT !.addEntities = @ \ {r}])
    BY <1>1 DEF QueueAddEntity
  <2> DEFINE cmds == AddEntityCommands(r)
             rest == [todo EXCEPT !.addEntities = @ \ {r}]
  <2>2. r \in Rel /\ cmds \in Seq(Commands)
    BY AddEntityType DEF TypeOK, Work
  <2>3. \A k \in 1..Len(cmds), e \in Edge : cmds[k] # SAddEdge(e)
    BY Apart DEF AddEntityCommands
  <2>4. rest.addEntities \subseteq todo.addEntities
    BY DEF TypeOK, Work
  <2>5. Queue(cmds, rest) /\ todo.addEntities # {}
    BY <2>1
  <2> HIDE DEF cmds, rest
  <2> QED BY <2>2, <2>3, <2>4, <2>5, FirstQueue
<1>2. CASE QueueDelEntity
  <2>1. PICK r \in todo.delEntities :
          /\ todo.addEntities = {}
          /\ Queue(DelEntityCommands(r), [todo EXCEPT !.delEntities = @ \ {r}])
    BY <1>2 DEF QueueDelEntity
  <2> DEFINE cmds == DelEntityCommands(r)
             rest == [todo EXCEPT !.delEntities = @ \ {r}]
  <2>2. r \in Rel /\ cmds \in Seq(Commands)
    BY DelEntityType DEF TypeOK, Work
  <2>3. \A k \in 1..Len(cmds) : ~AddsEntity(cmds[k])
    BY Apart DEF DelEntityCommands
  <2>4. rest.addEntities \subseteq todo.addEntities
    BY DEF TypeOK, Work
  <2>5. Queue(cmds, rest) /\ todo.addEntities = {}
    BY <2>1
  <2> HIDE DEF cmds, rest
  <2> QED BY <2>2, <2>3, <2>4, <2>5, FirstQueue
<1>3. CASE QueueAddEdge
  <2>1. PICK e \in todo.addEdges :
          /\ todo.addEntities = {}
          /\ Queue(<<SAddEdge(e)>>, [todo EXCEPT !.addEdges = @ \ {e}])
    BY <1>3 DEF QueueAddEdge
  <2> DEFINE cmds == <<SAddEdge(e)>>
             rest == [todo EXCEPT !.addEdges = @ \ {e}]
  <2>2. e \in Edge /\ cmds \in Seq(Commands)
    BY EdgeCommandType DEF TypeOK, Work
  <2>3. \A k \in 1..Len(cmds) : ~AddsEntity(cmds[k])
    BY Apart
  <2>4. rest.addEntities \subseteq todo.addEntities
    BY DEF TypeOK, Work
  <2>5. Queue(cmds, rest) /\ todo.addEntities = {}
    BY <2>1
  <2> HIDE DEF cmds, rest
  <2> QED BY <2>2, <2>3, <2>4, <2>5, FirstQueue
<1>4. CASE QueueDelEdge
  <2>1. PICK e \in todo.delEdges :
          /\ todo.addEntities = {}
          /\ Queue(<<SRemEdge(e)>>, [todo EXCEPT !.delEdges = @ \ {e}])
    BY <1>4 DEF QueueDelEdge
  <2> DEFINE cmds == <<SRemEdge(e)>>
             rest == [todo EXCEPT !.delEdges = @ \ {e}]
  <2>2. e \in Edge /\ cmds \in Seq(Commands)
    BY EdgeCommandType DEF TypeOK, Work
  <2>3. \A k \in 1..Len(cmds) : ~AddsEntity(cmds[k])
    BY Apart
  <2>4. rest.addEntities \subseteq todo.addEntities
    BY DEF TypeOK, Work
  <2>5. Queue(cmds, rest) /\ todo.addEntities = {}
    BY <2>1
  <2> HIDE DEF cmds, rest
  <2> QED BY <2>2, <2>3, <2>4, <2>5, FirstQueue
<1>5. CASE BeginFlush \/ ExpireAndSnapshot
  <2>1. pc # "writing" /\ pipe' = pipe
    BY <1>5 DEF BeginFlush, ExpireAndSnapshot, Between
  <2>2. pipe' = <<>>
    BY <2>1 DEF FlushInv, WritingInv
  <2> QED BY <2>2 DEF EntitiesFirst
<1>6. CASE ExecReturns \/ FinishFlush \/ FailFlush \/ Restart
  <2>1. pipe' = <<>>
    BY <1>6 DEF ExecReturns, FinishFlush, FailFlush, Restart
  <2> QED BY <2>1 DEF EntitiesFirst
<1>7. ASSUME UNCHANGED <<pipe, todo, flushNow>> PROVE EntitiesFirst'
  BY <1>7 DEF EntitiesFirst, AddsEntity
<1>8. CASE (\E links \in SUBSET Link : Export(links)) \/ Tick \/ ExecCommand \/ ReplayPipeline
             \/ RedisLoss \/ (\E c \in Emitter : EmitterDeleted(c)) \/ UNCHANGED vars
  BY <1>7, <1>8 DEF Export, Tick, ExecCommand, ReplayPipeline, RedisLoss, EmitterDeleted, vars
<1> QED BY <1>1, <1>2, <1>3, <1>4, <1>5, <1>6, <1>8 DEF Next, Flusher

-----------------------------------------------------------------------------
(* Between flushes an edge in Redis is an edge of the last good snapshot,  *)
(* and a snapshot has the entities its edges name.                         *)
LEMMA DanglingAtRest ==
  ASSUME TypeOK', WholeInv', FlushInv', pc' # "writing" PROVE NoDanglingEdge'
<1> SUFFICES ASSUME NEW e \in db'.edges \ adrift'.edges, RelOf(e) \notin adrift'.entities
             PROVE  Listed(db', RelOf(e))
  BY DEF NoDanglingEdge
<1>1. e \in Edge /\ RelOf(e) \in Rel
  BY EdgeFacts DEF TypeOK, Store
<1>2. InFlight' = NoContents /\ MirrorsPrevious' /\ Closed(previous')
  BY DEF InFlight, FlushInv, WholeInv, Closed
<1>3. e \in previous'.edges
  BY <1>1, <1>2 DEF MirrorsPrevious, With, NoContents
<1>4. RelOf(e) \in previous'.entities
  BY <1>1, <1>2, <1>3, ClosedEdge
<1> QED BY <1>1, <1>2, <1>4 DEF MirrorsPrevious, With, NoContents

(* One command of a flush: an edge is added only when nothing of the delta *)
(* that adds its entity is left to do.                                     *)
LEMMA DanglingExec ==
  ASSUME TypeOK, WholeInv, FlushInv, EntitiesFirst, NoDanglingEdge, ExecCommand,
         TypeOK', FlushInv'
  PROVE  NoDanglingEdge'
<1> DEFINE c == pipe[sent + 1]
<1>1. /\ pc = "writing" /\ sent \in Nat /\ sent < Len(pipe) /\ Len(pipe) \in Nat
      /\ db' = Apply(db, c) /\ sent' = sent + 1
      /\ UNCHANGED <<pc, flushNow, previous, snap, todo, pipe, adrift, wiped>>
  BY DEF ExecCommand, Executing, TypeOK
<1>2. c \in DeltaCommands
  BY <1>1 DEF FlushInv, WritingInv, OnlyDelta
<1>3. \A i \in (sent + 2)..Len(pipe), e \in Edge :
        c = SAddEdge(e) => ~AddsEntity(pipe[i]) /\ todo.addEntities = {}
  BY <1>1 DEF EntitiesFirst
<1> HIDE DEF c
<1>4. /\ db \in Store /\ flushNow \in 0..MaxTime
      /\ snap.entities \subseteq Rel /\ previous.entities \subseteq Rel
      /\ snap.edges \subseteq Edge /\ previous.edges \subseteq Edge
  BY DEF TypeOK, Contents
<1>5. After(c, db)
  BY <1>2, <1>4, DeltaCases, AfterCommand
     DEF AddedEntities, RemovedEntities, AddedEdges, RemovedEdges
<1> SUFFICES ASSUME NEW e \in db'.edges \ adrift.edges, RelOf(e) \notin adrift.entities,
                    RelOf(e) \notin previous.entities \ snap.entities
             PROVE  Listed(db', RelOf(e))
  BY <1>1 DEF NoDanglingEdge
<1> DEFINE r == RelOf(e)
<1>6. e \in Edge /\ r \in Rel
  BY EdgeFacts DEF TypeOK, Store
<1> HIDE DEF r
<1>7. r \notin RemovedEntities
  BY DEF r, RemovedEntities
<1>8. CASE e \in db.edges
  <2>1. Listed(db, r)
    BY <1>1, <1>8 DEF NoDanglingEdge, r
  <2>2. Listed(db', r)
    BY <1>1, <1>2, <1>5, <1>6, <1>7, <2>1, DeltaNames DEF After, Listed
  <2> QED BY <2>2 DEF r
<1>9. CASE e \notin db.edges
  <2>1. c = SAddEdge(e) /\ e \in AddedEdges
    BY <1>1, <1>2, <1>5, <1>6, <1>9, DeltaNames DEF After
  <2>2. r \in snap.entities
    BY <1>6, <2>1, ClosedEdge DEF AddedEdges, WholeInv, r
  <2>3. CASE r \in previous.entities
    <3>1. r \notin DeltaItems'.entities
      BY <1>1, <2>2, <2>3 DEF DeltaItems, With, Without
    <3>2. r \in Rel \ With(adrift', InFlight').entities
      BY <1>1, <1>6, <3>1 DEF With, InFlight, r
    <3>3. Listed(db', r)
      BY <1>1, <2>3, <3>2 DEF FlushInv, MirrorsPrevious
    <3> QED BY <3>3 DEF r
  <2>4. CASE r \notin previous.entities
    <3>1. r \in AddedEntities' \ Exempt'.entities
      BY <1>1, <2>2, <2>4 DEF AddedEntities, Exempt, NoContents, r
    <3>2. EntityAdds(r)'
      BY <1>1, <3>1 DEF FlushInv, WritingInv, Progress
    <3>3. todo' = todo /\ todo.addEntities = {}
      BY <1>1, <1>6, <2>1 DEF EntitiesFirst, c
    <3>4. \A x : AddsEntity(x) => ~Pending(x)'
      BY <1>1, <1>3, <1>6, <2>1 DEF Pending
    <3>5. AddsEntity(HSet(r, flushNow)) /\ AddsEntity(SAddKind(r)) /\ AddsEntity(SAddId(r))
      BY <1>6 DEF AddsEntity
    <3>6. Listed(db', r)
      BY <1>1, <3>2, <3>3, <3>4, <3>5 DEF EntityAdds, Listed
    <3> QED BY <3>6 DEF r
  <2> QED BY <2>3, <2>4
<1> QED BY <1>8, <1>9

LEMMA DanglingNext ==
  TypeOK /\ WholeInv /\ FlushInv /\ EntitiesFirst /\ NoDanglingEdge /\ [Next]_vars
  => NoDanglingEdge'
<1> SUFFICES ASSUME TypeOK, WholeInv, FlushInv, EntitiesFirst, NoDanglingEdge, [Next]_vars
             PROVE  NoDanglingEdge'
  OBVIOUS
<1>1. TypeOK' /\ WholeInv' /\ FlushInv'
  BY TypeNext, WholeNext, FlushNext
<1>2. CASE ExecCommand
  BY <1>1, <1>2, DanglingExec
<1>3. CASE BeginFlush \/ FinishFlush \/ FailFlush \/ Restart
  <2>1. pc' # "writing"
    BY <1>3 DEF BeginFlush, FinishFlush, FailFlush, Restart
  <2> QED BY <1>1, <2>1, DanglingAtRest
<1>4. CASE ExpireAndSnapshot
  <2>1. pc # "writing" /\ UNCHANGED <<db, adrift>>
    BY <1>4 DEF ExpireAndSnapshot
  <2> QED BY <2>1 DEF NoDanglingEdge
<1>5. CASE RedisLoss
  BY <1>5 DEF RedisLoss, EmptyStore, NoDanglingEdge
<1>6. CASE \E x \in Emitter : EmitterDeleted(x)
  <2>1. PICK x \in Emitter : EmitterDeleted(x)
    BY <1>6
  <2>2. /\ \A r \in Rel : Listed(db, r) => Listed(db', r)
        /\ db'.edges \subseteq db.edges
    BY <2>1, EmitterDelEffect DEF EmitterDeleted, TypeOK, Listed
  <2>3. /\ adrift'.entities = adrift.entities /\ adrift.edges \subseteq adrift'.edges
        /\ UNCHANGED <<pc, previous, snap>>
    BY <2>1 DEF EmitterDeleted, With
  <2>4. \A e \in db.edges : RelOf(e) \in Rel
    BY EdgeFacts DEF TypeOK, Store
  <2> QED BY <2>2, <2>3, <2>4 DEF NoDanglingEdge
<1>7. ASSUME UNCHANGED <<pc, previous, snap, db, adrift>> PROVE NoDanglingEdge'
  BY <1>7 DEF NoDanglingEdge
<1>8. CASE QueueAddEntity \/ QueueDelEntity \/ QueueAddEdge \/ QueueDelEdge
  BY <1>7, <1>8 DEF QueueAddEntity, QueueDelEntity, QueueAddEdge, QueueDelEdge, Queue
<1>9. CASE \/ (\E links \in SUBSET Link : Export(links)) \/ Tick \/ ExecReturns
           \/ ReplayPipeline \/ UNCHANGED vars
  BY <1>7, <1>9 DEF Export, Tick, ExecReturns, ReplayPipeline, vars
<1> QED BY <1>2, <1>3, <1>4, <1>5, <1>6, <1>8, <1>9 DEF Next, Flusher

(* A reader never follows an edge to a relationship entity that is not     *)
(* there, except while the flush that removes that entity runs: for every  *)
(* size of chunk, every order of the loops' items, and every fault, apart  *)
(* from what the faults set adrift.                                        *)
THEOREM NoDanglingCorrect == Spec => []NoDanglingEdge
<1> DEFINE I == TypeOK /\ WholeInv /\ FlushInv /\ EntitiesFirst /\ NoDanglingEdge
<1>1. Init => I
  <2>1. Init => EntitiesFirst
    BY FirstEmpty DEF Init
  <2>2. Init => NoDanglingEdge
    BY DEF Init, EmptyStore, NoDanglingEdge
  <2> QED BY <2>1, <2>2, TypeInit, WholeInit, FlushInit
<1>2. I /\ [Next]_vars => I'
  BY TypeNext, WholeNext, FlushNext, FirstNext, DanglingNext
<1>3. I => NoDanglingEdge
  OBVIOUS
<1> HIDE DEF I
<1> QED BY <1>1, <1>2, <1>3, PTL DEF Spec

(* One step: only ExecCommand sends a command on.  A command that adds     *)
(* names what the snapshot has, one that removes what it has not.          *)
LEMMA TowardsStep ==
  ASSUME TypeOK, WholeInv, FlushInv, Next, sent' > sent
  PROVE  /\ \A r \in Rel :
              /\ Kept(r \in snap.entities, Exists(db, r), Exists(db', r))
              /\ Kept(r \in snap.entities, r \in db.byKind, r \in db'.byKind)
              /\ Kept(r \in snap.entities, r \in db.ids, r \in db'.ids)
         /\ \A e \in Edge : Kept(e \in snap.edges, e \in db.edges, e \in db'.edges)
<1>1. sent \in Nat
  BY DEF TypeOK
<1>2. sent' # sent /\ sent' # 0
  BY <1>1
<1>3. ExecCommand
  BY <1>2 DEF Next, Flusher, Export, Tick, BeginFlush, ExpireAndSnapshot, QueueAddEntity,
              QueueDelEntity, QueueAddEdge, QueueDelEdge, Queue, ExecReturns, FinishFlush,
              FailFlush, ReplayPipeline, Restart, RedisLoss, EmitterDeleted
<1> DEFINE c == pipe[sent + 1]
<1>4. /\ c \in DeltaCommands
      /\ \A r \in Rel :
           /\ Exists(db', r) <=> (c = HSet(r, flushNow) \/ (Exists(db, r) /\ c # Del(r)))
           /\ r \in db'.byKind <=> (c = SAddKind(r) \/ (r \in db.byKind /\ c # SRemKind(r)))
           /\ r \in db'.ids <=> (c = SAddId(r) \/ (r \in db.ids /\ c # SRemId(r)))
      /\ \A e \in Edge :
           e \in db'.edges <=>
             (c = SAddEdge(e) \/ (e \in db.edges /\ c # SRemEdge(e) /\ c # Del(e.from)))
      /\ \A e \in Edge : e \in snap.edges => c # Del(e.from)
  BY <1>3, ExecEffect
<1> HIDE DEF c
<1>5. ASSUME NEW r \in Rel
      PROVE  /\ Kept(r \in snap.entities, Exists(db, r), Exists(db', r))
             /\ Kept(r \in snap.entities, r \in db.byKind, r \in db'.byKind)
             /\ Kept(r \in snap.entities, r \in db.ids, r \in db'.ids)
  <2>1. c = HSet(r, flushNow) \/ c = SAddKind(r) \/ c = SAddId(r) => r \in snap.entities
    BY <1>4, DeltaNames DEF AddedEntities
  <2>2. c = Del(r) \/ c = SRemId(r) \/ c = SRemKind(r) => r \notin snap.entities
    BY <1>4, DeltaNames DEF RemovedEntities
  <2> QED BY <1>4, <2>1, <2>2 DEF Kept
<1>6. ASSUME NEW e \in Edge
      PROVE  Kept(e \in snap.edges, e \in db.edges, e \in db'.edges)
  <2>1. c = SAddEdge(e) => e \in snap.edges
    BY <1>4, DeltaNames DEF AddedEdges
  <2>2. c = SRemEdge(e) => e \notin snap.edges
    BY <1>4, DeltaNames DEF RemovedEdges
  <2> QED BY <1>4, <2>1, <2>2 DEF Kept
<1> QED BY <1>5, <1>6

(* No command of a flush undoes what already is as the flush's snapshot    *)
(* has it, for every size of chunk, every order of the loops' items and    *)
(* whatever faults have left in Redis before.                              *)
THEOREM TowardsCorrect == Spec => TowardsSnapshot
<1>1. Init => TypeOK /\ WholeInv /\ FlushInv
  BY TypeInit, WholeInit, FlushInit
<1>2. TypeOK /\ WholeInv /\ FlushInv /\ [Next]_vars => (TypeOK /\ WholeInv /\ FlushInv)'
  BY TypeNext, WholeNext, FlushNext
<1> DEFINE Step ==
      sent' > sent =>
        /\ \A r \in Rel :
             /\ Kept(r \in snap.entities, Exists(db, r), Exists(db', r))
             /\ Kept(r \in snap.entities, r \in db.byKind, r \in db'.byKind)
             /\ Kept(r \in snap.entities, r \in db.ids, r \in db'.ids)
        /\ \A e \in Edge : Kept(e \in snap.edges, e \in db.edges, e \in db'.edges)
<1>3. TypeOK /\ WholeInv /\ FlushInv /\ [Next]_vars => [Step]_vars
  BY TowardsStep
<1> HIDE DEF Step
<1>4. Spec => [][Step]_vars
  BY <1>1, <1>2, <1>3, PTL DEF Spec
<1> QED BY <1>4 DEF TowardsSnapshot, Step
=============================================================================
