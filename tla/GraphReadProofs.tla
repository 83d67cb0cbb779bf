-------------------------- MODULE GraphReadProofs ---------------------------
(***************************************************************************)
(* Theorems about GraphRead, for any ids, edges, stores, requests and      *)
(* writers: what Prune leaves alone.                                       *)
(***************************************************************************)
EXTENDS GraphRead, RedisStoreProofs

(* What the writers send, and what Prune sends for what it drops.          *)
WriterCommands ==
  {HSet(i, Clock) : i \in Id} \cup {SAddKind(i) : i \in Id} \cup {SAddId(i) : i \in Id}
  \cup {HSetMeta(i, md) : i \in Id, md \in Metadata}
  \cup {Del(i) : i \in Id} \cup {SRemId(i) : i \in Id} \cup {SRemKind(i) : i \in Id}
  \cup {SAddEdge(e) : e \in Edge} \cup {SRemEdge(e) : e \in Edge}

DropCommands(dropped) == {Del(i) : i \in dropped} \cup {SRemId(i) : i \in dropped}
                         \cup {SRemKind(i) : i \in dropped}

(* PruneSpares of any store, with and without the request.                 *)
Spares(d, alone, dropped) ==
  /\ \A i \in Id \ dropped : /\ d.core[i] = alone.core[i]
                             /\ d.meta[i] = alone.meta[i]
                             /\ i \in alone.ids <=> i \in d.ids
                             /\ i \in alone.byKind <=> i \in d.byKind
  /\ d.edges \subseteq alone.edges
  /\ \A e \in alone.edges \ d.edges : {e.from, e.to} \cap dropped # {}

-----------------------------------------------------------------------------
(* What the commands do to a store.                                        *)
LEMMA NoMetaType == NoMeta \in Metadata
BY DEF NoMeta, Metadata

(* DEL of any id, with the outgoing edges named.                           *)
LEMMA DelType ==
  ASSUME NEW d \in Stores, NEW i
  PROVE  /\ Apply(d, Del(i)) \in Stores
         /\ \A j \in Id \ {i} : /\ Apply(d, Del(i)).core[j] = d.core[j]
                                /\ Apply(d, Del(i)).meta[j] = d.meta[j]
         /\ i \in Id => Apply(d, Del(i)).core[i] = Absent /\ Apply(d, Del(i)).meta[i] = NoMeta
         /\ Apply(d, Del(i)).ids = d.ids /\ Apply(d, Del(i)).byKind = d.byKind
         /\ Apply(d, Del(i)).edges = d.edges \ Outgoing(d, i)
<1> DEFINE core == [d.core EXCEPT ![i] = Absent]
           meta == [d.meta EXCEPT ![i] = NoMeta]
           edges == d.edges \ Outgoing(d, i)
<1>1. Apply(d, Del(i)) = [d EXCEPT !.core = core, !.meta = meta, !.edges = edges]
  BY DelEffect
<1>2. core \in [Id -> {Absent} \cup 0..Clock] /\ meta \in [Id -> Metadata] /\ edges \subseteq Edge
  BY NoMetaType DEF Stores
<1>3. \A j \in Id \ {i} : core[j] = d.core[j] /\ meta[j] = d.meta[j]
  BY DEF Stores
<1>4. i \in Id => core[i] = Absent /\ meta[i] = NoMeta
  BY DEF Stores
<1> HIDE DEF core, meta
<1> QED BY <1>1, <1>2, <1>3, <1>4 DEF Stores

(* Every command of the writers keeps the shape of the store.              *)
LEMMA ApplyType ==
  ASSUME NEW d \in Stores, NEW c \in WriterCommands PROVE Apply(d, c) \in Stores
<1>1. ASSUME NEW i \in Id, c = HSet(i, Clock) PROVE Apply(d, c) \in Stores
  BY <1>1, HSetEffect DEF Stores, Clock
<1>2. ASSUME NEW i \in Id, NEW md \in Metadata, c = HSetMeta(i, md) PROVE Apply(d, c) \in Stores
  <2>1. Merged(d, i, md) \in Metadata
    BY DEF Merged, Metadata, Stores
  <2>2. Apply(d, c) = [d EXCEPT !.meta = [@ EXCEPT ![i] = Merged(d, i, md)]]
    BY <1>2, HSetMetaEffect
  <2> QED BY <2>1, <2>2 DEF Stores
<1>3. ASSUME NEW i \in Id, c = SAddKind(i) \/ c = SAddId(i) \/ c = SRemId(i) \/ c = SRemKind(i)
      PROVE  Apply(d, c) \in Stores
  BY <1>3, SAddKindEffect, SAddIdEffect, SRemIdEffect, SRemKindEffect DEF Stores
<1>4. ASSUME NEW i \in Id, c = Del(i) PROVE Apply(d, c) \in Stores
  BY <1>4, DelType
<1>5. ASSUME NEW e \in Edge, c = SAddEdge(e) \/ c = SRemEdge(e) PROVE Apply(d, c) \in Stores
  BY <1>5, SAddEdgeEffect, SRemEdgeEffect DEF Stores
<1> QED BY <1>1, <1>2, <1>3, <1>4, <1>5 DEF WriterCommands

-----------------------------------------------------------------------------
(* What is spared stays spared: a writer's command does the same with and  *)
(* without the request, and a command of Prune touches only what it drops. *)
LEMMA SparesWriter ==
  ASSUME NEW d \in Stores, NEW alone \in Stores, NEW dropped, Spares(d, alone, dropped),
         NEW c \in WriterCommands
  PROVE  Spares(Apply(d, c), Apply(alone, c), dropped)
<1>1. ASSUME NEW i \in Id, c = HSet(i, Clock)
      PROVE  Spares(Apply(d, c), Apply(alone, c), dropped)
  <2>1. /\ Apply(d, c) = [d EXCEPT !.core = [@ EXCEPT ![i] = Clock]]
        /\ Apply(alone, c) = [alone EXCEPT !.core = [@ EXCEPT ![i] = Clock]]
    BY <1>1, HSetEffect
  <2> QED BY <2>1 DEF Spares, Stores
<1>2. ASSUME NEW i \in Id, NEW md \in Metadata, c = HSetMeta(i, md)
      PROVE  Spares(Apply(d, c), Apply(alone, c), dropped)
  <2>1. /\ Apply(d, c) = [d EXCEPT !.meta = [@ EXCEPT ![i] = Merged(d, i, md)]]
        /\ Apply(alone, c) = [alone EXCEPT !.meta = [@ EXCEPT ![i] = Merged(alone, i, md)]]
    BY <1>2, HSetMetaEffect
  <2>2. i \notin dropped => Merged(d, i, md) = Merged(alone, i, md)
    BY DEF Merged, Spares
  <2> QED BY <2>1, <2>2 DEF Spares, Stores
<1>3. ASSUME NEW i \in Id, c = SAddKind(i) \/ c = SAddId(i) \/ c = SRemId(i) \/ c = SRemKind(i)
      PROVE  Spares(Apply(d, c), Apply(alone, c), dropped)
  <2>1. CASE c = SAddKind(i)
    BY <2>1, SAddKindEffect DEF Spares, Stores
  <2>2. CASE c = SAddId(i)
    BY <2>2, SAddIdEffect DEF Spares, Stores
  <2>3. CASE c = SRemId(i)
    BY <2>3, SRemIdEffect DEF Spares, Stores
  <2>4. CASE c = SRemKind(i)
    BY <2>4, SRemKindEffect DEF Spares, Stores
  <2> QED BY <1>3, <2>1, <2>2, <2>3, <2>4
<1>4. ASSUME NEW i \in Id, c = Del(i) PROVE Spares(Apply(d, c), Apply(alone, c), dropped)
  BY <1>4, DelType, SMTT(40) DEF Spares, Outgoing
<1>5. ASSUME NEW e \in Edge, c = SAddEdge(e) \/ c = SRemEdge(e)
      PROVE  Spares(Apply(d, c), Apply(alone, c), dropped)
  <2>1. CASE c = SAddEdge(e)
    BY <2>1, SAddEdgeEffect DEF Spares, Stores
  <2>2. CASE c = SRemEdge(e)
    BY <2>2, SRemEdgeEffect DEF Spares, Stores
  <2> QED BY <1>5, <2>1, <2>2
<1> QED BY <1>1, <1>2, <1>3, <1>4, <1>5 DEF WriterCommands

LEMMA SparesDrop ==
  ASSUME NEW d \in Stores, NEW alone \in Stores, NEW dropped, Spares(d, alone, dropped),
         NEW c \in DropCommands(dropped)
  PROVE  Apply(d, c) \in Stores /\ Spares(Apply(d, c), alone, dropped)
<1>1. ASSUME NEW i \in dropped, c = Del(i)
      PROVE  Apply(d, c) \in Stores /\ Spares(Apply(d, c), alone, dropped)
  <2>1. /\ Apply(d, c).edges \subseteq alone.edges
        /\ \A e \in alone.edges \ Apply(d, c).edges : {e.from, e.to} \cap dropped # {}
    BY <1>1, DelType DEF Spares, Outgoing
  <2> QED BY <1>1, <2>1, DelType DEF Spares
<1>2. ASSUME NEW i \in dropped, c = SRemId(i)
      PROVE  Apply(d, c) \in Stores /\ Spares(Apply(d, c), alone, dropped)
  BY <1>2, SRemIdEffect DEF Spares, Stores
<1>3. ASSUME NEW i \in dropped, c = SRemKind(i)
      PROVE  Apply(d, c) \in Stores /\ Spares(Apply(d, c), alone, dropped)
  BY <1>3, SRemKindEffect DEF Spares, Stores
<1> QED BY <1>1, <1>2, <1>3 DEF DropCommands

LEMMA SparesStrip ==
  ASSUME NEW d \in Stores, NEW alone \in Stores, NEW dropped, Spares(d, alone, dropped),
         NEW e, e.to \in dropped
  PROVE  Apply(d, SRemEdge(e)) \in Stores /\ Spares(Apply(d, SRemEdge(e)), alone, dropped)
<1>1. Apply(d, SRemEdge(e)) = [d EXCEPT !.edges = @ \ {e}]
  BY SRemEdgeEffect
<1> QED BY <1>1 DEF Spares, Stores

LEMMA SparesMore ==
  ASSUME NEW d, NEW alone, NEW dropped, NEW more, Spares(d, alone, dropped), dropped \subseteq more
  PROVE  Spares(d, alone, more)
BY DEF Spares

-----------------------------------------------------------------------------
(* The inductive invariant: whatever Prune has in hand, to delete or to    *)
(* strip, concerns only what it has counted as too old.                    *)
Locals(c) ==
  c \in [pc : {c.pc}, req : {c.req}, status : {c.status}, ids : {c.ids}, cur : {c.cur},
         edges : {c.edges}, links : {c.links}, depth : {c.depth}, queue : {c.queue},
         visited : {c.visited}, max : {c.max}, found : {c.found}, dropped : {c.dropped},
         cmds : {c.cmds}]

SeenShape == seen \in [steady : {seen.steady}, ever : {seen.ever}, added : {seen.added},
                       alone : {seen.alone}, failed : {seen.failed}]

InHand(c) ==
  /\ c.pc \in {"kind", "drop"} => c.ids \subseteq c.dropped
  /\ c.cmds \in Seq(DropCommands(c.dropped))
  /\ c.pc = "drop" => c.cmds # <<>>
  /\ \A e \in c.links : e.to \in c.dropped

Pruning(c) == c.pc \in {"kind", "drop", "survivors", "strip"} => op = "prune"

StoreInv == /\ db \in Stores /\ seen.alone \in Stores
            /\ pipe \in Seq(WriterCommands)
            /\ Locals(call) /\ SeenShape /\ Pruning(call)

PruneInv == StoreInv /\ (op = "prune" => InHand(call) /\ Spares(db, seen.alone, call.dropped))

LEMMA PruneInit == Init => PruneInv
<1> SUFFICES ASSUME Init PROVE PruneInv
  OBVIOUS
<1>1. PICK c \in Cases : db = c.store /\ call = Asked(c.req)
  BY DEF Init
<1>2. db \in Stores /\ seen.alone = db /\ pipe = <<>>
  BY <1>1, CaseAssumption DEF Init, Seen
<1>3. Locals(call) /\ SeenShape /\ Pruning(call)
  BY <1>1 DEF Init, Seen, Asked, Locals, SeenShape, Pruning
<1>4. InHand(call)
  BY <1>1 DEF Asked, InHand
<1>5. Spares(db, seen.alone, call.dropped)
  BY <1>2 DEF Spares
<1> QED BY <1>2, <1>3, <1>4, <1>5 DEF PruneInv, StoreInv

(* The commands of an operation are commands of the writers.               *)
LEMMA OperationType ==
  ASSUME NEW cmds \in Operations
  PROVE  cmds \in Seq(WriterCommands) /\ cmds # <<>>
<1>1. ASSUME NEW i \in WrittenIds, NEW md \in Metadata, cmds = UpsertCommands(i, md)
      PROVE  cmds \in Seq(WriterCommands) /\ cmds # <<>>
  <2> DEFINE core == <<HSet(i, Clock), SAddKind(i), SAddId(i)>>
             meta == IF \E f \in Field : md[f] # NoValue THEN <<HSetMeta(i, md)>> ELSE <<>>
  <2>1. /\ HSet(i, Clock) \in WriterCommands /\ SAddKind(i) \in WriterCommands
        /\ SAddId(i) \in WriterCommands /\ HSetMeta(i, md) \in WriterCommands
    BY WrittenAssumption DEF WriterCommands
  <2>2. core \in Seq(WriterCommands) /\ Len(core) = 3 /\ meta \in Seq(WriterCommands)
    BY <2>1
  <2>3. cmds = core \o meta
    BY <1>1 DEF UpsertCommands
  <2> HIDE DEF core, meta
  <2>4. cmds \in Seq(WriterCommands) /\ Len(cmds) = Len(core) + Len(meta)
    BY <2>2, <2>3, ConcatProperties
  <2>5. Len(meta) \in Nat
    BY <2>2
  <2>6. Len(cmds) # 0
    BY <2>2, <2>4, <2>5
  <2> QED BY <2>4, <2>6, EmptySeq
<1>2. ASSUME NEW i \in WrittenIds, cmds = DeleteCommands(i)
      PROVE  cmds \in Seq(WriterCommands) /\ cmds # <<>>
  <2>1. Del(i) \in WriterCommands /\ SRemId(i) \in WriterCommands /\ SRemKind(i) \in WriterCommands
    BY WrittenAssumption DEF WriterCommands
  <2> QED BY <1>2, <2>1 DEF DeleteCommands
<1>3. ASSUME NEW e \in WrittenEdges, cmds = <<SAddEdge(e)>> \/ cmds = <<SRemEdge(e)>>
      PROVE  cmds \in Seq(WriterCommands) /\ cmds # <<>>
  <2>1. SAddEdge(e) \in WriterCommands /\ SRemEdge(e) \in WriterCommands
    BY WrittenAssumption DEF WriterCommands
  <2>2. CASE cmds = <<SAddEdge(e)>>
    BY <2>1, <2>2
  <2>3. CASE cmds = <<SRemEdge(e)>>
    BY <2>1, <2>3
  <2> QED BY <1>3, <2>2, <2>3
<1> QED BY <1>1, <1>2, <1>3 DEF Operations

(* The writers' steps.                                                     *)
LEMMA ExecuteInv ==
  ASSUME PruneInv, NEW c \in WriterCommands, Execute(c), pipe' \in Seq(WriterCommands)
  PROVE  PruneInv'
<1>1. /\ db' = Apply(db, c) /\ call' = call
      /\ seen' = [Watch(db') EXCEPT !.added = AddedTo(@, c), !.alone = Apply(@, c)]
  BY DEF Execute
<1>2. SeenShape' /\ seen'.alone = Apply(seen.alone, c)
  BY <1>1 DEF PruneInv, StoreInv, SeenShape, Watch
<1>3. db' \in Stores /\ seen'.alone \in Stores
  BY <1>1, <1>2, ApplyType DEF PruneInv, StoreInv
<1>4. StoreInv'
  BY <1>1, <1>2, <1>3 DEF PruneInv, StoreInv, Pruning, op
<1>5. ASSUME op' = "prune" PROVE InHand(call') /\ Spares(db', seen'.alone, call'.dropped)
  <2>1. op = "prune"
    BY <1>1, <1>5 DEF op
  <2>2. InHand(call) /\ Spares(db, seen.alone, call.dropped)
    BY <2>1 DEF PruneInv
  <2>3. db \in Stores /\ seen.alone \in Stores
    BY DEF PruneInv, StoreInv
  <2> QED BY <1>1, <1>2, <2>2, <2>3, SparesWriter
<1> QED BY <1>4, <1>5 DEF PruneInv

(* A step of the reader that does not write.                               *)
LEMMA ReplyInv ==
  ASSUME PruneInv, NEW err, NEW locals, Reply(err, locals),
         Locals(call'), locals.req = call.req, Pruning(locals),
         op = "prune" => InHand(locals) /\ call.dropped \subseteq locals.dropped
  PROVE  PruneInv'
<1>1. /\ call' = locals /\ db' = db /\ pipe' = pipe
      /\ seen' = [seen EXCEPT !.failed = @ \/ err]
  BY DEF Reply
<1>2. SeenShape' /\ seen'.alone = seen.alone
  BY <1>1 DEF PruneInv, StoreInv, SeenShape
<1>3. StoreInv'
  BY <1>1, <1>2 DEF PruneInv, StoreInv, Pruning, op
<1>4. ASSUME op' = "prune" PROVE InHand(call') /\ Spares(db', seen'.alone, call'.dropped)
  <2>1. op = "prune"
    BY <1>1, <1>4 DEF op
  <2>2. Spares(db, seen.alone, call.dropped)
    BY <2>1 DEF PruneInv
  <2> QED BY <1>1, <1>2, <2>1, <2>2, SparesMore
<1> QED BY <1>3, <1>4 DEF PruneInv

(* Locals that keep the request, and that what is in hand.                 *)
Follows(locals) ==
  /\ Locals(locals) /\ locals.req = call.req
  /\ Pruning(locals)
  /\ op = "prune" => InHand(locals) /\ call.dropped \subseteq locals.dropped

LEMMA ReplyFollows ==
  ASSUME PruneInv, NEW err, NEW locals, Reply(err, locals), Follows(locals) PROVE PruneInv'
<1>1. call' = locals
  BY DEF Reply
<1>2. Locals(call') /\ locals.req = call.req
  BY <1>1 DEF Follows, Locals, Pruning
<1> QED BY <1>2, ReplyInv DEF Follows

(* What an entity that was read changes is not in Prune's hand.            *)
LEMMA KeepFollows == ASSUME PruneInv, NEW entity PROVE Follows(Keep(entity))
<1>1. Locals(call) /\ Pruning(call) /\ (op = "prune" => InHand(call))
  BY DEF PruneInv, StoreInv
<1>2. CASE op = "subgraph"
  BY <1>1, <1>2 DEF Keep, Follows, Locals, Pruning
<1>3. CASE op # "subgraph"
  BY <1>1, <1>3 DEF Keep, Follows, Locals, Pruning, InHand
<1> QED BY <1>2, <1>3

LEMMA MoreInHand ==
  ASSUME NEW c, NEW more, InHand(c), c.dropped \subseteq more
  PROVE  c.cmds \in Seq(DropCommands(more)) /\ \A e \in c.links : e.to \in more
<1>1. DropCommands(c.dropped) \subseteq DropCommands(more)
  BY DEF DropCommands
<1>2. Seq(DropCommands(c.dropped)) \subseteq Seq(DropCommands(more))
  BY <1>1
<1> QED BY <1>2 DEF InHand

LEMMA PruneNext == PruneInv /\ [Next]_vars => PruneInv'
<1> SUFFICES ASSUME PruneInv, [Next]_vars PROVE PruneInv'
  OBVIOUS
<1>0. Locals(call) /\ SeenShape /\ Pruning(call) /\ (op = "prune" => InHand(call))
  BY DEF PruneInv, StoreInv
<1>1. CASE Request
  <2>1. /\ \/ call' = [call EXCEPT !.pc = "done", !.status = 400]
           \/ call' = [call EXCEPT !.pc = "root"]
           \/ call' = [call EXCEPT !.pc = "ids"]
        /\ db' = db /\ pipe' = pipe /\ seen' = Seen(db)
    BY <1>1 DEF Request
  <2>2. /\ Locals(call') /\ op' = op /\ call'.dropped = call.dropped
        /\ Pruning(call') /\ (op = "prune" => InHand(call'))
    <3>1. /\ Locals(call') /\ call'.req = call.req /\ call'.dropped = call.dropped
          /\ call'.cmds = call.cmds /\ call'.links = call.links
          /\ call'.pc \in {"done", "root", "ids"}
      <4>1. CASE call' = [call EXCEPT !.pc = "done", !.status = 400]
        BY <1>0, <4>1 DEF Locals
      <4>2. CASE call' = [call EXCEPT !.pc = "root"]
        BY <1>0, <4>2 DEF Locals
      <4>3. CASE call' = [call EXCEPT !.pc = "ids"]
        BY <1>0, <4>3 DEF Locals
      <4> QED BY <2>1, <4>1, <4>2, <4>3
    <3> QED BY <1>0, <3>1 DEF InHand, Pruning, op
  <2>3. SeenShape' /\ seen'.alone = db
    BY <2>1 DEF Seen, SeenShape
  <2>4. Spares(db', seen'.alone, call'.dropped)
    BY <2>1, <2>3 DEF Spares
  <2> QED BY <2>1, <2>2, <2>3, <2>4 DEF PruneInv, StoreInv, Pruning
<1>2. ASSUME NEW err \in BOOLEAN, ReadRoot(err) PROVE PruneInv'
  <2>1. PICK cur, max, pc :
          /\ \/ Reply(err, [call EXCEPT !.pc = "done", !.status = 404])
             \/ Reply(err, [call EXCEPT !.cur = cur, !.pc = pc, !.max = max])
          /\ pc \in {"size", "edges"}
    BY <1>2, ZenonT(60) DEF ReadRoot
  <2>2. Follows([call EXCEPT !.pc = "done", !.status = 404])
    BY <1>0, ZenonT(60) DEF Follows, Locals, InHand, Pruning
  <2>3. Follows([call EXCEPT !.cur = cur, !.pc = pc, !.max = max])
    BY <1>0, <2>1 DEF Follows, Locals, InHand, Pruning
  <2> QED BY <2>1, <2>2, <2>3, ReplyFollows
<1>3. ASSUME NEW err \in BOOLEAN, ReadSize(err) PROVE PruneInv'
  <2> DEFINE locals == [call EXCEPT !.pc = "edges", !.max = IF err THEN 0 ELSE Cardinality(db.ids)]
  <2>1. Reply(err, locals)
    BY <1>3 DEF ReadSize
  <2>2. Follows(locals)
    BY <1>0 DEF Follows, Locals, InHand, Pruning
  <2> QED BY <2>1, <2>2, ReplyFollows
<1>4. ASSUME NEW err \in BOOLEAN, ReadEdges(err) PROVE PruneInv'
  <2>1. PICK i \in call.cur :
          Reply(err, IF err THEN Keep([id |-> i, edges |-> {}, meta |-> NoMeta])
                     ELSE [call EXCEPT !.pc = "meta", !.edges = EdgesOf(db, i)])
    BY <1>4 DEF ReadEdges
  <2>2. Follows([call EXCEPT !.pc = "meta", !.edges = EdgesOf(db, i)])
    BY <1>0 DEF Follows, Locals, InHand, Pruning
  <2> QED BY <2>1, <2>2, KeepFollows, ReplyFollows
<1>5. ASSUME NEW err \in BOOLEAN, ReadMeta(err) PROVE PruneInv'
  <2>1. PICK entity : Reply(err, Keep(entity))
    BY <1>5 DEF ReadMeta
  <2> QED BY <2>1, KeepFollows, ReplyFollows
<1>6. CASE Visit
  <2>1. PICK locals : /\ Reply(FALSE, locals) /\ op # "prune"
                      /\ \E links, depth : locals = [call EXCEPT !.queue = Tail(@), !.depth = depth,
                                                                 !.links = links]
    BY <1>6 DEF Visit
  <2>2. Follows(locals)
    BY <1>0, <2>1 DEF Follows, Locals, Pruning
  <2> QED BY <2>1, <2>2, ReplyFollows
<1>7. ASSUME NEW err \in BOOLEAN, Follow(err) PROVE PruneInv'
  <2>1. PICK e \in call.links :
          LET rest == [call EXCEPT !.links = @ \ {e}]
          IN  /\ op # "prune"
              /\ \/ Reply(FALSE, rest)
                 \/ Reply(err, rest)
                 \/ Reply(err, [rest EXCEPT !.cur = {e.to}, !.pc = "edges"])
    BY <1>7 DEF Follow
  <2> DEFINE rest == [call EXCEPT !.links = @ \ {e}]
  <2>2. Follows(rest) /\ Follows([rest EXCEPT !.cur = {e.to}, !.pc = "edges"])
    BY <1>0, <2>1 DEF Follows, Locals, Pruning
  <2> HIDE DEF rest
  <2> QED BY <2>1, <2>2, ReplyFollows DEF rest
<1>8. ASSUME NEW err \in BOOLEAN, ReadIds(err) PROVE PruneInv'
  <2>1. PICK locals : /\ Reply(err, locals)
                      /\ \/ locals = [call EXCEPT !.pc = "each", !.ids = Index]
                         \/ locals = [call EXCEPT !.pc = "count"]
                         \/ locals = [call EXCEPT !.pc = "done", !.status = 200]
    BY <1>8 DEF ReadIds
  <2>2. Follows(locals)
    BY <1>0, <2>1 DEF Follows, Locals, InHand, Pruning
  <2> QED BY <2>1, <2>2, ReplyFollows
<1>9. ASSUME NEW err \in BOOLEAN, ReadCore(err) PROVE PruneInv'
  <2>1. PICK i \in call.ids :
          LET rest == [call EXCEPT !.ids = @ \ {i}]
          IN  /\ op # "prune"
              /\ \/ Reply(err, rest)
                 \/ Reply(err, [rest EXCEPT !.cur = {i}, !.pc = "edges"])
    BY <1>9 DEF ReadCore
  <2> DEFINE rest == [call EXCEPT !.ids = @ \ {i}]
  <2>2. Follows(rest) /\ Follows([rest EXCEPT !.cur = {i}, !.pc = "edges"])
    BY <1>0, <2>1 DEF Follows, Locals, Pruning
  <2> HIDE DEF rest
  <2> QED BY <2>1, <2>2, ReplyFollows DEF rest
<1>10. CASE Answer
  <2>1. PICK found : Reply(FALSE, [call EXCEPT !.pc = "done", !.status = 200, !.found = found])
    BY <1>10 DEF Answer
  <2>2. Follows([call EXCEPT !.pc = "done", !.status = 200, !.found = found])
    BY <1>0 DEF Follows, Locals, InHand, Pruning
  <2> QED BY <2>1, <2>2, ReplyFollows
<1>11. ASSUME NEW err \in BOOLEAN, ReadTime(err) PROVE PruneInv'
  <2>0. PICK i \in call.ids : \E more \in {call.dropped, call.dropped \cup {i}} :
          /\ op = "prune" /\ call.pc = "each"
          /\ Reply(err, [call EXCEPT !.ids = @ \ {i}, !.dropped = more])
    BY <1>11 DEF ReadTime
  <2>1. PICK more \in {call.dropped, call.dropped \cup {i}} :
          /\ op = "prune" /\ call.pc = "each"
          /\ Reply(err, [call EXCEPT !.ids = @ \ {i}, !.dropped = more])
    BY <2>0
  <2> DEFINE locals == [call EXCEPT !.ids = @ \ {i}, !.dropped = more]
  <2>2. InHand(call) /\ call.dropped \subseteq more
    BY <1>0, <2>1
  <2>3. call.cmds \in Seq(DropCommands(more)) /\ \A e \in call.links : e.to \in more
    BY <2>2, MoreInHand
  <2>4. Follows(locals)
    BY <1>0, <2>1, <2>2, <2>3 DEF Follows, Locals, InHand, Pruning
  <2> QED BY <2>1, <2>4, ReplyFollows
<1>12. CASE BeginDrop
  <2>1. PICK locals : /\ Reply(FALSE, locals)
                      /\ op = "prune"
                      /\ \/ locals = [call EXCEPT !.pc = "count"]
                         \/ locals = [call EXCEPT !.pc = "kind", !.ids = call.dropped]
    BY <1>12 DEF BeginDrop
  <2>2. Follows(locals)
    BY <1>0, <2>1 DEF Follows, Locals, InHand, Pruning
  <2> QED BY <2>1, <2>2, ReplyFollows
<1>13. ASSUME NEW err \in BOOLEAN, ReadKind(err) PROVE PruneInv'
  <2>0. PICK i \in call.ids : \E cmds \in {<<Del(i), SRemId(i)>> \o <<>>,
                                            <<Del(i), SRemId(i)>> \o <<SRemKind(i)>>} :
          /\ call.pc = "kind"
          /\ Reply(err, [call EXCEPT !.ids = @ \ {i}, !.pc = "drop", !.cmds = cmds])
    BY <1>13 DEF ReadKind
  <2>1. PICK cmds \in {<<Del(i), SRemId(i)>> \o <<>>, <<Del(i), SRemId(i)>> \o <<SRemKind(i)>>} :
          /\ call.pc = "kind"
          /\ Reply(err, [call EXCEPT !.ids = @ \ {i}, !.pc = "drop", !.cmds = cmds])
    BY <2>0
  <2> DEFINE locals == [call EXCEPT !.ids = @ \ {i}, !.pc = "drop", !.cmds = cmds]
  <2>2. ASSUME op = "prune" PROVE InHand(locals)
    <3>1. i \in call.dropped
      BY <1>0, <2>1, <2>2 DEF InHand
    <3>2. {Del(i), SRemId(i), SRemKind(i)} \subseteq DropCommands(call.dropped)
      BY <3>1 DEF DropCommands
    <3>3. /\ <<Del(i), SRemId(i)>> \in Seq(DropCommands(call.dropped))
          /\ <<SRemKind(i)>> \in Seq(DropCommands(call.dropped))
          /\ <<>> \in Seq(DropCommands(call.dropped))
      BY <3>2
    <3>4. PICK last \in {<<>>, <<SRemKind(i)>>} : cmds = <<Del(i), SRemId(i)>> \o last
      BY <2>1
    <3>5. last \in Seq(DropCommands(call.dropped))
      BY <3>3, <3>4
    <3>6. cmds \in Seq(DropCommands(call.dropped)) /\ Len(cmds) = Len(<<Del(i), SRemId(i)>>) + Len(last)
      BY <3>3, <3>4, <3>5, ConcatProperties
    <3>7. Len(cmds) # 0
      BY <3>5, <3>6, LenProperties
    <3>8. cmds # <<>>
      BY <3>6, <3>7, EmptySeq
    <3> QED BY <1>0, <2>1, <2>2, <3>6, <3>8 DEF InHand, Locals
  <2>3. Follows(locals)
    BY <1>0, <2>1, <2>2 DEF Follows, Locals, Pruning
  <2> QED BY <2>1, <2>3, ReplyFollows
<1>14. ASSUME NEW err \in BOOLEAN, Drop(err) PROVE PruneInv'
  <2> DEFINE rest == IF err THEN <<>> ELSE Tail(call.cmds)
  <2>1. /\ call.pc = "drop"
        /\ call' = [call EXCEPT !.cmds = rest, !.pc = AfterDrop(rest)]
        /\ db' = IF err THEN db ELSE Apply(db, Head(call.cmds))
        /\ seen' = [Watch(db') EXCEPT !.failed = @ \/ err]
        /\ pipe' = pipe
    BY <1>14 DEF Drop
  <2> HIDE DEF rest
  <2>2. SeenShape' /\ seen'.alone = seen.alone
    BY <1>0, <2>1 DEF SeenShape, Watch
  <2>3. Locals(call') /\ op' = op /\ call'.dropped = call.dropped /\ call'.ids = call.ids
        /\ call'.links = call.links /\ call'.cmds = rest /\ call'.pc = AfterDrop(rest)
    BY <1>0, <2>1 DEF Locals, op
  <2>4. op = "prune"
    BY <1>0, <2>1 DEF Pruning, op
  <2>5. /\ db' \in Stores /\ Spares(db', seen'.alone, call'.dropped)
        /\ InHand(call')
    <3>1. /\ call.ids \subseteq call.dropped /\ call.cmds # <<>>
          /\ call.cmds \in Seq(DropCommands(call.dropped))
          /\ \A e \in call.links : e.to \in call.dropped
      BY <1>0, <2>1, <2>4 DEF InHand
    <3>2. Head(call.cmds) \in DropCommands(call.dropped) /\ rest \in Seq(DropCommands(call.dropped))
      BY <3>1, EmptySeq, HeadTailProperties DEF rest
    <3>3. db' \in Stores /\ Spares(db', seen'.alone, call'.dropped)
      BY <2>1, <2>2, <2>3, <2>4, <3>2, SparesDrop DEF PruneInv, StoreInv
    <3>4. AfterDrop(rest) = "drop" => rest # <<>>
      BY DEF AfterDrop
    <3>5. InHand(call')
      BY <2>3, <3>1, <3>2, <3>4 DEF InHand
    <3> QED BY <3>3, <3>5
  <2> QED BY <1>0, <2>1, <2>2, <2>3, <2>4, <2>5 DEF PruneInv, StoreInv, Pruning, op
<1>15. ASSUME NEW err \in BOOLEAN, ReadSurvivors(err) PROVE PruneInv'
  <2>1. PICK ids : Reply(err, [call EXCEPT !.pc = "strip", !.ids = ids]) /\ call.pc = "survivors"
    BY <1>15 DEF ReadSurvivors
  <2>2. Follows([call EXCEPT !.pc = "strip", !.ids = ids])
    BY <1>0, <2>1 DEF Follows, Locals, InHand, Pruning
  <2> QED BY <2>1, <2>2, ReplyFollows
<1>16. ASSUME NEW err \in BOOLEAN, ReadSurvivor(err) PROVE PruneInv'
  <2>0. PICK i \in call.ids : \E links \in {{}, Dangling(i)} :
          /\ call.pc = "strip"
          /\ Reply(err, [call EXCEPT !.ids = @ \ {i}, !.links = links])
    BY <1>16 DEF ReadSurvivor
  <2>1. PICK links \in {{}, Dangling(i)} :
          /\ call.pc = "strip"
          /\ Reply(err, [call EXCEPT !.ids = @ \ {i}, !.links = links])
    BY <2>0
  <2>2. \A e \in links : e.to \in call.dropped
    BY <2>1 DEF Dangling
  <2>3. Follows([call EXCEPT !.ids = @ \ {i}, !.links = links])
    BY <1>0, <2>1, <2>2 DEF Follows, Locals, InHand, Pruning
  <2> QED BY <2>1, <2>3, ReplyFollows
<1>17. ASSUME NEW err \in BOOLEAN, Strip(err) PROVE PruneInv'
  <2>1. PICK e \in call.links :
          /\ call' = [call EXCEPT !.links = @ \ {e}]
          /\ db' = IF err THEN db ELSE Apply(db, SRemEdge(e))
    BY <1>17 DEF Strip
  <2>2. seen' = [Watch(db') EXCEPT !.failed = @ \/ err] /\ pipe' = pipe
    BY <1>17 DEF Strip
  <2>3. SeenShape' /\ seen'.alone = seen.alone
    BY <1>0, <2>2 DEF SeenShape, Watch
  <2>4. Locals(call') /\ op' = op /\ call'.dropped = call.dropped /\ (op = "prune" => InHand(call'))
    BY <1>0, <2>1 DEF Locals, op, InHand
  <2>5. op = "prune"
    BY <1>0, <1>17 DEF Strip, Pruning, op
  <2>6. db' \in Stores /\ Spares(db', seen'.alone, call'.dropped)
    <3>1. e.to \in call.dropped
      BY <1>0, <2>1, <2>5 DEF InHand
    <3> QED BY <2>1, <2>3, <2>4, <2>5, <3>1, SparesStrip DEF PruneInv, StoreInv
  <2> QED BY <2>2, <2>3, <2>4, <2>5, <2>6 DEF PruneInv, StoreInv, Pruning, op
<1>18. CASE EndStrip
  <2>1. Reply(FALSE, [call EXCEPT !.pc = "count"])
    BY <1>18 DEF EndStrip
  <2>2. Follows([call EXCEPT !.pc = "count"])
    BY <1>0 DEF Follows, Locals, InHand, Pruning
  <2> QED BY <2>1, <2>2, ReplyFollows
<1>19. ASSUME NEW err \in BOOLEAN, Count(err) PROVE PruneInv'
  <2>1. PICK max : Reply(err, [call EXCEPT !.pc = "done", !.status = 200, !.max = max])
    BY <1>19 DEF Count
  <2>2. Follows([call EXCEPT !.pc = "done", !.status = 200, !.max = max])
    BY <1>0 DEF Follows, Locals, InHand, Pruning
  <2> QED BY <2>1, <2>2, ReplyFollows
<1>20. ASSUME NEW cmds \in Operations, BeginWrite(cmds) PROVE PruneInv'
  <2>1. cmds \in Seq(WriterCommands) /\ cmds # <<>>
    BY OperationType
  <2>2. Head(cmds) \in WriterCommands /\ Tail(cmds) \in Seq(WriterCommands)
    BY <2>1
  <2>3. Execute(Head(cmds)) /\ pipe' = Tail(cmds)
    BY <1>20 DEF BeginWrite
  <2> QED BY <2>2, <2>3, ExecuteInv
<1>21. CASE Write
  <2>1. pipe \in Seq(WriterCommands) /\ pipe # <<>> /\ Execute(Head(pipe)) /\ pipe' = Tail(pipe)
    BY <1>21 DEF Write, PruneInv, StoreInv
  <2>2. Head(pipe) \in WriterCommands /\ Tail(pipe) \in Seq(WriterCommands)
    BY <2>1
  <2> QED BY <2>1, <2>2, ExecuteInv
<1>22. CASE UNCHANGED vars
  BY <1>22 DEF vars, PruneInv, StoreInv, SeenShape, Pruning, op
<1> QED BY <1>1, <1>2, <1>3, <1>4, <1>5, <1>6, <1>7, <1>8, <1>9, <1>10, <1>11, <1>12, <1>13, <1>14,
           <1>15, <1>16, <1>17, <1>18, <1>19, <1>20, <1>21, <1>22 DEF Next, Reader

(* Prune takes nothing but what it counted as too old and the edges to and *)
(* from that, at every command, for any store, writers and failures.       *)
THEOREM PruneSparesCorrect == Spec => []PruneSpares
<1>1. PruneInv => PruneSpares
  BY DEF PruneInv, PruneSpares, Spares
<1> QED BY <1>1, PruneInit, PruneNext, PTL DEF Spec
=============================================================================
