------------------------- MODULE RedisWriterProofs --------------------------
(***************************************************************************)
(* Theorems about RedisWriter, for any ids, edges, metadata, handlers,     *)
(* batch size, bounds and kinds of fault: its buffer, how far Redis lags   *)
(* behind the calls, and that it implements LateWriter.                    *)
(***************************************************************************)
EXTENDS RedisWriter, RedisStoreProofs

Queued == {HSet(i, 1) : i \in Id} \cup {SAddKind(i) : i \in Id} \cup {SAddId(i) : i \in Id}
          \cup {HSetMeta(i, md) : i \in Id, md \in Metadata}
          \cup {Del(i) : i \in Id} \cup {SRemId(i) : i \in Id} \cup {SRemKind(i) : i \in Id}
          \cup {SAddEdge(e) : e \in Edge} \cup {SRemEdge(e) : e \in Edge}

(* The literals are right: every call counts the commands it queues, at    *)
(* least one and at most four.                                             *)
LEMMA CallsCount ==
  ASSUME NEW call \in Call
  PROVE  /\ call.cmds \in Seq(Queued) /\ Len(call.cmds) \in 1..4
         /\ call.count = Len(call.cmds)
<1>1. ASSUME NEW i \in Id, NEW md \in Metadata, call = UpsertEntity(i, md)
      PROVE  /\ call.cmds \in Seq(Queued) /\ Len(call.cmds) \in 1..4
             /\ call.count = Len(call.cmds)
  <2> DEFINE core == <<HSet(i, 1), SAddKind(i), SAddId(i)>>
             meta == <<HSetMeta(i, md)>>
  <2>0. /\ HSet(i, 1) \in Queued /\ SAddKind(i) \in Queued /\ SAddId(i) \in Queued
        /\ HSetMeta(i, md) \in Queued
    BY DEF Queued
  <2>1. core \in Seq(Queued) /\ Len(core) = 3 /\ meta \in Seq(Queued) /\ Len(meta) = 1
    BY <2>0
  <2>2. CASE NonEmpty(md)
    <3>1. call.cmds = core \o meta /\ call.count = 4
      BY <1>1, <2>2 DEF UpsertEntity
    <3> HIDE DEF core, meta
    <3>2. core \o meta \in Seq(Queued) /\ Len(core \o meta) = Len(core) + Len(meta)
      BY <2>1, ConcatProperties
    <3>3. Len(core \o meta) = 4
      BY <2>1, <3>2
    <3> QED BY <3>1, <3>2, <3>3
  <2>3. CASE ~NonEmpty(md)
    <3>1. call.cmds = core \o <<>> /\ call.count = 3
      BY <1>1, <2>3 DEF UpsertEntity
    <3>2. core \o <<>> = core
      BY <2>1
    <3> HIDE DEF core, meta
    <3> QED BY <2>1, <3>1, <3>2
  <2> QED BY <2>2, <2>3
<1>2. ASSUME NEW i \in Id, call = DeleteEntity(i)
      PROVE  /\ call.cmds \in Seq(Queued) /\ Len(call.cmds) \in 1..4
             /\ call.count = Len(call.cmds)
  <2>1. Del(i) \in Queued /\ SRemId(i) \in Queued /\ SRemKind(i) \in Queued
    BY DEF Queued
  <2> QED BY <1>2, <2>1 DEF DeleteEntity
<1>3. ASSUME NEW e \in Edge, \E c \in {SAddEdge(e), SRemEdge(e)} : call = [cmds |-> <<c>>, count |-> 1]
      PROVE  /\ call.cmds \in Seq(Queued) /\ Len(call.cmds) \in 1..4
             /\ call.count = Len(call.cmds)
  <2>1. SAddEdge(e) \in Queued /\ SRemEdge(e) \in Queued
    BY DEF Queued
  <2>2. PICK c \in Queued : call = [cmds |-> <<c>>, count |-> 1]
    BY <1>3, <2>1
  <2> QED BY <2>2
<1> QED BY <1>1, <1>2, <1>3 DEF Call, AddEdge, RemoveEdge

-----------------------------------------------------------------------------
(* The count is that of the buffer, and whoever finds the mutex free finds *)
(* a buffer with room.  A closed writer has an empty one, unless it was    *)
(* called after its last flush.                                            *)
BufferInv ==
  /\ pipe \in Seq(Queued) /\ n = Len(pipe)
  /\ Len(pipe) <= BatchSize + 3
  /\ mu = Free => Len(pipe) < BatchSize /\ sent = 0
  /\ sent \in 0..Len(pipe)
  /\ closer = "flushing" <=> mu = "closer"
  /\ closer = "closed" /\ ~late => pipe = <<>>
  /\ late => closer = "closed"

LEMMA BufferInit == Init => BufferInv
BY BatchAssumption DEF Init, BufferInv, Free

LEMMA Holding == Executing => mu # Free
BY HandlerAssumption DEF Executing, Free

LEMMA BufferNext == BufferInv /\ [Next]_vars => BufferInv'
<1> SUFFICES ASSUME BufferInv, [Next]_vars PROVE BufferInv'
  OBVIOUS
<1>1. ASSUME NEW h \in Handler, NEW call \in Call, Add(h, call) PROVE BufferInv'
  <2>1. /\ mu = Free /\ sent' = sent /\ closer' = closer
        /\ pipe' = pipe \o call.cmds /\ n' = n + call.count
        /\ mu' = IF n' >= BatchSize THEN h ELSE Free
        /\ late' = (late \/ closer = "closed")
    BY <1>1 DEF Add
  <2>2. /\ pipe' \in Seq(Queued) /\ Len(pipe') = Len(pipe) + Len(call.cmds)
        /\ Len(pipe) \in Nat /\ Len(call.cmds) \in 1..4 /\ n' = Len(pipe')
    BY <2>1, CallsCount DEF BufferInv
  <2>3. h # Free /\ h # "closer" /\ mu # "closer"
    BY <2>1, HandlerAssumption DEF Free
  <2>4. Len(pipe') <= BatchSize + 3
    <3>1. Len(pipe) < BatchSize
      BY <2>1 DEF BufferInv
    <3>2. /\ Len(pipe') = Len(pipe) + Len(call.cmds) /\ Len(pipe) \in Nat
          /\ Len(call.cmds) \in 1..4 /\ BatchSize \in Nat
      BY <2>2, BatchAssumption
    <3>3. ASSUME NEW a \in Nat, NEW c \in 1..4, NEW b \in Nat, a < b PROVE a + c <= b + 3
      BY <3>3
    <3> QED BY <3>1, <3>2, <3>3
  <2>5. n' >= BatchSize => mu' = h
    BY <2>1
  <2>6. mu' = Free => Len(pipe') < BatchSize
    BY <2>2, <2>3, <2>5, BatchAssumption
  <2>7. mu' # "closer" /\ sent' = 0 /\ sent' \in 0..Len(pipe')
    BY <2>1, <2>2, <2>3 DEF BufferInv, Free
  <2>8. closer' # "flushing"
    BY <2>1, <2>3 DEF BufferInv
  <2>9. late' <=> closer' = "closed"
    BY <2>1 DEF BufferInv
  <2> QED BY <2>2, <2>4, <2>6, <2>7, <2>8, <2>9 DEF BufferInv
<1>2. CASE ExecReturns \/ ExecFails
  <2>1. /\ pipe' = <<>> /\ n' = 0 /\ sent' = 0 /\ mu' = Free /\ late' = late
        /\ closer' = IF mu = "closer" THEN "closed" ELSE closer
    BY <1>2 DEF ExecReturns, ExecFails, Release
  <2>2. pipe' \in Seq(Queued) /\ Len(pipe') = 0
    BY <2>1
  <2>3. closer' # "flushing" /\ mu' # "closer" /\ (late' => closer' = "closed")
    BY <2>1 DEF BufferInv, Free
  <2> QED BY <2>1, <2>2, <2>3, BatchAssumption DEF BufferInv
<1>3. CASE TickFlush
  BY <1>3, BatchAssumption DEF TickFlush, BufferInv, Free
<1>4. CASE CloseFlush
  BY <1>4, BatchAssumption DEF CloseFlush, BufferInv, Free
<1>5. CASE ExecCommand \/ Replay
  BY <1>5, Holding DEF ExecCommand, Replay, BufferInv
<1>6. CASE TickFires \/ TickerStops \/ Close \/ UNCHANGED vars
  BY <1>6 DEF TickFires, TickerStops, Close, vars, BufferInv
<1> QED BY <1>1, <1>2, <1>3, <1>4, <1>5, <1>6 DEF Next, Closing, Exec

(* The buffer never outgrows a batch by more than a call has commands, and *)
(* is short of one whenever the mutex is free, for every batch size.       *)
THEOREM BoundedCorrect == Spec => []BufferBounded
<1>1. BufferInv => BufferBounded
  BY DEF BufferInv, BufferBounded
<1> QED BY <1>1, BufferInit, BufferNext, PTL DEF Spec

(* When Close has returned and nobody called the writer since its flush,   *)
(* nothing is left in the buffer: no call slips in between the end of the  *)
(* tick loop and the last flush.                                           *)
THEOREM CloseDrains == Spec => [](closer = "closed" /\ ~late => pipe = <<>>)
<1>1. BufferInv => (closer = "closed" /\ ~late => pipe = <<>>)
  BY DEF BufferInv
<1> QED BY <1>1, BufferInit, BufferNext, PTL DEF Spec

-----------------------------------------------------------------------------
(* Commands keep a store well typed.                                       *)

LEMMA ApplyType ==
  ASSUME NEW d \in Stores, NEW c \in Queued
  PROVE  Apply(d, c) \in Stores
<1>1. ASSUME NEW i \in Id, c = HSet(i, 1) PROVE Apply(d, c) \in Stores
  BY <1>1, HSetEffect DEF Stores
<1>2. ASSUME NEW i \in Id, c \in {SAddKind(i), SAddId(i), SRemId(i), SRemKind(i)}
      PROVE  Apply(d, c) \in Stores
  BY <1>2, SAddKindEffect, SAddIdEffect, SRemIdEffect, SRemKindEffect DEF Stores
<1>3. ASSUME NEW i \in Id, NEW md \in Metadata, c = HSetMeta(i, md) PROVE Apply(d, c) \in Stores
  <2>1. Merged(d, i, md) \in Metadata
    BY DEF Merged, Stores, Metadata
  <2> QED BY <1>3, <2>1, HSetMetaEffect DEF Stores
<1>4. ASSUME NEW i \in Id, c = Del(i) PROVE Apply(d, c) \in Stores
  <2> DEFINE core == [d.core EXCEPT ![i] = Absent]
             meta == [d.meta EXCEPT ![i] = NoMeta]
             edges == d.edges \ Outgoing(d, i)
  <2>1. NoMeta \in Metadata
    BY DEF NoMeta, Metadata
  <2>2. core \in [Id -> {Absent, 1}] /\ meta \in [Id -> Metadata] /\ edges \subseteq Edge
    BY <2>1 DEF Stores
  <2>3. Apply(d, c) = [d EXCEPT !.core = core, !.meta = meta, !.edges = edges]
    BY <1>4, DelEffect
  <2> HIDE DEF core, meta, edges
  <2> QED BY <2>2, <2>3 DEF Stores
<1>5. ASSUME NEW e \in Edge, c \in {SAddEdge(e), SRemEdge(e)} PROVE Apply(d, c) \in Stores
  BY <1>5, SAddEdgeEffect, SRemEdgeEffect DEF Stores
<1> QED BY <1>1, <1>2, <1>3, <1>4, <1>5 DEF Queued

LEMMA StoresClosed == Closed(Stores, Queued)
BY ApplyType DEF Closed

-----------------------------------------------------------------------------
(* Repeating a pipeline changes nothing.                                   *)

(* Every command either leaves a part of a store as it is or sets it to    *)
(* what it was told, whatever the store.                                   *)
KeepsOrSets(d1, d2, c) ==
  LET p1 == Apply(d1, c)
      p2 == Apply(d2, c)
  IN  /\ \A i \in Id : \/ p1.core[i] = p2.core[i]
                       \/ p1.core[i] = d1.core[i] /\ p2.core[i] = d2.core[i]
      /\ \A i \in Id, f \in Field : \/ p1.meta[i][f] = p2.meta[i][f]
                                    \/ /\ p1.meta[i][f] = d1.meta[i][f]
                                       /\ p2.meta[i][f] = d2.meta[i][f]
      /\ \A e : \/ e \in p1.edges <=> e \in p2.edges
                \/ (e \in p1.edges <=> e \in d1.edges) /\ (e \in p2.edges <=> e \in d2.edges)
      /\ \A i : \/ i \in p1.ids <=> i \in p2.ids
                \/ (i \in p1.ids <=> i \in d1.ids) /\ (i \in p2.ids <=> i \in d2.ids)
      /\ \A i : \/ i \in p1.byKind <=> i \in p2.byKind
                \/ (i \in p1.byKind <=> i \in d1.byKind) /\ (i \in p2.byKind <=> i \in d2.byKind)

LEMMA CommandsKeepOrSet ==
  ASSUME NEW d1 \in Stores, NEW d2 \in Stores, NEW c \in Queued
  PROVE  KeepsOrSets(d1, d2, c)
<1>1. ASSUME NEW i \in Id, c = HSet(i, 1) PROVE KeepsOrSets(d1, d2, c)
  <2>1. ASSUME NEW d \in Stores
        PROVE  /\ Apply(d, c).meta = d.meta /\ Apply(d, c).edges = d.edges
               /\ Apply(d, c).ids = d.ids /\ Apply(d, c).byKind = d.byKind
               /\ \A j \in Id : Apply(d, c).core[j] = IF j = i THEN 1 ELSE d.core[j]
    <3> DEFINE core == [d.core EXCEPT ![i] = 1]
    <3>1. Apply(d, c) = [d EXCEPT !.core = core]
      BY <1>1, HSetEffect
    <3>2. \A j \in Id : core[j] = IF j = i THEN 1 ELSE d.core[j]
      BY DEF Stores
    <3> HIDE DEF core
    <3>3. /\ Apply(d, c).core = core /\ Apply(d, c).meta = d.meta /\ Apply(d, c).edges = d.edges
          /\ Apply(d, c).ids = d.ids /\ Apply(d, c).byKind = d.byKind
      BY <3>1 DEF Stores
    <3> QED BY <3>2, <3>3
  <2> QED BY <2>1 DEF KeepsOrSets
<1>2. ASSUME NEW i \in Id, c \in {SAddKind(i), SAddId(i), SRemId(i), SRemKind(i)}
      PROVE  KeepsOrSets(d1, d2, c)
  BY <1>2, SAddKindEffect, SAddIdEffect, SRemIdEffect, SRemKindEffect DEF Stores, KeepsOrSets
<1>3. ASSUME NEW i \in Id, NEW md \in Metadata, c = HSetMeta(i, md)
      PROVE  KeepsOrSets(d1, d2, c)
  <2>1. ASSUME NEW d \in Stores
        PROVE  /\ Apply(d, c).core = d.core /\ Apply(d, c).edges = d.edges
               /\ Apply(d, c).ids = d.ids /\ Apply(d, c).byKind = d.byKind
               /\ \A j \in Id, f \in Field :
                    Apply(d, c).meta[j][f] = IF j = i /\ md[f] # NoValue THEN md[f] ELSE d.meta[j][f]
    <3> DEFINE meta == [d.meta EXCEPT ![i] = Merged(d, i, md)]
    <3>1. Apply(d, c) = [d EXCEPT !.meta = meta]
      BY <1>3, HSetMetaEffect
    <3>2. \A j \in Id : meta[j] = IF j = i THEN Merged(d, i, md) ELSE d.meta[j]
      BY DEF Stores
    <3>3. \A f \in Field : Merged(d, i, md)[f] = IF md[f] # NoValue THEN md[f] ELSE d.meta[i][f]
      BY DEF Merged
    <3> HIDE DEF meta
    <3> QED BY <3>1, <3>2, <3>3 DEF Stores
  <2> QED BY <2>1 DEF KeepsOrSets
<1>4. ASSUME NEW i \in Id, c = Del(i) PROVE KeepsOrSets(d1, d2, c)
  <2>1. ASSUME NEW d \in Stores
        PROVE  /\ Apply(d, c).ids = d.ids /\ Apply(d, c).byKind = d.byKind
               /\ \A j \in Id : Apply(d, c).core[j] = IF j = i THEN Absent ELSE d.core[j]
               /\ \A j \in Id : Apply(d, c).meta[j] = IF j = i THEN NoMeta ELSE d.meta[j]
               /\ \A e : e \in Apply(d, c).edges <=> e \in d.edges /\ e.from # i
    <3> DEFINE core == [d.core EXCEPT ![i] = Absent]
               meta == [d.meta EXCEPT ![i] = NoMeta]
               edges == d.edges \ Outgoing(d, i)
    <3>1. Apply(d, c) = [d EXCEPT !.core = core, !.meta = meta, !.edges = edges]
      BY <1>4, DelEffect
    <3>2. \A j \in Id : /\ core[j] = IF j = i THEN Absent ELSE d.core[j]
                        /\ meta[j] = IF j = i THEN NoMeta ELSE d.meta[j]
      BY DEF Stores
    <3>3. \A e : e \in edges <=> e \in d.edges /\ e.from # i
      BY DEF Outgoing
    <3> HIDE DEF core, meta, edges
    <3>4. /\ Apply(d, c).core = core /\ Apply(d, c).meta = meta /\ Apply(d, c).edges = edges
          /\ Apply(d, c).ids = d.ids /\ Apply(d, c).byKind = d.byKind
      BY <3>1 DEF Stores
    <3> QED BY <3>2, <3>3, <3>4
  <2> DEFINE p1 == Apply(d1, c)
             p2 == Apply(d2, c)
  <2> HIDE DEF p1, p2
  <2>2. /\ p1.ids = d1.ids /\ p1.byKind = d1.byKind /\ p2.ids = d2.ids /\ p2.byKind = d2.byKind
        /\ \A j \in Id : p1.core[j] = IF j = i THEN Absent ELSE d1.core[j]
        /\ \A j \in Id : p2.core[j] = IF j = i THEN Absent ELSE d2.core[j]
        /\ \A j \in Id : p1.meta[j] = IF j = i THEN NoMeta ELSE d1.meta[j]
        /\ \A j \in Id : p2.meta[j] = IF j = i THEN NoMeta ELSE d2.meta[j]
        /\ \A e : e \in p1.edges <=> e \in d1.edges /\ e.from # i
        /\ \A e : e \in p2.edges <=> e \in d2.edges /\ e.from # i
    BY <2>1 DEF p1, p2
  <2>3. \A j \in Id : \/ p1.core[j] = p2.core[j]
                      \/ p1.core[j] = d1.core[j] /\ p2.core[j] = d2.core[j]
    BY <2>2
  <2>4. \A j \in Id, f \in Field :
          \/ p1.meta[j][f] = p2.meta[j][f]
          \/ p1.meta[j][f] = d1.meta[j][f] /\ p2.meta[j][f] = d2.meta[j][f]
    BY <2>2
  <2>5. \A e : \/ e \in p1.edges <=> e \in p2.edges
               \/ (e \in p1.edges <=> e \in d1.edges) /\ (e \in p2.edges <=> e \in d2.edges)
    BY <2>2
  <2> QED BY <2>2, <2>3, <2>4, <2>5, Zenon DEF KeepsOrSets, p1, p2
<1>5. ASSUME NEW e \in Edge, c \in {SAddEdge(e), SRemEdge(e)} PROVE KeepsOrSets(d1, d2, c)
  BY <1>5, SAddEdgeEffect, SRemEdgeEffect DEF Stores, KeepsOrSets
<1> QED BY <1>1, <1>2, <1>3, <1>4, <1>5 DEF Queued

(* So if a pipeline is sent to what it left, each part takes the value of  *)
(* the first time with the first command that sets it, if there is one.    *)
Again(n_, a, b) == /\ b[0] = a[n_]
                   /\ \A k \in 1..n_ : a[k] = b[k] \/ (a[k] = a[k - 1] /\ b[k] = b[k - 1])

LEMMA SettlesAgain ==
  ASSUME NEW len \in Nat, NEW a, NEW b, Again(len, a, b)
  PROVE  b[len] = a[len]
<1> DEFINE T == {k \in 0..len : b[k] = a[k] \/ b[k] = b[0]}
<1>1. 0 \in T
  OBVIOUS
<1>2. ASSUME NEW k \in 1..len, k - 1 \in T PROVE k \in T
  BY <1>2 DEF Again
<1> HIDE DEF T
<1>3. len \in T
  BY <1>1, <1>2, UpTo
<1> QED BY <1>3 DEF T, Again

LEMMA Idempotent ==
  ASSUME NEW d \in Stores, NEW cmds \in Seq(Queued)
  PROVE  ApplyAll(ApplyAll(d, cmds), cmds) = ApplyAll(d, cmds)
<1> DEFINE len == Len(cmds)
           x == Applied(d, cmds)
           y == Applied(x[len], cmds)
<1>1. len \in Nat /\ \A k \in 1..len : cmds[k] \in Queued
  OBVIOUS
<1>2. Leads(x, Stores, d, cmds)
  BY StoresClosed, AppliedIs
<1>3. x[len] \in Stores
  BY <1>1, <1>2 DEF Leads
<1>4. Leads(y, Stores, x[len], cmds)
  <2> HIDE DEF x
  <2> QED BY <1>3, StoresClosed, AppliedIs
<1>5. ApplyAll(d, cmds) = x[len] /\ ApplyAll(ApplyAll(d, cmds), cmds) = y[len]
  BY DEF ApplyAll
<1> HIDE DEF len, x, y
<1>6. /\ y[0] = x[len] /\ x[len] \in Stores /\ y[len] \in Stores
      /\ \A k \in 1..len : KeepsOrSets(x[k - 1], y[k - 1], cmds[k])
      /\ \A k \in 1..len : x[k] = Apply(x[k - 1], cmds[k]) /\ y[k] = Apply(y[k - 1], cmds[k])
  <2>1. /\ y[0] = x[len] /\ x[len] \in Stores /\ y[len] \in Stores
        /\ \A k \in 1..len : x[k] = Apply(x[k - 1], cmds[k]) /\ y[k] = Apply(y[k - 1], cmds[k])
        /\ \A k \in 0..len : x[k] \in Stores /\ y[k] \in Stores
    BY <1>1, <1>2, <1>4 DEF Leads, len
  <2>2. ASSUME NEW k \in 1..len PROVE KeepsOrSets(x[k - 1], y[k - 1], cmds[k])
    <3>1. k - 1 \in 0..len
      BY <1>1
    <3> QED BY <1>1, <2>1, <3>1, CommandsKeepOrSet
  <2> QED BY <2>1, <2>2
<1>7. ASSUME NEW i \in Id PROVE y[len].core[i] = x[len].core[i]
  <2> DEFINE a == [k \in 0..len |-> x[k].core[i]]
             b == [k \in 0..len |-> y[k].core[i]]
  <2>0. ASSUME NEW k \in 1..len
        PROVE  \/ x[k].core[i] = y[k].core[i]
               \/ x[k].core[i] = x[k - 1].core[i] /\ y[k].core[i] = y[k - 1].core[i]
    BY <1>6 DEF KeepsOrSets
  <2>1. Again(len, a, b)
    BY <1>1, <1>6, <2>0 DEF Again
  <2>2. a[len] = x[len].core[i] /\ b[len] = y[len].core[i]
    BY <1>1
  <2> HIDE DEF a, b
  <2> QED BY <1>1, <2>1, <2>2, SettlesAgain
<1>8. ASSUME NEW i \in Id, NEW f \in Field PROVE y[len].meta[i][f] = x[len].meta[i][f]
  <2> DEFINE a == [k \in 0..len |-> x[k].meta[i][f]]
             b == [k \in 0..len |-> y[k].meta[i][f]]
  <2>0. ASSUME NEW k \in 1..len
        PROVE  \/ x[k].meta[i][f] = y[k].meta[i][f]
               \/ x[k].meta[i][f] = x[k - 1].meta[i][f] /\ y[k].meta[i][f] = y[k - 1].meta[i][f]
    <3>1. KeepsOrSets(x[k - 1], y[k - 1], cmds[k])
      BY <1>6
    <3>2. x[k] = Apply(x[k - 1], cmds[k]) /\ y[k] = Apply(y[k - 1], cmds[k])
      BY <1>6
    <3>3. \/ Apply(x[k - 1], cmds[k]).meta[i][f] = Apply(y[k - 1], cmds[k]).meta[i][f]
          \/ /\ Apply(x[k - 1], cmds[k]).meta[i][f] = x[k - 1].meta[i][f]
             /\ Apply(y[k - 1], cmds[k]).meta[i][f] = y[k - 1].meta[i][f]
      BY <3>1 DEF KeepsOrSets
    <3> QED BY <3>2, <3>3
  <2>1. Again(len, a, b)
    BY <1>1, <1>6, <2>0 DEF Again
  <2>2. a[len] = x[len].meta[i][f] /\ b[len] = y[len].meta[i][f]
    BY <1>1
  <2> HIDE DEF a, b
  <2> QED BY <1>1, <2>1, <2>2, SettlesAgain
<1>9. ASSUME NEW e PROVE e \in y[len].edges <=> e \in x[len].edges
  <2> DEFINE a == [k \in 0..len |-> IF e \in x[k].edges THEN 1 ELSE 0]
             b == [k \in 0..len |-> IF e \in y[k].edges THEN 1 ELSE 0]
  <2>1. Again(len, a, b)
    BY <1>1, <1>6 DEF Again, KeepsOrSets
  <2>2. /\ a[len] = IF e \in x[len].edges THEN 1 ELSE 0
        /\ b[len] = IF e \in y[len].edges THEN 1 ELSE 0
    BY <1>1
  <2> HIDE DEF a, b
  <2> QED BY <1>1, <2>1, <2>2, SettlesAgain
<1>10. ASSUME NEW i PROVE i \in y[len].ids <=> i \in x[len].ids
  <2> DEFINE a == [k \in 0..len |-> IF i \in x[k].ids THEN 1 ELSE 0]
             b == [k \in 0..len |-> IF i \in y[k].ids THEN 1 ELSE 0]
  <2>1. Again(len, a, b)
    BY <1>1, <1>6 DEF Again, KeepsOrSets
  <2>2. /\ a[len] = IF i \in x[len].ids THEN 1 ELSE 0
        /\ b[len] = IF i \in y[len].ids THEN 1 ELSE 0
    BY <1>1
  <2> HIDE DEF a, b
  <2> QED BY <1>1, <2>1, <2>2, SettlesAgain
<1>11. ASSUME NEW i PROVE i \in y[len].byKind <=> i \in x[len].byKind
  <2> DEFINE a == [k \in 0..len |-> IF i \in x[k].byKind THEN 1 ELSE 0]
             b == [k \in 0..len |-> IF i \in y[k].byKind THEN 1 ELSE 0]
  <2>1. Again(len, a, b)
    BY <1>1, <1>6 DEF Again, KeepsOrSets
  <2>2. /\ a[len] = IF i \in x[len].byKind THEN 1 ELSE 0
        /\ b[len] = IF i \in y[len].byKind THEN 1 ELSE 0
    BY <1>1
  <2> HIDE DEF a, b
  <2> QED BY <1>1, <2>1, <2>2, SettlesAgain
<1>12. \A i \in Id : y[len].meta[i] = x[len].meta[i]
  <2>1. ASSUME NEW i \in Id PROVE y[len].meta[i] = x[len].meta[i]
    <3> DEFINE md1 == y[len].meta[i]
               md2 == x[len].meta[i]
    <3>1. md1 \in Metadata /\ md2 \in Metadata
      BY <1>6 DEF Stores
    <3>2. \A f \in Field : md1[f] = md2[f]
      BY <1>8
    <3> HIDE DEF md1, md2
    <3>3. md1 = md2
      BY <3>1, <3>2 DEF Metadata
    <3> QED BY <3>3 DEF md1, md2
  <2> QED BY <2>1
<1>13. y[len].core = x[len].core /\ y[len].meta = x[len].meta
  BY <1>6, <1>7, <1>12 DEF Stores
<1>14. y[len].edges = x[len].edges /\ y[len].ids = x[len].ids /\ y[len].byKind = x[len].byKind
  BY <1>9, <1>10, <1>11
<1>15. y[len] = x[len]
  BY <1>6, <1>13, <1>14 DEF Stores
<1> QED BY <1>5, <1>15
-----------------------------------------------------------------------------
(* Redis and the buffer.                                                   *)

Executed == SubSeq(pipe, 1, sent)

(* The store a pipeline was sent to, and the two halves of the pipeline.   *)
Explained(d) == \E base \in Stores : ApplyAll(base, Executed) = d

(* Redis is some store and the part of the pipeline it has executed, so a  *)
(* repetition has nothing new for it; and it lags by the rest.             *)
LagInv ==
  /\ db \in Stores /\ want \in Stores
  /\ LagIsTheBuffer
  /\ Explained(db)

LEMMA Parts ==
  ASSUME NEW p \in Seq(Queued), NEW k \in 0..Len(p)
  PROVE  /\ SubSeq(p, 1, k) \in Seq(Queued) /\ SubSeq(p, k + 1, Len(p)) \in Seq(Queued)
         /\ p = SubSeq(p, 1, k) \o SubSeq(p, k + 1, Len(p))
         /\ k = 0 => SubSeq(p, 1, k) = <<>> /\ SubSeq(p, k + 1, Len(p)) = p
<1>1. Len(p) \in Nat /\ \A m \in 1..Len(p) : p[m] \in Queued
  BY ElementOfSeq
<1>2. SubSeq(p, 1, k) \in Seq(Queued)
  BY <1>1, SubSeqProperties
<1>3. SubSeq(p, k + 1, Len(p)) \in Seq(Queued)
  BY <1>1, SubSeqProperties
<1>4. SubSeq(p, 1, Len(p)) = p
  BY SubSeqFull
<1>5. SubSeq(p, 1, k) \o SubSeq(p, k + 1, Len(p)) = SubSeq(p, 1, Len(p))
  <2>1. 1 \in 1..(Len(p) + 1) /\ k \in (1 - 1)..Len(p) /\ Len(p) \in k..Len(p)
    BY <1>1
  <2> QED BY <2>1, ConcatAdjacentSubSeq
<1>6. k = 0 => SubSeq(p, 1, k) = <<>> /\ k + 1 = 1
  BY SubSeqEmpty
<1> QED BY <1>2, <1>3, <1>4, <1>5, <1>6, Zenon

LEMMA Halves ==
  ASSUME BufferInv
  PROVE  /\ Executed \in Seq(Queued) /\ Outstanding \in Seq(Queued)
         /\ pipe = Executed \o Outstanding
         /\ sent = 0 => Executed = <<>> /\ Outstanding = pipe
BY Parts DEF BufferInv, Executed, Outstanding

LEMMA HalvesNext ==
  ASSUME BufferInv'
  PROVE  /\ Executed' \in Seq(Queued) /\ Outstanding' \in Seq(Queued)
         /\ pipe' = Executed' \o Outstanding'
         /\ sent' = 0 => Executed' = <<>> /\ Outstanding' = pipe'
BY Parts DEF BufferInv, Executed, Outstanding

LEMMA NothingExecuted == ApplyAll(db, <<>>) = db \/ db \notin Stores
BY StoresClosed, ApplyNone

LEMMA NewPipe ==
  ASSUME BufferInv, sent = 0, db \in Stores
  PROVE  Explained(db)
<1>1. ApplyAll(db, Executed) = db
  BY Halves, NothingExecuted
<1> QED BY <1>1 DEF Explained

LEMMA LagInit == Init => LagInv
<1> SUFFICES ASSUME Init PROVE LagInv
  OBVIOUS
<1>1. BufferInv
  BY BufferInit
<1>2. db = EmptyStore /\ want = EmptyStore /\ sent = 0 /\ pipe = <<>>
  BY DEF Init
<1>3. EmptyStore \in Stores
  BY DEF EmptyStore, Stores, NoMeta, Metadata
<1>4. ApplyAll(db, Outstanding) = db
  BY <1>1, <1>2, <1>3, Halves, NothingExecuted
<1> QED BY <1>1, <1>2, <1>3, <1>4, NewPipe DEF LagInv, LagIsTheBuffer

(* One step of Redis takes a command from the second half to the first.    *)
LEMMA OneCommand ==
  ASSUME BufferInv, ExecCommand
  PROVE  /\ pipe[sent + 1] \in Queued
         /\ Outstanding = <<pipe[sent + 1]>> \o Outstanding'
         /\ Executed' = Executed \o <<pipe[sent + 1]>>
<1>1. /\ pipe \in Seq(Queued) /\ sent \in 0..Len(pipe) /\ Len(pipe) \in Nat
      /\ sent < Len(pipe) /\ sent' = sent + 1 /\ pipe' = pipe
  BY DEF BufferInv, ExecCommand
<1>2. pipe[sent + 1] \in Queued
  BY <1>1, ElementOfSeq
<1>3. /\ sent + 1 \in 1..Len(pipe) /\ Len(pipe) \in (sent + 1)..Len(pipe)
      /\ 1 \in 1..Len(pipe) /\ sent + 1 \in 1..Len(pipe)
  BY <1>1
<1>4. SubSeq(pipe, sent + 1, Len(pipe))
        = <<pipe[sent + 1]>> \o SubSeq(pipe, sent + 1 + 1, Len(pipe))
  BY <1>1, <1>3, SubSeqRecursiveFirst
<1>5. SubSeq(pipe, 1, sent + 1) = SubSeq(pipe, 1, sent + 1 - 1) \o <<pipe[sent + 1]>>
  BY <1>1, <1>3, SubSeqRecursiveSecond
<1>6. sent + 1 - 1 = sent
  BY <1>1
<1> QED BY <1>1, <1>2, <1>4, <1>5, <1>6 DEF Outstanding, Executed

(* A repetition ends in the store the first transmission would have led to. *)
LEMMA SentAgain ==
  ASSUME BufferInv, Explained(db), db \in Stores
  PROVE  ApplyAll(db, pipe) = ApplyAll(db, Outstanding)
<1>1. PICK base \in Stores : ApplyAll(base, Executed) = db
  BY DEF Explained
<1>2. ApplyAll(db, Executed) = db
  BY <1>1, Halves, Idempotent
<1>3. ApplyAll(db, Executed \o Outstanding) = ApplyAll(ApplyAll(db, Executed), Outstanding)
  BY Halves, StoresClosed, ApplyConcat
<1> QED BY <1>2, <1>3, Halves

LEMMA LagNext == BufferInv /\ BufferInv' /\ LagInv /\ [Next]_vars => LagInv'
<1> SUFFICES ASSUME BufferInv, BufferInv', LagInv, [Next]_vars PROVE LagInv'
  OBVIOUS
<1>0. db \in Stores /\ want \in Stores
  BY DEF LagInv
<1>1. ASSUME sent' = 0, db' \in Stores PROVE Explained(db)'
  <2>1. Executed' = <<>>
    BY <1>1, HalvesNext
  <2> QED BY <1>1, <2>1, StoresClosed, ApplyNone DEF Explained
<1>2. ASSUME NEW h \in Handler, NEW call \in Call, Add(h, call) PROVE LagInv'
  <2>1. /\ mu = Free /\ sent' = sent /\ db' = db /\ lost' = lost
        /\ pipe' = pipe \o call.cmds /\ want' = ApplyAll(want, call.cmds)
    BY <1>2 DEF Add
  <2>2. sent = 0
    BY <2>1 DEF BufferInv
  <2>3. call.cmds \in Seq(Queued)
    BY CallsCount
  <2>4. Outstanding = pipe /\ Outstanding' = pipe \o call.cmds /\ pipe \in Seq(Queued)
    BY <2>1, <2>2, Halves, HalvesNext DEF BufferInv
  <2>5. ApplyAll(db, pipe \o call.cmds) = ApplyAll(ApplyAll(db, pipe), call.cmds)
    BY <1>0, <2>3, <2>4, StoresClosed, ApplyConcat
  <2>6. want' \in Stores
    BY <1>0, <2>1, <2>3, StoresClosed, ApplyAllType
  <2>7. LagIsTheBuffer'
    BY <2>1, <2>4, <2>5 DEF LagInv, LagIsTheBuffer
  <2> QED BY <1>0, <1>1, <2>1, <2>2, <2>6, <2>7 DEF LagInv
<1>3. CASE ExecCommand
  <2>1. /\ db' = Apply(db, pipe[sent + 1]) /\ want' = want /\ lost' = lost
        /\ pipe[sent + 1] \in Queued
    BY <1>3, OneCommand DEF ExecCommand
  <2>2. db' \in Stores
    BY <1>0, <2>1, ApplyType
  <2>3. ApplyAll(db, <<pipe[sent + 1]>> \o Outstanding')
          = ApplyAll(Apply(db, pipe[sent + 1]), Outstanding')
    BY <1>0, <2>1, HalvesNext, StoresClosed, ApplyFirst
  <2>4. LagIsTheBuffer'
    BY <1>3, <2>1, <2>3, OneCommand DEF LagInv, LagIsTheBuffer
  <2>5. PICK base \in Stores : ApplyAll(base, Executed) = db
    BY DEF LagInv, Explained
  <2>6. ApplyAll(base, Executed') = db'
    <3> DEFINE one == <<pipe[sent + 1]>>
    <3>1. one \in Seq(Queued)
      BY <2>1
    <3>2. one = one \o <<>>
      BY <3>1, ConcatEmptySeq
    <3>3. ApplyAll(db, one) = Apply(db, pipe[sent + 1])
      <4>1. ApplyAll(db, one \o <<>>) = ApplyAll(Apply(db, pipe[sent + 1]), <<>>)
        <5> DEFINE none == <<>>
        <5>1. none \in Seq(Queued)
          OBVIOUS
        <5> HIDE DEF none
        <5>2. ApplyAll(db, one \o none) = ApplyAll(Apply(db, pipe[sent + 1]), none)
          BY <1>0, <2>1, <5>1, StoresClosed, ApplyFirst
        <5> QED BY <5>2 DEF none
      <4>2. ApplyAll(Apply(db, pipe[sent + 1]), <<>>) = Apply(db, pipe[sent + 1])
        BY <2>1, <2>2, StoresClosed, ApplyNone
      <4> QED BY <3>2, <4>1, <4>2
    <3>4. Executed' = Executed \o one
      BY <1>3, OneCommand
    <3> HIDE DEF one
    <3>5. ApplyAll(base, Executed \o one) = ApplyAll(ApplyAll(base, Executed), one)
      BY <3>1, Halves, StoresClosed, ApplyConcat
    <3> QED BY <2>1, <2>5, <3>3, <3>4, <3>5
  <2> QED BY <1>0, <2>1, <2>2, <2>4, <2>6 DEF LagInv, Explained
<1>4. CASE ExecReturns
  <2>1. /\ db' = db /\ want' = want /\ lost' = lost /\ sent' = 0 /\ pipe' = <<>>
        /\ sent = Len(pipe)
    BY <1>4 DEF ExecReturns, Release
  <2>2. Outstanding = <<>> /\ Outstanding' = <<>>
    <3>1. Len(pipe) < sent + 1 /\ sent + 1 \in Int /\ Len(pipe) \in Int
      BY <2>1 DEF BufferInv
    <3>2. Outstanding = <<>>
      BY <3>1, SubSeqEmpty DEF Outstanding
    <3> QED BY <2>1, <3>2, HalvesNext
  <2> QED BY <1>0, <1>1, <2>1, <2>2 DEF LagInv, LagIsTheBuffer
<1>5. CASE ExecFails
  BY <1>0, <1>1, <1>5 DEF ExecFails, Release, LagInv, LagIsTheBuffer
<1>6. CASE Replay
  <2>1. db' = db /\ want' = want /\ lost' = lost /\ sent' = 0 /\ pipe' = pipe
    BY <1>6 DEF Replay
  <2>2. Outstanding' = pipe
    BY <2>1, HalvesNext
  <2>3. ApplyAll(db, pipe) = ApplyAll(db, Outstanding)
    BY <1>0, SentAgain DEF LagInv
  <2> QED BY <1>0, <1>1, <2>1, <2>2, <2>3 DEF LagInv, LagIsTheBuffer
<1>7. CASE TickFires \/ TickFlush \/ TickerStops \/ Close \/ CloseFlush \/ UNCHANGED vars
  <2>1. UNCHANGED <<db, want, lost, pipe, sent>>
    BY <1>7 DEF TickFires, TickFlush, TickerStops, Close, CloseFlush, vars
  <2> QED BY <2>1 DEF LagInv, LagIsTheBuffer, Explained, Outstanding, Executed
<1> QED BY <1>2, <1>3, <1>4, <1>5, <1>6, <1>7 DEF Next, Closing, Exec

LEMMA WriterInv == Spec => [](BufferInv /\ LagInv)
BY BufferInit, BufferNext, LagInit, LagNext, PTL DEF Spec

(* Redis lags behind the calls by exactly the outstanding commands, for    *)
(* any number of handlers, any batch size, any interleaving of calls,      *)
(* ticks and Close with the commands Redis executes, and any number of     *)
(* pipelines that are sent again from any point.                           *)
THEOREM LagCorrect == Spec => []LagIsTheBuffer
<1>1. LagInv => LagIsTheBuffer
  BY DEF LagInv
<1> QED BY <1>1, WriterInv, PTL

(* What Close promises: after it, Redis is what the calls made of it.      *)
THEOREM DrainedCorrect == Spec => []ClosedIsDrained
<1>1. BufferInv /\ LagInv => ClosedIsDrained
  <2> SUFFICES ASSUME BufferInv, LagInv, closer = "closed", ~late, ~lost
               PROVE  pipe = <<>> /\ db = want
    BY DEF ClosedIsDrained
  <2>1. pipe = <<>> /\ sent = 0
    BY DEF BufferInv
  <2>2. Outstanding = <<>>
    BY <2>1, Halves
  <2> QED BY <2>1, <2>2, NothingExecuted DEF LagInv, LagIsTheBuffer
<1> QED BY <1>1, WriterInv, PTL
-----------------------------------------------------------------------------
(* Type correctness, given what is known of the buffer and of Redis.       *)
THEOREM TypeCorrect == Spec => []TypeOK
<1> DEFINE Rest == /\ mu \in Holder \cup {Free} /\ ticker \in {"select", "locking", "flushing", "done"}
                   /\ closer \in {"idle", "waiting", "flushing", "closed"}
                   /\ calls \in 0..MaxCalls /\ faults \in 0..MaxFaults
                   /\ lost \in BOOLEAN /\ late \in BOOLEAN
<1>1. Init => Rest
  <2> SUFFICES ASSUME Init PROVE Rest
    OBVIOUS
  <2>1. mu \in Holder \cup {Free} /\ lost \in BOOLEAN /\ late \in BOOLEAN
    BY DEF Init
  <2>2. calls \in 0..MaxCalls /\ faults \in 0..MaxFaults
    BY BatchAssumption DEF Init
  <2> QED BY <2>1, <2>2 DEF Init
<1>2. Rest /\ [Next]_vars => Rest'
  <2> SUFFICES ASSUME Rest, [Next]_vars PROVE Rest'
    OBVIOUS
  <2>1. ASSUME NEW h \in Handler, NEW call \in Call, Add(h, call) PROVE Rest'
    <3>1. mu' \in Holder \cup {Free} /\ calls' \in 0..MaxCalls /\ late' \in BOOLEAN
      BY <2>1, BatchAssumption DEF Add, Holder
    <3> QED BY <2>1, <3>1 DEF Add
  <2>2. CASE TickFlush
    BY <2>2 DEF TickFlush, Holder
  <2>3. CASE Close
    BY <2>3 DEF Close
  <2>4. CASE TickerStops
    BY <2>4 DEF TickerStops
  <2>5. CASE CloseFlush
    BY <2>5 DEF CloseFlush, Holder
  <2>6. CASE ExecReturns
    BY <2>6 DEF ExecReturns, Release
  <2>7. CASE ExecFails
    BY <2>7, BatchAssumption DEF ExecFails, Release
  <2>8. CASE Replay
    BY <2>8, BatchAssumption DEF Replay
  <2>9. CASE ExecCommand
    BY <2>9 DEF ExecCommand
  <2>10. CASE UNCHANGED vars
    BY <2>10 DEF vars
  <2>11. CASE TickFires
    BY <2>11 DEF TickFires
  <2> QED BY <2>1, <2>2, <2>3, <2>4, <2>5, <2>6, <2>7, <2>8, <2>9, <2>10, <2>11 DEF Next, Closing, Exec
<1>3. BufferInv /\ LagInv /\ Rest => TypeOK
  BY DEF BufferInv, LagInv, TypeOK
<1> QED BY <1>1, <1>2, <1>3, WriterInv, PTL DEF Spec

-----------------------------------------------------------------------------
(* The writer is a LateWriter.                                             *)

(* The abstract specification means the same by a command.                 *)
LEMMA SameCommands ==
  /\ \A d, c : Late!Apply(d, c) = Apply(d, c)
  /\ \A d, cmds : Late!ApplyAll(d, cmds) = ApplyAll(d, cmds)
<1>1. ASSUME NEW d, NEW c PROVE Late!Apply(d, c) = Apply(d, c)
  BY DEF Late!Apply, Late!NoMeta, Late!Absent, Apply, NoMeta, Absent
<1>2. ASSUME NEW d, NEW cmds PROVE Late!ApplyAll(d, cmds) = ApplyAll(d, cmds)
  BY DEF Late!ApplyAll, Late!Applied, Late!Apply, Late!NoMeta, Late!Absent,
         ApplyAll, Applied, Apply, NoMeta, Absent
<1> QED BY <1>1, <1>2

(* The second half of a pipeline is what it ends in.                       *)
LEMMA EndsIn ==
  ASSUME NEW a \in Seq(Queued), NEW b \in Seq(Queued)
  PROVE  Late!IsSuffix(b, a \o b)
<1> DEFINE ab == a \o b
           r == Late!Reverse(b)
           s == Late!Reverse(ab)
<1>1. /\ ab \in Seq(Queued) /\ Len(ab) = Len(a) + Len(b) /\ Len(a) \in Nat /\ Len(b) \in Nat
      /\ \A k \in 1..(Len(a) + Len(b)) : ab[k] = IF k <= Len(a) THEN a[k] ELSE b[k - Len(a)]
  BY ConcatProperties
<1> HIDE DEF ab
<1>2. r \in Seq(Queued) /\ Len(r) = Len(b) /\ \A k \in 1..Len(b) : r[k] = b[Len(b) - k + 1]
  <2>1. \A k \in 1..Len(b) : b[Len(b) - k + 1] \in Queued
    BY <1>1, ElementOfSeq
  <2> QED BY <1>1, <2>1 DEF Late!Reverse
<1>3. s \in Seq(Queued) /\ Len(s) = Len(ab) /\ \A k \in 1..Len(ab) : s[k] = ab[Len(ab) - k + 1]
  <2>1. \A k \in 1..Len(ab) : ab[Len(ab) - k + 1] \in Queued
    BY <1>1, ElementOfSeq
  <2> QED BY <1>1, <2>1 DEF Late!Reverse
<1>4. \A k \in 1..Len(b) : r[k] = s[k]
  <2> SUFFICES ASSUME NEW k \in 1..Len(b) PROVE r[k] = s[k]
    OBVIOUS
  <2>1. k \in 1..Len(ab) /\ Len(ab) - k + 1 \in 1..(Len(a) + Len(b))
        /\ ~(Len(ab) - k + 1 <= Len(a)) /\ Len(ab) - k + 1 - Len(a) = Len(b) - k + 1
    BY <1>1
  <2>2. s[k] = ab[Len(ab) - k + 1]
    BY <1>3, <2>1
  <2> DEFINE m == Len(ab) - k + 1
  <2>3. m \in 1..(Len(a) + Len(b)) /\ ~(m <= Len(a)) /\ m - Len(a) = Len(b) - k + 1
    BY <2>1
  <2> HIDE DEF m
  <2>4. ab[m] = b[m - Len(a)]
    BY <1>1, <2>3
  <2> QED BY <1>2, <2>2, <2>3, <2>4 DEF m
<1> HIDE DEF r, s
<1>5. SubSeq(r, 1, Len(r)) = r
  BY <1>2, SubSeqFull
<1>6. SubSeq(s, 1, Len(r)) = r
  <2> DEFINE t == SubSeq(s, 1, Len(r))
  <2>1. \A k \in 1..Len(r) : s[k] \in Queued
    BY <1>1, <1>2, <1>3
  <2>2. /\ t \in Seq(Queued) /\ Len(t) = Len(r)
        /\ \A k \in 1..Len(r) : t[k] = s[k]
    BY <1>1, <1>2, <2>1, SubSeqProperties
  <2> HIDE DEF t
  <2>3. t = r
    BY <1>2, <1>4, <2>2, SeqEqual
  <2> QED BY <2>3 DEF t
<1>7. Len(r) <= Len(s)
  BY <1>1, <1>2, <1>3
<1> QED BY <1>5, <1>6, <1>7 DEF Late!IsSuffix, Late!IsPrefix, r, s, ab

LEMMA LateStarts == Init => Late!LateInit
<1> SUFFICES ASSUME Init PROVE Late!LateInit
  OBVIOUS
<1>1. Outstanding = <<>>
  BY BufferInit, Halves DEF Init
<1>2. Late!EmptyStore = EmptyStore
  BY DEF Late!EmptyStore, Late!NoMeta, Late!Absent, EmptyStore, NoMeta, Absent
<1> QED BY <1>1, <1>2 DEF Init, Late!LateInit

LEMMA LateSteps ==
  BufferInv /\ BufferInv' /\ LagInv /\ [Next]_vars => [Late!LateNext]_(Late!lateVars)
<1> SUFFICES ASSUME BufferInv, BufferInv', LagInv, [Next]_vars
             PROVE  Late!LateNext \/ UNCHANGED Late!lateVars
  OBVIOUS
<1>1. ASSUME NEW h \in Handler, NEW call \in Call, Add(h, call) PROVE Late!LateNext
  <2>1. mu = Free /\ sent' = sent /\ pipe' = pipe \o call.cmds /\ UNCHANGED <<db, lost>>
    BY <1>1 DEF Add
  <2>2. Outstanding = pipe /\ Outstanding' = pipe'
    BY <2>1, Halves, HalvesNext DEF BufferInv
  <2>3. Late!Accept(call.cmds)
    BY <2>1, <2>2 DEF Late!Accept
  <2> QED BY <2>3 DEF Late!LateNext
<1>2. ASSUME ExecCommand PROVE Late!LateNext
  <2> DEFINE c == pipe[sent + 1]
             one == <<c>>
             more == Outstanding'
  <2>1. c \in Queued /\ Outstanding = one \o more /\ more \in Seq(Queued)
    BY <1>2, OneCommand, HalvesNext
  <2>2. db' = Apply(db, c) /\ lost' = lost
    BY <1>2 DEF ExecCommand
  <2>3. one \in Seq(Queued) /\ Len(one) = 1 /\ one[1] = c
    BY <2>1
  <2> HIDE DEF one, c, more
  <2>4. /\ Outstanding \in Seq(Queued) /\ Len(Outstanding) = 1 + Len(more) /\ Len(more) \in Nat
        /\ Outstanding[1] = c
        /\ \A k \in 1..Len(more) : Outstanding[k + 1] = more[k]
    <3>1. /\ one \o more \in Seq(Queued) /\ Len(one \o more) = Len(one) + Len(more)
          /\ \A k \in 1..(Len(one) + Len(more)) :
               (one \o more)[k] = IF k <= Len(one) THEN one[k] ELSE more[k - Len(one)]
      BY <2>1, <2>3, ConcatProperties
    <3> QED BY <2>1, <2>3, <3>1
  <2>5. Outstanding # <<>>
    BY <2>4
  <2>6. Tail(Outstanding) = more
    <3> DEFINE t == Tail(Outstanding)
    <3>1. /\ t \in Seq(Queued) /\ Len(t) = Len(Outstanding) - 1
          /\ \A k \in 1..Len(t) : t[k] = Outstanding[k + 1]
      BY <2>4, <2>5, HeadTailProperties
    <3> HIDE DEF t
    <3>2. t = more
      BY <2>1, <2>4, <3>1, SeqEqual
    <3> QED BY <3>2 DEF t
  <2>7. Head(Outstanding) = c
    BY <2>4
  <2>8. Late!Deliver
    BY <2>2, <2>5, <2>6, <2>7, SameCommands DEF Late!Deliver, more
  <2> QED BY <2>8 DEF Late!LateNext
<1>3. CASE ExecReturns
  <2>1. sent = Len(pipe) /\ pipe' = <<>> /\ sent' = 0 /\ UNCHANGED <<db, lost>>
    BY <1>3 DEF ExecReturns, Release
  <2>2. Len(pipe) < sent + 1 /\ sent + 1 \in Int /\ Len(pipe) \in Int
    BY <2>1 DEF BufferInv
  <2>3. Outstanding = <<>>
    BY <2>2, SubSeqEmpty DEF Outstanding
  <2>4. Outstanding' = <<>>
    BY <2>1, HalvesNext
  <2> QED BY <2>1, <2>3, <2>4 DEF Late!lateVars
<1>4. ASSUME ExecFails PROVE Late!LateNext
  <2>1. pipe' = <<>> /\ sent' = 0 /\ lost' = TRUE /\ db' = db
    BY <1>4 DEF ExecFails, Release
  <2>2. Late!GiveUp
    BY <2>1, HalvesNext DEF Late!GiveUp
  <2> QED BY <2>2 DEF Late!LateNext
<1>5. ASSUME Replay PROVE Late!LateNext
  <2>1. sent' = 0 /\ pipe' = pipe /\ UNCHANGED <<db, lost>>
    BY <1>5 DEF Replay
  <2>2. Outstanding' = Executed \o Outstanding /\ Outstanding' = pipe
    BY <2>1, Halves, HalvesNext
  <2>3. Late!IsSuffix(Outstanding, Outstanding')
    BY <2>2, Halves, EndsIn
  <2>4. ApplyAll(db, Outstanding') = ApplyAll(db, Outstanding)
    BY <2>2, SentAgain DEF LagInv
  <2>5. Late!Repeat
    BY <2>1, <2>3, <2>4, SameCommands DEF Late!Repeat
  <2> QED BY <2>5 DEF Late!LateNext
<1>6. CASE TickFires \/ TickFlush \/ TickerStops \/ Close \/ CloseFlush \/ UNCHANGED vars
  <2>1. UNCHANGED <<db, lost, pipe, sent>>
    BY <1>6 DEF TickFires, TickFlush, TickerStops, Close, CloseFlush, vars
  <2> QED BY <2>1 DEF Late!lateVars, Outstanding
<1> QED BY <1>1, <1>2, <1>3, <1>4, <1>5, <1>6 DEF Next, Closing, Exec

(* The writer implements the LateWriter: each step of it is one of the     *)
(* abstract writer, with the outstanding commands for its log, or none.    *)
THEOREM LateCorrect == Spec => ImplementsLateWriter
BY LateStarts, LateSteps, WriterInv, PTL DEF Spec, ImplementsLateWriter, Late!LateSpec

-----------------------------------------------------------------------------
(* What is shown is changed by whole calls.                                *)

(* How a command changes what is shown.                                    *)
SameBut(d, p, i) == /\ p.edges = d.edges
                    /\ \A j \in Id \ {i} : Listed(p, j) <=> Listed(d, j)

LEMMA ShownSame ==
  ASSUME NEW d, NEW p, NEW i \in Id, SameBut(d, p, i), Listed(p, i) <=> Listed(d, i)
  PROVE  Shown(p) = Shown(d)
<1>1. \A j \in Id : Listed(p, j) <=> Listed(d, j)
  BY DEF SameBut
<1> QED BY <1>1 DEF Shown, SameBut

LEMMA ShownMore ==
  ASSUME NEW d, NEW p, NEW i \in Id, SameBut(d, p, i), Listed(p, i)
  PROVE  Shown(p) = Writer!UpsertEntity(Shown(d), i)
<1> DEFINE A == {j \in Id : Listed(d, j)}
           B == {j \in Id : Listed(p, j)}
<1>1. B = A \cup {i} /\ p.edges = d.edges
  BY DEF SameBut
<1>2. Shown(d) = [entities |-> A, edges |-> d.edges] /\ Shown(p) = [entities |-> B, edges |-> p.edges]
  BY DEF Shown
<1> HIDE DEF A, B
<1> QED BY <1>1, <1>2 DEF Writer!UpsertEntity

LEMMA KeysShown ==
  ASSUME NEW d \in Stores, NEW i \in Id, NEW md \in Metadata,
         NEW c \in {HSet(i, 1), SAddKind(i), SAddId(i), HSetMeta(i, md)}
  PROVE  /\ SameBut(d, Apply(d, c), i)
         /\ Listed(d, i) => Listed(Apply(d, c), i)
<1>1. CASE c = HSet(i, 1)
  <2> DEFINE core == [d.core EXCEPT ![i] = 1]
  <2>1. \A j \in Id : core[j] = IF j = i THEN 1 ELSE d.core[j]
    BY DEF Stores
  <2>2. Apply(d, c) = [d EXCEPT !.core = core]
    BY <1>1, HSetEffect
  <2> HIDE DEF core
  <2>3. /\ Apply(d, c).core = core /\ Apply(d, c).edges = d.edges
        /\ Apply(d, c).ids = d.ids /\ Apply(d, c).byKind = d.byKind
    BY <2>2 DEF Stores
  <2> QED BY <2>1, <2>3 DEF SameBut, Listed, Exists, Absent
<1>2. CASE c = SAddKind(i)
  BY <1>2, SAddKindEffect DEF Stores, SameBut, Listed, Exists
<1>3. CASE c = SAddId(i)
  BY <1>3, SAddIdEffect DEF Stores, SameBut, Listed, Exists
<1>4. CASE c = HSetMeta(i, md)
  <2> DEFINE meta == [d.meta EXCEPT ![i] = Merged(d, i, md)]
  <2>1. Apply(d, c) = [d EXCEPT !.meta = meta]
    BY <1>4, HSetMetaEffect
  <2> HIDE DEF meta
  <2> QED BY <2>1 DEF Stores, SameBut, Listed, Exists
<1> QED BY <1>1, <1>2, <1>3, <1>4

LEMMA DelShown ==
  ASSUME NEW d \in Stores, NEW i \in Id
  PROVE  /\ Shown(Apply(d, Del(i))) = Writer!DeleteEntity(Shown(d), i)
         /\ ~Exists(Apply(d, Del(i)), i)
<1> DEFINE core == [d.core EXCEPT ![i] = Absent]
           meta == [d.meta EXCEPT ![i] = NoMeta]
           edges == d.edges \ Outgoing(d, i)
           p == Apply(d, Del(i))
<1>1. \A j \in Id : core[j] = IF j = i THEN Absent ELSE d.core[j]
  BY DEF Stores
<1>2. p = [d EXCEPT !.core = core, !.meta = meta, !.edges = edges]
  BY DelEffect
<1>3. edges = {e \in d.edges : e.from # i}
  BY DEF Outgoing
<1> HIDE DEF core, meta, edges, p
<1>4. p.core = core /\ p.edges = edges /\ p.ids = d.ids /\ p.byKind = d.byKind
  BY <1>2 DEF Stores
<1>5. ~Exists(p, i) /\ \A j \in Id \ {i} : Listed(p, j) <=> Listed(d, j)
  BY <1>1, <1>4 DEF Exists, Listed
<1>6. {j \in Id : Listed(p, j)} = {j \in Id : Listed(d, j)} \ {i}
  BY <1>5 DEF Listed
<1>7. Shown(p) = Writer!DeleteEntity(Shown(d), i)
  BY <1>3, <1>4, <1>6 DEF Shown, Writer!DeleteEntity
<1> QED BY <1>5, <1>7 DEF p

LEMMA SRemShown ==
  ASSUME NEW d \in Stores, NEW i \in Id, ~Exists(d, i), NEW c \in {SRemId(i), SRemKind(i)}
  PROVE  Shown(Apply(d, c)) = Shown(d) /\ ~Exists(Apply(d, c), i)
<1>1. CASE c = SRemId(i)
  <2>1. SameBut(d, Apply(d, c), i) /\ ~Exists(Apply(d, c), i)
    BY <1>1, SRemIdEffect DEF Stores, SameBut, Listed, Exists
  <2> QED BY <2>1, ShownSame DEF Listed
<1>2. CASE c = SRemKind(i)
  <2>1. SameBut(d, Apply(d, c), i) /\ ~Exists(Apply(d, c), i)
    BY <1>2, SRemKindEffect DEF Stores, SameBut, Listed, Exists
  <2> QED BY <2>1, ShownSame DEF Listed
<1> QED BY <1>1, <1>2

LEMMA EdgesShown ==
  ASSUME NEW d \in Stores, NEW e \in Edge
  PROVE  /\ Shown(Apply(d, SAddEdge(e))) = Writer!AddEdge(Shown(d), e)
         /\ Shown(Apply(d, SRemEdge(e))) = Writer!RemoveEdge(Shown(d), e)
<1>1. /\ Apply(d, SAddEdge(e)) = [d EXCEPT !.edges = @ \cup {e}]
      /\ Apply(d, SRemEdge(e)) = [d EXCEPT !.edges = @ \ {e}]
  BY SAddEdgeEffect, SRemEdgeEffect
<1>2. ASSUME NEW p, NEW E, p = [d EXCEPT !.edges = E]
      PROVE  Shown(p) = [Shown(d) EXCEPT !.edges = E]
  <2>1. \A j \in Id : Listed(p, j) <=> Listed(d, j)
    BY <1>2 DEF Stores, Listed, Exists
  <2> DEFINE A == {j \in Id : Listed(d, j)}
             B == {j \in Id : Listed(p, j)}
  <2>2. B = A /\ p.edges = E
    BY <1>2, <2>1 DEF Stores
  <2>3. Shown(d) = [entities |-> A, edges |-> d.edges] /\ Shown(p) = [entities |-> B, edges |-> p.edges]
    BY DEF Shown
  <2> HIDE DEF A, B
  <2> QED BY <2>2, <2>3
<1> QED BY <1>1, <1>2 DEF Writer!AddEdge, Writer!RemoveEdge, Shown

-----------------------------------------------------------------------------
(* A whole call is what the interface says it is.                          *)

LEMMA ApplyOne ==
  ASSUME NEW d \in Stores, NEW a \in Queued
  PROVE  ApplyAll(d, <<a>>) = Apply(d, a)
<1> DEFINE none == <<>>
<1>1. none \in Seq(Queued) /\ <<a>> \o none = <<a>>
  OBVIOUS
<1>2. Apply(d, a) \in Stores
  BY ApplyType
<1>3. ApplyAll(Apply(d, a), none) = Apply(d, a)
  BY <1>2, ApplyNone, StoresClosed
<1> HIDE DEF none
<1>4. ApplyAll(d, <<a>> \o none) = ApplyAll(Apply(d, a), none)
  BY <1>1, ApplyFirst, StoresClosed
<1> QED BY <1>1, <1>3, <1>4

LEMMA ApplyTwo ==
  ASSUME NEW d \in Stores, NEW a \in Queued, NEW b \in Queued
  PROVE  ApplyAll(d, <<a, b>>) = Apply(Apply(d, a), b)
<1> DEFINE one == <<b>>
           both == <<a, b>>
<1>1. one \in Seq(Queued)
  OBVIOUS
<1>2. both = <<a>> \o one
  <2> DEFINE x == <<a>> \o one
  <2>1. /\ x \in Seq(Queued) /\ both \in Seq(Queued) /\ Len(x) = 2 /\ Len(both) = 2
        /\ x[1] = a /\ x[2] = b /\ both[1] = a /\ both[2] = b
    OBVIOUS
  <2> HIDE DEF x, both
  <2>2. x = both
    BY <2>1, SeqEqual
  <2> QED BY <2>2 DEF x
<1>3. Apply(d, a) \in Stores
  BY ApplyType
<1>4. ApplyAll(Apply(d, a), one) = Apply(Apply(d, a), b)
  BY <1>3, ApplyOne
<1> HIDE DEF one, both
<1>5. ApplyAll(d, <<a>> \o one) = ApplyAll(Apply(d, a), one)
  BY <1>1, ApplyFirst, StoresClosed
<1>6. ApplyAll(d, both) = Apply(Apply(d, a), b)
  BY <1>2, <1>4, <1>5
<1> QED BY <1>6 DEF both

LEMMA ApplyThree ==
  ASSUME NEW d \in Stores, NEW a \in Queued, NEW b \in Queued, NEW c \in Queued
  PROVE  ApplyAll(d, <<a, b, c>>) = Apply(Apply(Apply(d, a), b), c)
<1> DEFINE two == <<b, c>>
           all == <<a, b, c>>
<1>1. two \in Seq(Queued)
  OBVIOUS
<1>2. all = <<a>> \o two
  OBVIOUS
<1>3. Apply(d, a) \in Stores
  BY ApplyType
<1>4. ApplyAll(Apply(d, a), two) = Apply(Apply(Apply(d, a), b), c)
  BY <1>3, ApplyTwo
<1> HIDE DEF two, all
<1>5. ApplyAll(d, <<a>> \o two) = ApplyAll(Apply(d, a), two)
  BY <1>1, ApplyFirst, StoresClosed
<1>6. ApplyAll(d, all) = Apply(Apply(Apply(d, a), b), c)
  BY <1>2, <1>4, <1>5
<1> QED BY <1>6 DEF all

(* The commands of each call, all executed, change what is shown as the    *)
(* interface of the writer says the call changes the graph, whatever a     *)
(* failed flush or another writer has left in the store: an upserted       *)
(* entity is listed by every key; a deleted one is not, and its outgoing   *)
(* edges are gone (rediswriter.go 113-161, watcher.go 27-32).              *)
THEOREM CallsCorrect ==
  ASSUME NEW d \in Stores
  PROVE  /\ \A i \in Id, md \in Metadata :
              Shown(ApplyAll(d, UpsertEntity(i, md).cmds)) = Writer!UpsertEntity(Shown(d), i)
         /\ \A i \in Id :
              Shown(ApplyAll(d, DeleteEntity(i).cmds)) = Writer!DeleteEntity(Shown(d), i)
         /\ \A e \in Edge :
              /\ Shown(ApplyAll(d, AddEdge(e).cmds)) = Writer!AddEdge(Shown(d), e)
              /\ Shown(ApplyAll(d, RemoveEdge(e).cmds)) = Writer!RemoveEdge(Shown(d), e)
<1>1. ASSUME NEW i \in Id, NEW md \in Metadata
      PROVE  Shown(ApplyAll(d, UpsertEntity(i, md).cmds)) = Writer!UpsertEntity(Shown(d), i)
  <2> DEFINE p1 == Apply(d, HSet(i, 1))
             p2 == Apply(p1, SAddKind(i))
             p3 == Apply(p2, SAddId(i))
             p4 == Apply(p3, HSetMeta(i, md))
             core == <<HSet(i, 1), SAddKind(i), SAddId(i)>>
             meta == <<HSetMeta(i, md)>>
  <2>1. /\ HSet(i, 1) \in Queued /\ SAddKind(i) \in Queued /\ SAddId(i) \in Queued
        /\ HSetMeta(i, md) \in Queued
    BY DEF Queued
  <2>2. core \in Seq(Queued) /\ meta \in Seq(Queued)
    BY <2>1
  <2>3. p1 \in Stores /\ p2 \in Stores /\ p3 \in Stores /\ p4 \in Stores
    <3>1. p1 \in Stores
      BY <2>1, ApplyType
    <3> HIDE DEF p1
    <3>2. p2 \in Stores
      BY <2>1, <3>1, ApplyType
    <3> HIDE DEF p2
    <3>3. p3 \in Stores
      BY <2>1, <3>2, ApplyType
    <3> HIDE DEF p3
    <3> QED BY <2>1, <3>1, <3>2, <3>3, ApplyType
  <2>4. p1.core[i] = 1 /\ p1.core = p3.core /\ i \in p3.byKind /\ i \in p3.ids
    <3>1. p1 = [d EXCEPT !.core = [@ EXCEPT ![i] = 1]]
      BY HSetEffect
    <3>2. p1.core[i] = 1
      BY <3>1 DEF Stores
    <3> HIDE DEF p1
    <3>3. p2.core = p1.core /\ i \in p2.byKind
      BY <2>3, SAddKindEffect DEF Stores
    <3> HIDE DEF p2
    <3>4. p3.core = p2.core /\ p3.byKind = p2.byKind /\ i \in p3.ids
      BY <2>3, SAddIdEffect DEF Stores
    <3> QED BY <3>2, <3>3, <3>4
  <2>5. Listed(p3, i)
    BY <2>4 DEF Listed, Exists, Absent
  <2>6. SameBut(d, p1, i)
    BY KeysShown
  <2>7. SameBut(p1, p2, i) /\ SameBut(p2, p3, i)
    <3> HIDE DEF p1
    <3>1. SameBut(p1, p2, i)
      BY <2>3, KeysShown
    <3> HIDE DEF p2
    <3> QED BY <2>3, <3>1, KeysShown
  <2>8. SameBut(p3, p4, i) /\ Listed(p4, i)
    <3> HIDE DEF p3
    <3> QED BY <2>3, <2>5, KeysShown
  <2>9. ApplyAll(d, core) = p3
    BY <2>1, ApplyThree
  <2>10. ApplyAll(d, core \o meta) = p4
    <3>1. ApplyAll(d, core \o meta) = ApplyAll(ApplyAll(d, core), meta)
      <4> HIDE DEF core, meta
      <4> QED BY <2>2, ApplyConcat, StoresClosed
    <3> HIDE DEF p3
    <3>2. ApplyAll(p3, meta) = p4
      BY <2>1, <2>3, ApplyOne
    <3> QED BY <2>9, <3>1, <3>2
  <2>11. UpsertEntity(i, md).cmds \in {core, core \o meta}
    <3>1. core \o <<>> = core
      BY <2>2
    <3>2. UpsertEntity(i, md).cmds = core \o (IF NonEmpty(md) THEN meta ELSE <<>>)
      BY DEF UpsertEntity
    <3> HIDE DEF core, meta
    <3> QED BY <3>1, <3>2
  <2> HIDE DEF p1, p2, p3, p4, core, meta
  <2>12. SameBut(d, p3, i) /\ SameBut(d, p4, i)
    BY <2>6, <2>7, <2>8 DEF SameBut
  <2>13. /\ Shown(p3) = Writer!UpsertEntity(Shown(d), i)
         /\ Shown(p4) = Writer!UpsertEntity(Shown(d), i)
    BY <2>5, <2>8, <2>12, ShownMore
  <2> QED BY <2>9, <2>10, <2>11, <2>13
<1>2. ASSUME NEW i \in Id
      PROVE  Shown(ApplyAll(d, DeleteEntity(i).cmds)) = Writer!DeleteEntity(Shown(d), i)
  <2> DEFINE p1 == Apply(d, Del(i))
             p2 == Apply(p1, SRemId(i))
             p3 == Apply(p2, SRemKind(i))
  <2>1. Del(i) \in Queued /\ SRemId(i) \in Queued /\ SRemKind(i) \in Queued
    BY DEF Queued
  <2>2. p1 \in Stores /\ Shown(p1) = Writer!DeleteEntity(Shown(d), i) /\ ~Exists(p1, i)
    BY <2>1, ApplyType, DelShown
  <2>3. p2 \in Stores /\ Shown(p2) = Shown(p1) /\ ~Exists(p2, i)
    <3> HIDE DEF p1
    <3> QED BY <2>1, <2>2, ApplyType, SRemShown
  <2>4. Shown(p3) = Shown(p2)
    <3> HIDE DEF p2
    <3> QED BY <2>3, SRemShown
  <2>5. ApplyAll(d, DeleteEntity(i).cmds) = p3
    BY <2>1, ApplyThree DEF DeleteEntity
  <2> HIDE DEF p1, p2, p3
  <2> QED BY <2>2, <2>3, <2>4, <2>5
<1>3. ASSUME NEW e \in Edge
      PROVE  /\ Shown(ApplyAll(d, AddEdge(e).cmds)) = Writer!AddEdge(Shown(d), e)
             /\ Shown(ApplyAll(d, RemoveEdge(e).cmds)) = Writer!RemoveEdge(Shown(d), e)
  <2>1. SAddEdge(e) \in Queued /\ SRemEdge(e) \in Queued
    BY DEF Queued
  <2>2. /\ ApplyAll(d, AddEdge(e).cmds) = Apply(d, SAddEdge(e))
        /\ ApplyAll(d, RemoveEdge(e).cmds) = Apply(d, SRemEdge(e))
    BY <2>1, ApplyOne DEF AddEdge, RemoveEdge
  <2> QED BY <2>2, EdgesShown
<1> QED BY <1>1, <1>2, <1>3

-----------------------------------------------------------------------------
(* Nobody sees half a call.                                                *)

(* In a pipeline an id leaves its indexes after its keys have gone.        *)
KeysFirst(cmds) ==
  \A k \in 1..Len(cmds), i \in Id :
    /\ cmds[k] = SRemId(i) => k > 1 /\ cmds[k - 1] = Del(i)
    /\ cmds[k] = SRemKind(i) => k > 1 /\ cmds[k - 1] = SRemId(i)

(* And while the commands of such a call are executed, nothing brings the  *)
(* keys back.                                                              *)
OrderInv ==
  /\ KeysFirst(pipe)
  /\ \A i \in Id : sent > 0 /\ pipe[sent] \in {Del(i), SRemId(i)} => ~Exists(db, i)

(* Commands of different kinds are different, and of an id's commands each *)
(* is its own.                                                             *)
Unlike(c) == \A i : c # Del(i) /\ c # SRemId(i) /\ c # SRemKind(i)

LEMMA Kinds ==
  /\ \A i, t : Unlike(HSet(i, t)) /\ Unlike(HSetMeta(i, t))
  /\ \A i : Unlike(SAddKind(i)) /\ Unlike(SAddId(i)) /\ Unlike(SAddEdge(i)) /\ Unlike(SRemEdge(i))
  /\ \A i, j : Del(i) # SRemId(j) /\ Del(i) # SRemKind(j) /\ SRemId(i) # SRemKind(j)
  /\ \A i, j : /\ Del(i) = Del(j) => i = j
               /\ SRemId(i) = SRemId(j) => i = j
               /\ SRemKind(i) = SRemKind(j) => i = j
<1>1. ASSUME NEW i, NEW t, NEW j
      PROVE  /\ HSet(i, t) # Del(j) /\ HSet(i, t) # SRemId(j) /\ HSet(i, t) # SRemKind(j)
             /\ HSetMeta(i, t) # Del(j) /\ HSetMeta(i, t) # SRemId(j) /\ HSetMeta(i, t) # SRemKind(j)
  BY DEF HSet, HSetMeta, Del, SRemId, SRemKind
<1>2. ASSUME NEW i, NEW j
      PROVE  /\ SAddKind(i) # Del(j) /\ SAddKind(i) # SRemId(j) /\ SAddKind(i) # SRemKind(j)
             /\ SAddId(i) # Del(j) /\ SAddId(i) # SRemId(j) /\ SAddId(i) # SRemKind(j)
  BY DEF SAddKind, SAddId, Del, SRemId, SRemKind
<1>3. ASSUME NEW i, NEW j
      PROVE  /\ SAddEdge(i) # Del(j) /\ SAddEdge(i) # SRemId(j) /\ SAddEdge(i) # SRemKind(j)
             /\ SRemEdge(i) # Del(j) /\ SRemEdge(i) # SRemId(j) /\ SRemEdge(i) # SRemKind(j)
  BY DEF SAddEdge, SRemEdge, Del, SRemId, SRemKind
<1>4. ASSUME NEW i, NEW j
      PROVE  /\ Del(i) # SRemId(j) /\ Del(i) # SRemKind(j) /\ SRemId(i) # SRemKind(j)
             /\ Del(i) = Del(j) => i = j
             /\ SRemId(i) = SRemId(j) => i = j
             /\ SRemKind(i) = SRemKind(j) => i = j
  BY DEF Del, SRemId, SRemKind
<1> QED BY <1>1, <1>2, <1>3, <1>4 DEF Unlike

LEMMA CallKeysFirst ==
  ASSUME NEW call \in Call PROVE KeysFirst(call.cmds)
<1> DEFINE Others == {HSet(i, 1) : i \in Id} \cup {SAddKind(i) : i \in Id} \cup {SAddId(i) : i \in Id}
                     \cup {HSetMeta(i, md) : i \in Id, md \in Metadata}
                     \cup {SAddEdge(e) : e \in Edge} \cup {SRemEdge(e) : e \in Edge}
<1>1. \A c \in Others, i \in Id : c # SRemId(i) /\ c # SRemKind(i)
  <2>1. \A c \in Others : Unlike(c)
    BY Kinds
  <2> HIDE DEF Others
  <2> QED BY <2>1 DEF Unlike
<1> HIDE DEF Others
<1>2. ASSUME NEW cmds \in Seq(Others) PROVE KeysFirst(cmds)
  BY <1>1, ElementOfSeq DEF KeysFirst
<1>3. ASSUME NEW i \in Id, NEW md \in Metadata, call = UpsertEntity(i, md)
      PROVE  call.cmds \in Seq(Others)
  <2>1. /\ HSet(i, 1) \in Others /\ SAddKind(i) \in Others /\ SAddId(i) \in Others
        /\ HSetMeta(i, md) \in Others
    BY DEF Others
  <2> DEFINE core == <<HSet(i, 1), SAddKind(i), SAddId(i)>>
             meta == <<HSetMeta(i, md)>>
             none == <<>>
  <2>2. core \in Seq(Others) /\ meta \in Seq(Others) /\ none \in Seq(Others)
    BY <2>1
  <2>3. call.cmds = core \o (IF NonEmpty(md) THEN meta ELSE none)
    BY <1>3 DEF UpsertEntity
  <2> HIDE DEF core, meta, none
  <2> QED BY <2>2, <2>3, ConcatProperties
<1>4. ASSUME NEW e \in Edge, \E c \in {SAddEdge(e), SRemEdge(e)} : call = [cmds |-> <<c>>, count |-> 1]
      PROVE  call.cmds \in Seq(Others)
  <2>1. SAddEdge(e) \in Others /\ SRemEdge(e) \in Others
    BY DEF Others
  <2>2. PICK c \in Others : call = [cmds |-> <<c>>, count |-> 1]
    BY <1>4, <2>1
  <2> QED BY <2>2
<1>5. ASSUME NEW i \in Id, call = DeleteEntity(i) PROVE KeysFirst(call.cmds)
  <2> DEFINE cmds == <<Del(i), SRemId(i), SRemKind(i)>>
  <2>1. call.cmds = cmds /\ Len(cmds) = 3
    BY <1>5 DEF DeleteEntity
  <2>2. ASSUME NEW k \in 1..3, NEW j \in Id
        PROVE  /\ cmds[k] = SRemId(j) => k > 1 /\ cmds[k - 1] = Del(j)
               /\ cmds[k] = SRemKind(j) => k > 1 /\ cmds[k - 1] = SRemId(j)
    <3>1. CASE k = 1
      BY <3>1 DEF Del, SRemId, SRemKind
    <3>2. CASE k = 2
      <4>1. cmds[k] = SRemId(i) /\ cmds[k - 1] = Del(i)
        BY <3>2
      <4> QED BY Kinds, <3>2, <4>1
    <3>3. CASE k = 3
      <4>1. cmds[k] = SRemKind(i) /\ cmds[k - 1] = SRemId(i)
        BY <3>3
      <4> QED BY Kinds, <3>3, <4>1
    <3> QED BY <3>1, <3>2, <3>3
  <2> HIDE DEF cmds
  <2> QED BY <2>1, <2>2 DEF KeysFirst
<1> QED BY <1>2, <1>3, <1>4, <1>5 DEF Call, AddEdge, RemoveEdge

LEMMA BothKeysFirst ==
  ASSUME NEW a \in Seq(Queued), NEW b \in Seq(Queued), KeysFirst(a), KeysFirst(b)
  PROVE  KeysFirst(a \o b)
<1> DEFINE ab == a \o b
<1>1. /\ Len(ab) = Len(a) + Len(b) /\ Len(a) \in Nat /\ Len(b) \in Nat
      /\ \A k \in 1..(Len(a) + Len(b)) : ab[k] = IF k <= Len(a) THEN a[k] ELSE b[k - Len(a)]
  BY ConcatProperties
<1> HIDE DEF ab
<1>2. ASSUME NEW k \in 1..Len(ab), NEW i \in Id
      PROVE  /\ ab[k] = SRemId(i) => k > 1 /\ ab[k - 1] = Del(i)
             /\ ab[k] = SRemKind(i) => k > 1 /\ ab[k - 1] = SRemId(i)
  <2>1. CASE k <= Len(a)
    <3>1. k \in 1..Len(a) /\ ab[k] = a[k]
      BY <1>1, <2>1
    <3>2. k > 1 => ab[k - 1] = a[k - 1]
      BY <1>1, <2>1
    <3> QED BY <3>1, <3>2 DEF KeysFirst
  <2>2. CASE ~(k <= Len(a))
    <3> DEFINE m == k - Len(a)
    <3>1. m \in 1..Len(b) /\ ab[k] = b[m]
      BY <1>1, <2>2
    <3>2. m > 1 => k > 1 /\ ab[k - 1] = b[m - 1]
      <4>1. m > 1 => k - 1 \in 1..(Len(a) + Len(b)) /\ ~(k - 1 <= Len(a)) /\ k - 1 - Len(a) = m - 1
        BY <1>1, <2>2
      <4> QED BY <1>1, <4>1
    <3> HIDE DEF m
    <3> QED BY <3>1, <3>2 DEF KeysFirst
  <2> QED BY <2>1, <2>2
<1>3. KeysFirst(ab)
  BY <1>2 DEF KeysFirst
<1> QED BY <1>3 DEF ab

(* What one command of a pipeline in this order does to what is shown.     *)
LEMMA CommandShown ==
  ASSUME BufferInv, LagInv, OrderInv, ExecCommand
  PROVE  /\ Writer!WriterNext \/ Shown(db') = Shown(db)
         /\ \A i \in Id : pipe[sent + 1] \in {Del(i), SRemId(i)} => ~Exists(db', i)
<1> DEFINE c == pipe[sent + 1]
<1>0. db \in Stores /\ sent + 1 \in 1..Len(pipe) /\ sent \in Nat
  BY DEF LagInv, BufferInv, ExecCommand
<1>1. db' = Apply(db, c) /\ c \in Queued
  BY OneCommand DEF ExecCommand
<1>2. \A i, j : Del(i) # SRemId(j) /\ (Del(i) = Del(j) => i = j) /\ (SRemId(i) = SRemId(j) => i = j)
  BY Kinds
<1>3. \A i \in Id : (c = SRemId(i) \/ c = SRemKind(i)) => ~Exists(db, i)
  <2> SUFFICES ASSUME NEW i \in Id, c = SRemId(i) \/ c = SRemKind(i) PROVE ~Exists(db, i)
    OBVIOUS
  <2>1. sent + 1 > 1 /\ pipe[sent + 1 - 1] \in {Del(i), SRemId(i)}
    BY <1>0 DEF OrderInv, KeysFirst
  <2>2. sent > 0 /\ sent + 1 - 1 = sent
    BY <1>0, <2>1
  <2> QED BY <2>1, <2>2 DEF OrderInv
<1> DEFINE Goal == /\ Writer!WriterNext \/ Shown(db') = Shown(db)
                   /\ \A i \in Id : c \in {Del(i), SRemId(i)} => ~Exists(db', i)
<1>4. ASSUME NEW i \in Id, NEW md \in Metadata, c \in {HSet(i, 1), SAddKind(i), SAddId(i), HSetMeta(i, md)}
      PROVE  Goal
  <2>1. SameBut(db, db', i) /\ (Listed(db, i) => Listed(db', i))
    BY <1>0, <1>1, <1>4, KeysShown
  <2>2. Shown(db') = Shown(db) \/ Shown(db') = Writer!UpsertEntity(Shown(db), i)
    BY <2>1, ShownSame, ShownMore
  <2>3. \A j \in Id : c # Del(j) /\ c # SRemId(j)
    BY <1>4, Kinds DEF Unlike
  <2> QED BY <2>2, <2>3 DEF Writer!WriterNext
<1>5. ASSUME NEW i \in Id, c = Del(i) PROVE Goal
  <2>1. Shown(db') = Writer!DeleteEntity(Shown(db), i) /\ ~Exists(db', i)
    BY <1>0, <1>1, <1>5, DelShown
  <2>2. \A j \in Id : c \in {Del(j), SRemId(j)} => j = i
    BY <1>2, <1>5
  <2> QED BY <2>1, <2>2 DEF Writer!WriterNext
<1>6. ASSUME NEW i \in Id, c \in {SRemId(i), SRemKind(i)} PROVE Goal
  <2>1. Shown(db') = Shown(db) /\ ~Exists(db', i)
    BY <1>0, <1>1, <1>3, <1>6, SRemShown
  <2>2. \A j \in Id : c \in {Del(j), SRemId(j)} => j = i
    BY <1>6, Kinds
  <2> QED BY <2>1, <2>2
<1>7. ASSUME NEW e \in Edge, c \in {SAddEdge(e), SRemEdge(e)} PROVE Goal
  <2>1. Shown(db') \in {Writer!AddEdge(Shown(db), e), Writer!RemoveEdge(Shown(db), e)}
    BY <1>0, <1>1, <1>7, EdgesShown
  <2>2. \A j \in Id : c # Del(j) /\ c # SRemId(j)
    BY <1>7, Kinds DEF Unlike
  <2> QED BY <2>1, <2>2 DEF Writer!WriterNext
<1> HIDE DEF Goal
<1>8. Goal
  <2>1. ASSUME NEW i \in Id, c \in {HSet(i, 1), SAddKind(i), SAddId(i)} PROVE Goal
    <3>1. NoMeta \in Metadata
      BY DEF NoMeta, Metadata
    <3> QED BY <1>4, <2>1, <3>1
  <2> HIDE DEF c
  <2> QED BY <1>1, <1>4, <1>5, <1>6, <1>7, <2>1 DEF Queued
<1> QED BY <1>8 DEF Goal, c

LEMMA OrderNext == BufferInv /\ BufferInv' /\ LagInv /\ OrderInv /\ [Next]_vars => OrderInv'
<1> SUFFICES ASSUME BufferInv, BufferInv', LagInv, OrderInv, [Next]_vars PROVE OrderInv'
  OBVIOUS
<1>1. ASSUME NEW h \in Handler, NEW call \in Call, Add(h, call) PROVE OrderInv'
  <2>1. mu = Free /\ sent' = sent /\ pipe' = pipe \o call.cmds
    BY <1>1 DEF Add
  <2>2. sent' = 0 /\ pipe \in Seq(Queued) /\ call.cmds \in Seq(Queued)
    BY <2>1, CallsCount DEF BufferInv
  <2>3. KeysFirst(pipe')
    BY <2>1, <2>2, CallKeysFirst, BothKeysFirst DEF OrderInv
  <2> QED BY <2>2, <2>3 DEF OrderInv
<1>2. CASE ExecReturns \/ ExecFails
  <2>1. pipe' = <<>> /\ sent' = 0
    BY <1>2 DEF ExecReturns, ExecFails, Release
  <2>2. KeysFirst(<<>>)
    BY DEF KeysFirst
  <2> QED BY <2>1, <2>2 DEF OrderInv
<1>3. CASE ExecCommand
  <2>1. pipe' = pipe /\ sent' = sent + 1
    BY <1>3 DEF ExecCommand
  <2>2. \A i \in Id : pipe[sent + 1] \in {Del(i), SRemId(i)} => ~Exists(db', i)
    BY <1>3, CommandShown
  <2> QED BY <2>1, <2>2 DEF OrderInv
<1>4. CASE Replay
  <2>1. pipe' = pipe /\ sent' = 0
    BY <1>4 DEF Replay
  <2> QED BY <2>1 DEF OrderInv
<1>5. CASE TickFires \/ TickFlush \/ TickerStops \/ Close \/ CloseFlush \/ UNCHANGED vars
  <2>1. UNCHANGED <<db, pipe, sent>>
    BY <1>5 DEF TickFires, TickFlush, TickerStops, Close, CloseFlush, vars
  <2> QED BY <2>1 DEF OrderInv
<1> QED BY <1>1, <1>2, <1>3, <1>4, <1>5 DEF Next, Closing, Exec

LEMMA ShownStarts == Init => Shown(db) = Writer!EmptyGraph
<1>1. \A i \in Id : ~Listed(EmptyStore, i)
  BY DEF EmptyStore, Listed
<1>2. {i \in Id : Listed(EmptyStore, i)} = {} /\ EmptyStore.edges = {}
  BY <1>1 DEF EmptyStore
<1> QED BY <1>2 DEF Init, Shown, Writer!EmptyGraph

(* Seen through the keys that name an entity the writer is the one its     *)
(* interface describes: although a call is up to four commands that other  *)
(* commands may run between, that may stop half way and may be sent again, *)
(* each command changes what is shown by a whole call or not at all.  A    *)
(* call that deletes is seen when its first command is executed, and what  *)
(* a reader finds of the rest of it is not listed.                         *)
THEOREM WholeCallsCorrect == Spec => ShowsWholeCalls
<1>1. Init => Shown(db) = Writer!EmptyGraph /\ OrderInv
  <2>1. Init => OrderInv
    BY DEF Init, OrderInv, KeysFirst
  <2> QED BY <2>1, ShownStarts
<1>2. BufferInv /\ LagInv /\ OrderInv /\ [Next]_vars => [Writer!WriterNext]_(Shown(db))
  <2> SUFFICES ASSUME BufferInv, LagInv, OrderInv, [Next]_vars
               PROVE  Writer!WriterNext \/ UNCHANGED Shown(db)
    OBVIOUS
  <2>1. CASE ExecCommand
    BY <2>1, CommandShown DEF Shown
  <2>2. ASSUME db' = db PROVE UNCHANGED Shown(db)
    BY <2>2 DEF Shown
  <2>3. CASE ~ExecCommand
    <3>1. db' = db
      BY <2>3 DEF Next, Exec, Add, TickFires, TickFlush, TickerStops, Closing, Close, CloseFlush, ExecReturns,
                  ExecFails, Release, Replay, vars
    <3> QED BY <2>2, <3>1
  <2> QED BY <2>1, <2>3
<1> QED BY <1>1, <1>2, OrderNext, WriterInv, PTL DEF Spec, ShowsWholeCalls, Writer!WriterSpec
=============================================================================
