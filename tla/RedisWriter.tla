---------------------------- MODULE RedisWriter ----------------------------
(***************************************************************************)
(* The buffered writer of graph-k8s (internal/graph/rediswriter.go).       *)
(* Handlers of several informers call it concurrently; each call appends   *)
(* its commands to one pipeline under a mutex, which is executed when it   *)
(* holds BatchSize commands, at every tick, and by Close.  Exec runs with  *)
(* the mutex held, so whoever wants to add waits for Redis.                *)
(*                                                                         *)
(* The variable want is the store as an unbuffered writer would have it:   *)
(* every accepted call applied at once.  What the writer promises is that  *)
(* Redis lags behind want by exactly the commands in the buffer.           *)
(***************************************************************************)
EXTENDS RedisStore

CONSTANTS Handler,     \* goroutines that call the writer, the tick loop apart
          Edge,        \* edges: records with a field from
          BatchSize,   \* WATCH_BATCH_SIZE
          MaxCalls,    \* bound: calls accepted
          MaxFaults,   \* bound: Exec calls that fail or are sent again
          FaultKinds   \* which: "fail", "replay"

ASSUME BatchAssumption == BatchSize \in Nat \ {0} /\ MaxCalls \in Nat /\ MaxFaults \in Nat
ASSUME NoValueAssumption == NoValue \notin Value

VARIABLES
  db,      \* Redis
  pipe,    \* the buffered commands
  n,       \* RedisWriter.n, their number as add counts it
  sent,    \* how many of them Redis has executed
  mu,      \* who holds the mutex, or Free
  ticker,  \* the goroutine of Run: at its select, at the mutex in Flush
           \*   ("locking"), "flushing" with the mutex, or "done"
  closer,  \* the caller of Close: "idle", "waiting", "flushing", "closed"
  want,    \* history: every accepted call applied at once
  calls,   \* how many calls were accepted
  lost,    \* history: a batch was dropped
  late,    \* history: a call was accepted after the flush of Close
  faults

vars == <<db, pipe, n, sent, mu, ticker, closer, want, calls, lost, late, faults>>

Free == "free"
Holder == Handler \cup {"ticker", "closer"}

ASSUME HandlerAssumption == Handler \cap {"free", "ticker", "closer"} = {}

Metadata == [Field -> Value \cup {NoValue}]
Stores == [core : [Id -> {Absent, 1}], meta : [Id -> Metadata],
           edges : SUBSET Edge, ids : SUBSET Id, byKind : SUBSET Id]

(* The four calls, as the commands they queue and the number they count.   *)
NonEmpty(md) == \E f \in Field : md[f] # NoValue

(* A planted error: the metadata command is not counted.                   *)
UpsertEntityCountsThree(i, md) ==
  [cmds  |-> <<HSet(i, 1), SAddKind(i), SAddId(i)>>
             \o (IF NonEmpty(md) THEN <<HSetMeta(i, md)>> ELSE <<>>),
   count |-> 3]

UpsertEntity(i, md) ==
  [cmds  |-> <<HSet(i, 1), SAddKind(i), SAddId(i)>>
             \o (IF NonEmpty(md) THEN <<HSetMeta(i, md)>> ELSE <<>>),
   count |-> IF NonEmpty(md) THEN 4 ELSE 3]

(* A planted error: the indexes first, then the keys.                      *)
DeleteEntityKeysLast(i) == [cmds |-> <<SRemId(i), SRemKind(i), Del(i)>>, count |-> 3]

DeleteEntity(i) == [cmds |-> <<Del(i), SRemId(i), SRemKind(i)>>, count |-> 3]

(* A planted error: edges are not counted.                                 *)
AddEdgeUncounted(e) == [cmds |-> <<SAddEdge(e)>>, count |-> 0]

AddEdge(e) == [cmds |-> <<SAddEdge(e)>>, count |-> 1]

RemoveEdge(e) == [cmds |-> <<SRemEdge(e)>>, count |-> 1]

Call == {UpsertEntity(i, md) : i \in Id, md \in Metadata} \cup {DeleteEntity(i) : i \in Id}
        \cup {AddEdge(e) : e \in Edge} \cup {RemoveEdge(e) : e \in Edge}

Init ==
  /\ db = EmptyStore /\ want = EmptyStore
  /\ pipe = <<>> /\ n = 0 /\ sent = 0
  /\ mu = Free
  /\ ticker = "select" /\ closer = "idle"
  /\ calls = 0 /\ lost = FALSE /\ late = FALSE /\ faults = 0

-----------------------------------------------------------------------------
(* A handler's call: append, and keep the mutex to execute a full batch.   *)
Add(h, call) ==
  /\ mu = Free
  /\ calls < MaxCalls
  /\ pipe' = pipe \o call.cmds
  /\ n' = n + call.count
  /\ mu' = IF n' >= BatchSize THEN h ELSE Free
  /\ want' = ApplyAll(want, call.cmds)
  /\ calls' = calls + 1
  /\ late' = (late \/ closer = "closed")
  /\ UNCHANGED <<db, sent, ticker, closer, lost, faults>>

(* The tick loop takes a tick and is in Flush, where it waits for the      *)
(* mutex.  It may take one although the stop channel is closed: a select   *)
(* that has both chooses.                                                  *)
TickFires ==
  /\ ticker = "select"
  /\ ticker' = "locking"
  /\ UNCHANGED <<db, pipe, n, sent, mu, closer, want, calls, lost, late, faults>>

(* With nothing counted, flushLocked returns at once.                      *)
TickFlush ==
  /\ ticker = "locking" /\ mu = Free
  /\ IF n = 0 THEN ticker' = "select" /\ mu' = Free
              ELSE ticker' = "flushing" /\ mu' = "ticker"
  /\ UNCHANGED <<db, pipe, n, sent, closer, want, calls, lost, late, faults>>

(* The tick loop sees the closed stop channel, at its select only.         *)
TickerStops ==
  /\ closer # "idle" /\ ticker = "select"
  /\ ticker' = "done"
  /\ UNCHANGED <<db, pipe, n, sent, mu, closer, want, calls, lost, late, faults>>

Close ==
  /\ closer = "idle"
  /\ closer' = "waiting"
  /\ UNCHANGED <<db, pipe, n, sent, mu, ticker, want, calls, lost, late, faults>>

(* A planted error: Close only stops the tick loop.                        *)
CloseFlushSkipped ==
  /\ closer = "waiting" /\ ticker = "done"
  /\ closer' = "closed"
  /\ UNCHANGED <<db, pipe, n, sent, mu, ticker, want, calls, lost, late, faults>>

(* Close waits for the loop, then flushes what the loop left.              *)
CloseFlush ==
  /\ closer = "waiting" /\ ticker = "done" /\ mu = Free
  /\ IF n = 0 THEN closer' = "closed" /\ mu' = Free
              ELSE closer' = "flushing" /\ mu' = "closer"
  /\ UNCHANGED <<db, pipe, n, sent, ticker, want, calls, lost, late, faults>>

(* A planted error: Close takes the mutex first, and waits with it.        *)
ClosingLocked ==
  \/ /\ closer = "idle" /\ mu = Free
     /\ closer' = "waiting" /\ mu' = "closer"
     /\ UNCHANGED <<db, pipe, n, sent, ticker, want, calls, lost, late, faults>>
  \/ /\ closer = "waiting" /\ ticker = "done" /\ mu = "closer"
     /\ IF n = 0 THEN closer' = "closed" /\ mu' = Free
                 ELSE closer' = "flushing" /\ UNCHANGED mu
     /\ UNCHANGED <<db, pipe, n, sent, ticker, want, calls, lost, late, faults>>

Closing == Close \/ CloseFlush

-----------------------------------------------------------------------------
(* Exec, with the mutex held: by a call that filled the batch, the tick    *)
(* loop or Close.                                                          *)
Executing == \/ mu \in Handler
             \/ mu = "ticker" /\ ticker = "flushing"
             \/ mu = "closer" /\ closer = "flushing"

ExecCommand ==
  /\ Executing /\ sent < Len(pipe)
  /\ db' = Apply(db, pipe[sent + 1])
  /\ sent' = sent + 1
  /\ UNCHANGED <<pipe, n, mu, ticker, closer, want, calls, lost, late, faults>>

(* A planted error: the new pipeline is read from where the old one ended. *)
ReleaseKeepsPosition ==
  /\ pipe' = <<>> /\ n' = 0 /\ sent' = sent
  /\ mu' = Free
  /\ ticker' = IF mu = "ticker" THEN "select" ELSE ticker
  /\ closer' = IF mu = "closer" THEN "closed" ELSE closer
  /\ UNCHANGED <<db, want, calls, late>>

(* The pipeline is replaced and the mutex released, error or not.          *)
Release ==
  /\ pipe' = <<>> /\ n' = 0 /\ sent' = 0
  /\ mu' = Free
  /\ ticker' = IF mu = "ticker" THEN "select" ELSE ticker
  /\ closer' = IF mu = "closer" THEN "closed" ELSE closer
  /\ UNCHANGED <<db, want, calls, late>>

(* A planted error: nobody waits for Exec before the pipeline is replaced. *)
ExecReturnsEarly ==
  /\ Executing
  /\ Release
  /\ UNCHANGED <<lost, faults>>

ExecReturns ==
  /\ Executing /\ sent = Len(pipe)
  /\ Release
  /\ UNCHANGED <<lost, faults>>

(* Exec fails after Redis executed some of the commands: the whole batch   *)
(* is dropped with a warning.                                              *)
ExecFails ==
  /\ "fail" \in FaultKinds /\ faults < MaxFaults
  /\ Executing
  /\ Release
  /\ lost' = TRUE
  /\ faults' = faults + 1

(* The client sends the pipeline again after a lost connection.            *)
Replay ==
  /\ "replay" \in FaultKinds /\ faults < MaxFaults
  /\ Executing /\ sent > 0
  /\ sent' = 0
  /\ faults' = faults + 1
  /\ UNCHANGED <<db, pipe, n, mu, ticker, closer, want, calls, lost, late>>

-----------------------------------------------------------------------------
Exec == ExecCommand \/ ExecReturns

Next == \/ \E h \in Handler, call \in Call : Add(h, call)
        \/ TickFires
        \/ TickFlush
        \/ TickerStops
        \/ Closing
        \/ Exec
        \/ ExecFails
        \/ Replay

Spec == Init /\ [][Next]_vars

(* The ticker ticks for as long as it runs.  The mutex is given to each    *)
(* who waits for it, although others take it again and again: Go's passes  *)
(* it on to who has waited for a millisecond.  A select that comes by      *)
(* again and again takes the closed stop channel once: it chooses at       *)
(* random, if there is a tick at all.  An Exec ends within its 30 s.       *)
(* Nobody has to call the writer or to close it.                           *)
FairSpec == /\ Spec
            /\ WF_vars(Exec) /\ WF_vars(TickFires)
            /\ SF_vars(TickFlush) /\ SF_vars(TickerStops)
            /\ SF_vars(closer # "idle" /\ Closing)

-----------------------------------------------------------------------------
TypeOK ==
  /\ n \in Nat /\ sent \in 0..Len(pipe)
  /\ mu \in Holder \cup {Free}
  /\ ticker \in {"select", "locking", "flushing", "done"}
  /\ closer \in {"idle", "waiting", "flushing", "closed"}
  /\ calls \in 0..MaxCalls /\ faults \in 0..MaxFaults
  /\ lost \in BOOLEAN /\ late \in BOOLEAN
  /\ db \in Stores /\ want \in Stores

(* Redis lags behind the calls by exactly the commands that are buffered   *)
(* and not yet executed, in the order of the calls, whichever goroutines   *)
(* made them and whoever flushes; a pipeline that is sent twice ends in    *)
(* the same store (rediswriter.go 88-111).  A failed Exec voids this.      *)
Outstanding == SubSeq(pipe, sent + 1, Len(pipe))

LagIsTheBuffer == ~lost => ApplyAll(db, Outstanding) = want

(* The buffer never outgrows a batch: when the mutex is free it is short   *)
(* of BatchSize, and the last call adds four commands at most.             *)
BufferBounded == Len(pipe) <= BatchSize + 3 /\ (mu = Free => Len(pipe) < BatchSize)

(* Seen from Redis the writer is a LateWriter: no interleaving of calls,   *)
(* flushes and failures reorders or splits commands, delivers one that     *)
(* was not accepted, or drops one unless the whole batch is.               *)
Late == INSTANCE LateWriter WITH log <- Outstanding, Request <- {call.cmds : call \in Call}
ImplementsLateWriter == Late!LateSpec

(* What the writer shows to whoever goes by entities that are there by     *)
(* every key that names them: Get finds them, Size counts them and         *)
(* ListByKind returns them.                                                *)
Shown(d) == [entities |-> {i \in Id : Listed(d, i)}, edges |-> d.edges]

(* Nobody sees half a call.  A call is up to four commands, and they are   *)
(* no transaction: but they are issued in an order (rediswriter.go         *)
(* 114-145) in which the graph changes with one of them, as the interface  *)
(* of the writer says the whole call changes it.  So it stays when Exec    *)
(* fails between two commands of a call, and when a pipeline is sent       *)
(* again.  Metadata, and keys of an entity that not all keys list, are not *)
(* part of what is shown.                                                  *)
Writer == INSTANCE EntityWriter WITH graph <- Shown(db)
ShowsWholeCalls == Writer!WriterSpec

(* When Close returns, every call accepted before its flush has reached    *)
(* Redis, batches dropped by a failed Exec apart (rediswriter.go 72-79).   *)
ClosedIsDrained == closer = "closed" /\ ~late /\ ~lost => pipe = <<>> /\ db = want

(* Every accepted call reaches Redis in the end, unless a batch was        *)
(* dropped or the call came after the flush of Close.                      *)
EventuallyWritten == <>[](db = want \/ lost \/ late)

(* Close always returns.  It waits for the tick loop, which may have taken *)
(* a last tick and be waiting for the mutex: so Close must not have it     *)
(* while it waits, and whoever has it must give it back (rediswriter.go    *)
(* 61-86).                                                                 *)
CloseReturns == closer = "waiting" ~> closer = "closed"
=============================================================================
