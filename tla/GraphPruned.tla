---------------------------- MODULE GraphPruned -----------------------------
(***************************************************************************)
(* graph-otel and a prune request to graph-read over one Redis: the        *)
(* flusher of GraphOtel and the reader of GraphRead, command by command.   *)
(* graph-read has no part in the observations and knows of a relationship  *)
(* only what Redis says.                                                   *)
(***************************************************************************)
EXTENDS GraphOtel

CONSTANT Older  \* older_than, a positive number of ticks of the clock

VARIABLES call, seen  \* those of GraphRead

R == INSTANCE GraphRead
       WITH Id <- Emitter \cup Rel, Field <- {}, Value <- {}, NoValue <- Never,
            KindOf <- [i \in Emitter \cup Rel |-> i \in Rel], NoKind <- Never,
            Needle <- Never, Named <- {}, Cases <- {}, WrittenIds <- {}, WrittenEdges <- {},
            pipe <- <<>>, writes <- 0

PrunedInit == Init /\ call = R!Asked([op |-> "none"]) /\ seen = R!Seen(EmptyStore)

(* POST /prune: the cutoff counts from when the request came.              *)
Ask ==
  /\ call.req.op = "none"
  /\ call' = R!Asked([op |-> "prune", older |-> Older, at |-> now])
  /\ UNCHANGED <<vars, seen>>

Read ==
  /\ call.req.op = "prune" /\ R!Reader
  /\ UNCHANGED <<now, set, pc, flushNow, previous, snap, todo, pipe, sent, observed, adrift,
                 wiped, faults>>

PrunedNext == (Next /\ UNCHANGED <<call, seen>>) \/ Ask \/ Read

PrunedSpec == PrunedInit /\ [][PrunedNext]_<<vars, call, seen>>

-----------------------------------------------------------------------------
(* cmd/graph-read/README.md: POST /prune drops entities not seen for       *)
(* older_than.  So what a prune drops was not observed since then, at      *)
(* least if a good flush has come after the observation and before the     *)
(* request.                                                                *)
DroppedWasUnseen ==
  \A r \in call.dropped : \A l \in Link :
    l.rel = r /\ pc = "flushed" /\ observed[l] < flushNow /\ flushNow < call.req.at
      => observed[l] < call.req.at - call.req.older
=============================================================================
