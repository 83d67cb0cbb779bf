----------------------------- MODULE LateWriter -----------------------------
(***************************************************************************)
(* What a buffered writer promises (internal/graph/rediswriter.go): Redis  *)
(* gets the commands of all accepted calls, one by one and in the order of *)
(* the calls, if late.  What is outstanding may be sent from an earlier    *)
(* command on again, which makes no difference in the end, or be given up  *)
(* as a whole.                                                             *)
(***************************************************************************)
EXTENDS RedisStore, SequencesExt

CONSTANT Request  \* the commands of one call

VARIABLES
  db,   \* Redis
  log,  \* the commands that are accepted and outstanding
  lost  \* some were given up

lateVars == <<db, log, lost>>

LateInit == db = EmptyStore /\ log = <<>> /\ lost = FALSE

Accept(cmds) == log' = log \o cmds /\ UNCHANGED <<db, lost>>

Deliver ==
  /\ log # <<>>
  /\ db' = Apply(db, Head(log))
  /\ log' = Tail(log)
  /\ UNCHANGED lost

Repeat ==
  /\ IsSuffix(log, log')
  /\ ApplyAll(db, log') = ApplyAll(db, log)
  /\ UNCHANGED <<db, lost>>

GiveUp == log' = <<>> /\ lost' = TRUE /\ UNCHANGED db

LateNext == (\E cmds \in Request : Accept(cmds)) \/ Deliver \/ Repeat \/ GiveUp

LateSpec == LateInit /\ [][LateNext]_lateVars
=============================================================================
