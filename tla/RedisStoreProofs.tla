-------------------------- MODULE RedisStoreProofs --------------------------
(***************************************************************************)
(* What Redis commands do to a store (RedisStore), one of them and a whole *)
(* pipeline, for any ids, fields, values and edges.                        *)
(***************************************************************************)
EXTENDS RedisStore, Induction, SequenceTheorems

(* What each command does to a store.                                      *)
LEMMA HSetEffect ==
  ASSUME NEW d, NEW i, NEW t
  PROVE  Apply(d, HSet(i, t)) = [d EXCEPT !.core = [@ EXCEPT ![i] = t]]
BY DEF Apply, HSet

Merged(d, i, md) == [f \in Field |-> IF md[f] # NoValue THEN md[f] ELSE d.meta[i][f]]

LEMMA HSetMetaEffect ==
  ASSUME NEW d, NEW i, NEW md
  PROVE  Apply(d, HSetMeta(i, md)) = [d EXCEPT !.meta = [@ EXCEPT ![i] = Merged(d, i, md)]]
BY DEF Apply, HSetMeta, Merged

LEMMA SAddKindEffect ==
  ASSUME NEW d, NEW i PROVE Apply(d, SAddKind(i)) = [d EXCEPT !.byKind = @ \cup {i}]
BY DEF Apply, SAddKind

LEMMA SAddIdEffect ==
  ASSUME NEW d, NEW i PROVE Apply(d, SAddId(i)) = [d EXCEPT !.ids = @ \cup {i}]
BY DEF Apply, SAddId

Outgoing(d, i) == {e \in d.edges : e.from = i}

LEMMA DelEffect ==
  ASSUME NEW d, NEW i
  PROVE  Apply(d, Del(i)) = [d EXCEPT !.core = [@ EXCEPT ![i] = Absent],
                                      !.meta = [@ EXCEPT ![i] = NoMeta],
                                      !.edges = d.edges \ Outgoing(d, i)]
<1>1. {e \in d.edges : e.from # i} = d.edges \ Outgoing(d, i)
  BY DEF Outgoing
<1>2. Apply(d, Del(i)) = [d EXCEPT !.core = [@ EXCEPT ![i] = Absent],
                                   !.meta = [@ EXCEPT ![i] = NoMeta],
                                   !.edges = {e \in d.edges : e.from # i}]
  BY ZenonT(30) DEF Apply, Del
<1> QED BY <1>1, <1>2

LEMMA SRemIdEffect ==
  ASSUME NEW d, NEW i PROVE Apply(d, SRemId(i)) = [d EXCEPT !.ids = @ \ {i}]
BY DEF Apply, SRemId

LEMMA SRemKindEffect ==
  ASSUME NEW d, NEW i PROVE Apply(d, SRemKind(i)) = [d EXCEPT !.byKind = @ \ {i}]
BY DEF Apply, SRemKind

LEMMA SAddEdgeEffect ==
  ASSUME NEW d, NEW e PROVE Apply(d, SAddEdge(e)) = [d EXCEPT !.edges = @ \cup {e}]
BY DEF Apply, SAddEdge

LEMMA SRemEdgeEffect ==
  ASSUME NEW d, NEW e PROVE Apply(d, SRemEdge(e)) = [d EXCEPT !.edges = @ \ {e}]
BY DEF Apply, SRemEdge

-----------------------------------------------------------------------------
(* What a pipeline does, for a set of stores that its commands do not lead *)
(* out of.                                                                 *)

Closed(S, C) == \A d \in S, c \in C : Apply(d, c) \in S

(* The recursion of Applied is sound: it is what its equation says.        *)
Leads(g, S, d, cmds) == /\ g \in [0..Len(cmds) -> S] /\ g[0] = d
                        /\ \A k \in 1..Len(cmds) : g[k] = Apply(g[k - 1], cmds[k])

LEMMA AppliedIs ==
  ASSUME NEW S, NEW C, Closed(S, C), NEW d \in S, NEW cmds \in Seq(C)
  PROVE  Leads(Applied(d, cmds), S, d, cmds)
<1> DEFINE n == Len(cmds)
           F == [p \in (1..n) \X S |-> Apply(p[2], cmds[p[1]])]
           Step(g) == [k \in 0..n |-> IF k = 0 THEN d ELSE Apply(g[k - 1], cmds[k])]
<1>1. n \in Nat /\ \A k \in 1..n : cmds[k] \in C
  OBVIOUS
<1>2. Steps(n, S, F)
  BY <1>1 DEF Closed, Steps
<1>3. \A k \in 1..n, s \in S : F[<<k, s>>] = Apply(s, cmds[k])
  OBVIOUS
<1> HIDE DEF n, F
<1>4. PICK f : Recurs(f, n, S, d, F)
  BY <1>1, <1>2, Recursion
<1>5. ASSUME NEW k \in 1..n PROVE f[k] = Apply(f[k - 1], cmds[k])
  <2>1. f[k - 1] \in S
    BY <1>1, <1>4 DEF Recurs
  <2> QED BY <1>3, <1>4, <2>1 DEF Recurs
<1>6. f = Step(f)
  BY <1>1, <1>4, <1>5 DEF Recurs
<1>7. \E g : g = Step(g)
  BY <1>6
<1>8. Applied(d, cmds) = CHOOSE g : g = Step(g)
  BY DEF Applied, n
<1>9. Applied(d, cmds) = Step(Applied(d, cmds))
  BY <1>7, <1>8
<1> DEFINE g == Applied(d, cmds)
<1>10. g[0] = d /\ DOMAIN g = 0..n /\ \A k \in 1..n : g[k] = Apply(g[k - 1], cmds[k])
  BY <1>1, <1>9
<1> DEFINE T == {k \in 0..n : g[k] \in S}
<1>11. 0..n \subseteq T
  <2>1. 0 \in T
    BY <1>1, <1>10
  <2>2. \A k \in 1..n : k - 1 \in T => k \in T
    BY <1>1, <1>10 DEF Closed
  <2> HIDE DEF T
  <2> QED BY <1>1, <2>1, <2>2, UpTo
<1>12. g = [k \in 0..n |-> g[k]]
  BY <1>9
<1> HIDE DEF g
<1>13. g \in [0..n -> S]
  BY <1>11, <1>12
<1> QED BY <1>10, <1>13 DEF g, n, Leads

LEMMA ApplyAllType ==
  ASSUME NEW S, NEW C, Closed(S, C), NEW d \in S, NEW cmds \in Seq(C)
  PROVE  ApplyAll(d, cmds) \in S
<1>1. Len(cmds) \in 0..Len(cmds)
  OBVIOUS
<1>2. Leads(Applied(d, cmds), S, d, cmds)
  BY AppliedIs
<1> QED BY <1>1, <1>2 DEF ApplyAll, Leads

LEMMA ApplyNone ==
  ASSUME NEW S, NEW C, Closed(S, C), NEW d \in S
  PROVE  ApplyAll(d, <<>>) = d
<1> DEFINE none == <<>>
<1>1. none \in Seq(C) /\ Len(none) = 0
  OBVIOUS
<1> HIDE DEF none
<1>2. Leads(Applied(d, none), S, d, none)
  BY <1>1, AppliedIs
<1>3. ApplyAll(d, none) = d
  BY <1>1, <1>2 DEF ApplyAll, Leads
<1> QED BY <1>3 DEF none

(* A pipeline may be taken apart anywhere.                                 *)
LEMMA ApplyConcat ==
  ASSUME NEW S, NEW C, Closed(S, C), NEW d \in S, NEW a \in Seq(C), NEW b \in Seq(C)
  PROVE  ApplyAll(d, a \o b) = ApplyAll(ApplyAll(d, a), b)
<1> DEFINE m == Len(a)
           n == Len(b)
           ab == a \o b
           all == Applied(d, ab)
           fst == Applied(d, a)
           snd == Applied(fst[m], b)
<1>1. /\ m \in Nat /\ n \in Nat /\ ab \in Seq(C) /\ Len(ab) = m + n
      /\ \A k \in 1..m : ab[k] = a[k]
      /\ \A k \in 1..n : ab[m + k] = b[k]
  BY ConcatProperties
<1> HIDE DEF ab
<1>2. /\ all[0] = d /\ fst[0] = d /\ fst[m] \in S
      /\ \A k \in 1..(m + n) : all[k] = Apply(all[k - 1], ab[k])
      /\ \A k \in 1..m : fst[k] = Apply(fst[k - 1], a[k])
  <2>1. Leads(all, S, d, ab) /\ Leads(fst, S, d, a)
    BY <1>1, AppliedIs
  <2> HIDE DEF all, fst
  <2> QED BY <1>1, <2>1 DEF Leads
<1>3. snd[0] = fst[m] /\ \A k \in 1..n : snd[k] = Apply(snd[k - 1], b[k])
  <2>1. Leads(snd, S, fst[m], b)
    BY <1>2, AppliedIs
  <2> HIDE DEF fst, snd
  <2> QED BY <2>1 DEF Leads
<1>4. ApplyAll(d, ab) = all[m + n] /\ ApplyAll(ApplyAll(d, a), b) = snd[n]
  BY <1>1 DEF ApplyAll
<1> HIDE DEF m, n, all, fst, snd
<1> DEFINE T == {k \in 0..m : all[k] = fst[k]}
           U == {k \in 0..n : all[m + k] = snd[k]}
<1>5. 0..m \subseteq T
  <2>1. 0 \in T
    BY <1>1, <1>2
  <2>2. ASSUME NEW k \in 1..m, k - 1 \in T PROVE k \in T
    <3>1. k \in 1..(m + n) /\ k \in 0..m
      BY <1>1
    <3>2. all[k] = Apply(all[k - 1], a[k]) /\ fst[k] = Apply(fst[k - 1], a[k])
      BY <1>1, <1>2, <3>1
    <3> QED BY <2>2, <3>1, <3>2
  <2> HIDE DEF T
  <2> QED BY <1>1, <2>1, <2>2, UpTo
<1>6. 0..n \subseteq U
  <2>1. 0 \in U
    <3>1. m \in T
      BY <1>1, <1>5
    <3> QED BY <1>1, <1>3, <3>1
  <2>2. ASSUME NEW k \in 1..n, k - 1 \in U PROVE k \in U
    <3>1. m + k \in 1..(m + n) /\ m + k - 1 = m + (k - 1) /\ k \in 0..n
      BY <1>1
    <3>2. all[m + k] = Apply(all[m + k - 1], ab[m + k]) /\ ab[m + k] = b[k]
      BY <1>1, <1>2, <3>1
    <3>3. snd[k] = Apply(snd[k - 1], b[k])
      BY <1>3
    <3> QED BY <2>2, <3>1, <3>2, <3>3
  <2> HIDE DEF U
  <2> QED BY <1>1, <2>1, <2>2, UpTo
<1>7. n \in U
  BY <1>1, <1>6
<1> QED BY <1>4, <1>7 DEF ab

LEMMA ApplyFirst ==
  ASSUME NEW S, NEW C, Closed(S, C), NEW d \in S, NEW c \in C, NEW cmds \in Seq(C)
  PROVE  ApplyAll(d, <<c>> \o cmds) = ApplyAll(Apply(d, c), cmds)
<1> DEFINE one == <<c>>
<1>1. one \in Seq(C) /\ Len(one) = 1 /\ one[1] = c
  OBVIOUS
<1> HIDE DEF one
<1>2. ApplyAll(d, one \o cmds) = ApplyAll(ApplyAll(d, one), cmds)
  BY <1>1, ApplyConcat
<1>3. Applied(d, one)[0] = d /\ Applied(d, one)[1] = Apply(Applied(d, one)[1 - 1], one[1])
  <2>1. Leads(Applied(d, one), S, d, one)
    BY <1>1, AppliedIs
  <2> QED BY <1>1, <2>1 DEF Leads
<1>4. ApplyAll(d, one) = Apply(d, c)
  BY <1>1, <1>3 DEF ApplyAll
<1> QED BY <1>2, <1>4 DEF one
=============================================================================
