------------------------ MODULE GraphReadFindsProofs ------------------------
(***************************************************************************)
(* Theorems about GraphRead, for any ids, edges, stores, requests and      *)
(* writers: what the reader finds, and what Prune takes.                   *)
(***************************************************************************)
EXTENDS GraphReadProofs, FiniteSetTheorems

-----------------------------------------------------------------------------
(* The first so many of a set of numbers are so many.                      *)

Below(S, x) == {y \in S : y < x}
FirstOnes(S, n) == {x \in S : Cardinality(Below(S, x)) < n}

LEMMA BelowFinite ==
  ASSUME NEW S, IsFiniteSet(S), NEW x
  PROVE  IsFiniteSet(Below(S, x)) /\ Cardinality(Below(S, x)) \in Nat
<1>1. Below(S, x) \in SUBSET S
  BY DEF Below
<1>2. IsFiniteSet(Below(S, x))
  BY <1>1, FS_Subset
<1> QED BY <1>2, FS_CardinalityType

LEMMA FirstSoMany ==
  ASSUME NEW S \in SUBSET Nat, IsFiniteSet(S), NEW n \in Nat, n <= Cardinality(S)
  PROVE  Cardinality(FirstOnes(S, n)) = n
<1> DEFINE T == {k \in 0..n : Cardinality(FirstOnes(S, k)) = k}
<1>0. Cardinality(S) \in Nat
  BY FS_CardinalityType
<1>1. 0 \in T
  <2>1. FirstOnes(S, 0) = {}
    BY BelowFinite DEF FirstOnes
  <2> QED BY <2>1, FS_EmptySet
<1>2. ASSUME NEW k \in 1..n, k - 1 \in T PROVE k \in T
  <2> DEFINE F == FirstOnes(S, k - 1)
  <2>1. F \in SUBSET S /\ IsFiniteSet(F) /\ Cardinality(F) = k - 1
    <3>1. F \in SUBSET S
      BY DEF FirstOnes
    <3> QED BY <1>2, <3>1, FS_Subset
  <2>10. \A x : x \in F <=> x \in S /\ Cardinality(Below(S, x)) < k - 1
    BY DEF FirstOnes
  <2> HIDE DEF F
  <2>2. S \ F # {}
    <3>1. F # S
      BY <1>0, <2>1
    <3> QED BY <2>1, <3>1
  <2>3. S \ F \subseteq Nat
    OBVIOUS
  <2>4. PICK m \in S \ F : \A y \in S \ F : m <= y
    <3> DEFINE rest == S \ F
    <3> HIDE DEF rest
    <3>1. \E m \in rest : \A y \in rest : m <= y
      BY <2>2, <2>3, LeastNumber DEF rest
    <3> QED BY <3>1 DEF rest
  <2>5. m \in S /\ m \in Nat /\ ~(Cardinality(Below(S, m)) < k - 1)
    BY <2>4, <2>10
  <2>6. \A x, y \in S : x <= y => Cardinality(Below(S, x)) <= Cardinality(Below(S, y))
    <3> SUFFICES ASSUME NEW x \in S, NEW y \in S, x <= y
                 PROVE  Cardinality(Below(S, x)) <= Cardinality(Below(S, y))
      OBVIOUS
    <3>1. Below(S, x) \in SUBSET Below(S, y)
      <4>1. \A z \in S : z \in Nat
        OBVIOUS
      <4>2. \A z \in S : z < x => z < y
        BY <4>1
      <4> QED BY <4>2 DEF Below
    <3> QED BY <3>1, BelowFinite, FS_Subset
  <2>7. Below(S, m) = F
    <3>1. ASSUME NEW x \in Below(S, m) PROVE x \in F
      <4>1. x \in S /\ x < m /\ x \in Nat
        BY <3>1 DEF Below
      <4> QED BY <2>4, <2>5, <4>1
    <3>2. ASSUME NEW x \in F PROVE x \in Below(S, m)
      <4>1. x \in S /\ Cardinality(Below(S, x)) < k - 1 /\ x \in Nat
        BY <3>2, <2>10
      <4>2. ASSUME m <= x PROVE FALSE
        <5>1. Cardinality(Below(S, m)) <= Cardinality(Below(S, x))
          BY <2>5, <2>6, <4>1, <4>2
        <5> QED BY <2>5, <4>1, <5>1, BelowFinite
      <4> QED BY <2>5, <4>1, <4>2 DEF Below
    <3> QED BY <3>1, <3>2
  <2>9. Cardinality(F \cup {m}) = k
    <3>1. m \notin F /\ IsFiniteSet(F)
      BY <2>1, <2>4
    <3>2. Cardinality(F \cup {m}) = Cardinality(F) + 1
      BY <3>1, FS_AddElement
    <3> QED BY <2>1, <3>2
  <2>8. FirstOnes(S, k) = F \cup {m}
    <3>1. ASSUME NEW x \in FirstOnes(S, k) PROVE x \in F \cup {m}
      <4>1. x \in S /\ Cardinality(Below(S, x)) < k /\ x \in Nat
        BY <3>1 DEF FirstOnes
      <4>2. ASSUME x \notin F, x # m PROVE FALSE
        <5>1. m < x
          BY <2>4, <2>5, <4>1, <4>2
        <5>2. F \cup {m} \in SUBSET Below(S, x)
          <6>1. F \subseteq Below(S, x)
            <7>1. \A z \in S : z \in Nat
              OBVIOUS
            <7>2. \A z \in S : z < m => z < x
              BY <2>5, <4>1, <5>1, <7>1
            <7> QED BY <2>7, <7>2 DEF Below
          <6> QED BY <2>5, <5>1, <6>1 DEF Below
        <5>3. Cardinality(F \cup {m}) = k
          BY <2>9
        <5>4. k <= Cardinality(Below(S, x))
          BY <5>2, <5>3, BelowFinite, FS_Subset
        <5> QED BY <4>1, <5>4, BelowFinite
      <4> QED BY <4>2
    <3>2. F \subseteq FirstOnes(S, k)
      BY <2>10, BelowFinite DEF FirstOnes
    <3>3. m \in FirstOnes(S, k)
      BY <2>1, <2>5, <2>7 DEF FirstOnes
    <3> QED BY <3>1, <3>2, <3>3
  <2> QED BY <2>8, <2>9
<1> HIDE DEF T
<1>3. n \in T
  BY <1>1, <1>2, UpTo
<1> QED BY <1>3 DEF T

-----------------------------------------------------------------------------
(* What can be reached in so many hops.                                    *)

OneHop(c, L) == L \cup {e.to : e \in {x \in c.edges : x.from \in L /\ x.to \in c.ids}}

LevelsOf(g, c, root, n) ==
  /\ g[0] = c.ids \cap {root}
  /\ \A k \in 0..n : g[k] \subseteq c.ids
  /\ \A k \in 1..n : g[k] = OneHop(c, g[k - 1])

(* The recursion of Within is sound.                                       *)
LEMMA WithinLevel ==
  ASSUME NEW c, NEW root, NEW n \in Nat
  PROVE  \E g : LevelsOf(g, c, root, n) /\ Within(c, root, n) = g[n]
<1> DEFINE S == SUBSET c.ids
           b == c.ids \cap {root}
           F == [p \in (1..n) \X S |-> OneHop(c, p[2])]
           Level(g) == [k \in 0..n |-> IF k = 0 THEN c.ids \cap {root}
                         ELSE g[k - 1] \cup {e.to : e \in {x \in c.edges :
                                               x.from \in g[k - 1] /\ x.to \in c.ids}}]
<1>1. Steps(n, S, F) /\ b \in S
  BY DEF Steps, OneHop
<1>2. \A k \in 1..n, s \in S : F[<<k, s>>] = OneHop(c, s)
  OBVIOUS
<1> HIDE DEF F, S
<1>3. PICK f : Recurs(f, n, S, b, F)
  BY <1>1, Recursion
<1>4. ASSUME NEW k \in 1..n PROVE f[k] = OneHop(c, f[k - 1])
  <2>1. f[k - 1] \in S
    BY <1>3 DEF Recurs
  <2> QED BY <1>2, <1>3, <2>1 DEF Recurs
<1>5. f = Level(f)
  BY <1>3, <1>4 DEF Recurs, OneHop
<1>6. \E g : g = Level(g)
  BY <1>5
<1> DEFINE g == CHOOSE g : g = Level(g)
<1>7. Within(c, root, n) = g[n]
  BY DEF Within
<1>8. g = Level(g)
  BY <1>6
<1> HIDE DEF g
<1>9. g[0] = b /\ \A k \in 1..n : g[k] = OneHop(c, g[k - 1])
  <2>1. g[0] = b
    BY <1>8
  <2>2. ASSUME NEW k \in 1..n PROVE g[k] = OneHop(c, g[k - 1])
    <3>1. k \in 0..n /\ k # 0
      OBVIOUS
    <3>2. Level(g)[k] = OneHop(c, g[k - 1])
      BY <3>1 DEF OneHop
    <3> QED BY <1>8, <3>2
  <2> QED BY <2>1, <2>2
<1> DEFINE T == {k \in 0..n : g[k] \subseteq c.ids}
<1>10. 0..n \subseteq T
  <2>1. 0 \in T
    BY <1>9
  <2>2. \A k \in 1..n : k - 1 \in T => k \in T
    BY <1>9 DEF OneHop
  <2> HIDE DEF T
  <2> QED BY <2>1, <2>2, UpTo
<1>11. LevelsOf(g, c, root, n)
  BY <1>9, <1>10 DEF LevelsOf
<1> QED BY <1>7, <1>11

LEMMA SameLevels ==
  ASSUME NEW c, NEW root, NEW m \in Nat, NEW n \in Nat, m <= n,
         NEW f, LevelsOf(f, c, root, m), NEW g, LevelsOf(g, c, root, n)
  PROVE  f[m] = g[m]
<1> DEFINE T == {k \in 0..m : f[k] = g[k]}
<1>1. 0 \in T
  BY DEF LevelsOf
<1>2. \A k \in 1..m : k - 1 \in T => k \in T
  BY DEF LevelsOf
<1> HIDE DEF T
<1>3. m \in T
  BY <1>1, <1>2, UpTo
<1> QED BY <1>3 DEF T

LEMMA WithinZero ==
  ASSUME NEW c, NEW root
  PROVE  Within(c, root, 0) = c.ids \cap {root}
BY WithinLevel DEF LevelsOf

LEMMA WithinNext ==
  ASSUME NEW c, NEW root, NEW n \in Nat
  PROVE  Within(c, root, n + 1) = OneHop(c, Within(c, root, n))
<1>1. PICK f : LevelsOf(f, c, root, n) /\ Within(c, root, n) = f[n]
  BY WithinLevel
<1>2. PICK g : LevelsOf(g, c, root, n + 1) /\ Within(c, root, n + 1) = g[n + 1]
  BY WithinLevel
<1>3. f[n] = g[n]
  BY <1>1, <1>2, SameLevels
<1>4. g[n + 1] = OneHop(c, g[n + 1 - 1]) /\ n + 1 - 1 = n
  BY <1>2 DEF LevelsOf
<1> QED BY <1>1, <1>2, <1>3, <1>4

LEMMA WithinIds ==
  ASSUME NEW c, NEW root, NEW n \in Nat
  PROVE  Within(c, root, n) \subseteq c.ids
<1>1. PICK f : LevelsOf(f, c, root, n) /\ Within(c, root, n) = f[n]
  BY WithinLevel
<1> QED BY <1>1 DEF LevelsOf

(* More hops reach more.                                                   *)
LEMMA WithinMore ==
  ASSUME NEW c, NEW root, NEW m \in Nat, NEW n \in Nat, m <= n
  PROVE  Within(c, root, m) \subseteq Within(c, root, n)
<1> DEFINE T == {k \in 0..(n - m) : Within(c, root, m) \subseteq Within(c, root, m + k)}
<1>1. 0 \in T
  OBVIOUS
<1>2. ASSUME NEW k \in 1..(n - m), k - 1 \in T PROVE k \in T
  <2>1. m + (k - 1) \in Nat /\ m + k = m + (k - 1) + 1
    OBVIOUS
  <2>2. Within(c, root, m + k) = OneHop(c, Within(c, root, m + (k - 1)))
    BY <2>1, WithinNext
  <2> QED BY <1>2, <2>2 DEF OneHop
<1> HIDE DEF T
<1>3. n - m \in T
  <2>1. n - m \in Nat
    OBVIOUS
  <2> QED BY <1>1, <1>2, <2>1, UpTo
<1>4. m + (n - m) = n
  OBVIOUS
<1> QED BY <1>3, <1>4 DEF T

(* So do more entities and edges.                                          *)
LEMMA WithinGrows ==
  ASSUME NEW c, NEW d, c.ids \subseteq d.ids, c.edges \subseteq d.edges, NEW root, NEW n \in Nat
  PROVE  Within(c, root, n) \subseteq Within(d, root, n)
<1> DEFINE T == {k \in 0..n : Within(c, root, k) \subseteq Within(d, root, k)}
<1>1. 0 \in T
  BY WithinZero
<1>2. ASSUME NEW k \in 1..n, k - 1 \in T PROVE k \in T
  <2>1. k - 1 \in Nat /\ k = k - 1 + 1
    OBVIOUS
  <2>2. /\ Within(c, root, k) = OneHop(c, Within(c, root, k - 1))
        /\ Within(d, root, k) = OneHop(d, Within(d, root, k - 1))
    BY <2>1, WithinNext
  <2> QED BY <1>2, <2>2 DEF OneHop
<1> HIDE DEF T
<1>3. n \in T
  <2>1. 0..n \subseteq T
    BY ONLY n \in Nat, <1>1, <1>2, UpTo
  <2> QED BY <2>1
<1> QED BY <1>3 DEF T

(* There is nothing to be reached from a root that is not there.           *)
LEMMA WithinNothing ==
  ASSUME NEW c, NEW root, root \notin c.ids, NEW n \in Nat
  PROVE  Within(c, root, n) = {}
<1> DEFINE T == {k \in 0..n : Within(c, root, k) = {}}
<1>1. 0 \in T
  BY WithinZero
<1>2. ASSUME NEW k \in 1..n, k - 1 \in T PROVE k \in T
  <2>1. k - 1 \in Nat /\ k = k - 1 + 1
    OBVIOUS
  <2>2. Within(c, root, k) = OneHop(c, Within(c, root, k - 1))
    BY <2>1, WithinNext
  <2> QED BY <1>2, <2>2 DEF OneHop
<1> HIDE DEF T
<1>3. n \in T
  BY <1>1, <1>2, UpTo
<1> QED BY <1>3 DEF T

(* As many hops as there are entities reach whatever can be reached.       *)
LEMMA WithinSettles ==
  ASSUME NEW c, IsFiniteSet(c.ids), NEW root, NEW n \in Nat
  PROVE  Within(c, root, n) \subseteq Within(c, root, Cardinality(c.ids))
<1> DEFINE N == Cardinality(c.ids)
           W(k) == Within(c, root, k)
           Stable(k) == W(k + 1) = W(k)
           T == {k \in 0..N : k <= Cardinality(W(k)) \/ Stable(k)}
<1>1. N \in Nat
  BY FS_CardinalityType
<1>2. ASSUME NEW k \in Nat
      PROVE  IsFiniteSet(W(k)) /\ Cardinality(W(k)) \in Nat /\ Cardinality(W(k)) <= N
  BY WithinIds, FS_Subset, FS_CardinalityType
<1>3. 0 \in T
  BY <1>1, <1>2
<1>4. ASSUME NEW k \in 1..N, k - 1 \in T PROVE k \in T
  <2>1. k - 1 \in Nat /\ k \in Nat /\ k - 1 + 1 = k
    BY <1>1
  <2>2. W(k) = OneHop(c, W(k - 1)) /\ W(k + 1) = OneHop(c, W(k))
    BY <2>1, WithinNext
  <2>3. CASE W(k) = W(k - 1)
    BY <2>2, <2>3
  <2>4. CASE W(k) # W(k - 1)
    <3>1. k - 1 <= Cardinality(W(k - 1))
      BY <1>4, <2>1, <2>4
    <3>2. W(k - 1) \in SUBSET W(k)
      BY <2>2 DEF OneHop
    <3>3. Cardinality(W(k - 1)) <= Cardinality(W(k)) /\ Cardinality(W(k)) # Cardinality(W(k - 1))
      BY <1>2, <2>1, <2>4, <3>2, FS_Subset
    <3>4. k <= Cardinality(W(k))
      BY <1>2, <2>1, <3>1, <3>3
    <3> QED BY <3>4
  <2> QED BY <2>3, <2>4
<1>5. N \in T
  <2> HIDE DEF T, N
  <2> QED BY <1>1, <1>3, <1>4, UpTo
<1>6. CASE n <= N
  BY <1>1, <1>6, WithinMore
<1>7. CASE n > N /\ N <= Cardinality(W(N))
  <2>1. W(N) \in SUBSET c.ids
    BY <1>1, WithinIds
  <2>2. Cardinality(c.ids) = Cardinality(W(N))
    BY <1>1, <1>2, <1>7
  <2>3. W(N) = c.ids
    BY <2>1, <2>2, FS_Subset
  <2> QED BY <2>3, WithinIds
<1>8. CASE n > N /\ Stable(N)
  <2> DEFINE U == {k \in 0..(n - N) : W(N + k) = W(N)}
  <2>1. 0 \in U
    BY <1>1, <1>8
  <2>2. ASSUME NEW k \in 1..(n - N), k - 1 \in U PROVE k \in U
    <3>1. N + (k - 1) \in Nat /\ N + (k - 1) + 1 = N + k
      BY <1>1
    <3>2. W(N + k) = OneHop(c, W(N + (k - 1))) /\ W(N + 1) = OneHop(c, W(N))
      BY <1>1, <3>1, WithinNext
    <3> QED BY <1>8, <2>2, <3>2
  <2>3. n - N \in Nat /\ N + (n - N) = n
    BY <1>1, <1>8
  <2> HIDE DEF U
  <2>4. n - N \in U
    BY <2>1, <2>2, <2>3, UpTo
  <2> QED BY <2>3, <2>4 DEF U
<1> QED BY <1>1, <1>5, <1>6, <1>7, <1>8
-----------------------------------------------------------------------------
(* What was there all the time still is, and what is there was at some     *)
(* time; both are kept up by every command.                                *)

NeedlesIn(d) == {p \in Id \X Field : d.meta[p[1]][p[2]] = Needle}

Watched ==
  /\ seen.steady.ids \subseteq ListedIds(db) /\ seen.steady.edges \subseteq db.edges
  /\ seen.steady.meta \subseteq NeedlesIn(db)
  /\ ExistingIds(db) \subseteq seen.ever.ids /\ db.edges \subseteq seen.ever.edges

Onward ==
  /\ seen'.steady.ids \subseteq seen.steady.ids /\ seen'.steady.edges \subseteq seen.steady.edges
  /\ seen'.steady.meta \subseteq seen.steady.meta
  /\ seen.ever.ids \subseteq seen'.ever.ids /\ seen.ever.edges \subseteq seen'.ever.edges
  /\ seen'.ever.ids \subseteq seen.ever.ids \cup Id
  /\ seen.added.ids \subseteq seen'.added.ids /\ seen.added.edges \subseteq seen'.added.edges
  /\ ~seen'.failed => ~seen.failed
  /\ Watched'

AddedShape == seen.added \in [ids : {seen.added.ids}, edges : {seen.added.edges}]

LEMMA WatchFacts ==
  ASSUME SeenShape, NEW d
  PROVE  LET s == Watch(d)
         IN  /\ s \in [steady : {s.steady}, ever : {s.ever}, added : {seen.added},
                       alone : {seen.alone}, failed : {seen.failed}]
             /\ s.steady.ids = seen.steady.ids \cap ListedIds(d)
             /\ s.steady.edges = seen.steady.edges \cap d.edges
             /\ s.steady.meta = seen.steady.meta \cap NeedlesIn(d)
             /\ s.ever.ids = seen.ever.ids \cup ExistingIds(d)
             /\ s.ever.edges = seen.ever.edges \cup d.edges
<1> DEFINE a == Both(seen.steady, Contents(d, ListedIds(d)))
           b == Either(seen.ever, Contents(d, ExistingIds(d)))
<1>1. /\ a.ids = seen.steady.ids \cap ListedIds(d) /\ a.edges = seen.steady.edges \cap d.edges
      /\ a.meta = seen.steady.meta \cap NeedlesIn(d)
  BY DEF Both, Contents, NeedlesIn
<1>2. b.ids = seen.ever.ids \cup ExistingIds(d) /\ b.edges = seen.ever.edges \cup d.edges
  BY DEF Either, Contents
<1>3. Watch(d) = [seen EXCEPT !.steady = a, !.ever = b]
  BY DEF Watch
<1> HIDE DEF a, b
<1> QED BY <1>1, <1>2, <1>3 DEF SeenShape

LEMMA AddedFacts ==
  ASSUME NEW a, NEW c, a \in [ids : {a.ids}, edges : {a.edges}]
  PROVE  LET b == AddedTo(a, c)
         IN  /\ b \in [ids : {b.ids}, edges : {b.edges}]
             /\ b.ids = IF c.op \in {"HSET", "HSET metadata", "SADD by_kind", "SADD ids"}
                        THEN a.ids \cup {c.id} ELSE a.ids
             /\ b.edges = IF c.op = "SADD edges" THEN a.edges \cup {c.edge} ELSE a.edges
<1>1. CASE c.op \in {"HSET", "HSET metadata", "SADD by_kind", "SADD ids"}
  <2>1. AddedTo(a, c) = [a EXCEPT !.ids = @ \cup {c.id}]
    BY <1>1 DEF AddedTo
  <2> QED BY <1>1, <2>1
<1>2. CASE c.op = "SADD edges"
  <2>1. AddedTo(a, c) = [a EXCEPT !.edges = @ \cup {c.edge}]
    BY <1>2 DEF AddedTo
  <2> QED BY <1>2, <2>1
<1>3. CASE c.op \notin {"HSET", "HSET metadata", "SADD by_kind", "SADD ids", "SADD edges"}
  <2>1. AddedTo(a, c) = a
    BY <1>3 DEF AddedTo
  <2> QED BY <1>3, <2>1
<1> QED BY <1>1, <1>2, <1>3

LEMMA OnwardExecute ==
  ASSUME SeenShape, AddedShape, NEW c, Execute(c)
  PROVE  /\ Onward /\ AddedShape' /\ (seen'.failed <=> seen.failed)
         /\ seen'.added = AddedTo(seen.added, c)
<1> DEFINE s == Watch(db')
           a == AddedTo(seen.added, c)
<1>1. /\ s \in [steady : {s.steady}, ever : {s.ever}, added : {seen.added},
                alone : {seen.alone}, failed : {seen.failed}]
      /\ s.steady.ids = seen.steady.ids \cap ListedIds(db')
      /\ s.steady.edges = seen.steady.edges \cap db'.edges
      /\ s.steady.meta = seen.steady.meta \cap NeedlesIn(db')
      /\ s.ever.ids = seen.ever.ids \cup ExistingIds(db')
      /\ s.ever.edges = seen.ever.edges \cup db'.edges
  BY WatchFacts
<1>2. /\ a \in [ids : {a.ids}, edges : {a.edges}]
      /\ seen.added.ids \subseteq a.ids /\ seen.added.edges \subseteq a.edges
  <2> DEFINE old == seen.added
  <2>1. old \in [ids : {old.ids}, edges : {old.edges}]
    BY DEF AddedShape
  <2> HIDE DEF old
  <2>2. LET b == AddedTo(old, c)
        IN  /\ b \in [ids : {b.ids}, edges : {b.edges}]
            /\ b.ids = IF c.op \in {"HSET", "HSET metadata", "SADD by_kind", "SADD ids"}
                       THEN old.ids \cup {c.id} ELSE old.ids
            /\ b.edges = IF c.op = "SADD edges" THEN old.edges \cup {c.edge} ELSE old.edges
    BY <2>1, AddedFacts
  <2> QED BY <2>2 DEF old
<1>3. seen' = [s EXCEPT !.added = AddedTo(@, c), !.alone = Apply(@, c)]
  BY DEF Execute
<1> HIDE DEF s
<1>4. /\ seen'.steady = s.steady /\ seen'.ever = s.ever /\ seen'.added = a
      /\ seen'.failed = seen.failed
  BY <1>1, <1>3
<1> HIDE DEF a
<1>5. Watched'
  BY <1>1, <1>4 DEF Watched
<1>6. ExistingIds(db') \subseteq Id
  BY DEF ExistingIds
<1> QED BY <1>1, <1>2, <1>4, <1>5, <1>6 DEF Onward, AddedShape, a

LEMMA OnwardReply ==
  ASSUME SeenShape, Watched, AddedShape, NEW err, NEW locals, Reply(err, locals)
  PROVE  /\ Onward /\ AddedShape' /\ (~seen'.failed => ~err)
         /\ seen'.added = seen.added /\ db' = db /\ pipe' = pipe
         /\ seen'.steady = seen.steady /\ seen'.ever = seen.ever
<1>1. /\ db' = db /\ pipe' = pipe /\ seen' = [seen EXCEPT !.failed = @ \/ err]
  BY DEF Reply
<1>2. /\ seen'.steady = seen.steady /\ seen'.ever = seen.ever /\ seen'.added = seen.added
      /\ seen'.failed = (seen.failed \/ err)
  BY <1>1 DEF SeenShape
<1> QED BY <1>1, <1>2 DEF Onward, Watched, AddedShape

(* A command of Prune.                                                     *)
LEMMA OnwardPrune ==
  ASSUME SeenShape, AddedShape, NEW err, seen' = [Watch(db') EXCEPT !.failed = @ \/ err]
  PROVE  /\ Onward /\ AddedShape' /\ (~seen'.failed => ~err)
         /\ seen'.added = seen.added
<1> DEFINE s == Watch(db')
<1>1. /\ s \in [steady : {s.steady}, ever : {s.ever}, added : {seen.added},
                alone : {seen.alone}, failed : {seen.failed}]
      /\ s.steady.ids = seen.steady.ids \cap ListedIds(db')
      /\ s.steady.edges = seen.steady.edges \cap db'.edges
      /\ s.steady.meta = seen.steady.meta \cap NeedlesIn(db')
      /\ s.ever.ids = seen.ever.ids \cup ExistingIds(db')
      /\ s.ever.edges = seen.ever.edges \cup db'.edges
  BY WatchFacts
<1> HIDE DEF s
<1>2. /\ seen'.steady = s.steady /\ seen'.ever = s.ever /\ seen'.added = seen.added
      /\ seen'.failed = (seen.failed \/ err)
  BY <1>1 DEF s
<1>3. Watched'
  BY <1>1, <1>2 DEF Watched
<1>4. ExistingIds(db') \subseteq Id
  BY DEF ExistingIds
<1> QED BY <1>1, <1>2, <1>3, <1>4 DEF Onward, AddedShape

LEMMA WatchedAnew ==
  ASSUME seen' = Seen(db), db' = db
  PROVE  /\ Watched' /\ AddedShape' /\ ~seen'.failed /\ seen'.added = [ids |-> {}, edges |-> {}]
BY DEF Seen, Watched, AddedShape, Contents, NeedlesIn
-----------------------------------------------------------------------------
(* The types of the locals, and what keeps the answer free of duplicates.  *)

Known(c) == {x.id : x \in c.found}

SetsType(c) == /\ c.ids \subseteq Id /\ c.edges \subseteq Edge /\ c.links \subseteq Edge
               /\ c.dropped \subseteq Id
               /\ c.status \in {0, 200, 400, 404} /\ (c.status # 0 <=> c.pc = "done")

(* The entity in hand is new to the answer and to what is left to read.    *)
CurType(c) ==
  /\ IF c.pc \in {"size", "edges", "meta"} THEN \E i \in Id : c.cur = {i} ELSE c.cur = {}
  /\ c.cur \cap Known(c) = {}
  /\ c.req.op \in {"list", "search"} => c.ids \cap (c.cur \cup Known(c)) = {}
  /\ c.pc \in {"root", "size"} => c.req.op \in {"get", "subgraph"}

FoundType(c) ==
  /\ c.found \subseteq Entity
  /\ \A x, y \in c.found : x.id = y.id => x = y
  /\ c.pc \in {"request", "root", "size", "ids"} => c.found = {}

QueueType(c) ==
  /\ DOMAIN c.visited = IF c.req.op = "subgraph" THEN Known(c) ELSE {}
  /\ c.queue \in Seq(DOMAIN c.visited)

CallType(c) == /\ Locals(c) /\ WellFormed(c.req)
               /\ SetsType(c) /\ CurType(c) /\ FoundType(c) /\ QueueType(c)

TypeInv == /\ writes \in Nat /\ CallType(call)

(* A step that leaves the answer alone.                                    *)
SameAnswer(c, d) == /\ Locals(d) /\ d.req = c.req /\ d.found = c.found /\ d.visited = c.visited

LEMMA AnswerKept ==
  ASSUME NEW c, NEW d, CallType(c), SameAnswer(c, d), SetsType(d), CurType(d),
         d.queue \in Seq(DOMAIN c.visited),
         d.pc \in {"request", "root", "size", "ids"} =>
           c.pc \in {"request", "root", "size", "ids"}
  PROVE  CallType(d)
<1>1. FoundType(d)
  BY DEF CallType, FoundType, SameAnswer
<1>2. QueueType(d)
  BY DEF CallType, QueueType, SameAnswer, Known
<1> QED BY <1>1, <1>2 DEF CallType, SameAnswer

LEMMA QueueSteps ==
  ASSUME NEW S, NEW q \in Seq(S)
  PROVE  /\ q # <<>> => Head(q) \in S /\ Tail(q) \in Seq(S)
         /\ \A x \in S : Append(q, x) \in Seq(S)
OBVIOUS

(* What Keep does.                                                         *)
LEMMA KeepFacts ==
  ASSUME Locals(call), NEW x, NEW d, d = Keep(x)
  PROVE  /\ Locals(d) /\ d.req = call.req /\ d.pc = "each" /\ d.cur = {} /\ d.edges = {}
         /\ d.status = call.status /\ d.ids = call.ids /\ d.links = call.links
         /\ d.depth = call.depth /\ d.max = call.max /\ d.dropped = call.dropped
         /\ d.cmds = call.cmds
         /\ op = "subgraph" =>
              /\ d.found = call.found \cup {x}
              /\ d.visited = Mark(call.visited, x.id, call.depth + 1)
              /\ d.queue = Append(call.queue, x.id)
         /\ op # "subgraph" =>
              /\ d.found \in {call.found, call.found \cup {x}}
              /\ op # "search" \/ Matched(x) # {} => d.found = call.found \cup {x}
              /\ d.visited = call.visited /\ d.queue = call.queue
<1>1. CASE op = "subgraph"
  <2>1. d = [call EXCEPT !.pc = "each", !.cur = {}, !.edges = {}, !.found = @ \cup {x},
               !.visited = Mark(@, x.id, call.depth + 1), !.queue = Append(@, x.id)]
    BY <1>1 DEF Keep
  <2> QED BY <1>1, <2>1 DEF Locals
<1>2. CASE op # "subgraph"
  <2> DEFINE found == IF op = "search" /\ Matched(x) = {} THEN call.found ELSE call.found \cup {x}
  <2>1. d = [call EXCEPT !.pc = "each", !.cur = {}, !.edges = {}, !.found = found]
    BY <1>2 DEF Keep
  <2> HIDE DEF found
  <2>2. /\ Locals(d) /\ d.req = call.req /\ d.pc = "each" /\ d.cur = {} /\ d.edges = {}
        /\ d.status = call.status /\ d.ids = call.ids /\ d.links = call.links
        /\ d.depth = call.depth /\ d.max = call.max /\ d.dropped = call.dropped
        /\ d.cmds = call.cmds /\ d.found = found /\ d.visited = call.visited
        /\ d.queue = call.queue
    BY <2>1 DEF Locals
  <2> QED BY <1>2, <2>2 DEF found
<1> QED BY <1>1, <1>2

LEMMA MarkFacts ==
  ASSUME NEW f, NEW i, NEW n
  PROVE  /\ DOMAIN Mark(f, i, n) = DOMAIN f \cup {i} /\ Mark(f, i, n)[i] = n
         /\ \A j \in DOMAIN f : j # i => Mark(f, i, n)[j] = f[j]
BY DEF Mark

LEMMA KeepType ==
  ASSUME CallType(call), call.pc \in {"edges", "meta"}, NEW x \in Entity, x.id \in call.cur
  PROVE  CallType(Keep(x))
<1> DEFINE d == Keep(x)
<1>1. Locals(call)
  BY DEF CallType
<1>2. /\ Locals(d) /\ d.req = call.req /\ d.pc = "each" /\ d.cur = {} /\ d.edges = {}
      /\ d.status = call.status /\ d.ids = call.ids /\ d.links = call.links
      /\ d.dropped = call.dropped
      /\ op = "subgraph" => /\ d.found = call.found \cup {x}
                            /\ d.visited = Mark(call.visited, x.id, call.depth + 1)
                            /\ d.queue = Append(call.queue, x.id)
      /\ op # "subgraph" => /\ d.found \in {call.found, call.found \cup {x}}
                            /\ d.visited = call.visited /\ d.queue = call.queue
  BY <1>1, KeepFacts
<1> HIDE DEF d
<1>3. d.found \in {call.found, call.found \cup {x}}
  BY <1>2
<1>4. x.id \in Id /\ call.cur = {x.id} /\ x.id \notin Known(call)
  <2>1. PICK i \in Id : call.cur = {i}
    BY DEF CallType, CurType
  <2>2. call.cur \cap Known(call) = {}
    BY DEF CallType, CurType
  <2> QED BY <2>1, <2>2
<1>5. SetsType(d)
  BY <1>2 DEF CallType, SetsType
<1>6. Known(d) \subseteq Known(call) \cup {x.id}
  BY <1>3 DEF Known
<1>7. CurType(d)
  <2>1. op \in {"list", "search"} => call.ids \cap (call.cur \cup Known(call)) = {}
    BY DEF CallType, CurType, op
  <2> QED BY <1>2, <1>4, <1>6, <2>1 DEF CurType, op
<1>8. FoundType(d)
  <2>1. call.found \subseteq Entity /\ \A y, z \in call.found : y.id = z.id => y = z
    BY DEF CallType, FoundType
  <2>2. \A y \in call.found : y.id # x.id
    BY <1>4 DEF Known
  <2> QED BY <1>2, <1>3, <2>1, <2>2 DEF FoundType
<1>9. QueueType(d)
  <2>1. /\ DOMAIN call.visited = IF op = "subgraph" THEN Known(call) ELSE {}
        /\ call.queue \in Seq(DOMAIN call.visited)
    BY DEF CallType, QueueType, op
  <2>2. CASE op = "subgraph"
    <3>0. d.visited = Mark(call.visited, x.id, call.depth + 1)
      BY <1>2, <2>2
    <3>1. DOMAIN d.visited = DOMAIN call.visited \cup {x.id}
      BY <3>0 DEF Mark
    <3>2. Known(d) = Known(call) \cup {x.id}
      BY <1>2, <2>2 DEF Known
    <3>3. call.queue \in Seq(DOMAIN d.visited)
      BY <2>1, <3>1
    <3>4. d.queue \in Seq(DOMAIN d.visited)
      BY <1>2, <2>2, <3>1, <3>3, QueueSteps
    <3> QED BY <1>2, <2>1, <2>2, <3>1, <3>2, <3>4 DEF QueueType, op
  <2>3. CASE op # "subgraph"
    BY <1>2, <2>1, <2>3 DEF QueueType, op
  <2> QED BY <2>2, <2>3
<1>10. WellFormed(d.req)
  BY <1>2 DEF CallType
<1> QED BY <1>2, <1>5, <1>7, <1>8, <1>9, <1>10 DEF CallType, d
LEMMA TypeInit == Init => TypeInv
<1> SUFFICES ASSUME Init PROVE TypeInv
  OBVIOUS
<1>1. PICK c \in Cases : writes = c.writes /\ call = Asked(c.req)
  BY DEF Init
<1>2. /\ Locals(call) /\ call.req = c.req /\ call.pc = "request" /\ call.status = 0
      /\ call.ids = {} /\ call.cur = {} /\ call.edges = {} /\ call.links = {}
      /\ call.queue = <<>> /\ call.visited = <<>> /\ call.found = {} /\ call.dropped = {}
  BY <1>1 DEF Asked, Locals
<1>3. DOMAIN call.visited = {}
  BY <1>2
<1>4. WellFormed(call.req) /\ writes \in Nat
  BY <1>1, <1>2, CaseAssumption
<1>5. SetsType(call) /\ CurType(call) /\ FoundType(call)
  BY <1>2 DEF SetsType, CurType, FoundType, Known
<1>6. QueueType(call)
  BY <1>2, <1>3 DEF QueueType, Known
<1> QED BY <1>2, <1>4, <1>5, <1>6 DEF TypeInv, CallType

LEMMA StoreFacts ==
  ASSUME NEW d \in Stores
  PROVE  d.ids \subseteq Id /\ d.byKind \subseteq Id /\ d.edges \subseteq Edge
         /\ \A i \in Id : d.meta[i] \in Metadata
BY DEF Stores

LEMMA TypeNext == PruneInv /\ TypeInv /\ [Next]_vars => TypeInv'
<1> SUFFICES ASSUME PruneInv, TypeInv, [Next]_vars PROVE TypeInv'
  OBVIOUS
<1>0. /\ CallType(call) /\ Locals(call) /\ writes \in Nat /\ db \in Stores
      /\ SetsType(call) /\ CurType(call) /\ FoundType(call) /\ QueueType(call)
  BY DEF TypeInv, CallType, PruneInv, StoreInv
<1> DEFINE Early == {"request", "root", "size", "ids"}
<1>a. ASSUME NEW d, SameAnswer(call, d), call' = d, writes' = writes, SetsType(d), CurType(d),
             d.queue = call.queue, d.pc \in Early => call.pc \in Early
      PROVE  TypeInv'
  <2>1. d.queue \in Seq(DOMAIN call.visited)
    BY <1>0, <1>a DEF QueueType
  <2>2. CallType(d)
    BY <1>0, <1>a, <2>1, AnswerKept
  <2> QED BY <1>0, <1>a, <2>2 DEF TypeInv
<1>1. CASE Request
  <2>1. /\ \/ call' = [call EXCEPT !.pc = "done", !.status = 400]
           \/ call' = [call EXCEPT !.pc = IF op \in {"get", "subgraph"} THEN "root" ELSE "ids"]
        /\ writes' = writes /\ call.pc = "request"
    BY <1>1 DEF Request
  <2>2. /\ SameAnswer(call, call') /\ call'.queue = call.queue /\ call'.ids = call.ids
        /\ call'.cur = call.cur /\ call'.edges = call.edges /\ call'.links = call.links
        /\ call'.dropped = call.dropped
        /\ \/ call'.pc = "done" /\ call'.status = 400
           \/ /\ call'.pc = IF op \in {"get", "subgraph"} THEN "root" ELSE "ids"
              /\ call'.status = call.status
    <3>1. CASE call' = [call EXCEPT !.pc = "done", !.status = 400]
      BY <1>0, <3>1, ZenonT(60) DEF Locals, SameAnswer
    <3>2. CASE call' = [call EXCEPT !.pc = IF op \in {"get", "subgraph"} THEN "root" ELSE "ids"]
      <4> DEFINE pc == IF op \in {"get", "subgraph"} THEN "root" ELSE "ids"
      <4>1. call' = [call EXCEPT !.pc = pc]
        BY <3>2
      <4> HIDE DEF pc
      <4>2. /\ SameAnswer(call, call') /\ call'.queue = call.queue /\ call'.ids = call.ids
            /\ call'.cur = call.cur /\ call'.edges = call.edges /\ call'.links = call.links
            /\ call'.dropped = call.dropped /\ call'.pc = pc /\ call'.status = call.status
        BY <1>0, <4>1 DEF Locals, SameAnswer
      <4> QED BY <4>2 DEF pc
    <3> QED BY <2>1, <3>1, <3>2
  <2>3. SetsType(call')
    BY <1>0, <2>1, <2>2 DEF SetsType
  <2>4. CurType(call')
    BY <1>0, <2>1, <2>2 DEF CurType, SameAnswer, Known, op
  <2> QED BY <1>a, <2>1, <2>2, <2>3, <2>4
<1>2. ASSUME NEW err \in BOOLEAN, ReadRoot(err) PROVE TypeInv'
  <2>1. PICK max, pc :
          /\ \/ call' = [call EXCEPT !.pc = "done", !.status = 404]
             \/ call' = [call EXCEPT !.cur = {call.req.id}, !.pc = pc, !.max = max]
          /\ pc \in {"size", "edges"} /\ call.pc = "root" /\ writes' = writes
    BY <1>2, ZenonT(60) DEF ReadRoot, Reply
  <2>2. /\ SameAnswer(call, call') /\ call'.queue = call.queue /\ call'.ids = call.ids
        /\ call'.edges = call.edges /\ call'.links = call.links
        /\ call'.dropped = call.dropped
        /\ \/ call'.pc = "done" /\ call'.status = 404 /\ call'.cur = call.cur
           \/ /\ call'.pc \in {"size", "edges"} /\ call'.status = call.status
              /\ call'.cur = {call.req.id}
    <3>1. CASE call' = [call EXCEPT !.pc = "done", !.status = 404]
      BY <1>0, <3>1, ZenonT(60) DEF Locals, SameAnswer
    <3>2. CASE call' = [call EXCEPT !.cur = {call.req.id}, !.pc = pc, !.max = max]
      BY <1>0, <2>1, <3>2 DEF Locals, SameAnswer
    <3> QED BY <2>1, <3>1, <3>2
  <2>3. SetsType(call')
    BY <1>0, <2>1, <2>2 DEF SetsType
  <2>4. call.found = {} /\ Known(call) = {} /\ call.cur = {}
    BY <1>0, <2>1 DEF FoundType, Known, CurType
  <2>5. op \in {"get", "subgraph"} /\ call.req.id \in Id
    <3>1. op \in {"get", "subgraph"}
      BY <1>0, <2>1 DEF CurType, op
    <3> QED BY <1>0, <3>1 DEF CallType, WellFormed, op
  <2>6. CurType(call')
    BY <2>2, <2>4, <2>5 DEF CurType, SameAnswer, Known, op
  <2> QED BY <1>a, <2>1, <2>2, <2>3, <2>6
<1>3. ASSUME NEW err \in BOOLEAN, ReadSize(err) PROVE TypeInv'
  <2>1. PICK max : call' = [call EXCEPT !.pc = "edges", !.max = max] /\ call.pc = "size"
                   /\ writes' = writes
    BY <1>3 DEF ReadSize, Reply
  <2>2. /\ SameAnswer(call, call') /\ call'.queue = call.queue /\ call'.ids = call.ids
        /\ call'.edges = call.edges /\ call'.links = call.links /\ call'.cur = call.cur
        /\ call'.dropped = call.dropped /\ call'.pc = "edges" /\ call'.status = call.status
    BY <1>0, <2>1 DEF Locals, SameAnswer
  <2>3. SetsType(call') /\ CurType(call')
    BY <1>0, <2>1, <2>2 DEF SetsType, CurType, SameAnswer, Known
  <2> QED BY <1>a, <2>1, <2>2, <2>3
<1>4. ASSUME NEW err \in BOOLEAN, ReadEdges(err) PROVE TypeInv'
  <2>1. PICK i \in call.cur :
          /\ call' = IF err THEN Keep([id |-> i, edges |-> {}, meta |-> NoMeta])
                     ELSE [call EXCEPT !.pc = "meta", !.edges = EdgesOf(db, i)]
          /\ call.pc = "edges" /\ writes' = writes
    BY <1>4 DEF ReadEdges, Reply
  <2>2. CASE err
    <3> DEFINE x == [id |-> i, edges |-> {}, meta |-> NoMeta]
    <3>1. i \in Id
      BY <1>0, <2>1 DEF CurType
    <3>2. x \in Entity /\ x.id \in call.cur
      BY <2>1, <3>1, NoMetaType DEF Entity
    <3>3. call' = Keep(x)
      BY <2>1, <2>2
    <3> HIDE DEF x
    <3> QED BY <1>0, <2>1, <3>2, <3>3, KeepType DEF TypeInv
  <2>3. CASE ~err
    <3> DEFINE edges == EdgesOf(db, i)
    <3>1. edges \subseteq Edge
      BY <1>0, StoreFacts DEF EdgesOf
    <3>2. call' = [call EXCEPT !.pc = "meta", !.edges = edges]
      BY <2>1, <2>3
    <3> HIDE DEF edges
    <3>3. /\ SameAnswer(call, call') /\ call'.queue = call.queue /\ call'.ids = call.ids
          /\ call'.edges = edges /\ call'.links = call.links /\ call'.cur = call.cur
          /\ call'.dropped = call.dropped /\ call'.pc = "meta" /\ call'.status = call.status
      BY <1>0, <3>2 DEF Locals, SameAnswer
    <3>4. SetsType(call')
      BY <1>0, <2>1, <3>1, <3>3 DEF SetsType
    <3>5. CurType(call')
      BY <1>0, <2>1, <3>3 DEF CurType, SameAnswer, Known
    <3> QED BY <1>a, <2>1, <3>3, <3>4, <3>5
  <2> QED BY <2>2, <2>3
<1>5. ASSUME NEW err \in BOOLEAN, ReadMeta(err) PROVE TypeInv'
  <2>1. PICK i \in call.cur :
          /\ \E x \in {[id |-> i, edges |-> {}, meta |-> NoMeta],
                       [id |-> i, edges |-> call.edges, meta |-> db.meta[i]]} : call' = Keep(x)
          /\ call.pc = "meta" /\ writes' = writes
    BY <1>5 DEF ReadMeta, Reply
  <2>2. i \in Id
    BY <1>0, <2>1 DEF CurType
  <2>3. /\ [id |-> i, edges |-> {}, meta |-> NoMeta] \in Entity
        /\ [id |-> i, edges |-> call.edges, meta |-> db.meta[i]] \in Entity
    <3>1. call.edges \subseteq Edge /\ db.meta[i] \in Metadata
      BY <1>0, <2>2, StoreFacts DEF SetsType
    <3> QED BY <2>2, <3>1, NoMetaType DEF Entity
  <2>4. PICK x : x \in Entity /\ x.id = i /\ call' = Keep(x)
    BY <2>1, <2>3
  <2> QED BY <1>0, <2>1, <2>4, KeepType DEF TypeInv
<1>6. CASE Visit
  <2> DEFINE id == Head(call.queue)
             entity == CHOOSE x \in call.found : x.id = id
             queue == Tail(call.queue)
             links == IF call.visited[id] >= call.max THEN {} ELSE entity.edges
             depth == call.visited[id]
  <2>1. /\ call' = [call EXCEPT !.queue = queue, !.depth = depth, !.links = links]
        /\ call.pc = "each" /\ op = "subgraph" /\ call.queue # <<>> /\ writes' = writes
    BY <1>6 DEF Visit, Reply
  <2>2. id \in DOMAIN call.visited /\ queue \in Seq(DOMAIN call.visited)
    BY <1>0, <2>1, QueueSteps DEF QueueType
  <2>3. links \subseteq Edge
    <3>1. \E x \in call.found : x.id = id
      BY <1>0, <2>1, <2>2 DEF QueueType, Known, op
    <3>2. entity \in call.found
      BY <3>1
    <3>3. entity.edges \subseteq Edge
      BY <1>0, <3>2 DEF FoundType, Entity
    <3> QED BY <3>3
  <2> HIDE DEF links, queue, depth
  <2>4. /\ SameAnswer(call, call') /\ call'.queue = queue /\ call'.ids = call.ids
        /\ call'.edges = call.edges /\ call'.links = links /\ call'.cur = call.cur
        /\ call'.dropped = call.dropped /\ call'.pc = "each" /\ call'.status = call.status
    BY <1>0, <2>1 DEF Locals, SameAnswer
  <2>5. SetsType(call') /\ CurType(call')
    BY <1>0, <2>1, <2>3, <2>4 DEF SetsType, CurType, SameAnswer, Known
  <2>6. CallType(call')
    BY <1>0, <2>2, <2>4, <2>5, AnswerKept
  <2> QED BY <1>0, <2>1, <2>6 DEF TypeInv
<1>7. ASSUME NEW err \in BOOLEAN, Follow(err) PROVE TypeInv'
  <2> DEFINE rest(e) == [call EXCEPT !.links = @ \ {e}]
  <2>1. PICK e \in call.links :
          /\ \/ call' = rest(e)
             \/ e.to \notin DOMAIN call.visited
                /\ call' = [rest(e) EXCEPT !.cur = {e.to}, !.pc = "edges"]
          /\ call.pc = "each" /\ op = "subgraph" /\ writes' = writes
    BY <1>7 DEF Follow, Reply
  <2>2. e.to \in Id
    BY <1>0, <2>1, EdgeAssumption DEF SetsType
  <2>3. /\ SameAnswer(call, call') /\ call'.queue = call.queue /\ call'.ids = call.ids
        /\ call'.edges = call.edges /\ call'.links = call.links \ {e}
        /\ call'.dropped = call.dropped /\ call'.status = call.status
        /\ \/ call'.pc = "each" /\ call'.cur = call.cur
           \/ call'.pc = "edges" /\ call'.cur = {e.to} /\ e.to \notin DOMAIN call.visited
    BY <1>0, <2>1 DEF Locals, SameAnswer
  <2>4. SetsType(call')
    BY <1>0, <2>1, <2>3 DEF SetsType
  <2>5. CurType(call')
    <3>1. Known(call') = Known(call) /\ call'.req.op = "subgraph"
      BY <2>1, <2>3 DEF SameAnswer, Known, op
    <3>2. call'.cur = {e.to} => e.to \notin Known(call) \/ call'.cur = call.cur
      BY <1>0, <2>1, <2>3 DEF QueueType, op
    <3>3. call.cur \cap Known(call) = {} /\ call.cur = {}
      BY <1>0, <2>1 DEF CurType
    <3> QED BY <2>2, <2>3, <3>1, <3>2, <3>3 DEF CurType
  <2> QED BY <1>a, <2>1, <2>3, <2>4, <2>5
<1>8. ASSUME NEW err \in BOOLEAN, ReadIds(err) PROVE TypeInv'
  <2>1. /\ \/ call' = [call EXCEPT !.pc = "each", !.ids = Index]
           \/ call' = [call EXCEPT !.pc = "count"]
           \/ call' = [call EXCEPT !.pc = "done", !.status = 200]
        /\ call.pc = "ids" /\ writes' = writes
    BY <1>8 DEF ReadIds, Reply
  <2>2. Index \subseteq Id
    BY <1>0, StoreFacts DEF Index, OfKind
  <2>3. /\ SameAnswer(call, call') /\ call'.queue = call.queue /\ call'.cur = call.cur
        /\ call'.edges = call.edges /\ call'.links = call.links /\ call'.dropped = call.dropped
        /\ \/ call'.pc = "each" /\ call'.ids = Index /\ call'.status = call.status
           \/ call'.pc = "count" /\ call'.ids = call.ids /\ call'.status = call.status
           \/ call'.pc = "done" /\ call'.ids = call.ids /\ call'.status = 200
    <3> DEFINE index == Index
    <3> HIDE DEF index
    <3>1. CASE call' = [call EXCEPT !.pc = "each", !.ids = index]
      BY <1>0, <3>1 DEF Locals, SameAnswer, index
    <3>2. CASE call' = [call EXCEPT !.pc = "count"]
      BY <1>0, <3>2 DEF Locals, SameAnswer
    <3>3. CASE call' = [call EXCEPT !.pc = "done", !.status = 200]
      BY <1>0, <3>3 DEF Locals, SameAnswer
    <3> QED BY <2>1, <3>1, <3>2, <3>3 DEF index
  <2>4. SetsType(call')
    BY <1>0, <2>1, <2>2, <2>3 DEF SetsType
  <2>5. call.cur = {} /\ Known(call) = {} /\ Known(call') = {}
    BY <1>0, <2>1, <2>3 DEF CurType, FoundType, Known, SameAnswer
  <2>6. CurType(call')
    BY <2>3, <2>5 DEF CurType
  <2> QED BY <1>a, <2>1, <2>3, <2>4, <2>6
<1>9. ASSUME NEW err \in BOOLEAN, ReadCore(err) PROVE TypeInv'
  <2> DEFINE rest(i) == [call EXCEPT !.ids = @ \ {i}]
  <2>1. PICK i \in call.ids :
          /\ call' \in {rest(i), [rest(i) EXCEPT !.cur = {i}, !.pc = "edges"]}
          /\ call.pc = "each" /\ op \in {"list", "search"} /\ writes' = writes
    BY <1>9 DEF ReadCore, Reply
  <2>2. /\ SameAnswer(call, call') /\ call'.queue = call.queue /\ call'.ids = call.ids \ {i}
        /\ call'.edges = call.edges /\ call'.links = call.links
        /\ call'.dropped = call.dropped /\ call'.status = call.status
        /\ \/ call'.pc = "each" /\ call'.cur = call.cur
           \/ call'.pc = "edges" /\ call'.cur = {i}
    BY <1>0, <2>1 DEF Locals, SameAnswer
  <2>3. SetsType(call') /\ i \in Id
    BY <1>0, <2>1, <2>2 DEF SetsType
  <2>4. CurType(call')
    <3>1. call.cur = {} /\ call.ids \cap (call.cur \cup Known(call)) = {}
      BY <1>0, <2>1 DEF CurType, op
    <3>2. Known(call') = Known(call)
      BY <2>2 DEF SameAnswer, Known
    <3> QED BY <2>1, <2>2, <2>3, <3>1, <3>2 DEF CurType
  <2> QED BY <1>a, <2>1, <2>2, <2>3, <2>4
<1>10. CASE Answer
  <2> DEFINE found == IF op = "search" THEN Page(call.found, Limit) ELSE call.found
  <2>1. /\ call' = [call EXCEPT !.pc = "done", !.status = 200, !.found = found]
        /\ call.pc = "each" /\ call.ids = {} /\ writes' = writes
    BY <1>10 DEF Answer, Reply
  <2>2. found \subseteq call.found /\ (op = "subgraph" => found = call.found)
    BY DEF Page
  <2> HIDE DEF found
  <2>3. /\ Locals(call') /\ call'.req = call.req /\ call'.visited = call.visited
        /\ call'.queue = call.queue /\ call'.cur = call.cur /\ call'.ids = call.ids
        /\ call'.edges = call.edges /\ call'.links = call.links /\ call'.dropped = call.dropped
        /\ call'.pc = "done" /\ call'.status = 200 /\ call'.found = found
    BY <1>0, <2>1 DEF Locals
  <2>4. SetsType(call')
    BY <1>0, <2>3 DEF SetsType
  <2>5. CurType(call')
    BY <1>0, <2>1, <2>3 DEF CurType
  <2>6. FoundType(call')
    BY <1>0, <2>2, <2>3 DEF FoundType
  <2>7. QueueType(call')
    <3>1. op = "subgraph" => Known(call') = Known(call)
      BY <2>2, <2>3 DEF Known
    <3> QED BY <1>0, <2>3, <3>1 DEF QueueType, op
  <2> QED BY <1>0, <2>1, <2>3, <2>4, <2>5, <2>6, <2>7 DEF TypeInv, CallType
<1>11. ASSUME NEW err \in BOOLEAN, ReadTime(err) PROVE TypeInv'
  <2>0. PICK i \in call.ids : \E more \in {call.dropped, call.dropped \cup {i}} :
          /\ call' = [call EXCEPT !.ids = @ \ {i}, !.dropped = more]
          /\ call.pc = "each" /\ writes' = writes
    BY <1>11 DEF ReadTime, Reply
  <2>1. PICK more \in {call.dropped, call.dropped \cup {i}} :
          /\ call' = [call EXCEPT !.ids = @ \ {i}, !.dropped = more]
          /\ call.pc = "each" /\ writes' = writes
    BY <2>0
  <2>2. /\ SameAnswer(call, call') /\ call'.queue = call.queue /\ call'.ids = call.ids \ {i}
        /\ call'.edges = call.edges /\ call'.links = call.links /\ call'.cur = call.cur
        /\ call'.dropped = more /\ call'.status = call.status /\ call'.pc = call.pc
    BY <1>0, <2>1 DEF Locals, SameAnswer
  <2>3. SetsType(call') /\ CurType(call')
    BY <1>0, <2>1, <2>2 DEF SetsType, CurType, SameAnswer, Known
  <2> QED BY <1>a, <2>1, <2>2, <2>3
<1>12. CASE BeginDrop
  <2>1. /\ call' \in {[call EXCEPT !.pc = "count"], [call EXCEPT !.pc = "kind", !.ids = call.dropped]}
        /\ call.pc = "each" /\ op = "prune" /\ writes' = writes
    BY <1>12 DEF BeginDrop, Reply
  <2>2. /\ SameAnswer(call, call') /\ call'.queue = call.queue
        /\ call'.ids \in {call.ids, call.dropped}
        /\ call'.edges = call.edges /\ call'.links = call.links /\ call'.cur = call.cur
        /\ call'.dropped = call.dropped /\ call'.status = call.status
        /\ call'.pc \in {"kind", "count"} /\ call'.req.op = "prune"
    BY <1>0, <2>1 DEF Locals, SameAnswer, op
  <2>3. SetsType(call') /\ CurType(call')
    BY <1>0, <2>1, <2>2 DEF SetsType, CurType, SameAnswer, Known
  <2> QED BY <1>a, <2>1, <2>2, <2>3
<1>13. ASSUME NEW err \in BOOLEAN, ReadKind(err) PROVE TypeInv'
  <2>0. PICK i \in call.ids : \E cmds :
          /\ call' = [call EXCEPT !.ids = @ \ {i}, !.pc = "drop", !.cmds = cmds]
          /\ call.pc = "kind" /\ writes' = writes
    BY <1>13 DEF ReadKind, Reply
  <2>1. PICK cmds :
          /\ call' = [call EXCEPT !.ids = @ \ {i}, !.pc = "drop", !.cmds = cmds]
          /\ call.pc = "kind" /\ writes' = writes
    BY <2>0
  <2>2. /\ SameAnswer(call, call') /\ call'.queue = call.queue /\ call'.ids = call.ids \ {i}
        /\ call'.edges = call.edges /\ call'.links = call.links /\ call'.cur = call.cur
        /\ call'.dropped = call.dropped /\ call'.status = call.status /\ call'.pc = "drop"
    BY <1>0, <2>1 DEF Locals, SameAnswer
  <2>3. SetsType(call') /\ CurType(call')
    BY <1>0, <2>1, <2>2 DEF SetsType, CurType, SameAnswer, Known
  <2> QED BY <1>a, <2>1, <2>2, <2>3
<1>14. ASSUME NEW err \in BOOLEAN, Drop(err) PROVE TypeInv'
  <2> DEFINE rest == IF err THEN <<>> ELSE Tail(call.cmds)
             pc == AfterDrop(rest)
  <2>1. /\ call' = [call EXCEPT !.cmds = rest, !.pc = pc]
        /\ pc \in {"drop", "kind", "survivors"} /\ call.pc = "drop" /\ writes' = writes
    <3>1. pc \in {"drop", "kind", "survivors"}
      BY DEF AfterDrop
    <3> QED BY <1>14, <3>1 DEF Drop
  <2> HIDE DEF rest, pc
  <2>2. /\ SameAnswer(call, call') /\ call'.queue = call.queue /\ call'.ids = call.ids
        /\ call'.edges = call.edges /\ call'.links = call.links /\ call'.cur = call.cur
        /\ call'.dropped = call.dropped /\ call'.status = call.status /\ call'.pc = pc
    BY <1>0, <2>1 DEF Locals, SameAnswer
  <2>3. SetsType(call') /\ CurType(call')
    BY <1>0, <2>1, <2>2 DEF SetsType, CurType, SameAnswer, Known
  <2> QED BY <1>a, <2>1, <2>2, <2>3
<1>15. ASSUME NEW err \in BOOLEAN, ReadSurvivors(err) PROVE TypeInv'
  <2>1. PICK ids \in {{}, db.ids} :
          /\ call' = [call EXCEPT !.pc = "strip", !.ids = ids]
          /\ call.pc = "survivors" /\ writes' = writes
    BY <1>15 DEF ReadSurvivors, Reply
  <2>2. /\ SameAnswer(call, call') /\ call'.queue = call.queue /\ call'.ids = ids
        /\ call'.edges = call.edges /\ call'.links = call.links /\ call'.cur = call.cur
        /\ call'.dropped = call.dropped /\ call'.status = call.status /\ call'.pc = "strip"
    BY <1>0, <2>1 DEF Locals, SameAnswer
  <2>3. SetsType(call')
    BY <1>0, <2>1, <2>2, StoreFacts DEF SetsType
  <2>4. CurType(call')
    <3>1. call'.req.op = "prune"
      BY <2>1, <2>2 DEF PruneInv, StoreInv, Pruning, op, SameAnswer
    <3> QED BY <1>0, <2>1, <2>2, <3>1 DEF CurType, SameAnswer, Known
  <2> QED BY <1>a, <2>1, <2>2, <2>3, <2>4
<1>16. ASSUME NEW err \in BOOLEAN, ReadSurvivor(err) PROVE TypeInv'
  <2>0. \E i \in call.ids : \E links \in {{}, Dangling(i)} :
          /\ call' = [call EXCEPT !.ids = @ \ {i}, !.links = links]
          /\ call.pc = "strip" /\ writes' = writes
    BY <1>16 DEF ReadSurvivor, Reply
  <2>1. PICK i \in call.ids : \E links \in {{}, Dangling(i)} :
          /\ call' = [call EXCEPT !.ids = @ \ {i}, !.links = links]
          /\ call.pc = "strip" /\ writes' = writes
    BY <2>0
  <2>2. PICK links \in {{}, Dangling(i)} :
          /\ call' = [call EXCEPT !.ids = @ \ {i}, !.links = links]
          /\ call.pc = "strip" /\ writes' = writes
    BY <2>1
  <2>3. /\ SameAnswer(call, call') /\ call'.queue = call.queue /\ call'.ids = call.ids \ {i}
        /\ call'.edges = call.edges /\ call'.links = links /\ call'.cur = call.cur
        /\ call'.dropped = call.dropped /\ call'.status = call.status /\ call'.pc = "strip"
    BY <1>0, <2>2 DEF Locals, SameAnswer
  <2>4. links \subseteq Edge
    BY <1>0, <2>2, StoreFacts DEF Dangling, EdgesOf
  <2>5. SetsType(call') /\ CurType(call')
    BY <1>0, <2>2, <2>3, <2>4 DEF SetsType, CurType, SameAnswer, Known
  <2> QED BY <1>a, <2>2, <2>3, <2>5
<1>17. ASSUME NEW err \in BOOLEAN, Strip(err) PROVE TypeInv'
  <2>1. PICK e \in call.links : call' = [call EXCEPT !.links = @ \ {e}] /\ writes' = writes
    BY <1>17 DEF Strip
  <2>2. /\ SameAnswer(call, call') /\ call'.queue = call.queue /\ call'.ids = call.ids
        /\ call'.edges = call.edges /\ call'.links = call.links \ {e} /\ call'.cur = call.cur
        /\ call'.dropped = call.dropped /\ call'.status = call.status /\ call'.pc = call.pc
    BY <1>0, <2>1 DEF Locals, SameAnswer
  <2>3. SetsType(call') /\ CurType(call')
    BY <1>0, <2>1, <2>2 DEF SetsType, CurType, SameAnswer, Known
  <2> QED BY <1>a, <2>1, <2>2, <2>3
<1>18. CASE EndStrip
  <2>1. call' = [call EXCEPT !.pc = "count"] /\ call.pc = "strip" /\ writes' = writes
    BY <1>18 DEF EndStrip, Reply
  <2>2. /\ SameAnswer(call, call') /\ call'.queue = call.queue /\ call'.ids = call.ids
        /\ call'.edges = call.edges /\ call'.links = call.links /\ call'.cur = call.cur
        /\ call'.dropped = call.dropped /\ call'.status = call.status /\ call'.pc = "count"
    BY <1>0, <2>1 DEF Locals, SameAnswer
  <2>3. SetsType(call') /\ CurType(call')
    BY <1>0, <2>1, <2>2 DEF SetsType, CurType, SameAnswer, Known
  <2> QED BY <1>a, <2>1, <2>2, <2>3
<1>19. ASSUME NEW err \in BOOLEAN, Count(err) PROVE TypeInv'
  <2>1. PICK max : /\ call' = [call EXCEPT !.pc = "done", !.status = 200, !.max = max]
                   /\ call.pc = "count" /\ writes' = writes
    BY <1>19 DEF Count, Reply
  <2>2. /\ SameAnswer(call, call') /\ call'.queue = call.queue /\ call'.ids = call.ids
        /\ call'.edges = call.edges /\ call'.links = call.links /\ call'.cur = call.cur
        /\ call'.dropped = call.dropped /\ call'.status = 200 /\ call'.pc = "done"
    BY <1>0, <2>1 DEF Locals, SameAnswer
  <2>3. SetsType(call') /\ CurType(call')
    BY <1>0, <2>1, <2>2 DEF SetsType, CurType, SameAnswer, Known
  <2> QED BY <1>a, <2>1, <2>2, <2>3
<1>20. ASSUME NEW cmds \in Operations, BeginWrite(cmds) PROVE TypeInv'
  BY <1>0, <1>20 DEF BeginWrite, Execute, TypeInv
<1>21. CASE Write
  BY <1>0, <1>21 DEF Write, Execute, TypeInv
<1>22. CASE UNCHANGED vars
  BY <1>0, <1>22 DEF vars, TypeInv
<1> QED BY <1>1, <1>2, <1>3, <1>4, <1>5, <1>6, <1>7, <1>8, <1>9, <1>10, <1>11, <1>12, <1>13, <1>14,
           <1>15, <1>16, <1>17, <1>18, <1>19, <1>20, <1>21, <1>22 DEF Next, Reader

(* Every local of a request has its type, at every command, whatever fails *)
(* and whatever is written meanwhile; in particular an answer has no       *)
(* entity twice, and the queue holds entities that were visited.           *)
THEOREM TypeCorrect == Spec => []TypeOK
<1>1. PruneInv /\ TypeInv => TypeOK
  <2> SUFFICES ASSUME PruneInv, TypeInv PROVE TypeOK
    OBVIOUS
  <2>1. /\ SetsType(call) /\ CurType(call) /\ FoundType(call) /\ QueueType(call)
        /\ writes \in Nat /\ db \in Stores
    BY DEF TypeInv, CallType, PruneInv, StoreInv
  <2>2. call.cur \subseteq Id /\ Cardinality(call.cur) <= 1
    <3>1. (\E i \in Id : call.cur = {i}) \/ call.cur = {}
      BY <2>1 DEF CurType
    <3>2. ASSUME NEW i \in Id, call.cur = {i} PROVE Cardinality(call.cur) = 1
      BY <3>2, FS_Singleton
    <3>3. Cardinality({}) = 0
      BY FS_EmptySet
    <3> QED BY <3>1, <3>2, <3>3
  <2>3. DOMAIN call.visited \subseteq Id
    BY <2>1 DEF QueueType, FoundType, Known, Entity
  <2>4. Range(call.queue) \subseteq DOMAIN call.visited
    <3>1. \A n \in DOMAIN call.queue : call.queue[n] \in DOMAIN call.visited
      BY <2>1 DEF QueueType
    <3> QED BY <3>1 DEF Range
  <2> QED BY <2>1, <2>2, <2>3, <2>4 DEF TypeOK, SetsType, FoundType
<1> QED BY <1>1, PruneInit, PruneNext, TypeInit, TypeNext, PTL DEF Spec
-----------------------------------------------------------------------------
(* Which commands a request issues, and what every step leaves of what was *)
(* there all the time.                                                     *)

Phase(c) ==
  /\ c.req.op \in {"list", "search"} =>
       c.pc \in {"request", "ids", "each", "edges", "meta", "done"}
  /\ c.req.op = "get" => c.pc \in {"request", "root", "each", "edges", "meta", "done"}
  /\ c.req.op = "subgraph" =>
       c.pc \in {"request", "root", "size", "each", "edges", "meta", "done"}
  /\ c.req.op = "prune" =>
       c.pc \in {"request", "ids", "each", "kind", "drop", "survivors", "strip", "count", "done"}

(* The invariant of any request.                                           *)
ReadInv == PruneInv /\ TypeInv /\ Watched /\ AddedShape /\ Phase(call)

(* Steps that leave the request where it is.                               *)
Others == (\E cmds \in Operations : BeginWrite(cmds)) \/ Write \/ UNCHANGED vars

LEMMA OthersOnward ==
  ASSUME SeenShape, Watched, AddedShape, Others
  PROVE  call' = call /\ Onward /\ AddedShape' /\ (seen'.failed <=> seen.failed)
<1>1. ASSUME NEW c, Execute(c)
      PROVE  call' = call /\ Onward /\ AddedShape' /\ (seen'.failed <=> seen.failed)
  BY <1>1, OnwardExecute DEF Execute
<1>2. CASE UNCHANGED vars
  <2>1. db' = db /\ seen' = seen /\ call' = call
    BY <1>2 DEF vars
  <2>2. Watched' /\ AddedShape'
    BY <2>1 DEF Watched, AddedShape
  <2> QED BY <2>1, <2>2 DEF Onward
<1>3. ASSUME NEW cmds \in Operations, BeginWrite(cmds) PROVE \E c : Execute(c)
  BY <1>3 DEF BeginWrite
<1>4. CASE Write
  BY <1>4, <1>1 DEF Write
<1> QED BY <1>1, <1>2, <1>3, <1>4 DEF Others

LEMMA RequestFacts ==
  ASSUME Locals(call), Request
  PROVE  /\ Locals(call') /\ call'.req = call.req /\ call.pc = "request"
         /\ call'.found = call.found /\ call'.visited = call.visited /\ call'.cur = call.cur
         /\ call'.queue = call.queue /\ call'.links = call.links /\ call'.ids = call.ids
         /\ call'.edges = call.edges /\ call'.dropped = call.dropped /\ call'.cmds = call.cmds
         /\ call'.depth = call.depth /\ call'.max = call.max
         /\ IF BadRequest(call.req) THEN call'.pc = "done" /\ call'.status = 400
            ELSE /\ call'.pc = IF op \in {"get", "subgraph"} THEN "root" ELSE "ids"
                 /\ call'.status = call.status
<1>1. CASE BadRequest(call.req)
  <2>1. call' = [call EXCEPT !.pc = "done", !.status = 400] /\ call.pc = "request"
    BY <1>1 DEF Request
  <2> QED BY <1>1, <2>1, ZenonT(60) DEF Locals
<1>2. CASE ~BadRequest(call.req)
  <2> DEFINE pc == IF op \in {"get", "subgraph"} THEN "root" ELSE "ids"
  <2>1. call' = [call EXCEPT !.pc = pc] /\ call.pc = "request"
    BY <1>2 DEF Request
  <2> HIDE DEF pc
  <2>2. /\ Locals(call') /\ call'.req = call.req /\ call.pc = "request"
        /\ call'.found = call.found /\ call'.visited = call.visited /\ call'.cur = call.cur
        /\ call'.queue = call.queue /\ call'.links = call.links /\ call'.ids = call.ids
        /\ call'.edges = call.edges /\ call'.dropped = call.dropped /\ call'.cmds = call.cmds
        /\ call'.depth = call.depth /\ call'.max = call.max
        /\ call'.pc = pc /\ call'.status = call.status
    BY <2>1 DEF Locals
  <2> QED BY <1>2, <2>2 DEF pc
<1> QED BY <1>1, <1>2

(* An entity in hand: its edges and its metadata.                          *)
LEMMA EdgesFacts ==
  ASSUME Locals(call), NEW err, ReadEdges(err)
  PROVE  /\ call.pc = "edges"
         /\ \E i \in call.cur :
              \/ err /\ call' = Keep([id |-> i, edges |-> {}, meta |-> NoMeta])
              \/ /\ Locals(call') /\ call'.req = call.req /\ call'.pc = "meta"
                 /\ call'.edges = EdgesOf(db, i) /\ call'.status = call.status
                 /\ call'.found = call.found /\ call'.visited = call.visited
                 /\ call'.cur = call.cur /\ call'.queue = call.queue
                 /\ call'.links = call.links /\ call'.ids = call.ids
                 /\ call'.depth = call.depth /\ call'.max = call.max
         /\ Reply(err, call')
<1>1. PICK i \in call.cur :
        Reply(err, IF err THEN Keep([id |-> i, edges |-> {}, meta |-> NoMeta])
                   ELSE [call EXCEPT !.pc = "meta", !.edges = EdgesOf(db, i)])
  BY DEF ReadEdges
<1>2. CASE err
  BY <1>1, <1>2 DEF Reply, ReadEdges
<1>3. CASE ~err
  <2> DEFINE edges == EdgesOf(db, i)
  <2>1. call' = [call EXCEPT !.pc = "meta", !.edges = edges]
    BY <1>1, <1>3 DEF Reply
  <2> HIDE DEF edges
  <2>2. /\ Locals(call') /\ call'.req = call.req /\ call'.pc = "meta"
        /\ call'.edges = edges /\ call'.status = call.status
        /\ call'.found = call.found /\ call'.visited = call.visited
        /\ call'.cur = call.cur /\ call'.queue = call.queue
        /\ call'.links = call.links /\ call'.ids = call.ids
        /\ call'.depth = call.depth /\ call'.max = call.max
    BY <2>1 DEF Locals
  <2> QED BY <1>1, <1>3, <2>2 DEF Reply, ReadEdges, edges
<1> QED BY <1>2, <1>3

LEMMA MetaFacts ==
  ASSUME NEW err, ReadMeta(err)
  PROVE  /\ call.pc = "meta"
         /\ \E i \in call.cur :
              \/ err /\ call' = Keep([id |-> i, edges |-> {}, meta |-> NoMeta])
              \/ call' = Keep([id |-> i, edges |-> call.edges, meta |-> db.meta[i]])
         /\ Reply(err, call')
BY DEF ReadMeta, Reply
LEMMA ReaderOnward ==
  ASSUME SeenShape, Watched, AddedShape, Reader, ~Request
  PROVE  Onward /\ AddedShape'
<1>1. ASSUME NEW err, NEW locals, Reply(err, locals) PROVE Onward /\ AddedShape'
  BY <1>1, OnwardReply
<1>2. ASSUME NEW err \in BOOLEAN, Drop(err) \/ Strip(err) PROVE Onward /\ AddedShape'
  <2>1. seen' = [Watch(db') EXCEPT !.failed = @ \/ err]
    BY <1>2 DEF Drop, Strip
  <2> QED BY <2>1, OnwardPrune
<1>3. CASE Visit \/ Answer \/ BeginDrop \/ EndStrip
  <2>1. \E locals : Reply(FALSE, locals)
    BY <1>3 DEF Visit, Answer, BeginDrop, EndStrip
  <2> QED BY <1>1, <2>1
<1>4. ASSUME NEW err \in BOOLEAN,
             \/ ReadRoot(err) \/ ReadSize(err) \/ ReadEdges(err) \/ ReadMeta(err) \/ Follow(err)
             \/ ReadIds(err) \/ ReadCore(err) \/ ReadTime(err) \/ ReadKind(err)
             \/ ReadSurvivors(err) \/ ReadSurvivor(err) \/ Count(err)
      PROVE  Onward /\ AddedShape'
  <2>1. CASE Follow(err)
    BY <1>1, <2>1 DEF Follow
  <2>2. CASE ReadRoot(err) \/ ReadSize(err) \/ ReadEdges(err) \/ ReadMeta(err) \/ ReadIds(err)
    <3>1. \E locals : Reply(err, locals)
      BY <2>2 DEF ReadRoot, ReadSize, ReadEdges, ReadMeta, ReadIds
    <3> QED BY <1>1, <3>1
  <2>3. CASE \/ ReadCore(err) \/ ReadTime(err) \/ ReadKind(err)
             \/ ReadSurvivors(err) \/ ReadSurvivor(err) \/ Count(err)
    <3>1. \E locals : Reply(err, locals)
      BY <2>3 DEF ReadCore, ReadTime, ReadKind, ReadSurvivors, ReadSurvivor, Count
    <3> QED BY <1>1, <3>1
  <2> QED BY <1>4, <2>1, <2>2, <2>3
<1> QED BY <1>2, <1>3, <1>4 DEF Reader

LEMMA PhaseNext ==
  ASSUME Locals(call), WellFormed(call.req), Phase(call), Reader
  PROVE  Phase(call') /\ call'.req = call.req
<1>1. CASE Request
  BY <1>1, RequestFacts DEF Phase, WellFormed, op
<1>2. ASSUME NEW err \in BOOLEAN, ReadRoot(err) PROVE Phase(call') /\ call'.req = call.req
  <2>1. PICK cur, max :
          /\ call.pc = "root"
          /\ \/ call' = [call EXCEPT !.pc = "done", !.status = 404]
             \/ /\ call' = [call EXCEPT !.cur = cur, !.pc = "size", !.max = max]
                /\ op = "subgraph"
             \/ call' = [call EXCEPT !.cur = cur, !.pc = "edges", !.max = max]
    BY <1>2, ZenonT(60) DEF ReadRoot, Reply
  <2> QED BY <2>1 DEF Locals, Phase, op
<1>3. ASSUME NEW err \in BOOLEAN, ReadSize(err) PROVE Phase(call') /\ call'.req = call.req
  <2>1. PICK max : call' = [call EXCEPT !.pc = "edges", !.max = max] /\ call.pc = "size"
    BY <1>3 DEF ReadSize, Reply
  <2> QED BY <2>1 DEF Locals, Phase
<1>4. ASSUME NEW err \in BOOLEAN, ReadEdges(err) \/ ReadMeta(err)
      PROVE  Phase(call') /\ call'.req = call.req
  <2>1. call.pc \in {"edges", "meta"} /\ call'.req = call.req /\ call'.pc \in {"meta", "each"}
    <3>1. ASSUME NEW x, call' = Keep(x) PROVE call'.req = call.req /\ call'.pc = "each"
      BY <3>1, KeepFacts
    <3>2. CASE ReadEdges(err)
      BY <3>1, <3>2, EdgesFacts
    <3>3. CASE ReadMeta(err)
      BY <3>1, <3>3, MetaFacts
    <3> QED BY <1>4, <3>2, <3>3
  <2> QED BY <2>1 DEF Phase
<1>5. CASE Visit
  <2>1. PICK queue, depth, links :
          /\ call' = [call EXCEPT !.queue = queue, !.depth = depth, !.links = links]
          /\ call.pc = "each"
    BY <1>5 DEF Visit, Reply
  <2> QED BY <2>1 DEF Locals, Phase
<1>6. ASSUME NEW err \in BOOLEAN, Follow(err) PROVE Phase(call') /\ call'.req = call.req
  <2>1. PICK e \in call.links :
          /\ call.pc = "each" /\ op = "subgraph"
          /\ \/ call' = [call EXCEPT !.links = @ \ {e}]
             \/ call' = [[call EXCEPT !.links = @ \ {e}] EXCEPT !.cur = {e.to}, !.pc = "edges"]
    BY <1>6 DEF Follow, Reply
  <2> QED BY <2>1 DEF Locals, Phase, op
<1>7. ASSUME NEW err \in BOOLEAN, ReadIds(err) PROVE Phase(call') /\ call'.req = call.req
  <2>1. /\ \/ call' = [call EXCEPT !.pc = "each", !.ids = Index]
           \/ call' = [call EXCEPT !.pc = "count"] /\ op = "prune"
           \/ call' = [call EXCEPT !.pc = "done", !.status = 200]
        /\ call.pc = "ids"
    BY <1>7 DEF ReadIds, Reply
  <2>2. call'.req = call.req /\ (call'.pc \in {"each", "done"} \/ (call'.pc = "count" /\ op = "prune"))
    <3>1. CASE call' = [call EXCEPT !.pc = "each", !.ids = Index]
      BY <3>1 DEF Locals
    <3>2. CASE call' = [call EXCEPT !.pc = "count"]
      BY <2>1, <3>2 DEF Locals
    <3>3. CASE call' = [call EXCEPT !.pc = "done", !.status = 200]
      BY <3>3 DEF Locals
    <3> QED BY <2>1, <3>1, <3>2, <3>3
  <2> QED BY <2>1, <2>2 DEF Phase, op
<1>8. ASSUME NEW err \in BOOLEAN, ReadCore(err) PROVE Phase(call') /\ call'.req = call.req
  <2>1. PICK i \in call.ids :
          /\ call.pc = "each" /\ op \in {"list", "search"}
          /\ \/ call' = [call EXCEPT !.ids = @ \ {i}]
             \/ call' = [[call EXCEPT !.ids = @ \ {i}] EXCEPT !.cur = {i}, !.pc = "edges"]
    BY <1>8 DEF ReadCore, Reply
  <2> QED BY <2>1 DEF Locals, Phase, op
<1>9. CASE Answer
  <2>1. PICK found : call' = [call EXCEPT !.pc = "done", !.status = 200, !.found = found]
    BY <1>9 DEF Answer, Reply
  <2> QED BY <2>1 DEF Locals, Phase
<1>10. ASSUME NEW err \in BOOLEAN, ReadTime(err) PROVE Phase(call') /\ call'.req = call.req
  <2>1. PICK ids, dropped : call' = [call EXCEPT !.ids = ids, !.dropped = dropped]
    BY <1>10 DEF ReadTime, Reply
  <2> QED BY <2>1 DEF Locals, Phase
<1>11. CASE BeginDrop
  <2>1. /\ op = "prune"
        /\ \/ call' = [call EXCEPT !.pc = "count"]
           \/ call' = [call EXCEPT !.pc = "kind", !.ids = call.dropped]
    BY <1>11 DEF BeginDrop, Reply
  <2> QED BY <2>1 DEF Locals, Phase, op
<1>12. ASSUME NEW err \in BOOLEAN, ReadKind(err) PROVE Phase(call') /\ call'.req = call.req
  <2>1. PICK ids, cmds : /\ call.pc = "kind"
                         /\ call' = [call EXCEPT !.ids = ids, !.pc = "drop", !.cmds = cmds]
    BY <1>12 DEF ReadKind, Reply
  <2> QED BY <2>1 DEF Locals, Phase
<1>13. ASSUME NEW err \in BOOLEAN, Drop(err) PROVE Phase(call') /\ call'.req = call.req
  <2> DEFINE rest == IF err THEN <<>> ELSE Tail(call.cmds)
             pc == AfterDrop(rest)
  <2>1. call.pc = "drop" /\ call' = [call EXCEPT !.cmds = rest, !.pc = pc]
    BY <1>13 DEF Drop
  <2>2. pc \in {"drop", "kind", "survivors"}
    BY DEF AfterDrop
  <2> HIDE DEF rest, pc
  <2> QED BY <2>1, <2>2 DEF Locals, Phase
<1>14. ASSUME NEW err \in BOOLEAN, ReadSurvivors(err) PROVE Phase(call') /\ call'.req = call.req
  <2>1. PICK ids : call' = [call EXCEPT !.pc = "strip", !.ids = ids] /\ call.pc = "survivors"
    BY <1>14 DEF ReadSurvivors, Reply
  <2> QED BY <2>1 DEF Locals, Phase
<1>15. ASSUME NEW err \in BOOLEAN, ReadSurvivor(err) PROVE Phase(call') /\ call'.req = call.req
  <2>1. PICK ids, links : call' = [call EXCEPT !.ids = ids, !.links = links]
    BY <1>15 DEF ReadSurvivor, Reply
  <2> QED BY <2>1 DEF Locals, Phase
<1>16. ASSUME NEW err \in BOOLEAN, Strip(err) PROVE Phase(call') /\ call'.req = call.req
  <2>1. PICK links : call' = [call EXCEPT !.links = links]
    BY <1>16 DEF Strip
  <2> QED BY <2>1 DEF Locals, Phase
<1>17. CASE EndStrip
  <2>1. call' = [call EXCEPT !.pc = "count"] /\ call.pc = "strip"
    BY <1>17 DEF EndStrip, Reply
  <2> QED BY <2>1 DEF Locals, Phase
<1>18. ASSUME NEW err \in BOOLEAN, Count(err) PROVE Phase(call') /\ call'.req = call.req
  <2>1. PICK max : call' = [call EXCEPT !.pc = "done", !.status = 200, !.max = max]
    BY <1>18 DEF Count, Reply
  <2> QED BY <2>1 DEF Locals, Phase
<1> QED BY <1>1, <1>2, <1>3, <1>4, <1>5, <1>6, <1>7, <1>8, <1>9, <1>10, <1>11, <1>12, <1>13,
           <1>14, <1>15, <1>16, <1>17, <1>18 DEF Reader

LEMMA ReadInit == Init => ReadInv
<1> SUFFICES ASSUME Init PROVE ReadInv
  OBVIOUS
<1>1. PICK c \in Cases : db = c.store /\ call = Asked(c.req)
  BY DEF Init
<1>2. seen = Seen(db)
  BY DEF Init
<1>3. Watched /\ AddedShape
  BY <1>2 DEF Seen, Watched, AddedShape, Contents, NeedlesIn
<1>4. Phase(call)
  BY <1>1 DEF Asked, Phase
<1> QED BY <1>3, <1>4, PruneInit, TypeInit DEF ReadInv

LEMMA ReadNext == ReadInv /\ [Next]_vars => ReadInv'
<1> SUFFICES ASSUME ReadInv, [Next]_vars PROVE ReadInv'
  OBVIOUS
<1>0. /\ SeenShape /\ Watched /\ AddedShape /\ Locals(call) /\ WellFormed(call.req)
      /\ Phase(call) /\ PruneInv /\ TypeInv
  BY DEF ReadInv, PruneInv, StoreInv, TypeInv, CallType
<1>1. PruneInv' /\ TypeInv'
  BY <1>0, PruneNext, TypeNext
<1>2. Watched' /\ AddedShape' /\ Phase(call')
  <2>1. CASE Request
    <3>1. Watched' /\ AddedShape'
      BY <2>1, WatchedAnew DEF Request
    <3> QED BY <1>0, <2>1, <3>1, PhaseNext DEF Reader
  <2>2. CASE Reader /\ ~Request
    BY <1>0, <2>2, PhaseNext, ReaderOnward DEF Onward
  <2>3. CASE Others
    BY <1>0, <2>3, OthersOnward DEF Onward
  <2> QED BY <2>1, <2>2, <2>3 DEF Next, Others
<1> QED BY <1>1, <1>2 DEF ReadInv
-----------------------------------------------------------------------------
(* The page of a search is the first so many of what was found.            *)

LEMMA SameCount ==
  ASSUME NEW F, \A x, y \in F : x.id = y.id => x = y,
         IsFiniteSet({x.id : x \in F}), NEW k
  PROVE  Cardinality({y \in F : y.id < k}) = Cardinality(Below({x.id : x \in F}, k))
<1> DEFINE S == {y \in F : y.id < k}
           T == Below({x.id : x \in F}, k)
           f == [y \in S |-> y.id]
<1>1. f \in Injection(S, T)
  BY DEF Injection, Below, IsInjective
<1>2. f \in Surjection(S, T)
  BY DEF Surjection, Below
<1>3. IsFiniteSet(T)
  BY BelowFinite
<1> HIDE DEF S, T, f
<1>4. Cardinality(S) = Cardinality(T)
  BY <1>1, <1>2, <1>3, FS_Injection
<1> QED BY <1>4 DEF S, T

LEMMA PageIds ==
  ASSUME NEW F, \A x, y \in F : x.id = y.id => x = y,
         IsFiniteSet({x.id : x \in F}), NEW n
  PROVE  {x.id : x \in Page(F, n)} = FirstOnes({x.id : x \in F}, n)
<1>1. \A k : Cardinality({y \in F : y.id < k}) = Cardinality(Below({x.id : x \in F}, k))
  BY SameCount
<1> QED BY <1>1 DEF Page, FirstOnes

(* What is not among the first so many comes after so many.                *)
LEMMA FirstBelow ==
  ASSUME NEW S \in SUBSET Nat, IsFiniteSet(S), NEW n \in Nat, NEW i \in S, i \notin FirstOnes(S, n)
  PROVE  Cardinality({j \in FirstOnes(S, n) : j < i}) = n
<1>1. n <= Cardinality(Below(S, i))
  BY BelowFinite DEF FirstOnes
<1>2. Cardinality(Below(S, i)) <= Cardinality(S)
  <2>1. Below(S, i) \in SUBSET S
    BY DEF Below
  <2> QED BY <2>1, FS_Subset
<1>3. n <= Cardinality(S)
  BY <1>1, <1>2, BelowFinite, FS_CardinalityType
<1>4. Cardinality(FirstOnes(S, n)) = n
  BY <1>3, FirstSoMany
<1>5. ASSUME NEW j \in FirstOnes(S, n) PROVE j < i
  <2>1. j \in S /\ Cardinality(Below(S, j)) < n /\ j \in Nat /\ i \in Nat
    BY <1>5 DEF FirstOnes
  <2>2. ASSUME i <= j PROVE FALSE
    <3>1. Below(S, i) \in SUBSET Below(S, j)
      <4>1. \A z \in S : z \in Nat
        OBVIOUS
      <4>2. \A z \in S : z < i => z < j
        BY <2>1, <2>2, <4>1
      <4> QED BY <4>2 DEF Below
    <3>2. Cardinality(Below(S, i)) <= Cardinality(Below(S, j))
      BY <3>1, BelowFinite, FS_Subset
    <3> QED BY <1>1, <2>1, <3>2, BelowFinite
  <2> QED BY <2>1, <2>2
<1>6. {j \in FirstOnes(S, n) : j < i} = FirstOnes(S, n)
  BY <1>5
<1> QED BY <1>4, <1>6

-----------------------------------------------------------------------------
(* ListByKind and Search: until it is answered, what is looked for and was *)
(* listed all the time is still to be read, in hand, or found.             *)

Sought(i) == IF op = "search" THEN SteadyMatch(i)
             ELSE i \in seen.steady.ids /\ KindOf[i] = call.req.kind

Gathered ==
  /\ call.pc \in {"each", "edges", "meta"} =>
       \A i \in Id : Sought(i) => i \in call.ids \cup call.cur \cup Known(call)
  /\ call.pc = "meta" => \A e \in seen.steady.edges : e.from \in call.cur => e \in call.edges
  /\ call.pc = "done" /\ call.status # 400 =>
       \A i \in Id : Sought(i) /\ i \notin Known(call) =>
         op = "search" /\ Cardinality({j \in Known(call) : j < i}) = Limit

GatherInv == op \in {"list", "search"} /\ ~seen.failed => Gathered

(* What is sought was so before.                                           *)
LEMMA SoughtBefore ==
  ASSUME Onward, call'.req = call.req, NEW i, Sought(i)'
  PROVE  Sought(i)
<1>1. /\ seen'.steady.ids \subseteq seen.steady.ids
      /\ seen'.steady.edges \subseteq seen.steady.edges
      /\ seen'.steady.meta \subseteq seen.steady.meta
  BY DEF Onward
<1>2. CASE op = "search"
  <2>1. SteadyMatch(i)'
    BY <1>2 DEF Sought, op
  <2>2. SteadyMatch(i)
    BY <1>1, <2>1 DEF SteadyMatch
  <2> QED BY <1>2, <2>2 DEF Sought
<1>3. CASE op # "search"
  BY <1>1, <1>3 DEF Sought, op
<1> QED BY <1>2, <1>3

(* An entity that matches all the time is seen to match when it is read.   *)
LEMMA SoughtMatches ==
  ASSUME Watched, op = "search", NEW i \in Id, Sought(i), NEW x, x.id = i, x.meta = db.meta[i],
         \A e \in seen.steady.edges : e.from = i => e \in x.edges
  PROVE  Matched(x) # {}
<1>1. SteadyMatch(i)
  BY DEF Sought
<1>2. CASE i \in Named
  BY <1>2 DEF Matched
<1>3. ASSUME NEW p \in seen.steady.meta, p[1] = i PROVE Matched(x) # {}
  <2>1. p \in Id \X Field /\ db.meta[p[1]][p[2]] = Needle
    BY DEF Watched, NeedlesIn
  <2>2. p[2] \in Field /\ x.meta[p[2]] = Needle
    BY <1>3, <2>1
  <2>3. p[2] \in {f \in Field : x.meta[f] = Needle}
    BY <2>2
  <2> QED BY <2>3 DEF Matched
<1>4. ASSUME NEW e \in seen.steady.edges, e.from = i, e.action = Needle PROVE Matched(x) # {}
  <2>1. e \in {y \in x.edges : y.action = Needle}
    BY <1>4
  <2>2. e.action \in {y.action : y \in {z \in x.edges : z.action = Needle}}
    BY <2>1
  <2> QED BY <2>2 DEF Matched
<1> QED BY <1>1, <1>2, <1>3, <1>4 DEF SteadyMatch
LEMMA LimitType == WellFormed(call.req) /\ op = "search" => Limit \in Nat
BY DEF WellFormed, Limit, DefaultLimit, op

LEMMA GatherInit == Init => GatherInv
BY DEF Init, Asked, GatherInv, Gathered

(* A step that leaves the read entities what they are, or adds to them.    *)
LEMMA GatherKeeps ==
  ASSUME Gathered, Onward, call'.req = call.req, call.pc \in {"each", "edges", "meta"},
         call'.pc \in {"each", "edges", "meta"},
         \A i \in Id : Sought(i) /\ i \in call.ids \cup call.cur \cup Known(call) =>
                         i \in call'.ids \cup call'.cur \cup Known(call'),
         call'.pc = "meta" => \A e \in seen.steady.edges : e.from \in call'.cur => e \in call'.edges
  PROVE  Gathered'
<1>1. ASSUME NEW i \in Id, Sought(i)' PROVE i \in call'.ids \cup call'.cur \cup Known(call')
  <2>1. Sought(i)
    BY <1>1, SoughtBefore
  <2> QED BY <2>1 DEF Gathered
<1>2. ASSUME call'.pc = "meta", NEW e \in seen'.steady.edges, e.from \in call'.cur
      PROVE  e \in call'.edges
  BY <1>2 DEF Onward
<1> QED BY <1>1, <1>2 DEF Gathered

LEMMA GatherNext == ReadInv /\ GatherInv /\ [Next]_vars => GatherInv'
<1> SUFFICES ASSUME ReadInv, GatherInv, [Next]_vars, op' \in {"list", "search"}, ~seen'.failed
             PROVE  Gathered'
  BY DEF GatherInv
<1>0. /\ Locals(call) /\ SeenShape /\ Watched /\ AddedShape /\ WellFormed(call.req) /\ Phase(call)
      /\ SetsType(call) /\ CurType(call) /\ FoundType(call) /\ db \in Stores
  BY DEF ReadInv, PruneInv, StoreInv, TypeInv, CallType
<1>1. call'.req = call.req /\ op \in {"list", "search"} /\ op' = op
  <2>1. CASE Reader
    BY <1>0, <2>1, PhaseNext DEF op
  <2>2. CASE Others
    BY <1>0, <2>2, OthersOnward DEF op
  <2> QED BY <2>1, <2>2 DEF Next, Others, op
<1>2. CASE Request
  BY <1>0, <1>1, <1>2, RequestFacts DEF Gathered, op
<1> SUFFICES ASSUME ~Request PROVE Gathered'
  BY <1>2
<1>3. Onward
  <2>1. CASE Reader
    BY <1>0, <2>1, ReaderOnward
  <2>2. CASE Others
    BY <1>0, <2>2, OthersOnward
  <2> QED BY <2>1, <2>2 DEF Next, Others
<1>4. Gathered
  BY <1>1, <1>3 DEF GatherInv, Onward
<1>5. call.pc \in {"request", "ids", "each", "edges", "meta", "done"}
  BY <1>0, <1>1 DEF Phase, op
<1>6. CASE Others
  <2>1. call' = call
    BY <1>0, <1>6, OthersOnward
  <2>2. \A i : Sought(i)' => Sought(i)
    BY <1>1, <1>3, SoughtBefore
  <2>3. Limit' = Limit
    BY <2>1 DEF Limit
  <2>4. seen'.steady.edges \subseteq seen.steady.edges
    BY <1>3 DEF Onward
  <2> QED BY <1>4, <2>1, <2>2, <2>3, <2>4 DEF Gathered, op
<1>7. ASSUME NEW err \in BOOLEAN, ReadIds(err) PROVE Gathered'
  <2>1. ~err
    BY <1>0, <1>7, OnwardReply DEF ReadIds
  <2>2. call' = [call EXCEPT !.pc = "each", !.ids = Index]
    BY <1>7, <2>1 DEF ReadIds, Reply
  <2>3. call'.pc = "each" /\ call'.ids = Index
    BY <1>0, <2>2 DEF Locals
  <2>4. ASSUME NEW i \in Id, Sought(i)' PROVE i \in Index
    <3>1. Sought(i)
      BY <1>1, <1>3, <2>4, SoughtBefore
    <3>2. i \in seen.steady.ids /\ (call.req.kind = NoKind \/ KindOf[i] = call.req.kind)
      BY <1>1, <3>1 DEF Sought, SteadyMatch
    <3>3. i \in db.ids /\ i \in db.byKind
      BY <1>0, <3>2 DEF Watched, ListedIds, Listed
    <3> QED BY <1>1, <3>2, <3>3 DEF Index, OfKind
  <2> QED BY <2>3, <2>4 DEF Gathered
<1>8. ASSUME NEW err \in BOOLEAN, ReadCore(err) PROVE Gathered'
  <2>1. PICK i \in call.ids :
          Reply(err, IF Missing(err, i) THEN [call EXCEPT !.ids = @ \ {i}]
                     ELSE [[call EXCEPT !.ids = @ \ {i}] EXCEPT !.cur = {i}, !.pc = "edges"])
    BY <1>8 DEF ReadCore
  <2>2. ~err /\ call.pc = "each"
    BY <1>0, <1>8, <2>1, OnwardReply DEF ReadCore
  <2>3. CASE Missing(err, i)
    <3>1. call' = [call EXCEPT !.ids = @ \ {i}]
      BY <2>1, <2>3 DEF Reply
    <3>2. /\ call'.ids = call.ids \ {i} /\ call'.cur = call.cur /\ call'.pc = "each"
          /\ call'.found = call.found
      BY <1>0, <2>2, <3>1 DEF Locals
    <3>3. ~Sought(i)
      BY <1>0, <1>1, <2>2, <2>3 DEF Missing, Sought, SteadyMatch, Watched, ListedIds, Listed
    <3>4. \A j \in Id : Sought(j) /\ j \in call.ids \cup call.cur \cup Known(call) =>
                          j \in call'.ids \cup call'.cur \cup Known(call')
      BY <3>2, <3>3 DEF Known
    <3> QED BY <1>1, <1>3, <1>4, <2>2, <3>2, <3>4, GatherKeeps
  <2>4. CASE ~Missing(err, i)
    <3>1. call' = [[call EXCEPT !.ids = @ \ {i}] EXCEPT !.cur = {i}, !.pc = "edges"]
      BY <2>1, <2>4 DEF Reply
    <3>2. /\ call'.ids = call.ids \ {i} /\ call'.cur = {i} /\ call'.pc = "edges"
          /\ call'.found = call.found
      BY <1>0, <2>2, <3>1 DEF Locals
    <3>3. call.cur = {}
      BY <1>0, <2>2 DEF CurType
    <3>4. \A j \in Id : Sought(j) /\ j \in call.ids \cup call.cur \cup Known(call) =>
                          j \in call'.ids \cup call'.cur \cup Known(call')
      BY <3>2, <3>3 DEF Known
    <3> QED BY <1>1, <1>3, <1>4, <2>2, <3>2, <3>4, GatherKeeps
  <2> QED BY <2>3, <2>4
<1>9. ASSUME NEW err \in BOOLEAN, ReadEdges(err) PROVE Gathered'
  <2>1. call.pc = "edges" /\ ~err
    BY <1>0, <1>9, EdgesFacts, OnwardReply
  <2>2. PICK i \in call.cur :
          /\ call'.pc = "meta" /\ call'.edges = EdgesOf(db, i) /\ call'.found = call.found
          /\ call'.cur = call.cur /\ call'.ids = call.ids
    BY <1>0, <1>9, <2>1, EdgesFacts
  <2>3. call.cur = {i}
    BY <1>0, <2>1, <2>2 DEF CurType
  <2>4. \A e \in seen.steady.edges : e.from \in call'.cur => e \in call'.edges
    BY <1>0, <2>2, <2>3 DEF Watched, EdgesOf
  <2>5. \A j \in Id : Sought(j) /\ j \in call.ids \cup call.cur \cup Known(call) =>
                        j \in call'.ids \cup call'.cur \cup Known(call')
    BY <2>2 DEF Known
  <2> QED BY <1>1, <1>3, <1>4, <2>1, <2>2, <2>4, <2>5, GatherKeeps
<1>10. ASSUME NEW err \in BOOLEAN, ReadMeta(err) PROVE Gathered'
  <2>1. call.pc = "meta" /\ ~err
    BY <1>0, <1>10, MetaFacts, OnwardReply
  <2>2. PICK i \in call.cur : call' = Keep([id |-> i, edges |-> call.edges, meta |-> db.meta[i]])
    BY <1>10, <2>1, MetaFacts
  <2> DEFINE x == [id |-> i, edges |-> call.edges, meta |-> db.meta[i]]
  <2>3. x.id = i /\ x.edges = call.edges /\ x.meta = db.meta[i] /\ call' = Keep(x)
    BY <2>2
  <2> HIDE DEF x
  <2>4. call.cur = {i} /\ i \in Id
    BY <1>0, <2>1, <2>2 DEF CurType
  <2>5. /\ call'.pc = "each" /\ call'.ids = call.ids /\ call'.cur = {}
        /\ call'.found \in {call.found, call.found \cup {x}}
        /\ op # "search" \/ Matched(x) # {} => call'.found = call.found \cup {x}
    BY <1>0, <1>1, <2>3, KeepFacts
  <2>6. Sought(i) => i \in Known(call')
    <3>1. ASSUME Sought(i), op = "search" PROVE Matched(x) # {}
      <4>1. \A e \in seen.steady.edges : e.from = i => e \in x.edges
        BY <1>4, <2>1, <2>3, <2>4 DEF Gathered
      <4> QED BY <1>0, <2>3, <2>4, <3>1, <4>1, SoughtMatches
    <3> QED BY <2>3, <2>5, <3>1 DEF Known
  <2>7. Known(call) \subseteq Known(call')
    BY <2>5 DEF Known
  <2>8. \A j \in Id : Sought(j) /\ j \in call.ids \cup call.cur \cup Known(call) =>
                        j \in call'.ids \cup call'.cur \cup Known(call')
    BY <2>4, <2>5, <2>6, <2>7
  <2> QED BY <1>1, <1>3, <1>4, <2>1, <2>5, <2>8, GatherKeeps
<1>11. CASE Answer
  <2> DEFINE found == IF op = "search" THEN Page(call.found, Limit) ELSE call.found
  <2>1. /\ call' = [call EXCEPT !.pc = "done", !.status = 200, !.found = found]
        /\ call.pc = "each" /\ call.ids = {}
    BY <1>11 DEF Answer, Reply
  <2> HIDE DEF found
  <2>2. call'.pc = "done" /\ call'.found = found
    BY <1>0, <2>1 DEF Locals
  <2>3. call.cur = {}
    BY <1>0, <2>1 DEF CurType
  <2>4. ASSUME NEW i \in Id, Sought(i)' PROVE i \in Known(call)
    <3>1. Sought(i)
      BY <1>1, <1>3, <2>4, SoughtBefore
    <3> QED BY <1>4, <2>1, <2>3, <3>1 DEF Gathered
  <2>5. CASE op # "search"
    <3>1. Known(call') = Known(call)
      BY <2>2, <2>5 DEF Known, found
    <3> QED BY <2>2, <2>4, <3>1 DEF Gathered
  <2>6. CASE op = "search"
    <3> DEFINE S == Known(call)
    <3>1. S \in SUBSET Nat /\ IsFiniteSet(S) /\ Limit \in Nat /\ Limit' = Limit
      <4>1. S \in SUBSET Id
        BY <1>0 DEF FoundType, Known, Entity
      <4> QED BY <1>0, <1>1, <2>6, <4>1, IdAssumption, FS_Subset, LimitType DEF Limit
    <3>2. \A x, y \in call.found : x.id = y.id => x = y
      BY <1>0 DEF FoundType
    <3>3. Known(call') = FirstOnes(S, Limit)
      BY <2>2, <2>6, <3>1, <3>2, PageIds DEF Known, found
    <3>4. ASSUME NEW i \in Id, Sought(i)', i \notin Known(call')
          PROVE  Cardinality({j \in Known(call') : j < i}) = Limit'
      <4> HIDE DEF S
      <4>1. i \in S
        BY <2>4, <3>4 DEF S
      <4> QED BY <3>1, <3>3, <3>4, <4>1, FirstBelow
    <3> QED BY <1>1, <2>2, <2>6, <3>4 DEF Gathered
  <2> QED BY <2>5, <2>6
<1>12. ASSUME NEW err \in BOOLEAN,
              \/ ReadRoot(err) \/ ReadSize(err) \/ Follow(err) \/ ReadTime(err) \/ ReadKind(err)
              \/ Drop(err) \/ ReadSurvivors(err) \/ ReadSurvivor(err) \/ Strip(err) \/ Count(err)
       PROVE  FALSE
  BY <1>1, <1>5, <1>12 DEF ReadRoot, ReadSize, Follow, ReadTime, ReadKind, Drop, ReadSurvivors,
                           ReadSurvivor, Strip, Count
<1>13. CASE Visit \/ BeginDrop \/ EndStrip
  BY <1>1, <1>5, <1>13 DEF Visit, BeginDrop, EndStrip
<1> QED BY <1>6, <1>7, <1>8, <1>9, <1>10, <1>11, <1>12, <1>13 DEF Next, Reader, Others

LEMMA AnswerIds == FoundIds = Known(call)
BY DEF FoundIds, Known

(* A list has every entity of the kind that was listed during the whole    *)
(* request, whatever else of the kind comes and goes while it is read.     *)
THEOREM ListFindsCorrect == Spec => []ListFinds
<1>1. ReadInv /\ GatherInv => ListFinds
  <2> SUFFICES ASSUME ReadInv, GatherInv, Done("list"), ~seen.failed,
                      NEW i \in seen.steady.ids, KindOf[i] = call.req.kind
               PROVE  i \in FoundIds
    BY DEF ListFinds
  <2>1. i \in Id
    BY DEF ReadInv, Watched, ListedIds
  <2>2. op = "list" /\ Sought(i) /\ Gathered /\ call.pc = "done" /\ call.status # 400
    BY DEF Done, GatherInv, Sought
  <2> QED BY <2>1, <2>2, AnswerIds DEF Gathered
<1> QED BY <1>1, ReadInit, ReadNext, GatherInit, GatherNext, PTL DEF Spec

(* A search leaves out an entity that matched during the whole request     *)
(* only for a full page of matches with smaller ids.                       *)
THEOREM SearchFindsCorrect == Spec => []SearchFinds
<1>1. ReadInv /\ GatherInv => SearchFinds
  <2> SUFFICES ASSUME ReadInv, GatherInv, Done("search"), ~seen.failed,
                      NEW i \in Id, SteadyMatch(i), i \notin FoundIds
               PROVE  Cardinality({j \in FoundIds : j < i}) = Limit
    BY DEF SearchFinds
  <2>1. op = "search" /\ Sought(i) /\ Gathered /\ call.pc = "done" /\ call.status # 400
    BY DEF Done, GatherInv, Sought
  <2> QED BY <2>1, AnswerIds DEF Gathered
<1> QED BY <1>1, ReadInit, ReadNext, GatherInit, GatherNext, PTL DEF Spec
-----------------------------------------------------------------------------
(* Subgraph: what each of its steps does.                                  *)

RootStep ==
  /\ call.pc = "root" /\ SameAnswer(call, call')
  /\ call'.queue = call.queue /\ call'.links = call.links /\ call'.depth = call.depth
  /\ \/ /\ call'.pc = "done" /\ call'.status = 404 /\ call'.cur = call.cur
        /\ call'.max = call.max
        /\ ~seen'.failed => ~Exists(db, call.req.id)
     \/ /\ Exists(db, call.req.id) /\ call'.cur = {call.req.id} /\ call'.status = call.status
        /\ call'.max = call.req.depth
        /\ call'.pc = IF call.req.depth <= 0 THEN "size" ELSE "edges"

SizeStep ==
  /\ call.pc = "size" /\ SameAnswer(call, call')
  /\ call'.queue = call.queue /\ call'.links = call.links /\ call'.depth = call.depth
  /\ call'.cur = call.cur /\ call'.status = call.status
  /\ call'.pc = "edges"
  /\ call'.max \in {0, Cardinality(db.ids)} /\ (~seen'.failed => call'.max = Cardinality(db.ids))

EdgesStep ==
  /\ call.pc = "edges" /\ SameAnswer(call, call')
  /\ call'.queue = call.queue /\ call'.links = call.links /\ call'.depth = call.depth
  /\ call'.cur = call.cur /\ call'.max = call.max /\ call'.status = call.status
  /\ call'.pc = "meta"
  /\ \E i \in call.cur : call'.edges = EdgesOf(db, i)

KeepStep(x) ==
  /\ call.pc \in {"edges", "meta"} /\ Locals(call') /\ call'.req = call.req
  /\ call.cur = {x.id} /\ x.id \in Id /\ x.id \notin Known(call)
  /\ x.edges = {} \/ (call.pc = "meta" /\ x.edges = call.edges)
  /\ ~seen'.failed => call.pc = "meta" /\ x.edges = call.edges
  /\ call'.found = call.found \cup {x}
  /\ call'.visited = Mark(call.visited, x.id, call.depth + 1)
  /\ call'.queue = Append(call.queue, x.id)
  /\ call'.cur = {} /\ call'.links = call.links /\ call'.depth = call.depth
  /\ call'.max = call.max /\ call'.status = call.status
  /\ call'.pc = "each"

VisitStep ==
  /\ call.pc = "each" /\ SameAnswer(call, call')
  /\ call.links = {} /\ call.queue # <<>>
  /\ call'.queue = Tail(call.queue) /\ call'.depth = call.visited[Head(call.queue)]
  /\ \E x \in call.found :
       /\ x.id = Head(call.queue)
       /\ call'.links = IF call.visited[x.id] >= call.max THEN {} ELSE x.edges
  /\ call'.cur = call.cur /\ call'.max = call.max /\ call'.status = call.status
  /\ call'.pc = "each"

FollowStep(e) ==
  /\ call.pc = "each" /\ SameAnswer(call, call')
  /\ e \in call.links /\ call'.links = call.links \ {e}
  /\ call'.queue = call.queue /\ call'.depth = call.depth
  /\ call'.max = call.max /\ call'.status = call.status
  /\ \/ /\ call'.pc = "each" /\ call'.cur = call.cur
        /\ e.to \in Known(call) \/ (~seen'.failed => ~Exists(db, e.to))
     \/ /\ call'.pc = "edges" /\ call'.cur = {e.to}
        /\ e.to \notin Known(call) /\ Exists(db, e.to)

AnswerStep ==
  /\ call.pc = "each" /\ SameAnswer(call, call')
  /\ call.links = {} /\ call.queue = <<>>
  /\ call'.queue = call.queue /\ call'.links = call.links /\ call'.depth = call.depth
  /\ call'.cur = call.cur /\ call'.max = call.max /\ call'.status = 200
  /\ call'.pc = "done"

SubgraphStep ==
  \/ RootStep \/ SizeStep \/ EdgesStep \/ (\E x \in Entity : KeepStep(x))
  \/ VisitStep \/ (\E e \in call.links : FollowStep(e)) \/ AnswerStep \/ call' = call

LEMMA KeepIsStep ==
  ASSUME Locals(call), CurType(call), op = "subgraph", call.pc \in {"edges", "meta"},
         NEW x \in Entity, x.id \in call.cur, call' = Keep(x),
         x.edges = {} \/ (call.pc = "meta" /\ x.edges = call.edges),
         ~seen'.failed => call.pc = "meta" /\ x.edges = call.edges
  PROVE  KeepStep(x)
<1>1. /\ Locals(call') /\ call'.req = call.req /\ call'.pc = "each" /\ call'.cur = {}
      /\ call'.status = call.status /\ call'.links = call.links
      /\ call'.depth = call.depth /\ call'.max = call.max
      /\ call'.found = call.found \cup {x}
      /\ call'.visited = Mark(call.visited, x.id, call.depth + 1)
      /\ call'.queue = Append(call.queue, x.id)
  BY KeepFacts
<1>2. call.cur = {x.id} /\ x.id \in Id /\ x.id \notin Known(call)
  BY DEF CurType
<1> QED BY <1>1, <1>2 DEF KeepStep

LEMMA SubgraphSteps ==
  ASSUME ReadInv, op = "subgraph", [Next]_vars, ~Request
  PROVE  Onward /\ call'.req = call.req /\ SubgraphStep
<1>0. /\ Locals(call) /\ SeenShape /\ Watched /\ AddedShape /\ WellFormed(call.req) /\ Phase(call)
      /\ SetsType(call) /\ CurType(call) /\ FoundType(call) /\ QueueType(call) /\ db \in Stores
  BY DEF ReadInv, PruneInv, StoreInv, TypeInv, CallType
<1>1. Onward /\ call'.req = call.req
  <2>1. CASE Reader
    BY <1>0, <2>1, ReaderOnward, PhaseNext
  <2>2. CASE Others
    BY <1>0, <2>2, OthersOnward
  <2> QED BY <2>1, <2>2 DEF Next, Others
<1>2. call.pc \in {"request", "root", "size", "each", "edges", "meta", "done"}
  BY <1>0 DEF Phase, op
<1>3. ASSUME Others PROVE SubgraphStep
  BY <1>0, <1>3, OthersOnward DEF SubgraphStep
<1>4. ASSUME NEW err, NEW locals, Reply(err, locals) PROVE ~seen'.failed => ~err
  BY <1>0, <1>4, OnwardReply
<1>5. ASSUME NEW err \in BOOLEAN, ReadRoot(err) PROVE RootStep
  <2> DEFINE i == call.req.id
             pc == IF call.req.depth <= 0 THEN "size" ELSE "edges"
  <2>1. /\ Reply(err, IF Missing(err, i) THEN [call EXCEPT !.pc = "done", !.status = 404]
                      ELSE [call EXCEPT !.cur = {i}, !.pc = pc, !.max = call.req.depth])
        /\ call.pc = "root"
    BY <1>5 DEF ReadRoot
  <2>2. CASE Missing(err, i)
    <3>1. call' = [call EXCEPT !.pc = "done", !.status = 404]
      BY <2>1, <2>2 DEF Reply
    <3>2. ~seen'.failed => ~Exists(db, i)
      BY <1>4, <2>1, <2>2 DEF Missing
    <3>3. Locals(call')
      BY <1>0, <3>1 DEF Locals
    <3>4. /\ call'.req = call.req /\ call'.found = call.found /\ call'.visited = call.visited
          /\ call'.pc = "done" /\ call'.status = 404
      BY <1>0, <3>1, ZenonT(60) DEF Locals
    <3>5. /\ call'.cur = call.cur /\ call'.links = call.links /\ call'.queue = call.queue
          /\ call'.depth = call.depth /\ call'.max = call.max
      BY <1>0, <3>1, ZenonT(60) DEF Locals
    <3> QED BY <2>1, <3>2, <3>3, <3>4, <3>5 DEF RootStep, SameAnswer
  <2>3. CASE ~Missing(err, i)
    <3>1. call' = [call EXCEPT !.cur = {i}, !.pc = pc, !.max = call.req.depth]
      BY <2>1, <2>3 DEF Reply
    <3>2. Exists(db, i)
      BY <2>3 DEF Missing
    <3> HIDE DEF pc
    <3>3. /\ SameAnswer(call, call') /\ call'.pc = pc /\ call'.cur = {i}
          /\ call'.max = call.req.depth
          /\ call'.queue = call.queue /\ call'.links = call.links /\ call'.depth = call.depth
          /\ call'.status = call.status
      BY <1>0, <3>1 DEF SameAnswer, Locals
    <3> QED BY <2>1, <3>2, <3>3 DEF RootStep, pc
  <2> QED BY <2>2, <2>3
<1>6. ASSUME NEW err \in BOOLEAN, ReadSize(err) PROVE SizeStep
  <2> DEFINE max == IF err THEN 0 ELSE Cardinality(db.ids)
  <2>1. Reply(err, [call EXCEPT !.pc = "edges", !.max = max]) /\ call.pc = "size"
    BY <1>6 DEF ReadSize
  <2>2. max \in {0, Cardinality(db.ids)} /\ (~seen'.failed => max = Cardinality(db.ids))
    BY <1>4, <2>1
  <2>3. call' = [call EXCEPT !.pc = "edges", !.max = max]
    BY <2>1 DEF Reply
  <2> HIDE DEF max
  <2>4. /\ SameAnswer(call, call') /\ call'.pc = "edges" /\ call'.cur = call.cur
        /\ call'.queue = call.queue /\ call'.links = call.links /\ call'.depth = call.depth
        /\ call'.status = call.status /\ call'.max = max
    BY <1>0, <2>3 DEF SameAnswer, Locals
  <2> QED BY <2>1, <2>2, <2>4 DEF SizeStep
<1>7. ASSUME NEW err \in BOOLEAN, ReadEdges(err) PROVE SubgraphStep
  <2>1. call.pc = "edges" /\ Reply(err, call')
    BY <1>0, <1>7, EdgesFacts
  <2>2. PICK i \in call.cur :
          \/ err /\ call' = Keep([id |-> i, edges |-> {}, meta |-> NoMeta])
          \/ /\ Locals(call') /\ call'.pc = "meta" /\ call'.edges = EdgesOf(db, i)
             /\ call'.found = call.found /\ call'.visited = call.visited
             /\ call'.cur = call.cur /\ call'.queue = call.queue /\ call'.status = call.status
             /\ call'.links = call.links /\ call'.depth = call.depth /\ call'.max = call.max
    BY <1>0, <1>7, EdgesFacts
  <2>3. CASE err /\ call' = Keep([id |-> i, edges |-> {}, meta |-> NoMeta])
    <3> DEFINE x == [id |-> i, edges |-> {}, meta |-> NoMeta]
    <3>1. i \in Id
      BY <1>0, <2>1, <2>2 DEF CurType
    <3>2. x \in Entity /\ x.id = i /\ x.edges = {} /\ call' = Keep(x)
      BY <2>3, <3>1, NoMetaType DEF Entity
    <3> HIDE DEF x
    <3>3. seen'.failed
      BY <1>4, <2>1, <2>3
    <3>4. KeepStep(x)
      BY <1>0, <2>1, <2>2, <3>2, <3>3, KeepIsStep
    <3> QED BY <3>2, <3>4 DEF SubgraphStep
  <2>4. CASE call'.pc = "meta" /\ ~(err /\ call' = Keep([id |-> i, edges |-> {}, meta |-> NoMeta]))
    <3>1. EdgesStep
      BY <1>1, <2>1, <2>2, <2>4 DEF EdgesStep, SameAnswer
    <3> QED BY <3>1 DEF SubgraphStep
  <2> QED BY <2>2, <2>3, <2>4
<1>8. ASSUME NEW err \in BOOLEAN, ReadMeta(err) PROVE SubgraphStep
  <2>1. call.pc = "meta" /\ Reply(err, call')
    BY <1>8, MetaFacts
  <2>2. PICK i \in call.cur :
          \/ err /\ call' = Keep([id |-> i, edges |-> {}, meta |-> NoMeta])
          \/ call' = Keep([id |-> i, edges |-> call.edges, meta |-> db.meta[i]])
    BY <1>8, MetaFacts
  <2>3. i \in Id /\ db.meta[i] \in Metadata /\ call.edges \subseteq Edge
    BY <1>0, <2>1, <2>2, StoreFacts DEF CurType, SetsType
  <2>4. CASE err /\ call' = Keep([id |-> i, edges |-> {}, meta |-> NoMeta])
    <3> DEFINE x == [id |-> i, edges |-> {}, meta |-> NoMeta]
    <3>1. x \in Entity /\ x.id = i /\ x.edges = {} /\ call' = Keep(x)
      BY <2>3, <2>4, NoMetaType DEF Entity
    <3> HIDE DEF x
    <3>2. seen'.failed
      BY <1>4, <2>1, <2>4
    <3>3. KeepStep(x)
      BY <1>0, <2>1, <2>2, <3>1, <3>2, KeepIsStep
    <3> QED BY <3>1, <3>3 DEF SubgraphStep
  <2>5. CASE call' = Keep([id |-> i, edges |-> call.edges, meta |-> db.meta[i]])
    <3> DEFINE x == [id |-> i, edges |-> call.edges, meta |-> db.meta[i]]
    <3>1. x \in Entity /\ x.id = i /\ x.edges = call.edges /\ call' = Keep(x)
      BY <2>3, <2>5 DEF Entity
    <3> HIDE DEF x
    <3>2. KeepStep(x)
      BY <1>0, <2>1, <2>2, <3>1, KeepIsStep
    <3> QED BY <3>1, <3>2 DEF SubgraphStep
  <2> QED BY <2>2, <2>4, <2>5
<1>9. ASSUME Visit PROVE SubgraphStep
  <2> DEFINE id == Head(call.queue)
             entity == CHOOSE x \in call.found : x.id = id
             queue == Tail(call.queue)
             depth == call.visited[id]
             links == IF depth >= call.max THEN {} ELSE entity.edges
  <2>1. /\ call' = [call EXCEPT !.queue = queue, !.depth = depth, !.links = links]
        /\ call.pc = "each" /\ call.queue # <<>> /\ call.links = {}
    BY <1>9 DEF Visit, Reply
  <2>2. id \in Known(call)
    BY <1>0, <2>1, QueueSteps DEF QueueType, op
  <2>3. entity \in call.found /\ entity.id = id
    BY <2>2 DEF Known
  <2>4. \E x \in call.found : x.id = id /\ links = IF call.visited[x.id] >= call.max THEN {} ELSE x.edges
    BY <2>3
  <2> HIDE DEF id, queue, depth, links
  <2>5. /\ SameAnswer(call, call') /\ call'.pc = "each" /\ call'.cur = call.cur
        /\ call'.queue = queue /\ call'.links = links /\ call'.depth = depth
        /\ call'.status = call.status /\ call'.max = call.max
    BY <1>0, <2>1 DEF SameAnswer, Locals
  <2>6. VisitStep
    <3>1. PICK x \in call.found :
            x.id = id /\ links = IF call.visited[x.id] >= call.max THEN {} ELSE x.edges
      BY <2>4
    <3>2. \E y \in call.found :
            /\ y.id = Head(call.queue)
            /\ call'.links = IF call.visited[y.id] >= call.max THEN {} ELSE y.edges
      BY <2>5, <3>1 DEF id
    <3> QED BY <2>1, <2>5, <3>2 DEF VisitStep, id, queue, depth
  <2> QED BY <2>6 DEF SubgraphStep
<1>10. ASSUME NEW err \in BOOLEAN, Follow(err) PROVE SubgraphStep
  <2> DEFINE rest(e) == [call EXCEPT !.links = @ \ {e}]
  <2>1. PICK e \in call.links :
          IF e.to \in DOMAIN call.visited THEN ~err /\ Reply(FALSE, rest(e))
          ELSE Reply(err, IF Missing(err, e.to) THEN rest(e)
                          ELSE [rest(e) EXCEPT !.cur = {e.to}, !.pc = "edges"])
    BY <1>10 DEF Follow
  <2>2. DOMAIN call.visited = Known(call) /\ call.pc = "each"
    BY <1>0, <1>10 DEF QueueType, op, Follow
  <2>3. CASE e.to \in Known(call) \/ Missing(err, e.to)
    <3>1. call' = rest(e)
      BY <2>1, <2>2, <2>3 DEF Reply
    <3>2. e.to \in Known(call) \/ (~seen'.failed => ~Exists(db, e.to))
      <4>1. CASE e.to \notin Known(call)
        <5>1. Missing(err, e.to) /\ (~seen'.failed => ~err)
          BY <1>4, <2>1, <2>2, <2>3, <4>1
        <5> QED BY <5>1 DEF Missing
      <4> QED BY <4>1
    <3>3. FollowStep(e)
      BY <1>0, <2>2, <3>1, <3>2 DEF FollowStep, SameAnswer, Locals
    <3> QED BY <3>3 DEF SubgraphStep
  <2>4. CASE e.to \notin Known(call) /\ ~Missing(err, e.to)
    <3>1. call' = [rest(e) EXCEPT !.cur = {e.to}, !.pc = "edges"] /\ Exists(db, e.to)
      BY <2>1, <2>2, <2>4 DEF Reply, Missing
    <3>2. FollowStep(e)
      BY <1>0, <2>2, <2>4, <3>1 DEF FollowStep, SameAnswer, Locals
    <3> QED BY <3>2 DEF SubgraphStep
  <2> QED BY <2>3, <2>4
<1>11. ASSUME Answer PROVE SubgraphStep
  <2>1. /\ call' = [call EXCEPT !.pc = "done", !.status = 200, !.found = call.found]
        /\ call.pc = "each" /\ call.links = {} /\ call.queue = <<>>
    BY <1>11 DEF Answer, Reply
  <2>2. AnswerStep
    <3> DEFINE found == call.found
    <3>1. call' = [call EXCEPT !.pc = "done", !.status = 200, !.found = found]
      BY <2>1
    <3> HIDE DEF found
    <3>2. /\ Locals(call') /\ call'.req = call.req /\ call'.visited = call.visited
          /\ call'.found = found /\ call'.pc = "done" /\ call'.status = 200
          /\ call'.queue = call.queue /\ call'.links = call.links /\ call'.depth = call.depth
          /\ call'.cur = call.cur /\ call'.max = call.max
      BY <1>0, <3>1 DEF Locals
    <3> QED BY <2>1, <3>2 DEF AnswerStep, SameAnswer, found
  <2> QED BY <2>2 DEF SubgraphStep
<1>12. ASSUME NEW err \in BOOLEAN,
              \/ ReadIds(err) \/ ReadCore(err) \/ ReadTime(err) \/ ReadKind(err)
              \/ Drop(err) \/ ReadSurvivors(err) \/ ReadSurvivor(err) \/ Strip(err) \/ Count(err)
       PROVE  FALSE
  BY <1>2, <1>12 DEF ReadIds, ReadCore, ReadTime, ReadKind, Drop, ReadSurvivors,
                     ReadSurvivor, Strip, Count
<1>13. CASE BeginDrop \/ EndStrip
  BY <1>2, <1>13 DEF BeginDrop, EndStrip
<1>14. SubgraphStep
  <2>1. ASSUME NEW err \in BOOLEAN, ReadRoot(err) \/ ReadSize(err) PROVE SubgraphStep
    BY <1>5, <1>6, <2>1 DEF SubgraphStep
  <2> QED BY <1>3, <1>7, <1>8, <1>9, <1>10, <1>11, <1>12, <1>13, <2>1 DEF Next, Reader, Others
<1> QED BY <1>1, <1>14
-----------------------------------------------------------------------------
(* The queue is in the order of the depths, all at the present depth or    *)
(* one more, and nothing is followed beyond the limit.                     *)

Rising(q, v, d) == /\ \A n \in DOMAIN q : d <= v[q[n]]
                   /\ \A m, n \in DOMAIN q : m < n => v[q[m]] <= v[q[n]]

LEMMA RisingTail ==
  ASSUME NEW S, NEW q \in Seq(S), q # <<>>, NEW v, NEW d, Rising(q, v, d), NEW e, e = v[Head(q)],
         e \in Int
  PROVE  Rising(Tail(q), v, e)
<1>1. /\ DOMAIN q = 1..Len(q) /\ Len(q) \in Nat \ {0} /\ Head(q) = q[1]
      /\ DOMAIN Tail(q) = 1..(Len(q) - 1)
      /\ \A n \in 1..(Len(q) - 1) : Tail(q)[n] = q[n + 1]
  OBVIOUS
<1>2. ASSUME NEW n \in DOMAIN Tail(q) PROVE e <= v[Tail(q)[n]]
  <2>1. 1 \in DOMAIN q /\ n + 1 \in DOMAIN q /\ 1 < n + 1 /\ Tail(q)[n] = q[n + 1]
    BY <1>1, <1>2
  <2> QED BY <1>1, <2>1 DEF Rising
<1>3. ASSUME NEW m \in DOMAIN Tail(q), NEW n \in DOMAIN Tail(q), m < n
      PROVE  v[Tail(q)[m]] <= v[Tail(q)[n]]
  <2>1. /\ m + 1 \in DOMAIN q /\ n + 1 \in DOMAIN q /\ m + 1 < n + 1
        /\ Tail(q)[m] = q[m + 1] /\ Tail(q)[n] = q[n + 1]
    BY <1>1, <1>3
  <2> QED BY <2>1 DEF Rising
<1> QED BY <1>2, <1>3 DEF Rising

LEMMA RisingAppend ==
  ASSUME NEW S, NEW q \in Seq(S), NEW v, NEW d \in Int, Rising(q, v, d), NEW x, NEW w,
         w[x] = d + 1, \A s \in S : w[s] = v[s] /\ v[s] <= d + 1
  PROVE  Rising(Append(q, x), w, d)
<1> DEFINE a == Append(q, x)
<1>1. /\ DOMAIN q = 1..Len(q) /\ Len(q) \in Nat
      /\ DOMAIN a = 1..(Len(q) + 1)
      /\ a[Len(q) + 1] = x /\ \A n \in DOMAIN q : a[n] = q[n] /\ q[n] \in S
  OBVIOUS
<1> HIDE DEF a
<1>2. ASSUME NEW n \in DOMAIN a PROVE n \in DOMAIN q \/ (n = Len(q) + 1 /\ w[a[n]] = d + 1)
  BY <1>1, <1>2
<1>3. ASSUME NEW n \in DOMAIN q
      PROVE  w[a[n]] = v[q[n]] /\ d <= v[q[n]] /\ v[q[n]] <= d + 1
  BY <1>1, <1>3 DEF Rising
<1>4. \A n \in DOMAIN a : d <= w[a[n]]
  BY <1>2, <1>3
<1>5. ASSUME NEW m \in DOMAIN a, NEW n \in DOMAIN a, m < n PROVE w[a[m]] <= w[a[n]]
  <2>1. m \in DOMAIN q
    BY <1>1, <1>5
  <2>2. CASE n \in DOMAIN q
    BY <1>3, <1>5, <2>1, <2>2 DEF Rising
  <2>3. CASE n \notin DOMAIN q
    BY <1>2, <1>3, <2>1, <2>3
  <2> QED BY <2>2, <2>3
<1> QED BY <1>4, <1>5 DEF Rising, a

Depths ==
  /\ call.depth \in Int /\ call.depth >= -1 /\ call.max \in Nat
  /\ call.pc \in {"request", "root", "size"} => call.depth = -1 /\ call.links = {}
  /\ call.pc # "request" /\ call.status # 400 => call.req.depth \in Nat
  /\ \A i \in Known(call) : /\ call.visited[i] \in Nat
                            /\ call.visited[i] <= call.depth + 1
                            /\ call.visited[i] <= call.max
  /\ Rising(call.queue, call.visited, call.depth)
  /\ call.pc \in {"edges", "meta"} \/ call.links # {} => call.depth + 1 <= call.max
  /\ call.pc = "size" => call.req.depth <= 0
  /\ (call.pc \in {"edges", "meta", "each"} \/ call.status = 200) /\ call.req.depth > 0 =>
       call.max = call.req.depth

DepthInv == op = "subgraph" => Depths

LEMMA DepthInit == Init => DepthInv
<1> SUFFICES ASSUME Init PROVE Depths
  BY DEF DepthInv
<1>1. PICK c \in Cases : call = Asked(c.req)
  BY DEF Init
<1>2. /\ call.pc = "request" /\ call.depth = -1 /\ call.links = {} /\ call.max = 0
      /\ call.queue = <<>> /\ call.found = {} /\ call.status = 0
  BY <1>1 DEF Asked
<1> QED BY <1>2 DEF Depths, Rising, Known
LEMMA DepthNext == ReadInv /\ DepthInv /\ [Next]_vars => DepthInv'
<1> SUFFICES ASSUME ReadInv, DepthInv, [Next]_vars, op' = "subgraph" PROVE Depths'
  BY DEF DepthInv
<1>0. /\ Locals(call) /\ WellFormed(call.req) /\ Phase(call) /\ db \in Stores
      /\ SetsType(call) /\ CurType(call) /\ FoundType(call) /\ QueueType(call)
  BY DEF ReadInv, PruneInv, StoreInv, TypeInv, CallType
<1>1. CASE Request
  <2>1. /\ call'.req = call.req /\ call.pc = "request"
        /\ call'.found = call.found /\ call'.visited = call.visited
        /\ call'.queue = call.queue /\ call'.links = call.links
        /\ call'.depth = call.depth /\ call'.max = call.max
        /\ IF BadRequest(call.req) THEN call'.pc = "done" /\ call'.status = 400
           ELSE call'.pc = "root" /\ call'.status = call.status
    <3>1. op = "subgraph"
      BY <1>0, <1>1, RequestFacts DEF op
    <3> QED BY <1>0, <1>1, <3>1, RequestFacts
  <2>2. op = "subgraph"
    BY <2>1 DEF op
  <2>3. ~BadRequest(call.req) => call.req.depth \in Nat
    BY <1>0, <2>2 DEF BadRequest, WellFormed, MaxDepthParam, op
  <2>4. Known(call) = {} /\ call.status = 0
    BY <1>0, <2>1 DEF FoundType, Known, SetsType
  <2>5. Known(call') = {}
    BY <2>1, <2>4 DEF Known
  <2>6. Depths
    BY <2>2 DEF DepthInv
  <2> QED BY <2>1, <2>3, <2>4, <2>5, <2>6 DEF Depths
<1> SUFFICES ASSUME ~Request PROVE Depths'
  BY <1>1
<1>2. op = "subgraph"
  <2>1. CASE Reader
    BY <1>0, <2>1, PhaseNext DEF op
  <2>2. CASE Others
    BY <2>2, OthersOnward DEF op, ReadInv, PruneInv, StoreInv
  <2> QED BY <2>1, <2>2 DEF Next, Others
<1>3. call'.req = call.req /\ SubgraphStep /\ Depths
  BY <1>2, SubgraphSteps DEF DepthInv
<1> DEFINE V == Known(call)
<1>4. DOMAIN call.visited = V /\ call.queue \in Seq(V)
  BY <1>0, <1>2 DEF QueueType, op
<1>5. CASE RootStep
  <2>1. Known(call') = V /\ V = {} /\ call'.visited = call.visited /\ call'.queue = call.queue
        /\ call'.links = {} /\ call'.depth = -1 /\ call.req.depth \in Nat /\ call.status = 0
    BY <1>0, <1>3, <1>5 DEF RootStep, SameAnswer, Known, FoundType, SetsType, Depths
  <2>2. Rising(call'.queue, call'.visited, call'.depth)
    BY <1>3, <1>5, <2>1 DEF RootStep, Depths
  <2>3. CASE call'.pc = "done"
    BY <1>3, <1>5, <2>1, <2>2, <2>3 DEF RootStep, Depths
  <2>4. CASE call'.pc # "done"
    BY <1>3, <1>5, <2>1, <2>2, <2>4 DEF RootStep, Depths
  <2> QED BY <2>3, <2>4
<1>6. CASE SizeStep
  <2>1. Known(call') = V /\ V = {} /\ call'.visited = call.visited /\ call'.queue = call.queue
        /\ call'.links = {} /\ call'.depth = -1
    BY <1>0, <1>3, <1>6 DEF SizeStep, SameAnswer, Known, FoundType, Depths
  <2>2. Cardinality(db.ids) \in Nat
    <3>1. db.ids \in SUBSET Id
      BY <1>0 DEF Stores
    <3> QED BY <3>1, IdAssumption, FS_Subset, FS_CardinalityType
  <2>3. Rising(call'.queue, call'.visited, call'.depth)
    BY <1>3, <1>6, <2>1 DEF SizeStep, Depths
  <2>4. call'.max \in Nat /\ call'.pc = "edges" /\ call'.status = 0 /\ call.pc = "size"
    BY <1>0, <1>6, <2>2 DEF SizeStep, SetsType
  <2>5. call'.req.depth \in Nat /\ call'.req.depth <= 0
    BY <1>0, <1>3, <1>6, <2>4 DEF SizeStep, SetsType, Depths
  <2> QED BY <2>1, <2>3, <2>4, <2>5 DEF Depths
<1>7. CASE EdgesStep
  <2>1. Known(call') = V /\ call'.visited = call.visited
    BY <1>7 DEF EdgesStep, SameAnswer, Known
  <2> QED BY <1>3, <1>7, <2>1 DEF EdgesStep, Depths
<1>8. ASSUME NEW x \in Entity, KeepStep(x) PROVE Depths'
  <2>1. Known(call') = V \cup {x.id}
    BY <1>8 DEF KeepStep, Known
  <2>2. /\ call'.visited[x.id] = call.depth + 1
        /\ \A i \in V : call'.visited[i] = call.visited[i]
    BY <1>4, <1>8 DEF KeepStep, Mark
  <2>3. /\ call.depth \in Int /\ call.depth >= -1 /\ call.max \in Nat
        /\ call.depth + 1 <= call.max /\ Rising(call.queue, call.visited, call.depth)
        /\ \A i \in V : /\ call.visited[i] \in Nat
                        /\ call.visited[i] <= call.depth + 1
                        /\ call.visited[i] <= call.max
    BY <1>3, <1>8 DEF KeepStep, Depths
  <2>4. Rising(Append(call.queue, x.id), call'.visited, call.depth)
    <3> HIDE DEF V
    <3> QED BY <1>4, <2>2, <2>3, RisingAppend
  <2>5. \A i \in Known(call') : /\ call'.visited[i] \in Nat
                                /\ call'.visited[i] <= call.depth + 1
                                /\ call'.visited[i] <= call.max
    BY <2>1, <2>2, <2>3
  <2> HIDE DEF V
  <2> QED BY <1>3, <1>8, <2>3, <2>4, <2>5 DEF KeepStep, Depths
<1>9. CASE VisitStep
  <2>1. Known(call') = V /\ call'.visited = call.visited
    BY <1>9 DEF VisitStep, SameAnswer, Known
  <2> DEFINE h == Head(call.queue)
             e == call.visited[h]
  <2>2. h \in V /\ call.queue # <<>> /\ call'.queue = Tail(call.queue) /\ call'.depth = e
    BY <1>4, <1>9, QueueSteps DEF VisitStep
  <2>3. e \in Nat /\ call.depth <= e /\ e <= call.max
    <3>1. h = call.queue[1] /\ 1 \in DOMAIN call.queue
      BY <1>4, <2>2
    <3> QED BY <1>3, <2>2, <3>1 DEF Depths, Rising
  <2>4. Rising(call'.queue, call'.visited, call'.depth)
    <3>1. Rising(call.queue, call.visited, call.depth)
      BY <1>3 DEF Depths
    <3> HIDE DEF V
    <3> QED BY <1>4, <2>1, <2>2, <2>3, <3>1, RisingTail
  <2>5. call'.links # {} => e + 1 <= call.max
    <3>1. call'.links # {} => ~(e >= call.max)
      BY <1>9 DEF VisitStep
    <3> QED BY <1>3, <2>3, <3>1 DEF Depths
  <2>6. \A i \in V : /\ call.visited[i] \in Nat
                     /\ call.visited[i] <= e + 1
                     /\ call.visited[i] <= call.max
    BY <1>3, <2>3 DEF Depths
  <2>7. call'.pc = "each" /\ call.pc = "each" /\ call'.max = call.max /\ call'.status = call.status
    BY <1>9 DEF VisitStep
  <2> HIDE DEF e, h, V
  <2> QED BY <1>3, <2>1, <2>2, <2>3, <2>4, <2>5, <2>6, <2>7 DEF Depths
<1>10. ASSUME NEW e \in call.links, FollowStep(e) PROVE Depths'
  <2>1. Known(call') = V /\ call'.visited = call.visited
    BY <1>10 DEF FollowStep, SameAnswer, Known
  <2> QED BY <1>3, <1>10, <2>1 DEF FollowStep, Depths
<1>11. CASE AnswerStep
  <2>1. Known(call') = V /\ call'.visited = call.visited
    BY <1>11 DEF AnswerStep, SameAnswer, Known
  <2>2. call.status = 0
    BY <1>0, <1>11 DEF AnswerStep, SetsType
  <2> QED BY <1>3, <1>11, <2>1, <2>2 DEF AnswerStep, Depths
<1>12. CASE call' = call
  BY <1>3, <1>12 DEF Depths
<1> QED BY <1>3, <1>5, <1>6, <1>7, <1>8, <1>9, <1>10, <1>11, <1>12 DEF SubgraphStep
-----------------------------------------------------------------------------
(* Whatever the search found it reached, in as many hops as it noted, by   *)
(* entities and edges that were there at some time.                        *)

Root == call.req.id

Real ==
  /\ seen.ever.ids \subseteq Id
  /\ \A i \in Known(call) : i \in Within(seen.ever, Root, call.visited[i])
  /\ \A e \in call.links : /\ e \in seen.ever.edges /\ e.from \in Known(call)
                           /\ call.visited[e.from] = call.depth
  /\ call.pc \in {"size", "edges", "meta"} =>
       \A i \in call.cur : i \in Within(seen.ever, Root, call.depth + 1)
  /\ call.pc = "meta" => \A e \in call.edges : e \in seen.ever.edges /\ e.from \in call.cur
  /\ \A x \in call.found : \A e \in x.edges : e \in seen.ever.edges /\ e.from = x.id
  /\ call.status = 404 => call.found = {}

RealInv == op = "subgraph" => Real

LEMMA RealInit == Init => RealInv
<1> SUFFICES ASSUME Init PROVE Real
  BY DEF RealInv
<1>1. PICK c \in Cases : call = Asked(c.req)
  BY DEF Init
<1>2. call.pc = "request" /\ call.links = {} /\ call.found = {}
  BY <1>1 DEF Asked
<1>3. seen.ever.ids \subseteq Id
  BY DEF Init, Seen, Contents, ExistingIds
<1> QED BY <1>2, <1>3 DEF Real, Known

LEMMA ReachedStays ==
  ASSUME Onward, call'.req = call.req, NEW n \in Nat
  PROVE  Within(seen.ever, Root, n) \subseteq Within(seen'.ever, Root', n)
<1> DEFINE c == seen.ever
           d == seen'.ever
<1>1. c.ids \subseteq d.ids /\ c.edges \subseteq d.edges
  BY DEF Onward
<1> HIDE DEF c, d
<1>2. Within(c, Root, n) \subseteq Within(d, Root, n)
  BY <1>1, WithinGrows
<1> QED BY <1>2 DEF c, d, Root

LEMMA RealNext == ReadInv /\ DepthInv /\ RealInv /\ [Next]_vars => RealInv'
<1> SUFFICES ASSUME ReadInv, DepthInv, RealInv, [Next]_vars, op' = "subgraph" PROVE Real'
  BY DEF RealInv
<1>0. /\ Locals(call) /\ WellFormed(call.req) /\ Phase(call) /\ db \in Stores
      /\ SetsType(call) /\ CurType(call) /\ FoundType(call) /\ QueueType(call) /\ Watched
  BY DEF ReadInv, PruneInv, StoreInv, TypeInv, CallType
<1>1. CASE Request
  <2>1. /\ call'.req = call.req /\ call.pc = "request" /\ call'.found = call.found
        /\ call'.links = call.links /\ call'.pc \in {"done", "root"}
    <3>1. op = "subgraph"
      BY <1>0, <1>1, RequestFacts DEF op
    <3> QED BY <1>0, <1>1, <3>1, RequestFacts
  <2>2. call.found = {} /\ call.links = {}
    BY <1>0, <2>1 DEF FoundType, DepthInv, Depths, op
  <2>3. seen'.ever.ids \subseteq Id
    BY <1>1 DEF Request, Seen, Contents, ExistingIds
  <2> QED BY <2>1, <2>2, <2>3 DEF Real, Known
<1> SUFFICES ASSUME ~Request PROVE Real'
  BY <1>1
<1>2. op = "subgraph"
  <2>1. CASE Reader
    BY <1>0, <2>1, PhaseNext DEF op
  <2>2. CASE Others
    BY <2>2, OthersOnward DEF op, ReadInv, PruneInv, StoreInv
  <2> QED BY <2>1, <2>2 DEF Next, Others
<1>3. call'.req = call.req /\ SubgraphStep /\ Depths /\ Real /\ Onward
  BY <1>2, SubgraphSteps DEF DepthInv, RealInv
<1> DEFINE V == Known(call)
           W(n) == Within(seen.ever, Root, n)
           U(n) == Within(seen'.ever, Root', n)
<1>4. DOMAIN call.visited = V /\ call.queue \in Seq(V)
  BY <1>0, <1>2 DEF QueueType, op
<1>5. /\ seen'.ever.ids \subseteq Id
      /\ seen.ever.ids \subseteq seen'.ever.ids /\ seen.ever.edges \subseteq seen'.ever.edges
  BY <1>3 DEF Onward, Real
<1>6. ASSUME NEW n \in Nat PROVE W(n) \subseteq U(n)
  BY <1>3, <1>6, ReachedStays
<1>7. /\ \A i \in V : call.visited[i] \in Nat /\ i \in U(call.visited[i])
      /\ \A e \in call.links : /\ e \in seen'.ever.edges /\ e.from \in V
                               /\ call.visited[e.from] = call.depth
      /\ call.pc \in {"size", "edges", "meta"} => \A i \in call.cur : i \in U(call.depth + 1)
      /\ call.pc = "meta" => \A e \in call.edges : e \in seen'.ever.edges /\ e.from \in call.cur
      /\ \A x \in call.found : \A e \in x.edges : e \in seen'.ever.edges /\ e.from = x.id
  <2>1. ASSUME NEW i \in V PROVE call.visited[i] \in Nat /\ i \in U(call.visited[i])
    <3>1. call.visited[i] \in Nat /\ i \in W(call.visited[i])
      BY <1>3 DEF Depths, Real
    <3> HIDE DEF W, U
    <3> QED BY <1>6, <3>1
  <2>2. ASSUME call.pc \in {"size", "edges", "meta"}, NEW i \in call.cur
        PROVE  i \in U(call.depth + 1)
    <3>1. call.depth + 1 \in Nat /\ i \in W(call.depth + 1)
      BY <1>3, <2>2 DEF Depths, Real
    <3> HIDE DEF W, U
    <3> QED BY <1>6, <3>1
  <2> HIDE DEF U
  <2> QED BY <1>3, <1>5, <2>1, <2>2 DEF Real
(* A step that leaves the answer alone.                                    *)
<1>8. ASSUME SameAnswer(call, call'),
             \A e \in call'.links : /\ e \in seen'.ever.edges /\ e.from \in V
                                    /\ call.visited[e.from] = call'.depth,
             call'.pc \in {"size", "edges", "meta"} =>
               \A i \in call'.cur : i \in U(call'.depth + 1),
             call'.pc = "meta" => \A e \in call'.edges : e \in seen'.ever.edges /\ e.from \in call'.cur,
             call'.status = 404 => call.found = {}
      PROVE  Real'
  <2>1. Known(call') = V /\ call'.visited = call.visited /\ call'.found = call.found
    BY <1>8 DEF SameAnswer, Known
  <2> QED BY <1>5, <1>7, <1>8, <2>1 DEF Real
<1> HIDE DEF U, W
<1>a. call.pc # "done" => call.status = 0
  BY <1>0 DEF SetsType
<1>9. CASE RootStep
  <2>1. call'.links = {} /\ call.depth = -1 /\ call'.depth = -1
    BY <1>3, <1>9 DEF RootStep, Depths
  <2>2. ASSUME call'.pc # "done", NEW i \in call'.cur PROVE i \in U(0)
    <3>1. i = Root /\ Exists(db, Root)
      BY <1>9, <2>2 DEF RootStep, Root
    <3>2. i \in Id
      BY <1>0, <1>2, <3>1 DEF WellFormed, Root, op
    <3>3. i \in seen.ever.ids
      BY <1>0, <3>1, <3>2 DEF Watched, ExistingIds
    <3>4. i \in W(0)
      BY <3>1, <3>3, WithinZero DEF W
    <3> QED BY <1>6, <3>4
  <2>3. call'.depth + 1 = 0 /\ call'.pc \in {"done", "size", "edges"}
    BY <1>9, <2>1 DEF RootStep
  <2>4. call.found = {}
    BY <1>0, <1>9 DEF RootStep, FoundType
  <2> QED BY <1>8, <1>9, <2>1, <2>2, <2>3, <2>4 DEF RootStep
<1>10. CASE SizeStep
  BY <1>a, <1>7, <1>8, <1>10 DEF SizeStep
<1>11. CASE EdgesStep
  <2>1. PICK i \in call.cur : call'.edges = EdgesOf(db, i)
    BY <1>11 DEF EdgesStep
  <2>2. ASSUME NEW e \in call'.edges PROVE e \in seen'.ever.edges /\ e.from \in call'.cur
    <3>1. e \in seen.ever.edges /\ e.from = i
      BY <1>0, <2>1, <2>2 DEF EdgesOf, Watched
    <3> QED BY <1>5, <1>11, <2>1, <3>1 DEF EdgesStep
  <2> QED BY <1>a, <1>7, <1>8, <1>11, <2>2 DEF EdgesStep
<1>12. ASSUME NEW x \in Entity, KeepStep(x) PROVE Real'
  <2>1. Known(call') = V \cup {x.id} /\ call'.found = call.found \cup {x}
    BY <1>12 DEF KeepStep, Known
  <2>2. /\ call'.visited[x.id] = call.depth + 1
        /\ \A i \in V : call'.visited[i] = call.visited[i]
    BY <1>4, <1>12 DEF KeepStep, Mark
  <2>3. x.id \in U(call.depth + 1)
    BY <1>7, <1>12 DEF KeepStep
  <2>4. \A e \in x.edges : e \in seen'.ever.edges /\ e.from = x.id
    BY <1>7, <1>12 DEF KeepStep
  <2>5. \A i \in Known(call') : i \in U(call'.visited[i])
    BY <1>7, <2>1, <2>2, <2>3
  <2>6. \A e \in call'.links : /\ e \in seen'.ever.edges /\ e.from \in Known(call')
                               /\ call'.visited[e.from] = call'.depth
    BY <1>7, <1>12, <2>1, <2>2 DEF KeepStep
  <2>7. call'.pc = "each" /\ call'.status = 0
    BY <1>a, <1>12 DEF KeepStep
  <2>8. \A y \in call'.found : \A e \in y.edges : e \in seen'.ever.edges /\ e.from = y.id
    BY <1>7, <2>1, <2>4
  <2> QED BY <1>5, <2>5, <2>6, <2>7, <2>8 DEF Real, U
<1>13. CASE VisitStep
  <2>1. PICK x \in call.found :
          /\ x.id = Head(call.queue)
          /\ call'.links = IF call.visited[x.id] >= call.max THEN {} ELSE x.edges
    BY <1>13 DEF VisitStep
  <2>2. \A e \in call'.links : /\ e \in seen'.ever.edges /\ e.from \in V
                               /\ call.visited[e.from] = call'.depth
    <3>1. x.id \in V /\ call'.links \subseteq x.edges /\ call'.depth = call.visited[x.id]
      BY <1>13, <2>1 DEF VisitStep, Known
    <3> QED BY <1>7, <3>1
  <2> QED BY <1>a, <1>8, <1>13, <2>2 DEF VisitStep
<1>14. ASSUME NEW e \in call.links, FollowStep(e) PROVE Real'
  <2>1. ASSUME call'.pc \in {"size", "edges", "meta"}, NEW i \in call'.cur
        PROVE  i \in U(call'.depth + 1)
    <3>1. i = e.to /\ Exists(db, e.to) /\ call'.depth = call.depth
      BY <1>14, <2>1 DEF FollowStep
    <3>2. e.to \in Id
      BY <1>0, EdgeAssumption DEF SetsType
    <3>3. e.to \in seen.ever.ids
      BY <1>0, <3>1, <3>2 DEF Watched, ExistingIds
    <3>4. /\ call.depth \in Nat /\ e.from \in W(call.depth) /\ e \in seen.ever.edges
      BY <1>3 DEF Real, Depths, W
    <3>5. W(call.depth + 1) = OneHop(seen.ever, W(call.depth))
      BY <3>4, WithinNext DEF W
    <3>6. e.to \in W(call.depth + 1)
      BY <3>3, <3>4, <3>5 DEF OneHop
    <3>7. call.depth + 1 \in Nat
      BY <3>4
    <3> QED BY <1>6, <3>1, <3>6, <3>7
  <2>2. call'.pc # "meta"
    BY <1>14 DEF FollowStep
  <2> QED BY <1>a, <1>7, <1>8, <1>14, <2>1, <2>2 DEF FollowStep
<1>15. CASE AnswerStep
  BY <1>7, <1>8, <1>15 DEF AnswerStep
<1>16. CASE call' = call
  <2>1. call.status = 404 => call.found = {}
    BY <1>3 DEF Real
  <2> QED BY <1>0, <1>7, <1>8, <1>16, <2>1 DEF SameAnswer
<1> QED BY <1>3, <1>9, <1>10, <1>11, <1>12, <1>13, <1>14, <1>15, <1>16 DEF SubgraphStep

(* A subgraph holds nothing beyond the depth that was asked for, and no    *)
(* edge that was never there, whatever fails or changes meanwhile.         *)
THEOREM SubgraphInventsNothingCorrect == Spec => []SubgraphInventsNothing
<1>1. ReadInv /\ DepthInv /\ RealInv => SubgraphInventsNothing
  <2> SUFFICES ASSUME ReadInv, DepthInv, RealInv, Done("subgraph")
               PROVE  /\ FoundIds \subseteq Within(seen.ever, call.req.id, Hops)
                      /\ UNION {x.edges : x \in call.found} \subseteq seen.ever.edges
    BY DEF SubgraphInventsNothing
  <2>1. Depths /\ Real /\ call.pc = "done" /\ call.status # 400
    BY DEF Done, DepthInv, RealInv
  <2>2. SetsType(call) /\ QueueType(call)
    BY DEF ReadInv, TypeInv, CallType
  <2>3. UNION {x.edges : x \in call.found} \subseteq seen.ever.edges
    BY <2>1 DEF Real
  <2>4. ASSUME NEW i \in Known(call) PROVE i \in Within(seen.ever, call.req.id, Hops)
    <3> DEFINE n == call.visited[i]
    <3>1. n \in Nat /\ n <= call.max /\ i \in Within(seen.ever, Root, n) /\ call.req.depth \in Nat
      BY <2>1 DEF Depths, Real
    <3> HIDE DEF n
    <3>2. CASE call.req.depth > 0 /\ call.status = 200
      <4>1. Hops = call.max /\ call.max \in Nat
        BY <2>1, <3>1, <3>2 DEF Depths, Hops
      <4>2. Within(seen.ever, Root, n) \subseteq Within(seen.ever, Root, Hops)
        BY <3>1, <4>1, WithinMore
      <4> QED BY <3>1, <4>2 DEF Root
    <3>3. CASE call.req.depth <= 0
      <4> DEFINE c == seen.ever
      <4>1. Hops = Cardinality(Id) /\ c.ids \in SUBSET Id
        BY <2>1, <3>1, <3>3 DEF Hops, Real
      <4>2. IsFiniteSet(c.ids) /\ Cardinality(c.ids) <= Cardinality(Id)
        BY <4>1, IdAssumption, FS_Subset
      <4>3. Cardinality(c.ids) \in Nat /\ Cardinality(Id) \in Nat
        BY <4>2, IdAssumption, FS_CardinalityType
      <4> HIDE DEF c
      <4>4. Within(c, Root, n) \subseteq Within(c, Root, Cardinality(c.ids))
        BY <3>1, <4>2, WithinSettles
      <4>5. Within(c, Root, Cardinality(c.ids)) \subseteq Within(c, Root, Cardinality(Id))
        BY <4>2, <4>3, WithinMore
      <4> QED BY <3>1, <4>1, <4>4, <4>5 DEF c, Root
    <3>4. CASE call.status # 200
      BY <2>1, <2>2, <3>4 DEF SetsType, Real, Known
    <3> QED BY <3>1, <3>2, <3>3, <3>4
  <2> QED BY <2>3, <2>4, AnswerIds
<1> QED BY <1>1, ReadInit, ReadNext, DepthInit, DepthNext, RealInit, RealNext, PTL DEF Spec
-----------------------------------------------------------------------------
(* Unless a read failed, every edge that was there all the time, from an   *)
(* entity that was found to one that was listed all the time, is attended  *)
(* to: its entity is still to be visited or as deep as may be, or its      *)
(* target was found as near as it is, or it is being followed.             *)

Attended(e) ==
  \/ e.from \in Range(call.queue)
  \/ call.visited[e.from] >= call.max
  \/ e.to \in Known(call) /\ call.visited[e.to] <= call.visited[e.from] + 1
  \/ call.visited[e.from] = call.depth /\ (e \in call.links \/ e.to \in call.cur)

Thorough ==
  /\ call.pc \in {"size", "edges", "meta"} /\ Root \notin Known(call) =>
       call.cur = {Root} /\ call.depth = -1
  /\ call.pc = "each" \/ call.status = 200 => Root \in Known(call)
  /\ Root \in Known(call) => call.visited[Root] = 0
  /\ call.pc = "meta" => \A e \in seen.steady.edges : e.from \in call.cur => e \in call.edges
  /\ \A x \in call.found, e \in seen.steady.edges : e.from = x.id => e \in x.edges
  /\ \A e \in seen.steady.edges :
       e.from \in Known(call) /\ e.to \in seen.steady.ids => Attended(e)
  /\ call.status = 404 => Root \notin seen.steady.ids
  /\ (call.pc \in {"edges", "meta", "each"} \/ call.status = 200) /\ call.req.depth <= 0 =>
       Cardinality(seen.steady.ids) <= call.max

ThoroughInv == op = "subgraph" /\ ~seen.failed => Thorough

LEMMA ThoroughInit == Init => ThoroughInv
<1> SUFFICES ASSUME Init PROVE Thorough
  BY DEF ThoroughInv
<1>1. PICK c \in Cases : call = Asked(c.req)
  BY DEF Init
<1>2. call.pc = "request" /\ call.found = {} /\ call.status = 0
  BY <1>1 DEF Asked
<1> QED BY <1>2 DEF Thorough, Known

LEMMA QueueRange ==
  ASSUME NEW S, NEW q \in Seq(S)
  PROVE  /\ q # <<>> => Range(q) \subseteq Range(Tail(q)) \cup {Head(q)}
         /\ \A x \in S : Range(Append(q, x)) = Range(q) \cup {x}
<1>1. ASSUME q # <<>>, NEW n \in DOMAIN q PROVE q[n] \in Range(Tail(q)) \cup {Head(q)}
  <2>1. /\ DOMAIN q = 1..Len(q) /\ Len(q) \in Nat /\ Head(q) = q[1]
        /\ DOMAIN Tail(q) = 1..(Len(q) - 1)
        /\ \A k \in 1..(Len(q) - 1) : Tail(q)[k] = q[k + 1]
    BY <1>1
  <2>2. CASE n # 1
    <3>1. n - 1 \in DOMAIN Tail(q) /\ Tail(q)[n - 1] = q[n]
      BY <1>1, <2>1, <2>2
    <3> QED BY <3>1 DEF Range
  <2> QED BY <2>1, <2>2
<1>2. ASSUME NEW x \in S PROVE Range(Append(q, x)) = Range(q) \cup {x}
  <2>1. /\ DOMAIN q = 1..Len(q) /\ Len(q) \in Nat
        /\ DOMAIN Append(q, x) = 1..(Len(q) + 1)
        /\ Append(q, x)[Len(q) + 1] = x /\ \A k \in 1..Len(q) : Append(q, x)[k] = q[k]
    OBVIOUS
  <2>2. DOMAIN Append(q, x) = DOMAIN q \cup {Len(q) + 1}
    BY <2>1
  <2> QED BY <2>1, <2>2 DEF Range
<1> QED BY <1>1, <1>2 DEF Range

LEMMA SteadySize ==
  ASSUME Watched, db \in Stores
  PROVE  Cardinality(seen.steady.ids) \in Nat /\ Cardinality(seen.steady.ids) <= Cardinality(db.ids)
         /\ IsFiniteSet(seen.steady.ids)
<1>1. seen.steady.ids \in SUBSET db.ids /\ db.ids \in SUBSET Id
  BY DEF Watched, ListedIds, Listed, Stores
<1>2. IsFiniteSet(db.ids)
  BY <1>1, IdAssumption, FS_Subset
<1> QED BY <1>1, <1>2, FS_Subset, FS_CardinalityType

LEMMA ThoroughNext == ReadInv /\ DepthInv /\ RealInv /\ ThoroughInv /\ [Next]_vars => ThoroughInv'
<1> SUFFICES ASSUME ReadInv, DepthInv, RealInv, ThoroughInv, [Next]_vars, op' = "subgraph",
                    ~seen'.failed
             PROVE  Thorough'
  BY DEF ThoroughInv
<1>0. /\ Locals(call) /\ WellFormed(call.req) /\ Phase(call) /\ db \in Stores
      /\ SetsType(call) /\ CurType(call) /\ FoundType(call) /\ QueueType(call) /\ Watched
  BY DEF ReadInv, PruneInv, StoreInv, TypeInv, CallType
<1>1. CASE Request
  <2>1. /\ call'.req = call.req /\ call.pc = "request" /\ call'.found = call.found
        /\ call'.pc \in {"done", "root"} /\ call'.status \in {400, call.status}
    <3>1. op = "subgraph"
      BY <1>0, <1>1, RequestFacts DEF op
    <3> QED BY <1>0, <1>1, <3>1, RequestFacts
  <2>2. call.found = {} /\ call.status = 0
    BY <1>0, <2>1 DEF FoundType, SetsType
  <2> QED BY <2>1, <2>2 DEF Thorough, Known
<1> SUFFICES ASSUME ~Request PROVE Thorough'
  BY <1>1
<1>2. op = "subgraph"
  <2>1. CASE Reader
    BY <1>0, <2>1, PhaseNext DEF op
  <2>2. CASE Others
    BY <2>2, OthersOnward DEF op, ReadInv, PruneInv, StoreInv
  <2> QED BY <2>1, <2>2 DEF Next, Others
<1>3. call'.req = call.req /\ SubgraphStep /\ Depths /\ Real /\ Onward
  BY <1>2, SubgraphSteps DEF DepthInv, RealInv
<1>4. Thorough
  BY <1>2, <1>3 DEF ThoroughInv, Onward
<1> DEFINE V == Known(call)
           steady == seen'.steady
<1>5. DOMAIN call.visited = V /\ call.queue \in Seq(V) /\ Root' = Root
  BY <1>0, <1>2, <1>3 DEF QueueType, op, Root
<1>6. /\ steady.ids \subseteq seen.steady.ids /\ steady.edges \subseteq seen.steady.edges
  BY <1>3 DEF Onward
<1>7. Cardinality(steady.ids) <= Cardinality(seen.steady.ids) /\ Cardinality(steady.ids) \in Nat
  <2>1. steady.ids \in SUBSET seen.steady.ids
    BY <1>6
  <2>2. IsFiniteSet(seen.steady.ids)
    BY <1>0, SteadySize
  <2> QED BY <2>1, <2>2, FS_Subset, FS_CardinalityType
<1>8. /\ call.pc \in {"size", "edges", "meta"} /\ Root \notin V => call.cur = {Root} /\ call.depth = -1
      /\ call.pc = "each" \/ call.status = 200 => Root \in V
      /\ Root \in V => call.visited[Root] = 0
      /\ call.pc = "meta" => \A e \in steady.edges : e.from \in call.cur => e \in call.edges
      /\ \A x \in call.found, e \in steady.edges : e.from = x.id => e \in x.edges
      /\ \A e \in steady.edges : e.from \in V /\ e.to \in steady.ids => Attended(e)
      /\ call.status = 404 => Root \notin steady.ids
      /\ (call.pc \in {"edges", "meta", "each"} \/ call.status = 200) /\ call.req.depth <= 0 =>
           Cardinality(steady.ids) <= call.max
  <2>1. ASSUME call.pc \in {"edges", "meta", "each"} \/ call.status = 200, call.req.depth <= 0
        PROVE  Cardinality(steady.ids) <= call.max
    <3>1. Cardinality(seen.steady.ids) <= call.max
      BY <1>4, <2>1 DEF Thorough
    <3> QED BY <1>0, <1>3, <1>7, <3>1, SteadySize DEF Depths
  <2> QED BY <1>4, <1>6, <2>1 DEF Thorough
<1>9. call.pc # "done" => call.status = 0
  BY <1>0 DEF SetsType
<1> HIDE DEF steady
(* A step that leaves the answer alone.                                    *)
<1>10. ASSUME SameAnswer(call, call'),
              call'.pc \in {"size", "edges", "meta"} /\ Root \notin V =>
                call'.cur = {Root} /\ call'.depth = -1,
              call'.pc = "each" \/ call'.status = 200 => Root \in V,
              call'.pc = "meta" => \A e \in steady.edges : e.from \in call'.cur => e \in call'.edges,
              \A e \in steady.edges : e.from \in V /\ e.to \in steady.ids => Attended(e)',
              call'.status = 404 => Root \notin steady.ids,
              (call'.pc \in {"edges", "meta", "each"} \/ call'.status = 200) /\ call.req.depth <= 0 =>
                Cardinality(steady.ids) <= call'.max
       PROVE  Thorough'
  <2>1. Known(call') = V /\ call'.visited = call.visited /\ call'.found = call.found
    BY <1>10 DEF SameAnswer, Known
  <2> QED BY <1>3, <1>5, <1>8, <1>10, <2>1 DEF Thorough, steady
<1>11. CASE RootStep
  <2>1. V = {} /\ call.depth = -1
    BY <1>0, <1>3, <1>11 DEF RootStep, FoundType, Known, Depths
  <2>2. CASE call'.pc = "done"
    <3>1. ~Exists(db, Root) /\ call'.status = 404
      BY <1>11, <2>2 DEF RootStep, Root
    <3>2. Root \notin steady.ids
      BY <1>0, <1>6, <3>1 DEF Watched, ListedIds, Listed
    <3> QED BY <1>10, <1>11, <2>1, <2>2, <3>1, <3>2 DEF RootStep
  <2>3. CASE call'.pc # "done"
    <3>1. call'.cur = {Root} /\ call'.depth = -1 /\ call'.status = 0
          /\ call'.pc = (IF call.req.depth <= 0 THEN "size" ELSE "edges")
      BY <1>9, <1>11, <2>1, <2>3 DEF RootStep, Root
    <3> QED BY <1>10, <1>11, <2>1, <3>1 DEF RootStep
  <2> QED BY <2>2, <2>3
<1>12. CASE SizeStep
  <2>1. V = {}
    BY <1>0, <1>12 DEF SizeStep, FoundType, Known
  <2>2. Cardinality(steady.ids) <= call'.max
    <3>1. /\ Cardinality(seen.steady.ids) <= Cardinality(db.ids)
          /\ Cardinality(seen.steady.ids) \in Nat /\ Cardinality(db.ids) \in Nat
      <4>1. db.ids \in SUBSET Id
        BY <1>0 DEF Stores
      <4>2. Cardinality(db.ids) \in Nat
        BY <4>1, IdAssumption, FS_Subset, FS_CardinalityType
      <4> QED BY <1>0, <4>2, SteadySize
    <3>2. call'.max = Cardinality(db.ids)
      BY <1>12 DEF SizeStep
    <3> QED BY <1>7, <3>1, <3>2
  <2>3. call'.pc = "edges" /\ call'.status = 0 /\ call.pc = "size" /\ call'.cur = call.cur
        /\ call'.depth = call.depth /\ SameAnswer(call, call')
    BY <1>9, <1>12 DEF SizeStep
  <2> QED BY <1>8, <1>10, <2>1, <2>2, <2>3
<1>13. CASE EdgesStep
  <2>1. PICK i \in call.cur : call'.edges = EdgesOf(db, i)
    BY <1>13 DEF EdgesStep
  <2>2. \A e \in steady.edges : e.from \in call'.cur => e \in call'.edges
    <3>1. call.cur = {i} /\ call'.cur = call.cur
      BY <1>0, <1>13, <2>1 DEF EdgesStep, CurType
    <3> QED BY <1>0, <1>6, <2>1, <3>1 DEF Watched, EdgesOf
  <2>3. Known(call') = V /\ call'.visited = call.visited /\ call'.queue = call.queue
        /\ call'.links = call.links /\ call'.depth = call.depth /\ call'.cur = call.cur
        /\ call'.max = call.max
    BY <1>13 DEF EdgesStep, SameAnswer, Known
  <2>4. \A e : Attended(e) => Attended(e)'
    BY <2>3 DEF Attended
  <2>5. call'.pc = "meta" /\ call'.status = 0 /\ call.pc = "edges" /\ SameAnswer(call, call')
    BY <1>9, <1>13 DEF EdgesStep
  <2> QED BY <1>8, <1>10, <2>2, <2>3, <2>4, <2>5
<1>14. ASSUME NEW x \in Entity, KeepStep(x) PROVE Thorough'
  <2>1. Known(call') = V \cup {x.id} /\ call'.found = call.found \cup {x}
    BY <1>14 DEF KeepStep, Known
  <2>2. /\ call'.visited[x.id] = call.depth + 1
        /\ \A i \in V : call'.visited[i] = call.visited[i]
    BY <1>5, <1>14 DEF KeepStep, Mark
  <2>3. /\ call.pc = "meta" /\ x.edges = call.edges /\ call.cur = {x.id} /\ x.id \notin V
        /\ call'.cur = {} /\ call'.links = call.links /\ call'.depth = call.depth
        /\ call'.max = call.max /\ call'.status = 0 /\ call'.pc = "each"
        /\ call'.queue = Append(call.queue, x.id)
    BY <1>9, <1>14 DEF KeepStep
  <2>4. Range(call'.queue) = Range(call.queue) \cup {x.id}
    <3> DEFINE S == V \cup {x.id}
    <3>1. call.queue \in Seq(S) /\ x.id \in S
      BY <1>5
    <3> HIDE DEF S
    <3> QED BY <2>3, <3>1, QueueRange
  <2>5. Root \in Known(call') /\ call'.visited[Root] = 0
    <3>1. CASE Root \in V
      BY <1>8, <2>1, <2>2, <3>1
    <3>2. CASE Root \notin V
      <4>1. Root = x.id /\ call.depth = -1
        BY <1>8, <2>3, <3>2, ZenonT(60)
      <4> QED BY <2>1, <2>2, <4>1
    <3> QED BY <3>1, <3>2
  <2>6. \A y \in call'.found, e \in steady.edges : e.from = y.id => e \in y.edges
    <3>1. \A e \in steady.edges : e.from = x.id => e \in x.edges
      BY <1>8, <2>3
    <3> QED BY <1>8, <2>1, <3>1
  <2>7. ASSUME NEW e \in steady.edges, e.from \in Known(call'), e.to \in steady.ids
        PROVE  Attended(e)'
    <3>1. CASE e.from = x.id
      BY <2>4, <3>1 DEF Attended
    <3>2. CASE e.from # x.id
      <4>1. e.from \in V /\ Attended(e) /\ call'.visited[e.from] = call.visited[e.from]
        BY <1>8, <2>1, <2>2, <2>7, <3>2
      <4>2. CASE e.from \in Range(call.queue)
        BY <2>4, <4>2 DEF Attended
      <4>3. CASE call.visited[e.from] >= call.max
        BY <2>3, <4>1, <4>3 DEF Attended
      <4>4. CASE e.to \in V /\ call.visited[e.to] <= call.visited[e.from] + 1
        BY <2>1, <2>2, <4>1, <4>4 DEF Attended
      <4>5. CASE call.visited[e.from] = call.depth /\ e \in call.links
        BY <2>3, <4>1, <4>5 DEF Attended
      <4>6. CASE call.visited[e.from] = call.depth /\ e.to \in call.cur
        <5>1. e.to = x.id /\ call.depth \in Int
          BY <1>3, <2>3, <4>6 DEF Depths
        <5> QED BY <2>1, <2>2, <4>1, <4>6, <5>1 DEF Attended
      <4> QED BY <4>1, <4>2, <4>3, <4>4, <4>5, <4>6 DEF Attended
    <3> QED BY <3>1, <3>2
  <2>8. call.req.depth <= 0 => Cardinality(steady.ids) <= call'.max
    BY <1>8, <2>3
  <2> QED BY <1>3, <1>5, <2>3, <2>5, <2>6, <2>7, <2>8 DEF Thorough, steady
<1>15. CASE VisitStep
  <2>1. PICK x \in call.found :
          /\ x.id = Head(call.queue)
          /\ call'.links = IF call.visited[x.id] >= call.max THEN {} ELSE x.edges
    BY <1>15 DEF VisitStep
  <2>2. /\ call.pc = "each" /\ call.links = {} /\ call.cur = {} /\ call.queue # <<>>
        /\ call'.queue = Tail(call.queue) /\ call'.depth = call.visited[x.id]
        /\ call'.max = call.max /\ call'.pc = "each" /\ call'.status = 0
        /\ SameAnswer(call, call') /\ call'.visited = call.visited /\ Known(call') = V
    BY <1>0, <1>9, <1>15, <2>1 DEF VisitStep, CurType, SameAnswer, Known
  <2>3. Range(call.queue) \subseteq Range(call'.queue) \cup {x.id}
    <3> HIDE DEF V
    <3> QED BY <1>5, <2>1, <2>2, QueueRange
  <2>4. ASSUME NEW e \in steady.edges, e.from \in V, e.to \in steady.ids PROVE Attended(e)'
    <3>1. Attended(e)
      BY <1>8, <2>4
    <3>2. CASE e.from = x.id
      <4>1. e \in x.edges
        BY <1>8, <2>1, <3>2
      <4> QED BY <2>1, <2>2, <3>2, <4>1 DEF Attended
    <3>3. CASE e.from # x.id
      BY <2>2, <2>3, <3>1, <3>3 DEF Attended
    <3> QED BY <3>2, <3>3
  <2> QED BY <1>8, <1>10, <2>2, <2>4
<1>16. ASSUME NEW l \in call.links, FollowStep(l) PROVE Thorough'
  <2>1. /\ call.pc = "each" /\ call.cur = {} /\ call'.links = call.links \ {l}
        /\ call'.queue = call.queue /\ call'.depth = call.depth
        /\ call'.max = call.max /\ call'.pc \in {"each", "edges"} /\ call'.status = 0
        /\ SameAnswer(call, call') /\ call'.visited = call.visited /\ Known(call') = V
    BY <1>0, <1>9, <1>16 DEF FollowStep, CurType, SameAnswer, Known
  <2>2. ASSUME NEW e \in steady.edges, e.from \in V, e.to \in steady.ids PROVE Attended(e)'
    <3>1. Attended(e)
      BY <1>8, <2>2
    <3>2. CASE e = l /\ call.visited[e.from] = call.depth
      <4>1. CASE e.to \in V
        <5>1. call.visited[e.to] <= call.depth + 1
          BY <1>3, <4>1 DEF Depths
        <5> QED BY <2>1, <3>2, <4>1, <5>1 DEF Attended
      <4>2. CASE e.to \notin V
        <5>1. Exists(db, e.to)
          BY <1>0, <1>6, <2>2 DEF Watched, ListedIds, Listed
        <5>2. call'.cur = {e.to}
          BY <1>16, <3>2, <4>2, <5>1 DEF FollowStep
        <5> QED BY <2>1, <3>2, <5>2 DEF Attended
      <4> QED BY <4>1, <4>2
    <3>3. CASE ~(e = l /\ call.visited[e.from] = call.depth)
      BY <2>1, <3>1, <3>3 DEF Attended
    <3> QED BY <3>2, <3>3
  <2> QED BY <1>8, <1>10, <2>1, <2>2
<1>17. CASE AnswerStep
  <2>1. Known(call') = V /\ call'.visited = call.visited /\ call'.queue = call.queue
        /\ call'.links = call.links /\ call'.depth = call.depth /\ call'.cur = call.cur
        /\ call'.max = call.max /\ call'.pc = "done" /\ call'.status = 200 /\ call.pc = "each"
        /\ SameAnswer(call, call')
    BY <1>17 DEF AnswerStep, SameAnswer, Known
  <2>2. \A e : Attended(e) => Attended(e)'
    BY <2>1 DEF Attended
  <2> QED BY <1>8, <1>10, <2>1, <2>2
<1>18. CASE call' = call
  <2>1. SameAnswer(call, call') /\ \A e : Attended(e) => Attended(e)'
    BY <1>0, <1>18 DEF SameAnswer, Attended
  <2> QED BY <1>8, <1>10, <1>18, <2>1
<1> QED BY <1>3, <1>11, <1>12, <1>13, <1>14, <1>15, <1>16, <1>17, <1>18 DEF SubgraphStep
(* What can be reached in so many hops was found no further away.          *)
LEMMA ReachedIsFound ==
  ASSUME Depths, Thorough, call.queue = <<>>, call.links = {}, call.cur = {}, call.status = 200,
         NEW n \in Nat, n <= call.max, NEW i \in Within(seen.steady, Root, n)
  PROVE  i \in Known(call)
<1> DEFINE W(k) == Within(seen.steady, Root, k)
           V == Known(call)
           T == {k \in 0..n : \A j \in W(k) : j \in V /\ call.visited[j] <= k}
<1>1. 0 \in T
  <2>1. W(0) = seen.steady.ids \cap {Root}
    BY WithinZero
  <2>2. Root \in V /\ call.visited[Root] = 0
    BY DEF Thorough
  <2> QED BY <2>1, <2>2
<1>2. ASSUME NEW k \in 1..n, k - 1 \in T PROVE k \in T
  <2>1. k - 1 \in Nat /\ k = (k - 1) + 1 /\ k - 1 < call.max
    BY DEF Depths
  <2>2. W(k) = OneHop(seen.steady, W(k - 1))
    BY <2>1, WithinNext
  <2>3. \A j \in W(k - 1) : j \in V /\ call.visited[j] <= k - 1
    BY <1>2
  <2> HIDE DEF W
  <2>4. ASSUME NEW j \in W(k) PROVE j \in V /\ call.visited[j] <= k
    <3>1. CASE j \in W(k - 1)
      BY <2>1, <2>3, <3>1 DEF Depths
    <3>2. CASE j \notin W(k - 1)
      <4>1. PICK e \in seen.steady.edges : e.from \in W(k - 1) /\ e.to = j /\ j \in seen.steady.ids
        BY <2>2, <3>2 DEF OneHop
      <4>2. e.from \in V /\ call.visited[e.from] <= k - 1 /\ call.visited[e.from] \in Nat
        BY <2>3, <4>1 DEF Depths
      <4>3. Attended(e)
        BY <4>1, <4>2 DEF Thorough
      <4>4. Range(call.queue) = {}
        BY DEF Range
      <4>5. ~(call.visited[e.from] >= call.max)
        BY <2>1, <4>2 DEF Depths
      <4>6. j \in V /\ call.visited[j] <= call.visited[e.from] + 1
        BY <4>1, <4>3, <4>4, <4>5 DEF Attended
      <4>7. call.visited[j] \in Nat
        BY <4>6 DEF Depths
      <4> QED BY <4>2, <4>6, <4>7
    <3> QED BY <3>1, <3>2
  <2> QED BY <2>4
<1> HIDE DEF T
<1>3. n \in T
  <2>1. 0..n \subseteq T
    BY ONLY n \in Nat, <1>1, <1>2, UpTo
  <2> QED BY <2>1
<1> QED BY <1>3 DEF T

(* The search ends with nothing left to follow.                            *)
Ended == op = "subgraph" /\ call.status = 200 =>
           call.queue = <<>> /\ call.links = {} /\ call.cur = {}

LEMMA EndedInit == Init => Ended
BY DEF Init, Asked, Ended

LEMMA EndedNext == ReadInv /\ Ended /\ [Next]_vars => Ended'
<1> SUFFICES ASSUME ReadInv, Ended, [Next]_vars, op' = "subgraph", call'.status = 200
             PROVE  call'.queue = <<>> /\ call'.links = {} /\ call'.cur = {}
  BY DEF Ended
<1>0. /\ Locals(call) /\ WellFormed(call.req) /\ Phase(call) /\ SetsType(call) /\ CurType(call)
  BY DEF ReadInv, PruneInv, StoreInv, TypeInv, CallType
<1>1. ~Request
  <2>1. ASSUME Request PROVE FALSE
    <3>1. call.pc = "request" /\ call'.status \in {400, call.status}
      BY <1>0, <2>1, RequestFacts
    <3> QED BY <1>0, <3>1 DEF SetsType
  <2> QED BY <2>1
<1>2. op = "subgraph"
  <2>1. CASE Reader
    BY <1>0, <2>1, PhaseNext DEF op
  <2>2. CASE Others
    BY <2>2, OthersOnward DEF op, ReadInv, PruneInv, StoreInv
  <2> QED BY <2>1, <2>2 DEF Next, Others
<1>3. SubgraphStep
  BY <1>1, <1>2, SubgraphSteps
<1>4. call.status = 200 \/ call.pc = "done" \/ call.status = 0
  BY <1>0 DEF SetsType
<1>5. CASE AnswerStep
  BY <1>0, <1>5 DEF AnswerStep, CurType
<1>6. CASE call' = call
  BY <1>2, <1>6 DEF Ended
<1>7. CASE RootStep \/ SizeStep \/ EdgesStep
  BY <1>0, <1>7 DEF RootStep, SizeStep, EdgesStep, SetsType
<1>8. CASE VisitStep
  BY <1>0, <1>8 DEF VisitStep, SetsType
<1>9. ASSUME NEW x \in Entity, KeepStep(x) PROVE FALSE
  BY <1>0, <1>9 DEF KeepStep, SetsType
<1>10. ASSUME NEW e \in call.links, FollowStep(e) PROVE FALSE
  BY <1>0, <1>10 DEF FollowStep, SetsType
<1> QED BY <1>3, <1>5, <1>6, <1>7, <1>8, <1>9, <1>10 DEF SubgraphStep

(* A subgraph misses nothing that can be reached, within the depth that    *)
(* was asked for, by entities and edges that are there during the whole    *)
(* request, however much comes and goes around them, unless a read failed. *)
THEOREM SubgraphFindsCorrect == Spec => []SubgraphFinds
<1>1. ReadInv /\ DepthInv /\ ThoroughInv /\ Ended => SubgraphFinds
  <2> SUFFICES ASSUME ReadInv, DepthInv, ThoroughInv, Ended, Done("subgraph"), ~seen.failed,
                      NEW i \in Within(seen.steady, Root, Hops)
               PROVE  i \in FoundIds
    BY DEF SubgraphFinds, Root
  <2>1. Depths /\ Thorough /\ op = "subgraph" /\ call.pc = "done" /\ call.status # 400
    BY DEF Done, DepthInv, ThoroughInv
  <2>2. SetsType(call) /\ Watched /\ db \in Stores
    BY DEF ReadInv, TypeInv, CallType, PruneInv, StoreInv
  <2>3. call.req.depth \in Nat /\ Hops \in Nat
    <3>1. Cardinality(Id) \in Nat
      BY IdAssumption, FS_CardinalityType
    <3> QED BY <2>1, <3>1 DEF Depths, Hops
  <2>4. CASE call.status = 404
    <3> DEFINE c == seen.steady
    <3>1. Root \notin c.ids
      BY <2>1, <2>4 DEF Thorough
    <3> HIDE DEF c
    <3>2. Within(c, Root, Hops) = {}
      BY <2>3, <3>1, WithinNothing
    <3> QED BY <3>2 DEF c
  <2>5. CASE call.status = 200
    <3>1. call.queue = <<>> /\ call.links = {} /\ call.cur = {}
      BY <2>1, <2>5 DEF Ended
    <3>2. CASE call.req.depth > 0
      <4>1. Hops = call.max /\ call.max \in Nat
        BY <2>1, <2>3, <2>5, <3>2 DEF Depths, Hops
      <4> QED BY <2>1, <2>3, <2>5, <3>1, <4>1, ReachedIsFound, AnswerIds
    <3>3. CASE call.req.depth <= 0
      <4> DEFINE n == Cardinality(seen.steady.ids)
      <4>1. n \in Nat /\ n <= call.max /\ IsFiniteSet(seen.steady.ids)
        BY <2>1, <2>2, <2>5, <3>3, SteadySize DEF Thorough
      <4>2. i \in Within(seen.steady, Root, n)
        BY <2>3, <4>1, WithinSettles
      <4> HIDE DEF n
      <4> QED BY <2>1, <2>5, <3>1, <4>1, <4>2, ReachedIsFound, AnswerIds
    <3> QED BY <2>3, <3>2, <3>3
  <2> QED BY <2>1, <2>2, <2>4, <2>5 DEF SetsType
<1> QED BY <1>1, ReadInit, ReadNext, DepthInit, DepthNext, RealInit, RealNext,
           ThoroughInit, ThoroughNext, EndedInit, EndedNext, PTL DEF Spec

-----------------------------------------------------------------------------
(* What Prune takes.                                                       *)

Among(c, s) == \E n \in DOMAIN s : s[n] = c

(* Of an operation of a writer the DEL comes first.                        *)
NoDel == \A i : ~Among(Del(i), pipe)

(* The commands in hand are for an entity that is not in the list of those *)
(* to come, and there is nothing to drop before the times are read.        *)
Orderly ==
  /\ call.pc # "drop" => call.cmds = <<>>
  /\ call.pc \in {"kind", "drop"} => \A i \in call.ids : ~Among(Del(i), call.cmds)
  /\ call.pc \in {"request", "ids"} => call.dropped = {}

(* Counted as too old and not written since.                               *)
Doomed == call.dropped \ seen.added.ids

(* An entity is to be dropped still, or was, or is being dropped.          *)
ToCome(i) == call.pc = "each" \/ (call.pc \in {"kind", "drop"} /\ i \in call.ids)

Kindless(i) == i \notin db.byKind \/ Among(SRemKind(i), pipe)

Goes(i) ==
  /\ ToCome(i) => Exists(db, i) \/ Kindless(i)
  /\ ~ToCome(i) => /\ ~Exists(db, i) \/ Among(Del(i), call.cmds)
                   /\ i \notin db.ids \/ Among(SRemId(i), call.cmds)
                   /\ Kindless(i) \/ Among(SRemKind(i), call.cmds)

(* The edges to what was dropped are stripped, or the survivor they are of *)
(* is still to be read, or they are in hand.                               *)
Dangles(e) == e.to \in Doomed /\ e.from \in seen.steady.ids /\ e \notin seen.added.edges

Stripped ==
  /\ call.pc = "strip" =>
       \A e \in db.edges : Dangles(e) => e.from \in call.ids \/ e \in call.links
  /\ call.pc \in {"count", "done"} => \A e \in db.edges : ~Dangles(e)

Gone == (\A i \in Doomed : Goes(i)) /\ Stripped

GoneInv == /\ NoDel
           /\ op = "prune" => Orderly /\ (~seen.failed => Gone)
-----------------------------------------------------------------------------
(* What the commands do to what is there and to what is not.               *)
Effect(d, c, b, i) ==
  /\ Exists(b, i) => Exists(d, i) \/ (c.op = "HSET" /\ c.id = i)
  /\ i \in b.ids => i \in d.ids \/ (c.op = "SADD ids" /\ c.id = i)
  /\ i \in b.byKind => i \in d.byKind \/ (c.op = "SADD by_kind" /\ c.id = i)
  /\ \A e \in b.edges : e \in d.edges \/ (c.op = "SADD edges" /\ c.edge = e)
  /\ Exists(d, i) => Exists(b, i) \/ c = Del(i)
  /\ c = Del(i) => ~Exists(b, i)
  /\ c = SRemId(i) => i \notin b.ids
  /\ c = SRemKind(i) => i \notin b.byKind
  /\ c.op = "SREM edges" => c.edge \notin b.edges

LEMMA CommandGone ==
  ASSUME NEW d \in Stores, NEW c \in WriterCommands, NEW i \in Id
  PROVE  Effect(d, c, Apply(d, c), i)
<1> DEFINE b == Apply(d, c)
           P == Effect(d, c, b, i)
<1>0. b = Apply(d, c)
  OBVIOUS
<1> HIDE DEF b
<1>1. ASSUME NEW j \in Id, c = HSet(j, Clock) PROVE P
  <2>1. b = [d EXCEPT !.core = [@ EXCEPT ![j] = Clock]]
    BY <1>0, <1>1, HSetEffect
  <2>2. c.op = "HSET" /\ c.id = j /\ c # Del(i) /\ c # SRemId(i) /\ c # SRemKind(i)
    BY <1>1 DEF HSet, Del, SRemId, SRemKind
  <2>3. b.ids = d.ids /\ b.byKind = d.byKind /\ b.edges = d.edges
    BY <2>1 DEF Stores
  <2>4. Exists(d, i) => Exists(b, i)
    BY <2>1 DEF Stores, Exists, Absent, Clock
  <2>5. i # j => b.core[i] = d.core[i]
    BY <2>1 DEF Stores
  <2> QED BY <2>2, <2>3, <2>4, <2>5 DEF Exists, Effect
<1>2. ASSUME NEW j \in Id, NEW md \in Metadata, c = HSetMeta(j, md) PROVE P
  <2>1. b = [d EXCEPT !.meta = [@ EXCEPT ![j] = Merged(d, j, md)]]
    BY <1>0, <1>2, HSetMetaEffect
  <2>2. c.op = "HSET metadata" /\ c # Del(i) /\ c # SRemId(i) /\ c # SRemKind(i)
    BY <1>2 DEF HSetMeta, Del, SRemId, SRemKind
  <2>3. b.ids = d.ids /\ b.byKind = d.byKind /\ b.edges = d.edges /\ b.core = d.core
    BY <2>1 DEF Stores
  <2> QED BY <2>2, <2>3 DEF Exists, Effect
<1>3. ASSUME NEW j \in Id, c = SAddKind(j) PROVE P
  <2>1. b = [d EXCEPT !.byKind = @ \cup {j}]
    BY <1>0, <1>3, SAddKindEffect
  <2>2. c.op = "SADD by_kind" /\ c.id = j /\ c # Del(i) /\ c # SRemId(i) /\ c # SRemKind(i)
    BY <1>3 DEF SAddKind, Del, SRemId, SRemKind
  <2>3. b.core = d.core /\ b.ids = d.ids /\ b.byKind = d.byKind \cup {j} /\ b.edges = d.edges
    BY <2>1 DEF Stores
  <2> QED BY <2>2, <2>3 DEF Exists, Effect
<1>4. ASSUME NEW j \in Id, c = SAddId(j) PROVE P
  <2>1. b = [d EXCEPT !.ids = @ \cup {j}]
    BY <1>0, <1>4, SAddIdEffect
  <2>2. c.op = "SADD ids" /\ c.id = j /\ c # Del(i) /\ c # SRemId(i) /\ c # SRemKind(i)
    BY <1>4 DEF SAddId, Del, SRemId, SRemKind
  <2>3. b.core = d.core /\ b.ids = d.ids \cup {j} /\ b.byKind = d.byKind /\ b.edges = d.edges
    BY <2>1 DEF Stores
  <2> QED BY <2>2, <2>3 DEF Exists, Effect
<1>5. ASSUME NEW j \in Id, c = Del(j) PROVE P
  <2>1. /\ c.op = "DEL" /\ c # SRemId(i) /\ c # SRemKind(i) /\ (c = Del(i) <=> i = j)
    BY <1>5 DEF Del, SRemId, SRemKind
  <2>2. /\ i # j => b.core[i] = d.core[i]
        /\ i = j => b.core[i] = Absent
        /\ b.ids = d.ids /\ b.byKind = d.byKind /\ b.edges \subseteq d.edges
    BY <1>0, <1>5, DelType
  <2> QED BY <2>1, <2>2 DEF Exists, Effect
<1>6. ASSUME NEW j \in Id, c = SRemId(j) PROVE P
  <2>1. b = [d EXCEPT !.ids = @ \ {j}]
    BY <1>0, <1>6, SRemIdEffect
  <2>2. c.op = "SREM ids" /\ c # Del(i) /\ (c = SRemId(i) <=> i = j) /\ c # SRemKind(i)
    BY <1>6 DEF Del, SRemId, SRemKind
  <2>3. b.core = d.core /\ b.ids = d.ids \ {j} /\ b.byKind = d.byKind /\ b.edges = d.edges
    BY <2>1 DEF Stores
  <2> QED BY <2>2, <2>3 DEF Exists, Effect
<1>7. ASSUME NEW j \in Id, c = SRemKind(j) PROVE P
  <2>1. b = [d EXCEPT !.byKind = @ \ {j}]
    BY <1>0, <1>7, SRemKindEffect
  <2>2. c.op = "SREM by_kind" /\ c # Del(i) /\ (c = SRemKind(i) <=> i = j) /\ c # SRemId(i)
    BY <1>7 DEF Del, SRemId, SRemKind
  <2>3. b.core = d.core /\ b.ids = d.ids /\ b.byKind = d.byKind \ {j} /\ b.edges = d.edges
    BY <2>1 DEF Stores
  <2> QED BY <2>2, <2>3 DEF Exists, Effect
<1>8. ASSUME NEW e \in Edge, c = SAddEdge(e) PROVE P
  <2>1. b = [d EXCEPT !.edges = @ \cup {e}]
    BY <1>0, <1>8, SAddEdgeEffect
  <2>2. c.op = "SADD edges" /\ c.edge = e /\ c # Del(i) /\ c # SRemId(i) /\ c # SRemKind(i)
    BY <1>8 DEF SAddEdge, Del, SRemId, SRemKind
  <2>3. b.core = d.core /\ b.ids = d.ids /\ b.byKind = d.byKind /\ b.edges = d.edges \cup {e}
    BY <2>1 DEF Stores
  <2> QED BY <2>2, <2>3 DEF Exists, Effect
<1>9. ASSUME NEW e \in Edge, c = SRemEdge(e) PROVE P
  <2>1. b = [d EXCEPT !.edges = @ \ {e}]
    BY <1>0, <1>9, SRemEdgeEffect
  <2>2. c.op = "SREM edges" /\ c.edge = e /\ c # Del(i) /\ c # SRemId(i) /\ c # SRemKind(i)
    BY <1>9 DEF SRemEdge, Del, SRemId, SRemKind
  <2>3. b.core = d.core /\ b.ids = d.ids /\ b.byKind = d.byKind /\ b.edges = d.edges \ {e}
    BY <2>1 DEF Stores
  <2> QED BY <2>2, <2>3 DEF Exists, Effect
<1> HIDE DEF P
<1>10. P
  BY <1>1, <1>2, <1>3, <1>4, <1>5, <1>6, <1>7, <1>8, <1>9 DEF WriterCommands
<1> QED BY <1>10 DEF P, b

(* The head of a sequence and its tail.                                    *)
LEMMA AmongTail ==
  ASSUME NEW S, NEW s \in Seq(S), s # <<>>, NEW c
  PROVE  Among(c, s) <=> c = Head(s) \/ Among(c, Tail(s))
<1>1. /\ Len(s) \in Nat /\ Len(s) > 0 /\ Len(Tail(s)) = Len(s) - 1 /\ Head(s) = s[1]
      /\ \A n \in 1..Len(s) - 1 : Tail(s)[n] = s[n + 1]
  OBVIOUS
<1>2. DOMAIN s = 1..Len(s) /\ DOMAIN Tail(s) = 1..Len(s) - 1
  BY <1>1
<1>3. ASSUME NEW n \in DOMAIN s, s[n] = c, n # 1 PROVE Among(c, Tail(s))
  <2>1. n - 1 \in DOMAIN Tail(s) /\ Tail(s)[n - 1] = c
    BY <1>1, <1>2, <1>3
  <2> QED BY <2>1 DEF Among
<1>4. ASSUME NEW n \in DOMAIN Tail(s), Tail(s)[n] = c PROVE Among(c, s)
  <2>1. n + 1 \in DOMAIN s /\ s[n + 1] = c
    BY <1>1, <1>2, <1>4
  <2> QED BY <2>1 DEF Among
<1>5. c = Head(s) => Among(c, s)
  BY <1>1, <1>2 DEF Among
<1>6. Among(c, s) => c = Head(s) \/ Among(c, Tail(s))
  BY <1>1, <1>3 DEF Among
<1>7. Among(c, Tail(s)) => Among(c, s)
  BY <1>4 DEF Among
<1> QED BY <1>5, <1>6, <1>7

(* An operation deletes an entity first, and ends with its kind.           *)
LEMMA OperationDel ==
  ASSUME NEW cmds \in Operations, NEW i
  PROVE  /\ ~Among(Del(i), Tail(cmds))
         /\ Head(cmds) = Del(i) => Among(SRemKind(i), Tail(cmds))
<1>1. ASSUME NEW j \in WrittenIds, NEW md \in Metadata, cmds = UpsertCommands(j, md)
      PROVE  /\ ~Among(Del(i), Tail(cmds))
             /\ Head(cmds) # Del(i)
  <2> DEFINE core == <<HSet(j, Clock), SAddKind(j), SAddId(j)>>
             meta == IF \E f \in Field : md[f] # NoValue THEN <<HSetMeta(j, md)>> ELSE <<>>
  <2>1. /\ HSet(j, Clock) # Del(i) /\ SAddKind(j) # Del(i) /\ SAddId(j) # Del(i)
        /\ HSetMeta(j, md) # Del(i)
    BY DEF HSet, SAddKind, SAddId, HSetMeta, Del
  <2>2. /\ HSet(j, Clock) \in WriterCommands /\ SAddKind(j) \in WriterCommands
        /\ SAddId(j) \in WriterCommands /\ HSetMeta(j, md) \in WriterCommands
    BY WrittenAssumption DEF WriterCommands
  <2>3. core \in Seq(WriterCommands) /\ meta \in Seq(WriterCommands)
    BY <2>2
  <2>4. ~Among(Del(i), core)
    <3>1. core[1] = HSet(j, Clock) /\ core[2] = SAddKind(j) /\ core[3] = SAddId(j)
          /\ DOMAIN core = 1..3
      OBVIOUS
    <3> HIDE DEF core
    <3> QED BY <2>1, <3>1 DEF Among
  <2>5. ~Among(Del(i), meta)
    <3>1. DOMAIN meta = {} \/ (DOMAIN meta = {1} /\ meta[1] = HSetMeta(j, md))
      OBVIOUS
    <3> HIDE DEF meta
    <3> QED BY <2>1, <3>1 DEF Among
  <2>6. cmds = core \o meta
    BY <1>1 DEF UpsertCommands
  <2> HIDE DEF core, meta
  <2>7. ~Among(Del(i), cmds)
    <3>1. /\ DOMAIN cmds = 1..Len(core) + Len(meta) /\ Len(core) \in Nat /\ Len(meta) \in Nat
          /\ \A n \in 1..Len(core) + Len(meta) :
               cmds[n] = IF n <= Len(core) THEN core[n] ELSE meta[n - Len(core)]
          /\ DOMAIN core = 1..Len(core) /\ DOMAIN meta = 1..Len(meta)
      BY <2>3, <2>6, ConcatProperties
    <3>2. ASSUME NEW n \in DOMAIN cmds PROVE cmds[n] # Del(i)
      <4>1. CASE n <= Len(core)
        BY <2>4, <3>1, <4>1 DEF Among
      <4>2. CASE n > Len(core)
        <5>1. n - Len(core) \in DOMAIN meta /\ cmds[n] = meta[n - Len(core)]
          BY <3>1, <4>2
        <5> QED BY <2>5, <5>1 DEF Among
      <4> QED BY <3>1, <4>1, <4>2
    <3> QED BY <3>2 DEF Among
  <2> QED BY <2>1, <2>7, OperationType, AmongTail
<1>2. ASSUME NEW j \in WrittenIds, cmds = DeleteCommands(j)
      PROVE  /\ ~Among(Del(i), Tail(cmds))
             /\ Head(cmds) = Del(i) => Among(SRemKind(i), Tail(cmds))
  <2>1. /\ Head(cmds) = Del(j) /\ Len(Tail(cmds)) = 2 /\ DOMAIN Tail(cmds) = 1..2
        /\ Tail(cmds)[1] = SRemId(j) /\ Tail(cmds)[2] = SRemKind(j)
    BY <1>2 DEF DeleteCommands
  <2>2. SRemId(j) # Del(i) /\ SRemKind(j) # Del(i) /\ (Del(j) = Del(i) => j = i)
    BY DEF SRemId, SRemKind, Del
  <2>3. Among(SRemKind(j), Tail(cmds))
    <3>1. 2 \in 1..2
      OBVIOUS
    <3> QED BY <2>1, <3>1 DEF Among
  <2> QED BY <2>1, <2>2, <2>3 DEF Among
<1>3. ASSUME NEW e \in WrittenEdges, cmds = <<SAddEdge(e)>> \/ cmds = <<SRemEdge(e)>>
      PROVE  /\ ~Among(Del(i), Tail(cmds))
             /\ Head(cmds) # Del(i)
  <2>1. DOMAIN Tail(cmds) = {} /\ (Head(cmds) = SAddEdge(e) \/ Head(cmds) = SRemEdge(e))
    <3>1. CASE cmds = <<SAddEdge(e)>>
      BY <3>1
    <3>2. CASE cmds = <<SRemEdge(e)>>
      BY <3>2
    <3> QED BY <1>3, <3>1, <3>2
  <2>2. SAddEdge(e) # Del(i) /\ SRemEdge(e) # Del(i)
    BY DEF SAddEdge, SRemEdge, Del
  <2> QED BY <2>1, <2>2 DEF Among
<1> QED BY <1>1, <1>2, <1>3 DEF Operations
-----------------------------------------------------------------------------
(* A writer may bring an entity back, which then is no longer doomed; it   *)
(* may delete one before Prune does, and then takes it from its kind.      *)
LEMMA GoneExecute ==
  ASSUME ReadInv, GoneInv, op = "prune", NEW c \in WriterCommands, Execute(c),
         \A i : Among(SRemKind(i), pipe) => c = SRemKind(i) \/ Among(SRemKind(i), pipe'),
         \A i : c = Del(i) => Among(SRemKind(i), pipe')
  PROVE  Orderly' /\ (~seen'.failed => Gone')
<1>0. /\ SeenShape /\ Watched /\ AddedShape /\ db \in Stores /\ call' = call
      /\ db' = Apply(db, c) /\ call.dropped \subseteq Id
  BY DEF ReadInv, PruneInv, StoreInv, TypeInv, CallType, SetsType, Execute
<1>1. /\ Onward /\ (seen'.failed <=> seen.failed) /\ seen'.added = AddedTo(seen.added, c)
  BY <1>0, OnwardExecute
<1>2. Orderly'
  BY <1>0 DEF GoneInv, Orderly
<1> SUFFICES ASSUME ~seen'.failed PROVE Gone'
  BY <1>2
<1>3. Gone
  BY <1>1 DEF GoneInv
<1>4. /\ seen'.added.ids = IF c.op \in {"HSET", "HSET metadata", "SADD by_kind", "SADD ids"}
                           THEN seen.added.ids \cup {c.id} ELSE seen.added.ids
      /\ seen'.added.edges = IF c.op = "SADD edges" THEN seen.added.edges \cup {c.edge}
                             ELSE seen.added.edges
  <2> DEFINE old == seen.added
             new == seen'.added
  <2>1. old \in [ids : {old.ids}, edges : {old.edges}] /\ new = AddedTo(old, c)
    BY <1>0, <1>1 DEF AddedShape
  <2> HIDE DEF old, new
  <2>2. /\ new.ids = IF c.op \in {"HSET", "HSET metadata", "SADD by_kind", "SADD ids"}
                     THEN old.ids \cup {c.id} ELSE old.ids
        /\ new.edges = IF c.op = "SADD edges" THEN old.edges \cup {c.edge} ELSE old.edges
    BY <2>1, AddedFacts
  <2> QED BY <2>2 DEF old, new
<1>5. ASSUME NEW i \in Doomed' PROVE Goes(i)'
  <2>1. i \in Id /\ i \in Doomed
    BY <1>0, <1>4, <1>5 DEF Doomed
  <2>2. ~(c.op \in {"HSET", "SADD by_kind", "SADD ids"} /\ c.id = i)
    BY <1>4, <1>5 DEF Doomed
  <2>3. /\ Exists(db', i) => Exists(db, i)
        /\ i \in db'.ids => i \in db.ids
        /\ i \in db'.byKind => i \in db.byKind
        /\ Exists(db, i) => Exists(db', i) \/ c = Del(i)
        /\ c = SRemKind(i) => i \notin db'.byKind
    <3>1. Effect(db, c, db', i)
      BY <1>0, <2>1, CommandGone
    <3> QED BY <2>2, <3>1 DEF Effect
  <2>4. Kindless(i) => Kindless(i)'
    BY <2>3 DEF Kindless
  <2>5. Exists(db, i) => Exists(db', i) \/ Kindless(i)'
    BY <2>3 DEF Kindless
  <2>6. Goes(i)
    BY <1>3, <2>1 DEF Gone
  <2> QED BY <1>0, <2>3, <2>4, <2>5, <2>6 DEF Goes, ToCome
<1>6. ASSUME NEW e \in db'.edges, Dangles(e)' PROVE e \in db.edges /\ Dangles(e)
  <2>1. e.to \in Id /\ e.to \in Doomed /\ e.from \in seen.steady.ids
    BY <1>0, <1>1, <1>4, <1>6 DEF Dangles, Doomed, Onward
  <2>2. e \notin seen.added.edges /\ ~(c.op = "SADD edges" /\ c.edge = e)
    BY <1>4, <1>6 DEF Dangles
  <2>3. e \in db.edges
    <3>1. Effect(db, c, db', e.to)
      BY <1>0, <2>1, CommandGone
    <3> QED BY <1>6, <2>2, <3>1 DEF Effect
  <2> QED BY <2>1, <2>2, <2>3 DEF Dangles
<1>7. Stripped'
  BY <1>0, <1>3, <1>6 DEF Gone, Stripped
<1> QED BY <1>5, <1>7 DEF Gone

(* A step that reads leaves the store and what the writers do alone.       *)
LEMMA GoneReply ==
  ASSUME ReadInv, NEW err, NEW locals, Reply(err, locals)
  PROVE  /\ call' = locals /\ db' = db /\ pipe' = pipe /\ (~seen'.failed => ~err /\ ~seen.failed)
         /\ seen'.steady = seen.steady /\ seen'.added = seen.added
         /\ \A i : (Kindless(i)' <=> Kindless(i)) /\ (Exists(db', i) <=> Exists(db, i))
<1>1. SeenShape /\ Watched /\ AddedShape
  BY DEF ReadInv, PruneInv, StoreInv
<1>2. /\ db' = db /\ pipe' = pipe /\ call' = locals
      /\ seen'.steady = seen.steady /\ seen'.added = seen.added
      /\ (~seen'.failed => ~err) /\ (~seen'.failed => ~seen.failed)
  BY <1>1, OnwardReply DEF Onward, Reply
<1> QED BY <1>2 DEF Kindless, Exists
LEMMA GoneInit == Init => GoneInv
<1> SUFFICES ASSUME Init PROVE GoneInv
  OBVIOUS
<1>1. PICK c \in Cases : call = Asked(c.req)
  BY DEF Init
<1>2. pipe = <<>> /\ seen.added.ids = {}
  BY DEF Init, Seen
<1>3. call.pc = "request" /\ call.dropped = {} /\ call.cmds = <<>>
  BY <1>1 DEF Asked
<1>4. NoDel
  BY <1>2 DEF NoDel, Among
<1>5. Orderly
  BY <1>3 DEF Orderly
<1>6. Gone
  BY <1>3 DEF Gone, Doomed, Stripped
<1> QED BY <1>4, <1>5, <1>6 DEF GoneInv

(* The commands of a writer.                                               *)
LEMMA NoDelNext == ReadInv /\ NoDel /\ [Next]_vars => NoDel'
<1> SUFFICES ASSUME ReadInv, NoDel, [Next]_vars PROVE NoDel'
  OBVIOUS
<1>1. CASE UNCHANGED pipe
  BY <1>1 DEF NoDel
<1>2. ASSUME NEW cmds \in Operations, BeginWrite(cmds) PROVE NoDel'
  BY <1>2, OperationDel DEF BeginWrite, NoDel
<1>3. CASE Write
  <2>1. pipe \in Seq(WriterCommands) /\ pipe # <<>> /\ pipe' = Tail(pipe)
    BY <1>3 DEF Write, ReadInv, PruneInv, StoreInv
  <2> QED BY <2>1, AmongTail DEF NoDel
<1>4. CASE Reader
  <2>1. UNCHANGED pipe
    <3>1. ASSUME NEW err, NEW locals, Reply(err, locals) PROVE UNCHANGED pipe
      BY <3>1 DEF Reply
    <3>2. CASE Request \/ (\E err \in BOOLEAN : Drop(err) \/ Strip(err))
      BY <3>2 DEF Request, Drop, Strip
    <3>3. CASE Visit \/ Answer \/ BeginDrop \/ EndStrip
      BY <3>1, <3>3 DEF Visit, Answer, BeginDrop, EndStrip
    <3>4. ASSUME NEW err \in BOOLEAN,
                 ReadRoot(err) \/ ReadSize(err) \/ ReadEdges(err) \/ ReadMeta(err) \/ ReadIds(err)
          PROVE  UNCHANGED pipe
      BY <3>1, <3>4 DEF ReadRoot, ReadSize, ReadEdges, ReadMeta, ReadIds
    <3>5. ASSUME NEW err \in BOOLEAN, Follow(err) PROVE UNCHANGED pipe
      BY <3>1, <3>5 DEF Follow
    <3>6. ASSUME NEW err \in BOOLEAN,
                 \/ ReadCore(err) \/ ReadTime(err) \/ ReadKind(err)
                 \/ ReadSurvivors(err) \/ ReadSurvivor(err) \/ Count(err)
          PROVE  UNCHANGED pipe
      BY <3>1, <3>6 DEF ReadCore, ReadTime, ReadKind, ReadSurvivors, ReadSurvivor, Count
    <3> QED BY <1>4, <3>2, <3>3, <3>4, <3>5, <3>6 DEF Reader
  <2> QED BY <2>1, <1>1
<1> QED BY <1>1, <1>2, <1>3, <1>4 DEF Next, vars

LEMMA GoneNext == ReadInv /\ GoneInv /\ [Next]_vars => GoneInv'
<1> SUFFICES ASSUME ReadInv, GoneInv, [Next]_vars PROVE GoneInv'
  OBVIOUS
<1> DEFINE Goal == Orderly' /\ (~seen'.failed => Gone')
<1>0. /\ Locals(call) /\ SeenShape /\ Watched /\ AddedShape /\ WellFormed(call.req) /\ Phase(call)
      /\ SetsType(call) /\ db \in Stores /\ pipe \in Seq(WriterCommands)
      /\ (op = "prune" => InHand(call))
  BY DEF ReadInv, PruneInv, StoreInv, TypeInv, CallType
<1>1. NoDel'
  BY NoDelNext DEF GoneInv
<1>2. op' = op
  <2>1. CASE Reader
    BY <1>0, <2>1, PhaseNext DEF op
  <2>2. CASE Others
    BY <1>0, <2>2, OthersOnward DEF op
  <2> QED BY <2>1, <2>2 DEF Next, Others, op
<1> SUFFICES ASSUME op = "prune" PROVE Goal
  BY <1>1, <1>2 DEF GoneInv
<1>3. call.pc \in {"request", "ids", "each", "kind", "drop", "survivors", "strip", "count", "done"}
  BY <1>0 DEF Phase, op
<1>4. Orderly /\ (~seen.failed => Gone) /\ NoDel
  BY DEF GoneInv
<1> HIDE DEF Goal
<1>5. CASE UNCHANGED vars
  <2>1. /\ Doomed' = Doomed /\ (Stripped' <=> Stripped) /\ (Orderly' <=> Orderly)
        /\ (seen'.failed <=> seen.failed) /\ \A i : Goes(i)' <=> Goes(i)
    BY <1>5 DEF vars, Doomed, Stripped, Dangles, Orderly, Goes, ToCome, Kindless
  <2> QED BY <1>4, <2>1 DEF Goal, Gone
<1>6. ASSUME NEW cmds \in Operations, BeginWrite(cmds) PROVE Goal
  <2>1. cmds \in Seq(WriterCommands) /\ cmds # <<>>
    BY OperationType
  <2>2. Head(cmds) \in WriterCommands /\ Execute(Head(cmds)) /\ pipe = <<>> /\ pipe' = Tail(cmds)
    BY <1>6, <2>1 DEF BeginWrite
  <2>3. \A i : ~Among(SRemKind(i), pipe)
    BY <2>2 DEF Among
  <2>4. \A i : Head(cmds) = Del(i) => Among(SRemKind(i), pipe')
    BY <2>2, OperationDel
  <2> QED BY <2>2, <2>3, <2>4, GoneExecute DEF Goal
<1>7. CASE Write
  <2>1. pipe # <<>> /\ pipe' = Tail(pipe) /\ Execute(Head(pipe)) /\ Head(pipe) \in WriterCommands
    BY <1>0, <1>7 DEF Write
  <2>2. \A c : Among(c, pipe) <=> c = Head(pipe) \/ Among(c, pipe')
    BY <1>0, <2>1, AmongTail
  <2>3. \A i : Head(pipe) # Del(i)
    BY <1>4, <2>2 DEF NoDel
  <2>4. \A i : Among(SRemKind(i), pipe) => Head(pipe) = SRemKind(i) \/ Among(SRemKind(i), pipe')
    BY <2>2
  <2> QED BY <2>1, <2>3, <2>4, GoneExecute DEF Goal
<1>8. CASE Request
  <2>1. /\ call'.pc \in {"done", "ids", "root"} /\ call'.dropped = {} /\ call'.cmds = <<>>
        /\ call.pc = "request"
    BY <1>0, <1>4, <1>8, RequestFacts DEF Orderly
  <2> QED BY <2>1 DEF Goal, Orderly, Gone, Doomed, Stripped, Dangles<1>9. ASSUME NEW err \in BOOLEAN, ReadIds(err) PROVE Goal
  <2>1. /\ \/ call' = [call EXCEPT !.pc = "each", !.ids = Index]
           \/ call' = [call EXCEPT !.pc = "count"]
           \/ call' = [call EXCEPT !.pc = "done", !.status = 200]
        /\ call.pc = "ids"
    BY <1>9 DEF ReadIds, Reply
  <2>2. /\ call'.pc \in {"each", "count", "done"}
        /\ call'.dropped = call.dropped /\ call'.cmds = call.cmds
    <3>1. CASE call' = [call EXCEPT !.pc = "each", !.ids = Index]
      BY <1>0, <3>1 DEF Locals
    <3>2. CASE call' = [call EXCEPT !.pc = "count"]
      BY <1>0, <3>2 DEF Locals
    <3>3. CASE call' = [call EXCEPT !.pc = "done", !.status = 200]
      BY <1>0, <3>3 DEF Locals
    <3> QED BY <2>1, <3>1, <3>2, <3>3
  <2>3. call.cmds = <<>> /\ call.dropped = {}
    BY <1>4, <2>1 DEF Orderly
  <2> QED BY <2>2, <2>3 DEF Goal, Orderly, Gone, Doomed, Stripped, Dangles
<1>10. ASSUME NEW err \in BOOLEAN, ReadTime(err) PROVE Goal
  <2>1. PICK i \in call.ids :
          Reply(err, [call EXCEPT !.ids = @ \ {i},
                        !.dropped = IF ~Missing(err, i) /\ db.core[i] < Cutoff THEN @ \cup {i} ELSE @])
    BY <1>10 DEF ReadTime
  <2> DEFINE dropped == IF ~Missing(err, i) /\ db.core[i] < Cutoff THEN call.dropped \cup {i}
                        ELSE call.dropped
             locals == [call EXCEPT !.ids = @ \ {i}, !.dropped = dropped]
  <2>2. Reply(err, locals) /\ call.pc = "each"
    BY <1>10, <2>1 DEF ReadTime
  <2>3. dropped \subseteq call.dropped \cup {j \in {i} : Exists(db, j)}
    BY DEF Missing
  <2> HIDE DEF dropped
  <2>4. locals.pc = "each" /\ locals.dropped = dropped /\ locals.cmds = call.cmds
    BY <1>0, <2>2 DEF Locals
  <2> HIDE DEF locals
  <2>5. /\ call' = locals /\ seen'.added = seen.added /\ db' = db
        /\ (~seen'.failed => ~seen.failed)
        /\ \A j : (Kindless(j)' <=> Kindless(j)) /\ (Exists(db', j) <=> Exists(db, j))
    BY <2>2, GoneReply
  <2>6. Orderly'
    BY <1>4, <2>2, <2>4, <2>5 DEF Orderly
  <2>7. ASSUME ~seen'.failed, NEW j \in Doomed' PROVE Goes(j)'
    <3>1. j \in Doomed \/ Exists(db, j)
      BY <2>3, <2>4, <2>5, <2>7 DEF Doomed
    <3>2. j \in Doomed => Exists(db, j) \/ Kindless(j)
      BY <1>4, <2>2, <2>5, <2>7 DEF Gone, Goes, ToCome
    <3>3. ToCome(j)' /\ (Exists(db', j) \/ Kindless(j)')
      BY <2>4, <2>5, <3>1, <3>2 DEF ToCome
    <3> QED BY <3>3 DEF Goes
  <2>8. Stripped'
    BY <2>4, <2>5 DEF Stripped
  <2> QED BY <2>6, <2>7, <2>8 DEF Goal, Gone
<1>11. CASE BeginDrop
  <2> DEFINE locals == IF call.dropped = {} THEN [call EXCEPT !.pc = "count"]
                       ELSE [call EXCEPT !.pc = "kind", !.ids = call.dropped]
  <2>1. Reply(FALSE, locals) /\ call.pc = "each"
    BY <1>11 DEF BeginDrop
  <2>2. /\ locals.dropped = call.dropped /\ locals.cmds = call.cmds
        /\ \/ locals.pc = "count" /\ call.dropped = {}
           \/ locals.pc = "kind" /\ locals.ids = call.dropped
    BY <1>0 DEF Locals
  <2> HIDE DEF locals
  <2>3. /\ call' = locals /\ seen'.added = seen.added /\ db' = db
        /\ (~seen'.failed => ~seen.failed)
        /\ \A j : (Kindless(j)' <=> Kindless(j)) /\ (Exists(db', j) <=> Exists(db, j))
    BY <2>1, GoneReply
  <2>4. call.cmds = <<>>
    BY <1>4, <2>1 DEF Orderly
  <2>5. Orderly'
    <3>1. \A i : ~Among(Del(i), call'.cmds)
      BY <2>2, <2>3, <2>4 DEF Among
    <3> QED BY <2>2, <2>3, <2>4, <3>1 DEF Orderly
  <2>6. ASSUME ~seen'.failed, NEW j \in Doomed' PROVE Goes(j)'
    <3>1. j \in Doomed /\ j \in call.dropped
      BY <2>2, <2>3, <2>6 DEF Doomed
    <3>2. Exists(db, j) \/ Kindless(j)
      BY <1>4, <2>1, <2>3, <2>6, <3>1 DEF Gone, Goes, ToCome
    <3>3. ToCome(j)'
      BY <2>2, <2>3, <3>1 DEF ToCome
    <3> QED BY <2>3, <3>2, <3>3 DEF Goes
  <2>7. Stripped'
    BY <2>2, <2>3 DEF Stripped, Dangles, Doomed
  <2> QED BY <2>5, <2>6, <2>7 DEF Goal, Gone
<1>12. ASSUME NEW err \in BOOLEAN, ReadKind(err) PROVE Goal
  <2>0. PICK i \in call.ids :
          Reply(err, [call EXCEPT !.ids = @ \ {i}, !.pc = "drop",
                        !.cmds = <<Del(i), SRemId(i)>>
                                 \o (IF Missing(err, i) THEN <<>> ELSE <<SRemKind(i)>>)])
    BY <1>12 DEF ReadKind
  <2> DEFINE tail == IF Missing(err, i) THEN <<>> ELSE <<SRemKind(i)>>
             cmds == <<Del(i), SRemId(i)>> \o tail
             locals == [call EXCEPT !.ids = @ \ {i}, !.pc = "drop", !.cmds = cmds]
  <2>1. Reply(err, locals) /\ call.pc = "kind"
    BY <1>12, <2>0 DEF ReadKind
  <2>2. /\ Among(Del(i), cmds) /\ Among(SRemId(i), cmds)
        /\ \A j : j # i => ~Among(Del(j), cmds)
        /\ ~Missing(err, i) => Among(SRemKind(i), cmds)
    <3>1. \A j : SRemId(i) # Del(j) /\ SRemKind(i) # Del(j) /\ (Del(i) = Del(j) => j = i)
      BY DEF SRemId, SRemKind, Del
    <3>2. CASE Missing(err, i)
      <4>1. DOMAIN cmds = 1..2 /\ cmds[1] = Del(i) /\ cmds[2] = SRemId(i)
        BY <3>2
      <4> HIDE DEF cmds
      <4> QED BY <3>1, <3>2, <4>1 DEF Among
    <3>3. CASE ~Missing(err, i)
      <4>1. DOMAIN cmds = 1..3 /\ cmds[1] = Del(i) /\ cmds[2] = SRemId(i) /\ cmds[3] = SRemKind(i)
        BY <3>3
      <4> HIDE DEF cmds
      <4> QED BY <3>1, <4>1 DEF Among
    <3> QED BY <3>2, <3>3
  <2> HIDE DEF cmds
  <2>3. /\ locals.pc = "drop" /\ locals.ids = call.ids \ {i} /\ locals.cmds = cmds
        /\ locals.dropped = call.dropped
    BY <1>0 DEF Locals
  <2> HIDE DEF locals
  <2>4. /\ call' = locals /\ seen'.added = seen.added /\ db' = db
        /\ (~seen'.failed => ~seen.failed /\ ~err)
        /\ \A j : (Kindless(j)' <=> Kindless(j)) /\ (Exists(db', j) <=> Exists(db, j))
    BY <2>1, GoneReply
  <2>5. Orderly'
    BY <2>2, <2>3, <2>4 DEF Orderly
  <2>6. ASSUME ~seen'.failed, NEW j \in Doomed' PROVE Goes(j)'
    <3>1. j \in Doomed /\ Goes(j) /\ ~err /\ call.cmds = <<>>
      BY <1>4, <2>1, <2>3, <2>4, <2>6 DEF Doomed, Gone, Orderly
    <3>2. ToCome(j)' <=> j \in call.ids \ {i}
      BY <2>3, <2>4 DEF ToCome
    <3>3. ToCome(j) <=> j \in call.ids
      BY <2>1 DEF ToCome
    <3>4. \A c : ~Among(c, call.cmds)
      BY <3>1 DEF Among
    <3>5. CASE j = i
      <4>1. Exists(db, i) \/ Kindless(i)
        BY <3>1, <3>3, <3>5 DEF Goes
      <4>2. ~Missing(err, i) \/ Kindless(i)
        BY <3>1, <4>1 DEF Missing
      <4> QED BY <2>2, <2>3, <2>4, <3>2, <3>5, <4>2 DEF Goes
    <3>6. CASE j # i
      <4>1. ToCome(j)' <=> ToCome(j)
        BY <3>2, <3>3, <3>6
      <4> QED BY <2>4, <3>1, <3>4, <4>1 DEF Goes
    <3> QED BY <3>5, <3>6
  <2>7. Stripped'
    BY <2>3, <2>4 DEF Stripped
  <2> QED BY <2>5, <2>6, <2>7 DEF Goal, Gone
<1>13. ASSUME NEW err \in BOOLEAN, Drop(err) PROVE Goal
  <2> DEFINE rest == IF err THEN <<>> ELSE Tail(call.cmds)
             pc == AfterDrop(rest)
  <2>1. /\ call' = [call EXCEPT !.cmds = rest, !.pc = pc] /\ call.pc = "drop" /\ pipe' = pipe
        /\ seen' = [Watch(db') EXCEPT !.failed = @ \/ err]
        /\ ~err => db' = Apply(db, Head(call.cmds))
    BY <1>13 DEF Drop
  <2>3. /\ call.cmds \in Seq(DropCommands(call.dropped)) /\ call.cmds # <<>>
        /\ call.dropped \subseteq Id
    BY <1>0, <2>1 DEF InHand, SetsType
  <2>4. \A c : Among(c, rest) => Among(c, call.cmds)
    <3>1. CASE err
      BY <3>1 DEF Among
    <3>2. CASE ~err
      BY <2>3, <3>2, AmongTail
    <3> QED BY <3>1, <3>2
  <2>5. ~err => rest = Tail(call.cmds)
    OBVIOUS
  <2> HIDE DEF rest
  <2>2. /\ pc \in {"drop", "kind", "survivors"} /\ (pc = "drop" => rest # <<>>)
        /\ (pc # "drop" => rest = <<>>) /\ (pc = "survivors" => call.ids = {})
    BY DEF AfterDrop
  <2> HIDE DEF pc
  <2>6. /\ call'.cmds = rest /\ call'.pc = pc /\ call'.ids = call.ids
        /\ call'.dropped = call.dropped
    BY <1>0, <2>1 DEF Locals
  <2>7. Orderly'
    BY <1>4, <2>1, <2>2, <2>4, <2>6 DEF Orderly
  <2>8. /\ (~seen'.failed => ~err /\ ~seen.failed) /\ seen'.added = seen.added
    BY <1>0, <2>1, OnwardPrune DEF Onward
  <2>9. ASSUME ~seen'.failed, NEW j \in Doomed' PROVE Goes(j)'
    <3> DEFINE c == Head(call.cmds)
    <3>1. j \in Doomed /\ j \in Id /\ ~err /\ Goes(j)
      BY <1>4, <2>3, <2>6, <2>8, <2>9 DEF Doomed, Gone
    <3>2. c \in DropCommands(call.dropped)
      BY <2>3
    <3>3. c \in WriterCommands /\ c.op \notin {"HSET", "SADD ids", "SADD by_kind"}
      <4>1. PICK k \in call.dropped : c = Del(k) \/ c = SRemId(k) \/ c = SRemKind(k)
        BY <3>2 DEF DropCommands
      <4> HIDE DEF c
      <4>2. c.op \in {"DEL", "SREM ids", "SREM by_kind"}
        <5>1. CASE c = Del(k)
          BY <5>1 DEF Del
        <5>2. CASE c = SRemId(k)
          BY <5>2 DEF SRemId
        <5>3. CASE c = SRemKind(k)
          BY <5>3 DEF SRemKind
        <5> QED BY <4>1, <5>1, <5>2, <5>3
      <4>3. c \in WriterCommands
        BY <2>3, <4>1 DEF WriterCommands
      <4> QED BY <4>2, <4>3
    <3>4. db' = Apply(db, c)
      BY <2>1, <3>1
    <3>5. ASSUME NEW x PROVE Among(x, call.cmds) <=> x = c \/ Among(x, rest)
      <4>1. Among(x, call.cmds) <=> x = Head(call.cmds) \/ Among(x, Tail(call.cmds))
        BY <2>3, AmongTail
      <4> QED BY <2>5, <3>1, <4>1
    <3> HIDE DEF c
    <3>6. Effect(db, c, db', j)
      BY <1>0, <3>1, <3>3, <3>4, CommandGone
    <3>7. /\ Exists(db', j) => Exists(db, j) /\ c # Del(j)
          /\ j \in db'.ids => j \in db.ids /\ c # SRemId(j)
          /\ j \in db'.byKind => j \in db.byKind /\ c # SRemKind(j)
          /\ Exists(db, j) => Exists(db', j) \/ c = Del(j)
      BY <3>3, <3>6 DEF Effect
    <3>8. ToCome(j)' <=> ToCome(j)
      BY <2>1, <2>2, <2>6 DEF ToCome
    <3>9. Kindless(j) => Kindless(j)'
      BY <2>1, <3>7 DEF Kindless
    <3>10. CASE ToCome(j)
      <4>1. j \in call.ids
        BY <2>1, <3>10 DEF ToCome
      <4>2. c # Del(j)
        BY <1>4, <2>1, <3>5, <4>1 DEF Orderly
      <4> QED BY <3>1, <3>7, <3>8, <3>9, <3>10, <4>2 DEF Goes
    <3>11. CASE ~ToCome(j)
      <4>1. ~Exists(db', j) \/ Among(Del(j), rest)
        BY <3>1, <3>5, <3>7, <3>11 DEF Goes
      <4>2. j \notin db'.ids \/ Among(SRemId(j), rest)
        BY <3>1, <3>5, <3>7, <3>11 DEF Goes
      <4>3. Kindless(j)' \/ Among(SRemKind(j), rest)
        <5>1. CASE Kindless(j)
          BY <3>9, <5>1
        <5>2. CASE c = SRemKind(j)
          BY <3>7, <5>2 DEF Kindless
        <5> QED BY <3>1, <3>5, <3>11, <5>1, <5>2 DEF Goes
      <4> QED BY <2>6, <3>8, <3>11, <4>1, <4>2, <4>3 DEF Goes
    <3> QED BY <3>10, <3>11
  <2>10. Stripped'
    BY <2>2, <2>6 DEF Stripped
  <2> QED BY <2>7, <2>9, <2>10 DEF Goal, Gone
<1>14. ASSUME NEW err \in BOOLEAN, ReadSurvivors(err) PROVE Goal
  <2> DEFINE ids == IF err THEN {} ELSE db.ids
             locals == [call EXCEPT !.pc = "strip", !.ids = ids]
  <2>1. Reply(err, locals) /\ call.pc = "survivors"
    BY <1>14 DEF ReadSurvivors
  <2>2. ~err => ids = db.ids
    OBVIOUS
  <2> HIDE DEF ids
  <2>3. /\ locals.pc = "strip" /\ locals.ids = ids /\ locals.cmds = call.cmds
        /\ locals.dropped = call.dropped
    BY <1>0 DEF Locals
  <2> HIDE DEF locals
  <2>4. /\ call' = locals /\ seen'.added = seen.added /\ db' = db /\ seen'.steady = seen.steady
        /\ (~seen'.failed => ~seen.failed /\ ~err)
        /\ \A j : (Kindless(j)' <=> Kindless(j)) /\ (Exists(db', j) <=> Exists(db, j))
    BY <2>1, GoneReply
  <2>5. Orderly'
    BY <1>4, <2>1, <2>3, <2>4 DEF Orderly
  <2>6. ASSUME ~seen'.failed, NEW j \in Doomed' PROVE Goes(j)'
    <3>1. Goes(j)
      BY <1>4, <2>3, <2>4, <2>6 DEF Doomed, Gone
    <3>2. ~ToCome(j) /\ ~ToCome(j)'
      BY <2>1, <2>3, <2>4 DEF ToCome
    <3> QED BY <2>3, <2>4, <3>1, <3>2 DEF Goes
  <2>7. ASSUME ~seen'.failed PROVE Stripped'
    <3>1. seen.steady.ids \subseteq db.ids
      BY <1>0 DEF Watched, ListedIds, Listed
    <3> QED BY <2>2, <2>3, <2>4, <2>7, <3>1 DEF Stripped, Dangles
  <2> QED BY <2>5, <2>6, <2>7 DEF Goal, Gone
<1>15. ASSUME NEW err \in BOOLEAN, ReadSurvivor(err) PROVE Goal
  <2>0. PICK i \in call.ids :
          Reply(err, [call EXCEPT !.ids = @ \ {i}, !.links = IF err THEN {} ELSE Dangling(i)])
    BY <1>15 DEF ReadSurvivor
  <2> DEFINE links == IF err THEN {} ELSE Dangling(i)
             locals == [call EXCEPT !.ids = @ \ {i}, !.links = links]
  <2>1. Reply(err, locals) /\ call.pc = "strip" /\ call.links = {}
    BY <1>15, <2>0 DEF ReadSurvivor
  <2>2. ~err => links = Dangling(i)
    OBVIOUS
  <2> HIDE DEF links
  <2>3. /\ locals.pc = "strip" /\ locals.ids = call.ids \ {i} /\ locals.cmds = call.cmds
        /\ locals.dropped = call.dropped /\ locals.links = links
    BY <1>0, <2>1 DEF Locals
  <2> HIDE DEF locals
  <2>4. /\ call' = locals /\ seen'.added = seen.added /\ db' = db /\ seen'.steady = seen.steady
        /\ (~seen'.failed => ~seen.failed /\ ~err)
        /\ \A j : (Kindless(j)' <=> Kindless(j)) /\ (Exists(db', j) <=> Exists(db, j))
    BY <2>1, GoneReply
  <2>5. Orderly'
    BY <1>4, <2>1, <2>3, <2>4 DEF Orderly
  <2>6. ASSUME ~seen'.failed, NEW j \in Doomed' PROVE Goes(j)'
    <3>1. Goes(j)
      BY <1>4, <2>3, <2>4, <2>6 DEF Doomed, Gone
    <3>2. ~ToCome(j) /\ ~ToCome(j)'
      BY <2>1, <2>3, <2>4 DEF ToCome
    <3> QED BY <2>3, <2>4, <3>1, <3>2 DEF Goes
  <2>7. ASSUME ~seen'.failed PROVE Stripped'
    <3>1. ASSUME NEW e \in db.edges, Dangles(e)'
          PROVE  e.from \in call'.ids \/ e \in call'.links
      <4>1. Dangles(e) /\ e.to \in call.dropped
        BY <2>3, <2>4, <3>1 DEF Dangles, Doomed
      <4>2. e.from \in call.ids
        BY <1>4, <2>1, <2>4, <2>7, <4>1 DEF Gone, Stripped
      <4>3. e.from = i => e \in Dangling(i)
        BY <4>1 DEF Dangling, EdgesOf
      <4> QED BY <2>2, <2>3, <2>4, <2>7, <4>2, <4>3
    <3> QED BY <2>3, <2>4, <3>1 DEF Stripped
  <2> QED BY <2>5, <2>6, <2>7 DEF Goal, Gone
<1>16. ASSUME NEW err \in BOOLEAN, Strip(err) PROVE Goal
  <2>1. PICK e \in call.links :
          /\ call' = [call EXCEPT !.links = @ \ {e}]
          /\ db' = IF err THEN db ELSE Apply(db, SRemEdge(e))
    BY <1>16 DEF Strip
  <2>2. /\ seen' = [Watch(db') EXCEPT !.failed = @ \/ err] /\ call.pc = "strip" /\ pipe' = pipe
    BY <1>16 DEF Strip
  <2>3. /\ call'.pc = "strip" /\ call'.ids = call.ids /\ call'.cmds = call.cmds
        /\ call'.dropped = call.dropped /\ call'.links = call.links \ {e}
    BY <1>0, <2>1, <2>2 DEF Locals
  <2>4. Onward /\ (~seen'.failed => ~err /\ ~seen.failed) /\ seen'.added = seen.added
    BY <1>0, <2>2, OnwardPrune DEF Onward
  <2>5. Orderly'
    BY <1>4, <2>2, <2>3 DEF Orderly
  <2>6. ~err => db' = [db EXCEPT !.edges = @ \ {e}]
    BY <2>1, SRemEdgeEffect
  <2>7. ~err => /\ db'.core = db.core /\ db'.ids = db.ids /\ db'.byKind = db.byKind
                /\ db'.edges = db.edges \ {e}
    BY <1>0, <2>6 DEF Stores
  <2>8. ASSUME ~seen'.failed, NEW j \in Doomed' PROVE Goes(j)'
    <3>1. Goes(j) /\ ~err
      BY <1>4, <2>3, <2>4, <2>8 DEF Doomed, Gone
    <3>2. ~ToCome(j) /\ ~ToCome(j)'
      BY <2>2, <2>3 DEF ToCome
    <3>3. (Kindless(j)' <=> Kindless(j)) /\ (Exists(db', j) <=> Exists(db, j))
      BY <2>2, <2>7, <3>1 DEF Kindless, Exists
    <3> QED BY <2>3, <2>7, <3>1, <3>2, <3>3 DEF Goes
  <2>9. ASSUME ~seen'.failed PROVE Stripped'
    <3>1. ASSUME NEW x \in db'.edges, Dangles(x)'
          PROVE  x.from \in call'.ids \/ x \in call'.links
      <4>1. Dangles(x)
        BY <2>3, <2>4, <3>1 DEF Dangles, Doomed, Onward
      <4>2. x \in db.edges /\ x # e
        BY <2>4, <2>7, <2>9, <3>1
      <4>3. x.from \in call.ids \/ x \in call.links
        BY <1>4, <2>2, <2>4, <2>9, <4>1, <4>2 DEF Gone, Stripped
      <4> QED BY <2>3, <4>2, <4>3
    <3> QED BY <2>3, <3>1 DEF Stripped
  <2> QED BY <2>5, <2>8, <2>9 DEF Goal, Gone
<1>17. ASSUME NEW locals, NEW err, Reply(err, locals), call.pc \in {"strip", "count"},
              call.pc = "strip" => call.ids = {} /\ call.links = {},
              locals.pc \in {"count", "done"}, locals.cmds = call.cmds,
              locals.dropped = call.dropped
       PROVE  Goal
  <2>1. /\ call' = locals /\ seen'.added = seen.added /\ db' = db /\ seen'.steady = seen.steady
        /\ (~seen'.failed => ~seen.failed /\ ~err)
        /\ \A j : (Kindless(j)' <=> Kindless(j)) /\ (Exists(db', j) <=> Exists(db, j))
    BY <1>17, GoneReply
  <2>2. Orderly'
    BY <1>4, <1>17, <2>1 DEF Orderly
  <2>3. ASSUME ~seen'.failed, NEW j \in Doomed' PROVE Goes(j)'
    <3>1. Goes(j)
      BY <1>4, <1>17, <2>1, <2>3 DEF Doomed, Gone
    <3>2. ~ToCome(j) /\ ~ToCome(j)'
      BY <1>17, <2>1 DEF ToCome
    <3> QED BY <1>17, <2>1, <3>1, <3>2 DEF Goes
  <2>4. ASSUME ~seen'.failed PROVE Stripped'
    <3>1. \A e : Dangles(e)' => Dangles(e)
      BY <1>17, <2>1 DEF Dangles, Doomed
    <3> QED BY <1>4, <1>17, <2>1, <2>4, <3>1 DEF Gone, Stripped
  <2> QED BY <2>2, <2>3, <2>4 DEF Goal, Gone
<1>18. CASE EndStrip
  <2>1. /\ Reply(FALSE, [call EXCEPT !.pc = "count"])
        /\ call.pc = "strip" /\ call.ids = {} /\ call.links = {}
    BY <1>18 DEF EndStrip
  <2> DEFINE locals == [call EXCEPT !.pc = "count"]
  <2>2. locals.pc = "count" /\ locals.cmds = call.cmds /\ locals.dropped = call.dropped
    BY <1>0 DEF Locals
  <2>3. Reply(FALSE, locals)
    BY <2>1
  <2> HIDE DEF locals
  <2> QED BY <1>17, <2>1, <2>2, <2>3
<1>19. ASSUME NEW err \in BOOLEAN, Count(err) PROVE Goal
  <2>1. PICK max : Reply(err, [call EXCEPT !.pc = "done", !.status = 200, !.max = max])
    BY <1>19 DEF Count
  <2> DEFINE locals == [call EXCEPT !.pc = "done", !.status = 200, !.max = max]
  <2>2. locals.pc = "done" /\ locals.cmds = call.cmds /\ locals.dropped = call.dropped
    BY <1>0 DEF Locals
  <2>3. Reply(err, locals) /\ call.pc = "count"
    BY <1>19, <2>1 DEF Count
  <2> HIDE DEF locals
  <2> QED BY <1>17, <2>2, <2>3
<1>20. ASSUME NEW err \in BOOLEAN,
              \/ ReadRoot(err) \/ ReadSize(err) \/ ReadEdges(err) \/ ReadMeta(err) \/ Follow(err)
              \/ ReadCore(err)
       PROVE  FALSE
  BY <1>3, <1>20 DEF ReadRoot, ReadSize, ReadEdges, ReadMeta, Follow, ReadCore
<1>21. CASE Visit \/ Answer
  BY <1>21 DEF Visit, Answer
<1> QED BY <1>5, <1>6, <1>7, <1>8, <1>9, <1>10, <1>11, <1>12, <1>13, <1>14, <1>15, <1>16, <1>18,
           <1>19, <1>20, <1>21 DEF Next, Reader

(* When Prune is done and nothing failed, no key names what it dropped and *)
(* no entity that was listed throughout has an edge to it, but for what a  *)
(* writer added meanwhile.                                                 *)
THEOREM PruneLeavesNothingCorrect == Spec => []PruneLeavesNothing
<1>1. ReadInv /\ GoneInv => PruneLeavesNothing
  <2> SUFFICES ASSUME ReadInv, GoneInv, Done("prune"), ~seen.failed, pipe = <<>>,
                      NEW i \in call.dropped \ seen.added.ids
               PROVE  /\ Unlisted(db, i)
                      /\ \A e \in db.edges : e.to = i /\ e.from \in seen.steady.ids =>
                                               e \in seen.added.edges
    BY DEF PruneLeavesNothing
  <2>1. op = "prune" /\ call.pc = "done" /\ i \in Doomed
    BY DEF Done, Doomed
  <2>2. Goes(i) /\ Stripped /\ call.cmds = <<>>
    BY <2>1 DEF GoneInv, Gone, Orderly
  <2>3. \A c : ~Among(c, call.cmds) /\ ~Among(c, pipe)
    BY <2>2 DEF Among
  <2>4. Unlisted(db, i)
    BY <2>1, <2>2, <2>3 DEF Goes, ToCome, Kindless, Unlisted
  <2> QED BY <2>1, <2>2, <2>4 DEF Stripped, Dangles
<1> QED BY <1>1, ReadInit, ReadNext, GoneInit, GoneNext, PTL DEF Spec
=============================================================================
