-------------------------- MODULE K8sWatcherProofs --------------------------
(***************************************************************************)
(* Theorems about K8sWatcher, for any objects of the watched kinds, any    *)
(* number of changes, resyncs and faults.                                  *)
(***************************************************************************)
EXTENDS K8sWatcher, Induction, SequenceTheorems, FiniteSetTheorems

-----------------------------------------------------------------------------
(* What objects imply: the facts about the mapping that the theorems rest  *)
(* on, for any objects and ReplicaSets.                                    *)

OwnerKinds == {"deployment", "rollout", "statefulset", "daemonset", "job"}
Listed(refs) == Len(refs) \in Nat /\ DOMAIN refs = 1..Len(refs)

(* The least of some numbers.                                              *)
LEMMA LeastIndex ==
  ASSUME NEW I, I \subseteq Nat, I # {}
  PROVE  Min(I) \in I /\ \A m \in I : Min(I) <= m
<1>1. \E n \in I : \A m \in I : n <= m
  BY LeastNumber
<1> QED BY <1>1 DEF Min

LEMMA ThroughKinds ==
  ASSUME NEW rs, Listed(rs.owners), NEW o \in Through(rs) PROVE o.kind \in OwnerKinds
<1> DEFINE I == {i \in 1..Len(rs.owners) : rs.owners[i].kind \in {"deployment", "rollout"}}
<1>1. I # {} /\ o = rs.owners[Min(I)]
  BY DEF Through, FirstSuch, SelectInSeq
<1>2. I \subseteq Nat
  BY DEF Listed
<1>3. Min(I) \in I
  BY <1>1, <1>2, LeastIndex
<1> QED BY <1>1, <1>3 DEF OwnerKinds

LEMMA OwnersKinds ==
  ASSUME NEW pod, NEW replicaSets, \A rs \in replicaSets : Listed(rs.owners),
         NEW o \in OwnerForPod(pod, replicaSets)
  PROVE  o.kind \in OwnerKinds
<1>1. PICK ref : o \in OwnersVia(ref, replicaSets)
  BY DEF OwnerForPod
<1>2. CASE ref.kind = "replicaset"
  <2>1. PICK rs \in replicaSets : o \in Through(rs)
    BY <1>1, <1>2 DEF OwnersVia, Named
  <2> QED BY <2>1, ThroughKinds
<1>3. CASE ref.kind \in {"statefulset", "daemonset", "job"}
  <2>1. o = ref
    BY <1>1, <1>3 DEF OwnersVia
  <2> QED BY <1>3, <2>1 DEF OwnerKinds
<1>4. CASE ref.kind \notin {"replicaset", "statefulset", "daemonset", "job"}
  BY <1>1, <1>4 DEF OwnersVia
<1> QED BY <1>2, <1>3, <1>4

(* The owner depends on where the references lead, on nothing else.        *)
LEMMA SameOwner ==
  ASSUME NEW pod, Listed(pod.owners), NEW r1, NEW r2,
         \A i \in 1..Len(pod.owners) :
           OwnersVia(pod.owners[i], r1) = OwnersVia(pod.owners[i], r2)
  PROVE  OwnerForPod(pod, r1) = OwnerForPod(pod, r2)
<1> DEFINE I(r) == {i \in 1..Len(pod.owners) : OwnersVia(pod.owners[i], r) # {}}
           first == Min(I(r1))
<1>1. I(r1) = I(r2)
  OBVIOUS
<1>2. I(r1) # {} => first \in I(r1)
  <2>1. I(r1) \subseteq Nat
    BY DEF Listed
  <2> HIDE DEF I
  <2> QED BY <2>1, LeastIndex
<1>3. \A r : I(r) = {} => OwnerForPod(pod, r) = {}
  BY DEF OwnerForPod, FirstSuch, SelectInSeq
<1>4. \A r : I(r) # {} /\ Min(I(r)) # 0 => OwnerForPod(pod, r) = OwnersVia(pod.owners[Min(I(r))], r)
  BY DEF OwnerForPod, FirstSuch, SelectInSeq
<1>5. \A i \in I(r1) : i # 0 /\ OwnersVia(pod.owners[i], r1) = OwnersVia(pod.owners[i], r2)
  BY DEF Listed
<1> HIDE DEF I
<1> QED BY <1>1, <1>2, <1>3, <1>4, <1>5

-----------------------------------------------------------------------------
LEMMA InUnionOf ==
  ASSUME NEW ds, NEW x
  PROVE  /\ x \in UnionOf(ds).entities <=> \E d \in ds : x \in d.entities
         /\ x \in UnionOf(ds).edges <=> \E d \in ds : x \in d.edges
BY DEF UnionOf

LEMMA UnderAndOver ==
  \A from, fwd, to, rev :
    /\ Under(from, fwd, to, rev).entities = {from} /\ Over(from, fwd, to, rev).entities = {to}
    /\ Under(from, fwd, to, rev).edges = Pair(from, fwd, to, rev)
    /\ Over(from, fwd, to, rev).edges = Pair(from, fwd, to, rev)
BY DEF Under, Over

(* What a pod implies, part by part; all but the owners' is the same for   *)
(* any owners.                                                             *)
PodParts(pod) ==
  LET id == Ent("pod", pod.name)
  IN  {Lone(id)}
      \cup {Under(Ent("namespace", pod.ns), "CONTAINS", id, "RUNS_IN")}
      \cup {Under(Ent("node", n), "CONTAINS", id, "RUNS_IN") : n \in {pod.node} \ {NoName}}
      \cup {Over(id, "CONTAINS", Ent("container", <<pod.name, c>>), "RUNS_IN") :
              c \in pod.containers}
OwnerParts(pod, owners) ==
  {Under(Ent(o.kind, o.name), "MANAGES", Ent("pod", pod.name), "MANAGED_BY") : o \in owners}

LEMMA PodIs ==
  ASSUME NEW pod, NEW owners
  PROVE  MapPod(pod, owners) = UnionOf(PodParts(pod) \cup OwnerParts(pod, owners))
<1> DEFINE id == Ent("pod", pod.name)
           lone == {Lone(id)}
           namespace == {Under(Ent("namespace", pod.ns), "CONTAINS", id, "RUNS_IN")}
           node == {Under(Ent("node", n), "CONTAINS", id, "RUNS_IN") : n \in {pod.node} \ {NoName}}
           owner == {Under(Ent(o.kind, o.name), "MANAGES", id, "MANAGED_BY") : o \in owners}
           containers == {Over(id, "CONTAINS", Ent("container", <<pod.name, c>>), "RUNS_IN") :
                            c \in pod.containers}
<1>1. MapPod(pod, owners) = UnionOf(lone \cup namespace \cup node \cup owner \cup containers)
  BY Zenon DEF MapPod
<1>2. /\ PodParts(pod) = lone \cup namespace \cup node \cup containers
      /\ OwnerParts(pod, owners) = owner
  BY Zenon DEF PodParts, OwnerParts
<1> HIDE DEF lone, namespace, node, owner, containers
<1>3. lone \cup namespace \cup node \cup owner \cup containers
      = (lone \cup namespace \cup node \cup containers) \cup owner
  OBVIOUS
<1> QED BY <1>1, <1>2, <1>3, Zenon

LEMMA PodPart ==
  ASSUME NEW pod, NEW d \in PodParts(pod)
  PROVE  LET id == Ent("pod", pod.name)
         IN  \/ d = Lone(id)
             \/ \E w \in {Ent("namespace", pod.ns), Ent("node", pod.node)} :
                  d = Under(w, "CONTAINS", id, "RUNS_IN")
             \/ \E c \in pod.containers :
                  d = Over(id, "CONTAINS", Ent("container", <<pod.name, c>>), "RUNS_IN")
BY DEF PodParts

LEMMA OwnerPart ==
  ASSUME NEW pod, NEW owners, NEW d \in OwnerParts(pod, owners)
  PROVE  \E o \in owners : d = Under(Ent(o.kind, o.name), "MANAGES", Ent("pod", pod.name), "MANAGED_BY")
BY DEF OwnerParts

(* What the others imply, in the same way.                                 *)
LEMMA NodePart ==
  ASSUME NEW node
  PROVE  \E ds : /\ MapNode(node) = UnionOf({Lone(Ent("node", node.name))} \cup ds)
                 /\ \A d \in ds :
                      \/ \E z : d = Under(Ent("zone", z), "CONTAINS", Ent("node", node.name), "RUNS_IN")
                      \/ \E r, z : /\ d = Under(Ent("region", r), "CONTAINS", Ent("zone", z), "RUNS_IN")
                                   /\ Under(Ent("zone", z), "CONTAINS", Ent("node", node.name), "RUNS_IN") \in ds
<1> DEFINE id == Ent("node", node.name)
           zones == {TopologyLabel(node.zone)} \ {NoName}
           regions == {TopologyLabel(node.region)} \ {NoName}
           inZone == {Under(Ent("zone", z), "CONTAINS", id, "RUNS_IN") : z \in zones}
           inRegion == {Under(Ent("region", r), "CONTAINS", Ent("zone", z), "RUNS_IN") :
                          r \in regions, z \in zones}
<1>1. MapNode(node) = UnionOf({Lone(id)} \cup inZone \cup inRegion)
  BY DEF MapNode
<1>2. \A d \in inZone : \E z : d = Under(Ent("zone", z), "CONTAINS", id, "RUNS_IN")
  OBVIOUS
<1>3. \A d \in inRegion : \E r, z : /\ d = Under(Ent("region", r), "CONTAINS", Ent("zone", z), "RUNS_IN")
                                    /\ Under(Ent("zone", z), "CONTAINS", id, "RUNS_IN") \in inZone
  OBVIOUS
<1> HIDE DEF inZone, inRegion
<1>4. {Lone(id)} \cup inZone \cup inRegion = {Lone(id)} \cup (inZone \cup inRegion)
  OBVIOUS
<1>5. MapNode(node) = UnionOf({Lone(id)} \cup (inZone \cup inRegion))
  BY <1>1, <1>4
<1>6. ASSUME NEW d \in inZone \cup inRegion
      PROVE  \/ \E z : d = Under(Ent("zone", z), "CONTAINS", id, "RUNS_IN")
             \/ \E r, z : /\ d = Under(Ent("region", r), "CONTAINS", Ent("zone", z), "RUNS_IN")
                          /\ Under(Ent("zone", z), "CONTAINS", id, "RUNS_IN") \in inZone \cup inRegion
  BY <1>2, <1>3
<1> WITNESS inZone \cup inRegion
<1> QED BY <1>5, <1>6

LEMMA JobPart ==
  ASSUME NEW job
  PROVE  \E ds : /\ MapJob(job) = UnionOf({Lone(Ent("job", job.name))} \cup ds)
                 /\ \A d \in ds : \E c : d = Under(Ent("cronjob", c), "MANAGES", Ent("job", job.name), "MANAGED_BY")
<1> DEFINE ds == {Under(Ent("cronjob", ref.name), "MANAGES", Ent("job", job.name), "MANAGED_BY") :
                    ref \in FirstSuch(job.owners, LAMBDA r : r.kind = "cronjob")}
<1>1. MapJob(job) = UnionOf({Lone(Ent("job", job.name))} \cup ds)
  BY Zenon DEF MapJob
<1>2. \A d \in ds : \E c : d = Under(Ent("cronjob", c), "MANAGES", Ent("job", job.name), "MANAGED_BY")
  OBVIOUS
<1> QED BY <1>1, <1>2, Zenon

ScaledPart(id, d) ==
  d = Nothing \/ \E kind \in {"deployment", "statefulset", "rollout"} : \E w :
                   d = Over(id, "SCALES", Ent(kind, w), "SCALED_BY")

LEMMA HPAPart ==
  ASSUME NEW hpa
  PROVE  \E ds : /\ MapHPA(hpa) = UnionOf({Lone(Ent("hpa", hpa.name))} \cup ds)
                 /\ \A d \in ds : \/ ScaledPart(Ent("hpa", hpa.name), d)
                                  \/ \E s : d = Under(Ent("scaledobject", s), "MANAGES", Ent("hpa", hpa.name), "MANAGED_BY")
<1> DEFINE id == Ent("hpa", hpa.name)
           owner == {Under(Ent("scaledobject", ref.name), "MANAGES", id, "MANAGED_BY") :
                       ref \in FirstSuch(hpa.owners, LAMBDA r : r.kind = "scaledobject")}
           target == Scaled(id, hpa.target)
<1>1. MapHPA(hpa) = UnionOf({Lone(id), target} \cup owner)
  BY Zenon DEF MapHPA
<1>2. \A d \in owner : \E s : d = Under(Ent("scaledobject", s), "MANAGES", id, "MANAGED_BY")
  OBVIOUS
<1>3. ScaledPart(id, target)
  BY DEF ScaledPart, Scaled
<1> DEFINE ds == {target} \cup owner
<1> HIDE DEF owner, target
<1>4. {Lone(id), target} \cup owner = {Lone(id)} \cup ds
  OBVIOUS
<1>5. MapHPA(hpa) = UnionOf({Lone(id)} \cup ds)
  BY <1>1, <1>4, Zenon
<1>6. \A d \in ds : \/ ScaledPart(id, d)
                    \/ \E s : d = Under(Ent("scaledobject", s), "MANAGES", id, "MANAGED_BY")
  BY <1>2, <1>3, Zenon
<1> HIDE DEF ds
<1> QED BY <1>5, <1>6, Zenon

LEMMA ScaledObjectPart ==
  ASSUME NEW so
  PROVE  \E d : /\ MapScaledObject(so) = UnionOf({Lone(Ent("scaledobject", so.name)), d})
                /\ ScaledPart(Ent("scaledobject", so.name), d)
<1> DEFINE id == Ent("scaledobject", so.name)
           target == IF so.target.kind = NoName THEN [so.target EXCEPT !.kind = "deployment"]
                                                ELSE so.target
           d == IF so.target.name = NoName THEN Nothing ELSE Scaled(id, target)
<1>1. MapScaledObject(so) = Both(Lone(id), d)
  BY Zenon DEF MapScaledObject
<1>2. ScaledPart(id, d)
  <2> HIDE DEF target
  <2> QED BY DEF ScaledPart, Scaled
<1> HIDE DEF d
<1>3. Both(Lone(id), d) = UnionOf({Lone(id), d})
  BY DEF Both, UnionOf
<1> QED BY <1>1, <1>2, <1>3
-----------------------------------------------------------------------------
(* Whose an id is, of a pod or a container, and whose an edge is, not of a *)
(* region: the key of the one object that implies it.                      *)
IdKey(id) == IF id[1] = "container" THEN Ent("pod", id[2][1]) ELSE id

EdgeKey(e) ==
  CASE e.kind \in {"MANAGES", "SCALED_BY"} -> e.to
    [] e.kind \in {"MANAGED_BY", "SCALES"} -> e.from
    [] e.kind = "CONTAINS" -> IF e.to[1] = "container" THEN e.from ELSE e.to
    [] e.kind = "RUNS_IN" -> IF e.from[1] = "container" THEN e.to ELSE e.from

(* An edge between a pod and its owner.                                    *)
OwnersEdge(o, e) ==
  /\ o.kind = "pod"
  /\ \/ e.from = KeyOf(o) /\ e.to[1] \in OwnerKinds
     \/ e.to = KeyOf(o) /\ e.from[1] \in OwnerKinds

(* Of an object: what implies d alone.                                     *)
Own(o, d) ==
  /\ \A x \in d.entities : Owned(x) => IdKey(x) = KeyOf(o)
  /\ \A e \in d.edges : ~RegionEdge(e) => EdgeKey(e) = KeyOf(o)
  /\ \A e \in d.edges : OwnerEdge(e) => OwnersEdge(o, e)
  /\ \A e \in d.edges : RegionEdge(e) => o.kind = "node"

LEMMA InPair ==
  ASSUME NEW from, NEW fwd, NEW to, NEW rev, NEW e \in Pair(from, fwd, to, rev)
  PROVE  \/ e.from = from /\ e.kind = fwd /\ e.to = to
         \/ e.from = to /\ e.kind = rev /\ e.to = from
BY DEF Pair

LEMMA OwnLone ==
  ASSUME NEW o, o.kind # "container" PROVE Own(o, Lone(KeyOf(o)))
BY DEF Own, Lone, Owned, IdKey, KeyOf, Ent

(* Another entity above an object, or below it.                            *)
LEMMA OwnUnder ==
  ASSUME NEW o, o.kind \notin {"container", "region"},
         NEW w, w[1] \notin {"pod", "container", "region"},
         NEW fwd, NEW rev,
         \/ fwd = "CONTAINS" /\ rev = "RUNS_IN"
         \/ fwd = "MANAGES" /\ rev = "MANAGED_BY" /\ (o.kind = "pod" => w[1] \in OwnerKinds)
  PROVE  Own(o, Under(w, fwd, KeyOf(o), rev))
<1>1. KeyOf(o)[1] = o.kind
  BY DEF KeyOf, Ent
<1>2. Under(w, fwd, KeyOf(o), rev).entities = {w} /\ ~Owned(w)
  BY DEF Under, Owned
<1>3. ASSUME NEW e \in Under(w, fwd, KeyOf(o), rev).edges
      PROVE  EdgeKey(e) = KeyOf(o) /\ (OwnerEdge(e) => OwnersEdge(o, e)) /\ ~RegionEdge(e)
  <2>1. \/ e.from = w /\ e.kind = fwd /\ e.to = KeyOf(o)
        \/ e.from = KeyOf(o) /\ e.kind = rev /\ e.to = w
    BY <1>3, InPair, UnderAndOver
  <2>2. EdgeKey(e) = KeyOf(o)
    BY <2>1, <1>1 DEF EdgeKey
  <2>3. OwnerEdge(e) => OwnersEdge(o, e)
    BY <2>1, <1>1 DEF OwnerEdge, OwnersEdge
  <2>4. ~RegionEdge(e)
    BY <2>1, <1>1 DEF RegionEdge
  <2> QED BY <2>2, <2>3, <2>4
<1> QED BY <1>2, <1>3 DEF Own

LEMMA OwnScaled ==
  ASSUME NEW o, o.kind # "region", NEW d, ScaledPart(KeyOf(o), d) PROVE Own(o, d)
<1>0. KeyOf(o)[1] = o.kind
  BY DEF KeyOf, Ent
<1>1. CASE d = Nothing
  BY <1>1 DEF Nothing, Own
<1>2. ASSUME NEW kind \in {"deployment", "statefulset", "rollout"}, NEW name,
             d = Over(KeyOf(o), "SCALES", Ent(kind, name), "SCALED_BY")
      PROVE  Own(o, d)
  <2> DEFINE w == Ent(kind, name)
  <2>1. d.entities = {w} /\ ~Owned(w) /\ w[1] # "region"
    BY <1>2 DEF Over, Owned, Ent
  <2>2. ASSUME NEW e \in d.edges PROVE EdgeKey(e) = KeyOf(o) /\ ~OwnerEdge(e) /\ ~RegionEdge(e)
    <3>1. \/ e.from = KeyOf(o) /\ e.kind = "SCALES" /\ e.to = w
          \/ e.from = w /\ e.kind = "SCALED_BY" /\ e.to = KeyOf(o)
      BY <1>2, <2>2, InPair, UnderAndOver
    <3>2. EdgeKey(e) = KeyOf(o) /\ ~OwnerEdge(e)
      BY <3>1 DEF EdgeKey, OwnerEdge
    <3> HIDE DEF w
    <3>3. ~RegionEdge(e)
      BY <1>0, <2>1, <3>1 DEF RegionEdge
    <3> QED BY <3>2, <3>3
  <2> QED BY <2>1, <2>2 DEF Own
<1> QED BY <1>1, <1>2 DEF ScaledPart

LEMMA OwnContainer ==
  ASSUME NEW o, o.kind = "pod", NEW c
  PROVE  Own(o, Over(KeyOf(o), "CONTAINS", Ent("container", <<o.name, c>>), "RUNS_IN"))
<1> DEFINE w == Ent("container", <<o.name, c>>)
           d == Over(KeyOf(o), "CONTAINS", w, "RUNS_IN")
<1>1. d.entities = {w} /\ IdKey(w) = KeyOf(o) /\ w[1] = "container" /\ KeyOf(o)[1] = "pod"
  BY DEF Over, IdKey, Ent, KeyOf
<1>2. ASSUME NEW e \in d.edges PROVE EdgeKey(e) = KeyOf(o) /\ ~OwnerEdge(e) /\ ~RegionEdge(e)
  <2>1. \/ e.from = KeyOf(o) /\ e.kind = "CONTAINS" /\ e.to = w
        \/ e.from = w /\ e.kind = "RUNS_IN" /\ e.to = KeyOf(o)
    BY <1>2, InPair, UnderAndOver
  <2> HIDE DEF w
  <2> QED BY <1>1, <2>1 DEF EdgeKey, OwnerEdge, RegionEdge
<1> HIDE DEF d, w
<1> QED BY <1>1, <1>2 DEF Own, d, w

(* The region a zone is in is the business of no node alone.               *)
LEMMA OwnRegion ==
  ASSUME NEW o, o.kind = "node", NEW r, NEW z
  PROVE  Own(o, Under(Ent("region", r), "CONTAINS", Ent("zone", z), "RUNS_IN"))
<1> DEFINE d == Under(Ent("region", r), "CONTAINS", Ent("zone", z), "RUNS_IN")
<1>1. d.entities = {Ent("region", r)} /\ ~Owned(Ent("region", r))
  BY DEF Under, Owned, Ent
<1>2. ASSUME NEW e \in d.edges PROVE RegionEdge(e) /\ ~OwnerEdge(e)
  <2>1. \/ e.from = Ent("region", r) /\ e.kind = "CONTAINS" /\ e.to = Ent("zone", z)
        \/ e.from = Ent("zone", z) /\ e.kind = "RUNS_IN" /\ e.to = Ent("region", r)
    BY <1>2, InPair, UnderAndOver
  <2> QED BY <2>1 DEF RegionEdge, OwnerEdge, Ent
<1> HIDE DEF d
<1> QED BY <1>1, <1>2 DEF Own, d
Faithful(o, d) ==
  /\ Own(o, d)
  /\ KeyOf(o) \in d.entities
  /\ \A e \in d.edges : e.from \in d.entities

LEMMA FaithfulUnion ==
  ASSUME NEW o, NEW ds, Lone(KeyOf(o)) \in ds, \A d \in ds : Own(o, d),
         \A d \in ds : \A e \in d.edges : \E part \in ds : e.from \in part.entities
  PROVE  Faithful(o, UnionOf(ds))
<1> DEFINE all == UnionOf(ds)
<1>1. \A x : x \in all.entities <=> \E d \in ds : x \in d.entities
  BY InUnionOf
<1>2. \A e : e \in all.edges <=> \E d \in ds : e \in d.edges
  BY InUnionOf
<1> HIDE DEF all
<1>3. Own(o, all)
  BY <1>1, <1>2 DEF Own
<1>4. KeyOf(o) \in all.entities
  BY <1>1 DEF Lone
<1>5. \A e \in all.edges : e.from \in all.entities
  BY <1>1, <1>2
<1> QED BY <1>3, <1>4, <1>5 DEF Faithful, all

LEMMA FaithfulParts ==
  ASSUME NEW o, o.kind # "container", NEW ds,
         \A d \in ds : /\ Own(o, d)
                       /\ \A e \in d.edges : \/ e.from \in d.entities \cup {KeyOf(o)}
                                             \/ \E part \in ds : e.from \in part.entities
  PROVE  Faithful(o, UnionOf({Lone(KeyOf(o))} \cup ds))
<1> DEFINE all == {Lone(KeyOf(o))} \cup ds
<1>1. \A d \in all : Own(o, d)
  BY OwnLone
<1>2. Lone(KeyOf(o)).entities = {KeyOf(o)} /\ Lone(KeyOf(o)).edges = {}
  BY DEF Lone
<1>3. \A d \in all : \A e \in d.edges : \E part \in all : e.from \in part.entities
  BY <1>2
<1> HIDE DEF all
<1>4. Lone(KeyOf(o)) \in all
  BY DEF all
<1>5. Faithful(o, UnionOf(all))
  BY <1>1, <1>3, <1>4, FaithfulUnion
<1> QED BY <1>5 DEF all

LEMMA FromUnder ==
  \A w, fwd, id, rev : \A e \in Under(w, fwd, id, rev).edges :
    e.from \in Under(w, fwd, id, rev).entities \cup {id}
<1> SUFFICES ASSUME NEW w, NEW fwd, NEW id, NEW rev, NEW e \in Under(w, fwd, id, rev).edges
             PROVE  e.from \in Under(w, fwd, id, rev).entities \cup {id}
  OBVIOUS
<1>1. e.from \in {w, id}
  BY InPair, UnderAndOver
<1> QED BY <1>1, UnderAndOver

LEMMA FromOver ==
  \A id, fwd, w, rev : \A e \in Over(id, fwd, w, rev).edges :
    e.from \in Over(id, fwd, w, rev).entities \cup {id}
<1> SUFFICES ASSUME NEW id, NEW fwd, NEW w, NEW rev, NEW e \in Over(id, fwd, w, rev).edges
             PROVE  e.from \in Over(id, fwd, w, rev).entities \cup {id}
  OBVIOUS
<1>1. e.from \in {w, id}
  BY InPair, UnderAndOver
<1> QED BY <1>1, UnderAndOver

LEMMA FromScaled ==
  ASSUME NEW id, NEW d, ScaledPart(id, d), NEW e \in d.edges
  PROVE  e.from \in d.entities \cup {id}
<1>1. d # Nothing
  BY DEF Nothing
<1>2. PICK w : d = Over(id, "SCALES", w, "SCALED_BY")
  BY <1>1 DEF ScaledPart
<1> QED BY <1>2, FromOver

LEMMA PodFaithful ==
  ASSUME NEW o, o.kind = "pod", NEW owners, \A w \in owners : w.kind \in OwnerKinds
  PROVE  Faithful(o, MapPod(o, owners))
<1> DEFINE id == Ent("pod", o.name)
           all == PodParts(o) \cup OwnerParts(o, owners)
<1>1. id = KeyOf(o)
  BY DEF KeyOf
<1>2. ASSUME NEW d \in all
      PROVE  /\ Own(o, d)
             /\ \A e \in d.edges : e.from \in d.entities \cup {id}
  <2>1. CASE d = Lone(id)
    BY <1>1, <2>1, OwnLone DEF Lone
  <2>2. ASSUME NEW w \in {Ent("namespace", o.ns), Ent("node", o.node)},
               d = Under(w, "CONTAINS", id, "RUNS_IN")
        PROVE  Own(o, d) /\ \A e \in d.edges : e.from \in d.entities \cup {id}
    <3>1. w[1] \notin {"pod", "container", "region"}
      BY DEF Ent
    <3>2. Own(o, d)
      BY <1>1, <2>2, <3>1, OwnUnder
    <3> QED BY <2>2, <3>2, FromUnder
  <2>3. ASSUME NEW w \in owners,
               d = Under(Ent(w.kind, w.name), "MANAGES", id, "MANAGED_BY")
        PROVE  Own(o, d) /\ \A e \in d.edges : e.from \in d.entities \cup {id}
    <3>1. Ent(w.kind, w.name)[1] \in OwnerKinds /\ Ent(w.kind, w.name)[1] \notin {"pod", "container", "region"}
      BY DEF Ent, OwnerKinds
    <3>2. Own(o, d)
      BY <1>1, <2>3, <3>1, OwnUnder
    <3> QED BY <2>3, <3>2, FromUnder
  <2>4. ASSUME NEW c, d = Over(id, "CONTAINS", Ent("container", <<o.name, c>>), "RUNS_IN")
        PROVE  Own(o, d) /\ \A e \in d.edges : e.from \in d.entities \cup {id}
    <3>1. Own(o, d)
      BY <1>1, <2>4, OwnContainer
    <3> QED BY <2>4, <3>1, FromOver
  <2>5. CASE d \in PodParts(o)
    BY <2>1, <2>2, <2>4, <2>5, PodPart
  <2>6. CASE d \in OwnerParts(o, owners)
    BY <2>3, <2>6, OwnerPart
  <2> QED BY <2>5, <2>6
<1>3. Lone(id) \in all
  BY DEF PodParts
<1>4. MapPod(o, owners) = UnionOf(all)
  BY PodIs
<1> HIDE DEF all, id
<1>5. \A d \in all : \A e \in d.edges : \E part \in all : e.from \in part.entities
  BY <1>2, <1>3 DEF Lone
<1> QED BY <1>1, <1>2, <1>3, <1>4, <1>5, FaithfulUnion
LEMMA NodeFaithful ==
  ASSUME NEW o, o.kind = "node" PROVE Faithful(o, MapNode(o))
<1>1. PICK ds : /\ MapNode(o) = UnionOf({Lone(Ent("node", o.name))} \cup ds)
                /\ \A d \in ds :
                     \/ \E z : d = Under(Ent("zone", z), "CONTAINS", Ent("node", o.name), "RUNS_IN")
                     \/ \E r, z : /\ d = Under(Ent("region", r), "CONTAINS", Ent("zone", z), "RUNS_IN")
                                  /\ Under(Ent("zone", z), "CONTAINS", Ent("node", o.name), "RUNS_IN") \in ds
  BY NodePart
<1>2. Ent("node", o.name) = KeyOf(o)
  BY DEF KeyOf
<1>3. ASSUME NEW d \in ds
      PROVE  /\ Own(o, d)
             /\ \A e \in d.edges : \/ e.from \in d.entities \cup {KeyOf(o)}
                                   \/ \E part \in ds : e.from \in part.entities
  <2>1. ASSUME NEW z, d = Under(Ent("zone", z), "CONTAINS", KeyOf(o), "RUNS_IN")
        PROVE  Own(o, d) /\ \A e \in d.edges : e.from \in d.entities \cup {KeyOf(o)}
    <3>1. Ent("zone", z)[1] \notin {"pod", "container", "region"}
      BY DEF Ent
    <3>2. Own(o, d)
      BY <2>1, <3>1, OwnUnder
    <3> QED BY <2>1, <3>2, FromUnder
  <2>2. ASSUME NEW r, NEW z, d = Under(Ent("region", r), "CONTAINS", Ent("zone", z), "RUNS_IN"),
               Under(Ent("zone", z), "CONTAINS", KeyOf(o), "RUNS_IN") \in ds
        PROVE  /\ Own(o, d)
               /\ \A e \in d.edges : e.from \in d.entities \/ \E part \in ds : e.from \in part.entities
    <3>1. Own(o, d)
      BY <2>2, OwnRegion
    <3>2. \A e \in d.edges : e.from \in d.entities \cup {Ent("zone", z)}
      BY <2>2, FromUnder
    <3>3. Ent("zone", z) \in Under(Ent("zone", z), "CONTAINS", KeyOf(o), "RUNS_IN").entities
      BY UnderAndOver
    <3> QED BY <2>2, <3>1, <3>2, <3>3
  <2> QED BY <1>1, <1>2, <2>1, <2>2
<1> QED BY <1>1, <1>2, <1>3, FaithfulParts

LEMMA JobFaithful ==
  ASSUME NEW o, o.kind = "job" PROVE Faithful(o, MapJob(o))
<1>1. PICK ds : /\ MapJob(o) = UnionOf({Lone(Ent("job", o.name))} \cup ds)
                /\ \A d \in ds : \E c : d = Under(Ent("cronjob", c), "MANAGES", Ent("job", o.name), "MANAGED_BY")
  BY JobPart
<1>2. Ent("job", o.name) = KeyOf(o)
  BY DEF KeyOf
<1>3. ASSUME NEW d \in ds
      PROVE  Own(o, d) /\ \A e \in d.edges : e.from \in d.entities \cup {KeyOf(o)}
  <2>1. PICK c : d = Under(Ent("cronjob", c), "MANAGES", KeyOf(o), "MANAGED_BY")
    BY <1>1, <1>2
  <2>2. Ent("cronjob", c)[1] \notin {"pod", "container", "region"}
    BY DEF Ent
  <2>3. Own(o, d)
    BY <2>1, <2>2, OwnUnder
  <2> QED BY <2>1, <2>3, FromUnder
<1> QED BY <1>1, <1>2, <1>3, FaithfulParts

LEMMA HPAFaithful ==
  ASSUME NEW o, o.kind = "hpa" PROVE Faithful(o, MapHPA(o))
<1>1. PICK ds : /\ MapHPA(o) = UnionOf({Lone(Ent("hpa", o.name))} \cup ds)
                /\ \A d \in ds : \/ ScaledPart(Ent("hpa", o.name), d)
                                 \/ \E s : d = Under(Ent("scaledobject", s), "MANAGES", Ent("hpa", o.name), "MANAGED_BY")
  BY HPAPart
<1>2. Ent("hpa", o.name) = KeyOf(o)
  BY DEF KeyOf
<1>3. ASSUME NEW d \in ds
      PROVE  Own(o, d) /\ \A e \in d.edges : e.from \in d.entities \cup {KeyOf(o)}
  <2>1. CASE ScaledPart(KeyOf(o), d)
    BY <2>1, OwnScaled, FromScaled
  <2>2. ASSUME NEW s, d = Under(Ent("scaledobject", s), "MANAGES", KeyOf(o), "MANAGED_BY")
        PROVE  Own(o, d) /\ \A e \in d.edges : e.from \in d.entities \cup {KeyOf(o)}
    <3>1. Ent("scaledobject", s)[1] \notin {"pod", "container", "region"}
      BY DEF Ent
    <3>2. Own(o, d)
      BY <2>2, <3>1, OwnUnder
    <3> QED BY <2>2, <3>2, FromUnder
  <2> QED BY <1>1, <1>2, <2>1, <2>2
<1> QED BY <1>1, <1>2, <1>3, FaithfulParts

LEMMA ScaledObjectFaithful ==
  ASSUME NEW o, o.kind = "scaledobject" PROVE Faithful(o, MapScaledObject(o))
<1>1. PICK d : /\ MapScaledObject(o) = UnionOf({Lone(Ent("scaledobject", o.name)), d})
               /\ ScaledPart(Ent("scaledobject", o.name), d)
  BY ScaledObjectPart
<1>2. Ent("scaledobject", o.name) = KeyOf(o)
  BY DEF KeyOf
<1>3. Own(o, d) /\ \A e \in d.edges : e.from \in d.entities \cup {KeyOf(o)}
  BY <1>1, <1>2, OwnScaled, FromScaled
<1>4. {Lone(KeyOf(o)), d} = {Lone(KeyOf(o))} \cup {d}
  OBVIOUS
<1>5. \A part \in {d} : /\ Own(o, part)
                        /\ \A e \in part.edges : \/ e.from \in part.entities \cup {KeyOf(o)}
                                                 \/ \E other \in {d} : e.from \in other.entities
  BY <1>3
<1>6. Faithful(o, UnionOf({Lone(KeyOf(o))} \cup {d}))
  BY <1>5, FaithfulParts
<1> QED BY <1>1, <1>2, <1>4, <1>6

(* Whatever ReplicaSets are cached, what an object implies is its own.     *)
LEMMA DesiredFaithful ==
  ASSUME NEW o, o.kind \in WatchedKinds, NEW replicaSets, \A rs \in replicaSets : Listed(rs.owners)
  PROVE  Faithful(o, Desired(o, replicaSets))
<1>1. CASE o.kind = "pod"
  <2>1. Desired(o, replicaSets) = MapPod(o, OwnerForPod(o, replicaSets))
    BY <1>1 DEF Desired
  <2> QED BY <1>1, <2>1, OwnersKinds, PodFaithful
<1>2. CASE o.kind = "node"
  <2>1. Desired(o, replicaSets) = MapNode(o)
    BY <1>2 DEF Desired
  <2> QED BY <1>2, <2>1, NodeFaithful
<1>3. CASE o.kind = "job"
  <2>1. Desired(o, replicaSets) = MapJob(o)
    BY <1>3 DEF Desired
  <2> QED BY <1>3, <2>1, JobFaithful
<1>4. CASE o.kind = "hpa"
  <2>1. Desired(o, replicaSets) = MapHPA(o)
    BY <1>4 DEF Desired
  <2> QED BY <1>4, <2>1, HPAFaithful
<1>5. CASE o.kind = "scaledobject"
  <2>1. Desired(o, replicaSets) = MapScaledObject(o)
    BY <1>5 DEF Desired
  <2> QED BY <1>5, <2>1, ScaledObjectFaithful
<1>6. CASE o.kind \notin {"pod", "node", "job", "hpa", "scaledobject"}
  <2>1. Desired(o, replicaSets) = Lone(KeyOf(o))
    BY <1>6 DEF Desired, MapAlone, KeyOf
  <2>2. o.kind # "container"
    BY DEF WatchedKinds
  <2>3. Own(o, Lone(KeyOf(o)))
    BY <2>2, OwnLone
  <2> QED BY <2>1, <2>3 DEF Faithful, Lone
<1> QED BY <1>1, <1>2, <1>3, <1>4, <1>5, <1>6

(* What does not depend on the ReplicaSets is all but the owner of a pod.  *)
LEMMA FixedPart ==
  ASSUME NEW o, o.kind \in WatchedKinds, NEW replicaSets, \A rs \in replicaSets : Listed(rs.owners)
  PROVE  /\ Fixed(o).entities \subseteq Desired(o, replicaSets).entities
         /\ Fixed(o).edges \subseteq Desired(o, replicaSets).edges
         /\ \A x \in Desired(o, replicaSets).entities : Owned(x) => x \in Fixed(o).entities
         /\ \A e \in Desired(o, replicaSets).edges : ~OwnerEdge(e) => e \in Fixed(o).edges
<1>1. CASE o.kind = "pod"
  <2> DEFINE owners == OwnerForPod(o, replicaSets)
             id == Ent("pod", o.name)
  <2>1. Desired(o, replicaSets) = MapPod(o, owners) /\ Fixed(o) = MapPod(o, {})
    BY <1>1 DEF Desired, Fixed
  <2>2. \A w \in owners : w.kind \in OwnerKinds
    BY OwnersKinds
  <2> HIDE DEF owners
  <2>3. OwnerParts(o, {}) = {}
    BY DEF OwnerParts
  <2>4. Fixed(o) = UnionOf(PodParts(o))
    BY <2>1, <2>3, PodIs
  <2>5. ASSUME NEW d \in OwnerParts(o, owners)
        PROVE  /\ \A x \in d.entities : ~Owned(x)
               /\ \A e \in d.edges : OwnerEdge(e)
    <3>1. PICK w \in owners : d = Under(Ent(w.kind, w.name), "MANAGES", id, "MANAGED_BY")
      BY OwnerPart
    <3>2. w.kind \in OwnerKinds
      BY <2>2
    <3>3. \A x \in d.entities : ~Owned(x)
      BY <3>1, <3>2, UnderAndOver DEF Owned, Ent, OwnerKinds
    <3>4. ASSUME NEW e \in d.edges PROVE OwnerEdge(e)
      <4>1. \/ e.kind = "MANAGES" /\ e.to = id
            \/ e.kind = "MANAGED_BY" /\ e.from = id
        BY <3>1, InPair, UnderAndOver
      <4> QED BY <4>1 DEF OwnerEdge, Ent
    <3> QED BY <3>3, <3>4
  <2>6. Desired(o, replicaSets) = UnionOf(PodParts(o) \cup OwnerParts(o, owners))
    BY <2>1, PodIs
  <2> QED BY <2>4, <2>5, <2>6 DEF UnionOf
<1>2. CASE o.kind # "pod"
  <2>1. Desired(o, replicaSets) = Fixed(o)
    BY <1>2 DEF Desired, Fixed
  <2> QED BY <2>1
<1> QED BY <1>1, <1>2

-----------------------------------------------------------------------------
(* The notices about an object.                                            *)

(* The first notice about k after the n-th is the m-th, or there is none.  *)
FirstAfter(q, k, n, m) ==
  /\ m \in DOMAIN q /\ m > n /\ k \in KeysOf(q[m])
  /\ \A j \in DOMAIN q : j > n /\ j < m => k \notin KeysOf(q[j])
NoneAfter(q, k, n) == \A j \in DOMAIN q : j > n => k \notin KeysOf(q[j])

LEMMA FromNone ==
  ASSUME NEW q, NEW objs, NEW k, NEW n, NoneAfter(q, k, n) PROVE From(q, objs, k, n) = At(objs, k)
<1>1. {m \in DOMAIN q : m > n /\ k \in KeysOf(q[m])} = {}
  BY DEF NoneAfter
<1> QED BY <1>1 DEF From

LEMMA FromFirst ==
  ASSUME NEW S, NEW q \in Seq(S), NEW objs, NEW k, NEW n \in Nat, NEW m, FirstAfter(q, k, n, m)
  PROVE  From(q, objs, k, n) = q[m].old
<1> DEFINE later == {j \in DOMAIN q : j > n /\ k \in KeysOf(q[j])}
<1>1. later \subseteq Nat
  OBVIOUS
<1>2. m \in later /\ \A j \in later : m <= j
  BY DEF FirstAfter
<1>3. later # {} => From(q, objs, k, n) = q[Min(later)].old
  BY DEF From
<1> HIDE DEF later
<1>4. Min(later) \in later /\ \A j \in later : Min(later) <= j
  BY <1>1, <1>2, LeastIndex
<1>5. \A j \in later : j <= m /\ m <= j => j = m
  BY <1>1, <1>2
<1>6. Min(later) = m
  BY <1>2, <1>4, <1>5
<1> QED BY <1>2, <1>3, <1>6

LEMMA FirstOrNone ==
  ASSUME NEW S, NEW q \in Seq(S), NEW k, NEW n \in Nat
  PROVE  NoneAfter(q, k, n) \/ \E m : FirstAfter(q, k, n, m)
<1> DEFINE later == {j \in DOMAIN q : j > n /\ k \in KeysOf(q[j])}
<1>1. later \subseteq Nat
  OBVIOUS
<1>2. later = {} => NoneAfter(q, k, n)
  BY DEF NoneAfter
<1>3. ASSUME NEW m \in later, \A j \in later : m <= j PROVE FirstAfter(q, k, n, m)
  BY <1>3 DEF FirstAfter
<1> HIDE DEF later
<1> QED BY <1>1, <1>2, <1>3, LeastIndex

(* Notices ns, at most one about k, from what the cache has to what it has *)
(* then, continue the notices of q.                                        *)
Continues(ns, k, objs, after) ==
  /\ \A i, j \in DOMAIN ns : k \in KeysOf(ns[i]) /\ k \in KeysOf(ns[j]) => i = j
  /\ \A i \in DOMAIN ns : k \in KeysOf(ns[i]) => ns[i].old = At(objs, k) /\ ns[i].new = At(after, k)
  /\ (\A i \in DOMAIN ns : k \notin KeysOf(ns[i])) => At(objs, k) = At(after, k)

LEMMA FromAppend ==
  ASSUME NEW S, NEW q \in Seq(S), NEW ns \in Seq(S), NEW k, NEW objs, NEW after,
         Continues(ns, k, objs, after)
  PROVE  /\ \A n \in 0..Len(q) : From(q \o ns, after, k, n) = From(q, objs, k, n)
         /\ \A n \in DOMAIN (q \o ns) :
              n > Len(q) /\ k \in KeysOf((q \o ns)[n]) =>
                (q \o ns)[n].new = From(q \o ns, after, k, n)
<1> DEFINE all == q \o ns
<1>1. /\ all \in Seq(S) /\ DOMAIN all = 1..(Len(q) + Len(ns))
      /\ \A i \in DOMAIN q : all[i] = q[i]
      /\ \A i \in DOMAIN ns : all[Len(q) + i] = ns[i]
      /\ DOMAIN q = 1..Len(q) /\ DOMAIN ns = 1..Len(ns) /\ Len(q) \in Nat /\ Len(ns) \in Nat
  OBVIOUS
<1> HIDE DEF all
<1>2. ASSUME NEW n \in 0..Len(q) PROVE From(all, after, k, n) = From(q, objs, k, n)
  <2>1. CASE \E m : FirstAfter(q, k, n, m)
    <3>1. PICK m : FirstAfter(q, k, n, m)
      BY <2>1
    <3>2. FirstAfter(all, k, n, m)
      BY <1>1, <1>2, <3>1 DEF FirstAfter
    <3>3. From(all, after, k, n) = all[m].old /\ From(q, objs, k, n) = q[m].old
      BY <1>1, <1>2, <3>1, <3>2, FromFirst
    <3> QED BY <1>1, <3>1, <3>3 DEF FirstAfter
  <2>2. CASE NoneAfter(q, k, n) /\ \E i \in DOMAIN ns : k \in KeysOf(ns[i])
    <3>1. PICK i \in DOMAIN ns : k \in KeysOf(ns[i])
      BY <2>2
    <3>2. ASSUME NEW j \in DOMAIN all, j > n, j < Len(q) + i PROVE k \notin KeysOf(all[j])
      <4>1. CASE j <= Len(q)
        BY <1>1, <2>2, <3>2, <4>1 DEF NoneAfter
      <4>2. CASE j > Len(q)
        <5>1. j - Len(q) \in DOMAIN ns /\ j - Len(q) # i /\ all[j] = ns[j - Len(q)]
          BY <1>1, <3>2, <4>2
        <5> QED BY <3>1, <5>1 DEF Continues
      <4> QED BY <1>1, <4>1, <4>2
    <3>3. FirstAfter(all, k, n, Len(q) + i)
      BY <1>1, <1>2, <3>1, <3>2 DEF FirstAfter
    <3>4. From(all, after, k, n) = all[Len(q) + i].old
      BY <1>1, <1>2, <3>3, FromFirst
    <3>5. From(q, objs, k, n) = At(objs, k)
      BY <2>2, FromNone
    <3> QED BY <1>1, <3>1, <3>4, <3>5 DEF Continues
  <2>3. CASE NoneAfter(q, k, n) /\ \A i \in DOMAIN ns : k \notin KeysOf(ns[i])
    <3>1. ASSUME NEW j \in DOMAIN all, j > n PROVE k \notin KeysOf(all[j])
      <4>1. CASE j <= Len(q)
        BY <1>1, <2>3, <3>1, <4>1 DEF NoneAfter
      <4>2. CASE j > Len(q)
        <5>1. j - Len(q) \in DOMAIN ns /\ all[j] = ns[j - Len(q)]
          BY <1>1, <4>2
        <5> QED BY <2>3, <5>1
      <4> QED BY <1>1, <4>1, <4>2
    <3>2. NoneAfter(all, k, n)
      BY <3>1 DEF NoneAfter
    <3> QED BY <2>3, <3>2, FromNone DEF Continues
  <2> QED BY <1>2, <2>1, <2>2, <2>3, FirstOrNone
<1>3. ASSUME NEW n \in DOMAIN all, n > Len(q), k \in KeysOf(all[n])
      PROVE  all[n].new = From(all, after, k, n)
  <2>1. n - Len(q) \in DOMAIN ns /\ all[n] = ns[n - Len(q)]
    BY <1>1, <1>3
  <2>2. NoneAfter(all, k, n)
    <3> SUFFICES ASSUME NEW j \in DOMAIN all, j > n PROVE k \notin KeysOf(all[j])
      BY DEF NoneAfter
    <3>0. j \in 1..(Len(q) + Len(ns)) /\ n \in Nat /\ Len(q) \in Nat /\ Len(ns) \in Nat
      BY <1>1
    <3>1. j - Len(q) \in DOMAIN ns /\ all[j] = ns[j - Len(q)] /\ j - Len(q) # n - Len(q)
      BY <1>1, <1>3, <3>0
    <3> QED BY <1>3, <2>1, <3>1 DEF Continues
  <2> QED BY <1>3, <2>1, <2>2, FromNone DEF Continues
<1> QED BY <1>2, <1>3 DEF all

(* Once the first notice is taken from the queue, its new state is what    *)
(* the rest starts from.                                                   *)
LEMMA FromTail ==
  ASSUME NEW S, NEW q \in Seq(S), q # <<>>, NEW k, NEW objs
  PROVE  /\ \A n \in Nat : From(Tail(q), objs, k, n) = From(q, objs, k, n + 1)
         /\ k \in KeysOf(Head(q)) => From(q, objs, k, 0) = Head(q).old
         /\ k \notin KeysOf(Head(q)) => From(q, objs, k, 0) = From(q, objs, k, 1)
<1> DEFINE t == Tail(q)
<1>1. /\ t \in Seq(S) /\ DOMAIN t = 1..(Len(q) - 1) /\ DOMAIN q = 1..Len(q) /\ Len(q) \in Nat \ {0}
      /\ \A i \in DOMAIN t : t[i] = q[i + 1]
      /\ Head(q) = q[1]
  OBVIOUS
<1> HIDE DEF t
<1>2. ASSUME NEW n \in Nat PROVE From(t, objs, k, n) = From(q, objs, k, n + 1)
  <2>1. ASSUME NEW m, FirstAfter(t, k, n, m) PROVE From(t, objs, k, n) = From(q, objs, k, n + 1)
    <3>1. m \in DOMAIN t /\ m > n /\ k \in KeysOf(t[m])
      BY <2>1 DEF FirstAfter
    <3>2. m + 1 \in DOMAIN q /\ m + 1 > n + 1 /\ k \in KeysOf(q[m + 1])
      BY <1>1, <3>1
    <3>3. ASSUME NEW j \in DOMAIN q, j > n + 1, j < m + 1 PROVE k \notin KeysOf(q[j])
      <4>1. j - 1 \in DOMAIN t /\ j - 1 > n /\ j - 1 < m /\ t[j - 1] = q[j]
        BY <1>1, <3>1, <3>3
      <4> QED BY <2>1, <4>1 DEF FirstAfter
    <3>4. FirstAfter(q, k, n + 1, m + 1)
      BY <3>2, <3>3 DEF FirstAfter
    <3>5. From(t, objs, k, n) = t[m].old
      BY <1>1, <2>1, FromFirst
    <3>6. From(q, objs, k, n + 1) = q[m + 1].old
      BY <3>4, FromFirst
    <3> QED BY <1>1, <3>1, <3>5, <3>6
  <2>2. ASSUME NoneAfter(t, k, n) PROVE From(t, objs, k, n) = From(q, objs, k, n + 1)
    <3>1. ASSUME NEW j \in DOMAIN q, j > n + 1 PROVE k \notin KeysOf(q[j])
      <4>1. j - 1 \in DOMAIN t /\ j - 1 > n /\ t[j - 1] = q[j]
        BY <1>1, <3>1
      <4> QED BY <2>2, <4>1 DEF NoneAfter
    <3>2. NoneAfter(q, k, n + 1)
      BY <3>1 DEF NoneAfter
    <3> QED BY <2>2, <3>2, FromNone
  <2> QED BY <1>1, <2>1, <2>2, FirstOrNone
<1>3. ASSUME k \in KeysOf(Head(q)) PROVE From(q, objs, k, 0) = Head(q).old
  <2>1. FirstAfter(q, k, 0, 1)
    BY <1>1, <1>3 DEF FirstAfter
  <2> QED BY <1>1, <2>1, FromFirst
<1>4. ASSUME k \notin KeysOf(Head(q)) PROVE From(q, objs, k, 0) = From(q, objs, k, 1)
  <2>1. {m \in DOMAIN q : m > 0 /\ k \in KeysOf(q[m])} = {m \in DOMAIN q : m > 1 /\ k \in KeysOf(q[m])}
    BY <1>1, <1>4
  <2> QED BY <2>1 DEF From
<1> QED BY <1>2, <1>3, <1>4 DEF t
-----------------------------------------------------------------------------
(* The notices of an initial list and of a resync.                         *)

Notices(objs) == [old : SUBSET objs, new : SUBSET objs]

LEMMA Ordered ==
  ASSUME NEW objs, IsFiniteSet(objs)
  PROVE  LET order == SetToSeq(objs)
         IN  /\ order \in Seq(objs)
             /\ \A i, j \in DOMAIN order : order[i] = order[j] => i = j
             /\ \A o \in objs : \E i \in DOMAIN order : order[i] = o
<1> DEFINE n == Cardinality(objs)
           order == SetToSeq(objs)
<1>1. n \in Nat /\ ExistsBijection(1..n, objs)
  BY FS_CardinalityType
<1>2. \E f \in [1..n -> objs] : IsInjective(f)
  BY <1>1 DEF ExistsBijection, Bijection, Injection, IsInjective
<1>3. order \in [1..n -> objs] /\ IsInjective(order)
  BY <1>2 DEF SetToSeq
<1> HIDE DEF order
<1>4. order \in Injection(1..n, objs)
  BY <1>3 DEF Injection, IsInjective
<1>5. Cardinality(1..n) = n
  BY <1>1, FS_Interval
<1>6. order \in Surjection(1..n, objs)
  BY <1>4, <1>5, FS_Injection
<1>7. \A o \in objs : \E i \in 1..n : order[i] = o
  BY <1>6 DEF Surjection
<1> HIDE DEF n
<1>8. order \in Seq(objs) /\ DOMAIN order = 1..n
  BY <1>1, <1>3
<1> QED BY <1>3, <1>7, <1>8 DEF order, IsInjective

LEMMA KeysOfAdded == \A o : KeysOf(Notice({}, {o})) = {KeyOf(o)}
BY DEF KeysOf, Notice

LEMMA KeysOfAgain == \A o : KeysOf(Notice({o}, {o})) = {KeyOf(o)}
BY DEF KeysOf, Notice

LEMMA AtOne ==
  ASSUME NEW objs, OneEach(objs), NEW o \in objs PROVE At(objs, KeyOf(o)) = {o}
BY DEF At, OneEach

LEMMA AddedIs ==
  ASSUME NEW objs, IsFiniteSet(objs), OneEach(objs), NEW all, objs \subseteq all
  PROVE  /\ Added(objs) \in Seq(Notices(all))
         /\ \A i \in DOMAIN Added(objs) : \E o \in objs : Added(objs)[i] = Notice({}, {o})
         /\ \A k, before, after : At(before, k) = {} /\ At(after, k) = At(objs, k) =>
              Continues(Added(objs), k, before, after)
<1> DEFINE order == SetToSeq(objs)
           ns == Added(objs)
<1>1. /\ order \in Seq(objs)
      /\ \A i, j \in DOMAIN order : order[i] = order[j] => i = j
      /\ \A o \in objs : \E i \in DOMAIN order : order[i] = o
  BY Ordered
<1>2. ns = [i \in DOMAIN order |-> Notice({}, {order[i]})]
  BY DEF Added
<1> HIDE DEF order, ns
<1>3. DOMAIN order = 1..Len(order) /\ Len(order) \in Nat /\ \A i \in DOMAIN order : order[i] \in objs
  BY <1>1
<1>4. DOMAIN ns = 1..Len(order) /\ \A i \in DOMAIN ns : order[i] \in objs /\ ns[i] = Notice({}, {order[i]})
  BY <1>2, <1>3
<1>5. ns \in Seq(Notices(all))
  <2>1. \A i \in DOMAIN ns : ns[i] \in Notices(all)
    BY <1>4 DEF Notice, Notices
  <2>2. ns \in [1..Len(order) -> Notices(all)]
    BY <1>2, <1>3, <2>1
  <2> QED BY <1>3, <2>2
<1>7. \A i \in DOMAIN ns : /\ KeysOf(ns[i]) = {KeyOf(order[i])}
                           /\ ns[i].old = {} /\ ns[i].new = {order[i]}
  BY <1>4, KeysOfAdded DEF Notice
<1>6. ASSUME NEW k, NEW before, NEW after, At(before, k) = {}, At(after, k) = At(objs, k)
      PROVE  Continues(ns, k, before, after)
  <2>1. \A i, j \in DOMAIN ns : k \in KeysOf(ns[i]) /\ k \in KeysOf(ns[j]) => i = j
    BY <1>1, <1>3, <1>4, <1>7 DEF OneEach
  <2>2. ASSUME NEW i \in DOMAIN ns, k \in KeysOf(ns[i])
        PROVE  ns[i].old = At(before, k) /\ ns[i].new = At(after, k)
    <3>1. k = KeyOf(order[i]) /\ order[i] \in objs
      BY <1>4, <1>7, <2>2
    <3>2. At(objs, k) = {order[i]}
      BY <3>1, AtOne
    <3> QED BY <1>6, <1>7, <3>2
  <2>3. (\A i \in DOMAIN ns : k \notin KeysOf(ns[i])) => At(objs, k) = {}
    BY <1>1, <1>3, <1>4, <1>7 DEF At
  <2> QED BY <1>6, <2>1, <2>2, <2>3 DEF Continues
<1> QED BY <1>4, <1>5, <1>6 DEF ns

LEMMA AgainIs ==
  ASSUME NEW objs, IsFiniteSet(objs), OneEach(objs), NEW all, objs \subseteq all
  PROVE  /\ Again(objs) \in Seq(Notices(all))
         /\ \A i \in DOMAIN Again(objs) : \E o \in objs : Again(objs)[i] = Notice({o}, {o})
         /\ \A k, before, after : At(before, k) = At(objs, k) /\ At(after, k) = At(objs, k) =>
              Continues(Again(objs), k, before, after)
<1> DEFINE order == SetToSeq(objs)
           ns == Again(objs)
<1>1. /\ order \in Seq(objs)
      /\ \A i, j \in DOMAIN order : order[i] = order[j] => i = j
      /\ \A o \in objs : \E i \in DOMAIN order : order[i] = o
  BY Ordered
<1>2. ns = [i \in DOMAIN order |-> Notice({order[i]}, {order[i]})]
  BY DEF Again
<1> HIDE DEF order, ns
<1>3. DOMAIN order = 1..Len(order) /\ Len(order) \in Nat /\ \A i \in DOMAIN order : order[i] \in objs
  BY <1>1
<1>4. DOMAIN ns = 1..Len(order)
      /\ \A i \in DOMAIN ns : order[i] \in objs /\ ns[i] = Notice({order[i]}, {order[i]})
  BY <1>2, <1>3
<1>5. ns \in Seq(Notices(all))
  <2>1. \A i \in DOMAIN ns : ns[i] \in Notices(all)
    BY <1>4 DEF Notice, Notices
  <2>2. ns \in [1..Len(order) -> Notices(all)]
    BY <1>2, <1>3, <2>1
  <2> QED BY <1>3, <2>2
<1>7. \A i \in DOMAIN ns : /\ KeysOf(ns[i]) = {KeyOf(order[i])}
                           /\ ns[i].old = {order[i]} /\ ns[i].new = {order[i]}
  BY <1>4, KeysOfAgain DEF Notice
<1>6. ASSUME NEW k, NEW before, NEW after, At(before, k) = At(objs, k), At(after, k) = At(objs, k)
      PROVE  Continues(ns, k, before, after)
  <2>1. \A i, j \in DOMAIN ns : k \in KeysOf(ns[i]) /\ k \in KeysOf(ns[j]) => i = j
    BY <1>1, <1>3, <1>4, <1>7 DEF OneEach
  <2>2. ASSUME NEW i \in DOMAIN ns, k \in KeysOf(ns[i])
        PROVE  ns[i].old = At(before, k) /\ ns[i].new = At(after, k)
    <3>1. k = KeyOf(order[i]) /\ order[i] \in objs
      BY <1>4, <1>7, <2>2
    <3>2. At(objs, k) = {order[i]}
      BY <3>1, AtOne
    <3> QED BY <1>6, <1>7, <3>2
  <2> QED BY <1>6, <2>1, <2>2 DEF Continues
<1> QED BY <1>4, <1>5, <1>6 DEF ns
-----------------------------------------------------------------------------
(* The queues: whatever waits for a handler about an object starts from    *)
(* what the notice before it ended with, and the last ends with the cache. *)

Typed ==
  /\ objects \in Worlds
  /\ api \subseteq objects /\ OneEach(api)
  /\ cache \subseteq objects /\ OneEach(cache)
  /\ synced \subseteq KindsHere
  /\ registered \in BOOLEAN
  /\ changes \in 0..MaxChanges /\ resyncs \in 0..MaxResyncs /\ faults \in 0..MaxFaults

Waiting ==
  /\ registered => KindsHere \subseteq synced
  /\ \A kind \in Kinds : kind \notin synced => OfKind(cache, kind) = {}
  /\ \A kind \in Kinds : kind \notin synced \/ ~HasHandler(kind) => queue[kind] = <<>>

About(notice, kind) == \E k \in Keys : k[1] = kind /\ KeysOf(notice) = {k}
OneState(notice) == OneEach(notice.old) /\ OneEach(notice.new)

Queued ==
  /\ queue \in [Kinds -> Seq(Notices(objects))]
  /\ \A kind \in Kinds : \A n \in DOMAIN queue[kind] :
       About(queue[kind][n], kind) /\ OneState(queue[kind][n])

Chained ==
  \A k \in Keys : \A n \in DOMAIN queue[k[1]] :
    k \in KeysOf(queue[k[1]][n]) => queue[k[1]][n].new = From(queue[k[1]], cache, k, n)

QueueInv == Typed /\ Waiting /\ Queued /\ Chained

LEMMA WorldIs ==
  ASSUME Typed
  PROVE  /\ IsFiniteSet(objects)
         /\ KindsHere \subseteq Kinds
         /\ \A o \in objects : o.kind \in WatchedKinds
         /\ \A o \in objects : o.kind \in {"pod", "replicaset"} => Listed(o.owners)
         /\ \A k \in Keys : k[1] \in KindsHere /\ k[1] \in Kinds
<1>1. \A o \in objects : o \in UNION Worlds
  BY DEF Typed
<1>2. KindsHere \subseteq Kinds
  BY <1>1 DEF KindsHere, Kinds
<1>3. \A k \in Keys : k[1] \in KindsHere
  BY DEF Keys, KeyOf, Ent, KindsHere
<1> QED BY <1>2, <1>3, WorldAssumption DEF Typed, Listed

LEMMA KeyKind == \A o : KeyOf(o)[1] = o.kind
BY DEF KeyOf, Ent

LEMMA AtSubset ==
  ASSUME NEW objs, NEW k, objs \subseteq objects
  PROVE  At(objs, k) \subseteq At(objects, k) /\ At(objs, k) \subseteq objects
BY DEF At

(* Notices join the queue of a kind that has a handler.                    *)
LEMMA Joined ==
  ASSUME QueueInv, NEW kind \in Kinds, HasHandler(kind),
         NEW ns \in Seq(Notices(objects)),
         \A i \in DOMAIN ns : About(ns[i], kind) /\ OneState(ns[i]),
         queue' = [queue EXCEPT ![kind] = @ \o ns],
         UNCHANGED <<objects, registered>>,
         \A k \in Keys : k[1] = kind => Continues(ns, k, cache, cache'),
         \A k \in Keys : k[1] # kind => At(cache', k) = At(cache, k)
  PROVE  Queued' /\ Chained' /\ \A k \in Keys : View(k)' = View(k)
<1> DEFINE q == queue[kind]
           all == q \o ns
<1>1. q \in Seq(Notices(objects))
  BY DEF QueueInv, Queued
<1>2. queue' \in [Kinds -> Seq(Notices(objects))]
      /\ queue'[kind] = all /\ \A other \in Kinds : other # kind => queue'[other] = queue[other]
  BY <1>1 DEF QueueInv, Queued
<1>3. /\ all \in Seq(Notices(objects)) /\ DOMAIN all = 1..(Len(q) + Len(ns))
      /\ \A i \in DOMAIN q : all[i] = q[i]
      /\ \A i \in DOMAIN ns : all[Len(q) + i] = ns[i]
      /\ DOMAIN q = 1..Len(q) /\ DOMAIN ns = 1..Len(ns) /\ Len(q) \in Nat /\ Len(ns) \in Nat
  BY <1>1
<1>4. Keys' = Keys /\ \A notice, other : About(notice, other)' <=> About(notice, other)
  BY DEF Keys, About
<1>5. ASSUME NEW n \in DOMAIN all PROVE About(all[n], kind) /\ OneState(all[n])
  <2>1. CASE n <= Len(q)
    BY <1>3, <2>1 DEF QueueInv, Queued
  <2>2. CASE n > Len(q)
    <3>1. n - Len(q) \in DOMAIN ns /\ all[n] = ns[n - Len(q)]
      BY <1>3, <2>2
    <3> QED BY <3>1
  <2> QED BY <1>3, <2>1, <2>2
<1>6. ASSUME NEW k \in Keys, k[1] = kind
      PROVE  /\ \A n \in 0..Len(q) : From(all, cache', k, n) = From(q, cache, k, n)
             /\ \A n \in DOMAIN all :
                  n > Len(q) /\ k \in KeysOf(all[n]) => all[n].new = From(all, cache', k, n)
  <2>1. Continues(ns, k, cache, cache')
    BY <1>6
  <2> HIDE DEF q
  <2> QED BY <1>1, <2>1, FromAppend
<1>7. ASSUME NEW k \in Keys, k[1] # kind, NEW n
      PROVE  From(queue[k[1]], cache', k, n) = From(queue[k[1]], cache, k, n)
  BY <1>7 DEF From
<1> HIDE DEF all
<1>8. Queued'
  <2> SUFFICES ASSUME NEW other \in Kinds, NEW n \in DOMAIN queue'[other]
               PROVE  About(queue'[other][n], other) /\ OneState(queue'[other][n])
    BY <1>2, <1>4 DEF Queued, OneState
  <2> QED BY <1>2, <1>5 DEF QueueInv, Queued
<1>9. Chained'
  <2> SUFFICES ASSUME NEW k \in Keys, NEW n \in DOMAIN queue'[k[1]], k \in KeysOf(queue'[k[1]][n])
               PROVE  queue'[k[1]][n].new = From(queue'[k[1]], cache', k, n)
    BY <1>4 DEF Chained
  <2>1. k[1] \in Kinds
    BY WorldIs DEF QueueInv
  <2>2. CASE k[1] # kind
    BY <1>2, <1>7, <2>1, <2>2 DEF QueueInv, Chained
  <2>3. CASE k[1] = kind /\ n <= Len(q)
    <3>1. n \in 0..Len(q) /\ n \in DOMAIN q /\ all[n] = q[n]
      BY <1>2, <1>3, <2>3
    <3>2. q[n].new = From(q, cache, k, n)
      BY <1>2, <2>3, <3>1 DEF QueueInv, Chained
    <3> QED BY <1>2, <1>6, <2>3, <3>1, <3>2
  <2>4. CASE k[1] = kind /\ n > Len(q)
    BY <1>2, <1>6, <2>4
  <2> QED BY <1>2, <1>3, <2>2, <2>3, <2>4
<1>10. ASSUME NEW k \in Keys PROVE View(k)' = View(k)
  <2>1. k[1] \in Kinds /\ (HasHandler(k[1])' <=> HasHandler(k[1]))
    BY WorldIs DEF QueueInv, HasHandler
  <2>2. From(queue'[k[1]], cache', k, 0) = From(queue[k[1]], cache, k, 0)
    <3>1. CASE k[1] = kind
      <4>1. 0 \in 0..Len(q)
        BY <1>3
      <4>2. From(all, cache', k, 0) = From(q, cache, k, 0)
        BY <1>6, <3>1, <4>1
      <4> QED BY <1>2, <3>1, <4>2
    <3>2. CASE k[1] # kind
      BY <1>2, <1>7, <2>1, <3>2
    <3> QED BY <3>1, <3>2
  <2> QED BY <2>1, <2>2 DEF View
<1> QED BY <1>8, <1>9, <1>10

(* A handler takes the first notice of its kind: it starts from what the   *)
(* handlers know of an object, and ends with what they know from then on.  *)
Taken(kind) == queue[kind] # <<>> /\ Pop(kind) /\ UNCHANGED <<objects, cache, registered>>

LEMMA TakenIs ==
  ASSUME QueueInv, NEW kind \in Kinds, Taken(kind)
  PROVE  /\ Queued' /\ Chained'
         /\ \E k \in Keys :
              /\ k[1] = kind /\ KeysOf(Next1(kind)) = {k}
              /\ View(k) = Next1(kind).old /\ View(k)' = Next1(kind).new
              /\ \A other \in Keys : other # k => View(other)' = View(other)
         /\ OneState(Next1(kind)) /\ Next1(kind) \in Notices(objects)
         /\ HasHandler(kind) /\ kind \in synced
<1> DEFINE q == queue[kind]
           t == Tail(q)
<1>1. /\ q \in Seq(Notices(objects)) /\ q # <<>>
      /\ queue' \in [Kinds -> Seq(Notices(objects))]
      /\ queue'[kind] = t /\ \A other \in Kinds : other # kind => queue'[other] = queue[other]
  BY DEF QueueInv, Queued, Taken, Pop
<1>2. /\ t \in Seq(Notices(objects)) /\ DOMAIN t = 1..(Len(q) - 1) /\ DOMAIN q = 1..Len(q)
      /\ Len(q) \in Nat \ {0} /\ Head(q) = q[1] /\ \A i \in DOMAIN t : t[i] = q[i + 1]
  BY <1>1
<1>3. Keys' = Keys /\ \A notice, other : About(notice, other)' <=> About(notice, other)
  BY DEF Keys, About, Taken
<1>4. HasHandler(kind) /\ kind \in synced
  BY DEF QueueInv, Waiting, Taken
<1>5. 1 \in DOMAIN q /\ Next1(kind) = q[1]
  BY <1>2 DEF Next1
<1>6. PICK k \in Keys : k[1] = kind /\ KeysOf(q[1]) = {k}
  BY <1>5 DEF QueueInv, Queued, About
<1>7. OneState(q[1]) /\ q[1] \in Notices(objects)
  BY <1>1, <1>5 DEF QueueInv, Queued
<1>8. ASSUME NEW key
      PROVE  /\ \A n \in Nat : From(t, cache, key, n) = From(q, cache, key, n + 1)
             /\ key \in KeysOf(q[1]) => From(q, cache, key, 0) = q[1].old
             /\ key \notin KeysOf(q[1]) => From(q, cache, key, 0) = From(q, cache, key, 1)
  <2> HIDE DEF q
  <2>1. /\ \A n \in Nat : From(Tail(q), cache, key, n) = From(q, cache, key, n + 1)
        /\ key \in KeysOf(Head(q)) => From(q, cache, key, 0) = Head(q).old
        /\ key \notin KeysOf(Head(q)) => From(q, cache, key, 0) = From(q, cache, key, 1)
    BY <1>1, FromTail
  <2> QED BY <1>2, <2>1
<1> HIDE DEF t
<1>9. Queued'
  <2> SUFFICES ASSUME NEW other \in Kinds, NEW n \in DOMAIN queue'[other]
               PROVE  About(queue'[other][n], other) /\ OneState(queue'[other][n])
    BY <1>1, <1>3 DEF Queued, OneState, Taken
  <2>1. CASE other # kind
    BY <1>1, <2>1 DEF QueueInv, Queued
  <2>2. CASE other = kind
    <3>1. n \in DOMAIN t /\ n + 1 \in DOMAIN q /\ t[n] = q[n + 1]
      BY <1>1, <1>2, <2>2
    <3> QED BY <1>1, <2>2, <3>1 DEF QueueInv, Queued
  <2> QED BY <2>1, <2>2
<1>10. Chained'
  <2> SUFFICES ASSUME NEW key \in Keys, NEW n \in DOMAIN queue'[key[1]],
                      key \in KeysOf(queue'[key[1]][n])
               PROVE  queue'[key[1]][n].new = From(queue'[key[1]], cache, key, n)
    BY <1>3 DEF Chained, Taken
  <2>1. key[1] \in Kinds
    BY WorldIs DEF QueueInv
  <2>2. CASE key[1] # kind
    BY <1>1, <2>1, <2>2 DEF QueueInv, Chained
  <2>3. CASE key[1] = kind
    <3>1. n \in DOMAIN t /\ n \in Nat /\ n + 1 \in DOMAIN q /\ t[n] = q[n + 1]
      BY <1>1, <1>2, <2>3
    <3>2. q[n + 1].new = From(q, cache, key, n + 1)
      BY <1>1, <2>3, <3>1 DEF QueueInv, Chained
    <3> QED BY <1>1, <1>8, <2>3, <3>1, <3>2
  <2> QED BY <2>2, <2>3
<1>11. \A key \in Keys : key[1] \in Kinds /\ (HasHandler(key[1])' <=> HasHandler(key[1]))
  BY WorldIs DEF QueueInv, HasHandler, Taken
<1>12. View(k) = q[1].old /\ View(k)' = q[1].new
  <2>1. q[1].new = From(q, cache, k, 1)
    BY <1>5, <1>6 DEF QueueInv, Chained
  <2>2. From(t, cache, k, 0) = q[1].new /\ From(q, cache, k, 0) = q[1].old
    BY <1>6, <1>8, <2>1
  <2> QED BY <1>1, <1>4, <1>6, <1>11, <2>2 DEF View, Taken
<1>13. ASSUME NEW other \in Keys, other # k PROVE View(other)' = View(other)
  <2>1. CASE other[1] # kind
    BY <1>1, <1>11, <2>1 DEF View, Taken
  <2>2. CASE other[1] = kind
    <3>1. From(t, cache, other, 0) = From(q, cache, other, 0)
      BY <1>6, <1>8, <1>13
    <3> QED BY <1>1, <1>11, <2>2, <3>1 DEF View, Taken
  <2> QED BY <2>1, <2>2
<1> QED BY <1>4, <1>5, <1>6, <1>7, <1>9, <1>10, <1>12, <1>13
-----------------------------------------------------------------------------
(* What each step does to the queues, and so to what handlers know.        *)

Quiet == \A k \in Keys : View(k)' = View(k)

LEMMA NothingQueued ==
  ASSUME QueueInv, UNCHANGED <<objects, cache, synced, registered, queue>>, Typed'
  PROVE  QueueInv' /\ Quiet
<1>1. Waiting'
  BY DEF QueueInv, Waiting, HasHandler, KindsHere
<1>2. Queued'
  BY DEF QueueInv, Queued, About, OneState, Keys
<1>3. Chained'
  BY DEF QueueInv, Chained, Keys
<1>4. Quiet
  BY DEF Quiet, View, HasHandler
<1> QED BY <1>1, <1>2, <1>3, <1>4 DEF QueueInv

LEMMA ChangeIs ==
  ASSUME NEW o, NEW objs, QueueInv, Change(o, objs), objs \subseteq objects, OneEach(objs)
  PROVE  QueueInv' /\ Quiet
<1>1. Typed'
  BY BoundAssumption DEF QueueInv, Typed, Change, KindsHere
<1> QED BY <1>1, NothingQueued DEF Change

LEMMA ApiIs ==
  ASSUME QueueInv, NEW o \in objects, ApiSet(o) \/ ApiDelete(o) PROVE QueueInv' /\ Quiet
<1>1. CASE ApiSet(o)
  <2> DEFINE objs == (api \ At(api, KeyOf(o))) \cup {o}
  <2>1. objs \subseteq objects /\ OneEach(objs)
    BY DEF QueueInv, Typed, OneEach, At
  <2> QED BY <1>1, <2>1, ChangeIs DEF ApiSet
<1>2. CASE ApiDelete(o)
  <2>1. api \ {o} \subseteq objects /\ OneEach(api \ {o})
    BY DEF QueueInv, Typed, OneEach
  <2> QED BY <1>2, <2>1, ChangeIs DEF ApiDelete
<1> QED BY <1>1, <1>2

LEMMA FinitePart ==
  ASSUME Typed, NEW objs, objs \subseteq objects PROVE IsFiniteSet(objs)
BY WorldIs, FS_Subset

(* The new cache of a kind, and what is queued for it.                     *)
LEMMA NotifyIs ==
  ASSUME QueueInv, NEW kind \in Kinds, NEW ns, Notify(kind, ns),
         HasHandler(kind) => /\ ns \in Seq(Notices(objects))
                             /\ \A i \in DOMAIN ns : About(ns[i], kind) /\ OneState(ns[i])
                             /\ \A k \in Keys : k[1] = kind => Continues(ns, k, cache, cache'),
         UNCHANGED <<objects, registered>>,
         \A k \in Keys : k[1] # kind => At(cache', k) = At(cache, k)
  PROVE  /\ Queued' /\ Chained' /\ Quiet
         /\ \A other \in Kinds : other # kind \/ ~HasHandler(kind) => queue'[other] = queue[other]
<1>1. CASE HasHandler(kind)
  <2>1. queue' = [queue EXCEPT ![kind] = @ \o ns]
    BY <1>1 DEF Notify
  <2>2. Queued' /\ Chained' /\ \A k \in Keys : View(k)' = View(k)
    BY <1>1, <2>1, Joined
  <2> QED BY <1>1, <2>1, <2>2 DEF Quiet, QueueInv, Queued
<1>2. CASE ~HasHandler(kind)
  <2>1. queue' = queue /\ queue[kind] = <<>>
    BY <1>2 DEF Notify, QueueInv, Waiting
  <2>2. Queued'
    BY <2>1 DEF QueueInv, Queued, About, OneState, Keys
  <2>3. ASSUME NEW k \in Keys, k[1] # kind, NEW n
        PROVE  From(queue[k[1]], cache', k, n) = From(queue[k[1]], cache, k, n)
    BY <2>3 DEF From
  <2>4. Chained'
    <3> SUFFICES ASSUME NEW k \in Keys, NEW n \in DOMAIN queue[k[1]], k \in KeysOf(queue[k[1]][n])
                 PROVE  queue[k[1]][n].new = From(queue[k[1]], cache', k, n)
      BY <2>1 DEF Chained, Keys
    <3>1. k[1] # kind
      BY <2>1
    <3> QED BY <2>3, <3>1 DEF QueueInv, Chained
  <2>5. ASSUME NEW k \in Keys PROVE View(k)' = View(k)
    <3>1. HasHandler(k[1])' <=> HasHandler(k[1])
      BY DEF HasHandler
    <3> QED BY <1>2, <2>1, <2>3, <3>1 DEF View
  <2> QED BY <2>1, <2>2, <2>4, <2>5 DEF Quiet
<1> QED BY <1>1, <1>2

LEMMA KeysAre == \A o \in objects : KeyOf(o) \in Keys
BY DEF Keys

LEMMA AddedOne ==
  ASSUME NEW objs, objs \subseteq objects, NEW kind, \A o \in objs : o.kind = kind,
         NEW o \in objs, NEW notice \in {Notice({}, {o}), Notice({o}, {o})}
  PROVE  About(notice, kind) /\ OneState(notice)
<1>1. KeysOf(notice) = {KeyOf(o)} /\ KeyOf(o) \in Keys /\ KeyOf(o)[1] = kind
  BY KeysOfAdded, KeysOfAgain, KeysAre, KeyKind
<1>2. OneState(notice)
  BY DEF OneState, OneEach, Notice
<1> QED BY <1>1, <1>2 DEF About

LEMMA SyncIs ==
  ASSUME QueueInv, NEW kind \in KindsHere, Sync(kind) PROVE QueueInv' /\ Quiet
<1> DEFINE objs == OfKind(api, kind)
           ns == Added(objs)
<1>1. kind \in Kinds /\ kind \notin synced /\ OfKind(cache, kind) = {} /\ cache' = cache \cup objs
      /\ queue[kind] = <<>>
  BY WorldIs DEF QueueInv, Waiting, Sync
<1>2. objs \subseteq objects /\ OneEach(objs) /\ \A o \in objs : o.kind = kind
  BY DEF QueueInv, Typed, OfKind, OneEach
<1> HIDE DEF objs
<1>3. /\ ns \in Seq(Notices(objects))
      /\ \A i \in DOMAIN ns : \E o \in objs : ns[i] = Notice({}, {o})
      /\ \A k, before, after : At(before, k) = {} /\ At(after, k) = At(objs, k) =>
           Continues(ns, k, before, after)
  BY <1>2, AddedIs, FinitePart DEF QueueInv
<1>4. \A i \in DOMAIN ns : About(ns[i], kind) /\ OneState(ns[i])
  BY <1>2, <1>3, AddedOne
<1>5. ASSUME NEW k \in Keys, k[1] = kind PROVE At(cache, k) = {} /\ At(cache', k) = At(objs, k)
  <2>1. At(cache, k) = {}
    BY <1>1, <1>5, KeyKind DEF At, OfKind
  <2> QED BY <1>1, <2>1 DEF At
<1>6. ASSUME NEW k \in Keys, k[1] # kind PROVE At(cache', k) = At(cache, k)
  BY <1>1, <1>2, <1>6, KeyKind DEF At
<1>7. Notify(kind, ns) /\ UNCHANGED <<objects, registered>> /\ synced' = synced \cup {kind}
  BY DEF Sync, objs
<1> HIDE DEF ns
<1>8. /\ Queued' /\ Chained' /\ Quiet
      /\ \A other \in Kinds : other # kind \/ ~HasHandler(kind) => queue'[other] = queue[other]
  BY <1>1, <1>3, <1>4, <1>5, <1>6, <1>7, NotifyIs
<1>9. OneEach(cache')
  <2> SUFFICES ASSUME NEW o \in cache, NEW p \in objs, KeyOf(o) = KeyOf(p) PROVE FALSE
    BY <1>1, <1>2 DEF QueueInv, Typed, OneEach
  <2>1. o.kind = kind
    BY <1>2, KeyKind
  <2> QED BY <1>1, <2>1 DEF OfKind
<1>10. Typed'
  BY <1>1, <1>2, <1>7, <1>9 DEF QueueInv, Typed, Sync, KindsHere
<1>11. Waiting'
  <2>1. registered => KindsHere' \subseteq synced'
    BY <1>7 DEF QueueInv, Waiting, KindsHere
  <2>2. \A other : HasHandler(other)' <=> HasHandler(other)
    BY <1>7 DEF HasHandler
  <2>3. ASSUME NEW other \in Kinds, other \notin synced' PROVE OfKind(cache', other) = {}
    BY <1>1, <1>2, <1>7, <2>3 DEF QueueInv, Waiting, OfKind
  <2>4. ASSUME NEW other \in Kinds, other \notin synced' \/ ~HasHandler(other)
        PROVE  queue'[other] = <<>>
    <3>1. other # kind \/ ~HasHandler(kind)
      BY <1>7, <2>4
    <3>2. queue[other] = <<>>
      BY <1>1, <1>7, <2>4 DEF QueueInv, Waiting
    <3> QED BY <1>8, <3>1, <3>2
  <2> QED BY <1>7, <2>1, <2>2, <2>3, <2>4 DEF Waiting
<1> QED BY <1>8, <1>10, <1>11 DEF QueueInv
LEMMA ObserveIs ==
  ASSUME QueueInv, NEW k \in Keys, Observe(k) PROVE QueueInv' /\ Quiet
<1> DEFINE kind == k[1]
           notice == Notice(At(cache, k), At(api, k))
           ns == <<notice>>
<1>1. kind \in Kinds /\ kind \in synced /\ cache' = (cache \ At(cache, k)) \cup At(api, k)
      /\ Notify(kind, ns) /\ UNCHANGED <<objects, registered, synced, api>>
  BY WorldIs DEF QueueInv, Observe
<1>2. /\ At(cache, k) \subseteq objects /\ At(api, k) \subseteq objects
      /\ OneEach(At(cache, k)) /\ OneEach(At(api, k))
      /\ \A o \in At(cache, k) \cup At(api, k) : KeyOf(o) = k
  BY DEF QueueInv, Typed, At, OneEach
<1>3. KeysOf(notice) = {k}
  <2>1. At(cache, k) \cup At(api, k) # {}
    BY DEF Observe
  <2>2. notice.old = At(cache, k) /\ notice.new = At(api, k)
    BY DEF Notice
  <2> QED BY <1>2, <2>1, <2>2 DEF KeysOf
<1>4. At(cache', k) = At(api, k)
  BY <1>1 DEF At
<1>5. \A other : other # k => At(cache', other) = At(cache, other)
  BY <1>1 DEF At
<1>6. /\ notice \in Notices(objects) /\ About(notice, kind) /\ OneState(notice)
      /\ notice.old = At(cache, k) /\ notice.new = At(api, k)
  BY <1>2, <1>3 DEF Notices, Notice, About, OneState
<1> HIDE DEF notice
<1>7. /\ ns \in Seq(Notices(objects))
      /\ \A i \in DOMAIN ns : About(ns[i], kind) /\ OneState(ns[i])
  BY <1>6
<1>8. ASSUME NEW other \in Keys, other[1] = kind PROVE Continues(ns, other, cache, cache')
  <2>1. CASE other = k
    BY <1>3, <1>4, <1>6, <2>1 DEF Continues
  <2>2. CASE other # k
    BY <1>3, <1>5, <2>2 DEF Continues
  <2> QED BY <2>1, <2>2
<1>9. \A other \in Keys : other[1] # kind => At(cache', other) = At(cache, other)
  BY <1>5
<1> HIDE DEF ns
<1>10. /\ Queued' /\ Chained' /\ Quiet
       /\ \A other \in Kinds : other # kind \/ ~HasHandler(kind) => queue'[other] = queue[other]
  BY <1>1, <1>7, <1>8, <1>9, NotifyIs
<1>11. cache' \subseteq objects /\ OneEach(cache')
  <2>1. cache' \subseteq objects
    BY <1>1, <1>2 DEF QueueInv, Typed
  <2>2. ASSUME NEW o \in cache', NEW p \in cache', KeyOf(o) = KeyOf(p) PROVE o = p
    <3>1. CASE KeyOf(o) = k
      BY <1>4, <1>2, <2>2, <3>1 DEF At, OneEach
    <3>2. CASE KeyOf(o) # k
      BY <1>1, <1>2, <2>2, <3>2 DEF QueueInv, Typed, OneEach
    <3> QED BY <3>1, <3>2
  <2> QED BY <2>1, <2>2 DEF OneEach
<1>12. Typed'
  BY <1>1, <1>11 DEF QueueInv, Typed, Observe, KindsHere
<1>13. Waiting'
  <2>1. \A other : HasHandler(other)' <=> HasHandler(other)
    BY <1>1 DEF HasHandler
  <2>2. registered => KindsHere' \subseteq synced
    BY <1>1 DEF QueueInv, Waiting, KindsHere
  <2>3. ASSUME NEW other \in Kinds, other \notin synced PROVE OfKind(cache', other) = {}
    <3>1. other # kind /\ \A o \in At(api, k) : o.kind = kind
      BY <1>1, <1>2, <2>3, KeyKind
    <3> QED BY <1>1, <2>3, <3>1 DEF QueueInv, Waiting, OfKind
  <2>4. ASSUME NEW other \in Kinds, other \notin synced \/ ~HasHandler(other)
        PROVE  queue'[other] = <<>>
    BY <1>1, <1>10, <2>4 DEF QueueInv, Waiting
  <2> QED BY <1>1, <2>1, <2>2, <2>3, <2>4 DEF Waiting
<1> QED BY <1>10, <1>12, <1>13 DEF QueueInv

LEMMA ResyncIs ==
  ASSUME QueueInv, NEW kind \in Kinds, Resync(kind) PROVE QueueInv' /\ Quiet
<1> DEFINE objs == OfKind(cache, kind)
           ns == Again(objs)
<1>1. HasHandler(kind) /\ objs # {} /\ Notify(kind, ns)
      /\ UNCHANGED <<objects, registered, synced, api, cache>>
  BY DEF Resync
<1>2. objs \subseteq objects /\ OneEach(objs) /\ \A o \in objs : o.kind = kind
  BY DEF QueueInv, Typed, OfKind, OneEach
<1>3. ASSUME NEW k \in Keys, k[1] = kind PROVE At(cache, k) = At(objs, k)
  BY <1>3, KeyKind DEF At, OfKind
<1>4. kind \in synced
  BY <1>1 DEF QueueInv, Waiting
<1> HIDE DEF objs
<1>5. /\ ns \in Seq(Notices(objects))
      /\ \A i \in DOMAIN ns : \E o \in objs : ns[i] = Notice({o}, {o})
      /\ \A k, before, after : At(before, k) = At(objs, k) /\ At(after, k) = At(objs, k) =>
           Continues(ns, k, before, after)
  BY <1>2, AgainIs, FinitePart DEF QueueInv
<1>6. \A i \in DOMAIN ns : About(ns[i], kind) /\ OneState(ns[i])
  BY <1>2, <1>5, AddedOne
<1> HIDE DEF ns
<1>7. \A k \in Keys : k[1] = kind => Continues(ns, k, cache, cache')
  BY <1>1, <1>3, <1>5
<1>8. \A k \in Keys : k[1] # kind => At(cache', k) = At(cache, k)
  BY <1>1
<1>9. /\ Queued' /\ Chained' /\ Quiet
      /\ \A other \in Kinds : other # kind \/ ~HasHandler(kind) => queue'[other] = queue[other]
  BY <1>1, <1>5, <1>6, <1>7, <1>8, NotifyIs
<1>10. Typed'
  <2>1. resyncs' \in 0..MaxResyncs
    BY BoundAssumption DEF QueueInv, Typed, Resync
  <2> QED BY <1>1, <2>1 DEF QueueInv, Typed, Resync, KindsHere
<1>11. Waiting'
  <2>1. \A other : HasHandler(other)' <=> HasHandler(other)
    BY <1>1 DEF HasHandler
  <2>2. ASSUME NEW other \in Kinds, other \notin synced \/ ~HasHandler(other)
        PROVE  queue'[other] = <<>>
    BY <1>1, <1>4, <1>9, <2>2 DEF QueueInv, Waiting
  <2> QED BY <1>1, <2>1, <2>2 DEF QueueInv, Waiting, KindsHere
<1> QED BY <1>9, <1>10, <1>11 DEF QueueInv

(* Only the pod handler is registered late.  Its queue has the cached pods *)
(* alone, as new: what it knows is still nothing.                          *)
LEMMA RegisterIs ==
  ASSUME QueueInv, RegisterPods PROVE QueueInv' /\ Quiet
<1> DEFINE objs == OfKind(cache, "pod")
           ns == Added(objs)
<1>1. /\ ~registered /\ registered' = TRUE /\ KindsHere \subseteq synced
      /\ queue' = IF "pod" \in Kinds THEN [queue EXCEPT !["pod"] = ns] ELSE queue
      /\ UNCHANGED <<objects, synced, api, cache>>
  BY DEF RegisterPods, Registered
<1>2. objs \subseteq objects /\ OneEach(objs) /\ \A o \in objs : o.kind = "pod"
  BY DEF QueueInv, Typed, OfKind, OneEach
<1>3. ~HasHandler("pod") /\ ("pod" \in Kinds => queue["pod"] = <<>>)
  BY <1>1 DEF QueueInv, Waiting, HasHandler
<1>4. ASSUME NEW k \in Keys, k[1] = "pod" PROVE At(cache, k) = At(objs, k)
  BY <1>4, KeyKind DEF At, OfKind
<1> HIDE DEF objs
<1>5. /\ ns \in Seq(Notices(objects))
      /\ \A i \in DOMAIN ns : \E o \in objs : ns[i] = Notice({}, {o})
      /\ \A k, before, after : At(before, k) = {} /\ At(after, k) = At(objs, k) =>
           Continues(ns, k, before, after)
  BY <1>2, AddedIs, FinitePart DEF QueueInv
<1>6. \A i \in DOMAIN ns : About(ns[i], "pod") /\ OneState(ns[i])
  BY <1>2, <1>5, AddedOne
<1> HIDE DEF ns
<1>7. /\ queue' \in [Kinds -> Seq(Notices(objects))]
      /\ \A kind \in Kinds : queue'[kind] = IF kind = "pod" THEN ns ELSE queue[kind]
  BY <1>1, <1>5 DEF QueueInv, Queued
<1>8. Keys' = Keys /\ \A notice, kind : About(notice, kind)' <=> About(notice, kind)
  BY <1>1 DEF Keys, About
<1>9. Queued'
  <2> SUFFICES ASSUME NEW kind \in Kinds, NEW n \in DOMAIN queue'[kind]
               PROVE  About(queue'[kind][n], kind) /\ OneState(queue'[kind][n])
    BY <1>1, <1>7, <1>8 DEF Queued, OneState
  <2> QED BY <1>6, <1>7 DEF QueueInv, Queued
<1>10. ASSUME NEW k \in Keys, k[1] = "pod"
       PROVE  /\ From(ns, cache, k, 0) = {}
              /\ \A n \in DOMAIN ns : k \in KeysOf(ns[n]) => ns[n].new = From(ns, cache, k, n)
  <2>1. Continues(ns, k, {}, cache)
    BY <1>4, <1>5, <1>10 DEF At
  <2> DEFINE none == <<>>
  <2>2. none \in Seq(Notices(objects)) /\ none \o ns = ns /\ Len(none) = 0 /\ DOMAIN ns = 1..Len(ns)
    BY <1>5
  <2>3. From(none, {}, k, 0) = {}
    BY DEF From, At
  <2> HIDE DEF none
  <2>4. /\ \A n \in 0..Len(none) : From(none \o ns, cache, k, n) = From(none, {}, k, n)
        /\ \A n \in DOMAIN (none \o ns) : n > Len(none) /\ k \in KeysOf((none \o ns)[n]) =>
             (none \o ns)[n].new = From(none \o ns, cache, k, n)
    <3>1. none \in Seq(Notices(objects)) /\ ns \in Seq(Notices(objects))
      BY <1>5, <2>2
    <3> HIDE DEF Notices
    <3> QED BY ONLY <2>1, <3>1, FromAppend
  <2> QED BY <2>2, <2>3, <2>4
<1>11. Chained'
  <2> SUFFICES ASSUME NEW k \in Keys, NEW n \in DOMAIN queue'[k[1]], k \in KeysOf(queue'[k[1]][n])
               PROVE  queue'[k[1]][n].new = From(queue'[k[1]], cache, k, n)
    BY <1>1, <1>8 DEF Chained
  <2>1. k[1] \in Kinds
    BY WorldIs DEF QueueInv
  <2>2. CASE k[1] # "pod"
    BY <1>7, <2>1, <2>2 DEF QueueInv, Chained
  <2>3. CASE k[1] = "pod"
    BY <1>7, <1>10, <2>1, <2>3
  <2> QED BY <2>2, <2>3
<1>12. Quiet
  <2> SUFFICES ASSUME NEW k \in Keys PROVE View(k)' = View(k)
    BY DEF Quiet
  <2>1. k[1] \in Kinds
    BY WorldIs DEF QueueInv
  <2>2. CASE k[1] # "pod"
    <3>1. HasHandler(k[1])' <=> HasHandler(k[1])
      BY <2>2 DEF HasHandler
    <3> QED BY <1>1, <1>7, <2>1, <2>2, <3>1 DEF View
  <2>3. CASE k[1] = "pod"
    BY <1>1, <1>3, <1>7, <1>10, <2>1, <2>3 DEF View
  <2> QED BY <2>2, <2>3
<1>13. Typed'
  BY <1>1 DEF QueueInv, Typed, RegisterPods, Registered, KindsHere
<1>14. Waiting'
  <2>1. ASSUME NEW kind \in Kinds, kind \notin synced \/ ~HasHandler(kind)' PROVE queue'[kind] = <<>>
    <3>1. CASE kind # "pod"
      BY <1>1, <1>7, <2>1, <3>1 DEF QueueInv, Waiting, HasHandler
    <3>2. CASE kind = "pod"
      <4>1. kind \notin synced
        BY <1>1, <2>1, <3>2 DEF HasHandler
      <4>2. objs = {}
        BY <3>2, <4>1 DEF QueueInv, Waiting, objs
      <4>3. DOMAIN ns = {} /\ DOMAIN ns = 1..Len(ns) /\ Len(ns) \in Nat
        BY <1>5, <4>2
      <4> QED BY <1>5, <1>7, <3>2, <4>3
    <3> QED BY <3>1, <3>2
  <2> QED BY <1>1, <2>1 DEF QueueInv, Waiting, KindsHere
<1> QED BY <1>9, <1>11, <1>12, <1>13, <1>14 DEF QueueInv
LEMMA FaultIs ==
  ASSUME QueueInv, NEW kind, Fault(kind) PROVE faults' \in 0..MaxFaults
BY BoundAssumption DEF QueueInv, Typed, Fault

LEMMA RestartIs ==
  ASSUME QueueInv, Restart PROVE QueueInv' /\ \A k \in Keys : View(k)' = {}
<1>1. Typed'
  BY FaultIs DEF QueueInv, Typed, Restart, OneEach, KindsHere
<1>2. Waiting'
  BY DEF Waiting, Restart, OfKind
<1>3. Queued'
  BY DEF Queued, Restart
<1>4. Chained'
  <2>1. \A k \in Keys : k[1] \in Kinds
    BY WorldIs DEF QueueInv
  <2> QED BY <2>1 DEF Chained, Restart, Keys
<1>5. ASSUME NEW k \in Keys PROVE View(k)' = {}
  <2>1. k[1] \in Kinds
    BY WorldIs DEF QueueInv
  <2>2. queue'[k[1]] = <<>> /\ At(cache', k) = {}
    BY <2>1 DEF Restart, At
  <2>3. From(queue'[k[1]], cache', k, 0) = {}
    BY <2>2 DEF From
  <2> QED BY <2>3 DEF View
<1> QED BY <1>1, <1>2, <1>3, <1>4, <1>5 DEF QueueInv

LEMMA HandledIs ==
  ASSUME QueueInv, NEW kind \in Kinds, Taken(kind), UNCHANGED <<api, synced, changes, resyncs>>,
         faults' \in 0..MaxFaults
  PROVE  QueueInv'
<1>1. Typed'
  BY DEF QueueInv, Typed, Taken, KindsHere
<1>2. Queued' /\ Chained' /\ HasHandler(kind) /\ kind \in synced
  BY TakenIs
<1>3. \A other \in Kinds : other # kind => queue'[other] = queue[other]
  BY DEF QueueInv, Queued, Taken, Pop
<1>4. Waiting'
  <2>1. \A other : HasHandler(other)' <=> HasHandler(other)
    BY DEF HasHandler, Taken
  <2> QED BY <1>2, <1>3, <2>1 DEF QueueInv, Waiting, Taken, KindsHere
<1> QED BY <1>1, <1>2, <1>4 DEF QueueInv

-----------------------------------------------------------------------------
(* What a handler's calls to the writer do, whether their batch reaches    *)
(* Redis or not: what may be there afterwards, and what is there or lost.  *)

Dropped(old, new) == {id \in old.entities \ new.entities : Owned(id)}

Writes(old, new) ==
  /\ \A x \in graph'.entities \ adrift'.entities :
       x \in new.entities \/ x \in (graph.entities \ adrift.entities) \ Dropped(old, new)
  /\ \A x : x \in new.entities \/ x \in (graph.entities \cup lost.entities) \ Dropped(old, new) =>
       x \in graph'.entities \cup lost'.entities
  /\ \A e \in graph'.edges \ adrift'.edges :
       \/ e \in new.edges \ old.edges
       \/ /\ e \in graph.edges \ adrift.edges /\ e.from \notin Dropped(old, new)
          /\ e \notin old.edges \ new.edges
  /\ \A e : \/ e \in new.edges \ old.edges
            \/ /\ e \in graph.edges \cup lost.edges /\ e.from \notin Dropped(old, new)
               /\ e \notin old.edges \ new.edges
            => e \in graph'.edges \cup lost'.edges
  /\ DOMAIN graph' = {"entities", "edges"}

(* No entity that drops out is the start of an edge that comes or stays.   *)
Closed(d) == \A e \in d.edges : e.from \in d.entities

LEMMA WriteIs ==
  ASSUME NEW old, NEW new, NEW g, NEW settled, Closed(new),
         g.entities = (graph.entities \cup new.entities) \ Dropped(old, new),
         g.edges = ({e \in graph.edges : e.from \notin Dropped(old, new)} \cup (new.edges \ old.edges))
                   \ (old.edges \ new.edges),
         DOMAIN g = {"entities", "edges"}, DOMAIN graph = {"entities", "edges"},
         settled.entities \subseteq new.entities,
         settled.edges = (new.edges \ old.edges) \cup (old.edges \ new.edges),
         Write(g, settled)
  PROVE  Writes(old, new)
<1>1. \A x \in new.entities : x \notin Dropped(old, new)
  BY DEF Dropped
<1>2. \A e \in new.edges : e.from \notin Dropped(old, new)
  BY <1>1 DEF Closed
<1>3. CASE graph' = g /\ lost' = Without(lost, settled) /\ adrift' = adrift
  <2>1. lost'.entities = lost.entities \ settled.entities /\ lost'.edges = lost.edges \ settled.edges
    BY <1>3 DEF Without
  <2> QED BY <1>1, <1>2, <1>3, <2>1 DEF Writes
<1>4. CASE /\ graph' \in {graph, EntitiesOnly(g)}
           /\ lost' = Both(Without(lost, settled), Without(g, graph'))
           /\ adrift' = Both(adrift, Without(graph', g))
  <2>1. /\ lost'.entities = (lost.entities \ settled.entities) \cup (g.entities \ graph'.entities)
        /\ lost'.edges = (lost.edges \ settled.edges) \cup (g.edges \ graph'.edges)
        /\ adrift'.entities = adrift.entities \cup (graph'.entities \ g.entities)
        /\ adrift'.edges = adrift.edges \cup (graph'.edges \ g.edges)
    BY <1>4 DEF Both, Without
  <2>2. DOMAIN graph' = {"entities", "edges"}
    BY <1>4 DEF EntitiesOnly
  <2>3. \A x \in graph'.entities \ adrift'.entities : x \in g.entities /\ x \notin adrift.entities
    BY <2>1
  <2>4. \A e \in graph'.edges \ adrift'.edges : e \in g.edges /\ e \notin adrift.edges
    BY <2>1
  <2>5. \A x : x \in g.entities \/ x \in lost.entities \ settled.entities
                => x \in graph'.entities \cup lost'.entities
    BY <2>1
  <2>6. \A e : e \in g.edges \/ e \in lost.edges \ settled.edges
                => e \in graph'.edges \cup lost'.edges
    BY <2>1
  <2> QED BY <1>1, <1>2, <2>2, <2>3, <2>4, <2>5, <2>6 DEF Writes
<1> QED BY <1>3, <1>4 DEF Write

LEMMA UpdateWrites ==
  ASSUME NEW old, NEW new, Closed(new), DOMAIN graph = {"entities", "edges"}, WriteUpdate(old, new)
  PROVE  Writes(old, new)
<1> DEFINE g == ApplyUpdate(graph, old, new)
           settled == [entities |-> new.entities,
                       edges |-> (new.edges \ old.edges) \cup (old.edges \ new.edges)]
<1>1. /\ g.entities = (graph.entities \cup new.entities) \ Dropped(old, new)
      /\ g.edges = ({e \in graph.edges : e.from \notin Dropped(old, new)} \cup (new.edges \ old.edges))
                   \ (old.edges \ new.edges)
      /\ DOMAIN g = {"entities", "edges"}
  BY DEF ApplyUpdate, Upsert, DeleteEntities, AddEdges, RemoveEdges, Dropped
<1>2. Write(g, settled)
  BY DEF WriteUpdate
<1>3. settled.entities \subseteq new.entities
      /\ settled.edges = (new.edges \ old.edges) \cup (old.edges \ new.edges)
  OBVIOUS
<1> HIDE DEF g, settled
<1> QED BY <1>1, <1>2, <1>3, WriteIs

(* An addition is an update from nothing, a deletion one to nothing.       *)
LEMMA AddWrites ==
  ASSUME NEW d, Closed(d), DOMAIN graph = {"entities", "edges"}, Write(ApplyAdd(graph, d), d)
  PROVE  Writes(Nothing, d)
<1> DEFINE g == ApplyAdd(graph, d)
<1>1. Dropped(Nothing, d) = {} /\ Nothing.edges = {}
  BY DEF Dropped, Nothing
<1>2. /\ g.entities = (graph.entities \cup d.entities) \ Dropped(Nothing, d)
      /\ g.edges = ({e \in graph.edges : e.from \notin Dropped(Nothing, d)} \cup (d.edges \ Nothing.edges))
                   \ (Nothing.edges \ d.edges)
      /\ DOMAIN g = {"entities", "edges"}
  BY <1>1 DEF ApplyAdd, Upsert, AddEdges
<1>3. d.edges = (d.edges \ Nothing.edges) \cup (Nothing.edges \ d.edges)
  BY <1>1
<1> HIDE DEF g
<1> QED BY <1>2, <1>3, WriteIs DEF g

LEMMA DeleteWrites ==
  ASSUME NEW d, DOMAIN graph = {"entities", "edges"},
         Write(ApplyDelete(graph, d), [entities |-> {}, edges |-> d.edges])
  PROVE  Writes(d, Nothing)
<1> DEFINE g == ApplyDelete(graph, d)
           settled == [entities |-> {}, edges |-> d.edges]
<1>1. Nothing.entities = {} /\ Nothing.edges = {} /\ Closed(Nothing)
  BY DEF Nothing, Closed
<1>2. Dropped(d, Nothing) = {id \in d.entities : Owned(id)}
  BY <1>1 DEF Dropped
<1>3. /\ g.entities = (graph.entities \cup Nothing.entities) \ Dropped(d, Nothing)
      /\ g.edges = ({e \in graph.edges : e.from \notin Dropped(d, Nothing)} \cup (Nothing.edges \ d.edges))
                   \ (d.edges \ Nothing.edges)
      /\ DOMAIN g = {"entities", "edges"}
  BY <1>1, <1>2 DEF ApplyDelete, DeleteEntities, RemoveEdges
<1>4. /\ settled.entities \subseteq Nothing.entities
      /\ settled.edges = (Nothing.edges \ d.edges) \cup (d.edges \ Nothing.edges)
  BY <1>1
<1> HIDE DEF g, settled
<1> QED BY <1>1, <1>3, <1>4, WriteIs DEF g, settled
-----------------------------------------------------------------------------
(* The ReplicaSets a pod handler reads are, for all that was there         *)
(* unchanged all along, those that exist; the old state that a pod's       *)
(* update holds is what it implied with such ReplicaSets.                  *)

AllReplicaSets == OfKind(objects, "replicaset")
Steady(rss) == rss \subseteq AllReplicaSets /\ \A rs \in AllReplicaSets : rs.name \notin gone => rs \in rss
Wanted(objs, rss) == UnionOf({Desired(o, rss) : o \in objs})

Holding == /\ "pod" \in Kinds /\ IsUpdate("pod")
           /\ \E rss : Steady(rss) /\ held = {Wanted(Next1("pod").old, rss)}

SteadyInv ==
  /\ Steady(OfKind(api, "replicaset"))
  /\ "replicaset" \in synced => Steady(ReplicaSets)
  /\ held = {} \/ Holding

LEMMA RegisteredSteady ==
  ASSUME QueueInv, SteadyInv, registered PROVE Steady(ReplicaSets)
<1>1. CASE "replicaset" \in KindsHere
  BY <1>1 DEF QueueInv, Waiting, SteadyInv
<1>2. CASE "replicaset" \notin KindsHere
  <2>1. AllReplicaSets = {}
    BY <1>2 DEF KindsHere, AllReplicaSets, OfKind
  <2> QED BY <2>1 DEF QueueInv, Typed, Steady, ReplicaSets, AllReplicaSets, OfKind
<1> QED BY <1>1, <1>2

LEMMA SteadyListed ==
  ASSUME Typed, NEW rss, rss \subseteq AllReplicaSets PROVE \A rs \in rss : Listed(rs.owners)
BY WorldIs DEF AllReplicaSets, OfKind

LEMMA CachedReplicaSets ==
  ASSUME Typed PROVE ReplicaSets \subseteq AllReplicaSets
BY DEF Typed, ReplicaSets, AllReplicaSets, OfKind

LEMMA HeldStays ==
  ASSUME held = {} \/ Holding, held' = held, UNCHANGED objects, gone \subseteq gone',
         Holding => /\ queue'["pod"] # <<>>
                    /\ Head(queue'["pod"]) = Head(queue["pod"])
  PROVE  (held = {} \/ Holding)'
<1>1. \A rss : Steady(rss) => Steady(rss)'
  BY DEF Steady, AllReplicaSets, OfKind
<1>2. ASSUME Holding PROVE Holding'
  <2>1. IsUpdate("pod")' /\ Next1("pod")' = Next1("pod")
    BY <1>2 DEF Holding, IsUpdate, Next1
  <2>2. PICK rss : Steady(rss) /\ held = {Wanted(Next1("pod").old, rss)}
    BY <1>2 DEF Holding
  <2>3. Steady(rss)'
    BY <1>1, <2>2
  <2>4. Wanted(Next1("pod").old, rss)' = Wanted(Next1("pod").old, rss)
    BY <2>1 DEF Wanted
  <2> QED BY <1>2, <2>1, <2>2, <2>3, <2>4 DEF Holding
<1> QED BY <1>2

(* What joins the queues leaves the first notices alone.                   *)
LEMMA HeadStays ==
  ASSUME QueueInv, NEW kind \in Kinds, NEW ns \in Seq(Notices(objects)), Notify(kind, ns),
         NEW other \in Kinds, queue[other] # <<>>
  PROVE  queue'[other] # <<>> /\ Head(queue'[other]) = Head(queue[other])
<1> DEFINE q == queue[other]
<1>1. q \in Seq(Notices(objects)) /\ q # <<>>
  BY DEF QueueInv, Queued
<1>2. queue'[other] \in {q, q \o ns}
  BY DEF Notify, QueueInv, Queued
<1> HIDE DEF q
<1>3. q \o ns # <<>> /\ Head(q \o ns) = Head(q)
  BY <1>1
<1> QED BY <1>1, <1>2, <1>3 DEF q

LEMMA ApiSteady ==
  ASSUME QueueInv, SteadyInv, NEW o \in objects, ApiSet(o) \/ ApiDelete(o) PROVE SteadyInv'
<1>1. /\ UNCHANGED <<objects, cache, synced, queue, held>>
      /\ gone' = gone \cup {rs.name : rs \in OfKind({o}, "replicaset")}
  BY DEF ApiSet, ApiDelete, Change
<1>2. gone \subseteq gone' /\ (o.kind = "replicaset" => o.name \in gone')
  BY <1>1 DEF OfKind
<1>3. ASSUME NEW rs \in AllReplicaSets, rs.name \notin gone' PROVE rs \in api'
  <2>1. rs \in api /\ rs.kind = "replicaset"
    BY <1>2, <1>3 DEF SteadyInv, Steady, AllReplicaSets, OfKind
  <2>2. KeyOf(rs) # KeyOf(o) /\ rs # o
    BY <1>2, <1>3, <2>1 DEF KeyOf, Ent
  <2> QED BY <2>1, <2>2 DEF ApiSet, ApiDelete, Change, At
<1>4. api' \subseteq objects
  BY ApiIs, <1>1 DEF QueueInv, Typed
<1>5. Steady(OfKind(api, "replicaset"))'
  BY <1>1, <1>3, <1>4 DEF Steady, AllReplicaSets, OfKind
<1>6. "replicaset" \in synced => Steady(ReplicaSets)'
  BY <1>1, <1>2 DEF SteadyInv, Steady, AllReplicaSets, ReplicaSets, OfKind
<1>7. (held = {} \/ Holding)'
  BY <1>1, <1>2, HeldStays DEF SteadyInv, Holding, IsUpdate
<1> QED BY <1>1, <1>5, <1>6, <1>7 DEF SteadyInv

LEMMA StillSteady ==
  ASSUME SteadyInv, UNCHANGED <<objects, api, gone>>,
         "replicaset" \in synced' => Steady(ReplicaSets)',
         (held = {} \/ Holding)'
  PROVE  SteadyInv'
BY DEF SteadyInv, Steady, AllReplicaSets

LEMMA SyncSteady ==
  ASSUME QueueInv, SteadyInv, NEW kind \in KindsHere, Sync(kind) PROVE SteadyInv'
<1>1. /\ UNCHANGED <<objects, api, gone, held, registered>>
      /\ cache' = cache \cup OfKind(api, kind) /\ synced' = synced \cup {kind}
      /\ Notify(kind, Added(OfKind(api, kind)))
      /\ kind \in Kinds /\ OfKind(cache, kind) = {}
  BY WorldIs DEF Sync, QueueInv, Waiting
<1>2. ASSUME "replicaset" \in synced' PROVE Steady(ReplicaSets)'
  <2>1. CASE kind = "replicaset"
    <3>1. ReplicaSets' = OfKind(api, "replicaset")
      BY <1>1, <2>1 DEF ReplicaSets, OfKind
    <3> QED BY <1>1, <3>1 DEF SteadyInv, Steady, AllReplicaSets
  <2>2. CASE kind # "replicaset"
    <3>1. ReplicaSets' = ReplicaSets
      BY <1>1, <2>2 DEF ReplicaSets, OfKind
    <3> QED BY <1>1, <1>2, <2>2, <3>1 DEF SteadyInv, Steady, AllReplicaSets
  <2> QED BY <2>1, <2>2
<1>3. (held = {} \/ Holding)'
  <2>1. OfKind(api, kind) \subseteq objects /\ OneEach(OfKind(api, kind))
    BY DEF QueueInv, Typed, OfKind, OneEach
  <2>2. Added(OfKind(api, kind)) \in Seq(Notices(objects))
    BY <2>1, FinitePart, AddedIs DEF QueueInv
  <2>3. Holding => queue'["pod"] # <<>> /\ Head(queue'["pod"]) = Head(queue["pod"])
    BY <1>1, <2>2, HeadStays DEF Holding, IsUpdate
  <2> QED BY <1>1, <2>3, HeldStays DEF SteadyInv
<1> QED BY <1>1, <1>2, <1>3, StillSteady

LEMMA ObserveSteady ==
  ASSUME QueueInv, SteadyInv, NEW k \in Keys, Observe(k) PROVE SteadyInv'
<1> DEFINE ns == <<Notice(At(cache, k), At(api, k))>>
<1>1. /\ UNCHANGED <<objects, api, gone, held, registered, synced>>
      /\ cache' = (cache \ At(cache, k)) \cup At(api, k)
      /\ Notify(k[1], ns) /\ k[1] \in Kinds
  BY WorldIs DEF Observe, QueueInv
<1>2. ASSUME "replicaset" \in synced PROVE Steady(ReplicaSets)'
  <2>1. ReplicaSets' \subseteq AllReplicaSets
    BY <1>1 DEF QueueInv, Typed, ReplicaSets, AllReplicaSets, OfKind, At
  <2>2. ASSUME NEW rs \in AllReplicaSets, rs.name \notin gone PROVE rs \in ReplicaSets'
    <3>1. rs \in OfKind(api, "replicaset") /\ rs \in ReplicaSets
      BY <1>2, <2>2 DEF SteadyInv, Steady
    <3> QED BY <1>1, <3>1 DEF ReplicaSets, OfKind, At
  <2> QED BY <1>1, <2>1, <2>2 DEF Steady, AllReplicaSets
<1>3. (held = {} \/ Holding)'
  <2>1. Notice(At(cache, k), At(api, k)) \in Notices(objects)
    BY DEF Notice, Notices, QueueInv, Typed, At
  <2>2. ns \in Seq(Notices(objects))
    BY <2>1
  <2> HIDE DEF ns
  <2>3. Holding => queue'["pod"] # <<>> /\ Head(queue'["pod"]) = Head(queue["pod"])
    BY <1>1, <2>2, HeadStays DEF Holding, IsUpdate
  <2> QED BY <1>1, <2>3, HeldStays DEF SteadyInv
<1> QED BY <1>1, <1>2, <1>3, StillSteady

LEMMA ResyncSteady ==
  ASSUME QueueInv, SteadyInv, NEW kind \in Kinds, Resync(kind) PROVE SteadyInv'
<1>1. /\ UNCHANGED <<objects, api, gone, held, registered, synced, cache>>
      /\ Notify(kind, Again(OfKind(cache, kind)))
  BY DEF Resync
<1>2. "replicaset" \in synced => Steady(ReplicaSets)'
  BY <1>1 DEF SteadyInv, Steady, AllReplicaSets, ReplicaSets
<1>3. (held = {} \/ Holding)'
  <2>1. OfKind(cache, kind) \subseteq objects /\ OneEach(OfKind(cache, kind))
    BY DEF QueueInv, Typed, OfKind, OneEach
  <2>2. Again(OfKind(cache, kind)) \in Seq(Notices(objects))
    BY <2>1, FinitePart, AgainIs DEF QueueInv
  <2>3. Holding => queue'["pod"] # <<>> /\ Head(queue'["pod"]) = Head(queue["pod"])
    BY <1>1, <2>2, HeadStays DEF Holding, IsUpdate
  <2> QED BY <1>1, <2>3, HeldStays DEF SteadyInv
<1> QED BY <1>1, <1>2, <1>3, StillSteady

LEMMA RegisterSteady ==
  ASSUME QueueInv, SteadyInv, RegisterPods PROVE SteadyInv'
<1>1. UNCHANGED <<objects, api, gone, held, synced, cache>>
  BY DEF RegisterPods, Registered
<1>2. "replicaset" \in synced => Steady(ReplicaSets)'
  BY <1>1 DEF SteadyInv, Steady, AllReplicaSets, ReplicaSets
<1>3. held = {}
  <2>1. ~HasHandler("pod")
    BY DEF HasHandler, RegisterPods, Registered
  <2> QED BY <2>1 DEF QueueInv, Waiting, SteadyInv, Holding, IsUpdate
<1> QED BY <1>1, <1>2, <1>3, StillSteady

LEMMA ResolveSteady ==
  ASSUME QueueInv, SteadyInv, ResolveOldPod PROVE SteadyInv'
<1>1. /\ UNCHANGED <<objects, api, gone, synced, cache, queue>>
      /\ "pod" \in Kinds /\ IsUpdate("pod") /\ held' = {DesiredNow(Next1("pod").old)}
  BY DEF ResolveOldPod
<1>2. "replicaset" \in synced => Steady(ReplicaSets)'
  BY <1>1 DEF SteadyInv, Steady, AllReplicaSets, ReplicaSets
<1>3. registered
  BY <1>1 DEF QueueInv, Waiting, HasHandler, IsUpdate
<1>4. Steady(ReplicaSets)
  BY <1>3, RegisteredSteady
<1>5. held' = {Wanted(Next1("pod").old, ReplicaSets)}
  BY <1>1 DEF DesiredNow, Wanted
<1>6. IsUpdate("pod")' /\ Next1("pod")' = Next1("pod") /\ Steady(ReplicaSets)' /\ ReplicaSets' = ReplicaSets
  BY <1>1, <1>4 DEF IsUpdate, Next1, Steady, AllReplicaSets, ReplicaSets
<1>7. Wanted(Next1("pod").old, ReplicaSets)' = Wanted(Next1("pod").old, ReplicaSets)
  BY <1>6 DEF Wanted
<1>8. Holding'
  <2>1. Steady(ReplicaSets)' /\ held' = {Wanted(Next1("pod").old, ReplicaSets)'}
    BY <1>5, <1>6, <1>7
  <2> QED BY <1>1, <1>6, <2>1 DEF Holding
<1> QED BY <1>1, <1>2, <1>8, StillSteady
-----------------------------------------------------------------------------
(* The handlers, each as an update of what is wanted for one object.       *)

Handles(kind) ==
  /\ Taken(kind) /\ UNCHANGED <<api, synced, gone, changes, resyncs>> /\ faults' \in 0..MaxFaults
  /\ IF kind = "pod" THEN held' = {} ELSE held' = held
  /\ \E before, after \in SUBSET AllReplicaSets :
       /\ kind = "pod" => Steady(before) /\ Steady(after)
       /\ Writes(Wanted(Next1(kind).old, before), Wanted(Next1(kind).new, after))

LEMMA WantedClosed ==
  ASSUME Typed, NEW objs, objs \subseteq objects, NEW rss, rss \subseteq AllReplicaSets
  PROVE  Closed(Wanted(objs, rss))
<1>1. \A o \in objs : Faithful(o, Desired(o, rss))
  BY WorldIs, SteadyListed, DesiredFaithful
<1>2. \A o \in objs : \A e \in Desired(o, rss).edges : e.from \in Desired(o, rss).entities
  BY <1>1 DEF Faithful
<1> QED BY <1>2 DEF Closed, Wanted, UnionOf

LEMMA WantedNothing == \A rss : Wanted({}, rss) = Nothing
BY DEF Wanted, UnionOf, Nothing

LEMMA WriteFaults ==
  ASSUME QueueInv, NEW g, NEW settled, Write(g, settled)
  PROVE  /\ UNCHANGED <<objects, api, cache, synced, registered, gone, changes, resyncs>>
         /\ faults' \in 0..MaxFaults
<1>1. faults' \in 0..MaxFaults
  BY FaultIs DEF Write, QueueInv, Typed
<1> QED BY <1>1 DEF Write

LEMMA HandlerIs ==
  ASSUME QueueInv, SteadyInv, DOMAIN graph = {"entities", "edges"}, NEW kind \in Kinds,
         \/ HandleAdd(kind) \/ HandleDelete(kind) \/ HandleUpdate(kind)
         \/ kind = "pod" /\ UpdatePod
  PROVE  Handles(kind)
<1> DEFINE notice == Next1(kind)
           old == Wanted(notice.old, ReplicaSets)
           new == Wanted(notice.new, ReplicaSets)
<1>1. ReplicaSets \in SUBSET AllReplicaSets
  BY CachedReplicaSets DEF QueueInv
<1>2. queue[kind] # <<>> /\ Pop(kind)
  <2>1. CASE kind = "pod" /\ UpdatePod
    BY <2>1 DEF UpdatePod, SteadyInv, Holding, IsUpdate
  <2> QED BY <2>1 DEF HandleAdd, HandleDelete, HandleUpdate, IsUpdate
<1>3. notice \in Notices(objects)
  <2>1. queue[kind] \in Seq(Notices(objects))
    BY DEF QueueInv, Queued
  <2> QED BY <1>2, <2>1 DEF Next1
<1>4. notice.old \subseteq objects /\ notice.new \subseteq objects
  BY <1>3 DEF Notices
<1>5. kind = "pod" => Steady(ReplicaSets)
  <2>1. kind = "pod" => registered
    BY <1>2 DEF QueueInv, Waiting, HasHandler
  <2> QED BY <2>1, RegisteredSteady
<1>6. \A objs : DesiredNow(objs) = Wanted(objs, ReplicaSets)
  BY DEF DesiredNow, Wanted
<1>7. Closed(old) /\ Closed(new)
  BY <1>1, <1>4, WantedClosed DEF QueueInv
<1>8. ASSUME NEW g, NEW settled, Write(g, settled) PROVE
        /\ Taken(kind) /\ UNCHANGED <<api, synced, gone, changes, resyncs>> /\ faults' \in 0..MaxFaults
  BY <1>2, <1>8, WriteFaults DEF Taken
<1>9. CASE HandleAdd(kind)
  <2>1. notice.old = {} /\ Write(ApplyAdd(graph, new), new) /\ held' = held
    BY <1>6, <1>9 DEF HandleAdd
  <2>2. old = Nothing
    BY <2>1, WantedNothing
  <2>3. kind = "pod" => held = {}
    BY <2>1 DEF SteadyInv, Holding, IsUpdate
  <2>4. Writes(Nothing, new)
    BY <1>7, <2>1, AddWrites
  <2> QED BY <1>1, <1>5, <1>8, <2>1, <2>2, <2>3, <2>4 DEF Handles
<1>10. CASE HandleDelete(kind)
  <2>1. notice.new = {} /\ Write(ApplyDelete(graph, old), [entities |-> {}, edges |-> old.edges])
        /\ held' = held
    BY <1>6, <1>10 DEF HandleDelete
  <2>2. new = Nothing
    BY <2>1, WantedNothing
  <2>3. kind = "pod" => held = {}
    BY <2>1 DEF SteadyInv, Holding, IsUpdate
  <2>4. Writes(old, Nothing)
    BY <2>1, DeleteWrites
  <2> QED BY <1>1, <1>5, <1>8, <2>1, <2>2, <2>3, <2>4 DEF Handles
<1>11. CASE HandleUpdate(kind)
  <2>1. kind # "pod" /\ WriteUpdate(old, new) /\ held' = held
    BY <1>6, <1>11 DEF HandleUpdate
  <2>2. Writes(old, new)
    BY <1>7, <2>1, UpdateWrites
  <2> QED BY <1>1, <1>8, <2>1, <2>2 DEF Handles, WriteUpdate
<1>12. CASE kind = "pod" /\ UpdatePod
  <2>1. PICK rss : Steady(rss) /\ held = {Wanted(notice.old, rss)}
    BY <1>12 DEF UpdatePod, SteadyInv, Holding
  <2>2. WriteUpdate(Wanted(notice.old, rss), new) /\ held' = {}
    BY <1>6, <1>12, <2>1 DEF UpdatePod
  <2>3. Writes(Wanted(notice.old, rss), new)
    BY <1>7, <2>2, UpdateWrites
  <2>4. rss \in SUBSET AllReplicaSets
    BY <2>1 DEF Steady
  <2> QED BY <1>1, <1>5, <1>8, <1>12, <2>1, <2>2, <2>3, <2>4 DEF Handles, WriteUpdate
<1> QED BY <1>9, <1>10, <1>11, <1>12

LEMMA HandlerSteady ==
  ASSUME QueueInv, SteadyInv, NEW kind \in Kinds, Handles(kind) PROVE SteadyInv'
<1>1. UNCHANGED <<objects, api, gone, cache, synced>>
  BY DEF Handles, Taken
<1>2. "replicaset" \in synced => Steady(ReplicaSets)'
  BY <1>1 DEF SteadyInv, Steady, AllReplicaSets, ReplicaSets
<1>3. (held = {} \/ Holding)'
  <2>1. CASE kind = "pod"
    BY <2>1 DEF Handles
  <2>2. CASE kind # "pod"
    <3>1. "pod" \in Kinds => queue'["pod"] = queue["pod"]
      BY <2>2 DEF Handles, Taken, Pop, QueueInv, Queued
    <3>2. Holding => queue'["pod"] # <<>> /\ Head(queue'["pod"]) = Head(queue["pod"])
      BY <3>1 DEF Holding, IsUpdate
    <3> QED BY <1>1, <2>2, <3>2, HeldStays DEF SteadyInv, Handles
  <2> QED BY <2>1, <2>2
<1> QED BY <1>1, <1>2, <1>3, StillSteady
-----------------------------------------------------------------------------
(* What is wanted for one object is its own, and no other object's.        *)

LEMMA FixedIs ==
  ASSUME Typed, NEW k, NEW o \in At(objects, k)
  PROVE  /\ \A x \in Fixed(o).entities : Owned(x) => IdKey(x) = k
         /\ \A e \in Fixed(o).edges : ~RegionEdge(e) => EdgeKey(e) = k
         /\ \A e \in Fixed(o).edges : Owned(e.from) => e.from \in Fixed(o).entities
<1>1. KeyOf(o) = k /\ o.kind \in WatchedKinds
  BY WorldIs DEF At
<1>2. Faithful(o, Desired(o, {}))
  BY <1>1, DesiredFaithful
<1>3. /\ Fixed(o).entities \subseteq Desired(o, {}).entities
      /\ Fixed(o).edges \subseteq Desired(o, {}).edges
      /\ \A x \in Desired(o, {}).entities : Owned(x) => x \in Fixed(o).entities
  BY <1>1, FixedPart
<1> QED BY <1>1, <1>2, <1>3 DEF Faithful, Own

(* What holds of the union of what some states of the object k imply.      *)
WantedFor(k, objs, d) ==
  /\ \A x \in d.entities : Owned(x) => IdKey(x) = k /\ \E o \in objs : x \in Fixed(o).entities
  /\ \A e \in d.edges : ~RegionEdge(e) => EdgeKey(e) = k
  /\ \A e \in d.edges : ~OwnerEdge(e) => \E o \in objs : e \in Fixed(o).edges
  /\ \A o \in objs : Fixed(o).entities \subseteq d.entities /\ Fixed(o).edges \subseteq d.edges
  /\ \A e \in d.edges : e.from \in d.entities
  /\ \A e \in d.edges : OwnerEdge(e) =>
       /\ k[1] = "pod"
       /\ \/ e.from = k /\ e.to[1] \in OwnerKinds
          \/ e.to = k /\ e.from[1] \in OwnerKinds
  /\ objs # {} => k \in d.entities

LEMMA WantedIs ==
  ASSUME Typed, NEW k, NEW objs, objs \subseteq At(objects, k), NEW rss, rss \subseteq AllReplicaSets
  PROVE  WantedFor(k, objs, Wanted(objs, rss))
<1> DEFINE d == Wanted(objs, rss)
<1>1. ASSUME NEW o \in objs
      PROVE  /\ KeyOf(o) = k /\ Faithful(o, Desired(o, rss))
             /\ Fixed(o).entities \subseteq Desired(o, rss).entities
             /\ Fixed(o).edges \subseteq Desired(o, rss).edges
             /\ \A x \in Desired(o, rss).entities : Owned(x) => x \in Fixed(o).entities
             /\ \A e \in Desired(o, rss).edges : ~OwnerEdge(e) => e \in Fixed(o).edges
  <2>1. KeyOf(o) = k /\ o.kind \in WatchedKinds
    BY WorldIs DEF At
  <2>2. \A rs \in rss : Listed(rs.owners)
    BY SteadyListed
  <2> QED BY <2>1, <2>2, DesiredFaithful, FixedPart
<1>2. /\ \A x : x \in d.entities <=> \E o \in objs : x \in Desired(o, rss).entities
      /\ \A e : e \in d.edges <=> \E o \in objs : e \in Desired(o, rss).edges
  BY DEF Wanted, UnionOf
<1> HIDE DEF d
<1>3. \A e \in d.edges : OwnerEdge(e) =>
        /\ k[1] = "pod"
        /\ \/ e.from = k /\ e.to[1] \in OwnerKinds
           \/ e.to = k /\ e.from[1] \in OwnerKinds
  BY <1>1, <1>2, KeyKind DEF Faithful, Own, OwnersEdge
<1>4. \A x \in d.entities : Owned(x) => IdKey(x) = k /\ \E o \in objs : x \in Fixed(o).entities
  BY <1>1, <1>2 DEF Faithful, Own
<1>5. \A e \in d.edges : ~RegionEdge(e) => EdgeKey(e) = k
  BY <1>1, <1>2 DEF Faithful, Own
<1>6. \A e \in d.edges : ~OwnerEdge(e) => \E o \in objs : e \in Fixed(o).edges
  BY <1>1, <1>2
<1>7. \A o \in objs : Fixed(o).entities \subseteq d.entities /\ Fixed(o).edges \subseteq d.edges
  BY <1>1, <1>2
<1>8. \A e \in d.edges : e.from \in d.entities
  BY <1>1, <1>2 DEF Faithful
<1>9. objs # {} => k \in d.entities
  BY <1>1, <1>2 DEF Faithful
<1> QED BY <1>3, <1>4, <1>5, <1>6, <1>7, <1>8, <1>9 DEF d, WantedFor

LEMMA ViewAt ==
  ASSUME QueueInv, NEW k \in Keys PROVE View(k) \subseteq At(objects, k)
<1> DEFINE q == queue[k[1]]
<1>1. q \in Seq(Notices(objects)) /\ k[1] \in Kinds
  BY WorldIs DEF QueueInv, Queued
<1>2. From(q, cache, k, 0) \subseteq At(objects, k)
  <2>1. CASE NoneAfter(q, k, 0)
    BY <2>1, FromNone, AtSubset DEF QueueInv, Typed
  <2>2. ASSUME NEW m, FirstAfter(q, k, 0, m) PROVE From(q, cache, k, 0) \subseteq At(objects, k)
    <3>1. m \in DOMAIN q /\ k \in KeysOf(q[m])
      BY <2>2 DEF FirstAfter
    <3>2. KeysOf(q[m]) = {k} /\ q[m] \in Notices(objects)
      BY <1>1, <3>1 DEF QueueInv, Queued, About
    <3>3. q[m].old \subseteq At(objects, k)
      BY <3>2 DEF KeysOf, Notices, At
    <3>4. From(q, cache, k, 0) = q[m].old
      BY <1>1, <2>2, FromFirst
    <3> QED BY <3>3, <3>4
  <2> QED BY <1>1, <2>1, <2>2, FirstOrNone
<1> QED BY <1>2 DEF View

LEMMA InImplied ==
  ASSUME NEW objs, NEW x
  PROVE  /\ x \in Implied(objs).entities <=> \E o \in objs : x \in Fixed(o).entities
         /\ x \in Implied(objs).edges <=> \E o \in objs : x \in Fixed(o).edges
BY DEF Implied, UnionOf

(* NothingMissing and NothingStale, object by object.                      *)
Kept(o) ==
  /\ Fixed(o).entities \subseteq graph.entities \cup lost.entities
  /\ \A e \in Fixed(o).edges : ~RegionEdge(e) /\ ~OwnerEdge(e) => e \in graph.edges \cup lost.edges

LEMMA MissingIs ==
  ASSUME NothingMissing, NEW k \in Keys, NEW o \in View(k) PROVE Kept(o)
<1>1. o \in Handled
  BY DEF Handled
<1> QED BY <1>1, InImplied DEF NothingMissing, Kept

LEMMA MissingNext ==
  ASSUME \A k \in Keys' : \A o \in View(k)' : Kept(o)' PROVE NothingMissing'
<1>1. \A o \in Handled' : Kept(o)'
  BY DEF Handled
<1> QED BY <1>1, InImplied DEF NothingMissing, Kept

LEMMA StaleIs ==
  ASSUME NothingStale
  PROVE  /\ \A x \in graph.entities \ adrift.entities :
              Owned(x) => \E k \in Keys : \E o \in View(k) : x \in Fixed(o).entities
         /\ \A e \in graph.edges \ adrift.edges :
              ~OwnerEdge(e) => \E k \in Keys : \E o \in View(k) : e \in Fixed(o).edges
<1>1. \A o : o \in Handled <=> \E k \in Keys : o \in View(k)
  BY DEF Handled
<1> QED BY <1>1, InImplied DEF NothingStale

LEMMA StaleNext ==
  ASSUME \A x \in graph'.entities \ adrift'.entities :
           Owned(x) => \E k \in Keys' : \E o \in View(k)' : x \in Fixed(o).entities,
         \A e \in graph'.edges \ adrift'.edges :
           ~OwnerEdge(e) => \E k \in Keys' : \E o \in View(k)' : e \in Fixed(o).edges
  PROVE  NothingStale'
<1>1. \A o : o \in Handled' <=> \E k \in Keys' : o \in View(k)'
  BY DEF Handled
<1> QED BY <1>1, InImplied DEF NothingStale

LEMMA KeysStay == ASSUME UNCHANGED objects PROVE Keys' = Keys
BY DEF Keys
(* A handler of an object k: from what was known of it to what is then.    *)
Updates(k, before, after) ==
  /\ View(k) \subseteq At(objects, k) /\ View(k)' \subseteq At(objects, k)
  /\ \A other \in Keys : other # k => View(other)' = View(other)
  /\ k[1] = "pod" => Steady(before) /\ Steady(after)
  /\ Writes(Wanted(View(k), before), Wanted(View(k)', after))

LEMMA HandlesIs ==
  ASSUME QueueInv, NEW kind \in Kinds, Handles(kind)
  PROVE  /\ UNCHANGED <<objects, gone>> /\ Keys' = Keys
         /\ \E k \in Keys : \E before, after \in SUBSET AllReplicaSets : Updates(k, before, after)
<1>1. PICK k \in Keys : /\ k[1] = kind /\ KeysOf(Next1(kind)) = {k}
                        /\ View(k) = Next1(kind).old /\ View(k)' = Next1(kind).new
                        /\ \A other \in Keys : other # k => View(other)' = View(other)
  BY TakenIs DEF Handles
<1>2. PICK before, after \in SUBSET AllReplicaSets :
        /\ kind = "pod" => Steady(before) /\ Steady(after)
        /\ Writes(Wanted(Next1(kind).old, before), Wanted(Next1(kind).new, after))
  BY DEF Handles
<1>3. Next1(kind) \in Notices(objects)
  BY TakenIs DEF Handles
<1>4. Next1(kind).old \subseteq At(objects, k) /\ Next1(kind).new \subseteq At(objects, k)
  BY <1>1, <1>3 DEF Notices, KeysOf, At
<1>5. Updates(k, before, after)
  BY <1>1, <1>2, <1>4 DEF Updates
<1>6. UNCHANGED <<objects, gone>> /\ Keys' = Keys
  BY KeysStay DEF Handles, Taken
<1> QED BY <1>5, <1>6

LEMMA HandlerMissing ==
  ASSUME QueueInv, NothingMissing, NEW kind \in Kinds, Handles(kind) PROVE NothingMissing'
<1>1. PICK k \in Keys, before \in SUBSET AllReplicaSets, after \in SUBSET AllReplicaSets :
        Updates(k, before, after)
  BY HandlesIs
<1> DEFINE old == Wanted(View(k), before)
           new == Wanted(View(k)', after)
<1>2. WantedFor(k, View(k), old)
  <2>1. View(k) \subseteq At(objects, k) /\ before \subseteq AllReplicaSets /\ Typed
    BY <1>1 DEF QueueInv, Updates
  <2> QED BY <2>1, WantedIs
<1>3. WantedFor(k, View(k)', new)
  BY <1>1, WantedIs DEF QueueInv, Updates
<1>4. Writes(old, new)
  BY <1>1 DEF Updates
<1> HIDE DEF old, new
<1>5. \A x \in Dropped(old, new) : IdKey(x) = k /\ x \notin new.entities /\ Owned(x)
  BY <1>2 DEF Dropped, WantedFor
<1>6. ASSUME NEW o \in View(k)' PROVE Kept(o)'
  <2>1. o \in At(objects, k)
    BY <1>1 DEF Updates
  <2>2. Fixed(o).entities \subseteq graph'.entities \cup lost'.entities
    BY <1>3, <1>4 DEF Writes, WantedFor
  <2>3. ASSUME NEW e \in Fixed(o).edges, ~RegionEdge(e), ~OwnerEdge(e)
        PROVE  e \in graph'.edges \cup lost'.edges
    <3>1. e \in new.edges
      BY <1>3 DEF WantedFor
    <3>2. e.from \notin Dropped(old, new)
      BY <1>3, <1>5, <2>1, FixedIs DEF QueueInv, WantedFor
    <3>3. e \in old.edges => e \in graph.edges \cup lost.edges
      BY <1>2, <2>3, MissingIs DEF Kept, WantedFor
    <3> QED BY <1>4, <3>1, <3>2, <3>3 DEF Writes
  <2> QED BY <2>2, <2>3 DEF Kept
<1>7. ASSUME NEW other \in Keys, other # k, NEW o \in View(other) PROVE Kept(o)'
  <2>1. Kept(o) /\ o \in At(objects, other)
    BY MissingIs, ViewAt
  <2>2. /\ \A x \in Fixed(o).entities : Owned(x) => IdKey(x) = other
        /\ \A e \in Fixed(o).edges : ~RegionEdge(e) => EdgeKey(e) = other
        /\ \A e \in Fixed(o).edges : Owned(e.from) => e.from \in Fixed(o).entities
    BY <2>1, FixedIs DEF QueueInv
  <2>3. Fixed(o).entities \subseteq graph'.entities \cup lost'.entities
    <3>1. \A x \in Fixed(o).entities : x \notin Dropped(old, new)
      BY <1>5, <1>7, <2>2
    <3> QED BY <1>4, <2>1, <3>1 DEF Writes, Kept
  <2>4. ASSUME NEW e \in Fixed(o).edges, ~RegionEdge(e), ~OwnerEdge(e)
        PROVE  e \in graph'.edges \cup lost'.edges
    <3>1. e.from \notin Dropped(old, new)
      BY <1>5, <1>7, <2>2
    <3>2. e \notin old.edges
      BY <1>2, <1>7, <2>2, <2>4 DEF WantedFor
    <3> QED BY <1>4, <2>1, <2>4, <3>1, <3>2 DEF Writes, Kept
  <2> QED BY <2>3, <2>4 DEF Kept
<1>8. ASSUME NEW other \in Keys, NEW o \in View(other)' PROVE Kept(o)'
  BY <1>1, <1>6, <1>7, <1>8 DEF Updates
<1> QED BY <1>8, HandlesIs, MissingNext

LEMMA HandlerStale ==
  ASSUME QueueInv, NothingStale, NEW kind \in Kinds, Handles(kind) PROVE NothingStale'
<1>1. PICK k \in Keys, before \in SUBSET AllReplicaSets, after \in SUBSET AllReplicaSets :
        Updates(k, before, after)
  BY HandlesIs
<1> DEFINE old == Wanted(View(k), before)
           new == Wanted(View(k)', after)
<1>2. WantedFor(k, View(k), old)
  BY <1>1, WantedIs DEF QueueInv, Updates
<1>3. WantedFor(k, View(k)', new)
  BY <1>1, WantedIs DEF QueueInv, Updates
<1>4. Writes(old, new)
  BY <1>1 DEF Updates
<1> HIDE DEF old, new
<1>5. \A other \in Keys : other # k => View(other)' = View(other)
  BY <1>1 DEF Updates
<1>6. ASSUME NEW x \in graph'.entities \ adrift'.entities, Owned(x)
      PROVE  \E key \in Keys : \E o \in View(key)' : x \in Fixed(o).entities
  <2>1. CASE x \in new.entities
    BY <1>3, <1>6, <2>1 DEF WantedFor
  <2>2. CASE x \notin new.entities
    <3>1. x \in graph.entities \ adrift.entities /\ x \notin Dropped(old, new)
      BY <1>4, <1>6, <2>2 DEF Writes
    <3>2. PICK key \in Keys : \E o \in View(key) : x \in Fixed(o).entities
      BY <1>6, <3>1, StaleIs
    <3>3. key # k
      BY <1>2, <1>6, <2>2, <3>1, <3>2 DEF Dropped, WantedFor
    <3> QED BY <1>5, <3>2, <3>3
  <2> QED BY <2>1, <2>2
<1>7. ASSUME NEW e \in graph'.edges \ adrift'.edges, ~OwnerEdge(e)
      PROVE  \E key \in Keys : \E o \in View(key)' : e \in Fixed(o).edges
  <2>1. CASE e \in new.edges
    BY <1>3, <1>7, <2>1 DEF WantedFor
  <2>2. CASE e \notin new.edges
    <3>1. e \in graph.edges \ adrift.edges /\ e \notin old.edges
      BY <1>4, <1>7, <2>2 DEF Writes
    <3>2. PICK key \in Keys : \E o \in View(key) : e \in Fixed(o).edges
      BY <1>7, <3>1, StaleIs
    <3>3. key # k
      BY <1>2, <3>1, <3>2 DEF WantedFor
    <3> QED BY <1>5, <3>2, <3>3
  <2> QED BY <2>1, <2>2
<1> QED BY <1>6, <1>7, HandlesIs, StaleNext
-----------------------------------------------------------------------------
(* The owner of a pod whose ReplicaSets have been there unchanged all      *)
(* along is the same whichever of the ReplicaSets that changed are known.  *)

LEMMA SteadyVia ==
  ASSUME NEW rss, Steady(rss), NEW ref, ref.kind = "replicaset" => ref.name \notin gone
  PROVE  OwnersVia(ref, rss) = OwnersVia(ref, AllReplicaSets)
<1>1. CASE ref.kind = "replicaset"
  <2>1. Named(rss, ref.name) = Named(AllReplicaSets, ref.name)
    BY <1>1 DEF Steady, Named
  <2> QED BY <1>1, <2>1 DEF OwnersVia
<1>2. CASE ref.kind # "replicaset"
  BY <1>2 DEF OwnersVia
<1> QED BY <1>1, <1>2

LEMMA SteadyWanted ==
  ASSUME Typed, NEW rss, Steady(rss), NEW k, k[1] = "pod", Settled(k),
         NEW objs, objs \subseteq At(objects, k)
  PROVE  Wanted(objs, rss) = Wanted(objs, AllReplicaSets)
<1>1. ASSUME NEW o \in objs PROVE Desired(o, rss) = Desired(o, AllReplicaSets)
  <2>1. o \in At(objects, k) /\ o.kind = "pod" /\ o \in objects
    BY KeyKind DEF At
  <2>2. Listed(o.owners)
    BY <2>1, WorldIs
  <2>3. \A i \in 1..Len(o.owners) : OwnersVia(o.owners[i], rss) = OwnersVia(o.owners[i], AllReplicaSets)
    BY <2>1, <2>2, SteadyVia DEF Settled, Listed
  <2>4. OwnerForPod(o, rss) = OwnerForPod(o, AllReplicaSets)
    BY <2>2, <2>3, SameOwner
  <2> QED BY <2>1, <2>4 DEF Desired
<1>2. {Desired(o, rss) : o \in objs} = {Desired(o, AllReplicaSets) : o \in objs}
  BY <1>1
<1> QED BY <1>2 DEF Wanted

(* OwnersOfSettled with all ReplicaSets the world has, whether they exist  *)
(* or not: a formula that changes of the API leave alone.                  *)
Owners(k) == PodEdges(Wanted(View(k), AllReplicaSets).edges, k)

OwnersKept(k) ==
  /\ \A e \in Owners(k) : /\ e \in graph.edges \cup lost.edges
                          /\ e.from \in graph.entities \cup lost.entities
  /\ \A e \in PodEdges(graph.edges, k) \ adrift.edges : e \in Owners(k)

OwnersInv == \A k \in Keys : k[1] = "pod" /\ Settled(k) => OwnersKept(k)

LEMMA AllSteady == Steady(AllReplicaSets)
BY DEF Steady

LEMMA SettledBefore ==
  ASSUME UNCHANGED objects, gone \subseteq gone', NEW k, Settled(k)' PROVE Settled(k)
BY DEF Settled, At

LEMMA HandlerOwners ==
  ASSUME QueueInv, OwnersInv, NEW kind \in Kinds, Handles(kind) PROVE OwnersInv'
<1>1. PICK k \in Keys, before \in SUBSET AllReplicaSets, after \in SUBSET AllReplicaSets :
        Updates(k, before, after)
  BY HandlesIs
<1> DEFINE old == Wanted(View(k), before)
           new == Wanted(View(k)', after)
<1>2. View(k) \subseteq At(objects, k) /\ View(k)' \subseteq At(objects, k) /\ Typed
  BY <1>1 DEF Updates, QueueInv
<1>3. WantedFor(k, View(k), old) /\ WantedFor(k, View(k)', new)
  BY <1>2, WantedIs
<1>4. Writes(old, new)
  BY <1>1 DEF Updates
<1>5. UNCHANGED <<objects, gone>> /\ Keys' = Keys
  BY HandlesIs
<1>6. AllReplicaSets' = AllReplicaSets /\ \A key : Settled(key)' <=> Settled(key)
  BY <1>5 DEF AllReplicaSets, OfKind, Settled, At
<1>7. ASSUME k[1] = "pod", Settled(k), OwnersKept(k) PROVE OwnersKept(k)'
  <2>1. old = Wanted(View(k), AllReplicaSets) /\ new = Wanted(View(k)', AllReplicaSets)
    BY <1>1, <1>2, <1>7, SteadyWanted DEF Updates
  <2>2. Owners(k) = PodEdges(old.edges, k) /\ Owners(k)' = PodEdges(new.edges, k)
    BY <1>6, <2>1 DEF Owners, Wanted, PodEdges
  <2> HIDE DEF old, new
  <2>3. ASSUME NEW e \in PodEdges(new.edges, k)
        PROVE  e \in graph'.edges \cup lost'.edges /\ e.from \in graph'.entities \cup lost'.entities
    <3>1. e \in new.edges /\ e.from \in new.entities
      BY <1>3 DEF PodEdges, WantedFor
    <3>2. e.from \notin Dropped(old, new)
      BY <3>1 DEF Dropped
    <3>3. e \in old.edges => e \in graph.edges \cup lost.edges
      BY <1>7, <2>2 DEF OwnersKept, PodEdges
    <3> QED BY <1>4, <3>1, <3>2, <3>3 DEF Writes
  <2>4. ASSUME NEW e \in PodEdges(graph'.edges, k) \ adrift'.edges PROVE e \in PodEdges(new.edges, k)
    <3>1. e \in graph'.edges \ adrift'.edges /\ OwnerEdge(e) /\ k \in {e.from, e.to}
      BY DEF PodEdges
    <3>2. CASE e \in new.edges
      BY <3>1, <3>2 DEF PodEdges
    <3>3. CASE e \notin new.edges
      <4>1. e \in graph.edges \ adrift.edges /\ e \notin old.edges
        BY <1>4, <3>1, <3>3 DEF Writes
      <4> QED BY <1>7, <2>2, <3>1, <4>1 DEF OwnersKept, PodEdges
    <3> QED BY <3>2, <3>3
  <2> QED BY <2>2, <2>3, <2>4 DEF OwnersKept, PodEdges
<1>8. ASSUME NEW key \in Keys, key # k, key[1] = "pod", OwnersKept(key) PROVE OwnersKept(key)'
  <2>1. View(key)' = View(key) /\ View(key) \subseteq At(objects, key)
    BY <1>1, <1>8, ViewAt DEF Updates
  <2> DEFINE its == Wanted(View(key), AllReplicaSets)
  <2>2. WantedFor(key, View(key), its)
    BY <1>2, <2>1, WantedIs
  <2>3. Owners(key) = PodEdges(its.edges, key) /\ Owners(key)' = Owners(key)
    BY <1>6, <2>1 DEF Owners, Wanted, PodEdges
  <2> HIDE DEF old, new, its
  <2>4. ASSUME NEW e, OwnerEdge(e), e \in its.edges PROVE EdgeKey(e) = key /\ ~RegionEdge(e)
    <3>1. \/ e.from = key /\ e.to[1] \in OwnerKinds
          \/ e.to = key /\ e.from[1] \in OwnerKinds
      BY <2>2, <2>4 DEF WantedFor
    <3>2. ~RegionEdge(e)
      BY <1>8, <3>1 DEF RegionEdge, OwnerKinds
    <3> QED BY <2>2, <2>4, <3>2 DEF WantedFor
  <2>5. ASSUME NEW e \in PodEdges(its.edges, key)
        PROVE  e \in graph'.edges \cup lost'.edges /\ e.from \in graph'.entities \cup lost'.entities
    <3>1. OwnerEdge(e) /\ e \in its.edges
      BY DEF PodEdges
    <3>2. e \notin old.edges
      BY <1>3, <1>8, <2>4, <3>1 DEF WantedFor
    <3>3. e.from \notin Dropped(old, new)
      <4>1. e.from = key \/ ~Owned(e.from)
        BY <2>2, <3>1 DEF WantedFor, Owned, OwnerKinds
      <4>2. IdKey(key) = key
        BY <1>8 DEF IdKey
      <4> QED BY <1>3, <1>8, <4>1, <4>2 DEF WantedFor, Dropped
    <3>4. e \in graph.edges \cup lost.edges /\ e.from \in graph.entities \cup lost.entities
      BY <1>8, <2>3 DEF OwnersKept
    <3> QED BY <1>4, <3>2, <3>3, <3>4 DEF Writes
  <2>6. ASSUME NEW e \in PodEdges(graph'.edges, key) \ adrift'.edges PROVE e \in PodEdges(its.edges, key)
    <3>1. e \in graph'.edges \ adrift'.edges /\ OwnerEdge(e) /\ key \in {e.from, e.to}
      BY DEF PodEdges
    <3>2. e \notin new.edges
      <4> SUFFICES ASSUME e \in new.edges PROVE FALSE
        OBVIOUS
      <4>1. \/ e.from = k /\ e.to[1] \in OwnerKinds
            \/ e.to = k /\ e.from[1] \in OwnerKinds
        BY <1>3, <3>1 DEF WantedFor
      <4> QED BY <1>8, <3>1, <4>1 DEF OwnerKinds
    <3>3. e \in graph.edges \ adrift.edges
      BY <1>4, <3>1, <3>2 DEF Writes
    <3> QED BY <1>8, <2>3, <3>1, <3>3 DEF OwnersKept, PodEdges
  <2> QED BY <2>3, <2>5, <2>6 DEF OwnersKept, PodEdges
<1>9. ASSUME NEW key \in Keys, key[1] = "pod", Settled(key) PROVE OwnersKept(key)'
  BY <1>7, <1>8, <1>9 DEF OwnersInv
<1> QED BY <1>5, <1>6, <1>9 DEF OwnersInv
-----------------------------------------------------------------------------
(* The inductive invariant: what the runs check of the graph, together     *)
(* with what it takes to know which state the next handler starts from.    *)

GraphInv == /\ DOMAIN graph = {"entities", "edges"}
            /\ NothingMissing /\ NothingStale /\ OwnersInv

IInv == QueueInv /\ SteadyInv /\ GraphInv

(* A step that writes nothing and keeps what the handlers know.            *)
LEMMA UnwrittenIs ==
  ASSUME GraphInv, Quiet, UNCHANGED <<objects, graph, lost, adrift>>, gone \subseteq gone'
  PROVE  GraphInv'
<1>1. Keys' = Keys /\ AllReplicaSets' = AllReplicaSets
  BY DEF Keys, AllReplicaSets, OfKind
<1>2. NothingMissing'
  <2>1. \A k \in Keys' : \A o \in View(k)' : Kept(o)'
    BY <1>1, MissingIs DEF GraphInv, Quiet, Kept
  <2> QED BY <2>1, MissingNext
<1>3. NothingStale'
  BY <1>1, StaleIs, StaleNext DEF GraphInv, Quiet
<1>4. OwnersInv'
  <2> SUFFICES ASSUME NEW k \in Keys, k[1] = "pod", Settled(k)' PROVE OwnersKept(k)'
    BY <1>1 DEF OwnersInv
  <2>1. OwnersKept(k)
    BY SettledBefore DEF GraphInv, OwnersInv
  <2>2. Owners(k)' = Owners(k)
    BY <1>1 DEF Quiet, Owners, Wanted, PodEdges
  <2> QED BY <2>1, <2>2 DEF OwnersKept, PodEdges
<1> QED BY <1>2, <1>3, <1>4 DEF GraphInv

LEMMA HandlerGraph ==
  ASSUME QueueInv, GraphInv, NEW kind \in Kinds, Handles(kind) PROVE GraphInv'
<1>1. DOMAIN graph' = {"entities", "edges"}
  BY HandlesIs DEF Updates, Writes
<1> QED BY <1>1, HandlerMissing, HandlerStale, HandlerOwners DEF GraphInv

LEMMA LossGraph ==
  ASSUME GraphInv, Quiet, RedisLoss PROVE GraphInv'
<1>1. /\ UNCHANGED <<objects, gone>> /\ Keys' = Keys /\ AllReplicaSets' = AllReplicaSets
      /\ graph'.entities = {} /\ graph'.edges = {} /\ DOMAIN graph' = {"entities", "edges"}
      /\ lost'.entities = lost.entities \cup graph.entities
      /\ lost'.edges = lost.edges \cup graph.edges
  BY DEF RedisLoss, Keys, AllReplicaSets, OfKind, Nothing, Both
<1>2. NothingMissing'
  <2>1. \A k \in Keys' : \A o \in View(k)' : Kept(o)'
    BY <1>1, MissingIs DEF GraphInv, Quiet, Kept
  <2> QED BY <2>1, MissingNext
<1>3. NothingStale'
  BY <1>1, StaleNext
<1>4. OwnersInv'
  <2> SUFFICES ASSUME NEW k \in Keys, k[1] = "pod", Settled(k)' PROVE OwnersKept(k)'
    BY <1>1 DEF OwnersInv
  <2>1. OwnersKept(k)
    BY <1>1, SettledBefore DEF GraphInv, OwnersInv
  <2>2. Owners(k)' = Owners(k)
    BY <1>1 DEF Quiet, Owners, Wanted, PodEdges
  <2> QED BY <1>1, <2>1, <2>2 DEF OwnersKept, PodEdges
<1> QED BY <1>1, <1>2, <1>3, <1>4 DEF GraphInv

(* Handlers that know nothing ask nothing of the graph.                    *)
LEMMA OwnersOfNone == \A k : View(k) = {} => Owners(k) = {}
BY WantedNothing DEF Owners, PodEdges, Nothing

LEMMA RestartGraph ==
  ASSUME GraphInv, Restart, \A k \in Keys : View(k)' = {} PROVE GraphInv'
<1>1. /\ UNCHANGED <<objects, graph>> /\ Keys' = Keys
      /\ adrift'.entities = adrift.entities \cup graph.entities
      /\ adrift'.edges = adrift.edges \cup graph.edges
  BY DEF Restart, Keys, Both
<1>2. NothingMissing'
  BY <1>1, MissingNext
<1>3. NothingStale'
  BY <1>1, StaleNext
<1>4. OwnersInv'
  <2> SUFFICES ASSUME NEW k \in Keys PROVE OwnersKept(k)'
    BY <1>1 DEF OwnersInv
  <2>1. Owners(k)' = {}
    BY WantedNothing DEF Owners, PodEdges, Nothing
  <2> QED BY <1>1, <2>1 DEF OwnersKept, PodEdges
<1> QED BY <1>1, <1>2, <1>3, <1>4 DEF GraphInv

LEMMA InitInv == Init => IInv
<1> SUFFICES ASSUME Init PROVE IInv
  OBVIOUS
<1>1. Typed
  <2>1. changes \in 0..MaxChanges /\ resyncs \in 0..MaxResyncs /\ faults \in 0..MaxFaults
    BY BoundAssumption DEF Init
  <2>2. cache \subseteq objects /\ OneEach(cache) /\ synced \subseteq KindsHere
    BY DEF Init, OneEach
  <2>3. objects \in Worlds /\ api \subseteq objects /\ OneEach(api) /\ registered \in BOOLEAN
    BY Zenon DEF Init
  <2> QED BY <2>1, <2>2, <2>3 DEF Typed
<1>2. Waiting
  BY DEF Init, Waiting, OfKind
<1>3. Queued
  BY DEF Init, Queued
<1>4. \A k \in Keys : k[1] \in Kinds /\ queue[k[1]] = <<>>
  BY <1>1, WorldIs DEF Init
<1>5. Chained
  BY <1>4 DEF Chained
<1>6. SteadyInv
  BY DEF Init, SteadyInv, Steady, AllReplicaSets, OfKind
<1>7. ASSUME NEW k \in Keys PROVE View(k) = {}
  <2>1. At(cache, k) = {}
    BY DEF Init, At
  <2>2. From(queue[k[1]], cache, k, 0) = {}
    BY <1>4, <2>1 DEF From
  <2> QED BY <2>2 DEF View
<1>8. Handled = {}
  BY <1>7 DEF Handled
<1>9. NothingMissing /\ NothingStale
  BY <1>8, InImplied DEF NothingMissing, NothingStale, Init, Nothing
<1>10. OwnersInv
  BY <1>7, OwnersOfNone DEF OwnersInv, OwnersKept, Init, PodEdges, Nothing
<1>11. DOMAIN graph = {"entities", "edges"}
  BY DEF Init, Nothing
<1> QED BY <1>1, <1>2, <1>3, <1>5, <1>6, <1>9, <1>10, <1>11 DEF IInv, QueueInv, GraphInv

LEMMA NextInv == IInv /\ [Next]_vars => IInv'
<1> SUFFICES ASSUME IInv, [Next]_vars PROVE IInv'
  OBVIOUS
<1> USE DEF IInv
<1>1. ASSUME NEW o \in objects, ApiSet(o) \/ ApiDelete(o) PROVE IInv'
  <2>1. QueueInv' /\ Quiet /\ SteadyInv'
    BY <1>1, ApiIs, ApiSteady
  <2>2. UNCHANGED <<objects, graph, lost, adrift>> /\ gone \subseteq gone'
    BY <1>1 DEF ApiSet, ApiDelete, Change
  <2> QED BY <2>1, <2>2, UnwrittenIs
<1>2. ASSUME NEW kind \in KindsHere, Sync(kind) PROVE IInv'
  <2>1. QueueInv' /\ Quiet /\ SteadyInv'
    BY <1>2, SyncIs, SyncSteady
  <2>2. UNCHANGED <<objects, graph, lost, adrift, gone>>
    BY <1>2 DEF Sync
  <2> QED BY <2>1, <2>2, UnwrittenIs
<1>3. ASSUME NEW k \in Keys, Observe(k) PROVE IInv'
  <2>1. QueueInv' /\ Quiet /\ SteadyInv'
    BY <1>3, ObserveIs, ObserveSteady
  <2>2. UNCHANGED <<objects, graph, lost, adrift, gone>>
    BY <1>3 DEF Observe
  <2> QED BY <2>1, <2>2, UnwrittenIs
<1>4. CASE RegisterPods
  <2>1. QueueInv' /\ Quiet /\ SteadyInv'
    BY <1>4, RegisterIs, RegisterSteady
  <2>2. UNCHANGED <<objects, graph, lost, adrift, gone>>
    BY <1>4 DEF RegisterPods, Registered
  <2> QED BY <2>1, <2>2, UnwrittenIs
<1>5. ASSUME NEW kind \in Kinds,
             \/ HandleAdd(kind) \/ HandleDelete(kind) \/ HandleUpdate(kind)
             \/ kind = "pod" /\ UpdatePod
      PROVE  IInv'
  <2>1. Handles(kind)
    BY <1>5, HandlerIs DEF GraphInv
  <2>2. QueueInv'
    BY <2>1, HandledIs DEF Handles
  <2> QED BY <2>1, <2>2, HandlerSteady, HandlerGraph
<1>6. CASE ResolveOldPod
  <2>1. UNCHANGED <<objects, api, cache, synced, registered, queue, graph, lost, adrift, gone, changes,
                    resyncs, faults>>
    BY <1>6 DEF ResolveOldPod
  <2>2. Typed'
    BY <2>1 DEF QueueInv, Typed, KindsHere
  <2>3. QueueInv' /\ Quiet
    BY <2>1, <2>2, NothingQueued
  <2> QED BY <1>6, <2>1, <2>3, ResolveSteady, UnwrittenIs
<1>7. CASE UpdatePod
  <2>1. "pod" \in Kinds
    BY <1>7 DEF UpdatePod, SteadyInv, Holding
  <2> QED BY <1>5, <1>7, <2>1
<1>8. ASSUME NEW kind \in Kinds, Resync(kind) PROVE IInv'
  <2>1. QueueInv' /\ Quiet /\ SteadyInv'
    BY <1>8, ResyncIs, ResyncSteady
  <2>2. UNCHANGED <<objects, graph, lost, adrift, gone>>
    BY <1>8 DEF Resync
  <2> QED BY <2>1, <2>2, UnwrittenIs
<1>9. CASE Restart
  <2>1. QueueInv' /\ \A k \in Keys : View(k)' = {}
    BY <1>9, RestartIs
  <2>2. SteadyInv'
    BY <1>9 DEF Restart, SteadyInv, Steady, AllReplicaSets
  <2> QED BY <1>9, <2>1, <2>2, RestartGraph
<1>10. CASE RedisLoss
  <2>1. UNCHANGED <<objects, api, cache, synced, registered, queue, held, gone, changes, resyncs>>
    BY <1>10 DEF RedisLoss
  <2>2. Typed'
    BY <1>10, <2>1, FaultIs DEF QueueInv, Typed, KindsHere, RedisLoss
  <2>3. QueueInv' /\ Quiet
    BY <2>1, <2>2, NothingQueued
  <2>4. (held = {} \/ Holding)'
    BY <2>1, HeldStays DEF SteadyInv, Holding, IsUpdate
  <2>5. SteadyInv'
    BY <2>1, <2>4, StillSteady DEF SteadyInv, Steady, AllReplicaSets, ReplicaSets
  <2> QED BY <1>10, <2>3, <2>5, LossGraph
<1>11. CASE UNCHANGED vars
  <2>1. UNCHANGED <<objects, api, cache, synced, registered, queue, held, graph, lost, adrift, gone,
                    changes, resyncs, faults>>
    BY <1>11 DEF vars
  <2>2. Typed'
    BY <2>1 DEF QueueInv, Typed, KindsHere
  <2>3. QueueInv' /\ Quiet
    BY <2>1, <2>2, NothingQueued
  <2>4. (held = {} \/ Holding)'
    BY <2>1, HeldStays DEF SteadyInv, Holding, IsUpdate
  <2>5. SteadyInv'
    BY <2>1, <2>4, StillSteady DEF SteadyInv, Steady, AllReplicaSets, ReplicaSets
  <2> QED BY <2>1, <2>3, <2>5, UnwrittenIs
<1> QED BY <1>1, <1>2, <1>3, <1>4, <1>5, <1>6, <1>7, <1>8, <1>9, <1>10, <1>11 DEF Next, Watcher

LEMMA InvariantHolds == Spec => []IInv
BY InitInv, NextInv, PTL DEF Spec

-----------------------------------------------------------------------------
LEMMA TypeFollows == IInv => TypeOK
<1> SUFFICES ASSUME IInv PROVE TypeOK
  OBVIOUS
<1>1. Typed /\ Queued
  BY DEF IInv, QueueInv
<1>2. ASSUME NEW kind \in Kinds, NEW i \in DOMAIN queue[kind]
      PROVE  /\ queue[kind][i].old \cup queue[kind][i].new \subseteq OfKind(objects, kind)
             /\ \E k \in Keys : KeysOf(queue[kind][i]) = {k}
             /\ OneEach(queue[kind][i].old) /\ OneEach(queue[kind][i].new)
  <2> DEFINE notice == queue[kind][i]
  <2>1. notice \in Notices(objects) /\ About(notice, kind) /\ OneState(notice)
    BY <1>1 DEF Queued
  <2> HIDE DEF notice
  <2>2. PICK k \in Keys : k[1] = kind /\ KeysOf(notice) = {k}
    BY <2>1 DEF About
  <2>3. notice.old \cup notice.new \subseteq OfKind(objects, kind)
    BY <2>1, <2>2, KeyKind DEF Notices, KeysOf, OfKind
  <2> QED BY <2>1, <2>2, <2>3 DEF OneState, notice
<1>3. Cardinality(held) <= 1
  <2>1. held = {} \/ \E d : held = {d}
    BY DEF IInv, SteadyInv, Holding
  <2>2. Cardinality({}) = 0 /\ \A d : Cardinality({d}) = 1
    BY FS_EmptySet, FS_Singleton
  <2> QED BY <2>1, <2>2
<1> QED BY <1>1, <1>2, <1>3 DEF TypeOK, Typed

LEMMA OwnersFollow == IInv => OwnersOfSettled
<1> SUFFICES ASSUME IInv, NEW k \in Keys, k[1] = "pod", Settled(k)
             PROVE  LET owners == PodEdges(UnionOf({Desired(o, OfKind(api, "replicaset")) : o \in View(k)}).edges, k)
                    IN  /\ owners \subseteq graph.edges \cup lost.edges
                        /\ {e.from : e \in owners} \subseteq graph.entities \cup lost.entities
                        /\ PodEdges(graph.edges, k) \ adrift.edges \subseteq owners
  BY DEF OwnersOfSettled
<1>1. Wanted(View(k), OfKind(api, "replicaset")) = Wanted(View(k), AllReplicaSets)
  BY ViewAt, SteadyWanted DEF IInv, QueueInv, SteadyInv
<1>2. PodEdges(UnionOf({Desired(o, OfKind(api, "replicaset")) : o \in View(k)}).edges, k) = Owners(k)
  BY <1>1 DEF Owners, Wanted
<1>3. OwnersKept(k)
  BY DEF IInv, GraphInv, OwnersInv
<1> QED BY <1>2, <1>3 DEF OwnersKept

(* The variables have their types.                                         *)
THEOREM TypeCorrect == Spec => []TypeOK
BY InvariantHolds, TypeFollows, PTL

(* watcher.go 53-57: whatever happened to the objects it shares entities   *)
(* with, an object that was handled and not seen deleted has all its       *)
(* entities and edges in the graph, but for what a dropped batch or Redis  *)
(* lost.                                                                   *)
THEOREM MissingCorrect == Spec => []NothingMissing
<1>1. IInv => NothingMissing
  BY DEF IInv, GraphInv
<1> QED BY <1>1, InvariantHolds, PTL

(* The graph has no pod, no container and no edge that no handled object   *)
(* implies, but for pods' owners and what an earlier process or a dropped  *)
(* batch left.                                                             *)
THEOREM StaleCorrect == Spec => []NothingStale
<1>1. IInv => NothingStale
  BY DEF IInv, GraphInv
<1> QED BY <1>1, InvariantHolds, PTL

(* watcher.go 239-242: a pod whose ReplicaSets have been there unchanged   *)
(* all along has its owner from the first event on, exactly the edges to   *)
(* and from that, and loses them when it is deleted.                       *)
THEOREM OwnersCorrect == Spec => []OwnersOfSettled
BY InvariantHolds, OwnersFollow, PTL

-----------------------------------------------------------------------------
(* Handlers of different kinds.                                            *)

(* Upserts, then deletions, then edges that come, then edges that go.      *)
Perform(g, up, del, add, rem) ==
  [entities |-> (g.entities \cup up) \ del,
   edges    |-> ({e \in g.edges : e.from \notin del} \cup add) \ rem]

IsGraph(g) == DOMAIN g = {"entities", "edges"}

LEMMA PerformCommutes ==
  ASSUME NEW g, NEW up1, NEW del1, NEW add1, NEW rem1, NEW up2, NEW del2, NEW add2, NEW rem2,
         up1 \cap del2 = {}, up2 \cap del1 = {}, add1 \cap rem2 = {}, add2 \cap rem1 = {},
         \A e \in add1 : e.from \notin del2, \A e \in add2 : e.from \notin del1
  PROVE  Perform(Perform(g, up1, del1, add1, rem1), up2, del2, add2, rem2)
         = Perform(Perform(g, up2, del2, add2, rem2), up1, del1, add1, rem1)
<1> DEFINE Entities(ent, up, del) == (ent \cup up) \ del
           Edges(es, del, add, rem) == ({e \in es : e.from \notin del} \cup add) \ rem
<1>1. Entities(Entities(g.entities, up1, del1), up2, del2)
      = Entities(Entities(g.entities, up2, del2), up1, del1)
  OBVIOUS
<1>2. Edges(Edges(g.edges, del1, add1, rem1), del2, add2, rem2)
      = Edges(Edges(g.edges, del2, add2, rem2), del1, add1, rem1)
  OBVIOUS
<1>3. \A h, up, del, add, rem :
        Perform(h, up, del, add, rem) = [entities |-> Entities(h.entities, up, del),
                                         edges |-> Edges(h.edges, del, add, rem)]
  BY DEF Perform
<1> HIDE DEF Entities, Edges
<1>4. \A h, up, del, add, rem :
        /\ Perform(h, up, del, add, rem).entities = Entities(h.entities, up, del)
        /\ Perform(h, up, del, add, rem).edges = Edges(h.edges, del, add, rem)
  BY <1>3
<1> QED BY <1>1, <1>2, <1>3, <1>4

(* What two handlers want has no owned entity and no edge in common.       *)
Apart(d1, d2) == /\ \A x \in d1.entities \cap d2.entities : ~Owned(x)
                 /\ d1.edges \cap d2.edges = {}

LEMMA DesiredApart ==
  ASSUME NEW o1, o1.kind \in WatchedKinds, NEW o2, o2.kind \in WatchedKinds, o1.kind # o2.kind,
         NEW r1, \A rs \in r1 : Listed(rs.owners), NEW r2, \A rs \in r2 : Listed(rs.owners)
  PROVE  Apart(Desired(o1, r1), Desired(o2, r2))
<1>1. Faithful(o1, Desired(o1, r1)) /\ Faithful(o2, Desired(o2, r2))
  BY DesiredFaithful
<1>2. KeyOf(o1) # KeyOf(o2)
  BY KeyKind
<1> QED BY <1>1, <1>2 DEF Faithful, Own, Apart

(* The union of what some objects of a kind imply, whichever ReplicaSets   *)
(* the handler finds.                                                      *)
Of(kind, d) ==
  \E objs \in SUBSET OfKind(objects, kind), rss \in SUBSET AllReplicaSets : d = Wanted(objs, rss)

LEMMA WantedApart ==
  ASSUME Typed, NEW kind1, NEW kind2, kind1 # kind2, NEW d1, Of(kind1, d1), NEW d2, Of(kind2, d2)
  PROVE  Apart(d1, d2)
<1>1. PICK objs1 \in SUBSET OfKind(objects, kind1), r1 \in SUBSET AllReplicaSets : d1 = Wanted(objs1, r1)
  BY DEF Of
<1>2. PICK objs2 \in SUBSET OfKind(objects, kind2), r2 \in SUBSET AllReplicaSets : d2 = Wanted(objs2, r2)
  BY DEF Of
<1>3. ASSUME NEW o1 \in objs1, NEW o2 \in objs2 PROVE Apart(Desired(o1, r1), Desired(o2, r2))
  <2>1. /\ o1.kind \in WatchedKinds /\ o2.kind \in WatchedKinds /\ o1.kind # o2.kind
    BY <1>1, <1>2, WorldIs DEF OfKind
  <2>2. /\ \A rs \in r1 : Listed(rs.owners)
        /\ \A rs \in r2 : Listed(rs.owners)
    BY <1>1, <1>2, SteadyListed
  <2> QED BY <2>1, <2>2, DesiredApart
<1>4. /\ \A x : x \in d1.entities <=> \E o \in objs1 : x \in Desired(o, r1).entities
      /\ \A x : x \in d1.edges <=> \E o \in objs1 : x \in Desired(o, r1).edges
      /\ \A x : x \in d2.entities <=> \E o \in objs2 : x \in Desired(o, r2).entities
      /\ \A x : x \in d2.edges <=> \E o \in objs2 : x \in Desired(o, r2).edges
  BY <1>1, <1>2 DEF Wanted, UnionOf
<1> QED BY <1>3, <1>4 DEF Apart

LEMMA OfClosed ==
  ASSUME Typed, NEW kind, NEW d, Of(kind, d) PROVE Closed(d)
BY WantedClosed DEF Of, OfKind

LEMMA OfNothing == \A kind : Of(kind, Nothing)
<1>1. \A kind : {} \in SUBSET OfKind(objects, kind) /\ {} \in SUBSET AllReplicaSets
  OBVIOUS
<1> QED BY <1>1, WantedNothing DEF Of

(* A handler, as an update.                                                *)
Updated(g, old, new) ==
  Perform(g, new.entities, Dropped(old, new), new.edges \ old.edges, old.edges \ new.edges)

LEMMA ApplyIs ==
  ASSUME NEW g, IsGraph(g)
  PROVE  /\ \A old, new : ApplyUpdate(g, old, new) = Updated(g, old, new)
         /\ \A d : ApplyAdd(g, d) = Updated(g, Nothing, d)
         /\ \A d : ApplyDelete(g, d) = Updated(g, d, Nothing)
<1>1. ASSUME NEW up PROVE /\ Upsert(g, up).entities = g.entities \cup up
                          /\ Upsert(g, up).edges = g.edges
  BY DEF IsGraph, Upsert
<1>2. \A ent, es, add : AddEdges([entities |-> ent, edges |-> es], add)
                        = [entities |-> ent, edges |-> es \cup add]
  BY DEF AddEdges
<1>3. \A ent, es, rem : RemoveEdges([entities |-> ent, edges |-> es], rem)
                        = [entities |-> ent, edges |-> es \ rem]
  BY DEF RemoveEdges
<1>4. ASSUME NEW old, NEW new PROVE ApplyUpdate(g, old, new) = Updated(g, old, new)
  <2> DEFINE dropped == Dropped(old, new)
             ent == (g.entities \cup new.entities) \ dropped
             es == {e \in g.edges : e.from \notin dropped}
  <2>1. DeleteEntities(Upsert(g, new.entities), dropped) = [entities |-> ent, edges |-> es]
    BY <1>1 DEF DeleteEntities
  <2>2. ApplyUpdate(g, old, new)
        = RemoveEdges(AddEdges(DeleteEntities(Upsert(g, new.entities), dropped), new.edges \ old.edges),
                      old.edges \ new.edges)
    BY DEF ApplyUpdate, Dropped
  <2>3. Updated(g, old, new)
        = [entities |-> ent, edges |-> (es \cup (new.edges \ old.edges)) \ (old.edges \ new.edges)]
    BY DEF Updated, Perform
  <2> DEFINE add == new.edges \ old.edges
             rem == old.edges \ new.edges
             r1 == [entities |-> ent, edges |-> es]
             r2 == [entities |-> ent, edges |-> es \cup add]
             r3 == [entities |-> ent, edges |-> (es \cup add) \ rem]
  <2> HIDE DEF dropped, ent, es, add, rem
  <2>4. AddEdges(r1, add) = r2
    BY <1>2
  <2>5. RemoveEdges(r2, rem) = r3
    BY <1>3
  <2> HIDE DEF r1, r2, r3
  <2>6. ApplyUpdate(g, old, new) = RemoveEdges(AddEdges(r1, add), rem)
    BY <2>1, <2>2 DEF r1, add, rem
  <2>7. Updated(g, old, new) = r3
    BY <2>3 DEF r3, add, rem
  <2> QED BY <2>4, <2>5, <2>6, <2>7
<1>5. ASSUME NEW d PROVE ApplyAdd(g, d) = Updated(g, Nothing, d)
  <2>1. /\ Dropped(Nothing, d) = {} /\ d.edges \ Nothing.edges = d.edges
        /\ Nothing.edges \ d.edges = {}
    BY DEF Dropped, Nothing
  <2> DEFINE es == {e \in g.edges : e.from \notin {}}
  <2>2. Updated(g, Nothing, d)
        = [entities |-> (g.entities \cup d.entities) \ {}, edges |-> (es \cup d.edges) \ {}]
    BY <2>1 DEF Updated, Perform
  <2>3. es = g.edges
    OBVIOUS
  <2> HIDE DEF es
  <2>4. Updated(g, Nothing, d) = [entities |-> g.entities \cup d.entities, edges |-> g.edges \cup d.edges]
    BY <2>2, <2>3
  <2>5. Upsert(g, d.entities) = [entities |-> g.entities \cup d.entities, edges |-> g.edges]
    BY DEF IsGraph, Upsert
  <2>6. ApplyAdd(g, d) = AddEdges(Upsert(g, d.entities), d.edges)
    BY DEF ApplyAdd
  <2> DEFINE ent == g.entities \cup d.entities
             r1 == [entities |-> ent, edges |-> g.edges]
             r2 == [entities |-> ent, edges |-> g.edges \cup d.edges]
  <2> HIDE DEF ent
  <2>7. AddEdges(r1, d.edges) = r2
    BY <1>2
  <2> HIDE DEF r1, r2
  <2> QED BY <2>4, <2>5, <2>6, <2>7 DEF r1, r2, ent
<1>6. ASSUME NEW d PROVE ApplyDelete(g, d) = Updated(g, d, Nothing)
  <2> DEFINE dropped == {x \in d.entities : Owned(x)}
             ent == g.entities \ dropped
             es == {e \in g.edges : e.from \notin dropped}
  <2>1. /\ Dropped(d, Nothing) = dropped /\ Nothing.entities = {}
        /\ Nothing.edges \ d.edges = {} /\ d.edges \ Nothing.edges = d.edges
    BY DEF Dropped, Nothing
  <2>2. DeleteEntities(g, dropped) = [entities |-> ent, edges |-> es]
    BY DEF DeleteEntities
  <2>3. ApplyDelete(g, d) = RemoveEdges(DeleteEntities(g, dropped), d.edges)
    BY DEF ApplyDelete
  <2> HIDE DEF dropped
  <2>4. Updated(g, d, Nothing) = [entities |-> (g.entities \cup {}) \ dropped, edges |-> (es \cup {}) \ d.edges]
    BY <2>1 DEF Updated, Perform
  <2>5. (g.entities \cup {}) \ dropped = ent /\ es \cup {} = es
    OBVIOUS
  <2> HIDE DEF ent, es
  <2>6. Updated(g, d, Nothing) = [entities |-> ent, edges |-> es \ d.edges]
    BY <2>4, <2>5
  <2>7. RemoveEdges([entities |-> ent, edges |-> es], d.edges) = [entities |-> ent, edges |-> es \ d.edges]
    BY <1>3
  <2> DEFINE r1 == [entities |-> ent, edges |-> es]
             r2 == [entities |-> ent, edges |-> es \ d.edges]
  <2> HIDE DEF r1, r2
  <2> QED BY <2>2, <2>3, <2>6, <2>7 DEF r1, r2
<1> QED BY <1>4, <1>5, <1>6

LEMMA EffectIs ==
  ASSUME QueueInv, SteadyInv, NEW kind \in Kinds, queue[kind] # <<>>
  PROVE  \E old, new : /\ Of(kind, old) /\ Of(kind, new)
                       /\ \A g : IsGraph(g) => Effect(kind, g) = Updated(g, old, new)
<1> DEFINE notice == Next1(kind)
           old == IF kind = "pod" /\ held # {} THEN UnionOf(held) ELSE DesiredNow(notice.old)
           new == DesiredNow(notice.new)
<1>1. ReplicaSets \in SUBSET AllReplicaSets
  BY CachedReplicaSets DEF QueueInv
<1>2. notice \in Notices(objects) /\ \E k \in Keys : k[1] = kind /\ KeysOf(notice) = {k}
  BY DEF QueueInv, Queued, Next1, About
<1>3. notice.old \in SUBSET OfKind(objects, kind) /\ notice.new \in SUBSET OfKind(objects, kind)
  BY <1>2, KeyKind DEF Notices, KeysOf, OfKind
<1>4. \A objs : DesiredNow(objs) = Wanted(objs, ReplicaSets)
  BY DEF DesiredNow, Wanted
<1>5. Of(kind, new) /\ Of(kind, DesiredNow(notice.old))
  BY <1>1, <1>3, <1>4 DEF Of
<1>6. Of(kind, old)
  <2>1. ASSUME kind = "pod", held # {} PROVE Of(kind, UnionOf(held))
    <3>1. PICK rss : Steady(rss) /\ held = {Wanted(notice.old, rss)}
      BY <2>1 DEF SteadyInv, Holding
    <3>2. UnionOf(held) = Wanted(notice.old, rss)
      <4> DEFINE w == Wanted(notice.old, rss)
      <4>1. w = [entities |-> w.entities, edges |-> w.edges]
        BY DEF Wanted, UnionOf
      <4> HIDE DEF w
      <4>2. UNION {d.entities : d \in {w}} = w.entities /\ UNION {d.edges : d \in {w}} = w.edges
        OBVIOUS
      <4>3. UnionOf({w}) = w
        BY <4>1, <4>2 DEF UnionOf
      <4> QED BY <3>1, <4>3 DEF w
    <3> QED BY <1>3, <3>1, <3>2 DEF Of, Steady
  <2> QED BY <1>5, <2>1
<1>7. \A g : Effect(kind, g) = CASE notice.old = {} -> ApplyAdd(g, new)
                                 [] notice.new = {} -> ApplyDelete(g, old)
                                 [] OTHER -> ApplyUpdate(g, old, new)
  BY DEF Effect
<1>8. notice.old # {} \/ notice.new # {}
  BY <1>2 DEF KeysOf
<1> HIDE DEF old, new, notice
<1>9. CASE notice.old = {}
  BY <1>5, <1>7, <1>9, <1>8, ApplyIs, OfNothing
<1>10. CASE notice.old # {} /\ notice.new = {}
  BY <1>6, <1>7, <1>10, ApplyIs, OfNothing
<1>11. CASE notice.old # {} /\ notice.new # {}
  BY <1>5, <1>6, <1>7, <1>11, ApplyIs
<1> QED BY <1>9, <1>10, <1>11

LEMMA CommuteFollows == IInv => HandlersCommute
<1> SUFFICES ASSUME IInv, NEW k1 \in Kinds, NEW k2 \in Kinds, k1 # k2, queue[k1] # <<>>, queue[k2] # <<>>
             PROVE  Effect(k1, Effect(k2, graph)) = Effect(k2, Effect(k1, graph))
  BY DEF HandlersCommute
<1>0. QueueInv /\ SteadyInv /\ IsGraph(graph) /\ Typed
  BY DEF IInv, GraphInv, QueueInv, IsGraph
<1>1. PICK old1, new1 : /\ Of(k1, old1) /\ Of(k1, new1)
                        /\ \A g : IsGraph(g) => Effect(k1, g) = Updated(g, old1, new1)
  BY <1>0, EffectIs
<1>2. PICK old2, new2 : /\ Of(k2, old2) /\ Of(k2, new2)
                        /\ \A g : IsGraph(g) => Effect(k2, g) = Updated(g, old2, new2)
  BY <1>0, EffectIs
<1>3. Apart(old1, new2) /\ Apart(old2, new1)
  BY <1>0, <1>1, <1>2, WantedApart
<1>4. Closed(new1) /\ Closed(new2)
  BY <1>0, <1>1, <1>2, OfClosed
<1>5. \A g, old, new : IsGraph(Updated(g, old, new))
  BY DEF IsGraph, Updated, Perform
<1>6. /\ Effect(k1, Effect(k2, graph)) = Updated(Updated(graph, old2, new2), old1, new1)
      /\ Effect(k2, Effect(k1, graph)) = Updated(Updated(graph, old1, new1), old2, new2)
  BY <1>0, <1>1, <1>2, <1>5
<1>7. /\ new1.entities \cap Dropped(old2, new2) = {} /\ new2.entities \cap Dropped(old1, new1) = {}
      /\ (new1.edges \ old1.edges) \cap (old2.edges \ new2.edges) = {}
      /\ (new2.edges \ old2.edges) \cap (old1.edges \ new1.edges) = {}
      /\ \A e \in new1.edges \ old1.edges : e.from \notin Dropped(old2, new2)
      /\ \A e \in new2.edges \ old2.edges : e.from \notin Dropped(old1, new1)
  BY <1>3, <1>4 DEF Apart, Dropped, Closed
<1> QED BY <1>6, <1>7, PerformCommutes DEF Updated

(* Two handlers of different kinds leave the same graph, whichever is      *)
(* first: what is written by the handler of one kind is not deleted or     *)
(* removed by the handler of another, whatever objects and ReplicaSets     *)
(* either has seen.                                                        *)
THEOREM CommuteCorrect == Spec => []HandlersCommute
BY InvariantHolds, CommuteFollows, PTL

-----------------------------------------------------------------------------
(* The calls of handlers of different kinds, one by one (entityWriter,     *)
(* watcher.go 27-32): whatever a handler calls is about an entity or an    *)
(* edge that its object, in one of its states, implies.                    *)

Calls(d) ==
  ({"UpsertEntity"} \X d.entities) \cup ({"DeleteEntity"} \X {x \in d.entities : Owned(x)})
  \cup ({"AddEdge", "RemoveEdge"} \X d.edges)

Do(g, call) ==
  CASE call[1] = "UpsertEntity" -> Upsert(g, {call[2]})
    [] call[1] = "DeleteEntity" -> DeleteEntities(g, {call[2]})
    [] call[1] = "AddEdge"      -> AddEdges(g, {call[2]})
    [] call[1] = "RemoveEdge"   -> RemoveEdges(g, {call[2]})

Does(call, up, del, add, rem) ==
  \A g : IsGraph(g) => Do(g, call) = Perform(g, up, del, add, rem)

LEMMA CallIs ==
  ASSUME NEW d, NEW call \in Calls(d)
  PROVE  \E up \in SUBSET d.entities, del \in SUBSET {x \in d.entities : Owned(x)},
            add \in SUBSET d.edges, rem \in SUBSET d.edges : Does(call, up, del, add, rem)
<1> DEFINE none == {}
<1>1. ASSUME NEW x \in d.entities, call = <<"UpsertEntity", x>>, NEW g, IsGraph(g)
      PROVE  Do(g, call) = Perform(g, {x}, none, none, none)
  <2>1. Do(g, call) = Upsert(g, {x})
    BY <1>1 DEF Do
  <2>2. Upsert(g, {x}) = [entities |-> g.entities \cup {x}, edges |-> g.edges]
    BY <1>1 DEF IsGraph, Upsert
  <2>3. /\ (g.entities \cup {x}) \ none = g.entities \cup {x}
        /\ ({e \in g.edges : e.from \notin none} \cup none) \ none = g.edges
    OBVIOUS
  <2> HIDE DEF none
  <2> QED BY <2>1, <2>2, <2>3 DEF Perform
<1>2. ASSUME NEW x \in d.entities, call = <<"DeleteEntity", x>>, NEW g, IsGraph(g)
      PROVE  Do(g, call) = Perform(g, none, {x}, none, none)
  <2>1. Do(g, call) = DeleteEntities(g, {x})
    BY <1>2 DEF Do
  <2>2. DeleteEntities(g, {x}) = [entities |-> g.entities \ {x}, edges |-> {e \in g.edges : e.from \notin {x}}]
    BY DEF DeleteEntities
  <2>3. /\ (g.entities \cup none) \ {x} = g.entities \ {x}
        /\ ({e \in g.edges : e.from \notin {x}} \cup none) \ none = {e \in g.edges : e.from \notin {x}}
    OBVIOUS
  <2> HIDE DEF none
  <2> QED BY <2>1, <2>2, <2>3 DEF Perform
<1>3. ASSUME NEW e \in d.edges, call = <<"AddEdge", e>>, NEW g, IsGraph(g)
      PROVE  Do(g, call) = Perform(g, none, none, {e}, none)
  <2>1. Do(g, call) = AddEdges(g, {e})
    BY <1>3 DEF Do
  <2>2. AddEdges(g, {e}) = [entities |-> g.entities, edges |-> g.edges \cup {e}]
    BY <1>3 DEF IsGraph, AddEdges
  <2>3. /\ (g.entities \cup none) \ none = g.entities
        /\ ({f \in g.edges : f.from \notin none} \cup {e}) \ none = g.edges \cup {e}
    OBVIOUS
  <2> HIDE DEF none
  <2> QED BY <2>1, <2>2, <2>3 DEF Perform
<1>4. ASSUME NEW e \in d.edges, call = <<"RemoveEdge", e>>, NEW g, IsGraph(g)
      PROVE  Do(g, call) = Perform(g, none, none, none, {e})
  <2>1. Do(g, call) = RemoveEdges(g, {e})
    BY <1>4 DEF Do
  <2>2. RemoveEdges(g, {e}) = [entities |-> g.entities, edges |-> g.edges \ {e}]
    BY <1>4 DEF IsGraph, RemoveEdges
  <2>3. /\ (g.entities \cup none) \ none = g.entities
        /\ ({f \in g.edges : f.from \notin none} \cup none) \ {e} = g.edges \ {e}
    OBVIOUS
  <2> HIDE DEF none
  <2> QED BY <2>1, <2>2, <2>3 DEF Perform
<1>5. /\ none \in SUBSET d.entities /\ none \in SUBSET d.edges
      /\ none \in SUBSET {x \in d.entities : Owned(x)}
  OBVIOUS
<1> HIDE DEF none
<1> DEFINE owned == {x \in d.entities : Owned(x)}
<1>6. ASSUME NEW x \in d.entities, call = <<"UpsertEntity", x>>
      PROVE  \E up \in SUBSET d.entities : Does(call, up, none, none, none)
  <2>1. {x} \in SUBSET d.entities /\ Does(call, {x}, none, none, none)
    BY <1>1, <1>6 DEF Does
  <2> QED BY <2>1, Zenon
<1>7. ASSUME NEW x \in owned, call = <<"DeleteEntity", x>>
      PROVE  \E del \in SUBSET owned : Does(call, none, del, none, none)
  <2>1. {x} \in SUBSET owned /\ Does(call, none, {x}, none, none)
    BY <1>2, <1>7 DEF Does
  <2> QED BY <2>1, Zenon
<1>8. ASSUME NEW e \in d.edges, call = <<"AddEdge", e>>
      PROVE  \E add \in SUBSET d.edges : Does(call, none, none, add, none)
  <2>1. {e} \in SUBSET d.edges /\ Does(call, none, none, {e}, none)
    BY <1>3, <1>8 DEF Does
  <2> QED BY <2>1, Zenon
<1>9. ASSUME NEW e \in d.edges, call = <<"RemoveEdge", e>>
      PROVE  \E rem \in SUBSET d.edges : Does(call, none, none, none, rem)
  <2>1. {e} \in SUBSET d.edges /\ Does(call, none, none, none, {e})
    BY <1>4, <1>9 DEF Does
  <2> QED BY <2>1, Zenon
<1>10. \/ \E x \in d.entities : call = <<"UpsertEntity", x>>
       \/ \E x \in owned : call = <<"DeleteEntity", x>>
       \/ \E e \in d.edges : call = <<"AddEdge", e>>
       \/ \E e \in d.edges : call = <<"RemoveEdge", e>>
  BY DEF Calls
<1> HIDE DEF owned
<1>11. \E up \in SUBSET d.entities, del \in SUBSET owned, add \in SUBSET d.edges,
          rem \in SUBSET d.edges : Does(call, up, del, add, rem)
  <2>1. none \in SUBSET owned
    BY <1>5 DEF owned
  <2>2. CASE \E x \in d.entities : call = <<"UpsertEntity", x>>
    BY <1>5, <1>6, <2>1, <2>2, Zenon
  <2>3. CASE \E x \in owned : call = <<"DeleteEntity", x>>
    BY <1>5, <1>7, <2>3, Zenon
  <2>4. CASE \E e \in d.edges : call = <<"AddEdge", e>>
    BY <1>5, <1>8, <2>1, <2>4, Zenon
  <2>5. CASE \E e \in d.edges : call = <<"RemoveEdge", e>>
    BY <1>5, <1>9, <2>1, <2>5, Zenon
  <2> QED BY <1>10, <2>2, <2>3, <2>4, <2>5
<1> QED BY <1>11 DEF owned

(* watcher.go 133-207: no two calls of handlers of different kinds, about  *)
(* any objects and whatever ReplicaSets either handler has found, depend   *)
(* on which comes first.  So however the calls of handlers that run at the *)
(* same time mix, the graph comes out as if one had run after the other.   *)
THEOREM CallsCommute ==
  ASSUME NEW o1, o1.kind \in WatchedKinds, NEW o2, o2.kind \in WatchedKinds, o1.kind # o2.kind,
         NEW r1, \A rs \in r1 : Listed(rs.owners), NEW r2, \A rs \in r2 : Listed(rs.owners),
         NEW call1 \in Calls(Desired(o1, r1)), NEW call2 \in Calls(Desired(o2, r2)),
         NEW g, DOMAIN g = {"entities", "edges"}
  PROVE  Do(Do(g, call1), call2) = Do(Do(g, call2), call1)
<1> DEFINE d1 == Desired(o1, r1)
           d2 == Desired(o2, r2)
<1>1. Apart(d1, d2) /\ Closed(d1) /\ Closed(d2)
  BY DesiredApart, DesiredFaithful DEF Faithful, Closed
<1> HIDE DEF d1, d2
<1>2. PICK up1 \in SUBSET d1.entities, del1 \in SUBSET {x \in d1.entities : Owned(x)},
           add1 \in SUBSET d1.edges, rem1 \in SUBSET d1.edges : Does(call1, up1, del1, add1, rem1)
  <2>1. call1 \in Calls(d1)
    BY DEF d1
  <2> QED BY <2>1, CallIs
<1>3. PICK up2 \in SUBSET d2.entities, del2 \in SUBSET {x \in d2.entities : Owned(x)},
           add2 \in SUBSET d2.edges, rem2 \in SUBSET d2.edges : Does(call2, up2, del2, add2, rem2)
  <2>1. call2 \in Calls(d2)
    BY DEF d2
  <2> QED BY <2>1, CallIs
<1>4. /\ up1 \cap del2 = {} /\ up2 \cap del1 = {} /\ add1 \cap rem2 = {} /\ add2 \cap rem1 = {}
      /\ \A e \in add1 : e.from \notin del2
      /\ \A e \in add2 : e.from \notin del1
  BY <1>1 DEF Apart, Closed
<1>5. \A h, up, del, add, rem : IsGraph(Perform(h, up, del, add, rem))
  BY DEF IsGraph, Perform
<1>6. IsGraph(g)
  BY DEF IsGraph
<1>7. /\ Do(Do(g, call1), call2)
         = Perform(Perform(g, up1, del1, add1, rem1), up2, del2, add2, rem2)
      /\ Do(Do(g, call2), call1)
         = Perform(Perform(g, up2, del2, add2, rem2), up1, del1, add1, rem1)
  BY <1>2, <1>3, <1>5, <1>6 DEF Does
<1> QED BY <1>4, <1>7, PerformCommutes
=============================================================================
