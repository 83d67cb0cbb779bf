----------------------------- MODULE K8sMapper -----------------------------
(***************************************************************************)
(* From Kubernetes objects to the entities and edges they imply            *)
(* (internal/k8swatch/mapper.go and dynamic.go).                           *)
(*                                                                         *)
(* An object is a record with a kind, a name and what the mapping reads.   *)
(* A name stands for the namespace-qualified name, and an id is the pair   *)
(* of kind and name.  An entity is its id alone: metadata is left out, and *)
(* so is the order in which entities and edges are listed.                 *)
(***************************************************************************)
EXTENDS Sequences, FiniteSets, SequencesExt

CONSTANT NoName   \* the empty string: an unset name or label

Ent(kind, name) == <<kind, name>>

Nothing == [entities |-> {}, edges |-> {}]

Both(d1, d2) == [entities |-> d1.entities \cup d2.entities, edges |-> d1.edges \cup d2.edges]
Without(d1, d2) == [entities |-> d1.entities \ d2.entities, edges |-> d1.edges \ d2.edges]

Lone(id) == [entities |-> {id}, edges |-> {}]

(* Forward and reverse edge between two entities.                          *)
Pair(from, fwd, to, rev) == {[from |-> from, kind |-> fwd, to |-> to],
                             [from |-> to, kind |-> rev, to |-> from]}

(* The entity at the other end, and the pair of edges to it.               *)
Under(from, fwd, to, rev) == [entities |-> {from}, edges |-> Pair(from, fwd, to, rev)]
Over(from, fwd, to, rev)  == [entities |-> {to}, edges |-> Pair(from, fwd, to, rev)]

(* The first element of a sequence of references that satisfies Test, as a *)
(* set of at most one.                                                     *)
FirstSuch(refs, Test(_)) ==
  LET at == SelectInSeq(refs, Test)
  IN  IF at = 0 THEN {} ELSE {refs[at]}

UnionOf(ds) == [entities |-> UNION {d.entities : d \in ds}, edges |-> UNION {d.edges : d \in ds}]

-----------------------------------------------------------------------------
(* The owner of a pod, given the ReplicaSets in the cache: the first       *)
(* reference that leads to one.  A ReplicaSet that is not cached, or that  *)
(* no workload owns, leads nowhere and the next reference is tried.        *)
Named(replicaSets, name) == {rs \in replicaSets : rs.name = name}

Through(rs) == FirstSuch(rs.owners, LAMBDA ref : ref.kind \in {"deployment", "rollout"})

OwnersVia(ref, replicaSets) ==
  CASE ref.kind = "replicaset" -> UNION {Through(rs) : rs \in Named(replicaSets, ref.name)}
    [] ref.kind \in {"statefulset", "daemonset", "job"} -> {ref}
    [] OTHER -> {}

OwnerForPod(pod, replicaSets) ==
  UNION {OwnersVia(ref, replicaSets) :
           ref \in FirstSuch(pod.owners, LAMBDA r : OwnersVia(r, replicaSets) # {})}

-----------------------------------------------------------------------------
MapPod(pod, owners) ==
  LET id == Ent("pod", pod.name)
      namespace == {Under(Ent("namespace", pod.ns), "CONTAINS", id, "RUNS_IN")}
      node == {Under(Ent("node", n), "CONTAINS", id, "RUNS_IN") : n \in {pod.node} \ {NoName}}
      owner == {Under(Ent(o.kind, o.name), "MANAGES", id, "MANAGED_BY") : o \in owners}
      containers == {Over(id, "CONTAINS", Ent("container", <<pod.name, c>>), "RUNS_IN") :
                       c \in pod.containers}
  IN  UnionOf({Lone(id)} \cup namespace \cup node \cup owner \cup containers)

(* The well-known topology label, or else its legacy form.                 *)
TopologyLabel(label) == IF label.modern # NoName THEN label.modern ELSE label.legacy

MapNode(node) ==
  LET id     == Ent("node", node.name)
      zones  == {TopologyLabel(node.zone)} \ {NoName}
      regions == {TopologyLabel(node.region)} \ {NoName}
  IN  UnionOf({Lone(id)}
              \cup {Under(Ent("zone", z), "CONTAINS", id, "RUNS_IN") : z \in zones}
              \cup {Under(Ent("region", r), "CONTAINS", Ent("zone", z), "RUNS_IN") :
                      r \in regions, z \in zones})

(* Namespaces, deployments, statefulsets, daemonsets, cronjobs, rollouts.  *)
MapAlone(o) == Lone(Ent(o.kind, o.name))

MapJob(job) ==
  LET id == Ent("job", job.name)
  IN  UnionOf({Lone(id)} \cup
              {Under(Ent("cronjob", ref.name), "MANAGES", id, "MANAGED_BY") :
                 ref \in FirstSuch(job.owners, LAMBDA r : r.kind = "cronjob")})

(* The workload an autoscaler scales.                                      *)
Scaled(id, target) ==
  IF target.kind \in {"deployment", "statefulset", "rollout"}
  THEN Over(id, "SCALES", Ent(target.kind, target.name), "SCALED_BY")
  ELSE Nothing

MapHPA(hpa) ==
  LET id == Ent("hpa", hpa.name)
  IN  UnionOf({Lone(id), Scaled(id, hpa.target)} \cup
              {Under(Ent("scaledobject", ref.name), "MANAGES", id, "MANAGED_BY") :
                 ref \in FirstSuch(hpa.owners, LAMBDA r : r.kind = "scaledobject")})

(* A KEDA target without a name is none, and without a kind a deployment.  *)
MapScaledObject(so) ==
  LET id == Ent("scaledobject", so.name)
      target == IF so.target.kind = NoName THEN [so.target EXCEPT !.kind = "deployment"]
                                           ELSE so.target
  IN  Both(Lone(id), IF so.target.name = NoName THEN Nothing ELSE Scaled(id, target))

(* What any object implies when the cache holds these ReplicaSets.         *)
Desired(o, replicaSets) ==
  CASE o.kind = "pod"          -> MapPod(o, OwnerForPod(o, replicaSets))
    [] o.kind = "node"         -> MapNode(o)
    [] o.kind = "job"          -> MapJob(o)
    [] o.kind = "hpa"          -> MapHPA(o)
    [] o.kind = "scaledobject" -> MapScaledObject(o)
    [] OTHER                   -> MapAlone(o)
=============================================================================
