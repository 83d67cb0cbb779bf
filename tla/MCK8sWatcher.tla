---------------------------- MODULE MCK8sWatcher ----------------------------
(* Instances of K8sWatcher for TLC: small worlds, each about one way in    *)
(* which objects depend on one another.                                    *)
EXTENDS K8sWatcher

Label(name) == [modern |-> name, legacy |-> NoName]
Legacy(name) == [modern |-> NoName, legacy |-> name]
Unlabelled == Label(NoName)
Ref(kind, name) == [kind |-> kind, name |-> name]

Pod(name, node, containers, owners) ==
  [kind |-> "pod", name |-> name, ns |-> "shop", node |-> node, containers |-> containers,
   owners |-> owners]
Node(name, zone, region) == [kind |-> "node", name |-> name, zone |-> zone, region |-> region]
ReplicaSet(name, owners) == [kind |-> "replicaset", name |-> name, owners |-> owners]
Alone(kind, name) == [kind |-> kind, name |-> name]

OfDeployment == <<Ref("replicaset", "web-1")>>
OfStatefulSet == <<Ref("statefulset", "db")>>

(* A pod of a deployment is created, scheduled and deleted.                *)
Deployed == {ReplicaSet("web-1", <<Ref("deployment", "web")>>),
             Pod("web-1-a", NoName, {"app"}, OfDeployment),
             Pod("web-1-a", "n1", {"app"}, OfDeployment)}

(* A pod of a stateful set comes again under its name, on another node and *)
(* with another container, beside a node.                                  *)
Stateful == {Pod("db-0", "n1", {"app", "sidecar"}, OfStatefulSet),
             Pod("db-0", "n2", {"app"}, OfStatefulSet),
             Node("n1", Unlabelled, Unlabelled)}

(* Two nodes of one zone; one of them changes its labels.                  *)
Zoned == {Node("n1", Label("z"), Label("r")),
          Node("n1", Legacy("z2"), Unlabelled),
          Node("n2", Label("z"), Legacy("r"))}

(* Two autoscalers of one workload, one of which may own the other.        *)
Scaling == {[kind |-> "scaledobject", name |-> "so", target |-> Ref(NoName, "web")],
            [kind |-> "hpa", name |-> "keda-so", target |-> Ref("deployment", "web"),
             owners |-> <<Ref("scaledobject", "so")>>],
            [kind |-> "hpa", name |-> "keda-so", target |-> Ref("rollout", "web"), owners |-> <<>>]}

(* A job that its cron job created, and a pod of the job.                  *)
Jobs == {Alone("cronjob", "nightly"),
         [kind |-> "job", name |-> "nightly-1", owners |-> <<Ref("cronjob", "nightly")>>],
         Pod("nightly-1-a", NoName, {"app"}, <<Ref("replicaset", "none"), Ref("job", "nightly-1")>>)}

AllWorlds == {Deployed, Stateful, Zoned, Scaling, Jobs}
DeployedWorld == {Deployed}
ZonedWorld == {Zoned}

MCDynamicKinds == {"rollout", "scaledobject"}
=============================================================================
