---------------------------- MODULE MCGraphRead -----------------------------
(* Instances of GraphRead for TLC: a container and five endpoints.  The    *)
(* small store has three of them in a cycle with two ways to the last; in  *)
(* the wide one a stack would find the fifth too deep to go on to the      *)
(* sixth.                                                                  *)
EXTENDS GraphRead

CONSTANTS needle, other, label

MCId == 1..6
MCKindOf == [i \in MCId |-> IF i = 1 THEN "container" ELSE "endpoint"]

Arrow(i, j, a) == [from |-> i, to |-> j, action |-> a]
Small == {Arrow(1, 2, other), Arrow(2, 3, needle), Arrow(1, 3, other), Arrow(3, 1, other)}
Wide == {Arrow(1, 2, other), Arrow(1, 4, other), Arrow(2, 3, needle), Arrow(3, 5, other),
         Arrow(4, 5, other), Arrow(5, 6, other)}
MCEdge == Small \cup Wide

Store(all, old, edges) ==
  [core |-> [i \in MCId |-> CASE i \in old -> 0 [] i \in all \ old -> Clock [] OTHER -> Absent],
   meta |-> [i \in MCId |-> NoMeta], edges |-> edges, ids |-> all, byKind |-> all]

Get(i)         == [op |-> "get", id |-> i]
Subgraph(i, d) == [op |-> "subgraph", id |-> i, depth |-> d]
List(k)        == [op |-> "list", kind |-> k]
Search(k, l)   == [op |-> "search", kind |-> k, limit |-> l]
Prune(older)   == [op |-> "prune", older |-> older, at |-> Clock]

Case(stores, reqs, n) == {[store |-> s, req |-> r, writes |-> n] : s \in stores, r \in reqs}

Three == 1..3
Full == Store(Three, {}, Small)

MCCases ==
  Case({Store(Three, {}, Small \ {Arrow(1, 3, other)})}, {Subgraph(1, 0), Search(NoKind, 1)}, 2)
  \cup Case({Store(Three, {2, 3}, Small \ {Arrow(1, 2, other)})}, {Prune(1)}, 2)
  \cup Case({Full}, {Get(1), Subgraph(1, 0), Subgraph(1, 1), List("endpoint"), Search(NoKind, 1)}, 1)
  \cup Case({Store(MCId, {}, Wide)}, {Subgraph(1, 3)}, 1)
  \cup Case({Full}, {Search("endpoint", 0), Subgraph(1, MaxDepthParam + 1), List(NoKind), Prune(0)}, 0)
=============================================================================
