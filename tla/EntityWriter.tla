---------------------------- MODULE EntityWriter ----------------------------
(***************************************************************************)
(* The interface between the watcher of graph-k8s and what writes its      *)
(* graph (entityWriter, internal/k8swatch/watcher.go): four calls, each of *)
(* which changes the graph as a whole and at once.  Deleting an entity     *)
(* takes the edges that are kept under it.                                 *)
(***************************************************************************)

CONSTANTS Id,   \* entity ids
          Edge  \* edges: records with a field from

VARIABLE graph  \* a record of the sets entities and edges

EmptyGraph == [entities |-> {}, edges |-> {}]

UpsertEntity(g, i) == [g EXCEPT !.entities = @ \cup {i}]

DeleteEntity(g, i) == [entities |-> g.entities \ {i},
                       edges    |-> {e \in g.edges : e.from # i}]

AddEdge(g, e) == [g EXCEPT !.edges = @ \cup {e}]

RemoveEdge(g, e) == [g EXCEPT !.edges = @ \ {e}]

WriterNext == \/ \E i \in Id : \/ graph' = UpsertEntity(graph, i)
                               \/ graph' = DeleteEntity(graph, i)
              \/ \E e \in Edge : \/ graph' = AddEdge(graph, e)
                                 \/ graph' = RemoveEdge(graph, e)

WriterSpec == graph = EmptyGraph /\ [][WriterNext]_graph
=============================================================================
