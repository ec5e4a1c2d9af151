---------------------------- MODULE DagValidator ----------------------------
(***************************************************************************)
(* validate_workflow (services/dag_validator.py): the checks a definition  *)
(* passes before it is stored, and Kahn's algorithm.  A step is one pass   *)
(* through one of its loops.                                               *)
(***************************************************************************)
EXTENDS Sequences, FiniteSets, Executors

CONSTANTS
  Id,          \* node ids, the ones edges name included
  Definition   \* the workflow definitions to validate

ASSUME DefinitionAssumption ==
  \A d \in Definition :
    /\ d.nodes \in Seq(Id)
    /\ d.edges \in Seq(Id \X Id)
    /\ DOMAIN d.type = Id            \* the executor a node names
    /\ d.config \in [Id -> Config]

ErrorCode == {"duplicate_node_id", "unknown_executor_type", "invalid_executor_config",
              "missing_edge_reference", "cycle_detected"}

VARIABLES
  workflow,           \* the definition
  pc,                 \* the loop that runs
  i,                  \* the next element of the list that loop goes through
  nodes_by_id,        \* the ids seen
  in_degree,          \* of the ids seen
  queue,              \* the deque of Kahn's algorithm
  root_nodes,
  topological_order,
  result              \* "none", "valid" or the code of the AppError raised

vars == <<workflow, pc, i, nodes_by_id, in_degree, queue, root_nodes,
          topological_order, result>>

Loop == {"nodes", "edges", "roots", "sort", "neighbors", "done"}

Elements(s) == {s[k] : k \in 1 .. Len(s)}

EdgeIndex == 1 .. Len(workflow.edges)
From(k) == workflow.edges[k][1]
To(k) == workflow.edges[k][2]

Init ==
  /\ workflow \in Definition
  /\ pc = "nodes"
  /\ i = 1
  /\ nodes_by_id = {}
  /\ in_degree = << >>
  /\ queue = << >>
  /\ root_nodes = << >>
  /\ topological_order = << >>
  /\ result = "none"

Conclude(verdict) ==
  /\ pc' = "done"
  /\ result' = verdict
  /\ UNCHANGED <<workflow, i, nodes_by_id, in_degree, queue, root_nodes, topological_order>>

(* A loop ends and the next one starts at its first element.               *)
Enter(loop) == pc' = loop /\ i' = 1

-----------------------------------------------------------------------------
(* The checks of nodes and edges.                                          *)

(* The error a node causes, in the order of the checks.                    *)
NodeError(n) ==
  IF n \in nodes_by_id THEN "duplicate_node_id"
  ELSE IF workflow.type[n] \notin Registered THEN "unknown_executor_type"
  ELSE IF ~ValidConfig(workflow.type[n], workflow.config[n]) THEN "invalid_executor_config"
  ELSE "none"

CheckNode ==
  /\ pc = "nodes" /\ i <= Len(workflow.nodes)
  /\ LET n == workflow.nodes[i] IN
       IF NodeError(n) # "none"
       THEN Conclude(NodeError(n))
       ELSE /\ nodes_by_id' = nodes_by_id \cup {n}
            /\ i' = i + 1
            /\ UNCHANGED <<workflow, pc, in_degree, queue, root_nodes, topological_order, result>>

NodesChecked ==
  /\ pc = "nodes" /\ i > Len(workflow.nodes)
  /\ Enter("edges")
  /\ in_degree' = [n \in nodes_by_id |-> 0]
  /\ UNCHANGED <<workflow, nodes_by_id, queue, root_nodes, topological_order, result>>

CheckEdge ==
  /\ pc = "edges" /\ i <= Len(workflow.edges)
  /\ IF From(i) \notin nodes_by_id \/ To(i) \notin nodes_by_id
     THEN Conclude("missing_edge_reference")
     ELSE /\ in_degree' = [in_degree EXCEPT ![To(i)] = @ + 1]
          /\ i' = i + 1
          /\ UNCHANGED <<workflow, pc, nodes_by_id, queue, root_nodes, topological_order, result>>

EdgesChecked ==
  /\ pc = "edges" /\ i > Len(workflow.edges)
  /\ Enter("roots")
  /\ UNCHANGED <<workflow, nodes_by_id, in_degree, queue, root_nodes, topological_order, result>>

-----------------------------------------------------------------------------
(* Kahn's algorithm.                                                       *)

(* The roots are collected in the order of the nodes.                      *)
FindRoot ==
  /\ pc = "roots" /\ i <= Len(workflow.nodes)
  /\ queue' = IF in_degree[workflow.nodes[i]] = 0 THEN Append(queue, workflow.nodes[i]) ELSE queue
  /\ root_nodes' = queue'
  /\ i' = i + 1
  /\ UNCHANGED <<workflow, pc, nodes_by_id, in_degree, topological_order, result>>

RootsFound ==
  /\ pc = "roots" /\ i > Len(workflow.nodes)
  /\ IF root_nodes = << >> /\ workflow.nodes # << >>
     THEN Conclude("cycle_detected")
     ELSE /\ Enter("sort")
          /\ UNCHANGED <<workflow, nodes_by_id, in_degree, queue, root_nodes, topological_order,
                         result>>

Pop ==
  /\ pc = "sort" /\ queue # << >>
  /\ topological_order' = Append(topological_order, Head(queue))
  /\ queue' = Tail(queue)
  /\ Enter("neighbors")
  /\ UNCHANGED <<workflow, nodes_by_id, in_degree, root_nodes, result>>

curr == topological_order[Len(topological_order)]

(* Mutant: every neighbor is queued.                                       *)
NeighborEager ==
  /\ pc = "neighbors" /\ i <= Len(workflow.edges)
  /\ IF From(i) = curr
     THEN /\ in_degree' = [in_degree EXCEPT ![To(i)] = @ - 1]
          /\ queue' = Append(queue, To(i))
     ELSE UNCHANGED <<in_degree, queue>>
  /\ i' = i + 1
  /\ UNCHANGED <<workflow, pc, nodes_by_id, root_nodes, topological_order, result>>

(* adj[curr] has the targets of the edges from curr, in their order; an    *)
(* edge given twice is in it twice.                                        *)
Neighbor ==
  /\ pc = "neighbors" /\ i <= Len(workflow.edges)
  /\ IF From(i) = curr
     THEN /\ in_degree' = [in_degree EXCEPT ![To(i)] = @ - 1]
          /\ queue' = IF in_degree'[To(i)] = 0 THEN Append(queue, To(i)) ELSE queue
     ELSE UNCHANGED <<in_degree, queue>>
  /\ i' = i + 1
  /\ UNCHANGED <<workflow, pc, nodes_by_id, root_nodes, topological_order, result>>

NeighborsDone ==
  /\ pc = "neighbors" /\ i > Len(workflow.edges)
  /\ Enter("sort")
  /\ UNCHANGED <<workflow, nodes_by_id, in_degree, queue, root_nodes, topological_order, result>>

(* Mutant: the final length check is missing.                              *)
FinishUnchecked ==
  /\ pc = "sort" /\ queue = << >>
  /\ Conclude("valid")

Finish ==
  /\ pc = "sort" /\ queue = << >>
  /\ Conclude(IF Len(topological_order) # Len(workflow.nodes) THEN "cycle_detected" ELSE "valid")

Next ==
  \/ CheckNode
  \/ NodesChecked
  \/ CheckEdge
  \/ EdgesChecked
  \/ FindRoot
  \/ RootsFound
  \/ Pop
  \/ Neighbor
  \/ NeighborsDone
  \/ Finish

Spec == Init /\ [][Next]_vars

-----------------------------------------------------------------------------
(* Properties.                                                             *)

Ids == Elements(workflow.nodes)
HasEdge(m, n) == \E k \in EdgeIndex : From(k) = m /\ To(k) = n

(* A graph has a cycle iff some set of nodes has a parent in the set for   *)
(* each of its nodes.                                                      *)
Acyclic == \A S \in SUBSET Ids : S # {} => \E n \in S : \A m \in S : ~HasEdge(m, n)

Distinct(s) == \A k, l \in 1 .. Len(s) : s[k] = s[l] => k = l

TypeOK ==
  /\ workflow \in Definition
  /\ pc \in Loop
  /\ i \in Nat \ {0}
  /\ nodes_by_id \subseteq Id
  /\ DOMAIN in_degree \subseteq nodes_by_id
  /\ \A n \in DOMAIN in_degree : in_degree[n] \in Nat
  /\ queue \in Seq(nodes_by_id)
  /\ root_nodes \in Seq(nodes_by_id)
  /\ topological_order \in Seq(nodes_by_id)
  /\ result \in ErrorCode \cup {"none", "valid"}

(* validate_workflow accepts a definition iff it may be stored: ids are    *)
(* unique, every node has an executor that accepts its config, edges       *)
(* connect nodes, and the graph has no cycle.  It speaks of a cycle only   *)
(* where there is one, and the roots it returns are the nodes that         *)
(* start_execution has to queue.  The variables have their types.          *)
VerdictIsRight ==
  /\ TypeOK
  /\ pc = "done" =>
       (result = "valid" <=> /\ Distinct(workflow.nodes)
                             /\ \A n \in Ids : /\ workflow.type[n] \in Registered
                                               /\ ValidConfig(workflow.type[n], workflow.config[n])
                             /\ \A k \in EdgeIndex : From(k) \in Ids /\ To(k) \in Ids
                             /\ Acyclic)
  /\ result = "cycle_detected" => ~Acyclic
  /\ result = "valid" =>
       /\ Elements(root_nodes) = {n \in Ids : \A m \in Ids : ~HasEdge(m, n)}
       /\ workflow.nodes # << >> => root_nodes # << >>

(* What validate_workflow accepts, every executor can start on: the fields *)
(* execute looks up without a default are in the config, a request has a   *)
(* URL to check, and a delay sleeps, for an hour at most.                  *)
AcceptedNodesStart ==
  result = "valid" =>
    \A n \in Ids : LET type == workflow.type[n]
                       c == workflow.config[n] IN
      /\ LookedUp(type) \subseteq c.fields
      /\ type \in {"http", "webhook"} => c.url = "http"
      /\ type = "delay" => c.duration > 0 /\ c.duration <= 3600

(* What Kahn's algorithm has put in order so far names no node twice, and  *)
(* every parent of a node comes before it.                                 *)
OrderIsTopological ==
  /\ Distinct(topological_order)
  /\ \A k \in 1 .. Len(topological_order), m \in Ids :
       HasEdge(m, topological_order[k]) => \E l \in 1 .. k - 1 : topological_order[l] = m

=============================================================================
