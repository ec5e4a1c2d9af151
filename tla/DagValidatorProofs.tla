------------------------ MODULE DagValidatorProofs --------------------------
(***************************************************************************)
(* validate_workflow is right, for every workflow definition: it accepts   *)
(* those that may be stored and no others, and Kahn's algorithm returns a  *)
(* topological order.                                                      *)
(*                                                                         *)
(* The heart of the invariant is what in_degree counts: the edges into a   *)
(* node that the algorithm has still to remove.                            *)
(***************************************************************************)
EXTENDS DagValidator, FiniteSetTheorems, WellFoundedInduction, TLAPS

(* What the loop over the nodes, and the one over the edges, ask for.      *)
Good(n) == workflow.type[n] \in Registered /\ ValidConfig(workflow.type[n], workflow.config[n])
Checked == Distinct(workflow.nodes) /\ \A n \in Ids : Good(n)
Wired == \A k \in EdgeIndex : From(k) \in Ids /\ To(k) \in Ids
Sources == {n \in Ids : \A k \in EdgeIndex : To(k) # n}

(* The edge k leaves a node of the order; the edges of the last one are    *)
(* removed one by one.                                                     *)
Removed(k) ==
  \E l \in 1 .. Len(topological_order) :
    topological_order[l] = From(k) /\ ~(pc = "neighbors" /\ l = Len(topological_order) /\ i <= k)

(* The edges into n that in_degree[n] counts.                              *)
Pending(n) == {k \in EdgeIndex : To(k) = n /\ (pc = "edges" => k < i) /\ ~Removed(k)}

Types ==
  /\ workflow \in Definition /\ pc \in Loop /\ i \in Nat \ {0}
  /\ nodes_by_id \subseteq Id
  /\ in_degree = << >> \/ in_degree \in [nodes_by_id -> Nat]
  /\ queue \in Seq(nodes_by_id) /\ root_nodes \in Seq(nodes_by_id)
  /\ topological_order \in Seq(nodes_by_id)
  /\ result \in ErrorCode \cup {"none", "valid"} /\ (result = "none" <=> pc # "done")

NodesInv ==
  pc = "nodes" =>
    /\ i <= Len(workflow.nodes) + 1 /\ in_degree = << >>
    /\ nodes_by_id = {workflow.nodes[k] : k \in 1 .. i - 1}
    /\ \A k, l \in 1 .. i - 1 : workflow.nodes[k] = workflow.nodes[l] => k = l
    /\ \A n \in nodes_by_id : Good(n)

CountsInv ==
  pc \in {"edges", "roots", "sort", "neighbors"} =>
    /\ Checked /\ nodes_by_id = Ids
    /\ in_degree \in [Ids -> Nat] /\ \A n \in Ids : in_degree[n] = Cardinality(Pending(n))

EdgesInv ==
  /\ pc = "edges" => /\ i <= Len(workflow.edges) + 1
                     /\ \A k \in 1 .. i - 1 : From(k) \in Ids /\ To(k) \in Ids
  /\ pc \in {"roots", "sort", "neighbors"} => Wired

RootsInv ==
  /\ pc \in {"nodes", "edges", "roots"} => topological_order = << >> /\ root_nodes = queue
  /\ pc \in {"nodes", "edges"} => queue = << >>
  /\ pc = "roots" =>
       /\ i <= Len(workflow.nodes) + 1
       /\ Elements(queue) = {n \in Sources : \E k \in 1 .. i - 1 : workflow.nodes[k] = n}
  /\ pc \in {"sort", "neighbors"} =>
       Elements(root_nodes) = Sources /\ (root_nodes = << >> => workflow.nodes = << >>)

(* A node is queued when its last incoming edge is removed.                *)
QueueInv ==
  /\ Distinct(queue)
  /\ pc \in {"sort", "neighbors"} =>
       /\ Elements(queue) \cap Elements(topological_order) = {}
       /\ \A n \in Ids : Pending(n) = {} <=> n \in Elements(queue) \cup Elements(topological_order)
  /\ pc = "neighbors" => topological_order # << >> /\ i <= Len(workflow.edges) + 1

OrderInv ==
  /\ Distinct(topological_order)
  /\ \A l \in 1 .. Len(topological_order), k \in EdgeIndex :
       To(k) = topological_order[l] => \E j \in 1 .. l - 1 : topological_order[j] = From(k)

VerdictInv ==
  pc = "done" =>
    /\ result = "valid" <=> Checked /\ Wired /\ Acyclic
    /\ result = "cycle_detected" => ~Acyclic
    /\ result = "valid" =>
         Elements(root_nodes) = Sources /\ (root_nodes = << >> => workflow.nodes = << >>)

IndInv ==
  Types /\ NodesInv /\ CountsInv /\ EdgesInv /\ RootsInv /\ QueueInv /\ OrderInv /\ VerdictInv

-----------------------------------------------------------------------------
(* Sequences.                                                              *)

LEMMA ElementsFacts ==
  ASSUME NEW S, NEW q \in Seq(S)
  PROVE  /\ Len(q) \in Nat /\ Elements(q) \subseteq S
         /\ \A k \in 1 .. Len(q) : q[k] \in Elements(q)
         /\ q = << >> <=> Elements(q) = {}
         /\ q = << >> <=> Len(q) = 0
<1>1. Len(q) \in Nat /\ (q = << >> <=> Len(q) = 0) /\ \A k \in 1 .. Len(q) : q[k] \in S
  OBVIOUS
<1>2. q # << >> => 1 \in 1 .. Len(q)
  BY <1>1
<1>3. q = << >> => 1 .. Len(q) = {}
  BY <1>1
<1> QED
  BY <1>1, <1>2, <1>3, Zenon DEF Elements

LEMMA ElementsAppend ==
  ASSUME NEW S, NEW q \in Seq(S), NEW e \in S
  PROVE  /\ Append(q, e) \in Seq(S) /\ Elements(Append(q, e)) = Elements(q) \cup {e}
         /\ Len(Append(q, e)) = Len(q) + 1 /\ Append(q, e)[Len(q) + 1] = e
         /\ \A k \in 1 .. Len(q) : Append(q, e)[k] = q[k]
<1>1. /\ Append(q, e) \in Seq(S) /\ Len(Append(q, e)) = Len(q) + 1 /\ Len(q) \in Nat
      /\ Append(q, e)[Len(q) + 1] = e /\ \A k \in 1 .. Len(q) : Append(q, e)[k] = q[k]
  OBVIOUS
<1>2. \A k \in 1 .. (Len(q) + 1) : k \in 1 .. Len(q) \/ k = Len(q) + 1
  BY <1>1
<1>3. \A k \in 1 .. Len(q) : k \in 1 .. (Len(q) + 1)
  BY <1>1
<1>4. Len(q) + 1 \in 1 .. (Len(q) + 1)
  BY <1>1
<1>5. ASSUME NEW x PROVE x \in Elements(Append(q, e)) <=> x \in Elements(q) \cup {e}
  <2>1. x \in Elements(Append(q, e)) => x \in Elements(q) \cup {e}
    BY <1>1, <1>2, Zenon DEF Elements
  <2>2. x \in Elements(q) => x \in Elements(Append(q, e))
    BY <1>1, <1>3, Zenon DEF Elements
  <2>3. e \in Elements(Append(q, e))
    BY <1>1, <1>4, Zenon DEF Elements
  <2> QED
    BY <2>1, <2>2, <2>3, Zenon
<1> QED
  BY <1>1, <1>5, Zenon

LEMMA ElementsTail ==
  ASSUME NEW S, NEW q \in Seq(S), q # << >>
  PROVE  /\ Tail(q) \in Seq(S) /\ Head(q) \in S /\ Head(q) = q[1] /\ Len(q) > 0
         /\ Len(Tail(q)) = Len(q) - 1 /\ \A k \in 1 .. Len(Tail(q)) : Tail(q)[k] = q[k + 1]
         /\ Elements(q) = {Head(q)} \cup Elements(Tail(q))
<1>1. /\ Tail(q) \in Seq(S) /\ Head(q) \in S /\ Head(q) = q[1] /\ Len(q) \in Nat /\ Len(q) > 0
      /\ Len(Tail(q)) = Len(q) - 1 /\ \A k \in 1 .. Len(Tail(q)) : Tail(q)[k] = q[k + 1]
  OBVIOUS
<1>2. \A k \in 1 .. Len(q) : k = 1 \/ (k - 1 \in 1 .. Len(Tail(q)) /\ Tail(q)[k - 1] = q[k])
  BY <1>1
<1>3. \A k \in 1 .. Len(Tail(q)) : k + 1 \in 1 .. Len(q)
  BY <1>1
<1>4. 1 \in 1 .. Len(q)
  BY <1>1
<1>5. ASSUME NEW x PROVE x \in Elements(q) <=> x \in {Head(q)} \cup Elements(Tail(q))
  <2>1. ASSUME x \in Elements(q) PROVE x \in {Head(q)} \cup Elements(Tail(q))
    <3>1. PICK k \in 1 .. Len(q) : x = q[k]
      BY <2>1, Zenon DEF Elements
    <3>2. k = 1 => x = Head(q)
      BY <1>1, <3>1, Zenon
    <3>3. k # 1 => x \in Elements(Tail(q))
      BY <1>2, <3>1, Zenon DEF Elements
    <3> QED
      BY <3>2, <3>3, Zenon
  <2>2. x \in Elements(Tail(q)) => x \in Elements(q)
    BY <1>1, <1>3 DEF Elements
  <2>3. Head(q) \in Elements(q)
    BY <1>1, <1>4, Zenon DEF Elements
  <2> QED
    BY <2>1, <2>2, <2>3, Zenon
<1> QED
  BY <1>1, <1>5, Zenon

LEMMA DistinctAppend ==
  ASSUME NEW S, NEW q \in Seq(S), NEW e \in S, Distinct(q), e \notin Elements(q)
  PROVE  Distinct(Append(q, e))
<1>1. /\ Len(Append(q, e)) = Len(q) + 1 /\ Append(q, e)[Len(q) + 1] = e /\ Len(q) \in Nat
      /\ \A k \in 1 .. Len(q) : Append(q, e)[k] = q[k] /\ q[k] # e
  BY ElementsAppend, ElementsFacts
<1>2. \A k \in 1 .. (Len(q) + 1) : k \in 1 .. Len(q) \/ k = Len(q) + 1
  BY <1>1
<1> QED
  BY <1>1, <1>2, Zenon DEF Distinct

LEMMA DistinctTail ==
  ASSUME NEW S, NEW q \in Seq(S), q # << >>, Distinct(q)
  PROVE  Distinct(Tail(q)) /\ Head(q) \notin Elements(Tail(q))
<1>1. /\ Len(Tail(q)) = Len(q) - 1 /\ Head(q) = q[1] /\ Len(q) \in Nat /\ Len(q) > 0
      /\ \A k \in 1 .. Len(Tail(q)) : Tail(q)[k] = q[k + 1]
  BY ElementsTail
<1>2. \A k \in 1 .. Len(Tail(q)) : k + 1 \in 1 .. Len(q) /\ k + 1 # 1
  BY <1>1
<1>3. 1 \in 1 .. Len(q)
  BY <1>1
<1>4. ASSUME NEW k \in 1 .. Len(Tail(q)), NEW l \in 1 .. Len(Tail(q)), Tail(q)[k] = Tail(q)[l]
      PROVE  k = l
  <2>1. q[k + 1] = q[l + 1]
    BY <1>1, <1>4, Zenon
  <2>2. k + 1 = l + 1
    BY <1>2, <2>1, Zenon DEF Distinct
  <2> QED
    BY <2>2
<1>5. \A k \in 1 .. Len(Tail(q)) : Tail(q)[k] # Head(q)
  BY <1>1, <1>2, <1>3, Zenon DEF Distinct
<1> QED
  BY <1>4, <1>5, Zenon DEF Distinct, Elements

(* A list without repetitions has as many elements as places.              *)
LEMMA DistinctCounts ==
  ASSUME NEW S, NEW q \in Seq(S), Distinct(q)
  PROVE  IsFiniteSet(Elements(q)) /\ Cardinality(Elements(q)) = Len(q)
<1>1. Len(q) \in Nat
  OBVIOUS
<1>2. [k \in 1 .. Len(q) |-> q[k]] \in Bijection(1 .. Len(q), Elements(q))
  BY Zenon DEF Elements, Distinct, Bijection, Injection, Surjection, IsInjective
<1>3. ExistsBijection(1 .. Len(q), Elements(q))
  BY <1>2, Zenon DEF ExistsBijection
<1> QED
  BY <1>1, <1>3, FS_NatBijection, FS_CountingElements, Zenon

(* Lists of the same length without repetitions, one within the other.     *)
LEMMA SameLength ==
  ASSUME NEW S, NEW q \in Seq(S), NEW t \in Seq(S), Distinct(q), Distinct(t),
         Elements(q) \subseteq Elements(t)
  PROVE  Len(q) = Len(t) <=> Elements(q) = Elements(t)
<1>1. /\ IsFiniteSet(Elements(q)) /\ Cardinality(Elements(q)) = Len(q)
      /\ IsFiniteSet(Elements(t)) /\ Cardinality(Elements(t)) = Len(t)
  BY DistinctCounts, Zenon
<1> QED
  BY <1>1, FS_Subset, Zenon

-----------------------------------------------------------------------------
(* The definition, and the edges that are still to be removed.             *)

LEMMA DefinitionFacts ==
  ASSUME Types
  PROVE  /\ workflow.nodes \in Seq(Id) /\ Len(workflow.nodes) \in Nat /\ Ids \subseteq Id
         /\ workflow.edges \in Seq(Id \X Id) /\ Len(workflow.edges) \in Nat
         /\ \A k \in EdgeIndex : From(k) \in Id /\ To(k) \in Id
         /\ \A k \in 1 .. Len(workflow.nodes) : workflow.nodes[k] \in Ids
<1>1. workflow.nodes \in Seq(Id) /\ workflow.edges \in Seq(Id \X Id)
  BY DefinitionAssumption, Zenon DEF Types
<1>2. \A k \in EdgeIndex : workflow.edges[k] \in Id \X Id
  BY <1>1 DEF EdgeIndex
<1> QED
  BY <1>1, <1>2, ElementsFacts, Zenon DEF Ids, From, To

LEMMA SameDefinition ==
  ASSUME workflow' = workflow
  PROVE  /\ Ids' = Ids /\ EdgeIndex' = EdgeIndex /\ Sources' = Sources
         /\ \A k : From(k)' = From(k) /\ To(k)' = To(k)
         /\ Checked' <=> Checked
         /\ Wired' <=> Wired
         /\ Acyclic' <=> Acyclic
         /\ \A n : Good(n)' <=> Good(n)
BY DEF Ids, EdgeIndex, Sources, From, To, Checked, Wired, Acyclic, HasEdge, Good

LEMMA PendingFinite ==
  ASSUME Types, NEW n
  PROVE  IsFiniteSet(Pending(n)) /\ Cardinality(Pending(n)) \in Nat
         /\ (Cardinality(Pending(n)) = 0 <=> Pending(n) = {})
<1>1. IsFiniteSet(EdgeIndex)
  <2>1. 1 \in Int /\ Len(workflow.edges) \in Int
    BY DefinitionFacts
  <2> QED
    BY <2>1, FS_Interval, Zenon DEF EdgeIndex
<1>2. Pending(n) \subseteq EdgeIndex
  BY Zenon DEF Pending
<1>3. IsFiniteSet(Pending(n))
  BY <1>1, <1>2, FS_Subset, Zenon
<1> QED
  BY <1>3, FS_CardinalityType, FS_EmptySet, Zenon


-----------------------------------------------------------------------------
(* The steps.                                                              *)

LEMMA InitInd == Init => IndInv
<1> SUFFICES ASSUME Init PROVE IndInv
  BY Zenon
<1>1. Len(<<>>) = 0 /\ Elements(<<>>) = {} /\ Distinct(<<>>)
  BY DEF Elements, Distinct
<1>2. Types
  BY DEF Init, Types, Loop
<1>3. NodesInv
  <2>1. 1 <= Len(workflow.nodes) + 1 /\ 1 .. i - 1 = {}
    BY <1>2, DefinitionFacts DEF Init
  <2> QED
    BY <2>1, Zenon DEF Init, NodesInv
<1>4. OrderInv /\ QueueInv
  BY <1>1 DEF Init, OrderInv, QueueInv
<1> QED
  BY <1>2, <1>3, <1>4, Zenon DEF Init, IndInv, CountsInv, EdgesInv, RootsInv, VerdictInv

(* The loops end with a verdict that is right.                             *)
LEMMA ConcludeInd ==
  ASSUME IndInv, NEW verdict \in ErrorCode \cup {"valid"}, Conclude(verdict),
         verdict = "valid" <=> Checked /\ Wired /\ Acyclic,
         verdict = "cycle_detected" => ~Acyclic,
         verdict = "valid" =>
           Elements(root_nodes) = Sources /\ (root_nodes = << >> => workflow.nodes = << >>)
  PROVE  IndInv'
<1>1. /\ pc' = "done" /\ result' = verdict
      /\ UNCHANGED <<workflow, i, nodes_by_id, in_degree, queue, root_nodes, topological_order>>
  BY Zenon DEF Conclude
<1>2. Types'
  BY <1>1, Zenon DEF IndInv, Types, Loop, ErrorCode
<1>3. QueueInv'
  BY <1>1, Zenon DEF IndInv, QueueInv, Distinct
<1>4. OrderInv'
  BY <1>1, SameDefinition DEF IndInv, OrderInv, Distinct
<1>5. VerdictInv'
  BY <1>1, SameDefinition, Zenon DEF VerdictInv, Elements
<1> QED
  BY <1>1, <1>2, <1>3, <1>4, <1>5, Zenon DEF IndInv, NodesInv, CountsInv, EdgesInv, RootsInv

LEMMA CheckNodeInd ==
  ASSUME IndInv, CheckNode
  PROVE  IndInv'
<1> DEFINE n == workflow.nodes[i]
<1>1. /\ pc = "nodes" /\ i \in Nat \ {0} /\ i <= Len(workflow.nodes) /\ Len(workflow.nodes) \in Nat
      /\ i \in 1 .. Len(workflow.nodes) /\ n \in Ids /\ Ids \subseteq Id
      /\ nodes_by_id = {workflow.nodes[k] : k \in 1 .. i - 1}
  BY DefinitionFacts DEF CheckNode, IndInv, Types, NodesInv
<1>2. CASE NodeError(n) # "none"
  <2>1. NodeError(n) \in ErrorCode \ {"cycle_detected"} /\ NodeError(n) # "valid" /\ Conclude(NodeError(n))
    BY <1>2, Zenon DEF CheckNode, NodeError, ErrorCode
  <2>2. ~Checked
    <3>1. CASE n \in nodes_by_id
      <4>1. PICK k \in 1 .. i - 1 : workflow.nodes[k] = n
        BY <1>1, <3>1, Zenon
      <4>2. k \in 1 .. Len(workflow.nodes) /\ k # i
        BY <1>1
      <4> QED
        BY <1>1, <4>1, <4>2, Zenon DEF Checked, Distinct
    <3>2. CASE n \notin nodes_by_id
      BY <1>1, <1>2, <3>2, Zenon DEF NodeError, Checked, Good
    <3> QED
      BY <3>1, <3>2, Zenon
  <2> QED
    BY <2>1, <2>2, ConcludeInd, Zenon
<1>3. CASE NodeError(n) = "none"
  <2>1. /\ nodes_by_id' = nodes_by_id \cup {n} /\ i' = i + 1
        /\ UNCHANGED <<workflow, pc, in_degree, queue, root_nodes, topological_order, result>>
    BY <1>3, Zenon DEF CheckNode
  <2>2. n \notin nodes_by_id /\ Good(n)
    BY <1>3, Zenon DEF NodeError, Good
  <2>3. in_degree = << >> /\ queue = << >> /\ root_nodes = << >> /\ topological_order = << >>
    BY <1>1, Zenon DEF IndInv, RootsInv, NodesInv
  <2>4. Types'
    BY <1>1, <2>1, <2>3 DEF IndInv, Types
  <2>5. NodesInv'
    <3>1. 1 .. i' - 1 = (1 .. i - 1) \cup {i} /\ i' <= Len(workflow.nodes) + 1
      BY <1>1, <2>1
    <3>2. nodes_by_id' = {workflow.nodes[k] : k \in 1 .. i' - 1}
      BY <1>1, <2>1, <3>1, Zenon
    <3>3. \A k \in 1 .. i - 1 : workflow.nodes[k] # n
      BY <1>1, <2>2, Zenon
    <3>4. \A k, l \in 1 .. i - 1 : workflow.nodes[k] = workflow.nodes[l] => k = l
      BY <1>1, Zenon DEF IndInv, NodesInv
    <3>5. \A k, l \in 1 .. i' - 1 : workflow.nodes[k] = workflow.nodes[l] => k = l
      BY <3>1, <3>3, <3>4, Zenon
    <3>6. \A m \in nodes_by_id' : Good(m)
      BY <1>1, <2>1, <2>2, Zenon DEF IndInv, NodesInv
    <3> QED
      BY <2>1, <2>3, <3>1, <3>2, <3>5, <3>6, SameDefinition DEF NodesInv
  <2>6. OrderInv' /\ QueueInv'
    BY <1>1, <2>1, <2>3, SameDefinition DEF IndInv, OrderInv, QueueInv, Distinct
  <2> QED
    BY <1>1, <2>1, <2>3, <2>4, <2>5, <2>6, Zenon DEF IndInv, CountsInv, EdgesInv, RootsInv, VerdictInv
<1> QED
  BY <1>2, <1>3, Zenon

LEMMA NodesCheckedInd ==
  ASSUME IndInv, NodesChecked
  PROVE  IndInv'
<1>1. /\ pc = "nodes" /\ pc' = "edges" /\ i' = 1 /\ in_degree' = [n \in nodes_by_id |-> 0]
      /\ UNCHANGED <<workflow, nodes_by_id, queue, root_nodes, topological_order, result>>
  BY Zenon DEF NodesChecked, Enter
<1>2. Len(workflow.nodes) \in Nat /\ i - 1 = Len(workflow.nodes)
  <2>1. i \in Nat /\ Len(workflow.nodes) \in Nat
    BY DefinitionFacts, Zenon DEF IndInv, Types
  <2>2. i > Len(workflow.nodes) /\ i <= Len(workflow.nodes) + 1
    BY Zenon DEF NodesChecked, IndInv, NodesInv
  <2> QED
    BY <2>1, <2>2
<1>3. nodes_by_id = Ids /\ Checked
  BY <1>1, <1>2, Zenon DEF IndInv, NodesInv, Ids, Elements, Checked, Distinct
<1>4. queue = << >> /\ root_nodes = << >> /\ topological_order = << >>
  BY <1>1, Zenon DEF IndInv, RootsInv
<1>5. Types'
  BY <1>1 DEF IndInv, Types, Loop
<1>6. \A n : Pending(n)' = {}
  <2>1. \A k \in EdgeIndex : ~(k < i')
    BY <1>1 DEF EdgeIndex
  <2> QED
    BY <1>1, <2>1, SameDefinition, Zenon DEF Pending
<1>7. CountsInv'
  BY <1>1, <1>3, <1>6, SameDefinition, FS_EmptySet, Zenon DEF CountsInv
<1>8. EdgesInv'
  BY <1>1, DefinitionFacts DEF IndInv, EdgesInv
<1>9. OrderInv' /\ QueueInv'
  BY <1>1, SameDefinition DEF IndInv, OrderInv, QueueInv, Distinct
<1> QED
  BY <1>1, <1>4, <1>5, <1>7, <1>8, <1>9, Zenon DEF IndInv, NodesInv, RootsInv, VerdictInv


LEMMA CheckEdgeInd ==
  ASSUME IndInv, CheckEdge
  PROVE  IndInv'
<1>1. /\ pc = "edges" /\ i \in Nat \ {0} /\ i <= Len(workflow.edges) /\ Len(workflow.edges) \in Nat
      /\ i \in EdgeIndex
  BY DefinitionFacts DEF CheckEdge, IndInv, Types, EdgeIndex
<1>2. Types /\ Checked /\ nodes_by_id = Ids /\ in_degree \in [Ids -> Nat]
  BY <1>1, Zenon DEF IndInv, CountsInv
<1>3. CASE From(i) \notin nodes_by_id \/ To(i) \notin nodes_by_id
  <2>1. Conclude("missing_edge_reference") /\ ~Wired
    BY <1>1, <1>2, <1>3, Zenon DEF CheckEdge, Wired
  <2>2. "missing_edge_reference" \in ErrorCode \cup {"valid"}
    BY Zenon DEF ErrorCode
  <2> QED
    BY <2>1, <2>2, ConcludeInd, Zenon
<1>4. CASE From(i) \in nodes_by_id /\ To(i) \in nodes_by_id
  <2>1. /\ in_degree' = [in_degree EXCEPT ![To(i)] = @ + 1] /\ i' = i + 1
        /\ UNCHANGED <<workflow, pc, nodes_by_id, queue, root_nodes, topological_order, result>>
    BY <1>4, Zenon DEF CheckEdge
  <2>2. topological_order = << >> /\ queue = << >> /\ root_nodes = << >>
    BY <1>1, Zenon DEF IndInv, RootsInv
  <2>3. ASSUME NEW k \in EdgeIndex PROVE ~Removed(k) /\ ~Removed(k)'
    <3>1. 1 .. Len(<<>>) = {}
      OBVIOUS
    <3> QED
      BY <2>1, <2>2, <3>1, Zenon DEF Removed
  <2>4. ASSUME NEW n \in Ids PROVE in_degree'[n] = Cardinality(Pending(n)')
    <3>1. IsFiniteSet(Pending(n)) /\ in_degree[n] = Cardinality(Pending(n)) /\ i \notin Pending(n)
      <4>1. IsFiniteSet(Pending(n)) /\ in_degree[n] = Cardinality(Pending(n))
        BY <1>1, <1>2, PendingFinite, Zenon DEF IndInv, CountsInv
      <4>2. i \notin Pending(n)
        BY <1>1 DEF Pending
      <4> QED
        BY <4>1, <4>2, Zenon
    <3>2. \A k \in EdgeIndex : k < i' <=> k < i \/ k = i
      BY <1>1, <2>1 DEF EdgeIndex
    <3>3. Pending(n)' = IF To(i) = n THEN Pending(n) \cup {i} ELSE Pending(n)
      BY <1>1, <2>1, <2>3, <3>2, SameDefinition, Zenon DEF Pending
    <3>4. CASE To(i) = n
      <4>1. Cardinality(Pending(n) \cup {i}) = Cardinality(Pending(n)) + 1
        BY <3>1, FS_AddElement, Zenon
      <4> QED
        BY <1>2, <2>1, <3>1, <3>3, <3>4, <4>1, Zenon
    <3>5. CASE To(i) # n
      BY <1>2, <2>1, <3>1, <3>3, <3>5, Zenon
    <3> QED
      BY <3>4, <3>5, Zenon
  <2>5. in_degree' \in [Ids -> Nat]
    BY <1>2, <1>4, <2>1
  <2>6. CountsInv'
    BY <1>2, <2>1, <2>4, <2>5, SameDefinition, Zenon DEF CountsInv
  <2>7. Types'
    BY <1>1, <1>2, <2>1, <2>5 DEF Types
  <2>8. EdgesInv'
    <3>1. i' <= Len(workflow.edges) + 1 /\ 1 .. i' - 1 = (1 .. i - 1) \cup {i}
      BY <1>1, <2>1
    <3>2. \A k \in 1 .. i - 1 : From(k) \in Ids /\ To(k) \in Ids
      BY <1>1, Zenon DEF IndInv, EdgesInv
    <3>3. \A k \in 1 .. i' - 1 : From(k) \in Ids /\ To(k) \in Ids
      BY <1>2, <1>4, <3>1, <3>2, Zenon
    <3> QED
      BY <1>1, <2>1, <3>1, <3>3, SameDefinition, Zenon DEF EdgesInv
  <2>9. QueueInv'
    BY <1>1, <2>1, Zenon DEF IndInv, QueueInv, Distinct
  <2>10. OrderInv'
    BY <2>1, SameDefinition DEF IndInv, OrderInv, Distinct
  <2> QED
    BY <1>1, <2>1, <2>2, <2>6, <2>7, <2>8, <2>9, <2>10, Zenon DEF IndInv, NodesInv, RootsInv, VerdictInv
<1> QED
  BY <1>3, <1>4, Zenon

(* Before anything is in order, all edges into a node are pending.         *)
LEMMA NothingRemoved ==
  ASSUME IndInv, pc = "roots"
  PROVE  /\ \A n : Pending(n) = {k \in EdgeIndex : To(k) = n}
         /\ \A n \in Ids : in_degree[n] = 0 <=> n \in Sources
<1>1. topological_order = << >> /\ 1 .. Len(<<>>) = {}
  BY DEF IndInv, RootsInv
<1>2. \A n : Pending(n) = {k \in EdgeIndex : To(k) = n}
  BY <1>1, Zenon DEF Pending, Removed
<1>3. \A n \in Ids : in_degree[n] = 0 <=> Pending(n) = {}
  BY PendingFinite, Zenon DEF IndInv, CountsInv
<1> QED
  BY <1>2, <1>3, Zenon DEF Sources

LEMMA EdgesCheckedInd ==
  ASSUME IndInv, EdgesChecked
  PROVE  IndInv'
<1>1. /\ pc = "edges" /\ pc' = "roots" /\ i' = 1
      /\ UNCHANGED <<workflow, nodes_by_id, in_degree, queue, root_nodes, topological_order, result>>
  BY Zenon DEF EdgesChecked, Enter
<1>2. Len(workflow.edges) \in Nat /\ i - 1 = Len(workflow.edges) /\ i \in Nat /\ Len(workflow.nodes) \in Nat
  <2>1. i \in Nat /\ Len(workflow.edges) \in Nat /\ Len(workflow.nodes) \in Nat
    BY DefinitionFacts, Zenon DEF IndInv, Types
  <2>2. i > Len(workflow.edges) /\ i <= Len(workflow.edges) + 1
    BY Zenon DEF EdgesChecked, IndInv, EdgesInv
  <2> QED
    BY <2>1, <2>2
<1>3. queue = << >> /\ root_nodes = << >> /\ topological_order = << >>
  BY <1>1, Zenon DEF IndInv, RootsInv
<1>4. \A n : Pending(n)' = Pending(n)
  <2>1. \A k \in EdgeIndex : k < i
    BY <1>2 DEF EdgeIndex
  <2>2. 1 .. Len(<<>>) = {}
    OBVIOUS
  <2>3. \A k \in EdgeIndex : ~Removed(k) /\ ~Removed(k)'
    BY <1>1, <1>3, <2>2, Zenon DEF Removed
  <2> QED
    BY <1>1, <2>1, <2>3, SameDefinition, Zenon DEF Pending
<1>5. CountsInv'
  BY <1>1, <1>4, SameDefinition, Zenon DEF IndInv, CountsInv
<1>6. EdgesInv'
  <2>1. Wired
    BY <1>1, <1>2, Zenon DEF IndInv, EdgesInv, Wired, EdgeIndex
  <2> QED
    BY <1>1, <2>1, SameDefinition, Zenon DEF EdgesInv
<1>7. RootsInv'
  <2>1. Elements(<<>>) = {} /\ 1 .. i' - 1 = {}
    BY <1>1 DEF Elements
  <2> QED
    BY <1>1, <1>2, <1>3, <2>1, SameDefinition DEF RootsInv
<1>8. OrderInv' /\ QueueInv'
  BY <1>1, SameDefinition DEF IndInv, OrderInv, QueueInv, Distinct
<1>9. Types'
  BY <1>1 DEF IndInv, Types, Loop
<1> QED
  BY <1>1, <1>5, <1>6, <1>7, <1>8, <1>9, Zenon DEF IndInv, NodesInv, VerdictInv

LEMMA FindRootInd ==
  ASSUME IndInv, FindRoot
  PROVE  IndInv'
<1> DEFINE n == workflow.nodes[i]
<1>1. /\ pc = "roots" /\ i \in Nat \ {0} /\ i <= Len(workflow.nodes) /\ Len(workflow.nodes) \in Nat
      /\ i \in 1 .. Len(workflow.nodes) /\ n \in Ids
  BY DefinitionFacts DEF FindRoot, IndInv, Types
<1>2. /\ Types /\ Checked /\ nodes_by_id = Ids /\ in_degree \in [Ids -> Nat] /\ queue \in Seq(Ids)
      /\ root_nodes = queue /\ topological_order = << >>
      /\ Elements(queue) = {m \in Sources : \E k \in 1 .. i - 1 : workflow.nodes[k] = m}
      /\ Distinct(queue)
  BY <1>1, Zenon DEF IndInv, Types, CountsInv, RootsInv, QueueInv
<1>3. /\ queue' = IF n \in Sources THEN Append(queue, n) ELSE queue
      /\ root_nodes' = queue' /\ i' = i + 1
      /\ UNCHANGED <<workflow, pc, nodes_by_id, in_degree, topological_order, result>>
  BY <1>1, NothingRemoved, Zenon DEF FindRoot
<1>4. n \notin Elements(queue)
  <2>1. \A k \in 1 .. i - 1 : k \in 1 .. Len(workflow.nodes) /\ k # i
    BY <1>1
  <2>2. \A k \in 1 .. i - 1 : workflow.nodes[k] # n
    BY <1>1, <1>2, <2>1, Zenon DEF Checked, Distinct
  <2> QED
    BY <1>2, <2>2, Zenon
<1>5. /\ queue' \in Seq(Ids) /\ Distinct(queue')
      /\ Elements(queue') = IF n \in Sources THEN Elements(queue) \cup {n} ELSE Elements(queue)
  <2>1. CASE n \in Sources
    <3>1. queue' = Append(queue, n)
      BY <1>3, <2>1, Zenon
    <3>2. Append(queue, n) \in Seq(Ids) /\ Elements(Append(queue, n)) = Elements(queue) \cup {n}
      BY <1>1, <1>2, ElementsAppend
    <3>3. Distinct(Append(queue, n))
      BY <1>1, <1>2, <1>4, DistinctAppend, Zenon
    <3> QED
      BY <2>1, <3>1, <3>2, <3>3, Zenon
  <2>2. CASE n \notin Sources
    BY <1>2, <1>3, <2>2, Zenon
  <2> QED
    BY <2>1, <2>2, Zenon
<1>6. Elements(queue') = {m \in Sources : \E k \in 1 .. i' - 1 : workflow.nodes[k] = m}
  <2>1. 1 .. i' - 1 = (1 .. i - 1) \cup {i}
    BY <1>1, <1>3
  <2> QED
    BY <1>2, <1>5, <2>1, Zenon
<1>7. RootsInv'
  <2>1. i' <= Len(workflow.nodes) + 1
    BY <1>1, <1>3
  <2> QED
    BY <1>1, <1>2, <1>3, <1>6, <2>1, SameDefinition, Zenon DEF RootsInv, Elements
<1>8. Types'
  BY <1>1, <1>2, <1>3, <1>5 DEF Types
<1>9. CountsInv'
  <2>1. \A m : Pending(m)' = Pending(m)
    BY <1>1, <1>3, SameDefinition, Zenon DEF Pending, Removed
  <2> QED
    BY <1>1, <1>3, <2>1, SameDefinition, Zenon DEF IndInv, CountsInv
<1>10. EdgesInv' /\ OrderInv'
  BY <1>1, <1>3, SameDefinition DEF IndInv, EdgesInv, OrderInv, Distinct
<1>11. QueueInv'
  BY <1>1, <1>3, <1>5, Zenon DEF QueueInv, Distinct
<1> QED
  BY <1>1, <1>3, <1>7, <1>8, <1>9, <1>10, <1>11, Zenon DEF IndInv, NodesInv, VerdictInv


(* When every node of a set has a parent in it, there is a cycle.          *)
LEMMA CycleFound ==
  ASSUME NEW S \in SUBSET Ids, S # {}, \A n \in S : \E k \in EdgeIndex : To(k) = n /\ From(k) \in S
  PROVE  ~Acyclic
BY Zenon DEF Acyclic, HasEdge

LEMMA RootsFoundInd ==
  ASSUME IndInv, RootsFound
  PROVE  IndInv'
<1>1. pc = "roots" /\ Len(workflow.nodes) \in Nat /\ i - 1 = Len(workflow.nodes)
  <2>1. i \in Nat /\ Len(workflow.nodes) \in Nat
    BY DefinitionFacts, Zenon DEF IndInv, Types
  <2>2. pc = "roots" /\ i > Len(workflow.nodes) /\ i <= Len(workflow.nodes) + 1
    BY Zenon DEF RootsFound, IndInv, RootsInv
  <2> QED
    BY <2>1, <2>2
<1>2. /\ Types /\ Checked /\ Wired /\ nodes_by_id = Ids /\ queue \in Seq(Ids)
      /\ root_nodes = queue /\ topological_order = << >>
  BY <1>1, Zenon DEF IndInv, Types, CountsInv, EdgesInv, RootsInv
<1>3. Elements(queue) = Sources
  <2>1. Elements(queue) = {m \in Sources : \E k \in 1 .. Len(workflow.nodes) : workflow.nodes[k] = m}
    BY <1>1, Zenon DEF IndInv, RootsInv
  <2> QED
    BY <2>1, Zenon DEF Sources, Ids, Elements
<1>4. CASE root_nodes = << >> /\ workflow.nodes # << >>
  <2>1. Conclude("cycle_detected")
    BY <1>4, Zenon DEF RootsFound
  <2>2. Sources = {} /\ Ids # {}
    <3>1. Elements(<<>>) = {}
      BY DEF Elements
    <3>2. Elements(workflow.nodes) # {}
      BY <1>2, <1>4, DefinitionFacts, ElementsFacts
    <3> QED
      BY <1>2, <1>3, <1>4, <3>1, <3>2, Zenon DEF Ids
  <2>3. Ids \in SUBSET Ids /\ \A n \in Ids : \E k \in EdgeIndex : To(k) = n /\ From(k) \in Ids
    BY <1>2, <2>2, Zenon DEF Sources, Wired
  <2>4. ~Acyclic
    BY <2>2, <2>3, CycleFound, Zenon
  <2>5. "cycle_detected" \in ErrorCode \cup {"valid"}
    BY Zenon DEF ErrorCode
  <2> QED
    BY <2>1, <2>4, <2>5, ConcludeInd, Zenon
<1>5. CASE ~(root_nodes = << >> /\ workflow.nodes # << >>)
  <2>1. /\ pc' = "sort" /\ i' = 1
        /\ UNCHANGED <<workflow, nodes_by_id, in_degree, queue, root_nodes, topological_order, result>>
    BY <1>5, Zenon DEF RootsFound, Enter
  <2>2. 1 .. Len(<<>>) = {} /\ Elements(<<>>) = {}
    BY DEF Elements
  <2>3. \A n : Pending(n)' = Pending(n)
    <3>1. \A k \in EdgeIndex : ~Removed(k) /\ ~Removed(k)'
      BY <1>2, <2>1, <2>2, Zenon DEF Removed
    <3> QED
      BY <1>1, <2>1, <3>1, SameDefinition, Zenon DEF Pending
  <2>4. CountsInv'
    BY <1>1, <2>1, <2>3, SameDefinition, Zenon DEF IndInv, CountsInv
  <2>5. \A n \in Ids : Pending(n) = {} <=> n \in Elements(queue)
    BY <1>1, <1>3, NothingRemoved DEF Sources
  <2>6. QueueInv'
    BY <1>2, <2>1, <2>2, <2>3, <2>5, SameDefinition DEF IndInv, QueueInv, Distinct, Elements
  <2>7. RootsInv'
    BY <1>2, <1>3, <1>5, <2>1, SameDefinition, Zenon DEF RootsInv, Elements
  <2>8. Types'
    BY <1>1, <1>2, <2>1 DEF Types, Loop
  <2>9. OrderInv' /\ EdgesInv'
    BY <1>2, <2>1, SameDefinition DEF IndInv, OrderInv, EdgesInv, Distinct
  <2> QED
    BY <2>1, <2>4, <2>6, <2>7, <2>8, <2>9, Zenon DEF IndInv, NodesInv, VerdictInv
<1> QED
  BY <1>4, <1>5, Zenon

(* The head of the queue has all its parents in the order already.         *)
LEMMA PopInd ==
  ASSUME IndInv, Pop
  PROVE  IndInv'
<1>1. /\ pc = "sort" /\ queue # << >> /\ pc' = "neighbors" /\ i' = 1
      /\ topological_order' = Append(topological_order, Head(queue)) /\ queue' = Tail(queue)
      /\ UNCHANGED <<workflow, nodes_by_id, in_degree, root_nodes, result>>
  BY Zenon DEF Pop, Enter
<1>2. /\ Types /\ nodes_by_id = Ids /\ queue \in Seq(Ids) /\ topological_order \in Seq(Ids)
      /\ Distinct(queue) /\ Distinct(topological_order) /\ Len(workflow.edges) \in Nat
      /\ Elements(queue) \cap Elements(topological_order) = {}
  BY <1>1, DefinitionFacts, Zenon DEF IndInv, Types, CountsInv, QueueInv, OrderInv
<1>3. PICK h \in Ids : h = Head(queue)
  BY <1>1, <1>2, ElementsTail, Zenon
<1>4. /\ queue' \in Seq(Ids) /\ Elements(queue) = {h} \cup Elements(queue')
      /\ Distinct(queue') /\ h \notin Elements(queue')
  BY <1>1, <1>2, <1>3, ElementsTail, DistinctTail, Zenon
<1>5. /\ topological_order' \in Seq(Ids) /\ Distinct(topological_order')
      /\ Elements(topological_order') = Elements(topological_order) \cup {h}
      /\ Len(topological_order') = Len(topological_order) + 1 /\ Len(topological_order) \in Nat
      /\ topological_order'[Len(topological_order) + 1] = h
      /\ \A l \in 1 .. Len(topological_order) : topological_order'[l] = topological_order[l]
  <2>1. h \notin Elements(topological_order)
    BY <1>2, <1>4, Zenon
  <2> QED
    BY <1>1, <1>2, <1>3, <2>1, ElementsAppend, DistinctAppend, ElementsFacts
<1>6. \A k \in EdgeIndex : Removed(k)' <=> Removed(k)
  <2>1. \A k \in EdgeIndex : i' <= k
    BY <1>1 DEF EdgeIndex
  <2>2. \A l \in 1 .. Len(topological_order') :
          l = Len(topological_order') \/ l \in 1 .. Len(topological_order)
    BY <1>5
  <2>3. \A l \in 1 .. Len(topological_order) :
          l \in 1 .. Len(topological_order') /\ l # Len(topological_order')
    BY <1>5
  <2> QED
    BY <1>1, <1>5, <2>1, <2>2, <2>3, SameDefinition, Zenon DEF Removed
<1>7. \A n : Pending(n)' = Pending(n)
  BY <1>1, <1>6, SameDefinition, Zenon DEF Pending
<1>8. Types'
  BY <1>1, <1>2, <1>4, <1>5 DEF Types, Loop
<1>9. CountsInv'
  BY <1>1, <1>7, SameDefinition, Zenon DEF IndInv, CountsInv
<1>10. QueueInv'
  <2>1. topological_order' # << >>
    BY <1>5
  <2>2. /\ Elements(queue') \cap Elements(topological_order') = {}
        /\ Elements(queue') \cup Elements(topological_order')
             = Elements(queue) \cup Elements(topological_order)
    BY <1>2, <1>4, <1>5, Zenon
  <2>3. \A n \in Ids : Pending(n)' = {} <=> n \in Elements(queue') \cup Elements(topological_order')
    BY <1>1, <1>7, <2>2, Zenon DEF IndInv, QueueInv
  <2>4. i' <= Len(workflow.edges) + 1
    BY <1>1, <1>2
  <2> QED
    BY <1>1, <1>4, <2>1, <2>2, <2>3, <2>4, SameDefinition, Zenon DEF QueueInv, Elements, Distinct
<1>11. OrderInv'
  <2>1. ASSUME NEW k \in EdgeIndex, To(k) = h
        PROVE  \E j \in 1 .. Len(topological_order) : topological_order[j] = From(k)
    <3>1. Pending(h) = {}
      BY <1>1, <1>3, <1>4, Zenon DEF IndInv, QueueInv
    <3>2. Removed(k)
      BY <1>1, <2>1, <3>1, Zenon DEF Pending
    <3> QED
      BY <3>2, Zenon DEF Removed
  <2>2. ASSUME NEW l \in 1 .. Len(topological_order'), NEW k \in EdgeIndex, To(k) = topological_order'[l]
        PROVE  \E j \in 1 .. l - 1 : topological_order'[j] = From(k)
    <3>1. CASE l = Len(topological_order) + 1
      <4>1. PICK j \in 1 .. Len(topological_order) : topological_order[j] = From(k)
        BY <1>5, <2>1, <2>2, <3>1, Zenon
      <4>2. j \in 1 .. l - 1
        BY <1>5, <3>1
      <4> QED
        BY <1>5, <4>1, <4>2, Zenon
    <3>2. CASE l \in 1 .. Len(topological_order)
      <4>1. PICK j \in 1 .. l - 1 : topological_order[j] = From(k)
        BY <1>5, <2>2, <3>2, Zenon DEF IndInv, OrderInv
      <4>2. j \in 1 .. Len(topological_order)
        BY <1>5, <3>2
      <4> QED
        BY <1>5, <4>1, <4>2, Zenon
    <3> QED
      BY <1>5, <3>1, <3>2
  <2>3. EdgeIndex' = EdgeIndex /\ \A k : From(k)' = From(k) /\ To(k)' = To(k)
    BY <1>1, SameDefinition, Zenon
  <2>4. Distinct(topological_order)'
    BY <1>5, Zenon DEF Distinct
  <2> QED
    BY <2>2, <2>3, <2>4, Zenon DEF OrderInv
<1>12. EdgesInv' /\ RootsInv'
  BY <1>1, SameDefinition DEF IndInv, EdgesInv, RootsInv, Elements
<1> QED
  BY <1>1, <1>8, <1>9, <1>10, <1>11, <1>12, Zenon DEF IndInv, NodesInv, VerdictInv


(* A pass of the loop over adj[curr] removes the edge i if it leaves curr. *)
LEMMA EdgeRemoved ==
  ASSUME IndInv, Neighbor
  PROVE  /\ i \in EdgeIndex
         /\ From(i) = curr => ~Removed(i)
         /\ \A k \in EdgeIndex : Removed(k)' <=> Removed(k) \/ (k = i /\ From(i) = curr)
<1> DEFINE last == Len(topological_order)
<1>1. /\ pc = "neighbors" /\ pc' = pc /\ i' = i + 1 /\ i \in Nat \ {0}
      /\ UNCHANGED <<workflow, topological_order>>
      /\ i <= Len(workflow.edges) /\ Len(workflow.edges) \in Nat
  BY DefinitionFacts, Zenon DEF Neighbor, IndInv, Types
<1>2. i \in EdgeIndex
  BY <1>1 DEF EdgeIndex
<1>3. last \in 1 .. last /\ curr = topological_order[last] /\ Distinct(topological_order)
  <2>1. topological_order \in Seq(nodes_by_id) /\ topological_order # << >>
    BY <1>1, Zenon DEF IndInv, Types, QueueInv
  <2>2. last \in Nat /\ last # 0
    BY <2>1, ElementsFacts
  <2>3. last \in 1 .. last
    BY <2>2
  <2> QED
    BY <2>3, Zenon DEF IndInv, OrderInv, curr
<1>4. \A l \in 1 .. last : topological_order[l] = curr <=> l = last
  BY <1>3, Zenon DEF Distinct
<1>5. From(i) = curr => ~Removed(i)
  BY <1>1, <1>4 DEF Removed
<1>6. ASSUME NEW k \in EdgeIndex
      PROVE  Removed(k)' <=> Removed(k) \/ (k = i /\ From(i) = curr)
  <2>1. From(k)' = From(k)
    BY <1>1, SameDefinition, Zenon
  <2>2. Removed(k)' <=> \E l \in 1 .. last : topological_order[l] = From(k) /\ ~(l = last /\ i + 1 <= k)
    BY <1>1, <2>1, Zenon DEF Removed
  <2>3. Removed(k) <=> \E l \in 1 .. last : topological_order[l] = From(k) /\ ~(l = last /\ i <= k)
    BY <1>1, Zenon DEF Removed
  <2>4. CASE k # i
    <3>1. i + 1 <= k <=> i <= k
      BY <1>1, <2>4 DEF EdgeIndex
    <3> QED
      BY <2>2, <2>3, <2>4, <3>1, Zenon
  <2>5. CASE k = i
    <3>1. i <= k /\ ~(i + 1 <= k)
      BY <1>1, <2>5
    <3>2. Removed(k)' <=> \E l \in 1 .. last : topological_order[l] = From(k)
      BY <2>2, <3>1, Zenon
    <3>3. Removed(k) <=> \E l \in 1 .. last : topological_order[l] = From(k) /\ l # last
      BY <2>3, <3>1, Zenon
    <3> QED
      BY <1>3, <2>5, <3>2, <3>3, Zenon
  <2> QED
    BY <2>4, <2>5, Zenon
<1> QED
  BY <1>2, <1>5, <1>6, Zenon

LEMMA NeighborInd ==
  ASSUME IndInv, Neighbor
  PROVE  IndInv'
<1>1. /\ pc = "neighbors" /\ pc' = "neighbors" /\ i' = i + 1 /\ i \in Nat \ {0}
      /\ UNCHANGED <<workflow, nodes_by_id, root_nodes, topological_order, result>>
      /\ i <= Len(workflow.edges) /\ Len(workflow.edges) \in Nat
  BY DefinitionFacts, Zenon DEF Neighbor, IndInv, Types
<1>2. /\ Types /\ Wired /\ nodes_by_id = Ids /\ in_degree \in [Ids -> Nat] /\ queue \in Seq(Ids)
      /\ Distinct(queue) /\ Elements(queue) \cap Elements(topological_order) = {}
      /\ \A n \in Ids : in_degree[n] = Cardinality(Pending(n))
      /\ \A n \in Ids : Pending(n) = {} <=> n \in Elements(queue) \cup Elements(topological_order)
  BY <1>1, Zenon DEF IndInv, Types, CountsInv, EdgesInv, QueueInv
<1>3. \A n : Pending(n)' = IF From(i) = curr THEN Pending(n) \ {i} ELSE Pending(n)
  BY <1>1, EdgeRemoved, SameDefinition, Zenon DEF Pending
<1>4. /\ in_degree' \in [Ids -> Nat] /\ \A n \in Ids : in_degree'[n] = Cardinality(Pending(n)')
      /\ queue' \in Seq(Ids) /\ Distinct(queue') /\ Elements(queue') \cap Elements(topological_order) = {}
      /\ \A n \in Ids : Pending(n)' = {} <=> n \in Elements(queue') \cup Elements(topological_order)
  <2>1. CASE From(i) # curr
    BY <1>2, <1>3, <2>1, Zenon DEF Neighbor
  <2>2. CASE From(i) = curr
    <3>1. PICK t \in Ids : t = To(i)
      BY <1>2, EdgeRemoved, Zenon DEF Wired
    <3>2. /\ in_degree' = [in_degree EXCEPT ![t] = @ - 1]
          /\ queue' = IF in_degree'[t] = 0 THEN Append(queue, t) ELSE queue
      BY <2>2, <3>1, Zenon DEF Neighbor
    <3>3. i \in Pending(t) /\ \A n \in Ids \ {t} : i \notin Pending(n)
      BY <1>1, <2>2, <3>1, EdgeRemoved, Zenon DEF Pending
    <3>4. Pending(t)' = Pending(t) \ {i} /\ \A n \in Ids \ {t} : Pending(n)' = Pending(n)
      BY <1>3, <2>2, <3>3, Zenon
    <3>5. IsFiniteSet(Pending(t)) /\ Cardinality(Pending(t)) \in Nat /\ Cardinality(Pending(t)) # 0
      BY <1>2, <3>3, PendingFinite, Zenon
    <3>6. /\ IsFiniteSet(Pending(t) \ {i})
          /\ Cardinality(Pending(t) \ {i}) = Cardinality(Pending(t)) - 1
      BY <3>3, <3>5, FS_RemoveElement, Zenon
    <3>7. in_degree'[t] = Cardinality(Pending(t)') /\ in_degree'[t] \in Nat
      BY <1>2, <3>2, <3>4, <3>5, <3>6
    <3>8. in_degree' \in [Ids -> Nat] /\ \A n \in Ids : in_degree'[n] = Cardinality(Pending(n)')
      BY <1>2, <3>2, <3>4, <3>7, Zenon
    <3>9. in_degree'[t] = 0 <=> Pending(t)' = {}
      BY <3>4, <3>6, <3>7, FS_EmptySet, Zenon
    <3>10. t \notin Elements(queue) \cup Elements(topological_order)
      BY <1>2, <3>3, Zenon
    <3>11. CASE in_degree'[t] = 0
      <4>1. /\ queue' \in Seq(Ids) /\ Distinct(queue') /\ Elements(queue') = Elements(queue) \cup {t}
        BY <1>2, <3>2, <3>10, <3>11, ElementsAppend, DistinctAppend
      <4> QED
        BY <1>2, <3>4, <3>8, <3>9, <3>10, <3>11, <4>1
    <3>12. CASE in_degree'[t] # 0
      BY <1>2, <3>2, <3>4, <3>8, <3>9, <3>10, <3>12, Zenon
    <3> QED
      BY <3>11, <3>12, Zenon
  <2> QED
    BY <2>1, <2>2, Zenon
<1>5. Types'
  BY <1>1, <1>2, <1>4 DEF Types
<1>6. CountsInv'
  BY <1>1, <1>4, SameDefinition, Zenon DEF IndInv, CountsInv
<1>7. QueueInv'
  <2>1. i' <= Len(workflow.edges) + 1 /\ topological_order # << >>
    BY <1>1 DEF IndInv, QueueInv
  <2>2. \A n \in Ids : Pending(n)' = {} <=> n \in Elements(queue)' \cup Elements(topological_order)'
    <3>1. Elements(queue)' = Elements(queue') /\ Elements(topological_order)' = Elements(topological_order)
      BY <1>1, Zenon DEF Elements
    <3>2. Ids' = Ids
      BY <1>1, SameDefinition, Zenon
    <3> QED
      BY <1>4, <3>1, <3>2, Zenon
  <2>3. Elements(queue)' \cap Elements(topological_order)' = {}
    <3>1. Elements(queue)' = Elements(queue') /\ Elements(topological_order)' = Elements(topological_order)
      BY <1>1, Zenon DEF Elements
    <3> QED
      BY <1>4, <3>1, Zenon
  <2>4. Distinct(queue)'
    BY <1>4, Zenon DEF Distinct
  <2> QED
    BY <1>1, <2>1, <2>2, <2>3, <2>4, SameDefinition, Zenon DEF QueueInv
<1>8. OrderInv'
  BY <1>1, SameDefinition DEF IndInv, OrderInv, Distinct
<1>9. EdgesInv' /\ RootsInv'
  BY <1>1, SameDefinition DEF IndInv, EdgesInv, RootsInv, Elements
<1> QED
  BY <1>1, <1>5, <1>6, <1>7, <1>8, <1>9, Zenon DEF IndInv, NodesInv, VerdictInv

LEMMA NeighborsDoneInd ==
  ASSUME IndInv, NeighborsDone
  PROVE  IndInv'
<1>1. /\ pc = "neighbors" /\ pc' = "sort" /\ i' = 1 /\ i > Len(workflow.edges)
      /\ UNCHANGED <<workflow, nodes_by_id, in_degree, queue, root_nodes, topological_order, result>>
  BY Zenon DEF NeighborsDone, Enter
<1>2. i \in Nat /\ Len(workflow.edges) \in Nat
  BY DefinitionFacts, Zenon DEF IndInv, Types
<1>3. \A n : Pending(n)' = Pending(n)
  <2>1. \A k \in EdgeIndex : ~(i <= k)
    BY <1>1, <1>2 DEF EdgeIndex
  <2>2. \A k \in EdgeIndex : Removed(k)' <=> Removed(k)
    BY <1>1, <2>1, SameDefinition, Zenon DEF Removed
  <2> QED
    BY <1>1, <2>2, SameDefinition, Zenon DEF Pending
<1>4. Types'
  BY <1>1 DEF IndInv, Types, Loop
<1>5. CountsInv'
  BY <1>1, <1>3, SameDefinition, Zenon DEF IndInv, CountsInv
<1>6. QueueInv'
  <2>1. \A n \in Ids : Pending(n)' = {} <=> n \in Elements(queue)' \cup Elements(topological_order)'
    BY <1>1, <1>3, Zenon DEF IndInv, QueueInv, Elements
  <2>2. Elements(queue)' \cap Elements(topological_order)' = {}
    <3>1. Elements(queue)' = Elements(queue) /\ Elements(topological_order)' = Elements(topological_order)
      BY <1>1, Zenon DEF Elements
    <3> QED
      BY <1>1, <3>1, Zenon DEF IndInv, QueueInv
  <2>3. Distinct(queue)'
    BY <1>1, Zenon DEF IndInv, QueueInv, Distinct
  <2> QED
    BY <1>1, <2>1, <2>2, <2>3, SameDefinition, Zenon DEF QueueInv
<1>7. OrderInv'
  BY <1>1, SameDefinition DEF IndInv, OrderInv, Distinct
<1>8. EdgesInv' /\ RootsInv'
  BY <1>1, SameDefinition, Zenon DEF IndInv, EdgesInv, RootsInv, Elements
<1> QED
  BY <1>1, <1>4, <1>5, <1>6, <1>7, <1>8, Zenon DEF IndInv, NodesInv, VerdictInv


(* A graph whose nodes are all in order has no cycle: of a set of nodes,   *)
(* the first in the order has no parent in the set.                        *)
LEMMA OrderedIsAcyclic ==
  ASSUME IndInv, Ids \subseteq Elements(topological_order)
  PROVE  Acyclic
<1> SUFFICES ASSUME NEW S \in SUBSET Ids, S # {}
             PROVE  \E n \in S : \A m \in S : ~HasEdge(m, n)
  BY Zenon DEF Acyclic
<1> DEFINE T == {l \in 1 .. Len(topological_order) : topological_order[l] \in S}
<1>1. Len(topological_order) \in Nat
  BY ElementsFacts, Zenon DEF IndInv, Types
<1>2. T \subseteq Nat /\ T # {}
  BY <1>1 DEF Elements
<1>3. PICK l \in T : \A j \in T : ~(<<j, l>> \in OpToRel(<, Nat))
  <2> HIDE DEF T
  <2> QED
    BY <1>2, NatLessThanWellFounded, WFMin, Zenon
<1>4. \A j \in T : ~(j < l)
  BY <1>2, <1>3, Zenon DEF OpToRel
<1>5. ASSUME NEW m \in S, HasEdge(m, topological_order[l])
      PROVE  FALSE
  <2>1. PICK k \in EdgeIndex : From(k) = m /\ To(k) = topological_order[l]
    BY <1>5, Zenon DEF HasEdge
  <2>2. PICK j \in 1 .. l - 1 : topological_order[j] = From(k)
    BY <2>1, Zenon DEF IndInv, OrderInv
  <2>3. j \in 1 .. Len(topological_order) /\ j < l
    BY <1>1
  <2>4. j \in T
    BY <1>5, <2>1, <2>2, <2>3, Zenon
  <2> QED
    BY <1>4, <2>3, <2>4, Zenon
<1> QED
  BY <1>5, Zenon

(* With an empty queue, what is not in order lies on or behind a cycle.    *)
LEMMA FinishInd ==
  ASSUME IndInv, Finish
  PROVE  IndInv'
<1> DEFINE verdict == IF Len(topological_order) # Len(workflow.nodes) THEN "cycle_detected" ELSE "valid"
<1>1. pc = "sort" /\ queue = << >> /\ Conclude(verdict)
  BY Zenon DEF Finish
<1>2. /\ Types /\ Checked /\ Wired /\ nodes_by_id = Ids /\ Ids \subseteq Id
      /\ topological_order \in Seq(Id) /\ workflow.nodes \in Seq(Id)
      /\ Distinct(topological_order) /\ Distinct(workflow.nodes)
      /\ Elements(topological_order) \subseteq Ids
  <2>1. topological_order \in Seq(Ids) /\ Ids \subseteq Id
    BY <1>1, DefinitionFacts, Zenon DEF IndInv, Types, CountsInv
  <2>2. topological_order \in Seq(Id) /\ Elements(topological_order) \subseteq Ids
    BY <2>1, ElementsFacts
  <2> QED
    BY <1>1, <2>1, <2>2, DefinitionFacts, Zenon DEF IndInv, CountsInv, EdgesInv, OrderInv, Checked
<1>3. Len(topological_order) = Len(workflow.nodes) <=> Elements(topological_order) = Ids
  BY <1>2, SameLength, Zenon DEF Ids
<1>4. Elements(topological_order) = Ids => Acyclic
  BY OrderedIsAcyclic, Zenon
<1>5. ASSUME Elements(topological_order) # Ids PROVE ~Acyclic
  <2> DEFINE Rest == Ids \ Elements(topological_order)
  <2>1. Rest \in SUBSET Ids /\ Rest # {}
    BY <1>2, <1>5, Zenon
  <2>2. ASSUME NEW n \in Rest PROVE \E k \in EdgeIndex : To(k) = n /\ From(k) \in Rest
    <3>1. Elements(<<>>) = {}
      BY DEF Elements
    <3>2. Pending(n) # {}
      BY <1>1, <3>1, Zenon DEF IndInv, QueueInv
    <3>3. PICK k \in EdgeIndex : To(k) = n /\ ~Removed(k)
      BY <3>2, Zenon DEF Pending
    <3>4. From(k) \notin Elements(topological_order)
      BY <1>1, <3>3, Zenon DEF Removed, Elements
    <3> QED
      BY <1>2, <3>3, <3>4, Zenon DEF Wired
  <2> HIDE DEF Rest
  <2> QED
    BY <2>1, <2>2, CycleFound, Zenon
<1>6. Elements(root_nodes) = Sources /\ (root_nodes = << >> => workflow.nodes = << >>)
  BY <1>1, Zenon DEF IndInv, RootsInv
<1>7. verdict \in ErrorCode \cup {"valid"}
  BY Zenon DEF ErrorCode
<1>8. verdict = "valid" <=> Checked /\ Wired /\ Acyclic
  BY <1>2, <1>3, <1>4, <1>5, Zenon
<1>9. verdict = "cycle_detected" => ~Acyclic
  BY <1>3, <1>5, Zenon
<1> HIDE DEF verdict
<1> QED
  BY <1>1, <1>6, <1>7, <1>8, <1>9, ConcludeInd, Zenon

LEMMA StutterInd ==
  ASSUME IndInv, UNCHANGED vars
  PROVE  IndInv'
<1>1. UNCHANGED <<workflow, pc, i, nodes_by_id, in_degree, queue, root_nodes, topological_order, result>>
  BY Zenon DEF vars
<1>2. \A n : Pending(n)' = Pending(n)
  BY <1>1, SameDefinition, Zenon DEF Pending, Removed
<1>3. Types' /\ NodesInv'
  BY <1>1, SameDefinition, Zenon DEF IndInv, Types, NodesInv
<1>4. CountsInv'
  BY <1>1, <1>2, SameDefinition, Zenon DEF IndInv, CountsInv
<1>5. EdgesInv' /\ RootsInv' /\ VerdictInv'
  <2>1. Elements(queue)' = Elements(queue) /\ Elements(root_nodes)' = Elements(root_nodes)
    BY <1>1, Zenon DEF Elements
  <2>2. EdgesInv'
    BY <1>1, SameDefinition, Zenon DEF IndInv, EdgesInv
  <2>3. RootsInv'
    BY <1>1, <2>1, SameDefinition, Zenon DEF IndInv, RootsInv
  <2>4. VerdictInv'
    BY <1>1, <2>1, SameDefinition, Zenon DEF IndInv, VerdictInv
  <2> QED
    BY <2>2, <2>3, <2>4, Zenon
<1>6. OrderInv'
  BY <1>1, SameDefinition DEF IndInv, OrderInv, Distinct
<1>7. QueueInv'
  <2>1. /\ Elements(queue)' = Elements(queue) /\ Elements(topological_order)' = Elements(topological_order)
        /\ Distinct(queue)' <=> Distinct(queue)
    BY <1>1, Zenon DEF Elements, Distinct
  <2> QED
    BY <1>1, <1>2, <2>1, SameDefinition, Zenon DEF IndInv, QueueInv
<1> QED
  BY <1>3, <1>4, <1>5, <1>6, <1>7, Zenon DEF IndInv

LEMMA NextInd == IndInv /\ [Next]_vars => IndInv'
BY CheckNodeInd, NodesCheckedInd, CheckEdgeInd, EdgesCheckedInd, FindRootInd, RootsFoundInd, PopInd,
   NeighborInd, NeighborsDoneInd, FinishInd, StutterInd, Zenon
DEF Next

-----------------------------------------------------------------------------
(* Types and strengthening hold in every state of the validator.           *)
THEOREM Inductive == Spec => []IndInv
BY InitInd, NextInd, PTL DEF Spec

(* For every definition, validate_workflow's verdict is right: it accepts  *)
(* the definition iff its ids are unique, its nodes have executors that    *)
(* accept their configs, its edges connect nodes and its graph has no      *)
(* cycle, and then it returns the nodes without parents as roots.          *)
THEOREM VerdictRight == Spec => []VerdictIsRight
<1>1. IndInv => VerdictIsRight
  <2> SUFFICES ASSUME IndInv PROVE VerdictIsRight
    BY Zenon
  <2>1. TypeOK
    <3>1. DOMAIN in_degree \subseteq nodes_by_id /\ \A n \in DOMAIN in_degree : in_degree[n] \in Nat
      <4>1. CASE in_degree = << >>
        <5>1. DOMAIN in_degree = {}
          BY <4>1
        <5> QED
          BY <5>1, Zenon
      <4>2. CASE in_degree \in [nodes_by_id -> Nat]
        BY <4>2, Zenon
      <4> QED
        BY <4>1, <4>2, Zenon DEF IndInv, Types
    <3> QED
      BY <3>1, Zenon DEF IndInv, Types, TypeOK
  <2>2. pc = "done" => (result = "valid" <=> Checked /\ Wired /\ Acyclic)
    BY Zenon DEF IndInv, VerdictInv
  <2>3. result = "valid" \/ result = "cycle_detected" => pc = "done"
    BY Zenon DEF IndInv, Types
  <2>4. result = "cycle_detected" => ~Acyclic
    BY <2>3, Zenon DEF IndInv, VerdictInv
  <2>5. result = "valid" => /\ Wired /\ Elements(root_nodes) = Sources
                            /\ (root_nodes = << >> => workflow.nodes = << >>)
    BY <2>2, <2>3, Zenon DEF IndInv, VerdictInv
  <2>6. Wired => Sources = {n \in Ids : \A m \in Ids : ~HasEdge(m, n)}
    BY Zenon DEF Wired, Sources, HasEdge
  <2> QED
    BY <2>1, <2>2, <2>4, <2>5, <2>6, Zenon DEF VerdictIsRight, Checked, Wired, Good
<1> QED
  BY <1>1, Inductive, PTL

(* Whatever validate_workflow has accepted, the executor of each node      *)
(* finds in the config what execute looks up.                              *)
THEOREM AcceptedStart == Spec => []AcceptedNodesStart
<1>1. ASSUME IndInv, result = "valid", NEW n \in Ids
      PROVE  /\ LookedUp(workflow.type[n]) \subseteq workflow.config[n].fields
             /\ workflow.type[n] \in {"http", "webhook"} => workflow.config[n].url = "http"
             /\ (workflow.type[n] = "delay" =>
                   workflow.config[n].duration > 0 /\ workflow.config[n].duration <= 3600)
  <2>1. Good(n)
    BY <1>1, Zenon DEF IndInv, Types, VerdictInv, Checked
  <2>2. LookedUp(workflow.type[n]) \subseteq Required(workflow.type[n])
    BY <2>1, Zenon DEF Good, Registered, LookedUp, Required
  <2>3. LookedUp(workflow.type[n]) \subseteq workflow.config[n].fields
    BY <2>1, <2>2, Zenon DEF Good, ValidConfig
  <2>4. workflow.type[n] \in {"http", "webhook"} => workflow.config[n].url = "http"
    BY <2>1, Zenon DEF Good, ValidConfig
  <2>5. workflow.type[n] = "delay" =>
          workflow.config[n].duration > 0 /\ workflow.config[n].duration <= 3600
    BY <2>1 DEF Good, ValidConfig, MaxDuration
  <2> QED
    BY <2>3, <2>4, <2>5
<1>2. IndInv => AcceptedNodesStart
  BY <1>1 DEF AcceptedNodesStart
<1> QED
  BY <1>2, Inductive, PTL

(* At every moment of Kahn's algorithm, what is in topological_order is    *)
(* there once, and after all its parents.                                  *)
THEOREM OrderTopological == Spec => []OrderIsTopological
<1>1. IndInv => OrderIsTopological
  BY Zenon DEF IndInv, OrderInv, OrderIsTopological, HasEdge
<1> QED
  BY <1>1, Inductive, PTL

=============================================================================
