------------------------------ MODULE Partition ------------------------------
(***************************************************************************)
(* The partitioning of a traced model into subgraphs                       *)
(* (pipelines/sequential/helpers.py: topological_partition and             *)
(* partition_graph).                                                       *)
(*                                                                         *)
(* The traced graph is arbitrary: it and the limit are chosen in the       *)
(* initial state and never change.  Nodes that become ready at the same    *)
(* time enter the queue in an arbitrary order, which in the code is the    *)
(* order in which the tracer recorded them.                                *)
(***************************************************************************)
EXTENDS Naturals, Sequences, FiniteSets, Functions, Subgraphs

CONSTANTS
  Nodes,               \* names of the graph's nodes
  Graphs,              \* graphs to partition: [op, edges]
  Limits               \* values of sequential_targets_per_subgraph

Ops == {"placeholder", "get_attr", "call", "target", "output"}

(* An edge <<i, j>> says that j reads i.  Graph nodes without a producer of
   their value have no inputs and the output node has no users. *)
IsGraph(g) ==
  /\ g.op \in [Nodes -> Ops]
  /\ g.edges \subseteq Nodes \X Nodes
  /\ \A e \in g.edges : /\ g.op[e[2]] \notin {"placeholder", "get_attr"}
                        /\ g.op[e[1]] # "output"

ASSUME PartitionAssumption ==
  /\ IsFiniteSet(Nodes)
  /\ \A g \in Graphs : IsGraph(g)
  /\ Limits \subseteq Nat \ {0}

VARIABLES
  graph,       \* the traced graph
  limit,       \* targets_per_subgraph
  queue,       \* ready nodes
  remaining,   \* remaining_indegrees
  partitions,  \* partitions of nodes, in the order they will be executed
  part,        \* node_to_partition, 0 while a node is not assigned
  targetsSeen, \* targets in the partition being filled
  attrs        \* get_attr nodes that are still to be placed

partVars == <<graph, limit, queue, remaining, partitions, part, targetsSeen, attrs>>

-----------------------------------------------------------------------------

InputsOf(g, n) == {i \in Nodes : <<i, n>> \in g.edges}
UsersOf(n) == {j \in Nodes : <<n, j>> \in graph.edges}
Attributes(g) == {n \in Nodes : g.op[n] = "get_attr"}
Targets == {n \in Nodes : graph.op[n] = "target"}

(* What the theorems about partitions assume of a traced graph.  The tracer records a node
   after those it reads, so it has no cycle; and a target contributes to the output, as the
   layers of a language model do (nothing in the code checks that: the subgraph that returns
   the output writes no values for a target that is left). *)
GraphsAreSound ==
  \A g \in Graphs :
    /\ \A S \in SUBSET Nodes : S # {} => \E n \in S : InputsOf(g, n) \cap S = {}
    /\ \A S \in SUBSET Nodes :
         /\ \E n \in S : g.op[n] = "target"
         /\ \A e \in g.edges : e[1] \in S => e[2] \in S
         => \A o \in Nodes : g.op[o] = "output" => o \in S

Orderings(S) == {s \in [1 .. Cardinality(S) -> S] : Range(s) = S}

(* Attributes are read as late as possible and make no node wait. *)
Indegrees(g) == [n \in Nodes |-> Cardinality(InputsOf(g, n) \ Attributes(g))]

Ready(indegrees, S) == {n \in S : indegrees[n] = 0}

PartitionInit ==
  /\ graph \in Graphs /\ limit \in Limits
  /\ remaining = Indegrees(graph)
  /\ queue \in Orderings(Ready(remaining, Nodes \ Attributes(graph)))
  /\ partitions = << <<>> >>
  /\ part = [n \in Nodes |-> 0]
  /\ targetsSeen = 0
  /\ attrs = Attributes(graph)

(* A target opens a new partition after the head of the model and when the
   current partition has its share of targets. *)
StartsPartition(n) ==
  /\ n \in Targets
  /\ \/ Len(partitions) = 1 /\ partitions[1] # <<>>
     \/ targetsSeen >= limit

Place(n, opened) ==
  /\ partitions' = [opened EXCEPT ![Len(opened)] = Append(@, n)]
  /\ part' = [part EXCEPT ![n] = Len(opened)]

(* Mutant: a node enters the queue with the first of its inputs. *)
ReleaseUsersEarly(n) ==
  /\ remaining' = [j \in Nodes |->
       IF j \in UsersOf(n) THEN remaining[j] - 1 ELSE remaining[j]]
  /\ \E released \in Orderings({j \in UsersOf(n) :
         remaining[j] = Indegrees(graph)[j]}) :
       queue' = Tail(queue) \o released

(* A user enters the queue with the last of its inputs. *)
ReleaseUsers(n) ==
  /\ remaining' = [j \in Nodes |->
       IF j \in UsersOf(n) THEN remaining[j] - 1 ELSE remaining[j]]
  /\ \E released \in Orderings({j \in UsersOf(n) : remaining[j] = 1}) :
       queue' = Tail(queue) \o released

VisitNode ==
  /\ queue # <<>>
  /\ LET n == Head(queue) IN
     /\ IF StartsPartition(n)
        THEN Place(n, Append(partitions, <<>>)) /\ targetsSeen' = 1
        ELSE /\ Place(n, partitions)
             /\ targetsSeen' = targetsSeen + IF n \in Targets THEN 1 ELSE 0
     /\ ReleaseUsers(n)
  /\ UNCHANGED <<graph, limit, attrs>>

AssignedUsers(n) == {j \in UsersOf(n) : part[j] # 0}

FirstUserPartition(n) ==
  CHOOSE p \in {part[j] : j \in AssignedUsers(n)} :
    \A j \in AssignedUsers(n) : p <= part[j]

(* An attribute is read in the first partition that uses it; one that nobody
   uses is dropped. *)
PlaceAttribute(n) ==
  /\ queue = <<>>
  /\ n \in attrs
  /\ attrs' = attrs \ {n}
  /\ IF AssignedUsers(n) = {}
     THEN UNCHANGED <<partitions, part>>
     ELSE LET p == FirstUserPartition(n) IN
          /\ partitions' = [partitions EXCEPT ![p] = <<n>> \o @]
          /\ part' = [part EXCEPT ![n] = p]
  /\ UNCHANGED <<graph, limit, queue, remaining, targetsSeen>>

PartitionNext == VisitNode \/ \E n \in Nodes : PlaceAttribute(n)

PartitionSpec == PartitionInit /\ [][PartitionNext]_partVars

-----------------------------------------------------------------------------
(* partition_graph *)

Done == queue = <<>> /\ attrs = {}

Indices == DOMAIN partitions
Members(p) == {n \in Nodes : part[n] = p}

(* The placeholders of a subgraph: those of the model and the values made by
   another partition. *)
InputNames ==
  [p \in Indices |->
     {n \in Members(p) : graph.op[n] = "placeholder"} \cup
     {i \in Nodes \ Members(p) : \E j \in Members(p) : <<i, j>> \in graph.edges}]

(* The output dictionary is added unless the partition holds the output of the
   model. *)
OutputNames ==
  [p \in Indices |->
     IF \E n \in Members(p) : graph.op[n] = "output" THEN {}
     ELSE {n \in Members(p) : \E j \in UsersOf(n) : j \notin Members(p)}]

Placeholders == {n \in Nodes : graph.op[n] = "placeholder"}

-----------------------------------------------------------------------------
(* Properties *)

(* A node is placed in one partition, once, and never before the values it
   reads: the partitions can be executed one after the other. *)
InputsComeFirst ==
  \A e \in graph.edges :
    part[e[2]] # 0 /\ e[1] \notin attrs => part[e[1]] \in 1 .. part[e[2]]

(* No subgraph holds more targets than asked. *)
TargetsAreBounded ==
  \A p \in Indices :
    Cardinality(Members(p) \cap Targets) <= limit

(* Inside a partition every value is computed before it is read, so the new
   graph passes its lint. *)
PartitionsAreOrdered ==
  \A p \in Indices : \A k, l \in DOMAIN partitions[p] :
    <<partitions[p][k], partitions[p][l]>> \in graph.edges => k < l

(* Executing the partitions in order, and the nodes of each in order, computes
   every value before it is read. *)
OrderIsTopological == InputsComeFirst /\ PartitionsAreOrdered

(* Every node that computes something is executed exactly once. *)
EveryNodeIsPlaced ==
  Done => \A n \in Nodes \ Attributes(graph) :
            Cardinality({x \in Indices \X (1 .. Cardinality(Nodes)) :
                           x[2] \in DOMAIN partitions[x[1]] /\ partitions[x[1]][x[2]] = n}) = 1

(* What partition_graph makes of the partitions is what the pipeline needs:
   each subgraph reads what earlier ones have written, and nothing is written
   that nobody reads. *)
SubgraphsAreExecutable ==
  Done => /\ Executable(InputNames, OutputNames, Placeholders)
          /\ NothingWasted(InputNames, OutputNames)

(* The subgraphs compute what the model does: none is too large, and executed one after
   the other they compute each node once, from values that were computed before. *)
PartitionsAreSound ==
  OrderIsTopological /\ TargetsAreBounded /\ EveryNodeIsPlaced /\ SubgraphsAreExecutable
=============================================================================
