-------------------------------- MODULE Louvain --------------------------------
(***************************************************************************)
(* internal/community/louvain.go.  Weights are whole numbers, and every     *)
(* modularity is multiplied by (2m)^2, so that all arithmetic is exact.     *)
(* The graph is built edge by edge, then one action is one visit of a node: *)
(* rand.Perm is any node not yet visited in the pass, and the range over    *)
(* the map neighborComms is any community of the greatest gain.             *)
(***************************************************************************)
EXTENDS Integers, Sequences, FiniteSets, Functions

CONSTANTS
    NNodes,      \* the number of nodes of the graph
    Weights,     \* the weights of an edge that is given, 0 for none stated
    MaxWeight,   \* bound: the total weight of the graph
    MaxIter,     \* passes of Louvain
    MaxLevels    \* levels HierarchicalLouvain may build

LouvainAssumption ==
    /\ NNodes \in Nat
    /\ Weights \subseteq Nat
    /\ MaxWeight \in Nat /\ MaxIter \in Nat /\ MaxLevels \in Nat

VARIABLES
    adj,        \* the matrix of the graph that is being partitioned
    orig,       \* the matrix of the graph that was given
    comm,       \* the community of each node, named after one of the nodes
    sigmaTot,   \* the total degree of each community, as Louvain keeps it
    todo,       \* the nodes left in this pass
    improved,   \* this pass moved a node
    iter,       \* passes begun
    phase,      \* "edges", "louvain" or "done"
    levels      \* the partitions that HierarchicalLouvain returns

vars == <<adj, orig, comm, sigmaTot, todo, improved, iter, phase, levels>>

Nodes == 1 .. NNodes

(* The sum of what f gives for the nodes.                                   *)
Total(f) ==
    LET upTo[k \in 0 .. NNodes] == IF k = 0 THEN 0 ELSE upTo[k - 1] + f[k]
    IN  upTo[NNodes]

Degree(a, i) == Total([j \in Nodes |-> a[<<i, j>>]])
TwoM(a) == Total([i \in Nodes |-> Degree(a, i)])

Init ==
    /\ adj = [p \in Nodes \X Nodes |-> 0]
    /\ orig = adj
    /\ comm = [i \in Nodes |-> i]
    /\ sigmaTot = [i \in Nodes |-> 0]
    /\ todo = {} /\ improved = TRUE /\ iter = 0
    /\ phase = "edges" /\ levels = <<>>

(* NewGraph adds one edge: a weight of 0 counts as 1, parallel edges add    *)
(* up, and a loop is added from both of its ends.                           *)
Plus(a, s, t, w) ==
    [p \in Nodes \X Nodes |->
        a[p] + (IF p = <<s, t>> THEN w ELSE 0) + (IF p = <<t, s>> THEN w ELSE 0)]

NewEdge(s, t, given) ==
    LET w == IF given = 0 THEN 1 ELSE given
    IN  /\ phase = "edges" /\ TwoM(adj) + 2 * w <= 2 * MaxWeight
        /\ adj' = Plus(adj, s, t, w)
        /\ orig' = adj'
        /\ UNCHANGED <<comm, sigmaTot, todo, improved, iter, phase, levels>>

(* Louvain begins with each node alone; without an edge that is the result. *)
Begin(a) ==
    /\ comm' = [i \in Nodes |-> i]
    /\ sigmaTot' = [i \in Nodes |-> Degree(a, i)]
    /\ todo' = IF TwoM(a) = 0 THEN {} ELSE Nodes
    /\ improved' = FALSE
    /\ iter' = IF TwoM(a) = 0 THEN MaxIter ELSE 1

Start ==
    /\ phase = "edges" /\ MaxIter > 0
    /\ phase' = "louvain"
    /\ Begin(adj)
    /\ UNCHANGED <<adj, orig, levels>>

(* The weight from i into community c, i's own loop included. *)
Into(i, c) == Total([j \in Nodes |-> IF comm[j] = c THEN adj[<<i, j>>] ELSE 0])

(* A mutant: the degree of i stays in the total of its own community.       *)
Rest_Kept(i, c) == sigmaTot[c]

(* What moving i from its community to c adds, with i out of both.          *)
Rest(i, c) == IF c = comm[i] THEN sigmaTot[c] - Degree(adj, i) ELSE sigmaTot[c]

Gain(i, c) ==
    (Into(i, c) - Into(i, comm[i])) * TwoM(adj)
        - (Rest(i, c) - Rest(i, comm[i])) * Degree(adj, i)

(* The communities of i's neighbours that give the greatest gain above 0,   *)
(* else the one i is in.                                                    *)
BestComms(i) ==
    LET better == {c \in Nodes : Into(i, c) > 0 /\ Gain(i, c) > 0}
    IN  IF better = {} THEN {comm[i]}
        ELSE {c \in better : \A d \in better : Gain(i, d) <= Gain(i, c)}

(* The totals when the degree of i goes from its community to another.      *)
Shifted(i, best) ==
    [c \in Nodes |-> sigmaTot[c] - (IF c = comm[i] THEN Degree(adj, i) ELSE 0)
                                 + (IF c = best THEN Degree(adj, i) ELSE 0)]

(* A mutant: improved says of the last node only whether it moved.          *)
Visit_LastDecides(i) ==
    /\ phase = "louvain" /\ i \in todo
    /\ todo' = todo \ {i}
    /\ \E best \in BestComms(i) :
           /\ comm' = [comm EXCEPT ![i] = best]
           /\ sigmaTot' = Shifted(i, best)
           /\ improved' = (best # comm[i])
    /\ UNCHANGED <<adj, orig, iter, phase, levels>>

Visit(i) ==
    /\ phase = "louvain" /\ i \in todo
    /\ todo' = todo \ {i}
    /\ \E best \in BestComms(i) :
           /\ comm' = [comm EXCEPT ![i] = best]
           /\ sigmaTot' = Shifted(i, best)
           /\ improved' = (improved \/ best # comm[i])
    /\ UNCHANGED <<adj, orig, iter, phase, levels>>

NextPass ==
    /\ phase = "louvain" /\ todo = {} /\ improved /\ iter < MaxIter
    /\ todo' = Nodes
    /\ improved' = FALSE
    /\ iter' = iter + 1
    /\ UNCHANGED <<adj, orig, comm, sigmaTot, phase, levels>>

-----------------------------------------------------------------------------
(* HierarchicalLouvain. *)

PassesOver == phase = "louvain" /\ todo = {} /\ (~improved \/ iter >= MaxIter)

Comms(c) == Range(c)

(* The partition of the original nodes that the result of this level means: *)
(* node i of the super-graph stands for community i of the level before.    *)
Mapped ==
    IF levels = <<>> THEN comm
    ELSE [i \in Nodes |-> comm[levels[Len(levels)][i]]]

(* The super-graph's nodes are the communities, and its edges name them,    *)
(* but every name is the empty string: NewGraph takes all of them for the   *)
(* last node, which gets every edge as a loop.                              *)
Super(p, last) ==
    LET between == Total([i \in Nodes |->
                        Total([j \in Nodes |-> IF p[i] # p[j] THEN orig[<<i, j>>] ELSE 0])])
    IN  [q \in Nodes \X Nodes |-> IF q = <<last, last>> THEN between ELSE 0]

(* A level is kept when it has fewer communities than the one before.       *)
Merged ==
    IF levels = <<>> THEN TRUE
    ELSE Cardinality(Comms(Mapped)) < Cardinality(Comms(levels[Len(levels)]))

NextLevel ==
    /\ PassesOver /\ Merged
    /\ Len(levels) + 1 < MaxLevels /\ Cardinality(Comms(Mapped)) > 1
    /\ levels' = Append(levels, Mapped)
    /\ \E last \in Comms(Mapped) :
           /\ adj' = Super(Mapped, last)
           /\ Begin(adj')
    /\ UNCHANGED <<orig, phase>>

Finish ==
    /\ PassesOver
    /\ ~Merged \/ Len(levels) + 1 >= MaxLevels \/ Cardinality(Comms(Mapped)) <= 1
    /\ levels' = IF Merged THEN Append(levels, Mapped) ELSE levels
    /\ phase' = "done"
    /\ UNCHANGED <<adj, orig, comm, sigmaTot, todo, improved, iter>>

Next ==
    \/ \E s, t \in Nodes : \E w \in Weights : NewEdge(s, t, w)
    \/ Start
    \/ \E i \in Nodes : Visit(i)
    \/ NextPass
    \/ NextLevel
    \/ Finish

Spec == Init /\ [][Next]_vars

-----------------------------------------------------------------------------
(* Modularity of a partition times (2m)^2, by its definition. *)
Within(a, c) ==
    Total([i \in Nodes |-> Total([j \in Nodes |-> IF c[i] = c[j] THEN a[<<i, j>>] ELSE 0])])

DegreeOf(a, c, k) == Total([i \in Nodes |-> IF c[i] = k THEN Degree(a, i) ELSE 0])

Modularity(a, c) ==
    TwoM(a) * Within(a, c) - Total([k \in Nodes |-> DegreeOf(a, c, k) * DegreeOf(a, c, k)])

(* Every node that is moved raises the modularity of the partition, so that *)
(* the passes come to an end; sigmaTot is updated along the way and never   *)
(* recomputed, and a total that had drifted would let a move lower it.      *)
MovesRaiseModularity ==
    [][comm' # comm /\ adj' = adj =>
        Modularity(adj, comm') > Modularity(adj, comm)]_vars

(* When the passes end because nothing moved, moving any one node into a    *)
(* neighbour's community would not raise the modularity, whatever the order *)
(* of the visits was.  A node with a loop is excused: the loop counts for   *)
(* the community the node is in and for no other.                           *)
StopsAtLocalOptimum ==
    PassesOver /\ ~improved =>
        \A i, j \in Nodes :
            adj[<<i, j>>] > 0 /\ adj[<<i, i>>] = 0 =>
                Modularity(adj, [comm EXCEPT ![i] = comm[j]]) <= Modularity(adj, comm)
=============================================================================
