--------------------------------- MODULE HNSW ---------------------------------
(***************************************************************************)
(* internal/vectorindex/hnsw.go.  A vector is a place on an arc and the     *)
(* cosine distance grows with the gap between two places; an ID always has  *)
(* the same place here, so that adding it again puts a new node at the same *)
(* spot.  Link lists are sets: their order decides only between equal       *)
(* distances, and in the instances only two nodes of one ID have those (the *)
(* older goes first).  A removed node stays an object, since one-sided      *)
(* links can still lead to it.  Every call holds the mutex: one action.     *)
(***************************************************************************)
EXTENDS Integers, Sequences, FiniteSets, SequencesExt, Functions

CONSTANTS
    Place,       \* where the vector of each ID is: a function to Int
    Queries,     \* the places that are searched for
    M,           \* links of a node on each layer above 0; twice that on layer 0
    Ef,          \* efConstr and efSearch
    MaxLevel,    \* bound: highest layer randomLevel draws
    MaxWork      \* bound: link lists ever made, a removal counting as three

HNSWAssumption ==
    /\ \A id \in DOMAIN Place : Place[id] \in Int
    /\ Queries \subseteq Int
    /\ M \in Nat \ {0} /\ Ef \in Nat \ {0}
    /\ MaxLevel \in Nat /\ MaxWork \in Nat

VARIABLES
    h,        \* the index: node is every hnswNode ever made, an ID and its link
              \* sets from layer 0 up; nodes is the map; entry the entry point or 0
    work,     \* for the bound: lists made and removals
    pruned,   \* history: the layers where a link list was cut
    removed   \* history: a node was removed

vars == <<h, work, pruned, removed>>

IDs == DOMAIN Place
MaxConn(l) == IF l = 0 THEN 2 * M ELSE M
LevelOf(x, n) == Len(x.node[n].links) - 1
Links(x, n, l) == IF l <= LevelOf(x, n) THEN x.node[n].links[l + 1] ELSE {}

At(x, n) == Place[x.node[n].id]
Dist(x, n, q) == IF At(x, n) < q THEN q - At(x, n) ELSE At(x, n) - q
Before(x, a, b, q) ==
    Dist(x, a, q) < Dist(x, b, q) \/ (Dist(x, a, q) = Dist(x, b, q) /\ a < b)
Ascending(x, S, q) ==
    [i \in 1 .. Cardinality(S) |->
        CHOOSE a \in S : Cardinality({b \in S : Before(x, b, a, q)}) = i - 1]

Closest(x, S, q, k) == {a \in S : Cardinality({b \in S : Before(x, b, a, q)}) < k}
Nearest(x, S, q) == CHOOSE a \in S : \A b \in S \ {a} : Before(x, a, b, q)
Farthest(x, S, q) == CHOOSE a \in S : \A b \in S \ {a} : Before(x, b, a, q)

-----------------------------------------------------------------------------
(* Searching. *)

RECURSIVE GreedyStep(_, _, _, _)
GreedyStep(x, cur, q, l) ==
    LET closer == {nb \in Links(x, cur, l) : Dist(x, nb, q) < Dist(x, cur, q)}
    IN  IF closer = {} THEN cur ELSE GreedyStep(x, Nearest(x, closer, q), q, l)

(* From the entry point down through the layers above "to". *)
RECURSIVE Descend(_, _, _, _, _)
Descend(x, ep, q, from, to) ==
    IF from <= to THEN ep ELSE Descend(x, GreedyStep(x, ep, q, from), q, from - 1, to)

(* One neighbour of the candidate that is being expanded. *)
Visit(x, s, nb, q, ef) ==
    IF x.node[nb].id \in s.seen THEN s
    ELSE IF Cardinality(s.res) < ef \/ Dist(x, nb, q) < Dist(x, Farthest(x, s.res, q), q)
    THEN [seen |-> s.seen \cup {x.node[nb].id}, cand |-> s.cand \cup {nb},
          res |-> Closest(x, s.res \cup {nb}, q, ef)]
    ELSE [s EXCEPT !.seen = @ \cup {x.node[nb].id}]

RECURSIVE Expand(_, _, _, _, _)
Expand(x, s, q, ef, l) ==
    IF s.cand = {} THEN s.res
    ELSE LET c == Nearest(x, s.cand, q)
         IN  IF Cardinality(s.res) >= ef /\ Dist(x, c, q) > Dist(x, Farthest(x, s.res, q), q)
             THEN s.res
             ELSE Expand(x, FoldLeft(LAMBDA t, nb : Visit(x, t, nb, q, ef),
                                     [s EXCEPT !.cand = @ \ {c}],
                                     Ascending(x, Links(x, c, l), q)), q, ef, l)

SearchLayer(x, ep, q, ef, l) ==
    Expand(x, [seen |-> {x.node[ep].id}, cand |-> {ep}, res |-> {ep}], q, ef, l)

(* The IDs Search answers with, nearest first. *)
Search(x, q, k) ==
    IF x.entry = 0 THEN <<>>
    ELSE LET ep == Descend(x, x.entry, q, LevelOf(x, x.entry), 0)
             found == SearchLayer(x, ep, q, (IF k > Ef THEN k ELSE Ef), 0)
             hits == Ascending(x, Closest(x, found, q, k), q)
         IN  [i \in DOMAIN hits |-> x.node[hits[i]].id]

-----------------------------------------------------------------------------
(* removeNode: the nodes that n lists forget n, n keeps its own lists; when *)
(* n was the entry point any of the highest nodes left takes its place.     *)

Unlink(x, n) ==
    [a \in DOMAIN x.node |->
        [x.node[a] EXCEPT !.links = [l1 \in DOMAIN @ |->
            IF a \in Links(x, n, l1 - 1) THEN @[l1] \ {n} ELSE @[l1]]]]

Highest(x, S) == {a \in S : \A b \in S : LevelOf(x, b) <= LevelOf(x, a)}

RemoveNode(x, id) ==
    LET n == x.nodes[id]
        rest == {x.nodes[i] : i \in DOMAIN x.nodes \ {id}}
        heirs == IF x.entry # n THEN {x.entry} ELSE IF rest = {} THEN {0} ELSE Highest(x, rest)
    IN  {[node |-> Unlink(x, n), nodes |-> Restrict(x.nodes, DOMAIN x.nodes \ {id}),
          entry |-> e] : e \in heirs}

-----------------------------------------------------------------------------
(* Add. *)

(* The new node's links, from layer 0 to l: each layer is searched from the *)
(* nearest node found on the one above.                                     *)
RECURSIVE Neighbours(_, _, _, _)
Neighbours(x, ep, q, l) ==
    IF l < 0 THEN <<>>
    ELSE LET found == SearchLayer(x, ep, q, Ef, l)
         IN  Append(Neighbours(x, Nearest(x, found, q), q, l - 1),
                    Closest(x, found, q, MaxConn(l)))

(* A mutant: the new node lists its neighbours and they do not list it.    *)
LinkBack_OneWay(x, n) == x.node

(* The chosen neighbours list n too, and a list that got too long is cut to *)
(* the closest.                                                             *)
LinkBack(x, n) ==
    [a \in DOMAIN x.node |->
        [x.node[a] EXCEPT !.links = [l1 \in DOMAIN @ |->
            IF a \in Links(x, n, l1 - 1)
            THEN Closest(x, @[l1] \cup {n}, At(x, a), MaxConn(l1 - 1))
            ELSE @[l1]]]]

InsertNode(x, id, level) ==
    LET n == Len(x.node) + 1
        q == Place[id]
        top == LevelOf(x, x.entry)
        ep == Descend(x, x.entry, q, top, level)
        found == IF x.entry = 0 THEN <<>> ELSE Neighbours(x, ep, q, IF level < top THEN level ELSE top)
        links == [l1 \in 1 .. level + 1 |-> IF l1 \in DOMAIN found THEN found[l1] ELSE {}]
        y == [node |-> Append(x.node, [id |-> id, links |-> links]),
              nodes |-> [i \in DOMAIN x.nodes \cup {id} |-> IF i = id THEN n ELSE x.nodes[i]],
              entry |-> IF x.entry = 0 \/ level > top THEN n ELSE x.entry]
    IN  [y EXCEPT !.node = LinkBack(y, n)]

(* The layers where Add cut a list: one that was full got the new node. *)
Cuts(x, y) ==
    LET n == Len(y.node)
    IN  {l \in 0 .. LevelOf(y, n) :
            \E a \in Links(y, n, l) : Cardinality(Links(x, a, l)) = MaxConn(l)}

-----------------------------------------------------------------------------
Init ==
    /\ h = [node |-> <<>>, nodes |-> <<>>, entry |-> 0]
    /\ work = 0
    /\ pruned = {}
    /\ removed = FALSE

(* Add: an ID that is there is removed first; randomLevel is any level. *)
AddID(id, level) ==
    /\ id \in DOMAIN h.nodes => ~removed
    /\ work' = work + level + 1 + (IF id \in DOMAIN h.nodes THEN 3 ELSE 0)
    /\ work' <= MaxWork
    /\ \E x \in IF id \in DOMAIN h.nodes THEN RemoveNode(h, id) ELSE {h} :
           LET y == InsertNode(x, id, level)
           IN  /\ h' = y
               /\ pruned' = pruned \cup Cuts(x, y)
    /\ removed' = (removed \/ id \in DOMAIN h.nodes)

(* Remove of an ID that is there; of another one it does nothing. *)
RemoveID(id) ==
    /\ ~removed
    /\ work' = work + 3
    /\ work' <= MaxWork
    /\ id \in DOMAIN h.nodes
    /\ h' \in RemoveNode(h, id)
    /\ removed' = TRUE
    /\ UNCHANGED pruned

Next == \E id \in IDs : RemoveID(id) \/ \E level \in 0 .. MaxLevel : AddID(id, level)

Spec == Init /\ [][Next]_vars

-----------------------------------------------------------------------------
(* The k nearest of the IDs that are indexed, nearest first. *)
TrueNearest(q, k) ==
    LET live == {h.nodes[id] : id \in DOMAIN h.nodes}
        best == Ascending(h, Closest(h, live, q, k), q)
    IN  [i \in DOMAIN best |-> h.node[best[i]].id]

(* Search "returns the top-k nearest neighbors" with a beam as wide as the  *)
(* index: whatever the order of insertion and the levels drawn, it misses   *)
(* none as long as no list of layer 0 overflowed (its links are mutual, so  *)
(* the layer is connected).  After a removal, which may leave it in parts,  *)
(* it can miss some, but it never answers with the removed one as long as   *)
(* no list of any layer overflowed.                                         *)
SearchFindsTheNearest ==
    \A q \in Queries :
        /\ ~removed /\ 0 \notin pruned => Search(h, q, 2) = TrueNearest(q, 2)
        /\ removed /\ pruned = {} => Range(Search(h, q, 2)) \subseteq DOMAIN h.nodes
=============================================================================
