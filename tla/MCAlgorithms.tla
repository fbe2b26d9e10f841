----------------------------- MODULE MCAlgorithms -----------------------------
(***************************************************************************)
(* Instances for TLC of four algorithms that share no state: the HNSW      *)
(* index and the three of Retrieval.  A behaviour is one of one of them,   *)
(* chosen in the initial state.                                            *)
(***************************************************************************)
EXTENDS Retrieval

CONSTANTS
    Queries, M, Ef, MaxLevel, MaxWork

VARIABLES
    which,
    h, work, pruned, removed

hnswVars == <<h, work, pruned, removed>>
allVars == <<which, hnswVars, louvainVars, embeddingVars, answerVars>>

(* Six vectors at places no two pairs of which are as far apart, so that   *)
(* no two distances tie.                                                   *)
MCPlace == [i \in 1 .. 6 |-> <<0, 1, 4, 10, 12, 17>>[i]]

(* Communities of two levels, with a vector or none, with a summary or     *)
(* none, two of which share a score.                                       *)
MCCommunities ==
    {[level |-> 0, score |-> 50, vector |-> TRUE, summary |-> TRUE],
     [level |-> 0, score |-> 90, vector |-> TRUE, summary |-> TRUE],
     [level |-> 1, score |-> 60, vector |-> TRUE, summary |-> TRUE],
     [level |-> 0, score |-> 0, vector |-> FALSE, summary |-> TRUE],
     [level |-> 0, score |-> 70, vector |-> TRUE, summary |-> FALSE],
     [level |-> 0, score |-> 0, vector |-> FALSE, summary |-> FALSE]}

H == INSTANCE HNSW WITH Place <- MCPlace

ASSUME AlgorithmsAssumption == H!HNSWAssumption

MCInit ==
    /\ which \in {"hnsw", "louvain", "embed", "search"}
    /\ H!Init /\ L!Init /\ E!Init /\ S!Init

MCNext ==
    \/ which = "hnsw" /\ H!Next /\ UNCHANGED <<which, louvainVars, embeddingVars, answerVars>>
    \/ which = "louvain" /\ L!Next /\ UNCHANGED <<which, hnswVars, embeddingVars, answerVars>>
    \/ which = "embed" /\ E!Next /\ UNCHANGED <<which, hnswVars, louvainVars, answerVars>>
    \/ which = "search" /\ S!Next /\ UNCHANGED <<which, hnswVars, louvainVars, embeddingVars>>

MCSpec == MCInit /\ [][MCNext]_allVars /\ E!Fairness

-----------------------------------------------------------------------------
(* HNSW: the search finds the nearest vectors. *)
SearchFindsTheNearest == H!SearchFindsTheNearest
=============================================================================
