------------------------------- MODULE Retrieval -------------------------------
(***************************************************************************)
(* Three parts of retrieval that share no state: the embedding of texts,   *)
(* the search through the graph, and Louvain's communities.                *)
(***************************************************************************)
EXTENDS Integers, Sequences

CONSTANTS
    NTexts, BatchSize, Concurrency, ChanCap,
    Docs, Entities, Embedded, TopK, Depths, Communities, TopN, MaxRels,
    NNodes, Weights, MaxWeight, MaxIter, MaxLevels

VARIABLES
    call, caller, next, out, flying, failed, producer, item, chan, ctx, unsent,
    rels, pc, depth, docIDs, ranked, seen, answer, walk, walked, before, lost, comms, top,
    adj, orig, comm, sigmaTot, todo, improved, iter, phase, levels

embeddingVars == <<call, caller, next, out, flying, failed, producer, item, chan, ctx, unsent>>
answerVars == <<rels, pc, depth, docIDs, ranked, seen, answer, walk, walked, before, lost, comms, top>>
louvainVars == <<adj, orig, comm, sigmaTot, todo, improved, iter, phase, levels>>

E == INSTANCE Embedding
S == INSTANCE Search WITH result <- answer
L == INSTANCE Louvain

ASSUME RetrievalAssumption ==
    E!EmbeddingAssumption /\ S!SearchAssumption /\ L!LouvainAssumption

-----------------------------------------------------------------------------
(* Embedding: a call without error has the vector of every text. *)
OkMeansEverySlot == E!OkMeansEverySlot

(* Embedding: the caller returns and no goroutine is left. *)
EveryoneEnds == E!EveryoneEnds

(* Search: a local search answers with the neighbourhood of the entities    *)
(* that were hit, and the prompt of a global search has the best summaries. *)
AnswersAreRight == S!AnswerIsTheNeighbourhood /\ S!PromptHasTheBest

(* Louvain: every move raises the modularity. *)
MovesRaiseModularity == L!MovesRaiseModularity

(* Louvain: a run that was not cut short ends where no single move would.   *)
StopsAtLocalOptimum == L!StopsAtLocalOptimum
=============================================================================
