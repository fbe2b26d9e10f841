--------------------------------- MODULE Search ---------------------------------
(***************************************************************************)
(* internal/search: LocalSearch with the store's EntitiesForDocs and        *)
(* RelationshipsForEntityInDocs, query by query, while extraction goes on   *)
(* inserting relationships; and GlobalSearch's choice of communities.       *)
(* Entities are numbered by their similarity to the query, 1 the closest,   *)
(* and the chunks that were hit are known by their documents.               *)
(***************************************************************************)
EXTENDS Integers, Sequences, FiniteSets, SequencesExt, FiniteSetsExt, Functions

CONSTANTS
    Docs,         \* documents
    Entities,     \* entities, numbers from 1 in the order of their scores
    Embedded,     \* the entities that have a vector
    TopK,         \* hits asked for
    Depths,       \* the graph depths a caller may ask for
    Communities,  \* community rows: records with a level, a score, a vector, a summary
    TopN,         \* communities that GlobalSearch looks at
    MaxRels       \* bound: relationships ever inserted

SearchAssumption ==
    /\ Entities \subseteq Nat /\ Embedded \subseteq Entities
    /\ IsFiniteSet(Docs) /\ IsFiniteSet(Communities)
    /\ TopK \in Nat \ {0} /\ TopN \in Nat /\ MaxRels \in Nat
    /\ Depths \subseteq Nat

VARIABLES
    rels,      \* the relationships table: records [s, t, doc]
    pc,        \* "idle", "retrieved", "rank", "hop", "done", "failed" or "global"
    depth,     \* graphDepth of the search
    docIDs,    \* the documents of the chunks that were hit
    ranked,    \* the entities still to be walked from, closest first
    seen,      \* seenEntities
    result,    \* the answer: its sequence of entities and its relationships
    walk,      \* the walk that is going on: hop, frontier, visited, seenRel
    walked,    \* history: the entities that were walked from
    before,    \* history: the table when the search began
    lost,      \* history: neighbours whose row could not be read
    comms,     \* the communities table GlobalSearch reads
    top        \* the communities it put into its prompt

vars == <<rels, pc, depth, docIDs, ranked, seen, result, walk, walked, before, lost, comms, top>>

NoWalk == [hop |-> 0, frontier |-> {}, visited |-> {}, seenRel |-> {}]

Init ==
    /\ rels = {} /\ before = {} /\ lost = {}
    /\ pc = "idle" /\ depth = 0 /\ docIDs = {}
    /\ ranked = <<>> /\ seen = {} /\ walked = {}
    /\ result = [entities |-> <<>>, rels |-> {}]
    /\ walk = NoWalk
    /\ comms = {} /\ top = {}

Ends(r) == {r.s, r.t}
EndsOf(S) == UNION {Ends(r) : r \in S}

(* A set's elements in any order.                                           *)
Orders(S) == Bijection(1 .. Cardinality(S), S)

(* What sort.Slice can make of the domain of score: the greatest score      *)
(* first, equal scores in any order.                                        *)
Sorted(score) ==
    {q \in Orders(DOMAIN score) : \A i, j \in DOMAIN q : i < j => score[q[i]] >= score[q[j]]}

(* Extraction of some document inserts a relationship; the search does not  *)
(* ask in which direction it goes.                                          *)
InsertRelationship(s, t, d) ==
    /\ pc \notin {"done", "failed", "global"}
    /\ Cardinality(rels) < MaxRels /\ s < t
    /\ rels' = rels \cup {[s |-> s, t |-> t, doc |-> d]}
    /\ UNCHANGED <<pc, depth, docIDs, ranked, seen, result, walk, walked, before, lost, comms, top>>

-----------------------------------------------------------------------------
(* LocalSearch. *)

(* The chunks of the hits are fetched, and those whose chunk is gone are    *)
(* left out; a depth of 0 or no chunk at all ends the search.               *)
Retrieve(found, d) ==
    /\ pc = "idle"
    /\ Cardinality(found) <= TopK
    /\ docIDs' = found /\ depth' = d
    /\ pc' = IF d > 0 /\ found # {} THEN "retrieved" ELSE "done"
    /\ before' = rels
    /\ UNCHANGED <<rels, ranked, seen, result, walk, walked, lost, comms, top>>

(* EntitiesForDocs, and the closest 2 * topK of those that have a vector;   *)
(* the scan that stands in for an empty index lowers topK to the number of  *)
(* chunks there are.  When the query fails so does the search.              *)
EntitiesForDocs(R, D) == EndsOf({r \in R : r.doc \in D})

Closeness(S) == [e \in S |-> -e]

Rank ==
    /\ pc = "retrieved"
    /\ \/ /\ pc' = "rank"
          /\ \E k \in Cardinality(docIDs) .. TopK :
                 \E sorted \in Sorted(Closeness(EntitiesForDocs(rels, docIDs) \cap Embedded)) :
                     ranked' = SubSeq(sorted, 1, Min({2 * k, Len(sorted)}))
       \/ pc' = "failed" /\ UNCHANGED ranked
    /\ UNCHANGED <<rels, depth, docIDs, seen, result, walk, walked, before, lost, comms, top>>

(* The next entity: one that came up as a neighbour is passed over, another *)
(* is added and its walk begins.                                            *)
NextEntity ==
    /\ pc = "rank"
    /\ IF ranked = <<>>
       THEN pc' = "done" /\ UNCHANGED <<ranked, seen, result, walk, walked>>
       ELSE LET e == Head(ranked)
            IN  /\ ranked' = Tail(ranked)
                /\ IF e \in seen
                   THEN UNCHANGED <<pc, seen, result, walk, walked>>
                   ELSE /\ seen' = seen \cup {e}
                        /\ result' = [result EXCEPT !.entities = Append(@, e)]
                        /\ walk' = [hop |-> 0, frontier |-> {e}, visited |-> {e}, seenRel |-> {}]
                        /\ walked' = walked \cup {e}
                        /\ pc' = "hop"
    /\ UNCHANGED <<rels, depth, docIDs, before, lost, comms, top>>

(* A mutant: the walk is not scoped to the documents.                       *)
AtFrontier_AnyDoc(F, D) == {r \in rels : Ends(r) \cap F # {}}

(* One hop of RelationshipsForEntityInDocs: the relationships of the        *)
(* documents that have an end at the frontier.                             *)
AtFrontier(F, D) == {r \in rels : r.doc \in D /\ Ends(r) \cap F # {}}

Hop ==
    /\ pc = "hop" /\ walk.hop < depth /\ walk.frontier # {}
    /\ LET here == AtFrontier(walk.frontier, docIDs)
           found == EndsOf(here)
       IN  walk' = [hop |-> walk.hop + 1, frontier |-> found \ walk.visited,
                    visited |-> walk.visited \cup found,
                    seenRel |-> walk.seenRel \cup here]
    /\ UNCHANGED <<rels, pc, depth, docIDs, ranked, seen, result, walked, before, lost, comms, top>>

(* A hop's query fails: the entity stays, without a neighbourhood. *)
WalkFails ==
    /\ pc = "hop" /\ walk.hop < depth /\ walk.frontier # {}
    /\ walked' = walked \ {Last(result.entities)}
    /\ pc' = "rank" /\ walk' = NoWalk
    /\ UNCHANGED <<rels, depth, docIDs, ranked, seen, result, before, lost, comms, top>>

(* The walk is over: its relationships are added, and the entities at their *)
(* ends that are not there yet, in some order; those need no vector, and    *)
(* one whose row cannot be read is passed over.                             *)
AddNeighbours ==
    /\ pc = "hop" /\ (walk.hop >= depth \/ walk.frontier = {})
    /\ LET new == EndsOf(walk.seenRel) \ seen
       IN  /\ seen' = seen \cup new
           /\ \E unread \in SUBSET new :
                  /\ lost' = lost \cup unread
                  /\ \E q \in Orders(new \ unread) :
                         result' = [entities |-> result.entities \o q,
                                    rels |-> result.rels \cup walk.seenRel]
    /\ pc' = "rank" /\ walk' = NoWalk
    /\ UNCHANGED <<rels, depth, docIDs, ranked, walked, before, comms, top>>

-----------------------------------------------------------------------------
(* GlobalSearch: the communities of the level that is asked for, or all of  *)
(* them when it has none; a community without a vector counts only with a   *)
(* summary; of the first TopN the ones with a summary go into the prompt.   *)
AtLevel(S, level) ==
    LET at == {c \in S : c.level = level} IN IF at = {} THEN S ELSE at

Candidates(S) == {c \in S : c.vector \/ c.summary}
Score(c) == IF c.vector THEN c.score ELSE 50

GlobalSearch(S, level) ==
    /\ pc = "idle"
    /\ comms' = S
    /\ \E sorted \in Sorted([c \in Candidates(AtLevel(S, level)) |-> Score(c)]) :
           top' = {c \in ToSet(SubSeq(sorted, 1, Min({TopN, Len(sorted)}))) : c.summary}
    /\ depth' = level
    /\ pc' = "global"
    /\ UNCHANGED <<rels, docIDs, ranked, seen, result, walk, walked, before, lost>>

Next ==
    \/ \E s, t \in Entities, d \in Docs : InsertRelationship(s, t, d)
    \/ \E found \in SUBSET Docs, d \in Depths : Retrieve(found, d)
    \/ Rank \/ NextEntity \/ Hop \/ WalkFails \/ AddNeighbours
    \/ \E S \in SUBSET Communities, level \in {0, 1} : GlobalSearch(S, level)

Spec == Init /\ [][Next]_vars

-----------------------------------------------------------------------------
(* The relationships within d hops of e among R: by definition those with   *)
(* an end that a path of fewer than d of them reaches.                      *)
Path(R, e, d) ==
    {p \in [0 .. d -> Entities] :
        p[0] = e /\ \A k \in 1 .. d : p[k] = p[k - 1] \/ \E r \in R : {p[k - 1], p[k]} \subseteq Ends(r)}

Near(R, e, d) == {p[d] : p \in Path(R, e, d)}

Ball(R, e, d) ==
    IF d = 0 THEN {} ELSE {r \in R : Ends(r) \cap Near(R, e, d - 1) # {}}

InDocs(R) == {r \in R : r.doc \in docIDs}

(* The answer of a local search does not leak: every relationship is of a   *)
(* document that was hit, an entity is there once, and both ends of every   *)
(* relationship are there if they could be read, whatever is inserted       *)
(* meanwhile; when nothing is, the relationships are exactly those within   *)
(* the depth of an entity that was walked from.                             *)
AnswerIsTheNeighbourhood ==
    pc = "done" =>
        LET R == result.rels IN
        /\ R \subseteq InDocs(rels)
        /\ EndsOf(R) \subseteq ToSet(result.entities) \cup lost
        /\ ToSet(result.entities) \subseteq EntitiesForDocs(rels, docIDs)
        /\ IsInjective(result.entities)
        /\ before = rels => R = UNION {Ball(InDocs(rels), e, depth) : e \in walked}

(* The prompt of a global search has the best summaries there are: one that *)
(* is left out is of another level, or TopN candidates are as good.         *)
PromptHasTheBest ==
    pc = "global" =>
        LET asked == AtLevel(comms, depth) IN
        \A c \in asked : c.summary =>
            \/ c \in top
            \/ Cardinality({d \in Candidates(asked) \ {c} : Score(d) >= Score(c)}) >= TopN
=============================================================================
