---------------------------- MODULE KnowledgeGraph ----------------------------
(***************************************************************************)
(* The graph half of a project's store and who writes it: the extraction   *)
(* that follows the indexing of a file (internal/pipeline, Phase 2), the   *)
(* community phases of Finalize (Phases 3-4) and Prune.  Every step is one *)
(* statement or one transaction of internal/store, as these calls share no *)
(* lock and no transaction.  Rows of entities are never deleted, so their  *)
(* IDs are positions.  Louvain is in Louvain.tla: here its answer is any   *)
(* partition of the entities, on one level, which is all it ever gives.    *)
(*                                                                         *)
(* open() switches foreign_keys on by one statement on one connection of   *)
(* the pool: a statement runs with the keys enforced or not, according to  *)
(* the connection it gets (keys below).                                    *)
(***************************************************************************)
EXTENDS Integers, Sequences, FiniteSets, SequencesExt, FiniteSetsExt

CONSTANTS
    Files,            \* the files to index; each is one document
    Names,            \* entity names as the model spells them
    Norm,             \* normalizeEntityName, as a function of Names
    Answers,          \* what the calls to the model can yield for a file
    Finalizes,        \* the calls of Finalize
    Forced,           \* those with force
    MinCommunitySize,
    MaxCalls          \* bound: how many of these calls are made, Prune included

ASSUME GraphAssumption ==
    /\ Norm \in [Names -> Names]
    /\ Forced \subseteq Finalizes
    /\ Files \cap Finalizes = {}
    /\ MinCommunitySize \in Nat
    /\ MaxCalls \in Nat
    /\ \A a \in Answers :
          /\ a.ents \in Seq([name : Names, desc : Nat])
          /\ a.rels \subseteq Names \X Names
          /\ a.claims \subseteq Names

VARIABLES
    docs,        \* documents, by their file
    chunks,      \* the files that have rows in chunks and embeddings
    entities,    \* rows [name, desc, comm, rank, by]; desc is its length
    rels,        \* relationships
    claims,      \* claims
    comms,       \* communities
    members,     \* community_members
    graph,       \* extractGraph of each file
    claiming,    \* extractClaims of each file
    fin,         \* each call of Finalize
    prune,       \* the call of Prune
    stale,       \* history: callers whose copy of entities was overtaken
    mixed,       \* history: calls of Finalize that wrote side by side
    lastFin,     \* history: the call of Finalize that cleared last
    deleted      \* history: how each document was deleted

tables == <<docs, chunks, entities, rels, claims, comms, members>>
vars == <<docs, chunks, entities, rels, claims, comms, members, graph,
          claiming, fin, prune, stale, mixed, lastFin, deleted>>

NoComm == <<>>
NoRow == 0
None == "none"

-----------------------------------------------------------------------------
(* The answer of the model, after the batches that failed were dropped.    *)

NormsOf(a) == {Norm[a.ents[i].name] : i \in DOMAIN a.ents}

(* Of the entities with one normalised name the first decides. *)
FirstOf(a, n) == a.ents[Min({i \in DOMAIN a.ents : Norm[a.ents[i].name] = n})]

(* GetEntitiesByNames: COLLATE NOCASE stands behind the parenthesis of IN   *)
(* and has no effect there, so a name is found as it is spelled; of several *)
(* rows with one name any can be the last that is scanned.                  *)
RowsNamed(name) == {i \in DOMAIN entities : entities[i].name = name}

Found_Normalised(name) == IF RowsNamed(Norm[name]) = {} THEN {NoRow} ELSE RowsNamed(Norm[name])

Found(name) == IF RowsNamed(name) = {} THEN {NoRow} ELSE RowsNamed(name)

Holding == {f \in Files : graph[f].pc = "looked"}
Loaded == {z \in Finalizes : fin[z].pc \notin {"new", "ok", "skipped", "failed"}}

MayStart ==
    Cardinality({f \in Files : graph[f].pc # "new"})
      + Cardinality({z \in Finalizes : fin[z].pc # "new"})
      + (IF prune.pc = "new" THEN 0 ELSE 1) < MaxCalls

(* A write to entities overtakes every copy that somebody else holds. *)
Overtake(a) == stale' = stale \cup ((Holding \cup Loaded) \ {a})

-----------------------------------------------------------------------------
Init ==
    /\ docs = {}
    /\ chunks = {}
    /\ entities = <<>>
    /\ rels = {}
    /\ claims = {}
    /\ comms = {}
    /\ members = {}
    /\ graph = [f \in Files |-> [pc |-> "new"]]
    /\ claiming = [f \in Files |-> [pc |-> "new"]]
    /\ fin = [z \in Finalizes |-> [pc |-> "new"]]
    /\ prune = [pc |-> "new"]
    /\ stale = {}
    /\ mixed = {}
    /\ lastFin = None
    /\ deleted = [f \in Files |-> "no"]

-----------------------------------------------------------------------------
(* Indexing a file: document, chunks and embeddings (DocIndex has these in  *)
(* detail), then the goroutines of Phase 2 with what the model answers.  One *)
(* without names or claims does nothing: the batches return at once.        *)

Index(f) ==
    /\ graph[f].pc = "new" /\ MayStart
    /\ docs' = docs \cup {f}
    /\ chunks' = chunks \cup {f}
    /\ \E a \in Answers :
          /\ graph' = [graph EXCEPT ![f] =
                [pc |-> IF a.ents = <<>> THEN "ok" ELSE "ask", answer |-> a]]
          /\ claiming' = [claiming EXCEPT ![f] =
                [pc |-> IF a.claims = {} THEN "ok" ELSE "ask", answer |-> a]]
    /\ UNCHANGED <<entities, rels, claims, comms, members, fin, prune,
                   stale, mixed, lastFin, deleted>>

(* extractGraph reads the rows of the names it found, whole rows. *)
LookupEntities(f) ==
    LET a == graph[f].answer IN
    /\ graph[f].pc = "ask"
    /\ \E row \in [NormsOf(a) -> {NoRow} \cup DOMAIN entities] :
          /\ \A n \in NormsOf(a) : row[n] \in Found(FirstOf(a, n).name)
          /\ graph' = [graph EXCEPT ![f] =
                [pc |-> "looked", answer |-> a, id |-> row,
                 copy |-> [n \in {k \in NormsOf(a) : row[k] # NoRow} |-> entities[row[n]]]]]
    /\ UNCHANGED <<docs, chunks, entities, rels, claims, comms, members,
                   claiming, fin, prune, stale, mixed, lastFin, deleted>>

(* The names without a row, in the order in which they are inserted. *)
NewNames(f) == SetToSeq({n \in NormsOf(graph[f].answer) : graph[f].id[n] = NoRow})

Longer(f) ==
    {n \in DOMAIN graph[f].copy :
        FirstOf(graph[f].answer, n).desc > graph[f].copy[n].desc}

(* A longer description goes back with the rest of the row as it was read. *)
Rewritten(f) ==
    [i \in DOMAIN entities |->
        IF \E n \in Longer(f) : graph[f].id[n] = i
        THEN LET n == CHOOSE n \in Longer(f) : graph[f].id[n] = i
             IN  [graph[f].copy[n] EXCEPT !.desc = FirstOf(graph[f].answer, n).desc]
        ELSE entities[i]]

NewRow(f, n) ==
    [name |-> FirstOf(graph[f].answer, n).name, desc |-> FirstOf(graph[f].answer, n).desc,
     comm |-> NoComm, rank |-> 0, by |-> f]

(* BatchUpsertEntities: one transaction. *)
UpsertEntities(f) ==
    LET fresh == NewNames(f) IN
    /\ graph[f].pc = "looked"
    /\ entities' = Rewritten(f) \o [k \in DOMAIN fresh |-> NewRow(f, fresh[k])]
    /\ graph' = [graph EXCEPT ![f] =
          [pc |-> "upserted", answer |-> @.answer,
           id |-> [n \in DOMAIN @.id |->
                      IF @.id[n] # NoRow THEN @.id[n]
                      ELSE Len(entities) + CHOOSE k \in DOMAIN fresh : fresh[k] = n]]]
    /\ IF fresh = <<>> /\ Longer(f) = {} THEN UNCHANGED stale ELSE Overtake(f)
    /\ UNCHANGED <<docs, chunks, rels, claims, comms, members, claiming,
                   fin, prune, mixed, lastFin, deleted>>

(* Relationships between entities of this answer; one to another is dropped. *)
NewRels_AsSpelled(f) ==
    LET id == graph[f].id
    IN  {[src |-> id[r[1]], tgt |-> id[r[2]], doc |-> f] :
            r \in {p \in graph[f].answer.rels : {p[1], p[2]} \subseteq DOMAIN id}}

NewRels(f) ==
    LET id == graph[f].id
    IN  {[src |-> id[Norm[r[1]]], tgt |-> id[Norm[r[2]]], doc |-> f] :
            r \in {p \in graph[f].answer.rels :
                      {Norm[p[1]], Norm[p[2]]} \subseteq DOMAIN id}}

(* With the keys a row that refers to a missing one rolls the batch back. *)
InsertRelationships(f) ==
    /\ graph[f].pc = "upserted"
    /\ \E keys \in BOOLEAN :
          IF keys /\ NewRels(f) # {} /\ f \notin docs
          THEN /\ graph' = [graph EXCEPT ![f].pc = "failed"]
               /\ UNCHANGED rels
          ELSE /\ graph' = [graph EXCEPT ![f].pc = "ok"]
               /\ rels' = rels \cup NewRels(f)
    /\ UNCHANGED <<docs, chunks, entities, claims, comms, members,
                   claiming, fin, prune, stale, mixed, lastFin, deleted>>

(* A statement of the goroutine fails; the caller only logs it. *)
GraphFails(f) ==
    /\ graph[f].pc \in {"ask", "looked", "upserted"}
    /\ graph' = [graph EXCEPT ![f].pc = "failed"]
    /\ UNCHANGED <<tables, claiming, fin, prune, stale, mixed, lastFin, deleted>>

(* extractClaims runs beside extractGraph and looks its names up by itself. *)
LookupClaimed(f) ==
    LET a == claiming[f].answer IN
    /\ claiming[f].pc = "ask"
    /\ \E row \in [a.claims -> {NoRow} \cup DOMAIN entities] :
          /\ \A n \in a.claims : row[n] \in Found(n)
          /\ claiming' = [claiming EXCEPT ![f] = [pc |-> "looked", answer |-> a, id |-> row]]
    /\ UNCHANGED <<tables, graph, fin, prune, stale, mixed, lastFin, deleted>>

(* A claim about nobody has the entity "", which no key accepts. *)
InsertClaims(f) ==
    LET new == {[ent |-> claiming[f].id[n], doc |-> f] : n \in DOMAIN claiming[f].id}
    IN  /\ claiming[f].pc = "looked"
        /\ \E keys \in BOOLEAN :
              IF keys /\ \E c \in new : c.ent = NoRow \/ c.doc \notin docs
              THEN /\ claiming' = [claiming EXCEPT ![f].pc = "failed"]
                   /\ UNCHANGED claims
              ELSE /\ claiming' = [claiming EXCEPT ![f].pc = "ok"]
                   /\ claims' = claims \cup new
        /\ UNCHANGED <<docs, chunks, entities, rels, comms, members,
                       graph, fin, prune, stale, mixed, lastFin, deleted>>

-----------------------------------------------------------------------------
(* Finalize. *)

LoadEntities(z) ==
    /\ fin[z].pc = "new" /\ MayStart
    /\ fin' = [fin EXCEPT ![z] = IF entities = <<>> THEN [pc |-> "failed"]
                                 ELSE [pc |-> "rels", rows |-> entities]]
    /\ UNCHANGED <<tables, graph, claiming, prune, stale, mixed, lastFin, deleted>>

LoadRelationships(z) ==
    /\ fin[z].pc = "rels"
    /\ fin' = [fin EXCEPT ![z] = [pc |-> "check", rows |-> @.rows, rels |-> rels]]
    /\ UNCHANGED <<tables, graph, claiming, prune, stale, mixed, lastFin, deleted>>

(* GraphFingerprint counts the tables as they are now and compares the      *)
(* counts with the rows loaded a moment ago, not with those of the last run. *)
CheckFingerprint(z) ==
    /\ fin[z].pc = "check"
    /\ fin' = [fin EXCEPT ![z].pc =
          IF /\ z \notin Forced
             /\ comms # {}
             /\ Len(entities) = Len(fin[z].rows)
             /\ Cardinality(rels) = Cardinality(fin[z].rels)
          THEN "skipped" ELSE "clear"]
    /\ UNCHANGED <<tables, graph, claiming, prune, stale, mixed, lastFin, deleted>>

Writing == {z \in Finalizes : fin[z].pc \in {"clear2", "clear3", "write", "man", "assign", "embed"}}

(* ClearCommunities is three statements of one Exec, without a transaction. *)
ClearMembers_Keeps(z) ==
    /\ fin[z].pc = "clear"
    /\ fin' = [fin EXCEPT ![z].pc = "clear2"]
    /\ mixed' = IF Writing = {} THEN mixed ELSE mixed \cup Writing \cup {z}
    /\ lastFin' = z
    /\ UNCHANGED <<docs, chunks, entities, rels, claims, comms, members, graph,
                   claiming, prune, stale, deleted>>

ClearMembers(z) ==
    /\ fin[z].pc = "clear"
    /\ members' = {}
    /\ fin' = [fin EXCEPT ![z].pc = "clear2"]
    /\ mixed' = IF Writing = {} THEN mixed ELSE mixed \cup Writing \cup {z}
    /\ lastFin' = z
    /\ UNCHANGED <<docs, chunks, entities, rels, claims, comms, graph,
                   claiming, prune, stale, deleted>>

(* With the keys the members of the deleted communities go as well. *)
ClearComms(z) ==
    /\ fin[z].pc = "clear2"
    /\ comms' = {}
    /\ \E keys \in BOOLEAN : members' = IF keys THEN {} ELSE members
    /\ fin' = [fin EXCEPT ![z].pc = "clear3"]
    /\ UNCHANGED <<docs, chunks, entities, rels, claims, graph,
                   claiming, prune, stale, mixed, lastFin, deleted>>

(* The last statement, then the communities of the rows that were loaded:   *)
(* blocks holds those of at least MinCommunitySize; none ends the call.     *)
ClearEntities(z) ==
    /\ fin[z].pc = "clear3"
    /\ entities' = [i \in DOMAIN entities |-> [entities[i] EXCEPT !.comm = NoComm]]
    /\ \E of \in [DOMAIN fin[z].rows -> DOMAIN fin[z].rows] :
          LET Block(i) == {j \in DOMAIN of : of[j] = of[i]}
              blocks == {b \in {Block(i) : i \in DOMAIN of} : Cardinality(b) >= MinCommunitySize}
          IN  /\ \A i \in DOMAIN of : of[i] = Min(Block(i))
              /\ fin' = [fin EXCEPT ![z] =
                    [pc |-> IF blocks = {} THEN "ok" ELSE "write",
                     rows |-> @.rows, rels |-> @.rels, blocks |-> blocks, todo |-> blocks]]
    /\ Overtake(z)
    /\ UNCHANGED <<docs, chunks, rels, claims, comms, members, graph,
                   claiming, prune, mixed, lastFin, deleted>>

(* UpsertCommunity, with its title and summary; a failed summary has a stand-in. *)
UpsertCommunity(z) ==
    /\ fin[z].pc = "write"
    /\ \E b \in fin[z].todo :
          /\ comms' = comms \cup {<<z, b>>}
          /\ fin' = [fin EXCEPT ![z] = [pc |-> "man", rows |-> @.rows, rels |-> @.rels,
                                        blocks |-> @.blocks, todo |-> @.todo, block |-> b]]
    /\ UNCHANGED <<docs, chunks, entities, rels, claims, members, graph,
                   claiming, prune, stale, mixed, lastFin, deleted>>

InsertMembers(z) ==
    LET c == <<z, fin[z].block>>
        rest == fin[z].todo \ {fin[z].block}
    IN  /\ fin[z].pc = "man"
        /\ \E keys \in BOOLEAN :
              IF keys /\ c \notin comms
              THEN /\ fin' = [fin EXCEPT ![z].pc = "failed"]
                   /\ UNCHANGED members
              ELSE /\ members' = members \cup {<<c, i>> : i \in fin[z].block}
                   /\ fin' = [fin EXCEPT ![z] =
                         [pc |-> IF rest = {} THEN "assign" ELSE "write", rows |-> @.rows,
                          rels |-> @.rels, blocks |-> @.blocks, todo |-> rest]]
        /\ UNCHANGED <<docs, chunks, entities, rels, claims, comms, graph,
                       claiming, prune, stale, mixed, lastFin, deleted>>

CommunityOf(z, i) ==
    LET b == {c \in fin[z].blocks : i \in c}
    IN  IF b = {} THEN NoComm ELSE <<z, CHOOSE c \in b : TRUE>>

Degree(i, rs) == Cardinality({r \in rs : r.src = i}) + Cardinality({r \in rs : r.tgt = i})

(* BatchUpdateEntityCommunities and BatchUpdateEntityRanks, two transactions *)
(* that touch different columns of the rows.                                 *)
Assigned(row, c, d) ==
    [name |-> row.name, desc |-> row.desc, by |-> row.by,
     comm |-> IF c = NoComm THEN row.comm ELSE c, rank |-> IF d = 0 THEN row.rank ELSE d]

AssignCommunities(z) ==
    /\ fin[z].pc = "assign"
    /\ entities' = [i \in DOMAIN entities |->
          Assigned(entities[i], CommunityOf(z, i), Degree(i, fin[z].rels))]
    /\ fin' = [fin EXCEPT ![z].pc = "embed"]
    /\ Overtake(z)
    /\ UNCHANGED <<docs, chunks, rels, claims, comms, members, graph,
                   claiming, prune, mixed, lastFin, deleted>>

(* The rows with a description go back with their vectors, and with all the *)
(* other columns as they were when the call loaded them.                    *)
WriteVectors(z) ==
    LET Back(i) == i \in DOMAIN fin[z].rows /\ fin[z].rows[i].desc > 0
    IN  /\ fin[z].pc = "embed"
        /\ entities' = [i \in DOMAIN entities |-> IF Back(i) THEN fin[z].rows[i] ELSE entities[i]]
        /\ fin' = [fin EXCEPT ![z].pc = "ok"]
        /\ IF \E i \in DOMAIN entities : Back(i) THEN Overtake(z) ELSE UNCHANGED stale
        /\ UNCHANGED <<docs, chunks, rels, claims, comms, members, graph,
                       claiming, prune, mixed, lastFin, deleted>>

(* The embedder fails: that is logged, and the call ends without an error. *)
NoVectors(z) ==
    /\ fin[z].pc = "embed"
    /\ fin' = [fin EXCEPT ![z].pc = "ok"]
    /\ UNCHANGED <<tables, graph, claiming, prune, stale, mixed, lastFin, deleted>>

(* A statement fails, or the context is cancelled, between any two of them. *)
FinalizeFails(z) ==
    /\ fin[z].pc \in {"rels", "clear", "clear2", "clear3", "write", "man", "assign", "embed"}
    /\ fin' = [fin EXCEPT ![z].pc = "failed"]
    /\ UNCHANGED <<tables, graph, claiming, prune, stale, mixed, lastFin, deleted>>

-----------------------------------------------------------------------------
(* Prune.  A file may be gone when it is looked at: a local one was removed, *)
(* an upload's went with the temporary directory of its job.                *)

ListDocuments ==
    /\ prune.pc = "new" /\ MayStart
    /\ prune' = [pc |-> "scan", todo |-> docs]
    /\ UNCHANGED <<tables, graph, claiming, fin, stale, mixed, lastFin, deleted>>

Refers_OnlyClaims(f) == \E c \in claims : c.doc = f

Refers(f) == (\E r \in rels : r.doc = f) \/ (\E c \in claims : c.doc = f)

Settled(f) == {graph[f].pc, claiming[f].pc} \subseteq {"ok", "failed"}

(* DeleteDocument.  The keys of relationships and claims have no cascade:   *)
(* with the keys such a document stays and Prune gives up; without them the *)
(* row goes alone.                                                          *)
PruneOne(f) ==
    /\ prune.pc = "scan"
    /\ f \in prune.todo
    /\ \/ /\ prune' = [prune EXCEPT !.todo = @ \ {f}]
          /\ UNCHANGED <<docs, chunks, deleted>>
       \/ \E keys \in BOOLEAN :
             IF keys /\ Refers(f)
             THEN /\ prune' = [prune EXCEPT !.pc = "failed"]
                  /\ UNCHANGED <<docs, chunks, deleted>>
             ELSE /\ docs' = docs \ {f}
                  /\ chunks' = IF keys THEN chunks \ {f} ELSE chunks
                  /\ deleted' = [deleted EXCEPT ![f] =
                        IF keys /\ Settled(f) THEN "keys" ELSE "other"]
                  /\ prune' = [prune EXCEPT !.todo = @ \ {f}]
    /\ UNCHANGED <<entities, rels, claims, comms, members, graph,
                   claiming, fin, stale, mixed, lastFin>>

Next ==
    \/ \E f \in Files :
          \/ Index(f) \/ LookupEntities(f) \/ UpsertEntities(f)
          \/ InsertRelationships(f) \/ GraphFails(f)
          \/ LookupClaimed(f) \/ InsertClaims(f)
          \/ PruneOne(f)
    \/ \E z \in Finalizes :
          \/ LoadEntities(z) \/ LoadRelationships(z) \/ CheckFingerprint(z)
          \/ ClearMembers(z) \/ ClearComms(z) \/ ClearEntities(z)
          \/ UpsertCommunity(z) \/ InsertMembers(z) \/ AssignCommunities(z)
          \/ WriteVectors(z) \/ NoVectors(z) \/ FinalizeFails(z)
    \/ ListDocuments

Spec == Init /\ [][Next]_vars

-----------------------------------------------------------------------------
(* Properties. *)

(* What a call of extractGraph that returned nil has stored: an entity for  *)
(* each name it was given and the relationships between those, by name, in  *)
(* spite of what other calls rewrote or inserted in between.                *)
ExtractedGraphIsStored ==
    \A f \in Files : graph[f].pc = "ok" =>
        LET a == graph[f].answer
            Is(i, name) == i \in DOMAIN entities /\ Norm[entities[i].name] = Norm[name]
        IN  /\ \A k \in DOMAIN a.ents : \E i \in DOMAIN entities : Is(i, a.ents[k].name)
            /\ \A p \in a.rels : {Norm[p[1]], Norm[p[2]]} \subseteq NormsOf(a) =>
                  \E r \in rels : r.doc = f /\ Is(r.src, p[1]) /\ Is(r.tgt, p[2])

(* A second entity with one spelling is inserted, or a description gets     *)
(* shorter, only in a step of a call that holds a copy somebody overtook:   *)
(* the table has no UNIQUE name, only the lookup before the insert.         *)
Moves(a) ==
    \/ a \in Files /\ graph'[a] # graph[a]
    \/ a \in Finalizes /\ fin'[a] # fin[a]

Doubled ==
    \E i, j \in DOMAIN entities' :
        i < j /\ j \notin DOMAIN entities /\ entities'[i].name = entities'[j].name

Shortened == \E i \in DOMAIN entities : entities'[i].desc < entities[i].desc

OverlapsAloneHarm == [][Doubled \/ Shortened => \E a \in stale : Moves(a)]_vars

(* After the last call of Finalize that cleared the communities, if it      *)
(* returned nil and no other call wrote at the same time, the tables hold   *)
(* its partition and nothing else, and entities without a description point *)
(* to their community (those with one are written back, see                 *)
(* MembersAreAssigned).                                                     *)
Undisturbed(z) == lastFin = z /\ fin[z].pc = "ok" /\ z \notin mixed

CommunitiesAreThePartition ==
    \A z \in Finalizes : Undisturbed(z) =>
        /\ comms = {<<z, b>> : b \in fin[z].blocks}
        /\ members = UNION {{<<<<z, b>>, i>> : i \in b} : b \in fin[z].blocks}
        /\ \A i \in DOMAIN entities : entities[i].desc = 0 => entities[i].comm = CommunityOf(z, i)

(* Every member of a community points to it once Finalize is done: the      *)
(* purpose of BatchUpdateEntityCommunities.  The code breaks it, for it     *)
(* then writes the loaded rows back.                                        *)
MembersAreAssigned ==
    \A z \in Finalizes : Undisturbed(z) /\ z \notin stale =>
        \A i \in DOMAIN entities : entities[i].comm = CommunityOf(z, i)

(* A document that is deleted through a connection with foreign keys, after *)
(* its extraction is over, leaves no chunk, relationship or claim behind.   *)
DeletedLeavesNothing ==
    \A f \in Files : deleted[f] = "keys" =>
        /\ f \notin chunks
        /\ \A row \in rels \cup claims : row.doc # f

TypeOK ==
    /\ docs \subseteq Files
    /\ chunks \subseteq Files
    /\ \A i \in DOMAIN entities :
          entities[i].name \in Names /\ entities[i].desc \in Nat /\ entities[i].by \in Files
    /\ \A r \in rels : {r.src, r.tgt} \subseteq DOMAIN entities /\ r.doc \in Files
    /\ \A c \in claims : c.ent \in {NoRow} \cup DOMAIN entities /\ c.doc \in Files
    /\ stale \subseteq Files \cup Finalizes
    /\ mixed \subseteq Finalizes
=============================================================================
