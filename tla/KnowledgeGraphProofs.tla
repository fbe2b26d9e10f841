------------------------- MODULE KnowledgeGraphProofs -------------------------
(***************************************************************************)
(* What holds of the graph tables for any files, names, answers of the     *)
(* model and calls of Finalize.                                            *)
(***************************************************************************)
EXTENDS KnowledgeGraph, FiniteSetTheorems, SequenceTheorems, WellFoundedInduction, TLAPS

-----------------------------------------------------------------------------
(* Operators. *)

(* Min is a member of a set of positions. *)
LEMMA MinIsMember ==
    ASSUME NEW P \in SUBSET Nat, P # {}
    PROVE  Min(P) \in P
<1> DEFINE R == {e \in Nat \X Nat : e[1] < e[2]}
<1>1. IsWellFoundedOn(R, Nat)
  BY NatLessThanWellFounded, Zenon DEF OpToRel
<1>2. PICK m \in P : \A k \in P : ~(<<k, m>> \in R)
  <2> HIDE DEF R
  <2> QED
    BY <1>1, WFMin
<1>3. \A k \in P : m =< k
  <2> TAKE k \in P
  <2>1. <<k, m>> \in Nat \X Nat /\ <<k, m>>[1] = k /\ <<k, m>>[2] = m
    OBVIOUS
  <2>2. ~(k < m)
    BY <1>2, <2>1
  <2> QED
    BY <2>1, <2>2
<1> QED
  BY <1>3 DEF Min

(* SetToSeq lists every element of a finite set. *)
LEMMA SetToSeqLists ==
    ASSUME NEW S, IsFiniteSet(S)
    PROVE  /\ SetToSeq(S) \in Seq(S)
           /\ \A e \in S : \E k \in 1 .. Len(SetToSeq(S)) : SetToSeq(S)[k] = e
           /\ \A j, k \in 1 .. Len(SetToSeq(S)) : SetToSeq(S)[j] = SetToSeq(S)[k] => j = k
           /\ SetToSeq(S) = <<>> <=> S = {}
<1> DEFINE n == Cardinality(S)
           s == SetToSeq(S)
<1>1. n \in Nat /\ ExistsBijection(1 .. n, S)
  BY FS_CardinalityType
<1>2. PICK b : b \in Bijection(1 .. n, S)
  BY <1>1 DEF ExistsBijection
<1>3. b \in [1 .. n -> S] /\ IsInjective(b)
  BY <1>2 DEF Bijection, Injection, IsInjective
<1>4. s \in [1 .. n -> S] /\ IsInjective(s)
  BY <1>3 DEF SetToSeq
<1>5. s \in Injection(1 .. n, S)
  BY <1>4 DEF Injection, IsInjective
<1>6. IsFiniteSet(1 .. n) /\ Cardinality(1 .. n) = n
  BY <1>1, FS_Interval
<1>7. s \in Surjection(1 .. n, S)
  BY <1>5, <1>6, FS_Injection
<1>8. s \in Seq(S) /\ Len(s) = n
  BY <1>1, <1>4
<1>9. \A e \in S : \E k \in 1 .. n : s[k] = e
  BY <1>7 DEF Surjection
<1>10. s = <<>> <=> S = {}
  BY <1>4, <1>8, <1>9, <1>1
<1>11. \A j, k \in 1 .. n : s[j] = s[k] => j = k
  BY <1>4 DEF IsInjective
<1> QED
  BY <1>8, <1>9, <1>10, <1>11

(* The names of an answer are finitely many. *)
LEMMA NormsFinite ==
    ASSUME NEW a \in Answers
    PROVE  IsFiniteSet(NormsOf(a))
<1> DEFINE f == [i \in DOMAIN a.ents |-> Norm[a.ents[i].name]]
<1>1. a.ents \in Seq([name : Names, desc : Nat])
  BY GraphAssumption
<1>2. IsFiniteSet(DOMAIN a.ents)
  BY <1>1, FS_Interval
<1>3. f \in Surjection(DOMAIN a.ents, NormsOf(a))
  BY DEF Surjection, NormsOf
<1> QED
  BY <1>2, <1>3, FS_Surjection

(* The entity that decides a name has it. *)
LEMMA FirstOfHasIt ==
    ASSUME NEW a \in Answers, NEW n \in NormsOf(a)
    PROVE  /\ FirstOf(a, n).name \in Names /\ FirstOf(a, n).desc \in Nat
           /\ Norm[FirstOf(a, n).name] = n
<1> DEFINE P == {i \in DOMAIN a.ents : Norm[a.ents[i].name] = n}
<1>1. a.ents \in Seq([name : Names, desc : Nat])
  BY GraphAssumption
<1>2. P \in SUBSET Nat /\ P # {}
  BY <1>1 DEF NormsOf
<1>3. Min(P) \in P
  BY <1>2, MinIsMember
<1>4. FirstOf(a, n) = a.ents[Min(P)]
  BY DEF FirstOf
<1>5. a.ents[Min(P)] \in [name : Names, desc : Nat]
  <2>1. Min(P) \in DOMAIN a.ents
    BY <1>3
  <2>2. \A i \in DOMAIN a.ents : a.ents[i] \in [name : Names, desc : Nat]
    <3> DEFINE E == [name : Names, desc : Nat]
    <3>1. a.ents \in Seq(E)
      BY <1>1
    <3> HIDE DEF E
    <3>2. \A i \in DOMAIN a.ents : a.ents[i] \in E
      BY <3>1, LenProperties
    <3> QED
      BY <3>2 DEF E
  <2> QED
    BY <2>1, <2>2, Zenon
<1>6. Norm[a.ents[Min(P)].name] = n
  BY <1>3
<1> HIDE DEF P
<1> QED
  BY <1>4, <1>5, <1>6

-----------------------------------------------------------------------------
(* Rows and sequences of rows. *)

Row(n, d, c, k, b) == [name |-> n, desc |-> d, comm |-> c, rank |-> k, by |-> b]

IsRow(r) ==
    /\ r = Row(r.name, r.desc, r.comm, r.rank, r.by)
    /\ r.name \in Names /\ r.desc \in Nat /\ r.by \in Files

Rows(s) ==
    /\ Len(s) \in Nat
    /\ s = [i \in 1 .. Len(s) |-> s[i]]
    /\ \A i \in 1 .. Len(s) : IsRow(s[i])

(* The rows of s are still at their places in t, with what never changes.  *)
Kept(s, t) ==
    /\ Len(s) =< Len(t)
    /\ \A i \in 1 .. Len(s) : t[i].name = s[i].name /\ t[i].by = s[i].by

(* The columns of a row that is written out. *)
LEMMA RowFields ==
    ASSUME NEW n, NEW d, NEW c, NEW k, NEW b
    PROVE  /\ Row(n, d, c, k, b).name = n
           /\ Row(n, d, c, k, b).desc = d
           /\ Row(n, d, c, k, b).comm = c
           /\ Row(n, d, c, k, b).rank = k
           /\ Row(n, d, c, k, b).by = b
BY DEF Row

(* A row of values of the right types. *)
LEMMA RowMade ==
    ASSUME NEW n \in Names, NEW d \in Nat, NEW c, NEW k, NEW b \in Files
    PROVE  IsRow(Row(n, d, c, k, b))
BY RowFields DEF IsRow

(* One column of a row is written. *)
LEMMA RowWritten ==
    ASSUME NEW r, IsRow(r), NEW c, NEW d
    PROVE  /\ [r EXCEPT !.comm = c] = Row(r.name, r.desc, c, r.rank, r.by)
           /\ [r EXCEPT !.desc = d] = Row(r.name, d, r.comm, r.rank, r.by)
<1>1. r = [name |-> r.name, desc |-> r.desc, comm |-> r.comm, rank |-> r.rank, by |-> r.by]
  BY DEF IsRow, Row
<1> QED
  BY <1>1 DEF Row

(* Rows are rewritten in place. *)
LEMMA RowsInPlace ==
    ASSUME NEW s, Rows(s), NEW t, t = [i \in DOMAIN s |-> t[i]], \A i \in DOMAIN s : IsRow(t[i])
    PROVE  Rows(t) /\ Len(t) = Len(s)
<1>1. DOMAIN s = 1 .. Len(s) /\ Len(s) \in Nat
  BY DEF Rows
<1>2. t \in [1 .. Len(s) -> {t[i] : i \in 1 .. Len(s)}]
  BY <1>1
<1>3. t \in Seq({t[i] : i \in 1 .. Len(s)}) /\ Len(t) = Len(s)
  BY <1>1, <1>2
<1> QED
  BY <1>1, <1>3 DEF Rows

(* Rows are appended. *)
LEMMA RowsAppended ==
    ASSUME NEW s, NEW t, Rows(s), Rows(t)
    PROVE  /\ Rows(s \o t) /\ Len(s \o t) = Len(s) + Len(t)
           /\ \A i \in 1 .. Len(s) : (s \o t)[i] = s[i]
           /\ \A k \in 1 .. Len(t) : (s \o t)[Len(s) + k] = t[k]
<1> DEFINE S == {s[i] : i \in 1 .. Len(s)} \cup {t[i] : i \in 1 .. Len(t)}
<1>1. Len(s) \in Nat /\ Len(t) \in Nat
  BY DEF Rows
<1>2. s \in [1 .. Len(s) -> S] /\ t \in [1 .. Len(t) -> S]
  BY DEF Rows
<1>3. s \in Seq(S) /\ t \in Seq(S)
  BY <1>1, <1>2
<1>4. /\ s \o t \in Seq(S)
      /\ Len(s \o t) = Len(s) + Len(t)
      /\ \A i \in 1 .. Len(s) + Len(t) : (s \o t)[i] = IF i =< Len(s) THEN s[i] ELSE t[i - Len(s)]
  BY <1>3, ConcatProperties
<1>5. \A i \in 1 .. Len(s) : (s \o t)[i] = s[i]
  BY <1>1, <1>4
<1>6. \A k \in 1 .. Len(t) : (s \o t)[Len(s) + k] = t[k]
  BY <1>1, <1>4
<1>7. \A i \in 1 .. Len(s) + Len(t) : IsRow((s \o t)[i])
  <2> TAKE i \in 1 .. Len(s) + Len(t)
  <2>1. CASE i =< Len(s)
    BY <1>1, <1>5, <2>1 DEF Rows
  <2>2. CASE i > Len(s)
    <3>1. i - Len(s) \in 1 .. Len(t) /\ (s \o t)[i] = t[i - Len(s)]
      BY <1>1, <1>4, <2>2
    <3> QED
      BY <3>1 DEF Rows
  <2> QED
    BY <1>1, <2>1, <2>2
<1>8. s \o t = [i \in 1 .. Len(s \o t) |-> (s \o t)[i]]
  <2>1. s \o t \in [1 .. Len(s \o t) -> S]
    BY <1>4, LenProperties
  <2> HIDE DEF S
  <2> QED
    BY <2>1
<1> QED
  BY <1>1, <1>4, <1>5, <1>6, <1>7, <1>8 DEF Rows

-----------------------------------------------------------------------------
(* The invariant: the record of each call has the shape its program counter *)
(* says, and the positions it holds are those of the rows it means.         *)

(* An answer's names found at id[n], or still to be inserted. *)
Looked(g, es) ==
    /\ g.id \in [NormsOf(g.answer) -> 0 .. Len(es)]
    /\ DOMAIN g.copy = {n \in NormsOf(g.answer) : g.id[n] # NoRow}
    /\ \A n \in NormsOf(g.answer) : g.id[n] # NoRow =>
          /\ es[g.id[n]].name = FirstOf(g.answer, n).name
          /\ IsRow(g.copy[n])
          /\ g.copy[n].name = es[g.id[n]].name
          /\ g.copy[n].by = es[g.id[n]].by

Ids(id, a, es) ==
    /\ id \in [NormsOf(a) -> 1 .. Len(es)]
    /\ \A n \in NormsOf(a) : Norm[es[id[n]].name] = n

GraphOK(g, es) ==
    \/ g.pc = "new" /\ g = [pc |-> "new"]
    \/ g.pc = "ask" /\ g = [pc |-> "ask", answer |-> g.answer] /\ g.answer \in Answers
    \/ /\ g.pc = "looked"
       /\ g = [pc |-> "looked", answer |-> g.answer, id |-> g.id, copy |-> g.copy]
       /\ g.answer \in Answers /\ Looked(g, es)
    \/ /\ g.pc = "upserted"
       /\ g = [pc |-> "upserted", answer |-> g.answer, id |-> g.id]
       /\ g.answer \in Answers /\ Ids(g.id, g.answer, es)
    \/ g.pc = "ok" /\ g.answer \in Answers
    \/ g.pc = "failed"

ClaimOK(c, es) ==
    \/ c.pc = "new" /\ c = [pc |-> "new"]
    \/ c.pc = "ask" /\ c = [pc |-> "ask", answer |-> c.answer] /\ c.answer \in Answers
    \/ /\ c.pc = "looked"
       /\ c = [pc |-> "looked", answer |-> c.answer, id |-> c.id]
       /\ c.answer \in Answers /\ c.id \in [c.answer.claims -> 0 .. Len(es)]
    \/ c.pc \in {"ok", "failed"}

Blocks(x) == \A b \in x.blocks : b \subseteq 1 .. Len(x.rows)

(* The rows that a call of Finalize has loaded, and what it made of them.  *)
Loads(x, es) == Rows(x.rows) /\ Kept(x.rows, es)

FinOK(x, es) ==
    \/ x.pc = "new" /\ x = [pc |-> "new"]
    \/ x.pc \in {"skipped", "failed"}
    \/ x.pc = "rels" /\ x = [pc |-> x.pc, rows |-> x.rows] /\ Loads(x, es)
    \/ /\ x.pc \in {"check", "clear", "clear2", "clear3"}
       /\ x = [pc |-> x.pc, rows |-> x.rows, rels |-> x.rels] /\ Loads(x, es)
    \/ /\ x.pc \in {"write", "assign", "embed", "ok"}
       /\ x = [pc |-> x.pc, rows |-> x.rows, rels |-> x.rels, blocks |-> x.blocks, todo |-> x.todo]
       /\ Loads(x, es) /\ Blocks(x) /\ x.todo \subseteq x.blocks
    \/ /\ x.pc = "man"
       /\ x = [pc |-> x.pc, rows |-> x.rows, rels |-> x.rels, blocks |-> x.blocks, todo |-> x.todo,
               block |-> x.block]
       /\ Loads(x, es) /\ Blocks(x) /\ x.todo \subseteq x.blocks /\ x.block \in x.todo

Functions == /\ graph = [f \in Files |-> graph[f]]
             /\ claiming = [f \in Files |-> claiming[f]]
             /\ fin = [z \in Finalizes |-> fin[z]]
             /\ deleted = [f \in Files |-> deleted[f]]

BasicInv ==
    /\ Rows(entities)
    /\ Functions
    /\ \A f \in Files : GraphOK(graph[f], entities)
    /\ \A f \in Files : ClaimOK(claiming[f], entities)
    /\ \A z \in Finalizes : FinOK(fin[z], entities)
    /\ TypeOK

(* Growing twice is growing. *)
LEMMA KeptGrows ==
    ASSUME NEW s, NEW t, NEW u, Rows(s), Rows(t), Rows(u), Kept(s, t), Kept(t, u)
    PROVE  Kept(s, u)
BY DEF Kept, Rows

(* What an extraction has looked up is still there. *)
LEMMA LookedGrows ==
    ASSUME NEW s, NEW t, Rows(s), Rows(t), Kept(s, t), NEW g, Looked(g, s)
    PROVE  Looked(g, t)
<1>1. g.id \in [NormsOf(g.answer) -> 0 .. Len(t)]
  BY DEF Looked, Kept, Rows
<1>2. ASSUME NEW n \in NormsOf(g.answer), g.id[n] # NoRow
      PROVE  t[g.id[n]].name = s[g.id[n]].name /\ t[g.id[n]].by = s[g.id[n]].by
  <2>1. g.id[n] \in 1 .. Len(s)
    BY <1>2 DEF Looked, Rows, NoRow
  <2> QED
    BY <2>1 DEF Kept
<1> QED
  BY <1>1, <1>2 DEF Looked

(* So are the rows it has upserted. *)
LEMMA IdsGrow ==
    ASSUME NEW s, NEW t, Rows(s), Rows(t), Kept(s, t), NEW id, NEW a, Ids(id, a, s)
    PROVE  Ids(id, a, t)
<1>1. id \in [NormsOf(a) -> 1 .. Len(t)]
  BY DEF Ids, Kept, Rows
<1>2. ASSUME NEW n \in NormsOf(a) PROVE t[id[n]].name = s[id[n]].name
  BY DEF Ids, Kept
<1> QED
  BY <1>1, <1>2 DEF Ids

(* And whatever any call holds. *)
LEMMA CallsGrow ==
    ASSUME NEW s, NEW t, Rows(s), Rows(t), Kept(s, t)
    PROVE  /\ \A g : GraphOK(g, s) => GraphOK(g, t)
           /\ \A c : ClaimOK(c, s) => ClaimOK(c, t)
           /\ \A x : FinOK(x, s) => FinOK(x, t)
<1>1. ASSUME NEW g, GraphOK(g, s) PROVE GraphOK(g, t)
  BY <1>1, LookedGrows, IdsGrow, Zenon DEF GraphOK
<1>2. ASSUME NEW c, ClaimOK(c, s) PROVE ClaimOK(c, t)
  <2>1. ASSUME NEW S, c.id \in [S -> 0 .. Len(s)] PROVE c.id \in [S -> 0 .. Len(t)]
    BY <2>1 DEF Kept, Rows
  <2> QED
    BY <1>2, <2>1, Zenon DEF ClaimOK
<1>3. ASSUME NEW x, FinOK(x, s) PROVE FinOK(x, t)
  <2>1. Loads(x, s) => Loads(x, t)
    BY KeptGrows DEF Loads
  <2> QED
    BY <1>3, <2>1, Zenon DEF FinOK
<1> QED
  BY <1>1, <1>2, <1>3

(* The model starts with empty tables. *)
LEMMA InitBasic == Init => BasicInv
<1> SUFFICES ASSUME Init PROVE BasicInv
  OBVIOUS
<1>1. Rows(entities)
  BY DEF Init, Rows
<1>2. Functions
  BY DEF Init, Functions
<1>3. ASSUME NEW f \in Files PROVE GraphOK(graph[f], entities) /\ ClaimOK(claiming[f], entities)
  BY DEF Init, GraphOK, ClaimOK
<1>4. ASSUME NEW z \in Finalizes PROVE FinOK(fin[z], entities)
  BY DEF Init, FinOK
<1>5. TypeOK
  BY DEF Init, TypeOK
<1> QED
  BY <1>1, <1>2, <1>3, <1>4, <1>5 DEF BasicInv

-----------------------------------------------------------------------------
(* Which actions change what. *)

GraphStep(f) ==
    Index(f) \/ LookupEntities(f) \/ UpsertEntities(f) \/ InsertRelationships(f) \/ GraphFails(f)

(* Only extractGraph moves an extraction. *)
LEMMA GraphSteps ==
    [Next]_vars => (\E f \in Files : GraphStep(f)) \/ UNCHANGED graph
BY Zenon DEF GraphStep, Next, vars, LookupClaimed, InsertClaims, PruneOne, LoadEntities, LoadRelationships,
    CheckFingerprint, ClearMembers, ClearComms, ClearEntities, UpsertCommunity, InsertMembers,
    AssignCommunities, WriteVectors, NoVectors, FinalizeFails, ListDocuments, tables

ClaimStep(f) == Index(f) \/ LookupClaimed(f) \/ InsertClaims(f)

(* Only extractClaims moves that of claims. *)
LEMMA ClaimSteps ==
    [Next]_vars => (\E f \in Files : ClaimStep(f)) \/ UNCHANGED claiming
BY Zenon DEF ClaimStep, Next, vars, LookupEntities, UpsertEntities, InsertRelationships, GraphFails, PruneOne,
    LoadEntities, LoadRelationships, CheckFingerprint, ClearMembers, ClearComms, ClearEntities,
    UpsertCommunity, InsertMembers, AssignCommunities, WriteVectors, NoVectors, FinalizeFails,
    ListDocuments, tables

FinStep(z) ==
    \/ LoadEntities(z) \/ LoadRelationships(z) \/ CheckFingerprint(z)
    \/ ClearMembers(z) \/ ClearComms(z) \/ ClearEntities(z)
    \/ UpsertCommunity(z) \/ InsertMembers(z) \/ AssignCommunities(z)
    \/ WriteVectors(z) \/ NoVectors(z) \/ FinalizeFails(z)

(* Only Finalize writes communities. *)
LEMMA FinSteps ==
    [Next]_vars => (\E z \in Finalizes : FinStep(z)) \/ UNCHANGED <<fin, lastFin, mixed, comms, members>>
BY Zenon DEF FinStep, Next, vars, Index, LookupEntities, UpsertEntities, InsertRelationships, GraphFails,
    LookupClaimed, InsertClaims, PruneOne, ListDocuments, tables

(* Four statements write entities. *)
LEMMA EntitySteps ==
    [Next]_vars =>
        \/ \E f \in Files : UpsertEntities(f)
        \/ \E z \in Finalizes : ClearEntities(z) \/ AssignCommunities(z) \/ WriteVectors(z)
        \/ UNCHANGED <<entities, stale>>
BY Zenon DEF Next, vars, Index, LookupEntities, InsertRelationships, GraphFails,
    LookupClaimed, InsertClaims, PruneOne, LoadEntities, LoadRelationships, CheckFingerprint, ClearMembers,
    ClearComms, UpsertCommunity, InsertMembers, NoVectors, FinalizeFails, ListDocuments, tables

-----------------------------------------------------------------------------
(* What the four statements that write entities leave behind. *)

(* The rows an extraction writes back, and the rows it inserts.            *)
LEMMA UpsertEffect ==
    ASSUME BasicInv, NEW f \in Files, UpsertEntities(f)
    PROVE  LET g == graph[f]
               fresh == NewNames(f)
           IN  /\ fresh \in Seq(NormsOf(g.answer))
               /\ \A n \in NormsOf(g.answer) :
                      g.id[n] = NoRow <=> \E k \in 1 .. Len(fresh) : fresh[k] = n
               /\ Rows(entities') /\ Len(entities') = Len(entities) + Len(fresh)
               /\ \A i \in 1 .. Len(entities) :
                      \/ entities'[i] = entities[i]
                      \/ \E n \in Longer(f) :
                            /\ n \in NormsOf(g.answer) /\ g.id[n] = i
                            /\ entities'[i] =
                                  Row(g.copy[n].name, FirstOf(g.answer, n).desc, g.copy[n].comm, g.copy[n].rank, g.copy[n].by)
                            /\ FirstOf(g.answer, n).desc > g.copy[n].desc
               /\ \A k \in 1 .. Len(fresh) : entities'[Len(entities) + k] = NewRow(f, fresh[k])
<1> DEFINE g == graph[f]
           fresh == NewNames(f)
           Missing == {n \in NormsOf(g.answer) : g.id[n] = NoRow}
           Added == [k \in DOMAIN fresh |-> NewRow(f, fresh[k])]
<1>1. g.pc = "looked" /\ entities' = Rewritten(f) \o Added
  BY DEF UpsertEntities
<1>2. g.answer \in Answers /\ Looked(g, entities)
  BY <1>1 DEF BasicInv, GraphOK
<1>3. Rows(entities) /\ DOMAIN entities = 1 .. Len(entities) /\ Len(entities) \in Nat
  BY DEF BasicInv, Rows
<1>4. /\ fresh \in Seq(Missing)
      /\ \A e \in Missing : \E k \in 1 .. Len(fresh) : fresh[k] = e
  <2>1. IsFiniteSet(Missing)
    BY <1>2, NormsFinite, FS_Subset
  <2>2. fresh = SetToSeq(Missing)
    BY DEF NewNames
  <2> HIDE DEF Missing, fresh
  <2> QED
    BY <2>1, <2>2, SetToSeqLists
<1>5. /\ fresh \in Seq(NormsOf(g.answer)) /\ Len(fresh) \in Nat /\ DOMAIN fresh = 1 .. Len(fresh)
      /\ \A k \in 1 .. Len(fresh) : fresh[k] \in Missing
  <2>1. Missing \subseteq NormsOf(g.answer)
    OBVIOUS
  <2> HIDE DEF Missing, fresh
  <2>2. \A k \in 1 .. Len(fresh) : fresh[k] \in Missing
    BY <1>4, ElementOfSeq
  <2> QED
    BY <1>4, <2>1, <2>2, SeqMonotonic, LenProperties
<1>6. \A n \in NormsOf(g.answer) : g.id[n] = NoRow <=> \E k \in 1 .. Len(fresh) : fresh[k] = n
  <2> HIDE DEF fresh, g
  <2> QED
    BY <1>4, <1>5
<1>7. ASSUME NEW n \in Longer(f)
      PROVE  /\ n \in NormsOf(g.answer) /\ g.id[n] # NoRow /\ IsRow(g.copy[n])
             /\ FirstOf(g.answer, n).desc \in Nat
             /\ FirstOf(g.answer, n).desc > g.copy[n].desc
  <2>1. n \in DOMAIN g.copy /\ FirstOf(g.answer, n).desc > g.copy[n].desc
    BY DEF Longer
  <2>2. n \in NormsOf(g.answer) /\ g.id[n] # NoRow
    BY <2>1, <1>2 DEF Looked
  <2> QED
    BY <2>1, <2>2, <1>2, FirstOfHasIt DEF Looked
<1>8. \A i \in 1 .. Len(entities) :
          \/ Rewritten(f)[i] = entities[i]
          \/ \E n \in Longer(f) :
                /\ g.id[n] = i
                /\ Rewritten(f)[i] =
                      Row(g.copy[n].name, FirstOf(g.answer, n).desc, g.copy[n].comm, g.copy[n].rank, g.copy[n].by)
  <2> TAKE i \in 1 .. Len(entities)
  <2>1. CASE \E n \in Longer(f) : g.id[n] = i
    <3> DEFINE n == CHOOSE n \in Longer(f) : graph[f].id[n] = i
    <3>1. n \in Longer(f) /\ g.id[n] = i
      BY <2>1
    <3>2. Rewritten(f)[i] = [g.copy[n] EXCEPT !.desc = FirstOf(g.answer, n).desc]
      BY <1>3, <2>1 DEF Rewritten
    <3> HIDE DEF n
    <3>3. [g.copy[n] EXCEPT !.desc = FirstOf(g.answer, n).desc]
             = Row(g.copy[n].name, FirstOf(g.answer, n).desc, g.copy[n].comm, g.copy[n].rank, g.copy[n].by)
      BY <3>1, <1>7, RowWritten
    <3> QED
      BY <3>1, <3>2, <3>3
  <2>2. CASE ~ \E n \in Longer(f) : g.id[n] = i
    BY <1>3, <2>2 DEF Rewritten
  <2> QED
    BY <2>1, <2>2
<1>9. Rows(Rewritten(f)) /\ Len(Rewritten(f)) = Len(entities)
  <2>1. \A i \in 1 .. Len(entities) : IsRow(Rewritten(f)[i])
    <3> TAKE i \in 1 .. Len(entities)
    <3>1. CASE Rewritten(f)[i] = entities[i]
      BY <1>3, <3>1 DEF Rows
    <3>2. ASSUME NEW n \in Longer(f),
                 Rewritten(f)[i] =
                      Row(g.copy[n].name, FirstOf(g.answer, n).desc, g.copy[n].comm, g.copy[n].rank, g.copy[n].by)
          PROVE  IsRow(Rewritten(f)[i])
      <4>1. g.copy[n].name \in Names /\ g.copy[n].by \in Files /\ FirstOf(g.answer, n).desc \in Nat
        BY <1>7 DEF IsRow
      <4> QED
        BY <3>2, <4>1, RowMade, Zenon
    <3> QED
      BY <1>8, <3>1, <3>2
  <2>2. Rewritten(f) = [i \in DOMAIN entities |-> Rewritten(f)[i]]
    BY DEF Rewritten
  <2> QED
    BY <1>3, <2>1, <2>2, RowsInPlace
<1>10. Rows(Added) /\ Len(Added) = Len(fresh)
  <2>1. \A k \in 1 .. Len(fresh) : IsRow(NewRow(f, fresh[k]))
    <3> TAKE k \in 1 .. Len(fresh)
    <3>1. FirstOf(g.answer, fresh[k]).name \in Names /\ FirstOf(g.answer, fresh[k]).desc \in Nat
      BY <1>2, <1>5, FirstOfHasIt
    <3> QED
      BY <3>1, RowMade DEF NewRow, Row
  <2>2. Added = [k \in 1 .. Len(fresh) |-> Added[k]] /\ DOMAIN Added = 1 .. Len(fresh)
    BY <1>5
  <2>3. \A k \in 1 .. Len(fresh) : Added[k] = NewRow(f, fresh[k])
    BY <1>5
  <2> HIDE DEF Added, fresh
  <2>4. Added \in Seq({Added[k] : k \in 1 .. Len(fresh)}) /\ Len(Added) = Len(fresh)
    BY <1>5, <2>2
  <2> QED
    BY <1>5, <2>1, <2>2, <2>3, <2>4 DEF Rows
<1>11. /\ Rows(entities') /\ Len(entities') = Len(entities) + Len(fresh)
       /\ \A i \in 1 .. Len(entities) : entities'[i] = Rewritten(f)[i]
       /\ \A k \in 1 .. Len(fresh) : entities'[Len(entities) + k] = Added[k]
  <2> DEFINE s == Rewritten(f)
             both == s \o Added
  <2> HIDE DEF Added, fresh, s
  <2>1. /\ Rows(both) /\ Len(both) = Len(s) + Len(Added)
        /\ \A i \in 1 .. Len(s) : both[i] = s[i]
        /\ \A k \in 1 .. Len(Added) : both[Len(s) + k] = Added[k]
    BY <1>9, <1>10, RowsAppended DEF s
  <2>2. entities' = both /\ Len(s) = Len(entities) /\ Len(Added) = Len(fresh)
    BY <1>1, <1>9, <1>10 DEF s
  <2> HIDE DEF both
  <2> QED
    BY <2>1, <2>2, Zenon DEF s
<1>12. \A k \in 1 .. Len(fresh) : Added[k] = NewRow(f, fresh[k])
  BY <1>5
<1> HIDE DEF fresh, Added, Missing
<1>13. \A k \in 1 .. Len(fresh) : entities'[Len(entities) + k] = NewRow(f, fresh[k])
  BY <1>11, <1>12
<1>14. \A i \in 1 .. Len(entities) :
          \/ entities'[i] = entities[i]
          \/ \E n \in Longer(f) :
                /\ n \in NormsOf(g.answer) /\ g.id[n] = i
                /\ entities'[i] =
                      Row(g.copy[n].name, FirstOf(g.answer, n).desc, g.copy[n].comm, g.copy[n].rank, g.copy[n].by)
                /\ FirstOf(g.answer, n).desc > g.copy[n].desc
  BY <1>7, <1>8, <1>11
<1> QED
  BY <1>5, <1>6, <1>11, <1>13, <1>14 DEF fresh

(* No name is inserted twice by one call. *)
LEMMA UpsertOnce ==
    ASSUME BasicInv, NEW f \in Files, UpsertEntities(f)
    PROVE  \A j, k \in 1 .. Len(NewNames(f)) : NewNames(f)[j] = NewNames(f)[k] => j = k
<1> DEFINE Missing == {n \in NormsOf(graph[f].answer) : graph[f].id[n] = NoRow}
<1>1. graph[f].answer \in Answers
  BY DEF UpsertEntities, BasicInv, GraphOK
<1>2. IsFiniteSet(Missing)
  BY <1>1, NormsFinite, FS_Subset
<1>3. NewNames(f) = SetToSeq(Missing)
  BY DEF NewNames
<1> HIDE DEF Missing
<1> QED
  BY <1>2, <1>3, SetToSeqLists

(* ClearEntities writes one column of every row.                           *)
LEMMA ClearEffect ==
    ASSUME BasicInv, NEW z \in Finalizes, ClearEntities(z)
    PROVE  /\ Rows(entities') /\ Len(entities') = Len(entities)
           /\ \A i \in 1 .. Len(entities) :
                 entities'[i] = Row(entities[i].name, entities[i].desc, NoComm, entities[i].rank, entities[i].by)
<1>1. Rows(entities) /\ DOMAIN entities = 1 .. Len(entities)
  BY DEF BasicInv, Rows
<1>2. entities' = [i \in DOMAIN entities |-> [entities[i] EXCEPT !.comm = NoComm]]
  BY DEF ClearEntities
<1>3. ASSUME NEW i \in 1 .. Len(entities)
      PROVE  /\ entities'[i] = Row(entities[i].name, entities[i].desc, NoComm, entities[i].rank, entities[i].by)
             /\ IsRow(entities'[i])
  <2>1. IsRow(entities[i])
    BY <1>1 DEF Rows
  <2>2. entities'[i] = [entities[i] EXCEPT !.comm = NoComm]
    BY <1>1, <1>2
  <2>3. entities'[i] = Row(entities[i].name, entities[i].desc, NoComm, entities[i].rank, entities[i].by)
    BY <2>1, <2>2, RowWritten
  <2> QED
    BY <2>1, <2>3, RowMade DEF IsRow
<1>4. entities' = [i \in DOMAIN entities |-> entities'[i]]
  BY <1>2
<1> QED
  BY <1>1, <1>3, <1>4, RowsInPlace

(* AssignCommunities writes two columns of every row. *)
LEMMA AssignEffect ==
    ASSUME BasicInv, NEW z \in Finalizes, AssignCommunities(z)
    PROVE  /\ Rows(entities') /\ Len(entities') = Len(entities)
           /\ \A i \in 1 .. Len(entities) :
                 entities'[i] = Assigned(entities[i], CommunityOf(z, i), Degree(i, fin[z].rels))
<1>1. Rows(entities) /\ DOMAIN entities = 1 .. Len(entities)
  BY DEF BasicInv, Rows
<1>2. entities' = [i \in DOMAIN entities |-> Assigned(entities[i], CommunityOf(z, i), Degree(i, fin[z].rels))]
  BY DEF AssignCommunities
<1>3. ASSUME NEW i \in 1 .. Len(entities) PROVE IsRow(entities'[i])
  <2>1. IsRow(entities[i])
    BY <1>1 DEF Rows
  <2>2. ASSUME NEW c, NEW d PROVE IsRow(Assigned(entities[i], c, d))
    <3>1. /\ Assigned(entities[i], c, d) = Row(entities[i].name, entities[i].desc,
                 IF c = NoComm THEN entities[i].comm ELSE c, IF d = 0 THEN entities[i].rank ELSE d, entities[i].by)
      BY DEF Assigned, Row
    <3> QED
      BY <2>1, <3>1, RowMade DEF IsRow
  <2> QED
    BY <1>1, <1>2, <2>2
<1>4. entities' = [i \in DOMAIN entities |-> entities'[i]]
  BY <1>2
<1> QED
  BY <1>1, <1>2, <1>3, <1>4, RowsInPlace

(* WriteVectors puts rows back as they were loaded. *)
LEMMA VectorsEffect ==
    ASSUME BasicInv, NEW z \in Finalizes, WriteVectors(z)
    PROVE  /\ Rows(entities') /\ Len(entities') = Len(entities)
           /\ \A i \in 1 .. Len(entities) :
                 \/ entities'[i] = entities[i]
                 \/ /\ i \in 1 .. Len(fin[z].rows) /\ fin[z].rows[i].desc > 0
                    /\ entities'[i] = fin[z].rows[i]
<1> DEFINE rows == fin[z].rows
<1>1. Rows(entities) /\ DOMAIN entities = 1 .. Len(entities)
  BY DEF BasicInv, Rows
<1>2. fin[z].pc = "embed" /\ FinOK(fin[z], entities)
  BY DEF WriteVectors, BasicInv
<1>3. Rows(rows) /\ DOMAIN rows = 1 .. Len(rows)
  BY <1>2 DEF FinOK, Loads, Rows
<1>4. entities' = [i \in DOMAIN entities |->
                      IF i \in DOMAIN rows /\ rows[i].desc > 0 THEN rows[i] ELSE entities[i]]
  BY DEF WriteVectors
<1> HIDE DEF rows
<1>5. \A i \in 1 .. Len(entities) :
         \/ entities'[i] = entities[i]
         \/ i \in 1 .. Len(rows) /\ rows[i].desc > 0 /\ entities'[i] = rows[i]
  BY <1>1, <1>3, <1>4
<1>6. \A i \in 1 .. Len(entities) : IsRow(entities'[i])
  BY <1>1, <1>3, <1>5 DEF Rows
<1>7. entities' = [i \in DOMAIN entities |-> entities'[i]]
  BY <1>4
<1> QED
  BY <1>1, <1>5, <1>6, <1>7, RowsInPlace DEF rows

(* No entity is ever deleted, renamed or moved to another position.        *)
LEMMA EntitiesGrow == BasicInv /\ [Next]_vars => Rows(entities') /\ Kept(entities, entities')
<1> SUFFICES ASSUME BasicInv, [Next]_vars PROVE Rows(entities') /\ Kept(entities, entities')
  OBVIOUS
<1>0. Rows(entities) /\ Len(entities) \in Nat
  BY DEF BasicInv, Rows
<1>1. ASSUME NEW f \in Files, UpsertEntities(f) PROVE Rows(entities') /\ Kept(entities, entities')
  <2> DEFINE g == graph[f]
             fresh == NewNames(f)
  <2>1. g.pc = "looked" /\ g.answer \in Answers /\ Looked(g, entities)
    BY <1>1 DEF UpsertEntities, BasicInv, GraphOK
  <2>2. /\ Rows(entities') /\ Len(entities') = Len(entities) + Len(fresh) /\ Len(fresh) \in Nat
        /\ \A i \in 1 .. Len(entities) :
               \/ entities'[i] = entities[i]
               \/ \E n \in NormsOf(g.answer) :
                      /\ n \in Longer(f) /\ g.id[n] = i
                      /\ entities'[i] =
                            Row(g.copy[n].name, FirstOf(g.answer, n).desc, g.copy[n].comm, g.copy[n].rank, g.copy[n].by)
    BY <1>1, UpsertEffect, LenProperties
  <2>3. ASSUME NEW i \in 1 .. Len(entities)
        PROVE  entities'[i].name = entities[i].name /\ entities'[i].by = entities[i].by
    <3>1. ASSUME NEW n \in NormsOf(g.answer), g.id[n] = i
          PROVE  g.copy[n].name = entities[i].name /\ g.copy[n].by = entities[i].by
      BY <1>0, <2>1, <3>1 DEF Looked, NoRow
    <3>2. CASE entities'[i] = entities[i]
      BY <3>2
    <3>3. ASSUME NEW n \in NormsOf(g.answer), g.id[n] = i,
                 entities'[i] =
                            Row(g.copy[n].name, FirstOf(g.answer, n).desc, g.copy[n].comm, g.copy[n].rank, g.copy[n].by)
          PROVE  entities'[i].name = g.copy[n].name /\ entities'[i].by = g.copy[n].by
      BY <3>3, RowFields
    <3> QED
      BY <2>2, <3>1, <3>2, <3>3
  <2> QED
    BY <1>0, <2>2, <2>3 DEF Kept
<1>2. ASSUME NEW z \in Finalizes, ClearEntities(z) PROVE Rows(entities') /\ Kept(entities, entities')
  <2>1. /\ Rows(entities') /\ Len(entities') = Len(entities)
        /\ \A i \in 1 .. Len(entities) :
              entities'[i] = Row(entities[i].name, entities[i].desc, NoComm, entities[i].rank, entities[i].by)
    BY <1>2, ClearEffect
  <2>2. \A i \in 1 .. Len(entities) : entities'[i].name = entities[i].name /\ entities'[i].by = entities[i].by
    BY <2>1, RowFields
  <2> QED
    BY <1>0, <2>1, <2>2 DEF Kept
<1>3. ASSUME NEW z \in Finalizes, AssignCommunities(z) PROVE Rows(entities') /\ Kept(entities, entities')
  <2>1. /\ Rows(entities') /\ Len(entities') = Len(entities)
        /\ \A i \in 1 .. Len(entities) :
              entities'[i] = Assigned(entities[i], CommunityOf(z, i), Degree(i, fin[z].rels))
    BY <1>3, AssignEffect
  <2>2. ASSUME NEW i \in 1 .. Len(entities)
        PROVE  entities'[i].name = entities[i].name /\ entities'[i].by = entities[i].by
    <3>1. PICK c, d : entities'[i] = Assigned(entities[i], c, d)
      BY <2>1
    <3>2. Assigned(entities[i], c, d).name = entities[i].name /\ Assigned(entities[i], c, d).by = entities[i].by
      BY DEF Assigned
    <3> QED
      BY <3>1, <3>2, Zenon
  <2> QED
    BY <1>0, <2>1, <2>2 DEF Kept
<1>4. ASSUME NEW z \in Finalizes, WriteVectors(z) PROVE Rows(entities') /\ Kept(entities, entities')
  <2>1. Rows(fin[z].rows) /\ Kept(fin[z].rows, entities)
    BY <1>4 DEF WriteVectors, BasicInv, FinOK, Loads
  <2> QED
    BY <1>0, <1>4, <2>1, VectorsEffect DEF Kept
<1>5. CASE UNCHANGED entities
  BY <1>0, <1>5 DEF Kept
<1> QED
  BY <1>1, <1>2, <1>3, <1>4, <1>5, EntitySteps

-----------------------------------------------------------------------------
(* The invariant is kept. *)

(* The calls stay functions of what they are about. *)
LEMMA NextFunctions == BasicInv /\ [Next]_vars => Functions'
<1> SUFFICES ASSUME BasicInv, [Next]_vars PROVE Functions'
  OBVIOUS
<1> USE DEF BasicInv, Functions
<1>1. graph' = [f \in Files |-> graph'[f]]
  <2>1. ASSUME NEW f \in Files, GraphStep(f) PROVE \E g : graph' = [graph EXCEPT ![f] = g]
    BY <2>1 DEF GraphStep, Index, LookupEntities, UpsertEntities, InsertRelationships, GraphFails
  <2> QED
    BY <2>1, GraphSteps
<1>2. claiming' = [f \in Files |-> claiming'[f]]
  <2>1. ASSUME NEW f \in Files, ClaimStep(f) PROVE \E g : claiming' = [claiming EXCEPT ![f] = g]
    BY <2>1 DEF ClaimStep, Index, LookupClaimed, InsertClaims
  <2> QED
    BY <2>1, ClaimSteps
<1>3. fin' = [z \in Finalizes |-> fin'[z]]
  <2>1. ASSUME NEW z \in Finalizes, FinStep(z) PROVE \E x : fin' = [fin EXCEPT ![z] = x]
    BY <2>1 DEF FinStep, LoadEntities, LoadRelationships, CheckFingerprint, ClearMembers, ClearComms,
       ClearEntities, UpsertCommunity, InsertMembers, AssignCommunities, WriteVectors, NoVectors, FinalizeFails
  <2> QED
    BY <2>1, FinSteps
<1>4. deleted' = [f \in Files |-> deleted'[f]]
  <2>1. (\E f \in Files : PruneOne(f)) \/ UNCHANGED deleted
    BY Zenon DEF Next, vars, Index, LookupEntities, UpsertEntities, InsertRelationships, GraphFails,
       LookupClaimed, InsertClaims, LoadEntities, LoadRelationships, CheckFingerprint, ClearMembers,
       ClearComms, ClearEntities, UpsertCommunity, InsertMembers, AssignCommunities, WriteVectors, NoVectors,
       FinalizeFails, ListDocuments
  <2> QED
    BY <2>1 DEF PruneOne
<1> QED
  BY <1>1, <1>2, <1>3, <1>4

(* An extraction holds the rows of its names. *)
LEMMA LookupHolds ==
    ASSUME BasicInv, NEW f \in Files, LookupEntities(f)
    PROVE  GraphOK(graph'[f], entities)
<1> DEFINE a == graph[f].answer
<1>1. a \in Answers
  BY DEF LookupEntities, BasicInv, GraphOK
<1>2. Rows(entities) /\ DOMAIN entities = 1 .. Len(entities) /\ Len(entities) \in Nat
  BY DEF BasicInv, Rows
<1>3. PICK row \in [NormsOf(a) -> {NoRow} \cup DOMAIN entities] :
          /\ \A n \in NormsOf(a) : row[n] \in Found(FirstOf(a, n).name)
          /\ graph' = [graph EXCEPT ![f] =
                [pc |-> "looked", answer |-> a, id |-> row,
                 copy |-> [n \in {k \in NormsOf(a) : row[k] # NoRow} |-> entities[row[n]]]]]
  BY DEF LookupEntities
<1> DEFINE copy == [n \in {k \in NormsOf(a) : row[k] # NoRow} |-> entities[row[n]]]
           g == [pc |-> "looked", answer |-> a, id |-> row, copy |-> copy]
<1>4. graph'[f] = g
  BY <1>3 DEF BasicInv, Functions
<1>5. \A n \in NormsOf(a) : row[n] # NoRow =>
          row[n] \in 1 .. Len(entities) /\ entities[row[n]].name = FirstOf(a, n).name
  BY <1>2, <1>3 DEF Found, RowsNamed
<1>6. row \in [NormsOf(a) -> 0 .. Len(entities)]
  BY <1>2, <1>3 DEF NoRow
<1>7. \A n \in NormsOf(a) : row[n] # NoRow => copy[n] = entities[row[n]] /\ IsRow(copy[n])
  BY <1>2, <1>5 DEF Rows
<1>8. DOMAIN copy = {n \in NormsOf(a) : row[n] # NoRow}
  OBVIOUS
<1>9. /\ g.pc = "looked" /\ g.answer = a /\ g.id = row /\ g.copy = copy
      /\ g = [pc |-> "looked", answer |-> g.answer, id |-> g.id, copy |-> g.copy]
  OBVIOUS
<1> HIDE DEF a, copy, g
<1>10. Looked(g, entities)
  BY <1>5, <1>6, <1>7, <1>8, <1>9 DEF Looked
<1> QED
  BY <1>1, <1>4, <1>9, <1>10 DEF GraphOK

(* After its insert every name has a row of its normalised spelling. *)
LEMMA UpsertHolds ==
    ASSUME BasicInv, NEW f \in Files, UpsertEntities(f)
    PROVE  GraphOK(graph'[f], entities')
<1> DEFINE g == graph[f]
           a == g.answer
           fresh == NewNames(f)
           Place(n) == CHOOSE k \in DOMAIN fresh : fresh[k] = n
           id == [n \in DOMAIN g.id |-> IF g.id[n] # NoRow THEN g.id[n] ELSE Len(entities) + Place(n)]
           h == [pc |-> "upserted", answer |-> a, id |-> id]
<1>1. graph'[f] = h
  BY DEF UpsertEntities, BasicInv, Functions
<1>2. g.pc = "looked" /\ a \in Answers /\ Looked(g, entities)
  BY DEF UpsertEntities, BasicInv, GraphOK
<1>3. Rows(entities) /\ Len(entities) \in Nat
  BY DEF BasicInv, Rows
<1>4. /\ fresh \in Seq(NormsOf(a))
      /\ \A n \in NormsOf(a) : g.id[n] = NoRow <=> \E k \in 1 .. Len(fresh) : fresh[k] = n
      /\ Len(entities') = Len(entities) + Len(fresh)
      /\ \A k \in 1 .. Len(fresh) : entities'[Len(entities) + k] = NewRow(f, fresh[k])
  BY UpsertEffect
<1>5. Len(fresh) \in Nat /\ DOMAIN fresh = 1 .. Len(fresh)
  BY <1>4, LenProperties
<1>6. DOMAIN g.id = NormsOf(a) /\ g.id \in [NormsOf(a) -> 0 .. Len(entities)]
  BY <1>2 DEF Looked
<1>7. Kept(entities, entities')
  BY EntitiesGrow DEF Next
<1>8. ASSUME NEW n \in NormsOf(a)
      PROVE  id[n] \in 1 .. Len(entities') /\ Norm[entities'[id[n]].name] = n
  <2>1. CASE g.id[n] # NoRow
    <3>1. id[n] = g.id[n] /\ g.id[n] \in 1 .. Len(entities)
      BY <1>3, <1>6, <2>1 DEF NoRow
    <3>2. entities[g.id[n]].name = FirstOf(a, n).name
      BY <1>2, <2>1 DEF Looked
    <3>3. entities'[g.id[n]].name = entities[g.id[n]].name
      BY <1>7, <3>1 DEF Kept
    <3>4. Norm[FirstOf(a, n).name] = n
      BY <1>2, FirstOfHasIt
    <3>5. g.id[n] \in 1 .. Len(entities')
      BY <1>3, <1>4, <1>5, <3>1
    <3> QED
      BY <3>1, <3>2, <3>3, <3>4, <3>5
  <2>2. CASE g.id[n] = NoRow
    <3>1. Place(n) \in 1 .. Len(fresh) /\ fresh[Place(n)] = n
      BY <1>4, <1>5, <2>2
    <3>2. id[n] = Len(entities) + Place(n)
      BY <1>6, <2>2
    <3>3. entities'[Len(entities) + Place(n)] = NewRow(f, n)
      BY <1>4, <3>1
    <3>4. NewRow(f, n).name = FirstOf(a, n).name
      BY DEF NewRow
    <3>5. Norm[FirstOf(a, n).name] = n
      BY <1>2, FirstOfHasIt
    <3> HIDE DEF Place, fresh, id
    <3>6. id[n] \in 1 .. Len(entities')
      BY <1>3, <1>4, <1>5, <3>1, <3>2
    <3> QED
      BY <3>2, <3>3, <3>4, <3>5, <3>6
  <2> QED
    BY <2>1, <2>2
<1>9. h.pc = "upserted" /\ h.answer = a /\ h.id = id /\ h = [pc |-> "upserted", answer |-> h.answer, id |-> h.id]
  OBVIOUS
<1>10. DOMAIN id = NormsOf(a) /\ id = [n \in NormsOf(a) |-> id[n]]
  BY <1>6
<1> HIDE DEF id, h, g, fresh
<1>11. Ids(id, a, entities')
  BY <1>8, <1>10 DEF Ids
<1> QED
  BY <1>1, <1>2, <1>9, <1>11 DEF GraphOK

(* Each step keeps the records of the extractions. *)
LEMMA NextGraph == BasicInv /\ [Next]_vars => \A f \in Files : GraphOK(graph'[f], entities')
<1> SUFFICES ASSUME BasicInv, [Next]_vars, NEW f \in Files PROVE GraphOK(graph'[f], entities')
  OBVIOUS
<1>1. Rows(entities') /\ Kept(entities, entities') /\ Rows(entities)
  BY EntitiesGrow DEF BasicInv
<1>2. GraphOK(graph[f], entities) /\ graph = [e \in Files |-> graph[e]]
  BY DEF BasicInv, Functions
<1>3. GraphOK(graph'[f], entities) => GraphOK(graph'[f], entities')
  BY <1>1, CallsGrow
<1>4. CASE Index(f)
  <2>1. PICK a \in Answers :
            graph'[f] = [pc |-> IF a.ents = <<>> THEN "ok" ELSE "ask", answer |-> a]
    BY <1>2, <1>4 DEF Index
  <2>2. CASE a.ents = <<>>
    BY <2>1, <2>2 DEF GraphOK
  <2>3. CASE a.ents # <<>>
    <3>1. graph'[f] = [pc |-> "ask", answer |-> a]
      BY <2>1, <2>3
    <3> QED
      BY <3>1 DEF GraphOK
  <2> QED
    BY <2>2, <2>3
<1>5. CASE LookupEntities(f)
  BY <1>3, <1>5, LookupHolds
<1>6. CASE UpsertEntities(f)
  BY <1>6, UpsertHolds
<1>7. CASE InsertRelationships(f)
  <2>1. graph[f].pc = "upserted" /\ graph[f].answer \in Answers
        /\ graph[f] = [pc |-> "upserted", answer |-> graph[f].answer, id |-> graph[f].id]
    BY <1>2, <1>7 DEF InsertRelationships, GraphOK
  <2>2. PICK pc \in {"ok", "failed"} : graph'[f] = [graph[f] EXCEPT !.pc = pc]
    BY <1>2, <1>7 DEF InsertRelationships
  <2>3. graph'[f].pc = pc /\ graph'[f].answer = graph[f].answer
    BY <2>1, <2>2
  <2> QED
    BY <2>1, <2>2, <2>3 DEF GraphOK
<1>8. CASE GraphFails(f)
  <2>1. graph'[f] = [graph[f] EXCEPT !.pc = "failed"] /\ graph[f].pc \in {"ask", "looked", "upserted"}
    BY <1>2, <1>8 DEF GraphFails
  <2>2. "pc" \in DOMAIN graph[f]
    BY <1>2, <2>1 DEF GraphOK
  <2>3. graph'[f].pc = "failed"
    BY <2>1, <2>2
  <2> QED
    BY <2>3 DEF GraphOK
<1>9. CASE ~GraphStep(f)
  <2>1. ASSUME NEW e \in Files, e # f, GraphStep(e) PROVE graph'[f] = graph[f]
    BY <1>2, <2>1 DEF GraphStep, Index, LookupEntities, UpsertEntities, InsertRelationships, GraphFails
  <2>2. graph'[f] = graph[f]
    BY <1>9, <2>1, GraphSteps
  <2> QED
    BY <1>2, <1>3, <2>2
<1> QED
  BY <1>4, <1>5, <1>6, <1>7, <1>8, <1>9 DEF GraphStep

(* And those of the claims. *)
LEMMA NextClaim == BasicInv /\ [Next]_vars => \A f \in Files : ClaimOK(claiming'[f], entities')
<1> SUFFICES ASSUME BasicInv, [Next]_vars, NEW f \in Files PROVE ClaimOK(claiming'[f], entities')
  OBVIOUS
<1>1. Rows(entities') /\ Kept(entities, entities') /\ Rows(entities) /\ DOMAIN entities = 1 .. Len(entities)
  BY EntitiesGrow DEF BasicInv, Rows
<1>2. ClaimOK(claiming[f], entities) /\ claiming = [e \in Files |-> claiming[e]]
  BY DEF BasicInv, Functions
<1>3. ClaimOK(claiming'[f], entities) => ClaimOK(claiming'[f], entities')
  BY <1>1, CallsGrow
<1>4. CASE Index(f)
  <2>1. PICK a \in Answers :
            claiming'[f] = [pc |-> IF a.claims = {} THEN "ok" ELSE "ask", answer |-> a]
    BY <1>2, <1>4 DEF Index
  <2>2. CASE a.claims = {}
    BY <2>1, <2>2 DEF ClaimOK
  <2>3. CASE a.claims # {}
    <3>1. claiming'[f] = [pc |-> "ask", answer |-> a]
      BY <2>1, <2>3
    <3> QED
      BY <3>1 DEF ClaimOK
  <2> QED
    BY <2>2, <2>3
<1>5. CASE LookupClaimed(f)
  <2> DEFINE a == claiming[f].answer
  <2>1. a \in Answers
    BY <1>2, <1>5 DEF LookupClaimed, ClaimOK
  <2>2. PICK row \in [a.claims -> {NoRow} \cup DOMAIN entities] :
            claiming' = [claiming EXCEPT ![f] = [pc |-> "looked", answer |-> a, id |-> row]]
    BY <1>5 DEF LookupClaimed
  <2>3. claiming'[f] = [pc |-> "looked", answer |-> a, id |-> row]
    BY <1>2, <2>2
  <2>4. row \in [a.claims -> 0 .. Len(entities)]
    BY <1>1, <2>2 DEF NoRow, Rows
  <2> HIDE DEF a
  <2>5. ClaimOK(claiming'[f], entities)
    BY <2>1, <2>3, <2>4 DEF ClaimOK
  <2> QED
    BY <1>3, <2>5
<1>6. CASE InsertClaims(f)
  <2>1. PICK pc \in {"ok", "failed"} : claiming'[f] = [claiming[f] EXCEPT !.pc = pc]
    BY <1>2, <1>6 DEF InsertClaims
  <2>2. "pc" \in DOMAIN claiming[f]
    BY <1>2, <1>6 DEF InsertClaims, ClaimOK
  <2>3. claiming'[f].pc \in {"ok", "failed"}
    BY <2>1, <2>2
  <2> QED
    BY <2>3 DEF ClaimOK
<1>7. CASE ~ClaimStep(f)
  <2>1. ASSUME NEW e \in Files, e # f, ClaimStep(e) PROVE claiming'[f] = claiming[f]
    BY <1>2, <2>1 DEF ClaimStep, Index, LookupClaimed, InsertClaims
  <2>2. claiming'[f] = claiming[f]
    BY <1>7, <2>1, ClaimSteps
  <2> QED
    BY <1>2, <1>3, <2>2
<1> QED
  BY <1>4, <1>5, <1>6, <1>7 DEF ClaimStep

(* A call of Finalize goes on and keeps what it has loaded. *)
LEMMA ThreeGoesOn ==
    ASSUME NEW x, x = [pc |-> x.pc, rows |-> x.rows, rels |-> x.rels],
           NEW p, NEW y, y = [x EXCEPT !.pc = p]
    PROVE  y = [pc |-> y.pc, rows |-> y.rows, rels |-> y.rels] /\ y.pc = p /\ y.rows = x.rows /\ y.rels = x.rels
<1>1. y = [pc |-> p, rows |-> x.rows, rels |-> x.rels]
  OBVIOUS
<1> QED
  BY <1>1

(* The same once it has its partition. *)
LEMMA FiveGoesOn ==
    ASSUME NEW p, NEW r, NEW s, NEW b, NEW t, NEW y,
           y = [pc |-> p, rows |-> r, rels |-> s, blocks |-> b, todo |-> t]
    PROVE  /\ y = [pc |-> y.pc, rows |-> y.rows, rels |-> y.rels, blocks |-> y.blocks, todo |-> y.todo]
           /\ y.pc = p /\ y.rows = r /\ y.rels = s /\ y.blocks = b /\ y.todo = t
OBVIOUS

(* One step of a call of Finalize keeps the shape of its record. *)
LEMMA FinHolds ==
    ASSUME BasicInv, NEW z \in Finalizes, FinStep(z)
    PROVE  FinOK(fin'[z], entities) \/ FinOK(fin'[z], entities')
<1> DEFINE x == fin[z]
           y == fin'[z]
<1>1. Rows(entities) /\ DOMAIN entities = 1 .. Len(entities) /\ Len(entities) \in Nat
  BY DEF BasicInv, Rows
<1>2. FinOK(x, entities) /\ fin = [e \in Finalizes |-> fin[e]]
  BY DEF BasicInv, Functions
<1>3. x.pc \in {"rels", "clear", "clear2", "clear3", "write", "man", "assign", "embed"} => "pc" \in DOMAIN x
  BY <1>2 DEF FinOK
<1>4. CASE LoadEntities(z)
  <2>1. y = IF entities = <<>> THEN [pc |-> "failed"] ELSE [pc |-> "rels", rows |-> entities]
    BY <1>2, <1>4 DEF LoadEntities
  <2>2. Loads([pc |-> "rels", rows |-> entities], entities)
    BY <1>1 DEF Loads, Kept
  <2> QED
    BY <2>1, <2>2 DEF FinOK, Loads
<1>5. CASE LoadRelationships(z)
  <2>1. x.pc = "rels" /\ y = [pc |-> "check", rows |-> x.rows, rels |-> rels]
    BY <1>2, <1>5 DEF LoadRelationships
  <2>2. Loads(x, entities)
    BY <1>2, <2>1 DEF FinOK
  <2>3. y.pc = "check" /\ y.rows = x.rows /\ y = [pc |-> y.pc, rows |-> y.rows, rels |-> y.rels]
    BY <2>1
  <2> QED
    BY <2>2, <2>3 DEF FinOK, Loads
<1>6. CASE CheckFingerprint(z) \/ ClearMembers(z) \/ ClearComms(z)
  <2>1. x.pc \in {"check", "clear", "clear2"}
    BY <1>6 DEF CheckFingerprint, ClearMembers, ClearComms
  <2>2. PICK p \in {"skipped", "clear", "clear2", "clear3"} : y = [x EXCEPT !.pc = p]
    BY <1>2, <1>6 DEF CheckFingerprint, ClearMembers, ClearComms
  <2>3. x = [pc |-> x.pc, rows |-> x.rows, rels |-> x.rels] /\ Loads(x, entities)
    BY <1>2, <2>1 DEF FinOK
  <2>4. y = [pc |-> y.pc, rows |-> y.rows, rels |-> y.rels] /\ y.pc = p /\ y.rows = x.rows
    BY <2>2, <2>3, ThreeGoesOn
  <2> QED
    BY <2>2, <2>3, <2>4 DEF FinOK, Loads
<1>7. CASE ClearEntities(z)
  <2>1. x.pc = "clear3" /\ Loads(x, entities) /\ DOMAIN x.rows = 1 .. Len(x.rows)
    BY <1>2, <1>7 DEF ClearEntities, FinOK, Loads, Rows
  <2>2. PICK of \in [DOMAIN x.rows -> DOMAIN x.rows] :
          LET Block(i) == {j \in DOMAIN of : of[j] = of[i]}
              blocks == {b \in {Block(i) : i \in DOMAIN of} : Cardinality(b) >= MinCommunitySize}
          IN  fin' = [fin EXCEPT ![z] =
                    [pc |-> IF blocks = {} THEN "ok" ELSE "write",
                     rows |-> x.rows, rels |-> x.rels, blocks |-> blocks, todo |-> blocks]]
    BY <1>2, <1>7 DEF ClearEntities
  <2> DEFINE Block(i) == {j \in DOMAIN of : of[j] = of[i]}
             blocks == {b \in {Block(i) : i \in DOMAIN of} : Cardinality(b) >= MinCommunitySize}
             p == IF blocks = {} THEN "ok" ELSE "write"
  <2>3. y = [pc |-> p, rows |-> x.rows, rels |-> x.rels, blocks |-> blocks, todo |-> blocks]
    BY <1>2, <2>2
  <2>4. \A b \in blocks : b \subseteq 1 .. Len(x.rows)
    BY <2>1, <2>2
  <2>5. p \in {"ok", "write"}
    OBVIOUS
  <2> HIDE DEF blocks, p, x, y
  <2>6. /\ y = [pc |-> y.pc, rows |-> y.rows, rels |-> y.rels, blocks |-> y.blocks, todo |-> y.todo]
        /\ y.pc = p /\ y.rows = x.rows /\ y.blocks = blocks /\ y.todo = blocks
    BY <2>3, FiveGoesOn
  <2>7. FinOK(y, entities)
    BY <2>1, <2>4, <2>5, <2>6 DEF FinOK, Loads, Blocks
  <2> QED
    BY <2>7 DEF y
<1>8. CASE UpsertCommunity(z)
  <2>1. x.pc = "write" /\ Loads(x, entities) /\ Blocks(x) /\ x.todo \subseteq x.blocks
    BY <1>2, <1>8 DEF UpsertCommunity, FinOK
  <2>2. PICK b \in x.todo :
            y = [pc |-> "man", rows |-> x.rows, rels |-> x.rels,
                 blocks |-> x.blocks, todo |-> x.todo, block |-> b]
    BY <1>2, <1>8 DEF UpsertCommunity
  <2>3. /\ y = [pc |-> y.pc, rows |-> y.rows, rels |-> y.rels, blocks |-> y.blocks, todo |-> y.todo, block |-> y.block]
        /\ y.pc = "man" /\ y.rows = x.rows /\ y.blocks = x.blocks /\ y.todo = x.todo /\ y.block = b
    BY <2>2
  <2> HIDE DEF x, y
  <2>4. FinOK(y, entities)
    BY <2>1, <2>2, <2>3 DEF FinOK, Loads, Blocks
  <2> QED
    BY <2>4 DEF y
<1>9. CASE InsertMembers(z)
  <2>1. x.pc = "man" /\ Loads(x, entities) /\ Blocks(x) /\ x.todo \subseteq x.blocks
    BY <1>2, <1>9 DEF InsertMembers, FinOK
  <2>2. CASE y = [x EXCEPT !.pc = "failed"]
    <3>1. y.pc = "failed"
      BY <1>3, <2>1, <2>2
    <3> QED
      BY <3>1 DEF FinOK
  <2>3. ASSUME NEW p \in {"assign", "write"},
               y = [pc |-> p, rows |-> x.rows, rels |-> x.rels, blocks |-> x.blocks, todo |-> x.todo \ {x.block}]
        PROVE  FinOK(y, entities)
    <3> HIDE DEF x, y
    <3>1. /\ y = [pc |-> y.pc, rows |-> y.rows, rels |-> y.rels, blocks |-> y.blocks, todo |-> y.todo]
          /\ y.pc = p /\ y.rows = x.rows /\ y.blocks = x.blocks /\ y.todo = x.todo \ {x.block}
      BY <2>3, FiveGoesOn
    <3> QED
      BY <2>1, <3>1 DEF FinOK, Loads, Blocks
  <2>4. \/ y = [x EXCEPT !.pc = "failed"]
        \/ \E p \in {"assign", "write"} :
              y = [pc |-> p, rows |-> x.rows, rels |-> x.rels, blocks |-> x.blocks, todo |-> x.todo \ {x.block}]
    BY <1>2, <1>9 DEF InsertMembers
  <2> QED
    BY <2>2, <2>3, <2>4
<1>10. CASE AssignCommunities(z) \/ WriteVectors(z) \/ NoVectors(z)
  <2>1. x.pc \in {"assign", "embed"}
    BY <1>10 DEF AssignCommunities, WriteVectors, NoVectors
  <2>2. PICK p \in {"embed", "ok"} : y = [x EXCEPT !.pc = p]
    BY <1>2, <1>10 DEF AssignCommunities, WriteVectors, NoVectors
  <2>3. /\ x = [pc |-> x.pc, rows |-> x.rows, rels |-> x.rels, blocks |-> x.blocks, todo |-> x.todo]
        /\ Loads(x, entities) /\ Blocks(x) /\ x.todo \subseteq x.blocks
    BY <1>2, <2>1 DEF FinOK
  <2>4. y = [pc |-> p, rows |-> x.rows, rels |-> x.rels, blocks |-> x.blocks, todo |-> x.todo]
    BY <2>2, <2>3
  <2> HIDE DEF x, y
  <2>5. /\ y = [pc |-> y.pc, rows |-> y.rows, rels |-> y.rels, blocks |-> y.blocks, todo |-> y.todo]
        /\ y.pc = p /\ y.rows = x.rows /\ y.blocks = x.blocks /\ y.todo = x.todo
    BY <2>4, FiveGoesOn
  <2>6. FinOK(y, entities)
    BY <2>2, <2>3, <2>5 DEF FinOK, Loads, Blocks
  <2> QED
    BY <2>6 DEF y
<1>11. CASE FinalizeFails(z)
  <2>1. y = [x EXCEPT !.pc = "failed"]
    BY <1>2, <1>11 DEF FinalizeFails
  <2>2. y.pc = "failed"
    BY <1>3, <1>11, <2>1 DEF FinalizeFails
  <2> QED
    BY <2>2 DEF FinOK
<1> QED
  BY <1>4, <1>5, <1>6, <1>7, <1>8, <1>9, <1>10, <1>11 DEF FinStep

(* And those of Finalize. *)
LEMMA NextFin == BasicInv /\ [Next]_vars => \A z \in Finalizes : FinOK(fin'[z], entities')
<1> SUFFICES ASSUME BasicInv, [Next]_vars, NEW z \in Finalizes PROVE FinOK(fin'[z], entities')
  OBVIOUS
<1>1. Rows(entities') /\ Kept(entities, entities') /\ Rows(entities)
  BY EntitiesGrow DEF BasicInv
<1>2. FinOK(fin[z], entities) /\ fin = [e \in Finalizes |-> fin[e]]
  BY DEF BasicInv, Functions
<1>3. FinOK(fin'[z], entities) => FinOK(fin'[z], entities')
  BY <1>1, CallsGrow
<1>4. CASE FinStep(z)
  BY <1>3, <1>4, FinHolds
<1>5. CASE ~FinStep(z)
  <2>1. ASSUME NEW e \in Finalizes, e # z, FinStep(e) PROVE fin'[z] = fin[z]
    BY <1>2, <2>1 DEF FinStep, LoadEntities, LoadRelationships, CheckFingerprint, ClearMembers, ClearComms,
       ClearEntities, UpsertCommunity, InsertMembers, AssignCommunities, WriteVectors, NoVectors, FinalizeFails
  <2>2. fin'[z] = fin[z]
    BY <1>5, <2>1, FinSteps
  <2> QED
    BY <1>2, <1>3, <2>2
<1> QED
  BY <1>4, <1>5

(* The tables and the histories keep their types. *)
LEMMA NextTypeOK == BasicInv /\ [Next]_vars => TypeOK'
<1> SUFFICES ASSUME BasicInv, [Next]_vars PROVE TypeOK'
  OBVIOUS
<1>1. /\ Rows(entities') /\ Kept(entities, entities') /\ Rows(entities)
      /\ DOMAIN entities = 1 .. Len(entities) /\ DOMAIN entities' = 1 .. Len(entities')
      /\ Len(entities) \in Nat /\ Len(entities') \in Nat
      /\ DOMAIN entities \subseteq DOMAIN entities'
  <2>1. Rows(entities') /\ Kept(entities, entities') /\ Rows(entities)
    BY EntitiesGrow DEF BasicInv
  <2> QED
    BY <2>1 DEF Rows, Kept
<1>2. \A i \in DOMAIN entities' :
          entities'[i].name \in Names /\ entities'[i].desc \in Nat /\ entities'[i].by \in Files
  BY <1>1 DEF Rows, IsRow
<1>3. docs' \subseteq Files /\ chunks' \subseteq Files
  <2>1. \/ \E f \in Files : Index(f) \/ PruneOne(f)
        \/ UNCHANGED <<docs, chunks>>
    BY Zenon DEF Next, vars, LookupEntities, UpsertEntities, InsertRelationships, GraphFails,
       LookupClaimed, InsertClaims, LoadEntities, LoadRelationships, CheckFingerprint, ClearMembers,
       ClearComms, ClearEntities, UpsertCommunity, InsertMembers, AssignCommunities, WriteVectors,
       NoVectors, FinalizeFails, ListDocuments, tables
  <2> QED
    BY <2>1 DEF BasicInv, TypeOK, Index, PruneOne
<1>4. \A r \in rels' : {r.src, r.tgt} \subseteq DOMAIN entities' /\ r.doc \in Files
  <2>1. (\E f \in Files : InsertRelationships(f)) \/ UNCHANGED rels
    BY Zenon DEF Next, vars, Index, LookupEntities, UpsertEntities, GraphFails,
       LookupClaimed, InsertClaims, LoadEntities, LoadRelationships, CheckFingerprint, ClearMembers,
       ClearComms, ClearEntities, UpsertCommunity, InsertMembers, AssignCommunities, WriteVectors,
       NoVectors, FinalizeFails, ListDocuments, PruneOne, tables
  <2>2. ASSUME NEW f \in Files, InsertRelationships(f), NEW r \in NewRels(f)
        PROVE  {r.src, r.tgt} \subseteq DOMAIN entities /\ r.doc \in Files
    <3>1. Ids(graph[f].id, graph[f].answer, entities)
      BY <2>2 DEF InsertRelationships, BasicInv, GraphOK
    <3>2. \A n \in DOMAIN graph[f].id : graph[f].id[n] \in DOMAIN entities
      BY <1>1, <3>1 DEF Ids
    <3>3. PICK p \in graph[f].answer.rels :
              /\ {Norm[p[1]], Norm[p[2]]} \subseteq DOMAIN graph[f].id
              /\ r = [src |-> graph[f].id[Norm[p[1]]], tgt |-> graph[f].id[Norm[p[2]]], doc |-> f]
      BY <2>2 DEF NewRels
    <3> QED
      BY <3>2, <3>3
  <2>3. \A r \in rels : {r.src, r.tgt} \subseteq DOMAIN entities /\ r.doc \in Files
    BY DEF BasicInv, TypeOK
  <2>4. \A f \in Files : InsertRelationships(f) => rels' \subseteq rels \cup NewRels(f)
    BY DEF InsertRelationships
  <2> QED
    BY <1>1, <2>1, <2>2, <2>3, <2>4
<1>5. \A c \in claims' : c.ent \in {NoRow} \cup DOMAIN entities' /\ c.doc \in Files
  <2>1. (\E f \in Files : InsertClaims(f)) \/ UNCHANGED claims
    BY Zenon DEF Next, vars, Index, LookupEntities, UpsertEntities, GraphFails,
       LookupClaimed, InsertRelationships, LoadEntities, LoadRelationships, CheckFingerprint, ClearMembers,
       ClearComms, ClearEntities, UpsertCommunity, InsertMembers, AssignCommunities, WriteVectors,
       NoVectors, FinalizeFails, ListDocuments, PruneOne, tables
  <2>2. ASSUME NEW f \in Files, InsertClaims(f), NEW c \in claims'
        PROVE  c.ent \in {NoRow} \cup DOMAIN entities /\ c.doc \in Files
    <3>1. claiming[f].id \in [claiming[f].answer.claims -> 0 .. Len(entities)]
      BY <2>2 DEF InsertClaims, BasicInv, ClaimOK
    <3>2. \A n \in DOMAIN claiming[f].id : claiming[f].id[n] \in {NoRow} \cup DOMAIN entities
      BY <1>1, <3>1 DEF NoRow
    <3>3. claims' \subseteq claims \cup {[ent |-> claiming[f].id[n], doc |-> f] : n \in DOMAIN claiming[f].id}
      BY <2>2 DEF InsertClaims
    <3>4. \A d \in claims : d.ent \in {NoRow} \cup DOMAIN entities /\ d.doc \in Files
      BY DEF BasicInv, TypeOK
    <3> QED
      BY <3>2, <3>3, <3>4
  <2> QED
    BY <1>1, <2>1, <2>2 DEF BasicInv, TypeOK
<1>6. stale' \subseteq Files \cup Finalizes
  <2>1. stale' \subseteq stale \cup Holding \cup Loaded
    BY EntitySteps DEF UpsertEntities, ClearEntities, AssignCommunities, WriteVectors, Overtake
  <2> QED
    BY <2>1 DEF BasicInv, TypeOK, Holding, Loaded
<1>7. mixed' \subseteq Finalizes
  <2>1. UNCHANGED mixed \/ \E z \in Finalizes : mixed' \subseteq mixed \cup Writing \cup {z}
    BY FinSteps DEF FinStep, LoadEntities, LoadRelationships, CheckFingerprint, ClearMembers, ClearComms,
       ClearEntities, UpsertCommunity, InsertMembers, AssignCommunities, WriteVectors, NoVectors, FinalizeFails
  <2> QED
    BY <2>1 DEF BasicInv, TypeOK, Writing
<1> QED
  BY <1>2, <1>3, <1>4, <1>5, <1>6, <1>7 DEF TypeOK

(* In every state each call has the record its program counter says, and    *)
(* holds positions of rows with the names it means.                         *)
THEOREM BasicInvariant == Spec => []BasicInv
<1>1. Init => BasicInv
  BY InitBasic
<1>2. BasicInv /\ [Next]_vars => BasicInv'
  <2> SUFFICES ASSUME BasicInv, [Next]_vars PROVE BasicInv'
    OBVIOUS
  <2>1. Rows(entities')
    BY EntitiesGrow
  <2>2. Functions'
    BY NextFunctions
  <2>3. /\ \A f \in Files : GraphOK(graph'[f], entities') /\ ClaimOK(claiming'[f], entities')
        /\ \A z \in Finalizes : FinOK(fin'[z], entities')
    BY NextGraph, NextClaim, NextFin
  <2>4. TypeOK'
    BY NextTypeOK
  <2> QED
    BY <2>1, <2>2, <2>3, <2>4 DEF BasicInv
<1> QED
  BY <1>1, <1>2, PTL DEF Spec

(* The tables hold only what their columns can: relationships and claims    *)
(* refer to entities that are there, whoever inserted them.                 *)
THEOREM TypeCorrect == Spec => []TypeOK
<1>1. BasicInv => TypeOK
  BY DEF BasicInv
<1> QED
  BY <1>1, BasicInvariant, PTL

-----------------------------------------------------------------------------
(* Deleting a document. *)

(* Nothing that a deleted document had is inserted again. *)
Gone(f) ==
    /\ Settled(f) /\ f \notin chunks
    /\ \A r \in rels : r.doc # f
    /\ \A c \in claims : c.doc # f

GoneInv == \A f \in Files : deleted[f] = "keys" => Gone(f)

(* A file is indexed only once, and inserts rows only while its extraction  *)
(* is under way.                                                            *)
LEMMA GoneStays ==
    ASSUME BasicInv, [Next]_vars, NEW f \in Files, Gone(f)
    PROVE  Gone(f)'
<1>0. graph = [e \in Files |-> graph[e]] /\ claiming = [e \in Files |-> claiming[e]]
  BY DEF BasicInv, Functions
<1>1. graph[f].pc \in {"ok", "failed"} /\ claiming[f].pc \in {"ok", "failed"}
  BY DEF Gone, Settled
<1>2. graph'[f] = graph[f]
  <2>1. ASSUME NEW e \in Files, GraphStep(e) PROVE graph'[f] = graph[f]
    BY <1>0, <1>1, <2>1 DEF GraphStep, Index, LookupEntities, UpsertEntities, InsertRelationships, GraphFails
  <2> QED
    BY <2>1, GraphSteps
<1>3. claiming'[f] = claiming[f]
  <2>1. ASSUME NEW e \in Files, ClaimStep(e) PROVE claiming'[f] = claiming[f]
    <3>1. CASE Index(e)
      <4>1. e # f
        BY <1>1, <3>1 DEF Index
      <4> QED
        BY <1>0, <3>1, <4>1 DEF Index
    <3>2. CASE LookupClaimed(e) \/ InsertClaims(e)
      BY <1>0, <1>1, <3>2 DEF LookupClaimed, InsertClaims
    <3> QED
      BY <2>1, <3>1, <3>2 DEF ClaimStep
  <2> QED
    BY <2>1, ClaimSteps
<1>4. f \notin chunks'
  <2>1. \/ \E e \in Files : Index(e) \/ PruneOne(e)
        \/ UNCHANGED chunks
    BY Zenon DEF Next, vars, LookupEntities, UpsertEntities, InsertRelationships, GraphFails,
       LookupClaimed, InsertClaims, LoadEntities, LoadRelationships, CheckFingerprint, ClearMembers,
       ClearComms, ClearEntities, UpsertCommunity, InsertMembers, AssignCommunities, WriteVectors,
       NoVectors, FinalizeFails, ListDocuments, tables
  <2>2. ASSUME NEW e \in Files, Index(e) PROVE e # f
    BY <1>1, <2>2 DEF Index
  <2> QED
    BY <2>1, <2>2 DEF Index, PruneOne, Gone
<1>5. \A r \in rels' : r.doc # f
  <2>1. (\E e \in Files : InsertRelationships(e)) \/ UNCHANGED rels
    BY Zenon DEF Next, vars, Index, LookupEntities, UpsertEntities, GraphFails,
       LookupClaimed, InsertClaims, LoadEntities, LoadRelationships, CheckFingerprint, ClearMembers,
       ClearComms, ClearEntities, UpsertCommunity, InsertMembers, AssignCommunities, WriteVectors,
       NoVectors, FinalizeFails, ListDocuments, PruneOne, tables
  <2>2. ASSUME NEW e \in Files, InsertRelationships(e) PROVE \A r \in rels' : r.doc # f
    <3>1. e # f
      BY <1>1, <2>2 DEF InsertRelationships
    <3>2. \A r \in NewRels(e) : r.doc = e
      BY DEF NewRels
    <3>3. rels' \subseteq rels \cup NewRels(e)
      BY <2>2 DEF InsertRelationships
    <3> QED
      BY <3>1, <3>2, <3>3 DEF Gone
  <2> QED
    BY <2>1, <2>2 DEF Gone
<1>6. \A c \in claims' : c.doc # f
  <2>1. (\E e \in Files : InsertClaims(e)) \/ UNCHANGED claims
    BY Zenon DEF Next, vars, Index, LookupEntities, UpsertEntities, GraphFails,
       LookupClaimed, InsertRelationships, LoadEntities, LoadRelationships, CheckFingerprint, ClearMembers,
       ClearComms, ClearEntities, UpsertCommunity, InsertMembers, AssignCommunities, WriteVectors,
       NoVectors, FinalizeFails, ListDocuments, PruneOne, tables
  <2>2. ASSUME NEW e \in Files, InsertClaims(e) PROVE \A c \in claims' : c.doc # f
    <3>1. e # f
      BY <1>1, <2>2 DEF InsertClaims
    <3>2. claims' \subseteq claims \cup {[ent |-> claiming[e].id[n], doc |-> e] : n \in DOMAIN claiming[e].id}
      BY <2>2 DEF InsertClaims
    <3> QED
      BY <3>1, <3>2 DEF Gone
  <2> QED
    BY <2>1, <2>2 DEF Gone
<1> QED
  BY <1>1, <1>2, <1>3, <1>4, <1>5, <1>6 DEF Gone, Settled

(* A document whose extraction was over when it was deleted through a       *)
(* connection with foreign keys stays without chunks, relationships and     *)
(* claims, whatever else is indexed, finalized or pruned.                   *)
THEOREM DeletedLeaveNothing == Spec => []DeletedLeavesNothing
<1>1. Init => GoneInv
  BY DEF Init, GoneInv
<1>2. BasicInv /\ GoneInv /\ [Next]_vars => GoneInv'
  <2> SUFFICES ASSUME BasicInv, GoneInv, [Next]_vars, NEW f \in Files, deleted'[f] = "keys"
               PROVE  Gone(f)'
    BY DEF GoneInv
  <2>1. CASE deleted[f] = "keys"
    BY <2>1, GoneStays DEF GoneInv
  <2>2. CASE deleted[f] # "keys"
    <3>1. (\E e \in Files : PruneOne(e)) \/ UNCHANGED deleted
      BY Zenon DEF Next, vars, Index, LookupEntities, UpsertEntities, InsertRelationships, GraphFails,
         LookupClaimed, InsertClaims, LoadEntities, LoadRelationships, CheckFingerprint, ClearMembers,
         ClearComms, ClearEntities, UpsertCommunity, InsertMembers, AssignCommunities, WriteVectors, NoVectors,
         FinalizeFails, ListDocuments
    <3>2. PICK e \in Files : PruneOne(e) /\ deleted'[f] # deleted[f]
      BY <2>2, <3>1
    <3>3. e = f
      BY <3>2 DEF PruneOne, BasicInv, Functions
    <3>4. /\ Settled(f) /\ ~Refers(f) /\ chunks' = chunks \ {f}
          /\ UNCHANGED <<rels, claims, graph, claiming>>
      BY <2>2, <3>2, <3>3 DEF PruneOne, BasicInv, Functions
    <3> QED
      BY <3>4 DEF Gone, Settled, Refers
  <2> QED
    BY <2>1, <2>2
<1>3. GoneInv => DeletedLeavesNothing
  BY DEF GoneInv, Gone, DeletedLeavesNothing
<1> QED
  BY <1>1, <1>2, <1>3, BasicInvariant, PTL DEF Spec

-----------------------------------------------------------------------------
(* What a successful extraction has stored. *)

(* The entity i has the name n, but for its spelling. *)
Named(i, n, es) == i \in 1 .. Len(es) /\ Norm[es[i].name] = n

Stored(a, f, es, rs) ==
    /\ \A n \in NormsOf(a) : \E i \in 1 .. Len(es) : Named(i, n, es)
    /\ \A p \in a.rels : {Norm[p[1]], Norm[p[2]]} \subseteq NormsOf(a) =>
          \E r \in rs : r.doc = f /\ Named(r.src, Norm[p[1]], es) /\ Named(r.tgt, Norm[p[2]], es)

StoredInv == \A f \in Files : graph[f].pc = "ok" => Stored(graph[f].answer, f, entities, rels)

(* Entities keep their names, and relationships are never deleted. *)
LEMMA StoredGrows ==
    ASSUME BasicInv, [Next]_vars, NEW a, NEW f, Stored(a, f, entities, rels)
    PROVE  Stored(a, f, entities', rels')
<1>1. \A i, n : Named(i, n, entities) => Named(i, n, entities')
  <2>1. Rows(entities') /\ Kept(entities, entities') /\ Rows(entities)
    BY EntitiesGrow DEF BasicInv
  <2> QED
    BY <2>1 DEF Named, Kept, Rows
<1>2. rels \subseteq rels'
  <2>1. (\E e \in Files : InsertRelationships(e)) \/ UNCHANGED rels
    BY Zenon DEF Next, vars, Index, LookupEntities, UpsertEntities, GraphFails,
       LookupClaimed, InsertClaims, LoadEntities, LoadRelationships, CheckFingerprint, ClearMembers,
       ClearComms, ClearEntities, UpsertCommunity, InsertMembers, AssignCommunities, WriteVectors,
       NoVectors, FinalizeFails, ListDocuments, PruneOne, tables
  <2> QED
    BY <2>1 DEF InsertRelationships
<1>3. \A n \in NormsOf(a) : \E i \in 1 .. Len(entities') : Named(i, n, entities')
  BY <1>1 DEF Stored, Named
<1>4. ASSUME NEW p \in a.rels, {Norm[p[1]], Norm[p[2]]} \subseteq NormsOf(a)
      PROVE  \E r \in rels' : r.doc = f /\ Named(r.src, Norm[p[1]], entities') /\ Named(r.tgt, Norm[p[2]], entities')
  BY <1>1, <1>2, <1>4 DEF Stored
<1> QED
  BY <1>3, <1>4 DEF Stored

(* The insert of the relationships completes what the answer said. *)
LEMMA RelationshipsComplete ==
    ASSUME BasicInv, NEW f \in Files, InsertRelationships(f), graph'[f].pc = "ok"
    PROVE  graph'[f].answer = graph[f].answer /\ Stored(graph[f].answer, f, entities, rels')
<1> DEFINE a == graph[f].answer
           id == graph[f].id
<1>1. /\ graph[f] = [pc |-> "upserted", answer |-> a, id |-> id]
      /\ a \in Answers /\ Ids(id, a, entities) /\ graph = [e \in Files |-> graph[e]]
  BY DEF InsertRelationships, BasicInv, GraphOK, Functions
<1>2. rels' = rels \cup NewRels(f) /\ graph'[f] = [graph[f] EXCEPT !.pc = "ok"]
  <2>1. PICK pc \in {"ok", "failed"} :
           /\ graph'[f] = [graph[f] EXCEPT !.pc = pc]
           /\ pc = "ok" => rels' = rels \cup NewRels(f)
    BY <1>1 DEF InsertRelationships
  <2>2. graph'[f].pc = pc
    BY <1>1, <2>1
  <2> QED
    BY <2>1, <2>2
<1>3. graph'[f].answer = a
  BY <1>1, <1>2
<1>4. DOMAIN id = NormsOf(a) /\ \A n \in NormsOf(a) : Named(id[n], n, entities)
  BY <1>1 DEF Ids, Named
<1>5. ASSUME NEW p \in a.rels, {Norm[p[1]], Norm[p[2]]} \subseteq NormsOf(a)
      PROVE  \E r \in rels' : r.doc = f /\ Named(r.src, Norm[p[1]], entities) /\ Named(r.tgt, Norm[p[2]], entities)
  <2> DEFINE r == [src |-> id[Norm[p[1]]], tgt |-> id[Norm[p[2]]], doc |-> f]
  <2>1. r \in NewRels(f)
    BY <1>4, <1>5 DEF NewRels
  <2>2. r.doc = f /\ r.src = id[Norm[p[1]]] /\ r.tgt = id[Norm[p[2]]]
    OBVIOUS
  <2>3. Named(r.src, Norm[p[1]], entities) /\ Named(r.tgt, Norm[p[2]], entities)
    BY <1>4, <1>5, <2>2
  <2> QED
    BY <1>2, <2>1, <2>2, <2>3
<1>6. \A n \in NormsOf(a) : \E i \in 1 .. Len(entities) : Named(i, n, entities)
  BY <1>4 DEF Named
<1> QED
  BY <1>3, <1>5, <1>6 DEF Stored

(* A call of extractGraph that returned nil has stored all the model said,  *)
(* whatever other calls inserted, rewrote or deleted meanwhile.             *)
THEOREM ExtractedIsStored == Spec => []ExtractedGraphIsStored
<1>1. Init => StoredInv
  BY DEF Init, StoredInv
<1>2. BasicInv /\ StoredInv /\ [Next]_vars => StoredInv'
  <2> SUFFICES ASSUME BasicInv, StoredInv, [Next]_vars, NEW f \in Files, graph'[f].pc = "ok"
               PROVE  Stored(graph'[f].answer, f, entities', rels')
    BY DEF StoredInv
  <2>0. graph = [e \in Files |-> graph[e]] /\ GraphOK(graph[f], entities)
    BY DEF BasicInv, Functions
  <2>1. CASE graph'[f] = graph[f]
    BY <2>1, StoredGrows DEF StoredInv
  <2>2. CASE Index(f)
    <3>1. PICK a \in Answers : graph'[f] = [pc |-> IF a.ents = <<>> THEN "ok" ELSE "ask", answer |-> a]
      BY <2>0, <2>2 DEF Index
    <3>2. a.ents = <<>> /\ graph'[f].answer = a
      BY <3>1
    <3>3. NormsOf(a) = {}
      BY <3>2 DEF NormsOf
    <3> QED
      BY <3>2, <3>3 DEF Stored
  <2>3. CASE LookupEntities(f) \/ UpsertEntities(f)
    <3>1. graph'[f].pc \in {"looked", "upserted"}
      <4>1. CASE LookupEntities(f)
        <5>1. \E a, i, c : graph' = [graph EXCEPT ![f] = [pc |-> "looked", answer |-> a, id |-> i, copy |-> c]]
          BY <4>1 DEF LookupEntities
        <5> QED
          BY <2>0, <5>1
      <4>2. CASE UpsertEntities(f)
        <5>1. \E a, i : graph' = [graph EXCEPT ![f] = [pc |-> "upserted", answer |-> a, id |-> i]]
          BY <4>2 DEF UpsertEntities
        <5> QED
          BY <2>0, <5>1
      <4> QED
        BY <2>3, <4>1, <4>2
    <3> QED
      BY <3>1
  <2>4. CASE InsertRelationships(f)
    <3>1. graph'[f].answer = graph[f].answer /\ Stored(graph[f].answer, f, entities, rels')
      BY <2>4, RelationshipsComplete
    <3>2. entities' = entities
      BY <2>4 DEF InsertRelationships
    <3> QED
      BY <3>1, <3>2
  <2>5. CASE GraphFails(f)
    <3>1. graph'[f] = [graph[f] EXCEPT !.pc = "failed"] /\ "pc" \in DOMAIN graph[f]
      BY <2>0, <2>5 DEF GraphFails, GraphOK
    <3> QED
      BY <3>1
  <2>6. ASSUME NEW e \in Files, e # f, GraphStep(e) PROVE graph'[f] = graph[f]
    BY <2>0, <2>6 DEF GraphStep, Index, LookupEntities, UpsertEntities, InsertRelationships, GraphFails
  <2> QED
    BY <2>1, <2>2, <2>3, <2>4, <2>5, <2>6, GraphSteps DEF GraphStep
<1>3. BasicInv /\ StoredInv => ExtractedGraphIsStored
  <2> SUFFICES ASSUME BasicInv, StoredInv, NEW f \in Files, graph[f].pc = "ok"
               PROVE  LET a == graph[f].answer
                          Is(i, name) == i \in DOMAIN entities /\ Norm[entities[i].name] = Norm[name]
                      IN  /\ \A k \in DOMAIN a.ents : \E i \in DOMAIN entities : Is(i, a.ents[k].name)
                          /\ \A p \in a.rels : {Norm[p[1]], Norm[p[2]]} \subseteq NormsOf(a) =>
                                \E r \in rels : r.doc = f /\ Is(r.src, p[1]) /\ Is(r.tgt, p[2])
    BY DEF ExtractedGraphIsStored
  <2> DEFINE a == graph[f].answer
  <2>1. Stored(a, f, entities, rels) /\ DOMAIN entities = 1 .. Len(entities)
    BY DEF StoredInv, BasicInv, Rows
  <2> HIDE DEF a
  <2>2. \A k \in DOMAIN a.ents : \E i \in DOMAIN entities :
            i \in DOMAIN entities /\ Norm[entities[i].name] = Norm[a.ents[k].name]
    BY <2>1 DEF Stored, NormsOf, Named
  <2>3. \A p \in a.rels : {Norm[p[1]], Norm[p[2]]} \subseteq NormsOf(a) =>
            \E r \in rels : /\ r.doc = f
                            /\ r.src \in DOMAIN entities /\ Norm[entities[r.src].name] = Norm[p[1]]
                            /\ r.tgt \in DOMAIN entities /\ Norm[entities[r.tgt].name] = Norm[p[2]]
    BY <2>1 DEF Stored, Named
  <2> QED
    BY <2>2, <2>3 DEF a
<1> QED
  BY <1>1, <1>2, <1>3, BasicInvariant, PTL DEF Spec

-----------------------------------------------------------------------------
(* Who may double an entity or shorten a description. *)

(* The rows that f has read are as they were, and those it has not found    *)
(* are still missing.                                                       *)
Fresh(g, es) ==
    \A n \in NormsOf(g.answer) :
        /\ g.id[n] = NoRow => \A i \in 1 .. Len(es) : es[i].name # FirstOf(g.answer, n).name
        /\ g.id[n] # NoRow => g.copy[n] = es[g.id[n]]

SameDescs(rows, es) == \A i \in 1 .. Len(rows) : es[i].desc = rows[i].desc

FreshInv ==
    /\ \A f \in Files : graph[f].pc = "looked" /\ f \notin stale => Fresh(graph[f], entities)
    /\ \A z \in Loaded : z \notin stale => SameDescs(fin[z].rows, entities)

Same(s, t) == Len(t) = Len(s) /\ \A i \in 1 .. Len(s) : t[i] = s[i]

WritesEntities(z) == ClearEntities(z) \/ AssignCommunities(z) \/ WriteVectors(z)

(* Whoever changes a row overtakes all the others that hold a copy. *)
LEMMA WritersOvertake ==
    ASSUME BasicInv, [Next]_vars
    PROVE  \/ Same(entities, entities') /\ stale \subseteq stale'
           \/ \E f \in Files : UpsertEntities(f) /\ Overtake(f)
           \/ \E z \in Finalizes : WritesEntities(z) /\ Overtake(z)
<1>0. Rows(entities) /\ DOMAIN entities = 1 .. Len(entities) /\ Len(entities) \in Nat
  BY DEF BasicInv, Rows
<1>1. ASSUME NEW f \in Files, UpsertEntities(f), ~Overtake(f)
      PROVE  Same(entities, entities') /\ stale' = stale
  <2>1. NewNames(f) = <<>> /\ Longer(f) = {} /\ stale' = stale
    BY <1>1 DEF UpsertEntities
  <2>2. /\ Len(entities') = Len(entities) + Len(NewNames(f))
        /\ \A i \in 1 .. Len(entities) : entities'[i] = entities[i] \/ \E n \in Longer(f) : TRUE
    BY <1>1, UpsertEffect
  <2>3. Len(NewNames(f)) = 0
    BY <2>1
  <2> QED
    BY <1>0, <2>1, <2>2, <2>3 DEF Same
<1>2. ASSUME NEW z \in Finalizes, WritesEntities(z), ~Overtake(z)
      PROVE  Same(entities, entities') /\ stale' = stale
  <2>1. /\ WriteVectors(z) /\ stale' = stale
        /\ ~ \E i \in DOMAIN entities : i \in DOMAIN fin[z].rows /\ fin[z].rows[i].desc > 0
    BY <1>2 DEF WritesEntities, ClearEntities, AssignCommunities, WriteVectors
  <2>2. /\ Len(entities') = Len(entities)
        /\ \A i \in 1 .. Len(entities) :
              \/ entities'[i] = entities[i]
              \/ i \in 1 .. Len(fin[z].rows) /\ fin[z].rows[i].desc > 0
    BY <2>1, VectorsEffect
  <2>3. DOMAIN fin[z].rows = 1 .. Len(fin[z].rows)
    BY <2>1 DEF WriteVectors, BasicInv, FinOK, Loads, Rows
  <2> QED
    BY <1>0, <2>1, <2>2, <2>3 DEF Same
<1>3. UNCHANGED <<entities, stale>> => Same(entities, entities') /\ stale \subseteq stale'
  BY DEF Same
<1> QED
  BY <1>1, <1>2, <1>3, EntitySteps DEF WritesEntities

(* A loaded call has the rows of its first statement. *)
LEMMA LoadedKeepsRows ==
    ASSUME BasicInv, [Next]_vars, NEW z \in Finalizes, z \in Loaded'
    PROVE  \/ LoadEntities(z)
           \/ z \in Loaded /\ fin'[z].rows = fin[z].rows /\ ~WriteVectors(z)
<1>0. fin = [e \in Finalizes |-> fin[e]] /\ FinOK(fin[z], entities)
  BY DEF BasicInv, Functions
<1>1. fin'[z].pc \notin {"new", "ok", "skipped", "failed"}
  BY DEF Loaded
<1>2. CASE fin'[z] = fin[z]
  <2>1. ~WriteVectors(z)
    <3> SUFFICES ASSUME WriteVectors(z) PROVE FALSE
      OBVIOUS
    <3>1. fin[z].pc = "embed" /\ fin'[z] = [fin[z] EXCEPT !.pc = "ok"]
      BY <1>0 DEF WriteVectors
    <3>2. "pc" \in DOMAIN fin[z]
      BY <1>0, <3>1 DEF FinOK
    <3> QED
      BY <1>2, <3>1, <3>2
  <2> QED
    BY <1>1, <1>2, <2>1 DEF Loaded
<1>3. CASE LoadRelationships(z)
  <2>1. fin[z].pc = "rels" /\ fin'[z] = [pc |-> "check", rows |-> fin[z].rows, rels |-> rels]
    BY <1>0, <1>3 DEF LoadRelationships
  <2>2. fin'[z].rows = fin[z].rows
    BY <2>1
  <2> QED
    BY <2>1, <2>2 DEF Loaded, WriteVectors
<1>4. CASE UpsertCommunity(z)
  <2>1. fin[z].pc = "write"
    BY <1>4 DEF UpsertCommunity
  <2>2. PICK b \in fin[z].todo :
            fin'[z] = [pc |-> "man", rows |-> fin[z].rows, rels |-> fin[z].rels,
                       blocks |-> fin[z].blocks, todo |-> fin[z].todo, block |-> b]
    BY <1>0, <1>4 DEF UpsertCommunity
  <2>3. fin'[z].rows = fin[z].rows
    BY <2>2
  <2> QED
    BY <2>1, <2>3 DEF Loaded, WriteVectors
<1>5. CASE ClearEntities(z)
  <2>1. fin[z].pc = "clear3"
    BY <1>5 DEF ClearEntities
  <2>2. PICK of \in [DOMAIN fin[z].rows -> DOMAIN fin[z].rows] :
          LET Block(i) == {j \in DOMAIN of : of[j] = of[i]}
              blocks == {b \in {Block(i) : i \in DOMAIN of} : Cardinality(b) >= MinCommunitySize}
          IN  fin' = [fin EXCEPT ![z] =
                    [pc |-> IF blocks = {} THEN "ok" ELSE "write",
                     rows |-> fin[z].rows, rels |-> fin[z].rels, blocks |-> blocks, todo |-> blocks]]
    BY <1>0, <1>5 DEF ClearEntities
  <2> DEFINE Block(i) == {j \in DOMAIN of : of[j] = of[i]}
             blocks == {b \in {Block(i) : i \in DOMAIN of} : Cardinality(b) >= MinCommunitySize}
             p == IF blocks = {} THEN "ok" ELSE "write"
  <2>3. fin'[z] = [pc |-> p, rows |-> fin[z].rows, rels |-> fin[z].rels, blocks |-> blocks, todo |-> blocks]
    BY <1>0, <2>2
  <2> HIDE DEF p, blocks
  <2>4. fin'[z].rows = fin[z].rows
    BY <2>3, FiveGoesOn
  <2> QED
    BY <2>1, <2>4 DEF Loaded, WriteVectors
<1>6. CASE InsertMembers(z)
  <2>1. fin[z].pc = "man" /\ "pc" \in DOMAIN fin[z]
    BY <1>0, <1>6 DEF InsertMembers, FinOK
  <2>2. fin'[z] # [fin[z] EXCEPT !.pc = "failed"]
    BY <1>1, <2>1
  <2>3. ASSUME NEW p,
               fin'[z] = [pc |-> p, rows |-> fin[z].rows, rels |-> fin[z].rels,
                          blocks |-> fin[z].blocks, todo |-> fin[z].todo \ {fin[z].block}]
        PROVE  fin'[z].rows = fin[z].rows
    BY <2>3, FiveGoesOn
  <2>4. \/ fin'[z] = [fin[z] EXCEPT !.pc = "failed"]
        \/ \E p : fin'[z] = [pc |-> p, rows |-> fin[z].rows, rels |-> fin[z].rels,
                             blocks |-> fin[z].blocks, todo |-> fin[z].todo \ {fin[z].block}]
    BY <1>0, <1>6 DEF InsertMembers
  <2>5. fin'[z].rows = fin[z].rows
    BY <2>2, <2>3, <2>4
  <2> QED
    BY <2>1, <2>5 DEF Loaded, WriteVectors
<1>7. CASE CheckFingerprint(z) \/ ClearMembers(z) \/ ClearComms(z) \/ AssignCommunities(z)
  <2>1. /\ fin[z].pc \in {"check", "clear", "clear2", "assign"} /\ {"pc", "rows"} \subseteq DOMAIN fin[z]
        /\ \E p : fin'[z] = [fin[z] EXCEPT !.pc = p]
    BY <1>0, <1>7 DEF CheckFingerprint, ClearMembers, ClearComms, AssignCommunities, FinOK
  <2>2. fin'[z].rows = fin[z].rows
    BY <2>1
  <2> QED
    BY <2>1, <2>2 DEF Loaded, WriteVectors
<1>8. CASE WriteVectors(z) \/ NoVectors(z) \/ FinalizeFails(z)
  <2>1. /\ "pc" \in DOMAIN fin[z] /\ \E p \in {"ok", "failed"} : fin'[z] = [fin[z] EXCEPT !.pc = p]
    BY <1>0, <1>8 DEF WriteVectors, NoVectors, FinalizeFails, FinOK
  <2>2. fin'[z].pc \in {"ok", "failed"}
    BY <2>1
  <2> QED
    BY <1>1, <2>2
<1>9. ASSUME NEW e \in Finalizes, e # z, FinStep(e) PROVE fin'[z] = fin[z]
  BY <1>0, <1>9 DEF FinStep, LoadEntities, LoadRelationships, CheckFingerprint, ClearMembers, ClearComms,
     ClearEntities, UpsertCommunity, InsertMembers, AssignCommunities, WriteVectors, NoVectors, FinalizeFails
<1> QED
  BY <1>2, <1>3, <1>4, <1>5, <1>6, <1>7, <1>8, <1>9, FinSteps DEF FinStep

(* What nobody has overtaken is still as it was read. *)
LEMMA NextFresh == BasicInv /\ FreshInv /\ [Next]_vars => FreshInv'
<1> SUFFICES ASSUME BasicInv, FreshInv, [Next]_vars PROVE FreshInv'
  OBVIOUS
<1>0. /\ Rows(entities) /\ DOMAIN entities = 1 .. Len(entities) /\ Len(entities) \in Nat
      /\ graph = [e \in Files |-> graph[e]] /\ fin = [e \in Finalizes |-> fin[e]]
  BY DEF BasicInv, Rows, Functions
<1>1. ASSUME NEW f \in Files, graph'[f].pc = "looked", f \notin stale'
      PROVE  Fresh(graph'[f], entities')
  <2>1. CASE LookupEntities(f)
    <3> DEFINE a == graph[f].answer
    <3>1. PICK row \in [NormsOf(a) -> {NoRow} \cup DOMAIN entities] :
            /\ \A n \in NormsOf(a) : row[n] \in Found(FirstOf(a, n).name)
            /\ graph' = [graph EXCEPT ![f] =
                  [pc |-> "looked", answer |-> a, id |-> row,
                   copy |-> [n \in {k \in NormsOf(a) : row[k] # NoRow} |-> entities[row[n]]]]]
      BY <2>1 DEF LookupEntities
    <3> DEFINE copy == [n \in {k \in NormsOf(a) : row[k] # NoRow} |-> entities[row[n]]]
    <3>2. graph'[f] = [pc |-> "looked", answer |-> a, id |-> row, copy |-> copy]
      BY <1>0, <3>1
    <3>3. \A n \in NormsOf(a) : row[n] # NoRow => copy[n] = entities[row[n]]
      OBVIOUS
    <3>4. \A n \in NormsOf(a) : row[n] = NoRow =>
              \A i \in 1 .. Len(entities) : entities[i].name # FirstOf(a, n).name
      BY <1>0, <3>1 DEF Found, RowsNamed, NoRow
    <3>5. entities' = entities
      BY <2>1 DEF LookupEntities
    <3>6. graph'[f].answer = a /\ graph'[f].id = row /\ graph'[f].copy = copy
      BY <3>2
    <3> HIDE DEF a, copy
    <3> QED
      BY <3>3, <3>4, <3>5, <3>6 DEF Fresh
  <2>2. CASE ~LookupEntities(f)
    <3>1. graph'[f] = graph[f]
      <4>1. ASSUME NEW e \in Files, e # f, GraphStep(e) PROVE graph'[f] = graph[f]
        BY <1>0, <4>1 DEF GraphStep, Index, LookupEntities, UpsertEntities, InsertRelationships, GraphFails
      <4>2. ~Index(f)
        <5> SUFFICES ASSUME Index(f) PROVE FALSE
          OBVIOUS
        <5>1. PICK a : graph'[f] = [pc |-> IF a.ents = <<>> THEN "ok" ELSE "ask", answer |-> a]
          BY <1>0 DEF Index
        <5> QED
          BY <1>1, <5>1
      <4>3. ~UpsertEntities(f)
        <5> SUFFICES ASSUME UpsertEntities(f) PROVE FALSE
          OBVIOUS
        <5>1. \E a, i : graph'[f] = [pc |-> "upserted", answer |-> a, id |-> i]
          BY <1>0 DEF UpsertEntities
        <5> QED
          BY <1>1, <5>1
      <4>4. ~InsertRelationships(f) /\ ~GraphFails(f)
        <5> SUFFICES ASSUME InsertRelationships(f) \/ GraphFails(f) PROVE FALSE
          OBVIOUS
        <5>1. /\ "pc" \in DOMAIN graph[f]
              /\ \E p \in {"ok", "failed"} : graph'[f] = [graph[f] EXCEPT !.pc = p]
          BY <1>0 DEF InsertRelationships, GraphFails, BasicInv, GraphOK
        <5> QED
          BY <1>1, <5>1
      <4> QED
        BY <2>2, <4>1, <4>2, <4>3, <4>4, GraphSteps DEF GraphStep
    <3>2. f \in Holding /\ f \notin Finalizes
      BY <1>1, <3>1, GraphAssumption DEF Holding
    <3>3. ~ \E e \in Files : UpsertEntities(e) /\ Overtake(e)
      <4> SUFFICES ASSUME NEW e \in Files, UpsertEntities(e), Overtake(e) PROVE FALSE
        OBVIOUS
      <4>1. e = f
        BY <1>1, <3>2 DEF Overtake
      <4>2. \E a, i : graph'[f] = [pc |-> "upserted", answer |-> a, id |-> i]
        BY <1>0, <4>1 DEF UpsertEntities
      <4> QED
        BY <1>1, <4>2
    <3>4. ~ \E z \in Finalizes : WritesEntities(z) /\ Overtake(z)
      BY <1>1, <3>2 DEF Overtake
    <3>5. Same(entities, entities') /\ f \notin stale
      BY <1>1, <3>3, <3>4, WritersOvertake
    <3>6. Fresh(graph[f], entities) /\ Looked(graph[f], entities)
      BY <1>1, <3>1, <3>5 DEF FreshInv, BasicInv, GraphOK
    <3>7. \A n \in NormsOf(graph[f].answer) : graph[f].id[n] # NoRow => graph[f].id[n] \in 1 .. Len(entities)
      BY <1>0, <3>6 DEF Looked, NoRow
    <3> QED
      BY <3>1, <3>5, <3>6, <3>7 DEF Fresh, Same
  <2> QED
    BY <2>1, <2>2
<1>2. ASSUME NEW z \in Finalizes, z \in Loaded', z \notin stale'
      PROVE  SameDescs(fin'[z].rows, entities')
  <2>1. CASE LoadEntities(z)
    <3>1. fin'[z] = IF entities = <<>> THEN [pc |-> "failed"] ELSE [pc |-> "rels", rows |-> entities]
      BY <1>0, <2>1 DEF LoadEntities
    <3>2. fin'[z].pc # "failed"
      BY <1>2 DEF Loaded
    <3>3. entities # <<>>
      BY <3>1, <3>2
    <3>4. fin'[z] = [pc |-> "rels", rows |-> entities]
      BY <3>1, <3>3
    <3>5. fin'[z].rows = entities
      BY <3>4
    <3>6. entities' = entities
      BY <2>1 DEF LoadEntities, tables
    <3> QED
      BY <3>5, <3>6 DEF SameDescs
  <2>2. CASE z \in Loaded /\ fin'[z].rows = fin[z].rows /\ ~WriteVectors(z)
    <3>1. z \notin Files
      BY GraphAssumption
    <3>2. ~ \E f \in Files : UpsertEntities(f) /\ Overtake(f)
      BY <1>2, <2>2, <3>1 DEF Overtake
    <3>3. \A e \in Finalizes : WritesEntities(e) /\ Overtake(e) => e = z
      BY <1>2, <2>2 DEF Overtake
    <3>4. z \notin stale
      BY <1>2, WritersOvertake DEF Overtake
    <3>5. \A i \in 1 .. Len(entities) : entities'[i].desc = entities[i].desc
      <4>1. CASE Same(entities, entities')
        BY <4>1 DEF Same
      <4>2. CASE ClearEntities(z)
        <5>1. \A i \in 1 .. Len(entities) : entities'[i] =
                  Row(entities[i].name, entities[i].desc, NoComm, entities[i].rank, entities[i].by)
          BY <4>2, ClearEffect
        <5> QED
          BY <5>1, RowFields
      <4>3. CASE AssignCommunities(z)
        <5>1. \A i \in 1 .. Len(entities) : \E c, d : entities'[i] = Assigned(entities[i], c, d)
          BY <4>3, AssignEffect
        <5>2. \A r, c, d : Assigned(r, c, d).desc = r.desc
          BY DEF Assigned
        <5> QED
          BY <5>1, <5>2
      <4> QED
        BY <2>2, <3>2, <3>3, <4>1, <4>2, <4>3, WritersOvertake DEF WritesEntities
    <3>6. SameDescs(fin[z].rows, entities)
      BY <2>2, <3>4 DEF FreshInv
    <3>7. Rows(fin[z].rows) /\ Len(fin[z].rows) =< Len(entities)
      BY <2>2 DEF Loaded, BasicInv, FinOK, Loads, Kept
    <3> QED
      BY <1>0, <2>2, <3>5, <3>6, <3>7 DEF SameDescs, Rows
  <2> QED
    BY <1>2, <2>1, <2>2, LoadedKeepsRows
<1>3. \A z \in Loaded' : z \in Finalizes
  BY DEF Loaded
<1> QED
  BY <1>1, <1>2, <1>3 DEF FreshInv

(* A writer that nobody has overtaken does no harm. *)
LEMMA FreshDoNoHarm ==
    ASSUME BasicInv, FreshInv, [Next]_vars, Doubled \/ Shortened
    PROVE  \E a \in stale : Moves(a)
<1>0. /\ Rows(entities) /\ DOMAIN entities = 1 .. Len(entities) /\ Len(entities) \in Nat
      /\ graph = [e \in Files |-> graph[e]] /\ fin = [e \in Finalizes |-> fin[e]]
      /\ Rows(entities') /\ DOMAIN entities' = 1 .. Len(entities') /\ Len(entities') \in Nat
      /\ Kept(entities, entities')
      /\ \A i \in 1 .. Len(entities) : entities[i].desc \in Nat
  <2>1. Rows(entities') /\ Kept(entities, entities')
    BY EntitiesGrow
  <2> QED
    BY <2>1 DEF BasicInv, Rows, Functions, IsRow
<1>1. ASSUME NEW f \in Files, UpsertEntities(f) PROVE f \in stale /\ Moves(f)
  <2> DEFINE g == graph[f]
             fresh == NewNames(f)
  <2>1. g.pc = "looked" /\ g.answer \in Answers /\ Looked(g, entities)
    BY <1>1 DEF UpsertEntities, BasicInv, GraphOK
  <2>2. Moves(f)
    <3>1. \E a, i : graph'[f] = [pc |-> "upserted", answer |-> a, id |-> i]
      BY <1>0, <1>1 DEF UpsertEntities
    <3>2. graph'[f] # graph[f]
      BY <2>1, <3>1
    <3> QED
      BY <3>2 DEF Moves
  <2>3. ASSUME f \notin stale PROVE FALSE
    <3>1. Fresh(g, entities)
      BY <2>1, <2>3 DEF FreshInv
    <3>2. /\ fresh \in Seq(NormsOf(g.answer)) /\ Len(fresh) \in Nat
          /\ \A n \in NormsOf(g.answer) : g.id[n] = NoRow <=> \E k \in 1 .. Len(fresh) : fresh[k] = n
          /\ Len(entities') = Len(entities) + Len(fresh)
          /\ \A i \in 1 .. Len(entities) :
                 \/ entities'[i] = entities[i]
                 \/ \E n \in Longer(f) :
                       /\ n \in NormsOf(g.answer) /\ g.id[n] = i
                       /\ entities'[i] =
                             Row(g.copy[n].name, FirstOf(g.answer, n).desc, g.copy[n].comm, g.copy[n].rank, g.copy[n].by)
                       /\ FirstOf(g.answer, n).desc > g.copy[n].desc
          /\ \A k \in 1 .. Len(fresh) : entities'[Len(entities) + k] = NewRow(f, fresh[k])
      BY <1>1, UpsertEffect, LenProperties
    <3>3. \A j, k \in 1 .. Len(fresh) : fresh[j] = fresh[k] => j = k
      BY <1>1, UpsertOnce
    <3>4. \A k \in 1 .. Len(fresh) : fresh[k] \in NormsOf(g.answer)
      BY <3>2, ElementOfSeq
    <3> HIDE DEF g, fresh
    <3>5. ~Shortened
      <4> SUFFICES ASSUME NEW i \in 1 .. Len(entities), entities'[i].desc < entities[i].desc PROVE FALSE
        BY <1>0 DEF Shortened
      <4>1. CASE entities'[i] = entities[i]
        BY <1>0, <4>1
      <4>2. ASSUME NEW n \in NormsOf(g.answer), g.id[n] = i,
                   entities'[i] =
                         Row(g.copy[n].name, FirstOf(g.answer, n).desc, g.copy[n].comm, g.copy[n].rank, g.copy[n].by),
                   FirstOf(g.answer, n).desc > g.copy[n].desc
            PROVE  FALSE
        <5>1. g.copy[n] = entities[i]
          BY <1>0, <3>1, <4>2 DEF Fresh, NoRow
        <5>2. entities'[i].desc = FirstOf(g.answer, n).desc
          BY <4>2, RowFields
        <5>3. FirstOf(g.answer, n).desc \in Nat
          BY <2>1, FirstOfHasIt DEF g
        <5> QED
          BY <1>0, <4>2, <5>1, <5>2, <5>3
      <4> QED
        BY <3>2, <4>1, <4>2
    <3>6. ~Doubled
      <4> SUFFICES ASSUME NEW i \in 1 .. Len(entities'), NEW j \in 1 .. Len(entities'),
                          i < j, j > Len(entities), entities'[i].name = entities'[j].name
                   PROVE  FALSE
        BY <1>0 DEF Doubled
      <4> DEFINE k == j - Len(entities)
      <4>1. k \in 1 .. Len(fresh) /\ j = Len(entities) + k
        BY <1>0, <3>2
      <4>2. \A l \in 1 .. Len(fresh) : entities'[Len(entities) + l].name = FirstOf(g.answer, fresh[l]).name
        <5>1. \A l \in 1 .. Len(fresh) : entities'[Len(entities) + l] = NewRow(f, fresh[l])
          BY <3>2
        <5>2. \A n : NewRow(f, n).name = FirstOf(g.answer, n).name
          BY DEF NewRow, g
        <5> QED
          BY <5>1, <5>2, Zenon
      <4>3. CASE i =< Len(entities)
        <5>1. entities[i].name = FirstOf(g.answer, fresh[k]).name
          BY <1>0, <4>1, <4>2, <4>3 DEF Kept
        <5>2. fresh[k] \in NormsOf(g.answer) /\ g.id[fresh[k]] = NoRow
          BY <3>2, <3>4, <4>1
        <5> QED
          BY <3>1, <4>3, <5>1, <5>2 DEF Fresh
      <4>4. CASE i > Len(entities)
        <5> DEFINE l == i - Len(entities)
        <5>1. l \in 1 .. Len(fresh) /\ i = Len(entities) + l /\ l # k
          BY <1>0, <3>2, <4>1, <4>4
        <5>2. FirstOf(g.answer, fresh[l]).name = FirstOf(g.answer, fresh[k]).name
          BY <4>1, <4>2, <5>1
        <5>3. /\ Norm[FirstOf(g.answer, fresh[l]).name] = fresh[l]
              /\ Norm[FirstOf(g.answer, fresh[k]).name] = fresh[k]
          BY <2>1, <3>4, <4>1, <5>1, FirstOfHasIt DEF g
        <5> QED
          BY <3>3, <4>1, <5>1, <5>2, <5>3
      <4> QED
        BY <1>0, <4>3, <4>4
    <3> QED
      BY <3>5, <3>6
  <2> QED
    BY <2>2, <2>3
<1>2. ASSUME NEW z \in Finalizes, ClearEntities(z) PROVE FALSE
  <2>1. /\ Len(entities') = Len(entities)
        /\ \A i \in 1 .. Len(entities) : entities'[i] =
              Row(entities[i].name, entities[i].desc, NoComm, entities[i].rank, entities[i].by)
    BY <1>2, ClearEffect
  <2>2. \A i \in 1 .. Len(entities) : entities'[i].desc = entities[i].desc
    BY <2>1, RowFields
  <2> QED
    BY <1>0, <2>1, <2>2 DEF Doubled, Shortened
<1>3. ASSUME NEW z \in Finalizes, AssignCommunities(z) PROVE FALSE
  <2>1. /\ Len(entities') = Len(entities)
        /\ \A i \in 1 .. Len(entities) : \E c, d : entities'[i] = Assigned(entities[i], c, d)
    BY <1>3, AssignEffect
  <2>2. \A r, c, d : Assigned(r, c, d).desc = r.desc
    BY DEF Assigned
  <2>3. \A i \in 1 .. Len(entities) : entities'[i].desc = entities[i].desc
    BY <2>1, <2>2
  <2> QED
    BY <1>0, <2>1, <2>3 DEF Doubled, Shortened
<1>4. ASSUME NEW z \in Finalizes, WriteVectors(z) PROVE z \in stale /\ Moves(z)
  <2>1. fin[z].pc = "embed" /\ FinOK(fin[z], entities) /\ z \in Loaded
    BY <1>4 DEF WriteVectors, BasicInv, Loaded
  <2>2. Moves(z)
    <3>1. fin'[z] = [fin[z] EXCEPT !.pc = "ok"] /\ "pc" \in DOMAIN fin[z]
      BY <1>0, <1>4, <2>1 DEF WriteVectors, FinOK
    <3>2. fin'[z] # fin[z]
      BY <2>1, <3>1
    <3> QED
      BY <3>2 DEF Moves
  <2>3. ASSUME z \notin stale PROVE FALSE
    <3>1. SameDescs(fin[z].rows, entities)
      BY <2>1, <2>3 DEF FreshInv
    <3>2. /\ Len(entities') = Len(entities)
          /\ \A i \in 1 .. Len(entities) :
                \/ entities'[i] = entities[i]
                \/ i \in 1 .. Len(fin[z].rows) /\ entities'[i] = fin[z].rows[i]
      BY <1>4, VectorsEffect
    <3>3. \A i \in 1 .. Len(entities) : entities'[i].desc = entities[i].desc
      BY <3>1, <3>2 DEF SameDescs
    <3> QED
      BY <1>0, <3>2, <3>3 DEF Doubled, Shortened
  <2> QED
    BY <2>2, <2>3
<1>5. CASE UNCHANGED <<entities, stale>>
  BY <1>0, <1>5 DEF Doubled, Shortened
<1> QED
  BY <1>1, <1>2, <1>3, <1>4, <1>5, EntitySteps

(* Two entities with one spelling and a shortened description come only     *)
(* from calls that overlap: one of them held a copy, or a missing name,     *)
(* that another had overtaken.                                              *)
THEOREM HarmNeedsOverlap == Spec => OverlapsAloneHarm
<1>1. Init => FreshInv
  BY DEF Init, FreshInv, Loaded
<1>2. BasicInv /\ FreshInv /\ [Next]_vars => (Doubled \/ Shortened => \E a \in stale : Moves(a))
  BY FreshDoNoHarm
<1> QED
  BY <1>1, <1>2, NextFresh, BasicInvariant, PTL DEF Spec, OverlapsAloneHarm

-----------------------------------------------------------------------------
(* The communities of a call of Finalize that nobody disturbs. *)

CommsOf(z, B) == {<<z, b>> : b \in B}
MembersOf(z, B) == UNION {{<<<<z, b>>, i>> : i \in b} : b \in B}

CommIn(z, B, i) ==
    LET b == {c \in B : i \in c}
    IN  IF b = {} THEN NoComm ELSE <<z, CHOOSE c \in b : TRUE>>

(* Entities without a description are in no community yet. *)
Unassigned(es) == \A i \in 1 .. Len(es) : es[i].desc = 0 => es[i].comm = NoComm

InCommunities(z, B, es) == \A i \in 1 .. Len(es) : es[i].desc = 0 => es[i].comm = CommIn(z, B, i)

(* How far the call has come, and what the tables hold by then. *)
Progress(z, x, es, cs, ms) ==
    /\ x.pc = "clear2" => ms = {}
    /\ x.pc = "clear3" => cs = {} /\ ms = {}
    /\ x.pc \in {"write", "assign"} =>
          /\ cs = CommsOf(z, x.blocks \ x.todo) /\ ms = MembersOf(z, x.blocks \ x.todo)
          /\ Unassigned(es)
    /\ x.pc = "assign" => x.todo = {}
    /\ x.pc = "man" =>
          /\ cs = CommsOf(z, (x.blocks \ x.todo) \cup {x.block})
          /\ ms = MembersOf(z, x.blocks \ x.todo)
          /\ Unassigned(es)
    /\ x.pc \in {"embed", "ok"} =>
          /\ cs = CommsOf(z, x.blocks) /\ ms = MembersOf(z, x.blocks)
          /\ InCommunities(z, x.blocks, es)

AloneInv ==
    \A z \in Finalizes : lastFin = z /\ z \notin mixed =>
        Writing \subseteq {z} /\ Progress(z, fin[z], entities, comms, members)

(* The members of one community more. *)
LEMMA MembersAdded ==
    ASSUME NEW z, NEW B, NEW b
    PROVE  MembersOf(z, B \cup {b}) = MembersOf(z, B) \cup {<<<<z, b>>, i>> : i \in b}
BY DEF MembersOf

(* An extraction gives no community to an entity without a description. *)
LEMMA UpsertKeeps ==
    ASSUME BasicInv, NEW f \in Files, UpsertEntities(f)
    PROVE  \A i \in 1 .. Len(entities') : entities'[i].desc = 0 =>
              \/ i \in 1 .. Len(entities) /\ entities'[i] = entities[i]
              \/ i > Len(entities) /\ entities'[i].comm = NoComm
<1> DEFINE g == graph[f]
           fresh == NewNames(f)
<1>1. g.pc = "looked" /\ g.answer \in Answers /\ Looked(g, entities)
  BY DEF UpsertEntities, BasicInv, GraphOK
<1>2. /\ Len(entities) \in Nat /\ Len(fresh) \in Nat
      /\ Len(entities') = Len(entities) + Len(fresh)
      /\ \A i \in 1 .. Len(entities) :
             \/ entities'[i] = entities[i]
             \/ \E n \in Longer(f) :
                   /\ n \in NormsOf(g.answer) /\ g.id[n] = i
                   /\ entities'[i] =
                         Row(g.copy[n].name, FirstOf(g.answer, n).desc, g.copy[n].comm, g.copy[n].rank, g.copy[n].by)
                   /\ FirstOf(g.answer, n).desc > g.copy[n].desc
      /\ \A k \in 1 .. Len(fresh) : entities'[Len(entities) + k] = NewRow(f, fresh[k])
  BY UpsertEffect, LenProperties DEF BasicInv, Rows
<1> HIDE DEF fresh, g
<1>3. ASSUME NEW i \in 1 .. Len(entities), entities'[i] # entities[i] PROVE entities'[i].desc # 0
  <2>1. PICK n \in NormsOf(g.answer) :
            /\ g.id[n] = i
            /\ entities'[i] =
                  Row(g.copy[n].name, FirstOf(g.answer, n).desc, g.copy[n].comm, g.copy[n].rank, g.copy[n].by)
            /\ FirstOf(g.answer, n).desc > g.copy[n].desc
    BY <1>2, <1>3
  <2>2. entities'[i].desc = FirstOf(g.answer, n).desc
    BY <2>1, RowFields
  <2>3. IsRow(g.copy[n])
    BY <1>1, <1>2, <2>1 DEF Looked, NoRow
  <2>4. g.copy[n].desc \in Nat /\ FirstOf(g.answer, n).desc \in Nat
    BY <1>1, <2>3, FirstOfHasIt DEF IsRow
  <2> QED
    BY <2>1, <2>2, <2>4
<1>4. ASSUME NEW i \in 1 .. Len(entities'), i > Len(entities) PROVE entities'[i].comm = NoComm
  <2>1. i - Len(entities) \in 1 .. Len(fresh) /\ i = Len(entities) + (i - Len(entities))
    BY <1>2, <1>4
  <2>2. entities'[i] = NewRow(f, fresh[i - Len(entities)])
    BY <1>2, <2>1
  <2> QED
    BY <2>2 DEF NewRow
<1> QED
  BY <1>2, <1>3, <1>4

(* Nor does the call's own last statement. *)
LEMMA VectorsKeep ==
    ASSUME BasicInv, NEW z \in Finalizes, WriteVectors(z)
    PROVE  /\ Len(entities') = Len(entities)
           /\ \A i \in 1 .. Len(entities') : entities'[i].desc = 0 => entities'[i] = entities[i]
<1>1. /\ Len(entities') = Len(entities)
      /\ \A i \in 1 .. Len(entities) :
            \/ entities'[i] = entities[i]
            \/ /\ i \in 1 .. Len(fin[z].rows) /\ fin[z].rows[i].desc > 0
               /\ entities'[i] = fin[z].rows[i]
  BY VectorsEffect
<1> QED
  BY <1>1

(* A partition has no block beyond the rows that were loaded. *)
LEMMA NoCommunityBeyond ==
    ASSUME NEW z, NEW B, NEW n \in Nat, \A b \in B : b \subseteq 1 .. n, NEW i \in Nat, i > n
    PROVE  CommIn(z, B, i) = NoComm
<1>1. \A b \in B : i \notin b
  OBVIOUS
<1>2. {c \in B : i \in c} = {}
  BY <1>1
<1> QED
  BY <1>2 DEF CommIn

(* The steps of the call itself. *)
LEMMA OwnSteps ==
    ASSUME BasicInv, NEW z \in Finalizes, FinStep(z), ~ClearMembers(z),
           Progress(z, fin[z], entities, comms, members)
    PROVE  Progress(z, fin'[z], entities', comms', members')
<1> DEFINE x == fin[z]
           y == fin'[z]
<1>0. /\ fin = [e \in Finalizes |-> fin[e]] /\ FinOK(x, entities)
      /\ Len(entities) \in Nat /\ Rows(entities)
  BY DEF BasicInv, Functions, Rows
<1>1. CASE LoadEntities(z)
  <2>1. y = IF entities = <<>> THEN [pc |-> "failed"] ELSE [pc |-> "rels", rows |-> entities]
    BY <1>0, <1>1 DEF LoadEntities
  <2>2. y.pc \in {"failed", "rels"}
    BY <2>1
  <2> QED
    BY <2>2 DEF Progress
<1>2. CASE LoadRelationships(z)
  <2>1. y = [pc |-> "check", rows |-> x.rows, rels |-> rels]
    BY <1>0, <1>2 DEF LoadRelationships
  <2>2. y.pc = "check"
    BY <2>1
  <2> QED
    BY <2>2 DEF Progress
<1>3. CASE CheckFingerprint(z) \/ FinalizeFails(z)
  <2>1. "pc" \in DOMAIN x
    BY <1>0, <1>3 DEF CheckFingerprint, FinalizeFails, FinOK
  <2>2. \E p \in {"skipped", "clear", "failed"} : y = [x EXCEPT !.pc = p]
    BY <1>0, <1>3 DEF CheckFingerprint, FinalizeFails
  <2>3. y.pc \in {"skipped", "clear", "failed"}
    BY <2>1, <2>2
  <2> QED
    BY <2>3 DEF Progress
<1>4. CASE ClearComms(z)
  <2>1. x.pc = "clear2" /\ "pc" \in DOMAIN x /\ y = [x EXCEPT !.pc = "clear3"]
    BY <1>0, <1>4 DEF ClearComms, FinOK
  <2>2. y.pc = "clear3"
    BY <2>1
  <2>3. members = {}
    BY <2>1 DEF Progress
  <2>4. comms' = {} /\ members' = {}
    BY <1>4, <2>3 DEF ClearComms
  <2> QED
    BY <2>2, <2>4 DEF Progress
<1>5. CASE ClearEntities(z)
  <2>1. x.pc = "clear3" /\ comms = {} /\ members = {} /\ comms' = comms /\ members' = members
    BY <1>5 DEF ClearEntities, Progress
  <2>2. PICK of \in [DOMAIN x.rows -> DOMAIN x.rows] :
          LET Block(i) == {j \in DOMAIN of : of[j] = of[i]}
              blocks == {b \in {Block(i) : i \in DOMAIN of} : Cardinality(b) >= MinCommunitySize}
          IN  fin' = [fin EXCEPT ![z] =
                    [pc |-> IF blocks = {} THEN "ok" ELSE "write",
                     rows |-> x.rows, rels |-> x.rels, blocks |-> blocks, todo |-> blocks]]
    BY <1>0, <1>5 DEF ClearEntities
  <2> DEFINE Block(i) == {j \in DOMAIN of : of[j] = of[i]}
             blocks == {b \in {Block(i) : i \in DOMAIN of} : Cardinality(b) >= MinCommunitySize}
             p == IF blocks = {} THEN "ok" ELSE "write"
  <2>3. y = [pc |-> p, rows |-> x.rows, rels |-> x.rels, blocks |-> blocks, todo |-> blocks]
    BY <1>0, <2>2
  <2>4. p = "write" \/ (p = "ok" /\ blocks = {})
    OBVIOUS
  <2> HIDE DEF blocks, p
  <2>5. y.pc = p /\ y.blocks = blocks /\ y.todo = blocks
    BY <2>3, FiveGoesOn
  <2>6. \A i \in 1 .. Len(entities') : entities'[i].comm = NoComm
    <3>1. /\ Len(entities') = Len(entities)
          /\ \A i \in 1 .. Len(entities) : entities'[i] =
                Row(entities[i].name, entities[i].desc, NoComm, entities[i].rank, entities[i].by)
      BY <1>5, ClearEffect
    <3> QED
      BY <3>1, RowFields
  <2>7. CommsOf(z, {}) = {} /\ MembersOf(z, {}) = {} /\ \A i : CommIn(z, {}, i) = NoComm
    BY DEF CommsOf, MembersOf, CommIn
  <2>8. y.blocks \ y.todo = {}
    BY <2>5
  <2> HIDE DEF y
  <2>9. ASSUME p = "write" PROVE Progress(z, y, entities', comms', members')
    BY <2>1, <2>5, <2>6, <2>7, <2>8, <2>9 DEF Progress, Unassigned
  <2>10. ASSUME p = "ok", blocks = {} PROVE Progress(z, y, entities', comms', members')
    BY <2>1, <2>5, <2>6, <2>7, <2>8, <2>10 DEF Progress, InCommunities
  <2>11. Progress(z, y, entities', comms', members')
    BY <2>4, <2>9, <2>10
  <2> QED
    BY <2>11 DEF y
<1>6. CASE UpsertCommunity(z)
  <2>1. /\ x.pc = "write"
        /\ comms = CommsOf(z, x.blocks \ x.todo) /\ members = MembersOf(z, x.blocks \ x.todo)
        /\ Unassigned(entities)
    BY <1>6 DEF UpsertCommunity, Progress
  <2>2. PICK b \in x.todo :
            /\ comms' = comms \cup {<<z, b>>}
            /\ y = [pc |-> "man", rows |-> x.rows, rels |-> x.rels,
                    blocks |-> x.blocks, todo |-> x.todo, block |-> b]
    BY <1>0, <1>6 DEF UpsertCommunity
  <2>3. y.pc = "man" /\ y.blocks = x.blocks /\ y.todo = x.todo /\ y.block = b
    BY <2>2
  <2>4. CommsOf(z, (x.blocks \ x.todo) \cup {b}) = CommsOf(z, x.blocks \ x.todo) \cup {<<z, b>>}
    BY DEF CommsOf
  <2>5. members' = members /\ entities' = entities
    BY <1>6 DEF UpsertCommunity
  <2> HIDE DEF x, y
  <2>6. Progress(z, y, entities', comms', members')
    BY <2>1, <2>2, <2>3, <2>4, <2>5 DEF Progress
  <2> QED
    BY <2>6 DEF y
<1>7. CASE InsertMembers(z)
  <2> DEFINE rest == x.todo \ {x.block}
             c == <<z, x.block>>
  <2>1. /\ x.pc = "man" /\ "pc" \in DOMAIN x /\ x.block \in x.todo /\ x.todo \subseteq x.blocks
        /\ comms = CommsOf(z, (x.blocks \ x.todo) \cup {x.block})
        /\ members = MembersOf(z, x.blocks \ x.todo)
        /\ Unassigned(entities)
        /\ comms' = comms /\ entities' = entities
    BY <1>0, <1>7 DEF InsertMembers, FinOK, Progress
  <2>2. CASE y = [x EXCEPT !.pc = "failed"]
    <3>1. y.pc = "failed"
      BY <2>1, <2>2
    <3> QED
      BY <3>1 DEF Progress
  <2>3. ASSUME members' = members \cup {<<c, i>> : i \in x.block},
               NEW p, p = IF rest = {} THEN "assign" ELSE "write",
               y = [pc |-> p, rows |-> x.rows, rels |-> x.rels, blocks |-> x.blocks, todo |-> rest]
        PROVE  Progress(z, y, entities', comms', members')
    <3>1. y.pc = p /\ y.blocks = x.blocks /\ y.todo = rest
      BY <2>3, FiveGoesOn
    <3>2. x.blocks \ rest = (x.blocks \ x.todo) \cup {x.block}
      BY <2>1
    <3>3. members' = MembersOf(z, x.blocks \ rest)
      <4> DEFINE B == x.blocks \ x.todo
                 b == x.block
      <4> HIDE DEF B, b
      <4>1. MembersOf(z, B \cup {b}) = MembersOf(z, B) \cup {<<<<z, b>>, i>> : i \in b}
        BY MembersAdded
      <4> QED
        BY <2>1, <2>3, <3>2, <4>1 DEF B, b
    <3>4. p \in {"write", "assign"} /\ (p = "assign" => rest = {})
      BY <2>3
    <3> HIDE DEF x, y, rest
    <3> QED
      BY <2>1, <3>1, <3>2, <3>3, <3>4 DEF Progress
  <2>4. \/ y = [x EXCEPT !.pc = "failed"]
        \/ /\ members' = members \cup {<<c, i>> : i \in x.block}
           /\ y = [pc |-> IF rest = {} THEN "assign" ELSE "write", rows |-> x.rows,
                   rels |-> x.rels, blocks |-> x.blocks, todo |-> rest]
    BY <1>0, <1>7 DEF InsertMembers
  <2> QED
    BY <2>2, <2>3, <2>4
<1>8. CASE AssignCommunities(z)
  <2>1. /\ x.pc = "assign" /\ x.todo = {}
        /\ comms = CommsOf(z, x.blocks) /\ members = MembersOf(z, x.blocks)
        /\ Unassigned(entities)
        /\ comms' = comms /\ members' = members
    <3>1. x.pc = "assign"
      BY <1>8 DEF AssignCommunities
    <3>2. x.todo = {} /\ x.blocks \ {} = x.blocks
      BY <3>1 DEF Progress
    <3> QED
      BY <1>8, <3>1, <3>2 DEF AssignCommunities, Progress
  <2>2. x = [pc |-> x.pc, rows |-> x.rows, rels |-> x.rels, blocks |-> x.blocks, todo |-> x.todo]
        /\ y = [x EXCEPT !.pc = "embed"]
    BY <1>0, <1>8, <2>1 DEF AssignCommunities, FinOK
  <2>3. y.pc = "embed" /\ y.blocks = x.blocks
    BY <2>2
  <2>4. InCommunities(z, x.blocks, entities')
    <3>1. /\ Len(entities') = Len(entities)
          /\ \A i \in 1 .. Len(entities) :
                entities'[i] = Assigned(entities[i], CommunityOf(z, i), Degree(i, x.rels))
      BY <1>8, AssignEffect
    <3>2. \A i : CommunityOf(z, i) = CommIn(z, x.blocks, i)
      BY DEF CommunityOf, CommIn
    <3>3. \A r, k, d : /\ Assigned(r, k, d).desc = r.desc
                       /\ Assigned(r, k, d).comm = IF k = NoComm THEN r.comm ELSE k
      BY DEF Assigned
    <3> HIDE DEF x
    <3> QED
      BY <2>1, <3>1, <3>2, <3>3 DEF InCommunities, Unassigned
  <2> HIDE DEF x, y
  <2>5. Progress(z, y, entities', comms', members')
    BY <2>1, <2>3, <2>4 DEF Progress
  <2> QED
    BY <2>5 DEF y
<1>9. CASE WriteVectors(z) \/ NoVectors(z)
  <2>1. /\ x.pc = "embed" /\ y = [x EXCEPT !.pc = "ok"]
        /\ comms = CommsOf(z, x.blocks) /\ members = MembersOf(z, x.blocks)
        /\ InCommunities(z, x.blocks, entities)
        /\ comms' = comms /\ members' = members
    BY <1>0, <1>9 DEF WriteVectors, NoVectors, Progress, tables
  <2>2. x = [pc |-> x.pc, rows |-> x.rows, rels |-> x.rels, blocks |-> x.blocks, todo |-> x.todo]
    BY <1>0, <2>1 DEF FinOK
  <2>3. y.pc = "ok" /\ y.blocks = x.blocks
    BY <2>1, <2>2
  <2>4. InCommunities(z, x.blocks, entities')
    <3>1. CASE WriteVectors(z)
      <4>1. /\ Len(entities') = Len(entities)
            /\ \A i \in 1 .. Len(entities') : entities'[i].desc = 0 => entities'[i] = entities[i]
        BY <3>1, VectorsKeep
      <4> QED
        BY <2>1, <4>1 DEF InCommunities
    <3>2. CASE NoVectors(z)
      BY <2>1, <3>2 DEF NoVectors, tables
    <3> QED
      BY <1>9, <3>1, <3>2
  <2> HIDE DEF x, y
  <2>5. Progress(z, y, entities', comms', members')
    BY <2>1, <2>3, <2>4 DEF Progress
  <2> QED
    BY <2>5 DEF y
<1> QED
  BY <1>1, <1>2, <1>3, <1>4, <1>5, <1>6, <1>7, <1>8, <1>9 DEF FinStep

(* Another extraction goes on beside the call. *)
LEMMA ProgressBesideUpsert ==
    ASSUME BasicInv, NEW z \in Finalizes, NEW f \in Files, UpsertEntities(f),
           Progress(z, fin[z], entities, comms, members)
    PROVE  Progress(z, fin[z], entities', comms, members)
<1>0. Rows(entities') /\ Len(entities') \in Nat /\ FinOK(fin[z], entities) /\ Len(entities) \in Nat
  <2>1. Rows(entities')
    BY UpsertEffect
  <2> QED
    BY <2>1 DEF BasicInv, Rows
<1>1. \A i \in 1 .. Len(entities') : entities'[i].desc = 0 =>
              \/ i \in 1 .. Len(entities) /\ entities'[i] = entities[i]
              \/ i > Len(entities) /\ entities'[i].comm = NoComm
  BY UpsertKeeps
<1>2. Unassigned(entities) => Unassigned(entities')
  BY <1>1 DEF Unassigned
<1>3. ASSUME fin[z].pc \in {"embed", "ok"}, InCommunities(z, fin[z].blocks, entities)
      PROVE  InCommunities(z, fin[z].blocks, entities')
  <2>1. Rows(fin[z].rows) /\ Len(fin[z].rows) =< Len(entities) /\ Blocks(fin[z])
    BY <1>0, <1>3 DEF FinOK, Loads, Kept
  <2>2. \A i \in 1 .. Len(entities') : i > Len(entities) => CommIn(z, fin[z].blocks, i) = NoComm
    <3> TAKE i \in 1 .. Len(entities')
    <3> HAVE i > Len(entities)
    <3>1. i \in Nat /\ Len(fin[z].rows) \in Nat /\ i > Len(fin[z].rows)
      BY <1>0, <2>1 DEF Rows
    <3>2. \A b \in fin[z].blocks : b \subseteq 1 .. Len(fin[z].rows)
      BY <2>1 DEF Blocks
    <3> QED
      BY <3>1, <3>2, NoCommunityBeyond
  <2> QED
    BY <1>1, <1>3, <2>2 DEF InCommunities
<1> QED
  BY <1>2, <1>3 DEF Progress

(* Of two calls, one that has not cleared anything yet writes nothing. *)
LEMMA OthersWait ==
    ASSUME BasicInv, NEW y \in Finalizes, FinStep(y), ~ClearMembers(y), y \notin Writing
    PROVE  UNCHANGED <<entities, comms, members>> /\ y \notin Writing'
<1>0. fin = [e \in Finalizes |-> fin[e]] /\ FinOK(fin[y], entities)
  BY DEF BasicInv, Functions
<1>1. LoadEntities(y) \/ LoadRelationships(y) \/ CheckFingerprint(y) \/ FinalizeFails(y)
  BY DEF FinStep, Writing, ClearComms, ClearEntities, UpsertCommunity, InsertMembers, AssignCommunities,
     WriteVectors, NoVectors
<1>2. UNCHANGED <<entities, comms, members>>
  BY <1>1 DEF LoadEntities, LoadRelationships, CheckFingerprint, FinalizeFails, tables
<1>3. fin'[y].pc \in {"failed", "rels", "check", "skipped", "clear"}
  <2>1. CASE LoadEntities(y)
    <3>1. fin'[y] = IF entities = <<>> THEN [pc |-> "failed"] ELSE [pc |-> "rels", rows |-> entities]
      BY <1>0, <2>1 DEF LoadEntities
    <3> QED
      BY <3>1
  <2>2. CASE LoadRelationships(y)
    <3>1. fin'[y] = [pc |-> "check", rows |-> fin[y].rows, rels |-> rels]
      BY <1>0, <2>2 DEF LoadRelationships
    <3> QED
      BY <3>1
  <2>3. CASE CheckFingerprint(y) \/ FinalizeFails(y)
    <3>1. "pc" \in DOMAIN fin[y]
      BY <1>0, <2>3 DEF CheckFingerprint, FinalizeFails, FinOK
    <3>2. \E p \in {"skipped", "clear", "failed"} : fin'[y] = [fin[y] EXCEPT !.pc = p]
      BY <1>0, <2>3 DEF CheckFingerprint, FinalizeFails
    <3> QED
      BY <3>1, <3>2
  <2> QED
    BY <1>1, <2>1, <2>2, <2>3
<1> QED
  BY <1>2, <1>3 DEF Writing

(* What the tables hold of an undisturbed call follows its progress. *)
LEMMA NextAlone == BasicInv /\ AloneInv /\ [Next]_vars => AloneInv'
<1> SUFFICES ASSUME BasicInv, AloneInv, [Next]_vars, NEW z \in Finalizes, lastFin' = z, z \notin mixed'
             PROVE  Writing' \subseteq {z} /\ Progress(z, fin'[z], entities', comms', members')
  BY DEF AloneInv
<1>0. fin = [e \in Finalizes |-> fin[e]]
  BY DEF BasicInv, Functions
<1>1. ASSUME NEW y \in Finalizes, FinStep(y)
      PROVE  \A e \in Finalizes : e # y => fin'[e] = fin[e]
  BY <1>0, <1>1 DEF FinStep, LoadEntities, LoadRelationships, CheckFingerprint, ClearMembers, ClearComms,
     ClearEntities, UpsertCommunity, InsertMembers, AssignCommunities, WriteVectors, NoVectors, FinalizeFails
<1>2. CASE ClearMembers(z)
  <2>1. Writing = {} /\ members' = {}
    BY <1>2 DEF ClearMembers
  <2>2. fin'[z].pc = "clear2"
    <3>1. fin[z].pc = "clear" /\ "pc" \in DOMAIN fin[z] /\ fin'[z] = [fin[z] EXCEPT !.pc = "clear2"]
      BY <1>0, <1>2 DEF ClearMembers, BasicInv, FinOK
    <3> QED
      BY <3>1
  <2>3. Writing' \subseteq {z}
    BY <1>1, <1>2, <2>1 DEF Writing, FinStep
  <2> QED
    BY <2>1, <2>2, <2>3 DEF Progress
<1>3. ASSUME NEW y \in Finalizes, y # z, ClearMembers(y) PROVE FALSE
  BY <1>3 DEF ClearMembers
<1>4. CASE ~ \E y \in Finalizes : ClearMembers(y)
  <2>1. lastFin' = lastFin /\ mixed' = mixed
    BY <1>4, FinSteps DEF FinStep, LoadEntities, LoadRelationships, CheckFingerprint, ClearComms,
       ClearEntities, UpsertCommunity, InsertMembers, AssignCommunities, WriteVectors, NoVectors, FinalizeFails
  <2>2. Writing \subseteq {z} /\ Progress(z, fin[z], entities, comms, members)
    BY <2>1 DEF AloneInv
  <2>3. CASE FinStep(z)
    BY <1>1, <1>4, <2>2, <2>3, OwnSteps DEF Writing
  <2>4. ASSUME NEW y \in Finalizes, y # z, FinStep(y)
        PROVE  Writing' \subseteq {z} /\ Progress(z, fin'[z], entities', comms', members')
    <3>1. y \notin Writing /\ fin'[z] = fin[z]
      BY <1>1, <2>2, <2>4
    <3>2. UNCHANGED <<entities, comms, members>> /\ y \notin Writing'
      BY <1>4, <2>4, <3>1, OthersWait
    <3>3. Writing' \subseteq {z}
      BY <1>1, <2>2, <2>4, <3>2 DEF Writing
    <3> QED
      BY <2>2, <3>1, <3>2, <3>3
  <2>5. CASE UNCHANGED <<fin, comms, members>>
    <3>1. Writing' = Writing
      BY <2>5 DEF Writing
    <3>2. CASE \E f \in Files : UpsertEntities(f)
      BY <2>2, <2>5, <3>1, <3>2, ProgressBesideUpsert
    <3>3. CASE UNCHANGED entities
      BY <2>2, <2>5, <3>1, <3>3
    <3>4. ASSUME NEW y \in Finalizes, ClearEntities(y) \/ AssignCommunities(y) \/ WriteVectors(y)
          PROVE  Writing' \subseteq {z} /\ Progress(z, fin'[z], entities', comms', members')
      BY <2>3, <2>4, <3>4 DEF FinStep
    <3> QED
      BY <3>2, <3>3, <3>4, EntitySteps
  <2> QED
    BY <2>3, <2>4, <2>5, FinSteps
<1> QED
  BY <1>2, <1>3, <1>4

(* The call of Finalize that cleared the communities last, if it returned   *)
(* nil and no other wrote at the same time, has left exactly its partition, *)
(* whatever the extractions that run beside it rewrite or insert.           *)
THEOREM UndisturbedIsPartition == Spec => []CommunitiesAreThePartition
<1>1. Init => AloneInv
  <2> SUFFICES ASSUME Init, NEW z \in Finalizes PROVE Writing \subseteq {z} /\ Progress(z, fin[z], entities, comms, members)
    BY DEF AloneInv
  <2>1. fin = [e \in Finalizes |-> [pc |-> "new"]]
    BY DEF Init
  <2>2. \A e \in Finalizes : fin[e].pc = "new"
    BY <2>1
  <2> QED
    BY <2>2 DEF Writing, Progress
<1>2. BasicInv /\ AloneInv => CommunitiesAreThePartition
  <2> SUFFICES ASSUME BasicInv, AloneInv, NEW z \in Finalizes, Undisturbed(z)
               PROVE  /\ comms = {<<z, b>> : b \in fin[z].blocks}
                      /\ members = UNION {{<<<<z, b>>, i>> : i \in b} : b \in fin[z].blocks}
                      /\ \A i \in DOMAIN entities : entities[i].desc = 0 => entities[i].comm = CommunityOf(z, i)
    BY DEF CommunitiesAreThePartition
  <2>1. fin[z].pc = "ok" /\ Progress(z, fin[z], entities, comms, members)
    BY DEF Undisturbed, AloneInv
  <2>2. /\ comms = CommsOf(z, fin[z].blocks) /\ members = MembersOf(z, fin[z].blocks)
        /\ InCommunities(z, fin[z].blocks, entities)
    BY <2>1 DEF Progress
  <2>3. DOMAIN entities = 1 .. Len(entities)
    BY DEF BasicInv, Rows
  <2>4. \A i : CommunityOf(z, i) = CommIn(z, fin[z].blocks, i)
    BY DEF CommunityOf, CommIn
  <2> QED
    BY <2>2, <2>3, <2>4 DEF CommsOf, MembersOf, InCommunities
<1> QED
  BY <1>1, <1>2, NextAlone, BasicInvariant, PTL DEF Spec
=============================================================================
