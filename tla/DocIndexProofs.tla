---------------------------- MODULE DocIndexProofs ----------------------------
(***************************************************************************)
(* Proofs about DocIndex, for any files, contents, workers and bounds.     *)
(***************************************************************************)
EXTENDS DocIndex, FiniteSetTheorems, SequenceTheorems, TLAPS

Rows == 1 .. Len(docs)

(* No two calls work on one path.                                          *)
Exclusive ==
    \A i, k \in Indexers :
        pc[i] \in Working /\ pc[k] \in Working /\ path[i] = path[k] => i = k

(* What a call knows of the rows of its path.                              *)
Informed(i) ==
    /\ pc[i] \in {"refresh", "supersede", "chunks", "embed"} => existing[i] # 0
    /\ pc[i] \in {"read", "refresh", "supersede", "chunks", "embed"} =>
          \A d \in Rows : docs[d].path = path[i] /\ docs[d].latest => d = existing[i]
    /\ pc[i] \in {"load", "insert"} =>
          /\ \A d \in Rows : docs[d].path = path[i] => ~docs[d].latest
          /\ hash[i] # None
    /\ pc[i] \in Working \ {"lookup"} /\ existing[i] # 0 =>
          /\ docs[existing[i]].path = path[i]
          /\ \A d \in Rows : docs[d].canonical = docs[existing[i]].canonical
                                => d =< existing[i]
    /\ pc[i] \in {"refresh", "supersede"} => hash[i] # None
    /\ pc[i] \in {"insert", "chunks", "embed"} => loaded[i] # None
    /\ pc[i] = "embed" => docs[existing[i]].chunks # None

CallInv == \A i \in Indexers : Informed(i)

UniqueLatest ==
    \A d, e \in Rows :
        docs[d].path = docs[e].path /\ docs[d].latest /\ docs[e].latest => d = e

(* A fresh canonical ID is that of no row.                                 *)
CanonicalInv == \A d \in Rows : docs[d].canonical \in -Len(docs) .. -1

HistoryInv == CanonicalInv /\ HistoryWellFormed /\ NoVersionGap

(* A document that is not whole has a call at work on it or a flaw.         *)
CompleteInv ==
    \A d \in Rows :
        \/ <<d, "cut">> \in flaws
        \/ docs[d].chunks # None /\ (docs[d].embedded \/ <<d, "bare">> \in flaws)
        \/ \E i \in Indexers : pc[i] \in {"chunks", "embed"} /\ existing[i] = d

(* The text a call hashed is the text it loads and chunks, as long as the  *)
(* file is left alone.                                                     *)
TextInv ==
    /\ \A d \in Rows : docs[d].chunks \in {None, docs[d].hash} \/ <<d, "torn">> \in flaws
    /\ \A i \in Indexers :
          /\ pc[i] \in {"supersede", "load"} /\ ~outdated[i] => hash[i] = content[path[i]]
          /\ pc[i] \in {"insert", "chunks"} /\ ~outdated[i] => loaded[i] = hash[i]
          /\ pc[i] = "chunks" => docs[existing[i]].hash = hash[i]

IInv ==
    /\ TypeOK
    /\ Exclusive /\ CallInv
    /\ UniqueLatest /\ HistoryInv /\ CompleteInv /\ TextInv

-----------------------------------------------------------------------------

(* The inductive invariant holds before the first call.                    *)
LEMMA InitIInv == Init => IInv
<1> SUFFICES ASSUME Init PROVE IInv
  OBVIOUS
<1> USE ContentsAssumption, BoundsAssumption
<1>1. TypeOK
  <2>1. path \in [Indexers -> Paths]
    BY PathsAssumption DEF Init
  <2>2. docs \in Seq(Document) /\ Len(docs) = 0
    BY DEF Init
  <2> QED
    BY <2>1, <2>2 DEF Init, TypeOK, Contents, Working, Ended
<1>2. Exclusive /\ CallInv /\ UniqueLatest
  BY DEF Init, Exclusive, CallInv, Informed, UniqueLatest, Rows, Working
<1>3. HistoryInv /\ CompleteInv /\ TextInv
  BY DEF Init, HistoryInv, CanonicalInv, HistoryWellFormed, NoVersionGap, CompleteInv, TextInv, Rows
<1> QED
  BY <1>1, <1>2, <1>3 DEF IInv

-----------------------------------------------------------------------------
(* What each statement does to the table *)

Same(d, fields) == \A f \in fields : docs'[d][f] = docs[d][f]

(* The row a call works on is a row of the table.                          *)
LEMMA ExistingRow ==
    ASSUME TypeOK, CallInv, NEW i \in Indexers,
           pc[i] \in {"refresh", "supersede", "chunks", "embed"}
    PROVE  existing[i] \in Rows /\ docs[existing[i]] \in Document
  BY DEF TypeOK, CallInv, Informed, Rows

(* An update of one row by a record of the table.                          *)
LEMMA UpdateRow ==
    ASSUME TypeOK, NEW e \in Rows, NEW x \in Document, docs' = [docs EXCEPT ![e] = x]
    PROVE  /\ docs' \in Seq(Document) /\ Len(docs') = Len(docs)
           /\ \A d \in Rows : docs'[d] = IF d = e THEN x ELSE docs[d]
  BY ExceptSeq DEF TypeOK, Rows

(* A row gets another mtime at most.                                       *)
RowRefreshed(i) ==
    /\ docs' \in Seq(Document) /\ Len(docs') = Len(docs)
    /\ \A d \in Rows :
          /\ docs'[d].path = docs[d].path /\ docs'[d].hash = docs[d].hash
          /\ docs'[d].version = docs[d].version
          /\ docs'[d].canonical = docs[d].canonical
          /\ (docs'[d].latest <=> docs[d].latest)
          /\ docs'[d].chunks = docs[d].chunks
          /\ (docs'[d].embedded <=> docs[d].embedded)
          /\ docs'[d].mtime \in {docs[d].mtime, statted[i]}
          /\ d # existing[i] => docs'[d] = docs[d]

(* Refresh changes the mtime of its own row and nothing else.              *)
LEMMA RefreshRow ==
    ASSUME TypeOK, CallInv, NEW i \in Indexers, Refresh(i)
    PROVE  RowRefreshed(i)
<1> DEFINE x == [docs[existing[i]] EXCEPT !.mtime = statted[i]]
<1>1. existing[i] \in Rows /\ docs[existing[i]] \in Document
  BY ExistingRow DEF Refresh
<1>2. x \in Document
  BY <1>1 DEF Document, TypeOK
<1>3. CASE UNCHANGED docs
  BY <1>3 DEF TypeOK, RowRefreshed
<1>4. CASE docs' = [docs EXCEPT ![existing[i]] = x]
  <2>1. /\ docs' \in Seq(Document) /\ Len(docs') = Len(docs)
        /\ \A d \in Rows : docs'[d] = IF d = existing[i] THEN x ELSE docs[d]
    <3> HIDE DEF x
    <3> QED
      BY <1>1, <1>2, <1>4, UpdateRow
  <2>2. /\ x.path = docs[existing[i]].path /\ x.hash = docs[existing[i]].hash
        /\ x.version = docs[existing[i]].version /\ x.canonical = docs[existing[i]].canonical
        /\ x.latest = docs[existing[i]].latest /\ x.mtime = statted[i]
        /\ x.chunks = docs[existing[i]].chunks /\ x.embedded = docs[existing[i]].embedded
    BY <1>1 DEF Document
  <2> HIDE DEF x
  <2> QED
    BY <2>1, <2>2 DEF RowRefreshed
<1> QED
  BY <1>3, <1>4 DEF Refresh

(* A row stops being the latest.                                           *)
RowSuperseded(i) ==
    /\ docs' \in Seq(Document) /\ Len(docs') = Len(docs)
    /\ \A d \in Rows :
          /\ docs'[d].path = docs[d].path /\ docs'[d].hash = docs[d].hash
          /\ docs'[d].version = docs[d].version
          /\ docs'[d].canonical = docs[d].canonical
          /\ d = existing[i] => ~docs'[d].latest
          /\ docs'[d].chunks = docs[d].chunks
          /\ (docs'[d].embedded <=> docs[d].embedded)
          /\ docs'[d].mtime = docs[d].mtime
          /\ d # existing[i] => docs'[d] = docs[d]

(* SupersedeDocument clears the latest flag of its own row and nothing     *)
(* else.                                                                   *)
LEMMA SupersedeRow ==
    ASSUME TypeOK, CallInv, NEW i \in Indexers, Supersede(i)
    PROVE  RowSuperseded(i)
<1> DEFINE x == [docs[existing[i]] EXCEPT !.latest = FALSE]
<1>1. existing[i] \in Rows /\ docs[existing[i]] \in Document
  BY ExistingRow DEF Supersede
<1>2. x \in Document
  BY <1>1 DEF Document
<1>3. docs' = [docs EXCEPT ![existing[i]] = x]
  BY DEF Supersede
<1> QED
  <2>1. /\ docs' \in Seq(Document) /\ Len(docs') = Len(docs)
        /\ \A d \in Rows : docs'[d] = IF d = existing[i] THEN x ELSE docs[d]
    <3> HIDE DEF x
    <3> QED
      BY <1>1, <1>2, <1>3, UpdateRow
  <2>2. /\ x.path = docs[existing[i]].path /\ x.hash = docs[existing[i]].hash
        /\ x.version = docs[existing[i]].version /\ x.canonical = docs[existing[i]].canonical
        /\ x.latest = FALSE /\ x.mtime = docs[existing[i]].mtime
        /\ x.chunks = docs[existing[i]].chunks /\ x.embedded = docs[existing[i]].embedded
    BY <1>1 DEF Document
  <2> HIDE DEF x
  <2> QED
    BY <2>1, <2>2 DEF RowSuperseded

(* A row gets the chunks of what the call has loaded.                      *)
RowChunked(i) ==
    /\ docs' \in Seq(Document) /\ Len(docs') = Len(docs)
    /\ \A d \in Rows :
          /\ docs'[d].path = docs[d].path /\ docs'[d].hash = docs[d].hash
          /\ docs'[d].version = docs[d].version
          /\ docs'[d].canonical = docs[d].canonical
          /\ (docs'[d].latest <=> docs[d].latest)
          /\ (docs'[d].embedded <=> docs[d].embedded)
          /\ docs'[d].mtime = docs[d].mtime
          /\ d # existing[i] => docs'[d] = docs[d]
          /\ d = existing[i] => docs'[d].chunks = loaded[i]

(* InsertChunks gives its own row chunks and changes nothing else.         *)
LEMMA ChunksRow ==
    ASSUME TypeOK, CallInv, NEW i \in Indexers, InsertChunks(i)
    PROVE  RowChunked(i)
<1> DEFINE x == [docs[existing[i]] EXCEPT !.chunks = loaded[i]]
<1>1. existing[i] \in Rows /\ docs[existing[i]] \in Document
  BY ExistingRow DEF InsertChunks
<1>2. x \in Document
  BY <1>1 DEF Document, TypeOK
<1>3. docs' = [docs EXCEPT ![existing[i]] = x]
  BY DEF InsertChunks
<1> QED
  <2>1. /\ docs' \in Seq(Document) /\ Len(docs') = Len(docs)
        /\ \A d \in Rows : docs'[d] = IF d = existing[i] THEN x ELSE docs[d]
    <3> HIDE DEF x
    <3> QED
      BY <1>1, <1>2, <1>3, UpdateRow
  <2>2. /\ x.path = docs[existing[i]].path /\ x.hash = docs[existing[i]].hash
        /\ x.version = docs[existing[i]].version /\ x.canonical = docs[existing[i]].canonical
        /\ x.latest = docs[existing[i]].latest /\ x.mtime = docs[existing[i]].mtime
        /\ x.chunks = loaded[i] /\ x.embedded = docs[existing[i]].embedded
    BY <1>1 DEF Document
  <2> HIDE DEF x
  <2> QED
    BY <2>1, <2>2 DEF RowChunked

(* A row gets its embeddings, or stays without them.                       *)
RowEmbedded(i) ==
    /\ docs' \in Seq(Document) /\ Len(docs') = Len(docs)
    /\ \A d \in Rows :
          /\ docs'[d].path = docs[d].path /\ docs'[d].hash = docs[d].hash
          /\ docs'[d].version = docs[d].version
          /\ docs'[d].canonical = docs[d].canonical
          /\ (docs'[d].latest <=> docs[d].latest)
          /\ docs'[d].chunks = docs[d].chunks
          /\ docs'[d].mtime = docs[d].mtime
          /\ d # existing[i] => docs'[d] = docs[d]

(* Embed gives its own row embeddings or marks it as bare, and changes no  *)
(* other row.                                                              *)
LEMMA EmbedRow ==
    ASSUME TypeOK, CallInv, NEW i \in Indexers, Embed(i)
    PROVE  /\ RowEmbedded(i) /\ flaws \subseteq flaws'
           /\ flaws' \subseteq flaws \cup {<<existing[i], "bare">>}
           /\ docs'[existing[i]].embedded \/ <<existing[i], "bare">> \in flaws'
           /\ docs[existing[i]].embedded => docs'[existing[i]].embedded
<1> DEFINE x == [docs[existing[i]] EXCEPT !.embedded = TRUE]
<1>1. existing[i] \in Rows /\ docs[existing[i]] \in Document
  BY ExistingRow DEF Embed
<1>2. x \in Document
  BY <1>1 DEF Document
<1>3. CASE provider
  <2>1. docs' = [docs EXCEPT ![existing[i]] = x] /\ flaws' = flaws
    BY <1>3 DEF Embed
  <2>2. /\ docs' \in Seq(Document) /\ Len(docs') = Len(docs)
        /\ \A d \in Rows : docs'[d] = IF d = existing[i] THEN x ELSE docs[d]
    <3> HIDE DEF x
    <3> QED
      BY <1>1, <1>2, <2>1, UpdateRow
  <2>3. /\ x.path = docs[existing[i]].path /\ x.hash = docs[existing[i]].hash
        /\ x.version = docs[existing[i]].version /\ x.canonical = docs[existing[i]].canonical
        /\ x.latest = docs[existing[i]].latest /\ x.mtime = docs[existing[i]].mtime
        /\ x.chunks = docs[existing[i]].chunks /\ x.embedded = TRUE
    BY <1>1 DEF Document
  <2> HIDE DEF x
  <2> QED
    BY <2>1, <2>2, <2>3 DEF RowEmbedded
<1>4. CASE ~provider
  <2>1. docs' = docs /\ flaws' = flaws \cup {<<existing[i], "bare">>}
    BY <1>4 DEF Embed
  <2> QED
    BY <2>1 DEF RowEmbedded, TypeOK
<1> QED
  BY <1>3, <1>4 DEF TypeOK

(* A row is added to the end: the next version, or the first of a new history. *)
RowInserted(i) ==
    /\ docs' \in Seq(Document) /\ Len(docs') = Len(docs) + 1
    /\ \A d \in Rows : docs'[d] = docs[d]
    /\ docs'[Len(docs) + 1].path = path[i]
    /\ docs'[Len(docs) + 1].hash = hash[i]
    /\ docs'[Len(docs) + 1].latest
    /\ docs'[Len(docs) + 1].mtime = statted[i]
    /\ docs'[Len(docs) + 1].chunks = None
    /\ existing[i] = 0 =>
          /\ docs'[Len(docs) + 1].version = 1
          /\ docs'[Len(docs) + 1].canonical = -(Len(docs) + 1)
    /\ existing[i] # 0 =>
          /\ docs'[Len(docs) + 1].version = docs[existing[i]].version + 1
          /\ docs'[Len(docs) + 1].canonical = docs[existing[i]].canonical

(* InsertDocument appends one row and leaves the others.                   *)
LEMMA InsertRow ==
    ASSUME TypeOK, CallInv, NEW i \in Indexers, InsertDocument(i), ~HashTaken(i)
    PROVE  RowInserted(i)
<1>1. NewDocument(i) \in Document
  <2>1. existing[i] # 0 => docs[existing[i]] \in Document
    BY DEF TypeOK
  <2>2. NextVersion(i) \in Nat \ {0} /\ CanonicalID(i) \in Int
    <3>1. Len(docs) \in Nat
      BY DEF TypeOK
    <3> QED
      BY <2>1, <3>1 DEF NextVersion, CanonicalID, Document
  <2>3. hash[i] \in Contents
    BY DEF TypeOK, CallInv, Informed, InsertDocument
  <2> QED
    BY <2>2, <2>3 DEF NewDocument, Document, TypeOK
<1>2. docs' = Append(docs, NewDocument(i)) /\ docs \in Seq(Document)
  BY DEF InsertDocument, TypeOK
<1>3. /\ docs' \in Seq(Document) /\ Len(docs') = Len(docs) + 1
      /\ \A d \in Rows : docs'[d] = docs[d]
      /\ docs'[Len(docs) + 1] = NewDocument(i)
  BY <1>1, <1>2, AppendProperties DEF Rows
<1> QED
  BY <1>3 DEF RowInserted, NewDocument, NextVersion, CanonicalID

(* As long as rows keep their place and only stop being the latest.        *)
LEMMA HistoryKept ==
    ASSUME TypeOK, HistoryInv, docs' \in Seq(Document), Len(docs') = Len(docs),
           \A d \in Rows : /\ docs'[d].path = docs[d].path
                           /\ docs'[d].version = docs[d].version
                           /\ docs'[d].canonical = docs[d].canonical
                           /\ docs'[d].latest => docs[d].latest
    PROVE  HistoryInv'
<1>1. Len(docs) \in Nat
  BY DEF TypeOK
<1>2. CanonicalInv'
  BY <1>1 DEF HistoryInv, CanonicalInv, Rows
<1>3. HistoryWellFormed'
  BY <1>1 DEF HistoryInv, HistoryWellFormed, Rows
<1>4. NoVersionGap'
  BY <1>1 DEF HistoryInv, NoVersionGap, Rows
<1> QED
  BY <1>2, <1>3, <1>4 DEF HistoryInv

(* A new row continues the history it was numbered for.                    *)
LEMMA HistoryInsert ==
    ASSUME TypeOK, CallInv, HistoryInv, NEW i \in Indexers, InsertDocument(i), ~HashTaken(i)
    PROVE  HistoryInv'
<1> DEFINE n == Len(docs) + 1
<1>1. Len(docs) \in Nat /\ pc[i] = "insert" /\ existing[i] \in 0 .. Len(docs)
  BY DEF TypeOK, InsertDocument
<1>2. \A d \in Rows : docs[d] \in Document
  BY DEF TypeOK, Rows
<1> HIDE DEF n
<1>6. RowInserted(i) /\ n = Len(docs) + 1
  BY InsertRow DEF n
<1>3. CanonicalInv'
  BY <1>1, <1>2, <1>6 DEF RowInserted, HistoryInv, CanonicalInv, Rows
<1>4. HistoryWellFormed'
  <2>1. ASSUME NEW d \in Rows, docs[d].canonical = docs'[n].canonical
        PROVE  docs[d].path = docs'[n].path /\ docs[d].version < docs'[n].version
               /\ ~docs[d].latest
    <3>1. existing[i] # 0
      BY <1>1, <2>1, <1>6 DEF RowInserted, HistoryInv, CanonicalInv, Rows
    <3>2. existing[i] \in Rows /\ docs'[n].canonical = docs[existing[i]].canonical
          /\ docs'[n].version = docs[existing[i]].version + 1 /\ docs'[n].path = path[i]
      BY <1>1, <3>1, <1>6 DEF RowInserted, Rows
    <3>3. docs[existing[i]].path = path[i] /\ d =< existing[i]
      BY <1>1, <2>1, <3>1, <3>2 DEF CallInv, Informed, Working
    <3>4. docs[d].path = path[i] /\ docs[d].version =< docs[existing[i]].version
      <4>1. CASE d = existing[i]
        BY <1>2, <3>2, <3>3, <4>1 DEF Document
      <4>2. CASE d # existing[i]
        <5>1. d < existing[i] /\ docs[d].canonical = docs[existing[i]].canonical
          BY <1>1, <2>1, <3>2, <3>3, <4>2 DEF Rows
        <5>2. docs[d].path = docs[existing[i]].path /\ docs[d].version < docs[existing[i]].version
          BY <3>2, <5>1 DEF HistoryInv, HistoryWellFormed, Rows
        <5> QED
          BY <1>2, <3>2, <3>3, <5>2 DEF Document
      <4> QED
        BY <4>1, <4>2
    <3> QED
      BY <1>1, <1>2, <3>2, <3>4 DEF CallInv, Informed, Document
  <2> QED
    BY <1>1, <2>1, <1>6 DEF RowInserted, HistoryInv, HistoryWellFormed, Rows
<1>5. NoVersionGap'
  <2>1. docs'[n].version > 1 =>
          /\ existing[i] \in Rows
          /\ docs[existing[i]].canonical = docs'[n].canonical
          /\ docs[existing[i]].version = docs'[n].version - 1
    <3>1. existing[i] # 0 => existing[i] \in Rows /\ docs[existing[i]].version \in Nat
      BY <1>1, <1>2 DEF Rows, Document
    <3> QED
      BY <1>1, <3>1, <1>6 DEF RowInserted
  <2> QED
    BY <1>1, <2>1, <1>6 DEF RowInserted, HistoryInv, NoVersionGap, Rows
<1> QED
  BY <1>3, <1>4, <1>5 DEF HistoryInv

-----------------------------------------------------------------------------
(* The steps *)

(* Types.                                                                  *)
LEMMA TypeOKStep == TypeOK /\ CallInv /\ [Next]_vars => TypeOK'
<1> SUFFICES ASSUME TypeOK, CallInv, [Next]_vars PROVE TypeOK'
  OBVIOUS
<1> USE ContentsAssumption, BoundsAssumption DEF Working, Ended, Contents, Rows,
     worldVars, callVars
<1>1. ASSUME NEW i \in Indexers, NEW p \in Paths, NEW f \in BOOLEAN,
             Stat(i, p, f) PROVE TypeOK'
  <2>1. outdated' \in [Indexers -> BOOLEAN]
    BY <1>1 DEF Stat, TypeOK
  <2>2. runs' \in 0 .. MaxRuns
    BY <1>1 DEF Stat, TypeOK
  <2> QED
    <3>1. path' \in [Indexers -> Paths] /\ pc' \in [Indexers -> Working \cup Ended]
      BY <1>1 DEF Stat, Goto, TypeOK
    <3>2. force' \in [Indexers -> BOOLEAN]
      BY <1>1 DEF Stat, TypeOK
    <3>3. statted' \in [Indexers -> Nat] /\ existing' \in [Indexers -> 0 .. Len(docs)]
      BY <1>1 DEF Stat, TypeOK
    <3>4. hash' \in [Indexers -> Contents \cup {None}] /\ loaded' \in [Indexers -> Contents \cup {None}]
      BY <1>1 DEF Stat, TypeOK
    <3> QED
      BY <1>1, <2>1, <2>2, <3>1, <3>2, <3>3, <3>4 DEF TypeOK, Stat
<1>2. ASSUME NEW i \in Indexers, Lookup(i) PROVE TypeOK'
  BY <1>2 DEF TypeOK, CallInv, Informed, Lookup, LatestOf, MtimeHit, Goto
<1>3. ASSUME NEW i \in Indexers, ReadFile(i) PROVE TypeOK'
  BY <1>3 DEF TypeOK, CallInv, Informed, ReadFile, HashHit, Goto
<1>4. ASSUME NEW i \in Indexers, Refresh(i) PROVE TypeOK'
  <2>1. /\ pc[i] = "refresh" /\ pc' = [pc EXCEPT ![i] = "ok"]
        /\ UNCHANGED << worldVars, callVars, existing, hash, loaded, runs, outdated, flaws >>
    BY <1>4 DEF Refresh, Goto
  <2>2. RowRefreshed(i)
    BY <1>4, RefreshRow
  <2> QED
    BY <2>1, <2>2 DEF RowRefreshed, TypeOK, CallInv, Informed
<1>5. ASSUME NEW i \in Indexers, Supersede(i) PROVE TypeOK'
  <2>1. /\ pc[i] = "supersede" /\ pc' = [pc EXCEPT ![i] = "load"]
        /\ UNCHANGED << worldVars, callVars, existing, hash, loaded, runs, outdated, flaws >>
    BY <1>5 DEF Supersede, Goto
  <2>2. RowSuperseded(i)
    BY <1>5, SupersedeRow
  <2> QED
    BY <2>1, <2>2 DEF RowSuperseded, TypeOK, CallInv, Informed
<1>6. ASSUME NEW i \in Indexers, Load(i) PROVE TypeOK'
  BY <1>6 DEF TypeOK, CallInv, Informed, Load, Goto
<1>7. ASSUME NEW i \in Indexers, InsertDocument(i) PROVE TypeOK'
  <2>1. CASE HashTaken(i)
    BY <1>7, <2>1 DEF TypeOK, InsertDocument, Goto
  <2>2. CASE ~HashTaken(i)
    <3>1. docs' \in Seq(Document) /\ Len(docs') = Len(docs) + 1 /\ Len(docs) \in Nat
      BY <1>7, <2>2, InsertRow DEF RowInserted, TypeOK
    <3>2. existing' \in [Indexers -> 0 .. Len(docs')] /\ flaws' \subseteq (1 .. Len(docs')) \X Flaws
      <4>1. existing' = [existing EXCEPT ![i] = Len(docs) + 1] /\ flaws' = flaws
        BY <1>7, <2>2 DEF InsertDocument
      <4>2. existing \in [Indexers -> 0 .. Len(docs)] /\ flaws \subseteq (1 .. Len(docs)) \X Flaws
        BY DEF TypeOK
      <4> QED
        BY <3>1, <4>1, <4>2
    <3> QED
      BY <1>7, <2>2, <3>1, <3>2 DEF TypeOK, InsertDocument, Goto
  <2> QED
    BY <2>1, <2>2
<1>8. ASSUME NEW i \in Indexers, InsertChunks(i) PROVE TypeOK'
  <2>1. /\ pc[i] = "chunks" /\ pc' = [pc EXCEPT ![i] = "embed"]
        /\ UNCHANGED << worldVars, callVars, existing, hash, loaded, runs, outdated >>
    BY <1>8 DEF InsertChunks, Goto
  <2>2. RowChunked(i)
    BY <1>8, ChunksRow
  <2>3. flaws' \subseteq (1 .. Len(docs)) \X Flaws
    BY <1>8, ExistingRow DEF InsertChunks, TypeOK, Flaws
  <2> QED
    BY <2>1, <2>2, <2>3 DEF RowChunked, TypeOK, CallInv, Informed
<1>9. ASSUME NEW i \in Indexers, Embed(i) PROVE TypeOK'
  <2>1. /\ pc[i] = "embed" /\ pc' = [pc EXCEPT ![i] = "ok"]
        /\ UNCHANGED << worldVars, callVars, existing, hash, loaded, runs, outdated >>
    BY <1>9 DEF Embed, Goto
  <2>2. RowEmbedded(i)
    BY <1>9, EmbedRow
  <2>3. flaws' \subseteq (1 .. Len(docs)) \X Flaws
    <3>1. existing[i] \in 1 .. Len(docs)
      BY <2>1, ExistingRow
    <3>2. flaws' \subseteq flaws \cup {<<existing[i], "bare">>}
      BY <1>9, EmbedRow
    <3> QED
      BY <3>1, <3>2 DEF TypeOK, Flaws
  <2> QED
    BY <2>1, <2>2, <2>3 DEF RowEmbedded, TypeOK, CallInv, Informed
<1>10. ASSUME NEW i \in Indexers, Abort(i) PROVE TypeOK'
  <2>1. CutShort(i) \subseteq Rows \X Flaws
    BY <1>10 DEF CutShort, TypeOK, CallInv, Informed, Flaws
  <2> QED
    BY <1>10, <2>1 DEF TypeOK, Abort, Goto
<1>11. ASSUME NEW p \in Paths, EditFile(p) PROVE TypeOK'
  BY <1>11 DEF TypeOK, CallInv, Informed, EditFile
<1>12. CASE UNCHANGED vars
  BY <1>12 DEF TypeOK, CallInv, Informed, vars
<1>13. CASE Reconfigure
  BY <1>13 DEF TypeOK, CallInv, Informed, Reconfigure
<1> QED
  BY <1>1, <1>2, <1>3, <1>4, <1>5, <1>6, <1>7, <1>8, <1>9, <1>10, <1>11, <1>12,
     <1>13 DEF Next, IndexStep

(* A call begins on a path no other call works on.                         *)
LEMMA ExclusiveStep == TypeOK /\ CallInv /\ Exclusive /\ [Next]_vars => Exclusive'
<1> SUFFICES ASSUME TypeOK, CallInv, Exclusive, [Next]_vars PROVE Exclusive'
  OBVIOUS
<1> USE ContentsAssumption, BoundsAssumption DEF Working, Ended, Contents, Rows,
     worldVars, callVars
<1>1. ASSUME NEW i \in Indexers, NEW p \in Paths, NEW f \in BOOLEAN,
             Stat(i, p, f) PROVE Exclusive'
  BY <1>1 DEF TypeOK, Exclusive, Stat, Goto
<1>2. ASSUME NEW i \in Indexers, Lookup(i) PROVE Exclusive'
  BY <1>2 DEF TypeOK, Exclusive, Lookup, LatestOf, MtimeHit, Goto
<1>3. ASSUME NEW i \in Indexers, ReadFile(i) PROVE Exclusive'
  BY <1>3 DEF TypeOK, Exclusive, ReadFile, HashHit, Goto
<1>4. ASSUME NEW i \in Indexers, Refresh(i) PROVE Exclusive'
  <2>1. /\ pc[i] = "refresh" /\ pc' = [pc EXCEPT ![i] = "ok"]
        /\ UNCHANGED << worldVars, callVars, existing, hash, loaded, runs, outdated, flaws >>
    BY <1>4 DEF Refresh, Goto
  <2>2. RowRefreshed(i)
    BY <1>4, RefreshRow
  <2> QED
    BY <2>1, <2>2 DEF RowRefreshed, TypeOK, Exclusive
<1>5. ASSUME NEW i \in Indexers, Supersede(i) PROVE Exclusive'
  <2>1. /\ pc[i] = "supersede" /\ pc' = [pc EXCEPT ![i] = "load"]
        /\ UNCHANGED << worldVars, callVars, existing, hash, loaded, runs, outdated, flaws >>
    BY <1>5 DEF Supersede, Goto
  <2>2. RowSuperseded(i)
    BY <1>5, SupersedeRow
  <2> QED
    BY <2>1, <2>2 DEF RowSuperseded, TypeOK, Exclusive
<1>6. ASSUME NEW i \in Indexers, Load(i) PROVE Exclusive'
  BY <1>6 DEF TypeOK, Exclusive, Load, Goto
<1>7. ASSUME NEW i \in Indexers, InsertDocument(i) PROVE Exclusive'
  <2>1. CASE HashTaken(i)
    BY <1>7, <2>1 DEF TypeOK, Exclusive, InsertDocument, Goto
  <2>3. ~HashTaken(i) =>
          /\ pc[i] = "insert" /\ pc' = [pc EXCEPT ![i] = "chunks"]
          /\ existing' = [existing EXCEPT ![i] = Len(docs) + 1]
          /\ UNCHANGED << worldVars, callVars, hash, loaded, runs, outdated, flaws >>
    BY <1>7 DEF InsertDocument, Goto
  <2>2. ASSUME ~HashTaken(i) PROVE Exclusive'
    BY <2>2, <2>3 DEF TypeOK, Exclusive
  <2> QED
    BY <2>1, <2>2
<1>8. ASSUME NEW i \in Indexers, InsertChunks(i) PROVE Exclusive'
  <2>1. /\ pc[i] = "chunks" /\ pc' = [pc EXCEPT ![i] = "embed"]
        /\ UNCHANGED << worldVars, callVars, existing, hash, loaded, runs, outdated >>
    BY <1>8 DEF InsertChunks, Goto
  <2>2. RowChunked(i)
    BY <1>8, ChunksRow
  <2> QED
    BY <2>1, <2>2 DEF RowChunked, TypeOK, Exclusive
<1>9. ASSUME NEW i \in Indexers, Embed(i) PROVE Exclusive'
  <2>1. /\ pc[i] = "embed" /\ pc' = [pc EXCEPT ![i] = "ok"]
        /\ UNCHANGED << worldVars, callVars, existing, hash, loaded, runs, outdated >>
    BY <1>9 DEF Embed, Goto
  <2>2. RowEmbedded(i)
    BY <1>9, EmbedRow
  <2> QED
    BY <2>1, <2>2 DEF RowEmbedded, TypeOK, Exclusive
<1>10. ASSUME NEW i \in Indexers, Abort(i) PROVE Exclusive'
  BY <1>10 DEF TypeOK, Exclusive, Abort, CutShort, Goto
<1>11. ASSUME NEW p \in Paths, EditFile(p) PROVE Exclusive'
  BY <1>11 DEF TypeOK, Exclusive, EditFile
<1>12. CASE UNCHANGED vars
  BY <1>12 DEF TypeOK, Exclusive, vars
<1>13. CASE Reconfigure
  BY <1>13 DEF TypeOK, Exclusive, Reconfigure
<1> QED
  BY <1>1, <1>2, <1>3, <1>4, <1>5, <1>6, <1>7, <1>8, <1>9, <1>10, <1>11, <1>12,
     <1>13 DEF Next, IndexStep

(* A step that keeps paths and histories and makes no row the latest does  *)
(* not disturb a call that takes no part in it.                            *)
LEMMA Bystander ==
    ASSUME NEW k \in Indexers, Informed(k), Rows' = Rows,
           pc'[k] = pc[k], path'[k] = path[k], existing'[k] = existing[k],
           hash'[k] = hash[k], loaded'[k] = loaded[k],
           existing[k] # 0 => existing[k] \in Rows,
           \A d \in Rows : /\ docs'[d].path = docs[d].path
                           /\ docs'[d].canonical = docs[d].canonical
                           /\ docs'[d].latest => docs[d].latest,
           pc[k] = "embed" => docs'[existing[k]].chunks # None
    PROVE  Informed(k)'
<1>1. /\ pc[k] \in {"read", "refresh", "supersede", "chunks", "embed"} =>
            \A d \in Rows : docs'[d].path = path[k] /\ docs'[d].latest => d = existing[k]
      /\ pc[k] \in {"load", "insert"} =>
            \A d \in Rows : docs'[d].path = path[k] => ~docs'[d].latest
  BY DEF Informed
<1>2. pc[k] \in Working \ {"lookup"} /\ existing[k] # 0 =>
        /\ docs'[existing[k]].path = path[k]
        /\ \A d \in Rows : docs'[d].canonical = docs'[existing[k]].canonical
                             => d =< existing[k]
  BY DEF Informed
<1>3. /\ pc[k] \in {"refresh", "supersede", "chunks", "embed"} => existing[k] # 0
      /\ pc[k] \in {"load", "insert", "refresh", "supersede"} => hash[k] # None
      /\ pc[k] \in {"insert", "chunks", "embed"} => loaded[k] # None
  BY DEF Informed
<1> QED
  BY <1>1, <1>2, <1>3 DEF Informed

(* What a call knows of its path stays true until it ends.                 *)
LEMMA CallStep == TypeOK /\ Exclusive /\ CallInv /\
           UniqueLatest /\ HistoryInv /\ [Next]_vars => CallInv'
<1> SUFFICES ASSUME TypeOK, Exclusive, CallInv,
                    UniqueLatest, HistoryInv, [Next]_vars
             PROVE CallInv'
  OBVIOUS
<1> USE ContentsAssumption, BoundsAssumption DEF Working, Ended, Contents, Rows,
     worldVars, callVars
<1>a. /\ Len(docs) \in Nat /\ pc \in [Indexers -> Working \cup Ended]
      /\ existing \in [Indexers -> 0 .. Len(docs)] /\ path \in [Indexers -> Paths]
  BY DEF TypeOK
<1>1. ASSUME NEW i \in Indexers, NEW p \in Paths, NEW f \in BOOLEAN,
             Stat(i, p, f) PROVE CallInv'
  BY <1>1 DEF TypeOK, Exclusive, CallInv, Informed, Stat, Goto
<1>2. ASSUME NEW i \in Indexers, Lookup(i) PROVE CallInv'
  <2>1. PICK d \in IF LatestOf(path[i]) = {} THEN {0} ELSE LatestOf(path[i]) :
           existing' = [existing EXCEPT ![i] = d]
    BY <1>2 DEF Lookup
  <2>2. /\ pc[i] = "lookup"
        /\ \/ pc' = [pc EXCEPT ![i] = "ok"]
           \/ pc' = [pc EXCEPT ![i] = "read"]
        /\ UNCHANGED << docs, path, hash, loaded >>
    BY <1>2 DEF Lookup, Goto
  <2>3. ASSUME NEW k \in Indexers, k # i PROVE Informed(k)'
    <3>1. Informed(k)
      BY DEF CallInv
    <3> QED
      BY <1>a, <2>1, <2>2, <2>3, <3>1 DEF Informed
  <2>4. Informed(i)'
    <3>1. \A e \in Rows : docs[e].path = path[i] /\ docs[e].latest => e = d
      BY <2>1 DEF LatestOf, UniqueLatest
    <3>2. d # 0 => d \in Rows /\ docs[d].path = path[i] /\ docs[d].latest
      BY <2>1 DEF LatestOf
    <3>3. d # 0 => \A e \in Rows : docs[e].canonical = docs[d].canonical => e =< d
      BY <1>a, <3>2 DEF HistoryInv, HistoryWellFormed
    <3> QED
      BY <1>a, <2>1, <2>2, <3>1, <3>2, <3>3 DEF Informed
  <2> QED
    BY <2>3, <2>4 DEF CallInv
<1>3. ASSUME NEW i \in Indexers, ReadFile(i) PROVE CallInv'
  <2>1. /\ pc[i] = "read" /\ hash' = [hash EXCEPT ![i] = content[path[i]]]
        /\ UNCHANGED << docs, path, existing, loaded >>
    BY <1>3 DEF ReadFile
  <2>2. \/ pc' = [pc EXCEPT ![i] = "refresh"] /\ existing[i] # 0
        \/ pc' = [pc EXCEPT ![i] = "supersede"] /\ existing[i] # 0
        \/ pc' = [pc EXCEPT ![i] = "load"] /\ existing[i] = 0
    BY <1>3 DEF ReadFile, HashHit, Goto
  <2>3. hash'[i] # None /\ \A k \in Indexers : k # i => hash'[k] = hash[k]
    BY <2>1 DEF TypeOK
  <2>4. ASSUME NEW k \in Indexers PROVE Informed(k)'
    <3>1. Informed(k)
      BY DEF CallInv
    <3> QED
      BY <1>a, <2>1, <2>2, <2>3, <3>1 DEF Informed
  <2> QED
    BY <2>4 DEF CallInv
<1>4. ASSUME NEW i \in Indexers, Refresh(i) PROVE CallInv'
  <2>1. /\ pc[i] = "refresh" /\ pc' = [pc EXCEPT ![i] = "ok"]
        /\ UNCHANGED << path, existing, hash, loaded >>
    BY <1>4 DEF Refresh, Goto
  <2>2. RowRefreshed(i)
    BY <1>4, RefreshRow
  <2>3. ASSUME NEW k \in Indexers, k # i PROVE Informed(k)'
    <3>1. Informed(k) /\ (pc[k] \in Working => path[k] # path[i])
      BY <2>1, <2>3 DEF CallInv, Exclusive
    <3>2. Informed(i)
      BY DEF CallInv
    <3>3. /\ Len(docs') = Len(docs)
          /\ \A d \in Rows : /\ docs'[d].path = docs[d].path
                             /\ docs'[d].canonical = docs[d].canonical
                             /\ docs'[d].latest => docs[d].latest
                             /\ d # existing[i] => docs'[d].chunks = docs[d].chunks
      BY <2>2 DEF RowRefreshed
    <3>4. pc'[k] = pc[k]
      BY <1>a, <2>1, <2>3
    <3>5. pc[k] = "embed" => existing[k] # existing[i]
      BY <2>1, <3>1, <3>2 DEF Informed
    <3>6. /\ path'[k] = path[k] /\ existing'[k] = existing[k] /\ hash'[k] = hash[k]
          /\ loaded'[k] = loaded[k] /\ Rows' = Rows
      BY <2>1, <3>3
    <3>7. existing[k] # 0 => existing[k] \in Rows
      BY <1>a
    <3>8. pc[k] = "embed" => docs'[existing[k]].chunks # None
      BY <3>1, <3>3, <3>5, <3>7 DEF Informed
    <3> QED
      BY <3>1, <3>3, <3>4, <3>6, <3>7, <3>8, Bystander
  <2>4. Informed(i)'
    <3>1. Informed(i)
      BY DEF CallInv
    <3>2. /\ Len(docs') = Len(docs)
          /\ \A d \in Rows : /\ docs'[d].path = docs[d].path
                             /\ docs'[d].canonical = docs[d].canonical
                             /\ docs'[d].latest => docs[d].latest
      BY <2>2 DEF RowRefreshed
    <3>3. pc'[i] = "ok"
      BY <1>a, <2>1
    <3> QED
      BY <1>a, <2>1, <3>1, <3>2, <3>3 DEF Informed
  <2> QED
    BY <2>3, <2>4 DEF CallInv
<1>5. ASSUME NEW i \in Indexers, Supersede(i) PROVE CallInv'
  <2>1. /\ pc[i] = "supersede" /\ pc' = [pc EXCEPT ![i] = "load"]
        /\ UNCHANGED << path, existing, hash, loaded >>
    BY <1>5 DEF Supersede, Goto
  <2>2. RowSuperseded(i)
    BY <1>5, SupersedeRow
  <2>3. ASSUME NEW k \in Indexers, k # i PROVE Informed(k)'
    <3>1. Informed(k) /\ (pc[k] \in Working => path[k] # path[i])
      BY <2>1, <2>3 DEF CallInv, Exclusive
    <3>2. Informed(i)
      BY DEF CallInv
    <3>3. /\ Len(docs') = Len(docs)
          /\ \A d \in Rows : /\ docs'[d].path = docs[d].path
                             /\ docs'[d].canonical = docs[d].canonical
                             /\ docs'[d].latest => docs[d].latest
                             /\ d # existing[i] => docs'[d].chunks = docs[d].chunks
      BY <2>2 DEF RowSuperseded
    <3>4. pc'[k] = pc[k]
      BY <1>a, <2>1, <2>3
    <3>5. pc[k] = "embed" => existing[k] # existing[i]
      BY <2>1, <3>1, <3>2 DEF Informed
    <3>6. /\ path'[k] = path[k] /\ existing'[k] = existing[k] /\ hash'[k] = hash[k]
          /\ loaded'[k] = loaded[k] /\ Rows' = Rows
      BY <2>1, <3>3
    <3>7. existing[k] # 0 => existing[k] \in Rows
      BY <1>a
    <3>8. pc[k] = "embed" => docs'[existing[k]].chunks # None
      BY <3>1, <3>3, <3>5, <3>7 DEF Informed
    <3> QED
      BY <3>1, <3>3, <3>4, <3>6, <3>7, <3>8, Bystander
  <2>4. Informed(i)'
    <3>1. Informed(i)
      BY DEF CallInv
    <3>2. /\ Len(docs') = Len(docs)
          /\ \A d \in Rows : /\ docs'[d].path = docs[d].path
                             /\ docs'[d].canonical = docs[d].canonical
                             /\ docs'[d].latest => docs[d].latest
                             /\ d = existing[i] => ~docs'[d].latest
      BY <2>2 DEF RowSuperseded
    <3>3. pc'[i] = "load"
      BY <1>a, <2>1
    <3>4. ASSUME NEW d \in Rows', docs'[d].path = path[i] PROVE ~docs'[d].latest
      BY <1>a, <2>1, <3>1, <3>2, <3>4 DEF Informed
    <3>5. existing[i] \in Rows /\ hash[i] # None
      BY <1>a, <2>1, <3>1 DEF Informed
    <3>6. docs'[existing[i]].path = path[i]
      BY <1>a, <2>1, <3>1, <3>2, <3>5 DEF Informed
    <3>7. ASSUME NEW d \in Rows', docs'[d].canonical = docs'[existing[i]].canonical
          PROVE  d =< existing[i]
      BY <1>a, <2>1, <3>1, <3>2, <3>5, <3>7 DEF Informed
    <3> QED
      BY <2>1, <3>3, <3>4, <3>5, <3>6, <3>7 DEF Informed
  <2> QED
    BY <2>3, <2>4 DEF CallInv
<1>6. ASSUME NEW i \in Indexers, Load(i) PROVE CallInv'
  BY <1>6 DEF TypeOK, Exclusive, CallInv, Informed, Load, Goto
<1>7. ASSUME NEW i \in Indexers, InsertDocument(i) PROVE CallInv'
  <2>1. CASE HashTaken(i)
    <3>1. pc' = [pc EXCEPT ![i] = "conflict"] /\ UNCHANGED << docs, path, existing, hash, loaded >>
      BY <1>7, <2>1 DEF InsertDocument, Goto
    <3> QED
      BY <1>a, <3>1 DEF CallInv, Informed
  <2>2. CASE ~HashTaken(i)
    <3>1. /\ pc[i] = "insert" /\ pc' = [pc EXCEPT ![i] = "chunks"]
          /\ existing' = [existing EXCEPT ![i] = Len(docs) + 1]
          /\ UNCHANGED << path, hash, loaded >>
      BY <1>7, <2>2 DEF InsertDocument, Goto
    <3>2. RowInserted(i) /\ Informed(i)
      BY <1>7, <2>2, InsertRow DEF CallInv
    <3>3. ASSUME NEW k \in Indexers, k # i PROVE Informed(k)'
      <4>1. Informed(k) /\ (pc[k] \in Working => path[k] # path[i])
        BY <3>1, <3>3 DEF CallInv, Exclusive
      <4>2. ASSUME pc[k] \in Working \ {"lookup"}, existing[k] # 0
            PROVE  docs'[Len(docs) + 1].canonical # docs[existing[k]].canonical
        <5>1. existing[k] \in Rows /\ docs[existing[k]].path = path[k]
          BY <1>a, <4>1, <4>2 DEF Informed
        <5>2. CASE existing[i] = 0
          BY <1>a, <3>2, <5>1, <5>2 DEF RowInserted, HistoryInv, CanonicalInv
        <5>3. CASE existing[i] # 0
          <6>1. existing[i] \in Rows /\ docs[existing[i]].path = path[i]
            BY <1>a, <3>1, <3>2, <5>3 DEF Informed
          <6>2. docs[existing[i]].canonical # docs[existing[k]].canonical
            BY <1>a, <4>1, <4>2, <5>1, <6>1 DEF HistoryInv, HistoryWellFormed
          <6> QED
            BY <3>2, <5>3, <6>2 DEF RowInserted
        <5> QED
          BY <5>2, <5>3
      <4>3. pc[k] \in Working => docs'[Len(docs) + 1].path # path[k]
        BY <3>2, <4>1 DEF RowInserted
      <4>4. pc'[k] = pc[k] /\ existing'[k] = existing[k]
        BY <1>a, <3>1, <3>3
      <4>5. Len(docs') = Len(docs) + 1 /\ \A d \in Rows : docs'[d] = docs[d]
        BY <3>2 DEF RowInserted
      <4>6. path'[k] = path[k] /\ hash'[k] = hash[k] /\ loaded'[k] = loaded[k]
        BY <3>1
      <4>7. /\ \A d \in Rows' : d \in Rows \/ d = Len(docs) + 1
            /\ pc[k] \in Working /\ existing[k] # 0 => existing[k] \in Rows
        BY <1>a, <4>5
      <4>8. /\ pc[k] \in {"read", "refresh", "supersede", "chunks", "embed"} =>
                  \A d \in Rows' : docs'[d].path = path[k] /\ docs'[d].latest => d = existing[k]
            /\ pc[k] \in {"load", "insert"} =>
                  \A d \in Rows' : docs'[d].path = path[k] => ~docs'[d].latest
        BY <4>1, <4>3, <4>5, <4>7 DEF Informed, Working
      <4>9. pc[k] \in Working \ {"lookup"} /\ existing[k] # 0 =>
              /\ docs'[existing[k]].path = path[k]
              /\ \A d \in Rows' : docs'[d].canonical = docs'[existing[k]].canonical
                                    => d =< existing[k]
        BY <4>1, <4>2, <4>5, <4>7 DEF Informed
      <4>10. pc[k] = "embed" => docs'[existing[k]].chunks # None
        BY <4>1, <4>5, <4>7 DEF Informed, Working
      <4> QED
        BY <4>1, <4>4, <4>6, <4>8, <4>9, <4>10 DEF Informed
    <3>4. Informed(i)'
      <4>1. pc'[i] = "chunks" /\ existing'[i] = Len(docs) + 1
        BY <1>a, <3>1
      <4>2. \A d \in Rows' : docs'[d].path = path[i] /\ docs'[d].latest => d = Len(docs) + 1
        <5>1. ASSUME NEW d \in Rows, docs'[d].path = path[i] PROVE ~docs'[d].latest
          BY <3>1, <3>2, <5>1 DEF RowInserted, Informed
        <5>2. \A d \in Rows' : d \in Rows \/ d = Len(docs) + 1
          BY <1>a, <3>2 DEF RowInserted
        <5> QED
          BY <5>1, <5>2
      <4>3. docs'[Len(docs) + 1].path = path[i] /\ loaded[i] # None
        BY <3>1, <3>2 DEF RowInserted, Informed
      <4>4. \A d \in Rows' : d =< Len(docs) + 1
        BY <3>2 DEF RowInserted
      <4> QED
        BY <1>a, <3>1, <4>1, <4>2, <4>3, <4>4 DEF Informed
    <3> QED
      BY <3>3, <3>4 DEF CallInv
  <2> QED
    BY <2>1, <2>2
<1>8. ASSUME NEW i \in Indexers, InsertChunks(i) PROVE CallInv'
  <2>1. /\ pc[i] = "chunks" /\ pc' = [pc EXCEPT ![i] = "embed"]
        /\ UNCHANGED << path, existing, hash, loaded >>
    BY <1>8 DEF InsertChunks, Goto
  <2>2. RowChunked(i)
    BY <1>8, ChunksRow
  <2>3. ASSUME NEW k \in Indexers, k # i PROVE Informed(k)'
    <3>1. Informed(k) /\ (pc[k] \in Working => path[k] # path[i])
      BY <2>1, <2>3 DEF CallInv, Exclusive
    <3>2. Informed(i)
      BY DEF CallInv
    <3>3. /\ Len(docs') = Len(docs)
          /\ \A d \in Rows : /\ docs'[d].path = docs[d].path
                             /\ docs'[d].canonical = docs[d].canonical
                             /\ docs'[d].latest => docs[d].latest
                             /\ d # existing[i] => docs'[d].chunks = docs[d].chunks
      BY <2>2 DEF RowChunked
    <3>4. pc'[k] = pc[k]
      BY <1>a, <2>1, <2>3
    <3>5. pc[k] = "embed" => existing[k] # existing[i]
      BY <2>1, <3>1, <3>2 DEF Informed
    <3>6. /\ path'[k] = path[k] /\ existing'[k] = existing[k] /\ hash'[k] = hash[k]
          /\ loaded'[k] = loaded[k] /\ Rows' = Rows
      BY <2>1, <3>3
    <3>7. existing[k] # 0 => existing[k] \in Rows
      BY <1>a
    <3>8. pc[k] = "embed" => docs'[existing[k]].chunks # None
      BY <3>1, <3>3, <3>5, <3>7 DEF Informed
    <3> QED
      BY <3>1, <3>3, <3>4, <3>6, <3>7, <3>8, Bystander
  <2>4. Informed(i)'
    <3>1. Informed(i)
      BY DEF CallInv
    <3>2. /\ Len(docs') = Len(docs)
          /\ \A d \in Rows : /\ docs'[d].path = docs[d].path
                             /\ docs'[d].canonical = docs[d].canonical
                             /\ docs'[d].latest => docs[d].latest
                             /\ d = existing[i] => docs'[d].chunks = loaded[i]
      BY <2>2 DEF RowChunked
    <3>3. pc'[i] = "embed"
      BY <1>a, <2>1
    <3>4. ASSUME NEW d \in Rows', docs'[d].path = path[i], docs'[d].latest
          PROVE  d = existing[i]
      BY <1>a, <2>1, <3>1, <3>2, <3>4 DEF Informed
    <3>5. existing[i] \in Rows /\ loaded[i] # None
      BY <1>a, <2>1, <3>1 DEF Informed
    <3>6. docs'[existing[i]].path = path[i] /\ docs'[existing[i]].chunks # None
      BY <1>a, <2>1, <3>1, <3>2, <3>5 DEF Informed
    <3>7. ASSUME NEW d \in Rows', docs'[d].canonical = docs'[existing[i]].canonical
          PROVE  d =< existing[i]
      BY <1>a, <2>1, <3>1, <3>2, <3>5, <3>7 DEF Informed
    <3> QED
      BY <1>a, <2>1, <3>3, <3>4, <3>5, <3>6, <3>7 DEF Informed
  <2> QED
    BY <2>3, <2>4 DEF CallInv
<1>9. ASSUME NEW i \in Indexers, Embed(i) PROVE CallInv'
  <2>1. /\ pc[i] = "embed" /\ pc' = [pc EXCEPT ![i] = "ok"]
        /\ UNCHANGED << path, existing, hash, loaded >>
    BY <1>9 DEF Embed, Goto
  <2>2. RowEmbedded(i)
    BY <1>9, EmbedRow
  <2>3. ASSUME NEW k \in Indexers, k # i PROVE Informed(k)'
    <3>1. Informed(k) /\ (pc[k] \in Working => path[k] # path[i])
      BY <2>1, <2>3 DEF CallInv, Exclusive
    <3>2. Informed(i)
      BY DEF CallInv
    <3>3. /\ Len(docs') = Len(docs)
          /\ \A d \in Rows : /\ docs'[d].path = docs[d].path
                             /\ docs'[d].canonical = docs[d].canonical
                             /\ docs'[d].latest => docs[d].latest
                             /\ d # existing[i] => docs'[d].chunks = docs[d].chunks
      BY <2>2 DEF RowEmbedded
    <3>4. pc'[k] = pc[k]
      BY <1>a, <2>1, <2>3
    <3>5. pc[k] = "embed" => existing[k] # existing[i]
      BY <2>1, <3>1, <3>2 DEF Informed
    <3>6. /\ path'[k] = path[k] /\ existing'[k] = existing[k] /\ hash'[k] = hash[k]
          /\ loaded'[k] = loaded[k] /\ Rows' = Rows
      BY <2>1, <3>3
    <3>7. existing[k] # 0 => existing[k] \in Rows
      BY <1>a
    <3>8. pc[k] = "embed" => docs'[existing[k]].chunks # None
      BY <3>1, <3>3, <3>5, <3>7 DEF Informed
    <3> QED
      BY <3>1, <3>3, <3>4, <3>6, <3>7, <3>8, Bystander
  <2>4. Informed(i)'
    <3>1. Informed(i)
      BY DEF CallInv
    <3>2. /\ Len(docs') = Len(docs)
          /\ \A d \in Rows : /\ docs'[d].path = docs[d].path
                             /\ docs'[d].canonical = docs[d].canonical
                             /\ docs'[d].latest => docs[d].latest
      BY <2>2 DEF RowEmbedded
    <3>3. pc'[i] = "ok"
      BY <1>a, <2>1
    <3> QED
      BY <1>a, <2>1, <3>1, <3>2, <3>3 DEF Informed
  <2> QED
    BY <2>3, <2>4 DEF CallInv
<1>10. ASSUME NEW i \in Indexers, Abort(i) PROVE CallInv'
  BY <1>10 DEF TypeOK, Exclusive, CallInv, Informed, Abort, CutShort, Goto
<1>11. ASSUME NEW p \in Paths, EditFile(p) PROVE CallInv'
  BY <1>11 DEF TypeOK, Exclusive, CallInv, Informed, EditFile
<1>12. CASE UNCHANGED vars
  BY <1>12 DEF TypeOK, Exclusive, CallInv, Informed, vars
<1>13. CASE Reconfigure
  BY <1>13 DEF TypeOK, Exclusive, CallInv, Informed, Reconfigure
<1> QED
  BY <1>1, <1>2, <1>3, <1>4, <1>5, <1>6, <1>7, <1>8, <1>9, <1>10, <1>11, <1>12,
     <1>13 DEF Next, IndexStep

(* A new version is inserted when no other is the latest.                  *)
LEMMA UniqueStep == TypeOK /\ CallInv /\ UniqueLatest /\ [Next]_vars => UniqueLatest'
<1> SUFFICES ASSUME TypeOK, CallInv, UniqueLatest, [Next]_vars PROVE UniqueLatest'
  OBVIOUS
<1> USE ContentsAssumption, BoundsAssumption DEF Working, Ended, Contents, Rows,
     worldVars, callVars
<1>a. /\ Len(docs) \in Nat /\ pc \in [Indexers -> Working \cup Ended]
      /\ existing \in [Indexers -> 0 .. Len(docs)] /\ path \in [Indexers -> Paths]
  BY DEF TypeOK
<1>1. ASSUME NEW i \in Indexers, NEW p \in Paths, NEW f \in BOOLEAN,
             Stat(i, p, f) PROVE UniqueLatest'
  BY <1>1 DEF TypeOK, CallInv, UniqueLatest, Stat, Goto
<1>2. ASSUME NEW i \in Indexers, Lookup(i) PROVE UniqueLatest'
  BY <1>2 DEF TypeOK, CallInv, UniqueLatest, Lookup, LatestOf, MtimeHit, Goto
<1>3. ASSUME NEW i \in Indexers, ReadFile(i) PROVE UniqueLatest'
  BY <1>3 DEF TypeOK, CallInv, UniqueLatest, ReadFile, HashHit, Goto
<1>4. ASSUME NEW i \in Indexers, Refresh(i) PROVE UniqueLatest'
  <2>1. /\ pc[i] = "refresh" /\ pc' = [pc EXCEPT ![i] = "ok"]
        /\ UNCHANGED << worldVars, callVars, existing, hash, loaded, runs, outdated, flaws >>
    BY <1>4 DEF Refresh, Goto
  <2>2. RowRefreshed(i)
    BY <1>4, RefreshRow
  <2> QED
    BY <2>1, <2>2, <1>a DEF RowRefreshed, CallInv, Informed, UniqueLatest
<1>5. ASSUME NEW i \in Indexers, Supersede(i) PROVE UniqueLatest'
  <2>1. /\ pc[i] = "supersede" /\ pc' = [pc EXCEPT ![i] = "load"]
        /\ UNCHANGED << worldVars, callVars, existing, hash, loaded, runs, outdated, flaws >>
    BY <1>5 DEF Supersede, Goto
  <2>2. RowSuperseded(i)
    BY <1>5, SupersedeRow
  <2> QED
    BY <2>1, <2>2, <1>a DEF RowSuperseded, CallInv, Informed, UniqueLatest
<1>6. ASSUME NEW i \in Indexers, Load(i) PROVE UniqueLatest'
  BY <1>6 DEF TypeOK, CallInv, UniqueLatest, Load, Goto
<1>7. ASSUME NEW i \in Indexers, InsertDocument(i) PROVE UniqueLatest'
  <2>1. CASE HashTaken(i)
    BY <1>7, <2>1 DEF TypeOK, CallInv, UniqueLatest, InsertDocument, Goto
  <2>3. ~HashTaken(i) =>
          /\ pc[i] = "insert" /\ pc' = [pc EXCEPT ![i] = "chunks"]
          /\ existing' = [existing EXCEPT ![i] = Len(docs) + 1]
          /\ UNCHANGED << worldVars, callVars, hash, loaded, runs, outdated, flaws >>
    BY <1>7 DEF InsertDocument, Goto
  <2>2. ASSUME ~HashTaken(i) PROVE UniqueLatest'
    <3>1. RowInserted(i)
      BY <1>7, <2>2, InsertRow
    <3>2. \A d \in Rows : docs[d].path = path[i] => ~docs[d].latest
      BY <2>2, <2>3 DEF CallInv, Informed
    <3>3. /\ \A d \in Rows : docs'[d] = docs[d]
          /\ docs'[Len(docs) + 1].path = path[i]
          /\ \A d \in Rows' : d \in Rows \/ d = Len(docs) + 1
      BY <3>1, <1>a DEF RowInserted
    <3> QED
      BY <3>2, <3>3 DEF UniqueLatest
  <2> QED
    BY <2>1, <2>2
<1>8. ASSUME NEW i \in Indexers, InsertChunks(i) PROVE UniqueLatest'
  <2>1. /\ pc[i] = "chunks" /\ pc' = [pc EXCEPT ![i] = "embed"]
        /\ UNCHANGED << worldVars, callVars, existing, hash, loaded, runs, outdated >>
    BY <1>8 DEF InsertChunks, Goto
  <2>2. RowChunked(i)
    BY <1>8, ChunksRow
  <2> QED
    BY <2>1, <2>2, <1>a DEF RowChunked, CallInv, Informed, UniqueLatest
<1>9. ASSUME NEW i \in Indexers, Embed(i) PROVE UniqueLatest'
  <2>1. /\ pc[i] = "embed" /\ pc' = [pc EXCEPT ![i] = "ok"]
        /\ UNCHANGED << worldVars, callVars, existing, hash, loaded, runs, outdated >>
    BY <1>9 DEF Embed, Goto
  <2>2. RowEmbedded(i)
    BY <1>9, EmbedRow
  <2> QED
    BY <2>1, <2>2, <1>a DEF RowEmbedded, CallInv, Informed, UniqueLatest
<1>10. ASSUME NEW i \in Indexers, Abort(i) PROVE UniqueLatest'
  BY <1>10 DEF TypeOK, CallInv, UniqueLatest, Abort, CutShort, Goto
<1>11. ASSUME NEW p \in Paths, EditFile(p) PROVE UniqueLatest'
  BY <1>11 DEF TypeOK, CallInv, UniqueLatest, EditFile
<1>12. CASE UNCHANGED vars
  BY <1>12 DEF TypeOK, CallInv, UniqueLatest, vars
<1>13. CASE Reconfigure
  BY <1>13 DEF TypeOK, CallInv, UniqueLatest, Reconfigure
<1> QED
  BY <1>1, <1>2, <1>3, <1>4, <1>5, <1>6, <1>7, <1>8, <1>9, <1>10, <1>11, <1>12,
     <1>13 DEF Next, IndexStep

(* A new version follows the last one of its history.                      *)
LEMMA HistoryStep == TypeOK /\ CallInv /\ HistoryInv /\ [Next]_vars => HistoryInv'
<1> SUFFICES ASSUME TypeOK, CallInv, HistoryInv, [Next]_vars PROVE HistoryInv'
  OBVIOUS
<1> USE ContentsAssumption, BoundsAssumption DEF Working, Ended, Contents, Rows,
     worldVars, callVars
<1>1. ASSUME NEW i \in Indexers, NEW p \in Paths, NEW f \in BOOLEAN,
             Stat(i, p, f) PROVE HistoryInv'
  BY <1>1 DEF HistoryInv, CanonicalInv, HistoryWellFormed, NoVersionGap, Stat, Goto
<1>2. ASSUME NEW i \in Indexers, Lookup(i) PROVE HistoryInv'
  BY <1>2 DEF HistoryInv, CanonicalInv, HistoryWellFormed, NoVersionGap, Lookup,
     LatestOf, MtimeHit, Goto
<1>3. ASSUME NEW i \in Indexers, ReadFile(i) PROVE HistoryInv'
  BY <1>3 DEF HistoryInv, CanonicalInv, HistoryWellFormed, NoVersionGap, ReadFile,
     HashHit, Goto
<1>4. ASSUME NEW i \in Indexers, Refresh(i) PROVE HistoryInv'
  <2>1. /\ pc[i] = "refresh" /\ pc' = [pc EXCEPT ![i] = "ok"]
        /\ UNCHANGED << worldVars, callVars, existing, hash, loaded, runs, outdated, flaws >>
    BY <1>4 DEF Refresh, Goto
  <2>2. RowRefreshed(i)
    BY <1>4, RefreshRow
  <2> QED
    BY <2>1, <2>2, HistoryKept DEF RowRefreshed
<1>5. ASSUME NEW i \in Indexers, Supersede(i) PROVE HistoryInv'
  <2>1. /\ pc[i] = "supersede" /\ pc' = [pc EXCEPT ![i] = "load"]
        /\ UNCHANGED << worldVars, callVars, existing, hash, loaded, runs, outdated, flaws >>
    BY <1>5 DEF Supersede, Goto
  <2>2. RowSuperseded(i)
    BY <1>5, SupersedeRow
  <2> QED
    BY <2>1, <2>2, HistoryKept DEF RowSuperseded
<1>6. ASSUME NEW i \in Indexers, Load(i) PROVE HistoryInv'
  BY <1>6 DEF HistoryInv, CanonicalInv, HistoryWellFormed, NoVersionGap, Load, Goto
<1>7. ASSUME NEW i \in Indexers, InsertDocument(i) PROVE HistoryInv'
  <2>1. CASE HashTaken(i)
    BY <1>7, <2>1 DEF InsertDocument, HistoryInv, CanonicalInv, HistoryWellFormed, NoVersionGap
  <2>2. CASE ~HashTaken(i)
    BY <1>7, <2>2, HistoryInsert
  <2> QED
    BY <2>1, <2>2
<1>8. ASSUME NEW i \in Indexers, InsertChunks(i) PROVE HistoryInv'
  <2>1. /\ pc[i] = "chunks" /\ pc' = [pc EXCEPT ![i] = "embed"]
        /\ UNCHANGED << worldVars, callVars, existing, hash, loaded, runs, outdated >>
    BY <1>8 DEF InsertChunks, Goto
  <2>2. RowChunked(i)
    BY <1>8, ChunksRow
  <2> QED
    BY <2>1, <2>2, HistoryKept DEF RowChunked
<1>9. ASSUME NEW i \in Indexers, Embed(i) PROVE HistoryInv'
  <2>1. /\ pc[i] = "embed" /\ pc' = [pc EXCEPT ![i] = "ok"]
        /\ UNCHANGED << worldVars, callVars, existing, hash, loaded, runs, outdated >>
    BY <1>9 DEF Embed, Goto
  <2>2. RowEmbedded(i)
    BY <1>9, EmbedRow
  <2> QED
    BY <2>1, <2>2, HistoryKept DEF RowEmbedded
<1>10. ASSUME NEW i \in Indexers, Abort(i) PROVE HistoryInv'
  BY <1>10 DEF HistoryInv, CanonicalInv, HistoryWellFormed, NoVersionGap, Abort,
     CutShort, Goto
<1>11. ASSUME NEW p \in Paths, EditFile(p) PROVE HistoryInv'
  BY <1>11 DEF HistoryInv, CanonicalInv, HistoryWellFormed, NoVersionGap, EditFile
<1>12. CASE UNCHANGED vars
  BY <1>12 DEF HistoryInv, CanonicalInv, HistoryWellFormed, NoVersionGap, vars
<1>13. CASE Reconfigure
  BY <1>13 DEF HistoryInv, CanonicalInv, HistoryWellFormed, NoVersionGap, Reconfigure
<1> QED
  BY <1>1, <1>2, <1>3, <1>4, <1>5, <1>6, <1>7, <1>8, <1>9, <1>10, <1>11, <1>12,
     <1>13 DEF Next, IndexStep

(* A step by one call leaves the documents of the others as they are.      *)
LEMMA CompleteKept ==
    ASSUME CompleteInv, NEW i \in Indexers, Rows' = Rows, flaws \subseteq flaws',
           \A d \in Rows : /\ docs[d].chunks # None => docs'[d].chunks # None
                           /\ docs[d].embedded => docs'[d].embedded,
           \A k \in Indexers \ {i} : pc'[k] = pc[k] /\ existing'[k] = existing[k],
           pc[i] \in {"chunks", "embed"} =>
             /\ docs'[existing[i]].chunks # None
             /\ docs'[existing[i]].embedded \/ <<existing[i], "bare">> \in flaws'
    PROVE  CompleteInv'
<1> SUFFICES ASSUME NEW d \in Rows, <<d, "cut">> \notin flaws'
             PROVE  \/ docs'[d].chunks # None /\ (docs'[d].embedded \/ <<d, "bare">> \in flaws')
                    \/ \E k \in Indexers : pc'[k] \in {"chunks", "embed"} /\ existing'[k] = d
  BY DEF CompleteInv
<1>1. CASE docs[d].chunks # None /\ (docs[d].embedded \/ <<d, "bare">> \in flaws)
  BY <1>1
<1>2. ASSUME NEW k \in Indexers, pc[k] \in {"chunks", "embed"}, existing[k] = d
      PROVE  \/ docs'[d].chunks # None /\ (docs'[d].embedded \/ <<d, "bare">> \in flaws')
             \/ \E j \in Indexers : pc'[j] \in {"chunks", "embed"} /\ existing'[j] = d
  <2>1. CASE k = i
    BY <1>2, <2>1
  <2>2. CASE k # i
    BY <1>2, <2>2
  <2> QED
    BY <2>1, <2>2
<1> QED
  BY <1>1, <1>2 DEF CompleteInv

(* A call leaves an incomplete document only when it is cut short.         *)
LEMMA CompleteStep == TypeOK /\ Exclusive /\ CallInv /\ CompleteInv /\ [Next]_vars => CompleteInv'
<1> SUFFICES ASSUME TypeOK, Exclusive, CallInv, CompleteInv, [Next]_vars PROVE CompleteInv'
  OBVIOUS
<1> USE ContentsAssumption, BoundsAssumption DEF Working, Ended, Contents, Rows,
     worldVars, callVars
<1>a. /\ Len(docs) \in Nat /\ pc \in [Indexers -> Working \cup Ended]
      /\ existing \in [Indexers -> 0 .. Len(docs)] /\ path \in [Indexers -> Paths]
  BY DEF TypeOK
<1>1. ASSUME NEW i \in Indexers, NEW p \in Paths, NEW f \in BOOLEAN,
             Stat(i, p, f) PROVE CompleteInv'
  <2>1. /\ pc[i] \in Ended /\ UNCHANGED << docs, flaws >>
        /\ \A k \in Indexers \ {i} : pc'[k] = pc[k] /\ existing'[k] = existing[k]
    BY <1>1, <1>a DEF Stat, Goto
  <2>2. /\ Rows' = Rows /\ flaws \subseteq flaws' /\ pc[i] \notin {"chunks", "embed"}
        /\ \A d \in Rows : /\ docs[d].chunks # None => docs'[d].chunks # None
                           /\ docs[d].embedded => docs'[d].embedded
    BY <2>1
  <2> HIDE DEF Rows
  <2> QED
    BY <2>1, <2>2, CompleteKept
<1>2. ASSUME NEW i \in Indexers, Lookup(i) PROVE CompleteInv'
  <2>1. /\ pc[i] = "lookup" /\ UNCHANGED << docs, flaws >>
        /\ \A k \in Indexers \ {i} : pc'[k] = pc[k] /\ existing'[k] = existing[k]
    BY <1>2, <1>a DEF Lookup, Goto
  <2>2. /\ Rows' = Rows /\ flaws \subseteq flaws' /\ pc[i] \notin {"chunks", "embed"}
        /\ \A d \in Rows : /\ docs[d].chunks # None => docs'[d].chunks # None
                           /\ docs[d].embedded => docs'[d].embedded
    BY <2>1
  <2> HIDE DEF Rows
  <2> QED
    BY <2>1, <2>2, CompleteKept
<1>3. ASSUME NEW i \in Indexers, ReadFile(i) PROVE CompleteInv'
  BY <1>3 DEF TypeOK, Exclusive, CallInv, Informed, CompleteInv, ReadFile, HashHit, Goto
<1>4. ASSUME NEW i \in Indexers, Refresh(i) PROVE CompleteInv'
  <2>1. /\ pc[i] = "refresh" /\ pc' = [pc EXCEPT ![i] = "ok"]
        /\ UNCHANGED << worldVars, callVars, existing, hash, loaded, runs, outdated, flaws >>
    BY <1>4 DEF Refresh, Goto
  <2>2. RowRefreshed(i)
    BY <1>4, RefreshRow
  <2> QED
    BY <2>1, <2>2, <1>a, CompleteKept DEF RowRefreshed
<1>5. ASSUME NEW i \in Indexers, Supersede(i) PROVE CompleteInv'
  <2>1. /\ pc[i] = "supersede" /\ pc' = [pc EXCEPT ![i] = "load"]
        /\ UNCHANGED << worldVars, callVars, existing, hash, loaded, runs, outdated, flaws >>
    BY <1>5 DEF Supersede, Goto
  <2>2. RowSuperseded(i)
    BY <1>5, SupersedeRow
  <2> QED
    BY <2>1, <2>2, <1>a, CompleteKept DEF RowSuperseded
<1>6. ASSUME NEW i \in Indexers, Load(i) PROVE CompleteInv'
  BY <1>6 DEF TypeOK, Exclusive, CallInv, Informed, CompleteInv, Load, Goto
<1>7. ASSUME NEW i \in Indexers, InsertDocument(i) PROVE CompleteInv'
  <2>1. /\ pc[i] = "insert" /\ flaws' = flaws
        /\ \/ docs' = docs /\ existing' = existing /\ pc' = [pc EXCEPT ![i] = "conflict"]
           \/ /\ RowInserted(i) /\ existing' = [existing EXCEPT ![i] = Len(docs) + 1]
              /\ pc' = [pc EXCEPT ![i] = "chunks"]
    BY <1>7, InsertRow DEF InsertDocument, Goto
  <2>2. ASSUME NEW d \in Rows', <<d, "cut">> \notin flaws
        PROVE  \/ docs'[d].chunks # None /\ (docs'[d].embedded \/ <<d, "bare">> \in flaws)
               \/ \E k \in Indexers : pc'[k] \in {"chunks", "embed"} /\ existing'[k] = d
    <3>1. CASE d \in Rows
      <4>1. docs'[d] = docs[d]
        BY <2>1, <3>1 DEF RowInserted
      <4>2. CASE docs[d].chunks # None /\ (docs[d].embedded \/ <<d, "bare">> \in flaws)
        BY <4>1, <4>2
      <4>3. CASE \E k \in Indexers : pc[k] \in {"chunks", "embed"} /\ existing[k] = d
        BY <1>a, <2>1, <4>3
      <4> QED
        BY <2>2, <3>1, <4>2, <4>3 DEF CompleteInv
    <3>2. CASE d \notin Rows
      BY <1>a, <2>1, <2>2, <3>2 DEF RowInserted
    <3> QED
      BY <3>1, <3>2
  <2> QED
    BY <2>1, <2>2 DEF CompleteInv
<1>8. ASSUME NEW i \in Indexers, InsertChunks(i) PROVE CompleteInv'
  <2>1. /\ pc[i] = "chunks" /\ pc' = [pc EXCEPT ![i] = "embed"]
        /\ UNCHANGED << worldVars, callVars, existing, hash, loaded, runs, outdated >>
    BY <1>8 DEF InsertChunks, Goto
  <2>2. RowChunked(i)
    BY <1>8, ChunksRow
  <2>3. flaws \subseteq flaws'
    BY <1>8 DEF InsertChunks
  <2> QED
    <3>1. /\ loaded[i] # None
          /\ \A d \in Rows : /\ docs[d].chunks # None => docs'[d].chunks # None
                             /\ docs[d].embedded => docs'[d].embedded
      BY <2>1, <2>2 DEF CallInv, Informed, RowChunked
    <3>2. /\ Rows' = Rows /\ pc'[i] = "embed" /\ existing'[i] = existing[i]
          /\ \A k \in Indexers \ {i} : pc'[k] = pc[k] /\ existing'[k] = existing[k]
      BY <2>1, <2>2, <1>a DEF RowChunked
    <3>3. \A k \in Indexers : pc[k] \in {"chunks", "embed"} =>
            pc'[k] \in {"chunks", "embed"} /\ existing'[k] = existing[k]
      BY <3>2
    <3> HIDE DEF Rows
    <3> QED
      <4>1. ASSUME NEW d \in Rows, <<d, "cut">> \notin flaws'
            PROVE  \/ docs'[d].chunks # None /\ (docs'[d].embedded \/ <<d, "bare">> \in flaws')
                   \/ \E k \in Indexers : pc'[k] \in {"chunks", "embed"} /\ existing'[k] = d
        <5>1. <<d, "cut">> \notin flaws
          BY <2>3, <4>1
        <5>2. CASE docs[d].chunks # None /\ (docs[d].embedded \/ <<d, "bare">> \in flaws)
          BY <2>3, <3>1, <5>2
        <5>3. CASE \E k \in Indexers : pc[k] \in {"chunks", "embed"} /\ existing[k] = d
          BY <3>3, <5>3
        <5> QED
          BY <5>1, <5>2, <5>3 DEF CompleteInv
      <4> QED
        BY <3>2, <4>1 DEF CompleteInv
<1>9. ASSUME NEW i \in Indexers, Embed(i) PROVE CompleteInv'
  <2>1. /\ pc[i] = "embed" /\ pc' = [pc EXCEPT ![i] = "ok"]
        /\ UNCHANGED << worldVars, callVars, existing, hash, loaded, runs, outdated >>
    BY <1>9 DEF Embed, Goto
  <2>2. /\ RowEmbedded(i) /\ flaws \subseteq flaws' /\ existing[i] \in Rows
        /\ docs'[existing[i]].embedded \/ <<existing[i], "bare">> \in flaws'
    BY <1>9, <2>1, EmbedRow, ExistingRow
  <2>3. \A d \in Rows : /\ docs[d].chunks # None => docs'[d].chunks # None
                        /\ docs[d].embedded => docs'[d].embedded
    <3>1. \A d \in Rows : d # existing[i] => docs'[d] = docs[d]
      BY <2>2 DEF RowEmbedded
    <3>2. docs[existing[i]].embedded => docs'[existing[i]].embedded
      BY <1>9, EmbedRow
    <3>3. \A d \in Rows : docs'[d].chunks = docs[d].chunks
      BY <2>2 DEF RowEmbedded
    <3> QED
      BY <3>1, <3>2, <3>3
  <2>4. docs'[existing[i]].chunks # None
    BY <2>1, <2>2, <2>3 DEF CallInv, Informed
  <2>5. /\ Rows' = Rows
        /\ \A k \in Indexers \ {i} : pc'[k] = pc[k] /\ existing'[k] = existing[k]
    BY <2>1, <2>2, <1>a DEF RowEmbedded
  <2> QED
    BY <2>2, <2>3, <2>4, <2>5, CompleteKept
<1>10. ASSUME NEW i \in Indexers, Abort(i) PROVE CompleteInv'
  BY <1>10 DEF TypeOK, Exclusive, CallInv, Informed, CompleteInv, Abort, CutShort, Goto
<1>11. ASSUME NEW p \in Paths, EditFile(p) PROVE CompleteInv'
  BY <1>11 DEF TypeOK, Exclusive, CallInv, Informed, CompleteInv, EditFile
<1>12. CASE UNCHANGED vars
  BY <1>12 DEF TypeOK, Exclusive, CallInv, Informed, CompleteInv, vars
<1>13. CASE Reconfigure
  BY <1>13 DEF TypeOK, Exclusive, CallInv, Informed, CompleteInv, Reconfigure
<1> QED
  BY <1>1, <1>2, <1>3, <1>4, <1>5, <1>6, <1>7, <1>8, <1>9, <1>10, <1>11, <1>12,
     <1>13 DEF Next, IndexStep

(* A step by one call that neither hashes nor loads nor chunks.            *)
LEMMA TextKept ==
    ASSUME TextInv, NEW i \in Indexers, Rows' = Rows, flaws \subseteq flaws',
           \A d \in Rows : docs'[d].hash = docs[d].hash /\ docs'[d].chunks = docs[d].chunks,
           \A k \in Indexers : pc[k] = "chunks" => existing[k] \in Rows,
           UNCHANGED << content, path, existing, hash, loaded, outdated >>,
           \A k \in Indexers \ {i} : pc'[k] = pc[k],
           pc'[i] \in {"ok", "load"}, pc'[i] = "load" => pc[i] = "supersede"
    PROVE  TextInv'
<1>1. \A d \in Rows : docs'[d].chunks \in {None, docs'[d].hash} \/ <<d, "torn">> \in flaws'
  BY DEF TextInv
<1>2. ASSUME NEW k \in Indexers
      PROVE  /\ pc'[k] \in {"supersede", "load"} /\ ~outdated'[k] => hash'[k] = content'[path'[k]]
             /\ pc'[k] \in {"insert", "chunks"} /\ ~outdated'[k] => loaded'[k] = hash'[k]
             /\ pc'[k] = "chunks" => docs'[existing'[k]].hash = hash'[k]
  BY DEF TextInv
<1> QED
  BY <1>1, <1>2 DEF TextInv

(* A call that the file was not edited during chunks the text it hashed.   *)
LEMMA TextStep == TypeOK /\ CallInv /\ TextInv /\ [Next]_vars => TextInv'
<1> SUFFICES ASSUME TypeOK, CallInv, TextInv, [Next]_vars PROVE TextInv'
  OBVIOUS
<1> USE ContentsAssumption, BoundsAssumption DEF Working, Ended, Contents, Rows,
     worldVars, callVars
<1>a. /\ Len(docs) \in Nat /\ pc \in [Indexers -> Working \cup Ended]
      /\ existing \in [Indexers -> 0 .. Len(docs)] /\ path \in [Indexers -> Paths]
  BY DEF TypeOK
<1>b. \A k \in Indexers : pc[k] = "chunks" => existing[k] \in Rows
  BY ExistingRow
<1>1. ASSUME NEW i \in Indexers, NEW p \in Paths, NEW f \in BOOLEAN,
             Stat(i, p, f) PROVE TextInv'
  <2>1. /\ pc' = [pc EXCEPT ![i] = "lookup"] /\ UNCHANGED << docs, flaws, content >>
        /\ \A k \in Indexers \ {i} :
              /\ path'[k] = path[k] /\ hash'[k] = hash[k] /\ loaded'[k] = loaded[k]
              /\ existing'[k] = existing[k] /\ (outdated[k] => outdated'[k])
    BY <1>1 DEF Stat, Goto, TypeOK
  <2> QED
    BY <1>a, <2>1 DEF TextInv
<1>2. ASSUME NEW i \in Indexers, Lookup(i) PROVE TextInv'
  <2>1. /\ \E s \in {"ok", "read"} : pc' = [pc EXCEPT ![i] = s]
        /\ \A k \in Indexers \ {i} : existing'[k] = existing[k]
        /\ UNCHANGED << docs, flaws, content, path, hash, loaded, outdated >>
    BY <1>2 DEF Lookup, Goto, TypeOK
  <2> QED
    BY <1>a, <2>1 DEF TextInv
<1>3. ASSUME NEW i \in Indexers, ReadFile(i) PROVE TextInv'
  <2>1. /\ \E s \in {"refresh", "supersede", "load"} : pc' = [pc EXCEPT ![i] = s]
        /\ hash' = [hash EXCEPT ![i] = content[path[i]]]
        /\ UNCHANGED << docs, flaws, content, path, existing, loaded, outdated >>
    BY <1>3 DEF ReadFile, Goto
  <2> QED
    BY <1>a, <2>1 DEF TextInv, TypeOK
<1>4. ASSUME NEW i \in Indexers, Refresh(i) PROVE TextInv'
  <2>1. /\ pc' = [pc EXCEPT ![i] = "ok"]
        /\ UNCHANGED << worldVars, callVars, existing, hash, loaded, runs, outdated, flaws >>
    BY <1>4 DEF Refresh, Goto
  <2> QED
    BY <1>4, <1>a, <1>b, <2>1, RefreshRow, TextKept DEF RowRefreshed
<1>5. ASSUME NEW i \in Indexers, Supersede(i) PROVE TextInv'
  <2>1. /\ pc[i] = "supersede" /\ pc' = [pc EXCEPT ![i] = "load"]
        /\ UNCHANGED << worldVars, callVars, existing, hash, loaded, runs, outdated, flaws >>
    BY <1>5 DEF Supersede, Goto
  <2> QED
    BY <1>5, <1>a, <1>b, <2>1, SupersedeRow, TextKept DEF RowSuperseded
<1>6. ASSUME NEW i \in Indexers, Load(i) PROVE TextInv'
  <2>1. /\ pc[i] = "load" /\ loaded' = [loaded EXCEPT ![i] = content[path[i]]]
        /\ \E s \in {"ok", "failed", "insert"} : pc' = [pc EXCEPT ![i] = s]
        /\ UNCHANGED << docs, flaws, content, path, existing, hash, outdated >>
    BY <1>6 DEF Load, Goto
  <2> QED
    BY <1>a, <2>1 DEF TextInv, TypeOK
<1>7. ASSUME NEW i \in Indexers, InsertDocument(i) PROVE TextInv'
  <2>1. /\ pc[i] = "insert"
        /\ UNCHANGED << flaws, content, path, hash, loaded, outdated >>
        /\ \/ docs' = docs /\ existing' = existing /\ pc' = [pc EXCEPT ![i] = "conflict"]
           \/ /\ RowInserted(i) /\ existing' = [existing EXCEPT ![i] = Len(docs) + 1]
              /\ pc' = [pc EXCEPT ![i] = "chunks"]
    BY <1>7, InsertRow DEF InsertDocument, Goto
  <2>2. CASE docs' = docs /\ existing' = existing /\ pc' = [pc EXCEPT ![i] = "conflict"]
    BY <1>a, <2>1, <2>2 DEF TextInv
  <2>3. CASE /\ RowInserted(i) /\ existing' = [existing EXCEPT ![i] = Len(docs) + 1]
             /\ pc' = [pc EXCEPT ![i] = "chunks"]
    <3>1. \A d \in Rows' : docs'[d].chunks \in {None, docs'[d].hash} \/ <<d, "torn">> \in flaws'
      <4>1. ASSUME NEW d \in Rows PROVE docs'[d].chunks \in {None, docs'[d].hash} \/ <<d, "torn">> \in flaws'
        BY <2>1, <2>3 DEF TextInv, RowInserted
      <4>2. Rows' = Rows \cup {Len(docs) + 1} /\ docs'[Len(docs) + 1].chunks = None
        BY <1>a, <2>3 DEF RowInserted
      <4> HIDE DEF Rows
      <4> QED
        BY <4>1, <4>2
    <3>2. \A k \in Indexers : pc'[k] = "chunks" => docs'[existing'[k]].hash = hash'[k]
      BY <1>a, <1>b, <2>1, <2>3 DEF TextInv, RowInserted
    <3> QED
      BY <1>a, <2>1, <2>3, <3>1, <3>2 DEF TextInv
  <2> QED
    BY <2>1, <2>2, <2>3
<1>8. ASSUME NEW i \in Indexers, InsertChunks(i) PROVE TextInv'
  <2>1. /\ pc[i] = "chunks" /\ pc' = [pc EXCEPT ![i] = "embed"]
        /\ UNCHANGED << worldVars, callVars, existing, hash, loaded, runs, outdated >>
        /\ flaws \subseteq flaws' /\ (outdated[i] => <<existing[i], "torn">> \in flaws')
    BY <1>8 DEF InsertChunks, Goto
  <2>2. RowChunked(i) /\ existing[i] \in Rows
    BY <1>8, <1>b, <2>1, ChunksRow
  <2>3. ~outdated[i] => loaded[i] = docs[existing[i]].hash
    BY <2>1 DEF TextInv
  <2>4. \A d \in Rows : docs'[d].chunks \in {None, docs'[d].hash} \/ <<d, "torn">> \in flaws'
    BY <2>1, <2>2, <2>3 DEF TextInv, RowChunked
  <2>5. ASSUME NEW k \in Indexers, pc'[k] = "chunks"
        PROVE  docs'[existing'[k]].hash = hash'[k]
    BY <1>a, <1>b, <2>1, <2>2, <2>5 DEF TextInv, RowChunked
  <2>6. ASSUME NEW k \in Indexers, ~outdated'[k]
        PROVE  /\ pc'[k] \in {"supersede", "load"} => hash'[k] = content'[path'[k]]
               /\ pc'[k] \in {"insert", "chunks"} => loaded'[k] = hash'[k]
    BY <1>a, <2>1, <2>6 DEF TextInv
  <2> QED
    BY <2>2, <2>4, <2>5, <2>6 DEF TextInv, RowChunked
<1>9. ASSUME NEW i \in Indexers, Embed(i) PROVE TextInv'
  <2>1. /\ pc' = [pc EXCEPT ![i] = "ok"]
        /\ UNCHANGED << worldVars, callVars, existing, hash, loaded, runs, outdated >>
    BY <1>9 DEF Embed, Goto
  <2> QED
    BY <1>9, <1>a, <1>b, <2>1, EmbedRow, TextKept DEF RowEmbedded
<1>10. ASSUME NEW i \in Indexers, Abort(i) PROVE TextInv'
  BY <1>10, <1>a DEF TextInv, Abort, Goto
<1>11. ASSUME NEW p \in Paths, EditFile(p) PROVE TextInv'
  <2>1. /\ \E c \in Contents : content' = [content EXCEPT ![p] = c]
        /\ \A k \in Indexers : outdated'[k] = (outdated[k] \/ path[k] = p)
        /\ UNCHANGED << docs, flaws, pc, path, existing, hash, loaded >>
    BY <1>11 DEF EditFile
  <2>2. \A k \in Indexers : ~outdated'[k] => ~outdated[k] /\ content'[path[k]] = content[path[k]]
    BY <1>a, <2>1 DEF TypeOK
  <2> QED
    BY <2>1, <2>2 DEF TextInv
<1>12. CASE UNCHANGED vars
  BY <1>12 DEF TextInv, vars
<1>13. CASE Reconfigure
  BY <1>13 DEF TextInv, Reconfigure
<1> QED
  BY <1>1, <1>2, <1>3, <1>4, <1>5, <1>6, <1>7, <1>8, <1>9, <1>10, <1>11, <1>12,
     <1>13 DEF Next, IndexStep

-----------------------------------------------------------------------------

(* Every reachable state satisfies the inductive invariant.                *)
THEOREM InductiveInvariant == Spec => []IInv
<1>1. IInv /\ [Next]_vars => IInv'
  BY TypeOKStep, ExclusiveStep, CallStep, UniqueStep, HistoryStep, CompleteStep, TextStep DEF IInv
<1> QED
  BY <1>1, InitIInv, PTL DEF Spec

(* Every reachable state has the declared types.                           *)
THEOREM DocIndexTypeCorrect == Spec => []TypeOK
<1>1. IInv => TypeOK
  BY DEF IInv
<1> QED
  BY <1>1, InductiveInvariant, PTL

(* No path has two latest versions, although no transaction covers the     *)
(* superseding of one and the insertion of the next.                       *)
THEOREM AtMostOneLatest == Spec => []OneLatest
<1>1. IInv => OneLatest
  <2> SUFFICES ASSUME IInv, NEW p \in Paths PROVE Cardinality(LatestOf(p)) =< 1
    BY DEF OneLatest
  <2>1. CASE LatestOf(p) = {}
    BY <2>1, FS_EmptySet
  <2>2. CASE LatestOf(p) # {}
    <3>1. PICK d : d \in LatestOf(p)
      BY <2>2
    <3>2. \A e \in LatestOf(p) : e = d
      BY <3>1 DEF IInv, UniqueLatest, LatestOf, Rows
    <3>3. LatestOf(p) = {d}
      BY <3>1, <3>2
    <3> QED
      BY <3>3, FS_Singleton
  <2> QED
    BY <2>1, <2>2
<1> QED
  BY <1>1, InductiveInvariant, PTL

(* The rows of one canonical ID are the versions of one path in order.     *)
THEOREM HistoriesWellFormed == Spec => []HistoryWellFormed
<1>1. IInv => HistoryWellFormed
  BY DEF IInv, HistoryInv
<1> QED
  BY <1>1, InductiveInvariant, PTL

(* Failures, reverts and retries leave no version number out.              *)
THEOREM HistoriesGapless == Spec => []NoVersionGap
<1>1. IInv => NoVersionGap
  BY DEF IInv, HistoryInv
<1> QED
  BY <1>1, InductiveInvariant, PTL

(* A document nobody works on is whole unless a failed call, an edit during *)
(* its call or the want of a provider explains what it lacks.              *)
THEOREM DocumentsWhole == Spec => []WholeUnlessFlawed
<1>1. IInv => WholeUnlessFlawed
  <2> SUFFICES ASSUME IInv, NEW d \in Rows, WorkingOn(d) = {}, <<d, "cut">> \notin flaws
               PROVE  /\ docs[d].chunks # None
                      /\ docs[d].chunks = docs[d].hash \/ <<d, "torn">> \in flaws
                      /\ docs[d].embedded \/ <<d, "bare">> \in flaws
    BY DEF WholeUnlessFlawed, Rows
  <2>1. docs[d].chunks # None /\ (docs[d].embedded \/ <<d, "bare">> \in flaws)
    BY DEF IInv, CompleteInv, WorkingOn
  <2>2. docs[d].chunks \in {None, docs[d].hash} \/ <<d, "torn">> \in flaws
    BY DEF IInv, TextInv
  <2> QED
    BY <2>1, <2>2
<1> QED
  BY <1>1, InductiveInvariant, PTL

-----------------------------------------------------------------------------
(* Freshness, when every edit moves the second of a file's mtime on.       *)

(* A row, and a call, that have the file's mtime have its content.         *)
RowTimeInv ==
    \A d \in Rows :
        /\ docs[d].mtime =< mtime[docs[d].path]
        /\ docs[d].mtime = mtime[docs[d].path] => docs[d].hash = content[docs[d].path]

CallTimeInv ==
    \A i \in Indexers :
        /\ pc[i] \in Working =>
              /\ statted[i] =< mtime[path[i]]
              /\ hash[i] # None /\ statted[i] = mtime[path[i]] => hash[i] = content[path[i]]
        /\ ~outdated[i] => statted[i] = mtime[path[i]]

(* The row a call works on is the latest, and the call's own.              *)
OwnRowInv ==
    \A i \in Indexers :
        /\ pc[i] \in {"read", "refresh", "supersede", "chunks", "embed"} /\ existing[i] # 0
              => docs[existing[i]].latest
        /\ pc[i] \in {"refresh", "chunks", "embed"} =>
              docs[existing[i]].hash = hash[i] /\ hash[i] # None

(* Who works on the path of a call that has ended has made it outdated.    *)
OutdatedInv ==
    \A i, k \in Indexers :
        i # k /\ pc[k] \in Working /\ path[k] = path[i] => outdated[i]

(* FreshAfterOk, one call at a time.                                       *)
Fresh(j) ==
    pc[j] = "ok" /\ ~outdated[j] /\ content[path[j]] \in Texts =>
        \E d \in Rows : docs[d].path = path[j] /\ docs[d].latest /\ docs[d].hash = content[path[j]]
AllFresh == \A j \in Indexers : Fresh(j)

FreshInv == RowTimeInv /\ CallTimeInv /\ OwnRowInv /\ OutdatedInv /\ AllFresh

(* Freshness holds before the first call.                                  *)
LEMMA InitFreshInv == Init => FreshInv
<1> SUFFICES ASSUME Init PROVE FreshInv
  OBVIOUS
<1> QED
  BY DEF Init, FreshInv, RowTimeInv, CallTimeInv, OwnRowInv, OutdatedInv, AllFresh, Fresh,
     Rows, Working

(* A call that begins makes those that ended on its path outdated.         *)
LEMMA OutdatedStep == TypeOK /\ Exclusive /\ CallInv /\ OutdatedInv /\ [Next]_vars => OutdatedInv'
<1> SUFFICES ASSUME TypeOK, Exclusive, CallInv, OutdatedInv, [Next]_vars PROVE OutdatedInv'
  OBVIOUS
<1> USE ContentsAssumption, BoundsAssumption DEF Working, Ended, Contents, Rows,
     worldVars, callVars
<1>1. ASSUME NEW i \in Indexers, NEW p \in Paths, NEW f \in BOOLEAN,
             Stat(i, p, f) PROVE OutdatedInv'
  <2> SUFFICES ASSUME NEW j \in Indexers, NEW k \in Indexers, j # k,
                      pc'[k] \in Working, path'[k] = path'[j]
               PROVE  outdated'[j]
    BY DEF OutdatedInv
  <2>1. j # i => outdated'[j] = (outdated[j] \/ path[j] = p)
    BY <1>1 DEF Stat
  <2>2. path' = [path EXCEPT ![i] = p] /\ pc' = [pc EXCEPT ![i] = "lookup"]
    BY <1>1 DEF Stat, Goto
  <2>3. CASE k = i
    BY <2>1, <2>2, <2>3 DEF TypeOK
  <2>4. CASE k # i
    <3>1. pc[k] \in Working /\ path'[k] = path[k]
      BY <2>2, <2>4 DEF TypeOK
    <3>2. j # i
      BY <1>1, <2>2, <3>1 DEF Stat, TypeOK
    <3> QED
      BY <2>1, <2>2, <3>1, <3>2 DEF OutdatedInv, TypeOK
  <2> QED
    BY <2>3, <2>4
<1>2. ASSUME NEW i \in Indexers, Lookup(i) PROVE OutdatedInv'
  BY <1>2 DEF TypeOK, Exclusive, OutdatedInv, Lookup, LatestOf, MtimeHit, Goto
<1>3. ASSUME NEW i \in Indexers, ReadFile(i) PROVE OutdatedInv'
  BY <1>3 DEF TypeOK, Exclusive, OutdatedInv, ReadFile, HashHit, Goto
<1>4. ASSUME NEW i \in Indexers, Refresh(i) PROVE OutdatedInv'
  <2>1. /\ pc[i] = "refresh" /\ pc' = [pc EXCEPT ![i] = "ok"]
        /\ UNCHANGED << worldVars, callVars, existing, hash, loaded, runs, outdated, flaws >>
    BY <1>4 DEF Refresh, Goto
  <2>2. RowRefreshed(i)
    BY <1>4, RefreshRow
  <2> QED
    BY <2>1, <2>2 DEF RowRefreshed, TypeOK, Exclusive, OutdatedInv
<1>5. ASSUME NEW i \in Indexers, Supersede(i) PROVE OutdatedInv'
  <2>1. /\ pc[i] = "supersede" /\ pc' = [pc EXCEPT ![i] = "load"]
        /\ UNCHANGED << worldVars, callVars, existing, hash, loaded, runs, outdated, flaws >>
    BY <1>5 DEF Supersede, Goto
  <2>2. RowSuperseded(i)
    BY <1>5, SupersedeRow
  <2> QED
    BY <2>1, <2>2 DEF RowSuperseded, TypeOK, Exclusive, OutdatedInv
<1>6. ASSUME NEW i \in Indexers, Load(i) PROVE OutdatedInv'
  BY <1>6 DEF TypeOK, Exclusive, OutdatedInv, Load, Goto
<1>7. ASSUME NEW i \in Indexers, InsertDocument(i) PROVE OutdatedInv'
  <2>1. CASE HashTaken(i)
    BY <1>7, <2>1 DEF TypeOK, Exclusive, OutdatedInv, InsertDocument, Goto
  <2>3. ~HashTaken(i) =>
          /\ pc[i] = "insert" /\ pc' = [pc EXCEPT ![i] = "chunks"]
          /\ existing' = [existing EXCEPT ![i] = Len(docs) + 1]
          /\ UNCHANGED << worldVars, callVars, hash, loaded, runs, outdated, flaws >>
    BY <1>7 DEF InsertDocument, Goto
  <2>2. ASSUME ~HashTaken(i) PROVE OutdatedInv'
    <3>1. RowInserted(i)
      BY <1>7, <2>2, InsertRow
    <3> QED
      BY <2>2, <2>3, <3>1 DEF RowInserted, TypeOK, Exclusive, OutdatedInv
  <2> QED
    BY <2>1, <2>2
<1>8. ASSUME NEW i \in Indexers, InsertChunks(i) PROVE OutdatedInv'
  <2>1. /\ pc[i] = "chunks" /\ pc' = [pc EXCEPT ![i] = "embed"]
        /\ UNCHANGED << worldVars, callVars, existing, hash, loaded, runs, outdated >>
    BY <1>8 DEF InsertChunks, Goto
  <2>2. RowChunked(i)
    BY <1>8, ChunksRow
  <2> QED
    BY <2>1, <2>2 DEF RowChunked, TypeOK, Exclusive, OutdatedInv
<1>9. ASSUME NEW i \in Indexers, Embed(i) PROVE OutdatedInv'
  <2>1. /\ pc[i] = "embed" /\ pc' = [pc EXCEPT ![i] = "ok"]
        /\ UNCHANGED << worldVars, callVars, existing, hash, loaded, runs, outdated >>
    BY <1>9 DEF Embed, Goto
  <2>2. RowEmbedded(i)
    BY <1>9, EmbedRow
  <2> QED
    BY <2>1, <2>2 DEF RowEmbedded, TypeOK, Exclusive, OutdatedInv
<1>10. ASSUME NEW i \in Indexers, Abort(i) PROVE OutdatedInv'
  BY <1>10 DEF TypeOK, Exclusive, OutdatedInv, Abort, CutShort, Goto
<1>11. ASSUME NEW p \in Paths, EditFile(p) PROVE OutdatedInv'
  BY <1>11 DEF TypeOK, Exclusive, OutdatedInv, EditFile
<1>12. CASE UNCHANGED vars
  BY <1>12 DEF TypeOK, Exclusive, OutdatedInv, vars
<1>13. CASE Reconfigure
  BY <1>13 DEF TypeOK, Exclusive, OutdatedInv, Reconfigure
<1> QED
  BY <1>1, <1>2, <1>3, <1>4, <1>5, <1>6, <1>7, <1>8, <1>9, <1>10, <1>11, <1>12,
     <1>13 DEF Next, IndexStep

(* Only the call itself supersedes the row it works on.                    *)
LEMMA OwnRowStep == TypeOK /\ Exclusive /\ CallInv /\ OwnRowInv /\ [Next]_vars => OwnRowInv'
<1> SUFFICES ASSUME TypeOK, Exclusive, CallInv, OwnRowInv, [Next]_vars PROVE OwnRowInv'
  OBVIOUS
<1> USE ContentsAssumption, BoundsAssumption DEF Working, Ended, Contents, Rows,
     worldVars, callVars
<1>a. /\ Len(docs) \in Nat /\ pc \in [Indexers -> Working \cup Ended]
      /\ existing \in [Indexers -> 0 .. Len(docs)] /\ path \in [Indexers -> Paths]
  BY DEF TypeOK
<1>1. ASSUME NEW i \in Indexers, NEW p \in Paths, NEW f \in BOOLEAN,
             Stat(i, p, f) PROVE OwnRowInv'
  BY <1>1 DEF TypeOK, Exclusive, CallInv, Informed, OwnRowInv, Stat, Goto
<1>2. ASSUME NEW i \in Indexers, Lookup(i) PROVE OwnRowInv'
  BY <1>2 DEF TypeOK, Exclusive, CallInv, Informed, OwnRowInv, Lookup, LatestOf,
     MtimeHit, Goto
<1>3. ASSUME NEW i \in Indexers, ReadFile(i) PROVE OwnRowInv'
  BY <1>3 DEF TypeOK, Exclusive, CallInv, Informed, OwnRowInv, ReadFile, HashHit, Goto
<1>4. ASSUME NEW i \in Indexers, Refresh(i) PROVE OwnRowInv'
  <2>1. /\ pc[i] = "refresh" /\ pc' = [pc EXCEPT ![i] = "ok"]
        /\ UNCHANGED << worldVars, callVars, existing, hash, loaded, runs, outdated, flaws >>
    BY <1>4 DEF Refresh, Goto
  <2>2. RowRefreshed(i)
    BY <1>4, RefreshRow
  <2> QED
    BY <2>1, <2>2, <1>a DEF RowRefreshed, CallInv, Informed, Exclusive, OwnRowInv
<1>5. ASSUME NEW i \in Indexers, Supersede(i) PROVE OwnRowInv'
  <2>1. /\ pc[i] = "supersede" /\ pc' = [pc EXCEPT ![i] = "load"]
        /\ UNCHANGED << worldVars, callVars, existing, hash, loaded, runs, outdated, flaws >>
    BY <1>5 DEF Supersede, Goto
  <2>2. RowSuperseded(i)
    BY <1>5, SupersedeRow
  <2>3. ASSUME NEW k \in Indexers, k # i, existing[k] # 0,
               pc[k] \in {"read", "refresh", "supersede", "chunks", "embed"}
        PROVE  docs'[existing[k]] = docs[existing[k]]
    BY <2>1, <2>2, <2>3, <1>a DEF RowSuperseded, CallInv, Informed, Exclusive, Working
  <2> QED
    BY <2>1, <2>3, <1>a DEF CallInv, Informed, OwnRowInv
<1>6. ASSUME NEW i \in Indexers, Load(i) PROVE OwnRowInv'
  BY <1>6 DEF TypeOK, Exclusive, CallInv, Informed, OwnRowInv, Load, Goto
<1>7. ASSUME NEW i \in Indexers, InsertDocument(i) PROVE OwnRowInv'
  <2>1. CASE HashTaken(i)
    BY <1>7, <2>1 DEF TypeOK, Exclusive, CallInv, Informed, OwnRowInv, InsertDocument,
       Goto
  <2>3. ~HashTaken(i) =>
          /\ pc[i] = "insert" /\ pc' = [pc EXCEPT ![i] = "chunks"]
          /\ existing' = [existing EXCEPT ![i] = Len(docs) + 1]
          /\ UNCHANGED << worldVars, callVars, hash, loaded, runs, outdated, flaws >>
    BY <1>7 DEF InsertDocument, Goto
  <2>2. ASSUME ~HashTaken(i) PROVE OwnRowInv'
    <3>1. RowInserted(i)
      BY <1>7, <2>2, InsertRow
    <3> QED
      BY <2>2, <2>3, <3>1, <1>a DEF RowInserted, CallInv, Informed, Exclusive, OwnRowInv
  <2> QED
    BY <2>1, <2>2
<1>8. ASSUME NEW i \in Indexers, InsertChunks(i) PROVE OwnRowInv'
  <2>1. /\ pc[i] = "chunks" /\ pc' = [pc EXCEPT ![i] = "embed"]
        /\ UNCHANGED << worldVars, callVars, existing, hash, loaded, runs, outdated >>
    BY <1>8 DEF InsertChunks, Goto
  <2>2. RowChunked(i)
    BY <1>8, ChunksRow
  <2> QED
    BY <2>1, <2>2, <1>a DEF RowChunked, CallInv, Informed, Exclusive, OwnRowInv
<1>9. ASSUME NEW i \in Indexers, Embed(i) PROVE OwnRowInv'
  <2>1. /\ pc[i] = "embed" /\ pc' = [pc EXCEPT ![i] = "ok"]
        /\ UNCHANGED << worldVars, callVars, existing, hash, loaded, runs, outdated >>
    BY <1>9 DEF Embed, Goto
  <2>2. RowEmbedded(i)
    BY <1>9, EmbedRow
  <2> QED
    BY <2>1, <2>2, <1>a DEF RowEmbedded, CallInv, Informed, Exclusive, OwnRowInv
<1>10. ASSUME NEW i \in Indexers, Abort(i) PROVE OwnRowInv'
  BY <1>10 DEF TypeOK, Exclusive, CallInv, Informed, OwnRowInv, Abort, CutShort, Goto
<1>11. ASSUME NEW p \in Paths, EditFile(p) PROVE OwnRowInv'
  BY <1>11 DEF TypeOK, Exclusive, CallInv, Informed, OwnRowInv, EditFile
<1>12. CASE UNCHANGED vars
  BY <1>12 DEF TypeOK, Exclusive, CallInv, Informed, OwnRowInv, vars
<1>13. CASE Reconfigure
  BY <1>13 DEF TypeOK, Exclusive, CallInv, Informed, OwnRowInv, Reconfigure
<1> QED
  BY <1>1, <1>2, <1>3, <1>4, <1>5, <1>6, <1>7, <1>8, <1>9, <1>10, <1>11, <1>12,
     <1>13 DEF Next, IndexStep

(* What a call has hashed is the file's content until an edit.             *)
LEMMA CallTimeStep == TypeOK /\ SameSecond = FALSE /\
           CallInv /\ CallTimeInv /\ [Next]_vars => CallTimeInv'
<1> SUFFICES ASSUME TypeOK, SameSecond = FALSE,
                    CallInv, CallTimeInv, [Next]_vars
             PROVE CallTimeInv'
  OBVIOUS
<1> USE ContentsAssumption, BoundsAssumption DEF Working, Ended, Contents, Rows,
     worldVars, callVars
<1>1. ASSUME NEW i \in Indexers, NEW p \in Paths, NEW f \in BOOLEAN,
             Stat(i, p, f) PROVE CallTimeInv'
  BY <1>1 DEF TypeOK, CallTimeInv, Stat, Goto
<1>2. ASSUME NEW i \in Indexers, Lookup(i) PROVE CallTimeInv'
  BY <1>2 DEF TypeOK, CallTimeInv, Lookup, LatestOf, MtimeHit, Goto
<1>3. ASSUME NEW i \in Indexers, ReadFile(i) PROVE CallTimeInv'
  BY <1>3 DEF TypeOK, CallTimeInv, ReadFile, HashHit, Goto
<1>4. ASSUME NEW i \in Indexers, Refresh(i) PROVE CallTimeInv'
  <2>1. /\ pc[i] = "refresh" /\ pc' = [pc EXCEPT ![i] = "ok"]
        /\ UNCHANGED << worldVars, callVars, existing, hash, loaded, runs, outdated, flaws >>
    BY <1>4 DEF Refresh, Goto
  <2>2. RowRefreshed(i)
    BY <1>4, RefreshRow
  <2> QED
    BY <2>1, <2>2 DEF RowRefreshed, TypeOK, CallTimeInv
<1>5. ASSUME NEW i \in Indexers, Supersede(i) PROVE CallTimeInv'
  <2>1. /\ pc[i] = "supersede" /\ pc' = [pc EXCEPT ![i] = "load"]
        /\ UNCHANGED << worldVars, callVars, existing, hash, loaded, runs, outdated, flaws >>
    BY <1>5 DEF Supersede, Goto
  <2>2. RowSuperseded(i)
    BY <1>5, SupersedeRow
  <2> QED
    BY <2>1, <2>2 DEF RowSuperseded, TypeOK, CallTimeInv
<1>6. ASSUME NEW i \in Indexers, Load(i) PROVE CallTimeInv'
  BY <1>6 DEF TypeOK, CallTimeInv, Load, Goto
<1>7. ASSUME NEW i \in Indexers, InsertDocument(i) PROVE CallTimeInv'
  <2>1. CASE HashTaken(i)
    BY <1>7, <2>1 DEF TypeOK, CallTimeInv, InsertDocument, Goto
  <2>3. ~HashTaken(i) =>
          /\ pc[i] = "insert" /\ pc' = [pc EXCEPT ![i] = "chunks"]
          /\ existing' = [existing EXCEPT ![i] = Len(docs) + 1]
          /\ UNCHANGED << worldVars, callVars, hash, loaded, runs, outdated, flaws >>
    BY <1>7 DEF InsertDocument, Goto
  <2>2. ASSUME ~HashTaken(i) PROVE CallTimeInv'
    <3>1. RowInserted(i)
      BY <1>7, <2>2, InsertRow
    <3> QED
      BY <2>2, <2>3, <3>1 DEF RowInserted, TypeOK, CallTimeInv
  <2> QED
    BY <2>1, <2>2
<1>8. ASSUME NEW i \in Indexers, InsertChunks(i) PROVE CallTimeInv'
  <2>1. /\ pc[i] = "chunks" /\ pc' = [pc EXCEPT ![i] = "embed"]
        /\ UNCHANGED << worldVars, callVars, existing, hash, loaded, runs, outdated >>
    BY <1>8 DEF InsertChunks, Goto
  <2>2. RowChunked(i)
    BY <1>8, ChunksRow
  <2> QED
    BY <2>1, <2>2 DEF RowChunked, TypeOK, CallTimeInv
<1>9. ASSUME NEW i \in Indexers, Embed(i) PROVE CallTimeInv'
  <2>1. /\ pc[i] = "embed" /\ pc' = [pc EXCEPT ![i] = "ok"]
        /\ UNCHANGED << worldVars, callVars, existing, hash, loaded, runs, outdated >>
    BY <1>9 DEF Embed, Goto
  <2>2. RowEmbedded(i)
    BY <1>9, EmbedRow
  <2> QED
    BY <2>1, <2>2 DEF RowEmbedded, TypeOK, CallTimeInv
<1>10. ASSUME NEW i \in Indexers, Abort(i) PROVE CallTimeInv'
  BY <1>10 DEF TypeOK, CallTimeInv, Abort, CutShort, Goto
<1>11. ASSUME NEW p \in Paths, EditFile(p) PROVE CallTimeInv'
  <2>1. /\ mtime' = [mtime EXCEPT ![p] = mtime[p] + 1] /\ mtime \in [Paths -> Nat]
        /\ \E c \in Contents : content' = [content EXCEPT ![p] = c]
        /\ UNCHANGED << docs, pc, path, statted, existing, hash >>
    BY <1>11 DEF EditFile, TypeOK
  <2>2. \A j \in Indexers : outdated'[j] = (outdated[j] \/ path[j] = p)
    BY <1>11 DEF EditFile
  <2>3. ASSUME NEW j \in Indexers, path[j] # p
        PROVE  mtime'[path[j]] = mtime[path[j]] /\ content'[path[j]] = content[path[j]]
    BY <2>1, <2>3 DEF TypeOK
  <2>4. ASSUME NEW j \in Indexers, path[j] = p
        PROVE  mtime'[path[j]] = mtime[path[j]] + 1
    BY <2>1, <2>4 DEF TypeOK
  <2>5. \A j \in Indexers : statted[j] \in Nat /\ mtime[path[j]] \in Nat
    BY <2>1 DEF TypeOK
  <2> QED
    <3> SUFFICES ASSUME NEW j \in Indexers
                 PROVE  /\ pc'[j] \in Working =>
                            /\ statted'[j] =< mtime'[path'[j]]
                            /\ hash'[j] # None /\ statted'[j] = mtime'[path'[j]]
                                  => hash'[j] = content'[path'[j]]
                        /\ ~outdated'[j] => statted'[j] = mtime'[path'[j]]
      BY DEF CallTimeInv
    <3>1. CASE path[j] = p
      <4>1. pc[j] \in Working => statted[j] < mtime'[path[j]]
        BY <2>4, <2>5, <3>1 DEF CallTimeInv
      <4>2. outdated'[j]
        BY <2>2, <3>1
      <4>3. statted[j] # mtime'[path[j]] \/ pc[j] \notin Working
        BY <2>4, <2>5, <3>1, <4>1
      <4> QED
        BY <2>1, <2>4, <2>5, <3>1, <4>1, <4>2, <4>3
    <3>2. CASE path[j] # p
      <4>1. ~outdated'[j] => ~outdated[j]
        BY <2>2, <3>2
      <4>2. mtime'[path[j]] = mtime[path[j]] /\ content'[path[j]] = content[path[j]]
        BY <2>3, <3>2
      <4> QED
        BY <2>1, <4>1, <4>2 DEF CallTimeInv
    <3> QED
      BY <3>1, <3>2
<1>12. CASE UNCHANGED vars
  BY <1>12 DEF TypeOK, CallTimeInv, vars
<1>13. CASE Reconfigure
  BY <1>13 DEF TypeOK, CallTimeInv, Reconfigure
<1> QED
  BY <1>1, <1>2, <1>3, <1>4, <1>5, <1>6, <1>7, <1>8, <1>9, <1>10, <1>11, <1>12,
     <1>13 DEF Next, IndexStep

(* A row gets a mtime that goes with its hash.                             *)
LEMMA RowTimeStep == TypeOK /\ SameSecond = FALSE /\ Exclusive /\
           CallInv /\ CallTimeInv /\ OwnRowInv /\ RowTimeInv /\ [Next]_vars => RowTimeInv'
<1> SUFFICES ASSUME TypeOK, SameSecond = FALSE, Exclusive,
                    CallInv, CallTimeInv, OwnRowInv, RowTimeInv, [Next]_vars
             PROVE RowTimeInv'
  OBVIOUS
<1> USE ContentsAssumption, BoundsAssumption DEF Working, Ended, Contents, Rows,
     worldVars, callVars
<1>a. /\ Len(docs) \in Nat /\ pc \in [Indexers -> Working \cup Ended]
      /\ existing \in [Indexers -> 0 .. Len(docs)] /\ path \in [Indexers -> Paths]
  BY DEF TypeOK
<1>1. ASSUME NEW i \in Indexers, NEW p \in Paths, NEW f \in BOOLEAN,
             Stat(i, p, f) PROVE RowTimeInv'
  BY <1>1 DEF TypeOK, CallInv, Informed, CallTimeInv, OwnRowInv, RowTimeInv, Stat, Goto
<1>2. ASSUME NEW i \in Indexers, Lookup(i) PROVE RowTimeInv'
  BY <1>2 DEF TypeOK, CallInv, Informed, CallTimeInv, OwnRowInv, RowTimeInv, Lookup,
     LatestOf, MtimeHit, Goto
<1>3. ASSUME NEW i \in Indexers, ReadFile(i) PROVE RowTimeInv'
  BY <1>3 DEF TypeOK, CallInv, Informed, CallTimeInv, OwnRowInv, RowTimeInv, ReadFile,
     HashHit, Goto
<1>4. ASSUME NEW i \in Indexers, Refresh(i) PROVE RowTimeInv'
  <2>1. /\ pc[i] = "refresh" /\ pc' = [pc EXCEPT ![i] = "ok"]
        /\ UNCHANGED << worldVars, callVars, existing, hash, loaded, runs, outdated, flaws >>
    BY <1>4 DEF Refresh, Goto
  <2>2. RowRefreshed(i)
    BY <1>4, RefreshRow
  <2> QED
    BY <2>1, <2>2, <1>a DEF RowRefreshed, CallInv, Informed, CallTimeInv, OwnRowInv,
       RowTimeInv
<1>5. ASSUME NEW i \in Indexers, Supersede(i) PROVE RowTimeInv'
  <2>1. /\ pc[i] = "supersede" /\ pc' = [pc EXCEPT ![i] = "load"]
        /\ UNCHANGED << worldVars, callVars, existing, hash, loaded, runs, outdated, flaws >>
    BY <1>5 DEF Supersede, Goto
  <2>2. RowSuperseded(i)
    BY <1>5, SupersedeRow
  <2> QED
    BY <2>1, <2>2, <1>a DEF RowSuperseded, CallInv, Informed, CallTimeInv, OwnRowInv,
       RowTimeInv
<1>6. ASSUME NEW i \in Indexers, Load(i) PROVE RowTimeInv'
  BY <1>6 DEF TypeOK, CallInv, Informed, CallTimeInv, OwnRowInv, RowTimeInv, Load, Goto
<1>7. ASSUME NEW i \in Indexers, InsertDocument(i) PROVE RowTimeInv'
  <2>1. CASE HashTaken(i)
    BY <1>7, <2>1 DEF TypeOK, CallInv, Informed, CallTimeInv, OwnRowInv, RowTimeInv,
       InsertDocument, Goto
  <2>3. ~HashTaken(i) =>
          /\ pc[i] = "insert" /\ pc' = [pc EXCEPT ![i] = "chunks"]
          /\ existing' = [existing EXCEPT ![i] = Len(docs) + 1]
          /\ UNCHANGED << worldVars, callVars, hash, loaded, runs, outdated, flaws >>
    BY <1>7 DEF InsertDocument, Goto
  <2>2. ASSUME ~HashTaken(i) PROVE RowTimeInv'
    <3>1. RowInserted(i)
      BY <1>7, <2>2, InsertRow
    <3>2. /\ \A d \in Rows : docs'[d] = docs[d]
          /\ \A d \in Rows' : d \in Rows \/ d = Len(docs) + 1
      BY <3>1, <1>a DEF RowInserted
    <3>3. LET x == docs'[Len(docs) + 1] IN
            x.path = path[i] /\ x.mtime = statted[i] /\ x.hash = hash[i]
      BY <3>1 DEF RowInserted
    <3>4. hash[i] # None /\ pc[i] \in Working
      BY <2>2, <2>3 DEF CallInv, Informed, Working
    <3> QED
      BY <2>2, <2>3, <3>2, <3>3, <3>4 DEF CallTimeInv, RowTimeInv
  <2> QED
    BY <2>1, <2>2
<1>8. ASSUME NEW i \in Indexers, InsertChunks(i) PROVE RowTimeInv'
  <2>1. /\ pc[i] = "chunks" /\ pc' = [pc EXCEPT ![i] = "embed"]
        /\ UNCHANGED << worldVars, callVars, existing, hash, loaded, runs, outdated >>
    BY <1>8 DEF InsertChunks, Goto
  <2>2. RowChunked(i)
    BY <1>8, ChunksRow
  <2> QED
    BY <2>1, <2>2, <1>a DEF RowChunked, CallInv, Informed, CallTimeInv, OwnRowInv,
       RowTimeInv
<1>9. ASSUME NEW i \in Indexers, Embed(i) PROVE RowTimeInv'
  <2>1. /\ pc[i] = "embed" /\ pc' = [pc EXCEPT ![i] = "ok"]
        /\ UNCHANGED << worldVars, callVars, existing, hash, loaded, runs, outdated >>
    BY <1>9 DEF Embed, Goto
  <2>2. RowEmbedded(i)
    BY <1>9, EmbedRow
  <2> QED
    BY <2>1, <2>2, <1>a DEF RowEmbedded, CallInv, Informed, CallTimeInv, OwnRowInv,
       RowTimeInv
<1>10. ASSUME NEW i \in Indexers, Abort(i) PROVE RowTimeInv'
  BY <1>10 DEF TypeOK, CallInv, Informed, CallTimeInv, OwnRowInv, RowTimeInv, Abort,
     CutShort, Goto
<1>11. ASSUME NEW p \in Paths, EditFile(p) PROVE RowTimeInv'
  <2>1. /\ mtime' = [mtime EXCEPT ![p] = mtime[p] + 1] /\ mtime \in [Paths -> Nat]
        /\ \E c \in Contents : content' = [content EXCEPT ![p] = c]
        /\ UNCHANGED << docs, pc, path, statted, existing, hash >>
    BY <1>11 DEF EditFile, TypeOK
  <2>2. ASSUME NEW d \in Rows
        PROVE  /\ docs[d].mtime =< mtime'[docs[d].path]
               /\ docs[d].mtime = mtime'[docs[d].path] => docs[d].hash = content'[docs[d].path]
    <3>1. docs[d].path \in Paths /\ docs[d].mtime \in Nat
      <4>1. docs[d] \in Document
        BY DEF TypeOK
      <4> QED
        BY <4>1 DEF Document
    <3>2. CASE docs[d].path = p
      BY <2>1, <3>1, <3>2 DEF RowTimeInv
    <3>3. CASE docs[d].path # p
      BY <2>1, <3>1, <3>3 DEF RowTimeInv, TypeOK
    <3> QED
      BY <3>2, <3>3
  <2> QED
    BY <2>1, <2>2 DEF RowTimeInv
<1>12. CASE UNCHANGED vars
  BY <1>12 DEF TypeOK, CallInv, Informed, CallTimeInv, OwnRowInv, RowTimeInv, vars
<1>13. CASE Reconfigure
  BY <1>13 DEF TypeOK, CallInv, Informed, CallTimeInv, OwnRowInv, RowTimeInv, Reconfigure
<1> QED
  BY <1>1, <1>2, <1>3, <1>4, <1>5, <1>6, <1>7, <1>8, <1>9, <1>10, <1>11, <1>12,
     <1>13 DEF Next, IndexStep

(* A step that touches neither the path nor its latest row keeps           *)
(* freshness.                                                              *)
LEMMA FreshKept ==
    ASSUME OutdatedInv, AllFresh, Len(docs) \in Nat, Len(docs') \in Nat, Len(docs') >= Len(docs),
           NEW i \in Indexers, pc[i] \in Working, NEW j \in Indexers, j # i, pc'[j] = pc[j],
           UNCHANGED << content, path, outdated >>,
           \A d \in Rows : docs[d].path # path[i] => docs'[d] = docs[d]
    PROVE  Fresh(j)'
<1>1. CASE pc[j] = "ok" /\ ~outdated[j] /\ content[path[j]] \in Texts
  <2>1. path[i] # path[j]
    BY <1>1 DEF OutdatedInv
  <2>2. PICK d \in Rows : docs[d].path = path[j] /\ docs[d].latest /\ docs[d].hash = content[path[j]]
    BY <1>1 DEF AllFresh, Fresh
  <2>3. d \in Rows' /\ docs'[d] = docs[d]
    BY <2>1, <2>2 DEF Rows
  <2> QED
    BY <2>2, <2>3 DEF Fresh
<1>2. CASE ~(pc[j] = "ok" /\ ~outdated[j] /\ content[path[j]] \in Texts)
  BY <1>2 DEF Fresh
<1> QED
  BY <1>1, <1>2

(* A call ends well only on the file's content.                            *)
LEMMA FreshStep == TypeOK /\ CallInv /\ RowTimeInv /\ CallTimeInv /\
           OwnRowInv /\ OutdatedInv /\ AllFresh /\ [Next]_vars => AllFresh'
<1> SUFFICES ASSUME TypeOK, CallInv, RowTimeInv, CallTimeInv,
                    OwnRowInv, OutdatedInv, AllFresh, [Next]_vars
             PROVE AllFresh'
  OBVIOUS
<1> USE ContentsAssumption, BoundsAssumption DEF Working, Ended, Contents, Rows,
     worldVars, callVars
<1>a. /\ Len(docs) \in Nat /\ pc \in [Indexers -> Working \cup Ended]
      /\ existing \in [Indexers -> 0 .. Len(docs)] /\ path \in [Indexers -> Paths]
  BY DEF TypeOK
<1>1. ASSUME NEW i \in Indexers, NEW p \in Paths, NEW f \in BOOLEAN,
             Stat(i, p, f) PROVE AllFresh'
  <2>1. /\ pc' = [pc EXCEPT ![i] = "lookup"] /\ path' = [path EXCEPT ![i] = p]
        /\ UNCHANGED << docs, content >>
    BY <1>1 DEF Stat, Goto
  <2>2. \A j \in Indexers : j # i => outdated'[j] = (outdated[j] \/ path[j] = p)
    BY <1>1 DEF Stat
  <2>3. ASSUME NEW j \in Indexers PROVE Fresh(j)'
    <3>1. CASE j = i
      BY <1>a, <2>1, <3>1 DEF Fresh
    <3>2. CASE j # i
      <4>1. pc'[j] = pc[j] /\ path'[j] = path[j] /\ (~outdated'[j] => ~outdated[j])
        BY <1>a, <2>1, <2>2, <3>2
      <4> QED
        BY <2>1, <4>1 DEF AllFresh, Fresh
    <3> QED
      BY <3>1, <3>2
  <2> QED
    BY <2>3 DEF AllFresh
<1>2. ASSUME NEW i \in Indexers, Lookup(i) PROVE AllFresh'
  <2>1. /\ pc[i] = "lookup" /\ \A j \in Indexers \ {i} : pc'[j] = pc[j]
        /\ UNCHANGED << docs, content, mtime, path, statted, outdated >>
    BY <1>2, <1>a DEF Lookup, Goto, worldVars, callVars
  <2>2. ASSUME pc'[i] = "ok"
        PROVE  \E d \in Rows : /\ docs[d].path = path[i] /\ docs[d].latest
                               /\ docs[d].mtime = statted[i]
    BY <1>2, <1>a, <2>2 DEF Lookup, LatestOf, MtimeHit, Goto, Rows
  <2>3. Fresh(i)'
    <3>1. ASSUME pc'[i] = "ok", ~outdated[i]
          PROVE  \E d \in Rows : /\ docs[d].path = path[i] /\ docs[d].latest
                                 /\ docs[d].hash = content[path[i]]
      BY <2>2, <3>1 DEF RowTimeInv, CallTimeInv
    <3> QED
      BY <2>1, <3>1 DEF Fresh
  <2> QED
    BY <2>1, <2>3 DEF AllFresh, Fresh
<1>3. ASSUME NEW i \in Indexers, ReadFile(i) PROVE AllFresh'
  BY <1>3 DEF TypeOK, RowTimeInv, CallTimeInv, AllFresh, Fresh, ReadFile, HashHit, Goto
<1>4. ASSUME NEW i \in Indexers, Refresh(i) PROVE AllFresh'
  <2>1. /\ pc[i] = "refresh" /\ pc' = [pc EXCEPT ![i] = "ok"]
        /\ UNCHANGED << content, path, existing, hash, outdated >>
    BY <1>4 DEF Refresh, Goto
  <2>2. RowRefreshed(i)
    BY <1>4, RefreshRow
  <2>3. \A d \in Rows : docs[d].path # path[i] => docs'[d] = docs[d]
    BY <1>a, <2>1, <2>2 DEF RowRefreshed, CallInv, Informed
  <2>4. ASSUME NEW j \in Indexers, j # i PROVE Fresh(j)'
    <3>1. pc'[j] = pc[j] /\ Len(docs') = Len(docs) /\ pc[i] \in Working
      BY <1>a, <2>1, <2>2, <2>4 DEF RowRefreshed
    <3> QED
      BY <1>a, <2>1, <2>3, <2>4, <3>1, FreshKept
  <2>5. Fresh(i)'
    <3>1. /\ existing[i] \in Rows /\ docs[existing[i]].path = path[i]
          /\ docs[existing[i]].latest /\ docs[existing[i]].hash = hash[i]
      BY <1>a, <2>1 DEF CallInv, Informed, OwnRowInv
    <3>2. ~outdated[i] => hash[i] = content[path[i]]
      BY <2>1 DEF CallTimeInv, OwnRowInv
    <3>3. docs'[existing[i]].path = path[i] /\ docs'[existing[i]].latest
          /\ docs'[existing[i]].hash = hash[i] /\ Rows' = Rows
      BY <2>2, <3>1 DEF RowRefreshed
    <3> QED
      BY <2>1, <3>1, <3>2, <3>3 DEF Fresh
  <2> QED
    BY <2>4, <2>5 DEF AllFresh
<1>5. ASSUME NEW i \in Indexers, Supersede(i) PROVE AllFresh'
  <2>1. /\ pc[i] = "supersede" /\ pc' = [pc EXCEPT ![i] = "load"]
        /\ UNCHANGED << content, path, existing, hash, outdated >>
    BY <1>5 DEF Supersede, Goto
  <2>2. RowSuperseded(i)
    BY <1>5, SupersedeRow
  <2>3. \A d \in Rows : docs[d].path # path[i] => docs'[d] = docs[d]
    BY <1>a, <2>1, <2>2 DEF RowSuperseded, CallInv, Informed
  <2>4. ASSUME NEW j \in Indexers, j # i PROVE Fresh(j)'
    <3>1. pc'[j] = pc[j] /\ Len(docs') = Len(docs) /\ pc[i] \in Working
      BY <1>a, <2>1, <2>2, <2>4 DEF RowSuperseded
    <3> QED
      BY <1>a, <2>1, <2>3, <2>4, <3>1, FreshKept
  <2>5. Fresh(i)'
    BY <1>a, <2>1 DEF Fresh
  <2> QED
    BY <2>4, <2>5 DEF AllFresh
<1>6. ASSUME NEW i \in Indexers, Load(i) PROVE AllFresh'
  <2>1. /\ \/ pc' = [pc EXCEPT ![i] = "ok"] /\ content[path[i]] = Binary
           \/ pc' = [pc EXCEPT ![i] = "failed"]
           \/ pc' = [pc EXCEPT ![i] = "insert"]
        /\ UNCHANGED << docs, content, path, outdated >>
    BY <1>6 DEF Load, Goto
  <2>2. ASSUME NEW j \in Indexers PROVE Fresh(j)'
    <3>1. Fresh(j)
      BY DEF AllFresh
    <3> QED
      BY <1>a, <2>1, <3>1 DEF Fresh
  <2> QED
    BY <2>2 DEF AllFresh
<1>7. ASSUME NEW i \in Indexers, InsertDocument(i) PROVE AllFresh'
  <2>1. CASE HashTaken(i)
    <3>1. /\ pc' = [pc EXCEPT ![i] = "conflict"]
          /\ UNCHANGED << docs, content, path, outdated >>
      BY <1>7, <2>1 DEF InsertDocument, Goto
    <3> QED
      BY <1>a, <3>1 DEF AllFresh, Fresh
  <2>2. CASE ~HashTaken(i)
    <3>1. /\ pc[i] = "insert" /\ pc' = [pc EXCEPT ![i] = "chunks"]
          /\ UNCHANGED << content, path, outdated >>
      BY <1>7, <2>2 DEF InsertDocument, Goto
    <3>2. RowInserted(i)
      BY <1>7, <2>2, InsertRow
    <3>3. ASSUME NEW j \in Indexers, j # i PROVE Fresh(j)'
      BY <1>a, <3>1, <3>2, <3>3, FreshKept DEF RowInserted
    <3>4. Fresh(i)'
      BY <1>a, <3>1 DEF Fresh
    <3> QED
      BY <3>3, <3>4 DEF AllFresh
  <2> QED
    BY <2>1, <2>2
<1>8. ASSUME NEW i \in Indexers, InsertChunks(i) PROVE AllFresh'
  <2>1. /\ pc[i] = "chunks" /\ pc' = [pc EXCEPT ![i] = "embed"]
        /\ UNCHANGED << content, path, existing, hash, outdated >>
    BY <1>8 DEF InsertChunks, Goto
  <2>2. RowChunked(i)
    BY <1>8, ChunksRow
  <2>3. \A d \in Rows : docs[d].path # path[i] => docs'[d] = docs[d]
    BY <1>a, <2>1, <2>2 DEF RowChunked, CallInv, Informed
  <2>4. ASSUME NEW j \in Indexers, j # i PROVE Fresh(j)'
    <3>1. pc'[j] = pc[j] /\ Len(docs') = Len(docs) /\ pc[i] \in Working
      BY <1>a, <2>1, <2>2, <2>4 DEF RowChunked
    <3> QED
      BY <1>a, <2>1, <2>3, <2>4, <3>1, FreshKept
  <2>5. Fresh(i)'
    BY <1>a, <2>1 DEF Fresh
  <2> QED
    BY <2>4, <2>5 DEF AllFresh
<1>9. ASSUME NEW i \in Indexers, Embed(i) PROVE AllFresh'
  <2>1. /\ pc[i] = "embed" /\ pc' = [pc EXCEPT ![i] = "ok"]
        /\ UNCHANGED << content, path, existing, hash, outdated >>
    BY <1>9 DEF Embed, Goto
  <2>2. RowEmbedded(i)
    BY <1>9, EmbedRow
  <2>3. \A d \in Rows : docs[d].path # path[i] => docs'[d] = docs[d]
    BY <1>a, <2>1, <2>2 DEF RowEmbedded, CallInv, Informed
  <2>4. ASSUME NEW j \in Indexers, j # i PROVE Fresh(j)'
    <3>1. pc'[j] = pc[j] /\ Len(docs') = Len(docs) /\ pc[i] \in Working
      BY <1>a, <2>1, <2>2, <2>4 DEF RowEmbedded
    <3> QED
      BY <1>a, <2>1, <2>3, <2>4, <3>1, FreshKept
  <2>5. Fresh(i)'
    <3>1. /\ existing[i] \in Rows /\ docs[existing[i]].path = path[i]
          /\ docs[existing[i]].latest /\ docs[existing[i]].hash = hash[i]
      BY <1>a, <2>1 DEF CallInv, Informed, OwnRowInv
    <3>2. ~outdated[i] => hash[i] = content[path[i]]
      BY <2>1 DEF CallTimeInv, OwnRowInv
    <3>3. docs'[existing[i]].path = path[i] /\ docs'[existing[i]].latest
          /\ docs'[existing[i]].hash = hash[i] /\ Rows' = Rows
      BY <2>2, <3>1 DEF RowEmbedded
    <3> QED
      BY <2>1, <3>1, <3>2, <3>3 DEF Fresh
  <2> QED
    BY <2>4, <2>5 DEF AllFresh
<1>10. ASSUME NEW i \in Indexers, Abort(i) PROVE AllFresh'
  <2>1. /\ \A j \in Indexers : pc'[j] = "ok" => pc[j] = "ok"
        /\ UNCHANGED << docs, content, path, outdated >>
    BY <1>10 DEF TypeOK, Abort, Goto, worldVars, callVars
  <2> QED
    BY <2>1 DEF AllFresh, Fresh
<1>11. ASSUME NEW p \in Paths, EditFile(p) PROVE AllFresh'
  <2>1. /\ \E c \in Contents : content' = [content EXCEPT ![p] = c]
        /\ UNCHANGED << docs, pc, path >>
    BY <1>11 DEF EditFile
  <2>2. \A j \in Indexers : outdated'[j] = (outdated[j] \/ path[j] = p)
    BY <1>11 DEF EditFile
  <2>3. ASSUME NEW j \in Indexers PROVE Fresh(j)'
    <3>1. CASE path[j] = p
      BY <2>2, <3>1 DEF Fresh
    <3>2. CASE path[j] # p
      <4>1. content'[path[j]] = content[path[j]]
        BY <2>1, <1>a, <3>2 DEF TypeOK
      <4>2. outdated'[j] <=> outdated[j]
        BY <2>2, <3>2
      <4> QED
        BY <2>1, <4>1, <4>2 DEF AllFresh, Fresh
    <3> QED
      BY <3>1, <3>2
  <2> QED
    BY <2>3 DEF AllFresh
<1>12. CASE UNCHANGED vars
  BY <1>12 DEF TypeOK, RowTimeInv, CallTimeInv, AllFresh, Fresh, vars
<1>13. CASE Reconfigure
  BY <1>13 DEF TypeOK, RowTimeInv, CallTimeInv, AllFresh, Fresh, Reconfigure
<1> QED
  BY <1>1, <1>2, <1>3, <1>4, <1>5, <1>6, <1>7, <1>8, <1>9, <1>10, <1>11, <1>12,
     <1>13 DEF Next, IndexStep

(* Where every edit moves the second in a file's mtime on, a call that has *)
(* returned nil on a text file which nobody touched since leaves its       *)
(* content as the latest version.                                          *)
THEOREM FreshAfterOkHolds == SameSecond = FALSE => (Spec => []FreshAfterOk)
<1> SUFFICES ASSUME SameSecond = FALSE PROVE Spec => []FreshAfterOk
  OBVIOUS
<1>1. Init => FreshInv
  BY InitFreshInv
<1>2. IInv /\ IInv' /\ FreshInv /\ [Next]_vars => FreshInv'
  BY OutdatedStep, OwnRowStep, CallTimeStep, RowTimeStep, FreshStep DEF IInv, FreshInv
<1>3. IInv /\ FreshInv => FreshAfterOk
  BY DEF FreshInv, AllFresh, Fresh, FreshAfterOk, LatestOf, Rows
<1> QED
  BY <1>1, <1>2, <1>3, InductiveInvariant, PTL DEF Spec

=============================================================================
