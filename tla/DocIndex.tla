------------------------------- MODULE DocIndex -------------------------------
(***************************************************************************)
(* indexFile of internal/pipeline/pipeline.go and the documents table it   *)
(* writes (internal/store/store.go): the versions of the files under some  *)
(* paths, indexed by concurrent calls while the files are edited.          *)
(*                                                                         *)
(* indexFile has no transaction: each look at the file and each statement  *)
(* on the store is a step of its own, and between any two of them the      *)
(* file may change, another file may be indexed, or the call may end (an   *)
(* error, a cancelled context, a killed process).  IndexPath never runs    *)
(* two calls on the same path; only a second process could.                *)
(*                                                                         *)
(* The hash of a content stands for the content: sha256 is taken to be     *)
(* injective.  The row with position n in docs has the document ID n; a    *)
(* UUID that versionInfo draws for a first version is negative, so that it *)
(* is the ID of no document.                                               *)
(***************************************************************************)
EXTENDS Integers, Sequences, FiniteSets

CONSTANTS
    Indexers,   \* the workers that call indexFile
    Paths,      \* the paths they index
    Texts,      \* file contents that load and give chunks
    Binary,     \* a content loader.Load skips as binary
    Blank,      \* a content without text: an error of the loader or chunker
    None,       \* no content
    SameSecond, \* whether an edit may leave the file's mtime second as it is
    MaxRuns,    \* bound: the calls of indexFile
    MaxEdits    \* bound: the edits of files and of the configuration

ASSUME ContentsAssumption ==
    /\ Binary \notin Texts /\ Blank \notin Texts /\ Binary # Blank
    /\ None \notin Texts \cup {Binary, Blank}
ASSUME PathsAssumption == Paths # {}
ASSUME SameSecondAssumption == SameSecond \in BOOLEAN
ASSUME BoundsAssumption == MaxRuns \in Nat /\ MaxEdits \in Nat

Contents == Texts \cup {Binary, Blank}

VARIABLES
    content,    \* what each file holds
    mtime,      \* its modification time in seconds, from 1
    docs,       \* the table documents, with chunks and embeddings of each row
    pc,         \* what each worker does next, or how its last call ended
    path,       \* the file it works on
    force,      \* opts.Force of the call
    statted,    \* the mtime the call saw
    existing,   \* the document ID GetDocumentByPath gave it; 0 for nil
    hash,       \* the content it hashed
    loaded,     \* the content it loaded
    runs, edits,\* calls and edits so far
    provider,   \* the configured provider is not "none": there is an embedder
    outdated,   \* history: since the call the file was edited or called for again
    flaws       \* history: what befell which document, as <<ID, flaw>>

worldVars == <<content, mtime, edits, provider>>
callVars == <<path, force, statted>>
vars == <<worldVars, docs, pc, callVars, existing, hash, loaded, runs, outdated, flaws>>

Working == {"lookup", "read", "refresh", "supersede", "load", "insert",
            "chunks", "embed"}
Ended == {"idle", "ok", "failed", "conflict"}

(* A call that wrote the row failed before its end ("cut"), the file was   *)
(* edited during it ("torn"), or there was no provider ("bare").           *)
Flaws == {"cut", "torn", "bare"}

Document == [path : Paths, hash : Contents, version : Nat \ {0}, canonical : Int,
             latest : BOOLEAN, mtime : Nat, chunks : Contents \cup {None},
             embedded : BOOLEAN]

TypeOK ==
    /\ content \in [Paths -> Contents]
    /\ mtime \in [Paths -> Nat \ {0}]
    /\ docs \in Seq(Document)
    /\ pc \in [Indexers -> Working \cup Ended]
    /\ path \in [Indexers -> Paths]
    /\ force \in [Indexers -> BOOLEAN]
    /\ statted \in [Indexers -> Nat]
    /\ existing \in [Indexers -> 0 .. Len(docs)]
    /\ hash \in [Indexers -> Contents \cup {None}]
    /\ loaded \in [Indexers -> Contents \cup {None}]
    /\ runs \in 0 .. MaxRuns
    /\ edits \in 0 .. MaxEdits
    /\ outdated \in [Indexers -> BOOLEAN]
    /\ provider \in BOOLEAN
    /\ flaws \subseteq (1 .. Len(docs)) \X Flaws

(* An empty store, any text in the files, and either kind of provider. *)
Init ==
    /\ content \in [Paths -> Texts]
    /\ mtime = [p \in Paths |-> 1]
    /\ docs = << >>
    /\ pc = [i \in Indexers |-> "idle"]
    /\ path \in [Indexers -> {CHOOSE p \in Paths : TRUE}]
    /\ force = [i \in Indexers |-> FALSE]
    /\ statted = [i \in Indexers |-> 0]
    /\ existing = [i \in Indexers |-> 0]
    /\ hash = [i \in Indexers |-> None]
    /\ loaded = [i \in Indexers |-> None]
    /\ runs = 0
    /\ edits = 0
    /\ outdated = [i \in Indexers |-> TRUE]
    /\ provider \in BOOLEAN
    /\ flaws = {}

Goto(i, step) == pc' = [pc EXCEPT ![i] = step]

-----------------------------------------------------------------------------
(* indexFile *)

(* The call begins with os.Stat. *)
Stat(i, p, f) ==
    /\ runs < MaxRuns
    /\ pc[i] \in Ended
    /\ \A k \in Indexers : pc[k] \in Working => path[k] # p
    /\ Goto(i, "lookup")
    /\ path' = [path EXCEPT ![i] = p]
    /\ force' = [force EXCEPT ![i] = f]
    /\ statted' = [statted EXCEPT ![i] = mtime[p]]
    /\ existing' = [existing EXCEPT ![i] = 0]
    /\ hash' = [hash EXCEPT ![i] = None]
    /\ loaded' = [loaded EXCEPT ![i] = None]
    /\ runs' = runs + 1
    /\ outdated' = [k \in Indexers |->
                      IF k = i THEN FALSE ELSE outdated[k] \/ path[k] = p]
    /\ UNCHANGED <<worldVars, docs, flaws>>

(* GetDocumentByPath: the rows it can return; at most one, as it turns out. *)
LatestOf(p) == {d \in 1 .. Len(docs) : docs[d].path = p /\ docs[d].latest}

(* The row's mtime says that the file has not changed. *)
MtimeHit(i, d) == d # 0 /\ docs[d].mtime = statted[i]

Lookup(i) ==
    /\ pc[i] = "lookup"
    /\ \E d \in IF LatestOf(path[i]) = {} THEN {0} ELSE LatestOf(path[i]) :
          /\ existing' = [existing EXCEPT ![i] = d]
          /\ Goto(i, IF ~force[i] /\ MtimeHit(i, d) THEN "ok" ELSE "read")
    /\ UNCHANGED <<worldVars, docs, callVars, hash, loaded, runs, outdated, flaws>>

(* Mutant: the hash is compared whether or not the row is still the latest *)
(* of this path.                                                           *)
HashHit_AnyPath(i) ==
    \E d \in 1 .. Len(docs) : docs[d].hash = content[path[i]]

(* The row's hash says that the content has not changed. *)
HashHit(i) == existing[i] # 0 /\ docs[existing[i]].hash = content[path[i]]

(* os.ReadFile and the hash. *)
ReadFile(i) ==
    /\ pc[i] = "read"
    /\ hash' = [hash EXCEPT ![i] = content[path[i]]]
    /\ Goto(i, IF ~force[i] /\ HashHit(i) THEN "refresh"
               ELSE IF existing[i] # 0 THEN "supersede" ELSE "load")
    /\ UNCHANGED <<worldVars, docs, callVars, existing, loaded, runs, outdated, flaws>>

(* Same content: the row gets the new mtime, or the write fails with no    *)
(* more than a warning; either way the call has succeeded.                 *)
Refresh(i) ==
    /\ pc[i] = "refresh"
    /\ Goto(i, "ok")
    /\ \/ docs' = [docs EXCEPT ![existing[i]].mtime = statted[i]]
       \/ UNCHANGED docs
    /\ UNCHANGED <<worldVars, callVars, existing, hash, loaded, runs, outdated, flaws>>

(* Mutant: the old version stays the latest. *)
Supersede_Skipped(i) ==
    /\ pc[i] = "supersede"
    /\ Goto(i, "load")
    /\ UNCHANGED <<worldVars, docs, callVars, existing, hash, loaded, runs,
                   outdated, flaws>>

(* SupersedeDocument, in a statement of its own. *)
Supersede(i) ==
    /\ pc[i] = "supersede"
    /\ Goto(i, "load")
    /\ docs' = [docs EXCEPT ![existing[i]].latest = FALSE]
    /\ UNCHANGED <<worldVars, callVars, existing, hash, loaded, runs, outdated, flaws>>

(* loader.Load reads the file once more: a binary file is skipped without  *)
(* an error, a file without text is an error.                              *)
Load(i) ==
    /\ pc[i] = "load"
    /\ loaded' = [loaded EXCEPT ![i] = content[path[i]]]
    /\ Goto(i, CASE content[path[i]] = Binary -> "ok"
                 [] content[path[i]] = Blank -> "failed"
                 [] OTHER -> "insert")
    /\ UNCHANGED <<worldVars, docs, callVars, existing, hash, runs, outdated, flaws>>

(* Mutant: the version restarts at one instead of following the old one. *)
NextVersion_Restarts(i) == 1

(* versionInfo. *)
NextVersion(i) == IF existing[i] = 0 THEN 1 ELSE docs[existing[i]].version + 1

CanonicalID(i) ==
    IF existing[i] = 0 THEN -(Len(docs) + 1) ELSE docs[existing[i]].canonical

NewDocument(i) ==
    [path |-> path[i], hash |-> hash[i], version |-> NextVersion(i),
     canonical |-> CanonicalID(i), latest |-> TRUE, mtime |-> statted[i],
     chunks |-> None, embedded |-> FALSE]

(* UpsertDocument of a fresh ID; file_hash is UNIQUE in the whole table. *)
HashTaken(i) == \E d \in 1 .. Len(docs) : docs[d].hash = hash[i]

InsertDocument(i) ==
    /\ pc[i] = "insert"
    /\ IF HashTaken(i)
       THEN Goto(i, "conflict") /\ UNCHANGED <<docs, existing>>
       ELSE /\ docs' = Append(docs, NewDocument(i))
            /\ existing' = [existing EXCEPT ![i] = Len(docs) + 1]
            /\ Goto(i, "chunks")
    /\ UNCHANGED <<worldVars, callVars, hash, loaded, runs, outdated, flaws>>

(* BatchInsertChunks, in a transaction, of what was loaded.  If the file   *)
(* changed during the call, that need not be the text that was hashed.     *)
InsertChunks(i) ==
    /\ pc[i] = "chunks"
    /\ Goto(i, "embed")
    /\ docs' = [docs EXCEPT ![existing[i]].chunks = loaded[i]]
    /\ flaws' = IF outdated[i] THEN flaws \cup {<<existing[i], "torn">>} ELSE flaws
    /\ UNCHANGED <<worldVars, callVars, existing, hash, loaded, runs, outdated>>

(* Mutant: a failure of the provider is only logged. *)
Embed_WarnOnly(i) ==
    /\ pc[i] = "embed"
    /\ Goto(i, "ok")
    /\ IF provider
       THEN /\ \/ docs' = [docs EXCEPT ![existing[i]].embedded = TRUE]
               \/ docs' = docs
            /\ flaws' = flaws
       ELSE /\ docs' = docs
            /\ flaws' = flaws \cup {<<existing[i], "bare">>}
    /\ UNCHANGED <<worldVars, callVars, existing, hash, loaded, runs, outdated>>

(* EmbedTexts and BatchUpsertEmbeddings in a transaction, or neither when  *)
(* there is no embedder; then the extractions of phase 2, whose errors are *)
(* only logged.                                                            *)
Embed(i) ==
    /\ pc[i] = "embed"
    /\ Goto(i, "ok")
    /\ IF provider
       THEN /\ docs' = [docs EXCEPT ![existing[i]].embedded = TRUE]
            /\ flaws' = flaws
       ELSE /\ docs' = docs
            /\ flaws' = flaws \cup {<<existing[i], "bare">>}
    /\ UNCHANGED <<worldVars, callVars, existing, hash, loaded, runs, outdated>>

(* The document a call that ends now leaves incomplete. *)
CutShort(i) == IF pc[i] \in {"chunks", "embed"} THEN {<<existing[i], "cut">>} ELSE {}

(* An error of a statement or of the provider, a cancelled context or the  *)
(* end of the process: what was written stays.                             *)
Abort(i) ==
    /\ pc[i] \in Working
    /\ Goto(i, "failed")
    /\ flaws' = flaws \cup CutShort(i)
    /\ UNCHANGED <<worldVars, docs, callVars, existing, hash, loaded, runs, outdated>>

-----------------------------------------------------------------------------
(* Somebody writes the file: the second in its mtime moves on, or not. *)
EditFile(p) ==
    /\ edits < MaxEdits
    /\ \E c \in Contents : content' = [content EXCEPT ![p] = c]
    /\ \E t \in {mtime[p] + 1} \cup (IF SameSecond THEN {mtime[p]} ELSE {}) :
          mtime' = [mtime EXCEPT ![p] = t]
    /\ edits' = edits + 1
    /\ outdated' = [k \in Indexers |-> outdated[k] \/ path[k] = p]
    /\ UNCHANGED <<provider, docs, pc, callVars, existing, hash, loaded, runs, flaws>>

(* A new process with another configuration: a pipeline keeps its provider *)
(* and its embedder as long as it lives.                                   *)
Reconfigure ==
    /\ \A i \in Indexers : pc[i] \in Ended
    /\ edits < MaxEdits
    /\ provider' = ~provider
    /\ edits' = edits + 1
    /\ UNCHANGED <<content, mtime, docs, pc, callVars, existing, hash, loaded,
                   runs, outdated, flaws>>

IndexStep(i) ==
    \/ Lookup(i) \/ ReadFile(i) \/ Refresh(i) \/ Supersede(i) \/ Load(i)
    \/ InsertDocument(i) \/ InsertChunks(i) \/ Embed(i)

Next ==
    \/ \E i \in Indexers, p \in Paths, f \in BOOLEAN : Stat(i, p, f)
    \/ \E i \in Indexers : IndexStep(i) \/ Abort(i)
    \/ \E p \in Paths : EditFile(p)
    \/ Reconfigure

Spec == Init /\ [][Next]_vars

-----------------------------------------------------------------------------
(* Properties *)

WorkingOn(d) ==
    {i \in Indexers : pc[i] \in {"chunks", "embed"} /\ existing[i] = d}

(* No path has two latest versions, whatever fails in between.             *)
OneLatest == \A p \in Paths : Cardinality(LatestOf(p)) =< 1

(* Rows with one canonical ID are the versions of one path: their numbers  *)
(* are 1, 2, ... in the order they were written, and only the last of them *)
(* can be the latest.                                                      *)
HistoryWellFormed ==
    \A d, e \in 1 .. Len(docs) :
        (d < e /\ docs[d].canonical = docs[e].canonical) =>
            /\ docs[d].path = docs[e].path
            /\ docs[d].version < docs[e].version
            /\ ~docs[d].latest

(* A version number above one has its predecessor in the same history.     *)
NoVersionGap ==
    \A d \in 1 .. Len(docs) : docs[d].version > 1 =>
        \E e \in 1 .. d - 1 :
            /\ docs[e].canonical = docs[d].canonical
            /\ docs[e].version = docs[d].version - 1

(* A document nobody works on has the chunks of the text that was hashed,  *)
(* and vectors for them, whatever failed, changed or was reconfigured on   *)
(* the way, with three exceptions, each of which needs its own cause: the  *)
(* call that wrote it reported an error, the file was edited during that   *)
(* call, or that call had no provider.                                     *)
WholeUnlessFlawed ==
    \A d \in 1 .. Len(docs) :
        \/ WorkingOn(d) # {}
        \/ <<d, "cut">> \in flaws
        \/ /\ docs[d].chunks # None
           /\ docs[d].chunks = docs[d].hash \/ <<d, "torn">> \in flaws
           /\ docs[d].embedded \/ <<d, "bare">> \in flaws

(* When a call on a text file has returned nil, and neither an edit nor    *)
(* another call came since it began, the latest version of the path is the *)
(* file's content: both short cuts, the mtime's and the hash's, are sound  *)
(* although the mtime, the hash and the text are read at different times.  *)
FreshAfterOk ==
    \A i \in Indexers :
        pc[i] = "ok" /\ ~outdated[i] /\ content[path[i]] \in Texts =>
            \E d \in LatestOf(path[i]) : docs[d].hash = content[path[i]]
=============================================================================
