---------------------------- MODULE VectorIndexes ----------------------------
(***************************************************************************)
(* internal/api/vector_indexes.go, with the two reads of                   *)
(* vectorindex.BuildFromStore and the upload jobs of handlers.go that      *)
(* change the store and then call Invalidate.  One project: slugs share    *)
(* nothing but the two mutexes.                                            *)
(*                                                                         *)
(* An index is the version of the store's embeddings it was built from;    *)
(* a file an upload job indexes makes a new version.  A search is one      *)
(* call of ForProject.  It looks in the cache, enters singleflight, which  *)
(* makes it the leader of a new build or a follower of the one in flight;  *)
(* the leader looks again, builds, stores the index and hands it to its    *)
(* followers.  v.mu and singleflight's own mutex are held within one step. *)
(***************************************************************************)
EXTENDS Integers, FiniteSets

CONSTANTS
    Searches,   \* the calls of ForProject
    Uploads,    \* the upload jobs
    MaxFiles,   \* bound: the files of one upload job
    None        \* no search, and no index (a nil vectorindex.Index)

ASSUME NoneAssumption == None \notin Searches /\ None \notin Nat
ASSUME MaxFilesAssumption == MaxFiles \in Nat \ {0}

VARIABLES
    version,    \* the store: how many files' embeddings were ever written
    cached,     \* v.indexes[slug]: None or the version the index reflects
    flight,     \* v.sf: the leader registered for slug, or None
    search,     \* progress of each search
    leader,     \* the search whose build this search waits for or runs
    result,     \* what ForProject returned, or the leader has built
    upload,     \* progress of each upload job
    files,      \* files each upload job has indexed
    epoch,      \* history: how many times Invalidate has run
    entered,    \* history: epoch at which each search called ForProject
    led,        \* history: epoch at which each leader entered singleflight
    floor,      \* history: version at the last Invalidate before the search
    invalidated,\* history: version at the last Invalidate, or at start
    straddled   \* history: the cached index was read before the last Invalidate

cacheVars == <<cached, flight>>
searchVars == <<search, leader, result>>
uploadVars == <<upload, files>>
callHistory == <<entered, led, floor>>
historyVars == <<epoch, callHistory, invalidated, straddled>>
vars == <<version, cacheVars, searchVars, uploadVars, historyVars>>

Building == {"recheck", "models", "chunks", "store"}
Index == Nat \cup {None}

TypeOK ==
    /\ version \in Nat
    /\ cached \in Index
    /\ flight \in Searches \cup {None}
    /\ search \in [Searches ->
                     {"idle", "miss", "follow", "finish", "done"} \cup Building]
    /\ leader \in [Searches -> Searches \cup {None}]
    /\ result \in [Searches -> Index]
    /\ upload \in [Uploads -> {"idle", "indexing", "done", "failed"}]
    /\ files \in [Uploads -> 0 .. MaxFiles]
    /\ epoch \in Nat
    /\ entered \in [Searches -> Nat]
    /\ led \in [Searches -> Nat]
    /\ floor \in [Searches -> Nat]
    /\ invalidated \in Nat
    /\ straddled \in BOOLEAN

(* serve builds the indexes of the registered projects before it listens;  *)
(* a project whose build failed, or that is new, starts without one.       *)
Init ==
    /\ version \in {0, 1}
    /\ cached \in {version, None}
    /\ flight = None
    /\ search = [s \in Searches |-> "idle"]
    /\ leader = [s \in Searches |-> None]
    /\ result = [s \in Searches |-> None]
    /\ upload = [u \in Uploads |-> "idle"]
    /\ files = [u \in Uploads |-> 0]
    /\ epoch = 0
    /\ entered = [s \in Searches |-> 0]
    /\ led = [s \in Searches |-> 0]
    /\ floor = [s \in Searches |-> 0]
    /\ invalidated = version
    /\ straddled = FALSE

-----------------------------------------------------------------------------
(* ForProject *)

(* The first look at the cache. *)
Lookup(s) ==
    /\ search[s] = "idle"
    /\ search' = [search EXCEPT ![s] = IF cached # None THEN "done" ELSE "miss"]
    /\ result' = [result EXCEPT ![s] = cached]
    /\ entered' = [entered EXCEPT ![s] = epoch]
    /\ floor' = [floor EXCEPT ![s] = invalidated]
    /\ UNCHANGED <<version, cacheVars, leader, uploadVars, epoch, led,
                   invalidated, straddled>>

(* Mutant: every miss builds for itself, as before singleflight. *)
EnterFlight_NoDedup(s) ==
    /\ search[s] = "miss"
    /\ flight' = s
    /\ leader' = [leader EXCEPT ![s] = s]
    /\ search' = [search EXCEPT ![s] = "recheck"]
    /\ led' = [led EXCEPT ![s] = epoch]
    /\ UNCHANGED <<version, cached, result, uploadVars, epoch, entered, floor,
                   invalidated, straddled>>

(* sf.Do: follow the call registered for the slug, or register and lead.   *)
EnterFlight(s) ==
    /\ search[s] = "miss"
    /\ \/ /\ flight # None
          /\ leader' = [leader EXCEPT ![s] = flight]
          /\ search' = [search EXCEPT ![s] = "follow"]
          /\ UNCHANGED <<flight, led>>
       \/ /\ flight = None
          /\ flight' = s
          /\ leader' = [leader EXCEPT ![s] = s]
          /\ search' = [search EXCEPT ![s] = "recheck"]
          /\ led' = [led EXCEPT ![s] = epoch]
    /\ UNCHANGED <<version, cached, result, uploadVars, epoch, entered, floor,
                   invalidated, straddled>>

(* The leader looks again before it builds. *)
Recheck(s) ==
    /\ search[s] = "recheck"
    /\ result' = [result EXCEPT ![s] = cached]
    /\ search' = [search EXCEPT ![s] = IF cached # None THEN "finish" ELSE "models"]
    /\ UNCHANGED <<version, cacheVars, leader, uploadVars, historyVars>>

(* BuildFromStore, first read: a store without embeddings has no model and *)
(* gives an empty index at once.                                           *)
ReadModels(s) ==
    /\ search[s] = "models"
    /\ result' = [result EXCEPT ![s] = IF version = 0 THEN 0 ELSE None]
    /\ search' = [search EXCEPT ![s] = IF version = 0 THEN "store" ELSE "chunks"]
    /\ UNCHANGED <<version, cacheVars, leader, uploadVars, historyVars>>

(* Second read: all embeddings of the model, in one statement. *)
ReadChunks(s) ==
    /\ search[s] = "chunks"
    /\ result' = [result EXCEPT ![s] = version]
    /\ search' = [search EXCEPT ![s] = "store"]
    /\ UNCHANGED <<version, cacheVars, leader, uploadVars, historyVars>>

(* A read fails or the build's sixty seconds are over: nothing is cached.  *)
BuildFails(s) ==
    /\ search[s] \in {"models", "chunks"}
    /\ result' = [result EXCEPT ![s] = None]
    /\ search' = [search EXCEPT ![s] = "finish"]
    /\ UNCHANGED <<version, cacheVars, leader, uploadVars, historyVars>>

(* v.indexes[slug] = idx, whatever has happened since the reads. *)
StoreIndex(s) ==
    /\ search[s] = "store"
    /\ cached' = result[s]
    /\ search' = [search EXCEPT ![s] = "finish"]
    /\ straddled' = (result[s] < invalidated)
    /\ UNCHANGED <<version, flight, leader, result, uploadVars, epoch,
                   callHistory, invalidated>>

(* Mutant: only the call still registered wakes its followers. *)
Finish_RegisteredOnly(s) ==
    /\ search[s] = "finish"
    /\ flight' = IF flight = s THEN None ELSE flight
    /\ LET woken == {t \in Searches :
                       flight = s /\ search[t] = "follow" /\ leader[t] = s} \cup {s}
       IN  /\ search' = [t \in Searches |-> IF t \in woken THEN "done" ELSE search[t]]
           /\ result' = [t \in Searches |-> IF t \in woken THEN result[s] ELSE result[t]]
    /\ UNCHANGED <<version, cached, leader, uploadVars, historyVars>>

(* sf.Do returns: the followers get the leader's result, and the call is   *)
(* taken out of the table unless Forget, or a later call, did so before.   *)
Finish(s) ==
    /\ search[s] = "finish"
    /\ flight' = IF flight = s THEN None ELSE flight
    /\ LET woken == {t \in Searches : search[t] = "follow" /\ leader[t] = s} \cup {s}
       IN  /\ search' = [t \in Searches |-> IF t \in woken THEN "done" ELSE search[t]]
           /\ result' = [t \in Searches |-> IF t \in woken THEN result[s] ELSE result[t]]
    /\ UNCHANGED <<version, cached, leader, uploadVars, historyVars>>

-----------------------------------------------------------------------------
(* Upload jobs *)

(* IndexPath of one file commits its embeddings, or finds it unchanged.    *)
IndexFile(u) ==
    /\ upload[u] \in {"idle", "indexing"}
    /\ files[u] < MaxFiles
    /\ upload' = [upload EXCEPT ![u] = "indexing"]
    /\ files' = [files EXCEPT ![u] = @ + 1]
    /\ version' \in {version, version + 1}
    /\ UNCHANGED <<cacheVars, searchVars, historyVars>>

(* A file fails, or shutdown cancels the job: it ends with no Invalidate.  *)
UploadFails(u) ==
    /\ upload[u] \in {"idle", "indexing"}
    /\ upload' = [upload EXCEPT ![u] = "failed"]
    /\ UNCHANGED <<version, cacheVars, searchVars, files, historyVars>>

(* Mutant: the entry is evicted, the call in flight is not forgotten. *)
Invalidate_NoForget ==
    /\ cached' = None
    /\ flight' = flight

(* Mutant: the call in flight is forgotten, the entry stays. *)
Invalidate_NoEvict ==
    /\ cached' = cached
    /\ flight' = None

(* Evict the entry and forget the call in flight, under v.mu. *)
Invalidate ==
    /\ cached' = None
    /\ flight' = None

(* The last step of a job that indexed all its files. *)
UploadInvalidates(u) ==
    /\ upload[u] = "indexing"
    /\ upload' = [upload EXCEPT ![u] = "done"]
    /\ Invalidate
    /\ epoch' = epoch + 1
    /\ invalidated' = version
    /\ straddled' = FALSE
    /\ UNCHANGED <<version, searchVars, files, callHistory>>

-----------------------------------------------------------------------------
SearchStep(s) ==
    \/ EnterFlight(s) \/ Recheck(s) \/ ReadModels(s) \/ ReadChunks(s)
    \/ BuildFails(s) \/ StoreIndex(s) \/ Finish(s)

Next ==
    \/ \E s \in Searches : Lookup(s) \/ SearchStep(s)
    \/ \E u \in Uploads : IndexFile(u) \/ UploadFails(u) \/ UploadInvalidates(u)

Spec == Init /\ [][Next]_vars

(* A search that was called goes on: the build has a deadline of its own,  *)
(* and a follower is woken by its leader.  Searches and uploads need not   *)
(* come, and an upload job may hang.                                       *)
FairSpec == Spec /\ \A s \in Searches : WF_vars(SearchStep(s))

-----------------------------------------------------------------------------
(* Properties *)

IsBuilding(s) == leader[s] = s /\ search[s] \in Building \cup {"finish"}

(* Concurrent first searches cause one build: two leaders are at work at   *)
(* the same time only when an Invalidate came between them.                *)
OneBuildPerEpoch ==
    \A s, t \in Searches :
        s # t /\ IsBuilding(s) /\ IsBuilding(t) => led[s] # led[t]

(* A search that came after an Invalidate never shares a build begun       *)
(* before it: that is what Forget is for.                                  *)
JoinsOnlyCurrentBuild ==
    \A s \in Searches : search[s] = "follow" => led[leader[s]] >= entered[s]

(* A search waits only for a build that is going on: a follower is never   *)
(* left with a leader that has returned.                                   *)
NoOrphanedFollower ==
    \A s \in Searches :
        search[s] = "follow" => leader[s] # None /\ IsBuilding(leader[s])

(* The cache is exact once the uploads are over, but for the two ways it   *)
(* can miss a change: a build that straddled an Invalidate and an upload   *)
(* job that ended without one.                                             *)
FreshUnlessStraddled ==
    (/\ cached # None
     /\ ~straddled
     /\ \A u \in Uploads : upload[u] \in {"idle", "done"})
        => cached = version

(* The inductive invariant behind these, in named parts. *)

(* A search that builds leads its own call; the registered call is being   *)
(* built and was begun after the last Invalidate, any other one before.    *)
FlightInv ==
    /\ \A s \in Searches : search[s] \in Building \cup {"finish"} => leader[s] = s
    /\ flight # None => IsBuilding(flight)
    /\ \A s \in Searches : entered[s] =< epoch
    /\ \A s \in Searches : IsBuilding(s) =>
          IF s = flight THEN led[s] = epoch ELSE led[s] < epoch

(* No index is ahead of the store, a cached one is as new as the last      *)
(* Invalidate or marked, and the uploads account for every later change.   *)
VersionInv ==
    /\ invalidated =< version
    /\ cached # None => cached =< version
    /\ \A s \in Searches : result[s] # None => result[s] =< version
    /\ \A s \in Searches : search[s] = "store" => result[s] # None
    /\ cached # None /\ ~straddled => cached >= invalidated
    /\ (\A u \in Uploads : upload[u] \in {"idle", "done"}) => invalidated = version

IInv ==
    /\ TypeOK
    /\ FlightInv
    /\ OneBuildPerEpoch
    /\ JoinsOnlyCurrentBuild
    /\ NoOrphanedFollower
    /\ VersionInv

(* Every search returns: followers of a forgotten call as well. *)
SearchReturns == \A s \in Searches : search[s] = "miss" ~> search[s] = "done"

(* What the comment of Invalidate says: it "evicts slug from the cache so  *)
(* the next ForProject call rebuilds from the latest store state"          *)
(* (vector_indexes.go:111-112).  A search begun after an Invalidate gets   *)
(* no index older than the store was at that Invalidate.                   *)
InvalidateForcesRebuild ==
    \A s \in Searches :
        search[s] = "done" /\ result[s] # None => result[s] >= floor[s]
=============================================================================
