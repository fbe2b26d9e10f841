---------------------------- MODULE RetrievalProofs ----------------------------
(***************************************************************************)
(* What holds of the parts that retrieval is built from: the vector index  *)
(* cache for any searches and uploads, the embedder for any number of      *)
(* texts, batch size, concurrency and channel capacity, the search through *)
(* any documents, entities and communities, and Louvain on any graph.      *)
(***************************************************************************)
EXTENDS VectorIndexes, Retrieval, Sequences, FiniteSets, TLAPS, FiniteSetTheorems,
        SequenceTheorems, WellFoundedInduction

-----------------------------------------------------------------------------
(* The vector index cache.                                                   *)

(* The cache is well typed after boot.                                     *)
LEMMA InitTypeOK == Init => TypeOK
<1> SUFFICES ASSUME Init PROVE TypeOK
  OBVIOUS
<1> USE NoneAssumption, MaxFilesAssumption DEF Init
<1>1. version \in Nat /\ cached \in Index /\ epoch \in Nat /\ invalidated \in Nat
  BY DEF Index
<1>2. /\ result \in [Searches -> Index]
      /\ files \in [Uploads -> 0 .. MaxFiles]
  BY DEF Index
<1>3. straddled \in BOOLEAN
  OBVIOUS
<1> QED
  BY <1>1, <1>2, <1>3 DEF TypeOK

(* Every step keeps the types.                                             *)
LEMMA NextTypeOK == TypeOK /\ [Next]_vars => TypeOK'
<1> SUFFICES ASSUME TypeOK, [Next]_vars PROVE TypeOK'
  OBVIOUS
<1> USE MaxFilesAssumption
        DEF TypeOK, Building, Index, cacheVars, searchVars, uploadVars,
            callHistory, historyVars
<1>1. ASSUME NEW s \in Searches, Lookup(s) PROVE TypeOK'
  BY <1>1 DEF Lookup
<1>2. ASSUME NEW s \in Searches, EnterFlight(s) PROVE TypeOK'
  BY <1>2 DEF EnterFlight
<1>3. ASSUME NEW s \in Searches, Recheck(s) PROVE TypeOK'
  BY <1>3 DEF Recheck
<1>4. ASSUME NEW s \in Searches, ReadModels(s) PROVE TypeOK'
  BY <1>4 DEF ReadModels
<1>5. ASSUME NEW s \in Searches, ReadChunks(s) PROVE TypeOK'
  BY <1>5 DEF ReadChunks
<1>6. ASSUME NEW s \in Searches, BuildFails(s) PROVE TypeOK'
  BY <1>6 DEF BuildFails
<1>7. ASSUME NEW s \in Searches, StoreIndex(s) PROVE TypeOK'
  BY <1>7 DEF StoreIndex
<1>8. ASSUME NEW s \in Searches, Finish(s) PROVE TypeOK'
  BY <1>8 DEF Finish
<1>9. ASSUME NEW u \in Uploads, IndexFile(u) PROVE TypeOK'
  BY <1>9 DEF IndexFile
<1>10. ASSUME NEW u \in Uploads, UploadFails(u) PROVE TypeOK'
  BY <1>10 DEF UploadFails
<1>11. ASSUME NEW u \in Uploads, UploadInvalidates(u) PROVE TypeOK'
  <2>1. straddled' \in BOOLEAN
    BY <1>11 DEF UploadInvalidates
  <2> QED
    BY <1>11, <2>1 DEF UploadInvalidates, Invalidate
<1>12. CASE UNCHANGED vars
  BY <1>12 DEF vars
<1> QED
  BY <1>1, <1>2, <1>3, <1>4, <1>5, <1>6, <1>7, <1>8, <1>9, <1>10, <1>11, <1>12
     DEF Next, SearchStep

(* Every variable of the cache, the searches and the uploads keeps to its  *)
(* range (ForProject, Invalidate and the upload job).                      *)
THEOREM TypeCorrect == Spec => []TypeOK
BY InitTypeOK, NextTypeOK, PTL DEF Spec

-----------------------------------------------------------------------------
(* The part of the invariant about singleflight. *)

FlightPart ==
    /\ FlightInv
    /\ OneBuildPerEpoch
    /\ JoinsOnlyCurrentBuild
    /\ NoOrphanedFollower

(* A step that leaves the calls in flight, the followers and their epochs  *)
(* alone leaves this part alone.                                           *)
LEMMA FlightFrame ==
    ASSUME FlightPart, TypeOK, TypeOK',
           UNCHANGED <<flight, leader, led, epoch>>,
           \A s \in Searches :
              /\ IsBuilding(s)' <=> IsBuilding(s)
              /\ search'[s] \in Building \cup {"finish"} <=>
                    search[s] \in Building \cup {"finish"}
              /\ search'[s] = "follow" <=> search[s] = "follow"
              /\ search[s] = "follow" => entered'[s] = entered[s]
              /\ entered'[s] =< epoch
    PROVE  FlightPart'
<1> USE DEF FlightPart, TypeOK
<1>1. FlightInv'
  BY NoneAssumption DEF FlightInv
<1>2. OneBuildPerEpoch'
  BY DEF OneBuildPerEpoch
<1>3. \A s \in Searches : search[s] = "follow" => leader[s] \in Searches
  BY NoneAssumption DEF NoOrphanedFollower, IsBuilding
<1>4. JoinsOnlyCurrentBuild' /\ NoOrphanedFollower'
  BY <1>3 DEF JoinsOnlyCurrentBuild, NoOrphanedFollower
<1> QED
  BY <1>1, <1>2, <1>4

(* A search that joins or leads a flight keeps flights and leaders         *)
(* matched.                                                                *)
LEMMA EnterFlightPart ==
    ASSUME FlightPart, TypeOK, TypeOK', NEW s \in Searches, EnterFlight(s)
    PROVE  FlightPart'
<1> USE DEF FlightPart, TypeOK
<1>1. /\ search[s] = "miss"
      /\ UNCHANGED <<epoch, entered>>
  BY DEF EnterFlight
<1>2. ~IsBuilding(s)
  BY <1>1 DEF IsBuilding, Building
<1>3. CASE flight # None
  <2>1. /\ leader' = [leader EXCEPT ![s] = flight]
        /\ search' = [search EXCEPT ![s] = "follow"]
        /\ UNCHANGED <<flight, led>>
    BY <1>3 DEF EnterFlight
  <2>2. IsBuilding(flight) /\ flight # s /\ flight \in Searches /\ led[flight] = epoch
    BY <1>2, <1>3 DEF FlightInv
  <2>3. \A t \in Searches : IsBuilding(t)' <=> IsBuilding(t)
    BY <1>1, <2>1, <2>2 DEF IsBuilding, Building
  <2>4. FlightInv'
    BY <1>1, <2>1, <2>2, <2>3 DEF FlightInv, Building
  <2>5. OneBuildPerEpoch'
    BY <2>1, <2>3 DEF OneBuildPerEpoch
  <2>6. ASSUME NEW t \in Searches, search'[t] = "follow"
        PROVE  /\ led'[leader'[t]] >= entered'[t]
             /\ leader'[t] # None /\ IsBuilding(leader[t])'
    <3>1. CASE t = s
      <4>1. PICK l \in Searches : flight = l /\ IsBuilding(l) /\ led[l] = epoch
        BY <2>2
      <4>2. leader'[t] = l /\ led'[l] >= entered'[t] /\ IsBuilding(l)'
        BY <1>1, <2>1, <2>3, <3>1, <4>1 DEF FlightInv
      <4> QED
        BY <4>2, NoneAssumption DEF IsBuilding
    <3>2. CASE t # s
      BY <1>1, <2>1, <2>3, <2>6, <3>2, NoneAssumption
         DEF JoinsOnlyCurrentBuild, NoOrphanedFollower, IsBuilding
    <3> QED
      BY <3>1, <3>2
  <2> QED
    BY <2>4, <2>5, <2>6 DEF JoinsOnlyCurrentBuild, NoOrphanedFollower
<1>4. CASE flight = None
  <2>1. /\ flight' = s
        /\ leader' = [leader EXCEPT ![s] = s]
        /\ search' = [search EXCEPT ![s] = "recheck"]
        /\ led' = [led EXCEPT ![s] = epoch]
    BY <1>4 DEF EnterFlight
  <2>2. \A t \in Searches : IsBuilding(t)' <=> IsBuilding(t) \/ t = s
    BY <1>1, <2>1 DEF IsBuilding, Building
  <2>3. \A t \in Searches : IsBuilding(t) => led[t] < epoch /\ t # s
    BY <1>2, <1>4, NoneAssumption DEF FlightInv
  <2>4. FlightInv'
    BY <1>1, <2>1, <2>2, <2>3 DEF FlightInv, Building
  <2>5. OneBuildPerEpoch'
    BY <2>1, <2>2, <2>3 DEF OneBuildPerEpoch
  <2>6. ASSUME NEW t \in Searches, search'[t] = "follow"
        PROVE  /\ led'[leader'[t]] >= entered'[t]
             /\ leader'[t] # None /\ IsBuilding(leader[t])'
    <3>1. t # s /\ search[t] = "follow"
      BY <2>1, <2>6
    <3>2. PICK l \in Searches : leader[t] = l /\ IsBuilding(l) /\ led[l] >= entered[t]
      BY <3>1, NoneAssumption DEF JoinsOnlyCurrentBuild, NoOrphanedFollower, IsBuilding
    <3>3. l # s
      BY <1>2, <3>2
    <3>4. leader'[t] = l /\ led'[l] >= entered'[t] /\ IsBuilding(l)'
      BY <1>1, <2>1, <2>2, <3>1, <3>2, <3>3
    <3> QED
      BY <3>4, NoneAssumption DEF IsBuilding
  <2> QED
    BY <2>4, <2>5, <2>6 DEF JoinsOnlyCurrentBuild, NoOrphanedFollower
<1> QED
  BY <1>3, <1>4

(* A leader that finishes takes its flight with it.                        *)
LEMMA FinishPart ==
    ASSUME FlightPart, TypeOK, TypeOK', NEW s \in Searches, Finish(s)
    PROVE  FlightPart'
<1> USE DEF FlightPart, TypeOK
<1>1. /\ search[s] = "finish"
      /\ flight' = IF flight = s THEN None ELSE flight
      /\ UNCHANGED <<leader, led, epoch, entered>>
  BY DEF Finish, historyVars, callHistory
<1>2. \A t \in Searches :
         search'[t] = IF t = s \/ (search[t] = "follow" /\ leader[t] = s)
                      THEN "done" ELSE search[t]
  BY DEF Finish
<1>3. \A t \in Searches : IsBuilding(t)' <=> IsBuilding(t) /\ t # s
  BY <1>1, <1>2 DEF IsBuilding, Building
<1>4. FlightInv'
  BY <1>1, <1>2, <1>3, NoneAssumption DEF FlightInv, Building
<1>5. OneBuildPerEpoch'
  BY <1>1, <1>3 DEF OneBuildPerEpoch
<1>6. ASSUME NEW t \in Searches, search'[t] = "follow"
      PROVE  /\ led'[leader'[t]] >= entered'[t]
             /\ leader'[t] # None /\ IsBuilding(leader[t])'
  <2>1. search[t] = "follow" /\ leader[t] # s
    BY <1>2, <1>6
  <2>2. PICK l \in Searches : leader[t] = l /\ IsBuilding(l) /\ led[l] >= entered[t]
    BY <2>1, NoneAssumption DEF JoinsOnlyCurrentBuild, NoOrphanedFollower, IsBuilding
  <2>3. leader'[t] = l /\ led'[l] >= entered'[t] /\ IsBuilding(l)'
    BY <1>1, <1>3, <2>1, <2>2
  <2> QED
    BY <2>3, NoneAssumption DEF IsBuilding
<1> QED
  BY <1>4, <1>5, <1>6 DEF JoinsOnlyCurrentBuild, NoOrphanedFollower

(* Invalidate begins a new epoch and leaves no call registered.            *)
LEMMA InvalidatePart ==
    ASSUME FlightPart, TypeOK, TypeOK', NEW u \in Uploads, UploadInvalidates(u)
    PROVE  FlightPart'
<1> USE DEF FlightPart, TypeOK
<1>1. /\ flight' = None /\ epoch' = epoch + 1
      /\ UNCHANGED <<search, leader, led, entered>>
  BY DEF UploadInvalidates, Invalidate, searchVars, callHistory
<1>2. \A t \in Searches : IsBuilding(t)' <=> IsBuilding(t)
  BY <1>1 DEF IsBuilding
<1>3. \A t \in Searches : IsBuilding(t) => led[t] =< epoch
  BY DEF FlightInv
<1>4. FlightInv'
  BY <1>1, <1>2, <1>3, NoneAssumption DEF FlightInv
<1>5. OneBuildPerEpoch'
  BY <1>1, <1>2 DEF OneBuildPerEpoch
<1>6. \A t \in Searches : search[t] = "follow" => leader[t] \in Searches
  BY NoneAssumption DEF NoOrphanedFollower, IsBuilding
<1>7. JoinsOnlyCurrentBuild' /\ NoOrphanedFollower'
  BY <1>1, <1>2, <1>6 DEF JoinsOnlyCurrentBuild, NoOrphanedFollower
<1> QED
  BY <1>4, <1>5, <1>7

(* Every step keeps flights and leaders matched.                           *)
LEMMA NextFlightPart == TypeOK /\ FlightPart /\ [Next]_vars => FlightPart'
<1> SUFFICES ASSUME TypeOK, FlightPart, [Next]_vars PROVE FlightPart'
  OBVIOUS
<1>t. TypeOK'
  BY NextTypeOK
<1>e. \A s \in Searches : entered[s] =< epoch
  BY DEF FlightPart, FlightInv
<1>1. ASSUME NEW s \in Searches, Lookup(s) PROVE FlightPart'
  <2>1. /\ UNCHANGED <<flight, leader, led, epoch>>
        /\ search[s] = "idle" /\ search'[s] \in {"done", "miss"}
        /\ \A t \in Searches : t # s => search'[t] = search[t] /\ entered'[t] = entered[t]
        /\ entered'[s] = epoch
    BY <1>1 DEF Lookup, TypeOK, cacheVars
  <2>2. \A t \in Searches :
           /\ IsBuilding(t)' <=> IsBuilding(t)
           /\ search'[t] \in Building \cup {"finish"} <=>
                 search[t] \in Building \cup {"finish"}
           /\ search'[t] = "follow" <=> search[t] = "follow"
           /\ search[t] = "follow" => entered'[t] = entered[t]
    BY <2>1 DEF IsBuilding, Building
  <2>3. \A t \in Searches : entered'[t] =< epoch
    BY <1>e, <2>1 DEF TypeOK
  <2> QED
    BY <1>t, <2>1, <2>2, <2>3, FlightFrame
<1>2. ASSUME NEW s \in Searches, EnterFlight(s) PROVE FlightPart'
  BY <1>t, <1>2, EnterFlightPart
<1>3. ASSUME NEW s \in Searches,
             Recheck(s) \/ ReadModels(s) \/ ReadChunks(s) \/ BuildFails(s) \/ StoreIndex(s)
      PROVE  FlightPart'
  <2>1. /\ UNCHANGED <<flight, leader, led, epoch, entered>>
        /\ search[s] \in Building /\ search'[s] \in Building \cup {"finish"}
        /\ \A t \in Searches : t # s => search'[t] = search[t]
    BY <1>3 DEF Recheck, ReadModels, ReadChunks, BuildFails, StoreIndex, Building,
                TypeOK, cacheVars, historyVars, callHistory
  <2>2. \A t \in Searches :
           /\ IsBuilding(t)' <=> IsBuilding(t)
           /\ search'[t] \in Building \cup {"finish"} <=>
                 search[t] \in Building \cup {"finish"}
           /\ search'[t] = "follow" <=> search[t] = "follow"
    BY <2>1 DEF IsBuilding, Building
  <2> QED
    BY <1>t, <1>e, <2>1, <2>2, FlightFrame
<1>4. ASSUME NEW s \in Searches, Finish(s) PROVE FlightPart'
  BY <1>t, <1>4, FinishPart
<1>5. ASSUME NEW u \in Uploads, UploadInvalidates(u) PROVE FlightPart'
  BY <1>t, <1>5, InvalidatePart
<1>6. ASSUME UNCHANGED <<flight, leader, led, epoch, entered, search>> PROVE FlightPart'
  BY <1>t, <1>e, <1>6, FlightFrame DEF IsBuilding
<1>7. ASSUME NEW u \in Uploads, IndexFile(u) \/ UploadFails(u) PROVE FlightPart'
  BY <1>6, <1>7 DEF IndexFile, UploadFails, cacheVars, searchVars, historyVars, callHistory
<1>8. CASE UNCHANGED vars
  BY <1>6, <1>8 DEF vars, cacheVars, searchVars, historyVars, callHistory
<1> QED
  BY <1>1, <1>2, <1>3, <1>4, <1>5, <1>7, <1>8 DEF Next, SearchStep

-----------------------------------------------------------------------------
(* The part of the invariant about versions. *)

(* What a build has read is as new as the Invalidate before it.            *)
LEMMA NextVersionInv == TypeOK /\ VersionInv /\ [Next]_vars => VersionInv'
<1> SUFFICES ASSUME TypeOK, VersionInv, [Next]_vars PROVE VersionInv'
  OBVIOUS
<1> DEFINE Quiet == \A u \in Uploads : upload[u] \in {"idle", "done"}
<1>t. TypeOK'
  BY NextTypeOK
<1> USE NoneAssumption DEF TypeOK, Index
<1>1. ASSUME NEW s \in Searches,
             UNCHANGED <<version, cached, uploadVars, invalidated, straddled>>,
             \A t \in Searches : result'[t] # None => result'[t] =< version,
             \A t \in Searches : search'[t] = "store" => result'[t] # None
      PROVE  VersionInv'
  BY <1>1 DEF VersionInv, uploadVars
<1>2. ASSUME NEW s \in Searches,
             Lookup(s) \/ Recheck(s) \/ ReadModels(s) \/ ReadChunks(s) \/ BuildFails(s)
      PROVE  VersionInv'
  <2>1. UNCHANGED <<version, cached, uploadVars, invalidated, straddled>>
    BY <1>2 DEF Lookup, Recheck, ReadModels, ReadChunks, BuildFails, cacheVars,
                historyVars
  <2>2. /\ result' = [result EXCEPT ![s] = result'[s]]
        /\ result'[s] \in {cached, 0, None, version}
        /\ search'[s] = "store" => result'[s] # None
        /\ \A t \in Searches : t # s => search'[t] = search[t]
    BY <1>2 DEF Lookup, Recheck, ReadModels, ReadChunks, BuildFails
  <2>3. \A t \in Searches : result'[t] # None => result'[t] =< version
    BY <2>2 DEF VersionInv
  <2>4. \A t \in Searches : search'[t] = "store" => result'[t] # None
    BY <2>2 DEF VersionInv
  <2> QED
    BY <1>1, <2>1, <2>3, <2>4
<1>3. ASSUME NEW s \in Searches, EnterFlight(s) PROVE VersionInv'
  <2>1. /\ UNCHANGED <<version, cached, uploadVars, invalidated, straddled, result>>
        /\ \A t \in Searches : search'[t] = "store" => search[t] = "store"
    BY <1>3 DEF EnterFlight
  <2> QED
    BY <1>1, <2>1 DEF VersionInv
<1>4. ASSUME NEW s \in Searches, StoreIndex(s) PROVE VersionInv'
  <2>1. /\ search[s] = "store" /\ cached' = result[s]
        /\ straddled' = (result[s] < invalidated)
        /\ UNCHANGED <<version, result, upload, invalidated>>
        /\ \A t \in Searches : search'[t] = "store" => search[t] = "store"
    BY <1>4 DEF StoreIndex, uploadVars
  <2>2. result[s] # None /\ result[s] \in Nat /\ result[s] =< version
    BY <2>1 DEF VersionInv
  <2>3. cached' \in Nat /\ cached' =< version
    BY <2>1, <2>2
  <2>4. ~straddled' => cached' >= invalidated
    <3>1. ~(result[s] < invalidated) => cached' >= invalidated
      BY <2>1, <2>2
    <3> QED
      BY <2>1, <3>1, Zenon
  <2> QED
    BY <2>1, <2>3, <2>4 DEF VersionInv
<1>5. ASSUME NEW s \in Searches, Finish(s) PROVE VersionInv'
  <2>1. UNCHANGED <<version, cached, uploadVars, invalidated, straddled>>
    BY <1>5 DEF Finish, historyVars
  <2>2. \A t \in Searches :
           /\ result'[t] \in {result[s], result[t]}
           /\ search'[t] = "store" => search[t] = "store" /\ result'[t] = result[t]
    BY <1>5 DEF Finish
  <2>3. \A t \in Searches : result'[t] # None => result'[t] =< version
    BY <2>2 DEF VersionInv
  <2>4. \A t \in Searches : search'[t] = "store" => result'[t] # None
    BY <2>2 DEF VersionInv
  <2> QED
    BY <1>1, <2>1, <2>3, <2>4
<1>6. ASSUME NEW u \in Uploads, IndexFile(u) \/ UploadFails(u) PROVE VersionInv'
  <2>1. /\ UNCHANGED <<cached, search, result, invalidated, straddled>>
        /\ version' \in {version, version + 1}
        /\ upload'[u] \in {"indexing", "failed"}
    BY <1>6 DEF IndexFile, UploadFails, cacheVars, searchVars, historyVars
  <2>2. ~Quiet'
    BY <2>1
  <2>3. \A n \in Nat : n =< version => n =< version'
    BY <2>1
  <2>4. /\ cached # None => cached \in Nat
        /\ \A t \in Searches : result[t] # None => result[t] \in Nat
    OBVIOUS
  <2> QED
    BY <2>1, <2>2, <2>3, <2>4 DEF VersionInv
<1>7. ASSUME NEW u \in Uploads, UploadInvalidates(u) PROVE VersionInv'
  BY <1>7 DEF UploadInvalidates, Invalidate, VersionInv, searchVars
<1>8. CASE UNCHANGED vars
  BY <1>8 DEF VersionInv, vars, cacheVars, searchVars, uploadVars, historyVars
<1> QED
  BY <1>2, <1>3, <1>4, <1>5, <1>6, <1>7, <1>8 DEF Next, SearchStep

(* The inductive invariant holds after boot.                               *)
LEMMA InitIInv == Init => IInv
<1> SUFFICES ASSUME Init PROVE IInv
  OBVIOUS
<1>1. TypeOK
  BY InitTypeOK
<1>2. \A s \in Searches : search[s] = "idle" /\ result[s] = None
  BY DEF Init
<1>3. \A s \in Searches : ~IsBuilding(s)
  BY <1>2 DEF IsBuilding, Building
<1>4. FlightInv
  BY <1>2, <1>3 DEF FlightInv, Init, Building
<1>5. OneBuildPerEpoch /\ JoinsOnlyCurrentBuild /\ NoOrphanedFollower
  BY <1>2, <1>3 DEF OneBuildPerEpoch, JoinsOnlyCurrentBuild, NoOrphanedFollower
<1>6. VersionInv
  BY <1>1, <1>2 DEF VersionInv, Init, TypeOK
<1> QED
  BY <1>1, <1>4, <1>5, <1>6 DEF IInv

(* Every reachable state satisfies the inductive invariant.                *)
LEMMA InductiveInvariant == Spec => []IInv
<1>1. IInv /\ [Next]_vars => IInv'
  BY NextTypeOK, NextFlightPart, NextVersionInv DEF IInv, FlightPart
<1> QED
  BY <1>1, InitIInv, PTL DEF Spec

-----------------------------------------------------------------------------
(* The properties *)

(* Concurrent first searches are coalesced: two builds at the same time     *)
(* mean that an Invalidate forgot the older one.                           *)
THEOREM BuildsAreCoalesced == Spec => []OneBuildPerEpoch
<1>1. IInv => OneBuildPerEpoch
  BY DEF IInv
<1> QED
  BY <1>1, InductiveInvariant, PTL

(* A search never shares a build that began before the last Invalidate     *)
(* that preceded the search: the Forget in Invalidate.                     *)
THEOREM ForgetWorks == Spec => []JoinsOnlyCurrentBuild
<1>1. IInv => JoinsOnlyCurrentBuild
  BY DEF IInv
<1> QED
  BY <1>1, InductiveInvariant, PTL

(* A follower always has a leader at work, forgotten or not, so the wait   *)
(* in singleflight ends.                                                   *)
THEOREM FollowersHaveLeaders == Spec => []NoOrphanedFollower
<1>1. IInv => NoOrphanedFollower
  BY DEF IInv
<1> QED
  BY <1>1, InductiveInvariant, PTL

(* With no upload in progress or failed, a cached index that no straddling *)
(* build put there is exactly the store's.                                 *)
THEOREM CacheIsFresh == Spec => []FreshUnlessStraddled
<1>1. IInv => FreshUnlessStraddled
  BY NoneAssumption DEF IInv, VersionInv, FreshUnlessStraddled, TypeOK, Index
<1> QED
  BY <1>1, InductiveInvariant, PTL

-----------------------------------------------------------------------------
(* The embedder.                                                             *)

(* What the producer of a batch sends: where it starts, how many vectors.    *)
EReply == [start : 1 .. NTexts, n : Nat, err : BOOLEAN]

ETypeOK ==
    /\ call \in {"none", "texts", "batch"} /\ next \in Nat \ {0}
    /\ out \in [1 .. NTexts -> Nat] /\ \A i \in 1 .. NTexts : out[i] \in {0, i}
    /\ flying \subseteq 1 .. NTexts /\ failed \subseteq 1 .. NTexts
    /\ item \in Seq(EReply) /\ chan \in Seq(EReply)

(* Which call runs, and how far it is.                                      *)
EShape ==
    \/ call = "none" /\ caller = "idle" /\ producer = "none" /\ next = 1
    \/ /\ call = "texts" /\ producer = "none" /\ caller \in {"spawn", "wait", "ok", "error"}
       /\ caller \in {"wait", "ok"} => next > NTexts
       /\ caller = "ok" => flying = {} /\ failed = {}
    \/ /\ call = "batch" /\ caller \in {"recv", "ok", "error"} /\ producer \in {"ask", "send", "closed"}
       /\ producer = "send" => Len(item) = 1
       /\ caller = "error" => ctx = "done"
       /\ caller = "ok" => producer = "closed" /\ chan = <<>> /\ next > NTexts

EOnlyTexts == flying # {} => call = "texts"

(* The replies that the producer or the channel holds.                      *)
EHeld == {item[k] : k \in DOMAIN item} \cup {chan[k] : k \in DOMAIN chan}

EHeldInv ==
    /\ producer # "send" => item = <<>>
    /\ \A r \in EHeld : /\ ~r.err => r.start + r.n \in {E!EndOf(r.start), E!EndOf(r.start) + 1}
                        /\ ~r.err => \A i \in r.start + r.n .. E!EndOf(r.start) : i \in unsent

(* Text i has its vector, or a batch that is to bring it runs or failed.    *)
ETextsInv ==
    call = "texts" =>
        \A i \in 1 .. NTexts :
            i < next => out[i] = i \/ \E s \in flying \cup failed : i \in s .. E!EndOf(s)

EFilled(i) == out[i] = i \/ (i \in unsent /\ out[i] = 0)

EAccounted ==
    \A i \in 1 .. NTexts :
        i < next => EFilled(i) \/ \E r \in EHeld : ~r.err /\ i \in r.start .. E!EndOf(r.start)

EFailure == ctx = "done" \/ \E r \in EHeld : r.err

EBatchInv ==
    call = "batch" =>
        /\ EFailure \/ EAccounted
        /\ producer = "closed" => EFailure \/ next > NTexts
        /\ caller = "ok" => \A i \in 1 .. NTexts : EFilled(i)

EInv == ETypeOK /\ EShape /\ EOnlyTexts /\ EHeldInv /\ ETextsInv /\ EBatchInv

-----------------------------------------------------------------------------
(* A batch or chunk that starts at text s ends between s and the last one.  *)
LEMMA EEndOf ==
    ASSUME E!EmbeddingAssumption, NEW s \in 1 .. NTexts
    PROVE  E!EndOf(s) \in s .. NTexts
BY DEF E!EmbeddingAssumption, E!EndOf, E!Min

(* A reply is for the texts that were sent, complete, one short or an error.*)
LEMMA EReplies ==
    ASSUME E!EmbeddingAssumption, NEW s \in 1 .. NTexts, NEW r \in E!Replies(s)
    PROVE  /\ r \in EReply /\ r.start = s
           /\ ~r.err => r.start + r.n \in {E!EndOf(s), E!EndOf(s) + 1}
<1>1. E!EndOf(s) \in s .. NTexts
  BY EEndOf
<1>2. CASE r = [start |-> s, n |-> 0, err |-> TRUE]
  BY <1>2 DEF EReply
<1>3. ASSUME NEW n \in {E!EndOf(s) - s, E!EndOf(s) - s + 1}, r = [start |-> s, n |-> n, err |-> FALSE]
      PROVE  /\ r \in EReply /\ r.start = s
             /\ ~r.err => r.start + r.n \in {E!EndOf(s), E!EndOf(s) + 1}
  <2>1. n \in Nat /\ s + n \in {E!EndOf(s), E!EndOf(s) + 1}
    BY <1>1, <1>3 DEF E!EmbeddingAssumption
  <2> QED
    BY <1>3, <2>1 DEF EReply
<1> QED
  BY <1>2, <1>3 DEF E!Replies

(* What a step does to the replies held. *)
LEMMA EHeldUnchanged == item' = item /\ chan' = chan => EHeld' = EHeld
BY DEF EHeld

(* A reply that is asked for is held by the producer.                       *)
LEMMA EHeldAsk ==
    ASSUME NEW r, item = <<>>, item' = <<r>>, chan' = chan
    PROVE  EHeld' = EHeld \cup {r}
BY DEF EHeld

(* A producer that gives up drops what it held.                             *)
LEMMA EHeldGiveUp ==
    ASSUME item' = <<>>, chan' = chan
    PROVE  EHeld' \subseteq EHeld
BY DEF EHeld

(* Sending moves a reply from the producer to the channel.                  *)
LEMMA EHeldSend ==
    ASSUME NEW A, item \in Seq(A), chan \in Seq(A), item' = <<>>, chan' = chan \o item
    PROVE  EHeld' = EHeld
<1>1. \A k \in DOMAIN chan : chan'[k] = chan[k] /\ k \in DOMAIN chan'
  OBVIOUS
<1>2. \A k \in DOMAIN item : chan'[Len(chan) + k] = item[k] /\ Len(chan) + k \in DOMAIN chan'
  OBVIOUS
<1>3. \A k \in DOMAIN chan' : k \in DOMAIN chan \/ (k - Len(chan) \in DOMAIN item /\ chan'[k] = item[k - Len(chan)])
  OBVIOUS
<1>4. EHeld' = {chan'[k] : k \in DOMAIN chan'}
  BY DEF EHeld
<1>5. ASSUME NEW x \in EHeld PROVE x \in EHeld'
  <2>1. CASE \E k \in DOMAIN item : x = item[k]
    BY <1>2, <1>4, <2>1, Zenon
  <2>2. CASE \E k \in DOMAIN chan : x = chan[k]
    BY <1>1, <1>4, <2>2, Zenon
  <2> QED
    BY <2>1, <2>2, Zenon DEF EHeld
<1>6. ASSUME NEW x \in EHeld' PROVE x \in EHeld
  <2>1. PICK k \in DOMAIN chan' : x = chan'[k]
    BY <1>4, Zenon
  <2>2. CASE k \in DOMAIN chan
    BY <1>1, <2>1, <2>2, Zenon DEF EHeld
  <2>3. CASE k - Len(chan) \in DOMAIN item /\ chan'[k] = item[k - Len(chan)]
    BY <2>1, <2>3, Zenon DEF EHeld
  <2> QED
    BY <1>3, <2>2, <2>3, Zenon
<1> QED
  BY <1>5, <1>6, Zenon

(* Receiving takes the first reply of the channel.                          *)
LEMMA EHeldReceive ==
    ASSUME NEW A, chan \in Seq(A), chan # <<>>, item' = item, chan' = Tail(chan)
    PROVE  /\ Head(chan) \in EHeld
           /\ EHeld = EHeld' \cup {Head(chan)}
<1>1. Head(chan) = chan[1] /\ 1 \in DOMAIN chan
  OBVIOUS
<1>2. \A k \in DOMAIN chan' : chan'[k] = chan[k + 1] /\ k + 1 \in DOMAIN chan
  OBVIOUS
<1>3. \A k \in DOMAIN chan : k = 1 \/ (k - 1 \in DOMAIN chan' /\ chan[k] = chan'[k - 1])
  OBVIOUS
<1>4. Head(chan) \in EHeld
  BY <1>1, Zenon DEF EHeld
<1>5. ASSUME NEW x \in EHeld PROVE x \in EHeld' \cup {Head(chan)}
  <2>1. CASE \E k \in DOMAIN item : x = item[k]
    BY <2>1, Zenon DEF EHeld
  <2>2. ASSUME NEW k \in DOMAIN chan, x = chan[k] PROVE x \in EHeld' \cup {Head(chan)}
    <3>1. CASE k = 1
      BY <1>1, <2>2, <3>1, Zenon
    <3>2. CASE k - 1 \in DOMAIN chan' /\ chan[k] = chan'[k - 1]
      BY <2>2, <3>2, Zenon DEF EHeld
    <3> QED
      BY <1>3, <3>1, <3>2, Zenon
  <2> QED
    BY <2>1, <2>2, Zenon DEF EHeld
<1>6. ASSUME NEW x \in EHeld' PROVE x \in EHeld
  <2>1. CASE \E k \in DOMAIN item : x = item[k]
    BY <2>1, Zenon DEF EHeld
  <2>2. CASE \E k \in DOMAIN chan' : x = chan'[k]
    BY <1>2, <2>2, Zenon DEF EHeld
  <2> QED
    BY <2>1, <2>2, Zenon DEF EHeld
<1> QED
  BY <1>4, <1>5, <1>6, Zenon

(* Filling slots writes each text's own vector. *)
LEMMA EFill ==
    ASSUME NEW slots \in [1 .. NTexts -> Nat], NEW r \in EReply
    PROVE  /\ E!Fill(slots, r) \in [1 .. NTexts -> Nat]
           /\ \A i \in 1 .. NTexts :
                  /\ E!Fill(slots, r)[i] \in {i, slots[i]}
                  /\ i \in r.start .. r.start + r.n - 1 => E!Fill(slots, r)[i] = i
BY DEF E!Fill

(* The invariant holds at the start.                                        *)
LEMMA EInit == ASSUME E!EmbeddingAssumption PROVE E!Init => EInv
<1> SUFFICES ASSUME E!Init PROVE EInv
  OBVIOUS
<1> USE DEF E!Init, E!EmbeddingAssumption
<1>1. ETypeOK
  <2>1. item \in Seq(EReply) /\ chan \in Seq(EReply)
    OBVIOUS
  <2>2. out \in [1 .. NTexts -> Nat] /\ \A i \in 1 .. NTexts : out[i] \in {0, i}
    OBVIOUS
  <2>3. flying \subseteq 1 .. NTexts /\ failed \subseteq 1 .. NTexts
    OBVIOUS
  <2>4. call \in {"none", "texts", "batch"} /\ next \in Nat \ {0}
    OBVIOUS
  <2> QED
    BY <2>1, <2>2, <2>3, <2>4 DEF ETypeOK
<1>2. EHeld = {}
  BY DEF EHeld
<1> QED
  BY <1>1, <1>2 DEF EInv, EShape, EOnlyTexts, EHeldInv, ETextsInv, EBatchInv

(* EmbedTexts: the call itself. *)
LEMMA EEmbedTexts == ASSUME E!EmbeddingAssumption, EInv, E!EmbedTexts PROVE EInv'
<1> USE DEF E!EmbedTexts, EInv, E!EmbeddingAssumption
<1>1. EHeld' = EHeld
  BY EHeldUnchanged
<1>2. ETypeOK' /\ EShape' /\ EOnlyTexts'
  BY DEF ETypeOK, EShape, EOnlyTexts
<1>3. EHeldInv'
  BY <1>1 DEF EHeldInv
<1>4. ETextsInv'
  BY DEF ETextsInv, EShape
<1> QED
  BY <1>2, <1>3, <1>4 DEF EBatchInv

(* Starting the next batch keeps it: its texts are in flight.               *)
LEMMA ESpawn == ASSUME E!EmbeddingAssumption, EInv, E!Spawn PROVE EInv'
<1> USE DEF E!Spawn, EInv
<1>1. EHeld' = EHeld
  BY EHeldUnchanged
<1>2. next <= NTexts => E!EndOf(next) \in next .. NTexts /\ next \in 1 .. NTexts
  BY EEndOf DEF ETypeOK, E!EmbeddingAssumption
<1>3. ETypeOK'
  <2>1. CASE next > NTexts
    BY <2>1 DEF ETypeOK
  <2>2. CASE ~(next > NTexts)
    <3>1. next <= NTexts
      BY <2>2 DEF ETypeOK, E!EmbeddingAssumption
    <3>2. next' \in Nat \ {0}
      BY <1>2, <2>2, <3>1
    <3>3. flying' \subseteq 1 .. NTexts
      BY <1>2, <2>2, <3>1 DEF ETypeOK
    <3> QED
      BY <3>2, <3>3 DEF ETypeOK
  <2> QED
    BY <2>1, <2>2
<1>4. EShape' /\ EOnlyTexts'
  BY DEF ETypeOK, EShape, EOnlyTexts, E!EmbeddingAssumption
<1>5. EHeldInv'
  BY <1>1 DEF EHeldInv
<1>6. ETextsInv'
  <2> SUFFICES ASSUME NEW i \in 1 .. NTexts, i < next'
               PROVE  out[i] = i \/ \E s \in flying' \cup failed : i \in s .. E!EndOf(s)
    BY DEF ETextsInv
  <2>1. CASE i < next
    BY <2>1 DEF ETextsInv
  <2>2. CASE ~(i < next)
    <3>1. next <= NTexts /\ flying' = flying \cup {next} /\ next' = E!EndOf(next) + 1
      <4>1. next \in Nat /\ i \in Nat /\ NTexts \in Nat
        BY DEF ETypeOK, E!EmbeddingAssumption
      <4>2. CASE next <= NTexts
        BY <4>1, <4>2
      <4>3. CASE ~(next <= NTexts)
        BY <4>1, <4>3, <2>2
      <4> QED
        BY <4>2, <4>3
    <3>2. i \in next .. E!EndOf(next)
      BY <2>2, <3>1, <1>2 DEF ETypeOK
    <3> QED
      BY <3>1, <3>2
  <2> QED
    BY <2>1, <2>2
<1> QED
  BY <1>3, <1>4, <1>5, <1>6 DEF EBatchInv

(* The end of a batch keeps it: its vectors are there, or it failed.        *)
LEMMA EBatchEnds == ASSUME E!EmbeddingAssumption, EInv, NEW b \in flying, E!BatchEnds(b) PROVE EInv'
<1> USE DEF EInv
<1>0. b \in 1 .. NTexts /\ call = "texts"
  BY DEF ETypeOK, EOnlyTexts
<1>1. EHeld' = EHeld
  BY EHeldUnchanged DEF E!BatchEnds
<1>2. UNCHANGED <<call, caller, next, producer, item, chan, ctx>> /\ flying' = flying \ {b}
  BY DEF E!BatchEnds
<1>3. PICK r \in E!Replies(b) :
          /\ E!Answer(r)
          /\ IF r.err \/ E!ShortBatch(b, r)
             THEN failed' = failed \cup {b} /\ UNCHANGED out
             ELSE out' = E!Fill(out, r) /\ UNCHANGED failed
  BY DEF E!BatchEnds
<1>4. r \in EReply /\ r.start = b
  BY <1>0, EReplies
<1>5. unsent \subseteq unsent'
  BY <1>3 DEF E!Answer
<1>6. CASE r.err \/ E!ShortBatch(b, r)
  <2>1. failed' = failed \cup {b} /\ out' = out
    BY <1>3, <1>6
  <2>2. ETypeOK'
    BY <1>0, <1>2, <1>5, <2>1 DEF ETypeOK
  <2>3. EShape' /\ EOnlyTexts'
    BY <1>0, <1>2, <2>1 DEF EShape, EOnlyTexts
  <2>4. EHeldInv'
    BY <1>1, <1>2, <1>5 DEF EHeldInv
  <2>5. ETextsInv'
    BY <1>2, <2>1 DEF ETextsInv
  <2> QED
    BY <1>0, <1>2, <2>2, <2>3, <2>4, <2>5 DEF EBatchInv
<1>7. CASE ~(r.err \/ E!ShortBatch(b, r))
  <2>1. failed' = failed /\ out' = E!Fill(out, r)
    BY <1>3, <1>7
  <2>2. b + r.n = E!EndOf(b) + 1
    BY <1>7 DEF E!ShortBatch
  <2>3. E!EndOf(b) \in b .. NTexts
    BY <1>0, EEndOf
  <2>4. /\ out' \in [1 .. NTexts -> Nat]
        /\ \A i \in 1 .. NTexts : out'[i] \in {0, i} /\ (out[i] = i => out'[i] = i)
        /\ \A i \in b .. E!EndOf(b) : out'[i] = i
    <3>1. out \in [1 .. NTexts -> Nat] /\ \A i \in 1 .. NTexts : out[i] \in {0, i}
      BY DEF ETypeOK
    <3>2. \A i \in b .. E!EndOf(b) : i \in 1 .. NTexts /\ i \in r.start .. r.start + r.n - 1
      BY <1>0, <1>4, <2>2, <2>3 DEF E!EmbeddingAssumption, EReply
    <3> QED
      BY <1>4, <2>1, <3>1, <3>2, EFill
  <2>5. ETypeOK'
    BY <1>2, <1>5, <2>1, <2>4 DEF ETypeOK
  <2>6. EShape' /\ EOnlyTexts'
    BY <1>0, <1>2, <2>1 DEF EShape, EOnlyTexts
  <2>7. EHeldInv'
    BY <1>1, <1>2, <1>5 DEF EHeldInv
  <2>8. ETextsInv'
    BY <1>2, <2>1, <2>4 DEF ETextsInv
  <2> QED
    BY <1>0, <1>2, <2>5, <2>6, <2>7, <2>8 DEF EBatchInv
<1> QED
  BY <1>6, <1>7

(* The end of the wait keeps it.                                            *)
LEMMA EWaited == ASSUME E!EmbeddingAssumption, EInv, E!Waited PROVE EInv'
<1> USE DEF E!Waited, EInv
<1>1. EHeld' = EHeld
  BY EHeldUnchanged
<1>2. ETypeOK' /\ EOnlyTexts'
  BY DEF ETypeOK, EOnlyTexts
<1>3. EShape'
  BY DEF EShape
<1>4. EHeldInv'
  BY <1>1 DEF EHeldInv
<1>5. ETextsInv'
  BY DEF ETextsInv
<1> QED
  BY <1>2, <1>3, <1>4, <1>5 DEF EBatchInv

-----------------------------------------------------------------------------
(* EmbedBatch: the call, its producer and its caller. *)
LEMMA EEmbedBatch == ASSUME E!EmbeddingAssumption, EInv, E!EmbedBatch PROVE EInv'
<1> USE DEF E!EmbedBatch, EInv, E!EmbeddingAssumption
<1>1. EHeld' = EHeld
  BY EHeldUnchanged
<1>2. ETypeOK' /\ EOnlyTexts'
  BY DEF ETypeOK, EOnlyTexts
<1>3. EShape'
  BY DEF EShape, EHeldInv
<1>4. EHeldInv' /\ ETextsInv'
  BY <1>1 DEF EHeldInv, ETextsInv, EShape
<1>5. EBatchInv'
  BY DEF EBatchInv, EAccounted, EShape
<1> QED
  BY <1>2, <1>3, <1>4, <1>5

(* A filled slot stays filled when no slot changes.                         *)
LEMMA EFilledStays ==
    ASSUME out' = out, unsent \subseteq unsent'
    PROVE  \A i \in 1 .. NTexts : EFilled(i) => EFilled(i)'
BY DEF EFilled

(* Asking for a batch keeps it: its texts are in the reply.                 *)
LEMMA EAsk == ASSUME E!EmbeddingAssumption, EInv, E!Ask PROVE EInv'
<1> USE DEF EInv
<1>0. call = "batch" /\ item = <<>>
  BY DEF E!Ask, EShape, EHeldInv
<1>1. UNCHANGED <<call, caller, out, flying, failed, chan, ctx>> /\ producer = "ask"
  BY DEF E!Ask
<1>2. caller # "ok"
  BY <1>0, <1>1 DEF EShape
<1>3. CASE next > NTexts
  <2>1. producer' = "closed" /\ next' = next /\ item' = item /\ unsent' = unsent
    BY <1>3 DEF E!Ask
  <2>2. EHeld' = EHeld
    BY <1>1, <2>1, EHeldUnchanged
  <2>3. ETypeOK' /\ EShape' /\ EOnlyTexts' /\ ETextsInv'
    BY <1>0, <1>1, <1>2, <2>1 DEF ETypeOK, EShape, EOnlyTexts, ETextsInv
  <2>4. EHeldInv'
    BY <1>0, <2>1, <2>2 DEF EHeldInv
  <2>5. EBatchInv'
    BY <1>1, <1>2, <1>3, <2>1, <2>2 DEF EBatchInv, EFailure, EAccounted, EFilled
  <2> QED
    BY <2>3, <2>4, <2>5
<1>4. CASE ~(next > NTexts)
  <2>1. next \in 1 .. NTexts
    BY <1>4 DEF ETypeOK, E!EmbeddingAssumption
  <2>2. PICK r \in E!Replies(next) : E!Answer(r) /\ item' = <<r>>
    BY <1>4 DEF E!Ask
  <2>3. producer' = "send" /\ next' = E!EndOf(next) + 1
    BY <1>4 DEF E!Ask
  <2>4. /\ r \in EReply /\ r.start = next
        /\ ~r.err => r.start + r.n \in {E!EndOf(next), E!EndOf(next) + 1}
    BY <2>1, EReplies
  <2>5. E!EndOf(next) \in next .. NTexts
    BY <2>1, EEndOf
  <2>6. EHeld' = EHeld \cup {r}
    BY <1>0, <1>1, <2>2, EHeldAsk
  <2>7. /\ unsent \subseteq unsent'
        /\ ~r.err => \A i \in r.start + r.n .. E!EndOf(r.start) : i \in unsent'
    BY <2>2 DEF E!Answer
  <2>8. item' \in Seq(EReply) /\ Len(item') = 1
    BY <2>2, <2>4
  <2>9. ETypeOK'
    BY <1>1, <2>1, <2>3, <2>5, <2>7, <2>8 DEF ETypeOK
  <2>10. EShape' /\ EOnlyTexts' /\ ETextsInv'
    BY <1>0, <1>1, <1>2, <2>3, <2>8 DEF EShape, EOnlyTexts, ETextsInv
  <2>11. EHeldInv'
    BY <2>3, <2>4, <2>6, <2>7 DEF EHeldInv
  <2>12. EFailure' \/ EAccounted'
    <3>1. CASE EFailure \/ r.err
      BY <1>1, <2>6, <3>1 DEF EFailure
    <3>2. CASE EAccounted /\ ~r.err
      <4> SUFFICES ASSUME NEW i \in 1 .. NTexts, i < next'
                   PROVE  EFilled(i)' \/ \E s \in EHeld' : ~s.err /\ i \in s.start .. E!EndOf(s.start)
        BY DEF EAccounted
      <4>1. CASE i < next
        BY <1>1, <2>6, <2>7, <3>2, <4>1, EFilledStays DEF EAccounted
      <4>2. CASE ~(i < next)
        <5>1. i \in next .. E!EndOf(next)
          BY <2>1, <2>3, <2>5, <4>2 DEF E!EmbeddingAssumption
        <5> QED
          BY <2>4, <2>6, <3>2, <5>1
      <4> QED
        BY <4>1, <4>2
    <3> QED
      BY <1>0, <3>1, <3>2 DEF EBatchInv
  <2>13. EBatchInv'
    BY <1>0, <1>1, <1>2, <2>3, <2>12 DEF EBatchInv
  <2> QED
    BY <2>9, <2>10, <2>11, <2>13
<1> QED
  BY <1>3, <1>4

(* Sending a reply keeps it.                                                *)
LEMMA ESend == ASSUME E!EmbeddingAssumption, EInv, E!Send PROVE EInv'
<1> USE DEF EInv
<1>0. call = "batch" /\ Len(item) = 1
  BY DEF E!Send, EShape
<1>1. /\ UNCHANGED <<call, caller, next, out, flying, failed, ctx, unsent>>
      /\ chan' = chan \o item /\ item' = <<>>
      /\ producer = "send" /\ producer' = IF item[1].err THEN "closed" ELSE "ask"
  BY DEF E!Send
<1>2. caller # "ok"
  BY <1>0, <1>1 DEF EShape
<1>3. EHeld' = EHeld
  BY <1>1, EHeldSend DEF ETypeOK
<1>4. item[1] \in EHeld
  BY <1>0 DEF EHeld, ETypeOK
<1>5. ETypeOK'
  BY <1>1 DEF ETypeOK
<1>6. EShape' /\ EOnlyTexts' /\ ETextsInv'
  BY <1>0, <1>1, <1>2 DEF EShape, EOnlyTexts, ETextsInv
<1>7. EHeldInv'
  BY <1>1, <1>3 DEF EHeldInv
<1>8. EFailure' <=> EFailure
  BY <1>1, <1>3 DEF EFailure
<1>9. EAccounted' <=> EAccounted
  BY <1>1, <1>3 DEF EAccounted, EFilled
<1>10. producer' = "closed" => EFailure
  BY <1>1, <1>4 DEF EFailure
<1>11. EBatchInv'
  BY <1>1, <1>2, <1>8, <1>9, <1>10 DEF EBatchInv
<1> QED
  BY <1>5, <1>6, <1>7, <1>11

(* Giving up keeps it: the context is done.                                 *)
LEMMA EGiveUp == ASSUME E!EmbeddingAssumption, EInv, E!GiveUp PROVE EInv'
<1> USE DEF EInv
<1>0. call = "batch"
  BY DEF E!GiveUp, EShape
<1>1. /\ UNCHANGED <<call, caller, next, out, flying, failed, chan, ctx, unsent>>
      /\ item' = <<>> /\ producer = "send" /\ producer' = "closed" /\ ctx = "done"
  BY DEF E!GiveUp
<1>2. caller # "ok"
  BY <1>0, <1>1 DEF EShape
<1>3. EHeld' \subseteq EHeld
  BY <1>1, EHeldGiveUp
<1>4. ETypeOK'
  BY <1>1 DEF ETypeOK
<1>5. EShape' /\ EOnlyTexts' /\ ETextsInv'
  BY <1>0, <1>1, <1>2 DEF EShape, EOnlyTexts, ETextsInv
<1>6. EHeldInv'
  BY <1>1, <1>3 DEF EHeldInv
<1>7. EFailure'
  BY <1>1 DEF EFailure
<1>8. EBatchInv'
  BY <1>1, <1>2, <1>7 DEF EBatchInv
<1> QED
  BY <1>4, <1>5, <1>6, <1>8

(* Receiving a reply keeps it: its vectors go to their slots.               *)
LEMMA EReceive == ASSUME E!EmbeddingAssumption, EInv, E!Receive PROVE EInv'
<1> USE DEF EInv
<1>0. call = "batch"
  BY DEF E!Receive, EShape
<1>1. /\ UNCHANGED <<call, next, flying, failed, producer, item, unsent>>
      /\ caller = "recv" /\ chan # <<>> /\ chan' = Tail(chan)
  BY DEF E!Receive
<1>2. PICK r : r = Head(chan)
  OBVIOUS
<1>3. r \in EHeld /\ EHeld = EHeld' \cup {r}
  BY <1>1, <1>2, EHeldReceive DEF ETypeOK
<1>4. r \in EReply /\ chan' \in Seq(EReply)
  BY <1>1, <1>2 DEF ETypeOK
<1>5. EHeldInv'
  BY <1>1, <1>3 DEF EHeldInv
<1>6. EOnlyTexts' /\ ETextsInv'
  BY <1>0, <1>1 DEF EOnlyTexts, ETextsInv
<1>7. CASE r.err
  <2>1. caller' = "error" /\ ctx' = "done" /\ out' = out
    BY <1>2, <1>7 DEF E!Receive
  <2>2. ETypeOK'
    BY <1>1, <1>4, <2>1 DEF ETypeOK
  <2>3. EShape'
    BY <1>0, <1>1, <2>1 DEF EShape
  <2>4. EBatchInv'
    BY <1>1, <2>1 DEF EBatchInv, EFailure
  <2> QED
    BY <1>5, <1>6, <2>2, <2>3, <2>4
<1>8. CASE ~r.err
  <2>1. caller' = caller /\ ctx' = ctx /\ out' = E!Fill(out, r)
    BY <1>2, <1>8 DEF E!Receive
  <2>2. /\ out' \in [1 .. NTexts -> Nat]
        /\ \A i \in 1 .. NTexts : /\ out'[i] \in {i, out[i]}
                                  /\ i \in r.start .. r.start + r.n - 1 => out'[i] = i
    BY <1>4, <2>1, EFill DEF ETypeOK
  <2>3. \A i \in 1 .. NTexts : out'[i] \in {0, i}
    BY <2>2 DEF ETypeOK
  <2>4. ETypeOK'
    BY <1>1, <1>4, <2>1, <2>2, <2>3 DEF ETypeOK
  <2>5. EShape'
    BY <1>0, <1>1, <2>1 DEF EShape
  <2>6. \A i \in 1 .. NTexts : EFilled(i) => EFilled(i)'
    BY <1>1, <2>2 DEF EFilled
  <2>7. \A i \in r.start .. E!EndOf(r.start) : i \in 1 .. NTexts => EFilled(i)'
    <3>1. \A i \in r.start + r.n .. E!EndOf(r.start) : i \in unsent
      BY <1>3, <1>8 DEF EHeldInv
    <3>2. r.start \in Nat /\ r.n \in Nat /\ E!EndOf(r.start) \in Int
      BY <1>4, EEndOf DEF EReply, E!EmbeddingAssumption
    <3> SUFFICES ASSUME NEW i \in r.start .. E!EndOf(r.start), i \in 1 .. NTexts PROVE EFilled(i)'
      OBVIOUS
    <3>3. CASE i < r.start + r.n
      <4>1. i \in r.start .. r.start + r.n - 1
        BY <3>2, <3>3
      <4> QED
        BY <2>2, <4>1 DEF EFilled
    <3>4. CASE ~(i < r.start + r.n)
      <4>1. i \in unsent
        BY <3>1, <3>2, <3>4
      <4> QED
        BY <1>1, <2>3, <4>1 DEF EFilled
    <3> QED
      BY <3>3, <3>4
  <2>8. EFailure' \/ EAccounted'
    <3>1. CASE EFailure
      BY <1>3, <1>8, <2>1, <3>1 DEF EFailure
    <3>2. CASE EAccounted
      BY <1>1, <1>3, <2>6, <2>7, <3>2 DEF EAccounted
    <3> QED
      BY <1>0, <3>1, <3>2 DEF EBatchInv
  <2>9. EFailure => EFailure'
    BY <1>3, <1>8, <2>1 DEF EFailure
  <2>10. EBatchInv'
    BY <1>0, <1>1, <2>1, <2>3, <2>8, <2>9 DEF EBatchInv
  <2> QED
    BY <1>5, <1>6, <2>4, <2>5, <2>10
<1> QED
  BY <1>7, <1>8

(* The end of the channel keeps it.                                         *)
LEMMA EDrained == ASSUME E!EmbeddingAssumption, EInv, E!Drained PROVE EInv'
<1> USE DEF EInv
<1>0. call = "batch"
  BY DEF E!Drained, EShape
<1>1. /\ UNCHANGED <<call, next, out, flying, failed, producer, item, chan, unsent>>
      /\ caller = "recv" /\ chan = <<>> /\ producer = "closed"
      /\ caller' = IF ctx = "done" THEN "error" ELSE "ok"
      /\ ctx' = "done"
  BY DEF E!Drained
<1>2. EHeld = {} /\ EHeld' = EHeld
  BY <1>1, EHeldUnchanged DEF EHeld, EHeldInv
<1>3. ctx # "done" => next > NTexts /\ EAccounted
  BY <1>0, <1>1, <1>2 DEF EBatchInv, EFailure
<1>4. ctx # "done" => \A i \in 1 .. NTexts : EFilled(i)
  BY <1>2, <1>3 DEF EAccounted, ETypeOK, E!EmbeddingAssumption
<1>5. ETypeOK' /\ EOnlyTexts' /\ ETextsInv'
  BY <1>0, <1>1 DEF ETypeOK, EOnlyTexts, ETextsInv
<1>6. EShape'
  BY <1>0, <1>1, <1>3 DEF EShape
<1>7. EHeldInv'
  BY <1>1, <1>2 DEF EHeldInv
<1>8. EBatchInv'
  BY <1>0, <1>1, <1>4, EFilledStays DEF EBatchInv, EFailure
<1> QED
  BY <1>5, <1>6, <1>7, <1>8

(* The end of the context keeps it.                                         *)
LEMMA ECancel == ASSUME E!EmbeddingAssumption, EInv, E!Cancel PROVE EInv'
<1> USE DEF E!Cancel, EInv
<1>1. EHeld' = EHeld
  BY EHeldUnchanged
<1>2. ETypeOK' /\ EOnlyTexts' /\ ETextsInv'
  BY DEF ETypeOK, EOnlyTexts, ETextsInv
<1>3. EShape'
  BY DEF EShape
<1>4. EHeldInv'
  BY <1>1 DEF EHeldInv
<1>5. EBatchInv'
  BY DEF EBatchInv, EFailure, EFilled
<1> QED
  BY <1>2, <1>3, <1>4, <1>5

(* A stuttering step keeps it.                                              *)
LEMMA EStutters == ASSUME EInv, UNCHANGED E!vars PROVE EInv'
<1>1. EHeld' = EHeld
  BY EHeldUnchanged DEF E!vars
<1>2. ETypeOK' /\ EShape' /\ EOnlyTexts'
  BY DEF EInv, E!vars, ETypeOK, EShape, EOnlyTexts
<1>3. EHeldInv' /\ ETextsInv'
  BY <1>1 DEF EInv, E!vars, EHeldInv, ETextsInv
<1>4. EBatchInv'
  BY <1>1 DEF EInv, E!vars, EBatchInv, EFailure, EAccounted, EFilled
<1> QED
  BY <1>2, <1>3, <1>4 DEF EInv

-----------------------------------------------------------------------------
(* The invariant of the embedder, for every call.                           *)
LEMMA EInductive == E!Spec => []EInv
<1>1. E!Init => EInv
  BY EInit, RetrievalAssumption
<1>2. EInv /\ [E!Next]_(E!vars) => EInv'
  BY EEmbedTexts, ESpawn, EBatchEnds, EWaited, EEmbedBatch, EAsk, ESend, EGiveUp, EReceive, EDrained,
     ECancel, EStutters, RetrievalAssumption DEF E!Next
<1> QED
  BY <1>1, <1>2, PTL DEF E!Spec

(* A call of EmbedTexts without error has the vector of every text in that  *)
(* text's slot; one of EmbedBatch has it for every text but those that the  *)
(* server left out of an answer.                                            *)
THEOREM EmbeddingOkMeansEverySlot == E!Spec => []OkMeansEverySlot
<1>1. EInv => OkMeansEverySlot
  <2> SUFFICES ASSUME EInv, caller = "ok", NEW i \in 1 .. NTexts
               PROVE  out[i] = i \/ (call = "batch" /\ i \in unsent /\ out[i] = 0)
    BY DEF OkMeansEverySlot, E!OkMeansEverySlot
  <2>1. CASE call = "texts"
    <3>1. next > NTexts /\ flying \cup failed = {}
      BY <2>1 DEF EInv, EShape
    <3>2. i < next
      BY <3>1, RetrievalAssumption DEF RetrievalAssumption, E!EmbeddingAssumption, EInv, ETypeOK
    <3> QED
      BY <2>1, <3>1, <3>2 DEF EInv, ETextsInv
  <2>2. CASE call = "batch"
    BY <2>2 DEF EInv, EBatchInv, EFilled
  <2>3. call # "none"
    BY DEF EInv, EShape
  <2> QED
    BY <2>1, <2>2, <2>3 DEF EInv, ETypeOK
<1> QED
  BY <1>1, EInductive, PTL

-----------------------------------------------------------------------------
(* The embedder comes to its end.                                            *)

EEnded == caller \in {"ok", "error"} /\ flying = {} /\ producer \in {"none", "closed"}

(* What each goroutine of a call can go on with.                             *)
ECanGoOn ==
    \/ call = "texts" /\ caller = "spawn" /\ (next > NTexts \/ Cardinality(flying) < Concurrency)
    \/ flying # {}
    \/ call = "texts" /\ caller = "wait" /\ flying = {}
    \/ producer = "ask"
    \/ producer = "send" /\ (Len(chan) < ChanCap \/ ctx = "done")
    \/ caller = "recv" /\ (chan # <<>> \/ producer = "closed")

(* As long as anybody is left, somebody has a step that is neither the      *)
(* caller's cancellation nor another call: the places in sem, the channel   *)
(* and wg.Wait never have everyone wait for everyone.                       *)
ENobodyStuck == call # "none" /\ ~EEnded => ECanGoOn

ECallerRank ==
    CASE caller = "idle" -> 3
      [] caller = "spawn" -> 2
      [] caller \in {"wait", "recv"} -> 1
      [] OTHER -> 0

EProducerRank ==
    CASE producer = "send" -> 3
      [] producer = "ask" -> 1
      [] OTHER -> 0

ECtxRank == IF ctx = "live" THEN 1 ELSE 0

(* What is left of a call: three steps at most for each text that no batch   *)
(* was begun for, and those of the goroutines, the channel and the context. *)
EWork ==
    3 * (NTexts + 1 - next) + Cardinality(flying) + Len(chan) + ECallerRank + EProducerRank + ECtxRank

(* The texts that were begun are of the request.                             *)
ENextInv == next <= NTexts + 1 /\ caller \in {"idle", "spawn", "recv", "wait", "ok", "error"}

(* A batch or chunk begins after the last and ends with the last text.      *)
LEMMA ENextBound ==
    ASSUME EInv, next <= NTexts
    PROVE  /\ next \in 1 .. NTexts /\ E!EndOf(next) \in next .. NTexts
           /\ NTexts \in Nat /\ next \in Nat
<1>1. next \in 1 .. NTexts /\ NTexts \in Nat
  BY RetrievalAssumption DEF RetrievalAssumption, E!EmbeddingAssumption, EInv, ETypeOK
<1> QED
  BY <1>1, EEndOf, RetrievalAssumption DEF RetrievalAssumption

(* No step goes beyond the last text.                                       *)
LEMMA ENextStep == EInv /\ ENextInv /\ [E!Next]_(E!vars) => ENextInv'
<1> SUFFICES ASSUME EInv, ENextInv, [E!Next]_(E!vars) PROVE ENextInv'
  OBVIOUS
<1>a. next \in Nat /\ NTexts \in Nat
  BY RetrievalAssumption DEF RetrievalAssumption, E!EmbeddingAssumption, EInv, ETypeOK
<1>b. ASSUME next' = IF next > NTexts THEN next ELSE E!EndOf(next) + 1
      PROVE  next' <= NTexts + 1
  <2>1. CASE next > NTexts
    BY <1>b, <2>1 DEF ENextInv
  <2>2. CASE next <= NTexts
    <3>1. E!EndOf(next) \in next .. NTexts
      BY <2>2, ENextBound
    <3>2. next' = E!EndOf(next) + 1
      BY <1>a, <1>b, <2>2
    <3> QED
      BY <1>a, <3>1, <3>2
  <2> QED
    BY <1>a, <2>1, <2>2
<1>1. CASE E!Spawn
  <2>1. next' = IF next > NTexts THEN next ELSE E!EndOf(next) + 1
    BY <1>1 DEF E!Spawn
  <2>2. caller' \in {"spawn", "wait"}
    BY <1>1 DEF E!Spawn
  <2> QED
    BY <1>b, <2>1, <2>2 DEF ENextInv
<1>2. CASE E!Ask
  <2>1. (next' = IF next > NTexts THEN next ELSE E!EndOf(next) + 1) /\ caller' = caller
    BY <1>2 DEF E!Ask
  <2> QED
    BY <1>b, <2>1 DEF ENextInv
<1> QED
  BY <1>1, <1>2 DEF E!Next, E!EmbedTexts, E!Waited, E!BatchEnds, E!EmbedBatch, E!Send, E!GiveUp,
     E!Receive, E!Drained, E!Cancel, E!vars, ENextInv

(* The invariant that the two theorems need.                                *)
LEMMA ENextInvariant == E!Spec => []ENextInv
<1>1. E!Init => ENextInv
  BY RetrievalAssumption DEF RetrievalAssumption, E!EmbeddingAssumption, E!Init, ENextInv
<1> QED
  BY <1>1, ENextStep, EInductive, PTL DEF E!Spec

(* For any number of texts, any batch size, any concurrency and any buffer, *)
(* no call of EmbedTexts or EmbedBatch gets stuck, whatever fails.          *)
THEOREM EmbeddingNeverStuck == E!Spec => []ENobodyStuck
<1>1. EInv /\ ENextInv => ENobodyStuck
  <2> SUFFICES ASSUME EInv, ENextInv, call # "none", ~EEnded, ~ECanGoOn PROVE FALSE
    BY DEF ENobodyStuck
  <2>1. Concurrency \in Nat \ {0} /\ ChanCap \in Nat \ {0} /\ NTexts \in Nat /\ next \in Nat
    BY RetrievalAssumption DEF RetrievalAssumption, E!EmbeddingAssumption, EInv, ETypeOK
  <2>2. flying = {} /\ Cardinality(flying) = 0
    BY FS_EmptySet DEF ECanGoOn
  <2>3. CASE call = "texts"
    BY <2>1, <2>2, <2>3 DEF EInv, EShape, ECanGoOn, EEnded
  <2>4. CASE call = "batch"
    <3>1. chan \in Seq(EReply)
      BY DEF EInv, ETypeOK
    <3>2. chan = <<>> => Len(chan) < ChanCap
      BY <2>1
    <3> QED
      BY <2>2, <2>4, <3>2 DEF EInv, EShape, ECanGoOn, EEnded
  <2> QED
    BY <2>3, <2>4 DEF EInv, EShape
<1> QED
  BY <1>1, EInductive, ENextInvariant, PTL

(* The numbers that the work is made of.                                    *)
ENumbers ==
    /\ NTexts \in Nat /\ next \in Nat /\ next >= 1 /\ next <= NTexts + 1
    /\ NTexts + 1 - next \in Nat
    /\ IsFiniteSet(flying) /\ Cardinality(flying) \in Nat /\ Len(chan) \in Nat
    /\ ECallerRank \in Nat /\ EProducerRank \in Nat /\ ECtxRank \in Nat
    /\ EWork \in Nat

(* They are numbers in every state of a call.                               *)
LEMMA EWorkTypes == EInv /\ ENextInv => ENumbers
<1> SUFFICES ASSUME EInv, ENextInv PROVE ENumbers
  OBVIOUS
<1>1. /\ NTexts \in Nat /\ next \in Nat \ {0} /\ next <= NTexts + 1
      /\ flying \subseteq 1 .. NTexts /\ chan \in Seq(EReply)
  BY RetrievalAssumption DEF RetrievalAssumption, E!EmbeddingAssumption, EInv, ETypeOK, ENextInv
<1>2. IsFiniteSet(flying) /\ Cardinality(flying) \in Nat
  <2>1. IsFiniteSet(1 .. NTexts)
    BY <1>1, FS_Interval
  <2> QED
    BY <1>1, <2>1, FS_Subset, FS_CardinalityType
<1>3. Len(chan) \in Nat
  BY <1>1
<1>4. ECallerRank \in Nat /\ EProducerRank \in Nat /\ ECtxRank \in Nat
  BY DEF ECallerRank, EProducerRank, ECtxRank
<1>5. NTexts + 1 - next \in Nat /\ next >= 1
  BY <1>1
<1>6. EWork \in Nat
  BY <1>1, <1>2, <1>3, <1>4, <1>5 DEF EWork
<1> QED
  BY <1>1, <1>2, <1>3, <1>4, <1>5, <1>6 DEF ENumbers

(* A step of a call, by the numbers: the sum gets smaller.                  *)
LEMMA EWorkStep == EInv /\ ENextInv /\ EInv' /\ ENextInv' /\ E!Next => EWork' < EWork
<1>a. EInv' /\ ENextInv' => ENumbers'
  BY EWorkTypes, PTL
<1> SUFFICES ASSUME EInv, ENextInv, EInv', ENextInv', E!Next PROVE EWork' < EWork
  OBVIOUS
<1>b. ENumbers /\ ENumbers'
  BY <1>a, EWorkTypes
<1>1. PICK n, m, k, c, p, x :
         /\ n = NTexts + 1 - next /\ m = Cardinality(flying) /\ k = Len(chan)
         /\ c = ECallerRank /\ p = EProducerRank /\ x = ECtxRank
  OBVIOUS
<1>2. PICK n1, m1, k1, c1, p1, x1 :
         /\ n1 = NTexts + 1 - next' /\ m1 = Cardinality(flying') /\ k1 = Len(chan')
         /\ c1 = ECallerRank' /\ p1 = EProducerRank' /\ x1 = ECtxRank'
  OBVIOUS
<1>n. /\ n \in Nat /\ m \in Nat /\ k \in Nat /\ c \in Nat /\ p \in Nat /\ x \in Nat
      /\ n1 \in Nat /\ m1 \in Nat /\ k1 \in Nat /\ c1 \in Nat /\ p1 \in Nat /\ x1 \in Nat
  BY <1>b, <1>1, <1>2 DEF ENumbers
<1>3. EWork = 3 * n + m + k + c + p + x /\ EWork' = 3 * n1 + m1 + k1 + c1 + p1 + x1
  BY <1>1, <1>2 DEF EWork
<1>4. SUFFICES 3 * n1 + m1 + k1 + c1 + p1 + x1 < 3 * n + m + k + c + p + x
  BY <1>3
<1>5. /\ next' = next => n1 = n
      /\ flying' = flying => m1 = m
      /\ chan' = chan => k1 = k
      /\ caller' = caller => c1 = c
      /\ producer' = producer => p1 = p
      /\ ctx' = ctx => x1 = x
  <2>1. /\ caller' = caller => ECallerRank' = ECallerRank
        /\ producer' = producer => EProducerRank' = EProducerRank
        /\ ctx' = ctx => ECtxRank' = ECtxRank
    BY DEF ECallerRank, EProducerRank, ECtxRank
  <2> QED
    BY <1>1, <1>2, <2>1
<1>6. ASSUME next <= NTexts, next' = E!EndOf(next) + 1 PROVE n1 <= n - 1
  BY <1>1, <1>2, <1>6, ENextBound
<1>7. CASE E!EmbedTexts
  <2>1. n1 = n /\ m1 = m /\ k1 = k /\ p1 = p /\ x1 = x /\ c = 3 /\ c1 = 2
    BY <1>1, <1>2, <1>5, <1>7 DEF E!EmbedTexts, EInv, EShape, ECallerRank
  <2> QED
    BY <1>n, <2>1
<1>8. CASE E!Spawn
  <2>1. k1 = k /\ p1 = p /\ x1 = x
    BY <1>5, <1>8 DEF E!Spawn
  <2>2. CASE next > NTexts
    <3>1. n1 = n /\ m1 = m /\ c = 2 /\ c1 = 1
      BY <1>1, <1>2, <1>5, <1>8, <2>2 DEF E!Spawn, ECallerRank
    <3> QED
      BY <1>n, <2>1, <3>1
  <2>3. CASE ~(next > NTexts)
    <3>1. n1 <= n - 1 /\ c1 = c
      BY <1>5, <1>6, <1>8, <1>b, <2>3 DEF ENumbers, E!Spawn
    <3>2. m1 <= m + 1
      <4>1. flying' = flying \cup {next}
        BY <1>8, <2>3 DEF E!Spawn
      <4>2. Cardinality(flying') = Cardinality(flying) \/ Cardinality(flying') = Cardinality(flying) + 1
        BY <1>b, <4>1, FS_AddElement DEF ENumbers
      <4> QED
        BY <1>1, <1>2, <1>n, <4>2
    <3> QED
      BY <1>n, <2>1, <3>1, <3>2
  <2> QED
    BY <2>2, <2>3
<1>9. ASSUME NEW b \in flying, E!BatchEnds(b)
      PROVE  3 * n1 + m1 + k1 + c1 + p1 + x1 < 3 * n + m + k + c + p + x
  <2>1. n1 = n /\ k1 = k /\ c1 = c /\ p1 = p /\ x1 = x /\ flying' = flying \ {b}
    BY <1>5, <1>9 DEF E!BatchEnds
  <2>2. m1 = m - 1
    <3>1. IsFiniteSet(flying)
      BY <1>b DEF ENumbers
    <3> QED
      BY <1>1, <1>2, <2>1, <3>1, FS_RemoveElement
  <2> QED
    BY <1>n, <2>1, <2>2
<1>10. CASE E!Waited
  <2>1. n1 = n /\ m1 = m /\ k1 = k /\ p1 = p /\ x1 = x /\ c = 1 /\ c1 = 0
    BY <1>1, <1>2, <1>5, <1>10 DEF E!Waited, ECallerRank
  <2> QED
    BY <1>n, <2>1
<1>11. CASE E!EmbedBatch
  <2>1. n1 = n /\ m1 = m /\ k1 = k /\ x1 = x /\ c = 3 /\ c1 = 1 /\ p = 0 /\ p1 = 1
    BY <1>1, <1>2, <1>5, <1>11 DEF E!EmbedBatch, EInv, EShape, ECallerRank, EProducerRank
  <2> QED
    BY <1>n, <2>1
<1>12. CASE E!Ask
  <2>1. m1 = m /\ k1 = k /\ c1 = c /\ x1 = x /\ p = 1
    BY <1>1, <1>5, <1>12 DEF E!Ask, EProducerRank
  <2>2. CASE next > NTexts
    <3>1. n1 = n /\ p1 = 0
      BY <1>2, <1>5, <1>12, <2>2 DEF E!Ask, EProducerRank
    <3> QED
      BY <1>n, <2>1, <3>1
  <2>3. CASE ~(next > NTexts)
    <3>1. n1 <= n - 1 /\ p1 = 3
      BY <1>2, <1>6, <1>12, <1>b, <2>3 DEF ENumbers, E!Ask, EProducerRank
    <3> QED
      BY <1>n, <2>1, <3>1
  <2> QED
    BY <2>2, <2>3
<1>13. CASE E!Send
  <2>1. n1 = n /\ m1 = m /\ c1 = c /\ x1 = x /\ p = 3 /\ p1 <= 1
    BY <1>1, <1>2, <1>5, <1>13 DEF E!Send, EProducerRank
  <2>2. k1 = k + 1
    <3>1. chan' = chan \o item /\ chan \in Seq(EReply) /\ item \in Seq(EReply) /\ Len(item) = 1
      BY <1>13 DEF E!Send, EInv, ETypeOK, EShape
    <3>2. Len(chan \o item) = Len(chan) + Len(item)
      BY <3>1, ConcatProperties
    <3>3. Len(chan') = Len(chan) + 1
      BY <3>1, <3>2
    <3> QED
      BY <1>1, <1>2, <3>3
  <2> QED
    BY <1>n, <2>1, <2>2
<1>14. CASE E!GiveUp
  <2>1. n1 = n /\ m1 = m /\ k1 = k /\ c1 = c /\ x1 = x /\ p = 3 /\ p1 = 0
    BY <1>1, <1>2, <1>5, <1>14 DEF E!GiveUp, EProducerRank
  <2> QED
    BY <1>n, <2>1
<1>15. CASE E!Receive
  <2>1. n1 = n /\ m1 = m /\ p1 = p /\ c1 <= c /\ x1 <= x
    BY <1>1, <1>2, <1>5, <1>15 DEF E!Receive, ECallerRank, ECtxRank
  <2>2. k1 = k - 1
    <3>1. chan' = Tail(chan) /\ chan \in Seq(EReply) /\ chan # <<>>
      BY <1>15 DEF E!Receive, EInv, ETypeOK
    <3> QED
      BY <1>1, <1>2, <3>1
  <2> QED
    BY <1>n, <2>1, <2>2
<1>16. CASE E!Drained
  <2>1. n1 = n /\ m1 = m /\ k1 = k /\ p1 = p /\ c = 1 /\ c1 = 0 /\ x1 <= x
    BY <1>1, <1>2, <1>5, <1>16 DEF E!Drained, ECallerRank, ECtxRank
  <2> QED
    BY <1>n, <2>1
<1>17. CASE E!Cancel
  <2>1. n1 = n /\ m1 = m /\ k1 = k /\ c1 = c /\ p1 = p /\ x = 1 /\ x1 = 0
    BY <1>1, <1>2, <1>5, <1>17 DEF E!Cancel, ECtxRank
  <2> QED
    BY <1>n, <2>1
<1> QED
  BY <1>7, <1>8, <1>9, <1>10, <1>11, <1>12, <1>13, <1>14, <1>15, <1>16, <1>17 DEF E!Next

(* A call is over after 3 * NTexts + 4 steps at most: its work is a number  *)
(* within that bound, and every step of any goroutine takes from it.        *)
THEOREM EmbeddingStepsRunOut ==
    E!Spec => [](EWork \in 0 .. 3 * NTexts + 4) /\ [][EWork' < EWork]_(E!vars)
<1> DEFINE Bounded == EWork \in 0 .. 3 * NTexts + 4
           Less == EWork' < EWork
<1>1. E!Init => Bounded
  <2> SUFFICES ASSUME E!Init PROVE Bounded
    OBVIOUS
  <2>1. next = 1 /\ Cardinality(flying) = 0 /\ Len(chan) = 0 /\ NTexts \in Nat
    BY FS_EmptySet, RetrievalAssumption DEF RetrievalAssumption, E!EmbeddingAssumption, E!Init
  <2>2. ECallerRank = 3 /\ EProducerRank = 0 /\ ECtxRank = 1
    BY DEF E!Init, ECallerRank, EProducerRank, ECtxRank
  <2> QED
    BY <2>1, <2>2 DEF EWork
<1>2. EInv /\ ENextInv /\ EInv' /\ ENextInv' /\ [E!Next]_(E!vars) => [Less]_(E!vars)
  BY EWorkStep
<1>n. EInv' /\ ENextInv' => ENumbers'
  BY EWorkTypes, PTL
<1>3. Bounded /\ EInv /\ ENextInv /\ EInv' /\ ENextInv' /\ [E!Next]_(E!vars) => Bounded'
  <2> SUFFICES ASSUME Bounded, EInv, ENextInv, EInv', ENextInv', [E!Next]_(E!vars) PROVE Bounded'
    OBVIOUS
  <2>1. EWork \in Nat /\ EWork' \in Nat /\ NTexts \in Nat
    BY <1>n, EWorkTypes DEF ENumbers
  <2>2. EWork' <= EWork
    <3>1. CASE E!Next
      BY <2>1, <3>1, EWorkStep
    <3>2. CASE UNCHANGED E!vars
      <4>1. EWork' = EWork
        BY <3>2 DEF E!vars, EWork, ECallerRank, EProducerRank, ECtxRank
      <4> QED
        BY <2>1, <4>1
    <3> QED
      BY <3>1, <3>2
  <2> QED
    BY <2>1, <2>2
<1> HIDE DEF Bounded, Less
<1>4. E!Spec => []Bounded /\ [][Less]_(E!vars)
  BY <1>1, <1>2, <1>3, EInductive, ENextInvariant, PTL DEF E!Spec
<1> QED
  BY <1>4 DEF Bounded, Less

-----------------------------------------------------------------------------
(* The search.                                                               *)

(* Relationships, and those that have an end in the set N.                   *)
ARels == [s : Entities, t : Entities, doc : Docs]
ATouching(R, N) == {r \in R : S!Ends(r) \cap N # {}}

AWalks == [hop : Nat, frontier : SUBSET Entities, visited : SUBSET Entities, seenRel : SUBSET ARels]

ATypeOK ==
    /\ rels \subseteq ARels /\ IsFiniteSet(rels) /\ before \subseteq rels
    /\ docIDs \subseteq Docs /\ depth \in Nat
    /\ ranked \in Seq(Entities) /\ walk \in AWalks
    /\ answer \in [entities : Seq(Entities), rels : SUBSET ARels]

(* The entity whose walk goes on, and those whose walk is in the answer.     *)
ARoot == answer.entities[Len(answer.entities)]
ADone == IF pc = "hop" THEN walked \ {ARoot} ELSE walked

(* Nothing has been found before the hits are there.                         *)
AIdle ==
    pc = "idle" => /\ ranked = <<>> /\ seen = {} /\ lost = {} /\ walked = {}
                   /\ answer.entities = <<>> /\ answer.rels = {}

(* What is in the answer, or was passed over, belongs to the documents.      *)
AScoped ==
    /\ \A k \in DOMAIN ranked : ranked[k] \in S!EntitiesForDocs(rels, docIDs)
    /\ seen = S!ToSet(answer.entities) \cup lost
    /\ seen \subseteq S!EntitiesForDocs(rels, docIDs)
    /\ S!IsInjective(answer.entities)
    /\ walked \subseteq S!ToSet(answer.entities)
    /\ answer.rels \subseteq S!InDocs(rels)
    /\ S!EndsOf(answer.rels) \subseteq seen

(* The walk that goes on: as long as nothing is inserted it has all that is  *)
(* as near as its hops.                                                      *)
AWalk ==
    pc = "hop" =>
        /\ answer.entities # <<>> /\ ARoot \in walked /\ walk.hop \in 0 .. depth
        /\ walk.seenRel \subseteq S!InDocs(rels)
        /\ before = rels =>
               /\ walk.visited = S!Near(S!InDocs(rels), ARoot, walk.hop)
               /\ walk.seenRel = S!Ball(S!InDocs(rels), ARoot, walk.hop)
               /\ walk.frontier = IF walk.hop = 0 THEN {ARoot}
                                  ELSE walk.visited \ S!Near(S!InDocs(rels), ARoot, walk.hop - 1)

AComplete ==
    before = rels => answer.rels = UNION {S!Ball(S!InDocs(rels), e, depth) : e \in ADone}

AInv ==
    /\ ATypeOK /\ AIdle /\ AScoped /\ AWalk /\ AComplete
    /\ S!PromptHasTheBest

(* What lies at an end of some relationship.                                *)
LEMMA AEndsOf ==
    ASSUME NEW X, NEW x
    PROVE  x \in S!EndsOf(X) <=> \E r \in X : x = r.s \/ x = r.t
BY DEF S!EndsOf, S!Ends

(* The ends of a union are the union of the ends.                           *)
LEMMA AEndsUnion ==
    ASSUME NEW X, NEW Y
    PROVE  S!EndsOf(X \cup Y) = S!EndsOf(X) \cup S!EndsOf(Y)
BY DEF S!EndsOf

(* More relationships have more ends.                                       *)
LEMMA AEndsGrow ==
    ASSUME NEW Y, NEW X \in SUBSET Y
    PROVE  S!EndsOf(X) \subseteq S!EndsOf(Y)
BY DEF S!EndsOf

(* Ends of relationships are entities.                                      *)
LEMMA AEndsType == ASSUME NEW X \in SUBSET ARels PROVE S!EndsOf(X) \subseteq Entities
BY AEndsOf DEF ARels

(* With no hop only the entity itself is reached.                           *)
LEMMA ANearZero == ASSUME NEW R, NEW e \in Entities PROVE S!Near(R, e, 0) = {e}
<1> DEFINE p == [k \in 0 .. 0 |-> e]
<1>1. p \in S!Path(R, e, 0) /\ p[0] = e
  BY DEF S!Path
<1>2. \A q \in S!Path(R, e, 0) : q[0] = e
  BY DEF S!Path
<1> QED
  BY <1>1, <1>2 DEF S!Near

(* A path can be made longer by a stay or by a relationship.                *)
LEMMA APathGrows ==
    ASSUME NEW R, NEW e, NEW d \in Nat, NEW p \in S!Path(R, e, d), NEW x \in Entities,
           x = p[d] \/ \E r \in R : {p[d], x} \subseteq S!Ends(r)
    PROVE  x \in S!Near(R, e, d + 1)
<1> DEFINE q == [k \in 0 .. (d + 1) |-> IF k = d + 1 THEN x ELSE p[k]]
<1>1. p \in [0 .. d -> Entities] /\ p[0] = e
  BY DEF S!Path
<1>2. q \in [0 .. (d + 1) -> Entities] /\ q[0] = e /\ q[d + 1] = x
  BY <1>1
<1>3. \A k \in 1 .. (d + 1) :
          q[k] = q[k - 1] \/ \E r \in R : {q[k - 1], q[k]} \subseteq S!Ends(r)
  <2> TAKE k \in 1 .. (d + 1)
  <2>1. CASE k = d + 1
    <3>1. q[k] = x /\ q[k - 1] = p[d]
      BY <2>1
    <3> HIDE DEF q
    <3> QED
      BY <3>1
  <2>2. CASE k # d + 1
    <3>1. k \in 1 .. d /\ q[k] = p[k] /\ q[k - 1] = p[k - 1]
      BY <2>2
    <3>2. p[k] = p[k - 1] \/ \E r \in R : {p[k - 1], p[k]} \subseteq S!Ends(r)
      BY <3>1 DEF S!Path
    <3> HIDE DEF q
    <3> QED
      BY <3>1, <3>2
  <2> QED
    BY <2>1, <2>2
<1>4. q \in S!Path(R, e, d + 1)
  <2> HIDE DEF q
  <2> QED
    BY <1>2, <1>3 DEF S!Path
<1> QED
  BY <1>2, <1>4 DEF S!Near

(* A path begins with a shorter one.                                        *)
LEMMA APathBegins ==
    ASSUME NEW R, NEW e, NEW d \in Nat, NEW p \in S!Path(R, e, d + 1)
    PROVE  /\ p[d] \in S!Near(R, e, d)
           /\ p[d + 1] \in Entities
           /\ p[d + 1] = p[d] \/ \E r \in R : {p[d], p[d + 1]} \subseteq S!Ends(r)
<1> DEFINE q == [k \in 0 .. d |-> p[k]]
<1>1. /\ p \in [0 .. (d + 1) -> Entities] /\ p[0] = e
      /\ \A k \in 1 .. (d + 1) :
             p[k] = p[k - 1] \/ \E r \in R : {p[k - 1], p[k]} \subseteq S!Ends(r)
  BY DEF S!Path
<1>2. d + 1 \in 1 .. (d + 1) /\ (d + 1) - 1 = d /\ d + 1 \in 0 .. (d + 1)
  OBVIOUS
<1>3. q \in [0 .. d -> Entities] /\ q[0] = e /\ q[d] = p[d]
  BY <1>1
<1>4. \A k \in 1 .. d : q[k] = q[k - 1] \/ \E r \in R : {q[k - 1], q[k]} \subseteq S!Ends(r)
  <2> TAKE k \in 1 .. d
  <2>1. q[k] = p[k] /\ q[k - 1] = p[k - 1] /\ k \in 1 .. (d + 1)
    OBVIOUS
  <2> HIDE DEF q
  <2> QED
    BY <1>1, <2>1
<1>5. q \in S!Path(R, e, d)
  <2> HIDE DEF q
  <2> QED
    BY <1>3, <1>4 DEF S!Path
<1>6. p[d] \in S!Near(R, e, d)
  BY <1>3, <1>5 DEF S!Near
<1>7. p[d + 1] = p[d] \/ \E r \in R : {p[d], p[d + 1]} \subseteq S!Ends(r)
  BY <1>1, <1>2
<1> QED
  BY <1>1, <1>2, <1>6, <1>7

(* One hop more adds the ends of the relationships at what was near.        *)
LEMMA ANearStep ==
    ASSUME NEW R \in SUBSET ARels, NEW e, NEW d \in Nat
    PROVE  S!Near(R, e, d + 1) =
               S!Near(R, e, d) \cup S!EndsOf(ATouching(R, S!Near(R, e, d)))
<1> DEFINE N == S!Near(R, e, d)
           T == ATouching(R, N)
<1>1. ASSUME NEW x \in S!Near(R, e, d + 1) PROVE x \in N \cup S!EndsOf(T)
  <2>1. PICK p \in S!Path(R, e, d + 1) : x = p[d + 1]
    BY DEF S!Near
  <2>2. p[d] \in N /\ (x = p[d] \/ \E r \in R : {p[d], x} \subseteq S!Ends(r))
    BY <2>1, APathBegins
  <2>3. ASSUME NEW r \in R, {p[d], x} \subseteq S!Ends(r) PROVE x \in S!EndsOf(T)
    BY <2>2, <2>3 DEF ATouching, S!EndsOf
  <2> QED
    BY <2>2, <2>3
<1>2. ASSUME NEW x \in N PROVE x \in S!Near(R, e, d + 1)
  <2>1. PICK p \in S!Path(R, e, d) : x = p[d]
    BY DEF S!Near
  <2>2. x \in Entities
    BY <2>1 DEF S!Path
  <2> QED
    BY <2>1, <2>2, APathGrows
<1>3. ASSUME NEW x \in S!EndsOf(T) PROVE x \in S!Near(R, e, d + 1)
  <2>1. PICK r \in T : x \in S!Ends(r)
    BY DEF S!EndsOf
  <2>2. PICK y \in N : y \in S!Ends(r)
    BY DEF ATouching
  <2>3. PICK p \in S!Path(R, e, d) : y = p[d]
    BY DEF S!Near
  <2>4. r \in R /\ x \in Entities
    BY <2>1 DEF ATouching, ARels, S!Ends
  <2>5. {p[d], x} \subseteq S!Ends(r)
    BY <2>1, <2>2, <2>3
  <2> QED
    BY <2>3, <2>4, <2>5, APathGrows
<1> QED
  BY <1>1, <1>2, <1>3

(* A set of numbers has a least one.                                       *)
LEMMA LeastNat ==
    ASSUME NEW P \in SUBSET Nat, P # {}
    PROVE  \E m \in P : \A k \in P : m <= k
<1> DEFINE R == {e \in Nat \X Nat : e[1] < e[2]}
<1>1. IsWellFoundedOn(R, Nat)
  BY NatLessThanWellFounded, Zenon DEF OpToRel
<1>2. PICK m \in P : \A k \in P : ~(<<k, m>> \in R)
  <2> HIDE DEF R
  <2> QED
    BY <1>1, WFMin
<1>3. \A k \in P : m <= k
  <2> TAKE k \in P
  <2>1. <<k, m>> \in Nat \X Nat /\ <<k, m>>[1] = k /\ <<k, m>>[2] = m
    OBVIOUS
  <2>2. ~(k < m)
    BY <1>2, <2>1
  <2> QED
    BY <2>1, <2>2
<1> QED
  BY <1>3

(* Once a hop adds nothing, none adds anything any more.                    *)
LEMMA ANearStops ==
    ASSUME NEW R \in SUBSET ARels, NEW e, NEW h \in Nat,
           S!Near(R, e, h + 1) = S!Near(R, e, h),
           NEW d \in Nat, h <= d
    PROVE  S!Near(R, e, d) = S!Near(R, e, h)
<1> DEFINE P == {k \in Nat : h <= k /\ S!Near(R, e, k) # S!Near(R, e, h)}
<1> SUFFICES ASSUME P # {} PROVE FALSE
  OBVIOUS
<1>1. PICK m \in P : \A k \in P : m <= k
  <2> P \in SUBSET Nat
    OBVIOUS
  <2> HIDE DEF P
  <2> QED
    BY LeastNat
<1>2. m # h /\ m \in Nat /\ h <= m
  OBVIOUS
<1>3. PICK k \in Nat : m = k + 1 /\ h <= k
  <2> HIDE DEF P
  <2>1. m - 1 \in Nat /\ m = (m - 1) + 1 /\ h <= m - 1
    BY <1>2
  <2> QED
    BY <2>1
<1>4. k \notin P
  <2> HIDE DEF P
  <2> QED
    BY <1>1, <1>3
<1>5. S!Near(R, e, k) = S!Near(R, e, h)
  BY <1>3, <1>4
<1>6. S!Near(R, e, k + 1) = S!Near(R, e, h + 1)
  <2>1. S!Near(R, e, k + 1) = S!Near(R, e, k) \cup S!EndsOf(ATouching(R, S!Near(R, e, k)))
    BY ANearStep
  <2>2. S!Near(R, e, h + 1) = S!Near(R, e, h) \cup S!EndsOf(ATouching(R, S!Near(R, e, h)))
    BY ANearStep
  <2> QED
    BY <1>5, <2>1, <2>2, Zenon
<1> QED
  BY <1>3, <1>6

(* The relationships within a hop or more touch what is a hop less away.    *)
LEMMA ABall ==
    ASSUME NEW R, NEW e, NEW d \in Nat
    PROVE  /\ S!Ball(R, e, 0) = {}
           /\ S!Ball(R, e, d + 1) = ATouching(R, S!Near(R, e, d))
<1>1. d + 1 # 0 /\ (d + 1) - 1 = d
  OBVIOUS
<1> QED
  BY <1>1 DEF S!Ball, ATouching

(* A hop from the frontier finds what a hop from all that is near finds: it *)
(* is the frontier alone that has not been walked from.                     *)
LEMMA AHopReaches ==
    ASSUME NEW R \in SUBSET ARels, NEW e \in Entities, NEW h \in Nat, NEW F,
           h = 0 => F = {e},
           h # 0 => F = S!Near(R, e, h) \ S!Near(R, e, h - 1)
    PROVE  /\ S!Near(R, e, h + 1) = S!Near(R, e, h) \cup S!EndsOf(ATouching(R, F))
           /\ S!Ball(R, e, h + 1) = S!Ball(R, e, h) \cup ATouching(R, F)
<1>1. CASE h = 0
  <2>1. F = S!Near(R, e, h)
    BY <1>1, ANearZero
  <2>2. S!Near(R, e, h + 1) = S!Near(R, e, h) \cup S!EndsOf(ATouching(R, S!Near(R, e, h)))
    BY ANearStep
  <2>3. S!Ball(R, e, h + 1) = ATouching(R, S!Near(R, e, h)) /\ S!Ball(R, e, h) = {}
    BY <1>1, ABall
  <2> QED
    BY <2>1, <2>2, <2>3
<1>2. CASE h # 0
  <2>1. PICK g \in Nat : h = g + 1 /\ g = h - 1
    <3>1. h - 1 \in Nat /\ h = (h - 1) + 1
      BY <1>2
    <3> QED
      BY <3>1
  <2> DEFINE M == S!Near(R, e, g)
             N == S!Near(R, e, h)
  <2>2. N = M \cup S!EndsOf(ATouching(R, M)) /\ S!Ball(R, e, h) = ATouching(R, M)
    BY <2>1, ANearStep, ABall
  <2>3. F = N \ M
    BY <1>2, <2>1
  <2>4. S!Near(R, e, h + 1) = N \cup S!EndsOf(ATouching(R, N)) /\ S!Ball(R, e, h + 1) = ATouching(R, N)
    BY ANearStep, ABall
  <2> HIDE DEF M, N
  <2>5. ATouching(R, N) = ATouching(R, M) \cup ATouching(R, F)
    BY <2>2, <2>3 DEF ATouching
  <2>6. S!EndsOf(ATouching(R, N)) = S!EndsOf(ATouching(R, M)) \cup S!EndsOf(ATouching(R, F))
    BY <2>5, AEndsUnion
  <2>7. N \cup S!EndsOf(ATouching(R, N)) = N \cup S!EndsOf(ATouching(R, F))
    BY <2>2, <2>6
  <2> QED
    BY <2>2, <2>4, <2>5, <2>7 DEF N
<1> QED
  BY <1>1, <1>2

(* A walk that has nowhere left to go has all there is, however deep.       *)
LEMMA AWalkIsOver ==
    ASSUME NEW R \in SUBSET ARels, NEW e \in Entities, NEW h \in Nat, NEW d \in Nat, h <= d,
           h = d \/ (h # 0 /\ S!Near(R, e, h) \subseteq S!Near(R, e, h - 1))
    PROVE  S!Ball(R, e, d) = S!Ball(R, e, h)
<1>1. CASE h = d
  BY <1>1
<1>2. CASE h # d /\ h # 0 /\ S!Near(R, e, h) \subseteq S!Near(R, e, h - 1)
  <2>1. PICK g \in Nat : h = g + 1 /\ g = h - 1
    <3>1. h - 1 \in Nat /\ h = (h - 1) + 1
      BY <1>2
    <3> QED
      BY <3>1
  <2>2. PICK c \in Nat : d = c + 1 /\ g <= c
    <3>1. d - 1 \in Nat /\ d = (d - 1) + 1 /\ g <= d - 1
      BY <2>1
    <3> QED
      BY <3>1
  <2>3. S!Near(R, e, g + 1) = S!Near(R, e, g)
    <3>1. S!Near(R, e, g) \subseteq S!Near(R, e, g + 1)
      BY ANearStep
    <3> QED
      BY <1>2, <2>1, <3>1
  <2>4. S!Near(R, e, c) = S!Near(R, e, g)
    BY <2>2, <2>3, ANearStops
  <2> QED
    BY <2>1, <2>2, <2>4, ABall
<1> QED
  BY <1>1, <1>2

-----------------------------------------------------------------------------
(* The library's operators in the instance are the ones this module knows.  *)
LEMMA SCardinality == ASSUME NEW X PROVE S!Cardinality(X) = Cardinality(X)
BY DEF S!Cardinality, Cardinality

(* So is being finite.                                                      *)
LEMMA SFinite == ASSUME NEW X PROVE S!IsFiniteSet(X) <=> IsFiniteSet(X)
BY DEF S!IsFiniteSet, IsFiniteSet

(* The lesser of two numbers.                                               *)
LEMMA AMin ==
    ASSUME NEW a \in Nat, NEW b \in Nat
    PROVE  S!Min({a, b}) = IF a <= b THEN a ELSE b
<1>1. \E x \in {a, b} : \A y \in {a, b} : x <= y
  OBVIOUS
<1>2. S!Min({a, b}) \in {a, b} /\ \A y \in {a, b} : S!Min({a, b}) <= y
  BY <1>1, Zenon DEF S!Min
<1> QED
  BY <1>2

(* An order of a finite set has all of it, once each.                       *)
LEMMA AOrders ==
    ASSUME NEW X, IsFiniteSet(X), NEW q \in S!Orders(X)
    PROVE  /\ q \in Seq(X) /\ Len(q) = Cardinality(X) /\ Len(q) \in Nat
           /\ \A i, j \in 1 .. Len(q) : q[i] = q[j] => i = j
           /\ S!ToSet(q) = X
<1> DEFINE n == Cardinality(X)
<1>1. n \in Nat
  BY FS_CardinalityType
<1>2. /\ q \in [1 .. n -> X]
      /\ \A i, j \in DOMAIN q : q[i] = q[j] => i = j
      /\ \A x \in X : \E i \in 1 .. n : q[i] = x
  BY SCardinality DEF S!Orders, S!Bijection, S!Injection, S!Surjection, S!IsInjective
<1> HIDE DEF n
<1>3. q \in Seq(X) /\ Len(q) = n /\ DOMAIN q = 1 .. n
  BY <1>1, <1>2
<1>4. S!ToSet(q) = X
  BY <1>2, <1>3 DEF S!ToSet
<1> QED
  BY <1>1, <1>2, <1>3, <1>4 DEF n

(* What sort.Slice makes of a finite domain is an order of it, the greatest *)
(* first.                                                                   *)
LEMMA ASorted ==
    ASSUME NEW f, IsFiniteSet(DOMAIN f), NEW q \in S!Sorted(f)
    PROVE  /\ q \in S!Orders(DOMAIN f) /\ q \in Seq(DOMAIN f) /\ Len(q) \in Nat
           /\ \A i, j \in 1 .. Len(q) : q[i] = q[j] => i = j
           /\ S!ToSet(q) = DOMAIN f
           /\ \A i, j \in 1 .. Len(q) : i < j => f[q[i]] >= f[q[j]]
<1>1. q \in S!Orders(DOMAIN f) /\ \A i, j \in DOMAIN q : i < j => f[q[i]] >= f[q[j]]
  BY DEF S!Sorted
<1>2. /\ q \in Seq(DOMAIN f) /\ Len(q) \in Nat /\ S!ToSet(q) = DOMAIN f
      /\ \A i, j \in 1 .. Len(q) : q[i] = q[j] => i = j
  BY <1>1, AOrders
<1>3. DOMAIN q = 1 .. Len(q)
  BY <1>2
<1> QED
  BY <1>1, <1>2, <1>3

(* The ends of finitely many relationships are finitely many.               *)
LEMMA AEndsFinite == ASSUME NEW X, IsFiniteSet(X) PROVE IsFiniteSet(S!EndsOf(X))
<1> DEFINE A == {r.s : r \in X}
           B == {r.t : r \in X}
           f == [r \in X |-> r.s]
           g == [r \in X |-> r.t]
<1>1. f \in Surjection(X, A) /\ g \in Surjection(X, B)
  BY DEF Surjection
<1>2. IsFiniteSet(A) /\ IsFiniteSet(B)
  <2> HIDE DEF f, g, A, B
  <2> QED
    BY <1>1, FS_Surjection
<1>3. S!EndsOf(X) = A \cup B
  BY AEndsOf
<1> QED
  BY <1>2, <1>3, FS_Union

(* An order of some entities is a sequence of entities.                     *)
LEMMA AOrdersOfEntities ==
    ASSUME NEW X \in SUBSET Entities, IsFiniteSet(X), NEW q \in S!Orders(X)
    PROVE  q \in Seq(Entities) /\ \A i \in 1 .. Len(q) : q[i] \in X
<1>1. q \in Seq(X)
  BY AOrders
<1>2. DOMAIN q = 1 .. Len(q) /\ \A i \in 1 .. Len(q) : q[i] \in X
  BY <1>1
<1> QED
  BY <1>1, <1>2

(* The first elements of a sequence are elements of it.                     *)
LEMMA AFirst ==
    ASSUME NEW X, NEW q \in Seq(X), NEW m \in Nat
    PROVE  \E p \in Seq(X) :
               /\ p = SubSeq(q, 1, S!Min({m, Len(q)}))
               /\ Len(p) = IF m <= Len(q) THEN m ELSE Len(q)
               /\ \A i \in 1 .. Len(p) : p[i] = q[i] /\ i \in 1 .. Len(q)
<1>1. PICK l \in Nat : l = S!Min({m, Len(q)}) /\ l = IF m <= Len(q) THEN m ELSE Len(q)
  <2>1. Len(q) \in Nat
    OBVIOUS
  <2> QED
    BY <2>1, AMin
<1>2. Len(q) \in Nat /\ l <= Len(q)
  BY <1>1
<1>3. PICK p : p = SubSeq(q, 1, l)
  OBVIOUS
<1>4. p \in Seq(X) /\ Len(p) = l /\ \A i \in 1 .. l : p[i] = q[i]
  <2>1. \A i \in 1 .. l : q[i] \in X
    BY <1>2
  <2> QED
    BY <1>3, <2>1, SubSeqProperties
<1>5. \A i \in 1 .. Len(p) : p[i] = q[i] /\ i \in 1 .. Len(q)
  BY <1>2, <1>4
<1> QED
  BY <1>1, <1>3, <1>4, <1>5

-----------------------------------------------------------------------------
(* The best communities are chosen: one that is left out has TopN others    *)
(* before it.                                                               *)
LEMMA ABestAreChosen ==
    ASSUME S!SearchAssumption, NEW X \in SUBSET Communities, NEW level \in {0, 1},
           S!GlobalSearch(X, level)
    PROVE  S!PromptHasTheBest'
<1> DEFINE asked == S!AtLevel(X, level)
           cands == S!Candidates(asked)
           f == [c \in cands |-> S!Score(c)]
<1>1. PICK q \in S!Sorted(f) : top' = {c \in S!ToSet(SubSeq(q, 1, S!Min({TopN, Len(q)}))) : c.summary}
  BY DEF S!GlobalSearch
<1>2. comms' = X /\ depth' = level /\ TopN \in Nat
  BY DEF S!GlobalSearch, S!SearchAssumption
<1>3. IsFiniteSet(cands) /\ DOMAIN f = cands /\ \A c \in cands : f[c] = S!Score(c)
  <2>1. cands \subseteq X
    BY DEF S!AtLevel, S!Candidates
  <2>2. IsFiniteSet(Communities)
    BY SFinite DEF S!SearchAssumption
  <2>3. IsFiniteSet(cands)
    BY <2>1, <2>2, FS_Subset
  <2> QED
    BY <2>3
<1> HIDE DEF f
<1>4. /\ q \in Seq(cands) /\ Len(q) \in Nat
      /\ \A i, j \in 1 .. Len(q) : q[i] = q[j] => i = j
      /\ S!ToSet(q) = cands
      /\ \A i, j \in 1 .. Len(q) : i < j => f[q[i]] >= f[q[j]]
  BY <1>1, <1>3, ASorted
<1> SUFFICES ASSUME NEW c \in asked, c.summary
             PROVE  \/ c \in top'
                    \/ Cardinality({d \in cands \ {c} : S!Score(d) >= S!Score(c)}) >= TopN
  BY <1>2, SCardinality DEF S!PromptHasTheBest
<1>5. c \in cands
  BY DEF S!Candidates
<1>6. PICK i \in 1 .. Len(q) : q[i] = c
  <2>1. DOMAIN q = 1 .. Len(q)
    BY <1>4
  <2> QED
    BY <1>4, <1>5, <2>1 DEF S!ToSet
<1>7. CASE i <= TopN
  <2>1. PICK p \in Seq(cands) :
            /\ p = SubSeq(q, 1, S!Min({TopN, Len(q)}))
            /\ Len(p) = IF TopN <= Len(q) THEN TopN ELSE Len(q)
            /\ \A j \in 1 .. Len(p) : p[j] = q[j] /\ j \in 1 .. Len(q)
    <3>1. q \in Seq(cands)
      BY <1>4
    <3>2. TopN \in Nat
      BY <1>2
    <3> HIDE DEF cands
    <3> QED
      BY <3>1, <3>2, AFirst, Zenon
  <2> HIDE DEF cands
  <2>2. Len(p) = (IF TopN <= Len(q) THEN TopN ELSE Len(q)) /\ Len(q) \in Nat /\ DOMAIN p = 1 .. Len(p)
    <3>1. Len(q) \in Nat
      BY <1>4, Zenon
    <3>2. Len(p) = (IF TopN <= Len(q) THEN TopN ELSE Len(q))
      BY <2>1, Zenon
    <3>3. DOMAIN p = 1 .. Len(p)
      OBVIOUS
    <3> QED
      BY <3>1, <3>2, <3>3
  <2>3. i \in 1 .. Len(p)
    BY <1>2, <1>7, <2>2
  <2>4. p[i] = c
    BY <1>6, <2>1, <2>3
  <2>5. c \in S!ToSet(p)
    BY <2>2, <2>3, <2>4 DEF S!ToSet
  <2> QED
    BY <1>1, <2>1, <2>5
<1>8. CASE TopN < i
  <2> DEFINE better == {d \in cands \ {c} : S!Score(d) >= S!Score(c)}
             first == [j \in 1 .. TopN |-> q[j]]
  <2>1. \A j \in 1 .. TopN : j \in 1 .. Len(q) /\ j < i /\ j # i
    BY <1>2, <1>4, <1>8
  <2>2. \A j \in 1 .. TopN : q[j] \in cands /\ q[j] # c
    BY <1>4, <1>6, <2>1
  <2>3. \A j \in 1 .. TopN : S!Score(q[j]) >= S!Score(c)
    <3> TAKE j \in 1 .. TopN
    <3>1. f[q[j]] >= f[q[i]]
      BY <1>4, <2>1
    <3> QED
      BY <1>3, <1>5, <1>6, <2>2, <3>1
  <2>4. first \in [1 .. TopN -> better]
    BY <2>2, <2>3
  <2>5. \A j, k \in 1 .. TopN : first[j] = first[k] => j = k
    BY <1>4, <2>1
  <2>6. first \in Injection(1 .. TopN, better)
    <3> HIDE DEF first, better
    <3> QED
      BY <2>4, <2>5 DEF Injection, IsInjective
  <2>7. IsFiniteSet(better)
    BY <1>3, FS_Subset
  <2>8. Cardinality(1 .. TopN) = TopN
    BY <1>2, FS_Interval
  <2> HIDE DEF first, better
  <2>9. Cardinality(1 .. TopN) <= Cardinality(better)
    BY <2>6, <2>7, FS_Injection
  <2>10. Cardinality(better) \in Nat
    BY <2>7, FS_CardinalityType
  <2> QED
    BY <1>2, <2>8, <2>9, <2>10 DEF better
<1> QED
  BY <1>2, <1>4, <1>7, <1>8

-----------------------------------------------------------------------------
(* What the search reads of the table are relationships of its documents.   *)
LEMMA AInDocs ==
    ASSUME ATypeOK
    PROVE  /\ S!InDocs(rels) \in SUBSET ARels /\ S!InDocs(rels) \in SUBSET rels
           /\ S!EntitiesForDocs(rels, docIDs) = S!EndsOf(S!InDocs(rels))
           /\ S!EntitiesForDocs(rels, docIDs) \subseteq Entities
<1>1. S!InDocs(rels) \in SUBSET ARels /\ S!InDocs(rels) \in SUBSET rels
  BY DEF ATypeOK, S!InDocs
<1>2. S!EntitiesForDocs(rels, docIDs) = S!EndsOf(S!InDocs(rels))
  BY DEF S!EntitiesForDocs, S!InDocs
<1> QED
  BY <1>1, <1>2, AEndsType

(* The invariant holds before the first search.                             *)
LEMMA AInit == ASSUME S!Init PROVE AInv
<1> USE DEF S!Init
<1>1. ATypeOK
  <2>1. walk \in AWalks /\ answer \in [entities : Seq(Entities), rels : SUBSET ARels]
    BY DEF S!NoWalk, AWalks
  <2> QED
    BY <2>1, FS_EmptySet DEF ATypeOK
<1>2. AIdle
  BY DEF AIdle
<1>3. answer.entities = <<>> /\ answer.rels = {}
  OBVIOUS
<1>4. AScoped
  <2>1. S!ToSet(<<>>) = {} /\ S!IsInjective(<<>>) /\ S!EndsOf({}) = {}
    BY DEF S!ToSet, S!IsInjective, S!EndsOf
  <2> QED
    BY <1>3, <2>1 DEF AScoped
<1>5. AWalk /\ S!PromptHasTheBest
  BY DEF AWalk, S!PromptHasTheBest
<1>6. AComplete
  BY <1>3 DEF AComplete, ADone
<1> QED
  BY <1>1, <1>2, <1>4, <1>5, <1>6 DEF AInv

(* A stuttering step keeps it.                                              *)
LEMMA AStutters == ASSUME AInv, UNCHANGED S!vars PROVE AInv'
<1> USE DEF S!vars
<1>1. ATypeOK' /\ AIdle'
  BY DEF AInv, ATypeOK, AIdle
<1>2. AScoped'
  BY DEF AInv, AScoped, S!InDocs
<1>3. ARoot' = ARoot /\ ADone' = ADone /\ S!InDocs(rels)' = S!InDocs(rels)
  BY DEF ARoot, ADone, S!InDocs
<1>4. AWalk' /\ AComplete'
  BY <1>3 DEF AInv, AWalk, AComplete
<1>5. S!PromptHasTheBest'
  BY DEF AInv, S!PromptHasTheBest
<1> QED
  BY <1>1, <1>2, <1>4, <1>5 DEF AInv

(* Inserting a relationship keeps it: more is of the documents, and what    *)
(* was found is still there; if the table is the one the search began with, *)
(* nothing has been inserted at all.                                        *)
LEMMA AInsertRelationship ==
    ASSUME AInv, NEW s \in Entities, NEW t \in Entities, NEW d \in Docs,
           S!InsertRelationship(s, t, d)
    PROVE  AInv'
<1> DEFINE r == [s |-> s, t |-> t, doc |-> d]
<1>1. /\ rels' = rels \cup {r} /\ pc \notin {"done", "failed", "global"}
      /\ UNCHANGED <<pc, depth, docIDs, ranked, seen, answer, walk, walked, before, lost, comms, top>>
  BY DEF S!InsertRelationship
<1>2. ATypeOK'
  <2>1. r \in ARels
    BY DEF ARels
  <2>2. IsFiniteSet(rels')
    BY <1>1, FS_AddElement DEF AInv, ATypeOK
  <2> QED
    BY <1>1, <2>1, <2>2 DEF AInv, ATypeOK
<1>3. before' = rels' => rels' = rels /\ before = rels
  BY <1>1 DEF AInv, ATypeOK
<1>4. AIdle'
  BY <1>1 DEF AInv, AIdle
<1>5. AScoped'
  <2>1. S!InDocs(rels) \subseteq S!InDocs(rels)'
    BY <1>1 DEF S!InDocs
  <2>2. S!EntitiesForDocs(rels, docIDs) \subseteq S!EntitiesForDocs(rels, docIDs)'
    BY <1>1 DEF S!EntitiesForDocs, S!EndsOf
  <2> HIDE DEF r
  <2> QED
    BY <1>1, <2>1, <2>2 DEF AInv, AScoped
<1>6. ARoot' = ARoot /\ ADone' = ADone
  BY <1>1 DEF ARoot, ADone
<1>7. S!InDocs(rels) \subseteq S!InDocs(rels)' /\ (before' = rels' => S!InDocs(rels)' = S!InDocs(rels))
  BY <1>1, <1>3 DEF S!InDocs
<1> HIDE DEF r
<1>8. AWalk'
  <2> SUFFICES ASSUME pc = "hop" PROVE AWalk'
    BY <1>1 DEF AWalk
  <2>1. /\ answer'.entities # <<>> /\ ARoot' \in walked' /\ walk'.hop \in 0 .. depth'
        /\ walk'.seenRel \subseteq S!InDocs(rels)'
    BY <1>1, <1>6, <1>7 DEF AInv, AWalk
  <2>2. ASSUME before' = rels'
        PROVE  /\ walk'.visited = S!Near(S!InDocs(rels), ARoot, walk.hop)'
               /\ walk'.seenRel = S!Ball(S!InDocs(rels), ARoot, walk.hop)'
               /\ walk'.frontier = IF walk'.hop = 0 THEN {ARoot'}
                                   ELSE walk'.visited \ S!Near(S!InDocs(rels), ARoot, walk.hop - 1)'
    BY <1>1, <1>3, <1>6, <1>7, <2>2 DEF AInv, AWalk
  <2> QED
    BY <2>1, <2>2 DEF AWalk
<1>9. AComplete'
  BY <1>1, <1>3, <1>6, <1>7 DEF AInv, AComplete
<1>10. S!PromptHasTheBest'
  BY <1>1 DEF S!PromptHasTheBest
<1> QED
  BY <1>2, <1>4, <1>5, <1>8, <1>9, <1>10 DEF AInv

(* The start of a search keeps it: nothing is found yet, whatever the       *)
(* documents and the depth.                                                 *)
LEMMA ARetrieve ==
    ASSUME S!SearchAssumption, AInv, NEW found \in SUBSET Docs, NEW d \in Depths, S!Retrieve(found, d)
    PROVE  AInv'
<1>1. /\ pc = "idle" /\ pc' \in {"retrieved", "done"} /\ docIDs' = found /\ depth' = d /\ before' = rels
      /\ UNCHANGED <<rels, ranked, seen, answer, walk, walked, lost, comms, top>>
  BY DEF S!Retrieve
<1>2. /\ ranked = <<>> /\ seen = {} /\ lost = {} /\ walked = {}
      /\ answer.entities = <<>> /\ answer.rels = {}
  BY <1>1 DEF AInv, AIdle
<1>3. ATypeOK'
  BY <1>1 DEF AInv, ATypeOK, S!SearchAssumption
<1>4. AIdle' /\ AWalk' /\ S!PromptHasTheBest'
  BY <1>1 DEF AIdle, AWalk, S!PromptHasTheBest
<1>5. AScoped'
  <2>1. S!ToSet(<<>>) = {} /\ S!IsInjective(<<>>) /\ S!EndsOf({}) = {}
    BY DEF S!ToSet, S!IsInjective, S!EndsOf
  <2> QED
    BY <1>1, <1>2, <2>1 DEF AScoped
<1>6. AComplete'
  BY <1>1, <1>2 DEF AComplete, ADone
<1> QED
  BY <1>3, <1>4, <1>5, <1>6 DEF AInv

(* So does the choice of communities: no local search has begun.            *)
LEMMA AGlobalSearch ==
    ASSUME S!SearchAssumption, AInv, NEW X \in SUBSET Communities, NEW level \in {0, 1},
           S!GlobalSearch(X, level)
    PROVE  AInv'
<1>1. /\ pc = "idle" /\ pc' = "global" /\ depth' = level
      /\ UNCHANGED <<rels, docIDs, ranked, seen, answer, walk, walked, before, lost>>
  BY DEF S!GlobalSearch
<1>2. answer.rels = {} /\ walked = {}
  BY <1>1 DEF AInv, AIdle
<1>3. ATypeOK'
  BY <1>1 DEF AInv, ATypeOK
<1>4. AIdle' /\ AWalk'
  BY <1>1 DEF AIdle, AWalk
<1>5. S!InDocs(rels)' = S!InDocs(rels)
  BY <1>1 DEF S!InDocs
<1>6. AScoped'
  BY <1>1, <1>5 DEF AInv, AScoped
<1>7. AComplete'
  BY <1>1, <1>2 DEF AComplete, ADone
<1>8. S!PromptHasTheBest'
  BY ABestAreChosen
<1> QED
  BY <1>3, <1>4, <1>6, <1>7, <1>8 DEF AInv

(* The choice of the closest entities keeps it: they are at the ends of the *)
(* documents' relationships.                                                *)
LEMMA ARank == ASSUME S!SearchAssumption, AInv, S!Rank PROVE AInv'
<1> DEFINE C == S!EntitiesForDocs(rels, docIDs) \cap Embedded
<1>1. /\ pc = "retrieved" /\ pc' \in {"rank", "failed"}
      /\ UNCHANGED <<rels, depth, docIDs, seen, answer, walk, walked, before, lost, comms, top>>
  BY DEF S!Rank
<1>2. ranked' \in Seq(Entities) /\ \A k \in DOMAIN ranked' : ranked'[k] \in S!EntitiesForDocs(rels, docIDs)
  <2>1. CASE UNCHANGED ranked
    BY <2>1 DEF AInv, ATypeOK, AScoped
  <2>2. CASE ~(UNCHANGED ranked)
    <3>1. PICK k \in S!Cardinality(docIDs) .. TopK, q \in S!Sorted(S!Closeness(C)) :
              ranked' = SubSeq(q, 1, S!Min({2 * k, Len(q)}))
      BY <2>2 DEF S!Rank
    <3>2. C \in SUBSET Entities /\ IsFiniteSet(C)
      <4>1. C \subseteq S!EndsOf(S!InDocs(rels)) /\ C \in SUBSET Entities /\ S!InDocs(rels) \subseteq rels
        BY AInDocs DEF AInv
      <4>2. IsFiniteSet(S!InDocs(rels))
        BY <4>1, FS_Subset DEF AInv, ATypeOK
      <4> QED
        BY <4>1, <4>2, AEndsFinite, FS_Subset
    <3>3. q \in Seq(Entities) /\ \A i \in 1 .. Len(q) : q[i] \in C
      <4> HIDE DEF C
      <4>1. DOMAIN S!Closeness(C) = C
        BY DEF S!Closeness
      <4>2. q \in S!Orders(C)
        BY <3>1, <3>2, <4>1, ASorted
      <4> QED
        BY <3>2, <4>2, AOrdersOfEntities
    <3>4. 2 * k \in Nat
      <4>1. IsFiniteSet(docIDs)
        <5>1. IsFiniteSet(Docs)
          BY SFinite DEF S!SearchAssumption
        <5> QED
          BY <5>1, FS_Subset DEF AInv, ATypeOK
      <4>2. S!Cardinality(docIDs) \in Nat /\ TopK \in Nat
        BY <4>1, FS_CardinalityType, SCardinality DEF S!SearchAssumption
      <4> QED
        BY <3>1, <4>2
    <3>5. PICK p \in Seq(Entities) :
              /\ p = SubSeq(q, 1, S!Min({2 * k, Len(q)}))
              /\ \A i \in 1 .. Len(p) : p[i] = q[i] /\ i \in 1 .. Len(q)
      BY <3>3, <3>4, AFirst
    <3>6. DOMAIN p = 1 .. Len(p) /\ ranked' = p
      BY <3>1, <3>5
    <3> QED
      BY <3>3, <3>5, <3>6
  <2> QED
    BY <2>1, <2>2
<1>3. ATypeOK'
  BY <1>1, <1>2 DEF AInv, ATypeOK
<1>4. AIdle' /\ AWalk' /\ S!PromptHasTheBest'
  BY <1>1 DEF AIdle, AWalk, S!PromptHasTheBest
<1>5. S!InDocs(rels)' = S!InDocs(rels) /\ ADone' = ADone
  BY <1>1 DEF S!InDocs, ADone
<1>6. AScoped'
  BY <1>1, <1>2, <1>5 DEF AInv, AScoped
<1>7. AComplete'
  BY <1>1, <1>5 DEF AInv, AComplete
<1> QED
  BY <1>3, <1>4, <1>6, <1>7 DEF AInv

-----------------------------------------------------------------------------
(* A sequence and one more element.                                         *)
LEMMA AAppend ==
    ASSUME NEW q \in Seq(Entities), NEW e \in Entities
    PROVE  \E p \in Seq(Entities) :
               /\ p = Append(q, e) /\ p # <<>> /\ p[Len(p)] = e
               /\ S!ToSet(p) = S!ToSet(q) \cup {e}
               /\ S!IsInjective(q) /\ e \notin S!ToSet(q) => S!IsInjective(p)
<1>1. PICK p \in Seq(Entities) : p = Append(q, e)
  <2>1. Append(q, e) \in Seq(Entities)
    OBVIOUS
  <2> QED
    BY <2>1, Zenon
<1>2. /\ Len(q) \in Nat /\ Len(p) = Len(q) + 1 /\ DOMAIN q = 1 .. Len(q) /\ DOMAIN p = 1 .. Len(p)
      /\ \A i \in 1 .. Len(q) : p[i] = q[i]
      /\ p[Len(p)] = e
  BY <1>1
<1>3. \A i \in 1 .. Len(p) : i \in 1 .. Len(q) \/ i = Len(p)
  BY <1>2
<1>4. S!ToSet(p) = S!ToSet(q) \cup {e}
  <2>1. \A i \in DOMAIN q : i \in DOMAIN p /\ q[i] = p[i]
    BY <1>2
  <2>2. Len(p) \in DOMAIN p
    BY <1>2
  <2> QED
    BY <1>2, <1>3, <2>1, <2>2 DEF S!ToSet
<1>5. ASSUME S!IsInjective(q), e \notin S!ToSet(q) PROVE S!IsInjective(p)
  <2>1. \A i \in 1 .. Len(q) : p[i] # e
    BY <1>2, <1>5 DEF S!ToSet
  <2>2. \A i, j \in 1 .. Len(q) : p[i] = p[j] => i = j
    BY <1>2, <1>5 DEF S!IsInjective
  <2> QED
    BY <1>2, <1>3, <2>1, <2>2 DEF S!IsInjective
<1>6. p # <<>>
  BY <1>2
<1> QED
  BY <1>1, <1>2, <1>4, <1>5, <1>6

(* A sequence and another of elements it does not have.                     *)
LEMMA AConcat ==
    ASSUME NEW q \in Seq(Entities), NEW n \in Seq(Entities), S!IsInjective(q),
           \A i, j \in 1 .. Len(n) : n[i] = n[j] => i = j,
           S!ToSet(q) \cap S!ToSet(n) = {}
    PROVE  \E p \in Seq(Entities) :
               p = q \o n /\ S!ToSet(p) = S!ToSet(q) \cup S!ToSet(n) /\ S!IsInjective(p)
<1>1. PICK p \in Seq(Entities) : p = q \o n
  <2>1. q \o n \in Seq(Entities)
    OBVIOUS
  <2> QED
    BY <2>1, Zenon
<1>2. /\ Len(q) \in Nat /\ Len(n) \in Nat /\ Len(p) = Len(q) + Len(n)
      /\ DOMAIN q = 1 .. Len(q) /\ DOMAIN n = 1 .. Len(n) /\ DOMAIN p = 1 .. Len(p)
      /\ \A i \in 1 .. Len(q) : p[i] = q[i]
  BY <1>1
<1>3. \A i \in 1 .. Len(p) : i > Len(q) => i - Len(q) \in 1 .. Len(n) /\ p[i] = n[i - Len(q)]
  BY <1>1, <1>2
<1>4. \A k \in 1 .. Len(n) : k + Len(q) \in 1 .. Len(p) /\ k + Len(q) > Len(q) /\ (k + Len(q)) - Len(q) = k
  BY <1>2
<1>5. \A i \in 1 .. Len(p) : i \in 1 .. Len(q) \/ i > Len(q)
  BY <1>2
<1>6. S!ToSet(p) = S!ToSet(q) \cup S!ToSet(n)
  <2>1. ASSUME NEW x \in S!ToSet(p) PROVE x \in S!ToSet(q) \cup S!ToSet(n)
    <3>1. PICK i \in 1 .. Len(p) : x = p[i]
      BY <1>2 DEF S!ToSet
    <3>2. CASE i \in 1 .. Len(q)
      BY <1>2, <3>1, <3>2 DEF S!ToSet
    <3>3. CASE i > Len(q)
      BY <1>2, <1>3, <3>1, <3>3 DEF S!ToSet
    <3> QED
      BY <1>5, <3>2, <3>3
  <2>2. ASSUME NEW x \in S!ToSet(q) PROVE x \in S!ToSet(p)
    <3>1. \A i \in 1 .. Len(q) : i \in 1 .. Len(p)
      BY <1>2
    <3> QED
      BY <1>2, <3>1 DEF S!ToSet
  <2>3. ASSUME NEW x \in S!ToSet(n) PROVE x \in S!ToSet(p)
    <3>1. PICK k \in 1 .. Len(n) : x = n[k]
      BY <1>2 DEF S!ToSet
    <3>2. k + Len(q) \in 1 .. Len(p) /\ p[k + Len(q)] = x
      BY <1>3, <1>4, <3>1
    <3> QED
      BY <1>2, <3>2 DEF S!ToSet
  <2> QED
    BY <2>1, <2>2, <2>3
<1>7. S!IsInjective(p)
  <2> SUFFICES ASSUME NEW i \in 1 .. Len(p), NEW j \in 1 .. Len(p), p[i] = p[j] PROVE i = j
    BY <1>2 DEF S!IsInjective
  <2>1. CASE i \in 1 .. Len(q) /\ j \in 1 .. Len(q)
    BY <1>2, <2>1 DEF S!IsInjective
  <2>2. CASE i > Len(q) /\ j > Len(q)
    <3>1. i - Len(q) = j - Len(q)
      BY <1>3, <2>2
    <3> QED
      BY <1>2, <3>1
  <2>3. CASE (i \in 1 .. Len(q) /\ j > Len(q)) \/ (i > Len(q) /\ j \in 1 .. Len(q))
    <3>1. \A k \in 1 .. Len(p) : k > Len(q) => p[k] \in S!ToSet(n)
      BY <1>2, <1>3 DEF S!ToSet
    <3>2. \A k \in 1 .. Len(q) : p[k] \in S!ToSet(q)
      BY <1>2 DEF S!ToSet
    <3> QED
      BY <2>3, <3>1, <3>2
  <2> QED
    BY <1>5, <2>1, <2>2, <2>3
<1> QED
  BY <1>1, <1>6, <1>7

(* The next entity keeps it: passed over, it is there already; added, its   *)
(* walk begins at itself.                                                   *)
LEMMA ANextEntity == ASSUME AInv, S!NextEntity PROVE AInv'
<1>1. pc = "rank" /\ UNCHANGED <<rels, depth, docIDs, before, lost, comms, top>>
  BY DEF S!NextEntity
<1>2. S!InDocs(rels)' = S!InDocs(rels)
  BY <1>1 DEF S!InDocs
<1>3. ADone = walked
  BY <1>1 DEF ADone
<1>4. CASE ranked = <<>>
  <2>1. pc' = "done" /\ UNCHANGED <<ranked, seen, answer, walk, walked>>
    BY <1>4 DEF S!NextEntity
  <2>2. ATypeOK' /\ AIdle' /\ AWalk' /\ S!PromptHasTheBest'
    BY <1>1, <2>1 DEF AInv, ATypeOK, AIdle, AWalk, S!PromptHasTheBest
  <2>3. AScoped'
    BY <1>1, <1>2, <2>1 DEF AInv, AScoped
  <2>4. ADone' = ADone
    BY <1>3, <2>1 DEF ADone
  <2>5. AComplete'
    BY <1>1, <1>2, <2>1, <2>4 DEF AInv, AComplete
  <2> QED
    BY <2>2, <2>3, <2>5 DEF AInv
<1>5. ASSUME ranked # <<>> PROVE AInv'
  <2>1. PICK e : e = Head(ranked)
    OBVIOUS
  <2>2. ranked' = Tail(ranked)
    BY <1>5 DEF S!NextEntity
  <2>3. /\ e \in Entities /\ e \in S!EntitiesForDocs(rels, docIDs)
        /\ ranked' \in Seq(Entities)
        /\ \A k \in DOMAIN ranked' : ranked'[k] \in S!EntitiesForDocs(rels, docIDs)
    <3>1. ranked \in Seq(Entities) /\ \A k \in DOMAIN ranked : ranked[k] \in S!EntitiesForDocs(rels, docIDs)
      BY DEF AInv, ATypeOK, AScoped
    <3>2. /\ 1 \in DOMAIN ranked /\ e = ranked[1]
          /\ ranked' \in Seq(Entities)
      BY <1>5, <2>1, <2>2, <3>1
    <3>3. \A k \in DOMAIN ranked' : k + 1 \in DOMAIN ranked /\ ranked'[k] = ranked[k + 1]
      BY <1>5, <2>2, <3>1
    <3> QED
      BY <3>1, <3>2, <3>3
  <2>4. CASE e \in seen
    <3>1. UNCHANGED <<pc, seen, answer, walk, walked>>
      BY <1>5, <2>1, <2>4 DEF S!NextEntity
    <3>2. ATypeOK' /\ AIdle' /\ AWalk' /\ S!PromptHasTheBest'
      BY <1>1, <2>3, <3>1 DEF AInv, ATypeOK, AIdle, AWalk, S!PromptHasTheBest
    <3>3. AScoped'
      BY <1>1, <1>2, <2>3, <3>1 DEF AInv, AScoped
    <3>4. ADone' = ADone
      BY <1>1, <1>3, <3>1 DEF ADone
    <3>5. AComplete'
      BY <1>1, <1>2, <3>1, <3>4 DEF AInv, AComplete
    <3> QED
      BY <3>2, <3>3, <3>5 DEF AInv
  <2>5. ASSUME e \notin seen PROVE AInv'
    <3>1. /\ pc' = "hop" /\ seen' = seen \cup {e} /\ walked' = walked \cup {e}
          /\ answer' = [answer EXCEPT !.entities = Append(@, e)]
          /\ walk' = [hop |-> 0, frontier |-> {e}, visited |-> {e}, seenRel |-> {}]
      BY <1>5, <2>1, <2>5 DEF S!NextEntity
    <3>2. /\ answer \in [entities : Seq(Entities), rels : SUBSET ARels]
          /\ seen = S!ToSet(answer.entities) \cup lost /\ S!IsInjective(answer.entities)
      BY DEF AInv, ATypeOK, AScoped
    <3>3. PICK p \in Seq(Entities) :
              /\ p = Append(answer.entities, e) /\ p # <<>> /\ p[Len(p)] = e
              /\ S!ToSet(p) = S!ToSet(answer.entities) \cup {e}
              /\ S!IsInjective(answer.entities) /\ e \notin S!ToSet(answer.entities) => S!IsInjective(p)
      <4>1. PICK q \in Seq(Entities) : q = answer.entities
        BY <3>2
      <4>2. \E p \in Seq(Entities) :
                /\ p = Append(q, e) /\ p # <<>> /\ p[Len(p)] = e
                /\ S!ToSet(p) = S!ToSet(q) \cup {e}
                /\ S!IsInjective(q) /\ e \notin S!ToSet(q) => S!IsInjective(p)
        BY <2>3, AAppend
      <4> QED
        BY <4>1, <4>2
    <3>4. answer'.entities = p /\ answer'.rels = answer.rels
      BY <3>1, <3>2, <3>3
    <3>5. ATypeOK'
      <4>1. walk' \in AWalks
        BY <2>3, <3>1 DEF AWalks
      <4>2. answer' \in [entities : Seq(Entities), rels : SUBSET ARels]
        BY <3>1, <3>2, <3>3
      <4> QED
        BY <1>1, <2>3, <4>1, <4>2 DEF AInv, ATypeOK
    <3>6. AIdle' /\ S!PromptHasTheBest'
      BY <3>1 DEF AIdle, S!PromptHasTheBest
    <3>7. AScoped'
      <4>1. S!EntitiesForDocs(rels, docIDs)' = S!EntitiesForDocs(rels, docIDs)
        BY <1>1
      <4>2. seen' = S!ToSet(p) \cup lost /\ S!IsInjective(p) /\ walked' \subseteq S!ToSet(p)
        BY <2>5, <3>1, <3>2, <3>3 DEF AInv, AScoped
      <4>3. seen' \subseteq S!EntitiesForDocs(rels, docIDs)
        BY <2>3, <3>1 DEF AInv, AScoped
      <4>4. answer.rels \subseteq S!InDocs(rels) /\ S!EndsOf(answer.rels) \subseteq seen'
        BY <3>1 DEF AInv, AScoped
      <4> QED
        BY <1>1, <1>2, <2>3, <3>4, <4>1, <4>2, <4>3, <4>4 DEF AScoped
    <3>8. ARoot' = e /\ ADone' = walked
      <4>1. ARoot' = e
        BY <3>3, <3>4 DEF ARoot
      <4>2. e \notin walked
        BY <2>5 DEF AInv, AScoped
      <4> QED
        BY <3>1, <4>1, <4>2 DEF ADone
    <3>9. AWalk'
      <4>1. S!Near(S!InDocs(rels), e, 0) = {e} /\ S!Ball(S!InDocs(rels), e, 0) = {}
        BY <2>3, ANearZero DEF S!Ball
      <4>2. walk'.hop = 0 /\ walk'.frontier = {e} /\ walk'.visited = {e} /\ walk'.seenRel = {}
        BY <3>1
      <4>3. 0 \in 0 .. depth'
        BY <1>1 DEF AInv, ATypeOK
      <4>4. e \in walked' /\ answer'.entities # <<>>
        BY <3>1, <3>3, <3>4
      <4> QED
        BY <1>1, <1>2, <3>8, <4>1, <4>2, <4>3, <4>4 DEF AWalk
    <3>10. AComplete'
      BY <1>1, <1>2, <1>3, <3>4, <3>8 DEF AInv, AComplete
    <3> QED
      BY <3>5, <3>6, <3>7, <3>9, <3>10 DEF AInv
  <2> QED
    BY <2>4, <2>5
<1> QED
  BY <1>4, <1>5

-----------------------------------------------------------------------------
(* The entity whose walk goes on is an entity.                              *)
LEMMA ARootType == ASSUME AInv, pc = "hop" PROVE ARoot \in Entities /\ ARoot \in walked
<1>1. answer.entities \in Seq(Entities) /\ answer.entities # <<>>
  BY DEF AInv, ATypeOK, AWalk
<1>2. Len(answer.entities) \in 1 .. Len(answer.entities)
  BY <1>1
<1> QED
  BY <1>1, <1>2 DEF ARoot, AInv, AWalk

(* One hop keeps it: what is found there is all that is a hop further.      *)
LEMMA AHop == ASSUME AInv, S!Hop PROVE AInv'
<1> DEFINE R == S!InDocs(rels)
           here == ATouching(R, walk.frontier)
           found == S!EndsOf(here)
<1>1. /\ pc = "hop" /\ walk.hop < depth
      /\ UNCHANGED <<rels, pc, depth, docIDs, ranked, seen, answer, walked, before, lost, comms, top>>
  BY DEF S!Hop
<1>2. walk' = [hop |-> walk.hop + 1, frontier |-> found \ walk.visited,
               visited |-> walk.visited \cup found, seenRel |-> walk.seenRel \cup here]
  <2>1. S!AtFrontier(walk.frontier, docIDs) = here
    BY DEF S!AtFrontier, ATouching, S!InDocs
  <2> HIDE DEF here
  <2> QED
    BY <2>1 DEF S!Hop
<1>3. here \subseteq R /\ R \in SUBSET ARels /\ found \subseteq Entities
  <2>1. here \subseteq R /\ R \in SUBSET ARels
    BY AInDocs DEF AInv, ATouching
  <2>2. here \in SUBSET ARels
    BY <2>1
  <2> HIDE DEF here
  <2> QED
    BY <2>1, <2>2, AEndsType
<1>4. walk \in AWalks /\ depth \in Nat /\ walk.hop \in Nat
  BY DEF AInv, ATypeOK, AWalks
<1> HIDE DEF here, found, R
<1>5. /\ walk'.hop = walk.hop + 1 /\ walk'.frontier = found \ walk.visited
      /\ walk'.visited = walk.visited \cup found /\ walk'.seenRel = walk.seenRel \cup here
  BY <1>2
<1>6. ATypeOK'
  <2>1. walk' \in AWalks
    BY <1>2, <1>3, <1>4 DEF AWalks
  <2> QED
    BY <1>1, <2>1 DEF AInv, ATypeOK
<1>7. AIdle' /\ S!PromptHasTheBest'
  BY <1>1 DEF AIdle, S!PromptHasTheBest
<1>8. ARoot' = ARoot /\ ADone' = ADone /\ S!InDocs(rels)' = R
  BY <1>1 DEF ARoot, ADone, S!InDocs, R
<1>9. AScoped' /\ AComplete'
  BY <1>1, <1>8 DEF AInv, AScoped, AComplete, R
<1>10. AWalk'
  <2>1. /\ answer'.entities # <<>> /\ ARoot' \in walked' /\ walk'.hop \in 0 .. depth'
        /\ walk'.seenRel \subseteq R
    BY <1>1, <1>3, <1>4, <1>5, <1>8 DEF AInv, AWalk, R
  <2>2. ASSUME before = rels
        PROVE  /\ walk'.visited = S!Near(R, ARoot, walk'.hop)
               /\ walk'.seenRel = S!Ball(R, ARoot, walk'.hop)
               /\ walk'.frontier = IF walk'.hop = 0 THEN {ARoot}
                                   ELSE walk'.visited \ S!Near(R, ARoot, walk'.hop - 1)
    <3>0. PICK F : F = walk.frontier
      OBVIOUS
    <3>1. PICK e \in Entities, h \in Nat : e = ARoot /\ h = walk.hop
      BY <1>1, <1>4, ARootType
    <3>2. /\ walk.visited = S!Near(R, e, h) /\ walk.seenRel = S!Ball(R, e, h)
          /\ F = IF h = 0 THEN {e} ELSE S!Near(R, e, h) \ S!Near(R, e, h - 1)
      BY <1>1, <2>2, <3>0, <3>1 DEF AInv, AWalk, R
    <3>3. /\ S!Near(R, e, h + 1) = S!Near(R, e, h) \cup S!EndsOf(ATouching(R, F))
          /\ S!Ball(R, e, h + 1) = S!Ball(R, e, h) \cup ATouching(R, F)
      <4>1. PICK Q \in SUBSET ARels : Q = R
        BY <1>3
      <4>2. (h = 0 => F = {e}) /\ (h # 0 => F = S!Near(Q, e, h) \ S!Near(Q, e, h - 1))
        BY <3>2, <4>1
      <4>3. /\ S!Near(Q, e, h + 1) = S!Near(Q, e, h) \cup S!EndsOf(ATouching(Q, F))
            /\ S!Ball(Q, e, h + 1) = S!Ball(Q, e, h) \cup ATouching(Q, F)
        BY <4>2, AHopReaches
      <4> QED
        BY <4>1, <4>3
    <3>4. here = ATouching(R, F) /\ found = S!EndsOf(ATouching(R, F))
      BY <3>0 DEF here, found
    <3>5. walk'.visited = S!Near(R, e, h + 1) /\ walk'.seenRel = S!Ball(R, e, h + 1)
      BY <1>5, <3>2, <3>3, <3>4
    <3>6. walk'.frontier = walk'.visited \ S!Near(R, e, h)
      BY <1>5, <3>2
    <3>7. walk'.hop = h + 1 /\ h + 1 # 0 /\ (h + 1) - 1 = h
      BY <1>5, <3>1
    <3> QED
      BY <3>1, <3>5, <3>6, <3>7
  <2> QED
    BY <1>1, <1>8, <2>1, <2>2 DEF AWalk
<1> QED
  BY <1>6, <1>7, <1>9, <1>10 DEF AInv

(* A walk that fails keeps it: its entity counts no longer as walked from.  *)
LEMMA AWalkFails == ASSUME AInv, S!WalkFails PROVE AInv'
<1>1. /\ pc = "hop" /\ pc' = "rank" /\ walk' = S!NoWalk /\ walked' = walked \ {ARoot}
      /\ UNCHANGED <<rels, depth, docIDs, ranked, seen, answer, before, lost, comms, top>>
  BY DEF S!WalkFails, S!Last, ARoot
<1>2. ATypeOK'
  <2>1. walk' \in AWalks
    BY <1>1 DEF S!NoWalk, AWalks
  <2> QED
    BY <1>1, <2>1 DEF AInv, ATypeOK
<1>3. AIdle' /\ AWalk' /\ S!PromptHasTheBest'
  BY <1>1 DEF AIdle, AWalk, S!PromptHasTheBest
<1>4. S!InDocs(rels)' = S!InDocs(rels) /\ ADone' = ADone
  BY <1>1 DEF S!InDocs, ADone
<1>5. AScoped' /\ AComplete'
  BY <1>1, <1>4 DEF AInv, AScoped, AComplete
<1> QED
  BY <1>2, <1>3, <1>5 DEF AInv

(* The end of a walk keeps it: its relationships are all within the depth,  *)
(* and the ends that are added were not there.                              *)
LEMMA AAddNeighbours == ASSUME AInv, S!AddNeighbours PROVE AInv'
<1> DEFINE R == S!InDocs(rels)
           new == S!EndsOf(walk.seenRel) \ seen
<1>1. /\ pc = "hop" /\ pc' = "rank" /\ walk' = S!NoWalk /\ (walk.hop >= depth \/ walk.frontier = {})
      /\ seen' = seen \cup new
      /\ UNCHANGED <<rels, depth, docIDs, ranked, walked, before, comms, top>>
  BY DEF S!AddNeighbours
<1>2. PICK unread \in SUBSET new :
          /\ lost' = lost \cup unread
          /\ \E n \in S!Orders(new \ unread) :
                 answer' = [entities |-> answer.entities \o n, rels |-> answer.rels \cup walk.seenRel]
  BY DEF S!AddNeighbours
<1>3. PICK n \in S!Orders(new \ unread) :
          answer' = [entities |-> answer.entities \o n, rels |-> answer.rels \cup walk.seenRel]
  BY <1>2
<1>4. /\ R \in SUBSET ARels /\ R \in SUBSET rels /\ walk.seenRel \in SUBSET R
      /\ S!EntitiesForDocs(rels, docIDs) = S!EndsOf(R)
  BY <1>1, AInDocs DEF AInv, AWalk
<1>5. new \in SUBSET Entities /\ new \subseteq S!EndsOf(R) /\ IsFiniteSet(new)
  <2>1. S!EndsOf(walk.seenRel) \subseteq S!EndsOf(R) /\ S!EndsOf(R) \subseteq Entities
    BY <1>4, AEndsGrow, AEndsType
  <2>2. IsFiniteSet(walk.seenRel)
    <3>1. walk.seenRel \in SUBSET rels /\ IsFiniteSet(rels)
      BY <1>4 DEF AInv, ATypeOK
    <3> QED
      BY <3>1, FS_Subset
  <2>3. IsFiniteSet(S!EndsOf(walk.seenRel))
    BY <2>2, AEndsFinite
  <2> QED
    BY <2>1, <2>3, FS_Subset
<1> HIDE DEF new, R
<1>6. new \ unread \in SUBSET Entities /\ IsFiniteSet(new \ unread)
  BY <1>5, FS_Subset
<1>7. /\ n \in Seq(Entities) /\ S!ToSet(n) = new \ unread
      /\ \A i, j \in 1 .. Len(n) : n[i] = n[j] => i = j
  BY <1>3, <1>6, AOrders, AOrdersOfEntities
<1>8. PICK q \in Seq(Entities) : q = answer.entities /\ S!IsInjective(q) /\ seen = S!ToSet(q) \cup lost
  BY DEF AInv, ATypeOK, AScoped
<1>9. PICK p \in Seq(Entities) : p = q \o n /\ S!ToSet(p) = S!ToSet(q) \cup S!ToSet(n) /\ S!IsInjective(p)
  <2>1. S!ToSet(q) \cap S!ToSet(n) = {}
    BY <1>7, <1>8 DEF new
  <2> QED
    BY <1>7, <1>8, <2>1, AConcat
<1>10. answer'.entities = p /\ answer'.rels = answer.rels \cup walk.seenRel
  BY <1>3, <1>8, <1>9
<1>11. ATypeOK'
  <2>1. walk' \in AWalks
    BY <1>1 DEF S!NoWalk, AWalks
  <2>2. answer.rels \cup walk.seenRel \in SUBSET ARels
    BY <1>4 DEF AInv, ATypeOK
  <2>3. answer' \in [entities : Seq(Entities), rels : SUBSET ARels]
    BY <1>3, <1>8, <1>9, <2>2
  <2> QED
    BY <1>1, <2>1, <2>3 DEF AInv, ATypeOK
<1>12. AIdle' /\ AWalk' /\ S!PromptHasTheBest'
  BY <1>1 DEF AIdle, AWalk, S!PromptHasTheBest
<1>13. S!InDocs(rels)' = R
  BY <1>1 DEF S!InDocs, R
<1>14. AScoped'
  <2>1. seen' = S!ToSet(p) \cup lost'
    BY <1>1, <1>2, <1>7, <1>8, <1>9
  <2>2. seen' \subseteq S!EndsOf(R)
    BY <1>1, <1>4, <1>5 DEF AInv, AScoped
  <2>3. walked' \subseteq S!ToSet(p)
    BY <1>1, <1>8, <1>9 DEF AInv, AScoped
  <2>4. answer'.rels \subseteq R
    BY <1>4, <1>10 DEF AInv, AScoped, R
  <2>5. S!EndsOf(answer'.rels) \subseteq seen'
    <3>1. S!EndsOf(answer'.rels) = S!EndsOf(answer.rels) \cup S!EndsOf(walk.seenRel)
      BY <1>10, AEndsUnion
    <3>2. S!EndsOf(answer.rels) \subseteq seen
      BY DEF AInv, AScoped
    <3> QED
      BY <1>1, <3>1, <3>2 DEF new
  <2>6. \A k \in DOMAIN ranked' : ranked'[k] \in S!EndsOf(R)
    BY <1>1, <1>4 DEF AInv, AScoped
  <2>7. S!EntitiesForDocs(rels, docIDs)' = S!EndsOf(R)
    BY <1>1, <1>4
  <2> QED
    BY <1>9, <1>10, <1>13, <2>1, <2>2, <2>3, <2>4, <2>5, <2>6, <2>7 DEF AScoped
<1>15. AComplete'
  <2> SUFFICES ASSUME before = rels
               PROVE  answer'.rels = UNION {S!Ball(R, e, depth) : e \in walked}
    BY <1>1, <1>13 DEF AComplete, ADone
  <2>1. answer.rels = UNION {S!Ball(R, e, depth) : e \in walked \ {ARoot}}
    BY <1>1 DEF AInv, AComplete, ADone, R
  <2>2. walk.seenRel = S!Ball(R, ARoot, depth)
    <3>1. PICK e \in Entities, h \in Nat, d \in Nat : e = ARoot /\ h = walk.hop /\ d = depth
      BY <1>1, ARootType DEF AInv, ATypeOK, AWalks
    <3>2. /\ h \in 0 .. d /\ walk.visited = S!Near(R, e, h) /\ walk.seenRel = S!Ball(R, e, h)
          /\ walk.frontier = IF h = 0 THEN {e} ELSE S!Near(R, e, h) \ S!Near(R, e, h - 1)
      BY <1>1, <3>1 DEF AInv, AWalk, R
    <3>3. h = d \/ (h # 0 /\ S!Near(R, e, h) \subseteq S!Near(R, e, h - 1))
      <4>1. CASE walk.hop >= depth
        BY <3>1, <3>2, <4>1
      <4>2. CASE walk.frontier = {}
        BY <3>2, <4>2
      <4> QED
        BY <1>1, <4>1, <4>2
    <3>4. S!Ball(R, e, d) = S!Ball(R, e, h)
      BY <1>4, <3>2, <3>3, AWalkIsOver
    <3> QED
      BY <3>1, <3>2, <3>4
  <2>3. ARoot \in walked
    BY <1>1, ARootType
  <2> QED
    BY <1>10, <2>1, <2>2, <2>3
<1> QED
  BY <1>11, <1>12, <1>14, <1>15 DEF AInv

(* Whatever extraction inserts meanwhile, a local search answers with the   *)
(* neighbourhood of the entities that were hit, and nothing of another      *)
(* document; and the prompt of a global search has the best summaries.      *)
THEOREM AnswersAreRightHolds == S!Spec => []AnswersAreRight
<1>1. S!SearchAssumption
  BY RetrievalAssumption
<1>2. S!Init => AInv
  BY AInit
<1>3. AInv /\ [S!Next]_(S!vars) => AInv'
  <2> SUFFICES ASSUME AInv, S!Next PROVE AInv'
    BY AStutters
  <2> QED
    BY <1>1, AInsertRelationship, ARetrieve, ARank, ANextEntity, AHop, AWalkFails, AAddNeighbours,
       AGlobalSearch DEF S!Next
<1>4. AInv => AnswersAreRight
  <2> SUFFICES ASSUME AInv, pc = "done" PROVE S!AnswerIsTheNeighbourhood
    BY DEF AnswersAreRight, AInv, S!AnswerIsTheNeighbourhood
  <2>1. ADone = walked
    BY DEF ADone
  <2> QED
    BY <2>1 DEF AInv, AScoped, AComplete, S!AnswerIsTheNeighbourhood
<1> QED
  BY <1>2, <1>3, <1>4, PTL DEF S!Spec

-----------------------------------------------------------------------------
(* Louvain.                                                                  *)

(* The partial sums of f, for the first n nodes.                             *)
UpTo(f, n, u) ==
    /\ u \in [0 .. n -> Int] /\ u[0] = 0
    /\ \A k \in 1 .. n : u[k] = u[k - 1] + f[k]

(* A function of whole numbers has partial sums, however many nodes.         *)
LEMMA PartialSums ==
    ASSUME NEW n \in Nat, NEW f, \A k \in 1 .. n : f[k] \in Int
    PROVE  \E u : UpTo(f, n, u)
<1> DEFINE P == {m \in Nat : m <= n /\ ~\E u : UpTo(f, m, u)}
<1> SUFFICES ASSUME P # {} PROVE FALSE
  OBVIOUS
<1>1. PICK m \in P : \A k \in P : m <= k
  <2> P \in SUBSET Nat
    OBVIOUS
  <2> HIDE DEF P
  <2> QED
    BY LeastNat
<1>2. m # 0
  <2>1. UpTo(f, 0, [k \in 0 .. 0 |-> 0])
    BY DEF UpTo
  <2> QED
    BY <2>1
<1>3. PICK j \in Nat : m = j + 1
  <2>1. m - 1 \in Nat /\ m = (m - 1) + 1
    BY <1>2
  <2> QED
    BY <2>1
<1>4. PICK u : UpTo(f, j, u)
  <2>1. j \notin P /\ j <= n
    BY <1>1, <1>3
  <2> QED
    BY <2>1
<1> DEFINE w == [k \in 0 .. m |-> IF k = m THEN u[j] + f[m] ELSE u[k]]
<1>5. UpTo(f, m, w)
  <2>0. m \in 1 .. n /\ f[m] \in Int /\ j \in 0 .. j /\ m - 1 = j
    BY <1>3
  <2>1. u[j] \in Int /\ \A k \in 0 .. j : u[k] \in Int
    BY <1>4, <2>0 DEF UpTo
  <2>2. \A k \in 0 .. m : k = m \/ k \in 0 .. j
    BY <1>3
  <2>3. w \in [0 .. m -> Int]
    BY <2>0, <2>1, <2>2
  <2>4. w[0] = 0
    BY <1>2, <1>3, <1>4 DEF UpTo
  <2>5. ASSUME NEW k \in 1 .. m PROVE w[k] = w[k - 1] + f[k]
    <3>1. CASE k = m
      BY <2>0, <3>1, <1>3
    <3>2. CASE k # m
      <4>1. k \in 1 .. j /\ k - 1 \in 0 .. j /\ k - 1 # m /\ k \in 0 .. m /\ k - 1 \in 0 .. m
        BY <1>3, <3>2
      <4>2. u[k] = u[k - 1] + f[k]
        BY <1>4, <4>1 DEF UpTo
      <4> QED
        BY <3>2, <4>1, <4>2
    <3> QED
      BY <3>1, <3>2
  <2> QED
    BY <2>3, <2>4, <2>5 DEF UpTo
<1> QED
  BY <1>5

(* The total is the last of the partial sums.                                *)
LEMMA TotalIsLast ==
    ASSUME NNodes \in Nat, NEW f, \A i \in L!Nodes : f[i] \in Int
    PROVE  \E u : UpTo(f, NNodes, u) /\ L!Total(f) = u[NNodes]
<1> DEFINE Sums(u) == u = [k \in 0 .. NNodes |-> IF k = 0 THEN 0 ELSE u[k - 1] + f[k]]
<1>1. PICK v : UpTo(f, NNodes, v)
  BY PartialSums DEF L!Nodes
<1>2. Sums(v)
  <2>1. \A k \in 0 .. NNodes : v[k] = IF k = 0 THEN 0 ELSE v[k - 1] + f[k]
    BY <1>1 DEF UpTo
  <2>2. v = [k \in 0 .. NNodes |-> v[k]]
    BY <1>1 DEF UpTo
  <2> QED
    BY <2>1, <2>2
<1> DEFINE upTo == CHOOSE u : Sums(u)
<1>3. L!Total(f) = upTo[NNodes]
  BY DEF L!Total
<1>4. Sums(upTo)
  BY <1>2
<1>5. PICK u : u = upTo
  OBVIOUS
<1>6. Sums(u) /\ L!Total(f) = u[NNodes]
  BY <1>3, <1>4, <1>5, Zenon
<1> HIDE DEF upTo
<1>7. \A k \in 0 .. NNodes : u[k] = IF k = 0 THEN 0 ELSE u[k - 1] + f[k]
  BY <1>6
<1>8. u[0] = 0 /\ \A k \in 1 .. NNodes : u[k] = u[k - 1] + f[k]
  BY <1>7
<1>9. \A k \in 0 .. NNodes : u[k] = v[k]
  <2> DEFINE P == {k \in Nat : k \in 0 .. NNodes /\ u[k] # v[k]}
  <2> SUFFICES ASSUME P # {} PROVE FALSE
    OBVIOUS
  <2>1. PICK m \in P : \A k \in P : m <= k
    <3> P \in SUBSET Nat
      OBVIOUS
    <3> HIDE DEF P
    <3> QED
      BY LeastNat
  <2>2. m # 0
    BY <1>1, <1>8 DEF UpTo
  <2>3. m \in 1 .. NNodes /\ m - 1 \in 0 .. NNodes /\ m - 1 \in Nat /\ ~(m <= m - 1)
    BY <2>2
  <2>4. u[m - 1] = v[m - 1]
    BY <2>1, <2>3
  <2> QED
    BY <1>1, <1>8, <2>3, <2>4 DEF UpTo
<1> QED
  BY <1>1, <1>6, <1>9 DEF UpTo

(* The total of whole numbers is one.                                        *)
LEMMA TotalIsInt ==
    ASSUME NNodes \in Nat, NEW f, \A i \in L!Nodes : f[i] \in Int
    PROVE  L!Total(f) \in Int
<1>1. PICK u : UpTo(f, NNodes, u) /\ L!Total(f) = u[NNodes]
  BY TotalIsLast
<1> QED
  BY <1>1 DEF UpTo

(* What holds of 0 and goes on from each number to the next holds of n.      *)
LEMMA Climb ==
    ASSUME NEW n \in Nat, NEW P, 0 \in P, \A k \in 1 .. n : k - 1 \in P => k \in P
    PROVE  n \in P
<1> DEFINE R == {k \in Nat : k <= n /\ k \notin P}
<1> SUFFICES ASSUME R # {} PROVE FALSE
  OBVIOUS
<1>1. PICK m \in R : \A k \in R : m <= k
  <2> R \in SUBSET Nat
    OBVIOUS
  <2> HIDE DEF R
  <2> QED
    BY LeastNat
<1>2. m \in 1 .. n /\ m - 1 \in Nat /\ m - 1 <= n /\ ~(m <= m - 1)
  OBVIOUS
<1>3. m - 1 \in P
  BY <1>1, <1>2
<1> QED
  BY <1>1, <1>2, <1>3

(* The total of a sum of two functions is the sum of their totals.           *)
LEMMA TotalAdds ==
    ASSUME NNodes \in Nat, NEW f, NEW g, NEW h,
           \A i \in L!Nodes : f[i] \in Int /\ g[i] \in Int /\ h[i] = f[i] + g[i]
    PROVE  L!Total(h) = L!Total(f) + L!Total(g)
<1>1. PICK u : UpTo(f, NNodes, u) /\ L!Total(f) = u[NNodes]
  BY TotalIsLast
<1>2. PICK v : UpTo(g, NNodes, v) /\ L!Total(g) = v[NNodes]
  BY TotalIsLast
<1>3. PICK w : UpTo(h, NNodes, w) /\ L!Total(h) = w[NNodes]
  BY TotalIsLast
<1> DEFINE P == {k \in 0 .. NNodes : w[k] = u[k] + v[k]}
<1>4. 0 \in P
  BY <1>1, <1>2, <1>3 DEF UpTo
<1>5. ASSUME NEW k \in 1 .. NNodes, k - 1 \in P PROVE k \in P
  <2>1. k - 1 \in 0 .. NNodes /\ k \in 0 .. NNodes
    OBVIOUS
  <2>2. u[k - 1] \in Int /\ v[k - 1] \in Int /\ f[k] \in Int /\ g[k] \in Int /\ h[k] = f[k] + g[k]
    BY <1>1, <1>2, <2>1 DEF UpTo, L!Nodes
  <2>3. u[k] = u[k - 1] + f[k] /\ v[k] = v[k - 1] + g[k] /\ w[k] = w[k - 1] + h[k]
    BY <1>1, <1>2, <1>3 DEF UpTo
  <2>4. w[k - 1] = u[k - 1] + v[k - 1]
    BY <1>5
  <2> QED
    BY <2>1, <2>2, <2>3, <2>4
<1>6. NNodes \in P
  <2> HIDE DEF P
  <2> QED
    BY <1>4, <1>5, Climb
<1> QED
  BY <1>1, <1>2, <1>3, <1>6

(* The total of functions that agree on the nodes is the same.               *)
LEMMA TotalAgrees ==
    ASSUME NNodes \in Nat, NEW f, NEW g, \A i \in L!Nodes : f[i] \in Int /\ g[i] = f[i]
    PROVE  L!Total(g) = L!Total(f)
<1>1. PICK u : UpTo(f, NNodes, u) /\ L!Total(f) = u[NNodes]
  BY TotalIsLast
<1>2. PICK v : UpTo(g, NNodes, v) /\ L!Total(g) = v[NNodes]
  BY TotalIsLast
<1> DEFINE P == {k \in 0 .. NNodes : v[k] = u[k]}
<1>3. 0 \in P
  BY <1>1, <1>2 DEF UpTo
<1>4. ASSUME NEW k \in 1 .. NNodes, k - 1 \in P PROVE k \in P
  BY <1>1, <1>2, <1>4 DEF UpTo, L!Nodes
<1>5. NNodes \in P
  <2> HIDE DEF P
  <2> QED
    BY <1>3, <1>4, Climb
<1> QED
  BY <1>1, <1>2, <1>5

(* The total of a function that is 0 at every node but p is what it gives p. *)
LEMMA TotalAtOne ==
    ASSUME NNodes \in Nat, NEW p \in L!Nodes, NEW f,
           f[p] \in Int, \A i \in L!Nodes : i # p => f[i] = 0
    PROVE  L!Total(f) = f[p]
<1>0. \A i \in L!Nodes : f[i] \in Int
  OBVIOUS
<1>1. PICK u : UpTo(f, NNodes, u) /\ L!Total(f) = u[NNodes]
  BY <1>0, TotalIsLast
<1> DEFINE P == {k \in 0 .. NNodes : u[k] = IF k < p THEN 0 ELSE f[p]}
<1>2. p \in 1 .. NNodes
  BY DEF L!Nodes
<1>3. 0 \in P
  BY <1>1, <1>2 DEF UpTo
<1>4. ASSUME NEW k \in 1 .. NNodes, k - 1 \in P PROVE k \in P
  <2>1. u[k] = u[k - 1] + f[k]
    BY <1>1 DEF UpTo
  <2>2. k # p => f[k] = 0
    BY DEF L!Nodes
  <2>3. u[k - 1] = IF k - 1 < p THEN 0 ELSE f[p]
    BY <1>4
  <2>4. k \in 0 .. NNodes
    OBVIOUS
  <2>5. CASE k = p
    BY <1>2, <2>1, <2>3, <2>4, <2>5
  <2>6. CASE k < p
    BY <1>2, <2>1, <2>2, <2>3, <2>4, <2>6
  <2>7. CASE k > p
    BY <1>2, <2>1, <2>2, <2>3, <2>4, <2>7
  <2> QED
    BY <1>2, <2>5, <2>6, <2>7
<1>5. NNodes \in P
  <2> HIDE DEF P
  <2> QED
    BY <1>3, <1>4, Climb
<1> QED
  BY <1>1, <1>2, <1>5

(* The total of a function that is 0 at every node is 0.                     *)
LEMMA TotalOfZero ==
    ASSUME NNodes \in Nat, NEW f, \A i \in L!Nodes : f[i] = 0
    PROVE  L!Total(f) = 0
<1>1. \A i \in L!Nodes : f[i] \in Int /\ f[i] = f[i] + f[i]
  OBVIOUS
<1>2. L!Total(f) = L!Total(f) + L!Total(f)
  BY <1>1, TotalAdds
<1>3. PICK t \in Int : t = L!Total(f)
  BY <1>1, TotalIsInt
<1>4. t = t + t
  BY <1>2, <1>3, Zenon
<1>5. t = 0
  BY <1>4
<1> QED
  BY <1>3, <1>5

(* The total of natural numbers is one, and none of them exceeds it.         *)
LEMMA TotalIsNat ==
    ASSUME NNodes \in Nat, NEW f, \A i \in L!Nodes : f[i] \in Nat
    PROVE  /\ L!Total(f) \in Nat
           /\ \A i \in L!Nodes : f[i] <= L!Total(f)
<1>1. PICK u : UpTo(f, NNodes, u) /\ L!Total(f) = u[NNodes]
  BY TotalIsLast
<1>2. ASSUME NEW i \in L!Nodes PROVE u[NNodes] >= f[i]
  <2> DEFINE P == {k \in 0 .. NNodes : u[k] >= 0 /\ (i <= k => u[k] >= f[i])}
  <2>1. i \in 1 .. NNodes
    BY DEF L!Nodes
  <2>2. 0 \in P
    BY <1>1, <2>1 DEF UpTo
  <2>3. ASSUME NEW k \in 1 .. NNodes, k - 1 \in P PROVE k \in P
    <3>1. u[k] = u[k - 1] + f[k] /\ f[k] \in Nat /\ f[i] \in Nat
      BY <1>1 DEF UpTo, L!Nodes
    <3>2. k - 1 \in 0 .. NNodes /\ u[k - 1] \in Int
      BY <1>1 DEF UpTo
    <3>3. u[k - 1] >= 0 /\ (i <= k - 1 => u[k - 1] >= f[i])
      BY <2>3
    <3>4. i <= k => i <= k - 1 \/ i = k
      BY <2>1
    <3> QED
      BY <2>1, <3>1, <3>2, <3>3, <3>4
  <2>4. NNodes \in P
    <3> HIDE DEF P
    <3> QED
      BY <2>2, <2>3, Climb
  <2> QED
    BY <2>1, <2>4
<1>3. u[NNodes] >= 0
  <2> DEFINE P == {k \in 0 .. NNodes : u[k] >= 0}
  <2>2. 0 \in P
    BY <1>1 DEF UpTo
  <2>3. ASSUME NEW k \in 1 .. NNodes, k - 1 \in P PROVE k \in P
    <3>1. u[k] = u[k - 1] + f[k] /\ f[k] \in Nat
      BY <1>1 DEF UpTo, L!Nodes
    <3>2. k - 1 \in 0 .. NNodes /\ u[k - 1] \in Int
      BY <1>1 DEF UpTo
    <3> QED
      BY <2>3, <3>1, <3>2
  <2>4. NNodes \in P
    <3> HIDE DEF P
    <3> QED
      BY <2>2, <2>3, Climb
  <2> QED
    BY <2>4
<1>4. L!Total(f) \in Int
  BY TotalIsInt
<1> QED
  BY <1>1, <1>2, <1>3, <1>4

(* The matrices of graphs, and those of undirected ones.                     *)
Matrices == [L!Nodes \X L!Nodes -> Nat]
Symmetric(a) == \A i, j \in L!Nodes : a[<<i, j>>] = a[<<j, i>>]

(* The weight from i into the community k of the partition c.                *)
IntoOf(a, c, i, k) == L!Total([j \in L!Nodes |-> IF c[j] = k THEN a[<<i, j>>] ELSE 0])

(* What moving p from its community into k adds to the row of i.             *)
RowGain(a, c, p, k, i) ==
    (IF c[i] = k THEN a[<<p, i>>] ELSE 0) - (IF c[i] = c[p] THEN a[<<p, i>>] ELSE 0)

(* The weight from i into the community it is in.                            *)
Row(a, c, i) == L!Total([j \in L!Nodes |-> IF c[i] = c[j] THEN a[<<i, j>>] ELSE 0])

(* The weight of one community, and of one row, is a natural number.         *)
LEMMA IntoIsNat ==
    ASSUME NNodes \in Nat, NEW a \in Matrices, NEW c \in [L!Nodes -> L!Nodes],
           NEW i \in L!Nodes, NEW k
    PROVE  /\ IntoOf(a, c, i, k) \in Nat
           /\ \A j \in L!Nodes : c[j] = k => a[<<i, j>>] <= IntoOf(a, c, i, k)
<1> DEFINE f == [j \in L!Nodes |-> IF c[j] = k THEN a[<<i, j>>] ELSE 0]
<1>1. \A j \in L!Nodes : f[j] \in Nat /\ (c[j] = k => f[j] = a[<<i, j>>])
  BY DEF Matrices
<1>2. IntoOf(a, c, i, k) = L!Total(f)
  BY DEF IntoOf
<1> HIDE DEF f
<1>3. L!Total(f) \in Nat /\ \A j \in L!Nodes : f[j] <= L!Total(f)
  BY <1>1, TotalIsNat
<1> QED
  BY <1>1, <1>2, <1>3

(* The row of another node changes in one place.                             *)
LEMMA RowOfAnother ==
    ASSUME NNodes \in Nat, NEW a \in Matrices, Symmetric(a), NEW c \in [L!Nodes -> L!Nodes],
           NEW p \in L!Nodes, NEW k \in L!Nodes, NEW i \in L!Nodes, i # p
    PROVE  Row(a, [c EXCEPT ![p] = k], i) = Row(a, c, i) + RowGain(a, c, p, k, i)
<1> DEFINE d == [c EXCEPT ![p] = k]
           f == [j \in L!Nodes |-> IF c[i] = c[j] THEN a[<<i, j>>] ELSE 0]
           h == [j \in L!Nodes |-> IF d[i] = d[j] THEN a[<<i, j>>] ELSE 0]
           g == [j \in L!Nodes |-> IF j = p THEN RowGain(a, c, p, k, i) ELSE 0]
<1>1. Row(a, c, i) = L!Total(f) /\ Row(a, d, i) = L!Total(h)
  BY DEF Row
<1>2. a[<<i, p>>] = a[<<p, i>>] /\ a[<<p, i>>] \in Nat
  BY DEF Symmetric, Matrices
<1>3. RowGain(a, c, p, k, i) \in Int
  BY <1>2 DEF RowGain
<1>4. \A j \in L!Nodes : f[j] \in Int /\ g[j] \in Int /\ h[j] = f[j] + g[j]
  <2> SUFFICES ASSUME NEW j \in L!Nodes PROVE f[j] \in Int /\ g[j] \in Int /\ h[j] = f[j] + g[j]
    OBVIOUS
  <2>1. a[<<i, j>>] \in Nat
    BY DEF Matrices
  <2>2. f[j] \in Int /\ g[j] \in Int
    BY <1>3, <2>1
  <2>3. CASE j = p
    <3>1. h[j] = IF c[i] = k THEN a[<<p, i>>] ELSE 0
      BY <1>2, <2>3
    <3>2. f[j] = IF c[i] = c[p] THEN a[<<p, i>>] ELSE 0
      BY <1>2, <2>3
    <3>3. g[j] = RowGain(a, c, p, k, i)
      BY <2>3
    <3> QED
      BY <1>2, <2>2, <3>1, <3>2, <3>3 DEF RowGain
  <2>4. CASE j # p
    <3>1. h[j] = f[j] /\ g[j] = 0
      BY <2>4
    <3> QED
      BY <2>2, <3>1
  <2> QED
    BY <2>2, <2>3, <2>4
<1>5. g[p] = RowGain(a, c, p, k, i) /\ \A j \in L!Nodes : j # p => g[j] = 0
  OBVIOUS
<1> HIDE DEF f, g, h, d
<1>6. L!Total(h) = L!Total(f) + L!Total(g)
  BY <1>4, TotalAdds
<1>7. L!Total(g) = g[p]
  BY <1>3, <1>5, TotalAtOne
<1> QED
  BY <1>1, <1>5, <1>6, <1>7 DEF d

(* The row of the node that moves is the weight into its new community and   *)
(* its loop.                                                                 *)
LEMMA RowOfMoved ==
    ASSUME NNodes \in Nat, NEW a \in Matrices, NEW c \in [L!Nodes -> L!Nodes],
           NEW p \in L!Nodes, NEW k \in L!Nodes, k # c[p]
    PROVE  /\ Row(a, [c EXCEPT ![p] = k], p) = IntoOf(a, c, p, k) + a[<<p, p>>]
           /\ Row(a, c, p) = IntoOf(a, c, p, c[p])
<1> DEFINE d == [c EXCEPT ![p] = k]
           f == [j \in L!Nodes |-> IF c[j] = k THEN a[<<p, j>>] ELSE 0]
           h == [j \in L!Nodes |-> IF d[p] = d[j] THEN a[<<p, j>>] ELSE 0]
           g == [j \in L!Nodes |-> IF j = p THEN a[<<p, p>>] ELSE 0]
<1>1. IntoOf(a, c, p, k) = L!Total(f) /\ Row(a, d, p) = L!Total(h)
  BY DEF Row, IntoOf
<1>2. a[<<p, p>>] \in Int
  BY DEF Matrices
<1>3. \A j \in L!Nodes : f[j] \in Int /\ g[j] \in Int /\ h[j] = f[j] + g[j]
  BY DEF Matrices
<1>4. g[p] = a[<<p, p>>] /\ \A j \in L!Nodes : j # p => g[j] = 0
  OBVIOUS
<1>5. Row(a, c, p) = IntoOf(a, c, p, c[p])
  <2> DEFINE e == [j \in L!Nodes |-> IF c[j] = c[p] THEN a[<<p, j>>] ELSE 0]
             r == [j \in L!Nodes |-> IF c[p] = c[j] THEN a[<<p, j>>] ELSE 0]
  <2>1. e = r
    OBVIOUS
  <2>2. Row(a, c, p) = L!Total(r) /\ IntoOf(a, c, p, c[p]) = L!Total(e)
    BY DEF Row, IntoOf
  <2> HIDE DEF e, r
  <2> QED
    BY <2>1, <2>2
<1> HIDE DEF f, g, h, d
<1>6. L!Total(h) = L!Total(f) + L!Total(g)
  BY <1>3, TotalAdds
<1>7. L!Total(g) = g[p]
  BY <1>2, <1>4, TotalAtOne
<1> QED
  BY <1>1, <1>4, <1>5, <1>6, <1>7 DEF d

(* The weight within communities, when p moves into the community k.         *)
LEMMA WithinMoves ==
    ASSUME NNodes \in Nat, NEW a \in Matrices, Symmetric(a), NEW c \in [L!Nodes -> L!Nodes],
           NEW p \in L!Nodes, NEW k \in L!Nodes, k # c[p]
    PROVE  /\ L!Within(a, c) \in Int
           /\ L!Within(a, [c EXCEPT ![p] = k])
                = L!Within(a, c)
                    + 2 * (IntoOf(a, c, p, k) - IntoOf(a, c, p, c[p]) + a[<<p, p>>])
<1> DEFINE d == [c EXCEPT ![p] = k]
           x == IntoOf(a, c, p, k)
           y == IntoOf(a, c, p, c[p])
           z == a[<<p, p>>]
           f == [i \in L!Nodes |-> Row(a, c, i)]
           h == [i \in L!Nodes |-> Row(a, d, i)]
           fk == [j \in L!Nodes |-> IF c[j] = k THEN a[<<p, j>>] ELSE 0]
           fp == [j \in L!Nodes |-> IF c[j] = c[p] THEN a[<<p, j>>] ELSE 0]
           gain == [i \in L!Nodes |-> RowGain(a, c, p, k, i)]
           mid == [i \in L!Nodes |-> f[i] + gain[i]]
           g == [i \in L!Nodes |-> IF i = p THEN x - y + 2 * z ELSE 0]
<1>1. L!Within(a, c) = L!Total(f) /\ L!Within(a, d) = L!Total(h)
  BY DEF L!Within, Row
<1>2. x \in Int /\ y \in Int /\ z \in Int
  <2>1. x \in Nat
    BY IntoIsNat
  <2>2. y \in Nat
    BY IntoIsNat
  <2>3. z \in Nat
    BY DEF Matrices
  <2> QED
    BY <2>1, <2>2, <2>3
<1>3. L!Total(gain) = x - y
  <2>1. x = L!Total(fk) /\ y = L!Total(fp)
    BY DEF IntoOf
  <2>2. \A i \in L!Nodes : fp[i] \in Int /\ gain[i] \in Int /\ fk[i] = fp[i] + gain[i]
    BY DEF Matrices, RowGain
  <2>3. L!Total(fk) = L!Total(fp) + L!Total(gain)
    <3> HIDE DEF fk, fp, gain
    <3> QED
      BY <2>2, TotalAdds
  <2>4. L!Total(gain) \in Int
    <3> HIDE DEF fk, fp, gain
    <3> QED
      BY <2>2, TotalIsInt
  <2> HIDE DEF fk, fp, gain, x, y
  <2> QED
    BY <1>2, <2>1, <2>3, <2>4
<1>4. \A i \in L!Nodes : f[i] \in Int /\ gain[i] \in Int
  <2> TAKE i \in L!Nodes
  <2>1. Row(a, c, i) = IntoOf(a, c, i, c[i])
    <3> DEFINE e == [j \in L!Nodes |-> IF c[j] = c[i] THEN a[<<i, j>>] ELSE 0]
               r == [j \in L!Nodes |-> IF c[i] = c[j] THEN a[<<i, j>>] ELSE 0]
    <3>1. e = r
      OBVIOUS
    <3>2. Row(a, c, i) = L!Total(r) /\ IntoOf(a, c, i, c[i]) = L!Total(e)
      BY DEF Row, IntoOf
    <3> HIDE DEF e, r
    <3> QED
      BY <3>1, <3>2
  <2>2. IntoOf(a, c, i, c[i]) \in Int
    BY IntoIsNat
  <2>3. RowGain(a, c, p, k, i) \in Int
    BY DEF Matrices, RowGain
  <2> QED
    BY <2>1, <2>2, <2>3
<1>5. \A i \in L!Nodes : h[i] = mid[i] + g[i]
  <2> TAKE i \in L!Nodes
  <2>1. h[i] = Row(a, d, i) /\ mid[i] = Row(a, c, i) + RowGain(a, c, p, k, i)
    OBVIOUS
  <2>2. CASE i # p
    <3>1. h[i] = mid[i] /\ g[i] = 0
      BY <2>1, <2>2, RowOfAnother
    <3>2. mid[i] \in Int
      BY <1>4
    <3> QED
      BY <3>1, <3>2
  <2>3. CASE i = p
    <3>1. Row(a, d, p) = x + z /\ Row(a, c, p) = y
      BY RowOfMoved
    <3>2. RowGain(a, c, p, k, p) = 0 - z
      BY <1>2 DEF RowGain
    <3>3. g[i] = x - y + 2 * z
      BY <2>3
    <3> HIDE DEF d, x, y, z, h, mid, g
    <3> QED
      BY <1>2, <2>1, <2>3, <3>1, <3>2, <3>3
  <2> QED
    BY <2>2, <2>3
<1>6. g[p] = x - y + 2 * z /\ \A i \in L!Nodes : i # p => g[i] = 0
  OBVIOUS
<1>7. \A i \in L!Nodes : mid[i] = f[i] + gain[i] /\ mid[i] \in Int
  BY <1>4
<1>8. \A i \in L!Nodes : g[i] \in Int
  BY <1>2
<1> HIDE DEF d, x, y, z, f, h, fk, fp, gain, mid, g
<1>9. L!Total(mid) = L!Total(f) + L!Total(gain)
  BY <1>4, <1>7, TotalAdds
<1>10. L!Total(h) = L!Total(mid) + L!Total(g)
  BY <1>5, <1>7, <1>8, TotalAdds
<1>11. L!Total(g) = x - y + 2 * z
  BY <1>6, <1>8, TotalAtOne
<1>12. L!Total(f) \in Int
  BY <1>4, TotalIsInt
<1>13. L!Total(h) = L!Total(f) + 2 * (x - y + z)
  BY <1>2, <1>3, <1>9, <1>10, <1>11, <1>12
<1> QED
  BY <1>1, <1>12, <1>13 DEF d, x, y, z

(* The degree of a node is a natural number that no weight of its exceeds.   *)
LEMMA DegreeIsNat ==
    ASSUME NNodes \in Nat, NEW a \in Matrices, NEW i \in L!Nodes
    PROVE  /\ L!Degree(a, i) \in Nat
           /\ \A j \in L!Nodes : a[<<i, j>>] <= L!Degree(a, i)
<1> DEFINE f == [j \in L!Nodes |-> a[<<i, j>>]]
<1>1. \A j \in L!Nodes : f[j] \in Nat /\ f[j] = a[<<i, j>>]
  BY DEF Matrices
<1>2. L!Degree(a, i) = L!Total(f)
  BY DEF L!Degree
<1> HIDE DEF f
<1>3. L!Total(f) \in Nat /\ \A j \in L!Nodes : f[j] <= L!Total(f)
  BY <1>1, TotalIsNat
<1> QED
  BY <1>1, <1>2, <1>3

(* The total weight is a natural number that no degree exceeds.              *)
LEMMA TwoMIsNat ==
    ASSUME NNodes \in Nat, NEW a \in Matrices
    PROVE  /\ L!TwoM(a) \in Nat
           /\ \A i \in L!Nodes : L!Degree(a, i) <= L!TwoM(a)
<1> DEFINE f == [i \in L!Nodes |-> L!Degree(a, i)]
<1>1. \A i \in L!Nodes : f[i] \in Nat /\ f[i] = L!Degree(a, i)
  BY DegreeIsNat
<1>2. L!TwoM(a) = L!Total(f)
  BY DEF L!TwoM
<1> HIDE DEF f
<1>3. L!Total(f) \in Nat /\ \A i \in L!Nodes : f[i] <= L!Total(f)
  BY <1>1, TotalIsNat
<1> QED
  BY <1>1, <1>2, <1>3

(* The degree of a community is a natural number.                            *)
LEMMA DegreeOfIsNat ==
    ASSUME NNodes \in Nat, NEW a \in Matrices, NEW c, NEW k
    PROVE  L!DegreeOf(a, c, k) \in Nat
<1> DEFINE f == [i \in L!Nodes |-> IF c[i] = k THEN L!Degree(a, i) ELSE 0]
<1>1. \A i \in L!Nodes : f[i] \in Nat
  BY DegreeIsNat
<1>2. L!DegreeOf(a, c, k) = L!Total(f)
  BY DEF L!DegreeOf
<1> HIDE DEF f
<1> QED
  BY <1>1, <1>2, TotalIsNat

(* The partition d is c with p moved into the community b.                   *)
Moves(c, d, p, b) == d[p] = b /\ \A i \in L!Nodes : i # p => d[i] = c[i]

(* When p moves, its degree goes from its community to the other.            *)
LEMMA DegreeOfMoves ==
    ASSUME NNodes \in Nat, NEW a \in Matrices, NEW c \in [L!Nodes -> L!Nodes],
           NEW p \in L!Nodes, NEW b \in L!Nodes, NEW k \in L!Nodes,
           NEW d \in [L!Nodes -> L!Nodes], Moves(c, d, p, b),
           NEW n \in Int, n = L!Degree(a, p),
           NEW x \in Int, x = L!DegreeOf(a, c, k),
           NEW y \in Int, y = L!DegreeOf(a, d, k)
    PROVE  /\ k = c[p] /\ k # b => y = x - n
           /\ k = b /\ k # c[p] => y = x + n
           /\ k # b /\ k # c[p] => y = x
<1> DEFINE e == (IF k = b THEN L!Degree(a, p) ELSE 0) - (IF k = c[p] THEN L!Degree(a, p) ELSE 0)
           f == [i \in L!Nodes |-> IF c[i] = k THEN L!Degree(a, i) ELSE 0]
           h == [i \in L!Nodes |-> IF d[i] = k THEN L!Degree(a, i) ELSE 0]
           g == [i \in L!Nodes |-> IF i = p THEN e ELSE 0]
<1>1. L!DegreeOf(a, c, k) = L!Total(f) /\ L!DegreeOf(a, d, k) = L!Total(h)
  BY DEF L!DegreeOf
<1>2. L!Degree(a, p) \in Int /\ e \in Int
  BY DegreeIsNat
<1>3. \A i \in L!Nodes : f[i] \in Int /\ g[i] \in Int
  BY <1>2, DegreeIsNat
<1>4. \A i \in L!Nodes : h[i] = f[i] + g[i]
  <2> TAKE i \in L!Nodes
  <2>1. CASE i = p
    <3>1. h[i] = (IF k = b THEN L!Degree(a, p) ELSE 0) /\ f[i] = (IF k = c[p] THEN L!Degree(a, p) ELSE 0)
      BY <2>1 DEF Moves
    <3>2. g[i] = e
      BY <2>1
    <3> QED
      BY <1>2, <3>1, <3>2
  <2>2. CASE i # p
    <3>1. h[i] = f[i] /\ g[i] = 0
      BY <2>2 DEF Moves
    <3> QED
      BY <1>3, <3>1
  <2> QED
    BY <2>1, <2>2
<1>5. g[p] = e /\ \A i \in L!Nodes : i # p => g[i] = 0
  OBVIOUS
<1>6. L!DegreeOf(a, c, k) \in Int
  BY DegreeOfIsNat
<1> HIDE DEF f, g, h
<1>7. L!Total(h) = L!Total(f) + L!Total(g)
  BY <1>3, <1>4, TotalAdds
<1>8. L!Total(g) = e
  BY <1>2, <1>5, TotalAtOne
<1>9. y = x + e
  BY <1>1, <1>7, <1>8, Zenon
<1> QED
  BY <1>9

(* The squares of the degrees of the communities.                            *)
Squares(a, c) == L!Total([k \in L!Nodes |-> L!DegreeOf(a, c, k) * L!DegreeOf(a, c, k)])

(* The square of a difference and of a sum.                                  *)
LEMMA Binomials ==
    ASSUME NEW x \in Int, NEW y \in Int
    PROVE  /\ x * x \in Int /\ y * x \in Int /\ y * y \in Int
           /\ (x - y) * (x - y) = x * x + (y * y - 2 * (y * x))
           /\ (x + y) * (x + y) = x * x + (y * y + 2 * (y * x))
  OBVIOUS

(* The squares of the degrees of the communities, when p moves.              *)
LEMMA SquaresMove ==
    ASSUME NNodes \in Nat, NEW a \in Matrices, NEW c \in [L!Nodes -> L!Nodes],
           NEW p \in L!Nodes, NEW b \in L!Nodes, b # c[p],
           NEW d \in Int, d = L!Degree(a, p),
           NEW x \in Int, x = L!DegreeOf(a, c, c[p]),
           NEW y \in Int, y = L!DegreeOf(a, c, b),
           NEW e \in [L!Nodes -> L!Nodes], Moves(c, e, p, b)
    PROVE  /\ Squares(a, c) \in Int
           /\ Squares(a, e)
                = Squares(a, c) + (d * d - 2 * (d * x)) + (d * d + 2 * (d * y))
<1> DEFINE f == [k \in L!Nodes |-> L!DegreeOf(a, c, k) * L!DegreeOf(a, c, k)]
           h == [k \in L!Nodes |-> L!DegreeOf(a, e, k) * L!DegreeOf(a, e, k)]
           g == [k \in L!Nodes |-> IF k = c[p] THEN d * d - 2 * (d * x) ELSE 0]
           r == [k \in L!Nodes |-> IF k = b THEN d * d + 2 * (d * y) ELSE 0]
           mid == [k \in L!Nodes |-> f[k] + g[k]]
<1>1. Squares(a, c) = L!Total(f) /\ Squares(a, e) = L!Total(h)
  BY DEF Squares
<1>2. d * d - 2 * (d * x) \in Int /\ d * d + 2 * (d * y) \in Int
  BY Binomials
<1>3. \A k \in L!Nodes : f[k] \in Int /\ g[k] \in Int /\ r[k] \in Int
  <2> TAKE k \in L!Nodes
  <2>1. L!DegreeOf(a, c, k) \in Int
    BY DegreeOfIsNat
  <2>2. f[k] \in Int
    <3>1. PICK t \in Int : t = L!DegreeOf(a, c, k)
      BY <2>1
    <3>2. f[k] = t * t
      BY <3>1
    <3> QED
      BY <3>2, Binomials
  <2> QED
    BY <1>2, <2>2
<1>4. \A k \in L!Nodes : mid[k] = f[k] + g[k] /\ mid[k] \in Int
  BY <1>3
<1>5. \A k \in L!Nodes : h[k] = mid[k] + r[k]
  <2> TAKE k \in L!Nodes
  <2>1. PICK t \in Int : t = L!DegreeOf(a, c, k)
    BY DegreeOfIsNat
  <2>2. PICK n \in Int : n = L!DegreeOf(a, e, k)
    BY DegreeOfIsNat
  <2>3. /\ k = c[p] /\ k # b => n = t - d
        /\ k = b /\ k # c[p] => n = t + d
        /\ k # c[p] /\ k # b => n = t
    <3> HIDE DEF f, h, g, r, mid
    <3> QED
      BY <2>1, <2>2, DegreeOfMoves
  <2>4. f[k] = t * t /\ h[k] = n * n
    BY <2>1, <2>2
  <2>5. CASE k = c[p]
    <3>1. t = x /\ n = t - d
      BY <2>1, <2>3, <2>5
    <3>2. r[k] = 0 /\ mid[k] = f[k] + (d * d - 2 * (d * x))
      BY <2>5
    <3>3. n * n = t * t + (d * d - 2 * (d * t))
      BY <3>1, Binomials
    <3>4. mid[k] \in Int
      BY <1>4
    <3> HIDE DEF f, h, g, r, mid
    <3> QED
      BY <2>4, <3>1, <3>2, <3>3, <3>4
  <2>6. CASE k = b
    <3>1. t = y /\ n = t + d
      BY <2>1, <2>3, <2>6
    <3>2. r[k] = d * d + 2 * (d * y) /\ g[k] = 0
      BY <2>6
    <3>3. n * n = t * t + (d * d + 2 * (d * t))
      BY <3>1, Binomials
    <3>4. mid[k] = f[k] /\ f[k] \in Int
      BY <1>3, <3>2
    <3> HIDE DEF f, h, g, r, mid
    <3> QED
      BY <2>4, <3>1, <3>2, <3>3, <3>4
  <2>7. CASE k # c[p] /\ k # b
    <3>1. n = t
      BY <2>3, <2>7
    <3>2. r[k] = 0 /\ g[k] = 0
      BY <2>7
    <3>3. mid[k] = f[k] /\ f[k] \in Int
      BY <1>3, <3>2
    <3> HIDE DEF f, h, g, r, mid
    <3> QED
      BY <2>4, <3>1, <3>2, <3>3
  <2> QED
    BY <2>5, <2>6, <2>7
<1>6. g[c[p]] = d * d - 2 * (d * x) /\ \A k \in L!Nodes : k # c[p] => g[k] = 0
  OBVIOUS
<1>7. r[b] = d * d + 2 * (d * y) /\ \A k \in L!Nodes : k # b => r[k] = 0
  OBVIOUS
<1>8. c[p] \in L!Nodes
  OBVIOUS
<1> HIDE DEF f, h, g, r, mid
<1>9. L!Total(mid) = L!Total(f) + L!Total(g)
  BY <1>3, <1>4, TotalAdds
<1>10. L!Total(h) = L!Total(mid) + L!Total(r)
  BY <1>3, <1>4, <1>5, TotalAdds
<1>11. L!Total(g) = d * d - 2 * (d * x)
  <2>1. g[c[p]] \in Int
    BY <1>3, <1>8
  <2>2. L!Total(g) = g[c[p]]
    BY <1>6, <1>8, <2>1, TotalAtOne
  <2> QED
    BY <1>6, <2>2, Zenon
<1>12. L!Total(r) = d * d + 2 * (d * y)
  <2>1. r[b] \in Int
    BY <1>3
  <2>2. L!Total(r) = r[b]
    BY <1>7, <2>1, TotalAtOne
  <2> QED
    BY <1>7, <2>2, Zenon
<1>13. L!Total(f) \in Int
  BY <1>3, TotalIsInt
<1>14. L!Total(h) = L!Total(f) + (d * d - 2 * (d * x)) + (d * d + 2 * (d * y))
  BY <1>2, <1>9, <1>10, <1>11, <1>12, <1>13, Zenon
<1>15. Squares(a, c) \in Int
  BY <1>1, <1>13, Zenon
<1>16. Squares(a, e) = Squares(a, c) + (d * d - 2 * (d * x)) + (d * d + 2 * (d * y))
  BY <1>1, <1>14, Zenon
<1> QED
  BY <1>15, <1>16

(* The modularity is a whole number.                                         *)
LEMMA ModularityIsInt ==
    ASSUME NNodes \in Nat, NEW a \in Matrices, NEW c \in [L!Nodes -> L!Nodes]
    PROVE  L!Modularity(a, c) \in Int
<1> DEFINE f == [k \in L!Nodes |-> L!DegreeOf(a, c, k) * L!DegreeOf(a, c, k)]
           g == [i \in L!Nodes |-> Row(a, c, i)]
<1>1. \A k \in L!Nodes : f[k] \in Int
  <2> TAKE k \in L!Nodes
  <2>1. PICK t \in Int : t = L!DegreeOf(a, c, k)
    BY DegreeOfIsNat
  <2>2. f[k] = t * t
    BY <2>1
  <2> QED
    BY <2>2, Binomials
<1>2. ASSUME NEW i \in L!Nodes PROVE g[i] \in Int
  <2> DEFINE r == [j \in L!Nodes |-> IF c[i] = c[j] THEN a[<<i, j>>] ELSE 0]
  <2>1. \A j \in L!Nodes : r[j] \in Int
    BY DEF Matrices
  <2>2. g[i] = L!Total(r)
    BY DEF Row
  <2> HIDE DEF r, g
  <2> QED
    BY <2>1, <2>2, TotalIsInt
<1>3. L!Within(a, c) = L!Total(g)
  BY DEF L!Within, Row
<1>4. L!Modularity(a, c) = L!TwoM(a) * L!Total(g) - L!Total(f)
  BY <1>3 DEF L!Modularity
<1> HIDE DEF f, g
<1>5. PICK m \in Int : m = L!TwoM(a)
  BY TwoMIsNat
<1>6. PICK w \in Int : w = L!Total(g)
  BY <1>2, TotalIsInt
<1>7. PICK q \in Int : q = L!Total(f)
  BY <1>1, TotalIsInt
<1> QED
  BY <1>4, <1>5, <1>6, <1>7

(* The two ways to write what a move adds.                                   *)
LEMMA MoveAdds ==
    ASSUME NEW m \in Int, NEW w \in Int, NEW q \in Int, NEW i \in Int, NEW o \in Int,
           NEW l \in Int, NEW d \in Int, NEW x \in Int, NEW y \in Int
    PROVE  m * (w + 2 * (i - o + l)) - (q + (d * d - 2 * (d * x)) + (d * d + 2 * (d * y)))
             = (m * w - q) + 2 * ((i - o) * m - (y - (x - d)) * d) + 2 * (m * l)
  OBVIOUS

(* What moving p into another community adds to the modularity: twice the    *)
(* gain that the code computes, and twice the weight of p's loop.            *)
LEMMA ModularityMoves ==
    ASSUME NNodes \in Nat, NEW a \in Matrices, Symmetric(a), NEW c \in [L!Nodes -> L!Nodes],
           NEW p \in L!Nodes, NEW b \in L!Nodes, b # c[p],
           NEW d \in Int, d = L!Degree(a, p),
           NEW x \in Int, x = L!DegreeOf(a, c, c[p]),
           NEW y \in Int, y = L!DegreeOf(a, c, b),
           NEW i \in Int, i = IntoOf(a, c, p, b),
           NEW o \in Int, o = IntoOf(a, c, p, c[p]),
           NEW m \in Int, m = L!TwoM(a),
           NEW e \in [L!Nodes -> L!Nodes], Moves(c, e, p, b)
    PROVE  /\ L!Modularity(a, c) \in Int
           /\ L!Modularity(a, e)
                = L!Modularity(a, c) + 2 * ((i - o) * m - (y - (x - d)) * d) + 2 * (m * a[<<p, p>>])
<1>1. PICK l \in Int : l = a[<<p, p>>]
  BY DEF Matrices
<1>2. PICK w \in Int : w = L!Within(a, c)
  BY WithinMoves
<1>3. PICK q \in Int : q = Squares(a, c)
  BY SquaresMove
<1>4. L!Within(a, e) = w + 2 * (i - o + l)
  <2>1. e = [c EXCEPT ![p] = b]
    BY DEF Moves
  <2>2. L!Within(a, [c EXCEPT ![p] = b])
          = L!Within(a, c) + 2 * (IntoOf(a, c, p, b) - IntoOf(a, c, p, c[p]) + a[<<p, p>>])
    BY WithinMoves
  <2> QED
    BY <1>1, <1>2, <2>1, <2>2, Zenon
<1>5. Squares(a, e) = q + (d * d - 2 * (d * x)) + (d * d + 2 * (d * y))
  <2>1. Squares(a, e) = Squares(a, c) + (d * d - 2 * (d * x)) + (d * d + 2 * (d * y))
    BY SquaresMove
  <2> QED
    BY <1>3, <2>1, Zenon
<1>6. L!Modularity(a, c) = m * w - q
  BY <1>2, <1>3 DEF L!Modularity, Squares
<1>7. L!Modularity(a, e) = m * (w + 2 * (i - o + l)) - (q + (d * d - 2 * (d * x)) + (d * d + 2 * (d * y)))
  <2>1. L!Modularity(a, e) = L!TwoM(a) * L!Within(a, e) - Squares(a, e)
    BY DEF L!Modularity, Squares
  <2> QED
    BY <1>4, <1>5, <2>1, Zenon
<1>8. m * w - q \in Int
  OBVIOUS
<1>9. m * (w + 2 * (i - o + l)) - (q + (d * d - 2 * (d * x)) + (d * d + 2 * (d * y)))
        = (m * w - q) + 2 * ((i - o) * m - (y - (x - d)) * d) + 2 * (m * l)
  BY MoveAdds
<1>10. L!Modularity(a, e)
         = L!Modularity(a, c) + 2 * ((i - o) * m - (y - (x - d)) * d) + 2 * (m * a[<<p, p>>])
  BY <1>1, <1>6, <1>7, <1>9, Zenon
<1> QED
  BY <1>6, <1>8, <1>10

(* Every node alone in its community, and the totals of a partition.         *)
Alone == [i \in L!Nodes |-> i]
Degrees(a, c) == [k \in L!Nodes |-> L!DegreeOf(a, c, k)]

(* No edge joins two nodes.                                                  *)
Diagonal(a) == \A i, j \in L!Nodes : i # j => a[<<i, j>>] = 0

(* Rest and Gain, of any graph, partition and totals.                        *)
RestOf(a, c, s, i, k) == IF k = c[i] THEN s[k] - L!Degree(a, i) ELSE s[k]

GainOf(a, c, s, i, k) ==
    (IntoOf(a, c, i, k) - IntoOf(a, c, i, c[i])) * L!TwoM(a)
        - (RestOf(a, c, s, i, k) - RestOf(a, c, s, i, c[i])) * L!Degree(a, i)

(* No community of its neighbours would take i with a gain.                  *)
Settled(a, c, s, i) ==
    \A k \in L!Nodes : ~(IntoOf(a, c, i, k) > 0 /\ GainOf(a, c, s, i, k) > 0)

(* The matrix stays symmetric, the totals are those of the partition, and    *)
(* while a pass moves nothing every node it has visited is settled.  A       *)
(* matrix without an edge between two nodes, such as the super-graph's, is   *)
(* never partitioned but into single nodes.                                  *)
LouvainInv ==
    /\ adj \in Matrices /\ Symmetric(adj) /\ orig \in Matrices
    /\ comm \in [L!Nodes -> L!Nodes] /\ todo \subseteq L!Nodes /\ improved \in BOOLEAN
    /\ phase = "edges" => comm = Alone
    /\ phase # "edges" => sigmaTot = Degrees(adj, comm)
    /\ phase = "louvain" /\ ~improved =>
          \A i \in L!Nodes \ todo : Settled(adj, comm, sigmaTot, i)
    /\ Diagonal(adj) => comm = Alone

(* The operators of the code are these, of the current graph and partition.  *)
LEMMA IntoAndGain ==
    ASSUME NEW i, NEW k
    PROVE  /\ L!Into(i, k) = IntoOf(adj, comm, i, k)
           /\ L!Gain(i, k) = GainOf(adj, comm, sigmaTot, i, k)
  BY DEF L!Into, L!Gain, L!Rest, IntoOf, GainOf, RestOf

(* Staying where it is gains a node nothing.                                 *)
LEMMA StayingGainsNothing ==
    ASSUME NNodes \in Nat, NEW a \in Matrices, NEW c \in [L!Nodes -> L!Nodes], NEW i \in L!Nodes
    PROVE  GainOf(a, c, Degrees(a, c), i, c[i]) = 0
<1>1. PICK x \in Int : x = IntoOf(a, c, i, c[i])
  BY IntoIsNat
<1>2. PICK m \in Int : m = L!TwoM(a)
  BY TwoMIsNat
<1>3. PICK d \in Int : d = L!Degree(a, i)
  BY DegreeIsNat
<1>4. PICK t \in Int : t = L!DegreeOf(a, c, c[i])
  BY DegreeOfIsNat
<1>5. Degrees(a, c)[c[i]] = t
  BY <1>4 DEF Degrees
<1>6. PICK y \in Int : y = RestOf(a, c, Degrees(a, c), i, c[i])
  BY <1>3, <1>5 DEF RestOf
<1>7. GainOf(a, c, Degrees(a, c), i, c[i]) = (x - x) * m - (y - y) * d
  BY <1>1, <1>2, <1>3, <1>6 DEF GainOf
<1>8. (x - x) * m - (y - y) * d = 0
  OBVIOUS
<1> QED
  BY <1>7, <1>8

(* A graph without weight settles every node.                                *)
LEMMA NoWeightSettles ==
    ASSUME NNodes \in Nat, NEW a \in Matrices, L!TwoM(a) = 0, NEW c, NEW s, NEW i \in L!Nodes
    PROVE  Settled(a, c, s, i)
<1>1. \A j \in L!Nodes : a[<<i, j>>] = 0
  <2> TAKE j \in L!Nodes
  <2>1. PICK d \in Nat : d = L!Degree(a, i)
    BY DegreeIsNat
  <2>2. d <= 0
    BY <2>1, TwoMIsNat
  <2>3. a[<<i, j>>] <= d /\ a[<<i, j>>] \in Nat
    BY <2>1, DegreeIsNat DEF Matrices
  <2> QED
    BY <2>1, <2>2, <2>3
<1>2. ASSUME NEW k \in L!Nodes PROVE IntoOf(a, c, i, k) = 0
  <2> DEFINE f == [j \in L!Nodes |-> IF c[j] = k THEN a[<<i, j>>] ELSE 0]
  <2>1. \A j \in L!Nodes : f[j] = 0
    BY <1>1
  <2>2. IntoOf(a, c, i, k) = L!Total(f)
    BY DEF IntoOf
  <2> HIDE DEF f
  <2> QED
    BY <2>1, <2>2, TotalOfZero
<1> QED
  BY <1>2 DEF Settled

(* With each node alone, the total of a community is the degree of its node. *)
LEMMA DegreesAlone ==
    ASSUME NNodes \in Nat, NEW a \in Matrices
    PROVE  Degrees(a, Alone) = [i \in L!Nodes |-> L!Degree(a, i)]
<1>1. ASSUME NEW k \in L!Nodes PROVE L!DegreeOf(a, Alone, k) = L!Degree(a, k)
  <2> DEFINE f == [i \in L!Nodes |-> IF Alone[i] = k THEN L!Degree(a, i) ELSE 0]
  <2>1. f[k] = L!Degree(a, k) /\ \A i \in L!Nodes : i # k => f[i] = 0
    BY DEF Alone
  <2>2. L!DegreeOf(a, Alone, k) = L!Total(f)
    BY DEF L!DegreeOf
  <2>3. f[k] \in Int
    BY <2>1, DegreeIsNat
  <2> HIDE DEF f
  <2>4. L!Total(f) = f[k]
    BY <2>1, <2>3, TotalAtOne
  <2> QED
    BY <2>1, <2>2, <2>4
<1> QED
  BY <1>1 DEF Degrees

(* Where no edge joins two nodes, a node alone has no community to go to.    *)
LEMMA DiagonalStays ==
    ASSUME NNodes \in Nat, NEW a \in Matrices, Diagonal(a),
           NEW i \in L!Nodes, NEW k \in L!Nodes, k # i
    PROVE  IntoOf(a, Alone, i, k) = 0
<1> DEFINE f == [j \in L!Nodes |-> IF Alone[j] = k THEN a[<<i, j>>] ELSE 0]
<1>1. \A j \in L!Nodes : f[j] = 0
  BY DEF Alone, Diagonal
<1>2. IntoOf(a, Alone, i, k) = L!Total(f)
  BY DEF IntoOf
<1> HIDE DEF f
<1> QED
  BY <1>1, <1>2, TotalOfZero

(* Moving a node for a gain raises the modularity, and moving one without a  *)
(* loop for no gain does not.                                                *)
LEMMA GainDecides ==
    ASSUME NNodes \in Nat, NEW a \in Matrices, Symmetric(a), NEW c \in [L!Nodes -> L!Nodes],
           NEW p \in L!Nodes, NEW b \in L!Nodes, b # c[p],
           NEW e \in [L!Nodes -> L!Nodes], Moves(c, e, p, b)
    PROVE  /\ GainOf(a, c, Degrees(a, c), p, b) > 0 => L!Modularity(a, e) > L!Modularity(a, c)
           /\ ~(GainOf(a, c, Degrees(a, c), p, b) > 0) /\ a[<<p, p>>] = 0 =>
                L!Modularity(a, e) <= L!Modularity(a, c)
<1>1. PICK i \in Int : i = IntoOf(a, c, p, b)
  BY IntoIsNat
<1>2. PICK o \in Int : o = IntoOf(a, c, p, c[p])
  BY IntoIsNat
<1>3. PICK m \in Nat : m = L!TwoM(a)
  BY TwoMIsNat
<1>4. PICK d \in Int : d = L!Degree(a, p)
  BY DegreeIsNat
<1>5. PICK x \in Int : x = L!DegreeOf(a, c, c[p])
  BY DegreeOfIsNat
<1>6. PICK y \in Int : y = L!DegreeOf(a, c, b)
  BY DegreeOfIsNat
<1>7. PICK l \in Nat : l = a[<<p, p>>]
  BY DEF Matrices
<1>8. /\ L!Modularity(a, c) \in Int
      /\ L!Modularity(a, e)
           = L!Modularity(a, c) + 2 * ((i - o) * m - (y - (x - d)) * d) + 2 * (m * a[<<p, p>>])
  BY <1>1, <1>2, <1>3, <1>4, <1>5, <1>6, ModularityMoves
<1>9. PICK q \in Int : q = L!Modularity(a, c)
  BY <1>8
<1>10. PICK g \in Int : g = (i - o) * m - (y - (x - d)) * d
  OBVIOUS
<1>11. GainOf(a, c, Degrees(a, c), p, b) = g
  <2>1. Degrees(a, c)[b] = y /\ Degrees(a, c)[c[p]] = x
    BY <1>5, <1>6 DEF Degrees
  <2>2. RestOf(a, c, Degrees(a, c), p, b) = y /\ RestOf(a, c, Degrees(a, c), p, c[p]) = x - d
    BY <1>4, <2>1 DEF RestOf
  <2> QED
    BY <1>1, <1>2, <1>3, <1>4, <1>10, <2>2, Zenon DEF GainOf
<1>12. L!Modularity(a, e) = q + 2 * g + 2 * (m * l)
  BY <1>7, <1>8, <1>9, <1>10, Zenon
<1>13. PICK n \in Nat : n = m * l
  OBVIOUS
<1>14. l = 0 => n = 0
  BY <1>13
<1>15. L!Modularity(a, e) = q + 2 * g + 2 * n
  BY <1>12, <1>13, Zenon
<1> QED
  BY <1>7, <1>9, <1>11, <1>14, <1>15

(* A graph without edges satisfies the invariant.                            *)
LEMMA LouvainInit ==
    ASSUME L!LouvainAssumption, L!Init
    PROVE  LouvainInv
<1>1. adj \in Matrices /\ Symmetric(adj) /\ orig \in Matrices
  BY DEF L!Init, Matrices, Symmetric
<1>2. comm = Alone
  BY DEF L!Init, Alone
<1>3. comm \in [L!Nodes -> L!Nodes]
  BY <1>2 DEF Alone
<1>4. todo = {} /\ improved = TRUE /\ phase = "edges"
  BY DEF L!Init
<1> QED
  BY <1>1, <1>2, <1>3, <1>4 DEF LouvainInv

(* What Louvain begins with.                                                 *)
LEMMA BeginSettles ==
    ASSUME NNodes \in Nat, NEW a \in Matrices, L!Begin(a)
    PROVE  /\ comm' = Alone /\ comm' \in [L!Nodes -> L!Nodes]
           /\ sigmaTot' = Degrees(a, Alone)
           /\ todo' \subseteq L!Nodes /\ improved' = FALSE
           /\ \A i \in L!Nodes \ todo' : Settled(a, comm', sigmaTot', i)
<1>1. comm' = Alone /\ comm' \in [L!Nodes -> L!Nodes]
  BY DEF L!Begin, Alone
<1>2. sigmaTot' = Degrees(a, Alone)
  BY DegreesAlone DEF L!Begin
<1>3. todo' \subseteq L!Nodes /\ improved' = FALSE
  BY DEF L!Begin
<1>4. ASSUME NEW i \in L!Nodes \ todo' PROVE Settled(a, comm', sigmaTot', i)
  <2>1. L!TwoM(a) = 0
    BY <1>4 DEF L!Begin
  <2> QED
    BY <2>1, NoWeightSettles
<1> QED
  BY <1>1, <1>2, <1>3, <1>4

(* Adding an edge keeps the invariant.                                       *)
LEMMA LouvainNewEdge ==
    ASSUME L!LouvainAssumption, LouvainInv,
           NEW s \in L!Nodes, NEW t \in L!Nodes, NEW w \in Weights, L!NewEdge(s, t, w)
    PROVE  LouvainInv'
<1>1. PICK v \in Nat : adj' = L!Plus(adj, s, t, v)
  BY DEF L!NewEdge, L!LouvainAssumption
<1>2. adj' \in Matrices
  BY <1>1 DEF L!Plus, Matrices, LouvainInv
<1>3. Symmetric(adj')
  <2>1. SUFFICES ASSUME NEW i \in L!Nodes, NEW j \in L!Nodes PROVE adj'[<<i, j>>] = adj'[<<j, i>>]
    BY DEF Symmetric
  <2>2. adj[<<i, j>>] = adj[<<j, i>>] /\ adj[<<i, j>>] \in Nat
    BY DEF LouvainInv, Symmetric, Matrices
  <2>3. <<i, j>> = <<s, t>> <=> <<j, i>> = <<t, s>>
    OBVIOUS
  <2>4. <<i, j>> = <<t, s>> <=> <<j, i>> = <<s, t>>
    OBVIOUS
  <2> QED
    BY <1>1, <2>2, <2>3, <2>4 DEF L!Plus
<1>4. UNCHANGED <<comm, sigmaTot, todo, improved, phase>> /\ phase = "edges" /\ orig' = adj'
  BY DEF L!NewEdge
<1>5. comm' = Alone
  BY <1>4 DEF LouvainInv
<1> QED
  BY <1>2, <1>3, <1>4, <1>5 DEF LouvainInv

(* Beginning Louvain keeps the invariant.                                    *)
LEMMA LouvainStart ==
    ASSUME L!LouvainAssumption, LouvainInv, L!Start
    PROVE  LouvainInv'
<1>1. L!Begin(adj) /\ adj' = adj /\ orig' = orig /\ phase' = "louvain"
  BY DEF L!Start
<1>2. NNodes \in Nat /\ adj \in Matrices
  BY DEF L!LouvainAssumption, LouvainInv
<1>3. /\ comm' = Alone /\ comm' \in [L!Nodes -> L!Nodes]
      /\ sigmaTot' = Degrees(adj, Alone)
      /\ todo' \subseteq L!Nodes /\ improved' = FALSE
      /\ \A i \in L!Nodes \ todo' : Settled(adj, comm', sigmaTot', i)
  BY <1>1, <1>2, BeginSettles
<1> QED
  BY <1>1, <1>3 DEF LouvainInv

(* What a visit does: the node stays and is settled, or goes for a gain.     *)
LEMMA VisitSettlesOrGains ==
    ASSUME L!LouvainAssumption, LouvainInv, NEW i \in L!Nodes, L!Visit(i)
    PROVE  \/ comm' = comm /\ sigmaTot' = sigmaTot /\ improved' = improved
                /\ Settled(adj, comm, sigmaTot, i)
           \/ \E b \in L!Nodes :
                /\ b # comm[i] /\ comm' \in [L!Nodes -> L!Nodes] /\ Moves(comm, comm', i, b)
                /\ IntoOf(adj, comm, i, b) > 0 /\ GainOf(adj, comm, sigmaTot, i, b) > 0
                /\ sigmaTot' = Degrees(adj, comm') /\ improved' = TRUE
<1>0. NNodes \in Nat /\ adj \in Matrices /\ comm \in [L!Nodes -> L!Nodes] /\ improved \in BOOLEAN
  BY DEF L!LouvainAssumption, LouvainInv
<1>1. PICK b \in L!BestComms(i) : /\ comm' = [comm EXCEPT ![i] = b]
                                  /\ sigmaTot' = L!Shifted(i, b)
                                  /\ improved' = (improved \/ b # comm[i])
  BY DEF L!Visit
<1>2. sigmaTot = Degrees(adj, comm)
  BY DEF L!Visit, LouvainInv
<1>3. comm[i] \in L!Nodes /\ b \in L!Nodes
  BY <1>0 DEF L!BestComms
<1>4. PICK d \in Int : d = L!Degree(adj, i)
  BY <1>0, DegreeIsNat
<1>5. \A k \in L!Nodes : sigmaTot[k] = L!DegreeOf(adj, comm, k) /\ sigmaTot[k] \in Int
  BY <1>0, <1>2, DegreeOfIsNat DEF Degrees
<1>6. CASE b = comm[i]
  <2>1. comm' = comm
    BY <1>0, <1>1, <1>6
  <2>2. sigmaTot' = sigmaTot
    <3>1. \A k \in L!Nodes : sigmaTot[k] - (IF k = comm[i] THEN d ELSE 0)
                                         + (IF k = b THEN d ELSE 0) = sigmaTot[k]
      BY <1>5, <1>6
    <3>2. sigmaTot' = [k \in L!Nodes |-> sigmaTot[k] - (IF k = comm[i] THEN d ELSE 0)
                                                     + (IF k = b THEN d ELSE 0)]
      BY <1>1, <1>4 DEF L!Shifted
    <3>3. sigmaTot' = [k \in L!Nodes |-> sigmaTot[k]]
      BY <3>1, <3>2
    <3> QED
      BY <1>2, <3>3 DEF Degrees
  <2>3. improved' = improved
    BY <1>0, <1>1, <1>6
  <2>4. Settled(adj, comm, sigmaTot, i)
    <3> SUFFICES ASSUME NEW k \in L!Nodes, IntoOf(adj, comm, i, k) > 0,
                        GainOf(adj, comm, sigmaTot, i, k) > 0
                 PROVE  FALSE
      BY DEF Settled
    <3>1. L!Into(i, k) > 0 /\ L!Gain(i, k) > 0
      BY IntoAndGain
    <3>2. L!Gain(i, b) > 0
      BY <3>1 DEF L!BestComms
    <3>3. GainOf(adj, comm, sigmaTot, i, comm[i]) = 0
      BY <1>0, <1>2, StayingGainsNothing
    <3> QED
      BY <1>6, <3>2, <3>3, IntoAndGain
  <2> QED
    BY <2>1, <2>2, <2>3, <2>4
<1>7. CASE b # comm[i]
  <2>1. comm' \in [L!Nodes -> L!Nodes] /\ Moves(comm, comm', i, b)
    BY <1>0, <1>1, <1>3 DEF Moves
  <2>2. L!Into(i, b) > 0 /\ L!Gain(i, b) > 0
    BY <1>7 DEF L!BestComms
  <2>3. IntoOf(adj, comm, i, b) > 0 /\ GainOf(adj, comm, sigmaTot, i, b) > 0
    BY <2>2, IntoAndGain
  <2>4. PICK e \in [L!Nodes -> L!Nodes] : e = comm'
    BY <2>1
  <2>5. ASSUME NEW k \in L!Nodes
        PROVE  sigmaTot[k] - (IF k = comm[i] THEN d ELSE 0) + (IF k = b THEN d ELSE 0)
                 = L!DegreeOf(adj, e, k)
    <3>1. PICK x \in Int : x = L!DegreeOf(adj, comm, k)
      BY <1>0, DegreeOfIsNat
    <3>2. PICK y \in Int : y = L!DegreeOf(adj, e, k)
      BY <1>0, DegreeOfIsNat
    <3>3. Moves(comm, e, i, b)
      BY <2>1, <2>4, Zenon
    <3>4. /\ k = comm[i] /\ k # b => y = x - d
          /\ k = b /\ k # comm[i] => y = x + d
          /\ k # b /\ k # comm[i] => y = x
      BY <1>0, <1>3, <1>4, <3>1, <3>2, <3>3, DegreeOfMoves
    <3>5. sigmaTot[k] = x
      BY <1>5, <3>1
    <3> QED
      BY <1>7, <3>2, <3>4, <3>5
  <2>6. sigmaTot' = [k \in L!Nodes |-> sigmaTot[k] - (IF k = comm[i] THEN d ELSE 0)
                                                   + (IF k = b THEN d ELSE 0)]
    BY <1>1, <1>4 DEF L!Shifted
  <2>7. sigmaTot' = Degrees(adj, e)
    BY <2>5, <2>6 DEF Degrees
  <2>8. improved' = TRUE
    BY <1>1, <1>7
  <2> QED
    BY <1>3, <1>7, <2>1, <2>3, <2>4, <2>7, <2>8
<1> QED
  BY <1>6, <1>7

(* A visit keeps the invariant.                                              *)
LEMMA LouvainVisit ==
    ASSUME L!LouvainAssumption, LouvainInv, NEW i \in L!Nodes, L!Visit(i)
    PROVE  LouvainInv'
<1>1. UNCHANGED <<adj, orig, phase>> /\ phase = "louvain" /\ todo' = todo \ {i}
  BY DEF L!Visit
<1>2. CASE /\ comm' = comm /\ sigmaTot' = sigmaTot /\ improved' = improved
           /\ Settled(adj, comm, sigmaTot, i)
  BY <1>1, <1>2 DEF LouvainInv
<1>3. ASSUME NEW b \in L!Nodes, b # comm[i], comm' \in [L!Nodes -> L!Nodes],
             IntoOf(adj, comm, i, b) > 0, sigmaTot' = Degrees(adj, comm'), improved' = TRUE
      PROVE  LouvainInv'
  <2>1. ~Diagonal(adj)
    <3> SUFFICES ASSUME Diagonal(adj) PROVE FALSE
      OBVIOUS
    <3>1. comm = Alone /\ b # i
      BY <1>3 DEF LouvainInv, Alone
    <3>2. IntoOf(adj, Alone, i, b) = 0
      BY <3>1, DiagonalStays DEF LouvainInv, L!LouvainAssumption
    <3> QED
      BY <1>3, <3>1, <3>2
  <2> QED
    BY <1>1, <1>3, <2>1 DEF LouvainInv
<1> QED
  BY <1>2, <1>3, VisitSettlesOrGains

(* The next pass keeps the invariant: every node is to be visited.           *)
LEMMA LouvainNextPass ==
    ASSUME LouvainInv, L!NextPass
    PROVE  LouvainInv'
  BY DEF LouvainInv, L!NextPass

(* The super-graph has all its weight in one loop.                           *)
LEMMA SuperIsDiagonal ==
    ASSUME NNodes \in Nat, orig \in Matrices, NEW p, NEW last
    PROVE  L!Super(p, last) \in Matrices /\ Symmetric(L!Super(p, last)) /\ Diagonal(L!Super(p, last))
<1> DEFINE inner == [i \in L!Nodes |-> L!Total([j \in L!Nodes |-> IF p[i] # p[j] THEN orig[<<i, j>>] ELSE 0])]
           between == L!Total(inner)
<1>1. ASSUME NEW i \in L!Nodes PROVE inner[i] \in Nat
  <2> DEFINE f == [j \in L!Nodes |-> IF p[i] # p[j] THEN orig[<<i, j>>] ELSE 0]
  <2>1. \A j \in L!Nodes : f[j] \in Nat
    BY DEF Matrices
  <2>2. inner[i] = L!Total(f)
    OBVIOUS
  <2> HIDE DEF f, inner
  <2> QED
    BY <2>1, <2>2, TotalIsNat
<1>2. between \in Nat
  <2> HIDE DEF inner
  <2> QED
    BY <1>1, TotalIsNat
<1>3. L!Super(p, last) = [q \in L!Nodes \X L!Nodes |-> IF q = <<last, last>> THEN between ELSE 0]
  BY DEF L!Super
<1> HIDE DEF between
<1>4. L!Super(p, last) \in Matrices
  BY <1>2, <1>3 DEF Matrices
<1>5. Symmetric(L!Super(p, last))
  <2>1. \A i, j \in L!Nodes : <<i, j>> = <<last, last>> <=> <<j, i>> = <<last, last>>
    OBVIOUS
  <2> QED
    BY <1>3, <2>1 DEF Symmetric
<1>6. Diagonal(L!Super(p, last))
  <2>1. \A i, j \in L!Nodes : i # j => <<i, j>> # <<last, last>>
    OBVIOUS
  <2> QED
    BY <1>3, <2>1 DEF Diagonal
<1> QED
  BY <1>4, <1>5, <1>6

(* The next level keeps the invariant, and begins with a diagonal matrix.    *)
LEMMA LouvainNextLevel ==
    ASSUME L!LouvainAssumption, LouvainInv, L!NextLevel
    PROVE  LouvainInv' /\ Diagonal(adj') /\ comm' = Alone
<1>1. PICK last : adj' = L!Super(L!Mapped, last) /\ L!Begin(adj')
  BY DEF L!NextLevel
<1>2. NNodes \in Nat /\ orig \in Matrices
  BY DEF L!LouvainAssumption, LouvainInv
<1>3. PICK p : p = L!Mapped
  OBVIOUS
<1>4. adj' \in Matrices /\ Symmetric(adj') /\ Diagonal(adj')
  BY <1>1, <1>2, <1>3, SuperIsDiagonal
<1>5. PICK a \in Matrices : a = adj'
  BY <1>4
<1>6. /\ comm' = Alone /\ comm' \in [L!Nodes -> L!Nodes]
      /\ sigmaTot' = Degrees(a, Alone)
      /\ todo' \subseteq L!Nodes /\ improved' = FALSE
      /\ \A i \in L!Nodes \ todo' : Settled(a, comm', sigmaTot', i)
  BY <1>1, <1>2, <1>5, BeginSettles
<1>7. orig' = orig /\ phase' = phase /\ phase = "louvain"
  BY DEF L!NextLevel, L!PassesOver
<1> QED
  BY <1>2, <1>4, <1>5, <1>6, <1>7 DEF LouvainInv

(* The end keeps the invariant.                                              *)
LEMMA LouvainFinish ==
    ASSUME LouvainInv, L!Finish
    PROVE  LouvainInv'
  BY DEF LouvainInv, L!Finish, L!PassesOver

(* A stuttering step keeps the invariant.                                    *)
LEMMA LouvainStutters ==
    ASSUME LouvainInv, UNCHANGED L!vars
    PROVE  LouvainInv'
  BY DEF LouvainInv, L!vars

(* The invariant is inductive.                                               *)
LEMMA LouvainInductive == L!Spec => []LouvainInv
<1>1. L!LouvainAssumption
  BY RetrievalAssumption
<1>2. L!Init => LouvainInv
  BY <1>1, LouvainInit
<1>3. LouvainInv /\ [L!Next]_(L!vars) => LouvainInv'
  <2> SUFFICES ASSUME LouvainInv, L!Next PROVE LouvainInv'
    BY LouvainStutters
  <2> QED
    BY <1>1, LouvainNewEdge, LouvainStart, LouvainVisit, LouvainNextPass, LouvainNextLevel,
       LouvainFinish DEF L!Next
<1> QED
  BY <1>2, <1>3, PTL DEF L!Spec

(* When the passes end because nothing moved, moving any one node without a  *)
(* loop into a neighbour's community would not raise the modularity,         *)
(* whatever the graph is and whatever the order of the visits was.           *)
THEOREM LocalOptimum == L!Spec => []StopsAtLocalOptimum
<1>1. LouvainInv => StopsAtLocalOptimum
  <2> SUFFICES ASSUME LouvainInv, L!PassesOver, ~improved,
                      NEW i \in L!Nodes, NEW j \in L!Nodes, adj[<<i, j>>] > 0, adj[<<i, i>>] = 0
               PROVE  L!Modularity(adj, [comm EXCEPT ![i] = comm[j]]) <= L!Modularity(adj, comm)
    BY DEF StopsAtLocalOptimum, L!StopsAtLocalOptimum
  <2>0. NNodes \in Nat
    BY RetrievalAssumption DEF L!LouvainAssumption
  <2>1. /\ adj \in Matrices /\ Symmetric(adj) /\ comm \in [L!Nodes -> L!Nodes]
        /\ sigmaTot = Degrees(adj, comm) /\ Settled(adj, comm, sigmaTot, i)
    BY DEF LouvainInv, L!PassesOver
  <2>2. PICK b \in L!Nodes : b = comm[j]
    BY <2>1
  <2>3. PICK e \in [L!Nodes -> L!Nodes] : e = [comm EXCEPT ![i] = b]
    BY <2>1
  <2>4. Moves(comm, e, i, b)
    BY <2>1, <2>3 DEF Moves
  <2>5. L!Modularity(adj, e) <= L!Modularity(adj, comm)
    <3>1. CASE b = comm[i]
      <4>1. e = comm
        BY <2>1, <2>3, <3>1
      <4>2. L!Modularity(adj, comm) \in Int
        BY <2>0, <2>1, ModularityIsInt
      <4> QED
        BY <4>1, <4>2
    <3>2. CASE b # comm[i]
      <4>1. IntoOf(adj, comm, i, b) > 0
        <5>1. adj[<<i, j>>] <= IntoOf(adj, comm, i, b) /\ IntoOf(adj, comm, i, b) \in Nat
          BY <2>0, <2>1, <2>2, IntoIsNat
        <5>2. adj[<<i, j>>] \in Nat
          BY <2>1 DEF Matrices
        <5> QED
          BY <5>1, <5>2
      <4>2. ~(GainOf(adj, comm, Degrees(adj, comm), i, b) > 0)
        BY <2>1, <4>1 DEF Settled
      <4> QED
        BY <2>0, <2>1, <2>4, <3>2, <4>2, GainDecides
    <3> QED
      BY <3>1, <3>2
  <2> QED
    BY <2>2, <2>3, <2>5
<1> QED
  BY <1>1, LouvainInductive, PTL

(* Every move of a node raises the modularity of the partition; the one      *)
(* other step that sets the partition on an unchanged graph leaves it as it  *)
(* was.  The totals that the code updates along the way never drift.         *)
THEOREM MovesRaise == L!Spec => MovesRaiseModularity
<1> DEFINE Raises == comm' # comm /\ adj' = adj => L!Modularity(adj, comm') > L!Modularity(adj, comm)
<1>1. L!LouvainAssumption
  BY RetrievalAssumption
<1>2. LouvainInv /\ [L!Next]_(L!vars) => [Raises]_(L!vars)
  <2> SUFFICES ASSUME LouvainInv, L!Next, comm' # comm, adj' = adj
               PROVE  L!Modularity(adj, comm') > L!Modularity(adj, comm)
    OBVIOUS
  <2>1. ASSUME NEW s \in L!Nodes, NEW t \in L!Nodes, NEW w \in Weights, L!NewEdge(s, t, w)
        PROVE  FALSE
    BY <2>1 DEF L!NewEdge
  <2>2. ~L!Start
    BY DEF L!Start, L!Begin, LouvainInv, Alone
  <2>3. ASSUME NEW i \in L!Nodes, L!Visit(i)
        PROVE  L!Modularity(adj, comm') > L!Modularity(adj, comm)
    <3>1. PICK b \in L!Nodes :
             /\ b # comm[i] /\ comm' \in [L!Nodes -> L!Nodes] /\ Moves(comm, comm', i, b)
             /\ GainOf(adj, comm, sigmaTot, i, b) > 0
      BY <1>1, <2>3, VisitSettlesOrGains
    <3>2. /\ NNodes \in Nat /\ adj \in Matrices /\ Symmetric(adj) /\ comm \in [L!Nodes -> L!Nodes]
          /\ sigmaTot = Degrees(adj, comm)
      BY <1>1, <2>3 DEF LouvainInv, L!Visit, L!LouvainAssumption
    <3>3. PICK e \in [L!Nodes -> L!Nodes] : e = comm'
      BY <3>1
    <3>4. Moves(comm, e, i, b) /\ GainOf(adj, comm, Degrees(adj, comm), i, b) > 0
      BY <3>1, <3>2, <3>3, Zenon
    <3>5. L!Modularity(adj, e) > L!Modularity(adj, comm)
      BY <3>1, <3>2, <3>4, GainDecides
    <3> QED
      BY <3>3, <3>5
  <2>4. ~L!NextPass /\ ~L!Finish
    BY DEF L!NextPass, L!Finish
  <2>5. ~L!NextLevel
    <3> SUFFICES ASSUME L!NextLevel PROVE FALSE
      OBVIOUS
    <3>1. Diagonal(adj') /\ comm' = Alone
      BY <1>1, LouvainNextLevel
    <3>2. comm = Alone
      BY <3>1 DEF LouvainInv
    <3> QED
      BY <3>1, <3>2
  <2> QED
    BY <2>1, <2>2, <2>3, <2>4, <2>5 DEF L!Next
<1>3. []LouvainInv /\ [][L!Next]_(L!vars) => [][Raises]_(L!vars)
  BY <1>2, PTL
<1>4. L!Spec => [][L!Next]_(L!vars)
  BY PTL DEF L!Spec
<1>5. L!Spec => [][Raises]_(L!vars)
  BY <1>3, <1>4, LouvainInductive, PTL
<1> QED
  BY <1>5 DEF MovesRaiseModularity, L!MovesRaiseModularity

=============================================================================
