----------------------------- MODULE ServeProofs -----------------------------
(***************************************************************************)
(* Proofs about Serve, for any uploads, streams and size of the pool: its  *)
(* type invariant, that stores are closed under a job only after a         *)
(* deadline, and that a process which met its deadlines ends clean.        *)
(***************************************************************************)
EXTENDS Serve, TLAPS

Active(u) == job[u] \in {"accepted", "running"}
Over == {"defers", "closed", "exited"}

(* The only handle that is open is the cached one.                         *)
CacheInv == open = {cached} \ {NoHandle}

(* Before the server serves, and forever if the boot failed, there are     *)
(* neither requests nor jobs.                                              *)
BootInv ==
    /\ phase \in Booting \/ err = "boot" =>
          /\ request = [r \in Requests |-> "new"] /\ conn = {}
          /\ \A u \in Uploads : job[u] = "unseen"
    /\ phase = "registry" => open = {}

(* An error ends RunE; without one it comes to its end through the drain.  *)
PhaseInv ==
    /\ err # "none" => phase \in Over
    /\ err = "none" /\ phase \in Over => drained \/ cancelled
    /\ err = "none" /\ phase \in Over \cup {"drain"} => conn = {} /\ ~accepting
    /\ drained => ~accepting /\ \A u \in Uploads : ~Active(u)

(* A handler that runs has its connection, or was answered for; and its    *)
(* job is not submitted yet.                                               *)
RequestInv ==
    \A u \in Uploads : request[u] # "over" =>
        /\ job[u] = "unseen"
        /\ request[u] = "new" \/ u \in conn \cup expired

(* Until the deferred closes, what holds a handle holds an open one.       *)
HeldInv ==
    phase \notin {"closed", "exited"} =>
        \A u \in Uploads : request[u] = "holding" \/ Active(u) => held[u] \in open

(* A store that is open after the closes was asked for by a handler that   *)
(* outlived its answer, or Shutdown.                                       *)
LeftOpenInv ==
    phase \in {"closed", "exited"} /\ open # {} => expired # {} \/ err = "shutdown"

IInv ==
    /\ TypeOK
    /\ CacheInv /\ BootInv /\ PhaseInv /\ RequestInv
    /\ HeldInv /\ LeftOpenInv
    /\ NoStoreClosedUnderJob

-----------------------------------------------------------------------------

(* The inductive invariant holds when serve has started.                   *)
LEMMA InitIInv == Init => IInv
<1> SUFFICES ASSUME Init PROVE IInv
  OBVIOUS
<1> USE ServeAssumption
<1>1. TypeOK
  <2>1. /\ request \in [Requests -> {"new", "begun", "holding", "over"}]
        /\ job \in [Uploads -> Pool!States]
    BY DEF Init, Pool!ServiceInit, Pool!States
  <2>2. held \in [Uploads -> 0 .. opened] /\ opened = 0 /\ open = {} /\ cached = NoHandle
    BY DEF Init, NoHandle
  <2>3. accepting \in BOOLEAN /\ drained \in BOOLEAN /\ cancelled \in BOOLEAN
    BY DEF Init, Pool!ServiceInit
  <2>4. /\ phase \in Phases /\ err \in {"none", "boot", "shutdown"}
        /\ follows \in [Streams -> Uploads]
        /\ conn \subseteq Requests /\ expired \subseteq Uploads /\ harmed \subseteq Uploads
    BY DEF Init, Phases, Booting
  <2> QED
    BY <2>1, <2>2, <2>3, <2>4 DEF TypeOK
<1>2. CacheInv /\ BootInv /\ PhaseInv
  BY DEF Init, CacheInv, BootInv, PhaseInv, NoHandle, Over, Booting, Pool!ServiceInit
<1>3. RequestInv /\ HeldInv /\ LeftOpenInv /\ NoStoreClosedUnderJob
  BY DEF Init, RequestInv, HeldInv, LeftOpenInv, NoStoreClosedUnderJob, Requests, Active,
     Pool!ServiceInit
<1> QED
  BY <1>1, <1>2, <1>3 DEF IInv

(* Types.                                                                  *)
LEMMA TypeOKStep == TypeOK /\ [Next]_vars => TypeOK'
<1> SUFFICES ASSUME TypeOK, [Next]_vars PROVE TypeOK'
  OBVIOUS
<1> USE ServeAssumption DEF Requests, NoHandle, Phases, Booting, Over, Active,
     Pool!States, stores, requests, pool
<1>1. CASE OpenRegistry \/ BootOn
  BY <1>1 DEF TypeOK, OpenRegistry, BootOn, BootStep
<1>2. CASE OpenDefaultStore
  BY <1>2 DEF TypeOK, OpenDefaultStore, BootStep, Get, Handle
<1>3. CASE BootFails
  BY <1>3 DEF TypeOK, BootFails
<1>4. ASSUME NEW r \in Requests, Arrive(r) PROVE TypeOK'
  BY <1>4 DEF TypeOK, Arrive
<1>5. ASSUME NEW u \in Uploads, ResolveStore(u) PROVE TypeOK'
  BY <1>5 DEF TypeOK, ResolveStore, Get, Handle, Alive
<1>6. ASSUME NEW u \in Uploads, Submit(u) PROVE TypeOK'
  BY <1>6 DEF TypeOK, Submit, Answered, Alive, Pool!Accept, Pool!Refuse
<1>7. ASSUME NEW u \in Uploads, RequestFails(u) PROVE TypeOK'
  BY <1>7 DEF TypeOK, RequestFails, Answered, Alive, Pool!Refuse
<1>8. ASSUME NEW u \in Uploads, RequestTimeout(u) PROVE TypeOK'
  BY <1>8 DEF TypeOK, RequestTimeout, Alive
<1>9. ASSUME NEW u \in Uploads, JobStarts(u) \/ JobReturns(u) PROVE TypeOK'
  <2>1. \E s \in Pool!States : job' = [job EXCEPT ![u] = s]
    BY <1>9 DEF JobStarts, JobReturns, Pool!Start, Pool!Finish
  <2>2. UNCHANGED << phase, err, request, conn, expired, follows, held, opened, open,
                     cached, harmed, accepting, drained, cancelled >>
    BY <1>9 DEF JobStarts, JobReturns, Pool!Start, Pool!Finish
  <2> QED
    BY <2>1, <2>2 DEF TypeOK
<1>10. ASSUME NEW u \in Uploads, JobUsesStore(u) PROVE TypeOK'
  BY <1>10 DEF TypeOK, JobUsesStore, Alive
<1>11. ASSUME NEW s \in Streams, StreamOver(s) PROVE TypeOK'
  BY <1>11 DEF TypeOK, StreamOver, Alive
<1>12. CASE Signal
  BY <1>12 DEF TypeOK, Signal
<1>13. CASE ShutdownDone
  BY <1>13 DEF TypeOK, ShutdownDone, Pool!Stop
<1>14. CASE ShutdownExpires
  BY <1>14 DEF TypeOK, ShutdownExpires
<1>15. CASE DrainDone
  BY <1>15 DEF TypeOK, DrainDone, Pool!ReportDrained
<1>16. CASE DrainExpires
  BY <1>16 DEF TypeOK, DrainExpires
<1>17. CASE Defers
  BY <1>17 DEF TypeOK, Defers, CloseStores
<1>18. CASE Exit
  BY <1>18 DEF TypeOK, Exit
<1>19. CASE UNCHANGED vars
  BY <1>19 DEF TypeOK, vars
<1> QED
  BY <1>1, <1>2, <1>3, <1>4, <1>5, <1>6, <1>7, <1>8, <1>9, <1>10, <1>11, <1>12, <1>13,
     <1>14, <1>15, <1>16, <1>17, <1>18, <1>19
     DEF Next, StreamEnds, ClientLeaves

(* A new handle is opened only when none is cached.                        *)
LEMMA CacheStep == TypeOK /\ CacheInv /\ [Next]_vars => CacheInv'
<1> SUFFICES ASSUME TypeOK, CacheInv, [Next]_vars PROVE CacheInv'
  OBVIOUS
<1> USE ServeAssumption DEF Requests, NoHandle, Phases, Booting, Over, Active,
     Pool!States, stores, requests, pool
<1>1. CASE OpenRegistry \/ BootOn
  BY <1>1 DEF TypeOK, CacheInv, OpenRegistry, BootOn, BootStep
<1>2. CASE OpenDefaultStore
  BY <1>2 DEF TypeOK, CacheInv, OpenDefaultStore, BootStep, Get, Handle
<1>3. CASE BootFails
  BY <1>3 DEF TypeOK, CacheInv, BootFails
<1>4. ASSUME NEW r \in Requests, Arrive(r) PROVE CacheInv'
  BY <1>4 DEF TypeOK, CacheInv, Arrive
<1>5. ASSUME NEW u \in Uploads, ResolveStore(u) PROVE CacheInv'
  BY <1>5 DEF TypeOK, CacheInv, ResolveStore, Get, Handle, Alive
<1>6. ASSUME NEW u \in Uploads, Submit(u) PROVE CacheInv'
  BY <1>6 DEF TypeOK, CacheInv, Submit, Answered, Alive, Pool!Accept, Pool!Refuse
<1>7. ASSUME NEW u \in Uploads, RequestFails(u) PROVE CacheInv'
  BY <1>7 DEF TypeOK, CacheInv, RequestFails, Answered, Alive, Pool!Refuse
<1>8. ASSUME NEW u \in Uploads, RequestTimeout(u) PROVE CacheInv'
  BY <1>8 DEF TypeOK, CacheInv, RequestTimeout, Alive
<1>9. ASSUME NEW u \in Uploads, JobStarts(u) \/ JobReturns(u) PROVE CacheInv'
  BY <1>9 DEF TypeOK, CacheInv, JobStarts, JobReturns, Alive, Pool!Start, Pool!Finish
<1>10. ASSUME NEW u \in Uploads, JobUsesStore(u) PROVE CacheInv'
  BY <1>10 DEF TypeOK, CacheInv, JobUsesStore, Alive
<1>11. ASSUME NEW s \in Streams, StreamOver(s) PROVE CacheInv'
  BY <1>11 DEF TypeOK, CacheInv, StreamOver, Alive
<1>12. CASE Signal
  BY <1>12 DEF TypeOK, CacheInv, Signal
<1>13. CASE ShutdownDone
  BY <1>13 DEF TypeOK, CacheInv, ShutdownDone, Pool!Stop
<1>14. CASE ShutdownExpires
  BY <1>14 DEF TypeOK, CacheInv, ShutdownExpires
<1>15. CASE DrainDone
  BY <1>15 DEF TypeOK, CacheInv, DrainDone, Pool!ReportDrained
<1>16. CASE DrainExpires
  BY <1>16 DEF TypeOK, CacheInv, DrainExpires
<1>17. CASE Defers
  BY <1>17 DEF TypeOK, CacheInv, Defers, CloseStores
<1>18. CASE Exit
  BY <1>18 DEF TypeOK, CacheInv, Exit
<1>19. CASE UNCHANGED vars
  BY <1>19 DEF TypeOK, CacheInv, vars
<1> QED
  BY <1>1, <1>2, <1>3, <1>4, <1>5, <1>6, <1>7, <1>8, <1>9, <1>10, <1>11, <1>12, <1>13,
     <1>14, <1>15, <1>16, <1>17, <1>18, <1>19
     DEF Next, StreamEnds, ClientLeaves

(* Requests arrive only while the server serves or shuts down.             *)
LEMMA BootInvStep == TypeOK /\ BootInv /\ PhaseInv /\ [Next]_vars => BootInv'
<1> SUFFICES ASSUME TypeOK, BootInv, PhaseInv, [Next]_vars PROVE BootInv'
  OBVIOUS
<1> USE ServeAssumption DEF Requests, NoHandle, Phases, Booting, Over, Active,
     Pool!States, stores, requests, pool
<1>1. CASE OpenRegistry \/ BootOn
  BY <1>1 DEF TypeOK, BootInv, PhaseInv, OpenRegistry, BootOn, BootStep
<1>2. CASE OpenDefaultStore
  BY <1>2 DEF TypeOK, BootInv, PhaseInv, OpenDefaultStore, BootStep, Get, Handle
<1>3. CASE BootFails
  BY <1>3 DEF TypeOK, BootInv, PhaseInv, BootFails
<1>4. ASSUME NEW r \in Requests, Arrive(r) PROVE BootInv'
  BY <1>4 DEF TypeOK, BootInv, PhaseInv, Arrive
<1>5. ASSUME NEW u \in Uploads, ResolveStore(u) PROVE BootInv'
  BY <1>5 DEF TypeOK, BootInv, PhaseInv, ResolveStore, Get, Handle, Alive
<1>6. ASSUME NEW u \in Uploads, Submit(u) PROVE BootInv'
  BY <1>6 DEF TypeOK, BootInv, PhaseInv, Submit, Answered, Alive, Pool!Accept,
     Pool!Refuse
<1>7. ASSUME NEW u \in Uploads, RequestFails(u) PROVE BootInv'
  BY <1>7 DEF TypeOK, BootInv, PhaseInv, RequestFails, Answered, Alive, Pool!Refuse
<1>8. ASSUME NEW u \in Uploads, RequestTimeout(u) PROVE BootInv'
  BY <1>8 DEF TypeOK, BootInv, PhaseInv, RequestTimeout, Alive
<1>9. ASSUME NEW u \in Uploads, JobStarts(u) \/ JobReturns(u) PROVE BootInv'
  BY <1>9 DEF TypeOK, BootInv, PhaseInv, JobStarts, JobReturns, Alive, Pool!Start,
     Pool!Finish
<1>10. ASSUME NEW u \in Uploads, JobUsesStore(u) PROVE BootInv'
  BY <1>10 DEF TypeOK, BootInv, PhaseInv, JobUsesStore, Alive
<1>11. ASSUME NEW s \in Streams, StreamOver(s) PROVE BootInv'
  BY <1>11 DEF TypeOK, BootInv, PhaseInv, StreamOver, Alive
<1>12. CASE Signal
  BY <1>12 DEF TypeOK, BootInv, PhaseInv, Signal
<1>13. CASE ShutdownDone
  BY <1>13 DEF TypeOK, BootInv, PhaseInv, ShutdownDone, Pool!Stop
<1>14. CASE ShutdownExpires
  BY <1>14 DEF TypeOK, BootInv, PhaseInv, ShutdownExpires
<1>15. CASE DrainDone
  BY <1>15 DEF TypeOK, BootInv, PhaseInv, DrainDone, Pool!ReportDrained
<1>16. CASE DrainExpires
  BY <1>16 DEF TypeOK, BootInv, PhaseInv, DrainExpires
<1>17. CASE Defers
  BY <1>17 DEF TypeOK, BootInv, PhaseInv, Defers, CloseStores
<1>18. CASE Exit
  BY <1>18 DEF TypeOK, BootInv, PhaseInv, Exit
<1>19. CASE UNCHANGED vars
  BY <1>19 DEF TypeOK, BootInv, PhaseInv, vars
<1> QED
  BY <1>1, <1>2, <1>3, <1>4, <1>5, <1>6, <1>7, <1>8, <1>9, <1>10, <1>11, <1>12, <1>13,
     <1>14, <1>15, <1>16, <1>17, <1>18, <1>19
     DEF Next, StreamEnds, ClientLeaves

(* Nothing arrives after Shutdown and nothing is accepted after the drain began. *)
LEMMA PhaseStep == TypeOK /\ BootInv /\ PhaseInv /\ [Next]_vars => PhaseInv'
<1> SUFFICES ASSUME TypeOK, BootInv, PhaseInv, [Next]_vars PROVE PhaseInv'
  OBVIOUS
<1> USE ServeAssumption DEF Requests, NoHandle, Phases, Booting, Over, Active,
     Pool!States, stores, requests, pool
<1>1. CASE OpenRegistry \/ BootOn
  BY <1>1 DEF TypeOK, BootInv, PhaseInv, OpenRegistry, BootOn, BootStep
<1>2. CASE OpenDefaultStore
  BY <1>2 DEF TypeOK, BootInv, PhaseInv, OpenDefaultStore, BootStep, Get, Handle
<1>3. CASE BootFails
  BY <1>3 DEF TypeOK, BootInv, PhaseInv, BootFails
<1>4. ASSUME NEW r \in Requests, Arrive(r) PROVE PhaseInv'
  BY <1>4 DEF TypeOK, BootInv, PhaseInv, Arrive
<1>5. ASSUME NEW u \in Uploads, ResolveStore(u) PROVE PhaseInv'
  BY <1>5 DEF TypeOK, BootInv, PhaseInv, ResolveStore, Get, Handle, Alive
<1>6. ASSUME NEW u \in Uploads, Submit(u) PROVE PhaseInv'
  BY <1>6 DEF TypeOK, BootInv, PhaseInv, Submit, Answered, Alive, Pool!Accept,
     Pool!Refuse
<1>7. ASSUME NEW u \in Uploads, RequestFails(u) PROVE PhaseInv'
  BY <1>7 DEF TypeOK, BootInv, PhaseInv, RequestFails, Answered, Alive, Pool!Refuse
<1>8. ASSUME NEW u \in Uploads, RequestTimeout(u) PROVE PhaseInv'
  BY <1>8 DEF TypeOK, BootInv, PhaseInv, RequestTimeout, Alive
<1>9. ASSUME NEW u \in Uploads, JobStarts(u) \/ JobReturns(u) PROVE PhaseInv'
  BY <1>9 DEF TypeOK, BootInv, PhaseInv, JobStarts, JobReturns, Alive, Pool!Start,
     Pool!Finish
<1>10. ASSUME NEW u \in Uploads, JobUsesStore(u) PROVE PhaseInv'
  BY <1>10 DEF TypeOK, BootInv, PhaseInv, JobUsesStore, Alive
<1>11. ASSUME NEW s \in Streams, StreamOver(s) PROVE PhaseInv'
  BY <1>11 DEF TypeOK, BootInv, PhaseInv, StreamOver, Alive
<1>12. CASE Signal
  BY <1>12 DEF TypeOK, BootInv, PhaseInv, Signal
<1>13. CASE ShutdownDone
  BY <1>13 DEF TypeOK, BootInv, PhaseInv, ShutdownDone, Pool!Stop
<1>14. CASE ShutdownExpires
  BY <1>14 DEF TypeOK, BootInv, PhaseInv, ShutdownExpires
<1>15. CASE DrainDone
  BY <1>15 DEF TypeOK, BootInv, PhaseInv, DrainDone, Pool!ReportDrained
<1>16. CASE DrainExpires
  BY <1>16 DEF TypeOK, BootInv, PhaseInv, DrainExpires
<1>17. CASE Defers
  BY <1>17 DEF TypeOK, BootInv, PhaseInv, Defers, CloseStores
<1>18. CASE Exit
  BY <1>18 DEF TypeOK, BootInv, PhaseInv, Exit
<1>19. CASE UNCHANGED vars
  BY <1>19 DEF TypeOK, BootInv, PhaseInv, vars
<1> QED
  BY <1>1, <1>2, <1>3, <1>4, <1>5, <1>6, <1>7, <1>8, <1>9, <1>10, <1>11, <1>12, <1>13,
     <1>14, <1>15, <1>16, <1>17, <1>18, <1>19
     DEF Next, StreamEnds, ClientLeaves

(* A request loses its connection when it is answered, or expires.         *)
LEMMA RequestStep == TypeOK /\ RequestInv /\ [Next]_vars => RequestInv'
<1> SUFFICES ASSUME TypeOK, RequestInv, [Next]_vars PROVE RequestInv'
  OBVIOUS
<1> USE ServeAssumption DEF Requests, NoHandle, Phases, Booting, Over, Active,
     Pool!States, stores, requests, pool
<1>1. CASE OpenRegistry \/ BootOn
  BY <1>1 DEF TypeOK, RequestInv, OpenRegistry, BootOn, BootStep
<1>2. CASE OpenDefaultStore
  BY <1>2 DEF TypeOK, RequestInv, OpenDefaultStore, BootStep, Get, Handle
<1>3. CASE BootFails
  BY <1>3 DEF TypeOK, RequestInv, BootFails
<1>4. ASSUME NEW r \in Requests, Arrive(r) PROVE RequestInv'
  BY <1>4 DEF TypeOK, RequestInv, Arrive
<1>5. ASSUME NEW u \in Uploads, ResolveStore(u) PROVE RequestInv'
  BY <1>5 DEF TypeOK, RequestInv, ResolveStore, Get, Handle, Alive
<1>6. ASSUME NEW u \in Uploads, Submit(u) PROVE RequestInv'
  BY <1>6 DEF TypeOK, RequestInv, Submit, Answered, Alive, Pool!Accept, Pool!Refuse
<1>7. ASSUME NEW u \in Uploads, RequestFails(u) PROVE RequestInv'
  BY <1>7 DEF TypeOK, RequestInv, RequestFails, Answered, Alive, Pool!Refuse
<1>8. ASSUME NEW u \in Uploads, RequestTimeout(u) PROVE RequestInv'
  BY <1>8 DEF TypeOK, RequestInv, RequestTimeout, Alive
<1>9. ASSUME NEW u \in Uploads, JobStarts(u) \/ JobReturns(u) PROVE RequestInv'
  BY <1>9 DEF TypeOK, RequestInv, JobStarts, JobReturns, Alive, Pool!Start, Pool!Finish
<1>10. ASSUME NEW u \in Uploads, JobUsesStore(u) PROVE RequestInv'
  BY <1>10 DEF TypeOK, RequestInv, JobUsesStore, Alive
<1>11. ASSUME NEW s \in Streams, StreamOver(s) PROVE RequestInv'
  BY <1>11 DEF TypeOK, RequestInv, StreamOver, Alive
<1>12. CASE Signal
  BY <1>12 DEF TypeOK, RequestInv, Signal
<1>13. CASE ShutdownDone
  BY <1>13 DEF TypeOK, RequestInv, ShutdownDone, Pool!Stop
<1>14. CASE ShutdownExpires
  BY <1>14 DEF TypeOK, RequestInv, ShutdownExpires
<1>15. CASE DrainDone
  BY <1>15 DEF TypeOK, RequestInv, DrainDone, Pool!ReportDrained
<1>16. CASE DrainExpires
  BY <1>16 DEF TypeOK, RequestInv, DrainExpires
<1>17. CASE Defers
  BY <1>17 DEF TypeOK, RequestInv, Defers, CloseStores
<1>18. CASE Exit
  BY <1>18 DEF TypeOK, RequestInv, Exit
<1>19. CASE UNCHANGED vars
  BY <1>19 DEF TypeOK, RequestInv, vars
<1> QED
  BY <1>1, <1>2, <1>3, <1>4, <1>5, <1>6, <1>7, <1>8, <1>9, <1>10, <1>11, <1>12, <1>13,
     <1>14, <1>15, <1>16, <1>17, <1>18, <1>19
     DEF Next, StreamEnds, ClientLeaves

(* Handles are closed by the deferred closes only.                         *)
LEMMA HeldStep == TypeOK /\ CacheInv /\ RequestInv /\ HeldInv /\ [Next]_vars => HeldInv'
<1> SUFFICES ASSUME TypeOK, CacheInv, RequestInv, HeldInv, [Next]_vars PROVE HeldInv'
  OBVIOUS
<1> USE ServeAssumption DEF Requests, NoHandle, Phases, Booting, Over, Active,
     Pool!States, stores, requests, pool
<1>1. CASE OpenRegistry \/ BootOn
  BY <1>1 DEF TypeOK, CacheInv, RequestInv, HeldInv, OpenRegistry, BootOn, BootStep
<1>2. CASE OpenDefaultStore
  BY <1>2 DEF TypeOK, CacheInv, RequestInv, HeldInv, OpenDefaultStore, BootStep, Get,
     Handle
<1>3. CASE BootFails
  BY <1>3 DEF TypeOK, CacheInv, RequestInv, HeldInv, BootFails
<1>4. ASSUME NEW r \in Requests, Arrive(r) PROVE HeldInv'
  BY <1>4 DEF TypeOK, CacheInv, RequestInv, HeldInv, Arrive
<1>5. ASSUME NEW u \in Uploads, ResolveStore(u) PROVE HeldInv'
  BY <1>5 DEF TypeOK, CacheInv, RequestInv, HeldInv, ResolveStore, Get, Handle, Alive
<1>6. ASSUME NEW u \in Uploads, Submit(u) PROVE HeldInv'
  BY <1>6 DEF TypeOK, CacheInv, RequestInv, HeldInv, Submit, Answered, Alive,
     Pool!Accept, Pool!Refuse
<1>7. ASSUME NEW u \in Uploads, RequestFails(u) PROVE HeldInv'
  BY <1>7 DEF TypeOK, CacheInv, RequestInv, HeldInv, RequestFails, Answered, Alive,
     Pool!Refuse
<1>8. ASSUME NEW u \in Uploads, RequestTimeout(u) PROVE HeldInv'
  BY <1>8 DEF TypeOK, CacheInv, RequestInv, HeldInv, RequestTimeout, Alive
<1>9. ASSUME NEW u \in Uploads, JobStarts(u) \/ JobReturns(u) PROVE HeldInv'
  BY <1>9 DEF TypeOK, CacheInv, RequestInv, HeldInv, JobStarts, JobReturns, Alive,
     Pool!Start, Pool!Finish
<1>10. ASSUME NEW u \in Uploads, JobUsesStore(u) PROVE HeldInv'
  BY <1>10 DEF TypeOK, CacheInv, RequestInv, HeldInv, JobUsesStore, Alive
<1>11. ASSUME NEW s \in Streams, StreamOver(s) PROVE HeldInv'
  BY <1>11 DEF TypeOK, CacheInv, RequestInv, HeldInv, StreamOver, Alive
<1>12. CASE Signal
  BY <1>12 DEF TypeOK, CacheInv, RequestInv, HeldInv, Signal
<1>13. CASE ShutdownDone
  BY <1>13 DEF TypeOK, CacheInv, RequestInv, HeldInv, ShutdownDone, Pool!Stop
<1>14. CASE ShutdownExpires
  BY <1>14 DEF TypeOK, CacheInv, RequestInv, HeldInv, ShutdownExpires
<1>15. CASE DrainDone
  BY <1>15 DEF TypeOK, CacheInv, RequestInv, HeldInv, DrainDone, Pool!ReportDrained
<1>16. CASE DrainExpires
  BY <1>16 DEF TypeOK, CacheInv, RequestInv, HeldInv, DrainExpires
<1>17. CASE Defers
  BY <1>17 DEF TypeOK, CacheInv, RequestInv, HeldInv, Defers, CloseStores
<1>18. CASE Exit
  BY <1>18 DEF TypeOK, CacheInv, RequestInv, HeldInv, Exit
<1>19. CASE UNCHANGED vars
  BY <1>19 DEF TypeOK, CacheInv, RequestInv, HeldInv, vars
<1> QED
  BY <1>1, <1>2, <1>3, <1>4, <1>5, <1>6, <1>7, <1>8, <1>9, <1>10, <1>11, <1>12, <1>13,
     <1>14, <1>15, <1>16, <1>17, <1>18, <1>19
     DEF Next, StreamEnds, ClientLeaves

(* Only a handler that still runs asks the cache for a store.              *)
LEMMA LeftOpenStep == TypeOK /\ CacheInv /\ BootInv /\ 
          PhaseInv /\ RequestInv /\ LeftOpenInv /\ [Next]_vars => LeftOpenInv'
<1> SUFFICES ASSUME TypeOK, CacheInv, BootInv, 
                   PhaseInv, RequestInv, LeftOpenInv, [Next]_vars
             PROVE LeftOpenInv'
  OBVIOUS
<1> USE ServeAssumption DEF Requests, NoHandle, Phases, Booting, Over, Active,
     Pool!States, stores, requests, pool
<1>1. CASE OpenRegistry \/ BootOn
  BY <1>1 DEF TypeOK, CacheInv, BootInv, PhaseInv, RequestInv, LeftOpenInv,
     OpenRegistry, BootOn, BootStep
<1>2. CASE OpenDefaultStore
  BY <1>2 DEF TypeOK, CacheInv, BootInv, PhaseInv, RequestInv, LeftOpenInv,
     OpenDefaultStore, BootStep, Get, Handle
<1>3. CASE BootFails
  BY <1>3 DEF TypeOK, CacheInv, BootInv, PhaseInv, RequestInv, LeftOpenInv, BootFails
<1>4. ASSUME NEW r \in Requests, Arrive(r) PROVE LeftOpenInv'
  BY <1>4 DEF TypeOK, CacheInv, BootInv, PhaseInv, RequestInv, LeftOpenInv, Arrive
<1>5. ASSUME NEW u \in Uploads, ResolveStore(u) PROVE LeftOpenInv'
  BY <1>5 DEF TypeOK, CacheInv, BootInv, PhaseInv, RequestInv, LeftOpenInv,
     ResolveStore, Get, Handle, Alive
<1>6. ASSUME NEW u \in Uploads, Submit(u) PROVE LeftOpenInv'
  BY <1>6 DEF TypeOK, CacheInv, BootInv, PhaseInv, RequestInv, LeftOpenInv, Submit,
     Answered, Alive, Pool!Accept, Pool!Refuse
<1>7. ASSUME NEW u \in Uploads, RequestFails(u) PROVE LeftOpenInv'
  BY <1>7 DEF TypeOK, CacheInv, BootInv, PhaseInv, RequestInv, LeftOpenInv,
     RequestFails, Answered, Alive, Pool!Refuse
<1>8. ASSUME NEW u \in Uploads, RequestTimeout(u) PROVE LeftOpenInv'
  BY <1>8 DEF TypeOK, CacheInv, BootInv, PhaseInv, RequestInv, LeftOpenInv,
     RequestTimeout, Alive
<1>9. ASSUME NEW u \in Uploads, JobStarts(u) \/ JobReturns(u) PROVE LeftOpenInv'
  BY <1>9 DEF TypeOK, CacheInv, BootInv, PhaseInv, RequestInv, LeftOpenInv, JobStarts,
     JobReturns, Alive, Pool!Start, Pool!Finish
<1>10. ASSUME NEW u \in Uploads, JobUsesStore(u) PROVE LeftOpenInv'
  BY <1>10 DEF TypeOK, CacheInv, BootInv, PhaseInv, RequestInv, LeftOpenInv,
     JobUsesStore, Alive
<1>11. ASSUME NEW s \in Streams, StreamOver(s) PROVE LeftOpenInv'
  BY <1>11 DEF TypeOK, CacheInv, BootInv, PhaseInv, RequestInv, LeftOpenInv,
     StreamOver, Alive
<1>12. CASE Signal
  BY <1>12 DEF TypeOK, CacheInv, BootInv, PhaseInv, RequestInv, LeftOpenInv, Signal
<1>13. CASE ShutdownDone
  BY <1>13 DEF TypeOK, CacheInv, BootInv, PhaseInv, RequestInv, LeftOpenInv,
     ShutdownDone, Pool!Stop
<1>14. CASE ShutdownExpires
  BY <1>14 DEF TypeOK, CacheInv, BootInv, PhaseInv, RequestInv, LeftOpenInv,
     ShutdownExpires
<1>15. CASE DrainDone
  BY <1>15 DEF TypeOK, CacheInv, BootInv, PhaseInv, RequestInv, LeftOpenInv, DrainDone,
     Pool!ReportDrained
<1>16. CASE DrainExpires
  BY <1>16 DEF TypeOK, CacheInv, BootInv, PhaseInv, RequestInv, LeftOpenInv,
     DrainExpires
<1>17. CASE Defers
  BY <1>17 DEF TypeOK, CacheInv, BootInv, PhaseInv, RequestInv, LeftOpenInv, Defers,
     CloseStores
<1>18. CASE Exit
  BY <1>18 DEF TypeOK, CacheInv, BootInv, PhaseInv, RequestInv, LeftOpenInv, Exit
<1>19. CASE UNCHANGED vars
  BY <1>19 DEF TypeOK, CacheInv, BootInv, PhaseInv, RequestInv, LeftOpenInv, vars
<1> QED
  BY <1>1, <1>2, <1>3, <1>4, <1>5, <1>6, <1>7, <1>8, <1>9, <1>10, <1>11, <1>12, <1>13,
     <1>14, <1>15, <1>16, <1>17, <1>18, <1>19
     DEF Next, StreamEnds, ClientLeaves

(* A job that runs after the closes was left behind by a deadline.         *)
LEMMA HarmStep == TypeOK /\ BootInv /\ PhaseInv /\ 
          HeldInv /\ NoStoreClosedUnderJob /\ [Next]_vars => NoStoreClosedUnderJob'
<1> SUFFICES ASSUME TypeOK, BootInv, PhaseInv, 
                   HeldInv, NoStoreClosedUnderJob, [Next]_vars
             PROVE NoStoreClosedUnderJob'
  OBVIOUS
<1> USE ServeAssumption DEF Requests, NoHandle, Phases, Booting, Over, Active,
     Pool!States, stores, requests, pool
<1>1. CASE OpenRegistry \/ BootOn
  BY <1>1 DEF TypeOK, BootInv, PhaseInv, HeldInv, NoStoreClosedUnderJob, OpenRegistry,
     BootOn, BootStep
<1>2. CASE OpenDefaultStore
  BY <1>2 DEF TypeOK, BootInv, PhaseInv, HeldInv, NoStoreClosedUnderJob,
     OpenDefaultStore, BootStep, Get, Handle
<1>3. CASE BootFails
  BY <1>3 DEF TypeOK, BootInv, PhaseInv, HeldInv, NoStoreClosedUnderJob, BootFails
<1>4. ASSUME NEW r \in Requests, Arrive(r) PROVE NoStoreClosedUnderJob'
  BY <1>4 DEF TypeOK, BootInv, PhaseInv, HeldInv, NoStoreClosedUnderJob, Arrive
<1>5. ASSUME NEW u \in Uploads, ResolveStore(u) PROVE NoStoreClosedUnderJob'
  BY <1>5 DEF TypeOK, BootInv, PhaseInv, HeldInv, NoStoreClosedUnderJob, ResolveStore,
     Get, Handle, Alive
<1>6. ASSUME NEW u \in Uploads, Submit(u) PROVE NoStoreClosedUnderJob'
  BY <1>6 DEF TypeOK, BootInv, PhaseInv, HeldInv, NoStoreClosedUnderJob, Submit,
     Answered, Alive, Pool!Accept, Pool!Refuse
<1>7. ASSUME NEW u \in Uploads, RequestFails(u) PROVE NoStoreClosedUnderJob'
  BY <1>7 DEF TypeOK, BootInv, PhaseInv, HeldInv, NoStoreClosedUnderJob, RequestFails,
     Answered, Alive, Pool!Refuse
<1>8. ASSUME NEW u \in Uploads, RequestTimeout(u) PROVE NoStoreClosedUnderJob'
  BY <1>8 DEF TypeOK, BootInv, PhaseInv, HeldInv, NoStoreClosedUnderJob,
     RequestTimeout, Alive
<1>9. ASSUME NEW u \in Uploads, JobStarts(u) \/ JobReturns(u) PROVE NoStoreClosedUnderJob'
  BY <1>9 DEF TypeOK, BootInv, PhaseInv, HeldInv, NoStoreClosedUnderJob, JobStarts,
     JobReturns, Alive, Pool!Start, Pool!Finish
<1>10. ASSUME NEW u \in Uploads, JobUsesStore(u) PROVE NoStoreClosedUnderJob'
  BY <1>10 DEF TypeOK, BootInv, PhaseInv, HeldInv, NoStoreClosedUnderJob, JobUsesStore,
     Alive
<1>11. ASSUME NEW s \in Streams, StreamOver(s) PROVE NoStoreClosedUnderJob'
  BY <1>11 DEF TypeOK, BootInv, PhaseInv, HeldInv, NoStoreClosedUnderJob, StreamOver,
     Alive
<1>12. CASE Signal
  BY <1>12 DEF TypeOK, BootInv, PhaseInv, HeldInv, NoStoreClosedUnderJob, Signal
<1>13. CASE ShutdownDone
  BY <1>13 DEF TypeOK, BootInv, PhaseInv, HeldInv, NoStoreClosedUnderJob, ShutdownDone,
     Pool!Stop
<1>14. CASE ShutdownExpires
  BY <1>14 DEF TypeOK, BootInv, PhaseInv, HeldInv, NoStoreClosedUnderJob,
     ShutdownExpires
<1>15. CASE DrainDone
  BY <1>15 DEF TypeOK, BootInv, PhaseInv, HeldInv, NoStoreClosedUnderJob, DrainDone,
     Pool!ReportDrained
<1>16. CASE DrainExpires
  BY <1>16 DEF TypeOK, BootInv, PhaseInv, HeldInv, NoStoreClosedUnderJob, DrainExpires
<1>17. CASE Defers
  BY <1>17 DEF TypeOK, BootInv, PhaseInv, HeldInv, NoStoreClosedUnderJob, Defers,
     CloseStores
<1>18. CASE Exit
  BY <1>18 DEF TypeOK, BootInv, PhaseInv, HeldInv, NoStoreClosedUnderJob, Exit
<1>19. CASE UNCHANGED vars
  BY <1>19 DEF TypeOK, BootInv, PhaseInv, HeldInv, NoStoreClosedUnderJob, vars
<1> QED
  BY <1>1, <1>2, <1>3, <1>4, <1>5, <1>6, <1>7, <1>8, <1>9, <1>10, <1>11, <1>12, <1>13,
     <1>14, <1>15, <1>16, <1>17, <1>18, <1>19
     DEF Next, StreamEnds, ClientLeaves

-----------------------------------------------------------------------------

(* Every reachable state satisfies the inductive invariant.                *)
THEOREM InductiveInvariant == Spec => []IInv
<1>1. IInv /\ [Next]_vars => IInv'
  BY TypeOKStep, CacheStep, BootInvStep, PhaseStep, RequestStep, HeldStep, LeftOpenStep,
     HarmStep DEF IInv
<1> QED
  BY <1>1, InitIInv, PTL DEF Spec

(* Every reachable state has the declared types.                           *)
THEOREM ServeTypeCorrect == Spec => []TypeOK
<1>1. IInv => TypeOK
  BY DEF IInv
<1> QED
  BY <1>1, InductiveInvariant, PTL

(* The deferred closes meet a job that still runs only when Shutdown or    *)
(* the drain gave up at its deadline.                                      *)
THEOREM StoresOutliveJobs == Spec => []NoStoreClosedUnderJob
<1>1. IInv => NoStoreClosedUnderJob
  BY DEF IInv
<1> QED
  BY <1>1, InductiveInvariant, PTL

(* A process that met its deadlines leaves no accepted job unfinished, and *)
(* no store open that no late handler asked for.                           *)
THEOREM ExitsClean == Spec => []CleanExit
<1>1. IInv => CleanExit
  BY DEF IInv, CleanExit, BootInv, PhaseInv, LeftOpenInv, Active, Over, TypeOK
<1> QED
  BY <1>1, InductiveInvariant, PTL
=============================================================================
