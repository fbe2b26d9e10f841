-------------------------------- MODULE Serve --------------------------------
(***************************************************************************)
(* The life of a server process (cmd/serve.go): boot, requests, SIGTERM,   *)
(* Shutdown of the HTTP server, drain of the worker pool, the deferred     *)
(* closing of the stores, exit.  It composes the cache of store handles    *)
(* (internal/api/stores.go), the requests behind http.TimeoutHandler       *)
(* (internal/api/request_timeout.go) and the worker pool, of which it uses *)
(* what JobService promises.                                               *)
(*                                                                         *)
(* One project; its handles are numbered as they are opened.  An upload    *)
(* takes a handle when it begins and its job keeps it; a stream follows    *)
(* the progress of one upload's job.                                       *)
(***************************************************************************)
EXTENDS Naturals, FiniteSets

CONSTANTS
    Uploads,    \* upload requests, each with the job it submits
    Streams,    \* progress streams
    Workers     \* size of the pool

ASSUME ServeAssumption ==
    /\ Uploads \cap Streams = {}
    /\ IsFiniteSet(Uploads \cup Streams)
    /\ Workers \in Nat \ {0}

Requests == Uploads \cup Streams
NoHandle == 0

VARIABLES
    phase,      \* where the command's RunE is
    err,        \* why RunE returned early: "none", "boot" or "shutdown"
    request,    \* "new", "begun", "holding" a handle, "over"
    conn,       \* requests whose connection is active
    expired,    \* requests the TimeoutHandler has answered
    follows,    \* the upload whose job a stream follows
    held,       \* the handle an upload and its job use
    cached,     \* the cache's entry, or NoHandle
    opened,     \* how many handles were ever opened
    open,       \* the handles not closed yet
    harmed,     \* history variable: uploads that used a closed handle
    job, accepting, drained,     \* the pool, as JobService sees it
    cancelled                    \* the pool's context

pool == << job, accepting, drained >>
stores == << cached, opened, open >>
requests == << request, conn, expired, follows, held >>
vars == << phase, err, requests, stores, harmed, pool, cancelled >>

Pool == INSTANCE JobService WITH Jobs <- Uploads, MaxRunning <- Workers,
                                 state <- job, open <- accepting

Booting == {"registry", "store", "provider", "prewarm", "listen"}
Phases == Booting \cup {"serving", "shutdown", "drain", "defers", "closed", "exited"}

TypeOK ==
    /\ phase \in Phases /\ err \in {"none", "boot", "shutdown"}
    /\ request \in [Requests -> {"new", "begun", "holding", "over"}]
    /\ conn \subseteq Requests /\ expired \subseteq Uploads
    /\ follows \in [Streams -> Uploads]
    /\ held \in [Uploads -> 0 .. opened]
    /\ opened \in Nat /\ open \subseteq 1 .. opened
    /\ cached \in open \cup {NoHandle}
    /\ harmed \subseteq Uploads
    /\ job \in [Uploads -> Pool!States]
    /\ accepting \in BOOLEAN /\ drained \in BOOLEAN /\ cancelled \in BOOLEAN

Init ==
    /\ phase = "registry" /\ err = "none"
    /\ request = [r \in Requests |-> "new"]
    /\ conn = {} /\ expired = {}
    /\ follows \in [Streams -> Uploads]
    /\ held = [u \in Uploads |-> NoHandle]
    /\ cached = NoHandle /\ opened = 0 /\ open = {}
    /\ harmed = {} /\ cancelled = FALSE
    /\ Pool!ServiceInit

Alive == phase # "exited"

-----------------------------------------------------------------------------
(* projectStores.Get: the cached handle, or a new one that is cached.      *)
Handle == IF cached # NoHandle THEN cached ELSE opened + 1
Get ==
    /\ cached' = Handle
    /\ open' = open \cup {Handle}
    /\ opened' = IF cached # NoHandle THEN opened ELSE opened + 1

(* projectStores.Close walks the map: what it does not hold stays open.    *)
CloseStores ==
    /\ open' = open \ {cached}
    /\ cached' = NoHandle
    /\ UNCHANGED opened

-----------------------------------------------------------------------------
(* Boot *)

BootStep(from, to) == phase = from /\ phase' = to

OpenRegistry ==
    /\ BootStep("registry", "store")
    /\ UNCHANGED << err, requests, stores, harmed, pool, cancelled >>

OpenDefaultStore ==
    /\ BootStep("store", "provider")
    /\ Get
    /\ UNCHANGED << err, requests, harmed, pool, cancelled >>

(* The provider, the indexes of the registered projects, the pool and the  *)
(* listener.  An index that cannot be built is only logged.                *)
BootOn ==
    /\ \/ BootStep("provider", "prewarm")
       \/ BootStep("prewarm", "listen")
       \/ BootStep("listen", "serving")
    /\ UNCHANGED << err, requests, stores, harmed, pool, cancelled >>

BootFails_NoDefer ==
    /\ phase \in Booting \ {"prewarm"}
    /\ phase' = "exited"
    /\ err' = "boot"
    /\ UNCHANGED << requests, stores, harmed, pool, cancelled >>

(* A step of the boot returns an error; the defers made so far run.        *)
BootFails ==
    /\ phase \in Booting \ {"prewarm"}
    /\ phase' = IF phase = "registry" THEN "exited" ELSE "defers"
    /\ err' = "boot"
    /\ UNCHANGED << requests, stores, harmed, pool, cancelled >>

-----------------------------------------------------------------------------
(* Requests *)

(* A connection that was accepted before the listener closed may bring its *)
(* request while Shutdown waits for it.                                    *)
Arrive(r) ==
    /\ phase \in {"serving", "shutdown"} /\ request[r] = "new"
    /\ request' = [request EXCEPT ![r] = "begun"]
    /\ conn' = conn \cup {r}
    /\ UNCHANGED << phase, err, expired, follows, held, stores, harmed, pool, cancelled >>

ResolveStore(u) ==
    /\ Alive /\ u \in Uploads /\ request[u] = "begun"
    /\ request' = [request EXCEPT ![u] = "holding"]
    /\ held' = [held EXCEPT ![u] = Handle]
    /\ Get
    /\ UNCHANGED << phase, err, conn, expired, follows, harmed, pool, cancelled >>

Answered(u) ==
    /\ request' = [request EXCEPT ![u] = "over"]
    /\ conn' = conn \ {u}

(* The handler submits the job, and answers whatever Submit says.          *)
Submit(u) ==
    /\ Alive /\ u \in Uploads /\ request[u] = "holding"
    /\ Pool!Accept(u) \/ Pool!Refuse(u)
    /\ Answered(u)
    /\ UNCHANGED << phase, err, expired, follows, held, stores, harmed, cancelled >>

(* The request is refused, or the store or a file cannot be opened.        *)
RequestFails(u) ==
    /\ Alive /\ u \in Uploads /\ request[u] \in {"begun", "holding"}
    /\ Answered(u)
    /\ Pool!Refuse(u)
    /\ UNCHANGED << phase, err, expired, follows, held, stores, harmed, cancelled >>

(* http.TimeoutHandler answers 503; the handler's goroutine goes on, on a  *)
(* connection that is idle for Shutdown.                                   *)
RequestTimeout(u) ==
    /\ Alive /\ u \in Uploads \cap conn
    /\ conn' = conn \ {u}
    /\ expired' = expired \cup {u}
    /\ UNCHANGED << phase, err, request, follows, held, stores, harmed, pool, cancelled >>

(* The events of the job that a stream waits for.                          *)
TerminalEvent(s) == job[follows[s]] \in {"finished", "refused"}

StreamOver(s) ==
    /\ Alive /\ s \in conn
    /\ request' = [request EXCEPT ![s] = "over"]
    /\ conn' = conn \ {s}
    /\ UNCHANGED << phase, err, expired, follows, held, stores, harmed, pool, cancelled >>

(* A stream ends with its job, or when its client leaves or a write fails. *)
(* It is not behind the TimeoutHandler, and Shutdown does not cancel the   *)
(* contexts of requests.                                                   *)
StreamEnds(s) == TerminalEvent(s) /\ StreamOver(s)
ClientLeaves(s) == StreamOver(s)

-----------------------------------------------------------------------------
(* Jobs, which the pool's workers run.                                     *)
JobStarts(u) ==
    /\ Alive /\ Pool!Start(u)
    /\ UNCHANGED << phase, err, requests, stores, harmed, cancelled >>

JobUsesStore(u) ==
    /\ Alive /\ job[u] = "running"
    /\ harmed' = IF held[u] \in open THEN harmed ELSE harmed \cup {u}
    /\ UNCHANGED << phase, err, requests, stores, pool, cancelled >>

JobReturns(u) ==
    /\ Alive /\ Pool!Finish(u)
    /\ UNCHANGED << phase, err, requests, stores, harmed, cancelled >>

-----------------------------------------------------------------------------
(* Shutdown *)

Signal ==
    /\ phase = "serving"
    /\ phase' = "shutdown"
    /\ UNCHANGED << err, requests, stores, harmed, pool, cancelled >>

ShutdownDone_SkipsDrain ==
    /\ phase = "shutdown" /\ conn = {}
    /\ phase' = "defers"
    /\ UNCHANGED << err, requests, stores, harmed, pool, cancelled >>

(* srv.Shutdown returns when no connection is active; then pool.Close      *)
(* stops the pool.                                                         *)
ShutdownDone ==
    /\ phase = "shutdown" /\ conn = {}
    /\ phase' = "drain"
    /\ Pool!Stop
    /\ UNCHANGED << err, requests, stores, harmed, cancelled >>

(* Its 30 seconds are over, with a connection active when it last looked:  *)
(* RunE returns the error and skips the drain.                             *)
ShutdownExpires ==
    /\ phase = "shutdown" /\ conn # {}
    /\ phase' = "defers"
    /\ err' = "shutdown"
    /\ UNCHANGED << requests, stores, harmed, pool, cancelled >>

DrainDone ==
    /\ phase = "drain"
    /\ Pool!ReportDrained
    /\ phase' = "defers"
    /\ UNCHANGED << err, requests, stores, harmed, cancelled >>

DrainExpires_Never ==
    /\ phase = "drain" /\ drained
    /\ UNCHANGED vars

(* The jobs' context is cancelled and a warning logged; RunE goes on while *)
(* the jobs still run.                                                     *)
DrainExpires ==
    /\ phase = "drain"
    /\ phase' = "defers"
    /\ cancelled' = TRUE
    /\ UNCHANGED << err, requests, stores, harmed, pool >>

(* The deferred stores.Close, once, and then registry.Close.               *)
Defers ==
    /\ phase = "defers"
    /\ phase' = "closed"
    /\ CloseStores
    /\ UNCHANGED << err, requests, harmed, pool, cancelled >>

(* main returns and the process ends with every goroutine in it.           *)
Exit ==
    /\ phase = "closed"
    /\ phase' = "exited"
    /\ UNCHANGED << err, requests, stores, harmed, pool, cancelled >>

Next ==
    \/ OpenRegistry \/ OpenDefaultStore \/ BootOn \/ BootFails
    \/ \E r \in Requests : Arrive(r)
    \/ \E u \in Uploads : \/ ResolveStore(u) \/ Submit(u) \/ RequestFails(u)
                          \/ RequestTimeout(u)
                          \/ JobStarts(u) \/ JobUsesStore(u) \/ JobReturns(u)
    \/ \E s \in Streams : StreamEnds(s) \/ ClientLeaves(s)
    \/ Signal \/ ShutdownDone \/ ShutdownExpires \/ DrainDone \/ DrainExpires
    \/ Defers \/ Exit

Spec == Init /\ [][Next]_vars

(* The main goroutine runs when it can, and its two deadlines pass.        *)
FairSpec ==
    /\ Spec
    /\ WF_vars(ShutdownDone \/ ShutdownExpires)
    /\ WF_vars(DrainDone \/ DrainExpires)
    /\ WF_vars(Defers) /\ WF_vars(Exit)

-----------------------------------------------------------------------------
(* Properties *)

(* The stores are closed under a running job only after one of the two     *)
(* deadlines passed: the order of Shutdown, drain and deferred closes      *)
(* protects the jobs in every other case, late submissions included.       *)
NoStoreClosedUnderJob == harmed # {} => err = "shutdown" \/ cancelled

(* A process that exits without a deadline passed has left no accepted job *)
(* unfinished; and it closed every handle it opened, unless a handler that *)
(* outlived its answer or Shutdown asked the closed cache for another one. *)
CleanExit ==
    phase = "exited" =>
        /\ err # "shutdown" /\ ~cancelled =>
              \A u \in Uploads : job[u] \notin {"accepted", "running"}
        /\ open # {} => expired # {} \/ err = "shutdown"

(* After SIGTERM the process ends, although streams, requests and jobs may *)
(* hang: each wait has its deadline.                                       *)
ShutdownEnds == phase = "shutdown" ~> phase = "exited"
==============================================================================
