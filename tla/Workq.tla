-------------------------------- MODULE Workq --------------------------------
(***************************************************************************)
(* internal/workq/workq.go: the bounded worker pool that runs the indexing *)
(* jobs of uploads.  One step per point at which another goroutine can     *)
(* see or change shared state:                                             *)
(*   - Submit takes the read lock and looks at p.closed (SubmitCheck), and *)
(*     then sends without blocking (SubmitSend) before it unlocks;         *)
(*   - a worker receives (Receive), runs the job, which returns or panics  *)
(*     (JobReturns, JobPanics), and leaves when the closed channel is      *)
(*     empty (WorkerExit);                                                 *)
(*   - Close enters closeOnce and asks for the write lock (CloseOnce),     *)
(*     closes both channels under it (CloseChannels) and then waits for    *)
(*     the workers or for its own context (CloseDrained, CloseDeadline).   *)
(* A Submit call holds the read lock exactly while it is at "send"; a      *)
(* writer is waiting or holding exactly while once = "running".            *)
(***************************************************************************)
EXTENDS Integers, Sequences, FiniteSets

CONSTANTS
    CfgWorkers,     \* Config.Workers as given
    CfgQueueDepth,  \* Config.QueueDepth as given
    Jobs,           \* one Submit call, hence one job, for each element
    Closers,        \* the calls of Close
    Idle, Exited    \* what a worker without a job is doing

ASSUME ConfigAssumption == CfgWorkers \in Int /\ CfgQueueDepth \in Int
ASSUME WorkerValuesAssumption ==
    Idle # Exited /\ Idle \notin Jobs /\ Exited \notin Jobs
ASSUME FiniteJobsAssumption == IsFiniteSet(Jobs)

VARIABLES
    submit,     \* progress and result of each Submit call
    jobs,       \* contents of the channel p.jobs
    closed,     \* p.closed and p.jobs have been closed
    once,       \* p.closeOnce: "new", "running" (write lock wanted) or "done"
    closer,     \* progress and result of each Close call
    worker,     \* what each worker goroutine is doing
    runs,       \* how often each job has been run to its end
    cancelled,  \* p.ctx has been cancelled
    rejected    \* p.rejectedTotal

vars == <<submit, jobs, closed, once, closer, worker, runs, cancelled, rejected>>

(* New's defaults. *)
NumWorkers == IF CfgWorkers < 1 THEN 1 ELSE CfgWorkers
QueueDepth == IF CfgQueueDepth < 1 THEN 16 ELSE CfgQueueDepth
Workers == 1 .. NumWorkers

(* The buffer of the channel New makes. *)
Capacity == NumWorkers + QueueDepth

SubmitResults == {"nil", "ErrQueueFull", "ErrClosed"}
CloseResults == {"nil", "ctxErr"}

TypeOK ==
    /\ submit \in [Jobs -> {"idle", "called", "send"} \cup SubmitResults]
    /\ jobs \in Seq(Jobs)
    /\ closed \in BOOLEAN
    /\ once \in {"new", "running", "done"}
    /\ closer \in [Closers -> {"idle", "once", "wait"} \cup CloseResults]
    /\ worker \in [Workers -> Jobs \cup {Idle, Exited}]
    /\ runs \in [Jobs -> Nat]
    /\ cancelled \in BOOLEAN
    /\ rejected \in Nat

Init ==
    /\ submit = [j \in Jobs |-> "idle"]
    /\ jobs = << >>
    /\ closed = FALSE
    /\ once = "new"
    /\ closer = [c \in Closers |-> "idle"]
    /\ worker = [w \in Workers |-> Idle]
    /\ runs = [j \in Jobs |-> 0]
    /\ cancelled = FALSE
    /\ rejected = 0

-----------------------------------------------------------------------------
(* Submit *)

(* A caller enters Submit and asks for the read lock. *)
SubmitCall(j) ==
    /\ submit[j] = "idle"
    /\ submit' = [submit EXCEPT ![j] = "called"]
    /\ UNCHANGED <<jobs, closed, once, closer, worker, runs, cancelled, rejected>>

(* RLock, which a waiting writer holds up, and the look at p.closed. *)
SubmitCheck(j) ==
    /\ submit[j] = "called"
    /\ once # "running"
    /\ submit' = [submit EXCEPT ![j] = IF closed THEN "ErrClosed" ELSE "send"]
    /\ UNCHANGED <<jobs, closed, once, closer, worker, runs, cancelled, rejected>>

(* The select with a default: the buffer takes the job or Submit refuses. *)
SendOrReject(j) ==
    IF Len(jobs) < Capacity
    THEN /\ submit' = [submit EXCEPT ![j] = "nil"]
         /\ jobs' = Append(jobs, j)
         /\ rejected' = rejected
    ELSE /\ submit' = [submit EXCEPT ![j] = "ErrQueueFull"]
         /\ jobs' = jobs
         /\ rejected' = rejected + 1

SubmitSend(j) ==
    /\ submit[j] = "send"
    /\ SendOrReject(j)
    /\ UNCHANGED <<closed, once, closer, worker, runs, cancelled>>

-----------------------------------------------------------------------------
(* Workers: run *)

(* The range over p.jobs yields the oldest buffered job. *)
Receive(w) ==
    /\ worker[w] = Idle
    /\ jobs # << >>
    /\ worker' = [worker EXCEPT ![w] = Head(jobs)]
    /\ jobs' = Tail(jobs)
    /\ UNCHANGED <<submit, closed, once, closer, runs, cancelled, rejected>>

(* The job of worker w is over and the worker is at the range again. *)
EndJob(w) ==
    /\ worker[w] \in Jobs
    /\ runs' = [runs EXCEPT ![worker[w]] = @ + 1]
    /\ worker' = [worker EXCEPT ![w] = Idle]
    /\ UNCHANGED <<submit, jobs, closed, once, closer, cancelled, rejected>>

JobReturns(w) == EndJob(w)

(* Mutant: no recover, so a panicking job takes its worker with it. *)
JobPanics_NoRecover(w) ==
    /\ worker[w] \in Jobs
    /\ runs' = [runs EXCEPT ![worker[w]] = @ + 1]
    /\ worker' = [worker EXCEPT ![w] = Exited]
    /\ UNCHANGED <<submit, jobs, closed, once, closer, cancelled, rejected>>

(* A panic is recovered in the job's own closure: the loop goes on. *)
JobPanics(w) == EndJob(w)

(* Mutant: the worker leaves on the closed channel p.closed instead of      *)
(* ranging over p.jobs until it is empty.                                  *)
WorkerExit_Undrained(w) ==
    /\ worker[w] = Idle
    /\ closed
    /\ worker' = [worker EXCEPT ![w] = Exited]
    /\ UNCHANGED <<submit, jobs, closed, once, closer, runs, cancelled, rejected>>

(* The range ends only when the channel is closed and empty; wg.Done. *)
WorkerExit(w) ==
    /\ worker[w] = Idle
    /\ closed
    /\ jobs = << >>
    /\ worker' = [worker EXCEPT ![w] = Exited]
    /\ UNCHANGED <<submit, jobs, closed, once, closer, runs, cancelled, rejected>>

-----------------------------------------------------------------------------
(* Close *)

(* A call of Close: the first one runs closeOnce and asks for the write    *)
(* lock; any other blocks in Do until the first is through.                *)
CloseOnce(c) ==
    /\ closer[c] = "idle"
    /\ closer' = [closer EXCEPT ![c] = IF once = "done" THEN "wait" ELSE "once"]
    /\ once' = IF once = "new" THEN "running" ELSE once
    /\ UNCHANGED <<submit, jobs, closed, worker, runs, cancelled, rejected>>

(* Mutant: Close does not take the write lock. *)
CloseChannels_NoLock ==
    /\ once = "running"
    /\ closed' = TRUE
    /\ once' = "done"
    /\ closer' = [c \in Closers |-> IF closer[c] = "once" THEN "wait" ELSE closer[c]]
    /\ UNCHANGED <<submit, jobs, worker, runs, cancelled, rejected>>

(* Mutant: an early return inside the critical section skips Unlock. *)
CloseChannels_NoUnlock ==
    /\ once = "running"
    /\ \A j \in Jobs : submit[j] # "send"
    /\ closed' = TRUE
    /\ once' = "running"
    /\ closer' = [c \in Closers |-> IF closer[c] = "once" THEN "wait" ELSE closer[c]]
    /\ UNCHANGED <<submit, jobs, worker, runs, cancelled, rejected>>

(* The write lock is granted once no Submit is between RLock and RUnlock;  *)
(* both channels are closed under it, and Do returns to every caller.      *)
CloseChannels ==
    /\ once = "running"
    /\ \A j \in Jobs : submit[j] # "send"
    /\ closed' = TRUE
    /\ once' = "done"
    /\ closer' = [c \in Closers |-> IF closer[c] = "once" THEN "wait" ELSE closer[c]]
    /\ UNCHANGED <<submit, jobs, worker, runs, cancelled, rejected>>

(* Mutant: Close takes an empty channel for a drained pool. *)
AllWorkersDone_QueueOnly == jobs = << >>

(* wg.Wait returns. *)
AllWorkersDone == \A w \in Workers : worker[w] = Exited

CloseDrained(c) ==
    /\ closer[c] = "wait"
    /\ AllWorkersDone
    /\ closer' = [closer EXCEPT ![c] = "nil"]
    /\ UNCHANGED <<submit, jobs, closed, once, worker, runs, cancelled, rejected>>

(* The caller's context ends.  Go chooses between two ready cases of the   *)
(* select at random, so this can win over a pool that is drained already.  *)
CloseDeadline(c) ==
    /\ closer[c] = "wait"
    /\ closer' = [closer EXCEPT ![c] = "ctxErr"]
    /\ cancelled' = TRUE
    /\ UNCHANGED <<submit, jobs, closed, once, worker, runs, rejected>>

-----------------------------------------------------------------------------
SubmitStep(j) == SubmitCall(j) \/ SubmitCheck(j) \/ SubmitSend(j)
WorkerStep(w) == Receive(w) \/ WorkerExit(w)
CloseStep(c) == CloseOnce(c) \/ CloseDrained(c) \/ CloseDeadline(c)

Next ==
    \/ \E j \in Jobs : SubmitStep(j)
    \/ \E w \in Workers : WorkerStep(w) \/ JobReturns(w) \/ JobPanics(w)
    \/ \E c \in Closers : CloseStep(c)
    \/ CloseChannels

Spec == Init /\ [][Next]_vars

(* The scheduler runs every goroutine of the pool; a call in progress goes *)
(* on, and the context a caller of Close passes has a deadline (serve.go). *)
(* Nobody is obliged to call Submit or Close, and a job may never end.     *)
PoolFairness ==
    /\ \A j \in Jobs : WF_vars(SubmitCheck(j)) /\ WF_vars(SubmitSend(j))
    /\ \A w \in Workers : WF_vars(WorkerStep(w))
    /\ \A c \in Closers : WF_vars(CloseDrained(c) \/ CloseDeadline(c))
    /\ WF_vars(CloseChannels)

FairSpec == Spec /\ PoolFairness

(* Every job ends: it returns or panics. *)
JobFairness == \A w \in Workers : WF_vars(JobReturns(w) \/ JobPanics(w))

-----------------------------------------------------------------------------
(* Properties *)

Holds(q, j) == \E i \in 1 .. Len(q) : q[i] = j
Distinct(q) == \A a, b \in 1 .. Len(q) : a # b => q[a] # q[b]
Queued(j) == Holds(jobs, j)
RunningOn(j) == {w \in Workers : worker[w] = j}

(* No Submit reaches its send after the channel was closed: a send on a    *)
(* closed channel would panic in the HTTP handler that called Submit.      *)
NoSendOnClosed == closed => \A j \in Jobs : submit[j] # "send"

(* A job is buffered at most once, and the buffer stays within the channel *)
(* that New made.                                                          *)
QueueWellFormed ==
    /\ Len(jobs) =< Capacity
    /\ Distinct(jobs)

(* Every job whose Submit returned nil is in exactly one place: buffered,  *)
(* on one worker, or run to its end once.                                  *)
AcceptedIsSomewhere ==
    \A j \in Jobs : submit[j] = "nil" =>
        \/ Queued(j) /\ RunningOn(j) = {} /\ runs[j] = 0
        \/ ~Queued(j) /\ (\E w \in Workers : RunningOn(j) = {w}) /\ runs[j] = 0
        \/ ~Queued(j) /\ RunningOn(j) = {} /\ runs[j] = 1

(* A job whose Submit returned an error, or has not returned, never runs:  *)
(* the upload handler has told the client that the job was rejected.       *)
RefusedNeverRuns ==
    \A j \in Jobs : submit[j] # "nil" =>
        ~Queued(j) /\ RunningOn(j) = {} /\ runs[j] = 0

(* When Close returns nil, every job ever accepted has run to its end, so  *)
(* the caller may close what the jobs use.                                 *)
NilMeansDrained ==
    \A c \in Closers : closer[c] = "nil" =>
        /\ jobs = << >>
        /\ \A j \in Jobs : submit[j] = "nil" => runs[j] = 1

(* What is waited for is on its way: Do for the channels to be closed, a   *)
(* Close past it for workers that find a closed channel, and a buffered    *)
(* job for workers none of which has left.                                 *)
EveryWaitHasAnEnd ==
    /\ \A c \in Closers : closer[c] = "once" => once = "running"
    /\ once = "running" => ~closed /\ \E c \in Closers : closer[c] = "once"
    /\ \A c \in Closers : closer[c] = "wait" => closed
    /\ jobs # << >> => \A w \in Workers : worker[w] # Exited

(* Submit does not block: a call returns whatever jobs and Close do.       *)
SubmitReturns ==
    \A j \in Jobs : submit[j] = "called" ~> submit[j] \in SubmitResults

(* Close honours its caller's deadline: it returns although jobs hang.     *)
CloseReturns == \A c \in Closers : closer[c] = "once" ~> closer[c] \in CloseResults

(* Every call of Submit and of Close returns.                              *)
CallsReturn == SubmitReturns /\ CloseReturns

(* If every job ends, each accepted job is run, whether or not Close is    *)
(* called meanwhile and whichever of the other jobs panic.                 *)
AcceptedRuns == JobFairness => \A j \in Jobs : submit[j] = "nil" ~> runs[j] = 1

-----------------------------------------------------------------------------
(* The inductive invariant behind the safety properties, in named parts.   *)

(* The closing protocol: the channels are closed when closeOnce is through *)
(* and a Close call that is past Do finds them closed.                     *)
ClosingInv ==
    /\ closed <=> once = "done"
    /\ NoSendOnClosed
    /\ \A c \in Closers : closer[c] \notin {"idle", "once"} => closed

(* A worker leaves only a closed and empty channel, and wg.Wait is over    *)
(* for a Close call that returned nil.                                     *)
ExitInv ==
    /\ \A w \in Workers : worker[w] = Exited => closed /\ jobs = << >>
    /\ \A c \in Closers : closer[c] = "nil" => AllWorkersDone

(* A buffered job is accepted, not run and not on a worker.                *)
QueueInv ==
    \A i \in 1 .. Len(jobs) :
        /\ submit[jobs[i]] = "nil"
        /\ runs[jobs[i]] = 0
        /\ \A w \in Workers : worker[w] # jobs[i]

(* A job on a worker is accepted, not run and on no other worker.          *)
WorkerInv ==
    \A w \in Workers : worker[w] \in Jobs =>
        /\ submit[worker[w]] = "nil"
        /\ runs[worker[w]] = 0
        /\ \A v \in Workers : worker[v] = worker[w] => v = w

(* A job that was run was accepted and run once; one that was accepted and *)
(* not run is still in the pool.                                           *)
LedgerInv ==
    \A j \in Jobs :
        /\ runs[j] # 0 => runs[j] = 1 /\ submit[j] = "nil"
        /\ submit[j] = "nil" /\ runs[j] = 0 =>
               Queued(j) \/ \E w \in Workers : worker[w] = j

(* All of it: inductive for Next. *)
IInv ==
    /\ TypeOK
    /\ ClosingInv
    /\ ExitInv
    /\ QueueWellFormed
    /\ QueueInv
    /\ WorkerInv
    /\ LedgerInv

-----------------------------------------------------------------------------
(* The pool as a job service. *)

JobState(j) ==
    IF submit[j] \in {"ErrQueueFull", "ErrClosed"} THEN "refused"
    ELSE IF submit[j] # "nil" THEN "unseen"
    ELSE IF runs[j] > 0 THEN "finished"
    ELSE IF RunningOn(j) # {} THEN "running"
    ELSE "accepted"

Service == INSTANCE JobService WITH
    MaxRunning <- NumWorkers,
    state <- [j \in Jobs |-> JobState(j)],
    open <- ~closed,
    drained <- \E c \in Closers : closer[c] = "nil"

(* Every behaviour of the pool is one of the abstract job service.         *)
RefinesService == Service!ServiceSpec
=============================================================================
