------------------------------ MODULE WorkqProofs ------------------------------
(***************************************************************************)
(* What holds of the worker pool for any number of workers, any queue      *)
(* depth, any finite set of jobs and any calls of Close.                   *)
(***************************************************************************)
EXTENDS Workq, FiniteSetTheorems, SequenceTheorems, TLAPS

-----------------------------------------------------------------------------
(* Constants *)

(* New starts at least one worker, and the channel is never shorter than   *)
(* it.                                                                     *)
LEMMA PoolSize ==
    /\ NumWorkers \in Nat /\ NumWorkers >= 1
    /\ Capacity \in Nat /\ Capacity = NumWorkers + QueueDepth
    /\ QueueDepth \in Nat
BY ConfigAssumption DEF NumWorkers, QueueDepth, Capacity

(* The channel as a queue: what sending does to its contents.              *)
LEMMA SendQueue ==
    ASSUME NEW q \in Seq(Jobs), NEW j \in Jobs
    PROVE  /\ Append(q, j) \in Seq(Jobs)
           /\ Len(q) \in Nat /\ Len(Append(q, j)) = Len(q) + 1
           /\ \A i \in 1 .. Len(q) : Append(q, j)[i] = q[i]
           /\ Append(q, j)[Len(q) + 1] = j
           /\ Holds(Append(q, j), j)
           /\ \A k : Holds(q, k) => Holds(Append(q, j), k)
           /\ Distinct(q) /\ ~Holds(q, j) => Distinct(Append(q, j))
<1> DEFINE r == Append(q, j)
<1>1. /\ r \in Seq(Jobs)
      /\ Len(q) \in Nat /\ Len(r) = Len(q) + 1
      /\ \A i \in 1 .. Len(q) : r[i] = q[i]
      /\ r[Len(q) + 1] = j
  BY AppendProperties
<1> HIDE DEF r
<1>2. Holds(r, j)
  <2>1. Len(q) + 1 \in 1 .. Len(r)
    BY <1>1
  <2> QED
    BY <1>1, <2>1 DEF Holds
<1>3. ASSUME NEW k, Holds(q, k) PROVE Holds(r, k)
  <2>1. PICK i \in 1 .. Len(q) : q[i] = k
    BY <1>3 DEF Holds
  <2>2. i \in 1 .. Len(r) /\ r[i] = k
    BY <1>1, <2>1
  <2> QED
    BY <2>2 DEF Holds
<1>4. ASSUME Distinct(q), ~Holds(q, j),
             NEW a \in 1 .. Len(r), NEW b \in 1 .. Len(r), a # b
      PROVE  r[a] # r[b]
  <2>1. a \in 1 .. Len(q) \/ a = Len(q) + 1
    BY <1>1
  <2>2. b \in 1 .. Len(q) \/ b = Len(q) + 1
    BY <1>1
  <2> QED
    BY <1>1, <1>4, <2>1, <2>2 DEF Distinct, Holds
<1> QED
  BY <1>1, <1>2, <1>3, <1>4 DEF Distinct, r

(* What receiving does to its contents.                                    *)
LEMMA ReceiveQueue ==
    ASSUME NEW q \in Seq(Jobs), q # << >>
    PROVE  /\ Head(q) \in Jobs /\ Tail(q) \in Seq(Jobs)
           /\ Len(q) \in Nat /\ Len(q) >= 1 /\ Head(q) = q[1]
           /\ Len(Tail(q)) = Len(q) - 1
           /\ \A i \in 1 .. Len(Tail(q)) : i + 1 \in 1 .. Len(q) /\ Tail(q)[i] = q[i + 1]
           /\ \A k : Holds(q, k) /\ k # Head(q) => Holds(Tail(q), k)
           /\ Distinct(q) => Distinct(Tail(q)) /\ ~Holds(Tail(q), Head(q))
<1> DEFINE r == Tail(q)
<1>1. /\ Head(q) \in Jobs /\ r \in Seq(Jobs)
      /\ Len(q) \in Nat /\ Len(q) >= 1 /\ Head(q) = q[1]
      /\ Len(r) = Len(q) - 1
      /\ \A i \in 1 .. Len(r) : r[i] = q[i + 1]
  BY EmptySeq, HeadTailProperties
<1> HIDE DEF r
<1>2. \A i \in 1 .. Len(r) : i + 1 \in 1 .. Len(q) /\ i + 1 # 1
  BY <1>1
<1>3. ASSUME NEW k, Holds(q, k), k # Head(q) PROVE Holds(r, k)
  <2>1. PICK i \in 1 .. Len(q) : q[i] = k
    BY <1>3 DEF Holds
  <2>2. i - 1 \in 1 .. Len(r) /\ (i - 1) + 1 = i
    BY <1>1, <1>3, <2>1
  <2>3. r[i - 1] = k
    BY <1>1, <2>1, <2>2
  <2> QED
    BY <2>2, <2>3 DEF Holds
<1>4. ASSUME Distinct(q),
             NEW a \in 1 .. Len(r), NEW b \in 1 .. Len(r), a # b
      PROVE  r[a] # r[b]
  <2>1. /\ a + 1 \in 1 .. Len(q) /\ b + 1 \in 1 .. Len(q)
        /\ a + 1 # b + 1
    BY <1>2, <1>4
  <2> QED
    BY <1>1, <1>4, <2>1 DEF Distinct
<1>5. ASSUME Distinct(q), NEW a \in 1 .. Len(r) PROVE r[a] # Head(q)
  <2>1. a + 1 \in 1 .. Len(q) /\ a + 1 # 1 /\ 1 \in 1 .. Len(q)
    BY <1>1, <1>2
  <2> QED
    BY <1>1, <1>5, <2>1 DEF Distinct
<1> QED
  BY <1>1, <1>2, <1>3, <1>4, <1>5 DEF Distinct, Holds, r

-----------------------------------------------------------------------------
(* Type correctness *)

(* A new pool is well typed.                                               *)
LEMMA InitTypeOK == Init => TypeOK
<1> SUFFICES ASSUME Init PROVE TypeOK
  OBVIOUS
<1>1. jobs \in Seq(Jobs)
  BY EmptySeq DEF Init
<1> QED
  BY <1>1 DEF Init, TypeOK

(* Every step keeps the types.                                             *)
LEMMA NextTypeOK == TypeOK /\ [Next]_vars => TypeOK'
<1> SUFFICES ASSUME TypeOK, [Next]_vars PROVE TypeOK'
  OBVIOUS
<1> USE DEF TypeOK, SubmitResults, CloseResults
<1>1. ASSUME NEW j \in Jobs, SubmitCall(j) PROVE TypeOK'
  BY <1>1 DEF SubmitCall
<1>2. ASSUME NEW j \in Jobs, SubmitCheck(j) PROVE TypeOK'
  BY <1>2 DEF SubmitCheck
<1>3. ASSUME NEW j \in Jobs, SubmitSend(j) PROVE TypeOK'
  <2>1. Append(jobs, j) \in Seq(Jobs)
    BY SendQueue
  <2>2. CASE Len(jobs) < Capacity
    BY <1>3, <2>1, <2>2 DEF SubmitSend, SendOrReject
  <2>3. CASE ~(Len(jobs) < Capacity)
    BY <1>3, <2>3 DEF SubmitSend, SendOrReject
  <2> QED
    BY <2>2, <2>3
<1>4. ASSUME NEW w \in Workers, Receive(w) PROVE TypeOK'
  <2>1. Head(jobs) \in Jobs /\ Tail(jobs) \in Seq(Jobs)
    BY <1>4, ReceiveQueue DEF Receive
  <2> QED
    BY <1>4, <2>1 DEF Receive
<1>5. ASSUME NEW w \in Workers, WorkerExit(w) PROVE TypeOK'
  BY <1>5 DEF WorkerExit
<1>6. ASSUME NEW w \in Workers, EndJob(w) PROVE TypeOK'
  BY <1>6 DEF EndJob
<1>7. ASSUME NEW c \in Closers, CloseOnce(c) PROVE TypeOK'
  BY <1>7 DEF CloseOnce
<1>8. ASSUME NEW c \in Closers, CloseDrained(c) PROVE TypeOK'
  BY <1>8 DEF CloseDrained
<1>9. ASSUME NEW c \in Closers, CloseDeadline(c) PROVE TypeOK'
  BY <1>9 DEF CloseDeadline
<1>10. CASE CloseChannels
  BY <1>10 DEF CloseChannels
<1>11. CASE UNCHANGED vars
  BY <1>11 DEF vars
<1> QED
  BY <1>1, <1>2, <1>3, <1>4, <1>5, <1>6, <1>7, <1>8, <1>9, <1>10, <1>11
     DEF Next, SubmitStep, WorkerStep, CloseStep, JobReturns, JobPanics

(* Every variable stays in its range, for any size of the pool: TypeOK of  *)
(* New, Submit, run and Close.                                             *)
THEOREM TypeCorrect == Spec => []TypeOK
BY InitTypeOK, NextTypeOK, PTL DEF Spec

-----------------------------------------------------------------------------
(* The inductive invariant, one lemma for each action that moves a job.    *)

(* The inductive invariant holds of a new pool.                            *)
LEMMA InitIInv == Init => IInv
<1> SUFFICES ASSUME Init PROVE IInv
  OBVIOUS
<1> USE DEF Init
<1>1. TypeOK
  BY InitTypeOK
<1>2. ClosingInv
  BY DEF ClosingInv, NoSendOnClosed
<1>3. ExitInv
  BY WorkerValuesAssumption DEF ExitInv
<1>4. Len(jobs) = 0
  BY EmptySeq
<1>5. QueueWellFormed /\ QueueInv
  BY <1>4, PoolSize DEF QueueWellFormed, QueueInv, Distinct
<1>6. WorkerInv /\ LedgerInv
  BY WorkerValuesAssumption DEF WorkerInv, LedgerInv
<1> QED
  BY <1>1, <1>2, <1>3, <1>5, <1>6 DEF IInv

(* A job enters the buffer: it was in none of the places before.           *)
LEMMA SubmitSendIInv ==
    ASSUME IInv, TypeOK', NEW j \in Jobs, SubmitSend(j)
    PROVE  IInv'
<1> USE DEF IInv, TypeOK
<1>1. /\ submit[j] = "send"
      /\ UNCHANGED <<closed, once, closer, worker, runs>>
  BY DEF SubmitSend
<1>2. ~closed
  BY <1>1 DEF ClosingInv, NoSendOnClosed
<1>3. CASE Len(jobs) < Capacity
  <2>1. submit' = [submit EXCEPT ![j] = "nil"] /\ jobs' = Append(jobs, j)
    BY <1>3 DEF SubmitSend, SendOrReject
  <2>2. /\ Len(jobs') = Len(jobs) + 1
        /\ \A i \in 1 .. Len(jobs) : jobs'[i] = jobs[i]
        /\ jobs'[Len(jobs) + 1] = j
        /\ Len(jobs) \in Nat
        /\ Holds(jobs', j)
        /\ \A k : Holds(jobs, k) => Holds(jobs', k)
        /\ Distinct(jobs) /\ ~Holds(jobs, j) => Distinct(jobs')
    BY <2>1, SendQueue
  <2>3. \A i \in 1 .. Len(jobs) : jobs[i] \in Jobs /\ jobs[i] # j
    BY <1>1 DEF QueueInv
  <2>4. \A w \in Workers : worker[w] # j
    BY <1>1 DEF WorkerInv
  <2>5. runs[j] = 0
    BY <1>1 DEF LedgerInv
  <2>6. ClosingInv'
    BY <1>1, <1>2, <2>1 DEF ClosingInv, NoSendOnClosed
  <2>7. ExitInv'
    BY <1>1, <1>2 DEF ExitInv, ClosingInv, AllWorkersDone
  <2>8. QueueWellFormed'
    <3>1. Len(jobs') =< Capacity
      BY <1>3, <2>2, PoolSize
    <3>2. ~Holds(jobs, j)
      BY <2>3 DEF Holds
    <3> QED
      BY <2>2, <3>1, <3>2 DEF QueueWellFormed
  <2>9. QueueInv'
    BY <1>1, <2>1, <2>2, <2>3, <2>4, <2>5 DEF QueueInv
  <2>10. WorkerInv'
    BY <1>1, <2>1 DEF WorkerInv
  <2>11. LedgerInv'
    <3> SUFFICES ASSUME NEW k \in Jobs
                 PROVE  /\ runs'[k] # 0 => runs'[k] = 1 /\ submit'[k] = "nil"
                        /\ submit'[k] = "nil" /\ runs'[k] = 0 =>
                              Queued(k)' \/ \E w \in Workers : worker'[w] = k
      BY DEF LedgerInv
    <3>1. CASE k = j
      BY <1>1, <2>2, <2>5, <3>1 DEF Queued
    <3>2. CASE k # j
      <4>1. submit'[k] = submit[k] /\ runs'[k] = runs[k]
        BY <1>1, <2>1, <3>2
      <4>2. Queued(k) => Queued(k)'
        BY <2>2 DEF Queued
      <4> QED
        BY <1>1, <4>1, <4>2 DEF LedgerInv
    <3> QED
      BY <3>1, <3>2
  <2> QED
    BY <2>6, <2>7, <2>8, <2>9, <2>10, <2>11
<1>4. CASE ~(Len(jobs) < Capacity)
  <2>1. submit' = [submit EXCEPT ![j] = "ErrQueueFull"] /\ jobs' = jobs
    BY <1>4 DEF SubmitSend, SendOrReject
  <2>2. ClosingInv' /\ ExitInv'
    BY <1>1, <1>2, <2>1 DEF ClosingInv, NoSendOnClosed, ExitInv, AllWorkersDone
  <2>3. QueueWellFormed' /\ QueueInv'
    BY <1>1, <2>1 DEF QueueWellFormed, QueueInv
  <2>4. WorkerInv'
    BY <1>1, <2>1 DEF WorkerInv
  <2>5. LedgerInv'
    BY <1>1, <2>1 DEF LedgerInv, Queued
  <2> QED
    BY <2>2, <2>3, <2>4, <2>5
<1> QED
  BY <1>3, <1>4

(* The oldest job moves from the buffer to an idle worker.                 *)
LEMMA ReceiveIInv ==
    ASSUME IInv, TypeOK', NEW u \in Workers, Receive(u)
    PROVE  IInv'
<1> USE DEF IInv, TypeOK
<1> DEFINE h == Head(jobs)
<1>1. /\ worker[u] = Idle
      /\ jobs # << >>
      /\ worker' = [worker EXCEPT ![u] = h]
      /\ jobs' = Tail(jobs)
      /\ UNCHANGED <<submit, closed, once, closer, runs>>
  BY DEF Receive
<1>2. /\ Len(jobs) \in Nat /\ Len(jobs) >= 1
      /\ h = jobs[1] /\ h \in Jobs
      /\ Len(jobs') = Len(jobs) - 1
      /\ \A i \in 1 .. Len(jobs') : i + 1 \in 1 .. Len(jobs) /\ jobs'[i] = jobs[i + 1]
      /\ \A k : Holds(jobs, k) /\ k # h => Holds(jobs', k)
      /\ Distinct(jobs) => Distinct(jobs') /\ ~Holds(jobs', h)
  BY <1>1, ReceiveQueue
<1> HIDE DEF h
<1>3. submit[h] = "nil" /\ runs[h] = 0 /\ \A w \in Workers : worker[w] # h
  <2>1. 1 \in 1 .. Len(jobs)
    BY <1>2
  <2>2. submit[jobs[1]] = "nil" /\ runs[jobs[1]] = 0 /\ \A w \in Workers : worker[w] # jobs[1]
    BY <2>1 DEF QueueInv
  <2> QED
    BY <1>2, <2>2
<1>4. \A i \in 1 .. Len(jobs') : jobs'[i] \in Jobs /\ jobs'[i] # h
  <2>1. ~Holds(jobs', h)
    BY <1>2 DEF QueueWellFormed
  <2>2. \A i \in 1 .. Len(jobs') : jobs'[i] # h
    BY <2>1 DEF Holds
  <2>3. jobs' \in Seq(Jobs)
    OBVIOUS
  <2>4. \A i \in 1 .. Len(jobs') : jobs'[i] \in Jobs
    BY <2>3
  <2> QED
    BY <2>2, <2>4
<1>5. \A w \in Workers : worker'[w] = IF w = u THEN h ELSE worker[w]
  BY <1>1
<1>6. ClosingInv'
  BY <1>1 DEF ClosingInv, NoSendOnClosed
<1>7. ExitInv'
  <2>1. \A w \in Workers : worker[w] # Exited
    BY <1>1 DEF ExitInv
  <2>2. \A c \in Closers : closer[c] # "nil"
    BY <2>1 DEF ExitInv, AllWorkersDone
  <2>3. \A w \in Workers : worker'[w] # Exited
    BY <1>2, <1>5, <2>1, WorkerValuesAssumption
  <2> QED
    BY <1>1, <2>2, <2>3 DEF ExitInv
<1>8. QueueWellFormed'
  BY <1>2, PoolSize DEF QueueWellFormed
<1>9. QueueInv'
  BY <1>1, <1>2, <1>4, <1>5 DEF QueueInv
<1>10. WorkerInv'
  BY <1>1, <1>3, <1>5 DEF WorkerInv
<1>11. LedgerInv'
  <2> SUFFICES ASSUME NEW k \in Jobs
               PROVE  /\ runs'[k] # 0 => runs'[k] = 1 /\ submit'[k] = "nil"
                      /\ submit'[k] = "nil" /\ runs'[k] = 0 =>
                            Queued(k)' \/ \E w \in Workers : worker'[w] = k
    BY DEF LedgerInv
  <2>1. Queued(k) /\ k # h => Queued(k)'
    BY <1>2 DEF Queued
  <2>2. ASSUME NEW w \in Workers, worker[w] = k PROVE worker'[w] = k
    BY <1>1, <1>5, <2>2, WorkerValuesAssumption
  <2>3. worker'[u] = h
    BY <1>5
  <2> QED
    BY <1>1, <2>1, <2>2, <2>3 DEF LedgerInv
<1> QED
  BY <1>6, <1>7, <1>8, <1>9, <1>10, <1>11

(* A job is over: its worker is free and its run is counted.               *)
LEMMA EndJobIInv ==
    ASSUME IInv, TypeOK', NEW u \in Workers, EndJob(u)
    PROVE  IInv'
<1> USE DEF IInv, TypeOK
<1> DEFINE d == worker[u]
<1>1. /\ d \in Jobs
      /\ runs' = [runs EXCEPT ![d] = @ + 1]
      /\ worker' = [worker EXCEPT ![u] = Idle]
      /\ UNCHANGED <<submit, jobs, closed, once, closer>>
  BY DEF EndJob
<1> HIDE DEF d
<1>2. /\ submit[d] = "nil" /\ runs[d] = 0
      /\ \A v \in Workers : worker[v] = d => v = u
  BY <1>1 DEF WorkerInv, d
<1>3. \A i \in 1 .. Len(jobs) : jobs[i] \in Jobs /\ jobs[i] # d
  BY DEF QueueInv, d
<1>4. \A w \in Workers : worker'[w] = IF w = u THEN Idle ELSE worker[w]
  BY <1>1
<1>5. \A k \in Jobs : runs'[k] = IF k = d THEN 1 ELSE runs[k]
  BY <1>1, <1>2
<1>6. ClosingInv'
  BY <1>1 DEF ClosingInv, NoSendOnClosed
<1>7. ExitInv'
  <2>1. worker[u] # Exited
    BY <1>1, WorkerValuesAssumption DEF d
  <2>2. \A c \in Closers : closer[c] # "nil"
    BY <2>1 DEF ExitInv, AllWorkersDone
  <2> QED
    BY <1>1, <1>4, <2>2, WorkerValuesAssumption DEF ExitInv
<1>8. QueueWellFormed'
  BY <1>1 DEF QueueWellFormed
<1>9. QueueInv'
  BY <1>1, <1>3, <1>4, <1>5, WorkerValuesAssumption DEF QueueInv
<1>10. WorkerInv'
  BY <1>1, <1>2, <1>4, <1>5, WorkerValuesAssumption DEF WorkerInv
<1>11. LedgerInv'
  <2> SUFFICES ASSUME NEW k \in Jobs
               PROVE  /\ runs'[k] # 0 => runs'[k] = 1 /\ submit'[k] = "nil"
                      /\ submit'[k] = "nil" /\ runs'[k] = 0 =>
                            Queued(k)' \/ \E w \in Workers : worker'[w] = k
    BY DEF LedgerInv
  <2>1. CASE k = d
    BY <1>1, <1>2, <1>5, <2>1
  <2>2. CASE k # d
    BY <1>1, <1>4, <1>5, <2>2 DEF LedgerInv, Queued, d
  <2> QED
    BY <2>1, <2>2
<1> QED
  BY <1>6, <1>7, <1>8, <1>9, <1>10, <1>11

(* A step that moves no job: the ledger depends only on which Submit calls *)
(* returned nil, on the buffer, on the jobs of the workers and on the runs. *)
LEMMA LedgerFrame ==
    ASSUME IInv, TypeOK', UNCHANGED <<jobs, runs>>,
           \A j \in Jobs : submit'[j] = "nil" <=> submit[j] = "nil",
           \A w \in Workers :
              worker'[w] # worker[w] => worker[w] \notin Jobs /\ worker'[w] \notin Jobs
    PROVE  (QueueWellFormed /\ QueueInv /\ WorkerInv /\ LedgerInv)'
<1> USE DEF IInv, TypeOK
<1>1. QueueWellFormed'
  BY DEF QueueWellFormed
<1>2. \A i \in 1 .. Len(jobs) : jobs[i] \in Jobs
  OBVIOUS
<1>3. QueueInv'
  BY <1>2 DEF QueueInv
<1>4. WorkerInv'
  BY DEF WorkerInv
<1>5. LedgerInv'
  BY DEF LedgerInv, Queued
<1> QED
  BY <1>1, <1>3, <1>4, <1>5

(* Every step of submitters, workers and closers keeps the invariant.      *)
LEMMA NextIInv == IInv /\ [Next]_vars => IInv'
<1> SUFFICES ASSUME IInv, [Next]_vars PROVE IInv'
  OBVIOUS
<1>t. TypeOK'
  BY NextTypeOK DEF IInv
<1>1. ASSUME NEW j \in Jobs, SubmitCall(j) \/ SubmitCheck(j) PROVE IInv'
  <2>1. /\ UNCHANGED <<jobs, closed, once, closer, worker, runs>>
        /\ \A k \in Jobs : submit'[k] = "nil" <=> submit[k] = "nil"
        /\ closed => \A k \in Jobs : submit[k] # "send" => submit'[k] # "send"
    BY <1>1 DEF SubmitCall, SubmitCheck, IInv, TypeOK
  <2>2. ClosingInv' /\ ExitInv'
    BY <2>1 DEF ClosingInv, NoSendOnClosed, ExitInv, AllWorkersDone, IInv
  <2> QED
    BY <1>t, <2>1, <2>2, LedgerFrame DEF IInv
<1>2. ASSUME NEW j \in Jobs, SubmitSend(j) PROVE IInv'
  BY <1>t, <1>2, SubmitSendIInv
<1>3. ASSUME NEW w \in Workers, Receive(w) PROVE IInv'
  BY <1>t, <1>3, ReceiveIInv
<1>4. ASSUME NEW w \in Workers, EndJob(w) PROVE IInv'
  BY <1>t, <1>4, EndJobIInv
<1>5. ASSUME NEW w \in Workers, WorkerExit(w) PROVE IInv'
  <2>1. /\ worker[w] = Idle /\ closed /\ jobs = << >>
        /\ worker' = [worker EXCEPT ![w] = Exited]
        /\ UNCHANGED <<submit, jobs, closed, once, closer, runs>>
    BY <1>5 DEF WorkerExit
  <2>2. \A v \in Workers : worker'[v] = IF v = w THEN Exited ELSE worker[v]
    BY <2>1 DEF IInv, TypeOK
  <2>3. ClosingInv'
    BY <2>1 DEF ClosingInv, NoSendOnClosed, IInv
  <2>4. ExitInv'
    BY <2>1, <2>2 DEF ExitInv, AllWorkersDone, IInv
  <2> QED
    BY <1>t, <2>1, <2>2, <2>3, <2>4, LedgerFrame, WorkerValuesAssumption DEF IInv
<1>6. ASSUME NEW c \in Closers, CloseOnce(c) PROVE IInv'
  <2>1. UNCHANGED <<submit, jobs, closed, worker, runs>>
    BY <1>6 DEF CloseOnce
  <2>2. ClosingInv' /\ ExitInv'
    BY <1>6 DEF CloseOnce, ClosingInv, NoSendOnClosed, ExitInv, AllWorkersDone, IInv, TypeOK
  <2> QED
    BY <1>t, <2>1, <2>2, LedgerFrame DEF IInv
<1>7. ASSUME NEW c \in Closers, CloseDrained(c) \/ CloseDeadline(c) PROVE IInv'
  <2>1. UNCHANGED <<submit, jobs, closed, once, worker, runs>>
    BY <1>7 DEF CloseDrained, CloseDeadline
  <2>2. ClosingInv' /\ ExitInv'
    BY <1>7 DEF CloseDrained, CloseDeadline, ClosingInv, NoSendOnClosed, ExitInv,
                AllWorkersDone, IInv, TypeOK
  <2> QED
    BY <1>t, <2>1, <2>2, LedgerFrame DEF IInv
<1>8. CASE CloseChannels
  <2>1. UNCHANGED <<submit, jobs, worker, runs>>
    BY <1>8 DEF CloseChannels
  <2>2. ClosingInv'
    BY <1>8 DEF CloseChannels, ClosingInv, NoSendOnClosed, IInv, TypeOK
  <2>3. ExitInv'
    BY <1>8 DEF CloseChannels, ExitInv, AllWorkersDone, IInv, TypeOK
  <2> QED
    BY <1>t, <2>1, <2>2, <2>3, LedgerFrame DEF IInv
<1>9. CASE UNCHANGED vars
  <2>1. ClosingInv' /\ ExitInv'
    BY <1>9 DEF vars, ClosingInv, NoSendOnClosed, ExitInv, AllWorkersDone, IInv
  <2> QED
    BY <1>t, <1>9, <2>1, LedgerFrame DEF IInv, vars
<1> QED
  BY <1>1, <1>2, <1>3, <1>4, <1>5, <1>6, <1>7, <1>8, <1>9
     DEF Next, SubmitStep, WorkerStep, CloseStep, JobReturns, JobPanics

(* Every reachable state satisfies the inductive invariant.                *)
LEMMA InductiveInvariant == Spec => []IInv
BY InitIInv, NextIInv, PTL DEF Spec

-----------------------------------------------------------------------------
(* The safety properties *)

(* No Submit is about to send when the channels are closed: the read lock  *)
(* that Submit holds keeps Close out (mu, workq.go:39-43).                 *)
THEOREM NeverSendsOnClosed == Spec => []NoSendOnClosed
<1>1. IInv => NoSendOnClosed
  BY DEF IInv, ClosingInv
<1> QED
  BY <1>1, InductiveInvariant, PTL

(* The ledger of jobs: an accepted job is in exactly one place.            *)
LEMMA IInvAccepted == IInv => AcceptedIsSomewhere
<1> SUFFICES ASSUME IInv, NEW j \in Jobs, submit[j] = "nil"
             PROVE  \/ Queued(j) /\ RunningOn(j) = {} /\ runs[j] = 0
                    \/ ~Queued(j) /\ (\E w \in Workers : RunningOn(j) = {w}) /\ runs[j] = 0
                    \/ ~Queued(j) /\ RunningOn(j) = {} /\ runs[j] = 1
  BY DEF AcceptedIsSomewhere
<1> USE DEF IInv
<1>1. Queued(j) => RunningOn(j) = {} /\ runs[j] = 0
  BY DEF QueueInv, Queued, Holds, RunningOn
<1>2. ASSUME NEW w \in Workers, worker[w] = j
      PROVE  ~Queued(j) /\ RunningOn(j) = {w} /\ runs[j] = 0
  <2>1. RunningOn(j) = {w} /\ runs[j] = 0
    BY <1>2 DEF WorkerInv, RunningOn
  <2> QED
    BY <1>1, <2>1
<1>3. CASE runs[j] # 0
  <2>1. runs[j] = 1 /\ ~Queued(j)
    BY <1>1, <1>3 DEF LedgerInv
  <2>2. RunningOn(j) = {}
    BY <1>2, <1>3 DEF RunningOn
  <2> QED
    BY <2>1, <2>2
<1>4. CASE runs[j] = 0
  <2>1. Queued(j) \/ \E w \in Workers : worker[w] = j
    BY <1>4 DEF LedgerInv
  <2> QED
    BY <1>1, <1>2, <2>1
<1> QED
  BY <1>3, <1>4

(* A job whose Submit returned nil is buffered, on exactly one worker, or  *)
(* was run exactly once: it is neither lost nor run twice (Submit and run, *)
(* a panicking job and a Close at any moment included).                    *)
THEOREM AcceptedNeverLost == Spec => []AcceptedIsSomewhere
BY IInvAccepted, InductiveInvariant, PTL

(* A job whose Submit returned an error has no effect: the 503 that the    *)
(* upload handler answers is the whole truth.                              *)
THEOREM RefusedHasNoEffect == Spec => []RefusedNeverRuns
<1>1. IInv => RefusedNeverRuns
  <2> SUFFICES ASSUME IInv, NEW j \in Jobs, submit[j] # "nil"
               PROVE  ~Queued(j) /\ RunningOn(j) = {} /\ runs[j] = 0
    BY DEF RefusedNeverRuns
  <2>1. ~Queued(j)
    BY DEF IInv, QueueInv, Queued, Holds
  <2>2. RunningOn(j) = {}
    BY DEF IInv, WorkerInv, RunningOn
  <2>3. runs[j] = 0
    BY DEF IInv, LedgerInv
  <2> QED
    BY <2>1, <2>2, <2>3
<1> QED
  BY <1>1, InductiveInvariant, PTL

(* A Close that returned nil left nothing behind: at least one worker has  *)
(* exited, so the channel is empty, and no worker holds a job.             *)
LEMMA IInvDrained == IInv => NilMeansDrained
<1> SUFFICES ASSUME IInv, NEW c \in Closers, closer[c] = "nil"
             PROVE  jobs = << >> /\ \A j \in Jobs : submit[j] = "nil" => runs[j] = 1
  BY DEF NilMeansDrained
<1>1. \A w \in Workers : worker[w] = Exited
  BY DEF IInv, ExitInv, AllWorkersDone
<1>2. 1 \in Workers
  BY PoolSize DEF Workers
<1>3. jobs = << >>
  BY <1>1, <1>2 DEF IInv, ExitInv
<1>4. \A j \in Jobs : ~Queued(j)
  BY <1>3, EmptySeq DEF Queued, Holds
<1>5. ASSUME NEW j \in Jobs, submit[j] = "nil" PROVE runs[j] = 1
  BY <1>1, <1>4, <1>5, WorkerValuesAssumption DEF IInv, LedgerInv
<1> QED
  BY <1>3, <1>5

(* When Close returns nil every accepted job has run to its end, whatever  *)
(* the number of workers: serve.go may close the stores.                   *)
THEOREM NilAlwaysDrained == Spec => []NilMeansDrained
BY IInvDrained, InductiveInvariant, PTL

-----------------------------------------------------------------------------
(* The pool implements JobService *)

(* A new pool is a new job service.                                        *)
LEMMA InitRefines == Init => Service!ServiceInit
<1> SUFFICES ASSUME Init PROVE Service!ServiceInit
  OBVIOUS
<1>1. \A j \in Jobs : JobState(j) = "unseen"
  BY DEF Init, JobState
<1>2. closed = FALSE /\ \A c \in Closers : closer[c] # "nil"
  BY DEF Init
<1> QED
  BY <1>1, <1>2 DEF Service!ServiceInit

(* JobService has its own instance of FiniteSets: the same Cardinality.     *)
LEMMA SameCardinality == \A S : Service!Cardinality(S) = Cardinality(S)
BY DEF Service!Cardinality, Cardinality

(* What the service's state says of a job on a worker, and of one that its  *)
(* Submit has not accepted.                                                *)
LEMMA JobStates ==
    ASSUME IInv, NEW j \in Jobs
    PROVE  /\ submit[j] \in {"idle", "called", "send"} => JobState(j) = "unseen"
           /\ JobState(j) = "running" <=> \E w \in Workers : worker[w] = j
<1> USE DEF IInv, TypeOK, SubmitResults
<1>1. submit[j] \in {"idle", "called", "send"} => JobState(j) = "unseen"
  BY DEF JobState
<1>2. ASSUME NEW w \in Workers, worker[w] = j PROVE JobState(j) = "running"
  <2>1. submit[j] = "nil" /\ runs[j] = 0 /\ w \in RunningOn(j)
    BY <1>2 DEF WorkerInv, RunningOn
  <2> QED
    BY <2>1 DEF JobState
<1>3. ASSUME JobState(j) = "running" PROVE \E w \in Workers : worker[w] = j
  BY <1>3 DEF JobState, RunningOn
<1> QED
  BY <1>1, <1>2, <1>3

(* While a worker is idle, fewer jobs run than there are workers: the      *)
(* running jobs are the image of the busy workers.                         *)
LEMMA RoomToRun ==
    ASSUME IInv, NEW u \in Workers, worker[u] = Idle
    PROVE  Cardinality(Service!Running) < NumWorkers
<1> DEFINE Busy == {w \in Workers : worker[w] \in Jobs}
           R == {j \in Jobs : \E w \in Workers : worker[w] = j}
           f == [w \in Busy |-> worker[w]]
<1>1. Service!Running = R
  BY JobStates DEF Service!Running
<1>2. IsFiniteSet(Workers \ {u}) /\ Cardinality(Workers \ {u}) = NumWorkers - 1
  <2>1. IsFiniteSet(Workers) /\ Cardinality(Workers) = NumWorkers
    BY PoolSize, FS_Interval DEF Workers
  <2> QED
    BY <2>1, FS_RemoveElement
<1>3. Busy \subseteq Workers \ {u}
  BY WorkerValuesAssumption
<1>4. IsFiniteSet(Busy) /\ Cardinality(Busy) =< NumWorkers - 1
  BY <1>2, <1>3, FS_Subset
<1>5. f \in Surjection(Busy, R)
  BY DEF Surjection
<1>6. IsFiniteSet(R) /\ Cardinality(R) =< Cardinality(Busy)
  BY <1>4, <1>5, FS_Surjection
<1>7. Cardinality(R) \in Nat /\ Cardinality(Busy) \in Nat
  BY <1>4, <1>6, FS_CardinalityType
<1> HIDE DEF Busy, R, f
<1> QED
  BY <1>1, <1>4, <1>6, <1>7, PoolSize

(* One step of the pool is one step of the service, or none.               *)
LEMMA StepRefines ==
    IInv /\ IInv' /\ [Next]_vars => [Service!ServiceNext]_(Service!svars)
<1> SUFFICES ASSUME IInv, IInv', [Next]_vars
             PROVE  [Service!ServiceNext]_(Service!svars)
  OBVIOUS
<1> DEFINE State == [j \in Jobs |-> JobState(j)]
           Drained == \E c \in Closers : closer[c] = "nil"
<1>s. (UNCHANGED <<State, closed, Drained>>) => UNCHANGED Service!svars
  BY DEF Service!svars
<1> USE DEF IInv, TypeOK
<1>1. ASSUME NEW j \in Jobs, SubmitCall(j) \/ SubmitCheck(j) \/ SubmitSend(j)
      PROVE  [Service!ServiceNext]_(Service!svars)
  <2>1. /\ UNCHANGED <<closed, closer, worker, runs>>
        /\ submit[j] \in {"idle", "called", "send"}
        /\ \A k \in Jobs : k # j => submit'[k] = submit[k]
        /\ submit'[j] = "nil" => ~closed
    BY <1>1 DEF SubmitCall, SubmitCheck, SubmitSend, SendOrReject, ClosingInv, NoSendOnClosed
  <2>2. \A k \in Jobs : k # j => JobState(k)' = JobState(k)
    BY <2>1 DEF JobState, RunningOn
  <2>3. JobState(j) = "unseen"
    BY <2>1, JobStates
  <2>4. runs'[j] = 0 /\ RunningOn(j)' = {}
    BY <2>1 DEF LedgerInv, WorkerInv, RunningOn
  <2>5. JobState(j)' \in {"unseen", "accepted", "refused"}
    BY <2>4 DEF JobState
  <2>6. Drained' = Drained
    BY <2>1
  <2>7. CASE JobState(j)' = "unseen"
    <3>1. State' = State
      BY <2>2, <2>3, <2>7
    <3> QED
      BY <1>s, <2>1, <2>6, <3>1
  <2>8. State' = [State EXCEPT ![j] = JobState(j)']
    BY <2>2
  <2>9. CASE JobState(j)' = "accepted"
    <3>1. ~closed
      BY <2>1, <2>9 DEF JobState
    <3>2. Service!Accept(j)
      BY <2>1, <2>3, <2>6, <2>8, <2>9, <3>1 DEF Service!Accept
    <3> QED
      BY <3>2 DEF Service!ServiceNext
  <2>10. CASE JobState(j)' = "refused"
    <3>1. Service!Refuse(j)
      BY <2>1, <2>3, <2>6, <2>8, <2>10 DEF Service!Refuse
    <3> QED
      BY <3>1 DEF Service!ServiceNext
  <2> QED
    BY <2>5, <2>7, <2>9, <2>10
<1>2. ASSUME NEW u \in Workers, Receive(u)
      PROVE  [Service!ServiceNext]_(Service!svars)
  <2>q. jobs # << >>
    BY <1>2 DEF Receive
  <2>2. PICK h \in Jobs : h = Head(jobs) /\ h = jobs[1] /\ 1 \in 1 .. Len(jobs)
    BY <2>q, ReceiveQueue
  <2>1. /\ worker[u] = Idle
        /\ worker' = [worker EXCEPT ![u] = h]
        /\ UNCHANGED <<submit, closed, closer, runs>>
    BY <1>2, <2>2 DEF Receive
  <2>3. /\ submit[h] = "nil" /\ runs[h] = 0 /\ RunningOn(h) = {}
    BY <2>2 DEF QueueInv, RunningOn
  <2>4. u \in RunningOn(h)'
    BY <2>1 DEF RunningOn
  <2>5. \A k \in Jobs : k # h => RunningOn(k)' = RunningOn(k)
    BY <2>1, WorkerValuesAssumption DEF RunningOn
  <2>6. JobState(h) = "accepted" /\ JobState(h)' = "running"
    BY <2>1, <2>3, <2>4 DEF JobState
  <2>7. \A k \in Jobs : k # h => JobState(k)' = JobState(k)
    BY <2>1, <2>5 DEF JobState
  <2>8. State' = [State EXCEPT ![h] = "running"]
    BY <2>2, <2>6, <2>7
  <2>9. Service!Start(h)
    <3>1. Cardinality(Service!Running) < NumWorkers
      BY <2>1, RoomToRun
    <3>2. State[h] = "accepted"
      BY <2>6
    <3>3. Drained' = Drained
      BY <2>1
    <3> QED
      BY <2>1, <2>8, <3>1, <3>2, <3>3, SameCardinality DEF Service!Start
  <2> QED
    BY <2>2, <2>9 DEF Service!ServiceNext
<1>3. ASSUME NEW u \in Workers, EndJob(u)
      PROVE  [Service!ServiceNext]_(Service!svars)
  <2>d. PICK d \in Jobs : worker[u] = d
    BY <1>3 DEF EndJob
  <2>1. /\ worker' = [worker EXCEPT ![u] = Idle]
        /\ runs' = [runs EXCEPT ![d] = @ + 1]
        /\ UNCHANGED <<submit, closed, closer>>
    BY <1>3, <2>d DEF EndJob
  <2>2. JobState(d) = "running"
    BY <2>d, JobStates
  <2>3. submit[d] = "nil" /\ runs'[d] = 1
    BY <2>d, <2>1 DEF WorkerInv
  <2>4. JobState(d)' = "finished"
    BY <2>1, <2>3 DEF JobState
  <2>5. \A k \in Jobs : k # d => RunningOn(k)' = RunningOn(k) /\ runs'[k] = runs[k]
    BY <2>d, <2>1, WorkerValuesAssumption DEF RunningOn
  <2>6. \A k \in Jobs : k # d => JobState(k)' = JobState(k)
    BY <2>1, <2>5 DEF JobState
  <2>7. State' = [State EXCEPT ![d] = "finished"]
    BY <2>1, <2>4, <2>6
  <2>8. Service!Finish(d)
    BY <2>1, <2>2, <2>7 DEF Service!Finish
  <2> QED
    BY <2>1, <2>8 DEF Service!ServiceNext
<1>4. ASSUME NEW u \in Workers, WorkerExit(u)
      PROVE  [Service!ServiceNext]_(Service!svars)
  <2>1. /\ worker[u] = Idle /\ worker' = [worker EXCEPT ![u] = Exited]
        /\ UNCHANGED <<submit, closed, closer, runs>>
    BY <1>4 DEF WorkerExit
  <2>2. \A k \in Jobs : RunningOn(k)' = RunningOn(k)
    BY <2>1, WorkerValuesAssumption DEF RunningOn
  <2>3. State' = State
    BY <2>1, <2>2 DEF JobState
  <2> QED
    BY <1>s, <2>1, <2>3
<1>5. ASSUME UNCHANGED <<submit, worker, runs>> PROVE State' = State
  BY <1>5 DEF JobState, RunningOn
<1>6. ASSUME NEW c \in Closers, CloseOnce(c) \/ CloseDeadline(c)
      PROVE  [Service!ServiceNext]_(Service!svars)
  <2>1. UNCHANGED <<submit, worker, runs, closed>>
    BY <1>6 DEF CloseOnce, CloseDeadline
  <2>2. \A b \in Closers : closer'[b] = "nil" <=> closer[b] = "nil"
    BY <1>6 DEF CloseOnce, CloseDeadline
  <2> QED
    BY <1>s, <1>5, <2>1, <2>2
<1>7. ASSUME NEW c \in Closers, CloseDrained(c)
      PROVE  [Service!ServiceNext]_(Service!svars)
  <2>1. /\ closer[c] = "wait" /\ closer' = [closer EXCEPT ![c] = "nil"]
        /\ UNCHANGED <<submit, worker, runs, closed>>
    BY <1>7 DEF CloseDrained
  <2>2. closed
    BY <2>1 DEF ClosingInv
  <2>3. \A w \in Workers : worker[w] = Exited
    BY <1>7 DEF CloseDrained, AllWorkersDone
  <2>4. NilMeansDrained'
    BY IInvDrained, PTL
  <2>5. \A j \in Jobs : submit[j] = "nil" => runs[j] = 1
    BY <2>1, <2>4 DEF NilMeansDrained
  <2>6. \A j \in Jobs : JobState(j) \notin {"accepted", "running"}
    BY <2>5 DEF JobState
  <2>7. Drained'
    BY <2>1
  <2>8. Service!ReportDrained
    BY <1>5, <2>1, <2>2, <2>6, <2>7 DEF Service!ReportDrained
  <2> QED
    BY <2>8 DEF Service!ServiceNext
<1>8. CASE CloseChannels
  <2>1. /\ once = "running" /\ closed'
        /\ UNCHANGED <<submit, worker, runs>>
        /\ closer' = [c \in Closers |-> IF closer[c] = "once" THEN "wait" ELSE closer[c]]
    BY <1>8 DEF CloseChannels
  <2>2. ~closed
    BY <2>1 DEF ClosingInv
  <2>3. \A b \in Closers : closer'[b] = "nil" <=> closer[b] = "nil"
    BY <2>1
  <2>4. Service!Stop
    BY <1>5, <2>1, <2>2, <2>3 DEF Service!Stop
  <2> QED
    BY <2>4 DEF Service!ServiceNext
<1>9. CASE UNCHANGED vars
  BY <1>s, <1>5, <1>9 DEF vars
<1> QED
  BY <1>1, <1>2, <1>3, <1>4, <1>6, <1>7, <1>8, <1>9
     DEF Next, SubmitStep, WorkerStep, CloseStep, JobReturns, JobPanics

(* The pool keeps the promises of the abstract job service: one answer for *)
(* each job, at most one run, a bounded number of jobs at a time, nothing  *)
(* accepted after Close, and nil from Close only when nothing is left.     *)
THEOREM PoolRefinesService == Spec => RefinesService
<1>1. Spec => Service!ServiceInit /\ [][Service!ServiceNext]_(Service!svars)
  BY InitRefines, StepRefines, InductiveInvariant, PTL DEF Spec
<1> QED
  BY <1>1 DEF RefinesService, Service!ServiceSpec

-----------------------------------------------------------------------------
(* Nobody waits for ever: what every wait of the pool is for.              *)

(* A caller in closeOnce.Do waits for one who is about to close, and the   *)
(* write lock is wanted by somebody.                                       *)
DoInv ==
    /\ \A c \in Closers : closer[c] = "once" => once = "running"
    /\ once = "running" => \E c \in Closers : closer[c] = "once"

(* Every step keeps DoInv: who is in Do ends it with the channels closed.  *)
LEMMA DoInvStep == TypeOK /\ DoInv /\ [Next]_vars => DoInv'
<1> SUFFICES ASSUME TypeOK, DoInv, [Next]_vars PROVE DoInv'
  OBVIOUS
<1>a. closer \in [Closers -> {"idle", "once", "wait"} \cup CloseResults] /\ once \in {"new", "running", "done"}
  BY DEF TypeOK
<1>1. ASSUME UNCHANGED << once, closer >> PROVE DoInv'
  BY <1>1 DEF DoInv
<1>2. ASSUME NEW j \in Jobs, SubmitStep(j) PROVE DoInv'
  BY <1>1, <1>2 DEF SubmitStep, SubmitCall, SubmitCheck, SubmitSend
<1>3. ASSUME NEW w \in Workers, WorkerStep(w) \/ JobReturns(w) \/ JobPanics(w) PROVE DoInv'
  BY <1>1, <1>3 DEF WorkerStep, Receive, WorkerExit, JobReturns, JobPanics, EndJob
<1>4. ASSUME NEW c \in Closers, CloseOnce(c) PROVE DoInv'
  <2>1. /\ closer[c] = "idle" /\ \A b \in Closers : b # c => closer'[b] = closer[b]
        /\ closer'[c] = IF once = "done" THEN "wait" ELSE "once"
        /\ once' = IF once = "new" THEN "running" ELSE once
    BY <1>4, <1>a DEF CloseOnce
  <2> QED
    BY <1>a, <2>1 DEF DoInv
<1>5. ASSUME NEW c \in Closers, CloseDrained(c) \/ CloseDeadline(c) PROVE DoInv'
  <2>1. /\ closer[c] = "wait" /\ \A b \in Closers : b # c => closer'[b] = closer[b]
        /\ closer'[c] # "once" /\ once' = once
    BY <1>5, <1>a DEF CloseDrained, CloseDeadline
  <2> QED
    BY <2>1 DEF DoInv
<1>6. CASE CloseChannels
  BY <1>6 DEF CloseChannels, DoInv
<1>7. CASE UNCHANGED vars
  BY <1>1, <1>7 DEF vars
<1> QED
  BY <1>2, <1>3, <1>4, <1>5, <1>6, <1>7 DEF Next, CloseStep

(* Whoever waits in the pool waits for something that is on its way.       *)
THEOREM NobodyWaitsInVain == Spec => []EveryWaitHasAnEnd
<1>1. Init => DoInv
  BY DEF Init, DoInv
<1>2. IInv /\ DoInv /\ [Next]_vars => DoInv'
  BY DoInvStep DEF IInv
<1>3. IInv /\ DoInv => EveryWaitHasAnEnd
  BY DEF IInv, DoInv, ClosingInv, ExitInv, EveryWaitHasAnEnd
<1> QED
  BY <1>1, <1>2, <1>3, InductiveInvariant, PTL DEF Spec

Staying == {w \in Workers : worker[w] # Exited}
Busy == {w \in Workers : worker[w] \in Jobs}

(* What the workers have to do before the pool is drained: to receive and  *)
(* to end each buffered job, to end each running one, and to leave.        *)
LeftToDo == 2 * Len(jobs) + Cardinality(Staying) + Cardinality(Busy)

(* Once the channel is closed nothing is added to that work, and every     *)
(* step of a worker takes from it: the wait of Close is bounded.           *)
DrainRunsOut ==
    [][closed => \/ UNCHANGED << jobs, worker >>
                 \/ LeftToDo' < LeftToDo /\ LeftToDo' \in Nat]_vars

(* A worker more or less in a set of workers.                              *)
LEMMA OneMore ==
    ASSUME NEW S \in SUBSET Workers, NEW w \in Workers
    PROVE  /\ Cardinality(S) \in Nat
           /\ w \notin S => Cardinality(S \cup {w}) = Cardinality(S) + 1
           /\ w \in S => Cardinality(S \ {w}) = Cardinality(S) - 1
<1>1. IsFiniteSet(S)
  <2>1. IsFiniteSet(Workers)
    BY PoolSize, FS_Interval DEF Workers
  <2> QED
    BY <2>1, FS_Subset
<1> QED
  BY <1>1, FS_CardinalityType, FS_AddElement, FS_RemoveElement

(* However many workers and jobs there are, a closed pool runs dry.        *)
THEOREM ClosedPoolsRunDry == Spec => DrainRunsOut
<1> DEFINE Kept == closed => \/ UNCHANGED << jobs, worker >>
                             \/ LeftToDo' < LeftToDo /\ LeftToDo' \in Nat
<1>1. ASSUME IInv, Next, closed
      PROVE  UNCHANGED << jobs, worker >> \/ (LeftToDo' < LeftToDo /\ LeftToDo' \in Nat)
  <2>a. /\ worker \in [Workers -> Jobs \cup {Idle, Exited}] /\ jobs \in Seq(Jobs)
        /\ Len(jobs) \in Nat /\ \A j \in Jobs : submit[j] # "send"
    BY <1>1 DEF IInv, TypeOK, ClosingInv, NoSendOnClosed
  <2>b. /\ Idle # Exited /\ Idle \notin Jobs /\ Exited \notin Jobs
    BY WorkerValuesAssumption
  <2>c. Staying \in SUBSET Workers /\ Busy \in SUBSET Workers
    BY DEF Staying, Busy
  <2>d. PICK n, m, k : n = Cardinality(Staying) /\ m = Cardinality(Busy) /\ k = Len(jobs)
    OBVIOUS
  <2>e. n \in Nat /\ m \in Nat /\ k \in Nat /\ LeftToDo = 2 * k + n + m
    <3>1. NumWorkers \in Nat /\ 1 \in Workers
      BY PoolSize DEF Workers
    <3> QED
      BY <2>a, <2>c, <2>d, <3>1, OneMore DEF LeftToDo
  <2>f. LeftToDo' = 2 * Len(jobs') + Cardinality(Staying') + Cardinality(Busy')
    BY DEF LeftToDo
  <2>1. ASSUME NEW j \in Jobs, SubmitStep(j) PROVE UNCHANGED << jobs, worker >>
    BY <2>1, <2>a DEF SubmitStep, SubmitCall, SubmitCheck, SubmitSend
  <2>2. ASSUME NEW w \in Workers, Receive(w) PROVE LeftToDo' < LeftToDo /\ LeftToDo' \in Nat
    <3>1. /\ worker[w] = Idle /\ jobs # << >> /\ Head(jobs) \in Jobs
          /\ jobs' = Tail(jobs) /\ worker' = [worker EXCEPT ![w] = Head(jobs)]
      BY <2>2, <2>a, ReceiveQueue DEF Receive
    <3>2. Len(jobs') = k - 1 /\ k >= 1
      BY <2>a, <2>d, <3>1, ReceiveQueue
    <3>3. Staying' = Staying
      BY <2>a, <2>b, <3>1 DEF Staying
    <3>4. Busy' = Busy \cup {w} /\ w \notin Busy
      BY <2>a, <2>b, <3>1 DEF Busy
    <3>5. Cardinality(Busy') = m + 1
      BY <2>c, <2>d, <3>4, OneMore
    <3>6. Cardinality(Staying') = n
      BY <2>d, <3>3
    <3> QED
      BY <2>e, <2>f, <3>2, <3>5, <3>6
  <2>3. ASSUME NEW w \in Workers, EndJob(w) PROVE LeftToDo' < LeftToDo /\ LeftToDo' \in Nat
    <3>1. worker[w] \in Jobs /\ worker' = [worker EXCEPT ![w] = Idle] /\ jobs' = jobs
      BY <2>3 DEF EndJob
    <3>2. Staying' = Staying
      BY <2>a, <2>b, <3>1 DEF Staying
    <3>3. Busy' = Busy \ {w} /\ w \in Busy
      BY <2>a, <2>b, <3>1 DEF Busy
    <3>4. Cardinality(Busy') = m - 1 /\ Cardinality(Busy') \in Nat
      <4>1. Busy' \in SUBSET Workers
        BY <3>3 DEF Busy
      <4> QED
        BY <2>c, <2>d, <3>3, <4>1, OneMore
    <3>5. Cardinality(Staying') = n /\ Len(jobs') = k
      BY <2>d, <3>1, <3>2
    <3> QED
      BY <2>e, <2>f, <3>4, <3>5
  <2>4. ASSUME NEW w \in Workers, WorkerExit(w) PROVE LeftToDo' < LeftToDo /\ LeftToDo' \in Nat
    <3>1. worker[w] = Idle /\ worker' = [worker EXCEPT ![w] = Exited] /\ jobs' = jobs
      BY <2>4 DEF WorkerExit
    <3>2. Busy' = Busy
      BY <2>a, <2>b, <3>1 DEF Busy
    <3>3. Staying' = Staying \ {w} /\ w \in Staying
      BY <2>a, <2>b, <3>1 DEF Staying
    <3>4. Cardinality(Staying') = n - 1 /\ Cardinality(Staying') \in Nat
      <4>1. Staying' \in SUBSET Workers
        BY <3>3 DEF Staying
      <4> QED
        BY <2>c, <2>d, <3>3, <4>1, OneMore
    <3>5. Cardinality(Busy') = m /\ Len(jobs') = k
      BY <2>d, <3>1, <3>2
    <3> QED
      BY <2>e, <2>f, <3>4, <3>5
  <2>5. ASSUME (\E c \in Closers : CloseStep(c)) \/ CloseChannels PROVE UNCHANGED << jobs, worker >>
    BY <2>5 DEF CloseStep, CloseOnce, CloseDrained, CloseDeadline, CloseChannels
  <2> QED
    BY <1>1, <2>1, <2>2, <2>3, <2>4, <2>5 DEF Next, WorkerStep, JobReturns, JobPanics
<1>2. IInv /\ [Next]_vars => [Kept]_vars
  BY <1>1
<1> QED
  BY <1>2, InductiveInvariant, PTL DEF Spec, DrainRunsOut
===============================================================================
