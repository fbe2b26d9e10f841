------------------------------ MODULE JobService ------------------------------
(***************************************************************************)
(* What a bounded worker pool promises its callers, without saying how: a  *)
(* job is answered once, an accepted job runs once, at most MaxRunning     *)
(* jobs run together, nothing is accepted after the service stopped, and   *)
(* the service reports itself drained only when no accepted job is left.   *)
(* Workq refines it (see Workq!Service).                                   *)
(***************************************************************************)
EXTENDS Naturals, FiniteSets

CONSTANTS
    Jobs,        \* the jobs callers may offer
    MaxRunning   \* how many may run at the same time

VARIABLES
    state,    \* state[j]: what became of job j
    open,     \* TRUE until the service stops accepting
    drained   \* TRUE once a caller was told that all work is finished

svars == <<state, open, drained>>

States == {"unseen", "accepted", "running", "finished", "refused"}

Running == {j \in Jobs : state[j] = "running"}

ServiceInit ==
    /\ state = [j \in Jobs |-> "unseen"]
    /\ open = TRUE
    /\ drained = FALSE

Accept(j) ==
    /\ open
    /\ state[j] = "unseen"
    /\ state' = [state EXCEPT ![j] = "accepted"]
    /\ UNCHANGED <<open, drained>>

Refuse(j) ==
    /\ state[j] = "unseen"
    /\ state' = [state EXCEPT ![j] = "refused"]
    /\ UNCHANGED <<open, drained>>

Start(j) ==
    /\ state[j] = "accepted"
    /\ Cardinality(Running) < MaxRunning
    /\ state' = [state EXCEPT ![j] = "running"]
    /\ UNCHANGED <<open, drained>>

Finish(j) ==
    /\ state[j] = "running"
    /\ state' = [state EXCEPT ![j] = "finished"]
    /\ UNCHANGED <<open, drained>>

Stop ==
    /\ open
    /\ open' = FALSE
    /\ UNCHANGED <<state, drained>>

ReportDrained ==
    /\ ~open
    /\ \A j \in Jobs : state[j] \notin {"accepted", "running"}
    /\ drained' = TRUE
    /\ UNCHANGED <<state, open>>

ServiceNext ==
    \/ \E j \in Jobs : Accept(j) \/ Refuse(j) \/ Start(j) \/ Finish(j)
    \/ Stop
    \/ ReportDrained

ServiceSpec == ServiceInit /\ [][ServiceNext]_svars
===============================================================================
