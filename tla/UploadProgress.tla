---------------------------- MODULE UploadProgress ----------------------------
(***************************************************************************)
(* internal/api/handlers.go: what an upload tells its clients.  The upload *)
(* handler and then the job it submits write the job's event log; a relay  *)
(* goroutine of the job copies the pipeline's events from a channel into   *)
(* the same log; any number of SSE streams (GET /api/upload/progress with  *)
(* a job_id) read it and drop it from the map once they saw the terminal   *)
(* event.  The handler and its job run one after the other: they are one   *)
(* process here, and stage is its program counter.  Looking a log up       *)
(* (under uploadMu) and appending to it (under log.mu) are separate steps, *)
(* so that a log can leave the map between the two.                        *)
(***************************************************************************)
EXTENDS Integers, Sequences, FiniteSets

CONSTANTS
    Jobs,        \* one upload request, hence one job_id, for each element
    Streams,     \* the SSE requests
    NumFiles,    \* files of an upload
    ChanCap,     \* buffer of progressCh, 32 in the code
    MaxEmits     \* bound: events the pipeline sends in a job

ASSUME BoundsAssumption ==
    /\ NumFiles \in Nat \ {0}
    /\ ChanCap \in Nat \ {0}
    /\ MaxEmits \in Nat

VARIABLES
    stage,       \* where the handler, then the job, is
    file,        \* the file the job is at
    held,        \* the log the producer looked up and will append to, or 0
    emitted,     \* how many events the pipeline sent
    chan,        \* progressCh, by the number of the event
    stopped,     \* stopRelay has been closed
    relay,       \* where the relay goroutine is
    relayEvt,    \* the event it received, or 0
    relayLog,    \* the log it looked up, or 0
    jobProgress, \* h.jobProgress
    jobEvents,   \* h.jobEvents: the job's log, or 0
    logs,        \* every jobProgressLog ever allocated
    stream       \* each SSE request: a record, see NewStream

producerVars == <<stage, file, held>>
relayVars == <<relay, relayEvt, relayLog>>
vars == <<stage, file, held, emitted, chan, stopped, relay, relayEvt, relayLog,
          jobProgress, jobEvents, logs, stream>>

(* Stages at which the producer appends an event named like the stage. *)
Terminal == {"rejected", "cancelled", "error", "done"}
Announcing == {"queued", "indexing", "finalizing", "warning"} \cup Terminal
Stages == Announcing \cup
    {"new", "submit", "file", "pipeline", "finalize", "stop", "join", "returned", "panicked"}

OwnEvent(phase, f) == [from |-> "job", phase |-> phase, n |-> f]
PipeEvent(n) == [from |-> "pipe", phase |-> "pipeline", n |-> n]
Events == [from : {"job", "pipe"}, phase : Announcing \cup {"pipeline"}, n : Nat]
NoLog == 0
Log == [job : Jobs, events : Seq(Events), done : BOOLEAN]
LogIds == 0 .. Len(logs)
StreamState == [pc : {"new", "loop", "wait", "flush", "clear", "ended", "left"},
                job : Jobs \cup {"none"}, log : Nat, cursor : Nat, batch : Seq(Events),
                terminal : BOOLEAN, seen : Seq(Events), gone : BOOLEAN, watched : BOOLEAN]
NewStream == [pc |-> "new", job |-> "none", log |-> NoLog, cursor |-> 0, batch |-> <<>>,
              terminal |-> FALSE, seen |-> <<>>, gone |-> FALSE, watched |-> FALSE]

TypeOK ==
    /\ stage \in [Jobs -> Stages]
    /\ file \in [Jobs -> 1 .. NumFiles + 1]
    /\ held \in [Jobs -> LogIds]
    /\ emitted \in [Jobs -> 0 .. MaxEmits]
    /\ chan \in [Jobs -> Seq(1 .. MaxEmits)]
    /\ stopped \in [Jobs -> BOOLEAN]
    /\ relay \in [Jobs -> {"off", "select", "received", "append", "exited"}]
    /\ relayEvt \in [Jobs -> 0 .. MaxEmits]
    /\ relayLog \in [Jobs -> LogIds]
    /\ jobProgress \in [Jobs -> Announcing \cup {"none"}]
    /\ jobEvents \in [Jobs -> LogIds]
    /\ logs \in Seq(Log)
    /\ stream \in [Streams -> StreamState]
    /\ \A s \in Streams : stream[s].log \in LogIds

Init ==
    /\ stage = [j \in Jobs |-> "new"]
    /\ file = [j \in Jobs |-> 1]
    /\ held = [j \in Jobs |-> NoLog]
    /\ emitted = [j \in Jobs |-> 0]
    /\ chan = [j \in Jobs |-> <<>>]
    /\ stopped = [j \in Jobs |-> FALSE]
    /\ relay = [j \in Jobs |-> "off"]
    /\ relayEvt = [j \in Jobs |-> 0]
    /\ relayLog = [j \in Jobs |-> NoLog]
    /\ jobProgress = [j \in Jobs |-> "none"]
    /\ jobEvents = [j \in Jobs |-> NoLog]
    /\ logs = <<>>
    /\ stream = [s \in Streams |-> NewStream]

-----------------------------------------------------------------------------
(* The event logs. *)

(* getOrCreateEventLog(j) returns this log; GetOrCreate is its effect. *)
TheLog(j) == IF jobEvents[j] = NoLog THEN Len(logs) + 1 ELSE jobEvents[j]
GetOrCreate(j) ==
    /\ jobEvents' = [jobEvents EXCEPT ![j] = TheLog(j)]
    /\ logs' = IF jobEvents[j] = NoLog
               THEN Append(logs, [job |-> j, events |-> << >>, done |-> FALSE])
               ELSE logs

(* cond.Broadcast: the streams waiting on the log run their loop again. *)
Broadcast(log) ==
    stream' = [s \in Streams |-> IF stream[s].log = log /\ stream[s].pc = "wait"
                                 THEN [stream[s] EXCEPT !.pc = "loop"] ELSE stream[s]]

AppendTo(log, evt, done) ==
    logs' = [logs EXCEPT ![log].events = Append(@, evt), ![log].done = @ \/ done]

(* appendEvent (done = FALSE) and finishEvent (done = TRUE) on a log in hand. *)
LogEvent(log, evt, done) == AppendTo(log, evt, done) /\ Broadcast(log)

-----------------------------------------------------------------------------
(* The handler and the job. *)

Goto(j, s) == stage' = [stage EXCEPT ![j] = s]

Request(j) ==
    /\ stage[j] = "new"
    /\ Goto(j, "queued")
    /\ UNCHANGED <<file, held, emitted, chan, stopped, relayVars, jobProgress, jobEvents, logs,
                   stream>>

(* setProgress, except before the finalize warning, and the lookup of      *)
(* appendEvent or finishEvent.                                             *)
Announce(j) ==
    /\ stage[j] \in Announcing
    /\ held[j] = NoLog
    /\ jobProgress' = [jobProgress EXCEPT ![j] = IF stage[j] = "warning" THEN @ ELSE stage[j]]
    /\ held' = [held EXCEPT ![j] = TheLog(j)]
    /\ GetOrCreate(j)
    /\ UNCHANGED <<stage, file, emitted, chan, stopped, relayVars, stream>>

After(s) ==
    CASE s = "queued" -> "submit"
      [] s = "indexing" -> "pipeline"
      [] s = "finalizing" -> "finalize"
      [] s = "warning" -> "done"
      [] s = "rejected" -> "returned"
      [] s \in Terminal \ {"rejected"} -> "stop"

(* The rest of appendEvent or finishEvent. *)
AppendOwn(j) ==
    /\ held[j] # NoLog
    /\ LogEvent(held[j], OwnEvent(stage[j], file[j]), stage[j] \in Terminal)
    /\ held' = [held EXCEPT ![j] = NoLog]
    /\ Goto(j, After(stage[j]))
    /\ UNCHANGED <<file, emitted, chan, stopped, relayVars, jobProgress, jobEvents>>

(* workq.Submit; an accepted job starts its relay. *)
Submit(j) ==
    /\ stage[j] = "submit"
    /\ \/ Goto(j, "rejected") /\ UNCHANGED relay
       \/ Goto(j, "file") /\ relay' = [relay EXCEPT ![j] = "select"]
    /\ UNCHANGED <<file, held, emitted, chan, stopped, relayEvt, relayLog, jobProgress,
                   jobEvents, logs, stream>>

(* The head of the loop over the files.  The pool's context, which the     *)
(* Workq module models, may have been cancelled at any time.               *)
NextFile(j) ==
    /\ stage[j] = "file"
    /\ IF file[j] > NumFiles THEN Goto(j, "finalizing")
       ELSE Goto(j, "indexing") \/ Goto(j, "cancelled")
    /\ UNCHANGED <<file, held, emitted, chan, stopped, relayVars, jobProgress, jobEvents, logs,
                   stream>>

(* emit inside IndexPath: an event that finds the channel full is dropped. *)
Emit(j) ==
    /\ stage[j] = "pipeline"
    /\ emitted[j] < MaxEmits
    /\ emitted' = [emitted EXCEPT ![j] = @ + 1]
    /\ chan' = IF Len(chan[j]) < ChanCap
               THEN [chan EXCEPT ![j] = Append(@, emitted[j] + 1)] ELSE chan
    /\ UNCHANGED <<producerVars, stopped, relayVars, jobProgress, jobEvents, logs, stream>>

IndexPathReturns(j) ==
    /\ stage[j] = "pipeline"
    /\ \/ Goto(j, "file") /\ file' = [file EXCEPT ![j] = @ + 1]
       \/ Goto(j, "error") /\ UNCHANGED file
    /\ UNCHANGED <<held, emitted, chan, stopped, relayVars, jobProgress, jobEvents, logs, stream>>

FinalizeReturns(j) ==
    /\ stage[j] = "finalize"
    /\ \/ Goto(j, "done")
       \/ Goto(j, "warning")
    /\ UNCHANGED <<file, held, emitted, chan, stopped, relayVars, jobProgress, jobEvents, logs,
                   stream>>

(* The worker recovers a panic of the pipeline; nothing below it runs. *)
JobPanics(j) ==
    /\ stage[j] \in {"pipeline", "finalize"}
    /\ Goto(j, "panicked")
    /\ UNCHANGED <<file, held, emitted, chan, stopped, relayVars, jobProgress, jobEvents, logs,
                   stream>>

(* Mutant: the job waits for its relay without having told it to stop. *)
StopRelay_Forgotten(j) ==
    /\ stage[j] = "stop"
    /\ Goto(j, "join")
    /\ UNCHANGED <<file, held, emitted, chan, stopped, relayVars, jobProgress, jobEvents, logs,
                   stream>>

(* close(stopRelay). *)
StopRelay(j) ==
    /\ stage[j] = "stop"
    /\ stopped' = [stopped EXCEPT ![j] = TRUE]
    /\ Goto(j, "join")
    /\ UNCHANGED <<file, held, emitted, chan, relayVars, jobProgress, jobEvents, logs, stream>>

(* relayDone.Wait(). *)
JoinRelay(j) ==
    /\ stage[j] = "join"
    /\ relay[j] = "exited"
    /\ Goto(j, "returned")
    /\ UNCHANGED <<file, held, emitted, chan, stopped, relayVars, jobProgress, jobEvents, logs,
                   stream>>

-----------------------------------------------------------------------------
(* The relay goroutine: when both cases of its select are ready it takes   *)
(* either.                                                                 *)

RelayReceive(j) ==
    /\ relay[j] = "select"
    /\ chan[j] # <<>>
    /\ relayEvt' = [relayEvt EXCEPT ![j] = Head(chan[j])]
    /\ chan' = [chan EXCEPT ![j] = Tail(@)]
    /\ relay' = [relay EXCEPT ![j] = "received"]
    /\ UNCHANGED <<producerVars, emitted, stopped, relayLog, jobProgress, jobEvents, logs, stream>>

RelayLookup(j) ==
    /\ relay[j] = "received"
    /\ relayLog' = [relayLog EXCEPT ![j] = TheLog(j)]
    /\ relay' = [relay EXCEPT ![j] = "append"]
    /\ GetOrCreate(j)
    /\ UNCHANGED <<producerVars, emitted, chan, stopped, relayEvt, jobProgress, stream>>

RelayAppend(j) ==
    /\ relay[j] = "append"
    /\ LogEvent(relayLog[j], PipeEvent(relayEvt[j]), FALSE)
    /\ relay' = [relay EXCEPT ![j] = "select"]
    /\ relayEvt' = [relayEvt EXCEPT ![j] = 0]
    /\ relayLog' = [relayLog EXCEPT ![j] = NoLog]
    /\ UNCHANGED <<producerVars, emitted, chan, stopped, jobProgress, jobEvents>>

RelayExit(j) ==
    /\ relay[j] = "select"
    /\ stopped[j]
    /\ relay' = [relay EXCEPT ![j] = "exited"]
    /\ UNCHANGED <<producerVars, emitted, chan, stopped, relayEvt, relayLog, jobProgress,
                   jobEvents, logs, stream>>

-----------------------------------------------------------------------------
(* The SSE streams. *)

StreamOnly == UNCHANGED <<producerVars, emitted, chan, stopped, relayVars, jobProgress>>

(* A client has a job_id from the 202 answer, so from an accepted job. *)
Accepted(j) == stage[j] \notin {"new", "queued", "submit", "rejected"} /\ relay[j] # "off"

Connect(s, j) ==
    /\ stream[s].pc = "new"
    /\ Accepted(j)
    /\ stream' = [stream EXCEPT ![s] =
                     [NewStream EXCEPT !.pc = "loop", !.job = j, !.log = TheLog(j)]]
    /\ GetOrCreate(j)
    /\ StreamOnly

(* The critical section of log.mu, and ctx.Err() after it: cond.Wait while *)
(* there is nothing new, or else the batch of what is.                     *)
Snapshot(s) ==
    LET log == logs[stream[s].log]
        seenSoFar == stream[s].cursor
        idle == seenSoFar >= Len(log.events) /\ ~log.done /\ ~stream[s].gone
    IN
    /\ stream[s].pc = "loop"
    /\ stream' = [stream EXCEPT ![s] =
          IF idle THEN [@ EXCEPT !.pc = "wait"]
          ELSE [@ EXCEPT !.batch = SubSeq(log.events, seenSoFar + 1, Len(log.events)),
                         !.cursor = Len(log.events),
                         !.terminal = log.done,
                         !.pc = IF stream[s].gone THEN "left" ELSE "flush"]]
    /\ UNCHANGED <<jobEvents, logs>>
    /\ StreamOnly

(* Mutant: the cursor moves to where the log ends after the writes. *)
Flush_MovesCursor(s) ==
    /\ stream[s].pc = "flush"
    /\ stream' = [stream EXCEPT ![s] =
          [@ EXCEPT !.seen = stream[s].seen \o stream[s].batch, !.batch = <<>>,
                    !.cursor = Len(logs[stream[s].log].events),
                    !.pc = IF stream[s].terminal THEN "clear" ELSE "loop"]]
    /\ UNCHANGED <<jobEvents, logs>>
    /\ StreamOnly

(* Mutant: done is read after the writes and not with the batch. *)
Flush_ReadsDoneLater(s) ==
    /\ stream[s].pc = "flush"
    /\ stream' = [stream EXCEPT ![s] =
          [@ EXCEPT !.seen = stream[s].seen \o stream[s].batch, !.batch = <<>>,
                    !.pc = IF logs[stream[s].log].done THEN "clear" ELSE "loop"]]
    /\ UNCHANGED <<jobEvents, logs>>
    /\ StreamOnly

(* The writes of the batch, which can fail once the client is gone. *)
Flush(s) ==
    /\ stream[s].pc = "flush"
    /\ \/ stream' = [stream EXCEPT ![s] =
             [@ EXCEPT !.seen = stream[s].seen \o stream[s].batch, !.batch = <<>>,
                       !.pc = IF stream[s].terminal THEN "clear" ELSE "loop"]]
       \/ stream[s].gone /\ stream' = [stream EXCEPT ![s].pc = "left"]
    /\ UNCHANGED <<jobEvents, logs>>
    /\ StreamOnly

(* Mutant: a stream clears the log however it ends. *)
Clear_HoweverItEnds(s) ==
    /\ stream[s].pc \in {"clear", "left"}
    /\ jobEvents' = [jobEvents EXCEPT ![stream[s].job] = NoLog]
    /\ stream' = [stream EXCEPT ![s].pc = "ended"]
    /\ UNCHANGED logs
    /\ StreamOnly

(* clearEventLog(jobID), which drops whatever log the map holds by now. *)
Clear(s) ==
    /\ stream[s].pc = "clear"
    /\ jobEvents' = [jobEvents EXCEPT ![stream[s].job] = NoLog]
    /\ stream' = [stream EXCEPT ![s].pc = "ended"]
    /\ UNCHANGED logs
    /\ StreamOnly

(* The client disconnects, or a write fails for good: the request's        *)
(* context is cancelled.  Nothing looks at it once the loop is over.       *)
Leave(s) ==
    /\ stream[s].pc \in {"loop", "wait", "flush"}
    /\ ~stream[s].gone
    /\ stream' = [stream EXCEPT ![s].gone = TRUE]
    /\ UNCHANGED <<jobEvents, logs>>
    /\ StreamOnly

(* The stream's watcher goroutine wakes every stream of the log; doneCh    *)
(* ends it when the stream returns.                                        *)
Watcher(s) ==
    /\ stream[s].gone /\ ~stream[s].watched
    /\ stream[s].pc \in {"loop", "wait", "flush"}
    /\ stream' = [t \in Streams |->
          [stream[t] EXCEPT
             !.watched = @ \/ t = s,
             !.pc = IF @ = "wait" /\ stream[t].log = stream[s].log THEN "loop" ELSE @]]
    /\ UNCHANGED <<jobEvents, logs>>
    /\ StreamOnly

-----------------------------------------------------------------------------
Job(j) ==
    \/ Request(j) \/ Announce(j) \/ AppendOwn(j) \/ Submit(j) \/ NextFile(j)
    \/ IndexPathReturns(j) \/ FinalizeReturns(j) \/ StopRelay(j) \/ JoinRelay(j)
Relay(j) == RelayReceive(j) \/ RelayLookup(j) \/ RelayAppend(j) \/ RelayExit(j)
Stream(s) == Snapshot(s) \/ Flush(s) \/ Clear(s)

Next ==
    \/ \E j \in Jobs : Job(j) \/ Emit(j) \/ JobPanics(j) \/ Relay(j)
    \/ \E s \in Streams : Stream(s) \/ Leave(s) \/ Watcher(s)
    \/ \E s \in Streams, j \in Jobs : Connect(s, j)

Spec == Init /\ [][Next]_vars

(* Goroutines are scheduled, and IndexPath and Finalize return: each of    *)
(* their calls outside has a timeout.  Clients need never come or leave.   *)
Fairness ==
    /\ \A j \in Jobs : WF_vars(Job(j)) /\ WF_vars(Relay(j))
    /\ \A s \in Streams : WF_vars(Stream(s)) /\ WF_vars(Watcher(s))

LiveSpec == Spec /\ Fairness

-----------------------------------------------------------------------------
(* Properties. *)

IsTerminal(evt) == evt.from = "job" /\ evt.phase \in Terminal

(* The positions of the producer's own events in a log. *)
Own(id) == {k \in 1 .. Len(logs[id].events) : logs[id].events[k].from = "job"}

(* The log the job's producer writes: the one that has its first event. *)
IsMain(id) ==
    id # NoLog /\ logs[id].events # <<>> /\ logs[id].events[1] = OwnEvent("queued", 1)

(* However logs are dropped and allocated again while the job runs, all    *)
(* the events of its producer are in one log, with the terminal one last   *)
(* among them, and that log alone is done.                                 *)
OwnEventsInOneLog ==
    \A id \in 1 .. Len(logs) :
        /\ Own(id) # {} => IsMain(id)
        /\ \A other \in 1 .. Len(logs) :
              other # id /\ logs[other].job = logs[id].job => ~(IsMain(id) /\ IsMain(other))
        /\ logs[id].done <=> \E k \in Own(id) : IsTerminal(logs[id].events[k])
        /\ \A k, l \in Own(id) : IsTerminal(logs[id].events[k]) => l =< k

(* A stream that ran to its end has been sent the whole history of the     *)
(* job's own events once and in order, the terminal one included, whatever *)
(* the other streams of the job did to the map.                            *)
EndedStreamSawTheJob ==
    \A s \in Streams : stream[s].pc \in {"clear", "ended"} =>
        LET id == stream[s].log
            sent == Len(stream[s].seen)
        IN
        /\ stream[s].seen = SubSeq(logs[id].events, 1, sent)
        /\ \A k \in Own(id) : k =< sent
        /\ IsMain(id) /\ logs[id].done

(* What a stream was sent and is about to send is what the log holds up to *)
(* its cursor: nothing is skipped or sent twice.                           *)
NothingSkipped ==
    \A s \in Streams : stream[s].pc # "new" =>
        stream[s].seen \o stream[s].batch
            = SubSeq(logs[stream[s].log].events, 1, stream[s].cursor)

(* Once a job has returned, nothing is written to any of its logs: its     *)
(* relay does not outlive it.                                              *)
NoWriteAfterReturn ==
    [][\A id \in 1 .. Len(logs) :
          stage[logs[id].job] = "returned" => logs'[id].events = logs[id].events]_vars

(* The job always gets past relayDone.Wait(). *)
JobReturns == \A j \in Jobs : stage[j] = "file" ~> stage[j] \in {"returned", "panicked"}

(* A stream on the log the job writes ends, unless the job panicked. *)
AttachedStreamEnds ==
    \A s \in Streams, j \in Jobs :
        (stream[s].job = j /\ IsMain(stream[s].log))
            ~> (stream[s].pc \in {"ended", "left"} \/ stage[j] = "panicked")

(* A stream whose client is gone ends, whatever becomes of the job. *)
CancelledStreamEnds ==
    \A s \in Streams : stream[s].gone ~> stream[s].pc \in {"ended", "left"}

(* The job and every stream come to their ends. *)
EveryoneReturns == JobReturns /\ AttachedStreamEnds /\ CancelledStreamEnds

-----------------------------------------------------------------------------
(* The logs as feeds: who writes them, how they are found, the waiting and *)
(* the cursors are left out.                                               *)

OwnEvents == {OwnEvent(p, f) : p \in Announcing, f \in 1 .. NumFiles + 1}
FinalEvents == {OwnEvent(p, f) : p \in Terminal, f \in 1 .. NumFiles + 1}

SubState(pc) ==
    CASE pc = "new" -> "new"
      [] pc \in {"loop", "wait", "flush"} -> "on"
      [] pc \in {"clear", "ended"} -> "ended"
      [] pc = "left" -> "left"

Feed == INSTANCE ProgressFeed WITH
    AllEvents <- OwnEvents \cup {PipeEvent(n) : n \in 1 .. MaxEmits},
    Subscribers <- Streams,
    feeds <- logs,
    state <- [s \in Streams |-> SubState(stream[s].pc)],
    on <- [s \in Streams |-> stream[s].log],
    got <- [s \in Streams |-> stream[s].seen]

(* Every behaviour of the uploads and their streams is one of the feeds:   *)
(* whatever the map does, a stream stays with one log, is sent an unbroken *)
(* beginning of it, and ends with all that the job ever says.              *)
RefinesFeed == Feed!FeedSpec
=============================================================================
