-------------------------- MODULE UploadProgressProofs --------------------------
(***************************************************************************)
(* Proofs about UploadProgress, for any jobs, streams, files and bounds.   *)
(***************************************************************************)
EXTENDS UploadProgress, SequenceTheorems, TLAPS

Ids == 1 .. Len(logs)
Past == {"stop", "join", "returned"}
Before == {"new", "queued", "submit", "rejected"}

(* The upload has not looked its log up yet.                               *)
Unheard(j) == stage[j] = "new" \/ (stage[j] = "queued" /\ held[j] = NoLog)

(* Until the terminal event the map holds the only log of the job, so that *)
(* every writer that looks it up finds the one with the first event.       *)
MapInv(j) ==
    /\ Unheard(j) => jobEvents[j] = NoLog /\ \A id \in Ids : logs[id].job # j
    /\ ~Unheard(j) /\ stage[j] \notin Past =>
          /\ jobEvents[j] # NoLog
          /\ \A id \in Ids : logs[id].job = j => id = jobEvents[j]
          /\ stage[j] = "queued" => logs[jobEvents[j]].events = << >>
          /\ stage[j] # "queued" => IsMain(jobEvents[j])
    /\ jobEvents[j] # NoLog => logs[jobEvents[j]].job = j

(* What the producer and the relay of a job hold.                          *)
HandsInv(j) ==
    /\ held[j] # NoLog => stage[j] \in Announcing /\ held[j] = jobEvents[j]
    /\ stage[j] \in Before => relay[j] = "off"
    /\ stage[j] \in {"new", "queued"} => file[j] = 1
    /\ stage[j] \in {"indexing", "pipeline"} => file[j] =< NumFiles
    /\ relay[j] = "append" <=> relayLog[j] # NoLog
    /\ relayLog[j] # NoLog => logs[relayLog[j]].job = j
    /\ stage[j] = "returned" => relay[j] \in {"off", "exited"}

LogInv(id) ==
    /\ Own(id) # {} => IsMain(id)
    /\ logs[id].done <=> \E k \in Own(id) : IsTerminal(logs[id].events[k])
    /\ logs[id].done => stage[logs[id].job] \in Past
    /\ \A k, l \in Own(id) : IsTerminal(logs[id].events[k]) => l =< k

StreamInv(s) ==
    LET id == stream[s].log
        events == logs[id].events
    IN
    stream[s].pc # "new" =>
      /\ id # NoLog /\ stream[s].job \in Jobs /\ logs[id].job = stream[s].job
      /\ stream[s].cursor =< Len(events)
      /\ stream[s].seen \o stream[s].batch = SubSeq(events, 1, stream[s].cursor)
      /\ stream[s].pc \in {"loop", "wait", "clear", "ended"} => stream[s].batch = << >>
      /\ stream[s].pc \in {"clear", "ended"} => stream[s].terminal
      /\ stream[s].terminal =>
            logs[id].done /\ \A k \in Own(id) : k =< stream[s].cursor

OneMain ==
    \A id, other \in Ids :
        logs[id].job = logs[other].job /\ IsMain(id) /\ IsMain(other) => id = other

AllMaps == \A j \in Jobs : MapInv(j)
AllHands == \A j \in Jobs : HandsInv(j)
AllLogs == \A id \in Ids : LogInv(id)
AllStreams == \A s \in Streams : StreamInv(s)

IInv == TypeOK /\ AllMaps /\ AllHands /\ AllLogs /\ OneMain /\ AllStreams

-----------------------------------------------------------------------------
(* What each operation on the logs does. *)

(* The logs there were are as they were, and the job has one.              *)
Got(j) ==
    /\ logs' \in Seq(Log)
    /\ \A id \in Ids : logs'[id] = logs[id]
    /\ jobEvents' = [jobEvents EXCEPT ![j] = TheLog(j)]
    /\ TheLog(j) \in 1 .. Len(logs')
    /\ jobEvents[j] # NoLog => logs' = logs
    /\ jobEvents[j] = NoLog =>
          /\ TheLog(j) = Len(logs) + 1 /\ Len(logs') = Len(logs) + 1
          /\ logs'[Len(logs) + 1].job = j
          /\ logs'[Len(logs) + 1].events = << >>
          /\ ~logs'[Len(logs) + 1].done

(* getOrCreateEventLog changes no log that exists.                         *)
LEMMA GetLog ==
    ASSUME TypeOK, NEW j \in Jobs, GetOrCreate(j)
    PROVE  Got(j)
<1>1. Len(logs) \in Nat /\ jobEvents[j] \in 0 .. Len(logs) /\ logs \in Seq(Log)
  BY DEF TypeOK, LogIds
<1>2. CASE jobEvents[j] = NoLog
  <2> DEFINE x == [job |-> j, events |-> << >>, done |-> FALSE]
  <2>1. x \in Log
    BY DEF Log
  <2>2. logs' = Append(logs, x)
    BY <1>2 DEF GetOrCreate
  <2>3. /\ logs' \in Seq(Log) /\ Len(logs') = Len(logs) + 1
        /\ \A id \in Ids : logs'[id] = logs[id]
        /\ logs'[Len(logs) + 1] = x
    BY <1>1, <2>1, <2>2 DEF Ids
  <2>4. x.job = j /\ x.events = << >> /\ ~x.done
    OBVIOUS
  <2> HIDE DEF x
  <2>5. TheLog(j) = Len(logs) + 1 /\ jobEvents' = [jobEvents EXCEPT ![j] = TheLog(j)]
    BY <1>2 DEF GetOrCreate, TheLog
  <2> QED
    BY <1>1, <1>2, <2>3, <2>4, <2>5 DEF Got
<1>3. CASE jobEvents[j] # NoLog
  BY <1>1, <1>3 DEF GetOrCreate, TheLog, Got, NoLog
<1> QED
  BY <1>2, <1>3

(* One log gets one more event.                                            *)
Logged(log, evt, d) ==
    /\ logs' \in Seq(Log) /\ Len(logs') = Len(logs)
    /\ \A id \in Ids : logs'[id].job = logs[id].job
    /\ \A id \in Ids : id # log => logs'[id] = logs[id]
    /\ Len(logs'[log].events) = Len(logs[log].events) + 1
    /\ \A k \in 1 .. Len(logs[log].events) : logs'[log].events[k] = logs[log].events[k]
    /\ logs'[log].events[Len(logs[log].events) + 1] = evt
    /\ logs'[log].done <=> logs[log].done \/ d

(* The streams, but for who waits, are as they were.                       *)
Woken ==
    /\ stream' \in [Streams -> StreamState]
    /\ \A s \in Streams :
          /\ stream'[s].job = stream[s].job /\ stream'[s].log = stream[s].log
          /\ stream'[s].cursor = stream[s].cursor /\ stream'[s].batch = stream[s].batch
          /\ stream'[s].terminal = stream[s].terminal /\ stream'[s].seen = stream[s].seen
          /\ stream'[s].pc = stream[s].pc
                \/ (stream[s].pc = "wait" /\ stream'[s].pc = "loop")

(* A change of pc is a change of nothing else.                             *)
LEMMA PcOnly ==
    ASSUME NEW r \in StreamState, NEW x
    PROVE  /\ [r EXCEPT !.pc = x].job = r.job /\ [r EXCEPT !.pc = x].log = r.log
           /\ [r EXCEPT !.pc = x].cursor = r.cursor /\ [r EXCEPT !.pc = x].batch = r.batch
           /\ [r EXCEPT !.pc = x].terminal = r.terminal
           /\ [r EXCEPT !.pc = x].seen = r.seen /\ [r EXCEPT !.pc = x].pc = x
BY DEF StreamState

(* appendEvent and finishEvent append to their log and wake its streams.   *)
LEMMA LogOne ==
    ASSUME TypeOK, NEW log \in Ids, NEW evt \in Events, NEW d \in BOOLEAN,
           LogEvent(log, evt, d)
    PROVE  Logged(log, evt, d) /\ Woken
<1>1. logs \in Seq(Log) /\ log \in 1 .. Len(logs) /\ logs[log] \in Log
  BY DEF TypeOK, Ids
<1>2. stream \in [Streams -> StreamState]
  BY DEF TypeOK
<1> DEFINE x == [logs[log] EXCEPT !.events = Append(@, evt), !.done = @ \/ d]
<1>3. x \in Log /\ x.job = logs[log].job
  <2>1. Append(logs[log].events, evt) \in Seq(Events)
    BY <1>1 DEF Log
  <2>2. (logs[log].done \/ d) \in BOOLEAN
    BY <1>1 DEF Log
  <2> QED
    BY <1>1, <2>1, <2>2 DEF Log
<1>4. /\ Len(x.events) = Len(logs[log].events) + 1
      /\ \A k \in 1 .. Len(logs[log].events) : x.events[k] = logs[log].events[k]
      /\ x.events[Len(logs[log].events) + 1] = evt
  <2>1. logs[log].events \in Seq(Events) /\ x.events = Append(logs[log].events, evt)
    BY <1>1 DEF Log
  <2> QED
    BY <2>1
<1>5. x.done <=> logs[log].done \/ d
  BY <1>1 DEF Log
<1>6. logs' = [logs EXCEPT ![log] = x]
  BY <1>1 DEF LogEvent, AppendTo, Log
<1>7. /\ logs' \in Seq(Log) /\ Len(logs') = Len(logs)
      /\ \A id \in Ids : logs'[id] = IF id = log THEN x ELSE logs[id]
  BY <1>1, <1>3, <1>6, ExceptSeq DEF Ids
<1>8. Logged(log, evt, d)
  BY <1>1, <1>3, <1>4, <1>5, <1>7 DEF Logged
<1>9. Woken
  <2>1. stream' = [s \in Streams |-> IF stream[s].log = log /\ stream[s].pc = "wait"
                                     THEN [stream[s] EXCEPT !.pc = "loop"] ELSE stream[s]]
    BY DEF LogEvent, Broadcast
  <2>2. ASSUME NEW s \in Streams
        PROVE  /\ [stream[s] EXCEPT !.pc = "loop"] \in StreamState
               /\ stream[s] \in StreamState
    BY <1>2 DEF StreamState
  <2>3. stream' \in [Streams -> StreamState]
    BY <2>1, <2>2
  <2>4. ASSUME NEW s \in Streams, stream[s].log = log, stream[s].pc = "wait"
        PROVE  stream'[s] = [stream[s] EXCEPT !.pc = "loop"]
    BY <2>1, <2>4
  <2>5. ASSUME NEW s \in Streams, ~(stream[s].log = log /\ stream[s].pc = "wait")
        PROVE  stream'[s] = stream[s]
    BY <2>1, <2>5
  <2>6. ASSUME NEW s \in Streams
        PROVE  /\ stream'[s].job = stream[s].job /\ stream'[s].log = stream[s].log
               /\ stream'[s].cursor = stream[s].cursor
               /\ stream'[s].batch = stream[s].batch
               /\ stream'[s].terminal = stream[s].terminal
               /\ stream'[s].seen = stream[s].seen
               /\ stream'[s].pc = stream[s].pc
                     \/ (stream[s].pc = "wait" /\ stream'[s].pc = "loop")
    <3>1. CASE stream[s].log = log /\ stream[s].pc = "wait"
      <4>1. PICK r \in StreamState : r = stream[s]
        BY <2>2
      <4>2. stream'[s] = [r EXCEPT !.pc = "loop"]
        BY <2>4, <3>1, <4>1
      <4> QED
        BY <3>1, <4>1, <4>2, PcOnly
    <3>2. CASE ~(stream[s].log = log /\ stream[s].pc = "wait")
      BY <2>5, <3>2
    <3> QED
      BY <3>1, <3>2
  <2> QED
    BY <2>3, <2>6 DEF Woken
<1> QED
  BY <1>8, <1>9

(* Steps of a job or its relay that leave every log, and who knows it, as  *)
(* they are.                                                               *)
Calm(j) ==
    /\ UNCHANGED << held, jobEvents, logs, stream >>
    /\ \A k \in Jobs : k # j => stage'[k] = stage[k]
    /\ \/ stage'[j] = stage[j]
       \/ stage[j] = "new" /\ stage'[j] = "queued"
       \/ stage[j] \in Past /\ stage'[j] \in Past
       \/ /\ stage[j] \notin Past \cup {"new", "queued"}
          /\ stage'[j] \notin Past \cup {"new", "queued"}

CalmStep(j) ==
    \/ Request(j) \/ Submit(j) \/ NextFile(j) \/ IndexPathReturns(j) \/ FinalizeReturns(j)
    \/ StopRelay(j) \/ JoinRelay(j) \/ Emit(j) \/ JobPanics(j)
    \/ RelayReceive(j) \/ RelayExit(j)

(* Only the announcements and the relay's appends reach the logs.          *)
LEMMA CalmSteps ==
    ASSUME TypeOK, NEW j \in Jobs, CalmStep(j)
    PROVE  Calm(j)
<1>1. stage \in [Jobs -> Stages]
  BY DEF TypeOK
<1>3. CASE Request(j)
  BY <1>1, <1>3 DEF Request, Goto, Calm, producerVars, relayVars
<1>4. CASE Submit(j)
  BY <1>1, <1>4 DEF Submit, Goto, Calm, Past, producerVars, relayVars
<1>5. CASE NextFile(j)
  BY <1>1, <1>5 DEF NextFile, Goto, Calm, Past, producerVars, relayVars
<1>6. CASE IndexPathReturns(j)
  BY <1>1, <1>6 DEF IndexPathReturns, Goto, Calm, Past, producerVars, relayVars
<1>7. CASE FinalizeReturns(j)
  BY <1>1, <1>7 DEF FinalizeReturns, Goto, Calm, Past, producerVars, relayVars
<1>8. CASE StopRelay(j)
  BY <1>1, <1>8 DEF StopRelay, Goto, Calm, Past, producerVars, relayVars
<1>9. CASE JoinRelay(j)
  BY <1>1, <1>9 DEF JoinRelay, Goto, Calm, Past, producerVars, relayVars
<1>10. CASE Emit(j)
  BY <1>10 DEF Emit, Calm, producerVars, relayVars
<1>11. CASE JobPanics(j)
  BY <1>1, <1>11 DEF JobPanics, Goto, Calm, Past, producerVars, relayVars
<1>12. CASE RelayReceive(j) \/ RelayExit(j)
  BY <1>12 DEF RelayReceive, RelayExit, Calm, producerVars, relayVars
<1> QED
  BY <1>3, <1>4, <1>5, <1>6, <1>7, <1>8, <1>9, <1>10, <1>11, <1>12 DEF CalmStep

(* So they keep what is said of logs, maps and streams.                    *)
LEMMA CalmKeeps ==
    ASSUME TypeOK, AllMaps, AllHands, AllLogs, OneMain, AllStreams, NEW j \in Jobs, Calm(j)
    PROVE  AllMaps' /\ AllLogs' /\ OneMain' /\ AllStreams'
<1>1. logs \in Seq(Log)
  BY DEF TypeOK
<1>2. \A id \in Ids : logs[id].job \in Jobs
  <2>1. \A id \in Ids : logs[id] \in Log
    BY <1>1 DEF Ids
  <2> QED
    BY <2>1 DEF Log
<1>3. UNCHANGED << held, jobEvents, logs, stream >>
  BY DEF Calm
<1>4. AllMaps'
  <2>1. ASSUME NEW k \in Jobs PROVE MapInv(k)'
    <3>1. MapInv(k) /\ (held[k] # NoLog => stage[k] \in Announcing)
      BY DEF AllMaps, AllHands, HandsInv
    <3>2. Unheard(k)' <=> Unheard(k)
      BY <1>3, <3>1 DEF Calm, Unheard, Announcing, Terminal, Past
    <3>3. /\ stage'[k] \in Past <=> stage[k] \in Past
          /\ ~Unheard(k) => (stage'[k] = "queued" <=> stage[k] = "queued")
      BY <1>3, <3>1 DEF Calm, Unheard, Past
    <3>4. IsMain(jobEvents[k])' <=> IsMain(jobEvents[k])
      BY <1>3 DEF IsMain
    <3> QED
      BY <1>3, <3>1, <3>2, <3>3, <3>4 DEF MapInv, Ids
  <2> QED
    BY <2>1 DEF AllMaps
<1>5. AllLogs'
  <2>1. ASSUME NEW id \in Ids PROVE LogInv(id)'
    <3>1. LogInv(id) /\ (stage[logs[id].job] \in Past => stage'[logs[id].job] \in Past)
      BY <1>2 DEF AllLogs, Calm, Past
    <3> QED
      BY <1>3, <3>1 DEF LogInv, Own, IsMain
  <2> QED
    BY <1>3, <2>1 DEF AllLogs, Ids
<1>6. OneMain'
  BY <1>3 DEF OneMain, Ids, IsMain
<1>7. AllStreams'
  BY <1>3 DEF AllStreams, StreamInv, Own
<1> QED
  BY <1>4, <1>5, <1>6, <1>7

-----------------------------------------------------------------------------
(* A lookup creates a log or not; what was said of the others stays true.  *)

(* A new log is empty, so it is neither done nor the producer's.           *)
LEMMA GotLogs ==
    ASSUME TypeOK, AllLogs, OneMain, NEW j \in Jobs, Got(j), UNCHANGED stage
    PROVE  AllLogs' /\ OneMain'
<1>1. Len(logs) \in Nat /\ Len(logs') \in Nat /\ jobEvents[j] \in 0 .. Len(logs)
  BY DEF TypeOK, Got, LogIds
<1>2. \A id \in Ids : /\ id \in Ids' /\ logs'[id] = logs[id]
                      /\ IsMain(id)' <=> IsMain(id)
                      /\ Own(id)' = Own(id)
  <2>1. \A id \in Ids : id \in Ids' /\ logs'[id] = logs[id]
    BY <1>1 DEF Got, Ids
  <2> QED
    BY <2>1 DEF IsMain, Own
<1>3. ASSUME NEW id \in Ids', id \notin Ids
      PROVE  ~IsMain(id)' /\ Own(id)' = {} /\ ~logs'[id].done
  <2>1. id = Len(logs) + 1 /\ logs'[id].events = << >> /\ ~logs'[id].done
    BY <1>1, <1>3 DEF Got, Ids
  <2> QED
    BY <2>1 DEF IsMain, Own
<1>4. ASSUME NEW id \in Ids' PROVE LogInv(id)'
  <2>1. CASE id \in Ids
    BY <1>2, <2>1 DEF AllLogs, LogInv
  <2>2. CASE id \notin Ids
    BY <1>3, <2>2 DEF LogInv
  <2> QED
    BY <2>1, <2>2
<1>5. OneMain'
  BY <1>2, <1>3 DEF OneMain
<1> QED
  BY <1>4, <1>5 DEF AllLogs

(* A lookup gives a job with a log no other, and one without the only one  *)
(* it has.                                                                 *)
LEMMA GotMaps ==
    ASSUME TypeOK, AllMaps, NEW j \in Jobs, Got(j), UNCHANGED stage,
           \A k \in Jobs : k # j => held'[k] = held[k],
           ~Unheard(j)', Unheard(j) => stage[j] = "queued"
    PROVE  AllMaps' /\ logs'[TheLog(j)].job = j
<1>1. /\ Len(logs) \in Nat /\ Len(logs') \in Nat /\ jobEvents \in [Jobs -> 0 .. Len(logs)]
      /\ MapInv(j)
  BY DEF TypeOK, Got, LogIds, AllMaps
<1>2. \A id \in Ids : id \in Ids' /\ logs'[id] = logs[id] /\ (IsMain(id)' <=> IsMain(id))
  <2>1. \A id \in Ids : id \in Ids' /\ logs'[id] = logs[id]
    BY <1>1 DEF Got, Ids
  <2> QED
    BY <2>1 DEF IsMain
<1>3. /\ jobEvents'[j] = TheLog(j) /\ \A k \in Jobs : k # j => jobEvents'[k] = jobEvents[k]
      /\ TheLog(j) # NoLog
  BY <1>1 DEF Got, NoLog
<1>4. CASE jobEvents[j] # NoLog
  <2>1. TheLog(j) = jobEvents[j] /\ logs' = logs /\ jobEvents' = jobEvents
    BY <1>1, <1>3, <1>4 DEF Got, TheLog
  <2>2. logs'[TheLog(j)].job = j
    BY <1>1, <1>4, <2>1 DEF MapInv
  <2>3. ~Unheard(j)
    BY <1>1, <1>4 DEF MapInv
  <2>4. ASSUME NEW k \in Jobs PROVE MapInv(k)'
    <3>1. MapInv(k) /\ (Unheard(k)' <=> Unheard(k))
      BY <2>3 DEF AllMaps, Unheard
    <3>2. IsMain(jobEvents[k])' <=> IsMain(jobEvents[k])
      BY <2>1 DEF IsMain
    <3> QED
      BY <2>1, <3>1, <3>2 DEF MapInv, Ids
  <2> QED
    BY <2>2, <2>4 DEF AllMaps
<1>5. CASE jobEvents[j] = NoLog
  <2>1. /\ TheLog(j) = Len(logs) + 1 /\ Ids' = Ids \cup {Len(logs) + 1}
        /\ logs'[Len(logs) + 1].job = j /\ logs'[Len(logs) + 1].events = << >>
    BY <1>1, <1>5 DEF Got, Ids
  <2>2. MapInv(j)'
    <3>1. Unheard(j) \/ stage[j] \in Past
      BY <1>1, <1>5 DEF MapInv
    <3>2. CASE stage[j] \in Past
      BY <1>3, <2>1, <3>2 DEF MapInv
    <3>3. CASE Unheard(j)
      <4>1. \A id \in Ids' : logs'[id].job = j => id = Len(logs) + 1
        BY <1>1, <1>2, <2>1, <3>3 DEF MapInv
      <4> QED
        BY <1>3, <2>1, <3>3, <4>1 DEF MapInv
    <3> QED
      BY <3>1, <3>2, <3>3
  <2>3. ASSUME NEW k \in Jobs, k # j PROVE MapInv(k)'
    <3>1. MapInv(k) /\ (Unheard(k)' <=> Unheard(k)) /\ jobEvents'[k] = jobEvents[k]
      BY <1>3, <2>3 DEF AllMaps, Unheard
    <3>2. jobEvents[k] # NoLog => jobEvents[k] \in Ids
      BY <1>1 DEF NoLog, Ids
    <3>3. \A id \in Ids' : logs'[id].job = k => id \in Ids /\ logs[id].job = k
      BY <1>2, <2>1, <2>3
    <3> QED
      BY <1>2, <3>1, <3>2, <3>3 DEF MapInv
  <2> QED
    BY <2>1, <2>2, <2>3 DEF AllMaps
<1> QED
  BY <1>4, <1>5

(* A stream reads a log that exists.                                       *)
LEMMA GotStream ==
    ASSUME TypeOK, NEW j \in Jobs, Got(j), NEW s \in Streams, StreamInv(s),
           stream'[s] = stream[s]
    PROVE  StreamInv(s)'
<1>1. stream[s].log # NoLog => stream[s].log \in Ids
  BY DEF TypeOK, LogIds, NoLog, Ids
<1>2. stream[s].log # NoLog => /\ logs'[stream[s].log] = logs[stream[s].log]
                               /\ Own(stream[s].log)' = Own(stream[s].log)
  BY <1>1 DEF Got, Own
<1> QED
  BY <1>2 DEF StreamInv

-----------------------------------------------------------------------------
(* One log grows by one event. *)

(* What a longer log begins with is what the shorter one was.              *)
LEMMA PrefixKept ==
    ASSUME NEW e \in Seq(Events), NEW f \in Seq(Events), NEW c \in Nat,
           c =< Len(e), c =< Len(f), \A k \in 1 .. c : f[k] = e[k]
    PROVE  SubSeq(f, 1, c) = SubSeq(e, 1, c)
<1>1. /\ SubSeq(f, 1, c) \in Seq(Events) /\ Len(SubSeq(f, 1, c)) = c
      /\ \A k \in 1 .. c : SubSeq(f, 1, c)[k] = f[k]
  OBVIOUS
<1>2. /\ SubSeq(e, 1, c) \in Seq(Events) /\ Len(SubSeq(e, 1, c)) = c
      /\ \A k \in 1 .. c : SubSeq(e, 1, c)[k] = e[k]
  OBVIOUS
<1> QED
  BY <1>1, <1>2, SeqEqual

(* A stream misses nothing of a log that grows, and a stream that saw the  *)
(* terminal event nothing of the producer's.                               *)
LEMMA LoggedStreams ==
    ASSUME TypeOK, TypeOK', AllStreams, NEW log \in Ids, NEW evt \in Events, NEW d \in BOOLEAN,
           Logged(log, evt, d), Woken, logs[log].done => evt.from # "job"
    PROVE  AllStreams'
<1> SUFFICES ASSUME NEW s \in Streams, stream'[s].pc # "new", NEW id, id = stream[s].log
             PROVE  StreamInv(s)'
  BY DEF AllStreams, StreamInv
<1>1. /\ StreamInv(s) /\ stream[s].pc # "new" /\ stream[s] \in StreamState
      /\ id \in Ids
  <2>1. stream[s].pc # "new"
    BY DEF Woken
  <2>2. /\ StreamInv(s) /\ stream[s].log \in 0 .. Len(logs) /\ stream[s] \in StreamState
        /\ Len(logs) \in Nat
    BY DEF AllStreams, TypeOK, LogIds
  <2>3. id # 0
    BY <2>1, <2>2 DEF StreamInv, NoLog
  <2> QED
    BY <2>1, <2>2, <2>3 DEF Ids
<1>2. /\ logs[id].events \in Seq(Events) /\ logs'[id].events \in Seq(Events)
      /\ stream[s].cursor \in Nat
  <2>1. logs[id] \in Log /\ logs'[id] \in Log
    BY <1>1 DEF TypeOK, Logged, Ids
  <2> QED
    BY <1>1, <2>1 DEF Log, StreamState
<1>b. /\ Len(logs[id].events) \in Nat /\ Len(logs'[id].events) \in Nat
  <2>1. \A e \in Seq(Events) : Len(e) \in Nat
    OBVIOUS
  <2> QED
    BY <1>2, <2>1
<1>3. /\ Len(logs[id].events) =< Len(logs'[id].events)
      /\ \A k \in 1 .. Len(logs[id].events) : logs'[id].events[k] = logs[id].events[k]
      /\ logs[id].done => logs'[id].done
      /\ logs'[id].job = logs[id].job
  <2>1. CASE id = log
    BY <1>2, <2>1 DEF Logged
  <2>2. CASE id # log
    BY <1>1, <1>2, <2>2 DEF Logged
  <2> QED
    BY <2>1, <2>2
<1>4. stream[s].cursor =< Len(logs[id].events)
  BY <1>1 DEF StreamInv
<1>5. SubSeq(logs'[id].events, 1, stream[s].cursor) = SubSeq(logs[id].events, 1, stream[s].cursor)
  <2>1. /\ \A k \in 1 .. stream[s].cursor : logs'[id].events[k] = logs[id].events[k]
        /\ stream[s].cursor =< Len(logs'[id].events)
    <3>1. 1 .. stream[s].cursor \subseteq 1 .. Len(logs[id].events)
      BY <1>2, <1>b, <1>4
    <3>2. stream[s].cursor =< Len(logs'[id].events)
      BY <1>2, <1>b, <1>3, <1>4
    <3>3. \A k \in 1 .. stream[s].cursor : k \in 1 .. Len(logs[id].events)
      BY <3>1
    <3> QED
      BY <1>3, <3>2, <3>3
  <2> QED
    BY <1>2, <1>4, <2>1, PrefixKept
<1>6. stream[s].terminal => \A k \in Own(id)' : k =< stream[s].cursor
  <2> SUFFICES ASSUME stream[s].terminal, NEW k \in Own(id)' PROVE k =< stream[s].cursor
    OBVIOUS
  <2>1. logs[id].done /\ \A l \in Own(id) : l =< stream[s].cursor
    BY <1>1 DEF StreamInv
  <2>2. k \in 1 .. Len(logs'[id].events) /\ logs'[id].events[k].from = "job"
    BY DEF Own
  <2>3. k \in 1 .. Len(logs[id].events)
    <3>1. CASE id = log
      BY <1>2, <2>1, <2>2, <3>1 DEF Logged
    <3>2. CASE id # log
      BY <1>1, <2>2, <3>2 DEF Logged
    <3> QED
      BY <3>1, <3>2
  <2>4. k \in Own(id)
    BY <1>3, <2>2, <2>3 DEF Own
  <2> QED
    BY <2>1, <2>4
<1>7. /\ stream'[s].job = stream[s].job /\ stream'[s].log = id
      /\ stream'[s].cursor = stream[s].cursor /\ stream'[s].batch = stream[s].batch
      /\ stream'[s].terminal = stream[s].terminal /\ stream'[s].seen = stream[s].seen
      /\ stream'[s].pc = stream[s].pc \/ (stream[s].pc = "wait" /\ stream'[s].pc = "loop")
  BY DEF Woken
<1>8. stream'[s].cursor =< Len(logs'[id].events)
  BY <1>2, <1>b, <1>3, <1>4, <1>7
<1> QED
  BY <1>1, <1>3, <1>5, <1>6, <1>7, <1>8 DEF StreamInv

(* The relay's events make no log the producer's.                          *)
LEMMA RelayLogs ==
    ASSUME TypeOK, AllLogs, OneMain, NEW log \in Ids, NEW n \in Nat,
           Logged(log, PipeEvent(n), FALSE), UNCHANGED stage
    PROVE  AllLogs' /\ OneMain' /\ \A id \in Ids : IsMain(id)' <=> IsMain(id)
<1>1. Ids' = Ids /\ \A id \in Ids : logs'[id].job = logs[id].job
  BY DEF Logged, Ids
<1>2. logs[log].events \in Seq(Events) /\ logs'[log].events \in Seq(Events)
  <2>1. logs[log] \in Log /\ logs'[log] \in Log
    BY <1>1 DEF TypeOK, Logged, Ids
  <2> QED
    BY <2>1 DEF Log
<1>3. PipeEvent(n).from # "job" /\ PipeEvent(n) # OwnEvent("queued", 1)
  BY DEF PipeEvent, OwnEvent
<1>4. \A id \in Ids : /\ Own(id)' = Own(id)
                      /\ logs'[id].done <=> logs[id].done
                      /\ \A k \in Own(id) : logs'[id].events[k] = logs[id].events[k]
  <2>1. ASSUME NEW id \in Ids, id # log
        PROVE  Own(id)' = Own(id) /\ logs'[id] = logs[id]
    BY <2>1 DEF Logged, Own
  <2>2. /\ logs'[log].done <=> logs[log].done
        /\ \A k \in Own(log) : logs'[log].events[k] = logs[log].events[k]
    BY DEF Logged, Own
  <2>3. Own(log)' = Own(log)
    <3>1. /\ 1 .. Len(logs'[log].events)
               = (1 .. Len(logs[log].events)) \cup {Len(logs[log].events) + 1}
          /\ logs'[log].events[Len(logs[log].events) + 1].from # "job"
      BY <1>2, <1>3 DEF Logged
    <3> QED
      BY <3>1 DEF Logged, Own
  <2> QED
    BY <2>1, <2>2, <2>3
<1>5. \A id \in Ids : IsMain(id)' <=> IsMain(id)
  <2>1. ASSUME NEW id \in Ids, id # log PROVE IsMain(id)' <=> IsMain(id)
    BY <2>1 DEF Logged, IsMain
  <2>2. IsMain(log)' <=> IsMain(log)
    <3>1. CASE logs[log].events = << >>
      BY <1>2, <1>3, <3>1 DEF Logged, IsMain
    <3>2. CASE logs[log].events # << >>
      <4>1. 1 \in 1 .. Len(logs[log].events) /\ logs'[log].events # << >>
        BY <1>2, <3>2 DEF Logged
      <4> QED
        BY <3>2, <4>1 DEF Logged, IsMain
    <3> QED
      BY <3>1, <3>2
  <2> QED
    BY <2>1, <2>2
<1>6. ASSUME NEW id \in Ids PROVE LogInv(id)'
  BY <1>1, <1>4, <1>5 DEF AllLogs, LogInv
<1>7. OneMain'
  BY <1>1, <1>5 DEF OneMain
<1> QED
  BY <1>1, <1>5, <1>6, <1>7 DEF AllLogs

(* Where an announcement leads.                                            *)
LEMMA AfterAnnouncing ==
    ASSUME NEW x \in Announcing
    PROVE  /\ After(x) \in Stages \ {"new", "queued"}
           /\ After(x) \in Past <=> x \in Terminal
BY DEF After, Announcing, Terminal, Stages, Past

(* An announcement goes to the one log of its job, and if it is the        *)
(* terminal one it is the last of the producer's there.                    *)
LEMMA OwnLogs ==
    ASSUME TypeOK, AllMaps, AllHands, AllLogs, OneMain, NEW j \in Jobs, NEW log \in Ids,
           held[j] = log, Logged(log, OwnEvent(stage[j], file[j]), stage[j] \in Terminal),
           stage' = [stage EXCEPT ![j] = After(stage[j])],
           held' = [held EXCEPT ![j] = NoLog], UNCHANGED jobEvents
    PROVE  AllMaps' /\ AllLogs' /\ OneMain'
<1> DEFINE p == stage[j]
           n == Len(logs[log].events) + 1
<1>1. /\ p \in Announcing /\ log = jobEvents[j] /\ MapInv(j) /\ log # NoLog
      /\ stage \in [Jobs -> Stages] /\ held \in [Jobs -> 0 .. Len(logs)]
      /\ p = "queued" => file[j] = 1
  BY DEF AllHands, HandsInv, AllMaps, TypeOK, LogIds, Ids, NoLog
<1>2. Ids' = Ids /\ \A id \in Ids : logs'[id].job = logs[id].job
  BY DEF Logged, Ids
<1>3. /\ logs[log].events \in Seq(Events) /\ logs'[log].events \in Seq(Events)
      /\ logs[log].job = j
  <2>1. logs[log] \in Log /\ logs'[log] \in Log
    BY <1>1, <1>2 DEF TypeOK, Logged, Ids
  <2> QED
    BY <1>1, <2>1 DEF Log, MapInv
<1>4. ~Unheard(j) /\ p \notin Past
  BY <1>1 DEF Unheard, Announcing, Terminal, Past
<1>5. /\ \A id \in Ids : logs[id].job = j => id = log
      /\ p = "queued" => logs[log].events = << >>
      /\ p # "queued" => IsMain(log)
      /\ ~logs[log].done
  <2>1. LogInv(log)
    BY <1>1 DEF AllLogs
  <2> QED
    BY <1>1, <1>3, <1>4, <2>1 DEF MapInv, LogInv
<1>6. /\ stage'[j] \in Stages \ {"new", "queued"}
      /\ stage'[j] \in Past <=> p \in Terminal
      /\ \A k \in Jobs : k # j => stage'[k] = stage[k]
  BY <1>1, AfterAnnouncing
<1>7. IsMain(log)'
  <2>1. CASE p = "queued"
    <3>1. n = 1 /\ logs'[log].events[1] = OwnEvent("queued", 1) /\ logs'[log].events # << >>
      BY <1>1, <1>3, <1>5, <2>1 DEF Logged
    <3> QED
      BY <3>1 DEF IsMain, NoLog, Ids
  <2>2. CASE p # "queued"
    <3>1. 1 \in 1 .. Len(logs[log].events) /\ logs'[log].events # << >>
      BY <1>3, <1>5, <2>2 DEF IsMain, Logged
    <3> QED
      BY <1>1, <1>5, <2>2, <3>1 DEF IsMain, Logged
  <2> QED
    BY <2>1, <2>2
<1>8. ASSUME NEW id \in Ids, id # log
      PROVE  /\ logs'[id] = logs[id] /\ logs[id].job # j
             /\ Own(id)' = Own(id) /\ (IsMain(id)' <=> IsMain(id))
  BY <1>5, <1>8 DEF Logged, Own, IsMain
<1>9. /\ 1 .. Len(logs'[log].events) = (1 .. Len(logs[log].events)) \cup {n}
      /\ n \notin 1 .. Len(logs[log].events)
  <2>1. Len(logs[log].events) \in Nat /\ Len(logs'[log].events) = Len(logs[log].events) + 1
    BY <1>3 DEF Logged
  <2> QED
    BY <2>1
<1>10. \A k \in 1 .. Len(logs'[log].events) :
         IsTerminal(logs'[log].events[k]) <=> k = n /\ p \in Terminal
  <2>1. \A k \in 1 .. Len(logs[log].events) : ~IsTerminal(logs[log].events[k])
    BY <1>1, <1>5 DEF AllLogs, LogInv, Own, IsTerminal
  <2>2. IsTerminal(logs'[log].events[n]) <=> p \in Terminal
    BY DEF Logged, IsTerminal, OwnEvent
  <2>3. \A k \in 1 .. Len(logs[log].events) : logs'[log].events[k] = logs[log].events[k]
    BY DEF Logged
  <2> QED
    BY <1>9, <2>1, <2>2, <2>3
<1>11. ASSUME NEW id \in Ids PROVE LogInv(id)'
  <2>1. CASE id # log
    <3>1. logs[id].job \in Jobs
      <4>1. logs[id] \in Log
        BY DEF TypeOK, Ids
      <4> QED
        BY <4>1 DEF Log
    <3> QED
      BY <1>6, <1>8, <2>1, <3>1 DEF AllLogs, LogInv
  <2>2. CASE id = log
    <3>1. \A k \in 1 .. Len(logs'[log].events) : k =< n
      BY <1>3, <1>9
    <3>2. logs'[log].done <=> p \in Terminal
      BY <1>5 DEF Logged
    <3>3. /\ n \in 1 .. Len(logs'[log].events) /\ logs'[log].events[n].from = "job"
          /\ logs'[log].job = j
      BY <1>1, <1>2, <1>3, <1>9 DEF Logged, OwnEvent
    <3>4. logs'[id].done <=> \E k \in 1 .. Len(logs'[id].events) :
             logs'[id].events[k].from = "job" /\ IsTerminal(logs'[id].events[k])
      BY <1>10, <2>2, <3>2, <3>3
    <3>5. \A k, l \in 1 .. Len(logs'[id].events) : IsTerminal(logs'[id].events[k]) => l =< k
      BY <1>10, <2>2, <3>1
    <3>6. IsMain(id)' /\ (logs'[id].done => stage'[logs'[id].job] \in Past)
      BY <1>6, <1>7, <2>2, <3>2, <3>3 DEF IsMain
    <3> QED
      BY <3>4, <3>5, <3>6 DEF LogInv, Own
  <2> QED
    BY <2>1, <2>2
<1>12. OneMain'
  BY <1>2, <1>3, <1>5, <1>8 DEF OneMain
<1>13. MapInv(j)'
  <2>1. /\ jobEvents'[j] = log /\ logs'[log].job = j
        /\ \A id \in Ids' : logs'[id].job = j => id = log
    BY <1>1, <1>2, <1>3, <1>5
  <2>2. ~Unheard(j)' /\ stage'[j] # "queued"
    BY <1>6 DEF Unheard
  <2>3. IsMain(jobEvents[j])'
    BY <1>1, <1>7 DEF IsMain
  <2> QED
    BY <1>1, <2>1, <2>2, <2>3 DEF MapInv
<1>14. ASSUME NEW k \in Jobs, k # j PROVE MapInv(k)'
  <2>1. MapInv(k) /\ stage'[k] = stage[k] /\ held'[k] = held[k]
    BY <1>1, <1>6, <1>14 DEF AllMaps
  <2>2. jobEvents[k] # NoLog => jobEvents[k] \in Ids /\ jobEvents[k] # log
    <3>1. jobEvents[k] \in 0 .. Len(logs)
      BY DEF TypeOK, LogIds
    <3>2. jobEvents[k] # NoLog => logs[jobEvents[k]].job = k
      BY <2>1 DEF MapInv
    <3> QED
      BY <1>3, <1>14, <3>1, <3>2 DEF NoLog, Ids
  <2>3. jobEvents[k] # NoLog => /\ logs'[jobEvents[k]] = logs[jobEvents[k]]
                                /\ IsMain(jobEvents[k])' <=> IsMain(jobEvents[k])
    BY <2>2 DEF Logged, IsMain
  <2> QED
    BY <1>2, <2>1, <2>3 DEF MapInv, Unheard
<1> QED
  BY <1>2, <1>11, <1>12, <1>13, <1>14 DEF AllLogs, AllMaps

-----------------------------------------------------------------------------
(* The steps *)

(* The events the job writes are events.                                   *)
LEMMA EventTypes ==
    ASSUME TypeOK, NEW j \in Jobs
    PROVE  /\ stage[j] \in Announcing => OwnEvent(stage[j], file[j]) \in Events
           /\ PipeEvent(relayEvt[j]) \in Events
<1>1. NumFiles \in Nat /\ MaxEmits \in Nat
  BY BoundsAssumption
<1>2. file[j] \in Nat /\ relayEvt[j] \in Nat
  BY <1>1 DEF TypeOK
<1> QED
  BY <1>2 DEF OwnEvent, PipeEvent, Events

(* AppendOwn and RelayAppend, by what they do to their log.                *)
LEMMA Appends ==
    ASSUME TypeOK, AllHands, NEW j \in Jobs
    PROVE  /\ AppendOwn(j) =>
                 /\ held[j] \in Ids /\ stage[j] \in Announcing /\ Woken
                 /\ Logged(held[j], OwnEvent(stage[j], file[j]), stage[j] \in Terminal)
           /\ RelayAppend(j) =>
                 /\ relayLog[j] \in Ids /\ relayEvt[j] \in Nat /\ Woken
                 /\ Logged(relayLog[j], PipeEvent(relayEvt[j]), FALSE)
<1>1. /\ held[j] \in 0 .. Len(logs) /\ relayLog[j] \in 0 .. Len(logs) /\ Len(logs) \in Nat
      /\ relayEvt[j] \in Nat
  BY BoundsAssumption DEF TypeOK, LogIds
<1>2. ASSUME AppendOwn(j)
      PROVE  /\ held[j] \in Ids /\ stage[j] \in Announcing /\ Woken
             /\ Logged(held[j], OwnEvent(stage[j], file[j]), stage[j] \in Terminal)
  <2>1. held[j] \in Ids /\ stage[j] \in Announcing
    BY <1>1, <1>2 DEF AppendOwn, NoLog, Ids, AllHands, HandsInv
  <2>2. LogEvent(held[j], OwnEvent(stage[j], file[j]), stage[j] \in Terminal)
    BY <1>2 DEF AppendOwn
  <2>3. (stage[j] \in Terminal) \in BOOLEAN
    OBVIOUS
  <2> QED
    BY <2>1, <2>2, <2>3, EventTypes, LogOne
<1>3. ASSUME RelayAppend(j)
      PROVE  /\ relayLog[j] \in Ids /\ Woken
             /\ Logged(relayLog[j], PipeEvent(relayEvt[j]), FALSE)
  <2>1. relayLog[j] \in Ids
    BY <1>1, <1>3 DEF RelayAppend, NoLog, Ids, AllHands, HandsInv
  <2>2. LogEvent(relayLog[j], PipeEvent(relayEvt[j]), FALSE)
    BY <1>3 DEF RelayAppend
  <2> QED
    BY <2>1, <2>2, EventTypes, LogOne
<1> QED
  BY <1>1, <1>2, <1>3

(* A stream's step replaces its own record.                                *)
LEMMA MoveStream ==
    ASSUME stream \in [Streams -> StreamState], NEW s \in Streams, NEW r \in StreamState,
           stream' = [stream EXCEPT ![s] = r]
    PROVE  /\ stream' \in [Streams -> StreamState] /\ stream'[s] = r
           /\ \A t \in Streams : t # s => stream'[t] = stream[t]
OBVIOUS

(* Every step keeps the types.                                             *)
LEMMA TypeOKStep == TypeOK /\ AllHands /\ AllStreams /\ [Next]_vars => TypeOK'
<1> SUFFICES ASSUME TypeOK, AllHands, AllStreams, [Next]_vars PROVE TypeOK'
  OBVIOUS
<1> USE BoundsAssumption
<1>a. /\ stage \in [Jobs -> Stages] /\ file \in [Jobs -> 1 .. NumFiles + 1]
      /\ logs \in Seq(Log) /\ Len(logs) \in Nat /\ stream \in [Streams -> StreamState]
  BY DEF TypeOK
<1>1. ASSUME NEW j \in Jobs, Request(j) PROVE TypeOK'
  <2>1. stage' \in [Jobs -> Stages]
    BY <1>1, <1>a DEF Request, Goto, Stages, Announcing, Terminal
  <2> QED
    BY <1>1, <2>1 DEF TypeOK, Request, LogIds, producerVars, relayVars
<1>2. ASSUME NEW j \in Jobs, Submit(j) PROVE TypeOK'
  <2>1. stage' \in [Jobs -> Stages]
    BY <1>2, <1>a DEF Submit, Goto, Stages, Announcing, Terminal
  <2> QED
    BY <1>2, <2>1 DEF TypeOK, Submit, LogIds, producerVars, relayVars
<1>3. ASSUME NEW j \in Jobs, NextFile(j) PROVE TypeOK'
  <2>1. stage' \in [Jobs -> Stages]
    BY <1>3, <1>a DEF NextFile, Goto, Stages, Announcing, Terminal
  <2> QED
    BY <1>3, <2>1 DEF TypeOK, NextFile, LogIds, producerVars, relayVars
<1>4. ASSUME NEW j \in Jobs, IndexPathReturns(j) PROVE TypeOK'
  <2>1. stage' \in [Jobs -> Stages]
    BY <1>4, <1>a DEF IndexPathReturns, Goto, Stages, Announcing, Terminal
  <2>2. file' \in [Jobs -> 1 .. NumFiles + 1]
    <3>1. file[j] =< NumFiles
      BY <1>4 DEF AllHands, HandsInv, IndexPathReturns
    <3> QED
      BY <1>4, <1>a, <3>1 DEF IndexPathReturns
  <2> QED
    BY <1>4, <2>1, <2>2 DEF TypeOK, IndexPathReturns, LogIds, producerVars, relayVars
<1>5. ASSUME NEW j \in Jobs, FinalizeReturns(j) PROVE TypeOK'
  <2>1. stage' \in [Jobs -> Stages]
    BY <1>5, <1>a DEF FinalizeReturns, Goto, Stages, Announcing, Terminal
  <2> QED
    BY <1>5, <2>1 DEF TypeOK, FinalizeReturns, LogIds, producerVars, relayVars
<1>6. ASSUME NEW j \in Jobs, StopRelay(j) PROVE TypeOK'
  <2>1. stage' \in [Jobs -> Stages]
    BY <1>6, <1>a DEF StopRelay, Goto, Stages, Announcing, Terminal
  <2> QED
    BY <1>6, <2>1 DEF TypeOK, StopRelay, LogIds, producerVars, relayVars
<1>7. ASSUME NEW j \in Jobs, JoinRelay(j) PROVE TypeOK'
  <2>1. stage' \in [Jobs -> Stages]
    BY <1>7, <1>a DEF JoinRelay, Goto, Stages, Announcing, Terminal
  <2> QED
    BY <1>7, <2>1 DEF TypeOK, JoinRelay, LogIds, producerVars, relayVars
<1>8. ASSUME NEW j \in Jobs, Emit(j) PROVE TypeOK'
  <2>1. emitted[j] + 1 \in 1 .. MaxEmits /\ emitted' = [emitted EXCEPT ![j] = emitted[j] + 1]
    BY <1>8 DEF TypeOK, Emit
  <2>2. emitted' \in [Jobs -> 0 .. MaxEmits]
    BY <2>1 DEF TypeOK
  <2>3. chan' \in [Jobs -> Seq(1 .. MaxEmits)]
    <3>1. Append(chan[j], emitted[j] + 1) \in Seq(1 .. MaxEmits)
      BY <2>1 DEF TypeOK
    <3>2. chan' = [chan EXCEPT ![j] = Append(chan[j], emitted[j] + 1)] \/ chan' = chan
      BY <1>8 DEF Emit
    <3> QED
      BY <3>1, <3>2 DEF TypeOK
  <2> QED
    BY <1>8, <2>2, <2>3 DEF TypeOK, Emit, LogIds, producerVars, relayVars
<1>9. ASSUME NEW j \in Jobs, JobPanics(j) PROVE TypeOK'
  <2>1. stage' \in [Jobs -> Stages]
    BY <1>9, <1>a DEF JobPanics, Goto, Stages, Announcing, Terminal
  <2> QED
    BY <1>9, <2>1 DEF TypeOK, JobPanics, LogIds, producerVars, relayVars
<1>10. ASSUME NEW j \in Jobs, RelayReceive(j) PROVE TypeOK'
  <2>1. chan[j] \in Seq(1 .. MaxEmits) /\ chan[j] # << >>
    BY <1>10 DEF TypeOK, RelayReceive
  <2>2. Head(chan[j]) \in 1 .. MaxEmits /\ Tail(chan[j]) \in Seq(1 .. MaxEmits)
    BY <2>1, HeadTailProperties
  <2>3. chan' \in [Jobs -> Seq(1 .. MaxEmits)] /\ relayEvt' \in [Jobs -> 0 .. MaxEmits]
    BY <1>10, <2>2 DEF TypeOK, RelayReceive
  <2>4. relay' \in [Jobs -> {"off", "select", "received", "append", "exited"}]
    BY <1>10 DEF TypeOK, RelayReceive
  <2> QED
    BY <1>10, <2>3, <2>4 DEF TypeOK, RelayReceive, LogIds, producerVars
<1>11. ASSUME NEW j \in Jobs, RelayExit(j) PROVE TypeOK'
  BY <1>11 DEF TypeOK, RelayExit, LogIds, producerVars, relayVars
<1>12. ASSUME NEW j \in Jobs, Announce(j) PROVE TypeOK'
  <2>1. Got(j)
    BY <1>12, GetLog DEF Announce
  <2>2. Len(logs') >= Len(logs) /\ Len(logs') \in Nat /\ TheLog(j) \in 1 .. Len(logs')
    BY <1>a, <2>1 DEF Got
  <2>3. /\ held' \in [Jobs -> LogIds'] /\ jobEvents' \in [Jobs -> LogIds']
        /\ relayLog' \in [Jobs -> LogIds']
        /\ \A s \in Streams : stream'[s].log \in LogIds'
    <3>1. LogIds \subseteq LogIds' /\ TheLog(j) \in LogIds'
      BY <2>2 DEF LogIds
    <3> QED
      BY <1>12, <2>1, <3>1 DEF TypeOK, Announce, Got, relayVars
  <2>4. jobProgress' \in [Jobs -> Announcing \cup {"none"}]
    BY <1>12 DEF TypeOK, Announce
  <2> QED
    BY <1>12, <2>1, <2>3, <2>4 DEF TypeOK, Announce, Got, relayVars
<1>13. ASSUME NEW j \in Jobs, AppendOwn(j) PROVE TypeOK'
  <2>1. Woken /\ logs' \in Seq(Log) /\ LogIds' = LogIds
        /\ stage[j] \in Announcing
    BY <1>13, Appends DEF Logged, LogIds
  <2>2. stage' \in [Jobs -> Stages]
    <3>1. After(stage[j]) \in Stages
      BY <2>1, AfterAnnouncing
    <3> QED
      BY <1>13, <1>a, <3>1 DEF AppendOwn, Goto
  <2>3. held' \in [Jobs -> LogIds]
    BY <1>13, <1>a DEF TypeOK, AppendOwn, LogIds, NoLog
  <2>4. stream' \in [Streams -> StreamState] /\ \A s \in Streams : stream'[s].log \in LogIds
    BY <2>1 DEF Woken, TypeOK
  <2> QED
    BY <1>13, <2>1, <2>2, <2>3, <2>4 DEF TypeOK, AppendOwn, relayVars
<1>14. ASSUME NEW j \in Jobs, RelayLookup(j) PROVE TypeOK'
  <2>1. Got(j)
    BY <1>14, GetLog DEF RelayLookup
  <2>2. Len(logs') >= Len(logs) /\ Len(logs') \in Nat /\ TheLog(j) \in 1 .. Len(logs')
    BY <1>a, <2>1 DEF Got
  <2>3. /\ held' \in [Jobs -> LogIds'] /\ jobEvents' \in [Jobs -> LogIds']
        /\ relayLog' \in [Jobs -> LogIds']
        /\ \A s \in Streams : stream'[s].log \in LogIds'
    <3>1. LogIds \subseteq LogIds' /\ TheLog(j) \in LogIds'
      BY <2>2 DEF LogIds
    <3> QED
      BY <1>14, <2>1, <3>1 DEF TypeOK, RelayLookup, Got, producerVars
  <2>4. relay' \in [Jobs -> {"off", "select", "received", "append", "exited"}]
    BY <1>14 DEF TypeOK, RelayLookup
  <2> QED
    BY <1>14, <2>1, <2>3, <2>4 DEF TypeOK, RelayLookup, Got, producerVars
<1>15. ASSUME NEW j \in Jobs, RelayAppend(j) PROVE TypeOK'
  <2>1. Woken /\ logs' \in Seq(Log) /\ LogIds' = LogIds
    BY <1>15, Appends DEF Logged, LogIds
  <2>2. /\ relay' \in [Jobs -> {"off", "select", "received", "append", "exited"}]
        /\ relayEvt' \in [Jobs -> 0 .. MaxEmits] /\ relayLog' \in [Jobs -> LogIds]
    BY <1>15, <1>a DEF TypeOK, RelayAppend, LogIds, NoLog
  <2>3. stream' \in [Streams -> StreamState] /\ \A s \in Streams : stream'[s].log \in LogIds
    BY <2>1 DEF Woken, TypeOK
  <2> QED
    BY <1>15, <2>1, <2>2, <2>3 DEF TypeOK, RelayAppend, producerVars
<1>16. ASSUME NEW s \in Streams, Snapshot(s) \/ Flush(s) \/ Leave(s) \/ Watcher(s)
       PROVE  TypeOK'
  <2>1. /\ stream' \in [Streams -> StreamState]
        /\ \A t \in Streams : stream'[t].log = stream[t].log
    <3>1. CASE Snapshot(s)
      <4>1. stream[s].pc = "loop" /\ stream[s].log \in Ids /\ stream[s].cursor \in Nat
        <5>1. stream[s].log \in 0 .. Len(logs) /\ stream[s] \in StreamState
          BY DEF TypeOK, LogIds
        <5>2. stream[s].pc = "loop" /\ stream[s].log # 0
          BY <3>1 DEF Snapshot, AllStreams, StreamInv, NoLog
        <5>3. stream[s].cursor \in Nat
          BY <5>1 DEF StreamState
        <5> QED
          BY <1>a, <5>1, <5>2, <5>3 DEF Ids
      <4>2. logs[stream[s].log] \in Log
        BY <1>a, <4>1 DEF Ids
      <4> DEFINE e == logs[stream[s].log].events
                 b == SubSeq(e, stream[s].cursor + 1, Len(e))
      <4>3. e \in Seq(Events) /\ b \in Seq(Events) /\ Len(e) \in Nat
        BY <4>1, <4>2 DEF Log
      <4>4. \/ stream' = [stream EXCEPT ![s] = [stream[s] EXCEPT !.pc = "wait"]]
            \/ \E q \in {"left", "flush"} :
                  stream' = [stream EXCEPT ![s] =
                    [stream[s] EXCEPT !.batch = b, !.cursor = Len(e),
                       !.terminal = logs[stream[s].log].done, !.pc = q]]
        BY <3>1 DEF Snapshot
      <4>5. logs[stream[s].log].done \in BOOLEAN
        BY <4>2 DEF Log
      <4> HIDE DEF e, b
      <4>6. [stream[s] EXCEPT !.pc = "wait"] \in StreamState
        BY <1>a DEF StreamState
      <4>7. ASSUME NEW q \in {"left", "flush"}
            PROVE  LET r == [stream[s] EXCEPT !.batch = b, !.cursor = Len(e),
                               !.terminal = logs[stream[s].log].done, !.pc = q]
                   IN  r \in StreamState /\ r.log = stream[s].log
        BY <1>a, <4>3, <4>5 DEF StreamState
      <4>8. PICK r \in StreamState : /\ r.log = stream[s].log
                                     /\ stream' = [stream EXCEPT ![s] = r]
        <5>1. CASE stream' = [stream EXCEPT ![s] = [stream[s] EXCEPT !.pc = "wait"]]
          BY <1>a, <4>6, <5>1 DEF StreamState
        <5>2. CASE \E q \in {"left", "flush"} :
                     stream' = [stream EXCEPT ![s] =
                       [stream[s] EXCEPT !.batch = b, !.cursor = Len(e),
                          !.terminal = logs[stream[s].log].done, !.pc = q]]
          BY <4>7, <5>2
        <5> QED
          BY <4>4, <5>1, <5>2
      <4> QED
        BY <1>a, <4>8, MoveStream
    <3>2. CASE Flush(s)
      <4>1. stream[s].seen \o stream[s].batch \in Seq(Events) /\ << >> \in Seq(Events)
        BY <1>a DEF StreamState
      <4> DEFINE q == IF stream[s].terminal THEN "clear" ELSE "loop"
                 flushed == [stream[s] EXCEPT !.seen = stream[s].seen \o stream[s].batch,
                                              !.batch = << >>, !.pc = q]
                 left == [stream[s] EXCEPT !.pc = "left"]
      <4>2. left \in StreamState /\ left.log = stream[s].log
        BY <1>a DEF StreamState
      <4>3. flushed \in StreamState /\ flushed.log = stream[s].log
        <5>1. q \in {"clear", "loop"}
          OBVIOUS
        <5> HIDE DEF q
        <5> QED
          BY <1>a, <4>1, <5>1 DEF StreamState
      <4>4. stream' = [stream EXCEPT ![s] = flushed] \/ stream' = [stream EXCEPT ![s] = left]
        <5>1. stream' = [stream EXCEPT ![s].pc = "left"] => stream' = [stream EXCEPT ![s] = left]
          OBVIOUS
        <5>2. \/ stream' = [stream EXCEPT ![s] = flushed]
              \/ stream' = [stream EXCEPT ![s].pc = "left"]
          BY <3>2 DEF Flush
        <5> HIDE DEF flushed, left
        <5> QED
          BY <5>1, <5>2
      <4> HIDE DEF flushed, left
      <4> QED
        BY <1>a, <4>2, <4>3, <4>4, MoveStream
    <3>3. CASE Leave(s)
      <4> DEFINE r == [stream[s] EXCEPT !.gone = TRUE]
      <4>1. r \in StreamState /\ r.log = stream[s].log
        BY <1>a DEF StreamState
      <4>2. stream' = [stream EXCEPT ![s] = r]
        BY <1>a, <3>3 DEF Leave
      <4> HIDE DEF r
      <4> QED
        BY <1>a, <4>1, <4>2, MoveStream
    <3>4. CASE Watcher(s)
      <4>1. stream' = [t \in Streams |->
               [stream[t] EXCEPT !.watched = stream[t].watched \/ t = s,
                  !.pc = IF stream[t].pc = "wait" /\ stream[t].log = stream[s].log
                         THEN "loop" ELSE stream[t].pc]]
        BY <3>4 DEF Watcher
      <4>2. \A t \in Streams : (stream[t].watched \/ t = s) \in BOOLEAN
        BY <1>a DEF StreamState
      <4>3. ASSUME NEW t \in Streams
            PROVE  stream'[t] \in StreamState /\ stream'[t].log = stream[t].log
        <5> DEFINE w == stream[t].watched \/ t = s
                   q == IF stream[t].pc = "wait" /\ stream[t].log = stream[s].log
                        THEN "loop" ELSE stream[t].pc
        <5>1. w \in BOOLEAN /\ stream[t] \in StreamState
          BY <1>a, <4>2
        <5>2. q \in {"new", "loop", "wait", "flush", "clear", "ended", "left"}
          BY <5>1 DEF StreamState
        <5>3. stream'[t] = [stream[t] EXCEPT !.watched = w, !.pc = q]
          BY <4>1
        <5> HIDE DEF w, q
        <5> QED
          BY <5>1, <5>2, <5>3 DEF StreamState
      <4> QED
        BY <4>1, <4>3
    <3> QED
      BY <1>16, <3>1, <3>2, <3>3, <3>4
  <2>2. UNCHANGED << producerVars, emitted, chan, stopped, relayVars, jobProgress, jobEvents, logs >>
    BY <1>16 DEF Snapshot, Flush, Leave, Watcher, StreamOnly
  <2> QED
    BY <2>1, <2>2 DEF TypeOK, LogIds, producerVars, relayVars
<1>17. ASSUME NEW s \in Streams, Clear(s) PROVE TypeOK'
  <2>1. stream' \in [Streams -> StreamState] /\ \A t \in Streams : stream'[t].log = stream[t].log
    <3>1. [stream[s] EXCEPT !.pc = "ended"] \in StreamState
      BY <1>a DEF StreamState
    <3>2. stream' = [stream EXCEPT ![s] = [stream[s] EXCEPT !.pc = "ended"]]
      BY <1>a, <1>17 DEF Clear
    <3> QED
      BY <1>a, <3>1, <3>2 DEF StreamState
  <2>2. jobEvents' \in [Jobs -> LogIds]
    <3>1. 0 \in LogIds /\ jobEvents \in [Jobs -> LogIds]
      BY <1>a DEF TypeOK, LogIds
    <3> QED
      BY <1>17, <3>1 DEF Clear, NoLog
  <2> QED
    BY <1>17, <2>1, <2>2 DEF TypeOK, Clear, StreamOnly, LogIds, producerVars, relayVars
<1>18. ASSUME NEW s \in Streams, NEW j \in Jobs, Connect(s, j) PROVE TypeOK'
  <2>1. Got(j)
    BY <1>18, GetLog DEF Connect
  <2>2. Len(logs') >= Len(logs) /\ Len(logs') \in Nat /\ TheLog(j) \in 1 .. Len(logs')
    BY <1>a, <2>1 DEF Got
  <2>3. /\ held' \in [Jobs -> LogIds'] /\ jobEvents' \in [Jobs -> LogIds']
        /\ relayLog' \in [Jobs -> LogIds']
    <3>1. LogIds \subseteq LogIds' /\ TheLog(j) \in LogIds'
      BY <2>2 DEF LogIds
    <3> QED
      BY <1>18, <2>1, <3>1 DEF TypeOK, Connect, StreamOnly, Got, producerVars, relayVars
  <2>4. /\ stream' \in [Streams -> StreamState]
        /\ \A t \in Streams : stream'[t].log = IF t = s THEN TheLog(j) ELSE stream[t].log
    <3>1. [NewStream EXCEPT !.pc = "loop", !.job = j, !.log = TheLog(j)] \in StreamState
      <4>1. << >> \in Seq(Events) /\ TheLog(j) \in Nat
        BY <2>2
      <4> QED
        BY <4>1 DEF NewStream, StreamState, NoLog
    <3> QED
      BY <1>a, <1>18, <3>1 DEF Connect, NewStream
  <2>5. \A t \in Streams : stream'[t].log \in LogIds'
    <3>1. \A t \in Streams : stream[t].log \in 0 .. Len(logs)
      BY DEF TypeOK, LogIds
    <3>2. ASSUME NEW t \in Streams PROVE stream'[t].log \in 0 .. Len(logs')
      BY <1>a, <2>2, <2>4, <3>1
    <3> QED
      BY <3>2 DEF LogIds
  <2> QED
    BY <1>18, <2>1, <2>3, <2>4, <2>5
       DEF TypeOK, Connect, StreamOnly, Got, producerVars, relayVars
<1>19. CASE UNCHANGED vars
  BY <1>19 DEF TypeOK, vars, LogIds
<1> QED
  BY <1>1, <1>2, <1>3, <1>4, <1>5, <1>6, <1>7, <1>8, <1>9, <1>10, <1>11, <1>12, <1>13,
     <1>14, <1>15, <1>16, <1>17, <1>18, <1>19 DEF Next, Job, Relay, Stream

(* The functions of the jobs that HandsInv is about.                       *)
SameHands(k) ==
    /\ stage'[k] = stage[k] /\ held'[k] = held[k] /\ jobEvents'[k] = jobEvents[k]
    /\ relay'[k] = relay[k] /\ file'[k] = file[k] /\ relayLog'[k] = relayLog[k]

(* Logs never change their job.                                            *)
JobsKept == \A id \in Ids : logs'[id].job = logs[id].job

(* What one job does, no other job's hands notice.                         *)
LEMMA OtherHands ==
    ASSUME TypeOK, NEW k \in Jobs, HandsInv(k), SameHands(k), JobsKept
    PROVE  HandsInv(k)'
<1>1. relayLog[k] # NoLog => relayLog[k] \in Ids
  BY DEF TypeOK, LogIds, Ids, NoLog
<1> QED
  BY <1>1 DEF HandsInv, SameHands, JobsKept

(* The producer holds the log of the map, the relay one of its job.        *)
LEMMA HandsStep ==
    TypeOK /\ AllMaps /\ AllHands /\ AllLogs /\ AllStreams /\ [Next]_vars => AllHands'
<1> SUFFICES ASSUME TypeOK, AllMaps, AllHands, AllLogs, AllStreams, [Next]_vars
             PROVE  AllHands'
  OBVIOUS
<1>a. /\ stage \in [Jobs -> Stages] /\ file \in [Jobs -> 1 .. NumFiles + 1]
      /\ held \in [Jobs -> LogIds] /\ relayLog \in [Jobs -> LogIds]
      /\ jobEvents \in [Jobs -> LogIds]
      /\ relay \in [Jobs -> {"off", "select", "received", "append", "exited"}]
      /\ NumFiles \in Nat
  BY BoundsAssumption DEF TypeOK
<1>1. ASSUME NEW j \in Jobs, Request(j) PROVE AllHands'
  <2>1. JobsKept /\ \A k \in Jobs : k # j => SameHands(k)
    BY <1>1, <1>a DEF Request, Goto, JobsKept, SameHands, producerVars, relayVars
  <2>2. HandsInv(j)'
    BY <1>1, <1>a DEF AllHands, HandsInv, Request, Goto, Announcing, Terminal, Before,
       producerVars, relayVars
  <2> QED
    BY <2>1, <2>2, OtherHands DEF AllHands
<1>2. ASSUME NEW j \in Jobs, Submit(j) PROVE AllHands'
  <2>1. JobsKept /\ \A k \in Jobs : k # j => SameHands(k)
    BY <1>2, <1>a DEF Submit, Goto, JobsKept, SameHands, producerVars, relayVars
  <2>2. HandsInv(j)'
    BY <1>2, <1>a DEF AllHands, HandsInv, Submit, Goto, Announcing, Terminal, Before,
       producerVars, relayVars
  <2> QED
    BY <2>1, <2>2, OtherHands DEF AllHands
<1>3. ASSUME NEW j \in Jobs, NextFile(j) PROVE AllHands'
  <2>1. JobsKept /\ \A k \in Jobs : k # j => SameHands(k)
    BY <1>3, <1>a DEF NextFile, Goto, JobsKept, SameHands, producerVars, relayVars
  <2>2. HandsInv(j)'
    BY <1>3, <1>a DEF AllHands, HandsInv, NextFile, Goto, Announcing, Terminal, Before,
       producerVars, relayVars
  <2> QED
    BY <2>1, <2>2, OtherHands DEF AllHands
<1>4. ASSUME NEW j \in Jobs, IndexPathReturns(j) PROVE AllHands'
  <2>1. JobsKept /\ \A k \in Jobs : k # j => SameHands(k)
    BY <1>4, <1>a DEF IndexPathReturns, Goto, JobsKept, SameHands, producerVars, relayVars
  <2>2. HandsInv(j)'
    BY <1>4, <1>a DEF AllHands, HandsInv, IndexPathReturns, Goto, Announcing, Terminal, Before,
       producerVars, relayVars
  <2> QED
    BY <2>1, <2>2, OtherHands DEF AllHands
<1>5. ASSUME NEW j \in Jobs, FinalizeReturns(j) PROVE AllHands'
  <2>1. JobsKept /\ \A k \in Jobs : k # j => SameHands(k)
    BY <1>5, <1>a DEF FinalizeReturns, Goto, JobsKept, SameHands, producerVars, relayVars
  <2>2. HandsInv(j)'
    BY <1>5, <1>a DEF AllHands, HandsInv, FinalizeReturns, Goto, Announcing, Terminal, Before,
       producerVars, relayVars
  <2> QED
    BY <2>1, <2>2, OtherHands DEF AllHands
<1>6. ASSUME NEW j \in Jobs, StopRelay(j) PROVE AllHands'
  <2>1. JobsKept /\ \A k \in Jobs : k # j => SameHands(k)
    BY <1>6, <1>a DEF StopRelay, Goto, JobsKept, SameHands, producerVars, relayVars
  <2>2. HandsInv(j)'
    BY <1>6, <1>a DEF AllHands, HandsInv, StopRelay, Goto, Announcing, Terminal, Before,
       producerVars, relayVars
  <2> QED
    BY <2>1, <2>2, OtherHands DEF AllHands
<1>7. ASSUME NEW j \in Jobs, JoinRelay(j) PROVE AllHands'
  <2>1. JobsKept /\ \A k \in Jobs : k # j => SameHands(k)
    BY <1>7, <1>a DEF JoinRelay, Goto, JobsKept, SameHands, producerVars, relayVars
  <2>2. HandsInv(j)'
    BY <1>7, <1>a DEF AllHands, HandsInv, JoinRelay, Goto, Announcing, Terminal, Before,
       producerVars, relayVars
  <2> QED
    BY <2>1, <2>2, OtherHands DEF AllHands
<1>8. ASSUME NEW j \in Jobs, Emit(j) PROVE AllHands'
  <2>1. JobsKept /\ \A k \in Jobs : k # j => SameHands(k)
    BY <1>8, <1>a DEF Emit, Goto, JobsKept, SameHands, producerVars, relayVars
  <2>2. HandsInv(j)'
    BY <1>8, <1>a DEF AllHands, HandsInv, Emit, Goto, Announcing, Terminal, Before,
       producerVars, relayVars
  <2> QED
    BY <2>1, <2>2, OtherHands DEF AllHands
<1>9. ASSUME NEW j \in Jobs, JobPanics(j) PROVE AllHands'
  <2>1. JobsKept /\ \A k \in Jobs : k # j => SameHands(k)
    BY <1>9, <1>a DEF JobPanics, Goto, JobsKept, SameHands, producerVars, relayVars
  <2>2. HandsInv(j)'
    BY <1>9, <1>a DEF AllHands, HandsInv, JobPanics, Goto, Announcing, Terminal, Before,
       producerVars, relayVars
  <2> QED
    BY <2>1, <2>2, OtherHands DEF AllHands
<1>10. ASSUME NEW j \in Jobs, RelayReceive(j) PROVE AllHands'
  <2>1. JobsKept /\ \A k \in Jobs : k # j => SameHands(k)
    BY <1>10, <1>a DEF RelayReceive, Goto, JobsKept, SameHands, producerVars, relayVars
  <2>2. HandsInv(j)'
    BY <1>10, <1>a DEF AllHands, HandsInv, RelayReceive, Goto, Announcing, Terminal, Before,
       producerVars, relayVars
  <2> QED
    BY <2>1, <2>2, OtherHands DEF AllHands
<1>11. ASSUME NEW j \in Jobs, RelayExit(j) PROVE AllHands'
  <2>1. JobsKept /\ \A k \in Jobs : k # j => SameHands(k)
    BY <1>11, <1>a DEF RelayExit, Goto, JobsKept, SameHands, producerVars, relayVars
  <2>2. HandsInv(j)'
    BY <1>11, <1>a DEF AllHands, HandsInv, RelayExit, Goto, Announcing, Terminal, Before,
       producerVars, relayVars
  <2> QED
    BY <2>1, <2>2, OtherHands DEF AllHands
<1>12. ASSUME NEW j \in Jobs, Announce(j) PROVE AllHands'
  <2>1. Got(j)
    BY <1>12, GetLog DEF Announce
  <2>2. JobsKept /\ \A k \in Jobs : k # j => SameHands(k)
    BY <1>12, <1>a, <2>1 DEF Announce, Got, JobsKept, SameHands, relayVars
  <2>3. HandsInv(j)'
    <3>1. /\ held'[j] = TheLog(j) /\ jobEvents'[j] = TheLog(j) /\ stage[j] \in Announcing
          /\ UNCHANGED << stage, file, relay, relayLog >>
      BY <1>12, <1>a DEF Announce, GetOrCreate, relayVars
    <3>2. relayLog[j] # NoLog => logs'[relayLog[j]].job = logs[relayLog[j]].job
      BY <1>a, <2>2 DEF JobsKept, LogIds, Ids, NoLog
    <3> QED
      BY <3>1, <3>2 DEF AllHands, HandsInv
  <2> QED
    BY <2>2, <2>3, OtherHands DEF AllHands
<1>13. ASSUME NEW j \in Jobs, AppendOwn(j) PROVE AllHands'
  <2>1. /\ JobsKept /\ stage[j] \in Announcing
        /\ Logged(held[j], OwnEvent(stage[j], file[j]), stage[j] \in Terminal)
    BY <1>13, Appends DEF Logged, JobsKept
  <2>2. \A k \in Jobs : k # j => SameHands(k)
    BY <1>13, <1>a DEF AppendOwn, Goto, SameHands, relayVars
  <2>3. HandsInv(j)'
    <3>1. /\ held'[j] = NoLog /\ stage'[j] = After(stage[j])
          /\ UNCHANGED << file, relay, relayLog >>
      BY <1>13, <1>a DEF AppendOwn, Goto, relayVars
    <3>2. relayLog[j] # NoLog => logs'[relayLog[j]].job = logs[relayLog[j]].job
      BY <1>a, <2>1 DEF JobsKept, LogIds, Ids, NoLog
    <3>3. /\ After(stage[j]) \notin {"new", "queued", "indexing"}
          /\ After(stage[j]) = "pipeline" => stage[j] = "indexing"
          /\ After(stage[j]) \in Before => stage[j] \in Before
          /\ After(stage[j]) = "returned" => stage[j] \in Before
      BY <2>1 DEF After, Announcing, Terminal, Before
    <3> QED
      BY <3>1, <3>2, <3>3 DEF AllHands, HandsInv
  <2> QED
    BY <2>1, <2>2, <2>3, OtherHands DEF AllHands
<1>14. ASSUME NEW j \in Jobs, RelayLookup(j) PROVE AllHands'
  <2>1. Got(j)
    BY <1>14, GetLog DEF RelayLookup
  <2>2. JobsKept /\ \A k \in Jobs : k # j => SameHands(k)
    BY <1>14, <1>a, <2>1 DEF RelayLookup, Got, JobsKept, SameHands, producerVars
  <2>3. HandsInv(j)'
    <3>1. /\ relayLog'[j] = TheLog(j) /\ jobEvents'[j] = TheLog(j)
          /\ relay[j] = "received" /\ relay'[j] = "append"
          /\ UNCHANGED << stage, file, held >>
      BY <1>14, <1>a DEF RelayLookup, GetOrCreate, producerVars
    <3>2. TheLog(j) # NoLog /\ (held[j] # NoLog => TheLog(j) = jobEvents[j])
      BY <1>a, <2>1 DEF AllHands, HandsInv, TheLog, NoLog, Got
    <3>3. logs'[TheLog(j)].job = j
      <4>1. CASE jobEvents[j] = NoLog
        BY <2>1, <4>1 DEF Got
      <4>2. CASE jobEvents[j] # NoLog
        BY <2>1, <4>2 DEF Got, TheLog, AllMaps, MapInv
      <4> QED
        BY <4>1, <4>2
    <3> QED
      BY <3>1, <3>2, <3>3 DEF AllHands, HandsInv, Before
  <2> QED
    BY <2>2, <2>3, OtherHands DEF AllHands
<1>15. ASSUME NEW j \in Jobs, RelayAppend(j) PROVE AllHands'
  <2>1. JobsKept /\ \A k \in Jobs : k # j => SameHands(k)
    BY <1>15, <1>a, Appends DEF RelayAppend, Logged, JobsKept, SameHands, producerVars
  <2>2. HandsInv(j)'
    BY <1>15, <1>a DEF AllHands, HandsInv, RelayAppend, Before, producerVars
  <2> QED
    BY <2>1, <2>2, OtherHands DEF AllHands
<1>16. ASSUME NEW s \in Streams, Snapshot(s) \/ Flush(s) \/ Leave(s) \/ Watcher(s)
       PROVE  AllHands'
  <2>1. UNCHANGED << producerVars, relayVars, jobEvents, logs >>
    BY <1>16 DEF Snapshot, Flush, Leave, Watcher, StreamOnly
  <2> QED
    BY <2>1 DEF AllHands, HandsInv, producerVars, relayVars
<1>17. ASSUME NEW s \in Streams, Clear(s) PROVE AllHands'
  <2>1. UNCHANGED << producerVars, relayVars, logs >>
    BY <1>17 DEF Clear, StreamOnly
  <2>2. ASSUME NEW k \in Jobs, held[k] # NoLog PROVE jobEvents'[k] = jobEvents[k]
    <3>1. stream[s].log \in Ids /\ logs[stream[s].log].done
          /\ logs[stream[s].log].job = stream[s].job
      <4>1. StreamInv(s) /\ stream[s].log \in LogIds /\ stream[s].pc = "clear"
        BY <1>17 DEF Clear, AllStreams, TypeOK
      <4> QED
        BY <4>1 DEF StreamInv, LogIds, Ids, NoLog
    <3>2. stage[stream[s].job] \in Past
      BY <3>1 DEF AllLogs, LogInv
    <3>3. stage[k] \notin Past
      BY <2>2 DEF AllHands, HandsInv, Announcing, Terminal, Past
    <3> QED
      BY <1>17, <1>a, <3>2, <3>3 DEF Clear
  <2> QED
    BY <2>1, <2>2 DEF AllHands, HandsInv, producerVars, relayVars
<1>18. ASSUME NEW s \in Streams, NEW j \in Jobs, Connect(s, j) PROVE AllHands'
  <2>1. Got(j)
    BY <1>18, GetLog DEF Connect
  <2>2. JobsKept /\ UNCHANGED << producerVars, relayVars >>
    BY <1>18, <2>1 DEF Connect, StreamOnly, Got, JobsKept
  <2>3. ASSUME NEW k \in Jobs PROVE HandsInv(k)'
    <3>1. held[k] # NoLog => jobEvents'[k] = jobEvents[k]
      BY <2>1, <1>a DEF AllHands, HandsInv, Got, TheLog
    <3>2. relayLog[k] # NoLog => logs'[relayLog[k]].job = logs[relayLog[k]].job
      BY <1>a, <2>2 DEF JobsKept, LogIds, Ids, NoLog
    <3> QED
      BY <2>2, <3>1, <3>2 DEF AllHands, HandsInv, producerVars, relayVars
  <2> QED
    BY <2>3 DEF AllHands
<1>19. CASE UNCHANGED vars
  BY <1>19 DEF AllHands, HandsInv, vars
<1> QED
  BY <1>1, <1>2, <1>3, <1>4, <1>5, <1>6, <1>7, <1>8, <1>9, <1>10, <1>11, <1>12, <1>13,
     <1>14, <1>15, <1>16, <1>17, <1>18, <1>19 DEF Next, Job, Relay, Stream

(* A sequence is its beginning and its rest.                               *)
LEMMA SplitSeq ==
    ASSUME NEW e \in Seq(Events), NEW c \in 0 .. Len(e)
    PROVE  SubSeq(e, 1, c) \o SubSeq(e, c + 1, Len(e)) = SubSeq(e, 1, Len(e))
<1> DEFINE a == SubSeq(e, 1, c)
           b == SubSeq(e, c + 1, Len(e))
           all == SubSeq(e, 1, Len(e))
<1>1. a \in Seq(Events) /\ Len(a) = c /\ \A k \in 1 .. c : a[k] = e[k]
  BY SubSeqProperties
<1>2. /\ b \in Seq(Events) /\ Len(b) = Len(e) - c
      /\ \A k \in 1 .. (Len(e) - c) : b[k] = e[c + k]
  <2>1. CASE c = Len(e)
    BY <2>1, SubSeqProperties
  <2>2. CASE c < Len(e)
    <3>1. c + 1 \in 1 .. Len(e) /\ c + 1 =< Len(e) + 1 /\ Len(e) \in c .. Len(e)
      BY <2>2
    <3> QED
      BY <3>1, SubSeqProperties
  <2>3. Len(e) \in Nat
    OBVIOUS
  <2>4. c = Len(e) \/ c < Len(e)
    BY <2>3
  <2> HIDE DEF b
  <2> QED
    BY <2>1, <2>2, <2>4
<1>3. all \in Seq(Events) /\ Len(all) = Len(e) /\ \A k \in 1 .. Len(e) : all[k] = e[k]
  BY SubSeqProperties
<1> HIDE DEF a, b, all
<1>4. /\ a \o b \in Seq(Events) /\ Len(a \o b) = Len(e)
      /\ \A k \in 1 .. Len(e) : (a \o b)[k] = IF k =< c THEN a[k] ELSE b[k - c]
  BY <1>1, <1>2, ConcatProperties
<1>5. \A k \in 1 .. Len(e) : (a \o b)[k] = all[k]
  <2> TAKE k \in 1 .. Len(e)
  <2>1. CASE k =< c
    BY <1>1, <1>3, <1>4, <2>1
  <2>2. CASE k > c
    <3>1. k - c \in 1 .. Len(e) - c /\ c + (k - c) = k
      BY <2>2
    <3>2. b[k - c] = e[k]
      BY <1>2, <3>1
    <3> QED
      BY <1>3, <1>4, <2>2, <3>2
  <2>3. k =< c \/ k > c
    <3>1. Len(e) \in Nat
      OBVIOUS
    <3>2. k \in Int /\ c \in Int
      BY <3>1
    <3> QED
      BY <3>2
  <2> QED
    BY <2>1, <2>2, <2>3
<1>6. a \o b = all
  BY <1>3, <1>4, <1>5, SeqEqual
<1> QED
  BY <1>6 DEF a, b, all

(* What is known of the logs depends on them and on the stages only.       *)
LEMMA SameLogs ==
    ASSUME AllLogs, OneMain, UNCHANGED << stage, logs >>
    PROVE  AllLogs' /\ OneMain'
<1>1. AllLogs'
  <2>1. ASSUME NEW id \in Ids PROVE LogInv(id)'
    <3>1. LogInv(id) /\ Own(id)' = Own(id) /\ IsMain(id)' = IsMain(id)
      BY DEF AllLogs, Own, IsMain
    <3> QED
      BY <3>1 DEF LogInv
  <2> QED
    BY <2>1 DEF AllLogs, Ids
<1>2. OneMain'
  BY DEF OneMain, Ids, IsMain
<1> QED
  BY <1>1, <1>2

(* A stream that is sent nothing and reads nothing.                        *)
Idle(t) ==
    /\ stream'[t].job = stream[t].job /\ stream'[t].log = stream[t].log
    /\ stream'[t].cursor = stream[t].cursor /\ stream'[t].batch = stream[t].batch
    /\ stream'[t].terminal = stream[t].terminal /\ stream'[t].seen = stream[t].seen
    /\ stream[t].pc = "new" => stream'[t].pc = "new"
    /\ stream'[t].pc \in {"loop", "wait"} => stream[t].pc \in {"loop", "wait"}
    /\ stream'[t].pc = "clear" => stream[t].pc = "clear"
    /\ stream'[t].pc = "ended" => stream[t].pc \in {"clear", "ended"}

(* Such a stream's reading stays right while the logs do not change.       *)
LEMMA IdleStream ==
    ASSUME NEW t \in Streams, StreamInv(t), Idle(t), UNCHANGED logs
    PROVE  StreamInv(t)'
<1>1. \A id : Own(id)' = Own(id)
  BY DEF Own
<1>2. stream'[t].pc # "new" => stream[t].pc # "new"
  BY DEF Idle
<1>3. stream'[t].pc \in {"loop", "wait", "clear", "ended"}
         => stream[t].pc \in {"loop", "wait", "clear", "ended"}
  BY DEF Idle
<1> QED
  BY <1>1, <1>2, <1>3 DEF StreamInv, Idle

(* A stream's own step keeps its reading of a log.                         *)
LEMMA ReadStep ==
    ASSUME TypeOK, AllStreams, NEW s \in Streams,
           Snapshot(s) \/ Flush(s) \/ Leave(s) \/ Watcher(s)
    PROVE  AllStreams' /\ UNCHANGED << stage, held, jobEvents, logs >>
<1>1. UNCHANGED << stage, held, jobEvents, logs >>
  BY DEF Snapshot, Flush, Leave, Watcher, StreamOnly, producerVars
<1>2. /\ stream[s] \in StreamState /\ stream[s].log \in 0 .. Len(logs) /\ StreamInv(s)
      /\ stream \in [Streams -> StreamState] /\ logs \in Seq(Log) /\ Len(logs) \in Nat
  BY DEF TypeOK, AllStreams, LogIds
<1>3. \A t \in Streams : StreamInv(t)
  BY DEF AllStreams
<1>4. ASSUME NEW r \in StreamState, stream' = [stream EXCEPT ![s] = r], StreamInv(s)'
      PROVE  AllStreams'
  <2>1. \A t \in Streams : t # s => stream'[t] = stream[t]
    BY <1>2, <1>4
  <2>2. \A t \in Streams : t # s => Idle(t)
    BY <2>1 DEF Idle
  <2> QED
    BY <1>1, <1>3, <1>4, <2>2, IdleStream DEF AllStreams
<1>5. CASE Snapshot(s)
  <2> DEFINE e == logs[stream[s].log].events
             c == stream[s].cursor
             b == SubSeq(e, c + 1, Len(e))
             waiting == [stream[s] EXCEPT !.pc = "wait"]
             took(q) == [stream[s] EXCEPT !.batch = b, !.cursor = Len(e),
                           !.terminal = logs[stream[s].log].done, !.pc = q]
  <2>1. stream[s].pc = "loop" /\ stream[s].log # NoLog /\ stream[s].log \in Ids
    BY <1>2, <1>5 DEF Snapshot, StreamInv, NoLog, Ids
  <2>2. logs[stream[s].log] \in Log
    BY <1>2, <2>1 DEF Ids
  <2>3. e \in Seq(Events) /\ Len(e) \in Nat /\ c \in 0 .. Len(e)
    <3>1. c \in Nat /\ c =< Len(e)
      BY <1>2, <2>1 DEF StreamState, StreamInv
    <3> QED
      BY <2>2, <3>1 DEF Log
  <2>4. stream[s].seen = SubSeq(e, 1, c) /\ stream[s].seen \in Seq(Events)
    <3>1. stream[s].seen \o << >> = SubSeq(e, 1, c) /\ stream[s].seen \in Seq(Events)
      BY <1>2, <2>1 DEF StreamInv, StreamState
    <3> QED
      BY <3>1, ConcatEmptySeq
  <2>5. stream[s].seen \o b = SubSeq(e, 1, Len(e))
    BY <2>3, <2>4, SplitSeq
  <2>6. b \in Seq(Events)
    BY <2>3, SubSeqProperties
  <2>7. \/ stream' = [stream EXCEPT ![s] = waiting]
        \/ \E q \in {"left", "flush"} : stream' = [stream EXCEPT ![s] = took(q)]
    BY <1>5 DEF Snapshot
  <2>8. ASSUME stream' = [stream EXCEPT ![s] = waiting] PROVE AllStreams'
    <3>1. /\ waiting \in StreamState /\ waiting.pc = "wait"
          /\ waiting.job = stream[s].job /\ waiting.log = stream[s].log
          /\ waiting.cursor = stream[s].cursor /\ waiting.batch = stream[s].batch
          /\ waiting.terminal = stream[s].terminal /\ waiting.seen = stream[s].seen
      BY <1>2 DEF StreamState
    <3> HIDE DEF waiting
    <3>2. stream'[s] = waiting
      BY <1>2, <2>8
    <3>3. Idle(s)
      BY <2>1, <3>1, <3>2 DEF Idle
    <3> QED
      BY <1>1, <1>2, <1>4, <2>8, <3>1, <3>3, IdleStream
  <2>9. ASSUME NEW q \in {"left", "flush"}, stream' = [stream EXCEPT ![s] = took(q)]
        PROVE  AllStreams'
    <3>1. /\ took(q) \in StreamState /\ took(q).pc = q
          /\ took(q).job = stream[s].job /\ took(q).log = stream[s].log
          /\ took(q).cursor = Len(e) /\ took(q).batch = b
          /\ took(q).terminal = logs[stream[s].log].done /\ took(q).seen = stream[s].seen
      <4>1. logs[stream[s].log].done \in BOOLEAN
        BY <2>2 DEF Log
      <4> HIDE DEF b, e
      <4> QED
        BY <1>2, <2>3, <2>6, <4>1 DEF StreamState
    <3> HIDE DEF took
    <3>2. stream'[s] = took(q)
      BY <1>2, <2>9
    <3>3. \A k \in Own(stream[s].log) : k =< Len(e)
      BY <2>3 DEF Own
    <3>4. logs[stream[s].log].job = stream[s].job /\ stream[s].job \in Jobs
      BY <1>2, <2>1 DEF StreamInv
    <3>5. PICK id : id = stream[s].log
      OBVIOUS
    <3>6. /\ stream'[s].pc = q /\ stream'[s].log = id /\ stream'[s].job = stream[s].job
          /\ stream'[s].seen \o stream'[s].batch = SubSeq(e, 1, Len(e))
          /\ stream'[s].cursor = Len(e)
          /\ stream'[s].terminal <=> logs[id].done
      BY <2>5, <3>1, <3>2, <3>5
    <3>7. StreamInv(s)'
      <4>1. logs' = logs /\ Own(id)' = Own(id)
        BY <1>1 DEF Own
      <4> QED
        BY <2>1, <2>3, <3>3, <3>4, <3>5, <3>6, <4>1 DEF StreamInv
    <3> QED
      BY <1>4, <2>9, <3>1, <3>7
  <2> QED
    BY <1>1, <2>7, <2>8, <2>9
<1>6. CASE Flush(s)
  <2> DEFINE q == IF stream[s].terminal THEN "clear" ELSE "loop"
             flushed == [stream[s] EXCEPT !.seen = stream[s].seen \o stream[s].batch,
                                          !.batch = << >>, !.pc = q]
             left == [stream[s] EXCEPT !.pc = "left"]
  <2>1. /\ stream[s].pc = "flush" /\ stream[s].seen \in Seq(Events)
        /\ stream[s].batch \in Seq(Events)
        /\ stream[s].seen \o stream[s].batch \in Seq(Events)
    BY <1>2, <1>6 DEF Flush, StreamState
  <2>2. stream' = [stream EXCEPT ![s] = flushed] \/ stream' = [stream EXCEPT ![s] = left]
    <3>1. stream' = [stream EXCEPT ![s].pc = "left"] => stream' = [stream EXCEPT ![s] = left]
      OBVIOUS
    <3>2. stream' = [stream EXCEPT ![s] = flushed] \/ stream' = [stream EXCEPT ![s].pc = "left"]
      BY <1>6 DEF Flush
    <3> HIDE DEF flushed, left
    <3> QED
      BY <3>1, <3>2
  <2>3. ASSUME stream' = [stream EXCEPT ![s] = left] PROVE AllStreams'
    <3>1. /\ left \in StreamState /\ left.pc = "left"
          /\ left.job = stream[s].job /\ left.log = stream[s].log
          /\ left.cursor = stream[s].cursor /\ left.batch = stream[s].batch
          /\ left.terminal = stream[s].terminal /\ left.seen = stream[s].seen
      BY <1>2 DEF StreamState
    <3> HIDE DEF left
    <3>2. stream'[s] = left
      BY <1>2, <2>3
    <3>3. Idle(s)
      BY <2>1, <3>1, <3>2 DEF Idle
    <3> QED
      BY <1>1, <1>2, <1>4, <2>3, <3>1, <3>3, IdleStream
  <2>4. ASSUME stream' = [stream EXCEPT ![s] = flushed] PROVE AllStreams'
    <3>1. /\ flushed \in StreamState /\ flushed.pc = q
          /\ flushed.job = stream[s].job /\ flushed.log = stream[s].log
          /\ flushed.cursor = stream[s].cursor /\ flushed.batch = << >>
          /\ flushed.terminal = stream[s].terminal
          /\ flushed.seen = stream[s].seen \o stream[s].batch
      <4>1. q \in {"clear", "loop"} /\ << >> \in Seq(Events)
        OBVIOUS
      <4>2. PICK sent \in Seq(Events) : sent = stream[s].seen \o stream[s].batch
        BY <2>1
      <4>3. flushed = [stream[s] EXCEPT !.seen = sent, !.batch = << >>, !.pc = q]
        BY <4>2
      <4> HIDE DEF q, flushed
      <4>4. /\ flushed \in StreamState /\ flushed.pc = q
            /\ flushed.job = stream[s].job /\ flushed.log = stream[s].log
            /\ flushed.cursor = stream[s].cursor /\ flushed.batch = << >>
            /\ flushed.terminal = stream[s].terminal /\ flushed.seen = sent
        BY <1>2, <4>1, <4>3 DEF StreamState
      <4> QED
        BY <4>2, <4>4
    <3>2. stream'[s] = flushed
      <4> HIDE DEF flushed
      <4> QED
        BY <1>2, <2>4
    <3>3. flushed.seen \o flushed.batch = stream[s].seen \o stream[s].batch
      <4>1. (stream[s].seen \o stream[s].batch) \o << >> = stream[s].seen \o stream[s].batch
        BY <2>1, ConcatEmptySeq
      <4> HIDE DEF flushed
      <4> QED
        BY <3>1, <4>1
    <3>4. PICK id : id = stream[s].log
      OBVIOUS
    <3>5. q = "clear" => stream[s].terminal
      OBVIOUS
    <3> HIDE DEF flushed
    <3>6. StreamInv(s)'
      <4>1. logs' = logs /\ Own(id)' = Own(id)
        BY <1>1 DEF Own
      <4>2. q \in {"clear", "loop"}
        OBVIOUS
      <4> HIDE DEF q
      <4> QED
        BY <1>2, <2>1, <3>1, <3>2, <3>3, <3>4, <3>5, <4>1, <4>2 DEF StreamInv
    <3> QED
      BY <1>4, <2>4, <3>1, <3>6
  <2> QED
    BY <1>1, <2>2, <2>3, <2>4
<1>7. CASE Leave(s) \/ Watcher(s)
  <2>1. ASSUME NEW t \in Streams PROVE Idle(t)
    <3>1. CASE Leave(s)
      BY <1>2, <3>1 DEF Leave, StreamState, Idle
    <3>2. CASE Watcher(s)
      <4>1. stream'[t] = [stream[t] EXCEPT !.watched = stream[t].watched \/ t = s,
                  !.pc = IF stream[t].pc = "wait" /\ stream[t].log = stream[s].log
                         THEN "loop" ELSE stream[t].pc]
        BY <3>2 DEF Watcher
      <4>2. stream[t] \in StreamState
        BY <1>2
      <4>3. /\ stream'[t].job = stream[t].job /\ stream'[t].log = stream[t].log
            /\ stream'[t].cursor = stream[t].cursor /\ stream'[t].batch = stream[t].batch
            /\ stream'[t].terminal = stream[t].terminal /\ stream'[t].seen = stream[t].seen
        BY <4>1, <4>2 DEF StreamState
      <4>4. stream'[t].pc = stream[t].pc \/ (stream[t].pc = "wait" /\ stream'[t].pc = "loop")
        BY <4>1, <4>2 DEF StreamState
      <4> QED
        BY <4>3, <4>4 DEF Idle
    <3> QED
      BY <1>7, <3>1, <3>2
  <2> QED
    BY <1>1, <1>3, <2>1, IdleStream DEF AllStreams
<1> QED
  BY <1>1, <1>5, <1>6, <1>7

Known == AllMaps /\ AllLogs /\ OneMain /\ AllStreams

(* Every step keeps what is said of maps, logs and streams.                *)
LEMMA KnownStep == IInv /\ TypeOK' /\ [Next]_vars => Known'
<1> SUFFICES ASSUME IInv, TypeOK', [Next]_vars PROVE Known'
  OBVIOUS
<1>a. TypeOK /\ AllMaps /\ AllHands /\ AllLogs /\ OneMain /\ AllStreams
  BY DEF IInv
<1>1. ASSUME NEW j \in Jobs, CalmStep(j) PROVE Known'
  BY <1>1, <1>a, CalmSteps, CalmKeeps DEF Known
<1>2. ASSUME NEW j \in Jobs, Announce(j) PROVE Known'
  <2>1. Got(j) /\ UNCHANGED << stage, stream >>
    BY <1>2, <1>a, GetLog DEF Announce
  <2>2. AllMaps'
    <3>1. TheLog(j) # NoLog /\ held'[j] = TheLog(j)
      BY <1>2, <1>a, <2>1 DEF Announce, TypeOK, Got, TheLog, NoLog, LogIds
    <3>2. ~Unheard(j)'
      BY <1>2, <2>1, <3>1 DEF Announce, Unheard, Announcing, Terminal
    <3>3. Unheard(j) => stage[j] = "queued"
      BY <1>2 DEF Announce, Unheard, Announcing, Terminal
    <3>4. \A k \in Jobs : k # j => held'[k] = held[k]
      BY <1>2, <1>a DEF Announce, TypeOK
    <3> QED
      BY <1>a, <2>1, <3>2, <3>3, <3>4, GotMaps
  <2>3. AllLogs' /\ OneMain'
    BY <1>a, <2>1, GotLogs
  <2>4. AllStreams'
    BY <1>a, <2>1, GotStream DEF AllStreams
  <2> QED
    BY <2>2, <2>3, <2>4 DEF Known
<1>3. ASSUME NEW j \in Jobs, AppendOwn(j) PROVE Known'
  <2>1. /\ held[j] \in Ids /\ stage[j] \in Announcing /\ Woken
        /\ Logged(held[j], OwnEvent(stage[j], file[j]), stage[j] \in Terminal)
    BY <1>3, <1>a, Appends
  <2>2. /\ stage' = [stage EXCEPT ![j] = After(stage[j])]
        /\ held' = [held EXCEPT ![j] = NoLog] /\ UNCHANGED jobEvents
    BY <1>3 DEF AppendOwn, Goto
  <2>3. PICK log \in Ids : held[j] = log
    BY <2>1
  <2>4. AllMaps' /\ AllLogs' /\ OneMain'
    BY <1>a, <2>1, <2>2, <2>3, OwnLogs
  <2>5. ~logs[log].done
    <3>1. held[j] # NoLog /\ stage[j] \notin Past
      BY <2>1 DEF Ids, NoLog, Announcing, Terminal, Past
    <3>2. logs[log].job = j
      BY <1>a, <2>3, <3>1 DEF AllHands, HandsInv, AllMaps, MapInv
    <3> QED
      BY <1>a, <2>3, <3>1, <3>2 DEF AllLogs, LogInv
  <2>6. OwnEvent(stage[j], file[j]) \in Events /\ (stage[j] \in Terminal) \in BOOLEAN
    BY <1>a, <2>1, EventTypes
  <2>7. AllStreams'
    BY <1>a, <2>1, <2>3, <2>5, <2>6, LoggedStreams
  <2> QED
    BY <2>4, <2>7 DEF Known
<1>4. ASSUME NEW j \in Jobs, RelayLookup(j) PROVE Known'
  <2>1. Got(j) /\ UNCHANGED << stage, stream, held >>
    BY <1>4, <1>a, GetLog DEF RelayLookup, producerVars
  <2>2. ~Unheard(j) /\ ~Unheard(j)'
    BY <1>4, <1>a, <2>1 DEF RelayLookup, Unheard, AllHands, HandsInv, Before
  <2>3. AllMaps'
    BY <1>a, <2>1, <2>2, GotMaps
  <2>4. AllLogs' /\ OneMain'
    BY <1>a, <2>1, GotLogs
  <2>5. AllStreams'
    BY <1>a, <2>1, GotStream DEF AllStreams
  <2> QED
    BY <2>3, <2>4, <2>5 DEF Known
<1>5. ASSUME NEW j \in Jobs, RelayAppend(j) PROVE Known'
  <2>1. PICK log \in Ids, n \in Nat :
           /\ log = relayLog[j] /\ n = relayEvt[j] /\ Woken
           /\ Logged(log, PipeEvent(n), FALSE)
    BY <1>5, <1>a, Appends
  <2>2. UNCHANGED << stage, held, jobEvents >>
    BY <1>5 DEF RelayAppend, producerVars
  <2>3. AllLogs' /\ OneMain' /\ \A id \in Ids : IsMain(id)' <=> IsMain(id)
    BY <1>a, <2>1, <2>2, RelayLogs
  <2>4. logs[log].job = j /\ stage[j] \notin Before
    BY <1>5, <1>a, <2>1 DEF RelayAppend, AllHands, HandsInv, NoLog, Ids
  <2>5. ASSUME NEW k \in Jobs PROVE MapInv(k)'
    <3>1. MapInv(k) /\ (Unheard(k)' <=> Unheard(k))
      BY <1>a, <2>2 DEF AllMaps, Unheard
    <3>2. Ids' = Ids /\ \A id \in Ids : logs'[id].job = logs[id].job
      BY <2>1 DEF Logged, Ids
    <3>3. jobEvents[k] # NoLog => jobEvents[k] \in Ids
      <4>1. jobEvents[k] \in 0 .. Len(logs) /\ Len(logs) \in Nat
        BY <1>a DEF TypeOK, LogIds
      <4> QED
        BY <4>1 DEF Ids, NoLog
    <3>4. IsMain(jobEvents[k])' <=> IsMain(jobEvents[k])
      <4>1. PICK id : id = jobEvents[k]
        OBVIOUS
      <4>2. id = NoLog \/ id \in Ids
        BY <3>3, <4>1
      <4>3. IsMain(id)' <=> IsMain(id)
        BY <2>3, <4>2 DEF IsMain
      <4> QED
        BY <2>2, <4>1, <4>3 DEF IsMain
    <3>5. stage[k] = "queued" /\ jobEvents[k] # NoLog =>
             logs'[jobEvents[k]].events = logs[jobEvents[k]].events
      <4>1. ASSUME stage[k] = "queued", jobEvents[k] # NoLog PROVE jobEvents[k] # log
        BY <2>4, <3>1, <4>1 DEF MapInv, Before
      <4> QED
        BY <2>1, <3>3, <4>1 DEF Logged
    <3> QED
      BY <2>2, <3>1, <3>2, <3>3, <3>4, <3>5 DEF MapInv
  <2>6. PipeEvent(n) \in Events /\ PipeEvent(n).from # "job"
    BY DEF PipeEvent, Events
  <2>7. AllStreams'
    BY <1>a, <2>1, <2>6, LoggedStreams
  <2> QED
    BY <2>3, <2>5, <2>7 DEF Known, AllMaps
<1>6. ASSUME NEW s \in Streams, Snapshot(s) \/ Flush(s) \/ Leave(s) \/ Watcher(s)
      PROVE  Known'
  <2>1. AllStreams' /\ UNCHANGED << stage, held, jobEvents, logs >>
    BY <1>6, <1>a, ReadStep
  <2> QED
    BY <1>a, <2>1 DEF Known, AllMaps, MapInv, AllLogs, LogInv, OneMain, Unheard, Ids, Own, IsMain
<1>7. ASSUME NEW s \in Streams, Clear(s) PROVE Known'
  <2>1. UNCHANGED << stage, held, logs >> /\ stream[s].pc = "clear"
    BY <1>7 DEF Clear, StreamOnly, producerVars
  <2>2. stream[s].job \in Jobs /\ stage[stream[s].job] \in Past
    <3>1. StreamInv(s) /\ stream[s].log \in LogIds
      BY <1>a DEF AllStreams, TypeOK
    <3>2. /\ stream[s].log \in Ids /\ logs[stream[s].log].done
          /\ logs[stream[s].log].job = stream[s].job /\ stream[s].job \in Jobs
      BY <2>1, <3>1 DEF StreamInv, LogIds, Ids, NoLog
    <3> QED
      BY <1>a, <3>2 DEF AllLogs, LogInv
  <2>3. ASSUME NEW k \in Jobs PROVE MapInv(k)'
    <3>1. MapInv(k)
      BY <1>a DEF AllMaps
    <3>2. CASE k = stream[s].job
      <4>1. jobEvents'[k] = NoLog /\ ~Unheard(k)' /\ stage'[k] \in Past
        BY <1>7, <1>a, <2>1, <2>2, <3>2 DEF Clear, TypeOK, Unheard, Past
      <4> QED
        BY <4>1 DEF MapInv
    <3>3. CASE k # stream[s].job
      <4>1. jobEvents'[k] = jobEvents[k]
        BY <1>7, <1>a, <3>3 DEF Clear, TypeOK
      <4> QED
        BY <2>1, <3>1, <4>1 DEF MapInv, Unheard, Ids, IsMain
    <3> QED
      BY <3>2, <3>3
  <2>4. AllStreams'
    <3>1. stream' = [stream EXCEPT ![s] = [stream[s] EXCEPT !.pc = "ended"]]
      BY <1>7, <1>a DEF Clear, TypeOK
    <3>2. stream \in [Streams -> StreamState] /\ \A t \in Streams : StreamInv(t)
      BY <1>a DEF TypeOK, AllStreams
    <3>3. ASSUME NEW t \in Streams PROVE Idle(t)
      <4>1. CASE t = s
        BY <2>1, <3>1, <3>2, <4>1 DEF Idle, StreamState
      <4>2. CASE t # s
        BY <3>1, <3>2, <4>2 DEF Idle
      <4> QED
        BY <4>1, <4>2
    <3> QED
      BY <2>1, <3>2, <3>3, IdleStream DEF AllStreams
  <2>5. AllLogs' /\ OneMain'
    BY <1>a, <2>1, SameLogs
  <2> QED
    BY <2>3, <2>4, <2>5 DEF Known, AllMaps
<1>8. ASSUME NEW s \in Streams, NEW j \in Jobs, Connect(s, j) PROVE Known'
  <2>1. Got(j) /\ UNCHANGED << stage, held >>
    BY <1>8, <1>a, GetLog DEF Connect, StreamOnly, producerVars
  <2>2. ~Unheard(j) /\ ~Unheard(j)'
    BY <1>8, <2>1 DEF Connect, Accepted, Unheard
  <2>3. AllMaps' /\ logs'[TheLog(j)].job = j
    BY <1>a, <2>1, <2>2, GotMaps
  <2>4. AllLogs' /\ OneMain'
    BY <1>a, <2>1, GotLogs
  <2>5. StreamInv(s)'
    <3>1. /\ stream'[s].pc = "loop" /\ stream'[s].job = j /\ stream'[s].log = TheLog(j)
          /\ stream'[s].cursor = 0 /\ stream'[s].seen = << >> /\ stream'[s].batch = << >>
          /\ ~stream'[s].terminal
      BY <1>8, <1>a DEF Connect, TypeOK, NewStream
    <3>2. TheLog(j) # NoLog /\ logs'[TheLog(j)].events \in Seq(Events)
      <4>1. TheLog(j) \in 1 .. Len(logs') /\ logs' \in Seq(Log)
        BY <2>1 DEF Got
      <4>2. logs'[TheLog(j)] \in Log
        BY <4>1
      <4> QED
        BY <4>1, <4>2 DEF Log, NoLog
    <3>3. << >> \o << >> = SubSeq(logs'[TheLog(j)].events, 1, 0)
      BY <3>2
    <3>4. 0 =< Len(logs'[TheLog(j)].events)
      BY <3>2
    <3>5. PICK id : id = TheLog(j)
      OBVIOUS
    <3> QED
      BY <2>3, <3>1, <3>2, <3>3, <3>4, <3>5 DEF StreamInv
  <2>6. ASSUME NEW t \in Streams, t # s PROVE StreamInv(t)'
    <3>1. stream'[t] = stream[t]
      BY <1>8, <1>a, <2>6 DEF Connect, TypeOK
    <3> QED
      BY <1>a, <2>1, <3>1, GotStream DEF AllStreams
  <2> QED
    BY <2>3, <2>4, <2>5, <2>6 DEF Known, AllStreams
<1>9. CASE UNCHANGED vars
  <2>1. UNCHANGED << stage, held, jobEvents, logs >> /\ stream' = stream
    BY <1>9 DEF vars
  <2>2. AllLogs' /\ OneMain'
    BY <1>a, <2>1, SameLogs
  <2>3. AllMaps'
    BY <1>a, <2>1 DEF AllMaps, MapInv, Unheard, Ids, IsMain
  <2>4. \A t \in Streams : Idle(t)
    BY <2>1 DEF Idle
  <2>5. AllStreams'
    BY <1>a, <2>1, <2>4, IdleStream DEF AllStreams
  <2> QED
    BY <2>2, <2>3, <2>5 DEF Known
<1> QED
  BY <1>1, <1>2, <1>3, <1>4, <1>5, <1>6, <1>7, <1>8, <1>9
     DEF Next, Job, Relay, Stream, CalmStep

(* At the start there is no log and no stream.                             *)
LEMMA InitIInv == Init => IInv
<1> SUFFICES ASSUME Init PROVE IInv
  OBVIOUS
<1>1. TypeOK
  <2>1. NumFiles \in Nat /\ MaxEmits \in Nat /\ 1 \in 1 .. NumFiles + 1
    BY BoundsAssumption
  <2>2. Len(logs) = 0 /\ logs \in Seq(Log)
    BY DEF Init
  <2>3. NewStream \in StreamState
    BY DEF NewStream, StreamState, NoLog
  <2>4. stream \in [Streams -> StreamState] /\ \A s \in Streams : stream[s].log = 0
    BY <2>3 DEF Init, NewStream, NoLog
  <2> QED
    BY <2>1, <2>2, <2>4 DEF Init, TypeOK, Stages, Announcing, LogIds, NoLog
<1>2. Ids = {}
  BY DEF Init, Ids
<1>3. AllMaps
  BY <1>2 DEF Init, AllMaps, MapInv, Unheard
<1>4. AllHands
  <2>1. NumFiles >= 1
    BY BoundsAssumption
  <2> QED
    BY <2>1 DEF Init, AllHands, HandsInv, Before, NoLog
<1>5. AllLogs /\ OneMain
  BY <1>2 DEF AllLogs, OneMain
<1>6. AllStreams
  BY DEF Init, AllStreams, StreamInv, NewStream
<1> QED
  BY <1>1, <1>3, <1>4, <1>5, <1>6 DEF IInv

-----------------------------------------------------------------------------
(* The theorems. *)

(* The invariant, for any number of jobs, streams and files: what the map, *)
(* the producer, the relay, the logs and the streams hold fits together.   *)
THEOREM InductiveInvariant == Spec => []IInv
<1>1. Init => IInv
  BY InitIInv
<1>2. IInv /\ [Next]_vars => IInv'
  <2> SUFFICES ASSUME IInv, [Next]_vars PROVE IInv'
    OBVIOUS
  <2>1. TypeOK'
    BY TypeOKStep DEF IInv
  <2>2. AllHands'
    BY HandsStep DEF IInv
  <2>3. Known'
    BY <2>1, KnownStep
  <2> QED
    BY <2>1, <2>2, <2>3 DEF IInv, Known
<1> QED
  BY <1>1, <1>2, PTL DEF Spec

(* Every variable of the upload's progress keeps its type: no goroutine    *)
(* holds a log that was never allocated.                                   *)
THEOREM UploadTypeCorrect == Spec => []TypeOK
<1>1. IInv => TypeOK
  BY DEF IInv
<1> QED
  BY <1>1, InductiveInvariant, PTL

(* Whenever the relay and the streams look logs up, allocate and drop      *)
(* them, the producer's events are in one log, the terminal one last.      *)
THEOREM OwnEventsStayTogether == Spec => []OwnEventsInOneLog
<1>1. IInv => OwnEventsInOneLog
  BY DEF IInv, AllLogs, LogInv, OneMain, OwnEventsInOneLog, Ids
<1> QED
  BY <1>1, InductiveInvariant, PTL

(* A stream has been sent, or has in hand, what its log holds up to its    *)
(* cursor: the loop of uploadProgress loses and repeats no event.          *)
THEOREM StreamsSkipNothing == Spec => []NothingSkipped
<1>1. IInv => NothingSkipped
  BY DEF IInv, AllStreams, StreamInv, NothingSkipped
<1> QED
  BY <1>1, InductiveInvariant, PTL

(* A stream that ran to its end was sent the whole history of the job, and *)
(* was not attached to a log allocated after the job's own.                *)
THEOREM EndedStreamsSawAll == Spec => []EndedStreamSawTheJob
<1>1. IInv => EndedStreamSawTheJob
  <2> SUFFICES ASSUME IInv, NEW s \in Streams, stream[s].pc \in {"clear", "ended"}
               PROVE  LET id == stream[s].log
                          sent == Len(stream[s].seen)
                      IN  /\ stream[s].seen = SubSeq(logs[id].events, 1, sent)
                          /\ \A k \in Own(id) : k =< sent
                          /\ IsMain(id) /\ logs[id].done
    BY DEF EndedStreamSawTheJob
  <2>1. PICK id : id = stream[s].log
    OBVIOUS
  <2>2. /\ id # NoLog /\ stream[s].cursor =< Len(logs[id].events)
        /\ stream[s].seen \o << >> = SubSeq(logs[id].events, 1, stream[s].cursor)
        /\ logs[id].done /\ \A k \in Own(id) : k =< stream[s].cursor
    BY <2>1 DEF IInv, AllStreams, StreamInv
  <2>3. id \in Ids /\ logs[id].events \in Seq(Events) /\ stream[s].cursor \in Nat
        /\ stream[s].seen \in Seq(Events)
    <3>1. /\ logs \in Seq(Log) /\ id \in 0 .. Len(logs) /\ Len(logs) \in Nat
          /\ stream[s] \in StreamState
      BY <2>1 DEF IInv, TypeOK, LogIds
    <3>2. id \in Ids
      BY <2>2, <3>1 DEF NoLog, Ids
    <3>3. logs[id] \in Log
      BY <3>1, <3>2 DEF Ids
    <3> QED
      BY <3>1, <3>2, <3>3 DEF Log, StreamState
  <2>4. stream[s].seen = SubSeq(logs[id].events, 1, stream[s].cursor)
    BY <2>2, <2>3
  <2>5. Len(stream[s].seen) = stream[s].cursor
    BY <2>2, <2>3, <2>4
  <2>6. IsMain(id)
    BY <2>2, <2>3 DEF IInv, AllLogs, LogInv
  <2> QED
    BY <2>1, <2>2, <2>4, <2>5, <2>6
<1> QED
  BY <1>1, InductiveInvariant, PTL

(* Once the job has joined its relay and returned, no log of it changes.   *)
THEOREM NothingWrittenAfterReturn == Spec => NoWriteAfterReturn
<1> DEFINE Kept == \A id \in 1 .. Len(logs) :
                      stage[logs[id].job] = "returned" => logs'[id].events = logs[id].events
<1>1. ASSUME IInv, Next PROVE Kept
  <2>a. TypeOK /\ AllMaps /\ AllHands /\ AllStreams
    BY <1>1 DEF IInv
  <2>1. ASSUME NEW j \in Jobs, CalmStep(j) PROVE Kept
    BY <2>a, <2>1, CalmSteps DEF Calm
  <2>2. ASSUME NEW j \in Jobs, Announce(j) \/ RelayLookup(j) PROVE Kept
    <3>1. GetOrCreate(j)
      BY <2>2 DEF Announce, RelayLookup
    <3> QED
      BY <2>a, <3>1, GetLog DEF Got, Ids
  <2>3. ASSUME NEW j \in Jobs, AppendOwn(j) PROVE Kept
    <3>1. /\ held[j] \in Ids /\ stage[j] \in Announcing
          /\ Logged(held[j], OwnEvent(stage[j], file[j]), stage[j] \in Terminal)
      BY <2>a, <2>3, Appends
    <3>2. logs[held[j]].job = j /\ stage[j] # "returned"
      BY <2>a, <3>1 DEF AllHands, HandsInv, AllMaps, MapInv, Ids, NoLog, Announcing, Terminal
    <3> QED
      BY <3>1, <3>2 DEF Logged, Ids
  <2>4. ASSUME NEW j \in Jobs, RelayAppend(j) PROVE Kept
    <3>1. relayLog[j] \in Ids /\ Logged(relayLog[j], PipeEvent(relayEvt[j]), FALSE)
      BY <2>a, <2>4, Appends
    <3>2. logs[relayLog[j]].job = j /\ stage[j] # "returned"
      BY <2>a, <2>4, <3>1 DEF RelayAppend, AllHands, HandsInv, Ids, NoLog
    <3> QED
      BY <3>1, <3>2 DEF Logged, Ids
  <2>5. ASSUME NEW s \in Streams, Stream(s) \/ Leave(s) \/ Watcher(s) PROVE Kept
    BY <2>5 DEF Stream, Snapshot, Flush, Clear, Leave, Watcher
  <2>6. ASSUME NEW s \in Streams, NEW j \in Jobs, Connect(s, j) PROVE Kept
    BY <2>a, <2>6, GetLog DEF Connect, Got, Ids
  <2> HIDE DEF Kept
  <2> QED
    BY <1>1, <2>1, <2>2, <2>3, <2>4, <2>5, <2>6 DEF Next, Job, Relay, CalmStep
<1>2. IInv /\ [Next]_vars => [Kept]_vars
  BY <1>1
<1> QED
  BY <1>2, InductiveInvariant, PTL DEF Spec, NoWriteAfterReturn

-----------------------------------------------------------------------------
(* The logs as feeds. *)

(* The relay has an event of the pipeline in hand when it is to append it. *)
InHand(j) == relay[j] \in {"received", "append"} => relayEvt[j] \in 1 .. MaxEmits
AllInHand == \A j \in Jobs : InHand(j)

(* An event that the relay receives is one that the pipeline sent.         *)
LEMMA InHandStep == TypeOK /\ AllInHand /\ [Next]_vars => AllInHand'
<1> SUFFICES ASSUME TypeOK, AllInHand, [Next]_vars PROVE AllInHand'
  OBVIOUS
<1>1. /\ relay \in [Jobs -> {"off", "select", "received", "append", "exited"}]
      /\ relayEvt \in [Jobs -> 0 .. MaxEmits] /\ chan \in [Jobs -> Seq(1 .. MaxEmits)]
  BY DEF TypeOK
<1>2. CASE UNCHANGED << relay, relayEvt >>
  BY <1>2 DEF AllInHand, InHand
<1>3. ASSUME NEW j \in Jobs, Submit(j) \/ RelayExit(j) PROVE AllInHand'
  BY <1>1, <1>3 DEF Submit, RelayExit, AllInHand, InHand
<1>4. ASSUME NEW j \in Jobs, RelayReceive(j) PROVE AllInHand'
  <2>1. chan[j] \in Seq(1 .. MaxEmits) /\ chan[j] # << >>
    BY <1>1, <1>4 DEF RelayReceive
  <2>2. \A q \in Seq(1 .. MaxEmits) : q # << >> => Head(q) \in 1 .. MaxEmits
    BY HeadTailProperties
  <2>3. Head(chan[j]) \in 1 .. MaxEmits
    BY <2>1, <2>2
  <2> QED
    BY <1>1, <1>4, <2>3 DEF RelayReceive, AllInHand, InHand
<1>5. ASSUME NEW j \in Jobs, RelayLookup(j) PROVE AllInHand'
  BY <1>1, <1>5 DEF RelayLookup, AllInHand, InHand
<1>6. ASSUME NEW j \in Jobs, RelayAppend(j) PROVE AllInHand'
  BY <1>1, <1>6 DEF RelayAppend, AllInHand, InHand
<1>7. ASSUME NEW j \in Jobs,
             \/ Request(j) \/ Announce(j) \/ AppendOwn(j) \/ NextFile(j) \/ IndexPathReturns(j)
             \/ FinalizeReturns(j) \/ StopRelay(j) \/ JoinRelay(j) \/ Emit(j) \/ JobPanics(j)
      PROVE  UNCHANGED << relay, relayEvt >>
  BY <1>7 DEF Request, Announce, AppendOwn, NextFile, IndexPathReturns, FinalizeReturns,
              StopRelay, JoinRelay, Emit, JobPanics, relayVars
<1>8. ASSUME NEW s \in Streams, NEW j \in Jobs, Connect(s, j)
      PROVE  UNCHANGED << relay, relayEvt >>
  BY <1>8 DEF Connect, StreamOnly, relayVars
<1>9. ASSUME NEW s \in Streams, Stream(s) \/ Leave(s) \/ Watcher(s)
      PROVE  UNCHANGED << relay, relayEvt >>
  BY <1>9 DEF Stream, Snapshot, Flush, Clear, Leave, Watcher, StreamOnly, relayVars
<1>10. CASE UNCHANGED vars
  BY <1>10 DEF vars, AllInHand, InHand
<1> QED
  BY <1>2, <1>3, <1>4, <1>5, <1>6, <1>7, <1>8, <1>9, <1>10 DEF Next, Job, Relay

FedState == [s \in Streams |-> SubState(stream[s].pc)]
FedOn == [s \in Streams |-> stream[s].log]
FedGot == [s \in Streams |-> stream[s].seen]

(* To its feed a stream is its state, its log and what it was sent.        *)
LEMMA SameSubs ==
    ASSUME \A t \in Streams : /\ SubState(stream'[t].pc) = SubState(stream[t].pc)
                              /\ stream'[t].log = stream[t].log
                              /\ stream'[t].seen = stream[t].seen
    PROVE  UNCHANGED << FedState, FedOn, FedGot >>
BY DEF FedState, FedOn, FedGot

(* Waking a stream, or putting it to sleep, changes nothing for its feed.  *)
LEMMA WokenSubs ==
    ASSUME Woken
    PROVE  UNCHANGED << FedState, FedOn, FedGot >>
<1>1. SubState("wait") = "on" /\ SubState("loop") = "on"
  BY DEF SubState
<1>2. ASSUME NEW t \in Streams
      PROVE  /\ SubState(stream'[t].pc) = SubState(stream[t].pc)
             /\ stream'[t].log = stream[t].log /\ stream'[t].seen = stream[t].seen
  BY <1>1, <1>2 DEF Woken
<1> QED
  BY <1>2, SameSubs

(* A stream that alone moves changes its own place in the feeds only.      *)
LEMMA OneSub ==
    ASSUME NEW s \in Streams, NEW state, NEW log, NEW seen,
           SubState(stream'[s].pc) = state, stream'[s].log = log, stream'[s].seen = seen,
           \A t \in Streams : t # s => stream'[t] = stream[t]
    PROVE  /\ FedState' = [FedState EXCEPT ![s] = state]
           /\ FedOn' = [FedOn EXCEPT ![s] = log]
           /\ FedGot' = [FedGot EXCEPT ![s] = seen]
BY DEF FedState, FedOn, FedGot

(* Looking a log up opens a feed, or finds it.                             *)
LEMMA LookupRefines ==
    ASSUME NEW j \in Jobs, GetOrCreate(j), stream' = stream
    PROVE  Feed!Open \/ UNCHANGED Feed!fvars
<1>1. UNCHANGED << FedState, FedOn, FedGot >>
  BY SameSubs
<1>2. logs' = logs \/ logs' = Append(logs, Feed!NewFeed(j))
  BY DEF GetOrCreate, Feed!NewFeed
<1> QED
  BY <1>1, <1>2 DEF Feed!Open, Feed!fvars, FedState, FedOn, FedGot

(* An append publishes; after the final event the job itself is silent.    *)
LEMMA AppendRefines ==
    ASSUME TypeOK, NEW log \in Ids, NEW evt \in OwnEvents \cup {PipeEvent(n) : n \in 1 .. MaxEmits},
           NEW d \in BOOLEAN, d <=> evt \in FinalEvents,
           evt \in OwnEvents => ~logs[log].done, AppendTo(log, evt, d),
           Logged(log, evt, d), Woken
    PROVE  Feed!Publish(log)
<1>1. UNCHANGED << FedState, FedOn, FedGot >>
  BY WokenSubs
<1>2. logs' = [logs EXCEPT ![log].events = Append(@, evt), ![log].done = @ \/ evt \in FinalEvents]
  <2>1. d = (evt \in FinalEvents)
    OBVIOUS
  <2> QED
    BY <2>1 DEF AppendTo
<1>3. logs'[log] # logs[log]
  <2>1. Len(logs'[log].events) = Len(logs[log].events) + 1
    BY DEF Logged
  <2>2. Len(logs[log].events) \in Nat
    <3>1. logs[log] \in Log
      BY DEF TypeOK, Ids
    <3> QED
      BY <3>1 DEF Log
  <2> QED
    BY <2>1, <2>2
<1> QED
  BY <1>1, <1>2, <1>3 DEF Feed!Publish, FedState, FedOn, FedGot

(* A stream that takes a batch still has it to send; one whose client is   *)
(* gone unsubscribes.                                                      *)
LEMMA SnapshotRefines ==
    ASSUME IInv, NEW s \in Streams, Snapshot(s)
    PROVE  Feed!FeedNext \/ UNCHANGED Feed!fvars
<1>1. stream[s] \in StreamState /\ stream \in [Streams -> StreamState]
  BY DEF IInv, TypeOK
<1>2. logs' = logs /\ stream[s].pc = "loop"
  BY DEF Snapshot
<1>3. /\ \A t \in Streams : t # s => stream'[t] = stream[t]
      /\ stream'[s].pc \in {"wait", "left", "flush"}
      /\ stream'[s].log = stream[s].log /\ stream'[s].seen = stream[s].seen
  BY <1>1 DEF Snapshot, StreamState
<1>4. SubState("wait") = "on" /\ SubState("loop") = "on" /\ SubState("flush") = "on"
      /\ SubState("left") = "left"
  BY DEF SubState
<1>5. CASE stream'[s].pc \in {"wait", "flush"}
  <2>1. UNCHANGED << FedState, FedOn, FedGot >>
    BY <1>2, <1>3, <1>4, <1>5, SameSubs
  <2> QED
    BY <1>2, <2>1 DEF Feed!fvars, FedState, FedOn, FedGot
<1>6. CASE stream'[s].pc = "left"
  <2>1. /\ FedState' = [FedState EXCEPT ![s] = "left"]
        /\ FedOn' = [FedOn EXCEPT ![s] = stream[s].log]
        /\ FedGot' = [FedGot EXCEPT ![s] = stream[s].seen]
    BY <1>3, <1>4, <1>6, OneSub
  <2>2. FedOn' = FedOn /\ FedGot' = FedGot /\ FedState[s] = "on"
    BY <1>2, <1>4, <2>1 DEF FedOn, FedGot, FedState
  <2>3. Feed!Unsubscribe(s)
    BY <1>2, <2>1, <2>2 DEF Feed!Unsubscribe, FedState, FedOn, FedGot
  <2> QED
    BY <2>3 DEF Feed!FeedNext
<1> QED
  BY <1>3, <1>5, <1>6

(* Sending a batch delivers the feed up to the cursor, and after a final   *)
(* event the whole of it.                                                  *)
LEMMA FlushRefines ==
    ASSUME IInv, NEW s \in Streams, Flush(s)
    PROVE  Feed!FeedNext \/ UNCHANGED Feed!fvars
<1>1. /\ stream[s] \in StreamState /\ stream \in [Streams -> StreamState]
      /\ StreamInv(s) /\ logs \in Seq(Log) /\ Len(logs) \in Nat /\ stream[s].log \in 0 .. Len(logs)
  BY DEF IInv, TypeOK, AllStreams, LogIds
<1>2. logs' = logs /\ stream[s].pc = "flush"
  BY DEF Flush
<1>3. PICK id : id = stream[s].log
  OBVIOUS
<1>4. PICK sent : sent = stream[s].seen \o stream[s].batch
  OBVIOUS
<1>5. /\ \A t \in Streams : t # s => stream'[t] = stream[t]
      /\ stream'[s].log = id
      /\ \/ stream'[s].pc = "left" /\ stream'[s].seen = stream[s].seen
         \/ /\ stream'[s].seen = sent
            /\ stream'[s].pc = IF stream[s].terminal THEN "clear" ELSE "loop"
  <2>1. CASE stream' = [stream EXCEPT ![s].pc = "left"]
    BY <1>1, <1>3, <2>1 DEF StreamState
  <2>2. CASE stream' = [stream EXCEPT ![s] =
             [@ EXCEPT !.seen = stream[s].seen \o stream[s].batch, !.batch = <<>>,
                       !.pc = IF stream[s].terminal THEN "clear" ELSE "loop"]]
    BY <1>1, <1>3, <1>4, <2>2 DEF StreamState
  <2> QED
    BY <2>1, <2>2 DEF Flush
<1>6. SubState("flush") = "on" /\ SubState("loop") = "on" /\ SubState("clear") = "ended"
      /\ SubState("left") = "left"
  BY DEF SubState
<1>7. FedState[s] = "on" /\ FedOn[s] = id /\ FedGot[s] = stream[s].seen
  BY <1>2, <1>3, <1>6 DEF FedState, FedOn, FedGot
<1>8. CASE stream'[s].pc = "left" /\ stream'[s].seen = stream[s].seen
  <2>1. /\ FedState' = [FedState EXCEPT ![s] = "left"]
        /\ FedOn' = [FedOn EXCEPT ![s] = id]
        /\ FedGot' = [FedGot EXCEPT ![s] = stream[s].seen]
    BY <1>5, <1>6, <1>8, OneSub
  <2>2. FedOn' = FedOn /\ FedGot' = FedGot
    BY <1>7, <2>1 DEF FedOn, FedGot
  <2>3. Feed!Unsubscribe(s)
    BY <1>2, <1>7, <2>1, <2>2 DEF Feed!Unsubscribe, FedState, FedOn, FedGot
  <2> QED
    BY <2>3 DEF Feed!FeedNext
<1>9. CASE /\ stream'[s].seen = sent
           /\ stream'[s].pc = IF stream[s].terminal THEN "clear" ELSE "loop"
  <2> DEFINE state == IF stream[s].terminal THEN "ended" ELSE "on"
  <2>1. SubState(stream'[s].pc) = state
    BY <1>6, <1>9
  <2>2. /\ FedState' = [FedState EXCEPT ![s] = state]
        /\ FedOn' = [FedOn EXCEPT ![s] = id]
        /\ FedGot' = [FedGot EXCEPT ![s] = sent]
    BY <1>5, <1>9, <2>1, OneSub
  <2>3. FedOn' = FedOn /\ FedGot'[s] = sent
    BY <1>7, <2>2 DEF FedOn, FedGot
  <2>4. PICK c : c = stream[s].cursor
    OBVIOUS
  <2>5. PICK events : events = logs[id].events
    OBVIOUS
  <2>6. /\ id # NoLog /\ c =< Len(events) /\ sent = SubSeq(events, 1, c)
        /\ stream[s].terminal => logs[id].done /\ \A k \in Own(id) : k =< c
    BY <1>1, <1>2, <1>3, <1>4, <2>4, <2>5 DEF StreamInv
  <2>7. /\ id \in Ids /\ events \in Seq(Events) /\ c \in Nat
        /\ stream[s].seen \in Seq(Events) /\ stream[s].batch \in Seq(Events)
    <3>1. id \in Ids
      BY <1>1, <1>3, <2>6 DEF Ids, NoLog
    <3>2. logs[id] \in Log
      BY <1>1, <3>1 DEF Ids
    <3> QED
      BY <1>1, <2>4, <2>5, <3>1, <3>2 DEF Log, StreamState
  <2>8. Len(sent) = c
    BY <2>6, <2>7
  <2>9. Len(stream[s].seen) \in Nat /\ Len(stream[s].seen) =< c
    <3>1. Len(sent) = Len(stream[s].seen) + Len(stream[s].batch)
      BY <1>4, <2>7
    <3>2. Len(stream[s].seen) \in Nat /\ Len(stream[s].batch) \in Nat
      BY <2>7
    <3>3. Len(stream[s].seen) + Len(stream[s].batch) = c
      BY <2>8, <3>1
    <3>4. \A a, b \in Nat : a + b = c => a =< c
      BY <2>7
    <3> QED
      BY <3>2, <3>3, <3>4
  <2>10. stream[s].terminal => Feed!Whole(id, c)
    <3> SUFFICES ASSUME stream[s].terminal, NEW k \in 1 .. Len(events), events[k] \in OwnEvents
                 PROVE  k =< c
      BY <2>5, <2>6 DEF Feed!Whole
    <3>1. events[k].from = "job"
      BY DEF OwnEvents, OwnEvent
    <3>2. k \in Own(id)
      BY <2>5, <3>1 DEF Own
    <3> QED
      BY <2>6, <3>2
  <2>11. FedState' = FedState \/ (stream[s].terminal /\ FedState' = [FedState EXCEPT ![s] = "ended"])
    BY <1>7, <2>2 DEF FedState
  <2>12. /\ Len(FedGot'[s]) \in Len(FedGot[s]) .. Len(logs[FedOn[s]].events)
         /\ FedGot' = [FedGot EXCEPT ![s] = SubSeq(logs[FedOn[s]].events, 1, Len(FedGot'[s]))]
    <3>1. Len(FedGot'[s]) = c /\ logs[FedOn[s]].events = events /\ FedGot[s] = stream[s].seen
      BY <1>7, <2>3, <2>5, <2>8
    <3>2. Len(events) \in Nat
      BY <2>7
    <3>3. Len(FedGot'[s]) \in Len(FedGot[s]) .. Len(logs[FedOn[s]].events)
      BY <2>6, <2>7, <2>9, <3>1, <3>2
    <3> QED
      BY <2>2, <2>6, <3>1, <3>3
  <2>13. /\ FedState[s] = "on"
         /\ FedState' = FedState \/ (Feed!Whole(FedOn[s], Len(FedGot'[s]))
                                      /\ FedState' = [FedState EXCEPT ![s] = "ended"])
    BY <1>7, <2>3, <2>8, <2>10, <2>11
  <2>14. Feed!Deliver(s)
    BY <1>2, <2>3, <2>12, <2>13 DEF Feed!Deliver, FedState, FedOn, FedGot
  <2> QED
    BY <2>14 DEF Feed!FeedNext
<1> QED
  BY <1>5, <1>8, <1>9

(* Whoever connects subscribes to a feed of the job.                       *)
LEMMA ConnectRefines ==
    ASSUME TypeOK, NEW s \in Streams, NEW j \in Jobs, AllMaps, Connect(s, j)
    PROVE  Feed!Subscribe(s, j)
<1>1. Got(j) /\ stream[s].pc = "new" /\ GetOrCreate(j)
  BY GetLog DEF Connect
<1>2. stream \in [Streams -> StreamState]
  BY DEF TypeOK
<1>3. /\ \A t \in Streams : t # s => stream'[t] = stream[t]
      /\ stream'[s].pc = "loop" /\ stream'[s].log = TheLog(j) /\ stream'[s].seen = << >>
  BY <1>2 DEF Connect, NewStream
<1>4. SubState("new") = "new" /\ SubState("loop") = "on"
  BY DEF SubState
<1>5. /\ FedState' = [FedState EXCEPT ![s] = "on"]
      /\ FedOn' = [FedOn EXCEPT ![s] = TheLog(j)]
      /\ FedGot' = [FedGot EXCEPT ![s] = << >>]
  BY <1>3, <1>4, OneSub
<1>6. FedState[s] = "new"
  BY <1>1, <1>4 DEF FedState
<1>7. logs' \in {logs, Append(logs, Feed!NewFeed(j))}
  BY <1>1 DEF GetOrCreate, Feed!NewFeed
<1>8. TheLog(j) \in 1 .. Len(logs') /\ logs'[TheLog(j)].job = j
  <2>1. CASE jobEvents[j] = NoLog
    BY <1>1, <2>1 DEF Got
  <2>2. CASE jobEvents[j] # NoLog
    BY <1>1, <2>2 DEF Got, AllMaps, MapInv, TheLog
  <2> QED
    BY <2>1, <2>2
<1> QED
  BY <1>5, <1>6, <1>7, <1>8 DEF Feed!Subscribe, FedState, FedOn, FedGot

(* Every step of the uploads is a step of the feeds, or none.              *)
LEMMA StepRefinesFeed == IInv /\ AllInHand /\ [Next]_vars => [Feed!FeedNext]_(Feed!fvars)
<1> SUFFICES ASSUME IInv, AllInHand, [Next]_vars
             PROVE  Feed!FeedNext \/ UNCHANGED Feed!fvars
  OBVIOUS
<1>a. TypeOK /\ AllMaps /\ AllHands /\ AllLogs /\ AllStreams
  BY DEF IInv
<1>b. ASSUME UNCHANGED logs, UNCHANGED << FedState, FedOn, FedGot >> PROVE UNCHANGED Feed!fvars
  BY <1>b DEF Feed!fvars, FedState, FedOn, FedGot
<1>c. stream' = stream => UNCHANGED << FedState, FedOn, FedGot >>
  BY SameSubs
<1>1. ASSUME NEW j \in Jobs, CalmStep(j) PROVE UNCHANGED Feed!fvars
  <2>1. logs' = logs /\ stream' = stream
    BY <1>1, <1>a, CalmSteps DEF Calm
  <2> QED
    BY <1>b, <1>c, <2>1
<1>2. ASSUME NEW j \in Jobs, Announce(j) \/ RelayLookup(j)
      PROVE  Feed!FeedNext \/ UNCHANGED Feed!fvars
  <2>1. GetOrCreate(j) /\ stream' = stream
    BY <1>2 DEF Announce, RelayLookup
  <2> QED
    BY <2>1, LookupRefines DEF Feed!FeedNext
<1>3. ASSUME NEW j \in Jobs, AppendOwn(j) PROVE Feed!FeedNext
  <2>1. PICK log \in Ids, evt \in Events, d \in BOOLEAN :
           /\ log = held[j] /\ evt = OwnEvent(stage[j], file[j]) /\ d = (stage[j] \in Terminal)
    <3>1. held[j] \in Ids /\ OwnEvent(stage[j], file[j]) \in Events
      BY <1>3, <1>a, Appends, EventTypes
    <3>2. (stage[j] \in Terminal) \in BOOLEAN
      OBVIOUS
    <3> QED
      BY <3>1, <3>2, Zenon
  <2>2. stage[j] \in Announcing /\ Woken /\ Logged(log, evt, d) /\ AppendTo(log, evt, d)
    BY <1>3, <1>a, <2>1, Appends DEF AppendOwn, LogEvent
  <2>3. file[j] \in 1 .. NumFiles + 1
    BY <1>a DEF TypeOK
  <2>4. evt \in OwnEvents /\ (d <=> evt \in FinalEvents)
    <3>1. evt \in OwnEvents
      BY <2>1, <2>2, <2>3 DEF OwnEvents
    <3>2. ASSUME evt \in FinalEvents PROVE d
      <4>1. PICK p \in Terminal, f \in 1 .. NumFiles + 1 : evt = OwnEvent(p, f)
        BY <3>2 DEF FinalEvents
      <4>2. evt.phase = p /\ evt.phase = stage[j]
        BY <2>1, <4>1 DEF OwnEvent
      <4> QED
        BY <2>1, <4>2
    <3>3. ASSUME d PROVE evt \in FinalEvents
      <4>1. stage[j] \in Terminal
        BY <2>1, <3>3
      <4>2. evt = OwnEvent(stage[j], file[j])
        BY <2>1
      <4> QED
        BY <2>3, <4>1, <4>2 DEF FinalEvents
    <3> QED
      BY <3>1, <3>2, <3>3
  <2>5. ~logs[log].done
    <3>1. held[j] # NoLog /\ stage[j] \notin Past
      BY <2>1, <2>2 DEF Ids, NoLog, Announcing, Terminal, Past
    <3>2. logs[log].job = j
      BY <1>a, <2>1, <3>1 DEF AllHands, HandsInv, AllMaps, MapInv
    <3> QED
      BY <1>a, <3>1, <3>2 DEF AllLogs, LogInv
  <2>6. Feed!Publish(log)
    BY <1>a, <2>2, <2>4, <2>5, AppendRefines
  <2> QED
    BY <2>6 DEF Feed!FeedNext, Ids
<1>4. ASSUME NEW j \in Jobs, RelayAppend(j) PROVE Feed!FeedNext
  <2>1. relay[j] = "append" /\ relayEvt[j] \in 1 .. MaxEmits
    BY <1>4 DEF RelayAppend, AllInHand, InHand
  <2>2. PICK log \in Ids, n \in 1 .. MaxEmits : log = relayLog[j] /\ n = relayEvt[j]
    BY <1>4, <1>a, <2>1, Appends
  <2>e. PICK evt : evt = PipeEvent(n)
    OBVIOUS
  <2>3. Woken /\ Logged(log, evt, FALSE) /\ AppendTo(log, evt, FALSE)
    BY <1>4, <1>a, <2>2, <2>e, Appends DEF RelayAppend, LogEvent
  <2>4. evt \notin OwnEvents /\ evt \notin FinalEvents
    <3>1. evt.from = "pipe"
      BY <2>2, <2>e DEF PipeEvent
    <3>2. \A e \in OwnEvents \cup FinalEvents : e.from = "job"
      BY DEF OwnEvents, FinalEvents, OwnEvent
    <3> QED
      BY <3>1, <3>2
  <2>5. Feed!Publish(log)
    BY <1>a, <2>2, <2>e, <2>3, <2>4, AppendRefines
  <2> QED
    BY <2>5 DEF Feed!FeedNext, Ids
<1>5. ASSUME NEW s \in Streams, Leave(s) PROVE UNCHANGED Feed!fvars
  <2>1. \A t \in Streams : /\ stream'[t].pc = stream[t].pc /\ stream'[t].log = stream[t].log
                           /\ stream'[t].seen = stream[t].seen
    BY <1>5, <1>a DEF Leave, TypeOK, StreamState
  <2>2. logs' = logs
    BY <1>5 DEF Leave
  <2> QED
    BY <1>b, <2>1, <2>2, SameSubs
<1>6. ASSUME NEW s \in Streams, Watcher(s) PROVE UNCHANGED Feed!fvars
  <2>1. SubState("wait") = "on" /\ SubState("loop") = "on"
    BY DEF SubState
  <2>2. ASSUME NEW t \in Streams
        PROVE  /\ SubState(stream'[t].pc) = SubState(stream[t].pc)
               /\ stream'[t].log = stream[t].log /\ stream'[t].seen = stream[t].seen
    <3>1. stream[t] \in StreamState
      BY <1>a DEF TypeOK
    <3>2. PICK w : w = (stream[t].watched \/ t = s)
      OBVIOUS
    <3>3. stream'[t] = [stream[t] EXCEPT !.watched = w,
              !.pc = IF stream[t].pc = "wait" /\ stream[t].log = stream[s].log
                     THEN "loop" ELSE stream[t].pc]
      BY <1>6, <3>2 DEF Watcher
    <3>4. /\ stream'[t].pc \in {stream[t].pc, "loop"}
          /\ stream'[t].pc = stream[t].pc \/ stream[t].pc = "wait"
          /\ stream'[t].log = stream[t].log /\ stream'[t].seen = stream[t].seen
      BY <3>1, <3>3 DEF StreamState
    <3> QED
      BY <2>1, <3>4
  <2>3. logs' = logs
    BY <1>6 DEF Watcher
  <2> QED
    BY <1>b, <2>2, <2>3, SameSubs
<1>7. ASSUME NEW s \in Streams, Clear(s) PROVE UNCHANGED Feed!fvars
  <2>1. SubState("clear") = "ended" /\ SubState("ended") = "ended"
    BY DEF SubState
  <2>2. ASSUME NEW t \in Streams
        PROVE  /\ SubState(stream'[t].pc) = SubState(stream[t].pc)
               /\ stream'[t].log = stream[t].log /\ stream'[t].seen = stream[t].seen
    BY <1>7, <1>a, <2>1 DEF Clear, TypeOK, StreamState
  <2>3. logs' = logs
    BY <1>7 DEF Clear
  <2> QED
    BY <1>b, <2>2, <2>3, SameSubs
<1>8. ASSUME NEW s \in Streams, NEW j \in Jobs, Connect(s, j) PROVE Feed!FeedNext
  BY <1>8, <1>a, ConnectRefines DEF Feed!FeedNext
<1>9. CASE UNCHANGED vars
  <2>1. logs' = logs /\ stream' = stream
    BY <1>9 DEF vars
  <2> QED
    BY <1>b, <1>c, <2>1
<1> QED
  BY <1>1, <1>2, <1>3, <1>4, <1>5, <1>6, <1>7, <1>8, <1>9, SnapshotRefines, FlushRefines
     DEF Next, Job, Relay, Stream, CalmStep

(* The uploads, their relays and their streams together do what the feeds  *)
(* promise, for any jobs, streams, files, channel and number of events.    *)
THEOREM LogsRefineFeeds == Spec => RefinesFeed
<1>1. Init => Feed!FeedInit
  <2> SUFFICES ASSUME Init PROVE Feed!FeedInit
    OBVIOUS
  <2>1. SubState("new") = "new"
    BY DEF SubState
  <2> QED
    BY <2>1 DEF Init, Feed!FeedInit, NewStream, NoLog
<1>2. Init => AllInHand
  BY DEF Init, AllInHand, InHand
<1>3. IInv /\ AllInHand /\ [Next]_vars => AllInHand'
  BY InHandStep DEF IInv
<1> QED
  BY <1>1, <1>2, <1>3, InductiveInvariant, StepRefinesFeed, PTL DEF Spec, RefinesFeed, Feed!FeedSpec

-----------------------------------------------------------------------------
(* Nobody waits for ever. *)

(* Of a stream that waits: it has been sent all there is, the log is not   *)
(* done, and a client that is gone has a watcher that has yet to wake it.  *)
WaitInv(s) ==
    /\ stream[s].watched => stream[s].gone
    /\ stream[s].pc = "wait" =>
          /\ stream[s].cursor = Len(logs[stream[s].log].events)
          /\ ~logs[stream[s].log].done
          /\ stream[s].gone => ~stream[s].watched
AllWaits == \A s \in Streams : WaitInv(s)

(* The job is past its terminal event only when its log is done.           *)
MainsDone == \A id \in Ids : IsMain(id) /\ stage[logs[id].job] \in Past => logs[id].done

(* The relay of a job runs from Submit until it is told to stop.           *)
RelayInv(j) ==
    /\ stage[j] \notin Before \cup {"returned"} => relay[j] # "off"
    /\ stage[j] = "join" => stopped[j]
AllRelays == \A j \in Jobs : RelayInv(j)

SleepInv == AllWaits /\ MainsDone /\ AllRelays

(* What a step leaves as it was for a stream that waits.                   *)
StillWaits(s) ==
    /\ stream'[s].watched = stream[s].watched /\ stream'[s].gone = stream[s].gone
    /\ stream'[s].pc = "wait" =>
          /\ stream[s].pc = "wait" /\ stream'[s].log = stream[s].log
          /\ stream'[s].cursor = stream[s].cursor
          /\ logs'[stream[s].log].events = logs[stream[s].log].events
          /\ logs'[stream[s].log].done = logs[stream[s].log].done

(* A stream waits on after a step that touches neither it nor its log.     *)
LEMMA StaysAsleep ==
    ASSUME NEW s \in Streams, WaitInv(s), StillWaits(s)
    PROVE  WaitInv(s)'
<1>1. PICK id : id = stream[s].log
  OBVIOUS
<1>2. CASE stream'[s].pc = "wait"
  <2>1. /\ stream'[s].log = id /\ stream'[s].cursor = stream[s].cursor
        /\ logs'[id].events = logs[id].events /\ logs'[id].done = logs[id].done
    BY <1>1, <1>2 DEF StillWaits
  <2> QED
    BY <1>1, <1>2, <2>1 DEF StillWaits, WaitInv
<1>3. CASE stream'[s].pc # "wait"
  BY <1>3 DEF StillWaits, WaitInv
<1> QED
  BY <1>2, <1>3

(* A stream that has begun has a log.                                      *)
LEMMA KnownLog ==
    ASSUME TypeOK, AllStreams, NEW s \in Streams, stream[s].pc # "new"
    PROVE  stream[s].log \in Ids
<1>1. StreamInv(s) /\ stream[s].log \in LogIds
  BY DEF AllStreams, TypeOK
<1>2. stream[s].log # NoLog
  BY <1>1 DEF StreamInv
<1>3. Len(logs) \in Nat
  BY DEF TypeOK
<1> QED
  BY <1>1, <1>2, <1>3 DEF LogIds, Ids, NoLog

(* A lookup leaves the log a stream waits on as it is.                     *)
LEMMA AsleepInLookup ==
    ASSUME TypeOK, AllStreams, NEW j \in Jobs, Got(j), NEW s \in Streams, stream'[s] = stream[s]
    PROVE  StillWaits(s)
<1>1. CASE stream[s].pc = "wait"
  <2>1. stream[s].log \in Ids
    BY <1>1, KnownLog
  <2> QED
    BY <2>1 DEF Got, StillWaits
<1>2. CASE stream[s].pc # "wait"
  BY <1>2 DEF StillWaits
<1> QED
  BY <1>1, <1>2

(* An append wakes whoever waits on its log (cond.Broadcast under log.mu), *)
(* and leaves who waits on another.                                        *)
LEMMA AsleepInAppend ==
    ASSUME TypeOK, AllStreams, NEW log \in Ids, NEW evt, NEW d, LogEvent(log, evt, d), Logged(log, evt, d),
           NEW s \in Streams
    PROVE  StillWaits(s)
<1>1. stream[s] \in StreamState /\ stream \in [Streams -> StreamState]
  BY DEF TypeOK
<1>2. stream' = [t \in Streams |-> IF stream[t].log = log /\ stream[t].pc = "wait"
                                   THEN [stream[t] EXCEPT !.pc = "loop"] ELSE stream[t]]
  BY DEF LogEvent, Broadcast
<1>3. CASE stream[s].log = log /\ stream[s].pc = "wait"
  <2>1. stream'[s] = [stream[s] EXCEPT !.pc = "loop"]
    BY <1>2, <1>3
  <2> QED
    BY <1>1, <2>1 DEF StillWaits, StreamState
<1>4. CASE ~(stream[s].log = log /\ stream[s].pc = "wait")
  <2>1. stream'[s] = stream[s]
    BY <1>2, <1>4
  <2>2. CASE stream[s].pc = "wait"
    <3>1. stream[s].log \in Ids /\ stream[s].log # log
      BY <1>4, <2>2, KnownLog
    <3> QED
      BY <2>1, <3>1 DEF Logged, StillWaits
  <2>3. CASE stream[s].pc # "wait"
    BY <2>1, <2>3 DEF StillWaits
  <2> QED
    BY <2>2, <2>3
<1> QED
  BY <1>3, <1>4

(* A stream goes to sleep only on a log that has nothing new, is not done  *)
(* and whose client is there; leaving does not lose the watcher's turn.    *)
LEMMA WaitsStep == IInv /\ AllWaits /\ [Next]_vars => AllWaits'
<1> SUFFICES ASSUME IInv, AllWaits, [Next]_vars PROVE AllWaits'
  OBVIOUS
<1>a. /\ TypeOK /\ AllHands /\ AllStreams /\ stream \in [Streams -> StreamState]
      /\ \A s \in Streams : WaitInv(s)
  BY DEF IInv, TypeOK, AllWaits
<1>b. ASSUME \A s \in Streams : StillWaits(s) PROVE AllWaits'
  BY <1>a, <1>b, StaysAsleep DEF AllWaits
<1>c. ASSUME stream' = stream, logs' = logs, NEW s \in Streams PROVE StillWaits(s)
  BY <1>c DEF StillWaits
<1>1. ASSUME NEW j \in Jobs, CalmStep(j) PROVE AllWaits'
  <2>1. logs' = logs /\ stream' = stream
    BY <1>1, <1>a, CalmSteps DEF Calm
  <2> QED
    BY <1>b, <1>c, <2>1
<1>2. ASSUME NEW j \in Jobs, Announce(j) \/ RelayLookup(j) PROVE AllWaits'
  <2>1. Got(j) /\ stream' = stream
    BY <1>2, <1>a, GetLog DEF Announce, RelayLookup
  <2> QED
    BY <1>a, <1>b, <2>1, AsleepInLookup
<1>3. ASSUME NEW j \in Jobs, AppendOwn(j) PROVE AllWaits'
  <2>1. PICK evt : evt = OwnEvent(stage[j], file[j])
    OBVIOUS
  <2>2. PICK d : d = (stage[j] \in Terminal)
    OBVIOUS
  <2>3. LogEvent(held[j], evt, d) /\ held[j] \in Ids /\ Logged(held[j], evt, d)
    BY <1>3, <1>a, <2>1, <2>2, Appends DEF AppendOwn
  <2> QED
    BY <1>a, <1>b, <2>3, AsleepInAppend
<1>4. ASSUME NEW j \in Jobs, RelayAppend(j) PROVE AllWaits'
  <2>1. PICK evt : evt = PipeEvent(relayEvt[j])
    OBVIOUS
  <2>2. LogEvent(relayLog[j], evt, FALSE) /\ relayLog[j] \in Ids /\ Logged(relayLog[j], evt, FALSE)
    BY <1>4, <1>a, <2>1, Appends DEF RelayAppend
  <2> QED
    BY <1>a, <1>b, <2>2, AsleepInAppend
<1>5. ASSUME NEW s \in Streams, Snapshot(s) PROVE AllWaits'
  <2>1. logs' = logs /\ stream[s].pc = "loop" /\ \A t \in Streams : t # s => stream'[t] = stream[t]
    BY <1>5, <1>a DEF Snapshot
  <2>2. /\ stream'[s].watched = stream[s].watched /\ stream'[s].gone = stream[s].gone
        /\ stream'[s].log = stream[s].log
        /\ stream'[s].pc = "wait" =>
              /\ stream'[s].cursor = stream[s].cursor
              /\ stream[s].cursor >= Len(logs[stream[s].log].events)
              /\ ~logs[stream[s].log].done /\ ~stream[s].gone
    BY <1>5, <1>a DEF Snapshot, StreamState
  <2>3. /\ stream[s].cursor =< Len(logs[stream[s].log].events) /\ stream[s].cursor \in Nat
        /\ Len(logs[stream[s].log].events) \in Nat
    <3>1. /\ stream[s].log # NoLog /\ stream[s].cursor =< Len(logs[stream[s].log].events)
          /\ stream[s] \in StreamState
      BY <1>a, <2>1 DEF AllStreams, StreamInv
    <3>2. logs[stream[s].log] \in Log
      BY <1>a, <3>1 DEF TypeOK, LogIds, NoLog
    <3> QED
      BY <3>1, <3>2 DEF Log, StreamState
  <2>4. WaitInv(s)'
    <3>1. stream'[s].pc = "wait" => stream[s].cursor = Len(logs[stream[s].log].events)
      BY <2>2, <2>3
    <3> QED
      BY <1>a, <2>1, <2>2, <3>1 DEF WaitInv
  <2>5. \A t \in Streams : t # s => WaitInv(t)'
    BY <1>a, <2>1, StaysAsleep DEF StillWaits
  <2> QED
    BY <2>4, <2>5 DEF AllWaits
<1>6. ASSUME NEW s \in Streams, Flush(s) \/ Clear(s) PROVE AllWaits'
  <2>1. logs' = logs /\ \A t \in Streams : t # s => stream'[t] = stream[t]
    BY <1>6, <1>a DEF Flush, Clear
  <2>2. /\ stream'[s].watched = stream[s].watched /\ stream'[s].gone = stream[s].gone
        /\ stream'[s].pc # "wait"
    <3>1. CASE Clear(s)
      BY <1>a, <3>1 DEF Clear, StreamState
    <3>2. CASE stream' = [stream EXCEPT ![s].pc = "left"]
      BY <1>a, <3>2 DEF StreamState
    <3>3. CASE stream' = [stream EXCEPT ![s] =
               [@ EXCEPT !.seen = stream[s].seen \o stream[s].batch, !.batch = <<>>,
                         !.pc = IF stream[s].terminal THEN "clear" ELSE "loop"]]
      BY <1>a, <3>3 DEF StreamState
    <3> QED
      BY <1>6, <3>1, <3>2, <3>3 DEF Flush
  <2>3. ASSUME NEW t \in Streams PROVE StillWaits(t)
    BY <2>1, <2>2 DEF StillWaits
  <2> QED
    BY <1>b, <2>3
<1>7. ASSUME NEW s \in Streams, Leave(s) PROVE AllWaits'
  <2>1. /\ logs' = logs /\ ~stream[s].gone
        /\ \A t \in Streams : t # s => stream'[t] = stream[t]
    BY <1>7, <1>a DEF Leave
  <2>2. /\ stream'[s].watched = stream[s].watched /\ stream'[s].gone
        /\ stream'[s].pc = stream[s].pc /\ stream'[s].log = stream[s].log
        /\ stream'[s].cursor = stream[s].cursor
    BY <1>7, <1>a DEF Leave, StreamState
  <2>3. WaitInv(s)'
    BY <1>a, <2>1, <2>2 DEF WaitInv
  <2>4. \A t \in Streams : t # s => WaitInv(t)'
    BY <1>a, <2>1, StaysAsleep DEF StillWaits
  <2> QED
    BY <2>3, <2>4 DEF AllWaits
<1>8. ASSUME NEW s \in Streams, Watcher(s) PROVE AllWaits'
  <2>1. logs' = logs /\ stream[s].gone
    BY <1>8 DEF Watcher
  <2>2. ASSUME NEW t \in Streams PROVE WaitInv(t)'
    <3>1. PICK w : w = (stream[t].watched \/ t = s)
      OBVIOUS
    <3>2. stream'[t] = [stream[t] EXCEPT !.watched = w,
              !.pc = IF stream[t].pc = "wait" /\ stream[t].log = stream[s].log
                     THEN "loop" ELSE stream[t].pc]
      BY <1>8, <3>1 DEF Watcher
    <3>3. /\ stream'[t].watched = w /\ stream'[t].gone = stream[t].gone
          /\ stream'[t].log = stream[t].log /\ stream'[t].cursor = stream[t].cursor
          /\ stream'[t].pc = "wait" => stream[t].pc = "wait" /\ stream[t].log # stream[s].log
      BY <1>a, <3>2 DEF StreamState
    <3>4. CASE t = s
      BY <2>1, <3>3, <3>4 DEF WaitInv
    <3>5. CASE t # s
      <4>1. w <=> stream[t].watched
        BY <3>1, <3>5
      <4>2. WaitInv(t)
        BY <1>a
      <4> QED
        BY <2>1, <3>3, <4>1, <4>2 DEF WaitInv
    <3> QED
      BY <3>4, <3>5
  <2> QED
    BY <2>2 DEF AllWaits
<1>9. ASSUME NEW s \in Streams, NEW j \in Jobs, Connect(s, j) PROVE AllWaits'
  <2>1. Got(j) /\ \A t \in Streams : t # s => stream'[t] = stream[t]
    BY <1>9, <1>a, GetLog DEF Connect
  <2>2. stream'[s].pc = "loop" /\ stream'[s].watched = FALSE
    BY <1>9, <1>a DEF Connect, NewStream
  <2>3. WaitInv(s)'
    BY <2>2 DEF WaitInv
  <2>4. \A t \in Streams : t # s => WaitInv(t)'
    BY <1>a, <2>1, AsleepInLookup, StaysAsleep
  <2> QED
    BY <2>3, <2>4 DEF AllWaits
<1>10. CASE UNCHANGED vars
  <2>1. logs' = logs /\ stream' = stream
    BY <1>10 DEF vars
  <2> QED
    BY <1>b, <1>c, <2>1
<1> QED
  BY <1>1, <1>2, <1>3, <1>4, <1>5, <1>6, <1>7, <1>8, <1>9, <1>10
     DEF Next, Job, Relay, Stream, CalmStep

-----------------------------------------------------------------------------
(* The log of a job that is past its terminal event is done, and the relay *)
(* of a job runs until it is told to stop.                                 *)

(* A step that keeps every log, and no job goes past its terminal event.   *)
LEMMA MainsStayDone ==
    ASSUME TypeOK, MainsDone, Ids' = Ids,
           \A id \in Ids : /\ logs'[id].job = logs[id].job
                           /\ IsMain(id)' => IsMain(id)
                           /\ logs[id].done => logs'[id].done,
           \A j \in Jobs : stage'[j] \in Past => stage[j] \in Past
    PROVE  MainsDone'
<1>1. \A id \in Ids : logs[id].job \in Jobs
  <2>1. \A id \in Ids : logs[id] \in Log
    BY DEF Ids, TypeOK
  <2> QED
    BY <2>1 DEF Log
<1> QED
  BY <1>1 DEF MainsDone

(* The log a producer has in hand is its job's.                            *)
LEMMA HeldLog ==
    ASSUME AllMaps, AllHands, NEW j \in Jobs, held[j] # NoLog
    PROVE  logs[held[j]].job = j
<1>1. MapInv(j) /\ HandsInv(j)
  BY DEF AllMaps, AllHands
<1> QED
  BY <1>1 DEF MapInv, HandsInv

(* A log is the producer's from its first event, and done with its last.   *)
LEMMA MainsStep == IInv /\ MainsDone /\ [Next]_vars => MainsDone'
<1> SUFFICES ASSUME IInv, MainsDone, [Next]_vars PROVE MainsDone'
  OBVIOUS
<1>a. TypeOK /\ AllMaps /\ AllHands /\ AllLogs /\ OneMain
  BY DEF IInv
<1>1. ASSUME UNCHANGED << stage, logs >> PROVE MainsDone'
  BY <1>1 DEF MainsDone, Ids, IsMain
<1>2. ASSUME NEW j \in Jobs, CalmStep(j) PROVE MainsDone'
  <2>1. logs' = logs /\ \A k \in Jobs : stage'[k] \in Past => stage[k] \in Past
    BY <1>2, <1>a, CalmSteps DEF Calm, Past
  <2> QED
    BY <1>a, <2>1, MainsStayDone DEF Ids, IsMain
<1>3. ASSUME NEW j \in Jobs, Got(j), UNCHANGED stage PROVE MainsDone'
  <2>1. ASSUME NEW id \in Ids', IsMain(id)', stage'[logs'[id].job] \in Past PROVE logs'[id].done
    <3>1. Len(logs) \in Nat /\ Len(logs') \in Nat /\ jobEvents[j] \in 0 .. Len(logs)
      BY <1>a, <1>3 DEF TypeOK, Got, LogIds
    <3>2. CASE id \in Ids
      <4>1. logs'[id] = logs[id]
        BY <1>3, <3>2 DEF Got
      <4> QED
        BY <1>3, <2>1, <3>2, <4>1 DEF MainsDone, IsMain
    <3>3. CASE id \notin Ids
      <4>1. logs'[id].events = << >>
        BY <1>3, <3>1, <3>3 DEF Got, Ids
      <4> QED
        BY <2>1, <4>1 DEF IsMain
    <3> QED
      BY <3>2, <3>3
  <2> QED
    BY <2>1 DEF MainsDone
<1>4. ASSUME NEW j \in Jobs, Announce(j) \/ RelayLookup(j) PROVE MainsDone'
  BY <1>3, <1>4, <1>a, GetLog DEF Announce, RelayLookup, producerVars
<1>5. ASSUME NEW s \in Streams, NEW j \in Jobs, Connect(s, j) PROVE MainsDone'
  BY <1>3, <1>5, <1>a, GetLog DEF Connect, StreamOnly, producerVars
<1>6. ASSUME NEW j \in Jobs, RelayAppend(j) PROVE MainsDone'
  <2>1. /\ relayLog[j] \in Ids /\ relayEvt[j] \in Nat /\ UNCHANGED stage
        /\ Logged(relayLog[j], PipeEvent(relayEvt[j]), FALSE)
    BY <1>6, <1>a, Appends DEF RelayAppend, producerVars
  <2>2. \A id \in Ids : IsMain(id)' <=> IsMain(id)
    BY <1>a, <2>1, RelayLogs
  <2>3. Ids' = Ids /\ \A id \in Ids : logs'[id].job = logs[id].job
                                      /\ (logs[id].done => logs'[id].done)
    BY <2>1 DEF Logged, Ids
  <2> QED
    BY <1>a, <2>1, <2>2, <2>3, MainsStayDone
<1>7. ASSUME NEW j \in Jobs, AppendOwn(j) PROVE MainsDone'
  <2>1. PICK log : log = held[j]
    OBVIOUS
  <2>2. /\ log \in Ids /\ stage[j] \in Announcing
        /\ Logged(log, OwnEvent(stage[j], file[j]), stage[j] \in Terminal)
        /\ stage' = [stage EXCEPT ![j] = After(stage[j])]
    BY <1>7, <1>a, <2>1, Appends DEF AppendOwn, Goto
  <2>3. /\ stage'[j] \in Past <=> stage[j] \in Terminal
        /\ \A k \in Jobs : k # j => stage'[k] = stage[k]
    BY <1>a, <2>2, AfterAnnouncing DEF TypeOK
  <2>4. \A id \in Ids : logs[id].job = j => id = log
    <3>1. MapInv(j) /\ HandsInv(j) /\ held[j] # NoLog
      BY <1>7, <1>a DEF AllMaps, AllHands, AppendOwn
    <3>2. ~Unheard(j) /\ stage[j] \notin Past
      BY <2>2, <3>1 DEF Unheard, Announcing, Terminal, Past
    <3> QED
      BY <2>1, <3>1, <3>2 DEF MapInv, HandsInv
  <2>5. Ids' = Ids /\ \A id \in Ids : logs'[id].job = logs[id].job
    BY <2>2 DEF Logged, Ids
  <2>6. ASSUME NEW id \in Ids', IsMain(id)', stage'[logs'[id].job] \in Past PROVE logs'[id].done
    <3>1. CASE id = log
      <4>1. logs'[id].job = j
        BY <1>7, <1>a, <2>1, <2>2, <2>5, <3>1, HeldLog DEF AppendOwn
      <4> QED
        BY <2>2, <2>3, <2>6, <3>1, <4>1 DEF Logged
    <3>2. CASE id # log
      <4>1. /\ logs'[id] = logs[id] /\ logs[id].job # j /\ logs[id] \in Log
        BY <1>a, <2>2, <2>4, <2>5, <2>6, <3>2 DEF Logged, TypeOK, Ids
      <4>2. stage[logs[id].job] \in Past
        BY <2>3, <2>6, <4>1 DEF Log
      <4> QED
        BY <2>5, <2>6, <4>1, <4>2 DEF MainsDone, IsMain
    <3> QED
      BY <3>1, <3>2
  <2> QED
    BY <2>6 DEF MainsDone
<1>8. ASSUME NEW s \in Streams, Stream(s) \/ Leave(s) \/ Watcher(s) PROVE MainsDone'
  BY <1>1, <1>8 DEF Stream, Snapshot, Flush, Clear, Leave, Watcher, StreamOnly, producerVars
<1>9. CASE UNCHANGED vars
  BY <1>1, <1>9 DEF vars
<1> QED
  BY <1>2, <1>4, <1>5, <1>6, <1>7, <1>8, <1>9 DEF Next, Job, Relay, CalmStep

(* The relay is started with the job, and told to stop before it is joined. *)
LEMMA RelaysStep == IInv /\ AllRelays /\ [Next]_vars => AllRelays'
<1> SUFFICES ASSUME IInv, AllRelays, [Next]_vars, NEW k \in Jobs PROVE RelayInv(k)'
  BY DEF AllRelays
<1>a. /\ RelayInv(k) /\ stage \in [Jobs -> Stages] /\ stopped \in [Jobs -> BOOLEAN]
      /\ relay \in [Jobs -> {"off", "select", "received", "append", "exited"}]
      /\ HandsInv(k)
  BY DEF IInv, TypeOK, AllHands, AllRelays
<1>1. ASSUME UNCHANGED << stage, stopped, relay >> PROVE RelayInv(k)'
  BY <1>1, <1>a DEF RelayInv
<1>2. ASSUME NEW j \in Jobs,
             Request(j) \/ NextFile(j) \/ IndexPathReturns(j) \/ FinalizeReturns(j) \/ JobPanics(j)
      PROVE  RelayInv(k)'
  BY <1>2, <1>a DEF Request, NextFile, IndexPathReturns, FinalizeReturns, JobPanics, Goto,
     relayVars, RelayInv, HandsInv, Before
<1>3. ASSUME NEW j \in Jobs, Submit(j) PROVE RelayInv(k)'
  BY <1>3, <1>a DEF Submit, Goto, RelayInv, Before
<1>4. ASSUME NEW j \in Jobs, AppendOwn(j) PROVE RelayInv(k)'
  <2>1. stage[j] \in Announcing /\ stage' = [stage EXCEPT ![j] = After(stage[j])]
        /\ UNCHANGED << stopped, relay >>
    BY <1>4, Appends DEF IInv, AppendOwn, Goto, relayVars
  <2>2. k # j => stage'[k] = stage[k]
    BY <1>a, <2>1
  <2>3. k = j => /\ stage'[j] # "join"
                 /\ stage'[j] \notin Before \cup {"returned"} => stage[j] \notin Before \cup {"returned"}
    <3>1. stage'[j] = After(stage[j])
      BY <1>a, <2>1
    <3> QED
      BY <2>1, <3>1 DEF After, Announcing, Terminal, Before
  <2> QED
    BY <1>a, <2>1, <2>2, <2>3 DEF RelayInv
<1>5. ASSUME NEW j \in Jobs, StopRelay(j) \/ JoinRelay(j) PROVE RelayInv(k)'
  BY <1>5, <1>a DEF StopRelay, JoinRelay, Goto, relayVars, RelayInv, Before
<1>6. ASSUME NEW j \in Jobs, RelayReceive(j) \/ RelayExit(j) \/ RelayLookup(j) \/ RelayAppend(j)
      PROVE  RelayInv(k)'
  <2>1. /\ relay' = [relay EXCEPT ![j] = relay'[j]] /\ relay'[j] # "off"
        /\ UNCHANGED << stage, stopped >>
    BY <1>6, <1>a DEF RelayReceive, RelayExit, RelayLookup, RelayAppend, producerVars
  <2> QED
    BY <1>a, <2>1 DEF RelayInv
<1>7. ASSUME NEW j \in Jobs, Emit(j) \/ Announce(j) PROVE RelayInv(k)'
  BY <1>1, <1>7 DEF Emit, Announce, producerVars, relayVars
<1>8. ASSUME NEW s \in Streams, Stream(s) \/ Leave(s) \/ Watcher(s) PROVE RelayInv(k)'
  BY <1>1, <1>8
     DEF Stream, Snapshot, Flush, Clear, Leave, Watcher, StreamOnly, producerVars, relayVars
<1>9. ASSUME NEW s \in Streams, NEW j \in Jobs, Connect(s, j) PROVE RelayInv(k)'
  BY <1>1, <1>9 DEF Connect, StreamOnly, producerVars, relayVars
<1>10. CASE UNCHANGED vars
  BY <1>1, <1>10 DEF vars
<1> QED
  BY <1>2, <1>3, <1>4, <1>5, <1>6, <1>7, <1>8, <1>9, <1>10 DEF Next, Job, Relay

(* The three together, from Init on.                                       *)
LEMMA SleepInvariant == Spec => []SleepInv
<1>1. Init => SleepInv
  BY DEF Init, SleepInv, AllWaits, WaitInv, NewStream, MainsDone, Ids, AllRelays, RelayInv, Before
<1>2. IInv /\ SleepInv /\ [Next]_vars => SleepInv'
  BY WaitsStep, MainsStep, RelaysStep DEF SleepInv
<1> QED
  BY <1>1, <1>2, InductiveInvariant, PTL DEF Spec

(* A stream in cond.Wait() has been sent all its log holds; the log is not *)
(* done; if the client is gone, the watcher's Broadcast is still to come;  *)
(* and on the log the job writes, the terminal event is still to come,     *)
(* unless the job panicked.                                                *)
SleepersWillBeWoken ==
    \A s \in Streams : stream[s].pc = "wait" =>
        LET id == stream[s].log IN
        /\ Len(stream[s].seen) = Len(logs[id].events)
        /\ ~logs[id].done
        /\ stream[s].gone => ~stream[s].watched
        /\ IsMain(id) => stage[logs[id].job] \notin Past

(* No wakeup is lost: uploadProgress checks its condition and waits under  *)
(* the mutex that appendEvent, finishEvent and the watcher broadcast under. *)
THEOREM NoLostWakeup == Spec => []SleepersWillBeWoken
<1>1. IInv /\ SleepInv => SleepersWillBeWoken
  <2> SUFFICES ASSUME IInv, SleepInv, NEW s \in Streams, stream[s].pc = "wait"
               PROVE  LET id == stream[s].log IN
                      /\ Len(stream[s].seen) = Len(logs[id].events)
                      /\ ~logs[id].done
                      /\ stream[s].gone => ~stream[s].watched
                      /\ IsMain(id) => stage[logs[id].job] \notin Past
    BY DEF SleepersWillBeWoken
  <2>1. PICK id : id = stream[s].log
    OBVIOUS
  <2>2. id \in Ids /\ StreamInv(s) /\ stream[s] \in StreamState
    BY <2>1, KnownLog DEF IInv, AllStreams, TypeOK
  <2>3. /\ stream[s].cursor = Len(logs[id].events) /\ ~logs[id].done
        /\ stream[s].gone => ~stream[s].watched
    BY <2>1 DEF SleepInv, AllWaits, WaitInv
  <2>4. IsMain(id) => stage[logs[id].job] \notin Past
    BY <2>2, <2>3 DEF SleepInv, MainsDone
  <2>5. /\ stream[s].seen \in Seq(Events) /\ logs[id].events \in Seq(Events)
        /\ stream[s].seen \o << >> = SubSeq(logs[id].events, 1, stream[s].cursor)
    <3>1. logs[id] \in Log
      BY <2>2 DEF IInv, TypeOK, Ids
    <3> QED
      BY <2>1, <2>2, <3>1 DEF Log, StreamState, StreamInv
  <2>6. Len(stream[s].seen) = Len(logs[id].events)
    BY <2>3, <2>5
  <2> QED
    BY <2>1, <2>3, <2>4, <2>6
<1> QED
  BY <1>1, InductiveInvariant, SleepInvariant, PTL

-----------------------------------------------------------------------------
(* relayDone.Wait() cannot wait for ever. *)

RelayRank(r) ==
    CASE r = "select" -> 1
      [] r = "append" -> 2
      [] r = "received" -> 3
      [] OTHER -> 0

(* What the relay of a job has left to do once nothing is sent any more.   *)
Rest(j) == 3 * Len(chan[j]) + RelayRank(relay[j])

(* The job waits for a relay that was started and told to stop: it has an  *)
(* event in hand, or it is at its select, where it may stop.               *)
JoinWaitsForARelay ==
    \A j \in Jobs : stage[j] = "join" =>
        /\ stopped[j]
        /\ relay[j] \in {"select", "received", "append", "exited"}
        /\ relay[j] = "append" => relayLog[j] \in Ids

(* From the terminal event on, every step that touches the channel or the  *)
(* relay of a job brings the relay nearer its end.                         *)
RelayRunsOut ==
    [][\A j \in Jobs : stage[j] \in Past =>
          \/ UNCHANGED << chan[j], relay[j] >>
          \/ Rest(j)' < Rest(j) /\ Rest(j)' \in Nat]_vars

(* The relay is there to be joined, and can always go on.                  *)
THEOREM JoinedRelaysCanGoOn == Spec => []JoinWaitsForARelay
<1>1. IInv /\ SleepInv => JoinWaitsForARelay
  <2> SUFFICES ASSUME IInv, SleepInv, NEW j \in Jobs, stage[j] = "join"
               PROVE  /\ stopped[j]
                      /\ relay[j] \in {"select", "received", "append", "exited"}
                      /\ relay[j] = "append" => relayLog[j] \in Ids
    BY DEF JoinWaitsForARelay
  <2>1. /\ relay[j] \in {"off", "select", "received", "append", "exited"} /\ Len(logs) \in Nat
        /\ relayLog[j] \in 0 .. Len(logs) /\ HandsInv(j) /\ RelayInv(j)
    BY DEF IInv, TypeOK, LogIds, AllHands, SleepInv, AllRelays
  <2> QED
    BY <2>1 DEF RelayInv, HandsInv, Before, NoLog, Ids
<1> QED
  BY <1>1, InductiveInvariant, SleepInvariant, PTL

(* However the channel and the select interleave, the relay's work after   *)
(* the terminal event is bounded: it has at most three steps an event.     *)
THEOREM RelaysRunOut == Spec => RelayRunsOut
<1> DEFINE Less(j) == stage[j] \in Past => \/ UNCHANGED << chan[j], relay[j] >>
                                           \/ Rest(j)' < Rest(j) /\ Rest(j)' \in Nat
           Kept == \A j \in Jobs : Less(j)
<1>1. ASSUME TypeOK, Next PROVE Kept
  <2> SUFFICES ASSUME NEW k \in Jobs, stage[k] \in Past PROVE Less(k)
    OBVIOUS
  <2>a. /\ chan \in [Jobs -> Seq(1 .. MaxEmits)] /\ Len(chan[k]) \in Nat
        /\ relay \in [Jobs -> {"off", "select", "received", "append", "exited"}]
    BY <1>1 DEF TypeOK
  <2>1. ASSUME UNCHANGED << chan, relay >> PROVE Less(k)
    BY <2>1
  <2>2. ASSUME NEW j \in Jobs, Submit(j) \/ Emit(j) PROVE Less(k)
    <3>1. j # k
      BY <2>2 DEF Submit, Emit, Past
    <3>2. chan'[k] = chan[k] /\ relay'[k] = relay[k]
      BY <2>2, <2>a, <3>1 DEF Submit, Emit, relayVars
    <3> QED
      BY <3>2
  <2>3. ASSUME NEW j \in Jobs, RelayReceive(j) PROVE Less(k)
    <3>1. CASE j # k
      BY <2>3, <2>a, <3>1 DEF RelayReceive
    <3>2. CASE j = k
      <4>1. /\ chan[k] # << >> /\ chan'[k] = Tail(chan[k]) /\ chan[k] \in Seq(1 .. MaxEmits)
            /\ relay[k] = "select" /\ relay'[k] = "received"
        BY <2>3, <2>a, <3>2 DEF RelayReceive
      <4>2. Len(chan'[k]) = Len(chan[k]) - 1 /\ Len(chan[k]) >= 1
        BY <4>1
      <4>3. RelayRank(relay[k]) = 1 /\ RelayRank(relay'[k]) = 3
        BY <4>1 DEF RelayRank
      <4>4. Rest(k)' = 3 * Len(chan'[k]) + RelayRank(relay'[k])
        BY DEF Rest
      <4> QED
        BY <2>a, <4>2, <4>3, <4>4 DEF Rest
    <3> QED
      BY <3>1, <3>2
  <2>4. ASSUME NEW j \in Jobs, RelayLookup(j) \/ RelayAppend(j) \/ RelayExit(j) PROVE Less(k)
    <3>1. chan' = chan
      BY <2>4 DEF RelayLookup, RelayAppend, RelayExit
    <3>2. CASE j # k
      BY <2>4, <2>a, <3>1, <3>2 DEF RelayLookup, RelayAppend, RelayExit
    <3>3. CASE j = k
      <4>1. /\ RelayRank(relay'[k]) < RelayRank(relay[k])
            /\ RelayRank(relay'[k]) \in Nat /\ RelayRank(relay[k]) \in Nat
        <5>1. \/ relay[k] = "received" /\ relay'[k] = "append"
              \/ relay[k] = "append" /\ relay'[k] = "select"
              \/ relay[k] = "select" /\ relay'[k] = "exited"
          BY <2>4, <2>a, <3>3 DEF RelayLookup, RelayAppend, RelayExit
        <5> QED
          BY <5>1 DEF RelayRank
      <4>2. Rest(k)' = 3 * Len(chan[k]) + RelayRank(relay'[k])
        BY <3>1 DEF Rest
      <4> QED
        BY <2>a, <4>1, <4>2 DEF Rest
    <3> QED
      BY <3>2, <3>3
  <2>5. ASSUME NEW j \in Jobs,
               \/ Request(j) \/ Announce(j) \/ AppendOwn(j) \/ NextFile(j) \/ IndexPathReturns(j)
               \/ FinalizeReturns(j) \/ StopRelay(j) \/ JoinRelay(j) \/ JobPanics(j)
        PROVE  Less(k)
    BY <2>1, <2>5 DEF Request, Announce, AppendOwn, NextFile, IndexPathReturns, FinalizeReturns,
       StopRelay, JoinRelay, JobPanics, relayVars
  <2>6. ASSUME NEW s \in Streams, Stream(s) \/ Leave(s) \/ Watcher(s) PROVE Less(k)
    BY <2>1, <2>6 DEF Stream, Snapshot, Flush, Clear, Leave, Watcher, StreamOnly, relayVars
  <2>7. ASSUME NEW s \in Streams, NEW j \in Jobs, Connect(s, j) PROVE Less(k)
    BY <2>1, <2>7 DEF Connect, StreamOnly, relayVars
  <2> QED
    BY <1>1, <2>2, <2>3, <2>4, <2>5, <2>6, <2>7 DEF Next, Job, Relay
<1>2. IInv => TypeOK
  BY DEF IInv
<1>3. IInv /\ [Next]_vars => [Kept]_vars
  BY <1>1, <1>2
<1> QED
  BY <1>3, InductiveInvariant, PTL DEF Spec, RelayRunsOut
=============================================================================
