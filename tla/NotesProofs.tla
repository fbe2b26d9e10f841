----------------------------- MODULE NotesProofs -----------------------------
(***************************************************************************)
(* Proofs about Notes, for any notes, calls, faults and bounds: its type   *)
(* invariant, the mutual exclusion by the project's lock, and that the     *)
(* history and the full-text index follow the files.                       *)
(***************************************************************************)
EXTENDS Notes, TLAPS

(* Which steps belong to which kind of call.                               *)
PcInv ==
    /\ \A c \in Imports : pc[c] \notin Locked \cup {"lock"} /\ note[c] \in Contents
    /\ \A c \in Writes \cup Deletes : pc[c] \notin {"next", "open", "fill", "read"}
    /\ \A c \in Writes : pc[c] # "remove" /\ note[c] = c
    /\ \A c \in Deletes : pc[c] \notin {"temp", "rename"}

(* A note that is not missed is staged as it is on disk, and committed     *)
(* unless the call that staged it is about to.                             *)
HistoryInv ==
    \A k \in Keys \ missed :
        /\ staged[k] = file[k]
        /\ \/ head[k] = staged[k]
           \/ \E c \in Calls : pc[c] = "commit" /\ key[c] = k

(* What a call has last put on disk for the note it has yet to index.      *)
OnDisk(c) ==
    /\ c \in Writes => file[key[c]] = c
    /\ c \in Deletes => file[key[c]] = Absent
    /\ c \in Imports /\ pc[c] = "fill" => file[key[c]] = Torn
    /\ c \in Imports /\ pc[c] = "read" => file[key[c]] = c
    /\ c \in Imports /\ pc[c] = "index" => file[key[c]] = note[c]

(* A call whose note is not raced has the note to itself, and the file is  *)
(* as the call left it.                                                    *)
RaceInv ==
    \A c \in Calls : pc[c] \in Unindexed /\ key[c] \notin raced =>
        /\ OnDisk(c)
        /\ \A d \in Calls \ {c} : key[d] = key[c] => pc[d] \notin Unindexed

(* A call of Write or Delete that is in the log has left git.              *)
LogInv ==
    \A c \in log : c \in Writes \cup Deletes /\ pc[c] \in {"index"} \cup Final

(* Under the lock a note holds what the call has put there, unless an      *)
(* import came by; and that is what the call then stages.                  *)
OwnInv ==
    \A c \in Writes \cup Deletes :
        /\ pc[c] \in {"init", "config", "add"} => Own(c, key[c], file[key[c]])
        /\ pc[c] = "commit" => Own(c, key[c], staged[key[c]])

(* What is staged and not committed belongs to a call that did not commit. *)
StagedInv ==
    \A k \in Keys : staged[k] # head[k] =>
        \E c \in Writes \cup Deletes :
            /\ Own(c, k, staged[k])
            /\ c \notin log /\ pc[c] \in {"commit", "index"} \cup Final

(* Half a note comes from an import that has begun with an entry.          *)
TornInv ==
    \A i \in Imports : pc[i] \in {"open", "fill", "read", "index"} => entries[i] > 0

IInv ==
    /\ LogInv /\ OwnInv /\ StagedInv
    /\ TornInv /\ TornOnlyByImport
    /\ TypeOK /\ PcInv
    /\ LockIsHeldByItsUser
    /\ HistoryInv
    /\ RaceInv
    /\ IndexAgreesUnlessRaced

-----------------------------------------------------------------------------

(* The inductive invariant holds of an empty project.                      *)
LEMMA InitIInv == Init => IInv
<1> SUFFICES ASSUME Init PROVE IInv
  OBVIOUS
<1> USE CallsAssumption, FaultsAssumption
<1>1. TypeOK
  BY DEF Init, TypeOK, Calls, Contents, Values, Locked, Unindexed, Final
<1>2. PcInv /\ LockIsHeldByItsUser
  BY DEF Init, PcInv, LockIsHeldByItsUser, Calls, Contents, Locked
<1>3. HistoryInv /\ RaceInv /\ IndexAgreesUnlessRaced
  BY DEF Init, HistoryInv, RaceInv, IndexAgreesUnlessRaced, Unindexed
<1>4. LogInv /\ OwnInv /\ StagedInv
  BY DEF Init, LogInv, OwnInv, StagedInv, Calls
<1>5. TornInv /\ TornOnlyByImport
  BY DEF Init, TornInv, TornOnlyByImport, Calls
<1> QED
  BY <1>1, <1>2, <1>3, <1>4, <1>5 DEF IInv

-----------------------------------------------------------------------------
(* Type correctness *)

(* Every step keeps the types.                                             *)
LEMMA TypeOKStep == TypeOK /\ PcInv /\ [Next]_vars => TypeOK'
<1> SUFFICES ASSUME TypeOK, PcInv, [Next]_vars PROVE TypeOK'
  OBVIOUS
<1> USE CallsAssumption, FaultsAssumption
    DEF Calls, Contents, Values, Locked, Unindexed, Final, disk, git
<1>1. ASSUME NEW c \in Calls, Begin(c) PROVE TypeOK'
  BY <1>1 DEF TypeOK, Begin, Goto
<1>2. ASSUME NEW c \in Calls, Acquire(c) PROVE TypeOK'
  BY <1>2 DEF TypeOK, PcInv, Acquire, Goto
<1>3. ASSUME NEW c \in Calls, WriteTemp(c) PROVE TypeOK'
  BY <1>3 DEF TypeOK, WriteTemp, Goto
<1>4. ASSUME NEW c \in Calls, Rename(c) PROVE TypeOK'
  BY <1>4 DEF TypeOK, PcInv, Rename, SetFile, Goto
<1>5. ASSUME NEW c \in Calls, Remove(c) PROVE TypeOK'
  BY <1>5 DEF TypeOK, Remove, SetFile, Goto
<1>6. ASSUME NEW c \in Calls, RemoveMissing(c) \/ DiskFails(c) PROVE TypeOK'
  BY <1>6 DEF TypeOK, RemoveMissing, DiskFails, Leave, Goto
<1>7. ASSUME NEW c \in Calls, InitRepo(c) \/ ConfigRepo(c) PROVE TypeOK'
  BY <1>7 DEF TypeOK, InitRepo, ConfigRepo, Goto
<1>8. ASSUME NEW c \in Calls, Add(c) PROVE TypeOK'
  BY <1>8 DEF TypeOK, Add, Goto
<1>9. ASSUME NEW c \in Calls, Commit(c) PROVE TypeOK'
  BY <1>9 DEF TypeOK, Commit, Leave, Goto
<1>10. ASSUME NEW c \in Calls, GitFails(c) PROVE TypeOK'
  BY <1>10 DEF TypeOK, GitFails, Leave, Goto
<1>11. ASSUME NEW c \in Calls, IndexNote(c) PROVE TypeOK'
  BY <1>11 DEF TypeOK, PcInv, IndexNote, Goto
<1>12. ASSUME NEW c \in Calls, DeleteNote(c) PROVE TypeOK'
  BY <1>12 DEF TypeOK, DeleteNote, Goto
<1>13. ASSUME NEW c \in Calls, IndexFails(c) PROVE TypeOK'
  BY <1>13 DEF TypeOK, IndexFails, IndexLost, Goto
<1>14. ASSUME NEW c \in Calls, NEW k \in Keys, ImportNext(c, k) PROVE TypeOK'
  BY <1>14 DEF TypeOK, ImportNext, Goto
<1>15. ASSUME NEW c \in Calls, ImportEnds(c) PROVE TypeOK'
  BY <1>15 DEF TypeOK, ImportEnds, Goto
<1>16. ASSUME NEW c \in Calls, ImportOpen(c) \/ ImportFill(c) PROVE TypeOK'
  BY <1>16 DEF TypeOK, PcInv, ImportOpen, ImportFill, SetFile, Goto
<1>17. ASSUME NEW c \in Calls, ReadBack(c) PROVE TypeOK'
  BY <1>17 DEF TypeOK, ReadBack, Goto
<1>18. ASSUME NEW c \in Calls, ImportFails(c) PROVE TypeOK'
  BY <1>18 DEF TypeOK, ImportFails, IndexLost, Goto
<1>19. CASE Crash
  BY <1>19 DEF TypeOK, Crash
<1>20. CASE UNCHANGED vars
  BY <1>20 DEF TypeOK, vars
<1> QED
  BY <1>1, <1>2, <1>3, <1>4, <1>5, <1>6, <1>7, <1>8, <1>9, <1>10, <1>11, <1>12,
     <1>13, <1>14, <1>15, <1>16, <1>17, <1>18, <1>19, <1>20 DEF Next, Progress

-----------------------------------------------------------------------------
(* The operations and the lock *)

(* Each kind of call keeps to its own steps.                               *)
LEMMA PcInvStep == TypeOK /\ PcInv /\ [Next]_vars => PcInv'
<1> SUFFICES ASSUME TypeOK, PcInv, [Next]_vars PROVE PcInv'
  OBVIOUS
<1> USE CallsAssumption DEF Calls, Contents, Values, Locked, Unindexed, Final, disk, git
<1>1. ASSUME NEW c \in Calls, Begin(c) PROVE PcInv'
  BY <1>1 DEF TypeOK, PcInv, Begin, Goto
<1>2. ASSUME NEW c \in Calls, Acquire(c) PROVE PcInv'
  BY <1>2 DEF TypeOK, PcInv, Acquire, Goto
<1>3. ASSUME NEW c \in Calls, WriteTemp(c) PROVE PcInv'
  BY <1>3 DEF TypeOK, PcInv, WriteTemp, Goto
<1>4. ASSUME NEW c \in Calls, Rename(c) PROVE PcInv'
  BY <1>4 DEF TypeOK, PcInv, Rename, SetFile, Goto
<1>5. ASSUME NEW c \in Calls, Remove(c) PROVE PcInv'
  BY <1>5 DEF TypeOK, PcInv, Remove, SetFile, Goto
<1>6. ASSUME NEW c \in Calls, RemoveMissing(c) \/ DiskFails(c) PROVE PcInv'
  BY <1>6 DEF TypeOK, PcInv, RemoveMissing, DiskFails, Leave, Goto
<1>7. ASSUME NEW c \in Calls, InitRepo(c) \/ ConfigRepo(c) PROVE PcInv'
  BY <1>7 DEF TypeOK, PcInv, InitRepo, ConfigRepo, Goto
<1>8. ASSUME NEW c \in Calls, Add(c) PROVE PcInv'
  BY <1>8 DEF TypeOK, PcInv, Add, Goto
<1>9. ASSUME NEW c \in Calls, Commit(c) \/ GitFails(c) PROVE PcInv'
  BY <1>9 DEF TypeOK, PcInv, Commit, GitFails, Leave, Goto
<1>10. ASSUME NEW c \in Calls, IndexNote(c) \/ DeleteNote(c) PROVE PcInv'
  BY <1>10 DEF TypeOK, PcInv, IndexNote, DeleteNote, Goto
<1>11. ASSUME NEW c \in Calls, IndexFails(c) PROVE PcInv'
  BY <1>11 DEF TypeOK, PcInv, IndexFails, IndexLost, Goto
<1>12. ASSUME NEW c \in Calls, NEW k \in Keys, ImportNext(c, k) PROVE PcInv'
  BY <1>12 DEF TypeOK, PcInv, ImportNext, Goto
<1>13. ASSUME NEW c \in Calls, ImportEnds(c) PROVE PcInv'
  BY <1>13 DEF TypeOK, PcInv, ImportEnds, Goto
<1>14. ASSUME NEW c \in Calls, ImportOpen(c) \/ ImportFill(c) PROVE PcInv'
  BY <1>14 DEF TypeOK, PcInv, ImportOpen, ImportFill, SetFile, Goto
<1>15. ASSUME NEW c \in Calls, ReadBack(c) PROVE PcInv'
  BY <1>15 DEF TypeOK, PcInv, ReadBack, Goto
<1>16. ASSUME NEW c \in Calls, ImportFails(c) PROVE PcInv'
  BY <1>16 DEF TypeOK, PcInv, ImportFails, IndexLost, Goto
<1>17. CASE Crash
  BY <1>17 DEF TypeOK, PcInv, Crash
<1>18. CASE UNCHANGED vars
  BY <1>18 DEF TypeOK, PcInv, vars
<1> QED
  BY <1>1, <1>2, <1>3, <1>4, <1>5, <1>6, <1>7, <1>8, <1>9, <1>10, <1>11, <1>12, <1>13, <1>14,
     <1>15, <1>16, <1>17, <1>18 DEF Next, Progress

(* The lock goes with its holder.                                          *)
LEMMA LockStep == TypeOK /\ PcInv /\ LockIsHeldByItsUser /\ [Next]_vars => LockIsHeldByItsUser'
<1> SUFFICES ASSUME TypeOK, PcInv, LockIsHeldByItsUser, [Next]_vars PROVE LockIsHeldByItsUser'
  OBVIOUS
<1> USE CallsAssumption DEF Calls, Locked, Unindexed, Final, disk, git
<1>1. ASSUME NEW c \in Calls, Begin(c) PROVE LockIsHeldByItsUser'
  BY <1>1 DEF TypeOK, PcInv, LockIsHeldByItsUser, Begin, Goto
<1>2. ASSUME NEW c \in Calls, Acquire(c) PROVE LockIsHeldByItsUser'
  BY <1>2 DEF TypeOK, PcInv, LockIsHeldByItsUser, Acquire, Goto
<1>3. ASSUME NEW c \in Calls, WriteTemp(c) PROVE LockIsHeldByItsUser'
  BY <1>3 DEF TypeOK, PcInv, LockIsHeldByItsUser, WriteTemp, Goto
<1>4. ASSUME NEW c \in Calls, Rename(c) PROVE LockIsHeldByItsUser'
  BY <1>4 DEF TypeOK, PcInv, LockIsHeldByItsUser, Rename, SetFile, Goto
<1>5. ASSUME NEW c \in Calls, Remove(c) PROVE LockIsHeldByItsUser'
  BY <1>5 DEF TypeOK, PcInv, LockIsHeldByItsUser, Remove, SetFile, Goto
<1>6. ASSUME NEW c \in Calls, RemoveMissing(c) \/ DiskFails(c) PROVE LockIsHeldByItsUser'
  BY <1>6 DEF TypeOK, PcInv, LockIsHeldByItsUser, RemoveMissing, DiskFails, Leave, Goto
<1>7. ASSUME NEW c \in Calls, InitRepo(c) \/ ConfigRepo(c) PROVE LockIsHeldByItsUser'
  BY <1>7 DEF TypeOK, PcInv, LockIsHeldByItsUser, InitRepo, ConfigRepo, Goto
<1>8. ASSUME NEW c \in Calls, Add(c) PROVE LockIsHeldByItsUser'
  BY <1>8 DEF TypeOK, PcInv, LockIsHeldByItsUser, Add, Goto
<1>9. ASSUME NEW c \in Calls, Commit(c) \/ GitFails(c) PROVE LockIsHeldByItsUser'
  BY <1>9 DEF TypeOK, PcInv, LockIsHeldByItsUser, Commit, GitFails, Leave, Goto
<1>10. ASSUME NEW c \in Calls, IndexNote(c) \/ DeleteNote(c) PROVE LockIsHeldByItsUser'
  BY <1>10 DEF TypeOK, PcInv, LockIsHeldByItsUser, IndexNote, DeleteNote, Goto
<1>11. ASSUME NEW c \in Calls, IndexFails(c) PROVE LockIsHeldByItsUser'
  BY <1>11 DEF TypeOK, PcInv, LockIsHeldByItsUser, IndexFails, IndexLost, Goto
<1>12. ASSUME NEW c \in Calls, NEW k \in Keys, ImportNext(c, k) PROVE LockIsHeldByItsUser'
  BY <1>12 DEF TypeOK, PcInv, LockIsHeldByItsUser, ImportNext, Goto
<1>13. ASSUME NEW c \in Calls, ImportEnds(c) PROVE LockIsHeldByItsUser'
  BY <1>13 DEF TypeOK, PcInv, LockIsHeldByItsUser, ImportEnds, Goto
<1>14. ASSUME NEW c \in Calls, ImportOpen(c) \/ ImportFill(c) PROVE LockIsHeldByItsUser'
  BY <1>14 DEF TypeOK, PcInv, LockIsHeldByItsUser, ImportOpen, ImportFill, SetFile, Goto
<1>15. ASSUME NEW c \in Calls, ReadBack(c) PROVE LockIsHeldByItsUser'
  BY <1>15 DEF TypeOK, PcInv, LockIsHeldByItsUser, ReadBack, Goto
<1>16. ASSUME NEW c \in Calls, ImportFails(c) PROVE LockIsHeldByItsUser'
  BY <1>16 DEF TypeOK, PcInv, LockIsHeldByItsUser, ImportFails, IndexLost, Goto
<1>17. CASE Crash
  BY <1>17 DEF TypeOK, PcInv, LockIsHeldByItsUser, Crash
<1>18. CASE UNCHANGED vars
  BY <1>18 DEF TypeOK, PcInv, LockIsHeldByItsUser, vars
<1> QED
  BY <1>1, <1>2, <1>3, <1>4, <1>5, <1>6, <1>7, <1>8, <1>9, <1>10, <1>11, <1>12, <1>13, <1>14,
     <1>15, <1>16, <1>17, <1>18 DEF Next, Progress

-----------------------------------------------------------------------------
(* The history and the index *)

(* The last commit follows what git add has read.                         *)
LEMMA HistoryStep == TypeOK /\ PcInv /\ HistoryInv /\ [Next]_vars => HistoryInv'
<1> SUFFICES ASSUME TypeOK, PcInv, HistoryInv, [Next]_vars PROVE HistoryInv'
  OBVIOUS
<1> USE CallsAssumption DEF Calls, Contents, Values, Locked, Unindexed, Final, disk, git
<1>1. ASSUME NEW c \in Calls, Begin(c) PROVE HistoryInv'
  BY <1>1 DEF TypeOK, PcInv, HistoryInv, Begin, Goto
<1>2. ASSUME NEW c \in Calls, Acquire(c) PROVE HistoryInv'
  BY <1>2 DEF TypeOK, PcInv, HistoryInv, Acquire, Goto
<1>3. ASSUME NEW c \in Calls, WriteTemp(c) PROVE HistoryInv'
  BY <1>3 DEF TypeOK, PcInv, HistoryInv, WriteTemp, Goto
<1>4. ASSUME NEW c \in Calls, Rename(c) PROVE HistoryInv'
  BY <1>4 DEF TypeOK, PcInv, HistoryInv, Rename, SetFile, Goto
<1>5. ASSUME NEW c \in Calls, Remove(c) PROVE HistoryInv'
  BY <1>5 DEF TypeOK, PcInv, HistoryInv, Remove, SetFile, Goto
<1>6. ASSUME NEW c \in Calls, RemoveMissing(c) \/ DiskFails(c) PROVE HistoryInv'
  BY <1>6 DEF TypeOK, PcInv, HistoryInv, RemoveMissing, DiskFails, Leave, Goto
<1>7. ASSUME NEW c \in Calls, InitRepo(c) \/ ConfigRepo(c) PROVE HistoryInv'
  BY <1>7 DEF TypeOK, PcInv, HistoryInv, InitRepo, ConfigRepo, Goto
<1>8. ASSUME NEW c \in Calls, Add(c) PROVE HistoryInv'
  BY <1>8 DEF TypeOK, PcInv, HistoryInv, Add, Goto
<1>9. ASSUME NEW c \in Calls, Commit(c) \/ GitFails(c) PROVE HistoryInv'
  <2>1. CASE Commit(c)
    <3>1. head' = staged
      <4>1. CASE Changed = {}
        <5>1. \A k \in Keys : head[k] = staged[k]
          BY <4>1 DEF Changed
        <5> QED
          BY <2>1, <4>1, <5>1 DEF TypeOK, Commit
      <4> QED
        BY <2>1, <4>1 DEF Commit
    <3>2. UNCHANGED << file, missed, staged >>
      BY <2>1 DEF Commit
    <3> QED
      BY <3>1, <3>2 DEF HistoryInv
  <2>2. CASE GitFails(c)
    BY <2>2 DEF TypeOK, PcInv, HistoryInv, GitFails, Leave, Goto
  <2> QED
    BY <1>9, <2>1, <2>2
<1>10. ASSUME NEW c \in Calls, IndexNote(c) \/ DeleteNote(c) PROVE HistoryInv'
  BY <1>10 DEF TypeOK, PcInv, HistoryInv, IndexNote, DeleteNote, Goto
<1>11. ASSUME NEW c \in Calls, IndexFails(c) PROVE HistoryInv'
  BY <1>11 DEF TypeOK, PcInv, HistoryInv, IndexFails, IndexLost, Goto
<1>12. ASSUME NEW c \in Calls, NEW k \in Keys, ImportNext(c, k) PROVE HistoryInv'
  BY <1>12 DEF TypeOK, PcInv, HistoryInv, ImportNext, Goto
<1>13. ASSUME NEW c \in Calls, ImportEnds(c) PROVE HistoryInv'
  BY <1>13 DEF TypeOK, PcInv, HistoryInv, ImportEnds, Goto
<1>14. ASSUME NEW c \in Calls, ImportOpen(c) \/ ImportFill(c) PROVE HistoryInv'
  BY <1>14 DEF TypeOK, PcInv, HistoryInv, ImportOpen, ImportFill, SetFile, Goto
<1>15. ASSUME NEW c \in Calls, ReadBack(c) PROVE HistoryInv'
  BY <1>15 DEF TypeOK, PcInv, HistoryInv, ReadBack, Goto
<1>16. ASSUME NEW c \in Calls, ImportFails(c) PROVE HistoryInv'
  BY <1>16 DEF TypeOK, PcInv, HistoryInv, ImportFails, IndexLost, Goto
<1>17. CASE Crash
  BY <1>17 DEF TypeOK, PcInv, HistoryInv, Crash
<1>18. CASE UNCHANGED vars
  BY <1>18 DEF TypeOK, PcInv, HistoryInv, vars
<1> QED
  BY <1>1, <1>2, <1>3, <1>4, <1>5, <1>6, <1>7, <1>8, <1>9, <1>10, <1>11, <1>12, <1>13, <1>14,
     <1>15, <1>16, <1>17, <1>18 DEF Next, Progress

(* A note that is not raced belongs to the call that has yet to index it.  *)
LEMMA RaceStep == TypeOK /\ PcInv /\ RaceInv /\ [Next]_vars => RaceInv'
<1> SUFFICES ASSUME TypeOK, PcInv, RaceInv, [Next]_vars PROVE RaceInv'
  OBVIOUS
<1> USE CallsAssumption DEF Calls, Contents, Values, Locked, Unindexed, Final, disk, git
<1>1. ASSUME NEW c \in Calls, Begin(c) PROVE RaceInv'
  BY <1>1 DEF TypeOK, PcInv, RaceInv, OnDisk, Begin, Goto
<1>2. ASSUME NEW c \in Calls, Acquire(c) PROVE RaceInv'
  BY <1>2 DEF TypeOK, PcInv, RaceInv, OnDisk, Acquire, Goto
<1>3. ASSUME NEW c \in Calls, WriteTemp(c) PROVE RaceInv'
  BY <1>3 DEF TypeOK, PcInv, RaceInv, OnDisk, WriteTemp, Goto
<1>4. ASSUME NEW c \in Calls, Rename(c) PROVE RaceInv'
  BY <1>4 DEF TypeOK, PcInv, RaceInv, OnDisk, Rename, SetFile, Goto
<1>5. ASSUME NEW c \in Calls, Remove(c) PROVE RaceInv'
  BY <1>5 DEF TypeOK, PcInv, RaceInv, OnDisk, Remove, SetFile, Goto
<1>6. ASSUME NEW c \in Calls, RemoveMissing(c) \/ DiskFails(c) PROVE RaceInv'
  BY <1>6 DEF TypeOK, PcInv, RaceInv, OnDisk, RemoveMissing, DiskFails, Leave, Goto
<1>7. ASSUME NEW c \in Calls, InitRepo(c) \/ ConfigRepo(c) PROVE RaceInv'
  BY <1>7 DEF TypeOK, PcInv, RaceInv, OnDisk, InitRepo, ConfigRepo, Goto
<1>8. ASSUME NEW c \in Calls, Add(c) PROVE RaceInv'
  BY <1>8 DEF TypeOK, PcInv, RaceInv, OnDisk, Add, Goto
<1>9. ASSUME NEW c \in Calls, Commit(c) \/ GitFails(c) PROVE RaceInv'
  BY <1>9 DEF TypeOK, PcInv, RaceInv, OnDisk, Commit, GitFails, Leave, Goto
<1>10. ASSUME NEW c \in Calls, IndexNote(c) \/ DeleteNote(c) PROVE RaceInv'
  BY <1>10 DEF TypeOK, PcInv, RaceInv, OnDisk, IndexNote, DeleteNote, Goto
<1>11. ASSUME NEW c \in Calls, IndexFails(c) PROVE RaceInv'
  BY <1>11 DEF TypeOK, PcInv, RaceInv, OnDisk, IndexFails, IndexLost, Goto
<1>12. ASSUME NEW c \in Calls, NEW k \in Keys, ImportNext(c, k) PROVE RaceInv'
  BY <1>12 DEF TypeOK, PcInv, RaceInv, OnDisk, ImportNext, Goto
<1>13. ASSUME NEW c \in Calls, ImportEnds(c) PROVE RaceInv'
  BY <1>13 DEF TypeOK, PcInv, RaceInv, OnDisk, ImportEnds, Goto
<1>14. ASSUME NEW c \in Calls, ImportOpen(c) \/ ImportFill(c) PROVE RaceInv'
  BY <1>14 DEF TypeOK, PcInv, RaceInv, OnDisk, ImportOpen, ImportFill, SetFile, Goto
<1>15. ASSUME NEW c \in Calls, ReadBack(c) PROVE RaceInv'
  BY <1>15 DEF TypeOK, PcInv, RaceInv, OnDisk, ReadBack, Goto
<1>16. ASSUME NEW c \in Calls, ImportFails(c) PROVE RaceInv'
  BY <1>16 DEF TypeOK, PcInv, RaceInv, OnDisk, ImportFails, IndexLost, Goto
<1>17. CASE Crash
  BY <1>17 DEF TypeOK, PcInv, RaceInv, OnDisk, Crash
<1>18. CASE UNCHANGED vars
  BY <1>18 DEF TypeOK, PcInv, RaceInv, OnDisk, vars
<1> QED
  BY <1>1, <1>2, <1>3, <1>4, <1>5, <1>6, <1>7, <1>8, <1>9, <1>10, <1>11, <1>12, <1>13, <1>14,
     <1>15, <1>16, <1>17, <1>18 DEF Next, Progress

(* An index update that no other overlapped stores what is on disk.        *)
LEMMA IndexStep == TypeOK /\ PcInv /\ RaceInv /\ IndexAgreesUnlessRaced /\ [Next]_vars => IndexAgreesUnlessRaced'
<1> SUFFICES ASSUME TypeOK, PcInv, RaceInv, IndexAgreesUnlessRaced, [Next]_vars PROVE IndexAgreesUnlessRaced'
  OBVIOUS
<1> USE CallsAssumption DEF Calls, Contents, Values, Locked, Unindexed, Final, disk, git
<1>1. ASSUME NEW c \in Calls, Begin(c) PROVE IndexAgreesUnlessRaced'
  BY <1>1 DEF TypeOK, PcInv, RaceInv, OnDisk, IndexAgreesUnlessRaced, Begin, Goto
<1>2. ASSUME NEW c \in Calls, Acquire(c) PROVE IndexAgreesUnlessRaced'
  BY <1>2 DEF TypeOK, PcInv, RaceInv, OnDisk, IndexAgreesUnlessRaced, Acquire, Goto
<1>3. ASSUME NEW c \in Calls, WriteTemp(c) PROVE IndexAgreesUnlessRaced'
  BY <1>3 DEF TypeOK, PcInv, RaceInv, OnDisk, IndexAgreesUnlessRaced, WriteTemp, Goto
<1>4. ASSUME NEW c \in Calls, Rename(c) PROVE IndexAgreesUnlessRaced'
  BY <1>4 DEF TypeOK, PcInv, RaceInv, OnDisk, IndexAgreesUnlessRaced, Rename, SetFile, Goto
<1>5. ASSUME NEW c \in Calls, Remove(c) PROVE IndexAgreesUnlessRaced'
  BY <1>5 DEF TypeOK, PcInv, RaceInv, OnDisk, IndexAgreesUnlessRaced, Remove, SetFile, Goto
<1>6. ASSUME NEW c \in Calls, RemoveMissing(c) \/ DiskFails(c) PROVE IndexAgreesUnlessRaced'
  BY <1>6
     DEF TypeOK, PcInv, RaceInv, OnDisk, IndexAgreesUnlessRaced, RemoveMissing, DiskFails,
         Leave, Goto
<1>7. ASSUME NEW c \in Calls, InitRepo(c) \/ ConfigRepo(c) PROVE IndexAgreesUnlessRaced'
  BY <1>7 DEF TypeOK, PcInv, RaceInv, OnDisk, IndexAgreesUnlessRaced, InitRepo, ConfigRepo, Goto
<1>8. ASSUME NEW c \in Calls, Add(c) PROVE IndexAgreesUnlessRaced'
  BY <1>8 DEF TypeOK, PcInv, RaceInv, OnDisk, IndexAgreesUnlessRaced, Add, Goto
<1>9. ASSUME NEW c \in Calls, Commit(c) \/ GitFails(c) PROVE IndexAgreesUnlessRaced'
  BY <1>9 DEF TypeOK, PcInv, RaceInv, OnDisk, IndexAgreesUnlessRaced, Commit, GitFails, Leave, Goto
<1>10. ASSUME NEW c \in Calls, IndexNote(c) \/ DeleteNote(c) PROVE IndexAgreesUnlessRaced'
  BY <1>10 DEF TypeOK, PcInv, RaceInv, OnDisk, IndexAgreesUnlessRaced, IndexNote, DeleteNote, Goto
<1>11. ASSUME NEW c \in Calls, IndexFails(c) PROVE IndexAgreesUnlessRaced'
  BY <1>11 DEF TypeOK, PcInv, RaceInv, OnDisk, IndexAgreesUnlessRaced, IndexFails, IndexLost, Goto
<1>12. ASSUME NEW c \in Calls, NEW k \in Keys, ImportNext(c, k) PROVE IndexAgreesUnlessRaced'
  BY <1>12 DEF TypeOK, PcInv, RaceInv, OnDisk, IndexAgreesUnlessRaced, ImportNext, Goto
<1>13. ASSUME NEW c \in Calls, ImportEnds(c) PROVE IndexAgreesUnlessRaced'
  BY <1>13 DEF TypeOK, PcInv, RaceInv, OnDisk, IndexAgreesUnlessRaced, ImportEnds, Goto
<1>14. ASSUME NEW c \in Calls, ImportOpen(c) \/ ImportFill(c) PROVE IndexAgreesUnlessRaced'
  BY <1>14
     DEF TypeOK, PcInv, RaceInv, OnDisk, IndexAgreesUnlessRaced, ImportOpen, ImportFill,
         SetFile, Goto
<1>15. ASSUME NEW c \in Calls, ReadBack(c) PROVE IndexAgreesUnlessRaced'
  BY <1>15 DEF TypeOK, PcInv, RaceInv, OnDisk, IndexAgreesUnlessRaced, ReadBack, Goto
<1>16. ASSUME NEW c \in Calls, ImportFails(c) PROVE IndexAgreesUnlessRaced'
  BY <1>16 DEF TypeOK, PcInv, RaceInv, OnDisk, IndexAgreesUnlessRaced, ImportFails, IndexLost, Goto
<1>17. CASE Crash
  BY <1>17 DEF TypeOK, PcInv, RaceInv, OnDisk, IndexAgreesUnlessRaced, Crash
<1>18. CASE UNCHANGED vars
  BY <1>18 DEF TypeOK, PcInv, RaceInv, OnDisk, IndexAgreesUnlessRaced, vars
<1> QED
  BY <1>1, <1>2, <1>3, <1>4, <1>5, <1>6, <1>7, <1>8, <1>9, <1>10, <1>11, <1>12, <1>13, <1>14,
     <1>15, <1>16, <1>17, <1>18 DEF Next, Progress

-----------------------------------------------------------------------------
(* The commits *)

(* A call commits at most once, on its way out of git.                       *)
LEMMA LogStep == TypeOK /\ PcInv /\ LogInv /\ [Next]_vars => LogInv'
<1> SUFFICES ASSUME TypeOK, PcInv, LogInv, [Next]_vars PROVE LogInv'
  OBVIOUS
<1> USE CallsAssumption DEF Calls, Contents, Values, Locked, Unindexed, Final, disk, git
<1>1. ASSUME NEW c \in Calls, Begin(c) PROVE LogInv'
  BY <1>1 DEF TypeOK, PcInv, LogInv, Begin, Goto
<1>2. ASSUME NEW c \in Calls, Acquire(c) PROVE LogInv'
  BY <1>2 DEF TypeOK, PcInv, LogInv, Acquire, Goto
<1>3. ASSUME NEW c \in Calls, WriteTemp(c) PROVE LogInv'
  BY <1>3 DEF TypeOK, PcInv, LogInv, WriteTemp, Goto
<1>4. ASSUME NEW c \in Calls, Rename(c) PROVE LogInv'
  BY <1>4 DEF TypeOK, PcInv, LogInv, Rename, SetFile, Goto
<1>5. ASSUME NEW c \in Calls, Remove(c) PROVE LogInv'
  BY <1>5 DEF TypeOK, PcInv, LogInv, Remove, SetFile, Goto
<1>6. ASSUME NEW c \in Calls, RemoveMissing(c) \/ DiskFails(c) PROVE LogInv'
  BY <1>6 DEF TypeOK, PcInv, LogInv, RemoveMissing, DiskFails, Leave, Goto
<1>7. ASSUME NEW c \in Calls, InitRepo(c) \/ ConfigRepo(c) PROVE LogInv'
  BY <1>7 DEF TypeOK, PcInv, LogInv, InitRepo, ConfigRepo, Goto
<1>8. ASSUME NEW c \in Calls, Add(c) PROVE LogInv'
  BY <1>8 DEF TypeOK, PcInv, LogInv, Add, Goto
<1>9. ASSUME NEW c \in Calls, Commit(c) \/ GitFails(c) PROVE LogInv'
  BY <1>9 DEF TypeOK, PcInv, LogInv, Commit, GitFails, Leave, Goto
<1>10. ASSUME NEW c \in Calls, IndexNote(c) \/ DeleteNote(c) PROVE LogInv'
  BY <1>10 DEF TypeOK, PcInv, LogInv, IndexNote, DeleteNote, Goto
<1>11. ASSUME NEW c \in Calls, IndexFails(c) PROVE LogInv'
  BY <1>11 DEF TypeOK, PcInv, LogInv, IndexFails, IndexLost, Goto
<1>12. ASSUME NEW c \in Calls, NEW k \in Keys, ImportNext(c, k) PROVE LogInv'
  BY <1>12 DEF TypeOK, PcInv, LogInv, ImportNext, Goto
<1>13. ASSUME NEW c \in Calls, ImportEnds(c) PROVE LogInv'
  BY <1>13 DEF TypeOK, PcInv, LogInv, ImportEnds, Goto
<1>14. ASSUME NEW c \in Calls, ImportOpen(c) \/ ImportFill(c) PROVE LogInv'
  BY <1>14 DEF TypeOK, PcInv, LogInv, ImportOpen, ImportFill, SetFile, Goto
<1>15. ASSUME NEW c \in Calls, ReadBack(c) PROVE LogInv'
  BY <1>15 DEF TypeOK, PcInv, LogInv, ReadBack, Goto
<1>16. ASSUME NEW c \in Calls, ImportFails(c) PROVE LogInv'
  BY <1>16 DEF TypeOK, PcInv, LogInv, ImportFails, IndexLost, Goto
<1>17. CASE Crash
  BY <1>17 DEF TypeOK, PcInv, LogInv, Crash
<1>18. CASE UNCHANGED vars
  BY <1>18 DEF TypeOK, PcInv, LogInv, vars
<1> QED
  BY <1>1, <1>2, <1>3, <1>4, <1>5, <1>6, <1>7, <1>8, <1>9, <1>10, <1>11, <1>12, <1>13, <1>14,
     <1>15, <1>16, <1>17, <1>18 DEF Next, Progress

(* The lock keeps other calls off the note until it is committed.           *)
LEMMA OwnStep == TypeOK /\ PcInv /\ LockIsHeldByItsUser /\ OwnInv /\ [Next]_vars => OwnInv'
<1> SUFFICES ASSUME TypeOK, PcInv, LockIsHeldByItsUser, OwnInv, [Next]_vars PROVE OwnInv'
  OBVIOUS
<1> USE CallsAssumption DEF Calls, Contents, Values, Locked, Unindexed, Final, disk, git
<1>1. ASSUME NEW c \in Calls, Begin(c) PROVE OwnInv'
  BY <1>1 DEF TypeOK, PcInv, LockIsHeldByItsUser, OwnInv, Own, Begin, Goto
<1>2. ASSUME NEW c \in Calls, Acquire(c) PROVE OwnInv'
  BY <1>2 DEF TypeOK, PcInv, LockIsHeldByItsUser, OwnInv, Own, Acquire, Goto
<1>3. ASSUME NEW c \in Calls, WriteTemp(c) PROVE OwnInv'
  BY <1>3 DEF TypeOK, PcInv, LockIsHeldByItsUser, OwnInv, Own, WriteTemp, Goto
<1>4. ASSUME NEW c \in Calls, Rename(c) PROVE OwnInv'
  BY <1>4 DEF TypeOK, PcInv, LockIsHeldByItsUser, OwnInv, Own, Rename, SetFile, Goto
<1>5. ASSUME NEW c \in Calls, Remove(c) PROVE OwnInv'
  BY <1>5 DEF TypeOK, PcInv, LockIsHeldByItsUser, OwnInv, Own, Remove, SetFile, Goto
<1>6. ASSUME NEW c \in Calls, RemoveMissing(c) \/ DiskFails(c) PROVE OwnInv'
  BY <1>6 DEF TypeOK, PcInv, LockIsHeldByItsUser, OwnInv, Own, RemoveMissing, DiskFails, Leave, Goto
<1>7. ASSUME NEW c \in Calls, InitRepo(c) \/ ConfigRepo(c) PROVE OwnInv'
  BY <1>7 DEF TypeOK, PcInv, LockIsHeldByItsUser, OwnInv, Own, InitRepo, ConfigRepo, Goto
<1>8. ASSUME NEW c \in Calls, Add(c) PROVE OwnInv'
  BY <1>8 DEF TypeOK, PcInv, LockIsHeldByItsUser, OwnInv, Own, Add, Goto
<1>9. ASSUME NEW c \in Calls, Commit(c) \/ GitFails(c) PROVE OwnInv'
  BY <1>9 DEF TypeOK, PcInv, LockIsHeldByItsUser, OwnInv, Own, Commit, GitFails, Leave, Goto
<1>10. ASSUME NEW c \in Calls, IndexNote(c) \/ DeleteNote(c) PROVE OwnInv'
  BY <1>10 DEF TypeOK, PcInv, LockIsHeldByItsUser, OwnInv, Own, IndexNote, DeleteNote, Goto
<1>11. ASSUME NEW c \in Calls, IndexFails(c) PROVE OwnInv'
  BY <1>11 DEF TypeOK, PcInv, LockIsHeldByItsUser, OwnInv, Own, IndexFails, IndexLost, Goto
<1>12. ASSUME NEW c \in Calls, NEW k \in Keys, ImportNext(c, k) PROVE OwnInv'
  BY <1>12 DEF TypeOK, PcInv, LockIsHeldByItsUser, OwnInv, Own, ImportNext, Goto
<1>13. ASSUME NEW c \in Calls, ImportEnds(c) PROVE OwnInv'
  BY <1>13 DEF TypeOK, PcInv, LockIsHeldByItsUser, OwnInv, Own, ImportEnds, Goto
<1>14. ASSUME NEW c \in Calls, ImportOpen(c) \/ ImportFill(c) PROVE OwnInv'
  BY <1>14
     DEF TypeOK, PcInv, LockIsHeldByItsUser, OwnInv, Own, ImportOpen, ImportFill, SetFile, Goto
<1>15. ASSUME NEW c \in Calls, ReadBack(c) PROVE OwnInv'
  BY <1>15 DEF TypeOK, PcInv, LockIsHeldByItsUser, OwnInv, Own, ReadBack, Goto
<1>16. ASSUME NEW c \in Calls, ImportFails(c) PROVE OwnInv'
  BY <1>16 DEF TypeOK, PcInv, LockIsHeldByItsUser, OwnInv, Own, ImportFails, IndexLost, Goto
<1>17. CASE Crash
  BY <1>17 DEF TypeOK, PcInv, LockIsHeldByItsUser, OwnInv, Own, Crash
<1>18. CASE UNCHANGED vars
  BY <1>18 DEF TypeOK, PcInv, LockIsHeldByItsUser, OwnInv, Own, vars
<1> QED
  BY <1>1, <1>2, <1>3, <1>4, <1>5, <1>6, <1>7, <1>8, <1>9, <1>10, <1>11, <1>12, <1>13, <1>14,
     <1>15, <1>16, <1>17, <1>18 DEF Next, Progress

(* Only git add stages, and a commit leaves nothing staged.                 *)
LEMMA StagedStep == TypeOK /\ PcInv /\ LogInv /\ OwnInv /\ StagedInv /\ [Next]_vars => StagedInv'
<1> SUFFICES ASSUME TypeOK, PcInv, LogInv, OwnInv, StagedInv, [Next]_vars PROVE StagedInv'
  OBVIOUS
<1> USE CallsAssumption DEF Calls, Contents, Values, Locked, Unindexed, Final, disk, git
<1>1. ASSUME NEW c \in Calls, Begin(c) PROVE StagedInv'
  BY <1>1 DEF TypeOK, PcInv, LogInv, OwnInv, StagedInv, Own, Begin, Goto
<1>2. ASSUME NEW c \in Calls, Acquire(c) PROVE StagedInv'
  BY <1>2 DEF TypeOK, PcInv, LogInv, OwnInv, StagedInv, Own, Acquire, Goto
<1>3. ASSUME NEW c \in Calls, WriteTemp(c) PROVE StagedInv'
  BY <1>3 DEF TypeOK, PcInv, LogInv, OwnInv, StagedInv, Own, WriteTemp, Goto
<1>4. ASSUME NEW c \in Calls, Rename(c) PROVE StagedInv'
  BY <1>4 DEF TypeOK, PcInv, LogInv, OwnInv, StagedInv, Own, Rename, SetFile, Goto
<1>5. ASSUME NEW c \in Calls, Remove(c) PROVE StagedInv'
  BY <1>5 DEF TypeOK, PcInv, LogInv, OwnInv, StagedInv, Own, Remove, SetFile, Goto
<1>6. ASSUME NEW c \in Calls, RemoveMissing(c) \/ DiskFails(c) PROVE StagedInv'
  BY <1>6 DEF TypeOK, PcInv, LogInv, OwnInv, StagedInv, Own, RemoveMissing, DiskFails, Leave, Goto
<1>7. ASSUME NEW c \in Calls, InitRepo(c) \/ ConfigRepo(c) PROVE StagedInv'
  BY <1>7 DEF TypeOK, PcInv, LogInv, OwnInv, StagedInv, Own, InitRepo, ConfigRepo, Goto
<1>8. ASSUME NEW c \in Calls, Add(c) PROVE StagedInv'
  BY <1>8 DEF TypeOK, PcInv, LogInv, OwnInv, StagedInv, Own, Add, Goto
<1>9. ASSUME NEW c \in Calls, Commit(c) \/ GitFails(c) PROVE StagedInv'
  BY <1>9 DEF TypeOK, PcInv, LogInv, OwnInv, StagedInv, Own, Commit, GitFails, Leave, Goto
<1>10. ASSUME NEW c \in Calls, IndexNote(c) \/ DeleteNote(c) PROVE StagedInv'
  BY <1>10 DEF TypeOK, PcInv, LogInv, OwnInv, StagedInv, Own, IndexNote, DeleteNote, Goto
<1>11. ASSUME NEW c \in Calls, IndexFails(c) PROVE StagedInv'
  BY <1>11 DEF TypeOK, PcInv, LogInv, OwnInv, StagedInv, Own, IndexFails, IndexLost, Goto
<1>12. ASSUME NEW c \in Calls, NEW k \in Keys, ImportNext(c, k) PROVE StagedInv'
  BY <1>12 DEF TypeOK, PcInv, LogInv, OwnInv, StagedInv, Own, ImportNext, Goto
<1>13. ASSUME NEW c \in Calls, ImportEnds(c) PROVE StagedInv'
  BY <1>13 DEF TypeOK, PcInv, LogInv, OwnInv, StagedInv, Own, ImportEnds, Goto
<1>14. ASSUME NEW c \in Calls, ImportOpen(c) \/ ImportFill(c) PROVE StagedInv'
  BY <1>14 DEF TypeOK, PcInv, LogInv, OwnInv, StagedInv, Own, ImportOpen, ImportFill, SetFile, Goto
<1>15. ASSUME NEW c \in Calls, ReadBack(c) PROVE StagedInv'
  BY <1>15 DEF TypeOK, PcInv, LogInv, OwnInv, StagedInv, Own, ReadBack, Goto
<1>16. ASSUME NEW c \in Calls, ImportFails(c) PROVE StagedInv'
  BY <1>16 DEF TypeOK, PcInv, LogInv, OwnInv, StagedInv, Own, ImportFails, IndexLost, Goto
<1>17. CASE Crash
  BY <1>17 DEF TypeOK, PcInv, LogInv, OwnInv, StagedInv, Own, Crash
<1>18. CASE UNCHANGED vars
  BY <1>18 DEF TypeOK, PcInv, LogInv, OwnInv, StagedInv, Own, vars
<1> QED
  BY <1>1, <1>2, <1>3, <1>4, <1>5, <1>6, <1>7, <1>8, <1>9, <1>10, <1>11, <1>12, <1>13, <1>14,
     <1>15, <1>16, <1>17, <1>18 DEF Next, Progress

(* An import that works has taken an entry.                                 *)
LEMMA TornStep == TypeOK /\ PcInv /\ TornInv /\ [Next]_vars => TornInv'
<1> SUFFICES ASSUME TypeOK, PcInv, TornInv, [Next]_vars PROVE TornInv'
  OBVIOUS
<1> USE CallsAssumption DEF Calls, Contents, Values, Locked, Unindexed, Final, disk, git
<1>1. ASSUME NEW c \in Calls, Begin(c) PROVE TornInv'
  BY <1>1 DEF TypeOK, PcInv, TornInv, Begin, Goto
<1>2. ASSUME NEW c \in Calls, Acquire(c) PROVE TornInv'
  BY <1>2 DEF TypeOK, PcInv, TornInv, Acquire, Goto
<1>3. ASSUME NEW c \in Calls, WriteTemp(c) PROVE TornInv'
  BY <1>3 DEF TypeOK, PcInv, TornInv, WriteTemp, Goto
<1>4. ASSUME NEW c \in Calls, Rename(c) PROVE TornInv'
  BY <1>4 DEF TypeOK, PcInv, TornInv, Rename, SetFile, Goto
<1>5. ASSUME NEW c \in Calls, Remove(c) PROVE TornInv'
  BY <1>5 DEF TypeOK, PcInv, TornInv, Remove, SetFile, Goto
<1>6. ASSUME NEW c \in Calls, RemoveMissing(c) \/ DiskFails(c) PROVE TornInv'
  BY <1>6 DEF TypeOK, PcInv, TornInv, RemoveMissing, DiskFails, Leave, Goto
<1>7. ASSUME NEW c \in Calls, InitRepo(c) \/ ConfigRepo(c) PROVE TornInv'
  BY <1>7 DEF TypeOK, PcInv, TornInv, InitRepo, ConfigRepo, Goto
<1>8. ASSUME NEW c \in Calls, Add(c) PROVE TornInv'
  BY <1>8 DEF TypeOK, PcInv, TornInv, Add, Goto
<1>9. ASSUME NEW c \in Calls, Commit(c) \/ GitFails(c) PROVE TornInv'
  BY <1>9 DEF TypeOK, PcInv, TornInv, Commit, GitFails, Leave, Goto
<1>10. ASSUME NEW c \in Calls, IndexNote(c) \/ DeleteNote(c) PROVE TornInv'
  BY <1>10 DEF TypeOK, PcInv, TornInv, IndexNote, DeleteNote, Goto
<1>11. ASSUME NEW c \in Calls, IndexFails(c) PROVE TornInv'
  BY <1>11 DEF TypeOK, PcInv, TornInv, IndexFails, IndexLost, Goto
<1>12. ASSUME NEW c \in Calls, NEW k \in Keys, ImportNext(c, k) PROVE TornInv'
  BY <1>12 DEF TypeOK, PcInv, TornInv, ImportNext, Goto
<1>13. ASSUME NEW c \in Calls, ImportEnds(c) PROVE TornInv'
  BY <1>13 DEF TypeOK, PcInv, TornInv, ImportEnds, Goto
<1>14. ASSUME NEW c \in Calls, ImportOpen(c) \/ ImportFill(c) PROVE TornInv'
  BY <1>14 DEF TypeOK, PcInv, TornInv, ImportOpen, ImportFill, SetFile, Goto
<1>15. ASSUME NEW c \in Calls, ReadBack(c) PROVE TornInv'
  BY <1>15 DEF TypeOK, PcInv, TornInv, ReadBack, Goto
<1>16. ASSUME NEW c \in Calls, ImportFails(c) PROVE TornInv'
  BY <1>16 DEF TypeOK, PcInv, TornInv, ImportFails, IndexLost, Goto
<1>17. CASE Crash
  BY <1>17 DEF TypeOK, PcInv, TornInv, Crash
<1>18. CASE UNCHANGED vars
  BY <1>18 DEF TypeOK, PcInv, TornInv, vars
<1> QED
  BY <1>1, <1>2, <1>3, <1>4, <1>5, <1>6, <1>7, <1>8, <1>9, <1>10, <1>11, <1>12, <1>13, <1>14,
     <1>15, <1>16, <1>17, <1>18 DEF Next, Progress

(* Nothing but an import's file is ever half written.                       *)
LEMMA TornOnlyStep == TypeOK /\ PcInv /\ TornInv /\ TornOnlyByImport /\ [Next]_vars => TornOnlyByImport'
<1> SUFFICES ASSUME TypeOK, PcInv, TornInv, TornOnlyByImport, [Next]_vars PROVE TornOnlyByImport'
  OBVIOUS
<1> USE CallsAssumption DEF Calls, Contents, Values, Locked, Unindexed, Final, disk, git
<1>1. ASSUME NEW c \in Calls, Begin(c) PROVE TornOnlyByImport'
  BY <1>1 DEF TypeOK, PcInv, TornInv, TornOnlyByImport, Begin, Goto
<1>2. ASSUME NEW c \in Calls, Acquire(c) PROVE TornOnlyByImport'
  BY <1>2 DEF TypeOK, PcInv, TornInv, TornOnlyByImport, Acquire, Goto
<1>3. ASSUME NEW c \in Calls, WriteTemp(c) PROVE TornOnlyByImport'
  BY <1>3 DEF TypeOK, PcInv, TornInv, TornOnlyByImport, WriteTemp, Goto
<1>4. ASSUME NEW c \in Calls, Rename(c) PROVE TornOnlyByImport'
  BY <1>4 DEF TypeOK, PcInv, TornInv, TornOnlyByImport, Rename, SetFile, Goto
<1>5. ASSUME NEW c \in Calls, Remove(c) PROVE TornOnlyByImport'
  BY <1>5 DEF TypeOK, PcInv, TornInv, TornOnlyByImport, Remove, SetFile, Goto
<1>6. ASSUME NEW c \in Calls, RemoveMissing(c) \/ DiskFails(c) PROVE TornOnlyByImport'
  BY <1>6 DEF TypeOK, PcInv, TornInv, TornOnlyByImport, RemoveMissing, DiskFails, Leave, Goto
<1>7. ASSUME NEW c \in Calls, InitRepo(c) \/ ConfigRepo(c) PROVE TornOnlyByImport'
  BY <1>7 DEF TypeOK, PcInv, TornInv, TornOnlyByImport, InitRepo, ConfigRepo, Goto
<1>8. ASSUME NEW c \in Calls, Add(c) PROVE TornOnlyByImport'
  BY <1>8 DEF TypeOK, PcInv, TornInv, TornOnlyByImport, Add, Goto
<1>9. ASSUME NEW c \in Calls, Commit(c) \/ GitFails(c) PROVE TornOnlyByImport'
  BY <1>9 DEF TypeOK, PcInv, TornInv, TornOnlyByImport, Commit, GitFails, Leave, Goto
<1>10. ASSUME NEW c \in Calls, IndexNote(c) \/ DeleteNote(c) PROVE TornOnlyByImport'
  BY <1>10 DEF TypeOK, PcInv, TornInv, TornOnlyByImport, IndexNote, DeleteNote, Goto
<1>11. ASSUME NEW c \in Calls, IndexFails(c) PROVE TornOnlyByImport'
  BY <1>11 DEF TypeOK, PcInv, TornInv, TornOnlyByImport, IndexFails, IndexLost, Goto
<1>12. ASSUME NEW c \in Calls, NEW k \in Keys, ImportNext(c, k) PROVE TornOnlyByImport'
  BY <1>12 DEF TypeOK, PcInv, TornInv, TornOnlyByImport, ImportNext, Goto
<1>13. ASSUME NEW c \in Calls, ImportEnds(c) PROVE TornOnlyByImport'
  BY <1>13 DEF TypeOK, PcInv, TornInv, TornOnlyByImport, ImportEnds, Goto
<1>14. ASSUME NEW c \in Calls, ImportOpen(c) \/ ImportFill(c) PROVE TornOnlyByImport'
  BY <1>14 DEF TypeOK, PcInv, TornInv, TornOnlyByImport, ImportOpen, ImportFill, SetFile, Goto
<1>15. ASSUME NEW c \in Calls, ReadBack(c) PROVE TornOnlyByImport'
  BY <1>15 DEF TypeOK, PcInv, TornInv, TornOnlyByImport, ReadBack, Goto
<1>16. ASSUME NEW c \in Calls, ImportFails(c) PROVE TornOnlyByImport'
  BY <1>16 DEF TypeOK, PcInv, TornInv, TornOnlyByImport, ImportFails, IndexLost, Goto
<1>17. CASE Crash
  BY <1>17 DEF TypeOK, PcInv, TornInv, TornOnlyByImport, Crash
<1>18. CASE UNCHANGED vars
  BY <1>18 DEF TypeOK, PcInv, TornInv, TornOnlyByImport, vars
<1> QED
  BY <1>1, <1>2, <1>3, <1>4, <1>5, <1>6, <1>7, <1>8, <1>9, <1>10, <1>11, <1>12, <1>13, <1>14,
     <1>15, <1>16, <1>17, <1>18 DEF Next, Progress

-----------------------------------------------------------------------------
(* The invariant and what follows from it *)

(* Every reachable state satisfies the inductive invariant.                *)
LEMMA InductiveInvariant == Spec => []IInv
<1>1. IInv /\ [Next]_vars => IInv'
  BY TypeOKStep, PcInvStep, LockStep, HistoryStep, RaceStep, IndexStep,
     LogStep, OwnStep, StagedStep, TornStep, TornOnlyStep DEF IInv
<1> QED
  BY InitIInv, <1>1, PTL DEF Spec

(* Types: the calls, files, trees and rows are what the declarations say.  *)
THEOREM NotesTypeCorrect == Spec => []TypeOK
<1>1. IInv => TypeOK
  BY DEF IInv
<1> QED
  BY <1>1, InductiveInvariant, PTL

(* The project's lock (lockFor in history.go) is held by a call that is    *)
(* between its lock and its unlock, and by nobody else.                    *)
THEOREM LockAlwaysHeldByItsUser == Spec => []LockIsHeldByItsUser
<1>1. IInv => LockIsHeldByItsUser
  BY DEF IInv
<1> QED
  BY <1>1, InductiveInvariant, PTL

(* Write and Delete exclude each other: at most one is between the change  *)
(* of a file and its commit.                                               *)
THEOREM WritersExclude ==
    Spec => [](\A c, d \in Writes \cup Deletes :
                  pc[c] \in Locked /\ pc[d] \in Locked => c = d)
<1>1. IInv => \A c, d \in Writes \cup Deletes :
                  pc[c] \in Locked /\ pc[d] \in Locked => c = d
  BY DEF IInv, LockIsHeldByItsUser
<1> QED
  BY <1>1, InductiveInvariant, PTL

(* Between calls the last commit holds each note as it is on disk, but for *)
(* those an import changed or a git failure or a crash left behind.        *)
THEOREM HistoryAlwaysCatchesUp == Spec => []HistoryCatchesUp
<1>1. IInv => HistoryCatchesUp
  <2> SUFFICES ASSUME IInv, lock = Free, NEW k \in Keys \ missed
               PROVE  head[k] = file[k]
    BY DEF HistoryCatchesUp
  <2>1. \A c \in Calls : pc[c] # "commit"
    BY CallsAssumption DEF IInv, PcInv, LockIsHeldByItsUser, Calls, Locked
  <2> QED
    BY <2>1 DEF IInv, HistoryInv
<1> QED
  BY <1>1, InductiveInvariant, PTL

(* The full-text row of a note is that of its file when nobody is between  *)
(* the two, unless updates overlapped, failed or were killed.              *)
THEOREM IndexAlwaysAgreesUnlessRaced == Spec => []IndexAgreesUnlessRaced
<1>1. IInv => IndexAgreesUnlessRaced
  BY DEF IInv
<1> QED
  BY <1>1, InductiveInvariant, PTL

(* A note is half written only by an import, whatever fails or is killed.  *)
THEOREM OnlyImportsTear == Spec => []TornOnlyByImport
<1>1. IInv => TornOnlyByImport
  BY DEF IInv
<1> QED
  BY <1>1, InductiveInvariant, PTL

(* What the committing call m puts into the head is its own change, or was *)
(* left staged by a call that could not commit.                            *)
LEMMA CommitStep ==
    ASSUME IInv, [Next]_vars, NEW m \in Calls, pc[m] = "commit", pc'[m] = "index",
           NEW k \in Keys, head'[k] # head[k]
    PROVE  \E c \in Writes \cup Deletes :
              /\ Own(c, k, head'[k])
              /\ \/ c = m
                 \/ k # key[m] /\ c \notin log /\ pc[c] \in Final \cup {"index"}
<1>1. m \in Writes \cup Deletes /\ lock = m
  BY DEF IInv, PcInv, LockIsHeldByItsUser, Calls, Locked
<1>2. staged[k] # head[k] /\ head'[k] = staged[k]
  <2>1. ASSUME NEW c \in Calls, Commit(c) PROVE head' = head \/ head' = staged
    BY <2>1 DEF Commit
  <2>2. ASSUME ~ \E c \in Calls : Commit(c) PROVE head' = head
    BY <2>2 DEF Next, Progress, vars, git, Begin, Acquire, WriteTemp, Rename, Remove,
       RemoveMissing, DiskFails, InitRepo, ConfigRepo, Add, GitFails, IndexNote,
       DeleteNote, IndexFails, ImportNext, ImportEnds, ImportOpen, ImportFill,
       ReadBack, ImportFails, Crash
  <2> QED
    BY <2>1, <2>2
<1>3. CASE k = key[m]
  BY <1>1, <1>2, <1>3 DEF IInv, OwnInv
<1>4. CASE k # key[m]
  <2>1. PICK c \in Writes \cup Deletes :
           /\ Own(c, k, staged[k])
           /\ c \notin log /\ pc[c] \in {"commit", "index"} \cup Final
    BY <1>2 DEF IInv, StagedInv
  <2>2. pc[c] # "commit"
    BY <1>1, <1>4, <2>1 DEF IInv, LockIsHeldByItsUser, Locked, Own
  <2> QED
    BY <1>2, <1>4, <2>1, <2>2
<1> QED
  BY <1>3, <1>4

(* A commit made for a note records that note's own change, and never the  *)
(* change of another call that is under way.                               *)
THEOREM CommitsRecordTheirOwnChange == Spec => CommitRecordsItsOwnChange
<1>1. IInv /\ [Next]_vars =>
        [\A m \in Calls : pc[m] = "commit" /\ pc'[m] = "index" =>
           \A k \in Keys : head'[k] # head[k] =>
              \E c \in Writes \cup Deletes :
                /\ Own(c, k, head'[k])
                /\ \/ c = m
                   \/ k # key[m] /\ c \notin log /\ pc[c] \in Final \cup {"index"}]_vars
  BY CommitStep
<1> QED
  BY <1>1, InductiveInvariant, PTL DEF Spec, CommitRecordsItsOwnChange
=============================================================================
