-------------------------------- MODULE Notes --------------------------------
(***************************************************************************)
(* The notes of one project: markdown files, the git repository that       *)
(* records their history and the full-text index in the project's store.   *)
(* Write and Delete (internal/notes/notes.go) hold the project's lock over *)
(* the change of the file and the commit (history.go); the HTTP handlers   *)
(* and MCP tools update the full-text index after the lock is released.    *)
(* The tar import takes no lock and makes no commit.                       *)
(*                                                                         *)
(* Write stamps each note with the time in nanoseconds, so the content of  *)
(* a write differs from every other: the call itself stands for it.  git   *)
(* is external: it has an index (staged), a head and a log, and each of    *)
(* its commands may fail.  A crash ends the process with all its calls.    *)
(***************************************************************************)
EXTENDS Naturals

CONSTANTS
    Keys,                       \* the notes of the project
    Writes, Deletes, Imports,   \* calls of write, delete and tar import
    Absent,                     \* no file, no row, no entry in a tree
    Torn,                       \* a file that is being written in place
    Free,                       \* the value of the lock that nobody holds
    Faults,                     \* which of "disk", "git", "index" can fail
    MaxEntries,                 \* bound: entries of one archive
    MaxCrashes                  \* bound: crashes of the process

Calls == Writes \cup Deletes \cup Imports
Contents == Writes \cup Imports \cup {Torn}
Values == Contents \cup {Absent}

ASSUME CallsAssumption ==
    /\ Writes \cap Deletes = {}
    /\ Imports \cap (Writes \cup Deletes) = {}
    /\ {Torn, Absent, Free} \cap Calls = {}
    /\ Torn # Absent
(* Two imports at once would mix their bytes in one file; left out.        *)
ASSUME OneImportAssumption == \A i, j \in Imports : i = j
ASSUME FaultsAssumption ==
    /\ Faults \subseteq {"disk", "git", "index"}
    /\ MaxEntries \in Nat /\ MaxCrashes \in Nat

VARIABLES
    pc,       \* where each call is
    key,      \* the note a call is about; of an import, the current entry
    note,     \* the Note value a call indexes
    entries,  \* entries of the archive each import has taken
    lock,     \* holder of lockFor(notesDir)
    file,     \* the note's file
    repo,     \* "none", "plain" (no identity configured) or "ready"
    staged,   \* git's index
    head,     \* the tree of the last commit
    log,      \* the calls that made a commit, in any order
    fts,      \* the rows of notes_fts
    crashes,
    missed,   \* history variable: notes changed since their last git add,
              \* or whose git commands failed or were killed
    raced     \* history variable: notes whose index update was overlapped
              \* by another change of the file, failed or was killed

disk == << file, missed, raced >>
git == << repo, staged, head, log >>
vars == << pc, key, note, entries, lock, file, repo, staged, head, log, fts,
           crashes, missed, raced >>

Locked == {"temp", "rename", "remove", "init", "config", "add", "commit"}
Unindexed == {"init", "config", "add", "commit", "index", "fill", "read"}
Final == {"done", "error", "killed"}

TypeOK ==
    /\ pc \in [Calls -> {"idle", "lock", "next", "open"} \cup Locked \cup Unindexed \cup Final]
    /\ key \in [Calls -> Keys]
    /\ note \in [Calls -> Contents \cup Deletes]
    /\ entries \in [Imports -> 0 .. MaxEntries]
    /\ lock \in Writes \cup Deletes \cup {Free}
    /\ file \in [Keys -> Values] /\ fts \in [Keys -> Values]
    /\ staged \in [Keys -> Values] /\ head \in [Keys -> Values]
    /\ repo \in {"none", "plain", "ready"}
    /\ log \subseteq Calls
    /\ crashes \in 0 .. MaxCrashes
    /\ missed \subseteq Keys /\ raced \subseteq Keys

Init ==
    /\ pc = [c \in Calls |-> "idle"]
    /\ key \in [Calls -> Keys]
    /\ note = [c \in Calls |-> c]
    /\ entries = [i \in Imports |-> 0]
    /\ lock = Free
    /\ repo = "none"
    /\ file = [k \in Keys |-> Absent]
    /\ fts = file /\ staged = file /\ head = file
    /\ log = {}
    /\ crashes = 0
    /\ missed = {}
    /\ raced = {}

-----------------------------------------------------------------------------
(* Steps that several operations share *)

Goto(c, where) == pc' = [pc EXCEPT ![c] = where]

(* The call leaves Write or Delete: the deferred Unlock runs.              *)
Leave(c, where) == Goto(c, where) /\ lock' = Free

(* A change of the note's file.  Another call that changed it and has not  *)
(* updated the index yet makes the outcome of the two updates open.        *)
SetFile(c, value) ==
    LET k == key[c] IN
    /\ file' = [file EXCEPT ![k] = value]
    /\ missed' = missed \cup {k}
    /\ raced' = IF \E d \in Calls \ {c} : key[d] = k /\ pc[d] \in Unindexed
                THEN raced \cup {k}
                ELSE raced \ {k}

(* Nothing reached the index for this call.                                *)
IndexLost(c) == raced' = raced \cup {key[c]}

Begin(c) ==
    /\ pc[c] = "idle"
    /\ Goto(c, IF c \in Imports THEN "next" ELSE "lock")
    /\ UNCHANGED << key, note, entries, lock, disk, git, fts, crashes >>

Acquire_PerNote(c) ==
    /\ pc[c] = "lock"
    /\ \A d \in {lock} \ {Free} : key[d] # key[c]
    /\ lock' = c
    /\ Goto(c, IF c \in Writes THEN "temp" ELSE "remove")
    /\ UNCHANGED << key, note, entries, disk, git, fts, crashes >>

Acquire(c) ==
    /\ pc[c] = "lock"
    /\ lock = Free
    /\ lock' = c
    /\ Goto(c, IF c \in Writes THEN "temp" ELSE "remove")
    /\ UNCHANGED << key, note, entries, disk, git, fts, crashes >>

-----------------------------------------------------------------------------
(* notes.Write and notes.Delete *)

WriteTemp_InPlace(c) ==
    /\ pc[c] = "temp"
    /\ SetFile(c, Torn)
    /\ Goto(c, "rename")
    /\ UNCHANGED << key, note, entries, lock, git, fts, crashes >>

(* The temporary file is not a note: nothing else sees it.                 *)
WriteTemp(c) ==
    /\ pc[c] = "temp"
    /\ Goto(c, "rename")
    /\ UNCHANGED << key, note, entries, lock, disk, git, fts, crashes >>

Rename(c) ==
    /\ pc[c] = "rename"
    /\ SetFile(c, c)
    /\ Goto(c, "init")
    /\ UNCHANGED << key, note, entries, lock, git, fts, crashes >>

Remove(c) ==
    /\ pc[c] = "remove" /\ file[key[c]] # Absent
    /\ SetFile(c, Absent)
    /\ Goto(c, "init")
    /\ UNCHANGED << key, note, entries, lock, git, fts, crashes >>

RemoveMissing(c) ==
    /\ pc[c] = "remove" /\ file[key[c]] = Absent
    /\ Leave(c, "error")
    /\ UNCHANGED << key, note, entries, disk, git, fts, crashes >>

(* The temporary file, the rename or the removal fails: the note is as it  *)
(* was and the call ends.                                                  *)
DiskFails(c) ==
    /\ "disk" \in Faults
    /\ pc[c] \in {"temp", "rename", "remove"}
    /\ Leave(c, "error")
    /\ UNCHANGED << key, note, entries, disk, git, fts, crashes >>

-----------------------------------------------------------------------------
(* autoCommit, entered with the lock held; it never fails its caller *)

(* A new repository gets its identity in later commands than "git init".   *)
InitRepo(c) ==
    /\ pc[c] = "init"
    /\ IF repo = "none" THEN repo' = "plain" /\ Goto(c, "config")
                        ELSE repo' = repo /\ Goto(c, "add")
    /\ UNCHANGED << key, note, entries, lock, disk, staged, head, log, fts, crashes >>

ConfigRepo(c) ==
    /\ pc[c] = "config"
    /\ repo' = "ready"
    /\ Goto(c, "add")
    /\ UNCHANGED << key, note, entries, lock, disk, staged, head, log, fts, crashes >>

Untracked(k) == file[k] = Absent /\ staged[k] = Absent

Add_Unlocks(c) ==
    /\ pc[c] = "add" /\ ~Untracked(key[c])
    /\ staged' = [staged EXCEPT ![key[c]] = file[key[c]]]
    /\ missed' = missed \ {key[c]}
    /\ Leave(c, "commit")
    /\ UNCHANGED << key, note, entries, file, raced, repo, head, log, fts, crashes >>

(* git add reads the file as it is now.                                    *)
Add(c) ==
    /\ pc[c] = "add" /\ ~Untracked(key[c])
    /\ staged' = [staged EXCEPT ![key[c]] = file[key[c]]]
    /\ missed' = missed \ {key[c]}
    /\ Goto(c, "commit")
    /\ UNCHANGED << key, note, entries, lock, file, raced, repo, head, log, fts, crashes >>

(* What a commit made now records: all that is staged, whoever staged it.  *)
Changed == {k \in Keys : staged[k] # head[k]}

Commit(c) ==
    /\ pc[c] = "commit"
    /\ IF Changed = {}
         THEN UNCHANGED << head, log >>
         ELSE /\ head' = staged
              /\ log' = log \cup {c}
    /\ Leave(c, "index")
    /\ UNCHANGED << key, note, entries, disk, repo, staged, fts, crashes >>

(* A git command exits with an error: autoCommit logs a warning.  That is  *)
(* certain for a path git has never seen, and possible for a commit        *)
(* without an identity.                                                    *)
GitFails(c) ==
    /\ \/ "git" \in Faults /\ pc[c] \in {"init", "config", "add", "commit"}
       \/ pc[c] = "add" /\ Untracked(key[c])
       \/ pc[c] = "commit" /\ repo = "plain"
    /\ missed' = missed \cup {key[c]}
    /\ Leave(c, "index")
    /\ UNCHANGED << key, note, entries, file, raced, git, fts, crashes >>

-----------------------------------------------------------------------------
(* The handlers, after Write or Delete has returned *)

(* IndexNote replaces the row in one transaction.  An import goes on with  *)
(* the next entry of its archive.                                          *)
IndexNote(c) ==
    /\ pc[c] = "index" /\ c \notin Deletes
    /\ fts' = [fts EXCEPT ![key[c]] = note[c]]
    /\ Goto(c, IF c \in Imports THEN "next" ELSE "done")
    /\ UNCHANGED << key, note, entries, lock, disk, git, crashes >>

DeleteNote_KeepsRow(c) ==
    /\ pc[c] = "index" /\ c \in Deletes
    /\ Goto(c, "done")
    /\ UNCHANGED << key, note, entries, lock, disk, git, fts, crashes >>

DeleteNote(c) ==
    /\ pc[c] = "index" /\ c \in Deletes
    /\ fts' = [fts EXCEPT ![key[c]] = Absent]
    /\ Goto(c, "done")
    /\ UNCHANGED << key, note, entries, lock, disk, git, crashes >>

(* The store does not open, which writeNote reports, or the statement      *)
(* fails, which nobody reports; the file and the commit stay.              *)
IndexFails(c) ==
    /\ "index" \in Faults
    /\ pc[c] = "index"
    /\ \/ Goto(c, IF c \in Imports THEN "next" ELSE "done")
       \/ c \in Writes /\ Goto(c, "error")
    /\ IndexLost(c)
    /\ UNCHANGED << key, note, entries, lock, file, missed, git, fts, crashes >>

-----------------------------------------------------------------------------
(* importTar: for each entry os.WriteFile, notes.Read and IndexNote *)

ImportNext(i, k) ==
    /\ i \in Imports /\ pc[i] = "next" /\ entries[i] < MaxEntries
    /\ entries' = [entries EXCEPT ![i] = @ + 1]
    /\ key' = [key EXCEPT ![i] = k]
    /\ Goto(i, "open")
    /\ UNCHANGED << note, lock, disk, git, fts, crashes >>

(* The end of the archive, or an entry that is refused.                    *)
ImportEnds(i) ==
    /\ i \in Imports /\ pc[i] = "next"
    /\ Goto(i, "done")
    /\ UNCHANGED << key, note, entries, lock, disk, git, fts, crashes >>

(* os.WriteFile truncates the file, then fills it.                         *)
ImportOpen(i) ==
    /\ pc[i] = "open"
    /\ SetFile(i, Torn)
    /\ Goto(i, "fill")
    /\ UNCHANGED << key, note, entries, lock, git, fts, crashes >>

(* A file that was renamed over or removed meanwhile does not get the      *)
(* bytes: they go to the old one, which has no name any more.              *)
ImportFill(i) ==
    /\ pc[i] = "fill"
    /\ IF file[key[i]] = Torn THEN SetFile(i, i) ELSE UNCHANGED disk
    /\ Goto(i, "read")
    /\ UNCHANGED << key, note, entries, lock, git, fts, crashes >>

(* A note that is gone by now is not indexed.                              *)
ReadBack(i) ==
    /\ pc[i] = "read"
    /\ IF file[key[i]] = Absent
         THEN UNCHANGED note /\ Goto(i, "next")
         ELSE note' = [note EXCEPT ![i] = file[key[i]]] /\ Goto(i, "index")
    /\ UNCHANGED << key, entries, lock, disk, git, fts, crashes >>

ImportFails(i) ==
    /\ "disk" \in Faults
    /\ pc[i] \in {"open", "fill"}
    /\ Goto(i, "error")
    /\ IF pc[i] = "fill" THEN IndexLost(i) ELSE UNCHANGED raced
    /\ UNCHANGED << key, note, entries, lock, file, missed, git, fts, crashes >>

-----------------------------------------------------------------------------
(* The process is killed and started again: the files, the repository and  *)
(* the index stay.                                                         *)
Crash ==
    LET running == {c \in Calls : pc[c] \notin Final \cup {"idle"}} IN
    /\ crashes < MaxCrashes /\ running # {}
    /\ crashes' = crashes + 1
    /\ pc' = [c \in Calls |-> IF c \in running THEN "killed" ELSE pc[c]]
    /\ lock' = Free
    /\ missed' = missed \cup {key[c] : c \in {d \in running :
                                pc[d] \in {"init", "config", "add", "commit"}}}
    /\ raced' = raced \cup {key[c] : c \in {d \in running : pc[d] \in Unindexed}}
    /\ UNCHANGED << key, note, entries, file, git, fts >>

Progress(c) ==
    \/ Acquire(c)
    \/ WriteTemp(c) \/ Rename(c)
    \/ Remove(c) \/ RemoveMissing(c)
    \/ InitRepo(c) \/ ConfigRepo(c) \/ Add(c) \/ Commit(c) \/ GitFails(c)
    \/ IndexNote(c) \/ DeleteNote(c)
    \/ \E k \in Keys : ImportNext(c, k)
    \/ ImportEnds(c) \/ ImportOpen(c) \/ ImportFill(c) \/ ReadBack(c)

Next ==
    \/ \E c \in Calls : \/ Begin(c) \/ Progress(c)
                       \/ DiskFails(c) \/ IndexFails(c) \/ ImportFails(c)
    \/ Crash

Spec == Init /\ [][Next]_vars

-----------------------------------------------------------------------------
(* Properties *)

(* The content that call c puts under the lock at its note k, or what an   *)
(* import left there before git add read it.                               *)
Own(c, k, value) ==
    /\ key[c] = k
    /\ \/ value = IF c \in Writes THEN c ELSE Absent
       \/ value \in Imports \cup {Torn}

(* A commit made for a note records what its call wrote, never what a      *)
(* later write put on disk and never the note of another call under way.   *)
(* Anything else in it was left staged by a call that could not commit.    *)
CommitRecordsItsOwnChange ==
    [][\A m \in Calls : pc[m] = "commit" /\ pc'[m] = "index" =>
         \A k \in Keys : head'[k] # head[k] =>
            \E c \in Writes \cup Deletes :
                /\ Own(c, k, head'[k])
                /\ \/ c = m
                   \/ k # key[m] /\ c \notin log /\ pc[c] \in Final \cup {"index"}]_vars

(* Between calls the last commit holds what is on disk, for each note that *)
(* no import has changed and no failed or killed commit left behind.       *)
HistoryCatchesUp ==
    lock = Free => \A k \in Keys \ missed : head[k] = file[k]

(* Write is atomic: neither a crash nor a failure nor git ever shows half  *)
(* a note.  Only an import writes in place.                                *)
TornOnlyByImport ==
    \A k \in Keys : Torn \in {file[k], staged[k], head[k], fts[k]} =>
        \E i \in Imports : entries[i] > 0

(* When nobody is between a note's file and its row, the row is that of    *)
(* the file, unless two changes of the note overlapped or an update failed *)
(* or was killed since the last change that had the note to itself.        *)
IndexAgreesUnlessRaced ==
    \A k \in Keys :
        \/ fts[k] = file[k]
        \/ k \in raced
        \/ \E c \in Calls : key[c] = k /\ pc[c] \in Unindexed

(* The project's lock is held by a call that is between its lock and its   *)
(* unlock and by no other: nobody works without it, and no exit, whatever  *)
(* failed, leaves it locked for every later write.                         *)
LockIsHeldByItsUser ==
    \A c \in Writes \cup Deletes : lock = c <=> pc[c] \in Locked
=============================================================================
