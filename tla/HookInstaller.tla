--------------------------- MODULE HookInstaller ---------------------------
(***************************************************************************)
(* docsiq hooks install and uninstall: the entry that makes an assistant   *)
(* run docsiq's script when a session starts.  Each command goes through   *)
(* the settings files of the clients it was given; it reads a file,        *)
(* changes what it read, and renames a new file over it.  Nothing locks    *)
(* the file, so that a second command, the assistant or its user may have  *)
(* written it in between.                                                  *)
(***************************************************************************)
EXTENDS Integers, Sequences, FiniteSets, Selection

CONSTANTS
    Clients,    \* the clients: "claude", "cursor", "codex", "copilot"
    Paths,      \* where scripts may go: $DATA_DIR/hooks/hook.sh of data directories
    Marked,     \* the paths that looksLikeDocsiqHook knows
    User,       \* a command of the user's own
    Procs,      \* commands that run at once
    MaxRuns,    \* bound: commands
    MaxEdits    \* bound: changes by the user or the assistant

HookAssumption == Clients \subseteq {"claude", "cursor", "codex", "copilot"} /\ Marked \subseteq Paths /\ User \notin Paths

VARIABLES
    file,      \* the settings of each client
    script,    \* the paths where the script has been extracted
    proc,      \* the commands
    runs, edits

vars == <<file, script, proc, runs, edits>>

(* A settings file.  start: the entries under hooks.SessionStart, each the *)
(* set of its commands (the clients but claude have room for one);         *)
(* events: the other events under hooks, of the shape this client expects  *)
(* ("proper"), of another ("odd"), or an odd one emptied ("blank"); other: *)
(* the file has other keys.                                                *)
NoFile == [ok |-> TRUE, other |-> FALSE, start |-> <<>>, events |-> "none"]
Malformed == [NoFile EXCEPT !.ok = FALSE]
HasHooks(f) == f.start # <<>> \/ f.events # "none"

Idle == [pc |-> "idle", cmd |-> "none", path |-> User, todo |-> {}, client |-> "none",
         copy |-> NoFile, stale |-> FALSE]

Init ==
    /\ file = [c \in Clients |-> NoFile]
    /\ script = {}
    /\ proc = [p \in Procs |-> Idle]
    /\ runs = 0 /\ edits = 0

(* isOurClaudeEntry and isOurClaudeEntryByMarker *)
Ours(entry, path) == path \in entry

OursByMarker(entry) == entry \cap Marked # {}

(* What each installer makes of "hooks" with other entries of SessionStart. *)
(* Cursor's struct has no other event; the map of strings of Codex and      *)
(* Copilot turns an odd one into an empty string; Claude's stay raw.        *)
CursorHooks(f, start) == [f EXCEPT !.start = start, !.events = "none"]

CodexHooks(f, start) ==
    [f EXCEPT !.start = start, !.events = IF f.events = "odd" THEN "blank" ELSE f.events]

CopilotHooks(f, start) == CodexHooks(f, start)

(* A mutant: Claude's hooks, too, are read into a struct. *)
ClaudeHooks_Typed(f, start) == CursorHooks(f, start)

ClaudeHooks(f, start) == [f EXCEPT !.start = start]

Hooks(c, f, start) ==
    CASE c = "claude" -> ClaudeHooks(f, start)
      [] c = "cursor" -> CursorHooks(f, start)
      [] c = "codex" -> CodexHooks(f, start)
      [] c = "copilot" -> CopilotHooks(f, start)

(* A mutant: the entry is added once more.                                 *)
Others_KeepsAll(f, path) == f.start

(* What stays of SessionStart beside the new entry. *)
Others(f, path) == Select(f.start, {i \in DOMAIN f.start : ~Ours(f.start[i], path)})

(* Install of each client *)
Installed(c, f, path) ==
    Hooks(c, f, IF c = "claude" THEN Append(Others(f, path), {path}) ELSE <<{path}>>)

(* Uninstall of each client.  Cursor deletes "hooks" when no SessionStart  *)
(* is left and otherwise writes its struct.                                *)
Uninstalled(c, f) == Hooks(c, f, Select(f.start, {i \in DOMAIN f.start : ~OursByMarker(f.start[i])}))

(* runInstall and runUninstall, --client=all or one client *)
Start(p, cmd, path, S) ==
    /\ proc[p].pc = "idle" /\ runs < MaxRuns
    /\ S = Clients \/ Cardinality(S) = 1
    /\ proc' = [proc EXCEPT ![p] = [Idle EXCEPT !.cmd = cmd, !.path = path, !.todo = S,
                                                !.pc = IF cmd = "install" THEN "extract" ELSE "next"]]
    /\ runs' = runs + 1
    /\ UNCHANGED <<file, script, edits>>

(* ExtractHookScript; its failure ends the command. *)
Extract(p) ==
    /\ proc[p].pc = "extract"
    /\ \/ /\ script' = script \cup {proc[p].path}
          /\ proc' = [proc EXCEPT ![p].pc = "next"]
       \/ /\ proc' = [proc EXCEPT ![p] = Idle]
          /\ UNCHANGED script
    /\ UNCHANGED <<file, runs, edits>>

(* readJSONMap and the decoding of "hooks" failed, for which a file is left *)
(* as it is; or Uninstall found no hooks.                                  *)
NothingToWrite(c, f, cmd) ==
    \/ ~f.ok
    \/ c = "claude" /\ f.events = "odd"
    \/ cmd = "uninstall" /\ ~HasHooks(f)

Read(p, c) ==
    /\ proc[p].pc = "next" /\ c \in proc[p].todo
    /\ LET q == [proc[p] EXCEPT !.todo = @ \ {c}]
           f == file[c]
       IN  proc' = [proc EXCEPT ![p] =
               IF NothingToWrite(c, f, q.cmd) THEN q
               ELSE [q EXCEPT !.pc = "write", !.client = c, !.stale = FALSE,
                              !.copy = IF q.cmd = "install" THEN Installed(c, f, q.path)
                                                            ELSE Uninstalled(c, f)]]
    /\ UNCHANGED <<file, script, runs, edits>>

(* Whoever has read the file of c and not written it yet has an old copy.  *)
Outdated(ps, c) ==
    [q \in Procs |-> IF ps[q].pc = "write" /\ ps[q].client = c
                     THEN [ps[q] EXCEPT !.stale = TRUE] ELSE ps[q]]

(* writeJSONMapAtomic: the rename, or an error or a crash before it.  One  *)
(* client's error does not stop the others.                                *)
Written(p) ==
    [proc EXCEPT ![p] = [@ EXCEPT !.pc = "next", !.copy = NoFile, !.client = "none", !.stale = FALSE]]

Write(p) ==
    /\ proc[p].pc = "write"
    /\ \/ /\ file' = [file EXCEPT ![proc[p].client] = proc[p].copy]
          /\ proc' = Outdated(Written(p), proc[p].client)
       \/ /\ proc' = Written(p)
          /\ UNCHANGED file
    /\ UNCHANGED <<script, runs, edits>>

(* The command is over, or is killed. *)
End(p) ==
    /\ proc[p].pc # "idle"
    /\ proc' = [proc EXCEPT ![p] = Idle]
    /\ UNCHANGED <<file, script, runs, edits>>

(* The user or the assistant writes the settings: anything but docsiq's    *)
(* entries, of which it may drop some or add a command of its own to one.  *)
Edit(c) ==
    /\ edits < MaxEdits
    /\ \E e \in {"none", "proper", "odd"}, k \in BOOLEAN, ok \in BOOLEAN :
       \E s \in {<<>>, file[c].start, Append(file[c].start, {User})}
                \cup (IF c = "claude" THEN {[i \in DOMAIN file[c].start |-> file[c].start[i] \cup {User}]} ELSE {}) :
           /\ c = "claude" \/ Len(s) <= 1
           /\ file' = [file EXCEPT ![c] = IF ok THEN [ok |-> TRUE, other |-> k, start |-> s, events |-> e]
                                                ELSE Malformed]
    /\ file' # file
    /\ proc' = Outdated(proc, c)
    /\ edits' = edits + 1
    /\ UNCHANGED <<script, runs>>

Next ==
    \/ \E p \in Procs :
           \/ \E path \in Paths, S \in SUBSET Clients : Start(p, "install", path, S)
           \/ \E S \in SUBSET Clients : Start(p, "uninstall", User, S)
           \/ Extract(p) \/ Write(p) \/ End(p)
           \/ \E c \in Clients : Read(p, c)
    \/ \E c \in Clients : Edit(c)

Spec == Init /\ [][Next]_vars

-----------------------------------------------------------------------------
NotOurs(f) == Select(f.start, {i \in DOMAIN f.start : f.start[i] \cap Paths = {}})

(* A rename over a file that nobody has written since it was read keeps    *)
(* every other key; with Claude every other event and, with the maps of    *)
(* strings, every other event that is a string; and, in their order, the   *)
(* entries of SessionStart without a script of docsiq, those of Claude     *)
(* always and those of the others when docsiq is uninstalled.  It does not *)
(* keep Cursor's other events, nor those of Codex and Copilot that are not *)
(* strings, nor on an install the user's own SessionStart of those three,  *)
(* nor what a user put in one entry with docsiq's command.                 *)
OnlyOursChanges ==
    [][\A p \in Procs :
           LET c == proc[p].client
           IN  proc[p].pc = "write" /\ proc'[p].pc = "next" /\ ~proc[p].stale
               => /\ file'[c].ok = file[c].ok /\ file'[c].other = file[c].other
                  /\ c = "claude" => file'[c].events = file[c].events
                  /\ c = "claude" \/ proc[p].cmd = "uninstall" => NotOurs(file'[c]) = NotOurs(file[c])
                  /\ c \in {"codex", "copilot"} => (file[c].events = "proper" <=> file'[c].events = "proper")]_vars

(* Whatever commands ran, overlapped or were killed, a settings file names *)
(* each script at most once, and the script it names is there.             *)
NamedOnceAndThere ==
    \A c \in Clients, path \in Paths :
        LET named == {i \in DOMAIN file[c].start : path \in file[c].start[i]}
        IN  /\ Cardinality(named) <= 1
            /\ named # {} => path \in script
=============================================================================
