------------------------------ MODULE Projects ------------------------------
(***************************************************************************)
(* The registry of projects, the database of each, and who uses them: the  *)
(* commands init, projects register and projects delete, each a process of *)
(* its own, and the server, which registers the default project and opens  *)
(* the databases of all projects when it starts, and whose middleware looks*)
(* a project up for every request; it keeps what it has opened.  Only      *)
(* single SQL statements and file operations are atomic.                   *)
(***************************************************************************)
EXTENDS Integers, FiniteSets

CONSTANTS
    Remotes,     \* remote URLs
    Slugs,       \* slugs
    SlugOf,      \* Slug: a function from Remotes to Slugs, many to one
    Defaults,    \* the slugs that the configuration makes the default project
    Clis,        \* commands that run at once
    Requests,    \* requests that are handled at once
    MaxRuns,     \* bound: commands, requests and restarts
    MaxFiles     \* bound: databases created

VARIABLES
    rows,      \* the table: records [slug, remote], the slug and the remote UNIQUE
    disk,      \* the database file of each slug, numbered as created; 0 for none
    files,     \* databases created so far
    cli,       \* the commands
    default,   \* DefaultProject of the server
    server,    \* where serve is, "get", "register", "open", "list", "warm" or "up",
               \* and the listed projects it has yet to open
    stores,    \* the database each cached *store.Store has open; 0 for none
    req,       \* the requests
    runs,
    kept,      \* history: slugs deleted without --purge and not registered since
    refused,   \* history: slugs that were refused to be registered as the default
    purged,    \* history: slugs purged while the server had their database open
    crossed    \* history: slugs for which two commands or requests overlapped, or
               \* a command was killed

vars == <<rows, disk, files, cli, default, server, stores, req, runs, kept, refused, purged, crossed>>

DefaultRemote == "_default"
NoSlug == "no slug"
IdleCli == [pc |-> "idle", slug |-> NoSlug, remote |-> DefaultRemote, flag |-> FALSE]
IdleReq == [pc |-> "idle", slug |-> NoSlug]
Starting == [pc |-> "get", todo |-> {}]

ASSUME ProjectsAssumption ==
    /\ SlugOf \in [Remotes -> Slugs] /\ Defaults \subseteq Slugs
    /\ DefaultRemote \notin Remotes

CliStates ==
    [pc : {"idle", "overwrite", "register", "open", "purge"}, slug : Slugs \cup {NoSlug},
     remote : Remotes \cup {DefaultRemote}, flag : BOOLEAN]

TypeOK ==
    /\ rows \subseteq [slug : Slugs, remote : Remotes \cup {DefaultRemote}]
    /\ disk \in [Slugs -> Nat] /\ files \in Nat
    /\ cli \in [Clis -> CliStates]
    /\ default \in Slugs
    /\ server \in [pc : {"get", "register", "open", "list", "warm", "up"}, todo : SUBSET Slugs]
    /\ stores \in [Slugs -> Nat]
    /\ req \in [Requests -> [pc : {"idle", "default", "serve"}, slug : Slugs \cup {NoSlug}]]
    /\ runs \in Nat
    /\ kept \subseteq Slugs /\ refused \subseteq Slugs /\ purged \subseteq Slugs /\ crossed \subseteq Slugs

Init ==
    /\ rows = {} /\ disk = [s \in Slugs |-> 0] /\ files = 0
    /\ cli = [c \in Clis |-> IdleCli]
    /\ default \in Defaults /\ server = Starting
    /\ stores = [s \in Slugs |-> 0]
    /\ req = [r \in Requests |-> IdleReq]
    /\ runs = 0 /\ kept = {} /\ refused = {} /\ purged = {} /\ crossed = {}

(* Get *)
Registered(slug) == \E p \in rows : p.slug = slug

(* Register: the INSERT and its two UNIQUE constraints *)
CanRegister(slug, remote) == \A p \in rows : p.slug # slug /\ p.remote # remote

Insert(slug, remote) ==
    IF CanRegister(slug, remote)
    THEN rows' = rows \cup {[slug |-> slug, remote |-> remote]} /\ kept' = kept \ {slug}
    ELSE UNCHANGED <<rows, kept>>

(* A process begins with slug while others are at it. *)
Busy(slug) ==
    \/ \E c \in Clis : cli[c].slug = slug
    \/ \E r \in Requests : req[r].slug = slug
    \/ server.pc # "up" /\ (slug = default \/ slug \in server.todo)
Begin(slug) ==
    /\ runs < MaxRuns /\ runs' = runs + 1
    /\ crossed' = IF Busy(slug) THEN crossed \cup {slug} ELSE crossed

(* A mutant: the database is made anew.                                    *)
Opened_Afresh(slug) == files < MaxFiles /\ disk' = [disk EXCEPT ![slug] = files + 1] /\ files' = files + 1

(* OpenForProject: the directory and an empty database unless they exist *)
Opened(slug) ==
    IF disk[slug] # 0 THEN UNCHANGED <<disk, files>>
    ELSE files < MaxFiles /\ disk' = [disk EXCEPT ![slug] = files + 1] /\ files' = files + 1

-----------------------------------------------------------------------------
(* The commands.  initCmd: Get *)
InitGet(c, remote, force) ==
    LET slug == SlugOf[remote]
    IN  /\ cli[c].pc = "idle"
        /\ Begin(slug)
        /\ IF Registered(slug) /\ ~force THEN UNCHANGED cli
           ELSE cli' = [cli EXCEPT ![c] = [pc |-> IF Registered(slug) THEN "overwrite" ELSE "register",
                                           slug |-> slug, remote |-> remote, flag |-> TRUE]]
        /\ UNCHANGED <<rows, disk, files, default, server, stores, req, kept, refused, purged>>

(* Delete, in init --force; ErrNotFound ends it. *)
InitDelete(c) ==
    /\ cli[c].pc = "overwrite"
    /\ rows' = {p \in rows : p.slug # cli[c].slug}
    /\ cli' = [cli EXCEPT ![c] = IF Registered(cli[c].slug) THEN [@ EXCEPT !.pc = "register"] ELSE IdleCli]
    /\ UNCHANGED <<disk, files, default, server, stores, req, runs, kept, refused, purged, crossed>>

(* Register, in init (flag) and projects register *)
Register(c) ==
    LET q == cli[c]
    IN  /\ q.pc = "register"
        /\ Insert(q.slug, q.remote)
        /\ cli' = [cli EXCEPT ![c] = IF CanRegister(q.slug, q.remote) /\ q.flag
                                     THEN [q EXCEPT !.pc = "open"] ELSE IdleCli]
        /\ UNCHANGED <<disk, files, default, server, stores, req, runs, refused, purged, crossed>>

(* OpenForProject, in init *)
InitOpen(c) ==
    /\ cli[c].pc = "open"
    /\ Opened(cli[c].slug)
    /\ cli' = [cli EXCEPT ![c] = IdleCli]
    /\ UNCHANGED <<rows, default, server, stores, req, runs, kept, refused, purged, crossed>>

(* projects register *)
RegisterCmd(c, remote) ==
    /\ cli[c].pc = "idle"
    /\ Begin(SlugOf[remote])
    /\ cli' = [cli EXCEPT ![c] = [pc |-> "register", slug |-> SlugOf[remote], remote |-> remote, flag |-> FALSE]]
    /\ UNCHANGED <<rows, disk, files, default, server, stores, req, kept, refused, purged>>

(* projects delete [--purge] *)
DeleteCmd(c, slug, purge) ==
    /\ cli[c].pc = "idle" /\ Registered(slug)
    /\ Begin(slug)
    /\ rows' = {p \in rows : p.slug # slug}
    /\ kept' = IF purge THEN kept ELSE kept \cup {slug}
    /\ cli' = [cli EXCEPT ![c] = IF purge THEN [IdleCli EXCEPT !.pc = "purge", !.slug = slug] ELSE IdleCli]
    /\ UNCHANGED <<disk, files, default, server, stores, req, refused, purged>>

Purge(c) ==
    /\ cli[c].pc = "purge"
    /\ LET slug == cli[c].slug
       IN  /\ disk' = [disk EXCEPT ![slug] = 0]
           /\ purged' = IF stores[slug] # 0 THEN purged \cup {slug} ELSE purged
    /\ cli' = [cli EXCEPT ![c] = IdleCli]
    /\ UNCHANGED <<rows, files, default, server, stores, req, runs, kept, refused, crossed>>

Killed(c) ==
    /\ cli[c].pc # "idle"
    /\ crossed' = crossed \cup {cli[c].slug}
    /\ cli' = [cli EXCEPT ![c] = IdleCli]
    /\ UNCHANGED <<rows, disk, files, default, server, stores, req, runs, kept, refused, purged>>

-----------------------------------------------------------------------------
(* serveCmd.  Get, and Register of the default project, whose error is     *)
(* dropped.                                                                *)
InsertDefault(slug) ==
    /\ Insert(slug, DefaultRemote)
    /\ refused' = IF CanRegister(slug, DefaultRemote) THEN refused ELSE refused \cup {slug}

(* A mutant: the default project is opened without being looked up.        *)
BootGet_Opens ==
    /\ server.pc = "get"
    /\ server' = [server EXCEPT !.pc = "open"]
    /\ UNCHANGED <<rows, disk, files, cli, default, stores, req, runs, kept, refused, purged, crossed>>

BootGet ==
    /\ server.pc = "get"
    /\ server' = [server EXCEPT !.pc = IF Registered(default) THEN "open" ELSE "register"]
    /\ UNCHANGED <<rows, disk, files, cli, default, stores, req, runs, kept, refused, purged, crossed>>

BootRegister ==
    /\ server.pc = "register"
    /\ InsertDefault(default)
    /\ server' = [server EXCEPT !.pc = "open"]
    /\ UNCHANGED <<disk, files, cli, default, stores, req, runs, purged, crossed>>

(* projectStores.Get: the cached store or OpenForProject *)
GetStore(slug) ==
    IF stores[slug] # 0 THEN UNCHANGED <<stores, disk, files>>
    ELSE Opened(slug) /\ stores' = [stores EXCEPT ![slug] = disk'[slug]]

BootOpen ==
    /\ server.pc = "open"
    /\ GetStore(default)
    /\ server' = [server EXCEPT !.pc = "list"]
    /\ UNCHANGED <<rows, cli, default, req, runs, kept, refused, purged, crossed>>

(* List, then one project after the other until all are open.              *)
BootList ==
    /\ server.pc = "list"
    /\ server' = [pc |-> "warm", todo |-> {p.slug : p \in rows}]
    /\ UNCHANGED <<rows, disk, files, cli, default, stores, req, runs, kept, refused, purged, crossed>>

BootWarm ==
    /\ server.pc = "warm"
    /\ IF server.todo = {}
       THEN server' = [server EXCEPT !.pc = "up"] /\ UNCHANGED <<stores, disk, files>>
       ELSE \E slug \in server.todo :
                GetStore(slug) /\ server' = [server EXCEPT !.todo = @ \ {slug}]
    /\ UNCHANGED <<rows, cli, default, req, runs, kept, refused, purged, crossed>>

(* The running server.  projectMiddleware: Get; the default project is registered  *)
(* when it is unknown, another slug is answered with 404.                  *)
AfterGet(slug) == IF Registered(slug) THEN "serve" ELSE "default"

Request(r, slug) ==
    /\ req[r].pc = "idle" /\ server.pc = "up"
    /\ Registered(slug) \/ slug = default
    /\ Begin(slug)
    /\ req' = [req EXCEPT ![r] = [pc |-> AfterGet(slug), slug |-> slug]]
    /\ UNCHANGED <<rows, disk, files, cli, default, server, stores, kept, refused, purged>>

(* Register of the default project; whatever its error, the request is     *)
(* served.                                                                 *)
RegisterDefault(r) ==
    /\ req[r].pc = "default"
    /\ InsertDefault(req[r].slug)
    /\ req' = [req EXCEPT ![r].pc = "serve"]
    /\ UNCHANGED <<disk, files, cli, default, server, stores, runs, purged, crossed>>

(* The handler asks for the store and writes to it.                        *)
Serve(r) ==
    /\ req[r].pc = "serve"
    /\ GetStore(req[r].slug)
    /\ req' = [req EXCEPT ![r] = IdleReq]
    /\ UNCHANGED <<rows, cli, default, server, runs, kept, refused, purged, crossed>>

(* The server stops, or is killed, and every store is closed; then it is   *)
(* started again.                                                          *)
Restart(d) ==
    /\ server # Starting
    /\ runs < MaxRuns /\ runs' = runs + 1
    /\ default' = d /\ server' = Starting
    /\ stores' = [s \in Slugs |-> 0]
    /\ req' = [r \in Requests |-> IdleReq]
    /\ purged' = {}
    /\ crossed' = IF \E c \in Clis : cli[c].slug = d THEN crossed \cup {d} ELSE crossed
    /\ UNCHANGED <<rows, disk, files, cli, kept, refused>>

Next ==
    \/ \E c \in Clis :
           \/ \E remote \in Remotes : RegisterCmd(c, remote) \/ \E force \in BOOLEAN : InitGet(c, remote, force)
           \/ \E slug \in Slugs, purge \in BOOLEAN : DeleteCmd(c, slug, purge)
           \/ InitDelete(c) \/ Register(c) \/ InitOpen(c) \/ Purge(c) \/ Killed(c)
    \/ \E r \in Requests :
           \/ \E slug \in Slugs : Request(r, slug)
           \/ RegisterDefault(r) \/ Serve(r)
    \/ BootGet \/ BootRegister \/ BootOpen \/ BootList \/ BootWarm
    \/ \E d \in Defaults : Restart(d)

Spec == Init /\ [][Next]_vars

-----------------------------------------------------------------------------
(* What the server writes, it writes to the database that the next start   *)
(* opens, unless the project was purged under it: it then goes on writing  *)
(* to a file without a name, though the project may have been made again.  *)
OpenIsOnDisk == \A s \in Slugs : stores[s] # 0 => stores[s] = disk[s] \/ s \in purged

(* A project that has a database is registered, unless it was deleted      *)
(* without --purge, or another project holds the remote that stands for    *)
(* the default one.  init --force takes a project out of the registry and  *)
(* puts it back, and delete --purge removes the row and then the data: in  *)
(* between, and when the command is killed there or another command or     *)
(* request comes across it, there may be a database without a project.     *)
DataIsRegistered ==
    \A s \in Slugs : disk[s] # 0 =>
        \/ Registered(s) \/ s \in kept \cup refused \cup crossed
        \/ \E c \in Clis : cli[c].pc \in {"register", "purge"} /\ cli[c].slug = s
=============================================================================
