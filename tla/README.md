# A verification project for docsiq

docsiq indexes documents into a GraphRAG store (SQLite per project), keeps
markdown notes with a git history, and serves both over HTTP, MCP and a web UI.
This directory models the parts of it whose correctness depends on
interleavings, partial failures and ordering, checks the models with TLC on
small instances, and proves the most important invariants with TLAPS for all
values of the constants. Paths below are relative to the repository (`src/`).

## 1. Inventory

| Component | State | Operations | What is hard | What makes it correct |
|---|---|---|---|---|
| Worker pool `internal/workq` | channel of jobs, `closed`, once, context | `Submit`, `run`, `Close`, `Stats` | send against close, panic, two closers, deadline | no send on a closed channel; an accepted job runs; nil from `Close` means drained |
| Vector index cache `internal/api/vector_indexes.go`, builder | map of indexes, singleflight | `ForProject`, `Invalidate`, `Set` | a build straddles an invalidation | one build at a time per epoch; a search after an upload sees it |
| Document indexing `internal/pipeline` (Phases 1-2), `documents` table | rows with version, canonical ID, hash, mtime, `is_latest` | `IndexPath`, `indexFile`, `IndexURL`, `Prune` | many statements, no transaction; mtime and hash short cuts; edits meanwhile | at most one latest version; gapless histories; what was skipped is up to date |
| Upload and its progress `internal/api/handlers.go` | event logs, status map, relay goroutine, SSE cursors | `upload`, the job, `uploadProgress` | three kinds of goroutine on one log that leaves its map | a stream sees the whole story and ends |
| Notes `internal/notes`, `internal/api/notes_handlers.go`, MCP note tools | files, git repository, full-text index | write, delete, import, history, search | lock around the file and the commit only; git's own index | the index and the history follow the files |
| Server life cycle `cmd/serve.go`, `internal/api/stores.go` | HTTP server, pool, store cache, registry | boot, shutdown, `Get`, `Close` | order of closing against running requests and jobs | no job uses a closed store; `Close` is final |
| HNSW `internal/vectorindex/hnsw.go` | layered graph, entry point | `Add`, `Remove`, `Search` | pruned, one-sided links | a removed id is not returned; every node is reachable |
| Finalize, communities `internal/pipeline`, `internal/community` | entities, communities | `Finalize`, Louvain | clears first; writes back stale rows | every entity's community exists |
| Entity extraction `internal/extractor`, `internal/pipeline` | entities, relationships, claims | `extractGraph`, `extractClaims` | read-then-insert in parallel | one entity per name; references exist |
| Store schema `internal/store` | tables and foreign keys over 4 connections | upserts, `DeleteDocument` | `PRAGMA foreign_keys` on one connection | deletes leave no orphan |
| Crawler, web loader | visited set, queue | breadth-first crawl | depth and page bounds | bounded, each page once |
| Loaders, chunker | none | text conversion | - | chunks cover the text |
| Embedder, LLM provider | batches | `EmbedBatch` | producer, consumer, errors | results in order of the texts |
| Search | none (reads) | local, global | stale index | see vector index cache |
| Project registry, middleware | registry table | register, delete, `init --force`, purge | two statements, concurrent default registration | a project is never lost |
| Hook installer | settings files of four assistants | install, uninstall, status | read, change, rename without lock | foreign settings survive |
| Notes watcher, graph | last seen mtimes | poll | missed changes | a change is seen |
| HTTP layer, MCP, readiness, CLI, configuration, metrics, UI | little | - | probe mutex | - |

Interactions: `upload` (HTTP) writes files into a temporary directory and
submits a closure to the **pool**; a pool worker runs the **pipeline** on each
file, which writes the **store**, then `Finalize`, then invalidates the
**vector index cache**, and tells the client through the **event log**. A local
search asks the cache for an index, which may build it from the store. Note
handlers write the **file**, the **git** history and then the **full-text
index** in the project's store, which they take from the **store cache**.
`serve` owns all of them and closes them on SIGTERM.

The hazards found while reading are in `PROJECT.json` at their lines, with the
properties that would catch them.

## 2. Modules

| Module | Models | Proofs |
|---|---|---|
| `JobService` | abstract: what `workq` promises of each job | - |
| `Workq` | `internal/workq/workq.go` | `WorkqProofs` |
| `VectorIndexes` | `ForProject`, `Invalidate`, the build, uploads that call them | `RetrievalProofs` |
| `DocIndex` | `indexPath`, `indexFile`, the `documents` table | `DocIndexProofs` |
| `ProgressFeed` | abstract: what the event logs promise those who follow them | - |
| `UploadProgress` | event log, status map, relay, SSE streams | `UploadProgressProofs` |
| `Notes` | `internal/notes` (Write, Delete, autoCommit), the HTTP and MCP handlers, `notes_fts` | `NotesProofs` |
| `Serve` | `cmd/serve.go`, the store cache, requests behind the `TimeoutHandler`, jobs of the pool (an instance of `JobService`) | `ServeProofs` |
| `KnowledgeGraph` | `extractGraph`, `extractClaims`, `finalize`, `Prune`, `DeleteDocument`, the tables and their foreign keys | `KnowledgeGraphProofs` |
| `Projects` | `init`, `projects register`, `delete` and `purge`, the boot of `serve`, the project middleware, the databases on disk | `OuterProofs` |
| `Crawler`, `WebIndex` | `internal/crawler`; `indexURL` and `indexRawDoc`, on top of it | `OuterProofs` |
| `HookInstaller` | `internal/hookinstaller`, `cmd/hooks.go` | `OuterProofs` |
| `Selection` | the part of a list that a loop keeps, used by the two above | `OuterProofs` |
| `HNSW` | `internal/vectorindex/hnsw.go` | - |
| `Louvain` | `internal/community/louvain.go` | `RetrievalProofs` |
| `Embedding` | `EmbedTexts`, `lcProvider.EmbedBatch` | `RetrievalProofs` |
| `Search` | `LocalSearch` with the store's two queries, `GlobalSearch` | `RetrievalProofs` |
| `Retrieval` | `Embedding`, `Search` and `Louvain` side by side, with their properties | `RetrievalProofs` |
| `Outer` | `Projects`, `WebIndex` and `HookInstaller` side by side, with their properties | `OuterProofs` |

The first ones each have an `MC...` module with their symmetry sets and one `.cfg` per run;
`MCAlgorithms` extends `Retrieval` with `HNSW`, and `MCOuter` extends
`Outer`. A type invariant that a
proof module establishes for all constants is not repeated in a run, nor are
the auxiliary invariants that only serve a proof.
Operators named `X_Something` directly before `X` are mutants: `X` with a
plausible bug, by which a property shows that it can fail.

### Workq

A `Submit` call is in `submit[j]`: `"called"` has the read lock and saw
`closed` false or true, `"send"` is about to do the non-blocking send, then one of
the three results. Workers hold a job, `Idle` or `Exited`. `Close` is split
where other goroutines can interleave: entering the once, closing both channels
under the write lock, and the `select` between the drained pool and its own
context. The pool's context is `cancelled`. Go's `RWMutex` gives a waiting writer
precedence, which the guards of `SubmitCheck` state.

`JobService` says what a caller may rely on: a job is accepted or refused once,
only accepted jobs run, each at most once, and once a `Close` has returned nil
every accepted job has run. `Workq` implements it (`RefinesService`).

### VectorIndexes

One project. A search reads the map, enters `singleflight` (as leader or
follower), and the leader's build reads the embeddings and then the chunks in two
queries; uploads index files one by one, each raising `version` or not, and then
invalidate. An *epoch* ends with each `Forget`.

### DocIndex

A row is `[path, hash, version, canonical, latest, mtime, chunks, embedded]`; row
IDs are positions. A call of `indexFile` is a program counter through `Stat`,
`Lookup`, the two short cuts, `Supersede`, `Load`, `InsertDocument`,
`InsertChunks`, `Embed`, with an error exit wherever the code returns one. Files
change between any two steps (`EditFile`), and between calls the process may be started
again with or without a provider (`provider`, `Reconfigure`): without one `Embed` skips
the vectors and the call still returns nil. The history `flaws` remembers of a
document what can leave it without its text or its vectors: its call reported an error
(`"cut"`), the file was edited while it was read twice (`"torn"`), or its call had no
provider (`"bare"`). `WholeUnlessFlawed` says that each defect has its own cause; no later
call mends one, since the hash says unchanged (section 6). Content is one of a few values; the
hash of a content is the content itself, two of them stand for a binary file
(skipped) and a blank one (no chunks).

### UploadProgress

`stage[j]` is where the handler and then the job is; a stage that appends an
event has two steps, the lookup of the log (`Announce`) and the append
(`AppendOwn`), since another goroutine may drop the log in between. Logs are
objects (`logs`) and the map points to them (`jobEvents`), so that a stream can
hold one that has left the map. The relay's `select` is a free choice between
`RelayReceive` and `RelayExit`. A stream is a record with its cursor, the batch
it is writing and all it has written (`seen`).

`ProgressFeed` says what that machinery is for, without the map, the lookups, the
waiting and the cursors: feeds only grow, a job is silent after its final event, a
subscriber stays with one feed and is sent an unbroken beginning of it, and one that
is sent to the end missed nothing its job says, then or later. `UploadProgress`
implements it (`RefinesFeed`): the logs are the feeds, the streams their subscribers.
That a stream skips nothing (`NothingSkipped`) is part of that promise; it is a theorem
(`StreamsSkipNothing`) and takes no run.

### Notes

A call is a write, a delete or a tar import; its program counter follows
`lockFor`, the temporary file and the rename (or the removal), `initRepo` in its
two stages, `git add`, `git commit`, the unlock and the index update that the
handler makes after it. The content of a write is the call itself, since `Write`
stamps the time in nanoseconds. git is external and modelled by its index
(`staged`), the tree of the last commit (`head`) and the calls that committed;
each command can fail, `git add` must for a path it has never seen, and a commit
may in a repository whose identity was never configured. `missed` and `raced` are
history variables: they say which notes a failure, a crash, an import or an
overlap excuses from the properties. A git process that survives the crash of
docsiq is not modelled, and neither are two imports at once.

### Serve

`phase` is where the command's `RunE` is: the steps of the boot that can return an error,
serving, `srv.Shutdown`, `pool.Close`, the deferred closes, and the end of the
process. The pool is an instance of `JobService`, which `Workq` refines, so what
`Serve` relies on is what `Workq` is checked and proved to do. An upload takes its store
from the cache when it begins and its job keeps it; `RequestTimeout` is the
`http.TimeoutHandler`, which answers while the handler goes on and so takes the
connection out of what `Shutdown` waits for. A stream ends with its job's last event
or by its client; `Shutdown` does not cancel it. The comment at
`cmd/serve.go:218` (no new jobs after `Shutdown`) is not quite so: such a handler can
submit until `pool.Close` stops the pool, and is refused after it. The model has one
project; that a signal during the boot kills the process at once is left out.

### KnowledgeGraph

The tables are variables, an entity's ID its position. `graph[f]` and
`claiming[f]` are the two goroutines that follow the indexing of file `f`; what
the language model answered is a record `[ents, rels, claims]` of a small set,
batches that failed already left out. `fin[z]` is a call of `Finalize`: it loads
the rows, compares the fingerprint, clears three tables in three statements, writes
communities and members, assigns them, and writes the loaded rows back with their
vectors. Louvain's answer is any partition on one level (see below why one level
is all there is). `keys` says of each statement whether its connection has
`foreign_keys` on. Two histories tell what overlaps: `stale` has the callers
whose copy of `entities` somebody overtook, `mixed` the calls of `Finalize` that
wrote at the same time. A delete is remembered in `deleted` with what its connection
enforced, since the properties excuse one without the keys. The two transactions that
assign communities and ranks are one step: they write different columns, and what is between
them no property can tell from before or after them.

### Projects

`rows` is the registry with its two UNIQUE columns, `disk[s]` the number of the
database file a slug has (0 for none), `stores[s]` the file the server's cached
`*store.Store` has open. Each command is a process of single statements that can be
killed between any two. The server is a program counter through the boot (Get,
Register, open, List, then one project after the other) until it is up; `Restart`
may hit it anywhere and closes every store. `crossed` and `purged` are histories of
overlaps. Which remote a directory has (git, `remote.go`) is an input; the slug of a
remote is a function that is not one to one.

### Crawler and WebIndex

`Crawler` has no `Next` of its own: `WebIndex` extends it and starts a crawl with
each `IndexURL`. Sitemap discovery is a loop over candidates and a stack of
sitemaps to parse; an index that lists itself would never end in the code, so the
instances have none. The walk's queue holds a page as often as it was linked. The
fetches have `Concurrency` places. `WebIndex` then indexes the pages in as
many goroutines, each `lookup`, `supersede`, `insert`, `fill`. A sitemap can list a URL
twice, and two goroutines that index it look it up before either inserts: with two
texts both rows stay the latest. `OneLatestPage` says that this is the only way; a
later call supersedes one of the two rows and leaves the other, so the call that made
them need not be the last.

### HookInstaller

A settings file is what the installers tell apart: whether it parses, whether it has other
keys, the `SessionStart` entries as sets of commands, and the other events as
absent, of the shape the client expects, or of another. A command reads one file
after the other into `copy`, already changed, and renames it over the file; a user
or an assistant edits in between. `stale` marks a copy that was overtaken. A
settings file whose `hooks` is the JSON value `null` is not among the inputs.

### HNSW

Vectors are places on an arc, so the cosine distance grows with the distance of the
places and no two pairs of places tie. `Add` and `Remove` hold the index's mutex from
end to end and are one action each; the level is any that `randomLevel` may draw.
Nodes stay in `h.node` when they are removed, as objects other nodes may still point
to. The search, written with recursive operators, is evaluated in every state.

### Louvain

All modularities are multiplied by (2m)^2, so that whole numbers are enough; sums over
the nodes are `Total`, a recursive function. An action is one visit of a node; `sigmaTot`
is kept as the code keeps it. The comment
at `internal/community/louvain.go:67` has 2m^2 in a denominator where the code has
(2m)^2, which is the right one. `HierarchicalLouvain` builds a graph of the
communities whose nodes all have the empty name, which `NewGraph` maps to one node:
every edge becomes its loop, no level after the first ever merges anything, and the
three levels of `docs/quickstart.md:68` are one. Edges to unknown names, which
`NewGraph` skips, are not among the inputs.

### Embedding

`call` chooses between `EmbedTexts`, with a goroutine for each batch, and
`lcProvider.EmbedBatch` with its producer, its channel of two and its context. The
server's answer to a request may have one vector too few. `EmbedTexts` never asks
`EmbedBatch` for more than its ceiling, so its chunked path serves only direct
callers of the provider; there a short answer leaves a hole that no error reports;
the history `unsent` has the texts that were left out. The producer's `select` on the context is not what keeps it from
hanging: the caller leaves only at an error, which is the last thing it sends.

### Search

Entities are numbered by their similarity to the query. A local search is one
action for each query it makes; `InsertRelationship` may come between any two. `lost`
has the neighbours whose row could not be read. A global search reads its tables once
and is one action. `sort.Slice` is not stable, so `Sorted` has every order of equal
scores, and the neighbours of an entity come in any order (`Orders`). What is near is
defined by paths and not by the hops of the code: `Near(R, e, d)` has the ends of the
paths of d steps from e, each a relationship of R or a stay.

### Retrieval, Outer and their runs

`Retrieval` and `Outer` put components that share no state side by side, with the
properties of each. `MCAlgorithms` and `MCOuter` run them: the variable `which`, chosen in
the initial state, says whose behaviour it is, and the others keep still. It is one run
for each group instead of seven; nothing composes. In `MCOuter` a `which` of `"walk"` is a call
of the crawler that stops at its list, on the larger limits, and `"web"` whole calls of
`IndexURL` on the smaller ones.
## 3. Runs

| Run | Module | Expect | Properties | Shows |
|---|---|---|---|---|
| `workq` | `MCWorkq` | pass | `NoSendOnClosed`, `EveryWaitHasAnEnd`, `CallsReturn`, `AcceptedRuns`, `RefinesService` | Two workers, four Submit calls and two Close calls in every interleaving, with panics: no accepted job is lost or run twice, nil from Close means drained, whoever waits waits for something on its way and every call returns, and the pool implements the abstract job service. |
| `vecidx` | `MCVectorIndexes` | pass | `OneBuildPerEpoch`, `JoinsOnlyCurrentBuild`, `FreshUnlessStraddled`, `SearchReturns` | Three searches and an upload job of up to two files: builds are coalesced, Forget keeps later searches off an older build, followers always have a leader, every search returns, and the cache is exact but for the two ways named. |
| `vecidx_doc` | `MCVectorIndexes` | violation | `InvalidateForcesRebuild` | A build that straddles Invalidate stores its old index afterwards, and a later search gets it. |
| `docidx` | `MCDocIndex` | pass | `OneLatest`, `HistoryWellFormed`, `WholeUnlessFlawed`, `FreshAfterOk` | Two workers, two paths, three calls (each with or without --force) and two edits of files or changes of the provider in every interleaving, with any step failing: version histories stay well formed, a document lacks its text or its vectors only for a cause that was reported or configured, and a call that returned nil left the file's content as the latest version. |
| `progress` | `MCUploadProgress` | pass | `OwnEventsInOneLog`, `EndedStreamSawTheJob`, `RefinesFeed` | One upload and its relay against two SSE streams, with a dropped pipeline event, panics and clients that leave: the log keeps the job's whole story, and logs and streams together do only what ProgressFeed promises. |
| `progress_live` | `MCUploadProgress` | pass | `EveryoneReturns` | Two streams of one job: each stream on the job's own log, and each one whose client left, ends under fair goroutines, and the job gets past its relay. |
| `notes` | `MCNotes` | pass | `HistoryCatchesUp`, `TornOnlyByImport`, `IndexAgreesUnlessRaced`, `CommitRecordsItsOwnChange` | Two writes, a delete and an import of two notes in every interleaving, with failing disk, git and index steps and a crash anywhere: each commit records its own call's change, the history catches up with the disk, no note is ever half written, and the full-text row is that of the file unless updates overlapped or were lost. |
| `serve` | `MCServe` | pass | `NoStoreClosedUnderJob`, `CleanExit`, `ShutdownEnds` | Two uploads, their jobs on one worker and a stream against SIGTERM at any moment, with failing boots, expired requests and both deadlines: jobs keep their store open unless a deadline passed, a clean exit leaves no job and no store behind, and the process always ends. |
| `graph` | `MCKnowledgeGraph` | pass | `ExtractedGraphIsStored`, `CommunitiesAreThePartition`, `DeletedLeavesNothing`, `OverlapsAloneHarm` | Any three of two files, two calls of Finalize (one forced) and a Prune, statement by statement, with foreign keys or without and a failure anywhere: an extraction that succeeded is stored whole, entities are doubled and descriptions shortened only by overlapping calls, an undisturbed Finalize leaves exactly its partition, and a delete with keys leaves nothing. |
| `graph_assign` | `MCKnowledgeGraph` | violation | `MembersAreAssigned` | One file and one Finalize, one after the other: the entities with a description lose the community and the rank that Finalize has just given them, since it writes them back with their vectors as it had loaded them. |
| `outer` | `MCOuter` | pass | `WalkIsBreadthFirst`, `PagesAreIndexed`, `NamedOnceAndThere`, `OpenIsOnDisk`, `DataIsRegistered`, `OnlyOursChanges` | Three parts that share no state: walks of a site of four pages, two of which link to the same third, with failing requests and a cancellation; two calls of IndexURL for two of them, which may change, with failing statements, too; two install or uninstall commands at once on the settings of three kinds of client, with an edit by the user and kills; and three commands, requests or restarts of the server on a registry of three slugs. |
| `algorithms` | `MCAlgorithms` | pass | `SearchFindsTheNearest`, `StopsAtLocalOptimum`, `OkMeansEverySlot`, `AnswersAreRight`, `MovesRaiseModularity`, `EveryoneEnds` | Four algorithms on all small inputs: HNSW under every order of insertion, every drawing of levels and one removal; Louvain on every graph of four nodes and small total weight, with every order of visits; the embedding of nine texts in batches or chunks with failing, short and cancelled answers; local searches while relationships are inserted, and global searches over every subset of five communities. |

Bounds. The instances are the smallest in which each hazard can happen: two closers, two
workers and one job more than the buffer has room for (`Workq`); three searches
against an upload of two files, so that a build can straddle the invalidation
and be joined before or after it (`VectorIndexes`); two paths, four contents, three
calls and two edits or changes of the provider, enough for a failure, a revert and a retry
(`DocIndex`); two streams, a
relay with one buffered event and one dropped (`UploadProgress`). `Notes` has two writes, a delete and an import of one entry
for two notes: a failed commit, the commit of another note that takes what it left
along, and a crash or an import between any two of their steps. `Serve` has two uploads
for one worker, so that a job waits while another runs, and one stream, enough to hold
`Shutdown`. `KnowledgeGraph` has two files, two calls of `Finalize` (one forced) and
`Prune`, three of these calls in all, over two names one of which has two spellings: two files
that insert the same entity, a file under a running `Finalize`, two that clear at
once, and a deletion after an extraction. `Projects` has three slugs, two remotes of which share
one, two commands at a time beside two requests and three starts of any kind: a `delete
--purge` under a running server followed by a registration, an `init --force` across a
boot, and a restart with another default. `Crawler` has four pages, two of which
link to one and the same, so that it is queued twice, with cycles and a level of two pages,
for walks without limits, for three pages and within one link and two; `WebIndex` indexes two
of them in two calls, with a sitemap index that lists one page twice and one change of a page. `HookInstaller` has
three kinds of client, two paths of which `Uninstall` recognises one, two commands and
one edit. `HNSW` inserts six vectors in any order with one layer above the base and
M = 2, enough for a list of layer 0 to overflow, to replace or remove one and to leave
the index in parts; its beam is as wide as the index, since a narrower one promises
nothing. `Louvain` has every multigraph of four nodes with total weight four, enough for
a second pass that moves a node back and for a level that does not merge. `Embedding` has
five batches of nine texts for two goroutines and a channel of two that fills. `Search`
has four entities, two documents and three relationships for depths 0 to 2.
Deadlock is not checked: in all the models the finite supply of calls,
edits or requests ends, and the liveness properties say who must not be left
waiting.

## 4. Fairness

Weak fairness of single goroutines only: the Go scheduler runs a goroutine that
can run, a mutex or a channel that stays available is obtained, and `wg.Wait`
returns. Nothing obliges a client to come or leave or a job to panic. Only in
`Serve` a deadline must pass, in the `context.WithTimeout` of `Shutdown` and of the drain. A job or a call into the pipeline is assumed to return, since its calls
outside are bounded by `lcProvider.withCallTimeout` when one is configured,
as it is by default. Where a `select` has two ready
cases no fairness is assumed between them.

## 5. Proofs

`WorkqProofs` proves, for any number of workers, any queue depth, any finite set of
jobs and any set of closers, that `IInv` is an invariant, and from it type
correctness and the safety properties of the run `workq`; and that every
behaviour of the pool is one of `JobService` (`PoolRefinesService`).
The inductive invariant is needed because "accepted implies somewhere" alone is
not inductive: it must know that the lock protocol keeps `CloseChannels` out while
a call is at `"send"`, and that a worker only leaves when the channel is closed and
empty. The assumptions
are the ones named in `Workq`: the configuration is a pair of integers, the two
worker values differ from the jobs, the set of jobs is finite.

Two more theorems have what is safety in "a `Close` comes to its end".
`NobodyWaitsInVain` proves `EveryWaitHasAnEnd`, which the run checks, too: of each wait in
the pool, what it waits for is on its way. It needs to know that somebody is in
`closeOnce.Do` as long as it runs (`DoInv`). `DrainRunsOut` is a measure: twice the jobs in the channel, the workers that have not
left and those that are busy (`LeftToDo`) fall with every step on them once the channel
is closed, because by `NoSendOnClosed` nobody can add to it.

`RetrievalProofs` proves type correctness and, through its `IInv`, the safety
properties of `vecidx` for any sets of searches and uploads and any number
of files. The strengthening says who may hold which flight: every flight that is
registered or running has exactly one leader, and what a leader has read is no
older than the last invalidation of the epoch it began in, unless the
invalidation came while it was building.

`DocIndexProofs` proves the types and the four properties of the run `docidx` for any paths, texts,
workers, bounds and changes of files and provider; the only assumptions are those named in `DocIndex` (some path,
distinct contents, natural bounds). `IInv` says that no two calls work on one path
(`Exclusive`), what each call knows of the rows of its path between the statements
it issues (`Informed`: after `SupersedeDocument` the path has no latest row until this
call inserts one; the row it continues is the newest of its history), and that the
canonical ID of a new history is that of no row. Without `Informed` neither
`OneLatest` nor the histories are inductive, since they depend on what was read
statements ago. `DocumentsWhole` proves `WholeUnlessFlawed` from two more parts: a document
whose call has ended and is not flawed has its chunks and vectors (`CompleteInv`), and a call
whose file was not edited has loaded the text it hashed (`TextInv`). `FreshAfterOkHolds` needs the hypothesis `SameSecond = FALSE`, the one
under which `docidx` runs: then the file's mtime identifies its content
(`RowTimeInv`, `CallTimeInv`), and a row that the mtime test or the hash test accepts
is of the file as it is.

`UploadProgressProofs` proves the types and the safety properties of the run
`progress` for any jobs, streams and files, from `BoundsAssumption` alone. Until the
terminal event the map holds the job's only log (`MapInv`): a stream clears the map
only after it read `done`, which only the terminal event sets (`LogInv`), so every
lookup of the producer finds the log with its first event. `HandsInv` says that the log
the producer has looked up and not yet appended to is still the one in the map, and
that the relay's is one of its job (perhaps a dropped one); `StreamInv` says what a
stream read: sent and in hand make the log's beginning up to the cursor, and `terminal`
implies that every event of the producer is before the cursor. `OwnEventsInOneLog` is
not inductive by itself: without `MapInv` and `HandsInv` the log could be dropped
between the lookup and the append.

`LogsRefineFeeds` proves the refinement of `ProgressFeed` step by step. An append is a
`Publish` only because the producer's log is not yet `done` when it appends (`IInv`) and
because what a relay writes was emitted by the pipeline (`AllInHand`); the end of a stream
is the end of its feed by `StreamInv`. `NoLostWakeup` is about the condition variable: a stream in
`cond.Wait` has nothing left to send, its log is not `done`, its client is there or the
watcher has yet to broadcast, and on the job's own log the terminal event is still to come.
`SleepInv` makes it inductive: a broadcast reaches whoever waits on that log, and the
log with the terminal event is `done` from then on. `JoinedRelaysCanGoOn` and `RelaysRunOut` are
for the job at `relayDone.Wait`: its relay was started, told to stop and can step, and
from the terminal event on, three times the events in the channel and the relay's place
in its loop (`Rest`) only fall.

`KnowledgeGraphProofs` proves the types and the four properties of the run `graph`, for any
files, names, answers and calls of `Finalize`; the one assumption is that files and calls
are different things. `BasicInv` ties the record of every call to its program
counter and to the rows: rows are never deleted or renamed (`EntitiesGrow`), so a
position that was looked up stays that of its name. On it stand four more invariants.
`GoneInv`: once a document is deleted with the keys and its extraction over, nobody
inserts for it again. `StoredInv`: what an extraction has stored stays. `FreshInv`: the
copies and the missing names of a caller who is not `stale` are as in the table, which is
what makes its insert and its rewrite harmless. `AloneInv`: what the tables hold at each
point of a `Finalize` that cleared last and is not `mixed`, since the property speaks
only of its end.

`NotesProofs` proves all the properties of the run `notes`, for any notes, calls and
faults. The lock's invariant (`LockIsHeldByItsUser`) is inductive with the kinds
of call kept apart (`PcInv`). `HistoryCatchesUp` holds only while the lock is
free, so `HistoryInv` also says what is staged while a call is about to commit.
`IndexAgreesUnlessRaced` needs `RaceInv`: the call that has yet to index a note
that is not raced is the only one, and the file still holds what that call put
there. That a commit records its own change needs three more: what a call finds
on disk when git reads it (`OwnInv`), who may have left what is staged
(`StagedInv`) and that nobody commits twice (`LogInv`). The proofs assume that calls of
different kinds, the special values and the notes are distinct.

`ServeProofs` proves the two safety invariants of the run `serve` for any uploads, streams and
number of workers. `PhaseInv` carries the argument: without an error `RunE` can only
come to its deferred closes through the drain, after which no connection is active
and the pool accepts nothing, so a drained pool stays empty; `HeldInv` says that until
the closes every handle in use is open, and `RequestInv` that a handler still at work
afterwards is one the `TimeoutHandler` has answered.

`OuterProofs` proves the types and both invariants of `Projects` that the run `outer`
checks, for any remotes, slugs, commands and requests; it assumes that slugs are a
function of remotes and that no remote is spelled `_default`. `OpenIsOnDisk` is inductive
with the types. `DataIsRegistered` is not, since a database is opened statements after
its project was looked up: `DataInv` adds that whoever is about to open one (a command,
a request, the boot at its default or in its list) has it accounted for, and
`AccountedStays` that only `delete --purge` ends that, and not while anybody is at that
project.

`OuterProofs` also has the hook installer and the crawler, as instances with their own
variables beside those of `Projects`. What an installer keeps of a list, and what the
crawler takes of a page's links, is `Selection`'s `Select`: a sequence at a set of its
positions in increasing order. The library's `SelectSeq` takes the condition as an
operator, of which no prover can say anything. The lemmas on ranks (`RankIsOnto`,
`InOrderProperties`, `SelectSelect`) are proved from the theorems on finite sets.

For the hook installer `NamedOnceAndThere` needs the same of what a command holds in
`copy`, the script of an installation that is under way being there
(`HooksNamedOnceAndThere`). `HooksOnlyOursChanges` proves the action property: the copy
of a command that is not `stale` is the file as it is with the installer's change, and
each of the installers keeps what the property names; what they do not keep is in section 6.

The walk's invariant `BInv` holds for any finite site. It says of the queue that its items
stand for walks of as many steps as their depth, that depths only grow along it and
differ by one at most, and that every link of a page that was listed is listed, queued, or
beyond a limit; with it, when the queue is empty, the list is closed under links,
and whatever a page misses is farther than what it has. `Within`, the pages a walk
of d steps reaches, is the set of last pages of such walks, not a recursion, and the
distance is the least such d; `Reach` stops at the number of pages, beyond which nothing
new is reached (`CrawlWalkIsBreadthFirst`). For the rows, `WInv` says what each goroutine
knows of its page between its statements and which rows belong to which run, and
`WTwice` that two latest rows of one URL come from one run (`WebPagesAreIndexed`). Both
theorems assume that the sets of pages and candidates are as the code has them: finite,
with a list of links for each page.

`RetrievalProofs` has the embedder beside the vector index cache.
`EmbeddingOkMeansEverySlot` holds for any number of texts, batch size, concurrency and
capacity of the channel. For `EmbedTexts` a text that was begun has its vector, or its batch
is in flight or failed; for `EmbedBatch` it has its vector, or a reply that covers it is
in the producer's hands or in the channel, unless an error is on its way or the
context has ended, and a slot stays empty only if the server left that text out (`EInv`).
That a call comes to its end is proved but for the fairness: until it is over, one of its
goroutines can go on (`EmbeddingNeverStuck`), and each step lowers `EWork`, which is never
above 3 * NTexts + 4 (`EmbeddingStepsRunOut`). The first needs a channel with room for one
event at least, where the code has two; the bound, that the texts begun are never more than
those of the request (`ENextInv`).

For the search `AnswersAreRightHolds` assumes finitely many documents and communities, and
numbers for the bounds. The hard part is the walk. A hop asks only for the relationships
at its frontier, the entities that the last hop brought; that these, with what was
found before, are all the relationships at everything near (`AHopReaches`), and that a
hop which brings nothing is the last that could (`ANearStops`), are lemmas about paths.
`AWalk` ties the walk to them: after h hops `visited` is what is near by h steps, as
long as nothing was inserted since the search began. `AScoped`, that all which
was ever looked at is of the documents that were hit, holds whatever is inserted. For
`GlobalSearch` a community that is not among the first `TopN` of a sorted list has
`TopN` others before it, none of them worse (`ABestAreChosen`).

For Louvain both properties are proved for any number of nodes and any weights.
`Total` of a sum is the sum of the totals (`TotalAdds`), by the least number at which
partial sums could differ (`Climb`), since a theorem of induction cannot be
instantiated. From it, moving node p into community b adds to the modularity twice the
gain which the code computes from `sigmaTot` and twice the weight of p's loop, times
2m (`ModularityMoves`): the rows of the other nodes change in one place, p's own in
two communities, and the squares of two totals. `LouvainInv` says that `sigmaTot`
is what the partition makes it, that while a pass moves nothing every node it has
visited is settled, and that a matrix without an edge between two nodes is never
partitioned but into single nodes. The last part is there for the step to a next level,
which sets both graph and partition (`MovesRaise`, `LocalOptimum`). The code's numbers
are floating point, the proof's are whole.

Not provable here and left to TLC: every liveness property, since fairness and
`ENABLED` are beyond the prover; what is proved of the pool, the uploads and the embedder
is the safety in them, that nobody waits for what is not on its way and that the steps
run out, while that the steps are taken stays with the runs' fairness; and what `HNSW` computes, which is written with
recursive operators and promises the nearest vectors only for so small an index. Only model-checked: the modules whose "Proofs" column above is
empty.

## 6. Disagreements between code and documentation

The runs that expect a violation each check one sentence of the repository;
`findings` in `PROJECT.json` quotes it with its line.

- `vecidx_doc` / `InvalidateForcesRebuild` (src/internal/api/vector_indexes.go:88): ForProject stores the index it built without looking whether Invalidate ran since the build read the store, so an index older than the Invalidate is cached after it and every later search gets it; internal/api/vector_indexes.go:111-112 says "Invalidate evicts slug from the cache so the next ForProject call rebuilds from the latest store state".
- `graph_assign` / `MembersAreAssigned` (src/internal/pipeline/pipeline.go:922): finalize sets community_id and rank in the table and then upserts the entities it loaded before, with their vectors and with the old community_id and rank, so every entity with a description loses both; internal/store/store.go:1358 says of the call before "BatchUpdateEntityCommunities updates community_id for multiple entities in one transaction."

Others came up while modelling; the models do what the code does, and no run is spent on
them:

- `docs/cli-reference.md:91` lets `--force` index a file again; `file_hash` is UNIQUE
  (`internal/store/store.go:150`), so an unchanged text fails at the insert, after its old
  version was superseded in a statement of its own.
- `internal/workq/workq.go:26` gives the pool a capacity of `Workers + QueueDepth` jobs "in
  total"; the channel alone is that deep, so with those being run it holds `Workers` more.
  The comment at line 62 (`Submit` succeeds whenever a worker is idle) is not quite so: the
  buffer may be full while idle workers have not been scheduled to receive yet.
- A document whose embedding failed, or that was indexed without a provider, stays without
  vectors: mtime and hash say unchanged to every later call, and `--force` fails at the UNIQUE
  hash. `internal/pipeline/pipeline.go:347-349` calls the missing provider a no-op, which holds
  in `indexFile` alone: `indexRawDoc` (1045) and `finalize` (852, 912) call the embedder without
  that check. A failed call has reported its error; `WholeUnlessFlawed` names all three causes.
- `indexFile` hashes the file and `loader.Load` reads it again: an edit in between stores the
  chunks of one text under the hash of another, and a file put back to the hashed text is then
  skipped.
- An upload that fails at a later file, or is cancelled, returns without `Invalidate`
  (`internal/api/handlers.go:687`), so searches go on without the files it committed.
- `internal/llm/provider.go:228` has "every slot must be populated"; `EmbedBatch` does not count
  the vectors of a chunk as `EmbedTexts` does, so an answer with too few leaves empty slots and
  no error. `OkMeansEverySlot` says it of the texts the server left out, and only of them.
- A stream opened on a job that has finished and whose log was cleared waits for a log
  nobody writes, until its client leaves (`internal/api/handlers.go:874`); `EveryoneReturns`
  therefore asks of streams only that they end with their job or their client.
- The full-text index is written after the note's lock is released
  (`internal/api/notes_handlers.go:229`), so that writers who overlap may leave it with
  another text than the file; `IndexAgreesUnlessRaced` states the rest.
- `GetEntitiesByNames` puts `COLLATE NOCASE` behind the parenthesis of `IN`, where it has
  no effect: two spellings of a name become two entities.
- `docs/cli-reference.md:96` and `cmd/index.go:127` call a `--max-pages` of 0 unlimited; the
  crawler makes it 500.
- `internal/hookinstaller/installer.go:24-28` promises of `Install` "merging with any
  pre-existing content" and of `Uninstall` "removes ONLY our entry; leaves unrelated keys
  intact". Top-level keys survive, and with Claude everything but a command the user put in one
  entry with docsiq's. The other clients do less: with Cursor both commands drop every other
  event of `hooks`, for the struct has none; with Codex and Copilot an event that is not a string
  becomes `""`; and with all three `Install` overwrites a user's own `SessionStart`, which
  `Uninstall` does keep. `OnlyOursChanges` states what is left of the promise.
  Whatever is written to a settings file between the read and the rename is lost.
- Uninstalling hooks finds scripts by a marker in their path: one that was installed under
  a data directory without it stays and `hooks status` does not see it.
- Failures that the code answers with a log line at most, and that the properties
  therefore excuse by a history variable: an import shows half a note while it writes in place
  (`internal/api/notes_handlers.go:530`); a kill after `git init` leaves a repository without an
  identity in which every commit may fail (`internal/notes/history.go:88`); a failed
  `Shutdown`, which one open progress stream is enough for (`internal/api/request_timeout.go:37`),
  returns before the drain and closes the stores under running jobs (`cmd/serve.go:212`), as
  does the drain's own deadline; a handler that outlived its answer opens a store that nobody
  closes (`internal/api/stores.go:118`); a `Finalize` that fails midway or meets another one
  leaves no communities or a mixture (`internal/pipeline/pipeline.go:743`); a delete on a
  connection without `foreign_keys` leaves orphans (`internal/store/store.go:57`), and `Prune`
  stops at the first document with relationships and takes uploaded files for missing
  (`internal/pipeline/pipeline.go:960`); `init --force` and `delete --purge` take two steps, and
  what comes between leaves a database without a project (`cmd/init.go:88`), while a purge leaves
  a running server with a file that has no name (`internal/api/stores.go:93`); and a node whose
  neighbours' lists overflowed may be linked to after `Remove`
  (`internal/vectorindex/hnsw.go:351`).
- A default project that meets a row which holds the remote `_default` under another slug is
  refused by the registry, and served all the same.

## 7. Not modelled, and the plan

Worth doing next:

1. `Serve` and `Projects` have one server; a second server, or `docsiq index` beside a running server, on the same database would need SQLite's busy errors.
2. `KnowledgeGraph` with more than two files, on a machine where its run may take longer.
3. The readiness probe's cache and mutex, and the chunker's overlap as a pure algorithm.

Outside the models, and assumed: two processes that index one path at a time; times of
files that are finer than a second (`SameSecond` lets `DocIndex` have edits within one);
that the number of uploads ever made, for each of which the status map keeps an entry,
fits into memory; what a purge under a running server leaves in the unlinked file.

Left out for good: HTTP routing and middleware without state, document format
conversion, prompts and parsing of model answers, logging and metrics, rendering
in the UI. They hold no state another component depends on. `notes.Watch` is
called by nothing but its tests.
