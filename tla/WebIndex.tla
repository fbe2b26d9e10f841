-------------------------------- MODULE WebIndex --------------------------------
(***************************************************************************)
(* IndexURL and indexRawDoc of internal/pipeline/pipeline.go: the pages of  *)
(* a crawl are indexed by goroutines, at most Concurrency at a time, each   *)
(* statement on the documents table a step of its own.  The hash of a text  *)
(* stands for the text; the row at position n has the document ID n, and a  *)
(* first version's canonical ID is -n.  A fetched page is not blank, so it  *)
(* gives chunks.                                                            *)
(***************************************************************************)
EXTENDS Crawler

CONSTANT MaxRuns    \* bound: calls of IndexURL

VARIABLES
    docs,      \* the documents table; whole: the row has its chunks and vectors
    pages,     \* what the crawl returned
    pc,        \* per page: "lookup", "supersede", "insert", "fill", "ok", "failed"
    existing,  \* per page: the ID GetDocumentByPath returned, 0 for none; later
               \* the ID of the new row
    force,     \* opts.Force
    outcome,   \* how the last call ended: "none", "nil" or "error"
    runs       \* calls so far

indexVars == <<docs, pages, pc, existing, force, outcome, runs>>
vars == <<siteVars, crawlVars, indexVars>>

Init ==
    /\ CrawlInit
    /\ docs = <<>> /\ pages = <<>> /\ pc = <<>> /\ existing = <<>>
    /\ force = FALSE /\ outcome = "none" /\ runs = 0

IndexURL(maxPages, maxDepth, skip, f) ==
    /\ phase = "idle" /\ runs < MaxRuns
    /\ Crawl(maxPages, maxDepth, skip)
    /\ runs' = runs + 1 /\ force' = f /\ outcome' = "none"
    /\ pages' = <<>> /\ pc' = <<>> /\ existing' = <<>>
    /\ UNCHANGED docs

(* The crawl has returned: without a page the call fails. *)
Crawled ==
    /\ phase = "fetched"
    /\ pages' = Pages
    /\ pc' = [i \in DOMAIN pages' |-> "lookup"]
    /\ existing' = [i \in DOMAIN pages' |-> 0]
    /\ Forget
    /\ IF pages' = <<>>
       THEN phase' = "idle" /\ outcome' = "error" /\ cancelled' = FALSE
       ELSE phase' = "index" /\ UNCHANGED <<cancelled, outcome>>
    /\ UNCHANGED <<siteVars, docs, force, runs>>

Ended(i) == pc[i] \in {"ok", "failed"}

(* Page i has its goroutine. *)
Running(i) ==
    /\ phase = "index" /\ ~Ended(i)
    /\ Cardinality({j \in 1 .. i - 1 : ~Ended(j)}) < Concurrency

Goto(i, step) == pc' = [pc EXCEPT ![i] = step]
RestUnchanged == UNCHANGED <<siteVars, crawlVars, pages, force, outcome, runs>>

LatestOf(u) == {d \in DOMAIN docs : docs[d].path = u /\ docs[d].latest}
SameHash(i, d) == d # 0 /\ docs[d].hash = pages[i].text

Lookup(i) ==
    /\ pc[i] = "lookup"
    /\ \E d \in IF LatestOf(pages[i].url) = {} THEN {0} ELSE LatestOf(pages[i].url) :
           /\ existing' = [existing EXCEPT ![i] = d]
           /\ Goto(i, IF ~force /\ SameHash(i, d) THEN "ok"
                      ELSE IF d # 0 THEN "supersede" ELSE "insert")
    /\ UNCHANGED docs

Supersede(i) ==
    /\ pc[i] = "supersede"
    /\ docs' = [docs EXCEPT ![existing[i]].latest = FALSE]
    /\ Goto(i, "insert")
    /\ UNCHANGED existing

(* UpsertDocument with versionInfo: file_hash is UNIQUE. *)
NewRow(i) ==
    LET d == existing[i] IN
    [path |-> pages[i].url, hash |-> pages[i].text, latest |-> TRUE, run |-> runs,
     version |-> IF d = 0 THEN 1 ELSE docs[d].version + 1,
     canonical |-> IF d = 0 THEN -(Len(docs) + 1) ELSE docs[d].canonical,
     whole |-> FALSE]

InsertRow(i) ==
    /\ pc[i] = "insert"
    /\ IF \E d \in DOMAIN docs : docs[d].hash = pages[i].text
       THEN Goto(i, "failed") /\ UNCHANGED <<docs, existing>>
       ELSE /\ docs' = Append(docs, NewRow(i))
            /\ existing' = [existing EXCEPT ![i] = Len(docs) + 1]
            /\ Goto(i, "fill")

(* BatchInsertChunks, EmbedTexts and BatchUpsertEmbeddings, which write what *)
(* no other page reads; the extractions after them can only warn.           *)
Fill(i) ==
    /\ pc[i] = "fill"
    /\ docs' = [docs EXCEPT ![existing[i]].whole = TRUE]
    /\ Goto(i, "ok")
    /\ UNCHANGED existing

(* Any statement and the model server can fail. *)
Abort(i) ==
    /\ Goto(i, "failed")
    /\ UNCHANGED <<docs, existing>>

IndexPage(i) ==
    /\ Running(i)
    /\ RestUnchanged
    /\ \/ ~cancelled /\ (Lookup(i) \/ Supersede(i) \/ InsertRow(i) \/ Fill(i))
       \/ Abort(i)

(* A mutant: only a call all of whose pages failed is an error.             *)
CallFails_OnlyIfAll == \A i \in DOMAIN pc : pc[i] = "failed"

CallFails == \E i \in DOMAIN pc : pc[i] = "failed"

(* wg.Wait: the call returns an error when a page did. *)
Return ==
    /\ phase = "index" /\ \A i \in DOMAIN pc : Ended(i)
    /\ phase' = "idle" /\ cancelled' = FALSE /\ Forget
    /\ outcome' = IF CallFails THEN "error" ELSE "nil"
    /\ UNCHANGED <<siteVars, docs, pages, pc, existing, force, runs>>

Next ==
    \/ \E u \in URLs, t \in Texts : EditPage(u, t) /\ UNCHANGED indexVars
    \/ \E l \in Limits, s, f \in BOOLEAN : IndexURL(l[1], l[2], s, f)
    \/ CrawlStep /\ UNCHANGED indexVars
    \/ Crawled
    \/ \E i \in DOMAIN pages : IndexPage(i)
    \/ Return

Spec == Init /\ [][Next]_vars

-----------------------------------------------------------------------------
ListedTwice(u) == \E i, j \in DOMAIN pages : i # j /\ pages[i].url = u /\ pages[j].url = u

(* IndexURL returns nil only when every page it fetched is, as fetched, the *)
(* latest version of its URL, with chunks and vectors; a row that an        *)
(* earlier call left unfinished is excused, since its hash makes every      *)
(* later call skip it, and a URL that the sitemaps list twice, whose two    *)
(* fetches may differ.                                                      *)
NilMeansIndexed ==
    phase = "idle" /\ outcome = "nil" =>
        \A i \in DOMAIN pages : ~ListedTwice(pages[i].url) =>
            \E d \in LatestOf(pages[i].url) :
                /\ docs[d].hash = pages[i].text
                /\ docs[d].whole \/ docs[d].run < runs

(* A URL has two latest versions only when some call listed it twice and    *)
(* inserted both: its two goroutines look it up before either has inserted, *)
(* and the two fetches gave different texts, or else the UNIQUE hash stops  *)
(* the second.  A later call supersedes one of the two and leaves the other.*)
OneLatestPage ==
    \A d, e \in DOMAIN docs :
        d # e /\ docs[d].latest /\ docs[e].latest /\ docs[d].path = docs[e].path =>
            /\ docs[d].hash # docs[e].hash
            /\ \E x, y \in DOMAIN docs :
                   x # y /\ docs[x].run = docs[y].run /\ docs[x].path = docs[d].path /\ docs[y].path = docs[d].path
=============================================================================
