-------------------------------- MODULE Crawler --------------------------------
(***************************************************************************)
(* internal/crawler/crawler.go: Crawl lists the pages of a site, from its   *)
(* sitemaps or breadth first along its links, caps the list and fetches the *)
(* pages.  Any request can fail.  URLs are as resolveURL and isSameOrigin   *)
(* leave them: absolute, without query and fragment, of the root's host and *)
(* below its path; LinksOf has the links of each page in their order, each  *)
(* once, as extractLinks returns them.                                      *)
(***************************************************************************)
EXTENDS Integers, Sequences, FiniteSets, SequencesExt, FiniteSetsExt, Selection

CONSTANTS
    URLs,          \* the pages of the site
    Root,          \* the URL that is crawled
    LinksOf,       \* the links of each page, a sequence of URLs
    Candidates,    \* where discoverSitemap looks, a sequence of places
    SitemapIndex,  \* the sitemaps that list sitemaps: a function to sequences
    SitemapURLs,   \* the sitemaps that list pages: a function to sequences
    Limits,        \* the pairs of MaxPages and MaxDepth a caller may give
    NoLimit,       \* what MaxPages becomes when none is given (500)
    Concurrency,   \* fetches, and later pages, in flight
    Texts,         \* what a page can hold
    FirstText,     \* what it holds at first
    MaxEdits       \* bound: changes of pages

CrawlerAssumption ==
    /\ IsFiniteSet(URLs) /\ Root \in URLs
    /\ LinksOf \in [URLs -> Seq(URLs)]
    /\ \A at \in DOMAIN SitemapURLs : SitemapURLs[at] \in Seq(URLs)
    /\ Limits \subseteq Nat \X Nat
    /\ NoLimit \in Nat \ {0} /\ Concurrency \in Nat \ {0} /\ MaxEdits \in Nat
    /\ FirstText \in [URLs -> Texts]

VARIABLES
    text,      \* the site: what each page holds now
    edits,     \* for the bound: changes of pages
    phase,     \* "idle", "sitemap", "bfs", "fetch", "fetched"
    opts,      \* MaxPages, MaxDepth
    tried,     \* the candidates for a sitemap that were looked at
    pending,   \* sitemaps still to be parsed, the next first
    queue,     \* bfsCrawl's queue of [u, depth]
    urls,      \* the pages listed so far
    fetched,   \* per listed page: "wait", "failed" or the text it was fetched with
    cancelled, \* the context has ended
    missed,    \* history: a request failed since the sitemaps, or the walk,
               \* were begun, or the context ended
    walked     \* history: the list was made by bfsCrawl

crawlVars == <<phase, opts, tried, pending, queue, urls, fetched, cancelled, missed, walked>>
siteVars == <<text, edits>>

CrawlInit ==
    /\ text = FirstText /\ edits = 0
    /\ phase = "idle" /\ opts = [pages |-> 0, depth |-> 0]
    /\ tried = 0 /\ pending = <<>> /\ queue = <<>> /\ urls = <<>> /\ fetched = <<>>
    /\ cancelled = FALSE /\ missed = FALSE /\ walked = FALSE

(* What Crawl worked with is gone when it has returned. *)
Forget ==
    /\ opts' = [pages |-> 0, depth |-> 0]
    /\ tried' = 0 /\ pending' = <<>> /\ queue' = <<>> /\ urls' = <<>> /\ fetched' = <<>>
    /\ missed' = FALSE /\ walked' = FALSE

(* Whoever keeps the site changes a page; only between calls and while the  *)
(* pages are fetched, since nothing else reads the texts.                   *)
EditPage(u, t) ==
    /\ edits < MaxEdits /\ t # text[u]
    /\ phase \in {"idle", "fetch"}
    /\ text' = [text EXCEPT ![u] = t]
    /\ edits' = edits + 1
    /\ UNCHANGED crawlVars

(* Crawl: no limit of pages becomes NoLimit. *)
Crawl(pages, depth, skipSitemap) ==
    /\ opts' = [pages |-> IF pages = 0 THEN NoLimit ELSE pages, depth |-> depth]
    /\ tried' = 0 /\ pending' = <<>> /\ urls' = <<>> /\ fetched' = <<>>
    /\ cancelled' = FALSE /\ missed' = FALSE /\ walked' = skipSitemap
    /\ IF skipSitemap
       THEN phase' = "bfs" /\ queue' = <<[u |-> Root, depth |-> 0]>>
       ELSE phase' = "sitemap" /\ queue' = <<>>
    /\ UNCHANGED siteVars

(* The context ends; what a later end would do, the failures of the pages   *)
(* that are indexed do.                                                     *)
Cancel ==
    /\ phase \in {"sitemap", "bfs"} /\ ~cancelled
    /\ cancelled' = TRUE /\ missed' = TRUE
    /\ UNCHANGED <<siteVars, phase, opts, tried, pending, queue, urls, fetched, walked>>

-----------------------------------------------------------------------------
(* discoverSitemap: the candidates one after the other until one has URLs.  *)
TryCandidate ==
    /\ phase = "sitemap" /\ pending = <<>> /\ urls = <<>>
    /\ IF tried < Len(Candidates)
       THEN /\ tried' = tried + 1
            /\ pending' = <<Candidates[tried + 1]>>
            /\ UNCHANGED <<phase, queue, missed, walked>>
       ELSE /\ phase' = "bfs" /\ walked' = TRUE /\ missed' = cancelled
            /\ queue' = <<[u |-> Root, depth |-> 0]>>
            /\ UNCHANGED <<tried, pending>>
    /\ UNCHANGED <<siteVars, opts, urls, fetched, cancelled>>

(* parseSitemap: an index is replaced by the sitemaps it lists; a request   *)
(* that fails adds nothing, and only a candidate's own failure would be an  *)
(* error, which is the same as no URLs.                                     *)
ParseSitemap ==
    /\ phase = "sitemap" /\ pending # <<>>
    /\ LET at == Head(pending) IN
       \/ /\ ~cancelled /\ at \in DOMAIN SitemapIndex
          /\ pending' = SitemapIndex[at] \o Tail(pending)
          /\ UNCHANGED <<urls, missed>>
       \/ /\ ~cancelled /\ at \in DOMAIN SitemapURLs
          /\ urls' = urls \o SitemapURLs[at]
          /\ pending' = Tail(pending)
          /\ UNCHANGED missed
       \/ /\ pending' = Tail(pending)
          /\ missed' = TRUE
          /\ UNCHANGED urls
    /\ UNCHANGED <<siteVars, phase, opts, tried, queue, fetched, cancelled, walked>>

(* The list is capped and the fetching begins. *)
Listed(list) ==
    /\ phase' = "fetch"
    /\ urls' = SubSeq(list, 1, Min({Len(list), opts.pages}))
    /\ fetched' = [i \in DOMAIN urls' |-> "wait"]

SitemapFound ==
    /\ phase = "sitemap" /\ pending = <<>> /\ urls # <<>>
    /\ Listed(urls)
    /\ UNCHANGED <<siteVars, opts, tried, pending, queue, cancelled, missed, walked>>

(* One turn of bfsCrawl's loop: a URL already listed is passed over, at the *)
(* depth limit no links are followed, and a page that cannot be read has    *)
(* none.                                                                    *)
Unseen(list, u) == Select(LinksOf[u], {k \in DOMAIN LinksOf[u] : LinksOf[u][k] \notin ToSet(list)})

Expandable(item) == opts.depth = 0 \/ item.depth < opts.depth

(* A mutant: what is taken out of the queue is not looked up.               *)
AlreadyListed_Never(u) == FALSE

AlreadyListed(u) == u \in ToSet(urls)

(* A mutant: the links of a page come before what waits, as in a stack.     *)
Enqueue_InFront(rest, items) == items \o rest

Enqueue(rest, items) == rest \o items

Visit ==
    /\ phase = "bfs" /\ queue # <<>> /\ Len(urls) < opts.pages /\ ~cancelled
    /\ LET item == Head(queue)
           list == Append(urls, item.u)
           links == Unseen(list, item.u)
           items == [i \in DOMAIN links |-> [u |-> links[i], depth |-> item.depth + 1]]
       IN  IF AlreadyListed(item.u)
           THEN queue' = Tail(queue) /\ UNCHANGED <<urls, missed>>
           ELSE /\ urls' = list
                /\ \/ /\ queue' = Enqueue(Tail(queue), IF Expandable(item) THEN items ELSE <<>>)
                      /\ UNCHANGED missed
                   \/ /\ Expandable(item)
                      /\ queue' = Tail(queue)
                      /\ missed' = TRUE
    /\ UNCHANGED <<siteVars, phase, opts, tried, pending, fetched, cancelled, walked>>

BfsEnds ==
    /\ phase = "bfs" /\ (queue = <<>> \/ Len(urls) >= opts.pages \/ cancelled)
    /\ Listed(urls)
    /\ queue' = <<>>
    /\ UNCHANGED <<siteVars, opts, tried, pending, cancelled, missed, walked>>

(* One of the fetches that are in flight ends; they do not know the context.*)
Fetch(i) ==
    /\ phase = "fetch" /\ i \in DOMAIN urls /\ fetched[i] = "wait"
    /\ Cardinality({j \in 1 .. i - 1 : fetched[j] = "wait"}) < Concurrency
    /\ \E got \in {text[urls[i]], "failed"} : fetched' = [fetched EXCEPT ![i] = got]
    /\ UNCHANGED <<siteVars, phase, opts, tried, pending, queue, urls, cancelled, missed, walked>>

FetchesEnd ==
    /\ phase = "fetch" /\ \A i \in DOMAIN fetched : fetched[i] # "wait"
    /\ phase' = "fetched"
    /\ UNCHANGED <<siteVars, opts, tried, pending, queue, urls, fetched, cancelled, missed, walked>>

CrawlStep ==
    \/ TryCandidate \/ ParseSitemap \/ SitemapFound
    \/ Visit \/ BfsEnds
    \/ (\E i \in DOMAIN urls : Fetch(i)) \/ FetchesEnd
    \/ Cancel

(* The pages Crawl returns, in the order of the list. *)
Pages ==
    Select([i \in DOMAIN urls |-> [url |-> urls[i], text |-> fetched[i]]],
           {i \in DOMAIN urls : fetched[i] # "failed"})

-----------------------------------------------------------------------------
(* The pages at most d links away from the root: the ends of the walks of d *)
(* steps, each of which follows a link or stays.  No page is further away   *)
(* than there are pages.                                                    *)
Walks(d) ==
    {p \in [0 .. d -> URLs] :
        /\ p[0] = Root
        /\ \A k \in 1 .. d : p[k] = p[k - 1] \/ p[k] \in ToSet(LinksOf[p[k - 1]])}

Within == [d \in 0 .. Cardinality(URLs) |-> {p[d] : p \in Walks(d)}]

Reach ==
    Within[IF opts.depth = 0 \/ opts.depth > Cardinality(URLs) THEN Cardinality(URLs) ELSE opts.depth]

Distance(u) == CHOOSE d \in 0 .. Cardinality(URLs) : u \in Within[d] /\ (d = 0 \/ u \notin Within[d - 1])

(* A walk lists pages within the depth, each once and no more than asked    *)
(* for, although a page is queued as often as it is linked and marked only  *)
(* when it is taken out; when every request was answered they come in the   *)
(* order of their distance, and none is missing before the limit is reached.*)
WalkIsBreadthFirst ==
    walked /\ phase = "fetch" =>
        /\ ToSet(urls) \subseteq Reach
        /\ IsInjective(urls) /\ Len(urls) <= opts.pages
        /\ ~missed =>
            /\ Len(urls) < opts.pages => ToSet(urls) = Reach
            /\ \A i, j \in DOMAIN urls : i < j => Distance(urls[i]) <= Distance(urls[j])
=============================================================================
