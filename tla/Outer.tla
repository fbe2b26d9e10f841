-------------------------------- MODULE Outer --------------------------------
(***************************************************************************)
(* Three parts around the core that share no state: the registry of        *)
(* projects, the crawler with the indexing of its pages, and the hook      *)
(* installer.                                                              *)
(***************************************************************************)
EXTENDS Projects

CONSTANTS
    URLs, Root, LinksOf, Candidates, SitemapIndex, SitemapURLs, Limits, NoLimit, Concurrency,
    Texts, FirstText, MaxEdits, WebRuns,
    Clients, Paths, Marked, User, Procs, HookRuns, HookEdits

VARIABLES
    text, edits, phase, opts, tried, pending, queue, urls, fetched, cancelled, missed, walked,
    docs, pages, pc, existing, webForce, outcome, webRuns,
    file, script, proc, hookRuns, hookEdits

webVars == <<text, edits, phase, opts, tried, pending, queue, urls, fetched, cancelled, missed, walked,
             docs, pages, pc, existing, webForce, outcome, webRuns>>
hookVars == <<file, script, proc, hookRuns, hookEdits>>

W == INSTANCE WebIndex WITH force <- webForce, runs <- webRuns, MaxRuns <- WebRuns
K == INSTANCE HookInstaller WITH runs <- hookRuns, edits <- hookEdits,
                                 MaxRuns <- HookRuns, MaxEdits <- HookEdits

ASSUME OuterAssumption == W!CrawlerAssumption /\ K!HookAssumption

-----------------------------------------------------------------------------
(* The crawler walks breadth first. *)
WalkIsBreadthFirst == W!WalkIsBreadthFirst

(* A call of IndexURL that returns nil has indexed what it fetched, and a   *)
(* URL has two latest versions only if it was listed twice.                 *)
PagesAreIndexed == W!NilMeansIndexed /\ W!OneLatestPage

(* The hook installer keeps what it did not come to change, as far as it   *)
(* can decode it.                                                          *)
OnlyOursChanges == K!OnlyOursChanges

(* The hook installer names each script at most once, and only if it is     *)
(* there.                                                                   *)
NamedOnceAndThere == K!NamedOnceAndThere
=============================================================================
