------------------------------- MODULE MCOuter -------------------------------
(***************************************************************************)
(* Instances for TLC of the three parts of Outer.  A behaviour is one of   *)
(* one of them, chosen in the initial state.                               *)
(***************************************************************************)
EXTENDS Outer, TLC

CONSTANTS r, a, b, e

VARIABLES which

allVars == <<which, webVars, hookVars, vars>>

(* A site of four pages: two of them link to e, which is queued once by    *)
(* each; a stack in place of the queue would list e before b; and there    *)
(* are cycles through r and through a.  The second candidate is an index   *)
(* of two sitemaps, which list one page twice between them.                *)
MCLinks == r :> <<a, b>> @@ a :> <<r, e>> @@ b :> <<e>> @@ e :> <<a>>
MCSitemapIndex == "idx" :> <<"s1", "s2">>
MCSitemapURLs == "s1" :> <<r, a>> @@ "s2" :> <<a>>
MCCandidates == <<"none", "idx">>
MCFirstText == r :> "t1" @@ a :> "t2" @@ b :> "t3" @@ e :> "t3"

(* Whole calls of IndexURL for two pages, whatever their distance, or for  *)
(* all that the sitemaps list; walks alone, up to the list, without        *)
(* limits, for three pages and for the pages within one link and two.      *)
MCCallLimits == {<<2, 0>>, <<0, 1>>}
MCWalkLimits == {<<0, 0>>, <<3, 0>>, <<0, 1>>, <<0, 2>>}
MCLimits == MCCallLimits \cup MCWalkLimits

(* The options of a call with one of these limits. *)
OptsOf(limits) == {[pages |-> IF l[1] = 0 THEN NoLimit ELSE l[1], depth |-> l[2]] : l \in limits}

(* Two spellings of one remote and another one. *)
MCSlugOf == "https" :> "x" @@ "ssh" :> "x" @@ "other" :> "y"

(* Processes of one kind are interchangeable. *)
Symmetry == Permutations(Procs) \cup Permutations(Clis) \cup Permutations(Requests)

MCInit ==
    /\ which \in {"web", "walk", "hooks", "projects"}
    /\ W!Init /\ K!Init /\ Init
    /\ which = "projects" \/ default = CHOOSE x \in Defaults : TRUE

(* A call; one that walks is asked for two pages, so r and a are all that *)
(* calls read.                                                            *)
Call ==
    /\ W!Next
    /\ phase = "idle" /\ phase' # "idle" => opts' \in OptsOf(MCCallLimits)
    /\ phase' = "bfs" => opts'.pages = 2
    /\ UNCHANGED <<text[b], text[e]>>

(* A walk until it has its list. *)
Walk ==
    /\ phase # "fetch" /\ W!Next
    /\ phase' # "idle" /\ opts' \in OptsOf(MCWalkLimits)

MCNext ==
    \/ which = "web" /\ Call /\ UNCHANGED <<which, hookVars, vars>>
    \/ which = "walk" /\ Walk /\ UNCHANGED <<which, hookVars, vars>>
    \/ which = "hooks" /\ K!Next /\ UNCHANGED <<which, webVars, vars>>
    \/ which = "projects" /\ Next /\ UNCHANGED <<which, webVars, hookVars>>

MCSpec == MCInit /\ [][MCNext]_allVars
=============================================================================
