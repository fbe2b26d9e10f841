SPECIFICATION MCSpec
CONSTANTS
  r = r
  a = a
  b = b
  e = e
  URLs = {r, a, b, e}
  Root = r
  LinksOf <- MCLinks
  Candidates <- MCCandidates
  SitemapIndex <- MCSitemapIndex
  SitemapURLs <- MCSitemapURLs
  FirstText <- MCFirstText
  Limits <- MCLimits
  NoLimit = 5
  Concurrency = 2
  Texts = {"t1", "t2", "t3"}
  MaxEdits = 1
  WebRuns = 2
  Clients = {"claude", "cursor", "codex"}
  Paths = {p1, p2}
  Marked = {p1}
  User = u
  Procs = {q1, q2}
  HookRuns = 2
  HookEdits = 1
  SlugOf <- MCSlugOf
  Remotes = {"https", "ssh", "other"}
  Slugs = {"x", "y", "z"}
  Defaults = {"y", "z"}
  Clis = {c1, c2}
  Requests = {w1, w2}
  MaxRuns = 3
  MaxFiles = 3
SYMMETRY Symmetry
INVARIANTS WalkIsBreadthFirst PagesAreIndexed NamedOnceAndThere OpenIsOnDisk DataIsRegistered
PROPERTY OnlyOursChanges
CHECK_DEADLOCK FALSE
