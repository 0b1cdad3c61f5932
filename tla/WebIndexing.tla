---------------------------- MODULE WebIndexing ----------------------------
(***************************************************************************)
(* POST /web-indexing/crawl (app/api/routes/web_indexing.py): a site is    *)
(* crawled breadth first from one page (app/web_indexing/web_crawler.py),  *)
(* then the pages are built into the knowledge base one after another.     *)
(* POST /web-indexing/fetch does the same with one page, and               *)
(* POST /web-indexing/sync only fetches it (app/web_indexing/web_sync.py). *)
(*                                                                         *)
(* A page is its URL without a fragment, which is what links lead to.  The *)
(* URL given to start with is taken as it is: with a fragment, or without  *)
(* the slash of an empty path, it is another spelling of a page and a URL  *)
(* of its own.  What a URL links to, whether it can be fetched and whether *)
(* it has text is known when it is fetched.  allowed_paths is not          *)
(* modelled: no caller gives it.                                           *)
(***************************************************************************)
EXTENDS Integers, Sequences, SequencesExt, FiniteSetsExt

CONSTANTS
    Pages,       \* URLs of the domain that links may lead to
    Start,       \* start_url, one of them or another spelling of one
    Home,        \* the page it shows
    MaxPages     \* max_pages

\* What the constants have to satisfy; Services assumes it.
WebAssumption ==
    /\ IsFiniteSet(Pages) /\ Home \in Pages /\ (Start \in Pages => Start = Home)
    /\ MaxPages \in Nat \ {0}

Spellings == Pages \union {Start}

\* The page a URL shows.
Page(url) == IF url = Start THEN Home ELSE url

VARIABLES
    stage,       \* "robots", "crawl", "index" or "done"
    robots,      \* disallowed: the URLs robots.txt forbids
    queue, visited,
    results,     \* the URLs fetched, with their outcome
    links,       \* history: fetched URL -> the pages it links to
    indexed      \* the URLs whose pages are built into the knowledge base

vars == <<stage, robots, queue, visited, results, links, indexed>>

\* WebLoader.fetch never raises: a timeout, a status or another failure is
\* the error of its result.  A page may have no text outside its markup.
Outcomes == {"text", "empty", "error"}

Init == /\ stage = "robots" /\ robots = {}
        /\ queue = <<Start>> /\ visited = {}
        /\ results = <<>> /\ links = <<>> /\ indexed = <<>>

-------------------------------------------------------------------------------
(* The crawl.                                                              *)

\* _fetch_robots: nothing is forbidden when it cannot be read.  It forbids paths,
\* and an empty path is not the path /.
FetchRobots ==
    /\ stage = "robots" /\ stage' = "crawl"
    /\ robots' \in SUBSET Spellings
    /\ UNCHANGED <<queue, visited, results, links, indexed>>

\* The condition of the loop.
Going == stage = "crawl" /\ queue # <<>> /\ Cardinality(visited) < MaxPages

\* A forbidden URL counts as visited, and against max_pages.
Forbidden ==
    /\ Going /\ Head(queue) \in robots
    /\ visited' = visited \union {Head(queue)}
    /\ queue' = Tail(queue)
    /\ UNCHANGED <<stage, robots, results, links, indexed>>

\* What is fetched, and the links of the page that are neither visited nor in
\* the queue; _extract_links is a set, and they come in any order.  A link to a
\* URL visited changes nothing, and one to this URL or to start_url as it was given
\* is left out; but one to the page of start_url in another spelling is followed.
Fetched(url, rest) ==
    /\ visited' = visited \union {url}
    /\ \E outcome \in Outcomes, to \in SUBSET (Pages \ {url, Start}) :
         /\ outcome = "error" => to = {}
         /\ results' = Append(results, [url |-> url, outcome |-> outcome])
         /\ links' = [p \in DOMAIN links \union {url} |-> IF p = url THEN to ELSE links[p]]
         /\ \E new \in SetToSeqs((to \ visited') \ ToSet(rest)) : queue' = rest \o new

\* Mutant: queue.pop().
FetchNewest ==
    /\ Going /\ Last(queue) \notin visited \union robots
    /\ Fetched(Last(queue), Front(queue))
    /\ UNCHANGED <<stage, robots, indexed>>

Fetch ==
    /\ Going /\ Head(queue) \notin visited \union robots
    /\ Fetched(Head(queue), Tail(queue))
    /\ UNCHANGED <<stage, robots, indexed>>

\* POST /web-indexing/fetch: robots.txt is not read and no link is followed.
FetchOne ==
    /\ stage = "robots" /\ stage' = "index"
    /\ visited' = {Start} /\ queue' = <<>> /\ links' = [p \in {Start} |-> {}]
    /\ \E outcome \in Outcomes : results' = <<[url |-> Start, outcome |-> outcome]>>
    /\ UNCHANGED <<robots, indexed>>

\* WebSyncScheduler.sync: a page that has not changed since it was tracked is
\* answered without its content.
Synced(tracked) == Outcomes \union IF Start \in tracked THEN {"unchanged"} ELSE {}

\* POST /web-indexing/sync: the scheduler is made for the request and tracks
\* nothing.
SyncOne ==
    /\ stage = "robots" /\ stage' = "done"
    /\ visited' = {Start} /\ queue' = <<>> /\ links' = [p \in {Start} |-> {}]
    /\ \E outcome \in Synced({}) : results' = <<[url |-> Start, outcome |-> outcome]>>
    /\ UNCHANGED <<robots, indexed>>

Crawled ==
    /\ stage = "crawl" /\ ~ Going
    /\ stage' = "index"
    /\ UNCHANGED <<robots, queue, visited, results, links, indexed>>

-------------------------------------------------------------------------------
(* Indexing.                                                               *)

\* build_from_text with the first page that has text and is not built.
Build ==
    /\ stage = "index"
    /\ \E k \in DOMAIN results :
         /\ results[k].outcome = "text" /\ results[k].url \notin ToSet(indexed)
         /\ \A j \in 1 .. k - 1 : results[j].outcome = "text" => results[j].url \in ToSet(indexed)
         /\ indexed' = Append(indexed, results[k].url)
    /\ UNCHANGED <<stage, robots, queue, visited, results, links>>

\* All are built; or index_to_kg is off, the workspace is missing or a build
\* raises, and the pages that are left are not built.
Reply ==
    /\ stage = "index" /\ stage' = "done"
    /\ UNCHANGED <<robots, queue, visited, results, links, indexed>>

Next == FetchRobots \/ Forbidden \/ Fetch \/ FetchOne \/ SyncOne \/ Crawled \/ Build \/ Reply

Spec == Init /\ [][Next]_vars

-------------------------------------------------------------------------------
\* The URLs at most n links away from the start.
Within[n \in Nat] ==
    IF n = 0 THEN {Start}
    ELSE Within[n - 1] \union UNION {links[p] : p \in Within[n - 1] \intersect DOMAIN links}

Depth(url) == Min({n \in 0 .. Cardinality(Spellings) : url \in Within[n]})

(* URLs are fetched once, none that is forbidden, and the nearest first;   *)
(* only the page of start_url may be fetched twice, first as it was given  *)
(* and later as the links spell it (web_crawler.py:58, 177).  A crawl that *)
(* ends before max_pages has visited every URL there is a way to, and one  *)
(* that reaches it, none farther than one it left in the queue.  Pages are *)
(* indexed in the order they were fetched in (web_crawler.py:72-91,        *)
(* web_indexing.py:108-131).                                               *)
CrawlsNearestFirst ==
    /\ \A i, j \in DOMAIN results : i < j =>
          /\ results[i].url # results[j].url
          /\ Page(results[i].url) = Page(results[j].url) => i = 1 /\ results[i].url = Start
          /\ Depth(results[i].url) <= Depth(results[j].url)
    /\ DOMAIN links \intersect robots = {}
    /\ stage \in {"index", "done"} =>
          /\ Cardinality(visited) < MaxPages => visited = Within[Cardinality(Spellings)]
          /\ \A p \in visited, q \in ToSet(queue) : Depth(p) <= Depth(q)
          /\ \A i, j \in DOMAIN indexed : i < j => Depth(indexed[i]) <= Depth(indexed[j])
=============================================================================
