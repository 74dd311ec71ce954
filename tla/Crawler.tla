------------------------------ MODULE Crawler -------------------------------
(***************************************************************************)
(* Spider.crawl (app/engine/crawler/spider.py): batches of pages from a    *)
(* queue are fetched concurrently (asyncio.gather), and what each links to *)
(* is appended to the queue when its response arrives.                     *)
(*                                                                         *)
(* Pages are URLs after normalisation.  A response is HTML with links, or  *)
(* something without, or an error: a timeout, a refused connection, or a   *)
(* denial of the scope gateway, also for a redirect hop.                   *)
(***************************************************************************)
EXTENDS Integers, Sequences, FiniteSets, SequencesExt

CONSTANTS
    Pages,          \* URLs
    Seed,           \* seed_url
    Foreign,        \* pages on another host
    Sites,          \* [links, disallowed, maxPages]: links, robots.txt, and the budget
    MaxDepth,       \* max_depth
    MaxConcurrent,  \* max_concurrent
    MaxErrors       \* bound on fetches that fail

ASSUME CrawlerAssumption ==
    /\ Foreign \subseteq Pages
    /\ Seed \in Pages \ Foreign
    /\ Sites \subseteq [links : [Pages -> SUBSET Pages], disallowed : SUBSET Pages,
                       maxPages : Nat]
    /\ \A st \in Sites, p \in Pages : IsFiniteSet(st.links[p])
    /\ MaxDepth \in Nat /\ MaxErrors \in Nat
    /\ MaxConcurrent \in Nat \ {0}

VARIABLES
    site,     \* the crawled site, and the max_pages it is crawled with
    phase,    \* "robots", "crawling" or "done"
    rules,    \* _disallowed_paths, as the pages they match
    queue,    \* _queue: pages to crawl, with their depths
    task,     \* task[i]: the task of the current batch for what was entry i of the queue
    visited,  \* _visited
    errors,   \* the pages in result.errors
    crawled,  \* crawled[p]: the depth at which p was fetched and answered; -1 before
    fetches   \* fetches[p]: requests sent for p

crawlerVars == <<site, phase, rules, queue, task, visited, errors, crawled, fetches>>

Entries == [page : Pages, depth : Nat]

CrawlerInit ==
    /\ site \in Sites
    /\ phase = "robots"
    /\ rules = {}
    /\ queue = <<[page |-> Seed, depth |-> 0]>>
    /\ task = <<>>
    /\ visited = {}
    /\ errors = {}
    /\ crawled = [p \in Pages |-> -1]
    /\ fetches = [p \in Pages |-> 0]

-----------------------------------------------------------------------------

\* _fetch_robots: robots.txt is read, or cannot be, which counts as an error ...
ReadRobots ==
    /\ phase = "robots"
    /\ rules' \in {site.disallowed} \cup (IF MaxErrors > 0 THEN {{}} ELSE {})
    /\ phase' = "crawling"
    /\ UNCHANGED <<site, queue, task, visited, errors, crawled, fetches>>

Over == \A i \in DOMAIN task : task[i].at = "ended"

\* The entry may still be crawled.
Wanted(e) == e.page \notin visited /\ e.depth <= MaxDepth

\* Those of the first k entries of the queue that are.
WantedIn(k) == {i \in 1 .. k : Wanted(queue[i])}

NewTasks(positions) ==
    [i \in positions |-> [at |-> "new", page |-> queue[i].page, depth |-> queue[i].depth]]

BatchDropsRest ==
    /\ phase = "crawling"
    /\ Over
    /\ Cardinality(visited) < site.maxPages
    /\ \E k \in 1 .. Len(queue) :
          /\ WantedIn(k) # {}
          /\ Cardinality(WantedIn(k)) <= MaxConcurrent
          /\ k < Len(queue) => Cardinality(WantedIn(k)) = MaxConcurrent
          /\ \A j \in 0 .. k - 1 : Cardinality(WantedIn(j)) < MaxConcurrent
          /\ queue' = <<>>
          /\ task' = NewTasks(WantedIn(k))
    /\ UNCHANGED <<site, phase, rules, visited, errors, crawled, fetches>>

\* The next batch, once every task of the last is over and while the budget lasts: entries
\* are taken from the queue until MaxConcurrent of them are wanted or none is left.
Batch ==
    /\ phase = "crawling"
    /\ Over
    /\ Cardinality(visited) < site.maxPages
    /\ \E k \in 1 .. Len(queue) :
          /\ WantedIn(k) # {}
          /\ Cardinality(WantedIn(k)) <= MaxConcurrent
          /\ k < Len(queue) => Cardinality(WantedIn(k)) = MaxConcurrent
          /\ \A j \in 0 .. k - 1 : Cardinality(WantedIn(j)) < MaxConcurrent
          /\ queue' = SubSeq(queue, k + 1, Len(queue))
          /\ task' = NewTasks(WantedIn(k))
    /\ UNCHANGED <<site, phase, rules, visited, errors, crawled, fetches>>

FinishOnEmptyQueue ==
    /\ phase = "crawling"
    /\ Over
    /\ WantedIn(Len(queue)) = {}
    /\ phase' = "done"
    /\ UNCHANGED <<site, rules, queue, task, visited, errors, crawled, fetches>>

\* No batch: the budget is spent, or nothing in the queue is wanted and all of it is taken.
Finish ==
    /\ phase = "crawling"
    /\ Over
    /\ \/ Cardinality(visited) >= site.maxPages /\ UNCHANGED queue
       \/ /\ Cardinality(visited) < site.maxPages
          /\ WantedIn(Len(queue)) = {}
          /\ queue' = <<>>
    /\ phase' = "done"
    /\ UNCHANGED <<site, rules, task, visited, errors, crawled, fetches>>

-----------------------------------------------------------------------------
(* _crawl_page *)

Becomes(i, at) == task' = [task EXCEPT ![i].at = at]

\* Tasks start in the order of the batch, before any response arrives.
Starts(i) ==
    /\ i \in DOMAIN task
    /\ task[i].at = "new"
    /\ \A j \in DOMAIN task : j < i => task[j].at # "new"

\* A page of the batch that another task of it has visited, or that robots.txt disallows,
\* is not fetched ...
StartWithout(i) ==
    /\ Starts(i)
    /\ task[i].page \in visited \cup rules
    /\ visited' = visited \cup {task[i].page}
    /\ Becomes(i, "ended")
    /\ UNCHANGED <<site, phase, rules, queue, errors, crawled, fetches>>

StartUnmarked(i) ==
    /\ Starts(i)
    /\ task[i].page \notin visited \cup rules
    /\ fetches' = [fetches EXCEPT ![task[i].page] = @ + 1]
    /\ Becomes(i, "fetching")
    /\ UNCHANGED <<site, phase, rules, queue, visited, errors, crawled>>

\* ... any other is.
StartFetch(i) ==
    /\ Starts(i)
    /\ task[i].page \notin visited \cup rules
    /\ visited' = visited \cup {task[i].page}
    /\ fetches' = [fetches EXCEPT ![task[i].page] = @ + 1]
    /\ Becomes(i, "fetching")
    /\ UNCHANGED <<site, phase, rules, queue, errors, crawled>>

\* A response can arrive when every task of the batch has started.
Awaits(i) ==
    /\ i \in DOMAIN task
    /\ task[i].at = "fetching"
    /\ \A j \in DOMAIN task : task[j].at # "new"

FollowAnyHost(p) == site.links[p] \ visited

\* The links of a page that are followed: on its host and not visited.
Follow(p) == (site.links[p] \cap {q \in Pages : q \in Foreign <=> p \in Foreign}) \ visited

\* An HTML response: its links, a set and so in any order, are queued one level deeper,
\* whether or not they are queued already.
HtmlArrives(i) ==
    LET p == task[i].page
    IN  /\ Awaits(i)
        /\ \E links \in SetToSeqs(Follow(p)) :
              queue' = queue \o [k \in DOMAIN links |->
                                    [page |-> links[k], depth |-> task[i].depth + 1]]
        /\ crawled' = [crawled EXCEPT ![p] = task[i].depth]
        /\ Becomes(i, "ended")
        /\ UNCHANGED <<site, phase, rules, visited, errors, fetches>>

\* An error is recorded; the page stays visited and is not tried again.
ErrorArrives(i) ==
    /\ Awaits(i)
    /\ Cardinality(errors) < MaxErrors
    /\ errors' = errors \cup {task[i].page}
    /\ Becomes(i, "ended")
    /\ UNCHANGED <<site, phase, rules, queue, visited, crawled, fetches>>

CrawlPage(i) ==
    StartWithout(i) \/ StartFetch(i) \/ HtmlArrives(i) \/ ErrorArrives(i)

CrawlerNext ==
    \/ ReadRobots
    \/ Batch
    \/ Finish
    \/ \E i \in DOMAIN task : CrawlPage(i)

\* The event loop goes on, and a request ends, if only by its timeout.
CrawlerSpec == CrawlerInit /\ [][CrawlerNext]_crawlerVars /\ WF_crawlerVars(CrawlerNext)

-----------------------------------------------------------------------------
(* Properties *)

\* No page is requested twice, although the queue and one batch may hold it twice; and as
\* max_pages is looked at between batches only, it is exceeded, but by less than a batch.
FetchesBounded ==
    /\ \A p \in Pages : fetches[p] <= 1
    /\ Cardinality(visited) <= site.maxPages + MaxConcurrent - 1

\* What a page links to is not lost between batches: when the crawl is over with budget
\* left, the links of every page that answered at less than the full depth are visited.
LinksFollowed ==
    phase = "done" /\ Cardinality(visited) < site.maxPages =>
        \A p \in Pages : crawled[p] \in 0 .. MaxDepth - 1 =>
            site.links[p] \ Foreign \subseteq visited

\* The crawl ends, also on a site whose pages link in circles.
CrawlEnds == <>(phase = "done")
=============================================================================
