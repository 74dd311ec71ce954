---------------------------- MODULE CrawlerProofs ---------------------------
(***************************************************************************)
(* The crawler's safety for every site, budget, depth and batch size.      *)
(***************************************************************************)
EXTENDS Crawler, FiniteSetTheorems, TLAPS

Task == [at : {"new", "fetching", "ended"}, page : Pages, depth : Nat]

CrawlerTypes ==
    /\ site \in Sites
    /\ queue \in Seq(Entries)
    /\ task \in [DOMAIN task -> Task]
    /\ DOMAIN task \subseteq Int
    /\ IsFiniteSet(DOMAIN task)
    /\ visited \subseteq Pages
    /\ IsFiniteSet(visited)
    /\ crawled \in [Pages -> Int]
    /\ fetches \in [Pages -> 0 .. 1]

\* The tasks that have not started.
New == {i \in DOMAIN task : task[i].at = "new"}

\* A page is marked as visited no later than it is requested.
FetchedIsVisited == \A p \in Pages : fetches[p] = 1 => p \in visited

\* The budget: what is visited and what the batch may still visit.
BudgetInv == Cardinality(visited) + Cardinality(New) <= site.maxPages + MaxConcurrent - 1

CrawlerInv == CrawlerTypes /\ FetchedIsVisited /\ BudgetInv

-----------------------------------------------------------------------------
(* Types *)

LEMMA SiteFields ==
    ASSUME CrawlerTypes
    PROVE  /\ site.links \in [Pages -> SUBSET Pages]
           /\ site.maxPages \in Nat
           /\ \A p \in Pages : IsFiniteSet(site.links[p])
BY CrawlerAssumption DEF CrawlerTypes

LEMMA TaskFields ==
    ASSUME CrawlerTypes, NEW i \in DOMAIN task
    PROVE  task[i].at \in {"new", "fetching", "ended"} /\ task[i].page \in Pages /\ task[i].depth \in Nat
BY DEF CrawlerTypes, Task

\* A task that goes on keeps its page and its depth; the others keep everything.
LEMMA BecomesFacts ==
    ASSUME CrawlerTypes, NEW i \in DOMAIN task, NEW at \in {"fetching", "ended"}, Becomes(i, at)
    PROVE  /\ DOMAIN task' = DOMAIN task
           /\ task' \in [DOMAIN task' -> Task]
           /\ task'[i].at = at
           /\ \A j \in DOMAIN task : j # i => task'[j] = task[j]
           /\ New' = New \ {i}
<1>1. [task[i] EXCEPT !.at = at] \in Task /\ [task[i] EXCEPT !.at = at].at = at
  BY DEF CrawlerTypes, Task
<1>2. task' = [task EXCEPT ![i] = [task[i] EXCEPT !.at = at]]
  BY DEF Becomes
<1> DEFINE t == [task[i] EXCEPT !.at = at]
<1> HIDE DEF t
<1>3. t \in Task /\ t.at = at /\ task' = [task EXCEPT ![i] = t]
  BY <1>1, <1>2 DEF t
<1>4. /\ DOMAIN task' = DOMAIN task
      /\ task' \in [DOMAIN task' -> Task]
      /\ task'[i].at = at
      /\ \A j \in DOMAIN task : j # i => task'[j] = task[j]
  BY <1>3 DEF CrawlerTypes
<1> QED
  BY <1>4 DEF New

LEMMA SamePage ==
    ASSUME CrawlerTypes, NEW i \in DOMAIN task,
           Becomes(i, "ended") \/ Becomes(i, "fetching")
    PROVE  DOMAIN task' = DOMAIN task /\ task'[i].page = task[i].page
<1>1. ASSUME NEW at \in {"fetching", "ended"}
      PROVE  [task[i] EXCEPT !.at = at].page = task[i].page
  BY DEF CrawlerTypes, Task
<1> QED
  BY <1>1 DEF Becomes

LEMMA NewFinite ==
    ASSUME CrawlerTypes
    PROVE  IsFiniteSet(New) /\ Cardinality(New) \in Nat /\ Cardinality(visited) \in Nat
<1>1. New \subseteq DOMAIN task
  BY DEF New
<1> QED
  BY <1>1, FS_Subset, FS_CardinalityType DEF CrawlerTypes

LEMMA ConcatEntries ==
    ASSUME NEW s \in Seq(Entries), NEW t \in Seq(Entries)
    PROVE  /\ s \o t \in Seq(Entries)
           /\ \A j \in DOMAIN s : j \in DOMAIN (s \o t) /\ (s \o t)[j] = s[j]
           /\ \A j \in DOMAIN t : Len(s) + j \in DOMAIN (s \o t) /\ (s \o t)[Len(s) + j] = t[j]
           /\ \A j \in DOMAIN (s \o t) :
                 \/ j \in DOMAIN s /\ (s \o t)[j] = s[j]
                 \/ j - Len(s) \in DOMAIN t /\ (s \o t)[j] = t[j - Len(s)]
OBVIOUS

LEMMA CrawlerInitInv == CrawlerInit => CrawlerInv
<1> SUFFICES ASSUME CrawlerInit PROVE CrawlerInv
  OBVIOUS
<1>1. DOMAIN task = {} /\ New = {}
  BY DEF CrawlerInit, New
<1>2. queue \in Seq(Entries)
  BY CrawlerAssumption DEF CrawlerInit, Entries
<1>3. task \in [DOMAIN task -> Task]
  BY <1>1 DEF CrawlerInit
<1>4. CrawlerTypes
  BY <1>1, <1>2, <1>3, FS_EmptySet DEF CrawlerInit, CrawlerTypes
<1>5. BudgetInv
  BY <1>1, <1>4, SiteFields, FS_EmptySet, CrawlerAssumption DEF CrawlerInit, BudgetInv
<1> QED
  BY <1>4, <1>5 DEF CrawlerInv, CrawlerInit, FetchedIsVisited

\* The page of a task that starts is added to the visited ones.
LEMMA StartKeepsBudget ==
    ASSUME CrawlerTypes, BudgetInv, NEW i \in New, New' = New \ {i},
           visited' = visited \cup {task[i].page}, UNCHANGED site
    PROVE  IsFiniteSet(visited') /\ BudgetInv'
<1> DEFINE p == task[i].page
<1> HIDE DEF p
<1>1. /\ IsFiniteSet(visited')
      /\ Cardinality(visited') <= Cardinality(visited) + 1
      /\ Cardinality(visited') \in Nat
  <2>1. IsFiniteSet(visited) /\ Cardinality(visited) \in Nat /\ visited' = visited \cup {p}
    BY NewFinite DEF CrawlerTypes, p
  <2>2. /\ IsFiniteSet(visited \cup {p})
        /\ Cardinality(visited \cup {p})
             = IF p \in visited THEN Cardinality(visited) ELSE Cardinality(visited) + 1
    BY <2>1, FS_AddElement
  <2> QED
    BY <2>1, <2>2
<1>2. Cardinality(New') = Cardinality(New) - 1 /\ Cardinality(New) \in Nat
  <2>1. IsFiniteSet(New) /\ Cardinality(New) \in Nat
    BY NewFinite
  <2>2. Cardinality(New \ {i}) = Cardinality(New) - 1
    BY <2>1, FS_RemoveElement
  <2> QED
    BY <2>1, <2>2
<1>3. site.maxPages \in Nat /\ MaxConcurrent \in Nat
  BY SiteFields, CrawlerAssumption
<1> QED
  BY <1>1, <1>2, <1>3, NewFinite DEF BudgetInv

LEMMA BatchStep ==
    ASSUME CrawlerInv, Batch
    PROVE  CrawlerInv'
<1> USE DEF CrawlerInv
<1>1. PICK k \in 1 .. Len(queue) :
        /\ Cardinality(WantedIn(k)) <= MaxConcurrent
        /\ queue' = SubSeq(queue, k + 1, Len(queue))
        /\ task' = NewTasks(WantedIn(k))
  BY DEF Batch
<1>2. WantedIn(k) \subseteq 1 .. k /\ Len(queue) \in Nat /\ k \in Nat
  BY DEF WantedIn, CrawlerTypes
<1>3. IsFiniteSet(WantedIn(k)) /\ Cardinality(WantedIn(k)) \in Nat
  <2>1. IsFiniteSet(1 .. k)
    BY FS_Interval
  <2> QED
    BY <1>2, <2>1, FS_Subset, FS_CardinalityType
<1>4. \A i \in WantedIn(k) : queue[i] \in Entries
  BY <1>2 DEF CrawlerTypes
<1>5. DOMAIN task' = WantedIn(k) /\ task' \in [DOMAIN task' -> Task] /\ New' = WantedIn(k)
  BY <1>1, <1>4 DEF NewTasks, Entries, Task, New
<1>6. queue' \in Seq(Entries)
  BY <1>1, <1>2 DEF CrawlerTypes
<1>7. CrawlerTypes'
  BY <1>2, <1>3, <1>5, <1>6 DEF CrawlerTypes, Batch
<1>8. BudgetInv'
  <2>1. /\ Cardinality(visited) < site.maxPages /\ site.maxPages \in Nat
        /\ Cardinality(visited) \in Nat
    BY SiteFields, NewFinite DEF Batch
  <2>2. Cardinality(New') <= MaxConcurrent /\ MaxConcurrent \in Nat /\ Cardinality(New') \in Nat
    BY <1>1, <1>3, <1>5, CrawlerAssumption
  <2>3. UNCHANGED <<visited, site>>
    BY DEF Batch
  <2> QED
    BY <2>1, <2>2, <2>3 DEF BudgetInv
<1> QED
  BY <1>7, <1>8 DEF FetchedIsVisited, Batch

\* The queue after an HTML response is a queue.
LEMMA HtmlQueue ==
    ASSUME CrawlerTypes, NEW i \in DOMAIN task, NEW links \in SetToSeqs(Follow(task[i].page))
    PROVE  /\ links \in Seq(Follow(task[i].page))
           /\ \A q \in Follow(task[i].page) : \E k \in DOMAIN links : links[k] = q
           /\ [k \in DOMAIN links |-> [page |-> links[k], depth |-> task[i].depth + 1]]
                 \in Seq(Entries)
<1> DEFINE S == Follow(task[i].page)
           n == Cardinality(S)
<1>1. task[i].page \in Pages /\ task[i].depth \in Nat
  BY TaskFields
<1>2. S \subseteq site.links[task[i].page] /\ S \subseteq Pages
  BY <1>1, SiteFields DEF Follow
<1>3. IsFiniteSet(S) /\ n \in Nat
  BY <1>1, <1>2, SiteFields, FS_Subset, FS_CardinalityType
<1>4. links \in [1 .. n -> S] /\ \A j, k \in 1 .. n : j # k => links[j] # links[k]
  BY DEF SetToSeqs
<1>5. links \in Seq(S)
  BY <1>3, <1>4
<1>6. \A q \in S : \E k \in DOMAIN links : links[k] = q
  <2>1. links \in Injection(1 .. n, S)
    BY <1>4 DEF Injection, IsInjective
  <2>2. Cardinality(1 .. n) = n
    BY <1>3, FS_Interval
  <2>3. links \in Surjection(1 .. n, S)
    BY <1>3, <2>1, <2>2, FS_Injection
  <2> QED
    BY <1>4, <2>3 DEF Surjection
<1>7. \A k \in DOMAIN links : links[k] \in Pages
  BY <1>2, <1>4
<1>8. [k \in DOMAIN links |-> [page |-> links[k], depth |-> task[i].depth + 1]] \in Seq(Entries)
  <2> DEFINE d == task[i].depth + 1
  <2>1. d \in Nat
    BY <1>1
  <2> HIDE DEF d
  <2>2. \A k \in 1 .. n : [page |-> links[k], depth |-> d] \in Entries
    BY <1>4, <1>7, <2>1 DEF Entries
  <2>3. [k \in 1 .. n |-> [page |-> links[k], depth |-> d]] \in Seq(Entries)
    BY <1>3, <2>2
  <2> QED
    BY <1>4, <2>3 DEF d
<1> QED
  BY <1>5, <1>6, <1>8

\* The task of a page that starts, whether or not the page is fetched.
LEMMA StartStep ==
    ASSUME CrawlerInv, NEW i \in DOMAIN task, StartWithout(i) \/ StartFetch(i)
    PROVE  /\ CrawlerInv'
           /\ New' = New \ {i} /\ i \in New
           /\ visited' = visited \cup {task[i].page}
           /\ \A j \in DOMAIN task : j # i => task'[j] = task[j]
<1> USE DEF CrawlerInv
<1>1. i \in New /\ task[i].page \in Pages
  BY TaskFields DEF StartWithout, StartFetch, Starts, New
<1>2. visited' = visited \cup {task[i].page} /\ UNCHANGED site
  BY DEF StartWithout, StartFetch
<1>3. Becomes(i, "ended") \/ Becomes(i, "fetching")
  BY DEF StartWithout, StartFetch
<1>4. /\ DOMAIN task' = DOMAIN task
      /\ task' \in [DOMAIN task' -> Task]
      /\ New' = New \ {i}
      /\ \A j \in DOMAIN task : j # i => task'[j] = task[j]
  BY <1>3, BecomesFacts
<1>5. IsFiniteSet(visited') /\ BudgetInv'
  BY <1>1, <1>2, <1>4, StartKeepsBudget
<1>6. fetches' \in [Pages -> 0 .. 1] /\ FetchedIsVisited'
  <2>1. CASE StartWithout(i)
    BY <1>2, <2>1 DEF StartWithout, CrawlerTypes, FetchedIsVisited
  <2>2. CASE StartFetch(i)
    <3>1. fetches[task[i].page] = 0
      BY <1>1, <2>2 DEF StartFetch, CrawlerTypes, FetchedIsVisited
    <3> QED
      BY <1>1, <1>2, <2>2, <3>1 DEF StartFetch, CrawlerTypes, FetchedIsVisited
  <2> QED
    BY <2>1, <2>2
<1>7. CrawlerTypes'
  BY <1>1, <1>2, <1>4, <1>5, <1>6 DEF CrawlerTypes, StartWithout, StartFetch
<1> QED
  BY <1>1, <1>2, <1>4, <1>5, <1>6, <1>7

\* A response that arrives, or an error.
LEMMA AnswerStep ==
    ASSUME CrawlerInv, NEW i \in DOMAIN task, HtmlArrives(i) \/ ErrorArrives(i)
    PROVE  /\ CrawlerInv'
           /\ New' = New
           /\ \A j \in DOMAIN task : j # i => task'[j] = task[j]
<1> USE DEF CrawlerInv
<1>1. i \notin New /\ task[i].page \in Pages /\ task[i].depth \in Nat
  BY TaskFields DEF HtmlArrives, ErrorArrives, Awaits, New
<1>2. /\ DOMAIN task' = DOMAIN task
      /\ task' \in [DOMAIN task' -> Task]
      /\ New' = New \ {i}
      /\ \A j \in DOMAIN task : j # i => task'[j] = task[j]
  BY BecomesFacts DEF HtmlArrives, ErrorArrives
<1>3. New' = New
  BY <1>1, <1>2
<1>4. queue' \in Seq(Entries)
  <2>1. CASE HtmlArrives(i)
    <3>1. PICK links \in SetToSeqs(Follow(task[i].page)) :
            queue' = queue \o [k \in DOMAIN links |->
                                 [page |-> links[k], depth |-> task[i].depth + 1]]
      BY <2>1 DEF HtmlArrives
    <3> QED
      BY <3>1, HtmlQueue, ConcatEntries DEF CrawlerTypes
  <2>2. CASE ErrorArrives(i)
    BY <2>2 DEF ErrorArrives, CrawlerTypes
  <2> QED
    BY <2>1, <2>2
<1>5. /\ crawled' \in [Pages -> Int]
      /\ UNCHANGED <<site, visited, fetches>>
  BY <1>1 DEF HtmlArrives, ErrorArrives, CrawlerTypes
<1>6. CrawlerTypes'
  BY <1>2, <1>4, <1>5 DEF CrawlerTypes
<1> QED
  BY <1>2, <1>3, <1>5, <1>6 DEF FetchedIsVisited, BudgetInv

\* Between batches.
LEMMA QuietStep ==
    ASSUME CrawlerInv, ReadRobots \/ Finish \/ UNCHANGED crawlerVars
    PROVE  CrawlerInv'
<1>1. queue' \in Seq(Entries)
  <2>1. queue' = queue \/ queue' = <<>>
    BY DEF ReadRobots, Finish, crawlerVars
  <2>2. queue \in Seq(Entries) /\ <<>> \in Seq(Entries)
    BY DEF CrawlerInv, CrawlerTypes
  <2> QED
    BY <2>1, <2>2
<1>2. UNCHANGED <<site, task, visited, crawled, fetches>>
  BY DEF ReadRobots, Finish, crawlerVars
<1> QED
  BY <1>1, <1>2 DEF CrawlerInv, CrawlerTypes, FetchedIsVisited, BudgetInv, New

LEMMA CrawlerStep == CrawlerInv /\ [CrawlerNext]_crawlerVars => CrawlerInv'
BY StartStep, AnswerStep, QuietStep, BatchStep DEF CrawlerNext, CrawlPage

\* The strengthened invariant holds of every crawl.
THEOREM CrawlerInvariant == CrawlerSpec => []CrawlerInv
BY CrawlerInitInv, CrawlerStep, PTL DEF CrawlerSpec

\* No page is requested twice, and the budget is exceeded by less than a batch, for every
\* site, budget and batch size (crawl and _crawl_page).
THEOREM FetchesAreBounded == CrawlerSpec => []FetchesBounded
<1>1. ASSUME CrawlerInv
      PROVE  FetchesBounded
  <2>1. site.maxPages \in Nat /\ Cardinality(New) \in Nat /\ Cardinality(visited) \in Nat
    BY <1>1, SiteFields, NewFinite DEF CrawlerInv
  <2>2. Cardinality(visited) <= site.maxPages + MaxConcurrent - 1
    BY <1>1, <2>1, CrawlerAssumption DEF CrawlerInv, BudgetInv
  <2> QED
    BY <1>1, <2>2 DEF CrawlerInv, CrawlerTypes, FetchesBounded
<1> QED
  BY <1>1, CrawlerInvariant, PTL

-----------------------------------------------------------------------------
(* Links *)

\* A page will be visited, or the budget ends first: it waits in the queue or in the batch.
Reached(q) ==
    \/ q \in visited
    \/ \E j \in DOMAIN queue : queue[j].page = q /\ queue[j].depth <= MaxDepth
    \/ \E i \in New : task[i].page = q

OnHost ==
    /\ \A j \in DOMAIN queue : queue[j].page \notin Foreign
    /\ \A i \in DOMAIN task : task[i].page \notin Foreign
    /\ \A p \in Pages : crawled[p] >= 0 => p \notin Foreign

LinksReached ==
    \A p \in Pages : crawled[p] \in 0 .. MaxDepth - 1 =>
        \A q \in site.links[p] \ Foreign : Reached(q)

\* The crawl ends between batches, and with budget left only when the queue is empty.
DoneInv ==
    phase = "done" => /\ Over
                      /\ Cardinality(visited) < site.maxPages => queue = <<>>

LinksInv == OnHost /\ LinksReached /\ DoneInv

\* What is reached stays reached while a batch runs: the queue only grows, and a task that
\* leaves New has visited its page.
LEMMA ReachedStays ==
    ASSUME visited \subseteq visited',
           \A j \in DOMAIN queue : j \in DOMAIN queue' /\ queue'[j] = queue[j],
           \A i \in New : (i \in New' /\ task'[i] = task[i]) \/ task[i].page \in visited'
    PROVE  \A q : Reached(q) => Reached(q)'
BY DEF Reached

LEMMA LinksStart ==
    ASSUME CrawlerInv, LinksInv, NEW i \in DOMAIN task, StartWithout(i) \/ StartFetch(i)
    PROVE  LinksInv'
<1>1. /\ New' = New \ {i} /\ i \in New
      /\ visited' = visited \cup {task[i].page}
      /\ \A j \in DOMAIN task : j # i => task'[j] = task[j]
  BY StartStep
<1>2. UNCHANGED <<queue, crawled, site, phase>> /\ phase # "done"
  <2>1. UNCHANGED <<queue, crawled, site, phase>>
    BY DEF StartWithout, StartFetch
  <2>2. ~ Over
    BY <1>1 DEF Over, New
  <2> QED
    BY <2>1, <2>2 DEF LinksInv, DoneInv
<1>3. \A q : Reached(q) => Reached(q)'
  <2>1. visited \subseteq visited'
    BY <1>1
  <2>2. \A j \in New : (j \in New' /\ task'[j] = task[j]) \/ task[j].page \in visited'
    BY <1>1 DEF New
  <2> QED
    BY <1>2, <2>1, <2>2, ReachedStays
<1>4. LinksReached'
  BY <1>2, <1>3 DEF LinksInv, LinksReached
<1>5. DOMAIN task' = DOMAIN task /\ task'[i].page = task[i].page
  BY SamePage DEF StartWithout, StartFetch, CrawlerInv
<1>6. OnHost'
  BY <1>1, <1>2, <1>5 DEF LinksInv, OnHost
<1> QED
  BY <1>2, <1>4, <1>6 DEF LinksInv, DoneInv

LEMMA LinksAnswer ==
    ASSUME CrawlerInv, LinksInv, NEW i \in DOMAIN task, HtmlArrives(i) \/ ErrorArrives(i)
    PROVE  LinksInv'
<1>1. /\ New' = New
      /\ \A j \in DOMAIN task : j # i => task'[j] = task[j]
  BY AnswerStep
<1>2. /\ UNCHANGED <<visited, site, phase>>
      /\ phase # "done"
      /\ i \notin New
      /\ task[i].page \in Pages \ Foreign /\ task[i].depth \in Nat
  <2>1. UNCHANGED <<visited, site, phase>>
    BY DEF HtmlArrives, ErrorArrives
  <2>2. task[i].at = "fetching"
    BY DEF HtmlArrives, ErrorArrives, Awaits
  <2>3. phase # "done"
    BY <2>2 DEF LinksInv, DoneInv, Over
  <2> QED
    BY <2>1, <2>2, <2>3, TaskFields DEF New, CrawlerInv, LinksInv, OnHost
<1>3. DOMAIN task' = DOMAIN task /\ task'[i].page = task[i].page
  BY SamePage DEF HtmlArrives, ErrorArrives, CrawlerInv
<1>4. \A j \in New : j \in New' /\ task'[j] = task[j]
  BY <1>1, <1>2 DEF New
<1>5. CASE ErrorArrives(i)
  <2>1. UNCHANGED <<queue, crawled>>
    BY <1>5 DEF ErrorArrives
  <2>2. \A q : Reached(q) => Reached(q)'
    BY <1>2, <1>4, <2>1, ReachedStays
  <2>3. LinksReached'
    BY <1>2, <2>1, <2>2 DEF LinksInv, LinksReached
  <2> QED
    BY <1>1, <1>2, <1>3, <2>1, <2>3 DEF LinksInv, OnHost, DoneInv
<1>6. CASE HtmlArrives(i)
  <2> DEFINE p == task[i].page
             d == task[i].depth
  <2>1. PICK links \in SetToSeqs(Follow(p)) :
          queue' = queue \o [k \in DOMAIN links |-> [page |-> links[k], depth |-> d + 1]]
    BY <1>6 DEF HtmlArrives
  <2> DEFINE more == [k \in DOMAIN links |-> [page |-> links[k], depth |-> d + 1]]
  <2>2. /\ queue \in Seq(Entries) /\ more \in Seq(Entries) /\ queue' = queue \o more
        /\ DOMAIN more = DOMAIN links
        /\ \A k \in DOMAIN more : more[k].page = links[k] /\ more[k].depth = d + 1
        /\ \A k \in DOMAIN links : links[k] \in Follow(p)
        /\ \A q \in Follow(p) : \E k \in DOMAIN links : links[k] = q
    <3>1. CrawlerTypes
      BY DEF CrawlerInv
    <3>2. /\ links \in Seq(Follow(p)) /\ more \in Seq(Entries)
          /\ \A q \in Follow(p) : \E k \in DOMAIN links : links[k] = q
      BY <3>1, HtmlQueue
    <3>3. DOMAIN more = DOMAIN links /\ \A k \in DOMAIN links : links[k] \in Follow(p)
      BY <3>2
    <3>4. \A k \in DOMAIN more : more[k].page = links[k] /\ more[k].depth = d + 1
      OBVIOUS
    <3> HIDE DEF more
    <3> QED
      BY <2>1, <3>1, <3>2, <3>3, <3>4 DEF CrawlerTypes, more
  <2>3. crawled' = [crawled EXCEPT ![p] = d]
    BY <1>6 DEF HtmlArrives
  <2> HIDE DEF more
  <2>4. /\ \A j \in DOMAIN queue : j \in DOMAIN queue' /\ queue'[j] = queue[j]
        /\ \A k \in DOMAIN more : Len(queue) + k \in DOMAIN queue' /\ queue'[Len(queue) + k] = more[k]
        /\ \A j \in DOMAIN queue' :
              \/ j \in DOMAIN queue /\ queue'[j] = queue[j]
              \/ j - Len(queue) \in DOMAIN more /\ queue'[j] = more[j - Len(queue)]
    BY <2>2, ConcatEntries
  <2>5. \A q : Reached(q) => Reached(q)'
    BY <1>2, <1>4, <2>4, ReachedStays
  <2>6. ASSUME NEW q \in site.links[p] \ Foreign, d < MaxDepth
        PROVE  Reached(q)'
    <3>1. CASE q \in visited
      BY <1>2, <3>1 DEF Reached
    <3>2. CASE q \notin visited
      <4>1. q \in Follow(p)
        BY <1>2, <3>2, <2>6, SiteFields DEF Follow, CrawlerInv
      <4>2. PICK k \in DOMAIN more : more[k].page = q /\ more[k].depth = d + 1
        BY <4>1, <2>2
      <4>3. /\ Len(queue) + k \in DOMAIN queue'
            /\ queue'[Len(queue) + k].page = q
            /\ queue'[Len(queue) + k].depth = d + 1
        BY <4>2, <2>4
      <4>4. d + 1 <= MaxDepth
        BY <1>2, <2>6, CrawlerAssumption
      <4> QED
        BY <4>3, <4>4 DEF Reached
    <3> QED
      BY <3>1, <3>2
  <2>7. LinksReached'
    <3> SUFFICES ASSUME NEW x \in Pages, crawled'[x] \in 0 .. MaxDepth - 1,
                        NEW q \in site.links[x] \ Foreign
                 PROVE  Reached(q)'
      BY <1>2 DEF LinksReached
    <3>1. CASE x = p
      <4>1. d < MaxDepth
        BY <1>2, <2>3, <3>1, CrawlerAssumption DEF CrawlerInv, CrawlerTypes
      <4> QED
        BY <2>6, <3>1, <4>1
    <3>2. CASE x # p
      BY <2>3, <2>5, <3>2 DEF LinksInv, LinksReached, CrawlerInv, CrawlerTypes
    <3> QED
      BY <3>1, <3>2
  <2>8. \A q \in Follow(p) : q \notin Foreign
    BY <1>2 DEF Follow
  <2>9. \A j \in DOMAIN queue' : queue'[j].page \notin Foreign
    BY <2>2, <2>4, <2>8 DEF LinksInv, OnHost
  <2>10. \A x \in Pages : crawled'[x] >= 0 => x \notin Foreign
    BY <1>2, <2>3 DEF LinksInv, OnHost, CrawlerInv, CrawlerTypes
  <2>11. OnHost'
    BY <1>1, <1>3, <2>9, <2>10 DEF LinksInv, OnHost
  <2> QED
    BY <1>2, <2>7, <2>11 DEF LinksInv, DoneInv
<1> QED
  BY <1>5, <1>6

LEMMA LinksBatch ==
    ASSUME CrawlerInv, LinksInv, Batch
    PROVE  LinksInv'
<1>1. PICK k \in 1 .. Len(queue) :
        /\ queue' = SubSeq(queue, k + 1, Len(queue))
        /\ task' = NewTasks(WantedIn(k))
  BY DEF Batch
<1>2. /\ Len(queue) \in Nat /\ queue \in Seq(Entries)
      /\ UNCHANGED <<site, phase, visited, crawled>> /\ phase # "done" /\ Over
  BY DEF Batch, CrawlerInv, CrawlerTypes
<1>3. /\ DOMAIN queue' = 1 .. Len(queue) - k
      /\ \A j \in 1 .. Len(queue) - k : queue'[j] = queue[k + j]
  BY <1>1, <1>2
<1>4. /\ DOMAIN task' = WantedIn(k) /\ New' = WantedIn(k)
      /\ \A i \in WantedIn(k) : task'[i].page = queue[i].page /\ i \in DOMAIN queue
  BY <1>1, <1>2 DEF NewTasks, New, WantedIn
<1>5. ASSUME NEW q, Reached(q)
      PROVE  Reached(q)'
  <2>1. CASE q \in visited
    BY <1>2, <2>1 DEF Reached
  <2>2. New = {}
    BY <1>2 DEF Over, New
  <2>3. ASSUME NEW j \in DOMAIN queue, queue[j].page = q, queue[j].depth <= MaxDepth,
               q \notin visited
        PROVE  Reached(q)'
    <3>1. j \in 1 .. Len(queue)
      BY <1>2, <2>3
    <3>2. CASE j <= k
      <4>1. j \in WantedIn(k)
        BY <2>3, <3>1, <3>2 DEF WantedIn, Wanted
      <4> QED
        BY <1>4, <2>3, <4>1 DEF Reached
    <3>3. CASE j > k
      <4>1. j - k \in 1 .. Len(queue) - k /\ k + (j - k) = j
        BY <1>2, <3>1, <3>3
      <4>2. j - k \in DOMAIN queue' /\ queue'[j - k] = queue[j]
        BY <1>3, <4>1
      <4> QED
        BY <2>3, <4>2 DEF Reached
    <3> QED
      BY <3>1, <3>2, <3>3
  <2> QED
    BY <1>5, <2>1, <2>2, <2>3 DEF Reached
<1>6. LinksReached'
  BY <1>2, <1>5 DEF LinksInv, LinksReached
<1>7. \A j \in DOMAIN queue' : queue'[j].page \notin Foreign
  <2> SUFFICES ASSUME NEW j \in 1 .. Len(queue) - k
               PROVE  queue'[j].page \notin Foreign
    BY <1>3
  <2>1. k + j \in DOMAIN queue /\ queue'[j] = queue[k + j]
    BY <1>2, <1>3
  <2> QED
    BY <2>1 DEF LinksInv, OnHost
<1>8. OnHost'
  BY <1>2, <1>4, <1>7 DEF LinksInv, OnHost
<1> QED
  BY <1>2, <1>6, <1>8 DEF LinksInv, DoneInv

LEMMA LinksFinish ==
    ASSUME CrawlerInv, LinksInv, Finish
    PROVE  LinksInv'
<1>1. UNCHANGED <<site, task, visited, crawled>> /\ Over
  BY DEF Finish
<1>2. CASE Cardinality(visited) >= site.maxPages /\ UNCHANGED queue
  <2>1. ~ (Cardinality(visited) < site.maxPages)
    BY <1>2, SiteFields, NewFinite DEF CrawlerInv
  <2> QED
    BY <1>1, <1>2, <2>1 DEF LinksInv, OnHost, LinksReached, Reached, DoneInv, Over, New
<1>3. CASE WantedIn(Len(queue)) = {} /\ queue' = <<>>
  <2>1. \A j \in DOMAIN queue : queue[j].depth <= MaxDepth => queue[j].page \in visited
    BY <1>3 DEF WantedIn, Wanted, CrawlerInv, CrawlerTypes
  <2>2. New = {}
    BY <1>1 DEF Over, New
  <2>3. \A q : Reached(q) => q \in visited
    BY <2>1, <2>2 DEF Reached
  <2> QED
    BY <1>1, <1>3, <2>3 DEF LinksInv, OnHost, LinksReached, Reached, DoneInv, Over
<1> QED
  BY <1>2, <1>3 DEF Finish

LEMMA LinksStep == CrawlerInv /\ LinksInv /\ [CrawlerNext]_crawlerVars => LinksInv'
<1>1. LinksInv /\ ReadRobots => LinksInv'
  BY DEF ReadRobots, LinksInv, OnHost, LinksReached, Reached, DoneInv, Over, New
<1>2. LinksInv /\ UNCHANGED crawlerVars => LinksInv'
  BY DEF crawlerVars, LinksInv, OnHost, LinksReached, Reached, DoneInv, Over, New
<1> QED
  BY <1>1, <1>2, LinksStart, LinksAnswer, LinksBatch, LinksFinish DEF CrawlerNext, CrawlPage

LEMMA LinksInitially == CrawlerInit => LinksInv
BY CrawlerAssumption DEF CrawlerInit, LinksInv, OnHost, LinksReached, DoneInv

\* When the crawl is over with budget left, no link of a page that answered at less than
\* the full depth was lost between the batches, however they mixed depths (crawl).
THEOREM LinksAreFollowed == CrawlerSpec => []LinksFollowed
<1>1. ASSUME LinksInv
      PROVE  LinksFollowed
  <2>1. ASSUME phase = "done", Cardinality(visited) < site.maxPages, NEW q, Reached(q)
        PROVE  q \in visited
    <3>1. queue = <<>> /\ New = {}
      BY <1>1, <2>1 DEF LinksInv, DoneInv, Over, New
    <3> QED
      BY <2>1, <3>1 DEF Reached
  <2> QED
    BY <1>1, <2>1 DEF LinksFollowed, LinksInv, LinksReached
<1> QED
  BY <1>1, CrawlerInvariant, LinksInitially, LinksStep, PTL DEF CrawlerSpec
=============================================================================
