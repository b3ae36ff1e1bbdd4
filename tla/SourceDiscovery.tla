--------------------------- MODULE SourceDiscovery ---------------------------
(***************************************************************************)
(* How news reach the inbox: the tick of the discovery worker, and the     *)
(* operators who ask for a source now, read a feed, store what is new,     *)
(* score it, put it in the cluster of its story and promote it.  A second  *)
(* interval of the same worker, and operators, search the web and do the   *)
(* same with one page after another.  A circuit breaker, kept in the       *)
(* memory of each process, skips a source that keeps failing.              *)
(*                                                                         *)
(* A step is one database statement or one read that decides; what was     *)
(* read before is kept in the record of the call.  The intelligence        *)
(* pipeline, the aggregates of a cluster, the run log and the health       *)
(* figures other than the breaker are left out.                            *)
(***************************************************************************)
EXTENDS Naturals, FiniteSets

CONSTANTS
  Sources,
  Conditional,       \* sources that answer 304 when nothing changed
  Entries,           \* (source, externalId) pairs
  SourceOf, StoryOf, \* source and story of an entry
  Early,             \* entries that are in the feeds from the start
  PageOf, TextOf,    \* its canonical URL; the text its publisher writes
  ScoreOf,           \* whether scoreSourceItem gives it 0.4 or more: "low", "high"
  Clusters,          \* story_clusters rows
  Searchable,        \* entries whose pages a search of the web may find
  Worker,            \* the tick of the discovery worker
  Calls,             \* POST /v2/sources/:id/fetch: one call each
  Requested,         \* bound: the sources these calls name
  Searcher,          \* the web-discovery interval of the discovery worker
  Searches,          \* POST /v2/discovery/run: one run each
  SearchAgain,       \* bound: whether the interval searches more than once
  LastRevision,      \* bound: the last revision of each entry
  ItemVerdicts,      \* statuses operators give to items
  ClusterVerdicts,   \* and to clusters
  FailureThreshold,  \* failures in a row that open a breaker
  Failures,          \* what may fail: see AllFailures
  MaxEvents,         \* bound: failures and requests of operators, together
  None

\* The publisher; a database statement; the worker's process; the API's.
AllFailures == {"feed", "database", "worker", "api"}

ItemStatus == {"none", "discovered", "parsed", "candidate", "selected", "rejected",
               "processed"}

ClusterStatus == {"none", "open", "selected", "covered", "rejected", "archived",
                  "developing", "updated"}

ASSUME DiscoveryConstants ==
  /\ SourceOf \in [Entries -> Sources]
  /\ DOMAIN StoryOf = Entries /\ DOMAIN PageOf = Entries /\ DOMAIN TextOf = Entries
  /\ ScoreOf \in [Entries -> {"low", "high"}]
  /\ Conditional \subseteq Sources /\ Early \cup Searchable \subseteq Entries
  /\ Requested \subseteq Sources
  /\ Worker \notin Calls \cup {Searcher} \cup Searches
  /\ Searcher \notin Calls \cup Searches /\ Calls \cap Searches = {}
  /\ LastRevision \in [Entries -> Nat] /\ \A e \in Early : LastRevision[e] > 0
  /\ ItemVerdicts \subseteq ItemStatus \ {"none"}
  /\ ClusterVerdicts \subseteq ClusterStatus \ {"none"}
  /\ FailureThreshold \in Nat \ {0} /\ SearchAgain \in BOOLEAN
  /\ Failures \subseteq AllFailures /\ MaxEvents \in Nat
  /\ None \notin Entries \cup Clusters \cup Sources

VARIABLES
  feed,       \* revision each entry has at its publisher, 0 before the first
  etag,       \* content_sources.lastEtag: the version of the feed last read
  breaker,    \* CircuitBreaker entries, per process and source
  item,       \* source_items rows, by the entry they were made from
  cluster,    \* story_clusters rows
  fetch,      \* what each fetch of a source and each search is doing
  raced,      \* history: sources that two calls were reading at once
  requests,   \* fetches and statuses operators asked for
  failures

vars == <<feed, etag, breaker, item, cluster, fetch, raced, requests, failures>>

Searchers == {Searcher} \cup Searches

Callers == {Worker} \cup Calls \cup Searchers

Processes == {"worker", "api"}

ProcessOf(f) == IF f \in {Worker, Searcher} THEN "worker" ELSE "api"

-----------------------------------------------------------------------------
(* Rows *)

\* buildItemContentHash: the text and its revision.
Hash(e, revision) == <<TextOf[e], revision>>

Hashes == UNION {{Hash(e, r) : r \in 0..LastRevision[e]} : e \in Entries}

ItemRows == [status : ItemStatus, score : {"none", "low", "high"},
             cluster : Clusters \cup {None}, hash : Hashes, at : Nat]

NoItem(e) == [status |-> "none", score |-> "none", cluster |-> None,
              hash |-> Hash(e, 0), at |-> 0]

Stored == {e \in Entries : item[e].status # "none"}

NoCluster == [status |-> "none", story |-> None]

\* Statuses whose clusters a new item may join.
Joinable == {"open", "selected", "developing", "updated"}

FreeClusters == {c \in Clusters : cluster[c].status = "none"}

\* What a feed serves: the revision of each of its entries.
Version(s) == [e \in Entries |-> IF SourceOf[e] = s THEN feed[e] ELSE 0]

IsVersion(v) == /\ v \in [Entries -> Nat]
                /\ \A e \in Entries : v[e] <= LastRevision[e]

NothingRead == [e \in Entries |-> 0]

-----------------------------------------------------------------------------
(* Calls *)

Steps == {"idle", "next", "discover", "dedup", "create", "reread", "update", "bump",
          "pick", "score", "assign", "cluster", "link", "promote", "record", "failed",
          "done"}

\* left: sources of a tick; found: pages of a search.
Idle == [pc |-> "idle", left |-> {}, found |-> {}, src |-> None, version |-> NothingRead,
         todo |-> {}, entry |-> None, row |-> None, join |-> None, queue |-> {},
         known |-> [e \in Entries |-> None]]

Goto(f, pc) == fetch' = [fetch EXCEPT ![f].pc = pc]

\* A run is over: the interval rests, the request has been served.
Over(f) == IF f = Worker \/ (f = Searcher /\ SearchAgain) THEN Idle
           ELSE [Idle EXCEPT !.pc = "done"]

\* A source or a page is dealt with: a tick and a search go on.
Returned(f) == IF f \in {Worker} \cup Searchers
                 THEN [Idle EXCEPT !.pc = "next", !.left = fetch[f].left,
                                   !.found = fetch[f].found]
                 ELSE Over(f)

Return(f) == fetch' = [fetch EXCEPT ![f] = Returned(f)]

Fails(kind) == /\ kind \in Failures /\ requests + failures < MaxEvents
               /\ failures' = failures + 1

Asks == requests + failures < MaxEvents /\ requests' = requests + 1

TypeOK ==
  /\ IsVersion(feed)
  /\ \A s \in Sources : IsVersion(etag[s])
  /\ breaker \in [Processes -> [Sources -> [state : {"closed", "open", "half_open"},
                                            failures : 0..FailureThreshold]]]
  /\ \A e \in Entries : item[e] \in ItemRows
  /\ \A c \in Clusters : cluster[c].status \in ClusterStatus
  /\ \A f \in Callers : fetch[f].pc \in Steps /\ fetch[f].queue \subseteq Entries
  /\ raced \subseteq Sources
  /\ requests \in 0..MaxEvents /\ failures \in 0..MaxEvents

Closed == [state |-> "closed", failures |-> 0]

Init ==
  /\ feed = [e \in Entries |-> IF e \in Early THEN 1 ELSE 0]
  /\ etag = [s \in Sources |-> NothingRead]
  /\ breaker = [p \in Processes |-> [s \in Sources |-> Closed]]
  /\ item = [e \in Entries |-> NoItem(e)]
  /\ cluster = [c \in Clusters |-> NoCluster]
  /\ fetch = [f \in Callers |-> Idle]
  /\ raced = {}
  /\ requests = 0
  /\ failures = 0

RowsUnchanged == UNCHANGED <<feed, etag, item, cluster>>

-----------------------------------------------------------------------------
(* The breaker *)

CanAttempt(p, s) == breaker[p][s].state # "open"

\* recordFailure.  Past the threshold the count no longer matters: capped.
Recorded(b) ==
  LET n == IF b.failures = FailureThreshold THEN b.failures ELSE b.failures + 1 IN
  [state |-> IF \/ b.state = "half_open"
                \/ b.state = "closed" /\ b.failures + 1 >= FailureThreshold
               THEN "open" ELSE b.state,
   failures |-> n]

\* The next look at an open breaker finds the cooldown over.
CooldownEnds(p, s) ==
  /\ breaker[p][s].state = "open"
  /\ breaker' = [breaker EXCEPT ![p][s].state = "half_open"]
  /\ UNCHANGED <<feed, etag, item, cluster, fetch, raced, requests, failures>>

-----------------------------------------------------------------------------
(* Ticks and requests *)

\* runDiscoveryTick asks for the sources that are due, open breakers left out.
TickStarts ==
  /\ fetch[Worker].pc = "idle"
  /\ fetch' = [fetch EXCEPT ![Worker].pc = "next",
                            ![Worker].left = {s \in Sources : CanAttempt("worker", s)}]
  /\ UNCHANGED <<breaker, raced, requests, failures>> /\ RowsUnchanged

Reading(s) == {f \in Callers : fetch[f].src = s}

Raced(s) == IF Reading(s) = {} THEN raced ELSE raced \cup {s}

\* fetchSourceNow reads the source and asks the breaker.
Starts(f, s, call) ==
  /\ fetch' = [fetch EXCEPT ![f] = [call EXCEPT !.pc = "discover", !.src = s,
                                                !.version = etag[s]]]
  /\ raced' = Raced(s)
  /\ UNCHANGED <<breaker, failures>> /\ RowsUnchanged

NextSource ==
  /\ fetch[Worker].pc = "next"
  /\ \E s \in fetch[Worker].left :
       LET call == [fetch[Worker] EXCEPT !.left = @ \ {s}] IN
       \/ CanAttempt("worker", s) /\ Starts(Worker, s, call) /\ UNCHANGED requests
       \/ /\ ~CanAttempt("worker", s)
          /\ fetch' = [fetch EXCEPT ![Worker] = call]
          /\ UNCHANGED <<breaker, raced, requests, failures>> /\ RowsUnchanged

OperatorFetches(f, s) ==
  /\ f \in Calls /\ fetch[f].pc = "idle"
  /\ CanAttempt("api", s)
  /\ Asks /\ Starts(f, s, fetch[f])

\* Faulty variant: the backfill looks at what was parsed.
UnscoredParsed == {e \in Stored : item[e].status = "parsed" /\ item[e].score = "none"}

Unscored == {e \in Stored : item[e].status = "discovered" /\ item[e].score = "none"}

\* scoreAndClusterItems: what no call has scored, with the clusters it has now.
Backfill ==
  /\ fetch[Worker].pc = "next" /\ fetch[Worker].left = {}
  /\ fetch' = [fetch EXCEPT ![Worker] =
       [Idle EXCEPT !.pc = IF Unscored = {} THEN "idle" ELSE "pick",
                    !.queue = Unscored,
                    !.known = [e \in Entries |->
                                 IF e \in Unscored THEN item[e].cluster ELSE None]]]
  /\ UNCHANGED <<breaker, raced, requests, failures>> /\ RowsUnchanged

-----------------------------------------------------------------------------
(* Reading a feed *)

Unchanged(f) == /\ fetch[f].src \in Conditional
                /\ fetch[f].version = Version(fetch[f].src)

\* Faulty variant: the version is remembered as soon as it is read.
DiscoverAndStamp(f) ==
  /\ fetch[f].pc = "discover"
  /\ \/ Fails("feed") /\ Goto(f, "failed") /\ UNCHANGED etag
     \/ Unchanged(f) /\ Goto(f, "record") /\ UNCHANGED <<etag, failures>>
     \/ /\ ~Unchanged(f)
        /\ fetch' = [fetch EXCEPT
             ![f].pc = "dedup", ![f].version = Version(fetch[f].src),
             ![f].todo = {e \in Entries : SourceOf[e] = fetch[f].src /\ feed[e] > 0}]
        /\ etag' = [etag EXCEPT ![fetch[f].src] = Version(fetch[f].src)]
        /\ UNCHANGED failures
  /\ UNCHANGED <<breaker, raced, requests, feed, item, cluster>>

\* The publisher answers with an error, 304, or the feed.
Discover(f) ==
  /\ fetch[f].pc = "discover"
  /\ \/ Fails("feed") /\ Goto(f, "failed")
     \/ Unchanged(f) /\ Goto(f, "record") /\ UNCHANGED failures
     \/ /\ ~Unchanged(f)
        /\ fetch' = [fetch EXCEPT
             ![f].pc = "dedup", ![f].version = Version(fetch[f].src),
             ![f].todo = {e \in Entries : SourceOf[e] = fetch[f].src /\ feed[e] > 0}]
        /\ UNCHANGED failures
  /\ UNCHANGED <<breaker, raced, requests>> /\ RowsUnchanged

\* The row evaluateDedup takes for the same page: itself, then its URL.
SamePage(e) == IF e \in Stored THEN {e}
               ELSE {d \in Stored : PageOf[d] = PageOf[e]}

SameStory(e) == {d \in Stored : StoryOf[d] = StoryOf[e]}

Newest(rows) == CHOOSE d \in rows : \A x \in rows : item[x].at <= item[d].at

\* Where an item whose headline is known already is filed from the start.
PreLinked(e) == IF SameStory(e) = {} THEN None ELSE item[Newest(SameStory(e))].cluster

\* evaluateDedup of the next entry of the feed.
Dedup(f) ==
  /\ fetch[f].pc = "dedup"
  /\ \E e \in fetch[f].todo :
       LET hash == Hash(e, fetch[f].version[e])
           call == [fetch[f] EXCEPT !.todo = @ \ {e}, !.entry = e] IN
       \/ \E d \in SamePage(e) :
            fetch' = [fetch EXCEPT ![f] =
                        IF item[d].hash = hash THEN [call EXCEPT !.entry = None]
                        ELSE [call EXCEPT !.pc = "reread", !.row = d]]
       \/ /\ SamePage(e) = {}
          /\ \E d \in Stored : item[d].hash = hash
          /\ fetch' = [fetch EXCEPT ![f] = [call EXCEPT !.entry = None]]
       \/ /\ SamePage(e) = {}
          /\ \A d \in Stored : item[d].hash # hash
          /\ fetch' = [fetch EXCEPT ![f] =
                        [call EXCEPT !.pc = "create", !.join = PreLinked(e)]]
  /\ UNCHANGED <<breaker, raced, requests, failures>> /\ RowsUnchanged

\* The entry is dealt with; its row is scored later.
NextEntry(f, rows) ==
  fetch' = [fetch EXCEPT ![f].pc = "dedup", ![f].entry = None, ![f].row = None,
                         ![f].join = None, ![f].queue = @ \cup rows]

\* The unique key (source, externalId) makes the loser of a race a duplicate.
CreateItem(f) ==
  /\ fetch[f].pc = "create"
  /\ LET e == fetch[f].entry IN
     IF e \in Stored
       THEN NextEntry(f, {}) /\ UNCHANGED item
       ELSE /\ item' = [item EXCEPT ![e] =
                 [status |-> "discovered", score |-> "none", cluster |-> fetch[f].join,
                  hash |-> Hash(e, fetch[f].version[e]), at |-> Cardinality(Stored) + 1]]
            /\ NextEntry(f, {e})
  /\ UNCHANGED <<feed, etag, breaker, cluster, raced, requests, failures>>

\* The page changed: its row is read again, and with it the cluster it has.
RereadItem(f) ==
  /\ fetch[f].pc = "reread"
  /\ fetch' = [fetch EXCEPT ![f].pc = "update", ![f].join = item[fetch[f].row].cluster]
  /\ UNCHANGED <<breaker, raced, requests, failures>> /\ RowsUnchanged

\* The row is rewritten and enters the inbox again.
UpdateItem(f) ==
  /\ fetch[f].pc = "update"
  /\ item' = [item EXCEPT
       ![fetch[f].row].status = "parsed",
       ![fetch[f].row].hash = Hash(fetch[f].entry, fetch[f].version[fetch[f].entry])]
  /\ IF fetch[f].join = None THEN NextEntry(f, {fetch[f].row}) ELSE Goto(f, "bump")
  /\ UNCHANGED <<feed, etag, breaker, cluster, raced, requests, failures>>

\* Its story develops.
BumpCluster(f) ==
  /\ fetch[f].pc = "bump"
  /\ cluster' = [cluster EXCEPT ![fetch[f].join].status =
                   IF @ \in {"selected", "covered"} THEN "updated" ELSE "developing"]
  /\ NextEntry(f, {fetch[f].row})
  /\ UNCHANGED <<feed, etag, breaker, item, raced, requests, failures>>

\* Every entry is stored: the version that was read is remembered.
StampSource(f) ==
  /\ f \notin Searchers
  /\ fetch[f].pc = "dedup" /\ fetch[f].todo = {}
  /\ etag' = [etag EXCEPT ![fetch[f].src] = fetch[f].version]
  /\ fetch' = [fetch EXCEPT ![f].pc = "pick", ![f].version = NothingRead]
  /\ UNCHANGED <<feed, breaker, item, cluster, raced, requests, failures>>

-----------------------------------------------------------------------------
(* Scoring and clustering *)

Backfilling(f) == fetch[f].src = None

\* fetchSourceNow reads the row again; the backfill has what it read.
Pick(f) ==
  /\ fetch[f].pc = "pick"
  /\ \/ \E d \in fetch[f].queue :
          fetch' = [fetch EXCEPT
            ![f].pc = "score", ![f].row = d, ![f].queue = @ \ {d},
            ![f].known = IF Backfilling(f) THEN @ ELSE [@ EXCEPT ![d] = item[d].cluster]]
     \/ /\ fetch[f].queue = {} /\ Backfilling(f)
        /\ fetch' = [fetch EXCEPT ![f] = Idle]
  /\ UNCHANGED <<breaker, raced, requests, failures>> /\ RowsUnchanged

ScoreItem(f) ==
  /\ fetch[f].pc = "score"
  /\ LET d == fetch[f].row IN
     /\ item' = [item EXCEPT ![d].score = ScoreOf[d]]
     /\ Goto(f, IF fetch[f].known[d] # None THEN "promote" ELSE "assign")
  /\ UNCHANGED <<feed, etag, breaker, cluster, raced, requests, failures>>

\* Faulty variant: a cluster that develops takes no new items.
SimilarOpenClusters(e) ==
  {c \in Clusters : cluster[c].status = "open" /\ cluster[c].story = StoryOf[e]}

SimilarClusters(e) ==
  {c \in Clusters : cluster[c].status \in Joinable /\ cluster[c].story = StoryOf[e]}

\* assignSourceItemToCluster of an item without a cluster: one like it, or a
\* new one.
Assign(f) ==
  /\ fetch[f].pc = "assign"
  /\ LET similar == SimilarClusters(fetch[f].row) IN
     \/ similar = {} /\ Goto(f, "cluster")
     \/ \E c \in similar : fetch' = [fetch EXCEPT ![f].pc = "link", ![f].join = c]
  /\ UNCHANGED <<breaker, raced, requests, failures>> /\ RowsUnchanged

CreateCluster(f) ==
  /\ fetch[f].pc = "cluster"
  /\ FreeClusters # {}
  /\ LET c == CHOOSE c \in FreeClusters : TRUE IN
     /\ cluster' = [cluster EXCEPT ![c] = [status |-> "open", story |-> StoryOf[fetch[f].row]]]
     /\ fetch' = [fetch EXCEPT ![f].pc = "link", ![f].join = c]
  /\ UNCHANGED <<feed, etag, breaker, item, raced, requests, failures>>

LinkItem(f) ==
  /\ fetch[f].pc = "link"
  /\ item' = [item EXCEPT ![fetch[f].row].cluster = fetch[f].join]
  /\ Goto(f, "promote")
  /\ UNCHANGED <<feed, etag, breaker, cluster, raced, requests, failures>>

\* This row is done with, whatever came of it.
NextRow(f) == fetch' = [fetch EXCEPT ![f].pc = "pick", ![f].row = None, ![f].join = None,
                                     ![f].known[fetch[f].row] = None]

PromoteItem(f) ==
  /\ fetch[f].pc = "promote"
  /\ item' = [item EXCEPT ![fetch[f].row].status =
                IF ScoreOf[fetch[f].row] = "high" THEN "candidate" ELSE "parsed"]
  /\ NextRow(f)
  /\ UNCHANGED <<feed, etag, breaker, cluster, raced, requests, failures>>

-----------------------------------------------------------------------------
(* The end of a call *)

\* recordFetchOutcome, of a success and of a failure.
RecordSuccess(f) ==
  /\ \/ fetch[f].pc = "record"
     \/ /\ fetch[f].pc = "pick" /\ fetch[f].queue = {}
        /\ f \notin Searchers /\ ~Backfilling(f)
  /\ breaker' = [breaker EXCEPT ![ProcessOf(f)][fetch[f].src] = Closed]
  /\ \/ Return(f) /\ UNCHANGED failures
     \/ Fails("database") /\ Goto(f, "failed")    \* the run's record cannot be closed
  /\ UNCHANGED <<raced, requests>> /\ RowsUnchanged

RecordFailure(f) ==
  /\ fetch[f].pc = "failed"
  /\ breaker' = [breaker EXCEPT ![ProcessOf(f)][fetch[f].src] = Recorded(@)]
  /\ Return(f)
  /\ UNCHANGED <<raced, requests, failures>> /\ RowsUnchanged

Storing == {"dedup", "create", "reread", "update", "bump", "record"}

Scoring == {"score", "assign", "cluster", "link", "promote"}

\* A statement of fetchSourceNow throws.  While a feed is stored or a row is
\* read the whole fetch fails; while a row is scored only that row is left; in
\* the handler of a failure nothing is recorded.
FetchThrows(f) ==
  \/ fetch[f].pc \in Storing \cup {"pick"} /\ Goto(f, "failed")
  \/ fetch[f].pc \in Scoring /\ NextRow(f)
  \/ fetch[f].pc = "failed" /\ Return(f)

\* A statement throws: a backfill leaves the rest, a search leaves the page.
StatementFails(f) ==
  /\ Fails("database")
  /\ \/ f \notin Searchers /\ ~Backfilling(f) /\ FetchThrows(f)
     \/ /\ f \notin Searchers /\ Backfilling(f)
        /\ fetch[f].pc \in Scoring \cup {"pick"} /\ fetch' = [fetch EXCEPT ![f] = Idle]
     \/ /\ f \in Searchers
        /\ fetch[f].pc \in Storing \cup Scoring \cup {"pick"} /\ Return(f)
  /\ UNCHANGED <<breaker, raced, requests>> /\ RowsUnchanged

\* A process dies and starts again, with breakers that know nothing.
Crash(p) ==
  /\ Fails(p)
  /\ \E f \in Callers : ProcessOf(f) = p /\ fetch[f].pc \notin {"idle", "done"}
  /\ fetch' = [f \in Callers |-> IF ProcessOf(f) = p /\ fetch[f].pc # "done"
                                   THEN Idle ELSE fetch[f]]
  /\ breaker' = [breaker EXCEPT ![p] = [s \in Sources |-> Closed]]
  /\ UNCHANGED <<raced, requests>> /\ RowsUnchanged

-----------------------------------------------------------------------------
(* Searching the web: runWebDiscoveryForTenant *)

\* The search finds pages that are there.
Finds(f) ==
  \E pages \in SUBSET {e \in Searchable : feed[e] > 0} \ {{}} :
    fetch' = [fetch EXCEPT ![f] = [Idle EXCEPT !.pc = "next", !.found = pages]]

SearchStarts ==
  /\ fetch[Searcher].pc = "idle"
  /\ Finds(Searcher)
  /\ UNCHANGED <<breaker, raced, requests, failures>> /\ RowsUnchanged

\* runningTenants: one run at a time in a process.
OperatorSearches(f) ==
  /\ f \in Searches /\ fetch[f].pc = "idle"
  /\ \A g \in Searches : fetch[g].pc \in {"idle", "done"}
  /\ Asks /\ Finds(f)
  /\ UNCHANGED <<breaker, raced, failures>> /\ RowsUnchanged

\* The next page is scraped, for the source of its domain; the last one ends
\* the run.
Scrape(f) ==
  /\ f \in Searchers /\ fetch[f].pc = "next"
  /\ \/ \E e \in fetch[f].found :
          /\ fetch' = [fetch EXCEPT ![f] =
               [Idle EXCEPT !.pc = "dedup", !.found = fetch[f].found \ {e},
                            !.src = SourceOf[e], !.version = Version(SourceOf[e]),
                            !.todo = {e}]]
          /\ raced' = Raced(SourceOf[e])
     \/ /\ fetch[f].found = {} /\ UNCHANGED raced
        /\ fetch' = [fetch EXCEPT ![f] = Over(f)]
  /\ UNCHANGED <<breaker, requests, failures>> /\ RowsUnchanged

\* A page that is new or has changed is scored at once; then comes the next.
PageStored(f) ==
  /\ f \in Searchers
  /\ fetch[f].todo = {}
  /\ \/ fetch[f].pc = "dedup" /\ fetch[f].queue # {} /\ Goto(f, "pick")
     \/ fetch[f].pc \in {"dedup", "pick"} /\ fetch[f].queue = {} /\ Return(f)
  /\ UNCHANGED <<breaker, raced, requests, failures>> /\ RowsUnchanged

-----------------------------------------------------------------------------
(* The world *)

\* The publisher writes an entry, or rewrites it.
Publish(e) ==
  /\ feed[e] < LastRevision[e]
  /\ feed' = [feed EXCEPT ![e] = @ + 1]
  /\ UNCHANGED <<etag, breaker, item, cluster, fetch, raced, requests, failures>>

\* setSourceItemStatus and markSourceItemsStatus.
SetItemStatus(e, status) ==
  /\ Asks
  /\ e \in Stored
  /\ item' = [item EXCEPT ![e].status = status]
  /\ UNCHANGED <<feed, etag, breaker, cluster, fetch, raced, failures>>

\* setClusterStatus.
SetClusterStatus(c, status) ==
  /\ Asks
  /\ cluster[c].status # "none"
  /\ cluster' = [cluster EXCEPT ![c].status = status]
  /\ UNCHANGED <<feed, etag, breaker, item, fetch, raced, failures>>

-----------------------------------------------------------------------------

Step(f) ==
  \/ Discover(f) \/ Dedup(f) \/ CreateItem(f) \/ RereadItem(f) \/ UpdateItem(f)
  \/ BumpCluster(f) \/ StampSource(f) \/ Scrape(f) \/ PageStored(f) \/ Pick(f)
  \/ ScoreItem(f) \/ Assign(f) \/ CreateCluster(f) \/ LinkItem(f) \/ PromoteItem(f)
  \/ RecordSuccess(f) \/ RecordFailure(f)

Tick == TickStarts \/ NextSource \/ Backfill \/ Step(Worker)

Next ==
  \/ Tick
  \/ \E f \in Calls : Step(f) \/ \E s \in Requested : OperatorFetches(f, s)
  \/ SearchStarts
  \/ \E f \in Searchers : Step(f) \/ OperatorSearches(f)
  \/ \E f \in Callers : StatementFails(f)
  \/ \E p \in Processes : Crash(p) \/ \E s \in Sources : CooldownEnds(p, s)
  \/ \E e \in Entries : Publish(e) \/ \E v \in ItemVerdicts : SetItemStatus(e, v)
  \/ \E c \in Clusters, v \in ClusterVerdicts : SetClusterStatus(c, v)

Spec == Init /\ [][Next]_vars

\* The ticks go on, a call or a search that was begun runs to its end, time
\* passes.  No search need ever find anything.
FairSpec == /\ Spec
            /\ WF_vars(Tick)
            /\ \A f \in Calls \cup Searchers : WF_vars(Step(f))
            /\ \A p \in Processes, s \in Sources : WF_vars(CooldownEnds(p, s))

-----------------------------------------------------------------------------
(* Properties *)

Calm == failures = 0

\* What the publisher says now is in some row of the inbox.
Held(e) == \E d \in Stored : item[d].hash = Hash(e, feed[e])

\* Two publishers give different texts for one page: the last one read wins.
Contested(e) == \E d \in Entries : /\ PageOf[d] = PageOf[e] /\ SourceOf[d] # SourceOf[e]
                                  /\ TextOf[d] # TextOf[e]

\* Once a publisher is quiet the inbox has what it says, and keeps it, through
\* failures, crashes, open breakers and answers of 304: the version of a feed is
\* remembered only when every entry of it is stored.  Two calls that read one
\* source at once may leave an older text for good.
InboxFollowsFeed ==
  \A e \in Entries :
    <>[](feed[e] > 0 => Held(e) \/ SourceOf[e] \in raced \/ Contested(e))

\* No item stays "discovered": what a call could not score, the backfill of a
\* later tick scores.  A failure between the score and the promotion does
\* leave an item behind, for the backfill looks for items without a score.
Waiting(e) == /\ e \in Stored /\ item[e].status = "discovered"
              /\ Calm \/ item[e].score = "none"

ItemsPromoted == \A e \in Entries : Waiting(e) ~> ~Waiting(e)

ClustersOf(story) ==
  {c \in Clusters : cluster[c].status \in Joinable /\ cluster[c].story = story}

\* However many items tell a story, they meet in one cluster, or in two: the tick
\* and the search of the discovery worker may each make one at the same time.
\* Only a request of an operator can add another, by scoring next to them or by
\* closing a cluster.
OneClusterPerScorer ==
  \A e \in Entries : Cardinality(ClustersOf(StoryOf[e])) <= 2 + requests

\* editorial.ts:205, "A cluster represents an EVENT": one cluster for a story.
OneClusterPerStory == \A e \in Entries : Cardinality(ClustersOf(StoryOf[e])) <= 1

\* deduplication.ts:101, "the same page fetched by two sources is the same item".
OneItemPerPage ==
  \A d, e \in Stored : d # e => PageOf[d] # PageOf[e]

\* An item that was rejected stays rejected until its page changes.
RejectionKept ==
  [][\A e \in Stored : item[e].status = "rejected" /\ item'[e].hash = item[e].hash
                        => item'[e].status \in {"rejected", "selected"}]_vars
=============================================================================
