---------------------------- MODULE SelectionProofs ----------------------------
(***************************************************************************)
(* Theorems of SourceDiscovery and of StorySelection, for every value of   *)
(* their constants: rows and calls keep their types, clusters do not       *)
(* multiply beyond the scorers, and a story gets one project unless two    *)
(* calls raced for it.                                                     *)
(***************************************************************************)
EXTENDS StorySelection, TLAPS, WellFoundedInduction, FiniteSetTheorems

-----------------------------------------------------------------------------
(* The invariant of discovery *)

Reads == {v \in [Entries -> Nat] : \A e \in Entries : v[e] <= LastRevision[e]}

Breakers == [state : {"closed", "open", "half_open"}, failures : 0..FailureThreshold]

ClusterRows == [status : ClusterStatus, story : Stories \cup {None}]

FetchRecs == [pc : Steps, left : SUBSET Sources, found : SUBSET Entries,
              src : Sources \cup {None},
              version : Reads, todo : SUBSET Entries, entry : Entries \cup {None},
              row : Entries \cup {None}, join : Clusters \cup {None},
              queue : SUBSET Entries, known : [Entries -> Clusters \cup {None}]]

Existing == {c \in Clusters : cluster[c].status # "none"}

\* What a call has named by the time it uses it; the cluster it is about to
\* change or to file an item under exists.
CallOk(call) ==
  /\ call.pc \in Storing \cup {"discover", "failed"} => call.src \in Sources
  /\ call.pc \in {"create", "reread", "update"} => call.entry \in Entries
  /\ call.pc \in Scoring \cup {"reread", "update", "bump"} => call.row \in Entries
  /\ call.pc \in {"bump", "link"} => call.join \in Clusters
  /\ call.join \in Existing \cup {None}

FetchOk == /\ fetch \in [Callers -> FetchRecs]
           /\ \A f \in Callers : CallOk(fetch[f])

\* Finitely many items are stored, so that one of them is the newest.
ItemOk == /\ item \in [Entries -> ItemRows]
          /\ IsFiniteSet(Stored)
          /\ \E n \in Nat : \A e \in Entries : item[e].at <= n
          /\ \A e \in Entries : item[e].cluster \in Existing \cup {None}

FeedOk == feed \in Reads /\ etag \in [Sources -> Reads]

BreakerOk == breaker \in [Processes -> [Sources -> Breakers]]

CountersOk == raced \subseteq Sources /\ requests \in 0..MaxEvents /\ failures \in 0..MaxEvents

ClusterOk == cluster \in [Clusters -> ClusterRows]

DiscoveryInv == FeedOk /\ BreakerOk /\ ClusterOk /\ ItemOk /\ FetchOk /\ CountersOk

LEMMA InvTypes == DiscoveryInv => TypeOK
  BY DiscoveryConstants
     DEF DiscoveryInv, FeedOk, BreakerOk, ClusterOk, ItemOk, FetchOk, CountersOk, TypeOK,
         IsVersion, Reads, Breakers, ClusterRows, FetchRecs

-----------------------------------------------------------------------------
(* Lemmas about the rows *)

LEMMA NothingReads == NothingRead \in Reads
  BY DiscoveryConstants DEF NothingRead, Reads

LEMMA VersionReads == ASSUME FeedOk, NEW s PROVE Version(s) \in Reads
  BY DiscoveryConstants DEF FeedOk, Version, Reads

LEMMA HashTypes ==
  ASSUME NEW e \in Entries, NEW r \in Nat, r <= LastRevision[e]
  PROVE  Hash(e, r) \in Hashes
<1>1. r \in 0..LastRevision[e]
  BY DiscoveryConstants
<1>2. QED
  BY <1>1 DEF Hashes

LEMMA NullRows ==
  /\ \A e \in Entries : NoItem(e) \in ItemRows
  /\ NoCluster \in ClusterRows
  /\ Idle \in FetchRecs
<1>1. ASSUME NEW e \in Entries PROVE NoItem(e) \in ItemRows
  <2>1. Hash(e, 0) \in Hashes
    BY DiscoveryConstants, HashTypes
  <2>2. QED
    BY <2>1 DEF NoItem, ItemRows, ItemStatus
<1>2. NoCluster \in ClusterRows
  BY DEF NoCluster, ClusterRows, ClusterStatus
<1>3. Idle \in FetchRecs
  BY NothingReads DEF Idle, FetchRecs, Steps
<1>4. QED
  BY <1>1, <1>2, <1>3

LEMMA StatusChanges ==
  /\ \A row \in ItemRows, v \in ItemStatus :
       /\ [row EXCEPT !.status = v] \in ItemRows
       /\ [row EXCEPT !.status = v].cluster = row.cluster
  /\ \A row \in ClusterRows, v \in ClusterStatus :
       /\ [row EXCEPT !.status = v] \in ClusterRows
       /\ [row EXCEPT !.status = v].status = v
<1>1. ASSUME NEW row \in ItemRows, NEW v \in ItemStatus
      PROVE  /\ [row EXCEPT !.status = v] \in ItemRows
             /\ [row EXCEPT !.status = v].cluster = row.cluster
  BY DEF ItemRows
<1>2. ASSUME NEW row \in ClusterRows, NEW v \in ClusterStatus
      PROVE  /\ [row EXCEPT !.status = v] \in ClusterRows
             /\ [row EXCEPT !.status = v].status = v
  BY DEF ClusterRows
<1>3. QED
  BY <1>1, <1>2

\* A set of natural numbers that is not empty has a lowest one.
LEMMA Least ==
  ASSUME NEW S, S \subseteq Nat, S # {}
  PROVE  \E m \in S : \A k \in S : m <= k
<1> DEFINE R == OpToRel(<, Nat)
<1>1. PICK m \in S : \A k \in S : ~ (<<k, m>> \in R)
  <2> HIDE DEF R
  <2>1. IsWellFoundedOn(R, Nat)
    BY NatLessThanWellFounded DEF R
  <2>2. QED
    BY <2>1, WFMin
<1>2. \A k \in S : ~ (k < m)
  BY <1>1 DEF OpToRel
<1>3. QED
  BY <1>2

\* Of the rows that are stored, one was stored last.
LEMMA NewestExists ==
  ASSUME ItemOk, NEW rows, rows \subseteq Entries, rows # {}
  PROVE  Newest(rows) \in rows
<1>1. PICK n \in Nat : \A e \in Entries : item[e].at <= n
  BY DEF ItemOk
<1>2. \A e \in Entries : item[e].at \in Nat
  BY DEF ItemOk, ItemRows
<1> DEFINE S == {n - item[e].at : e \in rows}
<1>3. S \subseteq Nat /\ S # {}
  BY <1>1, <1>2
<1>4. PICK m \in S : \A k \in S : m <= k
  <2> HIDE DEF S
  <2>1. QED
    BY <1>3, Least
<1>5. PICK d \in rows : m = n - item[d].at
  OBVIOUS
<1>6. ASSUME NEW x \in rows PROVE item[x].at <= item[d].at
  <2>1. n - item[x].at \in S /\ item[x].at \in Nat /\ item[d].at \in Nat
    BY <1>2, <1>6
  <2>2. n - item[d].at <= n - item[x].at
    BY <1>4, <1>5, <2>1
  <2> HIDE DEF S
  <2>3. QED
    BY <2>1, <2>2
<1>7. QED
  BY <1>5, <1>6 DEF Newest

LEMMA PreLinkedExists ==
  ASSUME ItemOk, NEW e
  PROVE  PreLinked(e) \in Existing \cup {None}
<1>1. SameStory(e) \subseteq Entries
  BY DEF SameStory, Stored
<1>2. SameStory(e) # {} => Newest(SameStory(e)) \in Entries
  BY <1>1, NewestExists
<1>3. QED
  BY <1>2 DEF PreLinked, ItemOk

-----------------------------------------------------------------------------
(* What a step changes *)

Grows == Existing \subseteq Existing'

LEMMA FetchChanges ==
  ASSUME FetchOk, Grows, NEW f \in Callers, NEW call \in FetchRecs, CallOk(call)',
         fetch' = [fetch EXCEPT ![f] = call]
  PROVE  FetchOk'
  BY DEF FetchOk, CallOk, Grows

LEMMA FetchStays ==
  ASSUME FetchOk, Grows, UNCHANGED fetch
  PROVE  FetchOk'
  BY DEF FetchOk, CallOk, Grows

LEMMA ItemChanges ==
  ASSUME ItemOk, Grows, NEW d, NEW row \in ItemRows, row.cluster \in Existing' \cup {None},
         item' = [item EXCEPT ![d] = row]
  PROVE  ItemOk'
<1>1. item \in [Entries -> ItemRows] /\ item' \in [Entries -> ItemRows]
  BY DEF ItemOk
<1>2. \A e \in Entries : item'[e] = IF e = d THEN row ELSE item[e]
  BY <1>1
<1>3. IsFiniteSet(Stored')
  <2>1. Stored' \subseteq Stored \cup {d}
    BY <1>2 DEF Stored
  <2>2. IsFiniteSet(Stored \cup {d})
    BY FS_AddElement DEF ItemOk
  <2>3. QED
    BY <2>1, <2>2, FS_Subset
<1>4. \E n \in Nat : \A e \in Entries : item'[e].at <= n
  <2>1. PICK n \in Nat : \A e \in Entries : item[e].at <= n
    BY DEF ItemOk
  <2>2. row.at \in Nat /\ \A e \in Entries : item[e].at \in Nat
    BY <1>1 DEF ItemRows
  <2>3. n + row.at \in Nat /\ \A e \in Entries : item'[e].at <= n + row.at
    BY <1>2, <2>1, <2>2
  <2>4. QED
    BY <2>3
<1>5. \A e \in Entries : item'[e].cluster \in Existing' \cup {None}
  BY <1>2 DEF ItemOk, Grows
<1>6. QED
  BY <1>1, <1>3, <1>4, <1>5 DEF ItemOk

LEMMA ItemStays ==
  ASSUME ItemOk, Grows, UNCHANGED item
  PROVE  ItemOk'
  BY DEF ItemOk, Grows, Stored

LEMMA ClusterChanges ==
  ASSUME ClusterOk, NEW c, NEW row \in ClusterRows, row.status # "none",
         cluster' = [cluster EXCEPT ![c] = row]
  PROVE  ClusterOk' /\ Grows
  BY DEF ClusterOk, Grows, Existing

LEMMA ClusterStays == ASSUME ClusterOk, UNCHANGED cluster PROVE ClusterOk' /\ Grows
  BY DEF ClusterOk, Grows, Existing

-----------------------------------------------------------------------------
(* Every step of discovery keeps its invariant *)

LEMMA DiscoveryInit == Init => DiscoveryInv
<1> SUFFICES ASSUME Init PROVE DiscoveryInv
  OBVIOUS
<1>1. FeedOk
  <2>1. feed \in Reads
    BY DiscoveryConstants DEF Init, Reads
  <2>2. QED
    BY <2>1, NothingReads DEF Init, FeedOk
<1>2. BreakerOk /\ ClusterOk /\ CountersOk
  BY NullRows, DiscoveryConstants
     DEF Init, BreakerOk, Breakers, Closed, ClusterOk, CountersOk
<1>3. ItemOk
  <2>1. Stored = {}
    BY DEF Init, Stored, NoItem
  <2>2. IsFiniteSet(Stored)
    BY <2>1, FS_EmptySet
  <2>3. \A e \in Entries : item[e].at = 0 /\ item[e].cluster = None
    BY DEF Init, NoItem
  <2>4. \E n \in Nat : \A e \in Entries : item[e].at <= n
    BY <2>3
  <2>5. item \in [Entries -> ItemRows]
    BY NullRows DEF Init
  <2>6. QED
    BY <2>2, <2>3, <2>4, <2>5 DEF ItemOk
<1>4. FetchOk
  BY NullRows DEF Init, FetchOk, CallOk, Idle, Storing, Scoring
<1>5. QED
  BY <1>1, <1>2, <1>3, <1>4 DEF DiscoveryInv

LEMMA Counted ==
  ASSUME CountersOk
  PROVE  /\ Asks => requests' \in 0..MaxEvents
         /\ \A kind : Fails(kind) => failures' \in 0..MaxEvents
  BY DiscoveryConstants DEF CountersOk, Asks, Fails

\* A step of one call that changes nothing but the call.
LEMMA OnlyCall ==
  ASSUME DiscoveryInv, NEW f \in Callers, NEW call \in FetchRecs, CallOk(call),
         fetch' = [fetch EXCEPT ![f] = call], RowsUnchanged
  PROVE  FeedOk' /\ ClusterOk' /\ ItemOk' /\ FetchOk'
<1> USE DEF DiscoveryInv
<1>1. ClusterOk' /\ Grows
  BY ClusterStays DEF RowsUnchanged
<1>2. ItemOk'
  BY <1>1, ItemStays DEF RowsUnchanged
<1>3. CallOk(call)'
  BY <1>1 DEF CallOk, Grows
<1>4. FetchOk'
  BY <1>1, <1>3, FetchChanges
<1>5. FeedOk'
  BY DEF FeedOk, RowsUnchanged
<1>6. QED
  BY <1>1, <1>2, <1>4, <1>5

LEMMA ReturnedOk ==
  ASSUME DiscoveryInv, NEW f \in Callers
  PROVE  /\ Returned(f) \in FetchRecs /\ CallOk(Returned(f))
         /\ Over(f) \in FetchRecs /\ CallOk(Over(f)) /\ CallOk(Idle)
<1>1. Idle \in FetchRecs
  BY NullRows
<1>2. fetch[f].left \in SUBSET Sources /\ fetch[f].found \in SUBSET Entries
  BY DEF DiscoveryInv, FetchOk, FetchRecs
<1>3. [Idle EXCEPT !.pc = "next", !.left = fetch[f].left, !.found = fetch[f].found] \in FetchRecs
  BY <1>1, <1>2 DEF FetchRecs, Steps
<1>4. [Idle EXCEPT !.pc = "done"] \in FetchRecs
  BY <1>1 DEF FetchRecs, Steps
<1>5. CallOk(Over(f)) /\ CallOk(Idle)
  BY DEF Over, CallOk, Idle, Storing, Scoring
<1>6. CallOk(Returned(f))
  BY <1>5 DEF Returned, CallOk, Idle, Storing, Scoring
<1>7. Over(f) \in FetchRecs
  BY <1>1, <1>4 DEF Over
<1>8. QED
  BY <1>3, <1>5, <1>6, <1>7 DEF Returned

\* The ways a call moves on without anything else.
LEMMA CallGoes ==
  ASSUME DiscoveryInv, NEW f \in Callers, NEW pc \in Steps \ {"bump", "link", "reread", "update", "create"},
         pc \in Storing \cup {"discover", "failed"} => fetch[f].src \in Sources,
         pc \in Scoring => fetch[f].row \in Entries
  PROVE  [fetch[f] EXCEPT !.pc = pc] \in FetchRecs /\ CallOk([fetch[f] EXCEPT !.pc = pc])
<1> DEFINE call == [fetch[f] EXCEPT !.pc = pc]
<1>1. fetch[f] \in FetchRecs /\ CallOk(fetch[f])
  BY DEF DiscoveryInv, FetchOk
<1>2. call \in FetchRecs /\ call.pc = pc /\ call.src = fetch[f].src /\ call.row = fetch[f].row
      /\ call.join = fetch[f].join
  BY <1>1 DEF FetchRecs
<1> HIDE DEF call
<1>3. CallOk(call)
  BY <1>1, <1>2 DEF CallOk
<1>4. QED
  BY <1>2, <1>3 DEF call

LEMMA NextEntryOk ==
  ASSUME DiscoveryInv, NEW f \in Callers, NEW rows \in SUBSET Entries, fetch[f].src \in Sources
  PROVE  LET call == [fetch[f] EXCEPT !.pc = "dedup", !.entry = None, !.row = None,
                                      !.join = None, !.queue = @ \cup rows] IN
         call \in FetchRecs /\ CallOk(call)
<1> DEFINE call == [fetch[f] EXCEPT !.pc = "dedup", !.entry = None, !.row = None,
                                    !.join = None, !.queue = @ \cup rows]
<1>1. fetch[f] \in FetchRecs
  BY DEF DiscoveryInv, FetchOk
<1>2. call \in FetchRecs /\ call.pc = "dedup" /\ call.src = fetch[f].src /\ call.join = None
  BY <1>1 DEF FetchRecs, Steps
<1> HIDE DEF call
<1>3. CallOk(call)
  BY <1>2 DEF CallOk, Scoring
<1>4. QED
  BY <1>2, <1>3 DEF call

LEMMA NextRowOk ==
  ASSUME DiscoveryInv, NEW f \in Callers
  PROVE  LET call == [fetch[f] EXCEPT !.pc = "pick", !.row = None, !.join = None,
                                      !.known[fetch[f].row] = None] IN
         call \in FetchRecs /\ CallOk(call)
<1> DEFINE known == [fetch[f].known EXCEPT ![fetch[f].row] = None]
           call == [fetch[f] EXCEPT !.pc = "pick", !.row = None, !.join = None, !.known = known]
<1>1. fetch[f] \in FetchRecs
  BY DEF DiscoveryInv, FetchOk
<1>2. known \in [Entries -> Clusters \cup {None}]
  BY <1>1 DEF FetchRecs
<1>3. [fetch[f] EXCEPT !.pc = "pick", !.row = None, !.join = None,
                       !.known[fetch[f].row] = None] = call
  BY <1>1 DEF FetchRecs
<1> HIDE DEF known
<1>4. call \in FetchRecs /\ call.pc = "pick" /\ call.join = None
  BY <1>1, <1>2 DEF FetchRecs, Steps
<1> HIDE DEF call
<1>5. CallOk(call)
  BY <1>4 DEF CallOk, Storing, Scoring
<1>6. QED
  BY <1>3, <1>4, <1>5

LEMMA StartsOk ==
  ASSUME DiscoveryInv, NEW f \in Callers, NEW s \in Sources, NEW call \in FetchRecs,
         CallOk(call), Starts(f, s, call)
  PROVE  /\ FeedOk' /\ ClusterOk' /\ ItemOk' /\ FetchOk' /\ BreakerOk'
         /\ raced' \subseteq Sources /\ failures' = failures
<1> DEFINE started == [call EXCEPT !.pc = "discover", !.src = s, !.version = etag[s]]
<1>1. etag[s] \in Reads
  BY DEF DiscoveryInv, FeedOk
<1>2. started \in FetchRecs /\ started.pc = "discover" /\ started.src = s
      /\ started.join = call.join
  BY <1>1 DEF FetchRecs, Steps
<1>3. fetch' = [fetch EXCEPT ![f] = started] /\ RowsUnchanged
  BY DEF Starts
<1> HIDE DEF started
<1>4. CallOk(started)
  BY <1>2 DEF CallOk, Scoring
<1>5. FeedOk' /\ ClusterOk' /\ ItemOk' /\ FetchOk'
  BY <1>2, <1>3, <1>4, OnlyCall
<1>6. BreakerOk' /\ raced' \subseteq Sources /\ failures' = failures
  BY DEF Starts, Raced, DiscoveryInv, BreakerOk, CountersOk
<1>7. QED
  BY <1>5, <1>6

LEMMA TickOk ==
  ASSUME DiscoveryInv, TickStarts \/ NextSource \/ Backfill
  PROVE  DiscoveryInv'
<1>0. Worker \in Callers /\ fetch[Worker] \in FetchRecs /\ CallOk(fetch[Worker])
  BY DEF Callers, DiscoveryInv, FetchOk
<1>1. ASSUME TickStarts PROVE DiscoveryInv'
  <2> DEFINE call == [fetch[Worker] EXCEPT !.pc = "next",
                        !.left = {s \in Sources : CanAttempt("worker", s)}]
  <2>1. call \in FetchRecs /\ CallOk(call)
    BY <1>0 DEF FetchRecs, Steps, CallOk, Storing, Scoring
  <2>2. fetch' = [fetch EXCEPT ![Worker] = call] /\ RowsUnchanged
        /\ UNCHANGED <<breaker, raced, requests, failures>>
    BY <1>1 DEF TickStarts
  <2> HIDE DEF call
  <2>3. FeedOk' /\ ClusterOk' /\ ItemOk' /\ FetchOk'
    BY <1>0, <2>1, <2>2, OnlyCall
  <2>4. QED
    BY <2>2, <2>3 DEF DiscoveryInv, BreakerOk, CountersOk
<1>2. ASSUME NextSource PROVE DiscoveryInv'
  <2>1. PICK s \in fetch[Worker].left :
          LET call == [fetch[Worker] EXCEPT !.left = @ \ {s}] IN
          \/ CanAttempt("worker", s) /\ Starts(Worker, s, call) /\ UNCHANGED requests
          \/ /\ ~CanAttempt("worker", s)
             /\ fetch' = [fetch EXCEPT ![Worker] = call]
             /\ UNCHANGED <<breaker, raced, requests, failures>> /\ RowsUnchanged
    BY <1>2 DEF NextSource
  <2> DEFINE call == [fetch[Worker] EXCEPT !.left = @ \ {s}]
  <2>2. s \in Sources /\ call \in FetchRecs /\ CallOk(call)
    BY <1>0, <2>1 DEF FetchRecs, CallOk
  <2>3. \/ Starts(Worker, s, call) /\ UNCHANGED requests
        \/ /\ fetch' = [fetch EXCEPT ![Worker] = call]
           /\ UNCHANGED <<breaker, raced, requests, failures>> /\ RowsUnchanged
    BY <2>1
  <2> HIDE DEF call
  <2>4. CASE Starts(Worker, s, call) /\ UNCHANGED requests
    BY <1>0, <2>2, <2>4, StartsOk DEF DiscoveryInv, CountersOk
  <2>5. CASE /\ fetch' = [fetch EXCEPT ![Worker] = call]
             /\ UNCHANGED <<breaker, raced, requests, failures>> /\ RowsUnchanged
    BY <1>0, <2>2, <2>5, OnlyCall DEF DiscoveryInv, BreakerOk, CountersOk
  <2>6. QED
    BY <2>3, <2>4, <2>5
<1>3. ASSUME Backfill PROVE DiscoveryInv'
  <2> DEFINE known == [e \in Entries |-> IF e \in Unscored THEN item[e].cluster ELSE None]
             pc == IF Unscored = {} THEN "idle" ELSE "pick"
             call == [Idle EXCEPT !.pc = pc, !.queue = Unscored, !.known = known]
  <2>1. known \in [Entries -> Clusters \cup {None}] /\ Unscored \in SUBSET Entries
    BY DEF DiscoveryInv, ItemOk, ItemRows, Unscored, Stored
  <2>2. pc \in {"idle", "pick"}
    OBVIOUS
  <2>3. fetch' = [fetch EXCEPT ![Worker] = call] /\ RowsUnchanged
        /\ UNCHANGED <<breaker, raced, requests, failures>>
    BY <1>3 DEF Backfill
  <2> HIDE DEF known, pc
  <2>4. call \in FetchRecs /\ call.pc \in {"idle", "pick"} /\ call.join = None
    <3>1. Idle \in FetchRecs /\ Idle.join = None
      BY NullRows DEF Idle
    <3>2. QED
      BY <2>1, <2>2, <3>1 DEF FetchRecs, Steps
  <2> HIDE DEF call
  <2>5. CallOk(call)
    BY <2>4 DEF CallOk, Storing, Scoring
  <2>6. QED
    BY <1>0, <2>3, <2>4, <2>5, OnlyCall DEF DiscoveryInv, BreakerOk, CountersOk
<1>4. QED
  BY <1>1, <1>2, <1>3

LEMMA OperatorFetchesOk ==
  ASSUME DiscoveryInv, NEW f, NEW s \in Sources, OperatorFetches(f, s)
  PROVE  DiscoveryInv'
<1>1. f \in Callers /\ fetch[f] \in FetchRecs /\ CallOk(fetch[f])
  BY DEF OperatorFetches, Callers, DiscoveryInv, FetchOk
<1>2. requests' \in 0..MaxEvents
  BY Counted DEF OperatorFetches, DiscoveryInv
<1>3. QED
  BY <1>1, <1>2, StartsOk DEF OperatorFetches, DiscoveryInv, CountersOk

LEMMA DiscoverOk ==
  ASSUME DiscoveryInv, NEW f \in Callers, Discover(f)
  PROVE  DiscoveryInv'
<1>0. /\ fetch[f] \in FetchRecs /\ CallOk(fetch[f])
      /\ fetch[f].pc = "discover" /\ fetch[f].src \in Sources
      /\ RowsUnchanged /\ UNCHANGED <<breaker, raced, requests>>
  BY DEF Discover, DiscoveryInv, FetchOk, CallOk
<1>1. failures' \in 0..MaxEvents
  BY Counted DEF Discover, DiscoveryInv, CountersOk
<1>2. ASSUME NEW pc \in {"failed", "record"}, Goto(f, pc) PROVE FeedOk' /\ ClusterOk' /\ ItemOk' /\ FetchOk'
  <2>1. pc \in Steps \ {"bump", "link", "reread", "update", "create"} /\ pc \notin Scoring
    BY DEF Steps, Scoring
  <2>2. [fetch[f] EXCEPT !.pc = pc] \in FetchRecs /\ CallOk([fetch[f] EXCEPT !.pc = pc])
    BY <1>0, <2>1, CallGoes
  <2>3. fetch' = [fetch EXCEPT ![f] = [fetch[f] EXCEPT !.pc = pc]]
    BY <1>2 DEF Goto
  <2>4. QED
    BY <1>0, <2>2, <2>3, OnlyCall
<1>3. ASSUME fetch' = [fetch EXCEPT
               ![f].pc = "dedup", ![f].version = Version(fetch[f].src),
               ![f].todo = {e \in Entries : SourceOf[e] = fetch[f].src /\ feed[e] > 0}]
      PROVE  FeedOk' /\ ClusterOk' /\ ItemOk' /\ FetchOk'
  <2> DEFINE version == Version(fetch[f].src)
             todo == {e \in Entries : SourceOf[e] = fetch[f].src /\ feed[e] > 0}
             call == [fetch[f] EXCEPT !.pc = "dedup", !.version = version, !.todo = todo]
  <2>1. version \in Reads /\ todo \in SUBSET Entries
    BY VersionReads DEF DiscoveryInv
  <2>2. fetch' = [fetch EXCEPT ![f] = call]
    BY <1>3
  <2> HIDE DEF version, todo
  <2>3. call \in FetchRecs /\ CallOk(call)
    BY <1>0, <2>1 DEF FetchRecs, Steps, CallOk, Storing, Scoring
  <2> HIDE DEF call
  <2>4. QED
    BY <1>0, <2>2, <2>3, OnlyCall
<1>4. FeedOk' /\ ClusterOk' /\ ItemOk' /\ FetchOk'
  BY <1>2, <1>3 DEF Discover
<1>5. QED
  BY <1>0, <1>1, <1>4 DEF DiscoveryInv, BreakerOk, CountersOk

LEMMA DedupOk ==
  ASSUME DiscoveryInv, NEW f \in Callers, Dedup(f)
  PROVE  DiscoveryInv'
<1>0. /\ fetch[f] \in FetchRecs /\ CallOk(fetch[f])
      /\ fetch[f].pc = "dedup" /\ fetch[f].src \in Sources
      /\ RowsUnchanged /\ UNCHANGED <<breaker, raced, requests, failures>>
  BY DEF Dedup, DiscoveryInv, FetchOk, CallOk, Storing
<1>1. PICK e \in fetch[f].todo :
       LET hash == Hash(e, fetch[f].version[e])
           call == [fetch[f] EXCEPT !.todo = @ \ {e}, !.entry = e] IN
       \/ \E d \in SamePage(e) :
            fetch' = [fetch EXCEPT ![f] =
                        IF item[d].hash = hash THEN [call EXCEPT !.entry = None]
                        ELSE [call EXCEPT !.pc = "reread", !.row = d]]
       \/ fetch' = [fetch EXCEPT ![f] = [call EXCEPT !.entry = None]]
       \/ fetch' = [fetch EXCEPT ![f] =
                        [call EXCEPT !.pc = "create", !.join = PreLinked(e)]]
  BY DEF Dedup
<1> DEFINE call == [fetch[f] EXCEPT !.todo = @ \ {e}, !.entry = e]
<1>2. e \in Entries
  BY <1>0 DEF FetchRecs
<1>3. call \in FetchRecs /\ call.pc = "dedup" /\ call.src = fetch[f].src /\ call.entry = e
      /\ call.join = fetch[f].join
  BY <1>0, <1>2 DEF FetchRecs
<1>4. \/ \E d \in SamePage(e) : fetch' = [fetch EXCEPT ![f] =
                                            [call EXCEPT !.pc = "reread", !.row = d]]
      \/ fetch' = [fetch EXCEPT ![f] = [call EXCEPT !.entry = None]]
      \/ fetch' = [fetch EXCEPT ![f] = [call EXCEPT !.pc = "create", !.join = PreLinked(e)]]
  BY <1>1
<1> HIDE DEF call
<1>5. ASSUME NEW d \in SamePage(e),
             fetch' = [fetch EXCEPT ![f] = [call EXCEPT !.pc = "reread", !.row = d]]
      PROVE  FeedOk' /\ ClusterOk' /\ ItemOk' /\ FetchOk'
  <2>1. d \in Entries
    BY <1>2 DEF SamePage, Stored
  <2>2. [call EXCEPT !.pc = "reread", !.row = d] \in FetchRecs
    BY <1>3, <2>1 DEF FetchRecs, Steps
  <2>3. CallOk([call EXCEPT !.pc = "reread", !.row = d])
    BY <1>0, <1>2, <1>3, <2>1 DEF FetchRecs, CallOk
  <2>4. QED
    BY <1>0, <1>5, <2>2, <2>3, OnlyCall
<1>6. ASSUME fetch' = [fetch EXCEPT ![f] = [call EXCEPT !.entry = None]]
      PROVE  FeedOk' /\ ClusterOk' /\ ItemOk' /\ FetchOk'
  <2>2. [call EXCEPT !.entry = None] \in FetchRecs
    BY <1>3 DEF FetchRecs
  <2>3. CallOk([call EXCEPT !.entry = None])
    BY <1>0, <1>3 DEF FetchRecs, CallOk, Scoring
  <2>4. QED
    BY <1>0, <1>6, <2>2, <2>3, OnlyCall
<1>7. ASSUME fetch' = [fetch EXCEPT ![f] = [call EXCEPT !.pc = "create", !.join = PreLinked(e)]]
      PROVE  FeedOk' /\ ClusterOk' /\ ItemOk' /\ FetchOk'
  <2>1. PreLinked(e) \in Existing \cup {None}
    BY PreLinkedExists DEF DiscoveryInv
  <2>2. [call EXCEPT !.pc = "create", !.join = PreLinked(e)] \in FetchRecs
    BY <1>3, <2>1 DEF FetchRecs, Steps, Existing
  <2>3. CallOk([call EXCEPT !.pc = "create", !.join = PreLinked(e)])
    BY <1>0, <1>2, <1>3, <2>1 DEF FetchRecs, CallOk, Scoring
  <2>4. QED
    BY <1>0, <1>7, <2>2, <2>3, OnlyCall
<1>8. QED
  BY <1>0, <1>4, <1>5, <1>6, <1>7 DEF DiscoveryInv, BreakerOk, CountersOk

\* A step of a call that writes one item and moves on.
LEMMA ItemAndCall ==
  ASSUME DiscoveryInv, NEW f \in Callers, NEW call \in FetchRecs, CallOk(call),
         NEW d, NEW row \in ItemRows, row.cluster \in Existing \cup {None},
         item' = [item EXCEPT ![d] = row], fetch' = [fetch EXCEPT ![f] = call],
         UNCHANGED <<feed, etag, breaker, cluster, raced, requests>>,
         failures' \in 0..MaxEvents
  PROVE  DiscoveryInv'
<1> USE DEF DiscoveryInv
<1>1. ClusterOk' /\ Grows
  BY ClusterStays
<1>2. ItemOk'
  BY <1>1, ItemChanges DEF Grows
<1>3. CallOk(call)'
  BY <1>1 DEF CallOk, Grows
<1>4. FetchOk'
  BY <1>1, <1>3, FetchChanges
<1>5. QED
  BY <1>1, <1>2, <1>4 DEF FeedOk, BreakerOk, CountersOk

LEMMA CreateItemOk ==
  ASSUME DiscoveryInv, NEW f \in Callers, CreateItem(f)
  PROVE  DiscoveryInv'
<1>0. /\ fetch[f] \in FetchRecs /\ CallOk(fetch[f])
      /\ fetch[f].pc = "create" /\ fetch[f].src \in Sources /\ fetch[f].entry \in Entries
      /\ fetch[f].join \in Existing \cup {None}
      /\ UNCHANGED <<feed, etag, breaker, cluster, raced, requests, failures>>
  BY DEF CreateItem, DiscoveryInv, FetchOk, CallOk, Storing
<1> DEFINE e == fetch[f].entry
           call(rows) == [fetch[f] EXCEPT !.pc = "dedup", !.entry = None, !.row = None,
                                          !.join = None, !.queue = @ \cup rows]
           hash == Hash(e, fetch[f].version[e])
           row == [status |-> "discovered", score |-> "none", cluster |-> fetch[f].join,
                   hash |-> hash, at |-> Cardinality(Stored) + 1]
<1>1. ASSUME e \in Stored PROVE DiscoveryInv'
  <2>1. fetch' = [fetch EXCEPT ![f] = call({})] /\ UNCHANGED item
    BY <1>0, <1>1 DEF CreateItem, NextEntry
  <2>2. call({}) \in FetchRecs /\ CallOk(call({}))
    BY <1>0, NextEntryOk
  <2> HIDE DEF call
  <2>3. FeedOk' /\ ClusterOk' /\ ItemOk' /\ FetchOk'
    BY <1>0, <2>1, <2>2, OnlyCall DEF RowsUnchanged
  <2>4. QED
    BY <1>0, <2>3 DEF DiscoveryInv, BreakerOk, CountersOk
<1>2. ASSUME e \notin Stored PROVE DiscoveryInv'
  <2>1. fetch' = [fetch EXCEPT ![f] = call({e})] /\ item' = [item EXCEPT ![e] = row]
    BY <1>0, <1>2 DEF CreateItem, NextEntry
  <2>2. call({e}) \in FetchRecs /\ CallOk(call({e}))
    BY <1>0, NextEntryOk
  <2>3. hash \in Hashes
    BY <1>0, HashTypes DEF FetchRecs, Reads
  <2>4. Cardinality(Stored) + 1 \in Nat
    BY FS_CardinalityType DEF DiscoveryInv, ItemOk
  <2> HIDE DEF hash
  <2>5. row \in ItemRows /\ row.cluster \in Existing \cup {None}
    BY <1>0, <2>3, <2>4 DEF ItemRows, ItemStatus, Existing
  <2> HIDE DEF row, call
  <2>6. failures' \in 0..MaxEvents
    BY <1>0 DEF DiscoveryInv, CountersOk
  <2>7. QED
    BY <1>0, <2>1, <2>2, <2>5, <2>6, ItemAndCall
<1>3. QED
  BY <1>1, <1>2

LEMMA RereadItemOk ==
  ASSUME DiscoveryInv, NEW f \in Callers, RereadItem(f)
  PROVE  DiscoveryInv'
<1>0. /\ fetch[f] \in FetchRecs /\ CallOk(fetch[f])
      /\ fetch[f].pc = "reread" /\ fetch[f].src \in Sources
      /\ fetch[f].entry \in Entries /\ fetch[f].row \in Entries
      /\ RowsUnchanged /\ UNCHANGED <<breaker, raced, requests, failures>>
  BY DEF RereadItem, DiscoveryInv, FetchOk, CallOk, Storing
<1> DEFINE join == item[fetch[f].row].cluster
           call == [fetch[f] EXCEPT !.pc = "update", !.join = join]
<1>1. join \in Existing \cup {None} /\ join \in Clusters \cup {None}
  BY <1>0 DEF DiscoveryInv, ItemOk, Existing
<1>2. fetch' = [fetch EXCEPT ![f] = call]
  BY DEF RereadItem
<1> HIDE DEF join
<1>3. call \in FetchRecs /\ call.pc = "update" /\ call.src = fetch[f].src
      /\ call.entry = fetch[f].entry /\ call.row = fetch[f].row /\ call.join = join
  BY <1>0, <1>1 DEF FetchRecs, Steps
<1> HIDE DEF call
<1>4. CallOk(call)
  BY <1>0, <1>1, <1>3 DEF CallOk
<1>5. FeedOk' /\ ClusterOk' /\ ItemOk' /\ FetchOk'
  BY <1>0, <1>2, <1>3, <1>4, OnlyCall
<1>6. QED
  BY <1>0, <1>5 DEF DiscoveryInv, BreakerOk, CountersOk

LEMMA UpdateItemOk ==
  ASSUME DiscoveryInv, NEW f \in Callers, UpdateItem(f)
  PROVE  DiscoveryInv'
<1>0. /\ fetch[f] \in FetchRecs /\ CallOk(fetch[f])
      /\ fetch[f].pc = "update" /\ fetch[f].src \in Sources
      /\ fetch[f].entry \in Entries /\ fetch[f].row \in Entries
      /\ fetch[f].join \in Existing \cup {None}
      /\ UNCHANGED <<feed, etag, breaker, cluster, raced, requests, failures>>
  BY DEF UpdateItem, DiscoveryInv, FetchOk, CallOk, Storing
<1> DEFINE d == fetch[f].row
           e == fetch[f].entry
           hash == Hash(e, fetch[f].version[e])
           row == [item[d] EXCEPT !.status = "parsed", !.hash = hash]
           next == [fetch[f] EXCEPT !.pc = "dedup", !.entry = None, !.row = None,
                                    !.join = None, !.queue = @ \cup {d}]
           bump == [fetch[f] EXCEPT !.pc = "bump"]
<1>1. item \in [Entries -> ItemRows] /\ item[d].cluster \in Existing \cup {None}
  BY <1>0 DEF DiscoveryInv, ItemOk
<1>2. item' = [item EXCEPT ![d] = row]
  BY DEF UpdateItem
<1>3. \/ fetch' = [fetch EXCEPT ![f] = next]
      \/ fetch[f].join # None /\ fetch' = [fetch EXCEPT ![f] = bump]
  BY DEF UpdateItem, NextEntry, Goto
<1>4. hash \in Hashes
  BY <1>0, HashTypes DEF FetchRecs, Reads
<1> HIDE DEF hash
<1>5. row \in ItemRows /\ row.cluster \in Existing \cup {None}
  <2>1. item[d] \in ItemRows
    BY <1>0, <1>1
  <2>2. row \in ItemRows /\ row.cluster = item[d].cluster
    BY <1>4, <2>1 DEF ItemRows, ItemStatus
  <2> HIDE DEF row
  <2>3. QED
    BY <1>1, <2>2
<1>6. next \in FetchRecs /\ CallOk(next)
  BY <1>0, NextEntryOk
<1>7. fetch[f].join # None => bump \in FetchRecs /\ CallOk(bump)
  <2>1. SUFFICES ASSUME fetch[f].join # None PROVE bump \in FetchRecs /\ CallOk(bump)
    OBVIOUS
  <2>2. fetch[f].join \in Existing /\ fetch[f].join \in Clusters
    BY <1>0, <2>1 DEF Existing
  <2>3. bump \in FetchRecs /\ bump.pc = "bump" /\ bump.src = fetch[f].src
        /\ bump.row = fetch[f].row /\ bump.join = fetch[f].join
    BY <1>0, <2>2 DEF FetchRecs, Steps
  <2> HIDE DEF bump
  <2>4. QED
    BY <1>0, <2>2, <2>3 DEF CallOk
<1> HIDE DEF row, next, bump
<1>8. failures' \in 0..MaxEvents
  BY <1>0 DEF DiscoveryInv, CountersOk
<1>9. QED
  BY <1>0, <1>2, <1>3, <1>5, <1>6, <1>7, <1>8, ItemAndCall

LEMMA ScoreItemOk ==
  ASSUME DiscoveryInv, NEW f \in Callers, ScoreItem(f)
  PROVE  DiscoveryInv'
<1>0. /\ fetch[f] \in FetchRecs /\ CallOk(fetch[f])
      /\ fetch[f].pc = "score" /\ fetch[f].row \in Entries
      /\ UNCHANGED <<feed, etag, breaker, cluster, raced, requests, failures>>
  BY DEF ScoreItem, DiscoveryInv, FetchOk, CallOk, Scoring
<1> DEFINE d == fetch[f].row
           row == [item[d] EXCEPT !.score = ScoreOf[d]]
           pc == IF fetch[f].known[d] # None THEN "promote" ELSE "assign"
<1>1. item[d] \in ItemRows /\ item[d].cluster \in Existing \cup {None}
  BY <1>0 DEF DiscoveryInv, ItemOk
<1>2. row \in ItemRows /\ row.cluster = item[d].cluster
  BY <1>0, <1>1, DiscoveryConstants DEF ItemRows
<1>3. item' = [item EXCEPT ![d] = row]
  BY DEF ScoreItem
<1>4. fetch' = [fetch EXCEPT ![f] = [fetch[f] EXCEPT !.pc = pc]]
  BY DEF ScoreItem, Goto
<1>5. pc \in Steps \ {"bump", "link", "reread", "update", "create"}
      /\ pc \notin Storing \cup {"discover", "failed"}
  BY DEF Steps, Storing
<1> HIDE DEF pc, row
<1>6. [fetch[f] EXCEPT !.pc = pc] \in FetchRecs /\ CallOk([fetch[f] EXCEPT !.pc = pc])
  BY <1>0, <1>5, CallGoes
<1>7. failures' \in 0..MaxEvents
  BY <1>0 DEF DiscoveryInv, CountersOk
<1>8. QED
  BY <1>0, <1>1, <1>2, <1>3, <1>4, <1>6, <1>7, ItemAndCall

LEMMA LinkItemOk ==
  ASSUME DiscoveryInv, NEW f \in Callers, LinkItem(f)
  PROVE  DiscoveryInv'
<1>0. /\ fetch[f] \in FetchRecs /\ CallOk(fetch[f])
      /\ fetch[f].pc = "link" /\ fetch[f].row \in Entries
      /\ fetch[f].join \in Clusters /\ fetch[f].join \in Existing \cup {None}
      /\ UNCHANGED <<feed, etag, breaker, cluster, raced, requests, failures>>
  BY DEF LinkItem, DiscoveryInv, FetchOk, CallOk, Scoring
<1> DEFINE d == fetch[f].row
           row == [item[d] EXCEPT !.cluster = fetch[f].join]
<1>1. item[d] \in ItemRows
  BY <1>0 DEF DiscoveryInv, ItemOk
<1>2. row \in ItemRows /\ row.cluster = fetch[f].join
  BY <1>0, <1>1 DEF ItemRows
<1>3. item' = [item EXCEPT ![d] = row]
      /\ fetch' = [fetch EXCEPT ![f] = [fetch[f] EXCEPT !.pc = "promote"]]
  BY DEF LinkItem, Goto
<1> HIDE DEF row
<1>4. [fetch[f] EXCEPT !.pc = "promote"] \in FetchRecs
      /\ CallOk([fetch[f] EXCEPT !.pc = "promote"])
  BY <1>0, CallGoes DEF Steps, Storing
<1>5. failures' \in 0..MaxEvents
  BY <1>0 DEF DiscoveryInv, CountersOk
<1>6. QED
  BY <1>0, <1>2, <1>3, <1>4, <1>5, ItemAndCall

LEMMA PromoteItemOk ==
  ASSUME DiscoveryInv, NEW f \in Callers, PromoteItem(f)
  PROVE  DiscoveryInv'
<1>0. /\ fetch[f].row \in Entries
      /\ UNCHANGED <<feed, etag, breaker, cluster, raced, requests, failures>>
  BY DEF PromoteItem, DiscoveryInv, FetchOk, CallOk, Scoring
<1> DEFINE d == fetch[f].row
           status == IF ScoreOf[d] = "high" THEN "candidate" ELSE "parsed"
           row == [item[d] EXCEPT !.status = status]
           call == [fetch[f] EXCEPT !.pc = "pick", !.row = None, !.join = None,
                                    !.known[fetch[f].row] = None]
<1>1. item[d] \in ItemRows /\ item[d].cluster \in Existing \cup {None}
  BY <1>0 DEF DiscoveryInv, ItemOk
<1>2. status \in ItemStatus
  BY DEF ItemStatus
<1>3. item' = [item EXCEPT ![d] = row] /\ fetch' = [fetch EXCEPT ![f] = call]
  BY DEF PromoteItem, NextRow
<1> HIDE DEF status
<1>4. row \in ItemRows /\ row.cluster = item[d].cluster
  BY <1>1, <1>2 DEF ItemRows
<1>5. call \in FetchRecs /\ CallOk(call)
  BY NextRowOk
<1> HIDE DEF row, call
<1>6. failures' \in 0..MaxEvents
  BY <1>0 DEF DiscoveryInv, CountersOk
<1>7. QED
  BY <1>0, <1>1, <1>3, <1>4, <1>5, <1>6, ItemAndCall

LEMMA PickOk ==
  ASSUME DiscoveryInv, NEW f \in Callers, Pick(f)
  PROVE  DiscoveryInv'
<1>0. /\ fetch[f] \in FetchRecs /\ CallOk(fetch[f])
      /\ RowsUnchanged /\ UNCHANGED <<breaker, raced, requests, failures>>
  BY DEF Pick, DiscoveryInv, FetchOk
<1>1. ASSUME NEW d \in fetch[f].queue,
             fetch' = [fetch EXCEPT
               ![f].pc = "score", ![f].row = d, ![f].queue = @ \ {d},
               ![f].known = IF Backfilling(f) THEN @ ELSE [@ EXCEPT ![d] = item[d].cluster]]
      PROVE  FeedOk' /\ ClusterOk' /\ ItemOk' /\ FetchOk'
  <2> DEFINE known == IF Backfilling(f) THEN fetch[f].known
                      ELSE [fetch[f].known EXCEPT ![d] = item[d].cluster]
             call == [fetch[f] EXCEPT !.pc = "score", !.row = d, !.queue = @ \ {d},
                                      !.known = known]
  <2>1. d \in Entries
    BY <1>0 DEF FetchRecs
  <2>2. known \in [Entries -> Clusters \cup {None}]
    BY <1>0, <2>1 DEF FetchRecs, DiscoveryInv, ItemOk, ItemRows
  <2>3. fetch' = [fetch EXCEPT ![f] = call]
    BY <1>1
  <2> HIDE DEF known
  <2>4. call \in FetchRecs /\ call.pc = "score" /\ call.row = d /\ call.join = fetch[f].join
    BY <1>0, <2>1, <2>2 DEF FetchRecs, Steps
  <2> HIDE DEF call
  <2>5. CallOk(call)
    BY <1>0, <2>1, <2>4 DEF CallOk, Storing
  <2>6. QED
    BY <1>0, <2>3, <2>4, <2>5, OnlyCall
<1>2. ASSUME fetch' = [fetch EXCEPT ![f] = Idle]
      PROVE  FeedOk' /\ ClusterOk' /\ ItemOk' /\ FetchOk'
  BY <1>0, <1>2, ReturnedOk, NullRows, OnlyCall
<1>3. QED
  BY <1>0, <1>1, <1>2 DEF Pick, DiscoveryInv, BreakerOk, CountersOk

LEMMA AssignOk ==
  ASSUME DiscoveryInv, NEW f \in Callers, Assign(f)
  PROVE  DiscoveryInv'
<1>0. /\ fetch[f] \in FetchRecs /\ CallOk(fetch[f])
      /\ fetch[f].pc = "assign" /\ fetch[f].row \in Entries
      /\ RowsUnchanged /\ UNCHANGED <<breaker, raced, requests, failures>>
  BY DEF Assign, DiscoveryInv, FetchOk, CallOk, Scoring
<1>1. ASSUME Goto(f, "cluster")
      PROVE  FeedOk' /\ ClusterOk' /\ ItemOk' /\ FetchOk'
  <2>1. [fetch[f] EXCEPT !.pc = "cluster"] \in FetchRecs
        /\ CallOk([fetch[f] EXCEPT !.pc = "cluster"])
    BY <1>0, CallGoes DEF Steps, Storing
  <2>2. fetch' = [fetch EXCEPT ![f] = [fetch[f] EXCEPT !.pc = "cluster"]]
    BY <1>1 DEF Goto
  <2>3. QED
    BY <1>0, <2>1, <2>2, OnlyCall
<1>2. ASSUME NEW c \in SimilarClusters(fetch[f].row),
             fetch' = [fetch EXCEPT ![f].pc = "link", ![f].join = c]
      PROVE  FeedOk' /\ ClusterOk' /\ ItemOk' /\ FetchOk'
  <2> DEFINE call == [fetch[f] EXCEPT !.pc = "link", !.join = c]
  <2>1. c \in Clusters /\ c \in Existing
    BY DEF SimilarClusters, Existing, Joinable
  <2>2. call \in FetchRecs /\ call.pc = "link" /\ call.join = c /\ call.row = fetch[f].row
    BY <1>0, <2>1 DEF FetchRecs, Steps
  <2>3. fetch' = [fetch EXCEPT ![f] = call]
    BY <1>2
  <2> HIDE DEF call
  <2>4. CallOk(call)
    BY <1>0, <2>1, <2>2 DEF CallOk, Storing
  <2>5. QED
    BY <1>0, <2>2, <2>3, <2>4, OnlyCall
<1>3. QED
  BY <1>0, <1>1, <1>2 DEF Assign, DiscoveryInv, BreakerOk, CountersOk

\* A step of a call that writes a cluster and moves on.
LEMMA ClusterAndCall ==
  ASSUME DiscoveryInv, NEW f \in Callers, NEW call \in FetchRecs, CallOk(call)',
         NEW c, NEW row \in ClusterRows, row.status # "none",
         cluster' = [cluster EXCEPT ![c] = row], fetch' = [fetch EXCEPT ![f] = call],
         UNCHANGED <<feed, etag, breaker, item, raced, requests, failures>>
  PROVE  DiscoveryInv'
<1> USE DEF DiscoveryInv
<1>1. ClusterOk' /\ Grows
  BY ClusterChanges
<1>2. ItemOk' /\ FetchOk'
  BY <1>1, ItemStays, FetchChanges
<1>3. QED
  BY <1>1, <1>2 DEF FeedOk, BreakerOk, CountersOk

LEMMA BumpClusterOk ==
  ASSUME DiscoveryInv, NEW f \in Callers, BumpCluster(f)
  PROVE  DiscoveryInv'
<1>0. /\ fetch[f] \in FetchRecs /\ CallOk(fetch[f])
      /\ fetch[f].pc = "bump" /\ fetch[f].src \in Sources /\ fetch[f].row \in Entries
      /\ fetch[f].join \in Clusters
      /\ UNCHANGED <<feed, etag, breaker, item, raced, requests, failures>>
  BY DEF BumpCluster, DiscoveryInv, FetchOk, CallOk, Storing
<1> DEFINE c == fetch[f].join
           status == IF cluster[c].status \in {"selected", "covered"} THEN "updated"
                     ELSE "developing"
           row == [cluster[c] EXCEPT !.status = status]
           call == [fetch[f] EXCEPT !.pc = "dedup", !.entry = None, !.row = None,
                                    !.join = None, !.queue = @ \cup {fetch[f].row}]
<1>1. cluster' = [cluster EXCEPT ![c] = row] /\ fetch' = [fetch EXCEPT ![f] = call]
  BY DEF BumpCluster, NextEntry
<1>2. status \in ClusterStatus /\ status # "none"
  BY DEF ClusterStatus
<1> HIDE DEF status
<1>3. row \in ClusterRows /\ row.status # "none"
  BY <1>0, <1>2 DEF DiscoveryInv, ClusterOk, ClusterRows
<1>4. PICK next \in FetchRecs : CallOk(next) /\ next = call
  BY <1>0, NextEntryOk
<1> HIDE DEF row, call
<1>5. CallOk(next)'
  BY <1>1, <1>3, <1>4, ClusterChanges DEF DiscoveryInv, CallOk, Grows
<1>6. QED
  BY <1>0, <1>1, <1>3, <1>4, <1>5, ClusterAndCall

LEMMA CreateClusterOk ==
  ASSUME DiscoveryInv, NEW f \in Callers, CreateCluster(f)
  PROVE  DiscoveryInv'
<1>0. /\ fetch[f] \in FetchRecs /\ CallOk(fetch[f])
      /\ fetch[f].pc = "cluster" /\ fetch[f].row \in Entries
      /\ UNCHANGED <<feed, etag, breaker, item, raced, requests, failures>>
  BY DEF CreateCluster, DiscoveryInv, FetchOk, CallOk, Scoring
<1> DEFINE c == CHOOSE c \in FreeClusters : TRUE
           row == [status |-> "open", story |-> StoryOf[fetch[f].row]]
           call == [fetch[f] EXCEPT !.pc = "link", !.join = c]
<1>1. cluster' = [cluster EXCEPT ![c] = row] /\ fetch' = [fetch EXCEPT ![f] = call]
      /\ FreeClusters # {}
  BY DEF CreateCluster
<1>2. c \in Clusters
  BY <1>1 DEF FreeClusters
<1> HIDE DEF c
<1>3. row \in ClusterRows /\ row.status # "none"
  BY <1>0 DEF ClusterRows, ClusterStatus, Stories
<1>4. call \in FetchRecs /\ call.pc = "link" /\ call.join = c /\ call.row = fetch[f].row
  BY <1>0, <1>2 DEF FetchRecs, Steps
<1> HIDE DEF row, call
<1>5. PICK next \in FetchRecs : next = call
  BY <1>4
<1>6. PICK made \in Clusters : made = c
  BY <1>2
<1>7. made \in Existing'
  BY <1>1, <1>3, <1>6 DEF DiscoveryInv, ClusterOk, Existing
<1>8. CallOk(next)'
  BY <1>0, <1>4, <1>5, <1>6, <1>7 DEF CallOk, Storing
<1>9. QED
  BY <1>0, <1>1, <1>3, <1>5, <1>8, ClusterAndCall

LEMMA StampSourceOk ==
  ASSUME DiscoveryInv, NEW f \in Callers, StampSource(f)
  PROVE  DiscoveryInv'
<1>0. /\ fetch[f] \in FetchRecs /\ CallOk(fetch[f])
      /\ UNCHANGED <<feed, breaker, item, cluster, raced, requests, failures>>
  BY DEF StampSource, DiscoveryInv, FetchOk
<1> DEFINE call == [fetch[f] EXCEPT !.pc = "pick", !.version = NothingRead]
<1>1. call \in FetchRecs /\ call.pc = "pick" /\ call.join = fetch[f].join
  BY <1>0, NothingReads DEF FetchRecs, Steps
<1>2. fetch' = [fetch EXCEPT ![f] = call]
  BY DEF StampSource
<1> HIDE DEF call
<1>3. PICK next \in FetchRecs : next = call
  BY <1>1
<1>4. ClusterOk' /\ Grows
  BY <1>0, ClusterStays DEF DiscoveryInv
<1>5. CallOk(next)'
  BY <1>0, <1>1, <1>3, <1>4 DEF CallOk, Grows, Storing, Scoring
<1>6. FetchOk' /\ ItemOk'
  BY <1>0, <1>2, <1>3, <1>4, <1>5, FetchChanges, ItemStays DEF DiscoveryInv
<1>7. FeedOk'
  BY <1>0 DEF StampSource, DiscoveryInv, FeedOk, FetchRecs
<1>8. QED
  BY <1>0, <1>4, <1>6, <1>7 DEF DiscoveryInv, BreakerOk, CountersOk

\* A fetch that has named its source goes to its handler of failures.
LEMMA FailedOk ==
  ASSUME DiscoveryInv, NEW f \in Callers, fetch[f].src \in Sources, Goto(f, "failed"),
         RowsUnchanged
  PROVE  FeedOk' /\ ClusterOk' /\ ItemOk' /\ FetchOk'
<1>1. [fetch[f] EXCEPT !.pc = "failed"] \in FetchRecs
      /\ CallOk([fetch[f] EXCEPT !.pc = "failed"])
  BY CallGoes DEF Steps, Scoring
<1>2. fetch' = [fetch EXCEPT ![f] = [fetch[f] EXCEPT !.pc = "failed"]]
  BY DEF Goto
<1>3. QED
  BY <1>1, <1>2, OnlyCall

LEMMA RecordOk ==
  ASSUME DiscoveryInv, NEW f \in Callers, RecordSuccess(f) \/ RecordFailure(f)
  PROVE  DiscoveryInv'
<1>0. /\ fetch[f] \in FetchRecs /\ CallOk(fetch[f])
      /\ RowsUnchanged /\ UNCHANGED <<raced, requests>>
      /\ Return(f) \/ Goto(f, "failed")
      /\ failures' \in 0..MaxEvents
  BY Counted DEF RecordSuccess, RecordFailure, DiscoveryInv, FetchOk, CountersOk
<1>1. fetch[f].src \in Sources /\ ProcessOf(f) \in Processes
  BY <1>0 DEF RecordSuccess, RecordFailure, Backfilling, FetchRecs, CallOk, Storing,
              ProcessOf, Processes
<1>2. FeedOk' /\ ClusterOk' /\ ItemOk' /\ FetchOk'
  <2>1. CASE Return(f)
    BY <1>0, <2>1, ReturnedOk, OnlyCall DEF Return
  <2>2. CASE Goto(f, "failed")
    BY <1>0, <1>1, <2>2, FailedOk
  <2>3. QED
    BY <1>0, <2>1, <2>2
<1>3. Closed \in Breakers /\ \A b \in Breakers : Recorded(b) \in Breakers
  BY DiscoveryConstants DEF Closed, Breakers, Recorded
<1>4. BreakerOk'
  BY <1>1, <1>3 DEF RecordSuccess, RecordFailure, DiscoveryInv, BreakerOk
<1>5. QED
  BY <1>0, <1>2, <1>4 DEF DiscoveryInv, CountersOk

LEMMA StatementFailsOk ==
  ASSUME DiscoveryInv, NEW f \in Callers, StatementFails(f)
  PROVE  DiscoveryInv'
<1>0. /\ fetch[f] \in FetchRecs /\ CallOk(fetch[f])
      /\ RowsUnchanged /\ UNCHANGED <<breaker, raced, requests>>
      /\ failures' \in 0..MaxEvents
  BY Counted DEF StatementFails, DiscoveryInv, FetchOk
<1>1. ASSUME ~Backfilling(f), Goto(f, "failed")
      PROVE  FeedOk' /\ ClusterOk' /\ ItemOk' /\ FetchOk'
  BY <1>0, <1>1, FailedOk DEF Backfilling, FetchRecs
<1>2. ASSUME fetch' = [fetch EXCEPT ![f] = Idle]
      PROVE  FeedOk' /\ ClusterOk' /\ ItemOk' /\ FetchOk'
  BY <1>0, <1>2, ReturnedOk, NullRows, OnlyCall
<1>3. ASSUME NextRow(f)
      PROVE  FeedOk' /\ ClusterOk' /\ ItemOk' /\ FetchOk'
  <2>1. fetch' = [fetch EXCEPT ![f] =
                    [fetch[f] EXCEPT !.pc = "pick", !.row = None, !.join = None,
                                     !.known[fetch[f].row] = None]]
    BY <1>3 DEF NextRow
  <2>2. QED
    BY <1>0, <2>1, NextRowOk, OnlyCall
<1>4. ASSUME Return(f)
      PROVE  FeedOk' /\ ClusterOk' /\ ItemOk' /\ FetchOk'
  BY <1>0, <1>4, ReturnedOk, OnlyCall DEF Return
<1>5. QED
  BY <1>0, <1>1, <1>2, <1>3, <1>4
     DEF StatementFails, FetchThrows, DiscoveryInv, BreakerOk, CountersOk

-----------------------------------------------------------------------------
(* The search of the web *)

\* A search begins with pages that are there.
LEMMA FindsOk ==
  ASSUME DiscoveryInv, NEW f \in Callers, Finds(f), RowsUnchanged
  PROVE  FeedOk' /\ ClusterOk' /\ ItemOk' /\ FetchOk'
<1>1. PICK pages \in SUBSET Entries :
        fetch' = [fetch EXCEPT ![f] = [Idle EXCEPT !.pc = "next", !.found = pages]]
  BY DiscoveryConstants DEF Finds
<1> DEFINE call == [Idle EXCEPT !.pc = "next", !.found = pages]
<1>2. call \in FetchRecs
  BY NullRows DEF FetchRecs, Steps
<1>3. CallOk(call)
  BY DEF CallOk, Idle, Storing, Scoring
<1> HIDE DEF call
<1>4. QED
  BY <1>1, <1>2, <1>3, OnlyCall DEF call

LEMMA SearchesOk ==
  ASSUME DiscoveryInv, SearchStarts \/ \E f \in Searchers : OperatorSearches(f)
  PROVE  DiscoveryInv'
<1>1. Searchers \subseteq Callers /\ Searcher \in Searchers
  BY DEF Callers, Searchers
<1>2. ASSUME SearchStarts PROVE DiscoveryInv'
  <2>1. FeedOk' /\ ClusterOk' /\ ItemOk' /\ FetchOk'
    BY <1>1, <1>2, FindsOk DEF SearchStarts
  <2>2. QED
    BY <1>2, <2>1 DEF SearchStarts, DiscoveryInv, BreakerOk, CountersOk
<1>3. ASSUME NEW f \in Searchers, OperatorSearches(f) PROVE DiscoveryInv'
  <2>1. FeedOk' /\ ClusterOk' /\ ItemOk' /\ FetchOk'
    BY <1>1, <1>3, FindsOk DEF OperatorSearches
  <2>2. requests' \in 0..MaxEvents
    BY <1>3, Counted DEF OperatorSearches, DiscoveryInv
  <2>3. QED
    BY <1>3, <2>1, <2>2 DEF OperatorSearches, DiscoveryInv, BreakerOk, CountersOk
<1>4. QED
  BY <1>2, <1>3

LEMMA ScrapeOk ==
  ASSUME DiscoveryInv, NEW f \in Callers, Scrape(f)
  PROVE  DiscoveryInv'
<1>0. /\ fetch[f] \in FetchRecs /\ RowsUnchanged /\ UNCHANGED <<breaker, requests, failures>>
  BY DEF Scrape, DiscoveryInv, FetchOk
<1>1. ASSUME NEW e \in fetch[f].found,
             fetch' = [fetch EXCEPT ![f] =
               [Idle EXCEPT !.pc = "dedup", !.found = fetch[f].found \ {e},
                            !.src = SourceOf[e], !.version = Version(SourceOf[e]),
                            !.todo = {e}]],
             raced' = Raced(SourceOf[e])
      PROVE  DiscoveryInv'
  <2> DEFINE version == Version(SourceOf[e])
             call == [Idle EXCEPT !.pc = "dedup", !.found = fetch[f].found \ {e},
                                  !.src = SourceOf[e], !.version = version, !.todo = {e}]
  <2>1. e \in Entries /\ SourceOf[e] \in Sources /\ fetch[f].found \in SUBSET Entries
    BY <1>0, DiscoveryConstants DEF FetchRecs
  <2>2. version \in Reads
    BY VersionReads DEF DiscoveryInv
  <2>3. fetch' = [fetch EXCEPT ![f] = call]
    BY <1>1
  <2> HIDE DEF version
  <2>4. call \in FetchRecs /\ call.pc = "dedup" /\ call.src = SourceOf[e]
    BY <2>1, <2>2, NullRows DEF FetchRecs, Steps
  <2>5. call.join = None
    BY DEF Idle
  <2> HIDE DEF call
  <2>6. CallOk(call)
    BY <2>1, <2>4, <2>5 DEF CallOk, Scoring
  <2>7. FeedOk' /\ ClusterOk' /\ ItemOk' /\ FetchOk'
    BY <1>0, <2>3, <2>4, <2>6, OnlyCall
  <2>8. raced' \subseteq Sources
    BY <1>1, <2>1 DEF Raced, DiscoveryInv, CountersOk
  <2>9. QED
    BY <1>0, <2>7, <2>8 DEF DiscoveryInv, BreakerOk, CountersOk
<1>2. ASSUME fetch' = [fetch EXCEPT ![f] = Over(f)], UNCHANGED raced PROVE DiscoveryInv'
  <2>1. FeedOk' /\ ClusterOk' /\ ItemOk' /\ FetchOk'
    BY <1>0, <1>2, ReturnedOk, OnlyCall
  <2>2. QED
    BY <1>0, <1>2, <2>1 DEF DiscoveryInv, BreakerOk, CountersOk
<1>3. QED
  BY <1>1, <1>2 DEF Scrape

LEMMA PageStoredOk ==
  ASSUME DiscoveryInv, NEW f \in Callers, PageStored(f)
  PROVE  DiscoveryInv'
<1>0. RowsUnchanged /\ UNCHANGED <<breaker, raced, requests, failures>>
  BY DEF PageStored
<1>1. ASSUME Goto(f, "pick") PROVE FeedOk' /\ ClusterOk' /\ ItemOk' /\ FetchOk'
  <2>1. [fetch[f] EXCEPT !.pc = "pick"] \in FetchRecs
        /\ CallOk([fetch[f] EXCEPT !.pc = "pick"])
    BY CallGoes DEF Steps, Storing, Scoring
  <2>2. fetch' = [fetch EXCEPT ![f] = [fetch[f] EXCEPT !.pc = "pick"]]
    BY <1>1 DEF Goto
  <2>3. QED
    BY <1>0, <2>1, <2>2, OnlyCall
<1>2. ASSUME Return(f) PROVE FeedOk' /\ ClusterOk' /\ ItemOk' /\ FetchOk'
  BY <1>0, <1>2, ReturnedOk, OnlyCall DEF Return
<1>3. QED
  BY <1>0, <1>1, <1>2 DEF PageStored, DiscoveryInv, BreakerOk, CountersOk

-----------------------------------------------------------------------------
(* What is no call *)

LEMMA CrashOk ==
  ASSUME DiscoveryInv, NEW p \in Processes, Crash(p)
  PROVE  DiscoveryInv'
<1>0. RowsUnchanged /\ UNCHANGED <<raced, requests>> /\ failures' \in 0..MaxEvents
  BY Counted DEF Crash, DiscoveryInv
<1>1. ClusterOk' /\ Grows
  BY <1>0, ClusterStays DEF DiscoveryInv, RowsUnchanged
<1>2. FetchOk'
  <2>1. Idle \in FetchRecs /\ CallOk(Idle)'
    BY NullRows DEF CallOk, Idle, Storing, Scoring
  <2>2. \A f \in Callers : fetch'[f] \in {Idle, fetch[f]}
    BY DEF Crash
  <2>3. fetch' \in [Callers -> FetchRecs]
    BY <2>1 DEF Crash, DiscoveryInv, FetchOk
  <2>4. \A f \in Callers : CallOk(fetch[f])'
    BY <1>1, <2>1, <2>2 DEF DiscoveryInv, FetchOk, CallOk, Grows
  <2>5. QED
    BY <2>3, <2>4 DEF FetchOk
<1>3. BreakerOk'
  BY DiscoveryConstants DEF Crash, DiscoveryInv, BreakerOk, Breakers, Closed
<1>4. ItemOk' /\ FeedOk'
  BY <1>0, <1>1, ItemStays DEF DiscoveryInv, FeedOk, RowsUnchanged
<1>5. QED
  BY <1>0, <1>1, <1>2, <1>3, <1>4 DEF DiscoveryInv, CountersOk

LEMMA WorldOk ==
  ASSUME DiscoveryInv,
         \/ \E p \in Processes, s \in Sources : CooldownEnds(p, s)
         \/ \E e \in Entries : Publish(e) \/ \E v \in ItemVerdicts : SetItemStatus(e, v)
         \/ \E c \in Clusters, v \in ClusterVerdicts : SetClusterStatus(c, v)
  PROVE  DiscoveryInv'
<1>1. ASSUME NEW p \in Processes, NEW s \in Sources, CooldownEnds(p, s) PROVE DiscoveryInv'
  <2>1. BreakerOk'
    <3>1. breaker[p][s] \in Breakers /\ breaker[p] \in [Sources -> Breakers]
      BY DEF DiscoveryInv, BreakerOk
    <3>2. PICK b \in Breakers : b = [breaker[p][s] EXCEPT !.state = "half_open"]
      BY <3>1 DEF Breakers
    <3>3. breaker' = [breaker EXCEPT ![p] = [breaker[p] EXCEPT ![s] = b]]
      BY <1>1, <3>2 DEF CooldownEnds
    <3>4. QED
      BY <3>1, <3>2, <3>3 DEF DiscoveryInv, BreakerOk
  <2>2. ClusterOk' /\ Grows
    BY <1>1, ClusterStays DEF CooldownEnds, DiscoveryInv
  <2>3. ItemOk' /\ FetchOk'
    BY <1>1, <2>2, ItemStays, FetchStays DEF CooldownEnds, DiscoveryInv
  <2>4. QED
    BY <1>1, <2>1, <2>2, <2>3 DEF CooldownEnds, DiscoveryInv, FeedOk, CountersOk
<1>2. ASSUME NEW e \in Entries, Publish(e) PROVE DiscoveryInv'
  <2>1. feed' \in Reads
    <3>1. /\ feed \in [Entries -> Nat] /\ \A d \in Entries : feed[d] <= LastRevision[d]
          /\ LastRevision[e] \in Nat
          /\ feed[e] < LastRevision[e] /\ feed' = [feed EXCEPT ![e] = feed[e] + 1]
      BY <1>2, DiscoveryConstants DEF Publish, DiscoveryInv, FeedOk, Reads
    <3>2. feed' \in [Entries -> Nat] /\ feed[e] + 1 <= LastRevision[e]
      BY <3>1
    <3>3. QED
      BY <3>1, <3>2 DEF Reads
  <2>2. ClusterOk' /\ Grows
    BY <1>2, ClusterStays DEF Publish, DiscoveryInv
  <2>3. ItemOk' /\ FetchOk'
    BY <1>2, <2>2, ItemStays, FetchStays DEF Publish, DiscoveryInv
  <2>4. QED
    BY <1>2, <2>1, <2>2, <2>3 DEF Publish, DiscoveryInv, FeedOk, BreakerOk, CountersOk
<1>3. ASSUME NEW e \in Entries, NEW v \in ItemVerdicts, SetItemStatus(e, v) PROVE DiscoveryInv'
  <2>1. ClusterOk' /\ Grows
    BY <1>3, ClusterStays DEF SetItemStatus, DiscoveryInv
  <2>2. PICK row \in ItemRows : row = [item[e] EXCEPT !.status = v]
    <3>1. v \in ItemStatus /\ item[e] \in ItemRows
      BY DiscoveryConstants DEF DiscoveryInv, ItemOk
    <3>2. QED
      BY <3>1, StatusChanges
  <2>3. row.cluster \in Existing'\cup {None}
    BY <2>1, <2>2 DEF DiscoveryInv, ItemOk, ItemRows, Grows
  <2>4. item' = [item EXCEPT ![e] = row]
    BY <1>3, <2>2 DEF SetItemStatus
  <2>5. ItemOk' /\ FetchOk'
    BY <1>3, <2>1, <2>3, <2>4, ItemChanges, FetchStays DEF SetItemStatus, DiscoveryInv
  <2>6. requests' \in 0..MaxEvents
    BY <1>3, Counted DEF SetItemStatus, DiscoveryInv
  <2>7. QED
    BY <1>3, <2>1, <2>5, <2>6 DEF SetItemStatus, DiscoveryInv, FeedOk, BreakerOk, CountersOk
<1>4. ASSUME NEW c \in Clusters, NEW v \in ClusterVerdicts, SetClusterStatus(c, v)
      PROVE  DiscoveryInv'
  <2>1. v \in ClusterStatus /\ v # "none"
    BY DiscoveryConstants
  <2>2. PICK row \in ClusterRows : row = [cluster[c] EXCEPT !.status = v] /\ row.status = v
    <3>1. cluster[c] \in ClusterRows
      BY DEF DiscoveryInv, ClusterOk
    <3>2. QED
      BY <2>1, <3>1, StatusChanges
  <2>3. ClusterOk' /\ Grows
    BY <1>4, <2>1, <2>2, ClusterChanges DEF SetClusterStatus, DiscoveryInv
  <2>4. ItemOk' /\ FetchOk'
    BY <1>4, <2>3, ItemStays, FetchStays DEF SetClusterStatus, DiscoveryInv
  <2>5. requests' \in 0..MaxEvents
    BY <1>4, Counted DEF SetClusterStatus, DiscoveryInv
  <2>6. QED
    BY <1>4, <2>3, <2>4, <2>5 DEF SetClusterStatus, DiscoveryInv, FeedOk, BreakerOk, CountersOk
<1>5. QED
  BY <1>1, <1>2, <1>3, <1>4

LEMMA StepOk ==
  ASSUME DiscoveryInv, NEW f \in Callers, Step(f)
  PROVE  DiscoveryInv'
  BY DiscoverOk, DedupOk, CreateItemOk, RereadItemOk, UpdateItemOk, BumpClusterOk,
     StampSourceOk, ScrapeOk, PageStoredOk, PickOk, ScoreItemOk, AssignOk, CreateClusterOk,
     LinkItemOk, PromoteItemOk, RecordOk DEF Step

LEMMA DiscoveryNext == DiscoveryInv /\ [Next]_vars => DiscoveryInv'
<1> SUFFICES ASSUME DiscoveryInv, [Next]_vars PROVE DiscoveryInv'
  OBVIOUS
<1>1. CASE Next
  <2>1. Worker \in Callers /\ Calls \subseteq Callers /\ Searchers \subseteq Callers
        /\ Requested \subseteq Sources
    BY DiscoveryConstants DEF Callers
  <2>2. QED
    BY <1>1, <2>1, TickOk, StepOk, OperatorFetchesOk, SearchesOk, StatementFailsOk, CrashOk,
       WorldOk DEF Next, Tick
<1>2. CASE UNCHANGED vars
  <2>1. ClusterOk' /\ Grows
    BY <1>2, ClusterStays DEF vars, DiscoveryInv
  <2>2. ItemOk' /\ FetchOk'
    BY <1>2, <2>1, ItemStays, FetchStays DEF vars, DiscoveryInv
  <2>3. QED
    BY <1>2, <2>1, <2>2 DEF vars, DiscoveryInv, FeedOk, BreakerOk, CountersOk
<1>3. QED
  BY <1>1, <1>2

\* Rows, breakers and calls of discovery keep their types, whoever fetches and
\* whatever dies between two statements: a call never files an item under a
\* cluster that does not exist.
THEOREM DiscoveryTypeCorrect == Spec => []TypeOK
<1>1. Init => DiscoveryInv
  BY DiscoveryInit
<1>2. DiscoveryInv /\ [Next]_vars => DiscoveryInv'
  BY DiscoveryNext
<1>3. DiscoveryInv => TypeOK
  BY InvTypes
<1>4. QED
  BY <1>1, <1>2, <1>3, PTL DEF Spec

-----------------------------------------------------------------------------
(* How many clusters a story has *)

LEMMA Within ==
  ASSUME NEW S, NEW T, IsFiniteSet(T), S \subseteq T
  PROVE  /\ IsFiniteSet(S) /\ Cardinality(S) <= Cardinality(T)
         /\ Cardinality(S) \in Nat /\ Cardinality(T) \in Nat
  BY FS_Subset, FS_CardinalityType

LEMMA OneMore ==
  ASSUME NEW S, NEW T, NEW x, IsFiniteSet(T), S \subseteq T \cup {x}
  PROVE  /\ IsFiniteSet(S) /\ Cardinality(S) <= Cardinality(T) + 1
         /\ Cardinality(S) \in Nat /\ Cardinality(T) \in Nat
<1>0. Cardinality(T) \in Nat
  BY FS_CardinalityType
<1>1. IsFiniteSet(T \cup {x}) /\ Cardinality(T \cup {x}) <= Cardinality(T) + 1
  <2>1. IsFiniteSet(T \cup {x})
    BY FS_AddElement
  <2>2. Cardinality(T \cup {x}) = IF x \in T THEN Cardinality(T) ELSE Cardinality(T) + 1
    BY FS_AddElement
  <2>3. QED
    BY <1>0, <2>1, <2>2
<1>2. QED
  BY <1>1, Within, FS_CardinalityType

LEMMA OneLess ==
  ASSUME NEW S, NEW T, NEW x \in T, IsFiniteSet(T), S \subseteq T \ {x}
  PROVE  /\ IsFiniteSet(S) /\ Cardinality(S) + 1 <= Cardinality(T)
         /\ Cardinality(S) \in Nat /\ Cardinality(T) \in Nat
<1>1. IsFiniteSet(T \ {x}) /\ Cardinality(T \ {x}) = Cardinality(T) - 1
  BY FS_RemoveElement
<1>2. Cardinality(S) <= Cardinality(T \ {x}) /\ IsFiniteSet(S)
  BY <1>1, Within
<1>3. Cardinality(S) \in Nat /\ Cardinality(T) \in Nat
  BY <1>2, FS_CardinalityType
<1>4. QED
  BY <1>1, <1>2, <1>3

\* Clusters that an operator has closed, and calls and searches that an operator
\* has made: each was a request.
ShutClusters == {c \in Clusters : cluster[c].status \notin Joinable \cup {"none"}}

CallsMade == {f \in Calls \cup Searches : fetch[f].pc # "idle"}

RequestsPaid == /\ IsFiniteSet(ShutClusters) /\ IsFiniteSet(CallsMade)
                /\ Cardinality(ShutClusters) + Cardinality(CallsMade) <= requests

\* The clusters of a story, and the calls that found none to join and are about
\* to make one.
OfStory(s) == {c \in Clusters : cluster[c].status # "none" /\ cluster[c].story = s}

Creating(s) == {f \in Callers : fetch[f].pc = "cluster" /\ StoryOf[fetch[f].row] = s}

ClustersPaid == \A s \in Stories :
  /\ IsFiniteSet(OfStory(s)) /\ IsFiniteSet(Creating(s))
  /\ Cardinality(OfStory(s)) + Cardinality(Creating(s)) <= 2 + requests

CountInv == RequestsPaid /\ ClustersPaid

NoCallMade == CallsMade' \subseteq CallsMade

NoneCreating == \A s \in Stories : Creating(s)' \subseteq Creating(s)

NoneShut == ShutClusters' \subseteq ShutClusters

NoneOfStory == \A s \in Stories : OfStory(s)' \subseteq OfStory(s)

LEMMA NoneGrow ==
  ASSUME CountInv, requests \in Nat, requests' \in Nat, requests <= requests',
         NoCallMade, NoneCreating, NoneShut, NoneOfStory
  PROVE  CountInv'
<1>1. RequestsPaid'
  <2>1. /\ IsFiniteSet(ShutClusters') /\ Cardinality(ShutClusters') <= Cardinality(ShutClusters)
        /\ Cardinality(ShutClusters') \in Nat /\ Cardinality(ShutClusters) \in Nat
    BY Within DEF CountInv, RequestsPaid, NoneShut
  <2>2. /\ IsFiniteSet(CallsMade') /\ Cardinality(CallsMade') <= Cardinality(CallsMade)
        /\ Cardinality(CallsMade') \in Nat /\ Cardinality(CallsMade) \in Nat
    BY Within DEF CountInv, RequestsPaid, NoCallMade
  <2>3. QED
    BY <2>1, <2>2 DEF CountInv, RequestsPaid
<1>2. ASSUME NEW s \in Stories
      PROVE  /\ IsFiniteSet(OfStory(s)') /\ IsFiniteSet(Creating(s)')
             /\ Cardinality(OfStory(s)') + Cardinality(Creating(s)') <= 2 + requests'
  <2>1. /\ IsFiniteSet(OfStory(s)') /\ Cardinality(OfStory(s)') <= Cardinality(OfStory(s))
        /\ Cardinality(OfStory(s)') \in Nat /\ Cardinality(OfStory(s)) \in Nat
    BY Within DEF CountInv, ClustersPaid, NoneOfStory
  <2>2. /\ IsFiniteSet(Creating(s)') /\ Cardinality(Creating(s)') <= Cardinality(Creating(s))
        /\ Cardinality(Creating(s)') \in Nat /\ Cardinality(Creating(s)) \in Nat
    BY Within DEF CountInv, ClustersPaid, NoneCreating
  <2>3. QED
    BY <2>1, <2>2 DEF CountInv, ClustersPaid
<1>3. QED
  BY <1>1, <1>2 DEF CountInv, ClustersPaid

\* The steps of calls that leave nobody about to make a cluster who was not.
Quietly == \A g \in Callers :
  fetch'[g] # fetch[g] => /\ fetch'[g].pc # "cluster"
                          /\ g \in Calls \cup Searches => fetch[g].pc # "idle"

LEMMA QuietCalls ==
  ASSUME Quietly
  PROVE  NoCallMade /\ NoneCreating
<1>1. Calls \cup Searches \subseteq Callers
  BY DEF Callers, Searchers
<1>2. NoCallMade
  BY <1>1 DEF Quietly, NoCallMade, CallsMade
<1>3. NoneCreating
  BY DEF Quietly, NoneCreating, Creating
<1>4. QED
  BY <1>2, <1>3

LEMMA SameClusters ==
  ASSUME UNCHANGED cluster
  PROVE  NoneShut /\ NoneOfStory
  BY DEF NoneShut, NoneOfStory, ShutClusters, OfStory

LEMMA CountersNat == ASSUME DiscoveryInv PROVE requests \in Nat
  BY DiscoveryConstants DEF DiscoveryInv, CountersOk

LEMMA QuietStep ==
  ASSUME DiscoveryInv, CountInv, Quietly, UNCHANGED cluster, requests' \in Nat, requests <= requests'
  PROVE  CountInv'
  BY QuietCalls, SameClusters, CountersNat, NoneGrow

LEMMA OneCallQuiet ==
  ASSUME DiscoveryInv, NEW f \in Callers, NEW call,
         fetch' = [fetch EXCEPT ![f] = call],
         call.pc # "cluster", f \in Calls \cup Searches => fetch[f].pc # "idle"
  PROVE  Quietly
  BY DEF DiscoveryInv, FetchOk, Quietly

LEMMA TickCounts ==
  ASSUME DiscoveryInv, CountInv, TickStarts \/ NextSource \/ Backfill
  PROVE  CountInv'
<1>1. Worker \in Callers /\ Worker \notin Calls \cup Searches /\ fetch[Worker] \in FetchRecs
  BY DiscoveryConstants DEF Callers, DiscoveryInv, FetchOk
<1>2. UNCHANGED <<cluster, requests>>
  BY DEF TickStarts, NextSource, Backfill, Starts, RowsUnchanged
<1>3. \E call : fetch' = [fetch EXCEPT ![Worker] = call] /\ call.pc # "cluster"
  <2>1. ASSUME TickStarts
        PROVE  \E call : fetch' = [fetch EXCEPT ![Worker] = call] /\ call.pc # "cluster"
    <3> DEFINE call == [fetch[Worker] EXCEPT !.pc = "next",
                          !.left = {s \in Sources : CanAttempt("worker", s)}]
    <3>1. fetch' = [fetch EXCEPT ![Worker] = call] /\ call.pc = "next"
      BY <1>1, <2>1 DEF TickStarts, FetchRecs
    <3>2. QED
      BY <3>1
  <2>2. ASSUME Backfill
        PROVE  \E call : fetch' = [fetch EXCEPT ![Worker] = call] /\ call.pc # "cluster"
    <3> DEFINE known == [e \in Entries |-> IF e \in Unscored THEN item[e].cluster ELSE None]
               pc == IF Unscored = {} THEN "idle" ELSE "pick"
               call == [Idle EXCEPT !.pc = pc, !.queue = Unscored, !.known = known]
    <3>1. pc # "cluster" /\ fetch' = [fetch EXCEPT ![Worker] = call]
      BY <2>2 DEF Backfill
    <3> HIDE DEF known, pc
    <3>2. call.pc = pc
      BY DEF Idle
    <3>3. QED
      BY <3>1, <3>2
  <2>3. ASSUME NextSource
        PROVE  \E call : fetch' = [fetch EXCEPT ![Worker] = call] /\ call.pc # "cluster"
    <3>1. fetch[Worker].pc = "next"
      BY <2>3 DEF NextSource
    <3>2. PICK s \in fetch[Worker].left :
            LET call == [fetch[Worker] EXCEPT !.left = @ \ {s}] IN
            \/ fetch' = [fetch EXCEPT ![Worker] =
                           [call EXCEPT !.pc = "discover", !.src = s, !.version = etag[s]]]
            \/ fetch' = [fetch EXCEPT ![Worker] = call]
      BY <2>3 DEF NextSource, Starts
    <3> DEFINE call == [fetch[Worker] EXCEPT !.left = @ \ {s}]
               started == [call EXCEPT !.pc = "discover", !.src = s, !.version = etag[s]]
    <3>3. call.pc = "next" /\ started.pc = "discover"
      BY <1>1, <3>1 DEF FetchRecs
    <3>4. fetch' = [fetch EXCEPT ![Worker] = started] \/ fetch' = [fetch EXCEPT ![Worker] = call]
      BY <3>2
    <3> HIDE DEF call, started
    <3>5. QED
      BY <3>3, <3>4
  <2>4. QED
    BY <2>1, <2>2, <2>3
<1>4. Quietly
  BY <1>1, <1>3, OneCallQuiet
<1>5. QED
  BY <1>2, <1>4, QuietStep, CountersNat

\* An operator asks for a fetch or for a search.
LEMMA RequestCounts ==
  ASSUME DiscoveryInv, CountInv, NEW f \in Callers, NEW call, call.pc # "cluster",
         fetch' = [fetch EXCEPT ![f] = call], requests' = requests + 1, UNCHANGED cluster
  PROVE  CountInv'
<1>0. requests \in Nat
  BY CountersNat
<1>1. requests' = requests + 1 /\ UNCHANGED cluster
  OBVIOUS
<1>2. \A g \in Callers : g # f => fetch'[g] = fetch[g]
  BY DEF DiscoveryInv, FetchOk
<1>3. fetch'[f].pc # "cluster"
  BY DEF DiscoveryInv, FetchOk
<1>4. CallsMade' \subseteq CallsMade \cup {f}
  BY <1>2 DEF CallsMade, Callers, Searchers
<1>5. NoneCreating /\ NoneShut /\ NoneOfStory
  BY <1>1, <1>2, <1>3, SameClusters DEF NoneCreating, Creating
<1>6. RequestsPaid'
  <2>1. /\ IsFiniteSet(CallsMade') /\ Cardinality(CallsMade') <= Cardinality(CallsMade) + 1
        /\ Cardinality(CallsMade') \in Nat /\ Cardinality(CallsMade) \in Nat
    BY <1>4, OneMore DEF CountInv, RequestsPaid
  <2>2. /\ IsFiniteSet(ShutClusters') /\ Cardinality(ShutClusters') <= Cardinality(ShutClusters)
        /\ Cardinality(ShutClusters') \in Nat /\ Cardinality(ShutClusters) \in Nat
    BY <1>5, Within DEF CountInv, RequestsPaid, NoneShut
  <2>3. QED
    BY <1>0, <1>1, <2>1, <2>2 DEF CountInv, RequestsPaid
<1>7. ClustersPaid'
  <2> SUFFICES ASSUME NEW t \in Stories
               PROVE  /\ IsFiniteSet(OfStory(t)') /\ IsFiniteSet(Creating(t)')
                      /\ Cardinality(OfStory(t)') + Cardinality(Creating(t)') <= 2 + requests'
    BY DEF ClustersPaid
  <2>1. /\ IsFiniteSet(OfStory(t)') /\ Cardinality(OfStory(t)') <= Cardinality(OfStory(t))
        /\ Cardinality(OfStory(t)') \in Nat /\ Cardinality(OfStory(t)) \in Nat
    BY <1>5, Within DEF CountInv, ClustersPaid, NoneOfStory
  <2>2. /\ IsFiniteSet(Creating(t)') /\ Cardinality(Creating(t)') <= Cardinality(Creating(t))
        /\ Cardinality(Creating(t)') \in Nat /\ Cardinality(Creating(t)) \in Nat
    BY <1>5, Within DEF CountInv, ClustersPaid, NoneCreating
  <2>3. QED
    BY <1>0, <1>1, <2>1, <2>2 DEF CountInv, ClustersPaid
<1>8. QED
  BY <1>6, <1>7 DEF CountInv

LEMMA OperatorCounts ==
  ASSUME DiscoveryInv, CountInv, NEW f, NEW s \in Sources, OperatorFetches(f, s)
  PROVE  CountInv'
<1>1. f \in Callers /\ fetch[f] \in FetchRecs
  BY DEF OperatorFetches, Callers, DiscoveryInv, FetchOk
<1> DEFINE call == [fetch[f] EXCEPT !.pc = "discover", !.src = s, !.version = etag[s]]
<1>2. call.pc = "discover"
  BY <1>1 DEF FetchRecs
<1>3. fetch' = [fetch EXCEPT ![f] = call] /\ requests' = requests + 1 /\ UNCHANGED cluster
  BY DEF OperatorFetches, Asks, Starts, RowsUnchanged
<1> HIDE DEF call
<1>4. QED
  BY <1>1, <1>2, <1>3, RequestCounts

LEMMA SearchCounts ==
  ASSUME DiscoveryInv, CountInv, SearchStarts \/ \E f \in Searchers : OperatorSearches(f)
  PROVE  CountInv'
<1>1. Searchers \subseteq Callers /\ Searcher \in Callers /\ Searcher \notin Calls \cup Searches
  BY DiscoveryConstants DEF Callers, Searchers
<1>2. ASSUME NEW f, Finds(f)
      PROVE  \E call : call.pc # "cluster" /\ fetch' = [fetch EXCEPT ![f] = call]
  <2>1. PICK pages : fetch' = [fetch EXCEPT ![f] = [Idle EXCEPT !.pc = "next", !.found = pages]]
    BY <1>2 DEF Finds
  <2>2. [Idle EXCEPT !.pc = "next", !.found = pages].pc = "next"
    BY DEF Idle
  <2>3. QED
    BY <2>1, <2>2
<1>3. ASSUME SearchStarts PROVE CountInv'
  <2>1. Quietly
    BY <1>1, <1>2, <1>3, OneCallQuiet DEF SearchStarts
  <2>2. UNCHANGED <<cluster, requests>>
    BY <1>3 DEF SearchStarts, RowsUnchanged
  <2>3. QED
    BY <2>1, <2>2, QuietStep, CountersNat
<1>4. ASSUME NEW f \in Searchers, OperatorSearches(f) PROVE CountInv'
  <2>1. requests' = requests + 1 /\ UNCHANGED cluster
    BY <1>4 DEF OperatorSearches, Asks, RowsUnchanged
  <2>2. QED
    BY <1>1, <1>2, <1>4, <2>1, RequestCounts DEF OperatorSearches
<1>5. QED
  BY <1>3, <1>4

\* Whoever finds no cluster to join makes one: those the story has were closed
\* by requests, and the others that are about to make one are calls and searches
\* of operators, but for the tick of the worker and its own search.
LEMMA AssignCounts ==
  ASSUME DiscoveryInv, CountInv, NEW f \in Callers, Assign(f)
  PROVE  CountInv'
<1>0. /\ fetch[f] \in FetchRecs /\ requests \in Nat /\ fetch[f].pc = "assign"
      /\ UNCHANGED <<cluster, requests>> /\ fetch \in [Callers -> FetchRecs]
  BY CountersNat DEF Assign, RowsUnchanged, DiscoveryInv, FetchOk
<1>1. ASSUME NEW c, fetch' = [fetch EXCEPT ![f].pc = "link", ![f].join = c] PROVE CountInv'
  <2>1. Quietly
    BY <1>0, <1>1 DEF Quietly, FetchRecs
  <2>2. QED
    BY <1>0, <2>1, QuietStep
<1>2. ASSUME SimilarClusters(fetch[f].row) = {}, Goto(f, "cluster") PROVE CountInv'
  <2> DEFINE s == StoryOf[fetch[f].row]
  <2>1. /\ \A g \in Callers : g # f => fetch'[g] = fetch[g]
        /\ fetch'[f].row = fetch[f].row /\ fetch'[f].pc = "cluster"
    BY <1>0, <1>2 DEF Goto, FetchRecs
  <2>2. NoCallMade /\ NoneShut /\ NoneOfStory
    BY <1>0, <2>1, SameClusters DEF NoCallMade, CallsMade, Callers, Searchers
  <2>3. RequestsPaid'
    <3>1. /\ IsFiniteSet(ShutClusters') /\ Cardinality(ShutClusters') <= Cardinality(ShutClusters)
          /\ Cardinality(ShutClusters') \in Nat /\ Cardinality(ShutClusters) \in Nat
      BY <2>2, Within DEF CountInv, RequestsPaid, NoneShut
    <3>2. /\ IsFiniteSet(CallsMade') /\ Cardinality(CallsMade') <= Cardinality(CallsMade)
          /\ Cardinality(CallsMade') \in Nat /\ Cardinality(CallsMade) \in Nat
      BY <2>2, Within DEF CountInv, RequestsPaid, NoCallMade
    <3>3. QED
      BY <1>0, <3>1, <3>2 DEF CountInv, RequestsPaid
  <2>4. ASSUME NEW t \in Stories
        PROVE  /\ IsFiniteSet(OfStory(t)') /\ IsFiniteSet(Creating(t)')
               /\ Cardinality(OfStory(t)') + Cardinality(Creating(t)') <= 2 + requests'
    <3>1. /\ IsFiniteSet(OfStory(t)') /\ Cardinality(OfStory(t)') <= Cardinality(OfStory(t))
          /\ Cardinality(OfStory(t)') \in Nat /\ Cardinality(OfStory(t)) \in Nat
      BY <2>2, Within DEF CountInv, ClustersPaid, NoneOfStory
    <3>2. CASE t # s
      <4>1. Creating(t)' \subseteq Creating(t)
        BY <2>1, <3>2 DEF Creating
      <4>2. /\ IsFiniteSet(Creating(t)') /\ Cardinality(Creating(t)') <= Cardinality(Creating(t))
            /\ Cardinality(Creating(t)') \in Nat /\ Cardinality(Creating(t)) \in Nat
        BY <4>1, Within DEF CountInv, ClustersPaid
      <4>3. QED
        BY <1>0, <3>1, <4>2 DEF CountInv, ClustersPaid
    <3>3. CASE t = s
      <4>1. OfStory(t) \subseteq ShutClusters
        BY <1>2, <3>3 DEF OfStory, ShutClusters, SimilarClusters
      <4>2. Creating(t)' \subseteq CallsMade' \cup {Worker, Searcher}
        BY DEF Creating, CallsMade, Callers, Searchers
      <4>3. Creating(t)' \subseteq (CallsMade \cup {Worker}) \cup {Searcher}
        BY <2>2, <4>2 DEF NoCallMade
      <4>4. /\ Cardinality(OfStory(t)) <= Cardinality(ShutClusters)
            /\ Cardinality(ShutClusters) \in Nat
        BY <4>1, Within DEF CountInv, RequestsPaid
      <4>5. /\ IsFiniteSet(Creating(t)')
            /\ Cardinality(Creating(t)') <= Cardinality(CallsMade) + 2
            /\ Cardinality(Creating(t)') \in Nat /\ Cardinality(CallsMade) \in Nat
        <5>1. /\ IsFiniteSet(CallsMade \cup {Worker})
              /\ Cardinality(CallsMade \cup {Worker}) <= Cardinality(CallsMade) + 1
              /\ Cardinality(CallsMade) \in Nat
          BY OneMore DEF CountInv, RequestsPaid
        <5>2. /\ IsFiniteSet(Creating(t)')
              /\ Cardinality(Creating(t)') <= Cardinality(CallsMade \cup {Worker}) + 1
              /\ Cardinality(Creating(t)') \in Nat
              /\ Cardinality(CallsMade \cup {Worker}) \in Nat
          BY <4>3, <5>1, OneMore
        <5>3. QED
          BY <5>1, <5>2
      <4>6. Cardinality(ShutClusters) + Cardinality(CallsMade) <= requests
        BY DEF CountInv, RequestsPaid
      <4>7. QED
        BY <1>0, <3>1, <4>4, <4>5, <4>6
    <3>4. QED
      BY <3>2, <3>3
  <2>5. QED
    BY <2>3, <2>4 DEF CountInv, ClustersPaid
<1>3. QED
  BY <1>1, <1>2 DEF Assign

LEMMA CreateClusterCounts ==
  ASSUME DiscoveryInv, CountInv, NEW f \in Callers, CreateCluster(f)
  PROVE  CountInv'
<1>0. /\ fetch[f] \in FetchRecs /\ requests \in Nat /\ fetch[f].pc = "cluster"
      /\ UNCHANGED requests /\ fetch \in [Callers -> FetchRecs]
      /\ cluster \in [Clusters -> ClusterRows] /\ fetch[f].row \in Entries
  BY CountersNat DEF CreateCluster, DiscoveryInv, FetchOk, ClusterOk, CallOk, Scoring
<1>1. PICK c \in FreeClusters :
        /\ cluster' = [cluster EXCEPT ![c] = [status |-> "open", story |-> StoryOf[fetch[f].row]]]
        /\ fetch' = [fetch EXCEPT ![f].pc = "link", ![f].join = c]
  BY DEF CreateCluster
<1> DEFINE s == StoryOf[fetch[f].row]
<1>2. /\ c \in Clusters /\ cluster[c].status = "none"
      /\ \A d \in Clusters : d # c => cluster'[d] = cluster[d]
      /\ cluster'[c].status = "open" /\ cluster'[c].story = s
  BY <1>0, <1>1 DEF FreeClusters
<1>3. Quietly
  BY <1>0, <1>1 DEF Quietly, FetchRecs
<1>4. NoCallMade /\ NoneCreating
  BY <1>3, QuietCalls
<1>5. ShutClusters' \subseteq ShutClusters
  BY <1>2 DEF ShutClusters, Joinable
<1>6. RequestsPaid'
  <2>1. /\ IsFiniteSet(ShutClusters') /\ Cardinality(ShutClusters') <= Cardinality(ShutClusters)
        /\ Cardinality(ShutClusters') \in Nat /\ Cardinality(ShutClusters) \in Nat
    BY <1>5, Within DEF CountInv, RequestsPaid
  <2>2. /\ IsFiniteSet(CallsMade') /\ Cardinality(CallsMade') <= Cardinality(CallsMade)
        /\ Cardinality(CallsMade') \in Nat /\ Cardinality(CallsMade) \in Nat
    BY <1>4, Within DEF CountInv, RequestsPaid, NoCallMade
  <2>3. QED
    BY <1>0, <2>1, <2>2 DEF CountInv, RequestsPaid
<1>7. ASSUME NEW t \in Stories
      PROVE  /\ IsFiniteSet(OfStory(t)') /\ IsFiniteSet(Creating(t)')
             /\ Cardinality(OfStory(t)') + Cardinality(Creating(t)') <= 2 + requests'
  <2>1. CASE t = s
    <3>1. OfStory(t)' \subseteq OfStory(t) \cup {c}
      BY <1>2 DEF OfStory
    <3>2. f \in Creating(t)
      BY <1>0, <2>1 DEF Creating
    <3>3. Creating(t)' \subseteq Creating(t) \ {f}
      <4>1. fetch'[f].pc = "link"
        BY <1>0, <1>1 DEF FetchRecs
      <4>2. QED
        BY <1>4, <4>1 DEF NoneCreating, Creating
    <3>4. /\ IsFiniteSet(OfStory(t)') /\ Cardinality(OfStory(t)') <= Cardinality(OfStory(t)) + 1
          /\ Cardinality(OfStory(t)') \in Nat /\ Cardinality(OfStory(t)) \in Nat
      BY <3>1, OneMore DEF CountInv, ClustersPaid
    <3>5. /\ IsFiniteSet(Creating(t)')
          /\ Cardinality(Creating(t)') + 1 <= Cardinality(Creating(t))
          /\ Cardinality(Creating(t)') \in Nat /\ Cardinality(Creating(t)) \in Nat
      BY <3>2, <3>3, OneLess DEF CountInv, ClustersPaid
    <3>6. QED
      BY <1>0, <3>4, <3>5 DEF CountInv, ClustersPaid
  <2>2. CASE t # s
    <3>1. OfStory(t)' \subseteq OfStory(t)
      BY <1>2, <2>2 DEF OfStory
    <3>2. /\ IsFiniteSet(OfStory(t)') /\ Cardinality(OfStory(t)') <= Cardinality(OfStory(t))
          /\ Cardinality(OfStory(t)') \in Nat /\ Cardinality(OfStory(t)) \in Nat
      BY <3>1, Within DEF CountInv, ClustersPaid
    <3>3. /\ IsFiniteSet(Creating(t)') /\ Cardinality(Creating(t)') <= Cardinality(Creating(t))
          /\ Cardinality(Creating(t)') \in Nat /\ Cardinality(Creating(t)) \in Nat
      BY <1>4, Within DEF CountInv, ClustersPaid, NoneCreating
    <3>4. QED
      BY <1>0, <3>2, <3>3 DEF CountInv, ClustersPaid
  <2>3. QED
    BY <2>1, <2>2
<1>8. QED
  BY <1>6, <1>7 DEF CountInv, ClustersPaid

LEMMA SetClusterStatusCounts ==
  ASSUME DiscoveryInv, CountInv, NEW c \in Clusters, NEW v \in ClusterVerdicts,
         SetClusterStatus(c, v)
  PROVE  CountInv'
<1>0. /\ requests \in Nat /\ requests' = requests + 1 /\ UNCHANGED fetch
      /\ cluster \in [Clusters -> ClusterRows] /\ cluster[c].status # "none"
      /\ cluster' = [cluster EXCEPT ![c].status = v]
  BY CountersNat DEF SetClusterStatus, Asks, DiscoveryInv, ClusterOk
<1>1. /\ \A d \in Clusters : d # c => cluster'[d] = cluster[d]
      /\ cluster'[c].story = cluster[c].story
  BY <1>0 DEF ClusterRows
<1>2. ShutClusters' \subseteq ShutClusters \cup {c} /\ NoneOfStory
  BY <1>0, <1>1 DEF ShutClusters, NoneOfStory, OfStory
<1>3. NoCallMade /\ NoneCreating
  BY <1>0 DEF NoCallMade, NoneCreating, CallsMade, Creating
<1>4. RequestsPaid'
  <2>1. /\ IsFiniteSet(ShutClusters')
        /\ Cardinality(ShutClusters') <= Cardinality(ShutClusters) + 1
        /\ Cardinality(ShutClusters') \in Nat /\ Cardinality(ShutClusters) \in Nat
    BY <1>2, OneMore DEF CountInv, RequestsPaid
  <2>2. /\ IsFiniteSet(CallsMade') /\ Cardinality(CallsMade') <= Cardinality(CallsMade)
        /\ Cardinality(CallsMade') \in Nat /\ Cardinality(CallsMade) \in Nat
    BY <1>3, Within DEF CountInv, RequestsPaid, NoCallMade
  <2>3. QED
    BY <1>0, <2>1, <2>2 DEF CountInv, RequestsPaid
<1>5. ASSUME NEW t \in Stories
      PROVE  /\ IsFiniteSet(OfStory(t)') /\ IsFiniteSet(Creating(t)')
             /\ Cardinality(OfStory(t)') + Cardinality(Creating(t)') <= 2 + requests'
  <2>1. /\ IsFiniteSet(OfStory(t)') /\ Cardinality(OfStory(t)') <= Cardinality(OfStory(t))
        /\ Cardinality(OfStory(t)') \in Nat /\ Cardinality(OfStory(t)) \in Nat
    BY <1>2, Within DEF CountInv, ClustersPaid, NoneOfStory
  <2>2. /\ IsFiniteSet(Creating(t)') /\ Cardinality(Creating(t)') <= Cardinality(Creating(t))
        /\ Cardinality(Creating(t)') \in Nat /\ Cardinality(Creating(t)) \in Nat
    BY <1>3, Within DEF CountInv, ClustersPaid, NoneCreating
  <2>3. QED
    BY <1>0, <2>1, <2>2 DEF CountInv, ClustersPaid
<1>6. QED
  BY <1>4, <1>5 DEF CountInv, ClustersPaid

LEMMA BumpClusterCounts ==
  ASSUME DiscoveryInv, CountInv, NEW f \in Callers, BumpCluster(f)
  PROVE  CountInv'
<1>0. /\ requests \in Nat /\ UNCHANGED requests /\ fetch[f].pc = "bump"
      /\ cluster \in [Clusters -> ClusterRows] /\ fetch \in [Callers -> FetchRecs]
      /\ fetch[f].join \in Existing /\ fetch[f] \in FetchRecs
  BY CountersNat, DiscoveryConstants
     DEF BumpCluster, DiscoveryInv, ClusterOk, FetchOk, CallOk
<1> DEFINE c == fetch[f].join
<1>1. /\ c \in Clusters /\ cluster[c].status # "none"
      /\ \A d \in Clusters : d # c => cluster'[d] = cluster[d]
      /\ cluster'[c].story = cluster[c].story
      /\ cluster'[c].status \in {"updated", "developing"}
  <2>1. PICK status \in {"updated", "developing"} :
          cluster' = [cluster EXCEPT ![c].status = status]
    BY DEF BumpCluster
  <2>2. QED
    BY <1>0, <2>1 DEF ClusterRows, Existing
<1>2. NoneShut /\ NoneOfStory
  BY <1>1 DEF NoneShut, ShutClusters, NoneOfStory, OfStory, Joinable
<1>3. Quietly
  BY <1>0 DEF BumpCluster, NextEntry, Quietly, FetchRecs
<1>4. QED
  BY <1>0, <1>2, <1>3, QuietCalls, NoneGrow

LEMMA ReturnedQuiet ==
  ASSUME DiscoveryInv, NEW f \in Callers
  PROVE  Returned(f).pc # "cluster" /\ Over(f).pc # "cluster" /\ Idle.pc # "cluster"
  BY DEF Returned, Over, Idle

\* The steps of a call between which nobody starts to make a cluster.
LEMMA CallQuiet ==
  ASSUME DiscoveryInv, NEW f \in Callers,
         \/ Discover(f) \/ Dedup(f) \/ CreateItem(f) \/ RereadItem(f) \/ UpdateItem(f)
         \/ StampSource(f) \/ Scrape(f) \/ PageStored(f) \/ Pick(f) \/ ScoreItem(f) \/ LinkItem(f) \/ PromoteItem(f)
         \/ RecordSuccess(f) \/ RecordFailure(f) \/ StatementFails(f)
  PROVE  Quietly /\ UNCHANGED <<cluster, requests>>
<1>0. fetch[f] \in FetchRecs /\ fetch \in [Callers -> FetchRecs]
  BY DEF DiscoveryInv, FetchOk
<1>1. fetch[f].pc # "idle"
  BY DEF Discover, Dedup, CreateItem, RereadItem, UpdateItem, StampSource, Scrape, PageStored,
         Pick, ScoreItem, LinkItem, PromoteItem, RecordSuccess, RecordFailure, StatementFails,
         FetchThrows, Storing, Scoring
<1>2. UNCHANGED <<cluster, requests>>
  BY DEF Discover, Dedup, CreateItem, RereadItem, UpdateItem, StampSource, Scrape, PageStored,
         Pick, ScoreItem, LinkItem, PromoteItem, RecordSuccess, RecordFailure, StatementFails,
         RowsUnchanged
<1>3. ASSUME Discover(f) \/ StampSource(f) PROVE Quietly
  BY <1>0, <1>1, <1>3 DEF Discover, StampSource, Goto, Quietly, FetchRecs
<1>4. ASSUME Dedup(f) PROVE Quietly
  <2>1. PICK e \in fetch[f].todo :
         LET hash == Hash(e, fetch[f].version[e])
             call == [fetch[f] EXCEPT !.todo = @ \ {e}, !.entry = e] IN
         \/ \E d \in SamePage(e) :
              fetch' = [fetch EXCEPT ![f] =
                          IF item[d].hash = hash THEN [call EXCEPT !.entry = None]
                          ELSE [call EXCEPT !.pc = "reread", !.row = d]]
         \/ fetch' = [fetch EXCEPT ![f] = [call EXCEPT !.entry = None]]
         \/ fetch' = [fetch EXCEPT ![f] =
                          [call EXCEPT !.pc = "create", !.join = PreLinked(e)]]
    BY <1>4 DEF Dedup
  <2> DEFINE call == [fetch[f] EXCEPT !.todo = @ \ {e}, !.entry = e]
  <2>2. call.pc = "dedup" /\ DOMAIN call = DOMAIN fetch[f]
    BY <1>0, <1>4 DEF Dedup, FetchRecs
  <2>3. \/ \E d \in SamePage(e) : fetch' = [fetch EXCEPT ![f] =
                                              [call EXCEPT !.pc = "reread", !.row = d]]
        \/ fetch' = [fetch EXCEPT ![f] = [call EXCEPT !.entry = None]]
        \/ fetch' = [fetch EXCEPT ![f] = [call EXCEPT !.pc = "create", !.join = PreLinked(e)]]
    BY <2>1
  <2>4. "pc" \in DOMAIN fetch[f]
    BY <1>0 DEF FetchRecs
  <2> HIDE DEF call
  <2>5. fetch'[f].pc \in {"reread", "dedup", "create"}
    BY <1>0, <2>2, <2>3, <2>4
  <2>6. \A g \in Callers : g # f => fetch'[g] = fetch[g]
    BY <1>0, <2>3
  <2>7. QED
    BY <1>1, <2>5, <2>6 DEF Quietly
<1>5. ASSUME CreateItem(f) \/ RereadItem(f) \/ UpdateItem(f) PROVE Quietly
  BY <1>0, <1>1, <1>5 DEF CreateItem, RereadItem, UpdateItem, NextEntry, Goto, Quietly, FetchRecs
<1>11. ASSUME Scrape(f) PROVE Quietly
  <2>1. ASSUME NEW e,
               fetch' = [fetch EXCEPT ![f] =
                 [Idle EXCEPT !.pc = "dedup", !.found = fetch[f].found \ {e},
                              !.src = SourceOf[e], !.version = Version(SourceOf[e]),
                              !.todo = {e}]]
        PROVE  Quietly
    <3> DEFINE call == [Idle EXCEPT !.pc = "dedup", !.found = fetch[f].found \ {e},
                                    !.src = SourceOf[e], !.version = Version(SourceOf[e]),
                                    !.todo = {e}]
    <3>1. call.pc = "dedup" /\ fetch' = [fetch EXCEPT ![f] = call]
      BY <2>1 DEF Idle
    <3> HIDE DEF call
    <3>2. QED
      BY <1>1, <3>1, OneCallQuiet
  <2>2. ASSUME fetch' = [fetch EXCEPT ![f] = Over(f)] PROVE Quietly
    BY <1>1, <2>2, ReturnedQuiet, OneCallQuiet
  <2>3. QED
    BY <1>11, <2>1, <2>2 DEF Scrape
<1>12. ASSUME PageStored(f) PROVE Quietly
  BY <1>0, <1>1, <1>12, ReturnedQuiet DEF PageStored, Goto, Return, Quietly, FetchRecs
<1>6. ASSUME Pick(f) PROVE Quietly
  <2>1. \A g \in Callers : g # f => fetch'[g] = fetch[g]
    BY <1>0, <1>6 DEF Pick
  <2>2. fetch'[f].pc # "cluster"
    <3>1. CASE fetch' = [fetch EXCEPT ![f] = Idle]
      BY <1>0, <3>1, ReturnedQuiet
    <3>2. ASSUME NEW d, NEW known,
                 fetch' = [fetch EXCEPT ![f].pc = "score", ![f].row = d, ![f].queue = @ \ {d},
                                        ![f].known = known]
          PROVE  fetch'[f].pc # "cluster"
      BY <1>0, <3>2 DEF FetchRecs
    <3>3. ASSUME NEW d,
                 fetch' = [fetch EXCEPT ![f].pc = "score", ![f].row = d, ![f].queue = @ \ {d},
                             ![f].known = IF Backfilling(f) THEN @
                                          ELSE [@ EXCEPT ![d] = item[d].cluster]]
          PROVE  fetch'[f].pc # "cluster"
      <4> DEFINE known == IF Backfilling(f) THEN fetch[f].known
                          ELSE [fetch[f].known EXCEPT ![d] = item[d].cluster]
      <4>1. fetch' = [fetch EXCEPT ![f].pc = "score", ![f].row = d, ![f].queue = @ \ {d},
                                   ![f].known = known]
        BY <3>3
      <4> HIDE DEF known
      <4>2. QED
        BY <3>2, <4>1
    <3>4. QED
      BY <1>6, <3>1, <3>3 DEF Pick
  <2>3. QED
    BY <1>1, <2>1, <2>2 DEF Quietly
<1>7. ASSUME ScoreItem(f) \/ LinkItem(f) \/ PromoteItem(f) PROVE Quietly
  BY <1>0, <1>1, <1>7 DEF ScoreItem, LinkItem, PromoteItem, NextRow, Goto, Quietly, FetchRecs
<1>8. ASSUME RecordSuccess(f) \/ RecordFailure(f) PROVE Quietly
  BY <1>0, <1>1, <1>8, ReturnedQuiet
     DEF RecordSuccess, RecordFailure, Return, Goto, Quietly, FetchRecs
<1>9. ASSUME StatementFails(f) PROVE Quietly
  <2>1. \/ Goto(f, "failed") \/ NextRow(f) \/ Return(f)
        \/ fetch' = [fetch EXCEPT ![f] = Idle]
    BY <1>9 DEF StatementFails, FetchThrows
  <2>2. QED
    BY <1>0, <1>1, <2>1, ReturnedQuiet DEF Goto, NextRow, Return, Quietly, FetchRecs
<1>10. QED
  BY <1>2, <1>3, <1>4, <1>5, <1>6, <1>7, <1>8, <1>9, <1>11, <1>12

LEMMA StepCounts ==
  ASSUME DiscoveryInv, CountInv, NEW f \in Callers, Step(f) \/ StatementFails(f)
  PROVE  CountInv'
<1>1. requests \in Nat
  BY CountersNat
<1>2. QED
  BY <1>1, CallQuiet, QuietStep, AssignCounts, CreateClusterCounts, BumpClusterCounts DEF Step

LEMMA CountNext ==
  ASSUME DiscoveryInv, CountInv, [Next]_vars
  PROVE  CountInv'
<1>0. /\ Worker \in Callers /\ Calls \subseteq Callers /\ Searchers \subseteq Callers
      /\ Requested \subseteq Sources /\ requests \in Nat
  BY CountersNat, DiscoveryConstants DEF Callers
<1>1. ASSUME NEW p \in Processes, Crash(p) PROVE CountInv'
  <2>1. \A f \in Callers : fetch'[f] = fetch[f] \/ fetch'[f] = Idle
    BY <1>1 DEF Crash
  <2>2. NoCallMade /\ NoneCreating
    BY <2>1 DEF NoCallMade, CallsMade, NoneCreating, Creating, Callers, Searchers, Idle
  <2>3. NoneShut /\ NoneOfStory /\ UNCHANGED requests
    BY <1>1, SameClusters DEF Crash, RowsUnchanged
  <2>4. QED
    BY <1>0, <2>2, <2>3, NoneGrow
<1>2. ASSUME UNCHANGED <<fetch, cluster>>, requests' \in Nat, requests <= requests'
      PROVE  CountInv'
  BY <1>2, QuietStep DEF Quietly
<1>3. ASSUME NEW p \in Processes, NEW s \in Sources, CooldownEnds(p, s) PROVE CountInv'
  BY <1>0, <1>2, <1>3 DEF CooldownEnds
<1>4. ASSUME NEW e \in Entries, Publish(e) PROVE CountInv'
  BY <1>0, <1>2, <1>4 DEF Publish
<1>5. ASSUME NEW e \in Entries, NEW v \in ItemVerdicts, SetItemStatus(e, v) PROVE CountInv'
  <2>1. requests' = requests + 1 /\ UNCHANGED <<fetch, cluster>>
    BY <1>5 DEF SetItemStatus, Asks
  <2>2. QED
    BY <1>0, <1>2, <2>1
<1>6. ASSUME UNCHANGED vars PROVE CountInv'
  BY <1>0, <1>2, <1>6 DEF vars
<1>7. QED
  BY <1>0, <1>1, <1>3, <1>4, <1>5, <1>6, TickCounts, StepCounts, OperatorCounts,
     SearchCounts, SetClusterStatusCounts DEF Next, Tick

LEMMA CountInit == Init => CountInv
<1> SUFFICES ASSUME Init PROVE CountInv
  OBVIOUS
<1>1. ShutClusters = {} /\ CallsMade = {} /\ requests = 0
  BY DEF Init, ShutClusters, CallsMade, NoCluster, Idle, Callers, Searchers
<1>2. \A s \in Stories : OfStory(s) = {} /\ Creating(s) = {}
  BY DEF Init, OfStory, Creating, NoCluster, Idle
<1>3. IsFiniteSet({}) /\ Cardinality({}) = 0
  BY FS_EmptySet
<1>4. RequestsPaid
  BY <1>1, <1>3 DEF RequestsPaid
<1>5. ClustersPaid
  BY <1>1, <1>2, <1>3 DEF ClustersPaid
<1>6. QED
  BY <1>4, <1>5 DEF CountInv

\* The clusters of a story that new items may join are at most two more than the
\* requests of operators: the tick and the search of the worker may each make
\* one, and a third takes an operator who fetches or searches at the same time or
\* who closed one of them.
THEOREM OneClusterPerScorerAlways == Spec => []OneClusterPerScorer
<1>1. Init => DiscoveryInv /\ CountInv
  BY DiscoveryInit, CountInit
<1>2. DiscoveryInv /\ CountInv /\ [Next]_vars => (DiscoveryInv /\ CountInv)'
  BY DiscoveryNext, CountNext
<1>3. DiscoveryInv /\ CountInv => OneClusterPerScorer
  <2> SUFFICES ASSUME DiscoveryInv, CountInv, NEW e \in Entries
               PROVE  Cardinality(ClustersOf(StoryOf[e])) <= 2 + requests
    BY DEF OneClusterPerScorer
  <2> DEFINE s == StoryOf[e]
  <2>1. s \in Stories /\ ClustersOf(s) \subseteq OfStory(s)
    BY DEF Stories, ClustersOf, OfStory, Joinable
  <2>2. /\ Cardinality(ClustersOf(s)) <= Cardinality(OfStory(s))
        /\ Cardinality(ClustersOf(s)) \in Nat /\ Cardinality(OfStory(s)) \in Nat
    BY <2>1, Within DEF CountInv, ClustersPaid
  <2>3. /\ Cardinality(OfStory(s)) + Cardinality(Creating(s)) <= 2 + requests
        /\ Cardinality(Creating(s)) \in Nat /\ requests \in Nat
    BY <2>1, CountersNat, FS_CardinalityType DEF CountInv, ClustersPaid
  <2>4. QED
    BY <2>2, <2>3
<1>4. QED
  BY <1>1, <1>2, <1>3, PTL DEF Spec

-----------------------------------------------------------------------------
(* The invariant of selection *)

MakeRecs == [pc : MakeSteps, listed : SUBSET Entries, wanted : SUBSET Entries, item : Entries \cup {None},
             cluster : Clusters \cup {None}, project : ProjectIds \cup {0}, update : BOOLEAN]

\* The steps at which a call has no item in hand.
Between == {"idle", "select", "next", "done"}

MakeCallOk(call) == call.pc \notin Between => call.item \in Entries

\* The calls under way are finitely many, which the history counts.
Engaged == {x \in Makers : make[x].item # None}

MakesOk == /\ make \in [Makers -> MakeRecs]
           /\ \A x \in Makers : MakeCallOk(make[x])
           /\ IsFiniteSet(Engaged)
           /\ contended \subseteq Stories

\* Finitely many projects were created, so that one of them is the newest.
ProjectsOk == /\ project \in [ProjectIds -> ProjectRows]
              /\ \E n \in Nat : \A p \in ProjectIds : project[p].status # "none" => p <= n

SelectionInv == DiscoveryInv /\ MakesOk /\ ProjectsOk

LEMMA SelectionTypes == SelectionInv => SelectionTypeOK
  BY InvTypes DEF SelectionInv, SelectionTypeOK, MakesOk, ProjectsOk, MakeRecs

LEMMA MakeChanges ==
  ASSUME MakesOk, NEW x \in Makers, NEW call \in MakeRecs, MakeCallOk(call),
         make' = [make EXCEPT ![x] = call], contended' \subseteq Stories
  PROVE  MakesOk'
<1>1. make' \in [Makers -> MakeRecs] /\ \A y \in Makers : MakeCallOk(make'[y])
  BY DEF MakesOk
<1>2. Engaged' \subseteq Engaged \cup {x}
  BY DEF MakesOk, Engaged
<1>3. IsFiniteSet(Engaged')
  BY <1>2, OneMore DEF MakesOk
<1>4. QED
  BY <1>1, <1>3 DEF MakesOk

LEMMA MakesStay == ASSUME MakesOk, UNCHANGED <<make, contended>> PROVE MakesOk'
  BY DEF MakesOk, Engaged

LEMMA ProjectsStay == ASSUME ProjectsOk, UNCHANGED project PROVE ProjectsOk'
  BY DEF ProjectsOk

\* A row that exists is written again.
LEMMA ProjectChanges ==
  ASSUME ProjectsOk, NEW p, NEW row,
         p \in ProjectIds => row \in ProjectRows /\ row.status = project[p].status,
         project' = [project EXCEPT ![p] = row]
  PROVE  ProjectsOk'
  BY DEF ProjectsOk

\* Steps of selection leave the calls of discovery alone.
LEMMA DiscoveryRests ==
  ASSUME DiscoveryInv, DiscoveryUnchanged, UNCHANGED <<item, cluster>>,
         requests' \in 0..MaxEvents, failures' \in 0..MaxEvents
  PROVE  DiscoveryInv'
<1>1. ClusterOk' /\ Grows
  BY ClusterStays DEF DiscoveryInv
<1>2. ItemOk' /\ FetchOk'
  BY <1>1, ItemStays, FetchStays DEF DiscoveryInv, DiscoveryUnchanged
<1>3. QED
  BY <1>1, <1>2 DEF DiscoveryInv, DiscoveryUnchanged, FeedOk, BreakerOk, CountersOk

LEMMA LowestProject ==
  ASSUME NEW rows, rows \subseteq ProjectIds, rows # {}
  PROVE  \E p \in rows : \A q \in rows : p <= q
  BY Least, SelectionConstants

LEMMA NewestProject ==
  ASSUME ProjectsOk, NEW rows, rows \subseteq Live, rows # {}
  PROVE  NewestOf(rows) \in rows
<1>1. PICK n \in Nat : \A p \in ProjectIds : project[p].status # "none" => p <= n
  BY DEF ProjectsOk
<1>2. \A p \in rows : p \in Nat /\ p <= n
  BY <1>1, SelectionConstants DEF Live
<1> DEFINE S == {n - p : p \in rows}
<1>3. S \subseteq Nat /\ S # {}
  BY <1>2
<1>4. PICK m \in S : \A k \in S : m <= k
  <2> HIDE DEF S
  <2>1. QED
    BY <1>3, Least
<1>5. PICK p \in rows : m = n - p
  OBVIOUS
<1>6. ASSUME NEW q \in rows PROVE q <= p
  <2>1. n - q \in S /\ q \in Nat /\ p \in Nat
    BY <1>2, <1>6
  <2>2. n - p <= n - q
    BY <1>4, <1>5, <2>1
  <2> HIDE DEF S
  <2>3. QED
    BY <2>1, <2>2
<1>7. QED
  BY <1>5, <1>6 DEF NewestOf

LEMMA MadeOk ==
  ASSUME MakesOk, NEW x \in Makers
  PROVE  /\ MakeIdle \in MakeRecs /\ MakeCallOk(MakeIdle)
         /\ Made(x) \in MakeRecs /\ MakeCallOk(Made(x))
         /\ Thrown(x) \in MakeRecs /\ MakeCallOk(Thrown(x))
<1>1. make[x].wanted \in SUBSET Entries
  BY DEF MakesOk, MakeRecs
<1>2. MakeIdle \in MakeRecs
  BY DEF MakeIdle, MakeRecs, MakeSteps
<1>3. [MakeIdle EXCEPT !.pc = "done"] \in MakeRecs
  BY <1>2 DEF MakeRecs, MakeSteps
<1>4. [MakeIdle EXCEPT !.pc = "next", !.wanted = make[x].wanted] \in MakeRecs
  BY <1>1, <1>2 DEF MakeRecs, MakeSteps
<1>5. MakeCallOk(MakeIdle) /\ MakeCallOk(Made(x)) /\ MakeCallOk(Thrown(x))
  BY DEF MakeCallOk, Between, MakeIdle, Made, Thrown
<1>6. QED
  BY <1>2, <1>3, <1>4, <1>5 DEF Made, Thrown

-----------------------------------------------------------------------------
(* Every step of selection keeps its invariant *)

LEMMA SelectionInitOk == SelectionInit => SelectionInv
<1> SUFFICES ASSUME SelectionInit PROVE SelectionInv
  OBVIOUS
<1>1. DiscoveryInv
  BY DiscoveryInit DEF SelectionInit
<1>2. NoProject \in ProjectRows /\ MakeIdle \in MakeRecs
  BY DEF NoProject, ProjectRows, MakeIdle, MakeRecs, MakeSteps
<1>3. Engaged = {} /\ IsFiniteSet({})
  BY FS_EmptySet DEF SelectionInit, Engaged, MakeIdle
<1>4. MakesOk
  BY <1>2, <1>3 DEF SelectionInit, MakesOk, MakeCallOk, Between, MakeIdle
<1>5. ProjectsOk
  <2>1. \A p \in ProjectIds : project[p].status # "none" => p <= 0
    BY DEF SelectionInit, NoProject
  <2>2. \E n \in Nat : \A p \in ProjectIds : project[p].status # "none" => p <= n
    BY <2>1
  <2>3. QED
    BY <1>2, <2>2 DEF SelectionInit, ProjectsOk
<1>6. QED
  BY <1>1, <1>4, <1>5 DEF SelectionInv

LEMMA MovesOk ==
  ASSUME SelectionInv, NEW x \in Makers, NEW call \in MakeRecs, MakeCallOk(call), Moves(x, call)
  PROVE  SelectionInv'
<1>1. DiscoveryInv'
  BY DiscoveryRests DEF Moves, SelectionInv, DiscoveryInv, CountersOk
<1>2. MakesOk'
  BY MakeChanges DEF Moves, SelectionInv, MakesOk
<1>3. ProjectsOk'
  BY ProjectsStay DEF Moves, SelectionInv
<1>4. QED
  BY <1>1, <1>2, <1>3 DEF SelectionInv

LEMMA PlannerMovesOk ==
  ASSUME SelectionInv, PlannerLists \/ PlannerSelects \/ PlannerTakes \/ FindProject
  PROVE  SelectionInv'
<1>0. Planner \in Makers /\ make[Planner] \in MakeRecs /\ MakeCallOk(make[Planner]) /\ MakesOk
  BY DEF Makers, SelectionInv, MakesOk
<1>1. ASSUME PlannerSelects PROVE SelectionInv'
  <2>0. make[Planner].pc = "select"
    BY <1>1 DEF PlannerSelects
  <2>1. ASSUME NEW e \in make[Planner].listed, NEW some \in SUBSET Entries,
               Moves(Planner, [make[Planner] EXCEPT !.listed = @ \ {e}, !.wanted = some])
        PROVE  SelectionInv'
    <3> DEFINE call == [make[Planner] EXCEPT !.listed = @ \ {e}, !.wanted = some]
    <3>1. call \in MakeRecs /\ call.pc = "select"
      BY <1>0, <2>0 DEF MakeRecs
    <3>2. MakeCallOk(call)
      BY <3>1 DEF MakeCallOk, Between
    <3>3. QED
      BY <1>0, <2>1, <3>1, <3>2, MovesOk
  <2>2. ASSUME Moves(Planner, [make[Planner] EXCEPT !.pc = "next", !.listed = {}])
        PROVE  SelectionInv'
    <3> DEFINE call == [make[Planner] EXCEPT !.pc = "next", !.listed = {}]
    <3>1. call \in MakeRecs /\ MakeCallOk(call)
      BY <1>0 DEF MakeRecs, MakeSteps, MakeCallOk, Between
    <3>2. QED
      BY <1>0, <2>2, <3>1, MovesOk
  <2>3. ASSUME NEW e \in make[Planner].listed,
               Moves(Planner, [make[Planner] EXCEPT
                                 !.listed = @ \ {e},
                                 !.wanted = IF Uncovered(e) THEN @ \cup {e} ELSE @])
        PROVE  SelectionInv'
    <3> DEFINE some == IF Uncovered(e) THEN make[Planner].wanted \cup {e}
                       ELSE make[Planner].wanted
    <3>1. some \in SUBSET Entries
      BY <1>0 DEF MakeRecs
    <3>2. Moves(Planner, [make[Planner] EXCEPT !.listed = @ \ {e}, !.wanted = some])
      BY <2>3
    <3> HIDE DEF some
    <3>3. QED
      BY <2>1, <3>1, <3>2
  <2>4. QED
    BY <1>1, <2>2, <2>3 DEF PlannerSelects
<1>5. ASSUME PlannerLists PROVE SelectionInv'
  <2> DEFINE call == [make[Planner] EXCEPT !.pc = "select", !.listed = Candidates]
  <2>1. Candidates \in SUBSET Entries
    BY DEF Candidates, Stored
  <2>2. call \in MakeRecs /\ MakeCallOk(call)
    BY <1>0, <2>1 DEF MakeRecs, MakeSteps, MakeCallOk, Between
  <2>3. Moves(Planner, call)
    BY <1>5 DEF PlannerLists
  <2> HIDE DEF call
  <2>4. QED
    BY <1>0, <2>2, <2>3, MovesOk
<1>2. ASSUME PlannerTakes PROVE SelectionInv'
  <2>1. ASSUME NEW e \in make[Planner].wanted,
               Moves(Planner, [make[Planner] EXCEPT !.pc = "read", !.item = e,
                                                    !.wanted = @ \ {e}])
        PROVE  SelectionInv'
    <3>1. e \in Entries
      BY <1>0 DEF MakeRecs
    <3> DEFINE call == [make[Planner] EXCEPT !.pc = "read", !.item = e, !.wanted = @ \ {e}]
    <3>2. call \in MakeRecs /\ MakeCallOk(call)
      BY <1>0, <3>1 DEF MakeRecs, MakeSteps, MakeCallOk, Between
    <3>3. QED
      BY <1>0, <2>1, <3>2, MovesOk
  <2>2. ASSUME Moves(Planner, MakeIdle) PROVE SelectionInv'
    BY <1>0, <2>2, MadeOk, MovesOk
  <2>3. QED
    BY <1>2, <2>1, <2>2 DEF PlannerTakes
<1>3. ASSUME FindProject PROVE SelectionInv'
  <2> DEFINE found == OfItem(make[Planner].item)
             call == [make[Planner] EXCEPT !.pc = "own", !.project = NewestOf(found)]
  <2>1. found # {} => NewestOf(found) \in ProjectIds
    BY NewestProject DEF SelectionInv, OfItem, Live
  <2>2. make[Planner].item \in Entries
    BY <1>0, <1>3 DEF FindProject, MakeCallOk, Between
  <2>3. found # {} => call \in MakeRecs /\ MakeCallOk(call)
    BY <1>0, <2>1, <2>2 DEF MakeRecs, MakeSteps, MakeCallOk, Between
  <2>4. \/ Moves(Planner, Made(Planner))
        \/ found # {} /\ Moves(Planner, call)
    BY <1>3 DEF FindProject
  <2> HIDE DEF call, found
  <2>5. QED
    BY <1>0, <2>3, <2>4, MadeOk, MovesOk
<1>4. QED
  BY <1>1, <1>2, <1>3, <1>5

LEMMA EditorAsksOk ==
  ASSUME SelectionInv, NEW x, NEW e \in Entries, NEW u \in BOOLEAN, EditorAsks(x, e, u)
  PROVE  SelectionInv'
<1>1. x \in Makers
  BY DEF EditorAsks, Makers
<1>2. DiscoveryInv'
  BY Counted, DiscoveryRests DEF EditorAsks, SelectionInv, DiscoveryInv, CountersOk
<1>3. MakesOk'
  <2> DEFINE call == [MakeIdle EXCEPT !.pc = "read", !.item = e, !.update = u]
  <2>1. call \in MakeRecs /\ MakeCallOk(call)
    BY DEF MakeIdle, MakeRecs, MakeSteps, MakeCallOk, Between
  <2>2. make' = [make EXCEPT ![x] = call] /\ contended' \subseteq Stories
    BY DEF EditorAsks, SelectionInv, MakesOk
  <2> HIDE DEF call
  <2>3. QED
    BY <1>1, <2>1, <2>2, MakeChanges DEF SelectionInv
<1>4. ProjectsOk'
  BY ProjectsStay DEF EditorAsks, SelectionInv
<1>5. QED
  BY <1>2, <1>3, <1>4 DEF SelectionInv

\* A call goes to another of its steps.
LEMMA MakeGoesOk ==
  ASSUME MakesOk, NEW x \in Makers, NEW pc \in MakeSteps,
         make[x].pc \notin Between,
         MakeGoto(x, pc), UNCHANGED contended
  PROVE  MakesOk'
<1> DEFINE call == [make[x] EXCEPT !.pc = pc]
<1>1. make[x] \in MakeRecs /\ make[x].item \in Entries
  BY DEF MakesOk, MakeCallOk, Between
<1>2. call \in MakeRecs /\ MakeCallOk(call)
  BY <1>1 DEF MakeRecs, MakeCallOk, Between
<1>3. make' = [make EXCEPT ![x] = call] /\ contended' \subseteq Stories
  BY DEF MakeGoto, MakesOk
<1> HIDE DEF call
<1>4. QED
  BY <1>2, <1>3, MakeChanges

LEMMA ReadItemOk ==
  ASSUME SelectionInv, NEW x \in Makers, ReadItem(x)
  PROVE  SelectionInv'
<1>0. /\ make[x] \in MakeRecs /\ make[x].item \in Entries
      /\ UNCHANGED <<project, item, cluster, requests, failures>> /\ DiscoveryUnchanged
  BY DEF ReadItem, SelectionInv, MakesOk, MakeCallOk, Between
<1> DEFINE e == make[x].item
           call == [make[x] EXCEPT !.pc = "cover", !.cluster = item[e].cluster]
<1>1. item[e].cluster \in Clusters \cup {None}
  BY <1>0 DEF SelectionInv, DiscoveryInv, ItemOk, ItemRows
<1>2. call \in MakeRecs /\ MakeCallOk(call)
  BY <1>0, <1>1 DEF MakeRecs, MakeSteps, MakeCallOk, Between
<1>3. make' = [make EXCEPT ![x] = call]
  BY DEF ReadItem
<1>4. contended' \subseteq Stories
  BY <1>0 DEF ReadItem, SelectionInv, MakesOk, Stories
<1> HIDE DEF call
<1>5. MakesOk'
  BY <1>2, <1>3, <1>4, MakeChanges DEF SelectionInv
<1>6. DiscoveryInv'
  BY <1>0, DiscoveryRests DEF SelectionInv, DiscoveryInv, CountersOk
<1>7. QED
  BY <1>0, <1>5, <1>6, ProjectsStay DEF SelectionInv

LEMMA ReadCoverageOk ==
  ASSUME SelectionInv, NEW x \in Makers, ReadCoverage(x)
  PROVE  SelectionInv'
<1>0. make[x] \in MakeRecs /\ make[x].item \in Entries /\ MakesOk
  BY DEF ReadCoverage, SelectionInv, MakesOk, MakeCallOk, Between
<1>1. ASSUME Moves(x, [make[x] EXCEPT !.pc = "create"]) PROVE SelectionInv'
  <2>1. [make[x] EXCEPT !.pc = "create"] \in MakeRecs
        /\ MakeCallOk([make[x] EXCEPT !.pc = "create"])
    BY <1>0 DEF MakeRecs, MakeSteps, MakeCallOk, Between
  <2>2. QED
    BY <1>1, <2>1, MovesOk
<1>2. ASSUME Moves(x, Thrown(x)) PROVE SelectionInv'
  BY <1>0, <1>2, MadeOk, MovesOk
<1>3. ASSUME NEW p \in Covering(StoryOf[make[x].item]),
             Moves(x, [make[x] EXCEPT !.pc = "regenerate", !.project = p])
      PROVE  SelectionInv'
  <2>1. p \in ProjectIds
    BY DEF Covering, Live
  <2>2. [make[x] EXCEPT !.pc = "regenerate", !.project = p] \in MakeRecs
        /\ MakeCallOk([make[x] EXCEPT !.pc = "regenerate", !.project = p])
    BY <1>0, <2>1 DEF MakeRecs, MakeSteps, MakeCallOk, Between
  <2>3. QED
    BY <1>3, <2>2, MovesOk
<1>4. QED
  BY <1>1, <1>2, <1>3 DEF ReadCoverage

LEMMA CreateProjectOk ==
  ASSUME SelectionInv, NEW x \in Makers, CreateProject(x)
  PROVE  SelectionInv'
<1>0. /\ make[x] \in MakeRecs /\ make[x].item \in Entries
      /\ UNCHANGED <<contended, item, cluster, requests, failures>> /\ DiscoveryUnchanged
  BY DEF CreateProject, SelectionInv, MakesOk, MakeCallOk, Between
<1>1. PICK p : /\ p = CHOOSE q \in FreeProjects : \A r \in FreeProjects : q <= r
               /\ project' = [project EXCEPT ![p] = [NoProject EXCEPT
                    !.status = "live", !.story = StoryOf[make[x].item], !.maker = x]]
               /\ make' = [make EXCEPT ![x].pc = "attach", ![x].project = p]
  BY DEF CreateProject
<1>2. p \in FreeProjects /\ p \in ProjectIds
  <2>1. FreeProjects \subseteq ProjectIds /\ FreeProjects # {}
    BY DEF CreateProject, FreeProjects
  <2>2. QED
    BY <1>1, <2>1, LowestProject
<1> DEFINE row == [NoProject EXCEPT !.status = "live", !.story = StoryOf[make[x].item], !.maker = x]
           call == [make[x] EXCEPT !.pc = "attach", !.project = p]
<1>3. project' = [project EXCEPT ![p] = row] /\ make' = [make EXCEPT ![x] = call]
  <2>1. make \in [Makers -> MakeRecs]
    BY DEF SelectionInv, MakesOk
  <2>2. project' = [project EXCEPT ![p] = row]
    BY <1>1, Zenon
  <2>3. make' = [make EXCEPT ![x].pc = "attach", ![x].project = p]
    BY <1>1, Zenon
  <2>4. QED
    BY <2>1, <2>2, <2>3
<1>4. row \in ProjectRows
  BY <1>0 DEF NoProject, ProjectRows, Stories
<1>5. call \in MakeRecs /\ MakeCallOk(call)
  BY <1>0, <1>2 DEF MakeRecs, MakeSteps, MakeCallOk, Between
<1> HIDE DEF row, call
<1>6. MakesOk'
  <2>1. MakesOk /\ contended' \subseteq Stories
    BY <1>0 DEF SelectionInv, MakesOk
  <2>2. QED
    BY <1>3, <1>5, <2>1, MakeChanges
<1>7. ProjectsOk'
  <2>1. PICK n \in Nat : \A q \in ProjectIds : project[q].status # "none" => q <= n
    BY DEF SelectionInv, ProjectsOk
  <2>2. p \in Nat /\ \A q \in ProjectIds : q \in Nat
    BY <1>2, SelectionConstants
  <2>3. project' \in [ProjectIds -> ProjectRows]
    BY <1>3, <1>4 DEF SelectionInv, ProjectsOk
  <2>4. \A q \in ProjectIds : project'[q].status # "none" => q <= n + p
    BY <1>3, <2>1, <2>2 DEF SelectionInv, ProjectsOk
  <2>5. n + p \in Nat
    BY <2>2
  <2>6. QED
    BY <2>3, <2>4, <2>5 DEF ProjectsOk
<1>8. DiscoveryInv'
  BY <1>0, DiscoveryRests DEF SelectionInv, DiscoveryInv, CountersOk
<1>9. QED
  BY <1>6, <1>7, <1>8 DEF SelectionInv

\* A call writes its project, of which only it has the number.
LEMMA ProjectStepOk ==
  ASSUME SelectionInv, NEW x \in Makers, NEW from, NEW to \in MakeSteps,
         from \notin Between, NEW row,
         make[x].project \in ProjectIds => row \in ProjectRows /\ row.status = Row(x).status,
         ProjectStep(x, from, to, row)
  PROVE  SelectionInv'
<1>1. ProjectsOk'
  BY ProjectChanges DEF SelectionInv, ProjectStep, Row
<1>2. MakesOk'
  BY MakeGoesOk DEF SelectionInv, ProjectStep
<1>3. DiscoveryInv'
  BY DiscoveryRests DEF ProjectStep, SelectionInv, DiscoveryInv, CountersOk
<1>4. QED
  BY <1>1, <1>2, <1>3 DEF SelectionInv

LEMMA WritesOk ==
  ASSUME SelectionInv, NEW x \in Makers, AttachItem(x) \/ Generate(x) \/ Reattach(x)
  PROVE  SelectionInv'
<1>0. make[x].pc \notin Between => make[x].item \in Entries
  BY DEF SelectionInv, MakesOk, MakeCallOk, Between
<1>1. make[x].project \in ProjectIds => Row(x) \in ProjectRows
  BY DEF Row, SelectionInv, ProjectsOk
<1>2. ASSUME AttachItem(x) PROVE SelectionInv'
  <2> DEFINE row == [Row(x) EXCEPT !.item = make[x].item, !.origin = "manual"]
  <2>1. make[x].item \in Entries
    BY <1>0, <1>2 DEF AttachItem, ProjectStep, Between
  <2>2. make[x].project \in ProjectIds => row \in ProjectRows /\ row.status = Row(x).status
    BY <1>1, <2>1 DEF ProjectRows
  <2>3. ProjectStep(x, "attach", "generate", row)
    BY <1>2 DEF AttachItem
  <2> HIDE DEF row
  <2>4. QED
    BY <2>2, <2>3, ProjectStepOk DEF MakeSteps, Between
<1>3. ASSUME Generate(x) PROVE SelectionInv'
  <2> DEFINE row == [Row(x) EXCEPT !.generated = TRUE]
  <2>1. make[x].project \in ProjectIds => row \in ProjectRows /\ row.status = Row(x).status
    BY <1>1 DEF ProjectRows
  <2>2. ProjectStep(x, "generate", "mark", row) \/ ProjectStep(x, "regenerate", "process", row)
    BY <1>3 DEF Generate
  <2> HIDE DEF row
  <2>3. QED
    BY <2>1, <2>2, ProjectStepOk DEF MakeSteps, Between
<1>4. ASSUME Reattach(x) PROVE SelectionInv'
  <2> DEFINE row == [Row(x) EXCEPT !.item = make[x].item]
  <2>1. make[x].item \in Entries
    BY <1>0, <1>4 DEF Reattach, ProjectStep, Between
  <2>2. make[x].project \in ProjectIds => row \in ProjectRows /\ row.status = Row(x).status
    BY <1>1, <2>1 DEF ProjectRows
  <2>3. ProjectStep(x, "reattach", "cluster", row)
    BY <1>4 DEF Reattach
  <2> HIDE DEF row
  <2>4. QED
    BY <2>2, <2>3, ProjectStepOk DEF MakeSteps, Between
<1>5. QED
  BY <1>2, <1>3, <1>4

LEMMA ItemStepOk ==
  ASSUME SelectionInv, NEW x \in Makers, NEW from, NEW to \in MakeSteps, NEW status \in ItemStatus,
         from \notin Between, ItemStep(x, from, to, status)
  PROVE  SelectionInv'
<1>1. make[x].item \in Entries
  BY DEF ItemStep, SelectionInv, MakesOk, MakeCallOk, Between
<1>2. ClusterOk' /\ Grows
  BY ClusterStays DEF ItemStep, SelectionInv, DiscoveryInv
<1>3. item[make[x].item] \in ItemRows
      /\ item[make[x].item].cluster \in Existing \cup {None}
  BY <1>1 DEF SelectionInv, DiscoveryInv, ItemOk
<1>4. PICK row \in ItemRows : row = [item[make[x].item] EXCEPT !.status = status]
                              /\ row.cluster = item[make[x].item].cluster
  BY <1>3, StatusChanges
<1>5. item' = [item EXCEPT ![make[x].item] = row]
  BY <1>4 DEF ItemStep
<1>6. ItemOk' /\ FetchOk'
  BY <1>2, <1>3, <1>4, <1>5, ItemChanges, FetchStays
     DEF ItemStep, DiscoveryUnchanged, SelectionInv, DiscoveryInv, Grows
<1>7. DiscoveryInv'
  BY <1>2, <1>6 DEF ItemStep, DiscoveryUnchanged, SelectionInv, DiscoveryInv, FeedOk, BreakerOk,
                    CountersOk
<1>8. MakesOk' /\ ProjectsOk'
  BY MakeGoesOk, ProjectsStay DEF ItemStep, SelectionInv
<1>9. QED
  BY <1>7, <1>8 DEF SelectionInv

LEMMA SelectClusterOk ==
  ASSUME SelectionInv, NEW x \in Makers, SelectCluster(x)
  PROVE  SelectionInv'
<1>1. ClusterOk' /\ Grows
  <2> DEFINE c == make[x].cluster
  <2>1. CASE c # None /\ cluster[c].status = "open"
    <3>1. c \in Clusters
      BY <2>1 DEF SelectionInv, MakesOk, MakeRecs
    <3>2. PICK row \in ClusterRows : row = [cluster[c] EXCEPT !.status = "selected"]
                                     /\ row.status # "none"
      <4>1. cluster[c] \in ClusterRows /\ "selected" \in ClusterStatus
        BY <3>1 DEF SelectionInv, DiscoveryInv, ClusterOk, ClusterStatus
      <4>2. QED
        BY <4>1, StatusChanges
    <3>3. cluster' = [cluster EXCEPT ![c] = row]
      BY <2>1, <3>2 DEF SelectCluster
    <3>4. QED
      BY <3>2, <3>3, ClusterChanges DEF SelectionInv, DiscoveryInv
  <2>2. CASE ~ (c # None /\ cluster[c].status = "open")
    <3>1. UNCHANGED cluster
      BY <2>2 DEF SelectCluster
    <3>2. QED
      BY <3>1, ClusterStays DEF SelectionInv, DiscoveryInv
  <2>3. QED
    BY <2>1, <2>2
<1>2. ItemOk' /\ FetchOk'
  BY <1>1, ItemStays, FetchStays DEF SelectCluster, DiscoveryUnchanged, SelectionInv, DiscoveryInv
<1>3. DiscoveryInv'
  BY <1>1, <1>2 DEF SelectCluster, DiscoveryUnchanged, SelectionInv, DiscoveryInv, FeedOk,
                    BreakerOk, CountersOk
<1>4. MakesOk'
  <2>1. MakesOk /\ UNCHANGED contended /\ make[x].pc = "cluster"
        /\ contended' \subseteq Stories
    BY DEF SelectCluster, SelectionInv, MakesOk
  <2>2. CASE x = Planner
    BY <2>1, <2>2, MakeGoesOk DEF SelectCluster, MakeSteps, Between
  <2>3. CASE x # Planner
    BY <2>1, <2>3, MadeOk, MakeChanges DEF SelectCluster
  <2>4. QED
    BY <2>2, <2>3
<1>5. ProjectsOk'
  BY ProjectsStay DEF SelectCluster, SelectionInv
<1>6. QED
  BY <1>3, <1>4, <1>5 DEF SelectionInv

LEMMA OwnProjectOk ==
  ASSUME SelectionInv, OwnProject
  PROVE  SelectionInv'
<1>0. Planner \in Makers /\ MakesOk /\ ProjectsOk
  BY DEF Makers, SelectionInv
<1>1. DiscoveryInv'
  BY DiscoveryRests DEF OwnProject, SelectionInv, DiscoveryInv, CountersOk
<1>2. MakesOk'
  BY <1>0, MadeOk, MakeChanges DEF OwnProject, MakesOk
<1>3. ProjectsOk'
  <2> DEFINE p == make[Planner].project
             row == [project[p] EXCEPT !.origin = "auto"]
  <2>1. p \in ProjectIds => row \in ProjectRows /\ row.status = project[p].status
    <3>1. p \in ProjectIds => project[p] \in ProjectRows
      BY <1>0 DEF ProjectsOk
    <3>2. QED
      BY <3>1 DEF ProjectRows
  <2>2. project' = [project EXCEPT ![p] = row]
    BY DEF OwnProject
  <2> HIDE DEF row
  <2>3. QED
    BY <1>0, <2>1, <2>2, ProjectChanges
<1>4. QED
  BY <1>1, <1>2, <1>3 DEF SelectionInv

LEMMA MakeFailsOk ==
  ASSUME SelectionInv, NEW x \in Makers, MakeFails(x)
  PROVE  SelectionInv'
<1>1. DiscoveryInv'
  BY Counted, DiscoveryRests DEF MakeFails, SelectionInv, DiscoveryInv, CountersOk
<1>2. MakesOk'
  BY MadeOk, MakeChanges DEF MakeFails, SelectionInv, MakesOk
<1>3. QED
  BY <1>1, <1>2, ProjectsStay DEF MakeFails, SelectionInv

LEMMA DeleteProjectOk ==
  ASSUME SelectionInv, NEW p \in ProjectIds, DeleteProject(p)
  PROVE  SelectionInv'
<1>1. DiscoveryInv'
  BY Counted, DiscoveryRests DEF DeleteProject, SelectionInv, DiscoveryInv, CountersOk
<1>2. MakesOk'
  BY MakesStay DEF DeleteProject, SelectionInv
<1>3. ProjectsOk'
  <2>1. project[p] \in ProjectRows /\ project[p].status = "live"
    BY DEF DeleteProject, Live, SelectionInv, ProjectsOk
  <2>2. PICK row \in ProjectRows : row = [project[p] EXCEPT !.status = "deleted"]
    BY <2>1 DEF ProjectRows
  <2>3. project' = [project EXCEPT ![p] = row]
    BY <2>2 DEF DeleteProject
  <2>4. PICK n \in Nat : \A q \in ProjectIds : project[q].status # "none" => q <= n
    BY DEF SelectionInv, ProjectsOk
  <2>5. \A q \in ProjectIds : project'[q].status # "none" => q <= n
    BY <2>1, <2>3, <2>4 DEF SelectionInv, ProjectsOk
  <2>6. project' \in [ProjectIds -> ProjectRows]
    BY <2>3 DEF SelectionInv, ProjectsOk
  <2>7. QED
    BY <2>4, <2>5, <2>6 DEF ProjectsOk
<1>4. QED
  BY <1>1, <1>2, <1>3 DEF SelectionInv

LEMMA MakeStepOk ==
  ASSUME SelectionInv, NEW x \in Makers, MakeStep(x)
  PROVE  SelectionInv'
<1>1. ASSUME MarkItem(x) PROVE SelectionInv'
  BY <1>1, ItemStepOk DEF MarkItem, MakeSteps, Between, ItemStatus
<1>2. QED
  BY <1>1, ReadItemOk, ReadCoverageOk, CreateProjectOk, WritesOk, SelectClusterOk DEF MakeStep

LEMMA SelectionNextOk == SelectionInv /\ [SelectionNext]_selectionVars => SelectionInv'
<1> SUFFICES ASSUME SelectionInv, [SelectionNext]_selectionVars PROVE SelectionInv'
  OBVIOUS
<1>1. ASSUME [Next]_vars, UNCHANGED <<project, make, contended>> PROVE SelectionInv'
  BY <1>1, DiscoveryNext, MakesStay, ProjectsStay DEF SelectionInv
<1>2. Planner \in Makers /\ Editors \subseteq Makers
  BY DEF Makers
<1>3. CASE SelectionNext
  BY <1>1, <1>2, <1>3, PlannerMovesOk, OwnProjectOk, MakeStepOk, EditorAsksOk, MakeFailsOk,
     DeleteProjectOk DEF SelectionNext, PlannerStep, Discovers
<1>4. CASE UNCHANGED selectionVars
  BY <1>1, <1>4 DEF selectionVars
<1>5. QED
  BY <1>3, <1>4

\* Selection keeps its types, and those of the discovery it works on: every call
\* names a stored cluster and a project by the time it writes them.
THEOREM SelectionTypeCorrect == SelectionSpec => []SelectionTypeOK
<1>1. SelectionInit => SelectionInv
  BY SelectionInitOk
<1>2. SelectionInv /\ [SelectionNext]_selectionVars => SelectionInv'
  BY SelectionNextOk
<1>3. SelectionInv => SelectionTypeOK
  BY SelectionTypes
<1>4. QED
  BY <1>1, <1>2, <1>3, PTL DEF SelectionSpec

-----------------------------------------------------------------------------
(* One project for a story *)

\* The calls that look whether a story is covered, or that found it is not.
Looking(s) == {x \in Makers : /\ make[x].pc \in {"cover", "create"}
                              /\ StoryOf[make[x].item] = s}

RaceInv == \A s \in Stories \ contended :
  /\ \A x, y \in Looking(s) : x = y
  /\ \A x \in Looking(s) : make[x].pc = "create" => Covering(s) = {}
  /\ \A p, q \in Covering(s) : p = q

LEMMA RaceKept ==
  ASSUME RaceInv, contended' = contended,
         \A s \in Stories : Covering(s)' \subseteq Covering(s),
         \A x \in Makers : make'[x].pc \in {"cover", "create"} =>
           make[x].pc = make'[x].pc /\ make[x].item = make'[x].item
  PROVE  RaceInv'
<1>1. \A s \in Stories : Looking(s)' \subseteq Looking(s)
  BY DEF Looking
<1>2. SUFFICES ASSUME NEW s \in Stories \ contended
               PROVE  /\ \A x, y \in Looking(s)' : x = y
                      /\ \A x \in Looking(s)' : make'[x].pc = "create" => Covering(s)' = {}
                      /\ \A p, q \in Covering(s)' : p = q
  BY DEF RaceInv
<1>3. \A x \in Looking(s)' : make'[x].pc = "create" => make[x].pc = "create"
  BY DEF Looking
<1>4. Looking(s)' \subseteq Looking(s) /\ Covering(s)' \subseteq Covering(s)
  BY <1>1
<1>5. QED
  BY <1>3, <1>4 DEF RaceInv

LEMMA SameCoverage ==
  ASSUME UNCHANGED project
  PROVE  \A s \in Stories : Covering(s)' \subseteq Covering(s)
  BY DEF Covering, Live

\* The step of a call that does not start to look.
LEMMA CallLooksNot ==
  ASSUME SelectionInv, RaceInv, NEW x \in Makers, NEW call,
         make' = [make EXCEPT ![x] = call], call.pc \notin {"cover", "create"},
         contended' = contended, \A s \in Stories : Covering(s)' \subseteq Covering(s)
  PROVE  RaceInv'
<1>1. \A y \in Makers : make'[y] = IF y = x THEN call ELSE make[y]
  BY DEF SelectionInv, MakesOk
<1>2. QED
  BY <1>1, RaceKept

\* A written project tells the same story, and is live if it was.
LEMMA CoverageKept ==
  ASSUME ProjectsOk, NEW p, NEW row, project' = [project EXCEPT ![p] = row],
         p \in ProjectIds => /\ row.story = project[p].story
                             /\ row.status = "live" => project[p].status = "live"
  PROVE  \A s \in Stories : Covering(s)' \subseteq Covering(s)
  BY DEF ProjectsOk, Covering, Live

\* Whoever reads the item of a story that another call is looking at sees that
\* call.
LEMMA ReadItemRaces ==
  ASSUME SelectionInv, RaceInv, NEW x \in Makers, ReadItem(x)
  PROVE  RaceInv'
<1>0. /\ make[x] \in MakeRecs /\ make[x].item \in Entries /\ make[x].pc = "read"
      /\ UNCHANGED project /\ make \in [Makers -> MakeRecs]
  BY DEF ReadItem, SelectionInv, MakesOk, MakeCallOk, Between
<1> DEFINE e == make[x].item
           s == StoryOf[e]
<1>1. /\ \A y \in Makers : make'[y].item = make[y].item
      /\ \A y \in Makers : y # x => make'[y] = make[y]
      /\ make'[x].pc = "cover"
  BY <1>0 DEF ReadItem, MakeRecs
<1>2. contended' = IF Cardinality(Busy(s)) > 1 THEN contended \cup {s} ELSE contended
  BY DEF ReadItem
<1>3. SUFFICES ASSUME NEW t \in Stories, t \notin contended'
               PROVE  /\ \A y, z \in Looking(t)' : y = z
                      /\ \A y \in Looking(t)' : make'[y].pc = "create" => Covering(t)' = {}
                      /\ \A p, q \in Covering(t)' : p = q
  BY DEF RaceInv
<1>4. t \notin contended /\ Covering(t)' = Covering(t)
  BY <1>0, <1>2, <1>3 DEF Covering, Live
<1>5. \A y \in Looking(t)' : make'[y].pc = "create" => y \in Looking(t) /\ make[y].pc = "create"
  BY <1>1 DEF Looking
<1>6. \A y, z \in Looking(t)' : y = z
  <2>1. CASE t # s
    <3>1. Looking(t)' \subseteq Looking(t)
      BY <1>1, <2>1 DEF Looking
    <3>2. QED
      BY <1>4, <3>1 DEF RaceInv
  <2>2. CASE t = s
    <3>1. Busy(s) \subseteq Engaged /\ x \in Busy(s)
      BY <1>0, DiscoveryConstants DEF Busy, Engaged
    <3>2. IsFiniteSet(Busy(s)) /\ Cardinality(Busy(s)) \in Nat
      BY <3>1, Within DEF SelectionInv, MakesOk
    <3>3. ASSUME NEW y \in Busy(s), y # x PROVE FALSE
      <4>1. Cardinality(Busy(s) \ {x}) = Cardinality(Busy(s)) - 1
            /\ IsFiniteSet(Busy(s) \ {x})
        BY <3>1, <3>2, FS_RemoveElement
      <4>2. Busy(s) \ {x} # {}
        BY <3>3
      <4>3. Cardinality(Busy(s) \ {x}) # 0 /\ Cardinality(Busy(s) \ {x}) \in Nat
        BY <4>1, <4>2, FS_EmptySet, FS_CardinalityType
      <4>4. Cardinality(Busy(s)) > 1
        BY <3>2, <4>1, <4>3
      <4>5. QED
        BY <1>2, <1>3, <2>2, <4>4
    <3>4. Looking(t)' \subseteq Busy(s)
      BY <1>0, <1>1, <2>2, DiscoveryConstants
         DEF Looking, Busy, SelectionInv, MakesOk, MakeCallOk, Between
    <3>5. QED
      BY <3>3, <3>4
  <2>3. QED
    BY <2>1, <2>2
<1>7. QED
  BY <1>4, <1>5, <1>6 DEF RaceInv

LEMMA ReadCoverageRaces ==
  ASSUME SelectionInv, RaceInv, NEW x \in Makers, ReadCoverage(x)
  PROVE  RaceInv'
<1>0. /\ make[x] \in MakeRecs /\ make[x].pc = "cover" /\ UNCHANGED <<project, contended>>
      /\ make \in [Makers -> MakeRecs]
  BY DEF ReadCoverage, Moves, SelectionInv, MakesOk
<1> DEFINE s == StoryOf[make[x].item]
<1>1. ASSUME Covering(s) = {}, Moves(x, [make[x] EXCEPT !.pc = "create"]) PROVE RaceInv'
  <2>1. /\ \A y \in Makers : make'[y].item = make[y].item
        /\ \A y \in Makers : y # x => make'[y] = make[y]
    BY <1>0, <1>1 DEF Moves, MakeRecs
  <2>2. SUFFICES ASSUME NEW t \in Stories \ contended
                 PROVE  /\ \A y, z \in Looking(t)' : y = z
                        /\ \A y \in Looking(t)' : make'[y].pc = "create" => Covering(t)' = {}
                        /\ \A p, q \in Covering(t)' : p = q
    BY <1>0 DEF RaceInv
  <2>3. Looking(t)' \subseteq Looking(t) /\ Covering(t)' = Covering(t)
    BY <1>0, <2>1 DEF Looking, Covering, Live
  <2>4. ASSUME NEW y \in Looking(t)', make'[y].pc = "create" PROVE Covering(t) = {}
    <3>1. CASE y = x
      BY <1>1, <2>1, <2>4, <3>1 DEF Looking
    <3>2. CASE y # x
      BY <2>1, <2>3, <2>4, <3>2 DEF RaceInv, Looking
    <3>3. QED
      BY <3>1, <3>2
  <2>5. QED
    BY <2>3, <2>4 DEF RaceInv
<1>2. ASSUME Moves(x, Thrown(x)) PROVE RaceInv'
  <2>1. Thrown(x).pc \notin {"cover", "create"}
    BY DEF Thrown, MakeIdle
  <2>2. QED
    BY <1>0, <1>2, <2>1, CallLooksNot, SameCoverage DEF Moves
<1>3. ASSUME NEW p, Moves(x, [make[x] EXCEPT !.pc = "regenerate", !.project = p])
      PROVE  RaceInv'
  <2>1. [make[x] EXCEPT !.pc = "regenerate", !.project = p].pc = "regenerate"
    BY <1>0 DEF MakeRecs
  <2>2. QED
    BY <1>0, <1>3, <2>1, CallLooksNot, SameCoverage DEF Moves
<1>4. QED
  BY <1>1, <1>2, <1>3 DEF ReadCoverage

\* Nobody else looks at the story of a project that is created, unless it was
\* contended: the others will find the project.
LEMMA CreateProjectRaces ==
  ASSUME SelectionInv, RaceInv, NEW x \in Makers, CreateProject(x)
  PROVE  RaceInv'
<1>0. /\ make[x] \in MakeRecs /\ make[x].pc = "create" /\ UNCHANGED contended
      /\ make \in [Makers -> MakeRecs] /\ project \in [ProjectIds -> ProjectRows]
  BY DEF CreateProject, SelectionInv, MakesOk, ProjectsOk
<1>a. PICK s : s = StoryOf[make[x].item]
  OBVIOUS
<1>1. PICK p : /\ project' = [project EXCEPT ![p] = [NoProject EXCEPT
                    !.status = "live", !.story = s, !.maker = x]]
               /\ make' = [make EXCEPT ![x].pc = "attach", ![x].project = p]
  BY <1>a DEF CreateProject
<1>2. /\ \A q \in ProjectIds : q # p => project'[q] = project[q]
      /\ p \in ProjectIds => project'[p].story = s
  BY <1>0, <1>1 DEF NoProject
<1>3. \A t \in Stories : t # s => Covering(t)' \subseteq Covering(t)
  BY <1>2 DEF Covering, Live
<1>4. Covering(s)' \subseteq Covering(s) \cup {p}
  BY <1>2 DEF Covering, Live
<1>5. /\ \A y \in Makers : y # x => make'[y] = make[y]
      /\ make'[x].pc = "attach"
  BY <1>0, <1>1 DEF MakeRecs
<1>6. SUFFICES ASSUME NEW t \in Stories \ contended
               PROVE  /\ \A y, z \in Looking(t)' : y = z
                      /\ \A y \in Looking(t)' : make'[y].pc = "create" => Covering(t)' = {}
                      /\ \A q, r \in Covering(t)' : q = r
  BY <1>0 DEF RaceInv
<1>7. Looking(t)' \subseteq Looking(t) \ {x}
      /\ \A y \in Looking(t)' : make'[y] = make[y]
  BY <1>5 DEF Looking
<1>8. CASE t = s
  <2>1. x \in Looking(t)
    BY <1>0, <1>8, <1>a DEF Looking
  <2>2. Covering(t) = {} /\ Looking(t)' = {}
    BY <1>0, <1>7, <2>1 DEF RaceInv
  <2>3. QED
    BY <1>4, <1>8, <2>2
<1>9. CASE t # s
  BY <1>3, <1>7, <1>9 DEF RaceInv
<1>10. QED
  BY <1>8, <1>9

\* The steps after a project was found or created, and those between calls.
LEMMA AfterwardsRaces ==
  ASSUME SelectionInv, RaceInv, NEW x \in Makers,
         AttachItem(x) \/ Generate(x) \/ MarkItem(x) \/ Reattach(x) \/ SelectCluster(x)
  PROVE  RaceInv'
<1>0. make[x] \in MakeRecs /\ make \in [Makers -> MakeRecs] /\ ProjectsOk
  BY DEF SelectionInv, MakesOk
<1>1. make[x].project \in ProjectIds => Row(x) \in ProjectRows
  BY <1>0 DEF Row, ProjectsOk
<1>2. ASSUME NEW from, NEW to, NEW row, ProjectStep(x, from, to, row),
             to \notin {"cover", "create"},
             make[x].project \in ProjectIds => row.story = Row(x).story /\ row.status = Row(x).status
      PROVE  RaceInv'
  <2>1. \A s \in Stories : Covering(s)' \subseteq Covering(s)
    BY <1>0, <1>2, CoverageKept DEF ProjectStep, Row
  <2>2. contended' = contended /\ make' = [make EXCEPT ![x] = [make[x] EXCEPT !.pc = to]]
    BY <1>2 DEF ProjectStep, MakeGoto
  <2>3. [make[x] EXCEPT !.pc = to].pc = to
    BY <1>0 DEF MakeRecs
  <2>4. QED
    BY <1>2, <2>1, <2>2, <2>3, CallLooksNot
<1>3. ASSUME NEW from, NEW to, NEW status, ItemStep(x, from, to, status),
             to \notin {"cover", "create"}
      PROVE  RaceInv'
  <2>1. contended' = contended /\ UNCHANGED project
        /\ make' = [make EXCEPT ![x] = [make[x] EXCEPT !.pc = to]]
    BY <1>3 DEF ItemStep, MakeGoto
  <2>2. [make[x] EXCEPT !.pc = to].pc = to
    BY <1>0 DEF MakeRecs
  <2>3. QED
    BY <1>3, <2>1, <2>2, CallLooksNot, SameCoverage
<1>4. ASSUME AttachItem(x) PROVE RaceInv'
  <2> DEFINE row == [Row(x) EXCEPT !.item = make[x].item, !.origin = "manual"]
  <2>1. make[x].project \in ProjectIds => row.story = Row(x).story /\ row.status = Row(x).status
    BY <1>1 DEF ProjectRows
  <2>2. ProjectStep(x, "attach", "generate", row)
    BY <1>4 DEF AttachItem
  <2> HIDE DEF row
  <2>3. QED
    BY <1>2, <2>1, <2>2
<1>5. ASSUME Generate(x) PROVE RaceInv'
  <2> DEFINE row == [Row(x) EXCEPT !.generated = TRUE]
  <2>1. make[x].project \in ProjectIds => row.story = Row(x).story /\ row.status = Row(x).status
    BY <1>1 DEF ProjectRows
  <2>2. ProjectStep(x, "generate", "mark", row) \/ ProjectStep(x, "regenerate", "process", row)
    BY <1>5 DEF Generate
  <2> HIDE DEF row
  <2>3. QED
    BY <1>2, <2>1, <2>2
<1>6. ASSUME Reattach(x) PROVE RaceInv'
  <2> DEFINE row == [Row(x) EXCEPT !.item = make[x].item]
  <2>1. make[x].project \in ProjectIds => row.story = Row(x).story /\ row.status = Row(x).status
    BY <1>1 DEF ProjectRows
  <2>2. ProjectStep(x, "reattach", "cluster", row)
    BY <1>6 DEF Reattach
  <2> HIDE DEF row
  <2>3. QED
    BY <1>2, <2>1, <2>2
<1>7. ASSUME MarkItem(x) PROVE RaceInv'
  BY <1>3, <1>7 DEF MarkItem
<1>8. ASSUME SelectCluster(x) PROVE RaceInv'
  <2>1. contended' = contended /\ UNCHANGED project
    BY <1>8 DEF SelectCluster
  <2>2. \/ make' = [make EXCEPT ![x] = [make[x] EXCEPT !.pc = "find"]]
        \/ make' = [make EXCEPT ![x] = Made(x)]
    BY <1>8 DEF SelectCluster, MakeGoto
  <2>3. [make[x] EXCEPT !.pc = "find"].pc = "find" /\ Made(x).pc \notin {"cover", "create"}
    BY <1>0 DEF MakeRecs, Made, MakeIdle
  <2>4. QED
    BY <2>1, <2>2, <2>3, CallLooksNot, SameCoverage
<1>9. QED
  BY <1>4, <1>5, <1>6, <1>7, <1>8

LEMMA PlannerRaces ==
  ASSUME SelectionInv, RaceInv,
         PlannerLists \/ PlannerSelects \/ PlannerTakes \/ FindProject \/ OwnProject
  PROVE  RaceInv'
<1>0. Planner \in Makers /\ make[Planner] \in MakeRecs /\ ProjectsOk
  BY DEF Makers, SelectionInv, MakesOk
<1>1. ASSUME NEW call, Moves(Planner, call), call.pc \notin {"cover", "create"} PROVE RaceInv'
  BY <1>0, <1>1, CallLooksNot, SameCoverage DEF Moves
<1>2. ASSUME PlannerLists \/ PlannerSelects PROVE RaceInv'
  <2>1. \/ Moves(Planner, [make[Planner] EXCEPT !.pc = "select", !.listed = Candidates])
        \/ Moves(Planner, [make[Planner] EXCEPT !.pc = "next", !.listed = {}])
        \/ /\ make[Planner].pc = "select"
           /\ \E some, rest : Moves(Planner, [make[Planner] EXCEPT !.listed = rest,
                                                                  !.wanted = some])
    BY <1>2 DEF PlannerLists, PlannerSelects
  <2>2. [make[Planner] EXCEPT !.pc = "select", !.listed = Candidates].pc = "select"
    BY <1>0 DEF MakeRecs
  <2>3. [make[Planner] EXCEPT !.pc = "next", !.listed = {}].pc = "next"
    BY <1>0 DEF MakeRecs
  <2>4. \A some, rest : [make[Planner] EXCEPT !.listed = rest, !.wanted = some].pc
                          = make[Planner].pc
    BY <1>0 DEF MakeRecs
  <2>5. QED
    BY <1>1, <2>1, <2>2, <2>3, <2>4
<1>3. ASSUME PlannerTakes PROVE RaceInv'
  <2>1. \/ \E e : Moves(Planner, [make[Planner] EXCEPT !.pc = "read", !.item = e,
                                                       !.wanted = @ \ {e}])
        \/ Moves(Planner, MakeIdle)
    BY <1>3 DEF PlannerTakes
  <2>2. \A e : [make[Planner] EXCEPT !.pc = "read", !.item = e, !.wanted = @ \ {e}].pc = "read"
    BY <1>0 DEF MakeRecs
  <2>3. MakeIdle.pc = "idle"
    BY DEF MakeIdle
  <2>4. QED
    BY <1>1, <2>1, <2>2, <2>3
<1>4. ASSUME FindProject PROVE RaceInv'
  <2>1. \/ Moves(Planner, Made(Planner))
        \/ \E p : Moves(Planner, [make[Planner] EXCEPT !.pc = "own", !.project = p])
    BY <1>4 DEF FindProject
  <2>2. \A p : [make[Planner] EXCEPT !.pc = "own", !.project = p].pc = "own"
    BY <1>0 DEF MakeRecs
  <2>3. Made(Planner).pc = "next"
    BY DEF Made, MakeIdle
  <2>4. QED
    BY <1>1, <2>1, <2>2, <2>3
<1>5. ASSUME OwnProject PROVE RaceInv'
  <2> DEFINE p == make[Planner].project
             row == [project[p] EXCEPT !.origin = "auto"]
  <2>1. p \in ProjectIds => row.story = project[p].story /\ row.status = project[p].status
    <3>1. p \in ProjectIds => project[p] \in ProjectRows
      BY <1>0 DEF ProjectsOk
    <3>2. QED
      BY <3>1 DEF ProjectRows
  <2>2. project' = [project EXCEPT ![p] = row]
    BY <1>5 DEF OwnProject
  <2> HIDE DEF row
  <2>3. \A s \in Stories : Covering(s)' \subseteq Covering(s)
    BY <1>0, <2>1, <2>2, CoverageKept
  <2>4. Made(Planner).pc = "next"
    BY DEF Made, MakeIdle
  <2>5. QED
    BY <1>0, <1>5, <2>3, <2>4, CallLooksNot DEF OwnProject
<1>6. QED
  BY <1>2, <1>3, <1>4, <1>5

LEMMA RaceNext ==
  ASSUME SelectionInv, RaceInv, [SelectionNext]_selectionVars
  PROVE  RaceInv'
<1>0. Planner \in Makers /\ Editors \subseteq Makers
  BY DEF Makers
<1>1. ASSUME UNCHANGED <<project, make, contended>> PROVE RaceInv'
  BY <1>1, RaceKept, SameCoverage
<1>2. ASSUME NEW x \in Editors, NEW e, NEW u, EditorAsks(x, e, u) PROVE RaceInv'
  <2>1. [MakeIdle EXCEPT !.pc = "read", !.item = e, !.update = u].pc = "read"
    BY DEF MakeIdle
  <2>2. QED
    BY <1>0, <1>2, <2>1, CallLooksNot, SameCoverage DEF EditorAsks
<1>3. ASSUME NEW x \in Makers, MakeFails(x) PROVE RaceInv'
  <2>1. Thrown(x).pc \notin {"cover", "create"}
    BY DEF Thrown, MakeIdle
  <2>2. QED
    BY <1>3, <2>1, CallLooksNot, SameCoverage DEF MakeFails
<1>4. ASSUME NEW p \in ProjectIds, DeleteProject(p) PROVE RaceInv'
  <2> DEFINE row == [project[p] EXCEPT !.status = "deleted"]
  <2>1. row.story = project[p].story /\ row.status = "deleted"
    BY DEF SelectionInv, ProjectsOk, ProjectRows
  <2>2. project' = [project EXCEPT ![p] = row] /\ UNCHANGED <<make, contended>>
    BY <1>4 DEF DeleteProject
  <2> HIDE DEF row
  <2>3. \A s \in Stories : Covering(s)' \subseteq Covering(s)
    BY <2>1, <2>2, CoverageKept DEF SelectionInv
  <2>4. QED
    BY <2>2, <2>3, RaceKept
<1>5. CASE SelectionNext
  BY <1>0, <1>1, <1>2, <1>3, <1>4, <1>5, PlannerRaces, ReadItemRaces, ReadCoverageRaces,
     CreateProjectRaces, AfterwardsRaces
     DEF SelectionNext, PlannerStep, MakeStep, Discovers
<1>6. CASE UNCHANGED selectionVars
  BY <1>1, <1>6 DEF selectionVars
<1>7. QED
  BY <1>5, <1>6

\* However many items tell a story, whoever asks for a project of them and
\* wherever a call is cut off, a story has one project at a time, unless two calls
\* were looking for it at once.
THEOREM OneProjectPerStoryAlways == SelectionSpec => []OneProjectPerStory
<1>1. SelectionInit => SelectionInv /\ RaceInv
  <2>1. SelectionInit => RaceInv
    BY DEF SelectionInit, RaceInv, Looking, Covering, Live, MakeIdle, NoProject
  <2>2. QED
    BY <2>1, SelectionInitOk
<1>2. SelectionInv /\ RaceInv /\ [SelectionNext]_selectionVars => (SelectionInv /\ RaceInv)'
  BY SelectionNextOk, RaceNext
<1>3. SelectionInv /\ RaceInv => OneProjectPerStory
  <2> SUFFICES ASSUME RaceInv, NEW s \in Stories, s \notin contended
               PROVE  Cardinality(Covering(s)) <= 1
    BY DEF OneProjectPerStory
  <2>1. \A p, q \in Covering(s) : p = q
    BY DEF RaceInv
  <2>2. CASE Covering(s) = {}
    BY <2>2, FS_EmptySet
  <2>3. ASSUME NEW p \in Covering(s) PROVE Cardinality(Covering(s)) <= 1
    <3>1. Covering(s) = {p}
      BY <2>1
    <3>2. Cardinality({p}) = 1
      BY FS_Singleton, Zenon
    <3>3. QED
      BY <3>1, <3>2
  <2>4. QED
    BY <2>2, <2>3
<1>4. QED
  BY <1>1, <1>2, <1>3, PTL DEF SelectionSpec
=============================================================================
