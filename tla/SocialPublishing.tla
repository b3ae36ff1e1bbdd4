-------------------------- MODULE SocialPublishing --------------------------
(***************************************************************************)
(* How a social publication travels from its durable row to the platform:  *)
(* the operator's API requests, the scheduler processes that claim due     *)
(* rows and enqueue them, the BullMQ queue queue_social, the social        *)
(* workers and their asynchronous "failed" handlers.                       *)
(*                                                                         *)
(* A step is the code between two awaits that another process can see: one *)
(* database statement (or transaction), one queue call, one platform call. *)
(* What a process read before an await it keeps in `seen' and uses after.  *)
(***************************************************************************)
EXTENDS Naturals, FiniteSets, PublicationStates, BullQueue

CONSTANTS
  Pubs,         \* publication rows, each of a project of its own
  Schedulers,   \* scheduler processes
  Requests,     \* API requests that operators will ever make
  Workers,      \* social worker processes, each with concurrency 1
  AttemptIds,   \* ids of publication_attempts rows (and of their jobs)
  Operations,   \* the operations the requests may ask for
  BatchSize,    \* SCHEDULER_BATCH_SIZE
  MaxRetries,   \* PUBLICATION_MAX_RETRIES
  BullAttempts, \* WORKER_MAX_ATTEMPTS
  MaxStalls,    \* WORKER_MAX_STALLED_COUNT
  MaxCrashes,   \* bound: processes that die
  MaxFaults,    \* bound: database or queue calls that throw
  None

\* patch is PATCH /v2/publications/:id without a date; reschedule stands for
\* every request that brings one (schedule, reschedule, publish-now, PATCH).
AllOperations == {"reschedule", "patch", "cancel", "retry", "delete", "unpublish",
                  "archive", "archive_unpublish"}

ASSUME ConstantsAssumption ==
  /\ Schedulers \cap Requests = {}
  /\ AttemptIds \subseteq Nat
  /\ Operations \subseteq AllOperations
  /\ BatchSize \in Nat \ {0} /\ BullAttempts \in Nat \ {0}
  /\ MaxRetries \in Nat /\ MaxStalls \in Nat
  /\ MaxCrashes \in Nat /\ MaxFaults \in Nat
  /\ None \notin Pubs \cup AttemptIds

Procs == Schedulers \cup Requests

VARIABLES
  pub,       \* publications rows
  att,       \* publication_attempts rows with their BullMQ jobs
  batch,     \* per scheduler: claimed ids its loop has not reached
  proc,      \* what each scheduler and each request is doing
  wk,        \* what each worker is doing
  handlers,  \* runs of the worker.on("failed") listener still in progress
  archived,  \* projects with deletedAt
  posts,     \* per publication: posts made on the platform so far
  live,      \* per publication: numbers of its posts that are up
  crashes, faults

vars == <<pub, att, batch, proc, wk, handlers, archived, posts, live,
          crashes, faults>>

-----------------------------------------------------------------------------
Blank == NewRow("draft")

Kinds == {"publish", "unpublish"}

AttemptStatus == {"free", "queued", "running", "succeeded", "failed"}

Attempts == [status : AttemptStatus, pub : Pubs \cup {None}, kind : Kinds,
             num : Nat, job : Jobs]

FreeAttempt == [status |-> "free", pub |-> None, kind |-> "publish",
                num |-> 0, job |-> NoJob]

ProcSteps == {"idle", "create", "mark", "add", "blocked", "error",
              "write", "enqueue", "archive", "done"}

ProcStates == [pc : ProcSteps, op : AllOperations \cup {"publish"},
               pub : Pubs \cup {None}, att : AttemptIds \cup {None}, seen : Rows]

ProcIdle == [pc |-> "idle", op |-> "publish", pub |-> None, att |-> None,
             seen |-> Blank]

ProcDone == [ProcIdle EXCEPT !.pc = "done"]

\* A scheduler goes on with its loop; a request has been answered.
Finished(x) == IF x \in Schedulers THEN ProcIdle ELSE ProcDone

WorkerSteps == {"idle", "loaded", "started", "called", "recorded",
                "finishing", "finished"}

WorkerStates == [pc : WorkerSteps, att : AttemptIds \cup {None}, post : Nat,
                 seen : Rows]

WorkerIdle == [pc |-> "idle", att |-> None, post |-> 0, seen |-> Blank]

HandlerStates == [att : AttemptIds, try : Nat, worker : Workers,
                  class : {"transient", "permanent"},
                  pc : {"new", "read"}, retries : Nat]

TypeOK ==
  /\ pub \in [Pubs -> Rows]
  /\ att \in [AttemptIds -> Attempts]
  /\ batch \in [Schedulers -> SUBSET Pubs]
  /\ proc \in [Procs -> ProcStates]
  /\ wk \in [Workers -> WorkerStates]
  /\ handlers \subseteq HandlerStates
  /\ archived \subseteq Pubs
  /\ posts \in [Pubs -> Nat]
  /\ live \in [Pubs -> SUBSET Nat]
  /\ crashes \in Nat /\ faults \in Nat

Init ==
  /\ pub \in [Pubs -> CreatedRows]
  /\ att = [a \in AttemptIds |-> FreeAttempt]
  /\ batch = [s \in Schedulers |-> {}]
  /\ proc = [x \in Procs |-> ProcIdle]
  /\ wk = [w \in Workers |-> WorkerIdle]
  /\ handlers = {}
  /\ archived = {}
  /\ posts = [p \in Pubs |-> 0]
  /\ live = [p \in Pubs |-> {}]
  /\ crashes = 0 /\ faults = 0

\* A database or queue call throws (the bound MaxFaults).
Fault == faults < MaxFaults /\ faults' = faults + 1

-----------------------------------------------------------------------------
(* The scheduler's tick: claim a batch, then enqueue its rows one by one *)

\* Faulty variant: the ids are selected, the rows are updated elsewhere.
ClaimWithoutUpdate(s) ==
  /\ proc[s].pc = "idle" /\ batch[s] = {}
  /\ \E due \in SUBSET {p \in Pubs : Claimable(pub[p])} :
       /\ due # {} /\ Cardinality(due) <= BatchSize
       /\ batch' = [batch EXCEPT ![s] = due]
  /\ UNCHANGED <<pub, att, proc, wk, handlers, archived, posts, live, crashes, faults>>

\* claimDuePublications: one transaction.  The rows whose dates have passed,
\* and those another transaction holds locked, are a free choice.
Claim(s) ==
  /\ proc[s].pc = "idle" /\ batch[s] = {}
  /\ \E due \in SUBSET {p \in Pubs : Claimable(pub[p])} :
       /\ due # {} /\ Cardinality(due) <= BatchSize
       /\ pub' = [p \in Pubs |-> IF p \in due THEN Claimed(pub[p]) ELSE pub[p]]
       /\ batch' = [batch EXCEPT ![s] = due]
  /\ UNCHANGED <<att, proc, wk, handlers, archived, posts, live, crashes, faults>>

\* enqueuePublication up to its first write: the row is read; a row that is
\* publishing ends the call; the release gate passes or throws.
ReadAndGate(x, p) ==
  \/ /\ pub[p].status = "publishing"
     /\ proc' = [proc EXCEPT ![x] = Finished(x)]
     /\ UNCHANGED faults
  \/ /\ pub[p].status # "publishing"
     /\ \E pc \in {"create", "blocked"} :
          proc' = [proc EXCEPT ![x] = [pc |-> pc, op |-> proc[x].op, pub |-> p,
                                       att |-> None, seen |-> pub[p]]]
     /\ UNCHANGED faults
  \/ /\ Fault
     /\ proc' = [proc EXCEPT ![x] = [pc |-> "error", op |-> proc[x].op,
                                     pub |-> p, att |-> None, seen |-> Blank]]

\* Faulty variant: the loop does not get past the id it has enqueued.
NextClaimedAgain(s) ==
  /\ proc[s].pc = "idle"
  /\ \E p \in batch[s] : ReadAndGate(s, p)
  /\ UNCHANGED <<pub, att, batch, wk, handlers, archived, posts, live, crashes>>

\* The loop of runSchedulerTick takes the next claimed id.
NextClaimed(s) ==
  /\ proc[s].pc = "idle"
  /\ \E p \in batch[s] :
       /\ batch' = [batch EXCEPT ![s] = @ \ {p}]
       /\ ReadAndGate(s, p)
  /\ UNCHANGED <<pub, att, wk, handlers, archived, posts, live, crashes>>

\* unpublishPublication calls enqueuePublication itself, in the API process.
RequestEnqueue(r) ==
  /\ proc[r].pc = "enqueue"
  /\ ReadAndGate(r, proc[r].pub)
  /\ UNCHANGED <<pub, att, batch, wk, handlers, archived, posts, live, crashes>>

IsArchive(op) == op \in {"archive", "archive_unpublish"}

FirstFree(a) ==
  /\ att[a].status = "free"
  /\ \A b \in AttemptIds : att[b].status = "free" => a <= b

\* The attempt row; its number comes from the row as it was read.
CreateAttempt(x) ==
  /\ proc[x].pc = "create"
  /\ \E a \in AttemptIds :
       /\ FirstFree(a)
       /\ att' = [att EXCEPT ![a] =
            [status |-> "queued", pub |-> proc[x].pub,
             kind |-> IF IsArchive(proc[x].op) THEN "unpublish" ELSE "publish",
             num |-> proc[x].seen.attempt + 1, job |-> NoJob]]
       /\ proc' = [proc EXCEPT ![x].att = a,
                     ![x].pc = IF IsArchive(proc[x].op) THEN "add" ELSE "mark"]
  /\ UNCHANGED <<pub, batch, wk, handlers, archived, posts, live, crashes, faults>>

MarkPublishing(x) ==
  /\ proc[x].pc = "mark"
  /\ pub' = [pub EXCEPT ![proc[x].pub] =
                MarkedPublishing(@, proc[x].seen.attempt + 1)]
  /\ proc' = [proc EXCEPT ![x].pc = "add"]
  /\ UNCHANGED <<att, batch, wk, handlers, archived, posts, live, crashes, faults>>

AddJob(x) ==
  /\ proc[x].pc = "add"
  /\ att' = [att EXCEPT ![proc[x].att].job = Added(@)]
  /\ proc' = [proc EXCEPT ![x] =
                IF IsArchive(proc[x].op) THEN [@ EXCEPT !.pc = "archive"]
                                         ELSE Finished(x)]
  /\ UNCHANGED <<pub, batch, wk, handlers, archived, posts, live, crashes, faults>>

\* A call of the enqueue throws; queue.add may have been carried out.
EnqueueError(x) ==
  /\ proc[x].pc \in {"create", "mark", "add"}
  /\ Fault
  /\ \/ UNCHANGED att
     \/ /\ proc[x].pc = "add"
        /\ att' = [att EXCEPT ![proc[x].att].job = Added(@)]
  /\ proc' = [proc EXCEPT ![x].pc = "error"]
  /\ UNCHANGED <<pub, batch, wk, handlers, archived, posts, live, crashes>>

\* Faulty variant: the catch clause only logs.
CatchAndLog(s) ==
  /\ proc[s].pc \in {"blocked", "error"}
  /\ proc' = [proc EXCEPT ![s] = ProcIdle]
  /\ UNCHANGED <<pub, att, batch, wk, handlers, archived, posts, live, crashes, faults>>

\* The catch clause of the tick: a closed gate is not a failure.
CatchEnqueue(s) ==
  /\ \/ /\ proc[s].pc = "blocked"
        /\ pub' = [pub EXCEPT ![proc[s].pub] = ReleaseBlocked(@)]
     \/ /\ proc[s].pc = "error"
        /\ pub' = [pub EXCEPT ![proc[s].pub] = EnqueueFailed(@)]
  /\ proc' = [proc EXCEPT ![s] = ProcIdle]
  /\ UNCHANGED <<att, batch, wk, handlers, archived, posts, live, crashes, faults>>

\* In the API process nobody catches: the request answers with an error.
RequestThrows(r) ==
  /\ proc[r].pc \in {"blocked", "error"}
  /\ proc' = [proc EXCEPT ![r] = ProcDone]
  /\ UNCHANGED <<pub, att, batch, wk, handlers, archived, posts, live, crashes, faults>>

\* The process dies, or its catch clause throws: the tick is over and the
\* rest of the batch is forgotten.
TickAborted(s) ==
  /\ proc[s].pc # "idle" \/ batch[s] # {}
  /\ crashes < MaxCrashes /\ crashes' = crashes + 1
  /\ proc' = [proc EXCEPT ![s] = ProcIdle]
  /\ batch' = [batch EXCEPT ![s] = {}]
  /\ UNCHANGED <<pub, att, wk, handlers, archived, posts, live, faults>>

-----------------------------------------------------------------------------
(* Operator requests: a read with its guard, then a write *)

RequestAccepted(op, p) ==
  CASE op \in {"reschedule", "patch"} -> CanEdit(pub[p], "scheduled")
    [] op = "cancel"     -> CanEdit(pub[p], "canceled")
    [] op = "retry"      -> CanRetry(pub[p])
    [] op = "delete"     -> CanDelete(pub[p])
    [] op = "unpublish"  -> CanUnpublish(pub[p])
    [] IsArchive(op)     ->
         /\ p \notin archived
         /\ pub[p].status \notin {"draft", "ready", "scheduled", "queued", "publishing"}

\* A request that is refused changes nothing and is left out.
RequestRead(r) ==
  /\ proc[r].pc = "idle"
  /\ \E op \in Operations, p \in Pubs :
       /\ RequestAccepted(op, p)
       /\ proc' = [proc EXCEPT ![r] =
            [pc |-> IF ~IsArchive(op) THEN "write"
                    ELSE IF op = "archive_unpublish" /\ CanUnpublish(pub[p])
                    THEN "create" ELSE "archive",
             op |-> op, pub |-> p, att |-> None, seen |-> pub[p]]]
  /\ UNCHANGED <<pub, att, batch, wk, handlers, archived, posts, live, crashes, faults>>

RequestWrite(r) ==
  /\ proc[r].pc = "write"
  /\ LET p == proc[r].pub
         op == proc[r].op
     IN pub' = [pub EXCEPT ![p] =
          CASE op \in {"reschedule", "patch"} ->
                 Rescheduled(@, proc[r].seen, op = "reschedule")
            [] op = "cancel"     -> Canceled(@)
            [] op = "retry"      -> Retried(@)
            [] op = "delete"     -> Deleted(@)
            [] op = "unpublish"  -> UnpublishQueued(@)]
  /\ proc' = [proc EXCEPT ![r] =
                IF proc[r].op = "unpublish" THEN [@ EXCEPT !.pc = "enqueue"]
                                            ELSE ProcDone]
  /\ UNCHANGED <<att, batch, wk, handlers, archived, posts, live, crashes, faults>>

ArchiveProject(r) ==
  /\ proc[r].pc = "archive"
  /\ archived' = archived \cup {proc[r].pub}
  /\ proc' = [proc EXCEPT ![r] = ProcDone]
  /\ UNCHANGED <<pub, att, batch, wk, handlers, posts, live, crashes, faults>>

\* The API process dies in the middle of a request.
RequestAborted(r) ==
  /\ proc[r].pc \notin {"idle", "done"}
  /\ crashes < MaxCrashes /\ crashes' = crashes + 1
  /\ proc' = [proc EXCEPT ![r] = ProcDone]
  /\ UNCHANGED <<pub, att, batch, wk, handlers, archived, posts, live, faults>>

-----------------------------------------------------------------------------
(* The social worker: one BullMQ job at a time *)

\* BullMQ hands over a job; loadPublication reads the row.
TakeJob(w) ==
  /\ wk[w].pc = "idle"
  /\ \E a \in AttemptIds :
       /\ att[a].job.state = "waiting"
       /\ att' = [att EXCEPT ![a].job = Taken(@)]
       /\ wk' = [wk EXCEPT ![w] = [pc |-> "loaded", att |-> a, post |-> 0,
                                   seen |-> pub[att[a].pub]]]
  /\ UNCHANGED <<pub, batch, proc, handlers, archived, posts, live, crashes, faults>>

\* startAttempt; an unpublish without external id throws before it.
StartAttempt(w) ==
  /\ wk[w].pc = "loaded"
  /\ att[wk[w].att].kind = "unpublish" => wk[w].seen.ext # 0
  /\ att' = [att EXCEPT ![wk[w].att].status = "running"]
  /\ wk' = [wk EXCEPT ![w].pc = "started"]
  /\ UNCHANGED <<pub, batch, proc, handlers, archived, posts, live, crashes, faults>>

\* The platform carries the call out: a new post, or the deletion of the one
\* the loaded row names.
CallPlatform(w) ==
  /\ wk[w].pc = "started"
  /\ LET p == att[wk[w].att].pub
         n == posts[p] + 1
     IN \/ /\ att[wk[w].att].kind = "publish"
           /\ posts' = [posts EXCEPT ![p] = n]
           /\ live' = [live EXCEPT ![p] = @ \cup {n}]
           /\ wk' = [wk EXCEPT ![w].pc = "called", ![w].post = n]
        \/ /\ att[wk[w].att].kind = "unpublish"
           /\ live' = [live EXCEPT ![p] = @ \ {wk[w].seen.ext}]
           /\ wk' = [wk EXCEPT ![w].pc = "called"]
           /\ UNCHANGED posts
  /\ UNCHANGED <<pub, att, batch, proc, handlers, archived, crashes, faults>>

\* succeedAttempt, first half: the attempt row, and the publication is read.
RecordAttempt(w) ==
  /\ wk[w].pc = "called"
  /\ att' = [att EXCEPT ![wk[w].att].status = "succeeded"]
  /\ wk' = [wk EXCEPT ![w].pc = "recorded",
                      ![w].seen = pub[att[wk[w].att].pub]]
  /\ UNCHANGED <<pub, batch, proc, handlers, archived, posts, live, crashes, faults>>

\* succeedAttempt, second half: the publication row.
RecordPublication(w) ==
  /\ wk[w].pc = "recorded"
  /\ pub' = [pub EXCEPT ![att[wk[w].att].pub] =
                Succeeded(@, wk[w].seen, wk[w].post)]
  /\ wk' = [wk EXCEPT ![w].pc =
                IF att[wk[w].att].kind = "unpublish" THEN "finishing"
                                                     ELSE "finished"]
  /\ UNCHANGED <<att, batch, proc, handlers, archived, posts, live, crashes, faults>>

\* processUnpublish corrects the status succeedAttempt wrote.
FinishUnpublish(w) ==
  /\ wk[w].pc = "finishing"
  /\ pub' = [pub EXCEPT ![att[wk[w].att].pub] = UnpublishRecorded(@)]
  /\ wk' = [wk EXCEPT ![w].pc = "finished"]
  /\ UNCHANGED <<att, batch, proc, handlers, archived, posts, live, crashes, faults>>

\* The processor returned: BullMQ completes the job.
CompleteJob(w) ==
  /\ wk[w].pc = "finished"
  /\ att' = [att EXCEPT ![wk[w].att].job = Completed(@)]
  /\ wk' = [wk EXCEPT ![w] = WorkerIdle]
  /\ UNCHANGED <<pub, batch, proc, handlers, archived, posts, live, crashes, faults>>

NewHandler(a, class, w) ==
  [att |-> a, try |-> att[a].job.tries + att[a].job.stalls + 1,
   worker |-> w, class |-> class, pc |-> "new", retries |-> 0]

\* The processor throws.  Before the platform call this is the call's own
\* failure; after it, a lost answer or a database error (the bound MaxFaults).
\* BullMQ counts the try and emits "failed", after every try.
FailTry(w) ==
  /\ \/ wk[w].pc \in {"loaded", "started"} /\ UNCHANGED faults
     \/ wk[w].pc \in {"called", "recorded", "finishing", "finished"} /\ Fault
  /\ \E class \in {"transient", "permanent"} :
       handlers' = handlers \cup {NewHandler(wk[w].att, class, w)}
  /\ att' = [att EXCEPT ![wk[w].att].job = TryFailed(@, BullAttempts)]
  /\ wk' = [wk EXCEPT ![w] = WorkerIdle]
  /\ UNCHANGED <<pub, batch, proc, archived, posts, live, crashes>>

DelayOver(a) ==
  /\ att[a].job.state = "delayed"
  /\ att' = [att EXCEPT ![a].job = BackoffOver(@)]
  /\ UNCHANGED <<pub, batch, proc, wk, handlers, archived, posts, live, crashes, faults>>

\* failAttempt, first half: the attempt row, and the publication is read.
FailedRead(h) ==
  /\ h.pc = "new"
  /\ att' = [att EXCEPT ![h.att].status = "failed"]
  /\ handlers' = (handlers \ {h}) \cup
       {[h EXCEPT !.pc = "read", !.retries = pub[att[h.att].pub].retries]}
  /\ UNCHANGED <<pub, batch, proc, wk, archived, posts, live, crashes, faults>>

\* failAttempt, second half: the publication row.
FailedWrite(h) ==
  /\ h.pc = "read"
  /\ pub' = [pub EXCEPT ![att[h.att].pub] =
                AttemptFailed(@, h.retries, h.class, MaxRetries)]
  /\ handlers' = handlers \ {h}
  /\ UNCHANGED <<att, batch, proc, wk, archived, posts, live, crashes, faults>>

\* The worker process dies, or is stopped while listeners still run: their
\* outcomes are lost, its job stays active without a worker.
WorkerCrash(w) ==
  /\ wk[w].pc # "idle" \/ \E h \in handlers : h.worker = w
  /\ crashes < MaxCrashes /\ crashes' = crashes + 1
  /\ wk' = [wk EXCEPT ![w] = WorkerIdle]
  /\ handlers' = {h \in handlers : h.worker # w}
  /\ UNCHANGED <<pub, att, batch, proc, archived, posts, live, faults>>

\* A worker's stalled-job check finds an active job without a worker.
RecoverStalled(w) ==
  /\ \E a \in AttemptIds :
       /\ att[a].job.state = "active"
       /\ \A v \in Workers : wk[v].att # a
       /\ att' = [att EXCEPT ![a].job = Stalled(@, MaxStalls)]
       /\ handlers' = IF att[a].job.stalls + 1 > MaxStalls
                      THEN handlers \cup {NewHandler(a, "transient", w)}
                      ELSE handlers
  /\ UNCHANGED <<pub, batch, proc, wk, archived, posts, live, crashes, faults>>

-----------------------------------------------------------------------------
SchedulerStep(s) ==
  \/ Claim(s) \/ NextClaimed(s)
  \/ CreateAttempt(s) \/ MarkPublishing(s) \/ AddJob(s)
  \/ CatchEnqueue(s)

RequestStep(r) ==
  \/ RequestWrite(r) \/ RequestEnqueue(r)
  \/ CreateAttempt(r) \/ MarkPublishing(r) \/ AddJob(r)
  \/ RequestThrows(r) \/ ArchiveProject(r)

JobStep(w) ==
  \/ StartAttempt(w) \/ CallPlatform(w) \/ RecordAttempt(w)
  \/ RecordPublication(w) \/ FinishUnpublish(w) \/ CompleteJob(w)
  \/ FailTry(w)

HandlerStep(h) == FailedRead(h) \/ FailedWrite(h)

Next ==
  \/ \E s \in Schedulers : SchedulerStep(s) \/ EnqueueError(s) \/ TickAborted(s)
  \/ \E r \in Requests : \/ RequestRead(r) \/ RequestStep(r)
                         \/ EnqueueError(r) \/ RequestAborted(r)
  \/ \E w \in Workers : \/ TakeJob(w) \/ JobStep(w)
                        \/ RecoverStalled(w) \/ WorkerCrash(w)
  \/ \E a \in AttemptIds : DelayOver(a)
  \/ \E h \in handlers : HandlerStep(h)

Spec == Init /\ [][Next]_vars

\* The scheduler's interval loop, the API process, the worker loop, BullMQ's
\* timers and the event loop that runs the listeners all keep running.
Fairness ==
  /\ \A s \in Schedulers : WF_vars(SchedulerStep(s))
  /\ \A r \in Requests : WF_vars(RequestStep(r))
  /\ \A w \in Workers : /\ WF_vars(TakeJob(w)) /\ WF_vars(JobStep(w))
                        /\ WF_vars(RecoverStalled(w))
  /\ WF_vars(\E a \in AttemptIds : DelayOver(a))
  /\ WF_vars(\E h \in handlers : HandlerStep(h))

FairSpec == Spec /\ Fairness

-----------------------------------------------------------------------------
(* Vocabulary of the properties *)

\* A scheduler is responsible for the row: claimed, or being enqueued.
HeldBy(s, p) == p \in batch[s] \/ (proc[s].pc # "idle" /\ proc[s].pub = p)

JobInFlight(a) == JobLive(att[a].job)

\* Nobody is working on the publication any more.
Quiet(p) ==
  /\ \A s \in Schedulers : ~HeldBy(s, p)
  /\ \A r \in Requests : proc[r].pub = p => proc[r].pc = "done"
  /\ \A a \in AttemptIds : att[a].pub = p => ~JobInFlight(a)
  /\ \A h \in handlers : att[h.att].pub # p

\* Nothing has died, and no call has thrown after it was carried out.
Calm == crashes = 0 /\ faults = 0

-----------------------------------------------------------------------------
(* Properties *)

\* Two schedulers are never responsible for the same row: what the row locks
\* of claimDuePublications, taken inside its transaction, are there for.
SingleHolder ==
  faults = 0 => \A s, t \in Schedulers, p \in Pubs : HeldBy(s, p) /\ HeldBy(t, p) => s = t

\* A publication is in one place at a time: held by a scheduler, or in one
\* job of the queue, or in the failure listener of one job.  A process that dies
\* may drop it; it takes a call that throws to have it in two places.
OneCarrier ==
  faults = 0 =>
    \A p \in Pubs :
      /\ \A s \in Schedulers : HeldBy(s, p) =>
           /\ \A a \in AttemptIds : att[a].pub = p => ~JobInFlight(a)
           /\ \A h \in handlers : att[h.att].pub # p
      /\ \A a, b \in AttemptIds :
           att[a].pub = p /\ att[b].pub = p /\ JobInFlight(a) /\ JobInFlight(b) => a = b
      /\ \A h \in handlers, a \in AttemptIds :
           att[h.att].pub = p /\ att[a].pub = p => ~JobInFlight(a)

\* The platform receives a publication at most once, over all its attempts.
AtMostOnePost == \A p \in Pubs : posts[p] <= 1

\* Without retries inside BullMQ and without operators, every post beyond the
\* first is paid for by a process that died or a call that threw.
ExtraPostsNeedFailures == \A p \in Pubs : posts[p] <= 1 + crashes + faults

\* A row that waits for somebody (queued, publishing) has somebody: the
\* claim, the enqueue, the queue and the failure listener hand it over
\* without dropping it, whatever the operators do in between.
NotStranded ==
  \A p \in Pubs : pub[p].status \in {"queued", "publishing"} => ~Quiet(p)

\* The database never claims more than the platform did: a published row
\* names a post that was made for it.
PublishedWasPosted ==
  \A p \in Pubs : pub[p].status = "published" => pub[p].ext \in 1 .. posts[p]

\* The pipeline as its owner sees it: a post is sent, the row is told its id.
Published == {p \in Pubs : pub[p].status = "published"}
ExternalIds == [p \in Pubs |-> pub[p].ext]

Promise == INSTANCE Delivery WITH
  Items <- Pubs, sent <- posts, receipt <- ExternalIds, shown <- Published

\* The pipeline keeps that promise, with every operation, retry and failure: no
\* write of a scheduler, a listener or an operator touches the id of a post or
\* shows a row as published; only succeedAttempt does, with an id it was given.
Delivers == Promise!Spec

\* PUBLICATION_MAX_RETRIES bounds the attempts of a publication that no
\* operator retries, whatever dies.  Once a call has thrown nothing does: with
\* a second carrier, two listeners may write the same new count.
RetryBudget ==
  faults = 0 => \A p \in Pubs :
    Cardinality({a \in AttemptIds : att[a].pub = p}) <= MaxRetries + 1

\* The attempts of a publication are numbered without a repetition: the
\* number is computed from a row that another enqueue may change meanwhile.
AttemptsNumbered ==
  faults = 0 => \A a, b \in AttemptIds :
    att[a].pub = att[b].pub /\ att[a].pub # None /\ att[a].num = att[b].num => a = b

\* A call goes out to the platform only while the row says publishing: what
\* operators see is what happens.
PostsOnlyWhilePublishing ==
  [][Calm => \A p \in Pubs : posts'[p] # posts[p] => pub[p].status = "publishing"]_vars

\* What is due does not stay due: every publication comes to rest, published,
\* failed for good, or back with the operator.
AtRest(p) ==
  /\ Quiet(p)
  /\ pub[p].status \notin {"scheduled", "queued", "publishing"}
  /\ ~Claimable(pub[p])
EventuallyAtRest == \A p \in Pubs : <>[]AtRest(p)

\* README.md: what is scheduled is claimed and enqueued.
ScheduledIsClaimed ==
  \A p \in Pubs : pub[p].status = "scheduled" ~> pub[p].status # "scheduled"

\* publication.ts: "Permanent failures never retry."  The job of a try that
\* failed for good is not tried again.
PermanentJobNotRetried ==
  \A h \in handlers : h.class = "permanent" => ~JobInFlight(h.att)

\* The same of the row: a permanent failure is not claimed again.
PermanentRowNotRetried ==
  \A p \in Pubs :
    pub[p].status = "failed" /\ pub[p].class = "permanent" => ~Claimable(pub[p])

\* An unpublished row has nothing up on the platform.
UnpublishedIsDown ==
  \A p \in Pubs : pub[p].status = "unpublished" /\ Quiet(p) => live[p] = {}
=============================================================================
