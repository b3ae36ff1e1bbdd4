-------------------------- MODULE WebsitePublishing --------------------------
(***************************************************************************)
(* How one version of one article reaches one website: the durable rows    *)
(* that ask for it, the publication_jobs rows they share (one for each     *)
(* idempotency key), the BullMQ queue queue_publishing, its workers and    *)
(* "failed" listeners, the status of the project, and the pages of the     *)
(* site.                                                                   *)
(*                                                                         *)
(* A step is one write: a database statement, a queue call or a call to    *)
(* the site; the reads before it that decide it are steps of their own.    *)
(***************************************************************************)
EXTENDS Naturals, FiniteSets, PublicationStates, BullQueue

CONSTANTS
  Pubs,         \* website rows of the version
  Schedulers,   \* scheduler processes
  Requests,     \* API requests that operators will ever make
  Workers,      \* publishing workers, each with concurrency 1
  TaskIds,      \* random ids of the BullMQ jobs
  Operations,   \* the operations the requests may ask for
  TwoCalls,     \* the site publishes in two calls, a draft and its approval
  BatchSize, MaxRetries, BullAttempts, MaxStalls,
  MaxCrashes,   \* bound: processes that die
  MaxFaults,    \* bound: database, queue or site calls whose answer is lost
  MaxRefusals,  \* bound: calls that the site refuses
  None

RowOperations == {"reschedule", "cancel", "retry", "delete", "unpublish"}

\* POST /v2/projects/:id/publish with its action and target status.
PostOperations == {"post_publish", "post_update", "post_draft", "post_unpublish"}

AllOperations == RowOperations \cup PostOperations \cup {"archive"}

\* The idempotency keys pub:site:project:version:action:target that are used
\* ("draft" is update:draft), and the key of the archive flow.
Keys == {"publish", "update", "draft", "unpublish", "archive"}

ASSUME ConstantsAssumption ==
  /\ Schedulers \cap Requests = {}
  /\ TaskIds \subseteq Nat
  /\ Operations \subseteq AllOperations /\ TwoCalls \in BOOLEAN
  /\ BatchSize \in Nat \ {0} /\ BullAttempts \in Nat \ {0}
  /\ MaxRetries \in Nat /\ MaxStalls \in Nat
  /\ MaxCrashes \in Nat /\ MaxFaults \in Nat /\ MaxRefusals \in Nat
  /\ None \notin Pubs \cup TaskIds /\ None \notin Keys

Procs == Schedulers \cup Requests

IsUnpublish(k) == k \in {"unpublish", "archive"}

KeyOfPost(op) ==
  CASE op = "post_publish"   -> "publish"
    [] op = "post_update"    -> "update"
    [] op = "post_draft"     -> "draft"
    [] op = "post_unpublish" -> "unpublish"

\* The action enqueueWebsitePublication derives from a row.
KeyOfRow(row) ==
  IF row.unpub THEN "unpublish" ELSE IF row.ext # 0 THEN "update" ELSE "publish"

VARIABLES
  pub,       \* publications rows
  rows,      \* the ones that exist
  link,      \* their publicationJobId
  job,       \* publication_jobs rows, by idempotency key
  task,      \* BullMQ jobs and the publication job each names
  project,   \* contentProject.status
  archived,  \* contentProject.deletedAt is set
  batch, proc, wk, handlers,
  pages,     \* pages ever made on the site
  live,      \* the public ones
  crashes, faults, refusals

vars == <<pub, rows, link, job, task, project, archived, batch, proc, wk,
          handlers, pages, live, crashes, faults, refusals>>

-----------------------------------------------------------------------------
JobStatus == {"none", "queued", "processing", "published", "draft_synced",
              "failed", "canceled"}

PublicationJobs == [status : JobStatus, ext : Nat, born : Nat]

Tasks == [key : Keys \cup {None}, job : Jobs]

ProjectStatus == {"approved", "publish_queued", "published", "publish_failed"}

ProcSteps == {"idle", "read", "find", "link", "reset", "create", "project", "linkq",
              "check", "add", "durable", "newrow", "markrow", "blocked", "error", "write",
              "enqueue", "archive", "done"}

ProcStates == [pc : ProcSteps, op : AllOperations \cup {"publish"},
               pub : Pubs \cup {None}, key : Keys \cup {None}, seen : Rows,
               fresh : BOOLEAN, todo : SUBSET (Pubs \X BOOLEAN)]

ProcIdle == [pc |-> "idle", op |-> "publish", pub |-> None, key |-> None,
             seen |-> NewRow("draft"), fresh |-> FALSE, todo |-> {}]

\* A process that has finished; a request leaves what it was asked and for which row.
ProcEnd(x) == IF x \in Schedulers THEN ProcIdle
              ELSE [ProcIdle EXCEPT !.pc = "done", !.op = proc[x].op, !.pub = proc[x].pub]


WorkerSteps == {"idle", "taken", "processing", "queued", "ready", "drafted",
                "called", "saved", "found", "synced", "marked", "verifying", "finished"}

WorkerStates == [pc : WorkerSteps, task : TaskIds \cup {None}, ext : Nat,
                 post : Nat, hit : Pubs \cup {None}, seen : Rows]

WorkerIdle == [pc |-> "idle", task |-> None, ext |-> 0, post |-> 0, hit |-> None, seen |-> NewRow("draft")]

HandlerStates == [task : TaskIds, try : Nat, worker : Workers,
                  class : {"transient", "permanent"},
                  pc : {"new", "job", "project", "read"}, hit : Pubs \cup {None}, retries : Nat]

TypeOK ==
  /\ pub \in [Pubs -> Rows] /\ rows \subseteq Pubs
  /\ link \in [Pubs -> Keys \cup {None}]
  /\ job \in [Keys -> PublicationJobs]
  /\ task \in [TaskIds -> Tasks]
  /\ project \in ProjectStatus /\ archived \in BOOLEAN
  /\ batch \in [Schedulers -> SUBSET Pubs]
  /\ proc \in [Procs -> ProcStates]
  /\ wk \in [Workers -> WorkerStates]
  /\ handlers \subseteq HandlerStates
  /\ pages \in Nat /\ live \subseteq 1 .. pages
  /\ crashes \in Nat /\ faults \in Nat /\ refusals \in Nat

Init ==
  /\ pub \in [Pubs -> CreatedRows] /\ rows \in SUBSET Pubs
  /\ link = [p \in Pubs |-> None]
  /\ job = [k \in Keys |-> [status |-> "none", ext |-> 0, born |-> 0]]
  /\ task = [t \in TaskIds |-> [key |-> None, job |-> NoJob]]
  /\ project = "approved" /\ archived = FALSE
  /\ batch = [s \in Schedulers |-> {}]
  /\ proc = [x \in Procs |-> ProcIdle]
  /\ wk = [w \in Workers |-> WorkerIdle]
  /\ handlers = {}
  /\ pages = 0 /\ live = {}
  /\ crashes = 0 /\ faults = 0 /\ refusals = 0

\* A call throws, or its answer does not come back (the bound MaxFaults).
Fault == faults < MaxFaults /\ faults' = faults + 1

\* What only the workers, only the processes that enqueue, or nobody changes.
WorkerSide == <<wk, handlers, pages, live>>
Queue == <<job, task>>
Records == <<pub, rows, link>>

-----------------------------------------------------------------------------
(* Enqueueing: scheduler, unpublish request, POST publish, archive *)

Claim(s) ==
  /\ proc[s].pc = "idle" /\ batch[s] = {}
  /\ \E due \in SUBSET {p \in rows : Claimable(pub[p])} :
       /\ due # {} /\ Cardinality(due) <= BatchSize
       /\ pub' = [p \in Pubs |-> IF p \in due THEN Claimed(pub[p]) ELSE pub[p]]
       /\ batch' = [batch EXCEPT ![s] = due]
  /\ UNCHANGED <<rows, link, Queue, project, archived, proc, WorkerSide, crashes,
                 faults, refusals>>

\* enqueuePublication up to the branch of its channel.
ReadAndGate(x, p) ==
  \/ /\ pub[p].status = "publishing"
     /\ proc' = [proc EXCEPT ![x] = ProcEnd(x)]
     /\ UNCHANGED faults
  \/ /\ pub[p].status # "publishing"
     /\ \E pc \in {"read", "blocked"} :
          proc' = [proc EXCEPT ![x] = [@ EXCEPT !.pc = pc, !.pub = p]]
     /\ UNCHANGED faults
  \/ /\ Fault
     /\ proc' = [proc EXCEPT ![x] = [@ EXCEPT !.pc = "error", !.pub = p]]

NextClaimed(s) ==
  /\ proc[s].pc = "idle"
  /\ \E p \in batch[s] :
       /\ batch' = [batch EXCEPT ![s] = @ \ {p}]
       /\ ReadAndGate(s, p)
  /\ UNCHANGED <<Records, Queue, project, archived, WorkerSide, crashes, refusals>>

RequestEnqueue(r) ==
  /\ proc[r].pc = "enqueue"
  /\ ReadAndGate(r, proc[r].pub)
  /\ UNCHANGED <<Records, Queue, project, archived, batch, WorkerSide, crashes,
                 refusals>>

\* The row is read again; it decides the action and so the key.
ChooseAction(x) ==
  /\ proc[x].pc = "read"
  /\ proc' = [proc EXCEPT ![x].pc = "find",
                          ![x].key = KeyOfRow(pub[proc[x].pub])]
  /\ UNCHANGED <<Records, Queue, project, archived, batch, WorkerSide, crashes, faults,
                 refusals>>

ByRow(op) == op \in {"publish", "unpublish"}

\* Faulty variant: only a job that does not exist is made, any other is reused
\* from the start.
AfterFindAnyReset(op, status) == IF status = "none" THEN "create" ELSE "reset"

\* Where each of the three callers goes on, by the job it finds.
AfterFind(op, status) ==
  CASE status = "none"                      -> "create"
    [] status \in {"queued", "processing"}  -> IF ByRow(op) THEN "link" ELSE "check"
    [] status \in {"published", "draft_synced"} ->
         IF ByRow(op) THEN "link" ELSE IF op = "archive" THEN "reset" ELSE "done"
    [] status \in {"failed", "canceled"}    -> "reset"

FindJob(x) ==
  /\ proc[x].pc = "find"
  /\ LET next == AfterFind(proc[x].op, job[proc[x].key].status)
     IN proc' = [proc EXCEPT ![x] =
          IF next = "done" THEN ProcEnd(x) ELSE [@ EXCEPT !.pc = next]]
  /\ UNCHANGED <<Records, Queue, project, archived, batch, WorkerSide, crashes, faults,
                 refusals>>

\* Faulty variant: the job is left to whoever looks for queued jobs.
AfterWriteJobLink(op) == "link"

\* The archive flow leaves the project's status alone.
AfterWriteJob(op) == IF op = "archive" THEN "check" ELSE "project"

ResetJob(x) ==
  /\ proc[x].pc = "reset"
  /\ job' = [job EXCEPT ![proc[x].key].status = "queued"]
  /\ proc' = [proc EXCEPT ![x].pc = AfterWriteJob(proc[x].op)]
  /\ UNCHANGED <<Records, task, project, archived, batch, WorkerSide, crashes, faults,
                 refusals>>

\* The unique index on the key makes the second of two creations throw.
CreateJob(x) ==
  /\ proc[x].pc = "create"
  /\ LET k == proc[x].key IN
       IF job[k].status # "none"
       THEN /\ proc' = [proc EXCEPT ![x].pc = "error"]
            /\ UNCHANGED job
       ELSE /\ job' = [job EXCEPT ![k] =
                 [status |-> "queued", ext |-> 0,
                  born |-> 1 + Cardinality({i \in Keys : job[i].status # "none"})]]
            /\ proc' = [proc EXCEPT ![x].pc = AfterWriteJob(proc[x].op),
                                    ![x].fresh = TRUE]
  /\ UNCHANGED <<Records, task, project, archived, batch, WorkerSide, crashes, faults,
                 refusals>>

SetProjectQueued(x) ==
  /\ proc[x].pc = "project"
  /\ project' = "publish_queued"
  /\ proc' = [proc EXCEPT ![x].pc = IF ByRow(proc[x].op) THEN "linkq" ELSE "check"]
  /\ UNCHANGED <<Records, Queue, archived, batch, WorkerSide, crashes, faults,
                 refusals>>

\* "link": somebody else's job does the work, and this call is over.
LinkRow(x) ==
  /\ proc[x].pc \in {"link", "linkq"}
  /\ link' = [link EXCEPT ![proc[x].pub] = proc[x].key]
  /\ proc' = [proc EXCEPT ![x] =
       IF proc[x].pc = "link" THEN ProcEnd(x) ELSE [@ EXCEPT !.pc = "check"]]
  /\ UNCHANGED <<pub, rows, Queue, project, archived, batch, WorkerSide, crashes,
                 faults, refusals>>

Afterwards(x) ==
  LET op == proc[x].op IN
  CASE op = "archive" -> [proc[x] EXCEPT !.pc = "archive"]
    [] op \in PostOperations \ {"post_unpublish"} /\ proc[x].fresh ->
         [proc[x] EXCEPT !.pc = "durable"]
    [] OTHER -> ProcEnd(x)

TaskLive(t) == JobLive(task[t].job)

InQueue(k) == \E t \in TaskIds : task[t].key = k /\ TaskLive(t)

\* queuePublication asks the queue whether the job is in it ...
CheckQueue(x) ==
  /\ proc[x].pc = "check"
  /\ proc' = [proc EXCEPT ![x] =
       IF InQueue(proc[x].key) THEN Afterwards(x) ELSE [@ EXCEPT !.pc = "add"]]
  /\ UNCHANGED <<Records, Queue, project, archived, batch, WorkerSide, crashes, faults,
                 refusals>>

NewTask(t, k) ==
  /\ task[t].key = None
  /\ \A u \in TaskIds : task[u].key = None => t <= u
  /\ task' = [task EXCEPT ![t] = [key |-> k, job |-> Added(NoJob)]]

\* ... and adds it under a fresh id.
AddTask(x) ==
  /\ proc[x].pc = "add"
  /\ \E t \in TaskIds : NewTask(t, proc[x].key)
  /\ proc' = [proc EXCEPT ![x] = Afterwards(x)]
  /\ UNCHANGED <<Records, job, project, archived, batch, WorkerSide, crashes, faults,
                 refusals>>

\* linkDurableWebsitePublication finds some row of the version, whatever its
\* status, to link; without one ...
FindDurable(r) ==
  /\ proc[r].pc = "durable"
  /\ \/ \E p \in rows : proc' = [proc EXCEPT ![r] = [@ EXCEPT !.pc = "link", !.pub = p]]
     \/ rows = {} /\ proc' = [proc EXCEPT ![r].pc = "newrow"]
  /\ UNCHANGED <<Records, Queue, project, archived, batch, WorkerSide, crashes, faults,
                 refusals>>

\* ... a row is made, scheduled for now (the bound Pubs) ...
CreateDurable(r) ==
  /\ proc[r].pc = "newrow"
  /\ \E p \in Pubs \ rows :
       /\ rows' = rows \cup {p}
       /\ pub' = [pub EXCEPT ![p] = NewRow("scheduled")]
       /\ proc' = [proc EXCEPT ![r] = [@ EXCEPT !.pc = "markrow", !.pub = p]]
  /\ UNCHANGED <<link, Queue, project, archived, batch, WorkerSide, crashes, faults,
                 refusals>>

\* ... and then linked and marked publishing.
MarkDurable(r) ==
  /\ proc[r].pc = "markrow"
  /\ LET p == proc[r].pub IN
       /\ link' = [link EXCEPT ![p] = proc[r].key]
       /\ pub' = [pub EXCEPT ![p].status = "publishing"]
  /\ proc' = [proc EXCEPT ![r] = ProcEnd(r)]
  /\ UNCHANGED <<rows, Queue, project, archived, batch, WorkerSide, crashes, faults,
                 refusals>>

\* A database or queue call of the enqueue throws; queue.add may have been
\* carried out.
EnqueueError(x) ==
  /\ proc[x].pc \in {"read", "find", "link", "reset", "create", "project", "linkq",
                     "check", "add", "durable", "newrow", "markrow"}
  /\ Fault
  /\ \/ UNCHANGED task
     \/ proc[x].pc = "add" /\ \E t \in TaskIds : NewTask(t, proc[x].key)
  /\ proc' = [proc EXCEPT ![x].pc = "error"]
  /\ UNCHANGED <<Records, job, project, archived, batch, WorkerSide, crashes, refusals>>

\* Faulty variant: the catch clause only logs.
CatchAndLog(s) ==
  /\ proc[s].pc \in {"blocked", "error"}
  /\ proc' = [proc EXCEPT ![s] = ProcIdle]
  /\ UNCHANGED <<Records, Queue, project, archived, batch, WorkerSide, crashes, faults,
                 refusals>>

CatchEnqueue(s) ==
  /\ \/ /\ proc[s].pc = "blocked"
        /\ pub' = [pub EXCEPT ![proc[s].pub] = ReleaseBlocked(@)]
     \/ /\ proc[s].pc = "error"
        /\ pub' = [pub EXCEPT ![proc[s].pub] = EnqueueFailed(@)]
  /\ proc' = [proc EXCEPT ![s] = ProcIdle]
  /\ UNCHANGED <<rows, link, Queue, project, archived, batch, WorkerSide, crashes,
                 faults, refusals>>

RequestThrows(r) ==
  /\ proc[r].pc \in {"blocked", "error"}
  /\ proc' = [proc EXCEPT ![r] = ProcEnd(r)]
  /\ UNCHANGED <<Records, Queue, project, archived, batch, WorkerSide, crashes, faults,
                 refusals>>

TickAborted(s) ==
  /\ proc[s].pc # "idle" \/ batch[s] # {}
  /\ crashes < MaxCrashes /\ crashes' = crashes + 1
  /\ proc' = [proc EXCEPT ![s] = ProcIdle]
  /\ batch' = [batch EXCEPT ![s] = {}]
  /\ UNCHANGED <<Records, Queue, project, archived, WorkerSide, faults, refusals>>

RequestAborted(r) ==
  /\ proc[r].pc \notin {"idle", "done"}
  /\ crashes < MaxCrashes /\ crashes' = crashes + 1
  /\ proc' = [proc EXCEPT ![r] = ProcEnd(r)]
  /\ UNCHANGED <<Records, Queue, project, archived, batch, WorkerSide, faults,
                 refusals>>

-----------------------------------------------------------------------------
(* Operator requests *)

\* getLatestPublishedExternalId: the youngest job that has one; 0: none.  The
\* adapters of two calls record a missing id as the empty string, which counts.
WithPage == {k \in Keys : /\ job[k].status \in {"published", "draft_synced"}
                         /\ (job[k].ext # 0 \/ TwoCalls)}

LatestExternalId ==
  IF WithPage = {} THEN 0
  ELSE LET k == CHOOSE i \in WithPage : \A j \in WithPage : job[j].born <= job[i].born
       IN job[k].ext

RowAccepted(op, p) ==
  CASE op = "reschedule" -> CanEdit(pub[p], "scheduled")
    [] op = "cancel"     -> CanEdit(pub[p], "canceled")
    [] op = "retry"      -> CanRetry(pub[p])
    [] op = "delete"     -> CanDelete(pub[p])
    [] op = "unpublish"  -> CanUnpublish(pub[p])

\* Archiving is refused while a row is still on its way.
ArchiveAccepted ==
  /\ ~archived
  /\ \A p \in rows : pub[p].status \notin
       {"draft", "ready", "scheduled", "queued", "publishing"}

RequestRow(r) ==
  /\ proc[r].pc = "idle"
  /\ \E op \in Operations \cap RowOperations, p \in rows :
       /\ RowAccepted(op, p)
       /\ proc' = [proc EXCEPT ![r] =
            [@ EXCEPT !.pc = "write", !.op = op, !.pub = p, !.seen = pub[p]]]
  /\ UNCHANGED <<Records, Queue, project, archived, batch, WorkerSide, crashes, faults,
                 refusals>>

RequestWrite(r) ==
  /\ proc[r].pc = "write"
  /\ pub' = [pub EXCEPT ![proc[r].pub] =
       CASE proc[r].op = "reschedule" -> Rescheduled(@, proc[r].seen, TRUE)
         [] proc[r].op = "cancel"     -> Canceled(@)
         [] proc[r].op = "retry"      -> Retried(@)
         [] proc[r].op = "delete"     -> Deleted(@)
         [] proc[r].op = "unpublish"  -> UnpublishQueued(@)]
  /\ proc' = [proc EXCEPT ![r] =
       IF proc[r].op = "unpublish" THEN [@ EXCEPT !.pc = "enqueue"] ELSE ProcEnd(r)]
  /\ UNCHANGED <<rows, link, Queue, project, archived, batch, WorkerSide, crashes,
                 faults, refusals>>

RequestPost(r) ==
  /\ proc[r].pc = "idle"
  /\ \E op \in Operations \cap PostOperations :
       /\ op = "post_unpublish" => LatestExternalId # 0
       /\ proc' = [proc EXCEPT ![r] =
            [@ EXCEPT !.pc = "find", !.op = op, !.key = KeyOfPost(op)]]
  /\ UNCHANGED <<Records, Queue, project, archived, batch, WorkerSide, crashes, faults,
                 refusals>>

\* archiveProject with mode unpublish_delete reads the published rows, and
\* whether each has an external id ...
RequestArchive(r) ==
  /\ proc[r].pc = "idle" /\ "archive" \in Operations
  /\ ArchiveAccepted
  /\ proc' = [proc EXCEPT ![r] =
       [@ EXCEPT !.pc = "archive", !.op = "archive",
                 !.todo = {<<p, pub[p].ext # 0>> : p \in
                             {q \in rows : pub[q].status = "published"}}]]
  /\ UNCHANGED <<Records, Queue, project, archived, batch, WorkerSide, crashes, faults,
                 refusals>>

\* ... one by one they are queued for unpublishing and enqueued under the
\* archive's own key, or deleted ...
ArchiveRow(r) ==
  /\ proc[r].pc = "archive"
  /\ \E todo \in proc[r].todo :
       LET p == todo[1]
           request == [proc[r] EXCEPT !.todo = @ \ {todo}]
       IN \/ /\ todo[2]
             /\ pub' = [pub EXCEPT ![p].status = "queued", ![p].unpub = TRUE]
             /\ proc' = [proc EXCEPT ![r] =
                  [request EXCEPT !.pc = "find", !.key = "archive"]]
          \/ /\ ~todo[2]
             /\ pub' = [pub EXCEPT ![p].status = "deleted"]
             /\ proc' = [proc EXCEPT ![r] = request]
  /\ UNCHANGED <<rows, link, Queue, project, archived, batch, WorkerSide, crashes,
                 faults, refusals>>

\* ... and the project is archived.
ArchiveProject(r) ==
  /\ proc[r].pc = "archive" /\ proc[r].todo = {}
  /\ archived' = TRUE
  /\ proc' = [proc EXCEPT ![r] = ProcEnd(r)]
  /\ UNCHANGED <<Records, Queue, project, batch, WorkerSide, crashes, faults, refusals>>

-----------------------------------------------------------------------------
(* The publishing worker *)

KeyOf(w) == task[wk[w].task].key

TakeTask(w) ==
  /\ wk[w].pc = "idle"
  /\ \E t \in TaskIds :
       /\ task[t].job.state = "waiting"
       /\ task' = [task EXCEPT ![t].job = Taken(@)]
       /\ wk' = [wk EXCEPT ![w] = [WorkerIdle EXCEPT !.pc = "taken", !.task = t]]
  /\ UNCHANGED <<Records, job, project, archived, batch, proc, handlers, pages, live,
                 crashes, faults, refusals>>

\* Faulty variant: success is written ahead of the call.
SetPublishedAhead(w) ==
  /\ wk[w].pc = "taken"
  /\ job' = [job EXCEPT ![KeyOf(w)].status = "published"]
  /\ wk' = [wk EXCEPT ![w].pc = "processing"]
  /\ UNCHANGED <<Records, task, project, archived, batch, proc, handlers, pages, live,
                 crashes, faults, refusals>>

SetProcessing(w) ==
  /\ wk[w].pc = "taken"
  /\ job' = [job EXCEPT ![KeyOf(w)].status = "processing"]
  /\ wk' = [wk EXCEPT ![w].pc = "processing"]
  /\ UNCHANGED <<Records, task, project, archived, batch, proc, handlers, pages, live,
                 crashes, faults, refusals>>

QueueProject(w) ==
  /\ wk[w].pc = "processing"
  /\ project' = "publish_queued"
  /\ wk' = [wk EXCEPT ![w].pc = "queued"]
  /\ UNCHANGED <<Records, Queue, archived, batch, proc, handlers, pages, live, crashes,
                 faults, refusals>>

LookUpPage(w) ==
  /\ wk[w].pc = "queued"
  /\ wk' = [wk EXCEPT ![w].pc = "ready", ![w].ext = LatestExternalId]
  /\ UNCHANGED <<Records, Queue, project, archived, batch, proc, handlers, pages, live,
                 crashes, faults, refusals>>

\* A page is made; the answer may lack its id.
PageMade(w, public, next) ==
  /\ pages' = pages + 1
  /\ live' = IF public THEN live \cup {pages + 1} ELSE live
  /\ \/ /\ wk' = [wk EXCEPT ![w].pc = next, ![w].post = pages + 1]
        /\ UNCHANGED faults
     \/ Fault /\ wk' = [wk EXCEPT ![w].pc = "called"]

PageChanged(w) == wk' = [wk EXCEPT ![w].pc = "called"] /\ UNCHANGED <<pages, faults, refusals>>

\* runPublisherAction, as the adapters and the site carry it out.  A draft
\* written over a public page withdraws it or not, as the site likes.
CallSite(w) ==
  /\ wk[w].pc = "ready"
  /\ LET k == KeyOf(w)
         ext == wk[w].ext
     IN \/ /\ k \in {"publish", "update"} /\ ext = 0
           /\ IF TwoCalls THEN PageMade(w, FALSE, "drafted") ELSE PageMade(w, TRUE, "called")
        \/ /\ k \in {"publish", "update"} /\ ext # 0
           /\ live' = live \cup {ext} /\ PageChanged(w)
        \/ /\ k = "draft" /\ ext = 0
           /\ PageMade(w, FALSE, "called")
        \/ /\ k = "draft" /\ ext # 0
           /\ live' \in {live, live \ {ext}} /\ PageChanged(w)
        \/ /\ IsUnpublish(k) /\ ext # 0
           /\ live' = live \ {ext} /\ PageChanged(w)
  /\ UNCHANGED <<Records, Queue, project, archived, batch, proc, handlers, crashes,
                 refusals>>

ApproveDraft(w) ==
  /\ wk[w].pc = "drafted"
  /\ live' = live \cup {wk[w].post}
  /\ wk' = [wk EXCEPT ![w].pc = "called"]
  /\ UNCHANGED <<Records, Queue, project, archived, batch, proc, handlers, pages,
                 crashes, faults, refusals>>

\* resolvePublicationStatus
ResultStatus(k) ==
  IF IsUnpublish(k) THEN "canceled" ELSE IF k = "draft" THEN "draft_synced" ELSE "published"

StatusOf(w) == ResultStatus(KeyOf(w))

PageOf(w) == IF wk[w].post # 0 THEN wk[w].post ELSE wk[w].ext

\* The id that is recorded: a missing one replaces the old one if it is the
\* empty string.
Recorded(page, old) == IF page # 0 \/ TwoCalls THEN page ELSE old

SaveJob(w) ==
  /\ wk[w].pc = "called"
  /\ job' = [job EXCEPT ![KeyOf(w)].status = StatusOf(w),
                        ![KeyOf(w)].ext = Recorded(PageOf(w), @)]
  /\ wk' = [wk EXCEPT ![w].pc = "saved"]
  /\ UNCHANGED <<Records, task, project, archived, batch, proc, handlers, pages, live,
                 crashes, faults, refusals>>

\* findFirst: a durable row linked to the job, if any.
LinkedTo(k) == {p \in rows : link[p] = k}

FindRow(w) ==
  /\ wk[w].pc = "saved"
  /\ \/ LinkedTo(KeyOf(w)) = {} /\ wk' = [wk EXCEPT ![w].pc = "synced"]
     \/ \E p \in LinkedTo(KeyOf(w)) :
          wk' = [wk EXCEPT ![w].pc = "found", ![w].hit = p, ![w].seen = pub[p]]
  /\ UNCHANGED <<Records, Queue, project, archived, batch, proc, handlers, pages, live,
                 crashes, faults, refusals>>

\* Faulty variants: the job's own vocabulary is written to the row; whatever
\* the job was, its success publishes the row.
SyncedAsJob(row, seen, status, page) == [row EXCEPT !.status = status]
SyncedAsPublished(row, seen, status, page) ==
  [row EXCEPT !.status = "published", !.ext = page]

\* syncDurablePublication: what the result of the job makes of the row.
Synced(row, seen, status, page) ==
  LET ext == Recorded(page, seen.ext) IN
  CASE status = "published" ->
         [row EXCEPT !.status = "published", !.ext = ext, !.class = "none"]
    [] status = "draft_synced" -> [row EXCEPT !.status = "ready", !.ext = ext]
    [] status = "canceled" ->
         [row EXCEPT !.status = IF seen.unpub THEN "unpublished" ELSE "canceled"]

SyncRow(w) ==
  /\ wk[w].pc = "found"
  /\ pub' = [pub EXCEPT ![wk[w].hit] = Synced(@, wk[w].seen, StatusOf(w), PageOf(w))]
  /\ wk' = [wk EXCEPT ![w].pc = "synced", ![w].hit = None]
  /\ UNCHANGED <<rows, link, Queue, project, archived, batch, proc, handlers, pages,
                 live, crashes, faults, refusals>>

\* Faulty variant: the project's status is left as it was queued.
LeaveProject(w) ==
  /\ wk[w].pc = "synced"
  /\ wk' = [wk EXCEPT ![w].pc = "finished"]
  /\ UNCHANGED <<Records, Queue, project, archived, batch, proc, handlers, pages, live,
                 crashes, faults, refusals>>

\* markProjectPublished, or clearProjectPublicationState, the last step.
MarkProject(w) ==
  /\ wk[w].pc = "synced"
  /\ IF StatusOf(w) = "published"
     THEN /\ project' = "published"
          /\ wk' = [wk EXCEPT ![w].pc = "marked"]
     ELSE /\ project' = "approved"
          /\ wk' = [wk EXCEPT ![w].pc = "finished"]
  /\ UNCHANGED <<Records, Queue, archived, batch, proc, handlers, pages, live, crashes,
                 faults, refusals>>

\* verifyWebsitePublication reads the row and asks the site.
ReadForVerify(w) ==
  /\ wk[w].pc = "marked"
  /\ \/ LinkedTo(KeyOf(w)) = {} /\ wk' = [wk EXCEPT ![w].pc = "finished"]
     \/ \E p \in LinkedTo(KeyOf(w)) :
          wk' = [wk EXCEPT ![w].pc = "verifying", ![w].hit = p, ![w].seen = pub[p]]
  /\ UNCHANGED <<Records, Queue, project, archived, batch, proc, handlers, pages, live,
                 crashes, faults, refusals>>

\* The metadata that was read comes back with the verdict added.
RecordVerification(w) ==
  /\ wk[w].pc = "verifying"
  /\ pub' = [pub EXCEPT ![wk[w].hit].unpub = wk[w].seen.unpub]
  /\ wk' = [wk EXCEPT ![w].pc = "finished"]
  /\ UNCHANGED <<rows, link, Queue, project, archived, batch, proc, handlers, pages,
                 live, crashes, faults, refusals>>

CompleteTask(w) ==
  /\ wk[w].pc = "finished"
  /\ task' = [task EXCEPT ![wk[w].task].job = Completed(@)]
  /\ wk' = [wk EXCEPT ![w] = WorkerIdle]
  /\ UNCHANGED <<Records, job, project, archived, batch, proc, handlers, pages, live,
                 crashes, faults, refusals>>

NewHandler(t, class, w) ==
  [task |-> t, try |-> task[t].job.tries + task[t].job.stalls + 1,
   worker |-> w, class |-> class, pc |-> "new", hit |-> None, retries |-> 0]

\* The processor throws: an unpublish has no page, the site refuses the call, or
\* a call of any kind is lost.
FailTry(w) ==
  /\ \/ wk[w].pc = "ready" /\ IsUnpublish(KeyOf(w)) /\ wk[w].ext = 0
        /\ UNCHANGED <<faults, refusals>>
     \/ wk[w].pc \in {"ready", "drafted"}
        /\ refusals < MaxRefusals /\ refusals' = refusals + 1
        /\ UNCHANGED faults
     \/ wk[w].pc # "idle" /\ Fault /\ UNCHANGED refusals
  /\ \E class \in {"transient", "permanent"} :
       handlers' = handlers \cup {NewHandler(wk[w].task, class, w)}
  /\ task' = [task EXCEPT ![wk[w].task].job = TryFailed(@, BullAttempts)]
  /\ wk' = [wk EXCEPT ![w] = WorkerIdle]
  /\ UNCHANGED <<Records, job, project, archived, batch, proc, pages, live, crashes>>

DelayOver(t) ==
  /\ task[t].job.state = "delayed"
  /\ task' = [task EXCEPT ![t].job = BackoffOver(@)]
  /\ UNCHANGED <<Records, job, project, archived, batch, proc, WorkerSide, crashes,
                 faults, refusals>>

\* The "failed" listener: the job, the project and, if one is linked, the row.
FailJob(h) ==
  /\ h.pc = "new"
  /\ job' = [job EXCEPT ![task[h.task].key].status = "failed"]
  /\ handlers' = (handlers \ {h}) \cup {[h EXCEPT !.pc = "job"]}
  /\ UNCHANGED <<Records, task, project, archived, batch, proc, wk, pages, live,
                 crashes, faults, refusals>>

FailProject(h) ==
  /\ h.pc = "job"
  /\ project' = "publish_failed"
  /\ handlers' = (handlers \ {h}) \cup {[h EXCEPT !.pc = "project"]}
  /\ UNCHANGED <<Records, Queue, archived, batch, proc, wk, pages, live, crashes,
                 faults, refusals>>

FindFailedRow(h) ==
  /\ h.pc = "project"
  /\ LET linked == LinkedTo(task[h.task].key) IN
       \/ linked = {} /\ handlers' = handlers \ {h}
       \/ \E p \in linked : handlers' = (handlers \ {h}) \cup
            {[h EXCEPT !.pc = "read", !.hit = p, !.retries = pub[p].retries]}
  /\ UNCHANGED <<Records, Queue, project, archived, batch, proc, wk, pages, live,
                 crashes, faults, refusals>>

FailRow(h) ==
  /\ h.pc = "read"
  /\ pub' = [pub EXCEPT ![h.hit] = AttemptFailed(@, h.retries, h.class, MaxRetries)]
  /\ handlers' = handlers \ {h}
  /\ UNCHANGED <<rows, link, Queue, project, archived, batch, proc, wk, pages, live,
                 crashes, faults, refusals>>

WorkerCrash(w) ==
  /\ wk[w].pc # "idle" \/ \E h \in handlers : h.worker = w
  /\ crashes < MaxCrashes /\ crashes' = crashes + 1
  /\ wk' = [wk EXCEPT ![w] = WorkerIdle]
  /\ handlers' = {h \in handlers : h.worker # w}
  /\ UNCHANGED <<Records, Queue, project, archived, batch, proc, pages, live, faults,
                 refusals>>

RecoverStalled(w) ==
  /\ \E t \in TaskIds :
       /\ task[t].job.state = "active"
       /\ \A v \in Workers : wk[v].task # t
       /\ task' = [task EXCEPT ![t].job = Stalled(@, MaxStalls)]
       /\ handlers' = IF task[t].job.stalls + 1 > MaxStalls
                      THEN handlers \cup {NewHandler(t, "transient", w)}
                      ELSE handlers
  /\ UNCHANGED <<Records, job, project, archived, batch, proc, wk, pages, live, crashes,
                 faults, refusals>>

-----------------------------------------------------------------------------
EnqueueStep(x) ==
  \/ ChooseAction(x) \/ FindJob(x) \/ ResetJob(x) \/ CreateJob(x)
  \/ SetProjectQueued(x) \/ LinkRow(x) \/ CheckQueue(x) \/ AddTask(x)

SchedulerStep(s) ==
  Claim(s) \/ NextClaimed(s) \/ EnqueueStep(s) \/ CatchEnqueue(s)

RequestStep(r) ==
  \/ RequestWrite(r) \/ RequestEnqueue(r) \/ EnqueueStep(r)
  \/ FindDurable(r) \/ CreateDurable(r) \/ MarkDurable(r)
  \/ RequestThrows(r) \/ ArchiveRow(r) \/ ArchiveProject(r)

TaskStep(w) ==
  \/ SetProcessing(w) \/ QueueProject(w) \/ LookUpPage(w) \/ CallSite(w)
  \/ ApproveDraft(w) \/ SaveJob(w)
  \/ FindRow(w) \/ SyncRow(w) \/ MarkProject(w) \/ ReadForVerify(w)
  \/ RecordVerification(w) \/ CompleteTask(w) \/ FailTry(w)

HandlerStep(h) == FailJob(h) \/ FailProject(h) \/ FindFailedRow(h) \/ FailRow(h)

Next ==
  \/ \E s \in Schedulers : SchedulerStep(s) \/ EnqueueError(s) \/ TickAborted(s)
  \/ \E r \in Requests :
       \/ RequestRow(r) \/ RequestPost(r) \/ RequestArchive(r)
       \/ RequestStep(r) \/ EnqueueError(r) \/ RequestAborted(r)
  \/ \E w \in Workers : \/ TakeTask(w) \/ TaskStep(w)
                        \/ RecoverStalled(w) \/ WorkerCrash(w)
  \/ \E t \in TaskIds : DelayOver(t)
  \/ \E h \in handlers : HandlerStep(h)

Spec == Init /\ [][Next]_vars

\* As in SocialPublishing: loops, timers and event loops keep running.
Fairness ==
  /\ \A s \in Schedulers : WF_vars(SchedulerStep(s))
  /\ \A r \in Requests : WF_vars(RequestStep(r))
  /\ \A w \in Workers : /\ WF_vars(TakeTask(w)) /\ WF_vars(TaskStep(w))
                        /\ WF_vars(RecoverStalled(w))
  /\ WF_vars(\E t \in TaskIds : DelayOver(t))
  /\ WF_vars(\E h \in handlers : HandlerStep(h))

FairSpec == Spec /\ Fairness

-----------------------------------------------------------------------------
(* Properties *)

\* Nobody is working on the article.
Quiet ==
  /\ \A s \in Schedulers : proc[s].pc = "idle" /\ batch[s] = {}
  /\ \A r \in Requests : proc[r].pc \in {"idle", "done"}
  /\ \A t \in TaskIds : ~TaskLive(t)
  /\ handlers = {}

\* docs/auctorio-acceptance-2026-08-21.md: one post for the slug, no duplicate.
OnePage == pages <= 1

\* No row waits once the work is over, whatever was asked.
NothingWaits == Quiet => \A p \in rows : pub[p].status \notin {"queued", "publishing"}

\* Somebody asked to unpublish the row.  (A request that the release gate
\* refuses leaves its row queued: see WebsitePublishing_gate.cfg.)
AskedDown(p) == \E r \in Requests : proc[r].op = "unpublish" /\ proc[r].pub = p

\* A row that waits for somebody has somebody: the shared job, its task and
\* the failure listener always come back to the row.
NotStranded ==
  Quiet => \A p \in rows :
             pub[p].status \in {"queued", "publishing"} => AskedDown(p)

\* A publication job that waits has a task that will carry it out: the rows
\* that only link themselves to it rely on that.
JobNotStranded ==
  Quiet => \A k \in Keys : job[k].status \notin {"queued", "processing"}

\* The database never claims more than the site did: who is published has had
\* a page made, and no external id is known that the site did not give out.
PublishedWasMade ==
  /\ \A p \in rows : pub[p].status = "published" => pages > 0
  /\ \A p \in rows : pub[p].ext <= pages
  /\ \A k \in Keys : job[k].status \in {"published", "draft_synced"} => pages > 0
  /\ \A k \in Keys : job[k].ext <= pages

\* Once the work is over, a published row names a page that is up.
PublishedRowIsUp ==
  Quiet => \A p \in rows : pub[p].status = "published" => pub[p].ext \in live

\* Once the work is over, an unpublished row has left nothing up.
UnpublishedIsDown ==
  Quiet => \A p \in rows : pub[p].status = "unpublished" => pub[p].ext \notin live

\* Once the work is over, the project says published when its row does: the
\* two are written by different processes in different orders.
ProjectAgrees ==
  Quiet => \A p \in rows : pub[p].status = "published" => project = "published"

\* The pipeline as the owner of a row sees it: a page is made for the version,
\* the row is told its id.
Published == {p \in Pubs : pub[p].status = "published"}
ExternalIds == [p \in Pubs |-> pub[p].ext]

Promise == INSTANCE Delivery WITH
  Items <- Pubs, sent <- [p \in Pubs |-> pages], receipt <- ExternalIds, shown <- Published

\* As long as no answer is lost the website pipeline keeps the promise of the
\* social one: a row is shown as published only by the step that tells it the id of
\* a page that was made, and never forgets one (syncDurablePublication).
Delivers == Promise!Spec

\* worker-publishing.ts: "Remote success must never be replayed": what was
\* recorded as published does not become a failure that is tried again.
RemoteSuccessNotReplayed ==
  [][\A p \in Pubs : pub[p].status = "published" => ~Claimable(pub'[p])]_vars

\* An unpublish request that was accepted is not forgotten.
UnpublishNotForgotten ==
  [][\A p \in Pubs : pub[p].unpub => pub'[p].unpub]_vars

\* publishers.ts: no orphaned unpublished records: a page that was made is
\* public, or somebody knows its id, once the work is over.
NoOrphanPage ==
  Quiet => \A n \in 1 .. pages :
             n \in live \/ (\E k \in Keys : job[k].ext = n) \/ (\E p \in rows : pub[p].ext = n)

\* What is due comes to rest, the row, the job and the project together.
AtRest ==
  /\ Quiet
  /\ project # "publish_queued"
  /\ \A p \in rows : /\ pub[p].status \notin {"scheduled", "queued", "publishing"} \/ AskedDown(p)
                     /\ ~Claimable(pub[p])
EventuallyAtRest == <>[]AtRest
=============================================================================
