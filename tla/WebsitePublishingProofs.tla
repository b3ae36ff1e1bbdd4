----------------------- MODULE WebsitePublishingProofs -----------------------
(***************************************************************************)
(* Theorems of WebsitePublishing, for every value of its constants.        *)
(***************************************************************************)
EXTENDS WebsitePublishing, TLAPS, FiniteSetTheorems, WellFoundedInduction

-----------------------------------------------------------------------------
(* The invariant.  TypeOK is not inductive: the public pages are among those *)
(* that were made only because every id that rows, jobs and workers carry is *)
(* that of a page made.                                                      *)

RowFine(row, made) ==
  /\ row \in Rows /\ row.ext <= made
  /\ row.status = "published" => made > 0

JobFine(record, made) ==
  /\ record \in PublicationJobs /\ record.ext <= made
  /\ record.status \in {"published", "draft_synced"} => made > 0

\* The steps of a worker that come after the site has answered.
Answered == {"drafted", "called", "saved", "found"}

WorkerFine(r, made) ==
  /\ r \in WorkerStates
  /\ r.ext <= made /\ r.post <= made /\ r.seen.ext <= made
  /\ r.pc # "idle" => r.task \in TaskIds
  /\ r.pc \in Answered => made > 0
  /\ r.pc = "drafted" => r.post # 0

ProcFine(r) ==
  /\ r \in ProcStates
  /\ r.pc = "find" => r.key \in Keys
  /\ r.pc = "write" => r.op \in RowOperations

RowsFine == \A p \in Pubs : RowFine(pub[p], pages)
JobsFine == \A k \in Keys : JobFine(job[k], pages)
WorkersFine == \A w \in Workers : WorkerFine(wk[w], pages)
ProcsFine == \A x \in Procs : ProcFine(proc[x])

MadeInv == TypeOK /\ RowsFine /\ JobsFine /\ WorkersFine /\ ProcsFine

LEMMA InitialValues ==
  /\ \A status \in States : NewRow(status) \in Rows /\ NewRow(status).ext = 0
                            /\ NewRow(status).status = status
  /\ ProcFine(ProcIdle) /\ ProcIdle.pc = "idle"
  /\ WorkerFine(WorkerIdle, 0) /\ WorkerIdle.pc = "idle"
  /\ NoJob \in Jobs
<1>1. \A status \in States : NewRow(status) \in Rows /\ NewRow(status).ext = 0
                             /\ NewRow(status).status = status
  BY DEF NewRow, Rows, FailureClasses
<1>2. NewRow("draft") \in Rows /\ NewRow("draft").ext = 0
  BY <1>1 DEF States
<1>3. ProcFine(ProcIdle) /\ ProcIdle.pc = "idle"
  BY <1>2 DEF ProcIdle, ProcFine, ProcStates, ProcSteps
<1>4. WorkerFine(WorkerIdle, 0) /\ WorkerIdle.pc = "idle"
  BY <1>2 DEF WorkerIdle, WorkerFine, WorkerStates, WorkerSteps, Answered
<1>5. QED
  BY <1>1, <1>3, <1>4 DEF NoJob, Jobs, JobStates

LEMMA MadeInit == Init => MadeInv
<1> SUFFICES ASSUME Init PROVE MadeInv
  OBVIOUS
<1>1. \A p \in Pubs : RowFine(pub[p], 0)
  BY InitialValues DEF Init, CreatedRows, States, RowFine
<1>2. \A k \in Keys : JobFine(job[k], 0)
  BY DEF Init, JobFine, PublicationJobs, JobStatus
<1>3. \A t \in TaskIds : task[t] \in Tasks
  BY InitialValues DEF Init, Tasks
<1>4. TypeOK
  BY <1>1, <1>2, <1>3, InitialValues
     DEF Init, TypeOK, RowFine, JobFine, WorkerFine, ProcFine, ProjectStatus
<1>5. QED
  BY <1>1, <1>2, <1>4, InitialValues
     DEF Init, MadeInv, RowsFine, JobsFine, WorkersFine, ProcsFine

-----------------------------------------------------------------------------
(* One record is replaced *)

LEMMA RowReplaced ==
  ASSUME MadeInv, pages' = pages, NEW p, NEW row,
         pub' = [pub EXCEPT ![p] = row],
         p \in Pubs => RowFine(row, pages)
  PROVE  pub' \in [Pubs -> Rows] /\ RowsFine'
  BY DEF MadeInv, TypeOK, RowsFine, RowFine

LEMMA JobReplaced ==
  ASSUME MadeInv, pages' = pages, NEW k, NEW record,
         job' = [job EXCEPT ![k] = record],
         k \in Keys => JobFine(record, pages)
  PROVE  job' \in [Keys -> PublicationJobs] /\ JobsFine'
  BY DEF MadeInv, TypeOK, JobsFine, JobFine

LEMMA ProcReplaced ==
  ASSUME MadeInv, NEW x \in Procs, NEW r, proc' = [proc EXCEPT ![x] = r], ProcFine(r)
  PROVE  proc' \in [Procs -> ProcStates] /\ ProcsFine'
  BY DEF MadeInv, TypeOK, ProcsFine, ProcFine

LEMMA WorkerReplaced ==
  ASSUME MadeInv, pages' = pages, NEW w \in Workers, NEW r,
         wk' = [wk EXCEPT ![w] = r], WorkerFine(r, pages)
  PROVE  wk' \in [Workers -> WorkerStates] /\ WorkersFine'
  BY DEF MadeInv, TypeOK, WorkersFine, WorkerFine

LEMMA TaskReplaced ==
  ASSUME MadeInv, NEW t, NEW record, task' = [task EXCEPT ![t] = record],
         t \in TaskIds => record \in Tasks
  PROVE  task' \in [TaskIds -> Tasks]
  BY DEF MadeInv, TypeOK

\* The record of one process moves to another step, or ends.
LEMMA ProcMoved ==
  ASSUME MadeInv, NEW x \in Procs, NEW pc \in ProcSteps \ {"find", "write"}
  PROVE  /\ ProcFine([proc[x] EXCEPT !.pc = pc])
         /\ \A p \in Pubs \cup {None} : ProcFine([proc[x] EXCEPT !.pc = pc, !.pub = p])
         /\ \A b \in BOOLEAN : ProcFine([proc[x] EXCEPT !.pc = pc, !.fresh = b])
<1>1. proc[x] \in ProcStates
  BY DEF MadeInv, TypeOK
<1>2. QED
  BY <1>1 DEF ProcFine, ProcStates

LEMMA ProcEnds ==
  ASSUME MadeInv, NEW x \in Procs
  PROVE  ProcFine(ProcEnd(x))
<1>1. proc[x] \in ProcStates
  BY DEF MadeInv, TypeOK
<1>2. CASE x \in Schedulers
  BY <1>2, InitialValues DEF ProcEnd
<1>3. CASE x \notin Schedulers
  <2> DEFINE op == proc[x].op
             p == proc[x].pub
             r == [ProcIdle EXCEPT !.pc = "done", !.op = op, !.pub = p]
  <2>1. op \in AllOperations \cup {"publish"} /\ p \in Pubs \cup {None}
    BY <1>1 DEF ProcStates
  <2> HIDE DEF op, p
  <2>2. ProcFine(r)
    BY <2>1, InitialValues DEF ProcFine, ProcStates, ProcSteps
  <2> USE DEF op, p
  <2>3. QED
    BY <1>3, <2>2 DEF ProcEnd
<1>4. QED
  BY <1>2, <1>3

LEMMA JobUpdates ==
  ASSUME NEW j \in Jobs
  PROVE  /\ Added(j) \in Jobs
         /\ Taken(j) \in Jobs
         /\ Completed(j) \in Jobs
         /\ BackoffOver(j) \in Jobs
         /\ TryFailed(j, BullAttempts) \in Jobs
         /\ Stalled(j, MaxStalls) \in Jobs
<1> DEFINE tries == j.tries + 1
           stalls == j.stalls + 1
<1>1. tries \in Nat /\ stalls \in Nat
  BY DEF Jobs
<1>2. TryFailed(j, BullAttempts) =
        [j EXCEPT !.tries = tries,
                  !.state = IF tries < BullAttempts THEN "delayed" ELSE "dead"]
  BY DEF TryFailed, Jobs
<1>3. Stalled(j, MaxStalls) =
        [j EXCEPT !.stalls = stalls,
                  !.state = IF stalls > MaxStalls THEN "dead" ELSE "waiting"]
  BY DEF Stalled, Jobs
<1> HIDE DEF tries, stalls
<1>4. TryFailed(j, BullAttempts) \in Jobs /\ Stalled(j, MaxStalls) \in Jobs
  BY <1>1, <1>2, <1>3 DEF Jobs, JobStates
<1>5. QED
  BY <1>4 DEF Jobs, JobStates, Added, Taken, Completed, BackoffOver

\* No operator's write invents an external id or a publication.
LEMMA RowUpdates ==
  ASSUME NEW made \in Nat, NEW row, RowFine(row, made), NEW seen \in Rows
  PROVE  /\ RowFine(Rescheduled(row, seen, TRUE), made)
         /\ RowFine(Canceled(row), made)
         /\ RowFine(Retried(row), made)
         /\ RowFine(Deleted(row), made)
         /\ RowFine(UnpublishQueued(row), made)
         /\ RowFine(Claimed(row), made)
         /\ RowFine(ReleaseBlocked(row), made)
         /\ RowFine(EnqueueFailed(row), made)
         /\ RowFine([row EXCEPT !.status = "publishing"], made)
         /\ RowFine([row EXCEPT !.status = "deleted"], made)
         /\ RowFine([row EXCEPT !.status = "queued", !.unpub = TRUE], made)
         /\ \A b \in BOOLEAN : RowFine([row EXCEPT !.unpub = b], made)
  BY ZenonT(60) DEF RowFine, Rows, States, FailureClasses, Rescheduled, Canceled, Retried, Deleted,
         UnpublishQueued, Claimed, ReleaseBlocked, EnqueueFailed

-----------------------------------------------------------------------------
(* The processes that enqueue: schedulers and requests *)

LEMMA ReadAndGateProc ==
  ASSUME MadeInv, NEW x \in Procs, NEW p \in Pubs \cup {None}, ReadAndGate(x, p)
  PROVE  /\ proc' \in [Procs -> ProcStates] /\ ProcsFine'
         /\ faults' \in Nat
<1>1. faults' \in Nat
  BY ConstantsAssumption DEF ReadAndGate, Fault, MadeInv, TypeOK
<1>2. CASE proc' = [proc EXCEPT ![x] = ProcEnd(x)]
  BY <1>1, <1>2, ProcEnds, ProcReplaced
<1>3. ASSUME NEW pc \in {"read", "blocked", "error"},
             proc' = [proc EXCEPT ![x] = [@ EXCEPT !.pc = pc, !.pub = p]]
      PROVE  proc' \in [Procs -> ProcStates] /\ ProcsFine'
  <2> DEFINE r == [proc[x] EXCEPT !.pc = pc, !.pub = p]
  <2>1. ProcFine(r)
    BY ProcMoved DEF ProcSteps
  <2>2. proc' = [proc EXCEPT ![x] = r]
    BY <1>3
  <2> HIDE DEF r
  <2>3. QED
    BY <2>1, <2>2, ProcReplaced
<1>4. QED
  BY <1>1, <1>2, <1>3 DEF ReadAndGate

\* What somebody who enqueues does, up to the writes to the queue.
Enqueuing(x) ==
  \/ EnqueueStep(x) \/ FindDurable(x) \/ CreateDurable(x) \/ MarkDurable(x)
  \/ EnqueueError(x) \/ CatchEnqueue(x) \/ RequestThrows(x) \/ RequestAborted(x)
  \/ RequestRow(x) \/ RequestWrite(x) \/ RequestPost(x) \/ RequestArchive(x)
  \/ ArchiveRow(x) \/ ArchiveProject(x)

\* A step that only moves the process to another one.
Moves(x) ==
  \E pc \in ProcSteps \ {"find", "write"} :
    \/ proc' = [proc EXCEPT ![x].pc = pc]
    \/ proc' = [proc EXCEPT ![x] = [@ EXCEPT !.pc = pc]]
    \/ \E b \in BOOLEAN : proc' = [proc EXCEPT ![x].pc = pc, ![x].fresh = b]
    \/ \E p \in Pubs : proc' = [proc EXCEPT ![x] = [@ EXCEPT !.pc = pc, !.pub = p]]

Ends(x) == proc' = [proc EXCEPT ![x] = ProcEnd(x)]

LEMMA MovesOrEnds ==
  ASSUME MadeInv, NEW x \in Procs, Moves(x) \/ Ends(x)
  PROVE  proc' \in [Procs -> ProcStates] /\ ProcsFine'
<1>0. proc \in [Procs -> ProcStates]
  BY DEF MadeInv, TypeOK
<1>1. CASE Ends(x)
  BY <1>1, ProcEnds, ProcReplaced DEF Ends
<1>2. CASE Moves(x)
  <2>1. PICK pc \in ProcSteps \ {"find", "write"} :
          \/ proc' = [proc EXCEPT ![x].pc = pc]
          \/ proc' = [proc EXCEPT ![x] = [@ EXCEPT !.pc = pc]]
          \/ \E b \in BOOLEAN : proc' = [proc EXCEPT ![x].pc = pc, ![x].fresh = b]
          \/ \E p \in Pubs : proc' = [proc EXCEPT ![x] = [@ EXCEPT !.pc = pc, !.pub = p]]
    BY <1>2 DEF Moves
  <2>2. CASE \/ proc' = [proc EXCEPT ![x].pc = pc]
             \/ proc' = [proc EXCEPT ![x] = [@ EXCEPT !.pc = pc]]
    <3> DEFINE r == [proc[x] EXCEPT !.pc = pc]
    <3>1. ProcFine(r) /\ proc' = [proc EXCEPT ![x] = r]
      BY <1>0, <2>2, ProcMoved
    <3> HIDE DEF r
    <3>2. QED
      BY <3>1, ProcReplaced
  <2>3. ASSUME NEW b \in BOOLEAN, proc' = [proc EXCEPT ![x].pc = pc, ![x].fresh = b]
        PROVE  proc' \in [Procs -> ProcStates] /\ ProcsFine'
    <3> DEFINE r == [proc[x] EXCEPT !.pc = pc, !.fresh = b]
    <3>1. ProcFine(r) /\ proc' = [proc EXCEPT ![x] = r]
      BY <1>0, <2>3, ProcMoved
    <3> HIDE DEF r
    <3>2. QED
      BY <3>1, ProcReplaced
  <2>4. ASSUME NEW p \in Pubs, proc' = [proc EXCEPT ![x] = [@ EXCEPT !.pc = pc, !.pub = p]]
        PROVE  proc' \in [Procs -> ProcStates] /\ ProcsFine'
    <3> DEFINE r == [proc[x] EXCEPT !.pc = pc, !.pub = p]
    <3>1. ProcFine(r) /\ proc' = [proc EXCEPT ![x] = r]
      BY <1>0, <2>4, ProcMoved
    <3> HIDE DEF r
    <3>2. QED
      BY <3>1, ProcReplaced
  <2>5. QED
    BY <2>1, <2>2, <2>3, <2>4
<1>3. QED
  BY <1>1, <1>2

LEMMA EnqueueStepMoves ==
  ASSUME MadeInv, NEW x \in Procs, EnqueueStep(x), ~ ChooseAction(x)
  PROVE  Moves(x) \/ Ends(x)
<1>0. proc[x] \in ProcStates /\ proc \in [Procs -> ProcStates]
  BY DEF MadeInv, TypeOK
<1> USE DEF ProcSteps
<1>1. CASE FindJob(x)
  <2> DEFINE status == job[proc[x].key].status
             next == AfterFind(proc[x].op, status)
  <2>1. status \in JobStatus
    <3>1. proc[x].key \in Keys
      BY <1>1 DEF FindJob, MadeInv, ProcsFine, ProcFine
    <3>2. QED
      BY <3>1 DEF MadeInv, TypeOK, PublicationJobs
  <2>2. proc' = [proc EXCEPT ![x] =
                  IF next = "done" THEN ProcEnd(x) ELSE [proc[x] EXCEPT !.pc = next]]
    BY <1>0, <1>1 DEF FindJob
  <2>3. next \in {"create", "link", "check", "reset", "done"}
    <3> HIDE DEF status
    <3>1. QED
      BY <2>1 DEF AfterFind, JobStatus
  <2> HIDE DEF next
  <2>4. CASE next = "done"
    BY <2>2, <2>4 DEF Ends
  <2>5. CASE next # "done"
    BY <1>0, <2>2, <2>3, <2>5 DEF Moves
  <2>6. QED
    BY <2>4, <2>5
<1>2. CASE ResetJob(x)
  <2>1. \E pc \in {"check", "project"} : proc' = [proc EXCEPT ![x].pc = pc]
    BY <1>2 DEF ResetJob, AfterWriteJob
  <2>2. QED
    BY <2>1 DEF Moves
<1>3. CASE CreateJob(x)
  <2>1. \/ proc' = [proc EXCEPT ![x].pc = "error"]
        \/ \E pc \in {"check", "project"} : proc' = [proc EXCEPT ![x].pc = pc, ![x].fresh = TRUE]
    BY <1>3 DEF CreateJob, AfterWriteJob
  <2>2. QED
    BY <2>1 DEF Moves
<1>4. CASE SetProjectQueued(x)
  <2>1. \E pc \in {"linkq", "check"} : proc' = [proc EXCEPT ![x].pc = pc]
    BY <1>4 DEF SetProjectQueued
  <2>2. QED
    BY <2>1 DEF Moves
<1>5. CASE LinkRow(x)
  <2>1. Ends(x) \/ proc' = [proc EXCEPT ![x] = [@ EXCEPT !.pc = "check"]]
    BY <1>5 DEF LinkRow, Ends
  <2>2. QED
    BY <2>1 DEF Moves
<1>6. CASE CheckQueue(x) \/ AddTask(x)
  <2>1. \/ proc' = [proc EXCEPT ![x] = Afterwards(x)]
        \/ proc' = [proc EXCEPT ![x] = [@ EXCEPT !.pc = "add"]]
    BY <1>6 DEF CheckQueue, AddTask
  <2>2. Afterwards(x) \in {ProcEnd(x), [proc[x] EXCEPT !.pc = "archive"],
                           [proc[x] EXCEPT !.pc = "durable"]}
    BY DEF Afterwards
  <2>3. CASE \E pc \in {"archive", "durable"} :
               proc' = [proc EXCEPT ![x] = [proc[x] EXCEPT !.pc = pc]]
    BY <1>0, <2>3 DEF Moves
  <2>4. QED
    BY <2>1, <2>2, <2>3 DEF Moves, Ends
<1>7. QED
  BY <1>1, <1>2, <1>3, <1>4, <1>5, <1>6 DEF EnqueueStep

LEMMA EnqueuingProcs ==
  ASSUME MadeInv, NEW x \in Procs, Enqueuing(x)
  PROVE  proc' \in [Procs -> ProcStates] /\ ProcsFine'
<1>0. /\ proc[x] \in ProcStates /\ proc \in [Procs -> ProcStates] /\ ProcFine(proc[x])
      /\ pub \in [Pubs -> Rows] /\ rows \subseteq Pubs
  BY DEF MadeInv, TypeOK, ProcsFine
<1>1. CASE EnqueueStep(x) /\ ~ ChooseAction(x)
  BY <1>1, EnqueueStepMoves, MovesOrEnds
<1>2. CASE ChooseAction(x)
  <2> DEFINE k == KeyOfRow(pub[proc[x].pub])
             r == [proc[x] EXCEPT !.pc = "find", !.key = k]
  <2>1. k \in Keys
    BY DEF KeyOfRow, Keys
  <2>2. proc' = [proc EXCEPT ![x] = r]
    BY <1>0, <1>2 DEF ChooseAction
  <2> HIDE DEF k
  <2>3. ProcFine(r)
    BY <1>0, <2>1 DEF ProcFine, ProcStates, ProcSteps
  <2> HIDE DEF r
  <2>4. QED
    BY <2>2, <2>3, ProcReplaced
<1>3. CASE \/ FindDurable(x) \/ CreateDurable(x) \/ MarkDurable(x) \/ EnqueueError(x)
           \/ RequestThrows(x) \/ RequestAborted(x) \/ ArchiveProject(x)
  <2>1. CASE FindDurable(x)
    BY <1>0, <2>1, MovesOrEnds, ZenonT(60) DEF FindDurable, Moves, ProcSteps
  <2>2. CASE CreateDurable(x)
    <3>1. \E p \in Pubs : proc' = [proc EXCEPT ![x] = [@ EXCEPT !.pc = "markrow", !.pub = p]]
      BY <2>2 DEF CreateDurable
    <3>2. "markrow" \in ProcSteps \ {"find", "write"}
      BY DEF ProcSteps
    <3>3. QED
      BY <3>1, <3>2, MovesOrEnds DEF Moves
  <2>3. CASE MarkDurable(x) \/ RequestThrows(x) \/ RequestAborted(x) \/ ArchiveProject(x)
    BY <2>3, MovesOrEnds DEF MarkDurable, RequestThrows, RequestAborted, ArchiveProject, Ends
  <2>4. CASE EnqueueError(x)
    BY <2>4, MovesOrEnds DEF EnqueueError, Moves, ProcSteps
  <2>5. QED
    BY <1>3, <2>1, <2>2, <2>3, <2>4
<1>4. CASE CatchEnqueue(x)
  <2>1. proc' = [proc EXCEPT ![x] = ProcIdle]
    BY <1>4 DEF CatchEnqueue
  <2>2. QED
    BY <2>1, InitialValues, ProcReplaced
<1>5. CASE RequestRow(x)
  <2>1. PICK op \in RowOperations, p \in Pubs :
          proc' = [proc EXCEPT ![x] =
                    [@ EXCEPT !.pc = "write", !.op = op, !.pub = p, !.seen = pub[p]]]
    BY <1>0, <1>5 DEF RequestRow
  <2> DEFINE seen == pub[p]
             r == [proc[x] EXCEPT !.pc = "write", !.op = op, !.pub = p, !.seen = seen]
  <2>2. seen \in Rows
    BY <1>0
  <2>3. proc' = [proc EXCEPT ![x] = r]
    BY <1>0, <2>1
  <2> HIDE DEF seen
  <2>4. ProcFine(r)
    BY <1>0, <2>2 DEF ProcFine, ProcStates, ProcSteps, AllOperations
  <2> HIDE DEF r
  <2>5. QED
    BY <2>3, <2>4, ProcReplaced
<1>6. CASE RequestWrite(x)
  <2>1. Ends(x) \/ proc' = [proc EXCEPT ![x] = [@ EXCEPT !.pc = "enqueue"]]
    BY <1>6 DEF RequestWrite, Ends
  <2>2. QED
    BY <2>1, MovesOrEnds DEF Moves, ProcSteps
<1>7. CASE RequestPost(x)
  <2>1. PICK op \in PostOperations :
          proc' = [proc EXCEPT ![x] =
                    [@ EXCEPT !.pc = "find", !.op = op, !.key = KeyOfPost(op)]]
    BY <1>7 DEF RequestPost
  <2> DEFINE k == KeyOfPost(op)
             r == [proc[x] EXCEPT !.pc = "find", !.op = op, !.key = k]
  <2>2. k \in Keys
    BY DEF KeyOfPost, Keys, PostOperations
  <2>3. proc' = [proc EXCEPT ![x] = r]
    BY <1>0, <2>1
  <2> HIDE DEF k
  <2>4. ProcFine(r)
    BY <1>0, <2>2 DEF ProcFine, ProcStates, ProcSteps, AllOperations
  <2> HIDE DEF r
  <2>5. QED
    BY <2>3, <2>4, ProcReplaced
<1>8. CASE RequestArchive(x)
  <2> DEFINE todo == {<<p, pub[p].ext # 0>> : p \in {q \in rows : pub[q].status = "published"}}
             r == [proc[x] EXCEPT !.pc = "archive", !.op = "archive", !.todo = todo]
  <2>1. todo \in SUBSET (Pubs \X BOOLEAN)
    <3> SUFFICES ASSUME NEW e \in todo PROVE e \in Pubs \X BOOLEAN
      OBVIOUS
    <3>1. PICK p \in {q \in rows : pub[q].status = "published"} : e = <<p, pub[p].ext # 0>>
      OBVIOUS
    <3>2. p \in Pubs /\ (pub[p].ext # 0) \in BOOLEAN
      BY <1>0
    <3> DEFINE b == pub[p].ext # 0
    <3>3. e = <<p, b>>
      BY <3>1
    <3>4. b \in BOOLEAN
      BY <3>2
    <3> HIDE DEF b
    <3>5. QED
      BY <3>2, <3>3, <3>4
  <2>2. proc' = [proc EXCEPT ![x] = r]
    BY <1>0, <1>8 DEF RequestArchive
  <2> HIDE DEF todo
  <2>3. ProcFine(r)
    BY <1>0, <2>1 DEF ProcFine, ProcStates, ProcSteps, AllOperations
  <2> HIDE DEF r
  <2>4. QED
    BY <2>2, <2>3, ProcReplaced
<1>9. CASE ArchiveRow(x)
  <2>1. PICK todo \in proc[x].todo :
          \/ proc' = [proc EXCEPT ![x] =
               [[proc[x] EXCEPT !.todo = proc[x].todo \ {todo}]
                  EXCEPT !.pc = "find", !.key = "archive"]]
          \/ proc' = [proc EXCEPT ![x] = [proc[x] EXCEPT !.todo = proc[x].todo \ {todo}]]
    BY <1>9 DEF ArchiveRow
  <2> DEFINE rest == proc[x].todo \ {todo}
             q == [proc[x] EXCEPT !.todo = rest]
             r == [q EXCEPT !.pc = "find", !.key = "archive"]
  <2>2. rest \in SUBSET (Pubs \X BOOLEAN)
    BY <1>0 DEF ProcStates
  <2>3. proc' = [proc EXCEPT ![x] = r] \/ proc' = [proc EXCEPT ![x] = q]
    BY <2>1
  <2>pc. proc[x].pc = "archive"
    BY <1>9 DEF ArchiveRow
  <2> HIDE DEF rest
  <2>4. ProcFine(q)
    BY <1>0, <2>2, <2>pc DEF ProcFine, ProcStates
  <2> HIDE DEF q
  <2>5. ProcFine(r)
    BY <2>4 DEF ProcFine, ProcStates, ProcSteps, Keys
  <2> HIDE DEF r
  <2>6. QED
    BY <2>3, <2>4, <2>5, ProcReplaced
<1>10. QED
  BY <1>1, <1>2, <1>3, <1>4, <1>5, <1>6, <1>7, <1>8, <1>9 DEF Enqueuing

\* None of them writes that a row is published, or an external id.
LEMMA EnqueuingRows ==
  ASSUME MadeInv, NEW x \in Procs, Enqueuing(x), pages' = pages
  PROVE  pub' \in [Pubs -> Rows] /\ RowsFine'
<1>0. /\ proc[x] \in ProcStates /\ ProcFine(proc[x]) /\ pages \in Nat
      /\ \A p \in Pubs : RowFine(pub[p], pages)
      /\ proc[x].seen \in Rows
  BY DEF MadeInv, TypeOK, ProcsFine, RowsFine, ProcStates
<1>1. CASE UNCHANGED pub
  BY <1>1 DEF MadeInv, TypeOK, RowsFine
<1>2. CASE CreateDurable(x)
  <2>1. PICK p \in Pubs : pub' = [pub EXCEPT ![p] = NewRow("scheduled")]
    BY <1>2 DEF CreateDurable
  <2>2. RowFine(NewRow("scheduled"), pages)
    BY <1>0, InitialValues DEF RowFine, States
  <2>3. QED
    BY <2>1, <2>2, RowReplaced
<1>3. CASE MarkDurable(x)
  <2> DEFINE p == proc[x].pub
             row == [pub[p] EXCEPT !.status = "publishing"]
  <2>1. pub' = [pub EXCEPT ![p] = row]
    BY <1>3 DEF MarkDurable, MadeInv, TypeOK
  <2>2. p \in Pubs => RowFine(row, pages)
    BY <1>0, RowUpdates
  <2> HIDE DEF p, row
  <2>3. QED
    BY <2>1, <2>2, RowReplaced
<1>4. CASE CatchEnqueue(x)
  <2> DEFINE p == proc[x].pub
  <2>1. PICK row \in {ReleaseBlocked(pub[p]), EnqueueFailed(pub[p])} :
          pub' = [pub EXCEPT ![p] = row]
    BY <1>4 DEF CatchEnqueue
  <2>2. p \in Pubs => RowFine(row, pages)
    BY <1>0, RowUpdates
  <2> HIDE DEF p
  <2>3. QED
    BY <2>1, <2>2, RowReplaced
<1>5. CASE RequestWrite(x)
  <2> DEFINE p == proc[x].pub
             op == proc[x].op
             seen == proc[x].seen
             row == CASE op = "reschedule" -> Rescheduled(pub[p], seen, TRUE)
                      [] op = "cancel"     -> Canceled(pub[p])
                      [] op = "retry"      -> Retried(pub[p])
                      [] op = "delete"     -> Deleted(pub[p])
                      [] op = "unpublish"  -> UnpublishQueued(pub[p])
  <2>1. op \in RowOperations
    BY <1>0, <1>5 DEF RequestWrite, ProcFine
  <2>2. pub' = [pub EXCEPT ![p] = row]
    BY <1>5 DEF RequestWrite
  <2> HIDE DEF op
  <2>3. row \in {Rescheduled(pub[p], seen, TRUE), Canceled(pub[p]), Retried(pub[p]),
                 Deleted(pub[p]), UnpublishQueued(pub[p])}
    BY <2>1 DEF RowOperations
  <2> HIDE DEF row
  <2>4. p \in Pubs => RowFine(row, pages)
    BY <1>0, <2>3, RowUpdates
  <2> HIDE DEF p
  <2>5. QED
    BY <2>2, <2>4, RowReplaced
<1>6. CASE ArchiveRow(x)
  <2>1. PICK p \in Pubs :
          \/ pub' = [pub EXCEPT ![p].status = "queued", ![p].unpub = TRUE]
          \/ pub' = [pub EXCEPT ![p].status = "deleted"]
    <3>1. PICK todo \in proc[x].todo :
            \/ pub' = [pub EXCEPT ![todo[1]].status = "queued", ![todo[1]].unpub = TRUE]
            \/ pub' = [pub EXCEPT ![todo[1]].status = "deleted"]
      BY <1>6 DEF ArchiveRow
    <3>2. todo[1] \in Pubs
      BY <1>0, <3>1 DEF ProcStates
    <3>3. QED
      BY <3>1, <3>2
  <2>2. PICK row \in {[pub[p] EXCEPT !.status = "queued", !.unpub = TRUE],
                      [pub[p] EXCEPT !.status = "deleted"]} :
          pub' = [pub EXCEPT ![p] = row]
    BY <2>1 DEF MadeInv, TypeOK
  <2>3. RowFine(row, pages)
    BY <1>0, <2>2, RowUpdates
  <2>4. QED
    BY <2>2, <2>3, RowReplaced
<1>7. QED
  BY <1>1, <1>2, <1>3, <1>4, <1>5, <1>6
     DEF Enqueuing, EnqueueStep, ChooseAction, FindJob, ResetJob, CreateJob,
         SetProjectQueued, LinkRow, CheckQueue, AddTask, FindDurable, EnqueueError,
         RequestThrows, RequestAborted, RequestRow, RequestPost, RequestArchive,
         ArchiveProject, Records

LEMMA JobsCounted == 1 + Cardinality({k \in Keys : job[k].status # "none"}) \in Nat
<1> DEFINE S == {k \in Keys : job[k].status # "none"}
<1>1. IsFiniteSet(Keys)
  <2>1. IsFiniteSet({"publish"} \cup {"update"})
    BY FS_Singleton, FS_Union
  <2>2. IsFiniteSet({"publish", "update"} \cup {"draft"})
    <3>1. {"publish"} \cup {"update"} = {"publish", "update"}
      OBVIOUS
    <3>2. QED
      BY <2>1, <3>1, FS_Singleton, FS_Union
  <2>3. IsFiniteSet({"unpublish"} \cup {"archive"})
    BY FS_Singleton, FS_Union
  <2>4. IsFiniteSet(({"publish", "update"} \cup {"draft"}) \cup ({"unpublish"} \cup {"archive"}))
    BY <2>2, <2>3, FS_Union
  <2>5. Keys = ({"publish", "update"} \cup {"draft"}) \cup ({"unpublish"} \cup {"archive"})
    BY DEF Keys
  <2>6. QED
    BY <2>4, <2>5
<1>2. IsFiniteSet(S)
  BY <1>1, FS_Subset
<1>3. Cardinality(S) \in Nat
  BY <1>2, FS_CardinalityType
<1> HIDE DEF S
<1>4. 1 + Cardinality(S) \in Nat
  BY <1>3
<1>5. QED
  BY <1>4 DEF S

LEMMA EnqueuingJobs ==
  ASSUME MadeInv, NEW x \in Procs, Enqueuing(x), pages' = pages
  PROVE  job' \in [Keys -> PublicationJobs] /\ JobsFine'
<1>0. pages \in Nat /\ \A k \in Keys : JobFine(job[k], pages)
  BY DEF MadeInv, TypeOK, JobsFine
<1>1. CASE UNCHANGED job
  BY <1>1 DEF MadeInv, TypeOK, JobsFine
<1>2. CASE ResetJob(x)
  <2> DEFINE k == proc[x].key
             record == [job[k] EXCEPT !.status = "queued"]
  <2>1. job' = [job EXCEPT ![k] = record]
    BY <1>2 DEF ResetJob, MadeInv, TypeOK
  <2>2. k \in Keys => JobFine(record, pages)
    BY <1>0 DEF JobFine, PublicationJobs, JobStatus
  <2> HIDE DEF k, record
  <2>3. QED
    BY <2>1, <2>2, JobReplaced
<1>3. CASE CreateJob(x) /\ job' # job
  <2> DEFINE k == proc[x].key
             born == 1 + Cardinality({i \in Keys : job[i].status # "none"})
             record == [status |-> "queued", ext |-> 0, born |-> born]
  <2>1. job' = [job EXCEPT ![k] = record]
    BY <1>3 DEF CreateJob
  <2>2. born \in Nat
    BY JobsCounted
  <2> HIDE DEF k, born
  <2>3. JobFine(record, pages)
    BY <1>0, <2>2 DEF JobFine, PublicationJobs, JobStatus
  <2> HIDE DEF record
  <2>4. QED
    BY <2>1, <2>3, JobReplaced
<1>4. QED
  BY <1>1, <1>2, <1>3
     DEF Enqueuing, EnqueueStep, ChooseAction, FindJob, CreateJob,
         SetProjectQueued, LinkRow, CheckQueue, AddTask, FindDurable, CreateDurable,
         MarkDurable, EnqueueError, CatchEnqueue, RequestThrows, RequestAborted, RequestRow,
         RequestWrite, RequestPost, RequestArchive, ArchiveRow, ArchiveProject, Queue

LEMMA EnqueuingTasks ==
  ASSUME MadeInv, NEW x \in Procs, Enqueuing(x)
  PROVE  task' \in [TaskIds -> Tasks]
<1>0. task \in [TaskIds -> Tasks] /\ proc[x] \in ProcStates
  BY DEF MadeInv, TypeOK
<1>1. CASE UNCHANGED task
  BY <1>0, <1>1
<1>2. CASE \E t \in TaskIds : NewTask(t, proc[x].key)
  <2> DEFINE k == proc[x].key
             new == Added(NoJob)
  <2>1. k \in Keys \cup {None} /\ new \in Jobs
    BY <1>0, InitialValues, JobUpdates DEF ProcStates
  <2>2. PICK t \in TaskIds : task' = [task EXCEPT ![t] = [key |-> k, job |-> new]]
    BY <1>2 DEF NewTask
  <2> HIDE DEF k, new
  <2>3. [key |-> k, job |-> new] \in Tasks
    BY <2>1 DEF Tasks
  <2>4. QED
    BY <1>0, <2>2, <2>3
<1>3. QED
  BY <1>1, <1>2
     DEF Enqueuing, EnqueueStep, ChooseAction, FindJob, ResetJob, CreateJob,
         SetProjectQueued, LinkRow, CheckQueue, AddTask, FindDurable, CreateDurable,
         MarkDurable, EnqueueError, CatchEnqueue, RequestThrows, RequestAborted, RequestRow,
         RequestWrite, RequestPost, RequestArchive, ArchiveRow, ArchiveProject, Queue

LEMMA SameWorkers ==
  ASSUME MadeInv, UNCHANGED <<wk, pages>>
  PROVE  wk' \in [Workers -> WorkerStates] /\ WorkersFine'
  BY DEF MadeInv, TypeOK, WorkersFine

LEMMA SameProcs ==
  ASSUME MadeInv, UNCHANGED proc
  PROVE  proc' \in [Procs -> ProcStates] /\ ProcsFine'
  BY DEF MadeInv, TypeOK, ProcsFine

LEMMA SameRows ==
  ASSUME MadeInv, UNCHANGED <<pub, pages>>
  PROVE  pub' \in [Pubs -> Rows] /\ RowsFine'
  BY DEF MadeInv, TypeOK, RowsFine

LEMMA SameJobs ==
  ASSUME MadeInv, UNCHANGED <<job, pages>>
  PROVE  job' \in [Keys -> PublicationJobs] /\ JobsFine'
  BY DEF MadeInv, TypeOK, JobsFine

LEMMA EnqueuingKeeps ==
  ASSUME MadeInv, NEW x \in Procs, Enqueuing(x)
  PROVE  MadeInv'
<1>0. UNCHANGED <<wk, handlers, pages, live, batch, refusals>>
  BY DEF Enqueuing, EnqueueStep, ChooseAction, FindJob, ResetJob, CreateJob,
         SetProjectQueued, LinkRow, CheckQueue, AddTask, FindDurable, CreateDurable,
         MarkDurable, EnqueueError, CatchEnqueue, RequestThrows, RequestAborted, RequestRow,
         RequestWrite, RequestPost, RequestArchive, ArchiveRow, ArchiveProject, WorkerSide
<1>1. rows' \subseteq Pubs
  <2>1. UNCHANGED rows \/ \E p \in Pubs : rows' = rows \cup {p}
    BY DEF Enqueuing, EnqueueStep, ChooseAction, FindJob, ResetJob, CreateJob,
           SetProjectQueued, LinkRow, CheckQueue, AddTask, FindDurable, CreateDurable,
           MarkDurable, EnqueueError, CatchEnqueue, RequestThrows, RequestAborted,
           RequestRow, RequestWrite, RequestPost, RequestArchive, ArchiveRow,
           ArchiveProject, Records
  <2>2. QED
    BY <2>1 DEF MadeInv, TypeOK
<1>2. link' \in [Pubs -> Keys \cup {None}]
  <2>1. UNCHANGED link \/ link' = [link EXCEPT ![proc[x].pub] = proc[x].key]
    BY DEF Enqueuing, EnqueueStep, ChooseAction, FindJob, ResetJob, CreateJob,
           SetProjectQueued, LinkRow, CheckQueue, AddTask, FindDurable, CreateDurable,
           MarkDurable, EnqueueError, CatchEnqueue, RequestThrows, RequestAborted,
           RequestRow, RequestWrite, RequestPost, RequestArchive, ArchiveRow,
           ArchiveProject, Records
  <2>2. proc[x].key \in Keys \cup {None} /\ link \in [Pubs -> Keys \cup {None}]
    BY DEF MadeInv, TypeOK, ProcStates
  <2>3. QED
    BY <2>1, <2>2
<1>3. project' \in ProjectStatus /\ archived' \in BOOLEAN
  <2>1. /\ UNCHANGED project \/ project' = "publish_queued"
        /\ UNCHANGED archived \/ archived' = TRUE
    BY DEF Enqueuing, EnqueueStep, ChooseAction, FindJob, ResetJob, CreateJob,
           SetProjectQueued, LinkRow, CheckQueue, AddTask, FindDurable, CreateDurable,
           MarkDurable, EnqueueError, CatchEnqueue, RequestThrows, RequestAborted,
           RequestRow, RequestWrite, RequestPost, RequestArchive, ArchiveRow,
           ArchiveProject
  <2>2. QED
    BY <2>1 DEF MadeInv, TypeOK, ProjectStatus
<1>4. crashes' \in Nat /\ faults' \in Nat
  <2>1. /\ UNCHANGED crashes \/ crashes' = crashes + 1
        /\ UNCHANGED faults \/ faults' = faults + 1
    BY DEF Enqueuing, EnqueueStep, ChooseAction, FindJob, ResetJob, CreateJob,
           SetProjectQueued, LinkRow, CheckQueue, AddTask, FindDurable, CreateDurable,
           MarkDurable, EnqueueError, CatchEnqueue, RequestThrows, RequestAborted,
           RequestRow, RequestWrite, RequestPost, RequestArchive, ArchiveRow,
           ArchiveProject, Fault
  <2>2. QED
    BY <2>1 DEF MadeInv, TypeOK
<1>5. /\ pub' \in [Pubs -> Rows] /\ RowsFine'
      /\ job' \in [Keys -> PublicationJobs] /\ JobsFine'
      /\ task' \in [TaskIds -> Tasks]
      /\ proc' \in [Procs -> ProcStates] /\ ProcsFine'
  BY <1>0, EnqueuingRows, EnqueuingJobs, EnqueuingTasks, EnqueuingProcs
<1>6. TypeOK'
  BY <1>0, <1>1, <1>2, <1>3, <1>4, <1>5 DEF MadeInv, TypeOK
<1>7. QED
  BY <1>0, <1>5, <1>6, SameWorkers DEF MadeInv

LEMMA ClaimKeeps ==
  ASSUME MadeInv, NEW s \in Schedulers, Claim(s)
  PROVE  MadeInv'
<1>0. UNCHANGED <<rows, link, job, task, project, archived, proc, wk, handlers, pages, live,
                  crashes, faults, refusals>>
  BY DEF Claim, Queue, WorkerSide
<1>1. PICK due \in SUBSET Pubs :
        /\ pub' = [p \in Pubs |-> IF p \in due THEN Claimed(pub[p]) ELSE pub[p]]
        /\ batch' = [batch EXCEPT ![s] = due]
  BY DEF Claim, MadeInv, TypeOK
<1>2. \A p \in Pubs : RowFine(Claimed(pub[p]), pages) /\ RowFine(pub[p], pages)
  <2>1. TAKE p \in Pubs
  <2>2. RowFine(pub[p], pages) /\ pub[p] \in Rows /\ pages \in Nat
    BY DEF MadeInv, TypeOK, RowsFine
  <2>3. QED
    BY <2>2, RowUpdates
<1>3. \A p \in Pubs : pub'[p] = Claimed(pub[p]) \/ pub'[p] = pub[p]
  BY <1>1
<1>4. pub' \in [Pubs -> Rows] /\ RowsFine'
  BY <1>0, <1>1, <1>2, <1>3 DEF RowsFine, RowFine
<1>5. batch' \in [Schedulers -> SUBSET Pubs]
  BY <1>1 DEF MadeInv, TypeOK
<1>6. TypeOK'
  BY <1>0, <1>4, <1>5 DEF MadeInv, TypeOK
<1>7. QED
  BY <1>0, <1>4, <1>6, SameWorkers, SameProcs, SameJobs DEF MadeInv

LEMMA TickKeeps ==
  ASSUME MadeInv, NEW s \in Schedulers, NextClaimed(s) \/ TickAborted(s)
  PROVE  MadeInv'
<1>0. s \in Procs /\ UNCHANGED <<pub, rows, link, job, task, project, archived, wk, handlers,
                                 pages, live, refusals>>
  BY DEF Procs, NextClaimed, TickAborted, Records, Queue, WorkerSide
<1>1. /\ proc' \in [Procs -> ProcStates] /\ ProcsFine'
      /\ batch' \in [Schedulers -> SUBSET Pubs] /\ faults' \in Nat /\ crashes' \in Nat
  <2>1. CASE NextClaimed(s)
    <3>1. PICK p \in Pubs : ReadAndGate(s, p) /\ batch' = [batch EXCEPT ![s] = @ \ {p}]
      BY <2>1 DEF NextClaimed, MadeInv, TypeOK
    <3>2. batch' \in [Schedulers -> SUBSET Pubs] /\ crashes' \in Nat
      BY <2>1, <3>1 DEF NextClaimed, MadeInv, TypeOK
    <3>3. QED
      BY <1>0, <3>1, <3>2, ReadAndGateProc
  <2>2. CASE TickAborted(s)
    <3>1. proc' = [proc EXCEPT ![s] = ProcIdle]
      BY <2>2 DEF TickAborted
    <3>2. batch' \in [Schedulers -> SUBSET Pubs] /\ crashes' \in Nat /\ faults' \in Nat
      BY <2>2 DEF TickAborted, MadeInv, TypeOK
    <3>3. QED
      BY <1>0, <3>1, <3>2, InitialValues, ProcReplaced
  <2>3. QED
    BY <2>1, <2>2
<1>2. TypeOK'
  BY <1>0, <1>1 DEF MadeInv, TypeOK
<1>3. QED
  BY <1>0, <1>1, <1>2, SameWorkers, SameRows, SameJobs DEF MadeInv

\* An unpublish request that enqueues its row.
LEMMA RequestEnqueueKeeps ==
  ASSUME MadeInv, NEW r \in Requests, RequestEnqueue(r)
  PROVE  MadeInv'
<1>0. r \in Procs /\ UNCHANGED <<pub, rows, link, job, task, project, archived, batch, wk,
                                 handlers, pages, live, crashes, refusals>>
  BY DEF Procs, RequestEnqueue, Records, Queue, WorkerSide
<1>1. ReadAndGate(r, proc[r].pub) /\ proc[r].pub \in Pubs \cup {None}
  BY <1>0 DEF RequestEnqueue, MadeInv, TypeOK, ProcStates
<1>2. proc' \in [Procs -> ProcStates] /\ ProcsFine' /\ faults' \in Nat
  BY <1>0, <1>1, ReadAndGateProc
<1>3. TypeOK'
  BY <1>0, <1>2 DEF MadeInv, TypeOK
<1>4. QED
  BY <1>0, <1>2, <1>3, SameWorkers, SameRows, SameJobs DEF MadeInv

-----------------------------------------------------------------------------
(* The worker and its "failed" listener *)

\* The id a worker starts from is one that some job has recorded.
LEMMA LatestOfSome ==
  ASSUME MadeInv, WithPage # {}
  PROVE  \E k \in WithPage : LatestExternalId = job[k].ext
<1>0. /\ WithPage \subseteq Keys
      /\ \A k \in Keys : job[k] \in PublicationJobs /\ job[k].born \in Nat
  BY DEF MadeInv, TypeOK, PublicationJobs, WithPage
<1> DEFINE a == job["publish"].born
           b == job["update"].born
           c == job["draft"].born
           d == job["unpublish"].born
           e == job["archive"].born
           most == a + b + c + d + e
           R == OpToRel(<, Nat)
           S == {most - job[k].born : k \in WithPage}
<1>1. \A k \in WithPage : /\ most - job[k].born \in Nat /\ most \in Nat
                          /\ job[k].born \in Nat
  <2>1. /\ \A k \in WithPage : job[k].born \in {a, b, c, d, e}
        /\ a \in Nat /\ b \in Nat /\ c \in Nat /\ d \in Nat /\ e \in Nat
    BY <1>0 DEF Keys
  <2> HIDE DEF a, b, c, d, e
  <2>2. most \in Nat /\ \A n \in {a, b, c, d, e} : most - n \in Nat /\ n \in Nat
    BY <2>1
  <2>3. QED
    BY <2>1, <2>2
<1>2. PICK m \in S : \A n \in S : ~ (<<n, m>> \in R)
  <2>1. S \subseteq Nat /\ S # {}
    <3> HIDE DEF most
    <3>1. QED
      BY <1>1
  <2> HIDE DEF R, S
  <2>2. IsWellFoundedOn(R, Nat)
    BY NatLessThanWellFounded DEF R
  <2>3. QED
    BY <2>1, <2>2, WFMin
<1>3. PICK i \in WithPage : m = most - job[i].born
  OBVIOUS
<1> HIDE DEF most
<1>4. ASSUME NEW j \in WithPage PROVE job[j].born <= job[i].born
  <2>1. ~ (most - job[j].born < most - job[i].born)
    BY <1>1, <1>2, <1>3 DEF OpToRel
  <2> HIDE DEF R, S
  <2>2. QED
    BY <1>1, <2>1
<1> HIDE DEF R, S
<1>5. \E k \in WithPage : \A j \in WithPage : job[j].born <= job[k].born
  BY <1>4
<1>6. QED
  BY <1>5 DEF LatestExternalId

LEMMA LatestExternalIdMade ==
  ASSUME MadeInv
  PROVE  LatestExternalId \in Nat /\ LatestExternalId <= pages
<1>0. /\ pages \in Nat /\ WithPage \subseteq Keys
      /\ \A k \in Keys : job[k].ext \in Nat /\ job[k].ext <= pages
  BY DEF MadeInv, TypeOK, JobsFine, JobFine, PublicationJobs, WithPage
<1>1. CASE WithPage = {}
  BY <1>0, <1>1 DEF LatestExternalId
<1>2. CASE WithPage # {}
  BY <1>0, <1>2, LatestOfSome
<1>3. QED
  BY <1>1, <1>2

\* What a worker does to its own record, without a call to the site.
LEMMA WorkerMoved ==
  ASSUME MadeInv, NEW w \in Workers, wk[w].pc # "idle", NEW pc \in WorkerSteps,
         pc \notin {"idle", "drafted"}, pc \in Answered => wk[w].pc \in Answered
  PROVE  /\ WorkerFine([wk[w] EXCEPT !.pc = pc], pages)
         /\ WorkerFine([wk[w] EXCEPT !.pc = pc, !.hit = None], pages)
         /\ \A p \in Pubs : WorkerFine([wk[w] EXCEPT !.pc = pc, !.hit = p, !.seen = pub[p]], pages)
<1>0. /\ wk[w] \in WorkerStates /\ WorkerFine(wk[w], pages)
      /\ \A p \in Pubs : pub[p] \in Rows /\ pub[p].ext <= pages
  BY DEF MadeInv, TypeOK, WorkersFine, RowsFine, RowFine
<1>1. /\ WorkerFine([wk[w] EXCEPT !.pc = pc], pages)
      /\ WorkerFine([wk[w] EXCEPT !.pc = pc, !.hit = None], pages)
  BY <1>0 DEF WorkerFine, WorkerStates
<1>2. ASSUME NEW p \in Pubs
      PROVE  WorkerFine([wk[w] EXCEPT !.pc = pc, !.hit = p, !.seen = pub[p]], pages)
  <2> DEFINE seen == pub[p]
  <2>1. seen \in Rows /\ seen.ext <= pages
    BY <1>0
  <2> HIDE DEF seen
  <2>2. WorkerFine([wk[w] EXCEPT !.pc = pc, !.hit = p, !.seen = seen], pages)
    BY <1>0, <2>1 DEF WorkerFine, WorkerStates
  <2>3. QED
    BY <2>2 DEF seen
<1>3. QED
  BY <1>1, <1>2

\* The steps of a worker that leave the site alone.
Works(w) ==
  \/ TakeTask(w) \/ SetProcessing(w) \/ QueueProject(w) \/ LookUpPage(w) \/ ApproveDraft(w)
  \/ SaveJob(w) \/ FindRow(w) \/ SyncRow(w) \/ MarkProject(w) \/ ReadForVerify(w)
  \/ RecordVerification(w) \/ CompleteTask(w) \/ FailTry(w) \/ WorkerCrash(w)

LEMMA WorksWorkers ==
  ASSUME MadeInv, NEW w \in Workers, Works(w)
  PROVE  wk' \in [Workers -> WorkerStates] /\ WorkersFine' /\ pages' = pages
<1>0. /\ pages' = pages /\ pages \in Nat /\ rows \subseteq Pubs
      /\ wk \in [Workers -> WorkerStates] /\ WorkerFine(wk[w], pages)
  BY DEF Works, TakeTask, SetProcessing, QueueProject, LookUpPage, ApproveDraft, SaveJob,
         FindRow, SyncRow, MarkProject, ReadForVerify, RecordVerification, CompleteTask,
         FailTry, WorkerCrash, MadeInv, TypeOK, WorkersFine
<1>1. CASE CompleteTask(w) \/ FailTry(w) \/ WorkerCrash(w)
  <2>1. wk' = [wk EXCEPT ![w] = WorkerIdle]
    BY <1>1 DEF CompleteTask, FailTry, WorkerCrash
  <2>2. WorkerFine(WorkerIdle, pages)
    BY <1>0, InitialValues DEF WorkerFine, Answered, WorkerStates, Rows
  <2>3. QED
    BY <1>0, <2>1, <2>2, WorkerReplaced
<1>2. CASE TakeTask(w)
  <2>1. PICK t \in TaskIds : wk' = [wk EXCEPT ![w] = [WorkerIdle EXCEPT !.pc = "taken", !.task = t]]
    BY <1>2 DEF TakeTask
  <2> DEFINE r == [WorkerIdle EXCEPT !.pc = "taken", !.task = t]
  <2>2. WorkerFine(r, pages)
    <3>1. /\ WorkerIdle \in WorkerStates
          /\ WorkerIdle.ext = 0 /\ WorkerIdle.post = 0 /\ WorkerIdle.seen.ext = 0
      BY InitialValues DEF WorkerIdle, WorkerFine, NewRow
    <3>2. r \in WorkerStates /\ r.pc = "taken" /\ r.task = t
      BY <3>1 DEF WorkerStates, WorkerSteps
    <3>3. r.ext = 0 /\ r.post = 0 /\ r.seen.ext = 0
      BY <3>1 DEF WorkerStates
    <3> HIDE DEF r
    <3>4. QED
      BY <1>0, <3>2, <3>3 DEF WorkerFine, Answered
  <2>3. wk' = [wk EXCEPT ![w] = r]
    BY <2>1
  <2> HIDE DEF r
  <2>4. QED
    BY <1>0, <2>2, <2>3, WorkerReplaced
<1>3. CASE LookUpPage(w)
  <2> DEFINE ext == LatestExternalId
             r == [wk[w] EXCEPT !.pc = "ready", !.ext = ext]
  <2>1. wk' = [wk EXCEPT ![w] = r]
    BY <1>0, <1>3 DEF LookUpPage
  <2>2. ext \in Nat /\ ext <= pages /\ wk[w].pc # "idle"
    BY <1>3, LatestExternalIdMade DEF LookUpPage
  <2> HIDE DEF ext
  <2>3. WorkerFine(r, pages)
    BY <1>0, <2>2 DEF WorkerFine, WorkerStates, WorkerSteps, Answered
  <2> HIDE DEF r
  <2>4. QED
    BY <1>0, <2>1, <2>3, WorkerReplaced
<1>4. CASE \/ SetProcessing(w) \/ QueueProject(w) \/ ApproveDraft(w) \/ SaveJob(w)
           \/ FindRow(w) \/ SyncRow(w) \/ MarkProject(w) \/ ReadForVerify(w)
           \/ RecordVerification(w)
  <2>1. PICK pc \in WorkerSteps \ {"idle", "drafted"} :
          /\ wk[w].pc # "idle" /\ (pc \in Answered => wk[w].pc \in Answered)
          /\ \/ wk' = [wk EXCEPT ![w].pc = pc]
             \/ wk' = [wk EXCEPT ![w].pc = pc, ![w].hit = None]
             \/ \E p \in Pubs : wk' = [wk EXCEPT ![w].pc = pc, ![w].hit = p, ![w].seen = pub[p]]
    <3>1. CASE SetProcessing(w) \/ QueueProject(w) \/ ApproveDraft(w) \/ SaveJob(w)
      BY <3>1 DEF SetProcessing, QueueProject, ApproveDraft, SaveJob, WorkerSteps, Answered
    <3>2. CASE SyncRow(w) \/ MarkProject(w) \/ RecordVerification(w)
      BY <3>2 DEF SyncRow, MarkProject, RecordVerification, WorkerSteps, Answered
    <3>3. CASE FindRow(w) \/ ReadForVerify(w)
      <4>1. \A p \in LinkedTo(KeyOf(w)) : p \in Pubs
        BY <1>0 DEF LinkedTo
      <4>2. QED
        BY <3>3, <4>1 DEF FindRow, ReadForVerify, WorkerSteps, Answered
    <3>4. QED
      BY <1>4, <3>1, <3>2, <3>3
  <2>2. PICK r : wk' = [wk EXCEPT ![w] = r] /\ WorkerFine(r, pages)
    <3>1. CASE wk' = [wk EXCEPT ![w].pc = pc]
      BY <1>0, <2>1, <3>1, WorkerMoved
    <3>2. CASE wk' = [wk EXCEPT ![w].pc = pc, ![w].hit = None]
      <4> DEFINE r == [wk[w] EXCEPT !.pc = pc, !.hit = None]
      <4>1. wk' = [wk EXCEPT ![w] = r] /\ WorkerFine(r, pages)
        BY <1>0, <2>1, <3>2, WorkerMoved
      <4> HIDE DEF r
      <4>2. QED
        BY <4>1
    <3>3. ASSUME NEW p \in Pubs,
                 wk' = [wk EXCEPT ![w].pc = pc, ![w].hit = p, ![w].seen = pub[p]]
          PROVE  \E r : wk' = [wk EXCEPT ![w] = r] /\ WorkerFine(r, pages)
      <4> DEFINE r == [wk[w] EXCEPT !.pc = pc, !.hit = p, !.seen = pub[p]]
      <4>1. wk' = [wk EXCEPT ![w] = r] /\ WorkerFine(r, pages)
        BY <1>0, <2>1, <3>3, WorkerMoved
      <4> HIDE DEF r
      <4>2. QED
        BY <4>1
    <3>4. QED
      BY <2>1, <3>1, <3>2, <3>3
  <2>3. QED
    BY <1>0, <2>2, WorkerReplaced
<1>5. QED
  BY <1>0, <1>1, <1>2, <1>3, <1>4 DEF Works

LEMMA StatusTypes ==
  \A w \in Workers : StatusOf(w) \in {"canceled", "draft_synced", "published"}
  BY DEF StatusOf, ResultStatus

\* The page a worker has an id of is one that was made.
LEMMA PageOfMade ==
  ASSUME MadeInv, NEW w \in Workers, NEW old \in Nat, old <= pages
  PROVE  /\ PageOf(w) \in Nat /\ PageOf(w) <= pages
         /\ Recorded(PageOf(w), old) \in Nat /\ Recorded(PageOf(w), old) <= pages
  BY DEF PageOf, Recorded, MadeInv, WorkersFine, WorkerFine, WorkerStates

LEMMA WorksJobs ==
  ASSUME MadeInv, NEW w \in Workers, Works(w)
  PROVE  job' \in [Keys -> PublicationJobs] /\ JobsFine'
<1>0. /\ pages' = pages /\ pages \in Nat /\ \A k \in Keys : JobFine(job[k], pages)
  BY WorksWorkers DEF MadeInv, TypeOK, JobsFine
<1>1. CASE UNCHANGED job
  BY <1>0, <1>1, SameJobs
<1>2. CASE SetProcessing(w)
  <2> DEFINE k == KeyOf(w)
             record == [job[k] EXCEPT !.status = "processing"]
  <2>1. job' = [job EXCEPT ![k] = record]
    BY <1>2 DEF SetProcessing, MadeInv, TypeOK
  <2>2. k \in Keys => JobFine(record, pages)
    BY <1>0 DEF JobFine, PublicationJobs, JobStatus
  <2> HIDE DEF k, record
  <2>3. QED
    BY <1>0, <2>1, <2>2, JobReplaced
<1>3. CASE SaveJob(w)
  <2> DEFINE k == KeyOf(w)
             status == StatusOf(w)
             ext == Recorded(PageOf(w), job[k].ext)
             record == [job[k] EXCEPT !.status = status, !.ext = ext]
  <2>1. job' = [job EXCEPT ![k] = record]
    BY <1>3 DEF SaveJob, MadeInv, TypeOK
  <2>2. pages > 0
    BY <1>3 DEF SaveJob, MadeInv, WorkersFine, WorkerFine, Answered
  <2>3. status \in JobStatus
    BY StatusTypes DEF JobStatus
  <2>4. k \in Keys => ext \in Nat /\ ext <= pages
    <3>1. k \in Keys => job[k].ext \in Nat /\ job[k].ext <= pages
      BY <1>0 DEF JobFine, PublicationJobs
    <3>2. QED
      BY <3>1, PageOfMade
  <2> HIDE DEF k, status, ext
  <2>5. k \in Keys => JobFine(record, pages)
    BY <1>0, <2>2, <2>3, <2>4 DEF JobFine, PublicationJobs
  <2> HIDE DEF record
  <2>6. QED
    BY <1>0, <2>1, <2>5, JobReplaced
<1>4. QED
  BY <1>1, <1>2, <1>3
     DEF Works, TakeTask, QueueProject, LookUpPage, ApproveDraft, FindRow, SyncRow,
         MarkProject, ReadForVerify, RecordVerification, CompleteTask, FailTry, WorkerCrash,
         Queue

\* The result of the job is written to a row only after the site has answered.
LEMMA WorksRows ==
  ASSUME MadeInv, NEW w \in Workers, Works(w)
  PROVE  pub' \in [Pubs -> Rows] /\ RowsFine'
<1>0. /\ pages' = pages /\ pages \in Nat /\ \A p \in Pubs : RowFine(pub[p], pages)
      /\ wk[w] \in WorkerStates /\ wk[w].seen \in Rows
      /\ wk[w].seen.ext \in Nat /\ wk[w].seen.ext <= pages
  BY WorksWorkers DEF MadeInv, TypeOK, RowsFine, WorkersFine, WorkerFine, WorkerStates, Rows
<1>1. CASE UNCHANGED pub
  BY <1>0, <1>1, SameRows
<1>2. CASE RecordVerification(w)
  <2> DEFINE p == wk[w].hit
             b == wk[w].seen.unpub
             row == [pub[p] EXCEPT !.unpub = b]
  <2>1. pub' = [pub EXCEPT ![p] = row]
    BY <1>2 DEF RecordVerification, MadeInv, TypeOK
  <2>2. b \in BOOLEAN
    BY <1>0 DEF Rows
  <2> HIDE DEF b
  <2>3. p \in Pubs => RowFine(row, pages)
    BY <1>0, <2>2, RowUpdates
  <2> HIDE DEF p, row
  <2>4. QED
    BY <1>0, <2>1, <2>3, RowReplaced
<1>3. CASE SyncRow(w)
  <2> DEFINE p == wk[w].hit
             seen == wk[w].seen
             status == StatusOf(w)
             page == PageOf(w)
             ext == Recorded(page, seen.ext)
             row == Synced(pub[p], seen, status, page)
  <2>1. pub' = [pub EXCEPT ![p] = row]
    BY <1>3 DEF SyncRow, MadeInv, TypeOK
  <2>2. pages > 0
    BY <1>3 DEF SyncRow, MadeInv, WorkersFine, WorkerFine, Answered
  <2>3. status \in {"canceled", "draft_synced", "published"}
    BY StatusTypes
  <2>4. ext \in Nat /\ ext <= pages
    BY <1>0, PageOfMade
  <2> HIDE DEF p, seen, status, page
  <2>5. row \in {[pub[p] EXCEPT !.status = "published", !.ext = ext, !.class = "none"],
                 [pub[p] EXCEPT !.status = "ready", !.ext = ext],
                 [pub[p] EXCEPT !.status = "unpublished"],
                 [pub[p] EXCEPT !.status = "canceled"]}
    BY <2>3 DEF Synced
  <2> HIDE DEF ext, row
  <2>6. p \in Pubs => RowFine(row, pages)
    BY <1>0, <2>2, <2>4, <2>5 DEF RowFine, Rows, States, FailureClasses
  <2>7. QED
    BY <1>0, <2>1, <2>6, RowReplaced
<1>4. QED
  BY <1>1, <1>2, <1>3
     DEF Works, TakeTask, SetProcessing, QueueProject, LookUpPage, ApproveDraft, SaveJob,
         FindRow, MarkProject, ReadForVerify, CompleteTask, FailTry, WorkerCrash, Records

LEMMA TaskChanged ==
  ASSUME MadeInv, NEW t, NEW j, task' = [task EXCEPT ![t].job = j],
         t \in TaskIds => j \in Jobs
  PROVE  task' \in [TaskIds -> Tasks]
<1> DEFINE record == [task[t] EXCEPT !.job = j]
<1>1. task' = [task EXCEPT ![t] = record]
  BY DEF MadeInv, TypeOK
<1>2. t \in TaskIds => record \in Tasks
  BY DEF MadeInv, TypeOK, Tasks
<1> HIDE DEF record
<1>3. QED
  BY <1>1, <1>2, TaskReplaced

LEMMA JobsOfTasks == ASSUME MadeInv PROVE \A t \in TaskIds : task[t].job \in Jobs
  BY DEF MadeInv, TypeOK, Tasks

LEMMA NewHandlerType ==
  ASSUME MadeInv, NEW t \in TaskIds, NEW class \in {"transient", "permanent"}, NEW w \in Workers
  PROVE  NewHandler(t, class, w) \in HandlerStates
<1> DEFINE try == task[t].job.tries + task[t].job.stalls + 1
<1>1. try \in Nat
  BY JobsOfTasks DEF Jobs
<1> HIDE DEF try
<1>2. [task |-> t, try |-> try, worker |-> w, class |-> class, pc |-> "new",
       hit |-> None, retries |-> 0] \in HandlerStates
  BY <1>1 DEF HandlerStates
<1>3. QED
  BY <1>2 DEF NewHandler, try

LEMMA WorksKeeps ==
  ASSUME MadeInv, NEW w \in Workers, Works(w)
  PROVE  MadeInv'
<1>0. /\ UNCHANGED <<rows, link, archived, batch, proc, pages>>
      /\ wk[w].pc # "idle" => wk[w].task \in TaskIds
      /\ TypeOK /\ pages \in Nat
  BY DEF Works, TakeTask, SetProcessing, QueueProject, LookUpPage, ApproveDraft, SaveJob,
         FindRow, SyncRow, MarkProject, ReadForVerify, RecordVerification, CompleteTask,
         FailTry, WorkerCrash, Records, MadeInv, TypeOK, WorkersFine, WorkerFine
<1>1. task' \in [TaskIds -> Tasks]
  <2>1. CASE UNCHANGED task
    BY <1>0, <2>1 DEF TypeOK
  <2>2. CASE TakeTask(w)
    <3>1. PICK t \in TaskIds : task' = [task EXCEPT ![t].job = Taken(task[t].job)]
      BY <1>0, <2>2 DEF TakeTask, TypeOK
    <3>2. QED
      BY <3>1, JobsOfTasks, JobUpdates, TaskChanged
  <2>3. CASE CompleteTask(w)
    <3> DEFINE t == wk[w].task
    <3>1. task' = [task EXCEPT ![t].job = Completed(task[t].job)]
      BY <1>0, <2>3 DEF CompleteTask, TypeOK
    <3> HIDE DEF t
    <3>2. QED
      BY <3>1, JobsOfTasks, JobUpdates, TaskChanged
  <2>4. CASE FailTry(w)
    <3> DEFINE t == wk[w].task
    <3>1. task' = [task EXCEPT ![t].job = TryFailed(task[t].job, BullAttempts)]
      BY <1>0, <2>4 DEF FailTry, TypeOK
    <3> HIDE DEF t
    <3>2. QED
      BY <3>1, JobsOfTasks, JobUpdates, TaskChanged
  <2>5. QED
    BY <2>1, <2>2, <2>3, <2>4
       DEF Works, SetProcessing, QueueProject, LookUpPage, ApproveDraft, SaveJob, FindRow,
           SyncRow, MarkProject, ReadForVerify, RecordVerification, WorkerCrash, Queue
<1>2. handlers' \subseteq HandlerStates
  <2>1. CASE handlers' \subseteq handlers
    BY <1>0, <2>1 DEF TypeOK
  <2>2. CASE FailTry(w)
    <3>1. PICK class \in {"transient", "permanent"} :
            handlers' = handlers \cup {NewHandler(wk[w].task, class, w)}
      BY <2>2 DEF FailTry
    <3>2. wk[w].task \in TaskIds
      BY <1>0, <2>2 DEF FailTry
    <3>3. QED
      BY <1>0, <3>1, <3>2, NewHandlerType DEF TypeOK
  <2>3. QED
    BY <2>1, <2>2
       DEF Works, TakeTask, SetProcessing, QueueProject, LookUpPage, ApproveDraft, SaveJob,
           FindRow, SyncRow, MarkProject, ReadForVerify, RecordVerification, CompleteTask,
           WorkerCrash
<1>3. live' \subseteq 1 .. pages'
  <2>1. CASE UNCHANGED live
    BY <1>0, <2>1 DEF TypeOK
  <2>2. CASE ApproveDraft(w)
    <3>1. wk[w].post \in Nat /\ wk[w].post # 0 /\ wk[w].post <= pages
      BY <2>2 DEF ApproveDraft, MadeInv, WorkersFine, WorkerFine, WorkerStates
    <3> DEFINE n == wk[w].post
    <3>2. live' = live \cup {n} /\ live \subseteq 1 .. pages
      BY <1>0, <2>2 DEF ApproveDraft, TypeOK
    <3>3. n \in Nat /\ n # 0 /\ n <= pages
      BY <3>1
    <3> HIDE DEF n
    <3>4. QED
      BY <1>0, <3>2, <3>3
  <2>3. QED
    BY <2>1, <2>2
       DEF Works, TakeTask, SetProcessing, QueueProject, LookUpPage, SaveJob, FindRow,
           SyncRow, MarkProject, ReadForVerify, RecordVerification, CompleteTask, FailTry,
           WorkerCrash
<1>4. project' \in ProjectStatus
  <2>1. UNCHANGED project \/ project' \in {"publish_queued", "published", "approved"}
    BY DEF Works, TakeTask, SetProcessing, QueueProject, LookUpPage, ApproveDraft, SaveJob,
           FindRow, SyncRow, MarkProject, ReadForVerify, RecordVerification, CompleteTask,
           FailTry, WorkerCrash
  <2>2. QED
    BY <1>0, <2>1 DEF TypeOK, ProjectStatus
<1>5. crashes' \in Nat /\ faults' \in Nat /\ refusals' \in Nat
  <2>1. /\ UNCHANGED crashes \/ crashes' = crashes + 1
        /\ UNCHANGED faults \/ faults' = faults + 1
        /\ UNCHANGED refusals \/ refusals' = refusals + 1
    BY DEF Works, TakeTask, SetProcessing, QueueProject, LookUpPage, ApproveDraft, SaveJob,
           FindRow, SyncRow, MarkProject, ReadForVerify, RecordVerification, CompleteTask,
           FailTry, WorkerCrash, Fault
  <2>2. QED
    BY <1>0, <2>1 DEF TypeOK
<1>6. /\ pub' \in [Pubs -> Rows] /\ RowsFine'
      /\ job' \in [Keys -> PublicationJobs] /\ JobsFine'
      /\ wk' \in [Workers -> WorkerStates] /\ WorkersFine'
  BY WorksRows, WorksJobs, WorksWorkers
<1>7. TypeOK'
  BY <1>0, <1>1, <1>2, <1>3, <1>4, <1>5, <1>6 DEF TypeOK
<1>8. QED
  BY <1>0, <1>6, <1>7, SameProcs DEF MadeInv

\* The call to the site: pages are only ever added, so what was made stays made.
LEMMA CallSiteKeeps ==
  ASSUME MadeInv, NEW w \in Workers, CallSite(w)
  PROVE  MadeInv'
<1>0. /\ UNCHANGED <<pub, rows, link, job, task, project, archived, batch, proc, handlers,
                     crashes, refusals>>
      /\ TypeOK /\ pages \in Nat /\ faults \in Nat /\ live \subseteq 1 .. pages
      /\ wk \in [Workers -> WorkerStates] /\ WorkerFine(wk[w], pages)
      /\ wk[w].ext \in Nat /\ wk[w].ext <= pages /\ wk[w].pc = "ready"
  BY DEF CallSite, Records, Queue, MadeInv, TypeOK, WorkersFine, WorkerFine, WorkerStates
<1>1. \/ /\ \E public \in BOOLEAN, next \in {"drafted", "called"} : PageMade(w, public, next)
      \/ /\ wk[w].ext # 0 /\ PageChanged(w)
         /\ live' \in {live, live \cup {wk[w].ext}, live \ {wk[w].ext}}
  BY DEF CallSite
<1>2. PICK r : /\ wk' = [wk EXCEPT ![w] = r] /\ WorkerFine(r, pages')
               /\ pages' \in Nat /\ pages <= pages' /\ faults' \in Nat
               /\ live' \subseteq 1 .. pages'
  <2>1. CASE \E public \in BOOLEAN, next \in {"drafted", "called"} : PageMade(w, public, next)
    <3>1. PICK public \in BOOLEAN, next \in {"drafted", "called"} : PageMade(w, public, next)
      BY <2>1
    <3> DEFINE page == pages + 1
    <3>2. page \in Nat /\ page > 0 /\ pages <= page /\ pages' = page
      BY <1>0, <3>1 DEF PageMade
    <3>3. live' \subseteq 1 .. page
      <4>1. live' \subseteq live \cup {page}
        BY <3>1 DEF PageMade
      <4> HIDE DEF page
      <4>2. QED
        BY <1>0, <3>2, <4>1
    <3>4. CASE wk' = [wk EXCEPT ![w].pc = next, ![w].post = page] /\ UNCHANGED faults
      <4> HIDE DEF page
      <4> DEFINE r == [wk[w] EXCEPT !.pc = next, !.post = page]
      <4>0. r \in WorkerStates /\ r.pc = next /\ r.post = page
            /\ r.ext = wk[w].ext /\ r.seen = wk[w].seen /\ r.task = wk[w].task
        BY <1>0, <3>2 DEF WorkerStates, WorkerSteps
      <4>1. WorkerFine(r, page) /\ wk' = [wk EXCEPT ![w] = r]
        <5>1. wk' = [wk EXCEPT ![w] = r]
          BY <1>0, <3>4
        <5>2. wk[w].seen.ext \in Nat /\ wk[w].seen.ext <= pages /\ wk[w].task \in TaskIds
          BY <1>0 DEF WorkerFine, WorkerStates, Rows
        <5> HIDE DEF r
        <5>3. WorkerFine(r, page)
          BY <1>0, <3>2, <4>0, <5>2 DEF WorkerFine
        <5>4. QED
          BY <5>1, <5>3
      <4>2. /\ wk' = [wk EXCEPT ![w] = r] /\ WorkerFine(r, pages')
            /\ pages' \in Nat /\ pages <= pages' /\ faults' \in Nat
            /\ live' \subseteq 1 .. pages'
        <5> HIDE DEF r
        <5>1. faults' \in Nat
          BY <1>0, <3>4
        <5>2. live' \subseteq 1 .. pages'
          BY <3>2, <3>3
        <5>3. WorkerFine(r, pages') /\ wk' = [wk EXCEPT ![w] = r]
          BY <3>2, <4>1
        <5>4. QED
          BY <1>0, <3>2, <5>1, <5>2, <5>3
      <4>3. QED
        BY <4>2
    <3>5. CASE wk' = [wk EXCEPT ![w].pc = "called"] /\ faults' = faults + 1
      <4> HIDE DEF page
      <4> DEFINE r == [wk[w] EXCEPT !.pc = "called"]
      <4>1. WorkerFine(r, page) /\ wk' = [wk EXCEPT ![w] = r]
        <5>1. wk' = [wk EXCEPT ![w] = r]
          BY <1>0, <3>5
        <5>2. r \in WorkerStates /\ r.pc = "called" /\ r.post = wk[w].post
              /\ r.ext = wk[w].ext /\ r.seen = wk[w].seen /\ r.task = wk[w].task
          BY <1>0 DEF WorkerStates, WorkerSteps
        <5>3. /\ wk[w].seen.ext \in Nat /\ wk[w].seen.ext <= pages /\ wk[w].task \in TaskIds
              /\ wk[w].post \in Nat /\ wk[w].post <= pages
          BY <1>0 DEF WorkerFine, WorkerStates, Rows
        <5> HIDE DEF r
        <5>4. WorkerFine(r, page)
          BY <1>0, <3>2, <5>2, <5>3 DEF WorkerFine
        <5>5. QED
          BY <5>1, <5>4
      <4>2. /\ wk' = [wk EXCEPT ![w] = r] /\ WorkerFine(r, pages')
            /\ pages' \in Nat /\ pages <= pages' /\ faults' \in Nat
            /\ live' \subseteq 1 .. pages'
        <5> HIDE DEF r
        <5>1. faults' \in Nat
          BY <1>0, <3>5
        <5>2. live' \subseteq 1 .. pages'
          BY <3>2, <3>3
        <5>3. WorkerFine(r, pages') /\ wk' = [wk EXCEPT ![w] = r]
          BY <3>2, <4>1
        <5>4. QED
          BY <1>0, <3>2, <5>1, <5>2, <5>3
      <4>3. QED
        BY <4>2
    <3>6. QED
      BY <3>1, <3>4, <3>5 DEF PageMade, Fault
  <2>2. CASE /\ wk[w].ext # 0 /\ PageChanged(w)
             /\ live' \in {live, live \cup {wk[w].ext}, live \ {wk[w].ext}}
    <3> DEFINE r == [wk[w] EXCEPT !.pc = "called"]
    <3>1. pages' = pages /\ pages > 0 /\ faults' = faults
      BY <1>0, <2>2 DEF PageChanged
    <3>2. WorkerFine(r, pages) /\ wk' = [wk EXCEPT ![w] = r]
      BY <1>0, <2>2, <3>1 DEF PageChanged, WorkerFine, WorkerStates, WorkerSteps
    <3> HIDE DEF r
    <3>3. live' \subseteq 1 .. pages
      BY <1>0, <2>2
    <3>4. /\ wk' = [wk EXCEPT ![w] = r] /\ WorkerFine(r, pages')
          /\ pages' \in Nat /\ pages <= pages' /\ faults' \in Nat
          /\ live' \subseteq 1 .. pages'
      BY <1>0, <3>1, <3>2, <3>3
    <3>5. QED
      BY <3>4
  <2>3. QED
    BY <1>1, <2>1, <2>2
<1>3. RowsFine' /\ JobsFine' /\ ProcsFine'
  BY <1>0, <1>2
     DEF MadeInv, TypeOK, RowsFine, RowFine, JobsFine, JobFine, ProcsFine, Rows,
         PublicationJobs
<1>4. \A v \in Workers : WorkerFine(wk[v], pages')
  <2>1. TAKE v \in Workers
  <2>2. WorkerFine(wk[v], pages) /\ wk[v].ext \in Nat /\ wk[v].post \in Nat /\ wk[v].seen.ext \in Nat
    BY <1>0 DEF MadeInv, WorkersFine, WorkerStates, Rows
  <2>3. QED
    BY <1>0, <1>2, <2>2 DEF WorkerFine
<1>5. wk' \in [Workers -> WorkerStates] /\ WorkersFine'
  BY <1>0, <1>2, <1>4 DEF WorkersFine, WorkerFine
<1>6. TypeOK'
  BY <1>0, <1>2, <1>5 DEF TypeOK
<1>7. QED
  BY <1>3, <1>5, <1>6 DEF MadeInv

LEMMA FailureUpdate ==
  ASSUME NEW made \in Nat, NEW row, RowFine(row, made), NEW n \in Nat,
         NEW class \in {"transient", "permanent"}
  PROVE  RowFine(AttemptFailed(row, n, class, MaxRetries), made)
<1> DEFINE again == ~TerminalFailure(class, n + 1, MaxRetries)
           count == n + 1
<1>1. again \in BOOLEAN /\ count \in Nat /\ class \in FailureClasses
  BY DEF TerminalFailure, FailureClasses
<1>2. AttemptFailed(row, n, class, MaxRetries) =
        [row EXCEPT !.status = "failed", !.retries = count, !.class = class,
                    !.retryAt = again]
  BY DEF AttemptFailed
<1> HIDE DEF again, count
<1>3. QED
  BY <1>1, <1>2 DEF RowFine, Rows, States

LEMMA HandlerKeeps ==
  ASSUME MadeInv, NEW h \in handlers, HandlerStep(h)
  PROVE  MadeInv'
<1>0. /\ UNCHANGED <<rows, link, task, archived, batch, proc, wk, pages, live, crashes, faults,
                     refusals>>
      /\ TypeOK /\ pages \in Nat /\ h \in HandlerStates /\ handlers \subseteq HandlerStates
      /\ rows \subseteq Pubs
  BY DEF HandlerStep, FailJob, FailProject, FindFailedRow, FailRow, Records, Queue, MadeInv,
         TypeOK
<1>1. handlers' \subseteq HandlerStates
  <2>1. \/ handlers' \subseteq handlers
        \/ handlers' = (handlers \ {h}) \cup {[h EXCEPT !.pc = "job"]}
        \/ handlers' = (handlers \ {h}) \cup {[h EXCEPT !.pc = "project"]}
        \/ \E p \in Pubs : handlers' = (handlers \ {h}) \cup
             {[h EXCEPT !.pc = "read", !.hit = p, !.retries = pub[p].retries]}
    BY <1>0 DEF HandlerStep, FailJob, FailProject, FindFailedRow, FailRow, LinkedTo
  <2>2. [h EXCEPT !.pc = "job"] \in HandlerStates /\ [h EXCEPT !.pc = "project"] \in HandlerStates
    BY <1>0 DEF HandlerStates
  <2>3. \A p \in Pubs : [h EXCEPT !.pc = "read", !.hit = p, !.retries = pub[p].retries]
                          \in HandlerStates
    <3>1. TAKE p \in Pubs
    <3> DEFINE n == pub[p].retries
    <3>2. n \in Nat
      BY <1>0 DEF TypeOK, Rows
    <3> HIDE DEF n
    <3>3. [h EXCEPT !.pc = "read", !.hit = p, !.retries = n] \in HandlerStates
      BY <1>0, <3>2 DEF HandlerStates
    <3>4. QED
      BY <3>3 DEF n
  <2>4. QED
    BY <1>0, <2>1, <2>2, <2>3
<1>2. job' \in [Keys -> PublicationJobs] /\ JobsFine'
  <2>1. CASE UNCHANGED job
    BY <1>0, <2>1, SameJobs
  <2>2. CASE FailJob(h)
    <3> DEFINE k == task[h.task].key
               record == [job[k] EXCEPT !.status = "failed"]
    <3>1. job' = [job EXCEPT ![k] = record]
      BY <1>0, <2>2 DEF FailJob, TypeOK
    <3>2. k \in Keys => JobFine(record, pages)
      BY DEF MadeInv, JobsFine, JobFine, PublicationJobs, JobStatus
    <3> HIDE DEF k, record
    <3>3. QED
      BY <1>0, <3>1, <3>2, JobReplaced
  <2>3. QED
    BY <2>1, <2>2 DEF HandlerStep, FailProject, FindFailedRow, FailRow, Queue
<1>3. pub' \in [Pubs -> Rows] /\ RowsFine'
  <2>1. CASE UNCHANGED pub
    BY <1>0, <2>1, SameRows
  <2>2. CASE FailRow(h)
    <3> DEFINE p == h.hit
               row == AttemptFailed(pub[p], h.retries, h.class, MaxRetries)
    <3>1. pub' = [pub EXCEPT ![p] = row]
      BY <1>0, <2>2 DEF FailRow, TypeOK
    <3>2. p \in Pubs => RowFine(pub[p], pages)
      BY DEF MadeInv, RowsFine
    <3>3. h.retries \in Nat /\ h.class \in {"transient", "permanent"}
      BY <1>0 DEF HandlerStates
    <3> HIDE DEF p
    <3>4. p \in Pubs => RowFine(row, pages)
      BY <1>0, <3>2, <3>3, FailureUpdate
    <3> HIDE DEF row
    <3>5. QED
      BY <1>0, <3>1, <3>4, RowReplaced
  <2>3. QED
    BY <2>1, <2>2 DEF HandlerStep, FailJob, FailProject, FindFailedRow, Records
<1>4. project' \in ProjectStatus
  <2>1. UNCHANGED project \/ project' = "publish_failed"
    BY DEF HandlerStep, FailJob, FailProject, FindFailedRow, FailRow
  <2>2. QED
    BY <1>0, <2>1 DEF TypeOK, ProjectStatus
<1>5. TypeOK'
  BY <1>0, <1>1, <1>2, <1>3, <1>4 DEF TypeOK
<1>6. QED
  BY <1>0, <1>2, <1>3, <1>5, SameWorkers, SameProcs DEF MadeInv

\* BullMQ's own timers: a backoff that ends, a task that lost its worker.
LEMMA QueueKeeps ==
  ASSUME MadeInv, \/ \E t \in TaskIds : DelayOver(t)
                  \/ \E w \in Workers : RecoverStalled(w)
  PROVE  MadeInv'
<1>0. /\ UNCHANGED <<pub, rows, link, job, project, archived, batch, proc, wk, pages, live,
                     crashes, faults, refusals>>
      /\ TypeOK
  BY DEF DelayOver, RecoverStalled, Records, WorkerSide, MadeInv
<1>1. task' \in [TaskIds -> Tasks] /\ handlers' \subseteq HandlerStates
  <2>1. ASSUME NEW t \in TaskIds, DelayOver(t)
        PROVE  task' \in [TaskIds -> Tasks] /\ handlers' \subseteq HandlerStates
    <3>1. task' = [task EXCEPT ![t].job = BackoffOver(task[t].job)]
      BY <1>0, <2>1 DEF DelayOver, TypeOK
    <3>2. handlers' = handlers
      BY <2>1 DEF DelayOver, WorkerSide
    <3>3. task' \in [TaskIds -> Tasks]
      BY <3>1, JobsOfTasks, JobUpdates, TaskChanged
    <3>4. QED
      BY <1>0, <3>2, <3>3 DEF TypeOK
  <2>2. ASSUME NEW w \in Workers, RecoverStalled(w)
        PROVE  task' \in [TaskIds -> Tasks] /\ handlers' \subseteq HandlerStates
    <3>1. PICK t \in TaskIds : /\ task' = [task EXCEPT ![t].job = Stalled(task[t].job, MaxStalls)]
                               /\ \/ handlers' = handlers \cup {NewHandler(t, "transient", w)}
                                  \/ handlers' = handlers
      BY <1>0, <2>2 DEF RecoverStalled, TypeOK
    <3>2. task' \in [TaskIds -> Tasks]
      BY <3>1, JobsOfTasks, JobUpdates, TaskChanged
    <3>3. NewHandler(t, "transient", w) \in HandlerStates
      BY NewHandlerType
    <3>4. QED
      BY <1>0, <3>1, <3>2, <3>3 DEF TypeOK
  <2>3. QED
    BY <2>1, <2>2
<1>2. TypeOK'
  BY <1>0, <1>1 DEF TypeOK
<1>3. QED
  BY <1>0, <1>2, SameWorkers, SameProcs, SameRows, SameJobs DEF MadeInv

-----------------------------------------------------------------------------
(* The theorems *)

LEMMA MadeNext == MadeInv /\ [Next]_vars => MadeInv'
<1> SUFFICES ASSUME MadeInv, [Next]_vars PROVE MadeInv'
  OBVIOUS
<1>1. ASSUME NEW s \in Schedulers, SchedulerStep(s) \/ EnqueueError(s) \/ TickAborted(s)
      PROVE  MadeInv'
  <2>1. s \in Procs
    BY DEF Procs
  <2>2. Claim(s) \/ NextClaimed(s) \/ TickAborted(s) \/ Enqueuing(s)
    BY <1>1 DEF SchedulerStep, Enqueuing
  <2>3. QED
    BY <2>1, <2>2, ClaimKeeps, TickKeeps, EnqueuingKeeps
<1>2. ASSUME NEW r \in Requests,
             \/ RequestRow(r) \/ RequestPost(r) \/ RequestArchive(r)
             \/ RequestStep(r) \/ EnqueueError(r) \/ RequestAborted(r)
      PROVE  MadeInv'
  <2>1. r \in Procs
    BY DEF Procs
  <2>2. RequestEnqueue(r) \/ Enqueuing(r)
    BY <1>2 DEF RequestStep, Enqueuing
  <2>3. QED
    BY <2>1, <2>2, RequestEnqueueKeeps, EnqueuingKeeps
<1>3. ASSUME NEW w \in Workers, TakeTask(w) \/ TaskStep(w) \/ RecoverStalled(w) \/ WorkerCrash(w)
      PROVE  MadeInv'
  <2>1. CallSite(w) \/ Works(w) \/ RecoverStalled(w)
    BY <1>3 DEF TaskStep, Works
  <2>2. QED
    BY <2>1, CallSiteKeeps, WorksKeeps, QueueKeeps
<1>4. ASSUME UNCHANGED vars PROVE MadeInv'
  <2>1. UNCHANGED <<pub, rows, link, job, task, project, archived, batch, proc, wk,
                    handlers, pages, live, crashes, faults, refusals>>
    BY <1>4 DEF vars
  <2>2. TypeOK'
    BY <2>1 DEF MadeInv, TypeOK
  <2>3. QED
    BY <2>1, <2>2, SameWorkers, SameProcs, SameRows, SameJobs DEF MadeInv
<1>5. QED
  BY <1>1, <1>2, <1>3, <1>4, HandlerKeeps, QueueKeeps DEF Next

LEMMA MadeAlways == Spec => []MadeInv
<1>1. QED
  BY MadeInit, MadeNext, PTL DEF Spec

\* Rows, jobs, tasks, processes, workers, listeners and the site keep their
\* types in every run of any number of schedulers, requests and workers, with
\* any bounds on crashes, lost answers and refusals.
THEOREM WebsiteTypeCorrect == Spec => []TypeOK
<1>1. MadeInv => TypeOK
  BY DEF MadeInv
<1>2. QED
  BY <1>1, MadeAlways, PTL

\* Nothing in the database says that a version is on the site unless the site
\* has made a page, and no external id is recorded that the site did not give
\* out, whoever crashes and whichever answer is lost (syncDurablePublication,
\* processPublicationJob, getLatestPublishedExternalId).
THEOREM PublishedWasMadeAlways == Spec => []PublishedWasMade
<1>1. MadeInv => PublishedWasMade
  <2> SUFFICES ASSUME MadeInv PROVE PublishedWasMade
    OBVIOUS
  <2>1. \A p \in rows : RowFine(pub[p], pages)
    BY DEF MadeInv, TypeOK, RowsFine
  <2>2. QED
    BY <2>1 DEF MadeInv, JobsFine, RowFine, JobFine, PublishedWasMade
<1>2. QED
  BY <1>1, MadeAlways, PTL

-----------------------------------------------------------------------------
(* Pages that stay up.  When nothing that may take a page down is asked for, *)
(* every id that rows, jobs and workers carry is that of a public page, as   *)
(* long as no answer was lost.                                               *)

\* No request that withdraws a page, or writes a draft over it.
StaysUp == Operations \cap {"unpublish", "archive", "post_unpublish", "post_draft"} = {}

StayingOps == {"publish", "reschedule", "cancel", "retry", "delete", "post_publish",
               "post_update"}

PublishKeys == {"publish", "update"}

\* The steps of an enqueue that know the key.
Keyed == {"find", "reset", "create", "project", "linkq", "check", "add"}

UpPage(n, up) == n # 0 => n \in up

UpRow(row, up) ==
  /\ UpPage(row.ext, up) /\ ~row.unpub
  /\ row.status = "published" => row.ext # 0

UpJob(record, up) ==
  /\ UpPage(record.ext, up)
  /\ record.status \in {"published", "draft_synced"} => record.ext # 0

UpProc(r) ==
  /\ r.op \in StayingOps /\ r.pc \notin {"archive", "enqueue"}
  /\ r.pc = "read" => r.pub \in Pubs
  /\ r.pc \in Keyed => r.key \in PublishKeys

UpTask(record) == record.key \in PublishKeys \/ (record.key = None /\ record.job = NoJob)

\* A draft that waits for its approval is the one page that is not public.
UpWorker(r, up) ==
  /\ UpPage(r.ext, up) /\ UpRow(r.seen, up)
  /\ r.pc # "drafted" => UpPage(r.post, up)
  /\ r.pc \in {"called", "saved", "found"} => r.post # 0 \/ r.ext # 0

UpRows == \A p \in Pubs : UpRow(pub[p], live)
UpJobs == \A k \in Keys : UpJob(job[k], live)
UpProcs == \A x \in Procs : UpProc(proc[x])
UpTasks == \A t \in TaskIds : UpTask(task[t])
UpWorkers == \A w \in Workers : UpWorker(wk[w], live)
HeldKeys == \A w \in Workers : wk[w].pc # "idle" => KeyOf(w) \in PublishKeys

UpInv == UpRows /\ UpJobs /\ UpProcs /\ UpTasks /\ UpWorkers /\ HeldKeys

LEMMA UpInit == Init => UpInv
<1> SUFFICES ASSUME Init PROVE UpInv
  OBVIOUS
<1>1. \A status \in States : UpRow(NewRow(status), live) \/ status = "published"
  BY DEF NewRow, UpRow, UpPage
<1>2. UpRow(NewRow("draft"), live) /\ UpRow(NewRow("scheduled"), live)
  BY <1>1 DEF States
<1>3. UpRows
  BY <1>2 DEF Init, CreatedRows, UpRows
<1>4. UpJobs
  BY DEF Init, UpJobs, UpJob, UpPage
<1>5. UpProcs
  BY DEF Init, UpProcs, UpProc, ProcIdle, StayingOps, Keyed
<1>6. UpTasks
  BY DEF Init, UpTasks, UpTask
<1>7. UpWorkers /\ HeldKeys
  BY <1>2 DEF Init, UpWorkers, UpWorker, UpPage, WorkerIdle, HeldKeys
<1>8. QED
  BY <1>3, <1>4, <1>5, <1>6, <1>7 DEF UpInv

-----------------------------------------------------------------------------
(* One record is replaced *)

LEMMA UpRowReplaced ==
  ASSUME MadeInv, UpRows, live \subseteq live', NEW p, NEW row,
         pub' = [pub EXCEPT ![p] = row],
         p \in Pubs => UpRow(row, live')
  PROVE  UpRows'
  BY DEF MadeInv, TypeOK, UpRows, UpRow, UpPage

LEMMA UpJobReplaced ==
  ASSUME MadeInv, UpJobs, live' = live, NEW k, NEW record,
         job' = [job EXCEPT ![k] = record],
         k \in Keys => UpJob(record, live)
  PROVE  UpJobs'
  BY DEF MadeInv, TypeOK, UpJobs

LEMMA UpProcReplaced ==
  ASSUME MadeInv, UpProcs, NEW x, NEW r, proc' = [proc EXCEPT ![x] = r], UpProc(r)
  PROVE  UpProcs'
  BY DEF MadeInv, TypeOK, UpProcs

LEMMA UpWorkerReplaced ==
  ASSUME MadeInv, UpWorkers, live \subseteq live', NEW w, NEW r,
         wk' = [wk EXCEPT ![w] = r], UpWorker(r, live')
  PROVE  UpWorkers'
  BY DEF MadeInv, TypeOK, UpWorkers, UpWorker, UpRow, UpPage

\* What does not change stays up when no page goes down.
LEMMA UpSame ==
  ASSUME MadeInv, UpInv, live \subseteq live'
  PROVE  /\ pub' = pub => UpRows'
         /\ job' = job => UpJobs'
         /\ proc' = proc => UpProcs'
         /\ task' = task => UpTasks'
         /\ wk' = wk => UpWorkers'
<1>1. pub' = pub => UpRows'
  BY DEF UpInv, UpRows, UpRow, UpPage
<1>2. job' = job => UpJobs'
  BY DEF UpInv, UpJobs, UpJob, UpPage
<1>3. (proc' = proc => UpProcs') /\ (task' = task => UpTasks')
  BY DEF UpInv, UpProcs, UpTasks
<1>4. wk' = wk => UpWorkers'
  BY DEF UpInv, UpWorkers, UpWorker, UpRow, UpPage
<1>5. QED
  BY <1>1, <1>2, <1>3, <1>4

\* No operator's write, and none of the scheduler's, publishes a row.
LEMMA UpRowUpdates ==
  ASSUME NEW up, NEW row \in Rows, UpRow(row, up), NEW seen \in Rows, NEW n, NEW class
  PROVE  /\ UpRow(Rescheduled(row, seen, TRUE), up)
         /\ UpRow(Canceled(row), up)
         /\ UpRow(Retried(row), up)
         /\ UpRow(Deleted(row), up)
         /\ UpRow(Claimed(row), up)
         /\ UpRow(ReleaseBlocked(row), up)
         /\ UpRow(EnqueueFailed(row), up)
         /\ UpRow([row EXCEPT !.status = "publishing"], up)
         /\ UpRow([row EXCEPT !.unpub = FALSE], up)
         /\ UpRow(AttemptFailed(row, n, class, MaxRetries), up)
  BY DEF UpRow, UpPage, Rows, Rescheduled, Canceled, Retried, Deleted,
         Claimed, ReleaseBlocked, EnqueueFailed, AttemptFailed

-----------------------------------------------------------------------------
(* The processes that enqueue *)

\* A step that moves a process and keeps its operation and its key.
Goes(x, pc) ==
  \E r : /\ proc' = [proc EXCEPT ![x] = r]
         /\ r.pc = pc /\ r.op = proc[x].op /\ r.key = proc[x].key

LEMMA GoesForms ==
  ASSUME MadeInv, NEW x \in Procs, NEW pc,
         \/ proc' = [proc EXCEPT ![x].pc = pc]
         \/ proc' = [proc EXCEPT ![x] = [@ EXCEPT !.pc = pc]]
         \/ proc' = [proc EXCEPT ![x] = [proc[x] EXCEPT !.pc = pc]]
         \/ proc' = [proc EXCEPT ![x].pc = pc, ![x].fresh = TRUE]
         \/ \E p : proc' = [proc EXCEPT ![x] = [@ EXCEPT !.pc = pc, !.pub = p]]
  PROVE  Goes(x, pc)
<1>0. proc \in [Procs -> ProcStates] /\ proc[x] \in ProcStates
  BY DEF MadeInv, TypeOK
<1>1. CASE \/ proc' = [proc EXCEPT ![x].pc = pc]
           \/ proc' = [proc EXCEPT ![x] = [@ EXCEPT !.pc = pc]]
           \/ proc' = [proc EXCEPT ![x] = [proc[x] EXCEPT !.pc = pc]]
  <2> DEFINE r == [proc[x] EXCEPT !.pc = pc]
  <2>1. /\ proc' = [proc EXCEPT ![x] = r]
        /\ r.pc = pc /\ r.op = proc[x].op /\ r.key = proc[x].key
    BY <1>0, <1>1 DEF ProcStates
  <2> HIDE DEF r
  <2>2. QED
    BY <2>1 DEF Goes
<1>2. CASE proc' = [proc EXCEPT ![x].pc = pc, ![x].fresh = TRUE]
  <2> DEFINE r == [proc[x] EXCEPT !.pc = pc, !.fresh = TRUE]
  <2>1. /\ proc' = [proc EXCEPT ![x] = r]
        /\ r.pc = pc /\ r.op = proc[x].op /\ r.key = proc[x].key
    BY <1>0, <1>2 DEF ProcStates
  <2> HIDE DEF r
  <2>2. QED
    BY <2>1 DEF Goes
<1>3. ASSUME NEW p, proc' = [proc EXCEPT ![x] = [@ EXCEPT !.pc = pc, !.pub = p]]
      PROVE  Goes(x, pc)
  <2> DEFINE r == [proc[x] EXCEPT !.pc = pc, !.pub = p]
  <2>1. /\ proc' = [proc EXCEPT ![x] = r]
        /\ r.pc = pc /\ r.op = proc[x].op /\ r.key = proc[x].key
    BY <1>0, <1>3 DEF ProcStates
  <2> HIDE DEF r
  <2>2. QED
    BY <2>1 DEF Goes
<1>4. QED
  BY <1>1, <1>2, <1>3

LEMMA UpGoes ==
  ASSUME MadeInv, UpProcs, NEW x \in Procs, NEW pc, Goes(x, pc),
         pc \notin {"archive", "enqueue", "read"},
         pc \in Keyed => proc[x].pc \in Keyed
  PROVE  UpProcs'
<1>1. PICK r : /\ proc' = [proc EXCEPT ![x] = r]
               /\ r.pc = pc /\ r.op = proc[x].op /\ r.key = proc[x].key
  BY DEF Goes
<1>2. UpProc(r)
  BY <1>1 DEF UpProcs, UpProc
<1>3. QED
  BY <1>1, <1>2, UpProcReplaced

LEMMA UpEnds ==
  ASSUME MadeInv, UpProcs, NEW x \in Procs, Ends(x) \/ proc' = [proc EXCEPT ![x] = ProcIdle]
  PROVE  UpProcs'
<1>1. UpProc(ProcIdle)
  BY DEF UpProc, ProcIdle, StayingOps, Keyed
<1>2. UpProc(ProcEnd(x))
  <2>1. CASE x \in Schedulers
    BY <1>1, <2>1 DEF ProcEnd
  <2>2. CASE x \notin Schedulers
    <3> DEFINE op == proc[x].op
               p == proc[x].pub
               r == [ProcIdle EXCEPT !.pc = "done", !.op = op, !.pub = p]
    <3>1. op \in StayingOps
      BY DEF UpProcs, UpProc
    <3> HIDE DEF op, p
    <3>2. UpProc(r)
      BY <3>1 DEF UpProc, ProcIdle, Keyed
    <3>3. QED
      BY <2>2, <3>2 DEF ProcEnd, op, p
  <2>3. QED
    BY <2>1, <2>2
<1>3. QED
  BY <1>1, <1>2, UpProcReplaced DEF Ends

\* Rows without an unpublish request give the keys that publish.
LEMMA UpEnqueueStepProcs ==
  ASSUME MadeInv, UpInv, NEW x \in Procs, EnqueueStep(x)
  PROVE  UpProcs'
<1>0. proc[x] \in ProcStates /\ proc \in [Procs -> ProcStates] /\ UpProcs /\ UpProc(proc[x])
  BY DEF MadeInv, TypeOK, UpInv, UpProcs
<1>1. CASE FindJob(x)
  <2> DEFINE status == job[proc[x].key].status
             next == AfterFind(proc[x].op, status)
  <2>1. status \in JobStatus
    <3>1. proc[x].key \in Keys
      BY <1>1 DEF FindJob, MadeInv, ProcsFine, ProcFine
    <3>2. QED
      BY <3>1 DEF MadeInv, TypeOK, PublicationJobs
  <2>2. proc' = [proc EXCEPT ![x] =
                  IF next = "done" THEN ProcEnd(x) ELSE [proc[x] EXCEPT !.pc = next]]
    BY <1>0, <1>1 DEF FindJob
  <2>3. next \in {"create", "link", "check", "reset", "done"}
    <3> HIDE DEF status
    <3>1. QED
      BY <2>1 DEF AfterFind, JobStatus
  <2> HIDE DEF next
  <2>4. CASE next = "done"
    BY <1>0, <2>2, <2>4, UpEnds DEF Ends
  <2>5. CASE next # "done"
    <3>1. Goes(x, next)
      BY <2>2, <2>5, GoesForms
    <3>2. proc[x].pc \in Keyed
      BY <1>1 DEF FindJob, Keyed
    <3>3. QED
      BY <1>0, <2>3, <3>1, <3>2, UpGoes
  <2>6. QED
    BY <2>4, <2>5
<1>2. CASE ResetJob(x) \/ CreateJob(x)
  <2>1. \/ \E pc \in {"check", "project"} :
             \/ proc' = [proc EXCEPT ![x].pc = pc]
             \/ proc' = [proc EXCEPT ![x].pc = pc, ![x].fresh = TRUE]
        \/ proc' = [proc EXCEPT ![x].pc = "error"]
    BY <1>2 DEF ResetJob, CreateJob, AfterWriteJob
  <2>2. \E pc \in {"check", "project", "error"} : Goes(x, pc)
    BY <2>1, GoesForms
  <2>3. proc[x].pc \in Keyed
    BY <1>2 DEF ResetJob, CreateJob, Keyed
  <2>4. QED
    BY <1>0, <2>2, <2>3, UpGoes
<1>3. CASE SetProjectQueued(x)
  <2>1. \E pc \in {"linkq", "check"} : proc' = [proc EXCEPT ![x].pc = pc]
    BY <1>3 DEF SetProjectQueued
  <2>2. \E pc \in {"linkq", "check"} : Goes(x, pc)
    BY <2>1, GoesForms
  <2>3. proc[x].pc \in Keyed
    BY <1>3 DEF SetProjectQueued, Keyed
  <2>4. QED
    BY <1>0, <2>2, <2>3, UpGoes
<1>4. CASE LinkRow(x)
  <2>1. \/ Ends(x)
        \/ proc[x].pc = "linkq" /\ proc' = [proc EXCEPT ![x] = [@ EXCEPT !.pc = "check"]]
    BY <1>4 DEF LinkRow, Ends
  <2>2. CASE Ends(x)
    BY <1>0, <2>2, UpEnds
  <2>3. CASE proc[x].pc = "linkq" /\ proc' = [proc EXCEPT ![x] = [@ EXCEPT !.pc = "check"]]
    <3>1. Goes(x, "check")
      BY <2>3, GoesForms
    <3>2. QED
      BY <1>0, <2>3, <3>1, UpGoes DEF Keyed
  <2>4. QED
    BY <2>1, <2>2, <2>3
<1>5. CASE CheckQueue(x) \/ AddTask(x)
  <2>1. \/ proc' = [proc EXCEPT ![x] = Afterwards(x)]
        \/ proc' = [proc EXCEPT ![x] = [@ EXCEPT !.pc = "add"]]
    BY <1>5 DEF CheckQueue, AddTask
  <2>2. Afterwards(x) \in {ProcEnd(x), [proc[x] EXCEPT !.pc = "durable"]}
    <3>1. proc[x].op # "archive"
      BY <1>0 DEF UpProc, StayingOps
    <3>2. QED
      BY <3>1 DEF Afterwards
  <2>3. Ends(x) \/ Goes(x, "durable") \/ Goes(x, "add")
    <3>1. \/ Ends(x) \/ proc' = [proc EXCEPT ![x] = [proc[x] EXCEPT !.pc = "durable"]]
          \/ proc' = [proc EXCEPT ![x] = [@ EXCEPT !.pc = "add"]]
      BY <2>1, <2>2 DEF Ends
    <3>2. QED
      BY <3>1, GoesForms
  <2>4. proc[x].pc \in Keyed
    BY <1>5 DEF CheckQueue, AddTask, Keyed
  <2>5. QED
    BY <1>0, <2>3, <2>4, UpEnds, UpGoes
<1>6. CASE ChooseAction(x)
  <2> DEFINE p == proc[x].pub
             k == KeyOfRow(pub[p])
             r == [proc[x] EXCEPT !.pc = "find", !.key = k]
  <2>1. p \in Pubs
    BY <1>0, <1>6 DEF ChooseAction, UpProc
  <2>2. ~pub[p].unpub
    BY <2>1 DEF UpInv, UpRows, UpRow
  <2>3. k \in PublishKeys
    BY <2>2 DEF KeyOfRow, PublishKeys
  <2>4. proc' = [proc EXCEPT ![x] = r]
    BY <1>0, <1>6 DEF ChooseAction
  <2> HIDE DEF k
  <2>5. r.pc = "find" /\ r.key = k /\ r.op = proc[x].op
    BY <1>0 DEF ProcStates
  <2> HIDE DEF r
  <2>6. UpProc(r)
    BY <1>0, <2>3, <2>5 DEF UpProc
  <2>7. QED
    BY <1>0, <2>4, <2>6, UpProcReplaced
<1>7. QED
  BY <1>1, <1>2, <1>3, <1>4, <1>5, <1>6 DEF EnqueueStep

\* Who starts an enqueue, or a request.
LEMMA UpReadAndGate ==
  ASSUME MadeInv, UpProcs, NEW x \in Procs, NEW p \in Pubs, ReadAndGate(x, p)
  PROVE  UpProcs'
<1>0. proc[x] \in ProcStates /\ UpProc(proc[x])
  BY DEF MadeInv, TypeOK, UpProcs
<1>1. CASE proc' = [proc EXCEPT ![x] = ProcEnd(x)]
  BY <1>1, UpEnds DEF Ends
<1>2. ASSUME NEW pc \in {"read", "blocked", "error"},
             proc' = [proc EXCEPT ![x] = [@ EXCEPT !.pc = pc, !.pub = p]]
      PROVE  UpProcs'
  <2> DEFINE r == [proc[x] EXCEPT !.pc = pc, !.pub = p]
  <2>1. r.pc = pc /\ r.op = proc[x].op /\ r.pub = p
    BY <1>0 DEF ProcStates
  <2>2. proc' = [proc EXCEPT ![x] = r]
    BY <1>2
  <2> HIDE DEF r
  <2>3. UpProc(r)
    BY <1>0, <2>1 DEF UpProc, Keyed
  <2>4. QED
    BY <2>2, <2>3, UpProcReplaced
<1>3. QED
  BY <1>1, <1>2 DEF ReadAndGate

\* The steps of a request beside the enqueue, and the failures of everybody.
LEMMA UpRequestProcs ==
  ASSUME StaysUp, MadeInv, UpInv, NEW x \in Procs, Enqueuing(x), ~ EnqueueStep(x)
  PROVE  UpProcs'
<1>0. /\ proc[x] \in ProcStates /\ proc \in [Procs -> ProcStates] /\ UpProcs
      /\ UpProc(proc[x])
  BY DEF MadeInv, TypeOK, UpInv, UpProcs
<1>1. CASE FindDurable(x) \/ CreateDurable(x)
  <2>1. \/ \E pc \in {"link", "markrow"} : \E p :
             proc' = [proc EXCEPT ![x] = [@ EXCEPT !.pc = pc, !.pub = p]]
        \/ proc' = [proc EXCEPT ![x].pc = "newrow"]
    BY <1>1 DEF FindDurable, CreateDurable
  <2>2. \E pc \in {"link", "markrow", "newrow"} : Goes(x, pc)
    BY <2>1, GoesForms
  <2>3. QED
    BY <1>0, <2>2, UpGoes DEF Keyed
<1>2. CASE EnqueueError(x)
  <2>1. Goes(x, "error")
    BY <1>2, GoesForms DEF EnqueueError
  <2>2. QED
    BY <1>0, <2>1, UpGoes DEF Keyed
<1>3. CASE MarkDurable(x) \/ CatchEnqueue(x) \/ RequestThrows(x) \/ RequestAborted(x)
           \/ ArchiveProject(x)
  <2>1. Ends(x) \/ proc' = [proc EXCEPT ![x] = ProcIdle]
    BY <1>3 DEF MarkDurable, CatchEnqueue, RequestThrows, RequestAborted, ArchiveProject, Ends
  <2>2. QED
    BY <1>0, <2>1, UpEnds
<1>4. CASE RequestRow(x)
  <2>1. PICK op \in Operations \cap RowOperations, p \in rows :
          proc' = [proc EXCEPT ![x] =
                    [@ EXCEPT !.pc = "write", !.op = op, !.pub = p, !.seen = pub[p]]]
    BY <1>4 DEF RequestRow
  <2> DEFINE seen == pub[p]
             r == [proc[x] EXCEPT !.pc = "write", !.op = op, !.pub = p, !.seen = seen]
  <2>2. r.pc = "write" /\ r.op = op
    BY <1>0 DEF ProcStates
  <2>3. op \in StayingOps
    BY <2>1 DEF StaysUp, RowOperations, StayingOps
  <2>4. proc' = [proc EXCEPT ![x] = r]
    BY <2>1
  <2> HIDE DEF seen, r
  <2>5. UpProc(r)
    BY <2>2, <2>3 DEF UpProc, Keyed
  <2>6. QED
    BY <1>0, <2>4, <2>5, UpProcReplaced
<1>5. CASE RequestWrite(x)
  <2>1. proc[x].op # "unpublish"
    BY <1>0 DEF UpProc, StayingOps
  <2>2. Ends(x)
    BY <1>5, <2>1 DEF RequestWrite, Ends
  <2>3. QED
    BY <1>0, <2>2, UpEnds
<1>6. CASE RequestPost(x)
  <2>1. PICK op \in Operations \cap PostOperations :
          proc' = [proc EXCEPT ![x] =
                    [@ EXCEPT !.pc = "find", !.op = op, !.key = KeyOfPost(op)]]
    BY <1>6 DEF RequestPost
  <2> DEFINE k == KeyOfPost(op)
             r == [proc[x] EXCEPT !.pc = "find", !.op = op, !.key = k]
  <2>2. op \in {"post_publish", "post_update"}
    BY <2>1 DEF StaysUp, PostOperations
  <2>3. k \in PublishKeys
    BY <2>2 DEF KeyOfPost, PublishKeys
  <2>4. proc' = [proc EXCEPT ![x] = r]
    BY <2>1
  <2> HIDE DEF k
  <2>5. r.pc = "find" /\ r.op = op /\ r.key = k
    BY <1>0 DEF ProcStates
  <2> HIDE DEF r
  <2>6. UpProc(r)
    BY <2>2, <2>3, <2>5 DEF UpProc, StayingOps
  <2>7. QED
    BY <1>0, <2>4, <2>6, UpProcReplaced
<1>7. ~ RequestArchive(x) /\ ~ ArchiveRow(x)
  BY <1>0 DEF RequestArchive, ArchiveRow, StaysUp, UpProc
<1>8. QED
  BY <1>1, <1>2, <1>3, <1>4, <1>5, <1>6, <1>7 DEF Enqueuing

LEMMA UpEnqueuingRows ==
  ASSUME StaysUp, MadeInv, UpInv, NEW x \in Procs, Enqueuing(x), live' = live
  PROVE  UpRows'
<1>0. /\ proc[x] \in ProcStates /\ ProcFine(proc[x]) /\ UpProc(proc[x]) /\ UpRows
      /\ \A p \in Pubs : pub[p] \in Rows /\ UpRow(pub[p], live)
      /\ proc[x].seen \in Rows
  BY DEF MadeInv, TypeOK, ProcsFine, UpInv, UpProcs, UpRows, ProcStates
<1>1. CASE UNCHANGED pub
  BY <1>1, UpSame
<1>2. CASE CreateDurable(x)
  <2>1. PICK p \in Pubs : pub' = [pub EXCEPT ![p] = NewRow("scheduled")]
    BY <1>2 DEF CreateDurable
  <2>2. UpRow(NewRow("scheduled"), live')
    BY DEF NewRow, UpRow, UpPage
  <2>3. QED
    BY <1>0, <2>1, <2>2, UpRowReplaced
<1>3. CASE MarkDurable(x)
  <2> DEFINE p == proc[x].pub
             row == [pub[p] EXCEPT !.status = "publishing"]
  <2>1. pub' = [pub EXCEPT ![p] = row]
    BY <1>3 DEF MarkDurable, MadeInv, TypeOK
  <2>2. p \in Pubs => UpRow(row, live')
    BY <1>0, UpRowUpdates
  <2> HIDE DEF p, row
  <2>3. QED
    BY <1>0, <2>1, <2>2, UpRowReplaced
<1>4. CASE CatchEnqueue(x)
  <2> DEFINE p == proc[x].pub
  <2>1. PICK row \in {ReleaseBlocked(pub[p]), EnqueueFailed(pub[p])} :
          pub' = [pub EXCEPT ![p] = row]
    BY <1>4 DEF CatchEnqueue
  <2>2. p \in Pubs => UpRow(row, live')
    BY <1>0, UpRowUpdates
  <2> HIDE DEF p
  <2>3. QED
    BY <1>0, <2>1, <2>2, UpRowReplaced
<1>5. CASE RequestWrite(x)
  <2> DEFINE p == proc[x].pub
             op == proc[x].op
             seen == proc[x].seen
             row == CASE op = "reschedule" -> Rescheduled(pub[p], seen, TRUE)
                      [] op = "cancel"     -> Canceled(pub[p])
                      [] op = "retry"      -> Retried(pub[p])
                      [] op = "delete"     -> Deleted(pub[p])
                      [] op = "unpublish"  -> UnpublishQueued(pub[p])
  <2>1. op \in {"reschedule", "cancel", "retry", "delete"}
    BY <1>0, <1>5 DEF RequestWrite, ProcFine, UpProc, StayingOps, RowOperations
  <2>2. pub' = [pub EXCEPT ![p] = row]
    BY <1>5 DEF RequestWrite
  <2> HIDE DEF op
  <2>3. row \in {Rescheduled(pub[p], seen, TRUE), Canceled(pub[p]), Retried(pub[p]),
                 Deleted(pub[p])}
    BY <2>1
  <2> HIDE DEF row
  <2>4. p \in Pubs => UpRow(row, live')
    BY <1>0, <2>3, UpRowUpdates
  <2> HIDE DEF p
  <2>5. QED
    BY <1>0, <2>2, <2>4, UpRowReplaced
<1>6. ~ ArchiveRow(x)
  BY <1>0 DEF ArchiveRow, UpProc
<1>7. QED
  BY <1>1, <1>2, <1>3, <1>4, <1>5, <1>6
     DEF Enqueuing, EnqueueStep, ChooseAction, FindJob, ResetJob, CreateJob,
         SetProjectQueued, LinkRow, CheckQueue, AddTask, FindDurable, EnqueueError,
         RequestThrows, RequestAborted, RequestRow, RequestPost, RequestArchive,
         ArchiveProject, Records

LEMMA UpEnqueuingJobs ==
  ASSUME MadeInv, UpInv, NEW x \in Procs, Enqueuing(x), live' = live
  PROVE  UpJobs'
<1>0. UpJobs /\ \A k \in Keys : job[k] \in PublicationJobs /\ UpJob(job[k], live)
  BY DEF MadeInv, TypeOK, UpInv, UpJobs
<1>1. CASE UNCHANGED job
  BY <1>1, UpSame
<1>2. CASE ResetJob(x)
  <2> DEFINE k == proc[x].key
             record == [job[k] EXCEPT !.status = "queued"]
  <2>1. job' = [job EXCEPT ![k] = record]
    BY <1>2 DEF ResetJob, MadeInv, TypeOK
  <2>2. k \in Keys => UpJob(record, live)
    BY <1>0 DEF UpJob, PublicationJobs
  <2> HIDE DEF k, record
  <2>3. QED
    BY <1>0, <2>1, <2>2, UpJobReplaced
<1>3. CASE CreateJob(x) /\ job' # job
  <2> DEFINE k == proc[x].key
             born == 1 + Cardinality({i \in Keys : job[i].status # "none"})
             record == [status |-> "queued", ext |-> 0, born |-> born]
  <2>1. job' = [job EXCEPT ![k] = record]
    BY <1>3 DEF CreateJob
  <2> HIDE DEF k, born
  <2>2. UpJob(record, live)
    BY DEF UpJob, UpPage
  <2> HIDE DEF record
  <2>3. QED
    BY <1>0, <2>1, <2>2, UpJobReplaced
<1>4. QED
  BY <1>1, <1>2, <1>3
     DEF Enqueuing, EnqueueStep, ChooseAction, FindJob, CreateJob,
         SetProjectQueued, LinkRow, CheckQueue, AddTask, FindDurable, CreateDurable,
         MarkDurable, EnqueueError, CatchEnqueue, RequestThrows, RequestAborted, RequestRow,
         RequestWrite, RequestPost, RequestArchive, ArchiveRow, ArchiveProject, Queue

\* A task takes its key from the process that adds it, and keeps it.
LEMMA UpEnqueuingTasks ==
  ASSUME MadeInv, UpInv, NEW x \in Procs, Enqueuing(x), live' = live
  PROVE  UpTasks' /\ \A t \in TaskIds : task[t].key \in PublishKeys => task'[t].key = task[t].key
<1>0. /\ UpTasks /\ UpProc(proc[x]) /\ task \in [TaskIds -> Tasks]
  BY DEF MadeInv, TypeOK, UpInv, UpProcs
<1>1. CASE UNCHANGED task
  BY <1>1, UpSame
<1>2. CASE proc[x].pc = "add" /\ \E t \in TaskIds : NewTask(t, proc[x].key)
  <2> DEFINE k == proc[x].key
             new == Added(NoJob)
  <2>1. k \in PublishKeys
    BY <1>0, <1>2 DEF UpProc, Keyed
  <2>2. PICK t \in TaskIds : /\ task' = [task EXCEPT ![t] = [key |-> k, job |-> new]]
                             /\ task[t].key = None
    BY <1>2 DEF NewTask
  <2>3. None \notin PublishKeys
    BY ConstantsAssumption DEF PublishKeys, Keys
  <2> HIDE DEF k, new
  <2>4. QED
    BY <1>0, <2>1, <2>2, <2>3 DEF UpTasks, UpTask
<1>3. QED
  BY <1>1, <1>2
     DEF Enqueuing, EnqueueStep, ChooseAction, FindJob, ResetJob, CreateJob,
         SetProjectQueued, LinkRow, CheckQueue, AddTask, FindDurable, CreateDurable,
         MarkDurable, EnqueueError, CatchEnqueue, RequestThrows, RequestAborted, RequestRow,
         RequestWrite, RequestPost, RequestArchive, ArchiveRow, ArchiveProject, Queue

LEMMA UpEnqueuing ==
  ASSUME StaysUp, MadeInv, UpInv, NEW x \in Procs, Enqueuing(x)
  PROVE  UpInv'
<1>1. wk' = wk /\ live' = live
  BY DEF Enqueuing, EnqueueStep, ChooseAction, FindJob, ResetJob, CreateJob,
         SetProjectQueued, LinkRow, CheckQueue, AddTask, FindDurable, CreateDurable,
         MarkDurable, EnqueueError, CatchEnqueue, RequestThrows, RequestAborted, RequestRow,
         RequestWrite, RequestPost, RequestArchive, ArchiveRow, ArchiveProject, WorkerSide
<1>2. UpRows' /\ UpJobs'
  BY <1>1, UpEnqueuingRows, UpEnqueuingJobs
<1>3. UpProcs'
  BY UpEnqueueStepProcs, UpRequestProcs
<1>4. UpTasks' /\ HeldKeys'
  <2>1. \A w \in Workers : wk[w].pc # "idle" => wk[w].task \in TaskIds
    BY DEF MadeInv, WorkersFine, WorkerFine
  <2>2. QED
    BY <1>1, <2>1, UpEnqueuingTasks DEF UpInv, HeldKeys, KeyOf
<1>5. UpWorkers'
  BY <1>1, UpSame
<1>6. QED
  BY <1>2, <1>3, <1>4, <1>5 DEF UpInv

LEMMA UpScheduler ==
  ASSUME MadeInv, UpInv, NEW s \in Schedulers, Claim(s) \/ NextClaimed(s) \/ TickAborted(s)
  PROVE  UpInv'
<1>0. /\ UNCHANGED <<job, task, wk, live>> /\ s \in Procs /\ UpProcs
  BY DEF Claim, NextClaimed, TickAborted, Queue, WorkerSide, Procs, UpInv
<1>1. UpRows'
  <2>1. CASE UNCHANGED pub
    BY <1>0, <2>1, UpSame
  <2>2. CASE Claim(s)
    <3>1. \A p \in Pubs : pub'[p] = Claimed(pub[p]) \/ pub'[p] = pub[p]
      BY <2>2 DEF Claim
    <3>2. \A p \in Pubs : UpRow(pub[p], live) /\ pub[p] \in Rows
      BY DEF MadeInv, TypeOK, UpInv, UpRows
    <3>3. \A p \in Pubs : UpRow(Claimed(pub[p]), live)
      BY <3>2, UpRowUpdates
    <3>4. QED
      BY <1>0, <3>1, <3>2, <3>3 DEF UpRows
  <2>3. QED
    BY <2>1, <2>2 DEF NextClaimed, TickAborted, Records
<1>2. UpProcs'
  <2>1. CASE Claim(s)
    BY <1>0, <2>1, UpSame DEF Claim
  <2>2. CASE NextClaimed(s)
    <3>1. PICK p \in Pubs : ReadAndGate(s, p)
      BY <2>2 DEF NextClaimed, MadeInv, TypeOK
    <3>2. QED
      BY <1>0, <3>1, UpReadAndGate
  <2>3. CASE TickAborted(s)
    BY <1>0, <2>3, UpEnds DEF TickAborted
  <2>4. QED
    BY <2>1, <2>2, <2>3
<1>3. UpJobs' /\ UpTasks' /\ UpWorkers'
  BY <1>0, UpSame
<1>4. HeldKeys'
  BY <1>0 DEF UpInv, HeldKeys, KeyOf
<1>5. QED
  BY <1>1, <1>2, <1>3, <1>4 DEF UpInv

-----------------------------------------------------------------------------
(* The workers, the listeners and the queue *)

\* BullMQ changes the state of a task and never its key.
KeysKept == \A t \in TaskIds : task'[t].key = task[t].key

LEMMA UpTaskChanged ==
  ASSUME MadeInv, UpInv, NEW t, NEW j, task' = [task EXCEPT ![t].job = j],
         t \in TaskIds => task[t].key \in PublishKeys \/ task[t].job # NoJob
  PROVE  UpTasks' /\ KeysKept
<1>0. task \in [TaskIds -> Tasks] /\ UpTasks
  BY DEF MadeInv, TypeOK, UpInv
<1>1. KeysKept
  BY <1>0 DEF KeysKept, Tasks
<1>2. \A u \in TaskIds : UpTask(task'[u])
  <2>1. TAKE u \in TaskIds
  <2>2. CASE u = t
    <3>1. task[u].key \in PublishKeys
      BY <1>0, <2>2 DEF UpTasks, UpTask
    <3>2. QED
      BY <1>1, <3>1 DEF KeysKept, UpTask
  <2>3. CASE u # t
    <3>1. task'[u] = task[u]
      BY <1>0, <2>3
    <3>2. QED
      BY <1>0, <3>1 DEF UpTasks
  <2>4. QED
    BY <2>2, <2>3
<1>3. QED
  BY <1>1, <1>2 DEF UpTasks

\* The task a worker holds has been made, so it has a key.
LEMMA HeldTaskMade ==
  ASSUME MadeInv, UpInv, NEW w \in Workers, wk[w].pc # "idle"
  PROVE  wk[w].task \in TaskIds /\ KeyOf(w) \in PublishKeys
  BY DEF MadeInv, WorkersFine, WorkerFine, UpInv, HeldKeys

LEMMA UpLatest ==
  ASSUME MadeInv, UpJobs
  PROVE  UpPage(LatestExternalId, live)
<1>1. CASE WithPage = {}
  BY <1>1 DEF LatestExternalId, UpPage
<1>2. CASE WithPage # {}
  <2>1. PICK k \in WithPage : LatestExternalId = job[k].ext
    BY <1>2, LatestOfSome
  <2>2. QED
    BY <2>1 DEF WithPage, UpJobs, UpJob
<1>3. QED
  BY <1>1, <1>2

\* A worker that only goes on, with the row it has found.
LEMMA UpWorkerMoved ==
  ASSUME MadeInv, UpInv, NEW w \in Workers, NEW up, live \subseteq up, NEW pc,
         wk[w].pc # "drafted" \/ UpPage(wk[w].post, up),
         pc \in {"called", "saved", "found"} => wk[w].post # 0 \/ wk[w].ext # 0
  PROVE  /\ UpWorker([wk[w] EXCEPT !.pc = pc], up)
         /\ UpWorker([wk[w] EXCEPT !.pc = pc, !.hit = None], up)
         /\ \A p \in Pubs : UpWorker([wk[w] EXCEPT !.pc = pc, !.hit = p, !.seen = pub[p]], up)
<1>0. /\ wk[w] \in WorkerStates /\ UpWorker(wk[w], up) /\ UpPage(wk[w].post, up)
      /\ \A p \in Pubs : UpRow(pub[p], up)
  BY DEF MadeInv, TypeOK, UpInv, UpWorkers, UpRows, UpWorker, UpRow, UpPage
<1>1. /\ UpWorker([wk[w] EXCEPT !.pc = pc], up)
      /\ UpWorker([wk[w] EXCEPT !.pc = pc, !.hit = None], up)
  BY <1>0 DEF UpWorker, WorkerStates
<1>2. ASSUME NEW p \in Pubs
      PROVE  UpWorker([wk[w] EXCEPT !.pc = pc, !.hit = p, !.seen = pub[p]], up)
  <2> DEFINE seen == pub[p]
  <2>1. UpRow(seen, up)
    BY <1>0
  <2> HIDE DEF seen
  <2>2. UpWorker([wk[w] EXCEPT !.pc = pc, !.hit = p, !.seen = seen], up)
    BY <1>0, <2>1 DEF UpWorker, WorkerStates
  <2>3. QED
    BY <2>2 DEF seen
<1>3. QED
  BY <1>1, <1>2

LEMMA UpWorksWorkers ==
  ASSUME MadeInv, UpInv, NEW w \in Workers, Works(w)
  PROVE  live \subseteq live' /\ UpWorkers'
<1>0. /\ wk \in [Workers -> WorkerStates] /\ UpWorkers /\ rows \subseteq Pubs
      /\ UpWorker(wk[w], live) /\ WorkerFine(wk[w], pages)
  BY DEF MadeInv, TypeOK, UpInv, UpWorkers, WorkersFine
<1>1. live \subseteq live' /\ (~ ApproveDraft(w) => live' = live)
  BY DEF Works, TakeTask, SetProcessing, QueueProject, LookUpPage, ApproveDraft, SaveJob,
         FindRow, SyncRow, MarkProject, ReadForVerify, RecordVerification, CompleteTask,
         FailTry, WorkerCrash
<1>2. CASE CompleteTask(w) \/ FailTry(w) \/ WorkerCrash(w)
  <2>1. wk' = [wk EXCEPT ![w] = WorkerIdle]
    BY <1>2 DEF CompleteTask, FailTry, WorkerCrash
  <2>2. UpWorker(WorkerIdle, live')
    BY DEF WorkerIdle, NewRow, UpWorker, UpRow, UpPage
  <2>3. QED
    BY <1>0, <1>1, <2>1, <2>2, UpWorkerReplaced
<1>3. CASE TakeTask(w)
  <2>1. PICK t : wk' = [wk EXCEPT ![w] = [WorkerIdle EXCEPT !.pc = "taken", !.task = t]]
    BY <1>3 DEF TakeTask
  <2> DEFINE r == [WorkerIdle EXCEPT !.pc = "taken", !.task = t]
  <2>2. UpWorker(r, live')
    BY DEF WorkerIdle, NewRow, UpWorker, UpRow, UpPage
  <2>3. wk' = [wk EXCEPT ![w] = r]
    BY <2>1
  <2> HIDE DEF r
  <2>4. QED
    BY <1>0, <1>1, <2>2, <2>3, UpWorkerReplaced
<1>4. CASE LookUpPage(w)
  <2> DEFINE ext == LatestExternalId
             r == [wk[w] EXCEPT !.pc = "ready", !.ext = ext]
  <2>1. wk' = [wk EXCEPT ![w] = r] /\ live' = live
    BY <1>0, <1>4 DEF LookUpPage
  <2>2. UpPage(ext, live) /\ wk[w].pc = "queued"
    BY <1>4, UpLatest DEF UpInv, LookUpPage
  <2> HIDE DEF ext
  <2>3. UpWorker(r, live)
    BY <1>0, <2>2 DEF UpWorker, WorkerStates
  <2> HIDE DEF r
  <2>4. QED
    BY <1>0, <1>1, <2>1, <2>3, UpWorkerReplaced
<1>5. CASE \/ SetProcessing(w) \/ QueueProject(w) \/ ApproveDraft(w) \/ SaveJob(w)
           \/ FindRow(w) \/ SyncRow(w) \/ MarkProject(w) \/ ReadForVerify(w)
           \/ RecordVerification(w)
  <2>1. PICK pc :
          /\ wk[w].pc # "drafted" \/ UpPage(wk[w].post, live')
          /\ pc \in {"called", "saved", "found"} => wk[w].post # 0 \/ wk[w].ext # 0
          /\ \/ wk' = [wk EXCEPT ![w].pc = pc]
             \/ wk' = [wk EXCEPT ![w].pc = pc, ![w].hit = None]
             \/ \E p \in Pubs : wk' = [wk EXCEPT ![w].pc = pc, ![w].hit = p, ![w].seen = pub[p]]
    <3>1. CASE SetProcessing(w) \/ QueueProject(w) \/ SaveJob(w)
      BY <1>0, <3>1 DEF SetProcessing, QueueProject, SaveJob, UpWorker
    <3>2. CASE ApproveDraft(w)
      BY <1>0, <3>2 DEF ApproveDraft, UpPage, WorkerFine
    <3>3. CASE SyncRow(w) \/ MarkProject(w) \/ RecordVerification(w)
      BY <3>3 DEF SyncRow, MarkProject, RecordVerification
    <3>4. CASE FindRow(w) \/ ReadForVerify(w)
      <4>1. \A p \in LinkedTo(KeyOf(w)) : p \in Pubs
        BY <1>0 DEF LinkedTo
      <4>2. QED
        BY <1>0, <3>4, <4>1 DEF FindRow, ReadForVerify, UpWorker
    <3>5. QED
      BY <1>5, <3>1, <3>2, <3>3, <3>4
  <2>2. PICK r : wk' = [wk EXCEPT ![w] = r] /\ UpWorker(r, live')
    <3>0. /\ UpWorker([wk[w] EXCEPT !.pc = pc], live')
          /\ UpWorker([wk[w] EXCEPT !.pc = pc, !.hit = None], live')
          /\ \A p \in Pubs : UpWorker([wk[w] EXCEPT !.pc = pc, !.hit = p, !.seen = pub[p]], live')
      <4>1. PICK up : up = live'
        OBVIOUS
      <4>2. QED
        BY <1>1, <2>1, <4>1, UpWorkerMoved
    <3>1. CASE wk' = [wk EXCEPT ![w].pc = pc]
      BY <1>0, <3>0, <3>1
    <3>2. CASE wk' = [wk EXCEPT ![w].pc = pc, ![w].hit = None]
      <4> DEFINE r == [wk[w] EXCEPT !.pc = pc, !.hit = None]
      <4>1. wk' = [wk EXCEPT ![w] = r] /\ UpWorker(r, live')
        BY <1>0, <3>0, <3>2
      <4> HIDE DEF r
      <4>2. QED
        BY <4>1
    <3>3. ASSUME NEW p \in Pubs,
                 wk' = [wk EXCEPT ![w].pc = pc, ![w].hit = p, ![w].seen = pub[p]]
          PROVE  \E r : wk' = [wk EXCEPT ![w] = r] /\ UpWorker(r, live')
      <4> DEFINE r == [wk[w] EXCEPT !.pc = pc, !.hit = p, !.seen = pub[p]]
      <4>1. wk' = [wk EXCEPT ![w] = r] /\ UpWorker(r, live')
        BY <1>0, <3>0, <3>3
      <4> HIDE DEF r
      <4>2. QED
        BY <4>1
    <3>4. QED
      BY <2>1, <3>1, <3>2, <3>3
  <2>3. QED
    BY <1>0, <1>1, <2>2, UpWorkerReplaced
<1>6. QED
  BY <1>1, <1>2, <1>3, <1>4, <1>5 DEF Works

\* The call adds a page or writes over one, and none goes down.
LEMMA UpCallSite ==
  ASSUME MadeInv, UpInv, NEW w \in Workers, CallSite(w), faults' = faults
  PROVE  live \subseteq live' /\ UpWorkers'
<1>0. /\ wk \in [Workers -> WorkerStates] /\ wk[w] \in WorkerStates /\ UpWorkers
      /\ UpWorker(wk[w], live) /\ pages \in Nat /\ wk[w].pc = "ready" /\ faults \in Nat
      /\ KeyOf(w) \in PublishKeys
  BY DEF MadeInv, TypeOK, UpInv, UpWorkers, HeldKeys, CallSite
<1>1. \/ TwoCalls /\ PageMade(w, FALSE, "drafted")
      \/ PageMade(w, TRUE, "called")
      \/ wk[w].ext # 0 /\ live' = live \cup {wk[w].ext} /\ PageChanged(w)
  BY <1>0 DEF CallSite, PublishKeys, IsUnpublish
<1>2. PICK r : /\ wk' = [wk EXCEPT ![w] = r] /\ live \subseteq live' /\ UpWorker(r, live')
  <2>1. ASSUME NEW public \in BOOLEAN, NEW next \in {"drafted", "called"},
               PageMade(w, public, next), public \/ next = "drafted"
        PROVE  \E r : wk' = [wk EXCEPT ![w] = r] /\ live \subseteq live' /\ UpWorker(r, live')
    <3> DEFINE page == pages + 1
               r == [wk[w] EXCEPT !.pc = next, !.post = page]
    <3>1. wk' = [wk EXCEPT ![w].pc = next, ![w].post = page]
      BY <1>0, <2>1 DEF PageMade, Fault
    <3>2. live \subseteq live' /\ (public => page \in live') /\ page # 0
      BY <1>0, <2>1 DEF PageMade
    <3> HIDE DEF page
    <3>3. wk' = [wk EXCEPT ![w] = r]
      BY <1>0, <3>1
    <3>4. r.pc = next /\ r.post = page /\ r.ext = wk[w].ext /\ r.seen = wk[w].seen
      BY <1>0 DEF WorkerStates
    <3> HIDE DEF r
    <3>5. UpWorker(r, live')
      BY <1>0, <2>1, <3>2, <3>4 DEF UpWorker, UpRow, UpPage
    <3>6. QED
      BY <3>2, <3>3, <3>5
  <2>2. CASE wk[w].ext # 0 /\ live' = live \cup {wk[w].ext} /\ PageChanged(w)
    <3> DEFINE r == [wk[w] EXCEPT !.pc = "called"]
    <3>1. wk' = [wk EXCEPT ![w] = r]
      BY <1>0, <2>2 DEF PageChanged
    <3>2. r.pc = "called" /\ r.post = wk[w].post /\ r.ext = wk[w].ext /\ r.seen = wk[w].seen
      BY <1>0 DEF WorkerStates
    <3> HIDE DEF r
    <3>3. UpWorker(r, live')
      BY <1>0, <2>2, <3>2 DEF UpWorker, UpRow, UpPage
    <3>4. QED
      BY <2>2, <3>1, <3>3
  <2>3. QED
    BY <1>1, <2>1, <2>2
<1>3. QED
  BY <1>0, <1>2, UpWorkerReplaced

\* The result of a job names a page, and the page is up.
LEMMA UpResult ==
  ASSUME MadeInv, UpInv, NEW w \in Workers, wk[w].pc \in {"called", "saved", "found"},
         NEW old
  PROVE  /\ Recorded(PageOf(w), old) # 0 /\ UpPage(Recorded(PageOf(w), old), live)
         /\ Recorded(PageOf(w), old) \in Nat
         /\ StatusOf(w) = "published"
<1>1. UpWorker(wk[w], live) /\ KeyOf(w) \in PublishKeys /\ wk[w] \in WorkerStates
  BY DEF MadeInv, TypeOK, UpInv, UpWorkers, HeldKeys
<1>2. PageOf(w) # 0 /\ UpPage(PageOf(w), live) /\ PageOf(w) \in Nat
  BY <1>1 DEF PageOf, UpWorker, UpPage, WorkerStates
<1>3. StatusOf(w) = "published"
  BY <1>1 DEF StatusOf, ResultStatus, IsUnpublish, PublishKeys
<1>4. QED
  BY <1>2, <1>3 DEF Recorded

LEMMA UpWorksJobs ==
  ASSUME MadeInv, UpInv, NEW w \in Workers, Works(w)
  PROVE  UpJobs'
<1>0. live \subseteq live' /\ UpJobs /\ \A k \in Keys : job[k] \in PublicationJobs
  BY UpWorksWorkers DEF MadeInv, TypeOK, UpInv
<1>1. CASE UNCHANGED job
  BY <1>0, <1>1, UpSame
<1>2. CASE SetProcessing(w)
  <2> DEFINE k == KeyOf(w)
             record == [job[k] EXCEPT !.status = "processing"]
  <2>1. job' = [job EXCEPT ![k] = record] /\ live' = live
    BY <1>2 DEF SetProcessing, MadeInv, TypeOK
  <2>2. k \in Keys => UpJob(record, live)
    BY <1>0 DEF UpJob, UpJobs, PublicationJobs
  <2> HIDE DEF k, record
  <2>3. QED
    BY <1>0, <2>1, <2>2, UpJobReplaced
<1>3. CASE SaveJob(w)
  <2> DEFINE k == KeyOf(w)
             status == StatusOf(w)
             ext == Recorded(PageOf(w), job[k].ext)
             record == [job[k] EXCEPT !.status = status, !.ext = ext]
  <2>1. job' = [job EXCEPT ![k] = record] /\ live' = live
    BY <1>3 DEF SaveJob, MadeInv, TypeOK
  <2>2. ext # 0 /\ UpPage(ext, live)
    BY <1>3, UpResult DEF SaveJob
  <2> HIDE DEF k, status, ext
  <2>3. k \in Keys => UpJob(record, live)
    BY <1>0, <2>2 DEF UpJob, PublicationJobs
  <2> HIDE DEF record
  <2>4. QED
    BY <1>0, <2>1, <2>3, UpJobReplaced
<1>4. QED
  BY <1>1, <1>2, <1>3
     DEF Works, TakeTask, QueueProject, LookUpPage, ApproveDraft, FindRow, SyncRow,
         MarkProject, ReadForVerify, RecordVerification, CompleteTask, FailTry, WorkerCrash,
         Queue

LEMMA UpWorksRows ==
  ASSUME MadeInv, UpInv, NEW w \in Workers, Works(w)
  PROVE  UpRows'
<1>0. /\ live \subseteq live' /\ UpRows /\ UpWorker(wk[w], live)
      /\ \A p \in Pubs : pub[p] \in Rows
  BY UpWorksWorkers DEF MadeInv, TypeOK, UpInv, UpWorkers
<1>1. CASE UNCHANGED pub
  BY <1>0, <1>1, UpSame
<1>2. CASE RecordVerification(w)
  <2> DEFINE p == wk[w].hit
             b == wk[w].seen.unpub
             row == [pub[p] EXCEPT !.unpub = b]
  <2>1. pub' = [pub EXCEPT ![p] = row] /\ live' = live
    BY <1>2 DEF RecordVerification, MadeInv, TypeOK
  <2>2. ~b
    BY <1>0 DEF UpWorker, UpRow
  <2> HIDE DEF b
  <2>3. p \in Pubs => UpRow(row, live)
    BY <1>0, <2>2 DEF UpRows, UpRow, Rows
  <2> HIDE DEF p, row
  <2>4. QED
    BY <1>0, <2>1, <2>3, UpRowReplaced
<1>3. CASE SyncRow(w)
  <2> DEFINE p == wk[w].hit
             seen == wk[w].seen
             status == StatusOf(w)
             page == PageOf(w)
             ext == Recorded(page, seen.ext)
             row == Synced(pub[p], seen, status, page)
  <2>1. pub' = [pub EXCEPT ![p] = row] /\ live' = live
    BY <1>3 DEF SyncRow, MadeInv, TypeOK
  <2>2. ext # 0 /\ UpPage(ext, live) /\ status = "published"
    BY <1>3, UpResult DEF SyncRow
  <2> HIDE DEF p, seen, status, page
  <2>3. row = [pub[p] EXCEPT !.status = "published", !.ext = ext, !.class = "none"]
    BY <2>2 DEF Synced
  <2> HIDE DEF ext, row
  <2>4. p \in Pubs => UpRow(row, live)
    BY <1>0, <2>2, <2>3 DEF UpRows, UpRow, Rows
  <2>5. QED
    BY <1>0, <2>1, <2>4, UpRowReplaced
<1>4. QED
  BY <1>1, <1>2, <1>3
     DEF Works, TakeTask, SetProcessing, QueueProject, LookUpPage, ApproveDraft, SaveJob,
         FindRow, MarkProject, ReadForVerify, CompleteTask, FailTry, WorkerCrash, Records

LEMMA UpWorksTasks ==
  ASSUME MadeInv, UpInv, NEW w \in Workers, Works(w)
  PROVE  UpTasks' /\ KeysKept /\ HeldKeys'
<1>0. /\ task \in [TaskIds -> Tasks] /\ wk \in [Workers -> WorkerStates] /\ HeldKeys
      /\ \A v \in Workers : wk[v].pc # "idle" => wk[v].task \in TaskIds
      /\ live \subseteq live'
  BY UpWorksWorkers DEF MadeInv, TypeOK, UpInv, WorkersFine, WorkerFine
<1>1. CASE TakeTask(w)
  <2>1. PICK t \in TaskIds :
          /\ task[t].job.state = "waiting"
          /\ task' = [task EXCEPT ![t].job = Taken(task[t].job)]
          /\ wk' = [wk EXCEPT ![w] = [WorkerIdle EXCEPT !.pc = "taken", !.task = t]]
    BY <1>0, <1>1 DEF TakeTask
  <2>2. task[t].job # NoJob
    BY <2>1 DEF NoJob
  <2>3. UpTasks' /\ KeysKept
    BY <2>1, <2>2, UpTaskChanged
  <2>4. task[t].key \in PublishKeys
    BY <2>2 DEF UpInv, UpTasks, UpTask
  <2>5. \A v \in Workers : wk'[v].pc # "idle" =>
          wk'[v].task \in TaskIds /\ task[wk'[v].task].key \in PublishKeys
    <3>1. TAKE v \in Workers
    <3>2. CASE v = w
      BY <1>0, <2>1, <2>4, <3>2 DEF WorkerIdle
    <3>3. CASE v # w
      BY <1>0, <2>1, <3>3 DEF HeldKeys, KeyOf
    <3>4. QED
      BY <3>2, <3>3
  <2>6. QED
    BY <2>3, <2>5 DEF KeysKept, HeldKeys, KeyOf
<1>2. ASSUME ~ TakeTask(w) PROVE UpTasks' /\ KeysKept /\ HeldKeys'
  <2>1. UpTasks' /\ KeysKept
    <3>1. CASE UNCHANGED task
      BY <1>0, <3>1, UpSame DEF KeysKept
    <3>2. CASE CompleteTask(w) \/ FailTry(w)
      <4> DEFINE t == wk[w].task
      <4>1. PICK j : task' = [task EXCEPT ![t].job = j]
        BY <3>2 DEF CompleteTask, FailTry
      <4>2. wk[w].pc # "idle"
        BY <3>2 DEF CompleteTask, FailTry
      <4>3. t \in TaskIds /\ task[t].key \in PublishKeys
        BY <4>2, HeldTaskMade DEF KeyOf
      <4> HIDE DEF t
      <4>4. QED
        BY <4>1, <4>3, UpTaskChanged
    <3>3. QED
      BY <1>2, <3>1, <3>2
         DEF Works, SetProcessing, QueueProject, LookUpPage, ApproveDraft, SaveJob, FindRow,
             SyncRow, MarkProject, ReadForVerify, RecordVerification, WorkerCrash, Queue
  <2>2. \A v \in Workers : wk'[v].pc # "idle" => wk[v].pc # "idle" /\ wk'[v].task = wk[v].task
    <3>0. WorkerIdle.pc = "idle"
      BY DEF WorkerIdle
    <3>1. CASE CompleteTask(w) \/ FailTry(w) \/ WorkerCrash(w)
      BY <1>0, <3>0, <3>1 DEF CompleteTask, FailTry, WorkerCrash
    <3>2. CASE \/ SetProcessing(w) \/ QueueProject(w) \/ ApproveDraft(w) \/ SaveJob(w)
               \/ LookUpPage(w) \/ SyncRow(w) \/ MarkProject(w) \/ RecordVerification(w)
      BY <1>0, <3>2 DEF SetProcessing, QueueProject, ApproveDraft, SaveJob, LookUpPage, SyncRow,
         MarkProject, RecordVerification, WorkerStates
    <3>3. CASE FindRow(w) \/ ReadForVerify(w)
      <4>1. PICK pc, p :
              /\ wk[w].pc # "idle"
              /\ \/ wk' = [wk EXCEPT ![w].pc = pc]
                 \/ wk' = [wk EXCEPT ![w].pc = pc, ![w].hit = p, ![w].seen = pub[p]]
        BY <3>3 DEF FindRow, ReadForVerify
      <4>2. QED
        BY <1>0, <4>1 DEF WorkerStates
    <3>4. QED
      BY <1>2, <3>1, <3>2, <3>3 DEF Works
  <2>3. QED
    BY <1>0, <2>1, <2>2 DEF KeysKept, HeldKeys, KeyOf
<1>3. QED
  BY <1>1, <1>2

LEMMA UpWorks ==
  ASSUME MadeInv, UpInv, NEW w \in Workers,
         Works(w) \/ (CallSite(w) /\ faults' = faults)
  PROVE  UpInv'
<1>1. CASE Works(w)
  <2>1. UpProcs'
    <3>1. proc' = proc
      BY <1>1 DEF Works, TakeTask, SetProcessing, QueueProject, LookUpPage, ApproveDraft,
         SaveJob, FindRow, SyncRow, MarkProject, ReadForVerify, RecordVerification,
         CompleteTask, FailTry, WorkerCrash
    <3>2. QED
      BY <3>1 DEF UpInv, UpProcs
  <2>2. QED
    BY <1>1, <2>1, UpWorksWorkers, UpWorksJobs, UpWorksRows, UpWorksTasks DEF UpInv
<1>2. CASE CallSite(w) /\ faults' = faults
  <2>1. UNCHANGED <<pub, job, proc, task>>
    BY <1>2 DEF CallSite, Records, Queue
  <2>2. live \subseteq live' /\ UpWorkers'
    BY <1>2, UpCallSite
  <2>3. \A v \in Workers : wk'[v].pc # "idle" => wk[v].pc # "idle" /\ wk'[v].task = wk[v].task
    BY <1>2 DEF CallSite, PageMade, PageChanged, MadeInv, TypeOK, WorkerStates
  <2>4. HeldKeys'
    BY <2>1, <2>3 DEF UpInv, HeldKeys, KeyOf
  <2>5. QED
    BY <2>1, <2>2, <2>4, UpSame DEF UpInv
<1>3. QED
  BY <1>1, <1>2

LEMMA UpHandler ==
  ASSUME MadeInv, UpInv, NEW h \in handlers, HandlerStep(h)
  PROVE  UpInv'
<1>0. UNCHANGED <<task, proc, wk, live>>
  BY DEF HandlerStep, FailJob, FailProject, FindFailedRow, FailRow, Queue
<1>1. UpJobs'
  <2>1. CASE UNCHANGED job
    BY <1>0, <2>1, UpSame
  <2>2. CASE FailJob(h)
    <3> DEFINE k == task[h.task].key
               record == [job[k] EXCEPT !.status = "failed"]
    <3>1. job' = [job EXCEPT ![k] = record]
      BY <2>2 DEF FailJob, MadeInv, TypeOK
    <3>2. k \in Keys => UpJob(record, live)
      BY DEF MadeInv, TypeOK, UpInv, UpJobs, UpJob, PublicationJobs
    <3> HIDE DEF k, record
    <3>3. QED
      BY <1>0, <3>1, <3>2, UpJobReplaced DEF UpInv
  <2>3. QED
    BY <2>1, <2>2 DEF HandlerStep, FailProject, FindFailedRow, FailRow, Queue
<1>2. UpRows'
  <2>1. CASE UNCHANGED pub
    BY <1>0, <2>1, UpSame
  <2>2. CASE FailRow(h)
    <3> DEFINE p == h.hit
               row == AttemptFailed(pub[p], h.retries, h.class, MaxRetries)
    <3>1. pub' = [pub EXCEPT ![p] = row]
      BY <2>2 DEF FailRow
    <3>2. p \in Pubs => pub[p] \in Rows /\ UpRow(pub[p], live)
      BY DEF MadeInv, TypeOK, UpInv, UpRows
    <3>3. p \in Pubs => UpRow(row, live')
      BY <1>0, <3>2, UpRowUpdates
    <3> HIDE DEF p, row
    <3>4. QED
      BY <1>0, <3>1, <3>3, UpRowReplaced DEF UpInv
  <2>3. QED
    BY <2>1, <2>2 DEF HandlerStep, FailJob, FailProject, FindFailedRow, Records
<1>3. HeldKeys'
  BY <1>0 DEF UpInv, HeldKeys, KeyOf
<1>4. QED
  BY <1>0, <1>1, <1>2, <1>3, UpSame DEF UpInv

LEMMA UpQueue ==
  ASSUME MadeInv, UpInv, \/ \E t \in TaskIds : DelayOver(t)
                         \/ \E w \in Workers : RecoverStalled(w)
  PROVE  UpInv'
<1>0. UNCHANGED <<pub, job, proc, wk, live>>
  BY DEF DelayOver, RecoverStalled, Records, WorkerSide
<1>1. PICK t : /\ \E j : task' = [task EXCEPT ![t].job = j]
               /\ task[t].job.state \in {"delayed", "active"}
  BY DEF DelayOver, RecoverStalled
<1>2. UpTasks' /\ KeysKept
  <2>1. PICK j : task' = [task EXCEPT ![t].job = j]
    BY <1>1
  <2>2. task[t].job # NoJob
    BY <1>1 DEF NoJob
  <2>3. QED
    BY <2>1, <2>2, UpTaskChanged
<1>3. HeldKeys'
  <2>1. \A w \in Workers : wk[w].pc # "idle" => wk[w].task \in TaskIds
    BY DEF MadeInv, WorkersFine, WorkerFine
  <2>2. QED
    BY <1>0, <1>2, <2>1 DEF UpInv, HeldKeys, KeyOf, KeysKept
<1>4. QED
  BY <1>0, <1>2, <1>3, UpSame DEF UpInv

\* A call's answer that is lost stays lost.
LEMMA FaultsKept ==
  ASSUME MadeInv, [Next]_vars
  PROVE  faults' = 0 => faults = 0
<1>0. faults \in Nat
  BY DEF MadeInv, TypeOK
<1>1. UNCHANGED faults \/ faults' = faults + 1
  BY ZenonT(60) DEF Next, vars, SchedulerStep, RequestStep, EnqueueStep, TaskStep, HandlerStep, Claim,
         NextClaimed, ReadAndGate, CatchEnqueue, TickAborted, RequestAborted, ArchiveRow,
         ArchiveProject, ChooseAction, FindJob, ResetJob, CreateJob,
         SetProjectQueued, LinkRow, CheckQueue, AddTask, FindDurable, CreateDurable,
         MarkDurable, EnqueueError, RequestThrows, RequestRow, RequestWrite, RequestEnqueue,
         RequestPost, RequestArchive, TakeTask, SetProcessing, QueueProject, LookUpPage,
         CallSite, PageMade, PageChanged, ApproveDraft, SaveJob, FindRow, SyncRow, MarkProject,
         ReadForVerify, RecordVerification, CompleteTask, FailTry, WorkerCrash, RecoverStalled,
         DelayOver, FailJob, FailProject, FindFailedRow, FailRow, Fault
<1>2. QED
  BY <1>0, <1>1

LEMMA UpNext ==
  ASSUME StaysUp, MadeInv, [Next]_vars, faults = 0 => UpInv
  PROVE  faults' = 0 => UpInv'
<1> SUFFICES ASSUME faults' = 0 PROVE UpInv'
  OBVIOUS
<1>0. UpInv /\ faults' = faults
  BY FaultsKept
<1>1. ASSUME NEW s \in Schedulers, SchedulerStep(s) \/ EnqueueError(s) \/ TickAborted(s)
      PROVE  UpInv'
  <2>1. s \in Procs
    BY DEF Procs
  <2>2. Claim(s) \/ NextClaimed(s) \/ TickAborted(s) \/ Enqueuing(s)
    BY <1>1 DEF SchedulerStep, Enqueuing
  <2>3. QED
    BY <1>0, <2>1, <2>2, UpScheduler, UpEnqueuing
<1>2. ASSUME NEW r \in Requests,
             \/ RequestRow(r) \/ RequestPost(r) \/ RequestArchive(r)
             \/ RequestStep(r) \/ EnqueueError(r) \/ RequestAborted(r)
      PROVE  UpInv'
  <2>1. r \in Procs
    BY DEF Procs
  <2>2. ~ RequestEnqueue(r)
    BY <1>0, <2>1 DEF RequestEnqueue, UpInv, UpProcs, UpProc
  <2>3. Enqueuing(r)
    BY <1>2, <2>2 DEF RequestStep, Enqueuing
  <2>4. QED
    BY <1>0, <2>1, <2>3, UpEnqueuing
<1>3. ASSUME NEW w \in Workers, TakeTask(w) \/ TaskStep(w) \/ RecoverStalled(w) \/ WorkerCrash(w)
      PROVE  UpInv'
  <2>1. CallSite(w) \/ Works(w) \/ RecoverStalled(w)
    BY <1>3 DEF TaskStep, Works
  <2>2. QED
    BY <1>0, <2>1, UpWorks, UpQueue
<1>4. ASSUME UNCHANGED vars PROVE UpInv'
  BY <1>0, <1>4, UpSame DEF vars, UpInv, HeldKeys, KeyOf
<1>5. QED
  BY <1>0, <1>1, <1>2, <1>3, <1>4, UpHandler, UpQueue DEF Next

\* A row that says published names a page that readers can open: however many
\* schedulers, requests and workers there are, whatever POST publish and the
\* edits of operators do, and whoever crashes or is refused, as long as no
\* answer of a call was lost and nobody asks for a page to be taken down or to
\* become a draft (syncDurablePublication, getLatestPublishedExternalId).
THEOREM PublishedRowStaysUp == StaysUp => (Spec => [](faults = 0 => PublishedRowIsUp))
<1> SUFFICES ASSUME StaysUp PROVE Spec => [](faults = 0 => PublishedRowIsUp)
  OBVIOUS
<1> DEFINE I == MadeInv /\ (faults = 0 => UpInv)
<1>1. Init => I
  BY MadeInit, UpInit
<1>2. I /\ [Next]_vars => I'
  BY MadeNext, UpNext
<1>3. I => (faults = 0 => PublishedRowIsUp)
  BY DEF MadeInv, TypeOK, UpInv, UpRows, UpRow, UpPage, PublishedRowIsUp
<1>4. QED
  BY <1>1, <1>2, <1>3, PTL DEF Spec

-----------------------------------------------------------------------------
(* One carrier for a job.  With one scheduler, operators who only edit, and  *)
(* no crash and no lost answer, a job that waits or is processed is in the   *)
(* hands of exactly one: the scheduler that adds its task, the task, or the  *)
(* listener of the task that failed.                                         *)

OneEnqueuer ==
  /\ \A s, t \in Schedulers : s = t
  /\ Operations \subseteq {"reschedule", "cancel", "retry", "delete"}
  /\ BullAttempts = 1

Calm == crashes = 0 /\ faults = 0

\* The steps between the write of the job and the addition of its task.
Adding == {"project", "linkq", "check", "add"}

\* The status of the job whose task a worker holds, by the worker's step.
JobAt(pc) ==
  IF pc = "taken" THEN "queued"
  ELSE IF pc \in {"processing", "queued", "ready", "drafted", "called"} THEN "processing"
  ELSE "published"

Holds(w, t) == wk[w].pc # "idle" /\ wk[w].task = t

NoLive(k) == \A t \in TaskIds : task[t].key = k => ~TaskLive(t)

KeyOfHandler(h) == task[h.task].key

LiveTasks == \A t \in TaskIds : TaskLive(t) =>
  /\ task[t].key \in Keys
  /\ \/ task[t].job.state = "waiting" /\ job[task[t].key].status = "queued"
     \/ task[t].job.state = "active" /\ \E w \in Workers : Holds(w, t)

OneTaskPerKey == \A t, u \in TaskIds :
  TaskLive(t) /\ TaskLive(u) /\ task[t].key = task[u].key => t = u

Holders == \A w \in Workers : wk[w].pc # "idle" =>
  /\ task[wk[w].task].job.state = "active"
  /\ job[KeyOf(w)].status = JobAt(wk[w].pc)

OneHolder == \A v, w \in Workers :
  wk[v].pc # "idle" /\ wk[w].pc # "idle" /\ wk[v].task = wk[w].task => v = w

Listeners == \A h \in handlers :
  /\ ~TaskLive(h.task) /\ KeyOfHandler(h) \in Keys
  /\ h.pc = "new" => job[KeyOfHandler(h)].status = "processing" /\ NoLive(KeyOfHandler(h))

OneListener == \A g, h \in handlers :
  g.pc = "new" /\ h.pc = "new" /\ KeyOfHandler(g) = KeyOfHandler(h) => g = h

Enqueuers == \A s \in Schedulers :
  /\ proc[s].op = "publish"
  /\ proc[s].pc \in Adding => job[proc[s].key].status = "queued" /\ NoLive(proc[s].key)
  /\ proc[s].pc = "reset" => job[proc[s].key].status = "failed"
  /\ proc[s].pc = "create" => job[proc[s].key].status = "none"

OnlyEdits == \A r \in Requests : proc[r].pc \in {"idle", "write", "done"}

Carried(k) ==
  \/ \E s \in Schedulers : proc[s].pc \in Adding /\ proc[s].key = k
  \/ \E t \in TaskIds : task[t].key = k /\ TaskLive(t)
  \/ \E h \in handlers : h.pc = "new" /\ KeyOfHandler(h) = k

WaitingCarried == \A k \in Keys : job[k].status \in {"queued", "processing"} => Carried(k)

NoneCanceled == \A k \in Keys : job[k].status # "canceled"

QueueInv ==
  /\ LiveTasks /\ OneTaskPerKey /\ Holders /\ OneHolder
  /\ Listeners /\ OneListener /\ Enqueuers /\ OnlyEdits
  /\ WaitingCarried /\ NoneCanceled

LEMMA QueueInit == Init => QueueInv
<1> SUFFICES ASSUME Init PROVE QueueInv
  OBVIOUS
<1>1. \A t \in TaskIds : ~TaskLive(t)
  BY DEF Init, TaskLive, JobLive, NoJob
<1>2. /\ \A w \in Workers : wk[w].pc = "idle"
      /\ \A x \in Procs : proc[x].pc = "idle" /\ proc[x].op = "publish"
      /\ Schedulers \subseteq Procs /\ Requests \subseteq Procs
      /\ handlers = {} /\ \A k \in Keys : job[k].status = "none"
  BY DEF Init, WorkerIdle, ProcIdle, Procs
<1>3. LiveTasks /\ OneTaskPerKey /\ Holders /\ OneHolder /\ Listeners /\ OneListener
  BY <1>1, <1>2 DEF LiveTasks, OneTaskPerKey, Holders, OneHolder, Listeners, OneListener
<1>4. Enqueuers /\ OnlyEdits /\ WaitingCarried /\ NoneCanceled
  BY <1>2 DEF Enqueuers, OnlyEdits, WaitingCarried, NoneCanceled, Adding
<1>5. QED
  BY <1>3, <1>4 DEF QueueInv

-----------------------------------------------------------------------------
(* The scheduler *)

LEMMA QueueTypes ==
  ASSUME MadeInv
  PROVE  /\ proc \in [Procs -> ProcStates] /\ wk \in [Workers -> WorkerStates]
         /\ task \in [TaskIds -> Tasks] /\ job \in [Keys -> PublicationJobs]
         /\ handlers \subseteq HandlerStates /\ rows \subseteq Pubs
         /\ Schedulers \subseteq Procs /\ Requests \subseteq Procs
         /\ \A w \in Workers : wk[w].pc # "idle" => wk[w].task \in TaskIds
         /\ \A h \in handlers : h.task \in TaskIds
  BY DEF MadeInv, TypeOK, Procs, WorkersFine, WorkerFine, HandlerStates

\* The scheduler goes on without a write to the job or to the queue.
LEMMA QueueSchedulerMoves ==
  ASSUME OneEnqueuer, MadeInv, QueueInv, UNCHANGED <<job, task, wk, handlers>>,
         NEW s \in Schedulers, NEW r, proc' = [proc EXCEPT ![s] = r],
         r.op = "publish",
         r.pc \in Adding <=> proc[s].pc \in Adding,
         r.pc \in Adding => r.key = proc[s].key,
         r.pc = "reset" => job[r.key].status = "failed",
         r.pc = "create" => job[r.key].status = "none"
  PROVE  QueueInv'
<1>0. /\ proc \in [Procs -> ProcStates] /\ s \in Procs
      /\ Schedulers \subseteq Procs /\ Requests \subseteq Procs
      /\ Schedulers \cap Requests = {}
      /\ \A t \in Schedulers : t = s
  BY QueueTypes, ConstantsAssumption DEF OneEnqueuer
<1>1. LiveTasks' /\ OneTaskPerKey' /\ Holders' /\ OneHolder' /\ Listeners' /\ OneListener'
      /\ NoneCanceled'
  BY DEF QueueInv, LiveTasks, OneTaskPerKey, Holders, OneHolder, Listeners, OneListener,
         NoneCanceled, TaskLive, Holds, KeyOf, KeyOfHandler, NoLive
<1>2. Enqueuers'
  BY <1>0 DEF QueueInv, Enqueuers, NoLive, TaskLive
<1>3. OnlyEdits'
  BY <1>0 DEF QueueInv, OnlyEdits
<1>4. WaitingCarried'
  <2> SUFFICES ASSUME NEW k \in Keys, job[k].status \in {"queued", "processing"}
               PROVE  Carried(k)'
    BY DEF WaitingCarried
  <2>1. Carried(k)
    BY DEF QueueInv, WaitingCarried
  <2>2. CASE proc[s].pc \in Adding /\ proc[s].key = k
    <3>1. proc'[s].pc \in Adding /\ proc'[s].key = k
      BY <1>0, <2>2
    <3>2. QED
      BY <3>1 DEF Carried
  <2>3. CASE \/ \E t \in TaskIds : task[t].key = k /\ TaskLive(t)
             \/ \E h \in handlers : h.pc = "new" /\ KeyOfHandler(h) = k
    BY <2>3 DEF Carried, TaskLive, KeyOfHandler
  <2>4. QED
    BY <1>0, <2>1, <2>2, <2>3 DEF Carried
<1>5. QED
  BY <1>1, <1>2, <1>3, <1>4 DEF QueueInv

\* A job that failed, or was never there, is in nobody's hands.
LEMMA NobodyCarries ==
  ASSUME MadeInv, QueueInv, NEW k \in Keys, job[k].status \in {"none", "failed"}
  PROVE  /\ NoLive(k)
         /\ \A h \in handlers : h.pc = "new" => KeyOfHandler(h) # k
         /\ \A w \in Workers : wk[w].pc # "idle" => KeyOf(w) # k
<1>1. \A w \in Workers : wk[w].pc # "idle" => KeyOf(w) # k
  BY DEF QueueInv, Holders, JobAt
<1>2. \A h \in handlers : h.pc = "new" => KeyOfHandler(h) # k
  BY DEF QueueInv, Listeners
<1>3. NoLive(k)
  BY <1>1, QueueTypes DEF QueueInv, LiveTasks, NoLive, Holds, KeyOf
<1>4. QED
  BY <1>1, <1>2, <1>3

\* The scheduler writes a job that nobody carries, and carries it from now on.
LEMMA QueueWritesJob ==
  ASSUME OneEnqueuer, MadeInv, QueueInv, UNCHANGED <<task, wk, handlers>>,
         NEW s \in Schedulers, NEW r, proc' = [proc EXCEPT ![s] = r],
         NEW record, NEW k \in Keys, job' = [job EXCEPT ![k] = record],
         proc[s].pc \notin Adding,
         job[k].status \in {"none", "failed"}, record.status = "queued",
         r.op = "publish", r.pc \in Adding, r.key = k
  PROVE  QueueInv'
<1>0. /\ proc \in [Procs -> ProcStates] /\ s \in Procs /\ job \in [Keys -> PublicationJobs]
      /\ Schedulers \subseteq Procs /\ Requests \subseteq Procs
      /\ Schedulers \cap Requests = {}
      /\ \A t \in Schedulers : t = s
      /\ \A w \in Workers : wk[w].pc # "idle" => wk[w].task \in TaskIds
      /\ \A h \in handlers : h.task \in TaskIds
  BY QueueTypes, ConstantsAssumption DEF OneEnqueuer
<1>1. /\ NoLive(k)
      /\ \A h \in handlers : h.pc = "new" => KeyOfHandler(h) # k
      /\ \A w \in Workers : wk[w].pc # "idle" => KeyOf(w) # k
  BY NobodyCarries
<1>2. /\ job'[k].status = "queued"
      /\ \A i \in Keys : i # k => job'[i] = job[i]
  BY <1>0
<1>3. OneTaskPerKey' /\ OneHolder' /\ OneListener'
  BY DEF QueueInv, OneTaskPerKey, OneHolder, OneListener, TaskLive, KeyOfHandler
<1>4. LiveTasks'
  BY <1>1, <1>2 DEF QueueInv, LiveTasks, NoLive, TaskLive, Holds
<1>5. Holders'
  <2> SUFFICES ASSUME NEW w \in Workers, wk[w].pc # "idle"
               PROVE  /\ task[wk[w].task].job.state = "active"
                      /\ job'[KeyOf(w)].status = JobAt(wk[w].pc)
    BY DEF Holders, KeyOf
  <2>1. /\ task[wk[w].task].job.state = "active"
        /\ job[KeyOf(w)].status = JobAt(wk[w].pc)
    BY DEF QueueInv, Holders
  <2>2. KeyOf(w) \in Keys
    BY <1>0, <2>1 DEF QueueInv, LiveTasks, TaskLive, JobLive, KeyOf
  <2>3. QED
    BY <1>1, <1>2, <2>1, <2>2
<1>6. Listeners'
  BY <1>1, <1>2 DEF QueueInv, Listeners, NoLive, TaskLive, KeyOfHandler
<1>7. Enqueuers'
  BY <1>0, <1>1, <1>2 DEF Enqueuers, NoLive, TaskLive, Adding
<1>8. OnlyEdits' /\ NoneCanceled'
  BY <1>0, <1>2 DEF QueueInv, OnlyEdits, NoneCanceled
<1>9. WaitingCarried'
  <2> SUFFICES ASSUME NEW i \in Keys, job'[i].status \in {"queued", "processing"}
               PROVE  Carried(i)'
    BY DEF WaitingCarried
  <2>1. CASE i = k
    BY <1>0, <2>1 DEF Carried
  <2>2. CASE i # k
    <3>1. Carried(i)
      BY <1>2, <2>2 DEF QueueInv, WaitingCarried
    <3>2. \/ \E t \in TaskIds : task[t].key = i /\ TaskLive(t)
          \/ \E h \in handlers : h.pc = "new" /\ KeyOfHandler(h) = i
      BY <1>0, <3>1 DEF Carried
    <3>3. QED
      BY <3>2 DEF Carried, TaskLive, KeyOfHandler
  <2>3. QED
    BY <2>1, <2>2
<1>10. QED
  BY <1>3, <1>4, <1>5, <1>6, <1>7, <1>8, <1>9 DEF QueueInv

\* The scheduler hands its job over to a task.
LEMMA QueueAddsTask ==
  ASSUME OneEnqueuer, MadeInv, UpInv, QueueInv, NEW s \in Schedulers, AddTask(s)
  PROVE  QueueInv'
<1>0. /\ proc \in [Procs -> ProcStates] /\ s \in Procs
      /\ task \in [TaskIds -> Tasks]
      /\ Schedulers \subseteq Procs /\ Requests \subseteq Procs
      /\ Schedulers \cap Requests = {}
      /\ \A t \in Schedulers : t = s
      /\ \A w \in Workers : wk[w].pc # "idle" => wk[w].task \in TaskIds
      /\ \A h \in handlers : h.task \in TaskIds
      /\ UNCHANGED <<job, wk, handlers>> /\ proc[s].pc = "add"
      /\ proc[s].op = "publish" /\ proc[s].pc \in Adding
      /\ None \notin Keys
  BY QueueTypes, ConstantsAssumption
     DEF OneEnqueuer, AddTask, WorkerSide, Adding, QueueInv, Enqueuers
<1>1. proc' = [proc EXCEPT ![s] = ProcIdle] /\ ProcIdle.pc = "idle" /\ ProcIdle.op = "publish"
  BY <1>0 DEF AddTask, Afterwards, ProcEnd, ProcIdle, PostOperations
<1>2. PICK k \in Keys : k = proc[s].key /\ job[k].status = "queued" /\ NoLive(k)
  BY <1>0 DEF UpInv, UpProcs, UpProc, Keyed, PublishKeys, Keys, QueueInv, Enqueuers
<1>3. PICK t \in TaskIds, new \in {Added(NoJob)} :
        task[t].key = None /\ task' = [task EXCEPT ![t] = [key |-> k, job |-> new]]
  BY <1>2 DEF AddTask, NewTask
<1>4. new.state = "waiting"
  BY DEF Added, NoJob
<1>5. /\ task'[t].key = k /\ task'[t].job.state = "waiting"
      /\ \A u \in TaskIds : u # t => task'[u] = task[u]
  BY <1>0, <1>3, <1>4
<1>6. /\ \A w \in Workers : wk[w].pc # "idle" => wk[w].task # t
      /\ \A h \in handlers : h.task # t
      /\ ~TaskLive(t)
  <2>1. ~TaskLive(t)
    BY <1>0, <1>3 DEF QueueInv, LiveTasks
  <2>2. \A h \in handlers : h.task # t
    BY <1>0, <1>3 DEF QueueInv, Listeners, KeyOfHandler
  <2>3. \A w \in Workers : wk[w].pc # "idle" => wk[w].task # t
    BY <2>1 DEF QueueInv, Holders, TaskLive, JobLive
  <2>4. QED
    BY <2>1, <2>2, <2>3
<1>7. \A u \in TaskIds : u # t => (TaskLive(u)' <=> TaskLive(u))
  BY <1>5 DEF TaskLive
<1>8. TaskLive(t)'
  BY <1>5 DEF TaskLive, JobLive
<1>9. LiveTasks'
  BY <1>0, <1>2, <1>5, <1>7 DEF QueueInv, LiveTasks, Holds
<1>10. OneTaskPerKey'
  BY <1>2, <1>5, <1>7 DEF QueueInv, OneTaskPerKey, NoLive
<1>11. Holders' /\ OneHolder' /\ OneListener'
  <2>1. \A w \in Workers : wk[w].pc # "idle" => task'[wk[w].task] = task[wk[w].task]
    BY <1>0, <1>5, <1>6
  <2>2. \A h \in handlers : task'[h.task] = task[h.task]
    BY <1>0, <1>5, <1>6
  <2>3. QED
    BY <1>0, <2>1, <2>2 DEF QueueInv, Holders, OneHolder, OneListener, KeyOf, KeyOfHandler
<1>12. Listeners'
  <2>1. \A h \in handlers : task'[h.task] = task[h.task] /\ (TaskLive(h.task)' <=> TaskLive(h.task))
    BY <1>0, <1>5, <1>6 DEF TaskLive
  <2>2. \A h \in handlers : h.pc = "new" => KeyOfHandler(h) # k
    BY <1>2 DEF QueueInv, Listeners
  <2>3. \A h \in handlers : h.pc = "new" => \A u \in TaskIds :
          task'[u].key = KeyOfHandler(h) => ~TaskLive(u)'
    BY <1>5, <1>7, <2>2 DEF QueueInv, Listeners, NoLive
  <2>4. \A h \in handlers : KeyOfHandler(h)' = KeyOfHandler(h)
    BY <2>1 DEF KeyOfHandler
  <2>5. QED
    BY <1>0, <2>1, <2>3, <2>4 DEF QueueInv, Listeners, NoLive
<1>13. Enqueuers' /\ OnlyEdits' /\ NoneCanceled'
  BY <1>0, <1>1 DEF QueueInv, Enqueuers, OnlyEdits, NoneCanceled, Adding
<1>14. WaitingCarried'
  <2> SUFFICES ASSUME NEW i \in Keys, job[i].status \in {"queued", "processing"}
               PROVE  Carried(i)'
    BY <1>0 DEF WaitingCarried
  <2>1. CASE i = k
    BY <1>5, <1>8, <2>1 DEF Carried
  <2>2. CASE i # k
    <3>1. Carried(i)
      BY DEF QueueInv, WaitingCarried
    <3>2. CASE \E u \in TaskIds : task[u].key = i /\ TaskLive(u)
      BY <1>5, <1>6, <1>7, <3>2 DEF Carried
    <3>3. CASE \E h \in handlers : h.pc = "new" /\ KeyOfHandler(h) = i
      BY <1>0, <1>5, <1>6, <3>3 DEF Carried, KeyOfHandler
    <3>4. QED
      BY <1>0, <1>2, <2>2, <3>1, <3>2, <3>3 DEF Carried
  <2>3. QED
    BY <2>1, <2>2
<1>15. QED
  BY <1>9, <1>10, <1>11, <1>12, <1>13, <1>14 DEF QueueInv

LEMMA QueueScheduler ==
  ASSUME OneEnqueuer, MadeInv, UpInv, QueueInv, NEW s \in Schedulers,
         SchedulerStep(s), faults' = faults
  PROVE  QueueInv'
<1>0. /\ s \in Procs /\ proc \in [Procs -> ProcStates] /\ proc[s] \in ProcStates
      /\ job \in [Keys -> PublicationJobs] /\ faults \in Nat
      /\ proc[s].op = "publish"
      /\ proc[s].pc \in Adding => job[proc[s].key].status = "queued" /\ NoLive(proc[s].key)
      /\ proc[s].pc = "reset" => job[proc[s].key].status = "failed"
      /\ proc[s].pc = "create" => job[proc[s].key].status = "none"
      /\ proc[s].pc \in Keyed => proc[s].key \in Keys
      /\ ProcEnd(s) = ProcIdle /\ ProcIdle.pc = "idle" /\ ProcIdle.op = "publish"
  BY QueueTypes DEF QueueInv, Enqueuers, UpInv, UpProcs, UpProc, PublishKeys, Keys, ProcEnd,
         ProcIdle, MadeInv, TypeOK
<1>1. CASE Claim(s)
  <2>1. UNCHANGED <<job, task, wk, handlers>> /\ proc' = [proc EXCEPT ![s] = proc[s]]
    BY <1>0, <1>1 DEF Claim, Queue, WorkerSide
  <2>2. QED
    BY <1>0, <2>1, QueueSchedulerMoves
<1>2. CASE NextClaimed(s)
  <2>1. UNCHANGED <<job, task, wk, handlers>> /\ proc[s].pc = "idle"
    BY <1>2 DEF NextClaimed, Queue, WorkerSide
  <2>2. PICK p : ReadAndGate(s, p)
    BY <1>2 DEF NextClaimed
  <2>3. PICK r : /\ proc' = [proc EXCEPT ![s] = r] /\ r.op = "publish"
                 /\ r.pc \in {"idle", "read", "blocked"}
    <3>1. CASE proc' = [proc EXCEPT ![s] = ProcIdle]
      BY <1>0, <3>1
    <3>2. ASSUME NEW pc \in {"read", "blocked"},
                 proc' = [proc EXCEPT ![s] = [@ EXCEPT !.pc = pc, !.pub = p]]
          PROVE  \E r : /\ proc' = [proc EXCEPT ![s] = r] /\ r.op = "publish"
                        /\ r.pc \in {"idle", "read", "blocked"}
      <4>1. Goes(s, pc)
        BY <1>0, <3>2, GoesForms
      <4>2. QED
        BY <1>0, <4>1 DEF Goes
    <3>3. QED
      BY <1>0, <2>2, <3>1, <3>2 DEF ReadAndGate, Fault
  <2>4. QED
    BY <2>1, <2>3, QueueSchedulerMoves DEF Adding
<1>3. CASE ChooseAction(s)
  <2>1. UNCHANGED <<job, task, wk, handlers>> /\ proc[s].pc = "read"
    BY <1>3 DEF ChooseAction, Queue, WorkerSide
  <2> DEFINE k == KeyOfRow(pub[proc[s].pub])
             r == [proc[s] EXCEPT !.pc = "find", !.key = k]
  <2>2. proc' = [proc EXCEPT ![s] = r]
    BY <1>0, <1>3 DEF ChooseAction
  <2> HIDE DEF k
  <2>3. r.pc = "find" /\ r.op = "publish"
    BY <1>0 DEF ProcStates
  <2> HIDE DEF r
  <2>4. QED
    BY <2>1, <2>2, <2>3, QueueSchedulerMoves DEF Adding
<1>4. CASE FindJob(s)
  <2> DEFINE k == proc[s].key
             status == job[k].status
             next == AfterFind("publish", status)
  <2>1. UNCHANGED <<job, task, wk, handlers>> /\ proc[s].pc = "find" /\ k \in Keys
    BY <1>0, <1>4 DEF FindJob, Queue, WorkerSide, Keyed
  <2>2. status \in JobStatus \ {"canceled"}
    BY <1>0, <2>1 DEF PublicationJobs, QueueInv, NoneCanceled
  <2>3. proc' = [proc EXCEPT ![s] =
                  IF next = "done" THEN ProcEnd(s) ELSE [proc[s] EXCEPT !.pc = next]]
    BY <1>0, <1>4 DEF FindJob
  <2>4. /\ next \in {"create", "link", "reset"}
        /\ next = "create" => status = "none"
        /\ next = "reset" => status = "failed"
    <3> HIDE DEF status
    <3>1. QED
      BY <2>2 DEF AfterFind, JobStatus, ByRow
  <2>5. \E r : proc' = [proc EXCEPT ![s] = r] /\ r.pc = next /\ r.op = proc[s].op
               /\ r.key = proc[s].key
    <3> HIDE DEF next
    <3>1. proc' = [proc EXCEPT ![s] = [proc[s] EXCEPT !.pc = next]]
      BY <2>3, <2>4
    <3>2. Goes(s, next)
      BY <1>0, <3>1, GoesForms
    <3>3. QED
      BY <3>2 DEF Goes
  <2>6. PICK r : proc' = [proc EXCEPT ![s] = r] /\ r.pc = next /\ r.op = proc[s].op
                 /\ r.key = proc[s].key
    BY <2>5
  <2> HIDE DEF next
  <2>7. QED
    BY <1>0, <2>1, <2>4, <2>6, QueueSchedulerMoves DEF Adding
<1>5. CASE ResetJob(s)
  <2> DEFINE k == proc[s].key
             record == [job[k] EXCEPT !.status = "queued"]
  <2>1. UNCHANGED <<task, wk, handlers>> /\ proc[s].pc = "reset" /\ k \in Keys
    BY <1>0, <1>5 DEF ResetJob, WorkerSide, Keyed
  <2>2. job' = [job EXCEPT ![k] = record] /\ record.status = "queued"
    BY <1>0, <1>5, <2>1 DEF ResetJob, PublicationJobs
  <2>3. proc' = [proc EXCEPT ![s].pc = "project"]
    BY <1>0, <1>5 DEF ResetJob, AfterWriteJob
  <2>4. PICK r : proc' = [proc EXCEPT ![s] = r] /\ r.pc = "project" /\ r.op = proc[s].op
                 /\ r.key = k
    <3>1. Goes(s, "project")
      BY <1>0, <2>3, GoesForms
    <3>2. QED
      BY <3>1 DEF Goes
  <2> HIDE DEF record
  <2>5. QED
    BY <1>0, <2>1, <2>2, <2>4, QueueWritesJob DEF Adding
<1>6. CASE CreateJob(s)
  <2> DEFINE k == proc[s].key
             born == 1 + Cardinality({i \in Keys : job[i].status # "none"})
             record == [status |-> "queued", ext |-> 0, born |-> born]
  <2>1. UNCHANGED <<task, wk, handlers>> /\ proc[s].pc = "create" /\ k \in Keys
        /\ job[k].status = "none"
    BY <1>0, <1>6 DEF CreateJob, WorkerSide, Keyed
  <2>2. job' = [job EXCEPT ![k] = record] /\ record.status = "queued"
    BY <1>6, <2>1 DEF CreateJob
  <2>3. proc' = [proc EXCEPT ![s].pc = "project", ![s].fresh = TRUE]
    BY <1>0, <1>6, <2>1 DEF CreateJob, AfterWriteJob
  <2>4. PICK r : proc' = [proc EXCEPT ![s] = r] /\ r.pc = "project" /\ r.op = proc[s].op
                 /\ r.key = k
    <3>1. Goes(s, "project")
      BY <1>0, <2>3, GoesForms
    <3>2. QED
      BY <3>1 DEF Goes
  <2> HIDE DEF record
  <2>5. QED
    BY <1>0, <2>1, <2>2, <2>4, QueueWritesJob DEF Adding
<1>7. CASE SetProjectQueued(s) \/ (LinkRow(s) /\ proc[s].pc = "linkq")
           \/ (CheckQueue(s) /\ ~InQueue(proc[s].key))
  <2>1. UNCHANGED <<job, task, wk, handlers>> /\ proc[s].pc \in Adding
    BY <1>7 DEF SetProjectQueued, LinkRow, CheckQueue, Queue, WorkerSide, Adding
  <2>2. \E pc \in {"linkq", "check", "add"} :
          \/ proc' = [proc EXCEPT ![s].pc = pc]
          \/ proc' = [proc EXCEPT ![s] = [@ EXCEPT !.pc = pc]]
    BY <1>7 DEF SetProjectQueued, LinkRow, CheckQueue
  <2>3. PICK r : proc' = [proc EXCEPT ![s] = r] /\ r.pc \in {"linkq", "check", "add"}
                 /\ r.op = proc[s].op /\ r.key = proc[s].key
    <3>1. \E pc \in {"linkq", "check", "add"} : Goes(s, pc)
      BY <1>0, <2>2, GoesForms
    <3>2. QED
      BY <3>1 DEF Goes
  <2>4. QED
    BY <1>0, <2>1, <2>3, QueueSchedulerMoves DEF Adding
<1>8. CASE (LinkRow(s) /\ proc[s].pc = "link") \/ CatchEnqueue(s)
  <2>1. UNCHANGED <<job, task, wk, handlers>> /\ proc[s].pc \in {"link", "blocked", "error"}
        /\ proc' = [proc EXCEPT ![s] = ProcIdle]
    BY <1>0, <1>8 DEF LinkRow, CatchEnqueue, Queue, WorkerSide
  <2>2. QED
    BY <1>0, <2>1, QueueSchedulerMoves DEF Adding
<1>9. ~ (CheckQueue(s) /\ InQueue(proc[s].key))
  BY <1>0 DEF CheckQueue, InQueue, NoLive, Adding
<1>10. CASE AddTask(s)
  BY <1>0, <1>10, QueueAddsTask
<1>11. QED
  BY <1>1, <1>2, <1>3, <1>4, <1>5, <1>6, <1>7, <1>8, <1>9, <1>10
     DEF SchedulerStep, EnqueueStep, LinkRow

-----------------------------------------------------------------------------
(* Requests, workers and listeners *)

\* Operators who edit write rows and nothing else.
LEMMA RequestEdits ==
  ASSUME OneEnqueuer, MadeInv, UpInv, QueueInv, NEW r \in Requests, RequestStep(r) \/ RequestRow(r)
  PROVE  /\ UNCHANGED <<job, task, wk, handlers, pages>>
         /\ \E q : proc' = [proc EXCEPT ![r] = q] /\ q.pc \in {"write", "done"}
         /\ RequestRow(r) \/ RequestWrite(r)
         /\ r \in Procs /\ r \notin Schedulers
<1>0. /\ r \in Procs /\ proc \in [Procs -> ProcStates] /\ proc[r] \in ProcStates
      /\ Schedulers \subseteq Procs /\ Requests \subseteq Procs
      /\ r \notin Schedulers
      /\ proc[r].pc \in {"idle", "write", "done"}
      /\ proc[r].op # "unpublish"
  BY QueueTypes, ConstantsAssumption
     DEF QueueInv, OnlyEdits, UpInv, UpProcs, UpProc, StayingOps, MadeInv, TypeOK
<1>1. CASE RequestRow(r)
  <2>1. PICK op, p :
          proc' = [proc EXCEPT ![r] =
                    [@ EXCEPT !.pc = "write", !.op = op, !.pub = p, !.seen = pub[p]]]
    BY <1>1 DEF RequestRow
  <2> DEFINE q == [proc[r] EXCEPT !.pc = "write", !.op = op, !.pub = p, !.seen = pub[p]]
  <2>2. proc' = [proc EXCEPT ![r] = q] /\ q.pc = "write"
    BY <1>0, <2>1 DEF ProcStates
  <2> HIDE DEF q
  <2>3. QED
    BY <1>0, <1>1, <2>2 DEF RequestRow, Queue, WorkerSide
<1>2. CASE RequestWrite(r)
  <2>1. ProcEnd(r).pc = "done"
    BY <1>0 DEF ProcEnd, ProcIdle
  <2>2. proc' = [proc EXCEPT ![r] = ProcEnd(r)]
    BY <1>0, <1>2 DEF RequestWrite
  <2>3. QED
    BY <1>0, <1>2, <2>1, <2>2 DEF RequestWrite, Queue, WorkerSide
<1>3. QED
  BY <1>0, <1>1, <1>2
     DEF RequestStep, RequestEnqueue, EnqueueStep, ChooseAction, FindJob, ResetJob,
         CreateJob, SetProjectQueued, LinkRow, CheckQueue, AddTask, FindDurable,
         CreateDurable, MarkDurable, RequestThrows, ArchiveRow, ArchiveProject

LEMMA QueueRequest ==
  ASSUME OneEnqueuer, MadeInv, UpInv, QueueInv, NEW r \in Requests, RequestStep(r) \/ RequestRow(r)
  PROVE  QueueInv'
<1>0. /\ r \in Procs /\ proc \in [Procs -> ProcStates]
      /\ Schedulers \subseteq Procs /\ Requests \subseteq Procs
      /\ r \notin Schedulers
  BY QueueTypes, ConstantsAssumption
<1>1. UNCHANGED <<job, task, wk, handlers>>
  BY RequestEdits
<1>2. PICK q : proc' = [proc EXCEPT ![r] = q] /\ q.pc \in {"write", "done"}
  BY RequestEdits
<1>3. LiveTasks' /\ OneTaskPerKey' /\ Holders' /\ OneHolder' /\ Listeners' /\ OneListener'
      /\ NoneCanceled'
  BY <1>1 DEF QueueInv, LiveTasks, OneTaskPerKey, Holders, OneHolder, Listeners, OneListener,
              NoneCanceled, TaskLive, Holds, KeyOf, KeyOfHandler, NoLive
<1>4. \A s \in Schedulers : proc'[s] = proc[s]
  BY <1>0, <1>2
<1>5. Enqueuers'
  BY <1>1, <1>4 DEF QueueInv, Enqueuers, NoLive, TaskLive
<1>6. OnlyEdits'
  BY <1>0, <1>2 DEF QueueInv, OnlyEdits
<1>7. WaitingCarried'
  BY <1>1, <1>4 DEF QueueInv, WaitingCarried, Carried, TaskLive, KeyOfHandler
<1>8. QED
  BY <1>3, <1>5, <1>6, <1>7 DEF QueueInv

\* A worker goes on, with a job that keeps its status.
LEMMA QueueWorkerMoves ==
  ASSUME MadeInv, QueueInv, UNCHANGED <<job, task, handlers, proc>>,
         NEW w \in Workers, NEW r, wk' = [wk EXCEPT ![w] = r],
         wk[w].pc # "idle", r.pc # "idle", r.task = wk[w].task,
         JobAt(r.pc) = JobAt(wk[w].pc)
  PROVE  QueueInv'
<1>0. wk \in [Workers -> WorkerStates]
  BY QueueTypes
<1>1. /\ \A v \in Workers : wk'[v].pc # "idle" <=> wk[v].pc # "idle"
      /\ \A v \in Workers : wk[v].pc # "idle" =>
           wk'[v].task = wk[v].task /\ JobAt(wk'[v].pc) = JobAt(wk[v].pc)
  BY <1>0
<1>2. LiveTasks' /\ OneTaskPerKey' /\ Holders' /\ OneHolder'
  BY <1>1 DEF QueueInv, LiveTasks, OneTaskPerKey, Holders, OneHolder, TaskLive, Holds, KeyOf
<1>3. Listeners' /\ OneListener' /\ NoneCanceled' /\ Enqueuers' /\ OnlyEdits'
  BY DEF QueueInv, Listeners, OneListener, NoneCanceled, Enqueuers, OnlyEdits, TaskLive,
         KeyOfHandler, NoLive
<1>4. WaitingCarried'
  BY DEF QueueInv, WaitingCarried, Carried, TaskLive, KeyOfHandler
<1>5. QED
  BY <1>2, <1>3, <1>4 DEF QueueInv

\* Nobody but its worker carries the job of a task that is being worked on.
LEMMA HolderAlone ==
  ASSUME MadeInv, QueueInv, NEW w \in Workers, wk[w].pc # "idle"
  PROVE  /\ wk[w].task \in TaskIds /\ TaskLive(wk[w].task) /\ KeyOf(w) \in Keys
         /\ task[wk[w].task].job.state = "active" /\ job[KeyOf(w)].status = JobAt(wk[w].pc)
         /\ \A t \in TaskIds : TaskLive(t) /\ task[t].key = KeyOf(w) => t = wk[w].task
         /\ \A v \in Workers : wk[v].pc # "idle" /\ KeyOf(v) = KeyOf(w) => v = w
         /\ \A h \in handlers : h.pc = "new" => KeyOfHandler(h) # KeyOf(w)
         /\ \A s \in Schedulers : proc[s].pc \in Adding => proc[s].key # KeyOf(w)
<1>1. /\ wk[w].task \in TaskIds
      /\ task[wk[w].task].job.state = "active" /\ job[KeyOf(w)].status = JobAt(wk[w].pc)
  BY QueueTypes DEF QueueInv, Holders
<1>2. TaskLive(wk[w].task)
  BY <1>1 DEF TaskLive, JobLive
<1>3. KeyOf(w) \in Keys
  BY <1>1, <1>2 DEF QueueInv, LiveTasks, KeyOf
<1>4. \A t \in TaskIds : TaskLive(t) /\ task[t].key = KeyOf(w) => t = wk[w].task
  BY <1>1, <1>2 DEF QueueInv, OneTaskPerKey, KeyOf
<1>5. \A v \in Workers : wk[v].pc # "idle" /\ KeyOf(v) = KeyOf(w) => v = w
  <2>1. TAKE v \in Workers
  <2>2. HAVE wk[v].pc # "idle" /\ KeyOf(v) = KeyOf(w)
  <2>3. wk[v].task \in TaskIds /\ TaskLive(wk[v].task)
    BY <2>2, QueueTypes DEF QueueInv, Holders, TaskLive, JobLive
  <2>4. wk[v].task = wk[w].task
    BY <1>4, <2>2, <2>3 DEF KeyOf
  <2>5. QED
    BY <2>2, <2>4 DEF QueueInv, OneHolder
<1>6. ~ NoLive(KeyOf(w))
  BY <1>1, <1>2 DEF NoLive, KeyOf
<1>7. QED
  BY <1>1, <1>2, <1>3, <1>4, <1>5, <1>6 DEF QueueInv, Listeners, Enqueuers

\* ... and it may write the job.
LEMMA QueueWorkerWrites ==
  ASSUME MadeInv, UpInv, QueueInv, UNCHANGED <<task, handlers, proc>>,
         NEW w \in Workers, NEW r, wk' = [wk EXCEPT ![w] = r],
         NEW record, job' = [job EXCEPT ![KeyOf(w)] = record],
         wk[w].pc \in {"taken", "called"}, r.pc # "idle", r.task = wk[w].task,
         record.status = JobAt(r.pc), record.status \in {"processing", "published"}
  PROVE  QueueInv'
<1>0. /\ wk \in [Workers -> WorkerStates] /\ job \in [Keys -> PublicationJobs]
      /\ \A v \in Workers : wk[v].pc # "idle" => wk[v].task \in TaskIds
  BY QueueTypes
<1> DEFINE k == KeyOf(w)
<1>1. /\ wk[w].task \in TaskIds /\ TaskLive(wk[w].task) /\ k \in Keys
      /\ task[wk[w].task].job.state = "active" /\ job[k].status \in {"queued", "processing"}
      /\ \A t \in TaskIds : TaskLive(t) /\ task[t].key = k => t = wk[w].task
      /\ \A v \in Workers : wk[v].pc # "idle" /\ KeyOf(v) = k => v = w
      /\ \A h \in handlers : h.pc = "new" => KeyOfHandler(h) # k
      /\ \A s \in Schedulers : proc[s].pc \in Adding => proc[s].key # k
      /\ wk[w].pc # "idle" /\ task[wk[w].task].key = k
  BY HolderAlone DEF JobAt, KeyOf
<1> HIDE DEF k
<1>2. job'[k] = record /\ \A i \in Keys : i # k => job'[i] = job[i]
  BY <1>0, <1>1 DEF k
<1>3. /\ \A v \in Workers : wk'[v].pc # "idle" <=> wk[v].pc # "idle"
      /\ \A v \in Workers : wk[v].pc # "idle" => wk'[v].task = wk[v].task
      /\ wk'[w] = r /\ \A v \in Workers : v # w => wk'[v] = wk[v]
  BY <1>0, <1>1
<1>4. OneTaskPerKey' /\ OneHolder' /\ OneListener' /\ OnlyEdits'
  BY <1>3 DEF QueueInv, OneTaskPerKey, OneHolder, OneListener, OnlyEdits, TaskLive, KeyOfHandler
<1>5. LiveTasks'
  <2> SUFFICES ASSUME NEW t \in TaskIds, TaskLive(t)
               PROVE  /\ task[t].key \in Keys
                      /\ \/ task[t].job.state = "waiting" /\ job'[task[t].key].status = "queued"
                         \/ task[t].job.state = "active" /\ \E v \in Workers : Holds(v, t)'
    BY DEF LiveTasks, TaskLive
  <2>1. /\ task[t].key \in Keys
        /\ \/ task[t].job.state = "waiting" /\ job[task[t].key].status = "queued"
           \/ task[t].job.state = "active" /\ \E v \in Workers : Holds(v, t)
    BY DEF QueueInv, LiveTasks
  <2>2. CASE task[t].job.state = "active"
    <3>1. \E v \in Workers : Holds(v, t)'
      BY <1>3, <2>1, <2>2 DEF Holds
    <3>2. QED
      BY <2>1, <2>2, <3>1
  <2>3. CASE task[t].job.state = "waiting"
    <3>1. task[t].key # k
      BY <1>1, <2>3
    <3>2. QED
      BY <1>2, <2>1, <2>3, <3>1
  <2>4. QED
    BY <2>1, <2>2, <2>3
<1>6. Holders'
  <2> SUFFICES ASSUME NEW v \in Workers, wk'[v].pc # "idle"
               PROVE  /\ task[wk'[v].task].job.state = "active"
                      /\ job'[task[wk'[v].task].key].status = JobAt(wk'[v].pc)
    BY DEF Holders, KeyOf
  <2>1. CASE v = w
    BY <1>1, <1>2, <1>3, <2>1
  <2>2. CASE v # w
    <3>1. wk[v].pc # "idle" /\ KeyOf(v) \in Keys /\ KeyOf(v) # k
          /\ task[wk[v].task].job.state = "active" /\ job[KeyOf(v)].status = JobAt(wk[v].pc)
      BY <1>1, <1>3, <2>2, HolderAlone
    <3>2. QED
      BY <1>2, <1>3, <2>2, <3>1 DEF KeyOf
  <2>3. QED
    BY <2>1, <2>2
<1>7. Listeners'
  BY <1>1, <1>2 DEF QueueInv, Listeners, TaskLive, KeyOfHandler, NoLive
<1>8. Enqueuers'
  <2> SUFFICES ASSUME NEW s \in Schedulers
               PROVE /\ proc[s].op = "publish"
                     /\ proc[s].pc \in Adding => job'[proc[s].key].status = "queued" /\ NoLive(proc[s].key)
                     /\ proc[s].pc = "reset" => job'[proc[s].key].status = "failed"
                     /\ proc[s].pc = "create" => job'[proc[s].key].status = "none"
    BY DEF Enqueuers, NoLive, TaskLive
  <2>1. /\ proc[s].op = "publish"
        /\ proc[s].pc \in Adding => job[proc[s].key].status = "queued" /\ NoLive(proc[s].key)
        /\ proc[s].pc = "reset" => job[proc[s].key].status = "failed"
        /\ proc[s].pc = "create" => job[proc[s].key].status = "none"
    BY DEF QueueInv, Enqueuers
  <2>2. proc[s].pc \in Keyed => proc[s].key \in Keys
    BY QueueTypes DEF UpInv, UpProcs, UpProc, PublishKeys, Keys
  <2>3. QED
    BY <1>1, <1>2, <2>1, <2>2 DEF Adding, Keyed
<1>9. NoneCanceled'
  BY <1>2 DEF QueueInv, NoneCanceled
<1>10. WaitingCarried'
  <2> SUFFICES ASSUME NEW i \in Keys, job'[i].status \in {"queued", "processing"}
               PROVE  Carried(i)'
    BY DEF WaitingCarried
  <2>1. CASE i = k
    BY <1>1, <2>1 DEF Carried, TaskLive
  <2>2. CASE i # k
    BY <1>2, <2>2 DEF QueueInv, WaitingCarried, Carried, TaskLive, KeyOfHandler
  <2>3. QED
    BY <2>1, <2>2
<1>11. QED
  BY <1>4, <1>5, <1>6, <1>7, <1>8, <1>9, <1>10 DEF QueueInv

\* A task that nobody works on is taken by a worker that has none.
LEMMA QueueTakesTask ==
  ASSUME MadeInv, QueueInv, NEW w \in Workers, TakeTask(w)
  PROVE  QueueInv'
<1>0. /\ wk \in [Workers -> WorkerStates] /\ task \in [TaskIds -> Tasks]
      /\ \A v \in Workers : wk[v].pc # "idle" => wk[v].task \in TaskIds
      /\ \A h \in handlers : h.task \in TaskIds
      /\ UNCHANGED <<job, proc, handlers>> /\ wk[w].pc = "idle"
  BY QueueTypes DEF TakeTask
<1>1. PICK t \in TaskIds :
        /\ task[t].job.state = "waiting"
        /\ task' = [task EXCEPT ![t].job = Taken(task[t].job)]
        /\ wk' = [wk EXCEPT ![w] = [WorkerIdle EXCEPT !.pc = "taken", !.task = t]]
  BY <1>0 DEF TakeTask
<1>2. wk'[w].pc = "taken" /\ wk'[w].task = t /\ \A v \in Workers : v # w => wk'[v] = wk[v]
  BY <1>0, <1>1 DEF WorkerIdle
<1>3. /\ \A u \in TaskIds : task'[u].key = task[u].key
      /\ task'[t].job.state = "active"
      /\ \A u \in TaskIds : u # t => task'[u] = task[u]
  BY <1>0, <1>1, JobsOfTasks DEF Taken, Tasks, Jobs
<1>4. /\ TaskLive(t) /\ \A u \in TaskIds : TaskLive(u)' <=> TaskLive(u)
      /\ job[task[t].key].status = "queued"
      /\ \A v \in Workers : wk[v].pc # "idle" => wk[v].task # t
  BY <1>1, <1>3 DEF TaskLive, JobLive, QueueInv, LiveTasks, Holders
<1>5. OneTaskPerKey' /\ NoneCanceled' /\ OnlyEdits'
  BY <1>0, <1>3, <1>4 DEF QueueInv, OneTaskPerKey, NoneCanceled, OnlyEdits
<1>6. LiveTasks'
  <2> SUFFICES ASSUME NEW u \in TaskIds, TaskLive(u)
               PROVE  /\ task'[u].key \in Keys
                      /\ \/ task'[u].job.state = "waiting" /\ job[task'[u].key].status = "queued"
                         \/ task'[u].job.state = "active" /\ \E v \in Workers : Holds(v, u)'
    BY <1>0, <1>4 DEF LiveTasks
  <2>1. CASE u = t
    BY <1>2, <1>3, <2>1 DEF QueueInv, LiveTasks, Holds
  <2>2. CASE u # t
    <3>1. \A v \in Workers : Holds(v, u) => Holds(v, u)'
      BY <1>0, <1>2 DEF Holds
    <3>2. QED
      BY <1>3, <2>2, <3>1 DEF QueueInv, LiveTasks
  <2>3. QED
    BY <2>1, <2>2
<1>7. Holders'
  <2> SUFFICES ASSUME NEW v \in Workers, wk'[v].pc # "idle"
               PROVE  /\ task'[wk'[v].task].job.state = "active"
                      /\ job[task'[wk'[v].task].key].status = JobAt(wk'[v].pc)
    BY <1>0 DEF Holders, KeyOf
  <2>1. CASE v = w
    BY <1>2, <1>3, <1>4, <2>1 DEF JobAt
  <2>2. CASE v # w
    BY <1>0, <1>2, <1>3, <1>4, <2>2 DEF QueueInv, Holders, KeyOf
  <2>3. QED
    BY <2>1, <2>2
<1>8. OneHolder'
  BY <1>0, <1>2, <1>4 DEF QueueInv, OneHolder
<1>9. \A h \in handlers : KeyOfHandler(h)' = KeyOfHandler(h)
  BY <1>0, <1>3 DEF KeyOfHandler
<1>10. \A k : NoLive(k) => NoLive(k)'
  BY <1>3, <1>4 DEF NoLive
<1>11. Listeners' /\ OneListener'
  BY <1>0, <1>4, <1>9, <1>10 DEF QueueInv, Listeners, OneListener
<1>12. Enqueuers'
  BY <1>0, <1>10 DEF QueueInv, Enqueuers
<1>13. WaitingCarried'
  <2> SUFFICES ASSUME NEW k \in Keys, Carried(k) PROVE Carried(k)'
    BY <1>0 DEF QueueInv, WaitingCarried
  <2>1. QED
    BY <1>0, <1>3, <1>4, <1>9 DEF Carried
<1>14. QED
  BY <1>5, <1>6, <1>7, <1>8, <1>11, <1>12, <1>13 DEF QueueInv

\* A worker lets go of its task, which is over.  If that was a failure, the
\* listener takes the job over.
LEMMA QueueEndsTask ==
  ASSUME MadeInv, QueueInv, NEW w \in Workers, wk[w].pc # "idle",
         UNCHANGED <<job, proc>>, wk' = [wk EXCEPT ![w] = WorkerIdle],
         NEW j, task' = [task EXCEPT ![wk[w].task].job = j], j.state \in {"done", "dead"},
         NEW new, new \subseteq {h \in HandlerStates : h.task = wk[w].task /\ h.pc = "new"},
         handlers' = handlers \cup new,
         \A g, h \in new : g = h,
         \/ new = {} /\ JobAt(wk[w].pc) = "published"
         \/ new # {} /\ JobAt(wk[w].pc) = "processing"
  PROVE  QueueInv'
<1>0. /\ wk \in [Workers -> WorkerStates] /\ task \in [TaskIds -> Tasks]
      /\ \A v \in Workers : wk[v].pc # "idle" => wk[v].task \in TaskIds
      /\ \A h \in handlers : h.task \in TaskIds
      /\ WorkerIdle.pc = "idle"
  BY QueueTypes DEF WorkerIdle
<1>1. PICK t \in TaskIds : t = wk[w].task
  BY <1>0
<1>2. PICK k \in Keys : k = task[t].key /\ k = KeyOf(w)
  BY <1>1, HolderAlone DEF KeyOf
<1>3. /\ TaskLive(t) /\ job[k].status = JobAt(wk[w].pc)
      /\ \A u \in TaskIds : TaskLive(u) /\ task[u].key = k => u = t
      /\ \A h \in handlers : h.pc = "new" => KeyOfHandler(h) # k
      /\ \A s \in Schedulers : proc[s].pc \in Adding => proc[s].key # k
  BY <1>1, <1>2, HolderAlone
<1>4. wk'[w].pc = "idle" /\ \A v \in Workers : v # w => wk'[v] = wk[v]
  BY <1>0
<1>5. /\ \A u \in TaskIds : task'[u].key = task[u].key
      /\ task'[t].job = j
      /\ \A u \in TaskIds : u # t => task'[u] = task[u]
  BY <1>0, <1>1 DEF Tasks
<1>6. /\ ~TaskLive(t)' /\ \A u \in TaskIds : u # t => (TaskLive(u)' <=> TaskLive(u))
      /\ \A u \in TaskIds : TaskLive(u)' => TaskLive(u)
  BY <1>5 DEF TaskLive, JobLive
<1>7. OneTaskPerKey' /\ NoneCanceled' /\ OnlyEdits' /\ OneHolder'
  BY <1>4, <1>5, <1>6 DEF QueueInv, OneTaskPerKey, NoneCanceled, OnlyEdits, OneHolder
<1>8. LiveTasks'
  <2> SUFFICES ASSUME NEW u \in TaskIds, u # t, TaskLive(u)
               PROVE  /\ task[u].key \in Keys
                      /\ \/ task[u].job.state = "waiting" /\ job[task[u].key].status = "queued"
                         \/ task[u].job.state = "active" /\ \E v \in Workers : Holds(v, u)'
    BY <1>5, <1>6 DEF LiveTasks
  <2>1. \A v \in Workers : Holds(v, u) => Holds(v, u)'
    BY <1>1, <1>4 DEF Holds
  <2>2. QED
    BY <2>1 DEF QueueInv, LiveTasks
<1>9. Holders'
  <2> SUFFICES ASSUME NEW v \in Workers, v # w, wk[v].pc # "idle"
               PROVE  /\ task'[wk[v].task].job.state = "active"
                      /\ job[task'[wk[v].task].key].status = JobAt(wk[v].pc)
    BY <1>4 DEF Holders, KeyOf
  <2>1. wk[v].task \in TaskIds /\ wk[v].task # t
    BY <1>0, <1>1 DEF QueueInv, OneHolder
  <2>2. QED
    BY <1>5, <2>1 DEF QueueInv, Holders, KeyOf
<1>10. \A h \in handlers : KeyOfHandler(h)' = KeyOfHandler(h)
  BY <1>0, <1>5 DEF KeyOfHandler
<1>11. \A h \in new : h.task = t /\ KeyOfHandler(h)' = k /\ h.pc = "new"
  BY <1>1, <1>2, <1>5 DEF KeyOfHandler
<1>12. (\A i : NoLive(i) => NoLive(i)') /\ NoLive(k)'
  BY <1>3, <1>5, <1>6 DEF NoLive
<1>13. Listeners'
  <2> SUFFICES ASSUME NEW h \in handlers \cup new
               PROVE  /\ ~TaskLive(h.task)' /\ KeyOfHandler(h)' \in Keys
                      /\ h.pc = "new" => job[KeyOfHandler(h)'].status = "processing"
                                         /\ NoLive(KeyOfHandler(h))'
    BY DEF Listeners
  <2>1. CASE h \in new
    <3>1. job[k].status = "processing"
      BY <1>3, <2>1
    <3>2. QED
      BY <1>6, <1>11, <1>12, <2>1, <3>1
  <2>2. CASE h \in handlers
    BY <1>0, <1>6, <1>10, <1>12, <2>2 DEF QueueInv, Listeners
  <2>3. QED
    BY <2>1, <2>2
<1>14. OneListener'
  <2>1. \A g \in handlers, h \in new : ~ (g.pc = "new" /\ KeyOfHandler(g)' = KeyOfHandler(h)')
    BY <1>3, <1>10, <1>11
  <2>2. QED
    BY <1>10, <2>1 DEF QueueInv, OneListener
<1>15. Enqueuers'
  BY <1>12 DEF QueueInv, Enqueuers
<1>16. WaitingCarried'
  <2> SUFFICES ASSUME NEW i \in Keys, job[i].status \in {"queued", "processing"}
               PROVE  Carried(i)'
    BY DEF WaitingCarried
  <2>1. CASE i = k
    <3>1. new # {}
      BY <1>3, <2>1
    <3>2. QED
      BY <1>11, <2>1, <3>1 DEF Carried
  <2>2. CASE i # k
    <3>1. Carried(i)
      BY DEF QueueInv, WaitingCarried
    <3>2. CASE \E u \in TaskIds : task[u].key = i /\ TaskLive(u)
      BY <1>2, <1>5, <1>6, <2>2, <3>2 DEF Carried
    <3>3. CASE \E h \in handlers : h.pc = "new" /\ KeyOfHandler(h) = i
      BY <1>10, <3>3 DEF Carried
    <3>4. CASE \E s \in Schedulers : proc[s].pc \in Adding /\ proc[s].key = i
      BY <3>4 DEF Carried
    <3>5. QED
      BY <3>1, <3>2, <3>3, <3>4 DEF Carried
  <2>3. QED
    BY <2>1, <2>2
<1>17. QED
  BY <1>7, <1>8, <1>9, <1>13, <1>14, <1>15, <1>16 DEF QueueInv

LEMMA QueueWorker ==
  ASSUME OneEnqueuer, MadeInv, UpInv, QueueInv, NEW w \in Workers,
         TakeTask(w) \/ TaskStep(w), faults' = faults
  PROVE  QueueInv'
<1>0. /\ wk \in [Workers -> WorkerStates] /\ wk[w] \in WorkerStates
      /\ task \in [TaskIds -> Tasks] /\ job \in [Keys -> PublicationJobs] /\ faults \in Nat
      /\ rows \subseteq Pubs
  BY QueueTypes DEF MadeInv, TypeOK
<1>1. CASE TakeTask(w)
  BY <1>1, QueueTakesTask
<1>2. CASE \/ QueueProject(w) \/ LookUpPage(w) \/ CallSite(w) \/ ApproveDraft(w) \/ FindRow(w)
           \/ SyncRow(w) \/ MarkProject(w) \/ ReadForVerify(w) \/ RecordVerification(w)
  <2>1. UNCHANGED <<job, task, handlers, proc>>
    BY <1>2 DEF QueueProject, LookUpPage, CallSite, ApproveDraft, FindRow, SyncRow, MarkProject,
       ReadForVerify, RecordVerification, Records, Queue
  <2>2. PICK pc \in WorkerSteps \ {"idle"} :
          /\ wk[w].pc # "idle" /\ JobAt(pc) = JobAt(wk[w].pc)
          /\ \/ wk' = [wk EXCEPT ![w].pc = pc]
             \/ \E n : wk' = [wk EXCEPT ![w].pc = pc, ![w].ext = n]
             \/ \E n : wk' = [wk EXCEPT ![w].pc = pc, ![w].post = n]
             \/ wk' = [wk EXCEPT ![w].pc = pc, ![w].hit = None]
             \/ \E p : wk' = [wk EXCEPT ![w].pc = pc, ![w].hit = p, ![w].seen = pub[p]]
    <3>1. CASE QueueProject(w) \/ LookUpPage(w) \/ ApproveDraft(w)
      BY <3>1 DEF QueueProject, LookUpPage, ApproveDraft, WorkerSteps, JobAt
    <3>2. CASE CallSite(w)
      <4>1. wk[w].pc = "ready"
        BY <3>2 DEF CallSite
      <4>2. \E pc \in {"drafted", "called"} :
              \/ wk' = [wk EXCEPT ![w].pc = pc]
              \/ \E n : wk' = [wk EXCEPT ![w].pc = pc, ![w].post = n]
        BY <3>2 DEF CallSite, PageMade, PageChanged
      <4>3. QED
        BY <4>1, <4>2 DEF WorkerSteps, JobAt
    <3>3. CASE SyncRow(w) \/ MarkProject(w) \/ RecordVerification(w)
      BY <3>3 DEF SyncRow, MarkProject, RecordVerification, WorkerSteps, JobAt
    <3>4. CASE FindRow(w) \/ ReadForVerify(w)
      BY <3>4 DEF FindRow, ReadForVerify, WorkerSteps, JobAt
    <3>5. QED
      BY <1>2, <3>1, <3>2, <3>3, <3>4
  <2>3. PICK r : wk' = [wk EXCEPT ![w] = r] /\ r.pc = pc /\ r.task = wk[w].task
    <3> DEFINE Goal == \E r : wk' = [wk EXCEPT ![w] = r] /\ r.pc = pc /\ r.task = wk[w].task
    <3>1. CASE wk' = [wk EXCEPT ![w].pc = pc]
      <4> DEFINE r == [wk[w] EXCEPT !.pc = pc]
      <4>1. wk' = [wk EXCEPT ![w] = r] /\ r.pc = pc /\ r.task = wk[w].task
        BY <1>0, <3>1 DEF WorkerStates
      <4> HIDE DEF r
      <4>2. QED
        BY <4>1
    <3>2. ASSUME NEW n, wk' = [wk EXCEPT ![w].pc = pc, ![w].ext = n] PROVE Goal
      <4> DEFINE r == [wk[w] EXCEPT !.pc = pc, !.ext = n]
      <4>1. wk' = [wk EXCEPT ![w] = r] /\ r.pc = pc /\ r.task = wk[w].task
        BY <1>0, <3>2 DEF WorkerStates
      <4> HIDE DEF r
      <4>2. QED
        BY <4>1
    <3>3. ASSUME NEW n, wk' = [wk EXCEPT ![w].pc = pc, ![w].post = n] PROVE Goal
      <4> DEFINE r == [wk[w] EXCEPT !.pc = pc, !.post = n]
      <4>1. wk' = [wk EXCEPT ![w] = r] /\ r.pc = pc /\ r.task = wk[w].task
        BY <1>0, <3>3 DEF WorkerStates
      <4> HIDE DEF r
      <4>2. QED
        BY <4>1
    <3>4. CASE wk' = [wk EXCEPT ![w].pc = pc, ![w].hit = None]
      <4> DEFINE r == [wk[w] EXCEPT !.pc = pc, !.hit = None]
      <4>1. wk' = [wk EXCEPT ![w] = r] /\ r.pc = pc /\ r.task = wk[w].task
        BY <1>0, <3>4 DEF WorkerStates
      <4> HIDE DEF r
      <4>2. QED
        BY <4>1
    <3>5. ASSUME NEW p, wk' = [wk EXCEPT ![w].pc = pc, ![w].hit = p, ![w].seen = pub[p]]
          PROVE  Goal
      <4> DEFINE r == [wk[w] EXCEPT !.pc = pc, !.hit = p, !.seen = pub[p]]
      <4>1. wk' = [wk EXCEPT ![w] = r] /\ r.pc = pc /\ r.task = wk[w].task
        BY <1>0, <3>5 DEF WorkerStates
      <4> HIDE DEF r
      <4>2. QED
        BY <4>1
    <3>6. QED
      BY <2>2, <3>1, <3>2, <3>3, <3>4, <3>5
  <2>4. QED
    BY <2>1, <2>2, <2>3, QueueWorkerMoves
<1>3. CASE SetProcessing(w)
  <2> DEFINE k == KeyOf(w)
             record == [job[k] EXCEPT !.status = "processing"]
             r == [wk[w] EXCEPT !.pc = "processing"]
  <2>1. UNCHANGED <<task, handlers, proc>> /\ wk[w].pc = "taken"
    BY <1>3 DEF SetProcessing
  <2>2. k \in Keys
    BY <2>1, HolderAlone
  <2>3. job' = [job EXCEPT ![k] = record] /\ record.status = "processing"
    BY <1>0, <1>3, <2>2 DEF SetProcessing, PublicationJobs
  <2>4. wk' = [wk EXCEPT ![w] = r] /\ r.pc = "processing" /\ r.task = wk[w].task
    BY <1>0, <1>3 DEF SetProcessing, WorkerStates
  <2> HIDE DEF record, r
  <2>5. QED
    BY <2>1, <2>3, <2>4, QueueWorkerWrites DEF JobAt
<1>4. CASE SaveJob(w)
  <2> DEFINE k == KeyOf(w)
             ext == Recorded(PageOf(w), job[k].ext)
             record == [job[k] EXCEPT !.status = "published", !.ext = ext]
             r == [wk[w] EXCEPT !.pc = "saved"]
  <2>1. UNCHANGED <<task, handlers, proc>> /\ wk[w].pc = "called"
    BY <1>4 DEF SaveJob
  <2>2. k \in Keys /\ StatusOf(w) = "published"
    BY <2>1, HolderAlone, UpResult
  <2>3. job' = [job EXCEPT ![k] = record] /\ record.status = "published"
    BY <1>0, <1>4, <2>2 DEF SaveJob, PublicationJobs
  <2>4. wk' = [wk EXCEPT ![w] = r] /\ r.pc = "saved" /\ r.task = wk[w].task
    BY <1>0, <1>4 DEF SaveJob, WorkerStates
  <2> HIDE DEF record, r
  <2>5. QED
    BY <2>1, <2>3, <2>4, QueueWorkerWrites DEF JobAt
<1>5. CASE CompleteTask(w)
  <2> DEFINE j == Completed(task[wk[w].task].job)
             new == {}
  <2>1. UNCHANGED <<job, proc>> /\ wk[w].pc = "finished" /\ handlers' = handlers \cup new
        /\ wk' = [wk EXCEPT ![w] = WorkerIdle] /\ JobAt(wk[w].pc) = "published"
    BY <1>5 DEF CompleteTask, JobAt
  <2>2. wk[w].task \in TaskIds
    BY <2>1, HolderAlone
  <2>3. task' = [task EXCEPT ![wk[w].task].job = j] /\ j.state = "done"
    BY <1>0, <1>5, <2>2, JobsOfTasks DEF CompleteTask, Completed, Jobs
  <2>4. /\ new = {} /\ \A g, h \in new : g = h
        /\ new \subseteq {h \in HandlerStates : h.task = wk[w].task /\ h.pc = "new"}
    OBVIOUS
  <2> HIDE DEF j, new
  <2>5. wk[w].pc # "idle"
    BY <2>1
  <2>6. QED
    BY <2>1, <2>3, <2>4, <2>5, QueueEndsTask
<1>6. CASE FailTry(w)
  <2> DEFINE t == wk[w].task
             j == TryFailed(task[t].job, BullAttempts)
  <2>1. UNCHANGED <<job, proc>> /\ wk[w].pc \in {"ready", "drafted"}
        /\ wk' = [wk EXCEPT ![w] = WorkerIdle]
    BY <1>0, <1>6 DEF FailTry, Fault
  <2>2. t \in TaskIds
    BY <2>1, HolderAlone
  <2>3. task' = [task EXCEPT ![t].job = j] /\ j.state = "dead"
    <3>1. task[t].job \in Jobs /\ task[t].job.tries \in Nat
      BY <2>2, JobsOfTasks DEF Jobs
    <3>2. j.state = "dead"
      BY <3>1 DEF TryFailed, OneEnqueuer, Jobs
    <3>3. QED
      BY <1>0, <1>6, <2>2, <3>2 DEF FailTry
  <2>4. PICK h : /\ h \in HandlerStates /\ h.task = t /\ h.pc = "new"
                 /\ handlers' = handlers \cup {h}
    <3>1. PICK class \in {"transient", "permanent"} :
            handlers' = handlers \cup {NewHandler(t, class, w)}
      BY <1>6 DEF FailTry
    <3>2. NewHandler(t, class, w).task = t /\ NewHandler(t, class, w).pc = "new"
      BY DEF NewHandler
    <3>3. QED
      BY <2>2, <3>1, <3>2, NewHandlerType
  <2>5. JobAt(wk[w].pc) = "processing"
    BY <2>1 DEF JobAt
  <2> DEFINE new == {h}
  <2>6. /\ new # {} /\ \A f, g \in new : f = g
        /\ new \subseteq {f \in HandlerStates : f.task = wk[w].task /\ f.pc = "new"}
        /\ handlers' = handlers \cup new
    BY <2>4
  <2> HIDE DEF j, new
  <2>7. wk[w].pc # "idle"
    BY <2>1
  <2>8. QED
    BY <2>1, <2>3, <2>5, <2>6, <2>7, QueueEndsTask
<1>7. QED
  BY <1>1, <1>2, <1>3, <1>4, <1>5, <1>6 DEF TaskStep

\* The queue's timers have nothing to do: no task is delayed or without a worker.
LEMMA QueueTimers ==
  ASSUME MadeInv, QueueInv
  PROVE  /\ \A t \in TaskIds : ~ DelayOver(t)
         /\ \A w \in Workers : ~ RecoverStalled(w)
  BY DEF QueueInv, LiveTasks, TaskLive, JobLive, Holds, DelayOver, RecoverStalled

\* A listener that has written the job no longer carries it.
LEMMA QueueListenerMoves ==
  ASSUME MadeInv, QueueInv, UNCHANGED <<job, task, wk, proc>>, NEW h \in handlers, h.pc # "new",
         NEW next, handlers' = (handlers \ {h}) \cup next,
         \A g \in next : g.task = h.task /\ g.pc # "new"
  PROVE  QueueInv'
<1>1. LiveTasks' /\ OneTaskPerKey' /\ Holders' /\ OneHolder' /\ Enqueuers' /\ OnlyEdits'
      /\ NoneCanceled'
  BY DEF QueueInv, LiveTasks, OneTaskPerKey, Holders, OneHolder, Enqueuers, OnlyEdits,
         NoneCanceled, TaskLive, Holds, KeyOf, NoLive
<1>2. \A g \in next : KeyOfHandler(g) = KeyOfHandler(h)
  BY DEF KeyOfHandler
<1>3. Listeners' /\ OneListener'
  BY <1>2 DEF QueueInv, Listeners, OneListener, TaskLive, KeyOfHandler, NoLive
<1>4. WaitingCarried'
  BY DEF QueueInv, WaitingCarried, Carried, TaskLive, KeyOfHandler
<1>5. QED
  BY <1>1, <1>3, <1>4 DEF QueueInv

LEMMA QueueFailsJob ==
  ASSUME MadeInv, UpInv, QueueInv, NEW h \in handlers, FailJob(h)
  PROVE  QueueInv'
<1>0. /\ job \in [Keys -> PublicationJobs] /\ h \in HandlerStates /\ h.pc = "new"
      /\ UNCHANGED <<task, wk, proc>>
      /\ Schedulers \subseteq Procs
      /\ \A g \in handlers : g.task \in TaskIds
  BY QueueTypes DEF FailJob
<1>1. PICK k \in Keys : k = KeyOfHandler(h)
  BY DEF QueueInv, Listeners
<1>2. PICK g : /\ handlers' = (handlers \ {h}) \cup {g}
               /\ g.task = h.task /\ g.pc = "job"
  <2> DEFINE g == [h EXCEPT !.pc = "job"]
  <2>1. handlers' = (handlers \ {h}) \cup {g} /\ g.task = h.task /\ g.pc = "job"
    BY <1>0 DEF FailJob, HandlerStates
  <2> HIDE DEF g
  <2>2. QED
    BY <2>1
<1>3. /\ job'[k].status = "failed" /\ \A i \in Keys : i # k => job'[i] = job[i]
  BY <1>0, <1>1 DEF FailJob, KeyOfHandler, PublicationJobs
<1>4. /\ job[k].status = "processing" /\ NoLive(k)
      /\ \A f \in handlers : f.pc = "new" /\ KeyOfHandler(f) = k => f = h
      /\ KeyOfHandler(g) = k
  BY <1>0, <1>1, <1>2 DEF QueueInv, Listeners, OneListener, KeyOfHandler
<1>5. OneTaskPerKey' /\ OneHolder' /\ OnlyEdits'
  BY <1>0 DEF QueueInv, OneTaskPerKey, OneHolder, OnlyEdits, TaskLive
<1>6. LiveTasks'
  BY <1>0, <1>3, <1>4 DEF QueueInv, LiveTasks, TaskLive, Holds, NoLive
<1>7. Holders'
  <2> SUFFICES ASSUME NEW w \in Workers, wk[w].pc # "idle"
               PROVE  /\ task[wk[w].task].job.state = "active"
                      /\ job'[KeyOf(w)].status = JobAt(wk[w].pc)
    BY <1>0 DEF Holders, KeyOf
  <2>1. KeyOf(w) \in Keys /\ KeyOf(w) # k
    BY <1>0, <1>1, HolderAlone
  <2>2. QED
    BY <1>3, <2>1 DEF QueueInv, Holders
<1>8. Listeners'
  <2> SUFFICES ASSUME NEW f \in (handlers \ {h}) \cup {g}
               PROVE  /\ ~TaskLive(f.task) /\ KeyOfHandler(f) \in Keys
                      /\ f.pc = "new" => job'[KeyOfHandler(f)].status = "processing"
                                         /\ NoLive(KeyOfHandler(f))
    BY <1>0, <1>2 DEF Listeners, TaskLive, KeyOfHandler, NoLive
  <2>1. CASE f = g
    BY <1>1, <1>2, <1>4, <2>1 DEF QueueInv, Listeners
  <2>2. CASE f \in handlers \ {h}
    BY <1>3, <1>4, <2>2 DEF QueueInv, Listeners
  <2>3. QED
    BY <2>1, <2>2
<1>9. OneListener'
  BY <1>0, <1>2 DEF QueueInv, OneListener, KeyOfHandler
<1>10. Enqueuers'
  <2> SUFFICES ASSUME NEW s \in Schedulers
               PROVE /\ proc[s].op = "publish"
                     /\ proc[s].pc \in Adding => job'[proc[s].key].status = "queued" /\ NoLive(proc[s].key)
                     /\ proc[s].pc = "reset" => job'[proc[s].key].status = "failed"
                     /\ proc[s].pc = "create" => job'[proc[s].key].status = "none"
    BY <1>0 DEF Enqueuers, NoLive, TaskLive
  <2>1. proc[s].pc \in Keyed => proc[s].key \in Keys
    BY <1>0 DEF UpInv, UpProcs, UpProc, PublishKeys, Keys
  <2>2. QED
    BY <1>3, <1>4, <2>1 DEF QueueInv, Enqueuers, Adding, Keyed
<1>11. NoneCanceled'
  BY <1>3 DEF QueueInv, NoneCanceled
<1>12. WaitingCarried'
  <2> SUFFICES ASSUME NEW i \in Keys, job'[i].status \in {"queued", "processing"}
               PROVE  Carried(i)'
    BY DEF WaitingCarried
  <2>1. i # k /\ job[i].status \in {"queued", "processing"}
    BY <1>3
  <2>2. Carried(i)
    BY <2>1 DEF QueueInv, WaitingCarried
  <2>3. QED
    BY <1>0, <1>1, <1>2, <2>1, <2>2 DEF Carried, TaskLive, KeyOfHandler
<1>13. QED
  BY <1>5, <1>6, <1>7, <1>8, <1>9, <1>10, <1>11, <1>12 DEF QueueInv

LEMMA QueueListener ==
  ASSUME MadeInv, UpInv, QueueInv, NEW h \in handlers, HandlerStep(h)
  PROVE  QueueInv'
<1>0. h \in HandlerStates
  BY QueueTypes
<1>1. CASE FailJob(h)
  BY <1>1, QueueFailsJob
<1>2. CASE FailProject(h) \/ FindFailedRow(h) \/ FailRow(h)
  <2>1. UNCHANGED <<job, task, wk, proc>> /\ h.pc # "new"
    BY <1>2 DEF FailProject, FindFailedRow, FailRow, Queue
  <2>2. PICK next : /\ handlers' = (handlers \ {h}) \cup next
                    /\ \A g \in next : g.task = h.task /\ g.pc # "new"
    <3>1. CASE handlers' = handlers \ {h}
      <4> DEFINE next == {}
      <4>1. /\ handlers' = (handlers \ {h}) \cup next
            /\ \A g \in next : g.task = h.task /\ g.pc # "new"
        BY <3>1
      <4> HIDE DEF next
      <4>2. QED
        BY <4>1
    <3>2. CASE handlers' = (handlers \ {h}) \cup {[h EXCEPT !.pc = "project"]}
      <4> DEFINE next == {[h EXCEPT !.pc = "project"]}
      <4>1. /\ handlers' = (handlers \ {h}) \cup next
            /\ \A g \in next : g.task = h.task /\ g.pc # "new"
        BY <1>0, <3>2 DEF HandlerStates
      <4> HIDE DEF next
      <4>2. QED
        BY <4>1
    <3>3. ASSUME NEW p,
                 handlers' = (handlers \ {h}) \cup
                   {[h EXCEPT !.pc = "read", !.hit = p, !.retries = pub[p].retries]}
          PROVE  \E next : /\ handlers' = (handlers \ {h}) \cup next
                           /\ \A g \in next : g.task = h.task /\ g.pc # "new"
      <4> DEFINE next == {[h EXCEPT !.pc = "read", !.hit = p, !.retries = pub[p].retries]}
      <4>1. /\ handlers' = (handlers \ {h}) \cup next
            /\ \A g \in next : g.task = h.task /\ g.pc # "new"
        BY <1>0, <3>3 DEF HandlerStates
      <4> HIDE DEF next
      <4>2. QED
        BY <4>1
    <3>4. QED
      BY <1>2, <3>1, <3>2, <3>3 DEF FailProject, FindFailedRow, FailRow
  <2>3. QED
    BY <2>1, <2>2, QueueListenerMoves
<1>3. QED
  BY <1>1, <1>2 DEF HandlerStep

-----------------------------------------------------------------------------
(* The steps of a calm run *)

\* Those that neither crash nor lose an answer.
CalmStep ==
  \/ \E s \in Schedulers : SchedulerStep(s)
  \/ \E r \in Requests : RequestStep(r) \/ RequestRow(r)
  \/ \E w \in Workers : TakeTask(w) \/ TaskStep(w)
  \/ \E h \in handlers : HandlerStep(h)

LEMMA EditsStayUp == OneEnqueuer => StaysUp
  BY DEF OneEnqueuer, StaysUp

LEMMA CrashesKept ==
  ASSUME MadeInv, [Next]_vars
  PROVE  crashes' = 0 => crashes = 0
<1>0. crashes \in Nat
  BY DEF MadeInv, TypeOK
<1>1. UNCHANGED crashes \/ crashes' = crashes + 1
  BY ZenonT(60) DEF Next, vars, SchedulerStep, RequestStep, EnqueueStep, TaskStep, HandlerStep, Claim,
         NextClaimed, ReadAndGate, CatchEnqueue, TickAborted, RequestAborted, ArchiveRow,
         ArchiveProject, ChooseAction, FindJob, ResetJob, CreateJob,
         SetProjectQueued, LinkRow, CheckQueue, AddTask, FindDurable, CreateDurable,
         MarkDurable, EnqueueError, RequestThrows, RequestRow, RequestWrite, RequestEnqueue,
         RequestPost, RequestArchive, TakeTask, SetProcessing, QueueProject, LookUpPage,
         CallSite, PageMade, PageChanged, ApproveDraft, SaveJob, FindRow, SyncRow, MarkProject,
         ReadForVerify, RecordVerification, CompleteTask, FailTry, WorkerCrash, RecoverStalled,
         DelayOver, FailJob, FailProject, FindFailedRow, FailRow
<1>2. QED
  BY <1>0, <1>1

LEMMA CalmSteps ==
  ASSUME OneEnqueuer, MadeInv, QueueInv, [Next]_vars, Calm'
  PROVE  CalmStep \/ UNCHANGED vars
<1>0. crashes = 0 /\ faults = 0 /\ crashes' = 0 /\ faults' = 0
  BY CrashesKept, FaultsKept DEF Calm
<1>1. \A s \in Schedulers : ~ EnqueueError(s) /\ ~ TickAborted(s)
  BY <1>0 DEF EnqueueError, Fault, TickAborted
<1>2. \A r \in Requests : ~ EnqueueError(r) /\ ~ RequestAborted(r)
  BY <1>0 DEF EnqueueError, Fault, RequestAborted
<1>3. \A r \in Requests : ~ RequestPost(r) /\ ~ RequestArchive(r)
  BY DEF OneEnqueuer, RequestPost, RequestArchive, PostOperations
<1>4. \A w \in Workers : ~ WorkerCrash(w)
  BY <1>0 DEF WorkerCrash
<1>5. QED
  BY <1>1, <1>2, <1>3, <1>4, QueueTimers DEF Next, CalmStep

LEMMA QueueNext ==
  ASSUME OneEnqueuer, MadeInv, [Next]_vars, Calm => UpInv /\ QueueInv
  PROVE  Calm' => UpInv' /\ QueueInv'
<1> SUFFICES ASSUME Calm' PROVE UpInv' /\ QueueInv'
  OBVIOUS
<1>0. Calm /\ faults' = faults /\ UpInv /\ QueueInv
  BY CrashesKept, FaultsKept DEF Calm
<1>1. UpInv'
  BY <1>0, EditsStayUp, UpNext DEF Calm
<1>2. CASE CalmStep
  <2>1. ASSUME NEW s \in Schedulers, SchedulerStep(s) PROVE QueueInv'
    BY <1>0, <2>1, QueueScheduler
  <2>2. ASSUME NEW r \in Requests, RequestStep(r) \/ RequestRow(r) PROVE QueueInv'
    BY <1>0, <2>2, QueueRequest
  <2>3. ASSUME NEW w \in Workers, TakeTask(w) \/ TaskStep(w) PROVE QueueInv'
    BY <1>0, <2>3, QueueWorker
  <2>4. ASSUME NEW h \in handlers, HandlerStep(h) PROVE QueueInv'
    BY <1>0, <2>4, QueueListener
  <2>5. QED
    BY <1>1, <1>2, <2>1, <2>2, <2>3, <2>4, Zenon DEF CalmStep
<1>3. CASE UNCHANGED vars
  <2>1. LiveTasks' /\ OneTaskPerKey' /\ Holders' /\ OneHolder' /\ Listeners' /\ OneListener'
    BY <1>0, <1>3 DEF vars, QueueInv, LiveTasks, OneTaskPerKey, Holders, OneHolder, Listeners,
       OneListener, TaskLive, Holds, KeyOf, KeyOfHandler, NoLive
  <2>2. Enqueuers' /\ OnlyEdits' /\ WaitingCarried' /\ NoneCanceled'
    BY <1>0, <1>3 DEF vars, QueueInv, Enqueuers, OnlyEdits, WaitingCarried, NoneCanceled,
       Carried, TaskLive, KeyOfHandler, NoLive
  <2>3. QED
    BY <1>1, <2>1, <2>2 DEF QueueInv
<1>4. QED
  BY <1>0, <1>1, <1>2, <1>3, CalmSteps

LEMMA QueueAlways ==
  ASSUME OneEnqueuer
  PROVE  Spec => [](MadeInv /\ (Calm => UpInv /\ QueueInv))
<1> DEFINE I == MadeInv /\ (Calm => UpInv /\ QueueInv)
<1>1. Init => I
  BY MadeInit, UpInit, QueueInit
<1>2. I /\ [Next]_vars => I'
  BY MadeNext, QueueNext
<1>3. QED
  BY <1>1, <1>2, PTL DEF Spec

\* A publication job never waits for a task that nobody will run: with one
\* scheduler, any number of workers and of operators who edit, and however
\* often the site refuses, it is in somebody's hands until it is over, as long
\* as no process dies and no answer is lost (queuePublication, which adds the
\* task only if the queue has none; processPublicationJob; the listener).
THEOREM JobNeverStranded ==
  OneEnqueuer => (Spec => [](crashes = 0 /\ faults = 0 => JobNotStranded))
<1> SUFFICES ASSUME OneEnqueuer
             PROVE  Spec => [](crashes = 0 /\ faults = 0 => JobNotStranded)
  OBVIOUS
<1>1. MadeInv /\ (Calm => UpInv /\ QueueInv) => (crashes = 0 /\ faults = 0 => JobNotStranded)
  <2> SUFFICES ASSUME QueueInv, Quiet, NEW k \in Keys PROVE job[k].status \notin {"queued", "processing"}
    BY DEF Calm, JobNotStranded
  <2>1. ~ Carried(k)
    BY DEF Carried, Quiet, Adding
  <2>2. QED
    BY <2>1 DEF QueueInv, WaitingCarried
<1>2. QED
  BY <1>1, QueueAlways, PTL

-----------------------------------------------------------------------------
(* One page.  Until its id is saved the page is known to the worker that has *)
(* made it alone, and all work is done under the key of the publication; so  *)
(* whoever finds no id holds that job.                                       *)

Saved == job["publish"].status = "published" /\ job["publish"].ext # 0

\* The page is made and its id not saved yet.
Uploaded == \E w \in Workers : wk[w].pc = "called" /\ KeyOf(w) = "publish"

NothingKnown ==
  /\ \A p \in Pubs : pub[p].ext = 0
  /\ \A k \in Keys : job[k].ext = 0
  /\ \A s \in Schedulers : proc[s].pc \in Keyed => proc[s].key # "update"
  /\ \A t \in TaskIds : task[t].key # "update"

LooksRight(w) ==
  /\ wk[w].pc # "drafted"
  /\ wk[w].pc = "ready" => (wk[w].ext = 0 <=> KeyOf(w) = "publish")

OnceInv ==
  /\ pages <= 1 /\ (pages = 0 \/ Saved \/ Uploaded)
  /\ Saved \/ NothingKnown
  /\ \A w \in Workers : LooksRight(w)

LEMMA OnceInit == Init => OnceInv
<1> SUFFICES ASSUME Init PROVE OnceInv
  OBVIOUS
<1>1. /\ \A p \in Pubs : pub[p].ext = 0
      /\ \A k \in Keys : job[k].ext = 0
      /\ pages = 0
  BY DEF Init, CreatedRows, NewRow
<1>2. \A s \in Schedulers : proc[s].pc \notin Keyed
  BY DEF Init, ProcIdle, Keyed, Procs
<1>3. \A t \in TaskIds : task[t].key # "update"
  <2>1. "update" # None
    BY ConstantsAssumption DEF Keys
  <2>2. QED
    BY <2>1 DEF Init
<1>4. \A w \in Workers : wk[w].pc = "idle"
  BY DEF Init, WorkerIdle
<1>5. NothingKnown
  BY <1>1, <1>2, <1>3 DEF NothingKnown
<1>6. QED
  BY <1>1, <1>4, <1>5 DEF OnceInv, LooksRight

\* No worker is past its save while nothing is saved.
LEMMA BeforeSaved ==
  ASSUME MadeInv, UpInv, QueueInv, ~Saved, NothingKnown, NEW w \in Workers, wk[w].pc # "idle"
  PROVE  KeyOf(w) = "publish" /\ JobAt(wk[w].pc) # "published"
<1>1. KeyOf(w) = "publish"
  BY HeldTaskMade DEF NothingKnown, KeyOf, PublishKeys
<1>2. job["publish"].status = JobAt(wk[w].pc) /\ "publish" \in Keys
  BY <1>1, HolderAlone
<1>3. job["publish"].status = "published" => job["publish"].ext # 0
  BY <1>2 DEF UpInv, UpJobs, UpJob
<1>4. QED
  BY <1>1, <1>2, <1>3 DEF Saved

-----------------------------------------------------------------------------
(* The jobs *)

\* A published job is left alone, and only a save adds an id.
LEMMA OnceJobs ==
  ASSUME OneEnqueuer, MadeInv, UpInv, QueueInv, CalmStep, faults' = faults, NEW k \in Keys
  PROVE  \/ job'[k] = job[k]
         \/ job[k].status # "published" /\ job'[k].ext \in {0, job[k].ext}
         \/ \E w \in Workers : SaveJob(w) /\ k = KeyOf(w)
<1> DEFINE Goal == \/ job'[k] = job[k]
                   \/ job[k].status # "published" /\ job'[k].ext \in {0, job[k].ext}
                   \/ \E w \in Workers : SaveJob(w) /\ k = KeyOf(w)
<1>0. job \in [Keys -> PublicationJobs]
  BY QueueTypes
<1>1. ASSUME NEW s \in Schedulers, SchedulerStep(s) PROVE Goal
  <2>0. /\ proc[s].pc = "reset" => job[proc[s].key].status = "failed"
        /\ proc[s].pc = "create" => job[proc[s].key].status = "none"
    BY DEF QueueInv, Enqueuers
  <2>1. CASE ResetJob(s)
    BY <1>0, <2>0, <2>1 DEF ResetJob, PublicationJobs
  <2>2. CASE CreateJob(s)
    <3> DEFINE born == 1 + Cardinality({i \in Keys : job[i].status # "none"})
               record == [status |-> "queued", ext |-> 0, born |-> born]
    <3>1. job' = job \/ job' = [job EXCEPT ![proc[s].key] = record]
      BY <2>2 DEF CreateJob
    <3>2. record.ext = 0
      OBVIOUS
    <3> HIDE DEF record
    <3>3. QED
      BY <1>0, <2>0, <2>2, <3>1, <3>2 DEF CreateJob
  <2>3. CASE job' = job
    BY <2>3
  <2>4. QED
    BY <1>1, <2>1, <2>2, <2>3
       DEF SchedulerStep, EnqueueStep, Claim, NextClaimed, CatchEnqueue, ChooseAction, FindJob,
           SetProjectQueued, LinkRow, CheckQueue, AddTask, Queue
<1>2. ASSUME NEW r \in Requests, RequestStep(r) \/ RequestRow(r) PROVE Goal
  BY <1>2, RequestEdits
<1>3. ASSUME NEW w \in Workers, TakeTask(w) \/ TaskStep(w) PROVE Goal
  <2>1. CASE SetProcessing(w)
    <3>1. job[KeyOf(w)].status = "queued"
      BY <2>1 DEF SetProcessing, QueueInv, Holders, JobAt
    <3>2. QED
      BY <1>0, <2>1, <3>1 DEF SetProcessing, PublicationJobs
  <2>2. CASE SaveJob(w)
    <3>1. k # KeyOf(w) => job'[k] = job[k]
      BY <1>0, <2>2 DEF SaveJob
    <3>2. QED
      BY <2>2, <3>1
  <2>3. CASE job' = job
    BY <2>3
  <2>4. QED
    BY <1>3, <2>1, <2>2, <2>3
       DEF TaskStep, TakeTask, QueueProject, LookUpPage, CallSite, ApproveDraft, FindRow,
           SyncRow, MarkProject, ReadForVerify, RecordVerification, CompleteTask, FailTry, Queue
<1>4. ASSUME NEW h \in handlers, HandlerStep(h) PROVE Goal
  <2>1. CASE FailJob(h)
    <3>1. job[KeyOfHandler(h)].status = "processing"
      BY <2>1 DEF FailJob, QueueInv, Listeners
    <3>2. QED
      BY <1>0, <2>1, <3>1 DEF FailJob, KeyOfHandler, PublicationJobs
  <2>2. QED
    BY <1>4, <2>1 DEF HandlerStep, FailProject, FindFailedRow, FailRow, Queue
<1>5. QED
  BY <1>1, <1>2, <1>3, <1>4 DEF CalmStep

LEMMA SavedStays ==
  ASSUME OneEnqueuer, MadeInv, UpInv, QueueInv, CalmStep, faults' = faults, Saved
  PROVE  Saved'
<1>1. "publish" \in Keys
  BY DEF Keys
<1>2. ASSUME NEW w \in Workers, SaveJob(w) PROVE KeyOf(w) # "publish"
  <2>1. job[KeyOf(w)].status = "processing"
    BY <1>2 DEF SaveJob, QueueInv, Holders, JobAt
  <2>2. QED
    BY <2>1 DEF Saved
<1>3. job'["publish"] = job["publish"]
  BY <1>1, <1>2, OnceJobs DEF Saved
<1>4. QED
  BY <1>3 DEF Saved

\* The first save is that of the publication's own job.
LEMMA FirstSave ==
  ASSUME MadeInv, UpInv, QueueInv, ~Saved, NothingKnown, NEW w \in Workers, SaveJob(w)
  PROVE  Saved'
<1>1. wk[w].pc = "called" /\ KeyOf(w) = "publish" /\ job \in [Keys -> PublicationJobs]
      /\ "publish" \in Keys
  BY BeforeSaved, QueueTypes DEF SaveJob, Keys
<1> DEFINE ext == Recorded(PageOf(w), job["publish"].ext)
<1>2. ext # 0 /\ StatusOf(w) = "published"
  BY <1>1, UpResult
<1>3. job' = [job EXCEPT !["publish"].status = "published", !["publish"].ext = ext]
  BY <1>1, <1>2 DEF SaveJob
<1> HIDE DEF ext
<1>4. QED
  BY <1>1, <1>2, <1>3 DEF Saved, PublicationJobs

LEMMA OnceJobsUnknown ==
  ASSUME OneEnqueuer, MadeInv, UpInv, QueueInv, CalmStep, faults' = faults,
         ~Saved, NothingKnown, ~Saved'
  PROVE  \A k \in Keys : job'[k].ext = 0
<1>1. \A w \in Workers : ~ SaveJob(w)
  BY FirstSave
<1>2. QED
  BY <1>1, OnceJobs DEF NothingKnown

-----------------------------------------------------------------------------
(* The rows, the processes and the tasks *)

\* Only the worker that syncs a row gives it an id.
LEMMA ExtKept ==
  ASSUME NEW row \in Rows
  PROVE  /\ \A seen : Rescheduled(row, seen, TRUE).ext = row.ext
         /\ Canceled(row).ext = row.ext
         /\ Retried(row).ext = row.ext
         /\ Deleted(row).ext = row.ext
         /\ Claimed(row).ext = row.ext
         /\ ReleaseBlocked(row).ext = row.ext
         /\ EnqueueFailed(row).ext = row.ext
         /\ \A n, class : AttemptFailed(row, n, class, MaxRetries).ext = row.ext
  BY DEF Rows, Rescheduled, Canceled, Retried, Deleted, Claimed, ReleaseBlocked,
         EnqueueFailed, AttemptFailed

LEMMA OnceRowsUnknown ==
  ASSUME OneEnqueuer, MadeInv, UpInv, QueueInv, CalmStep, ~Saved, NothingKnown
  PROVE  \A p \in Pubs : pub'[p].ext = 0
<1> DEFINE Goal == \A p \in Pubs : pub'[p].ext = 0
<1>0. /\ pub \in [Pubs -> Rows]
      /\ \A p \in Pubs : pub[p] \in Rows /\ pub[p].ext = 0
  BY DEF MadeInv, TypeOK, NothingKnown
<1>1. ASSUME pub' = pub PROVE Goal
  BY <1>0, <1>1
<1>2. ASSUME NEW p, NEW row, pub' = [pub EXCEPT ![p] = row], p \in Pubs => row.ext = 0
      PROVE  Goal
  BY <1>0, <1>2
<1>3. ASSUME NEW s \in Schedulers, SchedulerStep(s) PROVE Goal
  <2>1. CASE Claim(s)
    <3>1. \A p \in Pubs : pub'[p] = Claimed(pub[p]) \/ pub'[p] = pub[p]
      BY <2>1 DEF Claim
    <3>2. \A p \in Pubs : Claimed(pub[p]).ext = 0
      BY <1>0, ExtKept
    <3>3. QED
      BY <1>0, <3>1, <3>2
  <2>2. CASE CatchEnqueue(s)
    <3> DEFINE p == proc[s].pub
    <3>1. PICK row \in {ReleaseBlocked(pub[p]), EnqueueFailed(pub[p])} :
            pub' = [pub EXCEPT ![p] = row]
      BY <2>2 DEF CatchEnqueue
    <3>2. ASSUME p \in Pubs PROVE row.ext = 0
      <4>1. ReleaseBlocked(pub[p]).ext = 0 /\ EnqueueFailed(pub[p]).ext = 0
        BY <1>0, <3>2, ExtKept
      <4>2. QED
        BY <4>1
    <3> HIDE DEF p
    <3>3. QED
      BY <1>2, <3>1, <3>2
  <2>3. QED
    BY <1>1, <1>3, <2>1, <2>2
       DEF SchedulerStep, EnqueueStep, NextClaimed, ChooseAction, FindJob, ResetJob, CreateJob,
           SetProjectQueued, LinkRow, CheckQueue, AddTask, Records
<1>4. ASSUME NEW r \in Requests, RequestStep(r) \/ RequestRow(r) PROVE Goal
  <2>1. CASE RequestRow(r)
    BY <1>1, <2>1 DEF RequestRow, Records
  <2>2. CASE RequestWrite(r)
    <3> DEFINE p == proc[r].pub
               op == proc[r].op
               seen == proc[r].seen
               row == CASE op = "reschedule" -> Rescheduled(pub[p], seen, TRUE)
                        [] op = "cancel"     -> Canceled(pub[p])
                        [] op = "retry"      -> Retried(pub[p])
                        [] op = "delete"     -> Deleted(pub[p])
                        [] op = "unpublish"  -> UnpublishQueued(pub[p])
    <3>0. r \in Procs
      BY <1>4, RequestEdits
    <3>1. op \in {"reschedule", "cancel", "retry", "delete"}
      BY <2>2, <3>0
         DEF RequestWrite, MadeInv, ProcsFine, ProcFine, UpInv, UpProcs, UpProc, StayingOps,
             RowOperations
    <3>2. pub' = [pub EXCEPT ![p] = row]
      BY <2>2 DEF RequestWrite
    <3> HIDE DEF op
    <3>3. row \in {Rescheduled(pub[p], seen, TRUE), Canceled(pub[p]), Retried(pub[p]),
                   Deleted(pub[p])}
      BY <3>1
    <3> HIDE DEF row, seen
    <3>4. ASSUME p \in Pubs PROVE row.ext = 0
      <4>1. PICK old \in Rows : old = pub[p] /\ old.ext = 0
        BY <1>0, <3>4
      <4>2. /\ Rescheduled(old, seen, TRUE).ext = 0 /\ Canceled(old).ext = 0
            /\ Retried(old).ext = 0 /\ Deleted(old).ext = 0
        BY <4>1, ExtKept
      <4>3. QED
        BY <3>3, <4>1, <4>2
    <3> HIDE DEF p
    <3>5. QED
      BY <1>2, <3>2, <3>4
  <2>3. QED
    BY <1>4, <2>1, <2>2, RequestEdits
<1>5. ASSUME NEW w \in Workers, TakeTask(w) \/ TaskStep(w) PROVE Goal
  <2>1. ~ SyncRow(w) /\ ~ RecordVerification(w)
    BY BeforeSaved DEF SyncRow, RecordVerification, JobAt
  <2>2. QED
    BY <1>1, <1>5, <2>1
       DEF TaskStep, TakeTask, SetProcessing, QueueProject, LookUpPage, CallSite, ApproveDraft,
           SaveJob, FindRow, MarkProject, ReadForVerify, CompleteTask, FailTry, Records
<1>6. ASSUME NEW h \in handlers, HandlerStep(h) PROVE Goal
  <2>1. CASE FailRow(h)
    <3> DEFINE p == h.hit
               row == AttemptFailed(pub[p], h.retries, h.class, MaxRetries)
    <3>1. pub' = [pub EXCEPT ![p] = row]
      BY <2>1 DEF FailRow
    <3>2. ASSUME p \in Pubs PROVE row.ext = 0
      <4>1. PICK old \in Rows : old = pub[p] /\ old.ext = 0
        BY <1>0, <3>2
      <4>2. \A n, class : AttemptFailed(old, n, class, MaxRetries).ext = old.ext
        BY <4>1, ExtKept, Zenon
      <4>3. QED
        BY <4>1, <4>2
    <3> HIDE DEF p, row
    <3>3. QED
      BY <1>2, <3>1, <3>2
  <2>2. QED
    BY <1>1, <1>6, <2>1 DEF HandlerStep, FailJob, FailProject, FindFailedRow, Records
<1>7. QED
  BY <1>3, <1>4, <1>5, <1>6 DEF CalmStep

\* A row without an id is published under the publication's key.
LEMMA OnceProcsUnknown ==
  ASSUME OneEnqueuer, MadeInv, UpInv, QueueInv, CalmStep, ~Saved, NothingKnown
  PROVE  \A s \in Schedulers : proc'[s].pc \in Keyed => proc'[s].key # "update"
<1> DEFINE Goal == \A s \in Schedulers : proc'[s].pc \in Keyed => proc'[s].key # "update"
<1>0. /\ proc \in [Procs -> ProcStates] /\ Schedulers \subseteq Procs
      /\ \A s \in Schedulers : proc[s].pc \in Keyed => proc[s].key # "update"
  BY QueueTypes DEF NothingKnown
<1>1. ASSUME proc' = proc PROVE Goal
  BY <1>0, <1>1
<1>2. ASSUME NEW s \in Procs, NEW r, proc' = [proc EXCEPT ![s] = r],
             r.pc \in Keyed => r.key # "update"
      PROVE  Goal
  BY <1>0, <1>2
<1>3. ASSUME NEW s \in Schedulers, SchedulerStep(s) PROVE Goal
  <2>0. s \in Procs /\ proc[s] \in ProcStates /\ ProcEnd(s) = ProcIdle /\ ProcIdle.pc \notin Keyed
    BY <1>0 DEF ProcEnd, ProcIdle, Keyed
  <2>1. CASE proc' = [proc EXCEPT ![s] = ProcIdle]
    BY <1>2, <2>0, <2>1
  <2>2. ASSUME NEW pc, Goes(s, pc), pc \in Keyed => proc[s].pc \in Keyed PROVE Goal
    <3>1. PICK r : /\ proc' = [proc EXCEPT ![s] = r]
                   /\ r.pc = pc /\ r.op = proc[s].op /\ r.key = proc[s].key
      BY <2>2 DEF Goes
    <3>2. QED
      BY <1>0, <1>2, <2>0, <2>2, <3>1
  <2>3. CASE NextClaimed(s)
    <3>1. PICK p : ReadAndGate(s, p)
      BY <2>3 DEF NextClaimed
    <3>2. ASSUME NEW pc \in {"read", "blocked", "error"},
                 proc' = [proc EXCEPT ![s] = [@ EXCEPT !.pc = pc, !.pub = p]]
          PROVE  Goal
      <4>1. Goes(s, pc)
        BY <2>0, <3>2, GoesForms
      <4>2. QED
        BY <2>2, <4>1 DEF Keyed
    <3>3. QED
      BY <2>0, <2>1, <3>1, <3>2 DEF ReadAndGate
  <2>4. CASE ChooseAction(s)
    <3> DEFINE p == proc[s].pub
               k == KeyOfRow(pub[p])
               r == [proc[s] EXCEPT !.pc = "find", !.key = k]
    <3>1. p \in Pubs
      BY <2>0, <2>4 DEF ChooseAction, UpInv, UpProcs, UpProc
    <3>2. k = "publish"
      BY <3>1 DEF NothingKnown, KeyOfRow, UpInv, UpRows, UpRow
    <3>3. proc' = [proc EXCEPT ![s] = r]
      BY <1>0, <2>0, <2>4 DEF ChooseAction
    <3> HIDE DEF k
    <3>4. r.key # "update"
      BY <2>0, <3>2 DEF ProcStates
    <3> HIDE DEF r
    <3>5. QED
      BY <1>2, <2>0, <3>3, <3>4
  <2>5. CASE FindJob(s)
    <3> DEFINE next == AfterFind(proc[s].op, job[proc[s].key].status)
    <3>1. proc[s].pc = "find"
          /\ proc' = [proc EXCEPT ![s] =
               IF next = "done" THEN ProcEnd(s) ELSE [proc[s] EXCEPT !.pc = next]]
      BY <1>0, <2>0, <2>5 DEF FindJob
    <3> HIDE DEF next
    <3>2. CASE next = "done"
      BY <2>0, <2>1, <3>1, <3>2
    <3>3. CASE next # "done"
      <4>1. Goes(s, next)
        BY <2>0, <3>1, <3>3, GoesForms
      <4>2. QED
        BY <2>2, <3>1, <4>1 DEF Keyed
    <3>4. QED
      BY <3>2, <3>3
  <2>6. CASE ResetJob(s) \/ SetProjectQueued(s)
    <3>1. /\ proc[s].pc \in Keyed
          /\ \E pc \in {"check", "project", "linkq"} : proc' = [proc EXCEPT ![s].pc = pc]
      BY <2>6 DEF ResetJob, SetProjectQueued, AfterWriteJob, Keyed
    <3>2. \E pc \in {"check", "project", "linkq"} : Goes(s, pc)
      BY <2>0, <3>1, GoesForms
    <3>3. QED
      BY <2>2, <3>1, <3>2
  <2>7. CASE CreateJob(s)
    <3>1. /\ proc[s].pc \in Keyed
          /\ \E pc \in {"check", "project", "error"} :
               \/ proc' = [proc EXCEPT ![s].pc = pc]
               \/ proc' = [proc EXCEPT ![s].pc = pc, ![s].fresh = TRUE]
      BY <2>7 DEF CreateJob, AfterWriteJob, Keyed
    <3>2. \E pc \in {"check", "project", "error"} : Goes(s, pc)
      BY <2>0, <3>1, GoesForms
    <3>3. QED
      BY <2>2, <3>1, <3>2
  <2>8. CASE LinkRow(s)
    <3>1. CASE proc[s].pc = "link"
      BY <2>0, <2>1, <2>8, <3>1 DEF LinkRow
    <3>2. CASE proc[s].pc = "linkq"
      <4>1. Goes(s, "check")
        BY <2>0, <2>8, <3>2, GoesForms DEF LinkRow
      <4>2. QED
        BY <2>2, <3>2, <4>1 DEF Keyed
    <3>3. QED
      BY <2>8, <3>1, <3>2 DEF LinkRow
  <2>9. CASE CheckQueue(s) \/ AddTask(s)
    <3>1. proc[s].op = "publish" /\ proc[s].pc \in Keyed
      BY <2>9 DEF QueueInv, Enqueuers, CheckQueue, AddTask, Keyed
    <3>2. Afterwards(s) = ProcIdle
      BY <2>0, <3>1 DEF Afterwards, PostOperations
    <3>3. \/ proc' = [proc EXCEPT ![s] = ProcIdle]
          \/ proc' = [proc EXCEPT ![s] = [@ EXCEPT !.pc = "add"]]
      BY <2>9, <3>2 DEF CheckQueue, AddTask
    <3>4. CASE proc' = [proc EXCEPT ![s] = [@ EXCEPT !.pc = "add"]]
      <4>1. Goes(s, "add")
        BY <2>0, <3>4, GoesForms
      <4>2. QED
        BY <2>2, <3>1, <4>1
    <3>5. QED
      BY <2>1, <3>3, <3>4
  <2>10. QED
    BY <1>1, <1>3, <2>0, <2>1, <2>3, <2>4, <2>5, <2>6, <2>7, <2>8, <2>9
       DEF SchedulerStep, EnqueueStep, Claim, CatchEnqueue
<1>4. ASSUME NEW r \in Requests, RequestStep(r) \/ RequestRow(r) PROVE Goal
  <2>1. PICK q : proc' = [proc EXCEPT ![r] = q] /\ q.pc \in {"write", "done"}
    BY <1>4, RequestEdits
  <2>2. r \in Procs /\ q.pc \notin Keyed
    BY <1>4, <2>1, RequestEdits DEF Keyed
  <2>3. QED
    BY <1>2, <2>1, <2>2
<1>5. ASSUME NEW w \in Workers, TakeTask(w) \/ TaskStep(w) PROVE Goal
  BY <1>1, <1>5
     DEF TaskStep, TakeTask, SetProcessing, QueueProject, LookUpPage, CallSite, ApproveDraft,
         SaveJob, FindRow, SyncRow, MarkProject, ReadForVerify, RecordVerification,
         CompleteTask, FailTry
<1>6. ASSUME NEW h \in handlers, HandlerStep(h) PROVE Goal
  BY <1>1, <1>6 DEF HandlerStep, FailJob, FailProject, FindFailedRow, FailRow
<1>7. QED
  BY <1>3, <1>4, <1>5, <1>6 DEF CalmStep

LEMMA OnceTasksUnknown ==
  ASSUME OneEnqueuer, MadeInv, UpInv, QueueInv, CalmStep, ~Saved, NothingKnown
  PROVE  \A t \in TaskIds : task'[t].key # "update"
<1> DEFINE Goal == \A t \in TaskIds : task'[t].key # "update"
<1>0. /\ task \in [TaskIds -> Tasks]
      /\ \A t \in TaskIds : task[t].key # "update"
  BY QueueTypes DEF NothingKnown
<1>1. ASSUME task' = task PROVE Goal
  BY <1>0, <1>1
<1>2. ASSUME NEW t, NEW j, task' = [task EXCEPT ![t].job = j] PROVE Goal
  BY <1>0, <1>2 DEF Tasks
<1>3. ASSUME NEW s \in Schedulers, SchedulerStep(s) PROVE Goal
  <2>1. CASE AddTask(s)
    <3> DEFINE k == proc[s].key
               new == Added(NoJob)
    <3>1. k # "update"
      BY <2>1 DEF AddTask, NothingKnown, Keyed
    <3>2. PICK t \in TaskIds : task' = [task EXCEPT ![t] = [key |-> k, job |-> new]]
      BY <2>1 DEF AddTask, NewTask
    <3> HIDE DEF k, new
    <3>3. QED
      BY <1>0, <3>1, <3>2
  <2>2. QED
    BY <1>1, <1>3, <2>1
       DEF SchedulerStep, EnqueueStep, Claim, NextClaimed, CatchEnqueue, ChooseAction, FindJob,
           ResetJob, CreateJob, SetProjectQueued, LinkRow, CheckQueue, Queue
<1>4. ASSUME NEW r \in Requests, RequestStep(r) \/ RequestRow(r) PROVE Goal
  BY <1>1, <1>4, RequestEdits
<1>5. ASSUME NEW w \in Workers, TakeTask(w) \/ TaskStep(w) PROVE Goal
  <2>1. task' = task \/ \E t, j : task' = [task EXCEPT ![t].job = j]
    BY <1>5
       DEF TaskStep, TakeTask, SetProcessing, QueueProject, LookUpPage, CallSite, ApproveDraft,
           SaveJob, FindRow, SyncRow, MarkProject, ReadForVerify, RecordVerification,
           CompleteTask, FailTry, Queue
  <2>2. QED
    BY <1>1, <1>2, <2>1
<1>6. ASSUME NEW h \in handlers, HandlerStep(h) PROVE Goal
  BY <1>1, <1>6 DEF HandlerStep, FailJob, FailProject, FindFailedRow, FailRow, Queue
<1>7. QED
  BY <1>3, <1>4, <1>5, <1>6 DEF CalmStep

LEMMA NothingKnownNext ==
  ASSUME OneEnqueuer, MadeInv, UpInv, QueueInv, CalmStep, faults' = faults,
         Saved \/ NothingKnown
  PROVE  Saved' \/ NothingKnown'
<1> SUFFICES ASSUME ~Saved' PROVE NothingKnown'
  OBVIOUS
<1>1. ~Saved /\ NothingKnown
  BY SavedStays
<1>2. QED
  BY <1>1, OnceJobsUnknown, OnceRowsUnknown, OnceProcsUnknown, OnceTasksUnknown DEF NothingKnown

-----------------------------------------------------------------------------
(* The workers and the page *)

\* A task keeps its key, so a worker knows what its job is called.
LEMMA HeldKeysStay ==
  ASSUME OneEnqueuer, MadeInv, UpInv, QueueInv, CalmStep,
         NEW w \in Workers, wk[w].pc # "idle"
  PROVE  task'[wk[w].task].key = task[wk[w].task].key
<1> DEFINE t == wk[w].task
           Goal == task'[t].key = task[t].key
<1>0. task \in [TaskIds -> Tasks] /\ t \in TaskIds /\ task[t].key \in PublishKeys
  BY QueueTypes, HeldTaskMade DEF KeyOf
<1> HIDE DEF t
<1>1. ASSUME task' = task PROVE Goal
  BY <1>1
<1>2. ASSUME NEW s \in Schedulers, SchedulerStep(s) PROVE Goal
  <2>1. CASE AddTask(s)
    <3>1. PICK u \in TaskIds : /\ task[u].key = None
                             /\ \E record : task' = [task EXCEPT ![u] = record]
      BY <2>1 DEF AddTask, NewTask
    <3>2. u # t
      BY <1>0, <3>1, ConstantsAssumption DEF PublishKeys, Keys
    <3>3. QED
      BY <1>0, <3>1, <3>2
  <2>2. QED
    BY <1>1, <1>2, <2>1
       DEF SchedulerStep, EnqueueStep, Claim, NextClaimed, CatchEnqueue, ChooseAction, FindJob,
           ResetJob, CreateJob, SetProjectQueued, LinkRow, CheckQueue, Queue
<1>3. ASSUME NEW r \in Requests, RequestStep(r) \/ RequestRow(r) PROVE Goal
  BY <1>1, <1>3, RequestEdits
<1>4. ASSUME NEW v \in Workers, TakeTask(v) \/ TaskStep(v) PROVE Goal
  <2>1. task' = task \/ \E u, j : task' = [task EXCEPT ![u].job = j]
    BY <1>4
       DEF TaskStep, TakeTask, SetProcessing, QueueProject, LookUpPage, CallSite, ApproveDraft,
           SaveJob, FindRow, SyncRow, MarkProject, ReadForVerify, RecordVerification,
           CompleteTask, FailTry, Queue
  <2>2. QED
    BY <1>0, <1>1, <2>1 DEF Tasks
<1>5. ASSUME NEW h \in handlers, HandlerStep(h) PROVE Goal
  BY <1>1, <1>5 DEF HandlerStep, FailJob, FailProject, FindFailedRow, FailRow, Queue
<1>6. QED
  BY <1>2, <1>3, <1>4, <1>5 DEF CalmStep, t

\* Who publishes finds no id, and who updates finds the one that is saved.
LEMMA OnceLookUp ==
  ASSUME ~TwoCalls, MadeInv, UpInv, QueueInv, Saved \/ NothingKnown,
         NEW w \in Workers, LookUpPage(w)
  PROVE  LatestExternalId = 0 <=> KeyOf(w) = "publish"
<1>0. /\ wk[w].pc = "queued" /\ KeyOf(w) \in PublishKeys /\ KeyOf(w) \in Keys
      /\ job[KeyOf(w)].status = "processing"
  BY HolderAlone, HeldTaskMade DEF LookUpPage, JobAt
<1>1. CASE KeyOf(w) = "publish"
  <2>1. NothingKnown
    BY <1>0, <1>1 DEF Saved
  <2>2. WithPage = {}
    BY <2>1 DEF WithPage, NothingKnown
  <2>3. QED
    BY <1>1, <2>2 DEF LatestExternalId
<1>2. CASE KeyOf(w) # "publish"
  <2>1. wk[w].task \in TaskIds /\ task[wk[w].task].key = "update"
    BY <1>0, <1>2, HeldTaskMade DEF KeyOf, PublishKeys
  <2>2. Saved
    BY <2>1 DEF NothingKnown
  <2>3. "publish" \in WithPage
    BY <2>2 DEF Saved, WithPage, Keys
  <2>4. PICK k \in WithPage : LatestExternalId = job[k].ext
    BY <2>3, LatestOfSome
  <2>5. QED
    BY <1>2, <2>4 DEF WithPage
<1>3. QED
  BY <1>1, <1>2

LEMMA OnceWorkers ==
  ASSUME ~TwoCalls, OneEnqueuer, MadeInv, UpInv, QueueInv, OnceInv, CalmStep, faults' = faults
  PROVE  \A v \in Workers : LooksRight(v)'
<1> DEFINE Goal == \A v \in Workers : LooksRight(v)'
<1>0. wk \in [Workers -> WorkerStates]
  BY QueueTypes
<1>1. ASSUME NEW v \in Workers, wk'[v] = wk[v] PROVE LooksRight(v)'
  <2>1. CASE wk[v].pc = "idle"
    BY <1>1, <2>1 DEF LooksRight
  <2>2. CASE wk[v].pc # "idle"
    <3>1. KeyOf(v)' = KeyOf(v)
      BY <1>1, <2>2, HeldKeysStay DEF KeyOf
    <3>2. QED
      BY <1>1, <3>1 DEF OnceInv, LooksRight
  <2>3. QED
    BY <2>1, <2>2
<1>2. CASE wk' = wk
  BY <1>1, <1>2
<1>3. ASSUME NEW w \in Workers, TakeTask(w) \/ TaskStep(w) PROVE Goal
  <2>1. CASE LookUpPage(w)
    <3> DEFINE ext == LatestExternalId
               r == [wk[w] EXCEPT !.pc = "ready", !.ext = ext]
    <3>1. ext = 0 <=> KeyOf(w) = "publish"
      BY <2>1, OnceLookUp DEF OnceInv
    <3>2. wk' = [wk EXCEPT ![w] = r] /\ wk[w].pc # "idle"
      BY <1>0, <2>1 DEF LookUpPage
    <3> HIDE DEF ext
    <3>3. r.pc = "ready" /\ r.ext = ext /\ r.task = wk[w].task
      BY <1>0 DEF WorkerStates
    <3> HIDE DEF r
    <3>4. wk'[w] = r /\ \A v \in Workers : v # w => wk'[v] = wk[v]
      BY <1>0, <3>2
    <3>5. KeyOf(w)' = KeyOf(w)
      BY <3>2, <3>3, <3>4, HeldKeysStay DEF KeyOf
    <3>6. LooksRight(w)'
      BY <3>1, <3>3, <3>4, <3>5 DEF LooksRight
    <3>7. QED
      BY <1>1, <3>4, <3>6
  <2>2. ASSUME ~ LookUpPage(w) PROVE Goal
    <3>1. /\ \A v \in Workers : v # w => wk'[v] = wk[v]
          /\ wk'[w].pc \notin {"ready", "drafted"}
      <4>1. CASE CallSite(w)
        <5>1. \E pc \in {"called"} : \/ wk' = [wk EXCEPT ![w].pc = pc]
                                     \/ \E n : wk' = [wk EXCEPT ![w].pc = pc, ![w].post = n]
          BY <4>1 DEF CallSite, PageMade, PageChanged
        <5>2. QED
          BY <1>0, <5>1 DEF WorkerStates
      <4>2. CASE CompleteTask(w) \/ FailTry(w)
        BY <1>0, <4>2 DEF CompleteTask, FailTry, WorkerIdle
      <4>3. CASE TakeTask(w)
        BY <1>0, <4>3 DEF TakeTask, WorkerIdle
      <4>4. CASE SetProcessing(w) \/ QueueProject(w) \/ ApproveDraft(w) \/ SaveJob(w)
        BY <1>0, <4>4 DEF SetProcessing, QueueProject, ApproveDraft, SaveJob, WorkerStates
      <4>5. CASE FindRow(w) \/ SyncRow(w)
        BY <1>0, <4>5, ZenonT(60) DEF FindRow, SyncRow, WorkerStates
      <4>6. CASE MarkProject(w) \/ ReadForVerify(w) \/ RecordVerification(w)
        BY <1>0, <4>6, ZenonT(60) DEF MarkProject, ReadForVerify, RecordVerification, WorkerStates
      <4>7. QED
        BY <1>3, <2>2, <4>1, <4>2, <4>3, <4>4, <4>5, <4>6, Zenon DEF TaskStep
    <3>2. LooksRight(w)'
      BY <3>1 DEF LooksRight
    <3>3. QED
      BY <1>1, <3>1, <3>2
  <2>3. QED
    BY <2>1, <2>2
<1>4. ASSUME NEW s \in Schedulers, SchedulerStep(s) PROVE wk' = wk
  BY <1>4 DEF SchedulerStep, EnqueueStep, Claim, NextClaimed, CatchEnqueue, ChooseAction, FindJob,
       ResetJob, CreateJob, SetProjectQueued, LinkRow, CheckQueue, AddTask, WorkerSide
<1>5. ASSUME NEW r \in Requests, RequestStep(r) \/ RequestRow(r) PROVE wk' = wk
  BY <1>5, RequestEdits
<1>6. ASSUME NEW h \in handlers, HandlerStep(h) PROVE wk' = wk
  BY <1>6 DEF HandlerStep, FailJob, FailProject, FindFailedRow, FailRow
<1>7. QED
  BY <1>2, <1>3, <1>4, <1>5, <1>6 DEF CalmStep

\* Whoever has made the page keeps its id until it is saved.
LEMMA UploadedStays ==
  ASSUME OneEnqueuer, MadeInv, UpInv, QueueInv, OnceInv, CalmStep, faults' = faults, ~Saved,
         NEW v \in Workers, wk[v].pc = "called", KeyOf(v) = "publish"
  PROVE  Saved' \/ Uploaded'
<1>0. wk \in [Workers -> WorkerStates] /\ faults \in Nat
  BY QueueTypes DEF MadeInv, TypeOK
<1>1. ASSUME wk'[v] = wk[v] PROVE Uploaded'
  <2>1. KeyOf(v)' = KeyOf(v)
    BY <1>1, HeldKeysStay DEF KeyOf
  <2>2. QED
    BY <1>1, <2>1 DEF Uploaded
<1>2. ASSUME NEW w \in Workers, TakeTask(w) \/ TaskStep(w) PROVE Saved' \/ Uploaded'
  <2>1. CASE w # v
    <3>1. wk'[v] = wk[v]
      BY <1>0, <1>2, <2>1
         DEF TaskStep, TakeTask, SetProcessing, QueueProject, LookUpPage, CallSite, PageMade,
             PageChanged, ApproveDraft, SaveJob, FindRow, SyncRow, MarkProject, ReadForVerify,
             RecordVerification, CompleteTask, FailTry
    <3>2. QED
      BY <1>1, <3>1
  <2>2. CASE w = v
    <3>1. ~ FailTry(v)
      BY <1>0 DEF FailTry, Fault
    <3>2. ~ TakeTask(v)
      BY DEF TakeTask
    <3>3. TaskStep(v)
      BY <1>2, <2>2, <3>2
    <3>4. SaveJob(v)
      BY <3>1, <3>3
         DEF TaskStep, SetProcessing, QueueProject, LookUpPage, CallSite, ApproveDraft, FindRow,
             SyncRow, MarkProject, ReadForVerify, RecordVerification, CompleteTask
    <3>5. QED
      BY <3>4, FirstSave DEF OnceInv
  <2>3. QED
    BY <2>1, <2>2
<1>3. ASSUME NEW s \in Schedulers, SchedulerStep(s) PROVE wk' = wk
  BY <1>3 DEF SchedulerStep, EnqueueStep, Claim, NextClaimed, CatchEnqueue, ChooseAction, FindJob,
       ResetJob, CreateJob, SetProjectQueued, LinkRow, CheckQueue, AddTask, WorkerSide
<1>4. ASSUME NEW r \in Requests, RequestStep(r) \/ RequestRow(r) PROVE wk' = wk
  BY <1>4, RequestEdits
<1>5. ASSUME NEW h \in handlers, HandlerStep(h) PROVE wk' = wk
  BY <1>5 DEF HandlerStep, FailJob, FailProject, FindFailedRow, FailRow
<1>6. QED
  BY <1>1, <1>2, <1>3, <1>4, <1>5 DEF CalmStep

LEMMA OncePages ==
  ASSUME ~TwoCalls, OneEnqueuer, MadeInv, UpInv, QueueInv, OnceInv, CalmStep, faults' = faults
  PROVE  pages' <= 1 /\ (pages' = 0 \/ Saved' \/ Uploaded')
<1> DEFINE Goal == pages' <= 1 /\ (pages' = 0 \/ Saved' \/ Uploaded')
<1>0. wk \in [Workers -> WorkerStates] /\ pages \in Nat /\ faults \in Nat
  BY QueueTypes DEF MadeInv, TypeOK
<1>1. ASSUME pages' = pages PROVE Goal
  <2>1. CASE Saved
    BY <1>1, <2>1, SavedStays DEF OnceInv
  <2>2. CASE Uploaded /\ ~Saved
    BY <1>1, <2>2, UploadedStays DEF OnceInv, Uploaded
  <2>3. QED
    BY <1>1, <2>1, <2>2 DEF OnceInv
<1>2. ASSUME NEW w \in Workers, CallSite(w), pages' # pages PROVE Goal
  <2>0. /\ wk[w].pc = "ready" /\ KeyOf(w) \in PublishKeys
        /\ wk[w].ext = 0 <=> KeyOf(w) = "publish"
    BY <1>2, HeldTaskMade DEF CallSite, OnceInv, LooksRight
  <2>1. KeyOf(w) = "publish" /\ PageMade(w, TRUE, "called")
    <3>1. wk[w].ext = 0
      BY <1>2, <2>0 DEF CallSite, PublishKeys, IsUnpublish, PageChanged
    <3>2. KeyOf(w) = "publish"
      BY <2>0, <3>1
    <3>3. PageMade(w, TRUE, "called")
      BY <1>2, <3>1, <3>2 DEF CallSite, IsUnpublish
    <3>4. QED
      BY <3>2, <3>3
  <2>2. job["publish"].status = "processing"
        /\ \A v \in Workers : wk[v].pc # "idle" /\ KeyOf(v) = "publish" => v = w
    BY <2>0, <2>1, HolderAlone DEF JobAt
  <2>3. ~Saved /\ ~Uploaded
    BY <2>0, <2>2 DEF Saved, Uploaded
  <2>4. pages' = 1
    BY <1>0, <2>1, <2>3 DEF OnceInv, PageMade
  <2> DEFINE page == pages + 1
  <2>5. wk' = [wk EXCEPT ![w].pc = "called", ![w].post = page]
    BY <1>0, <2>1 DEF PageMade, Fault
  <2> HIDE DEF page
  <2>6. wk'[w].pc = "called" /\ wk'[w].task = wk[w].task
    BY <1>0, <2>5 DEF WorkerStates
  <2>7. KeyOf(w)' = "publish"
    BY <2>0, <2>1, <2>6, HeldKeysStay DEF KeyOf
  <2>8. QED
    BY <2>4, <2>6, <2>7 DEF Uploaded
<1>3. ASSUME NEW s \in Schedulers, SchedulerStep(s) PROVE pages' = pages
  BY <1>3 DEF SchedulerStep, EnqueueStep, Claim, NextClaimed, CatchEnqueue, ChooseAction, FindJob,
       ResetJob, CreateJob, SetProjectQueued, LinkRow, CheckQueue, AddTask, WorkerSide
<1>4. ASSUME NEW r \in Requests, RequestStep(r) \/ RequestRow(r) PROVE pages' = pages
  BY <1>4, RequestEdits
<1>5. ASSUME NEW h \in handlers, HandlerStep(h) PROVE pages' = pages
  BY <1>5 DEF HandlerStep, FailJob, FailProject, FindFailedRow, FailRow
<1>6. ASSUME NEW w \in Workers, TakeTask(w) \/ TaskStep(w) PROVE pages' = pages \/ CallSite(w)
  BY <1>6
     DEF TaskStep, TakeTask, SetProcessing, QueueProject, LookUpPage, ApproveDraft, SaveJob,
         FindRow, SyncRow, MarkProject, ReadForVerify, RecordVerification, CompleteTask, FailTry
<1>7. QED
  BY <1>1, <1>2, <1>3, <1>4, <1>5, <1>6 DEF CalmStep

LEMMA OnceNext ==
  ASSUME ~TwoCalls, OneEnqueuer, MadeInv, [Next]_vars, Calm => UpInv /\ QueueInv /\ OnceInv
  PROVE  Calm' => OnceInv'
<1> SUFFICES ASSUME Calm' PROVE OnceInv'
  OBVIOUS
<1>0. Calm /\ faults' = faults /\ UpInv /\ QueueInv /\ OnceInv
  BY CrashesKept, FaultsKept DEF Calm
<1>1. CASE CalmStep
  BY <1>0, <1>1, OncePages, OnceWorkers, NothingKnownNext DEF OnceInv
<1>2. CASE UNCHANGED vars
  BY <1>0, <1>2
     DEF vars, OnceInv, Saved, NothingKnown, Uploaded, LooksRight, KeyOf
<1>3. QED
  BY <1>0, <1>1, <1>2, CalmSteps

\* The site gets one page for a version, never a duplicate: with one scheduler,
\* an adapter that publishes with one call, any number of rows, workers and
\* operators who edit, and however often the site refuses, as long as no
\* process dies and no answer is lost (getLatestPublishedExternalId, and the
\* key that a second row finds taken).
THEOREM NoDuplicatePage ==
  OneEnqueuer /\ ~TwoCalls => (Spec => [](crashes = 0 /\ faults = 0 => OnePage))
<1> SUFFICES ASSUME OneEnqueuer, ~TwoCalls
             PROVE  Spec => [](crashes = 0 /\ faults = 0 => OnePage)
  OBVIOUS
<1> DEFINE I == MadeInv /\ (Calm => UpInv /\ QueueInv)
           J == Calm => OnceInv
<1>1. Init => J
  BY OnceInit
<1>2. I /\ J /\ [Next]_vars => J'
  BY OnceNext
<1>3. J => (crashes = 0 /\ faults = 0 => OnePage)
  BY DEF Calm, OnceInv, OnePage
<1>4. Spec => []I
  BY QueueAlways
<1> HIDE DEF I, J
<1>5. QED
  BY <1>1, <1>2, <1>3, <1>4, PTL DEF Spec

-----------------------------------------------------------------------------
(* Delivery: as long as no answer is lost.                                   *)
(*                                                                           *)
(* The step that tells a row its page needs a worker that has an id to tell: *)
(* it got one from the site's answer, or was given one when it started.  And *)
(* a row that is made must not stand for one that had been told before.      *)

Told(r, exist) ==
  /\ r.pc \in {"called", "saved", "found"} => r.post # 0 \/ r.ext # 0
  /\ r.pc = "found" => r.hit \in exist

ToldInv ==
  /\ \A w \in Workers : Told(wk[w], rows)
  /\ \A p \in Pubs \ rows : pub[p].ext = 0

\* A step that leaves what a row was told, and at most takes it from the site.
Hides(new, old) ==
  /\ new.ext = old.ext
  /\ new.status = "published" => old.status = "published"

RowsHide == \A p \in Pubs : Hides(pub'[p], pub[p])

LEMMA HidingUpdates ==
  ASSUME NEW row \in Rows, NEW seen \in Rows
  PROVE  /\ Hides(Rescheduled(row, seen, TRUE), row)
         /\ Hides(Canceled(row), row)
         /\ Hides(Retried(row), row)
         /\ Hides(Deleted(row), row)
         /\ Hides(UnpublishQueued(row), row)
         /\ Hides(Claimed(row), row)
         /\ Hides(ReleaseBlocked(row), row)
         /\ Hides(EnqueueFailed(row), row)
         /\ Hides([row EXCEPT !.status = "publishing"], row)
         /\ Hides([row EXCEPT !.status = "deleted"], row)
         /\ Hides([row EXCEPT !.status = "queued", !.unpub = TRUE], row)
         /\ Hides([row EXCEPT !.status = "unpublished"], row)
         /\ Hides([row EXCEPT !.status = "canceled"], row)
         /\ \A b \in BOOLEAN : Hides([row EXCEPT !.unpub = b], row)
         /\ \A n \in Nat, c \in FailureClasses : Hides(AttemptFailed(row, n, c, MaxRetries), row)
  BY DEF Hides, Rows, Rescheduled, Canceled, Retried, Deleted, UnpublishQueued, Claimed,
         ReleaseBlocked, EnqueueFailed, AttemptFailed

LEMMA RowHides ==
  ASSUME MadeInv, NEW p, NEW row, pub' = [pub EXCEPT ![p] = row], p \in Pubs => Hides(row, pub[p])
  PROVE  RowsHide
  BY DEF MadeInv, TypeOK, RowsHide, Hides

LEMMA EnqueuingHides ==
  ASSUME MadeInv, ToldInv, NEW x \in Procs, Enqueuing(x)
  PROVE  RowsHide
<1>0. /\ proc[x] \in ProcStates /\ ProcFine(proc[x]) /\ proc[x].seen \in Rows
      /\ pub \in [Pubs -> Rows] /\ \A p \in Pubs : pub[p] \in Rows
  BY DEF MadeInv, TypeOK, ProcsFine, ProcStates
<1>1. CASE UNCHANGED pub
  BY <1>1 DEF RowsHide, Hides
<1>2. CASE CreateDurable(x)
  <2>1. PICK p \in Pubs \ rows : pub' = [pub EXCEPT ![p] = NewRow("scheduled")]
    BY <1>2 DEF CreateDurable
  <2>2. Hides(NewRow("scheduled"), pub[p])
    BY <2>1, InitialValues DEF ToldInv, Hides, States
  <2>3. QED
    BY <2>1, <2>2, RowHides
<1>3. CASE MarkDurable(x)
  <2> DEFINE p == proc[x].pub
             row == [pub[p] EXCEPT !.status = "publishing"]
  <2>1. pub' = [pub EXCEPT ![p] = row]
    BY <1>0, <1>3 DEF MarkDurable
  <2>2. p \in Pubs => Hides(row, pub[p])
    BY <1>0, HidingUpdates
  <2> HIDE DEF p, row
  <2>3. QED
    BY <2>1, <2>2, RowHides
<1>4. CASE CatchEnqueue(x)
  <2> DEFINE p == proc[x].pub
  <2>1. PICK row \in {ReleaseBlocked(pub[p]), EnqueueFailed(pub[p])} :
          pub' = [pub EXCEPT ![p] = row]
    BY <1>4 DEF CatchEnqueue
  <2>2. p \in Pubs => Hides(row, pub[p])
    BY <1>0, HidingUpdates
  <2> HIDE DEF p
  <2>3. QED
    BY <2>1, <2>2, RowHides
<1>5. CASE RequestWrite(x)
  <2> DEFINE p == proc[x].pub
             op == proc[x].op
             seen == proc[x].seen
             row == CASE op = "reschedule" -> Rescheduled(pub[p], seen, TRUE)
                      [] op = "cancel"     -> Canceled(pub[p])
                      [] op = "retry"      -> Retried(pub[p])
                      [] op = "delete"     -> Deleted(pub[p])
                      [] op = "unpublish"  -> UnpublishQueued(pub[p])
  <2>1. op \in RowOperations
    BY <1>0, <1>5 DEF RequestWrite, ProcFine
  <2>2. pub' = [pub EXCEPT ![p] = row]
    BY <1>5 DEF RequestWrite
  <2> HIDE DEF op
  <2>3. row \in {Rescheduled(pub[p], seen, TRUE), Canceled(pub[p]), Retried(pub[p]),
                 Deleted(pub[p]), UnpublishQueued(pub[p])}
    BY <2>1 DEF RowOperations
  <2> HIDE DEF row
  <2>4. p \in Pubs => Hides(row, pub[p])
    BY <1>0, <2>3, HidingUpdates
  <2> HIDE DEF p
  <2>5. QED
    BY <2>2, <2>4, RowHides
<1>6. CASE ArchiveRow(x)
  <2>1. PICK p \in Pubs :
          \/ pub' = [pub EXCEPT ![p].status = "queued", ![p].unpub = TRUE]
          \/ pub' = [pub EXCEPT ![p].status = "deleted"]
    <3>1. PICK todo \in proc[x].todo :
            \/ pub' = [pub EXCEPT ![todo[1]].status = "queued", ![todo[1]].unpub = TRUE]
            \/ pub' = [pub EXCEPT ![todo[1]].status = "deleted"]
      BY <1>6 DEF ArchiveRow
    <3>2. todo[1] \in Pubs
      BY <1>0, <3>1 DEF ProcStates
    <3>3. QED
      BY <3>1, <3>2
  <2>2. PICK row \in {[pub[p] EXCEPT !.status = "queued", !.unpub = TRUE],
                      [pub[p] EXCEPT !.status = "deleted"]} :
          pub' = [pub EXCEPT ![p] = row]
    BY <1>0, <2>1
  <2>3. Hides(row, pub[p])
    BY <1>0, <2>2, HidingUpdates
  <2>4. QED
    BY <2>2, <2>3, RowHides
<1>7. QED
  BY <1>1, <1>2, <1>3, <1>4, <1>5, <1>6
     DEF Enqueuing, EnqueueStep, ChooseAction, FindJob, ResetJob, CreateJob,
         SetProjectQueued, LinkRow, CheckQueue, AddTask, FindDurable, EnqueueError,
         RequestThrows, RequestAborted, RequestRow, RequestPost, RequestArchive,
         ArchiveProject, Records

LEMMA WorksHides ==
  ASSUME MadeInv, NEW w \in Workers, Works(w), ~SyncRow(w)
  PROVE  RowsHide
<1>0. pub \in [Pubs -> Rows] /\ wk[w] \in WorkerStates /\ wk[w].seen \in Rows
  BY DEF MadeInv, TypeOK, WorkerStates
<1>1. CASE UNCHANGED pub
  BY <1>1 DEF RowsHide, Hides
<1>2. CASE RecordVerification(w)
  <2> DEFINE p == wk[w].hit
             b == wk[w].seen.unpub
             row == [pub[p] EXCEPT !.unpub = b]
  <2>1. pub' = [pub EXCEPT ![p] = row]
    BY <1>0, <1>2 DEF RecordVerification
  <2>2. b \in BOOLEAN
    BY <1>0 DEF Rows
  <2> HIDE DEF b
  <2>3. p \in Pubs => Hides(row, pub[p])
    BY <1>0, <2>2, HidingUpdates
  <2> HIDE DEF p, row
  <2>4. QED
    BY <2>1, <2>3, RowHides
<1>3. QED
  BY <1>1, <1>2
     DEF Works, TakeTask, SetProcessing, QueueProject, LookUpPage, ApproveDraft, SaveJob,
         FindRow, MarkProject, ReadForVerify, CompleteTask, FailTry, WorkerCrash, Records

\* Only the step that tells a row its page may show it, or give it an id.
LEMMA OnlyTellingShows ==
  ASSUME MadeInv, ToldInv, [Next]_vars, \A w \in Workers : ~SyncRow(w)
  PROVE  RowsHide
<1>0. pub \in [Pubs -> Rows] /\ handlers \subseteq HandlerStates
  BY DEF MadeInv, TypeOK
<1>1. CASE UNCHANGED pub
  BY <1>1 DEF RowsHide, Hides
<1>2. ASSUME NEW s \in Schedulers, Claim(s) PROVE RowsHide
  <2>1. \A p \in Pubs : pub'[p] = Claimed(pub[p]) \/ pub'[p] = pub[p]
    BY <1>2 DEF Claim
  <2>2. \A p \in Pubs : Hides(Claimed(pub[p]), pub[p]) /\ Hides(pub[p], pub[p])
    BY <1>0, HidingUpdates DEF Hides
  <2>3. QED
    BY <2>1, <2>2 DEF RowsHide
<1>3. ASSUME NEW h \in handlers, FailRow(h) PROVE RowsHide
  <2> DEFINE p == h.hit
             n == h.retries
             c == h.class
             row == AttemptFailed(pub[p], n, c, MaxRetries)
  <2>1. pub' = [pub EXCEPT ![p] = row]
    BY <1>0, <1>3 DEF FailRow
  <2>2. n \in Nat /\ c \in FailureClasses
    BY <1>0 DEF HandlerStates, FailureClasses
  <2> HIDE DEF n, c
  <2>3. p \in Pubs => Hides(row, pub[p])
    BY <1>0, <2>2, HidingUpdates
  <2> HIDE DEF p, row
  <2>4. QED
    BY <2>1, <2>3, RowHides
<1>4. ASSUME NEW s \in Schedulers, SchedulerStep(s) \/ EnqueueError(s) \/ TickAborted(s)
      PROVE  RowsHide
  <2>1. s \in Procs
    BY DEF Procs
  <2>2. Claim(s) \/ UNCHANGED pub \/ Enqueuing(s)
    BY <1>4 DEF SchedulerStep, Enqueuing, NextClaimed, TickAborted, Records
  <2>3. QED
    BY <1>1, <1>2, <2>1, <2>2, EnqueuingHides
<1>5. ASSUME NEW r \in Requests,
             \/ RequestRow(r) \/ RequestPost(r) \/ RequestArchive(r)
             \/ RequestStep(r) \/ EnqueueError(r) \/ RequestAborted(r)
      PROVE  RowsHide
  <2>1. r \in Procs
    BY DEF Procs
  <2>2. UNCHANGED pub \/ Enqueuing(r)
    BY <1>5 DEF RequestStep, Enqueuing, RequestEnqueue, Records
  <2>3. QED
    BY <1>1, <2>1, <2>2, EnqueuingHides
<1>6. ASSUME NEW w \in Workers, TakeTask(w) \/ TaskStep(w) \/ RecoverStalled(w) \/ WorkerCrash(w)
      PROVE  RowsHide
  <2>1. UNCHANGED pub \/ Works(w)
    BY <1>6 DEF TaskStep, Works, CallSite, RecoverStalled, Records
  <2>2. QED
    BY <1>1, <2>1, WorksHides
<1>7. ASSUME NEW h \in handlers, HandlerStep(h) PROVE RowsHide
  <2>1. UNCHANGED pub \/ FailRow(h)
    BY <1>7 DEF HandlerStep, FailJob, FailProject, FindFailedRow, Records
  <2>2. QED
    BY <1>1, <1>3, <2>1
<1>8. ASSUME NEW t \in TaskIds, DelayOver(t) PROVE RowsHide
  BY <1>1, <1>8 DEF DelayOver, Records
<1>9. QED
  BY <1>1, <1>4, <1>5, <1>6, <1>7, <1>8 DEF Next, vars

\* What the row is told is the page the worker has an id of; a withdrawal tells
\* it nothing.
LEMMA TellingRow ==
  ASSUME MadeInv, ToldInv, NEW w \in Workers, SyncRow(w)
  PROVE  \/ RowsHide
         \/ /\ wk[w].hit \in rows
            /\ pub'[wk[w].hit].ext \in 1 .. pages
            /\ \A q \in Pubs : q # wk[w].hit => pub'[q] = pub[q]
<1> DEFINE p == wk[w].hit
           seen == wk[w].seen
           status == StatusOf(w)
           page == PageOf(w)
           ext == Recorded(page, seen.ext)
           row == Synced(pub[p], seen, status, page)
<1>0. pub \in [Pubs -> Rows] /\ rows \subseteq Pubs /\ wk[w] \in WorkerStates /\ pages \in Nat
  BY DEF MadeInv, TypeOK
<1>1. p \in rows /\ pub' = [pub EXCEPT ![p] = row]
  BY <1>0 DEF SyncRow, ToldInv, Told
<1>2. status \in {"canceled", "draft_synced", "published"}
  BY StatusTypes
<1>3. ext = page /\ page \in 1 .. pages
  <2>1. page # 0
    BY DEF PageOf, ToldInv, Told, SyncRow
  <2>2. page \in Nat /\ page <= pages
    BY <1>0, PageOfMade
  <2>3. QED
    BY <1>0, <2>1, <2>2 DEF Recorded
<1> HIDE DEF p, status, page
<1>4. CASE status = "canceled"
  <2>1. row \in {[pub[p] EXCEPT !.status = "unpublished"], [pub[p] EXCEPT !.status = "canceled"]}
    BY <1>4 DEF Synced
  <2> HIDE DEF row
  <2>2. p \in Pubs => Hides(row, pub[p])
    BY <1>0, <2>1, HidingUpdates
  <2>3. QED
    BY <1>1, <2>2, RowHides
<1>5. CASE status # "canceled"
  <2>1. row \in {[pub[p] EXCEPT !.status = "published", !.ext = ext, !.class = "none"],
                 [pub[p] EXCEPT !.status = "ready", !.ext = ext]}
    BY <1>2, <1>5 DEF Synced
  <2> HIDE DEF row, ext
  <2>2. row.ext = ext
    BY <1>0, <1>1, <2>1 DEF Rows
  <2>3. p \in rows /\ pub'[p].ext \in 1 .. pages /\ \A q \in Pubs : q # p => pub'[q] = pub[q]
    BY <1>0, <1>1, <1>3, <2>2
  <2>4. QED
    BY <2>3 DEF p
<1>6. QED
  BY <1>4, <1>5

-----------------------------------------------------------------------------
(* The invariant *)

LEMMA ToldInit == Init => ToldInv
<1> SUFFICES ASSUME Init PROVE ToldInv
  OBVIOUS
<1>1. \A w \in Workers : Told(wk[w], rows)
  BY InitialValues DEF Init, Told
<1>2. \A p \in Pubs : pub[p].ext = 0
  BY InitialValues DEF Init, CreatedRows, States
<1>3. QED
  BY <1>1, <1>2 DEF ToldInv

LEMMA RowsGrow == ASSUME MadeInv, [Next]_vars PROVE rows \subseteq rows'
  BY ZenonT(60) DEF Next, vars, SchedulerStep, RequestStep, EnqueueStep, TaskStep, HandlerStep, Claim,
         NextClaimed, CatchEnqueue, TickAborted, RequestAborted, ArchiveRow,
         ArchiveProject, ChooseAction, FindJob, ResetJob, CreateJob,
         SetProjectQueued, LinkRow, CheckQueue, AddTask, FindDurable, CreateDurable,
         MarkDurable, EnqueueError, RequestThrows, RequestRow, RequestWrite, RequestEnqueue,
         RequestPost, RequestArchive, TakeTask, SetProcessing, QueueProject, LookUpPage,
         CallSite, ApproveDraft, SaveJob, FindRow, SyncRow, MarkProject,
         ReadForVerify, RecordVerification, CompleteTask, FailTry, WorkerCrash, RecoverStalled,
         DelayOver, FailJob, FailProject, FindFailedRow, FailRow, Records

\* The only step to "called" without an id is the one whose answer is lost.
LEMMA ToldWorker ==
  ASSUME MadeInv, ToldInv, NEW w \in Workers, Works(w) \/ (CallSite(w) /\ faults' = faults)
  PROVE  Told(wk'[w], rows)
<1>0. /\ wk \in [Workers -> WorkerStates] /\ Told(wk[w], rows) /\ WorkerFine(wk[w], pages)
      /\ faults \in Nat /\ pages \in Nat
  BY DEF MadeInv, TypeOK, WorkersFine, ToldInv
<1>1. CASE CompleteTask(w) \/ FailTry(w) \/ WorkerCrash(w)
  BY <1>0, <1>1, InitialValues DEF CompleteTask, FailTry, WorkerCrash, Told
<1>2. CASE TakeTask(w)
  <2>1. wk'[w].pc = "taken"
    BY <1>0, <1>2 DEF TakeTask, WorkerIdle
  <2>2. QED
    BY <2>1 DEF Told
<1>3. CASE \/ SetProcessing(w) \/ QueueProject(w) \/ LookUpPage(w) \/ SyncRow(w)
           \/ MarkProject(w) \/ ReadForVerify(w) \/ RecordVerification(w)
  <2>1. wk'[w].pc \in {"processing", "queued", "ready", "synced", "marked", "finished", "verifying"}
    BY <1>0, <1>3, ZenonT(60) DEF SetProcessing, QueueProject, LookUpPage, SyncRow, MarkProject,
         ReadForVerify, RecordVerification, WorkerStates
  <2>2. QED
    BY <2>1 DEF Told
<1>4. CASE ApproveDraft(w) \/ SaveJob(w)
  <2>1. /\ wk'[w].pc \in {"called", "saved"}
        /\ wk'[w].post = wk[w].post /\ wk'[w].ext = wk[w].ext
    BY <1>0, <1>4 DEF ApproveDraft, SaveJob, WorkerStates
  <2>2. wk[w].post # 0 \/ wk[w].ext # 0
    BY <1>0, <1>4 DEF ApproveDraft, SaveJob, Told, WorkerFine
  <2>3. QED
    BY <2>1, <2>2 DEF Told
<1>5. CASE FindRow(w)
  <2>1. /\ wk'[w].pc = "synced" \/ (wk'[w].pc = "found" /\ wk'[w].hit \in rows)
        /\ wk'[w].post = wk[w].post /\ wk'[w].ext = wk[w].ext
    <3>1. CASE wk' = [wk EXCEPT ![w].pc = "synced"]
      BY <1>0, <3>1 DEF WorkerStates
    <3>2. ASSUME NEW p \in rows,
                 wk' = [wk EXCEPT ![w].pc = "found", ![w].hit = p, ![w].seen = pub[p]]
          PROVE  /\ wk'[w].pc = "found" /\ wk'[w].hit \in rows
                 /\ wk'[w].post = wk[w].post /\ wk'[w].ext = wk[w].ext
      BY <1>0, <3>2 DEF WorkerStates
    <3>3. QED
      BY <1>5, <3>1, <3>2 DEF FindRow, LinkedTo
  <2>2. wk[w].post # 0 \/ wk[w].ext # 0
    BY <1>0, <1>5 DEF FindRow, Told
  <2>3. QED
    BY <2>1, <2>2 DEF Told
<1>6. CASE CallSite(w) /\ faults' = faults
  <2>1. \/ \E next \in {"drafted", "called"} :
             wk' = [wk EXCEPT ![w].pc = next, ![w].post = pages + 1]
        \/ wk[w].ext # 0 /\ wk' = [wk EXCEPT ![w].pc = "called"]
    BY <1>0, <1>6 DEF CallSite, PageMade, PageChanged, Fault
  <2>2. wk'[w].pc \in {"drafted", "called"} /\ (wk'[w].post # 0 \/ wk'[w].ext # 0)
    BY <1>0, <2>1 DEF WorkerStates
  <2>3. QED
    BY <2>2 DEF Told
<1>7. QED
  BY <1>1, <1>2, <1>3, <1>4, <1>5, <1>6 DEF Works

LEMMA OtherWorkers ==
  ASSUME MadeInv, NEW w \in Workers, Works(w) \/ CallSite(w)
  PROVE  \A v \in Workers : v # w => wk'[v] = wk[v]
  BY DEF MadeInv, TypeOK, Works, CallSite, PageMade, PageChanged, TakeTask, SetProcessing,
         QueueProject, LookUpPage, ApproveDraft, SaveJob, FindRow, SyncRow, MarkProject,
         ReadForVerify, RecordVerification, CompleteTask, FailTry, WorkerCrash

\* Nobody but a worker changes what a worker knows.
LEMMA WorkersAlone ==
  ASSUME [Next]_vars, \A w \in Workers : ~Works(w) /\ ~CallSite(w)
  PROVE  UNCHANGED wk
  BY ZenonT(60) DEF Next, vars, SchedulerStep, RequestStep, EnqueueStep, TaskStep, HandlerStep, Claim,
         NextClaimed, CatchEnqueue, TickAborted, RequestAborted, ArchiveRow,
         ArchiveProject, ChooseAction, FindJob, ResetJob, CreateJob,
         SetProjectQueued, LinkRow, CheckQueue, AddTask, FindDurable, CreateDurable,
         MarkDurable, EnqueueError, RequestThrows, RequestRow, RequestWrite, RequestEnqueue,
         RequestPost, RequestArchive, Works, RecoverStalled,
         DelayOver, FailJob, FailProject, FindFailedRow, FailRow, WorkerSide

LEMMA ToldNext ==
  ASSUME MadeInv, ToldInv, [Next]_vars, faults' = faults
  PROVE  ToldInv'
<1>0. rows \subseteq rows' /\ rows \subseteq Pubs /\ pub \in [Pubs -> Rows]
  BY RowsGrow DEF MadeInv, TypeOK
<1>1. \A w \in Workers : Told(wk'[w], rows')
  <2>1. \A r : Told(r, rows) => Told(r, rows')
    BY <1>0 DEF Told
  <2>2. CASE \A w \in Workers : ~Works(w) /\ ~CallSite(w)
    BY <2>1, <2>2, WorkersAlone DEF ToldInv
  <2>3. ASSUME NEW w \in Workers, Works(w) \/ CallSite(w)
        PROVE  \A v \in Workers : Told(wk'[v], rows')
    BY <2>1, <2>3, ToldWorker, OtherWorkers DEF ToldInv
  <2>4. QED
    BY <2>2, <2>3
<1>2. \A p \in Pubs \ rows' : pub'[p].ext = 0
  <2>1. CASE RowsHide
    BY <1>0, <2>1 DEF RowsHide, Hides, ToldInv
  <2>2. ASSUME NEW w \in Workers, SyncRow(w), ~RowsHide
        PROVE  \A p \in Pubs \ rows' : pub'[p].ext = 0
    BY <1>0, <2>2, TellingRow DEF ToldInv
  <2>3. QED
    BY <2>1, <2>2, OnlyTellingShows
<1>3. QED
  BY <1>1, <1>2 DEF ToldInv

-----------------------------------------------------------------------------
(* Every step is one of Delivery, or none *)

LEMMA PagesKept ==
  ASSUME MadeInv, [Next]_vars, \A w \in Workers : ~CallSite(w)
  PROVE  UNCHANGED pages
  BY ZenonT(60) DEF Next, vars, SchedulerStep, RequestStep, EnqueueStep, TaskStep, HandlerStep, Claim,
         NextClaimed, CatchEnqueue, TickAborted, RequestAborted, ArchiveRow,
         ArchiveProject, ChooseAction, FindJob, ResetJob, CreateJob,
         SetProjectQueued, LinkRow, CheckQueue, AddTask, FindDurable, CreateDurable,
         MarkDurable, EnqueueError, RequestThrows, RequestRow, RequestWrite, RequestEnqueue,
         RequestPost, RequestArchive, TakeTask, SetProcessing, QueueProject, LookUpPage,
         ApproveDraft, SaveJob, FindRow, SyncRow, MarkProject,
         ReadForVerify, RecordVerification, CompleteTask, FailTry, WorkerCrash, RecoverStalled,
         DelayOver, FailJob, FailProject, FindFailedRow, FailRow, WorkerSide

LEMMA HidingHides ==
  ASSUME MadeInv, RowsHide, UNCHANGED pages
  PROVE  Promise!Next
<1>1. UNCHANGED ExternalIds /\ Published' \subseteq Published
  BY DEF RowsHide, Hides, ExternalIds, Published
<1>2. QED
  BY <1>1 DEF Promise!Next, Promise!Hide

LEMMA TellingConfirms ==
  ASSUME MadeInv, ToldInv, NEW w \in Workers, SyncRow(w)
  PROVE  Promise!Next
<1>0. UNCHANGED pages /\ rows \subseteq Pubs
  BY DEF SyncRow, MadeInv, TypeOK
<1>1. CASE RowsHide
  BY <1>0, <1>1, HidingHides
<1>2. CASE ~RowsHide
  <2> DEFINE p == wk[w].hit
  <2>1. p \in Pubs /\ pub'[p].ext \in 1 .. pages /\ \A q \in Pubs : q # p => pub'[q] = pub[q]
    BY <1>0, <1>2, TellingRow
  <2> HIDE DEF p
  <2>2. ExternalIds' = [ExternalIds EXCEPT ![p] = pub'[p].ext]
    BY <2>1 DEF ExternalIds
  <2>3. Published' \in {Published \cup {p}, Published \ {p}}
    <3>1. CASE pub'[p].status = "published"
      BY <2>1, <3>1 DEF Published
    <3>2. CASE pub'[p].status # "published"
      BY <2>1, <3>2 DEF Published
    <3>3. QED
      BY <3>1, <3>2
  <2>4. Promise!Confirm(p)
    BY <1>0, <2>1, <2>2, <2>3 DEF Promise!Confirm
  <2>5. QED
    BY <2>1, <2>4 DEF Promise!Next
<1>3. QED
  BY <1>1, <1>2

\* A page that is made is for every row of the version.
LEMMA PageSends ==
  ASSUME MadeInv, NEW w \in Workers, CallSite(w)
  PROVE  [Promise!Next]_Promise!vars
<1>1. UNCHANGED <<ExternalIds, Published>>
  BY DEF CallSite, Records, ExternalIds, Published
<1>2. CASE UNCHANGED pages
  BY <1>1, <1>2 DEF Promise!vars
<1>3. CASE pages' = pages + 1
  <2>1. Promise!Send(Pubs)
    BY <1>1, <1>3 DEF Promise!Send
  <2>2. QED
    BY <2>1 DEF Promise!Next
<1>4. QED
  BY <1>2, <1>3 DEF CallSite, PageMade, PageChanged

\* As long as no answer is lost, the website pipeline implements Delivery, for any
\* schedulers, requests, workers and operations, whoever crashes and whatever the
\* site refuses: a row is shown as published only by the step that tells it the id
\* of a page the site has made, and it never forgets that it was told one
\* (syncDurablePublication, linkDurableWebsitePublication).
THEOREM WebsiteDelivers == Spec /\ [](faults = 0) => Delivers
<1>1. Init => Promise!Init
  BY DEF Init, CreatedRows, NewRow, Promise!Init, ExternalIds, Published
<1>2. MadeInv /\ ToldInv /\ [Next]_vars /\ faults = 0 /\ (faults = 0)' => ToldInv'
  BY ToldNext
<1>3. MadeInv /\ ToldInv /\ [Next]_vars => [Promise!Next]_Promise!vars
  <2> SUFFICES ASSUME MadeInv, ToldInv, [Next]_vars PROVE [Promise!Next]_Promise!vars
    OBVIOUS
  <2>1. CASE \E w \in Workers : SyncRow(w)
    BY <2>1, TellingConfirms
  <2>2. CASE \E w \in Workers : CallSite(w)
    BY <2>2, PageSends
  <2>3. CASE \A w \in Workers : ~SyncRow(w) /\ ~CallSite(w)
    BY <2>3, OnlyTellingShows, PagesKept, HidingHides
  <2>4. QED
    BY <2>1, <2>2, <2>3
<1>4. QED
  BY <1>1, <1>2, <1>3, ToldInit, MadeAlways, PTL DEF Spec, Delivers, Promise!Spec

-----------------------------------------------------------------------------
(* One row goes from hand to hand: it is due, the scheduler has it, a task has *)
(* it, or the listener of the task that failed, and only one of these at a     *)
(* time, until its publication job is over.                                    *)

\* One row, one scheduler whose tasks are tried once, and operators who cancel or
\* delete. With two rows syncDurablePublication updates only one of those linked
\* to a job; rescheduling writes over a row that the scheduler has claimed.
OneLine ==
  /\ OneEnqueuer /\ Operations \subseteq {"cancel", "delete"}
  /\ \A p, q \in Pubs : p = q

\* The four places where the work on the row can be, and the end of it.
Due == \E p \in rows : Claimable(pub[p])
Ticking == \E s \in Schedulers : batch[s] # {} \/ proc[s].pc # "idle"
Tasked == \E t \in TaskIds : TaskLive(t)
Listening == handlers # {}
Over == job["publish"].status = "published"

OneHand ==
  /\ Due => ~Ticking /\ ~Tasked /\ ~Listening
  /\ Ticking => ~Tasked /\ ~Listening
  /\ Tasked => ~Listening
  /\ Over => ~Due /\ ~Ticking /\ ~Listening
  /\ \A g, h \in handlers : g = h

\* All work is under the key of the publish operation, and is not a draft.
OnlyPublishes ==
  /\ \A t \in TaskIds : task[t].key \in {"publish", None}
  /\ \A s \in Schedulers : proc[s].pc \in Keyed => proc[s].key = "publish"
  /\ \A s \in Schedulers : proc[s].pc # "link"
  /\ \A s \in Schedulers : batch[s] # {} => proc[s].pc = "idle"
  /\ \A r \in Requests : proc[r].pc = "write" => proc[r].op \in {"cancel", "delete"}
  /\ job["publish"].status # "draft_synced"

\* Whoever works on the row has it linked by the time there is a task.
RowLinked ==
  /\ \A s \in Schedulers : /\ batch[s] \subseteq rows
                           /\ proc[s].pc # "idle" => proc[s].pub \in rows
                           /\ proc[s].pc \in {"check", "add"} => link[proc[s].pub] = "publish"
  /\ Tasked \/ Listening => \A p \in Pubs : p \in rows /\ link[p] = "publish"

\* Where a worker is that has brought the row up to date.
Synchronised == {"synced", "marked", "verifying", "finished"}

\* The row that a worker or a listener has found exists.
HitsRow ==
  /\ \A w \in Workers : wk[w].pc = "found" => wk[w].hit \in rows
  /\ \A h \in handlers : h.pc = "read" => h.hit \in rows

\* A row that waits is with somebody who will come back to it, and one that is
\* published has its project marked or about to be.
RowFollowed == \A p \in rows :
  /\ pub[p].status # "publishing"
  /\ pub[p].ext # 0 \/ pub[p].status = "published" => Over
  /\ pub[p].status = "queued" =>
       Ticking \/ Listening \/ (Tasked /\ \A w \in Workers : wk[w].pc \notin Synchronised)
  /\ pub[p].status = "published" => project = "published" \/ \E w \in Workers : wk[w].pc = "synced"

LineInv == OneHand /\ OnlyPublishes /\ RowLinked /\ HitsRow /\ RowFollowed

LEMMA LineInit == Init => LineInv
<1> SUFFICES ASSUME Init PROVE LineInv
  OBVIOUS
<1>1. ~Ticking /\ ~Tasked /\ ~Listening /\ ~Over
  BY DEF Init, Ticking, Tasked, Listening, Over, Procs, ProcIdle, TaskLive, JobLive, NoJob, Keys
<1>2. /\ \A w \in Workers : wk[w].pc = "idle"
      /\ \A x \in Procs : proc[x].pc = "idle"
      /\ Schedulers \subseteq Procs /\ Requests \subseteq Procs
      /\ handlers = {} /\ rows \subseteq Pubs /\ "publish" \in Keys
      /\ \A s \in Schedulers : batch[s] = {}
  BY DEF Init, WorkerIdle, ProcIdle, Procs, Keys
<1>3. OneHand /\ RowLinked /\ HitsRow
  BY <1>1, <1>2 DEF OneHand, RowLinked, HitsRow
<1>4. OnlyPublishes
  BY <1>2 DEF Init, OnlyPublishes, Keyed
<1>5. RowFollowed
  <2>1. \A p \in rows : pub[p].ext = 0 /\ pub[p].status \in {"draft", "scheduled"}
    BY <1>2 DEF Init, CreatedRows, NewRow
  <2>2. QED
    BY <2>1 DEF RowFollowed
<1>6. QED
  BY <1>3, <1>4, <1>5 DEF LineInv

LEMMA LineTypes ==
  ASSUME MadeInv
  PROVE  /\ proc \in [Procs -> ProcStates] /\ batch \in [Schedulers -> SUBSET Pubs]
         /\ pub \in [Pubs -> Rows] /\ rows \subseteq Pubs
         /\ link \in [Pubs -> Keys \cup {None}] /\ job \in [Keys -> PublicationJobs]
         /\ task \in [TaskIds -> Tasks] /\ wk \in [Workers -> WorkerStates]
         /\ handlers \subseteq HandlerStates /\ "publish" \in Keys
         /\ Schedulers \subseteq Procs /\ Requests \subseteq Procs
         /\ \A s \in Schedulers : s \notin Requests
  BY ConstantsAssumption DEF MadeInv, TypeOK, Procs, Keys

\* While the scheduler has the row, nobody else has it and no job is over.
LEMMA TickAlone ==
  ASSUME OneLine, MadeInv, QueueInv, LineInv, NEW s \in Schedulers,
         batch[s] # {} \/ proc[s].pc # "idle"
  PROVE  /\ \A t \in Schedulers : t = s
         /\ handlers = {} /\ (\A t \in TaskIds : ~TaskLive(t))
         /\ \A w \in Workers : wk[w].pc = "idle"
         /\ ~Over /\ \A p \in rows : ~Claimable(pub[p]) /\ pub[p].ext = 0 /\ pub[p].status # "published"
<1>1. Ticking /\ ~Tasked /\ ~Listening /\ ~Over /\ ~Due
  BY DEF Ticking, LineInv, OneHand
<1>2. handlers = {} /\ \A t \in TaskIds : ~TaskLive(t)
  BY <1>1 DEF Tasked, Listening
<1>3. \A w \in Workers : wk[w].pc = "idle"
  BY <1>2, HolderAlone
<1>4. QED
  BY <1>1, <1>2, <1>3 DEF OneLine, OneEnqueuer, Due, LineInv, RowFollowed

\* While a worker has it, nobody else has.
LEMMA WorkAlone ==
  ASSUME OneLine, MadeInv, QueueInv, LineInv, NEW w \in Workers, wk[w].pc # "idle"
  PROVE  /\ \A s \in Schedulers : batch[s] = {} /\ proc[s].pc = "idle"
         /\ handlers = {} /\ KeyOf(w) = "publish" /\ wk[w].task \in TaskIds
         /\ job["publish"].status = JobAt(wk[w].pc)
         /\ \A t \in TaskIds : TaskLive(t) => t = wk[w].task
         /\ TaskLive(wk[w].task)
         /\ \A v \in Workers : v # w => wk[v].pc = "idle"
         /\ \A p \in Pubs : p \in rows /\ link[p] = "publish" /\ ~Claimable(pub[p])
         /\ \A p \in rows : /\ pub[p].ext # 0 => JobAt(wk[w].pc) = "published"
                            /\ pub[p].status = "published" => JobAt(wk[w].pc) = "published"
                            /\ pub[p].status = "queued" => wk[w].pc \notin Synchronised
                            /\ pub[p].status = "published" => project = "published" \/ wk[w].pc = "synced"
<1>1. /\ wk[w].task \in TaskIds /\ TaskLive(wk[w].task) /\ KeyOf(w) \in Keys
      /\ job[KeyOf(w)].status = JobAt(wk[w].pc)
      /\ \A t \in TaskIds : TaskLive(t) /\ task[t].key = KeyOf(w) => t = wk[w].task
      /\ \A v \in Workers : wk[v].pc # "idle" /\ KeyOf(v) = KeyOf(w) => v = w
  BY HolderAlone
<1>2. None \notin Keys
  BY ConstantsAssumption
<1>3. \A t \in TaskIds : TaskLive(t) => task[t].key = "publish"
  BY <1>2 DEF QueueInv, LiveTasks, LineInv, OnlyPublishes
<1>4. Tasked /\ ~Due /\ ~Ticking /\ ~Listening
  BY <1>1 DEF Tasked, LineInv, OneHand
<1>5. \A v \in Workers : wk[v].pc # "idle" => KeyOf(v) = "publish"
  BY <1>3, HolderAlone DEF KeyOf
<1>6. Over => JobAt(wk[w].pc) = "published"
  BY <1>1, <1>5 DEF Over
<1>7. QED
  BY <1>1, <1>3, <1>4, <1>5, <1>6, LineTypes
     DEF Due, Ticking, Listening, LineInv, RowLinked, RowFollowed

\* The listener is the last one.
LEMMA ListenAlone ==
  ASSUME OneLine, MadeInv, QueueInv, LineInv, NEW h \in handlers
  PROVE  /\ \A s \in Schedulers : batch[s] = {} /\ proc[s].pc = "idle"
         /\ handlers = {h} /\ KeyOfHandler(h) = "publish"
         /\ (\A t \in TaskIds : ~TaskLive(t))
         /\ \A w \in Workers : wk[w].pc = "idle"
         /\ \A p \in Pubs : p \in rows /\ link[p] = "publish" /\ ~Claimable(pub[p])
         /\ ~Over /\ \A p \in rows : pub[p].ext = 0 /\ pub[p].status # "published"
<1>1. Listening /\ ~Due /\ ~Ticking /\ ~Tasked /\ ~Over
  BY DEF Listening, LineInv, OneHand
<1>2. \A w \in Workers : wk[w].pc = "idle"
  BY <1>1, HolderAlone DEF Tasked
<1>3. None \notin Keys
  BY ConstantsAssumption
<1>4. KeyOfHandler(h) = "publish"
  BY <1>3, QueueTypes DEF QueueInv, Listeners, LineInv, OnlyPublishes, KeyOfHandler
<1>5. handlers = {h}
  BY DEF LineInv, OneHand
<1>6. QED
  BY <1>1, <1>2, <1>4, <1>5, LineTypes
     DEF Due, Ticking, Tasked, LineInv, RowLinked, RowFollowed

\* The scheduler goes on and keeps the row.
LEMMA LineTickMoves ==
  ASSUME OneLine, MadeInv, QueueInv, LineInv, NEW s \in Schedulers,
         batch[s] # {} \/ proc[s].pc # "idle",
         UNCHANGED <<task, wk, handlers, rows, pub>>,
         NEW r, proc' = [proc EXCEPT ![s] = r],
         batch' \in [Schedulers -> SUBSET Pubs], batch'[s] \subseteq rows,
         r.pc # "idle", r.pc # "link", batch'[s] = {}, r.pub \in rows,
         r.pc \in Keyed => r.key = "publish",
         r.pc \in {"check", "add"} => link'[r.pub] = "publish",
         job'["publish"].status \notin {"published", "draft_synced"}
  PROVE  LineInv'
<1>0. /\ \A t \in Schedulers : t = s
      /\ handlers = {} /\ (\A t \in TaskIds : ~TaskLive(t))
      /\ \A w \in Workers : wk[w].pc = "idle"
      /\ \A p \in rows : ~Claimable(pub[p]) /\ pub[p].ext = 0 /\ pub[p].status # "published"
      /\ s \in Procs /\ \A q \in Requests : q # s /\ q \in Procs
      /\ proc \in [Procs -> ProcStates]
  BY TickAlone, LineTypes
<1>1. proc'[s] = r /\ \A q \in Requests : proc'[q] = proc[q]
  BY <1>0
<1>2. Ticking' /\ ~Tasked' /\ ~Listening' /\ ~Over' /\ ~Due'
  BY <1>0, <1>1 DEF Ticking, Tasked, TaskLive, Listening, Over, Due
<1>3. OneHand'
  BY <1>0, <1>2 DEF OneHand
<1>4. OnlyPublishes'
  BY <1>0, <1>1 DEF LineInv, OnlyPublishes
<1>5. RowLinked' /\ HitsRow'
  BY <1>0, <1>1, <1>2 DEF RowLinked, HitsRow
<1>6. RowFollowed'
  BY <1>0, <1>2 DEF LineInv, RowFollowed
<1>7. QED
  BY <1>3, <1>4, <1>5, <1>6 DEF LineInv

LEMMA LineClaim ==
  ASSUME OneLine, MadeInv, QueueInv, LineInv, NEW s \in Schedulers, Claim(s)
  PROVE  LineInv'
<1>0. /\ s \in Procs /\ proc \in [Procs -> ProcStates] /\ pub \in [Pubs -> Rows]
      /\ batch \in [Schedulers -> SUBSET Pubs] /\ rows \subseteq Pubs
      /\ \A t \in Schedulers : t = s
      /\ UNCHANGED <<job, task, wk, handlers, rows, link, proc, project>>
      /\ proc[s].pc = "idle"
  BY LineTypes DEF OneLine, OneEnqueuer, Claim, Queue, WorkerSide
<1>1. PICK due \in SUBSET {p \in rows : Claimable(pub[p])} :
        /\ due # {}
        /\ pub' = [p \in Pubs |-> IF p \in due THEN Claimed(pub[p]) ELSE pub[p]]
        /\ batch' = [batch EXCEPT ![s] = due]
  BY DEF Claim
<1>2. Due
  BY <1>1 DEF Due
<1>3. ~Ticking /\ ~Tasked /\ ~Listening /\ ~Over
  BY <1>2 DEF LineInv, OneHand
<1>4. \A p \in rows : p \in due
  BY <1>0, <1>1 DEF OneLine
<1>5. batch'[s] = due
  BY <1>0, <1>1
<1>6. \A p \in rows : pub'[p].status = "queued" /\ pub'[p].ext = pub[p].ext
  BY <1>0, <1>1, <1>4 DEF Claimed, Rows
<1>7. Ticking' /\ ~Tasked' /\ ~Listening' /\ ~Over' /\ ~Due'
  BY <1>0, <1>1, <1>3, <1>5, <1>6 DEF Ticking, Tasked, TaskLive, Listening, Over, Due, Claimable
<1>8. OneHand'
  BY <1>0, <1>7 DEF LineInv, OneHand
<1>9. OnlyPublishes'
  BY <1>0 DEF LineInv, OnlyPublishes
<1>10. RowLinked' /\ HitsRow'
  BY <1>0, <1>1, <1>5, <1>7 DEF LineInv, RowLinked, HitsRow
<1>11. RowFollowed'
  BY <1>0, <1>3, <1>6, <1>7 DEF LineInv, RowFollowed, Over
<1>12. QED
  BY <1>8, <1>9, <1>10, <1>11 DEF LineInv

LEMMA LineCatch ==
  ASSUME OneLine, MadeInv, QueueInv, LineInv, NEW s \in Schedulers, CatchEnqueue(s)
  PROVE  LineInv'
<1>0. /\ s \in Procs /\ proc \in [Procs -> ProcStates] /\ pub \in [Pubs -> Rows]
      /\ batch \in [Schedulers -> SUBSET Pubs] /\ rows \subseteq Pubs
      /\ \A q \in Requests : q # s /\ q \in Procs
      /\ UNCHANGED <<job, task, wk, handlers, rows, link, batch, project>>
      /\ proc[s].pc \in {"blocked", "error"} /\ ProcIdle.pc = "idle"
      /\ proc' = [proc EXCEPT ![s] = ProcIdle]
  BY LineTypes DEF CatchEnqueue, Queue, WorkerSide, ProcIdle
<1>1. /\ \A t \in Schedulers : t = s
      /\ handlers = {} /\ (\A t \in TaskIds : ~TaskLive(t))
      /\ \A w \in Workers : wk[w].pc = "idle"
      /\ ~Over /\ \A p \in rows : ~Claimable(pub[p]) /\ pub[p].ext = 0 /\ pub[p].status # "published"
  BY <1>0, TickAlone
<1>2. proc'[s].pc = "idle" /\ \A q \in Requests : proc'[q] = proc[q]
  BY <1>0
<1>3. batch[s] = {} /\ proc[s].pub \in rows
  BY <1>0 DEF LineInv, OnlyPublishes, RowLinked
<1>4. \A p \in rows : p = proc[s].pub
  BY <1>0, <1>3 DEF OneLine
<1>5. \A p \in rows : pub'[p].status \in {"ready", "failed"} /\ pub'[p].ext = 0
  <2>1. PICK old \in Rows : old = pub[proc[s].pub] /\ old.ext = 0
    BY <1>0, <1>1, <1>3
  <2>2. /\ ReleaseBlocked(old).status = "ready" /\ ReleaseBlocked(old).ext = 0
        /\ EnqueueFailed(old).status = "failed" /\ EnqueueFailed(old).ext = 0
    BY <2>1 DEF ReleaseBlocked, EnqueueFailed, Rows
  <2>3. pub'[proc[s].pub] \in {ReleaseBlocked(old), EnqueueFailed(old)}
    BY <1>0, <1>3, <2>1 DEF CatchEnqueue
  <2>4. QED
    BY <1>4, <2>2, <2>3
<1>6. ~Ticking' /\ ~Tasked' /\ ~Listening' /\ ~Over'
  BY <1>0, <1>1, <1>2, <1>3 DEF Ticking, Tasked, TaskLive, Listening, Over
<1>7. OneHand'
  BY <1>0, <1>1, <1>6 DEF OneHand
<1>8. OnlyPublishes'
  BY <1>0, <1>1, <1>2 DEF LineInv, OnlyPublishes, Keyed
<1>9. RowLinked' /\ HitsRow'
  BY <1>0, <1>1, <1>2, <1>3, <1>6 DEF RowLinked, HitsRow
<1>10. RowFollowed'
  BY <1>0, <1>5 DEF RowFollowed
<1>11. QED
  BY <1>7, <1>8, <1>9, <1>10 DEF LineInv

LEMMA LineAddsTask ==
  ASSUME OneLine, MadeInv, UpInv, QueueInv, LineInv, NEW s \in Schedulers, AddTask(s)
  PROVE  LineInv'
<1>0. /\ s \in Procs /\ proc \in [Procs -> ProcStates] /\ pub \in [Pubs -> Rows]
      /\ batch \in [Schedulers -> SUBSET Pubs] /\ rows \subseteq Pubs
      /\ task \in [TaskIds -> Tasks]
      /\ \A q \in Requests : q # s /\ q \in Procs
      /\ UNCHANGED <<job, wk, handlers, rows, pub, link, batch, project>>
      /\ proc[s].pc = "add" /\ proc[s].op = "publish"
  BY LineTypes DEF AddTask, Queue, Records, WorkerSide, QueueInv, Enqueuers
<1>1. /\ \A t \in Schedulers : t = s
      /\ handlers = {} /\ (\A t \in TaskIds : ~TaskLive(t))
      /\ \A w \in Workers : wk[w].pc = "idle"
      /\ ~Over /\ \A p \in rows : ~Claimable(pub[p]) /\ pub[p].ext = 0 /\ pub[p].status # "published"
  BY <1>0, TickAlone
<1>2. proc' = [proc EXCEPT ![s] = ProcIdle] /\ ProcIdle.pc = "idle"
  BY <1>0 DEF AddTask, Afterwards, ProcEnd, ProcIdle, PostOperations
<1>3. proc'[s].pc = "idle" /\ \A q \in Requests : proc'[q] = proc[q]
  BY <1>0, <1>2
<1>4. /\ batch[s] = {} /\ proc[s].pub \in rows /\ link[proc[s].pub] = "publish"
      /\ proc[s].key = "publish"
  BY <1>0 DEF LineInv, OnlyPublishes, RowLinked, Keyed
<1>5. PICK t \in TaskIds, new \in {Added(NoJob)} :
        task' = [task EXCEPT ![t] = [key |-> "publish", job |-> new]]
  BY <1>4 DEF AddTask, NewTask
<1>6. TaskLive(t)'
  BY <1>0, <1>5 DEF TaskLive, JobLive, Added, NoJob
<1>7. ~Ticking' /\ Tasked' /\ ~Listening' /\ ~Over' /\ ~Due'
  BY <1>0, <1>1, <1>3, <1>4, <1>6 DEF Ticking, Tasked, Listening, Over, Due
<1>8. OneHand'
  BY <1>0, <1>1, <1>7 DEF OneHand
<1>9. OnlyPublishes'
  BY <1>0, <1>1, <1>3, <1>5 DEF LineInv, OnlyPublishes, Keyed
<1>10. \A p \in Pubs : p \in rows /\ link[p] = "publish"
  BY <1>0, <1>4 DEF OneLine
<1>11. RowLinked' /\ HitsRow'
  BY <1>0, <1>1, <1>3, <1>4, <1>10 DEF RowLinked, HitsRow
<1>12. RowFollowed'
  BY <1>0, <1>1, <1>7 DEF LineInv, RowFollowed, Synchronised
<1>13. QED
  BY <1>8, <1>9, <1>11, <1>12 DEF LineInv

LEMMA LineScheduler ==
  ASSUME OneLine, MadeInv, UpInv, QueueInv, LineInv, NEW s \in Schedulers,
         SchedulerStep(s), faults' = faults
  PROVE  LineInv'
<1>0. /\ s \in Procs /\ proc \in [Procs -> ProcStates] /\ proc[s] \in ProcStates
      /\ job \in [Keys -> PublicationJobs] /\ faults \in Nat /\ rows \subseteq Pubs
      /\ batch \in [Schedulers -> SUBSET Pubs] /\ pub \in [Pubs -> Rows]
      /\ link \in [Pubs -> Keys \cup {None}]
      /\ proc[s].op = "publish" /\ "publish" \in Keys
      /\ proc[s].pc \in Adding => job[proc[s].key].status = "queued" /\ NoLive(proc[s].key)
      /\ proc[s].pc = "create" => job[proc[s].key].status = "none"
      /\ proc[s].pc \in Keyed => proc[s].key = "publish"
      /\ proc[s].pc # "idle" => proc[s].pub \in rows /\ batch[s] = {}
      /\ proc[s].pc # "link"
      /\ proc[s].pc \in {"check", "add"} => link[proc[s].pub] = "publish"
      /\ batch[s] \subseteq rows
      /\ ProcEnd(s) = ProcIdle
      /\ \A p \in rows : pub[p].status # "publishing" /\ ~pub[p].unpub
      /\ job["publish"].status \notin {"draft_synced", "canceled"}
  <2>1. /\ s \in Procs /\ proc \in [Procs -> ProcStates] /\ proc[s] \in ProcStates
        /\ job \in [Keys -> PublicationJobs] /\ faults \in Nat /\ rows \subseteq Pubs
        /\ batch \in [Schedulers -> SUBSET Pubs] /\ pub \in [Pubs -> Rows]
        /\ link \in [Pubs -> Keys \cup {None}]
        /\ "publish" \in Keys /\ ProcEnd(s) = ProcIdle
    BY LineTypes DEF ProcEnd, MadeInv, TypeOK
  <2>2. /\ proc[s].op = "publish"
        /\ proc[s].pc \in Adding => job[proc[s].key].status = "queued" /\ NoLive(proc[s].key)
        /\ proc[s].pc = "create" => job[proc[s].key].status = "none"
    BY DEF QueueInv, Enqueuers
  <2>3. /\ proc[s].pc \in Keyed => proc[s].key = "publish"
        /\ proc[s].pc # "idle" => proc[s].pub \in rows /\ batch[s] = {}
        /\ proc[s].pc # "link"
        /\ proc[s].pc \in {"check", "add"} => link[proc[s].pub] = "publish"
        /\ batch[s] \subseteq rows
    BY DEF LineInv, OnlyPublishes, RowLinked
  <2>4. /\ \A p \in rows : pub[p].status # "publishing" /\ ~pub[p].unpub
        /\ job["publish"].status \notin {"draft_synced", "canceled"}
    BY <2>1 DEF LineInv, RowFollowed, OnlyPublishes, QueueInv, NoneCanceled, UpInv, UpRows, UpRow
  <2>5. QED
    BY <2>1, <2>2, <2>3, <2>4
<1>a. batch[s] # {} \/ proc[s].pc # "idle" =>
        /\ \A t \in Schedulers : t = s
        /\ handlers = {} /\ (\A t \in TaskIds : ~TaskLive(t))
        /\ ~Over /\ \A p \in rows : pub[p].ext = 0
  BY TickAlone
<1>1. CASE Claim(s)
  BY <1>1, LineClaim
<1>2. CASE NextClaimed(s)
  <2>1. UNCHANGED <<job, task, wk, handlers, rows, pub, link>> /\ proc[s].pc = "idle"
    BY <1>2 DEF NextClaimed, Queue, Records, WorkerSide
  <2>2. PICK p \in batch[s] : batch' = [batch EXCEPT ![s] = batch[s] \ {p}] /\ ReadAndGate(s, p)
    BY <1>0, <1>2 DEF NextClaimed
  <2>3. batch'[s] = {} /\ p \in rows /\ batch' \in [Schedulers -> SUBSET Pubs]
    BY <1>0, <2>2 DEF OneLine
  <2>4. PICK pc \in {"read", "blocked"} : proc' = [proc EXCEPT ![s] = [proc[s] EXCEPT !.pc = pc, !.pub = p]]
    BY <1>0, <2>2, <2>3 DEF ReadAndGate, Fault
  <2> DEFINE r == [proc[s] EXCEPT !.pc = pc, !.pub = p]
  <2>5. r.pc = pc /\ r.pub = p
    BY <1>0 DEF ProcStates
  <2>6. proc' = [proc EXCEPT ![s] = r]
    BY <2>4
  <2> HIDE DEF r
  <2>7. QED
    BY <1>0, <1>a, <2>1, <2>2, <2>3, <2>5, <2>6, LineTickMoves DEF Keyed, Over
<1>3. CASE ChooseAction(s)
  <2>1. UNCHANGED <<job, task, wk, handlers, rows, pub, link, batch>> /\ proc[s].pc = "read"
    BY <1>3 DEF ChooseAction, Queue, Records, WorkerSide
  <2>2. KeyOfRow(pub[proc[s].pub]) = "publish"
    BY <1>0, <1>a, <2>1 DEF KeyOfRow
  <2> DEFINE r == [proc[s] EXCEPT !.pc = "find", !.key = "publish"]
  <2>3. proc' = [proc EXCEPT ![s] = r]
    BY <1>0, <1>3, <2>2 DEF ChooseAction
  <2>4. r.pc = "find" /\ r.pub = proc[s].pub /\ r.key = "publish"
    BY <1>0 DEF ProcStates
  <2> HIDE DEF r
  <2>5. QED
    BY <1>0, <1>a, <2>1, <2>3, <2>4, LineTickMoves DEF Over
<1> DEFINE On(pc) == \E r : /\ proc' = [proc EXCEPT ![s] = r] /\ r.pc = pc
                            /\ r.pub = proc[s].pub /\ r.key = proc[s].key
<1>b. ASSUME NEW pc, \/ proc' = [proc EXCEPT ![s].pc = pc]
                     \/ proc' = [proc EXCEPT ![s] = [proc[s] EXCEPT !.pc = pc]]
                     \/ proc' = [proc EXCEPT ![s].pc = pc, ![s].fresh = TRUE]
      PROVE  On(pc)
  <2>1. CASE \/ proc' = [proc EXCEPT ![s].pc = pc]
             \/ proc' = [proc EXCEPT ![s] = [proc[s] EXCEPT !.pc = pc]]
    <3> DEFINE r == [proc[s] EXCEPT !.pc = pc]
    <3>1. proc' = [proc EXCEPT ![s] = r] /\ r.pc = pc /\ r.pub = proc[s].pub /\ r.key = proc[s].key
      BY <1>0, <2>1 DEF ProcStates
    <3> HIDE DEF r
    <3>2. QED
      BY <3>1
  <2>2. CASE proc' = [proc EXCEPT ![s].pc = pc, ![s].fresh = TRUE]
    <3> DEFINE r == [proc[s] EXCEPT !.pc = pc, !.fresh = TRUE]
    <3>1. proc' = [proc EXCEPT ![s] = r] /\ r.pc = pc /\ r.pub = proc[s].pub /\ r.key = proc[s].key
      BY <1>0, <2>2 DEF ProcStates
    <3> HIDE DEF r
    <3>2. QED
      BY <3>1
  <2>3. QED
    BY <1>b, <2>1, <2>2
<1>4. CASE FindJob(s)
  <2> DEFINE status == job["publish"].status
             next == AfterFind("publish", status)
  <2>1. UNCHANGED <<job, task, wk, handlers, rows, pub, link, batch>> /\ proc[s].pc = "find"
    BY <1>4 DEF FindJob, Queue, Records, WorkerSide
  <2>2. ~ Carried("publish")
    BY <1>a, <2>1 DEF Carried, Adding
  <2>3. status \in {"none", "failed"}
    <3>1. status \in JobStatus
      BY <1>0 DEF PublicationJobs
    <3>2. status \notin {"queued", "processing", "published"}
      BY <1>0, <1>a, <2>1, <2>2 DEF QueueInv, WaitingCarried, Over
    <3>3. QED
      BY <1>0, <3>1, <3>2 DEF JobStatus
  <2>4. proc' = [proc EXCEPT ![s] =
                  IF next = "done" THEN ProcEnd(s) ELSE [proc[s] EXCEPT !.pc = next]]
    BY <1>0, <1>4, <2>1 DEF FindJob, Keyed
  <2>5. next \in {"create", "reset"}
    <3> HIDE DEF status
    <3>1. QED
      BY <2>3 DEF AfterFind
  <2>6. On(next)
    <3> HIDE DEF next
    <3>1. proc' = [proc EXCEPT ![s] = [proc[s] EXCEPT !.pc = next]]
      BY <2>4, <2>5
    <3>2. QED
      BY <1>b, <3>1
  <2>7. PICK r : proc' = [proc EXCEPT ![s] = r] /\ r.pc = next
                 /\ r.pub = proc[s].pub /\ r.key = proc[s].key
    BY <2>6
  <2>8. status # "published"
    BY <2>3
  <2> HIDE DEF next
  <2>9. QED
    BY <1>0, <1>a, <2>1, <2>5, <2>7, <2>8, LineTickMoves DEF Keyed
<1>5. CASE ResetJob(s) \/ CreateJob(s) \/ SetProjectQueued(s) \/ LinkRow(s) \/ (CheckQueue(s) /\ ~InQueue(proc[s].key))
  <2>1. /\ UNCHANGED <<task, wk, handlers, rows, pub, batch>>
        /\ proc[s].pc \in {"reset", "create", "project", "linkq", "check"}
        /\ proc[s].key = "publish"
    BY <1>0, <1>5 DEF ResetJob, CreateJob, SetProjectQueued, LinkRow, CheckQueue, Queue, Records,
       WorkerSide, Keyed
  <2>2. \E pc \in {"project", "linkq", "check", "add"} :
          /\ On(pc) /\ (pc \in {"check", "add"} => link'[proc[s].pub] = "publish")
    <3>1. CASE ResetJob(s)
      <4>1. proc' = [proc EXCEPT ![s].pc = "project"]
        BY <1>0, <3>1 DEF ResetJob, AfterWriteJob
      <4>2. QED
        BY <1>b, <4>1, ZenonT(60)
    <3>2. CASE CreateJob(s)
      <4>1. proc' = [proc EXCEPT ![s].pc = "project", ![s].fresh = TRUE]
        BY <1>0, <3>2 DEF CreateJob, AfterWriteJob
      <4>2. QED
        BY <1>b, <4>1, ZenonT(60)
    <3>3. CASE SetProjectQueued(s)
      <4>1. proc' = [proc EXCEPT ![s].pc = "linkq"]
        BY <1>0, <3>3 DEF SetProjectQueued, ByRow
      <4>2. QED
        BY <1>b, <4>1
    <3>4. CASE LinkRow(s)
      <4>1. proc' = [proc EXCEPT ![s] = [proc[s] EXCEPT !.pc = "check"]]
        BY <1>0, <3>4 DEF LinkRow
      <4>2. link'[proc[s].pub] = "publish"
        BY <1>0, <2>1, <3>4 DEF LinkRow
      <4>3. QED
        BY <1>b, <4>1, <4>2
    <3>5. CASE CheckQueue(s) /\ ~InQueue(proc[s].key)
      <4>1. proc' = [proc EXCEPT ![s] = [proc[s] EXCEPT !.pc = "add"]] /\ link' = link
            /\ proc[s].pc = "check"
        BY <1>0, <3>5 DEF CheckQueue, Records
      <4>2. QED
        BY <1>0, <1>b, <4>1
    <3>6. QED
      BY <1>5, <3>1, <3>2, <3>3, <3>4, <3>5
  <2>3. PICK r : /\ proc' = [proc EXCEPT ![s] = r] /\ r.pc \in {"project", "linkq", "check", "add"}
                 /\ r.pub = proc[s].pub /\ r.key = proc[s].key
                 /\ r.pc \in {"check", "add"} => link'[proc[s].pub] = "publish"
    BY <2>2
  <2>4. job'["publish"].status \in {job["publish"].status, "queued"}
    BY <1>0, <1>5, <2>1 DEF ResetJob, CreateJob, SetProjectQueued, LinkRow, CheckQueue, Queue,
       PublicationJobs
  <2>5. QED
    BY <1>0, <1>a, <2>1, <2>3, <2>4, LineTickMoves DEF Over
<1>6. ~ (CheckQueue(s) /\ InQueue(proc[s].key))
  BY <1>0 DEF CheckQueue, InQueue, NoLive, Adding
<1>7. CASE AddTask(s)
  BY <1>7, LineAddsTask
<1>8. CASE CatchEnqueue(s)
  BY <1>8, LineCatch
<1>9. QED
  BY <1>1, <1>2, <1>3, <1>4, <1>5, <1>6, <1>7, <1>8 DEF SchedulerStep, EnqueueStep

\* Canceling or deleting takes the row out of the line, or changes nothing in it.
LEMMA LineRequest ==
  ASSUME OneLine, MadeInv, UpInv, QueueInv, LineInv, NEW q \in Requests,
         RequestStep(q) \/ RequestRow(q)
  PROVE  LineInv'
<1>0. /\ q \in Procs /\ q \notin Schedulers /\ proc \in [Procs -> ProcStates]
      /\ proc[q] \in ProcStates
      /\ Schedulers \subseteq Procs /\ Requests \subseteq Procs
      /\ pub \in [Pubs -> Rows] /\ rows \subseteq Pubs
      /\ UNCHANGED <<job, task, wk, handlers>>
      /\ RequestRow(q) \/ RequestWrite(q)
  BY RequestEdits, LineTypes DEF OneLine
<1>1. PICK r : proc' = [proc EXCEPT ![q] = r] /\ r.pc \in {"write", "done"}
               /\ (r.pc = "write" => r.op \in {"cancel", "delete"})
  <2>1. CASE RequestRow(q)
    <3>1. PICK op \in Operations \cap RowOperations, p \in rows :
            proc' = [proc EXCEPT ![q] = [@ EXCEPT !.pc = "write", !.op = op, !.pub = p, !.seen = pub[p]]]
      BY <2>1 DEF RequestRow
    <3> DEFINE r == [proc[q] EXCEPT !.pc = "write", !.op = op, !.pub = p, !.seen = pub[p]]
    <3>2. proc' = [proc EXCEPT ![q] = r] /\ r.pc = "write" /\ r.op = op
      BY <1>0, <3>1 DEF ProcStates
    <3> HIDE DEF r
    <3>3. QED
      BY <3>2 DEF OneLine
  <2>2. CASE RequestWrite(q)
    <3>1. proc[q].op # "unpublish"
      BY <1>0, <2>2 DEF RequestWrite, LineInv, OnlyPublishes
    <3>2. proc' = [proc EXCEPT ![q] = ProcEnd(q)] /\ ProcEnd(q).pc = "done"
      BY <1>0, <2>2, <3>1 DEF RequestWrite, ProcEnd, ProcIdle
    <3>3. QED
      BY <3>2
  <2>3. QED
    BY <1>0, <2>1, <2>2
<1>2. /\ \A s \in Schedulers : proc'[s] = proc[s]
      /\ proc'[q] = r /\ \A x \in Requests : x # q => proc'[x] = proc[x]
  BY <1>0, <1>1
<1>3. UNCHANGED <<batch, rows, link, project>>
  BY <1>0 DEF RequestRow, RequestWrite, Records
<1>4. \A p \in rows : \/ pub'[p] = pub[p]
                      \/ /\ pub'[p].status \in {"canceled", "deleted"}
                         /\ pub'[p].ext = pub[p].ext
  <2>1. CASE RequestRow(q)
    BY <2>1 DEF RequestRow, Records
  <2>2. CASE RequestWrite(q)
    <3>1. proc[q].op \in {"cancel", "delete"}
      BY <1>0, <2>2 DEF RequestWrite, LineInv, OnlyPublishes
    <3>2. pub' = [pub EXCEPT ![proc[q].pub] = Canceled(@)] \/ pub' = [pub EXCEPT ![proc[q].pub] = Deleted(@)]
      BY <2>2, <3>1 DEF RequestWrite
    <3>3. ASSUME NEW p \in rows PROVE \/ pub'[p] = pub[p]
                                      \/ /\ pub'[p].status \in {"canceled", "deleted"}
                                         /\ pub'[p].ext = pub[p].ext
      <4>1. PICK old \in Rows : old = pub[p]
        BY <1>0
      <4>2. /\ Canceled(old).status = "canceled" /\ Canceled(old).ext = old.ext
            /\ Deleted(old).status = "deleted" /\ Deleted(old).ext = old.ext
        BY DEF Canceled, Deleted, Rows
      <4>3. pub'[p] \in {pub[p], Canceled(old), Deleted(old)}
        BY <1>0, <3>2, <4>1
      <4>4. QED
        BY <4>1, <4>2, <4>3
    <3>4. QED
      BY <3>3
  <2>3. QED
    BY <1>0, <2>1, <2>2
<1>5. /\ Due' => Due
      /\ Ticking' <=> Ticking
      /\ Tasked' <=> Tasked
      /\ Listening' <=> Listening
      /\ Over' <=> Over
  BY <1>0, <1>2, <1>3, <1>4 DEF Due, Claimable, Ticking, Tasked, TaskLive, Listening, Over
<1>6. OneHand'
  BY <1>0, <1>5 DEF LineInv, OneHand
<1>7. OnlyPublishes'
  BY <1>0, <1>1, <1>2, <1>3 DEF LineInv, OnlyPublishes
<1>8. RowLinked' /\ HitsRow'
  BY <1>0, <1>2, <1>3, <1>5 DEF LineInv, RowLinked, HitsRow
<1>9. RowFollowed'
  BY <1>0, <1>3, <1>4, <1>5 DEF LineInv, RowFollowed
<1>10. QED
  BY <1>6, <1>7, <1>8, <1>9 DEF LineInv

\* A worker goes on with the row.
LEMMA LineWorkMoves ==
  ASSUME OneLine, MadeInv, QueueInv, LineInv, NEW w \in Workers, wk[w].pc # "idle",
         UNCHANGED <<task, handlers, proc, batch, rows, link>>,
         NEW r, wk' = [wk EXCEPT ![w] = r], r.pc = "found" => r.hit \in rows,
         job'["publish"].status # "draft_synced",
         \A p \in rows : /\ ~Claimable(pub'[p]) /\ pub'[p].status # "publishing"
                         /\ pub'[p].ext # 0 \/ pub'[p].status = "published" => Over'
                         /\ pub'[p].status = "queued" => r.pc \notin Synchronised
                         /\ pub'[p].status = "published" => project' = "published" \/ r.pc = "synced"
  PROVE  LineInv'
<1>0. /\ \A s \in Schedulers : batch[s] = {} /\ proc[s].pc = "idle"
      /\ handlers = {} /\ wk[w].task \in TaskIds /\ TaskLive(wk[w].task)
      /\ \A v \in Workers : v # w => wk[v].pc = "idle"
      /\ \A p \in Pubs : p \in rows /\ link[p] = "publish"
      /\ wk \in [Workers -> WorkerStates]
  BY WorkAlone, LineTypes
<1>1. wk'[w] = r /\ \A v \in Workers : v # w => wk'[v].pc = "idle"
  BY <1>0
<1>2. Tasked' /\ ~Ticking' /\ ~Listening' /\ ~Due'
  BY <1>0 DEF Tasked, TaskLive, Ticking, Listening, Due
<1>3. OneHand'
  BY <1>0, <1>2 DEF OneHand
<1>4. OnlyPublishes'
  BY DEF LineInv, OnlyPublishes
<1>5. RowLinked' /\ HitsRow'
  BY <1>0, <1>1 DEF RowLinked, HitsRow
<1>6. RowFollowed'
  BY <1>1, <1>2 DEF RowFollowed, Synchronised
<1>7. QED
  BY <1>3, <1>4, <1>5, <1>6 DEF LineInv

LEMMA LineTakes ==
  ASSUME OneLine, MadeInv, QueueInv, LineInv, NEW w \in Workers, TakeTask(w)
  PROVE  LineInv'
<1>0. /\ wk \in [Workers -> WorkerStates] /\ task \in [TaskIds -> Tasks]
      /\ UNCHANGED <<job, proc, handlers, pub, rows, link, batch, project>> /\ wk[w].pc = "idle"
  BY LineTypes DEF TakeTask, Records
<1>1. PICK t \in TaskIds :
        /\ task[t].job.state = "waiting"
        /\ task' = [task EXCEPT ![t].job = Taken(task[t].job)]
        /\ wk' = [wk EXCEPT ![w] = [WorkerIdle EXCEPT !.pc = "taken", !.task = t]]
  BY <1>0 DEF TakeTask
<1>2. /\ wk'[w].pc = "taken" /\ \A v \in Workers : v # w => wk'[v] = wk[v]
  BY <1>0, <1>1 DEF WorkerIdle
<1>3. /\ \A u \in TaskIds : task'[u].key = task[u].key
      /\ task'[t].job.state = "active"
  BY <1>0, <1>1, JobsOfTasks DEF Taken, Tasks, Jobs
<1>4. Tasked /\ Tasked'
  BY <1>1, <1>3 DEF Tasked, TaskLive, JobLive
<1>5. ~Due /\ ~Ticking /\ ~Listening
  BY <1>4 DEF LineInv, OneHand
<1>6. OneHand'
  BY <1>0, <1>4, <1>5 DEF LineInv, OneHand, Due, Ticking, Listening, Over
<1>7. OnlyPublishes'
  BY <1>0, <1>3 DEF LineInv, OnlyPublishes
<1>8. RowLinked' /\ HitsRow'
  BY <1>0, <1>2, <1>4 DEF LineInv, RowLinked, HitsRow
<1>9. RowFollowed'
  BY <1>0, <1>2, <1>4, <1>5 DEF LineInv, RowFollowed, Ticking, Listening, Over, Synchronised
<1>10. QED
  BY <1>6, <1>7, <1>8, <1>9 DEF LineInv

\* A worker is done with its task: it is over, or the listener has it.
LEMMA LineEnds ==
  ASSUME OneLine, MadeInv, QueueInv, LineInv, NEW w \in Workers, wk[w].pc # "idle",
         UNCHANGED <<job, proc, batch, pub, rows, link, project>>,
         wk' = [wk EXCEPT ![w] = WorkerIdle],
         NEW j, task' = [task EXCEPT ![wk[w].task].job = j], j.state \in {"done", "dead"},
         \/ handlers' = handlers /\ wk[w].pc = "finished"
         \/ /\ \E h : handlers' = handlers \cup {h} /\ h.pc = "new"
            /\ JobAt(wk[w].pc) = "processing"
  PROVE  LineInv'
<1>0. /\ \A s \in Schedulers : batch[s] = {} /\ proc[s].pc = "idle"
      /\ handlers = {} /\ wk[w].task \in TaskIds
      /\ job["publish"].status = JobAt(wk[w].pc)
      /\ \A t \in TaskIds : TaskLive(t) => t = wk[w].task
      /\ \A v \in Workers : v # w => wk[v].pc = "idle"
      /\ \A p \in Pubs : p \in rows /\ link[p] = "publish" /\ ~Claimable(pub[p])
      /\ \A p \in rows : /\ pub[p].ext # 0 => JobAt(wk[w].pc) = "published"
                         /\ pub[p].status = "published" => JobAt(wk[w].pc) = "published"
                         /\ pub[p].status = "queued" => wk[w].pc \notin Synchronised
                         /\ pub[p].status = "published" => project = "published" \/ wk[w].pc = "synced"
      /\ wk \in [Workers -> WorkerStates] /\ task \in [TaskIds -> Tasks]
  BY WorkAlone, LineTypes
<1>1. \A v \in Workers : wk'[v].pc = "idle"
  BY <1>0 DEF WorkerIdle
<1>2. /\ \A t \in TaskIds : task'[t].key = task[t].key
      /\ \A t \in TaskIds : ~TaskLive(t)'
  BY <1>0 DEF Tasks, TaskLive, JobLive
<1>3. ~Tasked' /\ ~Ticking' /\ ~Due'
  BY <1>0, <1>2, LineTypes DEF Tasked, Ticking, Due
<1>4. CASE handlers' = handlers /\ wk[w].pc = "finished"
  <2>1. ~Listening'
    BY <1>0, <1>4 DEF Listening
  <2>2. OneHand'
    BY <1>0, <1>3, <1>4, <2>1 DEF OneHand
  <2>3. OnlyPublishes'
    BY <1>2 DEF LineInv, OnlyPublishes
  <2>4. RowLinked' /\ HitsRow'
    BY <1>0, <1>1, <1>3, <1>4, <2>1 DEF RowLinked, HitsRow
  <2>5. RowFollowed'
    BY <1>0, <1>4 DEF LineInv, RowFollowed, Over, Synchronised
  <2>6. QED
    BY <2>2, <2>3, <2>4, <2>5 DEF LineInv
<1>5. ASSUME NEW h, handlers' = handlers \cup {h}, h.pc = "new", JobAt(wk[w].pc) = "processing"
      PROVE  LineInv'
  <2>1. Listening' /\ ~Over' /\ handlers' = {h}
    BY <1>0, <1>5 DEF Listening, Over
  <2>2. OneHand'
    BY <1>3, <2>1 DEF OneHand
  <2>3. OnlyPublishes'
    BY <1>2 DEF LineInv, OnlyPublishes
  <2>4. RowLinked' /\ HitsRow'
    BY <1>0, <1>1, <1>5, <2>1 DEF RowLinked, HitsRow
  <2>5. RowFollowed'
    BY <1>0, <1>5, <2>1 DEF LineInv, RowFollowed
  <2>6. QED
    BY <2>2, <2>3, <2>4, <2>5 DEF LineInv
<1>6. QED
  BY <1>4, <1>5

LEMMA LineWorker ==
  ASSUME OneLine, MadeInv, UpInv, QueueInv, LineInv, NEW w \in Workers,
         TakeTask(w) \/ TaskStep(w), faults' = faults
  PROVE  LineInv'
<1>0. /\ wk \in [Workers -> WorkerStates] /\ wk[w] \in WorkerStates
      /\ task \in [TaskIds -> Tasks] /\ job \in [Keys -> PublicationJobs] /\ faults \in Nat
      /\ rows \subseteq Pubs /\ pub \in [Pubs -> Rows] /\ "publish" \in Keys
  BY LineTypes DEF MadeInv, TypeOK
<1>1. CASE TakeTask(w)
  BY <1>1, LineTakes
<1>a. CASE wk[w].pc # "idle"
  <2>0. /\ KeyOf(w) = "publish" /\ job["publish"].status = JobAt(wk[w].pc)
        /\ wk[w].task \in TaskIds
        /\ \A p \in Pubs : p \in rows /\ link[p] = "publish" /\ ~Claimable(pub[p])
        /\ \A p \in rows : /\ pub[p].ext # 0 => JobAt(wk[w].pc) = "published"
                           /\ pub[p].status = "published" => JobAt(wk[w].pc) = "published"
                           /\ pub[p].status = "queued" => wk[w].pc \notin Synchronised
                           /\ pub[p].status = "published" => project = "published" \/ wk[w].pc = "synced"
                           /\ pub[p].status # "publishing"
        /\ LinkedTo("publish") = rows /\ StatusOf(w) = "published"
    BY <1>0, <1>a, WorkAlone
       DEF LineInv, RowFollowed, LinkedTo, StatusOf, ResultStatus, IsUnpublish
  <2>a. job["publish"].status # "draft_synced"
    BY DEF LineInv, OnlyPublishes
  <2>1. CASE QueueProject(w) \/ LookUpPage(w) \/ CallSite(w) \/ ApproveDraft(w)
    <3>1. /\ UNCHANGED <<job, task, handlers, proc, batch, rows, link, pub>>
          /\ JobAt(wk[w].pc) = "processing"
      BY <2>1 DEF QueueProject, LookUpPage, CallSite, ApproveDraft, Records, Queue, JobAt
    <3>2. \E pc \in {"queued", "ready", "drafted", "called"} :
            \/ wk' = [wk EXCEPT ![w].pc = pc]
            \/ \E n : wk' = [wk EXCEPT ![w].pc = pc, ![w].ext = n]
            \/ \E n : wk' = [wk EXCEPT ![w].pc = pc, ![w].post = n]
      BY <2>1 DEF QueueProject, LookUpPage, CallSite, ApproveDraft, PageMade, PageChanged
    <3>3. PICK r : wk' = [wk EXCEPT ![w] = r] /\ r.pc \in {"queued", "ready", "drafted", "called"}
      <4> DEFINE Goal == \E r : wk' = [wk EXCEPT ![w] = r]
                                /\ r.pc \in {"queued", "ready", "drafted", "called"}
      <4>1. ASSUME NEW pc \in {"queued", "ready", "drafted", "called"}, wk' = [wk EXCEPT ![w].pc = pc]
            PROVE  Goal
        <5> DEFINE r == [wk[w] EXCEPT !.pc = pc]
        <5>1. wk' = [wk EXCEPT ![w] = r] /\ r.pc = pc
          BY <1>0, <4>1 DEF WorkerStates
        <5> HIDE DEF r
        <5>2. QED
          BY <5>1
      <4>2. ASSUME NEW pc \in {"queued", "ready", "drafted", "called"}, NEW n,
                   wk' = [wk EXCEPT ![w].pc = pc, ![w].ext = n]
            PROVE  Goal
        <5> DEFINE r == [wk[w] EXCEPT !.pc = pc, !.ext = n]
        <5>1. wk' = [wk EXCEPT ![w] = r] /\ r.pc = pc
          BY <1>0, <4>2 DEF WorkerStates
        <5> HIDE DEF r
        <5>2. QED
          BY <5>1
      <4>3. ASSUME NEW pc \in {"queued", "ready", "drafted", "called"}, NEW n,
                   wk' = [wk EXCEPT ![w].pc = pc, ![w].post = n]
            PROVE  Goal
        <5> DEFINE r == [wk[w] EXCEPT !.pc = pc, !.post = n]
        <5>1. wk' = [wk EXCEPT ![w] = r] /\ r.pc = pc
          BY <1>0, <4>3 DEF WorkerStates
        <5> HIDE DEF r
        <5>2. QED
          BY <5>1
      <4>4. QED
        BY <3>2, <4>1, <4>2, <4>3
    <3>4. QED
      BY <1>0, <1>a, <2>0, <2>a, <3>1, <3>3, LineWorkMoves DEF Synchronised
  <2>2. CASE SetProcessing(w) \/ SaveJob(w)
    <3> DEFINE pc == IF wk[w].pc = "taken" THEN "processing" ELSE "saved"
               r == [wk[w] EXCEPT !.pc = pc]
    <3>1. /\ UNCHANGED <<task, handlers, proc, batch, rows, link, pub>>
          /\ wk[w].pc \in {"taken", "called"} /\ JobAt(wk[w].pc) # "published"
      BY <2>2 DEF SetProcessing, SaveJob, Records, JobAt
    <3>2. wk' = [wk EXCEPT ![w] = r] /\ r.pc \in {"processing", "saved"}
      BY <1>0, <2>2 DEF SetProcessing, SaveJob, WorkerStates
    <3>3. job'["publish"].status \in {"processing", "published"}
      BY <1>0, <2>0, <2>2 DEF SetProcessing, SaveJob, PublicationJobs
    <3> HIDE DEF pc, r
    <3>4. QED
      BY <1>0, <1>a, <2>0, <3>1, <3>2, <3>3, LineWorkMoves DEF Synchronised
  <2>3. CASE FindRow(w)
    <3>1. /\ UNCHANGED <<job, task, handlers, proc, batch, rows, link, pub, project>>
          /\ wk[w].pc = "saved" /\ Over
      BY <2>0, <2>3 DEF FindRow, Records, Queue, JobAt, Over
    <3>2. PICK r : /\ wk' = [wk EXCEPT ![w] = r]
                   /\ \/ r.pc = "synced" /\ rows = {}
                      \/ r.pc = "found" /\ r.hit \in rows
      <4>1. CASE LinkedTo(KeyOf(w)) = {} /\ wk' = [wk EXCEPT ![w].pc = "synced"]
        <5> DEFINE r == [wk[w] EXCEPT !.pc = "synced"]
        <5>1. wk' = [wk EXCEPT ![w] = r] /\ r.pc = "synced" /\ rows = {}
          BY <1>0, <2>0, <4>1 DEF WorkerStates
        <5> HIDE DEF r
        <5>2. QED
          BY <5>1
      <4>2. ASSUME NEW p \in LinkedTo(KeyOf(w)),
                   wk' = [wk EXCEPT ![w].pc = "found", ![w].hit = p, ![w].seen = pub[p]]
            PROVE  \E r : wk' = [wk EXCEPT ![w] = r] /\ r.pc = "found" /\ r.hit \in rows
        <5> DEFINE r == [wk[w] EXCEPT !.pc = "found", !.hit = p, !.seen = pub[p]]
        <5>1. wk' = [wk EXCEPT ![w] = r] /\ r.pc = "found" /\ r.hit \in rows
          BY <1>0, <2>0, <4>2 DEF WorkerStates
        <5> HIDE DEF r
        <5>2. QED
          BY <5>1
      <4>3. QED
        BY <2>3, <4>1, <4>2 DEF FindRow
    <3>3. QED
      BY <1>0, <1>a, <2>0, <2>a, <3>1, <3>2, LineWorkMoves DEF Synchronised, Over
  <2>4. CASE SyncRow(w)
    <3> DEFINE p == wk[w].hit
               row == Synced(pub[p], wk[w].seen, StatusOf(w), PageOf(w))
               r == [wk[w] EXCEPT !.pc = "synced", !.hit = None]
    <3>1. /\ UNCHANGED <<job, task, handlers, proc, batch, rows, link, project>>
          /\ wk[w].pc = "found" /\ Over
      BY <2>0, <2>4 DEF SyncRow, Queue, JobAt, Over
    <3>2. wk' = [wk EXCEPT ![w] = r] /\ r.pc = "synced"
      BY <1>0, <2>4 DEF SyncRow, WorkerStates
    <3>3. p \in rows
      BY <3>1 DEF LineInv, HitsRow
    <3>4. row.status = "published"
      BY <1>0, <2>0, <3>3 DEF Synced, Rows
    <3>5. pub' = [pub EXCEPT ![p] = row]
      BY <2>4 DEF SyncRow
    <3> HIDE DEF p, row, r
    <3>6. \A q \in rows : q = p
      BY <1>0, <3>3 DEF OneLine
    <3>7. \A q \in rows : pub'[q].status = "published"
      BY <1>0, <3>3, <3>4, <3>5, <3>6
    <3>8. Over'
      BY <3>1 DEF Over
    <3>9. QED
      BY <1>a, <2>a, <3>1, <3>2, <3>7, <3>8, LineWorkMoves DEF Claimable
  <2>5. CASE MarkProject(w)
    <3> DEFINE r == [wk[w] EXCEPT !.pc = "marked"]
    <3>1. /\ UNCHANGED <<job, task, handlers, proc, batch, rows, link, pub>>
          /\ wk[w].pc = "synced" /\ Over /\ project' = "published"
      BY <2>0, <2>5 DEF MarkProject, Records, Queue, JobAt, Over
    <3>2. wk' = [wk EXCEPT ![w] = r] /\ r.pc = "marked"
      BY <1>0, <2>0, <2>5 DEF MarkProject, WorkerStates
    <3> HIDE DEF r
    <3>3. QED
      BY <1>0, <1>a, <2>0, <2>a, <3>1, <3>2, LineWorkMoves DEF Synchronised, Over
  <2>6. CASE ReadForVerify(w)
    <3>1. /\ UNCHANGED <<job, task, handlers, proc, batch, rows, link, pub, project>>
          /\ wk[w].pc = "marked" /\ Over
      BY <2>0, <2>6 DEF ReadForVerify, Records, Queue, JobAt, Over
    <3>2. PICK r : wk' = [wk EXCEPT ![w] = r] /\ r.pc \in {"finished", "verifying"}
      <4>1. CASE wk' = [wk EXCEPT ![w].pc = "finished"]
        <5> DEFINE r == [wk[w] EXCEPT !.pc = "finished"]
        <5>1. wk' = [wk EXCEPT ![w] = r] /\ r.pc = "finished"
          BY <1>0, <4>1 DEF WorkerStates
        <5> HIDE DEF r
        <5>2. QED
          BY <5>1
      <4>2. ASSUME NEW p,
                   wk' = [wk EXCEPT ![w].pc = "verifying", ![w].hit = p, ![w].seen = pub[p]]
            PROVE  \E r : wk' = [wk EXCEPT ![w] = r] /\ r.pc = "verifying"
        <5> DEFINE r == [wk[w] EXCEPT !.pc = "verifying", !.hit = p, !.seen = pub[p]]
        <5>1. wk' = [wk EXCEPT ![w] = r] /\ r.pc = "verifying"
          BY <1>0, <4>2 DEF WorkerStates
        <5> HIDE DEF r
        <5>2. QED
          BY <5>1
      <4>3. QED
        BY <2>6, <4>1, <4>2 DEF ReadForVerify
    <3>3. QED
      BY <1>0, <1>a, <2>0, <2>a, <3>1, <3>2, LineWorkMoves DEF Synchronised, Over
  <2>7. CASE RecordVerification(w)
    <3> DEFINE r == [wk[w] EXCEPT !.pc = "finished"]
    <3>1. /\ UNCHANGED <<job, task, handlers, proc, batch, rows, link, project>>
          /\ wk[w].pc = "verifying" /\ Over
      BY <2>0, <2>7 DEF RecordVerification, Queue, JobAt, Over
    <3>2. wk' = [wk EXCEPT ![w] = r] /\ r.pc = "finished"
      BY <1>0, <2>7 DEF RecordVerification, WorkerStates
    <3>3. \A p \in rows : /\ pub'[p].status = pub[p].status /\ pub'[p].dated = pub[p].dated
                          /\ pub'[p].retryAt = pub[p].retryAt /\ pub'[p].ext = pub[p].ext
      BY <1>0, <2>7 DEF RecordVerification, Rows
    <3> HIDE DEF r
    <3>4. \A p \in rows : ~Claimable(pub'[p])
      BY <1>0, <2>0, <3>3 DEF Claimable
    <3>5. \A p \in rows : pub[p].status = "queued" => wk[w].pc \notin Synchronised
      BY <2>0
    <3>6. \A p \in rows : /\ pub'[p].status \notin {"publishing", "queued"}
                          /\ pub'[p].status = "published" => project' = "published"
      BY <2>0, <3>1, <3>3, <3>5 DEF Synchronised
    <3>7. Over'
      BY <3>1 DEF Over
    <3>8. QED
      BY <1>a, <2>a, <3>1, <3>2, <3>4, <3>6, <3>7, LineWorkMoves
  <2>8. CASE CompleteTask(w)
    <3> DEFINE j == Completed(task[wk[w].task].job)
    <3>1. UNCHANGED <<job, proc, batch, pub, rows, link, project, handlers>>
          /\ wk[w].pc = "finished" /\ wk' = [wk EXCEPT ![w] = WorkerIdle]
      BY <2>8 DEF CompleteTask, Records
    <3>2. task' = [task EXCEPT ![wk[w].task].job = j] /\ j.state = "done"
      BY <1>0, <2>0, <2>8, JobsOfTasks DEF CompleteTask, Completed, Jobs
    <3> HIDE DEF j
    <3>3. QED
      BY <1>a, <3>1, <3>2, LineEnds
  <2>9. CASE FailTry(w)
    <3> DEFINE t == wk[w].task
               j == TryFailed(task[t].job, BullAttempts)
    <3>1. /\ UNCHANGED <<job, proc, batch, pub, rows, link, project>>
          /\ wk[w].pc \in {"ready", "drafted"} /\ wk' = [wk EXCEPT ![w] = WorkerIdle]
      BY <1>0, <2>9 DEF FailTry, Fault, Records
    <3>2. task' = [task EXCEPT ![t].job = j] /\ j.state = "dead"
      <4>1. task[t].job \in Jobs /\ task[t].job.tries \in Nat
        BY <2>0, JobsOfTasks DEF Jobs
      <4>2. j.state = "dead"
        BY <4>1 DEF TryFailed, OneLine, OneEnqueuer, Jobs
      <4>3. QED
        BY <1>0, <2>0, <2>9, <4>2 DEF FailTry
    <3>3. \E h : handlers' = handlers \cup {h} /\ h.pc = "new"
      <4>1. PICK class \in {"transient", "permanent"} :
              handlers' = handlers \cup {NewHandler(t, class, w)}
        BY <2>9 DEF FailTry
      <4>2. NewHandler(t, class, w).pc = "new"
        BY DEF NewHandler
      <4>3. QED
        BY <4>1, <4>2
    <3>4. JobAt(wk[w].pc) = "processing"
      BY <3>1 DEF JobAt
    <3> HIDE DEF j
    <3>5. QED
      BY <1>a, <3>1, <3>2, <3>3, <3>4, LineEnds DEF t
  <2>10. QED
    BY <1>1, <2>1, <2>2, <2>3, <2>4, <2>5, <2>6, <2>7, <2>8, <2>9 DEF TaskStep
<1>b. CASE wk[w].pc = "idle"
  BY <1>0, <1>1, <1>b
     DEF TaskStep, SetProcessing, QueueProject, LookUpPage, CallSite, ApproveDraft, SaveJob,
         FindRow, SyncRow, MarkProject, ReadForVerify, RecordVerification, CompleteTask, FailTry,
         Fault
<1>2. QED
  BY <1>a, <1>b

LEMMA LineListener ==
  ASSUME OneLine, MadeInv, QueueInv, LineInv, NEW h \in handlers, HandlerStep(h)
  PROVE  LineInv'
<1>0. /\ \A s \in Schedulers : batch[s] = {} /\ proc[s].pc = "idle"
      /\ handlers = {h} /\ KeyOfHandler(h) = "publish"
      /\ (\A t \in TaskIds : ~TaskLive(t))
      /\ \A w \in Workers : wk[w].pc = "idle"
      /\ \A p \in Pubs : p \in rows /\ link[p] = "publish" /\ ~Claimable(pub[p])
      /\ ~Over /\ \A p \in rows : pub[p].ext = 0 /\ pub[p].status \notin {"published", "publishing"}
      /\ h \in HandlerStates /\ job \in [Keys -> PublicationJobs] /\ "publish" \in Keys
      /\ pub \in [Pubs -> Rows] /\ rows \subseteq Pubs
      /\ UNCHANGED <<task, wk, proc, batch, rows, link>>
  BY ListenAlone, LineTypes
     DEF LineInv, RowFollowed, HandlerStep, FailJob, FailProject, FindFailedRow, FailRow, Records,
         Queue
<1>1. ~Ticking' /\ ~Tasked'
  BY <1>0 DEF Ticking, Tasked, TaskLive
<1>2. CASE FailJob(h) \/ FailProject(h) \/ FindFailedRow(h)
  <2>1. pub' = pub
    BY <1>2 DEF FailJob, FailProject, FindFailedRow, Records
  <2>2. job'["publish"].status \in {job["publish"].status, "failed"}
    BY <1>0, <1>2, ZenonT(60) DEF FailJob, FailProject, FindFailedRow, KeyOfHandler, Queue, PublicationJobs
  <2>3. \/ handlers' = {} /\ rows = {}
        \/ \E g : handlers' = {g} /\ (g.pc = "read" => g.hit \in rows)
    <3>1. CASE FailJob(h) \/ FailProject(h)
      <4> DEFINE g == [h EXCEPT !.pc = IF h.pc = "new" THEN "job" ELSE "project"]
      <4>1. handlers' = {g} /\ g.pc # "read"
        BY <1>0, <3>1 DEF FailJob, FailProject, HandlerStates
      <4> HIDE DEF g
      <4>2. QED
        BY <4>1
    <3>2. CASE FindFailedRow(h)
      <4>1. LinkedTo(task[h.task].key) = rows
        BY <1>0 DEF LinkedTo, KeyOfHandler
      <4>2. CASE rows = {}
        BY <1>0, <3>2, <4>1, <4>2 DEF FindFailedRow
      <4>3. ASSUME NEW p \in rows,
                   handlers' = (handlers \ {h}) \cup
                     {[h EXCEPT !.pc = "read", !.hit = p, !.retries = pub[p].retries]}
            PROVE  \E g : handlers' = {g} /\ g.hit \in rows
        <5> DEFINE g == [h EXCEPT !.pc = "read", !.hit = p, !.retries = pub[p].retries]
        <5>1. handlers' = {g} /\ g.hit = p
          BY <1>0, <4>3 DEF HandlerStates
        <5> HIDE DEF g
        <5>2. QED
          BY <5>1
      <4>4. QED
        BY <3>2, <4>1, <4>2, <4>3 DEF FindFailedRow
    <3>3. QED
      BY <1>2, <3>1, <3>2
  <2>4. ~Over' /\ ~Due'
    BY <1>0, <2>1, <2>2 DEF Over, Due
  <2>5. OneHand'
    BY <1>1, <2>3, <2>4 DEF OneHand
  <2>6. OnlyPublishes'
    BY <1>0, <2>2 DEF LineInv, OnlyPublishes
  <2>7. RowLinked' /\ HitsRow'
    BY <1>0, <2>3 DEF RowLinked, HitsRow
  <2>8. RowFollowed'
    BY <1>0, <2>1, <2>3 DEF RowFollowed, Listening
  <2>9. QED
    BY <2>5, <2>6, <2>7, <2>8 DEF LineInv
<1>3. CASE FailRow(h)
  <2> DEFINE p == h.hit
             row == AttemptFailed(pub[p], h.retries, h.class, MaxRetries)
  <2>1. handlers' = {} /\ pub' = [pub EXCEPT ![p] = row] /\ job' = job /\ h.pc = "read"
    BY <1>0, <1>3 DEF FailRow, Queue
  <2>2. p \in rows
    BY <2>1 DEF LineInv, HitsRow
  <2>3. row.status = "failed" /\ row.ext = 0
    <3>1. PICK old \in Rows : old = pub[p] /\ old.ext = 0
      BY <1>0, <2>2
    <3>2. QED
      BY <3>1 DEF AttemptFailed, Rows
  <2> HIDE DEF p, row
  <2>4. \A q \in rows : pub'[q].status = "failed" /\ pub'[q].ext = 0
    BY <1>0, <2>1, <2>2, <2>3 DEF OneLine
  <2>5. ~Listening' /\ ~Over'
    BY <1>0, <2>1 DEF Listening, Over
  <2>6. OneHand'
    BY <1>1, <2>1, <2>5 DEF OneHand
  <2>7. OnlyPublishes'
    BY <1>0, <2>1 DEF LineInv, OnlyPublishes
  <2>8. RowLinked' /\ HitsRow'
    BY <1>0, <2>1 DEF RowLinked, HitsRow
  <2>9. RowFollowed'
    BY <1>0, <2>4 DEF RowFollowed
  <2>10. QED
    BY <2>6, <2>7, <2>8, <2>9 DEF LineInv
<1>4. QED
  BY <1>2, <1>3 DEF HandlerStep

LEMMA LineNext ==
  ASSUME OneLine, MadeInv, [Next]_vars, Calm => UpInv /\ QueueInv /\ LineInv
  PROVE  Calm' => LineInv'
<1> SUFFICES ASSUME Calm' PROVE LineInv'
  OBVIOUS
<1>0. Calm /\ faults' = faults /\ UpInv /\ QueueInv /\ LineInv /\ OneEnqueuer
  BY CrashesKept, FaultsKept DEF Calm, OneLine
<1>1. CASE CalmStep
  <2>1. ASSUME NEW s \in Schedulers, SchedulerStep(s) PROVE LineInv'
    BY <1>0, <2>1, LineScheduler
  <2>2. ASSUME NEW r \in Requests, RequestStep(r) \/ RequestRow(r) PROVE LineInv'
    BY <1>0, <2>2, LineRequest
  <2>3. ASSUME NEW w \in Workers, TakeTask(w) \/ TaskStep(w) PROVE LineInv'
    BY <1>0, <2>3, LineWorker
  <2>4. ASSUME NEW h \in handlers, HandlerStep(h) PROVE LineInv'
    BY <1>0, <2>4, LineListener
  <2>5. QED
    BY <1>1, <2>1, <2>2, <2>3, <2>4, Zenon DEF CalmStep
<1>2. CASE UNCHANGED vars
  BY <1>0, <1>2
     DEF vars, LineInv, OneHand, OnlyPublishes, RowLinked, HitsRow, RowFollowed, Due, Ticking,
         Tasked, TaskLive, Listening, Over
<1>3. QED
  BY <1>0, <1>1, <1>2, CalmSteps

LEMMA LineAlways ==
  ASSUME OneLine
  PROVE  Spec => [](Calm => LineInv)
<1> DEFINE I == MadeInv /\ (Calm => UpInv /\ QueueInv)
           J == Calm => LineInv
<1>1. Init => J
  BY LineInit
<1>2. I /\ J /\ [Next]_vars => J'
  BY LineNext
<1>3. Spec => []I
  BY QueueAlways DEF OneLine
<1> HIDE DEF I
<1>4. QED
  BY <1>1, <1>2, <1>3, PTL DEF Spec

\* A row that waits has somebody who will come back to it: with one row, one
\* scheduler, any number of workers, of durable retries and of operators who
\* cancel or delete, and however often the site refuses, as long as no process
\* dies and no answer is lost (the scheduler's claim, the job it enqueues,
\* syncDurablePublication, the listener).
THEOREM RowNeverStranded ==
  OneLine => (Spec => [](crashes = 0 /\ faults = 0 => NotStranded))
<1> SUFFICES ASSUME OneLine
             PROVE  Spec => [](crashes = 0 /\ faults = 0 => NotStranded)
  OBVIOUS
<1>1. (Calm => LineInv) => (crashes = 0 /\ faults = 0 => NotStranded)
  <2> SUFFICES ASSUME LineInv, Quiet, NEW p \in rows
               PROVE  pub[p].status \notin {"queued", "publishing"}
    BY DEF Calm, NotStranded
  <2>1. ~Ticking /\ ~Tasked /\ ~Listening
    BY DEF Quiet, Ticking, Tasked, Listening
  <2>2. QED
    BY <2>1 DEF LineInv, RowFollowed
<1>2. QED
  BY <1>1, LineAlways, PTL

\* Under the same hypotheses the project says published once its row does and
\* the work is over: nobody queues or fails the project after the worker that
\* published the row has marked it (markProjectPublished).
THEOREM ProjectAlwaysAgrees ==
  OneLine => (Spec => [](crashes = 0 /\ faults = 0 => ProjectAgrees))
<1> SUFFICES ASSUME OneLine
             PROVE  Spec => [](crashes = 0 /\ faults = 0 => ProjectAgrees)
  OBVIOUS
<1> DEFINE I == MadeInv /\ (Calm => UpInv /\ QueueInv)
<1>1. I /\ (Calm => LineInv) => (crashes = 0 /\ faults = 0 => ProjectAgrees)
  <2> SUFFICES ASSUME MadeInv, QueueInv, LineInv, Quiet, NEW p \in rows, pub[p].status = "published"
               PROVE  project = "published"
    BY DEF Calm, ProjectAgrees
  <2>1. \A w \in Workers : wk[w].pc = "idle"
    BY HolderAlone DEF Quiet
  <2>2. QED
    BY <2>1 DEF LineInv, RowFollowed
<1>2. Spec => []I
  BY QueueAlways DEF OneLine
<1> HIDE DEF I
<1>3. QED
  BY <1>1, <1>2, LineAlways, PTL
=============================================================================
