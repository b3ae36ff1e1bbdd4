----------------------- MODULE SocialPublishingProofs -----------------------
(***************************************************************************)
(* Theorems of SocialPublishing, for every value of its constants.         *)
(***************************************************************************)
EXTENDS SocialPublishing, TLAPS

-----------------------------------------------------------------------------
(* What the updates of a row and of a job return *)

LEMMA RowUpdates ==
  ASSUME NEW row \in Rows, NEW seen \in Rows
  PROVE  /\ \A dated \in BOOLEAN : Rescheduled(row, seen, dated) \in Rows
         /\ Canceled(row) \in Rows
         /\ Retried(row) \in Rows
         /\ Deleted(row) \in Rows
         /\ UnpublishQueued(row) \in Rows
         /\ Claimed(row) \in Rows
         /\ ReleaseBlocked(row) \in Rows
         /\ EnqueueFailed(row) \in Rows
         /\ UnpublishRecorded(row) \in Rows
         /\ \A num \in Nat : MarkedPublishing(row, num) \in Rows
         /\ \A post \in Nat : Succeeded(row, seen, post) \in Rows
  BY DEF Rows, States, FailureClasses, Rescheduled, Canceled, Retried, Deleted,
         UnpublishQueued, Claimed, ReleaseBlocked, EnqueueFailed,
         UnpublishRecorded, MarkedPublishing, Succeeded

LEMMA FailureUpdate ==
  ASSUME NEW row \in Rows, NEW n \in Nat, NEW class \in {"transient", "permanent"}
  PROVE  AttemptFailed(row, n, class, MaxRetries) \in Rows
<1> DEFINE again == ~TerminalFailure(class, n + 1, MaxRetries)
           count == n + 1
<1>1. again \in BOOLEAN /\ count \in Nat /\ class \in FailureClasses
  BY DEF TerminalFailure, FailureClasses
<1>2. AttemptFailed(row, n, class, MaxRetries) =
        [row EXCEPT !.status = "failed", !.retries = count, !.class = class,
                    !.retryAt = again]
  BY DEF AttemptFailed
<1> HIDE DEF again, count
<1>3. QED
  BY <1>1, <1>2 DEF Rows, States

LEMMA JobUpdates ==
  ASSUME NEW job \in Jobs
  PROVE  /\ Added(job) \in Jobs
         /\ Taken(job) \in Jobs
         /\ Completed(job) \in Jobs
         /\ BackoffOver(job) \in Jobs
         /\ TryFailed(job, BullAttempts) \in Jobs
         /\ Stalled(job, MaxStalls) \in Jobs
<1> DEFINE tries == job.tries + 1
           stalls == job.stalls + 1
<1>1. tries \in Nat /\ stalls \in Nat
  BY DEF Jobs
<1>2. TryFailed(job, BullAttempts) =
        [job EXCEPT !.tries = tries,
                    !.state = IF tries < BullAttempts THEN "delayed" ELSE "dead"]
  BY DEF TryFailed, Jobs
<1>3. Stalled(job, MaxStalls) =
        [job EXCEPT !.stalls = stalls,
                    !.state = IF stalls > MaxStalls THEN "dead" ELSE "waiting"]
  BY DEF Stalled, Jobs
<1> HIDE DEF tries, stalls
<1>4. TryFailed(job, BullAttempts) \in Jobs /\ Stalled(job, MaxStalls) \in Jobs
  BY <1>1, <1>2, <1>3 DEF Jobs, JobStates
<1>5. QED
  BY <1>4 DEF Jobs, JobStates, Added, Taken, Completed, BackoffOver

-----------------------------------------------------------------------------
(* Types.  TypeOK is not inductive: a worker or a listener reads the row its *)
(* attempt names.  References says that those names are not null, and that a *)
(* request that is about to write was not asked to archive.                  *)

EditOps == {"reschedule", "patch", "cancel", "retry", "delete", "unpublish"}

References ==
  /\ \A x \in Procs : proc[x].pc \notin {"idle", "done"} => proc[x].pub \in Pubs
  /\ \A x \in Procs : proc[x].pc = "write" => proc[x].op \in EditOps
  /\ \A x \in Procs : proc[x].pc \in {"mark", "add"} =>
       proc[x].att \in AttemptIds /\ att[proc[x].att].pub \in Pubs
  /\ \A a \in AttemptIds : att[a].job.state # "none" => att[a].pub \in Pubs
  /\ \A w \in Workers : wk[w].pc # "idle" =>
       wk[w].att \in AttemptIds /\ att[wk[w].att].pub \in Pubs
  /\ \A h \in handlers : att[h.att].pub \in Pubs

TypeInv == TypeOK /\ References

LEMMA InitialValues ==
  /\ Blank \in Rows /\ CreatedRows \subseteq Rows
  /\ FreeAttempt \in Attempts
  /\ ProcIdle \in ProcStates /\ ProcDone \in ProcStates
  /\ WorkerIdle \in WorkerStates
<1>1. Blank \in Rows /\ CreatedRows \subseteq Rows
  BY DEF Blank, CreatedRows, NewRow, Rows, States, FailureClasses
<1>2. FreeAttempt \in Attempts
  BY DEF FreeAttempt, Attempts, AttemptStatus, Kinds, NoJob, Jobs, JobStates
<1>3. ProcIdle \in ProcStates
  BY <1>1 DEF ProcIdle, ProcStates, ProcSteps
<1>4. ProcDone \in ProcStates
  BY <1>3 DEF ProcDone, ProcStates, ProcSteps
<1>5. WorkerIdle \in WorkerStates
  BY <1>1 DEF WorkerIdle, WorkerStates, WorkerSteps
<1>6. QED
  BY <1>1, <1>2, <1>3, <1>4, <1>5

LEMMA FinishedType == \A x \in Procs : Finished(x) \in ProcStates /\ Finished(x).pc \in {"idle", "done"}
  BY InitialValues DEF Finished, ProcIdle, ProcDone

LEMMA TypeInvInit == Init => TypeInv
<1> SUFFICES ASSUME Init PROVE TypeInv
  OBVIOUS
<1>1. TypeOK
  BY InitialValues DEF Init, TypeOK
<1>2. References
  BY DEF Init, References, ProcIdle, WorkerIdle, FreeAttempt, NoJob
<1>3. QED
  BY <1>1, <1>2 DEF TypeInv

LEMMA TypeInvClaim ==
  ASSUME TypeInv, NEW s \in Schedulers, Claim(s) PROVE TypeInv'
<1>1. PICK due \in SUBSET Pubs :
        /\ pub' = [p \in Pubs |-> IF p \in due THEN Claimed(pub[p]) ELSE pub[p]]
        /\ batch' = [batch EXCEPT ![s] = due]
  BY DEF Claim
<1>2. pub' \in [Pubs -> Rows]
  BY <1>1, RowUpdates DEF TypeInv, TypeOK
<1>3. batch' \in [Schedulers -> SUBSET Pubs]
  BY <1>1 DEF TypeInv, TypeOK
<1>4. TypeOK'
  BY <1>2, <1>3 DEF TypeInv, TypeOK, Claim
<1>5. References'
  BY DEF TypeInv, References, Claim
<1>6. QED
  BY <1>4, <1>5 DEF TypeInv

LEMMA ReadAndGateType ==
  ASSUME TypeInv, NEW x \in Procs, NEW p \in Pubs, ReadAndGate(x, p)
  PROVE  /\ proc' \in [Procs -> ProcStates]
         /\ faults' \in Nat
         /\ \A y \in Procs :
              \/ y # x /\ proc'[y] = proc[y]
              \/ y = x /\ proc'[y].pc \in {"idle", "done"}
              \/ y = x /\ proc'[y].pc \in {"create", "blocked", "error"} /\ proc'[y].pub = p
<1> USE DEF TypeInv, TypeOK
<1>1. CASE proc' = [proc EXCEPT ![x] = Finished(x)] /\ UNCHANGED faults
  BY <1>1, FinishedType
<1>2. ASSUME NEW pc \in {"create", "blocked", "error"}, NEW seen \in Rows,
             proc' = [proc EXCEPT ![x] = [pc |-> pc, op |-> proc[x].op, pub |-> p,
                                          att |-> None, seen |-> seen]],
             faults' \in Nat
      PROVE  /\ proc' \in [Procs -> ProcStates]
             /\ proc'[x].pc \in {"create", "blocked", "error"} /\ proc'[x].pub = p
             /\ \A y \in Procs : y # x => proc'[y] = proc[y]
  BY <1>2 DEF ProcStates, ProcSteps
<1>3. QED
  BY <1>1, <1>2, InitialValues, ConstantsAssumption DEF ReadAndGate, Fault

LEMMA TypeInvNextClaimed ==
  ASSUME TypeInv, NEW s \in Schedulers, NextClaimed(s) PROVE TypeInv'
<1>1. PICK p \in Pubs : ReadAndGate(s, p) /\ batch' = [batch EXCEPT ![s] = @ \ {p}]
  BY DEF NextClaimed, TypeInv, TypeOK
<1>2. batch' \in [Schedulers -> SUBSET Pubs]
  BY <1>1 DEF TypeInv, TypeOK
<1>3. s \in Procs
  BY DEF Procs
<1>4. TypeOK'
  BY <1>1, <1>2, <1>3, ReadAndGateType DEF TypeInv, TypeOK, NextClaimed
<1>5. References'
  BY <1>1, <1>3, ReadAndGateType DEF TypeInv, References, NextClaimed
<1>6. QED
  BY <1>4, <1>5 DEF TypeInv

LEMMA TypeInvRequestEnqueue ==
  ASSUME TypeInv, NEW r \in Requests, RequestEnqueue(r) PROVE TypeInv'
<1>1. r \in Procs /\ proc[r].pub \in Pubs /\ ReadAndGate(r, proc[r].pub)
  BY DEF Procs, RequestEnqueue, TypeInv, References
<1>2. TypeOK'
  BY <1>1, ReadAndGateType DEF TypeInv, TypeOK, RequestEnqueue
<1>3. References'
  BY <1>1, ReadAndGateType DEF TypeInv, References, RequestEnqueue
<1>4. QED
  BY <1>2, <1>3 DEF TypeInv

LEMMA TypeInvCreateAttempt ==
  ASSUME TypeInv, NEW x \in Procs, CreateAttempt(x) PROVE TypeInv'
<1>1. PICK a \in AttemptIds, new \in Attempts :
        /\ new.pub = proc[x].pub /\ new.job = NoJob
        /\ att' = [att EXCEPT ![a] = new]
        /\ \E pc \in {"add", "mark"} :
             proc' = [proc EXCEPT ![x].att = a, ![x].pc = pc]
  <2>1. PICK a \in AttemptIds :
          /\ att' = [att EXCEPT ![a] =
               [status |-> "queued", pub |-> proc[x].pub,
                kind |-> IF IsArchive(proc[x].op) THEN "unpublish" ELSE "publish",
                num |-> proc[x].seen.attempt + 1, job |-> NoJob]]
          /\ proc' = [proc EXCEPT ![x].att = a,
                        ![x].pc = IF IsArchive(proc[x].op) THEN "add" ELSE "mark"]
    BY DEF CreateAttempt
  <2> DEFINE num == proc[x].seen.attempt + 1
             kind == IF IsArchive(proc[x].op) THEN "unpublish" ELSE "publish"
             new == [status |-> "queued", pub |-> proc[x].pub, kind |-> kind,
                     num |-> num, job |-> NoJob]
  <2>2. num \in Nat /\ kind \in Kinds /\ proc[x].pub \in Pubs \cup {None} /\ NoJob \in Jobs
    BY DEF TypeInv, TypeOK, ProcStates, Rows, Kinds, NoJob, Jobs, JobStates
  <2>3. att' = [att EXCEPT ![a] = new]
    BY <2>1
  <2> HIDE DEF num, kind
  <2>4. new \in Attempts
    BY <2>2 DEF Attempts, AttemptStatus
  <2>5. QED
    BY <2>1, <2>3, <2>4
<1>2. att' \in [AttemptIds -> Attempts]
  BY <1>1 DEF TypeInv, TypeOK
<1>3. proc' \in [Procs -> ProcStates]
  <2>1. PICK pc \in {"add", "mark"} :
          proc' = [proc EXCEPT ![x] = [proc[x] EXCEPT !.att = a, !.pc = pc]]
    BY <1>1
  <2>2. x \in Procs => [proc[x] EXCEPT !.att = a, !.pc = pc] \in ProcStates
    BY DEF TypeInv, TypeOK, ProcStates, ProcSteps
  <2>3. QED
    BY <2>1, <2>2 DEF TypeInv, TypeOK
<1>4. TypeOK'
  BY <1>2, <1>3 DEF TypeInv, TypeOK, CreateAttempt
<1>5. proc[x].pub \in Pubs
  BY DEF CreateAttempt, TypeInv, References
<1>6. References'
  BY <1>1, <1>5 DEF TypeInv, TypeOK, ProcStates, References, CreateAttempt, NoJob
<1>7. QED
  BY <1>4, <1>6 DEF TypeInv

LEMMA TypeInvMarkPublishing ==
  ASSUME TypeInv, NEW x \in Procs, MarkPublishing(x) PROVE TypeInv'
<1> DEFINE num == proc[x].seen.attempt + 1
<1>1. num \in Nat /\ proc[x].pub \in Pubs
  <2>1. proc[x] \in ProcStates /\ proc[x].pub \in Pubs
    BY DEF MarkPublishing, TypeInv, TypeOK, References
  <2>2. proc[x].seen.attempt \in Nat
    BY <2>1 DEF ProcStates, Rows
  <2>3. QED
    BY <2>1, <2>2
<1>2. pub' = [pub EXCEPT ![proc[x].pub] = MarkedPublishing(@, num)]
  BY DEF MarkPublishing
<1> HIDE DEF num
<1>3. MarkedPublishing(pub[proc[x].pub], num) \in Rows
  BY <1>1, RowUpdates DEF TypeInv, TypeOK
<1>4. pub' \in [Pubs -> Rows]
  BY <1>1, <1>2, <1>3 DEF TypeInv, TypeOK
<1>5. TypeOK'
  BY <1>4 DEF TypeInv, TypeOK, MarkPublishing, ProcStates, ProcSteps
<1>6. References'
  BY DEF TypeInv, TypeOK, References, MarkPublishing, ProcStates
<1>7. QED
  BY <1>5, <1>6 DEF TypeInv

\* The job of one attempt changes, its publication does not.
LEMMA JobChange ==
  ASSUME TypeInv, NEW a \in AttemptIds, NEW job \in Jobs,
         att' = [att EXCEPT ![a].job = job]
  PROVE  /\ att' \in [AttemptIds -> Attempts]
         /\ \A b \in AttemptIds : att'[b].pub = att[b].pub /\ att'[b].kind = att[b].kind
         /\ \A b \in AttemptIds : b # a => att'[b] = att[b]
         /\ att'[a].job = job
  BY DEF TypeInv, TypeOK, Attempts

LEMMA TypeInvAddJob ==
  ASSUME TypeInv, NEW x \in Procs, AddJob(x) PROVE TypeInv'
<1> DEFINE a == proc[x].att
<1>1. a \in AttemptIds /\ att[a].pub \in Pubs
  BY DEF AddJob, TypeInv, References
<1>2. Added(att[a].job) \in Jobs /\ att' = [att EXCEPT ![a].job = Added(att[a].job)]
  BY <1>1, JobUpdates DEF AddJob, TypeInv, TypeOK, Attempts
<1> HIDE DEF a
<1>3. proc' \in [Procs -> ProcStates]
  BY FinishedType DEF AddJob, TypeInv, TypeOK, ProcStates, ProcSteps
<1>4. TypeOK'
  BY <1>1, <1>2, <1>3, JobChange DEF TypeInv, TypeOK, AddJob
<1>5. \A y \in Procs : \/ proc'[y] = proc[y]
                       \/ proc'[y].pc \in {"idle", "done"}
                       \/ proc'[y].pc = "archive" /\ proc'[y].pub = proc[y].pub /\ proc[y].pc = "add"
  BY FinishedType DEF AddJob, TypeInv, TypeOK, ProcStates
<1>6. References'
  BY <1>1, <1>2, <1>5, JobChange DEF TypeInv, References, AddJob
<1>7. QED
  BY <1>4, <1>6 DEF TypeInv

LEMMA TypeInvEnqueueError ==
  ASSUME TypeInv, NEW x \in Procs, EnqueueError(x) PROVE TypeInv'
<1> DEFINE a == proc[x].att
<1>1. faults' \in Nat
  BY DEF EnqueueError, Fault, TypeInv, TypeOK
<1>2. proc' \in [Procs -> ProcStates]
  BY DEF EnqueueError, TypeInv, TypeOK, ProcStates, ProcSteps
<1>3. \A y \in Procs : \/ proc'[y] = proc[y]
                       \/ /\ y = x /\ proc'[y].pc = "error"
                          /\ proc'[y].pub = proc[x].pub
                          /\ proc[x].pub \in Pubs
  BY DEF EnqueueError, TypeInv, TypeOK, References, ProcStates
<1>4. CASE UNCHANGED att
  <2>1. TypeOK'
    BY <1>1, <1>2, <1>4 DEF TypeInv, TypeOK, EnqueueError
  <2>2. References'
    BY <1>3, <1>4 DEF TypeInv, References, EnqueueError
  <2>3. QED
    BY <2>1, <2>2 DEF TypeInv
<1>5. CASE proc[x].pc = "add" /\ att' = [att EXCEPT ![a].job = Added(@)]
  <2>1. a \in AttemptIds /\ att[a].pub \in Pubs
    BY <1>5 DEF TypeInv, References
  <2>2. Added(att[a].job) \in Jobs /\ att' = [att EXCEPT ![a].job = Added(att[a].job)]
    BY <1>5, <2>1, JobUpdates DEF TypeInv, TypeOK, Attempts
  <2> HIDE DEF a
  <2>3. TypeOK'
    BY <1>1, <1>2, <2>1, <2>2, JobChange DEF TypeInv, TypeOK, EnqueueError
  <2>4. References'
    BY <1>3, <2>1, <2>2, JobChange DEF TypeInv, References, EnqueueError
  <2>5. QED
    BY <2>3, <2>4 DEF TypeInv
<1>6. QED
  BY <1>4, <1>5 DEF EnqueueError

LEMMA TypeInvCatchEnqueue ==
  ASSUME TypeInv, NEW s \in Schedulers, CatchEnqueue(s) PROVE TypeInv'
<1>1. s \in Procs /\ proc[s].pub \in Pubs /\ pub[proc[s].pub] \in Rows
  BY DEF Procs, CatchEnqueue, TypeInv, TypeOK, References
<1>2. pub' \in [Pubs -> Rows]
  <2>1. ReleaseBlocked(pub[proc[s].pub]) \in Rows /\ EnqueueFailed(pub[proc[s].pub]) \in Rows
    BY <1>1, RowUpdates
  <2>2. QED
    BY <1>1, <2>1 DEF CatchEnqueue, TypeInv, TypeOK
<1>3. TypeOK'
  BY <1>2, InitialValues DEF CatchEnqueue, TypeInv, TypeOK
<1>4. References'
  BY DEF CatchEnqueue, TypeInv, TypeOK, References, ProcIdle
<1>5. QED
  BY <1>3, <1>4 DEF TypeInv

\* What ends a process's work leaves every other process as it was.
LEMMA ProcessEnds ==
  ASSUME TypeInv, NEW x \in Procs, NEW end \in {ProcIdle, ProcDone},
         proc' = [proc EXCEPT ![x] = end]
  PROVE  /\ proc' \in [Procs -> ProcStates]
         /\ \A y \in Procs : \/ proc'[y] = proc[y]
                             \/ proc'[y].pc \in {"idle", "done"}
  BY InitialValues DEF TypeInv, TypeOK, ProcIdle, ProcDone

LEMMA TypeInvProcessEnds ==
  ASSUME TypeInv, NEW x \in Procs,
         \/ x \in Requests /\ RequestThrows(x)
         \/ x \in Schedulers /\ TickAborted(x)
         \/ x \in Requests /\ RequestAborted(x)
  PROVE  TypeInv'
<1>1. PICK end \in {ProcIdle, ProcDone} : proc' = [proc EXCEPT ![x] = end]
  BY DEF RequestThrows, TickAborted, RequestAborted
<1>2. batch' \in [Schedulers -> SUBSET Pubs] /\ crashes' \in Nat
  BY DEF RequestThrows, TickAborted, RequestAborted, TypeInv, TypeOK
<1>3. UNCHANGED <<pub, att, wk, handlers, archived, posts, live, faults>>
  BY DEF RequestThrows, TickAborted, RequestAborted
<1>4. TypeOK'
  BY <1>1, <1>2, <1>3, ProcessEnds DEF TypeInv, TypeOK
<1>5. References'
  BY <1>1, <1>3, ProcessEnds DEF TypeInv, References
<1>6. QED
  BY <1>4, <1>5 DEF TypeInv

LEMMA TypeInvArchiveProject ==
  ASSUME TypeInv, NEW r \in Requests, ArchiveProject(r) PROVE TypeInv'
<1>1. r \in Procs /\ proc[r].pub \in Pubs /\ proc' = [proc EXCEPT ![r] = ProcDone]
  BY DEF Procs, ArchiveProject, TypeInv, References
<1>2. TypeOK'
  BY <1>1, ProcessEnds DEF TypeInv, TypeOK, ArchiveProject
<1>3. References'
  BY <1>1, ProcessEnds DEF TypeInv, References, ArchiveProject
<1>4. QED
  BY <1>2, <1>3 DEF TypeInv

LEMMA TypeInvRequestRead ==
  ASSUME TypeInv, NEW r \in Requests, RequestRead(r) PROVE TypeInv'
<1>1. PICK op \in Operations, p \in Pubs, pc \in {"write", "create", "archive"} :
        /\ proc' = [proc EXCEPT ![r] = [pc |-> pc, op |-> op, pub |-> p, att |-> None,
                                        seen |-> pub[p]]]
        /\ pc = "write" => op \in EditOps
  BY ConstantsAssumption DEF RequestRead, AllOperations, EditOps, IsArchive
<1>2. proc' \in [Procs -> ProcStates]
  BY <1>1, ConstantsAssumption DEF TypeInv, TypeOK, ProcStates, ProcSteps
<1>3. TypeOK'
  BY <1>2 DEF TypeInv, TypeOK, RequestRead
<1>4. r \in Procs
  BY DEF Procs
<1>5. \A y \in Procs : \/ proc'[y] = proc[y]
                       \/ proc'[y].pc = pc /\ proc'[y].op = op /\ proc'[y].pub = p
  BY <1>1, <1>4 DEF TypeInv, TypeOK
<1>6. References'
  BY <1>1, <1>5 DEF TypeInv, References, RequestRead
<1>7. QED
  BY <1>3, <1>6 DEF TypeInv

LEMMA TypeInvRequestWrite ==
  ASSUME TypeInv, NEW r \in Requests, RequestWrite(r) PROVE TypeInv'
<1> DEFINE p == proc[r].pub
           seen == proc[r].seen
<1>1. r \in Procs /\ p \in Pubs /\ pub[p] \in Rows /\ proc[r] \in ProcStates /\ proc[r].pc = "write"
  BY DEF Procs, RequestWrite, TypeInv, TypeOK, References
<1>2. seen \in Rows
  BY <1>1 DEF ProcStates
<1>3. PICK row \in Rows : pub' = [pub EXCEPT ![p] = row]
  <2>1. proc[r].op \in EditOps
    BY <1>1 DEF TypeInv, References
  <2>2. QED
    BY <1>1, <1>2, <2>1, RowUpdates DEF RequestWrite, EditOps
<1>4. pub' \in [Pubs -> Rows]
  BY <1>1, <1>3 DEF TypeInv, TypeOK
<1>5. /\ proc' \in [Procs -> ProcStates]
      /\ \A y \in Procs : \/ proc'[y] = proc[y]
                          \/ proc'[y].pc = "done"
                          \/ proc'[y].pc = "enqueue" /\ proc'[y].pub = p
  <2>1. PICK next \in {ProcDone, [proc[r] EXCEPT !.pc = "enqueue"]} :
          proc' = [proc EXCEPT ![r] = next]
    BY DEF RequestWrite
  <2>2. /\ next \in ProcStates
        /\ next.pc = "done" \/ (next.pc = "enqueue" /\ next.pub = p)
    BY <1>1, InitialValues DEF ProcStates, ProcSteps, ProcDone, ProcIdle
  <2>3. QED
    BY <1>1, <2>1, <2>2 DEF TypeInv, TypeOK
<1>6. TypeOK'
  BY <1>4, <1>5 DEF TypeInv, TypeOK, RequestWrite
<1>7. References'
  BY <1>1, <1>5 DEF TypeInv, References, RequestWrite
<1>8. QED
  BY <1>6, <1>7 DEF TypeInv

-----------------------------------------------------------------------------
(* The worker.  A step leaves the attempt a worker names alone, or names none. *)

LEMMA WorkerMoves ==
  ASSUME TypeInv, NEW w \in Workers, NEW next \in WorkerStates,
         wk' = [wk EXCEPT ![w] = next],
         next.pc = "idle" \/ (wk[w].pc # "idle" /\ next.att = wk[w].att)
  PROVE  /\ wk' \in [Workers -> WorkerStates]
         /\ \A v \in Workers : wk'[v].pc # "idle" =>
              wk'[v].att \in AttemptIds /\ att[wk'[v].att].pub \in Pubs
  BY DEF TypeInv, TypeOK, References

LEMMA WorkerAttempt ==
  ASSUME TypeInv, NEW w \in Workers, wk[w].pc # "idle"
  PROVE  /\ wk[w].att \in AttemptIds /\ att[wk[w].att] \in Attempts
         /\ att[wk[w].att].pub \in Pubs
         /\ wk[w] \in WorkerStates /\ wk[w].seen \in Rows /\ wk[w].post \in Nat
  BY DEF TypeInv, TypeOK, References, WorkerStates

\* An attempt changes its status or its job; what it is about stays.
LEMMA AttemptChange ==
  ASSUME TypeInv, NEW a \in AttemptIds, NEW row \in Attempts,
         row.pub = att[a].pub, row.job.state # "none" => att[a].pub \in Pubs,
         att' = [att EXCEPT ![a] = row]
  PROVE  /\ att' \in [AttemptIds -> Attempts]
         /\ \A b \in AttemptIds : att'[b].pub = att[b].pub
         /\ \A b \in AttemptIds : att'[b].job.state # "none" => att'[b].pub \in Pubs
  BY DEF TypeInv, TypeOK, References

\* The conjuncts of TypeInv that only the attempts, the workers and the
\* listeners can disturb.
LEMMA TypeInvWorkerStep ==
  ASSUME TypeInv,
         UNCHANGED <<batch, proc, archived>>,
         pub' \in [Pubs -> Rows], posts' \in [Pubs -> Nat],
         live' \in [Pubs -> SUBSET Nat], crashes' \in Nat, faults' \in Nat,
         att' \in [AttemptIds -> Attempts],
         \A b \in AttemptIds : att'[b].pub = att[b].pub,
         \A b \in AttemptIds : att'[b].job.state # "none" => att'[b].pub \in Pubs,
         wk' \in [Workers -> WorkerStates],
         \A v \in Workers : wk'[v].pc # "idle" =>
           wk'[v].att \in AttemptIds /\ att[wk'[v].att].pub \in Pubs,
         handlers' \subseteq HandlerStates,
         \A h \in handlers' : att[h.att].pub \in Pubs
  PROVE  TypeInv'
<1>1. TypeOK'
  BY DEF TypeInv, TypeOK
<1>2. References'
  BY DEF TypeInv, TypeOK, References, HandlerStates
<1>3. QED
  BY <1>1, <1>2 DEF TypeInv

LEMMA HandlerType ==
  ASSUME TypeInv, NEW a \in AttemptIds, NEW class \in {"transient", "permanent"},
         NEW w \in Workers
  PROVE  NewHandler(a, class, w) \in HandlerStates /\ NewHandler(a, class, w).att = a
<1> DEFINE try == att[a].job.tries + att[a].job.stalls + 1
<1>1. try \in Nat
  BY DEF TypeInv, TypeOK, Attempts, Jobs
<1>2. NewHandler(a, class, w) =
        [att |-> a, try |-> try, worker |-> w, class |-> class, pc |-> "new", retries |-> 0]
  BY DEF NewHandler
<1> HIDE DEF try
<1>3. QED
  BY <1>1, <1>2 DEF HandlerStates

LEMMA TypeInvTakeJob ==
  ASSUME TypeInv, NEW w \in Workers, TakeJob(w) PROVE TypeInv'
<1>1. PICK a \in AttemptIds :
        /\ att[a].job.state = "waiting"
        /\ att' = [att EXCEPT ![a].job = Taken(@)]
        /\ wk' = [wk EXCEPT ![w] = [pc |-> "loaded", att |-> a, post |-> 0,
                                    seen |-> pub[att[a].pub]]]
  BY DEF TakeJob
<1>2. att[a] \in Attempts /\ att[a].job \in Jobs /\ att[a].pub \in Pubs
  BY <1>1 DEF TypeInv, TypeOK, References, Attempts
<1>3. Taken(att[a].job) \in Jobs
  BY <1>2, JobUpdates
<1>4. /\ [att[a] EXCEPT !.job = Taken(att[a].job)] \in Attempts
      /\ [att[a] EXCEPT !.job = Taken(att[a].job)].pub = att[a].pub
      /\ att' = [att EXCEPT ![a] = [att[a] EXCEPT !.job = Taken(att[a].job)]]
  BY <1>1, <1>2, <1>3 DEF Attempts
<1>5. /\ att' \in [AttemptIds -> Attempts]
      /\ \A b \in AttemptIds : att'[b].pub = att[b].pub
      /\ \A b \in AttemptIds : att'[b].job.state # "none" => att'[b].pub \in Pubs
  BY <1>2, <1>4, AttemptChange
<1>6. [pc |-> "loaded", att |-> a, post |-> 0, seen |-> pub[att[a].pub]] \in WorkerStates
  BY <1>2 DEF TypeInv, TypeOK, WorkerStates, WorkerSteps
<1>7. /\ wk' \in [Workers -> WorkerStates]
      /\ \A v \in Workers : wk'[v].pc # "idle" =>
           wk'[v].att \in AttemptIds /\ att[wk'[v].att].pub \in Pubs
  BY <1>1, <1>2, <1>6 DEF TypeInv, TypeOK, References
<1>8. QED
  BY <1>5, <1>7, TypeInvWorkerStep DEF TypeInv, TypeOK, References, TakeJob

LEMMA TypeInvStartAttempt ==
  ASSUME TypeInv, NEW w \in Workers, StartAttempt(w) PROVE TypeInv'
<1> DEFINE a == wk[w].att
           row == [att[a] EXCEPT !.status = "running"]
           next == [wk[w] EXCEPT !.pc = "started"]
<1>1. wk[w].pc # "idle" /\ att' = [att EXCEPT ![a] = row] /\ wk' = [wk EXCEPT ![w] = next]
  BY DEF StartAttempt
<1>2. a \in AttemptIds /\ att[a] \in Attempts /\ att[a].pub \in Pubs /\ wk[w] \in WorkerStates
  BY <1>1, WorkerAttempt
<1>3. row \in Attempts /\ row.pub = att[a].pub
  BY <1>2 DEF Attempts, AttemptStatus
<1>4. next \in WorkerStates /\ next.att = wk[w].att
  BY <1>2 DEF WorkerStates, WorkerSteps
<1> HIDE DEF a, row, next
<1>5. /\ att' \in [AttemptIds -> Attempts]
      /\ \A b \in AttemptIds : att'[b].pub = att[b].pub
      /\ \A b \in AttemptIds : att'[b].job.state # "none" => att'[b].pub \in Pubs
  BY <1>1, <1>2, <1>3, AttemptChange
<1>6. /\ wk' \in [Workers -> WorkerStates]
      /\ \A v \in Workers : wk'[v].pc # "idle" =>
           wk'[v].att \in AttemptIds /\ att[wk'[v].att].pub \in Pubs
  BY <1>1, <1>4, WorkerMoves
<1>7. QED
  BY <1>5, <1>6, TypeInvWorkerStep DEF TypeInv, TypeOK, References, StartAttempt

LEMMA TypeInvCallPlatform ==
  ASSUME TypeInv, NEW w \in Workers, CallPlatform(w) PROVE TypeInv'
<1> DEFINE p == att[wk[w].att].pub
           n == posts[p] + 1
<1>1. p \in Pubs /\ wk[w] \in WorkerStates /\ wk[w].pc # "idle"
  BY WorkerAttempt DEF CallPlatform
<1>2. n \in Nat
  BY <1>1 DEF TypeInv, TypeOK
<1>3. /\ posts' = posts \/ posts' = [posts EXCEPT ![p] = n]
      /\ \/ live' = [live EXCEPT ![p] = @ \cup {n}]
         \/ live' = [live EXCEPT ![p] = @ \ {wk[w].seen.ext}]
      /\ \/ wk' = [wk EXCEPT ![w] = [wk[w] EXCEPT !.pc = "called", !.post = n]]
         \/ wk' = [wk EXCEPT ![w] = [wk[w] EXCEPT !.pc = "called"]]
  BY DEF CallPlatform
<1> HIDE DEF n, p
<1>4. posts' \in [Pubs -> Nat] /\ live' \in [Pubs -> SUBSET Nat]
  BY <1>1, <1>2, <1>3 DEF TypeInv, TypeOK
<1>5. PICK next \in WorkerStates :
        next.att = wk[w].att /\ wk' = [wk EXCEPT ![w] = next]
  <2>1. /\ [wk[w] EXCEPT !.pc = "called", !.post = n] \in WorkerStates
        /\ [wk[w] EXCEPT !.pc = "called"] \in WorkerStates
    BY <1>1, <1>2 DEF WorkerStates, WorkerSteps
  <2>2. /\ [wk[w] EXCEPT !.pc = "called", !.post = n].att = wk[w].att
        /\ [wk[w] EXCEPT !.pc = "called"].att = wk[w].att
    BY <1>1 DEF WorkerStates
  <2>3. QED
    BY <1>3, <2>1, <2>2
<1>6. /\ wk' \in [Workers -> WorkerStates]
      /\ \A v \in Workers : wk'[v].pc # "idle" =>
           wk'[v].att \in AttemptIds /\ att[wk'[v].att].pub \in Pubs
  BY <1>1, <1>5, WorkerMoves
<1>7. QED
  BY <1>4, <1>6, TypeInvWorkerStep DEF TypeInv, TypeOK, References, CallPlatform

LEMMA TypeInvRecordAttempt ==
  ASSUME TypeInv, NEW w \in Workers, RecordAttempt(w) PROVE TypeInv'
<1> DEFINE a == wk[w].att
           row == [att[a] EXCEPT !.status = "succeeded"]
           next == [wk[w] EXCEPT !.pc = "recorded", !.seen = pub[att[a].pub]]
<1>1. wk[w].pc # "idle" /\ att' = [att EXCEPT ![a] = row] /\ wk' = [wk EXCEPT ![w] = next]
  BY DEF RecordAttempt
<1>2. /\ a \in AttemptIds /\ att[a] \in Attempts /\ att[a].pub \in Pubs
      /\ wk[w] \in WorkerStates /\ pub[att[a].pub] \in Rows
  BY <1>1, WorkerAttempt DEF TypeInv, TypeOK
<1>3. row \in Attempts /\ row.pub = att[a].pub
  BY <1>2 DEF Attempts, AttemptStatus
<1>4. next \in WorkerStates /\ next.att = wk[w].att
  BY <1>2 DEF WorkerStates, WorkerSteps
<1> HIDE DEF a, row, next
<1>5. /\ att' \in [AttemptIds -> Attempts]
      /\ \A b \in AttemptIds : att'[b].pub = att[b].pub
      /\ \A b \in AttemptIds : att'[b].job.state # "none" => att'[b].pub \in Pubs
  BY <1>1, <1>2, <1>3, AttemptChange
<1>6. /\ wk' \in [Workers -> WorkerStates]
      /\ \A v \in Workers : wk'[v].pc # "idle" =>
           wk'[v].att \in AttemptIds /\ att[wk'[v].att].pub \in Pubs
  BY <1>1, <1>4, WorkerMoves
<1>7. QED
  BY <1>5, <1>6, TypeInvWorkerStep DEF TypeInv, TypeOK, References, RecordAttempt

LEMMA TypeInvRecordPublication ==
  ASSUME TypeInv, NEW w \in Workers,
         RecordPublication(w) \/ FinishUnpublish(w) PROVE TypeInv'
<1> DEFINE p == att[wk[w].att].pub
<1>1. /\ wk[w].pc # "idle" /\ p \in Pubs /\ pub[p] \in Rows
      /\ wk[w] \in WorkerStates /\ wk[w].seen \in Rows /\ wk[w].post \in Nat
  BY WorkerAttempt DEF RecordPublication, FinishUnpublish, TypeInv, TypeOK
<1>2. PICK row \in Rows : pub' = [pub EXCEPT ![p] = row]
  <2>1. Succeeded(pub[p], wk[w].seen, wk[w].post) \in Rows /\ UnpublishRecorded(pub[p]) \in Rows
    BY <1>1, RowUpdates
  <2>2. QED
    BY <2>1 DEF RecordPublication, FinishUnpublish
<1>3. pub' \in [Pubs -> Rows]
  BY <1>1, <1>2 DEF TypeInv, TypeOK
<1>4. PICK pc \in {"finishing", "finished"} :
        wk' = [wk EXCEPT ![w] = [wk[w] EXCEPT !.pc = pc]]
  BY DEF RecordPublication, FinishUnpublish
<1>5. /\ [wk[w] EXCEPT !.pc = pc] \in WorkerStates
      /\ [wk[w] EXCEPT !.pc = pc].att = wk[w].att
  BY <1>1 DEF WorkerStates, WorkerSteps
<1>6. /\ wk' \in [Workers -> WorkerStates]
      /\ \A v \in Workers : wk'[v].pc # "idle" =>
           wk'[v].att \in AttemptIds /\ att[wk'[v].att].pub \in Pubs
  BY <1>1, <1>4, <1>5, WorkerMoves
<1>7. UNCHANGED <<batch, proc, archived, att, handlers, posts, live, crashes, faults>>
  BY DEF RecordPublication, FinishUnpublish
<1>8. QED
  BY <1>3, <1>6, <1>7, TypeInvWorkerStep DEF TypeInv, TypeOK, References

\* The job of an attempt is given another state.
LEMMA AttemptJobChange ==
  ASSUME TypeInv, NEW a \in AttemptIds, NEW job \in Jobs, att[a].pub \in Pubs,
         att' = [att EXCEPT ![a].job = job]
  PROVE  /\ att' \in [AttemptIds -> Attempts]
         /\ \A b \in AttemptIds : att'[b].pub = att[b].pub
         /\ \A b \in AttemptIds : att'[b].job.state # "none" => att'[b].pub \in Pubs
  BY JobChange DEF TypeInv, References

\* The worker lets go of its job, and reads no attempt until it takes another.
LEMMA WorkerReleased ==
  ASSUME TypeInv, NEW w \in Workers, wk' = [wk EXCEPT ![w] = WorkerIdle]
  PROVE  /\ wk' \in [Workers -> WorkerStates]
         /\ \A v \in Workers : wk'[v].pc # "idle" =>
              wk'[v].att \in AttemptIds /\ att[wk'[v].att].pub \in Pubs
  BY InitialValues DEF TypeInv, TypeOK, References, WorkerIdle

LEMMA TypeInvCompleteJob ==
  ASSUME TypeInv, NEW w \in Workers, CompleteJob(w) PROVE TypeInv'
<1> DEFINE a == wk[w].att
<1>1. a \in AttemptIds /\ att[a] \in Attempts /\ att[a].pub \in Pubs
  BY WorkerAttempt DEF CompleteJob
<1>2. Completed(att[a].job) \in Jobs /\ att' = [att EXCEPT ![a].job = Completed(att[a].job)]
  BY <1>1, JobUpdates DEF CompleteJob, TypeInv, TypeOK, Attempts
<1> HIDE DEF a
<1>3. /\ att' \in [AttemptIds -> Attempts]
      /\ \A b \in AttemptIds : att'[b].pub = att[b].pub
      /\ \A b \in AttemptIds : att'[b].job.state # "none" => att'[b].pub \in Pubs
  BY <1>1, <1>2, AttemptJobChange
<1>4. /\ wk' \in [Workers -> WorkerStates]
      /\ \A v \in Workers : wk'[v].pc # "idle" =>
           wk'[v].att \in AttemptIds /\ att[wk'[v].att].pub \in Pubs
  BY WorkerReleased DEF CompleteJob
<1>5. QED
  BY <1>3, <1>4, TypeInvWorkerStep DEF TypeInv, TypeOK, References, CompleteJob

LEMMA TypeInvFailTry ==
  ASSUME TypeInv, NEW w \in Workers, FailTry(w) PROVE TypeInv'
<1> DEFINE a == wk[w].att
<1>1. a \in AttemptIds /\ att[a] \in Attempts /\ att[a].pub \in Pubs
  BY WorkerAttempt DEF FailTry
<1>2. /\ TryFailed(att[a].job, BullAttempts) \in Jobs
      /\ att' = [att EXCEPT ![a].job = TryFailed(att[a].job, BullAttempts)]
  BY <1>1, JobUpdates DEF FailTry, TypeInv, TypeOK, Attempts
<1> HIDE DEF a
<1>3. /\ att' \in [AttemptIds -> Attempts]
      /\ \A b \in AttemptIds : att'[b].pub = att[b].pub
      /\ \A b \in AttemptIds : att'[b].job.state # "none" => att'[b].pub \in Pubs
  BY <1>1, <1>2, AttemptJobChange
<1>4. /\ wk' \in [Workers -> WorkerStates]
      /\ \A v \in Workers : wk'[v].pc # "idle" =>
           wk'[v].att \in AttemptIds /\ att[wk'[v].att].pub \in Pubs
  BY WorkerReleased DEF FailTry
<1>5. PICK class \in {"transient", "permanent"} :
        handlers' = handlers \cup {NewHandler(a, class, w)}
  BY DEF FailTry, a
<1>6. handlers' \subseteq HandlerStates /\ \A h \in handlers' : att[h.att].pub \in Pubs
  BY <1>1, <1>5, HandlerType DEF TypeInv, TypeOK, References
<1>7. faults' \in Nat
  BY DEF FailTry, Fault, TypeInv, TypeOK
<1>8. UNCHANGED <<pub, batch, proc, archived, posts, live, crashes>>
  BY DEF FailTry
<1>9. QED
  BY <1>3, <1>4, <1>6, <1>7, <1>8, TypeInvWorkerStep DEF TypeInv, TypeOK

LEMMA TypeInvDelayOver ==
  ASSUME TypeInv, NEW a \in AttemptIds, DelayOver(a) PROVE TypeInv'
<1>1. att[a] \in Attempts /\ att[a].pub \in Pubs
  BY DEF DelayOver, TypeInv, TypeOK, References
<1>2. BackoffOver(att[a].job) \in Jobs /\ att' = [att EXCEPT ![a].job = BackoffOver(att[a].job)]
  BY <1>1, JobUpdates DEF DelayOver, TypeInv, TypeOK, Attempts
<1>3. /\ att' \in [AttemptIds -> Attempts]
      /\ \A b \in AttemptIds : att'[b].pub = att[b].pub
      /\ \A b \in AttemptIds : att'[b].job.state # "none" => att'[b].pub \in Pubs
  BY <1>1, <1>2, AttemptJobChange
<1>4. QED
  BY <1>3, TypeInvWorkerStep DEF TypeInv, TypeOK, References, DelayOver

LEMMA TypeInvRecoverStalled ==
  ASSUME TypeInv, NEW w \in Workers, RecoverStalled(w) PROVE TypeInv'
<1>1. PICK a \in AttemptIds :
        /\ att[a].job.state = "active"
        /\ att' = [att EXCEPT ![a].job = Stalled(@, MaxStalls)]
        /\ handlers' = handlers \/ handlers' = handlers \cup {NewHandler(a, "transient", w)}
  BY DEF RecoverStalled
<1>2. att[a] \in Attempts /\ att[a].pub \in Pubs
  BY <1>1 DEF TypeInv, TypeOK, References
<1>3. /\ Stalled(att[a].job, MaxStalls) \in Jobs
      /\ att' = [att EXCEPT ![a].job = Stalled(att[a].job, MaxStalls)]
  BY <1>1, <1>2, JobUpdates DEF TypeInv, TypeOK, Attempts
<1>4. /\ att' \in [AttemptIds -> Attempts]
      /\ \A b \in AttemptIds : att'[b].pub = att[b].pub
      /\ \A b \in AttemptIds : att'[b].job.state # "none" => att'[b].pub \in Pubs
  BY <1>2, <1>3, AttemptJobChange
<1>5. handlers' \subseteq HandlerStates /\ \A h \in handlers' : att[h.att].pub \in Pubs
  BY <1>1, <1>2, HandlerType DEF TypeInv, TypeOK, References
<1>6. QED
  BY <1>4, <1>5, TypeInvWorkerStep DEF TypeInv, TypeOK, References, RecoverStalled

LEMMA TypeInvWorkerCrash ==
  ASSUME TypeInv, NEW w \in Workers, WorkerCrash(w) PROVE TypeInv'
<1>1. /\ wk' \in [Workers -> WorkerStates]
      /\ \A v \in Workers : wk'[v].pc # "idle" =>
           wk'[v].att \in AttemptIds /\ att[wk'[v].att].pub \in Pubs
  BY WorkerReleased DEF WorkerCrash
<1>2. handlers' \subseteq handlers /\ crashes' \in Nat
  BY DEF WorkerCrash, TypeInv, TypeOK
<1>3. QED
  BY <1>1, <1>2, TypeInvWorkerStep DEF TypeInv, TypeOK, References, WorkerCrash

LEMMA TypeInvFailedRead ==
  ASSUME TypeInv, NEW h \in handlers, FailedRead(h) PROVE TypeInv'
<1> DEFINE a == h.att
           row == [att[a] EXCEPT !.status = "failed"]
           retries == pub[att[a].pub].retries
           next == [h EXCEPT !.pc = "read", !.retries = retries]
<1>1. /\ h \in HandlerStates /\ a \in AttemptIds /\ att[a] \in Attempts
      /\ att[a].pub \in Pubs
  BY DEF TypeInv, TypeOK, References, HandlerStates
<1>2. retries \in Nat
  BY <1>1 DEF TypeInv, TypeOK, Rows
<1>3. att' = [att EXCEPT ![a] = row] /\ handlers' = (handlers \ {h}) \cup {next}
  BY DEF FailedRead
<1>4. row \in Attempts /\ row.pub = att[a].pub
  BY <1>1 DEF Attempts, AttemptStatus
<1> HIDE DEF row, retries
<1>5. next \in HandlerStates /\ next.att = a
  BY <1>1, <1>2 DEF HandlerStates
<1> HIDE DEF a, next
<1>6. /\ att' \in [AttemptIds -> Attempts]
      /\ \A b \in AttemptIds : att'[b].pub = att[b].pub
      /\ \A b \in AttemptIds : att'[b].job.state # "none" => att'[b].pub \in Pubs
  BY <1>1, <1>3, <1>4, AttemptChange
<1>7. handlers' \subseteq HandlerStates /\ \A g \in handlers' : att[g.att].pub \in Pubs
  BY <1>1, <1>3, <1>5 DEF TypeInv, TypeOK, References
<1>8. QED
  BY <1>6, <1>7, TypeInvWorkerStep DEF TypeInv, TypeOK, References, FailedRead

LEMMA TypeInvFailedWrite ==
  ASSUME TypeInv, NEW h \in handlers, FailedWrite(h) PROVE TypeInv'
<1> DEFINE p == att[h.att].pub
<1>1. h \in HandlerStates /\ p \in Pubs /\ pub[p] \in Rows
  BY DEF TypeInv, TypeOK, References
<1>2. AttemptFailed(pub[p], h.retries, h.class, MaxRetries) \in Rows
  BY <1>1, FailureUpdate DEF HandlerStates
<1>3. pub' \in [Pubs -> Rows] /\ handlers' \subseteq handlers
  BY <1>1, <1>2 DEF FailedWrite, TypeInv, TypeOK
<1>4. QED
  BY <1>3, TypeInvWorkerStep DEF TypeInv, TypeOK, References, FailedWrite

LEMMA TypeInvNext == TypeInv /\ [Next]_vars => TypeInv'
<1> SUFFICES ASSUME TypeInv, [Next]_vars PROVE TypeInv'
  OBVIOUS
<1>1. ASSUME NEW x \in Procs, CreateAttempt(x) \/ MarkPublishing(x) \/ AddJob(x) \/ EnqueueError(x)
      PROVE  TypeInv'
  BY <1>1, TypeInvCreateAttempt, TypeInvMarkPublishing, TypeInvAddJob, TypeInvEnqueueError
<1>2. ASSUME NEW s \in Schedulers, SchedulerStep(s) \/ EnqueueError(s) \/ TickAborted(s)
      PROVE  TypeInv'
  <2>1. s \in Procs
    BY DEF Procs
  <2>2. QED
    BY <1>1, <1>2, <2>1, TypeInvClaim, TypeInvNextClaimed, TypeInvCatchEnqueue,
       TypeInvProcessEnds DEF SchedulerStep
<1>3. ASSUME NEW r \in Requests,
             RequestRead(r) \/ RequestStep(r) \/ EnqueueError(r) \/ RequestAborted(r)
      PROVE  TypeInv'
  <2>1. r \in Procs
    BY DEF Procs
  <2>2. QED
    BY <1>1, <1>3, <2>1, TypeInvRequestRead, TypeInvRequestWrite, TypeInvRequestEnqueue,
       TypeInvArchiveProject, TypeInvProcessEnds DEF RequestStep
<1>4. ASSUME NEW w \in Workers,
             TakeJob(w) \/ JobStep(w) \/ RecoverStalled(w) \/ WorkerCrash(w)
      PROVE  TypeInv'
  BY <1>4, TypeInvTakeJob, TypeInvStartAttempt, TypeInvCallPlatform, TypeInvRecordAttempt,
     TypeInvRecordPublication, TypeInvCompleteJob, TypeInvFailTry, TypeInvRecoverStalled,
     TypeInvWorkerCrash DEF JobStep
<1>5. ASSUME NEW h \in handlers, HandlerStep(h) PROVE TypeInv'
  BY <1>5, TypeInvFailedRead, TypeInvFailedWrite DEF HandlerStep
<1>6. CASE UNCHANGED vars
  BY <1>6 DEF vars, TypeInv, TypeOK, References
<1>7. QED
  BY <1>2, <1>3, <1>4, <1>5, <1>6, TypeInvDelayOver DEF Next

\* Every state of the publishing pipeline is well typed, whatever the number of
\* rows, processes, retries, crashes and faults: in particular a row only ever
\* holds one of the PUBLICATION_STATES, and no step follows a null foreign key.
THEOREM TypeCorrect == Spec => []TypeOK
<1>1. Spec => []TypeInv
  BY TypeInvInit, TypeInvNext, PTL DEF Spec
<1>2. TypeInv => TypeOK
  BY DEF TypeInv
<1>3. QED
  BY <1>1, <1>2, PTL

-----------------------------------------------------------------------------
(* What is published was posted.  PublishedWasPosted is not inductive: the   *)
(* external id a worker records may come from its own call or from a row it  *)
(* read earlier, so the chain from the platform to the row is needed: what a *)
(* worker carries never exceeds the posts made, and an external id, once     *)
(* set, never returns to null.                                               *)

\* Only a free attempt row is given another publication and kind.
FreeIsNobodys == \A a \in AttemptIds : att[a].status = "free" => att[a].pub = None

RowsPosted ==
  \A p \in Pubs :
    /\ pub[p].ext <= posts[p]
    /\ pub[p].status = "published" => pub[p].ext # 0

CarriesPost(w) ==
  LET p == att[wk[w].att].pub
      kind == att[wk[w].att].kind
  IN /\ wk[w].post <= posts[p]
     /\ wk[w].pc = "loaded" /\ wk[w].seen.ext # 0 => pub[p].ext # 0
     /\ wk[w].pc \in {"started", "called"} /\ kind = "unpublish" => pub[p].ext # 0
     /\ wk[w].pc = "called" /\ kind = "publish" => wk[w].post # 0
     /\ wk[w].pc = "recorded" =>
          wk[w].post # 0 \/ wk[w].seen.ext \in 1 .. posts[p]

WorkersPosted == \A w \in Workers : wk[w].pc # "idle" => CarriesPost(w)

PostedInv == TypeInv /\ FreeIsNobodys /\ RowsPosted /\ WorkersPosted

\* What no update but succeedAttempt's does: touch the external id, or publish.
SamePost(new, old) ==
  new.ext = old.ext /\ (new.status = "published" => old.status = "published")

LEMMA UpdatesKeepPost ==
  ASSUME NEW row \in Rows
  PROVE  /\ \A seen \in Rows, dated \in BOOLEAN : SamePost(Rescheduled(row, seen, dated), row)
         /\ SamePost(Canceled(row), row)
         /\ SamePost(Retried(row), row)
         /\ SamePost(Deleted(row), row)
         /\ SamePost(UnpublishQueued(row), row)
         /\ SamePost(Claimed(row), row)
         /\ SamePost(ReleaseBlocked(row), row)
         /\ SamePost(EnqueueFailed(row), row)
         /\ SamePost(UnpublishRecorded(row), row)
         /\ \A num : SamePost(MarkedPublishing(row, num), row)
         /\ \A n, class : SamePost(AttemptFailed(row, n, class, MaxRetries), row)
  BY DEF SamePost, Rows, Rescheduled, Canceled, Retried, Deleted, UnpublishQueued, Claimed,
         ReleaseBlocked, EnqueueFailed, UnpublishRecorded, MarkedPublishing, AttemptFailed

LEMMA OthersKeepPost ==
  ASSUME TypeInv, [Next]_vars, \A w \in Workers : ~RecordPublication(w)
  PROVE  \A p \in Pubs : SamePost(pub'[p], pub[p])
<1>1. ASSUME NEW s \in Schedulers, Claim(s)
      PROVE  \A p \in Pubs : SamePost(pub'[p], pub[p])
  <2>1. PICK due \in SUBSET Pubs :
          pub' = [p \in Pubs |-> IF p \in due THEN Claimed(pub[p]) ELSE pub[p]]
    BY <1>1 DEF Claim
  <2>2. QED
    BY <2>1, UpdatesKeepPost DEF TypeInv, TypeOK, SamePost
<1>2. ASSUME NEW x \in Procs, MarkPublishing(x)
      PROVE  \A p \in Pubs : SamePost(pub'[p], pub[p])
  <2>1. PICK num : pub' = [pub EXCEPT ![proc[x].pub] = MarkedPublishing(@, num)]
    BY <1>2 DEF MarkPublishing
  <2>2. QED
    BY <2>1, UpdatesKeepPost DEF TypeInv, TypeOK, SamePost
<1>3. ASSUME NEW s \in Schedulers, CatchEnqueue(s)
      PROVE  \A p \in Pubs : SamePost(pub'[p], pub[p])
  BY <1>3, UpdatesKeepPost, SMTT(30) DEF CatchEnqueue, TypeInv, TypeOK, SamePost
<1>4. ASSUME NEW r \in Requests, RequestWrite(r)
      PROVE  \A p \in Pubs : SamePost(pub'[p], pub[p])
  <2> DEFINE p == proc[r].pub
  <2>1. p \in Pubs /\ pub[p] \in Rows /\ proc[r].seen \in Rows /\ proc[r].op \in EditOps
    BY <1>4 DEF Procs, RequestWrite, TypeInv, TypeOK, References, ProcStates
  <2>2. PICK row : pub' = [pub EXCEPT ![p] = row] /\ SamePost(row, pub[p])
    BY <1>4, <2>1, UpdatesKeepPost DEF RequestWrite, EditOps
  <2>3. QED
    BY <2>1, <2>2 DEF TypeInv, TypeOK, SamePost
<1>5. ASSUME NEW w \in Workers, FinishUnpublish(w)
      PROVE  \A p \in Pubs : SamePost(pub'[p], pub[p])
  BY <1>5, UpdatesKeepPost DEF FinishUnpublish, TypeInv, TypeOK, SamePost
<1>6. ASSUME NEW h \in handlers, FailedWrite(h)
      PROVE  \A p \in Pubs : SamePost(pub'[p], pub[p])
  <2>1. PICK n, class :
          pub' = [pub EXCEPT ![att[h.att].pub] = AttemptFailed(@, n, class, MaxRetries)]
    BY <1>6 DEF FailedWrite
  <2>2. QED
    BY <2>1, UpdatesKeepPost DEF TypeInv, TypeOK, SamePost
<1>7. CASE UNCHANGED pub
  BY <1>7 DEF SamePost
<1>8. QED
  BY <1>1, <1>2, <1>3, <1>4, <1>5, <1>6, <1>7
     DEF Next, vars, Procs, SchedulerStep, RequestStep, JobStep, HandlerStep, NextClaimed,
         RequestEnqueue, CreateAttempt, AddJob, EnqueueError, TickAborted, RequestRead,
         RequestThrows, ArchiveProject, RequestAborted, TakeJob, StartAttempt, CallPlatform,
         RecordAttempt, CompleteJob, FailTry, RecoverStalled, WorkerCrash, DelayOver, FailedRead

\* An attempt that has a publication keeps it, and its kind.
Kept ==
  \A b \in AttemptIds :
    /\ att[b].pub # None => att'[b].pub = att[b].pub /\ att'[b].kind = att[b].kind
    /\ att'[b].status = "free" => att[b].status = "free" /\ att'[b].pub = att[b].pub

LEMMA AttemptsKept ==
  ASSUME TypeInv, FreeIsNobodys, [Next]_vars
  PROVE  Kept
<1>1. ASSUME NEW x \in Procs, CreateAttempt(x) PROVE Kept
  <2>1. PICK a \in AttemptIds :
          /\ att[a].status = "free"
          /\ \E new : new.status = "queued" /\ att' = [att EXCEPT ![a] = new]
    BY <1>1 DEF CreateAttempt, FirstFree
  <2>2. QED
    BY <2>1 DEF Kept, TypeInv, TypeOK, FreeIsNobodys
<1>2. ASSUME NEW a, NEW job, att' = [att EXCEPT ![a].job = job] PROVE Kept
  BY <1>2 DEF Kept, TypeInv, TypeOK, Attempts
<1>3. ASSUME NEW a, NEW status \in {"running", "succeeded", "failed"},
             att' = [att EXCEPT ![a].status = status] PROVE Kept
  BY <1>3 DEF Kept, TypeInv, TypeOK, Attempts
<1>4. ASSUME UNCHANGED att PROVE Kept
  BY <1>4 DEF Kept
<1>5. ASSUME NEW x \in Procs, AddJob(x) \/ EnqueueError(x) PROVE Kept
  BY <1>2, <1>4, <1>5 DEF AddJob, EnqueueError
<1>6. ASSUME NEW w \in Workers,
             TakeJob(w) \/ StartAttempt(w) \/ RecordAttempt(w) \/ CompleteJob(w) \/ FailTry(w)
               \/ RecoverStalled(w) PROVE Kept
  BY <1>2, <1>3, <1>6 DEF TakeJob, StartAttempt, RecordAttempt, CompleteJob, FailTry, RecoverStalled
<1>7. ASSUME NEW h \in handlers, FailedRead(h) PROVE Kept
  BY <1>3, <1>7 DEF FailedRead
<1>8. ASSUME NEW a \in AttemptIds, DelayOver(a) PROVE Kept
  BY <1>2, <1>8 DEF DelayOver
<1>9. ASSUME NEW s \in Schedulers, SchedulerStep(s) \/ EnqueueError(s) \/ TickAborted(s) PROVE Kept
  BY <1>1, <1>4, <1>5, <1>9
     DEF Procs, SchedulerStep, Claim, NextClaimed, MarkPublishing, CatchEnqueue, TickAborted
<1>10. ASSUME NEW r \in Requests,
              RequestRead(r) \/ RequestStep(r) \/ EnqueueError(r) \/ RequestAborted(r) PROVE Kept
  BY <1>1, <1>4, <1>5, <1>10
     DEF Procs, RequestStep, RequestEnqueue, MarkPublishing, RequestRead, RequestWrite,
         RequestThrows, ArchiveProject, RequestAborted
<1>11. ASSUME NEW w \in Workers,
              TakeJob(w) \/ JobStep(w) \/ RecoverStalled(w) \/ WorkerCrash(w) PROVE Kept
  BY <1>4, <1>6, <1>11
     DEF JobStep, CallPlatform, RecordPublication, FinishUnpublish, WorkerCrash
<1>12. ASSUME NEW h \in handlers, HandlerStep(h) PROVE Kept
  BY <1>4, <1>7, <1>12 DEF HandlerStep, FailedWrite
<1>13. QED
  BY <1>4, <1>8, <1>9, <1>10, <1>11, <1>12 DEF Next, vars

LEMMA PostsGrow ==
  ASSUME TypeInv, [Next]_vars
  PROVE  \A p \in Pubs : posts[p] \in Nat /\ posts'[p] \in Nat /\ posts[p] <= posts'[p]
<1>1. ASSUME NEW w \in Workers, CallPlatform(w)
      PROVE  \A p \in Pubs : posts[p] <= posts'[p]
  <2>1. posts' = posts \/ posts' = [posts EXCEPT ![att[wk[w].att].pub] = @ + 1]
    BY <1>1 DEF CallPlatform
  <2>2. QED
    BY <2>1 DEF TypeInv, TypeOK
<1>2. CASE UNCHANGED posts
  BY <1>2 DEF TypeInv, TypeOK
<1>3. ASSUME NEW s \in Schedulers, SchedulerStep(s) \/ EnqueueError(s) \/ TickAborted(s)
      PROVE  UNCHANGED posts
  BY <1>3 DEF SchedulerStep, Claim, NextClaimed, CreateAttempt, MarkPublishing, AddJob,
              CatchEnqueue, EnqueueError, TickAborted
<1>4. ASSUME NEW r \in Requests,
             RequestRead(r) \/ RequestStep(r) \/ EnqueueError(r) \/ RequestAborted(r)
      PROVE  UNCHANGED posts
  BY <1>4 DEF RequestStep, RequestEnqueue, CreateAttempt, MarkPublishing, AddJob, RequestRead,
              RequestWrite, RequestThrows, ArchiveProject, EnqueueError, RequestAborted
<1>5. ASSUME NEW w \in Workers, ~CallPlatform(w),
             TakeJob(w) \/ JobStep(w) \/ RecoverStalled(w) \/ WorkerCrash(w)
      PROVE  UNCHANGED posts
  BY <1>5 DEF JobStep, TakeJob, StartAttempt, RecordAttempt, RecordPublication, FinishUnpublish,
              CompleteJob, FailTry, RecoverStalled, WorkerCrash
<1>6. ASSUME NEW h \in handlers, HandlerStep(h) PROVE UNCHANGED posts
  BY <1>6 DEF HandlerStep, FailedRead, FailedWrite
<1>7. ASSUME NEW a \in AttemptIds, DelayOver(a) PROVE UNCHANGED posts
  BY <1>7 DEF DelayOver
<1>8. \A p \in Pubs : posts[p] <= posts'[p]
  BY <1>1, <1>2, <1>3, <1>4, <1>5, <1>6, <1>7 DEF Next, vars
<1>9. posts \in [Pubs -> Nat] /\ posts' \in [Pubs -> Nat]
  BY TypeInvNext DEF TypeInv, TypeOK
<1>10. QED
  BY <1>8, <1>9

\* The update succeedAttempt writes names a post that was made.
LEMMA RecordedWasPosted ==
  ASSUME PostedInv, NEW w \in Workers, RecordPublication(w)
  PROVE  LET p == att[wk[w].att].pub
         IN /\ p \in Pubs
            /\ pub'[p].ext \in 1 .. posts[p]
            /\ \A q \in Pubs : q # p => pub'[q] = pub[q]
<1> DEFINE p == att[wk[w].att].pub
           seen == wk[w].seen
           post == wk[w].post
           ext == IF post # 0 THEN post ELSE seen.ext
<1>1. /\ p \in Pubs /\ pub[p] \in Rows /\ posts[p] \in Nat
      /\ seen \in Rows /\ post \in Nat /\ wk[w].pc = "recorded"
  BY WorkerAttempt DEF RecordPublication, PostedInv, TypeInv, TypeOK
<1>2. post <= posts[p] /\ (post # 0 \/ seen.ext \in 1 .. posts[p])
  BY <1>1 DEF PostedInv, WorkersPosted, CarriesPost
<1>3. ext \in 1 .. posts[p]
  BY <1>1, <1>2
<1>4. pub' = [pub EXCEPT ![p] = Succeeded(@, seen, post)]
  BY DEF RecordPublication
<1>5. Succeeded(pub[p], seen, post).ext = ext
  BY <1>1 DEF Succeeded, Rows
<1> HIDE DEF ext
<1>6. pub'[p].ext = ext
  BY <1>1, <1>4, <1>5 DEF PostedInv, TypeInv, TypeOK
<1>7. QED
  BY <1>1, <1>3, <1>4, <1>6 DEF PostedInv, TypeInv, TypeOK

\* An external id names a post of its publication, and once set it stays set.
LEMMA RowsPostedNext ==
  ASSUME PostedInv, [Next]_vars
  PROVE  /\ RowsPosted'
         /\ \A p \in Pubs : pub[p].ext # 0 => pub'[p].ext # 0
<1>1. \A p \in Pubs : /\ pub[p].ext \in Nat /\ pub'[p].ext \in Nat
                      /\ posts[p] \in Nat /\ posts'[p] \in Nat /\ posts[p] <= posts'[p]
  <2>1. TypeInv /\ TypeInv'
    BY TypeInvNext DEF PostedInv
  <2>2. QED
    BY <2>1, PostsGrow DEF TypeInv, TypeOK, Rows
<1>2. CASE \E w \in Workers : RecordPublication(w)
  <2>1. PICK w \in Workers : RecordPublication(w)
    BY <1>2
  <2> DEFINE p == att[wk[w].att].pub
  <2>2. p \in Pubs /\ pub'[p].ext \in 1 .. posts[p] /\ \A q \in Pubs : q # p => pub'[q] = pub[q]
    BY <2>1, RecordedWasPosted
  <2> HIDE DEF p
  <2>3. QED
    BY <1>1, <2>2 DEF PostedInv, RowsPosted
<1>3. CASE \A w \in Workers : ~RecordPublication(w)
  BY <1>1, <1>3, OthersKeepPost DEF PostedInv, RowsPosted, SamePost
<1>4. QED
  BY <1>2, <1>3

\* A worker that keeps its attempt, whatever step is taken.
LEMMA AttemptFrame ==
  ASSUME PostedInv, [Next]_vars, NEW w \in Workers, wk[w].pc # "idle",
         wk'[w].att = wk[w].att
  PROVE  /\ att[wk[w].att].pub \in Pubs
         /\ att'[wk'[w].att].pub = att[wk[w].att].pub
         /\ att'[wk'[w].att].kind = att[wk[w].att].kind
<1>1. wk[w].att \in AttemptIds /\ att[wk[w].att].pub \in Pubs
  BY WorkerAttempt DEF PostedInv
<1>2. att[wk[w].att].pub # None
  BY <1>1, ConstantsAssumption
<1>3. QED
  BY <1>1, <1>2, AttemptsKept DEF PostedInv, Kept

LEMMA WorkerUntouched ==
  ASSUME PostedInv, [Next]_vars, NEW w \in Workers, wk[w].pc # "idle", wk'[w] = wk[w]
  PROVE  CarriesPost(w)'
<1> DEFINE p == att[wk[w].att].pub
<1>1. /\ p \in Pubs /\ att'[wk'[w].att].pub = p
      /\ att'[wk'[w].att].kind = att[wk[w].att].kind
  BY AttemptFrame
<1>2. /\ posts[p] \in Nat /\ posts'[p] \in Nat /\ posts[p] <= posts'[p]
      /\ pub[p].ext # 0 => pub'[p].ext # 0
  BY <1>1, PostsGrow, RowsPostedNext DEF PostedInv
<1>3. wk[w].post \in Nat /\ wk[w].seen.ext \in Nat
  BY WorkerAttempt DEF PostedInv, Rows
<1>4. CarriesPost(w)
  BY DEF PostedInv, WorkersPosted
<1>5. wk[w].seen.ext \in 1 .. posts[p] => wk[w].seen.ext \in 1 .. posts'[p]
  BY <1>2, <1>3
<1>6. wk[w].post <= posts[p] => wk[w].post <= posts'[p]
  BY <1>2, <1>3
<1> HIDE DEF p
<1>7. QED
  BY <1>1, <1>2, <1>4, <1>5, <1>6 DEF CarriesPost, p

\* Every step of a worker leaves it with a post that was made, or with a row
\* that names one.
LEMMA WorkerCarriesPost ==
  ASSUME PostedInv, [Next]_vars, NEW w \in Workers,
         TakeJob(w) \/ JobStep(w) \/ WorkerCrash(w), wk'[w].pc # "idle"
  PROVE  CarriesPost(w)'
<1> DEFINE p == att[wk[w].att].pub
<1> USE DEF PostedInv
<1>1. CASE TakeJob(w)
  <2>1. PICK a \in AttemptIds :
          /\ att[a].job.state = "waiting"
          /\ wk'[w] = [pc |-> "loaded", att |-> a, post |-> 0, seen |-> pub[att[a].pub]]
    BY <1>1 DEF TakeJob, TypeInv, TypeOK
  <2>2. att[a].pub \in Pubs /\ att[a].pub # None
    BY <2>1, ConstantsAssumption DEF TypeInv, References
  <2>3. att'[a].pub = att[a].pub /\ UNCHANGED <<pub, posts>>
    BY <1>1, <2>2, AttemptsKept DEF Kept, TakeJob
  <2>4. posts[att[a].pub] \in Nat
    BY <2>2 DEF TypeInv, TypeOK
  <2>5. QED
    BY <2>1, <2>2, <2>3, <2>4 DEF CarriesPost
<1>2. ASSUME JobStep(w) \/ WorkerCrash(w), wk[w].pc # "idle", wk'[w].att = wk[w].att
      PROVE  CarriesPost(w)'
  <2>1. /\ p \in Pubs /\ att'[wk'[w].att].pub = p
        /\ att'[wk'[w].att].kind = att[wk[w].att].kind
    BY <1>2, AttemptFrame
  <2>2. /\ posts[p] \in Nat /\ posts'[p] \in Nat /\ posts[p] <= posts'[p]
        /\ pub[p].ext # 0 => pub'[p].ext # 0
        /\ pub[p].ext \in Nat /\ pub[p].ext <= posts[p]
    BY <2>1, PostsGrow, RowsPostedNext DEF RowsPosted, TypeInv, TypeOK, Rows
  <2>3. wk[w].post \in Nat /\ wk[w].seen.ext \in Nat /\ wk[w] \in WorkerStates
    BY <1>2, WorkerAttempt DEF Rows
  <2>4. CarriesPost(w)
    BY <1>2 DEF WorkersPosted
  <2>5. CASE StartAttempt(w)
    <3>1. wk'[w] = [wk[w] EXCEPT !.pc = "started"] /\ UNCHANGED <<pub, posts>>
      BY <2>5 DEF StartAttempt, TypeInv, TypeOK
    <3>2. wk'[w].pc = "started" /\ wk'[w].post = wk[w].post /\ wk'[w].seen = wk[w].seen
      BY <2>3, <3>1 DEF WorkerStates
    <3>3. att[wk[w].att].kind = "unpublish" => pub[p].ext # 0
      BY <2>4, <2>5 DEF StartAttempt, CarriesPost
    <3>4. QED
      BY <2>1, <2>2, <2>4, <3>1, <3>2, <3>3 DEF CarriesPost
  <2>6. CASE CallPlatform(w)
    <3>1. pub' = pub /\ wk[w].pc = "started"
      BY <2>6 DEF CallPlatform
    <3>2. CASE /\ att[wk[w].att].kind = "publish"
               /\ posts' = [posts EXCEPT ![p] = posts[p] + 1]
               /\ wk' = [wk EXCEPT ![w].pc = "called", ![w].post = posts[p] + 1]
      <4> DEFINE n == posts[p] + 1
      <4>1. posts'[p] = n /\ n # 0 /\ n \in Nat
        BY <2>1, <2>2, <3>2 DEF TypeInv, TypeOK
      <4> HIDE DEF n
      <4>2. wk'[w] = [wk[w] EXCEPT !.pc = "called", !.post = n]
        BY <3>2 DEF TypeInv, TypeOK, n
      <4>3. wk'[w].pc = "called" /\ wk'[w].post = n
        BY <2>3, <4>2 DEF WorkerStates
      <4>4. QED
        BY <2>1, <3>2, <4>1, <4>3 DEF CarriesPost
    <3>3. CASE /\ att[wk[w].att].kind = "unpublish"
               /\ posts' = posts
               /\ wk' = [wk EXCEPT ![w].pc = "called"]
      <4>1. wk'[w] = [wk[w] EXCEPT !.pc = "called"]
        BY <3>3 DEF TypeInv, TypeOK
      <4>2. wk'[w].pc = "called" /\ wk'[w].post = wk[w].post
        BY <2>3, <4>1 DEF WorkerStates
      <4>3. QED
        BY <2>1, <2>4, <3>1, <3>3, <4>2 DEF CarriesPost
    <3>4. QED
      BY <2>6, <3>2, <3>3 DEF CallPlatform
  <2>7. CASE RecordAttempt(w)
    <3>1. /\ wk[w].pc = "called" /\ UNCHANGED <<pub, posts>>
          /\ wk'[w] = [wk[w] EXCEPT !.pc = "recorded", !.seen = pub[p]]
      BY <2>7 DEF RecordAttempt, TypeInv, TypeOK
    <3>2. wk'[w].pc = "recorded" /\ wk'[w].post = wk[w].post /\ wk'[w].seen = pub[p]
      BY <2>3, <3>1 DEF WorkerStates
    <3>3. att[wk[w].att].kind \in {"publish", "unpublish"}
      BY <1>2, WorkerAttempt DEF Attempts, Kinds
    <3>4. wk[w].post # 0 \/ pub[p].ext # 0
      BY <2>4, <3>1, <3>3 DEF CarriesPost
    <3>5. pub[p].ext # 0 => pub[p].ext \in 1 .. posts[p]
      BY <2>2
    <3>6. QED
      BY <2>1, <2>4, <3>1, <3>2, <3>4, <3>5 DEF CarriesPost
  <2>8. CASE RecordPublication(w) \/ FinishUnpublish(w)
    <3>1. PICK pc \in {"finishing", "finished"} :
            wk'[w] = [wk[w] EXCEPT !.pc = pc] /\ UNCHANGED posts
      BY <2>8 DEF RecordPublication, FinishUnpublish, TypeInv, TypeOK
    <3>2. wk'[w].pc \in {"finishing", "finished"} /\ wk'[w].post = wk[w].post
      BY <2>3, <3>1 DEF WorkerStates
    <3>3. QED
      BY <2>1, <2>4, <3>1, <3>2 DEF CarriesPost
  <2>9. QED
    <3>1. CompleteJob(w) \/ FailTry(w) \/ WorkerCrash(w) => wk'[w].pc = "idle"
      BY DEF CompleteJob, FailTry, WorkerCrash, WorkerIdle, TypeInv, TypeOK
    <3>2. QED
      BY <1>2, <2>5, <2>6, <2>7, <2>8, <3>1 DEF JobStep
<1>3. JobStep(w) \/ WorkerCrash(w) => wk[w].pc # "idle" /\ wk'[w].att = wk[w].att
  <2>1. CompleteJob(w) \/ FailTry(w) \/ WorkerCrash(w) => wk'[w].pc = "idle"
    BY DEF CompleteJob, FailTry, WorkerCrash, WorkerIdle, TypeInv, TypeOK
  <2>2. wk[w] \in WorkerStates
    BY DEF TypeInv, TypeOK
  <2>3. wk \in [Workers -> WorkerStates]
    BY DEF TypeInv, TypeOK
  <2>4. StartAttempt(w) => wk[w].pc # "idle" /\ wk'[w].att = wk[w].att
    BY <2>2, <2>3 DEF StartAttempt, WorkerStates
  <2>5. CallPlatform(w) => wk[w].pc # "idle" /\ wk'[w].att = wk[w].att
    BY <2>2, <2>3 DEF CallPlatform, WorkerStates
  <2>6. RecordAttempt(w) => wk[w].pc # "idle" /\ wk'[w].att = wk[w].att
    BY <2>2, <2>3 DEF RecordAttempt, WorkerStates
  <2>7. RecordPublication(w) => wk[w].pc # "idle" /\ wk'[w].att = wk[w].att
    BY <2>2, <2>3 DEF RecordPublication, WorkerStates
  <2>8. FinishUnpublish(w) => wk[w].pc # "idle" /\ wk'[w].att = wk[w].att
    BY <2>2, <2>3 DEF FinishUnpublish, WorkerStates
  <2>9. QED
    BY <2>1, <2>4, <2>5, <2>6, <2>7, <2>8 DEF JobStep
<1>4. QED
  BY <1>1, <1>2, <1>3

LEMMA PostedInvNext == PostedInv /\ [Next]_vars => PostedInv'
<1> SUFFICES ASSUME PostedInv, [Next]_vars PROVE PostedInv'
  OBVIOUS
<1>1. TypeInv' /\ FreeIsNobodys' /\ RowsPosted'
  BY TypeInvNext, AttemptsKept, RowsPostedNext DEF PostedInv, FreeIsNobodys, Kept
<1>2. ASSUME NEW v \in Workers, wk'[v].pc # "idle" PROVE CarriesPost(v)'
  <2>1. CASE wk'[v] = wk[v]
    BY <1>2, <2>1, WorkerUntouched
  <2>2. CASE TakeJob(v) \/ JobStep(v) \/ WorkerCrash(v)
    BY <1>2, <2>2, WorkerCarriesPost
  <2>3. ASSUME NEW w \in Workers, w # v,
               TakeJob(w) \/ JobStep(w) \/ WorkerCrash(w)
        PROVE  wk'[v] = wk[v]
    BY <2>3 DEF JobStep, TakeJob, StartAttempt, CallPlatform, RecordAttempt, RecordPublication,
                FinishUnpublish, CompleteJob, FailTry, WorkerCrash, PostedInv, TypeInv, TypeOK
  <2>4. ASSUME NEW s \in Schedulers, SchedulerStep(s) \/ EnqueueError(s) \/ TickAborted(s)
        PROVE  UNCHANGED wk
    BY <2>4 DEF SchedulerStep, Claim, NextClaimed, CreateAttempt, MarkPublishing, AddJob,
                CatchEnqueue, EnqueueError, TickAborted
  <2>5. ASSUME NEW r \in Requests,
               RequestRead(r) \/ RequestStep(r) \/ EnqueueError(r) \/ RequestAborted(r)
        PROVE  UNCHANGED wk
    BY <2>5 DEF RequestStep, RequestEnqueue, CreateAttempt, MarkPublishing, AddJob, RequestRead,
                RequestWrite, RequestThrows, ArchiveProject, EnqueueError, RequestAborted
  <2>6. ASSUME NEW h \in handlers, HandlerStep(h) PROVE UNCHANGED wk
    BY <2>6 DEF HandlerStep, FailedRead, FailedWrite
  <2>7. QED
    BY <2>1, <2>2, <2>3, <2>4, <2>5, <2>6 DEF Next, vars, DelayOver, RecoverStalled
<1>3. WorkersPosted'
  BY <1>2 DEF WorkersPosted
<1>4. QED
  BY <1>1, <1>3 DEF PostedInv

LEMMA PostedInvInit == Init => PostedInv
<1> SUFFICES ASSUME Init PROVE PostedInv
  OBVIOUS
<1>1. TypeInv
  BY TypeInvInit
<1>2. FreeIsNobodys /\ WorkersPosted
  BY DEF Init, FreeIsNobodys, FreeAttempt, WorkersPosted, WorkerIdle
<1>3. RowsPosted
  BY DEF Init, RowsPosted, CreatedRows, NewRow
<1>4. QED
  BY <1>1, <1>2, <1>3 DEF PostedInv

\* The database never claims more than the platform did.  A published row names
\* a post the platform made for it, for any number of schedulers, workers,
\* operators, retries, crashes and throwing calls: processPublish, succeedAttempt
\* and processUnpublish never leave a row published without its external id.
THEOREM PublishedWasPostedAlways == Spec => []PublishedWasPosted
<1>1. Init => PostedInv
  BY PostedInvInit
<1>2. PostedInv => PublishedWasPosted
  BY DEF PostedInv, RowsPosted, PublishedWasPosted, TypeInv, TypeOK, Rows
<1>3. QED
  BY <1>1, <1>2, PostedInvNext, PTL DEF Spec

-----------------------------------------------------------------------------
(* The pipeline implements Delivery.                                         *)

\* succeedAttempt is the only step that confirms ...
LEMMA RecordingConfirms ==
  ASSUME PostedInv, NEW w \in Workers, RecordPublication(w)
  PROVE  Promise!Next
<1> DEFINE p == att[wk[w].att].pub
<1>1. /\ p \in Pubs /\ pub'[p].ext \in 1 .. posts[p]
      /\ \A q \in Pubs : q # p => pub'[q] = pub[q]
  BY RecordedWasPosted
<1> HIDE DEF p
<1>2. UNCHANGED posts
  BY DEF RecordPublication
<1>3. ExternalIds' = [ExternalIds EXCEPT ![p] = pub'[p].ext]
  BY <1>1 DEF ExternalIds
<1>4. Published' \in {Published \cup {p}, Published \ {p}}
  <2>1. CASE pub'[p].status = "published"
    BY <1>1, <2>1 DEF Published
  <2>2. CASE pub'[p].status # "published"
    BY <1>1, <2>2 DEF Published
  <2>3. QED
    BY <2>1, <2>2
<1>5. Promise!Confirm(p)
  BY <1>1, <1>2, <1>3, <1>4 DEF Promise!Confirm
<1>6. QED
  BY <1>1, <1>5 DEF Promise!Next

\* ... the call to the platform the only one that sends ...
LEMMA CallingSends ==
  ASSUME TypeInv, NEW w \in Workers, CallPlatform(w)
  PROVE  [Promise!Next]_Promise!vars
<1> DEFINE p == att[wk[w].att].pub
<1>1. p \in Pubs
  BY WorkerAttempt DEF CallPlatform
<1>2. posts' = posts \/ posts' = [posts EXCEPT ![p] = @ + 1]
  BY DEF CallPlatform
<1>3. UNCHANGED <<ExternalIds, Published>>
  BY DEF CallPlatform, ExternalIds, Published
<1> HIDE DEF p
<1>4. CASE UNCHANGED posts
  BY <1>3, <1>4 DEF Promise!vars
<1>5. CASE posts' = [posts EXCEPT ![p] = @ + 1]
  <2>1. posts \in [Pubs -> Nat]
    BY DEF TypeInv, TypeOK
  <2>2. posts' = [q \in Pubs |-> posts[q] + (IF q \in {p} THEN 1 ELSE 0)]
    <3>1. /\ posts' \in [Pubs -> Nat] /\ posts'[p] = posts[p] + 1
          /\ \A q \in Pubs : q # p => posts'[q] = posts[q]
      BY <1>1, <1>5, <2>1
    <3>2. \A q \in Pubs : posts'[q] = posts[q] + (IF q \in {p} THEN 1 ELSE 0)
      BY <1>1, <2>1, <3>1
    <3>3. QED
      BY <3>1, <3>2
  <2>3. Promise!Send({p})
    BY <1>3, <2>2 DEF Promise!Send
  <2>4. QED
    BY <1>1, <2>3 DEF Promise!Next
<1>6. QED
  BY <1>2, <1>4, <1>5

\* ... and every other one leaves the posts and their ids alone.
LEMMA OthersHide ==
  ASSUME TypeInv, [Next]_vars, UNCHANGED posts, \A w \in Workers : ~RecordPublication(w)
  PROVE  Promise!Next
<1>1. \A p \in Pubs : SamePost(pub'[p], pub[p])
  BY OthersKeepPost
<1>2. UNCHANGED ExternalIds
  BY <1>1 DEF ExternalIds, SamePost
<1>3. Published' \subseteq Published
  BY <1>1 DEF Published, SamePost
<1>4. QED
  BY <1>2, <1>3 DEF Promise!Next, Promise!Hide

\* Only a call to the platform changes what it was sent.
LEMMA OnlyCallsSend ==
  ASSUME TypeInv, [Next]_vars, \A w \in Workers : ~CallPlatform(w)
  PROVE  UNCHANGED posts
<1>1. ASSUME NEW s \in Schedulers, SchedulerStep(s) \/ EnqueueError(s) \/ TickAborted(s)
      PROVE  UNCHANGED posts
  BY <1>1 DEF SchedulerStep, Claim, NextClaimed, CreateAttempt, MarkPublishing, AddJob,
              CatchEnqueue, EnqueueError, TickAborted
<1>2. ASSUME NEW r \in Requests,
             RequestRead(r) \/ RequestStep(r) \/ EnqueueError(r) \/ RequestAborted(r)
      PROVE  UNCHANGED posts
  BY <1>2 DEF RequestStep, RequestEnqueue, CreateAttempt, MarkPublishing, AddJob, RequestRead,
              RequestWrite, RequestThrows, ArchiveProject, EnqueueError, RequestAborted
<1>3. ASSUME NEW w \in Workers, TakeJob(w) \/ JobStep(w) \/ RecoverStalled(w) \/ WorkerCrash(w)
      PROVE  UNCHANGED posts
  BY <1>3 DEF JobStep, TakeJob, StartAttempt, RecordAttempt, RecordPublication, FinishUnpublish,
              CompleteJob, FailTry, RecoverStalled, WorkerCrash
<1>4. ASSUME NEW h \in handlers, HandlerStep(h) PROVE UNCHANGED posts
  BY <1>4 DEF HandlerStep, FailedRead, FailedWrite
<1>5. ASSUME NEW a \in AttemptIds, DelayOver(a) PROVE UNCHANGED posts
  BY <1>5 DEF DelayOver
<1>6. QED
  BY <1>1, <1>2, <1>3, <1>4, <1>5 DEF Next, vars

\* The pipeline implements Delivery: whatever schedulers, workers, listeners,
\* operators and failures do, a post is only ever added, a row is told of a post
\* only after it was made and never forgets it, and a row is shown as published
\* only by the step that tells it (succeedAttempt).
THEOREM PipelineDelivers == Spec => Delivers
<1>1. Init => Promise!Init
  BY DEF Init, CreatedRows, NewRow, Promise!Init, ExternalIds, Published
<1>2. PostedInv /\ [Next]_vars => [Promise!Next]_Promise!vars
  <2> SUFFICES ASSUME PostedInv, [Next]_vars PROVE [Promise!Next]_Promise!vars
    OBVIOUS
  <2>1. CASE \E w \in Workers : RecordPublication(w)
    BY <2>1, RecordingConfirms
  <2>2. CASE \E w \in Workers : CallPlatform(w)
    BY <2>2, CallingSends DEF PostedInv
  <2>3. CASE \A w \in Workers : ~RecordPublication(w) /\ ~CallPlatform(w)
    BY <2>3, OnlyCallsSend, OthersHide DEF PostedInv
  <2>4. QED
    BY <2>1, <2>2, <2>3
<1>3. QED
  BY <1>1, <1>2, PostedInvInit, PostedInvNext, PTL DEF Spec, Delivers, Promise!Spec
=============================================================================
