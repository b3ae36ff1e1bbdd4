------------------------ MODULE SocialCarriersProofs ------------------------
(***************************************************************************)
(* Who carries a publication: theorems of SocialPublishing about the row,  *)
(* the scheduler, the job and the failure listener a publication is in.    *)
(***************************************************************************)
EXTENDS SocialPublishingProofs, FiniteSetTheorems

-----------------------------------------------------------------------------
(* What the steps do to the attempts and to the processes                    *)

\* Everything of an attempt row but its status and its job.
SameAttempt(new, old) ==
  new.pub = old.pub /\ new.kind = old.kind /\ new.num = old.num

LEMMA JobOnly ==
  ASSUME TypeInv, NEW a \in AttemptIds, NEW job \in Jobs,
         att' = [att EXCEPT ![a].job = job]
  PROVE  /\ att'[a].job = job
         /\ \A b \in AttemptIds : SameAttempt(att'[b], att[b]) /\ att'[b].status = att[b].status
         /\ \A b \in AttemptIds : b # a => att'[b] = att[b]
  BY DEF TypeInv, TypeOK, Attempts, SameAttempt

LEMMA StatusOnly ==
  ASSUME TypeInv, NEW a \in AttemptIds, NEW status,
         att' = [att EXCEPT ![a].status = status]
  PROVE  \A b \in AttemptIds : SameAttempt(att'[b], att[b]) /\ att'[b].job = att[b].job
  BY DEF TypeInv, TypeOK, Attempts, SameAttempt

LEMMA JobStateAfter ==
  ASSUME NEW job \in Jobs
  PROVE  /\ Added(job).state = "waiting" /\ Taken(job).state = "active"
         /\ Completed(job).state = "done" /\ BackoffOver(job).state = "waiting"
         /\ TryFailed(job, BullAttempts).state \in {"delayed", "dead"}
         /\ BullAttempts = 1 => TryFailed(job, BullAttempts).state = "dead"
         /\ Stalled(job, MaxStalls).state =
              IF job.stalls + 1 > MaxStalls THEN "dead" ELSE "waiting"
<1>1. BullAttempts = 1 => ~(job.tries + 1 < BullAttempts)
  BY DEF Jobs
<1>2. job = [state |-> job.state, tries |-> job.tries, stalls |-> job.stalls]
  BY DEF Jobs
<1>3. QED
  BY <1>1, <1>2 DEF Jobs, Added, Taken, Completed, BackoffOver, TryFailed, Stalled

\* What CreateAttempt does: a free row becomes the process's attempt.
Creates(x, a) ==
  /\ att[a].status = "free"
  /\ att'[a].pub = proc[x].pub /\ att'[a].num = proc[x].seen.attempt + 1
  /\ att'[a].job.state = "none" /\ att'[a].status = "queued"
  /\ \A b \in AttemptIds : b # a => att'[b] = att[b]
  /\ proc'[x].att = a /\ proc'[x].pub = proc[x].pub /\ proc'[x].seen = proc[x].seen
  /\ proc'[x].pc = IF IsArchive(proc[x].op) THEN "add" ELSE "mark"
  /\ \A y \in Procs : y # x => proc'[y] = proc[y]

LEMMA CreateEffect ==
  ASSUME TypeInv, NEW x \in Procs, CreateAttempt(x)
  PROVE  \E a \in AttemptIds : Creates(x, a)
<1>1. PICK a \in AttemptIds :
        /\ att[a].status = "free"
        /\ att' = [att EXCEPT ![a] =
             [status |-> "queued", pub |-> proc[x].pub,
              kind |-> IF IsArchive(proc[x].op) THEN "unpublish" ELSE "publish",
              num |-> proc[x].seen.attempt + 1, job |-> NoJob]]
        /\ proc' = [proc EXCEPT ![x].att = a,
                      ![x].pc = IF IsArchive(proc[x].op) THEN "add" ELSE "mark"]
  BY DEF CreateAttempt, FirstFree
<1>2. proc'[x] = [proc[x] EXCEPT !.att = a, !.pc = IF IsArchive(proc[x].op) THEN "add" ELSE "mark"]
  BY <1>1 DEF TypeInv, TypeOK
<1>3. /\ proc'[x].att = a /\ proc'[x].pub = proc[x].pub /\ proc'[x].seen = proc[x].seen
      /\ proc'[x].pc = IF IsArchive(proc[x].op) THEN "add" ELSE "mark"
  BY <1>2 DEF TypeInv, TypeOK, ProcStates
<1>4. QED
  BY <1>1, <1>3 DEF TypeInv, TypeOK, NoJob, Creates

\* What ReadAndGate leaves a process in: at rest, or about to enqueue.
LEMMA GateEffect ==
  ASSUME TypeInv, NEW x \in Procs, NEW p \in Pubs, ReadAndGate(x, p)
  PROVE  /\ \A y \in Procs : y # x => proc'[y] = proc[y]
         /\ \/ /\ faults' = faults
               /\ pub[p].status = "publishing" /\ proc'[x] = Finished(x)
            \/ /\ faults' = faults
               /\ pub[p].status # "publishing"
               /\ proc'[x].pc \in {"create", "blocked"} /\ proc'[x].pub = p
               /\ proc'[x].seen = pub[p] /\ proc'[x].op = proc[x].op
            \/ /\ faults' = faults + 1
               /\ proc'[x].pc = "error" /\ proc'[x].pub = p
  BY DEF ReadAndGate, Fault, TypeInv, TypeOK

\* What MarkPublishing does to the row it marks.
Marks(x, p) ==
  /\ proc[x].pub = p
  /\ pub'[p].status = "publishing" /\ pub'[p].attempt = proc[x].seen.attempt + 1
  /\ pub'[p].retries = pub[p].retries /\ pub'[p].retryAt = pub[p].retryAt
  /\ \A q \in Pubs : q # p => pub'[q] = pub[q]
  /\ proc'[x].pc = "add" /\ proc'[x].att = proc[x].att /\ proc'[x].pub = p
  /\ proc'[x].op = proc[x].op
  /\ \A y \in Procs : y # x => proc'[y] = proc[y]

LEMMA MarkEffect ==
  ASSUME TypeInv, NEW x \in Procs, MarkPublishing(x)
  PROVE  \E p \in Pubs : Marks(x, p)
<1> DEFINE p == proc[x].pub
           num == proc[x].seen.attempt + 1
<1>1. p \in Pubs /\ pub[p] \in Rows /\ proc[x] \in ProcStates
  BY DEF MarkPublishing, TypeInv, TypeOK, References
<1>2. pub' = [pub EXCEPT ![p] = MarkedPublishing(@, num)]
  BY DEF MarkPublishing
<1>3. proc' = [proc EXCEPT ![x] = [proc[x] EXCEPT !.pc = "add"]]
  BY DEF MarkPublishing
<1> HIDE DEF num
<1>4. pub'[p] = [pub[p] EXCEPT !.status = "publishing", !.attempt = num]
  BY <1>1, <1>2 DEF TypeInv, TypeOK, MarkedPublishing
<1>5. /\ pub'[p].status = "publishing" /\ pub'[p].attempt = num
      /\ pub'[p].retries = pub[p].retries /\ pub'[p].retryAt = pub[p].retryAt
  BY <1>1, <1>4 DEF Rows
<1>6. /\ proc'[x].pc = "add" /\ proc'[x].att = proc[x].att /\ proc'[x].pub = p
      /\ proc'[x].op = proc[x].op
      /\ \A y \in Procs : y # x => proc'[y] = proc[y]
  BY <1>1, <1>3 DEF TypeInv, TypeOK, ProcStates
<1>7. QED
  BY <1>1, <1>2, <1>5, <1>6 DEF Marks, TypeInv, TypeOK, num

\* The job of a process's attempt is added, by AddJob or by a call that throws.
LEMMA AddEffect ==
  ASSUME TypeInv, NEW x \in Procs, proc[x].pc = "add",
         att' = [att EXCEPT ![proc[x].att].job = Added(@)]
  PROVE  LET a == proc[x].att
         IN /\ a \in AttemptIds /\ att[a].pub \in Pubs
            /\ att'[a].job.state = "waiting"
            /\ \A b \in AttemptIds : SameAttempt(att'[b], att[b]) /\ att'[b].status = att[b].status
            /\ \A b \in AttemptIds : b # a => att'[b] = att[b]
<1> DEFINE a == proc[x].att
<1>1. a \in AttemptIds /\ att[a].pub \in Pubs /\ att[a].job \in Jobs
  BY DEF TypeInv, TypeOK, References, Attempts
<1>2. Added(att[a].job) \in Jobs /\ att' = [att EXCEPT ![a].job = Added(att[a].job)]
  BY <1>1, JobUpdates DEF TypeInv, TypeOK
<1> HIDE DEF a
<1>3. /\ att'[a].job = Added(att[a].job)
      /\ \A b \in AttemptIds : SameAttempt(att'[b], att[b]) /\ att'[b].status = att[b].status
      /\ \A b \in AttemptIds : b # a => att'[b] = att[b]
  BY <1>1, <1>2, JobOnly
<1>4. Added(att[a].job).state = "waiting"
  BY <1>1, JobStateAfter
<1>5. QED
  BY <1>1, <1>3, <1>4 DEF a

\* After AddJob the process is at rest, or goes on to archive the project.
LEMMA AddEnds ==
  ASSUME TypeInv, NEW x \in Procs, AddJob(x)
  PROVE  /\ proc'[x] = Finished(x) \/ proc'[x].pc = "archive"
         /\ \A y \in Procs : y # x => proc'[y] = proc[y]
  BY DEF AddJob, TypeInv, TypeOK, ProcStates

LEMMA ErrorEffect ==
  ASSUME TypeInv, NEW x \in Procs, EnqueueError(x)
  PROVE  /\ proc[x].pc \in {"create", "mark", "add"}
         /\ proc'[x].pc = "error" /\ proc'[x].pub = proc[x].pub /\ proc'[x].att = proc[x].att
         /\ \A y \in Procs : y # x => proc'[y] = proc[y]
         /\ faults' = faults + 1
  BY DEF EnqueueError, Fault, TypeInv, TypeOK, ProcStates

-----------------------------------------------------------------------------
(* What the steps do to the jobs and to the workers                          *)

JobsKept ==
  \A b \in AttemptIds : SameAttempt(att'[b], att[b]) /\ att'[b].job = att[b].job

JobBecomes(a, state) ==
  /\ att'[a].job.state = state
  /\ \A b \in AttemptIds : SameAttempt(att'[b], att[b]) /\ att'[b].status = att[b].status
  /\ \A b \in AttemptIds : b # a => att'[b] = att[b]

Moves(w, from, to) ==
  /\ wk[w].pc = from /\ wk'[w].pc = to /\ wk'[w].att = wk[w].att
  /\ \A v \in Workers : v # w => wk'[v] = wk[v]

Released(w) ==
  /\ wk'[w] = WorkerIdle
  /\ \A v \in Workers : v # w => wk'[v] = wk[v]

LEMMA WorkerEffects ==
  ASSUME TypeInv, NEW w \in Workers
  PROVE  /\ StartAttempt(w) => Moves(w, "loaded", "started") /\ JobsKept
         /\ CallPlatform(w) => Moves(w, "started", "called")
         /\ RecordAttempt(w) => Moves(w, "called", "recorded") /\ JobsKept
         /\ RecordPublication(w) =>
              Moves(w, "recorded", "finishing") \/ Moves(w, "recorded", "finished")
         /\ FinishUnpublish(w) => Moves(w, "finishing", "finished")
<1>1. wk[w] \in WorkerStates /\ (wk[w].pc # "idle" => wk[w].att \in AttemptIds)
  BY WorkerAttempt DEF TypeInv, TypeOK
<1>2. ASSUME NEW from, NEW to, NEW post, NEW seen, wk[w].pc = from,
             wk' = [wk EXCEPT ![w] = [wk[w] EXCEPT !.pc = to, !.post = post, !.seen = seen]]
      PROVE  Moves(w, from, to)
  BY <1>1, <1>2 DEF TypeInv, TypeOK, WorkerStates, Moves
<1>3. [wk[w] EXCEPT !.post = wk[w].post, !.seen = wk[w].seen] = wk[w]
  BY <1>1 DEF WorkerStates
<1>4. ASSUME NEW from, NEW to, wk[w].pc = from,
             wk' = [wk EXCEPT ![w] = [wk[w] EXCEPT !.pc = to]]
      PROVE  Moves(w, from, to)
  BY <1>1, <1>4 DEF TypeInv, TypeOK, WorkerStates, Moves
<1>5. StartAttempt(w) => Moves(w, "loaded", "started") /\ JobsKept
  BY <1>1, <1>4, StatusOnly DEF StartAttempt, JobsKept
<1>6. CallPlatform(w) => Moves(w, "started", "called")
  BY <1>1 DEF CallPlatform, TypeInv, TypeOK, WorkerStates, Moves
<1>7. RecordAttempt(w) => Moves(w, "called", "recorded") /\ JobsKept
  <2>1. RecordAttempt(w) => JobsKept
    BY <1>1, StatusOnly DEF RecordAttempt, JobsKept
  <2>2. RecordAttempt(w) => Moves(w, "called", "recorded")
    BY <1>1 DEF RecordAttempt, TypeInv, TypeOK, WorkerStates, Moves
  <2>3. QED
    BY <2>1, <2>2
<1>8. /\ RecordPublication(w) =>
           Moves(w, "recorded", "finishing") \/ Moves(w, "recorded", "finished")
      /\ FinishUnpublish(w) => Moves(w, "finishing", "finished")
  BY <1>4 DEF RecordPublication, FinishUnpublish
<1>9. QED
  BY <1>5, <1>6, <1>7, <1>8

\* One job is given another state, the rest of its attempt stays.
LEMMA JobGiven ==
  ASSUME TypeInv, NEW a \in AttemptIds, NEW job \in Jobs,
         att' = [att EXCEPT ![a].job = job]
  PROVE  JobBecomes(a, job.state)
<1>1. /\ att'[a].job = job
      /\ \A b \in AttemptIds : SameAttempt(att'[b], att[b]) /\ att'[b].status = att[b].status
      /\ \A b \in AttemptIds : b # a => att'[b] = att[b]
  BY JobOnly
<1>2. QED
  BY <1>1 DEF JobBecomes

LEMMA TakeEffect ==
  ASSUME TypeInv, NEW w \in Workers, TakeJob(w)
  PROVE  \E a \in AttemptIds :
           /\ att[a].job.state = "waiting" /\ att[a].pub \in Pubs
           /\ JobBecomes(a, "active")
           /\ wk[w].pc = "idle"
           /\ wk'[w].pc = "loaded" /\ wk'[w].att = a /\ wk'[w].seen = pub[att[a].pub]
           /\ \A v \in Workers : v # w => wk'[v] = wk[v]
<1>1. PICK a \in AttemptIds :
        /\ att[a].job.state = "waiting"
        /\ att' = [att EXCEPT ![a].job = Taken(@)]
        /\ wk' = [wk EXCEPT ![w] = [pc |-> "loaded", att |-> a, post |-> 0,
                                    seen |-> pub[att[a].pub]]]
  BY DEF TakeJob
<1>2. att[a].job \in Jobs /\ att[a].pub \in Pubs
  BY <1>1 DEF TypeInv, TypeOK, References, Attempts
<1>3. /\ Taken(att[a].job) \in Jobs /\ att' = [att EXCEPT ![a].job = Taken(att[a].job)]
      /\ Taken(att[a].job).state = "active"
  BY <1>1, <1>2, JobUpdates, JobStateAfter DEF TypeInv, TypeOK
<1>4. JobBecomes(a, "active")
  BY <1>3, JobGiven
<1>5. QED
  BY <1>1, <1>2, <1>4 DEF TypeInv, TypeOK, TakeJob

LEMMA CompleteEffect ==
  ASSUME TypeInv, NEW w \in Workers, CompleteJob(w)
  PROVE  wk[w].pc = "finished" /\ JobBecomes(wk[w].att, "done") /\ Released(w)
<1> DEFINE a == wk[w].att
<1>1. a \in AttemptIds /\ att[a].job \in Jobs
  BY WorkerAttempt DEF CompleteJob, Attempts
<1>2. /\ Completed(att[a].job) \in Jobs /\ att' = [att EXCEPT ![a].job = Completed(att[a].job)]
      /\ Completed(att[a].job).state = "done"
  BY <1>1, JobUpdates, JobStateAfter DEF CompleteJob, TypeInv, TypeOK
<1> HIDE DEF a
<1>3. JobBecomes(a, "done")
  BY <1>1, <1>2, JobGiven
<1>4. QED
  BY <1>3 DEF a, CompleteJob, Released, TypeInv, TypeOK

LEMMA FailEffect ==
  ASSUME TypeInv, NEW w \in Workers, FailTry(w)
  PROVE  /\ \/ wk[w].pc \in {"loaded", "started"} /\ faults' = faults
            \/ wk[w].pc \in {"called", "recorded", "finishing", "finished"} /\ faults' = faults + 1
         /\ JobBecomes(wk[w].att, "delayed") \/ JobBecomes(wk[w].att, "dead")
         /\ BullAttempts = 1 => JobBecomes(wk[w].att, "dead")
         /\ Released(w)
         /\ \E class \in {"transient", "permanent"} :
              handlers' = handlers \cup {NewHandler(wk[w].att, class, w)}
<1> DEFINE a == wk[w].att
           job == TryFailed(att[a].job, BullAttempts)
<1>1. a \in AttemptIds /\ att[a].job \in Jobs
  BY WorkerAttempt DEF FailTry, Attempts
<1>2. job \in Jobs /\ att' = [att EXCEPT ![a].job = job]
  BY <1>1, JobUpdates DEF FailTry, TypeInv, TypeOK
<1>3. job.state \in {"delayed", "dead"} /\ (BullAttempts = 1 => job.state = "dead")
  BY <1>1, JobStateAfter
<1> HIDE DEF a, job
<1>4. JobBecomes(a, job.state)
  BY <1>1, <1>2, JobGiven
<1>5. /\ JobBecomes(a, "delayed") \/ JobBecomes(a, "dead")
      /\ BullAttempts = 1 => JobBecomes(a, "dead")
  BY <1>3, <1>4
<1>6. Released(w)
  BY DEF FailTry, Released, TypeInv, TypeOK
<1>7. QED
  BY <1>5, <1>6 DEF a, FailTry, Fault

LEMMA DelayEffect ==
  ASSUME TypeInv, NEW a \in AttemptIds, DelayOver(a)
  PROVE  att[a].job.state = "delayed" /\ JobBecomes(a, "waiting")
<1>1. att[a].job \in Jobs /\ att[a].job.state = "delayed"
  BY DEF DelayOver, TypeInv, TypeOK, Attempts
<1>2. /\ BackoffOver(att[a].job) \in Jobs /\ BackoffOver(att[a].job).state = "waiting"
      /\ att' = [att EXCEPT ![a].job = BackoffOver(att[a].job)]
  BY <1>1, JobUpdates, JobStateAfter DEF DelayOver, TypeInv, TypeOK
<1>3. QED
  BY <1>1, <1>2, JobGiven

LEMMA StalledEffect ==
  ASSUME TypeInv, NEW w \in Workers, RecoverStalled(w)
  PROVE  \E a \in AttemptIds :
           /\ att[a].job.state = "active" /\ att[a].pub \in Pubs
           /\ \A v \in Workers : wk[v].att # a
           /\ \/ JobBecomes(a, "waiting") /\ handlers' = handlers
              \/ /\ JobBecomes(a, "dead")
                 /\ handlers' = handlers \cup {NewHandler(a, "transient", w)}
<1>1. PICK a \in AttemptIds :
        /\ att[a].job.state = "active"
        /\ \A v \in Workers : wk[v].att # a
        /\ att' = [att EXCEPT ![a].job = Stalled(@, MaxStalls)]
        /\ handlers' = IF att[a].job.stalls + 1 > MaxStalls
                       THEN handlers \cup {NewHandler(a, "transient", w)}
                       ELSE handlers
  BY DEF RecoverStalled
<1> DEFINE job == Stalled(att[a].job, MaxStalls)
<1>2. att[a].job \in Jobs /\ att[a].pub \in Pubs
  BY <1>1 DEF TypeInv, TypeOK, References, Attempts
<1>3. job \in Jobs /\ att' = [att EXCEPT ![a].job = job]
  BY <1>1, <1>2, JobUpdates DEF TypeInv, TypeOK
<1>4. job.state = IF att[a].job.stalls + 1 > MaxStalls THEN "dead" ELSE "waiting"
  BY <1>2, JobStateAfter
<1> HIDE DEF job
<1>5. JobBecomes(a, job.state)
  BY <1>3, JobGiven
<1>6. \/ JobBecomes(a, "waiting") /\ handlers' = handlers
      \/ /\ JobBecomes(a, "dead")
         /\ handlers' = handlers \cup {NewHandler(a, "transient", w)}
  BY <1>1, <1>4, <1>5
<1>7. QED
  BY <1>1, <1>2, <1>6

-----------------------------------------------------------------------------
(* Attempts have one owner at a time: the process that is adding the job, the *)
(* queue, or the one worker that has the job.  For every value of the        *)
(* constants, with every failure.                                            *)

\* An attempt whose job is about to be added is one process's own.
ProcAttempts ==
  /\ \A x \in Procs : proc[x].pc \in {"mark", "add"} =>
       att[proc[x].att].job.state = "none" /\ att[proc[x].att].pub = proc[x].pub
  /\ \A x, y \in Procs :
       proc[x].pc \in {"mark", "add"} /\ proc[y].pc \in {"mark", "add"}
         /\ proc[x].att = proc[y].att => x = y

\* A worker's job is active, and no other worker has it.
WorkerJobs ==
  /\ \A w \in Workers : wk[w].pc # "idle" => att[wk[w].att].job.state = "active"
  /\ \A w \in Workers : wk[w].pc = "idle" => wk[w].att = None
  /\ \A v, w \in Workers : wk[v].pc # "idle" /\ wk[v].att = wk[w].att => v = w

JobInv == TypeInv /\ FreeIsNobodys /\ ProcAttempts /\ WorkerJobs

\* An attempt that has a publication is not free.
LEMMA OwnedNotFree ==
  ASSUME JobInv, NEW a \in AttemptIds, att[a].pub \in Pubs
  PROVE  att[a].status # "free"
  BY ConstantsAssumption DEF JobInv, FreeIsNobodys

\* Steps that leave the attempts' jobs, or change a job no process is adding.
LEMMA ProcAttemptsFrame ==
  ASSUME JobInv, UNCHANGED proc,
         \A b \in AttemptIds : SameAttempt(att'[b], att[b]),
         \A b \in AttemptIds : att[b].job.state = "none" => att'[b].job.state = "none"
  PROVE  ProcAttempts'
  BY DEF JobInv, ProcAttempts, TypeInv, References, SameAttempt

LEMMA WorkerJobsFrame ==
  ASSUME JobInv, UNCHANGED wk,
         \A b \in AttemptIds : att[b].job.state = "active" => att'[b].job.state = "active"
  PROVE  WorkerJobs'
  BY DEF JobInv, WorkerJobs, TypeInv, References

LEMMA JobInvCreate ==
  ASSUME JobInv, NEW x \in Procs, CreateAttempt(x)
  PROVE  ProcAttempts' /\ WorkerJobs'
<1>1. PICK a \in AttemptIds : Creates(x, a)
  BY CreateEffect DEF JobInv
<1>2. proc[x].pub \in Pubs /\ proc[x].pc = "create" /\ UNCHANGED wk
  BY DEF CreateAttempt, JobInv, TypeInv, References
<1>3. \A y \in Procs : y # x /\ proc[y].pc \in {"mark", "add"} =>
        proc[y].att \in AttemptIds /\ proc[y].att # a
  BY <1>1, OwnedNotFree DEF JobInv, TypeInv, References, Creates
<1>4. ProcAttempts'
  BY <1>1, <1>3 DEF ProcAttempts, Creates, JobInv
<1>5. \A w \in Workers : wk[w].pc # "idle" => wk[w].att \in AttemptIds /\ wk[w].att # a
  BY <1>1, WorkerAttempt, OwnedNotFree DEF JobInv, Creates
<1>6. WorkerJobs'
  BY <1>1, <1>2, <1>5 DEF WorkerJobs, Creates, JobInv
<1>7. QED
  BY <1>4, <1>6

LEMMA JobInvAdd ==
  ASSUME JobInv, NEW x \in Procs, AddJob(x) \/ EnqueueError(x)
  PROVE  ProcAttempts' /\ WorkerJobs'
<1>1. /\ \A y \in Procs : y # x => proc'[y] = proc[y]
      /\ proc'[x].pc \notin {"mark", "add"}
      /\ UNCHANGED wk
  <2>1. CASE AddJob(x)
    BY <2>1, AddEnds, FinishedType DEF AddJob, JobInv
  <2>2. CASE EnqueueError(x)
    BY <2>2, ErrorEffect DEF EnqueueError, JobInv
  <2>3. QED
    BY <2>1, <2>2
<1>2. CASE UNCHANGED att
  BY <1>1, <1>2 DEF JobInv, ProcAttempts, WorkerJobs
<1>3. CASE proc[x].pc = "add" /\ att' = [att EXCEPT ![proc[x].att].job = Added(@)]
  <2> DEFINE a == proc[x].att
  <2>1. /\ a \in AttemptIds /\ att'[a].job.state = "waiting"
        /\ \A b \in AttemptIds : b # a => att'[b] = att[b]
    BY <1>3, AddEffect DEF JobInv
  <2>2. \A y \in Procs : y # x /\ proc[y].pc \in {"mark", "add"} =>
          proc[y].att \in AttemptIds /\ proc[y].att # a
    BY <1>3 DEF JobInv, ProcAttempts, TypeInv, References
  <2>3. ProcAttempts'
    BY <1>1, <2>1, <2>2 DEF ProcAttempts, JobInv
  <2>4. att[a].job.state = "none"
    BY <1>3 DEF JobInv, ProcAttempts
  <2> HIDE DEF a
  <2>5. WorkerJobs'
    BY <1>1, <2>1, <2>4, WorkerJobsFrame
  <2>6. QED
    BY <2>3, <2>5
<1>4. QED
  BY <1>2, <1>3 DEF AddJob, EnqueueError

\* The other steps of a process: its attempt stays, or it is no longer adding.
LEMMA JobInvProcess ==
  ASSUME JobInv, NEW x \in Procs, UNCHANGED <<att, wk>>,
         \A y \in Procs : y # x => proc'[y] = proc[y],
         \/ proc'[x].pc \notin {"mark", "add"}
         \/ /\ proc[x].pc = "mark" /\ proc'[x].att = proc[x].att
            /\ proc'[x].pub = proc[x].pub
  PROVE  ProcAttempts' /\ WorkerJobs'
  BY DEF JobInv, ProcAttempts, WorkerJobs

LEMMA JobInvWorker ==
  ASSUME JobInv, NEW w \in Workers, UNCHANGED proc, JobStep(w) \/ TakeJob(w) \/ WorkerCrash(w)
  PROVE  ProcAttempts' /\ WorkerJobs'
<1> USE DEF JobInv
<1>1. CASE TakeJob(w)
  <2>1. PICK a \in AttemptIds :
          /\ att[a].job.state = "waiting"
          /\ JobBecomes(a, "active")
          /\ wk'[w].pc = "loaded" /\ wk'[w].att = a
          /\ \A v \in Workers : v # w => wk'[v] = wk[v]
    BY <1>1, TakeEffect
  <2>2. ProcAttempts'
    BY <2>1, ProcAttemptsFrame DEF JobBecomes
  <2>3. \A v \in Workers : wk[v].att # a
    BY <2>1, ConstantsAssumption DEF WorkerJobs
  <2>4. \A v \in Workers : v # w /\ wk[v].pc # "idle" => att'[wk[v].att] = att[wk[v].att]
    BY <2>1, <2>3 DEF JobBecomes, TypeInv, References
  <2>5. att'[a].job.state = "active" /\ a # None
    BY <2>1, ConstantsAssumption DEF JobBecomes
  <2>6. WorkerJobs'
    BY <2>1, <2>3, <2>4, <2>5 DEF WorkerJobs
  <2>7. QED
    BY <2>2, <2>6
<1>2. ASSUME NEW from \in WorkerSteps \ {"idle"}, NEW to \in WorkerSteps \ {"idle"},
             Moves(w, from, to), JobsKept
      PROVE  ProcAttempts' /\ WorkerJobs'
  <2>1. ProcAttempts'
    BY <1>2, ProcAttemptsFrame DEF JobsKept
  <2>2. WorkerJobs'
    BY <1>2 DEF Moves, WorkerJobs, JobsKept, TypeInv, References
  <2>3. QED
    BY <2>1, <2>2
<1>3. ASSUME NEW a \in AttemptIds, NEW state \in {"done", "dead", "delayed"},
             wk[w].pc # "idle", wk[w].att = a, JobBecomes(a, state), Released(w)
      PROVE  ProcAttempts' /\ WorkerJobs'
  <2>1. att[a].job.state = "active"
    BY <1>3 DEF WorkerJobs
  <2>2. ProcAttempts'
    BY <1>3, <2>1, ProcAttemptsFrame DEF JobBecomes
  <2>3. \A v \in Workers : v # w => wk[v].att # a
    BY <1>3 DEF WorkerJobs
  <2>4. \A v \in Workers : v # w /\ wk[v].pc # "idle" =>
          att'[wk[v].att] = att[wk[v].att] /\ wk[v].att # None
    BY <1>3, <2>3, ConstantsAssumption DEF JobBecomes, TypeInv, References
  <2>5. wk'[w].pc = "idle" /\ wk'[w].att = None /\ \A v \in Workers : v # w => wk'[v] = wk[v]
    BY <1>3 DEF Released, WorkerIdle
  <2>6. WorkerJobs'
    BY <2>4, <2>5 DEF WorkerJobs
  <2>7. QED
    BY <2>2, <2>6
<1>4. CASE WorkerCrash(w)
  <2>1. UNCHANGED att /\ Released(w)
    BY <1>4 DEF WorkerCrash, Released, TypeInv, TypeOK
  <2>2. WorkerJobs'
    BY <2>1, ConstantsAssumption DEF WorkerJobs, Released, WorkerIdle, TypeInv, References
  <2>3. QED
    BY <2>1, <2>2 DEF ProcAttempts
<1>5. CASE CallPlatform(w) \/ RecordPublication(w) \/ FinishUnpublish(w)
  <2>1. JobsKept
    BY <1>5 DEF CallPlatform, RecordPublication, FinishUnpublish, JobsKept, SameAttempt
  <2>2. QED
    BY <1>2, <1>5, <2>1, WorkerEffects DEF WorkerSteps
<1>6. CASE StartAttempt(w) \/ RecordAttempt(w)
  BY <1>2, <1>6, WorkerEffects DEF WorkerSteps
<1>7. CASE CompleteJob(w)
  BY <1>3, <1>7, CompleteEffect, WorkerAttempt
<1>8. CASE FailTry(w)
  BY <1>3, <1>8, FailEffect, WorkerAttempt
<1>9. QED
  BY <1>1, <1>4, <1>5, <1>6, <1>7, <1>8 DEF JobStep

LEMMA JobInvQueue ==
  ASSUME JobInv, UNCHANGED proc,
         \/ \E w \in Workers : RecoverStalled(w)
         \/ \E a \in AttemptIds : DelayOver(a)
         \/ \E h \in handlers : HandlerStep(h)
  PROVE  ProcAttempts' /\ WorkerJobs'
<1> USE DEF JobInv
<1>1. CASE \E w \in Workers : RecoverStalled(w)
  <2>1. PICK a \in AttemptIds :
          /\ att[a].job.state = "active" /\ \A v \in Workers : wk[v].att # a
          /\ JobBecomes(a, "waiting") \/ JobBecomes(a, "dead")
    BY <1>1, StalledEffect
  <2>2. UNCHANGED wk
    BY <1>1 DEF RecoverStalled
  <2>3. QED
    BY <2>1, <2>2, ProcAttemptsFrame DEF JobBecomes, WorkerJobs, TypeInv, References
<1>2. CASE \E a \in AttemptIds : DelayOver(a)
  <2>1. PICK a \in AttemptIds : att[a].job.state = "delayed" /\ JobBecomes(a, "waiting")
    BY <1>2, DelayEffect
  <2>2. UNCHANGED wk
    BY <1>2 DEF DelayOver
  <2>3. QED
    BY <2>1, <2>2, ProcAttemptsFrame, WorkerJobsFrame DEF JobBecomes
<1>3. CASE \E h \in handlers : HandlerStep(h)
  <2>1. JobsKept /\ UNCHANGED wk
    <3>1. PICK h \in handlers : FailedRead(h) \/ FailedWrite(h)
      BY <1>3 DEF HandlerStep
    <3>2. h.att \in AttemptIds
      BY DEF TypeInv, TypeOK, HandlerStates
    <3>3. QED
      BY <3>1, <3>2, StatusOnly DEF FailedRead, FailedWrite, JobsKept, SameAttempt
  <2>2. QED
    BY <2>1, ProcAttemptsFrame, WorkerJobsFrame DEF JobsKept
<1>4. QED
  BY <1>1, <1>2, <1>3

LEMMA JobInvInit == Init => JobInv
<1> SUFFICES ASSUME Init PROVE JobInv
  OBVIOUS
<1>1. TypeInv /\ FreeIsNobodys
  BY TypeInvInit DEF Init, FreeIsNobodys, FreeAttempt
<1>2. ProcAttempts /\ WorkerJobs
  BY DEF Init, ProcAttempts, ProcIdle, WorkerJobs, WorkerIdle
<1>3. QED
  BY <1>1, <1>2 DEF JobInv

LEMMA JobInvNext == JobInv /\ [Next]_vars => JobInv'
<1> SUFFICES ASSUME JobInv, [Next]_vars PROVE JobInv'
  OBVIOUS
<1> DEFINE Owners == ProcAttempts' /\ WorkerJobs'
<1>1. TypeInv' /\ FreeIsNobodys'
  BY TypeInvNext, AttemptsKept DEF JobInv, FreeIsNobodys, Kept
<1>2. ASSUME NEW x \in Procs, CreateAttempt(x) \/ AddJob(x) \/ EnqueueError(x) PROVE Owners
  BY <1>2, JobInvCreate, JobInvAdd
<1>3. ASSUME NEW x \in Procs, MarkPublishing(x) PROVE Owners
  <2>1. UNCHANGED <<att, wk>> /\ proc[x].pc = "mark"
    BY <1>3 DEF MarkPublishing
  <2>2. PICK p \in Pubs : Marks(x, p)
    BY <1>3, MarkEffect DEF JobInv
  <2>3. QED
    BY <2>1, <2>2, JobInvProcess DEF Marks
<1>4. ASSUME NEW x \in Procs, NEW p \in Pubs, ReadAndGate(x, p), UNCHANGED <<att, wk>>
      PROVE  Owners
  BY <1>4, GateEffect, FinishedType, JobInvProcess DEF JobInv
<1>5. ASSUME NEW x \in Procs, NEW new \in ProcStates, new.pc \notin {"mark", "add"},
             proc' = [proc EXCEPT ![x] = new], UNCHANGED <<att, wk>>
      PROVE  Owners
  <2>1. proc'[x] = new /\ \A y \in Procs : y # x => proc'[y] = proc[y]
    BY <1>5 DEF JobInv, TypeInv, TypeOK
  <2>2. QED
    BY <1>5, <2>1, JobInvProcess
<1>6. ASSUME NEW s \in Schedulers, SchedulerStep(s) \/ EnqueueError(s) \/ TickAborted(s)
      PROVE  Owners
  <2>1. s \in Procs
    BY DEF Procs
  <2>2. CASE Claim(s)
    BY <2>2 DEF Claim, JobInv, ProcAttempts, WorkerJobs
  <2>3. CASE NextClaimed(s)
    BY <1>4, <2>1, <2>3 DEF NextClaimed, JobInv, TypeInv, TypeOK
  <2>4. CASE CatchEnqueue(s) \/ TickAborted(s)
    BY <1>5, <2>1, <2>4, InitialValues DEF CatchEnqueue, TickAborted, ProcIdle
  <2>5. QED
    BY <1>2, <1>3, <1>6, <2>1, <2>2, <2>3, <2>4 DEF SchedulerStep
<1>7. ASSUME NEW r \in Requests,
             RequestRead(r) \/ RequestStep(r) \/ EnqueueError(r) \/ RequestAborted(r)
      PROVE  Owners
  <2>1. r \in Procs
    BY DEF Procs
  <2>2. CASE RequestEnqueue(r)
    <3>1. proc[r].pub \in Pubs
      BY <2>1, <2>2 DEF RequestEnqueue, JobInv, TypeInv, References
    <3>2. QED
      BY <1>4, <2>1, <2>2, <3>1 DEF RequestEnqueue
  <2>3. CASE RequestThrows(r) \/ ArchiveProject(r) \/ RequestAborted(r)
    BY <1>5, <2>1, <2>3, InitialValues DEF RequestThrows, ArchiveProject, RequestAborted,
                                            ProcDone, ProcIdle
  <2>4. CASE RequestRead(r)
    <3>1. \A y \in Procs : y # r => proc'[y] = proc[y]
      BY <2>4 DEF RequestRead, JobInv, TypeInv, TypeOK
    <3>2. proc'[r].pc \notin {"mark", "add"} /\ UNCHANGED <<att, wk>>
      BY <2>1, <2>4 DEF RequestRead, JobInv, TypeInv, TypeOK
    <3>3. QED
      BY <2>1, <3>1, <3>2, JobInvProcess
  <2>5. CASE RequestWrite(r)
    <3>1. \A y \in Procs : y # r => proc'[y] = proc[y]
      BY <2>5 DEF RequestWrite, JobInv, TypeInv, TypeOK
    <3>2. proc'[r].pc \notin {"mark", "add"} /\ UNCHANGED <<att, wk>>
      BY <2>1, <2>5 DEF RequestWrite, JobInv, TypeInv, TypeOK, ProcStates, ProcDone
    <3>3. QED
      BY <2>1, <3>1, <3>2, JobInvProcess
  <2>6. QED
    BY <1>2, <1>3, <1>7, <2>1, <2>2, <2>3, <2>4, <2>5 DEF RequestStep
<1>8. ASSUME NEW w \in Workers,
             TakeJob(w) \/ JobStep(w) \/ RecoverStalled(w) \/ WorkerCrash(w)
      PROVE  Owners
  <2>1. UNCHANGED proc
    BY <1>8 DEF TakeJob, JobStep, RecoverStalled, WorkerCrash, StartAttempt, CallPlatform,
                RecordAttempt, RecordPublication, FinishUnpublish, CompleteJob, FailTry
  <2>2. QED
    BY <1>8, <2>1, JobInvWorker, JobInvQueue
<1>9. ASSUME NEW a \in AttemptIds, DelayOver(a) PROVE Owners
  BY <1>9, JobInvQueue DEF DelayOver
<1>10. ASSUME NEW h \in handlers, HandlerStep(h) PROVE Owners
  BY <1>10, JobInvQueue DEF HandlerStep, FailedRead, FailedWrite
<1>11. ASSUME UNCHANGED vars PROVE Owners
  BY <1>11 DEF vars, JobInv, ProcAttempts, WorkerJobs
<1>12. Owners
  BY <1>6, <1>7, <1>8, <1>9, <1>10, <1>11 DEF Next
<1>13. QED
  BY <1>1, <1>12 DEF JobInv

-----------------------------------------------------------------------------
(* Carriers.  Without operators, and without retries inside BullMQ, a        *)
(* publication is carried by one thing at a time: its due row, the batch of a *)
(* scheduler, a scheduler's enqueue, a job, or the failure listener of a job. *)
(* A step hands it over or drops it; only a call that throws after it was    *)
(* carried out adds a carrier.                                               *)

NoBullRetryNoOperator == BullAttempts = 1 /\ Requests = {}

Batched(p) == {s \in Schedulers : p \in batch[s]}
Enqueuing(p) == {s \in Schedulers : proc[s].pc # "idle" /\ proc[s].pub = p}
InFlight(p) == {a \in AttemptIds : att[a].pub = p /\ JobInFlight(a)}
Listening(p) == {h \in handlers : att[h.att].pub = p}
Due(p) == IF Claimable(pub[p]) THEN 1 ELSE 0

\* The platform has been called for the job, and its worker still has it.
Called(a) ==
  \E w \in Workers :
    wk[w].att = a /\ wk[w].pc \in {"called", "recorded", "finishing", "finished"}

\* Jobs that may yet make a post.
Unsent(p) == {a \in InFlight(p) : ~Called(a)}

Carriers(p) ==
  Due(p) + Cardinality(Batched(p)) + Cardinality(Enqueuing(p))
    + Cardinality(InFlight(p)) + Cardinality(Listening(p))

\* Carriers that may yet lead to a post.
ToCome(p) ==
  Due(p) + Cardinality(Batched(p)) + Cardinality(Enqueuing(p))
    + Cardinality(Unsent(p)) + Cardinality(Listening(p))

Counted(p) ==
  /\ IsFiniteSet(Batched(p)) /\ IsFiniteSet(Enqueuing(p))
  /\ IsFiniteSet(InFlight(p)) /\ IsFiniteSet(Listening(p))

SchedulersPublish == \A s \in Schedulers : proc[s].op = "publish"

\* Every carrier but one is paid for by a call that threw; every post but one
\* by such a call or by a process that died.
Paid ==
  \A p \in Pubs :
    /\ Counted(p)
    /\ Carriers(p) <= 1 + faults
    /\ posts[p] + ToCome(p) <= 1 + crashes + faults

CarrierInv == JobInv /\ SchedulersPublish /\ Paid

\* What a step owes for what it adds.
Balanced(p) ==
  /\ Counted(p)'
  /\ Carriers(p)' + faults <= Carriers(p) + faults'
  /\ posts'[p] + ToCome(p)' + crashes + faults <= posts[p] + ToCome(p) + crashes' + faults'

LEMMA Fewer ==
  ASSUME NEW S, IsFiniteSet(S), NEW T, T \subseteq S
  PROVE  IsFiniteSet(T) /\ Cardinality(T) <= Cardinality(S)
  BY FS_Subset

LEMMA OneLess ==
  ASSUME NEW S, IsFiniteSet(S), NEW x \in S, NEW T, T \subseteq S \ {x}
  PROVE  IsFiniteSet(T) /\ Cardinality(T) + 1 <= Cardinality(S)
<1>1. IsFiniteSet(S \ {x}) /\ Cardinality(S \ {x}) = Cardinality(S) - 1
  BY FS_RemoveElement
<1>2. IsFiniteSet(T) /\ Cardinality(T) <= Cardinality(S \ {x})
  BY <1>1, Fewer
<1>3. Cardinality(T) \in Nat /\ Cardinality(S) \in Nat
  BY <1>2, FS_CardinalityType
<1>4. QED
  BY <1>1, <1>2, <1>3

LEMMA OneMore ==
  ASSUME NEW S, IsFiniteSet(S), NEW x, NEW T, T \subseteq S \cup {x}
  PROVE  IsFiniteSet(T) /\ Cardinality(T) <= Cardinality(S) + 1
<1>1. IsFiniteSet(S \cup {x}) /\ Cardinality(S \cup {x}) <= Cardinality(S) + 1
  <2>1. /\ IsFiniteSet(S \cup {x})
        /\ Cardinality(S \cup {x}) = IF x \in S THEN Cardinality(S) ELSE Cardinality(S) + 1
    BY FS_AddElement
  <2>2. Cardinality(S) \in Nat
    BY FS_CardinalityType
  <2>3. QED
    BY <2>1, <2>2
<1>2. IsFiniteSet(T) /\ Cardinality(T) <= Cardinality(S \cup {x})
  BY <1>1, Fewer
<1>3. Cardinality(T) \in Nat /\ Cardinality(S) \in Nat /\ Cardinality(S \cup {x}) \in Nat
  BY <1>1, <1>2, FS_CardinalityType
<1>4. QED
  BY <1>1, <1>2, <1>3

LEMMA CountsType ==
  ASSUME NEW p, Counted(p)
  PROVE  /\ Cardinality(Batched(p)) \in Nat /\ Cardinality(Enqueuing(p)) \in Nat
         /\ Cardinality(InFlight(p)) \in Nat /\ Cardinality(Listening(p)) \in Nat
         /\ Unsent(p) \subseteq InFlight(p) /\ IsFiniteSet(Unsent(p))
         /\ Cardinality(Unsent(p)) \in Nat
         /\ Due(p) \in {0, 1}
<1>1. IsFiniteSet(Unsent(p)) /\ Unsent(p) \subseteq InFlight(p)
  BY Fewer DEF Counted, Unsent
<1>2. QED
  BY <1>1, FS_CardinalityType DEF Counted, Due

\* Numbers are typed in both states.
LEMMA TotalsType ==
  ASSUME CarrierInv, NEW p \in Pubs
  PROVE  /\ Counted(p) /\ Due(p) \in {0, 1} /\ posts[p] \in Nat
         /\ crashes \in Nat /\ faults \in Nat
  BY CountsType DEF CarrierInv, Paid, JobInv, TypeInv, TypeOK

\* A step that adds no carrier anywhere owes nothing.
LEMMA NothingAdded ==
  ASSUME CarrierInv, NEW p \in Pubs,
         Due(p)' <= Due(p), Batched(p)' \subseteq Batched(p),
         Enqueuing(p)' \subseteq Enqueuing(p), InFlight(p)' \subseteq InFlight(p),
         Unsent(p)' \subseteq Unsent(p), Listening(p)' \subseteq Listening(p),
         posts'[p] = posts[p],
         crashes' \in {crashes, crashes + 1}, faults' \in {faults, faults + 1}
  PROVE  Balanced(p)
<1>1. /\ Counted(p) /\ Due(p) \in {0, 1} /\ posts[p] \in Nat
      /\ crashes \in Nat /\ faults \in Nat
  BY TotalsType
<1>2. /\ Cardinality(Batched(p)) \in Nat /\ Cardinality(Enqueuing(p)) \in Nat
      /\ Cardinality(InFlight(p)) \in Nat /\ Cardinality(Listening(p)) \in Nat
      /\ IsFiniteSet(Unsent(p)) /\ Cardinality(Unsent(p)) \in Nat
  BY <1>1, CountsType
<1>3. /\ IsFiniteSet(Batched(p)') /\ Cardinality(Batched(p)') <= Cardinality(Batched(p))
      /\ IsFiniteSet(Enqueuing(p)') /\ Cardinality(Enqueuing(p)') <= Cardinality(Enqueuing(p))
      /\ IsFiniteSet(InFlight(p)') /\ Cardinality(InFlight(p)') <= Cardinality(InFlight(p))
      /\ IsFiniteSet(Unsent(p)') /\ Cardinality(Unsent(p)') <= Cardinality(Unsent(p))
      /\ IsFiniteSet(Listening(p)') /\ Cardinality(Listening(p)') <= Cardinality(Listening(p))
  BY <1>1, <1>2, Fewer DEF Counted
<1>4. Counted(p)'
  BY <1>3 DEF Counted
<1>5. /\ Cardinality(Batched(p)') \in Nat /\ Cardinality(Enqueuing(p)') \in Nat
      /\ Cardinality(InFlight(p)') \in Nat /\ Cardinality(Listening(p)') \in Nat
      /\ Cardinality(Unsent(p)') \in Nat /\ Due(p)' \in {0, 1}
  BY <1>3, FS_CardinalityType DEF Due
<1>6. QED
  BY <1>1, <1>2, <1>3, <1>4, <1>5 DEF Balanced, Carriers, ToCome

LEMMA CountsTypeNext ==
  ASSUME NEW p, Counted(p)'
  PROVE  /\ Cardinality(Batched(p)') \in Nat /\ Cardinality(Enqueuing(p)') \in Nat
         /\ Cardinality(InFlight(p)') \in Nat /\ Cardinality(Listening(p)') \in Nat
         /\ IsFiniteSet(Unsent(p)') /\ Cardinality(Unsent(p)') \in Nat
         /\ Due(p)' \in {0, 1}
<1>1. IsFiniteSet(Unsent(p)') /\ Unsent(p)' \subseteq InFlight(p)'
  BY Fewer DEF Counted, Unsent
<1>2. QED
  BY <1>1, FS_CardinalityType DEF Counted, Due

\* The sets a step leaves alone.
LEMMA JobsFrame ==
  ASSUME NEW p, UNCHANGED <<att, wk>>
  PROVE  InFlight(p)' = InFlight(p) /\ Unsent(p)' = Unsent(p)
<1>1. InFlight(p)' = InFlight(p)
  BY DEF InFlight, JobInFlight
<1>2. \A a : Called(a)' <=> Called(a)
  BY DEF Called
<1>3. QED
  BY <1>1, <1>2 DEF Unsent

LEMMA HoldersFrame ==
  ASSUME NEW p, UNCHANGED <<batch, proc>>
  PROVE  Batched(p)' = Batched(p) /\ Enqueuing(p)' = Enqueuing(p)
  BY DEF Batched, Enqueuing

LEMMA ListeningFrame ==
  ASSUME JobInv, NEW p, UNCHANGED handlers, \A b \in AttemptIds : SameAttempt(att'[b], att[b])
  PROVE  Listening(p)' = Listening(p)
  BY DEF Listening, SameAttempt, JobInv, TypeInv, TypeOK, HandlerStates

\* claimDuePublications: a due row goes into the batch.
LEMMA BalancedClaim ==
  ASSUME CarrierInv, NEW s \in Schedulers, Claim(s), NEW p \in Pubs
  PROVE  Balanced(p)
<1>1. PICK due \in SUBSET {q \in Pubs : Claimable(pub[q])} :
        /\ pub' = [q \in Pubs |-> IF q \in due THEN Claimed(pub[q]) ELSE pub[q]]
        /\ batch' = [batch EXCEPT ![s] = due]
  BY DEF Claim
<1>2. batch[s] = {} /\ UNCHANGED <<att, proc, wk, handlers, posts, crashes, faults>>
  BY DEF Claim
<1>3. /\ Enqueuing(p)' = Enqueuing(p) /\ InFlight(p)' = InFlight(p)
      /\ Unsent(p)' = Unsent(p) /\ Listening(p)' = Listening(p)
  BY <1>2, JobsFrame DEF Enqueuing, Listening
<1>4. CASE p \in due
  <2>1. Due(p) = 1 /\ Due(p)' = 0
    <3>1. pub[p] \in Rows /\ pub'[p] = Claimed(pub[p]) /\ Claimable(pub[p])
      BY <1>1, <1>4 DEF CarrierInv, JobInv, TypeInv, TypeOK
    <3>2. ~Claimable(pub'[p])
      BY <3>1 DEF Claimable, Claimed, Rows
    <3>3. QED
      BY <3>1, <3>2 DEF Due
  <2>2. Batched(p)' \subseteq Batched(p) \cup {s}
    BY <1>1 DEF Batched, CarrierInv, JobInv, TypeInv, TypeOK
  <2>3. /\ Counted(p) /\ posts[p] \in Nat /\ crashes \in Nat /\ faults \in Nat
    BY TotalsType
  <2>4. IsFiniteSet(Batched(p)') /\ Cardinality(Batched(p)') <= Cardinality(Batched(p)) + 1
    BY <2>2, <2>3, OneMore DEF Counted
  <2>5. Counted(p)'
    BY <1>3, <2>3, <2>4 DEF Counted
  <2>6. QED
    BY <1>2, <1>3, <2>1, <2>3, <2>4, <2>5, CountsType, CountsTypeNext
       DEF Balanced, Carriers, ToCome
<1>5. CASE p \notin due
  <2>1. Due(p)' = Due(p)
    BY <1>1, <1>5 DEF Due, CarrierInv, JobInv, TypeInv, TypeOK
  <2>2. Batched(p)' \subseteq Batched(p)
    BY <1>1, <1>2, <1>5 DEF Batched, CarrierInv, JobInv, TypeInv, TypeOK
  <2>3. QED
    BY <1>2, <1>3, <2>1, <2>2, NothingAdded, TotalsType
<1>6. QED
  BY <1>4, <1>5

\* The tick's loop: an id leaves the batch and is enqueued.
LEMMA BalancedNextClaimed ==
  ASSUME CarrierInv, NEW s \in Schedulers, NextClaimed(s), NEW p \in Pubs
  PROVE  Balanced(p)
<1>1. PICK q \in batch[s] : batch' = [batch EXCEPT ![s] = @ \ {q}] /\ ReadAndGate(s, q)
  BY DEF NextClaimed
<1>2. s \in Procs /\ q \in Pubs
  BY <1>1 DEF Procs, CarrierInv, JobInv, TypeInv, TypeOK
<1>3. /\ \A y \in Procs : y # s => proc'[y] = proc[y]
      /\ proc'[s].pc = "idle" \/ proc'[s].pub = q
      /\ faults' \in {faults, faults + 1}
  BY <1>1, <1>2, GateEffect DEF CarrierInv, JobInv, Finished, ProcIdle
<1>4. UNCHANGED <<pub, att, wk, handlers, posts, crashes>> /\ proc[s].pc = "idle"
  BY DEF NextClaimed
<1>5. /\ Due(p)' = Due(p) /\ InFlight(p)' = InFlight(p)
      /\ Unsent(p)' = Unsent(p) /\ Listening(p)' = Listening(p)
  BY <1>4, JobsFrame DEF Listening, Due
<1>6. CASE p = q
  <2>1. s \in Batched(p) /\ Batched(p)' \subseteq Batched(p) \ {s}
    BY <1>1, <1>6 DEF Batched, CarrierInv, JobInv, TypeInv, TypeOK
  <2>2. Enqueuing(p)' \subseteq Enqueuing(p) \cup {s}
    BY <1>3 DEF Enqueuing, Procs
  <2>3. Counted(p) /\ posts[p] \in Nat /\ crashes \in Nat /\ faults \in Nat
    BY TotalsType
  <2>4. IsFiniteSet(Batched(p)') /\ Cardinality(Batched(p)') + 1 <= Cardinality(Batched(p))
    BY <2>1, <2>3, OneLess DEF Counted
  <2>5. IsFiniteSet(Enqueuing(p)') /\ Cardinality(Enqueuing(p)') <= Cardinality(Enqueuing(p)) + 1
    BY <2>2, <2>3, OneMore DEF Counted
  <2>6. Counted(p)'
    BY <1>5, <2>3, <2>4, <2>5 DEF Counted
  <2>7. QED
    BY <1>3, <1>4, <1>5, <2>3, <2>4, <2>5, <2>6, CountsType, CountsTypeNext
       DEF Balanced, Carriers, ToCome
<1>7. CASE p # q
  <2>1. Batched(p)' \subseteq Batched(p)
    BY <1>1, <1>7 DEF Batched, CarrierInv, JobInv, TypeInv, TypeOK
  <2>2. Enqueuing(p)' \subseteq Enqueuing(p)
    BY <1>3, <1>7 DEF Enqueuing, Procs
  <2>3. QED
    BY <1>3, <1>4, <1>5, <2>1, <2>2, NothingAdded, TotalsType
<1>8. QED
  BY <1>6, <1>7

\* The attempt row is no carrier: its job is not in the queue yet.
LEMMA CreateKeeps ==
  ASSUME JobInv, NEW s \in Schedulers, CreateAttempt(s), NEW p \in Pubs
  PROVE  /\ InFlight(p)' \subseteq InFlight(p) /\ Unsent(p)' \subseteq Unsent(p)
         /\ Listening(p)' \subseteq Listening(p)
         /\ Enqueuing(p)' \subseteq Enqueuing(p)
         /\ \A t \in Enqueuing(p)' : t # s => proc'[t] = proc[t]
         /\ proc[s].pc = "create" /\ proc'[s].pc \in {"mark", "add"}
         /\ proc'[s].pc = "add" => IsArchive(proc[s].op)
<1>1. s \in Procs /\ UNCHANGED <<wk, handlers>> /\ proc[s].pc = "create"
  BY DEF Procs, CreateAttempt
<1>2. PICK a \in AttemptIds : Creates(s, a)
  BY <1>1, CreateEffect DEF JobInv
<1>3. att[a].pub \notin Pubs
  BY <1>2, OwnedNotFree DEF Creates
<1>4. InFlight(p)' \subseteq InFlight(p)
  BY <1>2 DEF InFlight, JobInFlight, JobLive, Creates
<1>5. \A b : Called(b)' <=> Called(b)
  BY <1>1 DEF Called
<1>6. Unsent(p)' \subseteq Unsent(p)
  BY <1>4, <1>5 DEF Unsent
<1>7. Listening(p)' \subseteq Listening(p)
  BY <1>1, <1>2, <1>3 DEF Listening, Creates, JobInv, TypeInv, TypeOK, References, HandlerStates
<1>8. Enqueuing(p)' \subseteq Enqueuing(p) /\ \A t \in Enqueuing(p)' : t # s => proc'[t] = proc[t]
  BY <1>1, <1>2 DEF Enqueuing, Creates, Procs
<1>9. QED
  BY <1>1, <1>2, <1>4, <1>6, <1>7, <1>8 DEF Creates

LEMMA BalancedCreate ==
  ASSUME CarrierInv, NEW s \in Schedulers, CreateAttempt(s), NEW p \in Pubs
  PROVE  Balanced(p)
<1>1. UNCHANGED <<pub, batch, posts, crashes, faults>>
  BY DEF CreateAttempt
<1>2. Due(p)' = Due(p) /\ Batched(p)' = Batched(p)
  BY <1>1 DEF Due, Batched
<1>3. QED
  BY <1>1, <1>2, CreateKeeps, NothingAdded, TotalsType DEF CarrierInv

LEMMA BalancedMark ==
  ASSUME CarrierInv, NEW s \in Schedulers, MarkPublishing(s), NEW p \in Pubs
  PROVE  Balanced(p)
<1>1. s \in Procs
  BY DEF Procs
<1>2. PICK q \in Pubs : Marks(s, q)
  BY <1>1, MarkEffect DEF CarrierInv, JobInv
<1>3. /\ UNCHANGED <<att, batch, wk, handlers, posts, crashes, faults>>
      /\ proc[s].pc = "mark"
  BY DEF MarkPublishing
<1>4. Due(p)' <= Due(p)
  BY <1>2 DEF Due, Claimable, Marks
<1>5. Batched(p)' = Batched(p) /\ Listening(p)' = Listening(p)
      /\ InFlight(p)' = InFlight(p) /\ Unsent(p)' = Unsent(p)
  BY <1>3, JobsFrame DEF Batched, Listening
<1>6. Enqueuing(p)' \subseteq Enqueuing(p)
  BY <1>2, <1>3 DEF Enqueuing, Marks, Procs
<1>7. QED
  BY <1>3, <1>4, <1>5, <1>6, NothingAdded, TotalsType

\* The job of an attempt enters the queue, while its process is still there or
\* no longer.
LEMMA JobEnters ==
  ASSUME CarrierInv, NEW x \in Procs, proc[x].pc = "add", UNCHANGED wk,
         att' = [att EXCEPT ![proc[x].att].job = Added(@)], NEW p \in Pubs
  PROVE  /\ p = proc[x].pub =>
              /\ InFlight(p)' \subseteq InFlight(p) \cup {proc[x].att}
              /\ Unsent(p)' \subseteq Unsent(p) \cup {proc[x].att}
         /\ p # proc[x].pub =>
              InFlight(p)' \subseteq InFlight(p) /\ Unsent(p)' \subseteq Unsent(p)
         /\ \A b \in AttemptIds : SameAttempt(att'[b], att[b])
<1> DEFINE a == proc[x].att
<1>1. /\ a \in AttemptIds
      /\ \A b \in AttemptIds : SameAttempt(att'[b], att[b])
      /\ \A b \in AttemptIds : b # a => att'[b] = att[b]
  BY AddEffect DEF CarrierInv, JobInv
<1>2. att[a].pub = proc[x].pub
  BY DEF CarrierInv, JobInv, ProcAttempts
<1> HIDE DEF a
<1>3. \A b : Called(b)' <=> Called(b)
  BY DEF Called
<1>4. p = proc[x].pub => InFlight(p)' \subseteq InFlight(p) \cup {a}
  BY <1>1 DEF InFlight, JobInFlight
<1>5. p # proc[x].pub => InFlight(p)' \subseteq InFlight(p)
  BY <1>1, <1>2 DEF InFlight, JobInFlight, SameAttempt
<1>6. QED
  BY <1>1, <1>3, <1>4, <1>5 DEF Unsent, a

LEMMA BalancedAdd ==
  ASSUME CarrierInv, NEW s \in Schedulers, AddJob(s), NEW p \in Pubs
  PROVE  Balanced(p)
<1>1. s \in Procs
  BY DEF Procs
<1>2. /\ UNCHANGED <<pub, batch, wk, handlers, posts, crashes, faults>>
      /\ proc[s].pc = "add"
      /\ att' = [att EXCEPT ![proc[s].att].job = Added(@)]
  BY DEF AddJob
<1>3. proc'[s].pc = "idle" /\ \A y \in Procs : y # s => proc'[y] = proc[y]
  BY <1>1, <1>2 DEF AddJob, IsArchive, Finished, ProcIdle, CarrierInv, SchedulersPublish, JobInv,
                    TypeInv, TypeOK
<1> DEFINE a == proc[s].att
<1>4. /\ p = proc[s].pub =>
           InFlight(p)' \subseteq InFlight(p) \cup {a} /\ Unsent(p)' \subseteq Unsent(p) \cup {a}
      /\ p # proc[s].pub =>
           InFlight(p)' \subseteq InFlight(p) /\ Unsent(p)' \subseteq Unsent(p)
      /\ \A b \in AttemptIds : SameAttempt(att'[b], att[b])
  BY <1>1, <1>2, JobEnters
<1> HIDE DEF a
<1>5. Due(p)' = Due(p) /\ Batched(p)' = Batched(p) /\ Listening(p)' = Listening(p)
  BY <1>2, <1>4, ListeningFrame DEF Due, Batched, CarrierInv
<1>6. CASE p = proc[s].pub
  <2>1. s \in Enqueuing(p) /\ Enqueuing(p)' \subseteq Enqueuing(p) \ {s}
    BY <1>2, <1>3, <1>6 DEF Enqueuing, Procs
  <2>2. Counted(p) /\ posts[p] \in Nat /\ crashes \in Nat /\ faults \in Nat
    BY TotalsType
  <2>3. IsFiniteSet(Enqueuing(p)') /\ Cardinality(Enqueuing(p)') + 1 <= Cardinality(Enqueuing(p))
    BY <2>1, <2>2, OneLess DEF Counted
  <2>4. IsFiniteSet(InFlight(p)') /\ Cardinality(InFlight(p)') <= Cardinality(InFlight(p)) + 1
    BY <1>4, <1>6, <2>2, OneMore DEF Counted
  <2>5. Cardinality(Unsent(p)') <= Cardinality(Unsent(p)) + 1
    BY <1>4, <1>6, <2>2, CountsType, OneMore
  <2>6. Counted(p)'
    BY <1>5, <2>2, <2>3, <2>4 DEF Counted
  <2>7. QED
    BY <1>2, <1>5, <2>2, <2>3, <2>4, <2>5, <2>6, CountsType, CountsTypeNext
       DEF Balanced, Carriers, ToCome
<1>7. CASE p # proc[s].pub
  <2>1. Enqueuing(p)' \subseteq Enqueuing(p)
    BY <1>3 DEF Enqueuing, Procs
  <2>2. QED
    BY <1>2, <1>4, <1>5, <1>7, <2>1, NothingAdded, TotalsType
<1>8. QED
  BY <1>6, <1>7

\* A call of the enqueue throws.  When that is queue.add, after it was carried
\* out, the job and the catch clause both go on: this is what a fault pays for.
LEMMA BalancedError ==
  ASSUME CarrierInv, NEW s \in Schedulers, EnqueueError(s), NEW p \in Pubs
  PROVE  Balanced(p)
<1>1. s \in Procs
  BY DEF Procs
<1>2. /\ proc[s].pc \in {"create", "mark", "add"}
      /\ proc'[s].pc = "error" /\ proc'[s].pub = proc[s].pub
      /\ \A y \in Procs : y # s => proc'[y] = proc[y]
      /\ faults' = faults + 1
  BY <1>1, ErrorEffect DEF CarrierInv, JobInv
<1>3. UNCHANGED <<pub, batch, wk, handlers, posts, crashes>>
  BY DEF EnqueueError
<1>4. Enqueuing(p)' \subseteq Enqueuing(p)
  BY <1>2 DEF Enqueuing, Procs
<1>5. Due(p)' = Due(p) /\ Batched(p)' = Batched(p)
  BY <1>3 DEF Due, Batched
<1>6. CASE UNCHANGED att
  <2>1. /\ InFlight(p)' = InFlight(p) /\ Unsent(p)' = Unsent(p)
        /\ Listening(p)' = Listening(p)
    BY <1>3, <1>6, JobsFrame DEF Listening
  <2>2. QED
    BY <1>2, <1>3, <1>4, <1>5, <2>1, NothingAdded, TotalsType
<1>7. CASE proc[s].pc = "add" /\ att' = [att EXCEPT ![proc[s].att].job = Added(@)]
  <2> DEFINE a == proc[s].att
  <2>1. /\ InFlight(p)' \subseteq InFlight(p) \cup {a}
        /\ Unsent(p)' \subseteq Unsent(p) \cup {a}
        /\ \A b \in AttemptIds : SameAttempt(att'[b], att[b])
    BY <1>1, <1>3, <1>7, JobEnters
  <2> HIDE DEF a
  <2>2. Listening(p)' = Listening(p)
    BY <1>3, <2>1, ListeningFrame DEF CarrierInv
  <2>3. Counted(p) /\ posts[p] \in Nat /\ crashes \in Nat /\ faults \in Nat
    BY TotalsType
  <2>4. IsFiniteSet(InFlight(p)') /\ Cardinality(InFlight(p)') <= Cardinality(InFlight(p)) + 1
    BY <2>1, <2>3, OneMore DEF Counted
  <2>5. Cardinality(Unsent(p)') <= Cardinality(Unsent(p)) + 1
    BY <2>1, <2>3, CountsType, OneMore
  <2>6. IsFiniteSet(Enqueuing(p)') /\ Cardinality(Enqueuing(p)') <= Cardinality(Enqueuing(p))
    BY <1>4, <2>3, Fewer DEF Counted
  <2>7. Counted(p)'
    BY <1>5, <2>2, <2>3, <2>4, <2>6 DEF Counted
  <2>8. QED
    BY <1>2, <1>3, <1>5, <2>2, <2>3, <2>4, <2>5, <2>6, <2>7, CountsType, CountsTypeNext
       DEF Balanced, Carriers, ToCome
<1>8. QED
  BY <1>6, <1>7 DEF EnqueueError

\* The catch clause gives the publication back to its row.
LEMMA BalancedCatch ==
  ASSUME CarrierInv, NEW s \in Schedulers, CatchEnqueue(s), NEW p \in Pubs
  PROVE  Balanced(p)
<1>1. s \in Procs /\ proc[s].pub \in Pubs /\ proc[s].pc # "idle"
  BY DEF Procs, CatchEnqueue, CarrierInv, JobInv, TypeInv, References
<1>2. /\ UNCHANGED <<att, batch, wk, handlers, posts, crashes, faults>>
      /\ proc'[s].pc = "idle" /\ \A y \in Procs : y # s => proc'[y] = proc[y]
      /\ \A q \in Pubs : q # proc[s].pub => pub'[q] = pub[q]
  BY <1>1 DEF CatchEnqueue, ProcIdle, CarrierInv, JobInv, TypeInv, TypeOK
<1>3. /\ InFlight(p)' = InFlight(p) /\ Unsent(p)' = Unsent(p)
      /\ Batched(p)' = Batched(p) /\ Listening(p)' = Listening(p)
  BY <1>2, JobsFrame DEF Batched, Listening
<1>4. CASE p = proc[s].pub
  <2>1. s \in Enqueuing(p) /\ Enqueuing(p)' \subseteq Enqueuing(p) \ {s}
    BY <1>1, <1>2, <1>4 DEF Enqueuing, Procs
  <2>2. Counted(p) /\ posts[p] \in Nat /\ crashes \in Nat /\ faults \in Nat
    BY TotalsType
  <2>3. IsFiniteSet(Enqueuing(p)') /\ Cardinality(Enqueuing(p)') + 1 <= Cardinality(Enqueuing(p))
    BY <2>1, <2>2, OneLess DEF Counted
  <2>4. Counted(p)'
    BY <1>3, <2>2, <2>3 DEF Counted
  <2>5. QED
    BY <1>2, <1>3, <2>2, <2>3, <2>4, CountsType, CountsTypeNext
       DEF Balanced, Carriers, ToCome
<1>5. CASE p # proc[s].pub
  <2>1. Due(p)' = Due(p) /\ Enqueuing(p)' \subseteq Enqueuing(p)
    BY <1>2, <1>5 DEF Due, Enqueuing, Procs
  <2>2. QED
    BY <1>2, <1>3, <2>1, NothingAdded, TotalsType
<1>6. QED
  BY <1>4, <1>5

LEMMA BalancedAborted ==
  ASSUME CarrierInv, NEW s \in Schedulers, TickAborted(s), NEW p \in Pubs
  PROVE  Balanced(p)
<1>1. /\ UNCHANGED <<pub, att, wk, handlers, posts, faults>> /\ crashes' = crashes + 1
      /\ proc' = [proc EXCEPT ![s] = ProcIdle] /\ batch' = [batch EXCEPT ![s] = {}]
  BY DEF TickAborted
<1>2. Batched(p)' \subseteq Batched(p) /\ Enqueuing(p)' \subseteq Enqueuing(p)
  BY <1>1 DEF Batched, Enqueuing, Procs, ProcIdle, CarrierInv, JobInv, TypeInv, TypeOK
<1>3. /\ InFlight(p)' = InFlight(p) /\ Unsent(p)' = Unsent(p)
      /\ Due(p)' = Due(p) /\ Listening(p)' = Listening(p)
  BY <1>1, JobsFrame DEF Due, Listening
<1>4. QED
  BY <1>1, <1>2, <1>3, NothingAdded, TotalsType

\* A worker's job is in flight for the publication of its attempt.
LEMMA WorkerInFlight ==
  ASSUME CarrierInv, NEW w \in Workers, wk[w].pc # "idle"
  PROVE  /\ wk[w].att \in InFlight(att[wk[w].att].pub)
         /\ \A v \in Workers : wk[v].att = wk[w].att => v = w
  BY WorkerAttempt DEF CarrierInv, JobInv, WorkerJobs, InFlight, JobInFlight, JobLive

\* Steps of a worker that keep its job and do not call the platform.
LEMMA WorksKeep ==
  ASSUME JobInv, NEW w \in Workers, NEW p \in Pubs,
         TakeJob(w) \/ StartAttempt(w) \/ RecordAttempt(w) \/ RecordPublication(w)
           \/ FinishUnpublish(w)
  PROVE  /\ UNCHANGED <<batch, proc, handlers, posts, crashes, faults>>
         /\ InFlight(p)' = InFlight(p) /\ Unsent(p)' \subseteq Unsent(p)
         /\ Batched(p)' = Batched(p) /\ Enqueuing(p)' = Enqueuing(p)
         /\ Listening(p)' = Listening(p)
<1> USE DEF JobInv
<1>1. UNCHANGED <<batch, proc, handlers, posts, crashes, faults>>
  BY DEF TakeJob, StartAttempt, RecordAttempt, RecordPublication, FinishUnpublish
<1>2. \A b \in AttemptIds : SameAttempt(att'[b], att[b]) /\ (JobInFlight(b)' <=> JobInFlight(b))
  <2>1. CASE TakeJob(w)
    <3>1. PICK a \in AttemptIds : att[a].job.state = "waiting" /\ JobBecomes(a, "active")
      BY <2>1, TakeEffect
    <3>2. QED
      BY <3>1 DEF JobBecomes, JobInFlight, JobLive
  <2>2. CASE StartAttempt(w) \/ RecordAttempt(w)
    BY <2>2, WorkerEffects DEF JobsKept, JobInFlight
  <2>3. CASE RecordPublication(w) \/ FinishUnpublish(w)
    BY <2>3 DEF RecordPublication, FinishUnpublish, SameAttempt, JobInFlight
  <2>4. QED
    BY <2>1, <2>2, <2>3
<1>3. InFlight(p)' = InFlight(p)
  BY <1>2 DEF InFlight, SameAttempt
<1>4. \A b \in AttemptIds : Called(b) => Called(b)'
  <2>1. CASE TakeJob(w)
    <3>1. wk[w].pc = "idle" /\ \A v \in Workers : v # w => wk'[v] = wk[v]
      BY <2>1, TakeEffect
    <3>2. QED
      BY <3>1 DEF Called
  <2>2. ASSUME NEW from, NEW to, Moves(w, from, to),
               from \notin {"called", "recorded", "finishing", "finished"}
                 \/ to \in {"called", "recorded", "finishing", "finished"}
        PROVE  \A b \in AttemptIds : Called(b) => Called(b)'
    BY <2>2 DEF Moves, Called
  <2>3. QED
    BY <2>1, <2>2, WorkerEffects
<1>5. Unsent(p)' \subseteq Unsent(p)
  BY <1>3, <1>4 DEF Unsent, InFlight
<1>6. Batched(p)' = Batched(p) /\ Enqueuing(p)' = Enqueuing(p) /\ Listening(p)' = Listening(p)
  BY <1>1, <1>2, HoldersFrame, ListeningFrame
<1>7. QED
  BY <1>1, <1>3, <1>5, <1>6

LEMMA BalancedWorks ==
  ASSUME CarrierInv, NEW w \in Workers, NEW p \in Pubs,
         TakeJob(w) \/ StartAttempt(w) \/ RecordAttempt(w) \/ RecordPublication(w)
           \/ FinishUnpublish(w)
  PROVE  Balanced(p)
<1> USE DEF CarrierInv, JobInv
<1>1. Due(p)' <= Due(p)
  <2>1. ASSUME NEW q \in Pubs, \A r \in Pubs : r # q => pub'[r] = pub[r],
               pub'[q].status \in {"published", "unpublished"}
        PROVE  Due(p)' <= Due(p)
    BY <2>1 DEF Due, Claimable
  <2>2. CASE RecordPublication(w) \/ FinishUnpublish(w)
    <3> DEFINE q == att[wk[w].att].pub
    <3>1. q \in Pubs /\ pub[q] \in Rows
      BY <2>2, WorkerAttempt DEF RecordPublication, FinishUnpublish, TypeInv, TypeOK
    <3>2. PICK row : /\ pub' = [pub EXCEPT ![q] = row]
                     /\ row.status \in {"published", "unpublished"}
      <4>1. /\ Succeeded(pub[q], wk[w].seen, wk[w].post).status \in {"published", "unpublished"}
            /\ UnpublishRecorded(pub[q]).status = "unpublished"
        BY <3>1 DEF Succeeded, UnpublishRecorded, Rows
      <4>2. QED
        BY <2>2, <4>1 DEF RecordPublication, FinishUnpublish
    <3> HIDE DEF q
    <3>3. QED
      BY <2>1, <3>1, <3>2 DEF TypeInv, TypeOK
  <2>3. CASE TakeJob(w) \/ StartAttempt(w) \/ RecordAttempt(w)
    BY <2>3 DEF TakeJob, StartAttempt, RecordAttempt, Due
  <2>4. QED
    BY <2>2, <2>3
<1>2. QED
  BY <1>1, WorksKeep, NothingAdded, TotalsType

\* The call to the platform makes the one post its job could make.
LEMMA BalancedCall ==
  ASSUME CarrierInv, NEW w \in Workers, NEW p \in Pubs, CallPlatform(w)
  PROVE  Balanced(p)
<1> USE DEF CarrierInv, JobInv
<1> DEFINE a == wk[w].att
           q == att[a].pub
<1>1. UNCHANGED <<pub, att, batch, proc, handlers, crashes, faults>> /\ Moves(w, "started", "called")
  BY WorkerEffects DEF CallPlatform
<1>2. a \in AttemptIds /\ q \in Pubs
  BY <1>1, WorkerAttempt DEF Moves
<1>3. a \in InFlight(q) /\ \A v \in Workers : wk[v].att = a => v = w
  BY <1>1, WorkerInFlight DEF Moves
<1>4. posts' = posts \/ posts' = [posts EXCEPT ![q] = @ + 1]
  BY DEF CallPlatform
<1> HIDE DEF a, q
<1>5. /\ InFlight(p)' = InFlight(p) /\ Due(p)' = Due(p) /\ Batched(p)' = Batched(p)
      /\ Enqueuing(p)' = Enqueuing(p) /\ Listening(p)' = Listening(p)
  BY <1>1 DEF InFlight, JobInFlight, Due, Batched, Enqueuing, Listening
<1>6. /\ ~Called(a)
      /\ \A b : Called(b) \/ b = a => Called(b)'
  BY <1>1, <1>3 DEF Called, Moves, a
<1>7. Unsent(p)' \subseteq Unsent(p) \ {a}
  BY <1>5, <1>6 DEF Unsent
<1>8. CASE p = q
  <2>1. a \in Unsent(p)
    BY <1>3, <1>6, <1>8 DEF Unsent
  <2>2. /\ Counted(p) /\ posts[p] \in Nat /\ crashes \in Nat /\ faults \in Nat
        /\ Due(p) \in {0, 1}
    BY TotalsType
  <2>3. Cardinality(Unsent(p)') + 1 <= Cardinality(Unsent(p))
    BY <1>7, <2>1, <2>2, CountsType, OneLess
  <2>4. Counted(p)'
    BY <1>5, <2>2 DEF Counted
  <2>5. posts'[p] \in {posts[p], posts[p] + 1}
    BY <1>4, <1>8, <2>2 DEF TypeInv, TypeOK
  <2>6. QED
    BY <1>1, <1>5, <2>2, <2>3, <2>4, <2>5, CountsType, CountsTypeNext
       DEF Balanced, Carriers, ToCome
<1>9. CASE p # q
  <2>1. posts'[p] = posts[p]
    BY <1>2, <1>4, <1>9 DEF TypeInv, TypeOK
  <2>2. QED
    BY <1>1, <1>5, <1>7, <2>1, NothingAdded, TotalsType
<1>10. QED
  BY <1>8, <1>9

\* A job that leaves the queue is no carrier any more.
LEMMA JobLeaves ==
  ASSUME JobInv, NEW a \in AttemptIds, NEW state \in {"done", "dead"}, JobBecomes(a, state),
         \A b \in AttemptIds : b # a /\ Called(b) => Called(b)', NEW p \in Pubs
  PROVE  InFlight(p)' \subseteq InFlight(p) \ {a} /\ Unsent(p)' \subseteq Unsent(p) \ {a}
<1>1. InFlight(p)' \subseteq InFlight(p) \ {a}
  BY DEF InFlight, JobInFlight, JobLive, JobBecomes, SameAttempt
<1>2. QED
  BY <1>1 DEF Unsent, InFlight

LEMMA BalancedComplete ==
  ASSUME CarrierInv, NEW w \in Workers, NEW p \in Pubs, CompleteJob(w)
  PROVE  Balanced(p)
<1> USE DEF CarrierInv, JobInv
<1> DEFINE a == wk[w].att
<1>1. UNCHANGED <<pub, batch, proc, handlers, posts, crashes, faults>>
  BY DEF CompleteJob
<1>2. a \in AttemptIds /\ JobBecomes(a, "done") /\ Released(w)
  BY CompleteEffect, WorkerAttempt
<1>3. \A b \in AttemptIds : b # a /\ Called(b) => Called(b)'
  BY <1>2 DEF Called, Released
<1> HIDE DEF a
<1>4. InFlight(p)' \subseteq InFlight(p) /\ Unsent(p)' \subseteq Unsent(p)
  BY <1>2, <1>3, JobLeaves
<1>5. Listening(p)' = Listening(p)
  BY <1>1, <1>2, ListeningFrame DEF JobBecomes
<1>6. Due(p)' = Due(p) /\ Batched(p)' = Batched(p) /\ Enqueuing(p)' = Enqueuing(p)
  BY <1>1 DEF Due, Batched, Enqueuing
<1>7. QED
  BY <1>1, <1>4, <1>5, <1>6, NothingAdded, TotalsType

\* A job of q leaves the queue and its listener starts.
LEMMA BalancedToListener ==
  ASSUME CarrierInv, NEW p \in Pubs, NEW a \in AttemptIds, NEW h \in HandlerStates, h.att = a,
         JobBecomes(a, "dead"), a \in InFlight(att[a].pub),
         \A b \in AttemptIds : b # a /\ Called(b) => Called(b)',
         handlers' = handlers \cup {h},
         UNCHANGED <<pub, batch, proc, posts, crashes>>,
         \/ faults' = faults /\ ~Called(a)
         \/ faults' = faults + 1
  PROVE  Balanced(p)
<1> USE DEF CarrierInv, JobInv
<1>1. InFlight(p)' \subseteq InFlight(p) \ {a} /\ Unsent(p)' \subseteq Unsent(p) \ {a}
  BY JobLeaves
<1>2. Due(p)' = Due(p) /\ Batched(p)' = Batched(p) /\ Enqueuing(p)' = Enqueuing(p)
  BY DEF Due, Batched, Enqueuing
<1>3. Listening(p)' \subseteq Listening(p) \cup {h} /\ (p # att[a].pub => Listening(p)' \subseteq Listening(p))
  BY DEF Listening, JobBecomes, SameAttempt, TypeInv, TypeOK, HandlerStates
<1>4. CASE p = att[a].pub
  <2>1. /\ Counted(p) /\ posts[p] \in Nat /\ crashes \in Nat /\ faults \in Nat
        /\ Due(p) \in {0, 1}
    BY TotalsType
  <2>2. IsFiniteSet(InFlight(p)') /\ Cardinality(InFlight(p)') + 1 <= Cardinality(InFlight(p))
    BY <1>1, <1>4, <2>1, OneLess DEF Counted
  <2>3. IsFiniteSet(Listening(p)') /\ Cardinality(Listening(p)') <= Cardinality(Listening(p)) + 1
    BY <1>3, <2>1, OneMore DEF Counted
  <2>4. Cardinality(Unsent(p)') <= Cardinality(Unsent(p))
    BY <1>1, <2>1, CountsType, Fewer
  <2>5. ~Called(a) => Cardinality(Unsent(p)') + 1 <= Cardinality(Unsent(p))
    BY <1>1, <1>4, <2>1, CountsType, OneLess DEF Unsent
  <2>6. Counted(p)'
    BY <1>2, <2>1, <2>2, <2>3 DEF Counted
  <2>7. QED
    BY <1>2, <2>1, <2>2, <2>3, <2>4, <2>5, <2>6, CountsType, CountsTypeNext
       DEF Balanced, Carriers, ToCome
<1>5. CASE p # att[a].pub
  BY <1>1, <1>2, <1>3, <1>5, NothingAdded, TotalsType
<1>6. QED
  BY <1>4, <1>5

\* A try that fails hands the publication to its listener; after the call to
\* the platform that is a fault, which pays for the post a later try may make.
LEMMA BalancedFail ==
  ASSUME CarrierInv, BullAttempts = 1, NEW w \in Workers, NEW p \in Pubs, FailTry(w)
  PROVE  Balanced(p)
<1> USE DEF CarrierInv, JobInv
<1> DEFINE a == wk[w].att
<1>1. /\ \/ wk[w].pc \in {"loaded", "started"} /\ faults' = faults
         \/ wk[w].pc \in {"called", "recorded", "finishing", "finished"} /\ faults' = faults + 1
      /\ JobBecomes(a, "dead") /\ Released(w)
  BY FailEffect
<1>2. PICK class \in {"transient", "permanent"} :
        handlers' = handlers \cup {NewHandler(a, class, w)}
  BY FailEffect
<1>3. a \in AttemptIds /\ a \in InFlight(att[a].pub) /\ \A v \in Workers : wk[v].att = a => v = w
  BY <1>1, WorkerAttempt, WorkerInFlight
<1>4. \A b \in AttemptIds : b # a /\ Called(b) => Called(b)'
  BY <1>1 DEF Called, Released
<1>5. wk[w].pc \in {"loaded", "started"} => ~Called(a)
  BY <1>3 DEF Called
<1>6. UNCHANGED <<pub, batch, proc, posts, crashes>>
  BY DEF FailTry
<1> HIDE DEF a
<1>7. NewHandler(a, class, w) \in HandlerStates /\ NewHandler(a, class, w).att = a
  BY <1>3, HandlerType
<1>8. QED
  BY <1>1, <1>2, <1>3, <1>4, <1>5, <1>6, <1>7, BalancedToListener

LEMMA BalancedStalled ==
  ASSUME CarrierInv, NEW w \in Workers, NEW p \in Pubs, RecoverStalled(w)
  PROVE  Balanced(p)
<1> USE DEF CarrierInv, JobInv
<1>1. PICK a \in AttemptIds :
        /\ att[a].job.state = "active" /\ att[a].pub \in Pubs
        /\ \A v \in Workers : wk[v].att # a
        /\ \/ JobBecomes(a, "waiting") /\ handlers' = handlers
           \/ /\ JobBecomes(a, "dead")
              /\ handlers' = handlers \cup {NewHandler(a, "transient", w)}
  BY StalledEffect
<1>2. UNCHANGED <<pub, batch, proc, wk, posts, crashes, faults>>
  BY DEF RecoverStalled
<1>3. \A b : Called(b)' <=> Called(b)
  BY <1>2 DEF Called
<1>4. CASE JobBecomes(a, "waiting") /\ handlers' = handlers
  <2>1. InFlight(p)' \subseteq InFlight(p)
    BY <1>1, <1>4 DEF InFlight, JobInFlight, JobLive, JobBecomes, SameAttempt
  <2>2. Unsent(p)' \subseteq Unsent(p)
    BY <1>3, <2>1 DEF Unsent
  <2>3. Listening(p)' = Listening(p)
    BY <1>4, ListeningFrame DEF JobBecomes
  <2>4. Due(p)' = Due(p) /\ Batched(p)' = Batched(p) /\ Enqueuing(p)' = Enqueuing(p)
    BY <1>2 DEF Due, Batched, Enqueuing
  <2>5. QED
    BY <1>2, <2>1, <2>2, <2>3, <2>4, NothingAdded, TotalsType
<1>5. CASE JobBecomes(a, "dead") /\ handlers' = handlers \cup {NewHandler(a, "transient", w)}
  <2>1. ~Called(a) /\ a \in InFlight(att[a].pub)
    BY <1>1 DEF Called, InFlight, JobInFlight, JobLive
  <2>2. NewHandler(a, "transient", w) \in HandlerStates /\ NewHandler(a, "transient", w).att = a
    BY HandlerType
  <2>3. QED
    BY <1>2, <1>3, <1>5, <2>1, <2>2, BalancedToListener
<1>6. QED
  BY <1>1, <1>4, <1>5

LEMMA BalancedDelay ==
  ASSUME CarrierInv, NEW a \in AttemptIds, NEW p \in Pubs, DelayOver(a)
  PROVE  Balanced(p)
<1> USE DEF CarrierInv, JobInv
<1>1. att[a].job.state = "delayed" /\ JobBecomes(a, "waiting")
  BY DelayEffect
<1>2. UNCHANGED <<pub, batch, proc, wk, handlers, posts, crashes, faults>>
  BY DEF DelayOver
<1>3. InFlight(p)' \subseteq InFlight(p)
  BY <1>1 DEF InFlight, JobInFlight, JobLive, JobBecomes, SameAttempt
<1>4. \A b : Called(b)' <=> Called(b)
  BY <1>2 DEF Called
<1>5. Unsent(p)' \subseteq Unsent(p)
  BY <1>3, <1>4 DEF Unsent
<1>6. Listening(p)' = Listening(p)
  BY <1>1, <1>2, ListeningFrame DEF JobBecomes
<1>7. Due(p)' = Due(p) /\ Batched(p)' = Batched(p) /\ Enqueuing(p)' = Enqueuing(p)
  BY <1>2 DEF Due, Batched, Enqueuing
<1>8. QED
  BY <1>2, <1>3, <1>5, <1>6, <1>7, NothingAdded, TotalsType

\* The listener goes on, or gives the publication back to its row.
LEMMA BalancedHandler ==
  ASSUME CarrierInv, NEW h \in handlers, NEW p \in Pubs, HandlerStep(h)
  PROVE  Balanced(p)
<1> USE DEF CarrierInv, JobInv
<1>1. h \in HandlerStates /\ h.att \in AttemptIds /\ att[h.att].pub \in Pubs
  BY DEF TypeInv, TypeOK, References, HandlerStates
<1>2. UNCHANGED <<batch, proc, wk, posts, crashes, faults>>
  BY DEF HandlerStep, FailedRead, FailedWrite
<1>3. JobsKept
  BY <1>1, StatusOnly DEF HandlerStep, FailedRead, FailedWrite, JobsKept, SameAttempt
<1>4. \A b : Called(b)' <=> Called(b)
  BY <1>2 DEF Called
<1>5. InFlight(p)' \subseteq InFlight(p)
  BY <1>3 DEF InFlight, JobInFlight, JobsKept, SameAttempt
<1>6. Unsent(p)' \subseteq Unsent(p)
  BY <1>4, <1>5 DEF Unsent
<1>7. Batched(p)' = Batched(p) /\ Enqueuing(p)' = Enqueuing(p)
  BY <1>2, HoldersFrame
<1>8. CASE p # att[h.att].pub
  <2>1. pub'[p] = pub[p]
    BY <1>1, <1>8 DEF HandlerStep, FailedRead, FailedWrite, TypeInv, TypeOK
  <2>2. PICK g : handlers' \subseteq handlers \cup {g} /\ g.att = h.att
    <3> DEFINE f == [h EXCEPT !.pc = "read", !.retries = pub[att[h.att].pub].retries]
    <3>1. f.att = h.att
      BY <1>1 DEF HandlerStates
    <3>2. handlers' = (handlers \ {h}) \cup {f} \/ handlers' = handlers \ {h}
      BY DEF HandlerStep, FailedRead, FailedWrite
    <3> HIDE DEF f
    <3>3. QED
      BY <3>1, <3>2
  <2>3. Listening(p)' \subseteq Listening(p)
    BY <1>1, <1>3, <1>8, <2>2 DEF Listening, JobsKept, SameAttempt, TypeInv, TypeOK, HandlerStates
  <2>4. Due(p)' = Due(p)
    BY <2>1 DEF Due
  <2>5. QED
    BY <1>2, <1>5, <1>6, <1>7, <2>3, <2>4, NothingAdded, TotalsType
<1>9. CASE p = att[h.att].pub
  <2>1. /\ Counted(p) /\ posts[p] \in Nat /\ crashes \in Nat /\ faults \in Nat
        /\ Due(p) \in {0, 1} /\ h \in Listening(p)
    BY <1>9, TotalsType DEF Listening
  <2>2. /\ IsFiniteSet(InFlight(p)') /\ Cardinality(InFlight(p)') <= Cardinality(InFlight(p))
        /\ Cardinality(Unsent(p)') <= Cardinality(Unsent(p))
    BY <1>5, <1>6, <2>1, CountsType, Fewer DEF Counted
  <2>3. IsFiniteSet(Listening(p) \ {h}) /\ Cardinality(Listening(p) \ {h}) + 1 <= Cardinality(Listening(p))
    BY <2>1, OneLess DEF Counted
  <2>4. CASE FailedRead(h)
    <3>1. PICK g : handlers' = (handlers \ {h}) \cup {g}
      BY <2>4 DEF FailedRead
    <3>2. Listening(p)' \subseteq (Listening(p) \ {h}) \cup {g}
      BY <1>3, <3>1 DEF Listening, JobsKept, SameAttempt, TypeInv, TypeOK, HandlerStates
    <3>3. IsFiniteSet(Listening(p)') /\ Cardinality(Listening(p)') <= Cardinality(Listening(p) \ {h}) + 1
      BY <2>3, <3>2, OneMore
    <3>4. Due(p)' = Due(p)
      BY <2>4 DEF FailedRead, Due
    <3>5. Counted(p)' /\ Cardinality(Listening(p) \ {h}) \in Nat
      BY <1>7, <2>1, <2>2, <2>3, <3>3, FS_CardinalityType DEF Counted
    <3>6. QED
      BY <1>2, <1>7, <2>1, <2>2, <2>3, <3>3, <3>4, <3>5, CountsType, CountsTypeNext
         DEF Balanced, Carriers, ToCome
  <2>5. CASE FailedWrite(h)
    <3>1. Listening(p)' \subseteq Listening(p) \ {h}
      BY <1>3, <2>5 DEF FailedWrite, Listening, JobsKept, SameAttempt, TypeInv, TypeOK, HandlerStates
    <3>2. IsFiniteSet(Listening(p)') /\ Cardinality(Listening(p)') + 1 <= Cardinality(Listening(p))
      BY <2>1, <3>1, OneLess DEF Counted
    <3>3. Counted(p)'
      BY <1>7, <2>1, <2>2, <3>2 DEF Counted
    <3>4. QED
      BY <1>2, <1>7, <2>1, <2>2, <3>2, <3>3, CountsType, CountsTypeNext
         DEF Balanced, Carriers, ToCome
  <2>6. QED
    BY <2>4, <2>5 DEF HandlerStep
<1>10. QED
  BY <1>8, <1>9

\* A worker that dies after its call leaves a job that may post once more: this
\* is what a crash pays for.
LEMMA BalancedCrash ==
  ASSUME CarrierInv, NEW w \in Workers, NEW p \in Pubs, WorkerCrash(w)
  PROVE  Balanced(p)
<1> USE DEF CarrierInv, JobInv
<1> DEFINE a == wk[w].att
<1>1. /\ UNCHANGED <<pub, att, batch, proc, posts, faults>> /\ crashes' = crashes + 1
      /\ handlers' \subseteq handlers
      /\ \A v \in Workers : v # w => wk'[v] = wk[v]
  BY DEF WorkerCrash, TypeInv, TypeOK
<1>2. \A b : b # a /\ Called(b) => Called(b)'
  BY <1>1 DEF Called
<1> HIDE DEF a
<1>3. /\ InFlight(p)' = InFlight(p) /\ Due(p)' = Due(p) /\ Batched(p)' = Batched(p)
      /\ Enqueuing(p)' = Enqueuing(p) /\ Listening(p)' \subseteq Listening(p)
  BY <1>1 DEF InFlight, JobInFlight, Due, Batched, Enqueuing, Listening
<1>4. Unsent(p)' \subseteq Unsent(p) \cup {a}
  BY <1>2, <1>3 DEF Unsent
<1>5. Counted(p) /\ posts[p] \in Nat /\ crashes \in Nat /\ faults \in Nat /\ Due(p) \in {0, 1}
  BY TotalsType
<1>6. Cardinality(Unsent(p)') <= Cardinality(Unsent(p)) + 1
  BY <1>4, <1>5, CountsType, OneMore
<1>7. IsFiniteSet(Listening(p)') /\ Cardinality(Listening(p)') <= Cardinality(Listening(p))
  BY <1>3, <1>5, Fewer DEF Counted
<1>8. Counted(p)'
  BY <1>3, <1>5, <1>7 DEF Counted
<1>9. QED
  BY <1>1, <1>3, <1>5, <1>6, <1>7, <1>8, CountsType, CountsTypeNext DEF Balanced, Carriers, ToCome

-----------------------------------------------------------------------------
(* The carrier invariant                                                     *)

LEMMA CarrierInvInit ==
  ASSUME Init PROVE CarrierInv
<1>1. JobInv
  BY JobInvInit
<1>2. SchedulersPublish
  BY DEF Init, SchedulersPublish, Procs, ProcIdle
<1>3. ASSUME NEW p \in Pubs
      PROVE  /\ Batched(p) = {} /\ Enqueuing(p) = {} /\ InFlight(p) = {} /\ Listening(p) = {}
             /\ posts[p] = 0
  BY DEF Init, Batched, Enqueuing, Procs, ProcIdle, InFlight, JobInFlight, JobLive, FreeAttempt,
         NoJob, Listening
<1>4. ASSUME NEW p \in Pubs
      PROVE  Counted(p) /\ Carriers(p) <= 1 /\ ToCome(p) <= 1
  <2>1. Counted(p) /\ Unsent(p) = {}
    BY <1>3, FS_EmptySet DEF Counted, Unsent
  <2>2. QED
    BY <1>3, <2>1, FS_EmptySet DEF Carriers, ToCome, Due
<1>5. crashes = 0 /\ faults = 0
  BY DEF Init
<1>6. ASSUME NEW p \in Pubs PROVE ToCome(p) \in Nat /\ Carriers(p) \in Nat
  BY <1>4, CountsType DEF ToCome, Carriers
<1>7. Paid
  BY <1>3, <1>4, <1>5, <1>6 DEF Paid
<1>8. QED
  BY <1>1, <1>2, <1>7 DEF CarrierInv

LEMMA RequestAlone ==
  ASSUME TypeInv, NEW r \in Requests, NEW y \in Procs, y # r,
         RequestRead(r) \/ RequestStep(r) \/ EnqueueError(r) \/ RequestAborted(r)
  PROVE  proc'[y] = proc[y]
<1>1. ASSUME NEW p, ReadAndGate(r, p) PROVE proc'[y] = proc[y]
  BY <1>1 DEF ReadAndGate, TypeInv, TypeOK
<1>2. CASE RequestEnqueue(r)
  BY <1>1, <1>2 DEF RequestEnqueue
<1>3. CASE RequestRead(r) \/ RequestWrite(r) \/ CreateAttempt(r) \/ MarkPublishing(r)
             \/ AddJob(r) \/ RequestThrows(r) \/ ArchiveProject(r) \/ EnqueueError(r)
             \/ RequestAborted(r)
  BY <1>3 DEF RequestRead, RequestWrite, CreateAttempt, MarkPublishing, AddJob,
              RequestThrows, ArchiveProject, EnqueueError, RequestAborted, TypeInv, TypeOK
<1>4. QED
  BY <1>2, <1>3 DEF RequestStep

LEMMA SchedulersPublishNext ==
  ASSUME TypeInv, SchedulersPublish, [Next]_vars
  PROVE  SchedulersPublish'
<1>1. ASSUME NEW s \in Schedulers, NEW t \in Schedulers,
             SchedulerStep(s) \/ EnqueueError(s) \/ TickAborted(s)
      PROVE  proc'[t].op = "publish"
  <2>1. proc[t].op = "publish" /\ proc[s].op = "publish" /\ s \in Procs /\ t \in Procs
        /\ proc[s] \in ProcStates /\ ProcIdle.op = "publish"
    BY DEF SchedulersPublish, Procs, TypeInv, TypeOK, ProcIdle
  <2>2. CASE Claim(s)
    BY <2>1, <2>2 DEF Claim
  <2>3. CASE NextClaimed(s)
    <3>1. PICK p : ReadAndGate(s, p)
      BY <2>3 DEF NextClaimed
    <3>2. PICK new : proc' = [proc EXCEPT ![s] = new] /\ new.op = "publish"
      BY <2>1, <3>1 DEF ReadAndGate, Finished
    <3>3. QED
      BY <2>1, <3>2 DEF TypeInv, TypeOK
  <2>4. CASE CreateAttempt(s) \/ MarkPublishing(s) \/ AddJob(s) \/ EnqueueError(s)
    <3>1. ASSUME CreateAttempt(s) PROVE proc'[t].op = "publish"
      BY <2>1, <3>1 DEF CreateAttempt, TypeInv, TypeOK, ProcStates
    <3>2. ASSUME MarkPublishing(s) \/ EnqueueError(s) PROVE proc'[t].op = "publish"
      BY <2>1, <3>2 DEF MarkPublishing, EnqueueError, TypeInv, TypeOK, ProcStates
    <3>3. ASSUME AddJob(s) PROVE proc'[t].op = "publish"
      BY <2>1, <3>3 DEF AddJob, IsArchive, Finished, TypeInv, TypeOK
    <3>4. QED
      BY <2>4, <3>1, <3>2, <3>3
  <2>5. CASE CatchEnqueue(s) \/ TickAborted(s)
    BY <2>1, <2>5 DEF CatchEnqueue, TickAborted, TypeInv, TypeOK
  <2>6. QED
    BY <1>1, <2>2, <2>3, <2>4, <2>5 DEF SchedulerStep
<1>2. CASE UNCHANGED proc
  BY <1>2 DEF SchedulersPublish
<1>3. ASSUME NEW r \in Requests, NEW t \in Schedulers,
             RequestRead(r) \/ RequestStep(r) \/ EnqueueError(r) \/ RequestAborted(r)
      PROVE  proc'[t].op = "publish"
  <2>1. t \in Procs /\ t # r
    BY ConstantsAssumption DEF Procs
  <2>2. QED
    BY <1>3, <2>1, RequestAlone DEF SchedulersPublish
<1>4. QED
  BY <1>1, <1>2, <1>3
     DEF Next, vars, SchedulersPublish, TakeJob, JobStep, RecoverStalled, WorkerCrash,
         StartAttempt, CallPlatform, RecordAttempt, RecordPublication, FinishUnpublish,
         CompleteJob, FailTry, DelayOver, HandlerStep, FailedRead, FailedWrite

\* Every step pays for what it adds.
LEMMA StepsBalanced ==
  ASSUME NoBullRetryNoOperator, CarrierInv, [Next]_vars, NEW p \in Pubs
  PROVE  Balanced(p)
<1>1. ASSUME NEW s \in Schedulers, SchedulerStep(s) \/ EnqueueError(s) \/ TickAborted(s)
      PROVE  Balanced(p)
  BY <1>1, BalancedClaim, BalancedNextClaimed, BalancedCreate, BalancedMark, BalancedAdd,
     BalancedCatch, BalancedError, BalancedAborted DEF SchedulerStep
<1>2. ASSUME NEW w \in Workers,
             TakeJob(w) \/ JobStep(w) \/ RecoverStalled(w) \/ WorkerCrash(w)
      PROVE  Balanced(p)
  BY <1>2, BalancedWorks, BalancedCall, BalancedComplete, BalancedFail, BalancedStalled,
     BalancedCrash DEF JobStep, NoBullRetryNoOperator
<1>3. CASE UNCHANGED vars
  <2>1. UNCHANGED <<pub, att, batch, proc, wk, handlers, posts, crashes, faults>>
    BY <1>3 DEF vars
  <2>2. /\ InFlight(p)' = InFlight(p) /\ Unsent(p)' = Unsent(p)
        /\ Batched(p)' = Batched(p) /\ Enqueuing(p)' = Enqueuing(p)
        /\ Listening(p)' = Listening(p) /\ Due(p)' = Due(p)
    BY <2>1, JobsFrame, HoldersFrame DEF Listening, Due
  <2>3. QED
    BY <2>1, <2>2, NothingAdded, TotalsType
<1>4. QED
  BY <1>1, <1>2, <1>3, BalancedDelay, BalancedHandler DEF Next, NoBullRetryNoOperator

LEMMA CarrierInvNext ==
  ASSUME NoBullRetryNoOperator, CarrierInv, [Next]_vars
  PROVE  CarrierInv'
<1>1. JobInv' /\ SchedulersPublish'
  BY JobInvNext, SchedulersPublishNext DEF CarrierInv, JobInv, NoBullRetryNoOperator
<1>2. ASSUME NEW p \in Pubs
      PROVE  /\ Counted(p)'
             /\ Carriers(p)' <= 1 + faults'
             /\ posts'[p] + ToCome(p)' <= 1 + crashes' + faults'
  <2>1. Balanced(p)
    BY StepsBalanced
  <2>2. /\ Counted(p) /\ Carriers(p) <= 1 + faults
        /\ posts[p] + ToCome(p) <= 1 + crashes + faults
    BY DEF CarrierInv, Paid
  <2>3. /\ Carriers(p) \in Nat /\ ToCome(p) \in Nat
        /\ Carriers(p)' \in Nat /\ ToCome(p)' \in Nat
    <3>1. Carriers(p) \in Nat /\ ToCome(p) \in Nat
      BY <2>2, CountsType DEF Carriers, ToCome
    <3>2. Carriers(p)' \in Nat /\ ToCome(p)' \in Nat
      BY <2>1, CountsTypeNext DEF Carriers, ToCome, Balanced
    <3>3. QED
      BY <3>1, <3>2
  <2>4. /\ crashes \in Nat /\ faults \in Nat /\ posts[p] \in Nat
        /\ crashes' \in Nat /\ faults' \in Nat /\ posts'[p] \in Nat
    BY <1>1 DEF CarrierInv, JobInv, TypeInv, TypeOK
  <2>5. QED
    BY <2>1, <2>2, <2>3, <2>4 DEF Balanced
<1>3. Paid'
  BY <1>2 DEF Paid
<1>4. QED
  BY <1>1, <1>3 DEF CarrierInv

\* Two elements of a set that has at most one are the same.
LEMMA AtMostOne ==
  ASSUME NEW S, IsFiniteSet(S), Cardinality(S) <= 1
  PROVE  \A x, y \in S : x = y
<1>1. Cardinality(S) \in Nat
  BY FS_CardinalityType
<1>2. CASE Cardinality(S) = 0
  BY <1>2, FS_EmptySet
<1>3. CASE Cardinality(S) = 1
  BY <1>3, FS_Singleton
<1>4. QED
  BY <1>1, <1>2, <1>3

LEMMA NotEmpty ==
  ASSUME NEW S, IsFiniteSet(S), NEW x \in S
  PROVE  Cardinality(S) \in Nat /\ Cardinality(S) >= 1
  BY FS_CardinalityType, FS_EmptySet

\* What a total of at most one says of the places it counts.
LEMMA OnePlace ==
  ASSUME CarrierInv, NEW p \in Pubs, Carriers(p) <= 1
  PROVE  /\ \A s, t \in Batched(p) : s = t
         /\ \A s, t \in Enqueuing(p) : s = t
         /\ \A a, b \in InFlight(p) : a = b
         /\ \A g, h \in Listening(p) : g = h
         /\ Batched(p) = {} \/ Enqueuing(p) = {}
         /\ Batched(p) = {} \/ InFlight(p) = {}
         /\ Batched(p) = {} \/ Listening(p) = {}
         /\ Enqueuing(p) = {} \/ InFlight(p) = {}
         /\ Enqueuing(p) = {} \/ Listening(p) = {}
         /\ InFlight(p) = {} \/ Listening(p) = {}
         /\ Claimable(pub[p]) =>
              Batched(p) = {} /\ Enqueuing(p) = {} /\ InFlight(p) = {} /\ Listening(p) = {}
<1> DEFINE b == Cardinality(Batched(p))
           e == Cardinality(Enqueuing(p))
           j == Cardinality(InFlight(p))
           l == Cardinality(Listening(p))
<1>1. Counted(p)
  BY TotalsType
<1>2. b \in Nat /\ e \in Nat /\ j \in Nat /\ l \in Nat /\ Due(p) \in {0, 1}
  BY <1>1, CountsType
<1>3. Due(p) + b + e + j + l <= 1
  BY DEF Carriers
<1>4. b <= 1 /\ e <= 1 /\ j <= 1 /\ l <= 1
  BY <1>2, <1>3
<1>5. /\ \A s, t \in Batched(p) : s = t
      /\ \A s, t \in Enqueuing(p) : s = t
      /\ \A a, c \in InFlight(p) : a = c
      /\ \A g, h \in Listening(p) : g = h
  BY <1>1, <1>4, AtMostOne DEF Counted
<1>6. /\ b = 0 => Batched(p) = {}
      /\ e = 0 => Enqueuing(p) = {}
      /\ j = 0 => InFlight(p) = {}
      /\ l = 0 => Listening(p) = {}
  BY <1>1, FS_EmptySet DEF Counted
<1>7. Claimable(pub[p]) => Due(p) = 1
  BY DEF Due
<1> HIDE DEF b, e, j, l
<1>8. /\ b = 0 \/ e = 0
      /\ b = 0 \/ j = 0
      /\ b = 0 \/ l = 0
      /\ e = 0 \/ j = 0
      /\ e = 0 \/ l = 0
      /\ j = 0 \/ l = 0
      /\ Claimable(pub[p]) => b = 0 /\ e = 0 /\ j = 0 /\ l = 0
  BY <1>2, <1>3, <1>7
<1>9. QED
  BY <1>5, <1>6, <1>8

LEMMA CarrierInvAlways ==
  ASSUME NoBullRetryNoOperator PROVE Spec => []CarrierInv
<1>1. Init => CarrierInv
  BY CarrierInvInit
<1>2. CarrierInv /\ [Next]_vars => CarrierInv'
  BY CarrierInvNext
<1>3. QED
  BY <1>1, <1>2, PTL DEF Spec

\* The carriers of a publication while no call has thrown.
LEMMA NoFaultOnePlace ==
  ASSUME CarrierInv, faults = 0, NEW p \in Pubs
  PROVE  Carriers(p) <= 1
  BY DEF CarrierInv, Paid

\* Without operators and without retries inside BullMQ, two schedulers are
\* never responsible for the same row while no call has thrown, for any number of
\* schedulers and whatever dies: the row lock of claimDuePublications, the batch
\* and the enqueue hand the publication over.
THEOREM OneHolder == ASSUME NoBullRetryNoOperator PROVE Spec => []SingleHolder
<1>1. ASSUME CarrierInv PROVE SingleHolder
  <2>1. SUFFICES ASSUME faults = 0, NEW s \in Schedulers, NEW t \in Schedulers, NEW p \in Pubs,
                        HeldBy(s, p), HeldBy(t, p)
                 PROVE  s = t
    BY DEF SingleHolder
  <2>2. s \in Batched(p) \/ s \in Enqueuing(p)
    BY <2>1 DEF HeldBy, Batched, Enqueuing
  <2>3. t \in Batched(p) \/ t \in Enqueuing(p)
    BY <2>1 DEF HeldBy, Batched, Enqueuing
  <2>4. QED
    BY <1>1, <2>1, <2>2, <2>3, NoFaultOnePlace, OnePlace
<1>2. QED
  BY <1>1, CarrierInvAlways, PTL

\* The same of all the places a publication can be in: claimed, being enqueued,
\* in one job, or in the failure listener of one job, and only one of them.
THEOREM CarriedOnce == ASSUME NoBullRetryNoOperator PROVE Spec => []OneCarrier
<1>1. ASSUME CarrierInv PROVE OneCarrier
  <2>1. SUFFICES ASSUME faults = 0, NEW p \in Pubs
        PROVE  /\ \A s \in Schedulers : HeldBy(s, p) =>
                    /\ \A a \in AttemptIds : att[a].pub = p => ~JobInFlight(a)
                    /\ \A h \in handlers : att[h.att].pub # p
               /\ \A a, b \in AttemptIds :
                    att[a].pub = p /\ att[b].pub = p /\ JobInFlight(a) /\ JobInFlight(b) => a = b
               /\ \A h \in handlers, a \in AttemptIds :
                    att[h.att].pub = p /\ att[a].pub = p => ~JobInFlight(a)
    BY DEF OneCarrier
  <2>2. Carriers(p) <= 1
    BY <1>1, <2>1, NoFaultOnePlace
  <2>3. \A s \in Schedulers : HeldBy(s, p) => s \in Batched(p) \/ s \in Enqueuing(p)
    BY DEF HeldBy, Batched, Enqueuing
  <2>4. /\ \A a \in AttemptIds : att[a].pub = p /\ JobInFlight(a) => a \in InFlight(p)
        /\ \A h \in handlers : att[h.att].pub = p => h \in Listening(p)
    BY DEF InFlight, Listening
  <2>5. QED
    BY <1>1, <2>2, <2>3, <2>4, OnePlace
<1>2. QED
  BY <1>1, CarrierInvAlways, PTL

\* A post beyond the first is paid for by a process that died or a call that
\* threw, however many workers, retries and stalled jobs there are.
THEOREM ExtraPostsPaid ==
  ASSUME NoBullRetryNoOperator PROVE Spec => []ExtraPostsNeedFailures
<1>1. ASSUME CarrierInv PROVE ExtraPostsNeedFailures
  <2>1. SUFFICES ASSUME NEW p \in Pubs PROVE posts[p] <= 1 + crashes + faults
    BY DEF ExtraPostsNeedFailures
  <2>2. posts[p] + ToCome(p) <= 1 + crashes + faults /\ Counted(p)
    BY <1>1 DEF CarrierInv, Paid
  <2>3. ToCome(p) \in Nat
    BY <2>2, CountsType DEF ToCome
  <2>4. posts[p] \in Nat /\ crashes \in Nat /\ faults \in Nat
    BY <1>1, TotalsType
  <2>5. QED
    BY <2>2, <2>3, <2>4
<1>2. QED
  BY <1>1, CarrierInvAlways, PTL

-----------------------------------------------------------------------------
(* Numbers and the retry budget, while no call has thrown.  Both are computed *)
(* from a row that was read earlier: they are right because nobody but the   *)
(* one carrier writes that row meanwhile.                                    *)

AttemptsOf(p) == {a \in AttemptIds : att[a].pub = p}

\* Attempts are numbered up to currentAttempt; only the one a scheduler has
\* created and not yet marked is ahead, or was left behind by one that died.
Numbered(p) ==
  /\ \A a \in AttemptsOf(p) :
       \/ att[a].num <= pub[p].attempt
       \/ Carriers(p) = 0
       \/ \E s \in Schedulers : proc[s].pc = "mark" /\ proc[s].att = a
  /\ \A a, b \in AttemptsOf(p) : att[a].num = att[b].num => a = b
  /\ \A s \in Enqueuing(p) :
       /\ proc[s].pc \in {"create", "mark"} => proc[s].seen.attempt = pub[p].attempt
       /\ proc[s].pc = "mark" => att[proc[s].att].num = pub[p].attempt + 1
       /\ proc[s].pc # "error"

\* The attempt of this round has not been created yet.
Fresh(p) ==
  \/ Claimable(pub[p])
  \/ Batched(p) # {}
  \/ \E s \in Enqueuing(p) : proc[s].pc \in {"create", "blocked"}

\* Every attempt but that of this round is one that retryCount counts.
Budgeted(p) ==
  /\ IsFiniteSet(AttemptsOf(p))
  /\ Cardinality(AttemptsOf(p)) <= pub[p].retries + 1
  /\ Fresh(p) => Cardinality(AttemptsOf(p)) <= pub[p].retries
  /\ Cardinality(AttemptsOf(p)) <= MaxRetries + 1
  /\ Carriers(p) # 0 => pub[p].retries <= MaxRetries
  /\ \A h \in Listening(p) : h.pc = "read" => h.retries = pub[p].retries

CountInv ==
  CarrierInv /\ (faults = 0 => \A p \in Pubs : Numbered(p) /\ Budgeted(p))

LEMMA FaultsGrow ==
  ASSUME [Next]_vars PROVE faults' \in {faults, faults + 1}
<1>1. ASSUME NEW s \in Schedulers, SchedulerStep(s) \/ EnqueueError(s) \/ TickAborted(s)
      PROVE  faults' \in {faults, faults + 1}
  BY <1>1 DEF SchedulerStep, Claim, NextClaimed, ReadAndGate, Fault, CreateAttempt, MarkPublishing,
              AddJob, CatchEnqueue, EnqueueError, TickAborted
<1>2. ASSUME NEW r \in Requests,
             RequestRead(r) \/ RequestStep(r) \/ EnqueueError(r) \/ RequestAborted(r)
      PROVE  faults' \in {faults, faults + 1}
  BY <1>2 DEF RequestStep, RequestEnqueue, ReadAndGate, Fault, CreateAttempt, MarkPublishing, AddJob,
              RequestRead, RequestWrite, RequestThrows, ArchiveProject, EnqueueError, RequestAborted
<1>3. ASSUME NEW w \in Workers,
             TakeJob(w) \/ JobStep(w) \/ RecoverStalled(w) \/ WorkerCrash(w)
      PROVE  faults' \in {faults, faults + 1}
  BY <1>3 DEF JobStep, TakeJob, StartAttempt, CallPlatform, RecordAttempt, RecordPublication,
              FinishUnpublish, CompleteJob, FailTry, Fault, RecoverStalled, WorkerCrash
<1>4. QED
  BY <1>1, <1>2, <1>3 DEF Next, vars, HandlerStep, FailedRead, FailedWrite, DelayOver

\* Only CreateAttempt gives an attempt to a publication.
LEMMA AttemptsSame ==
  ASSUME TypeInv, Requests = {}, [Next]_vars, \A s \in Schedulers : ~CreateAttempt(s)
  PROVE  \A b \in AttemptIds : SameAttempt(att'[b], att[b])
<1> DEFINE Same == \A b \in AttemptIds : SameAttempt(att'[b], att[b])
<1>1. ASSUME NEW s \in Schedulers, SchedulerStep(s) \/ EnqueueError(s) \/ TickAborted(s)
      PROVE  Same
  <2>1. ASSUME proc[s].pc = "add", att' = [att EXCEPT ![proc[s].att].job = Added(@)] PROVE Same
    <3>1. s \in Procs
      BY DEF Procs
    <3>2. QED
      BY <2>1, <3>1, AddEffect
  <2>2. UNCHANGED att => Same
    BY DEF SameAttempt
  <2>3. QED
    BY <1>1, <2>1, <2>2 DEF SchedulerStep, Claim, NextClaimed, MarkPublishing, AddJob,
                            CatchEnqueue, EnqueueError, TickAborted
<1>2. ASSUME NEW w \in Workers, TakeJob(w) \/ JobStep(w) \/ RecoverStalled(w) \/ WorkerCrash(w)
      PROVE  Same
  <2>1. TakeJob(w) => Same
    BY TakeEffect DEF JobBecomes
  <2>2. RecoverStalled(w) => Same
    BY StalledEffect DEF JobBecomes
  <2>3. StartAttempt(w) \/ RecordAttempt(w) => Same
    BY WorkerEffects DEF JobsKept
  <2>4. CompleteJob(w) \/ FailTry(w) => Same
    BY CompleteEffect, FailEffect DEF JobBecomes
  <2>5. UNCHANGED att => Same
    BY DEF SameAttempt
  <2>6. QED
    BY <1>2, <2>1, <2>2, <2>3, <2>4, <2>5
       DEF JobStep, CallPlatform, RecordPublication, FinishUnpublish, WorkerCrash
<1>3. ASSUME NEW h \in handlers, HandlerStep(h) PROVE Same
  <2>1. h.att \in AttemptIds
    BY DEF TypeInv, TypeOK, HandlerStates
  <2>2. QED
    BY <1>3, <2>1, StatusOnly DEF HandlerStep, FailedRead, FailedWrite, SameAttempt
<1>4. ASSUME NEW a \in AttemptIds, DelayOver(a) PROVE Same
  BY <1>4, DelayEffect DEF JobBecomes
<1>5. UNCHANGED vars => Same
  BY DEF vars, SameAttempt
<1>6. QED
  BY <1>1, <1>2, <1>3, <1>4, <1>5 DEF Next

\* Only MarkPublishing writes currentAttempt, only failAttempt writes retryCount.
SameCounts(new, old) == new.attempt = old.attempt /\ new.retries = old.retries

LEMMA UpdatesKeepCounts ==
  ASSUME NEW row \in Rows, NEW seen \in Rows, NEW post
  PROVE  /\ SameCounts(Claimed(row), row)
         /\ SameCounts(ReleaseBlocked(row), row)
         /\ SameCounts(EnqueueFailed(row), row)
         /\ SameCounts(Succeeded(row, seen, post), row)
         /\ SameCounts(UnpublishRecorded(row), row)
  BY DEF SameCounts, Rows, Claimed, ReleaseBlocked, EnqueueFailed, Succeeded, UnpublishRecorded

LEMMA CountsSame ==
  ASSUME TypeInv, Requests = {}, [Next]_vars,
         \A s \in Schedulers : ~MarkPublishing(s), \A h \in handlers : ~FailedWrite(h)
  PROVE  \A p \in Pubs : SameCounts(pub'[p], pub[p])
<1>1. ASSUME NEW s \in Schedulers, Claim(s)
      PROVE  \A p \in Pubs : SameCounts(pub'[p], pub[p])
  <2>1. PICK due \in SUBSET Pubs :
          pub' = [p \in Pubs |-> IF p \in due THEN Claimed(pub[p]) ELSE pub[p]]
    BY <1>1 DEF Claim
  <2>2. QED
    BY <2>1, UpdatesKeepCounts DEF TypeInv, TypeOK, SameCounts
<1>2. ASSUME NEW s \in Schedulers, CatchEnqueue(s)
      PROVE  \A p \in Pubs : SameCounts(pub'[p], pub[p])
  BY <1>2, UpdatesKeepCounts DEF CatchEnqueue, TypeInv, TypeOK, SameCounts
<1>3. ASSUME NEW w \in Workers, RecordPublication(w) \/ FinishUnpublish(w)
      PROVE  \A p \in Pubs : SameCounts(pub'[p], pub[p])
  <2> DEFINE q == att[wk[w].att].pub
  <2>1. q \in Pubs /\ pub[q] \in Rows /\ wk[w].seen \in Rows
    BY <1>3, WorkerAttempt DEF RecordPublication, FinishUnpublish, TypeInv, TypeOK
  <2>2. PICK row : pub' = [pub EXCEPT ![q] = row] /\ SameCounts(row, pub[q])
    BY <1>3, <2>1, UpdatesKeepCounts DEF RecordPublication, FinishUnpublish
  <2> HIDE DEF q
  <2>3. QED
    BY <2>1, <2>2 DEF TypeInv, TypeOK, SameCounts
<1>4. CASE UNCHANGED pub
  BY <1>4 DEF SameCounts
<1>5. QED
  BY <1>1, <1>2, <1>3, <1>4
     DEF Next, vars, SchedulerStep, JobStep, HandlerStep, NextClaimed, CreateAttempt, AddJob,
         EnqueueError, TickAborted, TakeJob, StartAttempt, CallPlatform,
         RecordAttempt, CompleteJob, FailTry, RecoverStalled, WorkerCrash, DelayOver, FailedRead

\* Without a fault a step adds no carrier.
LEMMA CarriersFall ==
  ASSUME NoBullRetryNoOperator, CarrierInv, [Next]_vars, faults' = faults, NEW p \in Pubs
  PROVE  /\ Carriers(p) \in Nat /\ Carriers(p)' \in Nat
         /\ Carriers(p)' <= Carriers(p)
<1>1. Balanced(p) /\ Counted(p) /\ faults \in Nat
  BY StepsBalanced, TotalsType
<1>2. Carriers(p) \in Nat /\ Carriers(p)' \in Nat
  BY <1>1, CountsType, CountsTypeNext DEF Carriers, Balanced
<1>3. QED
  BY <1>1, <1>2 DEF Balanced

LEMMA NobodyLeft ==
  ASSUME NEW p, Due(p)' = 0, Batched(p)' = {}, Enqueuing(p)' = {}, InFlight(p)' = {},
         Listening(p)' = {}
  PROVE  Carriers(p)' = 0
  BY FS_EmptySet DEF Carriers

\* Steps that neither create an attempt nor mark the row.
LEMMA NumberedFrame ==
  ASSUME JobInv, NEW p \in Pubs, Numbered(p),
         Carriers(p) = 0 => Carriers(p)' = 0,
         \A b \in AttemptIds : SameAttempt(att'[b], att[b]),
         pub'[p].attempt = pub[p].attempt,
         \A s \in Schedulers : proc[s].pc = "mark" /\ proc[s].pub = p => proc'[s] = proc[s],
         \A s \in Enqueuing(p)' :
           \/ proc'[s] = proc[s]
           \/ /\ proc'[s].pc \notin {"mark", "error"}
              /\ proc'[s].pc = "create" => proc'[s].seen.attempt = pub[p].attempt
  PROVE  Numbered(p)'
<1> USE DEF JobInv
<1>1. AttemptsOf(p)' = AttemptsOf(p)
  BY DEF AttemptsOf, SameAttempt
<1>2. ASSUME NEW a \in AttemptsOf(p)
      PROVE  \/ att'[a].num <= pub'[p].attempt
             \/ Carriers(p)' = 0
             \/ \E s \in Schedulers : proc'[s].pc = "mark" /\ proc'[s].att = a
  <2>1. a \in AttemptIds /\ att'[a].num = att[a].num /\ att[a].pub = p
    BY DEF AttemptsOf, SameAttempt
  <2>2. ASSUME NEW s \in Schedulers, proc[s].pc = "mark", proc[s].att = a
        PROVE  proc'[s].pc = "mark" /\ proc'[s].att = a
    BY <2>1, <2>2 DEF ProcAttempts, Procs
  <2>3. QED
    BY <2>1, <2>2 DEF Numbered
<1>3. \A a, b \in AttemptsOf(p) : att'[a].num = att'[b].num => a = b
  BY DEF Numbered, AttemptsOf, SameAttempt
<1>4. ASSUME NEW s \in Enqueuing(p)'
      PROVE  /\ proc'[s].pc \in {"create", "mark"} => proc'[s].seen.attempt = pub'[p].attempt
             /\ proc'[s].pc = "mark" => att'[proc'[s].att].num = pub'[p].attempt + 1
             /\ proc'[s].pc # "error"
  <2>1. CASE proc'[s] = proc[s]
    <3>1. s \in Enqueuing(p) /\ s \in Procs
      BY <2>1 DEF Enqueuing, Procs
    <3>2. proc[s].pc = "mark" => proc[s].att \in AttemptIds
      BY <3>1 DEF TypeInv, References
    <3>3. QED
      BY <2>1, <3>1, <3>2 DEF Numbered, SameAttempt
  <2>2. CASE proc'[s] # proc[s]
    BY <2>2
  <2>3. QED
    BY <2>1, <2>2
<1>5. QED
  BY <1>1, <1>2, <1>3, <1>4 DEF Numbered

\* The new attempt has the next number.
LEMMA NumberedCreate ==
  ASSUME CarrierInv, NEW p \in Pubs, Carriers(p) <= 1, Numbered(p),
         Carriers(p) = 0 => Carriers(p)' = 0,
         NEW s \in Schedulers, CreateAttempt(s)
  PROVE  Numbered(p)'
<1> USE DEF CarrierInv, JobInv
<1>1. s \in Procs /\ proc[s].pc = "create" /\ UNCHANGED pub /\ proc[s].pub \in Pubs
  BY DEF Procs, CreateAttempt, TypeInv, References
<1>2. PICK a \in AttemptIds : Creates(s, a)
  BY <1>1, CreateEffect
<1>3. proc'[s].pc = "mark" /\ att[a].pub \notin Pubs
  BY <1>1, <1>2, OwnedNotFree DEF Creates, SchedulersPublish, IsArchive
<1>4. \A b \in AttemptIds : b # a => att'[b] = att[b]
  BY <1>2 DEF Creates
<1>5. CASE p = proc[s].pub
  <2>1. s \in Enqueuing(p)
    BY <1>1, <1>5 DEF Enqueuing
  <2>2. \A t \in Enqueuing(p) : t = s
    BY <2>1, OnePlace
  <2>3. proc[s].seen.attempt = pub[p].attempt /\ pub[p].attempt \in Nat
    BY <1>1, <2>1 DEF Numbered, TypeInv, TypeOK, Rows
  <2>4. att'[a].num = pub[p].attempt + 1 /\ att'[a].pub = p
    BY <1>2, <1>5, <2>3 DEF Creates
  <2>5. AttemptsOf(p)' = AttemptsOf(p) \cup {a} /\ a \notin AttemptsOf(p)
    BY <1>3, <1>4, <2>4 DEF AttemptsOf
  <2>6. Carriers(p) # 0
    BY <2>1, NotEmpty, TotalsType, CountsType DEF Carriers, Counted
  <2>7. ASSUME NEW b \in AttemptsOf(p)
        PROVE  att'[b] = att[b] /\ att[b].num <= pub[p].attempt /\ att[b].num \in Nat
    <3>1. b \in AttemptIds /\ b # a /\ att[b].pub = p
      BY <2>5 DEF AttemptsOf
    <3>2. ASSUME NEW t \in Schedulers, proc[t].pc = "mark", proc[t].att = b PROVE FALSE
      <4>1. t \in Enqueuing(p)
        BY <3>1, <3>2 DEF ProcAttempts, Procs, Enqueuing
      <4>2. QED
        BY <1>1, <2>2, <3>2, <4>1
    <3>3. QED
      BY <1>4, <2>6, <3>1, <3>2 DEF Numbered, TypeInv, TypeOK, Attempts
  <2>8. \A b \in AttemptsOf(p)' :
          \/ att'[b].num <= pub'[p].attempt
          \/ \E t \in Schedulers : proc'[t].pc = "mark" /\ proc'[t].att = b
    BY <1>1, <1>2, <1>3, <2>5, <2>7 DEF Creates
  <2>9. \A b, c \in AttemptsOf(p)' : att'[b].num = att'[c].num => b = c
    <3>1. \A b, c \in AttemptsOf(p) : att'[b].num = att'[c].num => b = c
      BY <2>7 DEF Numbered
    <3>2. \A b \in AttemptsOf(p) : att'[b].num # att'[a].num
      BY <2>3, <2>4, <2>7
    <3>3. QED
      BY <2>5, <3>1, <3>2
  <2>10. \A t \in Enqueuing(p)' : t = s
    BY <1>2, <2>2 DEF Enqueuing, Creates, Procs
  <2>11. /\ proc'[s].pc = "mark" /\ proc'[s].seen.attempt = pub'[p].attempt
         /\ att'[proc'[s].att].num = pub'[p].attempt + 1
    BY <1>1, <1>2, <1>3, <2>3, <2>4 DEF Creates
  <2>12. QED
    BY <2>8, <2>9, <2>10, <2>11 DEF Numbered
<1>6. CASE p # proc[s].pub
  <2>1. AttemptsOf(p)' = AttemptsOf(p) /\ a \notin AttemptsOf(p)
    BY <1>2, <1>3, <1>4, <1>6 DEF AttemptsOf, Creates
  <2>2. \A b \in AttemptsOf(p) : att'[b] = att[b]
    BY <1>4, <2>1 DEF AttemptsOf
  <2>3. \A t \in Enqueuing(p)' :
          /\ t \in Enqueuing(p) /\ proc'[t] = proc[t]
          /\ proc[t].pc = "mark" => att'[proc[t].att] = att[proc[t].att]
    <3>1. ASSUME NEW t \in Enqueuing(p)'
          PROVE  t \in Enqueuing(p) /\ proc'[t] = proc[t] /\ t \in Procs
      BY <1>2, <1>6 DEF Enqueuing, Creates, Procs
    <3>2. ASSUME NEW t \in Enqueuing(p), proc[t].pc = "mark"
          PROVE  proc[t].att \in AttemptIds /\ proc[t].att # a
      BY <1>3, <3>2 DEF Enqueuing, TypeInv, References, Procs
    <3>3. QED
      BY <1>4, <3>1, <3>2
  <2>4. \A t \in Schedulers : proc[t].pc = "mark" => proc'[t] = proc[t]
    BY <1>1, <1>2 DEF Creates, Procs
  <2>5. QED
    BY <1>1, <2>1, <2>2, <2>3, <2>4 DEF Numbered
<1>7. QED
  BY <1>5, <1>6

\* The row takes the number over.
LEMMA NumberedMark ==
  ASSUME CarrierInv, NEW p \in Pubs, Carriers(p) <= 1, Numbered(p),
         Carriers(p) = 0 => Carriers(p)' = 0,
         NEW s \in Schedulers, MarkPublishing(s)
  PROVE  Numbered(p)'
<1> USE DEF CarrierInv, JobInv
<1>1. s \in Procs /\ proc[s].pc = "mark" /\ UNCHANGED att
  BY DEF Procs, MarkPublishing
<1>2. PICK q \in Pubs : Marks(s, q)
  BY <1>1, MarkEffect
<1>3. AttemptsOf(p)' = AttemptsOf(p)
  BY <1>1 DEF AttemptsOf
<1>4. CASE p = q
  <2>1. s \in Enqueuing(p)
    BY <1>1, <1>2, <1>4 DEF Enqueuing, Marks
  <2>2. \A t \in Enqueuing(p) : t = s
    BY <2>1, OnePlace
  <2>3. /\ pub[p].attempt \in Nat /\ pub'[p].attempt = pub[p].attempt + 1
        /\ att[proc[s].att].num = pub[p].attempt + 1
    BY <1>1, <1>2, <1>4, <2>1 DEF Numbered, Marks, TypeInv, TypeOK, Rows
  <2>4. Carriers(p) # 0
    BY <2>1, NotEmpty, TotalsType, CountsType DEF Carriers, Counted
  <2>5. ASSUME NEW a \in AttemptsOf(p) PROVE att[a].num <= pub'[p].attempt
    <3>1. att[a].num \in Nat /\ att[a].pub = p
      BY DEF AttemptsOf, TypeInv, TypeOK, Attempts
    <3>2. ASSUME NEW t \in Schedulers, proc[t].pc = "mark", proc[t].att = a PROVE t = s
      <4>1. t \in Enqueuing(p)
        BY <3>1, <3>2 DEF ProcAttempts, Procs, Enqueuing
      <4>2. QED
        BY <2>2, <4>1
    <3>3. att[a].num <= pub[p].attempt \/ a = proc[s].att
      BY <2>4, <3>2 DEF Numbered
    <3>4. QED
      BY <2>3, <3>1, <3>3
  <2>6. \A t \in Enqueuing(p)' : t = s
    BY <1>2, <2>2 DEF Enqueuing, Marks, Procs
  <2>7. proc'[s].pc = "add"
    BY <1>2 DEF Marks
  <2>8. QED
    BY <1>1, <1>3, <2>5, <2>6, <2>7 DEF Numbered
<1>5. CASE p # q
  <2>1. proc[s].pub # p /\ proc'[s].pub # p /\ \A t \in Procs : t # s => proc'[t] = proc[t]
    BY <1>2, <1>5 DEF Marks
  <2>2. pub'[p] = pub[p]
    BY <1>2, <1>5 DEF Marks
  <2>3. \A b \in AttemptIds : SameAttempt(att'[b], att[b])
    BY <1>1 DEF SameAttempt
  <2>4. \A t \in Enqueuing(p)' : proc'[t] = proc[t]
    BY <2>1 DEF Enqueuing, Procs
  <2>5. \A t \in Schedulers : proc[t].pc = "mark" /\ proc[t].pub = p => proc'[t] = proc[t]
    BY <2>1 DEF Procs
  <2>6. QED
    BY <2>2, <2>3, <2>4, <2>5, NumberedFrame
<1>6. QED
  BY <1>4, <1>5

\* A scheduler that dies between the two writes of an enqueue leaves its attempt
\* behind, and nobody who carries the publication on.
LEMMA NumberedAborted ==
  ASSUME CarrierInv, NEW p \in Pubs, Carriers(p) <= 1, Numbered(p),
         Carriers(p) = 0 => Carriers(p)' = 0,
         NEW s \in Schedulers, TickAborted(s)
  PROVE  Numbered(p)'
<1> USE DEF CarrierInv, JobInv
<1>1. /\ s \in Procs /\ UNCHANGED <<pub, att, handlers>>
      /\ proc'[s].pc = "idle" /\ \A t \in Procs : t # s => proc'[t] = proc[t]
      /\ \A t \in Schedulers : batch'[t] \subseteq batch[t]
  BY DEF Procs, TickAborted, ProcIdle, TypeInv, TypeOK
<1>2. \A b \in AttemptIds : SameAttempt(att'[b], att[b])
  BY <1>1 DEF SameAttempt
<1>3. \A t \in Enqueuing(p)' : proc'[t] = proc[t] /\ t \in Enqueuing(p) /\ t # s
  BY <1>1 DEF Enqueuing, Procs
<1>4. CASE proc[s].pc = "mark" /\ proc[s].pub = p
  <2>1. s \in Enqueuing(p)
    BY <1>4 DEF Enqueuing
  <2>2. /\ Batched(p) = {} /\ InFlight(p) = {} /\ Listening(p) = {} /\ ~Claimable(pub[p])
        /\ \A t \in Enqueuing(p) : t = s
    BY <2>1, OnePlace
  <2>3. Enqueuing(p)' = {}
    BY <1>3, <2>2
  <2>4. Carriers(p)' = 0
    BY <1>1, <2>2, <2>3, NobodyLeft DEF Due, Batched, InFlight, JobInFlight, Listening
  <2>5. AttemptsOf(p)' = AttemptsOf(p)
    BY <1>1 DEF AttemptsOf
  <2>6. QED
    BY <1>1, <2>3, <2>4, <2>5 DEF Numbered
<1>5. CASE ~(proc[s].pc = "mark" /\ proc[s].pub = p)
  <2>1. \A t \in Schedulers : proc[t].pc = "mark" /\ proc[t].pub = p => proc'[t] = proc[t]
    BY <1>1, <1>5 DEF Procs
  <2>2. QED
    BY <1>1, <1>2, <1>3, <2>1, NumberedFrame
<1>6. QED
  BY <1>4, <1>5

LEMMA NumberedNext ==
  ASSUME NoBullRetryNoOperator, CarrierInv, faults = 0, faults' = 0, [Next]_vars,
         NEW p \in Pubs, Numbered(p)
  PROVE  Numbered(p)'
<1> USE DEF CarrierInv, JobInv, NoBullRetryNoOperator
<1>1. Carriers(p) <= 1 /\ (Carriers(p) = 0 => Carriers(p)' = 0)
  BY CarriersFall, NoFaultOnePlace
<1>2. CASE \E s \in Schedulers : CreateAttempt(s) \/ MarkPublishing(s) \/ TickAborted(s)
  BY <1>1, <1>2, NumberedCreate, NumberedMark, NumberedAborted
<1>3. CASE \A s \in Schedulers : ~CreateAttempt(s) /\ ~MarkPublishing(s) /\ ~TickAborted(s)
  <2>1. \A b \in AttemptIds : SameAttempt(att'[b], att[b])
    BY <1>3, AttemptsSame
  <2>2. pub'[p].attempt = pub[p].attempt
    <3>1. CASE \A h \in handlers : ~FailedWrite(h)
      BY <1>3, <3>1, CountsSame DEF SameCounts
    <3>2. ASSUME NEW h \in handlers, FailedWrite(h) PROVE pub'[p].attempt = pub[p].attempt
      BY <3>2 DEF FailedWrite, AttemptFailed, TypeInv, TypeOK, Rows, HandlerStates
    <3>3. QED
      BY <3>1, <3>2
  <2>3. /\ \A s \in Schedulers : proc[s].pc = "mark" => proc'[s] = proc[s]
        /\ \A s \in Enqueuing(p)' :
             \/ proc'[s] = proc[s]
             \/ /\ proc'[s].pc \notin {"mark", "error"}
                /\ proc'[s].pc = "create" => proc'[s].seen.attempt = pub[p].attempt
    <3> DEFINE Goes(s) ==
          /\ proc[s].pc = "mark" => proc'[s] = proc[s]
          /\ s \in Enqueuing(p)' =>
               \/ proc'[s] = proc[s]
               \/ /\ proc'[s].pc \notin {"mark", "error"}
                  /\ proc'[s].pc = "create" => proc'[s].seen.attempt = pub[p].attempt
    <3>1. ASSUME NEW s \in Schedulers, NEW t \in Schedulers, NextClaimed(s) PROVE Goes(t)
      <4>1. PICK q \in Pubs : ReadAndGate(s, q)
        BY <3>1 DEF NextClaimed, TypeInv, TypeOK
      <4>2. s \in Procs /\ t \in Procs /\ proc[s].pc = "idle"
        BY <3>1 DEF Procs, NextClaimed
      <4>3. /\ \A y \in Procs : y # s => proc'[y] = proc[y]
            /\ \/ proc'[s].pc = "idle"
               \/ /\ proc'[s].pc \in {"create", "blocked"} /\ proc'[s].pub = q
                  /\ proc'[s].seen = pub[q]
        BY <4>1, <4>2, GateEffect DEF Finished, ProcIdle
      <4>4. QED
        BY <4>2, <4>3 DEF Enqueuing
    <3>2. ASSUME NEW s \in Schedulers, NEW t \in Schedulers, AddJob(s) \/ CatchEnqueue(s) PROVE Goes(t)
      <4>1. s \in Procs /\ t \in Procs /\ proc[s].pc \notin {"idle", "mark"}
        BY <3>2 DEF Procs, AddJob, CatchEnqueue
      <4>2. proc'[s].pc = "idle" /\ \A y \in Procs : y # s => proc'[y] = proc[y]
        BY <3>2, <4>1 DEF AddJob, CatchEnqueue, IsArchive, Finished, ProcIdle, SchedulersPublish,
                          TypeInv, TypeOK
      <4>3. QED
        BY <4>1, <4>2 DEF Enqueuing
    <3>3. ASSUME NEW s \in Schedulers, EnqueueError(s) PROVE FALSE
      BY <3>3 DEF EnqueueError, Fault
    <3>4. CASE UNCHANGED proc
      BY <3>4
    <3>5. ASSUME NEW s \in Schedulers, SchedulerStep(s) \/ EnqueueError(s) \/ TickAborted(s)
          PROVE  \A t \in Schedulers : Goes(t)
      BY <1>3, <3>1, <3>2, <3>3, <3>4, <3>5 DEF SchedulerStep, Claim
    <3>6. \A t \in Schedulers : Goes(t)
      BY <3>4, <3>5
         DEF Next, vars, TakeJob, JobStep, RecoverStalled, WorkerCrash, StartAttempt, CallPlatform,
             RecordAttempt, RecordPublication, FinishUnpublish, CompleteJob, FailTry, DelayOver,
             HandlerStep, FailedRead, FailedWrite
    <3>7. QED
      BY <3>6 DEF Enqueuing
  <2>4. QED
    BY <1>1, <2>1, <2>2, <2>3, NumberedFrame
<1>4. QED
  BY <1>2, <1>3

-----------------------------------------------------------------------------
(* The budget                                                                *)

\* What a listener has read is what it will add one to.
LEMMA BudgetedFrame ==
  ASSUME NEW p \in Pubs, Budgeted(p), Carriers(p) = 0 => Carriers(p)' = 0,
         AttemptsOf(p)' = AttemptsOf(p), pub'[p].retries = pub[p].retries,
         Fresh(p)' => Fresh(p),
         \A h \in Listening(p)' : h.pc = "read" => h \in Listening(p) \/ h.retries = pub[p].retries
  PROVE  Budgeted(p)'
  BY DEF Budgeted

\* The attempt of this round: the scheduler that creates it is the only carrier.
LEMMA BudgetedCreate ==
  ASSUME CarrierInv, NEW p \in Pubs, Carriers(p) <= 1, Budgeted(p),
         Carriers(p) = 0 => Carriers(p)' = 0,
         NEW s \in Schedulers, CreateAttempt(s)
  PROVE  Budgeted(p)'
<1> USE DEF CarrierInv, JobInv
<1>1. s \in Procs /\ proc[s].pc = "create" /\ proc[s].pub \in Pubs
      /\ UNCHANGED <<pub, batch, handlers>>
  BY DEF Procs, CreateAttempt, TypeInv, References
<1>2. PICK a \in AttemptIds : Creates(s, a)
  BY <1>1, CreateEffect
<1>3. att[a].pub \notin Pubs /\ \A b \in AttemptIds : b # a => att'[b] = att[b]
  BY <1>2, OwnedNotFree DEF Creates
<1>4. Listening(p)' = Listening(p) \/ Listening(p)' \subseteq Listening(p)
  BY <1>1, <1>3 DEF Listening, TypeInv, TypeOK, References, HandlerStates
<1>5. CASE p = proc[s].pub
  <2>1. s \in Enqueuing(p) /\ Fresh(p)
    BY <1>1, <1>5 DEF Enqueuing, Fresh
  <2>2. /\ \A t \in Enqueuing(p) : t = s
        /\ Batched(p) = {} /\ ~Claimable(pub[p])
    BY <2>1, OnePlace
  <2>3. Carriers(p) # 0
    BY <2>1, NotEmpty, TotalsType, CountsType DEF Carriers, Counted
  <2>4. AttemptsOf(p)' = AttemptsOf(p) \cup {a} /\ a \notin AttemptsOf(p)
    BY <1>2, <1>3, <1>5 DEF AttemptsOf, Creates
  <2>5. /\ IsFiniteSet(AttemptsOf(p)) /\ Cardinality(AttemptsOf(p)) <= pub[p].retries
        /\ pub[p].retries <= MaxRetries
    BY <2>1, <2>3 DEF Budgeted
  <2>6. /\ IsFiniteSet(AttemptsOf(p)') /\ Cardinality(AttemptsOf(p)') = Cardinality(AttemptsOf(p)) + 1
        /\ Cardinality(AttemptsOf(p)) \in Nat
    BY <2>4, <2>5, FS_AddElement, FS_CardinalityType
  <2>7. pub[p].retries \in Nat /\ MaxRetries \in Nat
    BY ConstantsAssumption DEF TypeInv, TypeOK, Rows
  <2>8. /\ Cardinality(AttemptsOf(p)') <= pub[p].retries + 1
        /\ Cardinality(AttemptsOf(p)') <= MaxRetries + 1
    BY <2>5, <2>6, <2>7
  <2>9. ~Fresh(p)'
    <3>1. Batched(p)' = {} /\ ~Claimable(pub'[p])
      BY <1>1, <2>2 DEF Batched
    <3>2. \A t \in Enqueuing(p)' : t = s
      BY <1>2, <2>2 DEF Enqueuing, Creates, Procs
    <3>3. proc'[s].pc \in {"add", "mark"}
      BY <1>2 DEF Creates
    <3>4. QED
      BY <3>1, <3>2, <3>3 DEF Fresh
  <2>10. QED
    BY <1>1, <1>4, <2>3, <2>5, <2>6, <2>8, <2>9 DEF Budgeted
<1>6. CASE p # proc[s].pub
  <2>1. AttemptsOf(p)' = AttemptsOf(p)
    BY <1>2, <1>3, <1>6 DEF AttemptsOf, Creates
  <2>2. \A t \in Enqueuing(p)' : t \in Enqueuing(p) /\ proc'[t] = proc[t]
    BY <1>2, <1>6 DEF Enqueuing, Creates, Procs
  <2>3. Fresh(p)' => Fresh(p)
    BY <1>1, <2>2 DEF Fresh, Batched
  <2>4. QED
    BY <1>1, <1>4, <2>1, <2>3, BudgetedFrame
<1>7. QED
  BY <1>5, <1>6

\* The listener counts the attempt that failed; past the budget the row is not
\* due again.
LEMMA BudgetedFailed ==
  ASSUME CarrierInv, NEW p \in Pubs, Carriers(p) <= 1, Budgeted(p),
         Carriers(p) = 0 => Carriers(p)' = 0,
         AttemptsOf(p)' = AttemptsOf(p),
         NEW h \in handlers, FailedWrite(h)
  PROVE  Budgeted(p)'
<1> USE DEF CarrierInv, JobInv
<1> DEFINE q == att[h.att].pub
           count == h.retries + 1
<1>1. h \in HandlerStates /\ h.att \in AttemptIds /\ q \in Pubs /\ h.retries \in Nat
      /\ h.class \in {"transient", "permanent"}
  BY DEF TypeInv, TypeOK, References, HandlerStates
<1>2. UNCHANGED <<att, batch, proc>> /\ handlers' = handlers \ {h} /\ h.pc = "read"
      /\ pub' = [pub EXCEPT ![q] = AttemptFailed(@, h.retries, h.class, MaxRetries)]
  BY DEF FailedWrite
<1> HIDE DEF q
<1>3. Listening(p)' \subseteq Listening(p)
  BY <1>2 DEF Listening
<1>4. CASE p = q
  <2>1. h \in Listening(p)
    BY <1>4 DEF Listening, q
  <2>2. /\ Batched(p) = {} /\ Enqueuing(p) = {} /\ InFlight(p) = {}
        /\ \A g \in Listening(p) : g = h
    BY <2>1, OnePlace
  <2>3. Listening(p)' = {}
    BY <1>2, <2>2 DEF Listening
  <2>4. pub[p].retries \in Nat /\ h.retries = pub[p].retries /\ pub[p] \in Rows
    BY <1>2, <2>1 DEF Budgeted, TypeInv, TypeOK, Rows
  <2>5. /\ pub'[p].retries = count
        /\ pub'[p].retryAt = ~TerminalFailure(h.class, count, MaxRetries)
        /\ pub'[p].status = "failed"
    <3>1. pub'[p] = [pub[p] EXCEPT !.status = "failed", !.retries = count, !.class = h.class,
                          !.retryAt = ~TerminalFailure(h.class, count, MaxRetries)]
      BY <1>1, <1>2, <1>4 DEF AttemptFailed, TypeInv, TypeOK
    <3> HIDE DEF count
    <3>2. QED
      BY <2>4, <3>1 DEF Rows
  <2>6. Claimable(pub'[p]) => count <= MaxRetries
    <3>1. pub'[p].retryAt => ~(count > MaxRetries)
      BY <2>5 DEF TerminalFailure
    <3>2. count \in Nat /\ MaxRetries \in Nat
      BY <1>1, ConstantsAssumption
    <3> HIDE DEF count
    <3>3. QED
      BY <2>5, <3>1, <3>2 DEF Claimable
  <2>7. Batched(p)' = {} /\ Enqueuing(p)' = {} /\ InFlight(p)' = {}
    BY <1>2, <2>2 DEF Batched, Enqueuing, InFlight, JobInFlight
  <2>8. Carriers(p)' # 0 => Claimable(pub'[p])
    BY <2>3, <2>7, NobodyLeft DEF Due
  <2>9. /\ IsFiniteSet(AttemptsOf(p)) /\ Cardinality(AttemptsOf(p)) <= pub[p].retries + 1
        /\ Cardinality(AttemptsOf(p)) <= MaxRetries + 1
    BY DEF Budgeted
  <2>10. Cardinality(AttemptsOf(p)) \in Nat /\ count = pub[p].retries + 1
    BY <2>4, <2>9, FS_CardinalityType
  <2>11. Cardinality(AttemptsOf(p)) <= count /\ Cardinality(AttemptsOf(p)) <= count + 1
    BY <2>4, <2>9, <2>10
  <2> HIDE DEF count
  <2>12. QED
    BY <2>3, <2>5, <2>6, <2>8, <2>9, <2>11 DEF Budgeted
<1>5. CASE p # q
  <2>1. pub'[p] = pub[p]
    BY <1>1, <1>2, <1>5 DEF TypeInv, TypeOK
  <2>2. Fresh(p)' => Fresh(p)
    BY <1>2, <2>1 DEF Fresh, Batched, Enqueuing
  <2>3. QED
    BY <1>3, <2>1, <2>2, BudgetedFrame
<1>6. QED
  BY <1>4, <1>5

\* Only a listener makes a new round possible.
LEMMA FreshKept ==
  ASSUME NoBullRetryNoOperator, CarrierInv, faults = 0, faults' = 0, [Next]_vars,
         NEW p \in Pubs, Numbered(p),
         \A s \in Schedulers : ~CreateAttempt(s), \A h \in handlers : ~FailedWrite(h), Fresh(p)'
  PROVE  Fresh(p)
<1> USE DEF CarrierInv, JobInv, NoBullRetryNoOperator
<1>1. ASSUME NEW s \in Schedulers, Claim(s) PROVE Fresh(p)
  <2>1. PICK due \in SUBSET {q \in Pubs : Claimable(pub[q])} :
          /\ pub' = [q \in Pubs |-> IF q \in due THEN Claimed(pub[q]) ELSE pub[q]]
          /\ batch' = [batch EXCEPT ![s] = due]
    BY <1>1 DEF Claim
  <2>2. UNCHANGED proc
    BY <1>1 DEF Claim
  <2>3. CASE p \in due
    BY <2>1, <2>3 DEF Fresh
  <2>4. CASE p \notin due
    <3>1. pub'[p] = pub[p] /\ Batched(p)' \subseteq Batched(p)
      BY <2>1, <2>4 DEF Batched, TypeInv, TypeOK
    <3>2. QED
      BY <2>2, <3>1 DEF Fresh, Enqueuing
  <2>5. QED
    BY <2>3, <2>4
<1>2. ASSUME NEW s \in Schedulers, NextClaimed(s) PROVE Fresh(p)
  <2>1. PICK q \in batch[s] : batch' = [batch EXCEPT ![s] = @ \ {q}] /\ ReadAndGate(s, q)
    BY <1>2 DEF NextClaimed
  <2>2. s \in Procs /\ q \in Pubs /\ UNCHANGED pub
    BY <1>2, <2>1 DEF NextClaimed, Procs, TypeInv, TypeOK
  <2>3. /\ \A y \in Procs : y # s => proc'[y] = proc[y]
        /\ proc'[s].pc = "idle" \/ proc'[s].pub = q
    BY <2>1, <2>2, GateEffect DEF Finished, ProcIdle
  <2>4. CASE p = q
    BY <2>1, <2>4 DEF Fresh, Batched
  <2>5. CASE p # q
    <3>1. Batched(p)' \subseteq Batched(p)
      BY <2>1, <2>5 DEF Batched, TypeInv, TypeOK
    <3>2. \A t \in Enqueuing(p)' : t \in Enqueuing(p) /\ proc'[t] = proc[t]
      BY <2>3, <2>5 DEF Enqueuing, Procs
    <3>3. QED
      BY <2>2, <3>1, <3>2 DEF Fresh
  <2>6. QED
    BY <2>4, <2>5
<1>3. ASSUME NEW s \in Schedulers, MarkPublishing(s) PROVE Fresh(p)
  <2>1. s \in Procs /\ UNCHANGED batch
    BY <1>3 DEF Procs, MarkPublishing
  <2>2. PICK q \in Pubs : Marks(s, q)
    BY <1>3, <2>1, MarkEffect
  <2>3. Claimable(pub'[p]) => Claimable(pub[p])
    BY <2>2 DEF Marks, Claimable
  <2>4. \A t \in Enqueuing(p)' : proc'[t].pc # "add" => t \in Enqueuing(p) /\ proc'[t] = proc[t]
    BY <2>2 DEF Enqueuing, Procs, Marks
  <2>5. QED
    BY <2>1, <2>3, <2>4 DEF Fresh, Batched
<1>4. ASSUME NEW s \in Schedulers, CatchEnqueue(s) PROVE Fresh(p)
  <2>1. s \in Procs /\ proc[s].pub \in Pubs /\ UNCHANGED batch
        /\ proc'[s].pc = "idle" /\ \A y \in Procs : y # s => proc'[y] = proc[y]
    BY <1>4 DEF Procs, CatchEnqueue, ProcIdle, TypeInv, TypeOK, References
  <2>2. Claimable(pub'[p]) => Claimable(pub[p])
    <3>1. CASE p # proc[s].pub
      BY <1>4, <2>1, <3>1 DEF CatchEnqueue, TypeInv, TypeOK
    <3>2. CASE p = proc[s].pub
      <4>1. proc[s].pc = "blocked"
        BY <1>4, <3>2 DEF CatchEnqueue, Enqueuing, Numbered
      <4>2. pub'[p].status = "ready"
        BY <1>4, <3>2, <4>1 DEF CatchEnqueue, ReleaseBlocked, TypeInv, TypeOK, Rows
      <4>3. QED
        BY <4>2 DEF Claimable
    <3>3. QED
      BY <3>1, <3>2
  <2>3. \A t \in Enqueuing(p)' : t \in Enqueuing(p) /\ proc'[t] = proc[t]
    BY <2>1 DEF Enqueuing, Procs
  <2>4. QED
    BY <2>1, <2>2, <2>3 DEF Fresh, Batched
<1>5. ASSUME NEW s \in Schedulers, AddJob(s) \/ TickAborted(s) PROVE Fresh(p)
  <2>1. s \in Procs /\ UNCHANGED pub /\ Batched(p)' \subseteq Batched(p)
    BY <1>5 DEF Procs, AddJob, TickAborted, Batched, TypeInv, TypeOK
  <2>2. proc'[s].pc \in {"idle", "archive"} /\ \A y \in Procs : y # s => proc'[y] = proc[y]
    BY <1>5, <2>1, AddEnds DEF TickAborted, ProcIdle, Finished, TypeInv, TypeOK
  <2>3. \A t \in Enqueuing(p)' : proc'[t].pc # "archive" => t \in Enqueuing(p) /\ proc'[t] = proc[t]
    BY <2>2 DEF Enqueuing, Procs
  <2>4. QED
    BY <2>1, <2>3 DEF Fresh
<1>6. ASSUME NEW s \in Schedulers, EnqueueError(s) PROVE FALSE
  BY <1>6 DEF EnqueueError, Fault
<1>7. ASSUME UNCHANGED <<batch, proc>>, Claimable(pub'[p]) => Claimable(pub[p]) PROVE Fresh(p)
  BY <1>7 DEF Fresh, Batched, Enqueuing
<1>8. ASSUME NEW w \in Workers, RecordPublication(w) \/ FinishUnpublish(w) PROVE Fresh(p)
  <2> DEFINE q == att[wk[w].att].pub
  <2>1. q \in Pubs /\ pub[q] \in Rows
    BY <1>8, WorkerAttempt DEF RecordPublication, FinishUnpublish, TypeInv, TypeOK
  <2>2. PICK row : pub' = [pub EXCEPT ![q] = row] /\ row.status \in {"published", "unpublished"}
    <3>1. /\ Succeeded(pub[q], wk[w].seen, wk[w].post).status \in {"published", "unpublished"}
          /\ UnpublishRecorded(pub[q]).status = "unpublished"
      BY <2>1 DEF Succeeded, UnpublishRecorded, Rows
    <3>2. QED
      BY <1>8, <3>1 DEF RecordPublication, FinishUnpublish
  <2> HIDE DEF q
  <2>3. Claimable(pub'[p]) => Claimable(pub[p])
    BY <2>1, <2>2 DEF Claimable, TypeInv, TypeOK
  <2>4. QED
    BY <1>7, <1>8, <2>3 DEF RecordPublication, FinishUnpublish
<1>9. ASSUME NEW s \in Schedulers, SchedulerStep(s) \/ EnqueueError(s) \/ TickAborted(s)
      PROVE  Fresh(p)
  BY <1>1, <1>2, <1>3, <1>4, <1>5, <1>6, <1>9 DEF SchedulerStep
<1>10. QED
  BY <1>7, <1>8, <1>9
     DEF Next, vars, TakeJob, JobStep, RecoverStalled, WorkerCrash, StartAttempt, CallPlatform,
         RecordAttempt, CompleteJob, FailTry, DelayOver, HandlerStep, FailedRead

\* A listener starts without a count, and reads the one of the row.
LEMMA ListenersRead ==
  ASSUME NoBullRetryNoOperator, JobInv, [Next]_vars, NEW p \in Pubs, \A h \in handlers : ~FailedWrite(h),
         AttemptsOf(p)' = AttemptsOf(p)
  PROVE  \A h \in Listening(p)' :
           h.pc = "read" => h \in Listening(p) \/ h.retries = pub[p].retries
<1> USE DEF JobInv, NoBullRetryNoOperator
<1>1. ASSUME NEW h \in handlers', h \in handlers, att'[h.att].pub = p PROVE h \in Listening(p)
  <2>1. h.att \in AttemptIds
    BY <1>1 DEF TypeInv, TypeOK, HandlerStates
  <2>2. QED
    BY <1>1, <2>1 DEF AttemptsOf, Listening
<1>2. CASE handlers' \subseteq handlers
  BY <1>1, <1>2 DEF Listening
<1>3. ASSUME NEW a \in AttemptIds, NEW class, NEW w \in Workers,
             handlers' = handlers \cup {NewHandler(a, class, w)}
      PROVE  \A h \in handlers' : h \in handlers \/ h.pc = "new"
  BY <1>3 DEF NewHandler
<1>4. CASE \E w \in Workers : FailTry(w) \/ RecoverStalled(w)
  <2>1. PICK w \in Workers : FailTry(w) \/ RecoverStalled(w)
    BY <1>4
  <2>2. CASE FailTry(w)
    BY <1>1, <1>3, <2>2, FailEffect, WorkerAttempt DEF Listening
  <2>3. CASE RecoverStalled(w)
    BY <1>1, <1>2, <1>3, <2>3, StalledEffect DEF Listening
  <2>4. QED
    BY <2>1, <2>2, <2>3
<1>5. ASSUME NEW h \in handlers, FailedRead(h)
      PROVE  \A g \in Listening(p)' :
               g.pc = "read" => g \in Listening(p) \/ g.retries = pub[p].retries
  <2> DEFINE f == [h EXCEPT !.pc = "read", !.retries = pub[att[h.att].pub].retries]
  <2>1. f.att = h.att /\ f.retries = pub[att[h.att].pub].retries /\ h.att \in AttemptIds
    BY DEF TypeInv, TypeOK, HandlerStates
  <2>2. handlers' = (handlers \ {h}) \cup {f}
    BY <1>5 DEF FailedRead
  <2>3. att'[h.att].pub = att[h.att].pub
    BY <1>5, <2>1, StatusOnly DEF FailedRead, SameAttempt
  <2> HIDE DEF f
  <2>4. QED
    BY <1>1, <2>1, <2>2, <2>3 DEF Listening
<1>6. ASSUME NEW s \in Schedulers, SchedulerStep(s) \/ EnqueueError(s) \/ TickAborted(s)
      PROVE  UNCHANGED handlers
  BY <1>6 DEF SchedulerStep, Claim, NextClaimed, CreateAttempt, MarkPublishing, AddJob,
              CatchEnqueue, EnqueueError, TickAborted
<1>7. ASSUME NEW w \in Workers, TakeJob(w) \/ JobStep(w) \/ RecoverStalled(w) \/ WorkerCrash(w)
      PROVE  handlers' \subseteq handlers \/ FailTry(w) \/ RecoverStalled(w)
  BY <1>7 DEF JobStep, TakeJob, StartAttempt, CallPlatform, RecordAttempt, RecordPublication,
              FinishUnpublish, CompleteJob, WorkerCrash
<1>8. QED
  BY <1>2, <1>4, <1>5, <1>6, <1>7 DEF Next, vars, HandlerStep, DelayOver

LEMMA BudgetedNext ==
  ASSUME NoBullRetryNoOperator, CarrierInv, faults = 0, faults' = 0, [Next]_vars,
         NEW p \in Pubs, Numbered(p), Budgeted(p)
  PROVE  Budgeted(p)'
<1> USE DEF CarrierInv, JobInv, NoBullRetryNoOperator
<1>1. Carriers(p) <= 1 /\ (Carriers(p) = 0 => Carriers(p)' = 0)
  BY CarriersFall, NoFaultOnePlace
<1>2. CASE \E s \in Schedulers : CreateAttempt(s)
  BY <1>1, <1>2, BudgetedCreate
<1>3. CASE \A s \in Schedulers : ~CreateAttempt(s)
  <2>1. \A b \in AttemptIds : SameAttempt(att'[b], att[b])
    BY <1>3, AttemptsSame
  <2>2. AttemptsOf(p)' = AttemptsOf(p)
    BY <2>1 DEF AttemptsOf, SameAttempt
  <2>3. CASE \E h \in handlers : FailedWrite(h)
    BY <1>1, <2>2, <2>3, BudgetedFailed
  <2>4. CASE \A h \in handlers : ~FailedWrite(h)
    <3>1. pub'[p].retries = pub[p].retries
      <4>1. CASE \A s \in Schedulers : ~MarkPublishing(s)
        BY <2>4, <4>1, CountsSame DEF SameCounts
      <4>2. ASSUME NEW s \in Schedulers, MarkPublishing(s) PROVE pub'[p].retries = pub[p].retries
        <5>1. PICK q \in Pubs : Marks(s, q)
          BY <4>2, MarkEffect DEF Procs
        <5>2. QED
          BY <5>1 DEF Marks
      <4>3. QED
        BY <4>1, <4>2
    <3>2. Fresh(p)' => Fresh(p)
      BY <1>3, <2>4, FreshKept
    <3>3. \A h \in Listening(p)' :
            h.pc = "read" => h \in Listening(p) \/ h.retries = pub[p].retries
      BY <2>2, <2>4, ListenersRead
    <3>4. QED
      BY <1>1, <2>2, <3>1, <3>2, <3>3, BudgetedFrame
  <2>5. QED
    BY <2>3, <2>4
<1>4. QED
  BY <1>2, <1>3

LEMMA CountInvNext ==
  ASSUME NoBullRetryNoOperator, CountInv, [Next]_vars
  PROVE  CountInv'
<1>1. CarrierInv'
  BY CarrierInvNext DEF CountInv
<1>2. faults' = 0 => faults = 0
  BY FaultsGrow, TypeInvNext DEF CountInv, CarrierInv, JobInv, TypeInv, TypeOK
<1>3. QED
  BY <1>1, <1>2, NumberedNext, BudgetedNext DEF CountInv

LEMMA CountInvInit ==
  ASSUME Init PROVE CountInv
<1>1. CarrierInv
  BY CarrierInvInit
<1>2. ASSUME NEW p \in Pubs
      PROVE  /\ AttemptsOf(p) = {} /\ Enqueuing(p) = {} /\ Listening(p) = {}
             /\ pub[p].retries = 0
  BY ConstantsAssumption DEF Init, AttemptsOf, FreeAttempt, Enqueuing, Procs, ProcIdle, Listening,
                             CreatedRows, NewRow
<1>3. ASSUME NEW p \in Pubs PROVE Numbered(p)
  BY <1>2 DEF Numbered
<1>4. ASSUME NEW p \in Pubs PROVE Budgeted(p)
  <2>1. IsFiniteSet({}) /\ Cardinality({}) = 0 /\ MaxRetries \in Nat
    BY FS_EmptySet, ConstantsAssumption
  <2>2. 0 <= MaxRetries /\ 0 <= MaxRetries + 1 /\ 0 <= 0 + 1
    BY <2>1
  <2>3. QED
    BY <1>2, <2>1, <2>2 DEF Budgeted
<1>5. QED
  BY <1>1, <1>3, <1>4 DEF CountInv

LEMMA CountInvAlways ==
  ASSUME NoBullRetryNoOperator PROVE Spec => []CountInv
<1>1. Init => CountInv
  BY CountInvInit
<1>2. CountInv /\ [Next]_vars => CountInv'
  BY CountInvNext
<1>3. QED
  BY <1>1, <1>2, PTL DEF Spec

\* The attempts of a publication are numbered without a repetition, although
\* enqueuePublication computes the number from a row it read before: while no
\* call has thrown, no other enqueue can change that row meanwhile.
THEOREM NumbersUnique == ASSUME NoBullRetryNoOperator PROVE Spec => []AttemptsNumbered
<1>1. ASSUME CountInv PROVE AttemptsNumbered
  <2>1. SUFFICES ASSUME faults = 0, NEW a \in AttemptIds, NEW b \in AttemptIds,
                        att[a].pub = att[b].pub, att[a].pub # None, att[a].num = att[b].num
                 PROVE  a = b
    BY DEF AttemptsNumbered
  <2>2. att[a].pub \in Pubs
    BY <1>1, <2>1 DEF CountInv, CarrierInv, JobInv, TypeInv, TypeOK, Attempts
  <2>3. Numbered(att[a].pub)
    BY <1>1, <2>1, <2>2 DEF CountInv
  <2>4. QED
    BY <2>1, <2>3 DEF Numbered, AttemptsOf
<1>2. QED
  BY <1>1, CountInvAlways, PTL

\* A publication that no operator retries has at most PUBLICATION_MAX_RETRIES
\* attempts beyond its first, for any number of processes and whatever dies: the
\* listener that failAttempt runs in counts every attempt that may be repeated.
THEOREM BudgetKept == ASSUME NoBullRetryNoOperator PROVE Spec => []RetryBudget
<1>1. ASSUME CountInv PROVE RetryBudget
  BY <1>1 DEF RetryBudget, CountInv, Budgeted, AttemptsOf
<1>2. QED
  BY <1>1, CountInvAlways, PTL

-----------------------------------------------------------------------------
(* What the row says, while nothing has failed: the status a scheduler or an *)
(* operator reads is the place the publication is in.                        *)

RowAgrees(p) ==
  /\ Batched(p) # {} => pub[p].status = "queued"
  /\ \A s \in Enqueuing(p) :
       pub[p].status = IF proc[s].pc = "add" THEN "publishing" ELSE "queued"
  /\ Unsent(p) # {} => pub[p].status = "publishing"
  /\ Listening(p) # {} => pub[p].status = "publishing"

\* Only a worker that dies leaves an active job behind.
ActiveHasWorker ==
  \A a \in AttemptIds :
    att[a].job.state = "active" => \E w \in Workers : wk[w].att = a

CalmInv ==
  /\ CarrierInv
  /\ Calm => ActiveHasWorker /\ \A p \in Pubs : RowAgrees(p)

LEMMA CrashesGrow ==
  ASSUME [Next]_vars PROVE crashes' \in {crashes, crashes + 1}
<1>1. ASSUME NEW s \in Schedulers, SchedulerStep(s) \/ EnqueueError(s) \/ TickAborted(s)
      PROVE  crashes' \in {crashes, crashes + 1}
  BY <1>1 DEF SchedulerStep, Claim, NextClaimed, CreateAttempt, MarkPublishing,
              AddJob, CatchEnqueue, EnqueueError, TickAborted
<1>2. ASSUME NEW r \in Requests,
             RequestRead(r) \/ RequestStep(r) \/ EnqueueError(r) \/ RequestAborted(r)
      PROVE  crashes' \in {crashes, crashes + 1}
  BY <1>2 DEF RequestStep, RequestEnqueue, CreateAttempt, MarkPublishing, AddJob,
              RequestRead, RequestWrite, RequestThrows, ArchiveProject, EnqueueError, RequestAborted
<1>3. ASSUME NEW w \in Workers,
             TakeJob(w) \/ JobStep(w) \/ RecoverStalled(w) \/ WorkerCrash(w)
      PROVE  crashes' \in {crashes, crashes + 1}
  BY <1>3 DEF JobStep, TakeJob, StartAttempt, CallPlatform, RecordAttempt, RecordPublication,
              FinishUnpublish, CompleteJob, FailTry, RecoverStalled, WorkerCrash
<1>4. QED
  BY <1>1, <1>2, <1>3 DEF Next, vars, HandlerStep, FailedRead, FailedWrite, DelayOver

\* A row that keeps its status, and places that keep what they say.
LEMMA RowFrame ==
  ASSUME NEW p \in Pubs, RowAgrees(p), pub'[p].status = pub[p].status,
         Batched(p)' # {} => Batched(p) # {} \/ pub[p].status = "queued",
         Unsent(p)' # {} => Unsent(p) # {} \/ pub[p].status = "publishing",
         Listening(p)' # {} => Listening(p) # {} \/ pub[p].status = "publishing",
         \A s \in Enqueuing(p)' :
           pub[p].status = IF proc'[s].pc = "add" THEN "publishing" ELSE "queued"
  PROVE  RowAgrees(p)'
  BY DEF RowAgrees

\* The one place has just been left for nowhere, or for the row.
LEMMA RowAlone ==
  ASSUME NEW p, Batched(p)' = {}, Enqueuing(p)' = {}, Unsent(p)' = {}, Listening(p)' = {}
  PROVE  RowAgrees(p)'
  BY DEF RowAgrees

LEMMA RowClaim ==
  ASSUME CarrierInv, NEW p \in Pubs, Carriers(p) <= 1, RowAgrees(p), NEW s \in Schedulers, Claim(s)
  PROVE  RowAgrees(p)'
<1> USE DEF CarrierInv, JobInv
<1>1. PICK due \in SUBSET {q \in Pubs : Claimable(pub[q])} :
        /\ pub' = [q \in Pubs |-> IF q \in due THEN Claimed(pub[q]) ELSE pub[q]]
        /\ batch' = [batch EXCEPT ![s] = due]
  BY DEF Claim
<1>2. UNCHANGED <<att, proc, wk, handlers>> /\ batch[s] = {}
  BY DEF Claim
<1>3. Enqueuing(p)' = Enqueuing(p) /\ Unsent(p)' = Unsent(p) /\ Listening(p)' = Listening(p)
  BY <1>2, JobsFrame DEF Enqueuing, Listening
<1>4. CASE p \in due
  <2>1. Enqueuing(p) = {} /\ InFlight(p) = {} /\ Listening(p) = {}
    BY <1>4, OnePlace
  <2>2. Unsent(p) = {}
    BY <2>1 DEF Unsent
  <2>3. pub'[p].status = "queued"
    BY <1>1, <1>4 DEF Claimed, TypeInv, TypeOK, Rows
  <2>4. QED
    BY <1>3, <2>1, <2>2, <2>3 DEF RowAgrees
<1>5. CASE p \notin due
  <2>1. pub'[p] = pub[p] /\ Batched(p)' \subseteq Batched(p)
    BY <1>1, <1>2, <1>5 DEF Batched, TypeInv, TypeOK
  <2>2. \A t \in Enqueuing(p)' :
          pub[p].status = IF proc'[t].pc = "add" THEN "publishing" ELSE "queued"
    BY <1>2, <1>3 DEF RowAgrees
  <2>3. QED
    BY <1>3, <2>1, <2>2, RowFrame
<1>6. QED
  BY <1>4, <1>5

LEMMA RowNextClaimed ==
  ASSUME CarrierInv, NEW p \in Pubs, Carriers(p) <= 1, RowAgrees(p), faults' = faults,
         NEW s \in Schedulers, NextClaimed(s)
  PROVE  RowAgrees(p)'
<1> USE DEF CarrierInv, JobInv
<1>1. PICK q \in batch[s] : batch' = [batch EXCEPT ![s] = @ \ {q}] /\ ReadAndGate(s, q)
  BY DEF NextClaimed
<1>2. s \in Procs /\ q \in Pubs /\ UNCHANGED <<pub, att, wk, handlers>> /\ faults \in Nat
  BY <1>1 DEF NextClaimed, Procs, TypeInv, TypeOK
<1>3. /\ \A y \in Procs : y # s => proc'[y] = proc[y]
      /\ \/ pub[q].status = "publishing" /\ proc'[s].pc = "idle"
         \/ proc'[s].pc \in {"create", "blocked"} /\ proc'[s].pub = q
  BY <1>1, <1>2, GateEffect DEF Finished, ProcIdle
<1>4. Unsent(p)' = Unsent(p) /\ Listening(p)' = Listening(p) /\ Batched(p)' \subseteq Batched(p)
  BY <1>1, <1>2, JobsFrame DEF Listening, Batched, TypeInv, TypeOK
<1>5. \A t \in Enqueuing(p)' : t # s => t \in Enqueuing(p) /\ proc'[t] = proc[t]
  BY <1>3 DEF Enqueuing, Procs
<1>6. s \in Enqueuing(p)' => p = q /\ proc'[s].pc # "add"
  BY <1>3 DEF Enqueuing
<1>7. p = q => pub[p].status = "queued"
  BY <1>1 DEF Batched, RowAgrees
<1>8. \A t \in Enqueuing(p)' :
        pub[p].status = IF proc'[t].pc = "add" THEN "publishing" ELSE "queued"
  BY <1>5, <1>6, <1>7 DEF RowAgrees
<1>9. QED
  BY <1>2, <1>4, <1>8, RowFrame

\* The other steps of a scheduler that has a publication.
LEMMA RowEnqueue ==
  ASSUME CarrierInv, NEW p \in Pubs, Carriers(p) <= 1, RowAgrees(p), NEW s \in Schedulers,
         CreateAttempt(s) \/ MarkPublishing(s) \/ AddJob(s) \/ CatchEnqueue(s)
  PROVE  RowAgrees(p)'
<1> USE DEF CarrierInv, JobInv
<1>1. s \in Procs
  BY DEF Procs
<1>2. CASE CreateAttempt(s)
  <2>1. UNCHANGED <<pub, batch>> /\ ~IsArchive(proc[s].op)
    BY <1>2 DEF CreateAttempt, SchedulersPublish, IsArchive
  <2>2. \A t \in Enqueuing(p)' : t \in Enqueuing(p) /\ (proc'[t].pc = "add" <=> proc[t].pc = "add")
    BY <1>2, <2>1, CreateKeeps
  <2>3. \A t \in Enqueuing(p)' :
          pub[p].status = IF proc'[t].pc = "add" THEN "publishing" ELSE "queued"
    BY <2>2 DEF RowAgrees
  <2>4. Batched(p)' = Batched(p)
    BY <2>1 DEF Batched
  <2>5. QED
    BY <1>2, <2>1, <2>3, <2>4, CreateKeeps, RowFrame
<1>3. CASE MarkPublishing(s)
  <2>1. PICK q \in Pubs : Marks(s, q)
    BY <1>1, <1>3, MarkEffect
  <2>2. UNCHANGED <<att, batch, wk, handlers>> /\ proc[s].pc = "mark"
    BY <1>3 DEF MarkPublishing
  <2>3. Batched(p)' = Batched(p) /\ Unsent(p)' = Unsent(p) /\ Listening(p)' = Listening(p)
    BY <2>2, JobsFrame DEF Batched, Listening
  <2>4. CASE p = q
    <3>1. s \in Enqueuing(p)
      BY <2>1, <2>2, <2>4 DEF Enqueuing, Marks
    <3>2. \A t \in Enqueuing(p) : t = s
      BY <3>1, OnePlace
    <3>3. Batched(p) = {}
      BY <3>1, OnePlace
    <3>4. \A t \in Enqueuing(p)' : t = s
      BY <2>1, <3>2 DEF Enqueuing, Marks, Procs
    <3>5. pub'[p].status = "publishing" /\ proc'[s].pc = "add"
      BY <2>1, <2>4 DEF Marks
    <3>6. QED
      BY <2>3, <3>3, <3>4, <3>5 DEF RowAgrees
  <2>5. CASE p # q
    <3>1. pub'[p] = pub[p]
      BY <2>1, <2>5 DEF Marks
    <3>2. \A t \in Enqueuing(p)' : t \in Enqueuing(p) /\ proc'[t] = proc[t]
      BY <2>1, <2>5 DEF Enqueuing, Marks, Procs
    <3>3. \A t \in Enqueuing(p)' :
            pub[p].status = IF proc'[t].pc = "add" THEN "publishing" ELSE "queued"
      BY <3>2 DEF RowAgrees
    <3>4. QED
      BY <2>3, <3>1, <3>3, RowFrame
  <2>6. QED
    BY <2>4, <2>5
<1>4. CASE AddJob(s)
  <2>1. /\ UNCHANGED <<pub, batch, wk, handlers>> /\ proc[s].pc = "add"
        /\ att' = [att EXCEPT ![proc[s].att].job = Added(@)]
        /\ proc[s].pub \in Pubs
    BY <1>1, <1>4 DEF AddJob, TypeInv, References
  <2>2. proc'[s].pc = "idle" /\ \A y \in Procs : y # s => proc'[y] = proc[y]
    BY <1>1, <1>4, AddEnds DEF AddJob, IsArchive, Finished, ProcIdle, SchedulersPublish, TypeInv, TypeOK
  <2>3. /\ p = proc[s].pub \/ Unsent(p)' \subseteq Unsent(p)
        /\ \A b \in AttemptIds : SameAttempt(att'[b], att[b])
    BY <1>1, <2>1, JobEnters
  <2>4. p = proc[s].pub => pub[p].status = "publishing"
    BY <2>1 DEF RowAgrees, Enqueuing
  <2>5. Batched(p)' = Batched(p) /\ Listening(p)' = Listening(p)
    BY <2>1, <2>3, ListeningFrame DEF Batched
  <2>6. \A t \in Enqueuing(p)' : t \in Enqueuing(p) /\ proc'[t] = proc[t]
    BY <2>2 DEF Enqueuing, Procs
  <2>7. \A t \in Enqueuing(p)' :
          pub[p].status = IF proc'[t].pc = "add" THEN "publishing" ELSE "queued"
    BY <2>6 DEF RowAgrees
  <2>8. QED
    BY <2>1, <2>3, <2>4, <2>5, <2>7, RowFrame
<1>5. CASE CatchEnqueue(s)
  <2>1. /\ UNCHANGED <<att, batch, wk, handlers>>
        /\ proc[s].pub \in Pubs /\ proc[s].pc # "idle"
        /\ \A q \in Pubs : q # proc[s].pub => pub'[q] = pub[q]
        /\ proc'[s].pc = "idle" /\ \A y \in Procs : y # s => proc'[y] = proc[y]
    BY <1>1, <1>5 DEF CatchEnqueue, ProcIdle, TypeInv, TypeOK, References
  <2>2. Batched(p)' = Batched(p) /\ Unsent(p)' = Unsent(p) /\ Listening(p)' = Listening(p)
    BY <2>1, JobsFrame DEF Batched, Listening
  <2>3. \A t \in Enqueuing(p)' : t \in Enqueuing(p) /\ proc'[t] = proc[t] /\ t # s
    BY <2>1 DEF Enqueuing, Procs
  <2>4. CASE p = proc[s].pub
    <3>1. s \in Enqueuing(p)
      BY <2>1, <2>4 DEF Enqueuing
    <3>2. Batched(p) = {} /\ InFlight(p) = {} /\ Listening(p) = {} /\ \A t \in Enqueuing(p) : t = s
      BY <3>1, OnePlace
    <3>3. Unsent(p) = {}
      BY <3>2 DEF Unsent
    <3>4. Enqueuing(p)' = {}
      BY <2>3, <3>2
    <3>5. QED
      BY <2>2, <3>2, <3>3, <3>4, RowAlone
  <2>5. CASE p # proc[s].pub
    <3>1. \A t \in Enqueuing(p)' :
            pub[p].status = IF proc'[t].pc = "add" THEN "publishing" ELSE "queued"
      BY <2>3 DEF RowAgrees
    <3>2. QED
      BY <2>1, <2>2, <2>5, <3>1, RowFrame
  <2>6. QED
    BY <2>4, <2>5
<1>6. QED
  BY <1>2, <1>3, <1>4, <1>5

\* The job of a publication is its only carrier.
LEMMA JobAlone ==
  ASSUME CarrierInv, NEW w \in Workers, wk[w].pc # "idle", NEW p \in Pubs, Carriers(p) <= 1,
         p = att[wk[w].att].pub
  PROVE  /\ Batched(p) = {} /\ Enqueuing(p) = {} /\ Listening(p) = {}
         /\ \A b \in InFlight(p) : b = wk[w].att
  BY WorkerInFlight, OnePlace

LEMMA RowWorks ==
  ASSUME CarrierInv, NEW p \in Pubs, Carriers(p) <= 1, RowAgrees(p), NEW w \in Workers,
         TakeJob(w) \/ StartAttempt(w) \/ RecordAttempt(w) \/ RecordPublication(w)
           \/ FinishUnpublish(w)
  PROVE  RowAgrees(p)'
<1> USE DEF CarrierInv, JobInv
<1>1. /\ UNCHANGED <<batch, proc, handlers>>
      /\ InFlight(p)' = InFlight(p) /\ Unsent(p)' \subseteq Unsent(p)
      /\ Batched(p)' = Batched(p) /\ Enqueuing(p)' = Enqueuing(p)
      /\ Listening(p)' = Listening(p)
  BY WorksKeep
<1>2. CASE pub'[p] = pub[p]
  <2>1. \A t \in Enqueuing(p)' :
          pub[p].status = IF proc'[t].pc = "add" THEN "publishing" ELSE "queued"
    BY <1>1 DEF RowAgrees
  <2>2. QED
    BY <1>1, <1>2, <2>1, RowFrame
<1>3. CASE pub'[p] # pub[p]
  <2>1. RecordPublication(w) \/ FinishUnpublish(w)
    BY <1>3 DEF TakeJob, StartAttempt, RecordAttempt
  <2>2. p = att[wk[w].att].pub
    BY <1>3, <2>1, WorkerAttempt DEF RecordPublication, FinishUnpublish, TypeInv, TypeOK
  <2>3. wk[w].pc \in {"recorded", "finishing"}
    BY <2>1 DEF RecordPublication, FinishUnpublish
  <2>4. /\ Batched(p) = {} /\ Enqueuing(p) = {} /\ Listening(p) = {}
        /\ \A b \in InFlight(p) : b = wk[w].att
    BY <2>2, <2>3, JobAlone
  <2>5. Unsent(p) = {}
    BY <2>3, <2>4 DEF Unsent, Called
  <2>6. QED
    BY <1>1, <2>4, <2>5, RowAlone
<1>4. QED
  BY <1>2, <1>3

LEMMA RowLeaves ==
  ASSUME CarrierInv, NEW p \in Pubs, Carriers(p) <= 1, RowAgrees(p), NEW w \in Workers,
         CallPlatform(w) \/ CompleteJob(w) \/ FailTry(w), BullAttempts = 1, faults' = faults
  PROVE  RowAgrees(p)'
<1> USE DEF CarrierInv, JobInv
<1> DEFINE a == wk[w].att
<1>1. UNCHANGED <<pub, batch, proc>>
  BY DEF CallPlatform, CompleteJob, FailTry
<1>2. wk[w].pc # "idle" /\ a \in AttemptIds
  BY WorkerAttempt DEF CallPlatform, CompleteJob, FailTry
<1>3. Batched(p)' = Batched(p) /\ Enqueuing(p)' = Enqueuing(p)
  BY <1>1, HoldersFrame
<1>4. \A t \in Enqueuing(p)' :
        pub[p].status = IF proc'[t].pc = "add" THEN "publishing" ELSE "queued"
  BY <1>1, <1>3 DEF RowAgrees
<1>5. CASE CallPlatform(w)
  <2>1. UNCHANGED <<att, handlers>> /\ Moves(w, "started", "called")
    BY <1>5, WorkerEffects DEF CallPlatform
  <2>2. InFlight(p)' = InFlight(p) /\ Listening(p)' = Listening(p)
    BY <2>1 DEF InFlight, JobInFlight, Listening
  <2>3. \A b : Called(b) => Called(b)'
    BY <2>1 DEF Called, Moves
  <2>4. Unsent(p)' \subseteq Unsent(p)
    BY <2>2, <2>3 DEF Unsent
  <2>5. QED
    BY <1>1, <1>3, <1>4, <2>2, <2>4, RowFrame
<1>6. ASSUME Released(w) PROVE \A b \in AttemptIds : b # a /\ Called(b) => Called(b)'
  BY <1>6 DEF Called, Released
<1>7. CASE CompleteJob(w)
  <2>1. UNCHANGED handlers /\ JobBecomes(a, "done") /\ Released(w)
    BY <1>7, CompleteEffect DEF CompleteJob
  <2>2. Listening(p)' = Listening(p)
    BY <2>1, ListeningFrame DEF JobBecomes
  <2> HIDE DEF a
  <2>3. Unsent(p)' \subseteq Unsent(p)
    BY <1>2, <1>6, <2>1, JobLeaves
  <2>4. QED
    BY <1>1, <1>3, <1>4, <2>2, <2>3, RowFrame
<1>8. CASE FailTry(w)
  <2>1. faults \in Nat
    BY DEF TypeInv, TypeOK
  <2>2. /\ wk[w].pc \in {"loaded", "started"}
        /\ JobBecomes(a, "dead") /\ Released(w)
        /\ \E class \in {"transient", "permanent"} : handlers' = handlers \cup {NewHandler(a, class, w)}
    BY <1>8, <2>1, FailEffect
  <2>3. PICK class : handlers' = handlers \cup {NewHandler(a, class, w)}
    BY <2>2
  <2>4. a \in InFlight(att[a].pub) /\ ~Called(a)
    BY <1>2, <2>2, WorkerInFlight DEF Called
  <2> HIDE DEF a
  <2>5. Unsent(p)' \subseteq Unsent(p)
    BY <1>2, <1>6, <2>2, JobLeaves
  <2>6. p = att[a].pub => pub[p].status = "publishing"
    BY <2>4 DEF RowAgrees, Unsent
  <2>7. Listening(p)' # {} => Listening(p) # {} \/ p = att[a].pub
    <3>1. NewHandler(a, class, w).att = a
      BY DEF NewHandler
    <3>2. \A b \in AttemptIds : att'[b].pub = att[b].pub
      BY <2>2 DEF JobBecomes, SameAttempt
    <3>3. \A h \in handlers : h.att \in AttemptIds
      BY DEF TypeInv, TypeOK, HandlerStates
    <3>4. QED
      BY <1>2, <2>3, <3>1, <3>2, <3>3 DEF Listening
  <2>8. QED
    BY <1>1, <1>3, <1>4, <2>5, <2>6, <2>7, RowFrame
<1>9. QED
  BY <1>5, <1>7, <1>8

LEMMA RowListener ==
  ASSUME CarrierInv, NEW p \in Pubs, Carriers(p) <= 1, RowAgrees(p), NEW h \in handlers,
         HandlerStep(h)
  PROVE  RowAgrees(p)'
<1> USE DEF CarrierInv, JobInv
<1>1. h \in HandlerStates /\ h.att \in AttemptIds /\ att[h.att].pub \in Pubs
  BY DEF TypeInv, TypeOK, References, HandlerStates
<1>2. UNCHANGED <<batch, proc, wk>>
  BY DEF HandlerStep, FailedRead, FailedWrite
<1>3. JobsKept
  BY <1>1, StatusOnly DEF HandlerStep, FailedRead, FailedWrite, JobsKept, SameAttempt
<1>4. Batched(p)' = Batched(p) /\ Enqueuing(p)' = Enqueuing(p)
  BY <1>2, HoldersFrame
<1>5. Unsent(p)' \subseteq Unsent(p)
  <2>1. InFlight(p)' \subseteq InFlight(p)
    BY <1>3 DEF InFlight, JobInFlight, JobsKept, SameAttempt
  <2>2. \A b : Called(b)' <=> Called(b)
    BY <1>2 DEF Called
  <2>3. QED
    BY <2>1, <2>2 DEF Unsent
<1>6. \A t \in Enqueuing(p)' :
        pub[p].status = IF proc'[t].pc = "add" THEN "publishing" ELSE "queued"
  BY <1>2, <1>4 DEF RowAgrees
<1>7. \A g \in handlers : g.att \in AttemptIds /\ att'[g.att].pub = att[g.att].pub
  BY <1>3 DEF JobsKept, SameAttempt, TypeInv, TypeOK, HandlerStates
<1>8. CASE FailedRead(h)
  <2> DEFINE f == [h EXCEPT !.pc = "read", !.retries = pub[att[h.att].pub].retries]
  <2>1. f.att = h.att
    BY <1>1 DEF HandlerStates
  <2>2. UNCHANGED pub /\ handlers' = (handlers \ {h}) \cup {f}
    BY <1>8 DEF FailedRead
  <2> HIDE DEF f
  <2>3. Listening(p)' # {} => Listening(p) # {}
    BY <1>7, <2>1, <2>2 DEF Listening
  <2>4. QED
    BY <1>4, <1>5, <1>6, <2>2, <2>3, RowFrame
<1>9. CASE FailedWrite(h)
  <2>1. handlers' = handlers \ {h}
    BY <1>9 DEF FailedWrite
  <2>2. Listening(p)' \subseteq Listening(p) \ {h}
    BY <1>7, <2>1 DEF Listening
  <2>3. CASE p = att[h.att].pub
    <3>1. h \in Listening(p)
      BY <2>3 DEF Listening
    <3>2. /\ Batched(p) = {} /\ Enqueuing(p) = {} /\ InFlight(p) = {}
          /\ \A g \in Listening(p) : g = h
      BY <3>1, OnePlace
    <3>3. Unsent(p) = {}
      BY <3>2 DEF Unsent
    <3>4. QED
      BY <1>4, <1>5, <2>2, <3>2, <3>3, RowAlone
  <2>4. CASE p # att[h.att].pub
    <3>1. pub'[p] = pub[p]
      BY <1>1, <1>9, <2>4 DEF FailedWrite, TypeInv, TypeOK
    <3>2. QED
      BY <1>4, <1>5, <1>6, <2>2, <3>1, RowFrame
  <2>5. QED
    BY <2>3, <2>4
<1>10. QED
  BY <1>8, <1>9 DEF HandlerStep

\* The stalled-job check finds nothing while every worker lives.
LEMMA NothingStalls ==
  ASSUME JobInv, ActiveHasWorker, NEW w \in Workers, RecoverStalled(w) PROVE FALSE
  BY StalledEffect DEF JobInv, ActiveHasWorker

LEMMA RowNext ==
  ASSUME NoBullRetryNoOperator, CarrierInv, Calm, Calm', ActiveHasWorker, [Next]_vars,
         NEW p \in Pubs, RowAgrees(p)
  PROVE  RowAgrees(p)'
<1> USE DEF NoBullRetryNoOperator
<1>1. Carriers(p) <= 1 /\ faults' = faults /\ crashes' = crashes /\ crashes = 0 /\ faults = 0
  BY NoFaultOnePlace DEF Calm
<1>2. ASSUME NEW s \in Schedulers, SchedulerStep(s) \/ EnqueueError(s) \/ TickAborted(s)
      PROVE  RowAgrees(p)'
  <2>1. ~EnqueueError(s) /\ ~TickAborted(s)
    BY <1>1 DEF EnqueueError, Fault, TickAborted
  <2>2. QED
    BY <1>1, <1>2, <2>1, RowClaim, RowNextClaimed, RowEnqueue DEF SchedulerStep
<1>3. ASSUME NEW w \in Workers,
             TakeJob(w) \/ JobStep(w) \/ RecoverStalled(w) \/ WorkerCrash(w)
      PROVE  RowAgrees(p)'
  <2>1. ~WorkerCrash(w) /\ ~RecoverStalled(w)
    BY <1>1, NothingStalls DEF WorkerCrash, CarrierInv
  <2>2. QED
    BY <1>1, <1>3, <2>1, RowWorks, RowLeaves DEF JobStep
<1>4. ASSUME NEW a \in AttemptIds, DelayOver(a) PROVE RowAgrees(p)'
  <2>1. att[a].job.state = "delayed" /\ JobBecomes(a, "waiting")
    BY <1>4, DelayEffect DEF CarrierInv, JobInv
  <2>2. UNCHANGED <<pub, batch, proc, wk, handlers>>
    BY <1>4 DEF DelayOver
  <2>3. InFlight(p)' \subseteq InFlight(p)
    BY <2>1 DEF InFlight, JobInFlight, JobLive, JobBecomes, SameAttempt
  <2>4. \A b : Called(b)' <=> Called(b)
    BY <2>2 DEF Called
  <2>5. Unsent(p)' \subseteq Unsent(p)
    BY <2>3, <2>4 DEF Unsent
  <2>6. Batched(p)' = Batched(p) /\ Enqueuing(p)' = Enqueuing(p) /\ Listening(p)' = Listening(p)
    BY <2>1, <2>2, HoldersFrame, ListeningFrame DEF JobBecomes, CarrierInv
  <2>7. \A t \in Enqueuing(p)' :
          pub[p].status = IF proc'[t].pc = "add" THEN "publishing" ELSE "queued"
    BY <2>2, <2>6 DEF RowAgrees
  <2>8. QED
    BY <2>2, <2>5, <2>6, <2>7, RowFrame
<1>5. ASSUME UNCHANGED vars PROVE RowAgrees(p)'
  <2>1. UNCHANGED <<pub, att, batch, proc, wk, handlers>>
    BY <1>5 DEF vars
  <2>2. /\ Unsent(p)' = Unsent(p) /\ Listening(p)' = Listening(p)
        /\ Batched(p)' = Batched(p) /\ Enqueuing(p)' = Enqueuing(p)
    BY <2>1, JobsFrame, HoldersFrame DEF Listening
  <2>3. QED
    BY <2>1, <2>2 DEF RowAgrees
<1>6. QED
  BY <1>1, <1>2, <1>3, <1>4, <1>5, RowListener DEF Next

LEMMA ActiveHasWorkerNext ==
  ASSUME JobInv, ActiveHasWorker, crashes' = crashes, crashes \in Nat, [Next]_vars
  PROVE  ActiveHasWorker'
<1> USE DEF JobInv
<1>1. ASSUME UNCHANGED wk,
             \A b \in AttemptIds : att'[b].job.state = "active" => att[b].job.state = "active"
      PROVE  ActiveHasWorker'
  BY <1>1 DEF ActiveHasWorker
<1>2. ASSUME NEW x \in Procs, CreateAttempt(x) \/ AddJob(x) \/ EnqueueError(x)
      PROVE  ActiveHasWorker'
  <2>1. UNCHANGED wk
    BY <1>2 DEF CreateAttempt, AddJob, EnqueueError
  <2>2. CASE CreateAttempt(x)
    BY <1>1, <2>1, <2>2, CreateEffect DEF Creates
  <2>3. CASE proc[x].pc = "add" /\ att' = [att EXCEPT ![proc[x].att].job = Added(@)]
    BY <1>1, <2>1, <2>3, AddEffect
  <2>4. QED
    BY <1>1, <1>2, <2>1, <2>2, <2>3 DEF AddJob, EnqueueError
<1>3. ASSUME NEW w \in Workers, TakeJob(w) PROVE ActiveHasWorker'
  <2>1. PICK a \in AttemptIds :
          /\ JobBecomes(a, "active") /\ wk[w].pc = "idle" /\ wk'[w].att = a
          /\ \A v \in Workers : v # w => wk'[v] = wk[v]
    BY <1>3, TakeEffect
  <2>2. wk[w].att \notin AttemptIds
    BY <2>1, ConstantsAssumption DEF WorkerJobs
  <2>3. QED
    BY <2>1, <2>2 DEF ActiveHasWorker, JobBecomes
<1>4. ASSUME NEW w \in Workers, NEW from, NEW to, Moves(w, from, to),
             \A b \in AttemptIds : att'[b].job = att[b].job
      PROVE  ActiveHasWorker'
  BY <1>4 DEF Moves, ActiveHasWorker
<1>5. ASSUME NEW w \in Workers, NEW state \in {"done", "delayed", "dead"},
             JobBecomes(wk[w].att, state), Released(w)
      PROVE  ActiveHasWorker'
  BY <1>5 DEF JobBecomes, Released, ActiveHasWorker
<1>6. ASSUME NEW w \in Workers, JobStep(w) PROVE ActiveHasWorker'
  <2>1. CASE StartAttempt(w) \/ RecordAttempt(w)
    BY <1>4, <2>1, WorkerEffects DEF JobsKept
  <2>2. CASE CallPlatform(w) \/ RecordPublication(w) \/ FinishUnpublish(w)
    BY <1>4, <2>2, WorkerEffects DEF CallPlatform, RecordPublication, FinishUnpublish
  <2>3. CASE CompleteJob(w) \/ FailTry(w)
    BY <1>5, <2>3, CompleteEffect, FailEffect
  <2>4. QED
    BY <1>6, <2>1, <2>2, <2>3 DEF JobStep
<1>7. ASSUME NEW w \in Workers, WorkerCrash(w) PROVE FALSE
  BY <1>7 DEF WorkerCrash
<1>8. ASSUME NEW w \in Workers, RecoverStalled(w) PROVE FALSE
  BY <1>8, NothingStalls
<1>9. ASSUME NEW a \in AttemptIds, DelayOver(a) PROVE ActiveHasWorker'
  BY <1>1, <1>9, DelayEffect DEF JobBecomes, DelayOver
<1>10. ASSUME NEW h \in handlers, HandlerStep(h) PROVE ActiveHasWorker'
  <2>1. h.att \in AttemptIds
    BY DEF TypeInv, TypeOK, HandlerStates
  <2>2. UNCHANGED wk /\ JobsKept
    BY <1>10, <2>1, StatusOnly DEF HandlerStep, FailedRead, FailedWrite, JobsKept, SameAttempt
  <2>3. QED
    BY <1>1, <2>2 DEF JobsKept
<1>11. CASE UNCHANGED <<att, wk>>
  BY <1>1, <1>11
<1>12. ASSUME NEW s \in Schedulers, SchedulerStep(s) \/ EnqueueError(s) \/ TickAborted(s)
       PROVE  ActiveHasWorker'
  BY <1>2, <1>11, <1>12 DEF SchedulerStep, Claim, NextClaimed, MarkPublishing, CatchEnqueue,
                            TickAborted, Procs
<1>13. ASSUME NEW r \in Requests,
              RequestRead(r) \/ RequestStep(r) \/ EnqueueError(r) \/ RequestAborted(r)
       PROVE  ActiveHasWorker'
  BY <1>2, <1>11, <1>13 DEF RequestStep, RequestRead, RequestWrite, RequestEnqueue, MarkPublishing,
                            RequestThrows, ArchiveProject, RequestAborted, Procs
<1>14. QED
  BY <1>3, <1>6, <1>7, <1>8, <1>9, <1>10, <1>11, <1>12, <1>13 DEF Next, vars

LEMMA CalmInvNext ==
  ASSUME NoBullRetryNoOperator, CalmInv, [Next]_vars PROVE CalmInv'
<1>1. CarrierInv'
  BY CarrierInvNext DEF CalmInv
<1>2. CASE Calm'
  <2>1. crashes \in Nat /\ faults \in Nat /\ crashes' \in Nat /\ faults' \in Nat
    BY <1>1 DEF CalmInv, CarrierInv, JobInv, TypeInv, TypeOK
  <2>2. Calm /\ crashes' = crashes
    BY <1>2, <2>1, FaultsGrow, CrashesGrow DEF Calm
  <2>3. ActiveHasWorker'
    BY <2>1, <2>2, ActiveHasWorkerNext DEF CalmInv, CarrierInv
  <2>4. \A p \in Pubs : RowAgrees(p)'
    BY <1>2, <2>2, RowNext DEF CalmInv
  <2>5. QED
    BY <1>1, <2>3, <2>4 DEF CalmInv
<1>3. CASE ~Calm'
  BY <1>1, <1>3 DEF CalmInv
<1>4. QED
  BY <1>2, <1>3

LEMMA CalmInvInit ==
  ASSUME Init PROVE CalmInv
<1>1. CarrierInv
  BY CarrierInvInit
<1>2. ASSUME NEW p \in Pubs
      PROVE  Batched(p) = {} /\ Enqueuing(p) = {} /\ Unsent(p) = {} /\ Listening(p) = {}
  BY DEF Init, Batched, Enqueuing, Procs, ProcIdle, Unsent, InFlight, JobInFlight, JobLive,
         FreeAttempt, NoJob, Listening
<1>3. \A p \in Pubs : RowAgrees(p)
  BY <1>2 DEF RowAgrees
<1>4. ActiveHasWorker
  BY DEF Init, ActiveHasWorker, FreeAttempt, NoJob
<1>5. QED
  BY <1>1, <1>3, <1>4 DEF CalmInv

\* While nothing has failed, a call goes out to the platform only for a row
\* that says publishing: what enqueuePublication wrote before it added the job is
\* still there when processPublish calls, for any number of schedulers and workers.
THEOREM PostsWhilePublishing ==
  ASSUME NoBullRetryNoOperator PROVE Spec => PostsOnlyWhilePublishing
<1>1. Init => CalmInv
  BY CalmInvInit
<1>2. CalmInv /\ [Next]_vars => CalmInv'
  BY CalmInvNext
<1>3. CalmInv /\ [Next]_vars =>
        [Calm => \A p \in Pubs : posts'[p] # posts[p] => pub[p].status = "publishing"]_vars
  <2>1. SUFFICES ASSUME CalmInv, [Next]_vars, Calm, NEW p \in Pubs, posts'[p] # posts[p]
                 PROVE  pub[p].status = "publishing"
    OBVIOUS
  <2>2. TypeInv /\ JobInv /\ CarrierInv /\ RowAgrees(p)
    BY <2>1 DEF CalmInv, CarrierInv, JobInv
  <2>3. PICK w \in Workers : CallPlatform(w)
    BY <2>1, <2>2, OnlyCallsSend
  <2> DEFINE a == wk[w].att
  <2>4. wk[w].pc = "started" /\ a \in AttemptIds /\ att[a].pub \in Pubs
    BY <2>2, <2>3, WorkerAttempt DEF CallPlatform
  <2>5. p = att[a].pub
    BY <2>1, <2>2, <2>3, <2>4 DEF CallPlatform, TypeInv, TypeOK
  <2>6. a \in InFlight(p) /\ ~Called(a)
    BY <2>2, <2>4, <2>5, WorkerInFlight DEF Called
  <2>7. QED
    BY <2>2, <2>6 DEF RowAgrees, Unsent
<1>4. QED
  BY <1>1, <1>2, <1>3, PTL DEF Spec, PostsOnlyWhilePublishing

-----------------------------------------------------------------------------
(* Nobody drops a publication.  For every value of the constants: any number *)
(* of operators, schedulers and workers, retries inside BullMQ, and calls    *)
(* that throw.  Unpublishing is left out: its request queues the row before  *)
(* it asks the release gate, and a gate that is closed strands the row.      *)

NeverUnpublishes == "unpublish" \notin Operations

\* A scheduler will act on the queued row: publishing it, or giving it back.
Awaited(p) ==
  \E s \in Schedulers :
    \/ p \in batch[s]
    \/ proc[s].pub = p /\ proc[s].pc \in {"create", "mark", "blocked", "error"}

\* A worker has recorded the job's success and only has to tell BullMQ.
Recorded(a) == \E w \in Workers : wk[w].att = a /\ wk[w].pc = "finished"

\* The queue, a worker or a listener will move the publishing row on.
InHand(p) ==
  \/ \E a \in AttemptIds : att[a].pub = p /\ JobInFlight(a) /\ ~Recorded(a)
  \/ \E h \in handlers : att[h.att].pub = p

Carried(p) ==
  /\ pub[p].status = "queued" => Awaited(p)
  /\ pub[p].status = "publishing" =>
       \/ \E s \in Schedulers : proc[s].pub = p /\ proc[s].pc \in {"add", "error"}
       \/ InHand(p)

\* Schedulers enqueue what is to be published, requests only what an archived
\* project has up.
RolesKept ==
  /\ SchedulersPublish
  /\ \A r \in Requests :
       /\ proc[r].pc \notin {"mark", "enqueue"}
       /\ proc[r].pc = "create" => IsArchive(proc[r].op)
       /\ proc[r].pc = "write" => proc[r].op # "unpublish"

CarriedInv ==
  /\ JobInv /\ RolesKept
  /\ crashes = 0 => \A p \in Pubs : Carried(p)

\* A step keeps a publication in hand when its jobs stay in the queue, or leave
\* it to a listener, and no listener is forgotten.
LEMMA InHandFrame ==
  ASSUME JobInv, NEW p \in Pubs,
         \A b \in AttemptIds : att[b].pub = p => att'[b].pub = p,
         \A b \in AttemptIds : att[b].pub = p /\ JobInFlight(b) /\ ~Recorded(b) =>
           \/ JobInFlight(b)' /\ ~Recorded(b)'
           \/ \E g \in handlers' : g.att = b,
         \A h \in handlers : att[h.att].pub = p => \E g \in handlers' : g.att = h.att
  PROVE  InHand(p) => InHand(p)'
<1>1. ASSUME NEW b \in AttemptIds, att[b].pub = p, JobInFlight(b), ~Recorded(b) PROVE InHand(p)'
  <2>1. att'[b].pub = p
    BY <1>1
  <2>2. CASE JobInFlight(b)' /\ ~Recorded(b)'
    BY <2>1, <2>2 DEF InHand
  <2>3. CASE \E g \in handlers' : g.att = b
    BY <2>1, <2>3 DEF InHand
  <2>4. QED
    BY <1>1, <2>2, <2>3
<1>2. ASSUME NEW h \in handlers, att[h.att].pub = p PROVE InHand(p)'
  <2>1. PICK g \in handlers' : g.att = h.att
    BY <1>2
  <2>2. h.att \in AttemptIds
    BY DEF JobInv, TypeInv, TypeOK, HandlerStates
  <2>3. QED
    BY <1>2, <2>1, <2>2 DEF InHand
<1>3. QED
  BY <1>1, <1>2 DEF InHand

LEMMA InHandSame ==
  ASSUME NEW p, UNCHANGED <<att, wk, handlers>> PROVE InHand(p) => InHand(p)'
  BY DEF InHand, JobInFlight, Recorded

\* What a step may do to a row and to the schedulers that have it.
LEMMA CarriedFrame ==
  ASSUME NEW p \in Pubs, Carried(p), InHand(p) => InHand(p)',
         pub'[p].status = "queued" => pub[p].status = "queued",
         pub'[p].status = "publishing" => pub[p].status = "publishing",
         \A s \in Schedulers : p \in batch[s] => p \in batch'[s],
         \A s \in Schedulers : proc[s].pub = p /\ proc[s].pc # "idle" =>
           /\ proc'[s].pub = p
           /\ \/ proc'[s].pc = proc[s].pc
              \/ proc'[s].pc = "error"
              \/ proc[s].pc = "create" /\ proc'[s].pc = "mark"
  PROVE  Carried(p)'
  BY DEF Carried, Awaited

\* Create, add and the calls that throw, in whatever process.
LEMMA InHandEnqueue ==
  ASSUME JobInv, NEW x \in Procs, CreateAttempt(x) \/ AddJob(x) \/ EnqueueError(x), NEW p \in Pubs
  PROVE  InHand(p) => InHand(p)'
<1> USE DEF JobInv
<1>1. UNCHANGED <<wk, handlers>>
  BY DEF CreateAttempt, AddJob, EnqueueError
<1>2. \A b : Recorded(b)' <=> Recorded(b)
  BY <1>1 DEF Recorded
<1>3. ASSUME NEW a \in AttemptIds, \A b \in AttemptIds : b # a => att'[b] = att[b],
             ~JobInFlight(a), att[a].pub = p => att'[a].pub = p
      PROVE  InHand(p) => InHand(p)'
  <2>1. \A b \in AttemptIds : JobInFlight(b) => JobInFlight(b)'
    BY <1>3 DEF JobInFlight
  <2>2. QED
    BY <1>1, <1>2, <1>3, <2>1, InHandFrame
<1>4. CASE CreateAttempt(x)
  <2>1. PICK a \in AttemptIds : Creates(x, a)
    BY <1>4, CreateEffect
  <2>2. att[a].pub \notin Pubs
    BY <2>1, OwnedNotFree DEF Creates
  <2>3. ~JobInFlight(a)
    BY <2>2 DEF JobInFlight, JobLive, TypeInv, References
  <2>4. QED
    BY <1>3, <2>1, <2>2, <2>3 DEF Creates
<1>5. CASE proc[x].pc = "add" /\ att' = [att EXCEPT ![proc[x].att].job = Added(@)]
  <2> DEFINE a == proc[x].att
  <2>1. /\ a \in AttemptIds /\ att[a].job.state = "none"
        /\ \A b \in AttemptIds : SameAttempt(att'[b], att[b])
        /\ \A b \in AttemptIds : b # a => att'[b] = att[b]
    BY <1>5, AddEffect DEF ProcAttempts
  <2>2. ~JobInFlight(a)
    BY <2>1 DEF JobInFlight, JobLive
  <2> HIDE DEF a
  <2>3. QED
    BY <1>3, <2>1, <2>2 DEF SameAttempt
<1>6. CASE UNCHANGED att
  BY <1>1, <1>6, InHandSame
<1>7. QED
  BY <1>4, <1>5, <1>6 DEF AddJob, EnqueueError

LEMMA CarriedClaim ==
  ASSUME JobInv, NEW p \in Pubs, Carried(p), NEW s \in Schedulers, Claim(s)
  PROVE  Carried(p)'
<1>1. PICK due \in SUBSET {q \in Pubs : Claimable(pub[q])} :
        /\ pub' = [q \in Pubs |-> IF q \in due THEN Claimed(pub[q]) ELSE pub[q]]
        /\ batch' = [batch EXCEPT ![s] = due]
  BY DEF Claim
<1>2. batch[s] = {} /\ UNCHANGED <<att, proc, wk, handlers>>
  BY DEF Claim
<1>3. \A t \in Schedulers : batch[t] \subseteq batch'[t]
  BY <1>1, <1>2 DEF JobInv, TypeInv, TypeOK
<1>4. CASE p \in due
  <2>1. p \in batch'[s] /\ pub'[p].status = "queued"
    BY <1>1, <1>4 DEF Claimed, JobInv, TypeInv, TypeOK, Rows
  <2>2. QED
    BY <2>1 DEF Carried, Awaited
<1>5. CASE p \notin due
  <2>1. pub'[p] = pub[p]
    BY <1>1, <1>5
  <2>2. QED
    BY <1>2, <1>3, <2>1, InHandSame, CarriedFrame
<1>6. QED
  BY <1>4, <1>5

LEMMA CarriedNextClaimed ==
  ASSUME JobInv, NEW p \in Pubs, Carried(p), NEW s \in Schedulers, NextClaimed(s)
  PROVE  Carried(p)'
<1> USE DEF JobInv
<1>1. PICK q \in batch[s] : batch' = [batch EXCEPT ![s] = @ \ {q}] /\ ReadAndGate(s, q)
  BY DEF NextClaimed
<1>2. s \in Procs /\ q \in Pubs /\ UNCHANGED <<pub, att, wk, handlers>> /\ proc[s].pc = "idle"
  BY <1>1 DEF NextClaimed, Procs, TypeInv, TypeOK
<1>3. /\ \A y \in Procs : y # s => proc'[y] = proc[y]
      /\ \/ pub[q].status = "publishing" /\ proc'[s] = Finished(s)
         \/ proc'[s].pc \in {"create", "blocked", "error"} /\ proc'[s].pub = q
  BY <1>1, <1>2, GateEffect
<1>4. \A t \in Schedulers : p \in batch[t] => p \in batch'[t] \/ (t = s /\ p = q)
  BY <1>1 DEF TypeInv, TypeOK
<1>5. \A t \in Schedulers : proc[t].pub = p /\ proc[t].pc # "idle" => proc'[t] = proc[t]
  BY <1>2, <1>3 DEF Procs
<1>6. CASE p = q /\ pub[p].status = "queued"
  BY <1>2, <1>3, <1>6 DEF Carried, Awaited
<1>7. CASE p = q /\ pub[p].status # "queued"
  BY <1>2, <1>5, <1>7, InHandSame DEF Carried
<1>8. CASE p # q
  BY <1>2, <1>4, <1>5, <1>8, InHandSame, CarriedFrame
<1>9. QED
  BY <1>6, <1>7, <1>8

\* The writes and the queue call of an enqueue, and its catch clause.
LEMMA CarriedEnqueue ==
  ASSUME JobInv, RolesKept, NEW p \in Pubs, Carried(p), NEW s \in Schedulers,
         CreateAttempt(s) \/ MarkPublishing(s) \/ AddJob(s) \/ CatchEnqueue(s) \/ EnqueueError(s)
  PROVE  Carried(p)'
<1> USE DEF JobInv
<1>1. s \in Procs /\ UNCHANGED batch /\ proc[s].op = "publish"
  BY DEF Procs, CreateAttempt, MarkPublishing, AddJob, CatchEnqueue, EnqueueError,
         RolesKept, SchedulersPublish
<1>2. CASE CreateAttempt(s)
  <2>1. PICK a \in AttemptIds : Creates(s, a)
    BY <1>1, <1>2, CreateEffect
  <2>2. proc[s].pc = "create" /\ proc'[s].pc = "mark" /\ proc'[s].pub = proc[s].pub /\ UNCHANGED pub
    BY <1>1, <1>2, <2>1 DEF CreateAttempt, Creates, IsArchive
  <2>3. QED
    BY <1>1, <1>2, <2>1, <2>2, InHandEnqueue, CarriedFrame DEF Creates, Procs
<1>3. CASE MarkPublishing(s)
  <2>1. PICK q \in Pubs : Marks(s, q)
    BY <1>1, <1>3, MarkEffect
  <2>2. UNCHANGED <<att, wk, handlers>>
    BY <1>3 DEF MarkPublishing
  <2>3. CASE p = q
    BY <2>1, <2>3 DEF Marks, Carried
  <2>4. CASE p # q
    <3>1. pub'[p] = pub[p]
      BY <2>1, <2>4 DEF Marks
    <3>2. \A t \in Schedulers : proc[t].pub = p => proc'[t] = proc[t]
      BY <2>1, <2>4 DEF Marks, Procs
    <3>3. QED
      BY <1>1, <2>2, <3>1, <3>2, InHandSame, CarriedFrame
  <2>5. QED
    BY <2>3, <2>4
<1>4. ASSUME AddJob(s), NEW a, a = proc[s].att PROVE Carried(p)'
  <2>1. proc[s].pc = "add" /\ UNCHANGED <<pub, wk, handlers>>
    BY <1>4 DEF AddJob
  <2>2. /\ a \in AttemptIds /\ att'[a].job.state = "waiting"
        /\ SameAttempt(att'[a], att[a])
        /\ att[a].job.state = "none" /\ att[a].pub = proc[s].pub
    BY <1>1, <1>4, <2>1, AddEffect DEF AddJob, ProcAttempts
  <2>3. \A t \in Schedulers : t # s => proc'[t] = proc[t]
    BY <1>1, <1>4, AddEnds DEF Procs
  <2>4. \A w \in Workers : wk[w].pc # "idle" => wk[w].att # a
    BY <2>2 DEF WorkerJobs
  <2>10. ~Recorded(a)'
    BY <2>1, <2>4 DEF Recorded
  <2>5. p = proc[s].pub => InHand(p)'
    BY <2>2, <2>10 DEF InHand, JobInFlight, JobLive, SameAttempt
  <2>6. InHand(p) => InHand(p)'
    BY <1>1, <1>4, InHandEnqueue
  <2>7. CASE p = proc[s].pub
    <3>1. Awaited(p) => Awaited(p)'
      BY <1>1, <2>1, <2>3 DEF Awaited
    <3>2. QED
      BY <2>1, <2>5, <2>7, <3>1 DEF Carried
  <2>8. CASE p # proc[s].pub
    BY <1>1, <2>1, <2>3, <2>6, <2>8, CarriedFrame
  <2>9. QED
    BY <2>7, <2>8
<1>5. CASE CatchEnqueue(s)
  <2>1. /\ UNCHANGED <<att, wk, handlers>> /\ proc[s].pub \in Pubs
        /\ \A y \in Procs : y # s => proc'[y] = proc[y]
        /\ \A q \in Pubs : q # proc[s].pub => pub'[q] = pub[q]
    BY <1>1, <1>5 DEF CatchEnqueue, TypeInv, TypeOK, References
  <2>5. \A row \in Rows :
          ReleaseBlocked(row).status = "ready" /\ EnqueueFailed(row).status = "failed"
    BY DEF ReleaseBlocked, EnqueueFailed, Rows
  <2>6. pub'[proc[s].pub].status \in {"ready", "failed"}
    <3>1. pub \in [Pubs -> Rows] /\ pub[proc[s].pub] \in Rows
      BY <2>1 DEF TypeInv, TypeOK
    <3>2. QED
      BY <1>5, <2>1, <2>5, <3>1 DEF CatchEnqueue
  <2>2. CASE p = proc[s].pub
    BY <2>2, <2>6 DEF Carried
  <2>3. CASE p # proc[s].pub
    <3>1. \A t \in Schedulers : proc[t].pub = p => proc'[t] = proc[t]
      BY <2>1, <2>3 DEF Procs
    <3>2. pub'[p] = pub[p]
      BY <2>1, <2>3
    <3>3. QED
      BY <1>1, <2>1, <3>1, <3>2, InHandSame, CarriedFrame
  <2>4. QED
    BY <2>2, <2>3
<1>6. CASE EnqueueError(s)
  <2>1. UNCHANGED pub
    BY <1>6 DEF EnqueueError
  <2>2. \A t \in Schedulers : proc'[t] = proc[t] \/ (proc'[t].pc = "error" /\ proc'[t].pub = proc[t].pub)
    BY <1>1, <1>6, ErrorEffect DEF Procs
  <2>3. QED
    BY <1>1, <1>6, <2>1, <2>2, InHandEnqueue, CarriedFrame
<1>7. QED
  BY <1>2, <1>3, <1>4, <1>5, <1>6

\* Steps that leave the schedulers alone: the row keeps its status, or is settled.
LEMMA CarriedOthers ==
  ASSUME NEW p \in Pubs, Carried(p), InHand(p) => InHand(p)', UNCHANGED batch,
         \A s \in Schedulers : proc'[s] = proc[s],
         \/ pub'[p].status = pub[p].status
         \/ pub'[p].status \notin {"queued", "publishing"}
  PROVE  Carried(p)'
<1>1. CASE pub'[p].status = pub[p].status
  BY <1>1, CarriedFrame
<1>2. CASE pub'[p].status \notin {"queued", "publishing"}
  BY <1>2 DEF Carried
<1>3. QED
  BY <1>1, <1>2

\* A worker takes a job, or goes on with the one it has.
LEMMA InHandWorks ==
  ASSUME JobInv, NEW w \in Workers, NEW p \in Pubs,
         \/ TakeJob(w) \/ StartAttempt(w) \/ CallPlatform(w) \/ RecordAttempt(w)
         \/ CompleteJob(w)
  PROVE  InHand(p) => InHand(p)'
<1> USE DEF JobInv
<1>1. UNCHANGED handlers
  BY DEF TakeJob, StartAttempt, CallPlatform, RecordAttempt, CompleteJob
<1>2. ASSUME \A b \in AttemptIds : att'[b].pub = att[b].pub,
             \A b \in AttemptIds : JobInFlight(b) /\ ~Recorded(b) => JobInFlight(b)',
             \A v \in Workers : v # w => wk'[v] = wk[v], wk'[w].pc # "finished"
      PROVE  InHand(p) => InHand(p)'
  <2>1. \A b : Recorded(b)' => Recorded(b)
    BY <1>2 DEF Recorded
  <2>2. QED
    BY <1>1, <1>2, <2>1, InHandFrame
<1>3. CASE TakeJob(w)
  <2>1. PICK a \in AttemptIds :
          /\ JobBecomes(a, "active") /\ wk'[w].pc = "loaded"
          /\ \A v \in Workers : v # w => wk'[v] = wk[v]
    BY <1>3, TakeEffect
  <2>2. \A b \in AttemptIds : JobInFlight(b) => JobInFlight(b)'
    BY <2>1 DEF JobBecomes, JobInFlight, JobLive
  <2>3. QED
    BY <1>2, <2>1, <2>2 DEF JobBecomes, SameAttempt
<1>4. CASE StartAttempt(w) \/ CallPlatform(w) \/ RecordAttempt(w)
  <2>1. /\ \A v \in Workers : v # w => wk'[v] = wk[v]
        /\ wk'[w].pc \in {"started", "called", "recorded"}
    BY <1>4, WorkerEffects DEF Moves
  <2>2. JobsKept
    <3>1. CallPlatform(w) => JobsKept
      BY DEF CallPlatform, JobsKept, SameAttempt
    <3>2. QED
      BY <1>4, <3>1, WorkerEffects
  <2>3. QED
    BY <1>2, <2>1, <2>2 DEF JobsKept, SameAttempt, JobInFlight
<1>5. CASE CompleteJob(w)
  <2>1. wk[w].pc = "finished" /\ JobBecomes(wk[w].att, "done") /\ Released(w)
    BY <1>5, CompleteEffect
  <2>2. \A b \in AttemptIds : JobInFlight(b) /\ ~Recorded(b) => JobInFlight(b)'
    <3>1. Recorded(wk[w].att)
      BY <2>1 DEF Recorded
    <3>2. QED
      BY <2>1, <3>1 DEF JobBecomes, JobInFlight
  <2>3. QED
    BY <1>2, <2>1, <2>2 DEF JobBecomes, SameAttempt, Released, WorkerIdle
<1>6. QED
  BY <1>3, <1>4, <1>5

LEMMA ListenerAttempt == \A a, class, w : NewHandler(a, class, w).att = a
  BY DEF NewHandler

\* A job that fails, or is found dead, goes to a listener.
LEMMA InHandLeaves ==
  ASSUME JobInv, NEW w \in Workers, NEW p \in Pubs, FailTry(w) \/ RecoverStalled(w)
  PROVE  InHand(p) => InHand(p)'
<1> USE DEF JobInv
<1>1. ASSUME NEW a \in AttemptIds, NEW state, JobBecomes(a, state),
             \A b : Recorded(b)' => Recorded(b), handlers \subseteq handlers',
             (JobInFlight(a)' /\ ~Recorded(a)') \/ \E g \in handlers' : g.att = a
      PROVE  InHand(p) => InHand(p)'
  <2>1. \A b \in AttemptIds : att'[b].pub = att[b].pub
    BY <1>1 DEF JobBecomes, SameAttempt
  <2>2. \A b \in AttemptIds : b # a => (JobInFlight(b)' <=> JobInFlight(b))
    BY <1>1 DEF JobBecomes, JobInFlight
  <2>3. QED
    BY <1>1, <2>1, <2>2, InHandFrame
<1>2. CASE FailTry(w)
  <2>1. PICK class \in {"transient", "permanent"} :
          handlers' = handlers \cup {NewHandler(wk[w].att, class, w)}
    BY <1>2, FailEffect
  <2>2. wk[w].att \in AttemptIds /\ Released(w)
    BY <1>2, FailEffect, WorkerAttempt DEF FailTry
  <2>3. \A b : Recorded(b)' => Recorded(b)
    BY <2>2 DEF Recorded, Released, WorkerIdle
  <2>4. \E g \in handlers' : g.att = wk[w].att
    BY <2>1, ListenerAttempt
  <2>5. QED
    BY <1>1, <1>2, <2>1, <2>2, <2>3, <2>4, FailEffect
<1>3. CASE RecoverStalled(w)
  <2>1. PICK a \in AttemptIds :
          /\ \A v \in Workers : wk[v].att # a
          /\ \/ JobBecomes(a, "waiting") /\ handlers' = handlers
             \/ /\ JobBecomes(a, "dead")
                /\ handlers' = handlers \cup {NewHandler(a, "transient", w)}
    BY <1>3, StalledEffect
  <2>2. \A b : Recorded(b)' <=> Recorded(b)
    BY <1>3 DEF RecoverStalled, Recorded
  <2>3. ~Recorded(a)
    BY <2>1 DEF Recorded
  <2>4. CASE JobBecomes(a, "waiting") /\ handlers' = handlers
    <3>1. JobInFlight(a)'
      BY <2>4 DEF JobBecomes, JobInFlight, JobLive
    <3>2. QED
      BY <1>1, <2>2, <2>3, <2>4, <3>1
  <2>5. CASE JobBecomes(a, "dead") /\ handlers' = handlers \cup {NewHandler(a, "transient", w)}
    <3>1. \E g \in handlers' : g.att = a
      BY <2>5, ListenerAttempt
    <3>2. QED
      BY <1>1, <2>2, <2>5, <3>1
  <2>6. QED
    BY <2>1, <2>4, <2>5
<1>4. QED
  BY <1>2, <1>3

LEMMA InHandDelay ==
  ASSUME JobInv, NEW a \in AttemptIds, DelayOver(a), NEW p \in Pubs
  PROVE  InHand(p) => InHand(p)'
<1> USE DEF JobInv
<1>1. JobBecomes(a, "waiting") /\ UNCHANGED <<wk, handlers>>
  BY DelayEffect DEF DelayOver
<1>2. \A b \in AttemptIds : JobInFlight(b) => JobInFlight(b)'
  BY <1>1 DEF JobBecomes, JobInFlight, JobLive
<1>3. \A b : Recorded(b)' <=> Recorded(b)
  BY <1>1 DEF Recorded
<1>4. QED
  BY <1>1, <1>2, <1>3, InHandFrame DEF JobBecomes, SameAttempt

LEMMA CarriedWorker ==
  ASSUME JobInv, NEW p \in Pubs, Carried(p), NEW w \in Workers,
         TakeJob(w) \/ JobStep(w) \/ RecoverStalled(w)
  PROVE  Carried(p)'
<1> USE DEF JobInv
<1>1. UNCHANGED <<batch, proc>>
  BY DEF TakeJob, JobStep, RecoverStalled, StartAttempt, CallPlatform, RecordAttempt,
         RecordPublication, FinishUnpublish, CompleteJob, FailTry
<1>2. CASE TakeJob(w) \/ StartAttempt(w) \/ CallPlatform(w) \/ RecordAttempt(w) \/ CompleteJob(w)
  BY <1>1, <1>2, InHandWorks, CarriedOthers
     DEF TakeJob, StartAttempt, CallPlatform, RecordAttempt, CompleteJob
<1>3. CASE FailTry(w) \/ RecoverStalled(w)
  BY <1>1, <1>3, InHandLeaves, CarriedOthers DEF FailTry, RecoverStalled
<1>4. CASE RecordPublication(w) \/ FinishUnpublish(w)
  <2>1. wk[w].att \in AttemptIds /\ att[wk[w].att].pub \in Pubs /\ UNCHANGED <<att, handlers>>
    BY <1>4, WorkerAttempt DEF RecordPublication, FinishUnpublish
  <2> DEFINE q == att[wk[w].att].pub
  <2>2. /\ \A o \in Pubs : o # q => pub'[o] = pub[o]
        /\ pub'[q].status \in {"published", "unpublished"}
    <3>1. \A row \in Rows : \A seen, post :
            /\ Succeeded(row, seen, post).status \in {"published", "unpublished"}
            /\ UnpublishRecorded(row).status = "unpublished"
      BY DEF Succeeded, UnpublishRecorded, Rows
    <3>2. pub \in [Pubs -> Rows] /\ pub[q] \in Rows
      BY <2>1 DEF TypeInv, TypeOK
    <3>3. QED
      BY <1>4, <2>1, <3>1, <3>2 DEF RecordPublication, FinishUnpublish
  <2>3. CASE p = q
    BY <2>2, <2>3 DEF Carried
  <2>4. CASE p # q
    <3>1. \A v \in Workers : v # w => wk'[v] = wk[v]
      BY <1>4, WorkerEffects DEF Moves
    <3>2. wk'[w].att = wk[w].att
      BY <1>4, WorkerEffects DEF Moves
    <3>3. \A b \in AttemptIds : att[b].pub = p => (Recorded(b)' => Recorded(b))
      BY <2>4, <3>1, <3>2 DEF Recorded
    <3>4. InHand(p) => InHand(p)'
      BY <2>1, <3>3, InHandFrame DEF JobInFlight
    <3>5. QED
      BY <1>1, <2>2, <2>4, <3>4, CarriedOthers
  <2>5. QED
    BY <2>3, <2>4
<1>5. QED
  BY <1>2, <1>3, <1>4 DEF JobStep

\* A listener keeps its attempt until it has settled the row.
LEMMA CarriedListener ==
  ASSUME JobInv, NEW p \in Pubs, Carried(p), NEW h \in handlers, HandlerStep(h)
  PROVE  Carried(p)'
<1> USE DEF JobInv
<1>1. h \in HandlerStates /\ h.att \in AttemptIds /\ UNCHANGED <<batch, proc, wk>>
  BY DEF HandlerStep, FailedRead, FailedWrite, TypeInv, TypeOK, HandlerStates
<1>2. \A b : Recorded(b)' <=> Recorded(b)
  BY <1>1 DEF Recorded
<1>3. CASE FailedRead(h)
  <2> DEFINE g == [h EXCEPT !.pc = "read", !.retries = pub[att[h.att].pub].retries]
  <2>1. handlers' = (handlers \ {h}) \cup {g} /\ UNCHANGED pub /\ g.att = h.att
    BY <1>1, <1>3 DEF FailedRead, HandlerStates
  <2>2. JobsKept
    BY <1>1, <1>3, StatusOnly DEF FailedRead, JobsKept
  <2> HIDE DEF g
  <2>3. \A k \in handlers : \E l \in handlers' : l.att = k.att
    BY <2>1
  <2>4. InHand(p) => InHand(p)'
    BY <1>2, <2>2, <2>3, InHandFrame DEF JobsKept, SameAttempt, JobInFlight
  <2>5. QED
    BY <1>1, <2>1, <2>4, CarriedOthers
<1>4. CASE FailedWrite(h)
  <2> DEFINE q == att[h.att].pub
  <2>1. /\ UNCHANGED att /\ handlers' = handlers \ {h} /\ h.pc = "read"
        /\ pub' = [pub EXCEPT ![q] = AttemptFailed(@, h.retries, h.class, MaxRetries)]
    BY <1>4 DEF FailedWrite
  <2>2. CASE p = q
    <3>1. pub[q] \in Rows /\ pub \in [Pubs -> Rows]
      BY <2>2 DEF TypeInv, TypeOK
    <3>2. \A row \in Rows : \A n, class : AttemptFailed(row, n, class, MaxRetries).status = "failed"
      BY DEF AttemptFailed, Rows
    <3>3. pub'[p].status = "failed"
      BY <2>1, <2>2, <3>1, <3>2
    <3>4. QED
      BY <3>3 DEF Carried
  <2>3. CASE p # q
    <3>1. \A k \in handlers : att[k.att].pub = p => k \in handlers'
      BY <2>1, <2>3
    <3>2. InHand(p) => InHand(p)'
      BY <1>2, <2>1, <3>1, InHandFrame DEF JobInFlight
    <3>3. pub'[p] = pub[p]
      BY <2>1, <2>3 DEF TypeInv, TypeOK
    <3>4. QED
      BY <1>1, <3>2, <3>3, CarriedOthers
  <2>4. QED
    BY <2>2, <2>3
<1>5. QED
  BY <1>3, <1>4 DEF HandlerStep

\* What an operator's write leaves in the row is never queued.
LEMMA RequestSettles ==
  ASSUME TypeInv, RolesKept, NEW r \in Requests, RequestWrite(r), NEW p \in Pubs
  PROVE  pub'[p] = pub[p] \/ pub'[p].status \in {"scheduled", "canceled", "deleted"}
<1>1. r \in Procs /\ proc[r].pub \in Pubs /\ pub[proc[r].pub] \in Rows /\ pub \in [Pubs -> Rows]
  BY DEF Procs, RequestWrite, TypeInv, TypeOK, References
<1>2. proc[r].op \in EditOps /\ proc[r].op # "unpublish"
  BY <1>1 DEF RequestWrite, TypeInv, References, RolesKept
<1>3. \A row \in Rows : \A seen, dated :
        /\ Rescheduled(row, seen, dated).status = "scheduled"
        /\ Canceled(row).status = "canceled"
        /\ Retried(row).status = "scheduled"
        /\ Deleted(row).status = "deleted"
  BY DEF Rescheduled, Canceled, Retried, Deleted, Rows
<1>4. PICK row : /\ pub' = [pub EXCEPT ![proc[r].pub] = row]
                 /\ row.status \in {"scheduled", "canceled", "deleted"}
  <2> DEFINE row == pub[proc[r].pub]
             p0 == proc[r].pub
             seen == proc[r].seen
  <2>1. CASE proc[r].op \in {"reschedule", "patch"}
    <3> DEFINE dated == proc[r].op = "reschedule"
    <3>1. pub' = [pub EXCEPT ![p0] = Rescheduled(row, seen, dated)]
      BY <2>1 DEF RequestWrite
    <3>2. Rescheduled(row, seen, dated).status = "scheduled"
      BY <1>1, <1>3
    <3> DEFINE edited == Rescheduled(row, seen, dated)
    <3> HIDE DEF edited
    <3>3. QED
      BY <3>1, <3>2 DEF edited
  <2>2. CASE proc[r].op = "cancel"
    <3>1. pub' = [pub EXCEPT ![p0] = Canceled(row)]
      BY <2>2 DEF RequestWrite
    <3>2. QED
      BY <1>1, <1>3, <3>1
  <2>3. CASE proc[r].op = "retry"
    <3>1. pub' = [pub EXCEPT ![p0] = Retried(row)]
      BY <2>3 DEF RequestWrite
    <3>2. QED
      BY <1>1, <1>3, <3>1
  <2>4. CASE proc[r].op = "delete"
    <3>1. pub' = [pub EXCEPT ![p0] = Deleted(row)]
      BY <2>4 DEF RequestWrite
    <3>2. QED
      BY <1>1, <1>3, <3>1
  <2>5. QED
    BY <1>2, <2>1, <2>2, <2>3, <2>4 DEF EditOps
<1>5. QED
  BY <1>1, <1>4

LEMMA CarriedRequest ==
  ASSUME JobInv, RolesKept, NEW p \in Pubs, Carried(p), NEW r \in Requests,
         RequestRead(r) \/ RequestStep(r) \/ EnqueueError(r)
  PROVE  Carried(p)'
<1> USE DEF JobInv
<1>1. r \in Procs /\ \A s \in Schedulers : proc'[s] = proc[s]
  BY RequestAlone, ConstantsAssumption DEF Procs
<1>2. ~MarkPublishing(r) /\ ~RequestEnqueue(r)
  BY DEF RolesKept, MarkPublishing, RequestEnqueue
<1>3. CASE RequestRead(r) \/ RequestThrows(r) \/ ArchiveProject(r)
  BY <1>1, <1>3, InHandSame, CarriedOthers DEF RequestRead, RequestThrows, ArchiveProject
<1>4. CASE CreateAttempt(r) \/ AddJob(r) \/ EnqueueError(r)
  <2>1. UNCHANGED <<pub, batch>>
    BY <1>4 DEF CreateAttempt, AddJob, EnqueueError
  <2>2. QED
    BY <1>1, <1>4, <2>1, InHandEnqueue, CarriedOthers
<1>5. CASE RequestWrite(r)
  <2>1. UNCHANGED <<att, wk, handlers, batch>>
    BY <1>5 DEF RequestWrite
  <2>2. pub'[p].status = pub[p].status \/ pub'[p].status \notin {"queued", "publishing"}
    BY <1>5, RequestSettles
  <2>3. QED
    BY <1>1, <2>1, <2>2, InHandSame, CarriedOthers
<1>6. QED
  BY <1>2, <1>3, <1>4, <1>5 DEF RequestStep

LEMMA RolesKeptNext ==
  ASSUME NeverUnpublishes, TypeInv, RolesKept, [Next]_vars
  PROVE  RolesKept'
<1> DEFINE Role(y) == /\ proc[y].pc \notin {"mark", "enqueue"}
                      /\ proc[y].pc = "create" => IsArchive(proc[y].op)
                      /\ proc[y].pc = "write" => proc[y].op # "unpublish"
<1>1. SchedulersPublish'
  BY SchedulersPublishNext DEF RolesKept
<1>2. ASSUME NEW r \in Requests,
             RequestRead(r) \/ RequestStep(r) \/ EnqueueError(r) \/ RequestAborted(r)
      PROVE  Role(r)'
  <2>1. r \in Procs /\ Role(r) /\ proc[r] \in ProcStates /\ r \notin Schedulers
    BY ConstantsAssumption DEF Procs, RolesKept, TypeInv, TypeOK
  <2>2. CASE RequestRead(r)
    BY <2>1, <2>2 DEF RequestRead, NeverUnpublishes, TypeInv, TypeOK
  <2>3. CASE RequestWrite(r)
    <3>1. proc'[r] = ProcDone
      BY <2>1, <2>3 DEF RequestWrite, TypeInv, TypeOK
    <3>2. QED
      BY <3>1 DEF ProcDone, ProcIdle
  <2>4. CASE CreateAttempt(r)
    <3>1. proc'[r].pc = "add"
      BY <2>1, <2>4 DEF CreateAttempt, TypeInv, TypeOK, ProcStates
    <3>2. QED
      BY <3>1
  <2>5. CASE AddJob(r)
    BY <2>1, <2>5, AddEnds, FinishedType
  <2>6. CASE EnqueueError(r)
    BY <2>1, <2>6, ErrorEffect
  <2>7. CASE RequestThrows(r) \/ ArchiveProject(r) \/ RequestAborted(r)
    <3>1. proc'[r] = ProcDone
      BY <2>1, <2>7 DEF RequestThrows, ArchiveProject, RequestAborted, TypeInv, TypeOK
    <3>2. QED
      BY <3>1 DEF ProcDone, ProcIdle
  <2>8. ~MarkPublishing(r) /\ ~RequestEnqueue(r)
    BY <2>1 DEF MarkPublishing, RequestEnqueue
  <2>9. QED
    BY <1>2, <2>2, <2>3, <2>4, <2>5, <2>6, <2>7, <2>8 DEF RequestStep
<1>3. ASSUME NEW r \in Requests, proc'[r] = proc[r] PROVE Role(r)'
  BY <1>3 DEF RolesKept
<1>4. ASSUME NEW r \in Requests PROVE Role(r)'
  <2>1. ASSUME NEW s \in Schedulers, SchedulerStep(s) \/ EnqueueError(s) \/ TickAborted(s)
        PROVE  proc'[r] = proc[r]
    <3>1. r \in Procs /\ s \in Procs /\ r # s
      BY ConstantsAssumption DEF Procs
    <3>2. ASSUME NextClaimed(s) PROVE proc'[r] = proc[r]
      <4>1. PICK p \in Pubs : ReadAndGate(s, p)
        BY <3>2 DEF NextClaimed, TypeInv, TypeOK
      <4>2. QED
        BY <3>1, <4>1, GateEffect
    <3>3. QED
      BY <2>1, <3>1, <3>2 DEF SchedulerStep, Claim, CreateAttempt, MarkPublishing, AddJob,
                              CatchEnqueue, EnqueueError, TickAborted, TypeInv, TypeOK
  <2>2. ASSUME NEW q \in Requests,
               RequestRead(q) \/ RequestStep(q) \/ EnqueueError(q) \/ RequestAborted(q)
        PROVE  Role(r)'
    <3>1. r \in Procs
      BY DEF Procs
    <3>2. QED
      BY <1>2, <1>3, <2>2, <3>1, RequestAlone
  <2>3. CASE UNCHANGED proc
    BY <1>3, <2>3
  <2>4. QED
    BY <1>3, <2>1, <2>2, <2>3
       DEF Next, vars, TakeJob, JobStep, RecoverStalled, WorkerCrash, StartAttempt,
           CallPlatform, RecordAttempt, RecordPublication, FinishUnpublish, CompleteJob,
           FailTry, DelayOver, HandlerStep, FailedRead, FailedWrite
<1>5. QED
  BY <1>1, <1>4 DEF RolesKept

LEMMA CarriedInvInit == Init => CarriedInv
<1> SUFFICES ASSUME Init PROVE CarriedInv
  OBVIOUS
<1>1. JobInv
  BY JobInvInit
<1>2. RolesKept
  BY DEF Init, RolesKept, SchedulersPublish, Procs, ProcIdle
<1>3. \A p \in Pubs : pub[p].status \in {"draft", "scheduled"}
  BY DEF Init, CreatedRows, NewRow
<1>4. QED
  BY <1>1, <1>2, <1>3 DEF CarriedInv, Carried

LEMMA CarriedInvNext ==
  ASSUME NeverUnpublishes, CarriedInv, [Next]_vars PROVE CarriedInv'
<1> USE DEF CarriedInv
<1>1. JobInv' /\ RolesKept'
  BY JobInvNext, RolesKeptNext DEF JobInv
<1>2. ASSUME crashes' = 0, NEW p \in Pubs PROVE Carried(p)'
  <2>1. crashes = 0 /\ crashes' # crashes + 1
    BY <1>2, CrashesGrow DEF JobInv, TypeInv, TypeOK
  <2>2. Carried(p) /\ JobInv /\ RolesKept
    BY <2>1
  <2>3. ASSUME NEW s \in Schedulers, SchedulerStep(s) \/ EnqueueError(s) \/ TickAborted(s)
        PROVE  Carried(p)'
    <3>1. ~TickAborted(s)
      BY <2>1 DEF TickAborted
    <3>2. QED
      BY <2>2, <2>3, <3>1, CarriedClaim, CarriedNextClaimed, CarriedEnqueue DEF SchedulerStep
  <2>4. ASSUME NEW r \in Requests,
               RequestRead(r) \/ RequestStep(r) \/ EnqueueError(r) \/ RequestAborted(r)
        PROVE  Carried(p)'
    <3>1. ~RequestAborted(r)
      BY <2>1 DEF RequestAborted
    <3>2. QED
      BY <2>2, <2>4, <3>1, CarriedRequest
  <2>5. ASSUME NEW w \in Workers,
               TakeJob(w) \/ JobStep(w) \/ RecoverStalled(w) \/ WorkerCrash(w)
        PROVE  Carried(p)'
    <3>1. ~WorkerCrash(w)
      BY <2>1 DEF WorkerCrash
    <3>2. QED
      BY <2>2, <2>5, <3>1, CarriedWorker
  <2>6. ASSUME NEW a \in AttemptIds, DelayOver(a) PROVE Carried(p)'
    <3>1. UNCHANGED <<pub, batch, proc>>
      BY <2>6 DEF DelayOver
    <3>2. QED
      BY <2>2, <2>6, <3>1, InHandDelay, CarriedOthers
  <2>7. ASSUME NEW h \in handlers, HandlerStep(h) PROVE Carried(p)'
    BY <2>2, <2>7, CarriedListener
  <2>8. CASE UNCHANGED vars
    <3>1. UNCHANGED <<pub, batch, proc, att, wk, handlers>>
      BY <2>8 DEF vars
    <3>2. QED
      BY <2>2, <3>1, InHandSame, CarriedOthers
  <2>9. QED
    BY <2>3, <2>4, <2>5, <2>6, <2>7, <2>8 DEF Next
<1>3. QED
  BY <1>1, <1>2

\* While no process has died, a row that says queued or publishing has somebody
\* who will move it on, whatever the operators ask for (short of unpublishing),
\* however often BullMQ tries the job, and whatever calls have thrown: claim,
\* enqueue, catch clause, worker and listener hand it over without dropping it.
THEOREM NobodyStrands ==
  ASSUME NeverUnpublishes PROVE Spec => [](crashes = 0 => NotStranded)
<1>1. Init => CarriedInv
  BY CarriedInvInit
<1>2. CarriedInv /\ [Next]_vars => CarriedInv'
  BY CarriedInvNext
<1>3. CarriedInv => (crashes = 0 => NotStranded)
  <2>1. SUFFICES ASSUME CarriedInv, crashes = 0, NEW p \in Pubs,
                        pub[p].status \in {"queued", "publishing"}
                 PROVE  ~Quiet(p)
    BY DEF NotStranded
  <2>2. Carried(p) /\ JobInv
    BY <2>1 DEF CarriedInv
  <2>3. CASE Awaited(p) \/ \E s \in Schedulers : proc[s].pub = p /\ proc[s].pc \in {"add", "error"}
    BY <2>3 DEF Awaited, Quiet, HeldBy
  <2>4. CASE InHand(p)
    BY <2>4 DEF InHand, Quiet
  <2>5. QED
    BY <2>1, <2>2, <2>3, <2>4 DEF Carried
<1>4. QED
  BY <1>1, <1>2, <1>3, PTL DEF Spec

\* BullMQ's lock, as the model has it, holds for every value of the constants and
\* with every failure: a job is in at most one worker's hands, and the stalled-job
\* check never hands out a job whose worker is alive.
THEOREM OneWorkerPerJob == Spec => []WorkerJobs
<1>1. JobInv => WorkerJobs
  BY DEF JobInv
<1>2. QED
  BY <1>1, JobInvInit, JobInvNext, PTL DEF Spec
=============================================================================
