--------------------------- MODULE ContentPipeline ---------------------------
(***************************************************************************)
(* How an article comes to be: a generation creates a version and queues   *)
(* its text; the text worker writes the body and asks for a hero image;    *)
(* the image worker stores the image and runs the QA; operators edit,      *)
(* regenerate, ask for another image, retry one and approve meanwhile.     *)
(* One project of origin "auto".                                           *)
(*                                                                         *)
(* A step is one database statement or one queue call; what was read       *)
(* before it is kept in the fields of the process that read it.            *)
(***************************************************************************)
EXTENDS Naturals, FiniteSets, BullQueue

CONSTANTS
  Procs,          \* requests of operators and, in Autopilot, the controllers
  Operations,     \* what the requests may ask for
  MaxVersions,    \* bound: versions of the project
  Images,         \* content_images rows
  ImageJobs,      \* BullMQ jobs of queue_image
  Listeners,      \* runs of the image worker's "failed" listener
  Grades,         \* the kinds of body a writer may produce
  BullAttempts,   \* WORKER_MAX_ATTEMPTS
  MaxStalls,      \* WORKER_MAX_STALLED_COUNT
  Failures,       \* what may fail: see AllFailures
  MaxFailures,    \* bound: how often
  None

\* What the rules make of a body: an error finding, a warning, nothing; or
\* nothing although the stricter gate of the autopilot finds it too short.
AllGrades == {"failing", "warned", "thin", "clean"}

\* A provider's answer to a worker, any other call of a worker, a call inside
\* the repair cycle, a worker's process, a controller's process: while it
\* starts a generation, and at any other moment.
AllFailures == {"provider", "database", "repair", "worker", "generation", "controller"}

ASSUME PipelineConstants ==
  /\ Operations \subseteq {"generate", "edit", "approve", "retry_image", "asset"}
  /\ MaxVersions \in Nat \ {0}
  /\ Grades \subseteq AllGrades /\ Grades # {}
  /\ BullAttempts \in Nat \ {0}
  /\ MaxStalls \in Nat
  /\ Failures \subseteq AllFailures /\ MaxFailures \in Nat
  /\ "worker" \notin Listeners
  /\ None \notin Images \cup ImageJobs

VARIABLES
  project,    \* the content_projects row: status and automationSubstate
  version,    \* content_versions rows by versionNumber
  image,      \* content_images rows
  textJob,    \* the BullMQ job that writes each version's text
  imageJob,   \* the BullMQ jobs of the images
  tw,         \* what the text worker is doing
  sync,       \* what the image worker and its listeners are doing
  proc,       \* what each request (and controller) is doing
  revs,       \* bodies written so far; each has a number of its own
  passed,     \* history: <<version, number of the body>> that some QA passed
  failures

pipelineVars == <<project, version, image, textJob, imageJob, tw, sync, proc,
                  revs, passed, failures>>

-----------------------------------------------------------------------------
(* Rows *)

Versions == 1..MaxVersions

NoBody == [rev |-> 0, grade |-> "none"]
Bodies == [rev : Nat, grade : AllGrades \cup {"none"}]

\* A QA report says what follows from the body and the image it looked at.
Reports == [body : Bodies, hero : BOOLEAN]
NoReport == [body |-> NoBody, hero |-> FALSE]

\* runVersionQaV2: image_ready is an error finding, like those of a bad body.
Qa(body, hero) == [body |-> body, hero |-> hero]

Passed(report) == report.hero /\ report.body.grade \in {"warned", "thin", "clean"}

VersionStatus == {"none", "draft", "ai_generated", "qa_passed", "qa_failed", "approved"}

VersionRows == [status : VersionStatus, body : Bodies, img : Images \cup {None},
                report : Reports, tries : Nat,
                lock : {"free", "held", "expired"}]

NoVersion == [status |-> "none", body |-> NoBody, img |-> None,
              report |-> NoReport, tries |-> 0, lock |-> "free"]

\* What has passed once this report is written.
Noted(v, report) == IF Passed(report) THEN {<<v, report.body.rev>>} ELSE {}

\* QA decides the status and leaves its report.
Judged(row, report) ==
  [row EXCEPT !.report = report,
              !.status = IF Passed(report) THEN "qa_passed" ELSE "qa_failed"]

ImageRows == [status : {"none", "queued", "processing", "done", "failed", "retryable"},
              hero : BOOLEAN, of : Nat]

\* "of" is the version the image was made for; the version may show another.
NoImage == [status |-> "none", hero |-> FALSE, of |-> 0]

QueuedFor(v) == [status |-> "queued", hero |-> FALSE, of |-> v]

ProjectStatus == {"draft", "ai_generated", "qa_failed", "in_review", "approved"}

Substates == {"none", "generating", "waiting_for_image", "qa_checking", "qa_passed",
              "qa_failed", "qa_repairing", "intervention_required", "auto_approved",
              "scheduling", "scheduled"}

Created == {v \in Versions : version[v].status # "none"}

\* The version with the highest number, 0 when there is none.
Latest == IF Created = {} THEN 0
          ELSE CHOOSE v \in Created : \A w \in Created : w <= v

\* isHeroImageReady of the image the version points to.
HeroReady(i) == i # None /\ image[i].status = "done" /\ image[i].hero

Reviewed(report) == IF Passed(report) THEN "in_review" ELSE "qa_failed"

-----------------------------------------------------------------------------
(* Processes *)

TextWorkerIdle == [pc |-> "idle", ver |-> 0, body |-> NoBody, img |-> None]

SyncIdle == [pc |-> "idle", job |-> None, img |-> None, ver |-> 0,
             body |-> NoBody, hero |-> FALSE]

ProcIdle == [pc |-> "idle", op |-> "none", ver |-> 0, seen |-> NoVersion,
             hero |-> FALSE, body |-> NoBody]

ImageProcs == Listeners \cup {"worker"}

TextSteps == {"idle", "generate", "read", "write", "status", "sub", "attach", "enqueue",
              "complete"}

SyncSteps == {"idle", "generate", "variants", "failed", "retryable", "read", "checking",
              "verdict", "status", "sub", "complete"}

\* The steps of requests, and those of the controllers of Autopilot.
ProcSteps == {"idle", "number", "create", "enqueue", "draft", "generating", "regenerating", "edit", "edited",
              "qa", "edit_status", "approve", "approve_project", "requeue", "add_image",
              "end", "done"}
             \cup {"substate", "repair", "claim", "plan", "hopeless", "give_up", "image",
                   "rewrite", "store", "fresh", "judge", "repaired", "exhausted", "passed",
                   "intervention", "approved", "ensure", "create_rows"}

ProcOps == {"none", "generate", "edit", "approve", "retry_image", "asset",
            "tick", "recover", "recover_failed"}

TypeOK ==
  /\ project \in [status : ProjectStatus, sub : Substates]
  /\ version \in [Versions -> VersionRows]
  /\ image \in [Images -> ImageRows]
  /\ textJob \in [Versions -> Jobs]
  /\ imageJob \in [ImageJobs -> [img : Images \cup {None}, job : Jobs]]
  /\ tw \in [pc : TextSteps, ver : Nat, body : Bodies, img : Images \cup {None}]
  /\ sync \in [ImageProcs -> [pc : SyncSteps, job : ImageJobs \cup {None},
                              img : Images \cup {None}, ver : Nat,
                              body : Bodies, hero : BOOLEAN]]
  /\ proc \in [Procs -> [pc : ProcSteps, op : ProcOps, ver : Nat, seen : VersionRows,
                         hero : BOOLEAN, body : Bodies]]
  /\ revs \in Nat /\ passed \subseteq Versions \X Nat /\ failures \in Nat

PipelineInit ==
  /\ project = [status |-> "draft", sub |-> "none"]
  /\ version = [v \in Versions |-> NoVersion]
  /\ image = [i \in Images |-> NoImage]
  /\ textJob = [v \in Versions |-> NoJob]
  /\ imageJob = [j \in ImageJobs |-> [img |-> None, job |-> NoJob]]
  /\ tw = TextWorkerIdle
  /\ sync = [p \in ImageProcs |-> SyncIdle]
  /\ proc = [x \in Procs |-> ProcIdle]
  /\ revs = 0 /\ passed = {} /\ failures = 0

Fails(kind) == kind \in Failures /\ failures < MaxFailures /\ failures' = failures + 1

\* What a writer may produce: a body of any grade, under a new number.
NewBodies == [rev : {revs + 1}, grade : Grades]

Goto(x, pc) == proc' = [proc EXCEPT ![x].pc = pc]

\* enqueueImageJob: a new BullMQ job for the image.
AddImageJob(i) ==
  LET free == {j \in ImageJobs : imageJob[j].job = NoJob} IN
    /\ free # {}
    /\ imageJob' = [imageJob EXCEPT ![CHOOSE j \in free : TRUE] =
                       [img |-> i, job |-> Added(NoJob)]]

-----------------------------------------------------------------------------
(* startProjectGeneration, for whoever calls it *)

\* createVersion reads the highest number (nobody asks beyond MaxVersions) ...
ReadLatestNumber(x) ==
  /\ proc[x].pc = "number"
  /\ proc' = [proc EXCEPT ![x].pc = IF Latest < MaxVersions THEN "create" ELSE "end",
                          ![x].ver = Latest + 1]
  /\ UNCHANGED <<project, version, image, textJob, imageJob, tw, sync, revs, passed, failures>>

\* ... and creates the next; a number taken since then throws (unique index).
CreateVersion(x) ==
  /\ proc[x].pc = "create"
  /\ LET v == proc[x].ver IN
       IF version[v].status = "none"
       THEN /\ version' = [version EXCEPT ![v] = [NoVersion EXCEPT !.status = "draft"]]
            /\ Goto(x, "enqueue")
       ELSE /\ Goto(x, "end")
            /\ UNCHANGED version
  /\ UNCHANGED <<project, image, textJob, imageJob, tw, sync, revs, passed, failures>>

EnqueueText(x) ==
  /\ proc[x].pc = "enqueue"
  /\ textJob' = [textJob EXCEPT ![proc[x].ver] = Added(@)]
  /\ Goto(x, "draft")
  /\ UNCHANGED <<project, version, image, imageJob, tw, sync, revs, passed, failures>>

ProjectDraft(x) ==
  /\ proc[x].pc = "draft"
  /\ project' = [project EXCEPT !.status = "draft"]
  /\ Goto(x, "generating")
  /\ UNCHANGED <<version, image, textJob, imageJob, tw, sync, revs, passed, failures>>

\* A tick writes the substate once more when the call has returned.
ProjectGenerating(x) ==
  /\ proc[x].pc \in {"generating", "regenerating"}
  /\ project' = [project EXCEPT !.sub = "generating"]
  /\ Goto(x, IF proc[x].pc = "generating" /\ proc[x].op = "tick" THEN "regenerating" ELSE "end")
  /\ UNCHANGED <<version, image, textJob, imageJob, tw, sync, revs, passed, failures>>

GenerationSteps == {"create", "enqueue", "draft", "generating", "regenerating"}

Generation(x) == \/ ReadLatestNumber(x) \/ CreateVersion(x) \/ EnqueueText(x)
                 \/ ProjectDraft(x) \/ ProjectGenerating(x)

-----------------------------------------------------------------------------
(* The text worker *)

TakeText ==
  /\ tw.pc = "idle"
  /\ \E v \in Versions :
       /\ textJob[v].state = "waiting"
       /\ textJob' = [textJob EXCEPT ![v] = Taken(@)]
       /\ tw' = [TextWorkerIdle EXCEPT !.pc = "generate", !.ver = v]
  /\ UNCHANGED <<project, version, image, imageJob, sync, proc, revs, passed, failures>>

\* The provider answers and the text row keeps the output.
GenerateText ==
  /\ tw.pc = "generate"
  /\ revs' = revs + 1
  /\ \E b \in NewBodies : tw' = [tw EXCEPT !.pc = "read", !.body = b]
  /\ UNCHANGED <<project, version, image, textJob, imageJob, sync, proc, passed, failures>>

\* syncTextResultToStudio reads the version, with the image it has ...
ReadVersionOfText ==
  /\ tw.pc = "read"
  /\ tw' = [tw EXCEPT !.pc = "write", !.img = version[tw.ver].img]
  /\ UNCHANGED <<project, version, image, textJob, imageJob, sync, proc, revs, passed, failures>>

\* ... writes the text over whatever the version has become ...
WriteText ==
  /\ tw.pc = "write"
  /\ version' = [version EXCEPT ![tw.ver].body = tw.body, ![tw.ver].status = "ai_generated"]
  /\ tw' = [tw EXCEPT !.pc = "status"]
  /\ UNCHANGED <<project, image, textJob, imageJob, sync, proc, revs, passed, failures>>

TextProjectStatus ==
  /\ tw.pc = "status"
  /\ project' = [project EXCEPT !.status = "ai_generated"]
  /\ tw' = [tw EXCEPT !.pc = "sub"]
  /\ UNCHANGED <<version, image, textJob, imageJob, sync, proc, revs, passed, failures>>

\* ... and asks for an image only if the version had none.
TextProjectSubstate ==
  /\ tw.pc = "sub"
  /\ project' = [project EXCEPT !.sub = "waiting_for_image"]
  /\ tw' = [tw EXCEPT !.pc = IF tw.img = None THEN "attach" ELSE "complete"]
  /\ UNCHANGED <<version, image, textJob, imageJob, sync, proc, revs, passed, failures>>

\* requestImageGenerationForVersion: the version shows the new image from now on.
NewImage(v, i) ==
  /\ image[i] = NoImage
  /\ image' = [image EXCEPT ![i] = QueuedFor(v)]
  /\ version' = [version EXCEPT ![v].img = i]

AttachImage ==
  /\ tw.pc = "attach"
  /\ \E i \in Images :
       /\ NewImage(tw.ver, i)
       /\ tw' = [tw EXCEPT !.pc = "enqueue", !.img = i]
  /\ UNCHANGED <<project, textJob, imageJob, sync, proc, revs, passed, failures>>

EnqueueImage ==
  /\ tw.pc = "enqueue"
  /\ AddImageJob(tw.img)
  /\ tw' = [tw EXCEPT !.pc = "complete"]
  /\ UNCHANGED <<project, version, image, textJob, sync, proc, revs, passed, failures>>

CompleteText ==
  /\ tw.pc = "complete"
  /\ textJob' = [textJob EXCEPT ![tw.ver] = Completed(@)]
  /\ tw' = TextWorkerIdle
  /\ UNCHANGED <<project, version, image, imageJob, sync, proc, revs, passed, failures>>

\* Anything the processor awaits throws; the listener only marks the text,
\* job and operation rows, which nothing in the pipeline reads.
FailText ==
  /\ tw.pc # "idle"
  /\ (tw.pc = "generate" /\ Fails("provider")) \/ Fails("database")
  /\ textJob' = [textJob EXCEPT ![tw.ver] = TryFailed(@, BullAttempts)]
  /\ tw' = TextWorkerIdle
  /\ UNCHANGED <<project, version, image, imageJob, sync, proc, revs, passed>>

TextWorker == \/ TakeText \/ GenerateText \/ ReadVersionOfText \/ WriteText
              \/ TextProjectStatus \/ TextProjectSubstate \/ AttachImage
              \/ EnqueueImage \/ CompleteText

-----------------------------------------------------------------------------
(* The image worker, and its "failed" listener, which ends in the same QA *)

SyncGoto(p, pc) == sync' = [sync EXCEPT ![p].pc = pc]

TakeImage ==
  /\ sync["worker"].pc = "idle"
  /\ \E j \in ImageJobs :
       /\ imageJob[j].job.state = "waiting"
       /\ imageJob' = [imageJob EXCEPT ![j].job = Taken(@)]
       /\ image' = [image EXCEPT ![imageJob[j].img].status = "processing"]
       /\ sync' = [sync EXCEPT !["worker"] =
                     [SyncIdle EXCEPT !.pc = "generate", !.job = j, !.img = imageJob[j].img]]
  /\ UNCHANGED <<project, version, textJob, tw, proc, revs, passed, failures>>

SaveImage ==
  /\ sync["worker"].pc = "generate"
  /\ image' = [image EXCEPT ![sync["worker"].img].status = "done"]
  /\ SyncGoto("worker", "variants")
  /\ UNCHANGED <<project, version, textJob, imageJob, tw, proc, revs, passed, failures>>

SaveVariants ==
  /\ sync["worker"].pc = "variants"
  /\ image' = [image EXCEPT ![sync["worker"].img].hero = TRUE]
  /\ SyncGoto("worker", "read")
  /\ UNCHANGED <<project, version, textJob, imageJob, tw, proc, revs, passed, failures>>

\* What the worker or a listener does after the QA.
Synced(p) == IF p = "worker" THEN SyncGoto(p, "complete") ELSE sync' = [sync EXCEPT ![p] = SyncIdle]

\* syncImageResultToStudio reads the image and the version that shows it; there
\* is none when an operator asked for another image since ...
ReadForQa(p) ==
  /\ sync[p].pc = "read"
  /\ \/ \E v \in Versions :
          /\ version[v].img = sync[p].img
          /\ sync' = [sync EXCEPT ![p].pc = "checking", ![p].ver = v,
                                  ![p].body = version[v].body,
                                  ![p].hero = HeroReady(sync[p].img)]
     \/ (\A v \in Versions : version[v].img # sync[p].img) /\ Synced(p)
  /\ UNCHANGED <<project, version, image, textJob, imageJob, tw, proc, revs, passed, failures>>

QaChecking(p) ==
  /\ sync[p].pc = "checking"
  /\ project' = [project EXCEPT !.sub = "qa_checking"]
  /\ SyncGoto(p, "verdict")
  /\ UNCHANGED <<version, image, textJob, imageJob, tw, proc, revs, passed, failures>>

\* Faulty variant: the verdict is saved with the rest of the row as read.
WriteQaWithRow(p) ==
  /\ sync[p].pc = "verdict"
  /\ version' = [version EXCEPT ![sync[p].ver] =
                   [Judged(@, Qa(sync[p].body, sync[p].hero)) EXCEPT !.body = sync[p].body]]
  /\ passed' = passed \cup Noted(sync[p].ver, Qa(sync[p].body, sync[p].hero))
  /\ SyncGoto(p, "status")
  /\ UNCHANGED <<project, image, textJob, imageJob, tw, proc, revs, failures>>

\* ... and writes the verdict on the body it read.
WriteQa(p) ==
  /\ sync[p].pc = "verdict"
  /\ version' = [version EXCEPT ![sync[p].ver] = Judged(@, Qa(sync[p].body, sync[p].hero))]
  /\ passed' = passed \cup Noted(sync[p].ver, Qa(sync[p].body, sync[p].hero))
  /\ SyncGoto(p, "status")
  /\ UNCHANGED <<project, image, textJob, imageJob, tw, proc, revs, failures>>

QaProjectStatus(p) ==
  /\ sync[p].pc = "status"
  /\ project' = [project EXCEPT !.status = Reviewed(Qa(sync[p].body, sync[p].hero))]
  /\ SyncGoto(p, "sub")
  /\ UNCHANGED <<version, image, textJob, imageJob, tw, proc, revs, passed, failures>>

QaProjectSubstate(p) ==
  /\ sync[p].pc = "sub"
  /\ project' = [project EXCEPT !.sub = IF Passed(Qa(sync[p].body, sync[p].hero))
                                        THEN "qa_passed" ELSE "qa_failed"]
  /\ Synced(p)
  /\ UNCHANGED <<version, image, textJob, imageJob, tw, proc, revs, passed, failures>>

CompleteImage ==
  /\ sync["worker"].pc = "complete"
  /\ imageJob' = [imageJob EXCEPT ![sync["worker"].job].job = Completed(@)]
  /\ sync' = [sync EXCEPT !["worker"] = SyncIdle]
  /\ UNCHANGED <<project, version, image, textJob, tw, proc, revs, passed, failures>>

\* A throw starts a listener; only a download failure is called retryable.
FailImage ==
  /\ sync["worker"].pc # "idle"
  /\ (sync["worker"].pc = "generate" /\ Fails("provider")) \/ Fails("database")
  /\ imageJob' = [imageJob EXCEPT ![sync["worker"].job].job = TryFailed(@, BullAttempts)]
  /\ \E l \in Listeners :
       /\ sync[l].pc = "idle"
       /\ \E pc \in IF sync["worker"].pc = "generate" THEN {"failed", "retryable"} ELSE {"failed"} :
            sync' = [sync EXCEPT !["worker"] = SyncIdle,
                                 ![l] = [SyncIdle EXCEPT !.pc = pc, !.img = sync["worker"].img]]
  /\ UNCHANGED <<project, version, image, textJob, tw, proc, revs, passed>>

MarkImageFailed(l) ==
  /\ sync[l].pc \in {"failed", "retryable"}
  /\ image' = [image EXCEPT ![sync[l].img].status = sync[l].pc]
  /\ sync' = [sync EXCEPT ![l] = IF sync[l].pc = "failed" THEN [@ EXCEPT !.pc = "read"] ELSE SyncIdle]
  /\ UNCHANGED <<project, version, textJob, imageJob, tw, proc, revs, passed, failures>>

ImageSync(p) == \/ ReadForQa(p) \/ QaChecking(p) \/ WriteQa(p)
                \/ QaProjectStatus(p) \/ QaProjectSubstate(p)

ImageWorker == TakeImage \/ SaveImage \/ SaveVariants \/ ImageSync("worker") \/ CompleteImage

Listener(l) == MarkImageFailed(l) \/ ImageSync(l)

-----------------------------------------------------------------------------
(* BullMQ and the death of workers *)

DelayOver ==
  \/ /\ \E v \in Versions : /\ textJob[v].state = "delayed"
                            /\ textJob' = [textJob EXCEPT ![v] = BackoffOver(@)]
     /\ UNCHANGED <<project, version, image, imageJob, tw, sync, proc, revs, passed, failures>>
  \/ /\ \E j \in ImageJobs : /\ imageJob[j].job.state = "delayed"
                             /\ imageJob' = [imageJob EXCEPT ![j].job = BackoffOver(@)]
     /\ UNCHANGED <<project, version, image, textJob, tw, sync, proc, revs, passed, failures>>

\* A worker dies; its job stays active until BullMQ misses its lock.
WorkerCrash ==
  /\ Fails("worker")
  /\ \/ tw.pc # "idle" /\ tw' = TextWorkerIdle /\ UNCHANGED sync
     \/ /\ sync["worker"].pc # "idle"
        /\ sync' = [sync EXCEPT !["worker"] = SyncIdle]
        /\ UNCHANGED tw
  /\ UNCHANGED <<project, version, image, textJob, imageJob, proc, revs, passed>>

RecoverStalled ==
  \/ /\ \E v \in Versions :
          /\ textJob[v].state = "active" /\ (tw.pc = "idle" \/ tw.ver # v)
          /\ textJob' = [textJob EXCEPT ![v] = Stalled(@, MaxStalls)]
     /\ UNCHANGED <<project, version, image, imageJob, tw, sync, proc, revs, passed, failures>>
  \/ /\ \E j \in ImageJobs :
          /\ imageJob[j].job.state = "active" /\ sync["worker"].job # j
          /\ imageJob' = [imageJob EXCEPT ![j].job = Stalled(@, MaxStalls)]
     /\ UNCHANGED <<project, version, image, textJob, tw, sync, proc, revs, passed, failures>>

-----------------------------------------------------------------------------
(* Requests of operators *)

RequestEnds(x) ==
  /\ proc[x].pc = "end"
  /\ proc' = [proc EXCEPT ![x] = [ProcIdle EXCEPT !.pc = "done"]]
  /\ UNCHANGED <<project, version, image, textJob, imageJob, tw, sync, revs, passed, failures>>

RequestGenerate(x) ==
  /\ proc[x].pc = "idle" /\ "generate" \in Operations
  /\ proc' = [proc EXCEPT ![x].pc = "number", ![x].op = "generate"]
  /\ UNCHANGED <<project, version, image, textJob, imageJob, tw, sync, revs, passed, failures>>

\* updateVersionContent refuses a version that is approved when it reads it.
EditRead(x) ==
  /\ proc[x].pc = "idle" /\ "edit" \in Operations
  /\ \E v \in Created :
       /\ version[v].status # "approved"
       /\ proc' = [proc EXCEPT ![x].pc = "edit", ![x].op = "edit", ![x].ver = v]
  /\ UNCHANGED <<project, version, image, textJob, imageJob, tw, sync, revs, passed, failures>>

EditWrite(x) ==
  /\ proc[x].pc = "edit"
  /\ revs' = revs + 1
  /\ \E b \in NewBodies :
       /\ version' = [version EXCEPT ![proc[x].ver].body = b]
       /\ proc' = [proc EXCEPT ![x].pc = "edited", ![x].body = b]
  /\ UNCHANGED <<project, image, textJob, imageJob, tw, sync, passed, failures>>

\* Faulty variant: the look at the image is taken for granted.
EditAssumesImage(x) ==
  /\ proc[x].pc = "edited"
  /\ proc' = [proc EXCEPT ![x].pc = IF Latest = proc[x].ver THEN "qa" ELSE "end", ![x].hero = TRUE]
  /\ UNCHANGED <<project, version, image, textJob, imageJob, tw, sync, revs, passed, failures>>

\* The QA runs on what was written, with the image the project then shows.
EditReadProject(x) ==
  /\ proc[x].pc = "edited"
  /\ proc' = [proc EXCEPT ![x].pc = IF Latest = proc[x].ver THEN "qa" ELSE "end",
                          ![x].hero = HeroReady(version[proc[x].ver].img)]
  /\ UNCHANGED <<project, version, image, textJob, imageJob, tw, sync, revs, passed, failures>>

EditQa(x) ==
  /\ proc[x].pc = "qa"
  /\ version' = [version EXCEPT ![proc[x].ver] = Judged(@, Qa(proc[x].body, proc[x].hero))]
  /\ passed' = passed \cup Noted(proc[x].ver, Qa(proc[x].body, proc[x].hero))
  /\ Goto(x, "edit_status")
  /\ UNCHANGED <<project, image, textJob, imageJob, tw, sync, revs, failures>>

EditProjectStatus(x) ==
  /\ proc[x].pc = "edit_status"
  /\ project' = [project EXCEPT !.status = Reviewed(Qa(proc[x].body, proc[x].hero))]
  /\ Goto(x, "end")
  /\ UNCHANGED <<version, image, textJob, imageJob, tw, sync, revs, passed, failures>>

\* Faulty variant: any version with an image may be approved.
ApproveAnyStatus(x) ==
  /\ proc[x].pc = "idle" /\ "approve" \in Operations
  /\ Latest # 0 /\ HeroReady(version[Latest].img)
  /\ proc' = [proc EXCEPT ![x].pc = "approve", ![x].op = "approve", ![x].ver = Latest]
  /\ UNCHANGED <<project, version, image, textJob, imageJob, tw, sync, revs, passed, failures>>

\* POST approve: the review gate asks for a passed QA and a ready image.
ApproveRead(x) ==
  /\ proc[x].pc = "idle" /\ "approve" \in Operations
  /\ Latest # 0
  /\ version[Latest].status = "qa_passed" /\ Passed(version[Latest].report)
  /\ HeroReady(version[Latest].img)
  /\ proc' = [proc EXCEPT ![x].pc = "approve", ![x].op = "approve", ![x].ver = Latest]
  /\ UNCHANGED <<project, version, image, textJob, imageJob, tw, sync, revs, passed, failures>>

\* approveVersion, for whoever calls it: two statements.
ApproveVersion(x) ==
  /\ proc[x].pc = "approve"
  /\ version' = [version EXCEPT ![proc[x].ver].status = "approved"]
  /\ Goto(x, "approve_project")
  /\ UNCHANGED <<project, image, textJob, imageJob, tw, sync, revs, passed, failures>>

ApproveProject(x) ==
  /\ proc[x].pc = "approve_project"
  /\ project' = [project EXCEPT !.status = "approved"]
  /\ Goto(x, IF proc[x].op = "approve" THEN "end" ELSE "approved")
  /\ UNCHANGED <<version, image, textJob, imageJob, tw, sync, revs, passed, failures>>

\* retryImageGeneration refuses an image that is neither failed nor retryable.
RetryImageRead(x) ==
  /\ proc[x].pc = "idle" /\ "retry_image" \in Operations
  /\ \E i \in Images :
       /\ image[i].status \in {"failed", "retryable"}
       /\ proc' = [proc EXCEPT ![x].pc = "requeue", ![x].op = "retry_image", ![x].seen.img = i]
  /\ UNCHANGED <<project, version, image, textJob, imageJob, tw, sync, revs, passed, failures>>

\* POST /v2/assets/generate: a new image for any version, also one that passed.
AssetRequest(x) ==
  /\ proc[x].pc = "idle" /\ "asset" \in Operations
  /\ \E v \in Created, i \in Images :
       /\ NewImage(v, i)
       /\ proc' = [proc EXCEPT ![x].pc = "add_image", ![x].op = "asset", ![x].seen.img = i]
  /\ UNCHANGED <<project, textJob, imageJob, tw, sync, revs, passed, failures>>

RequeueImage(x) ==
  /\ proc[x].pc = "requeue"
  /\ image' = [image EXCEPT ![proc[x].seen.img].status = "queued"]
  /\ Goto(x, "add_image")
  /\ UNCHANGED <<project, version, textJob, imageJob, tw, sync, revs, passed, failures>>

RequeueImageJob(x) ==
  /\ proc[x].pc = "add_image"
  /\ AddImageJob(proc[x].seen.img)
  /\ Goto(x, IF proc[x].op \in {"retry_image", "asset"} THEN "end" ELSE "rewrite")
  /\ UNCHANGED <<project, version, image, textJob, tw, sync, revs, passed, failures>>

RequestBegins(x) == \/ RequestGenerate(x) \/ EditRead(x) \/ ApproveRead(x)
                    \/ RetryImageRead(x) \/ AssetRequest(x)

\* The steps a call goes on with once begun, whoever made it.
CallGoesOn(x) == \/ Generation(x) \/ EditWrite(x) \/ EditReadProject(x) \/ EditQa(x)
                 \/ EditProjectStatus(x) \/ ApproveVersion(x) \/ ApproveProject(x)
                 \/ RequeueImage(x) \/ RequeueImageJob(x)

Pipeline == \/ TextWorker \/ FailText
            \/ ImageWorker \/ FailImage \/ (\E l \in Listeners : Listener(l))
            \/ DelayOver \/ WorkerCrash \/ RecoverStalled
=============================================================================
