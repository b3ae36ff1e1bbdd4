------------------------------ MODULE Autopilot ------------------------------
(***************************************************************************)
(* The controllers of an autopilot project next to its content pipeline:   *)
(* the tick of the control worker and the recovery of an operator.  Both   *)
(* run the bounded repair cycle, approve what passes the strict gate and   *)
(* create the missing publications.  The policy is active, in mode         *)
(* autopilot, with every automatic step on and socialRequired off.         *)
(***************************************************************************)
EXTENDS ContentPipeline

CONSTANTS
  Ticks,          \* control workers
  Recoveries,     \* POST recover and the recovery script: one run each
  Channels,       \* channels the policy publishes to
  MaxRepairs,     \* maxRepairAttempts of the policy
  SlowRepairs     \* TRUE: a repair may take longer than its lock, 5 minutes

Controllers == Ticks \cup Recoveries

Operators == Procs \ Controllers

ASSUME AutopilotConstants ==
  /\ Controllers \subseteq Procs /\ Ticks \cap Recoveries = {}
  /\ MaxRepairs \in Nat /\ SlowRepairs \in BOOLEAN

VARIABLES
  ctl,   \* per controller: version under repair, channels still to create
  rows   \* publications of a version that are not deleted, per channel

vars == <<pipelineVars, ctl, rows>>

CtlIdle == [target |-> 0, missing |-> {}, created |-> FALSE]

AutopilotTypeOK ==
  /\ TypeOK
  /\ ctl \in [Controllers -> [target : Nat, missing : SUBSET Channels, created : BOOLEAN]]
  /\ rows \in [Versions -> [Channels -> Nat]]

Init == /\ PipelineInit
        /\ ctl = [x \in Controllers |-> CtlIdle]
        /\ rows = [v \in Versions |-> [c \in Channels |-> 0]]

\* evaluateAutonomousGate: the stored report without an error or a warning,
\* a body long enough, the image ready now.
GatePasses(status, report, body, hero) ==
  /\ status = "qa_passed"
  /\ Passed(report) /\ report.body.grade # "warned"
  /\ body.grade # "thin"
  /\ hero

SeenGatePasses(row, hero) == GatePasses(row.status, row.report, row.body, hero)

PipelineUnchanged == UNCHANGED <<image, textJob, imageJob, tw, sync, failures>>

-----------------------------------------------------------------------------
(* A controller looks at the project and chooses what to do *)

Snapshot(x, op, pc) ==
  proc' = [proc EXCEPT ![x] =
             [ProcIdle EXCEPT !.pc = pc, !.op = op, !.ver = Latest,
                              !.seen = IF Latest = 0 THEN NoVersion ELSE version[Latest],
                              !.hero = Latest # 0 /\ HeroReady(version[Latest].img)]]

\* advanceAutopilotProject: by the status of the latest version.
TickReads(x) ==
  /\ x \in Ticks /\ proc[x].pc = "idle"
  /\ IF Latest = 0 THEN Snapshot(x, "tick", "number")
     ELSE LET row == version[Latest] IN
       Snapshot(x, "tick",
         CASE row.status \in {"draft", "ai_generated"} -> "substate"
           [] row.status = "qa_failed" -> "repair"
           [] row.status = "qa_passed" ->
                IF SeenGatePasses(row, HeroReady(row.img)) THEN "approve" ELSE "repair"
           [] row.status = "approved" -> "ensure")
  /\ UNCHANGED <<project, version, revs, ctl, rows, passed>> /\ PipelineUnchanged

\* recoverStuckAutoProjects: by the status of the project.
RecoveryReads(x) ==
  /\ x \in Recoveries /\ proc[x].pc = "idle" /\ Latest # 0
  /\ LET row == version[Latest] IN
       \/ project.status = "qa_failed" /\ Snapshot(x, "recover_failed", "repair")
       \/ /\ project.status = "in_review"
          /\ Snapshot(x, "recover",
               IF SeenGatePasses(row, HeroReady(row.img)) THEN "approve" ELSE "repair")
       \/ project.status = "approved" /\ Snapshot(x, "recover", "ensure")
  /\ UNCHANGED <<project, version, revs, ctl, rows, passed>> /\ PipelineUnchanged

WriteWaiting(x) ==
  /\ proc[x].pc = "substate"
  /\ project' = [project EXCEPT !.sub = IF proc[x].hero THEN "qa_checking" ELSE "waiting_for_image"]
  /\ Goto(x, "end")
  /\ UNCHANGED <<version, revs, ctl, rows, passed>> /\ PipelineUnchanged

-----------------------------------------------------------------------------
(* runQualityRepairCycle *)

\* Faulty variant: off by one.
RepairReadsLate(x) ==
  /\ proc[x].pc = "repair"
  /\ LET row == version[Latest]
         hero == HeroReady(row.img)
     IN proc' = [proc EXCEPT ![x].seen = row, ![x].hero = hero,
                   ![x].pc = IF SeenGatePasses(row, hero) THEN "passed"
                             ELSE IF row.tries > MaxRepairs + 1 THEN "intervention" ELSE "claim"]
  /\ ctl' = [ctl EXCEPT ![x].target = Latest]
  /\ UNCHANGED <<project, version, revs, rows, passed>> /\ PipelineUnchanged

\* The cycle reads the latest version again and compares its attempts.
RepairReads(x) ==
  /\ proc[x].pc = "repair"
  /\ LET row == version[Latest]
         hero == HeroReady(row.img)
     IN proc' = [proc EXCEPT ![x].seen = row, ![x].hero = hero,
                   ![x].pc = IF SeenGatePasses(row, hero) THEN "passed"
                             ELSE IF row.tries >= MaxRepairs THEN "intervention" ELSE "claim"]
  /\ ctl' = [ctl EXCEPT ![x].target = Latest]
  /\ UNCHANGED <<project, version, revs, rows, passed>> /\ PipelineUnchanged

\* Faulty variant: the lock is written without its condition.
ClaimAnyway(x) ==
  /\ proc[x].pc = "claim"
  /\ version' = [version EXCEPT ![ctl[x].target].lock = "held"]
  /\ Goto(x, "plan")
  /\ UNCHANGED <<project, revs, ctl, rows, passed>> /\ PipelineUnchanged

\* One conditional update: only a free or expired lock is taken.
ClaimRepair(x) ==
  /\ proc[x].pc = "claim"
  /\ LET v == ctl[x].target IN
       IF version[v].lock = "held"
       THEN Goto(x, "end") /\ UNCHANGED version
       ELSE /\ version' = [version EXCEPT ![v].lock = "held"]
            /\ Goto(x, "plan")
  /\ UNCHANGED <<project, revs, ctl, rows, passed>> /\ PipelineUnchanged

\* buildRepairPlan, from the findings of the stored report.  A report whose
\* only findings are of the kinds no strategy repairs is not actionable.
Plan(x) ==
  /\ proc[x].pc = "plan"
  /\ LET seen == proc[x].seen IN
       \/ /\ seen.report.hero /\ seen.report.body.grade \in {"failing", "warned"}
          /\ Goto(x, "hopeless")
       \/ Goto(x, IF ~seen.report.hero /\ seen.img # None THEN "image" ELSE "rewrite")
  /\ UNCHANGED <<project, version, revs, ctl, rows, passed>> /\ PipelineUnchanged

Hopeless(x) ==
  /\ proc[x].pc = "hopeless"
  /\ project' = [project EXCEPT !.sub = "intervention_required"]
  /\ Goto(x, "give_up")
  /\ UNCHANGED <<version, revs, ctl, rows, passed>> /\ PipelineUnchanged

Unlocked(row) == [row EXCEPT !.lock = "free"]

\* The attempt counts, and the lock is given back.
GiveUp(x) ==
  /\ proc[x].pc = "give_up"
  /\ version' = [version EXCEPT ![ctl[x].target].lock = "free", ![ctl[x].target].tries = @ + 1]
  /\ Goto(x, "end")
  /\ UNCHANGED <<project, revs, ctl, rows, passed>> /\ PipelineUnchanged

\* The image is retried first; a refusal of the retry is swallowed.
RetryImage(x) ==
  /\ proc[x].pc = "image"
  /\ Goto(x, IF image[proc[x].seen.img].status \in {"failed", "retryable"}
             THEN "requeue" ELSE "rewrite")
  /\ UNCHANGED <<project, version, revs, ctl, rows, passed>> /\ PipelineUnchanged

\* Rules and language model rewrite the body that was read, or leave it.
Rewrite(x) ==
  /\ proc[x].pc = "rewrite"
  /\ \/ /\ proc[x].seen.report.body.grade \in {"failing", "warned"}
        /\ revs' = revs + 1
        /\ \E b \in NewBodies : proc' = [proc EXCEPT ![x].pc = "store", ![x].body = b]
     \/ /\ proc' = [proc EXCEPT ![x].pc = "store", ![x].body = proc[x].seen.body]
        /\ UNCHANGED revs
  /\ UNCHANGED <<project, version, ctl, rows, passed>> /\ PipelineUnchanged

StoreRepair(x) ==
  /\ proc[x].pc = "store"
  /\ version' = [version EXCEPT ![ctl[x].target].body = proc[x].body,
                                ![ctl[x].target].tries = @ + 1]
  /\ Goto(x, "fresh")
  /\ UNCHANGED <<project, revs, ctl, rows, passed>> /\ PipelineUnchanged

RepairRereads(x) ==
  /\ proc[x].pc = "fresh"
  /\ proc' = [proc EXCEPT ![x].pc = "judge", ![x].seen = version[ctl[x].target]]
  /\ UNCHANGED <<project, version, revs, ctl, rows, passed>> /\ PipelineUnchanged

\* The QA takes the image as it was when the cycle began.
RepairReport(x) == Qa(proc[x].seen.body, proc[x].hero)

JudgeRepair(x) ==
  /\ proc[x].pc = "judge"
  /\ version' = [version EXCEPT ![ctl[x].target] = Judged(Unlocked(@), RepairReport(x))]
  /\ Goto(x, "repaired")
  /\ passed' = passed \cup Noted(ctl[x].target, RepairReport(x))
  /\ UNCHANGED <<project, revs, ctl, rows>> /\ PipelineUnchanged

RepairedProject(x) ==
  /\ proc[x].pc = "repaired"
  /\ LET report == RepairReport(x) IN
       /\ project' = [status |-> Reviewed(report),
                      sub |-> IF Passed(report) THEN "qa_passed" ELSE "qa_repairing"]
       /\ Goto(x, IF GatePasses(IF Passed(report) THEN "qa_passed" ELSE "qa_failed",
                                report, proc[x].seen.body, proc[x].hero)
                  THEN "passed"
                  ELSE IF proc[x].seen.tries >= MaxRepairs THEN "exhausted" ELSE "end")
  /\ UNCHANGED <<version, revs, ctl, rows, passed>> /\ PipelineUnchanged

\* Called before the cycle and, once the attempts are used up, inside its try.
MarkIntervention(x) ==
  /\ proc[x].pc \in {"intervention", "exhausted"}
  /\ project' = [project EXCEPT !.sub = "intervention_required"]
  /\ Goto(x, "end")
  /\ UNCHANGED <<version, revs, ctl, rows, passed>> /\ PipelineUnchanged

\* The gate passed: the tick leaves the rest to the next one, the recovery of
\* a failed project approves the version it had read before the cycle.
RepairPassed(x) ==
  /\ proc[x].pc = "passed"
  /\ Goto(x, IF proc[x].op = "recover_failed" THEN "approve" ELSE "end")
  /\ UNCHANGED <<project, version, revs, ctl, rows, passed>> /\ PipelineUnchanged

Locked == {"hopeless", "give_up", "image", "requeue", "add_image", "rewrite",
           "store", "fresh", "judge"}

\* The catch clause: unlock, and count the attempt (again).  The try goes on
\* after the verdict gave the lock back; a throw there frees the lock of
\* whoever has taken it since.
RepairThrows(x) ==
  /\ proc[x].pc \in Locked \cup {"repaired", "exhausted"}
  /\ Fails("repair")
  /\ Goto(x, "give_up")
  /\ UNCHANGED <<project, version, image, textJob, imageJob, tw, sync, revs, passed, ctl, rows>>

RepairCycle(x) ==
  \/ RepairReads(x) \/ ClaimRepair(x) \/ Plan(x) \/ Hopeless(x) \/ GiveUp(x)
  \/ RetryImage(x) \/ Rewrite(x) \/ StoreRepair(x) \/ RepairRereads(x)
  \/ JudgeRepair(x) \/ RepairedProject(x) \/ MarkIntervention(x) \/ RepairPassed(x)

\* Five minutes pass: the lock of a dead controller, or of a slow one.
LockExpires ==
  /\ \E v \in Created :
       /\ version[v].lock = "held"
       /\ SlowRepairs \/ ~ \E x \in Controllers :
                             ctl[x].target = v /\ proc[x].pc \in Locked \cup {"plan"}
       /\ version' = [version EXCEPT ![v].lock = "expired"]
  /\ UNCHANGED <<project, proc, revs, ctl, rows, passed>> /\ PipelineUnchanged

\* The watchdog clears locks that expired another five minutes ago.
WatchdogReleases ==
  /\ \E v \in Created :
       /\ version[v].lock = "expired"
       /\ version' = [version EXCEPT ![v] = Unlocked(@)]
  /\ UNCHANGED <<project, proc, revs, ctl, rows, passed>> /\ PipelineUnchanged

-----------------------------------------------------------------------------
(* Approval and scheduling *)

WriteAutoApproved(x) ==
  /\ proc[x].pc = "approved"
  /\ project' = [project EXCEPT !.sub = "auto_approved"]
  /\ Goto(x, IF x \in Ticks THEN "end" ELSE "ensure")
  /\ UNCHANGED <<version, revs, ctl, rows, passed>> /\ PipelineUnchanged

\* Faulty variant: every channel, whatever exists.
FindNothing(x) ==
  /\ proc[x].pc = "ensure"
  /\ ctl' = [ctl EXCEPT ![x].missing = Channels, ![x].created = FALSE]
  /\ Goto(x, "create_rows")
  /\ UNCHANGED <<project, version, revs, rows, passed>> /\ PipelineUnchanged

\* Faulty variant: one publication of the version is taken for all.
FindAny(x) ==
  /\ proc[x].pc = "ensure"
  /\ ctl' = [ctl EXCEPT ![x].missing = IF \E c \in Channels : rows[proc[x].ver][c] > 0
                                        THEN {} ELSE Channels,
                        ![x].created = FALSE]
  /\ Goto(x, "create_rows")
  /\ UNCHANGED <<project, version, revs, rows, passed>> /\ PipelineUnchanged

\* ensureAutoPublications: the channels on which the version has no row yet ...
FindMissing(x) ==
  /\ proc[x].pc = "ensure"
  /\ ctl' = [ctl EXCEPT ![x].missing = {c \in Channels : rows[proc[x].ver][c] = 0},
                        ![x].created = FALSE]
  /\ Goto(x, "create_rows")
  /\ UNCHANGED <<project, version, revs, rows, passed>> /\ PipelineUnchanged

\* ... get one each, a statement at a time.
CreateRow(x) ==
  /\ proc[x].pc = "create_rows"
  /\ \E c \in ctl[x].missing :
       /\ rows' = [rows EXCEPT ![proc[x].ver][c] = @ + 1]
       /\ ctl' = [ctl EXCEPT ![x].missing = @ \ {c}, ![x].created = TRUE]
  /\ UNCHANGED <<project, version, proc, revs, passed>> /\ PipelineUnchanged

RowsCreated(x) ==
  /\ proc[x].pc = "create_rows" /\ ctl[x].missing = {}
  /\ project' = IF x \in Recoveries THEN project
                ELSE [project EXCEPT !.sub = IF ctl[x].created THEN "scheduled" ELSE "scheduling"]
  /\ Goto(x, "end")
  /\ UNCHANGED <<version, revs, ctl, rows, passed>> /\ PipelineUnchanged

\* The tick waits for the next interval; a recovery has answered.
ControllerEnds(x) ==
  /\ proc[x].pc = "end"
  /\ proc' = [proc EXCEPT ![x] = [ProcIdle EXCEPT !.pc = IF x \in Ticks THEN "idle" ELSE "done"]]
  /\ ctl' = [ctl EXCEPT ![x] = CtlIdle]
  /\ UNCHANGED <<project, version, revs, rows, passed>> /\ PipelineUnchanged

\* The process dies, or a call outside the catch clause throws.
ControllerDies(x) ==
  /\ proc[x].pc \notin {"idle", "done"}
  /\ Fails(IF proc[x].pc \in GenerationSteps THEN "generation" ELSE "controller")
  /\ proc' = [proc EXCEPT ![x] = [ProcIdle EXCEPT !.pc = IF x \in Ticks THEN "idle" ELSE "done"]]
  /\ ctl' = [ctl EXCEPT ![x] = CtlIdle]
  /\ UNCHANGED <<project, version, image, textJob, imageJob, tw, sync, revs, passed, rows>>

ControllerGoesOn(x) ==
  \/ RepairCycle(x) \/ WriteWaiting(x) \/ WriteAutoApproved(x) \/ FindMissing(x)
  \/ CreateRow(x) \/ RowsCreated(x) \/ ControllerEnds(x)
  \/ CallGoesOn(x) /\ UNCHANGED <<ctl, rows>>

-----------------------------------------------------------------------------
Next ==
  \/ Pipeline /\ UNCHANGED <<ctl, rows>>
  \/ \E x \in Controllers : \/ TickReads(x) \/ RecoveryReads(x) \/ ControllerGoesOn(x)
                            \/ RepairThrows(x) \/ ControllerDies(x)
  \/ \E x \in Operators : /\ RequestBegins(x) \/ CallGoesOn(x) \/ RequestEnds(x)
                          /\ UNCHANGED <<ctl, rows>>
  \/ LockExpires \/ WatchdogReleases

\* Workers, BullMQ, the interval of the tick and a request that was accepted go
\* on; requests and failures need not come.
Fairness ==
  /\ WF_vars(TextWorker /\ UNCHANGED <<ctl, rows>>)
  /\ WF_vars(ImageWorker /\ UNCHANGED <<ctl, rows>>)
  /\ \A l \in Listeners : WF_vars(Listener(l) /\ UNCHANGED <<ctl, rows>>)
  /\ WF_vars((DelayOver \/ RecoverStalled) /\ UNCHANGED <<ctl, rows>>)
  /\ WF_vars(LockExpires)
  /\ \A x \in Controllers : WF_vars(TickReads(x) \/ ControllerGoesOn(x))
  /\ \A x \in Operators : WF_vars(CallGoesOn(x) /\ UNCHANGED <<ctl, rows>>)

Spec == Init /\ [][Next]_vars
FairSpec == Spec /\ Fairness

-----------------------------------------------------------------------------
(* Properties *)

\* The repair lock: one controller repairs a version at a time, and one more for
\* each call that threw.  (One that throws after its verdict frees a lock that
\* is another's by then.)
OneRepairer ==
  \A v \in Created :
    Cardinality({x \in Controllers : ctl[x].target = v /\ proc[x].pc \in Locked \cup {"plan"}})
      <= 1 + failures

\* The attempts of a version: maxRepairAttempts, one more for each controller
\* that had read the version before, one more for each cycle that threw.
RepairBudget ==
  \A v \in Versions : version[v].tries <= MaxRepairs + (Cardinality(Controllers) - 1) + failures

\* The body that is approved is one that a QA passed, not one written since.  (It
\* is not, from the second repair on: see Autopilot_judged.cfg.)
ApprovedWasJudged ==
  \A v \in Versions : version[v].status = "approved" => <<v, version[v].body.rev>> \in passed

\* Whatever fails and whoever edits, nothing is approved that no QA has passed.
ApprovedPassedOnce ==
  \A v \in Versions : version[v].status = "approved" => \E rev \in 1..revs : <<v, rev>> \in passed

\* However often a tick is cut short, a version gets one publication per channel.
OnePublicationPerChannel == \A v \in Versions, c \in Channels : rows[v][c] <= 1

\* Once approved, a version keeps the body that was approved.
ApprovedBodyKept ==
  [][\A v \in Versions : version[v].status = "approved" =>
       version'[v].body = version[v].body]_vars

\* updateVersionContent: an approved version keeps its body and its status.
ApprovedIsImmutable ==
  [][\A v \in Versions : version[v].status = "approved" =>
       /\ version'[v].status = "approved"
       /\ version'[v].body = version[v].body]_vars

\* A version that passed has a stored hero image, whichever of the image
\* worker, its listeners, the repair and an edit wrote the verdict; and it
\* shows that one, unless another was asked for, which nothing forbids.
PassedHasHero ==
  \A v \in Versions : version[v].status \in {"qa_passed", "approved"} =>
    \E i \in Images : /\ image[i].of = v /\ image[i].hero
                      /\ version[v].img = i \/ \E j \in Images \ {i} : image[j].of = v

\* The autopilot brings the article to its publications or to an operator.
EventuallyDecided ==
  <>[](\/ Latest # 0 /\ version[Latest].status = "approved" /\ \A c \in Channels : rows[Latest][c] > 0
       \/ project.sub = "intervention_required")
=============================================================================
