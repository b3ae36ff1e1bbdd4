---------------------------- MODULE AutopilotProofs ----------------------------
(***************************************************************************)
(* Theorems of Autopilot and of the pipeline it controls, for every value  *)
(* of their constants.                                                     *)
(***************************************************************************)
EXTENDS Autopilot, TLAPS, WellFoundedInduction, FiniteSetTheorems

-----------------------------------------------------------------------------
(* The highest version *)

\* A set of version numbers that is not empty has a highest one.
LEMMA HighestVersion ==
  ASSUME NEW T \in SUBSET Versions, T # {}
  PROVE  \E v \in T : \A u \in T : u <= v
<1> DEFINE R == OpToRel(<, Nat)
           S == {MaxVersions - v : v \in T}
<1>1. \A v \in T : v \in Nat /\ v <= MaxVersions
  BY PipelineConstants DEF Versions
<1>2. S \subseteq Nat /\ S # {}
  BY <1>1, PipelineConstants
<1>3. PICK m \in S : \A n \in S : ~ (<<n, m>> \in R)
  <2> HIDE DEF R, S
  <2>1. IsWellFoundedOn(R, Nat)
    BY NatLessThanWellFounded DEF R
  <2>2. QED
    BY <1>2, <2>1, WFMin
<1>4. \A n \in S : ~ (n < m)
  BY <1>2, <1>3 DEF OpToRel
<1>5. PICK v \in T : m = MaxVersions - v
  OBVIOUS
<1>6. ASSUME NEW u \in T PROVE u <= v
  <2>1. MaxVersions - u \in S /\ u \in Nat /\ v \in Nat /\ MaxVersions \in Nat
    BY <1>1, <1>6, PipelineConstants
  <2>2. ~ (MaxVersions - u < MaxVersions - v)
    BY <1>4, <1>5, <2>1
  <2> HIDE DEF R, S
  <2>3. QED
    BY <2>1, <2>2
<1>7. QED
  BY <1>6

LEMMA LatestCreated ==
  /\ Created \subseteq Versions
  /\ Created # {} => Latest \in Created
  /\ Created = {} => Latest = 0
  /\ Latest \in Nat
<1>1. Created \subseteq Versions
  BY DEF Created
<1>2. CASE Created = {}
  BY <1>1, <1>2 DEF Latest
<1>3. CASE Created # {}
  <2>1. \E v \in Created : \A u \in Created : u <= v
    BY <1>1, <1>3, HighestVersion
  <2>2. Latest \in Created
    BY <1>3, <2>1 DEF Latest
  <2>3. QED
    BY <1>1, <1>3, <2>2 DEF Versions
<1>4. QED
  BY <1>2, <1>3

\* Versions are numbered from 1.
LEMMA LatestExists == Latest # 0 => Latest \in Created /\ Latest \in Versions
  BY LatestCreated

-----------------------------------------------------------------------------
(* What the updates of a row, a job and a process return *)

ProcRecs == [pc : ProcSteps, op : ProcOps, ver : Nat, seen : VersionRows,
             hero : BOOLEAN, body : Bodies]

SyncRecs == [pc : SyncSteps, job : ImageJobs \cup {None}, img : Images \cup {None},
             ver : Nat, body : Bodies, hero : BOOLEAN]

TextRecs == [pc : TextSteps, ver : Nat, body : Bodies, img : Images \cup {None}]

CtlRecs == [target : Nat, missing : SUBSET Channels, created : BOOLEAN]

LEMMA NullTypes ==
  /\ NoBody \in Bodies /\ NoReport \in Reports /\ NoVersion \in VersionRows
  /\ NoImage \in ImageRows /\ NoJob \in Jobs
  /\ \A v \in Versions : QueuedFor(v) \in ImageRows
  /\ ProcIdle \in ProcRecs /\ SyncIdle \in SyncRecs /\ CtlIdle \in CtlRecs
  /\ TextWorkerIdle \in TextRecs
<1>1. NoBody \in Bodies
  BY DEF NoBody, Bodies
<1>2. NoReport \in Reports
  BY <1>1 DEF NoReport, Reports
<1>3. NoVersion \in VersionRows
  BY <1>1, <1>2 DEF NoVersion, VersionRows, VersionStatus
<1>4. NoImage \in ImageRows /\ NoJob \in Jobs /\ \A v \in Versions : QueuedFor(v) \in ImageRows
  BY DEF NoImage, QueuedFor, ImageRows, NoJob, Jobs, JobStates, Versions
<1>5. ProcIdle \in ProcRecs
  BY <1>1, <1>3 DEF ProcIdle, ProcRecs, ProcSteps, ProcOps
<1>6. SyncIdle \in SyncRecs
  BY <1>1 DEF SyncIdle, SyncRecs, SyncSteps
<1>7. CtlIdle \in CtlRecs
  BY DEF CtlIdle, CtlRecs
<1>8. TextWorkerIdle \in TextRecs
  BY <1>1 DEF TextWorkerIdle, TextRecs, TextSteps
<1>9. QED
  BY <1>1, <1>2, <1>3, <1>4, <1>5, <1>6, <1>7, <1>8

LEMMA RowUpdates ==
  ASSUME NEW row \in VersionRows
  PROVE  /\ \A b \in Bodies : [row EXCEPT !.body = b] \in VersionRows
         /\ \A b \in Bodies, s \in VersionStatus :
              [row EXCEPT !.body = b, !.status = s] \in VersionRows
         /\ \A s \in VersionStatus : [row EXCEPT !.status = s] \in VersionRows
         /\ \A i \in Images : [row EXCEPT !.img = i] \in VersionRows
         /\ \A l \in {"free", "held", "expired"} : [row EXCEPT !.lock = l] \in VersionRows
         /\ Unlocked(row) \in VersionRows
         /\ \A n \in Nat : [row EXCEPT !.tries = n] \in VersionRows
  BY DEF VersionRows, Unlocked

LEMMA JudgedType ==
  ASSUME NEW row \in VersionRows, NEW b \in Bodies, NEW hero \in BOOLEAN
  PROVE  /\ Qa(b, hero) \in Reports
         /\ Judged(row, Qa(b, hero)) \in VersionRows
         /\ Judged(row, Qa(b, hero)).lock = row.lock
         /\ Judged(row, Qa(b, hero)).status # "none"
<1> DEFINE report == Qa(b, hero)
<1>1. report \in Reports
  BY DEF Qa, Reports
<1> HIDE DEF report
<1>2. /\ Judged(row, report) \in VersionRows
      /\ Judged(row, report).lock = row.lock
      /\ Judged(row, report).status # "none"
  BY <1>1 DEF Judged, VersionRows, VersionStatus
<1>3. QED
  BY <1>1, <1>2 DEF report

LEMMA PipelineJobUpdates ==
  ASSUME NEW job \in Jobs
  PROVE  /\ Added(job) \in Jobs
         /\ Taken(job) \in Jobs
         /\ Completed(job) \in Jobs
         /\ BackoffOver(job) \in Jobs
         /\ TryFailed(job, BullAttempts) \in Jobs
         /\ Stalled(job, MaxStalls) \in Jobs
<1> DEFINE tries == job.tries + 1
           stalls == job.stalls + 1
<1>1. tries \in Nat /\ stalls \in Nat
  BY DEF Jobs
<1>2. TryFailed(job, BullAttempts) =
        [job EXCEPT !.tries = tries,
                    !.state = IF tries < BullAttempts THEN "delayed" ELSE "dead"]
  BY DEF TryFailed, Jobs
<1>3. Stalled(job, MaxStalls) =
        [job EXCEPT !.stalls = stalls,
                    !.state = IF stalls > MaxStalls THEN "dead" ELSE "waiting"]
  BY DEF Stalled, Jobs
<1> HIDE DEF tries, stalls
<1>4. TryFailed(job, BullAttempts) \in Jobs /\ Stalled(job, MaxStalls) \in Jobs
  BY <1>1, <1>2, <1>3 DEF Jobs, JobStates
<1>5. QED
  BY <1>4 DEF Jobs, JobStates, Added, Taken, Completed, BackoffOver

\* A process moves on and keeps what it has read.
LEMMA GotoMoves ==
  ASSUME AutopilotTypeOK, NEW x \in Procs, NEW pc \in ProcSteps, Goto(x, pc)
  PROVE  /\ proc' \in [Procs -> ProcRecs]
         /\ proc'[x] = [proc[x] EXCEPT !.pc = pc] /\ proc'[x].pc = pc
         /\ proc'[x].ver = proc[x].ver /\ proc'[x].op = proc[x].op
         /\ \A y \in Procs : y # x => proc'[y] = proc[y]
<1>1. proc \in [Procs -> ProcRecs]
  BY DEF AutopilotTypeOK, TypeOK, ProcRecs
<1>2. [proc[x] EXCEPT !.pc = pc] \in ProcRecs
  BY <1>1 DEF ProcRecs
<1>3. QED
  BY <1>1, <1>2 DEF Goto, ProcRecs

LEMMA NewBodiesType ==
  ASSUME AutopilotTypeOK
  PROVE  NewBodies \subseteq Bodies /\ revs + 1 \in Nat
<1>1. revs + 1 \in Nat
  BY DEF AutopilotTypeOK, TypeOK
<1>2. \A g \in Grades : g \in AllGrades
  BY PipelineConstants
<1>3. QED
  BY <1>1, <1>2 DEF NewBodies, Bodies

LEMMA FailsCounts ==
  ASSUME AutopilotTypeOK, NEW kind, Fails(kind)
  PROVE  failures' \in Nat
  BY DEF Fails, AutopilotTypeOK, TypeOK

-----------------------------------------------------------------------------
(* Types.  The rows that processes name by number are there: a text that is  *)
(* written, a verdict that is, a version that is edited or under repair.     *)

Held == Locked \cup {"plan"}

\* The try of a repair goes on after its verdict gave the lock back.
Beyond == {"repaired", "exhausted"}

Trying == Held \cup Beyond

Pointers ==
  /\ tw.pc # "idle" => tw.ver \in Versions
  /\ \A p \in ImageProcs : sync[p].pc \in {"checking", "verdict"} => sync[p].ver \in Versions
  /\ \A x \in Procs : proc[x].pc \in {"edit", "edited", "qa"} => proc[x].ver \in Versions
  /\ \A x \in Controllers : proc[x].pc = "repair" => Created # {}
  /\ \A x \in Controllers : proc[x].pc \in Trying \cup {"claim"} => ctl[x].target \in Created

TypeInv == AutopilotTypeOK /\ Pointers

LEMMA TypeInit == Init => TypeInv
<1> SUFFICES ASSUME Init PROVE TypeInv
  OBVIOUS
<1>1. TypeOK
  BY NullTypes DEF Init, PipelineInit, TypeOK, ProjectStatus, Substates, ProcRecs,
                       SyncRecs, TextRecs
<1>2. AutopilotTypeOK
  BY <1>1, NullTypes DEF Init, AutopilotTypeOK, CtlRecs
<1>3. Pointers
  BY AutopilotConstants
     DEF Init, PipelineInit, Pointers, TextWorkerIdle, SyncIdle, ProcIdle, Trying, Beyond, Held,
         Locked
<1>4. QED
  BY <1>2, <1>3 DEF TypeInv

\* No version disappears and no repair lock is touched.
RowsKept == /\ Created \subseteq Created'
            /\ \A v \in Created : version'[v].lock = version[v].lock

LEMMA OneRow ==
  ASSUME TypeInv, NEW v, NEW row, version' = [version EXCEPT ![v] = row],
         v \in Versions => /\ row \in VersionRows
                           /\ version[v].status # "none" =>
                                row.status # "none" /\ row.lock = version[v].lock
  PROVE  version' \in [Versions -> VersionRows] /\ RowsKept
<1>1. version \in [Versions -> VersionRows]
  BY DEF TypeInv, AutopilotTypeOK, TypeOK
<1>2. /\ version' \in [Versions -> VersionRows]
      /\ \A u \in Versions : u # v => version'[u] = version[u]
      /\ v \in Versions => version'[v] = row
  BY <1>1
<1>3. QED
  BY <1>2 DEF RowsKept, Created

LEMMA SameRows == ASSUME version' = version PROVE RowsKept
  BY DEF RowsKept, Created

LEMMA NewImageType ==
  ASSUME TypeInv, NEW v \in Versions, NEW i \in Images, NewImage(v, i)
  PROVE  /\ version' \in [Versions -> VersionRows] /\ RowsKept
         /\ image' \in [Images -> ImageRows]
<1>0. version[v] \in VersionRows /\ image \in [Images -> ImageRows]
      /\ version \in [Versions -> VersionRows]
  BY DEF TypeInv, AutopilotTypeOK, TypeOK
<1> DEFINE row == [version[v] EXCEPT !.img = i]
<1>1. row \in VersionRows /\ row.lock = version[v].lock /\ row.status = version[v].status
  BY <1>0 DEF VersionRows
<1>2. version' = [version EXCEPT ![v] = row]
  BY <1>0 DEF NewImage
<1> HIDE DEF row
<1>3. version' \in [Versions -> VersionRows] /\ RowsKept
  BY <1>1, <1>2, OneRow
<1>4. image' \in [Images -> ImageRows]
  BY <1>0, NullTypes DEF NewImage
<1>5. QED
  BY <1>3, <1>4

\* The part of the invariant that is about processes other than the workers.
LEMMA WorkersLeaveControllers ==
  ASSUME TypeInv, RowsKept, UNCHANGED <<proc, ctl, rows>>
  PROVE  /\ proc' \in [Procs -> ProcRecs] /\ ctl' \in [Controllers -> CtlRecs]
         /\ rows' \in [Versions -> [Channels -> Nat]]
         /\ \A x \in Procs : proc'[x].pc \in {"edit", "edited", "qa"} => proc'[x].ver \in Versions
         /\ \A x \in Controllers : proc'[x].pc = "repair" => Created' # {}
         /\ \A x \in Controllers :
              proc'[x].pc \in Trying \cup {"claim"} => ctl'[x].target \in Created'
  BY DEF TypeInv, AutopilotTypeOK, TypeOK, ProcRecs, CtlRecs, Pointers, RowsKept

LEMMA TextWorkerKeeps ==
  ASSUME TypeInv, TextWorker \/ FailText, UNCHANGED <<ctl, rows>>
  PROVE  TypeInv' /\ RowsKept
<1>0. /\ UNCHANGED <<sync, proc, passed>>
      /\ tw \in TextRecs /\ version \in [Versions -> VersionRows]
      /\ textJob \in [Versions -> Jobs] /\ project \in [status : ProjectStatus, sub : Substates]
  BY DEF TypeInv, AutopilotTypeOK, TypeOK, TextWorker, TakeText, GenerateText,
         ReadVersionOfText, WriteText, TextProjectStatus, TextProjectSubstate, AttachImage,
         EnqueueImage, CompleteText, FailText, TextRecs
<1>ver. tw.pc # "idle" => tw.ver \in Versions
  BY DEF TypeInv, Pointers
<1>1. version' \in [Versions -> VersionRows] /\ RowsKept
  <2>1. CASE version' = version
    BY <1>0, <2>1, SameRows
  <2>2. CASE WriteText
    <3>1. tw.ver \in Versions /\ tw.body \in Bodies
      BY <1>0, <2>2 DEF WriteText, TypeInv, Pointers, TextRecs
    <3>2. version' = [version EXCEPT ![tw.ver] =
                        [version[tw.ver] EXCEPT !.body = tw.body, !.status = "ai_generated"]]
      BY <1>0, <2>2, <3>1 DEF WriteText
    <3>3. ASSUME NEW row \in VersionRows
          PROVE  /\ [row EXCEPT !.body = tw.body, !.status = "ai_generated"] \in VersionRows
                 /\ [row EXCEPT !.body = tw.body, !.status = "ai_generated"].lock = row.lock
                 /\ [row EXCEPT !.body = tw.body, !.status = "ai_generated"].status # "none"
      BY <3>1 DEF VersionRows, VersionStatus
    <3>4. QED
      BY <1>0, <3>1, <3>2, <3>3, OneRow
  <2>3. CASE AttachImage
    BY <1>ver, <2>3, NewImageType DEF AttachImage
  <2>4. QED
    BY <2>1, <2>2, <2>3 DEF TextWorker, TakeText, GenerateText, ReadVersionOfText,
       TextProjectStatus, TextProjectSubstate, EnqueueImage, CompleteText, FailText
<1>2. tw' \in TextRecs /\ (tw'.pc # "idle" => tw'.ver \in Versions)
  <2>1. CASE TakeText
    <3>1. PICK v \in Versions : tw' = [TextWorkerIdle EXCEPT !.pc = "generate", !.ver = v]
      BY <2>1 DEF TakeText
    <3>2. v \in Nat
      BY DEF Versions
    <3>3. QED
      BY <3>1, <3>2, NullTypes DEF TextRecs, TextSteps
  <2>2. CASE GenerateText
    BY <1>0, <2>2, NewBodiesType DEF GenerateText, TextRecs, TextSteps, TextSteps, TypeInv, Pointers
  <2>3. CASE ReadVersionOfText
    <3>1. tw.ver \in Versions
      BY <2>3 DEF ReadVersionOfText, TypeInv, Pointers
    <3>2. version[tw.ver].img \in Images \cup {None}
      BY <1>0, <3>1 DEF VersionRows
    <3>3. QED
      BY <1>0, <2>3, <3>1, <3>2 DEF ReadVersionOfText, TextRecs, TextSteps
  <2>4. CASE WriteText \/ TextProjectStatus \/ TextProjectSubstate \/ EnqueueImage
    <3>1. PICK pc \in TextSteps : tw' = [tw EXCEPT !.pc = pc]
      BY <2>4 DEF WriteText, TextProjectStatus, TextProjectSubstate, EnqueueImage, TextSteps
    <3>2. tw.pc # "idle"
      BY <2>4 DEF WriteText, TextProjectStatus, TextProjectSubstate, EnqueueImage
    <3>3. QED
      BY <1>0, <1>ver, <3>1, <3>2 DEF TextRecs, TextSteps
  <2>5. CASE AttachImage
    <3>1. PICK i \in Images : tw' = [tw EXCEPT !.pc = "enqueue", !.img = i]
      BY <2>5 DEF AttachImage
    <3>2. tw.pc # "idle"
      BY <2>5 DEF AttachImage
    <3>3. QED
      BY <1>0, <1>ver, <3>1, <3>2 DEF TextRecs, TextSteps
  <2>6. CASE CompleteText \/ FailText
    BY <2>6, NullTypes DEF CompleteText, FailText, TextRecs, TextWorkerIdle
  <2>7. QED
    BY <2>1, <2>2, <2>3, <2>4, <2>5, <2>6 DEF TextWorker
<1>3. textJob' \in [Versions -> Jobs]
  <2>1. CASE UNCHANGED textJob
    BY <1>0, <2>1
  <2>2. CASE TakeText
    BY <1>0, <2>2, PipelineJobUpdates DEF TakeText
  <2>3. CASE CompleteText \/ FailText
    BY <1>0, <2>3, PipelineJobUpdates DEF CompleteText, FailText
  <2>4. QED
    BY <2>1, <2>2, <2>3 DEF TextWorker, GenerateText, ReadVersionOfText, WriteText,
       TextProjectStatus, TextProjectSubstate, AttachImage, EnqueueImage
<1>4. project' \in [status : ProjectStatus, sub : Substates]
  BY <1>0 DEF TextWorker, TakeText, GenerateText, ReadVersionOfText, WriteText,
     TextProjectStatus, TextProjectSubstate, AttachImage, EnqueueImage, CompleteText, FailText,
     ProjectStatus, Substates
<1>5. image' \in [Images -> ImageRows]
  <2>1. image \in [Images -> ImageRows]
    BY DEF TypeInv, AutopilotTypeOK, TypeOK
  <2>2. CASE AttachImage
    BY <1>ver, <2>2, NewImageType DEF AttachImage
  <2>3. CASE UNCHANGED image
    BY <2>1, <2>3
  <2>4. QED
    BY <2>2, <2>3 DEF TextWorker, TakeText, GenerateText, ReadVersionOfText, WriteText,
       TextProjectStatus, TextProjectSubstate, EnqueueImage, CompleteText, FailText
<1>6. imageJob' \in [ImageJobs -> [img : Images \cup {None}, job : Jobs]]
  <2>1. CASE EnqueueImage
    BY <1>0, <2>1, NullTypes, PipelineJobUpdates
       DEF EnqueueImage, AddImageJob, TypeInv, AutopilotTypeOK, TypeOK, TextRecs
  <2>2. CASE UNCHANGED imageJob
    BY <2>2 DEF TypeInv, AutopilotTypeOK, TypeOK
  <2>3. QED
    BY <2>1, <2>2 DEF TextWorker, TakeText, GenerateText, ReadVersionOfText, WriteText,
       TextProjectStatus, TextProjectSubstate, AttachImage, CompleteText, FailText
<1>7. revs' \in Nat /\ failures' \in Nat
  BY NewBodiesType, FailsCounts
     DEF TypeInv, AutopilotTypeOK, TypeOK, TextWorker, TakeText, GenerateText,
     ReadVersionOfText, WriteText, TextProjectStatus, TextProjectSubstate, AttachImage,
     EnqueueImage, CompleteText, FailText
<1>8. TypeOK'
  BY <1>0, <1>1, <1>2, <1>3, <1>4, <1>5, <1>6, <1>7
     DEF TypeInv, AutopilotTypeOK, TypeOK, TextRecs
<1>9. QED
  BY <1>0, <1>1, <1>2, <1>8, WorkersLeaveControllers
     DEF TypeInv, AutopilotTypeOK, Pointers, CtlRecs

LEMMA SyncMoves ==
  ASSUME TypeInv, NEW p \in ImageProcs, NEW pc \in SyncSteps, SyncGoto(p, pc),
         pc \in {"checking", "verdict"} => sync[p].ver \in Versions
  PROVE  /\ sync' \in [ImageProcs -> SyncRecs]
         /\ \A q \in ImageProcs : sync'[q].pc \in {"checking", "verdict"} => sync'[q].ver \in Versions
<1>1. sync \in [ImageProcs -> SyncRecs]
  BY DEF TypeInv, AutopilotTypeOK, TypeOK, SyncRecs
<1>2. /\ [sync[p] EXCEPT !.pc = pc] \in SyncRecs
      /\ [sync[p] EXCEPT !.pc = pc].pc = pc /\ [sync[p] EXCEPT !.pc = pc].ver = sync[p].ver
  BY <1>1 DEF SyncRecs
<1>3. \A q \in ImageProcs : sync[q].pc \in {"checking", "verdict"} => sync[q].ver \in Versions
  BY DEF TypeInv, Pointers
<1>4. QED
  BY <1>1, <1>2, <1>3 DEF SyncGoto

LEMMA SyncReplaced ==
  ASSUME TypeInv, NEW p \in ImageProcs, NEW r \in SyncRecs, sync' = [sync EXCEPT ![p] = r],
         r.pc \in {"checking", "verdict"} => r.ver \in Versions
  PROVE  /\ sync' \in [ImageProcs -> SyncRecs]
         /\ \A q \in ImageProcs : sync'[q].pc \in {"checking", "verdict"} => sync'[q].ver \in Versions
<1>1. sync \in [ImageProcs -> SyncRecs]
  BY DEF TypeInv, AutopilotTypeOK, TypeOK, SyncRecs
<1>2. \A q \in ImageProcs : sync[q].pc \in {"checking", "verdict"} => sync[q].ver \in Versions
  BY DEF TypeInv, Pointers
<1>3. QED
  BY <1>1, <1>2

\* One verdict written by whoever judged a body and an image.
LEMMA VerdictWritten ==
  ASSUME TypeInv, NEW v \in Versions, NEW b \in Bodies, NEW hero \in BOOLEAN,
         version' = [version EXCEPT ![v] = Judged(@, Qa(b, hero))],
         passed' = passed \cup Noted(v, Qa(b, hero))
  PROVE  /\ version' \in [Versions -> VersionRows] /\ RowsKept
         /\ passed' \subseteq Versions \X Nat
<1>1. version[v] \in VersionRows
  BY DEF TypeInv, AutopilotTypeOK, TypeOK
<1>2. /\ Judged(version[v], Qa(b, hero)) \in VersionRows
      /\ Judged(version[v], Qa(b, hero)).lock = version[v].lock
      /\ Judged(version[v], Qa(b, hero)).status # "none"
  BY <1>1, JudgedType
<1>3. version' \in [Versions -> VersionRows] /\ RowsKept
  BY <1>2, OneRow
<1>4. Qa(b, hero).body.rev \in Nat
  BY DEF Qa, Bodies
<1>5. passed \subseteq Versions \X Nat
  BY DEF TypeInv, AutopilotTypeOK, TypeOK
<1>6. QED
  BY <1>3, <1>4, <1>5 DEF Noted

LEMMA ReviewedType ==
  ASSUME NEW report
  PROVE  Reviewed(report) \in ProjectStatus
  BY DEF Reviewed, ProjectStatus

ImageSide == ImageWorker \/ FailImage \/ \E l \in Listeners : Listener(l)

LEMMA ImageSideKeeps ==
  ASSUME TypeInv, ImageSide, UNCHANGED <<ctl, rows>>
  PROVE  TypeInv' /\ RowsKept
<1> USE DEF ImageProcs
<1>0. /\ UNCHANGED <<tw, proc, textJob, revs>>
      /\ sync \in [ImageProcs -> SyncRecs] /\ version \in [Versions -> VersionRows]
      /\ project \in [status : ProjectStatus, sub : Substates]
      /\ image \in [Images -> ImageRows] /\ passed \subseteq Versions \X Nat
      /\ imageJob \in [ImageJobs -> [img : Images \cup {None}, job : Jobs]]
  BY DEF TypeInv, AutopilotTypeOK, TypeOK, SyncRecs, ImageSide, ImageWorker, TakeImage,
         SaveImage, SaveVariants, ImageSync, ReadForQa, QaChecking, WriteQa, QaProjectStatus,
         QaProjectSubstate, CompleteImage, FailImage, Listener, MarkImageFailed
<1>cases. \/ TakeImage \/ SaveImage \/ SaveVariants \/ CompleteImage \/ FailImage
          \/ \E l \in Listeners : MarkImageFailed(l)
          \/ \E p \in ImageProcs : ImageSync(p)
  BY DEF ImageSide, ImageWorker, Listener
<1>1. /\ version' \in [Versions -> VersionRows] /\ RowsKept
      /\ passed' \subseteq Versions \X Nat
  <2>1. ASSUME NEW p \in ImageProcs, WriteQa(p)
        PROVE  /\ version' \in [Versions -> VersionRows] /\ RowsKept
               /\ passed' \subseteq Versions \X Nat
    <3>1. sync[p].ver \in Versions /\ sync[p].body \in Bodies /\ sync[p].hero \in BOOLEAN
      BY <1>0, <2>1 DEF WriteQa, TypeInv, Pointers, SyncRecs
    <3>2. QED
      BY <2>1, <3>1, VerdictWritten DEF WriteQa
  <2>2. CASE UNCHANGED <<version, passed>>
    BY <1>0, <2>2, SameRows
  <2>3. QED
    BY <1>cases, <2>1, <2>2
       DEF TakeImage, SaveImage, SaveVariants, ImageSync, ReadForQa, QaChecking,
           QaProjectStatus, QaProjectSubstate, CompleteImage, FailImage, MarkImageFailed
<1>2. /\ sync' \in [ImageProcs -> SyncRecs]
      /\ \A q \in ImageProcs : sync'[q].pc \in {"checking", "verdict"} => sync'[q].ver \in Versions
  <2>1. CASE TakeImage
    <3>1. PICK j \in ImageJobs :
            sync' = [sync EXCEPT !["worker"] =
                       [SyncIdle EXCEPT !.pc = "generate", !.job = j, !.img = imageJob[j].img]]
      BY <2>1 DEF TakeImage
    <3>2. imageJob[j].img \in Images \cup {None}
      BY <1>0
    <3>3. /\ [SyncIdle EXCEPT !.pc = "generate", !.job = j, !.img = imageJob[j].img] \in SyncRecs
          /\ [SyncIdle EXCEPT !.pc = "generate", !.job = j, !.img = imageJob[j].img].pc = "generate"
      BY <3>2, NullTypes DEF SyncRecs, SyncSteps
    <3>4. QED
      BY <3>1, <3>3, SyncReplaced
  <2>2. CASE SaveImage \/ SaveVariants
    BY <2>2, SyncMoves DEF SaveImage, SaveVariants, SyncSteps
  <2>3. CASE CompleteImage
    BY <2>3, SyncReplaced, NullTypes DEF CompleteImage, SyncIdle
  <2>4. CASE FailImage
    <3>1. PICK l \in Listeners, pc \in {"failed", "retryable"} :
            sync' = [sync EXCEPT !["worker"] = SyncIdle,
                       ![l] = [SyncIdle EXCEPT !.pc = pc, !.img = sync["worker"].img]]
      BY <2>4 DEF FailImage
    <3>2. sync["worker"].img \in Images \cup {None}
      BY <1>0 DEF SyncRecs
    <3> DEFINE r == [SyncIdle EXCEPT !.pc = pc, !.img = sync["worker"].img]
    <3>3. r \in SyncRecs /\ r.pc = pc /\ SyncIdle \in SyncRecs /\ SyncIdle.pc = "idle"
      BY <3>2, NullTypes DEF SyncRecs, SyncSteps, SyncIdle
    <3>4. sync' = [sync EXCEPT !["worker"] = SyncIdle, ![l] = r]
      BY <3>1
    <3> HIDE DEF r
    <3>5. \A q \in ImageProcs : sync[q].pc \in {"checking", "verdict"} => sync[q].ver \in Versions
      BY DEF TypeInv, Pointers
    <3>6. QED
      BY <1>0, <3>3, <3>4, <3>5
  <2>5. ASSUME NEW l \in Listeners, MarkImageFailed(l)
        PROVE  /\ sync' \in [ImageProcs -> SyncRecs]
               /\ \A q \in ImageProcs :
                    sync'[q].pc \in {"checking", "verdict"} => sync'[q].ver \in Versions
    <3>1. CASE sync' = [sync EXCEPT ![l] = [sync[l] EXCEPT !.pc = "read"]]
      <4>1. SyncGoto(l, "read")
        BY <1>0, <3>1 DEF SyncGoto
      <4>2. QED
        BY <4>1, SyncMoves DEF SyncSteps
    <3>2. CASE sync' = [sync EXCEPT ![l] = SyncIdle]
      BY <3>2, SyncReplaced, NullTypes DEF SyncIdle
    <3>3. QED
      BY <1>0, <2>5, <3>1, <3>2 DEF MarkImageFailed
  <2>6. ASSUME NEW p \in ImageProcs, ImageSync(p)
        PROVE  /\ sync' \in [ImageProcs -> SyncRecs]
               /\ \A q \in ImageProcs :
                    sync'[q].pc \in {"checking", "verdict"} => sync'[q].ver \in Versions
    <3>gone. CASE Synced(p)
      <4>1. CASE SyncGoto(p, "complete")
        BY <4>1, SyncMoves DEF SyncSteps
      <4>2. CASE sync' = [sync EXCEPT ![p] = SyncIdle]
        BY <4>2, SyncReplaced, NullTypes DEF SyncIdle
      <4>3. QED
        BY <3>gone, <4>1, <4>2 DEF Synced
    <3>1. CASE ReadForQa(p) /\ ~ Synced(p)
      <4>1. PICK v \in Versions :
              sync' = [sync EXCEPT ![p].pc = "checking", ![p].ver = v,
                                   ![p].body = version[v].body,
                                   ![p].hero = HeroReady(sync[p].img)]
        BY <3>1 DEF ReadForQa
      <4>2. version[v].body \in Bodies /\ v \in Nat /\ HeroReady(sync[p].img) \in BOOLEAN
        <5>1. version[v].body \in Bodies /\ v \in Nat
          BY <1>0 DEF VersionRows, Versions
        <5>2. sync[p].img \in Images \cup {None}
          BY <1>0 DEF SyncRecs
        <5>3. sync[p].img \in Images => image[sync[p].img].hero \in BOOLEAN
          BY <1>0 DEF ImageRows
        <5>4. HeroReady(sync[p].img) \in BOOLEAN
          BY <5>2, <5>3 DEF HeroReady
        <5>5. QED
          BY <5>1, <5>4
      <4>3. PICK hero \in BOOLEAN, body \in Bodies :
              hero = HeroReady(sync[p].img) /\ body = version[v].body
        BY <4>2
      <4> DEFINE r == [sync[p] EXCEPT !.pc = "checking", !.ver = v, !.body = body, !.hero = hero]
      <4>4. r \in SyncRecs /\ r.ver = v
        <5>1. sync[p] \in SyncRecs /\ v \in Nat
          BY <1>0, <4>2
        <5>2. QED
          BY <5>1 DEF SyncRecs, SyncSteps
      <4>5. sync' = [sync EXCEPT ![p] = r]
        BY <1>0, <4>1, <4>3
      <4> HIDE DEF r
      <4>6. QED
        BY <4>4, <4>5, SyncReplaced
    <3>2. CASE QaChecking(p)
      BY <3>2, SyncMoves DEF QaChecking, SyncSteps, TypeInv, Pointers
    <3>3. CASE WriteQa(p) \/ QaProjectStatus(p)
      BY <3>3, SyncMoves DEF WriteQa, QaProjectStatus, SyncSteps
    <3>4. CASE QaProjectSubstate(p)
      BY <3>4, <3>gone DEF QaProjectSubstate
    <3>5. QED
      BY <2>6, <3>gone, <3>1, <3>2, <3>3, <3>4 DEF ImageSync
  <2>7. QED
    BY <1>cases, <2>1, <2>2, <2>3, <2>4, <2>5, <2>6
<1>3. project' \in [status : ProjectStatus, sub : Substates]
  <2>1. CASE UNCHANGED project
    BY <1>0, <2>1
  <2>2. ASSUME NEW p \in ImageProcs, QaChecking(p) \/ QaProjectStatus(p) \/ QaProjectSubstate(p)
        PROVE  project' \in [status : ProjectStatus, sub : Substates]
    BY <1>0, <2>2, ReviewedType DEF QaChecking, QaProjectStatus, QaProjectSubstate, Substates
  <2>3. QED
    BY <1>cases, <2>1, <2>2
       DEF TakeImage, SaveImage, SaveVariants, ImageSync, ReadForQa, WriteQa, CompleteImage,
           FailImage, MarkImageFailed
<1>4. image' \in [Images -> ImageRows]
  <2>1. CASE UNCHANGED image
    BY <1>0, <2>1
  <2>2. ASSUME NEW i, NEW status \in {"processing", "done", "failed", "retryable"},
               image' = [image EXCEPT ![i].status = status]
        PROVE  image' \in [Images -> ImageRows]
    BY <1>0, <2>2 DEF ImageRows
  <2>3. CASE SaveVariants
    BY <1>0, <2>3 DEF SaveVariants, ImageRows
  <2>4. CASE TakeImage \/ SaveImage
    BY <2>2, <2>4 DEF TakeImage, SaveImage
  <2>5. ASSUME NEW l \in Listeners, MarkImageFailed(l) PROVE image' \in [Images -> ImageRows]
    BY <2>2, <2>5 DEF MarkImageFailed
  <2>6. QED
    BY <1>cases, <2>1, <2>3, <2>4, <2>5
       DEF ImageSync, ReadForQa, QaChecking, WriteQa, QaProjectStatus, QaProjectSubstate,
           CompleteImage, FailImage
<1>5. imageJob' \in [ImageJobs -> [img : Images \cup {None}, job : Jobs]]
  <2>1. CASE UNCHANGED imageJob
    BY <1>0, <2>1
  <2>2. ASSUME NEW j, NEW job, imageJob' = [imageJob EXCEPT ![j].job = job],
               j \in ImageJobs => job \in Jobs
        PROVE  imageJob' \in [ImageJobs -> [img : Images \cup {None}, job : Jobs]]
    BY <1>0, <2>2
  <2>3. \A j \in ImageJobs : imageJob[j].job \in Jobs
    BY <1>0
  <2>4. CASE TakeImage
    BY <2>2, <2>3, <2>4, PipelineJobUpdates DEF TakeImage
  <2>5. CASE CompleteImage \/ FailImage
    BY <2>2, <2>3, <2>5, PipelineJobUpdates, ZenonT(60) DEF CompleteImage, FailImage
  <2>6. QED
    BY <1>cases, <2>1, <2>4, <2>5
       DEF SaveImage, SaveVariants, ImageSync, ReadForQa, QaChecking, WriteQa,
           QaProjectStatus, QaProjectSubstate, MarkImageFailed
<1>6. failures' \in Nat
  <2>1. CASE UNCHANGED failures
    BY <2>1 DEF TypeInv, AutopilotTypeOK, TypeOK
  <2>2. CASE FailImage
    BY <2>2, FailsCounts DEF FailImage, TypeInv
  <2>3. QED
    BY <1>cases, <2>1, <2>2
       DEF TakeImage, SaveImage, SaveVariants, ImageSync, ReadForQa, QaChecking, WriteQa,
           QaProjectStatus, QaProjectSubstate, CompleteImage, MarkImageFailed
<1>7. TypeOK'
  BY <1>0, <1>1, <1>2, <1>3, <1>4, <1>5, <1>6
     DEF TypeInv, AutopilotTypeOK, TypeOK, SyncRecs
<1>8. QED
  BY <1>0, <1>1, <1>2, <1>7, WorkersLeaveControllers
     DEF TypeInv, AutopilotTypeOK, Pointers, CtlRecs

LEMMA QueuesKeep ==
  ASSUME TypeInv, DelayOver \/ WorkerCrash \/ RecoverStalled, UNCHANGED <<ctl, rows>>
  PROVE  TypeInv' /\ RowsKept
<1>0. /\ UNCHANGED <<project, version, image, proc, revs, passed>> /\ TypeOK
      /\ textJob \in [Versions -> Jobs]
      /\ imageJob \in [ImageJobs -> [img : Images \cup {None}, job : Jobs]]
  BY DEF DelayOver, WorkerCrash, RecoverStalled, TypeInv, AutopilotTypeOK, TypeOK
<1>1. RowsKept
  BY <1>0, SameRows
<1>2. textJob' \in [Versions -> Jobs]
  <2>1. \A v \in Versions : textJob[v] \in Jobs
    BY <1>0
  <2>2. CASE DelayOver
    BY <1>0, <2>1, <2>2, PipelineJobUpdates DEF DelayOver
  <2>3. CASE RecoverStalled
    BY <1>0, <2>1, <2>3, PipelineJobUpdates DEF RecoverStalled
  <2>4. QED
    BY <1>0, <2>2, <2>3 DEF WorkerCrash
<1>3. imageJob' \in [ImageJobs -> [img : Images \cup {None}, job : Jobs]]
  <2>1. \A j \in ImageJobs : imageJob[j].job \in Jobs
    BY <1>0
  <2>2. ASSUME NEW j \in ImageJobs, NEW job \in Jobs, imageJob' = [imageJob EXCEPT ![j].job = job]
        PROVE  imageJob' \in [ImageJobs -> [img : Images \cup {None}, job : Jobs]]
    BY <1>0, <2>2
  <2>3. CASE DelayOver
    BY <1>0, <2>1, <2>2, <2>3, PipelineJobUpdates DEF DelayOver
  <2>4. CASE RecoverStalled
    BY <1>0, <2>1, <2>2, <2>4, PipelineJobUpdates DEF RecoverStalled
  <2>5. QED
    BY <1>0, <2>3, <2>4 DEF WorkerCrash
<1>4. tw' \in TextRecs /\ (tw'.pc # "idle" => tw'.ver \in Versions)
  <2>1. tw \in TextRecs /\ (tw.pc # "idle" => tw.ver \in Versions)
    BY <1>0 DEF TypeOK, TextRecs, TypeInv, Pointers
  <2>2. tw' = tw \/ tw' = TextWorkerIdle
    BY DEF DelayOver, WorkerCrash, RecoverStalled
  <2>3. QED
    BY <2>1, <2>2, NullTypes DEF TextWorkerIdle
<1>5. /\ sync' \in [ImageProcs -> SyncRecs]
      /\ \A q \in ImageProcs : sync'[q].pc \in {"checking", "verdict"} => sync'[q].ver \in Versions
  <2>1. CASE UNCHANGED sync
    BY <1>0, <2>1 DEF TypeOK, SyncRecs, TypeInv, Pointers
  <2>2. CASE sync' = [sync EXCEPT !["worker"] = SyncIdle]
    BY <2>2, SyncReplaced, NullTypes DEF SyncIdle, ImageProcs
  <2>3. QED
    BY <2>1, <2>2 DEF DelayOver, WorkerCrash, RecoverStalled
<1>6. failures' \in Nat
  <2>1. CASE UNCHANGED failures
    BY <1>0, <2>1 DEF TypeOK
  <2>2. CASE WorkerCrash
    BY <2>2, FailsCounts DEF WorkerCrash, TypeInv
  <2>3. QED
    BY <2>1, <2>2 DEF DelayOver, RecoverStalled
<1>7. TypeOK'
  BY <1>0, <1>2, <1>3, <1>4, <1>5, <1>6 DEF TypeOK, SyncRecs, TextRecs
<1>8. QED
  BY <1>1, <1>4, <1>5, <1>7, <1>0, WorkersLeaveControllers
     DEF TypeInv, AutopilotTypeOK, Pointers, CtlRecs

-----------------------------------------------------------------------------
(* The calls of operators and controllers *)

LEMMA ProcReplaced ==
  ASSUME AutopilotTypeOK, NEW x \in Procs, NEW r \in ProcRecs, proc' = [proc EXCEPT ![x] = r]
  PROVE  /\ proc' \in [Procs -> ProcRecs] /\ proc'[x] = r
         /\ \A y \in Procs : y # x => proc'[y] = proc[y]
  BY DEF AutopilotTypeOK, TypeOK, ProcRecs

\* Where the step of a call leads.
CallLeads(x) ==
  /\ proc' \in [Procs -> ProcRecs]
  /\ \A y \in Procs : y # x => proc'[y] = proc[y]
  /\ proc'[x].pc \in {"edit", "edited", "qa"} => proc'[x].ver \in Versions
  /\ proc'[x].pc \notin Beyond \cup {"repair", "claim"}
  /\ proc'[x].pc \in Held => proc[x].pc \in Held

LEMMA GenerationLeads ==
  ASSUME TypeInv, NEW x \in Procs, Generation(x)
  PROVE  CallLeads(x)
<1>0. AutopilotTypeOK /\ proc[x] \in ProcRecs
  BY DEF TypeInv, AutopilotTypeOK, TypeOK, ProcRecs
<1>1. CASE ReadLatestNumber(x)
  <2>1. PICK pc \in {"create", "end"} :
          proc' = [proc EXCEPT ![x].pc = pc, ![x].ver = Latest + 1]
    BY <1>1 DEF ReadLatestNumber
  <2>2. Latest + 1 \in Nat
    BY LatestCreated
  <2> DEFINE n == Latest + 1
             r == [proc[x] EXCEPT !.pc = pc, !.ver = n]
  <2>3. proc' = [proc EXCEPT ![x] = r]
    BY <1>0, <2>1 DEF AutopilotTypeOK, TypeOK
  <2> HIDE DEF n
  <2>4. r \in ProcRecs /\ r.pc = pc
    BY <1>0, <2>2 DEF ProcRecs, ProcSteps, n
  <2> HIDE DEF r
  <2>5. QED
    BY <1>0, <2>3, <2>4, ProcReplaced DEF CallLeads, Beyond, Held, Locked
<1>2. CASE CreateVersion(x) \/ EnqueueText(x) \/ ProjectDraft(x) \/ ProjectGenerating(x)
  <2>1. PICK pc \in {"enqueue", "end", "draft", "generating", "regenerating"} : Goto(x, pc)
    BY <1>2 DEF CreateVersion, EnqueueText, ProjectDraft, ProjectGenerating
  <2>2. QED
    BY <1>0, <2>1, GotoMoves DEF ProcSteps, CallLeads, Beyond, Held, Locked
<1>3. QED
  BY <1>1, <1>2 DEF Generation

LEMMA HeroBoolean ==
  ASSUME TypeInv, NEW i \in Images \cup {None}
  PROVE  HeroReady(i) \in BOOLEAN
<1>1. i \in Images => image[i].hero \in BOOLEAN
  BY DEF TypeInv, AutopilotTypeOK, TypeOK, ImageRows
<1>2. QED
  BY <1>1 DEF HeroReady

LEMMA EditLeads ==
  ASSUME TypeInv, NEW x \in Procs,
         EditWrite(x) \/ EditReadProject(x) \/ EditQa(x) \/ EditProjectStatus(x)
  PROVE  CallLeads(x)
<1>0. AutopilotTypeOK /\ proc[x] \in ProcRecs /\ proc \in [Procs -> ProcRecs]
  BY DEF TypeInv, AutopilotTypeOK, TypeOK, ProcRecs
<1>1. CASE EditWrite(x)
  <2>1. PICK b \in Bodies : proc' = [proc EXCEPT ![x].pc = "edited", ![x].body = b]
    BY <1>0, <1>1, NewBodiesType DEF EditWrite
  <2> DEFINE r == [proc[x] EXCEPT !.pc = "edited", !.body = b]
  <2>2. proc' = [proc EXCEPT ![x] = r]
    BY <1>0, <2>1
  <2>3. r \in ProcRecs /\ r.pc = "edited" /\ r.ver = proc[x].ver
    BY <1>0 DEF ProcRecs, ProcSteps
  <2>4. r.ver \in Versions
    BY <1>1, <2>3 DEF EditWrite, TypeInv, Pointers
  <2> HIDE DEF r
  <2>5. QED
    BY <1>0, <2>2, <2>3, <2>4, ProcReplaced DEF CallLeads, Beyond, Held, Locked
<1>2. CASE EditReadProject(x)
  <2>1. proc[x].ver \in Versions
    BY <1>2 DEF EditReadProject, TypeInv, Pointers
  <2>2. version[proc[x].ver].img \in Images \cup {None}
    BY <2>1 DEF TypeInv, AutopilotTypeOK, TypeOK, VersionRows
  <2>3. PICK hero \in BOOLEAN : hero = HeroReady(version[proc[x].ver].img)
    BY <2>2, HeroBoolean
  <2>4. PICK pc \in {"qa", "end"} : proc' = [proc EXCEPT ![x].pc = pc, ![x].hero = hero]
    BY <1>2, <2>3 DEF EditReadProject
  <2> DEFINE r == [proc[x] EXCEPT !.pc = pc, !.hero = hero]
  <2>5. proc' = [proc EXCEPT ![x] = r]
    BY <1>0, <2>4
  <2>6. r \in ProcRecs /\ r.pc = pc /\ r.ver = proc[x].ver
    BY <1>0 DEF ProcRecs, ProcSteps
  <2> HIDE DEF r
  <2>7. QED
    BY <1>0, <2>1, <2>5, <2>6, ProcReplaced DEF CallLeads, Beyond, Held, Locked
<1>3. CASE EditQa(x) \/ EditProjectStatus(x)
  <2>1. PICK pc \in {"edit_status", "end"} : Goto(x, pc)
    BY <1>3 DEF EditQa, EditProjectStatus
  <2>2. QED
    BY <1>0, <2>1, GotoMoves DEF ProcSteps, CallLeads, Beyond, Held, Locked
<1>4. QED
  BY <1>1, <1>2, <1>3

LEMMA CallGoesOnLeads ==
  ASSUME TypeInv, NEW x \in Procs, CallGoesOn(x)
  PROVE  CallLeads(x)
<1>0. AutopilotTypeOK /\ proc[x] \in ProcRecs
  BY DEF TypeInv, AutopilotTypeOK, TypeOK, ProcRecs
<1>1. CASE ApproveVersion(x) \/ ApproveProject(x)
  <2>1. PICK pc \in {"approve_project", "end", "approved"} : Goto(x, pc)
    BY <1>1 DEF ApproveVersion, ApproveProject
  <2>2. QED
    BY <1>0, <2>1, GotoMoves DEF ProcSteps, CallLeads, Beyond, Held, Locked
<1>2. CASE RequeueImage(x) \/ RequeueImageJob(x)
  <2>1. PICK pc \in {"add_image", "end", "rewrite"} : Goto(x, pc)
    BY <1>2 DEF RequeueImage, RequeueImageJob
  <2>2. proc[x].pc \in Held
    BY <1>2 DEF RequeueImage, RequeueImageJob, Held, Locked
  <2>3. QED
    BY <1>0, <2>1, <2>2, GotoMoves DEF ProcSteps, CallLeads, Beyond
<1>3. QED
  BY <1>1, <1>2, GenerationLeads, EditLeads DEF CallGoesOn

\* An operator's request may begin with any of the steps, and end.
LEMMA RequestLeads ==
  ASSUME TypeInv, NEW x \in Procs, RequestBegins(x) \/ RequestEnds(x)
  PROVE  /\ proc' \in [Procs -> ProcRecs]
         /\ \A y \in Procs : y # x => proc'[y] = proc[y]
         /\ proc'[x].pc \in {"edit", "edited", "qa"} => proc'[x].ver \in Versions
<1>0. AutopilotTypeOK /\ proc[x] \in ProcRecs /\ proc \in [Procs -> ProcRecs]
  BY DEF TypeInv, AutopilotTypeOK, TypeOK, ProcRecs
<1>1. CASE RequestEnds(x)
  <2> DEFINE r == [ProcIdle EXCEPT !.pc = "done"]
  <2>1. r \in ProcRecs /\ r.pc = "done"
    BY NullTypes DEF ProcRecs, ProcSteps
  <2>2. proc' = [proc EXCEPT ![x] = r]
    BY <1>1 DEF RequestEnds
  <2> HIDE DEF r
  <2>3. QED
    BY <1>0, <2>1, <2>2, ProcReplaced
<1>2. CASE RequestGenerate(x)
  <2> DEFINE r == [proc[x] EXCEPT !.pc = "number", !.op = "generate"]
  <2>1. r \in ProcRecs /\ r.pc = "number"
    BY <1>0 DEF ProcRecs, ProcSteps, ProcOps
  <2>2. proc' = [proc EXCEPT ![x] = r]
    BY <1>0, <1>2 DEF RequestGenerate
  <2> HIDE DEF r
  <2>3. QED
    BY <1>0, <2>1, <2>2, ProcReplaced
<1>3. CASE EditRead(x) \/ ApproveRead(x)
  <2>1. PICK v \in Versions, pc \in {"edit", "approve"} :
          proc' = [proc EXCEPT ![x].pc = pc, ![x].op = pc, ![x].ver = v]
    BY <1>3, LatestExists DEF EditRead, ApproveRead, Created
  <2>2. v \in Nat
    BY DEF Versions
  <2> DEFINE r == [proc[x] EXCEPT !.pc = pc, !.op = pc, !.ver = v]
  <2>3. r \in ProcRecs /\ r.ver = v
    BY <1>0, <2>2 DEF ProcRecs, ProcSteps, ProcOps
  <2>4. proc' = [proc EXCEPT ![x] = r]
    BY <1>0, <2>1
  <2> HIDE DEF r
  <2>5. QED
    BY <1>0, <2>3, <2>4, ProcReplaced
<1>4. CASE RetryImageRead(x) \/ AssetRequest(x)
  <2>1. PICK i \in Images, pc \in {"requeue", "add_image"}, op \in {"retry_image", "asset"} :
          proc' = [proc EXCEPT ![x].pc = pc, ![x].op = op, ![x].seen.img = i]
    BY <1>4 DEF RetryImageRead, AssetRequest
  <2> DEFINE seen == [proc[x].seen EXCEPT !.img = i]
             r == [proc[x] EXCEPT !.pc = pc, !.op = op, !.seen = seen]
  <2>2. proc' = [proc EXCEPT ![x] = r]
    BY <1>0, <2>1 DEF ProcRecs
  <2>3. seen \in VersionRows
    <3>1. proc[x].seen \in VersionRows
      BY <1>0 DEF ProcRecs
    <3>2. QED
      BY <3>1 DEF VersionRows
  <2> HIDE DEF seen
  <2>4. r \in ProcRecs /\ r.pc = pc
    BY <1>0, <2>3 DEF ProcRecs, ProcSteps, ProcOps
  <2> HIDE DEF r
  <2>5. QED
    BY <1>0, <2>2, <2>4, ProcReplaced
<1>5. QED
  BY <1>1, <1>2, <1>3, <1>4 DEF RequestBegins

Request(x) == RequestBegins(x) \/ CallGoesOn(x) \/ RequestEnds(x)

LEMMA RequestRows ==
  ASSUME TypeInv, NEW x \in Procs, Request(x)
  PROVE  /\ version' \in [Versions -> VersionRows] /\ RowsKept
         /\ passed' \subseteq Versions \X Nat
<1>0. /\ version \in [Versions -> VersionRows] /\ proc[x] \in ProcRecs
      /\ AutopilotTypeOK /\ passed \subseteq Versions \X Nat
  BY DEF TypeInv, AutopilotTypeOK, TypeOK, ProcRecs
<1> DEFINE v == proc[x].ver
<1>1. CASE UNCHANGED <<version, passed>>
  BY <1>0, <1>1, SameRows
<1>2. CASE CreateVersion(x)
  <2>1. CASE UNCHANGED version
    BY <1>0, <1>2, <2>1, SameRows DEF CreateVersion
  <2>2. CASE /\ version[v].status = "none"
             /\ version' = [version EXCEPT ![v] = [NoVersion EXCEPT !.status = "draft"]]
    <3>1. [NoVersion EXCEPT !.status = "draft"] \in VersionRows
      BY NullTypes, RowUpdates DEF VersionStatus
    <3>2. QED
      BY <1>0, <1>2, <2>2, <3>1, OneRow DEF CreateVersion
  <2>3. QED
    BY <1>2, <2>1, <2>2 DEF CreateVersion
<1>3. CASE EditWrite(x)
  <2>1. PICK b \in Bodies : version' = [version EXCEPT ![v].body = b]
    BY <1>0, <1>3, NewBodiesType DEF EditWrite
  <2>2. v \in Versions
    BY <1>3 DEF EditWrite, TypeInv, Pointers
  <2> DEFINE row == [version[v] EXCEPT !.body = b]
  <2>3. row \in VersionRows /\ row.status = version[v].status /\ row.lock = version[v].lock
    BY <1>0, <2>2 DEF VersionRows
  <2>4. version' = [version EXCEPT ![v] = row]
    BY <1>0, <2>1
  <2> HIDE DEF row
  <2>5. QED
    BY <1>0, <1>3, <2>3, <2>4, OneRow DEF EditWrite
<1>4. CASE EditQa(x)
  <2>1. v \in Versions
    BY <1>4 DEF EditQa, TypeInv, Pointers
  <2>2. proc[x].body \in Bodies /\ proc[x].hero \in BOOLEAN
    BY <1>0 DEF ProcRecs
  <2>3. QED
    BY <1>4, <2>1, <2>2, VerdictWritten DEF EditQa
<1>5. CASE ApproveVersion(x)
  <2> DEFINE row == [version[v] EXCEPT !.status = "approved"]
  <2>1. v \in Versions =>
          row \in VersionRows /\ row.status = "approved" /\ row.lock = version[v].lock
    BY <1>0 DEF VersionRows, VersionStatus
  <2>2. version' = [version EXCEPT ![v] = row]
    BY <1>0, <1>5 DEF ApproveVersion
  <2> HIDE DEF row
  <2>3. QED
    BY <1>0, <1>5, <2>1, <2>2, OneRow DEF ApproveVersion
<1>6. CASE AssetRequest(x)
  <2>1. PICK u \in Versions, i \in Images : NewImage(u, i)
    BY <1>6 DEF AssetRequest, Created
  <2>2. QED
    BY <1>0, <1>6, <2>1, NewImageType DEF AssetRequest
<1>7. QED
  BY <1>1, <1>2, <1>3, <1>4, <1>5, <1>6
     DEF Request, RequestBegins, RequestGenerate, EditRead, ApproveRead, RetryImageRead,
         RequestEnds, CallGoesOn, Generation, ReadLatestNumber, EnqueueText, ProjectDraft,
         ProjectGenerating, EditReadProject, EditProjectStatus, ApproveProject, RequeueImage,
         RequeueImageJob

LEMMA RequestTypes ==
  ASSUME TypeInv, NEW x \in Procs, Request(x), UNCHANGED <<ctl, rows>>
  PROVE  AutopilotTypeOK' /\ RowsKept /\ UNCHANGED <<tw, sync>>
<1>0. /\ TypeOK /\ proc[x] \in ProcRecs /\ UNCHANGED <<tw, sync, failures>>
  BY DEF TypeInv, AutopilotTypeOK, TypeOK, ProcRecs, Request, RequestBegins, RequestGenerate,
         EditRead, ApproveRead, RetryImageRead, AssetRequest, RequestEnds, CallGoesOn, Generation,
         ReadLatestNumber, CreateVersion, EnqueueText, ProjectDraft, ProjectGenerating,
         EditWrite, EditReadProject, EditQa, EditProjectStatus, ApproveVersion,
         ApproveProject, RequeueImage, RequeueImageJob
<1>1. project' \in [status : ProjectStatus, sub : Substates]
  <2>1. CASE UNCHANGED project
    BY <1>0, <2>1 DEF TypeOK
  <2>2. CASE ProjectDraft(x) \/ ProjectGenerating(x) \/ EditProjectStatus(x) \/ ApproveProject(x)
    BY <1>0, <2>2, ReviewedType
       DEF TypeOK, ProjectDraft, ProjectGenerating, EditProjectStatus, ApproveProject,
           ProjectStatus, Substates
  <2>3. QED
    BY <2>1, <2>2
       DEF Request, RequestBegins, RequestGenerate, EditRead, ApproveRead, RetryImageRead, AssetRequest,
           RequestEnds, CallGoesOn, Generation, ReadLatestNumber, CreateVersion, EnqueueText,
           EditWrite, EditReadProject, EditQa, ApproveVersion, RequeueImage, RequeueImageJob
<1>2. textJob' \in [Versions -> Jobs]
  <2>1. CASE UNCHANGED textJob
    BY <1>0, <2>1 DEF TypeOK
  <2>2. CASE EnqueueText(x)
    BY <1>0, <2>2, PipelineJobUpdates DEF TypeOK, EnqueueText
  <2>3. QED
    BY <2>1, <2>2
       DEF Request, RequestBegins, RequestGenerate, EditRead, ApproveRead, RetryImageRead, AssetRequest,
           RequestEnds, CallGoesOn, Generation, ReadLatestNumber, CreateVersion, ProjectDraft,
           ProjectGenerating, EditWrite, EditReadProject, EditQa, EditProjectStatus,
           ApproveVersion, ApproveProject, RequeueImage, RequeueImageJob
<1>3. /\ image' \in [Images -> ImageRows]
      /\ imageJob' \in [ImageJobs -> [img : Images \cup {None}, job : Jobs]]
  <2>1. CASE UNCHANGED <<image, imageJob>>
    BY <1>0, <2>1 DEF TypeOK
  <2>2. CASE RequeueImage(x)
    BY <1>0, <2>2, ZenonT(60) DEF TypeOK, RequeueImage, ImageRows
  <2>3. CASE RequeueImageJob(x)
    <3>1. proc[x].seen.img \in Images \cup {None}
      BY <1>0 DEF ProcRecs, VersionRows
    <3>2. Added(NoJob) \in Jobs
      BY NullTypes, PipelineJobUpdates
    <3>3. QED
      BY <1>0, <2>3, <3>1, <3>2 DEF TypeOK, RequeueImageJob, AddImageJob
  <2>4. CASE AssetRequest(x)
    <3>1. PICK u \in Versions, i \in Images : NewImage(u, i)
      BY <2>4 DEF AssetRequest, Created
    <3>2. UNCHANGED imageJob
      BY <2>4 DEF AssetRequest
    <3>3. QED
      BY <1>0, <3>1, <3>2, NewImageType DEF TypeOK
  <2>5. QED
    BY <2>1, <2>2, <2>3, <2>4
       DEF Request, RequestBegins, RequestGenerate, EditRead, ApproveRead, RetryImageRead,
           RequestEnds, CallGoesOn, Generation, ReadLatestNumber, CreateVersion, EnqueueText,
           ProjectDraft, ProjectGenerating, EditWrite, EditReadProject, EditQa,
           EditProjectStatus, ApproveVersion, ApproveProject
<1>4. revs' \in Nat
  <2>1. CASE UNCHANGED revs
    BY <1>0, <2>1 DEF TypeOK
  <2>2. CASE EditWrite(x)
    BY <2>2, NewBodiesType DEF EditWrite, TypeInv
  <2>3. QED
    BY <2>1, <2>2
       DEF Request, RequestBegins, RequestGenerate, EditRead, ApproveRead, RetryImageRead, AssetRequest,
           RequestEnds, CallGoesOn, Generation, ReadLatestNumber, CreateVersion, EnqueueText,
           ProjectDraft, ProjectGenerating, EditReadProject, EditQa, EditProjectStatus,
           ApproveVersion, ApproveProject, RequeueImage, RequeueImageJob
<1>5. proc' \in [Procs -> ProcRecs]
  BY RequestLeads, CallGoesOnLeads DEF Request, CallLeads
<1>6. TypeOK'
  BY <1>0, <1>1, <1>2, <1>3, <1>4, <1>5, RequestRows DEF TypeOK, ProcRecs
<1>7. QED
  BY <1>0, <1>6, RequestRows DEF TypeInv, AutopilotTypeOK

\* Pointers, when one process has moved to a step where it needs none of them.
LEMMA PointersKept ==
  ASSUME TypeInv, Created \subseteq Created', UNCHANGED <<tw, sync>>, NEW x \in Procs,
         \A y \in Procs : y # x => proc'[y] = proc[y],
         proc'[x].pc \in {"edit", "edited", "qa"} => proc'[x].ver \in Versions,
         \A y \in Controllers : y # x => ctl'[y] = ctl[y],
         x \in Controllers => /\ proc'[x].pc = "repair" => Created # {}
                              /\ proc'[x].pc \in Trying \cup {"claim"} => ctl'[x].target \in Created
  PROVE  Pointers'
<1>1. Controllers \subseteq Procs
  BY AutopilotConstants
<1>2. Created \subseteq Created'
  OBVIOUS
<1>3. \A y \in Procs : proc'[y].pc \in {"edit", "edited", "qa"} => proc'[y].ver \in Versions
  BY DEF TypeInv, Pointers
<1>4. \A y \in Controllers : proc'[y].pc = "repair" => Created' # {}
  BY <1>1, <1>2 DEF TypeInv, Pointers
<1>5. \A y \in Controllers : proc'[y].pc \in Trying \cup {"claim"} => ctl'[y].target \in Created'
  BY <1>1, <1>2 DEF TypeInv, Pointers
<1>6. QED
  BY <1>3, <1>4, <1>5 DEF TypeInv, Pointers

LEMMA OperatorKeeps ==
  ASSUME TypeInv, NEW x \in Operators, Request(x), UNCHANGED <<ctl, rows>>
  PROVE  TypeInv' /\ RowsKept
<1>1. x \in Procs /\ x \notin Controllers
  BY DEF Operators
<1>2. AutopilotTypeOK' /\ RowsKept /\ UNCHANGED <<tw, sync>>
  BY <1>1, RequestTypes
<1>3. /\ \A y \in Procs : y # x => proc'[y] = proc[y]
      /\ proc'[x].pc \in {"edit", "edited", "qa"} => proc'[x].ver \in Versions
  BY <1>1, RequestLeads, CallGoesOnLeads DEF Request, CallLeads
<1>4. Pointers'
  BY <1>1, <1>2, <1>3, PointersKept DEF RowsKept
<1>5. QED
  BY <1>2, <1>4 DEF TypeInv

LEMMA ControllerCallKeeps ==
  ASSUME TypeInv, NEW x \in Controllers, CallGoesOn(x), UNCHANGED <<ctl, rows>>
  PROVE  TypeInv' /\ RowsKept
<1>1. x \in Procs
  BY AutopilotConstants
<1>2. AutopilotTypeOK' /\ RowsKept /\ UNCHANGED <<tw, sync>>
  BY <1>1, RequestTypes DEF Request
<1>3. CallLeads(x)
  BY <1>1, CallGoesOnLeads
<1>4. proc'[x].pc \in Trying \cup {"claim"} => ctl'[x].target \in Created
  BY <1>3 DEF CallLeads, TypeInv, Pointers, Trying
<1>5. Pointers'
  BY <1>1, <1>2, <1>3, <1>4, PointersKept DEF CallLeads, RowsKept
<1>6. QED
  BY <1>2, <1>5 DEF TypeInv

-----------------------------------------------------------------------------
(* The steps of a controller *)

\* Where the step of a controller leads: it names only rows that are there, and
\* it holds a lock afterwards only if it did before or has just claimed it.
Led(x) ==
  /\ proc' \in [Procs -> ProcRecs] /\ ctl' \in [Controllers -> CtlRecs]
  /\ \A y \in Procs : y # x => proc'[y] = proc[y]
  /\ \A y \in Controllers : y # x => ctl'[y] = ctl[y]
  /\ proc'[x].pc \notin {"edit", "edited", "qa"}
  /\ proc'[x].pc = "repair" => Created # {}
  /\ proc'[x].pc = "claim" => ctl'[x].target \in Created
  /\ proc'[x].pc \in Trying => ctl'[x] = ctl[x] /\ ctl[x].target \in Created
  /\ proc'[x].pc \in Held => \/ proc[x].pc \in Held
                             \/ ClaimRepair(x) \/ RepairThrows(x)

LEMMA ControllerFacts ==
  ASSUME TypeInv, NEW x \in Controllers
  PROVE  /\ x \in Procs /\ proc[x] \in ProcRecs /\ proc \in [Procs -> ProcRecs]
         /\ ctl[x] \in CtlRecs /\ ctl \in [Controllers -> CtlRecs]
         /\ version \in [Versions -> VersionRows]
         /\ proc[x].pc \in Trying \cup {"claim"} => ctl[x].target \in Created
         /\ Created \subseteq Versions
  BY AutopilotConstants
     DEF TypeInv, AutopilotTypeOK, TypeOK, ProcRecs, CtlRecs, Pointers, Created

LEMMA GotoLed ==
  ASSUME TypeInv, NEW x \in Controllers, NEW pc \in ProcSteps, Goto(x, pc), UNCHANGED ctl,
         pc \notin {"edit", "edited", "qa", "repair", "claim"},
         pc \in Trying => proc[x].pc \in Trying,
         pc \in Held => proc[x].pc \in Held \/ RepairThrows(x)
  PROVE  Led(x)
<1>1. x \in Procs /\ ctl \in [Controllers -> CtlRecs]
      /\ (proc[x].pc \in Trying => ctl[x].target \in Created)
  BY ControllerFacts
<1>2. /\ proc' \in [Procs -> ProcRecs] /\ proc'[x].pc = pc
      /\ \A y \in Procs : y # x => proc'[y] = proc[y]
  BY <1>1, GotoMoves DEF TypeInv
<1>3. QED
  BY <1>1, <1>2 DEF Led

LEMMA ReplacedLed ==
  ASSUME TypeInv, NEW x \in Controllers, NEW r \in ProcRecs, proc' = [proc EXCEPT ![x] = r],
         UNCHANGED ctl, r.pc \notin {"edit", "edited", "qa", "repair", "claim"},
         proc[x].pc \in Held
  PROVE  Led(x)
<1>1. x \in Procs /\ ctl \in [Controllers -> CtlRecs] /\ ctl[x].target \in Created
  BY ControllerFacts DEF Trying
<1>2. /\ proc' \in [Procs -> ProcRecs] /\ proc'[x] = r
      /\ \A y \in Procs : y # x => proc'[y] = proc[y]
  BY <1>1, ProcReplaced DEF TypeInv
<1>3. QED
  BY <1>1, <1>2 DEF Led

\* What a controller read of the latest version.
LEMMA SeenLatest ==
  ASSUME TypeInv, Latest # 0
  PROVE  /\ Latest \in Created /\ version[Latest] \in VersionRows
         /\ version[Latest].status \in VersionStatus \ {"none"}
         /\ HeroReady(version[Latest].img) \in BOOLEAN
<1>1. Latest \in Created /\ Latest \in Versions
  BY LatestExists
<1>2. version[Latest] \in VersionRows
  BY <1>1 DEF TypeInv, AutopilotTypeOK, TypeOK
<1>3. version[Latest].img \in Images \cup {None} /\ version[Latest].status \in VersionStatus
  BY <1>2 DEF VersionRows
<1>4. QED
  BY <1>1, <1>2, <1>3, HeroBoolean DEF Created

LEMMA SnapshotLed ==
  ASSUME TypeInv, NEW x \in Controllers, UNCHANGED ctl,
         NEW op \in ProcOps, NEW pc \in {"number", "substate", "repair", "approve", "ensure"},
         Snapshot(x, op, pc), pc = "repair" => Latest # 0
  PROVE  Led(x)
<1>1. PICK seen \in VersionRows, hero \in BOOLEAN :
        /\ seen = IF Latest = 0 THEN NoVersion ELSE version[Latest]
        /\ hero = (Latest # 0 /\ HeroReady(version[Latest].img))
  <2>1. (IF Latest = 0 THEN NoVersion ELSE version[Latest]) \in VersionRows
    BY SeenLatest, NullTypes
  <2>2. (Latest # 0 /\ HeroReady(version[Latest].img)) \in BOOLEAN
    BY SeenLatest
  <2>3. QED
    BY <2>1, <2>2
<1> DEFINE n == Latest
           r == [ProcIdle EXCEPT !.pc = pc, !.op = op, !.ver = n, !.seen = seen, !.hero = hero]
<1>2. proc' = [proc EXCEPT ![x] = r]
  BY <1>1 DEF Snapshot
<1>3. n \in Nat
  BY LatestCreated
<1> HIDE DEF n
<1>4. r \in ProcRecs /\ r.pc = pc
  BY <1>3, NullTypes DEF ProcRecs, ProcSteps
<1> HIDE DEF r
<1>5. pc = "repair" => Created # {}
  BY LatestCreated
<1>6. x \in Procs /\ ctl \in [Controllers -> CtlRecs]
  BY ControllerFacts
<1>7. QED
  BY <1>2, <1>4, <1>5, <1>6, ProcReplaced DEF Led, Trying, Beyond, Held, Locked, TypeInv

\* The steps that leave versions, rows of publications and what is remembered.
Looks(x) == \/ TickReads(x) \/ RecoveryReads(x) \/ WriteWaiting(x) \/ Plan(x) \/ Hopeless(x)
            \/ RetryImage(x) \/ Rewrite(x) \/ RepairRereads(x) \/ RepairedProject(x)
            \/ MarkIntervention(x) \/ RepairPassed(x) \/ WriteAutoApproved(x) \/ RowsCreated(x)
            \/ RepairThrows(x)

LEMMA LooksLed ==
  ASSUME TypeInv, NEW x \in Controllers, Looks(x)
  PROVE  Led(x)
<1>0. /\ x \in Procs /\ proc[x] \in ProcRecs /\ proc \in [Procs -> ProcRecs]
      /\ version \in [Versions -> VersionRows] /\ UNCHANGED ctl
      /\ proc[x].pc \in Held => ctl[x].target \in Versions
  <2>1. UNCHANGED ctl
    BY DEF Looks, TickReads, RecoveryReads, WriteWaiting, Plan, Hopeless, RetryImage, Rewrite,
           RepairRereads, RepairedProject, MarkIntervention, RepairPassed, WriteAutoApproved,
           RowsCreated, RepairThrows
  <2>2. QED
    BY <2>1, ControllerFacts DEF Trying
<1>1. CASE TickReads(x)
  <2>1. CASE Latest = 0
    BY <1>0, <1>1, <2>1, SnapshotLed DEF TickReads, ProcOps
  <2>2. CASE Latest # 0
    <3>1. version[Latest].status \in VersionStatus \ {"none"}
      BY <2>2, SeenLatest
    <3>2. \E pc \in {"substate", "repair", "approve", "ensure"} : Snapshot(x, "tick", pc)
      BY <1>1, <2>2, <3>1 DEF TickReads, VersionStatus
    <3>3. QED
      BY <1>0, <2>2, <3>2, SnapshotLed DEF ProcOps
  <2>3. QED
    BY <2>1, <2>2
<1>2. CASE RecoveryReads(x)
  <2>1. /\ Latest # 0
        /\ \E op \in {"recover", "recover_failed"}, pc \in {"repair", "approve", "ensure"} :
             Snapshot(x, op, pc)
    BY <1>2 DEF RecoveryReads
  <2>2. QED
    BY <1>0, <2>1, SnapshotLed DEF ProcOps
<1>3. CASE \/ WriteWaiting(x) \/ RepairedProject(x) \/ MarkIntervention(x)
           \/ RepairPassed(x) \/ WriteAutoApproved(x) \/ RowsCreated(x)
  <2>1. PICK pc \in {"end", "passed", "exhausted", "approve", "ensure"} :
          Goto(x, pc) /\ (pc = "exhausted" => proc[x].pc = "repaired")
    BY <1>3 DEF WriteWaiting, RepairedProject, MarkIntervention, RepairPassed,
                WriteAutoApproved, RowsCreated
  <2>2. QED
    BY <1>0, <2>1, GotoLed DEF ProcSteps, Trying, Beyond, Held, Locked
<1>4. CASE Plan(x) \/ Hopeless(x) \/ RetryImage(x) \/ RepairThrows(x)
  <2>1. PICK pc \in {"hopeless", "image", "rewrite", "give_up", "requeue"} : Goto(x, pc)
    BY <1>4 DEF Plan, Hopeless, RetryImage, RepairThrows
  <2>2. proc[x].pc \in Trying /\ (proc[x].pc \in Held \/ RepairThrows(x))
    BY <1>4 DEF Plan, Hopeless, RetryImage, RepairThrows, Trying, Beyond, Held, Locked
  <2>3. QED
    BY <1>0, <2>1, <2>2, GotoLed DEF ProcSteps
<1>5. CASE Rewrite(x)
  <2>1. PICK b \in Bodies : proc' = [proc EXCEPT ![x].pc = "store", ![x].body = b]
    <3>1. proc[x].seen.body \in Bodies
      BY <1>0 DEF ProcRecs, VersionRows
    <3>2. QED
      BY <1>5, <3>1, NewBodiesType DEF Rewrite, TypeInv
  <2> DEFINE r == [proc[x] EXCEPT !.pc = "store", !.body = b]
  <2>2. proc' = [proc EXCEPT ![x] = r]
    BY <1>0, <2>1
  <2>3. r \in ProcRecs /\ r.pc = "store"
    BY <1>0 DEF ProcRecs, ProcSteps
  <2> HIDE DEF r
  <2>4. proc[x].pc \in Held
    BY <1>5 DEF Rewrite, Held, Locked
  <2>5. QED
    BY <1>0, <2>2, <2>3, <2>4, ReplacedLed
<1>6. CASE RepairRereads(x)
  <2>1. proc[x].pc \in Held
    BY <1>6 DEF RepairRereads, Held, Locked
  <2>2. version[ctl[x].target] \in VersionRows
    BY <1>0, <2>1
  <2> DEFINE seen == version[ctl[x].target]
             r == [proc[x] EXCEPT !.pc = "judge", !.seen = seen]
  <2>3. proc' = [proc EXCEPT ![x] = r]
    BY <1>0, <1>6 DEF RepairRereads
  <2>4. seen \in VersionRows
    BY <2>2
  <2> HIDE DEF seen
  <2>5. r \in ProcRecs /\ r.pc = "judge"
    BY <1>0, <2>4 DEF ProcRecs, ProcSteps
  <2> HIDE DEF r
  <2>6. QED
    BY <1>0, <2>1, <2>3, <2>5, ReplacedLed
<1>7. QED
  BY <1>1, <1>2, <1>3, <1>4, <1>5, <1>6 DEF Looks

LEMMA RepairReadsLed ==
  ASSUME TypeInv, NEW x \in Controllers, RepairReads(x)
  PROVE  Led(x)
<1>0. /\ x \in Procs /\ proc[x] \in ProcRecs /\ proc \in [Procs -> ProcRecs]
      /\ ctl[x] \in CtlRecs /\ ctl \in [Controllers -> CtlRecs]
  BY ControllerFacts
<1>1. Created # {}
  BY DEF RepairReads, TypeInv, Pointers
<1>2. Latest \in Created /\ Latest # 0
  BY <1>1, LatestCreated DEF Versions
<1>3. PICK hero \in BOOLEAN, pc \in {"passed", "intervention", "claim"} :
        proc' = [proc EXCEPT ![x].seen = version[Latest], ![x].hero = hero, ![x].pc = pc]
  <2>1. HeroReady(version[Latest].img) \in BOOLEAN
    BY <1>2, SeenLatest
  <2>2. PICK hero \in BOOLEAN : hero = HeroReady(version[Latest].img)
    BY <2>1
  <2>3. \E pc \in {"passed", "intervention", "claim"} :
          proc' = [proc EXCEPT ![x].seen = version[Latest], ![x].hero = hero, ![x].pc = pc]
    BY <2>2 DEF RepairReads
  <2>4. QED
    BY <2>3
<1>4. version[Latest] \in VersionRows
  BY <1>2, SeenLatest
<1> DEFINE seen == version[Latest]
           r == [proc[x] EXCEPT !.seen = seen, !.hero = hero, !.pc = pc]
<1>5. proc' = [proc EXCEPT ![x] = r]
  BY <1>0, <1>3
<1>6. seen \in VersionRows
  BY <1>4
<1> HIDE DEF seen
<1>7. r \in ProcRecs /\ r.pc = pc
  BY <1>0, <1>6 DEF ProcRecs, ProcSteps
<1> HIDE DEF r
<1>8. ctl' = [ctl EXCEPT ![x].target = Latest] /\ Latest \in Nat
  BY LatestCreated DEF RepairReads
<1>9. ctl' \in [Controllers -> CtlRecs] /\ ctl'[x].target = Latest
      /\ \A y \in Controllers : y # x => ctl'[y] = ctl[y]
  BY <1>0, <1>8 DEF CtlRecs
<1>10. QED
  BY <1>0, <1>2, <1>5, <1>7, <1>9, ProcReplaced DEF Led, Trying, Beyond, Held, Locked, TypeInv

LEMMA RepairWritesLed ==
  ASSUME TypeInv, NEW x \in Controllers,
         ClaimRepair(x) \/ GiveUp(x) \/ StoreRepair(x) \/ JudgeRepair(x)
  PROVE  Led(x)
<1>0. x \in Procs /\ ctl \in [Controllers -> CtlRecs] /\ UNCHANGED ctl
      /\ (proc[x].pc \in Trying \cup {"claim"} => ctl[x].target \in Created)
  BY ControllerFacts DEF ClaimRepair, GiveUp, StoreRepair, JudgeRepair
<1>1. CASE ClaimRepair(x)
  <2>1. PICK pc \in {"end", "plan"} : Goto(x, pc)
    BY <1>1 DEF ClaimRepair
  <2>2. proc' \in [Procs -> ProcRecs] /\ proc'[x].pc = pc
        /\ \A y \in Procs : y # x => proc'[y] = proc[y]
    BY <1>0, <2>1, GotoMoves DEF ProcSteps, TypeInv
  <2>3. ctl[x].target \in Created
    BY <1>0, <1>1 DEF ClaimRepair
  <2>4. QED
    BY <1>0, <1>1, <2>2, <2>3 DEF Led, Trying, Beyond
<1>2. CASE GiveUp(x) \/ StoreRepair(x) \/ JudgeRepair(x)
  <2>1. PICK pc \in {"end", "fresh", "repaired"} : Goto(x, pc)
    BY <1>2 DEF GiveUp, StoreRepair, JudgeRepair
  <2>2. proc[x].pc \in Held
    BY <1>2 DEF GiveUp, StoreRepair, JudgeRepair, Held, Locked
  <2>3. QED
    BY <1>0, <2>1, <2>2, GotoLed DEF ProcSteps, Trying
<1>3. QED
  BY <1>1, <1>2

LEMMA ControllerEndsLed ==
  ASSUME TypeInv, NEW x \in Controllers,
         FindMissing(x) \/ CreateRow(x) \/ ControllerEnds(x) \/ ControllerDies(x)
  PROVE  Led(x)
<1>0. /\ x \in Procs /\ proc[x] \in ProcRecs /\ proc \in [Procs -> ProcRecs]
      /\ ctl[x] \in CtlRecs /\ ctl \in [Controllers -> CtlRecs]
  BY ControllerFacts
<1>1. CASE FindMissing(x)
  <2>1. PICK missing \in SUBSET Channels :
          ctl' = [ctl EXCEPT ![x].missing = missing, ![x].created = FALSE]
    BY <1>1 DEF FindMissing
  <2>2. ctl' \in [Controllers -> CtlRecs] /\ \A y \in Controllers : y # x => ctl'[y] = ctl[y]
    BY <1>0, <2>1 DEF CtlRecs
  <2>3. /\ proc' \in [Procs -> ProcRecs] /\ proc'[x].pc = "create_rows"
        /\ \A y \in Procs : y # x => proc'[y] = proc[y]
    BY <1>0, <1>1, GotoMoves DEF FindMissing, ProcSteps, TypeInv
  <2>4. QED
    BY <2>2, <2>3 DEF Led, Trying, Beyond, Held, Locked
<1>2. CASE CreateRow(x)
  <2>1. PICK c \in ctl[x].missing :
          ctl' = [ctl EXCEPT ![x].missing = ctl[x].missing \ {c}, ![x].created = TRUE]
    BY <1>0, <1>2 DEF CreateRow
  <2>2. ctl[x].missing \ {c} \in SUBSET Channels
    BY <1>0 DEF CtlRecs
  <2>3. ctl' \in [Controllers -> CtlRecs] /\ \A y \in Controllers : y # x => ctl'[y] = ctl[y]
    BY <1>0, <2>1, <2>2 DEF CtlRecs
  <2>4. UNCHANGED proc /\ proc[x].pc = "create_rows"
    BY <1>2 DEF CreateRow
  <2>5. QED
    BY <1>0, <2>3, <2>4 DEF Led, Trying, Beyond, Held, Locked
<1>3. CASE ControllerEnds(x) \/ ControllerDies(x)
  <2>1. PICK pc \in {"idle", "done"} : proc' = [proc EXCEPT ![x] = [ProcIdle EXCEPT !.pc = pc]]
    BY <1>3 DEF ControllerEnds, ControllerDies
  <2> DEFINE r == [ProcIdle EXCEPT !.pc = pc]
  <2>2. r \in ProcRecs /\ r.pc = pc
    BY NullTypes DEF ProcRecs, ProcSteps
  <2>3. proc' = [proc EXCEPT ![x] = r]
    BY <2>1
  <2> HIDE DEF r
  <2>4. ctl' = [ctl EXCEPT ![x] = CtlIdle]
    BY <1>3 DEF ControllerEnds, ControllerDies
  <2>5. ctl' \in [Controllers -> CtlRecs] /\ \A y \in Controllers : y # x => ctl'[y] = ctl[y]
    BY <1>0, <2>4, NullTypes
  <2>6. QED
    BY <1>0, <2>2, <2>3, <2>5, ProcReplaced DEF Led, Trying, Beyond, Held, Locked, TypeInv
<1>4. QED
  BY <1>1, <1>2, <1>3

\* What a controller does itself, next to the calls it shares with requests.
Controls(x) == \/ Looks(x) \/ RepairReads(x) \/ ClaimRepair(x) \/ GiveUp(x) \/ StoreRepair(x)
               \/ JudgeRepair(x) \/ FindMissing(x) \/ CreateRow(x) \/ ControllerEnds(x)
               \/ ControllerDies(x)

LEMMA ControllerCases ==
  ASSUME NEW x, \/ TickReads(x) \/ RecoveryReads(x) \/ ControllerGoesOn(x)
                \/ RepairThrows(x) \/ ControllerDies(x)
  PROVE  Controls(x) \/ (CallGoesOn(x) /\ UNCHANGED <<ctl, rows>>)
<1>1. RepairCycle(x) => Controls(x)
  BY DEF Controls, Looks, RepairCycle
<1>2. ControllerGoesOn(x) => Controls(x) \/ (CallGoesOn(x) /\ UNCHANGED <<ctl, rows>>)
  BY <1>1 DEF Controls, Looks, ControllerGoesOn
<1>3. QED
  BY <1>2 DEF Controls, Looks

LEMMA ControlsLed ==
  ASSUME TypeInv, NEW x \in Controllers, Controls(x)
  PROVE  Led(x)
  BY LooksLed, RepairReadsLed, RepairWritesLed, ControllerEndsLed DEF Controls

\* What a controller writes into the versions.
LEMMA ControlsRows ==
  ASSUME TypeInv, NEW x \in Controllers, Controls(x)
  PROVE  /\ version' \in [Versions -> VersionRows] /\ passed' \subseteq Versions \X Nat
         /\ Created \subseteq Created'
         /\ \/ RowsKept
            \/ /\ ctl[x].target \in Versions /\ proc'[x].pc \notin Held
               /\ proc[x].pc \in Held
               /\ \A u \in Versions : u # ctl[x].target => version'[u] = version[u]
            \/ /\ ClaimRepair(x) /\ ctl[x].target \in Versions
               /\ version[ctl[x].target].lock # "held"
               /\ version'[ctl[x].target].lock = "held"
               /\ \A u \in Versions : u # ctl[x].target => version'[u] = version[u]
<1>0. /\ version \in [Versions -> VersionRows] /\ proc[x] \in ProcRecs /\ x \in Procs
      /\ passed \subseteq Versions \X Nat
      /\ proc[x].pc \in Held \cup {"claim"} => ctl[x].target \in Versions
  BY ControllerFacts DEF TypeInv, AutopilotTypeOK, TypeOK, Trying
<1> DEFINE v == ctl[x].target
<1>row. ASSUME NEW row \in VersionRows, row.status = version[v].status, v \in Versions,
              version' = [version EXCEPT ![v] = row]
        PROVE  /\ version' \in [Versions -> VersionRows] /\ Created \subseteq Created'
               /\ version'[v] = row
               /\ \A u \in Versions : u # v => version'[u] = version[u]
  BY <1>0, <1>row DEF Created
<1>moves. ASSUME NEW pc \in ProcSteps, Goto(x, pc) PROVE proc'[x].pc = pc
  BY <1>0, <1>moves, GotoMoves DEF TypeInv
<1>1. CASE UNCHANGED <<version, passed>>
  <2>1. RowsKept
    BY <1>1, SameRows
  <2>2. Created \subseteq Created'
    BY <2>1 DEF RowsKept
  <2>3. QED
    BY <1>0, <1>1, <2>1, <2>2
<1>2. CASE ClaimRepair(x)
  <2>1. CASE UNCHANGED version
    BY <1>1, <1>2, <2>1 DEF ClaimRepair
  <2>2. CASE version[v].lock # "held" /\ version' = [version EXCEPT ![v].lock = "held"]
    <3>1. v \in Versions
      BY <1>0, <1>2 DEF ClaimRepair
    <3> DEFINE row == [version[v] EXCEPT !.lock = "held"]
    <3>2. row \in VersionRows /\ row.status = version[v].status /\ row.lock = "held"
      BY <1>0, <3>1 DEF VersionRows
    <3>3. version' = [version EXCEPT ![v] = row]
      BY <1>0, <2>2
    <3> HIDE DEF row
    <3>4. QED
      BY <1>0, <1>2, <1>row, <2>2, <3>1, <3>2, <3>3 DEF ClaimRepair
  <2>3. QED
    BY <1>2, <2>1, <2>2 DEF ClaimRepair
<1>3. CASE GiveUp(x)
  <2>1. v \in Versions /\ proc[x].pc \in Held
    BY <1>0, <1>3 DEF GiveUp, Held, Locked
  <2> DEFINE n == version[v].tries + 1
             row == [version[v] EXCEPT !.lock = "free", !.tries = n]
  <2>2. version' = [version EXCEPT ![v] = row]
    BY <1>0, <1>3, <2>1 DEF GiveUp
  <2>3. n \in Nat
    BY <1>0, <2>1 DEF VersionRows
  <2> HIDE DEF n
  <2>4. row \in VersionRows /\ row.status = version[v].status
    BY <1>0, <2>1, <2>3 DEF VersionRows
  <2> HIDE DEF row
  <2>5. proc'[x].pc = "end"
    BY <1>3, <1>moves DEF GiveUp, ProcSteps
  <2>6. QED
    BY <1>0, <1>3, <1>row, <2>1, <2>2, <2>4, <2>5 DEF GiveUp, Held, Locked
<1>4. CASE StoreRepair(x)
  <2>1. v \in Versions
    BY <1>0, <1>4 DEF StoreRepair, Held, Locked
  <2>2. proc[x].body \in Bodies
    BY <1>0 DEF ProcRecs
  <2> DEFINE n == version[v].tries + 1
             row == [version[v] EXCEPT !.body = proc[x].body, !.tries = n]
  <2>3. version' = [version EXCEPT ![v] = row]
    BY <1>0, <1>4, <2>1 DEF StoreRepair
  <2>4. n \in Nat
    BY <1>0, <2>1 DEF VersionRows
  <2> HIDE DEF n
  <2>5. row \in VersionRows /\ row.status = version[v].status /\ row.lock = version[v].lock
    BY <1>0, <2>1, <2>2, <2>4 DEF VersionRows
  <2> HIDE DEF row
  <2>6. version' \in [Versions -> VersionRows] /\ RowsKept
    BY <2>1, <2>3, <2>5, OneRow
  <2>7. Created \subseteq Created'
    BY <2>6 DEF RowsKept
  <2>8. UNCHANGED passed
    BY <1>4 DEF StoreRepair
  <2>9. QED
    BY <1>0, <2>6, <2>7, <2>8
<1>5. CASE JudgeRepair(x)
  <2>1. v \in Versions /\ proc[x].pc \in Held
    BY <1>0, <1>5 DEF JudgeRepair, Held, Locked
  <2>2. proc[x].seen.body \in Bodies /\ proc[x].hero \in BOOLEAN
    BY <1>0 DEF ProcRecs, VersionRows
  <2> DEFINE report == RepairReport(x)
             row == Judged(Unlocked(version[v]), report)
  <2>3. Unlocked(version[v]) \in VersionRows
    BY <1>0, <2>1, RowUpdates
  <2>4. row \in VersionRows /\ row.status # "none"
    BY <2>2, <2>3, JudgedType DEF RepairReport
  <2>5. version' = [version EXCEPT ![v] = row] /\ passed' = passed \cup Noted(v, report)
    BY <1>5 DEF JudgeRepair
  <2>6. report.body.rev \in Nat
    BY <2>2 DEF RepairReport, Qa, Bodies
  <2> HIDE DEF row, report
  <2>7. passed' \subseteq Versions \X Nat
    BY <1>0, <2>1, <2>5, <2>6 DEF Noted
  <2>8. /\ version' \in [Versions -> VersionRows] /\ Created \subseteq Created'
        /\ \A u \in Versions : u # v => version'[u] = version[u]
    BY <1>0, <2>1, <2>4, <2>5 DEF Created
  <2>9. proc'[x].pc = "repaired"
    BY <1>5, <1>moves DEF JudgeRepair, ProcSteps
  <2>10. QED
    BY <2>1, <2>7, <2>8, <2>9 DEF Held, Locked
<1>6. QED
  BY <1>1, <1>2, <1>3, <1>4, <1>5
     DEF Controls, Looks, TickReads, RecoveryReads, WriteWaiting, Plan, Hopeless, RetryImage,
         Rewrite, RepairRereads, RepairedProject, MarkIntervention, RepairPassed,
         WriteAutoApproved, RowsCreated, RepairThrows, RepairReads, FindMissing, CreateRow,
         ControllerEnds, ControllerDies

LEMMA ControlsKeep ==
  ASSUME TypeInv, NEW x \in Controllers, Controls(x)
  PROVE  TypeInv'
<1>0. TypeOK /\ rows \in [Versions -> [Channels -> Nat]] /\ ctl[x] \in CtlRecs
      /\ UNCHANGED <<image, textJob, imageJob, tw, sync>>
  BY ControllerFacts
     DEF TypeInv, AutopilotTypeOK, Controls, Looks, TickReads, RecoveryReads, WriteWaiting,
         Plan, Hopeless, RetryImage, Rewrite, RepairRereads, RepairedProject,
         MarkIntervention, RepairPassed, WriteAutoApproved, RowsCreated, RepairThrows,
         RepairReads, ClaimRepair, GiveUp, StoreRepair, JudgeRepair, FindMissing, CreateRow,
         ControllerEnds, ControllerDies, PipelineUnchanged
<1>1. Led(x) /\ x \in Procs
  BY ControlsLed, ControllerFacts
<1>2. /\ version' \in [Versions -> VersionRows] /\ passed' \subseteq Versions \X Nat
      /\ Created \subseteq Created'
  BY ControlsRows
<1>3. project' \in [status : ProjectStatus, sub : Substates]
  <2>0. project \in [status : ProjectStatus, sub : Substates]
    BY <1>0 DEF TypeOK
  <2>1. CASE UNCHANGED project
    BY <2>0, <2>1
  <2>2. CASE \E sub \in Substates : project' = [project EXCEPT !.sub = sub]
    BY <2>0, <2>2
  <2>3. CASE RepairedProject(x)
    <3>1. Reviewed(RepairReport(x)) \in ProjectStatus
      BY ReviewedType
    <3> DEFINE status == Reviewed(RepairReport(x))
               sub == IF Passed(RepairReport(x)) THEN "qa_passed" ELSE "qa_repairing"
    <3>2. sub \in Substates
      BY DEF Substates
    <3>3. project' = [status |-> status, sub |-> sub]
      BY <2>3 DEF RepairedProject
    <3>4. status \in ProjectStatus
      BY <3>1
    <3> HIDE DEF status, sub
    <3>5. QED
      BY <3>2, <3>3, <3>4
  <2>4. CASE WriteWaiting(x)
    <3>1. \E sub \in {"qa_checking", "waiting_for_image"} : project' = [project EXCEPT !.sub = sub]
      BY <2>4 DEF WriteWaiting
    <3>2. QED
      BY <2>2, <3>1 DEF Substates
  <2>5. CASE RowsCreated(x)
    <3>1. \/ UNCHANGED project
          \/ \E sub \in {"scheduled", "scheduling"} : project' = [project EXCEPT !.sub = sub]
      BY <2>5 DEF RowsCreated
    <3>2. QED
      BY <2>1, <2>2, <3>1 DEF Substates
  <2>6. CASE Hopeless(x) \/ MarkIntervention(x) \/ WriteAutoApproved(x)
    <3>1. \E sub \in {"intervention_required", "auto_approved"} :
            project' = [project EXCEPT !.sub = sub]
      BY <2>6 DEF Hopeless, MarkIntervention, WriteAutoApproved
    <3>2. QED
      BY <2>2, <3>1 DEF Substates
  <2>7. QED
    BY <2>1, <2>3, <2>4, <2>5, <2>6
       DEF Controls, Looks, TickReads, RecoveryReads, Plan, RetryImage, Rewrite,
           RepairRereads, RepairPassed, RepairThrows, RepairReads, ClaimRepair, GiveUp,
           StoreRepair, JudgeRepair, FindMissing, CreateRow, ControllerEnds, ControllerDies
<1>4. revs' \in Nat
  <2>1. UNCHANGED revs \/ revs' = revs + 1
    BY DEF Controls, Looks, TickReads, RecoveryReads, WriteWaiting, Plan, Hopeless,
           RetryImage, Rewrite, RepairRereads, RepairedProject, MarkIntervention,
           RepairPassed, WriteAutoApproved, RowsCreated, RepairThrows, RepairReads,
           ClaimRepair, GiveUp, StoreRepair, JudgeRepair, FindMissing, CreateRow,
           ControllerEnds, ControllerDies
  <2>2. QED
    BY <1>0, <2>1 DEF TypeOK
<1>5. failures' \in Nat
  <2>1. UNCHANGED failures \/ failures' = failures + 1
    BY DEF Controls, Looks, TickReads, RecoveryReads, WriteWaiting, Plan, Hopeless,
           RetryImage, Rewrite, RepairRereads, RepairedProject, MarkIntervention,
           RepairPassed, WriteAutoApproved, RowsCreated, RepairThrows, RepairReads,
           ClaimRepair, GiveUp, StoreRepair, JudgeRepair, FindMissing, CreateRow,
           ControllerEnds, ControllerDies, PipelineUnchanged, Fails
  <2>2. QED
    BY <1>0, <2>1 DEF TypeOK
<1>6. rows' \in [Versions -> [Channels -> Nat]]
  <2>1. CASE CreateRow(x)
    <3>1. PICK c \in ctl[x].missing : rows' = [rows EXCEPT ![proc[x].ver][c] = @ + 1]
      BY <2>1 DEF CreateRow
    <3>2. c \in Channels
      BY <1>0, <3>1 DEF CtlRecs
    <3>3. CASE proc[x].ver \notin Versions
      BY <1>0, <3>1, <3>3
    <3>4. CASE proc[x].ver \in Versions
      <4> DEFINE v == proc[x].ver
                 row == [rows[v] EXCEPT ![c] = @ + 1]
      <4>1. row \in [Channels -> Nat]
        BY <1>0, <3>2, <3>4
      <4>2. rows' = [rows EXCEPT ![v] = row]
        BY <1>0, <3>1, <3>4
      <4> HIDE DEF row
      <4>3. QED
        BY <1>0, <4>1, <4>2
    <3>5. QED
      BY <3>3, <3>4
  <2>2. CASE UNCHANGED rows
    BY <1>0, <2>2
  <2>3. QED
    BY <2>1, <2>2
       DEF Controls, Looks, TickReads, RecoveryReads, WriteWaiting, Plan, Hopeless,
           RetryImage, Rewrite, RepairRereads, RepairedProject, MarkIntervention,
           RepairPassed, WriteAutoApproved, RowsCreated, RepairThrows, RepairReads,
           ClaimRepair, GiveUp, StoreRepair, JudgeRepair, FindMissing, ControllerEnds,
           ControllerDies
<1>7. AutopilotTypeOK'
  <2>1. TypeOK'
    BY <1>0, <1>1, <1>2, <1>3, <1>4, <1>5 DEF TypeOK, Led, ProcRecs
  <2>2. QED
    BY <1>1, <1>6, <2>1 DEF AutopilotTypeOK, Led, CtlRecs
<1>8. Pointers'
  <2>1. proc'[x].pc \in Trying \cup {"claim"} => ctl'[x].target \in Created
    BY <1>1 DEF Led, Trying
  <2>2. QED
    BY <1>0, <1>1, <1>2, <2>1, PointersKept DEF Led
<1>9. QED
  BY <1>7, <1>8 DEF TypeInv

-----------------------------------------------------------------------------
(* The locks that run out, and the specification *)

LEMMA LockWritten ==
  ASSUME TypeInv, LockExpires \/ WatchdogReleases
  PROVE  /\ version' \in [Versions -> VersionRows] /\ Created' = Created
         /\ \E v \in Created :
              /\ \A u \in Versions : u # v => version'[u] = version[u]
              /\ version[v].lock = "expired" \/ LockExpires
              /\ LockExpires =>
                   SlowRepairs \/ ~ \E x \in Controllers : ctl[x].target = v /\ proc[x].pc \in Held
<1>0. version \in [Versions -> VersionRows] /\ Created \subseteq Versions
  BY DEF TypeInv, AutopilotTypeOK, TypeOK, Created
<1>row. ASSUME NEW v \in Created, NEW row \in VersionRows, row.status = version[v].status,
              version' = [version EXCEPT ![v] = row]
        PROVE  /\ version' \in [Versions -> VersionRows] /\ Created' = Created
               /\ \A u \in Versions : u # v => version'[u] = version[u]
  BY <1>0, <1>row DEF Created
<1>1. CASE LockExpires
  <2>1. PICK v \in Created :
          /\ SlowRepairs \/ ~ \E x \in Controllers : ctl[x].target = v /\ proc[x].pc \in Held
          /\ version' = [version EXCEPT ![v].lock = "expired"]
    BY <1>1 DEF LockExpires, Held
  <2> DEFINE row == [version[v] EXCEPT !.lock = "expired"]
  <2>2. row \in VersionRows /\ row.status = version[v].status
    BY <1>0 DEF VersionRows
  <2>3. version' = [version EXCEPT ![v] = row]
    BY <1>0, <2>1
  <2> HIDE DEF row
  <2>4. QED
    BY <1>1, <1>row, <2>1, <2>2, <2>3
<1>2. CASE WatchdogReleases /\ ~ LockExpires
  <2>1. PICK v \in Created :
          /\ version[v].lock = "expired"
          /\ version' = [version EXCEPT ![v] = Unlocked(@)]
    BY <1>2 DEF WatchdogReleases
  <2> DEFINE row == Unlocked(version[v])
  <2>2. row \in VersionRows /\ row.status = version[v].status
    BY <1>0 DEF VersionRows, Unlocked
  <2>3. version' = [version EXCEPT ![v] = row]
    BY <1>0, <2>1
  <2> HIDE DEF row
  <2>4. QED
    BY <1>2, <1>row, <2>1, <2>2, <2>3
<1>3. QED
  BY <1>1, <1>2

LEMMA LocksKeepTypes ==
  ASSUME TypeInv, LockExpires \/ WatchdogReleases
  PROVE  TypeInv'
<1>1. UNCHANGED <<project, image, textJob, imageJob, tw, sync, proc, revs, passed, failures,
                  ctl, rows>>
  BY DEF LockExpires, WatchdogReleases, PipelineUnchanged
<1>2. version' \in [Versions -> VersionRows] /\ Created' = Created
  BY LockWritten
<1>3. TypeOK'
  BY <1>1, <1>2 DEF TypeInv, AutopilotTypeOK, TypeOK
<1>4. AutopilotTypeOK'
  BY <1>1, <1>3 DEF TypeInv, AutopilotTypeOK
<1>5. Pointers'
  BY <1>1, <1>2 DEF TypeInv, Pointers
<1>6. QED
  BY <1>4, <1>5 DEF TypeInv

\* The kinds of step, as far as the versions are concerned.
LEMMA StepCases ==
  ASSUME TypeInv, [Next]_vars
  PROVE  \/ (Pipeline \/ UNCHANGED pipelineVars) /\ UNCHANGED <<ctl, rows>>
         \/ \E x \in Operators : Request(x) /\ UNCHANGED <<ctl, rows>>
         \/ \E x \in Controllers : CallGoesOn(x) /\ UNCHANGED <<ctl, rows>>
         \/ \E x \in Controllers : Controls(x)
         \/ LockExpires \/ WatchdogReleases
<1>1. CASE UNCHANGED vars
  BY <1>1 DEF vars
<1>2. CASE Next
  <2>1. ASSUME NEW x \in Controllers,
               \/ TickReads(x) \/ RecoveryReads(x) \/ ControllerGoesOn(x)
               \/ RepairThrows(x) \/ ControllerDies(x)
        PROVE  Controls(x) \/ (CallGoesOn(x) /\ UNCHANGED <<ctl, rows>>)
    BY <2>1, ControllerCases
  <2>2. QED
    BY <1>2, <2>1 DEF Next, Request
<1>3. QED
  BY <1>1, <1>2

LEMMA PipelineKeeps ==
  ASSUME TypeInv, Pipeline \/ UNCHANGED pipelineVars, UNCHANGED <<ctl, rows>>
  PROVE  TypeInv' /\ RowsKept /\ UNCHANGED proc
<1>1. CASE UNCHANGED pipelineVars
  <2>1. TypeInv'
    BY <1>1
       DEF pipelineVars, TypeInv, AutopilotTypeOK, TypeOK, Pointers, Created
  <2>2. QED
    BY <1>1, <2>1, SameRows DEF pipelineVars
<1>2. CASE TextWorker \/ FailText
  BY <1>2, TextWorkerKeeps
     DEF TextWorker, TakeText, GenerateText, ReadVersionOfText, WriteText,
         TextProjectStatus, TextProjectSubstate, AttachImage, EnqueueImage, CompleteText,
         FailText
<1>3. CASE ImageSide
  BY <1>3, ImageSideKeeps
     DEF ImageSide, ImageWorker, TakeImage, SaveImage, SaveVariants, ImageSync, ReadForQa,
         QaChecking, WriteQa, QaProjectStatus, QaProjectSubstate, CompleteImage, FailImage,
         Listener, MarkImageFailed
<1>4. CASE DelayOver \/ WorkerCrash \/ RecoverStalled
  BY <1>4, QueuesKeep DEF DelayOver, WorkerCrash, RecoverStalled
<1>5. QED
  BY <1>1, <1>2, <1>3, <1>4 DEF Pipeline, ImageSide

LEMMA TypeInvNext == ASSUME TypeInv, [Next]_vars PROVE TypeInv'
  BY StepCases, PipelineKeeps, OperatorKeeps, ControllerCallKeeps, ControlsKeep,
     LocksKeepTypes

\* The rows, jobs and processes of the content pipeline and of its controllers
\* keep their types; the invariant it follows from has every version number that a
\* process carries name a version that was created.
THEOREM AutopilotTypeCorrect == Spec => []AutopilotTypeOK
<1>1. TypeInv => AutopilotTypeOK
  BY DEF TypeInv
<1>2. QED
  BY TypeInit, TypeInvNext, <1>1, PTL DEF Spec

-----------------------------------------------------------------------------
(* Numbers of controllers *)

SomeControllers == IsFiniteSet(Controllers) /\ Controllers # {}

LEMMA ControllersCount ==
  ASSUME SomeControllers, NEW S, S \subseteq Controllers
  PROVE  /\ IsFiniteSet(S) /\ Cardinality(S) \in Nat
         /\ Cardinality(S) <= Cardinality(Controllers)
         /\ Cardinality(Controllers) \in Nat /\ Cardinality(Controllers) >= 1
<1>1. IsFiniteSet(S) /\ Cardinality(S) <= Cardinality(Controllers)
  BY FS_Subset DEF SomeControllers
<1>2. Cardinality(S) \in Nat /\ Cardinality(Controllers) \in Nat
  BY <1>1, FS_CardinalityType DEF SomeControllers
<1>3. Cardinality(Controllers) # 0
  BY FS_EmptySet DEF SomeControllers
<1>4. QED
  BY <1>1, <1>2, <1>3

LEMMA CountNoMore ==
  ASSUME SomeControllers, NEW S, NEW T, T \subseteq Controllers, S \subseteq T
  PROVE  Cardinality(S) <= Cardinality(T)
<1>1. IsFiniteSet(T)
  BY ControllersCount
<1>2. QED
  BY <1>1, FS_Subset

LEMMA CountOneMore ==
  ASSUME SomeControllers, NEW x \in Controllers, NEW S, NEW T, T \subseteq Controllers,
         S \subseteq T \cup {x}
  PROVE  Cardinality(S) <= Cardinality(T) + 1
<1>1. IsFiniteSet(T) /\ IsFiniteSet(T \cup {x}) /\ Cardinality(T) \in Nat
  BY ControllersCount, FS_AddElement
<1>2. Cardinality(S) <= Cardinality(T \cup {x}) /\ IsFiniteSet(S)
  BY <1>1, FS_Subset
<1>3. Cardinality(T \cup {x}) = IF x \in T THEN Cardinality(T) ELSE Cardinality(T) + 1
  BY <1>1, FS_AddElement
<1>4. Cardinality(S) \in Nat
  BY <1>2, FS_CardinalityType
<1>5. QED
  BY <1>1, <1>2, <1>3, <1>4

LEMMA CountOneLess ==
  ASSUME SomeControllers, NEW S, NEW T, T \subseteq Controllers, NEW x \in T, S \subseteq T \ {x}
  PROVE  Cardinality(S) + 1 <= Cardinality(T)
<1>1. IsFiniteSet(S) /\ x \notin S /\ Cardinality(S) \in Nat
  BY ControllersCount
<1>2. Cardinality(S \cup {x}) = Cardinality(S) + 1
  BY <1>1, FS_AddElement
<1>3. Cardinality(S \cup {x}) <= Cardinality(T)
  BY CountNoMore
<1>4. QED
  BY <1>2, <1>3

LEMMA FailuresGrow ==
  ASSUME TypeInv, [Next]_vars
  PROVE  failures \in Nat /\ failures' \in Nat /\ failures <= failures'
<1>0. failures \in Nat
  BY DEF TypeInv, AutopilotTypeOK, TypeOK
<1>1. ASSUME NEW kind, Fails(kind) PROVE failures' = failures + 1
  BY <1>1 DEF Fails
<1>2. ASSUME Pipeline PROVE UNCHANGED failures \/ failures' = failures + 1
  BY <1>1, <1>2
     DEF Pipeline, TextWorker, TakeText, GenerateText, ReadVersionOfText, WriteText,
         TextProjectStatus, TextProjectSubstate, AttachImage, EnqueueImage, CompleteText,
         FailText, ImageWorker, TakeImage, SaveImage, SaveVariants, ImageSync, ReadForQa,
         QaChecking, WriteQa, QaProjectStatus, QaProjectSubstate, CompleteImage, FailImage,
         Listener, MarkImageFailed, DelayOver, WorkerCrash, RecoverStalled
<1>3. ASSUME NEW x, Request(x) PROVE UNCHANGED failures
  BY <1>3 DEF Request, RequestBegins, RequestGenerate, EditRead, ApproveRead, RetryImageRead,
         AssetRequest, RequestEnds, CallGoesOn, Generation, ReadLatestNumber, CreateVersion,
         EnqueueText, ProjectDraft, ProjectGenerating, EditWrite, EditReadProject, EditQa,
         EditProjectStatus, ApproveVersion, ApproveProject, RequeueImage, RequeueImageJob
<1>4. ASSUME NEW x, Controls(x) PROVE UNCHANGED failures \/ failures' = failures + 1
  BY <1>1, <1>4
     DEF Controls, Looks, TickReads, RecoveryReads, WriteWaiting, Plan, Hopeless, RetryImage,
         Rewrite, RepairRereads, RepairedProject, MarkIntervention, RepairPassed,
         WriteAutoApproved, RowsCreated, RepairThrows, RepairReads, ClaimRepair, GiveUp,
         StoreRepair, JudgeRepair, FindMissing, CreateRow, ControllerEnds, ControllerDies,
         PipelineUnchanged
<1>5. LockExpires \/ WatchdogReleases => UNCHANGED failures
  BY DEF LockExpires, WatchdogReleases, PipelineUnchanged
<1>6. UNCHANGED failures \/ failures' = failures + 1
  BY <1>2, <1>3, <1>4, <1>5, StepCases DEF Request, pipelineVars
<1>7. QED
  BY <1>0, <1>6

-----------------------------------------------------------------------------
(* The repair lock *)

\* Who repairs a version.
Holding(v) == {x \in Controllers : ctl[x].target = v /\ proc[x].pc \in Held}

LockCounts(v) == IF version[v].lock = "held" THEN 1 ELSE 0

\* The lock pays for one repair of its version, each failure for another.
LockInv == \A v \in Versions : Cardinality(Holding(v)) <= failures + LockCounts(v)

LEMMA HoldingCount ==
  ASSUME SomeControllers, NEW v
  PROVE  /\ Holding(v) \subseteq Controllers /\ Holding(v)' \subseteq Controllers
         /\ Cardinality(Holding(v)) \in Nat /\ Cardinality(Holding(v)') \in Nat
<1>1. Holding(v) \subseteq Controllers /\ Holding(v)' \subseteq Controllers
  BY DEF Holding
<1>2. QED
  BY <1>1, ControllersCount

\* Nobody begins to repair the version and its lock is not given back.
LEMMA HoldingStays ==
  ASSUME SomeControllers, TypeInv, LockInv, [Next]_vars, NEW v \in Versions,
         Holding(v)' \subseteq Holding(v),
         v \in Created /\ version[v].lock = "held" =>
           version'[v].lock = "held" \/ Holding(v)' = {}
  PROVE  Cardinality(Holding(v)') <= failures' + LockCounts(v)'
<1>1. /\ failures \in Nat /\ failures' \in Nat /\ failures <= failures'
      /\ Cardinality(Holding(v)) \in Nat /\ Cardinality(Holding(v)') \in Nat
      /\ Cardinality(Holding(v)') <= Cardinality(Holding(v))
      /\ Cardinality(Holding(v)) <= failures + LockCounts(v)
  BY FailuresGrow, HoldingCount, CountNoMore DEF LockInv
<1>2. v \notin Created => Holding(v)' = {}
  BY DEF TypeInv, Pointers, Holding, Trying
<1>3. Holding(v)' = {} => Cardinality(Holding(v)') = 0
  BY FS_EmptySet
<1>4. LockCounts(v) \in {0, 1} /\ LockCounts(v)' \in {0, 1}
  BY DEF LockCounts
<1>5. LockCounts(v) = 1 => LockCounts(v)' = 1 \/ Holding(v)' = {}
  BY <1>2 DEF LockCounts
<1>6. QED
  BY <1>1, <1>3, <1>4, <1>5

LEMMA LocksStay ==
  ASSUME SomeControllers, TypeInv, LockInv, [Next]_vars, RowsKept,
         \A y \in Controllers : proc'[y].pc \in Held => proc[y].pc \in Held /\ ctl'[y] = ctl[y]
  PROVE  LockInv'
<1> SUFFICES ASSUME NEW v \in Versions
             PROVE  Cardinality(Holding(v)') <= failures' + LockCounts(v)'
  BY DEF LockInv
<1>1. Holding(v)' \subseteq Holding(v)
  BY DEF Holding
<1>2. QED
  BY <1>1, HoldingStays DEF RowsKept

LEMMA RoomForOne ==
  ASSUME NEW a \in Nat, NEW b \in Nat, NEW c \in Nat, NEW d \in Nat,
         a <= b + 1, b <= c, c <= d
  PROVE  a <= d + 1
OBVIOUS

LEMMA LockInvControls ==
  ASSUME SomeControllers, TypeInv, LockInv, [Next]_vars, NEW x \in Controllers, Controls(x)
  PROVE  LockInv'
<1> SUFFICES ASSUME NEW v \in Versions
             PROVE  Cardinality(Holding(v)') <= failures' + LockCounts(v)'
  BY DEF LockInv
<1> DEFINE n == Cardinality(Holding(v))
           m == Cardinality(Holding(v)')
<1>0. /\ Led(x) /\ Controllers \subseteq Procs
      /\ failures \in Nat /\ failures' \in Nat /\ failures <= failures'
      /\ n \in Nat /\ m \in Nat /\ n <= failures + LockCounts(v)
      /\ LockCounts(v) \in {0, 1} /\ LockCounts(v)' \in {0, 1}
  BY ControlsLed, AutopilotConstants, FailuresGrow, HoldingCount DEF LockInv, LockCounts
<1>1. ASSUME NEW y \in Controllers, y # x
      PROVE  proc'[y] = proc[y] /\ ctl'[y] = ctl[y]
  BY <1>0, <1>1 DEF Led
<1>2. proc'[x].pc \in Held =>
        ctl'[x] = ctl[x] /\ (proc[x].pc \in Held \/ ClaimRepair(x) \/ RepairThrows(x))
  BY <1>0 DEF Led, Trying
<1>3. /\ Holding(v)' \subseteq Holding(v) \cup {x}
      /\ ctl[x].target # v => Holding(v)' \subseteq Holding(v)
      /\ proc'[x].pc \notin Held => Holding(v)' \subseteq Holding(v) \ {x}
      /\ proc[x].pc \in Held => Holding(v)' \subseteq Holding(v)
      /\ ctl[x].target = v /\ proc[x].pc \in Held => x \in Holding(v)
  BY <1>1, <1>2 DEF Holding
<1>4. m <= n + 1 /\ (x \in Holding(v) /\ proc'[x].pc \notin Held => m + 1 <= n)
  BY <1>3, HoldingCount, CountOneMore, CountOneLess
<1>5. CASE ctl[x].target # v
  <2>1. v \in Created => version'[v].lock = version[v].lock
    BY <1>5, ControlsRows DEF RowsKept
  <2>2. QED
    BY <1>3, <1>5, <2>1, HoldingStays
<1>6. CASE RowsKept /\ (proc'[x].pc \in Held => proc[x].pc \in Held)
  <2>1. Holding(v)' \subseteq Holding(v)
    BY <1>3, <1>6
  <2>2. QED
    BY <1>6, <2>1, HoldingStays DEF RowsKept
<1>7. CASE ctl[x].target = v /\ proc'[x].pc \notin Held /\ proc[x].pc \in Held
  <2> HIDE DEF n, m
  <2>1. m + 1 <= n
    BY <1>3, <1>4, <1>7
  <2>2. m <= failures' + LockCounts(v)'
    BY <1>0, <2>1
  <2>3. QED
    BY <2>2 DEF m
<1>8. CASE ClaimRepair(x) /\ ctl[x].target = v
           /\ version[v].lock # "held" /\ version'[v].lock = "held"
  <2>1. LockCounts(v) = 0 /\ LockCounts(v)' = 1
    BY <1>8 DEF LockCounts
  <2>2. n <= failures
    BY <1>0, <2>1
  <2>3. m <= failures' + 1
    BY <1>0, <1>4, <2>2, RoomForOne
  <2>4. QED
    BY <2>1, <2>3
<1>9. CASE RepairThrows(x) /\ ctl[x].target = v
  <2>1. failures' = failures + 1 /\ LockCounts(v)' = LockCounts(v)
    BY <1>9 DEF RepairThrows, Fails, LockCounts
  <2> HIDE DEF n, m
  <2>2. m <= failures' + LockCounts(v)'
    BY <1>0, <1>4, <2>1
  <2>3. QED
    BY <2>2 DEF m
<1>10. CASE RowsKept /\ ClaimRepair(x) /\ proc'[x].pc \in Held
  <2>1. ctl[x].target \in Created /\ ctl[x].target \in Versions
        /\ version \in [Versions -> VersionRows]
    BY <1>10, ControllerFacts DEF ClaimRepair
  <2>2. x \in Procs /\ "end" \in ProcSteps
    BY <1>0 DEF ProcSteps
  <2>3. ~ Goto(x, "end")
    BY <1>10, <2>2, GotoMoves DEF TypeInv, Held, Locked
  <2>4. /\ version[ctl[x].target].lock # "held"
        /\ version' = [version EXCEPT ![ctl[x].target].lock = "held"]
    BY <1>10, <2>3 DEF ClaimRepair
  <2>5. version'[ctl[x].target].lock = "held"
    BY <2>1, <2>4 DEF VersionRows
  <2>6. QED
    BY <1>10, <2>1, <2>4, <2>5 DEF RowsKept
<1>11. QED
  BY <1>2, <1>5, <1>6, <1>7, <1>8, <1>9, <1>10, ControlsRows

LEMMA LockInvNext ==
  ASSUME SomeControllers, ~ SlowRepairs, TypeInv, LockInv, [Next]_vars
  PROVE  LockInv'
<1>0. Controllers \subseteq Procs
  BY AutopilotConstants
<1>1. CASE (Pipeline \/ UNCHANGED pipelineVars) /\ UNCHANGED <<ctl, rows>>
  BY <1>1, PipelineKeeps, LocksStay
<1>2. CASE \E x \in Operators : Request(x) /\ UNCHANGED <<ctl, rows>>
  <2>1. PICK x \in Operators : Request(x) /\ UNCHANGED <<ctl, rows>>
    BY <1>2
  <2>2. x \in Procs /\ x \notin Controllers
    BY DEF Operators
  <2>3. \A y \in Procs : y # x => proc'[y] = proc[y]
    BY <2>1, <2>2, RequestLeads, CallGoesOnLeads DEF Request, CallLeads
  <2>4. QED
    BY <1>0, <2>1, <2>2, <2>3, OperatorKeeps, LocksStay
<1>3. CASE \E x \in Controllers : CallGoesOn(x) /\ UNCHANGED <<ctl, rows>>
  <2>1. PICK x \in Controllers : CallGoesOn(x) /\ UNCHANGED <<ctl, rows>>
    BY <1>3
  <2>2. CallLeads(x)
    BY <1>0, <2>1, CallGoesOnLeads
  <2>3. QED
    BY <1>0, <2>1, <2>2, ControllerCallKeeps, LocksStay DEF CallLeads
<1>4. CASE \E x \in Controllers : Controls(x)
  BY <1>4, LockInvControls
<1>5. CASE LockExpires \/ WatchdogReleases
  <2>1. UNCHANGED <<proc, ctl>>
    BY <1>5 DEF LockExpires, WatchdogReleases
  <2>2. PICK v \in Created :
          /\ \A u \in Versions : u # v => version'[u] = version[u]
          /\ version[v].lock = "expired" \/ LockExpires
          /\ LockExpires =>
               SlowRepairs \/ ~ \E x \in Controllers : ctl[x].target = v /\ proc[x].pc \in Held
    BY <1>5, LockWritten
  <2>3. LockExpires => Holding(v) = {}
    BY <2>2 DEF Holding
  <2>4. ASSUME NEW u \in Versions PROVE Cardinality(Holding(u)') <= failures' + LockCounts(u)'
    <3>1. Holding(u)' = Holding(u)
      BY <2>1 DEF Holding
    <3>2. version[u].lock = "held" => version'[u].lock = "held" \/ Holding(u)' = {}
      BY <2>2, <2>3, <3>1
    <3>3. QED
      BY <3>1, <3>2, HoldingStays
  <2>5. QED
    BY <2>4 DEF LockInv
<1>6. QED
  BY <1>1, <1>2, <1>3, <1>4, <1>5, StepCases

\* However many ticks and recoveries run, die and start again, no two of them
\* repair one version at a time, but for one more with each failure (a try that
\* throws after its verdict gives back a lock that is another's by then), provided
\* a repair never outlasts its lock.
THEOREM OneRepairerAlways ==
  ASSUME SomeControllers, ~ SlowRepairs PROVE Spec => []OneRepairer
<1>1. Init => LockInv
  <2> SUFFICES ASSUME Init PROVE LockInv
    OBVIOUS
  <2>1. \A v \in Versions : Holding(v) = {}
    BY AutopilotConstants DEF Init, PipelineInit, ProcIdle, Holding, Held, Locked
  <2>2. failures = 0
    BY DEF Init, PipelineInit
  <2>3. QED
    BY <2>1, <2>2, FS_EmptySet DEF LockInv, LockCounts
<1>2. TypeInv /\ LockInv /\ [Next]_vars => (TypeInv /\ LockInv)'
  BY TypeInvNext, LockInvNext
<1>3. TypeInv /\ LockInv => OneRepairer
  <2> SUFFICES ASSUME TypeInv, LockInv, NEW v \in Created
               PROVE  Cardinality(Holding(v)) <= 1 + failures
    BY DEF OneRepairer, Holding, Held
  <2>1. v \in Versions
    BY DEF Created
  <2>2. Cardinality(Holding(v)) \in Nat /\ failures \in Nat
    BY HoldingCount DEF TypeInv, AutopilotTypeOK, TypeOK
  <2>3. Cardinality(Holding(v)) <= failures + LockCounts(v) /\ LockCounts(v) \in {0, 1}
    BY <2>1 DEF LockInv, LockCounts
  <2>4. QED
    BY <2>2, <2>3
<1>4. QED
  BY TypeInit, <1>1, <1>2, <1>3, PTL DEF Spec
=============================================================================
