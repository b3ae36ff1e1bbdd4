---------------------------- MODULE ArticleProofs ----------------------------
(***************************************************************************)
(* What the autopilot does to an article, for every value of the           *)
(* constants: a version that passed has its image and one that is approved *)
(* was passed by some QA; the attempts at repairing it are bounded; and    *)
(* every channel gets one publication.                                     *)
(***************************************************************************)
EXTENDS AutopilotProofs

HasHero(v) == \E i \in Images : image[i].of = v /\ image[i].hero

PassedOnce(v) == \E rev \in 1..revs : <<v, rev>> \in passed

Good(v) == HasHero(v) /\ PassedOnce(v)

-----------------------------------------------------------------------------
(* The invariant *)

\* A body that somebody carries was written, and has the number it got then.
NumberedBy(b, n) == b.grade # "none" => b.rev \in 1..n

RowsNumbered == \A v \in Versions : NumberedBy(version[v].body, revs)

WorkersNumbered == /\ NumberedBy(tw.body, revs)
                   /\ \A p \in ImageProcs : NumberedBy(sync[p].body, revs)

ProcNumbered(x) == NumberedBy(proc[x].body, revs) /\ NumberedBy(proc[x].seen.body, revs)

\* An image belongs to the version it was asked for, and that version shows it
\* or another of its own.
OwnImages ==
  /\ tw.pc \in {"status", "sub", "attach"} => tw.ver \in Created
  /\ \A v \in Versions : /\ version[v].status = "none" => version[v].img = None
                         /\ version[v].img # None => image[version[v].img].of = v
  /\ \A i \in Images : image[i].of \in Versions => version[image[i].of].img # None

Judgements == \A v \in Versions : version[v].status \in {"qa_passed", "approved"} => Good(v)

\* The image that a QA is told of is there, whoever looked at it and when.
Views == \A p \in ImageProcs :
  sync[p].pc \in {"checking", "verdict"} /\ sync[p].hero => HasHero(sync[p].ver)

CallOk(x) ==
  /\ proc[x].pc = "qa" /\ proc[x].hero => HasHero(proc[x].ver)
  /\ proc[x].pc = "approve" => proc[x].ver \in Versions /\ Good(proc[x].ver)

Cycle == Held \cup {"repair", "claim", "repaired", "exhausted", "passed"}

CycleOk(x) ==
  /\ proc[x].pc \in Trying \cup {"claim"} /\ proc[x].hero => HasHero(ctl[x].target)
  /\ proc[x].pc \in Beyond \cup {"passed"} => ctl[x].target \in Versions
  /\ proc[x].pc = "repaired" /\ Passed(RepairReport(x)) => Good(ctl[x].target)
  /\ proc[x].pc = "passed" => Good(ctl[x].target)
  /\ proc[x].pc \in Cycle /\ proc[x].op = "recover_failed" =>
       x \in Recoveries /\ proc[x].ver \in Versions

Calls == \A x \in Procs : CallOk(x) /\ ProcNumbered(x)

Cycles == \A x \in Controllers : CycleOk(x)

ArticleInv == /\ RowsNumbered /\ WorkersNumbered /\ OwnImages
              /\ Judgements /\ Views /\ Calls /\ Cycles

-----------------------------------------------------------------------------
(* What no step undoes *)

Grows == /\ revs' \in Nat /\ revs <= revs'
         /\ \A v \in Versions : /\ HasHero(v) => HasHero(v)'
                                /\ PassedOnce(v) => PassedOnce(v)'

\* A verdict or an approval is given to a version that deserves it.
Verdicts == \A v \in Versions :
  version'[v].status \in {"qa_passed", "approved"} =>
    version[v].status \in {"qa_passed", "approved"} \/ Good(v)'

ImagesSame == \A v \in Versions : version'[v].img = version[v].img

\* An image stays with its version, and a stored hero image stays.
ImagesKept == \A i \in Images : /\ image'[i].of = image[i].of
                                /\ image[i].hero => image'[i].hero

LEMMA GrowsIf ==
  ASSUME TypeInv, revs' \in Nat, revs <= revs', passed \subseteq passed',
         \A i \in Images : image[i].hero => image'[i].hero /\ image'[i].of = image[i].of
  PROVE  Grows
<1> SUFFICES ASSUME NEW v \in Versions
             PROVE  (HasHero(v) => HasHero(v)') /\ (PassedOnce(v) => PassedOnce(v)')
  BY DEF Grows
<1>1. HasHero(v) => HasHero(v)'
  BY DEF HasHero
<1>2. PassedOnce(v) => PassedOnce(v)'
  <2>1. revs \in Nat
    BY DEF TypeInv, AutopilotTypeOK, TypeOK
  <2>2. 1..revs \subseteq 1..revs'
    BY <2>1
  <2>3. QED
    BY <2>2 DEF PassedOnce
<1>3. QED
  BY <1>1, <1>2

\* The image that a version shows, once stored, is a hero of that version.
LEMMA ShownHero ==
  ASSUME TypeInv, OwnImages, NEW v \in Versions, HeroReady(version[v].img)
  PROVE  HasHero(v)
<1>1. version[v].img \in Images
  BY DEF TypeInv, AutopilotTypeOK, TypeOK, VersionRows, HeroReady
<1>2. QED
  BY <1>1 DEF OwnImages, HasHero, HeroReady

LEMMA NumberedLater ==
  ASSUME NEW b, NEW m \in Nat, NEW n \in Nat, m <= n, NumberedBy(b, m)
  PROVE  NumberedBy(b, n)
<1>1. 1..m \subseteq 1..n
  OBVIOUS
<1>2. QED
  BY <1>1 DEF NumberedBy

\* What a step means for the rows of the versions.
RowsGood == Verdicts /\ ImagesSame /\ RowsNumbered'

LEMMA RowsUntouched ==
  ASSUME TypeInv, RowsNumbered, revs' \in Nat, revs <= revs', UNCHANGED version
  PROVE  RowsGood
<1>1. revs \in Nat
  BY DEF TypeInv, AutopilotTypeOK, TypeOK
<1>2. \A v \in Versions : NumberedBy(version[v].body, revs')
  BY <1>1, NumberedLater DEF RowsNumbered
<1>3. QED
  BY <1>2 DEF RowsGood, Verdicts, ImagesSame, RowsNumbered

LEMMA RowWritten ==
  ASSUME TypeInv, RowsNumbered, revs' \in Nat, revs <= revs',
         NEW v \in Versions, NEW row, version' = [version EXCEPT ![v] = row],
         row.img = version[v].img, NumberedBy(row.body, revs'),
         row.status \in {"qa_passed", "approved"} =>
           version[v].status \in {"qa_passed", "approved"} \/ Good(v)'
  PROVE  RowsGood
<1>1. revs \in Nat /\ version \in [Versions -> VersionRows]
  BY DEF TypeInv, AutopilotTypeOK, TypeOK
<1>2. \A u \in Versions : NumberedBy(version[u].body, revs')
  BY <1>1, NumberedLater DEF RowsNumbered
<1>3. version'[v] = row /\ \A u \in Versions : u # v => version'[u] = version[u]
  BY <1>1
<1>4. Verdicts
  BY <1>3 DEF Verdicts
<1>5. ImagesSame /\ RowsNumbered'
  BY <1>2, <1>3 DEF ImagesSame, RowsNumbered
<1>6. QED
  BY <1>4, <1>5 DEF RowsGood

LEMMA JudgementsStay == ASSUME Judgements, Grows, Verdicts PROVE Judgements'
  BY DEF Judgements, Grows, Verdicts, Good

LEMMA ViewsStay ==
  ASSUME TypeInv, Views, Grows, UNCHANGED sync
  PROVE  Views'
<1>1. \A p \in ImageProcs : sync[p].pc \in {"checking", "verdict"} => sync[p].ver \in Versions
  BY DEF TypeInv, Pointers
<1>2. QED
  BY <1>1 DEF Views, Grows

LEMMA WorkersNumberedStay ==
  ASSUME TypeInv, WorkersNumbered, Grows, UNCHANGED <<tw, sync>>
  PROVE  WorkersNumbered'
<1>1. revs \in Nat
  BY DEF TypeInv, AutopilotTypeOK, TypeOK
<1>2. QED
  BY <1>1, NumberedLater DEF WorkersNumbered, Grows

LEMMA OwnImagesStay ==
  ASSUME TypeInv, OwnImages, Created \subseteq Created', ImagesSame, ImagesKept,
         tw'.pc \in {"status", "sub", "attach"} =>
           tw'.ver \in Created' \/ (tw.pc \in {"status", "sub", "attach"} /\ tw'.ver = tw.ver)
  PROVE  OwnImages'
<1>1. \A v \in Versions : /\ version'[v].status = "none" => version[v].status = "none"
                          /\ version[v].img \in Images \cup {None}
  BY DEF Created, TypeInv, AutopilotTypeOK, TypeOK, VersionRows
<1>2. tw'.pc \in {"status", "sub", "attach"} => tw'.ver \in Created'
  BY DEF OwnImages
<1>3. ASSUME NEW v \in Versions
      PROVE  /\ version'[v].status = "none" => version'[v].img = None
             /\ version'[v].img # None => image'[version'[v].img].of = v
  BY <1>1, <1>3 DEF OwnImages, ImagesSame, ImagesKept
<1>4. ASSUME NEW i \in Images, image'[i].of \in Versions
      PROVE  version'[image'[i].of].img # None
  BY <1>4 DEF OwnImages, ImagesSame, ImagesKept
<1>5. QED
  BY <1>2, <1>3, <1>4 DEF OwnImages

\* Another image for a version takes nothing from any.
LEMMA AnotherImage ==
  ASSUME TypeInv, RowsNumbered, OwnImages, NEW v \in Created, NEW i \in Images,
         NewImage(v, i), revs' = revs, passed' = passed,
         tw'.pc \in {"status", "sub", "attach"} =>
           tw.pc \in {"status", "sub", "attach"} /\ tw'.ver = tw.ver
  PROVE  Grows /\ Verdicts /\ RowsNumbered' /\ OwnImages'
<1>0. /\ v \in Versions /\ version[v].status # "none" /\ revs \in Nat
      /\ version \in [Versions -> VersionRows] /\ image \in [Images -> ImageRows]
      /\ \A u \in Versions : u \in Nat /\ u # 0
      /\ None \notin Images
  BY PipelineConstants DEF TypeInv, AutopilotTypeOK, TypeOK, Created, Versions
<1>1. /\ image[i] = NoImage /\ image'[i] = QueuedFor(v)
      /\ \A j \in Images : j # i => image'[j] = image[j]
      /\ version' = [version EXCEPT ![v].img = i]
  BY <1>0 DEF NewImage
<1>2. /\ ~ image[i].hero /\ image[i].of = 0 /\ image'[i].of = v
  BY <1>1 DEF NoImage, QueuedFor
<1>3. /\ \A u \in Versions : u # v => version'[u] = version[u]
      /\ version'[v].img = i /\ version'[v].status = version[v].status
      /\ version'[v].body = version[v].body
  BY <1>0, <1>1 DEF VersionRows
<1>4. Grows
  BY <1>0, <1>1, <1>2, GrowsIf
<1>5. Verdicts /\ RowsNumbered'
  BY <1>3 DEF Verdicts, RowsNumbered
<1>6. OwnImages'
  <2>1. \A u \in Versions : version'[u].status = "none" <=> version[u].status = "none"
    BY <1>3
  <2>2. tw'.pc \in {"status", "sub", "attach"} => tw'.ver \in Created'
    BY <2>1 DEF OwnImages, Created
  <2>3. ASSUME NEW u \in Versions
        PROVE  /\ version'[u].status = "none" => version'[u].img = None
               /\ version'[u].img # None => image'[version'[u].img].of = u
    <3>1. CASE u = v
      BY <1>0, <1>2, <1>3, <3>1
    <3>2. CASE u # v
      <4>1. version[u].img \in Images \cup {None} /\ version[u].img # i
        BY <1>0, <1>2 DEF OwnImages, VersionRows
      <4>2. QED
        BY <1>1, <1>3, <3>2, <4>1 DEF OwnImages
    <3>3. QED
      BY <3>1, <3>2
  <2>4. ASSUME NEW j \in Images, image'[j].of \in Versions
        PROVE  version'[image'[j].of].img # None
    <3>1. CASE image'[j].of = v
      BY <1>0, <1>3, <3>1
    <3>2. CASE image'[j].of # v
      <4>1. j # i /\ image'[j].of = image[j].of
        BY <1>1, <1>2, <3>2
      <4>2. QED
        BY <1>3, <2>4, <3>2, <4>1 DEF OwnImages
    <3>3. QED
      BY <3>1, <3>2
  <2>5. QED
    BY <2>2, <2>3, <2>4 DEF OwnImages
<1>7. QED
  BY <1>4, <1>5, <1>6

\* What one process does is nothing to the others.
LEMMA CallStays ==
  ASSUME TypeInv, Grows, NEW x \in Procs, CallOk(x), ProcNumbered(x), proc'[x] = proc[x]
  PROVE  CallOk(x)' /\ ProcNumbered(x)'
<1>1. revs \in Nat /\ (proc[x].pc = "qa" => proc[x].ver \in Versions)
  BY DEF TypeInv, AutopilotTypeOK, TypeOK, Pointers
<1>2. ProcNumbered(x)'
  BY <1>1, NumberedLater DEF ProcNumbered, Grows
<1>3. CallOk(x)'
  BY <1>1 DEF CallOk, Grows, Good
<1>4. QED
  BY <1>2, <1>3

LEMMA CycleStays ==
  ASSUME TypeInv, Grows, NEW x \in Controllers, CycleOk(x),
         proc'[x] = proc[x], ctl'[x] = ctl[x]
  PROVE  CycleOk(x)'
<1>1. proc[x].pc \in Trying \cup {"claim"} => ctl[x].target \in Versions
  BY DEF TypeInv, Pointers, Created
<1>2. RepairReport(x)' = RepairReport(x)
  BY DEF RepairReport, Qa
<1>3. QED
  BY <1>1, <1>2 DEF CycleOk, Grows, Good, Passed, Trying, Beyond

LEMMA CallsStay ==
  ASSUME TypeInv, Calls, Cycles, Grows, UNCHANGED <<proc, ctl>>
  PROVE  Calls' /\ Cycles'
  BY CallStays, CycleStays DEF Calls, Cycles

LEMMA OneMoves ==
  ASSUME TypeInv, Calls, Cycles, Grows, NEW x \in Procs, CallOk(x)', ProcNumbered(x)',
         x \in Controllers => CycleOk(x)',
         \A y \in Procs : y # x => proc'[y] = proc[y],
         \A y \in Controllers : y # x => ctl'[y] = ctl[y]
  PROVE  Calls' /\ Cycles'
<1>1. Controllers \subseteq Procs
  BY AutopilotConstants
<1>2. ASSUME NEW y \in Procs PROVE CallOk(y)' /\ ProcNumbered(y)'
  BY CallStays DEF Calls
<1>3. ASSUME NEW y \in Controllers PROVE CycleOk(y)'
  BY <1>1, CycleStays DEF Cycles
<1>4. QED
  BY <1>2, <1>3 DEF Calls, Cycles

-----------------------------------------------------------------------------
(* The text worker *)

LEMMA TextWorkerGood ==
  ASSUME TypeInv, ArticleInv, TextWorker \/ FailText, UNCHANGED <<ctl, rows>>
  PROVE  ArticleInv'
<1>0. /\ UNCHANGED <<sync, proc, passed>> /\ TypeInv' /\ RowsKept
      /\ tw \in TextRecs /\ version \in [Versions -> VersionRows]
      /\ image \in [Images -> ImageRows] /\ revs \in Nat
      /\ tw.pc # "idle" => tw.ver \in Versions
  BY TextWorkerKeeps
     DEF TypeInv, AutopilotTypeOK, TypeOK, TextWorker, TakeText, GenerateText,
         ReadVersionOfText, WriteText, TextProjectStatus, TextProjectSubstate, AttachImage,
         EnqueueImage, CompleteText, FailText, TextRecs, Pointers
<1>1. revs' \in Nat /\ revs <= revs'
  <2>1. revs' = revs \/ revs' = revs + 1
    BY DEF TextWorker, TakeText, GenerateText, ReadVersionOfText, WriteText,
       TextProjectStatus, TextProjectSubstate, AttachImage, EnqueueImage, CompleteText, FailText
  <2>2. QED
    BY <1>0, <2>1
<1>2. ASSUME AttachImage
      PROVE  /\ tw.ver \in Created /\ UNCHANGED <<revs, passed>>
             /\ \E i \in Images : NewImage(tw.ver, i) /\ tw' = [tw EXCEPT !.pc = "enqueue", !.img = i]
             /\ tw'.pc = "enqueue" /\ tw'.body = tw.body
  <2>1. tw.ver \in Created
    BY <1>2 DEF AttachImage, ArticleInv, OwnImages
  <2>2. QED
    BY <1>0, <1>2, <2>1 DEF AttachImage, TextRecs
<1>a. CASE AttachImage
  <2>1. Grows /\ Verdicts /\ RowsNumbered' /\ OwnImages'
    BY <1>2, <1>a, AnotherImage DEF ArticleInv
  <2>2. WorkersNumbered'
    BY <1>0, <1>2, <1>a DEF ArticleInv, WorkersNumbered
  <2>3. QED
    BY <1>0, <2>1, <2>2, JudgementsStay, ViewsStay, CallsStay DEF ArticleInv
<1>b. ~ AttachImage => UNCHANGED image /\ (UNCHANGED version \/ WriteText)
  BY DEF TextWorker, TakeText, GenerateText, ReadVersionOfText, WriteText,
     TextProjectStatus, TextProjectSubstate, EnqueueImage, CompleteText, FailText
<1> SUFFICES ASSUME ~ AttachImage PROVE ArticleInv'
  BY <1>a
<1>3. Grows
  BY <1>0, <1>1, <1>b, GrowsIf
<1>4. RowsGood
  <2>1. CASE UNCHANGED version
    BY <1>0, <1>1, <2>1, RowsUntouched DEF ArticleInv
  <2>2. CASE WriteText
    <3> DEFINE row == [version[tw.ver] EXCEPT !.body = tw.body, !.status = "ai_generated"]
    <3>1. tw.ver \in Versions /\ revs' = revs
      BY <1>0, <2>2 DEF WriteText
    <3>2. version' = [version EXCEPT ![tw.ver] = row]
      BY <1>0, <2>2, <3>1 DEF WriteText
    <3>3. version[tw.ver] \in VersionRows
      BY <1>0, <3>1
    <3>4. row.img = version[tw.ver].img /\ row.body = tw.body /\ row.status = "ai_generated"
      BY <3>3 DEF VersionRows
    <3>5. NumberedBy(tw.body, revs')
      BY <3>1 DEF ArticleInv, WorkersNumbered
    <3> HIDE DEF row
    <3>6. QED
      BY <1>1, <3>1, <3>2, <3>4, <3>5, RowWritten DEF ArticleInv
  <2>3. QED
    BY <1>b, <2>1, <2>2
<1>5. WorkersNumbered'
  <2>1. \A p \in ImageProcs : NumberedBy(sync[p].body, revs')
    BY <1>0, <1>1, NumberedLater DEF ArticleInv, WorkersNumbered
  <2>2. NumberedBy(tw'.body, revs')
    <3>1. CASE GenerateText
      <4>1. PICK b \in NewBodies : tw' = [tw EXCEPT !.pc = "read", !.body = b]
        BY <3>1 DEF GenerateText
      <4>2. tw'.body = b /\ b.rev = revs' /\ revs' = revs + 1
        BY <1>0, <3>1, <4>1 DEF GenerateText, NewBodies, TextRecs
      <4>3. QED
        BY <1>0, <4>2 DEF NumberedBy
    <3>2. CASE tw'.body = tw.body
      BY <1>0, <1>1, <3>2, NumberedLater DEF ArticleInv, WorkersNumbered
    <3>3. CASE tw'.body = NoBody
      BY <3>3 DEF NoBody, NumberedBy
    <3>4. tw'.body \in {tw.body, NoBody} \/ GenerateText
      <4>1. TakeText \/ CompleteText \/ FailText => tw'.body = NoBody
        <5>1. TakeText => \E v \in Versions : tw' = [TextWorkerIdle EXCEPT !.pc = "generate", !.ver = v]
          BY DEF TakeText
        <5>2. CompleteText \/ FailText => tw' = TextWorkerIdle
          BY DEF CompleteText, FailText
        <5>3. TextWorkerIdle.pc = "idle" /\ TextWorkerIdle.body = NoBody
          BY DEF TextWorkerIdle
        <5>4. QED
          BY <5>1, <5>2, <5>3, NullTypes DEF TextRecs
      <4>2. ReadVersionOfText \/ WriteText \/ TextProjectStatus \/ TextProjectSubstate
            \/ EnqueueImage => tw'.body = tw.body
        BY <1>0 DEF ReadVersionOfText, WriteText, TextProjectStatus, TextProjectSubstate,
                    EnqueueImage, TextRecs
      <4>3. QED
        BY <4>1, <4>2 DEF TextWorker
    <3>5. QED
      BY <3>1, <3>2, <3>3, <3>4
  <2>3. QED
    BY <1>0, <2>1, <2>2 DEF WorkersNumbered
<1>6. OwnImages'
  <2>1. /\ TakeText => tw'.pc = "generate"
        /\ CompleteText \/ FailText => tw'.pc = "idle"
    <3>1. TakeText => \E v \in Versions : tw' = [TextWorkerIdle EXCEPT !.pc = "generate", !.ver = v]
      BY DEF TakeText
    <3>2. CompleteText \/ FailText => tw' = TextWorkerIdle
      BY DEF CompleteText, FailText
    <3>3. TextWorkerIdle.pc = "idle" /\ TextWorkerIdle.body = NoBody
      BY DEF TextWorkerIdle
    <3>4. QED
      BY <3>1, <3>2, <3>3, NullTypes DEF TextRecs
  <2>2. GenerateText \/ ReadVersionOfText \/ EnqueueImage => tw'.pc \in {"read", "write", "complete"}
    BY <1>0 DEF GenerateText, ReadVersionOfText, EnqueueImage, TextRecs
  <2>3. TextProjectStatus \/ TextProjectSubstate =>
          tw.pc \in {"status", "sub", "attach"} /\ tw'.ver = tw.ver
    BY <1>0 DEF TextProjectStatus, TextProjectSubstate, TextRecs
  <2>4. WriteText => tw'.ver \in Created'
    <3> SUFFICES ASSUME WriteText PROVE tw'.ver \in Created'
      OBVIOUS
    <3>1. tw.ver \in Versions /\ tw'.ver = tw.ver /\ version'[tw.ver].status = "ai_generated"
      BY <1>0 DEF WriteText, TextRecs, VersionRows
    <3>2. QED
      BY <3>1 DEF Created
  <2>5. tw'.pc \in {"status", "sub", "attach"} =>
          tw'.ver \in Created' \/ (tw.pc \in {"status", "sub", "attach"} /\ tw'.ver = tw.ver)
    BY <2>1, <2>2, <2>3, <2>4 DEF TextWorker
  <2>6. Created \subseteq Created' /\ ImagesKept
    BY <1>0, <1>b DEF RowsKept, ImagesKept
  <2>7. QED
    BY <1>4, <2>5, <2>6, OwnImagesStay DEF ArticleInv, RowsGood
<1>7. QED
  BY <1>0, <1>3, <1>4, <1>5, <1>6, JudgementsStay, ViewsStay, CallsStay DEF ArticleInv, RowsGood

-----------------------------------------------------------------------------
(* The image worker, its listeners and the queues *)

\* What a QA that passes a body has seen, and what it leaves behind.
LEMMA VerdictGood ==
  ASSUME TypeInv, RowsNumbered, revs' \in Nat, revs <= revs',
         NEW v \in Versions, NEW b \in Bodies, NEW hero \in BOOLEAN, NEW row \in VersionRows,
         NumberedBy(b, revs'), hero => HasHero(v)', row.img = version[v].img,
         NumberedBy(row.body, revs'),
         version' = [version EXCEPT ![v] = Judged(row, Qa(b, hero))],
         passed' = passed \cup Noted(v, Qa(b, hero))
  PROVE  RowsGood /\ (Passed(Qa(b, hero)) => Good(v)')
<1> DEFINE report == Qa(b, hero)
           new == Judged(row, report)
<1>1. Passed(report) => Good(v)'
  <2> SUFFICES ASSUME Passed(report) PROVE Good(v)'
    OBVIOUS
  <2>1. hero /\ b.grade # "none"
    BY DEF Passed, Qa
  <2>2. b.rev \in 1..revs'
    BY <2>1 DEF NumberedBy
  <2>3. <<v, b.rev>> \in passed'
    BY DEF Noted, Qa
  <2>4. QED
    BY <2>1, <2>2, <2>3 DEF Good, PassedOnce
<1>2. /\ new.img = row.img /\ new.body = row.body
      /\ new.status \in {"qa_passed", "approved"} => Passed(report)
  BY DEF Judged, VersionRows
<1>3. RowsGood
  <2> HIDE DEF new, report
  <2>1. version' = [version EXCEPT ![v] = new]
    BY DEF new, report
  <2>2. QED
    BY <1>1, <1>2, <2>1, RowWritten
<1>4. QED
  BY <1>1, <1>3

SyncOk(p) == /\ NumberedBy(sync[p].body, revs)
             /\ sync[p].pc \in {"checking", "verdict"} /\ sync[p].hero => HasHero(sync[p].ver)

SyncsMoved == \A p \in ImageProcs : sync'[p] # sync[p] => SyncOk(p)'

LEMMA ImageSideGood ==
  ASSUME TypeInv, ArticleInv, ImageSide, UNCHANGED <<ctl, rows>>
  PROVE  ArticleInv'
<1> USE DEF ImageProcs
<1>0. /\ UNCHANGED <<tw, proc, revs>> /\ TypeInv' /\ RowsKept
      /\ sync \in [ImageProcs -> SyncRecs] /\ version \in [Versions -> VersionRows]
      /\ image \in [Images -> ImageRows] /\ revs \in Nat
  BY ImageSideKeeps
     DEF TypeInv, AutopilotTypeOK, TypeOK, SyncRecs, ImageSide, ImageWorker, TakeImage,
         SaveImage, SaveVariants, ImageSync, ReadForQa, QaChecking, WriteQa, QaProjectStatus,
         QaProjectSubstate, Synced, CompleteImage, FailImage, Listener, MarkImageFailed
<1>cases. \/ TakeImage \/ SaveImage \/ SaveVariants \/ CompleteImage \/ FailImage
          \/ \E l \in Listeners : MarkImageFailed(l)
          \/ \E p \in ImageProcs : ImageSync(p)
  BY DEF ImageSide, ImageWorker, Listener
<1>writes. UNCHANGED <<version, passed>> \/ \E p \in ImageProcs : WriteQa(p)
  BY <1>cases DEF TakeImage, SaveImage, SaveVariants, ImageSync, ReadForQa, QaChecking,
     QaProjectStatus, QaProjectSubstate, CompleteImage, FailImage, MarkImageFailed
<1>1. ImagesKept
  <2>1. ASSUME NEW j, NEW r, image' = [image EXCEPT ![j] = r], j \in Images => (image[j].hero => r.hero) /\ r.of = image[j].of
        PROVE  ImagesKept
    BY <1>0, <2>1 DEF ImagesKept
  <2>2. ASSUME NEW j, NEW s, image' = [image EXCEPT ![j].status = s]
        PROVE  ImagesKept
    <3>1. j \in Images => /\ [image[j] EXCEPT !.status = s].hero = image[j].hero
                        /\ [image[j] EXCEPT !.status = s].of = image[j].of
      BY <1>0 DEF ImageRows
    <3>2. image' = [image EXCEPT ![j] = [image[j] EXCEPT !.status = s]]
      BY <2>2
    <3>3. QED
      BY <2>1, <3>1, <3>2
  <2>3. CASE SaveVariants
    <3> DEFINE j == sync["worker"].img
    <3>1. image' = [image EXCEPT ![j] = [image[j] EXCEPT !.hero = TRUE]]
      BY <2>3 DEF SaveVariants
    <3>2. j \in Images => /\ [image[j] EXCEPT !.hero = TRUE].hero
                        /\ [image[j] EXCEPT !.hero = TRUE].of = image[j].of
      BY <1>0 DEF ImageRows
    <3>3. QED
      BY <2>1, <3>1, <3>2
  <2>4. CASE UNCHANGED image
    BY <2>4 DEF ImagesKept
  <2>5. CASE TakeImage \/ SaveImage \/ \E l \in Listeners : MarkImageFailed(l)
    <3>1. \E j, s : image' = [image EXCEPT ![j].status = s]
      BY <2>5 DEF TakeImage, SaveImage, MarkImageFailed
    <3>2. QED
      BY <2>2, <3>1
  <2>6. QED
    BY <1>cases, <2>3, <2>4, <2>5 DEF ImageSync, ReadForQa, QaChecking, WriteQa,
       QaProjectStatus, QaProjectSubstate, CompleteImage, FailImage
<1>2. Grows
  <2>1. passed \subseteq passed'
    BY <1>writes DEF WriteQa
  <2>2. QED
    BY <1>0, <1>1, <2>1, GrowsIf DEF ImagesKept
<1>3. RowsGood
  <2>1. CASE UNCHANGED version
    BY <1>0, <2>1, RowsUntouched DEF ArticleInv
  <2>2. ASSUME NEW p \in ImageProcs, WriteQa(p)
        PROVE  RowsGood
    <3>1. PICK v \in Versions, b \in Bodies, hero \in BOOLEAN :
            v = sync[p].ver /\ b = sync[p].body /\ hero = sync[p].hero
      BY <1>0, <2>2 DEF WriteQa, SyncRecs, TypeInv, Pointers
    <3>2. hero => HasHero(v)
      BY <2>2, <3>1 DEF WriteQa, ArticleInv, Views
    <3>3. NumberedBy(b, revs') /\ NumberedBy(version[v].body, revs')
      BY <1>0, <3>1 DEF ArticleInv, WorkersNumbered, RowsNumbered
    <3>4. version[v] \in VersionRows
      BY <1>0
    <3>5. /\ version' = [version EXCEPT ![v] = Judged(version[v], Qa(b, hero))]
          /\ passed' = passed \cup Noted(v, Qa(b, hero))
      BY <2>2, <3>1 DEF WriteQa
    <3>6. hero => HasHero(v)'
      BY <1>2, <3>2 DEF Grows
    <3>7. PICK row \in VersionRows : row = version[v]
      BY <3>4
    <3>8. RowsNumbered /\ revs' \in Nat /\ revs <= revs' /\ row.img = version[v].img
          /\ NumberedBy(row.body, revs')
          /\ version' = [version EXCEPT ![v] = Judged(row, Qa(b, hero))]
      BY <1>0, <3>3, <3>5, <3>7 DEF ArticleInv
    <3>9. QED
      BY <3>3, <3>5, <3>6, <3>8, VerdictGood
  <2>3. QED
    BY <1>writes, <2>1, <2>2
<1>4. SyncsMoved
  <2>1. ASSUME NEW p \in ImageProcs, sync'[p].body = NoBody \/ sync'[p].body = sync[p].body,
               sync'[p].pc \notin {"checking", "verdict"}
        PROVE  SyncOk(p)'
    BY <1>0, <2>1 DEF SyncOk, ArticleInv, WorkersNumbered, NoBody, NumberedBy
  <2>2. ASSUME NEW p \in ImageProcs, NEW pc \in SyncSteps, SyncGoto(p, pc),
               pc = "verdict" => sync[p].pc = "checking", pc # "checking"
        PROVE  SyncsMoved
    <3>1. /\ sync'[p].body = sync[p].body /\ sync'[p].pc = pc
          /\ sync'[p].ver = sync[p].ver /\ sync'[p].hero = sync[p].hero
          /\ \A q \in ImageProcs : q # p => sync'[q] = sync[q]
      BY <1>0, <2>2 DEF SyncGoto, SyncRecs
    <3>2. CASE pc # "verdict"
      BY <2>1, <2>2, <3>1, <3>2 DEF SyncsMoved
    <3>3. CASE pc = "verdict"
      <4>1. NumberedBy(sync'[p].body, revs')
        BY <1>0, <3>1 DEF ArticleInv, WorkersNumbered
      <4>2. sync[p].ver \in Versions /\ (sync[p].hero => HasHero(sync[p].ver))
        BY <2>2, <3>3 DEF ArticleInv, Views, TypeInv, Pointers
      <4>3. sync'[p].hero => HasHero(sync[p].ver)'
        BY <1>2, <3>1, <4>2 DEF Grows
      <4>4. QED
        BY <3>1, <4>1, <4>3 DEF SyncOk, SyncsMoved
    <3>4. QED
      BY <3>2, <3>3
  <2>3. ASSUME NEW p \in ImageProcs, NEW r, sync' = [sync EXCEPT ![p] = r],
               r.body = NoBody, r.pc \notin {"checking", "verdict"}
        PROVE  SyncsMoved
    BY <1>0, <2>1, <2>3 DEF SyncsMoved
  <2>4. CASE TakeImage
    <3>1. PICK j \in ImageJobs :
            sync' = [sync EXCEPT !["worker"] =
                      [SyncIdle EXCEPT !.pc = "generate", !.job = j, !.img = imageJob[j].img]]
      BY <2>4 DEF TakeImage
    <3> DEFINE r == [SyncIdle EXCEPT !.pc = "generate", !.job = j, !.img = imageJob[j].img]
    <3>2. r.body = NoBody /\ r.pc = "generate"
      BY DEF SyncIdle
    <3> HIDE DEF r
    <3>3. QED
      BY <2>3, <3>1, <3>2 DEF r
  <2>5. CASE SaveImage \/ SaveVariants
    <3>1. \E pc \in {"variants", "read"} : SyncGoto("worker", pc)
      BY <2>5 DEF SaveImage, SaveVariants
    <3>2. QED
      BY <2>2, <3>1 DEF SyncSteps
  <2>6. SyncIdle.body = NoBody /\ SyncIdle.pc = "idle"
    BY DEF SyncIdle
  <2>7. CASE CompleteImage
    BY <2>3, <2>6, <2>7 DEF CompleteImage
  <2>8. CASE FailImage
    <3>1. PICK l \in Listeners, pc \in {"failed", "retryable"} :
            sync' = [sync EXCEPT !["worker"] = SyncIdle,
                                 ![l] = [SyncIdle EXCEPT !.pc = pc, !.img = sync["worker"].img]]
      BY <2>8 DEF FailImage
    <3> DEFINE r == [SyncIdle EXCEPT !.pc = pc, !.img = sync["worker"].img]
    <3>2. r.body = NoBody /\ r.pc \notin {"checking", "verdict"}
      BY DEF SyncIdle
    <3> HIDE DEF r
    <3>3. \A p \in ImageProcs : sync'[p] \in {sync[p], SyncIdle, r}
      BY <1>0, <3>1 DEF r
    <3>4. QED
      BY <2>1, <2>6, <3>2, <3>3 DEF SyncsMoved
  <2>9. ASSUME NEW l \in Listeners, MarkImageFailed(l)
        PROVE  SyncsMoved
    <3>1. \/ sync' = [sync EXCEPT ![l] = SyncIdle]
          \/ sync' = [sync EXCEPT ![l].pc = "read"]
      BY <2>9 DEF MarkImageFailed
    <3>2. CASE sync' = [sync EXCEPT ![l] = SyncIdle]
      BY <2>3, <2>6, <3>2
    <3>3. CASE sync' = [sync EXCEPT ![l].pc = "read"]
      BY <2>2, <3>3 DEF SyncGoto, SyncSteps
    <3>4. QED
      BY <3>1, <3>2, <3>3
  <2>10. ASSUME NEW p \in ImageProcs, ReadForQa(p)
         PROVE  SyncsMoved
    <3>0. CASE Synced(p)
      <4>1. SyncGoto(p, "complete") \/ sync' = [sync EXCEPT ![p] = SyncIdle]
        BY <3>0 DEF Synced
      <4>2. QED
        BY <2>2, <2>3, <2>6, <4>1 DEF SyncSteps
    <3> SUFFICES ASSUME ~ Synced(p) PROVE SyncsMoved
      BY <3>0
    <3>1. PICK v \in Versions :
            /\ version[v].img = sync[p].img /\ sync[p].pc = "read"
            /\ sync' = [sync EXCEPT ![p].pc = "checking", ![p].ver = v,
                                    ![p].body = version[v].body,
                                    ![p].hero = HeroReady(sync[p].img)]
            /\ UNCHANGED <<version, image>>
      BY <2>10 DEF ReadForQa
    <3>2. PICK b \in Bodies, hero \in BOOLEAN : b = version[v].body /\ hero = HeroReady(sync[p].img)
      BY <1>0, HeroBoolean DEF SyncRecs, VersionRows
    <3>3. /\ sync'[p].ver = v /\ sync'[p].body = b /\ sync'[p].hero = hero
          /\ \A q \in ImageProcs : q # p => sync'[q] = sync[q]
      BY <1>0, <3>1, <3>2 DEF SyncRecs
    <3>4. hero => HasHero(v)'
      BY <1>2, <3>1, <3>2, ShownHero DEF ArticleInv, Grows
    <3>5. NumberedBy(b, revs')
      BY <1>0, <3>2 DEF ArticleInv, RowsNumbered
    <3>6. QED
      BY <3>3, <3>4, <3>5 DEF SyncOk, SyncsMoved
  <2>11. ASSUME NEW p \in ImageProcs, QaChecking(p) \/ WriteQa(p) \/ QaProjectStatus(p)
         PROVE  SyncsMoved
    <3>1. \/ sync[p].pc = "checking" /\ SyncGoto(p, "verdict")
          \/ \E pc \in {"status", "sub"} : SyncGoto(p, pc)
      BY <2>11 DEF QaChecking, WriteQa, QaProjectStatus
    <3>2. QED
      BY <2>2, <3>1 DEF SyncSteps
  <2>12. ASSUME NEW p \in ImageProcs, QaProjectSubstate(p)
         PROVE  SyncsMoved
    <3>1. SyncGoto(p, "complete") \/ sync' = [sync EXCEPT ![p] = SyncIdle]
      BY <2>12 DEF QaProjectSubstate, Synced
    <3>2. QED
      BY <2>2, <2>3, <2>6, <3>1 DEF SyncSteps
  <2>13. QED
    BY <1>cases, <2>4, <2>5, <2>7, <2>8, <2>9, <2>10, <2>11, <2>12 DEF ImageSync
<1>5. \A p \in ImageProcs : SyncOk(p)'
  <2> SUFFICES ASSUME NEW p \in ImageProcs, sync'[p] = sync[p]
               PROVE  SyncOk(p)'
    BY <1>4 DEF SyncsMoved
  <2>1. sync[p].pc \in {"checking", "verdict"} => sync[p].ver \in Versions
    BY DEF TypeInv, Pointers
  <2>2. sync[p].pc \in {"checking", "verdict"} /\ sync[p].hero => HasHero(sync[p].ver)'
    BY <1>2, <2>1 DEF ArticleInv, Views, Grows
  <2>3. NumberedBy(sync[p].body, revs')
    BY <1>0 DEF ArticleInv, WorkersNumbered
  <2>4. QED
    BY <2>2, <2>3 DEF SyncOk
<1>6. WorkersNumbered' /\ Views'
  BY <1>0, <1>5 DEF SyncOk, WorkersNumbered, Views, ArticleInv
<1>7. OwnImages'
  BY <1>0, <1>1, <1>3, OwnImagesStay DEF ArticleInv, RowsGood, RowsKept
<1>8. QED
  BY <1>0, <1>2, <1>3, <1>6, <1>7, JudgementsStay, CallsStay DEF ArticleInv, RowsGood

LEMMA QueuesGood ==
  ASSUME TypeInv, ArticleInv, DelayOver \/ WorkerCrash \/ RecoverStalled,
         UNCHANGED <<ctl, rows>>
  PROVE  ArticleInv'
<1> USE DEF ImageProcs
<1>0. /\ UNCHANGED <<project, version, image, proc, revs, passed>> /\ revs \in Nat
      /\ RowsKept /\ sync \in [ImageProcs -> SyncRecs]
  BY QueuesKeep
     DEF DelayOver, WorkerCrash, RecoverStalled, TypeInv, AutopilotTypeOK, TypeOK, SyncRecs
<1>1. Grows
  BY <1>0, GrowsIf
<1>2. RowsGood
  BY <1>0, RowsUntouched DEF ArticleInv
<1>3. tw' \in {tw, TextWorkerIdle}
  BY DEF DelayOver, WorkerCrash, RecoverStalled
<1>4. \A p \in ImageProcs : sync'[p] \in {sync[p], SyncIdle}
  BY <1>0 DEF DelayOver, WorkerCrash, RecoverStalled
<1>5. /\ SyncIdle.body = NoBody /\ SyncIdle.pc = "idle" /\ NumberedBy(NoBody, revs)
      /\ TextWorkerIdle.body = NoBody /\ TextWorkerIdle.pc = "idle"
  BY DEF SyncIdle, NumberedBy, NoBody, TextWorkerIdle
<1>6. WorkersNumbered'
  BY <1>0, <1>3, <1>4, <1>5 DEF ArticleInv, WorkersNumbered
<1>7. OwnImages'
  BY <1>0, <1>3, <1>5 DEF ArticleInv, OwnImages, Created
<1>8. Views'
  BY <1>0, <1>4, <1>5 DEF ArticleInv, Views, HasHero
<1>9. QED
  BY <1>0, <1>1, <1>2, <1>6, <1>7, <1>8, JudgementsStay, CallsStay DEF ArticleInv, RowsGood

-----------------------------------------------------------------------------
(* Requests, and the calls they have in common with the controllers *)

\* A process moves on and keeps what it has read.
LEMMA GotoKeeps ==
  ASSUME TypeInv, NEW x \in Procs, NEW pc \in ProcSteps, Goto(x, pc)
  PROVE  /\ proc'[x].pc = pc /\ proc'[x].op = proc[x].op /\ proc'[x].ver = proc[x].ver
         /\ proc'[x].seen = proc[x].seen /\ proc'[x].hero = proc[x].hero
         /\ proc'[x].body = proc[x].body
<1>1. proc[x] \in ProcRecs /\ proc'[x] = [proc[x] EXCEPT !.pc = pc]
  BY GotoMoves DEF TypeInv, AutopilotTypeOK, TypeOK, ProcRecs
<1>2. QED
  BY <1>1 DEF ProcRecs

LEMMA NumbersKept ==
  ASSUME TypeInv, Grows, NEW x \in Procs, ProcNumbered(x),
         proc'[x].body = proc[x].body, proc'[x].seen = proc[x].seen
  PROVE  ProcNumbered(x)'
<1>1. revs \in Nat
  BY DEF TypeInv, AutopilotTypeOK, TypeOK
<1>2. QED
  BY <1>1, NumberedLater DEF ProcNumbered, Grows

LEMMA CallElse ==
  ASSUME NEW x, proc'[x].pc \notin {"qa", "approve"}
  PROVE  CallOk(x)'
  BY DEF CallOk

LEMMA CycleLeft ==
  ASSUME NEW x, proc'[x].pc \notin Cycle
  PROVE  CycleOk(x)'
  BY DEF CycleOk, Cycle, Trying, Beyond

LEMMA CycleGoesOn ==
  ASSUME TypeInv, Grows, NEW x \in Controllers, CycleOk(x), ctl'[x] = ctl[x],
         proc[x].pc \in Trying \cup {"claim"}, proc'[x].pc \notin {"repaired", "passed"},
         proc'[x].hero = proc[x].hero, proc'[x].op = proc[x].op, proc'[x].ver = proc[x].ver
  PROVE  CycleOk(x)'
<1>1. ctl[x].target \in Versions
  BY ControllerFacts
<1>2. proc[x].pc \in Cycle
  BY DEF Cycle, Trying, Beyond
<1>3. proc'[x].hero => HasHero(ctl[x].target)'
  BY <1>1 DEF CycleOk, Grows
<1>4. proc'[x].op = "recover_failed" => x \in Recoveries /\ proc'[x].ver \in Versions
  BY <1>2 DEF CycleOk
<1>5. QED
  BY <1>1, <1>3, <1>4 DEF CycleOk

\* A request writes revisions and reports, and takes back neither.
LEMMA RequestGrows ==
  ASSUME TypeInv, ArticleInv, NEW x \in Procs, Request(x), ~ AssetRequest(x),
         UNCHANGED <<ctl, rows>>
  PROVE  Grows /\ RowsGood /\ ImagesKept
<1>0. /\ version \in [Versions -> VersionRows] /\ proc[x] \in ProcRecs
      /\ image \in [Images -> ImageRows] /\ revs \in Nat /\ AutopilotTypeOK
      /\ RowsNumbered /\ ProcNumbered(x) /\ CallOk(x)
  BY DEF TypeInv, AutopilotTypeOK, TypeOK, ProcRecs, ArticleInv, Calls
<1>1. revs' \in Nat /\ revs <= revs' /\ (~ EditWrite(x) => revs' = revs)
  <2>1. revs' = revs \/ (revs' = revs + 1 /\ EditWrite(x))
    BY DEF Request, RequestBegins, RequestGenerate, EditRead, ApproveRead, RetryImageRead, AssetRequest,
       RequestEnds, CallGoesOn, Generation, ReadLatestNumber, CreateVersion, EnqueueText,
       ProjectDraft, ProjectGenerating, EditWrite, EditReadProject, EditQa, EditProjectStatus,
       ApproveVersion, ApproveProject, RequeueImage, RequeueImageJob
  <2>2. QED
    BY <1>0, <2>1
<1>2. ImagesKept
  <2>1. CASE UNCHANGED image
    BY <2>1 DEF ImagesKept
  <2>2. CASE RequeueImage(x)
    <3>1. image' = [image EXCEPT ![proc[x].seen.img].status = "queued"]
      BY <2>2 DEF RequeueImage
    <3>2. QED
      BY <1>0, <3>1 DEF ImageRows, ImagesKept
  <2>3. QED
    BY <2>1, <2>2
       DEF Request, RequestBegins, RequestGenerate, EditRead, ApproveRead, RetryImageRead, AssetRequest,
       RequestEnds, CallGoesOn, Generation, ReadLatestNumber, CreateVersion, EnqueueText,
       ProjectDraft, ProjectGenerating, EditWrite, EditReadProject, EditQa, EditProjectStatus,
       ApproveVersion, ApproveProject, RequeueImageJob
<1> DEFINE v == proc[x].ver
<1>3. ASSUME passed \subseteq passed'
      PROVE  Grows
  BY <1>1, <1>2, <1>3, GrowsIf DEF ImagesKept
<1>4. CASE UNCHANGED <<version, passed>>
  BY <1>0, <1>1, <1>2, <1>3, <1>4, RowsUntouched
<1>5. CASE CreateVersion(x)
  <2>1. CASE UNCHANGED version
    BY <1>4, <1>5, <2>1 DEF CreateVersion
  <2>2. CASE /\ v \in Versions /\ version[v].status = "none"
             /\ version' = [version EXCEPT ![v] = [NoVersion EXCEPT !.status = "draft"]]
    <3> DEFINE row == [NoVersion EXCEPT !.status = "draft"]
    <3>1. row.img = None /\ row.body = NoBody /\ row.status = "draft"
      BY DEF NoVersion
    <3>2. version[v].img = None
      BY <2>2 DEF ArticleInv, OwnImages
    <3>3. NumberedBy(NoBody, revs')
      BY DEF NumberedBy, NoBody
    <3> HIDE DEF row
    <3>4. version' = [version EXCEPT ![v] = row]
      BY <2>2 DEF row
    <3>5. RowsGood
      BY <1>0, <1>1, <2>2, <3>1, <3>2, <3>3, <3>4, RowWritten
    <3>6. Grows
      BY <1>3, <1>5 DEF CreateVersion
    <3>7. QED
      BY <1>2, <3>5, <3>6
  <2>3. QED
    BY <1>0, <1>5, <2>1, <2>2 DEF CreateVersion
<1>6. CASE EditWrite(x)
  <2>1. PICK b \in NewBodies : version' = [version EXCEPT ![v].body = b]
    BY <1>6 DEF EditWrite
  <2>2. v \in Versions /\ b \in Bodies
    BY <1>0, <1>6, NewBodiesType DEF EditWrite, TypeInv, Pointers
  <2> DEFINE row == [version[v] EXCEPT !.body = b]
  <2>3. row.img = version[v].img /\ row.body = b /\ row.status = version[v].status
    BY <1>0, <2>2 DEF VersionRows
  <2>4. version' = [version EXCEPT ![v] = row]
    BY <1>0, <2>1
  <2>5. b.rev = revs' /\ revs' = revs + 1
    BY <1>6 DEF EditWrite, NewBodies
  <2>6. NumberedBy(b, revs')
    BY <1>0, <2>5 DEF NumberedBy
  <2> HIDE DEF row
  <2>7. RowsGood
    BY <1>0, <1>1, <2>2, <2>3, <2>4, <2>6, RowWritten
  <2>8. Grows
    BY <1>3, <1>6 DEF EditWrite
  <2>9. QED
    BY <1>2, <2>7, <2>8
<1>7. CASE EditQa(x)
  <2>1. PICK u \in Versions, b \in Bodies, hero \in BOOLEAN, row \in VersionRows :
          u = v /\ b = proc[x].body /\ hero = proc[x].hero /\ row = version[u]
    BY <1>0, <1>7 DEF EditQa, ProcRecs, TypeInv, Pointers
  <2>2. /\ version' = [version EXCEPT ![u] = Judged(row, Qa(b, hero))]
        /\ passed' = passed \cup Noted(u, Qa(b, hero))
        /\ revs' = revs
    BY <1>1, <1>7, <2>1 DEF EditQa, EditWrite
  <2>3. NumberedBy(b, revs') /\ NumberedBy(row.body, revs')
    BY <1>0, <2>1, <2>2 DEF RowsNumbered, ProcNumbered
  <2>4. Judged(row, Qa(b, hero)).img = row.img
    BY <1>0, <2>1 DEF Judged, VersionRows
  <2>5. Grows
    BY <1>3, <2>2
  <2>6. hero => HasHero(u)'
    BY <1>0, <1>7, <2>1, <2>5 DEF CallOk, EditQa, Grows
  <2>7. QED
    BY <1>0, <1>1, <1>2, <2>1, <2>2, <2>3, <2>5, <2>6, VerdictGood
<1>8. CASE ApproveVersion(x)
  <2>1. v \in Versions /\ Good(v)
    BY <1>0, <1>8 DEF ApproveVersion, CallOk
  <2> DEFINE row == [version[v] EXCEPT !.status = "approved"]
  <2>2. row.img = version[v].img /\ row.body = version[v].body
    BY <1>0, <2>1 DEF VersionRows
  <2>3. version' = [version EXCEPT ![v] = row]
    BY <1>0, <1>8 DEF ApproveVersion
  <2> HIDE DEF row
  <2>4. revs' = revs
    BY <1>1, <1>8 DEF ApproveVersion, EditWrite
  <2>5. NumberedBy(row.body, revs')
    BY <1>0, <2>1, <2>2, <2>4 DEF RowsNumbered
  <2>6. Grows
    BY <1>3, <1>8 DEF ApproveVersion
  <2>7. PICK u \in Versions : u = v
    BY <2>1
  <2>8. Good(u)'
    BY <2>1, <2>6, <2>7 DEF Good, Grows
  <2>9. QED
    BY <1>0, <1>1, <1>2, <2>2, <2>3, <2>5, <2>6, <2>7, <2>8, RowWritten
<1>9. QED
  BY <1>4, <1>5, <1>6, <1>7, <1>8
     DEF Request, RequestBegins, RequestGenerate, EditRead, ApproveRead, RetryImageRead,
         RequestEnds, CallGoesOn, Generation, ReadLatestNumber, EnqueueText, ProjectDraft,
         ProjectGenerating, EditReadProject, EditProjectStatus, ApproveProject, RequeueImage,
         RequeueImageJob

\* What a call writes, whether or not it asks for another image.
LEMMA RequestWrites ==
  ASSUME TypeInv, ArticleInv, NEW x \in Procs, Request(x), UNCHANGED <<ctl, rows>>
  PROVE  /\ Grows /\ Verdicts /\ RowsNumbered' /\ OwnImages'
         /\ RowsKept /\ UNCHANGED <<tw, sync>>
<1>0. RowsKept /\ UNCHANGED <<tw, sync>>
  BY RequestTypes
<1>1. CASE AssetRequest(x)
  <2>1. PICK v \in Created, i \in Images : NewImage(v, i)
    BY <1>1 DEF AssetRequest
  <2>2. UNCHANGED <<revs, passed, tw>>
    BY <1>1 DEF AssetRequest
  <2>3. QED
    BY <1>0, <2>1, <2>2, AnotherImage DEF ArticleInv
<1>2. CASE ~ AssetRequest(x)
  <2>1. Grows /\ RowsGood /\ ImagesKept
    BY <1>2, RequestGrows
  <2>2. QED
    BY <1>0, <2>1, OwnImagesStay DEF ArticleInv, RowsGood, RowsKept
<1>3. QED
  BY <1>1, <1>2

LEMMA CallGood ==
  ASSUME TypeInv, ArticleInv, NEW x \in Procs, CallGoesOn(x), UNCHANGED <<ctl, rows>>
  PROVE  /\ CallOk(x)' /\ ProcNumbered(x)'
         /\ x \in Controllers => CycleOk(x)'
<1>0. /\ version \in [Versions -> VersionRows] /\ proc[x] \in ProcRecs
      /\ proc \in [Procs -> ProcRecs] /\ revs \in Nat /\ AutopilotTypeOK
      /\ ProcNumbered(x) /\ CallOk(x) /\ (x \in Controllers => CycleOk(x))
  BY DEF TypeInv, AutopilotTypeOK, TypeOK, ProcRecs, ArticleInv, Calls, Cycles
<1>1. Grows
  BY RequestWrites DEF Request
<1>moves. ASSUME NEW pc \in ProcSteps \ (Cycle \cup {"qa", "approve"}), Goto(x, pc)
          PROVE  CallOk(x)' /\ ProcNumbered(x)' /\ CycleOk(x)'
  BY <1>0, <1>1, <1>moves, GotoKeeps, NumbersKept, CallElse, CycleLeft
<1>2. CASE ReadLatestNumber(x)
  <2>1. PICK pc \in {"create", "end"} :
          proc' = [proc EXCEPT ![x].pc = pc, ![x].ver = Latest + 1]
    BY <1>2 DEF ReadLatestNumber
  <2>2. /\ proc'[x].pc = pc /\ proc'[x].body = proc[x].body /\ proc'[x].seen = proc[x].seen
    BY <1>0, <2>1 DEF ProcRecs
  <2>3. pc \notin Cycle
    BY DEF Cycle, Held, Locked
  <2>4. QED
    BY <1>0, <1>1, <2>2, <2>3, NumbersKept, CallElse, CycleLeft
<1>3. CASE \/ CreateVersion(x) \/ EnqueueText(x) \/ ProjectDraft(x) \/ ProjectGenerating(x)
           \/ EditQa(x) \/ EditProjectStatus(x) \/ ApproveVersion(x) \/ ApproveProject(x)
  <2>1. \E pc \in {"enqueue", "end", "draft", "generating", "regenerating", "edit_status", "approve_project",
                   "approved"} : Goto(x, pc)
    BY <1>3 DEF CreateVersion, EnqueueText, ProjectDraft, ProjectGenerating, EditQa,
       EditProjectStatus, ApproveVersion, ApproveProject
  <2>2. QED
    BY <1>moves, <2>1 DEF ProcSteps, Cycle, Held, Locked
<1>4. CASE EditWrite(x)
  <2>1. PICK b \in NewBodies : proc' = [proc EXCEPT ![x].pc = "edited", ![x].body = b]
    BY <1>4 DEF EditWrite
  <2>2. proc'[x].pc = "edited" /\ proc'[x].body = b /\ proc'[x].seen = proc[x].seen
    BY <1>0, <2>1 DEF ProcRecs
  <2>3. b.rev = revs' /\ revs' = revs + 1
    BY <1>4 DEF EditWrite, NewBodies
  <2>4. NumberedBy(b, revs') /\ NumberedBy(proc[x].seen.body, revs')
    BY <1>0, <2>3, NumberedLater DEF NumberedBy, ProcNumbered
  <2>5. "edited" \notin Cycle
    BY DEF Cycle, Held, Locked
  <2>6. QED
    BY <2>2, <2>4, <2>5, CallElse, CycleLeft DEF ProcNumbered
<1>5. CASE EditReadProject(x)
  <2>1. PICK v \in Versions : v = proc[x].ver
    BY <1>5 DEF EditReadProject, TypeInv, Pointers
  <2>2. PICK hero \in BOOLEAN, pc \in {"qa", "end"} :
          /\ hero = HeroReady(version[v].img)
          /\ proc' = [proc EXCEPT ![x].pc = pc, ![x].hero = hero]
    <3>1. HeroReady(version[v].img) \in BOOLEAN
      BY <1>0, HeroBoolean DEF VersionRows
    <3>2. QED
      BY <1>5, <2>1, <3>1 DEF EditReadProject
  <2>3. /\ proc'[x].pc = pc /\ proc'[x].hero = hero /\ proc'[x].ver = v
        /\ proc'[x].body = proc[x].body /\ proc'[x].seen = proc[x].seen
    BY <1>0, <2>1, <2>2 DEF ProcRecs
  <2>4. hero => HasHero(v)'
    BY <1>1, <2>2, ShownHero DEF ArticleInv, Grows
  <2>5. CallOk(x)'
    BY <2>3, <2>4 DEF CallOk
  <2>6. pc \notin Cycle
    BY DEF Cycle, Held, Locked
  <2>7. QED
    BY <1>0, <1>1, <2>3, <2>5, <2>6, NumbersKept, CycleLeft
<1>6. CASE RequeueImage(x) \/ RequeueImageJob(x)
  <2>1. PICK pc \in {"add_image", "end", "rewrite"} : Goto(x, pc)
    BY <1>6 DEF RequeueImage, RequeueImageJob
  <2>2. proc[x].pc \in Trying /\ pc \in ProcSteps
    BY <1>6 DEF RequeueImage, RequeueImageJob, Trying, Held, Locked, ProcSteps
  <2>3. CallOk(x)' /\ ProcNumbered(x)'
    BY <1>0, <1>1, <2>1, <2>2, GotoKeeps, NumbersKept, CallElse
  <2>4. x \in Controllers => CycleOk(x)'
    BY <1>0, <1>1, <2>1, <2>2, GotoKeeps, CycleGoesOn
  <2>5. QED
    BY <2>3, <2>4
<1>7. QED
  BY <1>2, <1>3, <1>4, <1>5, <1>6 DEF CallGoesOn, Generation

\* A request begins: whatever it approves has been judged.
LEMMA RequestGood ==
  ASSUME TypeInv, ArticleInv, NEW x \in Procs, RequestBegins(x) \/ RequestEnds(x),
         UNCHANGED <<ctl, rows>>
  PROVE  CallOk(x)' /\ ProcNumbered(x)'
<1>0. /\ version \in [Versions -> VersionRows] /\ proc[x] \in ProcRecs
      /\ proc \in [Procs -> ProcRecs] /\ revs \in Nat
      /\ ProcNumbered(x)
  BY DEF TypeInv, AutopilotTypeOK, TypeOK, ProcRecs, ArticleInv, Calls
<1>1. Grows
  BY RequestWrites DEF Request
<1>2. CASE RequestEnds(x)
  <2>1. proc'[x] = [ProcIdle EXCEPT !.pc = "done"]
    BY <1>0, <1>2 DEF RequestEnds
  <2>2. /\ proc'[x].pc = "done" /\ proc'[x].body = NoBody /\ proc'[x].seen.body = NoBody
    BY <2>1 DEF ProcIdle, NoVersion
  <2>3. QED
    BY <2>2, CallElse DEF ProcNumbered, NumberedBy, NoBody
<1>3. CASE RequestGenerate(x) \/ EditRead(x)
  <2>1. \/ proc' = [proc EXCEPT ![x].pc = "number", ![x].op = "generate"]
        \/ \E v \in Created : proc' = [proc EXCEPT ![x].pc = "edit", ![x].op = "edit", ![x].ver = v]
    BY <1>3 DEF RequestGenerate, EditRead
  <2>2. /\ proc'[x].pc \in {"number", "edit"} /\ proc'[x].body = proc[x].body
        /\ proc'[x].seen = proc[x].seen
    BY <1>0, <2>1 DEF ProcRecs
  <2>3. QED
    BY <1>0, <1>1, <2>2, NumbersKept, CallElse
<1>4. CASE ApproveRead(x)
  <2>1. PICK v \in Versions : v = Latest /\ version[v].status = "qa_passed"
    BY <1>4, LatestExists DEF ApproveRead
  <2>2. proc' = [proc EXCEPT ![x].pc = "approve", ![x].op = "approve", ![x].ver = v]
    BY <1>4, <2>1 DEF ApproveRead
  <2>3. /\ proc'[x].pc = "approve" /\ proc'[x].ver = v
        /\ proc'[x].body = proc[x].body /\ proc'[x].seen = proc[x].seen
    BY <1>0, <2>2 DEF ProcRecs
  <2>4. Good(v)'
    BY <1>1, <2>1 DEF ArticleInv, Judgements, Grows, Good
  <2>5. CallOk(x)'
    BY <2>3, <2>4 DEF CallOk
  <2>6. QED
    BY <1>0, <1>1, <2>3, <2>5, NumbersKept
<1>5. CASE RetryImageRead(x) \/ AssetRequest(x)
  <2>1. PICK i \in Images, pc \in {"requeue", "add_image"}, op \in {"retry_image", "asset"} :
          proc' = [proc EXCEPT ![x].pc = pc, ![x].op = op, ![x].seen.img = i]
    BY <1>5 DEF RetryImageRead, AssetRequest
  <2> DEFINE seen == [proc[x].seen EXCEPT !.img = i]
  <2>2. seen.body = proc[x].seen.body
    BY <1>0 DEF ProcRecs, VersionRows
  <2>3. proc'[x] = [proc[x] EXCEPT !.pc = pc, !.op = op, !.seen = seen]
    BY <1>0, <2>1
  <2> HIDE DEF seen
  <2>4. /\ proc'[x].pc = pc /\ proc'[x].body = proc[x].body /\ proc'[x].seen = seen
    BY <1>0, <2>3 DEF ProcRecs
  <2>5. UNCHANGED revs
    BY <1>5 DEF RetryImageRead, AssetRequest
  <2>6. QED
    BY <1>0, <2>2, <2>4, <2>5, CallElse DEF ProcNumbered
<1>6. QED
  BY <1>2, <1>3, <1>4, <1>5 DEF RequestBegins

LEMMA OperatorGood ==
  ASSUME TypeInv, ArticleInv, NEW x \in Operators, Request(x), UNCHANGED <<ctl, rows>>
  PROVE  ArticleInv'
<1>1. x \in Procs /\ x \notin Controllers
  BY DEF Operators
<1>2. /\ Grows /\ Verdicts /\ RowsNumbered' /\ OwnImages'
      /\ UNCHANGED <<tw, sync>>
  BY <1>1, RequestWrites
<1>3. \A y \in Procs : y # x => proc'[y] = proc[y]
  BY <1>1, RequestLeads, CallGoesOnLeads DEF Request, CallLeads
<1>4. CallOk(x)' /\ ProcNumbered(x)'
  BY <1>1, CallGood, RequestGood DEF Request
<1>5. Calls' /\ Cycles'
  BY <1>1, <1>2, <1>3, <1>4, OneMoves DEF ArticleInv
<1>6. QED
  BY <1>2, <1>5, JudgementsStay, ViewsStay, WorkersNumberedStay DEF ArticleInv

LEMMA ControllerCallGood ==
  ASSUME TypeInv, ArticleInv, NEW x \in Controllers, CallGoesOn(x), UNCHANGED <<ctl, rows>>
  PROVE  ArticleInv'
<1>1. x \in Procs
  BY AutopilotConstants
<1>2. /\ Grows /\ Verdicts /\ RowsNumbered' /\ OwnImages'
      /\ UNCHANGED <<tw, sync>>
  BY <1>1, RequestWrites DEF Request
<1>3. \A y \in Procs : y # x => proc'[y] = proc[y]
  BY <1>1, CallGoesOnLeads DEF CallLeads
<1>4. CallOk(x)' /\ ProcNumbered(x)' /\ CycleOk(x)'
  BY <1>1, CallGood
<1>5. Calls' /\ Cycles'
  BY <1>1, <1>2, <1>3, <1>4, OneMoves DEF ArticleInv
<1>6. QED
  BY <1>2, <1>5, JudgementsStay, ViewsStay, WorkersNumberedStay DEF ArticleInv

-----------------------------------------------------------------------------
(* The locks that run out *)

LEMMA LocksGood ==
  ASSUME TypeInv, ArticleInv, LockExpires \/ WatchdogReleases
  PROVE  ArticleInv'
<1>0. /\ UNCHANGED <<image, tw, sync, proc, revs, passed, ctl>>
      /\ version \in [Versions -> VersionRows] /\ revs \in Nat
  BY DEF LockExpires, WatchdogReleases, PipelineUnchanged, TypeInv, AutopilotTypeOK, TypeOK
<1>1. Created' = Created
  BY LockWritten
<1>2. \A v \in Versions : /\ version'[v].img = version[v].img
                          /\ version'[v].body = version[v].body
                          /\ version'[v].status = version[v].status
  <2>1. PICK v \in Created, l \in {"expired", "free"} :
          version' = [version EXCEPT ![v] = [version[v] EXCEPT !.lock = l]]
    BY <1>0 DEF LockExpires, WatchdogReleases, Unlocked
  <2>2. version[v] \in VersionRows /\ v \in Versions
    BY <1>0 DEF Created
  <2> DEFINE row == [version[v] EXCEPT !.lock = l]
  <2>3. row.img = version[v].img /\ row.body = version[v].body /\ row.status = version[v].status
    BY <2>2 DEF VersionRows
  <2> HIDE DEF row
  <2>4. QED
    BY <1>0, <2>1, <2>2, <2>3 DEF row
<1>3. Grows
  BY <1>0, <1>2, GrowsIf
<1>4. RowsGood
  BY <1>0, <1>2 DEF RowsGood, Verdicts, ImagesSame, RowsNumbered, ArticleInv
<1>5. QED
  BY <1>0, <1>1, <1>3, <1>4, JudgementsStay, ViewsStay, WorkersNumberedStay, OwnImagesStay, CallsStay
     DEF ArticleInv, RowsGood, ImagesKept

-----------------------------------------------------------------------------
(* The controllers *)

\* The update of the version under repair.
LEMMA TargetWritten ==
  ASSUME TypeInv, RowsNumbered, revs' \in Nat, revs <= revs',
         NEW v \in Versions, NEW row \in VersionRows, version' = [version EXCEPT ![v] = row],
         row.img = version[v].img, row.status = version[v].status, NumberedBy(row.body, revs')
  PROVE  RowsGood
  BY RowWritten

LEMMA ControlsGrow ==
  ASSUME TypeInv, ArticleInv, NEW x \in Controllers, Controls(x)
  PROVE  Grows /\ RowsGood /\ (JudgeRepair(x) /\ Passed(RepairReport(x)) => Good(ctl[x].target)')
<1>0. /\ version \in [Versions -> VersionRows] /\ proc[x] \in ProcRecs /\ revs \in Nat
      /\ RowsNumbered /\ ProcNumbered(x) /\ CycleOk(x) /\ UNCHANGED image /\ x \in Procs
      /\ proc[x].pc \in Held \cup {"claim"} => ctl[x].target \in Versions
  BY ControllerFacts
     DEF Trying, TypeInv, AutopilotTypeOK, TypeOK, ArticleInv, Calls, Cycles,
         Controls, Looks, TickReads, RecoveryReads, WriteWaiting,
         Plan, Hopeless, RetryImage, Rewrite, RepairRereads, RepairedProject,
         MarkIntervention, RepairPassed, WriteAutoApproved, RowsCreated, RepairThrows,
         RepairReads, ClaimRepair, GiveUp, StoreRepair, JudgeRepair, FindMissing, CreateRow,
         ControllerEnds, ControllerDies, PipelineUnchanged
<1>1. revs' \in Nat /\ revs <= revs' /\ (~ Rewrite(x) => revs' = revs)
  <2>1. revs' = revs \/ (revs' = revs + 1 /\ Rewrite(x))
    BY DEF Controls, Looks, TickReads, RecoveryReads, WriteWaiting, Plan, Hopeless,
           RetryImage, Rewrite, RepairRereads, RepairedProject, MarkIntervention,
           RepairPassed, WriteAutoApproved, RowsCreated, RepairThrows, RepairReads,
           ClaimRepair, GiveUp, StoreRepair, JudgeRepair, FindMissing, CreateRow,
           ControllerEnds, ControllerDies
  <2>2. QED
    BY <1>0, <2>1
<1>2. ASSUME passed \subseteq passed' PROVE Grows
  BY <1>0, <1>1, <1>2, GrowsIf
<1>3. CASE UNCHANGED <<version, passed>> /\ ~ JudgeRepair(x)
  BY <1>0, <1>1, <1>2, <1>3, RowsUntouched
<1> DEFINE v == ctl[x].target
<1>4. ASSUME NEW row \in VersionRows, row.img = version[v].img, row.status = version[v].status,
             NumberedBy(row.body, revs'), version' = [version EXCEPT ![v] = row],
             UNCHANGED passed, v \in Versions
      PROVE  Grows /\ RowsGood
  <2>1. RowsGood
    BY <1>0, <1>1, <1>4, TargetWritten
  <2>2. QED
    BY <1>2, <1>4, <2>1
<1>5. CASE ClaimRepair(x) \/ GiveUp(x)
  <2>1. v \in Versions /\ ~ JudgeRepair(x) /\ revs' = revs /\ UNCHANGED passed
    BY <1>0, <1>1, <1>5 DEF ClaimRepair, GiveUp, JudgeRepair, Rewrite, Held, Locked
  <2>2. CASE UNCHANGED version
    BY <1>3, <2>1, <2>2
  <2>3. ASSUME NEW l \in {"held", "free"}, NEW n \in Nat,
               version' = [version EXCEPT ![v] = [version[v] EXCEPT !.lock = l, !.tries = n]]
        PROVE  Grows /\ RowsGood
    <3> DEFINE row == [version[v] EXCEPT !.lock = l, !.tries = n]
    <3>1. /\ row \in VersionRows /\ row.img = version[v].img /\ row.status = version[v].status
          /\ row.body = version[v].body
      BY <1>0, <2>1 DEF VersionRows
    <3>2. version' = [version EXCEPT ![v] = row]
      BY <2>3
    <3> HIDE DEF row
    <3>3. NumberedBy(row.body, revs')
      BY <1>0, <2>1, <3>1 DEF RowsNumbered
    <3>4. QED
      BY <1>4, <2>1, <3>1, <3>2, <3>3
  <2>4. version[v].tries \in Nat /\ version[v].tries + 1 \in Nat
    BY <1>0, <2>1 DEF VersionRows
  <2>5. \/ UNCHANGED version
        \/ \E l \in {"held", "free"}, n \in Nat :
             version' = [version EXCEPT ![v] = [version[v] EXCEPT !.lock = l, !.tries = n]]
    <3>1. CASE GiveUp(x)
      BY <1>0, <2>1, <2>4, <3>1 DEF GiveUp
    <3>2. CASE version' = [version EXCEPT ![v].lock = "held"]
      <4>1. [version[v] EXCEPT !.lock = "held"] =
              [version[v] EXCEPT !.lock = "held", !.tries = version[v].tries]
        BY <1>0, <2>1 DEF VersionRows
      <4>2. QED
        BY <1>0, <2>1, <2>4, <3>2, <4>1
    <3>3. QED
      BY <1>5, <3>1, <3>2 DEF ClaimRepair
  <2>6. QED
    BY <2>1, <2>2, <2>3, <2>5
<1>6. CASE StoreRepair(x)
  <2>1. v \in Versions /\ ~ JudgeRepair(x) /\ revs' = revs /\ UNCHANGED passed
    BY <1>0, <1>1, <1>6 DEF StoreRepair, JudgeRepair, Rewrite, Held, Locked
  <2> DEFINE n == version[v].tries + 1
             row == [version[v] EXCEPT !.body = proc[x].body, !.tries = n]
  <2>2. version' = [version EXCEPT ![v] = row]
    BY <1>0, <1>6, <2>1 DEF StoreRepair
  <2>3. n \in Nat /\ proc[x].body \in Bodies
    BY <1>0, <2>1 DEF VersionRows, ProcRecs
  <2> HIDE DEF n
  <2>4. /\ row \in VersionRows /\ row.status = version[v].status /\ row.img = version[v].img
        /\ row.body = proc[x].body
    BY <1>0, <2>1, <2>3 DEF VersionRows
  <2> HIDE DEF row
  <2>5. NumberedBy(row.body, revs')
    BY <1>0, <2>1, <2>4 DEF ProcNumbered
  <2>6. QED
    BY <1>4, <2>1, <2>2, <2>4, <2>5
<1>7. CASE JudgeRepair(x)
  <2>1. v \in Versions /\ revs' = revs
    BY <1>0, <1>1, <1>7 DEF JudgeRepair, Rewrite, Held, Locked
  <2>2. PICK u \in Versions, b \in Bodies, hero \in BOOLEAN, row \in VersionRows :
          u = v /\ b = proc[x].seen.body /\ hero = proc[x].hero /\ row = Unlocked(version[u])
    <3>1. Unlocked(version[v]) \in VersionRows
      BY <1>0, <2>1, RowUpdates
    <3>2. proc[x].seen.body \in Bodies /\ proc[x].hero \in BOOLEAN
      BY <1>0 DEF ProcRecs, VersionRows
    <3>3. QED
      BY <2>1, <3>1, <3>2
  <2>3. RepairReport(x) = Qa(b, hero)
    BY <2>2 DEF RepairReport
  <2>4. /\ version' = [version EXCEPT ![u] = Judged(row, Qa(b, hero))]
        /\ passed' = passed \cup Noted(u, Qa(b, hero))
    BY <1>7, <2>1, <2>2, <2>3, <1>0 DEF JudgeRepair
  <2>5. row.img = version[u].img /\ row.body = version[u].body
    BY <1>0, <2>2 DEF Unlocked, VersionRows
  <2>6. NumberedBy(b, revs') /\ NumberedBy(row.body, revs')
    BY <1>0, <2>1, <2>2, <2>5 DEF RowsNumbered, ProcNumbered
  <2>7. Judged(row, Qa(b, hero)).img = row.img
    BY <1>0, <2>2 DEF Judged, VersionRows
  <2>8. Grows
    BY <1>2, <2>4
  <2>9. hero => HasHero(u)'
    BY <1>0, <1>7, <2>2, <2>8 DEF CycleOk, JudgeRepair, Grows, Held, Locked, Trying
  <2>10. RowsGood /\ (Passed(Qa(b, hero)) => Good(u)')
    BY <1>0, <1>1, <2>4, <2>5, <2>6, <2>9, VerdictGood
  <2>11. Passed(RepairReport(x)) => Good(v)'
    BY <2>2, <2>3, <2>10, <1>7 DEF JudgeRepair
  <2>12. QED
    BY <2>8, <2>10, <2>11
<1>8. QED
  BY <1>3, <1>5, <1>6, <1>7
     DEF Controls, Looks, TickReads, RecoveryReads, WriteWaiting, Plan, Hopeless, RetryImage,
         Rewrite, RepairRereads, RepairedProject, MarkIntervention, RepairPassed,
         WriteAutoApproved, RowsCreated, RepairThrows, RepairReads, FindMissing, CreateRow,
         ControllerEnds, ControllerDies, JudgeRepair

\* A failed project's recovery approves the version it had read before the
\* repair cycle, which reads the latest again: the two are one when there are
\* no such runs or no other version.
OneArticle == Recoveries = {} \/ MaxVersions = 1

LEMMA SnapshotGood ==
  ASSUME TypeInv, ArticleInv, NEW x \in Controllers, UNCHANGED <<version, image, revs, passed>>,
         NEW op \in ProcOps, NEW pc \in {"number", "substate", "repair", "approve", "ensure"},
         Snapshot(x, op, pc),
         pc = "approve" => Latest # 0 /\ version[Latest].status = "qa_passed",
         op = "recover_failed" => x \in Recoveries /\ Latest # 0
  PROVE  CallOk(x)' /\ ProcNumbered(x)' /\ CycleOk(x)'
<1>0. /\ x \in Procs /\ proc \in [Procs -> ProcRecs] /\ RowsNumbered
  BY ControllerFacts DEF ArticleInv
<1>1. PICK seen, hero, n :
        /\ seen = IF Latest = 0 THEN NoVersion ELSE version[Latest]
        /\ hero = (Latest # 0 /\ HeroReady(version[Latest].img))
        /\ n = Latest
  OBVIOUS
<1>2. proc'[x] = [ProcIdle EXCEPT !.pc = pc, !.op = op, !.ver = n, !.seen = seen, !.hero = hero]
  BY <1>0, <1>1 DEF Snapshot
<1>3. /\ proc'[x].pc = pc /\ proc'[x].op = op /\ proc'[x].ver = n /\ proc'[x].seen = seen
      /\ proc'[x].body = NoBody
  BY <1>2 DEF ProcIdle
<1>4. Latest # 0 => n \in Versions
  BY <1>1, LatestExists
<1>5. NumberedBy(seen.body, revs) /\ NumberedBy(NoBody, revs)
  BY <1>0, <1>1, <1>4 DEF RowsNumbered, NoVersion, NoBody, NumberedBy
<1>6. ProcNumbered(x)'
  BY <1>3, <1>5 DEF ProcNumbered
<1>7. pc = "approve" => n \in Versions /\ Good(n)
  BY <1>1, <1>4 DEF ArticleInv, Judgements
<1>8. CallOk(x)'
  BY <1>3, <1>7 DEF CallOk, Good, HasHero, PassedOnce
<1>9. CycleOk(x)'
  BY <1>1, <1>3, <1>4 DEF CycleOk, Trying, Beyond, Held, Locked
<1>10. QED
  BY <1>6, <1>8, <1>9

LEMMA LooksBeginGood ==
  ASSUME TypeInv, ArticleInv, NEW x \in Controllers, TickReads(x) \/ RecoveryReads(x)
  PROVE  CallOk(x)' /\ ProcNumbered(x)' /\ CycleOk(x)'
<1>0. UNCHANGED <<version, image, revs, passed>>
  BY DEF TickReads, RecoveryReads, PipelineUnchanged
<1>1. ASSUME Latest # 0
      PROVE  /\ version[Latest].status \in VersionStatus \ {"none"}
             /\ \A hero : SeenGatePasses(version[Latest], hero) => version[Latest].status = "qa_passed"
  BY <1>1, SeenLatest DEF SeenGatePasses, GatePasses
<1>2. CASE TickReads(x)
  <2>1. CASE Latest = 0
    BY <1>0, <1>2, <2>1, SnapshotGood DEF TickReads, ProcOps
  <2>2. CASE Latest # 0
    <3>1. PICK pc \in {"substate", "repair", "approve", "ensure"} :
            /\ Snapshot(x, "tick", pc)
            /\ pc = "approve" => version[Latest].status = "qa_passed"
      BY <1>1, <1>2, <2>2 DEF TickReads, VersionStatus
    <3>2. QED
      BY <1>0, <2>2, <3>1, SnapshotGood DEF ProcOps
  <2>3. QED
    BY <2>1, <2>2
<1>3. CASE RecoveryReads(x)
  <2>1. Latest # 0 /\ x \in Recoveries
    BY <1>3 DEF RecoveryReads
  <2>2. PICK op \in {"recover_failed", "recover"}, pc \in {"repair", "approve", "ensure"} :
          /\ Snapshot(x, op, pc)
          /\ pc = "approve" => version[Latest].status = "qa_passed"
    BY <1>1, <1>3, <2>1 DEF RecoveryReads
  <2>3. QED
    BY <1>0, <2>1, <2>2, SnapshotGood DEF ProcOps
<1>4. QED
  BY <1>2, <1>3

LEMMA RepairReadsGood ==
  ASSUME TypeInv, ArticleInv, NEW x \in Controllers, RepairReads(x)
  PROVE  CallOk(x)' /\ ProcNumbered(x)' /\ CycleOk(x)'
<1>0. /\ x \in Procs /\ proc[x] \in ProcRecs /\ proc \in [Procs -> ProcRecs]
      /\ ctl[x] \in CtlRecs /\ ctl \in [Controllers -> CtlRecs]
      /\ UNCHANGED <<version, image, revs, passed>>
      /\ CycleOk(x) /\ ProcNumbered(x) /\ RowsNumbered /\ proc[x].pc = "repair"
  BY ControllerFacts DEF RepairReads, PipelineUnchanged, ArticleInv, Cycles, Calls
<1>1. PICK v \in Versions : v = Latest
  BY LatestCreated DEF RepairReads, TypeInv, Pointers
<1>hero. PICK hero \in BOOLEAN : hero = HeroReady(version[v].img)
  BY <1>0, HeroBoolean DEF TypeInv, AutopilotTypeOK, TypeOK, VersionRows
<1>2. PICK pc \in {"passed", "intervention", "claim"} :
        /\ pc = "passed" => SeenGatePasses(version[v], hero)
        /\ proc' = [proc EXCEPT ![x].seen = version[v], ![x].hero = hero, ![x].pc = pc]
  BY <1>1, <1>hero DEF RepairReads
<1>3. /\ proc'[x].pc = pc /\ proc'[x].op = proc[x].op /\ proc'[x].ver = proc[x].ver
      /\ proc'[x].seen = version[v] /\ proc'[x].hero = hero /\ proc'[x].body = proc[x].body
  BY <1>0, <1>2 DEF ProcRecs
<1>4. ctl'[x].target = v
  <2>1. ctl' = [ctl EXCEPT ![x].target = v]
    BY <1>1 DEF RepairReads
  <2>2. QED
    BY <1>0, <2>1 DEF CtlRecs
<1>5. hero => HasHero(v)'
  <2>1. HasHero(v)' <=> HasHero(v)
    BY <1>0 DEF HasHero
  <2>2. QED
    BY <2>1, <1>hero, ShownHero DEF ArticleInv
<1>6. pc = "passed" => Good(v)'
  BY <1>0, <1>2 DEF SeenGatePasses, GatePasses, ArticleInv, Judgements, Good, HasHero, PassedOnce
<1>7. ProcNumbered(x)'
  BY <1>0, <1>3 DEF ProcNumbered, RowsNumbered
<1>8. CallOk(x)'
  BY <1>3, CallElse
<1>9. proc[x].op = "recover_failed" => x \in Recoveries /\ proc[x].ver \in Versions
  BY <1>0 DEF CycleOk, Cycle
<1>10. CycleOk(x)'
  BY <1>3, <1>4, <1>5, <1>6, <1>9 DEF CycleOk, Beyond
<1>11. QED
  BY <1>7, <1>8, <1>10

\* The other steps of a controller, by where they lead.
LEMMA MovesGood ==
  ASSUME OneArticle, TypeInv, ArticleInv, NEW x \in Controllers, Controls(x),
         ~ TickReads(x), ~ RecoveryReads(x), ~ RepairReads(x)
  PROVE  CallOk(x)' /\ ProcNumbered(x)' /\ CycleOk(x)'
<1>0. /\ x \in Procs /\ proc[x] \in ProcRecs /\ proc \in [Procs -> ProcRecs]
      /\ revs \in Nat /\ CycleOk(x) /\ ProcNumbered(x) /\ RowsNumbered
      /\ proc[x].pc \in Trying \cup {"claim"} => ctl[x].target \in Versions
  BY ControllerFacts DEF ArticleInv, Cycles, Calls, TypeInv, AutopilotTypeOK, TypeOK
<1>1. Grows /\ (JudgeRepair(x) /\ Passed(RepairReport(x)) => Good(ctl[x].target)')
  BY ControlsGrow
<1>out. ASSUME NEW pc \in ProcSteps \ (Cycle \cup {"qa", "approve"}), Goto(x, pc)
        PROVE  CallOk(x)' /\ ProcNumbered(x)' /\ CycleOk(x)'
  BY <1>0, <1>1, <1>out, GotoKeeps, NumbersKept, CallElse, CycleLeft
<1>on. ASSUME NEW pc \in Held, Goto(x, pc), UNCHANGED ctl, proc[x].pc \in Trying \cup {"claim"}
       PROVE  CallOk(x)' /\ ProcNumbered(x)' /\ CycleOk(x)'
  <2>1. pc \in ProcSteps /\ pc \notin {"qa", "approve", "repaired", "passed"}
    BY DEF Held, Locked, ProcSteps
  <2>2. QED
    BY <1>0, <1>1, <1>on, <2>1, GotoKeeps, NumbersKept, CallElse, CycleGoesOn
<1>2. CASE \/ WriteWaiting(x) \/ GiveUp(x) \/ MarkIntervention(x) \/ WriteAutoApproved(x)
           \/ RowsCreated(x) \/ FindMissing(x)
  <2>1. \E pc \in {"end", "ensure", "create_rows"} : Goto(x, pc)
    BY <1>2 DEF WriteWaiting, GiveUp, MarkIntervention, WriteAutoApproved, RowsCreated, FindMissing
  <2>2. QED
    BY <1>out, <2>1 DEF ProcSteps, Cycle, Held, Locked
<1>3. CASE ClaimRepair(x)
  <2>1. UNCHANGED ctl /\ proc[x].pc = "claim" /\ (Goto(x, "end") \/ Goto(x, "plan"))
    BY <1>3 DEF ClaimRepair
  <2>2. CASE Goto(x, "end")
    BY <1>out, <2>2 DEF ProcSteps, Cycle, Held, Locked
  <2>3. CASE Goto(x, "plan")
    BY <1>on, <2>1, <2>3 DEF Held
  <2>4. QED
    BY <2>1, <2>2, <2>3
<1>4. CASE Plan(x) \/ Hopeless(x) \/ RetryImage(x) \/ StoreRepair(x) \/ RepairThrows(x)
  <2>1. /\ UNCHANGED ctl /\ proc[x].pc \in Trying
        /\ \E pc \in {"hopeless", "image", "rewrite", "give_up", "requeue", "fresh"} : Goto(x, pc)
    BY <1>4 DEF Plan, Hopeless, RetryImage, StoreRepair, RepairThrows, Trying, Beyond, Held, Locked
  <2>2. QED
    BY <1>on, <2>1 DEF Held, Locked
<1>5. CASE Rewrite(x)
  <2>1. PICK b : /\ proc' = [proc EXCEPT ![x].pc = "store", ![x].body = b]
                 /\ NumberedBy(b, revs')
    <3>1. \A b \in NewBodies : revs' = revs + 1 => NumberedBy(b, revs')
      BY <1>0 DEF NewBodies, NumberedBy
    <3>2. revs' = revs => NumberedBy(proc[x].seen.body, revs')
      BY <1>0 DEF ProcNumbered
    <3>3. QED
      BY <1>5, <3>1, <3>2 DEF Rewrite
  <2>2. /\ proc'[x].pc = "store" /\ proc'[x].op = proc[x].op /\ proc'[x].ver = proc[x].ver
        /\ proc'[x].seen = proc[x].seen /\ proc'[x].hero = proc[x].hero /\ proc'[x].body = b
    BY <1>0, <2>1 DEF ProcRecs
  <2>3. NumberedBy(proc[x].seen.body, revs')
    BY <1>0, <1>1, NumberedLater DEF ProcNumbered, Grows
  <2>4. proc[x].pc \in Trying /\ UNCHANGED ctl
    BY <1>5 DEF Rewrite, Trying, Held, Locked
  <2>5. QED
    BY <1>0, <1>1, <2>1, <2>2, <2>3, <2>4, CallElse, CycleGoesOn DEF ProcNumbered
<1>6. CASE RepairRereads(x)
  <2>1. proc' = [proc EXCEPT ![x].pc = "judge", ![x].seen = version[ctl[x].target]]
    BY <1>6 DEF RepairRereads
  <2>2. /\ proc'[x].pc = "judge" /\ proc'[x].op = proc[x].op /\ proc'[x].ver = proc[x].ver
        /\ proc'[x].seen = version[ctl[x].target] /\ proc'[x].hero = proc[x].hero
        /\ proc'[x].body = proc[x].body
    BY <1>0, <2>1 DEF ProcRecs
  <2>3. ctl[x].target \in Versions /\ proc[x].pc \in Trying /\ UNCHANGED <<ctl, revs>>
    BY <1>0, <1>6 DEF RepairRereads, Trying, Held, Locked
  <2>4. ProcNumbered(x)'
    BY <1>0, <2>2, <2>3 DEF ProcNumbered, RowsNumbered
  <2>5. QED
    BY <1>0, <1>1, <2>2, <2>3, <2>4, CallElse, CycleGoesOn
<1>7. CASE JudgeRepair(x)
  <2>1. /\ Goto(x, "repaired") /\ UNCHANGED ctl /\ proc[x].pc = "judge"
        /\ "repaired" \in ProcSteps
    BY <1>7 DEF JudgeRepair, ProcSteps
  <2>2. /\ proc'[x].pc = "repaired" /\ proc'[x].op = proc[x].op /\ proc'[x].ver = proc[x].ver
        /\ proc'[x].seen = proc[x].seen /\ proc'[x].hero = proc[x].hero
        /\ proc'[x].body = proc[x].body
    BY <1>0, <2>1, GotoKeeps
  <2>3. RepairReport(x)' = RepairReport(x)
    BY <2>2 DEF RepairReport, Qa
  <2>4. Passed(RepairReport(x))' => Good(ctl[x].target)'
    BY <1>1, <1>7, <2>3 DEF Passed
  <2>5. ctl'[x].target \in Versions
    BY <1>0, <2>1 DEF Trying, Held, Locked
  <2>6. proc[x].op = "recover_failed" => x \in Recoveries /\ proc[x].ver \in Versions
    BY <1>0, <2>1 DEF CycleOk, Cycle, Held, Locked
  <2>a. proc'[x].hero => HasHero(ctl[x].target)'
    BY <1>0, <1>1, <2>1, <2>2 DEF CycleOk, Trying, Held, Locked, Grows
  <2>7. CycleOk(x)'
    BY <2>1, <2>2, <2>4, <2>5, <2>6, <2>a DEF CycleOk
  <2>8. QED
    BY <1>0, <1>1, <2>2, <2>7, CallElse, NumbersKept
<1>8. CASE RepairedProject(x)
  <2>1. PICK pc \in {"passed", "exhausted", "end"} :
          Goto(x, pc) /\ (pc = "passed" => Passed(RepairReport(x)))
    BY <1>8 DEF RepairedProject, GatePasses
  <2>2. CASE pc = "end"
    BY <1>out, <2>1, <2>2 DEF ProcSteps, Cycle, Held, Locked
  <2>a. CASE pc = "exhausted"
    <3>1. proc[x].pc \in Trying /\ UNCHANGED ctl /\ pc \in ProcSteps
      BY <1>8, <2>a DEF RepairedProject, Trying, Beyond, ProcSteps
    <3>2. QED
      BY <1>0, <1>1, <2>1, <2>a, <3>1, GotoKeeps, NumbersKept, CallElse, CycleGoesOn
  <2>3. CASE pc = "passed"
    <3>1. proc[x].pc = "repaired" /\ UNCHANGED ctl
      BY <1>8 DEF RepairedProject
    <3>2. PICK v \in Versions : v = ctl[x].target /\ Good(v)
      BY <1>0, <2>1, <2>3, <3>1 DEF CycleOk, Beyond
    <3>3. Good(v)'
      BY <1>1, <3>2 DEF Grows, Good
    <3>4. proc[x].op = "recover_failed" => x \in Recoveries /\ proc[x].ver \in Versions
      BY <1>0, <3>1 DEF CycleOk, Cycle
    <3>5. /\ proc'[x].pc = "passed" /\ proc'[x].op = proc[x].op /\ proc'[x].ver = proc[x].ver
          /\ proc'[x].seen = proc[x].seen /\ proc'[x].body = proc[x].body
      BY <1>0, <2>1, <2>3, GotoKeeps DEF ProcSteps
    <3>6. CycleOk(x)'
      BY <3>1, <3>2, <3>3, <3>4, <3>5 DEF CycleOk, Trying, Beyond, Held, Locked
    <3>7. QED
      BY <1>0, <1>1, <3>5, <3>6, CallElse, NumbersKept
  <2>4. QED
    BY <2>1, <2>2, <2>3, <2>a
<1>9. CASE RepairPassed(x)
  <2>1. CASE Goto(x, "end")
    BY <1>out, <2>1 DEF ProcSteps, Cycle, Held, Locked
  <2>2. CASE Goto(x, "approve") /\ proc[x].op = "recover_failed"
    <3>1. proc[x].pc = "passed"
      BY <1>9 DEF RepairPassed
    <3>2. /\ proc[x].ver \in Versions /\ ctl[x].target \in Versions /\ Good(ctl[x].target)
          /\ Recoveries # {}
      BY <1>0, <2>2, <3>1 DEF CycleOk, Cycle
    <3>3. PICK v \in Versions : v = proc[x].ver /\ Good(v)
      BY <3>2 DEF OneArticle, Versions
    <3>4. Good(v)'
      BY <1>1, <3>3 DEF Grows, Good
    <3>5. /\ proc'[x].pc = "approve" /\ proc'[x].ver = v
          /\ proc'[x].seen = proc[x].seen /\ proc'[x].body = proc[x].body
      BY <1>0, <2>2, <3>3, GotoKeeps DEF ProcSteps
    <3>6. CallOk(x)'
      BY <3>4, <3>5 DEF CallOk
    <3>7. "approve" \notin Cycle
      BY DEF Cycle, Held, Locked
    <3>8. QED
      BY <1>0, <1>1, <3>5, <3>6, <3>7, NumbersKept, CycleLeft
  <2>3. QED
    BY <1>9, <2>1, <2>2 DEF RepairPassed
<1>10. CASE CreateRow(x)
  <2>1. UNCHANGED proc /\ proc[x].pc = "create_rows"
    BY <1>10 DEF CreateRow
  <2>2. "create_rows" \notin Cycle
    BY DEF Cycle, Held, Locked
  <2>3. QED
    BY <1>0, <1>1, <2>1, <2>2, NumbersKept, CallElse, CycleLeft
<1>11. CASE ControllerEnds(x) \/ ControllerDies(x)
  <2>1. PICK pc \in {"idle", "done"} : proc' = [proc EXCEPT ![x] = [ProcIdle EXCEPT !.pc = pc]]
    BY <1>11 DEF ControllerEnds, ControllerDies
  <2>2. proc'[x] = [ProcIdle EXCEPT !.pc = pc]
    BY <1>0, <2>1
  <2>3. /\ proc'[x].pc = pc /\ proc'[x].body = NoBody /\ proc'[x].seen.body = NoBody
    BY <2>2 DEF ProcIdle, NoVersion
  <2>4. pc \notin Cycle
    BY DEF Cycle, Held, Locked
  <2>5. QED
    BY <2>3, <2>4, CallElse, CycleLeft DEF ProcNumbered, NumberedBy, NoBody
<1>12. QED
  BY <1>2, <1>3, <1>4, <1>5, <1>6, <1>7, <1>8, <1>9, <1>10, <1>11 DEF Controls, Looks

LEMMA ControlsGood ==
  ASSUME OneArticle, TypeInv, ArticleInv, NEW x \in Controllers, Controls(x)
  PROVE  ArticleInv'
<1>1. Grows /\ RowsGood /\ x \in Procs /\ Created \subseteq Created'
  BY ControlsGrow, ControllerFacts, ControlsRows
<1>2. UNCHANGED <<tw, sync, image>>
  BY DEF Controls, Looks, TickReads, RecoveryReads, WriteWaiting,
         Plan, Hopeless, RetryImage, Rewrite, RepairRereads, RepairedProject,
         MarkIntervention, RepairPassed, WriteAutoApproved, RowsCreated, RepairThrows,
         RepairReads, ClaimRepair, GiveUp, StoreRepair, JudgeRepair, FindMissing, CreateRow,
         ControllerEnds, ControllerDies, PipelineUnchanged
<1>3. CallOk(x)' /\ ProcNumbered(x)' /\ CycleOk(x)'
  BY LooksBeginGood, RepairReadsGood, MovesGood
<1>4. Calls' /\ Cycles'
  BY <1>1, <1>3, ControlsLed, OneMoves DEF ArticleInv, Led
<1>5. QED
  BY <1>1, <1>2, <1>4, JudgementsStay, ViewsStay, WorkersNumberedStay, OwnImagesStay
     DEF ArticleInv, RowsGood, ImagesKept

-----------------------------------------------------------------------------
(* The specification *)

LEMMA ArticleInit == Init => ArticleInv
<1> SUFFICES ASSUME Init PROVE ArticleInv
  OBVIOUS
<1>1. /\ NoVersion.body = NoBody /\ NoVersion.status = "none" /\ NoVersion.img = None
      /\ ProcIdle.body = NoBody /\ ProcIdle.seen = NoVersion /\ ProcIdle.pc = "idle"
      /\ SyncIdle.body = NoBody /\ SyncIdle.pc = "idle"
      /\ TextWorkerIdle.body = NoBody /\ TextWorkerIdle.pc = "idle"
      /\ NumberedBy(NoBody, revs)
  BY DEF NoVersion, ProcIdle, SyncIdle, TextWorkerIdle, NumberedBy, NoBody
<1>2. /\ \A v \in Versions : version[v] = NoVersion
      /\ \A p \in ImageProcs : sync[p] = SyncIdle
      /\ \A x \in Procs : proc[x] = ProcIdle
      /\ tw = TextWorkerIdle /\ Controllers \subseteq Procs
  BY AutopilotConstants DEF Init, PipelineInit
<1>3. RowsNumbered /\ WorkersNumbered /\ OwnImages /\ Judgements /\ Views
  <2>1. \A i \in Images : image[i].of = 0
    BY DEF Init, PipelineInit, NoImage
  <2>2. 0 \notin Versions
    BY DEF Versions
  <2>3. QED
    BY <1>1, <1>2, <2>1, <2>2 DEF RowsNumbered, WorkersNumbered, OwnImages, Judgements, Views
<1>4. Calls
  BY <1>1, <1>2 DEF Calls, CallOk, ProcNumbered
<1>5. Cycles
  BY <1>1, <1>2 DEF Cycles, CycleOk, Cycle, Trying, Beyond, Held, Locked
<1>6. QED
  BY <1>3, <1>4, <1>5 DEF ArticleInv

LEMMA ArticleInvNext ==
  ASSUME OneArticle, TypeInv, ArticleInv, [Next]_vars
  PROVE  ArticleInv'
<1>1. CASE (Pipeline \/ UNCHANGED pipelineVars) /\ UNCHANGED <<ctl, rows>>
  <2>1. CASE UNCHANGED pipelineVars
    BY <1>1, <2>1
       DEF pipelineVars, ArticleInv, RowsNumbered, WorkersNumbered, OwnImages, Judgements, Views,
           Calls, Cycles, CallOk, ProcNumbered, CycleOk, Good, HasHero, PassedOnce, Created,
           RepairReport, Qa, Passed
  <2>2. CASE TextWorker \/ FailText
    BY <1>1, <2>2, TextWorkerGood
  <2>3. CASE ImageSide
    BY <1>1, <2>3, ImageSideGood
  <2>4. CASE DelayOver \/ WorkerCrash \/ RecoverStalled
    BY <1>1, <2>4, QueuesGood
  <2>5. QED
    BY <1>1, <2>1, <2>2, <2>3, <2>4 DEF Pipeline, ImageSide
<1>2. QED
  BY <1>1, StepCases, OperatorGood, ControllerCallGood, ControlsGood, LocksGood

LEMMA ArticleAlways == ASSUME OneArticle PROVE Spec => [](TypeInv /\ ArticleInv)
<1>1. Init => TypeInv /\ ArticleInv
  BY TypeInit, ArticleInit
<1>2. TypeInv /\ ArticleInv /\ [Next]_vars => (TypeInv /\ ArticleInv)'
  BY TypeInvNext, ArticleInvNext
<1>3. QED
  BY <1>1, <1>2, PTL DEF Spec

\* Whoever wrote the verdict (the image worker, its listener, a repair, an edit)
\* and whatever it had read before, a version that passed has a hero image that
\* is stored, and shows it unless another was asked for since; provided that no
\* recovery of a failed project meets a new version.
THEOREM PassedHasHeroAlways == ASSUME OneArticle PROVE Spec => []PassedHasHero
<1>1. TypeInv /\ ArticleInv => PassedHasHero
  <2> SUFFICES ASSUME TypeInv, ArticleInv, NEW v \in Versions,
                      version[v].status \in {"qa_passed", "approved"}
               PROVE  \E i \in Images :
                        /\ image[i].of = v /\ image[i].hero
                        /\ version[v].img = i \/ \E j \in Images \ {i} : image[j].of = v
    BY DEF PassedHasHero
  <2>1. PICK i \in Images : image[i].of = v /\ image[i].hero
    BY DEF ArticleInv, Judgements, Good, HasHero
  <2>2. version[v].img \in Images /\ image[version[v].img].of = v
    BY <2>1 DEF ArticleInv, OwnImages, TypeInv, AutopilotTypeOK, TypeOK, VersionRows
  <2>3. QED
    BY <2>1, <2>2
<1>2. QED
  BY <1>1, ArticleAlways, PTL

\* Workers, controllers and operators may fail and interleave as they like: what
\* is approved, some QA has passed in one of its bodies.
THEOREM ApprovedPassedOnceAlways == ASSUME OneArticle PROVE Spec => []ApprovedPassedOnce
<1>1. TypeInv /\ ArticleInv => ApprovedPassedOnce
  BY DEF ArticleInv, Judgements, Good, PassedOnce, ApprovedPassedOnce
<1>2. QED
  BY <1>1, ArticleAlways, PTL

-----------------------------------------------------------------------------
(* The attempts of a repair *)

\* The steps of a controller that has yet to count the attempt it is making.
Owes == {"claim", "plan", "hopeless", "give_up", "image", "requeue", "add_image",
         "rewrite", "store"}

Owing(v) == {x \in Controllers : ctl[x].target = v /\ proc[x].pc \in Owes}

\* What was counted and what is still to be: a controller that begins has seen
\* fewer attempts than the policy allows, and only a cycle that throws pays twice.
AttemptsPaid ==
  \A v \in Versions :
    version[v].tries + Cardinality(Owing(v)) <= MaxRepairs + (Cardinality(Controllers) - 1) + failures

TriesSame == \A v \in Versions : version'[v].tries = version[v].tries

LEMMA TriesKept ==
  ASSUME TypeInv, NEW v, NEW row, version' = [version EXCEPT ![v] = row],
         v \in Versions => row.tries = version[v].tries
  PROVE  TriesSame
<1>1. version \in [Versions -> VersionRows]
  BY DEF TypeInv, AutopilotTypeOK, TypeOK
<1>2. QED
  BY <1>1 DEF TriesSame

LEMMA PipelineTries ==
  ASSUME TypeInv, Pipeline \/ UNCHANGED pipelineVars
  PROVE  TriesSame /\ failures' \in Nat /\ failures <= failures'
<1> USE DEF ImageProcs
<1>0. /\ version \in [Versions -> VersionRows] /\ tw \in TextRecs /\ failures \in Nat
      /\ sync \in [ImageProcs -> SyncRecs]
  BY DEF TypeInv, AutopilotTypeOK, TypeOK, TextRecs, SyncRecs
<1>1. failures' \in Nat /\ failures <= failures'
  <2>1. failures' = failures \/ failures' = failures + 1
    <3>1. FailText \/ FailImage \/ WorkerCrash => failures' = failures + 1
      BY DEF FailText, FailImage, WorkerCrash, Fails
    <3>2. UNCHANGED pipelineVars => failures' = failures
      BY DEF pipelineVars
    <3>3. TextWorker => failures' = failures
      BY DEF TextWorker, TakeText, GenerateText, ReadVersionOfText, WriteText,
         TextProjectStatus, TextProjectSubstate, AttachImage, EnqueueImage, CompleteText
    <3>4. DelayOver \/ RecoverStalled => failures' = failures
      BY DEF DelayOver, RecoverStalled
    <3>5. ImageWorker \/ (\E l \in Listeners : Listener(l)) => failures' = failures
      BY DEF ImageWorker, TakeImage, SaveImage, SaveVariants, ImageSync, ReadForQa, QaChecking,
         WriteQa, QaProjectStatus, QaProjectSubstate, CompleteImage, Listener, MarkImageFailed
    <3>6. QED
      BY <3>1, <3>2, <3>3, <3>4, <3>5 DEF Pipeline
  <2>2. QED
    BY <1>0, <2>1
<1>2. CASE UNCHANGED version
  BY <1>1, <1>2 DEF TriesSame
<1>3. CASE WriteText
  <2> DEFINE row == [version[tw.ver] EXCEPT !.body = tw.body, !.status = "ai_generated"]
  <2>1. tw.ver \in Versions
    BY <1>3 DEF WriteText, TypeInv, Pointers
  <2>2. row.tries = version[tw.ver].tries
    BY <1>0, <2>1 DEF VersionRows
  <2>3. version' = [version EXCEPT ![tw.ver] = row]
    BY <1>0, <1>3, <2>1 DEF WriteText
  <2> HIDE DEF row
  <2>4. QED
    BY <1>1, <2>2, <2>3, TriesKept
<1>4. CASE AttachImage
  <2>1. PICK i \in Images : version' = [version EXCEPT ![tw.ver] = [version[tw.ver] EXCEPT !.img = i]]
    BY <1>0, <1>4 DEF AttachImage, NewImage
  <2> DEFINE row == [version[tw.ver] EXCEPT !.img = i]
  <2>2. tw.ver \in Versions => row.tries = version[tw.ver].tries
    BY <1>0 DEF VersionRows
  <2> HIDE DEF row
  <2>3. QED
    BY <1>1, <2>1, <2>2, TriesKept DEF row
<1>5. ASSUME NEW p \in ImageProcs, WriteQa(p)
      PROVE  TriesSame
  <2> DEFINE v == sync[p].ver
             row == Judged(version[v], Qa(sync[p].body, sync[p].hero))
  <2>1. v \in Versions => row.tries = version[v].tries
    BY <1>0 DEF VersionRows, Judged
  <2>2. version' = [version EXCEPT ![v] = row]
    BY <1>5 DEF WriteQa
  <2> HIDE DEF row, v
  <2>3. QED
    BY <2>1, <2>2, TriesKept
<1>6. QED
  BY <1>1, <1>2, <1>3, <1>4, <1>5
     DEF Pipeline, pipelineVars, TextWorker, FailText, TakeText, GenerateText, ReadVersionOfText,
         TextProjectStatus, TextProjectSubstate, EnqueueImage, CompleteText, FailImage,
         ImageWorker, TakeImage, SaveImage, SaveVariants, ImageSync, ReadForQa, QaChecking,
         QaProjectStatus, QaProjectSubstate, CompleteImage, Listener, MarkImageFailed,
         DelayOver, WorkerCrash, RecoverStalled

LEMMA RequestTries ==
  ASSUME TypeInv, NEW x \in Procs, Request(x)
  PROVE  /\ UNCHANGED failures
         /\ \/ TriesSame
            \/ \E v \in Versions :
                 /\ v \notin Created /\ version'[v].tries = 0
                 /\ \A u \in Versions : u # v => version'[u] = version[u]
<1>0. version \in [Versions -> VersionRows] /\ proc[x] \in ProcRecs
  BY DEF TypeInv, AutopilotTypeOK, TypeOK, ProcRecs
<1>1. UNCHANGED failures
  BY DEF Request, RequestBegins, RequestGenerate, EditRead, ApproveRead, RetryImageRead,
         AssetRequest,         RequestEnds, CallGoesOn, Generation,
         ReadLatestNumber, CreateVersion, EnqueueText, ProjectDraft, ProjectGenerating,
         EditWrite, EditReadProject, EditQa, EditProjectStatus, ApproveVersion,
         ApproveProject, RequeueImage, RequeueImageJob
<1> DEFINE v == proc[x].ver
<1>2. CASE UNCHANGED version
  BY <1>1, <1>2 DEF TriesSame
<1>3. CASE CreateVersion(x)
  <2>1. CASE version' = [version EXCEPT ![v] = [NoVersion EXCEPT !.status = "draft"]]
             /\ version[v].status = "none"
    <3>1. [NoVersion EXCEPT !.status = "draft"].tries = 0
      BY DEF NoVersion
    <3>2. CASE v \in Versions
      BY <1>0, <1>1, <2>1, <3>1, <3>2 DEF Created
    <3>3. CASE v \notin Versions
      BY <1>0, <1>1, <2>1, <3>3 DEF TriesSame
    <3>4. QED
      BY <3>2, <3>3
  <2>2. QED
    BY <1>2, <1>3, <2>1 DEF CreateVersion
<1>4. ASSUME NEW row, version' = [version EXCEPT ![v] = row],
             v \in Versions => row.tries = version[v].tries
      PROVE  TriesSame
  BY <1>4, TriesKept
<1>5. CASE EditWrite(x)
  <2>1. PICK b \in NewBodies : version' = [version EXCEPT ![v] = [version[v] EXCEPT !.body = b]]
    BY <1>0, <1>5 DEF EditWrite
  <2>2. v \in Versions => [version[v] EXCEPT !.body = b].tries = version[v].tries
    BY <1>0 DEF VersionRows
  <2>3. QED
    BY <1>1, <1>4, <2>1, <2>2
<1>6. CASE EditQa(x)
  <2>1. version' = [version EXCEPT ![v] = Judged(version[v], Qa(proc[x].body, proc[x].hero))]
    BY <1>6 DEF EditQa
  <2>2. v \in Versions =>
          Judged(version[v], Qa(proc[x].body, proc[x].hero)).tries = version[v].tries
    BY <1>0 DEF VersionRows, Judged
  <2>3. QED
    BY <1>1, <1>4, <2>1, <2>2
<1>7. CASE ApproveVersion(x)
  <2>1. version' = [version EXCEPT ![v] = [version[v] EXCEPT !.status = "approved"]]
    BY <1>0, <1>7 DEF ApproveVersion
  <2>2. v \in Versions => [version[v] EXCEPT !.status = "approved"].tries = version[v].tries
    BY <1>0 DEF VersionRows
  <2>3. QED
    BY <1>1, <1>4, <2>1, <2>2
<1>a. CASE AssetRequest(x)
  <2>1. PICK u \in Created, i \in Images :
          version' = [version EXCEPT ![u] = [version[u] EXCEPT !.img = i]]
    BY <1>0, <1>a DEF AssetRequest, NewImage
  <2>2. u \in Versions => [version[u] EXCEPT !.img = i].tries = version[u].tries
    BY <1>0 DEF VersionRows
  <2>3. QED
    BY <1>1, <2>1, <2>2, TriesKept
<1>8. QED
  BY <1>2, <1>3, <1>5, <1>6, <1>7, <1>a
     DEF Request, RequestBegins, RequestGenerate, EditRead, ApproveRead, RetryImageRead,
         AssetRequest,         RequestEnds, CallGoesOn, Generation, ReadLatestNumber, EnqueueText, ProjectDraft,
         ProjectGenerating, EditReadProject, EditProjectStatus, ApproveProject, RequeueImage,
         RequeueImageJob

\* Nobody begins an attempt and none is counted.
LEMMA AttemptsStay ==
  ASSUME SomeControllers, TypeInv, AttemptsPaid, failures' \in Nat, failures <= failures',
         \A y \in Controllers : proc'[y].pc \in Owes =>
            proc[y].pc \in Owes /\ ctl'[y].target = ctl[y].target,
         \A v \in Versions : \/ version'[v].tries = version[v].tries
                             \/ v \notin Created /\ version'[v].tries = 0
  PROVE  AttemptsPaid'
<1> SUFFICES ASSUME NEW v \in Versions
             PROVE  (version[v].tries + Cardinality(Owing(v)) <=
                       MaxRepairs + (Cardinality(Controllers) - 1) + failures)'
  BY DEF AttemptsPaid
<1> DEFINE c == Cardinality(Controllers)
           s == Cardinality(Owing(v))
           t == Cardinality(Owing(v)')
<1>1. Owing(v)' \subseteq Owing(v) /\ Owing(v) \subseteq Controllers
  BY DEF Owing
<1>2. c \in Nat /\ c >= 1 /\ s \in Nat /\ t \in Nat /\ t <= s
  BY <1>1, ControllersCount, CountNoMore
<1>3. version[v].tries \in Nat /\ MaxRepairs \in Nat /\ failures \in Nat
  BY AutopilotConstants DEF TypeInv, AutopilotTypeOK, TypeOK, VersionRows
<1>4. version[v].tries + s <= MaxRepairs + (c - 1) + failures
  BY DEF AttemptsPaid
<1>5. v \notin Created => Owing(v) = {}
  BY DEF TypeInv, Pointers, Owing, Owes, Trying, Held, Locked
<1>6. v \notin Created => t = 0
  <2>1. v \notin Created => Owing(v)' = {}
    BY <1>1, <1>5
  <2>2. QED
    BY <2>1, FS_EmptySet
<1> HIDE DEF c, s, t
<1>7. version'[v].tries + t <= MaxRepairs + (c - 1) + failures'
  BY <1>2, <1>3, <1>4, <1>6
<1>8. QED
  BY <1>7 DEF c, t

\* A call moves a controller out of the counting steps, or along them.
LEMMA CallOwes ==
  ASSUME TypeInv, NEW x \in Controllers, CallGoesOn(x), proc'[x].pc \in Owes
  PROVE  proc[x].pc \in Owes
<1>0. x \in Procs /\ proc[x] \in ProcRecs /\ proc \in [Procs -> ProcRecs]
  BY ControllerFacts
<1>1. ASSUME NEW pc \in ProcSteps \ Owes, Goto(x, pc) PROVE FALSE
  BY <1>0, <1>1, GotoKeeps
<1>2. CASE \/ CreateVersion(x) \/ EnqueueText(x) \/ ProjectDraft(x) \/ ProjectGenerating(x)
           \/ EditQa(x) \/ EditProjectStatus(x) \/ ApproveVersion(x) \/ ApproveProject(x)
  <2>1. \E pc \in {"enqueue", "end", "draft", "generating", "regenerating", "edit_status", "approve_project",
                   "approved"} : Goto(x, pc)
    BY <1>2 DEF CreateVersion, EnqueueText, ProjectDraft, ProjectGenerating, EditQa,
       EditProjectStatus, ApproveVersion, ApproveProject
  <2>2. QED
    BY <1>1, <2>1 DEF ProcSteps, Owes
<1>3. CASE ReadLatestNumber(x) \/ EditWrite(x) \/ EditReadProject(x)
  <2>1. proc'[x].pc \in {"create", "end", "edited", "qa"}
    BY <1>0, <1>3 DEF ReadLatestNumber, EditWrite, EditReadProject, ProcRecs
  <2>2. QED
    BY <2>1 DEF Owes
<1>4. CASE RequeueImage(x) \/ RequeueImageJob(x)
  BY <1>4 DEF RequeueImage, RequeueImageJob, Owes
<1>5. QED
  BY <1>2, <1>3, <1>4 DEF CallGoesOn, Generation

\* The steps of a controller that neither begin an attempt nor count one.
LEMMA QuietSteps ==
  ASSUME TypeInv, NEW x \in Controllers, Controls(x),
         ~ RepairReads(x), ~ GiveUp(x), ~ StoreRepair(x), ~ RepairThrows(x)
  PROVE  /\ TriesSame
         /\ proc'[x].pc \in Owes => proc[x].pc \in Owes /\ ctl'[x].target = ctl[x].target
         /\ failures' \in Nat /\ failures <= failures'
<1>0. /\ x \in Procs /\ proc[x] \in ProcRecs /\ proc \in [Procs -> ProcRecs]
      /\ version \in [Versions -> VersionRows] /\ failures \in Nat
  BY ControllerFacts DEF TypeInv, AutopilotTypeOK, TypeOK
<1>1. failures' \in Nat /\ failures <= failures'
  <2>1. UNCHANGED failures \/ failures' = failures + 1
    BY DEF Controls, Looks, TickReads, RecoveryReads, WriteWaiting, Plan, Hopeless,
           RetryImage, Rewrite, RepairRereads, RepairedProject, MarkIntervention,
           RepairPassed, WriteAutoApproved, RowsCreated, RepairThrows, RepairReads,
           ClaimRepair, GiveUp, StoreRepair, JudgeRepair, FindMissing, CreateRow,
           ControllerEnds, ControllerDies, PipelineUnchanged, Fails
  <2>2. QED
    BY <1>0, <2>1
<1> DEFINE v == ctl[x].target
<1>2. TriesSame
  <2>1. CASE UNCHANGED version
    BY <2>1 DEF TriesSame
  <2>2. CASE version' = [version EXCEPT ![v].lock = "held"]
    <3>1. version' = [version EXCEPT ![v] = [version[v] EXCEPT !.lock = "held"]]
      BY <2>2
    <3>2. v \in Versions => [version[v] EXCEPT !.lock = "held"].tries = version[v].tries
      BY <1>0 DEF VersionRows
    <3>3. QED
      BY <3>1, <3>2, TriesKept
  <2>3. CASE JudgeRepair(x)
    <3>1. version' = [version EXCEPT ![v] = Judged(Unlocked(version[v]), RepairReport(x))]
      BY <1>0, <2>3 DEF JudgeRepair
    <3>2. v \in Versions =>
            Judged(Unlocked(version[v]), RepairReport(x)).tries = version[v].tries
      BY <1>0 DEF VersionRows, Judged, Unlocked
    <3>3. QED
      BY <3>1, <3>2, TriesKept
  <2>4. QED
    BY <2>1, <2>2, <2>3
       DEF Controls, Looks, TickReads, RecoveryReads, WriteWaiting, Plan, Hopeless, RetryImage,
           Rewrite, RepairRereads, RepairedProject, MarkIntervention, RepairPassed,
           WriteAutoApproved, RowsCreated, ClaimRepair, FindMissing, CreateRow,
           ControllerEnds, ControllerDies
<1>3. ASSUME NEW pc \in ProcSteps \ Owes, Goto(x, pc) PROVE proc'[x].pc \notin Owes
  BY <1>0, <1>3, GotoKeeps
<1>4. proc'[x].pc \in Owes => proc[x].pc \in Owes /\ ctl'[x].target = ctl[x].target
  <2>1. CASE \/ WriteWaiting(x) \/ MarkIntervention(x) \/ WriteAutoApproved(x) \/ JudgeRepair(x)
             \/ RowsCreated(x) \/ FindMissing(x) \/ RepairedProject(x) \/ RepairPassed(x)
    <3>1. \E pc \in {"end", "ensure", "create_rows", "repaired", "passed", "exhausted",
                     "approve"} : Goto(x, pc)
      BY <2>1 DEF WriteWaiting, MarkIntervention, WriteAutoApproved, JudgeRepair, RowsCreated,
         FindMissing, RepairedProject, RepairPassed
    <3>2. QED
      BY <1>3, <3>1 DEF ProcSteps, Owes
  <2>2. CASE ClaimRepair(x) \/ Plan(x) \/ Hopeless(x) \/ RetryImage(x) \/ Rewrite(x)
    BY <2>2 DEF ClaimRepair, Plan, Hopeless, RetryImage, Rewrite, Owes
  <2>3. CASE CreateRow(x)
    BY <2>3 DEF CreateRow, Owes
  <2>4. CASE TickReads(x) \/ RecoveryReads(x)
    <3>1. \E op, pc : Snapshot(x, op, pc) /\ pc \in {"number", "substate", "repair", "approve", "ensure"}
      <4>1. CASE TickReads(x) /\ Latest = 0
        BY <4>1 DEF TickReads
      <4>2. CASE TickReads(x) /\ Latest # 0
        <5>1. version[Latest].status \in VersionStatus \ {"none"}
          BY <4>2, SeenLatest
        <5>2. QED
          BY <4>2, <5>1 DEF TickReads, VersionStatus
      <4>3. CASE RecoveryReads(x)
        BY <4>3 DEF RecoveryReads
      <4>4. QED
        BY <2>4, <4>1, <4>2, <4>3
    <3>2. PICK op, pc : Snapshot(x, op, pc) /\ pc \in {"number", "substate", "repair", "approve", "ensure"}
      BY <3>1
    <3>3. proc'[x].pc = pc
      BY <1>0, <3>2 DEF Snapshot, ProcIdle
    <3>4. QED
      BY <3>2, <3>3 DEF Owes
  <2>5. CASE RepairRereads(x)
    <3>1. proc'[x].pc = "judge"
      BY <1>0, <2>5 DEF RepairRereads, ProcRecs
    <3>2. QED
      BY <3>1 DEF Owes
  <2>6. CASE ControllerEnds(x) \/ ControllerDies(x)
    <3>1. PICK pc \in {"idle", "done"} : proc' = [proc EXCEPT ![x] = [ProcIdle EXCEPT !.pc = pc]]
      BY <2>6 DEF ControllerEnds, ControllerDies
    <3>2. proc'[x].pc = pc
      BY <1>0, <3>1 DEF ProcIdle
    <3>3. QED
      BY <3>2 DEF Owes
  <2>7. QED
    BY <2>1, <2>2, <2>3, <2>4, <2>5, <2>6 DEF Controls, Looks
<1>5. QED
  BY <1>1, <1>2, <1>4

\* An attempt begins: what was read of the version is below the limit.
LEMMA AttemptBegins ==
  ASSUME SomeControllers, TypeInv, AttemptsPaid, NEW x \in Controllers, RepairReads(x)
  PROVE  AttemptsPaid'
<1>0. /\ x \in Procs /\ proc[x] \in ProcRecs /\ proc \in [Procs -> ProcRecs]
      /\ ctl[x] \in CtlRecs /\ ctl \in [Controllers -> CtlRecs]
      /\ UNCHANGED <<version, failures>> /\ failures \in Nat /\ MaxRepairs \in Nat
      /\ \A v \in Versions : version[v].tries \in Nat
  BY ControllerFacts, AutopilotConstants
     DEF RepairReads, PipelineUnchanged, TypeInv, AutopilotTypeOK, TypeOK, VersionRows
<1>1. PICK n \in Versions : n = Latest
  BY LatestCreated DEF RepairReads, TypeInv, Pointers
<1>2. /\ proc'[x].pc \in {"passed", "intervention", "claim"}
      /\ proc'[x].pc = "claim" => version[n].tries < MaxRepairs
      /\ \A y \in Procs : y # x => proc'[y] = proc[y]
  <2>1. PICK pc : /\ pc \in {"passed", "intervention", "claim"}
                  /\ pc = "claim" => ~ (version[n].tries >= MaxRepairs)
                  /\ \E seen, hero :
                       proc' = [proc EXCEPT ![x].seen = seen, ![x].hero = hero, ![x].pc = pc]
    BY <1>1 DEF RepairReads
  <2>2. proc'[x].pc = pc
    BY <1>0, <2>1 DEF ProcRecs
  <2>3. QED
    BY <1>0, <2>1, <2>2
<1>3. ctl'[x].target = n /\ \A y \in Controllers : y # x => ctl'[y] = ctl[y]
  <2>1. ctl' = [ctl EXCEPT ![x].target = n]
    BY <1>1 DEF RepairReads
  <2>2. QED
    BY <1>0, <2>1 DEF CtlRecs
<1>4. ASSUME NEW v \in Versions
      PROVE  (version[v].tries + Cardinality(Owing(v)) <=
                MaxRepairs + (Cardinality(Controllers) - 1) + failures)'
  <2> DEFINE c == Cardinality(Controllers)
             s == Cardinality(Owing(v))
             t == Cardinality(Owing(v)')
  <2>1. Owing(v)' \subseteq Controllers /\ Owing(v) \subseteq Controllers
    BY DEF Owing
  <2>2. c \in Nat /\ c >= 1 /\ s \in Nat /\ t \in Nat /\ t <= c
    BY <2>1, ControllersCount
  <2>3. version[v].tries + s <= MaxRepairs + (c - 1) + failures
    BY DEF AttemptsPaid
  <2>4. \/ t <= s
        \/ version[v].tries < MaxRepairs
    <3>1. CASE v = n /\ proc'[x].pc = "claim"
      BY <1>2, <3>1
    <3>2. CASE ~ (v = n /\ proc'[x].pc = "claim")
      <4>1. x \notin Owing(v)'
        BY <1>2, <1>3, <3>2 DEF Owing, Owes
      <4>2. Owing(v)' \subseteq Owing(v)
        BY <1>2, <1>3, <4>1, AutopilotConstants DEF Owing
      <4>3. QED
        BY <2>1, <4>2, CountNoMore
    <3>3. QED
      BY <3>1, <3>2
  <2>5. version[v].tries \in Nat /\ version'[v].tries = version[v].tries /\ failures' = failures
    BY <1>0
  <2> HIDE DEF c, s, t
  <2>6. version'[v].tries + t <= MaxRepairs + (c - 1) + failures'
    BY <1>0, <2>2, <2>3, <2>4, <2>5
  <2>7. QED
    BY <2>6 DEF c, t
<1>5. QED
  BY <1>4 DEF AttemptsPaid

\* An attempt is counted: the controller owes it no more.
LEMMA AttemptCounted ==
  ASSUME SomeControllers, TypeInv, AttemptsPaid, NEW x \in Controllers,
         GiveUp(x) \/ StoreRepair(x)
  PROVE  AttemptsPaid'
<1> DEFINE n == ctl[x].target
<1>0. /\ x \in Procs /\ proc[x] \in ProcRecs /\ proc \in [Procs -> ProcRecs]
      /\ UNCHANGED <<ctl, failures>> /\ failures \in Nat /\ MaxRepairs \in Nat
      /\ n \in Versions /\ version \in [Versions -> VersionRows]
      /\ \A v \in Versions : version[v].tries \in Nat
      /\ proc[x].pc \in Owes
  BY ControllerFacts, AutopilotConstants
     DEF GiveUp, StoreRepair, PipelineUnchanged, TypeInv, AutopilotTypeOK, TypeOK, VersionRows,
         Trying, Held, Locked, Owes
<1>1. /\ version'[n].tries = version[n].tries + 1
      /\ \A v \in Versions : v # n => version'[v] = version[v]
  <2> DEFINE m == version[n].tries + 1
  <2>1. \/ version' = [version EXCEPT ![n] = [version[n] EXCEPT !.lock = "free", !.tries = m]]
        \/ version' = [version EXCEPT ![n] = [version[n] EXCEPT !.body = proc[x].body, !.tries = m]]
    BY <1>0 DEF GiveUp, StoreRepair
  <2> HIDE DEF m
  <2>2. PICK row : version' = [version EXCEPT ![n] = row] /\ row.tries = m
    <3>1. /\ [version[n] EXCEPT !.lock = "free", !.tries = m].tries = m
          /\ [version[n] EXCEPT !.body = proc[x].body, !.tries = m].tries = m
      BY <1>0 DEF VersionRows
    <3>2. QED
      BY <2>1, <3>1
  <2>3. QED
    BY <1>0, <2>2 DEF m
<1>2. proc'[x].pc \in {"end", "fresh"} /\ \A y \in Procs : y # x => proc'[y] = proc[y]
  <2>1. PICK pc \in {"end", "fresh"} : Goto(x, pc)
    BY DEF GiveUp, StoreRepair
  <2>2. pc \in ProcSteps
    BY DEF ProcSteps
  <2>3. QED
    BY <1>0, <2>1, <2>2, GotoMoves DEF TypeInv
<1>3. ASSUME NEW v \in Versions
      PROVE  (version[v].tries + Cardinality(Owing(v)) <=
                MaxRepairs + (Cardinality(Controllers) - 1) + failures)'
  <2> DEFINE c == Cardinality(Controllers)
             s == Cardinality(Owing(v))
             t == Cardinality(Owing(v)')
  <2>1. Owing(v)' = Owing(v) \ {x} /\ Owing(v) \subseteq Controllers
    BY <1>0, <1>2, AutopilotConstants DEF Owing, Owes
  <2>2. c \in Nat /\ c >= 1 /\ s \in Nat /\ t \in Nat
    BY <2>1, ControllersCount
  <2>3. version[v].tries + s <= MaxRepairs + (c - 1) + failures
    BY DEF AttemptsPaid
  <2>4. IF v = n THEN t = s - 1 ELSE t <= s
    <3>1. IsFiniteSet(Owing(v))
      BY <2>1, ControllersCount
    <3>2. CASE v = n
      <4>1. x \in Owing(v)
        BY <1>0, <3>2 DEF Owing
      <4>2. t = s - 1
        BY <2>1, <3>1, <4>1, FS_RemoveElement
      <4>3. QED
        BY <3>2, <4>2
    <3>3. CASE v # n
      <4>1. t <= s
        BY <2>1, CountNoMore
      <4>2. QED
        BY <3>3, <4>1
    <3>4. QED
      BY <3>2, <3>3
  <2>5. /\ version[v].tries \in Nat /\ failures' = failures
        /\ version'[v].tries = IF v = n THEN version[v].tries + 1 ELSE version[v].tries
    BY <1>0, <1>1
  <2> HIDE DEF c, s, t
  <2>6. version'[v].tries + t <= MaxRepairs + (c - 1) + failures'
    BY <1>0, <2>2, <2>3, <2>4, <2>5
  <2>7. QED
    BY <2>6 DEF c, t
<1>4. QED
  BY <1>3 DEF AttemptsPaid

\* A cycle that throws has the attempt counted (again): a failure pays for it.
LEMMA AttemptThrows ==
  ASSUME SomeControllers, TypeInv, AttemptsPaid, NEW x \in Controllers, RepairThrows(x)
  PROVE  AttemptsPaid'
<1>0. /\ x \in Procs /\ proc \in [Procs -> ProcRecs] /\ UNCHANGED <<ctl, version>>
      /\ failures' = failures + 1 /\ failures \in Nat /\ MaxRepairs \in Nat
      /\ \A v \in Versions : version[v].tries \in Nat
  BY ControllerFacts, AutopilotConstants
     DEF RepairThrows, Fails, TypeInv, AutopilotTypeOK, TypeOK, VersionRows
<1>1. \A y \in Procs : y # x => proc'[y] = proc[y]
  BY <1>0, GotoMoves DEF RepairThrows, ProcSteps, TypeInv
<1>2. ASSUME NEW v \in Versions
      PROVE  (version[v].tries + Cardinality(Owing(v)) <=
                MaxRepairs + (Cardinality(Controllers) - 1) + failures)'
  <2> DEFINE c == Cardinality(Controllers)
             s == Cardinality(Owing(v))
             t == Cardinality(Owing(v)')
  <2>1. Owing(v)' \subseteq Owing(v) \cup {x} /\ Owing(v) \subseteq Controllers
    BY <1>0, <1>1, AutopilotConstants DEF Owing
  <2>2. IsFiniteSet(Owing(v)) /\ IsFiniteSet(Owing(v) \cup {x})
    BY <2>1, ControllersCount, FS_AddElement
  <2>3. c \in Nat /\ c >= 1 /\ s \in Nat /\ t \in Nat
    BY <2>1, ControllersCount
  <2>4. t <= s + 1
    <3>1. t <= Cardinality(Owing(v) \cup {x})
      BY <2>1, <2>2, FS_Subset
    <3>2. Cardinality(Owing(v) \cup {x}) <= s + 1
      <4> HIDE DEF s
      <4>1. Cardinality(Owing(v) \cup {x}) = IF x \in Owing(v) THEN s ELSE s + 1
        BY <2>2, FS_AddElement DEF s
      <4>2. QED
        BY <2>3, <4>1
    <3>3. Cardinality(Owing(v) \cup {x}) \in Nat
      BY <2>2, FS_CardinalityType
    <3> HIDE DEF s, t
    <3>4. QED
      BY <2>3, <3>1, <3>2, <3>3
  <2>5. version[v].tries + s <= MaxRepairs + (c - 1) + failures
    BY DEF AttemptsPaid
  <2>6. version[v].tries \in Nat /\ version'[v].tries = version[v].tries
    BY <1>0
  <2> HIDE DEF c, s, t
  <2>7. version'[v].tries + t <= MaxRepairs + (c - 1) + failures'
    BY <1>0, <2>3, <2>4, <2>5, <2>6
  <2>8. QED
    BY <2>7 DEF c, t
<1>3. QED
  BY <1>2 DEF AttemptsPaid

LEMMA AttemptsNext ==
  ASSUME SomeControllers, TypeInv, AttemptsPaid, [Next]_vars
  PROVE  AttemptsPaid'
<1>0. Controllers \subseteq Procs /\ failures \in Nat
  BY AutopilotConstants DEF TypeInv, AutopilotTypeOK, TypeOK
<1>1. CASE (Pipeline \/ UNCHANGED pipelineVars) /\ UNCHANGED <<ctl, rows>>
  BY <1>1, PipelineTries, PipelineKeeps, AttemptsStay DEF TriesSame
<1>2. ASSUME NEW x \in Procs, Request(x), UNCHANGED ctl,
             x \in Controllers => (proc'[x].pc \in Owes => proc[x].pc \in Owes),
             \A y \in Procs : y # x => proc'[y] = proc[y]
      PROVE  AttemptsPaid'
  <2>1. \A v \in Versions : \/ version'[v].tries = version[v].tries
                            \/ v \notin Created /\ version'[v].tries = 0
    BY <1>2, RequestTries DEF TriesSame
  <2>2. failures' = failures
    BY <1>2, RequestTries
  <2>3. QED
    BY <1>0, <1>2, <2>1, <2>2, AttemptsStay
<1>3. CASE \E x \in Operators : Request(x) /\ UNCHANGED <<ctl, rows>>
  <2>1. PICK x \in Operators : Request(x) /\ UNCHANGED <<ctl, rows>>
    BY <1>3
  <2>2. x \in Procs /\ x \notin Controllers
    BY DEF Operators
  <2>3. \A y \in Procs : y # x => proc'[y] = proc[y]
    BY <2>1, <2>2, RequestLeads, CallGoesOnLeads DEF Request, CallLeads
  <2>4. QED
    BY <1>2, <2>1, <2>2, <2>3
<1>4. CASE \E x \in Controllers : CallGoesOn(x) /\ UNCHANGED <<ctl, rows>>
  <2>1. PICK x \in Controllers : CallGoesOn(x) /\ UNCHANGED <<ctl, rows>>
    BY <1>4
  <2>2. \A y \in Procs : y # x => proc'[y] = proc[y]
    BY <1>0, <2>1, CallGoesOnLeads DEF CallLeads
  <2>3. QED
    BY <1>0, <1>2, <2>1, <2>2, CallOwes DEF Request
<1>5. ASSUME NEW x \in Controllers, Controls(x) PROVE AttemptsPaid'
  <2>1. CASE ~ RepairReads(x) /\ ~ GiveUp(x) /\ ~ StoreRepair(x) /\ ~ RepairThrows(x)
    <3>1. /\ \A y \in Procs : y # x => proc'[y] = proc[y]
          /\ \A y \in Controllers : y # x => ctl'[y] = ctl[y]
      BY <1>5, ControlsLed DEF Led
    <3>2. \A y \in Controllers : proc'[y].pc \in Owes =>
            proc[y].pc \in Owes /\ ctl'[y].target = ctl[y].target
      BY <1>0, <1>5, <2>1, <3>1, QuietSteps
    <3>3. /\ \A v \in Versions : version'[v].tries = version[v].tries
          /\ failures' \in Nat /\ failures <= failures'
      BY <1>5, <2>1, QuietSteps DEF TriesSame
    <3>4. QED
      BY <3>2, <3>3, AttemptsStay
  <2>2. QED
    BY <1>5, <2>1, AttemptBegins, AttemptCounted, AttemptThrows
<1>6. CASE LockExpires \/ WatchdogReleases
  <2>1. UNCHANGED <<proc, ctl, failures>>
    BY <1>6 DEF LockExpires, WatchdogReleases, PipelineUnchanged
  <2>2. PICK v \in Created, l \in {"expired", "free"} :
          version' = [version EXCEPT ![v] = [version[v] EXCEPT !.lock = l]]
    BY <1>6 DEF LockExpires, WatchdogReleases, Unlocked, TypeInv, AutopilotTypeOK, TypeOK
  <2>3. v \in Versions => [version[v] EXCEPT !.lock = l].tries = version[v].tries
    BY DEF TypeInv, AutopilotTypeOK, TypeOK, VersionRows
  <2>4. TriesSame
    BY <2>2, <2>3, TriesKept
  <2>5. QED
    BY <1>0, <2>1, <2>4, AttemptsStay DEF TriesSame
<1>7. QED
  BY <1>1, <1>3, <1>4, <1>5, <1>6, StepCases

\* The attempts at repairing a version stay within maxRepairAttempts, with one
\* more for each other controller that had read the version before and one for
\* each failure (a cycle that throws after it was counted is counted twice).
THEOREM RepairBudgetKept == ASSUME SomeControllers PROVE Spec => []RepairBudget
<1>1. Init => AttemptsPaid
  <2> SUFFICES ASSUME Init PROVE AttemptsPaid
    OBVIOUS
  <2>1. Controllers \subseteq Procs /\ MaxRepairs \in Nat /\ failures = 0
    BY AutopilotConstants DEF Init, PipelineInit
  <2>2. \A v \in Versions : version[v].tries = 0 /\ Owing(v) = {}
    BY <2>1 DEF Init, PipelineInit, NoVersion, ProcIdle, Owing, Owes
  <2>3. Cardinality({}) = 0 /\ Cardinality(Controllers) \in Nat /\ Cardinality(Controllers) >= 1
    BY ControllersCount, FS_EmptySet
  <2>4. QED
    BY <2>1, <2>2, <2>3 DEF AttemptsPaid
<1>2. TypeInv /\ AttemptsPaid /\ [Next]_vars => (TypeInv /\ AttemptsPaid)'
  BY TypeInvNext, AttemptsNext
<1>3. TypeInv /\ AttemptsPaid => RepairBudget
  <2> SUFFICES ASSUME TypeInv, AttemptsPaid, NEW v \in Versions
               PROVE  version[v].tries <= MaxRepairs + (Cardinality(Controllers) - 1) + failures
    BY DEF RepairBudget
  <2>1. Cardinality(Owing(v)) \in Nat /\ Cardinality(Controllers) \in Nat
    <3>1. Owing(v) \subseteq Controllers
      BY DEF Owing
    <3>2. QED
      BY <3>1, ControllersCount
  <2>2. version[v].tries \in Nat /\ failures \in Nat /\ MaxRepairs \in Nat
    BY AutopilotConstants DEF TypeInv, AutopilotTypeOK, TypeOK, VersionRows
  <2>3. version[v].tries + Cardinality(Owing(v)) <=
          MaxRepairs + (Cardinality(Controllers) - 1) + failures
    BY DEF AttemptsPaid
  <2>4. QED
    BY <2>1, <2>2, <2>3
<1>4. QED
  BY TypeInit, <1>1, <1>2, <1>3, PTL DEF Spec

-----------------------------------------------------------------------------
(* The publications *)

\* One controller at a time: the tick of one control worker, or one recovery.
OneController == \A x, y \in Controllers : x = y

\* The version has no publication yet on the channels a controller is about to use.
Missing == \A x \in Controllers :
  proc[x].pc = "create_rows" => \A c \in ctl[x].missing : rows[proc[x].ver][c] = 0

RowsInv == Missing /\ OnePublicationPerChannel

LEMMA CallLands ==
  ASSUME TypeInv, NEW x \in Controllers, CallGoesOn(x)
  PROVE  proc'[x].pc # "create_rows"
<1>0. x \in Procs /\ proc[x] \in ProcRecs /\ proc \in [Procs -> ProcRecs]
  BY ControllerFacts
<1>1. CASE \/ CreateVersion(x) \/ EnqueueText(x) \/ ProjectDraft(x) \/ ProjectGenerating(x)
           \/ EditQa(x) \/ EditProjectStatus(x) \/ ApproveVersion(x) \/ ApproveProject(x)
           \/ RequeueImage(x) \/ RequeueImageJob(x)
  <2>1. PICK pc \in {"enqueue", "end", "draft", "generating", "regenerating", "edit_status", "approve_project",
                     "approved", "add_image", "rewrite"} : Goto(x, pc)
    BY <1>1 DEF CreateVersion, EnqueueText, ProjectDraft, ProjectGenerating, EditQa,
       EditProjectStatus, ApproveVersion, ApproveProject, RequeueImage, RequeueImageJob
  <2>2. QED
    BY <1>0, <2>1, GotoKeeps DEF ProcSteps
<1>2. CASE ReadLatestNumber(x) \/ EditWrite(x) \/ EditReadProject(x)
  <2>1. proc'[x].pc \in {"create", "end", "edited", "qa"}
    BY <1>0, <1>2 DEF ReadLatestNumber, EditWrite, EditReadProject, ProcRecs
  <2>2. QED
    BY <2>1
<1>3. QED
  BY <1>1, <1>2 DEF CallGoesOn, Generation

LEMMA ControlsLand ==
  ASSUME TypeInv, NEW x \in Controllers, Controls(x), ~ FindMissing(x), ~ CreateRow(x)
  PROVE  proc'[x].pc # "create_rows" /\ UNCHANGED rows
<1>0. x \in Procs /\ proc[x] \in ProcRecs /\ proc \in [Procs -> ProcRecs]
  BY ControllerFacts
<1>1. UNCHANGED rows
  BY DEF Controls, Looks, TickReads, RecoveryReads, WriteWaiting, Plan, Hopeless,
         RetryImage, Rewrite, RepairRereads, RepairedProject, MarkIntervention,
         RepairPassed, WriteAutoApproved, RowsCreated, RepairThrows, RepairReads,
         ClaimRepair, GiveUp, StoreRepair, JudgeRepair, ControllerEnds, ControllerDies
<1>2. CASE \/ WriteWaiting(x) \/ MarkIntervention(x) \/ WriteAutoApproved(x) \/ JudgeRepair(x)
           \/ RowsCreated(x) \/ RepairedProject(x) \/ RepairPassed(x) \/ GiveUp(x)
           \/ ClaimRepair(x) \/ Plan(x) \/ Hopeless(x) \/ RetryImage(x) \/ StoreRepair(x)
           \/ RepairThrows(x)
  <2>1. PICK pc \in {"end", "ensure", "repaired", "passed", "exhausted", "approve", "plan",
                     "hopeless", "image", "rewrite", "give_up", "requeue", "fresh"} : Goto(x, pc)
    BY <1>2 DEF WriteWaiting, MarkIntervention, WriteAutoApproved, JudgeRepair, RowsCreated,
       RepairedProject, RepairPassed, GiveUp, ClaimRepair, Plan, Hopeless, RetryImage,
       StoreRepair, RepairThrows
  <2>2. QED
    BY <1>0, <1>1, <2>1, GotoKeeps DEF ProcSteps
<1>3. CASE Rewrite(x) \/ RepairRereads(x) \/ RepairReads(x)
  <2>1. proc'[x].pc \in {"store", "judge", "passed", "intervention", "claim"}
    BY <1>0, <1>3 DEF Rewrite, RepairRereads, RepairReads, ProcRecs
  <2>2. QED
    BY <1>1, <2>1
<1>4. CASE ControllerEnds(x) \/ ControllerDies(x)
  <2>1. PICK pc \in {"idle", "done"} : proc' = [proc EXCEPT ![x] = [ProcIdle EXCEPT !.pc = pc]]
    BY <1>4 DEF ControllerEnds, ControllerDies
  <2>2. QED
    BY <1>0, <1>1, <2>1 DEF ProcIdle
<1>5. CASE TickReads(x) \/ RecoveryReads(x)
  <2>1. \E op, pc : Snapshot(x, op, pc) /\ pc \in {"number", "substate", "repair", "approve", "ensure"}
    <3>1. CASE TickReads(x) /\ Latest = 0
      BY <3>1 DEF TickReads
    <3>2. CASE TickReads(x) /\ Latest # 0
      <4>1. version[Latest].status \in VersionStatus \ {"none"}
        BY <3>2, SeenLatest
      <4>2. QED
        BY <3>2, <4>1 DEF TickReads, VersionStatus
    <3>3. CASE RecoveryReads(x)
      BY <3>3 DEF RecoveryReads
    <3>4. QED
      BY <1>5, <3>1, <3>2, <3>3
  <2>2. PICK op, pc : Snapshot(x, op, pc) /\ pc \in {"number", "substate", "repair", "approve", "ensure"}
    BY <2>1
  <2>3. QED
    BY <1>0, <1>1, <2>2 DEF Snapshot, ProcIdle
<1>6. QED
  BY <1>2, <1>3, <1>4, <1>5 DEF Controls, Looks

LEMMA RowsInvNext ==
  ASSUME OneController, TypeInv, RowsInv, [Next]_vars
  PROVE  RowsInv'
<1>0. /\ Controllers \subseteq Procs /\ rows \in [Versions -> [Channels -> Nat]]
      /\ proc \in [Procs -> ProcRecs]
  BY AutopilotConstants DEF TypeInv, AutopilotTypeOK, TypeOK, ProcRecs
<1>1. ASSUME UNCHANGED rows,
             \A y \in Controllers : proc'[y].pc = "create_rows" =>
               proc[y].pc = "create_rows" /\ ctl'[y] = ctl[y] /\ proc'[y].ver = proc[y].ver
      PROVE  RowsInv'
  BY <1>1 DEF RowsInv, Missing, OnePublicationPerChannel
<1>2. CASE (Pipeline \/ UNCHANGED pipelineVars) /\ UNCHANGED <<ctl, rows>>
  BY <1>1, <1>2, PipelineKeeps
<1>3. CASE \E x \in Operators : Request(x) /\ UNCHANGED <<ctl, rows>>
  <2>1. PICK x \in Operators : Request(x) /\ UNCHANGED <<ctl, rows>>
    BY <1>3
  <2>2. x \in Procs /\ x \notin Controllers
    BY DEF Operators
  <2>3. \A y \in Procs : y # x => proc'[y] = proc[y]
    BY <2>1, <2>2, RequestLeads, CallGoesOnLeads DEF Request, CallLeads
  <2>4. QED
    BY <1>0, <1>1, <2>1, <2>2, <2>3
<1>4. CASE \E x \in Controllers : CallGoesOn(x) /\ UNCHANGED <<ctl, rows>>
  <2>1. PICK x \in Controllers : CallGoesOn(x) /\ UNCHANGED <<ctl, rows>>
    BY <1>4
  <2>2. \A y \in Procs : y # x => proc'[y] = proc[y]
    BY <1>0, <2>1, CallGoesOnLeads DEF CallLeads
  <2>3. QED
    BY <1>0, <1>1, <2>1, <2>2, CallLands
<1>5. ASSUME NEW x \in Controllers, Controls(x) PROVE RowsInv'
  <2>0. /\ \A y \in Procs : y # x => proc'[y] = proc[y]
        /\ \A y \in Controllers : y # x => ctl'[y] = ctl[y]
        /\ Controllers = {x} /\ ctl \in [Controllers -> CtlRecs]
    BY <1>5, ControlsLed, ControllerFacts DEF Led, OneController
  <2>1. CASE ~ FindMissing(x) /\ ~ CreateRow(x)
    BY <1>0, <1>1, <1>5, <2>0, <2>1, ControlsLand
  <2> DEFINE v == proc[x].ver
  <2>2. CASE FindMissing(x)
    <3>1. /\ ctl' = [ctl EXCEPT ![x].missing = {c \in Channels : rows[v][c] = 0}, ![x].created = FALSE]
          /\ UNCHANGED rows /\ Goto(x, "create_rows")
      BY <2>2 DEF FindMissing
    <3>2. ctl'[x].missing = {c \in Channels : rows[v][c] = 0}
      BY <2>0, <3>1 DEF CtlRecs
    <3>3. proc'[x].ver = v
      BY <1>0, <2>0, <3>1 DEF Goto, ProcRecs
    <3>4. Missing'
      BY <2>0, <3>1, <3>2, <3>3 DEF Missing
    <3>5. QED
      BY <3>1, <3>4 DEF RowsInv, OnePublicationPerChannel
  <2>3. CASE CreateRow(x)
    <3>1. PICK c \in ctl[x].missing :
            /\ rows' = [rows EXCEPT ![v][c] = @ + 1]
            /\ ctl' = [ctl EXCEPT ![x].missing = @ \ {c}, ![x].created = TRUE]
            /\ proc[x].pc = "create_rows" /\ UNCHANGED proc
      BY <2>3 DEF CreateRow
    <3>2. ctl'[x].missing = ctl[x].missing \ {c} /\ c \in Channels
          /\ ctl[x].missing \subseteq Channels
      BY <2>0, <3>1 DEF CtlRecs
    <3>3. \A d \in ctl[x].missing : rows[v][d] = 0
      BY <2>0, <3>1 DEF RowsInv, Missing
    <3>4. /\ \A u \in Versions : u # v => rows'[u] = rows[u]
          /\ v \in Versions => rows'[v] = [rows[v] EXCEPT ![c] = rows[v][c] + 1]
          /\ v \notin Versions => rows' = rows
      BY <1>0, <3>1
    <3>5. v \in Versions => /\ rows'[v][c] = 1
                            /\ \A d \in Channels : d # c => rows'[v][d] = rows[v][d]
      BY <1>0, <3>2, <3>3, <3>4
    <3>6. \A d \in ctl'[x].missing : rows'[v][d] = 0
      BY <3>2, <3>3, <3>4, <3>5
    <3>7. Missing'
      BY <2>0, <3>1, <3>6 DEF Missing
    <3>8. OnePublicationPerChannel'
      BY <1>0, <3>4, <3>5 DEF RowsInv, OnePublicationPerChannel
    <3>9. QED
      BY <3>7, <3>8 DEF RowsInv
  <2>4. QED
    BY <2>1, <2>2, <2>3
<1>6. CASE LockExpires \/ WatchdogReleases
  <2>1. UNCHANGED <<proc, ctl, rows>>
    BY <1>6 DEF LockExpires, WatchdogReleases, PipelineUnchanged
  <2>2. QED
    BY <1>1, <2>1
<1>7. QED
  BY <1>2, <1>3, <1>4, <1>5, <1>6, StepCases

\* However often the one controller is cut short between two publications, and
\* whatever operators and workers do meanwhile, a version gets no second one on a
\* channel.
THEOREM OnePublicationAlways ==
  ASSUME OneController
  PROVE  Spec => []OnePublicationPerChannel
<1>1. Init => RowsInv
  BY AutopilotConstants
     DEF Init, PipelineInit, ProcIdle, RowsInv, Missing, OnePublicationPerChannel
<1>2. TypeInv /\ RowsInv /\ [Next]_vars => (TypeInv /\ RowsInv)'
  BY TypeInvNext, RowsInvNext
<1>3. TypeInv /\ RowsInv => OnePublicationPerChannel
  BY DEF RowsInv
<1>4. QED
  BY TypeInit, <1>1, <1>2, <1>3, PTL DEF Spec

-----------------------------------------------------------------------------
(* The body that was approved *)

\* The tick of one control worker, and nobody who recovers the project.
OneTick == OneController /\ Recoveries = {}

\* Operators ask for new versions and retry images, and neither edit nor approve
\* nor ask for another image.
NobodyJudges == Operations \subseteq {"generate", "retry_image"}

\* What a worker has begun it ends, unless the provider of the text refuses.
WorkersFinish == Failures \cap {"database", "worker"} = {}

\* The text worker alone owns the jobs that are active.
Owned == \A v \in Versions : textJob[v].state = "active" <=> tw.pc # "idle" /\ tw.ver = v

\* A version that has an image has its text behind it, and no job will write it again.
WrittenOnce ==
  \A v \in Versions : version[v].img # None =>
    /\ textJob[v].state \notin {"waiting", "delayed"}
    /\ ~ (tw.ver = v /\ tw.pc \in {"generate", "read", "write"})

\* A version that was not queued yet has no job and no image, and one caller.
Unqueued(v) == v \in Created /\ textJob[v].state = "none" /\ version[v].img = None

Queueing ==
  /\ \A v \in Versions : textJob[v].state # "none" => v \in Created
  /\ \A x \in Procs : proc[x].pc = "create" => proc[x].ver \in Versions
  /\ \A x \in Procs : proc[x].pc = "enqueue" => Unqueued(proc[x].ver)
  /\ \A x, y \in Procs : proc[x].pc = "enqueue" /\ proc[y].pc = "enqueue" /\ x # y =>
       proc[x].ver # proc[y].ver

Rewriting == {"claim", "plan", "image", "requeue", "add_image", "rewrite", "store"}

\* The cycle is about to write, or to choose what to write, and nobody approved it.
Undecided ==
  \A x \in Controllers :
    /\ proc[x].pc \in Rewriting => version[ctl[x].target].status # "approved"
    /\ proc[x].pc = "repair" =>
         /\ proc[x].ver \in Created
         /\ \A v \in Versions : v >= proc[x].ver => version[v].status # "approved"

\* No body is edited, and nobody approves but a controller.
OnlyTickJudges ==
  /\ \A x \in Procs : proc[x].pc \notin {"edit", "edited", "qa"}
  /\ \A x \in Operators : proc[x].pc # "approve"

WriterInv == Owned /\ WrittenOnce
KeptInv == WriterInv /\ Queueing /\ Undecided /\ OnlyTickJudges

\* What the workers leave: jobs that were not added, and, of a version whose text
\* they do not have, the image; no approval, and the body of a version with an image.
WorkersKeep ==
  \A v \in Versions :
    /\ textJob[v].state = "none" => textJob'[v].state = "none" /\ version'[v].img = version[v].img
    /\ version'[v].status = "approved" => version[v].status = "approved"
    /\ version[v].img # None => version'[v].body = version[v].body

LEMMA VersionUntouched ==
  ASSUME UNCHANGED version, \A v \in Versions : textJob[v].state = "none" => textJob'[v].state = "none"
  PROVE  WorkersKeep
  BY DEF WorkersKeep

\* A step of the text worker, or of BullMQ, that leaves the versions.
LEMMA TextJobMoves ==
  ASSUME TypeInv, WriterInv, UNCHANGED version, NEW u \in Versions, NEW job \in Jobs,
         textJob' = [textJob EXCEPT ![u] = job], textJob[u].state # "none",
         job.state = "active" <=> tw'.pc # "idle" /\ tw'.ver = u,
         job.state \in {"waiting", "delayed"} \/ tw'.pc \in {"generate", "read", "write"}
           => version[u].img = None,
         \A v \in Versions \ {u} :
           (tw'.pc # "idle" /\ tw'.ver = v) <=> (tw.pc # "idle" /\ tw.ver = v),
         tw'.pc # "idle" => tw'.ver = u \/ tw' = tw
  PROVE  WriterInv' /\ WorkersKeep
<1>0. textJob \in [Versions -> Jobs]
  BY DEF TypeInv, AutopilotTypeOK, TypeOK
<1>1. /\ textJob'[u] = job
      /\ \A v \in Versions : v # u => textJob'[v] = textJob[v]
  BY <1>0
<1>2. Owned'
  BY <1>1 DEF WriterInv, Owned
<1>3. WrittenOnce'
  BY <1>1 DEF WriterInv, WrittenOnce
<1>4. QED
  BY <1>1, <1>2, <1>3, VersionUntouched DEF WriterInv

LEMMA TextWorkerWritesOnce ==
  ASSUME WorkersFinish, TypeInv, ArticleInv, WriterInv, TextWorker \/ FailText
  PROVE  WriterInv' /\ WorkersKeep
<1>0. /\ tw \in TextRecs /\ version \in [Versions -> VersionRows]
      /\ textJob \in [Versions -> Jobs] /\ None \notin Images
  BY PipelineConstants DEF TypeInv, AutopilotTypeOK, TypeOK, TextRecs
<1>ver. tw.pc # "idle" => tw.ver \in Versions /\ textJob[tw.ver].state = "active"
  BY DEF TypeInv, Pointers, WriterInv, Owned
<1>idle. TextWorkerIdle.pc = "idle"
  BY DEF TextWorkerIdle
<1>1. CASE TakeText
  <2>1. PICK v \in Versions :
          /\ textJob[v].state = "waiting" /\ textJob' = [textJob EXCEPT ![v] = Taken(@)]
          /\ tw' = [TextWorkerIdle EXCEPT !.pc = "generate", !.ver = v]
          /\ tw.pc = "idle" /\ UNCHANGED version
    BY <1>1 DEF TakeText
  <2>2. Taken(textJob[v]) \in Jobs /\ Taken(textJob[v]).state = "active"
    BY <1>0 DEF Taken, Jobs, JobStates
  <2>3. tw'.pc = "generate" /\ tw'.ver = v
    BY <2>1 DEF TextWorkerIdle
  <2>4. version[v].img = None
    BY <2>1 DEF WriterInv, WrittenOnce
  <2>5. textJob' = [textJob EXCEPT ![v] = Taken(textJob[v])]
    BY <2>1
  <2>6. QED
    BY <2>1, <2>2, <2>3, <2>4, <2>5, TextJobMoves
<1>2. CASE GenerateText \/ ReadVersionOfText \/ TextProjectStatus \/ TextProjectSubstate \/ EnqueueImage
  <2>1. /\ UNCHANGED <<version, textJob>> /\ tw.pc # "idle" /\ tw'.pc # "idle" /\ tw'.ver = tw.ver
        /\ tw'.pc \in {"generate", "read", "write"} => tw.pc \in {"generate", "read", "write"}
    BY <1>0, <1>2 DEF GenerateText, ReadVersionOfText, TextProjectStatus, TextProjectSubstate,
       EnqueueImage, TextRecs
  <2>2. QED
    BY <2>1, VersionUntouched DEF WriterInv, Owned, WrittenOnce
<1>3. CASE WriteText
  <2>1. /\ tw'.pc = "status" /\ tw'.ver = tw.ver /\ UNCHANGED textJob /\ tw.pc = "write"
        /\ version' = [version EXCEPT ![tw.ver].body = tw.body, ![tw.ver].status = "ai_generated"]
    BY <1>0, <1>3 DEF WriteText, TextRecs
  <2>2. /\ version'[tw.ver].img = version[tw.ver].img
        /\ version'[tw.ver].status = "ai_generated"
        /\ \A v \in Versions : v # tw.ver => version'[v] = version[v]
    BY <1>0, <1>ver, <2>1 DEF VersionRows
  <2>3. version[tw.ver].img = None
    BY <1>ver, <2>1 DEF WriterInv, WrittenOnce
  <2>4. WriterInv'
    BY <1>ver, <2>1, <2>2 DEF WriterInv, Owned, WrittenOnce
  <2>5. WorkersKeep
    BY <1>ver, <2>1, <2>2, <2>3 DEF WorkersKeep
  <2>6. QED
    BY <2>4, <2>5
<1>4. CASE AttachImage
  <2>1. PICK i \in Images :
          /\ version' = [version EXCEPT ![tw.ver].img = i] /\ UNCHANGED textJob
          /\ tw' = [tw EXCEPT !.pc = "enqueue", !.img = i] /\ tw.pc = "attach"
    BY <1>4 DEF AttachImage, NewImage
  <2>2. tw'.pc = "enqueue" /\ tw'.ver = tw.ver
    BY <1>0, <2>1 DEF TextRecs
  <2>3. /\ version'[tw.ver].body = version[tw.ver].body
        /\ version'[tw.ver].status = version[tw.ver].status
        /\ \A v \in Versions : v # tw.ver => version'[v] = version[v]
    BY <1>0, <1>ver, <2>1 DEF VersionRows
  <2>4. WriterInv'
    BY <1>ver, <2>1, <2>2, <2>3 DEF WriterInv, Owned, WrittenOnce
  <2>5. WorkersKeep
    BY <1>ver, <2>1, <2>3 DEF WorkersKeep
  <2>6. QED
    BY <2>4, <2>5
<1>5. CASE CompleteText
  <2>1. /\ textJob' = [textJob EXCEPT ![tw.ver] = Completed(textJob[tw.ver])]
        /\ tw' = TextWorkerIdle /\ tw.pc = "complete" /\ UNCHANGED version
    BY <1>5 DEF CompleteText
  <2>2. Completed(textJob[tw.ver]) \in Jobs /\ Completed(textJob[tw.ver]).state = "done"
    BY <1>0, <1>ver, <2>1 DEF Completed, Jobs, JobStates
  <2>3. QED
    BY <1>ver, <1>idle, <2>1, <2>2, TextJobMoves
<1>6. CASE FailText
  <2>1. /\ textJob' = [textJob EXCEPT ![tw.ver] = TryFailed(textJob[tw.ver], BullAttempts)]
        /\ tw' = TextWorkerIdle /\ tw.pc = "generate" /\ UNCHANGED version
    BY <1>6 DEF FailText, Fails, WorkersFinish
  <2> DEFINE job == TryFailed(textJob[tw.ver], BullAttempts)
  <2>2. job \in Jobs /\ job.state \in {"delayed", "dead"}
    <3>1. textJob[tw.ver] \in Jobs
      BY <1>0, <1>ver, <2>1
    <3>2. job \in Jobs
      BY <3>1, PipelineJobUpdates
    <3>3. QED
      BY <3>1, <3>2 DEF TryFailed, Jobs
  <2>3. version[tw.ver].img = None
    BY <1>ver, <2>1 DEF WriterInv, WrittenOnce
  <2> HIDE DEF job
  <2>4. QED
    BY <1>ver, <1>idle, <2>1, <2>2, <2>3, TextJobMoves DEF job
<1>7. QED
  BY <1>1, <1>2, <1>3, <1>4, <1>5, <1>6 DEF TextWorker

LEMMA ImageSideWritesNothing ==
  ASSUME TypeInv, WriterInv, ImageSide
  PROVE  WriterInv' /\ WorkersKeep
<1> USE DEF ImageProcs
<1>0. version \in [Versions -> VersionRows] /\ sync \in [ImageProcs -> SyncRecs]
  BY DEF TypeInv, AutopilotTypeOK, TypeOK, SyncRecs
<1>1. UNCHANGED <<textJob, tw>>
  BY DEF ImageSide, ImageWorker, TakeImage, SaveImage, SaveVariants, ImageSync, ReadForQa,
         QaChecking, WriteQa, QaProjectStatus, QaProjectSubstate, CompleteImage, FailImage,
         Listener, MarkImageFailed
<1>2. CASE UNCHANGED version
  BY <1>1, <1>2, VersionUntouched DEF WriterInv, Owned, WrittenOnce
<1>3. ASSUME NEW p \in ImageProcs, WriteQa(p) PROVE WriterInv' /\ WorkersKeep
  <2> DEFINE row == Judged(version[sync[p].ver], Qa(sync[p].body, sync[p].hero))
  <2>1. sync[p].ver \in Versions
    BY <1>3 DEF WriteQa, TypeInv, Pointers
  <2>2. /\ row.img = version[sync[p].ver].img /\ row.body = version[sync[p].ver].body
        /\ row.status \in {"qa_passed", "qa_failed"}
    BY <1>0, <2>1 DEF VersionRows, Judged
  <2>3. version' = [version EXCEPT ![sync[p].ver] = row]
    BY <1>3 DEF WriteQa
  <2> HIDE DEF row
  <2>4. \A v \in Versions : /\ version'[v].img = version[v].img
                            /\ version'[v].body = version[v].body
                            /\ version'[v].status = "approved" => version[v].status = "approved"
    BY <1>0, <2>1, <2>2, <2>3
  <2>5. QED
    BY <1>1, <2>4 DEF WriterInv, Owned, WrittenOnce, WorkersKeep
<1>4. QED
  BY <1>2, <1>3
     DEF ImageSide, ImageWorker, TakeImage, SaveImage, SaveVariants, ImageSync, ReadForQa,
         QaChecking, QaProjectStatus, QaProjectSubstate, CompleteImage, FailImage,
         Listener, MarkImageFailed

LEMMA QueuesWriteNothing ==
  ASSUME WorkersFinish, TypeInv, WriterInv, DelayOver \/ WorkerCrash \/ RecoverStalled
  PROVE  WriterInv' /\ WorkersKeep
<1>0. textJob \in [Versions -> Jobs]
  BY DEF TypeInv, AutopilotTypeOK, TypeOK
<1>1. UNCHANGED <<version, tw>>
  BY DEF DelayOver, WorkerCrash, RecoverStalled, Fails, WorkersFinish
<1>2. CASE UNCHANGED textJob
  BY <1>1, <1>2, VersionUntouched DEF WriterInv, Owned, WrittenOnce
<1>3. ASSUME NEW v \in Versions, textJob[v].state = "delayed",
             textJob' = [textJob EXCEPT ![v] = BackoffOver(@)]
      PROVE  WriterInv' /\ WorkersKeep
  <2>1. BackoffOver(textJob[v]) \in Jobs /\ BackoffOver(textJob[v]).state = "waiting"
    BY <1>0 DEF BackoffOver, Jobs, JobStates
  <2>2. ~ (tw.pc # "idle" /\ tw.ver = v) /\ version[v].img = None
    BY <1>3 DEF WriterInv, Owned, WrittenOnce
  <2>3. QED
    BY <1>0, <1>1, <1>3, <2>1, <2>2 DEF WriterInv, Owned, WrittenOnce, WorkersKeep
<1>4. ASSUME NEW v \in Versions, textJob[v].state = "active", tw.pc = "idle" \/ tw.ver # v
      PROVE  FALSE
  BY <1>4 DEF WriterInv, Owned
<1>5. QED
  BY <1>1, <1>2, <1>3, <1>4 DEF DelayOver, WorkerCrash, RecoverStalled, Fails, WorkersFinish

\* What a request or a controller leaves: the images, what is not approved, and
\* the body of what is.
BodiesKept ==
  \A v \in Versions :
    /\ version'[v].img = version[v].img
    /\ version'[v].status = "approved" => version[v].status = "approved"
    /\ version[v].status = "approved" => version'[v].body = version[v].body

LEMMA RowKept ==
  ASSUME TypeInv, NEW u, NEW row, version' = [version EXCEPT ![u] = row],
         u \in Versions => /\ row.img = version[u].img
                           /\ row.status = "approved" => version[u].status = "approved"
                           /\ version[u].status = "approved" => row.body = version[u].body
  PROVE  BodiesKept
<1>1. version \in [Versions -> VersionRows]
  BY DEF TypeInv, AutopilotTypeOK, TypeOK
<1>2. QED
  BY <1>1 DEF BodiesKept

\* Where a step that is not a worker's may not lead: to the queueing of a text, or
\* to an edit.
Queues == {"create", "enqueue", "edit", "edited", "qa"}

\* A step that queues no text, and changes no image.
LEMMA QueueingStays ==
  ASSUME Queueing, UNCHANGED textJob, Created \subseteq Created',
         \A v \in Versions : version'[v].img = version[v].img,
         \A x \in Procs : proc'[x].pc \in {"create", "enqueue"} => proc'[x] = proc[x]
  PROVE  Queueing'
<1>1. Created \subseteq Versions
  BY DEF Created
<1>2. QED
  BY <1>1 DEF Queueing, Unqueued

LEMMA WriterStays ==
  ASSUME WriterInv, UNCHANGED <<textJob, tw>>, \A v \in Versions : version'[v].img = version[v].img
  PROVE  WriterInv'
  BY DEF WriterInv, Owned, WrittenOnce

\* The other processes know of no approval either, if nothing is approved meanwhile.
LEMMA UndecidedStays ==
  ASSUME TypeInv, Undecided, Created \subseteq Created',
         \A v \in Versions : version'[v].status = "approved" => version[v].status = "approved",
         NEW x \in Controllers, proc'[x] = proc[x], ctl'[x] = ctl[x]
  PROVE  /\ proc'[x].pc \in Rewriting => version'[ctl'[x].target].status # "approved"
         /\ proc'[x].pc = "repair" =>
              /\ proc'[x].ver \in Created'
              /\ \A v \in Versions : v >= proc'[x].ver => version'[v].status # "approved"
<1>1. proc[x].pc \in Rewriting => ctl[x].target \in Versions
  BY ControllerFacts DEF Rewriting, Trying, Held, Locked
<1>2. QED
  BY <1>1 DEF Undecided

LEMMA WorkersKeepAll ==
  ASSUME WorkersFinish, TypeInv, ArticleInv, KeptInv,
         Pipeline \/ UNCHANGED pipelineVars, UNCHANGED <<ctl, rows>>
  PROVE  /\ KeptInv'
         /\ \A v \in Versions : version[v].status = "approved" => version'[v].body = version[v].body
<1>1. WriterInv' /\ WorkersKeep
  <2>1. CASE UNCHANGED pipelineVars
    BY <2>1, VersionUntouched DEF pipelineVars, KeptInv, WriterInv, Owned, WrittenOnce
  <2>2. CASE TextWorker \/ FailText
    BY <2>2, TextWorkerWritesOnce DEF KeptInv
  <2>3. CASE ImageSide
    BY <2>3, ImageSideWritesNothing DEF KeptInv
  <2>4. CASE DelayOver \/ WorkerCrash \/ RecoverStalled
    BY <2>4, QueuesWriteNothing DEF KeptInv
  <2>5. QED
    BY <2>1, <2>2, <2>3, <2>4 DEF Pipeline, ImageSide
<1>2. RowsKept /\ UNCHANGED <<proc, ctl>>
  BY PipelineKeeps
<1>3. Queueing'
  BY <1>1, <1>2 DEF KeptInv, Queueing, Unqueued, WorkersKeep, RowsKept, Created
<1>4. Undecided'
  <2>1. \A v \in Versions : version'[v].status = "approved" => version[v].status = "approved"
    BY <1>1 DEF WorkersKeep
  <2>2. QED
    BY <1>2, <2>1, UndecidedStays DEF KeptInv, Undecided, RowsKept
<1>5. OnlyTickJudges'
  BY <1>2 DEF KeptInv, OnlyTickJudges
<1>6. \A v \in Versions : version[v].status = "approved" => version'[v].body = version[v].body
  <2>1. \A v \in Versions : version[v].status = "approved" => version[v].img # None
    BY DEF ArticleInv, Judgements, Good, HasHero, OwnImages
  <2>2. QED
    BY <1>1, <2>1 DEF WorkersKeep
<1>7. QED
  BY <1>1, <1>3, <1>4, <1>5, <1>6 DEF KeptInv

\* A controller's own step rewrites only what was not approved.
LEMMA ControlsKeepBodies ==
  ASSUME TypeInv, Undecided, NEW x \in Controllers, Controls(x)
  PROVE  BodiesKept /\ UNCHANGED <<textJob, tw>>
<1>0. /\ x \in Procs /\ proc[x] \in ProcRecs /\ version \in [Versions -> VersionRows]
      /\ ctl[x] \in CtlRecs
  BY ControllerFacts
<1>1. UNCHANGED <<textJob, tw>>
  BY DEF Controls, Looks, TickReads, RecoveryReads, WriteWaiting, Plan, Hopeless,
         RetryImage, Rewrite, RepairRereads, RepairedProject, MarkIntervention,
         RepairPassed, WriteAutoApproved, RowsCreated, RepairThrows, RepairReads,
         ClaimRepair, GiveUp, StoreRepair, JudgeRepair, FindMissing, CreateRow,
         ControllerEnds, ControllerDies, PipelineUnchanged
<1> DEFINE v == ctl[x].target
<1>2. CASE UNCHANGED version
  BY <1>1, <1>2 DEF BodiesKept
<1>3. CASE version' = [version EXCEPT ![v].lock = "held"]
  <2>1. version' = [version EXCEPT ![v] = [version[v] EXCEPT !.lock = "held"]]
    BY <1>3
  <2> DEFINE row == [version[v] EXCEPT !.lock = "held"]
  <2>2. v \in Versions => row.img = version[v].img /\ row.status = version[v].status
                          /\ row.body = version[v].body
    BY <1>0 DEF VersionRows
  <2> HIDE DEF row
  <2>3. QED
    BY <1>1, <2>1, <2>2, RowKept DEF row
<1>4. CASE GiveUp(x)
  <2> DEFINE tries == version[v].tries + 1
             row == [version[v] EXCEPT !.lock = "free", !.tries = tries]
  <2>0. v \in Versions
    BY <1>4, ControllerFacts DEF GiveUp, Trying, Held, Locked
  <2>1. version' = [version EXCEPT ![v] = row]
    BY <1>0, <1>4, <2>0 DEF GiveUp
  <2> HIDE DEF tries
  <2>2. v \in Versions => row.img = version[v].img /\ row.status = version[v].status
                          /\ row.body = version[v].body
    BY <1>0 DEF VersionRows
  <2> HIDE DEF row
  <2>3. QED
    BY <1>1, <2>1, <2>2, RowKept
<1>5. CASE StoreRepair(x)
  <2> DEFINE tries == version[v].tries + 1
             row == [version[v] EXCEPT !.body = proc[x].body, !.tries = tries]
  <2>0. v \in Versions
    BY <1>5, ControllerFacts DEF StoreRepair, Trying, Held, Locked
  <2>1. version' = [version EXCEPT ![v] = row]
    BY <1>0, <1>5, <2>0 DEF StoreRepair
  <2> HIDE DEF tries
  <2>2. v \in Versions => row.img = version[v].img /\ row.status = version[v].status
    BY <1>0 DEF VersionRows
  <2>3. version[v].status # "approved"
    BY <1>5 DEF StoreRepair, Undecided, Rewriting
  <2> HIDE DEF row
  <2>4. QED
    BY <1>1, <2>1, <2>2, <2>3, RowKept
<1>6. CASE JudgeRepair(x)
  <2> DEFINE row == Judged(Unlocked(version[v]), RepairReport(x))
  <2>1. version' = [version EXCEPT ![v] = row]
    BY <1>0, <1>6 DEF JudgeRepair
  <2>2. v \in Versions => /\ row.img = version[v].img /\ row.body = version[v].body
                          /\ row.status \in {"qa_passed", "qa_failed"}
    BY <1>0 DEF VersionRows, Judged, Unlocked
  <2> HIDE DEF row
  <2>3. QED
    BY <1>1, <2>1, <2>2, RowKept
<1>7. QED
  BY <1>2, <1>3, <1>4, <1>5, <1>6
     DEF Controls, Looks, TickReads, RecoveryReads, WriteWaiting, Plan, Hopeless, RetryImage,
         Rewrite, RepairRereads, RepairedProject, MarkIntervention, RepairPassed,
         WriteAutoApproved, RowsCreated, RepairThrows, RepairReads, ClaimRepair, FindMissing,
         CreateRow, ControllerEnds, ControllerDies

\* Where it leads: it takes up a version that it has just read and nobody approved.
LEMMA ControlsUndecided ==
  ASSUME OneTick, TypeInv, Undecided, NEW x \in Controllers, Controls(x)
  PROVE  /\ proc'[x].pc \notin Queues
         /\ proc'[x].pc \in Rewriting =>
              \/ proc[x].pc \in Rewriting /\ ctl'[x] = ctl[x]
              \/ ctl'[x].target \in Versions /\ version[ctl'[x].target].status # "approved"
         /\ proc'[x].pc = "repair" =>
              /\ proc'[x].ver \in Created
              /\ \A v \in Versions : v >= proc'[x].ver => version[v].status # "approved"
<1>0. /\ x \in Procs /\ proc[x] \in ProcRecs /\ proc \in [Procs -> ProcRecs]
      /\ ctl \in [Controllers -> CtlRecs]
  BY ControllerFacts
<1>goto. ASSUME NEW pc \in ProcSteps, Goto(x, pc) PROVE proc'[x].pc = pc
  BY <1>0, <1>goto, GotoKeeps
<1> USE DEF Queues, Rewriting
<1>1. CASE \/ WriteWaiting(x) \/ MarkIntervention(x) \/ WriteAutoApproved(x) \/ JudgeRepair(x)
           \/ RowsCreated(x) \/ RepairedProject(x) \/ RepairPassed(x) \/ GiveUp(x) \/ FindMissing(x)
           \/ StoreRepair(x) \/ RepairThrows(x) \/ Hopeless(x)
  <2>1. PICK pc \in {"end", "ensure", "repaired", "passed", "exhausted", "approve",
                     "create_rows", "give_up", "fresh"} : Goto(x, pc)
    BY <1>1 DEF WriteWaiting, MarkIntervention, WriteAutoApproved, JudgeRepair, RowsCreated,
       RepairedProject, RepairPassed, GiveUp, StoreRepair, RepairThrows, FindMissing, Hopeless
  <2>2. QED
    BY <1>goto, <2>1 DEF ProcSteps
<1>2. CASE ClaimRepair(x) \/ Plan(x) \/ RetryImage(x)
  <2>1. PICK pc \in {"end", "plan", "hopeless", "image", "rewrite", "requeue"} : Goto(x, pc)
    BY <1>2 DEF ClaimRepair, Plan, RetryImage
  <2>2. proc'[x].pc = pc
    BY <1>goto, <2>1 DEF ProcSteps
  <2>3. proc[x].pc \in Rewriting /\ UNCHANGED ctl
    BY <1>2 DEF ClaimRepair, Plan, RetryImage
  <2>4. QED
    BY <2>2, <2>3
<1>3. CASE Rewrite(x) \/ RepairRereads(x)
  <2>1. proc'[x].pc \in {"store", "judge"} /\ UNCHANGED ctl
    BY <1>0, <1>3 DEF Rewrite, RepairRereads, ProcRecs
  <2>2. proc'[x].pc = "store" => proc[x].pc = "rewrite"
    BY <1>0, <1>3 DEF Rewrite, RepairRereads, ProcRecs
  <2>3. QED
    BY <2>1, <2>2
<1>4. CASE RepairReads(x)
  <2>1. proc'[x].pc \in {"passed", "intervention", "claim"} /\ ctl'[x].target = Latest
        /\ proc[x].pc = "repair"
    BY <1>0, <1>4 DEF RepairReads, ProcRecs, CtlRecs
  <2>2. proc[x].ver \in Created /\ \A v \in Versions : v >= proc[x].ver => version[v].status # "approved"
    BY <2>1 DEF Undecided
  <2>3. Latest \in Versions /\ Latest >= proc[x].ver
    <3>1. Created # {} /\ Created \subseteq Versions
      BY <2>2 DEF Created
    <3>2. \E v \in Created : \A u \in Created : u <= v
      BY <3>1, HighestVersion
    <3>3. Latest \in Created /\ \A u \in Created : u <= Latest
      BY <3>1, <3>2 DEF Latest
    <3>4. QED
      BY <2>2, <3>1, <3>3 DEF Versions
  <2>4. QED
    BY <2>1, <2>2, <2>3
<1>5. CASE TickReads(x)
  <2>1. CASE Latest = 0
    <3>1. Snapshot(x, "tick", "number")
      BY <1>5, <2>1 DEF TickReads
    <3>2. proc'[x].pc = "number"
      BY <1>0, <3>1 DEF Snapshot, ProcIdle
    <3>3. QED
      BY <3>2
  <2>2. CASE Latest # 0
    <3>1. version[Latest].status \in VersionStatus \ {"none"} /\ Latest \in Created
          /\ Created \subseteq Versions
      BY <2>2, SeenLatest, LatestCreated
    <3>2. \E pc \in {"substate", "repair", "approve", "ensure"} :
            Snapshot(x, "tick", pc) /\ (pc = "repair" => version[Latest].status # "approved")
      BY <1>5, <2>2, <3>1 DEF TickReads, VersionStatus
    <3>3. PICK pc \in {"substate", "repair", "approve", "ensure"} :
            Snapshot(x, "tick", pc) /\ (pc = "repair" => version[Latest].status # "approved")
      BY <3>2
    <3>4. proc'[x].pc = pc /\ proc'[x].ver = Latest
      BY <1>0, <3>3 DEF Snapshot, ProcIdle
    <3>5. \A v \in Created : v <= Latest
      <4>1. \E v \in Created : \A u \in Created : u <= v
        BY <3>1, HighestVersion
      <4>2. QED
        BY <3>1, <4>1 DEF Latest
    <3>6. ASSUME NEW v \in Versions, v >= Latest, version[Latest].status # "approved"
          PROVE  version[v].status # "approved"
      <4>1. CASE v = Latest
        BY <3>6, <4>1
      <4>2. CASE v # Latest
        <5>1. v \notin Created
          BY <3>1, <3>5, <3>6, <4>2 DEF Versions
        <5>2. QED
          BY <3>6, <5>1 DEF Created
      <4>3. QED
        BY <4>1, <4>2
    <3>7. QED
      BY <3>1, <3>3, <3>4, <3>6
  <2>3. QED
    BY <2>1, <2>2
<1>6. CASE ControllerEnds(x) \/ ControllerDies(x)
  <2>1. PICK pc \in {"idle", "done"} : proc' = [proc EXCEPT ![x] = [ProcIdle EXCEPT !.pc = pc]]
    BY <1>6 DEF ControllerEnds, ControllerDies
  <2>2. proc'[x].pc = pc
    BY <1>0, <2>1 DEF ProcIdle
  <2>3. QED
    BY <2>2
<1>7. CASE CreateRow(x)
  BY <1>7 DEF CreateRow
<1>8. ~ RecoveryReads(x)
  BY DEF OneTick, RecoveryReads
<1>9. QED
  BY <1>1, <1>2, <1>3, <1>4, <1>5, <1>6, <1>7, <1>8 DEF Controls, Looks

\* A call takes up nothing that it was not rewriting before.
LEMMA CallUndecided ==
  ASSUME TypeInv, Undecided, Created \subseteq Created', UNCHANGED ctl, NEW x \in Procs,
         \A v \in Versions : version'[v].status = "approved" => version[v].status = "approved",
         \A y \in Procs : y # x => proc'[y] = proc[y],
         proc'[x].pc \in Rewriting => proc[x].pc \in Rewriting, proc'[x].pc # "repair"
  PROVE  Undecided'
<1>0. Controllers \subseteq Procs
  BY AutopilotConstants
<1>1. ASSUME NEW y \in Controllers, y # x
      PROVE  /\ proc'[y].pc \in Rewriting => version'[ctl'[y].target].status # "approved"
             /\ proc'[y].pc = "repair" =>
                  /\ proc'[y].ver \in Created'
                  /\ \A v \in Versions : v >= proc'[y].ver => version'[v].status # "approved"
  BY <1>0, <1>1, UndecidedStays
<1>2. ASSUME NEW y \in Controllers, y = x, proc'[y].pc \in Rewriting
      PROVE  version'[ctl'[y].target].status # "approved"
  <2>1. ctl[y].target \in Versions /\ version[ctl[y].target].status # "approved"
    BY <1>2, ControllerFacts DEF Undecided, Rewriting, Trying, Held, Locked
  <2>2. QED
    BY <2>1
<1>3. QED
  BY <1>1, <1>2 DEF Undecided

\* The steps of a call that write neither a version nor the job of a text.
LEMMA CallMovesOn ==
  ASSUME NobodyJudges, TypeInv, KeptInv, NEW x \in Procs, Request(x),
         x \in Controllers => CallGoesOn(x), UNCHANGED ctl,
         ~ CreateVersion(x), ~ EnqueueText(x), ~ ApproveVersion(x)
  PROVE  KeptInv' /\ BodiesKept
<1>0. proc[x] \in ProcRecs /\ proc \in [Procs -> ProcRecs]
  BY DEF TypeInv, AutopilotTypeOK, TypeOK, ProcRecs
<1>1. /\ proc[x].pc \notin {"edit", "edited", "qa"}
      /\ ~ EditRead(x) /\ ~ ApproveRead(x) /\ ~ AssetRequest(x)
  BY DEF KeptInv, OnlyTickJudges, NobodyJudges, EditRead, ApproveRead, AssetRequest
<1>2. UNCHANGED <<version, textJob, tw>>
  BY <1>1 DEF Request, RequestBegins, RequestGenerate, RetryImageRead,
         RequestEnds, CallGoesOn, Generation, ReadLatestNumber, ProjectDraft,
         ProjectGenerating, EditWrite, EditReadProject, EditQa, EditProjectStatus,
         ApproveProject, RequeueImage, RequeueImageJob
<1>3. \A y \in Procs : y # x => proc'[y] = proc[y]
  BY RequestLeads, CallGoesOnLeads DEF Request, CallLeads
<1>4. /\ proc'[x].pc \notin {"edit", "edited", "qa", "enqueue", "approve", "repair"}
      /\ proc'[x].pc = "create" => proc'[x].ver \in Versions
      /\ proc'[x].pc \in Rewriting => proc[x].pc \in Rewriting \/ x \notin Controllers
  <2>1. CASE ProjectDraft(x) \/ ProjectGenerating(x) \/ EditProjectStatus(x) \/ ApproveProject(x)
    <3>1. PICK pc \in {"generating", "regenerating", "end", "approved"} : Goto(x, pc)
      BY <2>1 DEF ProjectDraft, ProjectGenerating, EditProjectStatus, ApproveProject
    <3>2. proc'[x].pc = pc
      BY <3>1, GotoKeeps DEF ProcSteps
    <3>3. QED
      BY <3>2 DEF Rewriting
  <2>2. CASE RequeueImage(x) \/ RequeueImageJob(x)
    <3>1. PICK pc \in {"add_image", "end", "rewrite"} : Goto(x, pc)
      BY <2>2 DEF RequeueImage, RequeueImageJob
    <3>2. proc'[x].pc = pc
      BY <3>1, GotoKeeps DEF ProcSteps
    <3>3. QED
      BY <2>2, <3>2 DEF Rewriting, RequeueImage, RequeueImageJob
  <2>3. CASE ReadLatestNumber(x)
    <3>1. proc'[x].ver = Latest + 1 /\ proc'[x].pc \in {"create", "end"}
          /\ (proc'[x].pc = "create" => Latest < MaxVersions)
      BY <1>0, <2>3 DEF ReadLatestNumber, ProcRecs
    <3>2. Latest \in Nat /\ MaxVersions \in Nat
      BY LatestCreated, PipelineConstants
    <3>3. Latest < MaxVersions => Latest + 1 \in Versions
      BY <3>2 DEF Versions
    <3>4. QED
      BY <3>1, <3>3 DEF Rewriting
  <2>4. CASE RequestGenerate(x) \/ RetryImageRead(x) \/ RequestEnds(x)
    <3>1. CASE RequestGenerate(x)
      <4>1. proc'[x].pc = "number"
        BY <1>0, <3>1 DEF RequestGenerate, ProcRecs
      <4>2. QED
        BY <4>1 DEF Rewriting
    <3>2. CASE RequestEnds(x)
      <4>1. proc'[x].pc = "done"
        BY <1>0, <3>2 DEF RequestEnds, ProcIdle
      <4>2. QED
        BY <4>1 DEF Rewriting
    <3>3. CASE RetryImageRead(x)
      <4>1. proc'[x].pc = "requeue" /\ proc[x].pc = "idle"
        BY <1>0, <3>3 DEF RetryImageRead, ProcRecs
      <4>2. ~ CallGoesOn(x)
        BY <4>1 DEF CallGoesOn, Generation, ReadLatestNumber, CreateVersion, EnqueueText, ProjectDraft,
           ProjectGenerating, EditWrite, EditReadProject, EditQa, EditProjectStatus,
           ApproveVersion, ApproveProject, RequeueImage, RequeueImageJob
      <4>3. QED
        BY <4>1, <4>2 DEF Rewriting
    <3>4. QED
      BY <2>4, <3>1, <3>2, <3>3
  <2>5. QED
    BY <1>1, <2>1, <2>2, <2>3, <2>4
       DEF Request, RequestBegins, CallGoesOn, Generation, EditWrite, EditReadProject, EditQa
<1>5. WriterInv' /\ BodiesKept
  BY <1>2, WriterStays DEF KeptInv, BodiesKept
<1>6. Queueing'
  BY <1>2, <1>3, <1>4 DEF KeptInv, Queueing, Unqueued, Created
<1>7. Undecided'
  <2>1. CASE x \in Controllers
    BY <1>2, <1>3, <1>4, <2>1, CallUndecided DEF KeptInv, Created
  <2>2. CASE x \notin Controllers
    <3>1. \A y \in Controllers : proc'[y] = proc[y] /\ ctl'[y] = ctl[y]
      BY <1>3, <2>2, AutopilotConstants
    <3>2. QED
      BY <1>2, <3>1, UndecidedStays DEF KeptInv, Undecided, Created
  <2>3. QED
    BY <2>1, <2>2
<1>8. OnlyTickJudges'
  BY <1>3, <1>4 DEF KeptInv, OnlyTickJudges, Operators
<1>9. QED
  BY <1>5, <1>6, <1>7, <1>8 DEF KeptInv

LEMMA CreateKeeps ==
  ASSUME TypeInv, ArticleInv, KeptInv, NEW x \in Procs, CreateVersion(x), UNCHANGED ctl
  PROVE  KeptInv' /\ BodiesKept
<1>0. /\ proc[x] \in ProcRecs /\ version \in [Versions -> VersionRows]
      /\ Created \subseteq Versions
  BY DEF TypeInv, AutopilotTypeOK, TypeOK, ProcRecs, Created
<1> DEFINE v == proc[x].ver
           row == [NoVersion EXCEPT !.status = "draft"]
<1>1. v \in Versions /\ UNCHANGED <<textJob, tw>>
  BY DEF KeptInv, Queueing, CreateVersion
<1>row. row.status = "draft" /\ row.img = None /\ None \notin Images
  BY PipelineConstants DEF NoVersion
<1>3. PICK pc \in {"end", "enqueue"} :
        /\ Goto(x, pc)
        /\ pc = "enqueue" => version' = [version EXCEPT ![v] = row] /\ version[v].status = "none"
        /\ pc = "end" => UNCHANGED version
  BY DEF CreateVersion
<1>4. /\ proc'[x].pc = pc /\ proc'[x].ver = v
      /\ \A y \in Procs : y # x => proc'[y] = proc[y]
  BY <1>3, GotoMoves DEF ProcSteps, TypeInv
<1> HIDE DEF row
<1>5. pc = "enqueue" => /\ version'[v] = row /\ v \notin Created /\ textJob[v].state = "none"
                        /\ version[v].img = None
  BY <1>0, <1>1, <1>3 DEF Created, KeptInv, Queueing, ArticleInv, OwnImages
<1>6. \A u \in Versions : /\ u # v \/ pc = "end" => version'[u] = version[u]
                          /\ version'[u].img = version[u].img
                          /\ version'[u].status = "approved" => version[u].status = "approved"
                          /\ version[u].status = "approved" => version'[u].body = version[u].body
  BY <1>0, <1>1, <1>3, <1>5, <1>row
<1>7. Created \subseteq Created' /\ (pc = "enqueue" => v \in Created')
  BY <1>1, <1>5, <1>6, <1>row DEF Created
<1>8. WriterInv' /\ BodiesKept
  BY <1>1, <1>6, WriterStays DEF KeptInv, BodiesKept
<1>9. Queueing'
  <2>1. CASE pc = "end"
    BY <1>1, <1>4, <1>6, <1>7, <2>1, QueueingStays DEF KeptInv
  <2>2. CASE pc = "enqueue"
    <3>1. \A u \in Versions : textJob'[u].state # "none" => u \in Created'
      BY <1>1, <1>7 DEF KeptInv, Queueing
    <3>2. \A y \in Procs : proc'[y].pc = "create" => proc'[y].ver \in Versions
      BY <1>4, <2>2 DEF KeptInv, Queueing
    <3>3. ASSUME NEW y \in Procs, proc'[y].pc = "enqueue" PROVE Unqueued(proc[y].ver)' /\ proc'[y].ver = proc[y].ver
                                                                 /\ (y # x => proc[y].ver # v)
      <4>1. CASE y = x
        BY <1>1, <1>4, <1>5, <1>6, <1>7, <2>2, <4>1 DEF Unqueued
      <4>2. CASE y # x
        <5>1. proc'[y] = proc[y] /\ Unqueued(proc[y].ver)
          BY <1>4, <3>3, <4>2 DEF KeptInv, Queueing
        <5>2. QED
          BY <1>0, <1>1, <1>5, <1>6, <1>7, <2>2, <5>1 DEF Unqueued
      <4>3. QED
        BY <4>1, <4>2
    <3>4. \A y \in Procs : proc'[y].pc = "enqueue" => Unqueued(proc[y].ver)'
      BY <3>3 DEF Unqueued
    <3>5. \A y, z \in Procs : proc'[y].pc = "enqueue" /\ proc'[z].pc = "enqueue" /\ y # z =>
            proc'[y].ver # proc'[z].ver
      BY <1>4, <3>3 DEF KeptInv, Queueing
    <3>6. QED
      BY <3>1, <3>2, <3>4, <3>5 DEF Queueing
  <2>3. QED
    BY <2>1, <2>2
<1>10. Undecided'
  BY <1>4, <1>6, <1>7, CallUndecided DEF KeptInv, Rewriting
<1>11. OnlyTickJudges'
  BY <1>4 DEF KeptInv, OnlyTickJudges, Operators
<1>12. QED
  BY <1>8, <1>9, <1>10, <1>11 DEF KeptInv

LEMMA EnqueueKeeps ==
  ASSUME TypeInv, KeptInv, NEW x \in Procs, EnqueueText(x), UNCHANGED ctl
  PROVE  KeptInv' /\ BodiesKept
<1>0. /\ proc[x] \in ProcRecs /\ textJob \in [Versions -> Jobs] /\ Created \subseteq Versions
      /\ None \notin Images
  BY PipelineConstants DEF TypeInv, AutopilotTypeOK, TypeOK, ProcRecs, Created
<1> DEFINE v == proc[x].ver
<1>1. Unqueued(v) /\ UNCHANGED <<version, tw>> /\ Goto(x, "draft")
      /\ textJob' = [textJob EXCEPT ![v] = Added(textJob[v])]
  BY DEF KeptInv, Queueing, EnqueueText
<1>2. v \in Versions /\ v \in Created /\ textJob[v].state = "none" /\ version[v].img = None
  BY <1>0, <1>1 DEF Unqueued
<1>3. /\ proc'[x].pc = "draft"
      /\ \A y \in Procs : y # x => proc'[y] = proc[y]
  BY <1>1, GotoMoves DEF ProcSteps, TypeInv
<1>4. /\ textJob'[v].state = "waiting"
      /\ \A u \in Versions : u # v => textJob'[u] = textJob[u]
  <2>1. textJob'[v] = Added(textJob[v])
    BY <1>0, <1>1, <1>2
  <2>2. textJob[v] \in Jobs
    BY <1>0, <1>2
  <2>3. QED
    BY <1>0, <1>1, <2>1, <2>2 DEF Added, Jobs
<1>5. WriterInv'
  <2>1. ~ (tw.pc # "idle" /\ tw.ver = v)
    BY <1>2 DEF KeptInv, WriterInv, Owned
  <2>2. Owned'
    BY <1>1, <1>2, <1>4, <2>1 DEF KeptInv, WriterInv, Owned
  <2>3. WrittenOnce'
    BY <1>1, <1>2, <1>4 DEF KeptInv, WriterInv, WrittenOnce
  <2>4. QED
    BY <2>2, <2>3 DEF WriterInv
<1>6. Queueing'
  <2>1. ASSUME NEW y \in Procs, proc'[y].pc = "enqueue"
        PROVE  proc'[y] = proc[y] /\ y # x /\ proc[y].ver # v /\ Unqueued(proc[y].ver)
    BY <1>3, <2>1, x \in Procs DEF KeptInv, Queueing, EnqueueText
  <2>2. Created' = Created
    BY <1>1 DEF Created
  <2>3. \A u \in Versions : textJob'[u].state # "none" => u \in Created'
    BY <1>2, <1>4, <2>2 DEF KeptInv, Queueing
  <2>4. \A y \in Procs : proc'[y].pc = "enqueue" => Unqueued(proc[y].ver)'
    BY <1>0, <1>1, <1>4, <2>1, <2>2 DEF Unqueued
  <2>5. \A y \in Procs : proc'[y].pc = "create" => proc'[y].ver \in Versions
    BY <1>3 DEF KeptInv, Queueing
  <2>6. QED
    BY <2>1, <2>3, <2>4, <2>5 DEF KeptInv, Queueing
<1>7. Undecided'
  BY <1>1, <1>3, CallUndecided DEF KeptInv, Rewriting, Created
<1>8. OnlyTickJudges' /\ BodiesKept
  BY <1>1, <1>3 DEF KeptInv, OnlyTickJudges, BodiesKept, Operators
<1>9. QED
  BY <1>5, <1>6, <1>7, <1>8 DEF KeptInv

\* The approval itself: its controller is rewriting nothing then, and there is no other.
LEMMA ApprovalKeeps ==
  ASSUME OneTick, TypeInv, KeptInv, NEW x \in Procs, ApproveVersion(x), UNCHANGED ctl
  PROVE  /\ KeptInv'
         /\ \A v \in Versions : version[v].status = "approved" => version'[v].body = version[v].body
<1>0. /\ proc[x] \in ProcRecs /\ version \in [Versions -> VersionRows]
      /\ Created \subseteq Versions
  BY DEF TypeInv, AutopilotTypeOK, TypeOK, ProcRecs, Created
<1>1. /\ version' = [version EXCEPT ![proc[x].ver] = [version[proc[x].ver] EXCEPT !.status = "approved"]]
      /\ UNCHANGED <<textJob, tw>> /\ Goto(x, "approve_project") /\ proc[x].pc = "approve"
  BY <1>0 DEF ApproveVersion
<1> DEFINE row == [version[proc[x].ver] EXCEPT !.status = "approved"]
<1>2. proc[x].ver \in Versions =>
        /\ row.img = version[proc[x].ver].img /\ row.body = version[proc[x].ver].body
        /\ row.status = "approved"
  BY <1>0 DEF VersionRows
<1> HIDE DEF row
<1>3. /\ \A v \in Versions : /\ version'[v].img = version[v].img
                             /\ version'[v].body = version[v].body
      /\ Created \subseteq Created'
  BY <1>0, <1>1, <1>2 DEF Created, row
<1>4. /\ proc'[x].pc = "approve_project"
      /\ \A y \in Procs : y # x => proc'[y] = proc[y]
  BY <1>1, GotoMoves DEF ProcSteps, TypeInv
<1>5. \A y \in Controllers : y = x
  BY <1>1 DEF OneTick, OneController, KeptInv, OnlyTickJudges, Operators
<1>6. Undecided'
  BY <1>4, <1>5 DEF Undecided, Rewriting
<1>7. Queueing' /\ WriterInv'
  BY <1>1, <1>3, <1>4, QueueingStays, WriterStays DEF KeptInv
<1>8. OnlyTickJudges'
  BY <1>4 DEF KeptInv, OnlyTickJudges, Operators
<1>9. QED
  BY <1>3, <1>6, <1>7, <1>8 DEF KeptInv

LEMMA KeptInvNext ==
  ASSUME OneTick, NobodyJudges, WorkersFinish, TypeInv, ArticleInv, KeptInv, [Next]_vars
  PROVE  /\ KeptInv'
         /\ \A v \in Versions : version[v].status = "approved" => version'[v].body = version[v].body
<1>1. CASE (Pipeline \/ UNCHANGED pipelineVars) /\ UNCHANGED <<ctl, rows>>
  BY <1>1, WorkersKeepAll
<1>2. ASSUME NEW x \in Procs, Request(x), x \in Controllers => CallGoesOn(x), UNCHANGED ctl
      PROVE  /\ KeptInv'
             /\ \A v \in Versions : version[v].status = "approved" => version'[v].body = version[v].body
  BY <1>2, CallMovesOn, CreateKeeps, EnqueueKeeps, ApprovalKeeps DEF BodiesKept
<1>3. CASE \E x \in Operators : Request(x) /\ UNCHANGED <<ctl, rows>>
  BY <1>2, <1>3 DEF Operators
<1>4. CASE \E x \in Controllers : CallGoesOn(x) /\ UNCHANGED <<ctl, rows>>
  BY <1>2, <1>4, AutopilotConstants DEF Request
<1>5. ASSUME NEW x \in Controllers, Controls(x)
      PROVE  KeptInv' /\ BodiesKept
  <2>0. x \in Procs
    BY ControllerFacts
  <2>1. BodiesKept /\ UNCHANGED <<textJob, tw>>
    BY <1>5, ControlsKeepBodies DEF KeptInv
  <2>2. /\ \A y \in Procs : y # x => proc'[y] = proc[y]
        /\ \A y \in Controllers : y = x
        /\ Created \subseteq Created'
    BY <1>5, ControlsLed, ControlsRows DEF Led, OneTick, OneController
  <2>3. /\ proc'[x].pc \notin Queues
        /\ proc'[x].pc \in Rewriting =>
              \/ proc[x].pc \in Rewriting /\ ctl'[x] = ctl[x]
              \/ ctl'[x].target \in Versions /\ version[ctl'[x].target].status # "approved"
        /\ proc'[x].pc = "repair" =>
              /\ proc'[x].ver \in Created
              /\ \A v \in Versions : v >= proc'[x].ver => version[v].status # "approved"
    BY <1>5, ControlsUndecided DEF KeptInv
  <2>4. WriterInv' /\ Queueing'
    BY <2>1, <2>2, <2>3, WriterStays, QueueingStays DEF KeptInv, BodiesKept, Queues
  <2>5. proc[x].pc \in Rewriting => ctl[x].target \in Versions /\ version[ctl[x].target].status # "approved"
    BY ControllerFacts DEF KeptInv, Undecided, Rewriting, Trying, Held, Locked
  <2>6. Undecided'
    BY <2>1, <2>2, <2>3, <2>5 DEF Undecided, BodiesKept
  <2>7. OnlyTickJudges'
    BY <2>0, <2>2, <2>3 DEF KeptInv, OnlyTickJudges, Queues, Operators
  <2>8. QED
    BY <2>1, <2>4, <2>6, <2>7 DEF KeptInv
<1>6. CASE LockExpires \/ WatchdogReleases
  <2>1. PICK v \in Created, lock \in {"expired", "free"} :
          version' = [version EXCEPT ![v] = [version[v] EXCEPT !.lock = lock]]
    BY <1>6 DEF LockExpires, WatchdogReleases, Unlocked
  <2>2. UNCHANGED <<textJob, tw, proc, ctl>> /\ Created' = Created
    BY <1>6, LockWritten DEF LockExpires, WatchdogReleases, PipelineUnchanged
  <2> DEFINE row == [version[v] EXCEPT !.lock = lock]
  <2>3. v \in Versions => row.img = version[v].img /\ row.status = version[v].status
                          /\ row.body = version[v].body
    <3>1. v \in Versions => version[v] \in VersionRows
      BY DEF TypeInv, AutopilotTypeOK, TypeOK
    <3>2. QED
      BY <3>1 DEF VersionRows
  <2> HIDE DEF row
  <2>4. BodiesKept
    BY <2>1, <2>3, RowKept DEF row
  <2>5. Queueing' /\ WriterInv'
    BY <2>2, <2>4, QueueingStays, WriterStays DEF KeptInv, BodiesKept
  <2>6. Undecided' /\ OnlyTickJudges'
    BY <2>2, <2>4, UndecidedStays DEF KeptInv, Undecided, OnlyTickJudges, BodiesKept
  <2>7. QED
    BY <2>4, <2>5, <2>6 DEF KeptInv, BodiesKept
<1>7. QED
  BY <1>1, <1>3, <1>4, <1>5, <1>6, StepCases DEF BodiesKept

\* While one tick brings the article on, operators ask for new versions and retry
\* failed images, and every job of the workers ends: what the tick approved, nobody
\* rewrites - no late text, no repair begun before, no QA that had read it.
THEOREM ApprovedBodyAlwaysKept ==
  ASSUME OneTick, NobodyJudges, WorkersFinish
  PROVE  Spec => ApprovedBodyKept
<1>1. Init => KeptInv
  BY AutopilotConstants
     DEF Init, PipelineInit, ProcIdle, TextWorkerIdle, NoVersion, NoJob, Created, KeptInv,
         WriterInv, Owned, WrittenOnce, Queueing, Undecided, OnlyTickJudges, Operators, Rewriting
<1>2. TypeInv /\ ArticleInv /\ KeptInv /\ [Next]_vars => KeptInv'
  BY KeptInvNext
<1>3. TypeInv /\ ArticleInv /\ KeptInv /\ [Next]_vars =>
        [\A v \in Versions : version[v].status = "approved" => version'[v].body = version[v].body]_vars
  BY KeptInvNext
<1>4. OneArticle
  BY DEF OneTick, OneArticle
<1>5. Spec => [](TypeInv /\ ArticleInv)
  BY <1>4, ArticleAlways
<1>6. QED
  BY <1>1, <1>2, <1>3, <1>5, PTL DEF Spec, ApprovedBodyKept
=============================================================================
