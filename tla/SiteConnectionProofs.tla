------------------------ MODULE SiteConnectionProofs ------------------------
(***************************************************************************)
(* Theorems of SiteConnection, for every value of its constants.           *)
(***************************************************************************)
EXTENDS SiteConnection, TLAPS

-----------------------------------------------------------------------------
(* What the updates of a job and of the listeners' counters return *)

LEMMA ConnectionJobUpdates ==
  ASSUME NEW job \in Jobs
  PROVE  /\ Added(job) \in Jobs
         /\ Taken(job) \in Jobs
         /\ Completed(job) \in Jobs
         /\ BackoffOver(job) \in Jobs
         /\ TryFailed(job, BullAttempts) \in Jobs
         /\ Stalled(job, MaxStalls) \in Jobs
<1> DEFINE tries == job.tries + 1
           stalls == job.stalls + 1
<1>1. tries \in Nat /\ stalls \in Nat
  BY DEF Jobs
<1>2. TryFailed(job, BullAttempts) =
        [job EXCEPT !.tries = tries,
                    !.state = IF tries < BullAttempts THEN "delayed" ELSE "dead"]
  BY DEF TryFailed, Jobs
<1>3. Stalled(job, MaxStalls) =
        [job EXCEPT !.stalls = stalls,
                    !.state = IF stalls > MaxStalls THEN "dead" ELSE "waiting"]
  BY DEF Stalled, Jobs
<1> HIDE DEF tries, stalls
<1>4. TryFailed(job, BullAttempts) \in Jobs /\ Stalled(job, MaxStalls) \in Jobs
  BY <1>1, <1>2, <1>3 DEF Jobs, JobStates
<1>5. QED
  BY <1>4 DEF Jobs, JobStates, Added, Taken, Completed, BackoffOver

LEMMA ListenerUpdates ==
  ASSUME NEW h \in Listeners
  PROVE  /\ \A n \in Nat : /\ [h EXCEPT !.failedRead = n] \in Listeners
                           /\ [h EXCEPT !.failedWrite = n] \in Listeners
                           /\ [h EXCEPT !.doneRead = n] \in Listeners
                           /\ [h EXCEPT !.doneWrite = n] \in Listeners
         /\ \A n, m \in Nat : /\ [h EXCEPT !.failedRead = n, !.failedWrite = m] \in Listeners
                              /\ [h EXCEPT !.doneRead = n, !.doneWrite = m] \in Listeners
  BY DEF Listeners

LEMMA FixedTypes ==
  /\ NoRequest \in ReqStates /\ Idle \in Runs /\ Quiet \in Listeners /\ NoOp \in OpRows
  /\ \A kind \in AllKinds : kind \in DOMAIN Wants => Wants[kind] \in States
  BY ConnectionConstants
     DEF NoRequest, ReqStates, ReqSteps, InstRows, AllKinds, Idle, Runs, RunSteps, Quiet,
         Listeners, NoOp, OpRows, NoJob, Jobs, JobStates, JobKinds, Wants, States, Secrets

-----------------------------------------------------------------------------
(* Types.  A transition is only written to a state that was named, and only *)
(* a verification names "ready".                                             *)

Targets ==
  /\ \A x \in Requests : req[x].pc \in {"read", "write"} =>
       req[x].to \in {"discovering", "verifying", "active", "cancelled", "credentials_required"}
  /\ \A x \in Requests : req[x].pc = "create" => req[x].kind \in JobKinds
  /\ \A o \in Ops : run[o].pc \in {"read", "write"} =>
       run[o].to \in {"credentials_required", "ready", "failed"}

TypeInv == TypeOK /\ Targets

LEMMA TypeInit == Init => TypeInv
<1> SUFFICES ASSUME Init PROVE TypeInv
  OBVIOUS
<1>1. inst \in InstRows
  BY ConnectionConstants DEF Init, InstRows, States, Secrets
<1>2. asked \in 0..MaxRequests /\ failures \in 0..MaxFailures
  BY ConnectionConstants DEF Init
<1>3. QED
  BY <1>1, <1>2, FixedTypes DEF Init, TypeOK, TypeInv, Targets, Idle, NoRequest

LEMMA FailsType ==
  ASSUME TypeOK, NEW kind, Fails(kind)
  PROVE  failures' \in 0..MaxFailures
  BY ConnectionConstants DEF Fails, TypeOK

LEMMA MovedType ==
  ASSUME TypeOK, NEW to \in States \cup {Gone}, Moved(to)
  PROVE  inst' \in InstRows
  BY DEF TypeOK, Moved, InstRows

LEMMA ReqGotoType ==
  ASSUME TypeOK, NEW x \in Requests, NEW pc \in ReqSteps, ReqGoto(x, pc)
  PROVE  req' \in [Requests -> ReqStates]
<1>1. [req[x] EXCEPT !.pc = pc] \in ReqStates
  BY DEF TypeOK, ReqStates
<1>2. QED
  BY <1>1, FixedTypes DEF ReqGoto, TypeOK

LEMMA AskType ==
  ASSUME TypeOK, NEW x \in Requests, Ask(x)
  PROVE  TypeOK'
<1>1. asked' \in 0..MaxRequests
  BY ConnectionConstants DEF Ask, TypeOK
<1>2. PICK kind \in Kinds :
        req' = [req EXCEPT ![x] = [NoRequest EXCEPT
                  !.kind = kind,
                  !.to = IF kind \in DOMAIN Wants THEN Wants[kind] ELSE "none",
                  !.pc = CASE kind = "credentials" -> "store"
                           [] kind = "delete"      -> "delete"
                           [] OTHER                -> "read"]]
  BY DEF Ask
<1> DEFINE to == IF kind \in DOMAIN Wants THEN Wants[kind] ELSE "none"
           pc == CASE kind = "credentials" -> "store"
                   [] kind = "delete"      -> "delete"
                   [] OTHER                -> "read"
<1>3. kind \in AllKinds
  BY ConnectionConstants
<1>4. to \in States \cup {"none"} /\ pc \in ReqSteps
  BY <1>3, FixedTypes DEF ReqSteps
<1>5. req' = [req EXCEPT ![x] = [NoRequest EXCEPT !.kind = kind, !.to = to, !.pc = pc]]
  BY <1>2
<1> HIDE DEF to, pc
<1>6. [NoRequest EXCEPT !.kind = kind, !.to = to, !.pc = pc] \in ReqStates
  BY <1>3, <1>4, FixedTypes DEF ReqStates
<1>7. req' \in [Requests -> ReqStates]
  BY <1>5, <1>6 DEF TypeOK
<1>8. QED
  BY <1>1, <1>7 DEF Ask, TypeOK

LEMMA RequestType ==
  ASSUME TypeInv, NEW x \in Requests, Request(x) \/ RequestDies(x)
  PROVE  TypeOK'
<1>0. AfterMove(x) \in ReqSteps /\ TypeOK
  BY DEF AfterMove, ReqSteps, TypeInv
<1>1. CASE StoreCredentials(x)
  <2>1. inst' \in InstRows
    <3> DEFINE n == inst.secrets + 1
    <3>1. inst.secrets # MaxSecrets => n \in Secrets
      BY <1>0, ConnectionConstants DEF Secrets, TypeOK, InstRows
    <3>2. inst' = inst \/ (inst.secrets # MaxSecrets /\ inst' = [inst EXCEPT !.secrets = n])
      BY <1>1 DEF StoreCredentials
    <3> HIDE DEF n
    <3>3. QED
      BY <1>0, <3>1, <3>2 DEF InstRows, TypeOK
  <2>2. QED
    BY <1>0, <1>1, <2>1, ReqGotoType DEF StoreCredentials, TypeOK, ReqSteps
<1>2. CASE Delete(x)
  BY <1>0, <1>2, ReqGotoType, MovedType DEF Delete, TypeOK, ReqSteps
<1>3. CASE ReadToMove(x)
  BY <1>0, <1>3, ReqGotoType DEF ReadToMove, TypeOK, ReqSteps
<1>4. CASE WriteMove(x)
  <2>1. req' \in [Requests -> ReqStates]
    BY <1>0, <1>4, ReqGotoType DEF WriteMove, ReqSteps
  <2>2. inst' \in InstRows
    <3>1. req[x].to \in States
      BY <1>4 DEF WriteMove, TypeInv, Targets, States
    <3>2. QED
      BY <1>0, <1>4, <3>1, MovedType DEF WriteMove, TypeOK
  <2>3. QED
    BY <1>0, <1>4, <2>1, <2>2 DEF WriteMove, TypeOK
<1>5. CASE CreateOperation(x)
  <2>1. PICK o \in Ops :
          /\ op[o] = NoOp
          /\ op' = [op EXCEPT ![o].kind = req[x].kind, ![o].status = "queued"]
          /\ req' = [req EXCEPT ![x].pc = "enqueue", ![x].op = o]
    BY <1>5 DEF CreateOperation
  <2>2. [op[o] EXCEPT !.kind = req[x].kind, !.status = "queued"] \in OpRows
    <3>1. req[x].kind \in JobKinds
      BY <1>5 DEF CreateOperation, TypeInv, Targets
    <3>2. op[o] \in OpRows
      BY <1>0 DEF TypeOK
    <3>3. QED
      BY <3>1, <3>2 DEF OpRows
  <2>3. [req[x] EXCEPT !.pc = "enqueue", !.op = o] \in ReqStates
    BY <1>0 DEF TypeOK, ReqStates, ReqSteps
  <2>4. op' \in [Ops -> OpRows] /\ req' \in [Requests -> ReqStates]
    BY <1>0, <2>1, <2>2, <2>3 DEF TypeOK
  <2>5. QED
    BY <1>0, <1>5, <2>4 DEF CreateOperation, TypeOK
<1>6. CASE EnqueueConnectionJob(x)
  <2>1. ASSUME NEW o \in Ops PROVE [op[o] EXCEPT !.job = Added(@)] \in OpRows
    BY <1>0, ConnectionJobUpdates DEF TypeOK, OpRows
  <2>2. op' \in [Ops -> OpRows]
    BY <1>0, <1>6, <2>1 DEF EnqueueConnectionJob, TypeOK
  <2>3. QED
    BY <1>0, <1>6, <2>2, FixedTypes DEF EnqueueConnectionJob, TypeOK
<1>7. CASE RequestDies(x)
  BY <1>0, <1>7, FailsType, FixedTypes DEF RequestDies, TypeOK
<1>8. QED
  BY <1>1, <1>2, <1>3, <1>4, <1>5, <1>6, <1>7 DEF Request

LEMMA GotoType ==
  ASSUME TypeOK, NEW o \in Ops, NEW pc \in RunSteps, Goto(o, pc)
  PROVE  run' \in [Ops -> Runs]
  BY DEF Goto, TypeOK, Runs

LEMMA HeardType ==
  ASSUME TypeOK, NEW o \in Ops, NEW h \in Listeners, heard' = [heard EXCEPT ![o] = h]
  PROVE  heard' \in [Ops -> Listeners]
  BY DEF TypeOK

LEMMA OpType ==
  ASSUME TypeOK, NEW o \in Ops
  PROVE  /\ \A job \in Jobs : [op EXCEPT ![o].job = job] \in [Ops -> OpRows]
         /\ \A status \in {"running", "succeeded", "failed"} :
              [op EXCEPT ![o].status = status] \in [Ops -> OpRows]
         /\ op[o].job \in Jobs
  BY DEF TypeOK, OpRows

LEMMA WorkerType ==
  ASSUME TypeInv, NEW o \in Ops, Worker(o) \/ DatabaseFails(o)
  PROVE  TypeOK'
<1>0. TypeOK
  BY DEF TypeInv
<1>1. CASE TakeJob(o)
  <2>1. op' \in [Ops -> OpRows]
    BY <1>0, <1>1, OpType, ConnectionJobUpdates DEF TakeJob
  <2>2. inst.secrets \in Secrets
    BY <1>0 DEF TypeOK, InstRows
  <2>3. PICK pc \in RunSteps :
          run' = [run EXCEPT ![o] = [Idle EXCEPT !.secrets = inst.secrets, !.pc = pc]]
    BY <1>1 DEF TakeJob, RunSteps
  <2>4. [Idle EXCEPT !.secrets = inst.secrets, !.pc = pc] \in Runs
    BY <2>2, FixedTypes DEF Runs
  <2>5. run' \in [Ops -> Runs]
    BY <1>0, <2>3, <2>4 DEF TypeOK
  <2>6. QED
    BY <1>0, <1>1, <2>1, <2>5 DEF TakeJob, TypeOK
<1>2. CASE StartOperation(o)
  BY <1>0, <1>2, OpType, GotoType DEF StartOperation, TypeOK, RunSteps
<1>3. CASE DiscoverWebsite(o)
  <2>1. run' \in [Ops -> Runs]
    BY <1>0, <1>3, GotoType DEF DiscoverWebsite, TypeOK, Runs, RunSteps, States
  <2>2. QED
    BY <1>0, <1>3, <2>1 DEF DiscoverWebsite, TypeOK
<1>4. CASE VerifyWebsite(o)
  <2>1. run' \in [Ops -> Runs] /\ probed' \subseteq Secrets
    <3>1. PICK to \in {"ready", "failed"} : run' = [run EXCEPT ![o].pc = "read", ![o].to = to]
      BY <1>4 DEF VerifyWebsite
    <3>2. [run[o] EXCEPT !.pc = "read", !.to = to] \in Runs
      BY <1>0 DEF TypeOK, Runs, RunSteps, States
    <3>3. run' \in [Ops -> Runs]
      BY <1>0, <3>1, <3>2 DEF TypeOK
    <3>4. run[o].secrets \in Secrets /\ (probed' = probed \/ probed' = probed \cup {run[o].secrets})
      BY <1>0, <1>4 DEF VerifyWebsite, TypeOK, Runs
    <3>5. QED
      BY <1>0, <3>3, <3>4 DEF TypeOK
  <2>2. QED
    BY <1>0, <1>4, <2>1 DEF VerifyWebsite, TypeOK
<1>5. CASE ReadForVerdict(o)
  BY <1>0, <1>5, GotoType DEF ReadForVerdict, TypeOK, RunSteps
<1>6. CASE WriteVerdict(o)
  <2>1. run' \in [Ops -> Runs]
    BY <1>0, <1>6, GotoType DEF WriteVerdict, RunSteps
  <2>2. run[o].to \in States
    BY <1>6 DEF WriteVerdict, TypeInv, Targets, States
  <2>3. inst' \in InstRows
    BY <1>0, <1>6, <2>2, MovedType DEF WriteVerdict, TypeOK
  <2>4. told' \subseteq Ops
    BY <1>0, <1>6 DEF WriteVerdict, TypeOK
  <2>5. QED
    BY <1>0, <1>6, <2>1, <2>3, <2>4 DEF WriteVerdict, TypeOK
<1>7. CASE FailOperation(o)
  BY <1>0, <1>7, OpType, GotoType DEF FailOperation, TypeOK, RunSteps
<1>8. CASE CompleteJob(o)
  <2>1. op' \in [Ops -> OpRows]
    BY <1>0, <1>8, OpType, ConnectionJobUpdates DEF CompleteJob
  <2> DEFINE n == heard[o].doneRead + 1
  <2>2. n \in Nat /\ heard[o] \in Listeners
    BY <1>0 DEF TypeOK, Listeners
  <2>3. heard' = [heard EXCEPT ![o] = [heard[o] EXCEPT !.doneRead = n]]
    BY <1>0, <1>8 DEF CompleteJob, TypeOK
  <2> HIDE DEF n
  <2>4. heard' \in [Ops -> Listeners]
    BY <1>0, <2>2, <2>3, HeardType, ListenerUpdates
  <2>5. QED
    BY <1>0, <1>8, <2>1, <2>4, FixedTypes DEF CompleteJob, TypeOK
<1>9. CASE CatchRead(o)
  BY <1>0, <1>9, GotoType DEF CatchRead, TypeOK, RunSteps
<1>10. CASE CatchWrite(o)
  <2>1. "failed" \in States
    BY DEF States
  <2>2. inst' \in InstRows
    BY <1>0, <1>10, <2>1, MovedType DEF CatchWrite, TypeOK
  <2>3. QED
    BY <1>0, <1>10, <2>2, GotoType DEF CatchWrite, TypeOK, RunSteps
<1>11. CASE CatchFailOperation(o)
  BY <1>0, <1>11, OpType, GotoType DEF CatchFailOperation, TypeOK, RunSteps
<1>12. CASE Throw(o)
  <2>1. op' \in [Ops -> OpRows]
    BY <1>0, <1>12, OpType, ConnectionJobUpdates DEF Throw, ThrowOut
  <2> DEFINE n == heard[o].failedRead + 1
  <2>2. n \in Nat /\ heard[o] \in Listeners
    BY <1>0 DEF TypeOK, Listeners
  <2>3. heard' = [heard EXCEPT ![o] = [heard[o] EXCEPT !.failedRead = n]]
    BY <1>0, <1>12 DEF Throw, ThrowOut, TypeOK
  <2> HIDE DEF n
  <2>4. heard' \in [Ops -> Listeners]
    BY <1>0, <2>2, <2>3, HeardType, ListenerUpdates
  <2>5. QED
    BY <1>0, <1>12, <2>1, <2>4, FixedTypes DEF Throw, ThrowOut, TypeOK
<1>13. CASE RecoverStalled(o)
  <2>1. op' \in [Ops -> OpRows]
    BY <1>0, <1>13, OpType, ConnectionJobUpdates DEF RecoverStalled
  <2> DEFINE n == heard[o].failedRead + 1
  <2>2. n \in Nat /\ heard[o] \in Listeners
    BY <1>0 DEF TypeOK, Listeners
  <2>3. heard' = heard \/ heard' = [heard EXCEPT ![o] = [heard[o] EXCEPT !.failedRead = n]]
    BY <1>0, <1>13 DEF RecoverStalled, TypeOK
  <2> HIDE DEF n
  <2>4. heard' \in [Ops -> Listeners]
    BY <1>0, <2>2, <2>3, HeardType, ListenerUpdates DEF TypeOK
  <2>5. QED
    BY <1>0, <1>13, <2>1, <2>4 DEF RecoverStalled, TypeOK
<1>14. CASE DelayOver(o)
  BY <1>0, <1>14, OpType, ConnectionJobUpdates DEF DelayOver, TypeOK
<1>15. CASE DatabaseFails(o)
  BY <1>0, <1>15, FailsType, GotoType DEF DatabaseFails, TypeOK, RunSteps
<1>16. QED
  BY <1>1, <1>2, <1>3, <1>4, <1>5, <1>6, <1>7, <1>8, <1>9, <1>10, <1>11, <1>12, <1>13, <1>14,
     <1>15 DEF Worker

LEMMA ListenType ==
  ASSUME TypeOK, NEW o \in Ops, Listen(o)
  PROVE  TypeOK'
<1> DEFINE h == heard[o]
<1>0. /\ h \in Listeners
      /\ h.failedRead \in Nat /\ h.failedWrite \in Nat /\ h.doneRead \in Nat /\ h.doneWrite \in Nat
  BY DEF TypeOK, Listeners
<1>1. CASE FailedReads(o)
  <2> DEFINE n == h.failedRead - 1
             m == IF op[o].status = "failed" THEN h.failedWrite ELSE h.failedWrite + 1
  <2>1. n \in Nat /\ m \in Nat
    BY <1>0, <1>1 DEF FailedReads
  <2>2. heard' = [heard EXCEPT ![o] = [h EXCEPT !.failedRead = n, !.failedWrite = m]]
    BY <1>1 DEF FailedReads, TypeOK
  <2> HIDE DEF n, m, h
  <2>3. heard' \in [Ops -> Listeners]
    BY <1>0, <2>1, <2>2, HeardType, ListenerUpdates
  <2>4. QED
    BY <1>1, <2>3 DEF FailedReads, TypeOK
<1>2. CASE FailedWrites(o)
  <2> DEFINE n == h.failedWrite - 1
  <2>1. n \in Nat
    BY <1>0, <1>2 DEF FailedWrites
  <2>2. heard' = [heard EXCEPT ![o] = [h EXCEPT !.failedWrite = n]]
    BY <1>2 DEF FailedWrites, TypeOK
  <2> HIDE DEF n, h
  <2>3. heard' \in [Ops -> Listeners]
    BY <1>0, <2>1, <2>2, HeardType, ListenerUpdates
  <2>4. QED
    BY <1>2, <2>3, OpType DEF FailedWrites, TypeOK
<1>3. CASE CompletedReads(o)
  <2> DEFINE n == h.doneRead - 1
             m == IF op[o].status \in {"queued", "running"} THEN h.doneWrite + 1 ELSE h.doneWrite
  <2>1. n \in Nat /\ m \in Nat
    BY <1>0, <1>3 DEF CompletedReads
  <2>2. heard' = [heard EXCEPT ![o] = [h EXCEPT !.doneRead = n, !.doneWrite = m]]
    BY <1>3 DEF CompletedReads, TypeOK
  <2> HIDE DEF n, m, h
  <2>3. heard' \in [Ops -> Listeners]
    BY <1>0, <2>1, <2>2, HeardType, ListenerUpdates
  <2>4. QED
    BY <1>3, <2>3 DEF CompletedReads, TypeOK
<1>4. CASE CompletedWrites(o)
  <2> DEFINE n == h.doneWrite - 1
  <2>1. n \in Nat
    BY <1>0, <1>4 DEF CompletedWrites
  <2>2. heard' = [heard EXCEPT ![o] = [h EXCEPT !.doneWrite = n]]
    BY <1>4 DEF CompletedWrites, TypeOK
  <2> HIDE DEF n, h
  <2>3. heard' \in [Ops -> Listeners]
    BY <1>0, <2>1, <2>2, HeardType, ListenerUpdates
  <2>4. QED
    BY <1>4, <2>3, OpType DEF CompletedWrites, TypeOK
<1>5. QED
  BY <1>1, <1>2, <1>3, <1>4 DEF Listen

LEMMA WorkerDiesType ==
  ASSUME TypeOK, WorkerDies
  PROVE  TypeOK'
  BY FailsType, FixedTypes DEF WorkerDies, TypeOK

-----------------------------------------------------------------------------
(* Targets is kept *)

LEMMA AskTargets ==
  ASSUME TypeInv, NEW x \in Requests, Ask(x)
  PROVE  Targets'
<1>1. PICK kind \in Kinds :
        req' = [req EXCEPT ![x] = [NoRequest EXCEPT
                  !.kind = kind,
                  !.to = IF kind \in DOMAIN Wants THEN Wants[kind] ELSE "none",
                  !.pc = CASE kind = "credentials" -> "store"
                           [] kind = "delete"      -> "delete"
                           [] OTHER                -> "read"]]
  BY DEF Ask
<1> DEFINE to == IF kind \in DOMAIN Wants THEN Wants[kind] ELSE "none"
           pc == CASE kind = "credentials" -> "store"
                   [] kind = "delete"      -> "delete"
                   [] OTHER                -> "read"
<1>2. /\ pc \in {"store", "delete", "read"}
      /\ pc = "read" =>
           to \in {"discovering", "verifying", "active", "cancelled", "credentials_required"}
  <2>1. kind \in AllKinds
    BY ConnectionConstants
  <2>2. QED
    BY <2>1 DEF AllKinds, Wants
<1>3. req' = [req EXCEPT ![x] = [NoRequest EXCEPT !.kind = kind, !.to = to, !.pc = pc]]
  BY <1>1
<1> HIDE DEF to, pc
<1>4. /\ req'[x].to = to /\ req'[x].pc = pc
      /\ \A y \in Requests : y # x => req'[y] = req[y]
  BY <1>3 DEF TypeInv, TypeOK, NoRequest
<1>5. UNCHANGED run
  BY DEF Ask
<1>6. QED
  BY <1>2, <1>4, <1>5 DEF TypeInv, Targets

LEMMA ReqGotoKeeps ==
  ASSUME TypeOK, NEW x \in Requests, NEW pc, ReqGoto(x, pc)
  PROVE  /\ \A y \in Requests : y # x => req'[y] = req[y]
         /\ req'[x].pc = pc
         /\ pc # "idle" => /\ req'[x].to = req[x].to /\ req'[x].kind = req[x].kind
                           /\ req'[x].op = req[x].op
  BY DEF ReqGoto, TypeOK, ReqStates, NoRequest

LEMMA RequestTargets ==
  ASSUME TypeInv, NEW x \in Requests, Request(x) \/ RequestDies(x)
  PROVE  Targets'
<1>0. TypeOK /\ UNCHANGED run
  BY DEF TypeInv, Request, RequestDies, StoreCredentials, Delete, ReadToMove, WriteMove,
         CreateOperation, EnqueueConnectionJob
<1>1. CASE StoreCredentials(x) \/ Delete(x)
  <2>1. ReqGoto(x, "idle")
    BY <1>1 DEF StoreCredentials, Delete
  <2>2. QED
    BY <1>0, <2>1, ReqGotoKeeps DEF TypeInv, Targets
<1>2. CASE ReadToMove(x)
  <2>1. PICK pc : /\ ReqGoto(x, pc) /\ req[x].pc = "read"
                  /\ pc \in {"write", "idle"} \/ (pc = "create" /\ req[x].kind \in JobKinds)
    BY <1>2 DEF ReadToMove, AfterMove
  <2>2. QED
    BY <1>0, <2>1, ReqGotoKeeps DEF TypeInv, Targets
<1>3. CASE WriteMove(x)
  <2>1. PICK pc : /\ ReqGoto(x, pc) /\ req[x].pc = "write"
                  /\ pc = "idle" \/ (pc = "create" /\ req[x].kind \in JobKinds)
    BY <1>3 DEF WriteMove, AfterMove
  <2>2. QED
    BY <1>0, <2>1, ReqGotoKeeps DEF TypeInv, Targets
<1>4. CASE CreateOperation(x)
  <2>1. /\ req'[x].pc = "enqueue"
        /\ \A y \in Requests : y # x => req'[y] = req[y]
    BY <1>0, <1>4 DEF CreateOperation, TypeOK, ReqStates
  <2>2. QED
    BY <1>0, <2>1 DEF TypeInv, Targets
<1>5. CASE EnqueueConnectionJob(x) \/ RequestDies(x)
  <2>1. req' = [req EXCEPT ![x] = NoRequest]
    BY <1>5 DEF EnqueueConnectionJob, RequestDies
  <2>2. QED
    BY <1>0, <2>1 DEF TypeOK, TypeInv, Targets, NoRequest
<1>6. QED
  BY <1>1, <1>2, <1>3, <1>4, <1>5 DEF Request

LEMMA GotoKeeps ==
  ASSUME TypeOK, NEW o \in Ops, NEW pc, Goto(o, pc)
  PROVE  /\ \A p \in Ops : p # o => run'[p] = run[p]
         /\ run'[o].pc = pc /\ run'[o].to = run[o].to /\ run'[o].secrets = run[o].secrets
  BY DEF Goto, TypeOK, Runs

\* What a step of the worker does to its own run.
LEMMA RunSteps1 ==
  ASSUME TypeInv, NEW o \in Ops, Worker(o) \/ DatabaseFails(o)
  PROVE  /\ UNCHANGED req
         /\ \A p \in Ops : p # o => run'[p] = run[p]
         /\ run'[o].pc \in {"read", "write"} =>
              \/ DiscoverWebsite(o) /\ run'[o].to = "credentials_required"
              \/ VerifyWebsite(o) /\ run'[o].to \in {"ready", "failed"}
              \/ ReadForVerdict(o) /\ run[o].pc = "read" /\ run'[o].to = run[o].to
              \/ UNCHANGED run
<1>0. TypeOK
  BY DEF TypeInv
<1>1. UNCHANGED req
  BY DEF Worker, TakeJob, StartOperation, DiscoverWebsite, VerifyWebsite, ReadForVerdict,
         WriteVerdict, FailOperation, CompleteJob, CatchRead, CatchWrite, CatchFailOperation,
         Throw, RecoverStalled, DelayOver, DatabaseFails
<1>2. CASE TakeJob(o)
  <2>1. PICK pc \in {"throw", "start"} :
          run' = [run EXCEPT ![o] = [Idle EXCEPT !.secrets = inst.secrets, !.pc = pc]]
    BY <1>2 DEF TakeJob
  <2>2. QED
    BY <1>0, <1>1, <2>1 DEF TypeOK, Idle
<1>3. CASE DiscoverWebsite(o)
  <2>1. \/ run' = [run EXCEPT ![o].pc = "read", ![o].to = "credentials_required"]
        \/ Goto(o, "catch")
    BY <1>3 DEF DiscoverWebsite
  <2>2. QED
    BY <1>0, <1>1, <1>3, <2>1, GotoKeeps DEF TypeOK, Runs
<1>4. CASE VerifyWebsite(o)
  <2>1. PICK to \in {"ready", "failed"} : run' = [run EXCEPT ![o].pc = "read", ![o].to = to]
    BY <1>4 DEF VerifyWebsite
  <2>2. QED
    BY <1>0, <1>1, <1>4, <2>1 DEF TypeOK, Runs
<1>5. CASE ReadForVerdict(o)
  <2>1. run[o].pc = "read" /\ \E pc : Goto(o, pc)
    BY <1>5 DEF ReadForVerdict
  <2>2. QED
    BY <1>0, <1>1, <1>5, <2>1, GotoKeeps
<1>6. CASE CompleteJob(o) \/ Throw(o)
  <2>1. run' = [run EXCEPT ![o] = Idle]
    BY <1>6 DEF CompleteJob, Throw, ThrowOut
  <2>2. QED
    BY <1>0, <1>1, <2>1 DEF TypeOK, Idle
<1>7. CASE RecoverStalled(o) \/ DelayOver(o)
  BY <1>1, <1>7 DEF RecoverStalled, DelayOver
<1>8. CASE \/ StartOperation(o) \/ WriteVerdict(o) \/ FailOperation(o) \/ CatchRead(o)
           \/ CatchWrite(o) \/ CatchFailOperation(o) \/ DatabaseFails(o)
  <2>1. PICK pc : Goto(o, pc) /\ pc \notin {"read", "write"}
    BY <1>8 DEF StartOperation, WriteVerdict, FailOperation, CatchRead, CatchWrite,
                CatchFailOperation, DatabaseFails
  <2>2. QED
    BY <1>0, <1>1, <2>1, GotoKeeps
<1>9. QED
  BY <1>2, <1>3, <1>4, <1>5, <1>6, <1>7, <1>8 DEF Worker

LEMMA TypeInvNext == TypeInv /\ [Next]_vars => TypeInv'
<1> SUFFICES ASSUME TypeInv, [Next]_vars PROVE TypeInv'
  OBVIOUS
<1>0. TypeOK
  BY DEF TypeInv
<1>1. ASSUME NEW x \in Requests, Ask(x) \/ Request(x) \/ RequestDies(x) PROVE TypeInv'
  BY <1>0, <1>1, AskType, AskTargets, RequestType, RequestTargets DEF TypeInv
<1>2. ASSUME NEW o \in Ops, Worker(o) \/ DatabaseFails(o) PROVE TypeInv'
  <2>1. Targets'
    BY <1>2, RunSteps1 DEF TypeInv, Targets
  <2>2. QED
    BY <1>2, <2>1, WorkerType DEF TypeInv
<1>3. ASSUME NEW o \in Ops, Listen(o) PROVE TypeInv'
  <2>1. UNCHANGED <<req, run>>
    BY <1>3 DEF Listen, FailedReads, FailedWrites, CompletedReads, CompletedWrites
  <2>2. QED
    BY <1>0, <1>3, <2>1, ListenType DEF TypeInv, Targets
<1>4. CASE WorkerDies
  <2>1. Targets'
    BY <1>4 DEF WorkerDies, TypeInv, Targets, Idle
  <2>2. QED
    BY <1>0, <1>4, <2>1, WorkerDiesType DEF TypeInv
<1>5. CASE UNCHANGED vars
  BY <1>5 DEF vars, TypeInv, TypeOK, Targets
<1>6. QED
  BY <1>1, <1>2, <1>3, <1>4, <1>5 DEF Next, Finished

\* Whatever requests, jobs and failures there are, an installation is in one of
\* INSTALLATION_STATES, and requests, runs and operation rows are well formed.
THEOREM ConnectionTypeCorrect == Spec => []TypeOK
<1>1. TypeInv => TypeOK
  BY DEF TypeInv
<1>2. QED
  BY <1>1, TypeInit, TypeInvNext, PTL DEF Spec

-----------------------------------------------------------------------------
(* No destination is active without a verification that passed.              *)

Vouched ==
  /\ inst.state \in {"ready", "active", "disabled"} => probed # {}
  /\ \A x \in Requests : req[x].pc = "write" /\ req[x].to = "active" => probed # {}
  /\ \A o \in Ops : run[o].pc \in {"read", "write"} /\ run[o].to = "ready" => probed # {}

\* The transition table: only what is ready or disabled can be activated.
LEMMA OnlyFromReady ==
  ASSUME NEW from \in States, CanTransition(from, "active")
  PROVE  from \in {"ready", "disabled"}
  BY DEF CanTransition, Transitions, States

LEMMA ProbedGrows ==
  ASSUME TypeInv, [Next]_vars
  PROVE  probed # {} => probed' # {}
<1>1. ASSUME NEW x \in Requests, Ask(x) \/ Request(x) \/ RequestDies(x)
      PROVE  UNCHANGED probed
  BY <1>1 DEF Ask, Request, RequestDies, StoreCredentials, Delete, ReadToMove, WriteMove,
              CreateOperation, EnqueueConnectionJob
<1>2. ASSUME NEW o \in Ops, VerifyWebsite(o)
      PROVE  probed' = probed \/ probed' = probed \cup {run[o].secrets}
  BY <1>2 DEF VerifyWebsite
<1>3. ASSUME NEW o \in Ops, ~VerifyWebsite(o), Worker(o) \/ DatabaseFails(o) \/ Listen(o)
      PROVE  UNCHANGED probed
  BY <1>3 DEF Worker, TakeJob, StartOperation, DiscoverWebsite, ReadForVerdict, WriteVerdict,
              FailOperation, CompleteJob, CatchRead, CatchWrite, CatchFailOperation, Throw,
              RecoverStalled, DelayOver, DatabaseFails, Listen, FailedReads, FailedWrites,
              CompletedReads, CompletedWrites
<1>4. CASE WorkerDies \/ UNCHANGED vars
  BY <1>4 DEF WorkerDies, vars
<1>5. QED
  BY <1>1, <1>2, <1>3, <1>4 DEF Next, Finished

LEMMA VouchedByRequests ==
  ASSUME TypeInv, Vouched, probed' = probed, NEW x \in Requests,
         Ask(x) \/ Request(x) \/ RequestDies(x)
  PROVE  Vouched'
<1>0. TypeOK /\ UNCHANGED run
  BY DEF TypeInv, Ask, Request, RequestDies, StoreCredentials, Delete, ReadToMove, WriteMove,
         CreateOperation, EnqueueConnectionJob
<1>1. CASE Ask(x)
  <2>1. PICK kind, to, pc :
          /\ req' = [req EXCEPT ![x] = [NoRequest EXCEPT !.kind = kind, !.to = to, !.pc = pc]]
          /\ pc \in {"store", "delete", "read"}
    <3>1. PICK kind \in Kinds :
            req' = [req EXCEPT ![x] = [NoRequest EXCEPT
                     !.kind = kind,
                     !.to = IF kind \in DOMAIN Wants THEN Wants[kind] ELSE "none",
                     !.pc = CASE kind = "credentials" -> "store"
                              [] kind = "delete"      -> "delete"
                              [] OTHER                -> "read"]]
      BY <1>1 DEF Ask
    <3>2. QED
      BY <3>1
  <2>2. req'[x].pc = pc /\ \A y \in Requests : y # x => req'[y] = req[y]
    BY <1>0, <2>1 DEF TypeOK, NoRequest
  <2>3. UNCHANGED inst
    BY <1>1 DEF Ask
  <2>4. QED
    BY <1>0, <2>1, <2>2, <2>3 DEF Vouched
<1>2. CASE StoreCredentials(x)
  <2>1. ReqGoto(x, "idle")
    BY <1>2 DEF StoreCredentials
  <2>2. inst'.state = inst.state
    BY <1>0, <1>2 DEF StoreCredentials, TypeOK, InstRows
  <2>3. QED
    BY <1>0, <2>1, <2>2, ReqGotoKeeps DEF Vouched
<1>3. CASE Delete(x)
  <2>1. ReqGoto(x, "idle") /\ inst'.state = "gone"
    BY <1>0, <1>3 DEF Delete, Moved, Gone, TypeOK, InstRows
  <2>2. QED
    BY <1>0, <2>1, ReqGotoKeeps DEF Vouched
<1>4. CASE ReadToMove(x)
  <2>1. PICK pc : /\ ReqGoto(x, pc) /\ UNCHANGED inst
                  /\ pc = "write" => inst.state # Gone /\ CanTransition(inst.state, req[x].to)
    BY <1>4 DEF ReadToMove, AfterMove
  <2>2. pc = "write" /\ req[x].to = "active" => inst.state \in {"ready", "disabled"}
    BY <1>0, <2>1, OnlyFromReady DEF TypeOK, InstRows
  <2>3. QED
    BY <1>0, <2>1, <2>2, ReqGotoKeeps DEF Vouched
<1>5. CASE WriteMove(x)
  <2>1. PICK pc : ReqGoto(x, pc) /\ pc # "write" /\ (UNCHANGED inst \/ Moved(req[x].to))
    BY <1>5 DEF WriteMove, AfterMove
  <2>2. /\ req[x].pc = "write"
        /\ req[x].to \in {"discovering", "verifying", "active", "cancelled", "credentials_required"}
    BY <1>5 DEF WriteMove, TypeInv, Targets
  <2>3. inst' = inst \/ inst'.state = req[x].to
    BY <1>0, <2>1 DEF Moved, TypeOK, InstRows
  <2>4. QED
    BY <1>0, <2>1, <2>2, <2>3, ReqGotoKeeps DEF Vouched
<1>6. CASE CreateOperation(x)
  <2>1. UNCHANGED inst /\ req'[x].pc = "enqueue" /\ \A y \in Requests : y # x => req'[y] = req[y]
    BY <1>0, <1>6 DEF CreateOperation, TypeOK, ReqStates
  <2>2. QED
    BY <1>0, <2>1 DEF Vouched
<1>7. CASE EnqueueConnectionJob(x) \/ RequestDies(x)
  <2>1. UNCHANGED inst /\ req' = [req EXCEPT ![x] = NoRequest]
    BY <1>7 DEF EnqueueConnectionJob, RequestDies
  <2>2. QED
    BY <1>0, <2>1 DEF TypeOK, NoRequest, Vouched
<1>8. QED
  BY <1>1, <1>2, <1>3, <1>4, <1>5, <1>6, <1>7 DEF Request

LEMMA VouchedByWorker ==
  ASSUME TypeInv, Vouched, probed # {} => probed' # {}, NEW o \in Ops,
         Worker(o) \/ DatabaseFails(o)
  PROVE  Vouched'
<1>0. TypeOK
  BY DEF TypeInv
<1>1. VerifyWebsite(o) /\ run'[o].to = "ready" => probed' # {}
  <2> SUFFICES ASSUME VerifyWebsite(o), run'[o].to = "ready" PROVE probed' # {}
    OBVIOUS
  <2>1. PICK outcomes \in Outcomes :
          /\ run' = [run EXCEPT ![o].pc = "read",
                                ![o].to = IF Verified(outcomes) THEN "ready" ELSE "failed"]
          /\ probed' = IF outcomes \cap {"passed", "failed"} = {"passed"}
                       THEN probed \cup {run[o].secrets} ELSE probed
    BY DEF VerifyWebsite
  <2>2. Verified(outcomes)
    BY <1>0, <2>1 DEF TypeOK, Runs
  <2>3. outcomes \cap {"passed", "failed"} = {"passed"}
    BY <2>2 DEF Verified
  <2>4. QED
    BY <2>1, <2>3
<1>2. \A p \in Ops : run'[p].pc \in {"read", "write"} /\ run'[p].to = "ready" => probed' # {}
  BY <1>1, RunSteps1 DEF Vouched
<1>3. \/ UNCHANGED inst
      \/ WriteVerdict(o) /\ Moved(run[o].to)
      \/ CatchWrite(o) /\ Moved("failed")
  BY DEF Worker, TakeJob, StartOperation, DiscoverWebsite, VerifyWebsite, ReadForVerdict,
         WriteVerdict, FailOperation, CompleteJob, CatchRead, CatchWrite, CatchFailOperation,
         Throw, RecoverStalled, DelayOver, DatabaseFails
<1>4. inst'.state \in {"ready", "active", "disabled"} => probed' # {}
  <2>1. CASE UNCHANGED inst
    BY <2>1 DEF Vouched
  <2>2. CASE WriteVerdict(o) /\ Moved(run[o].to)
    <3>1. inst'.state = run[o].to /\ run[o].pc = "write"
      BY <1>0, <2>2 DEF WriteVerdict, Moved, TypeOK, InstRows
    <3>2. QED
      BY <3>1 DEF Vouched, TypeInv, Targets
  <2>3. CASE Moved("failed")
    BY <1>0, <2>3 DEF Moved, TypeOK, InstRows
  <2>4. QED
    BY <1>3, <2>1, <2>2, <2>3
<1>5. QED
  BY <1>2, <1>4, RunSteps1 DEF Vouched

LEMMA VouchedNext == TypeInv /\ Vouched /\ [Next]_vars => Vouched'
<1> SUFFICES ASSUME TypeInv, Vouched, [Next]_vars PROVE Vouched'
  OBVIOUS
<1>1. ASSUME NEW x \in Requests, Ask(x) \/ Request(x) \/ RequestDies(x) PROVE Vouched'
  <2>1. UNCHANGED probed
    BY <1>1 DEF Ask, Request, RequestDies, StoreCredentials, Delete, ReadToMove, WriteMove,
                CreateOperation, EnqueueConnectionJob
  <2>2. QED
    BY <1>1, <2>1, VouchedByRequests
<1>2. ASSUME NEW o \in Ops, Worker(o) \/ DatabaseFails(o) PROVE Vouched'
  BY <1>2, ProbedGrows, VouchedByWorker
<1>3. ASSUME NEW o \in Ops, Listen(o) PROVE Vouched'
  BY <1>3 DEF Listen, FailedReads, FailedWrites, CompletedReads, CompletedWrites, Vouched
<1>4. CASE WorkerDies
  BY <1>4 DEF WorkerDies, Idle, Vouched
<1>5. CASE UNCHANGED vars
  BY <1>5 DEF vars, Vouched
<1>6. QED
  BY <1>1, <1>2, <1>3, <1>4, <1>5 DEF Next, Finished

\* However many requests, jobs, retries and failures there are, a destination is
\* active only after a verification of it has passed (activate, runVerification).
\* The argument: "ready" is written only by a passed verification, and a request
\* that read "ready" or "disabled" may write "active" later, when probed, which
\* only grows, is not empty any more.
THEOREM ActiveWasVerifiedAlways == Spec => []ActiveWasVerified
<1>1. Init => Vouched
  BY DEF Init, Vouched, NoRequest, Idle
<1>2. Vouched => ActiveWasVerified
  BY DEF Vouched, ActiveWasVerified
<1>3. QED
  BY <1>1, <1>2, TypeInit, TypeInvNext, VouchedNext, PTL DEF Spec

-----------------------------------------------------------------------------
(* No operation reports a success its job did not write.  The worker and two *)
(* listeners write an operation; a job runs in one place, completes once,    *)
(* and belongs to the one request that created it.                           *)

Finishing(o) ==
  /\ run[o].pc # "idle" => op[o].job.state = "active"
  /\ heard[o].doneRead > 0 \/ heard[o].doneWrite > 0 => op[o].job.state = "done"

Reported(o) ==
  /\ op[o].status = "succeeded" \/ heard[o].doneWrite > 0 => o \in told
  /\ run[o].pc = "report" \/ heard[o].doneRead > 0 =>
       o \in told \/ op[o].status = "failed"

Owned ==
  /\ \A x \in Requests : req[x].pc = "enqueue" =>
       /\ req[x].op \in Ops
       /\ op[req[x].op].job.state = "none" /\ op[req[x].op].kind # "none"
  /\ \A x, y \in Requests :
       req[x].pc = "enqueue" /\ req[y].pc = "enqueue" /\ req[x].op = req[y].op => x = y

Honest == Owned /\ \A o \in Ops : Finishing(o) /\ Reported(o)

LEMMA JobStatesAfter ==
  ASSUME NEW job \in Jobs
  PROVE  /\ Added(job).state = "waiting" /\ Taken(job).state = "active"
         /\ Completed(job).state = "done" /\ BackoffOver(job).state = "waiting"
         /\ TryFailed(job, BullAttempts).state \in {"delayed", "dead"}
         /\ Stalled(job, MaxStalls).state \in {"waiting", "dead"}
  BY DEF Added, Taken, Completed, BackoffOver, TryFailed, Stalled, Jobs

\* Requests touch neither runs nor listeners, and only the operation they own.
LEMMA HonestByRequests ==
  ASSUME TypeInv, Honest, NEW x \in Requests, Ask(x) \/ Request(x) \/ RequestDies(x)
  PROVE  Honest'
<1>0. /\ TypeOK /\ UNCHANGED <<run, heard, told>>
      /\ ~CreateOperation(x) /\ ~EnqueueConnectionJob(x) => UNCHANGED op
  BY DEF TypeInv, Ask, Request, RequestDies, StoreCredentials, Delete, ReadToMove, WriteMove,
         CreateOperation, EnqueueConnectionJob
<1>1. CASE CreateOperation(x)
  <2>1. PICK o \in Ops :
          /\ op[o] = NoOp
          /\ op' = [op EXCEPT ![o].kind = req[x].kind, ![o].status = "queued"]
          /\ req' = [req EXCEPT ![x].pc = "enqueue", ![x].op = o]
    BY <1>1 DEF CreateOperation
  <2>2. req[x].kind \in JobKinds
    BY <1>1 DEF CreateOperation, TypeInv, Targets
  <2>3. /\ op'[o].kind = req[x].kind /\ op'[o].status = "queued" /\ op'[o].job = op[o].job
        /\ \A p \in Ops : p # o => op'[p] = op[p]
    BY <1>0, <2>1 DEF TypeOK, OpRows
  <2>4. op[o].kind = "none" /\ op[o].job.state = "none"
    BY <2>1 DEF NoOp, NoJob
  <2>5. /\ req'[x].pc = "enqueue" /\ req'[x].op = o
        /\ \A y \in Requests : y # x => req'[y] = req[y]
    BY <1>0, <2>1 DEF TypeOK, ReqStates
  <2>6. Owned'
    BY <2>2, <2>3, <2>4, <2>5 DEF Honest, Owned, JobKinds
  <2>7. ASSUME NEW p \in Ops PROVE Finishing(p)' /\ Reported(p)'
    <3>1. CASE p = o
      <4>1. run[p].pc = "idle" /\ ~(heard[p].doneRead > 0) /\ ~(heard[p].doneWrite > 0)
        BY <2>4, <3>1 DEF Honest, Finishing
      <4>2. QED
        BY <1>0, <2>3, <3>1, <4>1 DEF Finishing, Reported
    <3>2. CASE p # o
      BY <1>0, <2>3, <3>2 DEF Honest, Finishing, Reported
    <3>3. QED
      BY <3>1, <3>2
  <2>8. QED
    BY <2>6, <2>7 DEF Honest
<1>2. CASE EnqueueConnectionJob(x)
  <2> DEFINE o == req[x].op
  <2>1. /\ o \in Ops /\ op[o].job.state = "none" /\ op[o].job \in Jobs
    BY <1>0, <1>2, OpType DEF EnqueueConnectionJob, Honest, Owned
  <2>2. /\ op'[o].job = Added(op[o].job) /\ op'[o].status = op[o].status
        /\ \A p \in Ops : p # o => op'[p] = op[p]
    BY <1>0, <1>2, <2>1 DEF EnqueueConnectionJob, TypeOK, OpRows
  <2>3. /\ req'[x].pc = "idle" /\ \A y \in Requests : y # x => req'[y] = req[y]
    BY <1>0, <1>2 DEF EnqueueConnectionJob, TypeOK, NoRequest
  <2>4. \A y \in Requests : y # x /\ req[y].pc = "enqueue" => req[y].op # o
    BY <1>2 DEF EnqueueConnectionJob, Honest, Owned
  <2>5. run[o].pc = "idle" /\ ~(heard[o].doneRead > 0) /\ ~(heard[o].doneWrite > 0)
    BY <2>1 DEF Honest, Finishing
  <2> HIDE DEF o
  <2>6. Owned'
    BY <2>2, <2>3, <2>4 DEF Honest, Owned
  <2>7. ASSUME NEW p \in Ops PROVE Finishing(p)' /\ Reported(p)'
    BY <1>0, <2>2, <2>5 DEF Honest, Finishing, Reported
  <2>8. QED
    BY <2>6, <2>7 DEF Honest
<1>3. CASE ~CreateOperation(x) /\ ~EnqueueConnectionJob(x)
  <2>1. /\ \A y \in Requests : y # x => req'[y] = req[y]
        /\ req'[x].pc # "enqueue"
    <3>1. CASE Ask(x)
      BY <1>0, <3>1, ZenonT(60) DEF Ask, TypeOK, NoRequest
    <3>2. CASE RequestDies(x)
      BY <1>0, <3>2 DEF RequestDies, TypeOK, NoRequest
    <3>3. CASE StoreCredentials(x) \/ Delete(x) \/ ReadToMove(x) \/ WriteMove(x)
      <4>1. PICK pc : ReqGoto(x, pc) /\ pc # "enqueue"
        BY <3>3 DEF StoreCredentials, Delete, ReadToMove, WriteMove, AfterMove
      <4>2. QED
        BY <1>0, <4>1, ReqGotoKeeps
    <3>4. QED
      BY <1>3, <3>1, <3>2, <3>3 DEF Request
  <2>2. Owned'
    BY <1>0, <1>3, <2>1 DEF Honest, Owned
  <2>3. QED
    BY <1>0, <1>3, <2>2 DEF Honest, Finishing, Reported
<1>4. QED
  BY <1>1, <1>2, <1>3

\* A step about one operation that keeps its kind and whether it has a job keeps
\* the rest; what is left to show is the operation itself.
LEMMA OneOperation ==
  ASSUME TypeInv, Honest, NEW o \in Ops, UNCHANGED req,
         \A p \in Ops : p # o => /\ op'[p] = op[p] /\ run'[p] = run[p] /\ heard'[p] = heard[p]
                                 /\ (p \in told' <=> p \in told),
         op'[o].kind = op[o].kind,
         op[o].job.state = "none" => op'[o].job.state = "none",
         Finishing(o)', Reported(o)'
  PROVE  Honest'
<1>1. Owned'
  BY DEF Honest, Owned
<1>2. ASSUME NEW p \in Ops, p # o PROVE Finishing(p)' /\ Reported(p)'
  BY <1>2 DEF Honest, Finishing, Reported
<1>3. QED
  BY <1>1, <1>2 DEF Honest

\* A run that goes on has an active job, of which no success is being reported.
LEMMA RunningJob ==
  ASSUME TypeInv, Honest, NEW o \in Ops
  PROVE  /\ op[o] \in OpRows /\ op[o].job \in Jobs /\ heard[o] \in Listeners /\ run[o] \in Runs
         /\ op[o].job.state # "done" => ~(heard[o].doneRead > 0) /\ ~(heard[o].doneWrite > 0)
         /\ run[o].pc # "idle" => op[o].job.state = "active"
         /\ Reported(o)
  BY DEF TypeInv, TypeOK, OpRows, Honest, Finishing

\* Steps of a run between its start and its end.
LEMMA HonestWhileRunning ==
  ASSUME TypeInv, Honest, NEW o \in Ops,
         \/ StartOperation(o) \/ DiscoverWebsite(o) \/ VerifyWebsite(o) \/ ReadForVerdict(o)
         \/ WriteVerdict(o) \/ FailOperation(o) \/ CatchRead(o) \/ CatchWrite(o)
         \/ CatchFailOperation(o) \/ DatabaseFails(o)
  PROVE  Honest'
<1>0. TypeOK /\ UNCHANGED <<req, heard>>
  BY DEF TypeInv, StartOperation, DiscoverWebsite, VerifyWebsite, ReadForVerdict, WriteVerdict,
         FailOperation, CatchRead, CatchWrite, CatchFailOperation, DatabaseFails
<1>1. run[o].pc # "idle"
  BY DEF StartOperation, DiscoverWebsite, VerifyWebsite, ReadForVerdict, WriteVerdict,
         FailOperation, CatchRead, CatchWrite, CatchFailOperation, DatabaseFails
<1>2. /\ op[o].job.state = "active"
      /\ ~(heard[o].doneRead > 0) /\ ~(heard[o].doneWrite > 0)
  BY <1>1, RunningJob
<1>3. \A p \in Ops : p # o => run'[p] = run[p]
  BY RunSteps1 DEF Worker
<1>4. UNCHANGED op \/ \E status \in {"running", "failed"} : op' = [op EXCEPT ![o].status = status]
  BY DEF StartOperation, DiscoverWebsite, VerifyWebsite, ReadForVerdict, WriteVerdict,
         FailOperation, CatchRead, CatchWrite, CatchFailOperation, DatabaseFails
<1>5. /\ op'[o].kind = op[o].kind /\ op'[o].job = op[o].job
      /\ op'[o].status \in {op[o].status, "running", "failed"}
      /\ \A p \in Ops : p # o => op'[p] = op[p]
  BY <1>0, <1>4 DEF TypeOK, OpRows
<1>6. told \subseteq told' /\ told' \subseteq told \cup {o}
  BY DEF StartOperation, DiscoverWebsite, VerifyWebsite, ReadForVerdict, WriteVerdict,
         FailOperation, CatchRead, CatchWrite, CatchFailOperation, DatabaseFails
<1>7. run'[o].pc = "report" => o \in told' \/ op'[o].status = "failed"
  <2>1. CASE WriteVerdict(o)
    BY <1>0, <2>1, GotoKeeps DEF WriteVerdict
  <2>2. CASE FailOperation(o)
    BY <1>0, <2>2 DEF FailOperation, TypeOK, OpRows
  <2>3. CASE DiscoverWebsite(o)
    <3>1. \/ run' = [run EXCEPT ![o].pc = "read", ![o].to = "credentials_required"]
          \/ Goto(o, "catch")
      BY <2>3 DEF DiscoverWebsite
    <3>2. QED
      BY <1>0, <3>1, GotoKeeps DEF TypeOK, Runs
  <2>4. CASE VerifyWebsite(o)
    <3>1. PICK to : run' = [run EXCEPT ![o].pc = "read", ![o].to = to]
      BY <2>4 DEF VerifyWebsite
    <3>2. QED
      BY <1>0, <3>1 DEF TypeOK, Runs
  <2>5. CASE \/ StartOperation(o) \/ ReadForVerdict(o) \/ CatchRead(o) \/ CatchWrite(o)
             \/ CatchFailOperation(o) \/ DatabaseFails(o)
    <3>1. PICK pc : Goto(o, pc) /\ pc # "report"
      BY <2>5 DEF StartOperation, ReadForVerdict, CatchRead, CatchWrite, CatchFailOperation,
                  DatabaseFails
    <3>2. QED
      BY <1>0, <3>1, GotoKeeps
  <2>6. QED
    BY <2>1, <2>2, <2>3, <2>4, <2>5
<1>8. Finishing(o)' /\ Reported(o)'
  BY <1>0, <1>2, <1>5, <1>6, <1>7, RunningJob DEF Finishing, Reported
<1>9. QED
  BY <1>0, <1>2, <1>3, <1>5, <1>6, <1>8, OneOperation

\* Steps of the job itself.
LEMMA HonestWithTheJob ==
  ASSUME TypeInv, Honest, NEW o \in Ops,
         TakeJob(o) \/ CompleteJob(o) \/ Throw(o) \/ RecoverStalled(o) \/ DelayOver(o)
  PROVE  Honest'
<1>0. TypeOK /\ UNCHANGED <<req, told>>
  BY DEF TypeInv, TakeJob, CompleteJob, Throw, RecoverStalled, DelayOver
<1>1. \A p \in Ops : p # o => run'[p] = run[p]
  BY RunSteps1 DEF Worker
<1>2. PICK job : /\ op' = [op EXCEPT ![o].job = job]
                 /\ \/ TakeJob(o) /\ job = Taken(op[o].job)
                    \/ CompleteJob(o) /\ job = Completed(op[o].job)
                    \/ Throw(o) /\ job = TryFailed(op[o].job, BullAttempts)
                    \/ RecoverStalled(o) /\ job = Stalled(op[o].job, MaxStalls)
                    \/ DelayOver(o) /\ job = BackoffOver(op[o].job)
  BY DEF TakeJob, CompleteJob, Throw, ThrowOut, RecoverStalled, DelayOver
<1>3. /\ op'[o].kind = op[o].kind /\ op'[o].status = op[o].status /\ op'[o].job = job
      /\ \A p \in Ops : p # o => op'[p] = op[p]
  BY <1>0, <1>2 DEF TypeOK, OpRows
<1>4. /\ op[o].job.state \in {"waiting", "active", "delayed"}
      /\ ~(heard[o].doneRead > 0) /\ ~(heard[o].doneWrite > 0)
  <2>1. CASE CompleteJob(o) \/ Throw(o)
    BY <2>1, RunningJob DEF CompleteJob, Throw
  <2>2. CASE TakeJob(o) \/ RecoverStalled(o) \/ DelayOver(o)
    BY <2>2, RunningJob DEF TakeJob, RecoverStalled, DelayOver
  <2>3. QED
    BY <2>1, <2>2
<1>5. /\ \A p \in Ops : p # o => heard'[p] = heard[p]
      /\ heard'[o].doneWrite = heard[o].doneWrite
      /\ ~CompleteJob(o) => heard'[o].doneRead = heard[o].doneRead
  BY <1>0 DEF TakeJob, CompleteJob, Throw, ThrowOut, RecoverStalled, DelayOver, TypeOK, Listeners
<1>6. /\ job.state # "done" \/ CompleteJob(o)
      /\ run'[o].pc # "idle" => job.state = "active" /\ run'[o].pc # "report"
      /\ CompleteJob(o) => job.state = "done"
  <2>0. op[o].job \in Jobs
    BY RunningJob
  <2>1. CASE TakeJob(o) /\ job = Taken(op[o].job)
    <3>1. run'[o].pc \in {"start", "throw"} /\ run[o].pc = "idle"
      BY <1>0, <2>1 DEF TakeJob, TypeOK, Idle
    <3>2. QED
      BY <2>0, <2>1, <3>1, JobStatesAfter DEF CompleteJob
  <2>2. CASE CompleteJob(o) /\ job = Completed(op[o].job)
    <3>1. run'[o].pc = "idle"
      BY <1>0, <2>2 DEF CompleteJob, TypeOK, Idle
    <3>2. QED
      BY <2>0, <2>2, <3>1, JobStatesAfter
  <2>3. CASE Throw(o) /\ job = TryFailed(op[o].job, BullAttempts)
    <3>1. run'[o].pc = "idle" /\ run[o].pc = "throw"
      BY <1>0, <2>3 DEF Throw, ThrowOut, TypeOK, Idle
    <3>2. QED
      BY <2>0, <2>3, <3>1, JobStatesAfter DEF CompleteJob
  <2>4. CASE RecoverStalled(o) /\ job = Stalled(op[o].job, MaxStalls)
    <3>1. run'[o].pc = "idle" /\ run[o].pc = "idle"
      BY <2>4 DEF RecoverStalled
    <3>2. QED
      BY <2>0, <2>4, <3>1, JobStatesAfter DEF CompleteJob
  <2>5. CASE DelayOver(o) /\ job = BackoffOver(op[o].job)
    <3>1. run'[o].pc = "idle" /\ run[o].pc = "idle"
      BY <2>5, RunningJob DEF DelayOver
    <3>2. QED
      BY <2>0, <2>5, <3>1, JobStatesAfter DEF CompleteJob
  <2>6. QED
    BY <1>2, <2>1, <2>2, <2>3, <2>4, <2>5
<1>7. Finishing(o)'
  BY <1>3, <1>4, <1>5, <1>6 DEF Finishing
<1>8. Reported(o)'
  <2>1. CASE CompleteJob(o)
    <3>1. o \in told \/ op[o].status = "failed"
      BY <2>1, RunningJob DEF CompleteJob, Reported
    <3>2. QED
      BY <1>0, <1>3, <1>4, <1>5, <3>1, RunningJob DEF Reported
  <2>2. CASE ~CompleteJob(o)
    BY <1>0, <1>3, <1>4, <1>5, <1>6, <2>2, RunningJob DEF Reported
  <2>3. QED
    BY <2>1, <2>2
<1>9. QED
  BY <1>0, <1>1, <1>3, <1>4, <1>5, <1>7, <1>8, OneOperation

LEMMA HonestListeners ==
  ASSUME TypeInv, Honest, NEW o \in Ops, Listen(o)
  PROVE  Honest'
<1>0. TypeOK /\ UNCHANGED <<req, run, told>>
  BY DEF TypeInv, Listen, FailedReads, FailedWrites, CompletedReads, CompletedWrites
<1>1. /\ \A p \in Ops : p # o => heard'[p] = heard[p] /\ op'[p] = op[p]
      /\ op'[o].kind = op[o].kind /\ op'[o].job = op[o].job
  BY <1>0 DEF Listen, FailedReads, FailedWrites, CompletedReads, CompletedWrites, TypeOK, OpRows
<1>2. heard[o] \in Listeners
  BY RunningJob
<1>3. CASE FailedReads(o)
  <2>1. /\ heard'[o].doneRead = heard[o].doneRead /\ heard'[o].doneWrite = heard[o].doneWrite
        /\ op'[o] = op[o]
    BY <1>0, <1>3 DEF FailedReads, TypeOK, Listeners
  <2>2. Finishing(o)' /\ Reported(o)'
    BY <1>0, <2>1 DEF Honest, Finishing, Reported
  <2>3. QED
    BY <1>0, <1>1, <2>2, OneOperation
<1>4. CASE FailedWrites(o)
  <2>1. /\ heard'[o].doneRead = heard[o].doneRead /\ heard'[o].doneWrite = heard[o].doneWrite
        /\ op'[o].status = "failed"
    BY <1>0, <1>4 DEF FailedWrites, TypeOK, Listeners, OpRows
  <2>2. Finishing(o)' /\ Reported(o)'
    BY <1>0, <1>1, <2>1 DEF Honest, Finishing, Reported
  <2>3. QED
    BY <1>0, <1>1, <2>2, OneOperation
<1>5. CASE CompletedReads(o)
  <2>1. /\ heard[o].doneRead > 0 /\ op'[o] = op[o]
        /\ heard'[o].doneRead = heard[o].doneRead - 1
        /\ heard'[o].doneWrite = IF op[o].status \in {"queued", "running"}
                                 THEN heard[o].doneWrite + 1 ELSE heard[o].doneWrite
    BY <1>0, <1>5 DEF CompletedReads, TypeOK, Listeners
  <2>2. heard[o].doneRead \in Nat /\ heard[o].doneWrite \in Nat
    BY <1>2 DEF Listeners
  <2>3. Finishing(o)' /\ Reported(o)'
    BY <1>0, <2>1, <2>2 DEF Honest, Finishing, Reported
  <2>4. QED
    BY <1>0, <1>1, <2>3, OneOperation
<1>6. CASE CompletedWrites(o)
  <2>1. /\ heard[o].doneWrite > 0 /\ op'[o].status = "succeeded"
        /\ heard'[o].doneRead = heard[o].doneRead
        /\ heard'[o].doneWrite = heard[o].doneWrite - 1
    BY <1>0, <1>6 DEF CompletedWrites, TypeOK, Listeners, OpRows
  <2>2. heard[o].doneRead \in Nat /\ heard[o].doneWrite \in Nat
    BY <1>2 DEF Listeners
  <2>3. o \in told
    BY <2>1 DEF Honest, Reported
  <2>4. Finishing(o)' /\ Reported(o)'
    BY <1>0, <1>1, <2>1, <2>2, <2>3 DEF Honest, Finishing, Reported
  <2>5. QED
    BY <1>0, <1>1, <2>4, OneOperation
<1>7. QED
  BY <1>3, <1>4, <1>5, <1>6 DEF Listen

LEMMA HonestNext == TypeInv /\ Honest /\ [Next]_vars => Honest'
<1> SUFFICES ASSUME TypeInv, Honest, [Next]_vars PROVE Honest'
  OBVIOUS
<1>1. ASSUME NEW x \in Requests, Ask(x) \/ Request(x) \/ RequestDies(x) PROVE Honest'
  BY <1>1, HonestByRequests
<1>2. ASSUME NEW o \in Ops, Worker(o) \/ DatabaseFails(o) PROVE Honest'
  BY <1>2, HonestWhileRunning, HonestWithTheJob DEF Worker
<1>3. ASSUME NEW o \in Ops, Listen(o) PROVE Honest'
  BY <1>3, HonestListeners
<1>4. CASE WorkerDies
  BY <1>4 DEF WorkerDies, Idle, Quiet, Honest, Owned, Finishing, Reported
<1>5. CASE UNCHANGED vars
  BY <1>5 DEF vars, Honest, Owned, Finishing, Reported
<1>6. QED
  BY <1>1, <1>2, <1>3, <1>4, <1>5 DEF Next, Finished

\* An operation that says it succeeded had its job write a good verdict, in every
\* interleaving of jobs, their retries and the "completed" and "failed" listeners
\* (worker-connection.ts runs failOperation before the listener that completes).
THEOREM SucceededWasDoneAlways == Spec => []SucceededWasDone
<1>1. Init => Honest
  BY DEF Init, Honest, Owned, Finishing, Reported, Idle, Quiet, NoRequest, NoOp
<1>2. Honest => SucceededWasDone
  BY DEF Honest, Reported, SucceededWasDone
<1>3. QED
  BY <1>1, <1>2, TypeInit, TypeInvNext, HonestNext, PTL DEF Spec
===============================================================================
