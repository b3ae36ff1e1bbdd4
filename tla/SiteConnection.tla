---------------------------- MODULE SiteConnection ----------------------------
(***************************************************************************)
(* How a website becomes a destination: one connector installation of kind *)
(* website, the requests of operators that move it, the discovery and      *)
(* verification jobs of queue_connection that move it too, and the         *)
(* operation rows that report on those jobs.                               *)
(*                                                                         *)
(* transitionInstallation reads the row, asks the transition table, and    *)
(* then updates by id: the read and the write are two steps here.          *)
(***************************************************************************)
EXTENDS Naturals, FiniteSets, BullQueue

CONSTANTS
  Started,       \* whether credentials have been asked for and stored already
  Requests,      \* HTTP requests in flight at a time
  Kinds,         \* what they may ask for
  MaxRequests,   \* bound: requests in all
  Ops,           \* operations rows, each with its BullMQ job
  MaxSecrets,    \* bound: sets of credentials stored
  Concurrency,   \* WORKER_CONNECTION_CONCURRENCY
  BullAttempts,  \* WORKER_MAX_ATTEMPTS
  MaxStalls,     \* WORKER_MAX_STALLED_COUNT
  Failures,      \* what may fail: see AllFailures
  MaxFailures,   \* bound: how often
  None

AllKinds == {"discover", "credentials", "verify", "activate", "cancel", "resume", "delete"}

\* A statement of the worker, the worker's process, a request's process.
AllFailures == {"database", "worker", "request"}

ASSUME ConnectionConstants ==
  /\ Kinds \subseteq AllKinds /\ Started \in BOOLEAN
  /\ MaxRequests \in Nat /\ MaxSecrets \in Nat \ {0} /\ Concurrency \in Nat \ {0}
  /\ BullAttempts \in Nat \ {0} /\ MaxStalls \in Nat
  /\ Failures \subseteq AllFailures /\ MaxFailures \in Nat
  /\ None \notin Ops

VARIABLES
  inst,      \* the connector_installations row: state and set of credentials
  op,        \* operations rows and their jobs
  run,       \* what the worker does for each of them
  heard,     \* runs of the worker's listeners, counted by what they do next
  req,       \* what each request is doing
  asked,     \* requests so far
  probed,    \* history: credentials that passed a verification
  told,      \* history: operations whose job wrote that all went well
  failures

vars == <<inst, op, run, heard, req, asked, probed, told, failures>>

-----------------------------------------------------------------------------
(* Rows *)

States == {"draft", "discovering", "credentials_required", "verifying", "ready",
           "active", "failed", "expired", "disabled", "cancelled"}

Transitions ==
  [draft                |-> {"discovering", "credentials_required", "ready", "cancelled"},
   discovering          |-> {"discovering", "credentials_required", "failed", "draft", "cancelled"},
   credentials_required |-> {"discovering", "verifying", "ready", "draft", "failed", "cancelled"},
   verifying            |-> {"verifying", "ready", "failed", "credentials_required", "cancelled"},
   ready                |-> {"discovering", "active", "cancelled", "draft"},
   active               |-> {"disabled", "expired", "failed", "cancelled"},
   failed               |-> {"discovering", "draft", "credentials_required", "verifying", "cancelled"},
   expired              |-> {"credentials_required", "cancelled"},
   disabled             |-> {"active", "cancelled"},
   cancelled            |-> {"draft"}]

CanTransition(from, to) == to \in Transitions[from]

Gone == "gone"   \* the row was deleted

Secrets == 0..MaxSecrets   \* 0: none stored yet

JobKinds == {"discover", "verify"}

NoOp == [kind |-> "none", status |-> "none", job |-> NoJob]

OpRows == [kind : JobKinds \cup {"none"},
           status : {"none", "queued", "running", "succeeded", "failed"}, job : Jobs]

InstRows == [state : States \cup {Gone}, secrets : Secrets]

RunSteps == {"idle", "start", "discover", "verify", "read", "write", "refuse", "report",
             "catch", "catchWrite", "catchFail", "throw"}

Runs == [pc : RunSteps, secrets : Secrets, to : States \cup {"none"}]

Idle == [pc |-> "idle", secrets |-> 0, to |-> "none"]

Listeners == [failedRead : Nat, failedWrite : Nat, doneRead : Nat, doneWrite : Nat]

Quiet == [failedRead |-> 0, failedWrite |-> 0, doneRead |-> 0, doneWrite |-> 0]

ReqSteps == {"idle", "store", "delete", "read", "write", "create", "enqueue"}

ReqStates == [pc : ReqSteps, kind : AllKinds \cup {"none"}, to : States \cup {"none"},
              op : Ops \cup {None}]

NoRequest == [pc |-> "idle", kind |-> "none", to |-> "none", op |-> None]

TypeOK ==
  /\ inst \in InstRows
  /\ op \in [Ops -> OpRows]
  /\ run \in [Ops -> Runs]
  /\ heard \in [Ops -> Listeners]
  /\ req \in [Requests -> ReqStates]
  /\ asked \in 0..MaxRequests /\ failures \in 0..MaxFailures
  /\ probed \subseteq Secrets /\ told \subseteq Ops

\* createInstallation; or where discovery and the credentials form leave it.
Init ==
  /\ inst = IF Started THEN [state |-> "credentials_required", secrets |-> 1]
            ELSE [state |-> "draft", secrets |-> 0]
  /\ op = [o \in Ops |-> NoOp]
  /\ run = [o \in Ops |-> Idle]
  /\ heard = [o \in Ops |-> Quiet]
  /\ req = [x \in Requests |-> NoRequest]
  /\ asked = 0 /\ probed = {} /\ told = {} /\ failures = 0

Fails(kind) == kind \in Failures /\ failures < MaxFailures /\ failures' = failures + 1

Moved(to) == inst' = [inst EXCEPT !.state = to]

-----------------------------------------------------------------------------
(* Requests *)

ReqGoto(x, pc) == req' = [req EXCEPT ![x] = IF pc = "idle" THEN NoRequest
                                             ELSE [@ EXCEPT !.pc = pc]]

\* Bound: no job is asked for that would find no free operation row.
RowsLeft ==
  Cardinality({o \in Ops : op[o] = NoOp})
    > Cardinality({x \in Requests : req[x].kind \in JobKinds /\ req[x].pc # "enqueue"})

\* What the route needs of the row it loads, to go on with the request.
Accepts(kind) ==
  CASE kind = "verify"   -> inst.secrets # 0
    [] kind = "activate" -> inst.state = "ready"
    [] kind = "cancel"   -> inst.state \notin {"cancelled", "active", "disabled"}
    [] kind = "delete"   -> inst.state \notin {"active", "disabled"}
    [] OTHER             -> TRUE

\* Faulty variant: the spelling of the publication states.
WantsCanceled == [discover |-> "discovering", verify |-> "verifying", activate |-> "active",
                  cancel |-> "canceled", resume |-> "credentials_required"]

Wants == [discover |-> "discovering", verify |-> "verifying", activate |-> "active",
          cancel |-> "cancelled", resume |-> "credentials_required"]

\* The route loads the installation and decides whether to go on.
Ask(x) ==
  /\ req[x].pc = "idle" /\ asked < MaxRequests /\ inst.state # Gone
  /\ asked' = asked + 1
  /\ \E kind \in Kinds :
       /\ Accepts(kind) /\ (kind \in JobKinds => RowsLeft)
       /\ req' = [req EXCEPT ![x] = [NoRequest EXCEPT
                    !.kind = kind,
                    !.to = IF kind \in DOMAIN Wants THEN Wants[kind] ELSE "none",
                    !.pc = CASE kind = "credentials" -> "store"
                             [] kind = "delete"      -> "delete"
                             [] OTHER                -> "read"]]
  /\ UNCHANGED <<inst, op, run, heard, probed, told, failures>>

\* storeInstallationCredentials: whatever the state; a deleted row throws.
StoreCredentials(x) ==
  /\ req[x].pc = "store"
  /\ inst' = IF inst.state = Gone \/ inst.secrets = MaxSecrets THEN inst
             ELSE [inst EXCEPT !.secrets = @ + 1]
  /\ ReqGoto(x, "idle")
  /\ UNCHANGED <<op, run, heard, asked, probed, told, failures>>

\* deleteInstallationDraft.
Delete(x) ==
  /\ req[x].pc = "delete"
  /\ Moved(Gone)
  /\ ReqGoto(x, "idle")
  /\ UNCHANGED <<op, run, heard, asked, probed, told, failures>>

\* Where a request goes once the transition is made, or was not needed.
AfterMove(x) == IF req[x].kind \in JobKinds THEN "create" ELSE "idle"

\* discover and activate come with a patch, so they never count as done already.
NothingToDo(x) == inst.state = req[x].to /\ req[x].kind \notin {"discover", "activate"}

\* transitionInstallation reads the row ...
ReadToMove(x) ==
  /\ req[x].pc = "read"
  /\ ReqGoto(x, IF NothingToDo(x) THEN AfterMove(x)
                ELSE IF inst.state # Gone /\ CanTransition(inst.state, req[x].to) THEN "write"
                ELSE "idle")
  /\ UNCHANGED <<inst, op, run, heard, asked, probed, told, failures>>

\* ... and updates it by its id.
WriteMove(x) ==
  /\ req[x].pc = "write"
  /\ IF inst.state = Gone
     THEN ReqGoto(x, "idle") /\ UNCHANGED inst
     ELSE ReqGoto(x, AfterMove(x)) /\ Moved(req[x].to)
  /\ UNCHANGED <<op, run, heard, asked, probed, told, failures>>

FreeOp == CHOOSE o \in Ops : op[o] = NoOp

CreateOperation(x) ==
  /\ req[x].pc = "create"
  /\ \E o \in Ops :
       /\ o = FreeOp /\ op[o] = NoOp
       /\ op' = [op EXCEPT ![o].kind = req[x].kind, ![o].status = "queued"]
       /\ req' = [req EXCEPT ![x].pc = "enqueue", ![x].op = o]
  /\ UNCHANGED <<inst, run, heard, asked, probed, told, failures>>

EnqueueConnectionJob(x) ==
  /\ req[x].pc = "enqueue"
  /\ op' = [op EXCEPT ![req[x].op].job = Added(@)]
  /\ req' = [req EXCEPT ![x] = NoRequest]
  /\ UNCHANGED <<inst, run, heard, asked, probed, told, failures>>

\* A call throws, or the process ends.
RequestDies(x) ==
  /\ req[x].pc # "idle" /\ Fails("request")
  /\ req' = [req EXCEPT ![x] = NoRequest]
  /\ UNCHANGED <<inst, op, run, heard, asked, probed, told>>

Request(x) == \/ StoreCredentials(x) \/ Delete(x) \/ ReadToMove(x) \/ WriteMove(x)
              \/ CreateOperation(x) \/ EnqueueConnectionJob(x)

-----------------------------------------------------------------------------
(* The connection worker *)

Goto(o, pc) == run' = [run EXCEPT ![o].pc = pc]

\* The processor throws: BullMQ counts the try and the listener hears of it.
ThrowOut(o) ==
  /\ op' = [op EXCEPT ![o].job = TryFailed(@, BullAttempts)]
  /\ run' = [run EXCEPT ![o] = Idle]
  /\ heard' = [heard EXCEPT ![o].failedRead = @ + 1]

\* A job is taken and the installation, with its secrets, is read.
TakeJob(o) ==
  /\ op[o].job.state = "waiting" /\ run[o].pc = "idle"
  /\ Cardinality({p \in Ops : run[p].pc # "idle"}) < Concurrency
  /\ op' = [op EXCEPT ![o].job = Taken(@)]
  /\ run' = [run EXCEPT ![o] = [Idle EXCEPT !.secrets = inst.secrets,
                                  !.pc = IF inst.state = Gone THEN "throw" ELSE "start"]]
  /\ UNCHANGED <<inst, heard, req, asked, probed, told, failures>>

StartOperation(o) ==
  /\ run[o].pc = "start"
  /\ op' = [op EXCEPT ![o].status = "running"]
  /\ Goto(o, IF op[o].kind = "discover" THEN "discover" ELSE "verify")
  /\ UNCHANGED <<inst, heard, req, asked, probed, told, failures>>

\* discoverWebsite reads the site, or throws.
DiscoverWebsite(o) ==
  /\ run[o].pc = "discover"
  /\ \/ run' = [run EXCEPT ![o].pc = "read", ![o].to = "credentials_required"]
     \/ Goto(o, "catch")
  /\ UNCHANGED <<inst, op, heard, req, asked, probed, told, failures>>

\* A probe passes, fails, or finds nothing it supports; none throws.
Outcomes == SUBSET {"passed", "failed", "not_supported"} \ {{}}

\* Faulty variant: it is enough that no probe failed.
NoneFailed(outcomes) == "failed" \notin outcomes

\* summarize: no probe failed and one passed.
Verified(outcomes) == "failed" \notin outcomes /\ "passed" \in outcomes

\* verifyWebsiteConnector, with the secrets that were read.
VerifyWebsite(o) ==
  /\ run[o].pc = "verify"
  /\ \E outcomes \in Outcomes :
       /\ run' = [run EXCEPT ![o].pc = "read",
                             ![o].to = IF Verified(outcomes) THEN "ready" ELSE "failed"]
       /\ probed' = IF outcomes \cap {"passed", "failed"} = {"passed"}
                    THEN probed \cup {run[o].secrets} ELSE probed
  /\ UNCHANGED <<inst, op, heard, req, asked, told, failures>>

\* transitionInstallation to the verdict: reads and asks the table ...
ReadForVerdict(o) ==
  /\ run[o].pc = "read"
  /\ Goto(o, IF inst.state # Gone /\ CanTransition(inst.state, run[o].to)
             THEN "write" ELSE "catch")
  /\ UNCHANGED <<inst, op, heard, req, asked, probed, told, failures>>

\* ... and writes it.
WriteVerdict(o) ==
  /\ run[o].pc = "write"
  /\ IF inst.state = Gone
     THEN Goto(o, "catch") /\ UNCHANGED <<inst, told>>
     ELSE /\ Moved(run[o].to)
          /\ Goto(o, IF run[o].to = "failed" THEN "refuse" ELSE "report")
          /\ told' = IF run[o].to = "failed" THEN told ELSE told \cup {o}
  /\ UNCHANGED <<op, heard, req, asked, probed, failures>>

\* Faulty variant: the refused verification only reports.
LeaveOperation(o) ==
  /\ run[o].pc = "refuse"
  /\ Goto(o, "report")
  /\ UNCHANGED <<inst, op, heard, req, asked, probed, told, failures>>

\* A verification that did not pass fails its operation, not its job.
FailOperation(o) ==
  /\ run[o].pc = "refuse"
  /\ op' = [op EXCEPT ![o].status = "failed"]
  /\ Goto(o, "report")
  /\ UNCHANGED <<inst, heard, req, asked, probed, told, failures>>

\* publishEvent and notify, and the job is done.
CompleteJob(o) ==
  /\ run[o].pc = "report"
  /\ op' = [op EXCEPT ![o].job = Completed(@)]
  /\ run' = [run EXCEPT ![o] = Idle]
  /\ heard' = [heard EXCEPT ![o].doneRead = @ + 1]
  /\ UNCHANGED <<inst, req, asked, probed, told, failures>>

\* Faulty variant: the catch clause leaves the installation to BullMQ's next try.
CatchRethrows(o) ==
  /\ run[o].pc = "catch"
  /\ Goto(o, "throw")
  /\ UNCHANGED <<inst, op, heard, req, asked, probed, told, failures>>

\* The catch clause moves the installation to failed, when the table allows it ...
CatchRead(o) ==
  /\ run[o].pc = "catch"
  /\ Goto(o, IF inst.state # Gone /\ CanTransition(inst.state, "failed")
             THEN "catchWrite" ELSE "throw")
  /\ UNCHANGED <<inst, op, heard, req, asked, probed, told, failures>>

CatchWrite(o) ==
  /\ run[o].pc = "catchWrite"
  /\ IF inst.state = Gone
     THEN Goto(o, "throw") /\ UNCHANGED inst
     ELSE Goto(o, "catchFail") /\ Moved("failed")
  /\ UNCHANGED <<op, heard, req, asked, probed, told, failures>>

\* ... and only then fails the operation ...
CatchFailOperation(o) ==
  /\ run[o].pc = "catchFail"
  /\ op' = [op EXCEPT ![o].status = "failed"]
  /\ Goto(o, "throw")
  /\ UNCHANGED <<inst, heard, req, asked, probed, told, failures>>

\* ... before it throws again.
Throw(o) ==
  /\ run[o].pc = "throw"
  /\ ThrowOut(o)
  /\ UNCHANGED <<inst, req, asked, probed, told, failures>>

\* A statement throws: inside the try block the catch clause is next.
DatabaseFails(o) ==
  /\ run[o].pc \notin {"idle", "throw"} /\ Fails("database")
  /\ Goto(o, IF run[o].pc \in {"start", "catch", "catchWrite", "catchFail"}
             THEN "throw" ELSE "catch")
  /\ UNCHANGED <<inst, op, heard, req, asked, probed, told>>

\* The process ends; its listeners end with it.
WorkerDies ==
  /\ \E o \in Ops : run[o].pc # "idle" \/ heard[o] # Quiet
  /\ Fails("worker")
  /\ run' = [o \in Ops |-> Idle]
  /\ heard' = [o \in Ops |-> Quiet]
  /\ UNCHANGED <<inst, op, req, asked, probed, told>>

RecoverStalled(o) ==
  /\ op[o].job.state = "active" /\ run[o].pc = "idle"
  /\ op' = [op EXCEPT ![o].job = Stalled(@, MaxStalls)]
  /\ heard' = IF op'[o].job.state = "dead" THEN [heard EXCEPT ![o].failedRead = @ + 1]
              ELSE heard
  /\ UNCHANGED <<inst, run, req, asked, probed, told, failures>>

DelayOver(o) ==
  /\ op[o].job.state = "delayed"
  /\ op' = [op EXCEPT ![o].job = BackoffOver(@)]
  /\ UNCHANGED <<inst, run, heard, req, asked, probed, told, failures>>

Worker(o) == \/ TakeJob(o) \/ StartOperation(o) \/ DiscoverWebsite(o) \/ VerifyWebsite(o)
             \/ ReadForVerdict(o) \/ WriteVerdict(o) \/ FailOperation(o) \/ CompleteJob(o)
             \/ CatchRead(o) \/ CatchWrite(o) \/ CatchFailOperation(o) \/ Throw(o)
             \/ RecoverStalled(o) \/ DelayOver(o)

-----------------------------------------------------------------------------
(* The worker's listeners read the operation and then write it *)

\* Faulty variant: a running operation is taken to be retried.
FailedReadsQueued(o) ==
  /\ heard[o].failedRead > 0
  /\ heard' = [heard EXCEPT ![o].failedRead = @ - 1,
                            ![o].failedWrite = IF op[o].status = "queued" THEN @ + 1 ELSE @]
  /\ UNCHANGED <<inst, op, run, req, asked, probed, told, failures>>

FailedReads(o) ==
  /\ heard[o].failedRead > 0
  /\ heard' = [heard EXCEPT ![o].failedRead = @ - 1,
                            ![o].failedWrite = IF op[o].status = "failed" THEN @ ELSE @ + 1]
  /\ UNCHANGED <<inst, op, run, req, asked, probed, told, failures>>

FailedWrites(o) ==
  /\ heard[o].failedWrite > 0
  /\ heard' = [heard EXCEPT ![o].failedWrite = @ - 1]
  /\ op' = [op EXCEPT ![o].status = "failed"]
  /\ UNCHANGED <<inst, run, req, asked, probed, told, failures>>

CompletedReads(o) ==
  /\ heard[o].doneRead > 0
  /\ heard' = [heard EXCEPT ![o].doneRead = @ - 1,
                            ![o].doneWrite = IF op[o].status \in {"queued", "running"}
                                             THEN @ + 1 ELSE @]
  /\ UNCHANGED <<inst, op, run, req, asked, probed, told, failures>>

CompletedWrites(o) ==
  /\ heard[o].doneWrite > 0
  /\ heard' = [heard EXCEPT ![o].doneWrite = @ - 1]
  /\ op' = [op EXCEPT ![o].status = "succeeded"]
  /\ UNCHANGED <<inst, run, req, asked, probed, told, failures>>

Listen(o) == \/ FailedReads(o) \/ FailedWrites(o) \/ CompletedReads(o) \/ CompletedWrites(o)

-----------------------------------------------------------------------------

\* Nothing is left to do (the bound on requests is reached).
Finished ==
  /\ asked = MaxRequests \/ inst.state = Gone
  /\ \A x \in Requests : req[x].pc = "idle"
  /\ \A o \in Ops : ~JobLive(op[o].job) /\ heard[o] = Quiet
  /\ UNCHANGED vars

Next ==
  \/ \E x \in Requests : Ask(x) \/ Request(x) \/ RequestDies(x)
  \/ \E o \in Ops : Worker(o) \/ DatabaseFails(o) \/ Listen(o)
  \/ WorkerDies
  \/ Finished

Spec == Init /\ [][Next]_vars

\* A request that started goes on, the worker and its listeners run, and the
\* site answers or throws; nobody is obliged to ask for anything.
Fairness ==
  /\ \A x \in Requests : WF_vars(Request(x))
  /\ \A o \in Ops : WF_vars(Worker(o)) /\ WF_vars(Listen(o))

FairSpec == Spec /\ Fairness

-----------------------------------------------------------------------------
(* Properties *)

\* No destination is active unless a verification of this installation passed:
\* only a passed verification makes it ready, and only from ready can it be
\* activated, whatever the requests and jobs in between do (routes-connectors.ts
\* activate, runVerification).
ActiveWasVerified == inst.state = "active" => probed # {}

\* An operation reports success only for a job that wrote a good verdict: a
\* verification that was refused completes its job, but has failed its operation
\* before the "completed" listener looks.
SucceededWasDone == \A o \in Ops : op[o].status = "succeeded" => o \in told

Waiting == inst.state \in {"discovering", "verifying"}

\* "discovering" and "verifying" are waiting states: whoever wrote them has a
\* job coming that moves the installation on, also when requests and jobs
\* interleave and the site cannot be read; nothing recovers an installation
\* whose request or worker broke off.
Settles == Waiting ~> (~Waiting \/ failures > 0)

\* An operation whose job was queued is reported succeeded or failed in the end
\* and stays so, though the worker, two listeners and BullMQ's retries write it.
OperationsSettle ==
  \A o \in Ops : op[o].job.state # "none"
                   ~> ([](op[o].status \in {"succeeded", "failed"}) \/ failures > 0)

\* The credentials of an active destination are ones that passed a verification
\* (they can be replaced between the verification and the activation).
ActiveSecretsVerified == inst.state = "active" => inst.secrets \in probed

\* A destination that is active is taken down only by a verification that did not pass.
ActiveStays ==
  [][inst.state = "active" /\ inst'.state = "failed"
       => \E o \in Ops : run[o].pc = "write" /\ run[o].to = "failed"]_vars
=============================================================================
