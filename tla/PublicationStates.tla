------------------------- MODULE PublicationStates -------------------------
(***************************************************************************)
(* The durable publication row of src/src/studio/publication.ts: its       *)
(* lifecycle states, the transition table the code declares, the guard of  *)
(* every operation that reads a row before it changes it, and the update   *)
(* each operation writes.  The operators are pure.  Guards look at a row   *)
(* as it was READ; updates apply to the row as it IS when the write lands, *)
(* because the code reads and writes in two database statements.           *)
(*                                                                         *)
(* Fields: status; dated = "scheduledFor is set"; retries = retryCount;    *)
(* retryAt = "nextRetryAt is set";                                         *)
(* class = failureClass; unpub = metadata.unpublishRequested; ext = the    *)
(* number of the remote post externalId names (0: null); attempt =         *)
(* currentAttempt.  The dates themselves are not kept: which of them have  *)
(* passed is a free choice of the claim.                                   *)
(***************************************************************************)
EXTENDS Naturals

States == {"draft", "ready", "scheduled", "queued", "publishing",
           "published", "failed", "canceled", "deleted", "unpublished"}

AllowedTransitions ==
  [draft       |-> {"ready", "scheduled", "canceled", "deleted"},
   ready       |-> {"scheduled", "queued", "canceled", "deleted"},
   scheduled   |-> {"queued", "canceled", "deleted", "draft"},
   queued      |-> {"publishing", "canceled", "failed", "deleted"},
   publishing  |-> {"published", "failed", "unpublished"},
   published   |-> {"unpublished", "ready", "deleted"},
   failed      |-> {"queued", "canceled", "deleted", "draft"},
   canceled    |-> {"scheduled", "deleted"},
   deleted     |-> {},
   unpublished |-> {"deleted", "ready"}]

CanTransition(from, to) == to \in AllowedTransitions[from]

\* transitionPublication throws unless this holds; a no-op is accepted.
TransitionAccepted(from, to) == from = to \/ CanTransition(from, to)

FailureClasses == {"none", "transient", "permanent"}

Rows == [status : States, dated : BOOLEAN, retries : Nat, retryAt : BOOLEAN,
         class : FailureClasses, unpub : BOOLEAN, ext : Nat, attempt : Nat]

NewRow(status) ==
  [status |-> status, dated |-> status = "scheduled", retries |-> 0, retryAt |-> FALSE, class |-> "none",
   unpub |-> FALSE, ext |-> 0, attempt |-> 0]

\* A row without a date is a draft; one with a date is scheduled.
CreatedRows == {NewRow("draft"), NewRow("scheduled")}

-----------------------------------------------------------------------------
(* Guards, on the row as read *)

CanEdit(row, target) ==
  /\ row.status \notin {"publishing", "published", "deleted"}
  /\ TransitionAccepted(row.status, target)

CanRetry(row) == row.status \in {"failed", "canceled"}

CanDelete(row) == row.status # "publishing"

CanUnpublish(row) == row.status = "published" /\ row.ext # 0

\* Faulty variant: rows that look stuck in publishing are claimed again.
ClaimableStuck(row) ==
  \/ row.status \in {"scheduled", "publishing"} /\ row.dated
  \/ row.status = "failed" /\ row.retryAt

\* scheduled and due, or failed with a retry date that has passed.
Claimable(row) ==
  \/ row.status = "scheduled" /\ row.dated
  \/ row.status = "failed" /\ row.retryAt

-----------------------------------------------------------------------------
(* Updates, on the row as it is at the write; `seen' is the row as read *)

\* An edit may bring a date (`dated') or keep the one it read; it writes back
\* the retry date and the class it read.
Rescheduled(row, seen, dated) ==
  [row EXCEPT !.status = "scheduled", !.dated = dated \/ seen.dated,
              !.retryAt = seen.retryAt, !.class = seen.class]

Canceled(row) ==
  [row EXCEPT !.status = "canceled", !.retryAt = FALSE, !.class = "none"]

\* Faulty variant: the retry queues the row itself, and nobody enqueues it.
RetriedAsQueued(row) ==
  [row EXCEPT !.status = "queued", !.retryAt = FALSE, !.class = "none"]

\* A manual retry does not reset the retry counter; a missing date is now.
Retried(row) ==
  [row EXCEPT !.status = "scheduled", !.dated = TRUE,
              !.retryAt = FALSE, !.class = "none"]

\* Faulty variant: what is deleted is wiped.
DeletedAndWiped(row) == NewRow("deleted")

Deleted(row) == [row EXCEPT !.status = "deleted"]

\* Faulty variant: the row says unpublished as soon as it is asked for.
UnpublishedAtOnce(row) == [row EXCEPT !.status = "unpublished", !.unpub = TRUE]

UnpublishQueued(row) ==
  [row EXCEPT !.status = "queued", !.retryAt = FALSE, !.unpub = TRUE]

Claimed(row) == [row EXCEPT !.status = "queued"]

\* Faulty variants: only one of the two columns is written.
MarkedWithoutNumber(row, num) == [row EXCEPT !.status = "publishing"]
MarkedWithoutStatus(row, num) == [row EXCEPT !.attempt = num]

MarkedPublishing(row, num) ==
  [row EXCEPT !.status = "publishing", !.attempt = num]

ReleaseBlocked(row) == [row EXCEPT !.status = "ready"]

\* The scheduler's catch clause leaves a retry date that was already set.
EnqueueFailed(row) ==
  [row EXCEPT !.status = "failed", !.class = "permanent"]

\* Faulty variant: the attempt's vocabulary is written to the publication.
SucceededAsAttempt(row, seen, post) == [row EXCEPT !.status = "succeeded"]

\* Faulty variant: the external id of the result is dropped.
SucceededWithoutId(row, seen, post) ==
  [row EXCEPT !.status = IF seen.unpub THEN "unpublished" ELSE "published",
              !.class = "none", !.retryAt = FALSE]

\* succeedAttempt: post = 0 stands for a null external id in the result.
Succeeded(row, seen, post) ==
  [row EXCEPT !.status = IF seen.unpub THEN "unpublished" ELSE "published",
              !.ext = IF post # 0 THEN post ELSE seen.ext,
              !.class = "none", !.retryAt = FALSE]

\* Faulty variants: the budget is off by one, or is not looked at.
TerminalTooLate(class, retries, maxRetries) ==
  class = "permanent" \/ retries > maxRetries + 1
NeverTerminal(class, retries, maxRetries) == FALSE

TerminalFailure(class, retries, maxRetries) ==
  class = "permanent" \/ retries > maxRetries

\* failAttempt: the new counter is computed from the counter that was read.
AttemptFailed(row, seenRetries, class, maxRetries) ==
  [row EXCEPT !.status = "failed", !.retries = seenRetries + 1,
              !.class = class,
              !.retryAt = ~TerminalFailure(class, seenRetries + 1, maxRetries)]

UnpublishRecorded(row) == [row EXCEPT !.status = "unpublished"]
=============================================================================
