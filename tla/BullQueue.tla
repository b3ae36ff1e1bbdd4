------------------------------ MODULE BullQueue ------------------------------
(***************************************************************************)
(* One BullMQ job as the workers of src/src/infrastructure/workers use it. *)
(* BullMQ itself is a library outside the repository: these operators say  *)
(* what its documented options (attempts, backoff, maxStalledCount, set in *)
(* queue/producer.ts and worker-runtime.ts) do to a job record.            *)
(*                                                                         *)
(* state: none (not added) | waiting | active | delayed | done | dead;     *)
(* tries = failed tries so far; stalls = times it lost its worker.         *)
(***************************************************************************)
EXTENDS Naturals

JobStates == {"none", "waiting", "active", "delayed", "done", "dead"}

Jobs == [state : JobStates, tries : Nat, stalls : Nat]

NoJob == [state |-> "none", tries |-> 0, stalls |-> 0]

Added(job) == [job EXCEPT !.state = "waiting"]

Taken(job) == [job EXCEPT !.state = "active"]

Completed(job) == [job EXCEPT !.state = "done"]

\* A processor that throws: another try after the backoff, or none is left.
TryFailed(job, attempts) ==
  [job EXCEPT !.tries = @ + 1,
              !.state = IF job.tries + 1 < attempts THEN "delayed" ELSE "dead"]

BackoffOver(job) == [job EXCEPT !.state = "waiting"]

\* The lock of an active job expired because its worker is gone.
Stalled(job, maxStalls) ==
  [job EXCEPT !.stalls = @ + 1,
              !.state = IF job.stalls + 1 > maxStalls THEN "dead" ELSE "waiting"]

JobLive(job) == job.state \in {"waiting", "active", "delayed"}
=============================================================================
