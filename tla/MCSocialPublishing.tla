------------------------ MODULE MCSocialPublishing -------------------------
(***************************************************************************)
(* Instances of SocialPublishing for TLC.  Publications, schedulers,       *)
(* requests and workers are interchangeable, so safety runs use symmetry;  *)
(* runs with temporal properties do not.                                   *)
(***************************************************************************)
EXTENDS SocialPublishing, TLC

CONSTANTS p1, p2, s1, s2, r1, r2, w1, w2

OnePub == {p1}
TwoPubs == {p1, p2}
OneScheduler == {s1}
TwoSchedulers == {s1, s2}
NoRequests == {}
OneRequest == {r1}
TwoRequests == {r1, r2}
OneWorker == {w1}
TwoWorkers == {w1, w2}

NoOperations == {}
PatchOnly == {"patch"}
\* What an operator does to a row before it is published.
EditOperations == {"reschedule", "cancel", "retry", "delete"}

Ids2 == 1 .. 2
Ids3 == 1 .. 3
Ids4 == 1 .. 4

Symmetry == Permutations(TwoPubs) \cup Permutations(TwoSchedulers)
              \cup Permutations(TwoRequests) \cup Permutations(TwoWorkers)
=============================================================================
