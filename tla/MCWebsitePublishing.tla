------------------------ MODULE MCWebsitePublishing ------------------------
(***************************************************************************)
(* Instances of WebsitePublishing for TLC.                                 *)
(***************************************************************************)
EXTENDS WebsitePublishing, TLC

CONSTANTS p1, p2, s1, s2, r1, r2, w1, w2

OnePub == {p1}
TwoPubs == {p1, p2}
NoSchedulers == {}
OneScheduler == {s1}
TwoSchedulers == {s1, s2}
NoRequests == {}
OneRequest == {r1}
TwoRequests == {r1, r2}
OneWorker == {w1}
TwoWorkers == {w1, w2}

NoOperations == {}
EditOperations == {"reschedule", "cancel", "retry", "delete"}
UnpublishOnly == {"unpublish"}
ArchiveOnly == {"archive"}
PostPublish == {"post_publish"}

Ids2 == 1 .. 2
Ids3 == 1 .. 3
Ids4 == 1 .. 4
Ids8 == 1 .. 8

Symmetry == Permutations(TwoSchedulers) \cup Permutations(TwoRequests)
              \cup Permutations(TwoWorkers)
=============================================================================
