------------------------------ MODULE MCSpending ------------------------------
(* Small instances of Spending for TLC. *)
EXTENDS Spending, TLC

CONSTANTS w1, w2, a, b, text, image, day, month, siteDay

Costs == [k \in Kinds |-> IF k = image THEN 2 ELSE 1]

Budget(site, period, limit, hard, action) ==
  [site |-> site, kind |-> None, period |-> period, limit |-> limit, hard |-> hard,
   action |-> action, enabled |-> TRUE]

\* The tenant's day and month; one site has a day of its own.
ThreeBudgets ==
  [i \in BudgetIds |->
     CASE i = day -> Budget(None, "daily", 1, 2, "delay")
       [] i = month -> Budget(None, "monthly", 1, None, "warn")
       [] i = siteDay -> Budget(a, "daily", 1, 1, "warn")]

\* A day that degrades under a month that must not be passed.
DegradingDay ==
  [i \in BudgetIds |->
     CASE i = day -> Budget(None, "daily", 0, 9, "degrade")
       [] i = month -> Budget(None, "monthly", 1, 2, "pause")]

Raised == {[id |-> day, limit |-> 3, hard |-> None, action |-> "warn"]}

Symmetry == Permutations(Workers)
=============================================================================
