------------------------------- MODULE Spending -------------------------------
(***************************************************************************)
(* What keeps the AI calls of the text and image workers within the        *)
(* budgets of a tenant: each call asks evaluateAiSpend first and enters    *)
(* what it cost in the ledger afterwards; a crossed limit is announced     *)
(* once per day.  Neither worker passes an estimate of the cost.           *)
(*                                                                         *)
(* Amounts are whole numbers.  A step is one read or one write.            *)
(***************************************************************************)
EXTENDS Integers, FiniteSets, FiniteSetsExt

CONSTANTS
  Workers,       \* processors of the text and image workers, over all processes
  Sites, Kinds,
  CostOf,        \* what a call of each kind costs
  BudgetIds,     \* cost_budgets rows
  FirstBudgets,  \* the rows there are at the start
  Offers,        \* what operators save: [id, limit, hard, action], see UpsertBudget
  MaxSpent,      \* bound: no call once a site has spent this much in a month
  MaxDays,       \* bound: midnights
  MaxEdits,      \* bound: budgets saved
  None

Periods == {"daily", "monthly"}

Actions == {"warn", "degrade", "delay", "pause"}

Levels == {"soft", "hard"}

BudgetRows == [site : Sites \cup {None}, kind : Kinds \cup {None}, period : Periods,
               limit : Nat, hard : Nat \cup {None}, action : Actions, enabled : BOOLEAN]

ASSUME SpendingConstants ==
  /\ IsFiniteSet(Workers) /\ IsFiniteSet(Sites) /\ IsFiniteSet(Kinds) /\ Kinds # {}
  /\ CostOf \in [Kinds -> Nat]
  /\ FirstBudgets \in [BudgetIds -> BudgetRows]
  /\ \A o \in Offers : /\ o.id \in BudgetIds /\ o.limit \in Nat
                       /\ o.hard \in Nat \cup {None} /\ o.action \in Actions
  /\ MaxSpent \in Nat /\ MaxDays \in Nat /\ MaxEdits \in Nat
  /\ None \notin Sites \cup Kinds \cup Nat

VARIABLES
  budget,    \* cost_budgets
  ledger,    \* ai_spend_events, summed per site since midnight and this month
  note,      \* notifications, by dedupeKey
  call,      \* what each worker is doing
  days, edits

vars == <<budget, ledger, note, call, days, edits>>

\* Faulty variant: one alert for both limits of a budget.
KeyWithoutLevel(site, period, level) == <<site, period, "soft">>

\* The dedupeKey of notifyBudgetEvent.
Key(site, period, level) == <<site, period, level>>

Keys == Sites \X Periods \X Levels

NoNote == [state |-> "none", level |-> "soft"]

CallSteps == {"idle", "evaluate", "notify", "create", "ask", "record"}

\* outcome: how the last evaluation ended; "threw" is an error, not a decision.
Calls == [pc : CallSteps, site : Sites \cup {None}, kind : Kinds \cup {None},
          period : Periods, level : Levels, then : {"refuse", "go", "continue"},
          outcome : {"none", "refused", "threw"}]

CallIdle == [pc |-> "idle", site |-> None, kind |-> None, period |-> "daily",
             level |-> "soft", then |-> "go", outcome |-> "none"]

TypeOK ==
  /\ budget \in [BudgetIds -> BudgetRows]
  /\ ledger \in [Sites -> [daily : Nat, monthly : Nat]]
  /\ note \in [Keys -> [state : {"none", "fresh", "old"}, level : Levels]]
  /\ call \in [Workers -> Calls]
  /\ days \in 0..MaxDays /\ edits \in 0..MaxEdits

Init ==
  /\ budget = FirstBudgets
  /\ ledger = [s \in Sites |-> [daily |-> 0, monthly |-> 0]]
  /\ note = [k \in Keys |-> NoNote]
  /\ call = [w \in Workers |-> CallIdle]
  /\ days = 0 /\ edits = 0

-----------------------------------------------------------------------------
(* Budgets *)

Applies(b, site, kind) == /\ b.enabled
                          /\ b.site \in {None, site} /\ b.kind \in {None, kind}

Specificity(b) == (IF b.site # None THEN 4 ELSE 0) + (IF b.kind # None THEN 2 ELSE 0)

Candidates(period, site, kind) ==
  {i \in BudgetIds : budget[i].period = period /\ Applies(budget[i], site, kind)}

\* pickMostSpecificBudget, each of several that are equally specific.
MostSpecific(period, site, kind) ==
  LET rows == Candidates(period, site, kind) IN
  {i \in rows : \A j \in rows : Specificity(budget[j]) <= Specificity(budget[i])}

\* getAiSpend of the row's site, or of the tenant; the row's kind is not asked.
SpentAt(sites, period) == MapThenSumSet(LAMBDA s : ledger[s][period], sites)

Spent(b) == SpentAt(IF b.site = None THEN Sites ELSE {b.site}, b.period)

Hard(b) == IF b.hard = None THEN b.limit * 2 ELSE b.hard

-----------------------------------------------------------------------------
(* A call of a worker *)

Takes(w, site, kind) ==
  /\ call[w].pc = "idle"
  /\ ledger[site].monthly < MaxSpent
  /\ call' = [call EXCEPT ![w] = [CallIdle EXCEPT !.pc = "evaluate", !.site = site,
                                                  !.kind = kind]]
  /\ UNCHANGED <<budget, ledger, note, days, edits>>

\* allowed = true, and allowed = false: the job fails and the call ends.
Granted(c) == [CallIdle EXCEPT !.pc = "ask", !.site = c.site, !.kind = c.kind]

Refused(c) == [CallIdle EXCEPT !.outcome = "refused", !.site = c.site,
                               !.period = c.period, !.level = c.level]

\* This period objects no more: the other one is asked, or the call is made.
Passed(c) == IF c.period = "daily"
               THEN [CallIdle EXCEPT !.pc = "evaluate", !.period = "monthly",
                                     !.site = c.site, !.kind = c.kind]
               ELSE Granted(c)

\* What follows once the alert is out.
Announced(c) ==
  CASE c.then = "refuse" -> Refused(c)
    [] c.then = "go" -> Granted(c)
    [] c.then = "continue" -> Passed(c)

\* What a crossed soft limit does.
Then(action) == CASE action \in {"pause", "delay"} -> "refuse"
                  [] action = "degrade" -> "go"
                  [] action = "warn" -> "continue"

\* Faulty variant: the soft limit is looked at first.
DecidedSoftFirst(c, b) ==
  CASE Spent(b) > b.limit ->
         [c EXCEPT !.pc = "notify", !.level = "soft", !.then = Then(b.action)]
    [] OTHER -> Passed(c)

Decided(c, b) ==
  CASE Spent(b) > Hard(b) -> [c EXCEPT !.pc = "notify", !.level = "hard", !.then = "refuse"]
    [] Spent(b) <= Hard(b) /\ Spent(b) > b.limit ->
         [c EXCEPT !.pc = "notify", !.level = "soft", !.then = Then(b.action)]
    [] OTHER -> Passed(c)

\* evaluateAiSpend, one period.
Evaluate(w) ==
  /\ call[w].pc = "evaluate"
  /\ LET c == call[w]
         rows == MostSpecific(c.period, c.site, c.kind) IN
     \/ rows = {} /\ call' = [call EXCEPT ![w] = Passed(c)]
     \/ \E i \in rows : call' = [call EXCEPT ![w] = Decided(c, budget[i])]
  /\ UNCHANGED <<budget, ledger, note, days, edits>>

KeyOf(c) == Key(c.site, c.period, c.level)

\* notify: an alert younger than the window is left alone, an older one comes up
\* again; its createdAt stays what it was.
NotifyReads(w) ==
  /\ call[w].pc = "notify"
  /\ LET c == call[w]  k == KeyOf(c) IN
     IF note[k].state = "none"
       THEN call' = [call EXCEPT ![w].pc = "create"] /\ UNCHANGED note
       ELSE /\ note' = IF note[k].state = "old" THEN [note EXCEPT ![k].level = c.level]
                       ELSE note
            /\ call' = [call EXCEPT ![w] = Announced(c)]
  /\ UNCHANGED <<budget, ledger, days, edits>>

\* The unique key (tenant, dedupeKey) makes the second create throw.
NotifyCreates(w) ==
  /\ call[w].pc = "create"
  /\ LET c == call[w]  k == KeyOf(c) IN
     IF note[k].state # "none"
       THEN call' = [call EXCEPT ![w] = [CallIdle EXCEPT !.outcome = "threw"]]
            /\ UNCHANGED note
       ELSE /\ note' = [note EXCEPT ![k] = [state |-> "fresh", level |-> c.level]]
            /\ call' = [call EXCEPT ![w] = Announced(c)]
  /\ UNCHANGED <<budget, ledger, days, edits>>

\* The provider answers, or the call fails and costs nothing.
AskProvider(w) ==
  /\ call[w].pc = "ask"
  /\ \/ call' = [call EXCEPT ![w].pc = "record"]
     \/ call' = [call EXCEPT ![w] = CallIdle]
  /\ UNCHANGED <<budget, ledger, note, days, edits>>

\* recordAiSpend.
RecordSpend(w) ==
  /\ call[w].pc = "record"
  /\ LET c == call[w] IN
     ledger' = [ledger EXCEPT ![c.site].daily = @ + CostOf[c.kind],
                              ![c.site].monthly = @ + CostOf[c.kind]]
  /\ call' = [call EXCEPT ![w] = CallIdle]
  /\ UNCHANGED <<budget, note, days, edits>>

\* The worker dies, or the statement fails, with the answer in hand: the ledger
\* never hears of it.
RecordFails(w) ==
  /\ call[w].pc = "record"
  /\ call' = [call EXCEPT ![w] = CallIdle]
  /\ UNCHANGED <<budget, ledger, note, days, edits>>

-----------------------------------------------------------------------------
(* Operators and the calendar *)

\* upsertCostBudget of a row there is: the hard limit is compared with the soft
\* one only when both are given, and kept when it is not given.
UpsertBudget(o) ==
  /\ edits < MaxEdits /\ edits' = edits + 1
  /\ (o.hard # None => o.hard >= o.limit)
  /\ budget' = [budget EXCEPT
       ![o.id].limit = o.limit, ![o.id].action = o.action,
       ![o.id].hard = IF o.hard = None THEN @ ELSE o.hard]
  /\ UNCHANGED <<ledger, note, call, days>>

\* A new day, or a new month.  The alerts are then older than the window: the
\* 24 hours are rounded to the day.
Midnight ==
  /\ days < MaxDays /\ days' = days + 1
  /\ \E newMonth \in BOOLEAN :
       ledger' = [s \in Sites |->
                   [daily |-> 0, monthly |-> IF newMonth THEN 0 ELSE ledger[s].monthly]]
  /\ note' = [k \in Keys |-> IF note[k].state = "none" THEN note[k]
                              ELSE [note[k] EXCEPT !.state = "old"]]
  /\ UNCHANGED <<budget, call, edits>>

Next ==
  \/ \E w \in Workers :
       \/ \E s \in Sites, k \in Kinds : Takes(w, s, k)
       \/ Evaluate(w) \/ NotifyReads(w) \/ NotifyCreates(w)
       \/ AskProvider(w) \/ RecordSpend(w) \/ RecordFails(w)
  \/ \E o \in Offers : UpsertBudget(o)
  \/ Midnight

Spec == Init /\ [][Next]_vars

-----------------------------------------------------------------------------
(* Properties *)

\* Every call the row counts is decided by the row.
Governs(i) ==
  \A s \in Sites, k \in Kinds :
    budget[i].site \in {None, s} => MostSpecific(budget[i].period, s, k) = {i}

\* A degraded call of the day is not asked about the month.
Asked(i) == \/ budget[i].period = "daily"
            \/ \A j \in BudgetIds : budget[j].period = "monthly"
                                    \/ budget[j].action # "degrade"

Dearest == Max({CostOf[k] : k \in Kinds})

\* The ledger passes a hard limit by the calls that were under way when it was
\* reached, one for each worker, and by no more: the gate reads the ledger, and
\* nothing reserves what a call is going to cost.
OvershootBounded ==
  \A i \in BudgetIds :
    /\ edits = 0 /\ budget[i].enabled /\ Governs(i) /\ Asked(i)
    => Spent(budget[i]) <= Hard(budget[i]) + Dearest * Cardinality(Workers)

\* A refused call is never a silent one: an alert about the limit that refused
\* it, the hard one or the soft one, is among the notifications.
RefusalAnnounced ==
  \A w \in Workers :
    LET c == call[w] IN
    c.outcome = "refused" =>
      \E k \in Keys : /\ k[1] = c.site /\ k[2] = c.period
                      /\ note[k].state # "none" /\ note[k].level = c.level

\* cost-budgets.ts:4, "A hard limit is never exceeded silently: evaluateAiSpend
\* returns allowed=false whenever the estimated spend would cross hardLimitUsd".
HardLimitRefuses ==
  [][\A w \in Workers :
       call[w].pc # "ask" /\ call'[w].pc = "ask" =>
         \A p \in Periods : \A i \in MostSpecific(p, call[w].site, call[w].kind) :
           Spent(budget[i]) <= Hard(budget[i])]_vars
=============================================================================
