---------------------------- MODULE SpendingProofs ----------------------------
(***************************************************************************)
(* Theorems of Spending, for every value of its constants.                 *)
(***************************************************************************)
EXTENDS Spending, TLAPS, WellFoundedInduction, FiniteSetTheorems

-----------------------------------------------------------------------------
(* What the decisions about one call return *)

\* A call that is being decided: it has a site and a kind, and no outcome yet.
Busy == {c \in Calls : c.site \in Sites /\ c.kind \in Kinds /\ c.outcome = "none"}

LEMMA NoneIsNoSite == None \notin Sites /\ None \notin Kinds /\ None \notin Nat
  BY SpendingConstants

LEMMA IdleType == CallIdle \in Calls
  BY DEF CallIdle, Calls, CallSteps, Periods, Levels

LEMMA DecisionTypes ==
  ASSUME NEW c \in Busy
  PROVE  /\ Granted(c) \in Busy /\ Granted(c).pc = "ask"
         /\ Passed(c) \in Busy
         /\ Refused(c) \in Calls /\ Refused(c).pc = "idle"
         /\ Refused(c).outcome = "refused" /\ Refused(c).site = c.site
         /\ Refused(c).period = c.period /\ Refused(c).level = c.level
<1>1. Granted(c) \in Busy /\ Granted(c).pc = "ask"
  BY DEF Granted, CallIdle, Busy, Calls, CallSteps, Periods, Levels
<1>2. Passed(c) \in Busy
  BY <1>1 DEF Passed, CallIdle, Busy, Calls, CallSteps, Periods, Levels
<1>3. QED
  BY <1>1, <1>2 DEF Refused, CallIdle, Busy, Calls, CallSteps, Periods, Levels

\* An alert that is out either refuses the call or lets it go on.
LEMMA AnnouncedEither ==
  ASSUME NEW c \in Busy
  PROVE  Announced(c) = Refused(c) \/ Announced(c) \in Busy
<1>1. c.then \in {"refuse", "go", "continue"}
  BY DEF Busy, Calls
<1>2. QED
  BY <1>1, DecisionTypes DEF Announced

\* A crossed limit leads to an alert about it before anything else.
LEMMA DecidedTypes ==
  ASSUME NEW c \in Busy, NEW b \in BudgetRows
  PROVE  Decided(c, b) \in Busy
<1> DEFINE over(level, then) == [c EXCEPT !.pc = "notify", !.level = level, !.then = then]
<1>1. Decided(c, b) \in {over("hard", "refuse"), over("soft", Then(b.action)), Passed(c)}
  BY DEF Decided
<1>2. Then(b.action) \in {"refuse", "go", "continue"}
  BY DEF Then, BudgetRows, Actions
<1>3. ASSUME NEW level \in Levels, NEW then \in {"refuse", "go", "continue"}
      PROVE  over(level, then) \in Busy
  BY <1>3 DEF Busy, Calls, CallSteps
<1>4. over("hard", "refuse") \in Busy /\ over("soft", Then(b.action)) \in Busy
  BY <1>2, <1>3 DEF Levels
<1>5. QED
  BY <1>1, <1>4, DecisionTypes

-----------------------------------------------------------------------------
(* The inductive invariant: types; a worker that is not idle has a call that *)
(* is being decided; an alert is about the level in its key; and the alert   *)
(* of a refusal is there.                                                    *)

Deciding == \A w \in Workers : call[w].pc # "idle" => call[w] \in Busy

Leveled == \A k \in Keys : note[k].state # "none" => note[k].level = k[3]

Noticed ==
  \A w \in Workers : call[w].outcome = "refused" =>
    /\ call[w].site \in Sites
    /\ note[Key(call[w].site, call[w].period, call[w].level)].state # "none"

SpendingInv == TypeOK /\ Deciding /\ Leveled /\ Noticed

LEMMA SpendingInit == Init => SpendingInv
<1> SUFFICES ASSUME Init PROVE SpendingInv
  OBVIOUS
<1>1. TypeOK
  BY SpendingConstants, IdleType DEF Init, TypeOK, NoNote, Levels
<1>2. QED
  BY <1>1 DEF Init, SpendingInv, Deciding, Leveled, Noticed, CallIdle, NoNote

\* The key of a call that is being decided.
LEMMA KeyOfBusy ==
  ASSUME NEW c \in Busy
  PROVE  /\ KeyOf(c) \in Keys /\ KeyOf(c)[3] = c.level
         /\ KeyOf(c) = Key(c.site, c.period, c.level)
  BY DEF KeyOf, Key, Keys, Busy, Calls

\* A step of one worker: the alerts only grow, and what the worker holds
\* afterwards keeps the invariant.
LEMMA OneWorker ==
  ASSUME SpendingInv, NEW w \in Workers, NEW next,
         call' = [call EXCEPT ![w] = next],
         \/ next \in Busy
         \/ next \in Calls /\ next.pc = "idle" /\ next.outcome # "refused"
         \/ /\ next \in Calls /\ next.pc = "idle" /\ next.site \in Sites
            /\ note'[Key(next.site, next.period, next.level)].state # "none",
         \A k \in Keys : note[k].state # "none" => note'[k].state # "none"
  PROVE  call' \in [Workers -> Calls] /\ Deciding' /\ Noticed'
<1>1. call' \in [Workers -> Calls]
  BY DEF SpendingInv, TypeOK, Busy
<1>2. /\ call'[w] = next
      /\ \A v \in Workers : v # w => call'[v] = call[v]
  BY DEF SpendingInv, TypeOK
<1>3. Deciding'
  BY <1>2 DEF SpendingInv, Deciding
<1>4. ASSUME NEW v \in Workers, call'[v].outcome = "refused"
      PROVE  /\ call'[v].site \in Sites
             /\ note'[Key(call'[v].site, call'[v].period, call'[v].level)].state # "none"
  <2>1. CASE v = w
    BY <1>2, <1>4, <2>1 DEF Busy
  <2>2. CASE v # w
    <3>1. /\ call[v].site \in Sites
          /\ note[Key(call[v].site, call[v].period, call[v].level)].state # "none"
      BY <1>2, <1>4, <2>2 DEF SpendingInv, Noticed
    <3>2. Key(call[v].site, call[v].period, call[v].level) \in Keys
      BY <3>1 DEF SpendingInv, TypeOK, Calls, Key, Keys
    <3>3. QED
      BY <1>2, <2>2, <3>1, <3>2
  <2>3. QED
    BY <2>1, <2>2
<1>5. Noticed'
  BY <1>4 DEF Noticed
<1>6. QED
  BY <1>1, <1>3, <1>5

LEMMA TakesKeeps ==
  ASSUME SpendingInv, NEW w \in Workers, NEW s \in Sites, NEW k \in Kinds, Takes(w, s, k)
  PROVE  SpendingInv'
<1> DEFINE next == [CallIdle EXCEPT !.pc = "evaluate", !.site = s, !.kind = k]
<1>1. next \in Busy
  BY IdleType DEF CallIdle, Busy, Calls, CallSteps, Periods, Levels
<1>2. call' = [call EXCEPT ![w] = next] /\ UNCHANGED <<budget, ledger, note, days, edits>>
  BY DEF Takes
<1> HIDE DEF next
<1>3. call' \in [Workers -> Calls] /\ Deciding' /\ Noticed'
  BY <1>1, <1>2, OneWorker
<1>4. QED
  BY <1>2, <1>3 DEF SpendingInv, TypeOK, Leveled

LEMMA EvaluateKeeps ==
  ASSUME SpendingInv, NEW w \in Workers, Evaluate(w)
  PROVE  SpendingInv'
<1>1. call[w] \in Busy
  BY DEF Evaluate, SpendingInv, Deciding
<1>2. PICK next \in Busy : call' = [call EXCEPT ![w] = next]
  <2>1. CASE call' = [call EXCEPT ![w] = Passed(call[w])]
    BY <1>1, <2>1, DecisionTypes
  <2>2. CASE \E i \in MostSpecific(call[w].period, call[w].site, call[w].kind) :
                call' = [call EXCEPT ![w] = Decided(call[w], budget[i])]
    <3>1. PICK i \in BudgetIds : call' = [call EXCEPT ![w] = Decided(call[w], budget[i])]
      BY <2>2 DEF MostSpecific, Candidates
    <3>2. budget[i] \in BudgetRows
      BY DEF SpendingInv, TypeOK
    <3>3. QED
      BY <1>1, <3>1, <3>2, DecidedTypes
  <2>3. QED
    BY <2>1, <2>2 DEF Evaluate
<1>3. UNCHANGED <<budget, ledger, note, days, edits>>
  BY DEF Evaluate
<1>4. call' \in [Workers -> Calls] /\ Deciding' /\ Noticed'
  BY <1>2, <1>3, OneWorker
<1>5. QED
  BY <1>3, <1>4 DEF SpendingInv, TypeOK, Leveled

\* Once an alert with the key of a call is out, what comes next is in order.
LEMMA AnnouncedKeeps ==
  ASSUME SpendingInv, NEW w \in Workers, call[w] \in Busy,
         call' = [call EXCEPT ![w] = Announced(call[w])],
         note'[KeyOf(call[w])].state # "none",
         \A k \in Keys : note[k].state # "none" => note'[k].state # "none"
  PROVE  call' \in [Workers -> Calls] /\ Deciding' /\ Noticed'
<1>1. CASE Announced(call[w]) \in Busy
  BY <1>1, OneWorker
<1>2. CASE Announced(call[w]) = Refused(call[w])
  <2> DEFINE next == Refused(call[w])
  <2>1. /\ next \in Calls /\ next.pc = "idle" /\ next.site \in Sites
        /\ Key(next.site, next.period, next.level) = KeyOf(call[w])
    BY DecisionTypes, KeyOfBusy DEF Busy
  <2>2. call' = [call EXCEPT ![w] = next]
    BY <1>2
  <2> HIDE DEF next
  <2>3. QED
    BY <2>1, <2>2, OneWorker
<1>3. QED
  BY <1>1, <1>2, AnnouncedEither

LEMMA NotifyReadsKeeps ==
  ASSUME SpendingInv, NEW w \in Workers, NotifyReads(w)
  PROVE  SpendingInv'
<1>1. call[w] \in Busy /\ KeyOf(call[w]) \in Keys /\ KeyOf(call[w])[3] = call[w].level
  BY KeyOfBusy DEF NotifyReads, SpendingInv, Deciding
<1>2. UNCHANGED <<budget, ledger, days, edits>>
  BY DEF NotifyReads
<1>3. CASE note[KeyOf(call[w])].state = "none"
  <2> DEFINE next == [call[w] EXCEPT !.pc = "create"]
  <2>1. call' = [call EXCEPT ![w] = next] /\ UNCHANGED note
    BY <1>3 DEF NotifyReads
  <2>2. next \in Busy
    BY <1>1 DEF Busy, Calls, CallSteps
  <2> HIDE DEF next
  <2>3. call' \in [Workers -> Calls] /\ Deciding' /\ Noticed'
    BY <2>1, <2>2, OneWorker
  <2>4. QED
    BY <1>2, <2>1, <2>3 DEF SpendingInv, TypeOK, Leveled
<1>4. CASE note[KeyOf(call[w])].state # "none"
  <2>1. /\ call' = [call EXCEPT ![w] = Announced(call[w])]
        /\ \/ UNCHANGED note
           \/ note' = [note EXCEPT ![KeyOf(call[w])].level = call[w].level]
    BY <1>4 DEF NotifyReads
  <2>2. call[w].level \in Levels
    BY <1>1 DEF Busy, Calls
  <2>3. /\ note' \in [Keys -> [state : {"none", "fresh", "old"}, level : Levels]]
        /\ \A k \in Keys : /\ note'[k].state = note[k].state
                           /\ note'[k].level = note[k].level \/ note'[k].level = k[3]
    <3>1. CASE UNCHANGED note
      BY <3>1 DEF SpendingInv, TypeOK
    <3>2. CASE note' = [note EXCEPT ![KeyOf(call[w])].level = call[w].level]
      <4>1. \A k \in Keys : /\ k # KeyOf(call[w]) => note'[k] = note[k]
                            /\ k = KeyOf(call[w]) => note'[k] = [note[k] EXCEPT !.level = k[3]]
        BY <1>1, <3>2 DEF SpendingInv, TypeOK
      <4>2. \A k \in Keys : note[k] \in [state : {"none", "fresh", "old"}, level : Levels]
        BY DEF SpendingInv, TypeOK
      <4>3. note' \in [Keys -> [state : {"none", "fresh", "old"}, level : Levels]]
        BY <2>2, <3>2 DEF SpendingInv, TypeOK
      <4>4. QED
        BY <4>1, <4>2, <4>3
    <3>3. QED
      BY <2>1, <3>1, <3>2
  <2>4. Leveled'
    BY <2>3 DEF SpendingInv, Leveled
  <2>5. call' \in [Workers -> Calls] /\ Deciding' /\ Noticed'
    BY <1>1, <1>4, <2>1, <2>3, AnnouncedKeeps
  <2>6. QED
    BY <1>2, <2>3, <2>4, <2>5 DEF SpendingInv, TypeOK
<1>5. QED
  BY <1>3, <1>4

LEMMA NotifyCreatesKeeps ==
  ASSUME SpendingInv, NEW w \in Workers, NotifyCreates(w)
  PROVE  SpendingInv'
<1>1. call[w] \in Busy /\ KeyOf(call[w]) \in Keys /\ KeyOf(call[w])[3] = call[w].level
  BY KeyOfBusy DEF NotifyCreates, SpendingInv, Deciding
<1>2. UNCHANGED <<budget, ledger, days, edits>>
  BY DEF NotifyCreates
<1>3. CASE note[KeyOf(call[w])].state # "none"
  <2> DEFINE next == [CallIdle EXCEPT !.outcome = "threw"]
  <2>1. call' = [call EXCEPT ![w] = next] /\ UNCHANGED note
    BY <1>3 DEF NotifyCreates
  <2>2. next \in Calls /\ next.pc = "idle" /\ next.outcome # "refused"
    BY DEF CallIdle, Calls, CallSteps, Periods, Levels
  <2> HIDE DEF next
  <2>3. call' \in [Workers -> Calls] /\ Deciding' /\ Noticed'
    BY <2>1, <2>2, OneWorker
  <2>4. QED
    BY <1>2, <2>1, <2>3 DEF SpendingInv, TypeOK, Leveled
<1>4. CASE note[KeyOf(call[w])].state = "none"
  <2>1. /\ call' = [call EXCEPT ![w] = Announced(call[w])]
        /\ note' = [note EXCEPT ![KeyOf(call[w])] =
                      [state |-> "fresh", level |-> call[w].level]]
    BY <1>4 DEF NotifyCreates
  <2>2. call[w].level \in Levels
    BY <1>1 DEF Busy, Calls
  <2>3. /\ note' \in [Keys -> [state : {"none", "fresh", "old"}, level : Levels]]
        /\ note'[KeyOf(call[w])].state # "none"
        /\ \A k \in Keys : note[k].state # "none" => note'[k].state # "none"
        /\ Leveled'
    BY <1>1, <2>1, <2>2 DEF SpendingInv, TypeOK, Leveled
  <2>4. call' \in [Workers -> Calls] /\ Deciding' /\ Noticed'
    BY <1>1, <2>1, <2>3, AnnouncedKeeps
  <2>5. QED
    BY <1>2, <2>3, <2>4 DEF SpendingInv, TypeOK
<1>5. QED
  BY <1>3, <1>4

LEMMA CallEndsKeeps ==
  ASSUME SpendingInv, NEW w \in Workers, AskProvider(w) \/ RecordSpend(w) \/ RecordFails(w)
  PROVE  SpendingInv'
<1>1. call[w] \in Busy
  BY DEF AskProvider, RecordSpend, RecordFails, SpendingInv, Deciding
<1>2. UNCHANGED <<budget, note, days, edits>>
  BY DEF AskProvider, RecordSpend, RecordFails
<1>3. PICK next : /\ call' = [call EXCEPT ![w] = next]
                  /\ next = CallIdle \/ next = [call[w] EXCEPT !.pc = "record"]
  BY DEF AskProvider, RecordSpend, RecordFails
<1>4. \/ next \in Busy
      \/ next \in Calls /\ next.pc = "idle" /\ next.outcome # "refused"
  BY <1>1, <1>3, IdleType DEF CallIdle, Busy, Calls, CallSteps
<1>5. call' \in [Workers -> Calls] /\ Deciding' /\ Noticed'
  BY <1>2, <1>3, <1>4, OneWorker
<1>6. ledger' \in [Sites -> [daily : Nat, monthly : Nat]]
  <2>1. CASE UNCHANGED ledger
    BY <2>1 DEF SpendingInv, TypeOK
  <2>2. CASE RecordSpend(w)
    <3>1. PICK s \in Sites, k \in Kinds :
            ledger' = [ledger EXCEPT ![s].daily = @ + CostOf[k],
                                     ![s].monthly = @ + CostOf[k]]
      BY <1>1, <2>2 DEF RecordSpend, Busy
    <3>2. CostOf[k] \in Nat
      BY SpendingConstants
    <3>3. ledger[s] \in [daily : Nat, monthly : Nat] /\ ledger \in [Sites -> [daily : Nat, monthly : Nat]]
      BY DEF SpendingInv, TypeOK
    <3> DEFINE today == ledger[s].daily + CostOf[k]
               month == ledger[s].monthly + CostOf[k]
    <3>4. today \in Nat /\ month \in Nat
      BY <3>2, <3>3
    <3>5. ledger' = [ledger EXCEPT ![s].daily = today, ![s].monthly = month]
      BY <3>1, <3>3
    <3> HIDE DEF today, month
    <3>6. QED
      BY <3>3, <3>4, <3>5
  <2>3. QED
    BY <2>1, <2>2 DEF AskProvider, RecordFails
<1>7. QED
  BY <1>2, <1>5, <1>6 DEF SpendingInv, TypeOK, Leveled

LEMMA UpsertKeeps ==
  ASSUME SpendingInv, NEW o \in Offers, UpsertBudget(o)
  PROVE  SpendingInv'
<1>1. edits' \in 0..MaxEdits
  BY SpendingConstants DEF UpsertBudget, SpendingInv, TypeOK
<1>2. o.id \in BudgetIds /\ o.limit \in Nat /\ o.hard \in Nat \cup {None} /\ o.action \in Actions
  BY SpendingConstants
<1>3. budget' \in [BudgetIds -> BudgetRows]
  <2>1. PICK hard \in Nat \cup {None} :
          budget' = [budget EXCEPT ![o.id] =
                       [@ EXCEPT !.limit = o.limit, !.action = o.action, !.hard = hard]]
    BY <1>2 DEF UpsertBudget, SpendingInv, TypeOK, BudgetRows
  <2>2. QED
    BY <1>2, <2>1, ZenonT(60) DEF SpendingInv, TypeOK, BudgetRows
<1>4. UNCHANGED <<ledger, note, call, days>>
  BY DEF UpsertBudget
<1>5. QED
  BY <1>1, <1>3, <1>4 DEF SpendingInv, TypeOK, Deciding, Leveled, Noticed

LEMMA MidnightKeeps ==
  ASSUME SpendingInv, Midnight
  PROVE  SpendingInv'
<1>1. days' \in 0..MaxDays /\ UNCHANGED <<budget, call, edits>>
  BY SpendingConstants DEF Midnight, SpendingInv, TypeOK
<1>2. ledger' \in [Sites -> [daily : Nat, monthly : Nat]]
  BY DEF Midnight, SpendingInv, TypeOK
<1>3. /\ note' \in [Keys -> [state : {"none", "fresh", "old"}, level : Levels]]
      /\ \A k \in Keys : /\ note'[k].level = note[k].level
                         /\ note'[k].state = "none" <=> note[k].state = "none"
  BY DEF Midnight, SpendingInv, TypeOK
<1>4. Noticed'
  <2>1. ASSUME NEW w \in Workers, call[w].outcome = "refused"
        PROVE  note'[Key(call[w].site, call[w].period, call[w].level)].state # "none"
    <3>1. Key(call[w].site, call[w].period, call[w].level) \in Keys
      BY <2>1 DEF SpendingInv, TypeOK, Noticed, Calls, Key, Keys
    <3>2. QED
      BY <1>3, <2>1, <3>1 DEF SpendingInv, Noticed
  <2>2. QED
    BY <1>1, <2>1 DEF SpendingInv, Noticed
<1>5. QED
  BY <1>1, <1>2, <1>3, <1>4 DEF SpendingInv, TypeOK, Deciding, Leveled

LEMMA SpendingNext == SpendingInv /\ [Next]_vars => SpendingInv'
<1> SUFFICES ASSUME SpendingInv, [Next]_vars PROVE SpendingInv'
  OBVIOUS
<1>1. ASSUME NEW w \in Workers, NEW s \in Sites, NEW k \in Kinds, Takes(w, s, k)
      PROVE  SpendingInv'
  BY <1>1, TakesKeeps
<1>2. ASSUME NEW w \in Workers, Evaluate(w) \/ NotifyReads(w) \/ NotifyCreates(w)
      PROVE  SpendingInv'
  BY <1>2, EvaluateKeeps, NotifyReadsKeeps, NotifyCreatesKeeps
<1>3. ASSUME NEW w \in Workers, AskProvider(w) \/ RecordSpend(w) \/ RecordFails(w)
      PROVE  SpendingInv'
  BY <1>3, CallEndsKeeps
<1>4. ASSUME NEW o \in Offers, UpsertBudget(o) PROVE SpendingInv'
  BY <1>4, UpsertKeeps
<1>5. CASE Midnight
  BY <1>5, MidnightKeeps
<1>6. CASE UNCHANGED vars
  BY <1>6 DEF vars, SpendingInv, TypeOK, Deciding, Leveled, Noticed
<1>7. QED
  BY <1>1, <1>2, <1>3, <1>4, <1>5, <1>6 DEF Next

-----------------------------------------------------------------------------
(* What a ledger adds up to over a set of sites *)

\* Induction on the natural numbers.
LEMMA ReachesAll ==
  ASSUME NEW A \in SUBSET Nat, 0 \in A, \A n \in A : n + 1 \in A
  PROVE  A = Nat
<1> DEFINE R == OpToRel(<, Nat)
           T == Nat \ A
<1>1. SUFFICES ASSUME T # {} PROVE FALSE
  OBVIOUS
<1>2. PICK m \in T : \A n \in T : ~ (<<n, m>> \in R)
  <2> HIDE DEF R
  <2>1. IsWellFoundedOn(R, Nat)
    BY NatLessThanWellFounded DEF R
  <2>2. T \subseteq Nat
    OBVIOUS
  <2> HIDE DEF T
  <2>3. QED
    BY <1>1, <2>1, <2>2, WFMin
<1>3. \A n \in T : ~ (n < m)
  BY <1>2 DEF OpToRel
<1>4. m - 1 \in Nat /\ m - 1 < m
  OBVIOUS
<1>5. m - 1 \in A
  BY <1>3, <1>4
<1>6. QED
  BY <1>4, <1>5

\* What the sites of T spent, if h says it of the sets with one site less.
Part(L, p, h, T) ==
  IF T = {} THEN 0
  ELSE L[CHOOSE s \in T : TRUE][p] + h[T \ {CHOOSE s \in T : TRUE}]

\* h says what every set of sites of S spent.
Adds(L, p, S, h) == h = [T \in SUBSET S |-> Part(L, p, h, T)]

Total(L, p, S) == (CHOOSE h : Adds(L, p, S, h))[S]

LEMMA SpentAtIsTotal ==
  ASSUME NEW p, NEW S
  PROVE  SpentAt(S, p) = Total(ledger, p, S) /\ SpentAt(S, p)' = Total(ledger', p, S)
  BY DEF SpentAt, Total, Adds, Part, MapThenSumSet, MapThenFoldSet

LEMMA Removed ==
  ASSUME NEW S, IsFiniteSet(S), NEW T \in SUBSET S, T # {}
  PROVE  LET s == CHOOSE s \in T : TRUE IN
         /\ s \in T /\ T \ {s} \in SUBSET S /\ Cardinality(T) \in Nat
         /\ Cardinality(T \ {s}) = Cardinality(T) - 1
<1> DEFINE s == CHOOSE s \in T : TRUE
<1>1. s \in T
  OBVIOUS
<1> HIDE DEF s
<1>2. IsFiniteSet(T) /\ Cardinality(T) \in Nat
  BY FS_Subset, FS_CardinalityType
<1>3. Cardinality(T \ {s}) = Cardinality(T) - 1
  BY <1>1, <1>2, FS_RemoveElement
<1>4. QED
  BY <1>1, <1>2, <1>3 DEF s

\* There is such a function: longer and longer approximations of it.
LEMMA AddsExists ==
  ASSUME NEW L, NEW p, NEW S, IsFiniteSet(S)
  PROVE  \E h : Adds(L, p, S, h)
<1> DEFINE Upto(n, h) == \A T \in SUBSET S : Cardinality(T) <= n => h[T] = Part(L, p, h, T)
           A == {n \in Nat : \E h : h = [T \in SUBSET S |-> h[T]] /\ Upto(n, h)}
<1>1. 0 \in A
  <2> DEFINE h == [T \in SUBSET S |-> 0]
  <2>1. \A T \in SUBSET S : Cardinality(T) <= 0 => T = {}
    BY FS_Subset, FS_EmptySet, FS_CardinalityType
  <2>2. Upto(0, h) /\ h = [T \in SUBSET S |-> h[T]]
    BY <2>1 DEF Part
  <2> HIDE DEF h
  <2>3. QED
    BY <2>2
<1>2. ASSUME NEW n \in A PROVE n + 1 \in A
  <2>1. PICK h : Upto(n, h) /\ h = [T \in SUBSET S |-> h[T]]
    OBVIOUS
  <2> DEFINE k == [T \in SUBSET S |-> Part(L, p, h, T)]
  <2>2. ASSUME NEW T \in SUBSET S, Cardinality(T) <= n PROVE k[T] = h[T]
    BY <2>1, <2>2
  <2>3. ASSUME NEW T \in SUBSET S, Cardinality(T) <= n + 1 PROVE k[T] = Part(L, p, k, T)
    <3>1. CASE T = {}
      BY <3>1 DEF Part
    <3>2. CASE T # {}
      <4> DEFINE s == CHOOSE s \in T : TRUE
      <4>1. T \ {s} \in SUBSET S /\ Cardinality(T \ {s}) <= n
        BY <2>3, <3>2, Removed
      <4>2. k[T \ {s}] = h[T \ {s}]
        BY <2>2, <4>1
      <4>3. QED
        BY <4>2 DEF Part
    <3>3. QED
      BY <3>1, <3>2
  <2>4. k = [T \in SUBSET S |-> k[T]]
    OBVIOUS
  <2>5. Upto(n + 1, k)
    BY <2>3
  <2> HIDE DEF k, Upto
  <2>6. QED
    BY <2>4, <2>5
<1>3. Cardinality(S) \in Nat
  BY FS_CardinalityType
<1>4. A = Nat
  <2> HIDE DEF A
  <2>1. A \subseteq Nat
    BY DEF A
  <2>2. QED
    BY <1>1, <1>2, <2>1, ReachesAll
<1>5. PICK h : Upto(Cardinality(S), h) /\ h = [T \in SUBSET S |-> h[T]]
  BY <1>3, <1>4
<1>6. \A T \in SUBSET S : Cardinality(T) <= Cardinality(S)
  BY FS_Subset
<1>7. h = [T \in SUBSET S |-> Part(L, p, h, T)]
  BY <1>5, <1>6
<1>8. QED
  BY <1>7 DEF Adds

\* If no site spent more in M than in L, but x up to d more, the same holds of
\* their totals.
LEMMA TotalGrows ==
  ASSUME NEW S, IsFiniteSet(S), NEW p, NEW L, NEW M, NEW x, NEW d \in Nat,
         \A s \in S : /\ L[s][p] \in Nat /\ M[s][p] \in Nat
                      /\ M[s][p] <= L[s][p] + (IF s = x THEN d ELSE 0)
  PROVE  /\ Total(L, p, S) \in Nat /\ Total(M, p, S) \in Nat
         /\ Total(M, p, S) <= Total(L, p, S) + d
         /\ x \notin S => Total(M, p, S) <= Total(L, p, S)
<1> DEFINE h == CHOOSE h : Adds(L, p, S, h)
           k == CHOOSE k : Adds(M, p, S, k)
           Good(T) == /\ h[T] \in Nat /\ k[T] \in Nat
                      /\ k[T] <= h[T] + (IF x \in T THEN d ELSE 0)
           A == {n \in Nat : \A T \in SUBSET S : Cardinality(T) = n => Good(T)}
<1>1. /\ \A T \in SUBSET S : h[T] = Part(L, p, h, T) /\ k[T] = Part(M, p, k, T)
  <2>1. Adds(L, p, S, h) /\ Adds(M, p, S, k)
    BY AddsExists
  <2>2. QED
    BY <2>1 DEF Adds
<1>2. Total(L, p, S) = h[S] /\ Total(M, p, S) = k[S]
  BY DEF Total
<1> HIDE DEF h, k
<1>3. 0 \in A
  <2>1. \A T \in SUBSET S : Cardinality(T) = 0 => T = {}
    BY FS_Subset, FS_EmptySet
  <2>2. Good({})
    BY <1>1 DEF Part
  <2>3. QED
    BY <2>1, <2>2
<1>4. ASSUME NEW n \in A PROVE n + 1 \in A
  <2> SUFFICES ASSUME NEW T \in SUBSET S, Cardinality(T) = n + 1 PROVE Good(T)
    OBVIOUS
  <2> DEFINE s == CHOOSE s \in T : TRUE
  <2>1. T # {}
    <3>1. n + 1 # 0 /\ Cardinality({}) = 0
      BY FS_EmptySet
    <3>2. QED
      BY <3>1
  <2>2. s \in T /\ T \ {s} \in SUBSET S /\ Cardinality(T \ {s}) = n
    BY <2>1, Removed, SMTT(30)
  <2>3. Good(T \ {s})
    BY <2>2
  <2>4. h[T] = L[s][p] + h[T \ {s}] /\ k[T] = M[s][p] + k[T \ {s}]
    BY <1>1, <2>1 DEF Part
  <2> HIDE DEF s
  <2>5. /\ L[s][p] \in Nat /\ M[s][p] \in Nat
        /\ M[s][p] <= L[s][p] + (IF s = x THEN d ELSE 0)
    BY <2>2
  <2>6. CASE s = x
    BY <2>2, <2>3, <2>4, <2>5, <2>6
  <2>7. CASE s # x
    BY <2>2, <2>3, <2>4, <2>5, <2>7
  <2>8. QED
    BY <2>6, <2>7
<1>5. A = Nat
  <2> HIDE DEF A
  <2>1. A \subseteq Nat
    BY DEF A
  <2>2. QED
    BY <1>3, <1>4, <2>1, ReachesAll
<1>6. Good(S)
  <2>1. Cardinality(S) \in Nat
    BY FS_CardinalityType
  <2>2. QED
    BY <1>5, <2>1
<1>7. QED
  BY <1>2, <1>6
\* Sites that spent nothing spent nothing together.
LEMMA TotalOfNothing ==
  ASSUME NEW S, IsFiniteSet(S), NEW p, NEW L, \A s \in S : L[s][p] = 0
  PROVE  Total(L, p, S) = 0
<1> DEFINE h == CHOOSE h : Adds(L, p, S, h)
           A == {n \in Nat : \A T \in SUBSET S : Cardinality(T) = n => h[T] = 0}
<1>1. \A T \in SUBSET S : h[T] = Part(L, p, h, T)
  <2>1. Adds(L, p, S, h)
    BY AddsExists
  <2>2. QED
    BY <2>1 DEF Adds
<1>2. Total(L, p, S) = h[S]
  BY DEF Total
<1> HIDE DEF h
<1>3. 0 \in A
  <2>1. \A T \in SUBSET S : Cardinality(T) = 0 => T = {}
    BY FS_Subset, FS_EmptySet
  <2>2. h[{}] = 0
    BY <1>1 DEF Part
  <2>3. QED
    BY <2>1, <2>2
<1>4. ASSUME NEW n \in A PROVE n + 1 \in A
  <2> SUFFICES ASSUME NEW T \in SUBSET S, Cardinality(T) = n + 1 PROVE h[T] = 0
    OBVIOUS
  <2> DEFINE s == CHOOSE s \in T : TRUE
  <2>1. T # {}
    <3>1. n + 1 # 0 /\ Cardinality({}) = 0
      BY FS_EmptySet
    <3>2. QED
      BY <3>1
  <2>2. s \in T /\ T \ {s} \in SUBSET S /\ Cardinality(T \ {s}) = n
    BY <2>1, Removed
  <2>3. h[T \ {s}] = 0
    BY <2>2
  <2>4. h[T] = L[s][p] + h[T \ {s}]
    BY <1>1, <2>1 DEF Part
  <2> HIDE DEF s
  <2>5. QED
    BY <2>2, <2>3, <2>4
<1>5. A = Nat
  <2> HIDE DEF A
  <2>1. A \subseteq Nat
    BY DEF A
  <2>2. QED
    BY <1>3, <1>4, <2>1, ReachesAll
<1>6. Cardinality(S) \in Nat
  BY FS_CardinalityType
<1>7. QED
  BY <1>2, <1>5, <1>6

-----------------------------------------------------------------------------
(* How far a hard limit is passed.                                          *)

\* A finite, nonempty set of numbers has a greatest one.
LEMMA HasGreatest ==
  ASSUME NEW T \in SUBSET Nat, IsFiniteSet(T), T # {}
  PROVE  \E m \in T : \A n \in T : m >= n
<1> DEFINE Good(U) == U = {} \/ \E m \in U : \A n \in U : m >= n
           A == {c \in Nat : \A U \in SUBSET T : Cardinality(U) = c => Good(U)}
<1>1. 0 \in A
  <2>1. \A U \in SUBSET T : Cardinality(U) = 0 => U = {}
    BY FS_Subset, FS_EmptySet
  <2>2. QED
    BY <2>1
<1>2. ASSUME NEW c \in A PROVE c + 1 \in A
  <2> SUFFICES ASSUME NEW U \in SUBSET T, Cardinality(U) = c + 1, U # {} PROVE Good(U)
    OBVIOUS
  <2> DEFINE x == CHOOSE x \in U : TRUE
  <2>1. x \in U /\ U \ {x} \in SUBSET T /\ Cardinality(U \ {x}) = c
    <3>1. Cardinality(U \ {x}) = Cardinality(U) - 1
      BY Removed
    <3>2. QED
      BY <3>1
  <2>2. Good(U \ {x})
    BY <2>1
  <2> HIDE DEF x
  <2>3. CASE U \ {x} = {}
    <3>1. \A n \in U : x >= n
      BY <2>1, <2>3
    <3>2. QED
      BY <2>1, <3>1
  <2>4. CASE \E m \in U \ {x} : \A n \in U \ {x} : m >= n
    <3>1. PICK m \in U \ {x} : \A n \in U \ {x} : m >= n
      BY <2>4
    <3>2. m \in Nat /\ x \in Nat
      BY <2>1
    <3>3. CASE m >= x
      BY <3>1, <3>2, <3>3
    <3>4. CASE x >= m
      <4>1. \A n \in U : x >= n
        BY <3>1, <3>2, <3>4
      <4>2. QED
        BY <2>1, <4>1
    <3>5. QED
      BY <3>2, <3>3, <3>4
  <2>5. QED
    BY <2>2, <2>3, <2>4
<1>3. A = Nat
  <2> HIDE DEF A
  <2>1. A \subseteq Nat
    BY DEF A
  <2>2. QED
    BY <1>1, <1>2, <2>1, ReachesAll
<1>4. Cardinality(T) \in Nat
  BY FS_CardinalityType
<1>5. QED
  BY <1>3, <1>4

\* No call costs more than the dearest.
LEMMA DearestIs == Dearest \in Nat /\ \A k \in Kinds : CostOf[k] <= Dearest
<1> DEFINE T == {CostOf[k] : k \in Kinds}
<1>1. T \in SUBSET Nat /\ T # {}
  BY SpendingConstants
<1>2. IsFiniteSet(T)
  <2>1. IsFiniteSet(Kinds)
    BY SpendingConstants
  <2> DEFINE f == [k \in Kinds |-> CostOf[k]]
  <2>2. f \in Surjection(Kinds, T)
    BY DEF Surjection
  <2> HIDE DEF f, T
  <2>3. QED
    BY <2>1, <2>2, FS_Surjection
<1> HIDE DEF T
<1>3. \E m \in T : \A n \in T : m >= n
  BY <1>1, <1>2, HasGreatest
<1>4. Max(T) \in T /\ \A n \in T : Max(T) >= n
  BY <1>3 DEF Max
<1>5. \A n \in T : n <= Max(T)
  BY <1>1, <1>4
<1>6. QED
  BY <1>1, <1>4, <1>5 DEF T, Dearest

\* The sites a row counts, and whether it counts a call.
Counted(b) == IF b.site = None THEN Sites ELSE {b.site}

Counts(b, c) == b.site \in {None, c.site}

\* A call that row b has let pass, or not objected to with its hard limit, and
\* whose cost is not in the ledger yet.
PastCheck(b, c) ==
  /\ Counts(b, c)
  /\ \/ c.pc \in {"ask", "record"}
     \/ c.pc # "idle" /\ b.period = "daily" /\ c.period = "monthly"
     \/ c.pc \in {"notify", "create"} /\ b.period = c.period /\ c.then # "refuse"

UnderWay(b) == {w \in Workers : PastCheck(b, call[w])}

\* Rows as they were first saved that decide alone what they count.
Judged(i) == edits = 0 /\ budget[i].enabled /\ Governs(i) /\ Asked(i)

\* The calls under way are paid for in advance.
Prepaid(i) ==
  Judged(i) => Spent(budget[i]) + Dearest * Cardinality(UnderWay(budget[i]))
                 <= Hard(budget[i]) + Dearest * Cardinality(Workers)

\* A call goes on without being asked about the month only by a row that degrades.
GoesByRow ==
  edits = 0 => \A w \in Workers :
    call[w].pc \in {"notify", "create"} /\ call[w].then = "go" =>
      \E j \in BudgetIds : budget[j].period = call[w].period /\ budget[j].action = "degrade"

BudgetInv == SpendingInv /\ GoesByRow /\ \A i \in BudgetIds : Prepaid(i)

LEMMA Sizes ==
  /\ Cardinality(Workers) \in Nat
  /\ \A U \in SUBSET Workers : IsFiniteSet(U) /\ Cardinality(U) \in Nat
                               /\ Cardinality(U) <= Cardinality(Workers)
<1>1. IsFiniteSet(Workers)
  BY SpendingConstants
<1>2. QED
  BY <1>1, FS_Subset, FS_CardinalityType

\* What a number of calls costs at most.
LEMMA Products ==
  ASSUME NEW m \in Nat, NEW n \in Nat
  PROVE  /\ Dearest * m \in Nat
         /\ m <= n => Dearest * m <= Dearest * n
         /\ m + 1 <= n => Dearest * m + Dearest <= Dearest * n
<1>1. Dearest \in Nat
  BY DearestIs
<1> HIDE DEF Dearest
<1>2. Dearest * m \in Nat
  BY <1>1
<1>3. ASSUME m <= n PROVE Dearest * m <= Dearest * n
  <2>1. n - m \in Nat /\ Dearest * n = Dearest * m + Dearest * (n - m)
    BY <1>1, <1>3
  <2>2. Dearest * (n - m) \in Nat
    BY <1>1, <2>1
  <2>3. Dearest * n \in Nat
    BY <1>1
  <2>4. QED
    BY <1>2, <2>1, <2>2, <2>3
<1>4. ASSUME m + 1 <= n PROVE Dearest * m + Dearest <= Dearest * n
  <2>1. n - m - 1 \in Nat /\ Dearest * n = Dearest * m + Dearest + Dearest * (n - m - 1)
    BY <1>1, <1>4
  <2>2. Dearest * (n - m - 1) \in Nat
    BY <1>1, <2>1
  <2>3. Dearest * n \in Nat
    BY <1>1
  <2>4. QED
    BY <1>1, <1>2, <2>1, <2>2, <2>3
<1>5. QED
  BY <1>2, <1>3, <1>4

LEMMA RowFacts ==
  ASSUME SpendingInv, NEW i \in BudgetIds
  PROVE  LET b == budget[i] IN
         /\ b \in BudgetRows
         /\ Hard(b) \in Nat
         /\ b.period \in {"daily", "monthly"}
         /\ Counted(b) \subseteq Sites /\ IsFiniteSet(Counted(b))
<1> DEFINE b == budget[i]
<1>1. b \in BudgetRows
  BY DEF SpendingInv, TypeOK
<1>2. Hard(b) \in Nat
  BY <1>1 DEF Hard, BudgetRows
<1>3. Counted(b) \subseteq Sites
  BY <1>1 DEF Counted, BudgetRows
<1>4. IsFiniteSet(Sites)
  BY SpendingConstants
<1>5. IsFiniteSet(Counted(b))
  BY <1>3, <1>4, FS_Subset
<1>6. QED
  BY <1>1, <1>2, <1>3, <1>5 DEF BudgetRows, Periods

LEMMA SpentType ==
  ASSUME SpendingInv, NEW i \in BudgetIds
  PROVE  Spent(budget[i]) \in Nat
<1> DEFINE b == budget[i]
           p == b.period
           S == Counted(b)
<1>1. p \in Periods /\ S \subseteq Sites /\ IsFiniteSet(S)
  BY RowFacts DEF Periods
<1>2. Spent(b) = Total(ledger, p, S)
  BY SpentAtIsTotal DEF Spent, Counted
<1>3. \A s \in S : ledger[s][p] \in Nat /\ ledger[s][p] <= ledger[s][p] + 0
  BY <1>1 DEF SpendingInv, TypeOK, Periods
<1> HIDE DEF S, p
<1>4. \A s \in S : ledger[s][p] <= ledger[s][p] + (IF s = None THEN 0 ELSE 0)
  BY <1>3
<1>5. Total(ledger, p, S) \in Nat
  BY <1>1, <1>3, <1>4, TotalGrows
<1>6. QED
  BY <1>2, <1>5

\* What a row has counted grows by at most what one of its sites spends.
LEMMA SpentGrows ==
  ASSUME SpendingInv, SpendingInv', UNCHANGED budget, NEW i \in BudgetIds,
         NEW x, NEW d \in Nat,
         \A s \in Sites, p \in Periods :
           ledger'[s][p] <= ledger[s][p] + (IF s = x THEN d ELSE 0)
  PROVE  /\ Spent(budget[i]) \in Nat /\ Spent(budget[i])' \in Nat
         /\ Spent(budget[i])' <= Spent(budget[i]) + d
         /\ x \notin Counted(budget[i]) => Spent(budget[i])' <= Spent(budget[i])
<1> DEFINE b == budget[i]
           S == Counted(b)
           p == b.period
<1>1. p \in Periods /\ S \subseteq Sites /\ IsFiniteSet(S)
  BY RowFacts DEF Periods
<1>2. Spent(b) = Total(ledger, p, S)
  BY SpentAtIsTotal DEF Spent, Counted
<1>3. Spent(b)' = Total(ledger', p, S)
  BY SpentAtIsTotal DEF Spent, Counted
<1>4. \A s \in S : ledger[s][p] \in Nat /\ ledger'[s][p] \in Nat
  BY <1>1 DEF SpendingInv, TypeOK, Periods
<1> HIDE DEF b, S, p
<1>5. \A s \in S : ledger'[s][p] <= ledger[s][p] + (IF s = x THEN d ELSE 0)
  BY <1>1
<1>6. /\ Total(ledger, p, S) \in Nat /\ Total(ledger', p, S) \in Nat
      /\ Total(ledger', p, S) <= Total(ledger, p, S) + d
      /\ x \notin S => Total(ledger', p, S) <= Total(ledger, p, S)
  BY <1>1, <1>4, <1>5, TotalGrows
<1>7. QED
  BY <1>2, <1>3, <1>6 DEF b, S

LEMMA JudgedStays ==
  ASSUME UNCHANGED <<budget, edits>>, NEW i \in BudgetIds
  PROVE  Judged(i)' = Judged(i) /\ Hard(budget[i])' = Hard(budget[i])
  BY DEF Judged, Governs, Asked, MostSpecific, Candidates, Hard

\* Nothing is spent and no other call gets under way.
LEMMA FewerUnderWay ==
  ASSUME SpendingInv, SpendingInv', UNCHANGED <<budget, edits>>,
         NEW i \in BudgetIds, Prepaid(i),
         \A s \in Sites, p \in Periods : ledger'[s][p] <= ledger[s][p],
         UnderWay(budget[i])' \subseteq UnderWay(budget[i])
  PROVE  Prepaid(i)'
<1> DEFINE b == budget[i]
           before == Cardinality(UnderWay(b))
           after == Cardinality(UnderWay(b)')
           all == Cardinality(Workers)
<1>1. SUFFICES ASSUME Judged(i)
               PROVE  Spent(b)' + Dearest * after <= Hard(b) + Dearest * all
  BY JudgedStays DEF Prepaid
<1>2. Spent(b) + Dearest * before <= Hard(b) + Dearest * all
  BY <1>1 DEF Prepaid
<1>3. Spent(b) \in Nat /\ Spent(b)' \in Nat /\ Spent(b)' <= Spent(b)
  <2>1. ASSUME NEW s \in Sites, NEW p \in Periods
        PROVE  ledger'[s][p] <= ledger[s][p] + (IF s = None THEN 0 ELSE 0)
    BY DEF SpendingInv, TypeOK, Periods
  <2>2. Spent(b)' <= Spent(b) + 0 /\ Spent(b) \in Nat /\ Spent(b)' \in Nat
    BY <2>1, SpentGrows
  <2>3. QED
    BY <2>2
<1>4. before \in Nat /\ after \in Nat /\ after <= before /\ all \in Nat
  <2>1. UnderWay(b) \in SUBSET Workers
    BY DEF UnderWay
  <2>2. QED
    BY <2>1, Sizes, FS_Subset
<1>5. /\ Dearest * before \in Nat /\ Dearest * after \in Nat /\ Dearest * all \in Nat
      /\ Dearest * after <= Dearest * before
  BY <1>4, Products
<1>6. Hard(b) \in Nat
  BY RowFacts
<1> HIDE DEF b, before, after, all
<1>7. QED
  BY <1>2, <1>3, <1>5, <1>6

\* While the hard limit is not passed, every worker may be let through.
LEMMA BelowTheLimit ==
  ASSUME SpendingInv, SpendingInv', UNCHANGED <<budget, edits, ledger>>,
         NEW i \in BudgetIds, Spent(budget[i]) <= Hard(budget[i])
  PROVE  Prepaid(i)'
<1> DEFINE b == budget[i]
           after == Cardinality(UnderWay(b)')
           all == Cardinality(Workers)
<1>1. Spent(b)' = Spent(b) /\ Hard(b)' = Hard(b)
  BY DEF Spent, SpentAt, MapThenSumSet, MapThenFoldSet, Hard
<1>2. Spent(b) \in Nat
  BY SpentType
<1>3. after \in Nat /\ after <= all /\ all \in Nat
  <2>1. UnderWay(b)' \in SUBSET Workers
    BY DEF UnderWay
  <2>2. QED
    BY <2>1, Sizes
<1>4. Dearest * after \in Nat /\ Dearest * all \in Nat /\ Dearest * after <= Dearest * all
  BY <1>3, Products
<1>5. Hard(b) \in Nat
  BY RowFacts
<1>6. Spent(b) <= Hard(b)
  OBVIOUS
<1> HIDE DEF b, after, all
<1>7. Spent(b)' + Dearest * after <= Hard(b)' + Dearest * all
  BY <1>1, <1>2, <1>4, <1>5, <1>6
<1>8. QED
  BY <1>7 DEF Prepaid, b, after, all

\* A worker that row b has not just let through.
LEMMA OneCallMoves ==
  ASSUME SpendingInv, UNCHANGED budget, NEW i \in BudgetIds, NEW w \in Workers, NEW next,
         call' = [call EXCEPT ![w] = next],
         PastCheck(budget[i], next) => PastCheck(budget[i], call[w])
  PROVE  UnderWay(budget[i])' \subseteq UnderWay(budget[i])
<1>1. call'[w] = next /\ \A v \in Workers : v # w => call'[v] = call[v]
  BY DEF SpendingInv, TypeOK
<1>2. \A v \in Workers : PastCheck(budget[i], call'[v]) => PastCheck(budget[i], call[v])
  BY <1>1
<1>3. UnderWay(budget[i])' = {v \in Workers : PastCheck(budget[i], call'[v])}
  BY DEF UnderWay, PastCheck, Counts
<1>4. QED
  BY <1>2, <1>3 DEF UnderWay

\* A worker that is not in front of an alert, and one that comes to an alert by
\* a row that degrades.
LEMMA GoesByRowStays ==
  ASSUME SpendingInv, GoesByRow, UNCHANGED <<budget, edits>>, NEW w \in Workers, NEW next,
         call' = [call EXCEPT ![w] = next],
         next.pc \in {"notify", "create"} /\ next.then = "go" =>
           \E j \in BudgetIds : budget[j].period = next.period /\ budget[j].action = "degrade"
  PROVE  GoesByRow'
<1>1. call'[w] = next /\ \A v \in Workers : v # w => call'[v] = call[v]
  BY DEF SpendingInv, TypeOK
<1>2. QED
  BY <1>1 DEF GoesByRow

\* A call whose record is kept or dropped, or that goes back to the start.
LEMMA AloneStep ==
  ASSUME BudgetInv, SpendingInv', UNCHANGED <<budget, edits, ledger>>,
         NEW w \in Workers, NEW next,
         call' = [call EXCEPT ![w] = next],
         next.pc \notin {"notify", "create"},
         \A i \in BudgetIds : Judged(i) /\ PastCheck(budget[i], next)
                                => PastCheck(budget[i], call[w])
  PROVE  BudgetInv'
<1>1. GoesByRow'
  BY GoesByRowStays DEF BudgetInv
<1>2. ASSUME NEW i \in BudgetIds PROVE Prepaid(i)'
  <2>1. CASE ~ Judged(i)
    BY <2>1, JudgedStays DEF Prepaid
  <2>2. CASE Judged(i)
    <3>1. UnderWay(budget[i])' \subseteq UnderWay(budget[i])
      BY <2>2, OneCallMoves DEF BudgetInv
    <3>2. \A s \in Sites, p \in Periods : ledger'[s][p] <= ledger[s][p]
      BY DEF BudgetInv, SpendingInv, TypeOK, Periods
    <3>3. QED
      BY <3>1, <3>2, FewerUnderWay DEF BudgetInv
  <2>3. QED
    BY <2>1, <2>2
<1>3. QED
  BY <1>1, <1>2 DEF BudgetInv

\* The month is asked after the day, and the call is made after the month.
LEMMA PassedIs ==
  ASSUME NEW c \in Busy
  PROVE  /\ Passed(c).site = c.site /\ Passed(c).pc \notin {"notify", "create"}
         /\ c.period = "daily" => Passed(c).pc = "evaluate" /\ Passed(c).period = "monthly"
         /\ c.period = "monthly" => Passed(c).pc = "ask" /\ Passed(c).period = "daily"
         /\ Granted(c).pc = "ask" /\ Granted(c).period = "daily" /\ Granted(c).site = c.site
         /\ Refused(c).pc = "idle"
  BY DEF Passed, Granted, Refused, CallIdle

LEMMA TakesPrepaid ==
  ASSUME BudgetInv, SpendingInv', NEW w \in Workers, NEW s \in Sites, NEW k \in Kinds,
         Takes(w, s, k)
  PROVE  BudgetInv'
<1> DEFINE next == [CallIdle EXCEPT !.pc = "evaluate", !.site = s, !.kind = k]
<1>1. call' = [call EXCEPT ![w] = next] /\ UNCHANGED <<budget, ledger, edits>>
  BY DEF Takes
<1>2. next.pc = "evaluate" /\ next.period = "daily"
  BY DEF CallIdle
<1> HIDE DEF next
<1>3. QED
  BY <1>1, <1>2, AloneStep DEF PastCheck

LEMMA AskPrepaid ==
  ASSUME BudgetInv, SpendingInv', NEW w \in Workers, AskProvider(w) \/ RecordFails(w)
  PROVE  BudgetInv'
<1>1. PICK next : /\ call' = [call EXCEPT ![w] = next]
                  /\ \/ next = CallIdle
                     \/ /\ next = [call[w] EXCEPT !.pc = "record"]
                        /\ call[w].pc = "ask"
  BY DEF AskProvider, RecordFails
<1>2. UNCHANGED <<budget, ledger, edits>>
  BY DEF AskProvider, RecordFails
<1>3. call[w] \in Calls
  BY DEF BudgetInv, SpendingInv, TypeOK
<1>4. CASE next = CallIdle
  <2>1. next.pc = "idle"
    BY <1>4 DEF CallIdle
  <2>2. QED
    BY <1>1, <1>2, <2>1, AloneStep DEF PastCheck
<1>5. CASE next = [call[w] EXCEPT !.pc = "record"] /\ call[w].pc = "ask"
  <2>1. next.pc = "record" /\ next.site = call[w].site
    BY <1>3, <1>5 DEF Calls
  <2>2. QED
    BY <1>1, <1>2, <1>5, <2>1, AloneStep DEF PastCheck, Counts
<1>6. QED
  BY <1>1, <1>4, <1>5

\* What happens once an alert is out: the call is refused, or asks what is left
\* to ask, or goes on by a row that degrades.
LEMMA AnnouncedPrepaid ==
  ASSUME BudgetInv, SpendingInv', UNCHANGED <<budget, edits, ledger>>, NEW w \in Workers,
         call[w].pc \in {"notify", "create"}, call[w] \in Busy,
         call' = [call EXCEPT ![w] = Announced(call[w])]
  PROVE  BudgetInv'
<1> DEFINE c == call[w]
           next == Announced(c)
<1>1. c.then \in {"refuse", "go", "continue"} /\ c.period \in {"daily", "monthly"}
  BY DEF Busy, Calls, Periods
<1>2. next.pc \notin {"notify", "create"}
  BY <1>1, PassedIs DEF Announced
<1>3. ASSUME NEW i \in BudgetIds, Judged(i), PastCheck(budget[i], next)
      PROVE  PastCheck(budget[i], c)
  <2> DEFINE b == budget[i]
  <2>1. b.period \in {"daily", "monthly"}
    BY RowFacts DEF BudgetInv
  <2>2. CASE c.then = "refuse"
    BY <1>3, <2>2, PassedIs DEF Announced, PastCheck
  <2>3. CASE c.then = "continue"
    <3>1. next = Passed(c)
      BY <2>3 DEF Announced
    <3>2. QED
      BY <1>1, <1>3, <2>1, <2>3, <3>1, PassedIs DEF PastCheck, Counts
  <2>4. CASE c.then = "go"
    <3>1. next.site = c.site
      BY <2>4, PassedIs DEF Announced
    <3>2. \E j \in BudgetIds : budget[j].period = c.period /\ budget[j].action = "degrade"
      BY <1>3, <2>4 DEF BudgetInv, GoesByRow, Judged
    <3>3. b.period = "daily" \/ c.period = "monthly"
      BY <1>1, <1>3, <3>2 DEF Judged, Asked
    <3>4. QED
      BY <1>1, <1>3, <2>1, <2>4, <3>1, <3>3 DEF PastCheck, Counts
  <2>5. QED
    BY <1>1, <2>2, <2>3, <2>4
<1>4. call' = [call EXCEPT ![w] = next]
  OBVIOUS
<1> HIDE DEF next
<1>5. QED
  BY <1>2, <1>3, <1>4, AloneStep

LEMMA NotifyReadsPrepaid ==
  ASSUME BudgetInv, SpendingInv', NEW w \in Workers, NotifyReads(w)
  PROVE  BudgetInv'
<1> DEFINE next == [call[w] EXCEPT !.pc = "create"]
<1>1. /\ UNCHANGED <<budget, ledger, edits>> /\ call[w].pc = "notify"
      /\ \/ call' = [call EXCEPT ![w] = next]
         \/ call' = [call EXCEPT ![w] = Announced(call[w])]
  BY DEF NotifyReads
<1>2. call[w] \in Busy
  BY <1>1 DEF BudgetInv, SpendingInv, Deciding
<1>3. CASE call' = [call EXCEPT ![w] = Announced(call[w])]
  BY <1>1, <1>2, <1>3, AnnouncedPrepaid
<1>4. CASE call' = [call EXCEPT ![w] = next]
  <2>1. /\ next.pc = "create" /\ next.site = call[w].site /\ next.period = call[w].period
        /\ next.then = call[w].then
    BY <1>2 DEF Busy, Calls
  <2> HIDE DEF next
  <2>2. \A i \in BudgetIds : PastCheck(budget[i], next) => PastCheck(budget[i], call[w])
    BY <1>1, <2>1 DEF PastCheck, Counts
  <2>3. GoesByRow'
    <3>1. edits = 0 /\ next.then = "go" =>
            \E j \in BudgetIds : budget[j].period = next.period /\ budget[j].action = "degrade"
      BY <1>1, <2>1 DEF BudgetInv, GoesByRow
    <3>2. CASE edits = 0
      BY <1>1, <1>4, <3>1, <3>2, GoesByRowStays DEF BudgetInv
    <3>3. CASE edits # 0
      BY <1>1, <3>3 DEF GoesByRow
    <3>4. QED
      BY <3>2, <3>3
  <2>4. ASSUME NEW i \in BudgetIds PROVE Prepaid(i)'
    <3>1. UnderWay(budget[i])' \subseteq UnderWay(budget[i])
      BY <1>1, <1>4, <2>2, OneCallMoves DEF BudgetInv
    <3>2. \A s \in Sites, p \in Periods : ledger'[s][p] <= ledger[s][p]
      BY <1>1 DEF BudgetInv, SpendingInv, TypeOK, Periods
    <3>3. QED
      BY <1>1, <3>1, <3>2, FewerUnderWay DEF BudgetInv
  <2>5. QED
    BY <2>3, <2>4 DEF BudgetInv
<1>5. QED
  BY <1>1, <1>3, <1>4

LEMMA NotifyCreatesPrepaid ==
  ASSUME BudgetInv, SpendingInv', NEW w \in Workers, NotifyCreates(w)
  PROVE  BudgetInv'
<1> DEFINE next == [CallIdle EXCEPT !.outcome = "threw"]
<1>1. /\ UNCHANGED <<budget, ledger, edits>> /\ call[w].pc = "create"
      /\ \/ call' = [call EXCEPT ![w] = next]
         \/ call' = [call EXCEPT ![w] = Announced(call[w])]
  BY DEF NotifyCreates
<1>2. call[w] \in Busy
  BY <1>1 DEF BudgetInv, SpendingInv, Deciding
<1>3. CASE call' = [call EXCEPT ![w] = Announced(call[w])]
  BY <1>1, <1>2, <1>3, AnnouncedPrepaid
<1>4. CASE call' = [call EXCEPT ![w] = next]
  <2>1. next.pc = "idle"
    BY DEF CallIdle
  <2> HIDE DEF next
  <2>2. QED
    BY <1>1, <1>4, <2>1, AloneStep DEF PastCheck
<1>5. QED
  BY <1>1, <1>3, <1>4

\* The decision about one period: what it lets through the row had not spent.
LEMMA EvaluatePrepaid ==
  ASSUME BudgetInv, SpendingInv', NEW w \in Workers, Evaluate(w)
  PROVE  BudgetInv'
<1> DEFINE c == call[w]
           rows == MostSpecific(c.period, c.site, c.kind)
<1>1. /\ c.pc = "evaluate" /\ UNCHANGED <<budget, ledger, edits>>
      /\ \/ rows = {} /\ call' = [call EXCEPT ![w] = Passed(c)]
         \/ \E j \in rows : call' = [call EXCEPT ![w] = Decided(c, budget[j])]
  BY DEF Evaluate
<1>2. c \in Busy /\ c.period \in {"daily", "monthly"} /\ c.site \in Sites /\ c.kind \in Kinds
  BY <1>1 DEF BudgetInv, SpendingInv, Deciding, Busy, Calls, Periods
<1>3. rows \subseteq {j \in BudgetIds : budget[j].period = c.period}
  BY DEF MostSpecific, Candidates
<1> DEFINE over(level, then) == [c EXCEPT !.pc = "notify", !.level = level, !.then = then]
<1>4. ASSUME NEW level, NEW then
      PROVE  /\ over(level, then).pc = "notify" /\ over(level, then).then = then
             /\ over(level, then).site = c.site /\ over(level, then).period = c.period
  BY <1>2 DEF Busy, Calls
<1>5. ASSUME NEW j \in rows
      PROVE  \/ Decided(c, budget[j]) = over("hard", "refuse")
             \/ Decided(c, budget[j]) = over("soft", Then(budget[j].action))
             \/ Decided(c, budget[j]) = Passed(c)
  BY DEF Decided
<1>6. ASSUME NEW i \in BudgetIds, Spent(budget[i]) > Hard(budget[i])
      PROVE  Decided(c, budget[i]) = over("hard", "refuse")
  <2>1. Spent(budget[i]) \in Nat /\ Hard(budget[i]) \in Nat
    BY SpentType, RowFacts DEF BudgetInv
  <2>2. ~ (Spent(budget[i]) <= Hard(budget[i]))
    BY <1>6, <2>1
  <2>3. QED
    BY <1>6, <2>2 DEF Decided
<1> HIDE DEF over
<1>7. PICK next : /\ call' = [call EXCEPT ![w] = next]
                  /\ \/ rows = {} /\ next = Passed(c)
                     \/ \E j \in rows : next = Decided(c, budget[j])
  BY <1>1
<1>8. GoesByRow'
  <2>1. ASSUME next.pc \in {"notify", "create"}, next.then = "go"
        PROVE  \E j \in BudgetIds : budget[j].period = next.period /\ budget[j].action = "degrade"
    <3>1. next # Passed(c)
      BY <1>2, <2>1, PassedIs
    <3>2. PICK j \in rows : next = over("soft", Then(budget[j].action))
      BY <1>4, <1>5, <1>7, <2>1, <3>1
    <3>3. budget[j].action = "degrade"
      <4>1. budget[j].action \in Actions
        BY <1>3 DEF BudgetInv, SpendingInv, TypeOK, BudgetRows
      <4>2. Then(budget[j].action) = "go"
        BY <1>4, <2>1, <3>2
      <4>3. QED
        BY <4>1, <4>2 DEF Then, Actions
    <3>4. next.period = c.period
      BY <1>4, <3>2
    <3>5. QED
      BY <1>3, <3>3, <3>4
  <2>2. QED
    BY <1>1, <1>7, <2>1, GoesByRowStays DEF BudgetInv
<1>9. ASSUME NEW i \in BudgetIds PROVE Prepaid(i)'
  <2> DEFINE b == budget[i]
  <2>1. Spent(b) \in Nat /\ Hard(b) \in Nat /\ b.period \in {"daily", "monthly"}
    BY SpentType, RowFacts DEF BudgetInv
  <2>2. CASE Spent(b) <= Hard(b)
    BY <1>1, <2>2, BelowTheLimit DEF BudgetInv
  <2>3. CASE ~ Judged(i)
    BY <1>1, <2>3, JudgedStays DEF Prepaid
  <2>4. CASE Judged(i) /\ Spent(b) > Hard(b)
    <3>1. ASSUME PastCheck(b, next) PROVE PastCheck(b, c)
      <4>1. next.site = c.site
        BY <1>2, <1>4, <1>5, <1>7, PassedIs
      <4>2. Counts(b, c)
        BY <3>1, <4>1 DEF PastCheck, Counts
      <4>3. CASE b.period = c.period
        <5>1. rows = {i}
          BY <1>2, <2>4, <4>2, <4>3 DEF Judged, Governs, Counts
        <5>2. next = over("hard", "refuse")
          BY <1>6, <1>7, <2>4, <5>1
        <5>3. QED
          BY <1>4, <3>1, <4>3, <5>2 DEF PastCheck
      <4>4. CASE b.period = "daily" /\ c.period = "monthly"
        BY <1>1, <4>2, <4>4 DEF PastCheck
      <4>5. CASE b.period = "monthly" /\ c.period = "daily"
        <5>1. \/ next = Passed(c)
              \/ next.pc = "notify" /\ next.period = "daily"
          BY <1>4, <1>5, <1>7, <4>5
        <5>2. QED
          BY <1>2, <3>1, <4>5, <5>1, PassedIs DEF PastCheck
      <4>6. QED
        BY <1>2, <2>1, <4>3, <4>4, <4>5
    <3>2. UnderWay(b)' \subseteq UnderWay(b)
      BY <1>1, <1>7, <3>1, OneCallMoves DEF BudgetInv
    <3>3. \A s \in Sites, p \in Periods : ledger'[s][p] <= ledger[s][p]
      BY <1>1 DEF BudgetInv, SpendingInv, TypeOK, Periods
    <3>4. QED
      BY <1>1, <3>2, <3>3, FewerUnderWay DEF BudgetInv
  <2>5. QED
    BY <2>1, <2>2, <2>3, <2>4
<1>10. QED
  BY <1>8, <1>9 DEF BudgetInv

\* The ledger hears of a call that was paid for in advance.
LEMMA RecordPrepaid ==
  ASSUME BudgetInv, SpendingInv', NEW w \in Workers, RecordSpend(w)
  PROVE  BudgetInv'
<1> DEFINE c == call[w]
           d == CostOf[c.kind]
<1>1. /\ c.pc = "record" /\ UNCHANGED <<budget, edits>>
      /\ call' = [call EXCEPT ![w] = CallIdle]
      /\ ledger' = [ledger EXCEPT ![c.site].daily = @ + d, ![c.site].monthly = @ + d]
  BY DEF RecordSpend
<1>2. c.site \in Sites /\ c.kind \in Kinds
  BY <1>1 DEF BudgetInv, SpendingInv, Deciding, Busy
<1>3. d \in Nat /\ d <= Dearest /\ Dearest \in Nat
  BY <1>2, DearestIs, SpendingConstants
<1> HIDE DEF d
<1>4. \A s \in Sites, p \in Periods :
        ledger'[s][p] <= ledger[s][p] + (IF s = c.site THEN d ELSE 0)
  <2>1. \A s \in Sites : ledger[s] \in [daily : Nat, monthly : Nat]
    BY DEF BudgetInv, SpendingInv, TypeOK
  <2>2. ledger \in [Sites -> [daily : Nat, monthly : Nat]]
    BY DEF BudgetInv, SpendingInv, TypeOK
  <2>3. /\ ledger'[c.site].daily = ledger[c.site].daily + d
        /\ ledger'[c.site].monthly = ledger[c.site].monthly + d
        /\ \A s \in Sites : s # c.site => ledger'[s] = ledger[s]
    BY <1>1, <1>2, <2>1, <2>2
  <2>4. QED
    BY <1>3, <2>1, <2>3 DEF Periods
<1>5. /\ CallIdle.pc = "idle" /\ \A b : ~ PastCheck(b, CallIdle)
  BY DEF CallIdle, PastCheck
<1>6. GoesByRow'
  BY <1>1, <1>5, GoesByRowStays DEF BudgetInv
<1>7. ASSUME NEW i \in BudgetIds PROVE Prepaid(i)'
  <2> DEFINE b == budget[i]
  <2>1. UnderWay(b)' \subseteq UnderWay(b)
    BY <1>1, <1>5, OneCallMoves DEF BudgetInv
  <2>2. /\ Spent(b) \in Nat /\ Spent(b)' \in Nat /\ Spent(b)' <= Spent(b) + d
        /\ c.site \notin Counted(b) => Spent(b)' <= Spent(b)
    BY <1>1, <1>3, <1>4, SpentGrows DEF BudgetInv
  <2> DEFINE before == Cardinality(UnderWay(b))
             after == Cardinality(UnderWay(b)')
             all == Cardinality(Workers)
  <2>3. before \in Nat /\ after \in Nat /\ after <= before /\ all \in Nat
    <3>1. UnderWay(b) \in SUBSET Workers
      BY DEF UnderWay
    <3>2. QED
      BY <2>1, <3>1, Sizes, FS_Subset
  <2>4. c.site \in Counted(b) => after + 1 <= before
    <3>1. ASSUME c.site \in Counted(b) PROVE after + 1 <= before
      <4>1. w \in UnderWay(b)
        BY <1>1, <3>1 DEF UnderWay, PastCheck, Counts, Counted
      <4>2. call'[w] = CallIdle
        BY <1>1 DEF BudgetInv, SpendingInv, TypeOK
      <4>3. w \notin UnderWay(b)'
        BY <1>1, <1>5, <4>2 DEF UnderWay, PastCheck, Counts
      <4>4. IsFiniteSet(UnderWay(b))
        BY Sizes DEF UnderWay
      <4>5. UnderWay(b)' # UnderWay(b)
        BY <4>1, <4>3
      <4>6. after # before
        BY <2>1, <4>4, <4>5, FS_Subset
      <4>7. QED
        BY <2>3, <4>6
    <3>2. QED
      BY <3>1
  <2>5. /\ Dearest * before \in Nat /\ Dearest * after \in Nat /\ Dearest * all \in Nat
        /\ Dearest * after <= Dearest * before
        /\ c.site \in Counted(b) => Dearest * after + Dearest <= Dearest * before
    BY <2>3, <2>4, Products
  <2>6. Hard(b) \in Nat
    BY RowFacts DEF BudgetInv
  <2>7. SUFFICES ASSUME Judged(i)
                 PROVE  Spent(b)' + Dearest * after <= Hard(b) + Dearest * all
    BY <1>1, JudgedStays DEF Prepaid
  <2>8. Spent(b) + Dearest * before <= Hard(b) + Dearest * all
    BY <2>7 DEF BudgetInv, Prepaid
  <2> HIDE DEF b, before, after, all
  <2>9. CASE c.site \in Counted(b)
    BY <1>3, <2>2, <2>5, <2>6, <2>8, <2>9
  <2>10. CASE c.site \notin Counted(b)
    BY <2>2, <2>5, <2>6, <2>8, <2>10
  <2>11. QED
    BY <2>9, <2>10
<1>8. QED
  BY <1>6, <1>7 DEF BudgetInv

LEMMA MidnightPrepaid ==
  ASSUME BudgetInv, SpendingInv', Midnight
  PROVE  BudgetInv'
<1>1. UNCHANGED <<budget, call, edits>>
  BY DEF Midnight
<1>2. \A s \in Sites, p \in Periods : ledger'[s][p] <= ledger[s][p]
  BY DEF Midnight, BudgetInv, SpendingInv, TypeOK, Periods
<1>3. ASSUME NEW i \in BudgetIds PROVE Prepaid(i)'
  <2>1. UnderWay(budget[i])' \subseteq UnderWay(budget[i])
    BY <1>1 DEF UnderWay, PastCheck, Counts
  <2>2. QED
    BY <1>1, <1>2, <2>1, FewerUnderWay DEF BudgetInv
<1>4. QED
  BY <1>1, <1>3 DEF BudgetInv, GoesByRow

LEMMA BudgetInit == Init => BudgetInv
<1> SUFFICES ASSUME Init PROVE BudgetInv
  OBVIOUS
<1>1. SpendingInv
  BY SpendingInit
<1>2. \A w \in Workers : call[w].pc = "idle"
  BY DEF Init, CallIdle
<1>3. ASSUME NEW i \in BudgetIds PROVE Prepaid(i)
  <2> DEFINE b == budget[i]
             S == Counted(b)
             p == b.period
  <2>1. UnderWay(b) = {}
    BY <1>2 DEF UnderWay, PastCheck
  <2>2. Spent(b) = 0
    <3>1. p \in Periods /\ S \subseteq Sites /\ IsFiniteSet(S)
      BY <1>1, RowFacts DEF Periods
    <3>2. Spent(b) = Total(ledger, p, S)
      BY SpentAtIsTotal DEF Spent, Counted
    <3>3. \A s \in S : ledger[s][p] = 0
      BY <3>1 DEF Init, Periods
    <3> HIDE DEF b, S, p
    <3>4. Total(ledger, p, S) = 0
      BY <3>1, <3>3, TotalOfNothing
    <3>5. QED
      BY <3>2, <3>4
  <2>3. Hard(b) \in Nat
    BY <1>1, RowFacts
  <2>4. Dearest * Cardinality({}) = 0 /\ Dearest * Cardinality(Workers) \in Nat
    <3>1. Cardinality({}) = 0
      BY FS_EmptySet
    <3>2. QED
      BY <3>1, Sizes, Products, DearestIs
  <2> HIDE DEF b
  <2>5. Spent(b) + Dearest * Cardinality(UnderWay(b)) <= Hard(b) + Dearest * Cardinality(Workers)
    BY <2>1, <2>2, <2>3, <2>4
  <2>6. QED
    BY <2>5 DEF Prepaid, b
<1>4. QED
  BY <1>1, <1>2, <1>3 DEF BudgetInv, GoesByRow

LEMMA BudgetNext == BudgetInv /\ [Next]_vars => BudgetInv'
<1> SUFFICES ASSUME BudgetInv, [Next]_vars PROVE BudgetInv'
  OBVIOUS
<1>1. SpendingInv'
  BY SpendingNext DEF BudgetInv
<1>2. ASSUME NEW w \in Workers, NEW s \in Sites, NEW k \in Kinds, Takes(w, s, k)
      PROVE  BudgetInv'
  BY <1>1, <1>2, TakesPrepaid
<1>3. ASSUME NEW w \in Workers, Evaluate(w) \/ NotifyReads(w) \/ NotifyCreates(w)
      PROVE  BudgetInv'
  BY <1>1, <1>3, EvaluatePrepaid, NotifyReadsPrepaid, NotifyCreatesPrepaid
<1>4. ASSUME NEW w \in Workers, AskProvider(w) \/ RecordSpend(w) \/ RecordFails(w)
      PROVE  BudgetInv'
  BY <1>1, <1>4, AskPrepaid, RecordPrepaid
<1>5. ASSUME NEW o \in Offers, UpsertBudget(o) PROVE BudgetInv'
  <2>1. edits' # 0
    BY <1>5 DEF UpsertBudget, BudgetInv, SpendingInv, TypeOK
  <2>2. QED
    BY <1>1, <2>1 DEF BudgetInv, GoesByRow, Prepaid, Judged
<1>6. CASE Midnight
  BY <1>1, <1>6, MidnightPrepaid
<1>7. CASE UNCHANGED vars
  <2>1. UNCHANGED <<budget, ledger, call, edits>>
    BY <1>7 DEF vars
  <2>2. ASSUME NEW i \in BudgetIds PROVE Prepaid(i)'
    <3>1. UnderWay(budget[i])' \subseteq UnderWay(budget[i])
      BY <2>1 DEF UnderWay, PastCheck, Counts
    <3>2. \A s \in Sites, p \in Periods : ledger'[s][p] <= ledger[s][p]
      BY <2>1 DEF BudgetInv, SpendingInv, TypeOK, Periods
    <3>3. QED
      BY <1>1, <2>1, <3>1, <3>2, FewerUnderWay DEF BudgetInv
  <2>3. QED
    BY <1>1, <2>1, <2>2 DEF BudgetInv, GoesByRow
<1>8. QED
  BY <1>2, <1>3, <1>4, <1>5, <1>6, <1>7 DEF Next

-----------------------------------------------------------------------------
(* Theorems *)

\* Budgets, the ledger, the alerts and the calls keep their types.
THEOREM SpendingTypeCorrect == Spec => []TypeOK
<1>1. SpendingInv => TypeOK
  BY DEF SpendingInv
<1>2. QED
  BY <1>1, SpendingInit, SpendingNext, PTL DEF Spec

\* evaluateAiSpend answers allowed = false only after notifyBudgetEvent has
\* left an alert about that limit, whatever the other workers announce, whatever
\* operators save and whenever midnight falls between the steps.
THEOREM RefusalAnnouncedAlways == Spec => []RefusalAnnounced
<1>1. SpendingInv => RefusalAnnounced
  <2> SUFFICES ASSUME SpendingInv, NEW w \in Workers, call[w].outcome = "refused"
               PROVE  \E k \in Keys : /\ k[1] = call[w].site /\ k[2] = call[w].period
                                      /\ note[k].state # "none"
                                      /\ note[k].level = call[w].level
    BY DEF RefusalAnnounced
  <2> DEFINE k == Key(call[w].site, call[w].period, call[w].level)
  <2>1. call[w].site \in Sites /\ note[k].state # "none"
    BY DEF SpendingInv, Noticed
  <2>2. /\ k \in Keys /\ k[1] = call[w].site /\ k[2] = call[w].period
        /\ k[3] = call[w].level
    BY <2>1 DEF SpendingInv, TypeOK, Calls, Key, Keys
  <2>3. note[k].level = call[w].level
    BY <2>1, <2>2 DEF SpendingInv, Leveled
  <2>4. QED
    BY <2>1, <2>2, <2>3
<1>2. QED
  BY <1>1, SpendingInit, SpendingNext, PTL DEF Spec
\* Nothing reserves what a call will cost, so a hard limit may be passed, but by
\* no more than one call of the dearest kind for each worker: however many
\* sites, rows and days there are and wherever a record gets lost.
THEOREM OvershootBoundedAlways == Spec => []OvershootBounded
<1>1. BudgetInv => OvershootBounded
  <2> SUFFICES ASSUME BudgetInv, NEW i \in BudgetIds, Judged(i)
               PROVE  Spent(budget[i]) <= Hard(budget[i]) + Dearest * Cardinality(Workers)
    BY DEF OvershootBounded, Judged
  <2> DEFINE b == budget[i]
             n == Cardinality(UnderWay(b))
  <2>1. Spent(b) + Dearest * n <= Hard(b) + Dearest * Cardinality(Workers)
    BY DEF BudgetInv, Prepaid
  <2>2. n \in Nat
    <3>1. UnderWay(b) \in SUBSET Workers
      BY DEF UnderWay
    <3>2. QED
      BY <3>1, Sizes
  <2>3. Dearest * n \in Nat /\ Dearest * Cardinality(Workers) \in Nat
    BY <2>2, Sizes, Products
  <2>4. Hard(b) \in Nat
    BY RowFacts DEF BudgetInv
  <2>5. Spent(b) \in Nat
    BY SpentType DEF BudgetInv
  <2> HIDE DEF b, n
  <2>6. Spent(b) <= Hard(b) + Dearest * Cardinality(Workers)
    BY <2>1, <2>3, <2>4, <2>5
  <2>7. QED
    BY <2>6 DEF b
<1>2. QED
  BY <1>1, BudgetInit, BudgetNext, PTL DEF Spec
=============================================================================
