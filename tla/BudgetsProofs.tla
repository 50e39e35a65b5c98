---------------------------- MODULE BudgetsProofs ----------------------------
(***************************************************************************)
(* Proofs about Budgets, for every set of daily budgets, every minimum and *)
(* any number of sessions: the type invariant (no ad set ever asks Meta    *)
(* for less than it accepts), that what Meta may spend a day stays within  *)
(* what the owner chose, and that an audience is not shown a new ad every  *)
(* hour.                                                                   *)
(***************************************************************************)
EXTENDS Budgets, FiniteSetTheorems, TLAPS

-----------------------------------------------------------------------------
(* The inductive invariant.                                                *)

(* What a session holds of the launched ad sets, and of no others.         *)
SessionOK(s) ==
  /\ s.list \subseteq Launched /\ s.todo \subseteq s.list /\ s.winners \subseteq s.list
  /\ s.on \subseteq s.list
  /\ \A t \in Launched : s.saw[t] > 0 /\ s.budget[t] >= Minimum
  /\ \A t \in Tier \ Launched : s.budget[t] = 0
  /\ s.at = "push" => s.total \in Daily /\ s.asked = 0

SessionInv == \A r \in Run : run[r].at # "idle" => SessionOK(run[r])

(* While sessions come one at a time: none is open with another.           *)
Alone == \A q, r \in Run : run[q].at # "idle" /\ run[r].at # "idle" => q = r

(* What a session has read is still so; what it will commit is what it has *)
(* told Meta so far; and if none is open, the rows are.                    *)
FaithfulTo(r) ==
  /\ run[r].saw = budget /\ on \subseteq run[r].list
  /\ metaOn = run[r].on /\ metaBudget = run[r].budget
  /\ run[r].at # "push" => run[r].total = daily
  /\ run[r].at = "push" => run[r].list = on /\ run[r].on = on

MatchInv ==
  /\ Quiet => metaOn = on /\ metaBudget = budget
  /\ \A r \in Run : run[r].at # "idle" => FaithfulTo(r)

(* The owner's new budget is shared out ad set by ad set.                  *)
PushedBy(r, s) ==
  \A t \in Tier : s.budget[t] = IF t \in s.list \ s.todo THEN Share(r, t) ELSE s.saw[t]

PushInv == \A r \in Run : run[r].at = "push" => PushedBy(r, run[r])

(* Between the owner's changes: the ad sets that are on and not stale      *)
(* spend no more than the daily budget together, and none that might come  *)
(* back on spends more alone. Only onboarding's form sets a budget of      *)
(* nothing, and it tells no ad set: as long as there is no cap, all are    *)
(* stale.                                                                  *)
Above(S) == {t \in S : metaBudget[t] > Minimum}

Spending ==
  /\ Total(metaBudget, Above(metaOn \ stale)) <= daily
  /\ \A t \in Launched \ stale : metaBudget[t] <= daily
  /\ daily = 0 => Launched \subseteq stale

SpendInv == (\A r \in Run : run[r].at # "push") => Spending

(* A run has made no ad before it has asked for one, and a second one only *)
(* if the first decision has not been flushed.                             *)
FreshInv ==
  /\ fresh <= 2
  /\ Quiet /\ ~rotated => fresh = 0
  /\ \A r \in Run : run[r].at # "idle" /\ ~rotated =>
       /\ run[r].asked = 0 => fresh = 0
       /\ ~run[r].flushed => fresh <= 1

SoloInv == ~disturbed => Alone /\ MatchInv /\ PushInv /\ SpendInv /\ FreshInv

BudgetsInv == TypeOK /\ SessionInv /\ SoloInv

-----------------------------------------------------------------------------
(* Sums over ad sets.                                                      *)
LEMMA TotalIsNat ==
  ASSUME NEW a \in Amounts, NEW S
  PROVE  Total(a, S) \in Nat
BY DEF Total, Amounts, Tier

LEMMA TotalOfNone ==
  ASSUME NEW a
  PROVE  Total(a, {}) = 0
BY DEF Total

LEMMA TotalMonotone ==
  ASSUME NEW a \in Amounts, NEW b \in Amounts, NEW S, NEW T,
         \A t \in S \cap Tier : t \in T /\ a[t] <= b[t]
  PROVE  Total(a, S) <= Total(b, T)
<1>1. \A t \in Tier : a[t] \in Nat /\ b[t] \in Nat
  BY DEF Amounts
<1> QED
  BY <1>1 DEF Total, Tier

(* No more than the others and the amount of one of them.                  *)
LEMMA TotalWithOne ==
  ASSUME NEW a \in Amounts, NEW b \in Amounts, NEW S, NEW t \in Tier,
         \A u \in Tier \ {t} : b[u] = a[u]
  PROVE  Total(b, S) <= Total(a, S \ {t}) + b[t]
<1>1. \A u \in Tier : a[u] \in Nat /\ b[u] \in Nat
  BY DEF Amounts
<1> QED
  BY <1>1 DEF Total, Tier

LEMMA OneOfTotal ==
  ASSUME NEW a \in Amounts, NEW S, NEW t \in S \cap Tier
  PROVE  a[t] <= Total(a, S)
BY DEF Total, Amounts, Tier

LEMMA TotalOfOne ==
  ASSUME NEW a \in Amounts, NEW t \in Tier
  PROVE  Total(a, {t}) = a[t]
BY DEF Total, Amounts, Tier

-----------------------------------------------------------------------------
(* The least and the largest of two.                                       *)
LEMMA MinOfTwo ==
  ASSUME NEW a \in Nat, NEW b \in Nat
  PROVE  Min({a, b}) = IF a <= b THEN a ELSE b
<1> DEFINE least(x) == x \in {a, b} /\ \A y \in {a, b} : x <= y
<1>1. least(IF a <= b THEN a ELSE b)
  OBVIOUS
<1>2. \A x : least(x) => x = IF a <= b THEN a ELSE b
  OBVIOUS
<1>3. Min({a, b}) = CHOOSE x \in {a, b} : \A y \in {a, b} : x <= y
  BY DEF Min
<1> QED
  BY <1>1, <1>2, <1>3

LEMMA MaxOfTwo ==
  ASSUME NEW a \in Nat, NEW b \in Nat
  PROVE  Max({a, b}) = IF a >= b THEN a ELSE b
<1> DEFINE largest(x) == x \in {a, b} /\ \A y \in {a, b} : x >= y
<1>1. largest(IF a >= b THEN a ELSE b)
  OBVIOUS
<1>2. \A x : largest(x) => x = IF a >= b THEN a ELSE b
  OBVIOUS
<1>3. Max({a, b}) = CHOOSE x \in {a, b} : \A y \in {a, b} : x >= y
  BY DEF Max
<1> QED
  BY <1>1, <1>2, <1>3

-----------------------------------------------------------------------------
(* _budget_tiers shares out no more than the daily budget, every ad set it *)
(* launches gets what Meta accepts, and prospecting is one of them.        *)
THEOREM BudgetTiersFit ==
  ASSUME NEW d \in Daily
  PROVE  /\ BudgetTiers(d) \in Amounts
         /\ \A t \in Tier : BudgetTiers(d)[t] > 0 => BudgetTiers(d)[t] >= Minimum
         /\ BudgetTiers(d)["PROSPECTING"] >= Minimum
         /\ Total(BudgetTiers(d), Tier) <= d
<1> DEFINE p == (d * 65) \div 100
           q == (d * 20) \div 100
           w == (d * 15) \div 100
           share == [t \in Tier |-> (d * BUDGET_SPLIT[t]) \div 100]
           small == {t \in Tier \ {"PROSPECTING"} : share[t] < Minimum}
           b == BudgetTiers(d)
<1>1. d \in Nat /\ Minimum \in Nat \ {0} /\ d >= Minimum
        /\ (Minimum % 20 = 0 \/ d >= Minimum + 2)
  BY BudgetsAssumption
<1>2. share["PROSPECTING"] = p /\ share["RETARGETING"] = q /\ share["TESTING"] = w
  BY DEF BUDGET_SPLIT, Tier
<1>3. p \in Nat /\ q \in Nat /\ w \in Nat /\ p + q + w <= d
  BY <1>1
<1>4. p + q + w >= Minimum
  <2>1. CASE d >= Minimum + 2
    <3>1. 100 * p + 100 * q + 100 * w > 100 * d - 300
      BY <1>1
    <3> QED
      BY <1>1, <1>3, <2>1, <3>1
  <2>2. CASE Minimum % 20 = 0
    <3>1. PICK k \in Nat : Minimum = 20 * k
      <4>1. Minimum = 20 * (Minimum \div 20) /\ Minimum \div 20 \in Nat
        BY <1>1, <2>2
      <4> QED
        BY <4>1
    <3>2. d * 65 >= 1300 * k /\ d * 20 >= 400 * k /\ d * 15 >= 300 * k
      BY <1>1, <3>1
    <3>3. p >= 13 * k /\ q >= 4 * k /\ w >= 3 * k
      BY <1>1, <3>2
    <3> QED
      BY <1>3, <3>1, <3>3
  <2> QED
    BY <1>1, <2>1, <2>2
<1>5. (q >= Minimum => p >= Minimum) /\ (w >= Minimum => p >= Minimum)
  BY <1>1
<1>6. b = [t \in Tier |-> IF t \in small THEN 0
                         ELSE IF t = "PROSPECTING" THEN share[t] + Total(share, small)
                         ELSE share[t]]
  BY DEF BudgetTiers
<1>7. /\ "PROSPECTING" \notin small
      /\ "RETARGETING" \in small <=> q < Minimum
      /\ "TESTING" \in small <=> w < Minimum
  BY <1>2 DEF Tier
<1> HIDE DEF p, q, w, b, share, small
<1>8. Total(share, small) = (IF q < Minimum THEN q ELSE 0) + (IF w < Minimum THEN w ELSE 0)
  BY <1>2, <1>3, <1>7 DEF Total
<1>9. /\ b["PROSPECTING"] = p + (IF q < Minimum THEN q ELSE 0) + (IF w < Minimum THEN w ELSE 0)
      /\ b["RETARGETING"] = IF q < Minimum THEN 0 ELSE q
      /\ b["TESTING"] = IF w < Minimum THEN 0 ELSE w
  <2>1. b["PROSPECTING"] = p + Total(share, small)
    BY <1>2, <1>6, <1>7 DEF Tier
  <2>2. b["RETARGETING"] = IF "RETARGETING" \in small THEN 0 ELSE q
    BY <1>2, <1>6 DEF Tier
  <2>3. b["TESTING"] = IF "TESTING" \in small THEN 0 ELSE w
    BY <1>2, <1>6 DEF Tier
  <2> QED
    BY <1>3, <1>7, <1>8, <2>1, <2>2, <2>3
<1>10. \A t \in Tier : b[t] \in Nat /\ (b[t] > 0 => b[t] >= Minimum)
  BY <1>1, <1>3, <1>4, <1>5, <1>9 DEF Tier
<1>11. b \in Amounts /\ b["PROSPECTING"] >= Minimum
  BY <1>1, <1>3, <1>4, <1>5, <1>6, <1>9, <1>10 DEF Amounts
<1>12. Total(b, Tier) <= d
  BY <1>1, <1>3, <1>9 DEF Total, Tier
<1> QED
  BY <1>10, <1>11, <1>12 DEF b

-----------------------------------------------------------------------------
(* The guardrails. The 20% ceiling never cuts.                             *)
LEMMA ClampNeverCuts ==
  ASSUME NEW now \in Nat, NEW proposed \in Nat, proposed >= now
  PROVE  ClampScale(now, proposed) \in Nat /\ ClampScale(now, proposed) >= now
<1>1. now + (now * 20) \div 100 \in Nat /\ now + (now * 20) \div 100 >= now
  OBVIOUS
<1> QED
  BY <1>1, MinOfTwo DEF ClampScale

(* Nor does _cap_to_account_budget (pipeline.py:899). Where there is a     *)
(* daily budget, a raise that it lets through keeps all that are on within *)
(* it together; where there is none, any raise goes through.               *)
THEOREM CapLeavesRoom ==
  ASSUME NEW r, run[r].budget \in Amounts, run[r].total \in Nat, NEW t \in Tier,
         NEW proposed \in Nat, proposed >= run[r].budget[t]
  PROVE  LET raised == CapToAccountBudget(r, t, proposed)
         IN  /\ raised \in Nat /\ raised >= run[r].budget[t]
             /\ run[r].total > 0 /\ raised > run[r].budget[t]
                  => raised + Total(run[r].budget, run[r].on \ {t}) <= run[r].total
             /\ run[r].total = 0 => raised = proposed
<1> DEFINE now == run[r].budget[t]
           others == Total(run[r].budget, run[r].on \ {t})
           room == IF run[r].total > others THEN run[r].total - others ELSE 0
           ceiling == IF now >= room THEN now ELSE room
<1>1. now \in Nat
  BY DEF Amounts
<1>2. others \in Nat
  BY TotalIsNat
<1>3. room \in Nat
  BY <1>2
<1>4. Max({now, room}) = ceiling
  BY <1>1, <1>3, MaxOfTwo
<1>5. ceiling \in Nat
  BY <1>1, <1>3
<1>6. CASE run[r].total = 0
  <2>1. CapToAccountBudget(r, t, proposed) = proposed
    BY <1>6 DEF CapToAccountBudget
  <2> QED
    BY <1>6, <2>1
<1>7. CASE run[r].total > 0
  <2>1. CapToAccountBudget(r, t, proposed) = Min({proposed, Max({now, room})})
    BY <1>7 DEF CapToAccountBudget
  <2> HIDE DEF ceiling, room, now, others
  <2>2. CapToAccountBudget(r, t, proposed) = IF proposed <= ceiling THEN proposed ELSE ceiling
    BY <1>4, <1>5, <2>1, MinOfTwo
  <2>3. LET raised == CapToAccountBudget(r, t, proposed)
        IN  /\ raised \in Nat /\ raised >= now
            /\ raised > now => raised + others <= run[r].total
    BY <1>1, <1>2, <1>5, <2>2, proposed >= run[r].budget[t] DEF now, ceiling, room
  <2> QED
    BY <1>7, <2>3 DEF now, others
<1> QED
  BY <1>6, <1>7

-----------------------------------------------------------------------------
(* Division, as it is used below.                                          *)
LEMMA DivisionBounds ==
  ASSUME NEW x \in Nat, NEW y \in Nat \ {0}
  PROVE  x \div y \in Nat /\ (x \div y) * y <= x
OBVIOUS

LEMMA ProductsCompare ==
  ASSUME NEW a \in Nat, NEW b \in Nat, NEW k \in Nat \ {0}, a * k <= b * k
  PROVE  a <= b
OBVIOUS

(* reconcile_budgets: a new share is what Meta accepts, and no more than   *)
(* the new daily budget, which is above the minimum itself.                *)
LEMMA ShareFits ==
  ASSUME NEW r, run[r].saw \in Amounts, run[r].total \in Daily,
         NEW t \in Tier, t \in run[r].list, run[r].saw[t] > 0
  PROVE  LET sum == Total(run[r].saw, run[r].list)
             part == (run[r].saw[t] * run[r].total) \div sum
         IN  /\ sum \in Nat \ {0} /\ part \in Nat
             /\ part * sum <= run[r].saw[t] * run[r].total
             /\ Share(r, t) = (IF Minimum >= part THEN Minimum ELSE part)
             /\ Share(r, t) >= Minimum /\ Share(r, t) <= run[r].total
             /\ Share(r, t) \in Nat
<1> DEFINE sum == Total(run[r].saw, run[r].list)
           had == run[r].saw[t]
           d == run[r].total
           part == (had * d) \div sum
<1>1. had \in Nat \ {0} /\ d \in Nat /\ Minimum \in Nat /\ d >= Minimum
  <2>1. \A x \in Daily : x \in Nat /\ Minimum \in Nat /\ x >= Minimum
    BY BudgetsAssumption
  <2>2. had \in Nat /\ had > 0
    BY DEF Amounts
  <2> QED
    BY <2>1, <2>2
<1>2. sum \in Nat /\ had <= sum
  BY TotalIsNat, OneOfTotal
<1>3. Share(r, t) = Max({Minimum, part})
  BY DEF Share
<1> HIDE DEF sum, had, d
<1>4. had * d \in Nat /\ sum \in Nat \ {0}
  BY <1>1, <1>2
<1>5. part \in Nat /\ part * sum <= had * d
  BY <1>4, DivisionBounds
<1> HIDE DEF part
<1>6. had * d <= sum * d
  BY <1>1, <1>2
<1>7. part * sum <= d * sum
  BY <1>1, <1>4, <1>5, <1>6
<1>8. part <= d
  BY <1>1, <1>4, <1>5, <1>7, ProductsCompare
<1>9. Share(r, t) = IF Minimum >= part THEN Minimum ELSE part
  BY <1>1, <1>3, <1>5, MaxOfTwo
<1>10. /\ sum \in Nat \ {0} /\ part \in Nat /\ part * sum <= had * d
       /\ Share(r, t) = (IF Minimum >= part THEN Minimum ELSE part)
       /\ Share(r, t) >= Minimum /\ Share(r, t) <= d /\ Share(r, t) \in Nat
  BY <1>1, <1>4, <1>5, <1>8, <1>9
<1> QED
  BY <1>10 DEF part, sum, had, d

(* Three shares of a total, each rounded down, are no more than the total. *)
LEMMA SharesFit ==
  ASSUME NEW saw \in Amounts, NEW S, NEW d \in Nat, NEW new \in Amounts,
         Total(saw, S) \in Nat \ {0},
         NEW U, U \subseteq S,
         \A t \in U \cap Tier : new[t] * Total(saw, S) <= saw[t] * d
  PROVE  Total(new, U) <= d
<1> DEFINE sum == Total(saw, S)
           n(t) == IF t \in U THEN new[t] ELSE 0
           o(t) == IF t \in S THEN saw[t] ELSE 0
<1>1. sum \in Nat \ {0}
  OBVIOUS
<1>2. \A t \in Tier : n(t) \in Nat /\ o(t) \in Nat
  BY DEF Amounts
<1>3. \A t \in Tier : n(t) * sum <= o(t) * d
  <2>1. TAKE t \in Tier
  <2>2. CASE t \in U
    BY <2>2
  <2>3. CASE t \notin U
    <3>1. n(t) = 0 /\ o(t) * d \in Nat
      BY <1>2, <2>3
    <3> QED
      BY <1>1, <3>1
  <2> QED
    BY <2>2, <2>3
<1>4. /\ sum = o("PROSPECTING") + o("RETARGETING") + o("TESTING")
      /\ Total(new, U) = n("PROSPECTING") + n("RETARGETING") + n("TESTING")
  BY DEF Total
<1> HIDE DEF sum, n, o
<1>5. Total(new, U) * sum
        = n("PROSPECTING") * sum + n("RETARGETING") * sum + n("TESTING") * sum
  BY <1>1, <1>2, <1>4 DEF Tier
<1>6. sum * d = o("PROSPECTING") * d + o("RETARGETING") * d + o("TESTING") * d
  BY <1>1, <1>2, <1>4 DEF Tier
<1>7. /\ n("PROSPECTING") * sum <= o("PROSPECTING") * d
      /\ n("RETARGETING") * sum <= o("RETARGETING") * d
      /\ n("TESTING") * sum <= o("TESTING") * d
  BY <1>3 DEF Tier
<1>8. Total(new, U) * sum <= d * sum
  <2> DEFINE np == n("PROSPECTING") * sum
             nr == n("RETARGETING") * sum
             nt == n("TESTING") * sum
             op == o("PROSPECTING") * d
             or == o("RETARGETING") * d
             ot == o("TESTING") * d
  <2>1. /\ np \in Nat /\ nr \in Nat /\ nt \in Nat
        /\ op \in Nat /\ or \in Nat /\ ot \in Nat
    BY <1>1, <1>2 DEF Tier
  <2>2. d * sum = sum * d
    BY <1>1
  <2> HIDE DEF np, nr, nt, op, or, ot
  <2>3. Total(new, U) * sum = np + nr + nt /\ d * sum = op + or + ot
    BY <1>5, <1>6, <2>2 DEF np, nr, nt, op, or, ot
  <2>4. np <= op /\ nr <= or /\ nt <= ot
    BY <1>7 DEF np, nr, nt, op, or, ot
  <2> QED
    BY <2>1, <2>3, <2>4
<1>9. Total(new, U) \in Nat
  BY TotalIsNat
<1> QED
  BY <1>1, <1>8, <1>9, ProductsCompare
-----------------------------------------------------------------------------
(* The type of a session, field by field.                                  *)
LEMMA SessionFields ==
  ASSUME NEW s \in RunState
  PROVE  /\ s.at \in Place /\ s.total \in Nat /\ s.list \in SUBSET Tier
         /\ s.saw \in Amounts /\ s.on \in SUBSET Tier /\ s.budget \in Amounts
         /\ s.todo \in SUBSET Tier /\ s.winners \in SUBSET Tier /\ s.freed \in Nat
         /\ s.asked \in Nat
BY DEF RunState

LEMMA IdleIsASession == Idle \in RunState /\ Idle.at = "idle"
BY DEF Idle, RunState, Place, Amounts

(* Less on, at the same budgets, spends no more.                           *)
LEMMA SpendingKept ==
  ASSUME TypeOK, Spending, metaOn' \subseteq metaOn,
         UNCHANGED <<daily, budget, metaBudget, stale>>
  PROVE  Spending'
<1>1. daily \in Nat /\ metaBudget \in Amounts
  BY BudgetsAssumption DEF TypeOK
<1>2. Above(metaOn' \ stale) \subseteq Above(metaOn \ stale)
  BY DEF Above
<1>3. \A t \in Tier : metaBudget[t] <= metaBudget[t]
  BY <1>1 DEF Amounts
<1>4. Total(metaBudget, Above(metaOn' \ stale)) <= Total(metaBudget, Above(metaOn \ stale))
  BY <1>1, <1>2, <1>3, TotalMonotone
<1>5. Total(metaBudget, Above(metaOn' \ stale)) <= daily
  <2>1. /\ Total(metaBudget, Above(metaOn' \ stale)) \in Nat
        /\ Total(metaBudget, Above(metaOn \ stale)) \in Nat
    BY <1>1, TotalIsNat
  <2> QED
    BY <1>1, <1>4, <2>1 DEF Spending
<1>6. Above(metaOn \ stale)' = Above(metaOn' \ stale)
  BY DEF Above
<1>7. Total(metaBudget, Above(metaOn \ stale))' <= daily'
  BY <1>5, <1>6
<1> QED
  BY <1>7 DEF Spending, Launched

(* An ad set raised into the room that the others leave.                   *)
LEMMA SpendingRaised ==
  ASSUME TypeOK, Spending, NEW r \in Run, NEW t \in Tier, NEW raised \in Nat,
         run[r].on = metaOn, run[r].budget = metaBudget, run[r].total = daily,
         metaBudget' = [metaBudget EXCEPT ![t] = raised],
         raised + Total(run[r].budget, run[r].on \ {t}) <= run[r].total,
         UNCHANGED <<daily, budget, metaOn, stale>>
  PROVE  Spending'
<1> DEFINE S == Above(metaOn \ stale)'
<1>1. daily \in Nat /\ metaBudget \in Amounts
  BY BudgetsAssumption DEF TypeOK
<1>2. /\ metaBudget' \in Amounts /\ metaBudget'[t] = raised
      /\ \A u \in Tier \ {t} : metaBudget'[u] = metaBudget[u]
  BY <1>1 DEF Amounts
<1>3. S \subseteq metaOn
  BY DEF Above
<1> HIDE DEF S
<1>4. Total(metaBudget', S) <= Total(metaBudget, S \ {t}) + raised
  <2>1. Total(metaBudget', S) <= Total(metaBudget, S \ {t}) + metaBudget'[t]
    BY <1>1, <1>2, TotalWithOne
  <2> QED
    BY <1>2, <2>1
<1>5. Total(metaBudget, S \ {t}) <= Total(metaBudget, metaOn \ {t})
  <2>1. \A u \in Tier : metaBudget[u] <= metaBudget[u]
    BY <1>1 DEF Amounts
  <2> QED
    BY <1>1, <1>3, <2>1, TotalMonotone
<1>6. /\ Total(metaBudget', S) \in Nat /\ Total(metaBudget, S \ {t}) \in Nat
      /\ Total(metaBudget, metaOn \ {t}) \in Nat
  BY <1>1, <1>2, TotalIsNat
<1>7. raised + Total(metaBudget, metaOn \ {t}) <= daily
  OBVIOUS
<1>8. Total(metaBudget', S) <= daily
  BY <1>1, <1>4, <1>5, <1>6, <1>7
<1>9. raised <= daily
  BY <1>1, <1>6, <1>7
<1>10. \A u \in Launched \ stale : metaBudget'[u] <= daily
  BY <1>2, <1>9 DEF Spending, Launched
<1> QED
  BY <1>8, <1>10 DEF Spending, Launched, S

-----------------------------------------------------------------------------
(* What all the steps of an open session have in common.                   *)
LEMMA SessionSteps ==
  ASSUME BudgetsInv, NEW r \in Run, NEW s \in RunState, run[r].at # "idle", s.at # "idle",
         run' = [run EXCEPT ![r] = s],
         UNCHANGED <<daily, running, camp, rows, rotated, runs, byHand, failures, disturbed,
                     stale>>,
         SessionOK(s), s.at = "push" <=> run[r].at = "push",
         s.list = run[r].list, s.saw = run[r].saw, s.total = run[r].total,
         s.at = "push" => s.on = run[r].on,
         metaOn' \in SUBSET Launched, metaBudget' \in Amounts,
         \A t \in Launched : metaBudget'[t] >= Minimum,
         fresh' \in Nat,
         ~disturbed /\ FaithfulTo(r) => metaOn' = s.on /\ metaBudget' = s.budget,
         ~disturbed /\ s.at = "push" => PushedBy(r, s),
         ~disturbed /\ FaithfulTo(r) /\ s.at # "push" /\ Spending => Spending',
         ~disturbed => /\ fresh' <= 2
                       /\ ~rotated => /\ s.asked = 0 => fresh' = 0
                                      /\ ~s.flushed => fresh' <= 1
  PROVE  BudgetsInv'
<1>1. Launched' = Launched
  BY DEF Launched, rows
<1>2. TypeOK /\ SessionInv /\ run \in [Run -> RunState]
  BY DEF BudgetsInv, TypeOK
<1>3. run'[r] = s /\ \A q \in Run \ {r} : run'[q] = run[q]
  BY <1>2
<1>4. TypeOK'
  <2>1. run' \in [Run -> RunState]
    BY <1>2
  <2>2. /\ running' \in BOOLEAN /\ camp' \in BOOLEAN /\ rotated' \in BOOLEAN
        /\ disturbed' \in BOOLEAN
    BY <1>2 DEF TypeOK
  <2> QED
    BY <1>1, <1>2, <2>1, <2>2 DEF TypeOK, rows
<1>5. SessionInv'
  BY <1>1, <1>2, <1>3 DEF SessionInv, SessionOK
<1>6. ASSUME ~disturbed'
      PROVE  (Alone /\ MatchInv /\ PushInv /\ SpendInv /\ FreshInv)'
  <2>1. ~disturbed /\ Alone /\ MatchInv /\ PushInv /\ SpendInv /\ FreshInv
    BY <1>6 DEF BudgetsInv, SoloInv
  <2>2. \A q \in Run \ {r} : run[q].at = "idle" /\ run'[q].at = "idle"
    BY <1>3, <2>1 DEF Alone
  <2>3. Alone'
    BY <2>2 DEF Alone
  <2>4. ~Quiet' /\ FaithfulTo(r)
    BY <1>3, <2>1 DEF Quiet, MatchInv
  <2>5. FaithfulTo(r)'
    BY <1>3, <2>1, <2>4 DEF FaithfulTo, rows
  <2>6. MatchInv'
    BY <1>3, <2>2, <2>4, <2>5 DEF MatchInv
  <2>7. \A t : Share(r, t)' = Share(r, t)
    BY <1>3 DEF Share
  <2>8. PushInv'
    BY <1>3, <2>1, <2>2, <2>7 DEF PushInv, PushedBy
  <2>9. SpendInv'
    BY <1>3, <2>1, <2>2, <2>4 DEF SpendInv
  <2>10. FreshInv'
    BY <1>3, <2>1, <2>2, <2>4 DEF FreshInv
  <2> QED
    BY <2>3, <2>6, <2>8, <2>9, <2>10
<1> QED
  BY <1>4, <1>5, <1>6 DEF BudgetsInv, SoloInv
(* Those that raise no budget and make no ad.                              *)
LEMMA PassingSteps ==
  ASSUME BudgetsInv, NEW r \in Run, NEW s \in RunState, run[r].at \notin {"idle", "push"},
         s.at \notin {"idle", "push"},
         run' = [run EXCEPT ![r] = s],
         UNCHANGED <<daily, running, camp, rows, metaBudget, rotated, runs, byHand, failures,
                     fresh, disturbed, stale>>,
         SessionOK(s),
         s.list = run[r].list, s.saw = run[r].saw, s.total = run[r].total,
         s.budget = run[r].budget, s.asked = run[r].asked, s.flushed = run[r].flushed,
         metaOn' \subseteq metaOn,
         metaOn = run[r].on => metaOn' = s.on
  PROVE  BudgetsInv'
<1>1. TypeOK
  BY DEF BudgetsInv
<1>2. metaOn' \in SUBSET Launched /\ metaBudget' = metaBudget /\ metaBudget' \in Amounts
        /\ (\A t \in Launched : metaBudget'[t] >= Minimum) /\ fresh' = fresh /\ fresh' \in Nat
  BY <1>1 DEF TypeOK
<1>3. ~disturbed /\ FaithfulTo(r) => metaOn' = s.on /\ metaBudget' = s.budget
  BY DEF FaithfulTo
<1>4. Spending => Spending'
  BY <1>1, SpendingKept DEF rows
<1>5. ~disturbed => /\ fresh' <= 2
                    /\ ~rotated => /\ s.asked = 0 => fresh' = 0
                                   /\ ~s.flushed => fresh' <= 1
  BY <1>2 DEF BudgetsInv, SoloInv, FreshInv
<1> QED
  BY <1>2, <1>3, <1>4, <1>5, SessionSteps

-----------------------------------------------------------------------------
(* The optimizer's run, action by action.                                  *)
LEMMA EmergencyStopKeeps ==
  ASSUME BudgetsInv, NEW r \in Run, EmergencyStop(r)
  PROVE  BudgetsInv'
<1> DEFINE s == [run[r] EXCEPT !.at = "commit", !.on = {}, !.stop = TRUE, !.todo = {}]
<1>1. TypeOK /\ run[r] \in RunState /\ run[r].at = "judge" /\ SessionOK(run[r])
  BY DEF BudgetsInv, TypeOK, SessionInv, EmergencyStop
<1>2. /\ run' = [run EXCEPT ![r] = s]
      /\ metaOn' = metaOn \ run[r].list
      /\ UNCHANGED <<daily, running, camp, rows, metaBudget, rotated, runs, byHand, failures,
                     fresh, disturbed, stale>>
  BY DEF EmergencyStop
<1>3. s \in RunState
  BY <1>1 DEF RunState, Place
<1>4. /\ s.at = "commit" /\ s.on = {}
      /\ s.list = run[r].list /\ s.saw = run[r].saw /\ s.total = run[r].total
      /\ s.budget = run[r].budget /\ s.todo = {} /\ s.winners = run[r].winners
      /\ s.asked = run[r].asked /\ s.flushed = run[r].flushed
  BY <1>1 DEF RunState
<1> HIDE DEF s
<1>5. SessionOK(s)
  BY <1>1, <1>4 DEF SessionOK
<1>6. metaOn = run[r].on => metaOn' = s.on
  BY <1>1, <1>2, <1>4 DEF SessionOK
<1> QED
  BY <1>1, <1>2, <1>3, <1>4, <1>5, <1>6, PassingSteps

LEMMA KeepAdSetKeeps ==
  ASSUME BudgetsInv, NEW r \in Run, NEW t \in Tier, KeepAdSet(r, t)
  PROVE  BudgetsInv'
<1> DEFINE s == [run[r] EXCEPT !.todo = @ \ {t}]
<1>1. TypeOK /\ run[r] \in RunState /\ run[r].at = "judge" /\ SessionOK(run[r])
  BY DEF BudgetsInv, TypeOK, SessionInv, KeepAdSet, Judged
<1>2. /\ run' = [run EXCEPT ![r] = s]
      /\ UNCHANGED <<daily, running, camp, rows, metaOn, metaBudget, rotated, runs, byHand,
                     failures, fresh, disturbed, stale>>
  BY DEF KeepAdSet, meta
<1>3. s \in RunState
  BY <1>1 DEF RunState
<1>4. /\ s.at = "judge" /\ s.on = run[r].on /\ s.todo = run[r].todo \ {t}
      /\ s.list = run[r].list /\ s.saw = run[r].saw /\ s.total = run[r].total
      /\ s.budget = run[r].budget /\ s.winners = run[r].winners
      /\ s.asked = run[r].asked /\ s.flushed = run[r].flushed
  BY <1>1 DEF RunState
<1> HIDE DEF s
<1>5. SessionOK(s)
  BY <1>1, <1>4 DEF SessionOK
<1> QED
  BY <1>1, <1>2, <1>3, <1>4, <1>5, PassingSteps

LEMMA KillAdSetKeeps ==
  ASSUME BudgetsInv, NEW r \in Run, NEW t \in Tier, KillAdSet(r, t)
  PROVE  BudgetsInv'
<1> DEFINE s == [run[r] EXCEPT !.todo = @ \ {t}, !.on = @ \ {t}, !.freed = @ + run[r].budget[t]]
<1>1. TypeOK /\ run[r] \in RunState /\ run[r].at = "judge" /\ SessionOK(run[r])
  BY DEF BudgetsInv, TypeOK, SessionInv, KillAdSet, Judged
<1>2. /\ run' = [run EXCEPT ![r] = s]
      /\ metaOn' = metaOn \ {t}
      /\ UNCHANGED <<daily, running, camp, rows, metaBudget, rotated, runs, byHand, failures,
                     fresh, disturbed, stale>>
  BY DEF KillAdSet
<1>3. s \in RunState
  <2>1. run[r].freed + run[r].budget[t] \in Nat
    BY <1>1, SessionFields DEF Amounts
  <2> QED
    BY <1>1, <2>1 DEF RunState
<1>4. /\ s.at = "judge" /\ s.on = run[r].on \ {t} /\ s.todo = run[r].todo \ {t}
      /\ s.list = run[r].list /\ s.saw = run[r].saw /\ s.total = run[r].total
      /\ s.budget = run[r].budget /\ s.winners = run[r].winners
      /\ s.asked = run[r].asked /\ s.flushed = run[r].flushed
  BY <1>1 DEF RunState
<1> HIDE DEF s
<1>5. SessionOK(s)
  BY <1>1, <1>4 DEF SessionOK
<1>6. metaOn = run[r].on => metaOn' = s.on
  BY <1>2, <1>4
<1> QED
  BY <1>1, <1>2, <1>3, <1>4, <1>5, <1>6, PassingSteps

(* A freed budget is shared out among some winners.                        *)
LEMMA WinnersShareANumber ==
  ASSUME NEW freed \in Nat, NEW W \in SUBSET Tier, W # {}
  PROVE  freed \div Cardinality(W) \in Nat
<1>1. IsFiniteSet(Tier)
  <2>1. Tier = {"PROSPECTING"} \cup ({"RETARGETING"} \cup {"TESTING"})
    BY DEF Tier
  <2>2. /\ IsFiniteSet({"PROSPECTING"}) /\ IsFiniteSet({"RETARGETING"})
        /\ IsFiniteSet({"TESTING"})
    BY FS_Singleton
  <2> QED
    BY <2>1, <2>2, FS_Union
<1>2. IsFiniteSet(W)
  BY <1>1, FS_Subset
<1>3. Cardinality(W) \in Nat \ {0}
  BY <1>2, FS_CardinalityType, FS_EmptySet
<1> QED
  BY <1>3, DivisionBounds

LEMMA FinishJudgingKeeps ==
  ASSUME BudgetsInv, NEW r \in Run, FinishJudging(r)
  PROVE  BudgetsInv'
<1> DEFINE shares == run[r].freed > 0 /\ run[r].winners # {}
           part == IF shares THEN run[r].freed \div Cardinality(run[r].winners) ELSE 0
           next == IF shares THEN "reallocate" ELSE "sweep"
           left == IF shares THEN run[r].winners ELSE {}
           s == [run[r] EXCEPT !.at = next, !.todo = left, !.winners = {}, !.freed = part]
<1>1. TypeOK /\ run[r] \in RunState /\ run[r].at = "judge" /\ SessionOK(run[r])
  BY DEF BudgetsInv, TypeOK, SessionInv, FinishJudging
<1>2. run' = [run EXCEPT ![r] = s]
  BY DEF FinishJudging
<1>3. UNCHANGED <<daily, running, camp, rows, metaOn, metaBudget, rotated, runs, byHand,
                  failures, fresh, disturbed, stale>>
  BY DEF FinishJudging, meta
<1>4. /\ next \in Place \ {"idle", "push"} /\ part \in Nat
      /\ left \in SUBSET Tier /\ left \subseteq run[r].winners
  BY <1>1, SessionFields, WinnersShareANumber DEF Place
<1> HIDE DEF next, left, part, shares
<1>5. s \in RunState
  BY <1>1, <1>4 DEF RunState
<1>6. /\ s.at = next /\ s.on = run[r].on /\ s.todo = left
      /\ s.list = run[r].list /\ s.saw = run[r].saw /\ s.total = run[r].total
      /\ s.budget = run[r].budget /\ s.winners = {}
      /\ s.asked = run[r].asked /\ s.flushed = run[r].flushed
  BY <1>1 DEF RunState
<1> HIDE DEF s
<1>7. SessionOK(s)
  BY <1>1, <1>4, <1>6 DEF SessionOK
<1> QED
  BY <1>1, <1>2, <1>3, <1>4, <1>5, <1>6, <1>7, PassingSteps

LEMMA FindNoRejectedKeeps ==
  ASSUME BudgetsInv, NEW r \in Run, FindNoRejected(r)
  PROVE  BudgetsInv'
<1> DEFINE s == [run[r] EXCEPT !.at = "commit"]
<1>1. TypeOK /\ run[r] \in RunState /\ run[r].at = "sweep" /\ SessionOK(run[r])
  BY DEF BudgetsInv, TypeOK, SessionInv, FindNoRejected
<1>2. /\ run' = [run EXCEPT ![r] = s]
      /\ UNCHANGED <<daily, running, camp, rows, metaOn, metaBudget, rotated, runs, byHand,
                     failures, fresh, disturbed, stale>>
  BY DEF FindNoRejected, meta
<1>3. s \in RunState
  BY <1>1 DEF RunState, Place
<1>4. /\ s.at = "commit" /\ s.on = run[r].on /\ s.todo = run[r].todo
      /\ s.list = run[r].list /\ s.saw = run[r].saw /\ s.total = run[r].total
      /\ s.budget = run[r].budget /\ s.winners = run[r].winners
      /\ s.asked = run[r].asked /\ s.flushed = run[r].flushed
  BY <1>1 DEF RunState
<1> HIDE DEF s
<1>5. SessionOK(s)
  BY <1>1, <1>4 DEF SessionOK
<1> QED
  BY <1>1, <1>2, <1>3, <1>4, <1>5, PassingSteps

(* A refresh: the first of a run, or a second one before the decision on   *)
(* the first has been flushed.                                             *)
LEMMA RotateKeeps ==
  ASSUME BudgetsInv, NEW r \in Run, NEW place \in Place \ {"idle", "push"},
         NEW todo \in SUBSET run[r].todo, run[r].at \notin {"idle", "push"},
         Rotate(r, place, todo)
  PROVE  BudgetsInv'
<1>1. TypeOK /\ run[r] \in RunState /\ SessionOK(run[r])
  BY DEF BudgetsInv, TypeOK, SessionInv
<1>2. ~rotated /\ ~run[r].flushed
  BY DEF Rotate, RotatedRecently
<1>3. PICK makes \in BOOLEAN :
        /\ fresh' = IF makes THEN fresh + 1 ELSE fresh
        /\ run' = [run EXCEPT ![r].at = place, ![r].todo = todo, ![r].asked = 1,
                              ![r].flushed = makes /\ run[r].asked > 0]
  BY DEF Rotate, MakeAd
<1> DEFINE flushed == makes /\ run[r].asked > 0
           s == [run[r] EXCEPT !.at = place, !.todo = todo, !.asked = 1,
                               !.flushed = flushed]
<1>4. run' = [run EXCEPT ![r] = s]
  BY <1>3
<1>5. UNCHANGED <<daily, running, camp, rows, metaOn, metaBudget, rotated, runs, byHand,
                  failures, disturbed, stale>>
  BY DEF Rotate, meta
<1>6. s \in RunState
  <2>1. flushed \in BOOLEAN
    OBVIOUS
  <2>2. todo \in SUBSET Tier
    BY <1>1, SessionFields
  <2> HIDE DEF flushed
  <2> QED
    BY <1>1, <2>1, <2>2 DEF RunState
<1>7. /\ s.at = place /\ s.on = run[r].on /\ s.todo = todo
      /\ s.list = run[r].list /\ s.saw = run[r].saw /\ s.total = run[r].total
      /\ s.budget = run[r].budget /\ s.winners = run[r].winners
      /\ s.asked = 1 /\ s.flushed = flushed
  BY <1>1 DEF RunState
<1> HIDE DEF s
<1>8. SessionOK(s)
  BY <1>1, <1>7 DEF SessionOK
<1>9. metaOn' \in SUBSET Launched /\ metaBudget' \in Amounts
        /\ (\A t \in Launched : metaBudget'[t] >= Minimum) /\ fresh' \in Nat
  BY <1>1, <1>3, <1>5 DEF TypeOK
<1>10. ~disturbed /\ FaithfulTo(r) => metaOn' = s.on /\ metaBudget' = s.budget
  BY <1>5, <1>7 DEF FaithfulTo
<1>11. Spending => Spending'
  BY <1>1, <1>5, SpendingKept DEF rows
<1>12. ASSUME ~disturbed
       PROVE  /\ fresh' <= 2
              /\ s.asked # 0
              /\ ~s.flushed => fresh' <= 1
  <2>1. /\ fresh <= 1 /\ fresh \in Nat
        /\ run[r].asked = 0 => fresh = 0
    BY <1>1, <1>2, <1>12 DEF BudgetsInv, SoloInv, FreshInv, TypeOK
  <2>2. run[r].asked \in Nat
    BY <1>1, SessionFields
  <2>3. s.asked # 0
    BY <1>7, <2>2
  <2>4. ~s.flushed => ~makes \/ run[r].asked = 0
    BY <1>7, <2>2
  <2> QED
    BY <1>3, <2>1, <2>3, <2>4
<1> QED
  BY <1>1, <1>4, <1>5, <1>6, <1>7, <1>8, <1>9, <1>10, <1>11, <1>12, SessionSteps

LEMMA RefreshAdSetKeeps ==
  ASSUME BudgetsInv, NEW r \in Run, NEW t \in Tier, RefreshAdSet(r, t)
  PROVE  BudgetsInv'
<1>1. run[r].at = "judge" /\ Rotate(r, "judge", run[r].todo \ {t})
  BY DEF RefreshAdSet, Judged
<1> QED
  BY <1>1, RotateKeeps DEF Place

LEMMA ReplaceRejectedKeeps ==
  ASSUME BudgetsInv, NEW r \in Run, ReplaceRejected(r)
  PROVE  BudgetsInv'
<1>1. run[r].at = "sweep" /\ Rotate(r, "commit", {})
  BY DEF ReplaceRejected
<1> QED
  BY <1>1, RotateKeeps DEF Place

-----------------------------------------------------------------------------
(* A budget is raised, at Meta and in the session, or stays.               *)
LEMMA RaisingSteps ==
  ASSUME BudgetsInv, NEW r \in Run, NEW t \in run[r].list, NEW raised \in Nat, NEW s \in RunState,
         run[r].at \notin {"idle", "push"}, s.at \notin {"idle", "push"},
         raised >= run[r].budget[t],
         run[r].total > 0 /\ raised > run[r].budget[t]
           => raised + Total(run[r].budget, run[r].on \ {t}) <= run[r].total,
         run' = [run EXCEPT ![r] = s],
         metaBudget' = [metaBudget EXCEPT ![t] = IF raised > run[r].budget[t] THEN raised ELSE @],
         UNCHANGED <<daily, running, camp, rows, metaOn, rotated, runs, byHand, failures,
                     fresh, disturbed, stale>>,
         s.todo \subseteq run[r].list, s.winners \subseteq run[r].list,
         s.budget = [run[r].budget EXCEPT ![t] = raised],
         s.list = run[r].list, s.saw = run[r].saw, s.total = run[r].total,
         s.on = run[r].on, s.asked = run[r].asked, s.flushed = run[r].flushed
  PROVE  BudgetsInv'
<1> DEFINE now == run[r].budget[t]
<1>1. TypeOK /\ run[r] \in RunState /\ SessionOK(run[r])
  BY DEF BudgetsInv, TypeOK, SessionInv
<1>2. t \in Launched /\ t \in Tier
  BY <1>1 DEF SessionOK, Launched
<1>3. metaBudget \in Amounts /\ metaOn \in SUBSET Launched /\ fresh \in Nat
        /\ Minimum \in Nat
  BY <1>1, BudgetsAssumption DEF TypeOK
<1>4. run[r].budget \in Amounts
  BY <1>1, SessionFields
<1>5. now \in Nat /\ now >= Minimum
  BY <1>1, <1>2, <1>4 DEF SessionOK, Amounts
<1>6. s.budget[t] = raised /\ \A u \in Tier \ {t} : s.budget[u] = run[r].budget[u]
  BY <1>2, <1>4 DEF Amounts
<1>7. SessionOK(s)
  BY <1>1, <1>2, <1>3, <1>5, <1>6 DEF SessionOK, Launched
<1>8. /\ metaBudget'[t] = (IF raised > now THEN raised ELSE metaBudget[t])
      /\ \A u \in Tier \ {t} : metaBudget'[u] = metaBudget[u]
      /\ metaBudget' \in Amounts
  BY <1>2, <1>3 DEF Amounts
<1>9. \A u \in Launched : metaBudget'[u] >= Minimum
  BY <1>1, <1>2, <1>3, <1>5, <1>8 DEF TypeOK, Launched
<1>10. ~disturbed /\ FaithfulTo(r) => metaOn' = s.on /\ metaBudget' = s.budget
  <2> SUFFICES ASSUME FaithfulTo(r)
               PROVE  metaOn' = s.on /\ metaBudget' = s.budget
    OBVIOUS
  <2>1. metaOn = run[r].on /\ metaBudget = run[r].budget
    BY DEF FaithfulTo
  <2>2. raised > now \/ raised = now
    BY <1>5
  <2> QED
    BY <1>3, <1>5, <2>1, <2>2 DEF Amounts
<1>11. FaithfulTo(r) /\ Spending => Spending'
  <2> SUFFICES ASSUME FaithfulTo(r), Spending
               PROVE  Spending'
    OBVIOUS
  <2>1. metaOn = run[r].on /\ metaBudget = run[r].budget /\ run[r].total = daily
    BY DEF FaithfulTo
  <2>2. CASE raised > now /\ run[r].total > 0
    <3>1. metaBudget' = [metaBudget EXCEPT ![t] = raised]
      BY <2>2
    <3>2. raised + Total(run[r].budget, run[r].on \ {t}) <= run[r].total
      BY <2>2
    <3>3. UNCHANGED <<daily, budget, metaOn, stale>>
      BY DEF rows
    <3> QED
      BY <1>1, <1>2, <2>1, <3>1, <3>2, <3>3, SpendingRaised
  <2>3. CASE raised = now
    <3>1. metaBudget' = metaBudget
      BY <1>3, <1>5, <2>3 DEF Amounts
    <3> QED
      BY <1>1, <3>1, SpendingKept DEF rows
  <2>4. CASE run[r].total = 0
    <3>1. Launched \subseteq stale /\ metaOn \subseteq stale
      BY <1>3, <2>1, <2>4 DEF Spending
    <3>2. Above(metaOn \ stale)' = {} /\ Launched' = Launched
      BY <3>1 DEF Above, Launched, rows
    <3>3. Total(metaBudget, Above(metaOn \ stale))' = 0
      BY <3>2, TotalOfNone
    <3> QED
      BY <2>1, <2>4, <3>1, <3>2, <3>3 DEF Spending
  <2>5. run[r].total \in Nat
    BY <1>1, SessionFields
  <2> QED
    BY <1>5, <2>2, <2>3, <2>4, <2>5
<1>12. ~disturbed => /\ fresh' <= 2
                     /\ ~rotated => /\ s.asked = 0 => fresh' = 0
                                    /\ ~s.flushed => fresh' <= 1
  BY DEF BudgetsInv, SoloInv, FreshInv
<1> QED
  BY <1>1, <1>3, <1>7, <1>8, <1>9, <1>10, <1>11, <1>12, SessionSteps
LEMMA ScaleAdSetKeeps ==
  ASSUME BudgetsInv, NEW r \in Run, NEW t \in Tier, ScaleAdSet(r, t)
  PROVE  BudgetsInv'
<1> DEFINE now == run[r].budget[t]
           proposed == ClampScale(now, (now * 12) \div 10)
           raised == CapToAccountBudget(r, t, proposed)
<1>1. TypeOK /\ run[r] \in RunState /\ run[r].at = "judge" /\ t \in run[r].todo
        /\ SessionOK(run[r])
  BY DEF BudgetsInv, TypeOK, SessionInv, ScaleAdSet, Judged
<1>2. PICK proven \in BOOLEAN :
        run' = [run EXCEPT ![r].todo = @ \ {t}, ![r].winners = @ \cup {t},
                           ![r].budget[t] = raised,
                           ![r].promoted = @ \/ (proven /\ raised > now /\ t = "TESTING")]
  BY DEF ScaleAdSet
<1>3. /\ metaBudget' = [metaBudget EXCEPT ![t] = IF raised > now THEN raised ELSE @]
      /\ UNCHANGED <<daily, running, camp, rows, metaOn, rotated, runs, byHand, failures,
                     fresh, disturbed, stale>>
  BY DEF ScaleAdSet
<1>4. run[r].budget \in Amounts /\ run[r].total \in Nat /\ now \in Nat
  BY <1>1, SessionFields DEF Amounts
<1>5. (now * 12) \div 10 \in Nat /\ (now * 12) \div 10 >= now
  BY <1>4
<1>6. proposed \in Nat /\ proposed >= now
  BY <1>4, <1>5, ClampNeverCuts
<1> HIDE DEF proposed
<1>7. /\ raised \in Nat /\ raised >= now
      /\ run[r].total > 0 /\ raised > now
           => raised + Total(run[r].budget, run[r].on \ {t}) <= run[r].total
  BY <1>4, <1>6, CapLeavesRoom
<1> HIDE DEF raised
<1> DEFINE promoted == run[r].promoted \/ (proven /\ raised > now /\ t = "TESTING")
           new == [run[r].budget EXCEPT ![t] = raised]
           s == [run[r] EXCEPT !.todo = @ \ {t}, !.winners = @ \cup {t},
                               !.budget = new, !.promoted = promoted]
<1>8. run' = [run EXCEPT ![r] = s]
  BY <1>2
<1>9. s \in RunState
  <2>1. promoted \in BOOLEAN
    OBVIOUS
  <2>2. new \in Amounts
    BY <1>4, <1>7 DEF Amounts
  <2> HIDE DEF promoted, new
  <2> QED
    BY <1>1, <2>1, <2>2 DEF RunState
<1>10. /\ s.at = "judge" /\ s.on = run[r].on /\ s.todo = run[r].todo \ {t}
       /\ s.list = run[r].list /\ s.saw = run[r].saw /\ s.total = run[r].total
       /\ s.budget = new /\ s.winners = run[r].winners \cup {t}
       /\ s.asked = run[r].asked /\ s.flushed = run[r].flushed
  BY <1>1 DEF RunState
<1> HIDE DEF s
<1>11. t \in run[r].list /\ s.todo \subseteq run[r].list /\ s.winners \subseteq run[r].list
  BY <1>1, <1>10 DEF SessionOK
<1> QED
  BY <1>1, <1>3, <1>7, <1>8, <1>9, <1>10, <1>11, RaisingSteps

LEMMA ReallocateKeeps ==
  ASSUME BudgetsInv, NEW r \in Run, NEW t \in Tier, Reallocate(r, t)
  PROVE  BudgetsInv'
<1> DEFINE now == run[r].budget[t]
           proposed == ClampScale(now, now + run[r].freed)
           raised == CapToAccountBudget(r, t, proposed)
<1>1. TypeOK /\ run[r] \in RunState /\ run[r].at = "reallocate" /\ t \in run[r].todo
        /\ SessionOK(run[r])
  BY DEF BudgetsInv, TypeOK, SessionInv, Reallocate
<1>2. run' = [run EXCEPT ![r].todo = @ \ {t}, ![r].budget[t] = raised,
                         ![r].at = IF run[r].todo = {t} THEN "sweep" ELSE @,
                         ![r].freed = IF run[r].todo = {t} THEN 0 ELSE @]
  BY DEF Reallocate
<1>3. /\ metaBudget' = [metaBudget EXCEPT ![t] = IF raised > now THEN raised ELSE @]
      /\ UNCHANGED <<daily, running, camp, rows, metaOn, rotated, runs, byHand, failures,
                     fresh, disturbed, stale>>
  BY DEF Reallocate
<1>4. run[r].budget \in Amounts /\ run[r].total \in Nat /\ run[r].freed \in Nat /\ now \in Nat
  BY <1>1, SessionFields DEF Amounts
<1>5. now + run[r].freed \in Nat /\ now + run[r].freed >= now
  BY <1>4
<1>6. proposed \in Nat /\ proposed >= now
  BY <1>4, <1>5, ClampNeverCuts
<1> HIDE DEF proposed
<1>7. /\ raised \in Nat /\ raised >= now
      /\ run[r].total > 0 /\ raised > now
           => raised + Total(run[r].budget, run[r].on \ {t}) <= run[r].total
  BY <1>4, <1>6, CapLeavesRoom
<1> HIDE DEF raised
<1> DEFINE next == IF run[r].todo = {t} THEN "sweep" ELSE "reallocate"
           new == [run[r].budget EXCEPT ![t] = raised]
           left == IF run[r].todo = {t} THEN 0 ELSE run[r].freed
           s == [run[r] EXCEPT !.todo = @ \ {t}, !.budget = new, !.at = next, !.freed = left]
<1>8. run' = [run EXCEPT ![r] = s]
  BY <1>1, <1>2
<1>9. next \in Place \ {"idle", "push"} /\ new \in Amounts /\ left \in Nat
  BY <1>4, <1>7 DEF Amounts, Place
<1> HIDE DEF next, left
<1>10. s \in RunState
  <2> HIDE DEF new
  <2> QED
    BY <1>1, <1>9 DEF RunState
<1>11. /\ s.at = next /\ s.on = run[r].on /\ s.todo = run[r].todo \ {t}
       /\ s.list = run[r].list /\ s.saw = run[r].saw /\ s.total = run[r].total
       /\ s.budget = new /\ s.winners = run[r].winners
       /\ s.asked = run[r].asked /\ s.flushed = run[r].flushed
  BY <1>1 DEF RunState
<1> HIDE DEF s
<1>12. t \in run[r].list /\ s.todo \subseteq run[r].list /\ s.winners \subseteq run[r].list
  BY <1>1, <1>11 DEF SessionOK
<1> QED
  BY <1>1, <1>3, <1>7, <1>8, <1>9, <1>10, <1>11, <1>12, RaisingSteps

-----------------------------------------------------------------------------
(* The owner's new budget, ad set by ad set.                               *)
LEMMA PushBudgetKeeps ==
  ASSUME BudgetsInv, NEW r \in Run, NEW t \in Tier, PushBudget(r, t)
  PROVE  BudgetsInv'
<1> DEFINE share == Share(r, t)
           new == [run[r].budget EXCEPT ![t] = share]
           s == [run[r] EXCEPT !.todo = @ \ {t}, !.budget = new]
<1>1. TypeOK /\ run[r] \in RunState /\ run[r].at = "push" /\ t \in run[r].todo
        /\ SessionOK(run[r])
  BY DEF BudgetsInv, TypeOK, SessionInv, PushBudget
<1>2. /\ run' = [run EXCEPT ![r] = s]
      /\ metaBudget' = [metaBudget EXCEPT ![t] = IF share = run[r].saw[t] THEN @ ELSE share]
      /\ UNCHANGED <<daily, running, camp, rows, metaOn, rotated, runs, byHand, failures,
                     fresh, disturbed, stale>>
  BY DEF PushBudget
<1>3. t \in run[r].list /\ t \in Launched /\ run[r].saw[t] > 0 /\ run[r].total \in Daily
  BY <1>1 DEF SessionOK
<1>4. run[r].saw \in Amounts /\ run[r].budget \in Amounts /\ metaBudget \in Amounts
        /\ metaOn \in SUBSET Launched /\ fresh \in Nat /\ Minimum \in Nat
  BY <1>1, SessionFields, BudgetsAssumption DEF TypeOK
<1>5. share \in Nat /\ share >= Minimum
  BY <1>3, <1>4, ShareFits
<1> HIDE DEF share
<1>6. new \in Amounts /\ new[t] = share /\ \A u \in Tier \ {t} : new[u] = run[r].budget[u]
  BY <1>4, <1>5 DEF Amounts
<1>7. s \in RunState
  <2> HIDE DEF new
  <2> QED
    BY <1>1, <1>6 DEF RunState
<1>8. /\ s.at = "push" /\ s.on = run[r].on /\ s.todo = run[r].todo \ {t}
      /\ s.list = run[r].list /\ s.saw = run[r].saw /\ s.total = run[r].total
      /\ s.budget = new /\ s.winners = run[r].winners
      /\ s.asked = run[r].asked /\ s.flushed = run[r].flushed
  BY <1>1 DEF RunState
<1> HIDE DEF s, new
<1>9. SessionOK(s)
  BY <1>1, <1>3, <1>5, <1>6, <1>8 DEF SessionOK, Launched
<1>10. /\ metaBudget' \in Amounts
       /\ metaBudget'[t] = (IF share = run[r].saw[t] THEN metaBudget[t] ELSE share)
       /\ \A u \in Tier \ {t} : metaBudget'[u] = metaBudget[u]
  BY <1>2, <1>4, <1>5 DEF Amounts
<1>11. \A u \in Launched : metaBudget'[u] >= Minimum
  BY <1>1, <1>5, <1>10 DEF TypeOK, Launched
<1>12. ASSUME ~disturbed, FaithfulTo(r)
       PROVE  metaOn' = s.on /\ metaBudget' = s.budget
  <2>1. metaOn = run[r].on /\ metaBudget = run[r].budget /\ run[r].saw = budget
    BY <1>12 DEF FaithfulTo
  <2>2. run[r].budget[t] = run[r].saw[t]
    BY <1>1, <1>12 DEF BudgetsInv, SoloInv, PushInv, PushedBy
  <2>3. \A u \in Tier : metaBudget'[u] = new[u]
    BY <1>6, <1>10, <2>1, <2>2
  <2> QED
    BY <1>2, <1>6, <1>8, <1>10, <2>1, <2>3 DEF Amounts
<1>13. ~disturbed => PushedBy(r, s)
  <2> SUFFICES ASSUME ~disturbed, NEW u \in Tier
               PROVE  s.budget[u] = IF u \in s.list \ s.todo THEN Share(r, u) ELSE s.saw[u]
    BY DEF PushedBy
  <2>1. run[r].budget[u] = IF u \in run[r].list \ run[r].todo THEN Share(r, u)
                           ELSE run[r].saw[u]
    BY <1>1 DEF BudgetsInv, SoloInv, PushInv, PushedBy
  <2>2. CASE u = t
    BY <1>3, <1>6, <1>8, <2>2 DEF share
  <2>3. CASE u # t
    BY <1>6, <1>8, <2>1, <2>3
  <2> QED
    BY <2>2, <2>3
<1>14. ~disturbed => /\ fresh' <= 2
                     /\ ~rotated => /\ s.asked = 0 => fresh' = 0
                                    /\ ~s.flushed => fresh' <= 1
  BY <1>1, <1>2, <1>8 DEF BudgetsInv, SoloInv, FreshInv
<1> QED
  BY <1>1, <1>2, <1>4, <1>7, <1>8, <1>9, <1>10, <1>11, <1>12, <1>13, <1>14, SessionSteps
-----------------------------------------------------------------------------
(* Sessions open and close.                                                *)
LEMMA SessionOpens ==
  ASSUME BudgetsInv, NEW r \in Run, NEW place \in {"judge", "push"},
         NEW total \in Daily \cup Typed, place = "push" => total \in Daily,
         NEW list \in SUBSET Launched, run[r].at = "idle",
         run' = [run EXCEPT ![r] = [Idle EXCEPT !.at = place, !.total = total, !.list = list,
                                                !.saw = budget, !.on = list, !.budget = budget,
                                                !.todo = list]],
         disturbed' = (disturbed \/ ~Quiet),
         UNCHANGED <<daily, running, camp, rows, metaBudget, rotated, failures, fresh, stale>>,
         runs' \in 0..MaxRuns, byHand' \in 0..MaxByHand,
         place = "judge" => total = daily,
         place = "push" => list = on,
         on \subseteq list, metaOn' \in SUBSET Launched,
         metaOn = on => metaOn' = list,
         metaOn = on /\ Spending => Spending'
  PROVE  BudgetsInv'
<1> DEFINE s == [Idle EXCEPT !.at = place, !.total = total, !.list = list, !.saw = budget,
                             !.on = list, !.budget = budget, !.todo = list]
<1>1. TypeOK /\ SessionInv /\ run \in [Run -> RunState] /\ budget \in Amounts
        /\ Minimum \in Nat \ {0}
  BY BudgetsAssumption DEF BudgetsInv, TypeOK
<1>2. Launched' = Launched /\ total \in Nat /\ list \in SUBSET Tier
  BY BudgetsAssumption DEF Launched, rows
<1>3. /\ s.at = place /\ s.total = total /\ s.list = list /\ s.saw = budget /\ s.on = list
      /\ s.budget = budget /\ s.todo = list /\ s.winners = {} /\ s.asked = 0
  BY DEF Idle
<1>4. s \in RunState
  BY <1>1, <1>2 DEF Idle, RunState, Place, Amounts
<1> HIDE DEF s
<1>5. run'[r] = s /\ \A q \in Run \ {r} : run'[q] = run[q]
  BY <1>1 DEF s
<1>6. TypeOK'
  <2>1. run' \in [Run -> RunState]
    BY <1>1, <1>4 DEF s
  <2>2. running' \in BOOLEAN /\ camp' \in BOOLEAN /\ rotated' \in BOOLEAN
    BY <1>1 DEF TypeOK
  <2>3. disturbed' \in BOOLEAN
    BY DEF Quiet
  <2> QED
    BY <1>1, <1>2, <2>1, <2>2, <2>3 DEF TypeOK, rows
<1>7. SessionOK(s)
  BY <1>1, <1>3 DEF SessionOK, TypeOK, Launched, Amounts
<1>8. SessionInv'
  <2>1. SessionOK(run[r])'
    BY <1>2, <1>5, <1>7 DEF SessionOK
  <2>2. \A q \in Run \ {r} : run[q].at # "idle" => SessionOK(run[q])'
    BY <1>1, <1>2, <1>5 DEF SessionInv, SessionOK
  <2> QED
    BY <1>5, <2>1, <2>2 DEF SessionInv
<1>9. ASSUME ~disturbed'
      PROVE  (Alone /\ MatchInv /\ PushInv /\ SpendInv /\ FreshInv)'
  <2>1. Quiet /\ Alone /\ MatchInv /\ PushInv /\ SpendInv /\ FreshInv
    BY <1>9 DEF BudgetsInv, SoloInv
  <2>2. \A q \in Run \ {r} : run[q].at = "idle" /\ run'[q].at = "idle"
    BY <1>5, <2>1 DEF Quiet
  <2>3. Alone'
    BY <2>2 DEF Alone
  <2>4. ~Quiet' /\ metaOn = on /\ metaBudget = budget
    BY <1>3, <1>5, <2>1 DEF Quiet, MatchInv
  <2>5. FaithfulTo(r)'
    BY <1>3, <1>5, <2>4 DEF FaithfulTo, rows
  <2>6. MatchInv'
    BY <2>2, <2>4, <2>5 DEF MatchInv
  <2>7. PushInv'
    BY <1>3, <1>5, <2>2 DEF PushInv, PushedBy
  <2>8. SpendInv'
    <3>1. \A q \in Run : run[q].at # "push"
      BY <2>1 DEF Quiet
    <3> QED
      BY <2>1, <2>4, <3>1 DEF SpendInv
  <2>9. FreshInv'
    BY <1>3, <1>5, <2>1, <2>2, <2>4 DEF FreshInv
  <2> QED
    BY <2>3, <2>6, <2>7, <2>8, <2>9
<1> QED
  BY <1>6, <1>8, <1>9 DEF BudgetsInv, SoloInv

LEMMA StartRunKeeps ==
  ASSUME BudgetsInv, NEW r \in Run, StartRun(r)
  PROVE  BudgetsInv'
<1>1. TypeOK
  BY DEF BudgetsInv
<1>2. /\ run[r].at = "idle" /\ disturbed' = (disturbed \/ ~Quiet)
      /\ run' = [run EXCEPT ![r] = [Idle EXCEPT !.at = "judge", !.total = daily, !.list = on,
                                                !.saw = budget, !.on = on, !.budget = budget,
                                                !.todo = on]]
  BY DEF StartRun, Open
<1>3. /\ runs < MaxRuns /\ runs' = runs + 1
      /\ UNCHANGED <<daily, running, camp, rows, metaOn, metaBudget, rotated, byHand, failures,
                     fresh, stale>>
  BY DEF StartRun, meta
<1>4. /\ daily \in Daily \cup Typed /\ on \in SUBSET Launched /\ metaOn' \in SUBSET Launched
      /\ byHand' \in 0..MaxByHand
  BY <1>1, <1>3 DEF TypeOK
<1>5. runs' \in 0..MaxRuns
  BY <1>1, <1>3, BudgetsAssumption DEF TypeOK
<1>6. Spending => Spending'
  BY <1>1, <1>3, SpendingKept DEF rows
<1> QED
  BY <1>2, <1>3, <1>4, <1>5, <1>6, SessionOpens

LEMMA RecoverAndRunKeeps ==
  ASSUME BudgetsInv, NEW r \in Run, RecoverAndRun(r)
  PROVE  BudgetsInv'
<1>1. TypeOK
  BY DEF BudgetsInv
<1>2. PICK t \in Launched :
        /\ run[r].at = "idle" /\ disturbed' = (disturbed \/ ~Quiet)
        /\ run' = [run EXCEPT ![r] = [Idle EXCEPT !.at = "judge", !.total = daily, !.list = {t},
                                                  !.saw = budget, !.on = {t}, !.budget = budget,
                                                  !.todo = {t}]]
        /\ metaOn' = metaOn \cup {t}
  BY DEF RecoverAndRun, Open
<1>3. /\ runs < MaxRuns /\ runs' = runs + 1 /\ on = {}
      /\ UNCHANGED <<daily, running, camp, rows, metaBudget, rotated, byHand, failures, fresh,
                     stale>>
  BY DEF RecoverAndRun
<1>4. /\ daily \in Daily \cup Typed /\ {t} \in SUBSET Launched /\ metaOn' \in SUBSET Launched
      /\ byHand' \in 0..MaxByHand
  BY <1>1, <1>2, <1>3 DEF TypeOK
<1>5. runs' \in 0..MaxRuns
  BY <1>1, <1>3, BudgetsAssumption DEF TypeOK
<1>6. metaOn = on => metaOn' = {t}
  BY <1>2, <1>3
<1>7. ASSUME metaOn = on, Spending
      PROVE  Spending'
  <2>1. metaBudget \in Amounts /\ daily \in Nat /\ t \in Tier
    BY <1>1, BudgetsAssumption DEF TypeOK, Launched
  <2>2. Total(metaBudget, Above({t} \ stale)) <= daily
    <3>1. CASE t \in stale
      <4>1. Above({t} \ stale) = {}
        BY <3>1 DEF Above
      <4> QED
        BY <2>1, <4>1, TotalOfNone
    <3>2. CASE t \notin stale
      <4>1. \A u \in Above({t} \ stale) \cap Tier : u \in {t} /\ metaBudget[u] <= metaBudget[u]
        BY <2>1 DEF Above, Amounts
      <4>2. Total(metaBudget, Above({t} \ stale)) <= Total(metaBudget, {t})
        BY <2>1, <4>1, TotalMonotone
      <4>3. Total(metaBudget, {t}) = metaBudget[t] /\ metaBudget[t] <= daily
        BY <1>7, <2>1, <3>2, TotalOfOne DEF Spending
      <4> QED
        BY <2>1, <4>2, <4>3, TotalIsNat
    <3> QED
      BY <3>1, <3>2
  <2>3. Above(metaOn \ stale)' = Above({t} \ stale)
    BY <1>3, <1>6, <1>7 DEF Above
  <2>4. Total(metaBudget, Above(metaOn \ stale))' <= daily'
    BY <1>3, <2>2, <2>3
  <2> QED
    BY <1>3, <1>7, <2>4 DEF Spending, Launched, rows
<1> QED
  BY <1>2, <1>3, <1>4, <1>5, <1>6, <1>7, SessionOpens

LEMMA StartReconcileKeeps ==
  ASSUME BudgetsInv, NEW r \in Run, NEW d \in Daily, StartReconcile(r, d)
  PROVE  BudgetsInv'
<1>1. TypeOK
  BY DEF BudgetsInv
<1>2. /\ run[r].at = "idle" /\ disturbed' = (disturbed \/ ~Quiet)
      /\ run' = [run EXCEPT ![r] = [Idle EXCEPT !.at = "push", !.total = d, !.list = on,
                                                !.saw = budget, !.on = on, !.budget = budget,
                                                !.todo = on]]
  BY DEF StartReconcile
<1>3. /\ byHand < MaxByHand /\ byHand' = byHand + 1
      /\ UNCHANGED <<daily, running, camp, rows, metaOn, metaBudget, rotated, runs, failures,
                     fresh, stale>>
  BY DEF StartReconcile, ByHand, meta
<1>4. on \in SUBSET Launched /\ metaOn' \in SUBSET Launched /\ runs' \in 0..MaxRuns
  BY <1>1, <1>3 DEF TypeOK
<1>5. byHand' \in 0..MaxByHand
  BY <1>1, <1>3, BudgetsAssumption DEF TypeOK
<1>6. Spending => Spending'
  BY <1>1, <1>3, SpendingKept DEF rows
<1> QED
  BY <1>2, <1>3, <1>4, <1>5, <1>6, SessionOpens
(* What a session writes of the budgets.                                   *)
LEMMA WrittenFits ==
  ASSUME BudgetsInv, NEW r \in Run, run[r].at # "idle"
  PROVE  /\ Written(r) \in Amounts
         /\ {t \in Tier : Written(r)[t] > 0} = Launched
         /\ \A t \in Launched : Written(r)[t] >= Minimum
         /\ run[r].saw = budget => Written(r) = run[r].budget
<1>1. TypeOK /\ run[r] \in RunState /\ SessionOK(run[r]) /\ Minimum \in Nat \ {0}
  BY BudgetsAssumption DEF BudgetsInv, TypeOK, SessionInv
<1>2. budget \in Amounts /\ run[r].saw \in Amounts /\ run[r].budget \in Amounts
  BY <1>1, SessionFields DEF TypeOK
<1> DEFINE w == Written(r)
<1>3. w \in Amounts
  BY <1>2 DEF Written, Amounts
<1>4. \A t \in Tier : w[t] = IF run[r].budget[t] = run[r].saw[t] THEN budget[t]
                              ELSE run[r].budget[t]
  BY DEF Written
<1> HIDE DEF w
<1>5. \A t \in Launched : w[t] >= Minimum
  BY <1>1, <1>4 DEF TypeOK, SessionOK, Launched
<1>6. \A t \in Tier \ Launched : w[t] = 0
  BY <1>1, <1>2, <1>4 DEF SessionOK, Launched, Amounts
<1>7. {t \in Tier : w[t] > 0} = Launched
  BY <1>1, <1>3, <1>5, <1>6 DEF Launched, Amounts
<1>8. run[r].saw = budget => w = run[r].budget
  BY <1>2, <1>3, <1>4 DEF Amounts
<1> QED
  BY <1>3, <1>5, <1>7, <1>8 DEF w

LEMMA SessionCommits ==
  ASSUME BudgetsInv, TypeOK', NEW r \in Run, run[r].at # "idle", Close(r),
         UNCHANGED <<metaOn, metaBudget, fresh, disturbed>>,
         Launched' = Launched,
         ~disturbed /\ FaithfulTo(r) => metaOn = on' /\ metaBudget = budget',
         ~disturbed /\ Alone => Spending',
         ~rotated' => ~rotated /\ run[r].asked = 0
  PROVE  BudgetsInv'
<1>1. TypeOK /\ SessionInv /\ run \in [Run -> RunState]
  BY DEF BudgetsInv, TypeOK
<1>2. run'[r].at = "idle" /\ \A q \in Run \ {r} : run'[q] = run[q]
  BY <1>1, IdleIsASession DEF Close
<1>3. SessionInv'
  BY <1>1, <1>2 DEF SessionInv, SessionOK
<1>4. ASSUME ~disturbed'
      PROVE  (Alone /\ MatchInv /\ PushInv /\ SpendInv /\ FreshInv)'
  <2>1. ~disturbed /\ Alone /\ MatchInv /\ FreshInv
    BY <1>4 DEF BudgetsInv, SoloInv
  <2>2. \A q \in Run : run'[q].at = "idle"
    BY <1>2, <2>1 DEF Alone
  <2>3. Alone' /\ PushInv'
    BY <2>2 DEF Alone, PushInv
  <2>4. FaithfulTo(r)
    BY <2>1 DEF MatchInv
  <2>5. MatchInv'
    BY <2>1, <2>2, <2>4 DEF MatchInv
  <2>6. SpendInv'
    BY <2>1 DEF SpendInv
  <2>7. FreshInv'
    BY <2>1, <2>2 DEF FreshInv
  <2> QED
    BY <2>3, <2>5, <2>6, <2>7
<1> QED
  BY <1>3, <1>4 DEF BudgetsInv, SoloInv

LEMMA CommitRunKeeps ==
  ASSUME BudgetsInv, NEW r \in Run, CommitRun(r)
  PROVE  BudgetsInv'
<1>1. TypeOK /\ run[r] \in RunState /\ SessionOK(run[r]) /\ run[r].at = "commit"
  BY DEF BudgetsInv, TypeOK, SessionInv, CommitRun
<1>2. /\ on' = (on \cup run[r].on) \ (run[r].list \ run[r].on)
      /\ budget' = Written(r)
      /\ prospecting' = IF run[r].promoted THEN prospecting \cup {"TESTING"} ELSE prospecting
      /\ running' = (running /\ ~run[r].stop)
      /\ rotated' = (rotated \/ run[r].asked > 0)
      /\ Close(r)
      /\ UNCHANGED <<daily, camp, metaOn, metaBudget, runs, byHand, failures, fresh, disturbed,
                     stale>>
  BY DEF CommitRun, meta
<1>3. /\ Written(r) \in Amounts /\ {t \in Tier : Written(r)[t] > 0} = Launched
      /\ \A t \in Launched : Written(r)[t] >= Minimum
      /\ run[r].saw = budget => Written(r) = run[r].budget
  BY <1>1, WrittenFits
<1>4. Launched' = Launched
  BY <1>2, <1>3 DEF Launched
<1>5. TypeOK'
  <2>1. on' \in SUBSET Launched
    BY <1>1, <1>2 DEF TypeOK, SessionOK
  <2>2. prospecting' \in {{"PROSPECTING"}, {"PROSPECTING", "TESTING"}}
    BY <1>1, <1>2 DEF TypeOK
  <2>3. run' \in [Run -> RunState]
    BY <1>1, <1>2, IdleIsASession DEF TypeOK, Close
  <2>4. /\ running' \in BOOLEAN /\ camp' \in BOOLEAN /\ rotated' \in BOOLEAN
        /\ disturbed' \in BOOLEAN
    BY <1>1, <1>2 DEF TypeOK
  <2> QED
    BY <1>1, <1>2, <1>3, <1>4, <2>1, <2>2, <2>3, <2>4 DEF TypeOK
<1>6. FaithfulTo(r) => metaOn = on' /\ metaBudget = budget'
  BY <1>1, <1>2, <1>3 DEF FaithfulTo, SessionOK
<1>7. ASSUME ~disturbed, Alone
      PROVE  Spending'
  <2>1. Spending
    BY <1>1, <1>7 DEF BudgetsInv, SoloInv, SpendInv, Alone
  <2> QED
    BY <1>2, <1>4, <2>1 DEF Spending, Above
<1>8. ~rotated' => ~rotated /\ run[r].asked = 0
  <2>1. ~rotated' => ~rotated /\ ~(run[r].asked > 0)
    BY <1>2, Zenon
  <2>2. run[r].asked \in Nat
    BY <1>1, SessionFields
  <2> QED
    BY <2>1, <2>2
<1> QED
  BY <1>1, <1>2, <1>4, <1>5, <1>6, <1>7, <1>8, SessionCommits

LEMMA CommitReconcileKeeps ==
  ASSUME BudgetsInv, NEW r \in Run, CommitReconcile(r)
  PROVE  BudgetsInv'
<1>1. TypeOK /\ run[r] \in RunState /\ SessionOK(run[r]) /\ run[r].at = "push"
  BY DEF BudgetsInv, TypeOK, SessionInv, CommitReconcile
<1>2. /\ run[r].todo = {} /\ daily' = run[r].total /\ budget' = Written(r)
      /\ stale' = Launched \ run[r].list /\ Close(r)
      /\ UNCHANGED <<running, camp, on, prospecting, metaOn, metaBudget, rotated, runs, byHand,
                     failures, fresh, disturbed>>
  BY DEF CommitReconcile, meta
<1>3. /\ Written(r) \in Amounts /\ {t \in Tier : Written(r)[t] > 0} = Launched
      /\ \A t \in Launched : Written(r)[t] >= Minimum
      /\ run[r].saw = budget => Written(r) = run[r].budget
  BY <1>1, WrittenFits
<1>4. Launched' = Launched
  BY <1>2, <1>3 DEF Launched
<1>5. run[r].total \in Daily /\ run[r].total \in Nat /\ run[r].asked = 0
        /\ run[r].saw \in Amounts /\ run[r].budget \in Amounts /\ Minimum \in Nat
  BY <1>1, SessionFields, BudgetsAssumption DEF SessionOK
<1>6. TypeOK'
  <2>1. run' \in [Run -> RunState]
    BY <1>1, <1>2, IdleIsASession DEF TypeOK, Close
  <2>2. /\ running' \in BOOLEAN /\ camp' \in BOOLEAN /\ rotated' \in BOOLEAN
        /\ disturbed' \in BOOLEAN
    BY <1>1, <1>2 DEF TypeOK
  <2>3. stale' \in SUBSET Tier
    BY <1>2 DEF Launched
  <2> QED
    BY <1>1, <1>2, <1>3, <1>4, <1>5, <2>1, <2>2, <2>3 DEF TypeOK
<1>7. FaithfulTo(r) => metaOn = on' /\ metaBudget = budget'
  BY <1>1, <1>2, <1>3 DEF FaithfulTo
<1>8. ASSUME ~disturbed, Alone
      PROVE  Spending'
  <2> DEFINE d == run[r].total
             L == run[r].list
             sum == Total(run[r].saw, L)
             U == {t \in L : run[r].budget[t] > Minimum}
  <2>1. FaithfulTo(r) /\ PushedBy(r, run[r])
    BY <1>1, <1>8 DEF BudgetsInv, SoloInv, MatchInv, PushInv
  <2>2. metaOn = L /\ metaBudget = run[r].budget
    BY <1>1, <2>1 DEF FaithfulTo
  <2>3. L \in SUBSET Launched /\ L \in SUBSET Tier
    BY <1>1 DEF SessionOK, Launched
  <2>4. \A t \in L : run[r].saw[t] > 0 /\ run[r].budget[t] = Share(r, t)
    BY <1>1, <1>2, <2>1, <2>3 DEF SessionOK, PushedBy
  <2>5. \A t \in L :
          LET part == (run[r].saw[t] * d) \div sum
          IN  /\ sum \in Nat \ {0} /\ part \in Nat
              /\ part * sum <= run[r].saw[t] * d
              /\ run[r].budget[t] = (IF Minimum >= part THEN Minimum ELSE part)
              /\ run[r].budget[t] <= d
    BY <1>5, <2>3, <2>4, ShareFits
  <2>6. Total(run[r].budget, U) <= d
    <3>1. CASE U = {}
      BY <1>5, <3>1, TotalOfNone
    <3>2. CASE U # {}
      <4>1. sum \in Nat \ {0} /\ U \subseteq L
        BY <2>5, <3>2
      <4>2. \A t \in U \cap Tier : run[r].budget[t] * sum <= run[r].saw[t] * d
        <5>1. TAKE t \in U \cap Tier
        <5> DEFINE part == (run[r].saw[t] * d) \div sum
        <5>2. /\ part \in Nat /\ part * sum <= run[r].saw[t] * d
              /\ run[r].budget[t] = (IF Minimum >= part THEN Minimum ELSE part)
              /\ run[r].budget[t] > Minimum
          BY <2>5
        <5> HIDE DEF part, sum, d
        <5>3. run[r].budget[t] = part
          BY <1>5, <5>2
        <5> QED
          BY <5>2, <5>3
      <4> HIDE DEF U
      <4> QED
        BY <1>5, <4>1, <4>2, SharesFit
    <3> QED
      BY <3>1, <3>2
  <2>7. Above(metaOn \ stale)' = U
    BY <1>2, <2>2, <2>3 DEF Above
  <2>8. Total(metaBudget, Above(metaOn \ stale))' <= daily'
    BY <1>2, <2>2, <2>6, <2>7
  <2>9. Launched' \ stale' = L
    BY <1>2, <1>4, <2>3
  <2>10. \A t \in Launched' \ stale' : metaBudget'[t] <= daily'
    BY <1>2, <2>2, <2>5, <2>9
  <2>11. daily' > 0
    BY <1>2, <1>5, BudgetsAssumption
  <2> QED
    BY <2>8, <2>10, <2>11 DEF Spending
<1> QED
  BY <1>1, <1>2, <1>4, <1>5, <1>6, <1>7, <1>8, SessionCommits

LEMMA FailKeeps ==
  ASSUME BudgetsInv, NEW r \in Run, Fail(r)
  PROVE  BudgetsInv'
<1>1. TypeOK /\ SessionInv /\ run \in [Run -> RunState]
  BY DEF BudgetsInv, TypeOK
<1>2. /\ disturbed' = TRUE /\ Close(r) /\ failures < MaxFailures /\ failures' = failures + 1
      /\ UNCHANGED <<daily, running, camp, on, budget, prospecting, metaOn, metaBudget, rotated,
                     runs, byHand, fresh, stale>>
  BY DEF Fail, rows, meta
<1>3. Launched' = Launched
  BY <1>2 DEF Launched
<1>4. run' \in [Run -> RunState] /\ run'[r].at = "idle" /\ \A q \in Run \ {r} : run'[q] = run[q]
  BY <1>1, <1>2, IdleIsASession DEF Close
<1>5. TypeOK'
  <2>1. /\ running' \in BOOLEAN /\ camp' \in BOOLEAN /\ rotated' \in BOOLEAN
        /\ disturbed' \in BOOLEAN
    BY <1>1, <1>2 DEF TypeOK
  <2>2. failures' \in 0..MaxFailures
    BY <1>1, <1>2, BudgetsAssumption DEF TypeOK
  <2> QED
    BY <1>1, <1>2, <1>3, <1>4, <2>1, <2>2 DEF TypeOK
<1>6. SessionInv'
  BY <1>1, <1>3, <1>4 DEF SessionInv, SessionOK
<1> QED
  BY <1>2, <1>5, <1>6 DEF BudgetsInv, SoloInv
-----------------------------------------------------------------------------
(* The owner, and time.                                                    *)

(* Nothing but the owner's own decisions changes between sessions.         *)
LEMMA OutsideSessions ==
  ASSUME BudgetsInv, UNCHANGED <<budget, prospecting, metaBudget, run, runs, failures>>,
         daily' \in Daily \cup Typed, running' \in BOOLEAN, camp' \in BOOLEAN, rotated' \in BOOLEAN,
         disturbed' \in BOOLEAN,
         on' \in SUBSET Launched, metaOn' \in SUBSET Launched, stale' \in SUBSET Tier,
         byHand' \in 0..MaxByHand, fresh' \in Nat,
         ~disturbed' => ~disturbed /\ Quiet,
         metaOn = on => metaOn' = on',
         ~disturbed /\ Spending => Spending',
         (UNCHANGED <<fresh, rotated>>) \/ fresh' = 0
  PROVE  BudgetsInv'
<1>1. TypeOK /\ SessionInv
  BY DEF BudgetsInv
<1>2. Launched' = Launched
  BY DEF Launched
<1>3. TypeOK'
  BY <1>1, <1>2 DEF TypeOK
<1>4. SessionInv'
  BY <1>1, <1>2 DEF SessionInv, SessionOK
<1>5. ASSUME ~disturbed'
      PROVE  (Alone /\ MatchInv /\ PushInv /\ SpendInv /\ FreshInv)'
  <2>1. ~disturbed /\ MatchInv /\ SpendInv /\ FreshInv /\ \A q \in Run : run[q].at = "idle"
    BY <1>5 DEF BudgetsInv, SoloInv, Quiet
  <2>2. Alone' /\ PushInv'
    BY <2>1 DEF Alone, PushInv
  <2>3. MatchInv'
    BY <2>1 DEF MatchInv, Quiet
  <2>4. SpendInv'
    BY <2>1 DEF SpendInv
  <2>5. FreshInv'
    BY <2>1 DEF FreshInv, Quiet
  <2> QED
    BY <2>2, <2>3, <2>4, <2>5
<1> QED
  BY <1>3, <1>4, <1>5 DEF BudgetsInv, SoloInv

LEMMA DayPassesKeeps ==
  ASSUME BudgetsInv, DayPasses
  PROVE  BudgetsInv'
<1>1. TypeOK
  BY DEF BudgetsInv
<1>2. /\ Quiet /\ rotated' = FALSE /\ fresh' = 0
      /\ UNCHANGED <<daily, running, camp, on, budget, prospecting, metaOn, metaBudget, run, runs,
                     byHand, failures, disturbed, stale>>
  BY DEF DayPasses, rows, meta
<1>3. Spending => Spending'
  BY <1>1, <1>2, SpendingKept
<1>4. /\ daily' \in Daily \cup Typed /\ on' \in SUBSET Launched /\ metaOn' \in SUBSET Launched
      /\ stale' \in SUBSET Tier /\ byHand' \in 0..MaxByHand /\ fresh' \in Nat
  BY <1>1, <1>2 DEF TypeOK
<1>5. running' \in BOOLEAN /\ camp' \in BOOLEAN /\ rotated' \in BOOLEAN /\ disturbed' \in BOOLEAN
  BY <1>1, <1>2 DEF TypeOK
<1> QED
  BY <1>2, <1>3, <1>4, <1>5, OutsideSessions

(* A budget that no ad set is told of.                                     *)
LEMMA WriteDailyKeeps ==
  ASSUME BudgetsInv, NEW d \in Daily \cup Typed, WriteDaily(d)
  PROVE  BudgetsInv'
<1>1. TypeOK /\ d \in Nat
  BY BudgetsAssumption DEF BudgetsInv
<1>2. /\ byHand < MaxByHand /\ byHand' = byHand + 1 /\ daily' = d
      /\ stale' = Launched /\ disturbed' = (disturbed \/ ~Quiet)
      /\ UNCHANGED <<running, camp, on, budget, prospecting, metaOn, metaBudget, rotated, run,
                     runs, failures, fresh>>
  BY DEF WriteDaily, ByHand, rows, meta
<1>3. Spending'
  <2>1. Launched' = Launched
    BY <1>2 DEF Launched
  <2>2. Above(metaOn \ stale)' = {}
    BY <1>1, <1>2 DEF Above, TypeOK
  <2>3. Total(metaBudget, Above(metaOn \ stale))' = 0
    BY <2>2, TotalOfNone
  <2>4. Launched' \ stale' = {}
    BY <1>2, <2>1
  <2> QED
    BY <1>1, <1>2, <2>3, <2>4 DEF Spending
<1>4. /\ daily' \in Daily \cup Typed /\ on' \in SUBSET Launched /\ metaOn' \in SUBSET Launched
      /\ stale' \in SUBSET Tier /\ fresh' \in Nat
  BY <1>1, <1>2 DEF TypeOK, Launched
<1>5. byHand' \in 0..MaxByHand
  BY <1>1, <1>2, BudgetsAssumption DEF TypeOK
<1>6. running' \in BOOLEAN /\ camp' \in BOOLEAN /\ rotated' \in BOOLEAN
  BY <1>1, <1>2 DEF TypeOK
<1>7. disturbed' \in BOOLEAN /\ (~disturbed' => ~disturbed /\ Quiet)
  BY <1>2, Zenon DEF Quiet
<1> QED
  BY <1>2, <1>3, <1>4, <1>5, <1>6, <1>7, OutsideSessions

LEMMA PauseKeeps ==
  ASSUME BudgetsInv, Pause
  PROVE  BudgetsInv'
<1>1. TypeOK
  BY DEF BudgetsInv
<1>2. /\ byHand < MaxByHand /\ byHand' = byHand + 1 /\ running' = FALSE /\ camp' = FALSE
      /\ disturbed' = (disturbed \/ ~Quiet)
      /\ UNCHANGED <<daily, on, budget, prospecting, metaOn, metaBudget, rotated, run, runs,
                     failures, fresh, stale>>
  BY DEF Pause, ByHand, rows, meta
<1>3. Spending => Spending'
  BY <1>1, <1>2, SpendingKept
<1>4. /\ daily' \in Daily \cup Typed /\ on' \in SUBSET Launched /\ metaOn' \in SUBSET Launched
      /\ stale' \in SUBSET Tier /\ fresh' \in Nat
  BY <1>1, <1>2 DEF TypeOK
<1>5. byHand' \in 0..MaxByHand
  BY <1>1, <1>2, BudgetsAssumption DEF TypeOK
<1>6. running' \in BOOLEAN /\ camp' \in BOOLEAN /\ rotated' \in BOOLEAN
  BY <1>1, <1>2 DEF TypeOK
<1>7. disturbed' \in BOOLEAN /\ (~disturbed' => ~disturbed /\ Quiet)
  BY <1>2, Zenon DEF Quiet
<1> QED
  BY <1>2, <1>3, <1>4, <1>5, <1>6, <1>7, OutsideSessions

(* What a resume switches on counts as stale.                              *)
LEMMA ResumeKeeps ==
  ASSUME BudgetsInv, Resume
  PROVE  BudgetsInv'
<1>1. TypeOK
  BY DEF BudgetsInv
<1>2. /\ byHand < MaxByHand /\ byHand' = byHand + 1 /\ running' = TRUE /\ camp' = TRUE
      /\ on' = Launched /\ metaOn' = metaOn \cup (Launched \ on)
      /\ stale' = stale \cup (Launched \ on)
      /\ disturbed' = (disturbed \/ ~Quiet)
      /\ UNCHANGED <<daily, budget, prospecting, metaBudget, rotated, run, runs, failures, fresh>>
  BY DEF Resume, ByHand
<1>3. metaBudget \in Amounts /\ daily \in Nat /\ metaOn \in SUBSET Launched
        /\ on \in SUBSET Launched
  BY <1>1, BudgetsAssumption DEF TypeOK
<1>4. ASSUME Spending
      PROVE  Spending'
  <2> DEFINE S == Above(metaOn \ stale)
             T == Above(metaOn \ stale)'
  <2>1. T \subseteq S
    BY <1>2 DEF Above
  <2>2. Total(metaBudget, T) <= Total(metaBudget, S)
    <3> HIDE DEF S, T
    <3>1. \A t \in T \cap Tier : t \in S /\ metaBudget[t] <= metaBudget[t]
      BY <1>3, <2>1 DEF Amounts
    <3> QED
      BY <1>3, <3>1, TotalMonotone
  <2>3. Total(metaBudget, S) <= daily
    BY <1>4 DEF Spending
  <2>4. Total(metaBudget, S) \in Nat /\ Total(metaBudget, T) \in Nat
    BY <1>3, TotalIsNat
  <2>5. Total(metaBudget, T) <= daily
    BY <1>3, <2>2, <2>3, <2>4
  <2>6. Launched' \ stale' \subseteq Launched \ stale
    BY <1>2 DEF Launched
  <2> QED
    BY <1>2, <1>4, <2>5, <2>6 DEF Spending
<1>5. metaOn = on => metaOn' = on'
  BY <1>2, <1>3
<1>6. /\ daily' \in Daily \cup Typed /\ on' \in SUBSET Launched /\ metaOn' \in SUBSET Launched
      /\ stale' \in SUBSET Tier /\ fresh' \in Nat
  BY <1>1, <1>2 DEF TypeOK, Launched
<1>7. byHand' \in 0..MaxByHand
  BY <1>1, <1>2, BudgetsAssumption DEF TypeOK
<1>8. running' \in BOOLEAN /\ camp' \in BOOLEAN /\ rotated' \in BOOLEAN
  BY <1>1, <1>2 DEF TypeOK
<1>9. disturbed' \in BOOLEAN /\ (~disturbed' => ~disturbed /\ Quiet)
  BY <1>2, Zenon DEF Quiet
<1> QED
  BY <1>2, <1>4, <1>5, <1>6, <1>7, <1>8, <1>9, OutsideSessions

-----------------------------------------------------------------------------
(* What a launch leaves is in order.                                       *)
LEMMA InitBudgets == Init => BudgetsInv
<1> SUFFICES ASSUME Init
             PROVE  BudgetsInv
  OBVIOUS
<1>1. /\ daily \in Daily /\ daily \in Nat /\ running = TRUE /\ camp = TRUE
      /\ budget = BudgetTiers(daily) /\ metaBudget = budget /\ on = Launched /\ metaOn = Launched
      /\ prospecting = {"PROSPECTING"} /\ rotated = FALSE /\ run = [r \in Run |-> Idle]
      /\ runs = 0 /\ byHand = 0 /\ failures = 0 /\ fresh = 0 /\ disturbed = FALSE /\ stale = {}
  BY BudgetsAssumption DEF Init
<1>2. /\ budget \in Amounts /\ \A t \in Tier : budget[t] > 0 => budget[t] >= Minimum
      /\ Total(budget, Tier) <= daily /\ Total(budget, Tier) \in Nat
  BY <1>1, BudgetTiersFit, TotalIsNat
<1>3. \A r \in Run : run[r].at = "idle"
  BY <1>1, IdleIsASession
<1>4. TypeOK
  <2>1. run \in [Run -> RunState]
    BY <1>1, IdleIsASession
  <2>2. runs \in 0..MaxRuns /\ byHand \in 0..MaxByHand /\ failures \in 0..MaxFailures
    BY <1>1, BudgetsAssumption
  <2>3. /\ running \in BOOLEAN /\ camp \in BOOLEAN /\ rotated \in BOOLEAN /\ disturbed \in BOOLEAN
        /\ fresh \in Nat /\ stale \in SUBSET Tier
        /\ prospecting \in {{"PROSPECTING"}, {"PROSPECTING", "TESTING"}}
    BY <1>1
  <2>4. \A t \in Launched : budget[t] >= Minimum /\ metaBudget[t] >= Minimum
    BY <1>1, <1>2 DEF Launched
  <2> QED
    BY <1>1, <1>2, <2>1, <2>2, <2>3, <2>4 DEF TypeOK
<1>5. SessionInv /\ Alone /\ MatchInv /\ PushInv
  BY <1>1, <1>3 DEF SessionInv, Alone, MatchInv, PushInv
<1>6. Spending
  <2> DEFINE S == Above(metaOn \ stale)
  <2>1. \A t \in S \cap Tier : t \in Tier /\ budget[t] <= budget[t]
    BY <1>2 DEF Amounts
  <2>2. Total(budget, S) <= Total(budget, Tier) /\ Total(budget, S) \in Nat
    <3> HIDE DEF S
    <3> QED
      BY <1>2, <2>1, TotalMonotone, TotalIsNat
  <2>3. Total(budget, S) <= daily
    BY <1>1, <1>2, <2>2
  <2>4. \A t \in Tier : budget[t] \in Nat /\ budget[t] <= Total(budget, Tier)
    BY <1>2, OneOfTotal DEF Amounts
  <2>5. \A t \in Tier : budget[t] <= daily
    BY <1>1, <1>2, <2>4
  <2>6. daily > 0
    BY <1>1, BudgetsAssumption
  <2> QED
    BY <1>1, <2>3, <2>5, <2>6 DEF Spending, Launched
<1>7. FreshInv
  BY <1>1 DEF FreshInv
<1> QED
  BY <1>4, <1>5, <1>6, <1>7 DEF BudgetsInv, SoloInv, SpendInv

LEMMA StepBudgets ==
  ASSUME BudgetsInv, NEW r \in Run, Step(r)
  PROVE  BudgetsInv'
<1>1. \/ EmergencyStop(r) \/ FinishJudging(r) \/ ReplaceRejected(r) \/ FindNoRejected(r)
      \/ \E t \in Tier : KeepAdSet(r, t) \/ KillAdSet(r, t) \/ ScaleAdSet(r, t)
                         \/ RefreshAdSet(r, t) \/ Reallocate(r, t) \/ PushBudget(r, t)
      \/ CommitRun(r) \/ CommitReconcile(r)
  BY DEF Step
<1> QED
  BY <1>1, EmergencyStopKeeps, FinishJudgingKeeps, ReplaceRejectedKeeps, FindNoRejectedKeeps,
     KeepAdSetKeeps, KillAdSetKeeps, ScaleAdSetKeeps, RefreshAdSetKeeps, ReallocateKeeps,
     PushBudgetKeeps, CommitRunKeeps, CommitReconcileKeeps

LEMMA NextBudgets == BudgetsInv /\ [Next]_vars => BudgetsInv'
<1> SUFFICES ASSUME BudgetsInv, [Next]_vars
             PROVE  BudgetsInv'
  OBVIOUS
<1>1. CASE \E r \in Run : StartRun(r) \/ RecoverAndRun(r) \/ Step(r) \/ Fail(r)
  BY <1>1, StartRunKeeps, RecoverAndRunKeeps, StepBudgets, FailKeeps
<1>2. CASE \E r \in Run, d \in Daily : StartReconcile(r, d)
  BY <1>2, StartReconcileKeeps
<1>3. CASE \E d \in Daily : SetDaily(d)
  BY <1>3, WriteDailyKeeps DEF SetDaily
<1>4. CASE \E d \in Typed : SetBusiness(d)
  BY <1>4, WriteDailyKeeps DEF SetBusiness
<1>5. CASE Pause \/ Resume \/ DayPasses
  BY <1>5, PauseKeeps, ResumeKeeps, DayPassesKeeps
<1>6. CASE UNCHANGED vars
  <2>1. UNCHANGED <<daily, running, camp, on, budget, prospecting, metaOn, metaBudget, rotated,
                    run, runs, byHand, failures, fresh, disturbed, stale>>
    BY <1>6 DEF vars
  <2>2. Launched' = Launched /\ Quiet' = Quiet /\ \A r, t : Share(r, t)' = Share(r, t)
    BY <2>1 DEF Launched, Quiet, Share
  <2>3. TypeOK' /\ SessionInv'
    BY <2>1, <2>2 DEF BudgetsInv, TypeOK, SessionInv, SessionOK
  <2>4. Alone' = Alone /\ MatchInv' = MatchInv /\ SpendInv' = SpendInv /\ FreshInv' = FreshInv
    BY <2>1, <2>2 DEF Alone, MatchInv, FaithfulTo, SpendInv, Spending, Above, FreshInv
  <2>5. PushInv' = PushInv
    BY <2>1, <2>2 DEF PushInv, PushedBy
  <2> QED
    BY <2>1, <2>3, <2>4, <2>5 DEF BudgetsInv, SoloInv
<1> QED
  BY <1>1, <1>2, <1>3, <1>4, <1>5, <1>6 DEF Next

-----------------------------------------------------------------------------
(* An account's budgets are always sane: no ad set that was launched ever  *)
(* asks Meta for less than its minimum, and only launched ones are on.     *)
THEOREM BudgetsTypeCorrect == Spec => []TypeOK
<1>1. BudgetsInv => TypeOK
  BY DEF BudgetsInv
<1> QED
  BY <1>1, InitBudgets, NextBudgets, PTL DEF Spec

(* What Meta may spend a day stays within what the owner last chose, an ad *)
(* set at Meta's minimum aside: however many runs raise winners, share out *)
(* what they freed and restart what had stopped (pipeline.py:900), as long *)
(* as every ad set that is on has been told of that choice.                *)
THEOREM SpendingStaysWithinBudget == Spec => []WithinBudget
<1>1. BudgetsInv => WithinBudget
  <2> SUFFICES ASSUME BudgetsInv, ~disturbed, Quiet, metaOn \cap stale = {}
               PROVE  Total(metaBudget, {t \in metaOn : metaBudget[t] > Minimum}) <= daily
    BY DEF WithinBudget
  <2>1. Spending
    BY DEF BudgetsInv, SoloInv, SpendInv, Quiet
  <2>2. Above(metaOn \ stale) = {t \in metaOn : metaBudget[t] > Minimum}
    BY DEF Above
  <2> QED
    BY <2>1, <2>2 DEF Spending
<1> QED
  BY <1>1, InitBudgets, NextBudgets, PTL DEF Spec

(* However often the optimizer runs, an audience gets two new ads a day at *)
(* most (pipeline.py:738), the second by the run that made the first.      *)
THEOREM RefreshesAreRare == Spec => []OneRefreshADay
<1>1. BudgetsInv => OneRefreshADay
  BY DEF BudgetsInv, SoloInv, FreshInv, OneRefreshADay
<1> QED
  BY <1>1, InitBudgets, NextBudgets, PTL DEF Spec
=============================================================================
