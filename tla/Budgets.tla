------------------------------- MODULE Budgets -------------------------------
(***************************************************************************)
(* How much a launched account may spend a day, and who decides: the       *)
(* optimizer's run over the ad sets, the owner who sets the daily budget   *)
(* and pauses and resumes (bff/routers/settings.py) or fills in the form   *)
(* of onboarding again (bff/routers/onboarding.py), in saathi/pipeline.py  *)
(* run_optimization, reconcile_budgets, set_live_state and the guardrails  *)
(* of saathi/guardrails/spend.py.                                          *)
(*                                                                         *)
(* A run is one session: it loads the ad sets that are on and the daily    *)
(* budget, changes Meta ad set by ad set, and commits at the end the rows  *)
(* it has changed. What the day's numbers say of an ad set is left open:   *)
(* any rule may fire. Amounts are small units; a pause and a resume are    *)
(* one step here, and taken apart in module LiveState.                     *)
(***************************************************************************)
EXTENDS Naturals, FiniteSets, FiniteSetsExt

CONSTANTS
  Run,         (* sessions that may be open at a time                       *)
  Daily,       (* daily budgets the settings and a launch accept            *)
  Typed,       (* daily budgets typed into onboarding's form, which sets no *)
               (* minimum; a negative one is capped to like one of a paisa  *)
  Minimum,     (* meta_min_adset_daily_paise                                *)
  MaxRuns,     (* bound: runs of the optimizer                              *)
  MaxByHand,   (* bound: things the owner does                              *)
  MaxFailures  (* bound: sessions that raise or die                         *)

(* A launch refuses a budget below the minimum. Three shares rounded down  *)
(* may lose two paise, but none of a minimum that is a multiple of 20, as  *)
(* the default of 9000 is.                                                 *)
ASSUME BudgetsAssumption ==
  /\ Minimum \in Nat \ {0} /\ Daily \in SUBSET Nat /\ Typed \in SUBSET Nat
  /\ \A d \in Daily : d >= Minimum /\ (Minimum % 20 = 0 \/ d >= Minimum + 2)
  /\ MaxRuns \in Nat /\ MaxByHand \in Nat /\ MaxFailures \in Nat

Tier == {"PROSPECTING", "RETARGETING", "TESTING"}

BUDGET_SPLIT == [t \in Tier |-> CASE t = "PROSPECTING" -> 65
                                  [] t = "RETARGETING" -> 20
                                  [] t = "TESTING" -> 15]

VARIABLES
  daily,       (* business_profiles.daily_budget_paise                      *)
  running,     (* accounts.phase is one in which ads run                    *)
  camp,        (* the campaign is ACTIVE, here and on Meta                  *)
  on,          (* ad_sets with status ACTIVE; the other launched ones are   *)
               (* PAUSED                                                    *)
  budget,      (* ad_sets.budget_paise, 0 = this tier was not launched      *)
  prospecting, (* ad_sets whose role is PROSPECTING                         *)
  metaOn,      (* Meta: the ad sets that are ACTIVE                         *)
  metaBudget,  (* Meta: their daily budgets                                 *)
  rotated,     (* a REQUEST_CREATIVE decision of the last 24 hours exists   *)
  run,         (* what each session has read and changed                    *)
  runs, byHand, failures,
  fresh,       (* history: refresh ads made on Meta in these 24 hours       *)
  disturbed,   (* history: sessions have overlapped, or one has failed      *)
  stale        (* history: launched ad sets that Meta has not been told of  *)
               (* the owner's last choice: typed into onboarding's form, or *)
               (* set while the account or the ad set was off, or a resume  *)
               (* has switched them on with the budget they had before      *)

rows == <<on, budget, prospecting>>
meta == <<metaOn, metaBudget>>
vars == <<daily, running, camp, on, budget, prospecting, metaOn, metaBudget, rotated, run, runs,
          byHand, failures, fresh, disturbed, stale>>

Place == {"idle", "judge", "reallocate", "sweep", "commit", "push"}

Idle == [at |-> "idle", total |-> 0, list |-> {}, saw |-> [t \in Tier |-> 0],
         on |-> {}, budget |-> [t \in Tier |-> 0], promoted |-> FALSE, stop |-> FALSE,
         todo |-> {}, winners |-> {}, freed |-> 0, asked |-> 0, flushed |-> FALSE]

Amounts == [Tier -> Nat]
RunState == [at : Place, total : Nat, list : SUBSET Tier, saw : Amounts, on : SUBSET Tier,
             budget : Amounts, promoted : BOOLEAN, stop : BOOLEAN, todo : SUBSET Tier,
             winners : SUBSET Tier, freed : Nat, asked : Nat, flushed : BOOLEAN]

Launched == {t \in Tier : budget[t] > 0}

(* With the types: no ad set asks Meta for less than it accepts.           *)
TypeOK ==
  /\ daily \in Daily \cup Typed /\ running \in BOOLEAN /\ camp \in BOOLEAN
  /\ budget \in Amounts /\ metaBudget \in Amounts
  /\ on \in SUBSET Launched /\ metaOn \in SUBSET Launched
  /\ \A t \in Launched : budget[t] >= Minimum /\ metaBudget[t] >= Minimum
  /\ prospecting \in {{"PROSPECTING"}, {"PROSPECTING", "TESTING"}}
  /\ rotated \in BOOLEAN
  /\ run \in [Run -> RunState]
  /\ runs \in 0..MaxRuns /\ byHand \in 0..MaxByHand /\ failures \in 0..MaxFailures
  /\ fresh \in Nat /\ disturbed \in BOOLEAN /\ stale \in SUBSET Tier

Total(amounts, S) ==
  LET of(t) == IF t \in S THEN amounts[t] ELSE 0
  IN  of("PROSPECTING") + of("RETARGETING") + of("TESTING")

-----------------------------------------------------------------------------
(* Mutant: every tier is launched, however small its share.                *)
BudgetTiers_Unfolded(d) == [t \in Tier |-> (d * BUDGET_SPLIT[t]) \div 100]

(* _budget_tiers: tiers below Meta's minimum are folded into PROSPECTING.  *)
BudgetTiers(d) ==
  LET share == [t \in Tier |-> (d * BUDGET_SPLIT[t]) \div 100]
      small == {t \in Tier \ {"PROSPECTING"} : share[t] < Minimum}
  IN  [t \in Tier |-> IF t \in small THEN 0
                      ELSE IF t = "PROSPECTING" THEN share[t] + Total(share, small)
                      ELSE share[t]]

(* What launch_campaigns leaves.                                           *)
Init ==
  /\ daily \in Daily /\ running = TRUE /\ camp = TRUE
  /\ budget = BudgetTiers(daily) /\ metaBudget = budget
  /\ on = Launched /\ metaOn = Launched
  /\ prospecting = {"PROSPECTING"} /\ rotated = FALSE
  /\ run = [r \in Run |-> Idle]
  /\ runs = 0 /\ byHand = 0 /\ failures = 0
  /\ fresh = 0 /\ disturbed = FALSE /\ stale = {}

Quiet == \A r \in Run : run[r].at = "idle"

Open(r, place, list) ==
  /\ run[r].at = "idle"
  /\ disturbed' = (disturbed \/ ~Quiet)
  /\ run' = [run EXCEPT ![r] = [Idle EXCEPT !.at = place, !.total = daily, !.list = list,
                                            !.saw = budget, !.on = list, !.budget = budget,
                                            !.todo = list]]

-----------------------------------------------------------------------------
(* run_optimization, every hour while the account runs, or when the owner  *)
(* asks for it.                                                            *)
StartRun(r) ==
  /\ runs < MaxRuns /\ runs' = runs + 1
  /\ on # {}
  /\ Open(r, "judge", on)
  /\ UNCHANGED <<daily, running, camp, rows, meta, rotated, byHand, failures, fresh, stale>>

(* An ACTIVE campaign with no ad set on: one of the prospecting tier, or   *)
(* else any, is switched on again with the budget it has, and judged.      *)
RecoverAndRun(r) ==
  /\ runs < MaxRuns /\ runs' = runs + 1
  /\ on = {} /\ camp
  /\ \E t \in Launched :
       /\ Launched \cap prospecting # {} => t \in prospecting
       /\ Open(r, "judge", {t})
       /\ metaOn' = metaOn \cup {t}
  /\ UNCHANGED <<daily, running, camp, rows, metaBudget, rotated, byHand, failures, fresh, stale>>

(* The day's spend is 1.25 times the daily budget: all is paused. Not with *)
(* a budget of nothing.                                                    *)
EmergencyStop(r) ==
  /\ run[r].at = "judge" /\ run[r].todo = run[r].list /\ run[r].total > 0
  /\ metaOn' = metaOn \ run[r].list
  /\ run' = [run EXCEPT ![r].at = "commit", ![r].on = {}, ![r].stop = TRUE,
                        ![r].todo = {}]
  /\ UNCHANGED <<daily, running, camp, rows, metaBudget, rotated, runs, byHand, failures, fresh,
                 disturbed, stale>>

Judged(r, t) == run[r].at = "judge" /\ t \in run[r].todo

(* No numbers for it, or nothing to do.                                    *)
KeepAdSet(r, t) ==
  /\ Judged(r, t)
  /\ run' = [run EXCEPT ![r].todo = @ \ {t}]
  /\ UNCHANGED <<daily, running, camp, rows, meta, rotated, runs, byHand, failures, fresh,
                 disturbed, stale>>

(* An anomaly, or a rule, pauses it: its budget is free for the winners.   *)
KillAdSet(r, t) ==
  /\ Judged(r, t)
  /\ metaOn' = metaOn \ {t}
  /\ run' = [run EXCEPT ![r].todo = @ \ {t}, ![r].on = @ \ {t},
                        ![r].freed = @ + run[r].budget[t]]
  /\ UNCHANGED <<daily, running, camp, rows, metaBudget, rotated, runs, byHand, failures, fresh,
                 disturbed, stale>>

(* clamp_scale: at most +20%. The rule proposes int(budget * 1.2), which   *)
(* is that ceiling.                                                        *)
ClampScale(current, proposed) == Min({proposed, current + (current * 20) \div 100})

(* Mutant: each ad set for itself.                                         *)
CapToAccountBudget_Alone(r, t, proposed) ==
  IF run[r].total = 0 THEN proposed
  ELSE Min({proposed, Max({run[r].budget[t], run[r].total})})

(* _cap_to_account_budget: with the others that are on, as the session     *)
(* sees them, no more than the daily budget; never a cut. A daily budget   *)
(* of nothing is no cap.                                                   *)
CapToAccountBudget(r, t, proposed) ==
  LET others == Total(run[r].budget, run[r].on \ {t})
      room == IF run[r].total > others THEN run[r].total - others ELSE 0
  IN  IF run[r].total = 0 THEN proposed
      ELSE Min({proposed, Max({run[r].budget[t], room})})

(* A winner is raised as far as there is room. One of the testing tier     *)
(* that has proved itself is promoted.                                     *)
ScaleAdSet(r, t) ==
  LET now == run[r].budget[t]
      raised == CapToAccountBudget(r, t, ClampScale(now, (now * 12) \div 10))
  IN  /\ Judged(r, t)
      /\ \E proven \in BOOLEAN :
           run' = [run EXCEPT ![r].todo = @ \ {t}, ![r].winners = @ \cup {t},
                              ![r].budget[t] = raised,
                              ![r].promoted = @ \/ (proven /\ raised > now /\ t = "TESTING")]
      /\ metaBudget' = [metaBudget EXCEPT ![t] = IF raised > now THEN raised ELSE @]
      /\ UNCHANGED <<daily, running, camp, rows, metaOn, rotated, runs, byHand, failures, fresh,
                     disturbed, stale>>

(* Mutant: no cooldown.                                                    *)
RotatedRecently_Never(r) == FALSE

(* _rotated_recently, a query: decisions that this session has added but   *)
(* not flushed are not seen.                                               *)
RotatedRecently(r) == rotated \/ run[r].flushed

(* The image, if need be without it, the creative and the ad at Meta.      *)
MakeAd == fresh' = fresh + 1

(* rotate_fresh_creative, which flushes when it makes an ad, and before    *)
(* the decision that asked for it is added. It may also make none.         *)
Rotate(r, place, todo) ==
  /\ ~RotatedRecently(r)
  /\ \E makes \in BOOLEAN :
       /\ IF makes THEN MakeAd ELSE UNCHANGED fresh
       /\ run' = [run EXCEPT ![r].at = place, ![r].todo = todo, ![r].asked = 1,
                             ![r].flushed = makes /\ run[r].asked > 0]
  /\ UNCHANGED <<daily, running, camp, rows, meta, rotated, runs, byHand, failures, disturbed,
                 stale>>

(* The audience is tired of the ad.                                        *)
RefreshAdSet(r, t) == Judged(r, t) /\ Rotate(r, "judge", run[r].todo \ {t})

(* What was freed is to be shared out among the winners.                   *)
FinishJudging(r) ==
  LET shares == run[r].freed > 0 /\ run[r].winners # {} IN
  /\ run[r].at = "judge" /\ run[r].todo = {}
  /\ run' = [run EXCEPT ![r].at = IF shares THEN "reallocate" ELSE "sweep",
                        ![r].todo = IF shares THEN run[r].winners ELSE {}, ![r].winners = {},
                        ![r].freed = IF shares THEN @ \div Cardinality(run[r].winners) ELSE 0]
  /\ UNCHANGED <<daily, running, camp, rows, meta, rotated, runs, byHand, failures, fresh,
                 disturbed, stale>>

Reallocate(r, t) ==
  LET now == run[r].budget[t]
      raised == CapToAccountBudget(r, t, ClampScale(now, now + run[r].freed))
  IN  /\ run[r].at = "reallocate" /\ t \in run[r].todo
      /\ run' = [run EXCEPT ![r].todo = @ \ {t}, ![r].budget[t] = raised,
                            ![r].at = IF run[r].todo = {t} THEN "sweep" ELSE @,
                            ![r].freed = IF run[r].todo = {t} THEN 0 ELSE @]
      /\ metaBudget' = [metaBudget EXCEPT ![t] = IF raised > now THEN raised ELSE @]
      /\ UNCHANGED <<daily, running, camp, rows, metaOn, rotated, runs, byHand, failures, fresh,
                     disturbed, stale>>

(* _sweep_ad_reviews: Meta has rejected an ad, or not.                     *)
ReplaceRejected(r) == run[r].at = "sweep" /\ Rotate(r, "commit", {})

FindNoRejected(r) ==
  /\ run[r].at = "sweep"
  /\ run' = [run EXCEPT ![r].at = "commit"]
  /\ UNCHANGED <<daily, running, camp, rows, meta, rotated, runs, byHand, failures, fresh,
                 disturbed, stale>>

-----------------------------------------------------------------------------
(* What the session has changed of the amounts it loaded.                  *)
Written(r) ==
  [t \in Tier |-> IF run[r].budget[t] = run[r].saw[t] THEN budget[t] ELSE run[r].budget[t]]

Close(r) == run' = [run EXCEPT ![r] = Idle]

(* The session commits. An ad set it has restarted is on.                  *)
CommitRun(r) ==
  /\ run[r].at = "commit"
  /\ on' = (on \cup run[r].on) \ (run[r].list \ run[r].on)
  /\ budget' = Written(r)
  /\ prospecting' = IF run[r].promoted THEN prospecting \cup {"TESTING"} ELSE prospecting
  /\ running' = (running /\ ~run[r].stop)
  /\ rotated' = (rotated \/ run[r].asked > 0)
  /\ Close(r)
  /\ UNCHANGED <<daily, camp, meta, runs, byHand, failures, fresh, disturbed, stale>>

(* A Graph call, the language model or the commit raises, or the process   *)
(* dies: rows are rolled back, Meta is not.                                *)
Fail(r) ==
  /\ run[r].at # "idle" /\ failures < MaxFailures
  /\ failures' = failures + 1 /\ disturbed' = TRUE
  /\ Close(r)
  /\ UNCHANGED <<daily, running, camp, rows, meta, rotated, runs, byHand, fresh, stale>>

DayPasses ==
  /\ Quiet /\ (rotated \/ fresh > 0)
  /\ rotated' = FALSE /\ fresh' = 0
  /\ UNCHANGED <<daily, running, camp, rows, meta, run, runs, byHand, failures, disturbed, stale>>

-----------------------------------------------------------------------------
ByHand == byHand < MaxByHand /\ byHand' = byHand + 1

(* The row only: no ad set is told.                                        *)
WriteDaily(d) ==
  /\ d # daily /\ ByHand
  /\ daily' = d
  /\ stale' = Launched /\ disturbed' = (disturbed \/ ~Quiet)
  /\ UNCHANGED <<running, camp, rows, meta, rotated, run, runs, failures, fresh>>

(* update_settings while the account does not run.                         *)
SetDaily(d) == ~running /\ WriteDaily(d)

(* set_business, onboarding's form: in any phase, and whatever the amount. *)
SetBusiness(d) == WriteDaily(d)

(* While it runs: reconcile_budgets loads the ad sets that are on.         *)
StartReconcile(r, d) ==
  /\ running /\ ByHand
  /\ run[r].at = "idle"
  /\ disturbed' = (disturbed \/ ~Quiet)
  /\ run' = [run EXCEPT ![r] = [Idle EXCEPT !.at = "push", !.total = d, !.list = on, !.on = on,
                                            !.saw = budget, !.budget = budget, !.todo = on]]
  /\ UNCHANGED <<daily, running, camp, rows, meta, rotated, runs, failures, fresh, stale>>

(* Its new share, at least Meta's minimum.                                 *)
Share(r, t) ==
  Max({Minimum, (run[r].saw[t] * run[r].total) \div Total(run[r].saw, run[r].list)})

PushBudget(r, t) ==
  /\ run[r].at = "push" /\ t \in run[r].todo
  /\ run' = [run EXCEPT ![r].todo = @ \ {t}, ![r].budget[t] = Share(r, t)]
  /\ metaBudget' = [metaBudget EXCEPT ![t] = IF Share(r, t) = run[r].saw[t] THEN @
                                             ELSE Share(r, t)]
  /\ UNCHANGED <<daily, running, camp, rows, metaOn, rotated, runs, byHand, failures, fresh,
                 disturbed, stale>>

CommitReconcile(r) ==
  /\ run[r].at = "push" /\ run[r].todo = {}
  /\ daily' = run[r].total
  /\ budget' = Written(r)
  /\ stale' = Launched \ run[r].list
  /\ Close(r)
  /\ UNCHANGED <<running, camp, on, prospecting, meta, rotated, runs, byHand, failures, fresh,
                 disturbed>>

(* The owner's pause stops the campaign, not the ad sets.                  *)
Pause ==
  /\ running /\ ByHand
  /\ running' = FALSE /\ camp' = FALSE
  /\ disturbed' = (disturbed \/ ~Quiet)
  /\ UNCHANGED <<daily, rows, meta, rotated, run, runs, failures, fresh, stale>>

(* A resume switches the campaign on, and all ad sets that are off.        *)
Resume ==
  /\ ~running /\ ByHand
  /\ running' = TRUE /\ camp' = TRUE
  /\ on' = Launched /\ metaOn' = metaOn \cup (Launched \ on)
  /\ stale' = stale \cup (Launched \ on)
  /\ disturbed' = (disturbed \/ ~Quiet)
  /\ UNCHANGED <<daily, budget, prospecting, metaBudget, rotated, run, runs, failures, fresh>>

-----------------------------------------------------------------------------
Step(r) ==
  \/ EmergencyStop(r) \/ FinishJudging(r) \/ ReplaceRejected(r) \/ FindNoRejected(r)
  \/ \E t \in Tier : KeepAdSet(r, t) \/ KillAdSet(r, t) \/ ScaleAdSet(r, t)
                     \/ RefreshAdSet(r, t) \/ Reallocate(r, t) \/ PushBudget(r, t)
  \/ CommitRun(r) \/ CommitReconcile(r)

Next ==
  \/ \E r \in Run : StartRun(r) \/ RecoverAndRun(r) \/ Step(r) \/ Fail(r)
  \/ \E r \in Run, d \in Daily : StartReconcile(r, d)
  \/ \E d \in Daily : SetDaily(d)
  \/ \E d \in Typed : SetBusiness(d)
  \/ Pause \/ Resume \/ DayPasses

Spec == Init /\ [][Next]_vars

-----------------------------------------------------------------------------
(* Whatever the optimizer does, hour after hour, what Meta may spend a day *)
(* stays within what the owner last chose (pipeline.py:900), an ad set at  *)
(* Meta's minimum aside: as long as sessions do not overlap or fail, and   *)
(* every ad set that is on has been told of that choice. A budget typed    *)
(* into onboarding's form while ads run is told to none, and one of        *)
(* nothing lifts the cap, so until the settings set one nothing is said.   *)
WithinBudget ==
  ~disturbed /\ Quiet /\ metaOn \cap stale = {}
    => Total(metaBudget, {t \in metaOn : metaBudget[t] > Minimum}) <= daily

(* The optimizer runs every hour, but a tired audience does not get a new  *)
(* ad every hour (pipeline.py:738): in 24 hours a second one at most, by   *)
(* the same run, which does not see the decision it has not flushed. Said  *)
(* of runs that come one at a time and do not fail: of two that overlap,   *)
(* neither sees the other's, and a run that fails leaves no decision.      *)
OneRefreshADay == ~disturbed => fresh <= 2
=============================================================================
