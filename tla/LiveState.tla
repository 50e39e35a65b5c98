------------------------------ MODULE LiveState ------------------------------
(***************************************************************************)
(* Pausing and resuming the ads of a launched account: set_live_state and  *)
(* run_optimization of saathi/pipeline.py, and everybody who calls them or *)
(* writes what they read: the owner (bff/routers/settings.py), the admin   *)
(* (bff/routers/admin.py), payments (core/webhooks.py, admin.py) and the   *)
(* daily trial sweep (worker/tasks/maintenance.py).                        *)
(*                                                                         *)
(* A call is one database session: it loads the account and its campaign,  *)
(* calls Meta, and commits at the end the attributes that differ from what *)
(* it loaded. Meta obeys at once and rolls nothing back. One step is the   *)
(* loading, one Graph call, or the commit. Budgets, creatives and reports  *)
(* of the optimizer, invoices and notifications are left out; so are       *)
(* FATIGUE_REFRESH, which no code sets, and CHURNED.                       *)
(***************************************************************************)
EXTENDS Naturals

CONSTANTS
  Caller,       (* sessions that may be open at a time                      *)
  AdSet,        (* the ad sets of the account's one campaign                *)
  MaxCalls,     (* bound: sessions and subscription changes                 *)
  MaxFailures   (* bound: sessions and sweeps that raise or die             *)

ASSUME LiveAssumption == AdSet # {} /\ {MaxCalls, MaxFailures} \subseteq Nat

VARIABLES
  phase,      (* accounts.phase                                             *)
  reason,     (* accounts.pause_reason                                      *)
  before,     (* accounts.phase_before_pause                                *)
  camp,       (* campaigns.status                                           *)
  ads,        (* ad_sets with status ACTIVE; the others are PAUSED          *)
  sub,        (* subscriptions.status                                       *)
  expired,    (* subscriptions.trial_end < now()                            *)
  metaCamp,   (* Meta: the campaign's status                                *)
  metaAds,    (* Meta: the ad sets that are ACTIVE                          *)
  sweep,      (* trial_sweep: idle, has selected, has to tell Meta          *)
  at,         (* where each session stands                                  *)
  saw, new,   (* the attributes it loaded, and what it made of them         *)
  adsOn, adsOff,  (* ad set rows it is going to write                       *)
  todo,       (* the ad sets its loop has not come to yet                   *)
  calls, failures,
  stop,       (* history: the owner's pause has reached Meta, and no resume *)
              (* was asked for since; "relabelled": our rows call it a      *)
              (* trial pause                                                *)
  disturbed   (* history: calls have overlapped, or one has failed          *)

rows == <<phase, reason, before, camp, sub>>
meta == <<metaCamp, metaAds>>
session == <<at, saw, new, adsOn, adsOff, todo>>
vars == <<phase, reason, before, camp, ads, sub, expired, metaCamp, metaAds, sweep, at, saw, new,
          adsOn, adsOff, todo, calls, failures, stop, disturbed>>

Running == {"LIVE", "OPTIMIZING"}
Phase == Running \cup {"PAUSED"}
Reason == {"none", "owner", "admin", "trial", "emergency"}
Switch == {"ACTIVE", "PAUSED"}
SubStatus == {"TRIAL", "ACTIVE", "PAST_DUE", "CANCELLED"}
Row == [phase : Phase, reason : Reason, before : Phase \cup {"none"}, camp : Switch,
        sub : SubStatus]
Place == {"idle", "pause", "resume", "ads", "restart", "insights", "kill", "commit"}

Loaded == [phase |-> phase, reason |-> reason, before |-> before, camp |-> camp, sub |-> sub]

TypeOK ==
  /\ Loaded \in Row /\ ads \in SUBSET AdSet /\ expired \in BOOLEAN
  /\ metaCamp \in Switch /\ metaAds \in SUBSET AdSet
  /\ sweep \in {"idle", "selected", "due"}
  /\ at \in [Caller -> Place]
  /\ saw \in [Caller -> Row] /\ new \in [Caller -> Row]
  /\ adsOn \in [Caller -> SUBSET AdSet] /\ adsOff \in [Caller -> SUBSET AdSet]
  /\ todo \in [Caller -> SUBSET AdSet]
  /\ calls \in 0..MaxCalls /\ failures \in 0..MaxFailures
  /\ stop \in {"no", "yes", "relabelled"} /\ disturbed \in BOOLEAN

(* What a session holds that is not open.                                  *)
Blank == [phase |-> "LIVE", reason |-> "none", before |-> "none", camp |-> "ACTIVE",
          sub |-> "TRIAL"]

(* A launched account, on trial.                                           *)
Init ==
  /\ phase = "LIVE" /\ reason = "none" /\ before = "none"
  /\ camp = "ACTIVE" /\ ads = AdSet
  /\ sub = "TRIAL" /\ expired = FALSE
  /\ metaCamp = "ACTIVE" /\ metaAds = AdSet
  /\ sweep = "idle"
  /\ at = [c \in Caller |-> "idle"]
  /\ saw = [c \in Caller |-> Blank] /\ new = [c \in Caller |-> Blank]
  /\ adsOn = [c \in Caller |-> {}] /\ adsOff = [c \in Caller |-> {}]
  /\ todo = [c \in Caller |-> {}]
  /\ calls = 0 /\ failures = 0 /\ stop = "no" /\ disturbed = FALSE

-----------------------------------------------------------------------------
Quiet == sweep = "idle" /\ \A c \in Caller : at[c] = "idle"

(* A session opens and loads the account, the campaign and, for a payment, *)
(* the subscription.                                                       *)
Open(c, place, row) ==
  /\ at[c] = "idle" /\ at' = [at EXCEPT ![c] = place]
  /\ saw' = [saw EXCEPT ![c] = Loaded]
  /\ new' = [new EXCEPT ![c] = row]
  /\ UNCHANGED <<rows, ads, expired, meta, adsOn, adsOff, failures>>

Counted == calls < MaxCalls /\ calls' = calls + 1

Called == Counted /\ disturbed' = (disturbed \/ ~Quiet)

Goto(c, from, to) == at[c] = from /\ at' = [at EXCEPT ![c] = to]

-----------------------------------------------------------------------------
(* set_live_state, pausing.                                                *)

Paused(row, why) ==
  [row EXCEPT !.phase = "PAUSED", !.reason = why, !.camp = "PAUSED",
              !.before = IF row.phase = "PAUSED" THEN @ ELSE row.phase]

(* Only an account that runs has anything to pause.                        *)
OwnerPause(c) ==
  /\ phase \in Running
  /\ Called /\ Open(c, "pause", Paused(Loaded, "owner"))
  /\ UNCHANGED <<todo, sweep, stop>>

AdminPause(c) ==
  /\ Called /\ Open(c, "pause", Paused(Loaded, "admin"))
  /\ UNCHANGED <<todo, sweep, stop>>

(* Phase 2 of trial_sweep, for the accounts phase 1 has selected.          *)
TrialPause(c) ==
  /\ sweep = "due" /\ sweep' = "idle"
  /\ Open(c, "pause", Paused(Loaded, "trial"))
  /\ disturbed' = (disturbed \/ \E d \in Caller : at[d] # "idle")
  /\ UNCHANGED <<todo, calls, stop>>

(* The pause the owner has asked for.                                      *)
OwnersStop(c) == saw[c].phase # "PAUSED" /\ new[c].reason = "owner"

(* Meta is told first, the rows are written by the commit.                 *)
PauseCampaign(c) ==
  /\ Goto(c, "pause", "commit")
  /\ metaCamp' = "PAUSED"
  /\ stop' = IF OwnersStop(c) /\ \A d \in Caller : at[d] # "resume"
             THEN IF reason = "trial" THEN "relabelled" ELSE "yes" ELSE stop
  /\ UNCHANGED <<rows, ads, expired, metaAds, sweep, saw, new, adsOn, adsOff, todo, calls,
                 failures, disturbed>>

-----------------------------------------------------------------------------
(* set_live_state, resuming.                                               *)

(* Mutant: the phase before the pause is not looked at.                    *)
Resumed_AsBefore(row) ==
  [row EXCEPT !.phase = row.before, !.reason = "none", !.before = "none", !.camp = "ACTIVE"]

Resumed(row) ==
  [row EXCEPT !.phase = IF row.before \in Running THEN row.before ELSE "OPTIMIZING",
              !.reason = "none", !.before = "none", !.camp = "ACTIVE"]

(* The owner may always resume.                                            *)
OwnerResume(c) ==
  /\ Called /\ Open(c, "resume", Resumed(Loaded))
  /\ stop' = "no"
  /\ UNCHANGED <<todo, sweep>>

(* Mutants: a payment resumes whatever is paused, or nothing.              *)
Pay_AnyPause(c) ==
  LET paid == [Loaded EXCEPT !.sub = "ACTIVE"] IN
  /\ Called
  /\ \/ phase = "PAUSED" /\ Open(c, "resume", Resumed(paid))
     \/ phase # "PAUSED" /\ Open(c, "commit", paid)
  /\ UNCHANGED <<todo, sweep, stop>>

Pay_NoResume(c) ==
  /\ Called /\ Open(c, "commit", [Loaded EXCEPT !.sub = "ACTIVE"])
  /\ UNCHANGED <<todo, sweep, stop>>

(* A payment makes the subscription ACTIVE, and resumes a trial pause.     *)
Pay(c) ==
  LET paid == [Loaded EXCEPT !.sub = "ACTIVE"]
      trial == phase = "PAUSED" /\ reason = "trial"
  IN /\ Called
     /\ \/ trial /\ Open(c, "resume", Resumed(paid))
        \/ ~trial /\ Open(c, "commit", paid)
     /\ UNCHANGED <<todo, sweep, stop>>

(* Razorpay's subscription.charged or .activated. The event is committed   *)
(* as seen before it is applied, so it is never applied again.             *)
Charged(c) == Pay(c)

(* The admin has been paid by other means.                                 *)
MarkPaid(c) == Pay(c)

(* The campaign is switched on; then the paused ad sets are selected.      *)
ResumeCampaign(c) ==
  /\ Goto(c, "resume", "ads")
  /\ metaCamp' = "ACTIVE"
  /\ todo' = [todo EXCEPT ![c] = AdSet \ ads]
  /\ UNCHANGED <<rows, ads, expired, metaAds, sweep, saw, new, adsOn, adsOff, calls, failures,
                 stop, disturbed>>

ResumeAdSet(c, a) ==
  /\ at[c] = "ads" /\ a \in todo[c]
  /\ metaAds' = metaAds \cup {a}
  /\ adsOn' = [adsOn EXCEPT ![c] = @ \cup {a}]
  /\ todo' = [todo EXCEPT ![c] = @ \ {a}]
  /\ UNCHANGED <<rows, ads, expired, metaCamp, sweep, at, saw, new, adsOff, calls, failures,
                 stop, disturbed>>

-----------------------------------------------------------------------------
(* run_optimization: queued every hour for an account that runs, or asked  *)
(* for by the owner; once it starts, the phase is not looked at. Without   *)
(* an ad set that is on it restarts one, if the campaign is on.            *)

Optimize(c) ==
  /\ ads # {} \/ camp = "ACTIVE"
  /\ Called /\ Open(c, IF ads # {} THEN "insights" ELSE "restart", Loaded)
  /\ todo' = [todo EXCEPT ![c] = ads]
  /\ UNCHANGED <<sweep, stop>>

(* The prospecting tier, or else any.                                      *)
Restart(c, a) ==
  /\ Goto(c, "restart", "insights")
  /\ metaAds' = metaAds \cup {a}
  /\ adsOn' = [adsOn EXCEPT ![c] = {a}]
  /\ todo' = [todo EXCEPT ![c] = {a}]
  /\ UNCHANGED <<rows, ads, expired, metaCamp, sweep, saw, new, adsOff, calls, failures, stop,
                 disturbed>>

Stopped(row) == [row EXCEPT !.before = row.phase, !.reason = "emergency", !.phase = "PAUSED"]

Optimized(row) == [row EXCEPT !.phase = IF @ = "LIVE" THEN "OPTIMIZING" ELSE @]

(* The day's spend is over the limit, and everything is to be stopped; or  *)
(* the rules kill some of the ad sets.                                     *)
Judge(c) ==
  /\ Goto(c, "insights", "kill")
  /\ \/ /\ new' = [new EXCEPT ![c] = Stopped(@)]
        /\ UNCHANGED todo
     \/ /\ new' = [new EXCEPT ![c] = Optimized(@)]
        /\ \E K \in SUBSET todo[c] : todo' = [todo EXCEPT ![c] = K]
  /\ UNCHANGED <<rows, ads, expired, meta, sweep, saw, adsOn, adsOff, calls, failures, stop,
                 disturbed>>

(* Mutant: Meta is not told.                                               *)
PauseAdSet_RowOnly(c, a) ==
  /\ at[c] = "kill" /\ a \in todo[c]
  /\ adsOn' = [adsOn EXCEPT ![c] = @ \ {a}]
  /\ adsOff' = [adsOff EXCEPT ![c] = @ \cup {a}]
  /\ todo' = [todo EXCEPT ![c] = @ \ {a}]
  /\ UNCHANGED <<rows, ads, expired, meta, sweep, at, saw, new, calls, failures, stop, disturbed>>

PauseAdSet(c, a) ==
  /\ at[c] = "kill" /\ a \in todo[c]
  /\ metaAds' = metaAds \ {a}
  /\ adsOn' = [adsOn EXCEPT ![c] = @ \ {a}]
  /\ adsOff' = [adsOff EXCEPT ![c] = @ \cup {a}]
  /\ todo' = [todo EXCEPT ![c] = @ \ {a}]
  /\ UNCHANGED <<rows, ads, expired, metaCamp, sweep, at, saw, new, calls, failures, stop,
                 disturbed>>

-----------------------------------------------------------------------------
Close(c) ==
  /\ at' = [at EXCEPT ![c] = "idle"]
  /\ saw' = [saw EXCEPT ![c] = Blank] /\ new' = [new EXCEPT ![c] = Blank]
  /\ adsOn' = [adsOn EXCEPT ![c] = {}] /\ adsOff' = [adsOff EXCEPT ![c] = {}]
  /\ todo' = [todo EXCEPT ![c] = {}]

Written(current, old, changed) == IF changed = old THEN current ELSE changed

(* The owner's stop is no longer one by our rows.                          *)
Relabel == IF stop = "yes" /\ reason' = "trial" THEN "relabelled" ELSE stop

(* The session commits the attributes it has changed.                      *)
Commit(c) ==
  /\ at[c] = "commit" \/ (at[c] \in {"ads", "kill"} /\ todo[c] = {})
  /\ phase' = Written(phase, saw[c].phase, new[c].phase)
  /\ reason' = Written(reason, saw[c].reason, new[c].reason)
  /\ before' = Written(before, saw[c].before, new[c].before)
  /\ camp' = Written(camp, saw[c].camp, new[c].camp)
  /\ sub' = Written(sub, saw[c].sub, new[c].sub)
  /\ ads' = (ads \cup adsOn[c]) \ adsOff[c]
  /\ stop' = Relabel
  /\ Close(c)
  /\ UNCHANGED <<expired, meta, sweep, calls, failures, disturbed>>

(* A Graph call or the commit raises, or the process dies: the rows are    *)
(* rolled back, Meta is not.                                               *)
Fail(c) ==
  /\ at[c] # "idle" /\ failures < MaxFailures
  /\ failures' = failures + 1 /\ disturbed' = TRUE
  /\ Close(c)
  /\ UNCHANGED <<rows, ads, expired, meta, sweep, calls, stop>>

-----------------------------------------------------------------------------
(* The subscription, and phase 1 of the sweep.                             *)

(* subscribe: a new mandate, or another tier, starts a trial.              *)
Subscribe ==
  /\ Counted
  /\ sub' = "TRIAL" /\ expired' = FALSE
  /\ UNCHANGED <<phase, reason, before, camp, ads, meta, sweep, session, failures, stop, disturbed>>

(* Razorpay's subscription.halted, payment.failed, subscription.cancelled. *)
Lapse ==
  /\ Counted
  /\ sub' \in {"PAST_DUE", "CANCELLED"}
  /\ UNCHANGED <<phase, reason, before, camp, ads, expired, meta, sweep, session, failures, stop,
                 disturbed>>

TrialEnds ==
  /\ sub = "TRIAL" /\ ~expired /\ expired' = TRUE
  /\ UNCHANGED <<rows, ads, meta, sweep, session, calls, failures, stop, disturbed>>

SweepSelect ==
  /\ sub = "TRIAL" /\ expired
  /\ sweep = "idle" /\ sweep' = "selected"
  /\ disturbed' = (disturbed \/ ~Quiet)
  /\ UNCHANGED <<rows, ads, expired, meta, session, calls, failures, stop>>

(* The selected subscription is PAST_DUE, whatever it has become; an       *)
(* account that runs is paused. Commits.                                   *)
SweepCommit ==
  /\ sweep = "selected" /\ sweep' = "due"
  /\ sub' = "PAST_DUE"
  /\ \/ /\ phase \in Running
        /\ phase' = "PAUSED" /\ reason' = "trial" /\ before' = phase
     \/ /\ phase \notin Running
        /\ UNCHANGED <<phase, reason, before>>
  /\ stop' = Relabel
  /\ UNCHANGED <<camp, ads, expired, meta, session, calls, failures, disturbed>>

(* The task dies; nothing remembers what it had to tell Meta.              *)
SweepFails ==
  /\ sweep # "idle" /\ sweep' = "idle"
  /\ failures < MaxFailures /\ failures' = failures + 1 /\ disturbed' = TRUE
  /\ UNCHANGED <<rows, ads, expired, meta, session, calls, stop>>

-----------------------------------------------------------------------------
Next ==
  \/ \E c \in Caller :
       \/ OwnerPause(c) \/ AdminPause(c) \/ TrialPause(c) \/ PauseCampaign(c)
       \/ OwnerResume(c) \/ Charged(c) \/ MarkPaid(c) \/ ResumeCampaign(c)
       \/ Optimize(c) \/ Judge(c) \/ Commit(c) \/ Fail(c)
       \/ \E a \in AdSet : ResumeAdSet(c, a) \/ Restart(c, a) \/ PauseAdSet(c, a)
  \/ Subscribe \/ Lapse \/ TrialEnds \/ SweepSelect \/ SweepCommit \/ SweepFails

Spec == Init /\ [][Next]_vars

-----------------------------------------------------------------------------
(* Once the owner's pause has reached Meta, the campaign stays off until   *)
(* the owner resumes, whatever the optimizer, the admin and payments do at *)
(* the same time, as long as our rows do not call it a trial pause.        *)
StopIsObeyed == stop = "yes" => metaCamp = "PAUSED"

(* While calls neither overlap nor fail, our rows say what Meta does: a    *)
(* paused account does not spend, a running one does (pipeline.py:285).    *)
RowsMatchMeta == Quiet /\ ~disturbed => camp = metaCamp /\ ads = metaAds

(* While calls neither overlap nor fail, a client who pays is not left in  *)
(* a trial pause (webhooks.py:51).                                         *)
PaidRuns ==
  Quiet /\ ~disturbed /\ sub = "ACTIVE" => ~(phase = "PAUSED" /\ reason = "trial")

(* What maintenance.py:473-474 says: an owner's own pause is never         *)
(* confused with ours, so only the owner's resume ends it.                 *)
OwnersPauseStands == stop # "no" => metaCamp = "PAUSED"
=============================================================================
