------------------------------ MODULE Approvals ------------------------------
(***************************************************************************)
(* How an account gets from its research to its launch: run_research and   *)
(* run_creative of saathi/pipeline.py, the owner's decisions on the ads    *)
(* they make (bff/routers/agents.py), and the two cron jobs that go on     *)
(* without the owner, progress_accounts and auto_approve_pending           *)
(* (worker/tasks/maintenance.py).                                          *)
(*                                                                         *)
(* A job is one session: it loads rows in one step, may talk to a language *)
(* model for minutes, and commits in a later step. The session factory     *)
(* flushes late, so a job overwrites what others have committed since, but *)
(* only in the columns whose value it changed. One tap of the owner on one *)
(* ad is one step. How a launch builds the campaign is module Launch.      *)
(***************************************************************************)
EXTENDS Naturals, FiniteSets

CONSTANTS
  Job,         (* sessions that can be under way at the same time           *)
  Position,    (* the ads of one batch                                      *)
  Regenerations,  (* batches after which the cron gives up (3 in the code)  *)
  StartPhase, StartLevel,  (* accounts.phase and autopilot_level at the start       *)
  MaxBatches,  (* bound: batches ever made                                  *)
  MaxByHand,   (* bound: things the owner does                              *)
  MaxFailures  (* bound: jobs that raise, or die with their process         *)

Phase == {"ONBOARDING", "RESEARCHED", "CREATIVE_GENERATED", "PENDING_APPROVAL", "APPROVED",
          "LIVE"}
Level == {"MANUAL", "ASSISTED", "FULL"}

ASSUME ApprovalsAssumption ==
  /\ Regenerations \in Nat /\ MaxBatches \in Nat
  /\ MaxByHand \in Nat /\ MaxFailures \in Nat
  /\ StartPhase \in Phase /\ StartLevel \in Level

Batch == 1..MaxBatches
Ad == Batch \X Position

AdStatus == {"NONE", "DRAFT", "APPROVED_FOR_LAUNCH", "REJECTED"}
Connection == {"meta", "whatsapp"}
Verdict == {"APPROVED", "REJECTED"}
ApprovalStatus == {"NONE", "PENDING"} \cup Verdict
Kind == {"research", "creative", "launch", "decide", "auto"}

VARIABLES
  phase, level,  (* accounts; LIVE stands for OPTIMIZING and FATIGUE_REFRESH too *)
  window,      (* accounts.auto_approve_hours > 0                           *)
  connections, (* which of the Meta and the WhatsApp connection exist       *)
  made,        (* how many batches run_creative has made                    *)
  ads,         (* creatives.approval_status                                 *)
  compliant,   (* creatives with compliance_status PASSED                   *)
  approvals,   (* status of the batch's approvals row, "NONE" = no row      *)
  due,         (* batches older than auto_approve_hours                     *)
  live,        (* the campaign is ACTIVE                                    *)
  launched,    (* the creatives it was launched with                        *)
  reported,    (* the anomaly queue tells of this account                   *)
  job,         (* what each session is doing and what it has read           *)
  byHand, failures, crashes,
  says,        (* history: the owner's last word on an ad                   *)
  ruled,       (* history: the owner's verdicts on a batch                  *)
  claimed,     (* history: batches the cron has claimed                     *)
  crossed      (* history: ads rejected while a job was about to promote    *)

account == <<phase, level, window, connections>>
batchVars == <<made, ads, compliant, approvals, due>>
launchVars == <<live, launched, reported>>
bounds == <<byHand, failures, crashes>>
history == <<says, ruled, claimed, crossed>>
vars == <<phase, level, window, connections, made, ads, compliant, approvals, due, live,
          launched, reported, job, byHand, failures, crashes, says, ruled, claimed, crossed>>

Idle == [at |-> "idle", kind |-> "none", phase |-> "none", level |-> "none", batch |-> 0,
         verdict |-> "none", seen |-> {}, cron |-> FALSE, born |-> 0]
JobState == [at : {"idle", "picked", "claimed", "working"}, kind : Kind \cup {"none"},
             phase : Phase \cup {"none"}, level : Level \cup {"none"}, batch : {0} \cup Batch,
             verdict : Verdict \cup {"none"}, seen : SUBSET Ad, cron : BOOLEAN,
             born : 0..MaxBatches]

TypeOK ==
  /\ phase \in Phase /\ level \in Level /\ window \in BOOLEAN /\ connections \in SUBSET Connection
  /\ made \in 0..MaxBatches
  /\ ads \in [Ad -> AdStatus] /\ compliant \in SUBSET Ad
  /\ approvals \in [Batch -> ApprovalStatus] /\ due \in SUBSET (1..made)
  /\ live \in BOOLEAN /\ launched \in SUBSET compliant /\ reported \in BOOLEAN
  /\ job \in [Job -> JobState]
  /\ byHand \in 0..MaxByHand /\ failures \in 0..MaxFailures /\ crashes \in 0..MaxFailures
  /\ says \in [Ad -> Verdict \cup {"none"}] /\ ruled \in [Batch -> SUBSET Verdict]
  /\ claimed \in SUBSET (1..made) /\ crossed \in SUBSET Ad
  /\ \A a \in Ad : ads[a] = "NONE" <=> a[1] > made

Init ==
  /\ phase = StartPhase /\ level = StartLevel /\ window = TRUE /\ connections = {}
  /\ made = 0
  /\ ads = [a \in Ad |-> "NONE"] /\ compliant = {}
  /\ approvals = [b \in Batch |-> "NONE"] /\ due = {}
  /\ live = FALSE /\ launched = {} /\ reported = FALSE
  /\ job = [j \in Job |-> Idle]
  /\ byHand = 0 /\ failures = 0 /\ crashes = 0
  /\ says = [a \in Ad |-> "none"] /\ ruled = [b \in Batch |-> {}]
  /\ claimed = {} /\ crossed = {}

Approved == {a \in Ad : ads[a] = "APPROVED_FOR_LAUNCH"}
AdsOf(b) == {a \in Ad : a[1] = b}

(* What a session has changed in accounts.phase when it commits.           *)
Written(j, new) == IF job[j].phase = new THEN phase ELSE new

Leave(j) == job' = [job EXCEPT ![j] = Idle]

-----------------------------------------------------------------------------
(* progress_accounts: the job that the phase it selects calls for. The     *)
(* phase is not looked at again when the job's turn comes.                 *)
PhaseCallsFor == CASE phase = "ONBOARDING" -> "research"
                   [] phase = "RESEARCHED" -> "creative"
                   [] OTHER -> "launch"

Progress(j) ==
  /\ job[j] = Idle /\ phase # "LIVE"
  /\ job' = [job EXCEPT ![j] = [Idle EXCEPT !.at = "picked", !.kind = PhaseCallsFor,
                                            !.cron = TRUE, !.born = made]]
  /\ UNCHANGED <<account, batchVars, launchVars, bounds, history>>

(* The owner's buttons: the endpoint enqueues the task, or runs it itself, *)
(* in any phase.                                                           *)
RunByHand(j, kind) ==
  /\ job[j] = Idle /\ byHand < MaxByHand
  /\ byHand' = byHand + 1
  /\ job' = [job EXCEPT ![j] = [Idle EXCEPT !.at = "picked", !.kind = kind, !.born = made]]
  /\ UNCHANGED <<account, batchVars, launchVars, failures, crashes, history>>

ResearchByHand(j) == RunByHand(j, "research")
GenCreatives(j) == RunByHand(j, "creative")
LaunchByHand(j) == RunByHand(j, "launch")

(* run_research and run_creative load the account, then ask the models.    *)
Load(j) ==
  /\ job[j].at = "picked" /\ job[j].kind \in {"research", "creative"}
  /\ job' = [job EXCEPT ![j].at = "working", ![j].phase = phase, ![j].level = level]
  /\ UNCHANGED <<account, batchVars, launchVars, bounds, history>>

CommitResearch(j) ==
  /\ job[j].at = "working" /\ job[j].kind = "research"
  /\ phase' = Written(j, "RESEARCHED")
  /\ Leave(j)
  /\ UNCHANGED <<level, window, connections, batchVars, launchVars, bounds, history>>

(* A new ad is rejected if the compliance check fails, else a draft, or    *)
(* approved at once under full autopilot.                                  *)
NewAds(b, passed, full) ==
  [a \in Ad |-> IF a[1] # b THEN ads[a]
                ELSE IF a \notin passed THEN "REJECTED"
                ELSE IF full THEN "APPROVED_FOR_LAUNCH" ELSE "DRAFT"]

(* run_creative commits its batch. Only under full autopilot is the owner  *)
(* not asked. The same code ends a regeneration by the veto cron.          *)
CommitCreative(j) ==
  /\ job[j].at = "working" /\ job[j].kind = "creative" /\ made < MaxBatches
  /\ LET b == made + 1
         full == job[j].level = "FULL"
     IN  /\ \E passed \in SUBSET AdsOf(b) :
              /\ compliant' = compliant \cup passed
              /\ ads' = NewAds(b, passed, full)
         /\ made' = b
         /\ approvals' = [approvals EXCEPT ![b] = IF full THEN "NONE" ELSE "PENDING"]
         /\ phase' = Written(j, IF full THEN "CREATIVE_GENERATED" ELSE "PENDING_APPROVAL")
  /\ Leave(j)
  /\ UNCHANGED <<level, window, connections, due, launchVars, bounds, history>>

-----------------------------------------------------------------------------
(* Mutant: promotes whatever passed the compliance check.                  *)
Promotable_Rejected(b) == {a \in AdsOf(b) \cap compliant : ads[a] # "NONE"}

(* What approve_creative_batch promotes, as the session reads it.          *)
Promotable(b) == {a \in AdsOf(b) \cap compliant : ads[a] = "DRAFT"}

Promote(j) == [a \in Ad |-> IF a \in job[j].seen THEN "APPROVED_FOR_LAUNCH" ELSE ads[a]]

(* approve_creative_batch moves the phase on if it promoted anything.      *)
PhaseAfterPromotion(j) ==
  IF job[j].seen # {} /\ job[j].phase = "PENDING_APPROVAL" THEN "APPROVED" ELSE phase

(* decide_approval reads the batch, whatever its status, and its ads.      *)
Decide(j, b, verdict) ==
  /\ job[j] = Idle /\ approvals[b] # "NONE" /\ byHand < MaxByHand
  /\ byHand' = byHand + 1
  /\ job' = [job EXCEPT ![j] =
       [Idle EXCEPT !.at = "working", !.kind = "decide", !.batch = b, !.verdict = verdict,
                    !.phase = phase, !.born = made,
                    !.seen = IF verdict = "APPROVED" THEN Promotable(b) ELSE {}]]
  /\ UNCHANGED <<account, batchVars, launchVars, failures, crashes, history>>

CommitDecision(j) ==
  /\ job[j].at = "working" /\ job[j].kind = "decide"
  /\ approvals' = [approvals EXCEPT ![job[j].batch] = job[j].verdict]
  /\ ads' = Promote(j)
  /\ phase' = PhaseAfterPromotion(j)
  /\ ruled' = [ruled EXCEPT ![job[j].batch] = @ \cup {job[j].verdict}]
  /\ Leave(j)
  /\ UNCHANGED <<level, window, connections, made, compliant, due, launchVars, bounds, says,
                 claimed, crossed>>

Promotes(j, a) == a \in job[j].seen /\ job[j].kind \in {"decide", "auto"}

(* approve_creative and reject_creative: one tap on one ad, in any status. *)
Tap(a, verdict) ==
  /\ ads[a] # "NONE" /\ byHand < MaxByHand
  /\ byHand' = byHand + 1
  /\ ads' = [ads EXCEPT ![a] = IF verdict = "APPROVED" THEN "APPROVED_FOR_LAUNCH"
                                                       ELSE "REJECTED"]
  /\ says' = [says EXCEPT ![a] = verdict]
  /\ crossed' = IF verdict = "REJECTED" /\ \E j \in Job : Promotes(j, a) THEN crossed \cup {a}
                                                                        ELSE crossed
  /\ UNCHANGED <<account, made, compliant, approvals, due, launchVars, job, failures, crashes,
                 ruled, claimed>>

(* patch_settings: the owner changes the autopilot.                        *)
SetAutopilot(l, w) ==
  /\ <<l, w>> # <<level, window>> /\ byHand < MaxByHand
  /\ byHand' = byHand + 1
  /\ level' = l /\ window' = w
  /\ UNCHANGED <<phase, connections, batchVars, launchVars, job, failures, crashes, history>>

(* The connections are made in onboarding, in any order.                   *)
Connect(c) ==
  /\ c \notin connections
  /\ connections' = connections \cup {c}
  /\ UNCHANGED <<phase, level, window, batchVars, launchVars, job, bounds, history>>

(* auto_approve_hours is at least an hour, task_time_limit is one: no job  *)
(* that was there before the batch outlives its window.                    *)
WindowElapses(b) ==
  /\ approvals[b] = "PENDING" /\ b \notin due
  /\ \A j \in Job : job[j] # Idle => job[j].born >= b
  /\ due' = due \cup {b}
  /\ UNCHANGED <<account, made, ads, compliant, approvals, launchVars, job, bounds, history>>

-----------------------------------------------------------------------------
(* Mutant: the window is not waited for.                                   *)
Overdue_AtOnce(b) ==
  /\ approvals[b] = "PENDING" /\ phase = "PENDING_APPROVAL"
  /\ level = "ASSISTED" /\ window

(* The query of auto_approve_pending.                                      *)
Overdue(b) ==
  /\ approvals[b] = "PENDING" /\ phase = "PENDING_APPROVAL"
  /\ level = "ASSISTED" /\ window /\ b \in due

SelectOverdue(j, b) ==
  /\ job[j] = Idle /\ Overdue(b)
  /\ job' = [job EXCEPT ![j] = [Idle EXCEPT !.at = "picked", !.kind = "auto", !.batch = b,
                                            !.cron = TRUE, !.born = made]]
  /\ UNCHANGED <<account, batchVars, launchVars, bounds, history>>

(* Mutant: claims the batch it selected, whatever has been decided since.  *)
ClaimBatch_Blind(j) ==
  /\ job[j].at = "picked" /\ job[j].kind = "auto"
  /\ approvals' = [approvals EXCEPT ![job[j].batch] = "APPROVED"]
  /\ claimed' = IF approvals[job[j].batch] = "PENDING" THEN claimed \cup {job[j].batch} ELSE claimed
  /\ job' = [job EXCEPT ![j].at = "claimed"]
  /\ UNCHANGED <<account, made, ads, compliant, due, launchVars, bounds, says, ruled, crossed>>

(* UPDATE ... WHERE status = 'PENDING', committed on its own.              *)
ClaimBatch(j) ==
  /\ job[j].at = "picked" /\ job[j].kind = "auto"
  /\ \/ /\ approvals[job[j].batch] = "PENDING"
        /\ approvals' = [approvals EXCEPT ![job[j].batch] = "APPROVED"]
        /\ claimed' = claimed \cup {job[j].batch}
        /\ job' = [job EXCEPT ![j].at = "claimed"]
     \/ /\ approvals[job[j].batch] # "PENDING"
        /\ Leave(j)
        /\ UNCHANGED <<approvals, claimed>>
  /\ UNCHANGED <<account, made, ads, compliant, due, launchVars, bounds, says, ruled, crossed>>

(* Mutant: nothing to promote, nothing more to do.                         *)
ReadBatch_NoRegeneration(j) ==
  /\ job[j].at = "claimed"
  /\ \/ /\ Promotable(job[j].batch) # {}
        /\ job' = [job EXCEPT ![j].at = "working", ![j].phase = phase, ![j].level = level,
                              ![j].seen = Promotable(job[j].batch)]
     \/ /\ Promotable(job[j].batch) = {}
        /\ Leave(j)
  /\ UNCHANGED <<account, batchVars, launchVars, bounds, history>>

(* The second session reads the batch's ads and the account. With nothing  *)
(* to promote it makes a new batch, or gives up and reports.               *)
ReadBatch(j) ==
  /\ job[j].at = "claimed"
  /\ LET b == job[j].batch
         rows == Cardinality({x \in Batch : approvals[x] # "NONE"})
         loaded == [job[j] EXCEPT !.at = "working", !.phase = phase, !.level = level]
     IN  \/ /\ Promotable(b) # {}
            /\ job' = [job EXCEPT ![j] = [loaded EXCEPT !.seen = Promotable(b)]]
            /\ UNCHANGED reported
         \/ /\ Promotable(b) = {} /\ rows < Regenerations
            /\ job' = [job EXCEPT ![j] = [loaded EXCEPT !.kind = "creative"]]
            /\ UNCHANGED reported
         \/ /\ Promotable(b) = {} /\ rows >= Regenerations
            /\ reported' = TRUE
            /\ Leave(j)
  /\ UNCHANGED <<account, batchVars, live, launched, bounds, history>>

CommitPromotion(j) ==
  /\ job[j].at = "working" /\ job[j].kind = "auto"
  /\ ads' = Promote(j)
  /\ phase' = PhaseAfterPromotion(j)
  /\ Leave(j)
  /\ UNCHANGED <<level, window, connections, made, compliant, approvals, due, launchVars, bounds,
                 history>>

-----------------------------------------------------------------------------
(* Mutant: launches what the owner has approved, compliant or not.         *)
Launchable_Approved == Approved

(* The approval gate of launch_campaigns.                                  *)
Launchable == Approved \cap compliant

(* The cron's own check before it calls launch_campaigns: without an       *)
(* approved ad and both connections it leaves the account alone, and tells *)
(* operations only that the Meta connection is missing.                    *)
SkipLaunch(j) ==
  /\ job[j].at = "picked" /\ job[j].kind = "launch" /\ job[j].cron
  /\ Approved = {} \/ connections # Connection
  /\ reported' = (reported \/ (Approved # {} /\ "meta" \notin connections))
  /\ Leave(j)
  /\ UNCHANGED <<account, batchVars, live, launched, bounds, history>>

(* launch_campaigns up to its gate: an ACTIVE campaign ends the call, no   *)
(* launchable creative raises, which the cron reports.                     *)
BeginLaunch(j) ==
  /\ job[j].at = "picked" /\ job[j].kind = "launch"
  /\ job[j].cron => Approved # {} /\ connections = Connection
  /\ \/ /\ ~live /\ Launchable # {}
        /\ job' = [job EXCEPT ![j].at = "working", ![j].phase = phase, ![j].seen = Launchable]
        /\ UNCHANGED reported
     \/ /\ live \/ Launchable = {}
        /\ reported' = (reported \/ (~live /\ job[j].cron))
        /\ Leave(j)
  /\ UNCHANGED <<account, batchVars, live, launched, bounds, history>>

CommitLaunch(j) ==
  /\ job[j].at = "working" /\ job[j].kind = "launch"
  /\ live' = TRUE
  /\ launched' = launched \cup job[j].seen
  /\ phase' = Written(j, "LIVE")
  /\ Leave(j)
  /\ UNCHANGED <<level, window, connections, batchVars, reported, bounds, history>>

(* A job raises: rolled back; the crons put it into the anomaly queue.     *)
Fail(j) ==
  /\ job[j] # Idle /\ failures + crashes < MaxFailures
  /\ failures' = failures + 1
  /\ reported' = (reported \/ job[j].cron)
  /\ Leave(j)
  /\ UNCHANGED <<account, batchVars, live, launched, byHand, crashes, history>>

(* Its process dies, and nobody is told.                                   *)
Crash(j) ==
  /\ job[j] # Idle /\ failures + crashes < MaxFailures
  /\ crashes' = crashes + 1
  /\ Leave(j)
  /\ UNCHANGED <<account, batchVars, launchVars, byHand, failures, history>>

-----------------------------------------------------------------------------
Work(j) ==
  \/ Load(j) \/ CommitResearch(j) \/ CommitCreative(j) \/ CommitDecision(j)
  \/ ClaimBatch(j) \/ ReadBatch(j) \/ CommitPromotion(j)
  \/ SkipLaunch(j) \/ BeginLaunch(j) \/ CommitLaunch(j)

Cron(j) == Progress(j) \/ \E b \in Batch : SelectOverdue(j, b)

Owner(j) ==
  \/ ResearchByHand(j) \/ GenCreatives(j) \/ LaunchByHand(j)
  \/ \E b \in Batch, v \in Verdict : Decide(j, b, v)

Next ==
  \/ \E j \in Job : Work(j) \/ Cron(j) \/ Owner(j) \/ Fail(j) \/ Crash(j)
  \/ \E a \in Ad, v \in Verdict : Tap(a, v)
  \/ \E l \in Level, w \in BOOLEAN : SetAutopilot(l, w)
  \/ \E b \in Batch : WindowElapses(b)
  \/ \E c \in Connection : Connect(c)

Spec == Init /\ [][Next]_vars

(* Jobs under way go on, both crons keep being scheduled and get to every  *)
(* account they select, and time passes. The owner owes nothing.           *)
FairSpec ==
  /\ Spec
  /\ \A j \in Job : WF_vars(Work(j))
  /\ SF_vars(\E j \in Job : Progress(j))
  /\ SF_vars(\E j \in Job, b \in Batch : SelectOverdue(j, b))
  /\ WF_vars(\E b \in Batch : WindowElapses(b))

-----------------------------------------------------------------------------
(* An ad its owner has rejected stays rejected through every approval of   *)
(* its batch, by her or by the cron, unless a promotion that had already   *)
(* read it as a draft was just being committed (pipeline.py:264).          *)
VetoHolds ==
  \A a \in Ad : says[a] = "REJECTED" /\ a \notin crossed => ads[a] = "REJECTED"

(* Every ad that runs passed the compliance check, and was cleared: by a   *)
(* tap, by the owner's verdict on its batch, by her silence for the whole  *)
(* window, or by full autopilot, whose batches ask nobody.                 *)
LaunchedWasCleared ==
  \A a \in launched :
    /\ a \in compliant
    /\ says[a] # "none" \/ "APPROVED" \in ruled[a[1]] \/ a[1] \in due
         \/ approvals[a[1]] = "NONE"

(* When the owner has turned a batch down before the cron claimed it, her  *)
(* call stands (maintenance.py:246): none of its ads is approved except by *)
(* a tap of hers.                                                          *)
OwnersCallStands ==
  \A a \in Ad : ruled[a[1]] = {"REJECTED"} /\ a[1] \notin claimed /\ says[a] # "APPROVED"
               => ads[a] # "APPROVED_FOR_LAUNCH"

(* Under assisted autopilot an account whose owner never touches it goes   *)
(* live or shows up in the anomaly queue: it never just waits              *)
(* (maintenance.py:86), unless a process died between two commits. The one *)
(* account that does wait has Meta, but no WhatsApp connected: neither is  *)
(* it launched nor is anybody told (maintenance.py:143). Bounds aside.     *)
AutopilotMovesOn ==
  phase = "PENDING_APPROVAL" /\ level = "ASSISTED" /\ window
    ~> \/ live \/ reported
       \/ byHand > 0 \/ crashes > 0 \/ connections = {"meta"}
       \/ made = MaxBatches /\ \E j \in Job : job[j].kind = "creative"
=============================================================================
