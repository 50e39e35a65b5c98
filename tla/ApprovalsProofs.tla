--------------------------- MODULE ApprovalsProofs ---------------------------
(***************************************************************************)
(* Proofs about Approvals, for every number of sessions, of ads in a batch *)
(* and of batches, and every bound on what the owner does and on what      *)
(* fails: the type invariant, that a veto holds, that the owner's call on  *)
(* a batch stands, and that every ad that runs was cleared.                *)
(***************************************************************************)
EXTENDS Approvals, TLAPS

-----------------------------------------------------------------------------
(* The inductive invariant.                                                *)

(* Only a batch that was made has decisions, compliant ads and taps; the   *)
(* one that asks nobody gets no verdict; the cron claims overdue ones.     *)
BatchInv ==
  /\ \A b \in Batch : approvals[b] # "NONE" => b <= made
  /\ \A b \in Batch : approvals[b] = "NONE" => ruled[b] = {}
  /\ \A a \in compliant : a[1] <= made
  /\ \A a \in Ad : says[a] # "none" => a[1] <= made
  /\ claimed \subseteq due

(* By a tap, a verdict, silence for the whole window, or full autopilot.   *)
Cleared(a) ==
  \/ says[a] # "none" \/ "APPROVED" \in ruled[a[1]]
  \/ a[1] \in due \/ approvals[a[1]] = "NONE"

(* What a session that is to promote a batch, or to launch, has read.      *)
JobOK(r) ==
  /\ r.kind \in {"decide", "auto"} =>
       /\ r.batch \in Batch /\ approvals[r.batch] # "NONE"
       /\ r.seen \subseteq AdsOf(r.batch) \cap compliant
  /\ r.kind = "decide" => /\ r.verdict \in Verdict
                          /\ r.verdict = "REJECTED" => r.seen = {}
  /\ r.kind = "auto" => r.batch \in due /\ (r.at # "picked" => r.batch \in claimed)
  /\ r.at = "claimed" => r.kind = "auto"
  /\ r.kind = "launch" => \A a \in r.seen : a \in compliant /\ Cleared(a)

JobInv == \A j \in Job : JobOK(job[j])

(* No session that is to promote has read an ad as a draft that its owner  *)
(* rejected before.                                                        *)
VetoInv ==
  \A a \in Ad : says[a] = "REJECTED" /\ a \notin crossed =>
    ads[a] = "REJECTED" /\ \A j \in Job : ~Promotes(j, a)

(* How an ad comes to be approved.                                         *)
ApprovedInv ==
  \A a \in Approved : \/ says[a] = "APPROVED" \/ "APPROVED" \in ruled[a[1]]
                      \/ a[1] \in claimed \/ approvals[a[1]] = "NONE"

LaunchedInv == \A a \in launched : Cleared(a)

ApprovalsInv == TypeOK /\ BatchInv /\ JobInv /\ VetoInv /\ ApprovedInv /\ LaunchedInv

-----------------------------------------------------------------------------
(* Lemmas about the operators and about a step of one session.             *)

LEMMA AdsAreOfBatches == \A a \in Ad : a[1] \in Batch
  BY DEF Ad, Batch

LEMMA IdleIsAJob == Idle \in JobState /\ JobOK(Idle)
  BY ApprovalsAssumption DEF Idle, JobState, JobOK, Kind

LEMMA OneJobMoves ==
  ASSUME job \in [Job -> JobState], NEW j \in Job, NEW r \in JobState,
         job' = [job EXCEPT ![j] = r]
  PROVE  /\ job' \in [Job -> JobState] /\ job'[j] = r
         /\ \A k \in Job : k # j => job'[k] = job[k]
  OBVIOUS

(* A session that starts, goes on or ends, and leaves the ads, the         *)
(* decisions and the history alone: what it has read must be in order.     *)
LEMMA SessionMoves ==
  ASSUME ApprovalsInv, NEW j \in Job, NEW r \in JobState, job' = [job EXCEPT ![j] = r],
         UNCHANGED <<batchVars, history, launched>>,
         JobOK(r),
         \A a \in r.seen : r.kind \in {"decide", "auto"} => ads[a] = "DRAFT"
  PROVE  /\ job' \in [Job -> JobState]
         /\ BatchInv' /\ JobInv' /\ VetoInv' /\ ApprovedInv' /\ LaunchedInv'
  <1>0. /\ job' \in [Job -> JobState] /\ job'[j] = r
        /\ \A k \in Job : k # j => job'[k] = job[k]
    BY OneJobMoves DEF ApprovalsInv, TypeOK
  <1> USE DEF ApprovalsInv, batchVars, history
  <1>1. BatchInv'  BY DEF BatchInv
  <1>2. JobInv'
    <2>1. JobOK(job[j])'
      BY <1>0 DEF JobOK, Cleared
    <2>2. ASSUME NEW k \in Job, k # j  PROVE JobOK(job[k])'
      BY <1>0, <2>2 DEF JobInv, JobOK, Cleared
    <2> QED  BY <2>1, <2>2 DEF JobInv
  <1>3. VetoInv'
    <2> SUFFICES ASSUME NEW a \in Ad, says[a] = "REJECTED", a \notin crossed
                 PROVE  ads[a] = "REJECTED" /\ \A k \in Job : ~Promotes(k, a)'
      BY DEF VetoInv
    <2>1. ads[a] = "REJECTED" /\ \A k \in Job : ~Promotes(k, a)
      BY DEF VetoInv
    <2> QED  BY <1>0, <2>1 DEF Promotes
  <1>4. ApprovedInv'  BY DEF ApprovedInv, Approved
  <1>5. LaunchedInv'  BY DEF LaunchedInv, Cleared
  <1> QED  BY <1>0, <1>1, <1>2, <1>3, <1>4, <1>5

(* The same for a session that ends.                                       *)
LEMMA SessionEnds ==
  ASSUME ApprovalsInv, NEW j \in Job, Leave(j), UNCHANGED <<batchVars, history, launched>>
  PROVE  /\ job' \in [Job -> JobState]
         /\ BatchInv' /\ JobInv' /\ VetoInv' /\ ApprovedInv' /\ LaunchedInv'
  <1>1. \A a \in Idle.seen : Idle.kind \in {"decide", "auto"} => ads[a] = "DRAFT"
    BY DEF Idle
  <1> HIDE DEF Idle
  <1> QED  BY <1>1, IdleIsAJob, SessionMoves DEF Leave

(* What has been read and cleared stays so while decisions are only added. *)
LEMMA ClearedStays ==
  ASSUME ApprovalsInv, NEW a \in Ad, a[1] <= made, Cleared(a),
         says[a] # "none" => says'[a] # "none",
         ruled[a[1]] \subseteq ruled'[a[1]], due \subseteq due',
         approvals[a[1]] = "NONE" => approvals'[a[1]] = "NONE"
  PROVE  Cleared(a)'
  BY DEF Cleared

(* The ads a promotion may change are those its session has read.          *)
LEMMA PromotionChanges ==
  ASSUME ApprovalsInv, NEW j \in Job, job[j].kind \in {"decide", "auto"}, ads' = Promote(j)
  PROVE  /\ ads' \in [Ad -> AdStatus]
         /\ \A a \in Ad : ads'[a] = "NONE" <=> ads[a] = "NONE"
         /\ \A a \in Ad : a \in job[j].seen => a[1] = job[j].batch
         /\ \A a \in Ad : a \notin job[j].seen => ads'[a] = ads[a]
  <1>1. \A a \in Ad : ads'[a] = IF a \in job[j].seen THEN "APPROVED_FOR_LAUNCH" ELSE ads[a]
    BY DEF Promote
  <1>2. \A a \in Ad : a \in job[j].seen => a[1] = job[j].batch /\ a \in compliant
    BY DEF ApprovalsInv, JobInv, JobOK, AdsOf
  <1>3. \A a \in compliant : ads[a] # "NONE"
    BY AdsAreOfBatches DEF ApprovalsInv, TypeOK, BatchInv, Batch
  <1>4. ads' \in [Ad -> AdStatus]
    BY DEF Promote, ApprovalsInv, TypeOK, AdStatus
  <1> QED  BY <1>1, <1>2, <1>3, <1>4

LEMMA PhaseMoves ==
  ASSUME ApprovalsInv, NEW j \in Job
  PROVE  /\ PhaseAfterPromotion(j) \in Phase
         /\ \A new \in Phase : Written(j, new) \in Phase
  BY DEF ApprovalsInv, TypeOK, PhaseAfterPromotion, Written, Phase

LEMMA InitApprovals == Init => ApprovalsInv
  <1> SUFFICES ASSUME Init  PROVE ApprovalsInv
    OBVIOUS
  <1> USE ApprovalsAssumption DEF Init
  <1>1. job \in [Job -> JobState] /\ JobInv
    BY IdleIsAJob DEF JobInv
  <1>2. window \in BOOLEAN /\ live \in BOOLEAN /\ reported \in BOOLEAN
    BY Zenon
  <1>3. \A a \in Ad : ads[a] = "NONE" /\ a[1] > made
    BY AdsAreOfBatches DEF Batch
  <1>4. TypeOK  BY <1>1, <1>2, <1>3 DEF TypeOK, AdStatus, ApprovalStatus
  <1>5. BatchInv  BY DEF BatchInv
  <1>6. VetoInv  BY DEF VetoInv
  <1>7. ApprovedInv  BY DEF ApprovedInv, Approved
  <1>8. LaunchedInv  BY DEF LaunchedInv
  <1> QED  BY <1>1, <1>4, <1>5, <1>6, <1>7, <1>8 DEF ApprovalsInv

-----------------------------------------------------------------------------
(* Each step keeps the invariant.                                          *)

LEMMA ProgressApprovals ==
  ASSUME ApprovalsInv, NEW j \in Job, Progress(j)
  PROVE  ApprovalsInv'
  <1> USE ApprovalsAssumption DEF Progress, account, batchVars, launchVars, bounds, history,
                                  PhaseCallsFor
  <1> DEFINE r == [Idle EXCEPT !.at = "picked", !.kind = PhaseCallsFor, !.cron = TRUE, !.born = made]
  <1>1. r \in JobState  BY DEF ApprovalsInv, TypeOK, JobState, Idle, Kind
  <1>2. JobOK(r) /\ \A a \in r.seen : r.kind \in {"decide", "auto"} => ads[a] = "DRAFT"
    BY DEF JobOK, Idle
  <1>3. job' = [job EXCEPT ![j] = r]  OBVIOUS
  <1> HIDE DEF r
  <1>4. /\ job' \in [Job -> JobState]
        /\ BatchInv' /\ JobInv' /\ VetoInv' /\ ApprovedInv' /\ LaunchedInv'
    BY <1>1, <1>2, <1>3, SessionMoves
  <1>5. TypeOK'  BY <1>4 DEF ApprovalsInv, TypeOK
  <1> QED  BY <1>4, <1>5 DEF ApprovalsInv

LEMMA RunByHandApprovals ==
  ASSUME ApprovalsInv, NEW j \in Job, NEW kind \in {"research", "creative", "launch"}, RunByHand(j, kind)
  PROVE  ApprovalsInv'
  <1> USE ApprovalsAssumption DEF RunByHand, account, batchVars, launchVars, bounds, history
  <1> DEFINE r == [Idle EXCEPT !.at = "picked", !.kind = kind, !.born = made]
  <1>1. r \in JobState  BY DEF ApprovalsInv, TypeOK, JobState, Idle, Kind
  <1>2. JobOK(r) /\ \A a \in r.seen : r.kind \in {"decide", "auto"} => ads[a] = "DRAFT"
    BY DEF JobOK, Idle
  <1>3. job' = [job EXCEPT ![j] = r]  OBVIOUS
  <1> HIDE DEF r
  <1>4. /\ job' \in [Job -> JobState]
        /\ BatchInv' /\ JobInv' /\ VetoInv' /\ ApprovedInv' /\ LaunchedInv'
    BY <1>1, <1>2, <1>3, SessionMoves
  <1>5. TypeOK'  BY <1>4 DEF ApprovalsInv, TypeOK
  <1> QED  BY <1>4, <1>5 DEF ApprovalsInv

LEMMA LoadApprovals ==
  ASSUME ApprovalsInv, NEW j \in Job, Load(j)
  PROVE  ApprovalsInv'
  <1> USE ApprovalsAssumption DEF Load, account, batchVars, launchVars, bounds, history
  <1> DEFINE r == [job[j] EXCEPT !.at = "working", !.phase = phase, !.level = level]
  <1>0. job[j] \in JobState /\ phase \in Phase /\ level \in Level  BY DEF ApprovalsInv, TypeOK
  <1>1. r \in JobState  BY <1>0 DEF JobState
  <1>2. JobOK(r) /\ \A a \in r.seen : r.kind \in {"decide", "auto"} => ads[a] = "DRAFT"
    BY DEF ApprovalsInv, TypeOK, JobInv, JobOK, JobState
  <1>3. job' = [job EXCEPT ![j] = r]  OBVIOUS
  <1> HIDE DEF r
  <1>4. /\ job' \in [Job -> JobState]
        /\ BatchInv' /\ JobInv' /\ VetoInv' /\ ApprovedInv' /\ LaunchedInv'
    BY <1>1, <1>2, <1>3, SessionMoves
  <1>5. TypeOK'  BY <1>4 DEF ApprovalsInv, TypeOK
  <1> QED  BY <1>4, <1>5 DEF ApprovalsInv

LEMMA DecideApprovals ==
  ASSUME ApprovalsInv, NEW j \in Job, NEW b \in Batch, NEW verdict \in Verdict, Decide(j, b, verdict)
  PROVE  ApprovalsInv'
  <1> USE ApprovalsAssumption DEF Decide, account, batchVars, launchVars, bounds, history
  <1> DEFINE r == [Idle EXCEPT !.at = "working", !.kind = "decide", !.batch = b, !.verdict = verdict,
                             !.phase = phase, !.born = made,
                             !.seen = IF verdict = "APPROVED" THEN Promotable(b) ELSE {}]
  <1>1. r \in JobState  BY DEF ApprovalsInv, TypeOK, JobState, Idle, Kind, Promotable, AdsOf
  <1>2. JobOK(r) /\ \A a \in r.seen : r.kind \in {"decide", "auto"} => ads[a] = "DRAFT"
    BY DEF JobOK, Idle, Promotable, Verdict
  <1>3. job' = [job EXCEPT ![j] = r]  OBVIOUS
  <1> HIDE DEF r
  <1>4. /\ job' \in [Job -> JobState]
        /\ BatchInv' /\ JobInv' /\ VetoInv' /\ ApprovedInv' /\ LaunchedInv'
    BY <1>1, <1>2, <1>3, SessionMoves
  <1>5. TypeOK'  BY <1>4 DEF ApprovalsInv, TypeOK
  <1> QED  BY <1>4, <1>5 DEF ApprovalsInv

LEMMA SelectOverdueApprovals ==
  ASSUME ApprovalsInv, NEW j \in Job, NEW b \in Batch, SelectOverdue(j, b)
  PROVE  ApprovalsInv'
  <1> USE ApprovalsAssumption DEF SelectOverdue, account, batchVars, launchVars, bounds, history
  <1> DEFINE r == [Idle EXCEPT !.at = "picked", !.kind = "auto", !.batch = b, !.cron = TRUE, !.born = made]
  <1>1. r \in JobState  BY DEF ApprovalsInv, TypeOK, JobState, Idle, Kind
  <1>2. JobOK(r) /\ \A a \in r.seen : r.kind \in {"decide", "auto"} => ads[a] = "DRAFT"
    BY DEF JobOK, Idle, Overdue
  <1>3. job' = [job EXCEPT ![j] = r]  OBVIOUS
  <1> HIDE DEF r
  <1>4. /\ job' \in [Job -> JobState]
        /\ BatchInv' /\ JobInv' /\ VetoInv' /\ ApprovedInv' /\ LaunchedInv'
    BY <1>1, <1>2, <1>3, SessionMoves
  <1>5. TypeOK'  BY <1>4 DEF ApprovalsInv, TypeOK
  <1> QED  BY <1>4, <1>5 DEF ApprovalsInv

LEMMA ReadBatchApprovals ==
  ASSUME ApprovalsInv, NEW j \in Job, ReadBatch(j)
  PROVE  ApprovalsInv'
  <1> USE ApprovalsAssumption DEF account, batchVars, launchVars, bounds, history
  <1> DEFINE b == job[j].batch
             loaded == [job[j] EXCEPT !.at = "working", !.phase = phase, !.level = level]
             reads == [loaded EXCEPT !.seen = Promotable(b)]
             makes == [loaded EXCEPT !.kind = "creative"]
  <1>1. /\ \/ job' = [job EXCEPT ![j] = reads] /\ UNCHANGED reported
           \/ job' = [job EXCEPT ![j] = makes] /\ UNCHANGED reported
           \/ Leave(j) /\ reported' = TRUE
        /\ job[j].at = "claimed"
        /\ UNCHANGED <<account, batchVars, live, launched, bounds, history>>
    BY DEF ReadBatch
  <1>2. /\ job[j] \in JobState /\ job[j].kind = "auto" /\ b \in Batch /\ approvals[b] # "NONE"
        /\ b \in due /\ b \in claimed
    BY <1>1 DEF ApprovalsInv, TypeOK, JobInv, JobOK
  <1>3. reads \in JobState /\ makes \in JobState
    BY <1>2 DEF ApprovalsInv, TypeOK, JobState, Kind, Promotable, AdsOf
  <1>4. JobOK(reads) /\ \A a \in reads.seen : ads[a] = "DRAFT"
    BY <1>2 DEF JobState, JobOK, Promotable
  <1>5. JobOK(makes) /\ makes.kind = "creative"
    BY <1>2 DEF JobState, JobOK
  <1> HIDE DEF reads, makes
  <1>6. /\ job' \in [Job -> JobState]
        /\ BatchInv' /\ JobInv' /\ VetoInv' /\ ApprovedInv' /\ LaunchedInv'
    BY <1>1, <1>3, <1>4, <1>5, SessionMoves, SessionEnds
  <1>7. reported' \in BOOLEAN
    BY <1>1, Zenon DEF ApprovalsInv, TypeOK
  <1>8. TypeOK'  BY <1>1, <1>6, <1>7 DEF ApprovalsInv, TypeOK
  <1> QED  BY <1>6, <1>8 DEF ApprovalsInv

LEMMA BeginLaunchApprovals ==
  ASSUME ApprovalsInv, NEW j \in Job, BeginLaunch(j)
  PROVE  ApprovalsInv'
  <1> USE ApprovalsAssumption DEF account, batchVars, launchVars, bounds, history
  <1> DEFINE r == [job[j] EXCEPT !.at = "working", !.phase = phase, !.seen = Launchable]
  <1>1. /\ job[j].kind = "launch" /\ reported' \in BOOLEAN
        /\ job' = [job EXCEPT ![j] = r] \/ Leave(j)
        /\ UNCHANGED <<account, batchVars, live, launched, bounds, history>>
    BY DEF BeginLaunch, ApprovalsInv, TypeOK
  <1>2. job[j] \in JobState
    BY DEF ApprovalsInv, TypeOK
  <1>3. r \in JobState /\ r.kind = "launch" /\ r.seen = Launchable /\ r.at = "working"
    BY <1>1, <1>2 DEF ApprovalsInv, TypeOK, JobState, Launchable, Approved
  <1>4. \A a \in Launchable : a \in compliant /\ Cleared(a)
    BY DEF ApprovalsInv, BatchInv, ApprovedInv, Launchable, Cleared
  <1> HIDE DEF r
  <1>5. JobOK(r)
    BY <1>3, <1>4 DEF JobOK
  <1>6. /\ job' \in [Job -> JobState]
        /\ BatchInv' /\ JobInv' /\ VetoInv' /\ ApprovedInv' /\ LaunchedInv'
    BY <1>1, <1>3, <1>5, SessionMoves, SessionEnds
  <1>7. TypeOK'  BY <1>1, <1>6 DEF ApprovalsInv, TypeOK
  <1> QED  BY <1>6, <1>7 DEF ApprovalsInv

LEMMA CommitResearchApprovals ==
  ASSUME ApprovalsInv, NEW j \in Job, CommitResearch(j)
  PROVE  ApprovalsInv'
  <1> USE ApprovalsAssumption DEF CommitResearch, account, batchVars, launchVars, bounds, history
  <1>1. /\ job' \in [Job -> JobState]
        /\ BatchInv' /\ JobInv' /\ VetoInv' /\ ApprovedInv' /\ LaunchedInv'
    BY SessionEnds
  <1>2. TypeOK'  BY <1>1, PhaseMoves DEF ApprovalsInv, TypeOK, Phase
  <1> QED  BY <1>1, <1>2 DEF ApprovalsInv

LEMMA SkipLaunchApprovals ==
  ASSUME ApprovalsInv, NEW j \in Job, SkipLaunch(j)
  PROVE  ApprovalsInv'
  <1> USE ApprovalsAssumption DEF SkipLaunch, account, batchVars, launchVars, bounds, history
  <1>1. /\ job' \in [Job -> JobState]
        /\ BatchInv' /\ JobInv' /\ VetoInv' /\ ApprovedInv' /\ LaunchedInv'
    BY SessionEnds
  <1>2. TypeOK'  BY <1>1 DEF ApprovalsInv, TypeOK
  <1> QED  BY <1>1, <1>2 DEF ApprovalsInv

LEMMA FailApprovals ==
  ASSUME ApprovalsInv, NEW j \in Job, Fail(j)
  PROVE  ApprovalsInv'
  <1> USE ApprovalsAssumption DEF Fail, account, batchVars, launchVars, bounds, history
  <1>1. /\ job' \in [Job -> JobState]
        /\ BatchInv' /\ JobInv' /\ VetoInv' /\ ApprovedInv' /\ LaunchedInv'
    BY SessionEnds
  <1>2. TypeOK'  BY <1>1 DEF ApprovalsInv, TypeOK
  <1> QED  BY <1>1, <1>2 DEF ApprovalsInv

LEMMA CrashApprovals ==
  ASSUME ApprovalsInv, NEW j \in Job, Crash(j)
  PROVE  ApprovalsInv'
  <1> USE ApprovalsAssumption DEF Crash, account, batchVars, launchVars, bounds, history
  <1>1. /\ job' \in [Job -> JobState]
        /\ BatchInv' /\ JobInv' /\ VetoInv' /\ ApprovedInv' /\ LaunchedInv'
    BY SessionEnds
  <1>2. TypeOK'  BY <1>1 DEF ApprovalsInv, TypeOK
  <1> QED  BY <1>1, <1>2 DEF ApprovalsInv

LEMMA CommitLaunchApprovals ==
  ASSUME ApprovalsInv, NEW j \in Job, CommitLaunch(j)
  PROVE  ApprovalsInv'
  <1> USE ApprovalsAssumption DEF CommitLaunch, account, batchVars, launchVars, bounds, history
  <1>0. /\ job' = [job EXCEPT ![j] = Idle] /\ job' \in [Job -> JobState] /\ job'[j] = Idle
        /\ \A k \in Job : k # j => job'[k] = job[k]
    BY IdleIsAJob, OneJobMoves DEF Leave, ApprovalsInv, TypeOK
  <1>1. \A a \in job[j].seen : a \in compliant /\ Cleared(a)
    BY DEF ApprovalsInv, JobInv, JobOK
  <1>2. phase' \in Phase /\ live' \in BOOLEAN
    BY PhaseMoves, Zenon DEF Phase
  <1>3. TypeOK'  BY <1>0, <1>1, <1>2 DEF ApprovalsInv, TypeOK
  <1>4. BatchInv'  BY DEF ApprovalsInv, BatchInv
  <1>5. JobInv'
    <2>1. JobOK(job[j])'
      BY <1>0 DEF JobOK, Idle
    <2>2. ASSUME NEW k \in Job, k # j  PROVE JobOK(job[k])'
      BY <1>0, <2>2 DEF ApprovalsInv, JobInv, JobOK, Cleared
    <2> QED  BY <2>1, <2>2 DEF JobInv
  <1>6. VetoInv'
    <2>1. \A k \in Job, a \in Ad : Promotes(k, a)' => Promotes(k, a)
      BY <1>0 DEF Promotes, Idle
    <2> QED  BY <2>1 DEF ApprovalsInv, VetoInv
  <1>7. ApprovedInv'  BY DEF ApprovalsInv, ApprovedInv, Approved
  <1>8. LaunchedInv'  BY <1>1 DEF ApprovalsInv, LaunchedInv, Cleared
  <1> QED  BY <1>3, <1>4, <1>5, <1>6, <1>7, <1>8 DEF ApprovalsInv

(* Whatever only adds to the decisions keeps what a session has read.      *)
LEMMA JobsStay ==
  ASSUME ApprovalsInv, NEW k \in Job, job'[k] = job[k],
         compliant \subseteq compliant', due \subseteq due', claimed \subseteq claimed',
         \A b \in Batch : approvals[b] # "NONE" => approvals'[b] # "NONE",
         \A a \in compliant : Cleared(a) => Cleared(a)'
  PROVE  JobOK(job[k])'
  <1>1. JobOK(job[k])
    BY DEF ApprovalsInv, JobInv
  <1>2. (\A a \in job[k].seen : a \in compliant /\ Cleared(a))
          => \A a \in job[k].seen : a \in compliant' /\ Cleared(a)'
    OBVIOUS
  <1> QED  BY <1>1, <1>2 DEF JobOK, AdsOf

LEMMA AutopilotApprovals ==
  ASSUME ApprovalsInv, NEW l \in Level, NEW w \in BOOLEAN, SetAutopilot(l, w)
  PROVE  ApprovalsInv'
  <1> USE ApprovalsAssumption DEF SetAutopilot, batchVars, launchVars, history
  <1>1. TypeOK'  BY DEF ApprovalsInv, TypeOK
  <1>2. JobInv'  BY DEF ApprovalsInv, JobInv, JobOK, Cleared
  <1>3. BatchInv' /\ ApprovedInv' /\ LaunchedInv'
    BY DEF ApprovalsInv, BatchInv, ApprovedInv, Approved, LaunchedInv, Cleared
  <1>4. VetoInv'  BY DEF ApprovalsInv, VetoInv, Promotes
  <1> QED  BY <1>1, <1>2, <1>3, <1>4 DEF ApprovalsInv

LEMMA ConnectApprovals ==
  ASSUME ApprovalsInv, NEW c \in Connection, Connect(c)
  PROVE  ApprovalsInv'
  <1> USE ApprovalsAssumption DEF Connect, batchVars, launchVars, bounds, history
  <1>1. TypeOK'  BY DEF ApprovalsInv, TypeOK
  <1>2. JobInv'  BY DEF ApprovalsInv, JobInv, JobOK, Cleared
  <1>3. BatchInv' /\ ApprovedInv' /\ LaunchedInv'
    BY DEF ApprovalsInv, BatchInv, ApprovedInv, Approved, LaunchedInv, Cleared
  <1>4. VetoInv'  BY DEF ApprovalsInv, VetoInv, Promotes
  <1> QED  BY <1>1, <1>2, <1>3, <1>4 DEF ApprovalsInv

LEMMA WindowElapsesApprovals ==
  ASSUME ApprovalsInv, NEW b \in Batch, WindowElapses(b)
  PROVE  ApprovalsInv'
  <1> USE ApprovalsAssumption DEF WindowElapses, account, launchVars, bounds, history
  <1>1. b \in 1..made /\ due \subseteq due'
    BY DEF ApprovalsInv, BatchInv, TypeOK, Batch
  <1>2. \A a \in Ad : Cleared(a) => Cleared(a)'
    BY <1>1 DEF Cleared
  <1>3. compliant \subseteq Ad
    BY DEF ApprovalsInv, TypeOK
  <1>4. TypeOK'  BY <1>1 DEF ApprovalsInv, TypeOK
  <1>5. BatchInv'  BY <1>1 DEF ApprovalsInv, BatchInv
  <1>6. JobInv'  BY <1>1, <1>2, <1>3, JobsStay DEF JobInv
  <1>7. VetoInv'  BY DEF ApprovalsInv, VetoInv, Promotes
  <1>8. ApprovedInv'  BY DEF ApprovalsInv, ApprovedInv, Approved
  <1>9. LaunchedInv'  BY <1>2, <1>3 DEF ApprovalsInv, LaunchedInv, TypeOK
  <1> QED  BY <1>4, <1>5, <1>6, <1>7, <1>8, <1>9 DEF ApprovalsInv

LEMMA TapApprovals ==
  ASSUME ApprovalsInv, NEW t \in Ad, NEW verdict \in Verdict, Tap(t, verdict)
  PROVE  ApprovalsInv'
  <1> USE ApprovalsAssumption DEF Tap, account, launchVars
  <1>1. /\ ads' \in [Ad -> AdStatus] /\ says' \in [Ad -> Verdict \cup {"none"}]
        /\ ads[t] # "NONE" /\ ads'[t] # "NONE" /\ says'[t] = verdict
        /\ \A a \in Ad : a # t => ads'[a] = ads[a] /\ says'[a] = says[a]
    BY DEF ApprovalsInv, TypeOK, Verdict, AdStatus
  <1>2. \A a \in Ad : Cleared(a) => Cleared(a)'
    BY <1>1 DEF Cleared, Verdict
  <1>3. compliant \subseteq Ad
    BY DEF ApprovalsInv, TypeOK
  <1>4. t[1] <= made
    BY <1>1, AdsAreOfBatches DEF ApprovalsInv, TypeOK, Batch
  <1>5. crossed' \in SUBSET Ad
    BY DEF ApprovalsInv, TypeOK
  <1>6. TypeOK'  BY <1>1, <1>5 DEF ApprovalsInv, TypeOK
  <1>7. BatchInv'  BY <1>1, <1>4 DEF ApprovalsInv, BatchInv
  <1>8. JobInv'  BY <1>2, <1>3, JobsStay DEF JobInv
  <1>9. VetoInv'
    <2> SUFFICES ASSUME NEW a \in Ad, says'[a] = "REJECTED", a \notin crossed'
                 PROVE  ads'[a] = "REJECTED" /\ \A j \in Job : ~Promotes(j, a)'
      BY DEF VetoInv
    <2>1. \A j \in Job : Promotes(j, a)' <=> Promotes(j, a)
      BY DEF Promotes
    <2>2. CASE a = t
      <3>1. verdict = "REJECTED" /\ ads'[t] = "REJECTED"
        BY <1>1, <2>2 DEF ApprovalsInv, TypeOK
      <3>2. \A j \in Job : ~Promotes(j, t)
        BY <2>2, <3>1
      <3> QED  BY <2>1, <2>2, <3>1, <3>2
    <2>3. CASE a # t
      BY <1>1, <2>1, <2>3 DEF ApprovalsInv, VetoInv
    <2> QED  BY <2>2, <2>3
  <1>10. ApprovedInv'
    <2>1. ads'[t] = "APPROVED_FOR_LAUNCH" => says'[t] = "APPROVED"
      BY <1>1 DEF ApprovalsInv, TypeOK, Verdict
    <2> QED  BY <1>1, <2>1 DEF ApprovalsInv, ApprovedInv, Approved
  <1>11. LaunchedInv'  BY <1>2, <1>3 DEF ApprovalsInv, LaunchedInv, TypeOK
  <1> QED  BY <1>6, <1>7, <1>8, <1>9, <1>10, <1>11 DEF ApprovalsInv

LEMMA ClaimBatchApprovals ==
  ASSUME ApprovalsInv, NEW j \in Job, ClaimBatch(j)
  PROVE  ApprovalsInv'
  <1> DEFINE b == job[j].batch
             r == [job[j] EXCEPT !.at = "claimed"]
  <1> USE ApprovalsAssumption DEF account, launchVars, bounds
  <1>1. CASE approvals[b] # "PENDING"
    <2>1. /\ Leave(j) /\ UNCHANGED <<approvals, claimed>>
          /\ UNCHANGED <<account, made, ads, compliant, due, launchVars, bounds, says, ruled, crossed>>
      BY <1>1 DEF ClaimBatch
    <2>2. /\ job' \in [Job -> JobState]
          /\ BatchInv' /\ JobInv' /\ VetoInv' /\ ApprovedInv' /\ LaunchedInv'
      BY <2>1, SessionEnds DEF batchVars, history
    <2>3. TypeOK'  BY <2>1, <2>2 DEF ApprovalsInv, TypeOK
    <2> QED  BY <2>2, <2>3 DEF ApprovalsInv
  <1>2. CASE approvals[b] = "PENDING"
    <2>1. /\ approvals' = [approvals EXCEPT ![b] = "APPROVED"] /\ claimed' = claimed \cup {b}
          /\ job' = [job EXCEPT ![j] = r]
          /\ UNCHANGED <<account, made, ads, compliant, due, launchVars, bounds, says, ruled, crossed>>
      BY <1>2 DEF ClaimBatch
    <2>2. /\ job[j] \in JobState /\ job[j].kind = "auto" /\ job[j].at = "picked"
          /\ b \in Batch /\ b \in due /\ r \in JobState /\ JobOK(job[j])
      BY DEF ClaimBatch, ApprovalsInv, TypeOK, JobInv, JobOK, JobState
    <2>3. /\ r.kind = "auto" /\ r.at = "claimed" /\ r.batch = b /\ r.seen = job[j].seen
      BY <2>2 DEF JobState
    <2> HIDE DEF r
    <2>4. /\ job' \in [Job -> JobState] /\ job'[j] = r
          /\ \A k \in Job : k # j => job'[k] = job[k]
      BY <2>1, <2>2, OneJobMoves DEF ApprovalsInv, TypeOK
    <2>5. \A x \in Batch : (approvals'[x] # "NONE" <=> approvals[x] # "NONE")
      BY <1>2, <2>1, <2>2 DEF ApprovalsInv, TypeOK
    <2>6. \A a \in Ad : Cleared(a) => Cleared(a)'
      BY <2>1, <2>5, AdsAreOfBatches DEF Cleared
    <2>7. compliant \subseteq Ad
      BY DEF ApprovalsInv, TypeOK
    <2>8. TypeOK'  BY <2>1, <2>2, <2>4 DEF ApprovalsInv, TypeOK, ApprovalStatus, Verdict
    <2>9. BatchInv'  BY <2>1, <2>2, <2>5 DEF ApprovalsInv, BatchInv
    <2>10. JobInv'
      <3>1. JobOK(job[j])'
        BY <2>1, <2>2, <2>3, <2>4, <2>5 DEF JobOK, AdsOf
      <3>2. \A k \in Job : k # j => JobOK(job[k])'
        BY <2>1, <2>4, <2>5, <2>6, <2>7, JobsStay
      <3> QED  BY <3>1, <3>2 DEF JobInv
    <2>11. VetoInv'
      <3>1. \A k \in Job, a \in Ad : Promotes(k, a)' => Promotes(k, a)
        BY <2>2, <2>3, <2>4 DEF Promotes
      <3> QED  BY <2>1, <3>1 DEF ApprovalsInv, VetoInv
    <2>12. ApprovedInv'
      BY <2>1, <2>5, AdsAreOfBatches DEF ApprovalsInv, ApprovedInv, Approved
    <2>13. LaunchedInv'  BY <2>1, <2>6, <2>7 DEF ApprovalsInv, LaunchedInv, TypeOK
    <2> QED  BY <2>8, <2>9, <2>10, <2>11, <2>12, <2>13 DEF ApprovalsInv
  <1> QED  BY <1>1, <1>2

LEMMA CommitDecisionApprovals ==
  ASSUME ApprovalsInv, NEW j \in Job, CommitDecision(j)
  PROVE  ApprovalsInv'
  <1> DEFINE b == job[j].batch
             v == job[j].verdict
  <1> USE ApprovalsAssumption DEF launchVars, bounds
  <1>1. /\ approvals' = [approvals EXCEPT ![b] = v] /\ ruled' = [ruled EXCEPT ![b] = @ \cup {v}]
        /\ ads' = Promote(j) /\ phase' = PhaseAfterPromotion(j)
        /\ job[j].kind = "decide" /\ Leave(j)
        /\ UNCHANGED <<level, window, connections, made, compliant, due, launchVars, bounds, says,
                       claimed, crossed>>
    BY DEF CommitDecision
  <1>2. /\ b \in Batch /\ v \in Verdict /\ approvals[b] # "NONE"
        /\ v = "REJECTED" => job[j].seen = {}
    BY <1>1 DEF ApprovalsInv, JobInv, JobOK
  <1>3. /\ ads' \in [Ad -> AdStatus]
        /\ \A a \in Ad : ads'[a] = "NONE" <=> ads[a] = "NONE"
        /\ \A a \in Ad : a \in job[j].seen => a[1] = b
        /\ \A a \in Ad : a \notin job[j].seen => ads'[a] = ads[a]
    BY <1>1, PromotionChanges
  <1>4. /\ job' \in [Job -> JobState] /\ job'[j] = Idle
        /\ \A k \in Job : k # j => job'[k] = job[k]
    BY <1>1, IdleIsAJob, OneJobMoves DEF Leave, ApprovalsInv, TypeOK
  <1> HIDE DEF b, v
  <1>5. /\ \A x \in Batch : approvals'[x] # "NONE" <=> approvals[x] # "NONE"
        /\ \A x \in Batch : ruled[x] \subseteq ruled'[x]
        /\ v \in ruled'[b] /\ \A x \in Batch : x # b => ruled'[x] = ruled[x]
    BY <1>1, <1>2 DEF ApprovalsInv, TypeOK, Verdict
  <1>6. \A a \in Ad : Cleared(a) => Cleared(a)'
    BY <1>1, <1>5, AdsAreOfBatches DEF Cleared
  <1>7. compliant \subseteq Ad /\ phase' \in Phase
    BY <1>1, PhaseMoves DEF ApprovalsInv, TypeOK
  <1>8. TypeOK'
    <2>1. approvals' \in [Batch -> ApprovalStatus] /\ ruled' \in [Batch -> SUBSET Verdict]
      BY <1>1, <1>2 DEF ApprovalsInv, TypeOK, ApprovalStatus
    <2> QED  BY <1>1, <1>3, <1>4, <1>7, <2>1 DEF ApprovalsInv, TypeOK
  <1>9. BatchInv'  BY <1>1, <1>2, <1>5 DEF ApprovalsInv, BatchInv
  <1>10. JobInv'
    <2>1. JobOK(job[j])'
      BY <1>4 DEF JobOK, Idle
    <2>2. \A k \in Job : k # j => JobOK(job[k])'
      BY <1>1, <1>4, <1>5, <1>6, <1>7, JobsStay
    <2> QED  BY <2>1, <2>2 DEF JobInv
  <1>11. VetoInv'
    <2>1. \A k \in Job, a \in Ad : Promotes(k, a)' => Promotes(k, a)
      BY <1>4 DEF Promotes, Idle
    <2>2. \A a \in Ad : a \in job[j].seen => Promotes(j, a)
      BY <1>1 DEF Promotes
    <2> QED  BY <1>1, <1>3, <2>1, <2>2 DEF ApprovalsInv, VetoInv
  <1>12. ApprovedInv'
    <2>1. \A a \in Ad : a \in job[j].seen => "APPROVED" \in ruled'[a[1]]
      BY <1>2, <1>3, <1>5 DEF Verdict
    <2> QED  BY <1>1, <1>3, <1>5, <2>1, AdsAreOfBatches DEF ApprovalsInv, ApprovedInv, Approved
  <1>13. LaunchedInv'  BY <1>1, <1>6, <1>7 DEF ApprovalsInv, LaunchedInv, TypeOK
  <1> QED  BY <1>8, <1>9, <1>10, <1>11, <1>12, <1>13 DEF ApprovalsInv

LEMMA CommitPromotionApprovals ==
  ASSUME ApprovalsInv, NEW j \in Job, CommitPromotion(j)
  PROVE  ApprovalsInv'
  <1> DEFINE b == job[j].batch
  <1> USE ApprovalsAssumption DEF launchVars, bounds, history
  <1>1. /\ ads' = Promote(j) /\ phase' = PhaseAfterPromotion(j)
        /\ job[j].kind = "auto" /\ job[j].at = "working" /\ Leave(j)
        /\ UNCHANGED <<level, window, connections, made, compliant, approvals, due, launchVars,
                       bounds, history>>
    BY DEF CommitPromotion
  <1>2. b \in Batch /\ b \in claimed
    BY <1>1 DEF ApprovalsInv, JobInv, JobOK
  <1>3. /\ ads' \in [Ad -> AdStatus]
        /\ \A a \in Ad : ads'[a] = "NONE" <=> ads[a] = "NONE"
        /\ \A a \in Ad : a \in job[j].seen => a[1] = b
        /\ \A a \in Ad : a \notin job[j].seen => ads'[a] = ads[a]
    BY <1>1, PromotionChanges
  <1>4. /\ job' \in [Job -> JobState] /\ job'[j] = Idle
        /\ \A k \in Job : k # j => job'[k] = job[k]
    BY <1>1, IdleIsAJob, OneJobMoves DEF Leave, ApprovalsInv, TypeOK
  <1> HIDE DEF b
  <1>6. \A a \in Ad : Cleared(a) => Cleared(a)'
    BY <1>1 DEF Cleared
  <1>7. compliant \subseteq Ad /\ phase' \in Phase
    BY <1>1, PhaseMoves DEF ApprovalsInv, TypeOK
  <1>8. TypeOK'  BY <1>1, <1>3, <1>4, <1>7 DEF ApprovalsInv, TypeOK
  <1>9. BatchInv'  BY <1>1 DEF ApprovalsInv, BatchInv
  <1>10. JobInv'
    <2>1. JobOK(job[j])'
      BY <1>4 DEF JobOK, Idle
    <2>2. \A k \in Job : k # j => JobOK(job[k])'
      BY <1>1, <1>4, <1>6, <1>7, JobsStay
    <2> QED  BY <2>1, <2>2 DEF JobInv
  <1>11. VetoInv'
    <2>1. \A k \in Job, a \in Ad : Promotes(k, a)' => Promotes(k, a)
      BY <1>4 DEF Promotes, Idle
    <2>2. \A a \in Ad : a \in job[j].seen => Promotes(j, a)
      BY <1>1 DEF Promotes
    <2> QED  BY <1>1, <1>3, <2>1, <2>2 DEF ApprovalsInv, VetoInv
  <1>12. ApprovedInv'
    BY <1>1, <1>2, <1>3 DEF ApprovalsInv, ApprovedInv, Approved
  <1>13. LaunchedInv'  BY <1>1, <1>6, <1>7 DEF ApprovalsInv, LaunchedInv, TypeOK
  <1> QED  BY <1>8, <1>9, <1>10, <1>11, <1>12, <1>13 DEF ApprovalsInv

LEMMA CommitCreativeApprovals ==
  ASSUME ApprovalsInv, NEW j \in Job, CommitCreative(j)
  PROVE  ApprovalsInv'
  <1> DEFINE b == made + 1
             full == job[j].level = "FULL"
  <1> USE ApprovalsAssumption DEF launchVars, bounds, history
  <1>1. PICK passed \in SUBSET AdsOf(b) :
          compliant' = compliant \cup passed /\ ads' = NewAds(b, passed, full)
    BY DEF CommitCreative
  <1>2. /\ made < MaxBatches /\ made' = b
        /\ approvals' = [approvals EXCEPT ![b] = IF full THEN "NONE" ELSE "PENDING"]
        /\ phase' = Written(j, IF full THEN "CREATIVE_GENERATED" ELSE "PENDING_APPROVAL")
        /\ Leave(j)
        /\ UNCHANGED <<level, window, connections, due, launchVars, bounds, history>>
    BY DEF CommitCreative
  <1>3. /\ made \in Nat /\ b \in Batch /\ made' \in 0..MaxBatches
        /\ \A x \in Batch : x <= made <=> x # b /\ x <= made'
        /\ \A x \in Batch : x <= made' <=> x = b \/ x <= made
        /\ 1..made \subseteq 1..made'
    BY <1>2 DEF ApprovalsInv, TypeOK, Batch
  <1>4. /\ approvals' \in [Batch -> ApprovalStatus] /\ approvals[b] = "NONE"
        /\ approvals'[b] = IF full THEN "NONE" ELSE "PENDING"
        /\ \A x \in Batch : x # b => approvals'[x] = approvals[x]
    BY <1>2, <1>3 DEF ApprovalsInv, TypeOK, BatchInv, ApprovalStatus
  <1>5. /\ ads' \in [Ad -> AdStatus]
        /\ \A a \in Ad : a[1] # b => ads'[a] = ads[a]
        /\ \A a \in Ad : a[1] = b => ads'[a] # "NONE"
        /\ \A a \in Ad : a[1] = b /\ ads'[a] = "APPROVED_FOR_LAUNCH" => full
    BY <1>1 DEF NewAds, ApprovalsInv, TypeOK, AdStatus
  <1>6. /\ compliant' \subseteq Ad /\ compliant \subseteq compliant' /\ compliant \subseteq Ad
        /\ \A a \in compliant' : a \in compliant \/ a[1] = b
        /\ \A a \in compliant : a[1] <= made
    BY <1>1 DEF AdsOf, ApprovalsInv, TypeOK, BatchInv
  <1>7. /\ job' \in [Job -> JobState] /\ job'[j] = Idle
        /\ \A k \in Job : k # j => job'[k] = job[k]
    BY <1>2, IdleIsAJob, OneJobMoves DEF Leave, ApprovalsInv, TypeOK
  <1>8. phase' \in Phase
    BY <1>2, PhaseMoves DEF Phase
  <1> HIDE DEF b, full
  <1>9. \A a \in compliant : Cleared(a) => Cleared(a)'
    BY <1>2, <1>3, <1>4, <1>6, AdsAreOfBatches DEF Cleared
  <1>10. TypeOK'
    <2>1. \A a \in Ad : ads'[a] = "NONE" <=> a[1] > made'
      <3> SUFFICES ASSUME NEW a \in Ad  PROVE ads'[a] = "NONE" <=> a[1] > made'
        OBVIOUS
      <3>1. a[1] \in Batch /\ a[1] \in Nat /\ made' \in Nat /\ (ads[a] = "NONE" <=> a[1] > made)
        BY <1>3, AdsAreOfBatches DEF ApprovalsInv, TypeOK, Batch
      <3>2. CASE a[1] = b  BY <1>3, <1>5, <3>1, <3>2
      <3>3. CASE a[1] # b  BY <1>3, <1>5, <3>1, <3>3
      <3> QED  BY <3>2, <3>3
    <2> QED  BY <1>2, <1>3, <1>4, <1>5, <1>6, <1>7, <1>8, <2>1 DEF ApprovalsInv, TypeOK
  <1>11. BatchInv'
    <2>1. \A x \in Batch : approvals'[x] # "NONE" => x <= made'
      BY <1>3, <1>4 DEF ApprovalsInv, BatchInv
    <2>2. \A x \in Batch : approvals'[x] = "NONE" => ruled'[x] = {}
      BY <1>2, <1>4 DEF ApprovalsInv, BatchInv
    <2>3. \A a \in compliant' : a[1] <= made'
      BY <1>3, <1>6, AdsAreOfBatches
    <2>4. \A a \in Ad : says'[a] # "none" => a[1] <= made'
      BY <1>2, <1>3, AdsAreOfBatches DEF ApprovalsInv, BatchInv
    <2> QED  BY <1>2, <2>1, <2>2, <2>3, <2>4 DEF ApprovalsInv, BatchInv
  <1>12. JobInv'
    <2>1. JobOK(job[j])'
      BY <1>7 DEF JobOK, Idle
    <2>2. \A x \in Batch : approvals[x] # "NONE" => approvals'[x] # "NONE"
      BY <1>4
    <2>3. \A k \in Job : k # j => JobOK(job[k])'
      BY <1>2, <1>6, <1>7, <1>9, <2>2, JobsStay
    <2> QED  BY <2>1, <2>3 DEF JobInv
  <1>13. VetoInv'
    <2>1. \A k \in Job, a \in Ad : Promotes(k, a)' => Promotes(k, a)
      BY <1>7 DEF Promotes, Idle
    <2>2. \A a \in Ad : says[a] # "none" => ads'[a] = ads[a]
      BY <1>3, <1>5, AdsAreOfBatches DEF ApprovalsInv, BatchInv
    <2> QED  BY <1>2, <2>1, <2>2 DEF ApprovalsInv, VetoInv
  <1>14. ApprovedInv'
    <2> SUFFICES ASSUME NEW a \in Ad, ads'[a] = "APPROVED_FOR_LAUNCH"
                 PROVE  \/ says[a] = "APPROVED" \/ "APPROVED" \in ruled[a[1]]
                        \/ a[1] \in claimed \/ approvals'[a[1]] = "NONE"
      BY <1>2 DEF ApprovedInv, Approved
    <2>1. CASE a[1] = b  BY <1>4, <1>5, <2>1
    <2>2. CASE a[1] # b  BY <1>4, <1>5, <2>2, AdsAreOfBatches DEF ApprovalsInv, ApprovedInv,
                                                                  Approved
    <2> QED  BY <2>1, <2>2
  <1>15. LaunchedInv'  BY <1>2, <1>9 DEF ApprovalsInv, LaunchedInv, TypeOK
  <1> QED  BY <1>10, <1>11, <1>12, <1>13, <1>14, <1>15 DEF ApprovalsInv

-----------------------------------------------------------------------------
LEMMA NextApprovals == ApprovalsInv /\ [Next]_vars => ApprovalsInv'
  <1> SUFFICES ASSUME ApprovalsInv, [Next]_vars  PROVE ApprovalsInv'
    OBVIOUS
  <1>1. CASE UNCHANGED vars
    <2> USE <1>1 DEF vars
    <2>1. TypeOK'  BY DEF ApprovalsInv, TypeOK
    <2>2. JobInv'  BY DEF ApprovalsInv, JobInv, JobOK, Cleared
    <2>3. BatchInv' /\ ApprovedInv' /\ LaunchedInv'
      BY DEF ApprovalsInv, BatchInv, ApprovedInv, Approved, LaunchedInv, Cleared
    <2>4. VetoInv'  BY DEF ApprovalsInv, VetoInv, Promotes
    <2> QED  BY <2>1, <2>2, <2>3, <2>4 DEF ApprovalsInv
  <1>2. ASSUME NEW j \in Job, Work(j)
        PROVE  ApprovalsInv'
    BY <1>2, LoadApprovals, CommitResearchApprovals, CommitCreativeApprovals,
       CommitDecisionApprovals, ClaimBatchApprovals, ReadBatchApprovals, CommitPromotionApprovals,
       SkipLaunchApprovals, BeginLaunchApprovals, CommitLaunchApprovals
    DEF Work
  <1>3. ASSUME NEW j \in Job, Cron(j) \/ Owner(j) \/ Fail(j) \/ Crash(j)
        PROVE  ApprovalsInv'
    BY <1>3, ProgressApprovals, SelectOverdueApprovals, RunByHandApprovals, DecideApprovals,
       FailApprovals, CrashApprovals
    DEF Cron, Owner, ResearchByHand, GenCreatives, LaunchByHand
  <1>4. CASE Next
    BY <1>2, <1>3, <1>4, TapApprovals, AutopilotApprovals, WindowElapsesApprovals, ConnectApprovals
    DEF Next
  <1> QED  BY <1>1, <1>4

(* Rows, sessions and history are of their kinds; a batch has ads if and   *)
(* only if it was made, only made batches fall due or are claimed, and     *)
(* only compliant ads are launched.                                        *)
THEOREM ApprovalsTypeCorrect == Spec => []TypeOK
  BY InitApprovals, NextApprovals, PTL DEF Spec, ApprovalsInv

(* An ad its owner has rejected stays rejected through every approval of   *)
(* its batch, whoever approves it and whatever is under way at the same    *)
(* time, but for a promotion that had already read it (pipeline.py:264).   *)
THEOREM VetoAlwaysHolds == Spec => []VetoHolds
  <1>1. ApprovalsInv => VetoHolds
    BY DEF ApprovalsInv, VetoInv, VetoHolds
  <1> QED  BY <1>1, InitApprovals, NextApprovals, PTL DEF Spec

(* Nothing runs that failed the compliance check, or that nobody cleared:  *)
(* its owner by a tap, a verdict or her silence, or full autopilot.        *)
THEOREM LaunchedWasAlwaysCleared == Spec => []LaunchedWasCleared
  <1>1. ApprovalsInv => LaunchedWasCleared
    BY DEF ApprovalsInv, TypeOK, LaunchedInv, Cleared, LaunchedWasCleared
  <1> QED  BY <1>1, InitApprovals, NextApprovals, PTL DEF Spec

(* A batch that its owner turned down before the cron claimed it gives no  *)
(* approved ad, except one that she taps (maintenance.py:246).             *)
THEOREM OwnersCallAlwaysStands == Spec => []OwnersCallStands
  <1>1. ApprovalsInv => OwnersCallStands
    BY AdsAreOfBatches
    DEF ApprovalsInv, BatchInv, ApprovedInv, Approved, OwnersCallStands
  <1> QED  BY <1>1, InitApprovals, NextApprovals, PTL DEF Spec
=============================================================================
