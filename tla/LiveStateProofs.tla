--------------------------- MODULE LiveStateProofs ---------------------------
(***************************************************************************)
(* Proofs about LiveState, for any number of sessions and ad sets and      *)
(* every value of the bounds: the type invariant, that the owner's stop is *)
(* obeyed, and, while sessions come one at a time and none fails, that     *)
(* rows and Meta agree and that nobody who pays is left in a trial pause.  *)
(***************************************************************************)
EXTENDS LiveState, TLAPS

-----------------------------------------------------------------------------
(* Type correctness.                                                       *)

LEMMA PausedIsRow ==
  ASSUME NEW row \in Row, NEW why \in Reason
  PROVE  Paused(row, why) \in Row
  BY DEF Paused, Row, Phase, Running, Switch

(* However the pause left it, a resumed account runs.                      *)
LEMMA ResumedRuns ==
  ASSUME NEW row \in Row
  PROVE  Resumed(row) \in Row /\ Resumed(row).phase \in Running
  BY DEF Resumed, Row, Phase, Running, Switch, Reason

LEMMA JudgedIsRow ==
  ASSUME NEW row \in Row
  PROVE  Stopped(row) \in Row /\ Optimized(row) \in Row
  BY DEF Stopped, Optimized, Row, Phase, Running, Reason

LEMMA InitType == Init => TypeOK
  <1> SUFFICES ASSUME Init PROVE TypeOK
    OBVIOUS
  <1> USE DEF Init
  <1>1. Blank \in Row
    BY DEF Row, Blank, Phase, Running, Reason, Switch, SubStatus
  <1>2. Loaded = Blank  BY DEF Loaded, Blank
  <1>3. calls \in 0..MaxCalls /\ failures \in 0..MaxFailures
    BY LiveAssumption
  <1> QED  BY <1>1, <1>2, <1>3 DEF TypeOK, Switch, Place

LEMMA OpenType ==
  ASSUME TypeOK, NEW c \in Caller, NEW place \in Place, NEW row \in Row, Open(c, place, row),
         todo' \in [Caller -> SUBSET AdSet], sweep' \in {"idle", "selected", "due"},
         calls' \in 0..MaxCalls, stop' \in {"no", "yes", "relabelled"}, disturbed' \in BOOLEAN
  PROVE  TypeOK'
  BY DEF TypeOK, Open, rows, meta, Loaded, Row

LEMMA CloseType ==
  ASSUME TypeOK, NEW c \in Caller, Close(c)
  PROVE  /\ at' \in [Caller -> Place]
         /\ saw' \in [Caller -> Row] /\ new' \in [Caller -> Row]
         /\ adsOn' \in [Caller -> SUBSET AdSet] /\ adsOff' \in [Caller -> SUBSET AdSet]
         /\ todo' \in [Caller -> SUBSET AdSet]
  BY DEF TypeOK, Close, Blank, Row, Phase, Running, Reason, Switch, SubStatus, Place

(* Openings of sessions.                                                   *)
LEMMA OpeningType ==
  ASSUME TypeOK, NEW c \in Caller,
         \/ OwnerPause(c) \/ AdminPause(c) \/ TrialPause(c) \/ OwnerResume(c) \/ Pay(c)
         \/ Optimize(c)
  PROVE  TypeOK'
  <1>1. Loaded \in Row /\ [Loaded EXCEPT !.sub = "ACTIVE"] \in Row
    BY DEF TypeOK, Row, SubStatus
  <1>2. Called => calls' \in 0..MaxCalls /\ disturbed' \in BOOLEAN
    BY LiveAssumption DEF Called, Counted, Quiet, TypeOK
  <1>3. CASE OwnerPause(c)
    <2>1. Paused(Loaded, "owner") \in Row  BY <1>1, PausedIsRow DEF Reason
    <2> QED  BY <1>2, <1>3, <2>1, OpenType DEF OwnerPause, TypeOK, Place
  <1>4. CASE AdminPause(c)
    <2>1. Paused(Loaded, "admin") \in Row  BY <1>1, PausedIsRow DEF Reason
    <2> QED  BY <1>2, <1>4, <2>1, OpenType DEF AdminPause, TypeOK, Place
  <1>5. CASE TrialPause(c)
    <2>1. Paused(Loaded, "trial") \in Row  BY <1>1, PausedIsRow DEF Reason
    <2> QED  BY <1>5, <2>1, OpenType DEF TrialPause, TypeOK, Place
  <1>6. CASE OwnerResume(c)
    <2>1. Resumed(Loaded) \in Row  BY <1>1, ResumedRuns
    <2> QED  BY <1>2, <1>6, <2>1, OpenType DEF OwnerResume, TypeOK, Place
  <1>7. CASE Pay(c)
    <2>1. Resumed([Loaded EXCEPT !.sub = "ACTIVE"]) \in Row  BY <1>1, ResumedRuns
    <2>2. CASE Open(c, "resume", Resumed([Loaded EXCEPT !.sub = "ACTIVE"]))
      BY <1>2, <1>7, <2>1, <2>2, OpenType DEF Pay, TypeOK, Place
    <2>3. CASE Open(c, "commit", [Loaded EXCEPT !.sub = "ACTIVE"])
      BY <1>1, <1>2, <1>7, <2>3, OpenType DEF Pay, TypeOK, Place
    <2> QED  BY <1>7, <2>2, <2>3 DEF Pay
  <1>8. CASE Optimize(c)
    <2> DEFINE place == IF ads # {} THEN "insights" ELSE "restart"
    <2>1. place \in Place  BY DEF Place
    <2>2. todo' \in [Caller -> SUBSET AdSet]  BY <1>8 DEF Optimize, TypeOK
    <2> QED  BY <1>1, <1>2, <1>8, <2>1, <2>2, OpenType DEF Optimize, TypeOK
  <1> QED  BY <1>3, <1>4, <1>5, <1>6, <1>7, <1>8

LEMMA CallsOfMetaType ==
  ASSUME TypeOK, NEW c \in Caller,
         \/ PauseCampaign(c) \/ ResumeCampaign(c)
         \/ \E a \in AdSet : ResumeAdSet(c, a) \/ Restart(c, a) \/ PauseAdSet(c, a)
  PROVE  TypeOK'
  <1> USE DEF Goto, TypeOK, rows, meta
  <1>1. UNCHANGED rows => Loaded' = Loaded  BY DEF Loaded
  <1>2. CASE PauseCampaign(c)  BY <1>1, <1>2 DEF PauseCampaign, Switch, Place
  <1>3. CASE ResumeCampaign(c)  BY <1>1, <1>3 DEF ResumeCampaign, Switch, Place
  <1>4. ASSUME NEW a \in AdSet, ResumeAdSet(c, a) PROVE TypeOK'
    BY <1>1, <1>4 DEF ResumeAdSet
  <1>5. ASSUME NEW a \in AdSet, Restart(c, a) PROVE TypeOK'
    BY <1>1, <1>5 DEF Restart, Place
  <1>6. ASSUME NEW a \in AdSet, PauseAdSet(c, a) PROVE TypeOK'
    BY <1>1, <1>6 DEF PauseAdSet
  <1> QED  BY <1>2, <1>3, <1>4, <1>5, <1>6

LEMMA JudgeType == ASSUME TypeOK, NEW c \in Caller, Judge(c) PROVE TypeOK'
  <1>1. new' \in [Caller -> Row]
    <2>1. new[c] \in Row  BY DEF TypeOK
    <2>2. Stopped(new[c]) \in Row /\ Optimized(new[c]) \in Row
      BY <2>1, JudgedIsRow
    <2> QED  BY <2>2 DEF Judge, TypeOK
  <1>2. todo' \in [Caller -> SUBSET AdSet]
    BY DEF Judge, TypeOK
  <1> QED  BY <1>1, <1>2 DEF Judge, Goto, TypeOK, Loaded, Row, rows, meta, Place

LEMMA CommitType == ASSUME TypeOK, NEW c \in Caller, Commit(c) PROVE TypeOK'
  <1>1. Loaded' \in Row
    BY DEF Commit, Written, TypeOK, Loaded, Row
  <1>2. ads' \in SUBSET AdSet /\ stop' \in {"no", "yes", "relabelled"}
    BY DEF Commit, Relabel, TypeOK
  <1>3. Close(c)  BY DEF Commit
  <1> QED  BY <1>1, <1>2, <1>3, CloseType DEF Commit, TypeOK, meta

LEMMA FailType == ASSUME TypeOK, NEW c \in Caller, Fail(c) PROVE TypeOK'
  <1>1. Close(c)  BY DEF Fail
  <1>2. failures' \in 0..MaxFailures  BY LiveAssumption DEF Fail, TypeOK
  <1> QED  BY <1>1, <1>2, CloseType DEF Fail, TypeOK, rows, meta, Loaded, Row

LEMMA SubscriptionType ==
  ASSUME TypeOK, Subscribe \/ Lapse \/ TrialEnds \/ SweepSelect \/ SweepCommit \/ SweepFails
  PROVE  TypeOK'
  <1> USE LiveAssumption DEF TypeOK, Loaded, Row, session, meta, rows
  <1>1. CASE Subscribe \/ Lapse
    <2>1. calls' \in 0..MaxCalls  BY <1>1 DEF Subscribe, Lapse, Counted
    <2>2. sub' \in SubStatus /\ expired' \in BOOLEAN  BY <1>1 DEF Subscribe, Lapse, SubStatus
    <2>3. Loaded' \in Row  BY <1>1, <2>2 DEF Subscribe, Lapse
    <2> QED  BY <1>1, <2>1, <2>2, <2>3 DEF Subscribe, Lapse
  <1>2. CASE TrialEnds  BY <1>2 DEF TrialEnds
  <1>5. CASE SweepSelect
    <2>1. disturbed' \in BOOLEAN  BY <1>5 DEF SweepSelect
    <2> QED  BY <1>5, <2>1 DEF SweepSelect
  <1>3. CASE SweepCommit  BY <1>3 DEF SweepCommit, Relabel, SubStatus, Phase, Reason, Running
  <1>4. CASE SweepFails  BY <1>4 DEF SweepFails
  <1> QED  BY <1>1, <1>2, <1>3, <1>4, <1>5

LEMMA NextType == TypeOK /\ [Next]_vars => TypeOK'
  <1> SUFFICES ASSUME TypeOK, [Next]_vars PROVE TypeOK'
    OBVIOUS
  <1>1. CASE UNCHANGED vars  BY <1>1 DEF vars, TypeOK, Loaded, Row
  <1>2. CASE Next
    BY <1>2, OpeningType, CallsOfMetaType, JudgeType, CommitType, FailType, SubscriptionType
    DEF Next, Charged, MarkPaid
  <1> QED  BY <1>1, <1>2

(* Every reachable state is well typed; in particular a pause, however     *)
(* often it is overwritten, leaves a phase that can be restored.           *)
THEOREM LiveTypeCorrectness == Spec => []TypeOK
  BY InitType, NextType, PTL DEF Spec

-----------------------------------------------------------------------------
(* The owner's stop.                                                       *)

(* While it is in force the campaign is off, nobody is about to switch it  *)
(* on, and no payment will: the rows do not call it a trial pause.         *)
StopInv ==
  stop = "yes" =>
    /\ metaCamp = "PAUSED"
    /\ reason # "trial"
    /\ \A c \in Caller : at[c] # "resume"

LEMMA InitStop == Init => StopInv
  BY DEF Init, StopInv

(* A step that relabels the pause ends it by that.                         *)
LEMMA RelabelStop ==
  ASSUME StopInv, stop' = Relabel, UNCHANGED meta,
         \A c \in Caller : at'[c] = "resume" => at[c] = "resume"
  PROVE  StopInv'
  BY DEF StopInv, Relabel, meta

(* A session that opens to do anything but resume.                         *)
LEMMA OpenStop ==
  ASSUME TypeOK, StopInv, NEW c \in Caller, NEW place \in Place, NEW row,
         Open(c, place, row), place # "resume", UNCHANGED stop
  PROVE  StopInv'
  BY DEF TypeOK, StopInv, Open, rows, meta

LEMMA OpeningStop ==
  ASSUME TypeOK, StopInv, NEW c \in Caller,
         \/ OwnerPause(c) \/ AdminPause(c) \/ TrialPause(c) \/ OwnerResume(c) \/ Pay(c)
         \/ Optimize(c)
  PROVE  StopInv'
  <1>1. CASE OwnerPause(c)  BY <1>1, OpenStop DEF OwnerPause, Place
  <1>2. CASE AdminPause(c)  BY <1>2, OpenStop DEF AdminPause, Place
  <1>3. CASE TrialPause(c)  BY <1>3, OpenStop DEF TrialPause, Place
  <1>4. CASE OwnerResume(c)  BY <1>4 DEF OwnerResume, StopInv
  <1>5. CASE Pay(c)
    <2> DEFINE paid == [Loaded EXCEPT !.sub = "ACTIVE"]
    <2>1. CASE phase = "PAUSED" /\ reason = "trial"
      BY <1>5, <2>1 DEF Pay, StopInv
    <2>2. CASE ~(phase = "PAUSED" /\ reason = "trial")
      <3>1. Open(c, "commit", paid) /\ UNCHANGED stop  BY <1>5, <2>2 DEF Pay
      <3> QED  BY <3>1, OpenStop DEF Place
    <2> QED  BY <2>1, <2>2
  <1>6. CASE Optimize(c)
    <2> DEFINE place == IF ads # {} THEN "insights" ELSE "restart"
    <2>1. place \in Place /\ place # "resume"  BY DEF Place
    <2>2. Open(c, place, Loaded) /\ UNCHANGED stop  BY <1>6 DEF Optimize
    <2> QED  BY <2>1, <2>2, OpenStop
  <1> QED  BY <1>1, <1>2, <1>3, <1>4, <1>5, <1>6

(* Only a session that resumes switches the campaign on.                   *)
LEMMA CallsOfMetaStop ==
  ASSUME TypeOK, StopInv, NEW c \in Caller,
         \/ PauseCampaign(c) \/ ResumeCampaign(c) \/ Judge(c)
         \/ \E a \in AdSet : ResumeAdSet(c, a) \/ Restart(c, a) \/ PauseAdSet(c, a)
  PROVE  StopInv'
  <1> USE DEF Goto, TypeOK, StopInv, rows, meta
  <1>1. CASE PauseCampaign(c)  BY <1>1 DEF PauseCampaign
  <1>2. CASE ResumeCampaign(c)  BY <1>2 DEF ResumeCampaign
  <1>3. CASE Judge(c)  BY <1>3 DEF Judge
  <1>4. ASSUME NEW a \in AdSet, ResumeAdSet(c, a) \/ Restart(c, a) \/ PauseAdSet(c, a)
        PROVE  StopInv'
    BY <1>4 DEF ResumeAdSet, Restart, PauseAdSet
  <1> QED  BY <1>1, <1>2, <1>3, <1>4

LEMMA ClosingStop ==
  ASSUME TypeOK, StopInv, NEW c \in Caller, Commit(c) \/ Fail(c)
  PROVE  StopInv'
  <1>1. \A d \in Caller : at'[d] = "resume" => at[d] = "resume"
    BY DEF Commit, Fail, Close, TypeOK
  <1>2. CASE Commit(c)  BY <1>1, <1>2, RelabelStop DEF Commit
  <1>3. CASE Fail(c)  BY <1>1, <1>3 DEF Fail, StopInv, rows, meta
  <1> QED  BY <1>2, <1>3

LEMMA SubscriptionStop ==
  ASSUME StopInv, Subscribe \/ Lapse \/ TrialEnds \/ SweepSelect \/ SweepCommit \/ SweepFails
  PROVE  StopInv'
  <1>1. CASE SweepCommit  BY <1>1, RelabelStop DEF SweepCommit, session
  <1>2. CASE Subscribe \/ Lapse \/ TrialEnds \/ SweepSelect \/ SweepFails
    BY <1>2 DEF Subscribe, Lapse, TrialEnds, SweepSelect, SweepFails, StopInv, session, rows, meta
  <1> QED  BY <1>1, <1>2

LEMMA NextStop == TypeOK /\ StopInv /\ [Next]_vars => StopInv'
  <1> SUFFICES ASSUME TypeOK, StopInv, [Next]_vars PROVE StopInv'
    OBVIOUS
  <1>1. CASE UNCHANGED vars  BY <1>1 DEF vars, StopInv
  <1>2. CASE Next
    BY <1>2, OpeningStop, CallsOfMetaStop, ClosingStop, SubscriptionStop DEF Next, Charged,
                                                                             MarkPaid
  <1> QED  BY <1>1, <1>2

(* However many sessions race and fail, the owner's pause, once it has     *)
(* reached Meta, keeps the campaign off until the owner resumes, as long   *)
(* as our rows do not call it a trial pause.                               *)
THEOREM StopIsObeyedHolds == Spec => []StopIsObeyed
  <1>1. StopInv => StopIsObeyed
    BY DEF StopInv, StopIsObeyed
  <1> QED  BY <1>1, InitStop, NextStop, LiveTypeCorrectness, PTL DEF Spec

-----------------------------------------------------------------------------
(* Sessions one at a time.                                                 *)

TrialPaused(row) == row.phase = "PAUSED" /\ row.reason = "trial"

(* No two sessions are open, nor one while the sweep is under way; what is *)
(* not open holds no ad sets.                                              *)
Lone ==
  \A c \in Caller :
    /\ at[c] = "idle" => adsOn[c] = {} /\ adsOff[c] = {}
    /\ at[c] # "idle" => sweep = "idle" /\ \A d \in Caller \ {c} : at[d] = "idle"

(* What a session will commit is what it has told Meta so far; if none is  *)
(* open, the rows are.                                                     *)
MatchInv ==
  /\ (\A c \in Caller : at[c] = "idle") => camp = metaCamp /\ ads = metaAds
  /\ \A c \in Caller : at[c] # "idle" =>
       /\ saw[c].camp = camp
       /\ at[c] = "pause" => new[c].camp = "PAUSED"
       /\ at[c] = "resume" => new[c].camp = "ACTIVE"
       /\ at[c] \notin {"pause", "resume"} => new[c].camp = metaCamp
       /\ metaAds = (ads \cup adsOn[c]) \ adsOff[c]
       /\ at[c] # "kill" => adsOff[c] = {}
       /\ at[c] \in {"pause", "resume", "restart"} => adsOn[c] = {}

(* Nothing pays for an account in a trial pause but what will end it.      *)
PaidInv ==
  /\ sub = "ACTIVE" => ~TrialPaused(Loaded)
  /\ sweep = "due" => sub # "ACTIVE"
  /\ \A c \in Caller : at[c] # "idle" =>
       /\ saw[c].phase = phase /\ saw[c].reason = reason
       /\ TrialPaused(new[c]) => new[c].sub = saw[c].sub /\ sub # "ACTIVE"

SoloInv == ~disturbed => Lone /\ MatchInv /\ PaidInv

LEMMA PausedFields ==
  ASSUME NEW row \in Row, NEW why \in Reason
  PROVE  Paused(row, why).camp = "PAUSED" /\ Paused(row, why).sub = row.sub
         /\ Paused(row, why).reason = why
  BY DEF Paused, Row

LEMMA ResumedFields ==
  ASSUME NEW row \in Row
  PROVE  Resumed(row).camp = "ACTIVE" /\ ~TrialPaused(Resumed(row))
<1>1. Resumed(row).camp = "ACTIVE"
  BY DEF Resumed, Row
<1>2. Resumed(row).phase \in Running
  BY ResumedRuns
<1> QED
  BY <1>1, <1>2 DEF TrialPaused, Running

(* The optimizer does not touch the campaign, nor make a trial pause.      *)
LEMMA JudgedFields ==
  ASSUME NEW row \in Row
  PROVE  /\ Stopped(row).camp = row.camp /\ ~TrialPaused(Stopped(row))
         /\ Optimized(row).camp = row.camp /\ Optimized(row).sub = row.sub
         /\ TrialPaused(Optimized(row)) => TrialPaused(row)
  BY DEF Stopped, Optimized, Row, TrialPaused, Reason

LEMMA LoadedFields ==
  /\ Loaded.phase = phase /\ Loaded.reason = reason /\ Loaded.camp = camp /\ Loaded.sub = sub
  /\ TrialPaused(Loaded) <=> phase = "PAUSED" /\ reason = "trial"
  BY DEF Loaded, TrialPaused

LEMMA InitSolo == Init => SoloInv
<1> SUFFICES ASSUME Init PROVE SoloInv
  OBVIOUS
<1>1. Lone /\ MatchInv
  BY DEF Init, Lone, MatchInv
<1>2. PaidInv
  BY LoadedFields DEF Init, PaidInv
<1> QED
  BY <1>1, <1>2 DEF SoloInv

(* A session that opens alone, on a row that it may commit.                *)
LEMMA OpenSolo ==
  ASSUME TypeOK, SoloInv, NEW c \in Caller, NEW place \in Place \ {"idle", "kill"}, NEW row \in Row,
         Open(c, place, row),
         ~disturbed' => ~disturbed /\ sweep' = "idle" /\ \A d \in Caller : at[d] = "idle",
         place = "pause" => row.camp = "PAUSED",
         place = "resume" => row.camp = "ACTIVE",
         place \notin {"pause", "resume"} => row.camp = camp,
         ~disturbed' /\ TrialPaused(row) => row.sub = sub /\ sub # "ACTIVE"
  PROVE  SoloInv'
<1> SUFFICES ASSUME ~disturbed' PROVE Lone' /\ MatchInv' /\ PaidInv'
  BY DEF SoloInv
<1>1. /\ Lone /\ MatchInv /\ PaidInv /\ sweep' = "idle" /\ \A d \in Caller : at[d] = "idle"
  BY DEF SoloInv
<1>2. /\ UNCHANGED <<phase, reason, before, camp, sub, ads, metaCamp, metaAds, adsOn, adsOff>>
      /\ at' = [at EXCEPT ![c] = place] /\ saw' = [saw EXCEPT ![c] = Loaded]
      /\ new' = [new EXCEPT ![c] = row]
  BY DEF Open, rows, meta
<1>3. /\ at'[c] = place /\ saw'[c] = Loaded /\ new'[c] = row
      /\ \A d \in Caller \ {c} : at'[d] = "idle"
  BY <1>1, <1>2 DEF TypeOK
<1>4. Loaded' = Loaded
  BY <1>2 DEF Loaded
<1>5. Lone'
  BY <1>1, <1>2, <1>3 DEF Lone
<1>6. MatchInv'
  <2>1. camp = metaCamp /\ ads = metaAds /\ adsOn[c] = {} /\ adsOff[c] = {}
    BY <1>1 DEF MatchInv, Lone
  <2> QED
    BY <1>2, <1>3, <2>1, LoadedFields DEF MatchInv
<1>7. PaidInv'
  BY <1>1, <1>2, <1>3, <1>4, LoadedFields DEF PaidInv
<1> QED
  BY <1>5, <1>6, <1>7

LEMMA OpeningSolo ==
  ASSUME TypeOK, SoloInv, NEW c \in Caller,
         \/ OwnerPause(c) \/ AdminPause(c) \/ TrialPause(c) \/ OwnerResume(c) \/ Pay(c)
         \/ Optimize(c)
  PROVE  SoloInv'
<1> DEFINE paid == [Loaded EXCEPT !.sub = "ACTIVE"]
<1>1. /\ Loaded \in Row /\ paid \in Row /\ paid.camp = camp /\ paid.phase = phase
      /\ paid.reason = reason
  BY DEF TypeOK, Row, SubStatus, Loaded
<1> HIDE DEF paid
<1>2. Called => (~disturbed' => ~disturbed /\ sweep = "idle" /\ \A d \in Caller : at[d] = "idle")
  BY DEF Called, Quiet
<1>3. ~disturbed /\ TrialPaused(Loaded) => sub # "ACTIVE"
  BY DEF SoloInv, PaidInv
<1>4. CASE OwnerPause(c)
  <2> DEFINE row == Paused(Loaded, "owner")
  <2>1. row \in Row /\ row.camp = "PAUSED" /\ ~TrialPaused(row)
    BY <1>1, PausedIsRow, PausedFields DEF Reason, TrialPaused
  <2>2. Called /\ Open(c, "pause", row) /\ UNCHANGED sweep
    BY <1>4 DEF OwnerPause
  <2> HIDE DEF row
  <2> QED
    BY <1>2, <2>1, <2>2, OpenSolo DEF Place
<1>5. CASE AdminPause(c)
  <2> DEFINE row == Paused(Loaded, "admin")
  <2>1. row \in Row /\ row.camp = "PAUSED" /\ ~TrialPaused(row)
    BY <1>1, PausedIsRow, PausedFields DEF Reason, TrialPaused
  <2>2. Called /\ Open(c, "pause", row) /\ UNCHANGED sweep
    BY <1>5 DEF AdminPause
  <2> HIDE DEF row
  <2> QED
    BY <1>2, <2>1, <2>2, OpenSolo DEF Place
<1>6. CASE TrialPause(c)
  <2> DEFINE row == Paused(Loaded, "trial")
  <2>1. row \in Row /\ row.camp = "PAUSED" /\ row.sub = sub
    BY <1>1, PausedIsRow, PausedFields, LoadedFields DEF Reason
  <2>2. /\ sweep = "due" /\ sweep' = "idle" /\ Open(c, "pause", row)
        /\ disturbed' = (disturbed \/ \E d \in Caller : at[d] # "idle")
    BY <1>6 DEF TrialPause
  <2>3. ~disturbed' => sub # "ACTIVE"
    BY <2>2 DEF SoloInv, PaidInv
  <2> HIDE DEF row
  <2> QED
    BY <2>1, <2>2, <2>3, OpenSolo DEF Place
<1>7. CASE OwnerResume(c)
  <2> DEFINE row == Resumed(Loaded)
  <2>1. row \in Row /\ row.camp = "ACTIVE" /\ ~TrialPaused(row)
    BY <1>1, ResumedRuns, ResumedFields
  <2>2. Called /\ Open(c, "resume", row) /\ UNCHANGED sweep
    BY <1>7 DEF OwnerResume
  <2> HIDE DEF row
  <2> QED
    BY <1>2, <2>1, <2>2, OpenSolo DEF Place
<1>8. CASE Pay(c)
  <2>1. Called /\ UNCHANGED sweep
    BY <1>8 DEF Pay
  <2>2. CASE phase = "PAUSED" /\ reason = "trial"
    <3> DEFINE row == Resumed(paid)
    <3>1. row \in Row /\ row.camp = "ACTIVE" /\ ~TrialPaused(row)
      BY <1>1, ResumedRuns, ResumedFields
    <3>2. Open(c, "resume", row)
      BY <1>8, <2>2 DEF Pay, paid
    <3> HIDE DEF row
    <3> QED
      BY <1>2, <2>1, <3>1, <3>2, OpenSolo DEF Place
  <2>3. CASE ~(phase = "PAUSED" /\ reason = "trial")
    <3>1. ~TrialPaused(paid)
      BY <1>1, <2>3 DEF TrialPaused
    <3>2. Open(c, "commit", paid)
      BY <1>8, <2>3 DEF Pay, paid
    <3> QED
      BY <1>1, <1>2, <2>1, <3>1, <3>2, OpenSolo DEF Place
  <2> QED
    BY <2>2, <2>3
<1>9. CASE Optimize(c)
  <2> DEFINE place == IF ads # {} THEN "insights" ELSE "restart"
  <2>1. place \in Place \ {"idle", "kill"} /\ place \notin {"pause", "resume"}
    BY DEF Place
  <2>2. Called /\ Open(c, place, Loaded) /\ UNCHANGED sweep
    BY <1>9 DEF Optimize
  <2> HIDE DEF place
  <2> QED
    BY <1>1, <1>2, <1>3, <2>1, <2>2, LoadedFields, OpenSolo
<1> QED
  BY <1>4, <1>5, <1>6, <1>7, <1>8, <1>9

(* A call of Meta by the only session that is open.                        *)
LEMMA CallSolo ==
  ASSUME TypeOK, SoloInv, NEW c \in Caller, at[c] # "idle",
         UNCHANGED <<phase, reason, before, camp, sub, ads, sweep, saw, disturbed>>,
         \A d \in Caller \ {c} : /\ at'[d] = at[d] /\ new'[d] = new[d]
                                 /\ adsOn'[d] = adsOn[d] /\ adsOff'[d] = adsOff[d],
         at'[c] # "idle",
         at'[c] = "pause" => new'[c].camp = "PAUSED",
         at'[c] = "resume" => new'[c].camp = "ACTIVE",
         ~disturbed /\ MatchInv /\ at'[c] \notin {"pause", "resume"} => new'[c].camp = metaCamp',
         ~disturbed /\ MatchInv =>
           /\ metaAds' = (ads \cup adsOn'[c]) \ adsOff'[c]
           /\ at'[c] # "kill" => adsOff'[c] = {}
           /\ at'[c] \in {"pause", "resume", "restart"} => adsOn'[c] = {},
         TrialPaused(new'[c]) => TrialPaused(new[c]) /\ new'[c].sub = new[c].sub
  PROVE  SoloInv'
<1> SUFFICES ASSUME ~disturbed PROVE Lone' /\ MatchInv' /\ PaidInv'
  BY DEF SoloInv
<1>1. Lone /\ MatchInv /\ PaidInv
  BY DEF SoloInv
<1>2. sweep = "idle" /\ \A d \in Caller \ {c} : at[d] = "idle"
  BY <1>1 DEF Lone
<1>3. Lone'
  BY <1>1, <1>2 DEF Lone
<1>4. MatchInv'
  BY <1>1, <1>2 DEF MatchInv
<1>5. Loaded' = Loaded
  BY DEF Loaded
<1>6. PaidInv'
  BY <1>1, <1>2, <1>5 DEF PaidInv
<1> QED
  BY <1>3, <1>4, <1>6

LEMMA CallsOfMetaSolo ==
  ASSUME TypeOK, SoloInv, NEW c \in Caller,
         \/ PauseCampaign(c) \/ ResumeCampaign(c) \/ Judge(c)
         \/ \E a \in AdSet : ResumeAdSet(c, a) \/ Restart(c, a) \/ PauseAdSet(c, a)
  PROVE  SoloInv'
<1> USE DEF Goto, TypeOK, rows, meta, Place
<1>1. CASE PauseCampaign(c)
  <2>1. /\ at[c] = "pause" /\ at'[c] = "commit" /\ metaCamp' = "PAUSED"
        /\ \A d \in Caller \ {c} : at'[d] = at[d]
        /\ UNCHANGED <<phase, reason, before, camp, sub, ads, sweep, saw, disturbed, new, adsOn,
                       adsOff, metaAds>>
    BY <1>1 DEF PauseCampaign
  <2>2. ~disturbed /\ MatchInv => new[c].camp = "PAUSED" /\ metaAds = (ads \cup adsOn[c]) \ adsOff[c]
                      /\ adsOff[c] = {}
    BY <2>1 DEF MatchInv
  <2> QED
    BY <2>1, <2>2, CallSolo
<1>2. CASE ResumeCampaign(c)
  <2>1. /\ at[c] = "resume" /\ at'[c] = "ads" /\ metaCamp' = "ACTIVE"
        /\ \A d \in Caller \ {c} : at'[d] = at[d]
        /\ UNCHANGED <<phase, reason, before, camp, sub, ads, sweep, saw, disturbed, new, adsOn,
                       adsOff, metaAds>>
    BY <1>2 DEF ResumeCampaign
  <2>2. ~disturbed /\ MatchInv => new[c].camp = "ACTIVE" /\ metaAds = (ads \cup adsOn[c]) \ adsOff[c]
                      /\ adsOff[c] = {}
    BY <2>1 DEF MatchInv
  <2> QED
    BY <2>1, <2>2, CallSolo
<1>3. CASE Judge(c)
  <2>1. /\ at[c] = "insights" /\ at'[c] = "kill"
        /\ \A d \in Caller \ {c} : at'[d] = at[d] /\ new'[d] = new[d]
        /\ new'[c] \in {Stopped(new[c]), Optimized(new[c])}
        /\ UNCHANGED <<phase, reason, before, camp, sub, ads, sweep, saw, disturbed, adsOn,
                       adsOff, metaCamp, metaAds>>
    BY <1>3 DEF Judge
  <2>2. /\ new'[c].camp = new[c].camp
        /\ TrialPaused(new'[c]) => TrialPaused(new[c]) /\ new'[c].sub = new[c].sub
    <3>1. new[c] \in Row
      OBVIOUS
    <3> QED
      BY <2>1, <3>1, JudgedFields
  <2>3. ~disturbed /\ MatchInv => new[c].camp = metaCamp /\ metaAds = (ads \cup adsOn[c]) \ adsOff[c]
    BY <2>1 DEF MatchInv
  <2> QED
    BY <2>1, <2>2, <2>3, CallSolo
<1>4. ASSUME NEW a \in AdSet, ResumeAdSet(c, a) PROVE SoloInv'
  <2>1. /\ at[c] = "ads" /\ adsOn'[c] = adsOn[c] \cup {a} /\ metaAds' = metaAds \cup {a}
        /\ \A d \in Caller \ {c} : adsOn'[d] = adsOn[d]
        /\ UNCHANGED <<phase, reason, before, camp, sub, ads, sweep, at, saw, disturbed, new,
                       adsOff, metaCamp>>
    BY <1>4 DEF ResumeAdSet
  <2>2. ~disturbed /\ MatchInv => new[c].camp = metaCamp /\ metaAds = (ads \cup adsOn[c]) \ adsOff[c]
                      /\ adsOff[c] = {}
    BY <2>1 DEF MatchInv
  <2>3. ~disturbed /\ MatchInv => metaAds' = (ads \cup adsOn'[c]) \ adsOff'[c] /\ adsOff'[c] = {}
    BY <2>1, <2>2
  <2> QED
    BY <2>1, <2>2, <2>3, CallSolo
<1>5. ASSUME NEW a \in AdSet, Restart(c, a) PROVE SoloInv'
  <2>1. /\ at[c] = "restart" /\ at'[c] = "insights" /\ adsOn'[c] = {a}
        /\ metaAds' = metaAds \cup {a}
        /\ \A d \in Caller \ {c} : at'[d] = at[d] /\ adsOn'[d] = adsOn[d]
        /\ UNCHANGED <<phase, reason, before, camp, sub, ads, sweep, saw, disturbed, new,
                       adsOff, metaCamp>>
    BY <1>5 DEF Restart
  <2>2. ~disturbed /\ MatchInv => new[c].camp = metaCamp /\ metaAds = (ads \cup adsOn[c]) \ adsOff[c]
                      /\ adsOff[c] = {} /\ adsOn[c] = {}
    BY <2>1 DEF MatchInv
  <2>3. ~disturbed /\ MatchInv => metaAds' = (ads \cup adsOn'[c]) \ adsOff'[c] /\ adsOff'[c] = {}
    BY <2>1, <2>2
  <2> QED
    BY <2>1, <2>2, <2>3, CallSolo
<1>6. ASSUME NEW a \in AdSet, PauseAdSet(c, a) PROVE SoloInv'
  <2>1. /\ at[c] = "kill" /\ adsOn'[c] = adsOn[c] \ {a} /\ adsOff'[c] = adsOff[c] \cup {a}
        /\ metaAds' = metaAds \ {a}
        /\ \A d \in Caller \ {c} : adsOn'[d] = adsOn[d] /\ adsOff'[d] = adsOff[d]
        /\ UNCHANGED <<phase, reason, before, camp, sub, ads, sweep, at, saw, disturbed, new,
                       metaCamp>>
    BY <1>6 DEF PauseAdSet
  <2>2. ~disturbed /\ MatchInv => new[c].camp = metaCamp /\ metaAds = (ads \cup adsOn[c]) \ adsOff[c]
    BY <2>1 DEF MatchInv
  <2>3. ~disturbed /\ MatchInv => metaAds' = (ads \cup adsOn'[c]) \ adsOff'[c]
    BY <2>1, <2>2
  <2> QED
    BY <2>1, <2>2, <2>3, CallSolo
<1> QED
  BY <1>1, <1>2, <1>3, <1>4, <1>5, <1>6

(* Alone, a session finds what it has loaded and commits all of its row,   *)
(* but for the subscription, which others may have changed.                *)
LEMMA CommitSolo ==
  ASSUME TypeOK, SoloInv, NEW c \in Caller, Commit(c)
  PROVE  SoloInv'
<1> SUFFICES ASSUME ~disturbed PROVE Lone' /\ MatchInv' /\ PaidInv'
  BY DEF SoloInv, Commit
<1>1. Lone /\ MatchInv /\ PaidInv
  BY DEF SoloInv
<1>2. /\ at[c] \in {"commit", "ads", "kill"}
      /\ phase' = Written(phase, saw[c].phase, new[c].phase)
      /\ reason' = Written(reason, saw[c].reason, new[c].reason)
      /\ camp' = Written(camp, saw[c].camp, new[c].camp)
      /\ sub' = Written(sub, saw[c].sub, new[c].sub)
      /\ ads' = (ads \cup adsOn[c]) \ adsOff[c]
      /\ UNCHANGED <<metaCamp, metaAds, sweep>>
  BY DEF Commit, meta
<1>3. /\ at'[c] = "idle" /\ adsOn'[c] = {} /\ adsOff'[c] = {}
      /\ \A d \in Caller \ {c} : /\ at'[d] = at[d]
                                 /\ adsOn'[d] = adsOn[d] /\ adsOff'[d] = adsOff[d]
  BY DEF Commit, Close, TypeOK
<1>4. sweep = "idle" /\ \A d \in Caller : at'[d] = "idle"
  BY <1>1, <1>2, <1>3 DEF Lone
<1>5. Lone'
  BY <1>1, <1>2, <1>3, <1>4 DEF Lone
<1>6. camp' = metaCamp /\ ads' = metaAds
  BY <1>1, <1>2 DEF MatchInv, Written
<1>7. MatchInv'
  BY <1>2, <1>4, <1>6 DEF MatchInv
<1>8. PaidInv'
  <2>1. phase' = new[c].phase /\ reason' = new[c].reason
    BY <1>1, <1>2 DEF PaidInv, Written
  <2>2. TrialPaused(Loaded)' => TrialPaused(new[c])
    BY <2>1 DEF TrialPaused, Loaded
  <2>3. TrialPaused(new[c]) => sub' # "ACTIVE"
    BY <1>1, <1>2 DEF PaidInv, Written
  <2> QED
    BY <1>2, <1>4, <2>2, <2>3 DEF PaidInv
<1> QED
  BY <1>5, <1>7, <1>8

(* The subscription changes under an open session, too, but never to one   *)
(* that pays.                                                              *)
LEMMA SubscriptionSolo ==
  ASSUME TypeOK, SoloInv,
         Subscribe \/ Lapse \/ TrialEnds \/ SweepSelect \/ SweepCommit \/ SweepFails
  PROVE  SoloInv'
<1> USE DEF session, meta, rows
<1>1. CASE SweepFails
  BY <1>1 DEF SweepFails, SoloInv
<1>2. CASE Subscribe \/ Lapse
  <2>1. /\ sub' # "ACTIVE"
        /\ UNCHANGED <<phase, reason, camp, ads, metaCamp, metaAds, sweep, at, saw, new, adsOn, adsOff,
                       disturbed>>
    BY <1>2 DEF Subscribe, Lapse
  <2>2. Lone => Lone'
    BY <2>1 DEF Lone
  <2>3. MatchInv => MatchInv'
    BY <2>1 DEF MatchInv
  <2>4. PaidInv => PaidInv'
    BY <2>1 DEF PaidInv
  <2> QED
    BY <2>1, <2>2, <2>3, <2>4 DEF SoloInv
<1>3. CASE TrialEnds \/ SweepSelect
  <2>1. /\ ~disturbed' => ~disturbed
        /\ ~disturbed' /\ sweep' # sweep => sweep' = "selected" /\ \A c \in Caller : at[c] = "idle"
        /\ UNCHANGED <<phase, reason, before, camp, sub, ads, metaCamp, metaAds, at, saw, new, adsOn,
                       adsOff>>
    <3>1. CASE TrialEnds
      BY <3>1 DEF TrialEnds
    <3>2. CASE SweepSelect
      BY <3>2 DEF SweepSelect, Quiet
    <3> QED
      BY <1>3, <3>1, <3>2
  <2>2. Lone /\ ~disturbed' => Lone'
    BY <2>1 DEF Lone
  <2>3. MatchInv => MatchInv'
    BY <2>1 DEF MatchInv
  <2>4. PaidInv /\ ~disturbed' => PaidInv'
    BY <2>1 DEF PaidInv, Loaded
  <2> QED
    BY <2>1, <2>2, <2>3, <2>4 DEF SoloInv
<1>4. CASE SweepCommit
  <2>1. /\ sub' = "PAST_DUE" /\ sweep = "selected" /\ sweep' = "due"
        /\ UNCHANGED <<camp, ads, metaCamp, metaAds, at, saw, new, adsOn, adsOff, disturbed>>
    BY <1>4 DEF SweepCommit
  <2> SUFFICES ASSUME ~disturbed PROVE Lone' /\ MatchInv' /\ PaidInv'
    BY <2>1 DEF SoloInv
  <2>2. Lone /\ MatchInv /\ PaidInv /\ \A c \in Caller : at[c] = "idle"
    BY <2>1 DEF SoloInv, Lone
  <2>3. Lone' /\ MatchInv' /\ PaidInv'
    BY <2>1, <2>2 DEF Lone, MatchInv, PaidInv
  <2> QED
    BY <2>3
<1> QED
  BY <1>1, <1>2, <1>3, <1>4

LEMMA NextSolo == TypeOK /\ SoloInv /\ [Next]_vars => SoloInv'
<1> SUFFICES ASSUME TypeOK, SoloInv, [Next]_vars PROVE SoloInv'
  OBVIOUS
<1>1. CASE UNCHANGED vars
  BY <1>1 DEF vars, SoloInv, Lone, MatchInv, PaidInv, Loaded
<1>2. ASSUME NEW c \in Caller, Fail(c) PROVE SoloInv'
  BY <1>2 DEF Fail, SoloInv
<1>3. CASE Next
  BY <1>2, <1>3, OpeningSolo, CallsOfMetaSolo, CommitSolo, SubscriptionSolo
  DEF Next, Charged, MarkPaid
<1> QED
  BY <1>1, <1>3

LEMMA SoloHolds == Spec => []SoloInv
  BY InitSolo, NextSolo, LiveTypeCorrectness, PTL DEF Spec

(* As long as sessions neither overlap nor fail, the rows say between them *)
(* what Meta does: the campaign and every ad set, on or off.               *)
THEOREM RowsAlwaysMatchMeta == Spec => []RowsMatchMeta
<1>1. SoloInv => RowsMatchMeta
  BY DEF SoloInv, MatchInv, RowsMatchMeta, Quiet
<1> QED
  BY SoloHolds, <1>1, PTL

(* As long as sessions neither overlap nor fail, a payment ends the trial  *)
(* pause, and the sweep never pauses an account that has paid.             *)
THEOREM WhoPaysRuns == Spec => []PaidRuns
<1>1. SoloInv => PaidRuns
  BY LoadedFields DEF SoloInv, PaidInv, PaidRuns
<1> QED
  BY SoloHolds, <1>1, PTL
=============================================================================
