---------------------------- MODULE OutboxProofs ----------------------------
(***************************************************************************)
(* Proofs about Outbox, for every set of steps, messages and workers and   *)
(* every value of the bounds. Part 1 holds with any number of overlaps     *)
(* between the reaper and slow workers.                                    *)
(***************************************************************************)
EXTENDS Outbox, TLAPS

-----------------------------------------------------------------------------
(* Part 1: the inductive invariant that needs no exclusion.                *)

(* Where a worker stands and what it holds agree.                          *)
StageInv ==
  \A w \in Worker :
    /\ stage[w] = "idle" => todo[w] = {}
    /\ stage[w] \in InHandStage <=> job[w] # NoStep
    /\ job[w] \notin todo[w]

(* A held row still exists, and its claim found it below the limit.        *)
HeldInv ==
  \A w \in Worker : \A s \in Step :
    s \in Held(w) => status[s] # "NONE" /\ snap[w][s] < MaxAttempts

(* A row names an inserted message, and is below the limit while live.     *)
RowInv ==
  \A s \in Step :
    /\ status[s] # "NONE" => payload[s] \in Message
    /\ Live(s) => attempts[s] < MaxAttempts
    /\ s \in stale => status[s] = "IN_PROGRESS"

(* The handler has returned only with the message SENT.                    *)
ReturnedInv ==
  \A w \in Worker : stage[w] = "returned" => msg[payload[job[w]]] = "SENT"

BaseInv == TypeOK /\ StageInv /\ HeldInv /\ RowInv /\ ReturnedInv /\ DoneMeansSent

LEMMA InitBase == Init => BaseInv
  BY StepAssumption, MessageAssumption, BoundAssumption
  DEF Init, BaseInv, TypeOK, StageInv, HeldInv, RowInv, ReturnedInv, DoneMeansSent,
      Held, Live, RowStatus, MessageStatus, Stage, InHandStage

LEMMA EnqueueBase ==
  ASSUME NEW s \in Step, NEW m \in Message, BaseInv, EnqueueSend(s, m)
  PROVE  BaseInv'
  <1> USE StepAssumption, MessageAssumption, BoundAssumption
      DEF EnqueueSend, EnqueueEffect, BaseInv, rowVars, workerVars, budgetVars
  <1>1. TypeOK'  BY DEF TypeOK, RowStatus, MessageStatus
  <1>2. StageInv'  BY DEF StageInv
  <1>3. HeldInv'  BY DEF HeldInv, Held, TypeOK
  <1>4. RowInv'  BY DEF RowInv, Live, TypeOK
  <1>5. ReturnedInv'  BY DEF ReturnedInv, TypeOK, StageInv, HeldInv, Held, InHandStage, RowInv
  <1>6. DoneMeansSent'  BY DEF DoneMeansSent, TypeOK, RowInv
  <1> QED  BY <1>1, <1>2, <1>3, <1>4, <1>5, <1>6

LEMMA ClaimBase ==
  ASSUME NEW w \in Worker, BaseInv, Claim(w)
  PROVE  BaseInv'
  <1> USE StepAssumption, MessageAssumption, BoundAssumption
      DEF Claim, Claimable, BaseInv, rowVars, msgVars, workerVars, budgetVars
  <1>1. TypeOK'  BY DEF TypeOK, RowStatus, MessageStatus, Stage, StageInv, HeldInv, Held,
                        InHandStage, Live,
             RowInv
  <1>2. StageInv'  BY DEF StageInv, TypeOK, InHandStage, Stage
  <1>3. HeldInv'  BY DEF HeldInv, Held, TypeOK, StageInv, InHandStage, Live, RowInv
  <1>4. RowInv'  BY DEF RowInv, Live, TypeOK, StageInv, HeldInv, Held, InHandStage
  <1>5. ReturnedInv'  BY DEF ReturnedInv, TypeOK, StageInv, HeldInv, Held, InHandStage, RowInv
  <1>6. DoneMeansSent'  BY DEF DoneMeansSent, TypeOK, RowInv, ReturnedInv, StageInv, HeldInv,
                               Held, InHandStage
  <1> QED  BY <1>1, <1>2, <1>3, <1>4, <1>5, <1>6

LEMMA BeginBase ==
  ASSUME NEW w \in Worker, NEW s \in Step, BaseInv, Begin(w, s)
  PROVE  BaseInv'
  <1> USE StepAssumption, MessageAssumption, BoundAssumption
      DEF Begin, AlreadySent, BaseInv, rowVars, msgVars, workerVars, budgetVars
  <1>1. TypeOK'  BY DEF TypeOK, RowStatus, MessageStatus, Stage, StageInv, HeldInv, Held,
                        InHandStage, Live,
             RowInv
  <1>2. StageInv'  BY DEF StageInv, TypeOK, InHandStage, Stage
  <1>3. HeldInv'  BY DEF HeldInv, Held, TypeOK, StageInv, InHandStage, Live, RowInv
  <1>4. RowInv'  BY DEF RowInv, Live, TypeOK, StageInv, HeldInv, Held, InHandStage
  <1>5. ReturnedInv'  BY DEF ReturnedInv, TypeOK, StageInv, HeldInv, Held, InHandStage, RowInv
  <1>6. DoneMeansSent'  BY DEF DoneMeansSent, TypeOK, RowInv, ReturnedInv, StageInv, HeldInv,
                               Held, InHandStage
  <1> QED  BY <1>1, <1>2, <1>3, <1>4, <1>5, <1>6

LEMMA FinishBase ==
  ASSUME NEW w \in Worker, BaseInv, Finish(w)
  PROVE  BaseInv'
  <1> USE StepAssumption, MessageAssumption, BoundAssumption
      DEF Finish, BaseInv, rowVars, msgVars, workerVars, budgetVars
  <1>1. TypeOK'  BY DEF TypeOK, RowStatus, MessageStatus, Stage, StageInv, HeldInv, Held,
                        InHandStage, Live,
             RowInv
  <1>2. StageInv'  BY DEF StageInv, TypeOK, InHandStage, Stage
  <1>3. HeldInv'  BY DEF HeldInv, Held, TypeOK, StageInv, InHandStage, Live, RowInv
  <1>4. RowInv'  BY DEF RowInv, Live, TypeOK, StageInv, HeldInv, Held, InHandStage
  <1>5. ReturnedInv'  BY DEF ReturnedInv, TypeOK, StageInv, HeldInv, Held, InHandStage, RowInv
  <1>6. DoneMeansSent'  BY DEF DoneMeansSent, TypeOK, RowInv, ReturnedInv, StageInv, HeldInv,
                               Held, InHandStage
  <1> QED  BY <1>1, <1>2, <1>3, <1>4, <1>5, <1>6

LEMMA ProviderAcceptsBase ==
  ASSUME NEW w \in Worker, BaseInv, ProviderAccepts(w)
  PROVE  BaseInv'
  <1> USE StepAssumption, MessageAssumption, BoundAssumption
      DEF ProviderAccepts, Post, BaseInv, rowVars, msgVars, workerVars, budgetVars
  <1>1. TypeOK'  BY DEF TypeOK, RowStatus, MessageStatus, Stage, StageInv, HeldInv, Held,
                        InHandStage, Live,
             RowInv
  <1>2. StageInv'  BY DEF StageInv, TypeOK, InHandStage, Stage
  <1>3. HeldInv'  BY DEF HeldInv, Held, TypeOK, StageInv, InHandStage, Live, RowInv
  <1>4. RowInv'  BY DEF RowInv, Live, TypeOK, StageInv, HeldInv, Held, InHandStage
  <1>5. ReturnedInv'  BY DEF ReturnedInv, TypeOK, StageInv, HeldInv, Held, InHandStage, RowInv
  <1>6. DoneMeansSent'  BY DEF DoneMeansSent, TypeOK, RowInv, ReturnedInv, StageInv, HeldInv,
                               Held, InHandStage
  <1> QED  BY <1>1, <1>2, <1>3, <1>4, <1>5, <1>6

LEMMA ProviderRefusesBase ==
  ASSUME NEW w \in Worker, BaseInv, ProviderRefuses(w)
  PROVE  BaseInv'
  <1> USE StepAssumption, MessageAssumption, BoundAssumption
      DEF ProviderRefuses, BaseInv, rowVars, msgVars, workerVars, budgetVars
  <1>1. TypeOK'  BY DEF TypeOK, RowStatus, MessageStatus, Stage, StageInv, HeldInv, Held,
                        InHandStage, Live,
             RowInv
  <1>2. StageInv'  BY DEF StageInv, TypeOK, InHandStage, Stage
  <1>3. HeldInv'  BY DEF HeldInv, Held, TypeOK, StageInv, InHandStage, Live, RowInv
  <1>4. RowInv'  BY DEF RowInv, Live, TypeOK, StageInv, HeldInv, Held, InHandStage
  <1>5. ReturnedInv'  BY DEF ReturnedInv, TypeOK, StageInv, HeldInv, Held, InHandStage, RowInv
  <1>6. DoneMeansSent'  BY DEF DoneMeansSent, TypeOK, RowInv, ReturnedInv, StageInv, HeldInv,
                               Held, InHandStage
  <1> QED  BY <1>1, <1>2, <1>3, <1>4, <1>5, <1>6

LEMMA AnswerLostBase ==
  ASSUME NEW w \in Worker, BaseInv, AnswerLost(w)
  PROVE  BaseInv'
  <1> USE StepAssumption, MessageAssumption, BoundAssumption
      DEF AnswerLost, Post, BaseInv, rowVars, msgVars, workerVars, budgetVars
  <1>1. TypeOK'  BY DEF TypeOK, RowStatus, MessageStatus, Stage, StageInv, HeldInv, Held,
                        InHandStage, Live,
             RowInv
  <1>2. StageInv'  BY DEF StageInv, TypeOK, InHandStage, Stage
  <1>3. HeldInv'  BY DEF HeldInv, Held, TypeOK, StageInv, InHandStage, Live, RowInv
  <1>4. RowInv'  BY DEF RowInv, Live, TypeOK, StageInv, HeldInv, Held, InHandStage
  <1>5. ReturnedInv'  BY DEF ReturnedInv, TypeOK, StageInv, HeldInv, Held, InHandStage, RowInv
  <1>6. DoneMeansSent'  BY DEF DoneMeansSent, TypeOK, RowInv, ReturnedInv, StageInv, HeldInv,
                               Held, InHandStage
  <1> QED  BY <1>1, <1>2, <1>3, <1>4, <1>5, <1>6

LEMMA CommitSentBase ==
  ASSUME NEW w \in Worker, BaseInv, CommitSent(w)
  PROVE  BaseInv'
  <1> USE StepAssumption, MessageAssumption, BoundAssumption
      DEF CommitSent, BaseInv, rowVars, msgVars, workerVars, budgetVars
  <1>1. TypeOK'  BY DEF TypeOK, RowStatus, MessageStatus, Stage, StageInv, HeldInv, Held,
                        InHandStage, Live,
             RowInv
  <1>2. StageInv'  BY DEF StageInv, TypeOK, InHandStage, Stage
  <1>3. HeldInv'  BY DEF HeldInv, Held, TypeOK, StageInv, InHandStage, Live, RowInv
  <1>4. RowInv'  BY DEF RowInv, Live, TypeOK, StageInv, HeldInv, Held, InHandStage
  <1>5. ReturnedInv'  BY DEF ReturnedInv, TypeOK, StageInv, HeldInv, Held, InHandStage, RowInv
  <1>6. DoneMeansSent'  BY DEF DoneMeansSent, TypeOK, RowInv, ReturnedInv, StageInv, HeldInv,
                               Held, InHandStage
  <1> QED  BY <1>1, <1>2, <1>3, <1>4, <1>5, <1>6

LEMMA CommitFailsBase ==
  ASSUME NEW w \in Worker, BaseInv, CommitFails(w)
  PROVE  BaseInv'
  <1> USE StepAssumption, MessageAssumption, BoundAssumption
      DEF CommitFails, BaseInv, rowVars, msgVars, workerVars, budgetVars
  <1>1. TypeOK'  BY DEF TypeOK, RowStatus, MessageStatus, Stage, StageInv, HeldInv, Held,
                        InHandStage, Live,
             RowInv
  <1>2. StageInv'  BY DEF StageInv, TypeOK, InHandStage, Stage
  <1>3. HeldInv'  BY DEF HeldInv, Held, TypeOK, StageInv, InHandStage, Live, RowInv
  <1>4. RowInv'  BY DEF RowInv, Live, TypeOK, StageInv, HeldInv, Held, InHandStage
  <1>5. ReturnedInv'  BY DEF ReturnedInv, TypeOK, StageInv, HeldInv, Held, InHandStage, RowInv
  <1>6. DoneMeansSent'  BY DEF DoneMeansSent, TypeOK, RowInv, ReturnedInv, StageInv, HeldInv,
                               Held, InHandStage
  <1> QED  BY <1>1, <1>2, <1>3, <1>4, <1>5, <1>6

LEMMA MarkDoneBase ==
  ASSUME NEW w \in Worker, BaseInv, MarkDone(w)
  PROVE  BaseInv'
  <1> USE StepAssumption, MessageAssumption, BoundAssumption
      DEF MarkDone, PutDown, BaseInv, rowVars, msgVars, workerVars, budgetVars
  <1>1. TypeOK'  BY DEF TypeOK, RowStatus, MessageStatus, Stage, StageInv, HeldInv, Held,
                        InHandStage, Live,
             RowInv
  <1>2. StageInv'  BY DEF StageInv, TypeOK, InHandStage, Stage
  <1>3. HeldInv'  BY DEF HeldInv, Held, TypeOK, StageInv, InHandStage, Live, RowInv
  <1>4. RowInv'  BY DEF RowInv, Live, TypeOK, StageInv, HeldInv, Held, InHandStage
  <1>5. ReturnedInv'  BY DEF ReturnedInv, TypeOK, StageInv, HeldInv, Held, InHandStage, RowInv
  <1>6. DoneMeansSent'  BY DEF DoneMeansSent, TypeOK, RowInv, ReturnedInv, StageInv, HeldInv,
                               Held, InHandStage
  <1> QED  BY <1>1, <1>2, <1>3, <1>4, <1>5, <1>6

LEMMA MarkDoneFailsBase ==
  ASSUME NEW w \in Worker, BaseInv, MarkDoneFails(w)
  PROVE  BaseInv'
  <1> USE StepAssumption, MessageAssumption, BoundAssumption
      DEF MarkDoneFails, BaseInv, rowVars, msgVars, workerVars, budgetVars
  <1>1. TypeOK'  BY DEF TypeOK, RowStatus, MessageStatus, Stage, StageInv, HeldInv, Held,
                        InHandStage, Live,
             RowInv
  <1>2. StageInv'  BY DEF StageInv, TypeOK, InHandStage, Stage
  <1>3. HeldInv'  BY DEF HeldInv, Held, TypeOK, StageInv, InHandStage, Live, RowInv
  <1>4. RowInv'  BY DEF RowInv, Live, TypeOK, StageInv, HeldInv, Held, InHandStage
  <1>5. ReturnedInv'  BY DEF ReturnedInv, TypeOK, StageInv, HeldInv, Held, InHandStage, RowInv
  <1>6. DoneMeansSent'  BY DEF DoneMeansSent, TypeOK, RowInv, ReturnedInv, StageInv, HeldInv,
                               Held, InHandStage
  <1> QED  BY <1>1, <1>2, <1>3, <1>4, <1>5, <1>6

LEMMA MarkRetryBase ==
  ASSUME NEW w \in Worker, BaseInv, MarkRetry(w)
  PROVE  BaseInv'
  <1> USE StepAssumption, MessageAssumption, BoundAssumption
      DEF MarkRetry, PutDown, BaseInv, rowVars, msgVars, workerVars, budgetVars
  <1>0. /\ job[w] \in Step /\ snap[w] \in [Step -> 0..MaxAttempts]
        /\ snap[w][job[w]] + 1 \in 0..MaxAttempts
    BY DEF TypeOK, StageInv, HeldInv, Held, InHandStage
  <1>1. TypeOK'
    <2>1. status' \in [Step -> RowStatus]  BY <1>0 DEF TypeOK, RowStatus
    <2>2. attempts' \in [Step -> 0..MaxAttempts]  BY <1>0 DEF TypeOK
    <2>3. dlq' \in [Step -> Nat]
      <3>1. dlq \in [Step -> Nat]  BY DEF TypeOK
      <3>2. dlq' = dlq \/ dlq' = [dlq EXCEPT ![job[w]] = @ + 1]  BY Zenon
      <3> HIDE DEF MarkRetry, BaseInv
      <3>3. ASSUME NEW s \in Step PROVE dlq[s] + 1 \in Nat  BY <3>1
      <3> QED  BY <1>0, <3>1, <3>2, <3>3
    <2>6. due' \in SUBSET Step /\ stale' \in SUBSET Step
      <3>1. due' = due \/ due' = due \ {job[w]}  BY Zenon
      <3>2. stale' = stale \ {job[w]}  BY Zenon
      <3> QED  BY <3>1, <3>2, Zenon DEF TypeOK
    <2>4. snap' \in [Worker -> [Step -> 0..MaxAttempts]]
      <3>1. [snap[w] EXCEPT ![job[w]] = 0] \in [Step -> 0..MaxAttempts]  BY <1>0
      <3> QED  BY <3>1 DEF TypeOK
    <2>5. stage' \in [Worker -> Stage] /\ job' \in [Worker -> Step \cup {NoStep}]
      BY DEF TypeOK, Stage
    <2> QED  BY <2>1, <2>2, <2>3, <2>4, <2>5, <2>6 DEF TypeOK
  <1>2. StageInv'  BY DEF StageInv, TypeOK, InHandStage, Stage
  <1>3. HeldInv'  BY DEF HeldInv, Held, TypeOK, StageInv, InHandStage, Live, RowInv
  <1>4. RowInv'  BY DEF RowInv, Live, TypeOK, StageInv, HeldInv, Held, InHandStage
  <1>5. ReturnedInv'  BY DEF ReturnedInv, TypeOK, StageInv, HeldInv, Held, InHandStage, RowInv
  <1>6. DoneMeansSent'  BY DEF DoneMeansSent, TypeOK, RowInv, ReturnedInv, StageInv, HeldInv,
                               Held, InHandStage
  <1> QED  BY <1>1, <1>2, <1>3, <1>4, <1>5, <1>6

LEMMA CrashBase ==
  ASSUME NEW w \in Worker, BaseInv, Crash(w)
  PROVE  BaseInv'
  <1> USE StepAssumption, MessageAssumption, BoundAssumption
      DEF Crash, BaseInv, rowVars, msgVars, workerVars, budgetVars
  <1>1. TypeOK'  BY DEF TypeOK, RowStatus, MessageStatus, Stage, StageInv, HeldInv, Held,
                        InHandStage, Live,
             RowInv
  <1>2. StageInv'  BY DEF StageInv, TypeOK, InHandStage, Stage
  <1>3. HeldInv'  BY DEF HeldInv, Held, TypeOK, StageInv, InHandStage, Live, RowInv
  <1>4. RowInv'  BY DEF RowInv, Live, TypeOK, StageInv, HeldInv, Held, InHandStage
  <1>5. ReturnedInv'  BY DEF ReturnedInv, TypeOK, StageInv, HeldInv, Held, InHandStage, RowInv
  <1>6. DoneMeansSent'  BY DEF DoneMeansSent, TypeOK, RowInv, ReturnedInv, StageInv, HeldInv,
                               Held, InHandStage
  <1> QED  BY <1>1, <1>2, <1>3, <1>4, <1>5, <1>6

LEMMA BackoffElapsesBase ==
  ASSUME NEW s \in Step, BaseInv, BackoffElapses(s)
  PROVE  BaseInv'
  <1> USE StepAssumption, MessageAssumption, BoundAssumption
      DEF BackoffElapses, BaseInv, rowVars, msgVars, workerVars, budgetVars
  <1>1. TypeOK'  BY DEF TypeOK, RowStatus, MessageStatus, Stage, StageInv, HeldInv, Held,
                        InHandStage, Live,
             RowInv
  <1>2. StageInv'  BY DEF StageInv, TypeOK, InHandStage, Stage
  <1>3. HeldInv'  BY DEF HeldInv, Held, TypeOK, StageInv, InHandStage, Live, RowInv
  <1>4. RowInv'  BY DEF RowInv, Live, TypeOK, StageInv, HeldInv, Held, InHandStage
  <1>5. ReturnedInv'  BY DEF ReturnedInv, TypeOK, StageInv, HeldInv, Held, InHandStage, RowInv
  <1>6. DoneMeansSent'  BY DEF DoneMeansSent, TypeOK, RowInv, ReturnedInv, StageInv, HeldInv,
                               Held, InHandStage
  <1> QED  BY <1>1, <1>2, <1>3, <1>4, <1>5, <1>6

LEMMA GoesStaleBase ==
  ASSUME NEW s \in Step, BaseInv, GoesStale(s)
  PROVE  BaseInv'
  <1> USE StepAssumption, MessageAssumption, BoundAssumption
      DEF GoesStale, BaseInv, rowVars, msgVars, workerVars, budgetVars
  <1>1. TypeOK'  BY DEF TypeOK, RowStatus, MessageStatus, Stage, StageInv, HeldInv, Held,
                        InHandStage, Live,
             RowInv
  <1>2. StageInv'  BY DEF StageInv, TypeOK, InHandStage, Stage
  <1>3. HeldInv'  BY DEF HeldInv, Held, TypeOK, StageInv, InHandStage, Live, RowInv
  <1>4. RowInv'  BY DEF RowInv, Live, TypeOK, StageInv, HeldInv, Held, InHandStage
  <1>5. ReturnedInv'  BY DEF ReturnedInv, TypeOK, StageInv, HeldInv, Held, InHandStage, RowInv
  <1>6. DoneMeansSent'  BY DEF DoneMeansSent, TypeOK, RowInv, ReturnedInv, StageInv, HeldInv,
                               Held, InHandStage
  <1> QED  BY <1>1, <1>2, <1>3, <1>4, <1>5, <1>6

LEMMA PurgeBase ==
  ASSUME NEW s \in Step, BaseInv, Purge(s)
  PROVE  BaseInv'
  <1> USE StepAssumption, MessageAssumption, BoundAssumption
      DEF Purge, Settled, InHand, BaseInv, rowVars, msgVars, workerVars, budgetVars
  <1>1. TypeOK'  BY DEF TypeOK, RowStatus, MessageStatus, Stage, StageInv, HeldInv, Held,
                        InHandStage, Live,
             RowInv
  <1>2. StageInv'  BY DEF StageInv, TypeOK, InHandStage, Stage
  <1>3. HeldInv'  BY DEF HeldInv, Held, TypeOK, StageInv, InHandStage, Live, RowInv
  <1>4. RowInv'  BY DEF RowInv, Live, TypeOK, StageInv, HeldInv, Held, InHandStage
  <1>5. ReturnedInv'  BY DEF ReturnedInv, TypeOK, StageInv, HeldInv, Held, InHandStage, RowInv
  <1>6. DoneMeansSent'  BY DEF DoneMeansSent, TypeOK, RowInv, ReturnedInv, StageInv, HeldInv,
                               Held, InHandStage
  <1> QED  BY <1>1, <1>2, <1>3, <1>4, <1>5, <1>6

LEMMA ReapBase ==
  ASSUME BaseInv, Reap
  PROVE  BaseInv'
  <1> USE StepAssumption, MessageAssumption, BoundAssumption
      DEF Reap, BaseInv, rowVars, msgVars, workerVars, budgetVars
  <1>1. TypeOK'  BY DEF TypeOK, RowStatus, MessageStatus, Stage, StageInv, HeldInv, Held,
                        InHandStage, Live,
             RowInv
  <1>2. StageInv'  BY DEF StageInv, TypeOK, InHandStage, Stage
  <1>3. HeldInv'  BY DEF HeldInv, Held, TypeOK, StageInv, InHandStage, Live, RowInv
  <1>4. RowInv'  BY DEF RowInv, Live, TypeOK, StageInv, HeldInv, Held, InHandStage
  <1>5. ReturnedInv'  BY DEF ReturnedInv, TypeOK, StageInv, HeldInv, Held, InHandStage, RowInv
  <1>6. DoneMeansSent'  BY DEF DoneMeansSent, TypeOK, RowInv, ReturnedInv, StageInv, HeldInv,
                               Held, InHandStage
  <1> QED  BY <1>1, <1>2, <1>3, <1>4, <1>5, <1>6

LEMMA StutterBase == BaseInv /\ UNCHANGED vars => BaseInv'
  BY DEF vars, BaseInv, TypeOK, StageInv, HeldInv, RowInv, ReturnedInv, DoneMeansSent,
         Held, Live

LEMMA NextBase == BaseInv /\ [Next]_vars => BaseInv'
  BY EnqueueBase, ClaimBase, BeginBase, FinishBase, ProviderAcceptsBase,
     ProviderRefusesBase, AnswerLostBase, CommitSentBase, CommitFailsBase, MarkDoneBase,
     MarkDoneFailsBase, MarkRetryBase, CrashBase, BackoffElapsesBase, GoesStaleBase,
     PurgeBase, ReapBase, StutterBase
  DEF Next, WorkerStep

(* Every behaviour keeps the inductive invariant. *)
THEOREM BaseInvariance == Spec => []BaseInv
  BY InitBase, NextBase, PTL DEF Spec

(* A row marked DONE has a message recorded as SENT, however many crashes  *)
(* and overlaps there are and however many workers drain the table.        *)
THEOREM DoneMeansSentHolds == Spec => []DoneMeansSent
  <1>1. BaseInv => DoneMeansSent  BY DEF BaseInv
  <1> QED  BY BaseInvariance, <1>1, PTL

(* Type correctness. *)
THEOREM TypeCorrectness == Spec => []TypeOK
  <1>1. BaseInv => TypeOK  BY DEF BaseInv
  <1> QED  BY BaseInvariance, <1>1, PTL

-----------------------------------------------------------------------------
(* Part 2: what holds when no batch outlives the reaper's cutoff.          *)

(* A held row is IN_PROGRESS, fresh, held once, and its attempts are still *)
(* the ones its claim read.                                                *)
OwnInv ==
  \A w \in Worker : \A s \in Step :
    s \in Held(w) =>
      /\ status[s] = "IN_PROGRESS" /\ s \notin stale
      /\ snap[w][s] = attempts[s]
      /\ \A v \in Worker \ {w} : s \notin Held(v)

(* A row's message is inserted, and no other row names it.                 *)
PathInv ==
  \A s \in Step : status[s] # "NONE" =>
    /\ msg[payload[s]] # "ABSENT"
    /\ \A t \in Step \ {s} : status[t] # "NONE" => payload[t] # payload[s]

(* Nobody sends, or waits to record, a message that is already SENT.       *)
SendInv ==
  \A w \in Worker : stage[w] \in {"sending", "accepted"} => msg[payload[job[w]]] # "SENT"

(* Every acceptance is recorded (SENT), about to be, or lost.              *)
Charged(m) ==
  \/ msg[m] = "SENT"
  \/ \E w \in Worker : stage[w] = "accepted" /\ payload[job[w]] = m

AccountInv ==
  \A m \in Message : accepted[m] = unrecorded[m] + (IF Charged(m) THEN 1 ELSE 0)

OwnedInv == BaseInv /\ OwnInv /\ PathInv /\ SendInv /\ AccountInv /\ DeadMeansParked

LEMMA InitOwned == Init => OwnedInv
  <1> SUFFICES ASSUME Init PROVE OwnedInv  OBVIOUS
  <1>1. BaseInv  BY InitBase
  <1>2. OwnInv /\ PathInv /\ SendInv /\ DeadMeansParked
    BY DEF Init, OwnInv, PathInv, SendInv, DeadMeansParked, Held
  <1>3. AccountInv
    BY DEF Init, AccountInv, Charged
  <1> QED  BY <1>1, <1>2, <1>3 DEF OwnedInv

LEMMA EnqueueOwned ==
  ASSUME MaxOverlaps = 0, NEW s \in Step, NEW m \in Message, OwnedInv, EnqueueSend(s, m)
  PROVE  OwnedInv'
  <1> USE StepAssumption, MessageAssumption, BoundAssumption
      DEF EnqueueSend, EnqueueEffect, OwnedInv, BaseInv, rowVars, msgVars, workerVars, budgetVars
  <1>1. BaseInv'  BY EnqueueBase
  <1>2. OwnInv'  BY DEF OwnInv, TypeOK, StageInv, HeldInv, RowInv, Held, InHandStage, Live
  <1>a. \A t \in Step : status[t] # "NONE" => payload[t] \in Message /\ payload[t] # m
    BY DEF PathInv, RowInv
  <1>3. PathInv'
    <2>1. CASE status[s] # "NONE"  BY <2>1, <1>a DEF PathInv, TypeOK
    <2>2. CASE status[s] = "NONE"
      <3>1. payload' = [payload EXCEPT ![s] = m] /\ status' = [status EXCEPT ![s] = "PENDING"]
        BY <2>2
      <3> QED  BY <3>1, <1>a DEF PathInv, TypeOK
    <2> QED  BY <2>1, <2>2
  <1>b. \A v \in Worker : stage[v] \in InHandStage =>
          /\ job[v] \in Step /\ payload[job[v]] \in Message
          /\ payload'[job[v]] = payload[job[v]] /\ payload[job[v]] # m
    BY <1>a DEF StageInv, HeldInv, Held, TypeOK
  <1>4. SendInv'  BY <1>b DEF SendInv, TypeOK, InHandStage
  <1>5. AccountInv'  BY DEF AccountInv, Charged, OwnInv, PathInv, SendInv, TypeOK, StageInv,
                            HeldInv, RowInv, Held, InHandStage
  <1>6. DeadMeansParked'  BY DEF DeadMeansParked, OwnInv, Live, TypeOK, StageInv, HeldInv,
                                 RowInv, Held, InHandStage
  <1> QED  BY <1>1, <1>2, <1>3, <1>4, <1>5, <1>6

LEMMA ClaimOwned ==
  ASSUME MaxOverlaps = 0, NEW w \in Worker, OwnedInv, Claim(w)
  PROVE  OwnedInv'
  <1> USE StepAssumption, MessageAssumption, BoundAssumption
      DEF Claim, Claimable, OwnedInv, BaseInv, rowVars, msgVars, workerVars, budgetVars
  <1>1. BaseInv'  BY ClaimBase
  <1>2. OwnInv'
    <2>1. PICK S \in SUBSET Claimable :
            /\ status' = [s \in Step |-> IF s \in S THEN "IN_PROGRESS" ELSE status[s]]
            /\ stale' = stale \ S
            /\ todo' = [todo EXCEPT ![w] = S]
            /\ snap' = [snap EXCEPT ![w] = [s \in Step |-> IF s \in S THEN attempts[s] ELSE 0]]
      OBVIOUS
    <2>2. Held(w)' = S
      BY <2>1 DEF Held, TypeOK, StageInv, InHandStage
    <2>3. \A v \in Worker \ {w} : Held(v)' = Held(v) /\ snap'[v] = snap[v]
      BY <2>1 DEF Held, TypeOK
    <2>4. \A v \in Worker, s \in S : s \notin Held(v)
      BY <2>1 DEF OwnInv, TypeOK
    <2>5. snap'[w] = [s \in Step |-> IF s \in S THEN attempts[s] ELSE 0]
      BY <2>1 DEF TypeOK
    <2> HIDE DEF Claim
    <2> SUFFICES ASSUME NEW v \in Worker, NEW s \in Step, (s \in Held(v))'
                 PROVE  /\ status'[s] = "IN_PROGRESS" /\ s \notin stale'
                        /\ snap'[v][s] = attempts[s]
                        /\ \A u \in Worker \ {v} : (s \notin Held(u))'
      BY DEF OwnInv, Claim
    <2>6. CASE v = w
      <3>1. s \in S /\ snap'[v][s] = attempts[s]  BY <2>2, <2>5, <2>6
      <3>2. \A u \in Worker \ {v} : (s \notin Held(u))'  BY <2>3, <2>4, <2>6, <3>1
      <3> QED  BY <2>1, <3>1, <3>2
    <2>7. CASE v # w
      <3>1. s \in Held(v) /\ s \notin S  BY <2>3, <2>4, <2>7
      <3>2. \A u \in Worker \ {v} : (s \notin Held(u))'  BY <2>2, <2>3, <3>1 DEF OwnInv
      <3>3. snap'[v][s] = attempts[s]  BY <2>3, <2>7, <3>1 DEF OwnInv
      <3>4. status'[s] = "IN_PROGRESS" /\ s \notin stale'  BY <2>1, <3>1 DEF OwnInv
      <3> QED  BY <3>2, <3>3, <3>4
    <2> QED  BY <2>6, <2>7
  <1>3. PathInv'  BY DEF PathInv, OwnInv, TypeOK, StageInv, HeldInv, RowInv, Held, InHandStage
  <1>4. SendInv'  BY DEF SendInv, OwnInv, PathInv, TypeOK, StageInv, HeldInv, RowInv, Held,
                         InHandStage
  <1>5. AccountInv'  BY DEF AccountInv, Charged, OwnInv, PathInv, SendInv, TypeOK, StageInv,
                            HeldInv, RowInv, Held, InHandStage
  <1>6. DeadMeansParked'  BY DEF DeadMeansParked, OwnInv, Live, TypeOK, StageInv, HeldInv,
                                 RowInv, Held, InHandStage
  <1> QED  BY <1>1, <1>2, <1>3, <1>4, <1>5, <1>6

LEMMA BeginOwned ==
  ASSUME MaxOverlaps = 0, NEW w \in Worker, NEW s \in Step, OwnedInv, Begin(w, s)
  PROVE  OwnedInv'
  <1> USE StepAssumption, MessageAssumption, BoundAssumption
      DEF Begin, AlreadySent, OwnedInv, BaseInv, rowVars, msgVars, workerVars, budgetVars
  <1>1. BaseInv'  BY BeginBase
  <1>2. OwnInv'  BY DEF OwnInv, TypeOK, StageInv, HeldInv, RowInv, Held, InHandStage, Live
  <1>3. PathInv'  BY DEF PathInv, OwnInv, TypeOK, StageInv, HeldInv, RowInv, Held, InHandStage
  <1>4. SendInv'  BY DEF SendInv, OwnInv, PathInv, TypeOK, StageInv, HeldInv, RowInv, Held,
                         InHandStage
  <1>5. AccountInv'  BY DEF AccountInv, Charged, OwnInv, PathInv, SendInv, TypeOK, StageInv,
                            HeldInv, RowInv, Held, InHandStage
  <1>6. DeadMeansParked'  BY DEF DeadMeansParked, OwnInv, Live, TypeOK, StageInv, HeldInv,
                                 RowInv, Held, InHandStage
  <1> QED  BY <1>1, <1>2, <1>3, <1>4, <1>5, <1>6

LEMMA FinishOwned ==
  ASSUME MaxOverlaps = 0, NEW w \in Worker, OwnedInv, Finish(w)
  PROVE  OwnedInv'
  <1> USE StepAssumption, MessageAssumption, BoundAssumption
      DEF Finish, OwnedInv, BaseInv, rowVars, msgVars, workerVars, budgetVars
  <1>1. BaseInv'  BY FinishBase
  <1>2. OwnInv'  BY DEF OwnInv, TypeOK, StageInv, HeldInv, RowInv, Held, InHandStage, Live
  <1>3. PathInv'  BY DEF PathInv, OwnInv, TypeOK, StageInv, HeldInv, RowInv, Held, InHandStage
  <1>4. SendInv'  BY DEF SendInv, OwnInv, PathInv, TypeOK, StageInv, HeldInv, RowInv, Held,
                         InHandStage
  <1>5. AccountInv'  BY DEF AccountInv, Charged, OwnInv, PathInv, SendInv, TypeOK, StageInv,
                            HeldInv, RowInv, Held, InHandStage
  <1>6. DeadMeansParked'  BY DEF DeadMeansParked, OwnInv, Live, TypeOK, StageInv, HeldInv,
                                 RowInv, Held, InHandStage
  <1> QED  BY <1>1, <1>2, <1>3, <1>4, <1>5, <1>6

LEMMA ProviderAcceptsOwned ==
  ASSUME MaxOverlaps = 0, NEW w \in Worker, OwnedInv, ProviderAccepts(w)
  PROVE  OwnedInv'
  <1> USE StepAssumption, MessageAssumption, BoundAssumption
      DEF ProviderAccepts, Post, OwnedInv, BaseInv, rowVars, msgVars, workerVars, budgetVars
  <1>1. BaseInv'  BY ProviderAcceptsBase
  <1>2. OwnInv'  BY DEF OwnInv, TypeOK, StageInv, HeldInv, RowInv, Held, InHandStage, Live
  <1>3. PathInv'  BY DEF PathInv, OwnInv, TypeOK, StageInv, HeldInv, RowInv, Held, InHandStage
  <1>4. SendInv'  BY DEF SendInv, OwnInv, PathInv, TypeOK, StageInv, HeldInv, RowInv, Held,
                         InHandStage
  <1>5. AccountInv'  BY DEF AccountInv, Charged, OwnInv, PathInv, SendInv, TypeOK, StageInv,
                            HeldInv, RowInv, Held, InHandStage
  <1>6. DeadMeansParked'  BY DEF DeadMeansParked, OwnInv, Live, TypeOK, StageInv, HeldInv,
                                 RowInv, Held, InHandStage
  <1> QED  BY <1>1, <1>2, <1>3, <1>4, <1>5, <1>6

LEMMA ProviderRefusesOwned ==
  ASSUME MaxOverlaps = 0, NEW w \in Worker, OwnedInv, ProviderRefuses(w)
  PROVE  OwnedInv'
  <1> USE StepAssumption, MessageAssumption, BoundAssumption
      DEF ProviderRefuses, OwnedInv, BaseInv, rowVars, msgVars, workerVars, budgetVars
  <1>1. BaseInv'  BY ProviderRefusesBase
  <1>2. OwnInv'  BY DEF OwnInv, TypeOK, StageInv, HeldInv, RowInv, Held, InHandStage, Live
  <1>3. PathInv'  BY DEF PathInv, OwnInv, TypeOK, StageInv, HeldInv, RowInv, Held, InHandStage
  <1>4. SendInv'  BY DEF SendInv, OwnInv, PathInv, TypeOK, StageInv, HeldInv, RowInv, Held,
                         InHandStage
  <1>5. AccountInv'  BY DEF AccountInv, Charged, OwnInv, PathInv, SendInv, TypeOK, StageInv,
                            HeldInv, RowInv, Held, InHandStage
  <1>6. DeadMeansParked'  BY DEF DeadMeansParked, OwnInv, Live, TypeOK, StageInv, HeldInv,
                                 RowInv, Held, InHandStage
  <1> QED  BY <1>1, <1>2, <1>3, <1>4, <1>5, <1>6

LEMMA AnswerLostOwned ==
  ASSUME MaxOverlaps = 0, NEW w \in Worker, OwnedInv, AnswerLost(w)
  PROVE  OwnedInv'
  <1> USE StepAssumption, MessageAssumption, BoundAssumption
      DEF AnswerLost, Post, OwnedInv, BaseInv, rowVars, msgVars, workerVars, budgetVars
  <1>1. BaseInv'  BY AnswerLostBase
  <1>2. OwnInv'  BY DEF OwnInv, TypeOK, StageInv, HeldInv, RowInv, Held, InHandStage, Live
  <1>3. PathInv'  BY DEF PathInv, OwnInv, TypeOK, StageInv, HeldInv, RowInv, Held, InHandStage
  <1>4. SendInv'  BY DEF SendInv, OwnInv, PathInv, TypeOK, StageInv, HeldInv, RowInv, Held,
                         InHandStage
  <1>5. AccountInv'  BY DEF AccountInv, Charged, OwnInv, PathInv, SendInv, TypeOK, StageInv,
                            HeldInv, RowInv, Held, InHandStage
  <1>6. DeadMeansParked'  BY DEF DeadMeansParked, OwnInv, Live, TypeOK, StageInv, HeldInv,
                                 RowInv, Held, InHandStage
  <1> QED  BY <1>1, <1>2, <1>3, <1>4, <1>5, <1>6

LEMMA CommitSentOwned ==
  ASSUME MaxOverlaps = 0, NEW w \in Worker, OwnedInv, CommitSent(w)
  PROVE  OwnedInv'
  <1> USE StepAssumption, MessageAssumption, BoundAssumption
      DEF CommitSent, OwnedInv, BaseInv, rowVars, msgVars, workerVars, budgetVars
  <1>1. BaseInv'  BY CommitSentBase
  <1>2. OwnInv'  BY DEF OwnInv, TypeOK, StageInv, HeldInv, RowInv, Held, InHandStage, Live
  <1>3. PathInv'  BY DEF PathInv, OwnInv, TypeOK, StageInv, HeldInv, RowInv, Held, InHandStage
  <1>4. SendInv'  BY DEF SendInv, OwnInv, PathInv, TypeOK, StageInv, HeldInv, RowInv, Held,
                         InHandStage
  <1>5. AccountInv'  BY DEF AccountInv, Charged, OwnInv, PathInv, SendInv, TypeOK, StageInv,
                            HeldInv, RowInv, Held, InHandStage
  <1>6. DeadMeansParked'  BY DEF DeadMeansParked, OwnInv, Live, TypeOK, StageInv, HeldInv,
                                 RowInv, Held, InHandStage
  <1> QED  BY <1>1, <1>2, <1>3, <1>4, <1>5, <1>6

LEMMA CommitFailsOwned ==
  ASSUME MaxOverlaps = 0, NEW w \in Worker, OwnedInv, CommitFails(w)
  PROVE  OwnedInv'
  <1> USE StepAssumption, MessageAssumption, BoundAssumption
      DEF CommitFails, OwnedInv, BaseInv, rowVars, msgVars, workerVars, budgetVars
  <1>1. BaseInv'  BY CommitFailsBase
  <1>2. OwnInv'  BY DEF OwnInv, TypeOK, StageInv, HeldInv, RowInv, Held, InHandStage, Live
  <1>3. PathInv'  BY DEF PathInv, OwnInv, TypeOK, StageInv, HeldInv, RowInv, Held, InHandStage
  <1>4. SendInv'  BY DEF SendInv, OwnInv, PathInv, TypeOK, StageInv, HeldInv, RowInv, Held,
                         InHandStage
  <1>5. AccountInv'  BY DEF AccountInv, Charged, OwnInv, PathInv, SendInv, TypeOK, StageInv,
                            HeldInv, RowInv, Held, InHandStage
  <1>6. DeadMeansParked'  BY DEF DeadMeansParked, OwnInv, Live, TypeOK, StageInv, HeldInv,
                                 RowInv, Held, InHandStage
  <1> QED  BY <1>1, <1>2, <1>3, <1>4, <1>5, <1>6

LEMMA MarkDoneOwned ==
  ASSUME MaxOverlaps = 0, NEW w \in Worker, OwnedInv, MarkDone(w)
  PROVE  OwnedInv'
  <1> USE StepAssumption, MessageAssumption, BoundAssumption
      DEF MarkDone, PutDown, OwnedInv, BaseInv, rowVars, msgVars, workerVars, budgetVars
  <1>1. BaseInv'  BY MarkDoneBase
  <1>2. OwnInv'  BY DEF OwnInv, TypeOK, StageInv, HeldInv, RowInv, Held, InHandStage, Live
  <1>3. PathInv'  BY DEF PathInv, OwnInv, TypeOK, StageInv, HeldInv, RowInv, Held, InHandStage
  <1>4. SendInv'  BY DEF SendInv, OwnInv, PathInv, TypeOK, StageInv, HeldInv, RowInv, Held,
                         InHandStage
  <1>5. AccountInv'  BY DEF AccountInv, Charged, OwnInv, PathInv, SendInv, TypeOK, StageInv,
                            HeldInv, RowInv, Held, InHandStage
  <1>6. DeadMeansParked'  BY DEF DeadMeansParked, OwnInv, Live, TypeOK, StageInv, HeldInv,
                                 RowInv, Held, InHandStage
  <1> QED  BY <1>1, <1>2, <1>3, <1>4, <1>5, <1>6

LEMMA MarkDoneFailsOwned ==
  ASSUME MaxOverlaps = 0, NEW w \in Worker, OwnedInv, MarkDoneFails(w)
  PROVE  OwnedInv'
  <1> USE StepAssumption, MessageAssumption, BoundAssumption
      DEF MarkDoneFails, OwnedInv, BaseInv, rowVars, msgVars, workerVars, budgetVars
  <1>1. BaseInv'  BY MarkDoneFailsBase
  <1>2. OwnInv'  BY DEF OwnInv, TypeOK, StageInv, HeldInv, RowInv, Held, InHandStage, Live
  <1>3. PathInv'  BY DEF PathInv, OwnInv, TypeOK, StageInv, HeldInv, RowInv, Held, InHandStage
  <1>4. SendInv'  BY DEF SendInv, OwnInv, PathInv, TypeOK, StageInv, HeldInv, RowInv, Held,
                         InHandStage
  <1>5. AccountInv'  BY DEF AccountInv, Charged, OwnInv, PathInv, SendInv, TypeOK, StageInv,
                            HeldInv, RowInv, Held, InHandStage
  <1>6. DeadMeansParked'  BY DEF DeadMeansParked, OwnInv, Live, TypeOK, StageInv, HeldInv,
                                 RowInv, Held, InHandStage
  <1> QED  BY <1>1, <1>2, <1>3, <1>4, <1>5, <1>6

LEMMA MarkRetryOwned ==
  ASSUME MaxOverlaps = 0, NEW w \in Worker, OwnedInv, MarkRetry(w)
  PROVE  OwnedInv'
  <1> USE StepAssumption, MessageAssumption, BoundAssumption
      DEF MarkRetry, PutDown, OwnedInv, BaseInv, rowVars, msgVars, workerVars, budgetVars
  <1>1. BaseInv'  BY MarkRetryBase
  <1>2. OwnInv'  BY DEF OwnInv, TypeOK, StageInv, HeldInv, RowInv, Held, InHandStage, Live
  <1>3. PathInv'  BY DEF PathInv, OwnInv, TypeOK, StageInv, HeldInv, RowInv, Held, InHandStage
  <1>4. SendInv'  BY DEF SendInv, OwnInv, PathInv, TypeOK, StageInv, HeldInv, RowInv, Held,
                         InHandStage
  <1>5. AccountInv'  BY DEF AccountInv, Charged, OwnInv, PathInv, SendInv, TypeOK, StageInv,
                            HeldInv, RowInv, Held, InHandStage
  <1>6. DeadMeansParked'  BY DEF DeadMeansParked, OwnInv, Live, TypeOK, StageInv, HeldInv,
                                 RowInv, Held, InHandStage
  <1> QED  BY <1>1, <1>2, <1>3, <1>4, <1>5, <1>6

LEMMA CrashOwned ==
  ASSUME MaxOverlaps = 0, NEW w \in Worker, OwnedInv, Crash(w)
  PROVE  OwnedInv'
  <1> USE StepAssumption, MessageAssumption, BoundAssumption
      DEF Crash, OwnedInv, BaseInv, rowVars, msgVars, workerVars, budgetVars
  <1>1. BaseInv'  BY CrashBase
  <1>2. OwnInv'  BY DEF OwnInv, TypeOK, StageInv, HeldInv, RowInv, Held, InHandStage, Live
  <1>3. PathInv'  BY DEF PathInv, OwnInv, TypeOK, StageInv, HeldInv, RowInv, Held, InHandStage
  <1>4. SendInv'  BY DEF SendInv, OwnInv, PathInv, TypeOK, StageInv, HeldInv, RowInv, Held,
                         InHandStage
  <1>5. AccountInv'
    <2>1. CASE stage[w] = "accepted"
      <3>1. job[w] \in Step /\ payload[job[w]] \in Message /\ msg[payload[job[w]]] # "SENT"
        BY <2>1 DEF SendInv, TypeOK, StageInv, HeldInv, RowInv, Held, InHandStage
      <3>2. \A v \in Worker \ {w} : stage[v] = "accepted" => payload[job[v]] # payload[job[w]]
        BY <2>1 DEF OwnInv, PathInv, TypeOK, StageInv, HeldInv, RowInv, Held, InHandStage
      <3>3. PICK p \in Message : p = payload[job[w]]  BY <3>1
      <3>4. Charged(p)  BY <2>1, <3>3 DEF Charged
      <3>5. ~(Charged(p)')  BY <3>1, <3>2, <3>3 DEF Charged, TypeOK
      <3>6. \A m \in Message \ {p} : Charged(m)' <=> Charged(m)
        BY <2>1, <3>3 DEF Charged, TypeOK
      <3>7. unrecorded' = [unrecorded EXCEPT ![p] = @ + 1] /\ accepted' = accepted
        BY <2>1, <3>3
      <3> HIDE DEF Crash
      <3> QED  BY <3>4, <3>5, <3>6, <3>7 DEF AccountInv, TypeOK
    <2>2. CASE stage[w] # "accepted"
      <3>1. \A m \in Message : Charged(m)' <=> Charged(m)
        BY <2>2 DEF Charged, TypeOK
      <3> QED  BY <2>2, <3>1 DEF AccountInv, TypeOK
    <2> QED  BY <2>1, <2>2
  <1>6. DeadMeansParked'  BY DEF DeadMeansParked, OwnInv, Live, TypeOK, StageInv, HeldInv,
                                 RowInv, Held, InHandStage
  <1> QED  BY <1>1, <1>2, <1>3, <1>4, <1>5, <1>6

LEMMA BackoffElapsesOwned ==
  ASSUME MaxOverlaps = 0, NEW s \in Step, OwnedInv, BackoffElapses(s)
  PROVE  OwnedInv'
  <1> USE StepAssumption, MessageAssumption, BoundAssumption
      DEF BackoffElapses, OwnedInv, BaseInv, rowVars, msgVars, workerVars, budgetVars
  <1>1. BaseInv'  BY BackoffElapsesBase
  <1>2. OwnInv'  BY DEF OwnInv, TypeOK, StageInv, HeldInv, RowInv, Held, InHandStage, Live
  <1>3. PathInv'  BY DEF PathInv, OwnInv, TypeOK, StageInv, HeldInv, RowInv, Held, InHandStage
  <1>4. SendInv'  BY DEF SendInv, OwnInv, PathInv, TypeOK, StageInv, HeldInv, RowInv, Held,
                         InHandStage
  <1>5. AccountInv'  BY DEF AccountInv, Charged, OwnInv, PathInv, SendInv, TypeOK, StageInv,
                            HeldInv, RowInv, Held, InHandStage
  <1>6. DeadMeansParked'  BY DEF DeadMeansParked, OwnInv, Live, TypeOK, StageInv, HeldInv,
                                 RowInv, Held, InHandStage
  <1> QED  BY <1>1, <1>2, <1>3, <1>4, <1>5, <1>6

LEMMA GoesStaleOwned ==
  ASSUME MaxOverlaps = 0, NEW s \in Step, OwnedInv, GoesStale(s)
  PROVE  OwnedInv'
  <1> USE StepAssumption, MessageAssumption, BoundAssumption
      DEF GoesStale, InHand, OwnedInv, BaseInv, rowVars, msgVars, workerVars, budgetVars
  <1>1. BaseInv'  BY GoesStaleBase
  <1>2. OwnInv'  BY DEF OwnInv, TypeOK, StageInv, HeldInv, RowInv, Held, InHandStage, Live
  <1>3. PathInv'  BY DEF PathInv, OwnInv, TypeOK, StageInv, HeldInv, RowInv, Held, InHandStage
  <1>4. SendInv'  BY DEF SendInv, OwnInv, PathInv, TypeOK, StageInv, HeldInv, RowInv, Held,
                         InHandStage
  <1>5. AccountInv'  BY DEF AccountInv, Charged, OwnInv, PathInv, SendInv, TypeOK, StageInv,
                            HeldInv, RowInv, Held, InHandStage
  <1>6. DeadMeansParked'  BY DEF DeadMeansParked, OwnInv, Live, TypeOK, StageInv, HeldInv,
                                 RowInv, Held, InHandStage
  <1> QED  BY <1>1, <1>2, <1>3, <1>4, <1>5, <1>6

LEMMA PurgeOwned ==
  ASSUME MaxOverlaps = 0, NEW s \in Step, OwnedInv, Purge(s)
  PROVE  OwnedInv'
  <1> USE StepAssumption, MessageAssumption, BoundAssumption
      DEF Purge, Settled, InHand, OwnedInv, BaseInv, rowVars, msgVars, workerVars, budgetVars
  <1>1. BaseInv'  BY PurgeBase
  <1>2. OwnInv'  BY DEF OwnInv, TypeOK, StageInv, HeldInv, RowInv, Held, InHandStage, Live
  <1>3. PathInv'  BY DEF PathInv, OwnInv, TypeOK, StageInv, HeldInv, RowInv, Held, InHandStage
  <1>4. SendInv'  BY DEF SendInv, OwnInv, PathInv, TypeOK, StageInv, HeldInv, RowInv, Held,
                         InHandStage
  <1>5. AccountInv'  BY DEF AccountInv, Charged, OwnInv, PathInv, SendInv, TypeOK, StageInv,
                            HeldInv, RowInv, Held, InHandStage
  <1>6. DeadMeansParked'  BY DEF DeadMeansParked, OwnInv, Live, TypeOK, StageInv, HeldInv,
                                 RowInv, Held, InHandStage
  <1> QED  BY <1>1, <1>2, <1>3, <1>4, <1>5, <1>6

LEMMA ReapOwned ==
  ASSUME MaxOverlaps = 0, OwnedInv, Reap
  PROVE  OwnedInv'
  <1> USE StepAssumption, MessageAssumption, BoundAssumption
      DEF Reap, OwnedInv, BaseInv, rowVars, msgVars, workerVars, budgetVars
  <1>1. BaseInv'  BY ReapBase
  <1>2. OwnInv'  BY DEF OwnInv, TypeOK, StageInv, HeldInv, RowInv, Held, InHandStage, Live
  <1>3. PathInv'  BY DEF PathInv, OwnInv, TypeOK, StageInv, HeldInv, RowInv, Held, InHandStage
  <1>4. SendInv'  BY DEF SendInv, OwnInv, PathInv, TypeOK, StageInv, HeldInv, RowInv, Held,
                         InHandStage
  <1>5. AccountInv'  BY DEF AccountInv, Charged, OwnInv, PathInv, SendInv, TypeOK, StageInv,
                            HeldInv, RowInv, Held, InHandStage
  <1>6. DeadMeansParked'  BY DEF DeadMeansParked, OwnInv, Live, TypeOK, StageInv, HeldInv,
                                 RowInv, Held, InHandStage
  <1> QED  BY <1>1, <1>2, <1>3, <1>4, <1>5, <1>6

LEMMA StutterOwned == OwnedInv /\ UNCHANGED vars => OwnedInv'
  <1> SUFFICES ASSUME OwnedInv, UNCHANGED vars PROVE OwnedInv'  OBVIOUS
  <1>1. BaseInv'  BY StutterBase DEF OwnedInv
  <1>2. OwnInv' /\ PathInv' /\ SendInv' /\ DeadMeansParked'
    BY DEF vars, OwnedInv, OwnInv, PathInv, SendInv, DeadMeansParked, Held
  <1>3. AccountInv'
    BY DEF vars, OwnedInv, AccountInv, Charged
  <1> QED  BY <1>1, <1>2, <1>3 DEF OwnedInv

LEMMA NextOwned ==
  ASSUME MaxOverlaps = 0
  PROVE  OwnedInv /\ [Next]_vars => OwnedInv'
  BY EnqueueOwned, ClaimOwned, BeginOwned, FinishOwned, ProviderAcceptsOwned,
     ProviderRefusesOwned, AnswerLostOwned, CommitSentOwned, CommitFailsOwned, MarkDoneOwned,
     MarkDoneFailsOwned, MarkRetryOwned, CrashOwned, BackoffElapsesOwned, GoesStaleOwned,
     PurgeOwned, ReapOwned, StutterOwned
  DEF Next, WorkerStep

(* With no overlap every behaviour keeps the stronger invariant. *)
THEOREM OwnedInvariance == ASSUME MaxOverlaps = 0 PROVE Spec => []OwnedInv
  BY InitOwned, NextOwned, PTL DEF Spec

(* A claimed row belongs to one worker until that worker puts it down.     *)
THEOREM ExclusiveClaimHolds == ASSUME MaxOverlaps = 0 PROVE Spec => []ExclusiveClaim
  <1>1. OwnedInv => ExclusiveClaim
    BY DEF OwnedInv, OwnInv, ExclusiveClaim, BaseInv, TypeOK, Held
  <1> QED  BY OwnedInvariance, <1>1, PTL

(* The provider sees a message again only after an acceptance was lost.    *)
THEOREM RepeatsAreLossesHolds == ASSUME MaxOverlaps = 0 PROVE Spec => []RepeatsAreLosses
  <1>1. OwnedInv => RepeatsAreLosses
    BY DEF OwnedInv, AccountInv, RepeatsAreLosses, BaseInv, TypeOK
  <1> QED  BY OwnedInvariance, <1>1, PTL

(* DEAD rows and dead letters correspond one to one.                       *)
THEOREM DeadMeansParkedHolds == ASSUME MaxOverlaps = 0 PROVE Spec => []DeadMeansParked
  <1>1. OwnedInv => DeadMeansParked  BY DEF OwnedInv
  <1> QED  BY OwnedInvariance, <1>1, PTL

-----------------------------------------------------------------------------
(* Part 3: steps of the same system, still without overlaps.               *)

(* A row that stays, and was live, has at least as many attempts as before.*)
LEMMA StepCountsRetries ==
  ASSUME OwnedInv, Next, NEW s \in Step, Live(s), status'[s] # "NONE"
  PROVE  attempts'[s] >= attempts[s]
  <1>1. attempts[s] \in Nat
    BY DEF OwnedInv, BaseInv, TypeOK
  <1>2. ASSUME NEW t \in Step, NEW m \in Message, EnqueueSend(t, m)
        PROVE  attempts'[s] = attempts[s]
    BY <1>2 DEF EnqueueSend, EnqueueEffect, rowVars, Live, OwnedInv, BaseInv, TypeOK
  <1>3. ASSUME NEW w \in Worker, MarkRetry(w)
        PROVE  attempts'[s] >= attempts[s]
    <2>1. job[w] \in Step /\ snap[w][job[w]] = attempts[job[w]]
      BY <1>3 DEF MarkRetry, OwnedInv, BaseInv, TypeOK, StageInv, InHandStage, OwnInv, Held
    <2>2. attempts' = [attempts EXCEPT ![job[w]] = attempts[job[w]] + 1]
      BY <1>3, <2>1 DEF MarkRetry
    <2> QED  BY <1>1, <2>1, <2>2 DEF OwnedInv, BaseInv, TypeOK
  <1>4. ASSUME NEW t \in Step, Purge(t)
        PROVE  attempts'[s] = attempts[s]
    BY <1>4 DEF Purge, OwnedInv, BaseInv, TypeOK
  <1>5. ASSUME UNCHANGED attempts
        PROVE  attempts'[s] = attempts[s]
    BY <1>5
  <1> QED
    BY <1>1, <1>2, <1>3, <1>4, <1>5
    DEF Next, WorkerStep, rowVars, Claim, Begin, Finish, ProviderAccepts, ProviderRefuses,
        AnswerLost, CommitSent, CommitFails, MarkDone, MarkDoneFails, Crash, BackoffElapses,
        GoesStale, Reap

(* The attempts of a live row never go down: mark_retry, which counts from *)
(* what its claim read, never writes over a later count (core/outbox.py).  *)
THEOREM RetriesAreAlwaysCounted == ASSUME MaxOverlaps = 0 PROVE Spec => RetriesAreCounted
  <1>1. OwnedInv /\ [Next]_vars
          => [\A s \in Step : Live(s) /\ status'[s] # "NONE" => attempts'[s] >= attempts[s]]_vars
    BY StepCountsRetries
  <1> QED  BY <1>1, OwnedInvariance, PTL DEF Spec, RetriesAreCounted

(* The refinement mapping of Outbox!Ledger.                                *)
Outcome == [s \in Step |-> CASE status[s] = "NONE" -> "none"
                             [] Live(s) -> "owed"
                             [] status[s] = "DONE" -> "settled"
                             [] OTHER -> "parked"]
Carried == {s \in Step : status[s] # "NONE" /\ msg[payload[s]] = "SENT"}

LEMMA OutcomeOfRow ==
  \A s \in Step : /\ status[s] = "NONE" => Outcome[s] = "none"
                  /\ Live(s) => Outcome[s] = "owed"
                  /\ status[s] = "DONE" => Outcome[s] = "settled"
                  /\ status[s] = "DEAD" => Outcome[s] = "parked"
  BY DEF Outcome, Live

LEMMA LedgerStart == Init => Ledger!LedgerInit
  <1> SUFFICES ASSUME Init  PROVE Ledger!LedgerInit
    OBVIOUS
  <1>1. \A s \in Step : status[s] = "NONE"
    BY DEF Init
  <1>2. Outcome = [s \in Step |-> "none"]
    <2>1. \A s \in Step : Outcome[s] = "none"
      BY <1>1, OutcomeOfRow
    <2> QED  BY <2>1 DEF Outcome
  <1>3. Carried = {}
    BY <1>1 DEF Carried
  <1> QED  BY <1>2, <1>3 DEF Ledger!LedgerInit, Outcome, Carried

(* Whoever leaves the rows' outcomes, and what is sent, alone stutters.    *)
LEMMA LedgerStutters ==
  ASSUME UNCHANGED <<payload, msg>>,
         \A s \in Step : status'[s] = status[s] \/ (Live(s) /\ Live(s)')
  PROVE  UNCHANGED Ledger!ledgerVars
  <1>1. Outcome' = Outcome
    BY DEF Outcome, Live
  <1>2. Carried' = Carried
    BY DEF Carried, Live
  <1> QED  BY <1>1, <1>2 DEF Ledger!ledgerVars, Outcome, Carried

(* One row changes its outcome.                                            *)
LEMMA OutcomeMoves ==
  ASSUME TypeOK, NEW s \in Step, NEW new \in RowStatus, status' = [status EXCEPT ![s] = new]
  PROVE  /\ new = "NONE" => Outcome' = [Outcome EXCEPT ![s] = "none"]
         /\ new \in {"PENDING", "IN_PROGRESS"} => Outcome' = [Outcome EXCEPT ![s] = "owed"]
         /\ new = "DONE" => Outcome' = [Outcome EXCEPT ![s] = "settled"]
         /\ new = "DEAD" => Outcome' = [Outcome EXCEPT ![s] = "parked"]
  <1>1. status'[s] = new /\ \A t \in Step : t # s => status'[t] = status[t]
    BY DEF TypeOK
  <1> QED  BY <1>1 DEF Outcome, Live

LEMMA EnqueueLedger ==
  ASSUME OwnedInv, NEW s \in Step, NEW m \in Message, EnqueueSend(s, m)
  PROVE  Ledger!Promise(s) \/ UNCHANGED Ledger!ledgerVars
  <1>1. msg[m] = "ABSENT" /\ msg' = [msg EXCEPT ![m] = "QUEUED"]
    BY DEF EnqueueSend
  <1>2. \A t \in Step : status[t] # "NONE" => payload[t] \in Message /\ payload[t] # m
    BY <1>1 DEF OwnedInv, BaseInv, RowInv, PathInv
  <1>3. CASE status[s] = "NONE"
    <2>1. /\ status' = [status EXCEPT ![s] = "PENDING"] /\ payload' = [payload EXCEPT ![s] = m]
      BY <1>3 DEF EnqueueSend, EnqueueEffect
    <2>2. Outcome[s] = "none" /\ Outcome' = [Outcome EXCEPT ![s] = "owed"]
      BY <1>3, <2>1, OutcomeMoves, OutcomeOfRow DEF OwnedInv, BaseInv, RowStatus
    <2>3. Carried' = Carried
      BY <1>1, <1>2, <1>3, <2>1 DEF Carried, OwnedInv, BaseInv, TypeOK
    <2> QED  BY <2>2, <2>3 DEF Ledger!Promise, Outcome, Carried
  <1>4. CASE status[s] # "NONE"
    <2>1. UNCHANGED rowVars
      BY <1>4 DEF EnqueueSend, EnqueueEffect
    <2>2. Outcome' = Outcome
      BY <2>1 DEF Outcome, Live, rowVars
    <2>3. Carried' = Carried
      BY <1>1, <1>2, <2>1 DEF Carried, OwnedInv, BaseInv, TypeOK, rowVars
    <2> QED  BY <2>2, <2>3 DEF Ledger!ledgerVars, Outcome, Carried
  <1> QED  BY <1>3, <1>4

(* The row a worker has in hand is owed.                                   *)
LEMMA InHandIsOwed ==
  ASSUME OwnedInv, NEW w \in Worker, stage[w] \in InHandStage
  PROVE  /\ job[w] \in Step /\ status[job[w]] = "IN_PROGRESS" /\ payload[job[w]] \in Message
         /\ Outcome[job[w]] = "owed"
  <1>1. job[w] \in Step /\ job[w] \in Held(w)
    BY DEF OwnedInv, BaseInv, TypeOK, StageInv, Held
  <1>2. status[job[w]] = "IN_PROGRESS"
    BY <1>1 DEF OwnedInv, OwnInv
  <1> QED  BY <1>1, <1>2, OutcomeOfRow DEF OwnedInv, BaseInv, RowInv, Live

LEMMA CommitSentLedger ==
  ASSUME OwnedInv, NEW w \in Worker, CommitSent(w)
  PROVE  \E s \in Step : Ledger!Carry(s)
  <1>0. PICK s \in Step : s = job[w]
    BY InHandIsOwed DEF CommitSent, InHandStage
  <1>1. /\ s \in Step /\ status[s] = "IN_PROGRESS" /\ payload[s] \in Message
        /\ Outcome[s] = "owed"
    BY <1>0, InHandIsOwed DEF CommitSent, InHandStage
  <1>2. msg[payload[s]] # "SENT"
    BY <1>0 DEF CommitSent, OwnedInv, SendInv
  <1>3. /\ msg' = [msg EXCEPT ![payload[s]] = "SENT"] /\ UNCHANGED <<status, payload>>
    BY <1>0 DEF CommitSent, rowVars
  <1>4. s \notin Carried
    BY <1>2 DEF Carried
  <1>5. \A t \in Step : status[t] # "NONE" /\ t # s => payload[t] # payload[s]
    BY <1>1 DEF OwnedInv, PathInv
  <1>6. Carried' = Carried \cup {s}
    BY <1>1, <1>3, <1>5 DEF Carried, OwnedInv, BaseInv, TypeOK, RowInv
  <1>7. Outcome' = Outcome
    BY <1>3 DEF Outcome, Live
  <1> QED  BY <1>1, <1>4, <1>6, <1>7 DEF Ledger!Carry, Outcome, Carried

LEMMA MarkDoneLedger ==
  ASSUME OwnedInv, NEW w \in Worker, MarkDone(w)
  PROVE  \E s \in Step : Ledger!Settle(s)
  <1>0. PICK s \in Step : s = job[w]
    BY InHandIsOwed DEF MarkDone, InHandStage
  <1>1. /\ s \in Step /\ status[s] = "IN_PROGRESS" /\ Outcome[s] = "owed"
    BY <1>0, InHandIsOwed DEF MarkDone, InHandStage
  <1>2. msg[payload[s]] = "SENT"
    BY <1>0 DEF MarkDone, OwnedInv, BaseInv, ReturnedInv
  <1>3. status' = [status EXCEPT ![s] = "DONE"] /\ UNCHANGED <<payload, msg>>
    BY <1>0 DEF MarkDone, msgVars
  <1>4. s \in Carried
    BY <1>1, <1>2 DEF Carried
  <1>5. Carried' = Carried
    BY <1>1, <1>3 DEF Carried, OwnedInv, BaseInv, TypeOK
  <1>6. Outcome' = [Outcome EXCEPT ![s] = "settled"]
    BY <1>1, <1>3, OutcomeMoves DEF OwnedInv, BaseInv, RowStatus
  <1> QED  BY <1>1, <1>4, <1>5, <1>6 DEF Ledger!Settle, Outcome, Carried

LEMMA MarkRetryLedger ==
  ASSUME OwnedInv, NEW w \in Worker, MarkRetry(w)
  PROVE  (\E s \in Step : Ledger!Park(s)) \/ UNCHANGED Ledger!ledgerVars
  <1>0. PICK s \in Step : s = job[w]
    BY InHandIsOwed DEF MarkRetry, InHandStage
  <1>1. /\ s \in Step /\ status[s] = "IN_PROGRESS" /\ Outcome[s] = "owed"
    BY <1>0, InHandIsOwed DEF MarkRetry, InHandStage
  <1>2. /\ UNCHANGED <<payload, msg>>
        /\ \/ status' = [status EXCEPT ![s] = "DEAD"]
           \/ status' = [status EXCEPT ![s] = "PENDING"]
    BY <1>0 DEF MarkRetry, msgVars
  <1>3. CASE status' = [status EXCEPT ![s] = "DEAD"]
    <2>1. Carried' = Carried
      BY <1>1, <1>2, <1>3 DEF Carried, OwnedInv, BaseInv, TypeOK
    <2>2. Outcome' = [Outcome EXCEPT ![s] = "parked"]
      BY <1>1, <1>3, OutcomeMoves DEF OwnedInv, BaseInv, RowStatus
    <2> QED  BY <1>1, <2>1, <2>2 DEF Ledger!Park, Outcome, Carried
  <1>4. CASE status' = [status EXCEPT ![s] = "PENDING"]
    <2>1. \A t \in Step : status'[t] = status[t] \/ (Live(t) /\ Live(t)')
      BY <1>1, <1>4 DEF Live, OwnedInv, BaseInv, TypeOK
    <2> QED  BY <1>2, <2>1, LedgerStutters
  <1> QED  BY <1>2, <1>3, <1>4

LEMMA PurgeLedger ==
  ASSUME OwnedInv, NEW s \in Step, Purge(s)
  PROVE  Ledger!Forget(s)
  <1>1. /\ status[s] \in {"DONE", "DEAD"} /\ status' = [status EXCEPT ![s] = "NONE"]
        /\ payload' = [payload EXCEPT ![s] = NoMessage] /\ UNCHANGED msg
    BY DEF Purge, Settled, msgVars
  <1>2. Outcome[s] \in {"settled", "parked"} /\ Outcome' = [Outcome EXCEPT ![s] = "none"]
    BY <1>1, OutcomeMoves, OutcomeOfRow DEF OwnedInv, BaseInv, RowStatus
  <1>3. Carried' = Carried \ {s}
    BY <1>1 DEF Carried, OwnedInv, BaseInv, TypeOK
  <1> QED  BY <1>2, <1>3 DEF Ledger!Forget, Outcome, Carried

(* A claim and the reaper change the status of live rows only.             *)
LEMMA ClaimLedger ==
  ASSUME OwnedInv, NEW w \in Worker, Claim(w)
  PROVE  UNCHANGED Ledger!ledgerVars
  <1>1. PICK S \in SUBSET Claimable :
          status' = [s \in Step |-> IF s \in S THEN "IN_PROGRESS" ELSE status[s]]
    BY DEF Claim
  <1>2. \A s \in Step : status'[s] = status[s] \/ (Live(s) /\ Live(s)')
    BY <1>1 DEF Claimable, Live
  <1> QED  BY <1>2, LedgerStutters DEF Claim, msgVars

LEMMA ReapLedger ==
  ASSUME OwnedInv, Reap
  PROVE  UNCHANGED Ledger!ledgerVars
  <1>1. \A s \in Step : status'[s] = status[s] \/ (Live(s) /\ Live(s)')
    BY DEF Reap, Live, OwnedInv, BaseInv, RowInv
  <1> QED  BY <1>1, LedgerStutters DEF Reap, msgVars

(* Every step of the outbox is a step of the ledger, or none.              *)
LEMMA LedgerStep ==
  ASSUME OwnedInv, [Next]_vars
  PROVE  [Ledger!LedgerNext]_(Ledger!ledgerVars)
  <1>1. ASSUME NEW s \in Step, NEW m \in Message, EnqueueSend(s, m)
        PROVE  [Ledger!LedgerNext]_(Ledger!ledgerVars)
    BY <1>1, EnqueueLedger DEF Ledger!LedgerNext
  <1>2. ASSUME NEW w \in Worker, MarkDone(w) \/ MarkRetry(w) \/ CommitSent(w)
        PROVE  [Ledger!LedgerNext]_(Ledger!ledgerVars)
    <2>2. CASE MarkDone(w)  BY <2>2, MarkDoneLedger DEF Ledger!LedgerNext
    <2>3. CASE MarkRetry(w)  BY <2>3, MarkRetryLedger DEF Ledger!LedgerNext
    <2>4. CASE CommitSent(w)  BY <2>4, CommitSentLedger DEF Ledger!LedgerNext
    <2> QED  BY <1>2, <2>2, <2>3, <2>4
  <1>3. ASSUME NEW s \in Step, Purge(s)
        PROVE  [Ledger!LedgerNext]_(Ledger!ledgerVars)
    BY <1>3, PurgeLedger DEF Ledger!LedgerNext
  <1>4. ASSUME UNCHANGED <<status, payload, msg>>
        PROVE  UNCHANGED Ledger!ledgerVars
    BY <1>4, LedgerStutters
  <1> QED
    BY <1>1, <1>2, <1>3, <1>4, ClaimLedger, ReapLedger
    DEF Next, WorkerStep, vars, rowVars, msgVars, Begin, Finish, ProviderAccepts, ProviderRefuses,
        AnswerLost, CommitFails, MarkDoneFails, Crash, BackoffElapses, GoesStale

(* The outbox keeps what EffectLedger promises, as far as safety goes: an  *)
(* effect is settled only once its message is recorded as SENT, recorded   *)
(* once, and its outcome is final until it is forgotten. That in the end   *)
(* none is owed (the rest of ImplementsLedger) rests on fairness.          *)
THEOREM OutboxRefinesLedger ==
  ASSUME MaxOverlaps = 0
  PROVE  Spec => Ledger!LedgerInit /\ [][Ledger!LedgerNext]_(Ledger!ledgerVars)
  BY LedgerStart, LedgerStep, OwnedInvariance, PTL DEF Spec
=============================================================================
