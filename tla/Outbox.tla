------------------------------- MODULE Outbox -------------------------------
(***************************************************************************)
(* The transactional outbox: core/outbox.py (the table's operations),      *)
(* saathi/workflow/runner.py (the drain loop), saathi/workflow/effects.py  *)
(* (the WhatsApp send handler), saathi/outbound.py (the producer) and the  *)
(* two cron jobs of worker/tasks/maintenance.py that touch the table, the  *)
(* reaper and the retention sweep.                                         *)
(*                                                                         *)
(* One TLA+ step is one database transaction or one call of the provider:  *)
(* between any two of them other workers run, and a worker may die.        *)
(***************************************************************************)
EXTENDS Naturals, FiniteSets

CONSTANTS
  Step,         (* step ids: the unique key (account_id, step_id) of a row  *)
  Message,      (* ids of outbound Message rows, each used at most once     *)
  Worker,       (* processes that run WorkflowRunner.drain                  *)
  Unhandled,    (* steps whose effect_type has no entry in EFFECT_HANDLERS  *)
  NoStep,       (* "no row in hand"                                         *)
  NoMessage,    (* "no payload"                                             *)
  MaxAttempts,  (* MAX_ATTEMPTS                                             *)
  BatchSize,    (* the limit of claim_pending                               *)
  MaxCrashes,   (* bound: how many times a worker dies                      *)
  MaxOverlaps   (* bound: how many times a row ages past the reaper's       *)
                (* cutoff while the worker that claimed it is still alive   *)

ASSUME StepAssumption == NoStep \notin Step /\ Unhandled \subseteq Step
ASSUME MessageAssumption == NoMessage \notin Message
ASSUME BoundAssumption ==
  /\ MaxAttempts \in Nat \ {0} /\ BatchSize \in Nat \ {0}
  /\ MaxCrashes \in Nat /\ MaxOverlaps \in Nat

VARIABLES
  status,    (* outbox.status per step; "NONE" = there is no such row       *)
  attempts,  (* outbox.attempts                                             *)
  payload,   (* the message named by outbox.payload                         *)
  due,       (* rows with available_at <= now()                             *)
  stale,     (* IN_PROGRESS rows with updated_at older than the cutoff      *)
  dlq,       (* how many dlq rows name the row                              *)
  msg,       (* messages.status; "ABSENT" = not inserted yet                *)
  accepted,  (* history: how often the provider accepted a message          *)
  unrecorded,(* history: acceptances whose SENT was never committed         *)
  stage,     (* where each worker stands in drain / _process / the handler  *)
  todo,      (* claimed rows the worker has not come to yet                 *)
  job,       (* the row in hand                                             *)
  snap,      (* entry["attempts"] as read by the claim                      *)
  crashes, overlaps

rowVars == <<status, attempts, payload, due, stale, dlq>>
msgVars == <<msg, accepted, unrecorded>>
workerVars == <<stage, todo, job, snap>>
budgetVars == <<crashes, overlaps>>
vars == <<status, attempts, payload, due, stale, dlq, msg, accepted,
          unrecorded, stage, todo, job, snap, crashes, overlaps>>

MessageStatus == {"ABSENT", "QUEUED", "SENT"}
RowStatus == {"NONE", "PENDING", "IN_PROGRESS", "DONE", "DEAD"}
Stage == {"idle", "next", "sending", "accepted", "returned", "failed"}
InHandStage == {"sending", "accepted", "returned", "failed"}

(* The rows a worker will still write to: those of its batch it has not    *)
(* finished with.                                                          *)
Held(w) == todo[w] \cup ({job[w]} \ {NoStep})

Live(s) == status[s] \in {"PENDING", "IN_PROGRESS"}
Settled(s) == status[s] \in {"DONE", "DEAD"}

TypeOK ==
  /\ status \in [Step -> RowStatus]
  /\ attempts \in [Step -> 0..MaxAttempts]
  /\ payload \in [Step -> Message \cup {NoMessage}]
  /\ due \in SUBSET Step
  /\ stale \in SUBSET Step
  /\ dlq \in [Step -> Nat]
  /\ msg \in [Message -> MessageStatus]
  /\ accepted \in [Message -> Nat]
  /\ unrecorded \in [Message -> Nat]
  /\ stage \in [Worker -> Stage]
  /\ todo \in [Worker -> SUBSET Step]
  /\ job \in [Worker -> Step \cup {NoStep}]
  /\ snap \in [Worker -> [Step -> 0..MaxAttempts]]
  /\ crashes \in 0..MaxCrashes
  /\ overlaps \in 0..MaxOverlaps

Init ==
  /\ status = [s \in Step |-> "NONE"]
  /\ attempts = [s \in Step |-> 0]
  /\ payload = [s \in Step |-> NoMessage]
  /\ due = {}
  /\ stale = {}
  /\ dlq = [s \in Step |-> 0]
  /\ msg = [m \in Message |-> "ABSENT"]
  /\ accepted = [m \in Message |-> 0]
  /\ unrecorded = [m \in Message |-> 0]
  /\ stage = [w \in Worker |-> "idle"]
  /\ todo = [w \in Worker |-> {}]
  /\ job = [w \in Worker |-> NoStep]
  /\ snap = [w \in Worker |-> [s \in Step |-> 0]]
  /\ crashes = 0
  /\ overlaps = 0

-----------------------------------------------------------------------------
(* The producer.                                                           *)

(* enqueue_effect: the row is inserted only if its key is free.            *)
EnqueueEffect(s, m) ==
  \/ /\ status[s] = "NONE"
     /\ status' = [status EXCEPT ![s] = "PENDING"]
     /\ attempts' = [attempts EXCEPT ![s] = 0]
     /\ payload' = [payload EXCEPT ![s] = m]
     /\ due' = due \cup {s}
     /\ UNCHANGED <<stale, dlq>>
  \/ /\ status[s] # "NONE"
     /\ UNCHANGED rowVars

(* enqueue_send, in its caller's transaction: the OUT message is inserted  *)
(* whatever becomes of the row.                                            *)
EnqueueSend(s, m) ==
  /\ msg[m] = "ABSENT"
  /\ msg' = [msg EXCEPT ![m] = "QUEUED"]
  /\ EnqueueEffect(s, m)
  /\ UNCHANGED <<accepted, unrecorded, workerVars, budgetVars>>

-----------------------------------------------------------------------------
(* The drain loop.                                                         *)

(* Mutant: the claim does not look at the status.                          *)
Claimable_AnyLive == {s \in due : Live(s)}

Claimable == {s \in due : status[s] = "PENDING"}

(* claim_pending: lock up to BatchSize due rows, skipping those another    *)
(* claim holds, mark them IN_PROGRESS and commit. The entries are copies:  *)
(* snap is what mark_retry will count from.                                *)
Claim(w) ==
  /\ stage[w] = "idle"
  /\ \E S \in SUBSET Claimable :
       /\ S # {} /\ Cardinality(S) <= BatchSize
       /\ status' = [s \in Step |-> IF s \in S THEN "IN_PROGRESS" ELSE status[s]]
       /\ stale' = stale \ S
       /\ todo' = [todo EXCEPT ![w] = S]
       /\ snap' = [snap EXCEPT ![w] = [s \in Step |-> IF s \in S THEN attempts[s] ELSE 0]]
  /\ stage' = [stage EXCEPT ![w] = "next"]
  /\ UNCHANGED <<attempts, payload, due, dlq, msgVars, job, budgetVars>>

(* Mutant: the handler does not look for an earlier delivery.              *)
Begin_NoSentCheck(w, s) ==
  /\ stage[w] = "next" /\ s \in todo[w]
  /\ todo' = [todo EXCEPT ![w] = @ \ {s}]
  /\ job' = [job EXCEPT ![w] = s]
  /\ stage' = [stage EXCEPT ![w] = IF s \in Unhandled THEN "failed" ELSE "sending"]
  /\ UNCHANGED <<rowVars, msgVars, snap, budgetVars>>

(* The handler's check for an earlier delivery.                            *)
AlreadySent(s) == msg[payload[s]] = "SENT"

(* _process picks the next entry. Without a handler it goes straight to    *)
(* mark_retry; the handler reads the message and returns at once when an   *)
(* earlier delivery has sent it.                                           *)
Begin(w, s) ==
  /\ stage[w] = "next" /\ s \in todo[w]
  /\ todo' = [todo EXCEPT ![w] = @ \ {s}]
  /\ job' = [job EXCEPT ![w] = s]
  /\ stage' = [stage EXCEPT ![w] =
       IF s \in Unhandled THEN "failed"
       ELSE IF AlreadySent(s) THEN "returned" ELSE "sending"]
  /\ UNCHANGED <<rowVars, msgVars, snap, budgetVars>>

(* drain returns once the batch is used up.                                *)
Finish(w) ==
  /\ stage[w] = "next" /\ todo[w] = {}
  /\ stage' = [stage EXCEPT ![w] = "idle"]
  /\ UNCHANGED <<rowVars, msgVars, todo, job, snap, budgetVars>>

(* _post, for each kind of message: the provider takes it, without a key   *)
(* by which it could know it again.                                        *)
Post(w) == accepted' = [accepted EXCEPT ![payload[job[w]]] = @ + 1]

(* adapter.send_*: the provider takes the message and says so.             *)
ProviderAccepts(w) ==
  /\ stage[w] = "sending"
  /\ Post(w)
  /\ stage' = [stage EXCEPT ![w] = "accepted"]
  /\ UNCHANGED <<rowVars, msg, unrecorded, todo, job, snap, budgetVars>>

(* adapter.send_* raises: an error answer, or no connection at all.        *)
ProviderRefuses(w) ==
  /\ stage[w] = "sending"
  /\ stage' = [stage EXCEPT ![w] = "failed"]
  /\ UNCHANGED <<rowVars, msgVars, todo, job, snap, budgetVars>>

(* adapter.send_* raises although the provider took the message: the       *)
(* answer is lost to the 10 s client timeout.                              *)
AnswerLost(w) ==
  /\ stage[w] = "sending"
  /\ Post(w)
  /\ unrecorded' = [unrecorded EXCEPT ![payload[job[w]]] = @ + 1]
  /\ stage' = [stage EXCEPT ![w] = "failed"]
  /\ UNCHANGED <<rowVars, msg, todo, job, snap, budgetVars>>

(* Mutant: the handler returns without setting SENT.                       *)
CommitSent_Forgets(w) ==
  /\ stage[w] = "accepted"
  /\ stage' = [stage EXCEPT ![w] = "returned"]
  /\ UNCHANGED <<rowVars, msgVars, todo, job, snap, budgetVars>>

(* The handler's tenant_session commits messages.status = SENT ...         *)
CommitSent(w) ==
  /\ stage[w] = "accepted"
  /\ msg' = [msg EXCEPT ![payload[job[w]]] = "SENT"]
  /\ stage' = [stage EXCEPT ![w] = "returned"]
  /\ UNCHANGED <<rowVars, accepted, unrecorded, todo, job, snap, budgetVars>>

(* ... or the commit raises and the transaction is rolled back.            *)
CommitFails(w) ==
  /\ stage[w] = "accepted"
  /\ unrecorded' = [unrecorded EXCEPT ![payload[job[w]]] = @ + 1]
  /\ stage' = [stage EXCEPT ![w] = "failed"]
  /\ UNCHANGED <<rowVars, msg, accepted, todo, job, snap, budgetVars>>

(* The row is out of the worker's hands.                                   *)
PutDown(w) ==
  /\ job' = [job EXCEPT ![w] = NoStep]
  /\ snap' = [snap EXCEPT ![w][job[w]] = 0]
  /\ stage' = [stage EXCEPT ![w] = "next"]
  /\ UNCHANGED todo

(* Mutant: the row is done as soon as the provider has answered.           *)
MarkDone_BeforeCommit(w) ==
  /\ stage[w] \in {"accepted", "returned"}
  /\ status' = [status EXCEPT ![job[w]] = "DONE"]
  /\ stale' = stale \ {job[w]}
  /\ PutDown(w)
  /\ UNCHANGED <<attempts, payload, due, dlq, msgVars, budgetVars>>

(* mark_done, in a transaction of its own, whatever the row's status is.   *)
MarkDone(w) ==
  /\ stage[w] = "returned"
  /\ status' = [status EXCEPT ![job[w]] = "DONE"]
  /\ stale' = stale \ {job[w]}
  /\ PutDown(w)
  /\ UNCHANGED <<attempts, payload, due, dlq, msgVars, budgetVars>>

(* mark_done raises inside the try block: the entry is retried.            *)
MarkDoneFails(w) ==
  /\ stage[w] = "returned"
  /\ stage' = [stage EXCEPT ![w] = "failed"]
  /\ UNCHANGED <<rowVars, msgVars, todo, job, snap, budgetVars>>

(* Mutant: the last attempt is parked nowhere.                             *)
MarkRetry_NoDlq(w) ==
  LET s == job[w]
      new == snap[w][s] + 1
  IN /\ stage[w] = "failed"
     /\ attempts' = [attempts EXCEPT ![s] = new]
     /\ status' = [status EXCEPT ![s] = IF new >= MaxAttempts THEN "DEAD" ELSE "PENDING"]
     /\ due' = due \ {s}
     /\ stale' = stale \ {s}
     /\ PutDown(w)
     /\ UNCHANGED <<payload, dlq, msgVars, budgetVars>>

(* mark_retry counts from the attempts read at the claim, and writes       *)
(* whatever the row's status is.                                           *)
MarkRetry(w) ==
  LET s == job[w]
      new == snap[w][s] + 1
  IN /\ stage[w] = "failed"
     /\ attempts' = [attempts EXCEPT ![s] = new]
     /\ stale' = stale \ {s}
     /\ \/ /\ new >= MaxAttempts
           /\ status' = [status EXCEPT ![s] = "DEAD"]
           /\ dlq' = [dlq EXCEPT ![s] = @ + 1]
           /\ UNCHANGED due
        \/ /\ new < MaxAttempts
           /\ status' = [status EXCEPT ![s] = "PENDING"]
           /\ due' = due \ {s}
           /\ UNCHANGED dlq
     /\ PutDown(w)
     /\ UNCHANGED <<payload, msgVars, budgetVars>>

(* The worker's process dies, or mark_retry itself raises out of drain:    *)
(* what it held stays IN_PROGRESS with nobody working on it.               *)
Crash(w) ==
  /\ stage[w] # "idle" /\ crashes < MaxCrashes
  /\ crashes' = crashes + 1
  /\ unrecorded' = IF stage[w] = "accepted"
                   THEN [unrecorded EXCEPT ![payload[job[w]]] = @ + 1]
                   ELSE unrecorded
  /\ stage' = [stage EXCEPT ![w] = "idle"]
  /\ todo' = [todo EXCEPT ![w] = {}]
  /\ job' = [job EXCEPT ![w] = NoStep]
  /\ snap' = [snap EXCEPT ![w] = [s \in Step |-> 0]]
  /\ UNCHANGED <<rowVars, msg, accepted, overlaps>>

-----------------------------------------------------------------------------
(* Time and the cron jobs.                                                 *)

(* A retry's backoff runs out.                                             *)
BackoffElapses(s) ==
  /\ status[s] = "PENDING" /\ s \notin due
  /\ due' = due \cup {s}
  /\ UNCHANGED <<status, attempts, payload, stale, dlq, msgVars, workerVars, budgetVars>>

InHand(s) == \E w \in Worker : s \in Held(w)

(* Ten minutes pass since updated_at: always possible for a row whose      *)
(* worker is dead, MaxOverlaps times for one that is only slow.            *)
GoesStale(s) ==
  /\ status[s] = "IN_PROGRESS" /\ s \notin stale
  /\ stale' = stale \cup {s}
  /\ \/ /\ ~InHand(s)
        /\ UNCHANGED overlaps
     \/ /\ InHand(s) /\ overlaps < MaxOverlaps
        /\ overlaps' = overlaps + 1
  /\ UNCHANGED <<status, attempts, payload, due, dlq, msgVars, workerVars, crashes>>

(* Mutants: the reaper counts an attempt without looking at the limit,     *)
(* starts the count again, or only renews updated_at.                      *)
Reap_Counts ==
  /\ stale # {}
  /\ status' = [s \in Step |-> IF s \in stale THEN "PENDING" ELSE status[s]]
  /\ attempts' = [s \in Step |-> attempts[s] + (IF s \in stale THEN 1 ELSE 0)]
  /\ stale' = {}
  /\ UNCHANGED <<payload, due, dlq, msgVars, workerVars, budgetVars>>

Reap_Resets ==
  /\ stale # {}
  /\ status' = [s \in Step |-> IF s \in stale THEN "PENDING" ELSE status[s]]
  /\ attempts' = [s \in Step |-> IF s \in stale THEN 0 ELSE attempts[s]]
  /\ stale' = {}
  /\ UNCHANGED <<payload, due, dlq, msgVars, workerVars, budgetVars>>

Reap_OnlyTouches ==
  /\ stale' = {}
  /\ UNCHANGED <<status, attempts, payload, due, dlq, msgVars, workerVars, budgetVars>>

(* reap_orphans: every stale row back to PENDING, attempts untouched.      *)
Reap ==
  /\ stale # {}
  /\ status' = [s \in Step |-> IF s \in stale THEN "PENDING" ELSE status[s]]
  /\ stale' = {}
  /\ UNCHANGED <<attempts, payload, due, dlq, msgVars, workerVars, budgetVars>>

(* retention_sweep deletes settled rows after a week, so the key is free   *)
(* again. No task outlives its one-hour limit, hence ~InHand.              *)
Purge(s) ==
  /\ Settled(s) /\ ~InHand(s)
  /\ status' = [status EXCEPT ![s] = "NONE"]
  /\ attempts' = [attempts EXCEPT ![s] = 0]
  /\ payload' = [payload EXCEPT ![s] = NoMessage]
  /\ due' = due \ {s}
  /\ dlq' = [dlq EXCEPT ![s] = 0]
  /\ UNCHANGED <<stale, msgVars, workerVars, budgetVars>>

-----------------------------------------------------------------------------
WorkerStep(w) ==
  \/ \E s \in Step : Begin(w, s)
  \/ Finish(w)
  \/ ProviderAccepts(w) \/ ProviderRefuses(w) \/ AnswerLost(w)
  \/ CommitSent(w) \/ CommitFails(w)
  \/ MarkDone(w) \/ MarkDoneFails(w) \/ MarkRetry(w)

Next ==
  \/ \E s \in Step, m \in Message : EnqueueSend(s, m)
  \/ \E w \in Worker : Claim(w) \/ WorkerStep(w) \/ Crash(w)
  \/ \E s \in Step : BackoffElapses(s) \/ GoesStale(s) \/ Purge(s)
  \/ Reap

Spec == Init /\ [][Next]_vars

(* drain_outbox runs every 5 s and reap every 60 s (worker/celery_app.py), *)
(* a worker that does not die keeps going, and time passes.                *)
Fairness ==
  /\ \A w \in Worker : WF_vars(Claim(w)) /\ WF_vars(WorkerStep(w))
  /\ \A s \in Step : WF_vars(BackoffElapses(s)) /\ WF_vars(GoesStale(s))
  /\ WF_vars(Reap)

FairSpec == Spec /\ Fairness

-----------------------------------------------------------------------------
(* A row is DONE only when its WhatsApp message is recorded as SENT: no    *)
(* reply is ever dropped by being marked done too early, whatever workers  *)
(* crash, are reaped while alive or write over each other.                 *)
DoneMeansSent == \A s \in Step : status[s] = "DONE" => msg[payload[s]] = "SENT"

(* While no batch outlives the reaper's cutoff, a row is in the hands of   *)
(* at most one worker, and it stays IN_PROGRESS as long as it is.          *)
ExclusiveClaim ==
  \A w \in Worker : \A s \in Held(w) :
    /\ status[s] = "IN_PROGRESS"
    /\ \A v \in Worker \ {w} : s \notin Held(v)

(* The provider gets a message twice only if an earlier acceptance was     *)
(* lost (no answer, no commit, a crash before the commit): the SENT check  *)
(* of the handler covers every other redelivery.                           *)
RepeatsAreLosses == \A m \in Message : accepted[m] <= unrecorded[m] + 1

(* While no batch outlives the reaper's cutoff, a row is parked in the     *)
(* dead-letter queue once, exactly when it is DEAD: the owner of a row     *)
(* that failed for good can find it there, and finds it only once.         *)
DeadMeansParked == \A s \in Step : dlq[s] = IF status[s] = "DEAD" THEN 1 ELSE 0

(* Without overlaps a row's attempts never go down while it is live, so a  *)
(* failing row moves towards the limit: mark_retry counts from the value   *)
(* its claim read, which nobody else may have raised since.                *)
RetriesAreCounted ==
  [][\A s \in Step : Live(s) /\ status'[s] # "NONE" => attempts'[s] >= attempts[s]]_vars

(* Every row that is enqueued is eventually delivered or parked, with      *)
(* finitely many crashes and overlaps.                                     *)
EveryEffectSettles == \A s \in Step : Live(s) ~> Settled(s)

(* What the module promises its producers: see EffectLedger. An effect is  *)
(* carried once its message is recorded as SENT.                           *)
Ledger == INSTANCE EffectLedger WITH
  Effect <- Step,
  outcome <- [s \in Step |-> CASE status[s] = "NONE" -> "none"
                               [] Live(s) -> "owed"
                               [] status[s] = "DONE" -> "settled"
                               [] OTHER -> "parked"],
  carried <- {s \in Step : status[s] # "NONE" /\ msg[payload[s]] = "SENT"}

(* The outbox implements the ledger: an effect is settled only after it is *)
(* carried, a settled or parked one is never reopened, and none is owed    *)
(* for ever.                                                               *)
ImplementsLedger == Ledger!LedgerSpec
=============================================================================
