---------------------------- MODULE EffectLedger ----------------------------
(***************************************************************************)
(* What the transactional outbox promises the code that enqueues effects   *)
(* (the docstring of core/outbox.py, without the rows, workers, retries    *)
(* and reaper that keep the promise): an effect that is owed is carried    *)
(* out and settled, or parked for a person to look at; it is settled only  *)
(* once it is carried out; and its outcome is final until the ledger       *)
(* forgets the effect.                                                     *)
(***************************************************************************)
CONSTANT Effect

VARIABLES
  outcome,  (* "none", "owed", "settled" or "parked" *)
  carried   (* the effects known to have been carried out *)

ledgerVars == <<outcome, carried>>

LedgerInit ==
  /\ outcome = [e \in Effect |-> "none"]
  /\ carried = {}

(* An effect is enqueued with the state change it belongs to.              *)
Promise(e) ==
  /\ outcome[e] = "none"
  /\ outcome' = [outcome EXCEPT ![e] = "owed"]
  /\ UNCHANGED carried

(* It is carried out, and that is recorded.                                *)
Carry(e) ==
  /\ outcome[e] = "owed" /\ e \notin carried
  /\ carried' = carried \cup {e}
  /\ UNCHANGED outcome

(* Done: only what is carried out.                                         *)
Settle(e) ==
  /\ outcome[e] = "owed" /\ e \in carried
  /\ outcome' = [outcome EXCEPT ![e] = "settled"]
  /\ UNCHANGED carried

(* Given up after the last attempt, carried out or not.                    *)
Park(e) ==
  /\ outcome[e] = "owed"
  /\ outcome' = [outcome EXCEPT ![e] = "parked"]
  /\ UNCHANGED carried

(* Deleted once its outcome is no longer of interest.                      *)
Forget(e) ==
  /\ outcome[e] \in {"settled", "parked"}
  /\ outcome' = [outcome EXCEPT ![e] = "none"]
  /\ carried' = carried \ {e}

LedgerNext ==
  \E e \in Effect :
    Promise(e) \/ Carry(e) \/ Settle(e) \/ Park(e) \/ Forget(e)

LedgerSpec ==
  /\ LedgerInit /\ [][LedgerNext]_ledgerVars
  /\ \A e \in Effect : WF_ledgerVars(Settle(e) \/ Park(e))
=============================================================================
