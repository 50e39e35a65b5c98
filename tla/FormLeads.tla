------------------------------ MODULE FormLeads ------------------------------
(***************************************************************************)
(* Leads from Meta's Instant Forms: the leadgen webhook (webhook/app.py),  *)
(* the poll that works without it (poll_form_leads of                      *)
(* worker/tasks/maintenance.py), and capture_leadgen of core/webhooks.py,  *)
(* which both of them call.                                                *)
(*                                                                         *)
(* Meta delivers a form until it is answered with 200; the webhook         *)
(* records it, fetches its details and captures the lead in separate       *)
(* transactions. Whoever captured it then queues a text to the owner       *)
(* (worker/tasks/alerts.py), at best effort. One account with one page;    *)
(* what the details say is left out. IntakeProofs proves about this module *)
(* and Intake together, so that the two share no name.                     *)
(***************************************************************************)
EXTENDS Naturals, FiniteSets

CONSTANTS
  Form,        (* forms that customers fill in: leadgen ids                 *)
  MaxMishaps   (* bound: failures, and changes of the connection            *)

ASSUME FormLeadsAssumption == MaxMishaps \in Nat

VARIABLES
  connected,  (* a meta_connections row names the page                      *)
  tokenOk,    (* Graph accepts its token                                    *)
  inError,    (* its status is ERROR                                        *)
  submitted,  (* forms at Meta                                              *)
  old,        (* those of more than seven days                              *)
  answered,   (* deliveries that got their 200                              *)
  recorded,   (* inbound_events: forms recorded                             *)
  lead,       (* the leads row of a form: none, blank (no name and phone)   *)
              (* or full                                                    *)
  notices,    (* "New lead form" notifications per form                     *)
  hook,       (* where the webhook's thread for a form stands               *)
  details,    (* forms whose details that thread has got                    *)
  polling,    (* where the poll stands, and with which form                 *)
  todo,       (* the forms it has still to look at                          *)
  queued,     (* lead_sms tasks in the queue, by form                       *)
  texted,     (* text messages the owner got                                *)
  redone,     (* history: those whose task was not acknowledged             *)
  mishaps

world == <<connected, tokenOk, inError, submitted, old, answered>>
rows == <<recorded, lead, notices>>
threadVars == <<hook, details>>
pollVars == <<polling, todo>>
smsVars == <<queued, texted, redone>>
formVars == <<connected, tokenOk, inError, submitted, old, answered, recorded, lead, notices,
              hook, details, polling, todo, queued, texted, redone, mishaps>>

NoForm == "none"
PollStage == [at : {"idle", "looks"}, form : {NoForm}]
               \cup [at : {"insert", "alert"}, form : Form]
PollAt(stage, f) == [at |-> stage, form |-> f]

FormTypeOK ==
  /\ connected \in BOOLEAN /\ tokenOk \in BOOLEAN /\ inError \in BOOLEAN
  /\ submitted \in SUBSET Form /\ old \in SUBSET submitted /\ answered \in SUBSET recorded
  /\ recorded \in SUBSET submitted
  /\ lead \in [Form -> {"none", "blank", "full"}] /\ notices \in [Form -> Nat]
  /\ hook \in [Form -> {"idle", "recorded", "fetched", "insert", "alert"}]
  /\ details \in SUBSET Form
  /\ polling \in PollStage /\ todo \in SUBSET submitted
  /\ queued \in SUBSET Form /\ texted \in [Form -> Nat] /\ redone \in [Form -> Nat]
  /\ mishaps \in 0..MaxMishaps

FormInit ==
  /\ connected = TRUE /\ tokenOk = TRUE /\ inError = FALSE
  /\ submitted = {} /\ old = {} /\ answered = {}
  /\ recorded = {} /\ lead = [f \in Form |-> "none"] /\ notices = [f \in Form |-> 0]
  /\ hook = [f \in Form |-> "idle"] /\ details = {}
  /\ polling = PollAt("idle", NoForm) /\ todo = {}
  /\ queued = {} /\ texted = [f \in Form |-> 0] /\ redone = [f \in Form |-> 0]
  /\ mishaps = 0

(* meta_adapter_for_account finds a token, and Graph accepts it.           *)
Reachable == connected /\ tokenOk

Submit(f) ==
  /\ f \notin submitted
  /\ submitted' = submitted \cup {f}
  /\ UNCHANGED <<connected, tokenOk, inError, old, answered, rows, threadVars, pollVars,
                 smsVars, mishaps>>

(* Mutant: the delivery is recorded when it is captured.                   *)
Deliver_Unrecorded(f) ==
  /\ f \in submitted \ answered /\ hook[f] = "idle"
  /\ hook' = [hook EXCEPT ![f] = "recorded"]
  /\ UNCHANGED <<world, rows, details, pollVars, smsVars, mishaps>>

(* Meta delivers it: a new one is recorded, a known one gets its 200.      *)
Deliver(f) ==
  /\ f \in submitted \ answered /\ hook[f] = "idle"
  /\ \/ /\ f \notin recorded
        /\ recorded' = recorded \cup {f}
        /\ hook' = [hook EXCEPT ![f] = "recorded"]
        /\ UNCHANGED answered
     \/ /\ f \in recorded
        /\ answered' = answered \cup {f}
        /\ UNCHANGED <<recorded, hook>>
  /\ UNCHANGED <<connected, tokenOk, inError, submitted, old, lead, notices, details, pollVars,
                 smsVars, mishaps>>

(* _fetch_lead_fields: any failure counts as no details.                   *)
Fetch(f) ==
  /\ hook[f] = "recorded"
  /\ hook' = [hook EXCEPT ![f] = "fetched"]
  /\ \/ Reachable /\ details' = details \cup {f} /\ UNCHANGED mishaps
     \/ ~Reachable /\ UNCHANGED <<details, mishaps>>
     \/ mishaps < MaxMishaps /\ mishaps' = mishaps + 1 /\ UNCHANGED details
  /\ UNCHANGED <<world, rows, pollVars, smsVars>>

HookReturns(f) ==
  /\ hook' = [hook EXCEPT ![f] = "idle"]
  /\ details' = details \ {f}
  /\ answered' = answered \cup {f}

(* capture_leadgen, called by the webhook: a page that no connection names *)
(* and a lead that exists end the call.                                    *)
Capture(f) ==
  /\ hook[f] = "fetched"
  /\ \/ /\ ~connected \/ lead[f] # "none"
        /\ HookReturns(f)
     \/ /\ connected /\ lead[f] = "none"
        /\ hook' = [hook EXCEPT ![f] = "insert"]
        /\ UNCHANGED <<details, answered>>
  /\ UNCHANGED <<connected, tokenOk, inError, submitted, old, rows, pollVars, smsVars, mishaps>>

(* Mutant: no unique index on the form's id.                               *)
Insert_Unindexed(f) ==
  /\ hook[f] = "insert"
  /\ lead' = [lead EXCEPT ![f] = IF f \in details THEN "full" ELSE "blank"]
  /\ notices' = [notices EXCEPT ![f] = @ + 1]
  /\ hook' = [hook EXCEPT ![f] = "alert"]
  /\ UNCHANGED <<world, recorded, details, pollVars, smsVars, mishaps>>

(* The insert, or the unique index on the form's id: the call raises, Meta *)
(* delivers again.                                                         *)
Insert(f) ==
  /\ hook[f] = "insert"
  /\ \/ /\ lead[f] = "none"
        /\ lead' = [lead EXCEPT ![f] = IF f \in details THEN "full" ELSE "blank"]
        /\ notices' = [notices EXCEPT ![f] = @ + 1]
        /\ hook' = [hook EXCEPT ![f] = "alert"]
        /\ UNCHANGED details
     \/ /\ lead[f] # "none"
        /\ hook' = [hook EXCEPT ![f] = "idle"]
        /\ details' = details \ {f}
        /\ UNCHANGED <<lead, notices>>
  /\ UNCHANGED <<world, recorded, pollVars, smsVars, mishaps>>

(* enqueue_lead_alert, after the commit: a broker that refuses is ignored. *)
EnqueueAlert(f) ==
  /\ \/ queued' = queued \cup {f} /\ UNCHANGED mishaps
     \/ mishaps < MaxMishaps /\ mishaps' = mishaps + 1 /\ UNCHANGED queued
  /\ UNCHANGED <<texted, redone>>

Alert(f) ==
  /\ hook[f] = "alert"
  /\ EnqueueAlert(f)
  /\ HookReturns(f)
  /\ UNCHANGED <<connected, tokenOk, inError, submitted, old, rows, pollVars>>

(* The webhook's thread raises, or its process dies: Meta gets no 200.     *)
ThreadFails(f) ==
  /\ hook[f] # "idle" /\ mishaps < MaxMishaps
  /\ mishaps' = mishaps + 1
  /\ hook' = [hook EXCEPT ![f] = "idle"]
  /\ details' = details \ {f}
  /\ UNCHANGED <<world, rows, pollVars, smsVars>>

-----------------------------------------------------------------------------
(* Mutant: without the forms that the webhook has recorded.                *)
Listed_Recent == submitted \ (old \cup recorded)

(* get_form_leads: every form of the last seven days.                      *)
Listed == submitted \ old

StartPoll ==
  /\ polling.at = "idle" /\ connected
  /\ \/ /\ tokenOk
        /\ polling' = PollAt("looks", NoForm) /\ todo' = Listed
        /\ UNCHANGED inError
     \/ /\ ~tokenOk
        /\ inError' = TRUE
        /\ UNCHANGED pollVars
  /\ UNCHANGED <<connected, tokenOk, submitted, old, answered, rows, threadVars, smsVars,
                 mishaps>>

(* capture_leadgen, called by the poll.                                    *)
PollForm(f) ==
  /\ polling.at = "looks" /\ f \in todo
  /\ todo' = todo \ {f}
  /\ polling' = IF connected /\ lead[f] = "none" THEN PollAt("insert", f) ELSE polling
  /\ UNCHANGED <<world, rows, threadVars, smsVars, mishaps>>

(* The loser of a race for the lead leaves the rest to the next poll.      *)
PollInsert(f) ==
  /\ polling = PollAt("insert", f)
  /\ \/ /\ lead[f] = "none"
        /\ lead' = [lead EXCEPT ![f] = "full"]
        /\ notices' = [notices EXCEPT ![f] = @ + 1]
        /\ polling' = PollAt("alert", f)
        /\ UNCHANGED todo
     \/ /\ lead[f] # "none"
        /\ polling' = PollAt("idle", NoForm) /\ todo' = {}
        /\ UNCHANGED <<lead, notices>>
  /\ UNCHANGED <<world, recorded, threadVars, smsVars, mishaps>>

PollAlert(f) ==
  /\ polling = PollAt("alert", f)
  /\ EnqueueAlert(f)
  /\ polling' = PollAt("looks", NoForm)
  /\ UNCHANGED <<world, rows, threadVars, todo>>

PollEnds ==
  /\ polling.at = "looks" /\ todo = {}
  /\ polling' = PollAt("idle", NoForm)
  /\ UNCHANGED <<world, rows, threadVars, todo, smsVars, mishaps>>

(* A Graph call or a commit raises: the account's turn is over. An error   *)
(* of the token flags the connection.                                      *)
PollFails ==
  /\ polling.at # "idle" /\ mishaps < MaxMishaps
  /\ mishaps' = mishaps + 1
  /\ polling' = PollAt("idle", NoForm) /\ todo' = {}
  /\ inError' = (inError \/ ~tokenOk)
  /\ UNCHANGED <<connected, tokenOk, submitted, old, answered, rows, threadVars, smsVars>>

-----------------------------------------------------------------------------
(* lead_sms. The day's cap may be used up, the owner have no phone, the    *)
(* gateway refuse: it never raises. A child that is killed alone leaves as *)
(* much: its task is acknowledged, with or without the text.               *)
LeadSms(f) ==
  /\ f \in queued
  /\ queued' = queued \ {f}
  /\ \E sent \in 0..1 : texted' = [texted EXCEPT ![f] = @ + sent]
  /\ UNCHANGED <<world, rows, threadVars, pollVars, redone, mishaps>>

(* The worker dies after it sent the text and before it acknowledged the   *)
(* task, which is delivered again.                                         *)
LeadSmsCrash(f) ==
  /\ f \in queued /\ mishaps < MaxMishaps
  /\ mishaps' = mishaps + 1
  /\ texted' = [texted EXCEPT ![f] = @ + 1]
  /\ redone' = [redone EXCEPT ![f] = @ + 1]
  /\ UNCHANGED <<world, rows, threadVars, pollVars, queued>>

-----------------------------------------------------------------------------
(* The page is connected, or moved to another account; the token expires,  *)
(* or a new one is stored, which makes the connection ACTIVE again.        *)
Reconnect ==
  /\ mishaps < MaxMishaps /\ mishaps' = mishaps + 1
  /\ connected' = TRUE /\ tokenOk' = TRUE /\ inError' = FALSE
  /\ UNCHANGED <<submitted, old, answered, rows, threadVars, pollVars, smsVars>>

Disconnect ==
  /\ mishaps < MaxMishaps /\ mishaps' = mishaps + 1
  /\ connected' = FALSE
  /\ UNCHANGED <<tokenOk, inError, submitted, old, answered, rows, threadVars, pollVars,
                 smsVars>>

TokenDies ==
  /\ mishaps < MaxMishaps /\ mishaps' = mishaps + 1
  /\ tokenOk' = FALSE
  /\ UNCHANGED <<connected, inError, submitted, old, answered, rows, threadVars, pollVars,
                 smsVars>>

(* Seven days hold a thousand polls: a form grows old in our back only if  *)
(* they did not reach Meta.                                                *)
GrowOld(f) ==
  /\ f \in submitted \ old /\ ~Reachable
  /\ old' = old \cup {f}
  /\ UNCHANGED <<connected, tokenOk, inError, submitted, answered, rows, threadVars, pollVars,
                 smsVars, mishaps>>

-----------------------------------------------------------------------------
Hook(f) == Deliver(f) \/ Fetch(f) \/ Capture(f) \/ Insert(f) \/ Alert(f)

Poll == StartPoll \/ PollEnds \/ \E f \in Form : PollForm(f) \/ PollInsert(f) \/ PollAlert(f)

FormNext ==
  \/ \E f \in Form : Submit(f) \/ Hook(f) \/ ThreadFails(f) \/ GrowOld(f)
  \/ \E f \in Form : LeadSms(f) \/ LeadSmsCrash(f)
  \/ Poll \/ PollFails
  \/ Reconnect \/ Disconnect \/ TokenDies

(* Meta delivers, threads go on, and the poll runs every ten minutes.      *)
FormFairness == WF_formVars(Poll) /\ \A f \in Form : WF_formVars(Hook(f))

FormSpec == FormInit /\ [][FormNext]_formVars /\ FormFairness

-----------------------------------------------------------------------------
(* A customer who fills in a form becomes a lead, whatever the webhook has *)
(* lost after it recorded the delivery (webhook/app.py:194), as long as    *)
(* the poll reaches Meta within seven days.                                *)
FormsBecomeLeads ==
  \A f \in Form : f \in submitted ~> lead[f] # "none" \/ f \in old \/ ~connected \/ ~tokenOk

(* A form becomes one lead, one notification and one text at most, though  *)
(* the webhook and the poll may both look for it before either has         *)
(* inserted it (core/webhooks.py:95). Only a worker that dies before it    *)
(* acknowledges a text sends it again.                                     *)
OneLeadPerForm ==
  \A f \in Form : /\ notices[f] = IF lead[f] = "none" THEN 0 ELSE 1
                  /\ texted[f] <= notices[f] + redone[f]
=============================================================================
