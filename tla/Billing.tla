------------------------------- MODULE Billing -------------------------------
(***************************************************************************)
(* An account's subscription: the mandate it creates at Razorpay           *)
(* (bff/routers/billing.py), the events Razorpay sends about it            *)
(* (webhook/app.py), what they do to the subscription and its GST invoices *)
(* (core/webhooks.py), the end of the trial (trial_sweep) and payments     *)
(* that the admin enters by hand (bff/routers/admin.py).                   *)
(*                                                                         *)
(* Razorpay delivers an event until it is answered, in any order and       *)
(* several at a time. One step is one transaction, or what a session reads *)
(* and, later, what it commits: SQLAlchemy writes the attributes that      *)
(* differ from what it has read. What the events do to the ads is in       *)
(* LiveState.                                                              *)
(***************************************************************************)
EXTENDS Integers, Sequences, FiniteSets

CONSTANTS
  Tier,
  Request,      (* concurrent calls of subscribe for the account            *)
  NoRow,
  MaxMandates,  (* bound: subscriptions created at Razorpay                 *)
  MaxEvents,    (* bound: events that Razorpay sends                        *)
  MaxMonths,    (* bound: periods it charges                                *)
  MaxFailures   (* bound: calls that raise, or die half-way                 *)

SubscriptionStatus == {"TRIAL", "ACTIVE", "PAST_DUE", "CANCELLED"}
Subscription == [tier : Tier, status : SubscriptionStatus, mandate : 1..MaxMandates]
(* What an event's session has read.                                       *)
Reading == [status : SubscriptionStatus, tier : Tier, invoiced : BOOLEAN]

ASSUME BillingAssumption ==
  /\ NoRow \notin Subscription \cup Reading
  /\ MaxMandates \in Nat /\ MaxEvents \in Nat /\ MaxMonths \in Nat \ {0} /\ MaxFailures \in Nat

VARIABLES
  sub,         (* the subscriptions row of the account                      *)
  mandates,    (* Razorpay: the tier of each subscription                   *)
  offered,     (* those whose URL the owner has got                         *)
  log,         (* Razorpay: its events, in the order of what they report    *)
  month,       (* Razorpay: the period it charges                           *)
  handler,     (* where the webhook's thread for an event stands            *)
  saw,         (* what it has read: [status, tier, invoiced]                *)
  applied,     (* how often an event was applied                            *)
  invoices,    (* the invoices rows: [event, tier, period]                  *)
  request,     (* subscribe: the row that a call has read, and its mandate  *)
  sweep,       (* trial_sweep has selected the row                          *)
  overlapped,  (* history: a transaction committed between another's read   *)
               (* and its commit                                            *)
  reordered,   (* history: an event was read before an earlier one was done *)
  failures

razorpayVars == <<mandates, offered, log, month>>
eventVars == <<handler, saw, applied, invoices>>
history == <<overlapped, reordered>>
vars == <<sub, mandates, offered, log, month, handler, saw, applied, invoices,
          request, sweep, overlapped, reordered, failures>>

(* "halted" stands for payment.failed too.                                 *)
Kind == {"activated", "charged", "halted", "cancelled"}
Event == 1..MaxEvents

(* The events that say that a period is paid.                              *)
Pays(kind) == kind \in {"activated", "charged"}

StatusOf(kind) == IF Pays(kind) THEN "ACTIVE"
                  ELSE IF kind = "halted" THEN "PAST_DUE" ELSE "CANCELLED"

(* gst_paise: 18 % in basis points, rounded half up.                       *)
GST_RATE_BPS == 1800
gst_paise(base) == (base * GST_RATE_BPS + 5000) \div 10000
with_gst(base) == [base |-> base, gst |-> gst_paise(base), total |-> base + gst_paise(base)]

-----------------------------------------------------------------------------
TypeOK ==
  /\ sub \in Subscription \cup {NoRow}
  /\ mandates \in Seq(Tier) /\ Len(mandates) <= MaxMandates
  /\ offered \in SUBSET (1..Len(mandates))
  /\ Len(log) <= MaxEvents
  /\ \A e \in 1..Len(log) : log[e] \in [mandate : offered, kind : Kind, period : 1..month]
  /\ month \in 1..MaxMonths
  /\ handler \in [Event -> {"none", "recorded", "loaded", "done", "lost"}]
  /\ \A e \in Event : handler[e] # "none" => e <= Len(log)
  /\ saw \in [Event -> Reading \cup {NoRow}]
  /\ \A e \in Event : handler[e] = "loaded" <=> saw[e] # NoRow
  /\ applied \in [Event -> 0..1]
  /\ invoices \in SUBSET [event : 1..Len(log), tier : Tier, period : 1..month]
  /\ request \in [Request -> [row : Subscription \cup {NoRow}, mandate : 0..Len(mandates)]]
  /\ sweep \in BOOLEAN /\ overlapped \in BOOLEAN /\ reordered \in BOOLEAN
  /\ failures \in 0..MaxFailures

NoRequest == [row |-> NoRow, mandate |-> 0]

Init ==
  /\ sub = NoRow
  /\ mandates = <<>> /\ offered = {} /\ log = <<>> /\ month = 1
  /\ handler = [e \in Event |-> "none"] /\ saw = [e \in Event |-> NoRow]
  /\ applied = [e \in Event |-> 0] /\ invoices = {}
  /\ request = [r \in Request |-> NoRequest] /\ sweep = FALSE
  /\ overlapped = FALSE /\ reordered = FALSE /\ failures = 0

(* Some transaction other than the one of this event, call or sweep has    *)
(* read the rows and not yet committed.                                    *)
OthersOpen(e, r, swept) ==
  \/ \E f \in Event \ {e} : handler[f] = "loaded"
  \/ \E q \in Request \ {r} : request[q] # NoRequest
  \/ sweep /\ ~swept

Committed(e, r, swept) == overlapped' = (overlapped \/ OthersOpen(e, r, swept))

-----------------------------------------------------------------------------
(* A live subscription of the same tier with a mandate.                    *)
Reusable(row, t) == row # NoRow /\ row.tier = t /\ row.status \in {"TRIAL", "ACTIVE"}

(* create_subscription at Razorpay: another mandate, whatever there is.    *)
CreateSubscription(t) ==
  /\ Len(mandates) < MaxMandates
  /\ mandates' = Append(mandates, t)

(* subscribe reads the row; one that it can reuse ends the call. Otherwise *)
(* it creates a mandate, which nobody sees before the commit.              *)
Subscribe(r, t) ==
  /\ request[r] = NoRequest /\ ~Reusable(sub, t)
  /\ CreateSubscription(t)
  /\ request' = [request EXCEPT ![r] = [row |-> sub, mandate |-> Len(mandates) + 1]]
  /\ UNCHANGED <<sub, offered, log, month, eventVars, sweep, history, failures>>

(* The commit: an insert that meets a row (account_id is unique) raises,   *)
(* an update writes what it has changed. The owner gets the URL.           *)
CommitSubscribe(r) ==
  LET q == request[r]
      tier == mandates[q.mandate]
      Written(new, read, now) == IF new = read THEN now ELSE new
  IN /\ q # NoRequest /\ (q.row = NoRow <=> sub = NoRow)
     /\ sub' = IF q.row = NoRow
               THEN [tier |-> tier, status |-> "TRIAL", mandate |-> q.mandate]
               ELSE [tier |-> Written(tier, q.row.tier, sub.tier),
                     status |-> Written("TRIAL", q.row.status, sub.status),
                     mandate |-> q.mandate]
     /\ offered' = offered \cup {q.mandate}
     /\ request' = [request EXCEPT ![r] = NoRequest]
     /\ Committed(0, r, FALSE)
     /\ UNCHANGED <<mandates, log, month, eventVars, sweep, reordered, failures>>

(* The insert meets the other call's row, or the process dies: the mandate *)
(* has no row and no URL.                                                  *)
FailSubscribe(r) ==
  LET q == request[r]
      conflict == q.row = NoRow /\ sub # NoRow
  IN /\ q # NoRequest /\ (conflict \/ failures < MaxFailures)
     /\ failures' = IF conflict THEN failures ELSE failures + 1
     /\ request' = [request EXCEPT ![r] = NoRequest]
     /\ UNCHANGED <<sub, razorpayVars, eventVars, sweep, history>>

-----------------------------------------------------------------------------
(* Razorpay: an authorised mandate is charged each month, the first time   *)
(* with an activation, until it halts or is cancelled.                     *)
Report(m, kind) ==
  LET past == {log[e].kind : e \in {e \in 1..Len(log) : log[e].mandate = m}}
  IN /\ Len(log) < MaxEvents /\ m \in offered /\ "cancelled" \notin past
     /\ kind = "activated" => past = {}
     /\ kind # "activated" => "activated" \in past
     /\ log' = Append(log, [mandate |-> m, kind |-> kind, period |-> month])
     /\ UNCHANGED <<sub, mandates, offered, month, eventVars, request, sweep, history,
                    failures>>

NextMonth ==
  /\ month < MaxMonths /\ month <= Len(log) /\ month' = month + 1
  /\ UNCHANGED <<sub, mandates, offered, log, eventVars, request, sweep, history,
                 failures>>

(* Mutant: what is not done yet is taken for new.                          *)
Deliver_Unseen(e) ==
  /\ e <= Len(log) /\ handler[e] \in {"none", "lost", "done"} /\ applied[e] < 2
  /\ handler' = [handler EXCEPT ![e] = "recorded"]
  /\ UNCHANGED <<sub, razorpayVars, saw, applied, invoices, request, sweep, history,
                 failures>>

(* record_inbound_event commits; a delivery that was seen is answered at   *)
(* once and changes nothing.                                               *)
Deliver(e) ==
  /\ e <= Len(log) /\ handler[e] = "none"
  /\ handler' = [handler EXCEPT ![e] = "recorded"]
  /\ UNCHANGED <<sub, razorpayVars, saw, applied, invoices, request, sweep, history,
                 failures>>

(* Mutant: finds the subscription of the account.                          *)
IsMandateOf_Account(e) == sub # NoRow

IsMandateOf(e) == sub # NoRow /\ sub.mandate = log[e].mandate

(* Mutant: any invoice of the account counts.                              *)
Invoiced_AnyPeriod(e) == invoices # {}

Invoiced(e) == \E i \in invoices : i.period = log[e].period

(* apply_razorpay_event looks the mandate up and reads the row and, for a  *)
(* payment, the period's invoice. An unknown mandate ends it.              *)
LoadEvent(e) ==
  /\ handler[e] = "recorded"
  /\ \/ /\ IsMandateOf(e)
        /\ handler' = [handler EXCEPT ![e] = "loaded"]
        /\ saw' = [saw EXCEPT ![e] = [status |-> sub.status, tier |-> sub.tier,
                                      invoiced |-> Invoiced(e)]]
     \/ /\ ~IsMandateOf(e)
        /\ handler' = [handler EXCEPT ![e] = "done"]
        /\ UNCHANGED saw
  /\ reordered' = (reordered \/ \E f \in 1..e - 1 : handler[f] # "done")
  /\ UNCHANGED <<sub, razorpayVars, applied, invoices, request, sweep, overlapped,
                 failures>>

NewInvoices(e) ==
  IF Pays(log[e].kind) /\ ~saw[e].invoiced
  THEN {[event |-> e, tier |-> saw[e].tier, period |-> log[e].period]}
  ELSE {}

CommitEvent(e) ==
  LET new == StatusOf(log[e].kind)
  IN /\ handler[e] = "loaded"
     /\ sub' = IF new = saw[e].status THEN sub ELSE [sub EXCEPT !.status = new]
     /\ invoices' = invoices \cup NewInvoices(e)
     /\ handler' = [handler EXCEPT ![e] = "done"]
     /\ saw' = [saw EXCEPT ![e] = NoRow]
     /\ applied' = [applied EXCEPT ![e] = @ + 1]
     /\ Committed(e, NoRow, FALSE)
     /\ UNCHANGED <<razorpayVars, request, sweep, reordered, failures>>

(* It raises or dies: the delivery is not repeated, or dropped as a        *)
(* duplicate, because it was recorded.                                     *)
FailEvent(e) ==
  /\ handler[e] \in {"recorded", "loaded"} /\ failures < MaxFailures
  /\ failures' = failures + 1
  /\ handler' = [handler EXCEPT ![e] = "lost"]
  /\ saw' = [saw EXCEPT ![e] = NoRow]
  /\ UNCHANGED <<sub, razorpayVars, applied, invoices, request, sweep, history>>

-----------------------------------------------------------------------------
(* The trial may be over at any time.                                      *)
SweepSelect ==
  /\ ~sweep /\ sub # NoRow /\ sub.status = "TRIAL"
  /\ sweep' = TRUE
  /\ UNCHANGED <<sub, razorpayVars, eventVars, request, history, failures>>

(* The update is by id: it does not look at the status again.              *)
SweepCommit ==
  /\ sweep /\ sweep' = FALSE
  /\ sub' = [sub EXCEPT !.status = "PAST_DUE"]
  /\ Committed(0, NoRow, TRUE)
  /\ UNCHANGED <<razorpayVars, eventVars, request, reordered, failures>>

(* The founder collected the payment.                                      *)
MarkPaid ==
  /\ sub # NoRow /\ sub.status # "ACTIVE" /\ failures < MaxFailures
  /\ failures' = failures + 1
  /\ sub' = [sub EXCEPT !.status = "ACTIVE"]
  /\ Committed(0, NoRow, FALSE)
  /\ UNCHANGED <<razorpayVars, eventVars, request, sweep, reordered>>

-----------------------------------------------------------------------------
Handle(e) == Deliver(e) \/ LoadEvent(e) \/ CommitEvent(e)

Next ==
  \/ \E r \in Request :
       (\E t \in Tier : Subscribe(r, t)) \/ CommitSubscribe(r) \/ FailSubscribe(r)
  \/ \E m \in offered, k \in Kind : Report(m, k)
  \/ NextMonth
  \/ \E e \in Event : Handle(e) \/ FailEvent(e)
  \/ SweepSelect \/ SweepCommit \/ MarkPaid

Spec == Init /\ [][Next]_vars

-----------------------------------------------------------------------------
(* A period that was paid has an invoice, and, as long as no two sessions  *)
(* run side by side, one only, in whatever order its activation and its    *)
(* charge arrive (core/webhooks.py:31).                                    *)
PaidIsInvoiced ==
  /\ \A e \in 1..Len(log) : applied[e] > 0 /\ Pays(log[e].kind) =>
       \E i \in invoices : i.period = log[e].period
  /\ ~overlapped => \A i, j \in invoices : i.period = j.period => i = j

(* When every event was handled, in their order and one at a time, the     *)
(* subscription says what the last event of its mandate says. Events of a  *)
(* mandate that it has replaced do not touch it.                           *)
StatusFollowsMandate ==
  LET mine == {e \in 1..Len(log) : log[e].mandate = sub.mandate}
      last == CHOOSE e \in mine : \A f \in mine : f <= e
  IN sub # NoRow /\ mine # {} /\ failures = 0 /\ ~overlapped /\ ~reordered /\ ~sweep
       /\ (\A e \in 1..Len(log) : handler[e] = "done")
     => sub.status = StatusOf(log[last].kind)
=============================================================================
