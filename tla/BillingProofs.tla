--------------------------- MODULE BillingProofs ---------------------------
(***************************************************************************)
(* For any number of calls, tiers, mandates, events, periods and failures: *)
(* a period that was paid has its invoice, and one only unless sessions    *)
(* have run side by side; the GST on it is rounded half up; the type       *)
(* invariant; and the subscription says what the last event of its mandate *)
(* said, once all have been handled in order and one at a time.            *)
(***************************************************************************)
EXTENDS Billing, WellFoundedInduction, TLAPS

TypeInv ==
  /\ mandates \in Seq(Tier) /\ offered \in SUBSET Nat /\ month \in Nat
  /\ DOMAIN request = Request /\ \A r \in Request : request[r].mandate \in Nat
  /\ log \in Seq([mandate : Nat, kind : Kind, period : Nat]) /\ Len(log) <= MaxEvents
  /\ handler \in [Event -> {"none", "recorded", "loaded", "done", "lost"}]
  /\ DOMAIN saw = Event
  /\ \A e \in Event : handler[e] = "loaded" => saw[e].invoiced \in BOOLEAN
  /\ applied \in [Event -> Nat]
  /\ overlapped \in BOOLEAN

(* Only an event that Razorpay has sent is handled, or applied.            *)
SentInv == \A e \in Event : handler[e] # "none" \/ applied[e] > 0 => e <= Len(log)

PeriodOf(e) == log[e].period
HasInvoice(e) == \E i \in invoices : i.period = PeriodOf(e)

(* An invoice that a session has seen is still there when it commits; one  *)
(* that it has missed is still missing, unless another has committed.      *)
SawInv ==
  \A e \in Event : handler[e] = "loaded" =>
    /\ saw[e].invoiced => HasInvoice(e)
    /\ ~overlapped /\ ~saw[e].invoiced => ~HasInvoice(e)

PaidInv == \A e \in Event : applied[e] > 0 /\ Pays(log[e].kind) => HasInvoice(e)

OneInv == ~overlapped => \A i, j \in invoices : i.period = j.period => i = j

BillingInv == TypeInv /\ SentInv /\ SawInv /\ PaidInv /\ OneInv

-----------------------------------------------------------------------------
LEMMA InitBilling == Init => BillingInv
<1> SUFFICES ASSUME Init PROVE BillingInv
  OBVIOUS
<1> USE BillingAssumption DEF Init, Event
<1>1. /\ mandates \in Seq(Tier) /\ offered \in SUBSET Nat /\ month \in Nat
      /\ log \in Seq([mandate : Nat, kind : Kind, period : Nat])
      /\ Len(log) <= MaxEvents /\ overlapped \in BOOLEAN
  <2>1. mandates \in Seq(Tier) /\ log \in Seq([mandate : Nat, kind : Kind, period : Nat])
    OBVIOUS
  <2>2. Len(log) <= MaxEvents
    OBVIOUS
  <2>3. offered \in SUBSET Nat /\ month \in Nat /\ overlapped \in BOOLEAN
    OBVIOUS
  <2> QED
    BY <2>1, <2>2, <2>3
<1>2. DOMAIN request = Request /\ \A r \in Request : request[r].mandate \in Nat
  <2>1. DOMAIN request = Request /\ \A r \in Request : request[r] = NoRequest
    BY Zenon
  <2>2. NoRequest.mandate = 0
    BY DEF NoRequest
  <2> QED
    BY <2>1, <2>2
<1>3. /\ handler \in [Event -> {"none", "recorded", "loaded", "done", "lost"}]
      /\ \A e \in Event : handler[e] = "none"
  OBVIOUS
<1>4. DOMAIN saw = Event
  BY Zenon
<1>5. applied \in [Event -> Nat] /\ \A e \in Event : applied[e] = 0
  OBVIOUS
<1>6. TypeInv
  BY <1>1, <1>2, <1>3, <1>4, <1>5 DEF TypeInv
<1>7. SentInv /\ SawInv /\ PaidInv /\ OneInv
  BY <1>3, <1>5 DEF SentInv, SawInv, PaidInv, OneInv
<1> QED
  BY <1>6, <1>7 DEF BillingInv

(* A step that leaves the events, what was read of them and the invoices   *)
(* alone keeps the invariant; another's commit can only set overlapped.    *)
LEMMA KeepsBilling ==
  ASSUME BillingInv, TypeInv', UNCHANGED <<log, handler, saw, applied, invoices>>,
         overlapped => overlapped'
  PROVE  BillingInv'
<1>1. SentInv' /\ PaidInv'
  BY DEF BillingInv, SentInv, PaidInv, HasInvoice, PeriodOf
<1>2. SawInv'
  BY DEF BillingInv, SawInv, HasInvoice, PeriodOf
<1>3. OneInv'
  BY DEF BillingInv, OneInv
<1> QED
  BY <1>1, <1>2, <1>3 DEF BillingInv

LEMMA SubscribeBilling ==
  ASSUME BillingInv, NEW r \in Request,
         (\E t \in Tier : Subscribe(r, t)) \/ CommitSubscribe(r) \/ FailSubscribe(r)
  PROVE  BillingInv'
<1> USE DEF BillingInv
<1>1. CASE \E t \in Tier : Subscribe(r, t)
  <2> PICK t \in Tier : Subscribe(r, t)
    BY <1>1
  <2>1. TypeInv'
    BY DEF TypeInv, Subscribe, CreateSubscription, eventVars, history
  <2> QED
    BY <2>1, KeepsBilling DEF Subscribe, CreateSubscription, eventVars, history
<1>2. CASE CommitSubscribe(r)
  <2>1. overlapped' = (overlapped \/ OthersOpen(0, r, FALSE))
    BY <1>2 DEF CommitSubscribe, Committed
  <2>2. overlapped' \in BOOLEAN
    BY <2>1 DEF OthersOpen
  <2>3. TypeInv'
    BY <1>2, <2>2 DEF TypeInv, CommitSubscribe, eventVars, NoRequest
  <2> QED
    BY <2>1, <2>3, <1>2, KeepsBilling DEF CommitSubscribe, eventVars
<1>3. CASE FailSubscribe(r)
  <2>1. TypeInv'
    BY <1>3 DEF TypeInv, FailSubscribe, razorpayVars, eventVars, history, NoRequest
  <2> QED
    BY <2>1, <1>3, KeepsBilling DEF FailSubscribe, razorpayVars, eventVars, history
<1> QED
  BY <1>1, <1>2, <1>3

(* Razorpay only appends to its log.                                       *)
LEMMA ReportBilling ==
  ASSUME BillingInv, NEW m \in offered, NEW kind \in Kind, Report(m, kind)
  PROVE  BillingInv'
<1> DEFINE entry == [mandate |-> m, kind |-> kind, period |-> month]
<1> USE DEF BillingInv
<1>1. entry \in [mandate : Nat, kind : Kind, period : Nat] /\ log' = Append(log, entry)
  BY DEF Report, TypeInv
<1>2. Len(log') = Len(log) + 1 /\ \A e \in 1..Len(log) : log'[e] = log[e]
  BY <1>1 DEF TypeInv
<1>3. Len(log) \in Nat
  BY DEF TypeInv
<1>4. UNCHANGED <<mandates, offered, month, request, handler, saw, applied, invoices, overlapped>>
  BY DEF Report, eventVars, history
<1>5. TypeInv'
  BY <1>1, <1>2, <1>3, <1>4, BillingAssumption DEF TypeInv, Report
<1>6. SentInv'
  BY <1>2, <1>3, <1>4, BillingAssumption DEF SentInv, Event
<1>7. \A e \in Event : handler[e] # "none" \/ applied[e] > 0
                         => log'[e] = log[e] /\ (HasInvoice(e))' = HasInvoice(e)
  BY <1>2, <1>3, <1>4, BillingAssumption DEF SentInv, Event, HasInvoice, PeriodOf
<1>8. SawInv' /\ PaidInv' /\ OneInv'
  BY <1>4, <1>7 DEF SawInv, PaidInv, OneInv
<1> QED
  BY <1>5, <1>6, <1>8

LEMMA DeliverBilling ==
  ASSUME BillingInv, NEW e \in Event, Deliver(e)
  PROVE  BillingInv'
<1> USE DEF BillingInv
<1>1. /\ handler' = [handler EXCEPT ![e] = "recorded"] /\ e <= Len(log)
      /\ UNCHANGED <<mandates, offered, month, request, log, saw, applied, invoices, overlapped>>
  BY DEF Deliver, razorpayVars, history
<1>2. TypeInv'
  BY <1>1 DEF TypeInv
<1>3. SentInv' /\ PaidInv' /\ OneInv'
  BY <1>1 DEF TypeInv, SentInv, PaidInv, OneInv, HasInvoice, PeriodOf
<1>4. SawInv'
  BY <1>1 DEF TypeInv, SawInv, HasInvoice, PeriodOf
<1> QED
  BY <1>2, <1>3, <1>4

(* The session remembers whether the period has its invoice.               *)
LEMMA LoadBilling ==
  ASSUME BillingInv, NEW e \in Event, LoadEvent(e)
  PROVE  BillingInv'
<1> USE DEF BillingInv
<1>1. /\ handler[e] = "recorded"
      /\ UNCHANGED <<mandates, offered, month, request, log, applied, invoices, overlapped>>
  BY DEF LoadEvent, razorpayVars
<1>2. Invoiced(e) = HasInvoice(e) /\ Invoiced(e) \in BOOLEAN
  BY DEF Invoiced, HasInvoice, PeriodOf
<1>3. CASE IsMandateOf(e)
  <2>1. /\ handler' = [handler EXCEPT ![e] = "loaded"]
        /\ saw' = [saw EXCEPT ![e] = [status |-> sub.status, tier |-> sub.tier,
                                      invoiced |-> Invoiced(e)]]
    BY <1>3 DEF LoadEvent
  <2>2. saw'[e].invoiced = HasInvoice(e) /\ \A f \in Event \ {e} : saw'[f] = saw[f]
    BY <2>1, <1>2 DEF TypeInv
  <2>3. TypeInv'
    BY <1>1, <1>2, <2>1, <2>2 DEF TypeInv
  <2>4. SentInv' /\ PaidInv' /\ OneInv'
    BY <1>1, <2>1 DEF TypeInv, SentInv, PaidInv, OneInv, HasInvoice, PeriodOf
  <2>5. \A f \in Event : (HasInvoice(f))' = HasInvoice(f)
    BY <1>1 DEF HasInvoice, PeriodOf
  <2>6. SawInv'
    BY <1>1, <2>1, <2>2, <2>5 DEF TypeInv, SawInv
  <2> QED
    BY <2>3, <2>4, <2>6
<1>4. CASE ~IsMandateOf(e)
  <2>1. handler' = [handler EXCEPT ![e] = "done"] /\ saw' = saw
    BY <1>4 DEF LoadEvent
  <2>2. TypeInv'
    BY <1>1, <2>1 DEF TypeInv
  <2>3. SentInv' /\ PaidInv' /\ OneInv'
    BY <1>1, <2>1 DEF TypeInv, SentInv, PaidInv, OneInv, HasInvoice, PeriodOf
  <2>4. SawInv'
    BY <1>1, <2>1 DEF TypeInv, SawInv, HasInvoice, PeriodOf
  <2> QED
    BY <2>2, <2>3, <2>4
<1> QED
  BY <1>3, <1>4

(* The commit inserts the invoice that the session has missed. Whoever is  *)
(* open then has been overlapped.                                          *)
LEMMA CommitBilling ==
  ASSUME BillingInv, NEW e \in Event, CommitEvent(e)
  PROVE  BillingInv'
<1> USE DEF BillingInv
<1>1. /\ handler[e] = "loaded" /\ handler' = [handler EXCEPT ![e] = "done"]
      /\ saw' = [saw EXCEPT ![e] = NoRow] /\ applied' = [applied EXCEPT ![e] = @ + 1]
      /\ invoices' = invoices \cup NewInvoices(e)
      /\ overlapped' = (overlapped \/ OthersOpen(e, NoRow, FALSE))
      /\ UNCHANGED <<mandates, offered, month, log, request>>
  BY DEF CommitEvent, Committed, razorpayVars
<1>2. overlapped' \in BOOLEAN /\ (overlapped => overlapped')
  BY <1>1 DEF OthersOpen
<1>3. ~overlapped' => \A f \in Event \ {e} : handler[f] # "loaded"
  BY <1>1 DEF OthersOpen
<1>4. TypeInv'
  BY <1>1, <1>2 DEF TypeInv
<1>5. SentInv'
  BY <1>1 DEF TypeInv, SentInv
<1>6. \A f \in Event : HasInvoice(f) => (HasInvoice(f))'
  BY <1>1 DEF HasInvoice, PeriodOf
<1>7. SawInv'
  <2> SUFFICES ASSUME NEW f \in Event, handler'[f] = "loaded"
               PROVE  /\ saw'[f].invoiced => (HasInvoice(f))'
                      /\ ~overlapped' /\ ~saw'[f].invoiced => ~(HasInvoice(f))'
    BY DEF SawInv
  <2>1. f # e /\ handler[f] = "loaded" /\ saw'[f] = saw[f]
    BY <1>1 DEF TypeInv
  <2> QED
    BY <2>1, <1>3, <1>6 DEF SawInv
<1>8. Pays(log[e].kind) => (HasInvoice(e))'
  <2>1. CASE saw[e].invoiced
    BY <1>1, <1>6, <2>1 DEF SawInv
  <2>2. CASE ~saw[e].invoiced
    <3> DEFINE new == [event |-> e, tier |-> saw[e].tier, period |-> log[e].period]
    <3>1. SUFFICES ASSUME Pays(log[e].kind) PROVE (HasInvoice(e))'
      OBVIOUS
    <3>2. new \in invoices' /\ new.period = log'[e].period
      BY <1>1, <2>2, <3>1 DEF NewInvoices
    <3> QED
      BY <3>2 DEF HasInvoice, PeriodOf
  <2> QED
    BY <2>1, <2>2
<1>9. PaidInv'
  <2> SUFFICES ASSUME NEW f \in Event, applied'[f] > 0, Pays(log'[f].kind)
               PROVE  (HasInvoice(f))'
    BY DEF PaidInv
  <2>1. CASE f = e
    BY <2>1, <1>1, <1>8
  <2>2. CASE f # e
    BY <2>2, <1>1, <1>6 DEF TypeInv, PaidInv
  <2> QED
    BY <2>1, <2>2
<1>10. OneInv'
  <2> SUFFICES ASSUME ~overlapped',
                      NEW i \in invoices', NEW j \in invoices', i.period = j.period
               PROVE  i = j
    BY DEF OneInv
  <2>1. ~overlapped
    BY <1>2
  <2>2. CASE NewInvoices(e) = {}
    BY <2>1, <2>2, <1>1 DEF OneInv
  <2>3. CASE NewInvoices(e) # {}
    <3>1. /\ ~saw[e].invoiced
          /\ NewInvoices(e) = {[event |-> e, tier |-> saw[e].tier, period |-> log[e].period]}
      BY <2>3 DEF NewInvoices
    <3>2. \A k \in invoices : k.period # log[e].period
      BY <3>1, <2>1, <1>1 DEF SawInv, HasInvoice, PeriodOf
    <3>3. \A k \in NewInvoices(e) : k.period = log[e].period
      BY <3>1
    <3> QED
      BY <2>1, <3>1, <3>2, <3>3, <1>1 DEF OneInv
  <2> QED
    BY <2>2, <2>3
<1> QED
  BY <1>4, <1>5, <1>7, <1>9, <1>10

LEMMA FailBilling ==
  ASSUME BillingInv, NEW e \in Event, FailEvent(e)
  PROVE  BillingInv'
<1> USE DEF BillingInv
<1>1. /\ handler[e] # "none" /\ handler' = [handler EXCEPT ![e] = "lost"]
      /\ saw' = [saw EXCEPT ![e] = NoRow]
      /\ UNCHANGED <<mandates, offered, month, request, log, applied, invoices, overlapped>>
  BY DEF FailEvent, razorpayVars, history
<1>2. TypeInv'
  BY <1>1 DEF TypeInv
<1>3. SentInv' /\ PaidInv' /\ OneInv'
  BY <1>1 DEF TypeInv, SentInv, PaidInv, OneInv, HasInvoice, PeriodOf
<1>4. SawInv'
  BY <1>1 DEF TypeInv, SawInv, HasInvoice, PeriodOf
<1> QED
  BY <1>2, <1>3, <1>4

(* The trial's end, payments by hand and time do not touch the invoices.   *)
LEMMA OutsideBilling ==
  ASSUME BillingInv, NextMonth \/ SweepSelect \/ SweepCommit \/ MarkPaid
  PROVE  BillingInv'
<1> USE DEF BillingInv
<1>1. CASE NextMonth
  <2>1. TypeInv'
    BY <1>1 DEF TypeInv, NextMonth, eventVars, history
  <2> QED
    BY <2>1, <1>1, KeepsBilling DEF NextMonth, eventVars, history
<1>2. CASE SweepSelect
  <2>1. TypeInv'
    BY <1>2 DEF TypeInv, SweepSelect, razorpayVars, eventVars, history
  <2> QED
    BY <2>1, <1>2, KeepsBilling DEF SweepSelect, razorpayVars, eventVars, history
<1>3. CASE SweepCommit
  <2>1. overlapped' = (overlapped \/ OthersOpen(0, NoRow, TRUE))
    BY <1>3 DEF SweepCommit, Committed
  <2>2. overlapped' \in BOOLEAN
    BY <2>1 DEF OthersOpen
  <2>3. TypeInv'
    BY <1>3, <2>2 DEF TypeInv, SweepCommit, razorpayVars, eventVars
  <2> QED
    BY <2>1, <2>3, <1>3, KeepsBilling DEF SweepCommit, razorpayVars, eventVars
<1>4. CASE MarkPaid
  <2>1. overlapped' = (overlapped \/ OthersOpen(0, NoRow, FALSE))
    BY <1>4 DEF MarkPaid, Committed
  <2>2. overlapped' \in BOOLEAN
    BY <2>1 DEF OthersOpen
  <2>3. TypeInv'
    BY <1>4, <2>2 DEF TypeInv, MarkPaid, razorpayVars, eventVars
  <2> QED
    BY <2>1, <2>3, <1>4, KeepsBilling DEF MarkPaid, razorpayVars, eventVars
<1> QED
  BY <1>1, <1>2, <1>3, <1>4

LEMMA NextBilling == BillingInv /\ [Next]_vars => BillingInv'
<1> SUFFICES ASSUME BillingInv, [Next]_vars PROVE BillingInv'
  OBVIOUS
<1>1. ASSUME NEW r \in Request,
             (\E t \in Tier : Subscribe(r, t)) \/ CommitSubscribe(r) \/ FailSubscribe(r)
      PROVE  BillingInv'
  BY <1>1, SubscribeBilling
<1>2. ASSUME NEW m \in offered, NEW k \in Kind, Report(m, k) PROVE BillingInv'
  BY <1>2, ReportBilling
<1>3. ASSUME NEW e \in Event, Handle(e) \/ FailEvent(e) PROVE BillingInv'
  BY <1>3, DeliverBilling, LoadBilling, CommitBilling, FailBilling DEF Handle
<1>4. CASE NextMonth \/ SweepSelect \/ SweepCommit \/ MarkPaid
  BY <1>4, OutsideBilling
<1>5. CASE UNCHANGED vars
  <2>1. TypeInv'
    BY <1>5 DEF vars, BillingInv, TypeInv
  <2> QED
    BY <2>1, <1>5, KeepsBilling DEF vars
<1> QED
  BY <1>1, <1>2, <1>3, <1>4, <1>5 DEF Next

-----------------------------------------------------------------------------
(* A period that was paid has an invoice, and one only unless two sessions *)
(* have run side by side (core/webhooks.py:60-66), whatever is delivered   *)
(* in whatever order, and whatever fails.                                  *)
THEOREM PaidIsInvoicedHolds == Spec => []PaidIsInvoiced
<1>1. BillingInv => PaidIsInvoiced
  <2> SUFFICES ASSUME BillingInv PROVE PaidIsInvoiced
    OBVIOUS
  <2>1. \A e \in Event : applied[e] > 0 /\ Pays(log[e].kind) => HasInvoice(e)
    BY DEF BillingInv, PaidInv
  <2>2. 1..Len(log) \subseteq Event
    BY BillingAssumption DEF BillingInv, TypeInv, Event
  <2> QED
    BY <2>1, <2>2 DEF PaidIsInvoiced, BillingInv, OneInv, HasInvoice, PeriodOf
<1> QED
  BY InitBilling, NextBilling, <1>1, PTL DEF Spec

(* The GST of an invoice is 18 % of its amount, to the nearest paisa, and  *)
(* half a paisa is rounded up (core/money.py:44-52).                       *)
THEOREM GstRoundsHalfUp ==
  ASSUME NEW base \in Nat
  PROVE  /\ gst_paise(base) \in Nat
         /\ 10000 * gst_paise(base) <= 1800 * base + 5000
         /\ 1800 * base + 5000 < 10000 * (gst_paise(base) + 1)
  BY DEF gst_paise, GST_RATE_BPS

-----------------------------------------------------------------------------
(* Part 2: the rows, and what the subscription says when events are        *)
(* handled in their order and one at a time.                               *)
RazorpayTypes ==
  /\ mandates \in Seq(Tier) /\ Len(mandates) <= MaxMandates
  /\ offered \in SUBSET (1..Len(mandates))
  /\ Len(log) <= MaxEvents
  /\ \A e \in 1..Len(log) : log[e] \in [mandate : offered, kind : Kind, period : 1..month]
  /\ month \in 1..MaxMonths

EventTypes ==
  /\ handler \in [Event -> {"none", "recorded", "loaded", "done", "lost"}]
  /\ saw \in [Event -> Reading \cup {NoRow}]
  /\ applied \in [Event -> 0..1]
  /\ invoices \in SUBSET [event : 1..Len(log), tier : Tier, period : 1..month]

RequestTypes ==
  request \in [Request -> [row : Subscription \cup {NoRow}, mandate : 0..Len(mandates)]]

OtherTypes ==
  /\ sub \in Subscription \cup {NoRow}
  /\ sweep \in BOOLEAN /\ overlapped \in BOOLEAN /\ reordered \in BOOLEAN
  /\ failures \in 0..MaxFailures

(* A row once read is still there; an event is applied once, at the end.   *)
HandlerInv ==
  /\ \A e \in Event : handler[e] = "loaded" <=> saw[e] # NoRow
  /\ \A e \in Event : handler[e] = "loaded" => sub # NoRow
  /\ \A e \in Event : applied[e] = 1 => handler[e] = "done"
  /\ sweep => sub # NoRow

Open(r) == request[r].mandate # 0

(* The mandate of a call that has not committed is nobody else's, and not  *)
(* offered: Razorpay reports nothing of it.                                *)
FreshInv ==
  /\ \A r \in Request : Open(r) <=> request[r] # NoRequest
  /\ \A r \in Request : Open(r) => request[r].mandate \notin offered
  /\ \A q, r \in Request : Open(q) /\ request[q].mandate = request[r].mandate => q = r

Quiet == failures = 0 /\ ~overlapped /\ ~reordered

(* While nothing fails, overlaps or overtakes: events are done in order,   *)
(* what a session has read is what it will overwrite, and the last event   *)
(* done of the row's mandate is what the row says.                         *)
InOrder ==
  \A e, f \in Event : f < e /\ handler[e] \in {"loaded", "done"} => handler[f] = "done"

ReadIsCurrent ==
  /\ \A e \in Event : handler[e] = "loaded" =>
       saw[e].status = sub.status /\ log[e].mandate = sub.mandate
  /\ sweep => sub.status = "TRIAL"

IsLastDone(e) ==
  /\ handler[e] = "done" /\ log[e].mandate = sub.mandate
  /\ \A f \in Event : f > e /\ handler[f] = "done" => log[f].mandate # sub.mandate

SaysLast == sub # NoRow => \A e \in Event : IsLastDone(e) => sub.status = StatusOf(log[e].kind)

QuietInv == Quiet => InOrder /\ ReadIsCurrent /\ SaysLast

RowInv ==
  /\ RazorpayTypes /\ EventTypes /\ RequestTypes /\ OtherTypes
  /\ HandlerInv /\ FreshInv /\ QuietInv

LEMMA InitRows == Init => RowInv
<1> SUFFICES ASSUME Init PROVE RowInv
  OBVIOUS
<1> USE BillingAssumption DEF Init, Event
<1>1. RazorpayTypes
  BY DEF RazorpayTypes
<1>2. /\ handler \in [Event -> {"none", "recorded", "loaded", "done", "lost"}]
      /\ \A e \in Event : handler[e] = "none" /\ applied[e] = 0 /\ saw[e] = NoRow
      /\ applied \in [Event -> 0..1] /\ saw \in [Event -> Reading \cup {NoRow}]
  OBVIOUS
<1>3. EventTypes
  BY <1>2 DEF EventTypes
<1>4. /\ request \in [Request -> [row : Subscription \cup {NoRow}, mandate : 0..Len(mandates)]]
      /\ \A r \in Request : request[r] = NoRequest /\ request[r].mandate = 0
  BY DEF NoRequest
<1>5. sweep \in BOOLEAN /\ overlapped \in BOOLEAN /\ reordered \in BOOLEAN
  BY Zenon
<1>6. RequestTypes /\ OtherTypes
  BY <1>4, <1>5 DEF RequestTypes, OtherTypes
<1>7. HandlerInv /\ FreshInv
  BY <1>2, <1>4 DEF HandlerInv, FreshInv, Open
<1>8. QuietInv
  BY <1>2 DEF QuietInv, InOrder, ReadIsCurrent, SaysLast, IsLastDone
<1> QED
  BY <1>1, <1>3, <1>6, <1>7, <1>8 DEF RowInv

(* What Razorpay logs widens as mandates are offered and months pass.      *)
LEMMA LogWidens ==
  ASSUME RazorpayTypes, NEW e \in 1..Len(log), NEW S, offered \subseteq S, NEW n \in Nat, month <= n
  PROVE  log[e] \in [mandate : S, kind : Kind, period : 1..n]
<1>1. log[e] \in [mandate : offered, kind : Kind, period : 1..month] /\ 1..month \subseteq 1..n
  BY DEF RazorpayTypes
<1> QED
  BY <1>1

(* An event done of the log is of a mandate that was offered.              *)
LEMMA DoneIsOffered ==
  ASSUME BillingInv, RowInv, NEW e \in Event, handler[e] # "none"
  PROVE  /\ e \in 1..Len(log) /\ log[e].mandate \in offered /\ log[e].mandate \in 1..Len(mandates)
         /\ log[e].kind \in Kind /\ log[e].period \in 1..month
<1>1. e \in 1..Len(log)
  BY BillingAssumption DEF BillingInv, SentInv, TypeInv, Event
<1> QED
  BY <1>1 DEF RowInv, RazorpayTypes

(* Steps that leave the subscription, the events and what was read of them *)
(* alone keep the order.                                                   *)
LEMMA QuietStays ==
  ASSUME BillingInv, RowInv, UNCHANGED <<sub, handler, saw, sweep>>, Quiet' => Quiet,
         \A e \in Event : handler[e] # "none" => log'[e] = log[e]
  PROVE  QuietInv'
<1> SUFFICES ASSUME Quiet' PROVE InOrder' /\ ReadIsCurrent' /\ SaysLast'
  BY DEF QuietInv
<1>1. InOrder /\ ReadIsCurrent /\ SaysLast
  BY DEF RowInv, QuietInv
<1>2. InOrder' /\ ReadIsCurrent'
  BY <1>1 DEF InOrder, ReadIsCurrent
<1>3. \A e \in Event : IsLastDone(e)' => IsLastDone(e) /\ log'[e] = log[e]
  BY DEF IsLastDone
<1>4. SaysLast'
  BY <1>1, <1>3 DEF SaysLast
<1> QED
  BY <1>2, <1>4

-----------------------------------------------------------------------------
LEMMA SubscribeRows ==
  ASSUME BillingInv, RowInv, NEW r \in Request, NEW t \in Tier, Subscribe(r, t)
  PROVE  RowInv'
<1> DEFINE new == [row |-> sub, mandate |-> Len(mandates) + 1]
<1> USE BillingAssumption DEF RowInv
<1>1. /\ UNCHANGED <<sub, offered, log, month, handler, saw, applied, invoices, sweep,
                     overlapped, reordered, failures>>
      /\ mandates' = Append(mandates, t) /\ Len(mandates) < MaxMandates
      /\ request' = [request EXCEPT ![r] = new]
  BY DEF Subscribe, CreateSubscription, eventVars, history
<1>2. mandates' \in Seq(Tier) /\ Len(mandates') = Len(mandates) + 1 /\ Len(mandates) \in Nat
  BY <1>1 DEF RazorpayTypes
<1>3. RazorpayTypes'
  BY <1>1, <1>2 DEF RazorpayTypes
<1>4. EventTypes' /\ OtherTypes' /\ HandlerInv'
  BY <1>1 DEF EventTypes, OtherTypes, HandlerInv
<1>5. /\ new \in [row : Subscription \cup {NoRow}, mandate : 0..Len(mandates')]
      /\ new.mandate = Len(mandates) + 1 /\ new # NoRequest
  BY <1>2 DEF OtherTypes, NoRequest
<1>6. \A q \in Request : request[q].mandate \in 0..Len(mandates)
                         /\ request[q] \in [row : Subscription \cup {NoRow}, mandate : 0..Len(mandates')]
  BY <1>2 DEF RequestTypes
<1> HIDE DEF new
<1>7. request'[r] = new /\ \A q \in Request \ {r} : request'[q] = request[q]
  BY <1>1 DEF RequestTypes
<1>8. RequestTypes'
  BY <1>1, <1>5, <1>6 DEF RequestTypes
<1>9. FreshInv'
  <2>1. \A q \in Request : (Open(q))' <=> request'[q] # NoRequest
    BY <1>2, <1>5, <1>7 DEF FreshInv, Open
  <2>2. \A q \in Request : (Open(q))' => request'[q].mandate \notin offered'
    BY <1>1, <1>2, <1>5, <1>7 DEF FreshInv, Open, RazorpayTypes
  <2>3. \A q \in Request \ {r} : request'[q].mandate # request'[r].mandate
    BY <1>2, <1>5, <1>6, <1>7
  <2>4. \A p, q \in Request : (Open(p))' /\ request'[p].mandate = request'[q].mandate => p = q
    BY <1>7, <2>3 DEF FreshInv, Open
  <2> QED
    BY <2>1, <2>2, <2>4 DEF FreshInv
<1>10. QuietInv'
  BY <1>1, QuietStays DEF Quiet
<1> QED
  BY <1>3, <1>4, <1>8, <1>9, <1>10

(* The row says TRIAL of a mandate that Razorpay has not reported on yet.  *)
LEMMA CommitSubscribeRows ==
  ASSUME BillingInv, RowInv, NEW r \in Request, CommitSubscribe(r)
  PROVE  RowInv'
<1> USE BillingAssumption DEF RowInv
<1> DEFINE q == request[r]
<1>1. /\ UNCHANGED <<mandates, log, month, handler, saw, applied, invoices, sweep, reordered, failures>>
      /\ q # NoRequest
      /\ offered' = offered \cup {q.mandate} /\ request' = [request EXCEPT ![r] = NoRequest]
      /\ overlapped' = (overlapped \/ OthersOpen(0, r, FALSE))
  BY DEF CommitSubscribe, eventVars, Committed
<1>2. /\ q.mandate \in 1..Len(mandates) /\ q.mandate \notin offered
      /\ q \in [row : Subscription \cup {NoRow}, mandate : 0..Len(mandates)]
  BY <1>1 DEF FreshInv, Open, RequestTypes
<1>3. sub' \in Subscription /\ sub'.mandate = q.mandate
  <2>1. mandates[q.mandate] \in Tier /\ q.mandate \in 1..MaxMandates
    BY <1>2 DEF RazorpayTypes
  <2>2. CASE q.row = NoRow
    BY <2>1, <2>2 DEF CommitSubscribe, Subscription, SubscriptionStatus
  <2>3. CASE q.row # NoRow
    <3>1. sub \in Subscription /\ q.row \in Subscription
      BY <1>2, <2>3 DEF CommitSubscribe, OtherTypes
    <3>2. PICK t \in {mandates[q.mandate], sub.tier}, st \in {"TRIAL", sub.status} :
            sub' = [tier |-> t, status |-> st, mandate |-> q.mandate]
      BY <2>3 DEF CommitSubscribe
    <3>3. t \in Tier /\ st \in SubscriptionStatus
      BY <2>1, <3>1 DEF Subscription, SubscriptionStatus
    <3> QED
      BY <2>1, <3>2, <3>3 DEF Subscription
  <2> QED
    BY <2>2, <2>3
<1> HIDE DEF q
<1>4. RazorpayTypes'
  <2>1. \A e \in 1..Len(log) : log[e] \in [mandate : offered', kind : Kind, period : 1..month]
    BY <1>1, LogWidens DEF RazorpayTypes
  <2> QED
    BY <1>1, <1>2, <2>1 DEF RazorpayTypes
<1>5. NoRequest \in [row : Subscription \cup {NoRow}, mandate : 0..Len(mandates)]
      /\ NoRequest.mandate = 0
  BY DEF NoRequest, RazorpayTypes
<1>6. request'[r] = NoRequest /\ \A k \in Request \ {r} : request'[k] = request[k]
  BY <1>1 DEF RequestTypes
<1>7. RequestTypes' /\ EventTypes'
  BY <1>1, <1>5 DEF RequestTypes, EventTypes
<1>8. overlapped' \in BOOLEAN
  BY <1>1 DEF OthersOpen
<1>9. OtherTypes'
  BY <1>1, <1>3, <1>8 DEF OtherTypes
<1>10. HandlerInv'
  BY <1>1, <1>3 DEF HandlerInv
<1>11. FreshInv'
  BY <1>1, <1>2, <1>5, <1>6 DEF FreshInv, Open, q
<1>12. QuietInv'
  <2> SUFFICES ASSUME Quiet' PROVE InOrder' /\ ReadIsCurrent' /\ SaysLast'
    BY DEF QuietInv
  <2>1. Quiet /\ ~OthersOpen(0, r, FALSE)
    BY <1>1 DEF Quiet
  <2>2. ~sweep /\ \A e \in Event : handler[e] # "loaded"
    BY <2>1 DEF OthersOpen, Event
  <2>3. InOrder' /\ ReadIsCurrent'
    BY <1>1, <2>1, <2>2 DEF QuietInv, InOrder, ReadIsCurrent
  <2>4. \A e \in Event : handler[e] = "done" => log[e].mandate # sub'.mandate
    BY <1>2, <1>3, DoneIsOffered
  <2>5. SaysLast'
    BY <1>1, <2>4 DEF SaysLast, IsLastDone
  <2> QED
    BY <2>3, <2>5
<1> QED
  BY <1>4, <1>7, <1>9, <1>10, <1>11, <1>12

LEMMA FailSubscribeRows ==
  ASSUME BillingInv, RowInv, NEW r \in Request, FailSubscribe(r)
  PROVE  RowInv'
<1> USE BillingAssumption DEF RowInv
<1>1. /\ UNCHANGED <<sub, mandates, offered, log, month, handler, saw, applied, invoices, sweep,
                     overlapped, reordered>>
      /\ request' = [request EXCEPT ![r] = NoRequest]
      /\ failures' \in 0..MaxFailures /\ (failures' = 0 => failures = 0)
  BY DEF FailSubscribe, razorpayVars, eventVars, history, OtherTypes
<1>2. NoRequest \in [row : Subscription \cup {NoRow}, mandate : 0..Len(mandates)]
      /\ NoRequest.mandate = 0
  BY DEF NoRequest, RazorpayTypes
<1>3. request'[r] = NoRequest /\ \A k \in Request \ {r} : request'[k] = request[k]
  BY <1>1 DEF RequestTypes
<1>4. RazorpayTypes' /\ EventTypes' /\ OtherTypes' /\ HandlerInv'
  BY <1>1 DEF RazorpayTypes, EventTypes, OtherTypes, HandlerInv
<1>5. RequestTypes'
  BY <1>1, <1>2 DEF RequestTypes
<1>6. FreshInv'
  BY <1>1, <1>2, <1>3 DEF FreshInv, Open
<1>7. QuietInv'
  BY <1>1, QuietStays DEF Quiet
<1> QED
  BY <1>4, <1>5, <1>6, <1>7

LEMMA ReportRows ==
  ASSUME BillingInv, RowInv, NEW m \in offered, NEW kind \in Kind, Report(m, kind)
  PROVE  RowInv'
<1> DEFINE entry == [mandate |-> m, kind |-> kind, period |-> month]
<1> USE BillingAssumption DEF RowInv
<1>1. /\ UNCHANGED <<sub, mandates, offered, month, handler, saw, applied, invoices, request,
                     sweep, overlapped, reordered, failures>>
      /\ Len(log) < MaxEvents /\ log' = Append(log, entry)
  BY DEF Report, eventVars, history
<1>2. entry \in [mandate : offered, kind : Kind, period : 1..month]
  BY DEF RazorpayTypes
<1> HIDE DEF entry
<1>3. /\ Len(log') = Len(log) + 1 /\ Len(log) \in Nat /\ log'[Len(log) + 1] = entry
      /\ \A e \in 1..Len(log) : log'[e] = log[e]
  BY <1>1 DEF BillingInv, TypeInv
<1>4. RazorpayTypes'
  <2>1. \A e \in 1..Len(log') : log'[e] \in [mandate : offered, kind : Kind, period : 1..month]
    <3> SUFFICES ASSUME NEW e \in 1..Len(log')
                 PROVE  log'[e] \in [mandate : offered, kind : Kind, period : 1..month]
      OBVIOUS
    <3>1. CASE e = Len(log) + 1
      BY <1>2, <1>3, <3>1
    <3>2. CASE e \in 1..Len(log)
      BY <1>3, <3>2 DEF RazorpayTypes
    <3> QED
      BY <1>3, <3>1, <3>2
  <2> QED
    BY <1>1, <1>3, <2>1 DEF RazorpayTypes
<1>5. EventTypes'
  <2>1. 1..Len(log) \subseteq 1..Len(log')
    BY <1>3
  <2>2. invoices \in SUBSET [event : 1..Len(log'), tier : Tier, period : 1..month]
    BY <2>1 DEF EventTypes
  <2> QED
    BY <1>1, <2>2 DEF EventTypes
<1>6. RequestTypes' /\ OtherTypes' /\ HandlerInv' /\ FreshInv'
  BY <1>1 DEF RequestTypes, OtherTypes, HandlerInv, FreshInv, Open
<1>7. \A e \in Event : handler[e] # "none" => log'[e] = log[e]
  BY <1>3, DoneIsOffered
<1>8. QuietInv'
  BY <1>1, <1>7, QuietStays DEF Quiet
<1> QED
  BY <1>4, <1>5, <1>6, <1>8

LEMMA DeliverRows ==
  ASSUME BillingInv, RowInv, NEW e \in Event, Deliver(e)
  PROVE  RowInv'
<1> USE BillingAssumption DEF RowInv
<1>1. /\ UNCHANGED <<sub, mandates, offered, log, month, saw, applied, invoices, request,
                     sweep, overlapped, reordered, failures>>
      /\ handler[e] = "none" /\ handler' = [handler EXCEPT ![e] = "recorded"]
  BY DEF Deliver, razorpayVars, history
<1>2. handler'[e] = "recorded" /\ \A f \in Event \ {e} : handler'[f] = handler[f]
  BY <1>1 DEF EventTypes
<1>3. RazorpayTypes' /\ RequestTypes' /\ OtherTypes' /\ FreshInv'
  BY <1>1 DEF RazorpayTypes, RequestTypes, OtherTypes, FreshInv, Open
<1>4. EventTypes'
  BY <1>1 DEF EventTypes
<1>5. HandlerInv'
  BY <1>1, <1>2 DEF HandlerInv
<1>6. QuietInv'
  <2> SUFFICES ASSUME Quiet' PROVE InOrder' /\ ReadIsCurrent' /\ SaysLast'
    BY DEF QuietInv
  <2>1. InOrder /\ ReadIsCurrent /\ SaysLast
    BY <1>1 DEF QuietInv, Quiet
  <2>2. InOrder' /\ ReadIsCurrent'
    BY <1>1, <1>2, <2>1 DEF InOrder, ReadIsCurrent
  <2>3. \A f \in Event : IsLastDone(f)' => IsLastDone(f)
    BY <1>1, <1>2 DEF IsLastDone
  <2>4. SaysLast'
    BY <1>1, <2>1, <2>3 DEF SaysLast
  <2> QED
    BY <2>2, <2>4
<1> QED
  BY <1>3, <1>4, <1>5, <1>6

(* An event that is read in its order is later than all that are done. It  *)
(* is not the row's if it is done at once.                                 *)
LEMMA LoadRows ==
  ASSUME BillingInv, RowInv, NEW e \in Event, LoadEvent(e)
  PROVE  RowInv'
<1> USE BillingAssumption DEF RowInv
<1> DEFINE read == [status |-> sub.status, tier |-> sub.tier, invoiced |-> Invoiced(e)]
<1>1. /\ UNCHANGED <<sub, mandates, offered, log, month, applied, invoices, request, sweep,
                     overlapped, failures>>
      /\ handler[e] = "recorded"
      /\ reordered' = (reordered \/ \E f \in 1..e - 1 : handler[f] # "done")
  BY DEF LoadEvent, razorpayVars
<1>2. /\ \A f \in Event \ {e} : handler'[f] = handler[f] /\ saw'[f] = saw[f]
      /\ handler' \in [Event -> {"none", "recorded", "loaded", "done", "lost"}]
      /\ saw' \in [Event -> Reading \cup {NoRow}]
      /\ \/ /\ IsMandateOf(e) /\ handler'[e] = "loaded" /\ saw'[e] # NoRow
            /\ saw'[e].status = sub.status
         \/ ~IsMandateOf(e) /\ handler'[e] = "done" /\ saw'[e] = NoRow
  <2>1. CASE ~IsMandateOf(e)
    BY <1>1, <2>1 DEF LoadEvent, EventTypes, HandlerInv
  <2>2. CASE IsMandateOf(e)
    <3>1. handler' = [handler EXCEPT ![e] = "loaded"] /\ saw' = [saw EXCEPT ![e] = read]
      BY <2>2 DEF LoadEvent
    <3>2. sub \in Subscription
      BY <2>2 DEF IsMandateOf, OtherTypes
    <3>3. Invoiced(e) \in BOOLEAN
      BY DEF Invoiced
    <3>4. read \in Reading /\ read.status = sub.status
      BY <3>2, <3>3 DEF Reading, Subscription
    <3> HIDE DEF read
    <3>5. read # NoRow
      BY <3>4
    <3> QED
      BY <2>2, <3>1, <3>4, <3>5 DEF EventTypes
  <2> QED
    BY <2>1, <2>2
<1>3. RazorpayTypes' /\ RequestTypes' /\ FreshInv'
  BY <1>1 DEF RazorpayTypes, RequestTypes, FreshInv, Open
<1>4. EventTypes'
  BY <1>1, <1>2 DEF EventTypes
<1>5. reordered' \in BOOLEAN
  BY <1>1
<1>6. OtherTypes'
  BY <1>1, <1>5 DEF OtherTypes
<1>7. HandlerInv'
  BY <1>1, <1>2 DEF HandlerInv, IsMandateOf
<1>8. QuietInv'
  <2> SUFFICES ASSUME Quiet' PROVE InOrder' /\ ReadIsCurrent' /\ SaysLast'
    BY DEF QuietInv
  <2>1. InOrder /\ ReadIsCurrent /\ SaysLast /\ \A f \in 1..e - 1 : handler[f] = "done"
    BY <1>1 DEF QuietInv, Quiet
  <2>2. \A f \in Event : f < e => handler[f] = "done" /\ f # e
    BY <2>1 DEF Event
  <2>3. InOrder'
    BY <1>1, <1>2, <2>1, <2>2 DEF InOrder
  <2>4. ReadIsCurrent'
    BY <1>1, <1>2, <2>1 DEF ReadIsCurrent, IsMandateOf
  <2>5. SaysLast'
    <3> SUFFICES ASSUME sub # NoRow, NEW f \in Event, IsLastDone(f)'
                 PROVE  sub.status = StatusOf(log[f].kind)
      BY <1>1 DEF SaysLast
    <3>1. f # e
      BY <1>1, <1>2 DEF IsLastDone, IsMandateOf
    <3>2. IsLastDone(f)
      BY <1>1, <1>2, <3>1 DEF IsLastDone
    <3> QED
      BY <2>1, <3>2 DEF SaysLast
  <2> QED
    BY <2>3, <2>4, <2>5
<1> QED
  BY <1>3, <1>4, <1>6, <1>7, <1>8

(* In order and alone, the event that is committed becomes the last done.  *)
LEMMA CommitRows ==
  ASSUME BillingInv, RowInv, NEW e \in Event, CommitEvent(e)
  PROVE  RowInv'
<1> USE BillingAssumption DEF RowInv
<1> DEFINE new == StatusOf(log[e].kind)
<1>1. /\ UNCHANGED <<mandates, offered, log, month, request, sweep, reordered, failures>>
      /\ handler[e] = "loaded" /\ handler' = [handler EXCEPT ![e] = "done"]
      /\ saw' = [saw EXCEPT ![e] = NoRow] /\ applied' = [applied EXCEPT ![e] = @ + 1]
      /\ sub' = IF new = saw[e].status THEN sub ELSE [sub EXCEPT !.status = new]
      /\ invoices' = invoices \cup NewInvoices(e)
      /\ overlapped' = (overlapped \/ OthersOpen(e, NoRow, FALSE))
  BY DEF CommitEvent, razorpayVars, Committed
<1>2. sub \in Subscription /\ saw[e] \in Reading
  BY <1>1 DEF HandlerInv, OtherTypes, EventTypes
<1>3. new \in SubscriptionStatus /\ new # "TRIAL"
  BY DEF StatusOf, SubscriptionStatus
<1>4. /\ sub' \in Subscription /\ sub'.mandate = sub.mandate
      /\ saw[e].status = sub.status => sub'.status = new
  BY <1>1, <1>2, <1>3 DEF Subscription
<1> HIDE DEF new
<1>5. /\ handler'[e] = "done" /\ saw'[e] = NoRow
      /\ \A f \in Event \ {e} : handler'[f] = handler[f] /\ saw'[f] = saw[f]
                                /\ applied'[f] = applied[f]
  BY <1>1 DEF EventTypes
<1>6. RazorpayTypes' /\ RequestTypes' /\ FreshInv'
  BY <1>1 DEF RazorpayTypes, RequestTypes, FreshInv, Open
<1>7. EventTypes'
  <2>1. NewInvoices(e) \subseteq [event : 1..Len(log), tier : Tier, period : 1..month]
    BY <1>1, <1>2, DoneIsOffered DEF NewInvoices, Reading
  <2>2. applied[e] = 0
    BY <1>1 DEF HandlerInv, EventTypes
  <2> QED
    BY <1>1, <2>1, <2>2 DEF EventTypes
<1>8. overlapped' \in BOOLEAN
  BY <1>1 DEF OthersOpen
<1>9. OtherTypes'
  BY <1>1, <1>4, <1>8 DEF OtherTypes
<1>10. HandlerInv'
  BY <1>1, <1>4, <1>5 DEF HandlerInv
<1>11. QuietInv'
  <2> SUFFICES ASSUME Quiet' PROVE InOrder' /\ ReadIsCurrent' /\ SaysLast'
    BY DEF QuietInv
  <2>1. InOrder /\ ReadIsCurrent /\ SaysLast /\ ~OthersOpen(e, NoRow, FALSE)
    BY <1>1 DEF QuietInv, Quiet
  <2>2. ~sweep /\ \A f \in Event \ {e} : handler[f] # "loaded"
    BY <2>1 DEF OthersOpen
  <2>3. InOrder'
    BY <1>1, <1>5, <2>1 DEF InOrder
  <2>4. ReadIsCurrent'
    BY <1>1, <1>5, <2>2 DEF ReadIsCurrent
  <2>5. sub'.status = new /\ log[e].mandate = sub'.mandate
    BY <1>1, <1>4, <2>1 DEF ReadIsCurrent
  <2>6. \A f \in Event : f > e => handler[f] # "done"
    BY <1>1, <2>1 DEF InOrder
  <2>7. SaysLast'
    <3> SUFFICES ASSUME NEW f \in Event, IsLastDone(f)' PROVE sub'.status = StatusOf(log[f].kind)
      BY <1>1 DEF SaysLast
    <3>1. f = e
      <4>1. ~ (e > f)
        BY <1>1, <1>5, <2>5 DEF IsLastDone
      <4>2. ~ (f > e)
        BY <1>5, <2>6 DEF IsLastDone
      <4> QED
        BY <4>1, <4>2 DEF Event
    <3> QED
      BY <2>5, <3>1 DEF new
  <2> QED
    BY <2>3, <2>4, <2>7
<1> QED
  BY <1>6, <1>7, <1>9, <1>10, <1>11

LEMMA FailEventRows ==
  ASSUME BillingInv, RowInv, NEW e \in Event, FailEvent(e)
  PROVE  RowInv'
<1> USE BillingAssumption DEF RowInv
<1>1. /\ UNCHANGED <<sub, mandates, offered, log, month, applied, invoices, request, sweep,
                     overlapped, reordered>>
      /\ handler[e] \in {"recorded", "loaded"} /\ handler' = [handler EXCEPT ![e] = "lost"]
      /\ saw' = [saw EXCEPT ![e] = NoRow]
      /\ failures < MaxFailures /\ failures' = failures + 1
  BY DEF FailEvent, razorpayVars, history
<1>2. /\ handler'[e] = "lost" /\ saw'[e] = NoRow
      /\ \A f \in Event \ {e} : handler'[f] = handler[f] /\ saw'[f] = saw[f]
  BY <1>1 DEF EventTypes
<1>3. RazorpayTypes' /\ RequestTypes' /\ FreshInv'
  BY <1>1 DEF RazorpayTypes, RequestTypes, FreshInv, Open
<1>4. EventTypes' /\ OtherTypes'
  BY <1>1 DEF EventTypes, OtherTypes
<1>5. HandlerInv'
  BY <1>1, <1>2 DEF HandlerInv
<1>6. ~Quiet'
  BY <1>1 DEF Quiet, OtherTypes
<1> QED
  BY <1>3, <1>4, <1>5, <1>6 DEF QuietInv

(* A row in its trial has seen no event of its mandate yet.                *)
LEMMA SweepRows ==
  ASSUME BillingInv, RowInv, SweepSelect \/ SweepCommit
  PROVE  RowInv'
<1> USE BillingAssumption DEF RowInv
<1>1. /\ UNCHANGED <<mandates, offered, log, month, handler, saw, applied, invoices, request,
                     reordered, failures>>
      /\ sweep' \in BOOLEAN
  BY DEF SweepSelect, SweepCommit, razorpayVars, eventVars, history
<1>2. RazorpayTypes' /\ EventTypes' /\ RequestTypes' /\ FreshInv'
  BY <1>1 DEF RazorpayTypes, EventTypes, RequestTypes, FreshInv, Open
<1>3. CASE SweepSelect
  <2>1. UNCHANGED <<sub, overlapped>> /\ sub # NoRow /\ sub.status = "TRIAL" /\ sweep' = TRUE
    BY <1>3 DEF SweepSelect, history
  <2>2. OtherTypes' /\ HandlerInv'
    BY <1>1, <2>1 DEF OtherTypes, HandlerInv
  <2>3. QuietInv'
    BY <1>1, <2>1 DEF QuietInv, Quiet, InOrder, ReadIsCurrent, SaysLast, IsLastDone
  <2> QED
    BY <1>2, <2>2, <2>3
<1>4. CASE SweepCommit
  <2>1. /\ sweep /\ sweep' = FALSE /\ sub' = [sub EXCEPT !.status = "PAST_DUE"]
        /\ overlapped' = (overlapped \/ OthersOpen(0, NoRow, TRUE))
    BY <1>4 DEF SweepCommit, Committed
  <2>2. sub \in Subscription
    BY <2>1 DEF HandlerInv, OtherTypes
  <2>3. sub' \in Subscription /\ sub'.mandate = sub.mandate
    BY <2>1, <2>2 DEF Subscription, SubscriptionStatus
  <2>4. overlapped' \in BOOLEAN
    BY <2>1 DEF OthersOpen
  <2>5. OtherTypes' /\ HandlerInv'
    BY <1>1, <2>1, <2>3, <2>4 DEF OtherTypes, HandlerInv
  <2>6. QuietInv'
    <3> SUFFICES ASSUME Quiet' PROVE InOrder' /\ ReadIsCurrent' /\ SaysLast'
      BY DEF QuietInv
    <3>1. InOrder /\ ReadIsCurrent /\ SaysLast /\ ~OthersOpen(0, NoRow, TRUE)
      BY <1>1, <2>1 DEF QuietInv, Quiet
    <3>2. sub.status = "TRIAL" /\ \A e \in Event : handler[e] # "loaded"
      BY <2>1, <3>1 DEF ReadIsCurrent, OthersOpen, Event
    <3>3. \A e \in Event : ~IsLastDone(e)
      BY <2>1, <2>2, <3>1, <3>2 DEF SaysLast, StatusOf
    <3>4. \A e \in Event : ~IsLastDone(e)'
      BY <1>1, <2>3, <3>3 DEF IsLastDone
    <3> QED
      BY <1>1, <2>1, <3>1, <3>2, <3>4 DEF InOrder, ReadIsCurrent, SaysLast
  <2> QED
    BY <1>2, <2>5, <2>6
<1> QED
  BY <1>3, <1>4

LEMMA OutsideRows ==
  ASSUME BillingInv, RowInv, NextMonth \/ MarkPaid
  PROVE  RowInv'
<1> USE BillingAssumption DEF RowInv
<1>1. CASE NextMonth
  <2>1. /\ UNCHANGED <<sub, mandates, offered, log, handler, saw, applied, invoices, request,
                       sweep, overlapped, reordered, failures>>
        /\ month < MaxMonths /\ month' = month + 1
    BY <1>1 DEF NextMonth, eventVars, history
  <2>2. month \in Nat /\ month' \in 1..MaxMonths /\ 1..month \subseteq 1..month'
    BY <2>1 DEF RazorpayTypes
  <2>3. \A e \in 1..Len(log) : log[e] \in [mandate : offered, kind : Kind, period : 1..month']
    BY <2>1, <2>2, LogWidens
  <2>4. RazorpayTypes'
    BY <2>1, <2>2, <2>3 DEF RazorpayTypes
  <2>5. invoices \in SUBSET [event : 1..Len(log), tier : Tier, period : 1..month']
    BY <2>2 DEF EventTypes
  <2>6. EventTypes'
    BY <2>1, <2>5 DEF EventTypes
  <2>7. RequestTypes' /\ OtherTypes' /\ HandlerInv' /\ FreshInv'
    BY <2>1 DEF RequestTypes, OtherTypes, HandlerInv, FreshInv, Open
  <2>8. QuietInv'
    BY <2>1, QuietStays DEF Quiet
  <2> QED
    BY <2>4, <2>6, <2>7, <2>8
<1>2. CASE MarkPaid
  <2>1. /\ UNCHANGED <<mandates, offered, log, month, handler, saw, applied, invoices, request,
                       sweep, reordered>>
        /\ sub # NoRow /\ sub' = [sub EXCEPT !.status = "ACTIVE"]
        /\ failures < MaxFailures /\ failures' = failures + 1
        /\ overlapped' = (overlapped \/ OthersOpen(0, NoRow, FALSE))
    BY <1>2 DEF MarkPaid, razorpayVars, eventVars, Committed
  <2>2. sub' \in Subscription
    BY <2>1 DEF OtherTypes, Subscription, SubscriptionStatus
  <2>3. overlapped' \in BOOLEAN
    BY <2>1 DEF OthersOpen
  <2>4. RazorpayTypes' /\ EventTypes' /\ RequestTypes' /\ FreshInv'
    BY <2>1 DEF RazorpayTypes, EventTypes, RequestTypes, FreshInv, Open
  <2>5. OtherTypes' /\ HandlerInv'
    BY <2>1, <2>2, <2>3 DEF OtherTypes, HandlerInv
  <2>6. failures \in Nat /\ failures' # 0
    BY <1>2 DEF MarkPaid, OtherTypes
  <2>7. ~Quiet'
    BY <2>6 DEF Quiet
  <2> QED
    BY <2>4, <2>5, <2>7 DEF QuietInv
<1> QED
  BY <1>1, <1>2

LEMMA NextRows == BillingInv /\ RowInv /\ [Next]_vars => RowInv'
<1> SUFFICES ASSUME BillingInv, RowInv, [Next]_vars PROVE RowInv'
  OBVIOUS
<1>1. ASSUME NEW r \in Request,
             (\E t \in Tier : Subscribe(r, t)) \/ CommitSubscribe(r) \/ FailSubscribe(r)
      PROVE  RowInv'
  BY <1>1, SubscribeRows, CommitSubscribeRows, FailSubscribeRows
<1>2. ASSUME NEW m \in offered, NEW k \in Kind, Report(m, k) PROVE RowInv'
  BY <1>2, ReportRows
<1>3. ASSUME NEW e \in Event, Handle(e) \/ FailEvent(e) PROVE RowInv'
  BY <1>3, DeliverRows, LoadRows, CommitRows, FailEventRows DEF Handle
<1>4. CASE SweepSelect \/ SweepCommit
  BY <1>4, SweepRows
<1>5. CASE NextMonth \/ MarkPaid
  BY <1>5, OutsideRows
<1>6. CASE UNCHANGED vars
  <2>1. /\ RazorpayTypes' /\ EventTypes' /\ RequestTypes' /\ OtherTypes' /\ HandlerInv' /\ FreshInv'
    BY <1>6 DEF vars, RowInv, RazorpayTypes, EventTypes, RequestTypes, OtherTypes, HandlerInv,
                FreshInv, Open
  <2>2. QuietInv'
    BY <1>6, QuietStays DEF vars, Quiet
  <2> QED
    BY <2>1, <2>2 DEF RowInv
<1> QED
  BY <1>1, <1>2, <1>3, <1>4, <1>5, <1>6 DEF Next

LEMMA RowsHold == Spec => [](BillingInv /\ RowInv)
<1>1. Init => BillingInv /\ RowInv
  BY InitBilling, InitRows
<1>2. BillingInv /\ RowInv /\ [Next]_vars => (BillingInv /\ RowInv)'
  BY NextBilling, NextRows
<1> QED
  BY <1>1, <1>2, PTL DEF Spec

(* The subscription, Razorpay's side, the webhook's sessions, the invoices *)
(* and the calls of subscribe stay well-formed.                            *)
THEOREM BillingTypeCorrect == Spec => []TypeOK
<1>1. BillingInv /\ RowInv => TypeOK
  <2> SUFFICES ASSUME BillingInv, RowInv PROVE TypeOK
    OBVIOUS
  <2>1. \A e \in Event : handler[e] # "none" => e <= Len(log)
    BY DEF BillingInv, SentInv
  <2>2. \A e \in Event : handler[e] = "loaded" <=> saw[e] # NoRow
    BY DEF RowInv, HandlerInv
  <2> QED
    BY <2>1, <2>2 DEF TypeOK, RowInv, RazorpayTypes, EventTypes, RequestTypes, OtherTypes
<1> QED
  BY RowsHold, <1>1, PTL

(* Some numbers of 1..n: one of them is the last.                          *)
LEMMA LastOf ==
  ASSUME NEW n \in Nat, NEW S \in SUBSET (1..n), S # {}
  PROVE  \E e \in S : \A f \in S : f <= e
<1> DEFINE T == {k \in Nat : n - k \in S}
<1>1. PICK s \in S : s \in 1..n
  OBVIOUS
<1>2. n - s \in Nat /\ n - (n - s) = s
  BY <1>1
<1>3. T \subseteq Nat /\ T # {}
  BY <1>1, <1>2
<1>4. PICK x \in T : \A y \in T : ~ (<<y, x>> \in OpToRel(<, Nat))
  BY <1>3, WFMin, NatLessThanWellFounded
<1>5. \A y \in T : ~ (y < x)
  BY <1>3, <1>4 DEF OpToRel
<1>6. ASSUME NEW f \in S PROVE f <= n - x
  <2>1. f \in 1..n /\ n - f \in Nat /\ n - (n - f) = f
    OBVIOUS
  <2>2. n - f \in T
    BY <2>1
  <2>3. ~ (n - f < x)
    BY <1>5, <2>2
  <2>4. x \in Nat
    BY <1>4
  <2> HIDE DEF T
  <2> QED
    BY <2>1, <2>3, <2>4
<1> QED
  BY <1>4, <1>6

(* When every event was handled, in order and one at a time, the row says  *)
(* what the last event of its mandate says, whatever mandates came before. *)
THEOREM StatusFollowsLastEvent == Spec => []StatusFollowsMandate
<1>1. BillingInv /\ RowInv => StatusFollowsMandate
  <2> SUFFICES ASSUME BillingInv, RowInv PROVE StatusFollowsMandate
    OBVIOUS
  <2> DEFINE mine == {e \in 1..Len(log) : log[e].mandate = sub.mandate}
             last == CHOOSE e \in mine : \A f \in mine : f <= e
  <2> SUFFICES ASSUME sub # NoRow, mine # {}, Quiet,
                      \A e \in 1..Len(log) : handler[e] = "done"
               PROVE  sub.status = StatusOf(log[last].kind)
    BY DEF StatusFollowsMandate, Quiet
  <2>1. Len(log) \in Nat /\ 1..Len(log) \subseteq Event
    <3>1. Len(log) \in Nat /\ Len(log) <= MaxEvents
      BY DEF BillingInv, TypeInv
    <3> QED
      BY <3>1, BillingAssumption DEF Event
  <2>2. \E e \in mine : \A f \in mine : f <= e
    BY <2>1, LastOf
  <2>3. last \in mine /\ \A f \in mine : f <= last
    BY <2>2
  <2> HIDE DEF last
  <2>4. \A f \in Event : handler[f] = "done" => f \in 1..Len(log)
    BY DoneIsOffered
  <2>5. IsLastDone(last)
    <3>1. handler[last] = "done" /\ log[last].mandate = sub.mandate
      BY <2>3
    <3>2. ASSUME NEW f \in Event, f > last, handler[f] = "done"
          PROVE  log[f].mandate # sub.mandate
      <4>1. f \in 1..Len(log) /\ ~ (f <= last)
        BY <2>1, <2>3, <2>4, <3>2
      <4> QED
        BY <2>3, <4>1
    <3> QED
      BY <3>1, <3>2 DEF IsLastDone
  <2>6. last \in Event
    BY <2>1, <2>3
  <2> QED
    BY <2>5, <2>6 DEF RowInv, QuietInv, SaysLast
<1> QED
  BY RowsHold, <1>1, PTL
=============================================================================
