------------------------------- MODULE Intake -------------------------------
(***************************************************************************)
(* The lead path: webhook/app.py records an inbound WhatsApp message and   *)
(* enqueues it, worker/tasks/closer.py runs it on the closer queue, and    *)
(* Orchestrator.handle_inbound of saathi/orchestrator.py finds the lead,   *)
(* asks the Closer for the next turn and commits its answer. Meanwhile the *)
(* owner writes, books and closes leads in the app (bff/routers/leads.py,  *)
(* bookings.py) and cron marks silent leads.                               *)
(*                                                                         *)
(* The messages are those of one customer of one account: messages of      *)
(* different phones share nothing. Four tasks run at a time, so messages   *)
(* sent in a row are handled side by side. A task reads the lead and the   *)
(* chat, then inserts the message and updates the chat, which locks the    *)
(* chat's row while the model thinks, and commits at the end. The ORM      *)
(* writes an attribute only if it differs from what the task read; as the  *)
(* statuses and states are abstracted to two each, a task says which of    *)
(* them it writes. Texts, names and scores are left out; sending the reply *)
(* is the module Outbox.                                                   *)
(***************************************************************************)
EXTENDS Naturals

CONSTANTS
  Msg,             (* wamids of the customer's messages                     *)
  Known,           (* a lead that no message creates: an Instant Form's,    *)
                   (* the owner's entry, or one that has a chat already     *)
  None,
  MaxRetries,      (* max_retries of process_inbound                        *)
  MaxFailures,     (* bound: webhook threads and tasks that raise or die    *)
  MaxOutside       (* bound: what the owner and cron do to leads and chats  *)

ASSUME IntakeAssumption ==
  /\ Known \notin Msg /\ None \notin Msg \cup {Known}
  /\ {MaxRetries, MaxFailures, MaxOutside} \subseteq Nat

(* A lead and a chat are named after the message that created them.        *)
Lead == Msg \cup {Known}

VARIABLES
  event,       (* the inbound_events row of a message                       *)
  accepting,   (* recorded messages whose webhook thread has to enqueue     *)
  task,        (* where the process_inbound task of a message stands        *)
  tries,       (* its retries                                               *)
  applied,     (* how many IN messages rows carry the wamid                 *)
  replies,     (* how many OUT messages answer it                           *)
  flagged,     (* messages whose chat the owner was asked to take over      *)
  leadStatus,  (* leads.status; "ABSENT" = no such lead                     *)
  elders,      (* the leads whose transaction began before it: created_at   *)
  chatLead,    (* conversations.lead_id; None = no such chat                *)
  chatState,   (* conversations.state                                       *)
  lock,        (* the task that holds the chat's row                        *)
  autoBooked,  (* open bookings the Closer made for a lead                  *)
  ownBooked,   (* open bookings the owner made                              *)
  myLead, myChat, sawState,  (* what a task's session has loaded            *)
  proposes,    (* it is going to insert a booking                           *)
  failures, outside

hookVars == <<event, accepting>>
leadVars == <<leadStatus, elders>>
chatVars == <<chatLead, chatState, lock>>
answerVars == <<applied, replies, flagged>>
bookVars == <<autoBooked, ownBooked>>
taskVars == <<task, tries, myLead, myChat, sawState, proposes>>
budgetVars == <<failures, outside>>
vars == <<event, accepting, task, tries, applied, replies, flagged, leadStatus, elders, chatLead,
          chatState, lock, autoBooked, ownBooked, myLead, myChat, sawState,
          proposes, failures, outside>>

(* OVER: a status of _TERMINAL; OPEN: any other one.                       *)
Status == {"OPEN", "OVER"}
(* HANDOFF, or one of the states in which Saathi leads the conversation.   *)
State == {"SAATHI", "HANDOFF"}
Stage == {"none", "queued", "read", "thinking", "answered", "applied", "marked", "dropped",
          "lost"}
InTransaction == {"read", "thinking", "answered"}
Running == InTransaction \cup {"applied", "marked"}

TypeOK ==
  /\ event \in [Msg -> {"NONE", "RECORDED", "PROCESSED"}]
  /\ accepting \in SUBSET Msg
  /\ task \in [Msg -> Stage] /\ tries \in [Msg -> 0..MaxRetries]
  /\ applied \in [Msg -> Nat] /\ replies \in [Msg -> Nat] /\ flagged \in SUBSET Msg
  /\ leadStatus \in [Lead -> Status \cup {"ABSENT"}]
  /\ elders \in [Lead -> SUBSET Lead]
  /\ chatLead \in [Lead -> Lead \cup {None}] /\ chatState \in [Lead -> State]
  /\ lock \in [Lead -> Msg \cup {None}]
  /\ autoBooked \in [Lead -> Nat] /\ ownBooked \in [Lead -> Nat]
  /\ myLead \in [Msg -> Lead \cup {None}] /\ myChat \in [Msg -> Lead \cup {None}]
  /\ sawState \in [Msg -> State]
  /\ proposes \in [Msg -> BOOLEAN]
  /\ failures \in 0..MaxFailures /\ outside \in 0..MaxOutside

(* The customer is new, or known with a chat that is under way, and maybe  *)
(* a booking that the owner made.                                          *)
Init ==
  /\ event = [m \in Msg |-> "NONE"] /\ accepting = {}
  /\ task = [m \in Msg |-> "none"] /\ tries = [m \in Msg |-> 0]
  /\ applied = [m \in Msg |-> 0] /\ replies = [m \in Msg |-> 0] /\ flagged = {}
  /\ chatState = [c \in Lead |-> "SAATHI"] /\ elders = [l \in Lead |-> {}]
  /\ \/ /\ leadStatus = [l \in Lead |-> "ABSENT"]
        /\ chatLead = [c \in Lead |-> None]
     \/ /\ leadStatus = [l \in Lead |-> IF l = Known THEN "OPEN" ELSE "ABSENT"]
        /\ chatLead = [c \in Lead |-> IF c = Known THEN Known ELSE None]
  /\ lock = [c \in Lead |-> None]
  /\ autoBooked = [l \in Lead |-> 0]
  /\ \E n \in 0..1 : ownBooked = [l \in Lead |-> IF chatLead[l] # None THEN n ELSE 0]
  /\ myLead = [m \in Msg |-> None] /\ myChat = [m \in Msg |-> None]
  /\ sawState = [m \in Msg |-> "SAATHI"]
  /\ proposes = [m \in Msg |-> FALSE]
  /\ failures = 0 /\ outside = 0

-----------------------------------------------------------------------------
(* The webhook. Meta delivers a message once or many times.                *)

(* record_inbound_event: of several deliveries one inserts the row; ON     *)
(* CONFLICT DO NOTHING tells the others that it is there.                  *)
Unseen(m) == event[m] = "NONE"

(* The delivery that inserted the row commits it; the others end here.     *)
Record(m) ==
  /\ Unseen(m)
  /\ event' = [event EXCEPT ![m] = "RECORDED"]
  /\ accepting' = accepting \cup {m}
  /\ UNCHANGED <<taskVars, answerVars, leadVars, chatVars, bookVars, budgetVars>>

(* enqueue_inbound.                                                        *)
Enqueue(m) ==
  /\ m \in accepting
  /\ accepting' = accepting \ {m}
  /\ task' = [task EXCEPT ![m] = "queued"]
  /\ UNCHANGED <<event, tries, myLead, myChat, sawState, proposes, answerVars, leadVars,
                 chatVars, bookVars, budgetVars>>

(* The broker refuses the task, or the service dies before it enqueues.    *)
HookFails(m) ==
  /\ m \in accepting /\ failures < MaxFailures
  /\ accepting' = accepting \ {m}
  /\ failures' = failures + 1
  /\ UNCHANGED <<event, taskVars, answerVars, leadVars, chatVars, bookVars, outside>>

-----------------------------------------------------------------------------
(* The task.                                                               *)

Goto(m, from, to) == task[m] = from /\ task' = [task EXCEPT ![m] = to]

Present == {l \in Lead : leadStatus[l] # "ABSENT"}

(* created_at is the start of the transaction that inserts the lead.       *)
Begin(l) ==
  elders' = [elders EXCEPT ![l] = Present \cup {m \in Msg : myLead[m] = m}]

(* The lead of the customer with the latest created_at, if there is one.   *)
Latest == {l \in Present : Present \ {l} \subseteq elders[l]}

(* _find_or_create_lead: the latest one, unless it is over.                *)
Reusable == {l \in Latest : leadStatus[l] # "OVER"}

ChatsOf(l) == {c \in Lead : chatLead[c] = l}

(* Mutant: the row in inbound_events is the key.                           *)
AlreadyApplied_ByEvent(m) == event[m] = "PROCESSED"

(* A message already in the table is not applied again. Nothing else stops *)
(* a delivery that comes after an earlier one went through:                *)
(* load_inbound_event does not load the processed_at run_inbound asks for. *)
AlreadyApplied(m) == applied[m] > 0

SkipApplied(m) ==
  /\ Goto(m, "queued", "applied")
  /\ AlreadyApplied(m)
  /\ UNCHANGED <<hookVars, tries, myLead, myChat, sawState, proposes, answerVars,
                 leadVars, chatVars, bookVars, budgetVars>>

(* The transaction begins, and loads the lead and the chat, or names after *)
(* the message the ones it is going to create.                             *)
Read(m) ==
  /\ Goto(m, "queued", "read")
  /\ ~AlreadyApplied(m)
  /\ \E l \in IF Reusable = {} THEN {m} ELSE Reusable :
       \E c \in IF ChatsOf(l) = {} THEN {m} ELSE ChatsOf(l) :
         /\ IF l = m THEN Begin(m) ELSE UNCHANGED elders
         /\ myLead' = [myLead EXCEPT ![m] = l]
         /\ myChat' = [myChat EXCEPT ![m] = c]
         /\ sawState' = [sawState EXCEPT ![m] = chatState[c]]
  /\ UNCHANGED <<hookVars, tries, proposes, answerVars, leadStatus, chatVars, bookVars,
                 budgetVars>>

(* Mutant: nothing is locked while the model thinks.                       *)
Flush_NoLock(m) ==
  /\ Goto(m, "read", "thinking")
  /\ UNCHANGED <<hookVars, tries, myLead, myChat, sawState, proposes, answerVars, leadVars,
                 chatVars, bookVars, budgetVars>>

(* The flush inserts the message and updates last_inbound_at, which waits  *)
(* for, then holds, the lock of the chat's row.                            *)
Flush(m) ==
  /\ Goto(m, "read", "thinking")
  /\ lock[myChat[m]] = None
  /\ lock' = [lock EXCEPT ![myChat[m]] = m]
  /\ UNCHANGED <<hookVars, tries, myLead, myChat, sawState, proposes, answerVars, leadVars,
                 chatLead, chatState, bookVars, budgetVars>>

(* The model answers. A reply that moves the chat to BOOK proposes a       *)
(* booking, unless the lead is seen to have an open one.                   *)
Answer(m) ==
  /\ Goto(m, "thinking", "answered")
  /\ \E book \in BOOLEAN :
       proposes' = [proposes EXCEPT ![m] =
         book /\ autoBooked[myLead[m]] + ownBooked[myLead[m]] = 0]
  /\ UNCHANGED <<hookVars, tries, myLead, myChat, sawState, answerVars, leadVars, chatVars,
                 bookVars, budgetVars>>

(* What a task may write to the status: a new lead gets one.               *)
Statuses(m) == Status \cup (IF myLead[m] = m THEN {} ELSE {"KEEP"})

(* _degrade_to_handoff: the model failed.                                  *)
Degraded(m) ==
  {[state |-> IF sawState[m] = "HANDOFF" THEN "KEEP" ELSE "HANDOFF",
    status |-> st, sent |-> TRUE, flag |-> TRUE] : st \in Statuses(m) \ {"OVER"}}

(* Mutant: the owner is not told.                                          *)
Blocked_Silent(m) == {[p EXCEPT !.sent = FALSE, !.flag = FALSE] : p \in Degraded(m)}

(* The scope guard refused the reply.                                      *)
Blocked(m) == {[p EXCEPT !.sent = FALSE] : p \in Degraded(m)}

(* The reply goes out, and the chat goes to any state. A NEW lead becomes  *)
(* ENGAGED, a scored one changes its status, to one of _TERMINAL if it is  *)
(* COLD or SPAM.                                                           *)
Replied(m) ==
  [state : {"KEEP", "SAATHI"} \cup (State \ {sawState[m]}), status : Statuses(m),
   sent : {TRUE}, flag : {FALSE}]

Booked(m) ==
  {p \in Replied(m) : p.state = "SAATHI" \/ (p.state = "KEEP" /\ sawState[m] = "SAATHI")}

Written(current, new) == IF new = "KEEP" THEN current ELSE new

Release(m) == [c \in Lead |-> IF lock[c] = m THEN None ELSE lock[c]]

ForgetSession(m) ==
  /\ myLead' = [myLead EXCEPT ![m] = None]
  /\ myChat' = [myChat EXCEPT ![m] = None]
  /\ sawState' = [sawState EXCEPT ![m] = "SAATHI"]
  /\ proposes' = [proposes EXCEPT ![m] = FALSE]

(* The session ends without a commit, unless it has committed before.      *)
Rollback(m) ==
  /\ lock' = Release(m)
  /\ elders' = IF myLead[m] = m THEN [l \in Lead |-> IF l = m THEN {} ELSE elders[l] \ {m}]
               ELSE elders
  /\ ForgetSession(m)

(* The session commits.                                                    *)
Commit(m) ==
  LET l == myLead[m]
      c == myChat[m]
  IN
  /\ Goto(m, "answered", "applied")
  /\ \E p \in IF proposes[m] THEN Booked(m) ELSE Degraded(m) \cup Blocked(m) \cup Replied(m) :
       /\ replies' = [replies EXCEPT ![m] = @ + (IF p.sent THEN 1 ELSE 0)]
       /\ flagged' = IF p.flag THEN flagged \cup {m} ELSE flagged
       /\ leadStatus' = [leadStatus EXCEPT ![l] = Written(@, p.status)]
       /\ chatState' = [chatState EXCEPT ![c] = Written(@, p.state)]
  /\ applied' = [applied EXCEPT ![m] = @ + 1]
  /\ chatLead' = [chatLead EXCEPT ![c] = l]
  /\ autoBooked' = [autoBooked EXCEPT ![l] = @ + (IF proposes[m] THEN 1 ELSE 0)]
  /\ lock' = Release(m)
  /\ ForgetSession(m)
  /\ UNCHANGED <<hookVars, tries, elders, ownBooked, budgetVars>>

(* mark_inbound_processed, in a transaction of its own.                    *)
MarkProcessed(m) ==
  /\ Goto(m, "applied", "marked")
  /\ event' = [event EXCEPT ![m] = "PROCESSED"]
  /\ UNCHANGED <<accepting, tries, myLead, myChat, sawState, proposes, answerVars, leadVars,
                 chatVars, bookVars, budgetVars>>

(* The outbox is drained and the task acknowledged.                        *)
Acknowledge(m) ==
  /\ Goto(m, "marked", "none")
  /\ tries' = [tries EXCEPT ![m] = 0]
  /\ UNCHANGED <<hookVars, myLead, myChat, sawState, proposes, answerVars, leadVars,
                 chatVars, bookVars, budgetVars>>

(* Mutant: retried without a limit.                                        *)
TaskFails_Forever(m) ==
  /\ task[m] \in Running /\ failures < MaxFailures
  /\ failures' = failures + 1
  /\ task' = [task EXCEPT ![m] = "queued"]
  /\ tries' = [tries EXCEPT ![m] = @ + 1]
  /\ Rollback(m)
  /\ UNCHANGED <<hookVars, answerVars, leadStatus, chatLead, chatState, bookVars, outside>>

(* Anything in run_inbound raises: rolled back, and retried a few times.   *)
TaskFails(m) ==
  /\ task[m] \in Running /\ failures < MaxFailures
  /\ failures' = failures + 1
  /\ \/ /\ tries[m] < MaxRetries
        /\ task' = [task EXCEPT ![m] = "queued"]
        /\ tries' = [tries EXCEPT ![m] = @ + 1]
     \/ /\ tries[m] = MaxRetries
        /\ task' = [task EXCEPT ![m] = "dropped"]
        /\ tries' = [tries EXCEPT ![m] = 0]
  /\ Rollback(m)
  /\ UNCHANGED <<hookVars, answerVars, leadStatus, chatLead, chatState, bookVars, outside>>

(* Its process dies under it.                                              *)
Dies(m) ==
  /\ task[m] \in Running /\ failures < MaxFailures
  /\ failures' = failures + 1
  /\ Rollback(m)
  /\ UNCHANGED <<hookVars, answerVars, leadStatus, chatLead, chatState, bookVars, outside>>

(* Mutant: the task was acknowledged when it started.                      *)
WorkerDies_AckedEarly(m) ==
  Dies(m) /\ task' = [task EXCEPT ![m] = "none"] /\ tries' = [tries EXCEPT ![m] = 0]

(* With the whole worker: the task was not acknowledged, so it is delivered*)
(* again (task_acks_late), after the visibility timeout.                   *)
WorkerDies(m) == Dies(m) /\ task' = [task EXCEPT ![m] = "queued"] /\ UNCHANGED tries

(* The child alone is killed, out of memory or at the hard time limit: the *)
(* worker acknowledges the task all the same, as nothing sets              *)
(* task_reject_on_worker_lost, and nobody runs it again.                   *)
ChildDies(m) ==
  Dies(m) /\ task' = [task EXCEPT ![m] = "lost"] /\ tries' = [tries EXCEPT ![m] = 0]

-----------------------------------------------------------------------------
(* Everybody else.                                                         *)

Outside ==
  /\ outside < MaxOutside
  /\ outside' = outside + 1
  /\ UNCHANGED <<hookVars, taskVars, answerVars, failures>>

(* capture_leadgen: an Instant Form's lead, without a chat.                *)
CaptureForm ==
  /\ Outside
  /\ leadStatus[Known] = "ABSENT"
  /\ leadStatus' = [leadStatus EXCEPT ![Known] = "OPEN"]
  /\ Begin(Known)
  /\ UNCHANGED <<chatVars, bookVars>>

(* create_lead: the owner enters a customer who has no lead yet, with any  *)
(* status.                                                                 *)
CreateLead ==
  /\ Outside
  /\ Latest = {}
  /\ \E st \in Status : leadStatus' = [leadStatus EXCEPT ![Known] = st]
  /\ Begin(Known)
  /\ UNCHANGED <<chatVars, bookVars>>

(* send_owner_message, within the service window. In a chat the owner has  *)
(* taken over already it writes nothing that is modelled.                  *)
TakeOver(c) ==
  /\ Outside
  /\ chatLead[c] # None /\ lock[c] = None /\ chatState[c] # "HANDOFF"
  /\ chatState' = [chatState EXCEPT ![c] = "HANDOFF"]
  /\ UNCHANGED <<leadVars, chatLead, lock, bookVars>>

(* patch_lead: the owner changes the status, to anything.                  *)
PatchLead(l) ==
  /\ Outside
  /\ leadStatus[l] # "ABSENT"
  /\ \E st \in Status \ {leadStatus[l]} : leadStatus' = [leadStatus EXCEPT ![l] = st]
  /\ UNCHANGED <<elders, chatVars, bookVars>>

(* book_lead: the owner books, reusing an open booking.                    *)
BookLead(l) ==
  /\ Outside
  /\ leadStatus[l] # "ABSENT"
  /\ leadStatus' = [leadStatus EXCEPT ![l] = "OPEN"]
  /\ ownBooked' = [ownBooked EXCEPT ![l] = IF autoBooked[l] + @ = 0 THEN 1 ELSE @]
  /\ UNCHANGED <<elders, chatVars, autoBooked>>

(* update_booking: the owner cancels an open booking, the Closer's or his  *)
(* own. That he opens a cancelled one again is left out.                   *)
CancelBooking(l) ==
  /\ Outside
  /\ \E own \in 0..1 :
       /\ own <= ownBooked[l] /\ 1 - own <= autoBooked[l]
       /\ ownBooked' = [ownBooked EXCEPT ![l] = @ - own]
       /\ autoBooked' = [autoBooked EXCEPT ![l] = @ - (1 - own)]
  /\ UNCHANGED <<leadVars, chatVars>>

(* mark_no_response: an ENGAGED lead whose service window has closed.      *)
MarkNoResponse(l) ==
  /\ Outside
  /\ leadStatus[l] = "OPEN" /\ ChatsOf(l) # {}
  /\ leadStatus' = [leadStatus EXCEPT ![l] = "OVER"]
  /\ UNCHANGED <<elders, chatVars, bookVars>>

-----------------------------------------------------------------------------
TaskStep(m) ==
  \/ SkipApplied(m) \/ Read(m) \/ Flush(m) \/ Answer(m) \/ Commit(m)
  \/ MarkProcessed(m) \/ Acknowledge(m)

Next ==
  \/ \E m \in Msg :
       \/ Record(m) \/ Enqueue(m) \/ HookFails(m)
       \/ TaskStep(m) \/ TaskFails(m) \/ WorkerDies(m) \/ ChildDies(m)
  \/ \E l \in Lead :
       \/ TakeOver(l) \/ PatchLead(l) \/ BookLead(l) \/ MarkNoResponse(l)
       \/ CancelBooking(l)
  \/ CaptureForm \/ CreateLead

Spec == Init /\ [][Next]_vars

(* A webhook thread that does not fail goes on, and so does a worker; the  *)
(* broker delivers what it holds.                                          *)
FairSpec == Spec /\ \A m \in Msg : WF_vars(Enqueue(m) \/ TaskStep(m))

-----------------------------------------------------------------------------
(* Retries and redeliveries apply a message once and answer it at most     *)
(* once: the message row, committed with everything else, is the key.      *)
AppliedOnce == \A m \in Msg : replies[m] <= applied[m] /\ applied[m] <= 1

(* An event is marked processed only if its message was applied and the    *)
(* customer got an answer or the owner a notice (orchestrator.py:152,      *)
(* "never drop a paid lead").                                              *)
ProcessedIsAnswered ==
  \A m \in Msg : event[m] = "PROCESSED" => applied[m] > 0 /\ (replies[m] > 0 \/ m \in flagged)

(* However many messages of a chat are handled side by side, the Closer    *)
(* proposes one booking per chat of a lead: the select of _ensure_booking  *)
(* is safe only because the flush before it holds the chat's row.          *)
ClosersBookOnce ==
  \A l \in Lead : autoBooked[l] > 1 => \E c, d \in ChatsOf(l) : c # d

(* A message that is enqueued is processed in the end or dropped after its *)
(* last retry, however many tasks raise and workers die: what was not      *)
(* acknowledged comes back (celery_app.py:39). It is lost only if the very *)
(* child that ran it was killed under a worker that lived on.              *)
QueuedIsSettled ==
  \A m \in Msg :
    task[m] = "queued" ~> event[m] = "PROCESSED" \/ task[m] \in {"dropped", "lost"}

(* What webhook/app.py:107 says: what was accepted was durably recorded.   *)
(* So every message that is recorded is processed, as long as the tasks    *)
(* themselves succeed.                                                     *)
AcceptedIsProcessed == \A m \in Msg : event[m] = "RECORDED" ~> event[m] = "PROCESSED"
=============================================================================
