---------------------------- MODULE IntakeProofs ----------------------------
(***************************************************************************)
(* Proofs about the two ways a lead comes in. About Intake, for every set  *)
(* of messages and every value of the bounds: retries, redeliveries,       *)
(* crashes and everything the owner and cron do leave a message applied at *)
(* most once, and never processed without an answer or a notice; the type  *)
(* invariant; and the Closer makes one booking per chat however many       *)
(* messages are handled side by side. About FormLeads, for every set of    *)
(* forms and every number of failures: the type invariant, and that a form *)
(* becomes one lead, one notification and one text, whoever captures it.   *)
(***************************************************************************)
EXTENDS Intake, FormLeads, TLAPS

(* The part of the type invariant that the proofs use.                     *)
AnswerTypes ==
  /\ event \in [Msg -> {"NONE", "RECORDED", "PROCESSED"}]
  /\ task \in [Msg -> Stage]
  /\ applied \in [Msg -> Nat] /\ replies \in [Msg -> Nat]
  /\ flagged \in SUBSET Msg

(* A task has applied its message exactly when it is past its commit: the  *)
(* check it made before still holds when it commits.                       *)
StageApplies ==
  \A m \in Msg :
    /\ task[m] \in InTransaction => applied[m] = 0
    /\ task[m] \in {"applied", "marked"} => applied[m] = 1

(* Whatever is applied is answered, or flagged, by the same commit.        *)
AppliedIsAnswered ==
  \A m \in Msg : applied[m] > 0 => replies[m] > 0 \/ m \in flagged

MarkedIsApplied == \A m \in Msg : event[m] = "PROCESSED" => applied[m] > 0

AnswerInv ==
  /\ AnswerTypes /\ StageApplies /\ AppliedOnce /\ AppliedIsAnswered /\ MarkedIsApplied

answerStateVars == <<event, task, applied, replies, flagged>>

LEMMA InitAnswer == Init => AnswerInv
  BY DEF Init, AnswerInv, AnswerTypes, StageApplies, AppliedOnce, AppliedIsAnswered,
         MarkedIsApplied, Stage, InTransaction

(* A step that touches none of the five variables.                         *)
LEMMA SameAnswer == AnswerInv /\ UNCHANGED answerStateVars => AnswerInv'
  BY DEF answerStateVars, AnswerInv, AnswerTypes, StageApplies, AppliedOnce, AppliedIsAnswered,
         MarkedIsApplied

(* A step that moves one task, to a stage that its message's state allows. *)
LEMMA MovedAnswer ==
  ASSUME AnswerInv, NEW m \in Msg, NEW to \in Stage,
         task' = [task EXCEPT ![m] = to],
         to \in InTransaction => applied[m] = 0,
         to \in {"applied", "marked"} => applied[m] = 1,
         UNCHANGED <<event, applied, replies, flagged>>
  PROVE  AnswerInv'
  <1> USE DEF AnswerInv
  <1>1. AnswerTypes'  BY DEF AnswerTypes
  <1>2. StageApplies'  BY DEF StageApplies, AnswerTypes
  <1>3. AppliedOnce'  BY DEF AppliedOnce
  <1>4. AppliedIsAnswered'  BY DEF AppliedIsAnswered
  <1>5. MarkedIsApplied'  BY DEF MarkedIsApplied
  <1> QED  BY <1>1, <1>2, <1>3, <1>4, <1>5

LEMMA RecordAnswer ==
  ASSUME AnswerInv, NEW m \in Msg, Record(m)
  PROVE  AnswerInv'
  <1> USE DEF AnswerInv, Record, Unseen, taskVars, answerVars
  <1>1. AnswerTypes'  BY DEF AnswerTypes
  <1>2. StageApplies'  BY DEF StageApplies
  <1>3. AppliedOnce'  BY DEF AppliedOnce
  <1>4. AppliedIsAnswered'  BY DEF AppliedIsAnswered
  <1>5. MarkedIsApplied'  BY DEF MarkedIsApplied, AnswerTypes
  <1> QED  BY <1>1, <1>2, <1>3, <1>4, <1>5

(* Each way the transaction can end answers the customer or tells the      *)
(* owner.                                                                  *)
LEMMA AnswersSomebody ==
  ASSUME NEW m \in Msg, NEW p \in Degraded(m) \cup Blocked(m) \cup Replied(m)
  PROVE  p.sent \in BOOLEAN /\ p.flag \in BOOLEAN /\ (p.sent \/ p.flag)
  <1>1. \A q \in Degraded(m) : q.sent = TRUE /\ q.flag = TRUE /\ "sent" \in DOMAIN q
    BY DEF Degraded
  <1>2. CASE p \in Degraded(m)  BY <1>1, <1>2
  <1>3. CASE p \in Blocked(m)
    <2>1. PICK q \in Degraded(m) : p = [q EXCEPT !.sent = FALSE]  BY <1>3 DEF Blocked
    <2>2. q.flag = TRUE  BY <1>1
    <2>3. PICK st \in Statuses(m) :
            q = [state |-> IF sawState[m] = "HANDOFF" THEN "KEEP" ELSE "HANDOFF",
                 status |-> st, sent |-> TRUE, flag |-> TRUE]
      BY DEF Degraded
    <2> QED  BY <2>1, <2>3
  <1>4. CASE p \in Replied(m)  BY <1>4 DEF Replied
  <1> QED  BY <1>2, <1>3, <1>4

(* The transaction inserts the message, and its reply or the notice.       *)
LEMMA CommitAnswer ==
  ASSUME AnswerInv, NEW m \in Msg, Commit(m)
  PROVE  AnswerInv'
  <1>1. PICK p \in Degraded(m) \cup Blocked(m) \cup Replied(m) :
          /\ Goto(m, "answered", "applied")
          /\ applied' = [applied EXCEPT ![m] = @ + 1]
          /\ replies' = [replies EXCEPT ![m] = @ + (IF p.sent THEN 1 ELSE 0)]
          /\ flagged' = IF p.flag THEN flagged \cup {m} ELSE flagged
    BY Zenon DEF Commit, Booked
  <1>2. event' = event  BY DEF Commit, hookVars
  <1>3. p.sent \in BOOLEAN /\ p.flag \in BOOLEAN /\ (p.sent \/ p.flag)  BY AnswersSomebody
  <1>5. applied[m] = 0 /\ replies[m] = 0
    BY <1>1 DEF Goto, AnswerInv, StageApplies, InTransaction, AppliedOnce, AnswerTypes
  <1> USE <1>1, <1>2, <1>3, <1>5 DEF AnswerInv, Goto
  <1>6. AnswerTypes'  BY DEF AnswerTypes, Stage
  <1>7. StageApplies'  BY DEF StageApplies, AnswerTypes, InTransaction
  <1>8. AppliedOnce'  BY DEF AppliedOnce, AnswerTypes
  <1>9. AppliedIsAnswered'  BY DEF AppliedIsAnswered, AnswerTypes
  <1>10. MarkedIsApplied'  BY DEF MarkedIsApplied, AnswerTypes
  <1> QED  BY <1>6, <1>7, <1>8, <1>9, <1>10

LEMMA MarkProcessedAnswer ==
  ASSUME AnswerInv, NEW m \in Msg, MarkProcessed(m)
  PROVE  AnswerInv'
  <1> USE DEF AnswerInv, MarkProcessed, Goto, answerVars
  <1>1. AnswerTypes'  BY DEF AnswerTypes, Stage
  <1>2. StageApplies'  BY DEF StageApplies, AnswerTypes, InTransaction
  <1>3. AppliedOnce'  BY DEF AppliedOnce
  <1>4. AppliedIsAnswered'  BY DEF AppliedIsAnswered
  <1>5. MarkedIsApplied'  BY DEF MarkedIsApplied, AnswerTypes, StageApplies
  <1> QED  BY <1>1, <1>2, <1>3, <1>4, <1>5

(* The owner and cron never touch an event, a task or an answer.           *)
LEMMA OutsideAnswer == ASSUME AnswerInv, Outside PROVE AnswerInv'
  BY SameAnswer DEF Outside, answerStateVars, hookVars, taskVars, answerVars

LEMMA NextAnswer == AnswerInv /\ [Next]_vars => AnswerInv'
<1> SUFFICES ASSUME AnswerInv, [Next]_vars PROVE AnswerInv'  OBVIOUS
<1>1. ASSUME NEW m \in Msg,
             \/ Record(m) \/ Enqueue(m) \/ HookFails(m) \/ TaskStep(m) \/ TaskFails(m)
             \/ WorkerDies(m) \/ ChildDies(m)
      PROVE  AnswerInv'
  <2>1. CASE Record(m)  BY <2>1, RecordAnswer
  <2>2. CASE Enqueue(m)
    BY <2>2, MovedAnswer, "queued" \in Stage DEF Enqueue, answerVars, InTransaction, Stage
  <2>3. CASE HookFails(m)
    BY <2>3, SameAnswer DEF HookFails, answerStateVars, taskVars, answerVars
  <2>5. CASE SkipApplied(m)
    <3>1. applied[m] = 1
      BY <2>5 DEF SkipApplied, AlreadyApplied, AnswerInv, AppliedOnce, AnswerTypes
    <3> QED
      BY <2>5, <3>1, MovedAnswer DEF SkipApplied, Goto, hookVars, answerVars, InTransaction, Stage
  <2>6. CASE Read(m)
    <3>1. applied[m] = 0  BY <2>6 DEF Read, AlreadyApplied, AnswerInv, AnswerTypes
    <3> QED
      BY <2>6, <3>1, MovedAnswer DEF Read, Goto, hookVars, answerVars, InTransaction, Stage
  <2>7. CASE Flush(m)
    BY <2>7, MovedAnswer
    DEF Flush, Goto, hookVars, answerVars, InTransaction, Stage, AnswerInv, StageApplies
  <2>8. CASE Answer(m)
    BY <2>8, MovedAnswer
    DEF Answer, Goto, hookVars, answerVars, InTransaction, Stage, AnswerInv, StageApplies
  <2>9. CASE Commit(m)  BY <2>9, CommitAnswer
  <2>10. CASE MarkProcessed(m)  BY <2>10, MarkProcessedAnswer
  <2>11. CASE Acknowledge(m)
    BY <2>11, MovedAnswer DEF Acknowledge, Goto, hookVars, answerVars, InTransaction, Stage
  <2>12. CASE TaskFails(m)
    BY <2>12, MovedAnswer DEF TaskFails, hookVars, answerVars, InTransaction, Stage
  <2>13. CASE WorkerDies(m)
    BY <2>13, MovedAnswer DEF WorkerDies, Dies, hookVars, answerVars, InTransaction, Stage
  <2>14. CASE ChildDies(m)
    BY <2>14, MovedAnswer DEF ChildDies, Dies, hookVars, answerVars, InTransaction, Stage
  <2> QED
    BY <1>1, <2>1, <2>2, <2>3, <2>5, <2>6, <2>7, <2>8, <2>9, <2>10, <2>11, <2>12, <2>13,
       <2>14
    DEF TaskStep
<1>2. ASSUME NEW l \in Lead,
             \/ TakeOver(l) \/ PatchLead(l) \/ BookLead(l) \/ MarkNoResponse(l)
             \/ CancelBooking(l)
      PROVE  AnswerInv'
  BY <1>2, OutsideAnswer
  DEF TakeOver, PatchLead, BookLead, MarkNoResponse, CancelBooking
<1>3. CASE CaptureForm \/ CreateLead  BY <1>3, OutsideAnswer DEF CaptureForm, CreateLead
<1>4. CASE UNCHANGED vars  BY <1>4, SameAnswer DEF vars, answerStateVars
<1> QED  BY <1>1, <1>2, <1>3, <1>4 DEF Next

(* The invariant holds in every reachable state.                           *)
THEOREM AnswerInvariance == Spec => []AnswerInv
<1> QED  BY InitAnswer, NextAnswer, PTL DEF Spec

(* Retries and redeliveries of run_inbound apply a message once, and       *)
(* answer it at most once.                                                 *)
THEOREM AppliedOnceHolds == Spec => []AppliedOnce
<1>1. AnswerInv => AppliedOnce  BY DEF AnswerInv
<1> QED  BY AnswerInvariance, <1>1, PTL

(* No event is marked processed before its customer has an answer or the   *)
(* owner a notice.                                                         *)
THEOREM ProcessedIsAnsweredHolds == Spec => []ProcessedIsAnswered
<1>1. AnswerInv => ProcessedIsAnswered
  BY DEF AnswerInv, AppliedIsAnswered, MarkedIsApplied, ProcessedIsAnswered
<1> QED  BY AnswerInvariance, <1>1, PTL

-----------------------------------------------------------------------------
(* Part 2: the chat's row and the bookings.                                *)

(* A task exists only once its event was recorded and enqueued.            *)
AcceptInv ==
  \A m \in Msg :
    /\ event[m] = "NONE" => m \notin accepting /\ task[m] = "none"
    /\ m \in accepting => task[m] = "none"

(* A transaction works on a chat of its lead, or on a new one that only it *)
(* can see. A chat never changes its lead.                                 *)
ChatInv ==
  /\ \A m \in Msg : applied[m] = 0 => chatLead[m] = None
  /\ \A m \in Msg : task[m] \in InTransaction =>
       /\ myLead[m] \in Lead /\ myChat[m] \in Lead
       /\ \/ chatLead[myChat[m]] = myLead[m]
          \/ myChat[m] = m /\ chatLead[m] = None

(* While the model thinks and until the commit the chat's row is locked.   *)
LockInv == \A m \in Msg : task[m] \in {"thinking", "answered"} => lock[myChat[m]] = m

(* Whoever is about to insert a booking has seen that there was none: one  *)
(* that is there now is another chat's.                                    *)
ProposeInv ==
  \A m \in Msg : proposes[m] =>
    /\ task[m] = "answered"
    /\ autoBooked[myLead[m]] > 0 => \E d \in ChatsOf(myLead[m]) : d # myChat[m]

CloserInv == AcceptInv /\ ChatInv /\ LockInv /\ ProposeInv /\ ClosersBookOnce

IntakeInv == TypeOK /\ AnswerInv /\ CloserInv

closerVars == <<event, accepting, task, applied, myLead, myChat, proposes, chatLead, lock>>

LEMMA InitIntake == Init => IntakeInv
<1> SUFFICES ASSUME Init PROVE IntakeInv  OBVIOUS
<1>1. AnswerInv  BY InitAnswer
<1>2. TypeOK
  <2>1. event \in [Msg -> {"NONE", "RECORDED", "PROCESSED"}] /\ accepting \in SUBSET Msg
    BY DEF Init
  <2>2. task \in [Msg -> Stage] /\ tries \in [Msg -> 0..MaxRetries]
    BY IntakeAssumption DEF Init, Stage
  <2>3. applied \in [Msg -> Nat] /\ replies \in [Msg -> Nat] /\ flagged \in SUBSET Msg
    BY DEF Init
  <2>4. leadStatus \in [Lead -> Status \cup {"ABSENT"}]  BY DEF Init, Status
  <2>5. elders \in [Lead -> SUBSET Lead]  BY DEF Init
  <2>6. chatLead \in [Lead -> Lead \cup {None}]  BY DEF Init, Lead
  <2>7. chatState \in [Lead -> State] /\ lock \in [Lead -> Msg \cup {None}]
    BY DEF Init, State
  <2>8. autoBooked \in [Lead -> Nat] /\ ownBooked \in [Lead -> Nat]  BY DEF Init
  <2>9. myLead \in [Msg -> Lead \cup {None}] /\ myChat \in [Msg -> Lead \cup {None}]
    BY DEF Init
  <2>10. sawState \in [Msg -> State] /\ proposes \in [Msg -> BOOLEAN]  BY DEF Init, State
  <2>11. failures \in 0..MaxFailures /\ outside \in 0..MaxOutside
    BY IntakeAssumption DEF Init
  <2> QED
    BY <2>1, <2>2, <2>3, <2>4, <2>5, <2>6, <2>7, <2>8, <2>9, <2>10, <2>11 DEF TypeOK
<1>3. AcceptInv  BY DEF Init, AcceptInv
<1>4. ChatInv  BY IntakeAssumption DEF Init, ChatInv, Lead, InTransaction
<1>5. LockInv /\ ProposeInv  BY DEF Init, LockInv, ProposeInv
<1>6. ClosersBookOnce  BY DEF Init, ClosersBookOnce
<1> QED  BY <1>1, <1>2, <1>3, <1>4, <1>5, <1>6 DEF IntakeInv, CloserInv

(* A step that leaves tasks and chats alone, and adds no booking of the    *)
(* Closer's.                                                               *)
LEMMA SameClosers ==
  ASSUME TypeOK, TypeOK', CloserInv, UNCHANGED closerVars,
         \A l \in Lead : autoBooked'[l] <= autoBooked[l]
  PROVE  CloserInv'
  <1> USE DEF CloserInv, closerVars
  <1>1. AcceptInv'  BY DEF AcceptInv
  <1>2. ChatInv'  BY DEF ChatInv
  <1>3. LockInv'  BY DEF LockInv
  <1>4. \A l \in Lead : autoBooked[l] \in Nat /\ autoBooked'[l] \in Nat  BY DEF TypeOK
  <1>5. \A l : ChatsOf(l)' = ChatsOf(l)  BY DEF ChatsOf
  <1>6. ProposeInv'
    <2> SUFFICES ASSUME NEW m \in Msg, proposes[m]
                 PROVE  /\ task[m] = "answered"
                        /\ autoBooked'[myLead[m]] > 0 =>
                             \E d \in ChatsOf(myLead[m]) : d # myChat[m]
      BY <1>5 DEF ProposeInv
    <2>1. task[m] = "answered"  BY DEF ProposeInv
    <2>2. myLead[m] \in Lead  BY <2>1 DEF ChatInv, InTransaction
    <2>3. autoBooked'[myLead[m]] > 0 => autoBooked[myLead[m]] > 0  BY <2>2, <1>4
    <2> QED  BY <2>1, <2>3 DEF ProposeInv
  <1>7. ClosersBookOnce'
    <2>1. \A l \in Lead : autoBooked'[l] > 1 => autoBooked[l] > 1  BY <1>4
    <2> QED  BY <2>1, <1>5 DEF ClosersBookOnce
  <1> QED  BY <1>1, <1>2, <1>3, <1>6, <1>7

(* A step that moves a task that is not about to commit to a stage outside *)
(* of the transaction, and leaves chats and bookings alone.                *)
LEMMA MovedClosers ==
  ASSUME CloserInv, AcceptInv', NEW m \in Msg, task \in [Msg -> Stage],
         NEW to \in Stage \ InTransaction,
         task' = [task EXCEPT ![m] = to], task[m] # "answered",
         UNCHANGED <<applied, myLead, myChat, proposes, chatVars, autoBooked>>
  PROVE  CloserInv'
  <1> USE DEF CloserInv, chatVars
  <1>1. \A k \in Msg : task'[k] \in InTransaction => task'[k] = task[k]
    BY DEF InTransaction
  <1>2. ChatInv'  BY <1>1 DEF ChatInv
  <1>3. LockInv'  BY <1>1 DEF LockInv, InTransaction
  <1>4. \A l : ChatsOf(l)' = ChatsOf(l)  BY DEF ChatsOf
  <1>5. ProposeInv'  BY <1>4 DEF ProposeInv
  <1>6. ClosersBookOnce'  BY <1>4 DEF ClosersBookOnce
  <1> QED  BY <1>2, <1>3, <1>5, <1>6

LEMMA HookClosers ==
  ASSUME IntakeInv, NEW m \in Msg, Record(m) \/ Enqueue(m) \/ HookFails(m)
  PROVE  TypeOK' /\ CloserInv'
  <1> USE DEF IntakeInv
  <1>1. CASE Record(m)
    <2> USE <1>1 DEF Record, Unseen, taskVars, answerVars, leadVars, chatVars, bookVars,
                     budgetVars
    <2>1. TypeOK'  BY DEF TypeOK
    <2>2. AcceptInv'  BY DEF TypeOK, CloserInv, AcceptInv
    <2>3. ChatInv'  BY DEF CloserInv, ChatInv
    <2>4. LockInv' /\ ProposeInv' /\ ClosersBookOnce'
      BY DEF CloserInv, LockInv, ProposeInv, ClosersBookOnce, ChatsOf
    <2> QED  BY <2>1, <2>2, <2>3, <2>4 DEF CloserInv
  <1>2. CASE Enqueue(m)
    <2> USE <1>2 DEF Enqueue, answerVars, leadVars, chatVars, bookVars, budgetVars
    <2>1. TypeOK'  BY DEF TypeOK, Stage
    <2>2. task[m] = "none" /\ event[m] # "NONE"  BY DEF CloserInv, AcceptInv
    <2>3. AcceptInv'  BY <2>2 DEF TypeOK, CloserInv, AcceptInv
    <2>4. "queued" \in Stage \ InTransaction  BY DEF Stage, InTransaction
    <2>5. CloserInv'  BY <2>2, <2>3, <2>4, MovedClosers DEF TypeOK
    <2> QED  BY <2>1, <2>5
  <1>3. CASE HookFails(m)
    <2> USE <1>3 DEF HookFails, taskVars, answerVars, leadVars, chatVars, bookVars
    <2>1. TypeOK'  BY IntakeAssumption DEF TypeOK
    <2>2. AcceptInv'  BY DEF CloserInv, AcceptInv
    <2>3. ChatInv'  BY DEF CloserInv, ChatInv
    <2>4. LockInv' /\ ProposeInv' /\ ClosersBookOnce'
      BY DEF CloserInv, LockInv, ProposeInv, ClosersBookOnce, ChatsOf
    <2> QED  BY <2>1, <2>2, <2>3, <2>4 DEF CloserInv
  <1> QED  BY <1>1, <1>2, <1>3

LEMMA SkipClosers ==
  ASSUME IntakeInv, NEW m \in Msg, SkipApplied(m) \/ MarkProcessed(m) \/ Acknowledge(m)
  PROVE  TypeOK' /\ CloserInv'
  <1> USE DEF IntakeInv, Goto, hookVars, answerVars, leadVars, chatVars, bookVars, budgetVars
  <1>1. PICK to \in {"applied", "marked", "none"} : task' = [task EXCEPT ![m] = to]
    BY DEF SkipApplied, MarkProcessed, Acknowledge
  <1>2. task[m] # "answered" /\ task[m] # "none"
    BY DEF SkipApplied, MarkProcessed, Acknowledge
  <1>3. UNCHANGED <<accepting, applied, replies, flagged, leadStatus, elders, chatLead,
                    chatState, lock, autoBooked, ownBooked, myLead, myChat, sawState, proposes,
                    failures, outside>>
    BY DEF SkipApplied, MarkProcessed, Acknowledge
  <1>4. event' = event \/ event' = [event EXCEPT ![m] = "PROCESSED"]
    BY DEF SkipApplied, MarkProcessed, Acknowledge
  <1>5. tries' = tries \/ tries' = [tries EXCEPT ![m] = 0]
    BY DEF SkipApplied, MarkProcessed, Acknowledge
  <1>6. TypeOK'
    <2>1. event' \in [Msg -> {"NONE", "RECORDED", "PROCESSED"}]  BY <1>4 DEF TypeOK
    <2>2. tries' \in [Msg -> 0..MaxRetries]  BY <1>5, IntakeAssumption DEF TypeOK
    <2>3. task' \in [Msg -> Stage]  BY <1>1 DEF TypeOK, Stage
    <2> QED  BY <1>3, <2>1, <2>2, <2>3 DEF TypeOK
  <1>7. AcceptInv'
    BY <1>1, <1>2, <1>3, <1>4 DEF CloserInv, AcceptInv, TypeOK
  <1>8. to \in Stage \ InTransaction  BY DEF Stage, InTransaction
  <1>9. CloserInv'
    BY <1>1, <1>2, <1>3, <1>7, <1>8, MovedClosers DEF TypeOK
  <1> QED  BY <1>6, <1>9

(* The transaction picks the lead's chat, or a new one: the message was    *)
(* not applied, so no chat is named after it.                              *)
LEMMA ReadClosers ==
  ASSUME IntakeInv, NEW m \in Msg, Read(m)
  PROVE  TypeOK' /\ CloserInv'
  <1> USE DEF IntakeInv
  <1>1. PICK l \in Lead, c \in Lead :
          /\ chatLead[c] = l \/ c = m
          /\ elders' = elders \/ Begin(m)
          /\ myLead' = [myLead EXCEPT ![m] = l]
          /\ myChat' = [myChat EXCEPT ![m] = c]
          /\ sawState' = [sawState EXCEPT ![m] = chatState[c]]
    <2>1. PICK l \in IF Reusable = {} THEN {m} ELSE Reusable :
            \E c \in IF ChatsOf(l) = {} THEN {m} ELSE ChatsOf(l) :
              /\ IF l = m THEN Begin(m) ELSE UNCHANGED elders
              /\ myLead' = [myLead EXCEPT ![m] = l]
              /\ myChat' = [myChat EXCEPT ![m] = c]
              /\ sawState' = [sawState EXCEPT ![m] = chatState[c]]
      BY Zenon DEF Read
    <2>2. l \in Lead  BY DEF Reusable, Latest, Present, Lead
    <2> QED  BY <2>1, <2>2 DEF ChatsOf, Lead
  <1>2. /\ task[m] = "queued" /\ task' = [task EXCEPT ![m] = "read"]
        /\ applied[m] = 0
        /\ UNCHANGED <<event, accepting, tries, proposes, applied, replies, flagged, leadStatus,
                       chatLead, chatState, lock, autoBooked, ownBooked, failures, outside>>
    BY DEF Read, Goto, AlreadyApplied, hookVars, answerVars, chatVars, bookVars, budgetVars, TypeOK
  <1>3. m \in Lead /\ chatLead[m] = None  BY <1>2 DEF CloserInv, ChatInv, Lead
  <1>4. TypeOK'
    <2>1. elders' \in [Lead -> SUBSET Lead]
      BY <1>1 DEF TypeOK, Begin, Present, Lead
    <2>2. /\ myLead' \in [Msg -> Lead \cup {None}]
          /\ myChat' \in [Msg -> Lead \cup {None}]
          /\ sawState' \in [Msg -> State]
      BY <1>1 DEF TypeOK
    <2>3. task' \in [Msg -> Stage]  BY <1>2 DEF TypeOK, Stage
    <2> QED  BY <1>2, <2>1, <2>2, <2>3 DEF TypeOK
  <1>5. AcceptInv'  BY <1>2 DEF CloserInv, AcceptInv, TypeOK
  <1>6. \A k \in Msg : k # m =>
          myLead'[k] = myLead[k] /\ myChat'[k] = myChat[k] /\ task'[k] = task[k]
    BY <1>1, <1>2 DEF TypeOK
  <1>7. myLead'[m] = l /\ myChat'[m] = c /\ task'[m] = "read"  BY <1>1, <1>2 DEF TypeOK
  <1>8. ChatInv'
    BY <1>1, <1>2, <1>3, <1>6, <1>7 DEF CloserInv, ChatInv
  <1>9. LockInv'  BY <1>2, <1>6, <1>7 DEF CloserInv, LockInv
  <1>10. ProposeInv'
    <2>1. proposes[m] = FALSE  BY <1>2 DEF CloserInv, ProposeInv, TypeOK
    <2> QED  BY <2>1, <1>2, <1>6 DEF CloserInv, ProposeInv, ChatsOf
  <1>11. ClosersBookOnce'  BY <1>2 DEF CloserInv, ClosersBookOnce, ChatsOf
  <1> QED  BY <1>4, <1>5, <1>8, <1>9, <1>10, <1>11 DEF CloserInv

(* The flush takes the lock of the chat's row.                             *)
LEMMA FlushClosers ==
  ASSUME IntakeInv, NEW m \in Msg, Flush(m)
  PROVE  TypeOK' /\ CloserInv'
  <1> USE DEF IntakeInv
  <1>1. /\ task[m] = "read" /\ task' = [task EXCEPT ![m] = "thinking"]
        /\ lock[myChat[m]] = None
        /\ lock' = [lock EXCEPT ![myChat[m]] = m]
        /\ UNCHANGED <<event, accepting, tries, myLead, myChat, sawState, proposes, applied,
                       replies, flagged, leadStatus, elders, chatLead, chatState, autoBooked,
                       ownBooked, failures, outside>>
    BY DEF Flush, Goto, hookVars, answerVars, leadVars, bookVars, budgetVars
  <1>2. TypeOK'
    <2>1. task' \in [Msg -> Stage] /\ lock' \in [Lead -> Msg \cup {None}]
      BY <1>1 DEF TypeOK, Stage
    <2> QED  BY <1>1, <2>1 DEF TypeOK
  <1>3. task'[m] = "thinking" /\ \A k \in Msg \ {m} : task'[k] = task[k]
    BY <1>1 DEF TypeOK
  <1>4. AcceptInv'  BY <1>1, <1>3 DEF CloserInv, AcceptInv
  <1>5. ChatInv'  BY <1>1, <1>3 DEF CloserInv, ChatInv, InTransaction
  <1>6. LockInv'
    <2>1. myChat[m] \in Lead  BY <1>1 DEF CloserInv, ChatInv, InTransaction
    <2>2. lock'[myChat[m]] = m /\ \A c \in Lead \ {myChat[m]} : lock'[c] = lock[c]
      BY <2>1, <1>1 DEF TypeOK
    <2> SUFFICES ASSUME NEW k \in Msg, task'[k] \in {"thinking", "answered"}
                 PROVE  lock'[myChat[k]] = k
      BY <1>1 DEF LockInv
    <2>3. CASE k = m  BY <2>3, <2>2
    <2>4. CASE k # m
      <3>1. task[k] \in {"thinking", "answered"}  BY <2>4, <1>3
      <3>2. myChat[k] \in Lead /\ lock[myChat[k]] = k
        BY <3>1 DEF CloserInv, ChatInv, LockInv, InTransaction
      <3>3. k # None  BY IntakeAssumption
      <3> QED  BY <3>2, <3>3, <2>2, <1>1
    <2> QED  BY <2>3, <2>4
  <1>7. ProposeInv'
    <2>1. proposes[m] = FALSE  BY <1>1 DEF CloserInv, ProposeInv, TypeOK
    <2> QED  BY <2>1, <1>1, <1>3 DEF CloserInv, ProposeInv, ChatsOf
  <1>8. ClosersBookOnce'  BY <1>1 DEF CloserInv, ClosersBookOnce, ChatsOf
  <1> QED  BY <1>2, <1>4, <1>5, <1>6, <1>7, <1>8 DEF CloserInv

(* A booking is proposed only where no open one is seen.                   *)
LEMMA AnswerClosers ==
  ASSUME IntakeInv, NEW m \in Msg, Answer(m)
  PROVE  TypeOK' /\ CloserInv'
  <1> USE DEF IntakeInv
  <1>1. PICK book \in BOOLEAN : proposes' = [proposes EXCEPT ![m] =
          book /\ autoBooked[myLead[m]] + ownBooked[myLead[m]] = 0]
    BY DEF Answer
  <1>2. /\ task[m] = "thinking" /\ task' = [task EXCEPT ![m] = "answered"]
        /\ UNCHANGED <<event, accepting, tries, myLead, myChat, sawState, applied, replies,
                       flagged, leadStatus, elders, chatLead, chatState, lock, autoBooked,
                       ownBooked, failures, outside>>
    BY DEF Answer, Goto, hookVars, answerVars, leadVars, chatVars, bookVars, budgetVars
  <1>3. task'[m] = "answered" /\ \A k \in Msg \ {m} : task'[k] = task[k]
    BY <1>2 DEF TypeOK
  <1>4. TypeOK'
    <2>1. task' \in [Msg -> Stage]  BY <1>2 DEF TypeOK, Stage
    <2>2. proposes' \in [Msg -> BOOLEAN]  BY <1>1, Zenon DEF TypeOK
    <2> QED  BY <1>2, <2>1, <2>2 DEF TypeOK
  <1>5. AcceptInv'  BY <1>2, <1>3 DEF CloserInv, AcceptInv
  <1>6. ChatInv'  BY <1>2, <1>3 DEF CloserInv, ChatInv, InTransaction
  <1>7. LockInv'  BY <1>2, <1>3 DEF CloserInv, LockInv
  <1>8. ProposeInv'
    <2>1. myLead[m] \in Lead  BY <1>2 DEF CloserInv, ChatInv, InTransaction
    <2>2. autoBooked[myLead[m]] \in Nat /\ ownBooked[myLead[m]] \in Nat
      BY <2>1 DEF TypeOK
    <2>3. proposes'[m] => autoBooked[myLead[m]] + ownBooked[myLead[m]] = 0
      BY <1>1 DEF TypeOK
    <2>4. proposes'[m] => ~(autoBooked[myLead[m]] > 0)  BY <2>2, <2>3
    <2>5. \A k \in Msg \ {m} : proposes'[k] = proposes[k]  BY <1>1 DEF TypeOK
    <2> QED  BY <1>2, <1>3, <2>4, <2>5 DEF CloserInv, ProposeInv, ChatsOf
  <1>9. ClosersBookOnce'  BY <1>2 DEF CloserInv, ClosersBookOnce, ChatsOf
  <1> QED  BY <1>4, <1>5, <1>6, <1>7, <1>8, <1>9 DEF CloserInv

(* A session that ends gives up its lock and its proposal; its new lead    *)
(* and chat are gone with it.                                              *)
LEMMA RollbackClosers ==
  ASSUME IntakeInv, NEW m \in Msg, TaskFails(m) \/ WorkerDies(m) \/ ChildDies(m)
  PROVE  TypeOK' /\ CloserInv'
  <1> USE DEF IntakeInv
  <1>1. /\ task[m] \in Running /\ failures < MaxFailures /\ failures' = failures + 1
        /\ Rollback(m)
        /\ UNCHANGED <<event, accepting, applied, replies, flagged, leadStatus, chatLead,
                       chatState, autoBooked, ownBooked, outside>>
    BY DEF TaskFails, WorkerDies, ChildDies, Dies, hookVars, answerVars, bookVars
  <1>2. PICK to \in {"queued", "dropped", "lost"} : task' = [task EXCEPT ![m] = to]
    BY DEF TaskFails, WorkerDies, ChildDies
  <1>3. tries' \in [Msg -> 0..MaxRetries]
    <2>1. CASE WorkerDies(m)  BY <2>1 DEF WorkerDies, TypeOK
    <2>3. CASE ChildDies(m)  BY <2>3, IntakeAssumption DEF ChildDies, TypeOK
    <2>2. CASE TaskFails(m)
      <3>1. tries[m] \in 0..MaxRetries /\ MaxRetries \in Nat
        BY IntakeAssumption DEF TypeOK
      <3>2. CASE tries' = [tries EXCEPT ![m] = 0]  BY <3>1, <3>2 DEF TypeOK
      <3>3. CASE tries[m] < MaxRetries /\ tries' = [tries EXCEPT ![m] = @ + 1]
        <4>1. tries[m] + 1 \in 0..MaxRetries  BY <3>1, <3>3
        <4> QED  BY <3>3, <4>1 DEF TypeOK
      <3> QED  BY <2>2, <3>2, <3>3 DEF TaskFails
    <2> QED  BY <2>1, <2>2, <2>3
  <1>4. /\ myLead' = [myLead EXCEPT ![m] = None] /\ myChat' = [myChat EXCEPT ![m] = None]
        /\ sawState' = [sawState EXCEPT ![m] = "SAATHI"]
        /\ proposes' = [proposes EXCEPT ![m] = FALSE]
        /\ lock' = Release(m)
    BY <1>1 DEF Rollback, ForgetSession
  <1>5. TypeOK'
    <2>1. elders' \in [Lead -> SUBSET Lead]  BY <1>1 DEF Rollback, TypeOK
    <2>2. lock' \in [Lead -> Msg \cup {None}]  BY <1>4 DEF Release, TypeOK
    <2>3. /\ myLead' \in [Msg -> Lead \cup {None}] /\ myChat' \in [Msg -> Lead \cup {None}]
          /\ sawState' \in [Msg -> State]
      BY <1>4 DEF TypeOK, State
    <2>4. proposes' \in [Msg -> BOOLEAN]  BY <1>4 DEF TypeOK
    <2>5. failures' \in 0..MaxFailures  BY <1>1, IntakeAssumption DEF TypeOK
    <2>6. task' \in [Msg -> Stage]  BY <1>2 DEF TypeOK, Stage
    <2> QED  BY <1>1, <1>3, <2>1, <2>2, <2>3, <2>4, <2>5, <2>6 DEF TypeOK
  <1>6. \A k \in Msg \ {m} : /\ task'[k] = task[k] /\ proposes'[k] = proposes[k]
                             /\ myLead'[k] = myLead[k] /\ myChat'[k] = myChat[k]
    BY <1>2, <1>4 DEF TypeOK
  <1>7. task'[m] \in {"queued", "dropped", "lost"} /\ proposes'[m] = FALSE
    BY <1>2, <1>4 DEF TypeOK
  <1>8. AcceptInv'
    BY <1>1, <1>6, <1>7 DEF CloserInv, AcceptInv, Running, InTransaction
  <1>9. ChatInv'  BY <1>1, <1>6, <1>7 DEF CloserInv, ChatInv, InTransaction
  <1>10. LockInv'
    <2> SUFFICES ASSUME NEW k \in Msg, task'[k] \in {"thinking", "answered"}
                 PROVE  lock'[myChat'[k]] = k
      BY DEF LockInv
    <2>1. k # m  BY <1>7
    <2>2. myChat[k] \in Lead /\ lock[myChat[k]] = k /\ myChat'[k] = myChat[k]
      BY <2>1, <1>6 DEF CloserInv, ChatInv, LockInv, InTransaction
    <2> QED  BY <2>1, <2>2, <1>4 DEF Release
  <1>11. ProposeInv'  BY <1>1, <1>6, <1>7 DEF CloserInv, ProposeInv, ChatsOf
  <1>12. ClosersBookOnce'  BY <1>1 DEF CloserInv, ClosersBookOnce, ChatsOf
  <1> QED  BY <1>5, <1>8, <1>9, <1>10, <1>11, <1>12 DEF CloserInv

(* What a transaction may write is a status and a state, or nothing.       *)
LEMMA AnswerIsWritable ==
  ASSUME NEW m \in Msg, NEW p \in Degraded(m) \cup Blocked(m) \cup Replied(m)
  PROVE  p.state \in State \cup {"KEEP"} /\ p.status \in Status \cup {"KEEP"}
  <1>1. CASE p \in Degraded(m)
    BY <1>1 DEF Degraded, Statuses, State
  <1>2. CASE p \in Blocked(m)
    <2>1. PICK q \in Degraded(m) : p = [q EXCEPT !.sent = FALSE]  BY <1>2 DEF Blocked
    <2>2. PICK st \in Statuses(m) :
            q = [state |-> IF sawState[m] = "HANDOFF" THEN "KEEP" ELSE "HANDOFF",
                 status |-> st, sent |-> TRUE, flag |-> TRUE]
      BY DEF Degraded
    <2> QED  BY <2>1, <2>2 DEF Statuses, State
  <1>3. CASE p \in Replied(m)  BY <1>3 DEF Replied, Statuses, State
  <1> QED  BY <1>1, <1>2, <1>3

(* The commit adds its chat to the lead's and its booking to the others',  *)
(* which are all of other chats: it holds the row, so nobody else is about *)
(* to book from this one.                                                  *)
LEMMA CommitClosers ==
  ASSUME IntakeInv, NEW m \in Msg, Commit(m)
  PROVE  TypeOK' /\ CloserInv'
  <1> USE DEF IntakeInv
  <1> DEFINE l == myLead[m]
             c == myChat[m]
             After(x) == {d \in Lead : chatLead'[d] = x}
  <1>1. PICK p \in Degraded(m) \cup Blocked(m) \cup Replied(m) :
          /\ replies' = [replies EXCEPT ![m] = @ + (IF p.sent THEN 1 ELSE 0)]
          /\ flagged' = IF p.flag THEN flagged \cup {m} ELSE flagged
          /\ leadStatus' = [leadStatus EXCEPT ![l] = Written(@, p.status)]
          /\ chatState' = [chatState EXCEPT ![c] = Written(@, p.state)]
    BY Zenon DEF Commit, Booked
  <1>2. /\ task[m] = "answered" /\ task' = [task EXCEPT ![m] = "applied"]
        /\ applied' = [applied EXCEPT ![m] = @ + 1]
        /\ chatLead' = [chatLead EXCEPT ![c] = l]
        /\ autoBooked' = [autoBooked EXCEPT ![l] = @ + (IF proposes[m] THEN 1 ELSE 0)]
        /\ lock' = Release(m)
    BY DEF Commit, Goto
  <1>3. /\ myLead' = [myLead EXCEPT ![m] = None] /\ myChat' = [myChat EXCEPT ![m] = None]
        /\ sawState' = [sawState EXCEPT ![m] = "SAATHI"]
        /\ proposes' = [proposes EXCEPT ![m] = FALSE]
    BY DEF Commit, ForgetSession
  <1>4. UNCHANGED <<event, accepting, tries, elders, ownBooked, failures, outside>>
    BY DEF Commit, hookVars, budgetVars
  <1>5. /\ l \in Lead /\ c \in Lead
        /\ \/ chatLead[c] = l
           \/ c = m /\ chatLead[m] = None
    BY <1>2 DEF CloserInv, ChatInv, InTransaction
  <1>6. lock[c] = m  BY <1>2 DEF CloserInv, LockInv
  <1>7. TypeOK'
    <2>1. p.state \in State \cup {"KEEP"} /\ p.status \in Status \cup {"KEEP"}
      BY AnswerIsWritable
    <2>2. leadStatus' \in [Lead -> Status \cup {"ABSENT"}]
      BY <1>1, <2>1 DEF TypeOK, Written
    <2>3. chatState' \in [Lead -> State]  BY <1>1, <2>1 DEF TypeOK, Written
    <2>4. replies' \in [Msg -> Nat] /\ flagged' \in SUBSET Msg  BY <1>1 DEF TypeOK
    <2>5. applied' \in [Msg -> Nat] /\ task' \in [Msg -> Stage]
      BY <1>2 DEF TypeOK, Stage
    <2>6. chatLead' \in [Lead -> Lead \cup {None}]  BY <1>2, <1>5 DEF TypeOK
    <2>7. autoBooked' \in [Lead -> Nat]
      <3>1. autoBooked[l] + (IF proposes[m] THEN 1 ELSE 0) \in Nat  BY <1>5 DEF TypeOK
      <3> QED  BY <3>1, <1>2 DEF TypeOK
    <2>8. lock' \in [Lead -> Msg \cup {None}]  BY <1>2 DEF Release, TypeOK
    <2>9. /\ myLead' \in [Msg -> Lead \cup {None}] /\ myChat' \in [Msg -> Lead \cup {None}]
          /\ sawState' \in [Msg -> State]
      BY <1>3 DEF TypeOK, State
    <2>10. proposes' \in [Msg -> BOOLEAN]  BY <1>3 DEF TypeOK
    <2> QED
      BY <1>4, <2>2, <2>3, <2>4, <2>5, <2>6, <2>7, <2>8, <2>9, <2>10 DEF TypeOK
  <1>8. \A k \in Msg \ {m} : /\ task'[k] = task[k] /\ proposes'[k] = proposes[k]
                             /\ myLead'[k] = myLead[k] /\ myChat'[k] = myChat[k]
                             /\ applied'[k] = applied[k]
    BY <1>2, <1>3 DEF TypeOK
  <1>9. task'[m] = "applied" /\ proposes'[m] = FALSE /\ applied'[m] # 0
    BY <1>2, <1>3 DEF TypeOK
  <1>10. chatLead'[c] = l /\ \A d \in Lead \ {c} : chatLead'[d] = chatLead[d]
    BY <1>2, <1>5 DEF TypeOK
  <1>11. None \notin Lead /\ Msg \subseteq Lead  BY IntakeAssumption DEF Lead
  <1> HIDE DEF l, c
  \* A chat stays with its lead.
  <1>12. \A x \in Lead : ChatsOf(x) \subseteq After(x)
    BY <1>5, <1>10, <1>11 DEF ChatsOf
  <1>13. c \in After(l)  BY <1>5, <1>10
  \* Nobody else is in this chat's transaction.
  <1>14. \A k \in Msg \ {m} : task[k] \in {"thinking", "answered"} => myChat[k] # c
    BY <1>6 DEF CloserInv, LockInv
  <1>15. AcceptInv'  BY <1>2, <1>4, <1>8, <1>9 DEF CloserInv, AcceptInv
  <1>16. ChatInv'
    <2>1. ASSUME NEW k \in Msg, applied'[k] = 0  PROVE  chatLead'[k] = None
      <3>1. k # m /\ applied[k] = 0  BY <2>1, <1>8, <1>9
      <3>2. chatLead[k] = None  BY <3>1 DEF CloserInv, ChatInv
      <3>3. k # c  BY <3>1, <3>2, <1>5, <1>11
      <3> QED  BY <3>2, <3>3, <1>10, <1>11
    <2>2. ASSUME NEW k \in Msg, task'[k] \in InTransaction
          PROVE  /\ myLead'[k] \in Lead /\ myChat'[k] \in Lead
                 /\ \/ chatLead'[myChat'[k]] = myLead'[k]
                    \/ myChat'[k] = k /\ chatLead'[k] = None
      <3>1. k # m  BY <2>2, <1>9 DEF InTransaction
      <3>2. myLead'[k] = myLead[k] /\ myChat'[k] = myChat[k]  BY <3>1, <1>8
      <3>3. /\ myLead[k] \in Lead /\ myChat[k] \in Lead
            /\ \/ chatLead[myChat[k]] = myLead[k]
               \/ myChat[k] = k /\ chatLead[k] = None
        BY <2>2, <3>1, <1>8 DEF CloserInv, ChatInv
      <3>4. CASE myChat[k] = c
        BY <3>1, <3>2, <3>3, <3>4, <1>5, <1>10, <1>11
      <3>5. CASE myChat[k] # c
        BY <3>2, <3>3, <3>5, <1>10, <1>11
      <3> QED  BY <3>4, <3>5
    <2> QED  BY <2>1, <2>2 DEF ChatInv
  <1>17. LockInv'
    <2> SUFFICES ASSUME NEW k \in Msg, task'[k] \in {"thinking", "answered"}
                 PROVE  lock'[myChat'[k]] = k
      BY DEF LockInv
    <2>1. k # m  BY <1>9
    <2>2. myChat[k] \in Lead /\ lock[myChat[k]] = k /\ myChat'[k] = myChat[k]
      BY <2>1, <1>8 DEF CloserInv, ChatInv, LockInv, InTransaction
    <2> QED  BY <2>1, <2>2, <1>2 DEF Release
  <1>18. /\ autoBooked'[l] > autoBooked[l] => proposes[m]
         /\ autoBooked'[l] <= autoBooked[l] + 1
         /\ \A x \in Lead \ {l} : autoBooked'[x] = autoBooked[x]
    BY <1>2, <1>5 DEF TypeOK, l
  <1>19. \A x \in Lead : autoBooked[x] \in Nat /\ autoBooked'[x] \in Nat
    BY <1>7 DEF TypeOK
  <1>20. ProposeInv'
    <2> SUFFICES ASSUME NEW k \in Msg, proposes'[k]
                 PROVE  /\ task'[k] = "answered"
                        /\ autoBooked'[myLead'[k]] > 0 =>
                             \E d \in After(myLead'[k]) : d # myChat'[k]
      BY DEF ProposeInv, ChatsOf
    <2>1. k # m  BY <1>9
    <2>2. /\ proposes[k] /\ task'[k] = task[k]
          /\ myLead'[k] = myLead[k] /\ myChat'[k] = myChat[k]
      BY <2>1, <1>8
    <2>3. task[k] = "answered"  BY <2>2 DEF CloserInv, ProposeInv
    <2>4. myLead[k] \in Lead /\ myChat[k] # c
      BY <2>1, <2>3, <1>14 DEF CloserInv, ChatInv, InTransaction
    <2>5. CASE myLead[k] = l  BY <2>2, <2>3, <2>4, <2>5, <1>13
    <2>6. CASE myLead[k] # l
      <3>1. autoBooked[myLead[k]] > 0 =>
              \E d \in ChatsOf(myLead[k]) : d # myChat[k]
        BY <2>2 DEF CloserInv, ProposeInv
      <3>2. ChatsOf(myLead[k]) \subseteq After(myLead[k])  BY <2>4, <1>12
      <3>3. autoBooked'[myLead[k]] = autoBooked[myLead[k]]  BY <2>4, <2>6, <1>18
      <3> QED  BY <2>2, <2>3, <3>1, <3>2, <3>3
    <2> QED  BY <2>5, <2>6
  <1>21. ClosersBookOnce'
    <2> SUFFICES ASSUME NEW x \in Lead, autoBooked'[x] > 1
                 PROVE  \E b, d \in After(x) : b # d
      BY DEF ClosersBookOnce, ChatsOf
    <2>1. CASE autoBooked[x] > 1
      BY <2>1, <1>12 DEF CloserInv, ClosersBookOnce
    <2>2. CASE ~(autoBooked[x] > 1)
      <3>1. x = l /\ proposes[m]  BY <2>2, <1>18, <1>19
      <3>2. autoBooked[l] > 0  BY <3>1, <1>18, <1>19
      <3>3. PICK d \in ChatsOf(l) : d # c
        BY <3>1, <3>2 DEF CloserInv, ProposeInv, l, c
      <3> QED  BY <3>1, <3>3, <1>5, <1>12, <1>13
    <2> QED  BY <2>1, <2>2
  <1> QED  BY <1>7, <1>15, <1>16, <1>17, <1>20, <1>21 DEF CloserInv

LEMMA TaskClosers ==
  ASSUME IntakeInv, NEW m \in Msg, TaskStep(m) \/ TaskFails(m) \/ WorkerDies(m) \/ ChildDies(m)
  PROVE  TypeOK' /\ CloserInv'
  BY SkipClosers, ReadClosers, FlushClosers, AnswerClosers, CommitClosers, RollbackClosers
  DEF TaskStep

(* The owner, cron and the Instant Forms leave tasks and the leads of      *)
(* chats alone, and the Closer's bookings only become fewer.               *)
LEMMA OutsideClosers ==
  ASSUME IntakeInv, NEW l \in Lead,
         \/ TakeOver(l) \/ PatchLead(l) \/ BookLead(l) \/ MarkNoResponse(l)
         \/ CancelBooking(l) \/ CaptureForm \/ CreateLead
  PROVE  TypeOK' /\ CloserInv'
  <1> USE DEF IntakeInv
  <1>1. Outside /\ chatLead' = chatLead /\ lock' = lock
    BY DEF TakeOver, PatchLead, BookLead, MarkNoResponse, CancelBooking, CaptureForm,
           CreateLead, chatVars, leadVars
  <1>2. /\ UNCHANGED <<event, accepting, task, tries, myLead, myChat, sawState, proposes,
                       applied, replies, flagged, failures>>
        /\ outside < MaxOutside /\ outside' = outside + 1
    BY <1>1 DEF Outside, hookVars, taskVars, answerVars
  <1>3. outside' \in 0..MaxOutside  BY <1>2, IntakeAssumption DEF TypeOK
  <1>4. /\ autoBooked' \in [Lead -> Nat] /\ ownBooked' \in [Lead -> Nat]
        /\ \A k \in Lead : autoBooked'[k] <= autoBooked[k]
    <2>1. autoBooked[l] \in Nat /\ ownBooked[l] \in Nat  BY DEF TypeOK
    <2>2. CASE BookLead(l)
      BY <2>2, <2>1 DEF BookLead, TypeOK
    <2>3. CASE CancelBooking(l)
      <3>1. PICK own \in 0..1 :
              /\ own <= ownBooked[l] /\ 1 - own <= autoBooked[l]
              /\ ownBooked' = [ownBooked EXCEPT ![l] = @ - own]
              /\ autoBooked' = [autoBooked EXCEPT ![l] = @ - (1 - own)]
        BY <2>3 DEF CancelBooking
      <3>2. /\ ownBooked[l] - own \in Nat /\ autoBooked[l] - (1 - own) \in Nat
            /\ autoBooked[l] - (1 - own) <= autoBooked[l]
        BY <3>1, <2>1
      <3> QED  BY <3>1, <3>2 DEF TypeOK
    <2>4. CASE \/ TakeOver(l) \/ PatchLead(l) \/ MarkNoResponse(l) \/ CaptureForm \/ CreateLead
      <3>1. autoBooked' = autoBooked /\ ownBooked' = ownBooked
        BY <2>4 DEF TakeOver, PatchLead, MarkNoResponse, CaptureForm, CreateLead, bookVars
      <3> QED  BY <3>1 DEF TypeOK
    <2> QED  BY <2>2, <2>3, <2>4
  <1>5. chatState' \in [Lead -> State]
    <2>1. CASE TakeOver(l)  BY <2>1 DEF TakeOver, TypeOK, State
    <2>2. CASE ~TakeOver(l)
      <3>1. chatState' = chatState
        BY <2>2 DEF PatchLead, BookLead, MarkNoResponse, CancelBooking, CaptureForm,
                    CreateLead, chatVars
      <3> QED  BY <3>1 DEF TypeOK
    <2> QED  BY <2>1, <2>2
  <1>6. elders' \in [Lead -> SUBSET Lead]
    <2>1. CASE Begin(Known)
      BY <2>1 DEF Begin, Present, TypeOK, Lead
    <2>2. CASE ~Begin(Known)
      <3>1. elders' = elders
        BY <2>2 DEF TakeOver, PatchLead, BookLead, MarkNoResponse, CancelBooking, CaptureForm,
                    CreateLead, leadVars
      <3> QED  BY <3>1 DEF TypeOK
    <2> QED  BY <2>1, <2>2
  <1>7. leadStatus' \in [Lead -> Status \cup {"ABSENT"}]
    <2>1. CASE \E k \in Lead, st \in Status : leadStatus' = [leadStatus EXCEPT ![k] = st]
      BY <2>1 DEF TypeOK
    <2>2. CASE leadStatus' = leadStatus  BY <2>2 DEF TypeOK
    <2>3. Known \in Lead /\ "OPEN" \in Status /\ "OVER" \in Status  BY DEF Lead, Status
    <2>4. CASE TakeOver(l) \/ CancelBooking(l)
      BY <2>2, <2>4 DEF TakeOver, CancelBooking, leadVars
    <2>5. CASE PatchLead(l) \/ BookLead(l) \/ MarkNoResponse(l)
      BY <2>1, <2>3, <2>5 DEF PatchLead, BookLead, MarkNoResponse
    <2>6. CASE CaptureForm \/ CreateLead
      BY <2>1, <2>3, <2>6 DEF CaptureForm, CreateLead
    <2> QED  BY <2>4, <2>5, <2>6
  <1>8. TypeOK'  BY <1>1, <1>2, <1>3, <1>4, <1>5, <1>6, <1>7 DEF TypeOK
  <1>9. CloserInv'  BY <1>1, <1>2, <1>4, <1>8, SameClosers DEF closerVars
  <1> QED  BY <1>8, <1>9

LEMMA NextIntake == IntakeInv /\ [Next]_vars => IntakeInv'
<1> SUFFICES ASSUME IntakeInv, [Next]_vars PROVE TypeOK' /\ CloserInv'
  BY NextAnswer DEF IntakeInv
<1>1. CASE UNCHANGED vars
  <2>1. TypeOK'  BY <1>1 DEF vars, TypeOK, IntakeInv
  <2>2. CloserInv'
    BY <1>1 DEF vars, IntakeInv, CloserInv, AcceptInv, ChatInv, LockInv, ProposeInv,
                ClosersBookOnce, ChatsOf
  <2> QED  BY <2>1, <2>2
<1>2. ASSUME NEW m \in Msg, Record(m) \/ Enqueue(m) \/ HookFails(m)
      PROVE  TypeOK' /\ CloserInv'
  BY <1>2, HookClosers
<1>3. ASSUME NEW m \in Msg, TaskStep(m) \/ TaskFails(m) \/ WorkerDies(m) \/ ChildDies(m)
      PROVE  TypeOK' /\ CloserInv'
  BY <1>3, TaskClosers
<1>4. ASSUME NEW l \in Lead,
             \/ TakeOver(l) \/ PatchLead(l) \/ BookLead(l) \/ MarkNoResponse(l)
             \/ CancelBooking(l)
      PROVE  TypeOK' /\ CloserInv'
  BY <1>4, OutsideClosers
<1>5. CASE CaptureForm \/ CreateLead
  BY <1>5, OutsideClosers, Known \in Lead DEF Lead
<1> QED  BY <1>1, <1>2, <1>3, <1>4, <1>5 DEF Next

(* The invariant holds in every reachable state.                           *)
THEOREM IntakeInvariance == Spec => []IntakeInv
<1> QED  BY InitIntake, NextIntake, PTL DEF Spec

(* The rows and the sessions of the lead path keep their types.            *)
THEOREM IntakeTypeCorrect == Spec => []TypeOK
<1>1. IntakeInv => TypeOK  BY DEF IntakeInv
<1> QED  BY IntakeInvariance, <1>1, PTL

(* However many messages are handled side by side, _ensure_booking makes   *)
(* one booking per chat of a lead: the row the flush locks is enough.      *)
THEOREM CloserBooksOnce == Spec => []ClosersBookOnce
<1>1. IntakeInv => ClosersBookOnce  BY DEF IntakeInv, CloserInv
<1> QED  BY IntakeInvariance, <1>1, PTL

-----------------------------------------------------------------------------
(* The other way in, Instant Forms. The inductive invariant.               *)

(* The webhook works on what it has recorded.                              *)
HookInv == \A f \in Form : hook[f] # "idle" => f \in recorded

(* The insert and the notification are one transaction.                    *)
NoticeInv == \A f \in Form : notices[f] = IF lead[f] = "none" THEN 0 ELSE 1

(* Who still owes the owner a text about a form: the webhook or the poll   *)
(* between its insert and its enqueue, or a task in the queue.             *)
HookOwes(f) == hook[f] = "alert"
PollOwes(f) == polling = PollAt("alert", f)
QueueOwes(f) == f \in queued

(* One of them at most, only for a lead, and before any text about it      *)
(* except those that a dying worker sent.                                  *)
TextInv ==
  \A f \in Form :
    /\ HookOwes(f) => ~PollOwes(f) /\ ~QueueOwes(f)
    /\ PollOwes(f) => ~QueueOwes(f)
    /\ HookOwes(f) \/ PollOwes(f) \/ QueueOwes(f) => lead[f] # "none" /\ texted[f] <= redone[f]
    /\ lead[f] = "none" => texted[f] <= redone[f]
    /\ texted[f] <= redone[f] + 1

FormInv == FormTypeOK /\ HookInv /\ NoticeInv /\ TextInv

LEMMA PollStages ==
  /\ \A at \in {"idle", "looks"} : PollAt(at, NoForm) \in PollStage
  /\ \A at \in {"insert", "alert"} : \A f \in Form : PollAt(at, f) \in PollStage
  BY DEF PollAt, PollStage

LEMMA InitForms == FormInit => FormInv
  <1> SUFFICES ASSUME FormInit  PROVE FormInv
    OBVIOUS
  <1> USE FormLeadsAssumption DEF FormInit
  <1>1. FormTypeOK
    <2>1. connected \in BOOLEAN /\ tokenOk \in BOOLEAN /\ inError \in BOOLEAN
      BY Zenon
    <2>2. mishaps \in 0..MaxMishaps
      OBVIOUS
    <2> QED  BY <2>1, <2>2, PollStages DEF FormTypeOK
  <1>2. HookInv  BY DEF HookInv
  <1>3. NoticeInv  BY DEF NoticeInv
  <1>4. TextInv  BY DEF TextInv, HookOwes, PollOwes, QueueOwes, PollAt
  <1> QED  BY <1>1, <1>2, <1>3, <1>4 DEF FormInv

(* Texts are owed and sent only where these variables change.              *)
LEMMA SameTexts ==
  ASSUME FormInv, UNCHANGED <<lead, notices, smsVars>>,
         \A f \in Form : (HookOwes(f)' => HookOwes(f)) /\ (PollOwes(f)' => PollOwes(f))
  PROVE  NoticeInv' /\ TextInv'
  <1>1. NoticeInv'  BY DEF FormInv, NoticeInv
  <1>2. TextInv'  BY DEF FormInv, TextInv, QueueOwes, smsVars
  <1> QED  BY <1>1, <1>2

-----------------------------------------------------------------------------
(* Each step keeps the invariant.                                          *)

LEMMA SubmitForms ==
  ASSUME FormInv, NEW f \in Form, Submit(f)
  PROVE  FormInv'
  <1> USE FormLeadsAssumption
      DEF Submit, FormInv, world, rows, threadVars, pollVars, smsVars
  <1>1. FormTypeOK'  BY PollStages DEF FormTypeOK, HookInv
  <1>2. HookInv'  BY DEF HookInv, FormTypeOK
  <1>3. \A g \in Form : (HookOwes(g)' => HookOwes(g)) /\ (PollOwes(g)' => PollOwes(g))
    BY DEF HookOwes, PollOwes, PollAt, FormTypeOK
  <1>4. NoticeInv' /\ TextInv'  BY <1>3, SameTexts
  <1> QED  BY <1>1, <1>2, <1>4

LEMMA DeliverForms ==
  ASSUME FormInv, NEW f \in Form, Deliver(f)
  PROVE  FormInv'
  <1> USE FormLeadsAssumption
      DEF Deliver, FormInv, world, rows, threadVars, pollVars, smsVars
  <1>1. FormTypeOK'  BY PollStages DEF FormTypeOK, HookInv
  <1>2. HookInv'  BY DEF HookInv, FormTypeOK
  <1>3. \A g \in Form : (HookOwes(g)' => HookOwes(g)) /\ (PollOwes(g)' => PollOwes(g))
    BY DEF HookOwes, PollOwes, PollAt, FormTypeOK
  <1>4. NoticeInv' /\ TextInv'  BY <1>3, SameTexts
  <1> QED  BY <1>1, <1>2, <1>4

LEMMA FetchForms ==
  ASSUME FormInv, NEW f \in Form, Fetch(f)
  PROVE  FormInv'
  <1> USE FormLeadsAssumption
      DEF Fetch, FormInv, world, rows, threadVars, pollVars, smsVars
  <1>1. FormTypeOK'  BY PollStages DEF FormTypeOK, HookInv
  <1>2. HookInv'  BY DEF HookInv, FormTypeOK
  <1>3. \A g \in Form : (HookOwes(g)' => HookOwes(g)) /\ (PollOwes(g)' => PollOwes(g))
    BY DEF HookOwes, PollOwes, PollAt, FormTypeOK
  <1>4. NoticeInv' /\ TextInv'  BY <1>3, SameTexts
  <1> QED  BY <1>1, <1>2, <1>4

LEMMA CaptureForms ==
  ASSUME FormInv, NEW f \in Form, Capture(f)
  PROVE  FormInv'
  <1> USE FormLeadsAssumption
      DEF Capture, FormInv, world, rows, threadVars, pollVars, smsVars, HookReturns
  <1>1. FormTypeOK'  BY PollStages DEF FormTypeOK, HookInv
  <1>2. HookInv'  BY DEF HookInv, FormTypeOK
  <1>3. \A g \in Form : (HookOwes(g)' => HookOwes(g)) /\ (PollOwes(g)' => PollOwes(g))
    BY DEF HookOwes, PollOwes, PollAt, FormTypeOK
  <1>4. NoticeInv' /\ TextInv'  BY <1>3, SameTexts
  <1> QED  BY <1>1, <1>2, <1>4

LEMMA ThreadFailsForms ==
  ASSUME FormInv, NEW f \in Form, ThreadFails(f)
  PROVE  FormInv'
  <1> USE FormLeadsAssumption
      DEF ThreadFails, FormInv, world, rows, threadVars, pollVars, smsVars
  <1>1. FormTypeOK'  BY PollStages DEF FormTypeOK, HookInv
  <1>2. HookInv'  BY DEF HookInv, FormTypeOK
  <1>3. \A g \in Form : (HookOwes(g)' => HookOwes(g)) /\ (PollOwes(g)' => PollOwes(g))
    BY DEF HookOwes, PollOwes, PollAt, FormTypeOK
  <1>4. NoticeInv' /\ TextInv'  BY <1>3, SameTexts
  <1> QED  BY <1>1, <1>2, <1>4

LEMMA StartPollForms ==
  ASSUME FormInv, StartPoll
  PROVE  FormInv'
  <1> USE FormLeadsAssumption
      DEF StartPoll, FormInv, world, rows, threadVars, pollVars, smsVars, Listed
  <1>1. FormTypeOK'  BY PollStages DEF FormTypeOK, HookInv
  <1>2. HookInv'  BY DEF HookInv, FormTypeOK
  <1>3. \A g \in Form : (HookOwes(g)' => HookOwes(g)) /\ (PollOwes(g)' => PollOwes(g))
    BY DEF HookOwes, PollOwes, PollAt, FormTypeOK
  <1>4. NoticeInv' /\ TextInv'  BY <1>3, SameTexts
  <1> QED  BY <1>1, <1>2, <1>4

LEMMA PollFormForms ==
  ASSUME FormInv, NEW f \in Form, PollForm(f)
  PROVE  FormInv'
  <1> USE FormLeadsAssumption
      DEF PollForm, FormInv, world, rows, threadVars, pollVars, smsVars
  <1>1. FormTypeOK'  BY PollStages DEF FormTypeOK, HookInv
  <1>2. HookInv'  BY DEF HookInv, FormTypeOK
  <1>3. \A g \in Form : (HookOwes(g)' => HookOwes(g)) /\ (PollOwes(g)' => PollOwes(g))
    BY DEF HookOwes, PollOwes, PollAt, FormTypeOK
  <1>4. NoticeInv' /\ TextInv'  BY <1>3, SameTexts
  <1> QED  BY <1>1, <1>2, <1>4

LEMMA PollEndsForms ==
  ASSUME FormInv, PollEnds
  PROVE  FormInv'
  <1> USE FormLeadsAssumption
      DEF PollEnds, FormInv, world, rows, threadVars, pollVars, smsVars
  <1>1. FormTypeOK'  BY PollStages DEF FormTypeOK, HookInv
  <1>2. HookInv'  BY DEF HookInv, FormTypeOK
  <1>3. \A g \in Form : (HookOwes(g)' => HookOwes(g)) /\ (PollOwes(g)' => PollOwes(g))
    BY DEF HookOwes, PollOwes, PollAt, FormTypeOK
  <1>4. NoticeInv' /\ TextInv'  BY <1>3, SameTexts
  <1> QED  BY <1>1, <1>2, <1>4

LEMMA PollFailsForms ==
  ASSUME FormInv, PollFails
  PROVE  FormInv'
  <1> USE FormLeadsAssumption
      DEF PollFails, FormInv, world, rows, threadVars, pollVars, smsVars
  <1>1. FormTypeOK'  BY PollStages DEF FormTypeOK, HookInv
  <1>2. HookInv'  BY DEF HookInv, FormTypeOK
  <1>3. \A g \in Form : (HookOwes(g)' => HookOwes(g)) /\ (PollOwes(g)' => PollOwes(g))
    BY DEF HookOwes, PollOwes, PollAt, FormTypeOK
  <1>4. NoticeInv' /\ TextInv'  BY <1>3, SameTexts
  <1> QED  BY <1>1, <1>2, <1>4

LEMMA ReconnectForms ==
  ASSUME FormInv, Reconnect
  PROVE  FormInv'
  <1> USE FormLeadsAssumption
      DEF Reconnect, FormInv, world, rows, threadVars, pollVars, smsVars
  <1>1. FormTypeOK'
    <2>1. connected' \in BOOLEAN /\ tokenOk' \in BOOLEAN /\ inError' \in BOOLEAN
      BY Zenon DEF FormTypeOK
    <2>2. mishaps' \in 0..MaxMishaps
      BY DEF FormTypeOK
    <2> QED  BY <2>1, <2>2 DEF FormTypeOK
  <1>2. HookInv'  BY DEF HookInv, FormTypeOK
  <1>3. \A g \in Form : (HookOwes(g)' => HookOwes(g)) /\ (PollOwes(g)' => PollOwes(g))
    BY DEF HookOwes, PollOwes, PollAt, FormTypeOK
  <1>4. NoticeInv' /\ TextInv'  BY <1>3, SameTexts
  <1> QED  BY <1>1, <1>2, <1>4

LEMMA DisconnectForms ==
  ASSUME FormInv, Disconnect
  PROVE  FormInv'
  <1> USE FormLeadsAssumption
      DEF Disconnect, FormInv, world, rows, threadVars, pollVars, smsVars
  <1>1. FormTypeOK'
    <2>1. connected' \in BOOLEAN /\ tokenOk' \in BOOLEAN /\ inError' \in BOOLEAN
      BY Zenon DEF FormTypeOK
    <2>2. mishaps' \in 0..MaxMishaps
      BY DEF FormTypeOK
    <2> QED  BY <2>1, <2>2 DEF FormTypeOK
  <1>2. HookInv'  BY DEF HookInv, FormTypeOK
  <1>3. \A g \in Form : (HookOwes(g)' => HookOwes(g)) /\ (PollOwes(g)' => PollOwes(g))
    BY DEF HookOwes, PollOwes, PollAt, FormTypeOK
  <1>4. NoticeInv' /\ TextInv'  BY <1>3, SameTexts
  <1> QED  BY <1>1, <1>2, <1>4

LEMMA TokenDiesForms ==
  ASSUME FormInv, TokenDies
  PROVE  FormInv'
  <1> USE FormLeadsAssumption
      DEF TokenDies, FormInv, world, rows, threadVars, pollVars, smsVars
  <1>1. FormTypeOK'
    <2>1. connected' \in BOOLEAN /\ tokenOk' \in BOOLEAN /\ inError' \in BOOLEAN
      BY Zenon DEF FormTypeOK
    <2>2. mishaps' \in 0..MaxMishaps
      BY DEF FormTypeOK
    <2> QED  BY <2>1, <2>2 DEF FormTypeOK
  <1>2. HookInv'  BY DEF HookInv, FormTypeOK
  <1>3. \A g \in Form : (HookOwes(g)' => HookOwes(g)) /\ (PollOwes(g)' => PollOwes(g))
    BY DEF HookOwes, PollOwes, PollAt, FormTypeOK
  <1>4. NoticeInv' /\ TextInv'  BY <1>3, SameTexts
  <1> QED  BY <1>1, <1>2, <1>4

LEMMA GrowOldForms ==
  ASSUME FormInv, NEW f \in Form, GrowOld(f)
  PROVE  FormInv'
  <1> USE FormLeadsAssumption
      DEF GrowOld, FormInv, world, rows, threadVars, pollVars, smsVars
  <1>1. FormTypeOK'  BY PollStages DEF FormTypeOK, HookInv
  <1>2. HookInv'  BY DEF HookInv, FormTypeOK
  <1>3. \A g \in Form : (HookOwes(g)' => HookOwes(g)) /\ (PollOwes(g)' => PollOwes(g))
    BY DEF HookOwes, PollOwes, PollAt, FormTypeOK
  <1>4. NoticeInv' /\ TextInv'  BY <1>3, SameTexts
  <1> QED  BY <1>1, <1>2, <1>4

LEMMA InsertForms ==
  ASSUME FormInv, NEW f \in Form, Insert(f)
  PROVE  FormInv'
  <1> USE FormLeadsAssumption
      DEF Insert, FormInv, world, rows, threadVars, pollVars, smsVars
  <1>1. FormTypeOK'  BY PollStages DEF FormTypeOK, HookInv
  <1>2. HookInv'  BY DEF HookInv, FormTypeOK
  <1>3. NoticeInv'  BY DEF NoticeInv, FormTypeOK
  <1>4. TextInv'  BY DEF TextInv, HookOwes, PollOwes, QueueOwes, PollAt, FormTypeOK
  <1> QED  BY <1>1, <1>2, <1>3, <1>4

LEMMA AlertForms ==
  ASSUME FormInv, NEW f \in Form, Alert(f)
  PROVE  FormInv'
  <1> USE FormLeadsAssumption
      DEF Alert, FormInv, world, rows, threadVars, pollVars, smsVars, HookReturns, EnqueueAlert
  <1>1. FormTypeOK'  BY PollStages DEF FormTypeOK, HookInv
  <1>2. HookInv'  BY DEF HookInv, FormTypeOK
  <1>3. NoticeInv'  BY DEF NoticeInv, FormTypeOK
  <1>4. TextInv'  BY DEF TextInv, HookOwes, PollOwes, QueueOwes, PollAt, FormTypeOK
  <1> QED  BY <1>1, <1>2, <1>3, <1>4

LEMMA PollInsertForms ==
  ASSUME FormInv, NEW f \in Form, PollInsert(f)
  PROVE  FormInv'
  <1> USE FormLeadsAssumption
      DEF PollInsert, FormInv, world, rows, threadVars, pollVars, smsVars
  <1>1. FormTypeOK'  BY PollStages DEF FormTypeOK, HookInv
  <1>2. HookInv'  BY DEF HookInv, FormTypeOK
  <1>3. NoticeInv'  BY DEF NoticeInv, FormTypeOK
  <1>4. TextInv'
    <2>1. \A g \in Form : /\ HookOwes(g)' <=> HookOwes(g)
                          /\ QueueOwes(g)' <=> QueueOwes(g)
      BY DEF HookOwes, QueueOwes
    <2>2. CASE lead[f] = "none"
      <3>1. \A g \in Form : PollOwes(g)' <=> g = f
        BY <2>2 DEF PollOwes, PollAt
      <3>2. /\ lead' = [lead EXCEPT ![f] = "full"]
            /\ notices' = [notices EXCEPT ![f] = @ + 1] /\ UNCHANGED <<texted, redone>>
        BY <2>2
      <3>3. \A g \in Form : ~PollOwes(g)
        BY DEF PollOwes, PollAt
      <3> HIDE DEF PollInsert
      <3> QED  BY <2>1, <2>2, <3>1, <3>2, <3>3 DEF TextInv, FormTypeOK
    <2>3. CASE lead[f] # "none"
      <3>1. \A g \in Form : ~PollOwes(g)'
        BY <2>3 DEF PollOwes, PollAt
      <3> QED  BY <2>1, <2>3, <3>1 DEF TextInv
    <2> QED  BY <2>2, <2>3
  <1> QED  BY <1>1, <1>2, <1>3, <1>4

LEMMA PollAlertForms ==
  ASSUME FormInv, NEW f \in Form, PollAlert(f)
  PROVE  FormInv'
  <1> USE FormLeadsAssumption
      DEF PollAlert, FormInv, world, rows, threadVars, pollVars, smsVars, EnqueueAlert
  <1>1. FormTypeOK'  BY PollStages DEF FormTypeOK, HookInv
  <1>2. HookInv'  BY DEF HookInv, FormTypeOK
  <1>3. NoticeInv'  BY DEF NoticeInv, FormTypeOK
  <1>4. TextInv'  BY DEF TextInv, HookOwes, PollOwes, QueueOwes, PollAt, FormTypeOK
  <1> QED  BY <1>1, <1>2, <1>3, <1>4

LEMMA LeadSmsForms ==
  ASSUME FormInv, NEW f \in Form, LeadSms(f)
  PROVE  FormInv'
  <1> USE FormLeadsAssumption
      DEF LeadSms, FormInv, world, rows, threadVars, pollVars, smsVars
  <1>1. FormTypeOK'  BY PollStages DEF FormTypeOK, HookInv
  <1>2. HookInv'  BY DEF HookInv, FormTypeOK
  <1>3. NoticeInv'  BY DEF NoticeInv, FormTypeOK
  <1>4. TextInv'  BY DEF TextInv, HookOwes, PollOwes, QueueOwes, PollAt, FormTypeOK
  <1> QED  BY <1>1, <1>2, <1>3, <1>4

LEMMA LeadSmsCrashForms ==
  ASSUME FormInv, NEW f \in Form, LeadSmsCrash(f)
  PROVE  FormInv'
  <1> USE FormLeadsAssumption
      DEF LeadSmsCrash, FormInv, world, rows, threadVars, pollVars, smsVars
  <1>1. FormTypeOK'  BY PollStages DEF FormTypeOK, HookInv
  <1>2. HookInv'  BY DEF HookInv, FormTypeOK
  <1>3. NoticeInv'  BY DEF NoticeInv, FormTypeOK
  <1>4. TextInv'  BY DEF TextInv, HookOwes, PollOwes, QueueOwes, PollAt, FormTypeOK
  <1> QED  BY <1>1, <1>2, <1>3, <1>4

-----------------------------------------------------------------------------
LEMMA NextForms == FormInv /\ [FormNext]_formVars => FormInv'
  <1> SUFFICES ASSUME FormInv, [FormNext]_formVars  PROVE FormInv'
    OBVIOUS
  <1>1. CASE UNCHANGED formVars
    BY <1>1 DEF formVars, FormInv, FormTypeOK, HookInv, NoticeInv, TextInv, HookOwes, PollOwes, QueueOwes
  <1>2. CASE FormNext
    BY <1>2, SubmitForms, DeliverForms, FetchForms, CaptureForms,
       ThreadFailsForms, StartPollForms, PollFormForms, PollEndsForms,
       PollFailsForms, ReconnectForms, DisconnectForms, TokenDiesForms,
       GrowOldForms, InsertForms, AlertForms, PollInsertForms, PollAlertForms,
       LeadSmsForms, LeadSmsCrashForms
    DEF FormNext, Hook, Poll
  <1> QED  BY <1>1, <1>2

(* Deliveries, leads, threads, the poll and the queue are of their kinds;  *)
(* only recorded deliveries are answered and only submitted forms          *)
(* recorded.                                                               *)
THEOREM FormsTypeCorrect == FormSpec => []FormTypeOK
  BY InitForms, NextForms, PTL DEF FormSpec, FormInv

(* A form becomes one lead, one notification and one text at most, though  *)
(* the webhook, its redeliveries and the poll race for it                  *)
(* (core/webhooks.py:95); only a task that was not acknowledged is sent    *)
(* again.                                                                  *)
THEOREM FormsBecomeOneLead == FormSpec => []OneLeadPerForm
  <1>1. FormInv => OneLeadPerForm
    <2> SUFFICES ASSUME FormInv, NEW f \in Form
                 PROVE  /\ notices[f] = IF lead[f] = "none" THEN 0 ELSE 1
                        /\ texted[f] <= notices[f] + redone[f]
      BY DEF OneLeadPerForm
    <2>1. notices[f] = IF lead[f] = "none" THEN 0 ELSE 1
      BY DEF FormInv, NoticeInv
    <2>2. texted[f] <= redone[f] + 1 /\ (lead[f] = "none" => texted[f] <= redone[f])
      BY DEF FormInv, TextInv
    <2>3. texted[f] \in Nat /\ redone[f] \in Nat
      BY DEF FormInv, FormTypeOK
    <2> QED  BY <2>1, <2>2, <2>3
  <1> QED  BY <1>1, InitForms, NextForms, PTL DEF FormSpec
=============================================================================
