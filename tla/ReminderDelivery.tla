-------------------------- MODULE ReminderDelivery --------------------------
(***************************************************************************)
(* One timed occurrence of a note's reminder: the durable claims and the   *)
(* browser notifications of src/notification_delivery_authority.py, the    *)
(* dispatchers that race for them (dispatch_reminder in                    *)
(* routes/note_routes.py, called by the scanner and by every open tab),    *)
(* the client's acknowledgement (src/task_scheduler.py) and the edits of   *)
(* the note that cancel or rearm the reminder (src/note_reminder_state.py).*)
(*                                                                         *)
(* Each function of the authority is one transaction under a lock on the   *)
(* owner's row, so each is one step; a dispatch, an acknowledgement and an *)
(* edit are several.  Nothing keeps two edits of one note apart: the routes *)
(* run in a thread pool and on every replica.                              *)
(*                                                                         *)
(* Abstracted: the channel the owner selected is the browser or "external" *)
(* (email, webhook, ntfy) for as long as the occurrence is due; a retry is *)
(* due at once; a notification's id is the token of the claim it was first *)
(* queued under.  Left out: quiet hours                                    *)
(* and disabled topics, the per-chat claims of Telegram, and the JSON      *)
(* cache of recent pings, which only suppresses what was sent already.     *)
(***************************************************************************)
EXTENDS Naturals

CONSTANTS
  Dispatcher,  \* concurrent calls of dispatch_reminder
  Editor,      \* requests that edit the note at a time
  Caller,      \* who sends them: the note routes, the agent's note tool
  MaxEdits,    \* bound on the edits
  MaxFaults    \* bound on crashes, failed sends and slow dispatchers

ASSUME ReminderDeliveryAssumption ==
  /\ Caller \subseteq {"route", "tool"}
  /\ MaxEdits \in Nat /\ MaxFaults \in Nat

VARIABLES
  channel, \* the channel selected
  tomb,    \* is there a ReminderCancellation, in the SQL tables and in the old files
  claim,   \* the ReminderDeliveryClaim of that channel
  outbox,  \* the BrowserNotification: the reminder itself, or the mirror of a send
  who,     \* what each dispatcher is about to do
  acker,   \* an acknowledgement in progress
  editor,  \* the edits in progress
  torn,    \* has an edit been cut short since the last one that ended (history)
  intent,  \* what the edits ask for: "quiet" from the end of a cancel until a
           \* rearm begins, "mixed" after a cancel and a rearm at once (history)
  claims,  \* claims so far: a token is the number of its claim
  edits,   \* edits so far
  sends,   \* messages that left on the external channel (history)
  rearmed, \* rearming transactions so far (history)
  faults,  \* faults so far
  late     \* has a notification been queued under a claim no longer held (history)

vars == <<channel, tomb, claim, outbox, who, acker, editor, torn, intent, claims, edits, sends,
          rearmed, faults, late>>

Store  == {"sql", "legacy"}

Claim == [status : {"none", "claimed", "awaiting", "failed", "delivered", "cancelled"},
          token : Nat, lapsed : BOOLEAN]
Notice == [state : {"none", "pending", "acked"}, id : Nat, token : Nat]
Doing == [phase : {"idle", "claimed", "sending", "sent", "queueing", "closing"},
          token : Nat, told : BOOLEAN, queued : BOOLEAN]
\* alone: no rearm has been in progress since this cancel began (history).
Edit   == [phase : {"idle", "cancelling", "rearming"}, by : {"route", "tool"}, alone : BOOLEAN]
Acking == [phase : {"idle", "read", "safe"}, id : Nat, token : Nat]

NoClaim  == [status |-> "none", token |-> 0, lapsed |-> FALSE]
NoNotice == [state |-> "none", id |-> 0, token |-> 0]
Idle     == [phase |-> "idle", token |-> 0, told |-> FALSE, queued |-> FALSE]
NoEdit   == [phase |-> "idle", by |-> "route", alone |-> FALSE]
NoAck    == [phase |-> "idle", id |-> 0, token |-> 0]

TypeOK ==
  /\ channel \in {"browser", "external"}
  /\ tomb \in [Store -> BOOLEAN] /\ claim \in Claim /\ outbox \in Notice
  /\ who \in [Dispatcher -> Doing] /\ acker \in Acking
  /\ editor \in [Editor -> Edit] /\ torn \in BOOLEAN /\ intent \in {"ring", "quiet", "mixed"}
  /\ claims \in Nat /\ edits \in 0 .. MaxEdits
  /\ sends \in Nat /\ rearmed \in Nat /\ faults \in 0 .. MaxFaults /\ late \in BOOLEAN

Init ==
  /\ channel \in {"browser", "external"}
  /\ tomb = [s \in Store |-> FALSE] /\ claim = NoClaim /\ outbox = NoNotice
  /\ who = [d \in Dispatcher |-> Idle] /\ acker = NoAck
  /\ editor = [e \in Editor |-> NoEdit] /\ torn = FALSE /\ intent = "ring"
  /\ claims = 0 /\ edits = 0 /\ sends = 0 /\ rearmed = 0
  /\ faults = 0 /\ late = FALSE

-----------------------------------------------------------------------------
(* A dispatch                                                              *)

\* claim_reminder's refusals.  Mutants: a delivered occurrence, or one that
\* another dispatcher is delivering, is claimed again; a tombstone is not looked at.
RefusedUndelivered ==
  tomb["sql"] \/ claim.status = "awaiting" \/ (claim.status = "claimed" /\ ~claim.lapsed)
RefusedDead == tomb["sql"] \/ claim.status \in {"claimed", "awaiting", "delivered"}
Refused ==
  \/ tomb["sql"]
  \/ claim.status \in {"delivered", "awaiting"}
  \/ claim.status = "claimed" /\ ~claim.lapsed

ClaimReminder(d) ==
  /\ who[d].phase = "idle"
  /\ ~Refused
  /\ claim' = [status |-> "claimed", token |-> claims + 1, lapsed |-> FALSE]
  /\ who' = [who EXCEPT ![d] = [Idle EXCEPT !.phase = "claimed", !.token = claims + 1]]
  /\ claims' = claims + 1
  /\ UNCHANGED <<channel, tomb, outbox, acker, editor, torn, intent, edits, sends, rearmed,
                 faults, late>>

\* _claimed_row
Holds(s, statuses) == claim.status \in statuses /\ claim.token = s.token

\* The last _claim_still_active before the message leaves, or before the
\* notification is queued; a browser reminder is only queued.
Check(d) ==
  LET s == who[d] IN
  /\ s.phase \in {"claimed", "sent"}
  /\ who' = [who EXCEPT ![d].phase =
       IF ~Holds(s, {"claimed"}) THEN "closing"
       ELSE IF s.phase = "claimed" /\ channel = "external" THEN "sending" ELSE "queueing"]
  /\ UNCHANGED <<channel, tomb, claim, outbox, acker, editor, torn, intent, claims, edits,
                 sends, rearmed, faults, late>>

\* The message leaves.  An error may come before or after it was accepted.
Send(d) ==
  /\ who[d].phase = "sending"
  /\ \/ /\ who' = [who EXCEPT ![d].phase = "sent", ![d].told = TRUE]
        /\ sends' = sends + 1 /\ UNCHANGED faults
     \/ /\ faults < MaxFaults /\ faults' = faults + 1
        /\ who' = [who EXCEPT ![d].phase = "sent"]
        /\ sends' \in {sends, sends + 1}
  /\ UNCHANGED <<channel, tomb, claim, outbox, acker, editor, torn, intent, claims, edits,
                 rearmed, late>>

\* enqueue_browser: a pending notification of the same occurrence and role is
\* linked to the new claim, an acknowledged one is left.  Mutants: it stays
\* linked to the old claim; the tombstone is not looked at.
LinkedOnce(n, s) ==
  LET link == IF channel = "browser" THEN s.token ELSE 0 IN
  IF n.state = "none" THEN [state |-> "pending", id |-> s.token, token |-> link] ELSE n
Linked(n, s) ==
  LET link == IF channel = "browser" THEN s.token ELSE 0 IN
  CASE n.state = "none" -> [state |-> "pending", id |-> s.token, token |-> link]
    [] n.state = "pending" /\ link # 0 -> [n EXCEPT !.token = link]
    [] OTHER -> n

EnqueuedBlind(s) == Linked(outbox, s)
Enqueued(s)      == IF tomb["sql"] THEN outbox ELSE Linked(outbox, s)

EnqueueBrowser(d) ==
  LET s == who[d] IN
  /\ s.phase = "queueing"
  /\ \/ /\ outbox' = Enqueued(s)
        /\ who' = [who EXCEPT ![d].phase = "closing", ![d].queued = ~tomb["sql"]]
        /\ late' = (late \/ (channel = "browser" /\ ~Holds(s, {"claimed"})))
        /\ UNCHANGED faults
     \/ /\ faults < MaxFaults /\ faults' = faults + 1
        /\ who' = [who EXCEPT ![d].phase = "closing"]
        /\ UNCHANGED <<outbox, late>>
  /\ UNCHANGED <<channel, tomb, claim, acker, editor, torn, intent, claims, edits, sends, rearmed>>

\* await_reminder_browser_ack, acknowledge_reminder or fail_reminder.
Closed(c, s) ==
  [c EXCEPT !.status = IF channel = "browser" /\ s.queued THEN "awaiting"
                       ELSE IF s.told THEN "delivered" ELSE "failed"]

Finish(d) ==
  LET s == who[d] IN
  /\ s.phase = "closing"
  /\ who' = [who EXCEPT ![d] = Idle]
  /\ claim' = IF Holds(s, {"claimed"}) THEN Closed(claim, s) ELSE claim
  /\ UNCHANGED <<channel, tomb, outbox, acker, editor, torn, intent, claims, edits, sends,
                 rearmed, faults, late>>

\* The process dies in the middle of a dispatch.
Crash(d) ==
  /\ who[d].phase # "idle" /\ faults < MaxFaults
  /\ who' = [who EXCEPT ![d] = Idle] /\ faults' = faults + 1
  /\ UNCHANGED <<channel, tomb, claim, outbox, acker, editor, torn, intent, claims, edits,
                 sends, rearmed, late>>

\* Five minutes pass.  A dispatcher that takes longer is a fault.
Lapse ==
  LET alive == \E d \in Dispatcher : who[d].phase # "idle" /\ who[d].token = claim.token IN
  /\ claim.status = "claimed" /\ ~claim.lapsed
  /\ alive => faults < MaxFaults
  /\ claim' = [claim EXCEPT !.lapsed = TRUE]
  /\ faults' = IF alive THEN faults + 1 ELSE faults
  /\ UNCHANGED <<channel, tomb, outbox, who, acker, editor, torn, intent, claims, edits, sends,
                 rearmed, late>>

-----------------------------------------------------------------------------
(* The client shows a notification and acknowledges it                     *)

\* browser_ack_candidates
AckRead ==
  /\ acker.phase = "idle"
  /\ outbox.state = "pending"
  /\ acker' = [phase |-> "read", id |-> outbox.id, token |-> outbox.token]
  /\ UNCHANGED <<channel, tomb, claim, outbox, who, editor, torn, intent, claims, edits, sends,
                 rearmed, faults, late>>

\* acknowledge_reminder says whether the claim is delivered now.  Mutant: so
\* it is whatever the claim.
AcknowledgedAnyway(a) == TRUE
Acknowledged(a) ==
  a.token = 0 \/ Holds(a, {"claimed", "awaiting"}) \/ claim.status = "delivered"

AckClaim ==
  /\ acker.phase = "read"
  /\ claim' = IF acker.token # 0 /\ Holds(acker, {"claimed", "awaiting"})
              THEN [claim EXCEPT !.status = "delivered"] ELSE claim
  /\ acker' = IF Acknowledged(acker) THEN [acker EXCEPT !.phase = "safe"] ELSE NoAck
  /\ UNCHANGED <<channel, tomb, outbox, who, editor, torn, intent, claims, edits, sends,
                 rearmed, faults, late>>

\* acknowledge_browser
AckRow ==
  /\ acker.phase = "safe"
  /\ acker' = NoAck
  /\ outbox' = IF outbox.state = "pending" /\ outbox.id = acker.id
               THEN [outbox EXCEPT !.state = "acked"] ELSE outbox
  /\ UNCHANGED <<channel, tomb, claim, who, editor, torn, intent, claims, edits, sends,
                 rearmed, faults, late>>

-----------------------------------------------------------------------------
(* Edits of the note                                                       *)

\* _paths: only who passes the scheduler reaches the SQL tables.
Reached(by) == IF by = "route" THEN "sql" ELSE "legacy"

Dropped(n) == IF n.state = "pending" THEN NoNotice ELSE n
CalledOff(c) == IF c.status \in {"claimed", "awaiting", "failed"}
                THEN [NoClaim EXCEPT !.status = "cancelled"] ELSE c
Rearmed(c)   == IF c.status \in {"claimed", "awaiting", "failed", "cancelled"} THEN NoClaim ELSE c

Cancelling == {e \in Editor : editor[e].phase = "cancelling"}
Rearming   == {e \in Editor : editor[e].phase = "rearming"}

\* cancel_note_reminder: cancel_browser, then cancel_reminders.
CancelOutbox(e) ==
  /\ editor[e].phase = "idle" /\ edits < MaxEdits
  /\ \E by \in Caller :
       /\ editor' = [editor EXCEPT ![e] =
                       [phase |-> "cancelling", by |-> by, alone |-> Rearming = {}]]
       /\ tomb' = [tomb EXCEPT ![Reached(by)] = TRUE]
       /\ outbox' = IF Reached(by) = "sql" THEN Dropped(outbox) ELSE outbox
  /\ intent' = IF Rearming = {} THEN intent ELSE "mixed"
  /\ edits' = edits + 1
  /\ UNCHANGED <<channel, claim, who, acker, torn, claims, sends, rearmed, faults, late>>

CancelClaims(e) ==
  /\ editor[e].phase = "cancelling"
  /\ editor' = [editor EXCEPT ![e] = NoEdit] /\ torn' = FALSE
  /\ intent' = IF editor[e].alone THEN "quiet" ELSE intent
  /\ tomb' = [tomb EXCEPT ![Reached(editor[e].by)] = TRUE]
  /\ claim' = IF Reached(editor[e].by) = "sql" THEN CalledOff(claim) ELSE claim
  /\ UNCHANGED <<channel, outbox, who, acker, claims, edits, sends, rearmed, faults, late>>

\* rearm_note_reminder: rearm_browser, then rearm_reminders.
RearmOutbox(e) ==
  /\ editor[e].phase = "idle" /\ edits < MaxEdits
  /\ \E by \in Caller :
       /\ editor' = [f \in Editor |->
                       IF f = e THEN [NoEdit EXCEPT !.phase = "rearming", !.by = by]
                       ELSE [editor[f] EXCEPT !.alone = FALSE]]
       /\ tomb' = [tomb EXCEPT ![Reached(by)] = FALSE]
  /\ intent' = IF Cancelling = {} THEN "ring" ELSE "mixed"
  /\ edits' = edits + 1 /\ rearmed' = rearmed + 1
  /\ UNCHANGED <<channel, claim, outbox, who, acker, torn, claims, sends, faults, late>>

RearmClaims(e) ==
  /\ editor[e].phase = "rearming"
  /\ editor' = [editor EXCEPT ![e] = NoEdit] /\ torn' = FALSE
  /\ tomb' = [tomb EXCEPT ![Reached(editor[e].by)] = FALSE]
  /\ claim' = IF Reached(editor[e].by) = "sql" THEN Rearmed(claim) ELSE claim
  /\ rearmed' = rearmed + 1
  /\ UNCHANGED <<channel, outbox, who, acker, intent, claims, edits, sends, faults, late>>

\* The process dies, or the second transaction fails.
Tear(e) ==
  /\ editor[e].phase # "idle" /\ faults < MaxFaults
  /\ editor' = [editor EXCEPT ![e] = NoEdit] /\ torn' = TRUE /\ faults' = faults + 1
  /\ UNCHANGED <<channel, tomb, claim, outbox, who, acker, intent, claims, edits, sends,
                 rearmed, late>>

Dispatch(d)   == Check(d) \/ Send(d) \/ EnqueueBrowser(d) \/ Finish(d)
Acknowledging == AckRead \/ AckClaim \/ AckRow
Editing       == \E e \in Editor : \/ CancelOutbox(e) \/ CancelClaims(e)
                                   \/ RearmOutbox(e) \/ RearmClaims(e) \/ Tear(e)
Next ==
  \/ \E d \in Dispatcher : ClaimReminder(d) \/ Dispatch(d) \/ Crash(d)
  \/ Lapse \/ Acknowledging \/ Editing

\* The scanner runs every few minutes, a dispatch goes on unless it dies, time
\* passes, and some client is open.  Edits and faults owe nothing.
Fairness ==
  /\ WF_vars(\E d \in Dispatcher : ClaimReminder(d))
  /\ \A d \in Dispatcher : WF_vars(Dispatch(d))
  /\ WF_vars(Lapse)
  /\ WF_vars(Acknowledging)

Spec     == Init /\ [][Next]_vars
FairSpec == Spec /\ Fairness

-----------------------------------------------------------------------------
(* Properties                                                              *)

\* The promise of Alarm.  A message that left, or a notification that a client
\* is about to acknowledge, counts for the claim it belongs to, and only while
\* that claim can still be delivered.
Quiet == intent = "quiet"
Aloft == {d \in Dispatcher : who[d].phase = "sending"}
Fresh == {d \in Aloft : Holds(who[d], {"claimed"})}
Told(d) == who[d].phase # "idle" /\ who[d].told /\ Holds(who[d], {"claimed"})
Reading == acker.phase = "read" /\ Holds(acker, {"claimed", "awaiting"})
Heard == Reading \/ \E d \in Dispatcher : Told(d)
Paid  == 1 + faults + rearmed
Done  == claim.status = "delivered"

Abstract == INSTANCE Alarm
  WITH Ringer <- Dispatcher, quiet <- Quiet, aloft <- Aloft, fresh <- Fresh, heard <- Heard,
       rung <- sends, paid <- Paid, done <- Done

\* Dispatchers, clients and edits of the note together are one alarm, when every
\* edit passes through the routes.
ImplementsAlarm == Abstract!Spec

\* What is cancelled stays quiet: from the end of a cancel until a rearm, no
\* claim can be delivered and no notification waits to be shown, whatever the
\* dispatchers, the client and other cancels were in the middle of.  The
\* exception: a rearm that ran at the same time as the cancel.
CancelHolds ==
  intent = "quiet" =>
    claim.status \notin {"claimed", "awaiting", "failed"} /\ outbox.state # "pending"

\* An acknowledged notification means a delivered reminder: a later dispatch
\* finds no acknowledged row that would swallow its own.
AckIsDelivered ==
  (channel = "browser" /\ outbox.state = "acked") => claim.status = "delivered"

\* No edit is half done.
Settled == ~torn /\ \A e \in Editor : editor[e].phase = "idle"

\* A claim that waits for the client has a notification the client can
\* acknowledge it with, unless a dispatcher queued one after its claim was
\* taken over: enqueue_browser links the row to whoever comes last.
Acknowledgeable ==
  (claim.status = "awaiting" /\ Settled /\ ~late) =>
    outbox.state = "pending" /\ outbox.token = claim.token

\* Every message after the first is paid for: by a crash, a send reported as
\* failed, a lapsed lease, or a transaction that rearmed the reminder.
SentOnce == sends <= 1 + faults + rearmed

\* A reminder that stays wanted is delivered, whatever crashes or fails, unless
\* a dispatcher queued under a claim it had lost, or a cancel and a rearm ran at
\* the same time.
Rings ==
  <>[](intent = "ring" /\ Settled /\ ~late)
    => <>(claim.status = "delivered")
=============================================================================
