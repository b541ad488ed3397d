----------------------- MODULE ReminderDeliveryProofs -----------------------
(***************************************************************************)
(* Proofs about ReminderDelivery: for any set of dispatchers and whatever  *)
(* the bounds, an acknowledgement means a delivery and every message after *)
(* the first is paid for; and, when every edit of a note passes through    *)
(* the routes, a reminder cancelled beside no rearm stays quiet, however   *)
(* many requests edit the note at a time, and a claim that waits for       *)
(* the client can be acknowledged.                                         *)
(***************************************************************************)
EXTENDS ReminderDelivery, FiniteSets, FiniteSetTheorems, TLAPS

-----------------------------------------------------------------------------
(* Types                                                                   *)

LEMMA DoingWith ==
  ASSUME TypeOK, NEW d \in Dispatcher, NEW s \in Doing
  PROVE  [who EXCEPT ![d] = s] \in [Dispatcher -> Doing]
  BY DEF TypeOK

LEMMA IdleType == Idle \in Doing
  BY DEF Idle, Doing

LEMMA ClaimedType ==
  ASSUME NEW t \in Nat
  PROVE  [Idle EXCEPT !.phase = "claimed", !.token = t] \in Doing
  BY DEF Idle, Doing

LEMMA EnqueuedType ==
  ASSUME TypeOK, NEW s \in Doing PROVE Enqueued(s) \in Notice
  BY DEF TypeOK, Enqueued, Linked, Doing, Notice

LEMMA ClosedType ==
  ASSUME NEW c \in Claim, NEW s PROVE Closed(c, s) \in Claim
  BY DEF Closed, Claim

LEMMA TombWith ==
  ASSUME TypeOK, NEW by, NEW b \in BOOLEAN
  PROVE  [tomb EXCEPT ![Reached(by)] = b] \in [Store -> BOOLEAN]
  BY DEF TypeOK, Store, Reached

LEMMA EditorWith ==
  ASSUME TypeOK, NEW e \in Editor, NEW s \in Edit
  PROVE  [editor EXCEPT ![e] = s] \in [Editor -> Edit]
  BY DEF TypeOK

LEMMA NoEditType == NoEdit \in Edit
  BY DEF NoEdit, Edit

LEMMA EditedType ==
  ASSUME NEW c \in Claim PROVE CalledOff(c) \in Claim /\ Rearmed(c) \in Claim
  BY DEF CalledOff, Rearmed, NoClaim, Claim

\* What EnqueueBrowser does to the dispatcher.
LEMMA Queueing ==
  ASSUME TypeOK, NEW d \in Dispatcher, EnqueueBrowser(d)
  PROVE  /\ who' \in [Dispatcher -> Doing]
         /\ \A f \in Dispatcher : f # d => who'[f] = who[f]
         /\ who'[d].phase = "closing" /\ who'[d].token = who[d].token
         /\ \/ who'[d].queued = who[d].queued /\ outbox' = outbox /\ late' = late
            \/ who'[d].queued = ~tomb["sql"] /\ outbox' = Enqueued(who[d])
               /\ late' = (late \/ (channel = "browser" /\ ~Holds(who[d], {"claimed"})))
<1> DEFINE queued == ~tomb["sql"]
<1>1. queued \in BOOLEAN
  OBVIOUS
<1>2. CASE /\ outbox' = Enqueued(who[d])
           /\ who' = [who EXCEPT ![d].phase = "closing", ![d].queued = queued]
           /\ late' = (late \/ (channel = "browser" /\ ~Holds(who[d], {"claimed"})))
  <2> HIDE DEF queued
  <2>1. /\ who' \in [Dispatcher -> Doing]
        /\ \A f \in Dispatcher : f # d => who'[f] = who[f]
        /\ who'[d].phase = "closing" /\ who'[d].token = who[d].token
        /\ who'[d].queued = queued
    BY <1>1, <1>2 DEF TypeOK, Doing
  <2> QED
    BY Zenon, <1>2, <2>1 DEF queued
<1>3. CASE who' = [who EXCEPT ![d].phase = "closing"] /\ UNCHANGED <<outbox, late>>
  BY <1>3 DEF TypeOK, Doing
<1> QED
  BY Zenon, <1>2, <1>3 DEF EnqueueBrowser

\* Every step keeps the types.
LEMMA TypeStep == TypeOK /\ [Next]_vars => TypeOK'
<1> SUFFICES ASSUME TypeOK, [Next]_vars PROVE TypeOK'
  OBVIOUS
<1> USE ReminderDeliveryAssumption
<1>1. ASSUME NEW d \in Dispatcher, ClaimReminder(d) PROVE TypeOK'
  <2>1. [Idle EXCEPT !.phase = "claimed", !.token = claims + 1] \in Doing
    <3>1. claims + 1 \in Nat
      BY DEF TypeOK
    <3> QED
      BY <3>1, ClaimedType
  <2>2. who' \in [Dispatcher -> Doing]
    BY Zenon, <1>1, <2>1, DoingWith DEF ClaimReminder
  <2>3. claim' \in Claim /\ claims' \in Nat
    BY <1>1 DEF ClaimReminder, TypeOK, Claim
  <2> QED
    BY <1>1, <2>2, <2>3 DEF ClaimReminder, TypeOK
<1>2. ASSUME NEW d \in Dispatcher, Check(d) PROVE TypeOK'
  BY <1>2 DEF Check, TypeOK, Doing
<1>3. ASSUME NEW d \in Dispatcher, Send(d) PROVE TypeOK'
  <2>1. who' \in [Dispatcher -> Doing]
    BY <1>3 DEF Send, TypeOK, Doing
  <2>2. sends' \in Nat /\ faults' \in 0 .. MaxFaults
    BY <1>3 DEF Send, TypeOK
  <2> QED
    BY <1>3, <2>1, <2>2 DEF Send, TypeOK
<1>4. ASSUME NEW d \in Dispatcher, EnqueueBrowser(d) PROVE TypeOK'
  <2>1. who' \in [Dispatcher -> Doing] /\ outbox' \in Notice
    BY <1>4, Queueing, EnqueuedType DEF TypeOK
  <2>2. faults' \in 0 .. MaxFaults
    BY <1>4 DEF EnqueueBrowser, TypeOK
  <2>3. late' \in BOOLEAN
    BY Zenon, <1>4 DEF EnqueueBrowser, TypeOK
  <2>4. UNCHANGED <<channel, tomb, claim, acker, editor, torn, intent, claims, edits, sends, rearmed>>
    BY <1>4 DEF EnqueueBrowser
  <2> QED
    BY Zenon, <2>1, <2>2, <2>3, <2>4 DEF TypeOK
<1>5. ASSUME NEW d \in Dispatcher, Finish(d) PROVE TypeOK'
  BY <1>5, ClosedType DEF Finish, TypeOK, Doing, Idle
<1>6. ASSUME NEW d \in Dispatcher, Crash(d) PROVE TypeOK'
  <2>1. who' \in [Dispatcher -> Doing]
    BY <1>6, IdleType, DoingWith DEF Crash
  <2> QED
    BY <1>6, <2>1 DEF Crash, TypeOK
<1>7. CASE Lapse
  <2>1. claim' \in Claim
    BY <1>7 DEF Lapse, TypeOK, Claim
  <2>2. faults' = faults \/ (faults < MaxFaults /\ faults' = faults + 1)
    BY Zenon, <1>7 DEF Lapse
  <2>3. faults' \in 0 .. MaxFaults
    BY <2>2 DEF TypeOK
  <2> QED
    BY Zenon, <1>7, <2>1, <2>3 DEF Lapse, TypeOK
<1>8. CASE AckRead
  BY <1>8 DEF AckRead, TypeOK, Acking, Notice
<1>9. CASE AckClaim
  BY <1>9 DEF AckClaim, TypeOK, Acking, Claim, NoAck
<1>10. CASE AckRow
  BY <1>10 DEF AckRow, TypeOK, Acking, Notice, NoAck
<1>11. ASSUME NEW e \in Editor, CancelOutbox(e) PROVE TypeOK'
  <2>1. tomb' \in [Store -> BOOLEAN] /\ editor' \in [Editor -> Edit]
    <3> DEFINE alone == Rearming = {}
    <3>1. alone \in BOOLEAN
      OBVIOUS
    <3>2. PICK by \in Caller :
            /\ editor' = [editor EXCEPT ![e] =
                            [phase |-> "cancelling", by |-> by, alone |-> alone]]
            /\ tomb' = [tomb EXCEPT ![Reached(by)] = TRUE]
      BY Zenon, <1>11 DEF CancelOutbox
    <3> HIDE DEF alone
    <3>3. [phase |-> "cancelling", by |-> by, alone |-> alone] \in Edit
      BY <3>1 DEF Edit
    <3> QED
      BY <3>2, <3>3, TombWith, EditorWith
  <2>2. outbox' \in Notice /\ edits' \in 0 .. MaxEdits /\ intent' \in {"ring", "quiet", "mixed"}
    BY <1>11 DEF CancelOutbox, Dropped, NoNotice, Notice, TypeOK
  <2> QED
    BY <1>11, <2>1, <2>2 DEF CancelOutbox, TypeOK
<1>12. ASSUME NEW e \in Editor, CancelClaims(e) PROVE TypeOK'
  <2>1. editor' \in [Editor -> Edit] /\ tomb' \in [Store -> BOOLEAN] /\ claim' \in Claim
    BY <1>12, TombWith, EditedType, EditorWith, NoEditType DEF CancelClaims, TypeOK
  <2> QED
    BY <1>12, <2>1 DEF CancelClaims, TypeOK
<1>13. ASSUME NEW e \in Editor, RearmOutbox(e) PROVE TypeOK'
  <2>1. PICK by \in Caller :
          /\ editor' = [f \in Editor |->
                          IF f = e THEN [NoEdit EXCEPT !.phase = "rearming", !.by = by]
                          ELSE [editor[f] EXCEPT !.alone = FALSE]]
          /\ tomb' = [tomb EXCEPT ![Reached(by)] = FALSE]
    BY <1>13 DEF RearmOutbox
  <2>2. [NoEdit EXCEPT !.phase = "rearming", !.by = by] \in Edit
    BY DEF NoEdit, Edit
  <2>3. \A f \in Editor : [editor[f] EXCEPT !.alone = FALSE] \in Edit
    BY DEF TypeOK, Edit
  <2>4. editor' \in [Editor -> Edit] /\ tomb' \in [Store -> BOOLEAN]
    BY <2>1, <2>2, <2>3, TombWith
  <2> QED
    BY <1>13, <2>4 DEF RearmOutbox, TypeOK
<1>14. ASSUME NEW e \in Editor, RearmClaims(e) PROVE TypeOK'
  <2>1. editor' \in [Editor -> Edit] /\ tomb' \in [Store -> BOOLEAN] /\ claim' \in Claim
    BY <1>14, TombWith, EditedType, EditorWith, NoEditType DEF RearmClaims, TypeOK
  <2>2. torn' = FALSE
    BY <1>14 DEF RearmClaims
  <2>3. rearmed' \in Nat
    <3>1. rearmed' = rearmed + 1
      BY <1>14 DEF RearmClaims
    <3>2. rearmed \in Nat
      BY DEF TypeOK
    <3> QED
      BY <3>1, <3>2
  <2>4. UNCHANGED <<channel, outbox, who, acker, intent, claims, edits, sends, faults, late>>
    BY <1>14 DEF RearmClaims
  <2> QED
    BY <2>1, <2>2, <2>3, <2>4 DEF TypeOK
<1>15. ASSUME NEW e \in Editor, Tear(e) PROVE TypeOK'
  <2>1. editor' \in [Editor -> Edit]
    BY <1>15, EditorWith, NoEditType DEF Tear
  <2> QED
    BY <1>15, <2>1 DEF Tear, TypeOK
<1>16. CASE UNCHANGED vars
  BY <1>16 DEF vars, TypeOK
<1> QED
  BY <1>1, <1>2, <1>3, <1>4, <1>5, <1>6, <1>7, <1>8, <1>9, <1>10, <1>11, <1>12, <1>13,
     <1>14, <1>15, <1>16 DEF Next, Dispatch, Acknowledging, Editing

-----------------------------------------------------------------------------
(* An acknowledgement means a delivery                                     *)

Tokens ==
  /\ claim.token <= claims
  /\ \A d \in Dispatcher : who[d].phase # "idle" => who[d].token \in 1 .. claims

\* In the browser's channel every notification has a claim, and so has what a
\* client is about to acknowledge; once the claim is safe it stays delivered.
RowHasClaim   == channel = "browser" /\ outbox.state = "pending" => outbox.token # 0
AckHasClaim   == channel = "browser" /\ acker.phase = "read" => acker.token # 0
SafeDelivered == channel = "browser" /\ acker.phase = "safe" => claim.status = "delivered"

Deliveries == Tokens /\ RowHasClaim /\ AckHasClaim /\ SafeDelivered /\ AckIsDelivered

\* What an edit may do to the claim; it leaves dispatchers and clients alone.
LEMMA EditLeaves ==
  ASSUME Editing
  PROVE  /\ claim' \in {claim, CalledOff(claim), Rearmed(claim)}
         /\ UNCHANGED <<channel, who, acker, claims, sends, late>>
<1>1. ASSUME NEW e \in Editor, CancelOutbox(e) \/ CancelClaims(e)
      PROVE  /\ claim' \in {claim, CalledOff(claim), Rearmed(claim)}
             /\ UNCHANGED <<channel, who, acker, claims, sends, late>>
  BY <1>1 DEF CancelOutbox, CancelClaims
<1>2. ASSUME NEW e \in Editor, RearmOutbox(e) \/ RearmClaims(e) \/ Tear(e)
      PROVE  /\ claim' \in {claim, CalledOff(claim), Rearmed(claim)}
             /\ UNCHANGED <<channel, who, acker, claims, sends, late>>
  BY <1>2 DEF RearmOutbox, RearmClaims, Tear
<1> QED
  BY <1>1, <1>2 DEF Editing

\* No step takes a delivery back.
LEMMA StaysDelivered ==
  ASSUME TypeOK, [Next]_vars, claim.status = "delivered" PROVE claim' = claim
<1>1. ASSUME NEW d \in Dispatcher, ClaimReminder(d) PROVE FALSE
  BY <1>1 DEF ClaimReminder, Refused
<1>2. ASSUME NEW d \in Dispatcher, Check(d) \/ Send(d) \/ EnqueueBrowser(d) \/ Finish(d) \/ Crash(d)
      PROVE  claim' = claim
  BY <1>2 DEF Check, Send, EnqueueBrowser, Finish, Crash, Holds
<1>3. ASSUME Lapse \/ AckRead \/ AckClaim \/ AckRow PROVE claim' = claim
  BY <1>3 DEF Lapse, AckRead, AckClaim, AckRow, Holds
<1>4. ASSUME Editing \/ UNCHANGED vars PROVE claim' = claim
  BY <1>4, EditLeaves DEF vars, CalledOff, Rearmed
<1> QED
  BY <1>1, <1>2, <1>3, <1>4 DEF Next, Dispatch, Acknowledging

\* The tokens handed out are below the count of claims.
LEMMA TokensStep == TypeOK /\ Tokens /\ [Next]_vars => Tokens'
<1> SUFFICES ASSUME TypeOK, Tokens, [Next]_vars PROVE Tokens'
  OBVIOUS
<1>1. ASSUME NEW d \in Dispatcher, ClaimReminder(d) PROVE Tokens'
  <2>1. /\ claims' = claims + 1 /\ claim'.token = claims + 1 /\ who'[d].token = claims + 1
        /\ \A f \in Dispatcher : f # d => who'[f] = who[f]
    BY <1>1 DEF ClaimReminder, TypeOK, Idle
  <2> QED
    BY <2>1 DEF TypeOK, Tokens
<1>2. ASSUME NEW d \in Dispatcher, Check(d) PROVE Tokens'
  BY <1>2 DEF Check, TypeOK, Doing, Tokens
<1>3. ASSUME NEW d \in Dispatcher, Send(d) PROVE Tokens'
  BY <1>3 DEF Send, TypeOK, Doing, Tokens
<1>4. ASSUME NEW d \in Dispatcher, EnqueueBrowser(d) PROVE Tokens'
  <2>1. UNCHANGED <<claim, claims>> /\ who[d].phase # "idle"
    BY <1>4 DEF EnqueueBrowser
  <2> QED
    BY <1>4, <2>1, Queueing DEF Tokens
<1>5. ASSUME NEW d \in Dispatcher, Finish(d) PROVE Tokens'
  <2>1. claim'.token = claim.token /\ claims' = claims /\ who'[d].phase = "idle"
    BY <1>5 DEF Finish, Closed, TypeOK, Claim, Idle
  <2>2. \A f \in Dispatcher : f # d => who'[f] = who[f]
    BY <1>5 DEF Finish, TypeOK
  <2> QED
    BY <2>1, <2>2 DEF Tokens
<1>6. ASSUME NEW d \in Dispatcher, Crash(d) PROVE Tokens'
  BY <1>6 DEF Crash, TypeOK, Idle, Tokens
<1>7. CASE Lapse \/ AckRead \/ AckClaim \/ AckRow
  <2>1. claim'.token = claim.token
    BY <1>7 DEF Lapse, AckRead, AckClaim, AckRow, TypeOK, Claim
  <2> QED
    BY <1>7, <2>1 DEF Lapse, AckRead, AckClaim, AckRow, Tokens
<1>8. CASE Editing \/ UNCHANGED vars
  <2>1. claim'.token = claim.token \/ claim'.token = 0
    BY <1>8, EditLeaves DEF vars, CalledOff, Rearmed, NoClaim, TypeOK, Claim
  <2>2. UNCHANGED <<who, claims>>
    BY <1>8, EditLeaves DEF vars
  <2> QED
    BY <2>1, <2>2 DEF Tokens, TypeOK
<1> QED
  BY <1>1, <1>2, <1>3, <1>4, <1>5, <1>6, <1>7, <1>8 DEF Next, Dispatch, Acknowledging

\* What EnqueueBrowser may write keeps the claim of a row of the browser, and
\* acknowledges nothing.
LEMMA EnqueuedRow ==
  ASSUME TypeOK, RowHasClaim, NEW s \in Doing, s.token # 0
  PROVE  LET n == Enqueued(s) IN
         /\ channel = "browser" /\ n.state = "pending" => n.token # 0
         /\ n.state = "acked" => n = outbox
  BY DEF TypeOK, RowHasClaim, Enqueued, Linked, Notice, Doing

\* A notification is acknowledged only when its claim is delivered.
LEMMA DeliveriesStep == TypeOK /\ Deliveries /\ [Next]_vars => Deliveries'
<1> SUFFICES ASSUME TypeOK, Deliveries, [Next]_vars PROVE Deliveries'
  OBVIOUS
<1> USE DEF Deliveries
<1>1. Tokens'
  BY TokensStep
<1>2. CASE UNCHANGED <<channel, outbox, acker>>
  BY <1>1, <1>2, StaysDelivered DEF RowHasClaim, AckHasClaim, SafeDelivered, AckIsDelivered
<1>3. ASSUME NEW d \in Dispatcher, EnqueueBrowser(d) PROVE Deliveries'
  <2>1. UNCHANGED <<channel, acker, claim>> /\ who[d] \in Doing /\ who[d].token # 0
    BY <1>3 DEF EnqueueBrowser, TypeOK, Tokens
  <2>2. outbox' = outbox \/ outbox' = Enqueued(who[d])
    BY <1>3 DEF EnqueueBrowser
  <2> QED
    BY <1>1, <2>1, <2>2, EnqueuedRow DEF RowHasClaim, AckHasClaim, SafeDelivered, AckIsDelivered
<1>4. CASE AckRead
  BY <1>1, <1>4 DEF AckRead, RowHasClaim, AckHasClaim, SafeDelivered, AckIsDelivered
<1>5. CASE AckClaim
  <2>1. Acknowledged(acker) /\ channel = "browser" => claim'.status = "delivered"
    BY <1>5 DEF AckClaim, Acknowledged, AckHasClaim, TypeOK, Claim
  <2>2. UNCHANGED <<channel, outbox>>
    BY <1>5 DEF AckClaim
  <2>3. acker' = IF Acknowledged(acker) THEN [acker EXCEPT !.phase = "safe"] ELSE NoAck
    BY <1>5 DEF AckClaim
  <2>4. acker'.phase # "read" /\ (acker'.phase = "safe" => Acknowledged(acker))
    BY <2>3 DEF TypeOK, Acking, NoAck
  <2> QED
    BY <1>1, <2>1, <2>2, <2>4, StaysDelivered
    DEF RowHasClaim, AckHasClaim, SafeDelivered, AckIsDelivered
<1>6. CASE AckRow
  BY <1>1, <1>6
  DEF AckRow, NoAck, TypeOK, Notice, RowHasClaim, AckHasClaim, SafeDelivered, AckIsDelivered
<1>7. ASSUME NEW e \in Editor, CancelOutbox(e) PROVE Deliveries'
  <2>1. UNCHANGED <<channel, acker, claim>> /\ (outbox' = outbox \/ outbox'.state = "none")
    BY <1>7 DEF CancelOutbox, Dropped, NoNotice
  <2> QED
    BY <1>1, <2>1 DEF RowHasClaim, AckHasClaim, SafeDelivered, AckIsDelivered
<1>8. ASSUME NEW d \in Dispatcher, ClaimReminder(d) \/ Check(d) \/ Send(d) \/ Finish(d) \/ Crash(d)
      PROVE  UNCHANGED <<channel, outbox, acker>>
  BY <1>8 DEF ClaimReminder, Check, Send, Finish, Crash
<1>9. ASSUME Lapse \/ UNCHANGED vars PROVE UNCHANGED <<channel, outbox, acker>>
  BY <1>9 DEF Lapse, vars
<1>10. ASSUME NEW e \in Editor, CancelClaims(e) \/ RearmOutbox(e) \/ RearmClaims(e) \/ Tear(e)
       PROVE  UNCHANGED <<channel, outbox, acker>>
  BY <1>10 DEF CancelClaims, RearmOutbox, RearmClaims, Tear
<1> QED
  BY <1>2, <1>3, <1>4, <1>5, <1>6, <1>7, <1>8, <1>9, <1>10 DEF Next, Dispatch, Acknowledging, Editing

-----------------------------------------------------------------------------
(* A cancelled reminder stays quiet, when edits pass through the routes    *)

OpenClaim == claim.status \in {"claimed", "awaiting", "failed"}

\* A cancel that has begun, and beside which no rearm ran, has its tombstone and
\* no notification waits; one that has ended has no open claim either, until a
\* rearm begins.
CancelUnderWay ==
  \A e \in Editor :
    editor[e].phase = "cancelling" /\ editor[e].alone =>
      tomb["sql"] /\ outbox.state # "pending" /\ Rearming = {}
CancelDone ==
  intent = "quiet" => /\ tomb["sql"] /\ ~OpenClaim /\ outbox.state # "pending"
                      /\ Rearming = {}
ByRoute == \A e \in Editor : editor[e].by = "route"
Silence == ByRoute /\ CancelUnderWay /\ CancelDone

\* Under a tombstone nothing is claimed and nothing is queued.
LEMMA TombHolds ==
  ASSUME TypeOK, tomb["sql"], NEW d \in Dispatcher,
         ClaimReminder(d) \/ Dispatch(d) \/ Crash(d)
  PROVE  /\ outbox.state # "pending" => outbox'.state # "pending"
         /\ ~OpenClaim => ~OpenClaim'
<1>1. CASE ClaimReminder(d)
  BY <1>1 DEF ClaimReminder, Refused
<1>2. CASE Check(d) \/ Send(d) \/ Crash(d)
  BY <1>2 DEF Check, Send, Crash, OpenClaim
<1>3. CASE EnqueueBrowser(d)
  BY <1>3 DEF EnqueueBrowser, Enqueued, OpenClaim
<1>4. CASE Finish(d)
  BY <1>4 DEF Finish, Holds, OpenClaim
<1> QED
  BY <1>1, <1>2, <1>3, <1>4 DEF Dispatch

\* Dispatchers leave the edits of the note alone.
LEMMA OthersKeep ==
  ASSUME NEW d \in Dispatcher, ClaimReminder(d) \/ Dispatch(d) \/ Crash(d)
  PROVE  UNCHANGED <<tomb, editor, torn, intent>>
  BY DEF ClaimReminder, Dispatch, Check, Send, EnqueueBrowser, Finish, Crash

\* What each step of an edit through the routes does to the edits in progress.
LEMMA EditsWith ==
  ASSUME "tool" \notin Caller, TypeOK, ByRoute, NEW e \in Editor
  PROVE  /\ CancelOutbox(e) =>
              /\ editor'[e].phase = "cancelling" /\ editor'[e].by = "route"
              /\ editor'[e].alone <=> Rearming = {}
              /\ \A f \in Editor : f # e => editor'[f] = editor[f]
              /\ Rearming' = Rearming /\ tomb'["sql"] /\ outbox' = Dropped(outbox)
         /\ CancelClaims(e) \/ RearmClaims(e) \/ Tear(e) =>
              /\ editor'[e] = NoEdit
              /\ \A f \in Editor : f # e => editor'[f] = editor[f]
              /\ Rearming' \subseteq Rearming
         /\ CancelClaims(e) => tomb'["sql"] /\ claim' = CalledOff(claim)
         /\ RearmOutbox(e) =>
              /\ editor'[e].phase = "rearming"
              /\ \A f \in Editor : editor'[f].by = "route" /\ ~editor'[f].alone
<1>1. ASSUME CancelOutbox(e)
      PROVE  /\ editor'[e].phase = "cancelling" /\ editor'[e].by = "route"
             /\ editor'[e].alone <=> Rearming = {}
             /\ \A f \in Editor : f # e => editor'[f] = editor[f]
             /\ Rearming' = Rearming /\ tomb'["sql"] /\ outbox' = Dropped(outbox)
  <2> DEFINE alone == Rearming = {}
             s == [phase |-> "cancelling", by |-> "route", alone |-> alone]
  <2>1. editor' = [editor EXCEPT ![e] = s]
    BY <1>1, ReminderDeliveryAssumption DEF CancelOutbox
  <2>2. /\ tomb' = [tomb EXCEPT !["sql"] = TRUE] /\ outbox' = Dropped(outbox)
        /\ editor[e].phase = "idle"
    BY <1>1, ReminderDeliveryAssumption DEF CancelOutbox, Reached
  <2>3. s.phase = "cancelling" /\ s.by = "route" /\ s.alone = alone
    BY Zenon
  <2> HIDE DEF s
  <2>4. editor'[e] = s /\ \A f \in Editor : f # e => editor'[f] = editor[f]
    BY <2>1 DEF TypeOK
  <2>5. Rearming' = Rearming
    BY <2>2, <2>3, <2>4 DEF Rearming
  <2>6. tomb'["sql"]
    BY <2>2 DEF TypeOK, Store
  <2>7. editor'[e].alone <=> Rearming = {}
    BY Zenon, <2>3, <2>4
  <2> QED
    BY <2>2, <2>3, <2>4, <2>5, <2>6, <2>7
<1>2. ASSUME CancelClaims(e) \/ RearmClaims(e) \/ Tear(e)
      PROVE  /\ editor'[e] = NoEdit
             /\ \A f \in Editor : f # e => editor'[f] = editor[f]
             /\ Rearming' \subseteq Rearming
  <2>1. editor' = [editor EXCEPT ![e] = NoEdit]
    BY <1>2 DEF CancelClaims, RearmClaims, Tear
  <2> QED
    BY <2>1 DEF TypeOK, Rearming, NoEdit
<1>3. ASSUME CancelClaims(e) PROVE tomb'["sql"] /\ claim' = CalledOff(claim)
  BY <1>3 DEF CancelClaims, Reached, ByRoute, TypeOK, Store
<1>4. ASSUME RearmOutbox(e)
      PROVE  /\ editor'[e].phase = "rearming"
             /\ \A f \in Editor : editor'[f].by = "route" /\ ~editor'[f].alone
  <2>1. editor' = [f \in Editor |->
                     IF f = e THEN [NoEdit EXCEPT !.phase = "rearming", !.by = "route"]
                     ELSE [editor[f] EXCEPT !.alone = FALSE]]
    BY <1>4, ReminderDeliveryAssumption DEF RearmOutbox
  <2> QED
    BY <2>1 DEF TypeOK, Edit, NoEdit, ByRoute
<1> QED
  BY <1>1, <1>2, <1>3, <1>4

LEMMA SilenceStep == "tool" \notin Caller /\ TypeOK /\ Silence /\ [Next]_vars => Silence'
<1> SUFFICES ASSUME "tool" \notin Caller, TypeOK, Silence, [Next]_vars PROVE Silence'
  OBVIOUS
<1> USE DEF Silence
<1>0. ASSUME UNCHANGED <<tomb, editor, intent>>,
             outbox.state # "pending" /\ tomb["sql"] => outbox'.state # "pending",
             ~OpenClaim /\ tomb["sql"] => ~OpenClaim'
      PROVE  Silence'
  BY <1>0 DEF ByRoute, CancelUnderWay, CancelDone, Rearming
<1>1. ASSUME NEW d \in Dispatcher, ClaimReminder(d) \/ Dispatch(d) \/ Crash(d) PROVE Silence'
  BY <1>0, <1>1, TombHolds, OthersKeep
<1>2. CASE Lapse \/ Acknowledging
  <2>1. UNCHANGED <<tomb, editor, intent>>
    BY <1>2 DEF Lapse, Acknowledging, AckRead, AckClaim, AckRow
  <2>2. outbox.state # "pending" => outbox'.state # "pending"
    BY <1>2 DEF Lapse, Acknowledging, AckRead, AckClaim, AckRow
  <2>3. ~OpenClaim => ~OpenClaim'
    BY <1>2 DEF Lapse, Acknowledging, AckRead, AckClaim, AckRow, Holds, OpenClaim
  <2> QED
    BY <1>0, <2>1, <2>2, <2>3
<1>3. ASSUME NEW e \in Editor, CancelOutbox(e) PROVE Silence'
  <2>1. /\ editor'[e].phase = "cancelling" /\ editor'[e].by = "route"
        /\ editor'[e].alone <=> Rearming = {}
        /\ \A f \in Editor : f # e => editor'[f] = editor[f]
        /\ Rearming' = Rearming /\ tomb'["sql"] /\ outbox' = Dropped(outbox)
    BY <1>3, EditsWith
  <2>2. outbox'.state # "pending"
    BY <2>1 DEF Dropped, NoNotice
  <2>3. claim' = claim /\ (intent' = "quiet" => intent = "quiet")
    BY <1>3 DEF CancelOutbox
  <2>4. ByRoute' /\ CancelUnderWay'
    BY <2>1, <2>2 DEF ByRoute, CancelUnderWay
  <2>5. CancelDone'
    BY <2>1, <2>2, <2>3 DEF CancelDone, OpenClaim
  <2> QED
    BY <2>4, <2>5
<1>4. ASSUME NEW e \in Editor, CancelClaims(e) PROVE Silence'
  <2>1. /\ editor'[e] = NoEdit /\ Rearming' \subseteq Rearming
        /\ \A f \in Editor : f # e => editor'[f] = editor[f]
        /\ tomb'["sql"] /\ claim' = CalledOff(claim)
    BY <1>4, EditsWith
  <2>2. ~OpenClaim'
    BY <2>1 DEF CalledOff, NoClaim, OpenClaim
  <2>3. /\ outbox' = outbox /\ editor[e].phase = "cancelling"
        /\ intent' = IF editor[e].alone THEN "quiet" ELSE intent
    BY <1>4 DEF CancelClaims
  <2>4. ByRoute' /\ CancelUnderWay'
    BY <2>1, <2>3 DEF ByRoute, CancelUnderWay, NoEdit
  <2>5. CancelDone'
    BY <2>1, <2>2, <2>3 DEF CancelUnderWay, CancelDone
  <2> QED
    BY <2>4, <2>5
<1>5. ASSUME NEW e \in Editor, RearmOutbox(e) PROVE Silence'
  <2>1. \A f \in Editor : editor'[f].by = "route" /\ ~editor'[f].alone
    BY <1>5, EditsWith
  <2>2. intent' # "quiet"
    BY <1>5 DEF RearmOutbox
  <2> QED
    BY <2>1, <2>2 DEF ByRoute, CancelUnderWay, CancelDone
<1>6. ASSUME NEW e \in Editor, RearmClaims(e) PROVE Silence'
  <2>1. editor'[e] = NoEdit /\ \A f \in Editor : f # e => editor'[f] = editor[f]
    BY <1>6, EditsWith
  <2>2. e \in Rearming /\ intent' = intent
    BY <1>6 DEF RearmClaims, Rearming
  <2> QED
    BY <2>1, <2>2 DEF ByRoute, CancelUnderWay, CancelDone, NoEdit
<1>7. ASSUME NEW e \in Editor, Tear(e) PROVE Silence'
  <2>1. /\ editor'[e] = NoEdit /\ Rearming' \subseteq Rearming
        /\ \A f \in Editor : f # e => editor'[f] = editor[f]
    BY <1>7, EditsWith
  <2>2. UNCHANGED <<tomb, claim, outbox, intent>>
    BY <1>7 DEF Tear
  <2> QED
    BY <2>1, <2>2 DEF ByRoute, CancelUnderWay, CancelDone, OpenClaim, NoEdit
<1>8. CASE UNCHANGED vars
  BY <1>0, <1>8 DEF vars, OpenClaim
<1> QED
  BY <1>1, <1>2, <1>3, <1>4, <1>5, <1>6, <1>7, <1>8 DEF Next, Editing

-----------------------------------------------------------------------------
(* What waits for the client can be acknowledged                           *)

Shown == outbox.state = "pending" /\ outbox.token = claim.token

\* Only the browser's claims wait for the client; a dispatcher knows that it
\* queued a notification only once it did, and then the notification is there
\* until an edit takes it away.
AwaitsBrowser == claim.status = "awaiting" => channel = "browser"
QueuedLast    == \A d \in Dispatcher : who[d].queued => who[d].phase = "closing"
QueuedShown   ==
  \A d \in Dispatcher :
    (channel = "browser" /\ who[d].queued /\ Holds(who[d], {"claimed"})
       /\ Settled /\ ~late) => Shown

Waiting == AwaitsBrowser /\ QueuedLast /\ QueuedShown /\ Acknowledgeable

LEMMA WaitingStep ==
  ASSUME "tool" \notin Caller, TypeOK, Deliveries, Silence, Waiting, [Next]_vars
  PROVE  Waiting'
<1> USE DEF Waiting
<1>1. ASSUME UNCHANGED <<channel, claim, outbox, who, late>>,
             Settled' => Settled
      PROVE  Waiting'
  BY <1>1 DEF AwaitsBrowser, QueuedLast, QueuedShown, Acknowledgeable, Shown, Settled, Holds
<1>2. ASSUME NEW d \in Dispatcher, ClaimReminder(d) PROVE Waiting'
  <2>1. /\ claim'.status = "claimed" /\ claim'.token = claims + 1
        /\ \A f \in Dispatcher : f # d => who'[f] = who[f]
        /\ ~who'[d].queued /\ UNCHANGED <<channel, editor, torn, outbox, late>>
    BY <1>2 DEF ClaimReminder, TypeOK, Idle
  <2>2. \A f \in Dispatcher : who[f].queued => who[f].token # claims + 1
    BY DEF QueuedLast, Deliveries, Tokens, TypeOK, Doing
  <2> QED
    BY <2>1, <2>2 DEF AwaitsBrowser, QueuedLast, QueuedShown, Acknowledgeable, Shown, Settled, Holds
<1>3. ASSUME NEW d \in Dispatcher, Check(d) \/ Send(d) PROVE Waiting'
  <2>1. /\ \A f \in Dispatcher : f # d => who'[f] = who[f]
        /\ who'[d].queued = who[d].queued /\ who[d].phase # "closing"
        /\ UNCHANGED <<channel, editor, torn, outbox, claim, late>>
    BY <1>3 DEF Check, Send, TypeOK, Doing
  <2> QED
    BY <2>1 DEF AwaitsBrowser, QueuedLast, QueuedShown, Acknowledgeable, Shown, Settled, Holds
<1>4. ASSUME NEW d \in Dispatcher, Crash(d) PROVE Waiting'
  <2>1. /\ \A f \in Dispatcher : f # d => who'[f] = who[f]
        /\ ~who'[d].queued /\ UNCHANGED <<channel, editor, torn, outbox, claim, late>>
    BY <1>4 DEF Crash, TypeOK, Idle
  <2> QED
    BY <2>1 DEF AwaitsBrowser, QueuedLast, QueuedShown, Acknowledgeable, Shown, Settled, Holds
<1>5. ASSUME NEW d \in Dispatcher, Finish(d) PROVE Waiting'
  <2>1. /\ \A f \in Dispatcher : f # d => who'[f] = who[f]
        /\ ~who'[d].queued /\ UNCHANGED <<channel, editor, torn, outbox, late>>
    BY <1>5 DEF Finish, TypeOK, Idle
  <2>2. CASE ~Holds(who[d], {"claimed"})
    <3>1. claim' = claim
      BY <1>5, <2>2 DEF Finish
    <3> QED
      BY <2>1, <3>1 DEF AwaitsBrowser, QueuedLast, QueuedShown, Acknowledgeable, Shown, Settled, Holds
  <2>3. CASE Holds(who[d], {"claimed"})
    <3>1. /\ claim'.token = claim.token /\ claim'.status # "claimed"
          /\ claim'.status = "awaiting" => channel = "browser" /\ who[d].queued
      BY <1>5, <2>3 DEF Finish, Closed, TypeOK, Claim
    <3> QED
      BY <2>1, <2>3, <3>1 DEF AwaitsBrowser, QueuedLast, QueuedShown, Acknowledgeable, Shown, Settled, Holds
  <2> QED
    BY <2>2, <2>3
<1>6. ASSUME NEW d \in Dispatcher, EnqueueBrowser(d) PROVE Waiting'
  <2>1. UNCHANGED <<channel, claim, editor, torn>> /\ who[d].phase = "queueing" /\ who[d] \in Doing
    BY <1>6 DEF EnqueueBrowser, TypeOK
  <2>2. /\ \A f \in Dispatcher : f # d => who'[f] = who[f]
        /\ who'[d].phase = "closing" /\ who'[d].token = who[d].token
    BY <1>6, Queueing
  <2>3. CASE who'[d].queued = who[d].queued /\ outbox' = outbox /\ late' = late
    BY <2>1, <2>2, <2>3
    DEF AwaitsBrowser, QueuedLast, QueuedShown, Acknowledgeable, Shown, Settled, Holds
  <2>4. CASE /\ who'[d].queued = ~tomb["sql"] /\ outbox' = Enqueued(who[d])
             /\ late' = (late \/ (channel = "browser" /\ ~Holds(who[d], {"claimed"})))
    <3>1. tomb["sql"] => outbox' = outbox /\ ~who'[d].queued
      BY <2>4 DEF Enqueued
    <3>2. ~late' => ~late /\ (channel = "browser" => Holds(who[d], {"claimed"}))
      BY <2>4
    <3>3. ASSUME ~late', ~tomb["sql"], channel = "browser" PROVE Shown' /\ claim.status = "claimed"
      <4>1. Holds(who[d], {"claimed"})
        BY <3>2, <3>3
      <4>2. claim.status = "claimed" /\ claim.token = who[d].token
        BY <4>1 DEF Holds
      <4>3. outbox.state # "acked" /\ who[d].token # 0
        BY <2>1, <3>3, <4>2 DEF Deliveries, AckIsDelivered, Tokens, TypeOK
      <4>4. outbox'.state = "pending" /\ outbox'.token = who[d].token
        BY <2>4, <3>3, <4>3 DEF Enqueued, Linked, TypeOK, Notice
      <4> QED
        BY <2>1, <4>2, <4>4 DEF Shown
    <3>4. ASSUME ~late', tomb["sql"] PROVE Waiting'
      BY <2>1, <2>2, <3>1, <3>2, <3>4
      DEF AwaitsBrowser, QueuedLast, QueuedShown, Acknowledgeable, Shown, Settled, Holds
    <3>5. ASSUME ~late', ~tomb["sql"], channel = "browser" PROVE Waiting'
      BY <2>1, <2>2, <3>3, <3>5 DEF AwaitsBrowser, QueuedLast, QueuedShown, Acknowledgeable, Shown, Settled
    <3>6. CASE late' \/ channel # "browser"
      BY <2>1, <2>2, <3>6 DEF AwaitsBrowser, QueuedLast, QueuedShown, Acknowledgeable
    <3> QED
      BY <3>4, <3>5, <3>6
  <2> QED
    BY <1>6, <2>3, <2>4, Queueing
<1>7. CASE Lapse
  <2>1. /\ claim'.status = claim.status /\ claim'.token = claim.token
        /\ UNCHANGED <<channel, editor, torn, outbox, who, late>>
    BY <1>7 DEF Lapse, TypeOK, Claim
  <2> QED
    BY <2>1 DEF AwaitsBrowser, QueuedLast, QueuedShown, Acknowledgeable, Shown, Settled, Holds
<1>8. CASE AckRead
  BY <1>1, <1>8 DEF AckRead, Settled
<1>9. CASE AckClaim
  <2>1. claim' = claim \/ claim'.status = "delivered"
    BY <1>9 DEF AckClaim, TypeOK, Claim
  <2>2. UNCHANGED <<channel, editor, torn, outbox, who, late>>
    BY <1>9 DEF AckClaim
  <2> QED
    BY <2>1, <2>2 DEF AwaitsBrowser, QueuedLast, QueuedShown, Acknowledgeable, Shown, Settled, Holds
<1>10. CASE AckRow
  <2>1. channel = "browser" => claim.status = "delivered"
    BY <1>10 DEF AckRow, Deliveries, SafeDelivered
  <2>2. UNCHANGED <<channel, editor, torn, claim, who, late>>
    BY <1>10 DEF AckRow
  <2> QED
    BY <2>1, <2>2 DEF AwaitsBrowser, QueuedLast, QueuedShown, Acknowledgeable, Settled, Holds
<1>11. ASSUME NEW e \in Editor, CancelOutbox(e) PROVE Waiting'
  <2>1. editor'[e].phase = "cancelling" /\ UNCHANGED <<channel, claim, who>>
    BY <1>11, EditsWith DEF Silence, CancelOutbox
  <2> QED
    BY <2>1 DEF AwaitsBrowser, QueuedLast, QueuedShown, Acknowledgeable, Settled
<1>12. ASSUME NEW e \in Editor, CancelClaims(e) \/ RearmClaims(e) PROVE Waiting'
  <2>1. claim' = CalledOff(claim) \/ claim' = Rearmed(claim)
    BY <1>12 DEF CancelClaims, RearmClaims, Silence, ByRoute, Reached
  <2>2. claim'.status \notin {"claimed", "awaiting"}
    BY <2>1 DEF CalledOff, Rearmed, NoClaim
  <2>3. UNCHANGED <<channel, who, late>>
    BY <1>12 DEF CancelClaims, RearmClaims
  <2> QED
    BY <2>2, <2>3 DEF AwaitsBrowser, QueuedLast, QueuedShown, Acknowledgeable, Holds
<1>13. ASSUME NEW e \in Editor, RearmOutbox(e) PROVE Waiting'
  <2>1. editor'[e].phase = "rearming"
    BY <1>13, EditsWith DEF Silence
  <2> QED
    BY <1>1, <1>13, <2>1 DEF RearmOutbox, Settled
<1>14. ASSUME NEW e \in Editor, Tear(e) PROVE Waiting'
  BY <1>1, <1>14 DEF Tear, Settled
<1>15. CASE UNCHANGED vars
  BY <1>1, <1>15 DEF vars, Settled
<1> QED
  BY <1>2, <1>3, <1>4, <1>5, <1>6, <1>7, <1>8, <1>9, <1>10, <1>11, <1>12, <1>13, <1>14,
     <1>15 DEF Next, Dispatch, Acknowledging, Editing

-----
(* Every message after the first is paid for                               *)

\* Who is on the way to send, and the tokens that may still send.
Bound(s) == s.phase \in {"claimed", "sending"}
May == {t \in 1 .. claims : \E d \in Dispatcher : who[d].token = t /\ Bound(who[d])}

\* A token has one dispatcher; only the external channel sends.
Alone == \A d, f \in Dispatcher :
  d # f /\ who[d].phase # "idle" /\ who[f].phase # "idle" => who[d].token # who[f].token
Silent == channel = "browser" => sends = 0 /\ \A d \in Dispatcher : who[d].phase # "sending"

\* Each token sends once.
OncePerToken == sends + Cardinality(May) <= claims

\* A claim after the first is paid for, and so is the next one, unless there can
\* be no next one: the claim is settled, called off for good, or in the hands of
\* a dispatcher that has yet to send or knows that it did.
Credit == claims <= faults + rearmed
InHand ==
  /\ ~claim.lapsed
  /\ \E d \in Dispatcher : /\ who[d].phase # "idle" /\ who[d].token = claim.token
                           /\ Bound(who[d]) \/ who[d].told
Closing ==
  \/ claim.status \in {"delivered", "awaiting"}
  \/ claim.status = "cancelled" /\ tomb["sql"]
  \/ claim.status = "claimed" /\ InHand
ClaimsPaid == channel = "external" => claims <= 1 + faults + rearmed /\ (Credit \/ Closing)

Paying == Alone /\ Silent /\ OncePerToken /\ ClaimsPaid

LEMMA MayFinite ==
  ASSUME TypeOK PROVE IsFiniteSet(May) /\ Cardinality(May) \in Nat
<1>1. IsFiniteSet(1 .. claims)
  BY FS_Interval DEF TypeOK
<1> QED
  BY <1>1, FS_Subset, FS_CardinalityType DEF May

\* Whoever stops being on the way leaves no more tokens that may send, and one
\* less if it was on the way.
LEMMA MayShrinks ==
  ASSUME TypeOK, TypeOK', Alone, claims' = claims, NEW d \in Dispatcher,
         \A f \in Dispatcher : f # d => who'[f] = who[f],
         Bound(who'[d]) => Bound(who[d]) /\ who'[d].token = who[d].token,
         who[d].phase # "idle" => who[d].token \in 1 .. claims
  PROVE  /\ Cardinality(May') <= Cardinality(May)
         /\ Bound(who[d]) /\ ~Bound(who'[d]) => Cardinality(May') <= Cardinality(May) - 1
<1>1. May' \subseteq May
  BY DEF May
<1>2. Cardinality(May') <= Cardinality(May)
  BY <1>1, MayFinite, FS_Subset
<1>3. ASSUME Bound(who[d]), ~Bound(who'[d])
      PROVE  Cardinality(May') <= Cardinality(May) - 1
  <2>1. who[d].token \in May
    BY <1>3 DEF May, Bound
  <2>2. who[d].token \notin May'
    <3>1. \A f \in Dispatcher : f # d /\ Bound(who[f]) => who[f].token # who[d].token
      BY <1>3 DEF Alone, Bound
    <3> QED
      BY <1>3, <3>1 DEF May
  <2>3. May' \subseteq May \ {who[d].token}
    BY <1>1, <2>2
  <2>4. /\ IsFiniteSet(May \ {who[d].token})
        /\ Cardinality(May \ {who[d].token}) = Cardinality(May) - 1
    BY <2>1, MayFinite, FS_RemoveElement
  <2> QED
    BY <2>3, <2>4, FS_Subset
<1> QED
  BY <1>2, <1>3

\* A dispatcher goes on, sends, or is done, for the same claim.
LEMMA AloneKept ==
  ASSUME Alone, NEW d \in Dispatcher, \A f \in Dispatcher : f # d => who'[f] = who[f],
         who'[d].phase # "idle" => who[d].phase # "idle" /\ who'[d].token = who[d].token
  PROVE  Alone'
  BY DEF Alone

\* Queueing the mirror changes nothing about what was sent.
LEMMA QueueingTells ==
  ASSUME TypeOK, NEW d \in Dispatcher, EnqueueBrowser(d)
  PROVE  who'[d].told = who[d].told
<1> DEFINE queued == ~tomb["sql"]
<1>1. queued \in BOOLEAN
  OBVIOUS
<1> HIDE DEF queued
<1>2. CASE who' = [who EXCEPT ![d].phase = "closing", ![d].queued = queued]
  BY <1>1, <1>2 DEF TypeOK, Doing
<1>3. CASE who' = [who EXCEPT ![d].phase = "closing"]
  BY <1>3 DEF TypeOK, Doing
<1> QED
  BY Zenon, <1>2, <1>3 DEF EnqueueBrowser, queued

LEMMA PayingStep ==
  ASSUME TypeOK, TypeOK', Tokens, Paying, [Next]_vars PROVE Paying'
<1> USE DEF Paying
<1>0. Cardinality(May) \in Nat /\ Cardinality(May') \in Nat /\ claims \in Nat /\ sends \in Nat
      /\ faults \in Nat /\ rearmed \in Nat
  <2>1. Cardinality(May) \in Nat
    BY MayFinite
  <2>2. Cardinality(May') \in Nat
    <3>1. IsFiniteSet(1 .. claims')
      BY FS_Interval DEF TypeOK
    <3> QED
      BY <3>1, FS_Subset, FS_CardinalityType DEF May
  <2> QED
    BY <2>1, <2>2, ReminderDeliveryAssumption DEF TypeOK
<1>1. ASSUME NEW d \in Dispatcher, ClaimReminder(d) PROVE Paying'
  <2>1. /\ claims' = claims + 1 /\ who'[d].token = claims + 1 /\ who'[d].phase = "claimed"
        /\ \A f \in Dispatcher : f # d => who'[f] = who[f]
        /\ claim' = [status |-> "claimed", token |-> claims + 1, lapsed |-> FALSE]
        /\ UNCHANGED <<channel, sends, faults, rearmed>> /\ who[d].phase = "idle" /\ ~Refused
    BY <1>1 DEF ClaimReminder, TypeOK, Idle
  <2>2. Alone'
    BY <1>0, <2>1 DEF Alone, Tokens
  <2>3. Silent'
    BY <2>1 DEF Silent
  <2>4. OncePerToken'
    <3>1. May' \subseteq May \cup {claims + 1}
      BY <1>0, <2>1 DEF May, Bound
    <3>0. IsFiniteSet(May)
      BY MayFinite
    <3>2. /\ IsFiniteSet(May \cup {claims + 1})
          /\ Cardinality(May \cup {claims + 1}) \in {Cardinality(May), Cardinality(May) + 1}
      BY <3>0, FS_AddElement
    <3>3. Cardinality(May') <= Cardinality(May \cup {claims + 1})
      BY <3>1, <3>2, FS_Subset
    <3>4. Cardinality(May \cup {claims + 1}) \in Nat
      BY <3>2, FS_CardinalityType
    <3> QED
      BY <1>0, <2>1, <3>2, <3>3, <3>4 DEF OncePerToken
  <2>5. ClaimsPaid'
    <3>1. CASE channel = "external"
      <4>1. ~Closing
        BY <2>1 DEF Refused, Closing, InHand
      <4>2. Credit /\ Closing'
        BY <2>1, <3>1, <4>1 DEF ClaimsPaid, Closing, InHand, Bound
      <4> QED
        BY <1>0, <2>1, <4>2 DEF ClaimsPaid, Credit
    <3>2. CASE channel # "external"
      BY <1>0, <2>1, <3>2 DEF ClaimsPaid
    <3> QED
      BY <3>1, <3>2
  <2> QED
    BY <2>2, <2>3, <2>4, <2>5
<1>2. ASSUME NEW d \in Dispatcher, Check(d) PROVE Paying'
  <2>1. /\ UNCHANGED <<channel, tomb, claim, claims, sends, faults, rearmed>>
        /\ \A f \in Dispatcher : f # d => who'[f] = who[f]
        /\ who'[d].token = who[d].token /\ who'[d].told = who[d].told
        /\ who[d].phase \in {"claimed", "sent"} /\ who'[d].phase \in {"closing", "sending", "queueing"}
        /\ who'[d].phase = "sending" => who[d].phase = "claimed" /\ channel = "external"
        /\ channel = "external" /\ who[d].phase = "claimed" /\ Holds(who[d], {"claimed"})
             => who'[d].phase = "sending"
    BY <1>2 DEF Check, TypeOK, Doing
  <2>2. Alone'
    BY <2>1, AloneKept
  <2>3. Silent'
    BY <2>1 DEF Silent
  <2>4. Cardinality(May') <= Cardinality(May)
    BY <2>1, MayShrinks DEF Bound, Tokens
  <2>5. channel = "external" /\ Closing => Closing'
    BY <2>1 DEF Closing, InHand, Bound, Holds
  <2> QED
    BY <1>0, <2>1, <2>2, <2>3, <2>4, <2>5 DEF OncePerToken, ClaimsPaid, Credit
<1>3. ASSUME NEW d \in Dispatcher, Send(d) PROVE Paying'
  <2>1. /\ UNCHANGED <<channel, tomb, claim, claims, rearmed>>
        /\ \A f \in Dispatcher : f # d => who'[f] = who[f]
        /\ who'[d].token = who[d].token
        /\ who[d].phase = "sending" /\ who'[d].phase = "sent"
        /\ sends' \in {sends, sends + 1}
        /\ (who'[d].told /\ faults' = faults) \/ faults' = faults + 1
    BY <1>3 DEF Send, TypeOK, Doing
  <2>2. Alone'
    BY <2>1, AloneKept
  <2>3. Silent'
    BY <2>1 DEF Silent, TypeOK
  <2>4. Cardinality(May') <= Cardinality(May) - 1
    BY <2>1, MayShrinks DEF Bound, Tokens
  <2>5. ClaimsPaid'
    <3>1. CASE faults' = faults + 1
      BY <1>0, <2>1, <3>1 DEF ClaimsPaid, Credit
    <3>2. CASE who'[d].told /\ faults' = faults
      <4>1. Closing => Closing'
        BY <2>1, <3>2 DEF Closing, InHand
      <4> QED
        BY <1>0, <2>1, <3>2, <4>1 DEF ClaimsPaid, Credit
    <3> QED
      BY <2>1, <3>1, <3>2
  <2> QED
    BY <1>0, <2>1, <2>2, <2>3, <2>4, <2>5 DEF OncePerToken
<1>4. ASSUME NEW d \in Dispatcher, EnqueueBrowser(d) PROVE Paying'
  <2>1. /\ UNCHANGED <<channel, tomb, claim, claims, sends, rearmed>> /\ who[d].phase = "queueing"
        /\ faults' \in {faults, faults + 1}
    BY <1>4 DEF EnqueueBrowser
  <2>2. /\ \A f \in Dispatcher : f # d => who'[f] = who[f]
        /\ who'[d].phase = "closing" /\ who'[d].token = who[d].token
    BY <1>4, Queueing
  <2>3. who'[d].told = who[d].told
    BY <1>4, QueueingTells
  <2>4. Alone'
    BY <2>1, <2>2, AloneKept
  <2>5. Silent'
    BY <2>1, <2>2 DEF Silent
  <2>6. Cardinality(May') <= Cardinality(May)
    BY <2>1, <2>2, MayShrinks DEF Bound, Tokens
  <2>7. Closing => Closing'
    BY <2>1, <2>2, <2>3 DEF Closing, InHand, Bound
  <2> QED
    BY <1>0, <2>1, <2>4, <2>5, <2>6, <2>7 DEF OncePerToken, ClaimsPaid, Credit
<1>5. ASSUME NEW d \in Dispatcher, Finish(d) PROVE Paying'
  <2>1. /\ UNCHANGED <<channel, tomb, claims, sends, faults, rearmed>>
        /\ \A f \in Dispatcher : f # d => who'[f] = who[f]
        /\ who[d].phase = "closing" /\ who'[d].phase = "idle"
        /\ claim' = IF Holds(who[d], {"claimed"}) THEN Closed(claim, who[d]) ELSE claim
    BY <1>5 DEF Finish, TypeOK, Idle
  <2>2. Alone'
    BY <2>1, AloneKept
  <2>3. Silent'
    BY <2>1 DEF Silent
  <2>4. Cardinality(May') <= Cardinality(May)
    BY <2>1, MayShrinks DEF Bound, Tokens
  <2>5. channel = "external" /\ Closing => Closing'
    <3>1. CASE ~Holds(who[d], {"claimed"})
      BY <2>1, <3>1 DEF Closing, InHand, Holds
    <3>2. CASE Holds(who[d], {"claimed"})
      <4>1. claim.status = "claimed" /\ claim.token = who[d].token
        BY <3>2 DEF Holds
      <4>2. Closing => who[d].told
        BY <2>1, <4>1 DEF Closing, InHand, Alone, Bound
      <4>3. who[d].told /\ channel = "external" => claim'.status = "delivered"
        BY <2>1, <3>2 DEF Closed, TypeOK, Claim
      <4> QED
        BY <4>2, <4>3 DEF Closing
    <3> QED
      BY <3>1, <3>2
  <2> QED
    BY <1>0, <2>1, <2>2, <2>3, <2>4, <2>5 DEF OncePerToken, ClaimsPaid, Credit
<1>6. ASSUME NEW d \in Dispatcher, Crash(d) PROVE Paying'
  <2>1. /\ UNCHANGED <<channel, tomb, claim, claims, sends, rearmed>>
        /\ \A f \in Dispatcher : f # d => who'[f] = who[f]
        /\ who[d].phase # "idle" /\ who'[d].phase = "idle" /\ faults' = faults + 1
    BY <1>6 DEF Crash, TypeOK, Idle
  <2>2. Alone'
    BY <2>1, AloneKept
  <2>3. Silent'
    BY <2>1 DEF Silent
  <2>4. Cardinality(May') <= Cardinality(May)
    BY <2>1, MayShrinks DEF Bound, Tokens
  <2> QED
    BY <1>0, <2>1, <2>2, <2>3, <2>4 DEF OncePerToken, ClaimsPaid, Credit
<1>7. ASSUME UNCHANGED <<channel, who, claims, sends>>, ClaimsPaid' PROVE Paying'
  <2>1. May' = May
    BY <1>7 DEF May, Bound
  <2> QED
    BY <1>7, <2>1 DEF Alone, Silent, OncePerToken
<1>8. CASE Lapse
  <2>1. /\ UNCHANGED <<channel, tomb, who, claims, sends, rearmed>>
        /\ claim.status = "claimed" /\ ~claim.lapsed
    BY <1>8 DEF Lapse
  <2>2. faults' = faults \/ faults' = faults + 1
    BY Zenon, <1>8 DEF Lapse
  <2>3. InHand => faults' = faults + 1
    BY Zenon, <1>8 DEF Lapse, InHand
  <2>4. ClaimsPaid'
    BY <1>0, <2>1, <2>2, <2>3 DEF ClaimsPaid, Credit, Closing
  <2> QED
    BY <1>7, <2>1, <2>4
<1>9. ASSUME UNCHANGED <<channel, who, claims, sends, faults, rearmed>>, Closing => Closing'
      PROVE  Paying'
  <2>1. ClaimsPaid'
    BY <1>9 DEF ClaimsPaid, Credit
  <2> QED
    BY <1>7, <1>9, <2>1
<1>10. CASE Acknowledging
  <2>1. UNCHANGED <<channel, who, claims, sends, faults, rearmed>>
    BY <1>10 DEF Acknowledging, AckRead, AckClaim, AckRow
  <2>2. CASE AckRead \/ AckRow
    <3>1. Closing => Closing'
      BY <2>2 DEF AckRead, AckRow, Closing, InHand, Bound
    <3> QED
      BY <1>9, <2>1, <3>1
  <2>3. CASE AckClaim
    <3>1. claim' = claim \/ claim'.status = "delivered"
      BY <2>3 DEF AckClaim, TypeOK, Claim
    <3>2. Closing => Closing'
      BY <2>3, <3>1 DEF AckClaim, Closing, InHand, Bound
    <3> QED
      BY <1>9, <2>1, <3>2
  <2> QED
    BY <1>10, <2>2, <2>3 DEF Acknowledging
<1>12. ASSUME NEW e \in Editor, CancelOutbox(e) PROVE Paying'
  <2>1. UNCHANGED <<channel, who, claim, claims, sends, faults, rearmed>>
    BY <1>12 DEF CancelOutbox
  <2>2. tomb["sql"] => tomb'["sql"]
    BY <1>12 DEF CancelOutbox, TypeOK, Store, Reached
  <2>3. Closing => Closing'
    BY <2>1, <2>2 DEF Closing, InHand, Bound
  <2> QED
    BY <1>9, <2>1, <2>3
<1>13. ASSUME NEW e \in Editor, CancelClaims(e) PROVE Paying'
  <2>1. UNCHANGED <<channel, who, claims, sends, faults, rearmed>>
    BY <1>13 DEF CancelClaims
  <2>2. CASE Reached(editor[e].by) = "sql"
    <3>1. tomb'["sql"] /\ claim' = CalledOff(claim)
      BY <1>13, <2>2 DEF CancelClaims, TypeOK, Store
    <3>2. Closing => Closing'
      BY <3>1 DEF CalledOff, NoClaim, Closing
    <3> QED
      BY <1>9, <2>1, <3>2
  <2>3. CASE Reached(editor[e].by) # "sql"
    <3>1. tomb'["sql"] = tomb["sql"] /\ claim' = claim
      BY <1>13, <2>3 DEF CancelClaims, TypeOK, Store, Reached
    <3>2. Closing => Closing'
      BY <2>1, <3>1 DEF Closing, InHand, Bound
    <3> QED
      BY <1>9, <2>1, <3>2
  <2> QED
    BY <2>2, <2>3
<1>14. ASSUME NEW e \in Editor, RearmOutbox(e) \/ RearmClaims(e) \/ Tear(e) PROVE Paying'
  <2>1. /\ UNCHANGED <<channel, who, claims, sends>>
        /\ \/ rearmed' = rearmed + 1 /\ faults' = faults
           \/ faults' = faults + 1 /\ rearmed' = rearmed
    BY <1>14 DEF RearmOutbox, RearmClaims, Tear
  <2>2. ClaimsPaid'
    BY <1>0, <2>1 DEF ClaimsPaid, Credit
  <2> QED
    BY <1>7, <2>1, <2>2
<1>11. CASE UNCHANGED vars
  <2>1. ClaimsPaid' /\ UNCHANGED <<channel, who, claims, sends>>
    BY <1>11 DEF vars, ClaimsPaid, Credit, Closing, InHand, Bound
  <2> QED
    BY <1>7, <2>1
<1> QED
  BY <1>1, <1>2, <1>3, <1>4, <1>5, <1>6, <1>8, <1>10, <1>11, <1>12, <1>13, <1>14
  DEF Next, Dispatch, Editing

-----------------------------------------------------------------------------
(* Theorems                                                                *)

LEMMA InitReminder == Init => TypeOK /\ Deliveries /\ Silence /\ Waiting
<1> SUFFICES ASSUME Init PROVE TypeOK /\ Deliveries /\ Silence /\ Waiting
  OBVIOUS
<1>1. TypeOK
  <2>1. who \in [Dispatcher -> Doing] /\ tomb \in [Store -> BOOLEAN]
    BY IdleType DEF Init
  <2>2. NoClaim \in Claim /\ NoNotice \in Notice
    BY DEF NoClaim, Claim, NoNotice, Notice
  <2>3. NoAck \in Acking /\ editor \in [Editor -> Edit]
    BY NoEditType DEF Init, NoAck, Acking
  <2>4. edits \in 0 .. MaxEdits /\ faults \in 0 .. MaxFaults
    BY ReminderDeliveryAssumption DEF Init
  <2> QED
    BY <2>1, <2>2, <2>3, <2>4 DEF Init, TypeOK
<1>2. Deliveries
  BY DEF Init, Idle, NoClaim, NoNotice, NoAck, Deliveries, Tokens, RowHasClaim, AckHasClaim,
         SafeDelivered, AckIsDelivered
<1>3. Silence
  BY DEF Init, NoEdit, Silence, ByRoute, CancelUnderWay, CancelDone
<1>4. Waiting
  BY DEF Init, Idle, NoClaim, Waiting, AwaitsBrowser, QueuedLast, QueuedShown, Acknowledgeable
<1> QED
  BY <1>1, <1>2, <1>3, <1>4

\* The rows and what dispatchers, clients and edits hold stay what they can be.
THEOREM ReminderTypes == Spec => []TypeOK
<1>1. Init => TypeOK
  BY InitReminder
<1> QED
  BY <1>1, TypeStep, PTL DEF Spec

\* Whoever edits the note, an acknowledged notification of the browser means a
\* delivered reminder: no later dispatch is swallowed by an old acknowledgement.
THEOREM AckMeansDelivered == Spec => []AckIsDelivered
<1>1. Init => TypeOK /\ Deliveries
  BY InitReminder
<1>2. TypeOK /\ Deliveries /\ [Next]_vars => (TypeOK /\ Deliveries)'
  BY TypeStep, DeliveriesStep
<1>3. Deliveries => AckIsDelivered
  BY DEF Deliveries
<1> QED
  BY <1>1, <1>2, <1>3, PTL DEF Spec

\* While every edit passes through the routes, from the end of a cancel until a
\* rearm no claim can be delivered and no notification waits to be shown, however
\* many cancels overlap, unless a rearm ran at the same time as the cancel.
THEOREM CancelledStaysQuiet == ASSUME "tool" \notin Caller PROVE Spec => []CancelHolds
<1>1. Init => TypeOK /\ Silence
  BY InitReminder
<1>2. TypeOK /\ Silence /\ [Next]_vars => (TypeOK /\ Silence)'
  BY TypeStep, SilenceStep
<1>3. Silence => CancelHolds
  BY DEF Silence, CancelDone, OpenClaim, CancelHolds
<1> QED
  BY <1>1, <1>2, <1>3, PTL DEF Spec

\* While every edit passes through the routes, a claim that waits for the client
\* has its notification, unless one was queued under a claim no longer held.
THEOREM WaitingCanBeAcknowledged == ASSUME "tool" \notin Caller PROVE Spec => []Acknowledgeable
<1>1. Init => TypeOK /\ Deliveries /\ Silence /\ Waiting
  BY InitReminder
<1>2. /\ TypeOK /\ Deliveries /\ Silence /\ Waiting /\ [Next]_vars
        => (TypeOK /\ Deliveries /\ Silence /\ Waiting)'
  BY TypeStep, DeliveriesStep, SilenceStep, WaitingStep
<1>3. Waiting => Acknowledgeable
  BY DEF Waiting
<1> QED
  BY <1>1, <1>2, <1>3, PTL DEF Spec

LEMMA InitPaying == Init => Paying
<1> SUFFICES ASSUME Init PROVE Paying
  OBVIOUS
<1>1. May = {}
  BY DEF Init, May
<1> QED
  BY <1>1, FS_EmptySet DEF Init, Idle, Paying, Alone, Silent, OncePerToken, ClaimsPaid, Credit

LEMMA PaidFor == TypeOK /\ Paying => SentOnce
<1> SUFFICES ASSUME TypeOK, Paying PROVE SentOnce
  OBVIOUS
<1>1. Cardinality(May) \in Nat /\ faults \in Nat /\ rearmed \in Nat
  BY MayFinite, ReminderDeliveryAssumption DEF TypeOK
<1> QED
  BY <1>1 DEF TypeOK, Paying, Silent, OncePerToken, ClaimsPaid, SentOnce

\* Whoever edits the note, every message after the first is paid for by a fault
\* or by a transaction that rearmed the reminder.
THEOREM EachMessageIsPaid == Spec => []SentOnce
<1>1. Init => TypeOK /\ Tokens /\ Paying
  BY InitReminder, InitPaying DEF Deliveries
<1>2. TypeOK /\ Tokens /\ Paying /\ [Next]_vars => (TypeOK /\ Tokens /\ Paying)'
  BY TypeStep, TokensStep, PayingStep
<1> QED
  BY <1>1, <1>2, PaidFor, PTL DEF Spec

-----------------------------------------------------------------------------
(* Dispatchers, clients and edits together are one alarm                   *)

avars == <<Quiet, Aloft, Fresh, Heard, sends, Paid, Done>>

\* What a client read, and what it may read, belongs to a claim there has been.
Known == outbox.token <= claims /\ (acker.phase = "read" => acker.token <= claims)

LEMMA KnownStep ==
  ASSUME TypeOK, TypeOK', Tokens, Known, [Next]_vars PROVE Known'
<1>1. ASSUME NEW d \in Dispatcher, ClaimReminder(d) PROVE Known'
  BY <1>1 DEF ClaimReminder, Known, TypeOK, Notice, Acking
<1>2. ASSUME NEW d \in Dispatcher, Check(d) \/ Send(d) \/ Finish(d) \/ Crash(d) PROVE Known'
  BY <1>2 DEF Check, Send, Finish, Crash, Known
<1>3. ASSUME NEW d \in Dispatcher, EnqueueBrowser(d) PROVE Known'
  <2>1. UNCHANGED <<claims, acker>> /\ who[d].token <= claims /\ who[d] \in Doing
    BY <1>3 DEF EnqueueBrowser, Tokens, TypeOK
  <2>2. outbox' = outbox \/ outbox' = Enqueued(who[d])
    BY <1>3 DEF EnqueueBrowser
  <2>3. Enqueued(who[d]).token \in {0, who[d].token, outbox.token}
    BY <2>1 DEF Enqueued, Linked, TypeOK, Notice
  <2> QED
    BY <2>1, <2>2, <2>3 DEF Known, TypeOK
<1>4. CASE AckRead
  BY <1>4 DEF AckRead, Known
<1>5. CASE AckClaim \/ AckRow
  <2>1. claims' = claims /\ outbox'.token = outbox.token /\ acker'.phase # "read"
    BY <1>5 DEF AckClaim, AckRow, NoAck, TypeOK, Acking, Notice
  <2> QED
    BY <2>1 DEF Known
<1>6. ASSUME NEW e \in Editor, CancelOutbox(e) PROVE Known'
  BY <1>6 DEF CancelOutbox, Dropped, NoNotice, Known, TypeOK
<1>7. ASSUME NEW e \in Editor, CancelClaims(e) \/ RearmOutbox(e) \/ RearmClaims(e) \/ Tear(e)
      PROVE  Known'
  BY <1>7 DEF CancelClaims, RearmOutbox, RearmClaims, Tear, Known
<1>8. CASE Lapse \/ UNCHANGED vars
  BY <1>8 DEF Lapse, vars, Known
<1> QED
  BY <1>1, <1>2, <1>3, <1>4, <1>5, <1>6, <1>7, <1>8 DEF Next, Dispatch, Acknowledging, Editing

AInv == TypeOK /\ Tokens /\ Known /\ Silence /\ Paying

\* While the reminder is called off its claim is not open.
LEMMA OpenIsWanted == ASSUME AInv, OpenClaim PROVE ~Quiet
  BY DEF AInv, Silence, CancelDone, Quiet

\* A claim kept, or one that went on for the same holder.
LEMMA SameDone == ASSUME claim' = claim PROVE Done' = Done
  BY DEF Done

\* Less may still be delivered when dispatchers and clients only go on for the
\* claims they had, tell nobody, and no claim is open that was not.
LEMMA Fewer ==
  ASSUME \A d \in Dispatcher : who'[d].phase # "idle" =>
           /\ who[d].phase # "idle"
           /\ who'[d].token = who[d].token
           /\ who'[d].phase = "sending" => who[d].phase = "sending"
           /\ who'[d].told => who[d].told,
         acker'.phase = "read" => acker' = acker,
         claim'.status = "claimed" => claim.status = "claimed",
         claim'.status = "awaiting" => claim.status \in {"claimed", "awaiting"},
         claim'.status \in {"claimed", "awaiting"} => claim'.token = claim.token
  PROVE  Aloft' \subseteq Aloft /\ Fresh' \subseteq Fresh /\ (Heard' => Heard)
<1>1. Aloft' \subseteq Aloft
  BY DEF Aloft
<1>2. Fresh' \subseteq Fresh
  BY <1>1 DEF Aloft, Fresh, Holds
<1>3. \A d \in Dispatcher : Told(d)' => Told(d)
  BY DEF Told, Holds
<1>4. Reading' => Reading
  BY DEF Reading, Holds
<1> QED
  BY <1>1, <1>2, <1>3, <1>4 DEF Heard

LEMMA LoseMaps ==
  ASSUME Fresh' \subseteq Fresh, Heard' => Heard, UNCHANGED <<Quiet, Aloft, sends, Paid, Done>>
  PROVE  [Abstract!Next]_avars
<1>1. Abstract!Lose
  BY DEF Abstract!Lose
<1> QED
  BY <1>1 DEF Abstract!Next

LEMMA TroubleMaps ==
  ASSUME Aloft' \subseteq Aloft, Fresh' \subseteq Fresh, Heard' => Heard,
         sends' = sends \/ (Aloft' # Aloft /\ sends' = sends + 1), Paid' = Paid + 1,
         UNCHANGED <<Quiet, Done>>
  PROVE  [Abstract!Next]_avars
<1>1. Abstract!Trouble
  BY DEF Abstract!Trouble
<1> QED
  BY <1>1 DEF Abstract!Next

LEMMA MorePaid ==
  ASSUME TypeOK, \/ faults' = faults + 1 /\ rearmed' = rearmed
                 \/ faults' = faults /\ rearmed' = rearmed + 1
  PROVE  Paid' = Paid + 1
<1>1. faults \in Nat /\ rearmed \in Nat
  BY ReminderDeliveryAssumption DEF TypeOK
<1> QED
  BY <1>1 DEF Paid

\* A new claim leaves what was sent or shown for the old one behind.
LEMMA ClaimMaps ==
  ASSUME AInv, NEW d \in Dispatcher, ClaimReminder(d) PROVE [Abstract!Next]_avars
<1>1. /\ claim'.status = "claimed" /\ claim'.token = claims + 1
      /\ who'[d].phase = "claimed" /\ ~who'[d].told /\ who[d].phase = "idle"
      /\ \A f \in Dispatcher : f # d => who'[f] = who[f]
      /\ UNCHANGED <<acker, intent, sends, faults, rearmed>>
      /\ claim.status # "delivered"
  BY DEF AInv, ClaimReminder, Refused, TypeOK, Idle
<1>2. claims \in Nat /\ \A f \in Dispatcher : who[f].phase # "idle" => who[f].token <= claims
  BY DEF AInv, TypeOK, Tokens
<1>3. Aloft' = Aloft
  BY <1>1 DEF Aloft
<1>4. Fresh' = {}
  <2>1. \A f \in Aloft : who'[f] = who[f] /\ who[f].token # claim'.token
    BY <1>1, <1>2 DEF Aloft, AInv, TypeOK, Doing
  <2> QED
    BY <1>3, <2>1 DEF Fresh, Holds
<1>5. ~Reading'
  BY <1>1, <1>2 DEF AInv, Known, TypeOK, Acking, Reading, Holds
<1>6. \A f \in Dispatcher : ~Told(f)'
  BY <1>1, <1>2 DEF Told, Holds, AInv, TypeOK, Doing
<1>7. ~Heard'
  BY <1>5, <1>6 DEF Heard
<1>8. UNCHANGED <<Quiet, Paid, Done>>
  BY <1>1 DEF Quiet, Paid, Done
<1> QED
  BY <1>1, <1>3, <1>4, <1>7, <1>8, LoseMaps

\* A dispatcher that finds its claim starts its message; to go on, or to be about
\* to close, is a stutter.
LEMMA CheckMaps ==
  ASSUME AInv, NEW d \in Dispatcher, Check(d) PROVE [Abstract!Next]_avars
<1>1. /\ UNCHANGED <<claim, acker, intent, sends, faults, rearmed>>
      /\ \A f \in Dispatcher : f # d => who'[f] = who[f]
      /\ who'[d].token = who[d].token /\ who'[d].told = who[d].told
      /\ who[d].phase \in {"claimed", "sent"} /\ who'[d].phase \in {"closing", "sending", "queueing"}
      /\ who'[d].phase = "sending" => Holds(who[d], {"claimed"})
  BY DEF AInv, Check, TypeOK, Doing
<1>2. UNCHANGED <<Quiet, Paid, Done>>
  BY <1>1 DEF Quiet, Paid, Done
<1>3. \A f \in Dispatcher : Told(f)' <=> Told(f)
  BY <1>1 DEF Told, Holds
<1>4. Heard' = Heard
  <2>1. Reading' <=> Reading
    BY <1>1 DEF Reading, Holds
  <2> QED
    BY <1>3, <2>1 DEF Heard
<1>5. CASE who'[d].phase = "sending"
  <2>1. Aloft' = Aloft \cup {d} /\ d \notin Aloft
    BY <1>1, <1>5 DEF Aloft
  <2>2. Fresh' = Fresh \cup {d}
    BY <1>1, <1>5, <2>1 DEF Aloft, Fresh, Holds
  <2>3. claim.status = "claimed"
    BY <1>1, <1>5 DEF Holds
  <2>4. ~Quiet /\ ~Done
    BY <2>3, OpenIsWanted DEF OpenClaim, Done
  <2>5. Abstract!Start(d)
    BY <1>1, <1>2, <1>4, <2>1, <2>2, <2>4 DEF Abstract!Start
  <2> QED
    BY <2>5 DEF Abstract!Next
<1>6. CASE who'[d].phase # "sending"
  <2>1. Aloft' = Aloft
    BY <1>1, <1>6 DEF Aloft
  <2>2. Fresh' = Fresh
    BY <1>1, <2>1 DEF Aloft, Fresh, Holds
  <2> QED
    BY <1>1, <1>2, <1>4, <2>1, <2>2 DEF avars
<1> QED
  BY <1>5, <1>6

\* A message that left rings, and counts if its claim is still held; an error is
\* trouble, whether it left or not.
LEMMA SendMaps ==
  ASSUME AInv, SentOnce', NEW d \in Dispatcher, Send(d) PROVE [Abstract!Next]_avars
<1>1. /\ UNCHANGED <<claim, acker, intent, rearmed>>
      /\ \A f \in Dispatcher : f # d => who'[f] = who[f]
      /\ who'[d].token = who[d].token
      /\ who[d].phase = "sending" /\ who'[d].phase = "sent"
  BY DEF AInv, Send, TypeOK, Doing
<1>2. \/ who'[d].told /\ sends' = sends + 1 /\ faults' = faults
      \/ who'[d].told = who[d].told /\ sends' \in {sends, sends + 1} /\ faults' = faults + 1
  BY DEF AInv, Send, TypeOK, Doing
<1>3. Aloft' = Aloft \ {d} /\ d \in Aloft
  BY <1>1 DEF Aloft
<1>4. Fresh' = Fresh \ {d}
  BY <1>1, <1>3 DEF Aloft, Fresh, Holds
<1>5. UNCHANGED <<Quiet, Done>>
  BY <1>1 DEF Quiet, Done
<1>6. /\ \A f \in Dispatcher : f # d => (Told(f)' <=> Told(f))
      /\ Reading' <=> Reading
  BY <1>1 DEF Told, Reading, Holds
<1>7. CASE who'[d].told /\ sends' = sends + 1 /\ faults' = faults
  <2>1. Told(d)' <=> Holds(who[d], {"claimed"})
    BY <1>1, <1>7 DEF Told, Holds
  <2>2. Holds(who[d], {"claimed"}) <=> d \in Fresh
    BY <1>3 DEF Fresh
  <2>3. Told(d) => Told(d)'
    BY <2>1 DEF Told
  <2>4. Heard' = (Heard \/ d \in Fresh)
    BY <1>6, <2>1, <2>2, <2>3 DEF Heard
  <2>5. Paid' = Paid
    BY <1>1, <1>7 DEF Paid
  <2>6. sends < Paid
    <3>1. sends \in Nat /\ Paid \in Nat
      BY ReminderDeliveryAssumption DEF AInv, TypeOK, Paid
    <3>2. sends' <= Paid'
      BY DEF SentOnce, Paid
    <3> QED
      BY <1>7, <2>5, <3>1, <3>2
  <2>7. Abstract!Ring(d)
    BY <1>3, <1>4, <1>5, <1>7, <2>4, <2>5, <2>6 DEF Abstract!Ring
  <2> QED
    BY <2>7 DEF Abstract!Next
<1>8. CASE /\ who'[d].told = who[d].told /\ sends' \in {sends, sends + 1}
           /\ faults' = faults + 1
  <2>1. Told(d)' <=> Told(d)
    BY <1>1, <1>8 DEF Told, Holds
  <2>2. Heard' => Heard
    BY <1>6, <2>1 DEF Heard
  <2>3. Paid' = Paid + 1
    BY <1>1, <1>8, MorePaid DEF AInv
  <2>4. Aloft' # Aloft
    BY <1>3
  <2> QED
    BY <1>3, <1>4, <1>5, <1>8, <2>2, <2>3, <2>4, TroubleMaps
<1> QED
  BY <1>2, <1>7, <1>8

\* Queueing a notification reaches nobody yet; that it fails is trouble.
LEMMA QueueMaps ==
  ASSUME AInv, NEW d \in Dispatcher, EnqueueBrowser(d) PROVE [Abstract!Next]_avars
<1>0. TypeOK
  BY DEF AInv
<1>1. /\ UNCHANGED <<claim, acker, intent, sends, rearmed>> /\ who[d].phase = "queueing"
      /\ faults' \in {faults, faults + 1}
  BY DEF EnqueueBrowser
<1>2. /\ \A f \in Dispatcher : f # d => who'[f] = who[f]
      /\ who'[d].phase = "closing" /\ who'[d].token = who[d].token
  BY <1>0, Queueing
<1>3. who'[d].told = who[d].told
  BY <1>0, QueueingTells
<1>4. Aloft' = Aloft
  BY <1>1, <1>2 DEF Aloft
<1>5. Fresh' = Fresh
  BY <1>1, <1>2, <1>4 DEF Aloft, Fresh, Holds
<1>6. /\ \A f \in Dispatcher : Told(f)' <=> Told(f)
      /\ Reading' <=> Reading
  BY <1>1, <1>2, <1>3 DEF Told, Reading, Holds
<1>7. Heard' = Heard
  BY <1>6 DEF Heard
<1>8. UNCHANGED <<Quiet, Done>>
  BY <1>1 DEF Quiet, Done
<1>9. CASE faults' = faults
  <2>1. Paid' = Paid
    BY <1>1, <1>9 DEF Paid
  <2> QED
    BY <1>1, <1>4, <1>5, <1>7, <1>8, <2>1 DEF avars
<1>10. CASE faults' = faults + 1
  <2>1. Paid' = Paid + 1
    BY <1>0, <1>1, <1>10, MorePaid
  <2> QED
    BY <1>1, <1>4, <1>5, <1>7, <1>8, <2>1, TroubleMaps
<1> QED
  BY <1>1, <1>9, <1>10

\* Closing a claim under which a message was sent delivers the reminder.
LEMMA FinishMaps ==
  ASSUME AInv, NEW d \in Dispatcher, Finish(d) PROVE [Abstract!Next]_avars
<1>1. /\ UNCHANGED <<channel, acker, intent, sends, faults, rearmed>>
      /\ \A f \in Dispatcher : f # d => who'[f] = who[f]
      /\ who[d].phase = "closing" /\ who'[d].phase = "idle"
      /\ claim' = IF Holds(who[d], {"claimed"}) THEN Closed(claim, who[d]) ELSE claim
  BY DEF AInv, Finish, TypeOK, Idle
<1>2. Aloft' = Aloft
  BY <1>1 DEF Aloft
<1>3. UNCHANGED <<Quiet, Paid>>
  BY <1>1 DEF Quiet, Paid
<1>4. /\ claim'.status \in {"claimed", "awaiting"} => claim'.token = claim.token
      /\ claim'.status = "claimed" => claim.status = "claimed"
      /\ claim'.status = "awaiting" => claim.status \in {"claimed", "awaiting"}
      /\ claim'.status = "delivered" => claim.status = "delivered"
           \/ (Holds(who[d], {"claimed"}) /\ who[d].told)
      /\ claim.status = "delivered" => claim'.status = "delivered"
  BY <1>1 DEF Closed, Holds, AInv, TypeOK, Claim
<1>5. Fresh' \subseteq Fresh /\ (Heard' => Heard)
  BY <1>1, <1>4, Fewer
<1>6. CASE claim.status # "delivered" /\ claim'.status = "delivered"
  <2>1. Told(d) /\ claim.status = "claimed"
    BY <1>1, <1>4, <1>6 DEF Told, Holds
  <2>2. ~Quiet /\ Heard /\ ~Done /\ Done'
    BY <1>6, <2>1, OpenIsWanted DEF OpenClaim, Heard, Done
  <2>3. Fresh' = {} /\ ~Reading' /\ \A f \in Dispatcher : ~Told(f)'
    BY <1>6 DEF Fresh, Reading, Told, Holds
  <2>4. ~Heard'
    BY <2>3 DEF Heard
  <2>5. Abstract!Deliver
    BY <1>1, <1>2, <1>3, <2>2, <2>3, <2>4 DEF Abstract!Deliver
  <2> QED
    BY <2>5 DEF Abstract!Next
<1>7. CASE claim.status = "delivered" \/ claim'.status # "delivered"
  <2>1. Done' = Done
    BY <1>4, <1>7 DEF Done
  <2> QED
    BY <1>1, <1>2, <1>3, <1>5, <2>1, LoseMaps
<1> QED
  BY <1>6, <1>7

LEMMA CrashMaps ==
  ASSUME AInv, NEW d \in Dispatcher, Crash(d) PROVE [Abstract!Next]_avars
<1>1. /\ UNCHANGED <<claim, acker, intent, sends, rearmed>>
      /\ \A f \in Dispatcher : f # d => who'[f] = who[f]
      /\ who'[d].phase = "idle" /\ faults' = faults + 1
  BY DEF AInv, Crash, TypeOK, Idle
<1>2. Aloft' \subseteq Aloft /\ Fresh' \subseteq Fresh /\ (Heard' => Heard)
  BY <1>1, Fewer
<1>3. UNCHANGED <<Quiet, Done>>
  BY <1>1 DEF Quiet, Done
<1>4. Paid' = Paid + 1
  BY <1>1, MorePaid DEF AInv
<1> QED
  BY <1>1, <1>2, <1>3, <1>4, TroubleMaps

\* Whether the lease has run out does not matter to what the claim is held for.
LEMMA LapseMaps == ASSUME AInv, Lapse PROVE [Abstract!Next]_avars
<1>1. /\ UNCHANGED <<who, acker, intent, sends, rearmed>>
      /\ claim'.status = claim.status /\ claim'.token = claim.token
  BY DEF AInv, Lapse, TypeOK, Claim
<1>2. faults' = faults \/ faults' = faults + 1
  BY Zenon DEF Lapse
<1>3. Aloft' = Aloft /\ Fresh' \subseteq Fresh /\ (Heard' => Heard)
  <2>1. Aloft' = Aloft
    BY <1>1 DEF Aloft
  <2> QED
    BY <1>1, <2>1, Fewer
<1>4. UNCHANGED <<Quiet, Done>>
  BY <1>1 DEF Quiet, Done
<1>5. CASE faults' = faults
  <2>1. Paid' = Paid
    BY <1>1, <1>5 DEF Paid
  <2> QED
    BY <1>1, <1>3, <1>4, <2>1, LoseMaps
<1>6. CASE faults' = faults + 1
  <2>1. Paid' = Paid + 1
    BY <1>1, <1>6, MorePaid DEF AInv
  <2> QED
    BY <1>1, <1>3, <1>4, <2>1, TroubleMaps
<1> QED
  BY <1>2, <1>5, <1>6

\* A client that is shown the notification of the present claim is reached.
LEMMA ReadMaps == ASSUME AInv, AckRead PROVE [Abstract!Next]_avars
<1>1. /\ UNCHANGED <<claim, who, intent, sends, faults, rearmed>>
      /\ acker.phase = "idle" /\ outbox.state = "pending"
  BY DEF AckRead
<1>2. UNCHANGED <<Quiet, Paid, Done>>
  BY <1>1 DEF Quiet, Paid, Done
<1>3. Aloft' = Aloft
  BY <1>1 DEF Aloft
<1>4. Fresh' = Fresh
  BY <1>1, <1>3 DEF Fresh, Holds
<1>5. (\A d \in Dispatcher : Told(d)' <=> Told(d)) /\ ~Reading
  BY <1>1 DEF Told, Reading, Holds
<1>6. CASE Reading'
  <2>1. ~Quiet
    BY <1>1 DEF AInv, Silence, CancelDone, Quiet
  <2>2. ~Done
    BY <1>1, <1>6 DEF Reading, Holds, Done
  <2>3. Heard'
    BY <1>6 DEF Heard
  <2>4. Abstract!Show
    BY <1>1, <1>2, <1>3, <1>4, <2>1, <2>2, <2>3 DEF Abstract!Show
  <2> QED
    BY <2>4 DEF Abstract!Next
<1>7. CASE ~Reading'
  <2>1. Heard' => Heard
    BY <1>5, <1>7 DEF Heard
  <2> QED
    BY <1>1, <1>2, <1>3, <1>4, <2>1, LoseMaps
<1> QED
  BY <1>6, <1>7

\* Acknowledging it delivers the reminder.
LEMMA AckMaps == ASSUME AInv, AckClaim \/ AckRow PROVE [Abstract!Next]_avars
<1>1. /\ UNCHANGED <<who, intent, sends, faults, rearmed>> /\ acker'.phase # "read"
      /\ \/ claim' = claim
         \/ Reading /\ claim'.status = "delivered"
  BY DEF AckClaim, AckRow, AInv, TypeOK, Acking, Claim, NoAck, Reading
<1>2. UNCHANGED <<Quiet, Paid>>
  BY <1>1 DEF Quiet, Paid
<1>3. Aloft' = Aloft
  BY <1>1 DEF Aloft
<1>4. CASE claim' = claim
  <2>1. Fresh' \subseteq Fresh /\ (Heard' => Heard)
    BY <1>1, <1>4, Fewer
  <2>2. Done' = Done
    BY <1>4 DEF Done
  <2> QED
    BY <1>1, <1>2, <1>3, <2>1, <2>2, LoseMaps
<1>5. CASE Reading /\ claim'.status = "delivered"
  <2>1. claim.status \in {"claimed", "awaiting"}
    BY <1>5 DEF Reading, Holds
  <2>2. ~Quiet /\ Heard /\ ~Done /\ Done'
    BY <1>5, <2>1, OpenIsWanted DEF OpenClaim, Heard, Done
  <2>3. Fresh' = {} /\ ~Reading' /\ \A f \in Dispatcher : ~Told(f)'
    BY <1>5 DEF Fresh, Reading, Told, Holds
  <2>4. ~Heard'
    BY <2>3 DEF Heard
  <2>5. Abstract!Deliver
    BY <1>1, <1>2, <1>3, <2>2, <2>3, <2>4 DEF Abstract!Deliver
  <2> QED
    BY <2>5 DEF Abstract!Next
<1> QED
  BY <1>1, <1>4, <1>5

\* What either transaction of a rearm and the second of a cancel may do to the
\* claim.
LEMMA EditedClaim ==
  ASSUME TypeOK, claim' \in {claim, CalledOff(claim), Rearmed(claim)}
  PROVE  /\ claim'.status \in {"claimed", "awaiting"} => claim' = claim
         /\ claim'.status = "delivered" <=> claim.status = "delivered"
  BY DEF TypeOK, Claim, CalledOff, Rearmed, NoClaim

LEMMA EditMaps ==
  ASSUME AInv, Silence', Editing PROVE [Abstract!Next]_avars
<1>0. TypeOK
  BY DEF AInv
<1>1. UNCHANGED <<who, acker, sends>>
  BY EditLeaves
<1>2. claim' \in {claim, CalledOff(claim), Rearmed(claim)}
  BY EditLeaves
<1>3. /\ claim'.status \in {"claimed", "awaiting"} => claim' = claim
      /\ claim'.status = "delivered" <=> claim.status = "delivered"
  BY <1>0, <1>2, EditedClaim
<1>4. Aloft' = Aloft
  BY <1>1 DEF Aloft
<1>5. Fresh' \subseteq Fresh /\ (Heard' => Heard)
  BY <1>1, <1>3, Fewer
<1>6. Done' = Done
  BY <1>3 DEF Done
<1>7. ASSUME NEW e \in Editor, CancelOutbox(e) PROVE [Abstract!Next]_avars
  <2>1. UNCHANGED <<Quiet, Paid>>
    BY <1>7 DEF CancelOutbox, AInv, Silence, CancelDone, Quiet, Paid
  <2> QED
    BY <1>1, <1>4, <1>5, <1>6, <2>1, LoseMaps
<1>8. ASSUME NEW e \in Editor, CancelClaims(e) PROVE [Abstract!Next]_avars
  <2>1. Paid' = Paid /\ intent' \in {intent, "quiet"}
    BY <1>8 DEF CancelClaims, Paid
  <2>2. CASE intent' = "quiet"
    <3>1. claim'.status \notin {"claimed", "awaiting"}
      BY <2>2 DEF Silence, CancelDone, OpenClaim
    <3>2. Fresh' = {} /\ ~Reading' /\ \A d \in Dispatcher : ~Told(d)'
      BY <3>1 DEF Fresh, Reading, Told, Holds
    <3>3. ~Heard' /\ Quiet'
      BY <2>2, <3>2 DEF Heard, Quiet
    <3>4. Abstract!CallOff
      BY <1>1, <1>4, <1>6, <2>1, <3>2, <3>3 DEF Abstract!CallOff
    <3> QED
      BY <3>4 DEF Abstract!Next
  <2>3. CASE intent' # "quiet"
    <3>1. Quiet' = Quiet
      BY <2>1, <2>3 DEF Quiet
    <3> QED
      BY <1>1, <1>4, <1>5, <1>6, <2>1, <3>1, LoseMaps
  <2> QED
    BY <2>2, <2>3
<1>9. ASSUME NEW e \in Editor, RearmOutbox(e) \/ RearmClaims(e) PROVE [Abstract!Next]_avars
  <2>1. rearmed' = rearmed + 1 /\ faults' = faults
    BY <1>9 DEF RearmOutbox, RearmClaims
  <2>2. ~Quiet'
    BY <1>9 DEF RearmOutbox, RearmClaims, Rearming, AInv, Silence, CancelDone, Quiet
  <2>3. Paid' = Paid + 1
    BY <1>0, <2>1, MorePaid
  <2>4. Abstract!Rearm
    BY <1>1, <1>4, <1>5, <1>6, <2>2, <2>3 DEF Abstract!Rearm
  <2> QED
    BY <2>4 DEF Abstract!Next
<1>10. ASSUME NEW e \in Editor, Tear(e) PROVE [Abstract!Next]_avars
  <2>1. faults' = faults + 1 /\ rearmed' = rearmed /\ intent' = intent
    BY <1>10 DEF Tear
  <2>2. Paid' = Paid + 1 /\ Quiet' = Quiet
    BY <1>0, <2>1, MorePaid DEF Quiet
  <2> QED
    BY <1>1, <1>4, <1>5, <1>6, <2>2, TroubleMaps
<1> QED
  BY <1>7, <1>8, <1>9, <1>10 DEF Editing

\* Dispatchers, clients and edits, with crashes, errors, lapsed leases and torn
\* edits, are together one alarm: it rings no more than is owed, starts nothing
\* while it is called off, and is delivered only once it reached its owner since.
THEOREM Implements == ASSUME "tool" \notin Caller PROVE Spec => ImplementsAlarm
<1>1. Init => AInv /\ Abstract!Init
  <2> SUFFICES ASSUME Init PROVE AInv /\ Abstract!Init
    OBVIOUS
  <2>1. TypeOK /\ Tokens /\ Silence
    BY InitReminder DEF Deliveries
  <2>2. Known
    BY DEF Init, NoNotice, NoAck, Known
  <2>3. Paying
    BY InitPaying
  <2>4. Aloft = {} /\ Fresh = {}
    BY DEF Init, Idle, Aloft, Fresh
  <2>5. ~Heard
    BY DEF Init, Idle, NoAck, Heard, Told, Reading
  <2>6. ~Quiet /\ ~Done /\ sends = 0 /\ Paid = 1
    BY DEF Init, NoClaim, Quiet, Done, Paid
  <2> QED
    BY <2>1, <2>2, <2>3, <2>4, <2>5, <2>6 DEF AInv, Abstract!Init
<1>2. AInv /\ [Next]_vars => AInv'
  <2> SUFFICES ASSUME AInv, [Next]_vars PROVE AInv'
    OBVIOUS
  <2>1. TypeOK'
    BY TypeStep DEF AInv
  <2> QED
    BY <2>1, TokensStep, KnownStep, SilenceStep, PayingStep DEF AInv
<1>3. AInv => SentOnce
  BY PaidFor DEF AInv
<1>4. AInv /\ AInv' /\ SentOnce' /\ [Next]_vars => [Abstract!Next]_avars
  <2> SUFFICES ASSUME AInv, AInv', SentOnce', [Next]_vars PROVE [Abstract!Next]_avars
    OBVIOUS
  <2>1. Silence'
    BY DEF AInv
  <2>2. ASSUME NEW d \in Dispatcher, ClaimReminder(d) \/ Dispatch(d) \/ Crash(d)
        PROVE  [Abstract!Next]_avars
    BY <2>1, <2>2, ClaimMaps, CheckMaps, SendMaps, QueueMaps, FinishMaps, CrashMaps DEF Dispatch
  <2>3. CASE Lapse \/ Acknowledging \/ Editing
    BY <2>1, <2>3, LapseMaps, ReadMaps, AckMaps, EditMaps DEF Acknowledging
  <2>4. CASE UNCHANGED vars
    <3>1. UNCHANGED <<claim, who, acker, intent, sends, faults, rearmed>>
      BY <2>4 DEF vars
    <3>2. UNCHANGED <<Quiet, Aloft, Paid, Done>>
      BY <3>1 DEF Quiet, Aloft, Paid, Done
    <3>3. Fresh' \subseteq Fresh /\ (Heard' => Heard)
      BY <3>1, Fewer
    <3> QED
      BY <3>1, <3>2, <3>3, LoseMaps
  <2> QED
    BY <2>2, <2>3, <2>4 DEF Next
<1>5. Spec => []AInv
  BY <1>1, <1>2, PTL DEF Spec
<1> QED
  BY <1>1, <1>3, <1>4, <1>5, PTL DEF Spec, ImplementsAlarm, Abstract!Spec, Abstract!alarm, avars
=============================================================================
