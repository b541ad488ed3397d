-------------------------- MODULE CalendarDelivery --------------------------
(***************************************************************************)
(* One event of a CalDAV-backed calendar: the user's edits                 *)
(* (src/calendar_service.py), the outbox rows they queue, the workers that *)
(* deliver them (src/calendar_delivery.py), the conditional requests they  *)
(* send (src/caldav_writeback.py) and the pull that copies the server's    *)
(* event back (src/caldav_sync.py).                                        *)
(*                                                                         *)
(* A worker claims, loads a snapshot, sends its one request, and in one    *)
(* transaction reads its claim again and records the outcome.  The event   *)
(* row is fenced by its version; the ETag a delivery leaves there changes  *)
(* without one, and a failure is written to the delivery's row unfenced.   *)
(* A pull reads the event row and writes the columns that differ later.    *)
(*                                                                         *)
(* Abstracted: an event's fields as one Text, a remote STATUS:CANCELLED as *)
(* one of the Cancelling texts; remote_href as its being there; the        *)
(* request refused with 412 and the GET that explains it as one step; the  *)
(* delay of a retry (it is due at once).  Left out: the legacy             *)
(* caldav_sync_pending marker, which no code sets any more, and            *)
(* idempotency keys.                                                       *)
(***************************************************************************)
EXTENDS Naturals, Sequences

CONSTANTS
  Worker,       \* threads that drain the outbox
  Text,         \* what an event can say
  Cancelling,   \* those with STATUS:CANCELLED, which only other clients write
  NoText,       \* the text of an event that is not there
  PromptRecord, \* no claim is taken over between its last check and the commit
  MaxAttempts,  \* MAX_DELIVERY_ATTEMPTS
  MaxVersion,   \* bound on the event's version
  MaxRows,      \* bound on the deliveries of the event
  MaxFaults     \* bound on crashes, lost requests or ETags, foreign edits, rebinds

ASSUME CalendarDeliveryAssumption ==
  /\ MaxAttempts \in Nat \ {0} /\ MaxVersion \in Nat \ {0}
  /\ MaxRows \in Nat /\ MaxFaults \in Nat
  /\ NoText \notin Text /\ Cancelling \subseteq Text
  /\ PromptRecord \in BOOLEAN

VARIABLES
  event,   \* the CalendarEvent row
  row,     \* its CalendarDelivery rows, in the order they were created
  rows,    \* how many there are
  config,  \* config_version of the calendar
  remote,  \* the server's copy
  etags,   \* ETags the server has given out
  worker,  \* what each worker has read and is about to do
  claims,  \* claims so far: a claim_token is the number of its claim
  pull,    \* the synchronisation in progress
  faults   \* faults so far

vars == <<event, row, rows, config, remote, etags, worker, claims, pull, faults>>

\* etag 0 stands for NULL, href for remote_href.  History: pulled, the version
\* that a pull wrote, 0 if none; torn, that it left an ETag newer than its text.
Event == [status : {"absent", "confirmed", "cancelled"}, text : Text \cup {NoText},
          version : Nat, href : BOOLEAN, etag : Nat, origin : {"local", "caldav"},
          pulled : Nat, torn : BOOLEAN]

\* asked: what the user wanted of this delivery, in turn; NoText is to delete it
\* (history).
Row == [state : {"none", "pending", "processing", "retry", "conflict", "completed", "cancelled"},
        op : {"create", "update", "delete"}, text : Text \cup {NoText},
        gen : Nat, config : Nat, attempts : Nat, token : Nat, lapsed : BOOLEAN,
        asked : Seq(Text \cup {NoText})]

\* etag 0: no such resource; by: the delivery that made it so, 0 for another
\* client (history).
Copy == [etag : Nat, text : Text \cup {NoText}, by : Nat]

\* version: the event's when the claim was last checked.
Doing == [phase : {"idle", "loading", "sending", "recording", "writing"}, row : Nat,
          token : Nat, op : {"none", "create", "update", "delete"},
          text : Text \cup {NoText}, etag : Nat, config : Nat, version : Nat,
          result : {"none", "done", "retry", "conflict"}]

\* copy: as the server listed it; old: the event row as the pull read it.
Pull == [phase : {"idle", "listed", "missing", "verified", "found", "lost"}, copy : Copy,
         old : Event]

NoRow   == [state |-> "none", op |-> "create", text |-> NoText, gen |-> 0, config |-> 0,
            attempts |-> 0, token |-> 0, lapsed |-> FALSE, asked |-> << >>]
Gone(i) == [etag |-> 0, text |-> NoText, by |-> i]
Idle    == [phase |-> "idle", row |-> 0, token |-> 0, op |-> "none", text |-> NoText,
            etag |-> 0, config |-> 0, version |-> 0, result |-> "none"]
Absent  == [status |-> "absent", text |-> NoText, version |-> 0, href |-> FALSE, etag |-> 0,
            origin |-> "local", pulled |-> 0, torn |-> FALSE]
NoPull  == [phase |-> "idle", copy |-> Gone(0), old |-> Absent]

TypeOK ==
  /\ event \in Event
  /\ row \in [1 .. MaxRows -> Row] /\ rows \in 0 .. MaxRows
  /\ config \in Nat \ {0} /\ remote \in Copy /\ etags \in Nat
  /\ worker \in [Worker -> Doing] /\ claims \in Nat
  /\ pull \in Pull /\ faults \in 0 .. MaxFaults

Status(t) == IF t \in Cancelling THEN "cancelled" ELSE "confirmed"

\* The event is yet to be created here, or an earlier pull brought it.
Init ==
  /\ \/ event = Absent /\ remote = Gone(0) /\ etags = 0
     \/ \E t \in Text :
          /\ event = [status |-> Status(t), text |-> t, version |-> 1, href |-> TRUE, etag |-> 1,
                      origin |-> "caldav", pulled |-> 1, torn |-> FALSE]
          /\ remote = [etag |-> 1, text |-> t, by |-> 0] /\ etags = 1
  /\ row = [i \in 1 .. MaxRows |-> NoRow] /\ rows = 0
  /\ config = 1 /\ worker = [w \in Worker |-> Idle] /\ claims = 0
  /\ pull = NoPull /\ faults = 0

-----------------------------------------------------------------------------
(* The user's edits, each one transaction with the delivery it queues.     *)

Open(i)  == row[i].state \notin {"none", "completed", "cancelled"}
AnyOpen  == \E i \in 1 .. rows : Open(i)

\* ~_has_earlier_open_delivery.  Mutant: a delivery in conflict is not waited for.
FirstUsable(i) == Open(i) /\ \A j \in 1 .. (i - 1) : Open(j) => row[j].state = "conflict"
First(i)       == Open(i) /\ \A j \in 1 .. (i - 1) : ~Open(j)

\* _coalesce_open_create_delivery: a create no worker owns takes later edits.
\* Mutant: any delivery no worker owns does.
FoldableAny(i) == row[i].state \in {"pending", "retry"}
Foldable(i) == row[i].op = "create" /\ row[i].state \in {"pending", "retry"}

Folded(r, op, e) ==
  [r EXCEPT !.text = e.text, !.gen = e.version, !.config = config,
            !.state = IF op = "delete" THEN "cancelled" ELSE "pending",
            !.asked = IF op = "delete" THEN @ ELSE Append(@, e.text)]

Queued(op, e) ==
  [NoRow EXCEPT !.state = "pending", !.op = op, !.text = e.text, !.gen = e.version,
                !.config = config, !.asked = <<IF op = "delete" THEN NoText ELSE e.text>>]

\* _enqueue_delivery
Enqueue(op, e) ==
  IF op # "create" /\ \E i \in 1 .. rows : Foldable(i)
  THEN /\ \E i \in 1 .. rows : Foldable(i) /\ row' = [row EXCEPT ![i] = Folded(@, op, e)]
       /\ UNCHANGED rows
  ELSE /\ rows < MaxRows
       /\ rows' = rows + 1
       /\ row' = [row EXCEPT ![rows + 1] = Queued(op, e)]

\* create_calendar_event
Create(t) ==
  /\ event.status = "absent"
  /\ event' = [event EXCEPT !.status = "confirmed", !.text = t, !.version = 1]
  /\ Enqueue("create", event')
  /\ UNCHANGED <<config, remote, etags, worker, claims, pull, faults>>

\* update_, reschedule_, cancel_, restore_calendar_event and
\* restore_calendar_event_snapshot: _mutate_existing with something to change.
Mutate(status, t) ==
  /\ event.status # "absent" /\ event.version < MaxVersion
  /\ <<status, t>> # <<event.status, event.text>>
  /\ event' = [event EXCEPT !.status = status, !.text = t, !.version = @ + 1, !.torn = FALSE]
  /\ Enqueue(IF status = "cancelled" THEN "delete" ELSE "update", event')
  /\ UNCHANGED <<config, remote, etags, worker, claims, pull, faults>>

-----------------------------------------------------------------------------
(* The workers                                                             *)

\* _eligible_delivery_filter.  Mutant: a claim whose worker died is not taken over.
EligibleOnce(r) == r.state \in {"pending", "retry"}
Eligible(r)     == r.state \in {"pending", "retry"} \/ (r.state = "processing" /\ r.lapsed)

\* _claim_one.  Idle workers are all alike: the one that claims is always the same.
Claim(w) ==
  /\ worker[w].phase = "idle" /\ w = CHOOSE v \in Worker : worker[v].phase = "idle"
  /\ \E i \in 1 .. rows :
       /\ First(i) /\ Eligible(row[i])
       /\ PromptRecord => \A v \in Worker : worker[v].phase = "writing" => worker[v].row # i
       /\ row' = [row EXCEPT ![i] = [@ EXCEPT !.state = "processing", !.token = claims + 1,
                                             !.lapsed = FALSE,
                                             !.attempts = row[i].attempts + 1]]
       /\ worker' = [worker EXCEPT ![w] =
                       [Idle EXCEPT !.phase = "loading", !.row = i, !.token = claims + 1]]
  /\ claims' = claims + 1
  /\ UNCHANGED <<event, rows, config, remote, etags, pull, faults>>

\* _claimed_delivery
Claimed(s) == row[s.row].state = "processing" /\ row[s.row].token = s.token

\* _event_generation_is_covered.  Mutant: not looked at.
CoveredAlways(i) == TRUE
Covered(i) ==
  \/ event.version = row[i].gen
  \/ /\ event.version > row[i].gen
     /\ \E j \in (i + 1) .. rows : Open(j) /\ row[j].gen = event.version

\* What _execute_delivery sends: it follows the href and ETag the event row has.
Request(op) ==
  CASE op = "delete" -> IF event.href THEN "delete" ELSE "none"
    [] op # "delete" -> IF event.href /\ event.etag # 0 THEN "update" ELSE "create"

\* A worker with nothing to record but a failure (snapshot.clear()).
Failed(s, result) ==
  [Idle EXCEPT !.phase = "recording", !.row = s.row, !.token = s.token, !.result = result]

\* _load_delivery_snapshot, in a transaction of its own.  A delivery that was
\* completed and opened again has lost its payload.
Load(w) ==
  LET s == worker[w] IN LET r == row[s.row] IN
  /\ s.phase = "loading"
  /\ worker' = [worker EXCEPT ![w] =
       IF ~Claimed(s) THEN Idle
       ELSE IF r.config # config \/ r.text = NoText \/ ~Covered(s.row)
       THEN Failed(s, "conflict")
       ELSE [s EXCEPT !.phase = "sending", !.op = Request(r.op), !.text = r.text,
                      !.etag = event.etag, !.config = r.config]]
  /\ UNCHANGED <<event, row, rows, config, remote, etags, claims, pull, faults>>

\* What the request is for: nothing there yet (If-None-Match: *), or the copy it
\* names (If-Match).  Mutant: an update or a delete without its If-Match.
PreconditionNone(s) == IF s.op = "create" THEN {0} ELSE {remote.etag} \ {0}
Precondition(s)     == IF s.op = "create" THEN {0} ELSE {s.etag} \ {0}

\* The server's side of it.
Accepts(s) == s.op # "none" /\ remote.etag \in Precondition(s)

Served(s) ==
  IF ~Accepts(s) THEN remote
  ELSE IF s.op = "delete" THEN Gone(s.row)
  ELSE [etag |-> etags + 1, text |-> s.text, by |-> s.row]

GivenOut(s) == IF Accepts(s) /\ s.op # "delete" THEN etags + 1 ELSE etags

\* Is there a request to send?  A delete without an ETag is given up before.
Asks(s) == s.op \in {"create", "update"} \/ (s.op = "delete" /\ s.etag # 0)

\* What put_calendar_event and delete_calendar_event make of the answer.  A
\* refused PUT that finds its own text there counts as delivered, a create only
\* if the resource is at the href it would have had.
Answered(s) ==
  LET done(e)  == [s EXCEPT !.phase = "recording", !.result = "done", !.etag = e]
      conflict == Failed(s, "conflict")
  IN CASE s.op = "none" \/ (s.op = "delete" /\ s.etag # 0 /\ (Accepts(s) \/ remote.etag = 0))
            -> {done(0)}
       [] s.op \in {"create", "update"} /\ Accepts(s)
            -> {done(etags + 1)}
       [] s.op \in {"create", "update"} /\ ~Accepts(s) /\ remote.text = s.text
            -> {done(remote.etag)} \cup (IF s.op = "create" THEN {conflict} ELSE {})
       [] OTHER -> {conflict}

\* _execute_delivery, with no transaction open.
Send(w) ==
  LET s == worker[w] IN
  /\ s.phase = "sending"
  /\ remote' = Served(s) /\ etags' = GivenOut(s)
  /\ \E q \in Answered(s) : worker' = [worker EXCEPT ![w] = q]
  /\ UNCHANGED <<event, row, rows, config, claims, pull, faults>>

\* The same, but the request or its answer is lost.
Lose(w) ==
  LET s == worker[w] IN
  /\ s.phase = "sending" /\ Asks(s) /\ faults < MaxFaults
  /\ \/ remote' = Served(s) /\ etags' = GivenOut(s)
     \/ UNCHANGED <<remote, etags>>
  /\ worker' = [worker EXCEPT ![w] = Failed(@, "retry")]
  /\ faults' = faults + 1
  /\ UNCHANGED <<event, row, rows, config, claims, pull>>

\* The claim is read again, and with it the attempts a retry depends on.
Recheck(w) ==
  LET s == worker[w]
      exhausted == row[s.row].attempts >= MaxAttempts IN
  /\ s.phase = "recording"
  /\ worker' = [worker EXCEPT ![w] =
       IF ~Claimed(s) THEN Idle
       ELSE [s EXCEPT !.phase = "writing", !.version = event.version,
                      !.result = IF @ = "retry" /\ exhausted THEN "conflict" ELSE @]]
  /\ UNCHANGED <<event, row, rows, config, remote, etags, claims, pull, faults>>

\* _fail_delivery, by primary key, whatever became of the claim.
Failure(r, result) == [r EXCEPT !.state = result, !.token = 0, !.lapsed = FALSE]

Completed(r) ==
  [r EXCEPT !.state = "completed", !.text = NoText, !.token = 0, !.lapsed = FALSE]

\* _complete_delivery: a claim lost since it was checked is noticed after the
\* event row was written, and the conflict commits with it.
Deliver(s) ==
  /\ s.config = config /\ Covered(s.row)
  /\ event' = [event EXCEPT !.href = s.op \in {"create", "update"}, !.etag = s.etag]
  /\ row' = [row EXCEPT ![s.row] = IF Claimed(s) THEN Completed(@) ELSE Failure(@, "conflict")]

\* The calendar or the event is no longer what was delivered.
GiveUp(s) ==
  /\ s.config # config \/ ~Covered(s.row) \/ event.version # s.version
  /\ row' = [row EXCEPT ![s.row] = Failure(@, "conflict")]
  /\ UNCHANGED event

\* The rest of the transaction, or _record_delivery_failure.
Record(w) ==
  LET s == worker[w] IN
  /\ s.phase = "writing"
  /\ worker' = [worker EXCEPT ![w] = Idle]
  /\ \/ s.result = "done" /\ (Deliver(s) \/ GiveUp(s))
     \/ /\ s.result # "done" /\ UNCHANGED event
        /\ row' = [row EXCEPT ![s.row] = Failure(@, s.result)]
  /\ UNCHANGED <<rows, config, remote, etags, claims, pull, faults>>

\* The process dies, or an unexpected exception leaves the lease behind.
Crash(w) ==
  /\ worker[w].phase # "idle" /\ faults < MaxFaults
  /\ worker' = [worker EXCEPT ![w] = Idle] /\ faults' = faults + 1
  /\ UNCHANGED <<event, row, rows, config, remote, etags, claims, pull>>

\* lease_expires_at passes.  Outliving one's lease is a fault of the worker.
Lapse(i) ==
  LET alive == \E w \in Worker : worker[w].token = row[i].token IN
  /\ row[i].state = "processing" /\ ~row[i].lapsed
  /\ alive => faults < MaxFaults
  /\ row' = [row EXCEPT ![i] = [@ EXCEPT !.lapsed = TRUE]]
  /\ faults' = IF alive THEN faults + 1 ELSE faults
  /\ UNCHANGED <<event, rows, config, remote, etags, worker, claims, pull>>

-----------------------------------------------------------------------------
(* The pull                                                                *)

\* The listing is read from the server before any row is looked at; it may come
\* without the ETag.
List ==
  /\ pull.phase = "idle" /\ event.status # "absent"
  /\ \/ /\ pull' = [NoPull EXCEPT !.phase = "listed", !.copy = [remote EXCEPT !.by = 0]]
        /\ UNCHANGED faults
     \/ /\ remote.etag # 0 /\ faults < MaxFaults
        /\ pull' = [NoPull EXCEPT !.phase = "listed", !.copy = [remote EXCEPT !.by = 0, !.etag = 0]]
        /\ faults' = faults + 1
  /\ UNCHANGED <<event, row, rows, config, remote, etags, worker, claims>>

\* _find_existing_event.
Find ==
  /\ pull.phase = "listed" /\ pull.copy.text # NoText
  /\ pull' = [pull EXCEPT !.phase = "found", !.old = event]
  /\ UNCHANGED <<event, row, rows, config, remote, etags, worker, claims, faults>>

\* The values of the copy (_remote_event_values), and of one that disappeared.
Pulled(old, c) ==
  [old EXCEPT !.status = Status(c.text), !.text = c.text, !.href = TRUE, !.etag = c.etag,
              !.origin = "caldav"]
Vanished(old) == [old EXCEPT !.status = "cancelled", !.href = FALSE, !.etag = 0]

\* _guard_remote_overwrite.  Mutant: a delivery in conflict protects no edit.
OverwritableConflict == \A i \in 1 .. rows : Open(i) => row[i].state = "conflict"
Overwritable         == ~AnyOpen

\* _cas_event of the columns in which new differs from the row as it was read.
\* The ETag a delivery has left since then stays, beside what is written.
Written(old, new) ==
  [event EXCEPT !.status = IF new.status = old.status THEN @ ELSE new.status,
                !.text = IF new.text = old.text THEN @ ELSE new.text,
                !.href = IF new.href = old.href THEN @ ELSE new.href,
                !.etag = IF new.etag = old.etag THEN @ ELSE new.etag,
                !.origin = IF new.origin = old.origin THEN @ ELSE new.origin,
                !.version = @ + 1, !.pulled = event.version + 1,
                !.torn = /\ new.etag = old.etag /\ event.etag # old.etag
                         /\ <<new.status, new.text>> # <<old.status, old.text>>]

\* The code looks at the deliveries before it writes; until then only an edit,
\* which moves the version, opens one.
Refresh(old, new) ==
  IF Overwritable /\ event.version = old.version /\ new # old
  THEN event.version < MaxVersion /\ event' = Written(old, new)
  ELSE UNCHANGED event

\* ingest_remote_calendar_event
Ingest ==
  /\ pull.phase = "found"
  /\ pull' = NoPull /\ Refresh(pull.old, Pulled(pull.old, pull.copy))
  /\ UNCHANGED <<row, rows, config, remote, etags, worker, claims, faults>>

\* A pulled event the listing lacks: its version is noted before the server
\* is asked again.
Missing ==
  /\ pull.phase = "listed" /\ pull.copy.text = NoText
  /\ pull' = IF event.origin = "caldav" /\ event.href
             THEN [NoPull EXCEPT !.phase = "missing", !.old.version = event.version] ELSE NoPull
  /\ UNCHANGED <<event, row, rows, config, remote, etags, worker, claims, faults>>

\* _remote_uid_presence
Verify ==
  /\ pull.phase = "missing"
  /\ pull' = IF remote.etag = 0 THEN [pull EXCEPT !.phase = "verified"] ELSE NoPull
  /\ UNCHANGED <<event, row, rows, config, remote, etags, worker, claims, faults>>

\* cancel_missing_remote_calendar_event reads the row again: its version must
\* be the one noted.
Reload ==
  /\ pull.phase = "verified"
  /\ pull' = IF event.version = pull.old.version
             THEN [pull EXCEPT !.phase = "lost", !.old = event] ELSE NoPull
  /\ UNCHANGED <<event, row, rows, config, remote, etags, worker, claims, faults>>

CancelMissing ==
  /\ pull.phase = "lost"
  /\ pull' = NoPull /\ Refresh(pull.old, Vanished(pull.old))
  /\ UNCHANGED <<row, rows, config, remote, etags, worker, claims, faults>>

-----------------------------------------------------------------------------
(* Others                                                                  *)

\* Another client of the same calendar writes or deletes the event.
Foreign ==
  /\ remote.etag # 0 /\ faults < MaxFaults
  /\ \/ \E t \in Text : remote' = [etag |-> etags + 1, text |-> t, by |-> 0] /\ etags' = etags + 1
     \/ remote' = Gone(0) /\ UNCHANGED etags
  /\ faults' = faults + 1
  /\ UNCHANGED <<event, row, rows, config, worker, claims, pull>>

\* The calendar is renamed (update_calendar_collection) or its account bound
\* anew (_fence_changed_caldav_accounts).
Reconfigure ==
  /\ faults < MaxFaults
  /\ config' = config + 1 /\ faults' = faults + 1
  /\ UNCHANGED <<event, row, rows, remote, etags, worker, claims, pull>>

Edit  == \E t \in Text \ Cancelling :
           Create(t) \/ \E s \in {"confirmed", "cancelled"} : Mutate(s, t)
Work  == \E w \in Worker : \/ Claim(w) \/ Load(w) \/ Send(w) \/ Lose(w)
                           \/ Recheck(w) \/ Record(w) \/ Crash(w)
Sync  == List \/ Find \/ Ingest \/ Missing \/ Verify \/ Reload \/ CancelMissing
Next  == Edit \/ Work \/ (\E i \in 1 .. rows : Lapse(i)) \/ Sync \/ Foreign \/ Reconfigure

\* calendar_delivery_loop polls for good; time passes.  Edits, pulls and
\* faults owe nothing.
Fairness ==
  /\ \A w \in Worker : /\ WF_vars(Load(w)) /\ WF_vars(Send(w))
                       /\ WF_vars(Recheck(w)) /\ WF_vars(Record(w))
  /\ WF_vars(\E w \in Worker : Claim(w))
  /\ \A i \in 1 .. MaxRows : WF_vars(i <= rows /\ Lapse(i))

Spec     == Init /\ [][Next]_vars
FairSpec == Spec /\ Fairness

-----------------------------------------------------------------------------
(* Properties                                                              *)

\* The promise of TwoCopies.  The user's side knows the server's copy if the
\* event row has its href and ETag; a delivery is seen to be in effect by the
\* holder of its claim who is about to record it; one was settled behind a pull's
\* back if the ETag is not the one it read.
Mine   == IF event.status = "confirmed" THEN event.text ELSE NoText
Theirs == remote.text
Author == remote.by
Known  == event.href /\ event.etag # 0 /\ event.etag = remote.etag
Asked  == [i \in 1 .. MaxRows |-> row[i].asked]
Opened == {i \in 1 .. rows : Open(i)}
SeenBy(w) == /\ worker[w].phase \in {"recording", "writing"} /\ worker[w].result = "done"
             /\ Claimed(worker[w])
InEffect  == {worker[w].row : w \in {v \in Worker : SeenBy(v)}}
Looked == IF pull.phase = "idle" THEN << >> ELSE <<pull.copy.text>>
Late   == pull.phase \in {"found", "lost"} /\ event.etag # pull.old.etag

Abstract == INSTANCE TwoCopies
  WITH None <- NoText, Void <- Cancelling, Delivery <- 1 .. MaxRows, mine <- Mine, theirs <- Theirs,
       author <- Author, known <- Known, asked <- Asked, open <- Opened, seen <- InEffect,
       looked <- Looked, late <- Late

ImplementsTwoCopies == Abstract!Spec

\* Per-event FIFO: a delivery is not begun before every earlier one of the
\* event is closed, a delivery given up for a conflict included.
InOrder ==
  \A i \in 1 .. rows : \A j \in 1 .. (i - 1) : row[i].attempts > 0 => ~Open(j)

\* However late a worker's request arrives, it never writes an earlier delivery
\* over a later one, nor deletes what a later one wrote.
QueueOrder ==
  [][(remote.etag # 0 /\ remote' # remote /\ remote'.by # 0) => remote'.by >= remote.by]_vars

\* No delivery writes over, or deletes, another client's change that no pull
\* has shown the user.
ForeignKept ==
  [][(remote.etag # 0 /\ remote.by = 0 /\ remote' # remote /\ remote'.by # 0)
     => event.etag = remote.etag]_vars

\* Once the outbox of the event is empty, an ETag that the event row shares
\* with the server stands for what the row says: the next conditional update
\* replaces no text but the one the user saw.  The exception: a pull that read
\* the row before the last delivery was recorded and wrote it after.
TrustedEtag ==
  (~AnyOpen /\ event.etag # 0 /\ event.etag = remote.etag /\ ~event.torn)
    => event.text = remote.text /\ event.status = Status(event.text)

\* A pull replaces the user's last edit only after that edit was delivered,
\* or was folded into a create that was called off.
EditsStand ==
  [][event'.pulled # event.pulled =>
       \/ event.version = event.pulled
       \/ \E i \in 1 .. rows : row[i].gen = event.version /\ row[i].state \in {"completed", "cancelled"}
    ]_vars

\* The delivery at the head of the queue does not stay there, other than in
\* conflict, whatever crashes: its lease lapses, it is taken over, its attempts
\* run out.
HeadSettles ==
  \A i \in 1 .. MaxRows :
    []<>~(i <= rows /\ First(i) /\ row[i].state # "conflict")

\* Every queued delivery is of the event's generation or has a successor that
\* is, so that no worker gives it up as "event changed without delivery".  The
\* exception: a create that took a later edit over the delivery's head.
GenerationsCovered ==
  \A i \in 1 .. rows :
    (Open(i) /\ row[i].state # "conflict")
      => \/ Covered(i)
         \/ \E j \in 1 .. (i - 1) : row[j].op = "create" /\ row[j].gen > row[i].gen
=============================================================================
