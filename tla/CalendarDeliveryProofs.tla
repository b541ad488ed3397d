----------------------- MODULE CalendarDeliveryProofs -----------------------
(***************************************************************************)
(* Proofs about CalendarDelivery: for any set of workers and texts and     *)
(* whatever the bounds, the deliveries of an event reach the server in     *)
(* order, none writes over a change of another client that the event row   *)
(* has not seen, no pull undoes an edit that was not delivered, no edit    *)
(* goes without a delivery, and an ETag stands for the text it came with.  *)
(***************************************************************************)
EXTENDS CalendarDelivery, TLAPS

-----------------------------------------------------------------------------
(* Types                                                                   *)

RowOps == {"create", "update", "delete"}
Rows   == [1 .. MaxRows -> Row]

LEMMA RowWith ==
  ASSUME TypeOK, NEW i \in 1 .. MaxRows, NEW r \in Row
  PROVE  [row EXCEPT ![i] = r] \in Rows
  BY DEF TypeOK, Rows

LEMMA WorkerWith ==
  ASSUME TypeOK, NEW w \in Worker, NEW s \in Doing
  PROVE  [worker EXCEPT ![w] = s] \in [Worker -> Doing]
  BY DEF TypeOK

LEMMA NoRowType == NoRow \in Row
<1> DEFINE nothing == << >>
<1>1. nothing \in Seq(Text \cup {NoText})
  OBVIOUS
<1>2. NoRow = [state |-> "none", op |-> "create", text |-> NoText, gen |-> 0, config |-> 0,
               attempts |-> 0, token |-> 0, lapsed |-> FALSE, asked |-> nothing]
  BY Zenon DEF NoRow
<1> HIDE DEF nothing
<1> QED
  BY <1>1, <1>2 DEF Row

LEMMA FoldedType ==
  ASSUME TypeOK, NEW r \in Row, NEW op, NEW e \in Event
  PROVE  Folded(r, op, e) \in Row
<1>1. /\ e.text \in Text \cup {NoText} /\ e.version \in Nat /\ config \in Nat
      /\ r.asked \in Seq(Text \cup {NoText})
  BY DEF TypeOK, Row, Event
<1>2. Append(r.asked, e.text) \in Seq(Text \cup {NoText})
  BY <1>1
<1> DEFINE more == IF op = "delete" THEN r.asked ELSE Append(r.asked, e.text)
<1>3. more \in Seq(Text \cup {NoText})
  BY <1>1, <1>2
<1>4. Folded(r, op, e) =
        [r EXCEPT !.text = e.text, !.gen = e.version, !.config = config,
                  !.state = IF op = "delete" THEN "cancelled" ELSE "pending", !.asked = more]
  BY DEF Folded, Row
<1> HIDE DEF more
<1> QED
  BY <1>1, <1>3, <1>4 DEF Row

LEMMA QueuedType ==
  ASSUME TypeOK, NEW op \in RowOps, NEW e \in Event
  PROVE  Queued(op, e) \in Row
<1> DEFINE t == IF op = "delete" THEN NoText ELSE e.text
<1>1. /\ e.text \in Text \cup {NoText} /\ e.version \in Nat /\ config \in Nat
      /\ t \in Text \cup {NoText}
  BY DEF TypeOK, Event
<1>2. <<t>> \in Seq(Text \cup {NoText})
  BY <1>1
<1> DEFINE new == <<t>>
<1>3. Queued(op, e) =
        [NoRow EXCEPT !.state = "pending", !.op = op, !.text = e.text, !.gen = e.version,
                      !.config = config, !.asked = new]
  BY Zenon DEF Queued
<1>4. new \in Seq(Text \cup {NoText})
  BY <1>2
<1>5. NoRow \in Row
  BY NoRowType
<1> HIDE DEF t, new
<1> QED
  BY <1>1, <1>3, <1>4, <1>5 DEF Row, RowOps

LEMMA EnqueueType ==
  ASSUME TypeOK, NEW op \in RowOps, NEW e \in Event, Enqueue(op, e)
  PROVE  row' \in Rows /\ rows' \in 0 .. MaxRows
<1>1. CASE UNCHANGED rows /\ \E i \in 1 .. rows : row' = [row EXCEPT ![i] = Folded(@, op, e)]
  <2>1. PICK i \in 1 .. rows : row' = [row EXCEPT ![i] = Folded(row[i], op, e)]
    BY <1>1
  <2>2. i \in 1 .. MaxRows /\ row[i] \in Row /\ rows \in 0 .. MaxRows
    BY CalendarDeliveryAssumption DEF TypeOK
  <2>3. Folded(row[i], op, e) \in Row
    BY <2>2, FoldedType
  <2> QED
    BY <1>1, <2>1, <2>2, <2>3, RowWith
<1>2. CASE /\ rows < MaxRows /\ rows' = rows + 1
           /\ row' = [row EXCEPT ![rows + 1] = Queued(op, e)]
  <2>1. rows + 1 \in 1 .. MaxRows
    BY <1>2, CalendarDeliveryAssumption DEF TypeOK
  <2>2. Queued(op, e) \in Row
    BY QueuedType
  <2>3. row' \in Rows
    BY <1>2, <2>1, <2>2, RowWith
  <2> QED
    BY <1>2, <2>1, <2>3, CalendarDeliveryAssumption
<1> QED
  BY <1>1, <1>2 DEF Enqueue

LEMMA ServedType ==
  ASSUME TypeOK, NEW s \in Doing PROVE Served(s) \in Copy /\ GivenOut(s) \in Nat
<1>1. etags + 1 \in Nat
  BY DEF TypeOK
<1> QED
  BY <1>1 DEF TypeOK, Served, GivenOut, Gone, Copy, Doing

Results == {"retry", "conflict"}

\* A worker that has a failure to record.
LEMMA FailedWorker ==
  ASSUME NEW s \in Doing, NEW result \in Results
  PROVE  /\ Failed(s, result) \in Doing
         /\ Failed(s, result).phase = "recording" /\ Failed(s, result).result = result
         /\ Failed(s, result).row = s.row /\ Failed(s, result).token = s.token
         /\ Failed(s, result).etag = 0
  BY DEF Failed, Idle, Doing, Results

\* A worker that has an answer to record.
Done(s, e) == [s EXCEPT !.phase = "recording", !.result = "done", !.etag = e]

LEMMA DoneWorker ==
  ASSUME NEW s \in Doing, NEW e \in Nat
  PROVE  /\ Done(s, e) \in Doing
         /\ Done(s, e).phase = "recording" /\ Done(s, e).result = "done"
         /\ Done(s, e).row = s.row /\ Done(s, e).token = s.token /\ Done(s, e).etag = e
         /\ Done(s, e).text = s.text /\ Done(s, e).op = s.op
  BY DEF Done, Doing

\* The ways in which a request is answered.
LEMMA AnsweredCases ==
  ASSUME NEW s, NEW q \in Answered(s)
  PROVE  \/ q = Failed(s, "conflict")
         \/ /\ q = Done(s, 0)
            /\ \/ s.op = "none"
               \/ s.op = "delete" /\ s.etag # 0 /\ (Accepts(s) \/ remote.etag = 0)
         \/ q = Done(s, etags + 1) /\ s.op \in {"create", "update"} /\ Accepts(s)
         \/ /\ q = Done(s, remote.etag)
            /\ s.op \in {"create", "update"} /\ ~Accepts(s) /\ remote.text = s.text
<1>1. CASE s.op = "none" \/ (s.op = "delete" /\ s.etag # 0 /\ (Accepts(s) \/ remote.etag = 0))
  BY <1>1 DEF Answered, Done
<1>2. CASE s.op \in {"create", "update"}
  BY <1>2 DEF Answered, Done
<1>3. CASE ~(s.op \in {"none", "create", "update"}
             \/ (s.op = "delete" /\ s.etag # 0 /\ (Accepts(s) \/ remote.etag = 0)))
  BY <1>3 DEF Answered
<1> QED
  BY <1>1, <1>2, <1>3

LEMMA AnsweredType ==
  ASSUME TypeOK, NEW s \in Doing, NEW q \in Answered(s) PROVE q \in Doing
<1>1. etags + 1 \in Nat /\ remote.etag \in Nat /\ 0 \in Nat /\ "conflict" \in Results
  BY DEF TypeOK, Copy, Results
<1>2. /\ Failed(s, "conflict") \in Doing /\ Done(s, 0) \in Doing
      /\ Done(s, etags + 1) \in Doing /\ Done(s, remote.etag) \in Doing
  BY <1>1, DoneWorker, FailedWorker
<1> QED
  BY Zenon, <1>2, AnsweredCases

LEMMA FailureType ==
  ASSUME NEW r \in Row, NEW result \in Results
  PROVE  Failure(r, result) \in Row /\ Completed(r) \in Row
  BY CalendarDeliveryAssumption DEF Failure, Completed, Row, Results

LEMMA IdleType == Idle \in Doing
  BY DEF Idle, Doing

\* What Claim makes of the delivery q and of the worker.
Begun(q, t) == [q EXCEPT !.state = "processing", !.token = t, !.lapsed = FALSE,
                         !.attempts = q.attempts + 1]
Taken(i, t) == [Idle EXCEPT !.phase = "loading", !.row = i, !.token = t]

LEMMA BegunRow ==
  ASSUME NEW q \in Row, NEW t \in Nat
  PROVE  /\ Begun(q, t) \in Row
         /\ Begun(q, t).state = "processing" /\ Begun(q, t).token = t
         /\ Begun(q, t).attempts > 0
         /\ Begun(q, t).op = q.op /\ Begun(q, t).gen = q.gen
<1>1. q.attempts + 1 \in Nat /\ q.attempts + 1 > 0
  BY DEF Row
<1> QED
  BY <1>1 DEF Begun, Row

LEMMA TakenWorker ==
  ASSUME NEW i \in Nat, NEW t \in Nat
  PROVE  /\ Taken(i, t) \in Doing
         /\ Taken(i, t).phase = "loading" /\ Taken(i, t).row = i /\ Taken(i, t).token = t
         /\ Taken(i, t).etag = 0
  BY DEF Taken, Idle, Doing

LEMMA ClaimEffect ==
  ASSUME TypeOK, NEW w \in Worker, Claim(w)
  PROVE  \E i \in 1 .. rows :
           /\ i \in 1 .. MaxRows /\ First(i)
           /\ PromptRecord => \A v \in Worker : worker[v].phase = "writing" => worker[v].row # i
           /\ row' = [row EXCEPT ![i] = Begun(row[i], claims + 1)]
           /\ worker' = [worker EXCEPT ![w] = Taken(i, claims + 1)]
           /\ Begun(row[i], claims + 1) \in Row /\ Taken(i, claims + 1) \in Doing
<1>1. PICK i \in 1 .. rows :
        /\ First(i)
        /\ PromptRecord => \A v \in Worker : worker[v].phase = "writing" => worker[v].row # i
        /\ row' = [row EXCEPT ![i] = Begun(row[i], claims + 1)]
        /\ worker' = [worker EXCEPT ![w] = Taken(i, claims + 1)]
  BY Zenon DEF Claim, Begun, Taken
<1>2. i \in 1 .. MaxRows /\ i \in Nat /\ row[i] \in Row /\ claims + 1 \in Nat
  BY CalendarDeliveryAssumption DEF TypeOK
<1>3. Begun(row[i], claims + 1) \in Row /\ Taken(i, claims + 1) \in Doing
  BY <1>2, BegunRow, TakenWorker
<1> QED
  BY <1>1, <1>2, <1>3

\* A worker works on a delivery that it, or another, has begun, and has a result
\* to record when it is about to.
Working ==
  \A w \in Worker : worker[w].phase # "idle" =>
    /\ worker[w].row \in 1 .. rows /\ row[worker[w].row].attempts > 0
    /\ worker[w].phase \in {"recording", "writing"} => worker[w].result # "none"

LEMMA WorkingRow ==
  ASSUME TypeOK, Working, NEW w \in Worker, worker[w].phase # "idle"
  PROVE  /\ worker[w].row \in 1 .. rows /\ worker[w].row \in 1 .. MaxRows
         /\ row[worker[w].row] \in Row /\ row[worker[w].row].attempts > 0
  BY CalendarDeliveryAssumption DEF TypeOK, Working

\* What a worker sends when it loads its delivery.
Loaded(s) ==
  [s EXCEPT !.phase = "sending", !.op = Request(row[s.row].op), !.text = row[s.row].text,
            !.etag = event.etag, !.config = row[s.row].config]

LEMMA LoadedWorker ==
  ASSUME TypeOK, NEW s \in Doing, row[s.row] \in Row
  PROVE  /\ Loaded(s) \in Doing /\ Loaded(s).phase = "sending"
         /\ Loaded(s).row = s.row /\ Loaded(s).token = s.token
         /\ Loaded(s).etag = event.etag /\ Loaded(s).op = Request(row[s.row].op)
         /\ Loaded(s).text = row[s.row].text
<1> DEFINE op == Request(row[s.row].op)
           t == row[s.row].text
           c == row[s.row].config
           e == event.etag
<1>1. op \in {"none", "create", "update", "delete"} /\ e \in Nat
  BY DEF Request, TypeOK, Event
<1>2. t \in Text \cup {NoText} /\ c \in Nat
  BY DEF Row
<1>3. Loaded(s) = [s EXCEPT !.phase = "sending", !.op = op, !.text = t, !.etag = e, !.config = c]
  BY Zenon DEF Loaded
<1> HIDE DEF op, t, c, e
<1>4. /\ Loaded(s) \in Doing /\ Loaded(s).phase = "sending"
      /\ Loaded(s).row = s.row /\ Loaded(s).token = s.token
      /\ Loaded(s).etag = e /\ Loaded(s).op = op /\ Loaded(s).text = t
  BY <1>1, <1>2, <1>3 DEF Doing
<1> QED
  BY Zenon, <1>4 DEF op, t, e

\* What Load does to the worker.
LEMMA LoadEffect ==
  ASSUME TypeOK, Working, NEW w \in Worker, Load(w)
  PROVE  /\ worker[w].phase = "loading" /\ worker[w] \in Doing
         /\ UNCHANGED <<event, row, rows, config, remote, etags, claims, pull, faults>>
         /\ \/ worker' = [worker EXCEPT ![w] = Idle]
            \/ worker' = [worker EXCEPT ![w] = Failed(worker[w], "conflict")]
            \/ Claimed(worker[w]) /\ worker' = [worker EXCEPT ![w] = Loaded(worker[w])]
         /\ Idle \in Doing /\ Failed(worker[w], "conflict") \in Doing /\ Loaded(worker[w]) \in Doing
<1> DEFINE s == worker[w]
<1>1. s \in Doing /\ s.phase = "loading" /\ row[s.row] \in Row
  BY WorkingRow DEF Load, TypeOK
<1>2. UNCHANGED <<event, row, rows, config, remote, etags, claims, pull, faults>>
  BY DEF Load
<1>3. \/ worker' = [worker EXCEPT ![w] = Idle]
      \/ worker' = [worker EXCEPT ![w] = Failed(worker[w], "conflict")]
      \/ Claimed(worker[w]) /\ worker' = [worker EXCEPT ![w] = Loaded(worker[w])]
  BY DEF Load, Loaded
<1>6. Idle \in Doing /\ Failed(s, "conflict") \in Doing /\ Loaded(s) \in Doing
  BY <1>1, IdleType, FailedWorker, LoadedWorker DEF Results
<1> QED
  BY <1>1, <1>2, <1>3, <1>6

\* A worker that has checked its claim.
Checked(s) ==
  [s EXCEPT !.phase = "writing", !.version = event.version,
            !.result = IF @ = "retry" /\ row[s.row].attempts >= MaxAttempts THEN "conflict" ELSE @]

LEMMA CheckedWorker ==
  ASSUME TypeOK, NEW s \in Doing
  PROVE  /\ Checked(s) \in Doing /\ Checked(s).phase = "writing"
         /\ Checked(s).row = s.row /\ Checked(s).token = s.token /\ Checked(s).etag = s.etag
         /\ Checked(s).op = s.op /\ Checked(s).text = s.text
         /\ Checked(s).result = "done" <=> s.result = "done"
         /\ Checked(s).result = "none" <=> s.result = "none"
<1> DEFINE r == IF s.result = "retry" /\ row[s.row].attempts >= MaxAttempts THEN "conflict" ELSE s.result
           v == event.version
<1>1. /\ r \in {"none", "done", "retry", "conflict"} /\ v \in Nat
      /\ (r = "done" <=> s.result = "done") /\ (r = "none" <=> s.result = "none")
  BY DEF Doing, TypeOK, Event
<1>2. Checked(s) = [s EXCEPT !.phase = "writing", !.version = v, !.result = r]
  BY DEF Checked, Doing
<1> HIDE DEF r, v
<1> QED
  BY <1>1, <1>2 DEF Doing

LEMMA RecheckEffect ==
  ASSUME TypeOK, NEW w \in Worker, Recheck(w)
  PROVE  /\ worker[w].phase = "recording" /\ worker[w] \in Doing
         /\ UNCHANGED <<event, row, rows, config, remote, etags, claims, pull, faults>>
         /\ \/ worker' = [worker EXCEPT ![w] = Idle]
            \/ Claimed(worker[w]) /\ worker' = [worker EXCEPT ![w] = Checked(worker[w])]
         /\ Idle \in Doing /\ Checked(worker[w]) \in Doing
<1>1. worker[w] \in Doing /\ worker[w].phase = "recording"
  BY DEF Recheck, TypeOK
<1>2. UNCHANGED <<event, row, rows, config, remote, etags, claims, pull, faults>>
  BY DEF Recheck
<1>3. \/ worker' = [worker EXCEPT ![w] = Idle]
      \/ Claimed(worker[w]) /\ worker' = [worker EXCEPT ![w] = Checked(worker[w])]
  BY Zenon DEF Recheck, Checked
<1> QED
  BY <1>1, <1>2, <1>3, IdleType, CheckedWorker

\* What a delivery leaves in the event row.
Told(s) == [event EXCEPT !.href = s.op \in {"create", "update"}, !.etag = s.etag]

LEMMA ToldEvent ==
  ASSUME TypeOK, NEW s \in Doing
  PROVE  /\ Told(s) \in Event /\ Told(s).etag = s.etag
         /\ Told(s).href <=> s.op \in {"create", "update"}
         /\ Told(s).text = event.text /\ Told(s).status = event.status
         /\ Told(s).version = event.version /\ Told(s).pulled = event.pulled
         /\ Told(s).origin = event.origin /\ Told(s).torn = event.torn
<1> DEFINE h == s.op \in {"create", "update"}
           t == s.etag
<1>1. h \in BOOLEAN /\ t \in Nat /\ event \in Event
  BY DEF Doing, TypeOK
<1>2. Told(s) = [event EXCEPT !.href = h, !.etag = t]
  BY Zenon DEF Told
<1> HIDE DEF h, t
<1>3. /\ Told(s) \in Event /\ Told(s).etag = t /\ Told(s).href = h
      /\ Told(s).text = event.text /\ Told(s).status = event.status
      /\ Told(s).version = event.version /\ Told(s).pulled = event.pulled
      /\ Told(s).origin = event.origin /\ Told(s).torn = event.torn
  BY <1>1, <1>2 DEF Event
<1> QED
  BY <1>3 DEF h, t

\* What Record does, whatever became of the claim.
LEMMA RecordRow ==
  ASSUME TypeOK, Working, NEW w \in Worker, Record(w)
  PROVE  LET s == worker[w] IN LET i == s.row IN
         /\ i \in 1 .. rows /\ i \in 1 .. MaxRows /\ row[i] \in Row /\ row[i].attempts > 0
         /\ s \in Doing /\ s.phase = "writing"
         /\ worker' = [worker EXCEPT ![w] = Idle]
         /\ UNCHANGED <<rows, config, remote, etags, claims, pull, faults>>
         /\ \/ /\ s.result = "done" /\ Covered(i)
               /\ event' = Told(s)
               /\ \/ Claimed(s) /\ row' = [row EXCEPT ![i] = Completed(row[i])]
                  \/ ~Claimed(s) /\ row' = [row EXCEPT ![i] = Failure(row[i], "conflict")]
            \/ /\ UNCHANGED event
               /\ \E result \in Results : row' = [row EXCEPT ![i] = Failure(row[i], result)]
<1> DEFINE s == worker[w]
           i == s.row
<1>1. /\ i \in 1 .. rows /\ i \in 1 .. MaxRows /\ row[i] \in Row /\ row[i].attempts > 0
      /\ s \in Doing /\ s.phase = "writing" /\ s.result # "none"
  BY WorkingRow DEF Record, TypeOK, Working
<1>2. worker' = [worker EXCEPT ![w] = Idle] /\ UNCHANGED <<rows, config, remote, etags, claims, pull, faults>>
  BY DEF Record
<1>3. CASE s.result = "done" /\ Deliver(s)
  <2>1. /\ Covered(i)
        /\ event' = Told(s)
    BY Zenon, <1>3 DEF Deliver, Told
  <2>2. \/ Claimed(s) /\ row' = [row EXCEPT ![i] = Completed(row[i])]
        \/ ~Claimed(s) /\ row' = [row EXCEPT ![i] = Failure(row[i], "conflict")]
    BY Zenon, <1>3 DEF Deliver
  <2> HIDE DEF s
  <2> QED
    BY <1>1, <1>2, <1>3, <2>1, <2>2 DEF s
<1>4. CASE s.result = "done" /\ GiveUp(s)
  <2>1. UNCHANGED event /\ row' = [row EXCEPT ![i] = Failure(row[i], "conflict")]
    BY Zenon, <1>4 DEF GiveUp
  <2> QED
    BY <1>1, <1>2, <2>1 DEF Results
<1>5. CASE s.result # "done"
  <2>1. UNCHANGED event /\ row' = [row EXCEPT ![i] = Failure(row[i], s.result)]
    BY Zenon, <1>5 DEF Record
  <2>2. s.result \in Results
    BY <1>1, <1>5 DEF Doing, Results
  <2> QED
    BY <1>1, <1>2, <2>1, <2>2
<1> QED
  BY <1>3, <1>4, <1>5 DEF Record

\* What a pull writes.
LEMMA NoPullType ==
  /\ Absent \in Event /\ NoPull \in Pull /\ NoPull.phase = "idle"
  /\ NoPull.copy = Gone(0) /\ NoPull.copy.etag = 0 /\ NoPull.copy.text = NoText
  /\ NoPull.old = Absent /\ NoPull.old.etag = 0 /\ NoPull.old.version = 0
<1>1. Absent \in Event /\ Absent.etag = 0 /\ Absent.version = 0
  BY DEF Absent, Event
<1>2. Gone(0) \in Copy /\ Gone(0).etag = 0 /\ Gone(0).text = NoText
  BY DEF Gone, Copy
<1>3. NoPull = [phase |-> "idle", copy |-> Gone(0), old |-> Absent]
  BY DEF NoPull
<1> QED
  BY <1>1, <1>2, <1>3 DEF Pull

LEMMA PulledType ==
  ASSUME NEW old \in Event, NEW c \in Copy
  PROVE  /\ Pulled(old, c) \in Event /\ Pulled(old, c).status = Status(c.text)
         /\ Pulled(old, c).text = c.text /\ Pulled(old, c).etag = c.etag
         /\ Pulled(old, c).href = TRUE /\ Status(c.text) \in {"confirmed", "cancelled"}
<1>1. c.text \in Text \cup {NoText} /\ c.etag \in Nat /\ Status(c.text) \in {"confirmed", "cancelled"}
  BY DEF Copy, Status
<1> QED
  BY <1>1 DEF Pulled, Event

LEMMA VanishedType ==
  ASSUME NEW old \in Event
  PROVE  /\ Vanished(old) \in Event /\ Vanished(old).status = "cancelled"
         /\ Vanished(old).text = old.text /\ Vanished(old).etag = 0 /\ Vanished(old).href = FALSE
  BY DEF Vanished, Event

LEMMA WrittenType ==
  ASSUME TypeOK, NEW old \in Event, NEW new \in Event
  PROVE  LET e == Written(old, new) IN
         /\ e \in Event /\ e.version = event.version + 1 /\ e.pulled = event.version + 1
         /\ e.status = (IF new.status = old.status THEN event.status ELSE new.status)
         /\ e.text = (IF new.text = old.text THEN event.text ELSE new.text)
         /\ e.href = (IF new.href = old.href THEN event.href ELSE new.href)
         /\ e.etag = (IF new.etag = old.etag THEN event.etag ELSE new.etag)
         /\ e.torn <=> /\ new.etag = old.etag /\ event.etag # old.etag
                       /\ <<new.status, new.text>> # <<old.status, old.text>>
<1> DEFINE st == IF new.status = old.status THEN event.status ELSE new.status
           te == IF new.text = old.text THEN event.text ELSE new.text
           hr == IF new.href = old.href THEN event.href ELSE new.href
           et == IF new.etag = old.etag THEN event.etag ELSE new.etag
           og == IF new.origin = old.origin THEN event.origin ELSE new.origin
           to == /\ new.etag = old.etag /\ event.etag # old.etag
                 /\ <<new.status, new.text>> # <<old.status, old.text>>
           v  == event.version + 1
<1>1. /\ st \in {"absent", "confirmed", "cancelled"} /\ te \in Text \cup {NoText} /\ hr \in BOOLEAN
      /\ et \in Nat /\ og \in {"local", "caldav"} /\ to \in BOOLEAN /\ v \in Nat /\ event \in Event
  BY DEF TypeOK, Event
<1>2. Written(old, new) = [event EXCEPT !.status = st, !.text = te, !.href = hr, !.etag = et,
                                        !.origin = og, !.version = v, !.pulled = v, !.torn = to]
  BY DEF Written, TypeOK, Event
<1> HIDE DEF st, te, hr, et, og, to, v
<1>3. LET e == Written(old, new) IN
      /\ e \in Event /\ e.version = v /\ e.pulled = v /\ e.status = st /\ e.text = te
      /\ e.href = hr /\ e.etag = et /\ e.torn = to
  BY <1>1, <1>2 DEF Event
<1> QED
  BY <1>3 DEF st, te, hr, et, to, v

LEMMA RefreshEffect ==
  ASSUME NEW old, NEW new, Refresh(old, new)
  PROVE  \/ event' = event
         \/ /\ ~AnyOpen /\ event.version = old.version /\ new # old
            /\ event' = Written(old, new)
  BY DEF Refresh, Overwritable

\* What a pull has read and what it is about to do.
PullGoes ==
  \/ pull' = NoPull
  \/ /\ event.status # "absent" /\ pull'.phase = "listed" /\ pull'.old = Absent
     /\ pull'.copy.text = remote.text /\ pull'.copy.etag \in {0, remote.etag}
  \/ /\ pull.phase = "listed" /\ pull'.phase = "found" /\ pull.copy.text # NoText
     /\ pull'.copy = pull.copy /\ pull'.old = event
  \/ /\ pull.phase = "listed" /\ pull'.phase = "missing" /\ pull.copy.text = NoText
     /\ pull'.copy = Gone(0) /\ pull'.old.version = event.version /\ pull'.old.etag = 0
  \/ /\ pull.phase = "missing" /\ pull'.phase = "verified"
     /\ pull'.copy = pull.copy /\ pull'.old = pull.old
  \/ /\ pull.phase = "verified" /\ pull'.phase = "lost" /\ event.version = pull.old.version
     /\ pull'.copy = pull.copy /\ pull'.old = event

PullWrites ==
  \/ pull.phase = "found" /\ Refresh(pull.old, Pulled(pull.old, pull.copy))
  \/ pull.phase = "lost" /\ Refresh(pull.old, Vanished(pull.old))

LEMMA SyncCases ==
  ASSUME TypeOK, Sync
  PROVE  /\ UNCHANGED <<row, rows, config, remote, etags, worker, claims>>
         /\ pull' \in Pull /\ faults' \in 0 .. MaxFaults
         /\ (UNCHANGED event /\ PullGoes) \/ (pull' = NoPull /\ PullWrites)
<1> USE CalendarDeliveryAssumption, NoPullType
<1>1. /\ event \in Event /\ event.version \in Nat /\ remote \in Copy /\ remote.etag \in Nat
      /\ pull \in Pull /\ pull.copy \in Copy /\ pull.old \in Event /\ faults \in 0 .. MaxFaults
  BY DEF TypeOK, Event, Copy, Pull
<1>2. CASE List
  <2> DEFINE c == [remote EXCEPT !.by = 0]
             d == [remote EXCEPT !.by = 0, !.etag = 0]
  <2>1. /\ c \in Copy /\ c.text = remote.text /\ c.etag = remote.etag
        /\ d \in Copy /\ d.text = remote.text /\ d.etag = 0
    BY <1>1 DEF Copy
  <2>2. /\ event.status # "absent" /\ UNCHANGED <<event, row, rows, config, remote, etags, worker, claims>>
        /\ \/ pull' = [NoPull EXCEPT !.phase = "listed", !.copy = c] /\ faults' = faults
           \/ /\ pull' = [NoPull EXCEPT !.phase = "listed", !.copy = d]
              /\ faults < MaxFaults /\ faults' = faults + 1
    BY <1>2 DEF List
  <2> HIDE DEF c, d
  <2>3. PICK k \in Copy : /\ k.text = remote.text /\ k.etag \in {0, remote.etag}
                          /\ pull' = [NoPull EXCEPT !.phase = "listed", !.copy = k]
    BY <2>1, <2>2
  <2>4. pull' \in Pull /\ pull'.phase = "listed" /\ pull'.copy = k /\ pull'.old = Absent
    BY <2>3 DEF Pull
  <2>5. faults' \in 0 .. MaxFaults
    BY <1>1, <2>2
  <2> QED
    BY <2>2, <2>3, <2>4, <2>5 DEF PullGoes
<1>3. CASE Find
  <2>1. /\ pull.phase = "listed" /\ pull.copy.text # NoText
        /\ pull' = [pull EXCEPT !.phase = "found", !.old = event]
        /\ UNCHANGED <<event, row, rows, config, remote, etags, worker, claims, faults>>
    BY <1>3 DEF Find
  <2>2. pull' \in Pull /\ pull'.phase = "found" /\ pull'.copy = pull.copy /\ pull'.old = event
    BY <1>1, <2>1 DEF Pull
  <2> QED
    BY <1>1, <2>1, <2>2 DEF PullGoes
<1>4. CASE Ingest
  BY <1>1, <1>4 DEF Ingest, PullWrites
<1>5. CASE Missing
  <2>1. /\ pull.phase = "listed" /\ pull.copy.text = NoText
        /\ UNCHANGED <<event, row, rows, config, remote, etags, worker, claims, faults>>
        /\ pull' = NoPull
             \/ pull' = [NoPull EXCEPT !.phase = "missing", !.old.version = event.version]
    BY <1>5 DEF Missing
  <2>2. CASE pull' = NoPull
    BY <1>1, <2>1, <2>2 DEF PullGoes
  <2>3. CASE pull' = [NoPull EXCEPT !.phase = "missing", !.old.version = event.version]
    <3> DEFINE o == [Absent EXCEPT !.version = event.version]
    <3>1. o \in Event /\ o.version = event.version /\ o.etag = 0
      BY <1>1 DEF Event, Absent
    <3>2. pull' = [NoPull EXCEPT !.phase = "missing", !.old = o]
      BY <2>3 DEF Pull
    <3> HIDE DEF o
    <3>3. pull' \in Pull /\ pull'.phase = "missing" /\ pull'.copy = Gone(0) /\ pull'.old = o
      BY <3>1, <3>2 DEF Pull
    <3> QED
      BY <1>1, <2>1, <3>1, <3>3 DEF PullGoes
  <2> QED
    BY <2>1, <2>2, <2>3
<1>6. CASE Verify
  <2>1. /\ pull.phase = "missing"
        /\ UNCHANGED <<event, row, rows, config, remote, etags, worker, claims, faults>>
        /\ pull' = NoPull \/ pull' = [pull EXCEPT !.phase = "verified"]
    BY <1>6 DEF Verify
  <2>2. pull' = [pull EXCEPT !.phase = "verified"] =>
          pull' \in Pull /\ pull'.phase = "verified" /\ pull'.copy = pull.copy /\ pull'.old = pull.old
    BY <1>1 DEF Pull
  <2> QED
    BY <1>1, <2>1, <2>2 DEF PullGoes
<1>7. CASE Reload
  <2>1. /\ pull.phase = "verified"
        /\ UNCHANGED <<event, row, rows, config, remote, etags, worker, claims, faults>>
        /\ \/ pull' = NoPull
           \/ event.version = pull.old.version /\ pull' = [pull EXCEPT !.phase = "lost", !.old = event]
    BY <1>7 DEF Reload
  <2>2. pull' = [pull EXCEPT !.phase = "lost", !.old = event] =>
          pull' \in Pull /\ pull'.phase = "lost" /\ pull'.copy = pull.copy /\ pull'.old = event
    BY <1>1 DEF Pull
  <2> QED
    BY <1>1, <2>1, <2>2 DEF PullGoes
<1>8. CASE CancelMissing
  BY <1>1, <1>8 DEF CancelMissing, PullWrites
<1> QED
  BY <1>2, <1>3, <1>4, <1>5, <1>6, <1>7, <1>8 DEF Sync

\* A pull that writes the event row, when nothing is open.
LEMMA PullEffect ==
  ASSUME TypeOK, PullWrites
  PROVE  /\ event' \in Event
         /\ \/ event' = event
            \/ /\ ~AnyOpen /\ pull.phase \in {"found", "lost"} /\ event.version = pull.old.version
               /\ event'.etag \in {0, pull.copy.etag, event.etag}
               /\ event'.version = event.version + 1 /\ event'.pulled = event'.version
               /\ event'.status # "absent" \/ event.status = "absent"
<1>1. event \in Event /\ pull.copy \in Copy /\ pull.old \in Event
  BY DEF TypeOK, Pull
<1>2. ASSUME NEW new \in Event, new.etag \in {0, pull.copy.etag}, new.status # "absent",
             event' = Written(pull.old, new)
      PROVE  /\ event' \in Event /\ event'.etag \in {0, pull.copy.etag, event.etag}
             /\ event'.version = event.version + 1 /\ event'.pulled = event'.version
             /\ event'.status # "absent" \/ event.status = "absent"
  BY <1>1, <1>2, WrittenType
<1>3. /\ Pulled(pull.old, pull.copy) \in Event /\ Pulled(pull.old, pull.copy).etag = pull.copy.etag
      /\ Pulled(pull.old, pull.copy).status # "absent"
      /\ Vanished(pull.old) \in Event /\ Vanished(pull.old).etag = 0
      /\ Vanished(pull.old).status # "absent"
  BY <1>1, PulledType, VanishedType
<1>4. PICK new : /\ new \in Event /\ new.etag \in {0, pull.copy.etag} /\ new.status # "absent"
                 /\ pull.phase \in {"found", "lost"} /\ Refresh(pull.old, new)
  BY <1>3 DEF PullWrites
<1> QED
  BY <1>1, <1>2, <1>4, RefreshEffect

LEMMA SyncEffect ==
  ASSUME TypeOK, Sync
  PROVE  /\ UNCHANGED <<row, rows, config, remote, etags, worker, claims>>
         /\ event' \in Event /\ pull' \in Pull /\ faults' \in 0 .. MaxFaults
         /\ \/ event' = event
            \/ /\ ~AnyOpen /\ pull.phase \in {"found", "lost"} /\ pull' = NoPull
               /\ event'.etag \in {0, pull.copy.etag, event.etag}
               /\ event'.version = event.version + 1 /\ event'.pulled = event'.version
               /\ event'.status # "absent" \/ event.status = "absent"
         /\ pull'.copy.etag \in {0, pull.copy.etag, remote.etag}
         /\ pull'.old.etag \in {0, pull.old.etag, event.etag}
<1>1. /\ UNCHANGED <<row, rows, config, remote, etags, worker, claims>>
      /\ pull' \in Pull /\ faults' \in 0 .. MaxFaults
      /\ (UNCHANGED event /\ PullGoes) \/ (pull' = NoPull /\ PullWrites)
  BY SyncCases
<1>2. CASE UNCHANGED event /\ PullGoes
  <2>1. event' \in Event
    BY <1>2 DEF TypeOK
  <2>2. pull'.copy.etag \in {0, pull.copy.etag, remote.etag} /\ pull'.old.etag \in {0, pull.old.etag, event.etag}
    BY <1>2, NoPullType DEF PullGoes
  <2> QED
    BY <1>1, <1>2, <2>1, <2>2
<1>3. CASE pull' = NoPull /\ PullWrites
  BY <1>1, <1>3, NoPullType, PullEffect
<1> QED
  BY <1>1, <1>2, <1>3

\* Every step keeps the types.
LEMMA TypeStep == TypeOK /\ Working /\ [Next]_vars => TypeOK'
<1> SUFFICES ASSUME TypeOK, Working, [Next]_vars PROVE TypeOK'
  OBVIOUS
<1> USE CalendarDeliveryAssumption
<1>1. ASSUME NEW t \in Text, Create(t) PROVE TypeOK'
  <2>1. event' \in Event
    BY <1>1 DEF Create, TypeOK, Event
  <2>2. row' \in Rows /\ rows' \in 0 .. MaxRows
    BY <1>1, <2>1, EnqueueType DEF Create, RowOps
  <2> QED
    BY <1>1, <2>1, <2>2 DEF Create, TypeOK, Rows
<1>2. ASSUME NEW t \in Text, NEW status \in {"confirmed", "cancelled"}, Mutate(status, t)
      PROVE  TypeOK'
  <2>1. event' \in Event
    <3>1. event.version + 1 \in Nat
      BY DEF TypeOK, Event
    <3> QED
      BY <1>2, <3>1 DEF Mutate, TypeOK, Event
  <2>2. row' \in Rows /\ rows' \in 0 .. MaxRows
    BY <1>2, <2>1, EnqueueType DEF Mutate, RowOps
  <2> QED
    BY <1>2, <2>1, <2>2 DEF Mutate, TypeOK, Rows
<1>3. ASSUME NEW w \in Worker, Claim(w) PROVE TypeOK'
  <2>1. claims + 1 \in Nat
    BY DEF TypeOK
  <2>2. row' \in Rows /\ worker' \in [Worker -> Doing]
    BY <1>3, ClaimEffect, RowWith, WorkerWith DEF TypeOK
  <2> QED
    BY <1>3, <2>1, <2>2 DEF Claim, TypeOK, Rows
<1>4. ASSUME NEW w \in Worker, Load(w) PROVE TypeOK'
  <2>1. worker' \in [Worker -> Doing]
    BY <1>4, LoadEffect, WorkerWith
  <2> QED
    BY <1>4, <2>1 DEF Load, TypeOK
<1>5. ASSUME NEW w \in Worker, Send(w) PROVE TypeOK'
  <2>1. worker[w] \in Doing
    BY DEF TypeOK
  <2>2. PICK q \in Answered(worker[w]) : worker' = [worker EXCEPT ![w] = q]
    BY <1>5 DEF Send
  <2>3. q \in Doing
    BY <2>1, AnsweredType
  <2>4. /\ worker' \in [Worker -> Doing] /\ remote' \in Copy /\ etags' \in Nat
    BY <1>5, <2>1, <2>2, <2>3, ServedType, WorkerWith DEF Send
  <2> QED
    BY <1>5, <2>4 DEF Send, TypeOK
<1>6. ASSUME NEW w \in Worker, Lose(w) PROVE TypeOK'
  <2>1. worker[w] \in Doing
    BY DEF TypeOK
  <2>2. remote' \in Copy /\ etags' \in Nat
    BY <1>6, <2>1, ServedType DEF Lose, TypeOK
  <2>3. Failed(worker[w], "retry") \in Doing
    BY <2>1, FailedWorker DEF Results
  <2>4. worker' \in [Worker -> Doing]
    BY <1>6, <2>3, WorkerWith DEF Lose
  <2>5. faults' \in 0 .. MaxFaults
    BY <1>6 DEF Lose, TypeOK
  <2> QED
    BY <1>6, <2>2, <2>4, <2>5 DEF Lose, TypeOK
<1>7. ASSUME NEW w \in Worker, Record(w) PROVE TypeOK'
  <2>1. worker' \in [Worker -> Doing] /\ UNCHANGED <<rows, config, remote, etags, claims, pull, faults>>
    BY <1>7, IdleType, WorkerWith, RecordRow
  <2> DEFINE i == worker[w].row
  <2>2. i \in 1 .. MaxRows /\ row[i] \in Row /\ "conflict" \in Results
    BY <1>7, RecordRow DEF Results
  <2>3. PICK r \in Row : row' = [row EXCEPT ![i] = r]
    BY <1>7, <2>2, RecordRow, FailureType
  <2>4. row' \in Rows
    BY <2>2, <2>3, RowWith
  <2>5. event' \in Event
    <3>1. event \in Event /\ worker[w] \in Doing
      BY DEF TypeOK
    <3>2. event' = event \/ event' = Told(worker[w])
      BY <1>7, RecordRow
    <3> QED
      BY <3>1, <3>2, ToldEvent
  <2> QED
    BY <2>1, <2>4, <2>5 DEF TypeOK, Rows
<1>8. ASSUME NEW w \in Worker, Crash(w) PROVE TypeOK'
  <2>1. worker' \in [Worker -> Doing]
    BY <1>8, IdleType, WorkerWith DEF Crash
  <2> QED
    BY <1>8, <2>1 DEF Crash, TypeOK
<1>9. ASSUME NEW i \in 1 .. rows, Lapse(i) PROVE TypeOK'
  <2>1. row' \in Rows
    <3>1. i \in 1 .. MaxRows /\ row[i] \in Row
      BY DEF TypeOK
    <3>2. [row[i] EXCEPT !.lapsed = TRUE] \in Row
      BY <3>1 DEF Row
    <3> QED
      BY <1>9, <3>1, <3>2, RowWith DEF Lapse
  <2>2. faults' = faults \/ (faults < MaxFaults /\ faults' = faults + 1)
    BY Zenon, <1>9 DEF Lapse
  <2>3. faults' \in 0 .. MaxFaults
    BY <2>2 DEF TypeOK
  <2> QED
    BY Zenon, <1>9, <2>1, <2>3 DEF Lapse, TypeOK, Rows
<1>10. CASE Sync
  BY <1>10, SyncEffect DEF TypeOK
<1>11. ASSUME NEW w \in Worker, Recheck(w) PROVE TypeOK'
  <2>1. worker' \in [Worker -> Doing]
    BY <1>11, RecheckEffect, WorkerWith
  <2> QED
    BY <1>11, <2>1 DEF Recheck, TypeOK
<1>15. CASE Foreign
  <2>1. etags + 1 \in Nat
    BY DEF TypeOK
  <2>2. remote' \in Copy /\ etags' \in Nat
    BY <1>15, <2>1 DEF Foreign, TypeOK, Gone, Copy
  <2> QED
    BY <1>15, <2>2 DEF Foreign, TypeOK
<1>16. CASE Reconfigure
  BY <1>16 DEF Reconfigure, TypeOK
<1>17. CASE UNCHANGED vars
  BY <1>17 DEF vars, TypeOK
<1> QED
  BY <1>1, <1>2, <1>3, <1>4, <1>5, <1>6, <1>7, <1>8, <1>9, <1>10, <1>11, <1>15, <1>16, <1>17
     DEF Next, Edit, Work

-----------------------------------------------------------------------------
(* The deliveries                                                          *)

RowsThere == \A i \in 1 .. rows : row[i].state # "none"

\* What any step does to the deliveries: a closed one stays as it is, one is
\* begun only at the head of the queue, and new ones are added at the end.
RowsGrow ==
  /\ rows' \in {rows, rows + 1}
  /\ \A i \in 1 .. rows :
       /\ ~Open(i) => row'[i] = row[i]
       /\ row[i].attempts > 0 => row'[i].attempts > 0
       /\ row'[i].attempts > 0 => row[i].attempts > 0 \/ First(i)
       /\ row'[i].op = row[i].op /\ row'[i].state # "none"
  /\ \A i \in 1 .. rows' : i > rows => row'[i].attempts = 0 /\ row'[i].state = "pending"

LEMMA EnqueueEffect ==
  ASSUME TypeOK, NEW op \in RowOps, NEW e \in Event, Enqueue(op, e)
  PROVE  /\ rows' \in {rows, rows + 1}
         /\ \A i \in 1 .. rows :
              row'[i] = row[i] \/ (op # "create" /\ Foldable(i) /\ row'[i] = Folded(row[i], op, e))
         /\ \A i \in 1 .. rows' : i > rows => row'[i] = Queued(op, e)
         /\ \E i \in 1 .. rows' : row'[i].gen = e.version
<1>1. CASE /\ op # "create" /\ UNCHANGED rows
           /\ \E i \in 1 .. rows : Foldable(i) /\ row' = [row EXCEPT ![i] = Folded(@, op, e)]
  <2>1. PICK i \in 1 .. rows : Foldable(i) /\ row' = [row EXCEPT ![i] = Folded(row[i], op, e)]
    BY <1>1
  <2>2. i \in 1 .. MaxRows /\ row[i] \in Row /\ row'[i] = Folded(row[i], op, e)
    BY <2>1, CalendarDeliveryAssumption DEF TypeOK
  <2>3. row'[i].gen = e.version
    BY <2>2 DEF Folded, Row
  <2>4. \A j \in 1 .. rows : j # i => row'[j] = row[j]
    BY <2>1, CalendarDeliveryAssumption DEF TypeOK
  <2>5. rows' = rows /\ \A j \in 1 .. rows' : ~(j > rows)
    BY <1>1, CalendarDeliveryAssumption DEF TypeOK
  <2> QED
    BY Zenon, <1>1, <2>1, <2>2, <2>3, <2>4, <2>5
<1>2. CASE rows < MaxRows /\ rows' = rows + 1 /\ row' = [row EXCEPT ![rows + 1] = Queued(op, e)]
  <2>1. rows + 1 \in 1 .. MaxRows /\ rows \in Nat
    BY <1>2, CalendarDeliveryAssumption DEF TypeOK
  <2>2. row'[rows + 1] = Queued(op, e) /\ \A j \in 1 .. rows : row'[j] = row[j]
    BY <1>2, <2>1, CalendarDeliveryAssumption DEF TypeOK
  <2>3. Queued(op, e).gen = e.version
    BY DEF Queued, NoRow
  <2> QED
    BY <1>2, <2>1, <2>2, <2>3
<1> QED
  BY <1>1, <1>2 DEF Enqueue

LEMMA FoldedRow ==
  ASSUME NEW r \in Row, NEW op, NEW e
  PROVE  /\ Folded(r, op, e).attempts = r.attempts /\ Folded(r, op, e).op = r.op
         /\ Folded(r, op, e).state # "none" /\ Folded(r, op, e).state # "processing"
  BY DEF Folded, Row

LEMMA QueuedRow ==
  ASSUME NEW op, NEW e
  PROVE  /\ Queued(op, e).attempts = 0 /\ Queued(op, e).state = "pending"
         /\ Queued(op, e).op = op
  BY DEF Queued, NoRow

LEMMA ClosingRow ==
  ASSUME NEW r \in Row, NEW result \in Results
  PROVE  /\ Completed(r).attempts = r.attempts /\ Completed(r).op = r.op
         /\ Completed(r).gen = r.gen /\ Completed(r).state = "completed"
         /\ Failure(r, result).attempts = r.attempts /\ Failure(r, result).op = r.op
         /\ Failure(r, result).gen = r.gen /\ Failure(r, result).state \in {"retry", "conflict"}
         /\ Failure(r, result).text = r.text /\ Failure(r, result).asked = r.asked
         /\ Completed(r).asked = r.asked
  BY DEF Completed, Failure, Row, Results

\* A worker that is about to write has its claim still.
Held == \A w \in Worker : worker[w].phase = "writing" => Claimed(worker[w])

\* What Record does under a claim that was not taken over.
LEMMA RecordEffect ==
  ASSUME TypeOK, Working, Held, NEW w \in Worker, Record(w)
  PROVE  LET s == worker[w] IN LET i == s.row IN
         /\ i \in 1 .. rows /\ i \in 1 .. MaxRows /\ row[i] \in Row /\ row[i].attempts > 0
         /\ s \in Doing /\ s.phase = "writing" /\ Claimed(s)
         /\ worker' = [worker EXCEPT ![w] = Idle] /\ Idle.phase = "idle" /\ Idle.etag = 0
         /\ UNCHANGED <<rows, config, remote, etags, claims, pull, faults>>
         /\ \/ /\ s.result = "done" /\ Covered(i)
               /\ event' = Told(s)
               /\ row' = [row EXCEPT ![i] = Completed(row[i])]
            \/ /\ UNCHANGED event
               /\ \E result \in Results : row' = [row EXCEPT ![i] = Failure(row[i], result)]
<1>1. Claimed(worker[w]) /\ Idle.phase = "idle" /\ Idle.etag = 0
  BY RecordRow DEF Held, Idle
<1> QED
  BY <1>1, RecordRow

LEMMA RowStep ==
  ASSUME TypeOK, Working, Held, RowsThere, [Next]_vars PROVE RowsGrow
<1> USE CalendarDeliveryAssumption
<1>1. ASSUME NEW op \in RowOps, NEW e \in Event, Enqueue(op, e) PROVE RowsGrow
  BY <1>1, EnqueueEffect, FoldedRow, QueuedRow DEF RowsGrow, RowsThere, Foldable, Open, TypeOK
<1>2. ASSUME NEW t \in Text, Create(t) PROVE RowsGrow
  <2>1. event' \in Event
    BY <1>2 DEF Create, TypeOK, Event
  <2> QED
    BY <1>1, <1>2, <2>1 DEF Create, RowOps
<1>3. ASSUME NEW t \in Text, NEW status \in {"confirmed", "cancelled"}, Mutate(status, t)
      PROVE  RowsGrow
  <2>1. event' \in Event
    BY TypeStep DEF Next, Edit, TypeOK
  <2> QED
    BY <1>1, <1>3, <2>1 DEF Mutate, RowOps
<1>4. ASSUME NEW i \in 1 .. MaxRows, i \in 1 .. rows, NEW r,
             row' = [row EXCEPT ![i] = r], rows' = rows, Open(i),
             r.attempts > 0, row[i].attempts > 0 \/ First(i), r.op = row[i].op, r.state # "none"
      PROVE  RowsGrow
  BY <1>4 DEF RowsGrow, RowsThere, TypeOK
<1>5. ASSUME NEW w \in Worker, Claim(w) PROVE RowsGrow
  <2>1. PICK i \in 1 .. rows :
          /\ i \in 1 .. MaxRows /\ First(i)
          /\ row' = [row EXCEPT ![i] = Begun(row[i], claims + 1)]
    BY <1>5, ClaimEffect
  <2>2. row[i] \in Row /\ claims + 1 \in Nat
    BY <2>1 DEF TypeOK
  <2>3. rows' = rows /\ Open(i)
    BY <1>5, <2>1 DEF Claim, First
  <2> QED
    BY <1>4, <2>1, <2>2, <2>3, BegunRow
<1>6. ASSUME UNCHANGED <<row, rows>> PROVE RowsGrow
  BY <1>6 DEF RowsGrow, RowsThere, TypeOK
<1>7. ASSUME NEW w \in Worker, Record(w) PROVE RowsGrow
  <2> DEFINE i == worker[w].row
  <2>1. /\ rows' = rows /\ Open(i) /\ i \in 1 .. rows /\ i \in 1 .. MaxRows /\ row[i] \in Row
        /\ row[i].attempts > 0 /\ "retry" \in Results
    BY <1>7, RecordEffect DEF Claimed, Open, Results
  <2>2. PICK r : /\ row' = [row EXCEPT ![i] = r] /\ r.attempts > 0 /\ r.op = row[i].op
                 /\ r.state # "none"
    BY <1>7, <2>1, RecordEffect, ClosingRow
  <2> HIDE DEF i
  <2> QED
    BY <1>4, <2>1, <2>2
<1>8. ASSUME NEW i \in 1 .. rows, Lapse(i) PROVE RowsGrow
  <2>1. /\ row' = [row EXCEPT ![i] = [row[i] EXCEPT !.lapsed = TRUE]] /\ rows' = rows
        /\ row[i].state = "processing" /\ row[i] \in Row
    BY <1>8 DEF Lapse, TypeOK
  <2>2. /\ row'[i].attempts = row[i].attempts /\ row'[i].op = row[i].op
        /\ row'[i].state = "processing" /\ Open(i)
    BY <2>1 DEF Row, TypeOK, Open
  <2>3. \A j \in 1 .. rows : j # i => row'[j] = row[j]
    BY <2>1 DEF TypeOK
  <2> QED
    BY <2>1, <2>2, <2>3 DEF RowsGrow, RowsThere, TypeOK
<1>9. ASSUME NEW w \in Worker, Load(w) \/ Send(w) \/ Lose(w) \/ Recheck(w) \/ Crash(w)
      PROVE  UNCHANGED <<row, rows>>
  BY <1>9 DEF Load, Send, Lose, Recheck, Crash
<1>10. ASSUME Sync \/ Foreign \/ Reconfigure \/ UNCHANGED vars PROVE UNCHANGED <<row, rows>>
  BY <1>10, SyncEffect DEF Foreign, Reconfigure, vars
<1> QED
  BY <1>2, <1>3, <1>5, <1>6, <1>7, <1>8, <1>9, <1>10 DEF Next, Edit, Work

\* No step opens a delivery again or begins one before its turn.
LEMMA InOrderStep ==
  ASSUME TypeOK, Working, Held, RowsThere, InOrder, [Next]_vars PROVE InOrder' /\ RowsThere'
<1>1. RowsGrow /\ rows \in Nat
  BY RowStep, CalendarDeliveryAssumption DEF TypeOK
<1>2. ASSUME NEW i \in 1 .. rows', NEW j \in 1 .. (i - 1), row'[i].attempts > 0 PROVE ~Open(j)'
  <2>1. i \in 1 .. rows /\ j \in 1 .. rows
    BY <1>1, <1>2 DEF RowsGrow
  <2>2. ~Open(j)
    BY <1>1, <1>2, <2>1 DEF RowsGrow, InOrder, First
  <2> QED
    BY <1>1, <2>1, <2>2 DEF RowsGrow, Open
<1>3. RowsThere'
  BY <1>1 DEF RowsGrow, RowsThere
<1> QED
  BY <1>2, <1>3 DEF InOrder

-----------------------------------------------------------------------------
(* The workers                                                             *)

\* Each claim has a token of its own.
Tokens ==
  \A w \in Worker : worker[w].phase # "idle" =>
    /\ worker[w].token <= claims
    /\ \A v \in Worker : (v # w /\ worker[v].phase # "idle") => worker[v].token # worker[w].token

\* What any step does to the workers: one that works goes on with the delivery
\* it claimed, and one that was idle has just claimed one.
WorkersGo ==
  \/ /\ claims' = claims
     /\ \A w \in Worker : worker'[w].phase # "idle" =>
          /\ worker[w].phase # "idle"
          /\ worker'[w].row = worker[w].row /\ worker'[w].token = worker[w].token
          /\ worker'[w].phase \in {"recording", "writing"} => worker'[w].result # "none"
  \/ /\ claims' = claims + 1
     /\ \E w \in Worker :
          /\ \A v \in Worker : v # w => worker'[v] = worker[v]
          /\ worker'[w].token = claims + 1 /\ worker'[w].phase = "loading"
          /\ worker'[w].row \in 1 .. rows /\ row'[worker'[w].row].attempts > 0

\* What Send and Lose do to the worker and to the server.
LEMMA AnsweredWorker ==
  ASSUME TypeOK, NEW s \in Doing, NEW q \in Answered(s)
  PROVE  /\ q \in Doing /\ q.phase = "recording" /\ q.row = s.row /\ q.token = s.token
         /\ q.result # "none"
         /\ \/ q.etag \in {0, remote.etag}
            \/ q.etag = etags + 1 /\ GivenOut(s) = etags + 1
<1>1. etags + 1 \in Nat /\ remote.etag \in Nat /\ 0 \in Nat /\ "conflict" \in Results
  BY DEF TypeOK, Copy, Results
<1>2. CASE q = Failed(s, "conflict")
  BY <1>1, <1>2, FailedWorker
<1>3. CASE q = Done(s, 0)
  BY <1>1, <1>3, DoneWorker
<1>4. CASE q = Done(s, etags + 1) /\ s.op \in {"create", "update"} /\ Accepts(s)
  <2>1. GivenOut(s) = etags + 1
    BY <1>4 DEF GivenOut
  <2> QED
    BY <1>1, <1>4, <2>1, DoneWorker
<1>5. CASE q = Done(s, remote.etag)
  BY <1>1, <1>5, DoneWorker
<1> QED
  BY Zenon, <1>2, <1>3, <1>4, <1>5, AnsweredCases

LEMMA ServedCopy ==
  ASSUME TypeOK, NEW s \in Doing, Accepts(s)
  PROVE  /\ Served(s).by = s.row
         /\ \/ Served(s).etag = 0 /\ GivenOut(s) = etags
            \/ Served(s).etag = etags + 1 /\ GivenOut(s) = etags + 1
  BY DEF Served, GivenOut, Gone

LEMMA SendEffect ==
  ASSUME TypeOK, NEW w \in Worker, Send(w) \/ Lose(w)
  PROVE  /\ worker[w].phase = "sending" /\ worker[w] \in Doing
         /\ \E q \in Doing :
              /\ worker' = [worker EXCEPT ![w] = q]
              /\ q.phase = "recording" /\ q.row = worker[w].row /\ q.token = worker[w].token
              /\ q.result # "none"
              /\ \/ Send(w) /\ q \in Answered(worker[w])
                 \/ q.result = "retry" /\ q.etag = 0
         /\ \/ UNCHANGED <<remote, etags>>
            \/ /\ Accepts(worker[w]) /\ remote'.by = worker[w].row
               /\ \/ remote'.etag = 0 /\ etags' = etags
                  \/ remote'.etag = etags + 1 /\ etags' = etags + 1
         /\ UNCHANGED <<event, row, rows, config, claims, pull>>
<1>1. worker[w] \in Doing /\ worker[w].phase = "sending"
  BY DEF TypeOK, Send, Lose
<1>2. \/ UNCHANGED <<remote, etags>>
      \/ remote' = Served(worker[w]) /\ etags' = GivenOut(worker[w])
  BY Zenon DEF Send, Lose
<1>3. ~Accepts(worker[w]) => Served(worker[w]) = remote /\ GivenOut(worker[w]) = etags
  BY DEF Served, GivenOut
<1>4. \/ UNCHANGED <<remote, etags>>
      \/ /\ Accepts(worker[w]) /\ remote'.by = worker[w].row
         /\ \/ remote'.etag = 0 /\ etags' = etags
            \/ remote'.etag = etags + 1 /\ etags' = etags + 1
  BY <1>1, <1>2, <1>3, ServedCopy
<1>5. CASE Send(w)
  <2>1. PICK q \in Answered(worker[w]) : worker' = [worker EXCEPT ![w] = q]
    BY <1>5 DEF Send
  <2>2. UNCHANGED <<event, row, rows, config, claims, pull>>
    BY <1>5 DEF Send
  <2>3. /\ q \in Doing /\ q.phase = "recording" /\ q.row = worker[w].row
        /\ q.token = worker[w].token /\ q.result # "none"
    BY <1>1, AnsweredWorker
  <2> QED
    BY <1>1, <1>4, <1>5, <2>1, <2>2, <2>3
<1>6. CASE Lose(w)
  <2> DEFINE q == Failed(worker[w], "retry")
  <2>1. worker' = [worker EXCEPT ![w] = q] /\ UNCHANGED <<event, row, rows, config, claims, pull>>
    BY Zenon, <1>6 DEF Lose
  <2>2. /\ q \in Doing /\ q.phase = "recording" /\ q.row = worker[w].row
        /\ q.token = worker[w].token /\ q.result = "retry" /\ q.etag = 0
    BY <1>1, FailedWorker DEF Results
  <2> HIDE DEF q
  <2> QED
    BY <1>1, <1>4, <2>1, <2>2
<1> QED
  BY <1>5, <1>6

LEMMA WorkersStep ==
  ASSUME TypeOK, Working, [Next]_vars PROVE WorkersGo
<1>1. ASSUME NEW w \in Worker, NEW q, worker' = [worker EXCEPT ![w] = q], claims' = claims,
             \/ q.phase = "idle"
             \/ /\ worker[w].phase # "idle" /\ q.row = worker[w].row /\ q.token = worker[w].token
                /\ q.phase \in {"recording", "writing"} => q.result # "none"
      PROVE  WorkersGo
  <2>1. worker'[w] = q /\ \A v \in Worker : v # w => worker'[v] = worker[v]
    BY <1>1 DEF TypeOK
  <2> QED
    BY <1>1, <2>1 DEF WorkersGo, Working
<1>2. ASSUME NEW w \in Worker, Claim(w) PROVE WorkersGo
  <2>1. PICK i \in 1 .. rows :
          /\ i \in 1 .. MaxRows /\ row' = [row EXCEPT ![i] = Begun(row[i], claims + 1)]
          /\ worker' = [worker EXCEPT ![w] = Taken(i, claims + 1)]
    BY <1>2, ClaimEffect
  <2>2. row[i] \in Row /\ claims + 1 \in Nat /\ i \in Nat
    BY <2>1 DEF TypeOK
  <2>3. row'[i] = Begun(row[i], claims + 1) /\ worker'[w] = Taken(i, claims + 1)
    BY <2>1 DEF TypeOK
  <2>4. row'[i].attempts > 0
    BY <2>2, <2>3, BegunRow
  <2>6. worker'[w].row = i /\ worker'[w].token = claims + 1 /\ worker'[w].phase = "loading"
    BY <2>2, <2>3, TakenWorker
  <2>5. claims' = claims + 1 /\ \A v \in Worker : v # w => worker'[v] = worker[v]
    BY <1>2, <2>1 DEF Claim, TypeOK
  <2> QED
    BY <2>4, <2>5, <2>6 DEF WorkersGo
<1>3. ASSUME NEW w \in Worker, Load(w) PROVE WorkersGo
  <2>1. worker[w] \in Doing /\ worker[w].phase = "loading" /\ claims' = claims /\ row[worker[w].row] \in Row
    BY <1>3, LoadEffect, WorkingRow
  <2>2. Idle.phase = "idle" /\ "conflict" \in Results
    BY DEF Idle, Results
  <2>3. PICK q : /\ worker' = [worker EXCEPT ![w] = q]
                 /\ q \in {Idle, Failed(worker[w], "conflict"), Loaded(worker[w])}
    BY <1>3, LoadEffect
  <2>4. \/ q.phase = "idle"
        \/ /\ q.row = worker[w].row /\ q.token = worker[w].token
           /\ q.phase \in {"recording", "writing"} => q.result # "none"
    BY <2>1, <2>2, <2>3, FailedWorker, LoadedWorker
  <2> QED
    BY <1>1, <2>1, <2>3, <2>4
<1>4. ASSUME NEW w \in Worker, Send(w) \/ Lose(w) PROVE WorkersGo
  BY <1>1, <1>4, SendEffect
<1>5. ASSUME NEW w \in Worker, Record(w) \/ Crash(w) PROVE WorkersGo
  <2>1. worker' = [worker EXCEPT ![w] = Idle] /\ claims' = claims /\ Idle.phase = "idle"
    BY <1>5 DEF Record, Crash, Idle
  <2> QED
    BY <1>1, <2>1
<1>12. ASSUME NEW w \in Worker, Recheck(w) PROVE WorkersGo
  <2>1. worker[w] \in Doing /\ worker[w].phase = "recording" /\ claims' = claims /\ Idle.phase = "idle"
    BY <1>12, RecheckEffect DEF Idle
  <2>2. worker[w].result # "none"
    BY <2>1 DEF Working
  <2>3. PICK q : worker' = [worker EXCEPT ![w] = q] /\ q \in {Idle, Checked(worker[w])}
    BY <1>12, RecheckEffect
  <2>4. \/ q.phase = "idle"
        \/ q.row = worker[w].row /\ q.token = worker[w].token /\ q.result # "none"
    BY <2>1, <2>2, <2>3, CheckedWorker
  <2> QED
    BY <1>1, <2>1, <2>3, <2>4
<1>6. ASSUME UNCHANGED <<worker, claims>> PROVE WorkersGo
  BY <1>6 DEF WorkersGo, Working
<1>7. ASSUME Edit \/ Sync \/ Foreign \/ Reconfigure \/ UNCHANGED vars PROVE UNCHANGED <<worker, claims>>
  BY <1>7, SyncEffect DEF Edit, Create, Mutate, Foreign, Reconfigure, vars
<1>8. ASSUME NEW i \in 1 .. rows, Lapse(i) PROVE UNCHANGED <<worker, claims>>
  BY <1>8 DEF Lapse
<1> QED
  BY <1>2, <1>3, <1>4, <1>5, <1>6, <1>7, <1>8, <1>12 DEF Next, Work

LEMMA TokensStep ==
  ASSUME TypeOK, Working, Held, RowsThere, Tokens, [Next]_vars PROVE Working' /\ Tokens'
<1>1. WorkersGo /\ RowsGrow /\ TypeOK'
  BY WorkersStep, RowStep, TypeStep
<1>2. rows \in Nat /\ claims \in Nat /\ \A w \in Worker : worker[w].token \in Nat
  BY CalendarDeliveryAssumption DEF TypeOK, Doing
<1>3. Working'
  BY <1>1, <1>2 DEF WorkersGo, RowsGrow, Working
<1>4. Tokens'
  BY <1>1, <1>2 DEF WorkersGo, Tokens
<1> QED
  BY <1>3, <1>4

\* Two workers do not hold a claim at a time.
LEMMA OneHolder ==
  ASSUME TypeOK, Working, InOrder, Tokens,
         NEW v \in Worker, NEW w \in Worker,
         worker[v].phase # "idle", worker[w].phase # "idle",
         Claimed(worker[v]), Claimed(worker[w]) \/ Open(worker[w].row)
  PROVE  worker[v].row = worker[w].row /\ (Claimed(worker[w]) => v = w)
<1> DEFINE i == worker[v].row
           j == worker[w].row
<1>1. i \in 1 .. rows /\ j \in 1 .. rows /\ row[i].attempts > 0 /\ row[j].attempts > 0
  BY WorkingRow
<1>2. Open(i) /\ Open(j)
  BY DEF Claimed, Open
<1>3. i = j
  <2>1. CASE i < j
    BY <1>1, <1>2, <2>1 DEF InOrder
  <2>2. CASE j < i
    BY <1>1, <1>2, <2>2 DEF InOrder
  <2> QED
    BY <1>1, <2>1, <2>2
<1> QED
  BY <1>3 DEF Claimed, Tokens

\* A worker that is about to write keeps its claim: as long as claims are not
\* taken over between their last check and the commit, no other step takes it.
LEMMA HeldStep ==
  ASSUME PromptRecord, TypeOK, Working, InOrder, Tokens, Held, [Next]_vars PROVE Held'
<1>0. /\ claims \in Nat
      /\ \A v \in Worker : worker[v].phase # "idle" =>
           worker[v].row \in 1 .. MaxRows /\ worker[v].token <= claims /\ worker[v].token \in Nat
  BY WorkingRow DEF TypeOK, Tokens, Doing
<1>1. ASSUME NEW w \in Worker, NEW q, worker' = [worker EXCEPT ![w] = q], UNCHANGED row,
             q.phase = "writing" => /\ Claimed(worker[w])
                                    /\ q.row = worker[w].row /\ q.token = worker[w].token
      PROVE  Held'
  <2>1. worker'[w] = q /\ \A v \in Worker : v # w => worker'[v] = worker[v]
    BY <1>1 DEF TypeOK
  <2> QED
    BY <1>1, <2>1 DEF Held, Claimed
<1>2. ASSUME NEW i \in 1 .. MaxRows,
             \A j \in 1 .. MaxRows : j # i => row'[j] = row[j],
             \A v \in Worker : worker'[v].phase = "writing" =>
               /\ worker'[v] = worker[v]
               /\ worker[v].row = i =>
                    row'[i].state = row[i].state /\ row'[i].token = row[i].token
      PROVE  Held'
  BY <1>0, <1>2 DEF Held, Claimed
<1>3. ASSUME NEW w \in Worker, Claim(w) PROVE Held'
  <2>1. PICK i \in 1 .. rows :
          /\ i \in 1 .. MaxRows /\ \A v \in Worker : worker[v].phase = "writing" => worker[v].row # i
          /\ row' = [row EXCEPT ![i] = Begun(row[i], claims + 1)]
          /\ worker' = [worker EXCEPT ![w] = Taken(i, claims + 1)]
    BY <1>3, ClaimEffect
  <2>2. Taken(i, claims + 1).phase = "loading"
    BY <1>0, <2>1, TakenWorker
  <2>3. /\ worker'[w].phase = "loading" /\ \A v \in Worker : v # w => worker'[v] = worker[v]
        /\ \A j \in 1 .. MaxRows : j # i => row'[j] = row[j]
    BY <2>1, <2>2 DEF TypeOK
  <2> QED
    BY <1>2, <2>1, <2>3
<1>4. ASSUME NEW w \in Worker, Load(w) PROVE Held'
  <2>1. UNCHANGED row /\ Idle.phase = "idle" /\ "conflict" \in Results
        /\ worker[w] \in Doing /\ row[worker[w].row] \in Row
    BY <1>4, LoadEffect, WorkingRow DEF Idle, Results
  <2>2. Failed(worker[w], "conflict").phase # "writing" /\ Loaded(worker[w]).phase # "writing"
    BY <2>1, FailedWorker, LoadedWorker
  <2> QED
    BY <1>1, <1>4, <2>1, <2>2, LoadEffect
<1>5. ASSUME NEW w \in Worker, Send(w) \/ Lose(w) PROVE Held'
  BY <1>1, <1>5, SendEffect
<1>6. ASSUME NEW w \in Worker, Recheck(w) PROVE Held'
  <2>1. worker[w] \in Doing /\ UNCHANGED row /\ Idle.phase = "idle"
    BY <1>6, RecheckEffect DEF Idle
  <2>2. Checked(worker[w]).row = worker[w].row /\ Checked(worker[w]).token = worker[w].token
    BY <2>1, CheckedWorker
  <2> QED
    BY <1>1, <1>6, <2>1, <2>2, RecheckEffect
<1>7. ASSUME NEW w \in Worker, Record(w) PROVE Held'
  <2> DEFINE i == worker[w].row
  <2>1. /\ i \in 1 .. MaxRows /\ worker[w].phase = "writing" /\ Claimed(worker[w])
        /\ worker' = [worker EXCEPT ![w] = Idle] /\ Idle.phase = "idle"
        /\ \E r : row' = [row EXCEPT ![i] = r]
    BY <1>7, RecordEffect
  <2>2. /\ worker'[w].phase = "idle" /\ \A v \in Worker : v # w => worker'[v] = worker[v]
        /\ \A j \in 1 .. MaxRows : j # i => row'[j] = row[j]
    BY <2>1 DEF TypeOK
  <2>3. ASSUME NEW v \in Worker, v # w, worker[v].phase = "writing" PROVE worker[v].row # i
    BY <2>1, <2>3, OneHolder DEF Held
  <2> HIDE DEF i
  <2> QED
    BY <1>2, <2>1, <2>2, <2>3
<1>8. ASSUME NEW w \in Worker, Crash(w) PROVE Held'
  BY <1>1, <1>8 DEF Crash, Idle
<1>9. ASSUME NEW i \in 1 .. rows, Lapse(i) PROVE Held'
  <2>1. /\ i \in 1 .. MaxRows /\ row' = [row EXCEPT ![i] = [row[i] EXCEPT !.lapsed = TRUE]]
        /\ UNCHANGED worker
    BY <1>9, CalendarDeliveryAssumption DEF Lapse, TypeOK
  <2>2. /\ row'[i].state = row[i].state /\ row'[i].token = row[i].token
        /\ \A j \in 1 .. MaxRows : j # i => row'[j] = row[j]
    BY <2>1 DEF TypeOK, Row
  <2> QED
    BY <1>2, <2>1, <2>2
<1>10. CASE Edit
  <2>1. PICK op \in RowOps, e \in Event : Enqueue(op, e) /\ UNCHANGED worker
    <3>1. event' \in Event
      BY TypeStep DEF TypeOK
    <3> QED
      BY <1>10, <3>1 DEF Edit, Create, Mutate, RowOps
  <2>2. ASSUME NEW v \in Worker, worker[v].phase = "writing" PROVE row'[worker[v].row] = row[worker[v].row]
    <3>1. worker[v].row \in 1 .. rows /\ row[worker[v].row].state = "processing"
      BY <2>2, WorkingRow DEF Held, Claimed
    <3> QED
      BY <2>1, <3>1, EnqueueEffect DEF Foldable
  <2> QED
    BY <2>1, <2>2 DEF Held, Claimed
<1>11. ASSUME Sync \/ Foreign \/ Reconfigure \/ UNCHANGED vars PROVE Held'
  <2>1. UNCHANGED <<row, worker>>
    BY <1>11, SyncEffect DEF Foreign, Reconfigure, vars
  <2> QED
    BY <2>1 DEF Held, Claimed
<1> QED
  BY <1>3, <1>4, <1>5, <1>6, <1>7, <1>8, <1>9, <1>10, <1>11 DEF Next, Work

-----------------------------------------------------------------------------
(* What workers know of the server                                         *)

\* Every ETag known was given out, so that a new one is known to nobody.
Bounds ==
  /\ event.etag <= etags /\ remote.etag <= etags
  /\ pull.copy.etag <= etags /\ pull.old.etag <= etags
  /\ \A w \in Worker : worker[w].etag <= etags

\* The delivery that wrote the server's copy was begun.
Writer == remote.by \in 0 .. rows /\ (remote.by # 0 => row[remote.by].attempts > 0)

\* Only the first delivery may be a create, and as long as it is open the event
\* row has no ETag.
Creates ==
  /\ event.status = "absent" =>
       rows = 0 /\ event.etag = 0 /\ event.version = 0 /\ ~event.torn /\ pull.phase = "idle"
  /\ \A i \in 1 .. rows : row[i].op = "create" => i = 1 /\ (Open(i) => event.etag = 0)

\* A worker that has an answer to record.
Reports(s) == s.phase \in {"recording", "writing"} /\ s.result = "done"

\* The delivery whose copy the event row knows is closed.
KnownClosed ==
  (event.etag = remote.etag /\ remote.etag # 0 /\ remote.by # 0) => ~Open(remote.by)

\* Whoever holds the claim sends what the event row calls for.
Follows(s) ==
  /\ s.etag = event.etag
  /\ s.op \in {"update", "delete"} => event.href
  /\ s.op = "update" => event.etag # 0
  /\ s.op = "create" => ~event.href \/ event.etag = 0
  /\ s.op = "none" => ~event.href
HolderSees ==
  \A w \in Worker : (worker[w].phase = "sending" /\ Claimed(worker[w])) => Follows(worker[w])

\* While a holder is about to record a delivery, the event row has not seen the
\* server's copy.
NewsKept ==
  \A w \in Worker :
    (Reports(worker[w]) /\ Claimed(worker[w]) /\ remote.etag # 0) => ~Known

\* When a request would be accepted over the server's copy, the event row has seen
\* that copy, which is from an earlier delivery or another client, and the
\* delivery is still open.
SeenKept ==
  \A w \in Worker :
    (worker[w].phase = "sending" /\ worker[w].op \in {"update", "delete"}
       /\ worker[w].etag = remote.etag /\ remote.etag # 0)
      => Known /\ Open(worker[w].row) /\ remote.by < worker[w].row

Seen == HolderSees /\ NewsKept /\ SeenKept

\* Nobody knows an ETag that is yet to be given out.
LEMMA NewEtag ==
  ASSUME TypeOK, Bounds, remote'.etag \in {0, etags + 1}, remote'.etag # 0
  PROVE  event.etag # remote'.etag /\ \A w \in Worker : worker[w].etag # remote'.etag
<1>1. etags \in Nat /\ event.etag \in Nat /\ \A w \in Worker : worker[w].etag \in Nat
  BY DEF TypeOK, Event, Doing
<1> QED
  BY <1>1 DEF Bounds

\* A step keeps what the workers know if it touches neither the server nor what
\* the event row knows of it, makes no worker send or report a delivery, and gives
\* back no claim.
LEMMA Calm ==
  ASSUME Seen, UNCHANGED remote, event'.etag = event.etag, event'.href = event.href,
         \A w \in Worker :
           \/ worker'[w].phase \in {"idle", "loading"}
           \/ worker'[w].phase \in {"recording", "writing"} /\ worker'[w].result # "done"
           \/ /\ Reports(worker'[w]) /\ Reports(worker[w])
              /\ Claimed(worker[w])' => Claimed(worker[w])
           \/ /\ worker'[w] = worker[w]
              /\ worker[w].phase # "idle" /\ Claimed(worker[w])' => Claimed(worker[w])
              /\ (worker[w].phase # "idle" /\ Open(worker[w].row) /\ event.etag # 0)
                   => Open(worker[w].row)'
  PROVE  Seen'
<1>1. HolderSees'
  BY DEF Seen, HolderSees, Follows, Reports
<1>2. NewsKept'
  BY DEF Seen, NewsKept, Reports, Known
<1>3. SeenKept'
  BY DEF Seen, SeenKept, Reports, Known
<1> QED
  BY <1>1, <1>2, <1>3 DEF Seen

\* What an edit does, apart from the deliveries.
LEMMA EditEffect ==
  ASSUME TypeOK, Edit
  PROVE  /\ UNCHANGED <<config, remote, etags, worker, claims, pull, faults>>
         /\ event' \in Event /\ event'.etag = event.etag /\ event'.href = event.href
         /\ event'.status # "absent" /\ event'.pulled = event.pulled
         /\ event.status # "absent" => event'.version > event.version /\ ~event'.torn
         /\ event.status = "absent" => event'.version = 1 /\ event'.torn = event.torn
         /\ event'.status = "confirmed" => event'.text \notin Cancelling
         /\ \E op \in RowOps : /\ Enqueue(op, event') /\ (op = "create" => event.status = "absent")
                               /\ op = "delete" \/ event'.status = "confirmed"
<1>1. ASSUME NEW t \in Text \ Cancelling, Create(t)
      PROVE  /\ event' \in Event /\ event'.etag = event.etag /\ event'.href = event.href
             /\ event'.status = "confirmed" /\ event'.pulled = event.pulled /\ event'.text = t
             /\ event.status = "absent" /\ event'.version = 1 /\ event'.torn = event.torn
             /\ Enqueue("create", event')
  BY <1>1 DEF Create, TypeOK, Event
<1>2. ASSUME NEW t \in Text \ Cancelling, NEW status \in {"confirmed", "cancelled"}, Mutate(status, t)
      PROVE  /\ event' \in Event /\ event'.etag = event.etag /\ event'.href = event.href
             /\ event'.status = status /\ event'.pulled = event.pulled /\ event'.text = t
             /\ event.status # "absent" /\ event'.version > event.version /\ ~event'.torn
             /\ Enqueue(IF status = "cancelled" THEN "delete" ELSE "update", event')
  <2>1. event.version + 1 \in Nat /\ event.version + 1 > event.version
    BY DEF TypeOK, Event
  <2> QED
    BY <1>2, <2>1 DEF Mutate, TypeOK, Event
<1>3. UNCHANGED <<config, remote, etags, worker, claims, pull, faults>>
  BY DEF Edit, Create, Mutate
<1> QED
  BY <1>1, <1>2, <1>3 DEF Edit, RowOps

\* ETags are given out in order.
LEMMA BoundsStep ==
  ASSUME TypeOK, Working, Held, Bounds, [Next]_vars PROVE Bounds'
<1>1. /\ etags \in Nat /\ event.etag \in Nat /\ remote.etag \in Nat
      /\ pull.copy.etag \in Nat /\ pull.old.etag \in Nat
      /\ \A w \in Worker : worker[w].etag \in Nat
  BY DEF TypeOK, Event, Copy, Pull, Doing
<1> DEFINE B == UNCHANGED <<etags, event, remote, pull>>
<1>2. ASSUME NEW w \in Worker, NEW q, worker' = [worker EXCEPT ![w] = q],
             q.etag \in {0, worker[w].etag, event.etag}, B
      PROVE  Bounds'
  BY <1>1, <1>2 DEF Bounds, TypeOK
<1>3. ASSUME NEW w \in Worker, Claim(w) PROVE Bounds'
  <2>1. PICK i \in 1 .. rows : i \in 1 .. MaxRows /\ worker' = [worker EXCEPT ![w] = Taken(i, claims + 1)]
    BY <1>3, ClaimEffect
  <2>2. Taken(i, claims + 1).etag = 0
    BY TakenWorker DEF TypeOK
  <2> QED
    BY <1>2, <1>3, <2>1, <2>2 DEF Claim
<1>4. ASSUME NEW w \in Worker, Load(w) PROVE Bounds'
  <2>1. B /\ worker[w] \in Doing /\ row[worker[w].row] \in Row /\ Idle.etag = 0 /\ "conflict" \in Results
    BY <1>4, LoadEffect, WorkingRow DEF Idle, Results
  <2>2. Failed(worker[w], "conflict").etag = 0 /\ Loaded(worker[w]).etag = event.etag
    BY <2>1, FailedWorker, LoadedWorker
  <2> QED
    BY <1>2, <1>4, <2>1, <2>2, LoadEffect
<1>5. ASSUME NEW w \in Worker, Send(w) \/ Lose(w) PROVE Bounds'
  <2>1. PICK q \in Doing :
          /\ worker' = [worker EXCEPT ![w] = q]
          /\ \/ Send(w) /\ q \in Answered(worker[w])
             \/ q.etag = 0
    BY <1>5, SendEffect
  <2>2. etags' \in {etags, etags + 1} /\ remote'.etag \in {remote.etag, 0, etags'}
        /\ UNCHANGED <<event, pull>> /\ worker[w] \in Doing
    BY <1>5, SendEffect
  <2>3. q.etag \in {0, remote.etag, etags'}
    BY <2>1, <2>2, AnsweredWorker DEF Send
  <2> QED
    BY <1>1, <2>1, <2>2, <2>3 DEF Bounds, TypeOK
<1>6. ASSUME NEW w \in Worker, Record(w) PROVE Bounds'
  <2>1. event'.etag \in {event.etag, worker[w].etag}
    BY <1>6, RecordEffect, ToldEvent
  <2>2. worker' = [worker EXCEPT ![w] = Idle] /\ Idle.etag = 0 /\ UNCHANGED <<etags, remote, pull>>
    BY <1>6, RecordEffect
  <2> QED
    BY <1>1, <2>1, <2>2 DEF Bounds, TypeOK
<1>7. ASSUME NEW w \in Worker, Crash(w) PROVE Bounds'
  <2>1. worker' = [worker EXCEPT ![w] = Idle] /\ Idle.etag = 0
    BY <1>7 DEF Crash, Idle
  <2> QED
    BY <1>2, <1>7, <2>1 DEF Crash
<1>13. ASSUME NEW w \in Worker, Recheck(w) PROVE Bounds'
  <2>1. B /\ worker[w] \in Doing /\ Idle.etag = 0
    BY <1>13, RecheckEffect DEF Idle
  <2>2. Checked(worker[w]).etag = worker[w].etag
    BY <2>1, CheckedWorker
  <2> QED
    BY <1>2, <1>13, <2>1, <2>2, RecheckEffect
<1>8. CASE Edit
  BY <1>8, EditEffect DEF Bounds
<1>9. CASE Sync
  BY <1>1, <1>9, SyncEffect DEF Bounds
<1>10. CASE Foreign
  <2>1. etags' \in {etags, etags + 1} /\ remote'.etag \in {0, etags'} /\ UNCHANGED <<event, worker, pull>>
    BY <1>10 DEF Foreign, Gone
  <2> QED
    BY <1>1, <2>1 DEF Bounds
<1>11. ASSUME NEW i \in 1 .. rows, Lapse(i) PROVE Bounds'
  BY <1>11 DEF Lapse, Bounds
<1>12. CASE Reconfigure \/ UNCHANGED vars
  BY <1>12 DEF Reconfigure, vars, Bounds
<1> QED
  BY <1>3, <1>4, <1>5, <1>6, <1>7, <1>8, <1>9, <1>10, <1>11, <1>12, <1>13 DEF Next, Work

LEMMA WriterStep ==
  ASSUME TypeOK, Working, Held, RowsThere, Writer, [Next]_vars PROVE Writer'
<1>1. RowsGrow /\ rows \in Nat
  BY RowStep, CalendarDeliveryAssumption DEF TypeOK
<1>2. ASSUME remote'.by \in {0, remote.by} PROVE Writer'
  BY <1>1, <1>2 DEF Writer, RowsGrow
<1>3. ASSUME NEW w \in Worker, Send(w) \/ Lose(w) PROVE Writer'
  <2>1. remote'.by = remote.by \/ remote'.by = worker[w].row
    BY <1>3, SendEffect
  <2>2. worker[w].row \in 1 .. rows /\ row[worker[w].row].attempts > 0
    BY <1>3, SendEffect, WorkingRow
  <2> QED
    BY <1>1, <1>2, <2>1, <2>2 DEF Writer, RowsGrow
<1>4. ASSUME Foreign PROVE remote'.by \in {0, remote.by}
  BY <1>4 DEF Foreign, Gone
<1>5. ASSUME NEW w \in Worker, Claim(w) \/ Load(w) \/ Recheck(w) \/ Record(w) \/ Crash(w)
      PROVE  UNCHANGED remote
  BY <1>5 DEF Claim, Load, Recheck, Record, Crash
<1>6. ASSUME Edit \/ Sync \/ Reconfigure \/ UNCHANGED vars PROVE UNCHANGED remote
  BY <1>6, EditEffect, SyncEffect DEF Reconfigure, vars
<1>7. ASSUME NEW i \in 1 .. rows, Lapse(i) PROVE UNCHANGED remote
  BY <1>7 DEF Lapse
<1> QED
  BY <1>2, <1>3, <1>4, <1>5, <1>6, <1>7 DEF Next, Work

\* A create is the first delivery, and the event row has no ETag while it is open.
LEMMA CreatesStep ==
  ASSUME TypeOK, Working, Held, RowsThere, InOrder, Creates, [Next]_vars PROVE Creates'
<1>1. RowsGrow /\ rows \in Nat
  BY RowStep, CalendarDeliveryAssumption DEF TypeOK
<1>2. ASSUME UNCHANGED <<event, rows, pull>> PROVE Creates'
  BY <1>1, <1>2 DEF Creates, RowsGrow, Open
<1>3. CASE Edit
  <2>1. PICK op \in RowOps : Enqueue(op, event') /\ (op = "create" => event.status = "absent")
    BY <1>3, EditEffect
  <2>2. event' \in Event /\ event'.etag = event.etag /\ event'.status # "absent"
    BY <1>3, EditEffect
  <2>3. ASSUME NEW i \in 1 .. rows', row'[i].op = "create"
        PROVE  i = 1 /\ (Open(i)' => event'.etag = 0)
    <3>1. CASE i > rows
      BY <1>1, <2>1, <2>2, <2>3, <3>1, EnqueueEffect, QueuedRow DEF Creates, RowsGrow
    <3>2. CASE i \in 1 .. rows
      BY <1>1, <2>2, <2>3, <3>2 DEF Creates, RowsGrow, Open
    <3> QED
      BY <1>1, <3>1, <3>2 DEF RowsGrow
  <2> QED
    BY <2>2, <2>3 DEF Creates
<1>4. ASSUME NEW w \in Worker, Record(w) PROVE Creates'
  <2> DEFINE s == worker[w]
             i == s.row
  <2>1. /\ i \in 1 .. rows /\ i \in 1 .. MaxRows /\ row[i] \in Row /\ row[i].attempts > 0
        /\ s \in Doing /\ UNCHANGED <<rows, pull>> /\ "retry" \in Results
    BY <1>4, RecordEffect DEF Results
  <2>2. CASE UNCHANGED event
    BY <1>2, <2>1, <2>2
  <2>3. CASE row' = [row EXCEPT ![i] = Completed(row[i])] /\ event' = Told(s)
    <3>1. event'.status = event.status /\ event.status # "absent"
      BY <1>1, <2>1, <2>3, ToldEvent DEF Creates
    <3>2. row'[i].state = "completed"
      BY <2>1, <2>3, ClosingRow DEF TypeOK
    <3>3. ASSUME NEW k \in 1 .. rows, row'[k].op = "create", Open(k)' PROVE FALSE
      <4>1. k = 1 /\ Open(k)
        BY <1>1, <3>3 DEF RowsGrow, Creates, Open
      <4>2. k # i
        BY <3>2, <3>3 DEF Open
      <4> QED
        BY <1>1, <2>1, <4>1, <4>2 DEF InOrder
    <3>4. \A k \in 1 .. rows : row'[k].op = "create" => k = 1
      BY <1>1 DEF RowsGrow, Creates
    <3> QED
      BY <2>1, <3>1, <3>3, <3>4 DEF Creates
  <2> QED
    BY <1>4, <2>2, <2>3, RecordEffect
<1>5. CASE Sync
  <2>1. UNCHANGED <<row, rows>>
    BY <1>5, SyncEffect
  <2>2. CASE event' = event
    <3>1. event.status = "absent" => pull'.phase = "idle"
      BY <1>5, <2>2, SyncCases, NoPullType DEF PullGoes, Creates, PullWrites
    <3> QED
      BY <2>1, <2>2, <3>1 DEF Creates, Open
  <2>3. CASE event' # event
    <3>1. ~AnyOpen /\ event'.status # "absent"
      BY <1>5, <2>3, SyncEffect DEF Creates
    <3> QED
      BY <2>1, <3>1 DEF Creates, AnyOpen, Open
  <2> QED
    BY <2>2, <2>3
<1>7. ASSUME NEW w \in Worker, Claim(w) \/ Load(w) \/ Recheck(w) \/ Crash(w)
      PROVE  UNCHANGED <<event, rows, pull>>
  BY <1>7 DEF Claim, Load, Recheck, Crash
<1>8. ASSUME NEW w \in Worker, Send(w) \/ Lose(w) PROVE UNCHANGED <<event, rows, pull>>
  BY <1>8, SendEffect
<1>9. ASSUME Foreign \/ Reconfigure \/ UNCHANGED vars PROVE UNCHANGED <<event, rows, pull>>
  BY <1>9 DEF Foreign, Reconfigure, vars
<1>10. ASSUME NEW i \in 1 .. rows, Lapse(i) PROVE UNCHANGED <<event, rows, pull>>
  BY <1>10 DEF Lapse
<1> QED
  BY <1>2, <1>3, <1>4, <1>5, <1>7, <1>8, <1>9, <1>10 DEF Next, Work

\* A worker that begins to send follows the event row, so in order.
LEMMA SeenLoad ==
  ASSUME TypeOK, Working, InOrder, Writer, KnownClosed, Seen, NEW w \in Worker, Load(w)
  PROVE  Seen'
<1> DEFINE s == worker[w]
<1>1. UNCHANGED <<event, row, rows, remote>> /\ s \in Doing /\ s.phase = "loading"
  BY LoadEffect
<1>2. PICK q \in Doing : /\ worker' = [worker EXCEPT ![w] = q]
                         /\ \/ q \in {Idle, Failed(s, "conflict")}
                            \/ Claimed(s) /\ q = Loaded(s)
  BY LoadEffect
<1>3. worker'[w] = q /\ \A v \in Worker : v # w => worker'[v] = worker[v]
  BY <1>2 DEF TypeOK
<1>4. CASE q \in {Idle, Failed(s, "conflict")}
  <2>1. q.phase = "idle" \/ (q.phase = "recording" /\ q.result = "conflict")
    BY <1>1, <1>4, FailedWorker DEF Idle, Results
  <2> QED
    BY <1>1, <1>3, <2>1, Calm DEF Claimed, Open
<1>5. CASE Claimed(s) /\ q = Loaded(s)
  <2>0. row[s.row] \in Row /\ row[s.row].op \in RowOps
    BY <1>1, WorkingRow DEF Row, RowOps
  <2>1. /\ q.phase = "sending" /\ q.row = s.row /\ q.token = s.token
        /\ q.etag = event.etag /\ q.op = Request(row[s.row].op)
    BY <1>1, <1>5, <2>0, LoadedWorker
  <2>2. q.row \in 1 .. rows /\ Open(q.row) /\ event.etag \in Nat
    BY <1>1, <1>5, <2>1, WorkingRow DEF Claimed, Open, TypeOK, Event
  <2>3. Follows(q)
    BY <2>0, <2>1 DEF Request, Follows, RowOps
  <2>4. remote.by <= q.row
    BY <2>2, CalendarDeliveryAssumption DEF Writer, InOrder, TypeOK
  <2>5. event.etag = remote.etag /\ remote.etag # 0 => remote.by < q.row
    BY <2>2, <2>4, CalendarDeliveryAssumption DEF KnownClosed, Writer, TypeOK
  <2>6. HolderSees'
    BY <1>1, <1>3, <2>1, <2>3 DEF Seen, HolderSees, Claimed, Follows
  <2>7. NewsKept'
    BY <1>1, <1>3, <2>1 DEF Seen, NewsKept, Claimed, Reports, Known
  <2>8. SeenKept'
    BY <1>1, <1>3, <2>1, <2>2, <2>3, <2>5 DEF Seen, SeenKept, Open, Follows, Known
  <2> QED
    BY <2>6, <2>7, <2>8 DEF Seen
<1> QED
  BY <1>2, <1>4, <1>5

\* An answer that leaves the server's copy alone leaves its holder with the
\* news; a new copy has an ETag that nobody knows.
LEMMA SeenSend ==
  ASSUME TypeOK, Working, Bounds, Seen, NEW w \in Worker, Send(w) \/ Lose(w)
  PROVE  Seen'
<1> DEFINE s == worker[w]
<1>1. s.phase = "sending" /\ s \in Doing /\ UNCHANGED <<event, row, rows>>
  BY SendEffect
<1>2. PICK q \in Doing :
        /\ worker' = [worker EXCEPT ![w] = q]
        /\ q.phase = "recording" /\ q.row = s.row /\ q.token = s.token
        /\ (Send(w) /\ q \in Answered(s)) \/ q.result = "retry"
  BY SendEffect
<1>3. worker'[w] = q /\ \A v \in Worker : v # w => worker'[v] = worker[v]
  BY <1>2 DEF TypeOK
<1>4. HolderSees'
  BY <1>1, <1>2, <1>3 DEF Seen, HolderSees, Follows, Claimed
<1>5. CASE UNCHANGED <<remote, etags>> /\ (q.result = "done" => ~Accepts(s))
  <2>1. SeenKept'
    BY <1>1, <1>2, <1>3, <1>5 DEF Seen, SeenKept, Open, Known
  <2>2. ASSUME q.result = "done", Claimed(s), remote.etag # 0 PROVE ~Known
    <3>1. Follows(s)
      BY <1>1, <2>2 DEF Seen, HolderSees
    <3>2. q \in Answered(s)
      BY <1>2, <2>2
    <3>3. q # Failed(s, "conflict")
      BY <1>1, <2>2, FailedWorker DEF Results
    <3>4. s.op \in {"none", "create", "update"}
      BY <1>5, <2>2, <3>2, <3>3, AnsweredCases
    <3>5. s.op = "update" => s.etag # remote.etag
      BY <1>5, <2>2 DEF Accepts, Precondition
    <3> QED
      BY <3>1, <3>4, <3>5 DEF Follows, Known
  <2>3. NewsKept'
    BY <1>1, <1>2, <1>3, <1>5, <2>2 DEF Seen, NewsKept, Claimed, Reports, Known
  <2> QED
    BY <1>4, <2>1, <2>3 DEF Seen
<1>6. CASE remote'.etag \in {0, etags + 1}
  <2>1. /\ remote'.etag # 0 => event.etag # remote'.etag
        /\ \A v \in Worker : remote'.etag # 0 => worker[v].etag # remote'.etag
    BY <1>6, NewEtag
  <2>2. worker'[w].phase = "recording" /\ event' = event
    BY <1>1, <1>2, <1>3
  <2>3. NewsKept'
    BY <2>1, <2>2 DEF NewsKept, Known
  <2>4. SeenKept'
    BY <1>3, <2>1, <2>2 DEF SeenKept
  <2> QED
    BY <1>4, <2>3, <2>4 DEF Seen
<1>7. CASE UNCHANGED <<remote, etags>> /\ q.result = "done" /\ Accepts(s)
  <2>1. remote' = Served(s)
    BY <1>2, <1>7 DEF Send
  <2> QED
    BY <1>1, <1>6, <1>7, <2>1, ServedCopy
<1>8. UNCHANGED <<remote, etags>> \/ remote'.etag \in {0, etags + 1}
  BY SendEffect
<1> QED
  BY <1>5, <1>6, <1>7, <1>8

\* Checking a claim changes nothing that workers know.
LEMMA SeenRecheck ==
  ASSUME TypeOK, Working, Seen, NEW w \in Worker, Recheck(w)
  PROVE  Seen'
<1>1. UNCHANGED <<event, row, remote>> /\ worker[w] \in Doing /\ worker[w].phase = "recording"
  BY RecheckEffect
<1>2. PICK q \in {Idle, Checked(worker[w])} : worker' = [worker EXCEPT ![w] = q]
  BY RecheckEffect
<1>3. worker'[w] = q /\ \A v \in Worker : v # w => worker'[v] = worker[v]
  BY <1>2 DEF TypeOK
<1>4. \/ q.phase = "idle"
      \/ /\ q.phase = "writing" /\ q.row = worker[w].row /\ q.token = worker[w].token
         /\ q.result = "done" <=> worker[w].result = "done"
  BY <1>1, <1>2, CheckedWorker DEF Idle
<1> QED
  BY <1>1, <1>3, <1>4, Calm DEF Claimed, Open, Reports

\* A delivery is recorded by the one holder of its claim.
LEMMA SeenRecord ==
  ASSUME TypeOK, Working, Held, InOrder, Tokens, Seen, NEW w \in Worker, Record(w)
  PROVE  Seen'
<1> DEFINE s == worker[w]
           i == s.row
<1>1. /\ UNCHANGED remote /\ s.phase = "writing" /\ Claimed(s) /\ s \in Doing
      /\ i \in 1 .. rows /\ i \in 1 .. MaxRows /\ row[i] \in Row /\ "retry" \in Results
  BY RecordEffect DEF Results
<1>2. worker'[w].phase = "idle" /\ \A v \in Worker : v # w => worker'[v] = worker[v]
  BY RecordEffect DEF TypeOK
<1>3. \/ /\ s.result = "done" /\ event' = Told(s)
         /\ row' = [row EXCEPT ![i] = Completed(row[i])]
      \/ /\ UNCHANGED event
         /\ \E result \in Results : row' = [row EXCEPT ![i] = Failure(row[i], result)]
  BY RecordEffect
<1>5. CASE UNCHANGED event /\ \E result \in Results : row' = [row EXCEPT ![i] = Failure(row[i], result)]
  <2>1. row'[i].state \in {"retry", "conflict"}
    BY <1>1, <1>5, ClosingRow DEF TypeOK
  <2>2. \A j \in 1 .. MaxRows : j # i => row'[j] = row[j]
    BY <1>5 DEF TypeOK
  <2>3. \A v \in Worker : worker[v].phase # "idle" => worker[v].row \in 1 .. MaxRows
    BY WorkingRow
  <2> HIDE DEF i
  <2> QED
    BY <1>1, <1>2, <1>5, <2>1, <2>2, <2>3, Calm DEF Claimed, Open
<1>6. CASE s.result = "done" /\ row' = [row EXCEPT ![i] = Completed(row[i])]
  <2>1. row'[i].state = "completed"
    BY <1>1, <1>6, ClosingRow DEF TypeOK
  <2>2. \A j \in 1 .. MaxRows : j # i => row'[j] = row[j]
    BY <1>6 DEF TypeOK
  <2>4. ASSUME NEW v \in Worker, v # w, worker[v].phase # "idle"
        PROVE  ~Claimed(worker[v])'
    <3>1. CASE worker[v].row = i
      BY <1>2, <2>1, <2>4, <3>1 DEF Claimed
    <3>2. CASE worker[v].row # i
      <4>1. ~Claimed(worker[v])
        BY <1>1, <1>6, <2>4, <3>2, OneHolder
      <4>2. row'[worker[v].row] = row[worker[v].row]
        BY <2>2, <2>4, <3>2, WorkingRow
      <4> QED
        BY <1>2, <2>4, <4>1, <4>2 DEF Claimed
    <3> QED
      BY <3>1, <3>2
  <2>5. HolderSees' /\ NewsKept'
    BY <1>2, <2>4 DEF HolderSees, NewsKept, Reports
  <2>6. ASSUME NEW v \in Worker, worker'[v].phase = "sending", worker'[v].op \in {"update", "delete"},
               worker'[v].etag = remote.etag, remote.etag # 0
        PROVE  FALSE
    <3>1. v # w /\ worker[v] = worker'[v]
      BY <1>2, <2>6
    <3>2. Known
      BY <2>6, <3>1 DEF Seen, SeenKept
    <3>3. ~Known
      BY <1>1, <1>6, <2>6 DEF Seen, NewsKept, Reports
    <3> QED
      BY <3>2, <3>3
  <2>7. SeenKept'
    BY <1>1, <2>6 DEF SeenKept
  <2> QED
    BY <2>5, <2>7 DEF Seen
<1> QED
  BY <1>3, <1>5, <1>6

\* An edit queues or folds a delivery; only a create is folded, and it sent nothing.
LEMMA SeenEdit ==
  ASSUME TypeOK, Working, Creates, Seen, Edit PROVE Seen'
<1>1. PICK op \in RowOps : Enqueue(op, event')
  BY EditEffect
<1>2. /\ UNCHANGED <<remote, worker>> /\ event' \in Event
      /\ event'.etag = event.etag /\ event'.href = event.href
  BY EditEffect
<1>3. ASSUME NEW w \in Worker, worker[w].phase # "idle"
      PROVE  /\ Claimed(worker[w])' => Claimed(worker[w])
             /\ (Open(worker[w].row) /\ event.etag # 0) => Open(worker[w].row)'
  <2> DEFINE i == worker[w].row
  <2>1. i \in 1 .. rows /\ row[i] \in Row /\ i' = i
    BY <1>2, <1>3, WorkingRow
  <2>2. \/ row'[i] = row[i]
        \/ Foldable(i) /\ row'[i] = Folded(row[i], op, event')
    BY <1>1, <1>2, <2>1, EnqueueEffect
  <2>3. CASE row'[i] = row[i]
    BY <1>2, <2>3 DEF Claimed, Open
  <2>4. CASE Foldable(i) /\ row'[i] = Folded(row[i], op, event')
    <3>1. row'[i].state # "processing"
      BY <2>1, <2>4, FoldedRow
    <3>2. Open(i) => event.etag = 0
      BY <2>1, <2>4 DEF Foldable, Creates
    <3> QED
      BY <1>2, <3>1, <3>2 DEF Claimed
  <2> QED
    BY <2>2, <2>3, <2>4
<1> QED
  BY <1>2, <1>3, Calm

LEMMA SeenStep ==
  ASSUME TypeOK, Working, Held, RowsThere, InOrder, Tokens, Bounds, Writer, Creates, KnownClosed,
         Seen, [Next]_vars
  PROVE  Seen'
<1>1. ASSUME NEW w \in Worker, Claim(w) PROVE Seen'
  <2>1. PICK i \in 1 .. rows :
          /\ i \in 1 .. MaxRows
          /\ row' = [row EXCEPT ![i] = Begun(row[i], claims + 1)]
          /\ worker' = [worker EXCEPT ![w] = Taken(i, claims + 1)]
    BY <1>1, ClaimEffect
  <2>2. row[i] \in Row /\ claims \in Nat /\ claims + 1 \in Nat /\ i \in Nat
    BY <2>1 DEF TypeOK
  <2>3. worker'[w].phase = "loading" /\ \A v \in Worker : v # w => worker'[v] = worker[v]
    <3>1. worker'[w] = Taken(i, claims + 1) /\ \A v \in Worker : v # w => worker'[v] = worker[v]
      BY <2>1 DEF TypeOK
    <3> QED
      BY <2>2, <3>1, TakenWorker
  <2>4. row'[i].state = "processing" /\ row'[i].token = claims + 1
    <3>1. row'[i] = Begun(row[i], claims + 1)
      BY <2>1 DEF TypeOK
    <3> QED
      BY <2>2, <3>1, BegunRow
  <2>5. \A j \in 1 .. MaxRows : j # i => row'[j] = row[j]
    BY <2>1 DEF TypeOK
  <2>6. ASSUME NEW v \in Worker, v # w, worker[v].phase # "idle"
        PROVE  /\ Claimed(worker[v])' => Claimed(worker[v])
               /\ Open(worker[v].row) => Open(worker[v].row)'
    <3>1. worker[v].row \in 1 .. MaxRows /\ worker'[v] = worker[v]
      BY <2>3, <2>6, WorkingRow
    <3>2. CASE worker[v].row = i
      <4>1. worker[v].token # claims + 1
        BY <2>2, <2>6 DEF Tokens, TypeOK, Doing
      <4> QED
        BY <2>4, <3>1, <3>2, <4>1 DEF Claimed, Open
    <3>3. CASE worker[v].row # i
      BY <2>5, <3>1, <3>3 DEF Claimed, Open
    <3> QED
      BY <3>2, <3>3
  <2>7. UNCHANGED <<remote, event>>
    BY <1>1 DEF Claim
  <2> QED
    BY <2>3, <2>6, <2>7, Calm
<1>2. ASSUME NEW w \in Worker, Load(w) PROVE Seen'
  BY <1>2, SeenLoad
<1>3. ASSUME NEW w \in Worker, Send(w) \/ Lose(w) PROVE Seen'
  BY <1>3, SeenSend
<1>4. ASSUME NEW w \in Worker, Record(w) PROVE Seen'
  BY <1>4, SeenRecord
<1>11. ASSUME NEW w \in Worker, Recheck(w) PROVE Seen'
  BY <1>11, SeenRecheck
<1>5. ASSUME NEW w \in Worker, Crash(w) PROVE Seen'
  <2>1. /\ UNCHANGED <<remote, event, row>> /\ worker'[w].phase = "idle"
        /\ \A v \in Worker : v # w => worker'[v] = worker[v]
    BY <1>5 DEF Crash, Idle, TypeOK
  <2> QED
    BY <2>1, Calm DEF Claimed, Open
<1>6. CASE Edit
  BY <1>6, SeenEdit
<1>7. ASSUME NEW i \in 1 .. rows, Lapse(i) PROVE Seen'
  <2>1. UNCHANGED <<remote, event, worker>>
    BY <1>7 DEF Lapse
  <2>2. \A j \in 1 .. MaxRows : row'[j].state = row[j].state /\ row'[j].token = row[j].token
    <3>1. i \in 1 .. MaxRows /\ row' = [row EXCEPT ![i] = [row[i] EXCEPT !.lapsed = TRUE]]
      BY <1>7, CalendarDeliveryAssumption DEF Lapse, TypeOK
    <3>2. row'[i].state = row[i].state /\ row'[i].token = row[i].token
      BY <3>1 DEF TypeOK, Row
    <3>3. \A j \in 1 .. MaxRows : j # i => row'[j] = row[j]
      BY <3>1 DEF TypeOK
    <3> QED
      BY <3>2, <3>3
  <2>3. \A v \in Worker : worker[v].phase # "idle" => worker[v].row \in 1 .. MaxRows
    BY WorkingRow
  <2> QED
    BY <2>1, <2>2, <2>3, Calm DEF Claimed, Open
<1>8. CASE Sync
  <2>1. UNCHANGED <<row, rows, remote, worker>>
    BY <1>8, SyncEffect
  <2>2. CASE event' = event
    BY <2>1, <2>2, Calm DEF Claimed, Open
  <2>3. CASE event' # event
    <3>1. ~AnyOpen
      BY <1>8, <2>3, SyncEffect
    <3>2. ASSUME NEW v \in Worker, worker[v].phase # "idle"
          PROVE  ~Open(worker[v].row) /\ ~Claimed(worker[v])'
      BY <2>1, <3>1, <3>2, WorkingRow DEF AnyOpen, Open, Claimed
    <3>4. HolderSees' /\ NewsKept'
      BY <2>1, <3>2 DEF HolderSees, NewsKept, Reports
    <3>5. SeenKept'
      BY <2>1, <3>2 DEF Seen, SeenKept
    <3> QED
      BY <3>4, <3>5 DEF Seen
  <2> QED
    BY <2>2, <2>3
<1>9. CASE Foreign
  <2>1. /\ UNCHANGED <<event, row, worker>> /\ remote'.by = 0
        /\ remote'.etag = 0 \/ remote'.etag = etags + 1
    BY <1>9 DEF Foreign, Gone
  <2>2. /\ etags \in Nat /\ event.etag \in Nat /\ event.etag <= etags
        /\ \A v \in Worker : worker[v].etag \in Nat /\ worker[v].etag <= etags
    BY DEF Bounds, TypeOK, Event, Doing
  <2>3. \A v \in Worker : remote'.etag # 0 => worker[v].etag # remote'.etag
    BY <2>1, <2>2
  <2>4. remote'.etag # 0 => event.etag # remote'.etag
    BY <2>1, <2>2
  <2>5. HolderSees'
    BY <2>1 DEF Seen, HolderSees, Follows, Claimed
  <2>6. SeenKept'
    BY <2>1, <2>3 DEF SeenKept
  <2>7. NewsKept'
    BY <2>1, <2>4 DEF NewsKept, Known
  <2> QED
    BY <2>5, <2>6, <2>7 DEF Seen
<1>10. CASE Reconfigure \/ UNCHANGED vars
  BY <1>10, Calm DEF Reconfigure, vars, Claimed, Open
<1> QED
  BY <1>1, <1>2, <1>3, <1>4, <1>5, <1>6, <1>7, <1>8, <1>9, <1>10, <1>11 DEF Next, Work

\* The event row learns the ETag of a delivery's copy as the delivery closes, and
\* from a pull only when all are closed.
LEMMA KnownClosedStep ==
  ASSUME TypeOK, Working, Held, RowsThere, InOrder, Bounds, Writer, KnownClosed, [Next]_vars
  PROVE  KnownClosed'
<1>1. RowsGrow /\ rows \in Nat
  BY RowStep, CalendarDeliveryAssumption DEF TypeOK
<1>2. ASSUME UNCHANGED remote, event'.etag = event.etag PROVE KnownClosed'
  <2>1. remote.by # 0 => remote.by \in 1 .. rows
    BY <1>1 DEF Writer
  <2> QED
    BY <1>1, <1>2, <2>1 DEF KnownClosed, RowsGrow, Open
<1>3. ASSUME NEW w \in Worker, Send(w) \/ Lose(w) PROVE KnownClosed'
  <2>1. UNCHANGED <<remote, event>> \/ (UNCHANGED event /\ remote'.etag \in {0, etags + 1})
    BY <1>3, SendEffect
  <2> QED
    BY <1>2, <2>1, NewEtag DEF KnownClosed
<1>4. CASE Foreign
  BY <1>4 DEF Foreign, Gone, KnownClosed
<1>5. ASSUME NEW w \in Worker, Record(w) PROVE KnownClosed'
  <2>1. UNCHANGED remote
    BY <1>5 DEF Record
  <2>2. CASE UNCHANGED event
    BY <1>2, <2>1, <2>2
  <2>3. CASE ~UNCHANGED event
    <3>1. PICK i \in 1 .. rows :
            /\ i \in 1 .. MaxRows /\ row[i] \in Row /\ row[i].attempts > 0 /\ Open(i)
            /\ row' = [row EXCEPT ![i] = Completed(row[i])]
      BY <1>5, <2>3, RecordEffect DEF Claimed, Open
    <3>2. ~Open(i)' /\ \A j \in 1 .. MaxRows : j # i => row'[j] = row[j]
      BY <3>1, ClosingRow DEF Open, TypeOK, Results
    <3>3. ASSUME remote.by # 0, remote.by # i PROVE ~Open(remote.by)'
      <4>1. remote.by \in 1 .. rows /\ row[remote.by].attempts > 0
        BY <1>1, <3>3 DEF Writer
      <4>2. ~(remote.by > i)
        <5>1. ASSUME remote.by > i PROVE FALSE
          <6>1. i \in 1 .. (remote.by - 1)
            BY <1>1, <3>1, <4>1, <5>1
          <6> QED
            BY <3>1, <4>1, <6>1 DEF InOrder
        <5> QED
          BY <5>1
      <4>3. ~Open(remote.by)
        <5>1. remote.by \in 1 .. (i - 1)
          BY <1>1, <3>1, <3>3, <4>1, <4>2
        <5> QED
          BY <3>1, <5>1 DEF InOrder
      <4> QED
        BY <1>1, <2>1, <4>1, <4>3 DEF RowsGrow, Open
    <3> QED
      BY <2>1, <3>2, <3>3 DEF KnownClosed
  <2> QED
    BY <2>2, <2>3
<1>6. CASE Sync
  <2>1. UNCHANGED <<row, rows, remote>>
    BY <1>6, SyncEffect
  <2>2. CASE event' = event
    BY <1>2, <2>1, <2>2
  <2>3. CASE event' # event
    <3>1. ~AnyOpen
      BY <1>6, <2>3, SyncEffect
    <3>2. remote.by # 0 => remote.by \in 1 .. rows
      BY <1>1 DEF Writer
    <3> QED
      BY <2>1, <3>1, <3>2 DEF KnownClosed, AnyOpen, Open
  <2> QED
    BY <2>2, <2>3
<1>7. CASE Edit
  BY <1>2, <1>7, EditEffect
<1>8. ASSUME NEW w \in Worker, Claim(w) \/ Load(w) \/ Recheck(w) \/ Crash(w)
      PROVE  UNCHANGED <<remote, event>>
  BY <1>8 DEF Claim, Load, Recheck, Crash
<1>9. ASSUME NEW i \in 1 .. rows, Lapse(i) PROVE UNCHANGED <<remote, event>>
  BY <1>9 DEF Lapse
<1>10. ASSUME Reconfigure \/ UNCHANGED vars PROVE UNCHANGED <<remote, event>>
  BY <1>10 DEF Reconfigure, vars
<1> QED
  BY <1>2, <1>3, <1>4, <1>5, <1>6, <1>7, <1>8, <1>9, <1>10 DEF Next, Work

-----------------------------------------------------------------------------
(* The last edit                                                           *)

\* A version that no pull wrote has the delivery of its edit.
LastEdit == event.version # event.pulled => \E i \in 1 .. rows : row[i].gen = event.version

LEMMA LastEditStep ==
  ASSUME TypeOK, Working, Held, RowsThere, LastEdit, [Next]_vars PROVE LastEdit'
<1>1. RowsGrow /\ rows \in Nat
  BY RowStep, CalendarDeliveryAssumption DEF TypeOK
<1>2. ASSUME event'.version = event.version, event'.pulled = event.pulled,
             \A i \in 1 .. rows : row'[i].gen = row[i].gen
      PROVE  LastEdit'
  BY <1>1, <1>2 DEF LastEdit, RowsGrow
<1>3. ASSUME NEW i \in 1 .. rows, NEW r, row' = [row EXCEPT ![i] = r], r.gen = row[i].gen
      PROVE  \A j \in 1 .. rows : row'[j].gen = row[j].gen
  BY <1>3 DEF TypeOK
<1>4. CASE Edit
  <2>1. PICK op \in RowOps : Enqueue(op, event')
    BY <1>4, EditEffect
  <2>2. event' \in Event
    BY <1>4, EditEffect
  <2> QED
    BY <2>1, <2>2, EnqueueEffect DEF LastEdit
<1>5. ASSUME NEW w \in Worker, Claim(w) PROVE LastEdit'
  <2>1. PICK i \in 1 .. rows : i \in 1 .. MaxRows /\ row' = [row EXCEPT ![i] = Begun(row[i], claims + 1)]
    BY <1>5, ClaimEffect
  <2>2. row[i] \in Row /\ claims + 1 \in Nat /\ UNCHANGED event
    BY <1>5, <2>1 DEF TypeOK, Claim
  <2> QED
    BY <1>2, <1>3, <2>1, <2>2, BegunRow
<1>6. ASSUME NEW w \in Worker, Record(w) PROVE LastEdit'
  <2>1. worker[w] \in Doing /\ row[worker[w].row] \in Row /\ worker[w].row \in 1 .. rows
    BY <1>6, RecordEffect
  <2>2. event'.version = event.version /\ event'.pulled = event.pulled
    BY <1>6, <2>1, RecordEffect, ToldEvent
  <2>3. "conflict" \in Results
    BY DEF Results
  <2>4. \A i \in 1 .. rows : row'[i].gen = row[i].gen
    BY <1>3, <1>6, <2>1, <2>3, RecordEffect, ClosingRow
  <2> QED
    BY <1>2, <2>2, <2>4
<1>7. ASSUME NEW i \in 1 .. rows, Lapse(i) PROVE LastEdit'
  <2>1. row' = [row EXCEPT ![i] = [row[i] EXCEPT !.lapsed = TRUE]] /\ UNCHANGED event
    BY <1>7 DEF Lapse
  <2>2. [row[i] EXCEPT !.lapsed = TRUE].gen = row[i].gen
    BY DEF TypeOK, Row
  <2> QED
    BY <1>2, <1>3, <2>1, <2>2
<1>8. CASE Sync
  BY <1>2, <1>8, SyncEffect DEF LastEdit
<1>9. ASSUME UNCHANGED <<event, row>> PROVE LastEdit'
  BY <1>2, <1>9
<1>10. ASSUME NEW w \in Worker, Load(w) \/ Send(w) \/ Lose(w) \/ Recheck(w) \/ Crash(w)
       PROVE  UNCHANGED <<event, row>>
  BY <1>10 DEF Load, Send, Lose, Recheck, Crash
<1>11. ASSUME Foreign \/ Reconfigure \/ UNCHANGED vars PROVE UNCHANGED <<event, row>>
  BY <1>11 DEF Foreign, Reconfigure, vars
<1> QED
  BY <1>4, <1>5, <1>6, <1>7, <1>8, <1>9, <1>10, <1>11 DEF Next, Work

-----------------------------------------------------------------------------
(* Generations: every open delivery stands for the event, or gives way     *)

\* No delivery is ahead of the event; an open one is of the event's generation,
\* or a later one is, or the create before it took over the event's last edit.
Gens ==
  /\ \A i \in 1 .. rows : row[i].gen <= event.version
  /\ \A i \in 1 .. rows : Open(i) =>
       \/ Covered(i)
       \/ \E j \in 1 .. (i - 1) : row[j].op = "create" /\ row[j].gen > row[i].gen

\* The delivery an edit queues, or the create it is folded into.
Made(i) ==
  /\ row'[i].gen = event'.version /\ row'[i].text = event'.text
  /\ Open(i)' => \/ row'[i].op = "delete"
                 \/ event'.status = "confirmed" /\ event'.text \notin Cancelling

LEMMA EditMakes ==
  ASSUME TypeOK, Creates, Edit
  PROVE  /\ event' \in Event
         /\ rows = 0 \/ event'.version > event.version
         /\ \E op \in RowOps :
              /\ Enqueue(op, event') /\ (op = "create" => rows = 0)
              /\ op = "delete" \/ (event'.status = "confirmed" /\ event'.text \notin Cancelling)
<1>1. rows = 0 \/ event'.version > event.version
  BY EditEffect DEF Creates
<1>2. PICK op \in RowOps : /\ Enqueue(op, event') /\ (op = "create" => event.status = "absent")
                           /\ op = "delete" \/ event'.status = "confirmed"
  BY EditEffect
<1>3. event' \in Event /\ (event'.status = "confirmed" => event'.text \notin Cancelling)
  BY EditEffect
<1>4. op = "create" => rows = 0
  BY <1>2 DEF Creates
<1> QED
  BY <1>1, <1>2, <1>3, <1>4

LEMMA FoldedSays ==
  ASSUME NEW r \in Row, NEW op, NEW e
  PROVE  /\ Folded(r, op, e).gen = e.version /\ Folded(r, op, e).text = e.text
         /\ Folded(r, op, e).op = r.op
         /\ op = "delete" => Folded(r, op, e).state = "cancelled"
  BY DEF Folded, Row

LEMMA EditRows ==
  ASSUME TypeOK, Creates, \A i \in 1 .. rows : row[i].gen <= event.version, Edit
  PROVE  /\ rows \in Nat /\ rows' \in {rows, rows + 1} /\ event'.version \in Nat
         /\ \A i \in 1 .. rows' :
              Made(i) \/ (i \in 1 .. rows /\ row'[i] = row[i] /\ row[i].gen < event'.version)
         /\ \E k \in 1 .. rows' :
              Made(k) /\ ((k > rows /\ Open(k)') \/ (k = 1 /\ row'[1].op = "create"))
<1>1. PICK op \in RowOps : /\ Enqueue(op, event') /\ (op = "create" => rows = 0)
                           /\ \/ op = "delete"
                              \/ event'.status = "confirmed" /\ event'.text \notin Cancelling
  BY EditMakes
<1>2. event' \in Event /\ (rows = 0 \/ event'.version > event.version)
  BY EditMakes
<1>3. /\ rows' \in {rows, rows + 1}
      /\ \A i \in 1 .. rows :
           row'[i] = row[i] \/ (op # "create" /\ Foldable(i) /\ row'[i] = Folded(row[i], op, event'))
      /\ \A i \in 1 .. rows' : i > rows => row'[i] = Queued(op, event')
      /\ \E i \in 1 .. rows' : row'[i].gen = event'.version
  BY <1>1, <1>2, EnqueueEffect
<1>4. /\ rows \in Nat /\ event.version \in Nat /\ event'.version \in Nat
      /\ \A i \in 1 .. rows : row[i] \in Row /\ row[i].gen \in Nat
  <2>1. event.version \in Nat /\ event'.version \in Nat
    BY <1>2 DEF TypeOK, Event
  <2>2. rows \in Nat /\ \A i \in 1 .. rows : row[i] \in Row
    BY CalendarDeliveryAssumption DEF TypeOK
  <2> QED
    BY <2>1, <2>2 DEF Row
<1>5. ASSUME NEW i \in 1 .. rows', i > rows
      PROVE  Made(i) /\ Open(i)'
  <2>1. row'[i] = Queued(op, event')
    BY <1>3, <1>5
  <2>2. /\ row'[i].gen = event'.version /\ row'[i].text = event'.text /\ row'[i].op = op
        /\ row'[i].state = "pending"
    BY <2>1 DEF Queued, NoRow
  <2> QED
    BY <1>1, <2>2 DEF Made, Open
<1>6. ASSUME NEW i \in 1 .. rows, Foldable(i), row'[i] = Folded(row[i], op, event')
      PROVE  Made(i) /\ i = 1 /\ row'[1].op = "create"
  <2>1. /\ row'[i].gen = event'.version /\ row'[i].text = event'.text /\ row'[i].op = row[i].op
        /\ op = "delete" => row'[i].state = "cancelled"
    BY <1>4, <1>6, FoldedSays
  <2>2. i = 1 /\ row[i].op = "create"
    BY <1>6 DEF Foldable, Creates
  <2> QED
    BY <1>1, <2>1, <2>2 DEF Made, Open
<1>7. ASSUME NEW i \in 1 .. rows PROVE row[i].gen < event'.version
  BY <1>2, <1>4, <1>7
<1>8. ASSUME NEW i \in 1 .. rows'
      PROVE  Made(i) \/ (i \in 1 .. rows /\ row'[i] = row[i] /\ row[i].gen < event'.version)
  BY <1>3, <1>4, <1>5, <1>6, <1>7, <1>8
<1>9. PICK k \in 1 .. rows' : row'[k].gen = event'.version
  BY <1>3
<1>10. Made(k) /\ ((k > rows /\ Open(k)') \/ (k = 1 /\ row'[1].op = "create"))
  <2>1. CASE k > rows
    BY <1>5, <2>1
  <2>2. CASE k \in 1 .. rows
    <3>1. row'[k] # row[k]
      BY <1>4, <1>7, <1>9, <2>2
    <3> QED
      BY <1>3, <1>6, <2>2, <3>1
  <2> QED
    BY <1>3, <1>4, <2>1, <2>2
<1> QED
  BY <1>3, <1>4, <1>8, <1>9, <1>10

\* What the other steps do to the deliveries: they keep what one says for as
\* long as it is open, close only the head of the queue, and give a claim only
\* under a new token.
RowsKeep ==
  /\ rows' = rows
  /\ \A i \in 1 .. rows :
       /\ row'[i].gen = row[i].gen /\ row'[i].op = row[i].op
       /\ Open(i)' => Open(i) /\ row'[i].text = row[i].text
       /\ Open(i) /\ ~Open(i)' => \A j \in 1 .. (i - 1) : ~Open(j)
       /\ row'[i].state = "processing" =>
            row'[i].token = claims + 1 \/ (row[i].state = "processing" /\ row'[i].token = row[i].token)

LEMMA RowsKept ==
  ASSUME TypeOK, Working, Held, InOrder, [Next]_vars, ~Edit PROVE RowsKeep
<1>0. rows \in Nat /\ \A i \in 1 .. rows : i \in 1 .. MaxRows /\ row[i] \in Row
  BY CalendarDeliveryAssumption DEF TypeOK
<1>1. ASSUME NEW i \in 1 .. rows, NEW r, row' = [row EXCEPT ![i] = r], rows' = rows, Open(i),
             r.gen = row[i].gen, r.op = row[i].op,
             r.state = "completed" \/ (r.state \notin {"none", "cancelled"} /\ r.text = row[i].text),
             r.state = "completed" => \A j \in 1 .. (i - 1) : ~Open(j),
             r.state = "processing" =>
               r.token = claims + 1 \/ (row[i].state = "processing" /\ r.token = row[i].token)
      PROVE  RowsKeep
  <2>1. row'[i] = r /\ \A j \in 1 .. rows : j # i => row'[j] = row[j]
    BY <1>0, <1>1 DEF TypeOK
  <2> QED
    BY <1>1, <2>1 DEF RowsKeep, Open
<1>2. ASSUME NEW w \in Worker, Claim(w) PROVE RowsKeep
  <2>1. PICK i \in 1 .. rows :
          First(i) /\ row' = [row EXCEPT ![i] = Begun(row[i], claims + 1)]
    BY <1>2, ClaimEffect
  <2>2. claims + 1 \in Nat /\ row[i] \in Row /\ Open(i) /\ rows' = rows
    BY <1>0, <1>2, <2>1 DEF TypeOK, Claim, First
  <2>3. Begun(row[i], claims + 1).text = row[i].text
    BY <2>2 DEF Begun, Row
  <2> QED
    BY <1>1, <2>1, <2>2, <2>3, BegunRow
<1>3. ASSUME UNCHANGED <<row, rows>> PROVE RowsKeep
  BY <1>3 DEF RowsKeep, Open
<1>4. ASSUME NEW w \in Worker, Record(w) PROVE RowsKeep
  <2> DEFINE i == worker[w].row
  <2>1. /\ rows' = rows /\ i \in 1 .. rows /\ row[i] \in Row /\ row[i].attempts > 0
        /\ Open(i) /\ "retry" \in Results
    BY <1>4, RecordEffect DEF Claimed, Open, Results
  <2>2. \A j \in 1 .. (i - 1) : ~Open(j)
    BY <2>1 DEF InOrder
  <2>3. CASE row' = [row EXCEPT ![i] = Completed(row[i])]
    BY <1>1, <2>1, <2>2, <2>3, ClosingRow
  <2>4. ASSUME NEW result \in Results, row' = [row EXCEPT ![i] = Failure(row[i], result)]
        PROVE  RowsKeep
    <3> HIDE DEF i
    <3> QED
      BY <1>1, <2>1, <2>4, ClosingRow
  <2> QED
    BY <1>4, <2>3, <2>4, RecordEffect
<1>5. ASSUME NEW i \in 1 .. rows, Lapse(i) PROVE RowsKeep
  <2> DEFINE r == [row[i] EXCEPT !.lapsed = TRUE]
  <2>1. row' = [row EXCEPT ![i] = r] /\ rows' = rows /\ row[i].state = "processing"
    BY <1>5 DEF Lapse
  <2>2. /\ r.gen = row[i].gen /\ r.op = row[i].op /\ r.text = row[i].text
        /\ r.state = "processing" /\ r.token = row[i].token
    BY <1>0, <2>1 DEF Row
  <2>3. Open(i)
    BY <2>1 DEF Open
  <2> HIDE DEF r
  <2> QED
    BY <1>1, <2>1, <2>2, <2>3
<1>6. ASSUME NEW w \in Worker, Load(w) \/ Send(w) \/ Lose(w) \/ Recheck(w) \/ Crash(w)
      PROVE  UNCHANGED <<row, rows>>
  BY <1>6 DEF Load, Send, Lose, Recheck, Crash
<1>7. ASSUME Sync \/ Foreign \/ Reconfigure \/ UNCHANGED vars PROVE UNCHANGED <<row, rows>>
  BY <1>7, SyncEffect DEF Foreign, Reconfigure, vars
<1> QED
  BY <1>2, <1>3, <1>4, <1>5, <1>6, <1>7 DEF Next, Work

\* What they do to the event: a pull makes a new version when nothing is open.
LEMMA EventKept ==
  ASSUME TypeOK, Working, Held, [Next]_vars, ~Edit
  PROVE  \/ event'.version = event.version /\ event'.text = event.text /\ event'.status = event.status
         \/ Sync /\ ~AnyOpen /\ event'.version > event.version
<1>1. CASE Sync
  <2>1. event.version \in Nat
    BY DEF TypeOK, Event
  <2> QED
    BY <1>1, <2>1, SyncEffect
<1>2. ASSUME NEW w \in Worker, Record(w)
      PROVE  event'.version = event.version /\ event'.text = event.text /\ event'.status = event.status
  BY <1>2, RecordEffect, ToldEvent
<1>3. ASSUME NEW w \in Worker, Claim(w) \/ Load(w) \/ Send(w) \/ Lose(w) \/ Recheck(w) \/ Crash(w)
      PROVE  UNCHANGED event
  BY <1>3 DEF Claim, Load, Send, Lose, Recheck, Crash
<1>4. ASSUME NEW i \in 1 .. rows, Lapse(i) PROVE UNCHANGED event
  BY <1>4 DEF Lapse
<1>5. ASSUME Foreign \/ Reconfigure \/ UNCHANGED vars PROVE UNCHANGED event
  BY <1>5 DEF Foreign, Reconfigure, vars
<1> QED
  BY <1>1, <1>2, <1>3, <1>4, <1>5 DEF Next, Work

LEMMA GensStep ==
  ASSUME TypeOK, Working, Held, InOrder, Creates, Gens, [Next]_vars PROVE Gens'
<1>0. /\ rows \in Nat /\ event.version \in Nat
      /\ \A i \in 1 .. rows : row[i].gen \in Nat
  BY CalendarDeliveryAssumption DEF TypeOK, Event, Row
<1>1. CASE Edit
  <2>1. /\ rows' \in {rows, rows + 1} /\ event'.version \in Nat
        /\ \A i \in 1 .. rows' :
             Made(i) \/ (i \in 1 .. rows /\ row'[i] = row[i] /\ row[i].gen < event'.version)
    BY <1>1, EditRows DEF Gens
  <2>2. PICK k \in 1 .. rows' :
          Made(k) /\ ((k > rows /\ Open(k)') \/ (k = 1 /\ row'[1].op = "create"))
    BY <1>1, EditRows DEF Gens
  <2>3. ASSUME NEW i \in 1 .. rows' PROVE row'[i].gen <= event'.version
    BY <1>0, <2>1, <2>3 DEF Made
  <2>4. ASSUME NEW i \in 1 .. rows', Open(i)'
        PROVE  \/ Covered(i)'
               \/ \E j \in 1 .. (i - 1) : row'[j].op = "create" /\ row'[j].gen > row'[i].gen
    <3>1. CASE Made(i)
      BY <3>1 DEF Made, Covered
    <3>2. CASE i \in 1 .. rows /\ row'[i] = row[i] /\ row[i].gen < event'.version
      <4>1. CASE k > rows /\ Open(k)'
        <5>1. k \in (i + 1) .. rows' /\ row'[k].gen = event'.version /\ event'.version > row'[i].gen
          BY <1>0, <2>1, <2>2, <3>2, <4>1 DEF Made
        <5> QED
          BY <4>1, <5>1 DEF Covered
      <4>2. CASE k = 1 /\ row'[1].op = "create"
        <5>1. row'[1].gen = event'.version
          BY <2>2, <4>2 DEF Made
        <5>2. i # 1
          BY <1>0, <2>1, <3>2, <5>1
        <5>3. 1 \in 1 .. (i - 1) /\ row'[1].gen > row'[i].gen
          BY <1>0, <2>1, <3>2, <5>1, <5>2
        <5> QED
          BY <4>2, <5>3
      <4> QED
        BY <2>2, <4>1, <4>2
    <3> QED
      BY <2>1, <3>1, <3>2
  <2> QED
    BY <2>3, <2>4 DEF Gens
<1>2. CASE ~Edit
  <2>1. RowsKeep
    BY <1>2, RowsKept
  <2>2. CASE event'.version = event.version
    <3>1. ASSUME NEW i \in 1 .. rows, Open(i)'
          PROVE  \/ Covered(i)'
                 \/ \E j \in 1 .. (i - 1) : row'[j].op = "create" /\ row'[j].gen > row'[i].gen
      <4>1. Open(i) /\ row'[i].gen = row[i].gen
        BY <2>1, <3>1 DEF RowsKeep
      <4>2. CASE Covered(i)
        <5>1. CASE event.version = row[i].gen
          BY <2>2, <4>1, <5>1 DEF Covered
        <5>2. CASE event.version > row[i].gen
                   /\ \E j \in (i + 1) .. rows : Open(j) /\ row[j].gen = event.version
          <6>1. PICK j \in (i + 1) .. rows : Open(j) /\ row[j].gen = event.version
            BY <5>2
          <6>2. j \in 1 .. rows /\ i \in 1 .. (j - 1)
            BY <1>0, <6>1
          <6>3. Open(j)' /\ row'[j].gen = event.version
            BY <2>1, <4>1, <6>1, <6>2 DEF RowsKeep
          <6>4. rows' = rows
            BY <2>1 DEF RowsKeep
          <6> QED
            BY <2>2, <4>1, <5>2, <6>1, <6>3, <6>4 DEF Covered
        <5> QED
          BY <4>2, <5>1, <5>2 DEF Covered
      <4>3. ASSUME NEW j \in 1 .. (i - 1), row[j].op = "create", row[j].gen > row[i].gen
            PROVE  row'[j].op = "create" /\ row'[j].gen > row'[i].gen
        <5>1. j \in 1 .. rows
          BY <1>0, <4>3
        <5> QED
          BY <2>1, <4>1, <4>3, <5>1 DEF RowsKeep
      <4> QED
        BY <4>1, <4>2, <4>3 DEF Gens
    <3>2. rows' = rows /\ \A i \in 1 .. rows : row'[i].gen <= event'.version
      BY <2>1, <2>2 DEF RowsKeep, Gens
    <3> QED
      BY <3>1, <3>2 DEF Gens
  <2>3. CASE ~AnyOpen /\ event'.version > event.version
    <3>1. \A i \in 1 .. rows : ~Open(i)' /\ row'[i].gen = row[i].gen
      BY <2>1, <2>3 DEF RowsKeep, AnyOpen
    <3>2. rows' = rows /\ event'.version \in Nat
      BY <2>1, TypeStep DEF RowsKeep, TypeOK, Event
    <3> QED
      BY <1>0, <2>3, <3>1, <3>2 DEF Gens
  <2> QED
    BY <1>2, <2>2, <2>3, EventKept
<1> QED
  BY <1>1, <1>2

-----------------------------------------------------------------------------
(* What an ETag stands for                                                 *)

\* An open delivery of the event's generation says what the event says.
RowSays ==
  \A i \in 1 .. rows : (Open(i) /\ row[i].gen = event.version) =>
    /\ row[i].text = event.text
    /\ row[i].op = "delete" \/ (event.status = "confirmed" /\ event.text \notin Cancelling)

\* Whoever holds the claim sends, or has sent, what its delivery says, and puts
\* no text there for a delete.
Carries(s) == s.phase = "sending" \/ Reports(s)
HolderSays ==
  \A w \in Worker : (Carries(worker[w]) /\ Claimed(worker[w])) =>
    /\ worker[w].text = row[worker[w].row].text
    /\ worker[w].op \in {"create", "update"} => row[worker[w].row].op # "delete"

\* The ETag a worker is about to record, and the one a pull has listed, stand for
\* the texts they came with for as long as the server's copy has them.
Stands(s) ==
  (Reports(s) /\ s.etag # 0 /\ s.etag = remote.etag)
    => remote.text = s.text /\ s.op \in {"create", "update"}
AnswerStands  == \A w \in Worker : Stands(worker[w])
ListingStands == pull.copy.etag # 0 /\ pull.copy.etag = remote.etag => pull.copy.text = remote.text

\* What a pull has read still stands as long as the version does, and the ETag
\* too if an earlier pull left it ahead of the text: until the next edit
\* nothing is open, and no delivery is recorded.
OldStands ==
  /\ pull.old.version <= event.version
  /\ (pull.phase \in {"found", "lost"} /\ event.version = pull.old.version) =>
       /\ event.status = pull.old.status /\ event.text = pull.old.text
       /\ event.torn => event.etag = pull.old.etag
  /\ event.torn => ~AnyOpen

Texts == RowSays /\ HolderSays /\ AnswerStands /\ ListingStands /\ OldStands /\ TrustedEtag

LEMMA RowSaysStep ==
  ASSUME TypeOK, Working, Held, InOrder, Creates, Gens, RowSays, [Next]_vars PROVE RowSays'
<1>1. CASE Edit
  <2>1. \A i \in 1 .. rows' :
          Made(i) \/ (i \in 1 .. rows /\ row'[i] = row[i] /\ row[i].gen < event'.version)
    BY <1>1, EditRows DEF Gens
  <2>2. event'.version \in Nat
    BY <1>1, EditRows DEF Gens
  <2>3. \A i \in 1 .. rows' : row'[i].gen = event'.version => Made(i)
    BY <2>1, <2>2
  <2> QED
    BY <2>3 DEF RowSays, Made
<1>2. CASE ~Edit
  <2>1. RowsKeep
    BY <1>2, RowsKept
  <2>2. CASE event'.version = event.version /\ event'.text = event.text /\ event'.status = event.status
    BY <2>1, <2>2 DEF RowsKeep, RowSays
  <2>3. CASE ~AnyOpen
    BY <2>1, <2>3 DEF RowsKeep, RowSays, AnyOpen
  <2> QED
    BY <1>2, <2>2, <2>3, EventKept
<1> QED
  BY <1>1, <1>2

\* What a worker takes from the delivery it loads.
LEMMA LoadText ==
  ASSUME TypeOK, Working, NEW w \in Worker, Load(w), Carries(worker'[w])
  PROVE  /\ Claimed(worker[w]) /\ worker'[w].row = worker[w].row
         /\ worker'[w].text = row[worker[w].row].text
         /\ worker'[w].op \in {"create", "update"} => row[worker[w].row].op # "delete"
<1> DEFINE s == worker[w]
<1>1. s \in Doing /\ row[s.row] \in Row /\ "conflict" \in Results
  BY LoadEffect, WorkingRow DEF Results
<1>2. \/ worker'[w] \in {Idle, Failed(s, "conflict")}
      \/ Claimed(s) /\ worker'[w] = Loaded(s)
  BY LoadEffect DEF TypeOK
<1>3. ~Carries(Idle) /\ ~Carries(Failed(s, "conflict"))
  BY <1>1, FailedWorker DEF Carries, Reports, Idle
<1>4. Claimed(s) /\ worker'[w] = Loaded(s)
  BY <1>2, <1>3
<1>5. /\ Loaded(s).row = s.row /\ Loaded(s).text = row[s.row].text
      /\ Loaded(s).op = Request(row[s.row].op)
  BY <1>1, LoadedWorker
<1>6. Request(row[s.row].op) \in {"create", "update"} => row[s.row].op # "delete"
  BY DEF Request
<1> QED
  BY <1>4, <1>5, <1>6

\* What the answer to a request says of the server's copy.
LEMMA AnsweredText ==
  ASSUME TypeOK, NEW s \in Doing, NEW q \in Answered(s), q.result = "done"
  PROVE  /\ q.text = s.text /\ q.op = s.op
         /\ q.etag # 0 => s.op \in {"create", "update"} /\ Served(s).text = s.text
<1>1. etags + 1 \in Nat /\ remote.etag \in Nat /\ 0 \in Nat /\ "conflict" \in Results
  BY DEF TypeOK, Copy, Results
<1>2. CASE q = Failed(s, "conflict")
  BY <1>1, <1>2, FailedWorker
<1>3. CASE q = Done(s, 0)
  BY <1>1, <1>3, DoneWorker
<1>4. CASE q = Done(s, etags + 1) /\ s.op \in {"create", "update"} /\ Accepts(s)
  <2>1. Served(s).text = s.text
    BY <1>4 DEF Served
  <2> QED
    BY <1>1, <1>4, <2>1, DoneWorker
<1>5. CASE /\ q = Done(s, remote.etag)
           /\ s.op \in {"create", "update"} /\ ~Accepts(s) /\ remote.text = s.text
  <2>1. Served(s).text = s.text
    BY <1>5 DEF Served
  <2> QED
    BY <1>1, <1>5, <2>1, DoneWorker
<1> QED
  BY Zenon, <1>2, <1>3, <1>4, <1>5, AnsweredCases

LEMMA HolderSaysStep ==
  ASSUME TypeOK, Working, Held, InOrder, Tokens, HolderSays, [Next]_vars PROVE HolderSays'
<1>0. /\ rows \in Nat /\ claims \in Nat
      /\ \A w \in Worker : worker[w].phase # "idle" =>
           /\ worker[w].row \in 1 .. rows /\ row[worker[w].row] \in Row
           /\ worker[w].token <= claims /\ worker[w].token \in Nat
  BY WorkingRow, CalendarDeliveryAssumption DEF TypeOK, Doing, Tokens
\* A worker that goes on as it is holds its claim only if it did before, and then
\* its delivery still says the same.
<1>1. ASSUME NEW w \in Worker, worker[w].phase # "idle", Carries(worker[w]), worker'[w] = worker[w],
             Claimed(worker[w])'
      PROVE  /\ worker'[w].text = row'[worker'[w].row].text
             /\ worker'[w].op \in {"create", "update"} => row'[worker'[w].row].op # "delete"
  <2> DEFINE i == worker[w].row
  <2>1. i \in 1 .. rows /\ row[i] \in Row /\ row'[i].state = "processing"
        /\ row'[i].token = worker[w].token /\ worker[w].token # claims + 1
    BY <1>0, <1>1 DEF Claimed
  <2>2. CASE Edit
    <3>1. PICK op \in RowOps : Enqueue(op, event')
      BY <2>2, EditEffect
    <3>2. event' \in Event
      BY <2>2, EditEffect
    <3>3. row'[i] = row[i] \/ row'[i] = Folded(row[i], op, event')
      BY <2>1, <3>1, <3>2, EnqueueEffect
    <3>4. row'[i] = row[i]
      BY <2>1, <3>3, FoldedRow
    <3> QED
      BY <1>1, <3>4 DEF HolderSays, Claimed
  <2>3. CASE ~Edit
    <3>1. RowsKeep
      BY <2>3, RowsKept
    <3>2. /\ row'[i].op = row[i].op /\ row'[i].text = row[i].text
          /\ row[i].state = "processing" /\ row'[i].token = row[i].token
      BY <2>1, <3>1 DEF RowsKeep, Open
    <3> QED
      BY <1>1, <2>1, <3>2 DEF HolderSays, Claimed
  <2> QED
    BY <2>2, <2>3
<1>2. ASSUME \A w \in Worker : Carries(worker'[w]) =>
               Carries(worker[w]) /\ worker'[w] = worker[w] /\ worker[w].phase # "idle"
      PROVE  HolderSays'
  BY <1>1, <1>2 DEF HolderSays, Carries, Reports
<1>3. ASSUME NEW w \in Worker, NEW q, worker' = [worker EXCEPT ![w] = q], ~Carries(q)
      PROVE  HolderSays'
  <2>1. worker'[w] = q /\ \A v \in Worker : v # w => worker'[v] = worker[v]
    BY <1>3 DEF TypeOK
  <2> QED
    BY <1>2, <1>3, <2>1 DEF Carries, Reports
<1>4. ASSUME UNCHANGED worker PROVE HolderSays'
  BY <1>2, <1>4 DEF Carries, Reports
<1>5. ASSUME NEW w \in Worker, Claim(w) PROVE HolderSays'
  <2>1. PICK i \in 1 .. rows : worker' = [worker EXCEPT ![w] = Taken(i, claims + 1)]
    BY <1>5, ClaimEffect
  <2>2. Taken(i, claims + 1).phase = "loading"
    BY TakenWorker, CalendarDeliveryAssumption DEF TypeOK
  <2> QED
    BY <1>3, <2>1, <2>2 DEF Carries, Reports
<1>6. ASSUME NEW w \in Worker, Record(w) \/ Crash(w) PROVE HolderSays'
  <2>1. worker' = [worker EXCEPT ![w] = Idle] /\ ~Carries(Idle)
    BY <1>6 DEF Record, Crash, Idle, Carries, Reports
  <2> QED
    BY <1>3, <2>1
<1>7. ASSUME NEW w \in Worker, Load(w) PROVE HolderSays'
  <2>1. UNCHANGED row
    BY <1>7 DEF Load
  <2>2. \A v \in Worker : v # w => worker'[v] = worker[v]
    BY <1>7, LoadEffect DEF TypeOK
  <2> QED
    BY <1>7, <2>1, <2>2, LoadText DEF HolderSays, Carries, Reports, Claimed
<1>8. ASSUME NEW w \in Worker, Send(w) \/ Lose(w) PROVE HolderSays'
  <2>1. PICK q \in Doing :
          /\ worker' = [worker EXCEPT ![w] = q]
          /\ q.phase = "recording" /\ q.row = worker[w].row /\ q.token = worker[w].token
          /\ (Send(w) /\ q \in Answered(worker[w])) \/ q.result = "retry"
    BY <1>8, SendEffect
  <2>2. /\ UNCHANGED row /\ worker[w].phase = "sending" /\ worker[w] \in Doing /\ worker'[w] = q
        /\ \A v \in Worker : v # w => worker'[v] = worker[v]
    BY <1>8, <2>1, SendEffect DEF TypeOK
  <2>3. q.result = "done" => q.text = worker[w].text /\ q.op = worker[w].op
    BY <2>1, <2>2, AnsweredText
  <2> QED
    BY <2>1, <2>2, <2>3 DEF HolderSays, Carries, Reports, Claimed
<1>11. ASSUME NEW w \in Worker, Recheck(w) PROVE HolderSays'
  <2>1. /\ UNCHANGED row /\ worker[w] \in Doing /\ worker[w].phase = "recording"
        /\ \A v \in Worker : v # w => worker'[v] = worker[v]
        /\ worker'[w] \in {Idle, Checked(worker[w])}
    BY <1>11, RecheckEffect DEF TypeOK
  <2>2. LET q == Checked(worker[w]) IN
        /\ q.phase = "writing" /\ q.row = worker[w].row /\ q.token = worker[w].token
        /\ q.op = worker[w].op /\ q.text = worker[w].text
        /\ q.result = "done" <=> worker[w].result = "done"
    BY <2>1, CheckedWorker
  <2>3. Idle.phase = "idle"
    BY DEF Idle
  <2> QED
    BY <2>1, <2>2, <2>3 DEF HolderSays, Carries, Reports, Claimed
<1>9. ASSUME Edit \/ Sync \/ Foreign \/ Reconfigure \/ UNCHANGED vars PROVE UNCHANGED worker
  BY <1>9, EditEffect, SyncEffect DEF Foreign, Reconfigure, vars
<1>10. ASSUME NEW i \in 1 .. rows, Lapse(i) PROVE UNCHANGED worker
  BY <1>10 DEF Lapse
<1> QED
  BY <1>4, <1>5, <1>6, <1>7, <1>8, <1>9, <1>10, <1>11 DEF Next, Work

\* The server's copy stays, is deleted, or has an ETag never given out before.
LEMMA RemoteMoves ==
  ASSUME TypeOK, [Next]_vars
  PROVE  remote' = remote \/ remote'.etag = 0 \/ remote'.etag = etags + 1
<1>1. ASSUME NEW w \in Worker, Send(w) \/ Lose(w)
      PROVE  remote' = remote \/ remote'.etag = 0 \/ remote'.etag = etags + 1
  BY <1>1, SendEffect
<1>2. CASE Foreign
  BY <1>2 DEF Foreign, Gone
<1>3. ASSUME NEW w \in Worker, Claim(w) \/ Load(w) \/ Recheck(w) \/ Record(w) \/ Crash(w)
      PROVE  UNCHANGED remote
  BY <1>3 DEF Claim, Load, Recheck, Record, Crash
<1>4. ASSUME Edit \/ Sync \/ Reconfigure \/ UNCHANGED vars PROVE UNCHANGED remote
  BY <1>4, EditEffect, SyncEffect DEF Reconfigure, vars
<1>5. ASSUME NEW i \in 1 .. rows, Lapse(i) PROVE UNCHANGED remote
  BY <1>5 DEF Lapse
<1> QED
  BY <1>1, <1>2, <1>3, <1>4, <1>5 DEF Next, Work

LEMMA AnswerStandsStep ==
  ASSUME TypeOK, Working, Bounds, AnswerStands, [Next]_vars PROVE AnswerStands'
<1>0. /\ etags \in Nat
      /\ \A w \in Worker : worker[w].etag \in Nat /\ worker[w].etag # etags + 1
  BY DEF TypeOK, Doing, Bounds
<1>1. remote' = remote \/ remote'.etag = 0 \/ remote'.etag = etags + 1
  BY RemoteMoves
<1>2. ASSUME NEW w \in Worker, UNCHANGED worker[w] PROVE Stands(worker[w])'
  BY <1>0, <1>1, <1>2 DEF AnswerStands, Stands
<1>3. ASSUME UNCHANGED worker PROVE AnswerStands'
  BY <1>2, <1>3 DEF AnswerStands
<1>4. ASSUME NEW w \in Worker, NEW q, worker' = [worker EXCEPT ![w] = q], Stands(worker[w])'
      PROVE  AnswerStands'
  <2>1. \A v \in Worker : v # w => worker'[v] = worker[v]
    BY <1>4 DEF TypeOK
  <2> QED
    BY <1>2, <1>4, <2>1 DEF AnswerStands
<1>5. ASSUME NEW w \in Worker, NEW q, worker' = [worker EXCEPT ![w] = q], ~Reports(q)
      PROVE  AnswerStands'
  <2>1. worker'[w] = q
    BY <1>5 DEF TypeOK
  <2> QED
    BY <1>4, <1>5, <2>1 DEF Stands
<1>6. ASSUME NEW w \in Worker, Claim(w) PROVE AnswerStands'
  <2>1. PICK i \in 1 .. rows : worker' = [worker EXCEPT ![w] = Taken(i, claims + 1)]
    BY <1>6, ClaimEffect
  <2>2. Taken(i, claims + 1).phase = "loading"
    BY TakenWorker, CalendarDeliveryAssumption DEF TypeOK
  <2> QED
    BY <1>5, <2>1, <2>2 DEF Reports
<1>7. ASSUME NEW w \in Worker, Record(w) \/ Crash(w) PROVE AnswerStands'
  BY <1>5, <1>7 DEF Record, Crash, Idle, Reports
<1>8. ASSUME NEW w \in Worker, Load(w) PROVE AnswerStands'
  <2>1. worker[w] \in Doing /\ row[worker[w].row] \in Row /\ "conflict" \in Results
    BY <1>8, LoadEffect, WorkingRow DEF Results
  <2>2. ~Reports(Idle) /\ ~Reports(Failed(worker[w], "conflict")) /\ ~Reports(Loaded(worker[w]))
    BY <2>1, FailedWorker, LoadedWorker DEF Reports, Idle
  <2> QED
    BY <1>5, <1>8, <2>2, LoadEffect
<1>9. ASSUME NEW w \in Worker, Send(w) \/ Lose(w) PROVE AnswerStands'
  <2>1. PICK q \in Doing : /\ worker' = [worker EXCEPT ![w] = q]
                           /\ (Send(w) /\ q \in Answered(worker[w])) \/ q.result = "retry"
    BY <1>9, SendEffect
  <2>2. CASE q.result # "done"
    BY <1>5, <2>1, <2>2 DEF Reports
  <2>3. CASE q.result = "done"
    <3>1. remote' = Served(worker[w]) /\ q \in Answered(worker[w])
      BY <2>1, <2>3 DEF Send
    <3>2. worker[w] \in Doing /\ worker'[w] = q
      BY <2>1 DEF TypeOK
    <3>3. /\ q.text = worker[w].text /\ q.op = worker[w].op
          /\ q.etag # 0 => worker[w].op \in {"create", "update"} /\ Served(worker[w]).text = worker[w].text
      BY <2>3, <3>1, <3>2, AnsweredText
    <3>4. Stands(worker[w])'
      BY <3>1, <3>2, <3>3 DEF Stands
    <3> QED
      BY <1>4, <2>1, <3>4
  <2> QED
    BY <2>2, <2>3
<1>10. ASSUME NEW w \in Worker, Recheck(w) PROVE AnswerStands'
  <2>1. /\ worker[w] \in Doing /\ worker[w].phase = "recording" /\ UNCHANGED remote
        /\ Idle.phase = "idle"
    BY <1>10, RecheckEffect DEF Idle
  <2>2. PICK q : worker' = [worker EXCEPT ![w] = q] /\ q \in {Idle, Checked(worker[w])}
    BY <1>10, RecheckEffect
  <2>3. worker'[w] = q
    BY <2>2 DEF TypeOK
  <2>4. CASE q = Idle
    BY <1>5, <2>1, <2>2, <2>4 DEF Reports
  <2>5. CASE q = Checked(worker[w])
    <3>1. /\ q.etag = worker[w].etag /\ q.op = worker[w].op /\ q.text = worker[w].text
          /\ q.result = "done" <=> worker[w].result = "done"
      BY <2>1, <2>5, CheckedWorker
    <3>2. Stands(worker[w])'
      BY <2>1, <2>3, <3>1 DEF Stands, Reports, AnswerStands
    <3> QED
      BY <1>4, <2>2, <3>2
  <2> QED
    BY <2>2, <2>4, <2>5
<1>11. ASSUME Edit \/ Sync \/ Foreign \/ Reconfigure \/ UNCHANGED vars PROVE UNCHANGED worker
  BY <1>11, EditEffect, SyncEffect DEF Foreign, Reconfigure, vars
<1>12. ASSUME NEW i \in 1 .. rows, Lapse(i) PROVE UNCHANGED worker
  BY <1>12 DEF Lapse
<1> QED
  BY <1>3, <1>6, <1>7, <1>8, <1>9, <1>10, <1>11, <1>12 DEF Next, Work

\* Nothing but the pull itself touches what it has read.
LEMMA PullStays ==
  ASSUME TypeOK, [Next]_vars, ~Sync PROVE UNCHANGED pull
<1>1. ASSUME NEW w \in Worker,
             Claim(w) \/ Load(w) \/ Send(w) \/ Lose(w) \/ Recheck(w) \/ Record(w) \/ Crash(w)
      PROVE  UNCHANGED pull
  BY <1>1 DEF Claim, Load, Send, Lose, Recheck, Record, Crash
<1>2. ASSUME Edit \/ Foreign \/ Reconfigure \/ UNCHANGED vars PROVE UNCHANGED pull
  BY <1>2, EditEffect DEF Foreign, Reconfigure, vars
<1>3. ASSUME NEW i \in 1 .. rows, Lapse(i) PROVE UNCHANGED pull
  BY <1>3 DEF Lapse
<1> QED
  BY <1>1, <1>2, <1>3 DEF Next, Work

LEMMA ListingStandsStep ==
  ASSUME TypeOK, Bounds, ListingStands, [Next]_vars PROVE ListingStands'
<1>0. etags \in Nat /\ pull.copy.etag \in Nat /\ pull.copy.etag # etags + 1
  BY DEF TypeOK, Pull, Copy, Bounds
<1>1. remote' = remote \/ remote'.etag = 0 \/ remote'.etag = etags + 1
  BY RemoteMoves
<1>2. ASSUME pull'.copy = pull.copy \/ pull'.copy.etag = 0 PROVE ListingStands'
  BY <1>0, <1>1, <1>2 DEF ListingStands
<1>3. CASE Sync
  <2>1. UNCHANGED remote /\ (PullGoes \/ pull' = NoPull)
    BY <1>3, SyncCases
  <2>2. Gone(0).etag = 0 /\ NoPull.copy.etag = 0
    BY NoPullType
  <2>3. \/ pull'.copy = pull.copy \/ pull'.copy.etag = 0
        \/ pull'.copy.text = remote.text
    BY <2>1, <2>2 DEF PullGoes
  <2> QED
    BY <1>2, <2>1, <2>3 DEF ListingStands
<1>4. CASE ~Sync
  BY <1>2, <1>4, PullStays
<1> QED
  BY <1>3, <1>4

LEMMA OldStandsStep ==
  ASSUME TypeOK, Working, Held, InOrder, Creates, OldStands, [Next]_vars PROVE OldStands'
<1>0. event.version \in Nat /\ pull.old.version \in Nat
  BY DEF TypeOK, Event, Pull
<1>1. CASE Edit
  <2>1. /\ UNCHANGED pull
        /\ event.status # "absent" => event'.version > event.version /\ ~event'.torn
        /\ event.status = "absent" => event'.version = 1 /\ event'.torn = event.torn
        /\ event'.version \in Nat
    BY <1>1, EditEffect DEF Event
  <2>2. event.status = "absent" => ~event.torn /\ pull.phase = "idle" /\ event.version = 0
    BY DEF Creates
  <2> QED
    BY <1>0, <2>1, <2>2 DEF OldStands
<1>2. CASE Sync
  <2>1. /\ UNCHANGED <<row, rows>>
        /\ (UNCHANGED event /\ PullGoes) \/ (pull' = NoPull /\ PullWrites)
    BY <1>2, SyncCases
  <2>2. CASE UNCHANGED event /\ PullGoes
    <3>1. Absent.version = 0
      BY DEF Absent
    <3>2. pull'.old.version <= event.version
      BY <1>0, <2>2, <3>1, NoPullType DEF PullGoes, OldStands
    <3>3. pull'.phase \in {"found", "lost"} => pull'.old = event
      BY <2>2, NoPullType DEF PullGoes
    <3> QED
      BY <2>1, <2>2, <3>2, <3>3 DEF OldStands, AnyOpen, Open
  <2>3. CASE pull' = NoPull /\ PullWrites
    <3>1. /\ event' = event \/ (~AnyOpen /\ event'.version = event.version + 1)
      BY <2>3, PullEffect
    <3> QED
      BY <1>0, <2>1, <2>3, <3>1, NoPullType DEF OldStands, AnyOpen, Open
  <2> QED
    BY <2>1, <2>2, <2>3
<1>3. CASE ~Edit /\ ~Sync
  <2>1. /\ event'.version = event.version /\ event'.text = event.text /\ event'.status = event.status
        /\ UNCHANGED pull
    BY <1>3, EventKept, PullStays
  <2>2. event' = event \/ (AnyOpen /\ event'.torn = event.torn)
    <3>1. ASSUME NEW w \in Worker, Record(w)
          PROVE  event' = event \/ (AnyOpen /\ event'.torn = event.torn)
      <4>1. AnyOpen
        BY <3>1, RecordEffect DEF Claimed, Open, AnyOpen
      <4>2. event' = event \/ event'.torn = event.torn
        BY <3>1, RecordEffect, ToldEvent
      <4> QED
        BY <4>1, <4>2
    <3>2. ASSUME NEW w \in Worker, Claim(w) \/ Load(w) \/ Send(w) \/ Lose(w) \/ Recheck(w) \/ Crash(w)
          PROVE  UNCHANGED event
      BY <3>2 DEF Claim, Load, Send, Lose, Recheck, Crash
    <3>3. ASSUME NEW i \in 1 .. rows, Lapse(i) PROVE UNCHANGED event
      BY <3>3 DEF Lapse
    <3>4. ASSUME Foreign \/ Reconfigure \/ UNCHANGED vars PROVE UNCHANGED event
      BY <3>4 DEF Foreign, Reconfigure, vars
    <3> QED
      BY <1>3, <3>1, <3>2, <3>3, <3>4 DEF Next, Work
  <2>3. AnyOpen' => AnyOpen
    BY <1>3, RowsKept DEF RowsKeep, AnyOpen
  <2> QED
    BY <2>1, <2>2, <2>3 DEF OldStands
<1> QED
  BY <1>1, <1>2, <1>3

LEMMA TrustedStep ==
  ASSUME TypeOK, Working, Held, RowsThere, InOrder, Tokens, Bounds, Creates, Gens, Texts, [Next]_vars
  PROVE  TrustedEtag'
<1> USE DEF Texts
<1>0. /\ etags \in Nat /\ event.etag \in Nat /\ event.etag # etags + 1 /\ rows \in Nat
  BY CalendarDeliveryAssumption DEF TypeOK, Event, Bounds
<1>1. remote' = remote \/ remote'.etag = 0 \/ remote'.etag = etags + 1
  BY RemoteMoves
\* As long as the event stays and no delivery is closed.
<1>2. ASSUME event' = event, ~AnyOpen' => ~AnyOpen PROVE TrustedEtag'
  BY <1>0, <1>1, <1>2 DEF TrustedEtag
<1>3. CASE Edit
  <2>1. PICK k \in 1 .. rows' :
          Made(k) /\ ((k > rows /\ Open(k)') \/ (k = 1 /\ row'[1].op = "create"))
    BY <1>3, EditRows DEF Gens
  <2>2. /\ \A i \in 1 .. rows' :
             Made(i) \/ (i \in 1 .. rows /\ row'[i] = row[i] /\ row[i].gen < event'.version)
        /\ rows' \in {rows, rows + 1}
    BY <1>3, EditRows DEF Gens
  <2>3. CASE Open(k)'
    BY <2>3 DEF TrustedEtag, AnyOpen
  <2>4. CASE ~Open(k)'
    <3>1. k = 1 /\ row'[1].op = "create"
      BY <2>1, <2>4
    <3>2. PICK op \in RowOps : Enqueue(op, event')
      BY <1>3, EditEffect
    <3>3. event' \in Event /\ event'.etag = event.etag
      BY <1>3, EditEffect
    <3>4. 1 \in 1 .. rows /\ (row'[1] = row[1] \/ Foldable(1))
      <4>1. \A i \in 1 .. rows' : i > rows => row'[i] = Queued(op, event')
        BY <3>2, <3>3, EnqueueEffect
      <4>2. \A i \in 1 .. rows : row'[i] = row[i] \/ Foldable(i)
        BY <3>2, <3>3, EnqueueEffect
      <4>3. ~(1 > rows)
        BY <2>4, <3>1, <4>1, QueuedRow DEF Open
      <4> QED
        BY <1>0, <4>2, <4>3
    <3>5. CASE Foldable(1)
      <4>1. event.etag = 0
        BY <3>4, <3>5 DEF Creates, Foldable, Open
      <4> QED
        BY <3>3, <4>1 DEF TrustedEtag
    <3>6. CASE row'[1] = row[1]
      <4>1. event'.version > event.version /\ row[1].gen <= event.version
        BY <1>0, <1>3, <3>4, EditMakes DEF Gens
      <4>2. row[1].gen = event'.version
        BY <2>1, <3>1, <3>6 DEF Made
      <4> QED
        BY <3>3, <4>1, <4>2 DEF TypeOK, Event
    <3> QED
      BY <3>4, <3>5, <3>6
  <2> QED
    BY <2>3, <2>4
<1>4. ASSUME ~Edit, ~AnyOpen', UNCHANGED row PROVE ~AnyOpen
  <2>1. rows' = rows
    BY <1>4, RowsKept DEF RowsKeep
  <2> QED
    BY <1>4, <2>1 DEF AnyOpen, Open
<1>5. ASSUME NEW w \in Worker, Record(w) PROVE TrustedEtag'
  <2>0. PICK i \in 1 .. rows : i = worker[w].row /\ i \in 1 .. MaxRows /\ row[i] \in Row
    BY <1>5, RecordEffect
  <2>1. /\ Claimed(worker[w]) /\ worker[w].phase = "writing" /\ worker[w] \in Doing
        /\ UNCHANGED <<rows, remote>> /\ "conflict" \in Results
    BY <1>5, RecordEffect DEF Results
  <2>2. ASSUME NEW result \in Results, row' = [row EXCEPT ![i] = Failure(row[i], result)]
        PROVE  TrustedEtag'
    <3>1. row'[i] = Failure(row[i], result)
      BY <2>0, <2>2 DEF TypeOK
    <3>2. Open(i)'
      BY <2>0, <3>1, ClosingRow DEF Open
    <3> QED
      BY <2>1, <3>2 DEF TrustedEtag, AnyOpen
  <2>3. ASSUME worker[w].result = "done", Covered(i), event' = Told(worker[w]),
               row' = [row EXCEPT ![i] = Completed(row[i])]
        PROVE  TrustedEtag'
    <3>1. row'[i].state = "completed" /\ \A j \in 1 .. rows : j # i => row'[j] = row[j]
      BY <2>0, <2>1, <2>3, ClosingRow DEF TypeOK
    <3>2. ASSUME ~AnyOpen' PROVE event.version = row[i].gen
      <4>1. \A j \in (i + 1) .. rows : ~Open(j)
        BY <1>0, <2>0, <2>1, <3>1, <3>2 DEF AnyOpen, Open
      <4> QED
        BY <2>3, <4>1 DEF Covered
    <3>3. /\ event'.etag = worker[w].etag /\ event'.text = event.text
          /\ event'.status = event.status
      BY <2>1, <2>3, ToldEvent
    <3>4. Open(i) /\ Carries(worker[w]) /\ Reports(worker[w])
      BY <2>0, <2>1, <2>3 DEF Claimed, Open, Carries, Reports
    <3>5. ASSUME ~AnyOpen', event'.etag # 0, event'.etag = remote.etag
          PROVE  event'.text = remote.text /\ event'.status = Status(event'.text)
      <4>1. remote.text = worker[w].text /\ worker[w].op \in {"create", "update"}
        BY <3>3, <3>4, <3>5 DEF AnswerStands, Stands
      <4>2. worker[w].text = row[i].text /\ row[i].op # "delete"
        BY <2>0, <2>1, <3>4, <4>1 DEF HolderSays
      <4>3. row[i].text = event.text /\ event.status = "confirmed" /\ event.text \notin Cancelling
        BY <3>2, <3>4, <3>5, <4>2 DEF RowSays
      <4> QED
        BY <3>3, <4>1, <4>2, <4>3 DEF Status
    <3> QED
      BY <2>1, <3>5 DEF TrustedEtag
  <2> QED
    BY <1>5, <2>0, <2>2, <2>3, RecordEffect
<1>6. CASE Sync
  <2>1. UNCHANGED <<row, rows, remote>> /\ (UNCHANGED event \/ PullWrites)
    BY <1>6, SyncCases
  <2>2. CASE event' = event
    BY <1>2, <2>1, <2>2 DEF AnyOpen, Open
  <2> DEFINE old == pull.old
             copy == pull.copy
  <2>3. ASSUME NEW new \in Event, pull.phase \in {"found", "lost"}, Refresh(old, new), event' # event
        PROVE  /\ event.text = old.text /\ event.status = old.status
               /\ event.torn => event.etag = old.etag
               /\ event'.text = new.text /\ event'.status = new.status
               /\ event'.etag = IF new.etag = old.etag THEN event.etag ELSE new.etag
               /\ event'.torn <=> /\ new.etag = old.etag /\ event.etag # old.etag
                                  /\ <<new.status, new.text>> # <<old.status, old.text>>
               /\ ~AnyOpen
    <3>1. event.version = old.version /\ event' = Written(old, new) /\ ~AnyOpen
      BY <2>3, RefreshEffect
    <3>2. old \in Event
      BY DEF TypeOK, Pull
    <3>3. /\ event.text = old.text /\ event.status = old.status
          /\ event.torn => event.etag = old.etag
      BY <2>3, <3>1 DEF OldStands
    <3> HIDE DEF old
    <3> QED
      BY <3>1, <3>2, <3>3, WrittenType
  <2>4. CASE pull.phase = "found" /\ Refresh(old, Pulled(old, copy)) /\ event' # event
    <3> DEFINE new == Pulled(old, copy)
    <3>1. /\ new \in Event /\ new.status = Status(copy.text) /\ new.text = copy.text
          /\ new.etag = copy.etag
      BY PulledType DEF TypeOK, Pull
    <3>2. copy.etag # 0 /\ copy.etag = remote.etag => copy.text = remote.text
      BY DEF ListingStands
    <3> HIDE DEF new, old, copy
    <3>3. /\ event.text = old.text /\ event.status = old.status
          /\ event.torn => event.etag = old.etag
          /\ event'.text = new.text /\ event'.status = new.status
          /\ event'.etag = IF new.etag = old.etag THEN event.etag ELSE new.etag
          /\ event'.torn <=> /\ new.etag = old.etag /\ event.etag # old.etag
                             /\ <<new.status, new.text>> # <<old.status, old.text>>
          /\ ~AnyOpen
      BY <2>3, <2>4, <3>1 DEF new
    <3>4. CASE event'.etag = new.etag
      BY <2>1, <3>1, <3>2, <3>3, <3>4 DEF TrustedEtag
    <3>5. CASE event'.etag # new.etag
      BY <2>1, <3>1, <3>3, <3>5 DEF TrustedEtag
    <3> QED
      BY <3>4, <3>5
  <2>5. CASE pull.phase = "lost" /\ Refresh(old, Vanished(old)) /\ event' # event
    <3> DEFINE new == Vanished(old)
    <3>1. new \in Event /\ new.text = old.text /\ new.etag = 0
      BY VanishedType DEF TypeOK, Pull
    <3> HIDE DEF new, old, copy
    <3>3. /\ event.text = old.text /\ event.status = old.status
          /\ event.torn => event.etag = old.etag
          /\ event'.text = new.text /\ event'.status = new.status
          /\ event'.etag = IF new.etag = old.etag THEN event.etag ELSE new.etag
          /\ event'.torn <=> /\ new.etag = old.etag /\ event.etag # old.etag
                             /\ <<new.status, new.text>> # <<old.status, old.text>>
          /\ ~AnyOpen
      BY <2>3, <2>5, <3>1 DEF new
    <3> QED
      BY <2>1, <3>1, <3>3 DEF TrustedEtag
  <2> QED
    BY <2>1, <2>2, <2>4, <2>5 DEF PullWrites
<1>7. ASSUME NEW w \in Worker, Claim(w) PROVE TrustedEtag'
  <2>1. PICK i \in 1 .. rows :
          /\ i \in 1 .. MaxRows /\ row' = [row EXCEPT ![i] = Begun(row[i], claims + 1)]
    BY <1>7, ClaimEffect
  <2>2. row'[i].state = "processing" /\ rows' = rows
    <3>1. row[i] \in Row /\ claims + 1 \in Nat
      BY <2>1 DEF TypeOK
    <3> QED
      BY <1>7, <2>1, <3>1, BegunRow DEF TypeOK, Claim
  <2> QED
    BY <2>2 DEF TrustedEtag, AnyOpen, Open
<1>8. ASSUME NEW i \in 1 .. rows, Lapse(i) PROVE TrustedEtag'
  <2>1. row' = [row EXCEPT ![i] = [row[i] EXCEPT !.lapsed = TRUE]] /\ rows' = rows
        /\ row[i].state = "processing"
    BY <1>8 DEF Lapse
  <2>2. row'[i].state = "processing"
    BY <2>1, CalendarDeliveryAssumption DEF TypeOK, Row
  <2> QED
    BY <2>1, <2>2 DEF TrustedEtag, AnyOpen, Open
<1>9. ASSUME NEW w \in Worker, Load(w) \/ Send(w) \/ Lose(w) \/ Recheck(w) \/ Crash(w)
      PROVE  UNCHANGED <<row, rows, event>>
  BY <1>9 DEF Load, Send, Lose, Recheck, Crash
<1>10. ASSUME Foreign \/ Reconfigure \/ UNCHANGED vars PROVE UNCHANGED <<row, rows, event>>
  BY <1>10 DEF Foreign, Reconfigure, vars
<1>11. ASSUME UNCHANGED <<row, rows, event>> PROVE TrustedEtag'
  BY <1>2, <1>11 DEF AnyOpen, Open
<1> QED
  BY <1>3, <1>5, <1>6, <1>7, <1>8, <1>9, <1>10, <1>11 DEF Next, Work

-----------------------------------------------------------------------------
(* The theorems                                                            *)

IInv == /\ TypeOK /\ Working /\ Held /\ RowsThere /\ InOrder /\ Tokens
        /\ Bounds /\ Writer /\ Creates /\ KnownClosed /\ Seen /\ LastEdit

LEMMA InvariantInit == Init => IInv
<1> SUFFICES ASSUME Init PROVE IInv
  OBVIOUS
<1> USE CalendarDeliveryAssumption
<1>1. /\ row = [i \in 1 .. MaxRows |-> NoRow] /\ rows = 0 /\ claims = 0 /\ config = 1
      /\ worker = [w \in Worker |-> Idle] /\ pull = NoPull /\ faults = 0
  BY DEF Init
<1>2. NoRow \in Row /\ Idle \in Doing /\ NoPull \in Pull
  BY NoRowType, IdleType, NoPullType
<1>3. /\ event \in Event /\ remote \in Copy /\ etags \in Nat /\ remote.by = 0
      /\ event.etag <= etags /\ remote.etag <= etags
  <2>1. CASE event = Absent /\ remote = Gone(0) /\ etags = 0
    BY <2>1, NoPullType DEF Gone, Copy, Absent
  <2>2. ASSUME NEW t \in Text,
               event = [status |-> Status(t), text |-> t, version |-> 1, href |-> TRUE, etag |-> 1,
                        origin |-> "caldav", pulled |-> 1, torn |-> FALSE],
               remote = [etag |-> 1, text |-> t, by |-> 0], etags = 1
        PROVE  /\ event \in Event /\ remote \in Copy /\ etags \in Nat /\ remote.by = 0
               /\ event.etag <= etags /\ remote.etag <= etags
    <3> DEFINE st == Status(t)
    <3>1. st \in {"absent", "confirmed", "cancelled"}
      BY DEF Status
    <3> HIDE DEF st
    <3>2. event = [status |-> st, text |-> t, version |-> 1, href |-> TRUE, etag |-> 1,
                   origin |-> "caldav", pulled |-> 1, torn |-> FALSE]
      BY <2>2 DEF st
    <3>3. event \in Event /\ event.etag = 1
      BY <3>1, <3>2 DEF Event
    <3> QED
      BY <2>2, <3>3 DEF Copy
  <2> QED
    BY <2>1, <2>2 DEF Init
<1>4. TypeOK
  BY <1>1, <1>2, <1>3 DEF TypeOK
<1>5. \A w \in Worker : worker[w].phase = "idle" /\ worker[w].etag = 0
  BY <1>1 DEF Idle
<1>6. Working /\ Held /\ RowsThere /\ InOrder /\ Tokens /\ Writer /\ KnownClosed /\ Seen
  BY <1>1, <1>3, <1>5 DEF Working, Held, RowsThere, InOrder, Tokens, Writer, KnownClosed, Seen,
                          HolderSees, NewsKept, SeenKept, Reports
<1>7. Bounds
  <2>1. etags >= 0
    BY <1>3
  <2>2. pull.copy.etag = 0 /\ pull.old.etag = 0
    BY <1>1, NoPullType
  <2> QED
    BY <1>3, <1>5, <2>1, <2>2 DEF Bounds
<1>8. Creates
  <2>1. \/ event = Absent
        \/ \E t \in Text : event.status = Status(t)
    BY DEF Init
  <2>2. event.status = "absent" => event = Absent
    BY <2>1 DEF Status
  <2>3. Absent.etag = 0 /\ Absent.version = 0 /\ ~Absent.torn
    BY DEF Absent
  <2>4. pull.phase = "idle"
    BY <1>1, NoPullType
  <2> QED
    BY <1>1, <2>2, <2>3, <2>4 DEF Creates
<1>9. LastEdit
  BY DEF Init, LastEdit, Absent
<1> QED
  BY <1>4, <1>6, <1>7, <1>8, <1>9 DEF IInv

LEMMA InvariantStep == PromptRecord /\ IInv /\ [Next]_vars => IInv'
<1> SUFFICES ASSUME PromptRecord, IInv, [Next]_vars PROVE IInv'
  OBVIOUS
<1>1. /\ TypeOK /\ Working /\ Held /\ RowsThere /\ InOrder /\ Tokens
      /\ Bounds /\ Writer /\ Creates /\ KnownClosed /\ Seen /\ LastEdit
  BY DEF IInv
<1>2. TypeOK'
  BY <1>1, TypeStep
<1>3. Working' /\ Tokens'
  BY <1>1, TokensStep
<1>4. InOrder' /\ RowsThere'
  BY <1>1, InOrderStep
<1>5. Bounds'
  BY <1>1, BoundsStep
<1>6. Writer'
  BY <1>1, WriterStep
<1>7. Creates'
  BY <1>1, CreatesStep
<1>8. Seen'
  BY <1>1, SeenStep
<1>9. LastEdit'
  BY <1>1, LastEditStep
<1>10. KnownClosed'
  BY <1>1, KnownClosedStep
<1>11. Held'
  BY <1>1, HeldStep
<1> QED
  BY <1>2, <1>3, <1>4, <1>5, <1>6, <1>7, <1>8, <1>9, <1>10, <1>11 DEF IInv

\* A delivery that changes the server's copy does so from an earlier delivery's
\* copy, or from another client's that the event row has seen.
LEMMA CopyStep ==
  ASSUME IInv, [Next]_vars, remote.etag # 0, remote' # remote, remote'.by # 0
  PROVE  remote'.by >= remote.by /\ (remote.by = 0 => event.etag = remote.etag)
<1>1. TypeOK /\ Working /\ Seen /\ Writer
  BY DEF IInv
<1>2. ASSUME NEW w \in Worker, Send(w) \/ Lose(w)
      PROVE  remote'.by >= remote.by /\ (remote.by = 0 => event.etag = remote.etag)
  <2>1. /\ worker[w].phase = "sending" /\ Accepts(worker[w]) /\ remote'.by = worker[w].row
    BY <1>1, <1>2, SendEffect
  <2>2. worker[w].op \in {"update", "delete"} /\ worker[w].etag = remote.etag
    BY <1>1, <2>1 DEF Accepts, Precondition, TypeOK, Doing
  <2>3. Known /\ remote.by < worker[w].row
    BY <1>1, <2>1, <2>2 DEF Seen, SeenKept
  <2>4. remote.by \in Nat /\ worker[w].row \in Nat
    BY <1>1 DEF TypeOK, Copy, Doing
  <2> QED
    BY <2>1, <2>3, <2>4 DEF Known
<1>3. ASSUME NEW w \in Worker, Claim(w) \/ Load(w) \/ Recheck(w) \/ Record(w) \/ Crash(w)
      PROVE  UNCHANGED remote
  BY <1>3 DEF Claim, Load, Recheck, Record, Crash
<1>4. ASSUME Edit \/ Sync \/ Reconfigure \/ UNCHANGED vars PROVE UNCHANGED remote
  BY <1>1, <1>4, EditEffect, SyncEffect DEF Reconfigure, vars
<1>5. ASSUME NEW i \in 1 .. rows, Lapse(i) PROVE UNCHANGED remote
  BY <1>5 DEF Lapse
<1>6. ASSUME Foreign PROVE remote'.by = 0
  BY <1>6 DEF Foreign, Gone
<1> QED
  BY <1>2, <1>3, <1>4, <1>5, <1>6 DEF Next, Work

\* What a pull writes over was delivered, folded into a cancelled create, or
\* came from a pull.
LEMMA PullStep ==
  ASSUME IInv, [Next]_vars, event'.pulled # event.pulled
  PROVE  \/ event.version = event.pulled
         \/ \E i \in 1 .. rows :
              row[i].gen = event.version /\ row[i].state \in {"completed", "cancelled"}
<1>1. TypeOK /\ Working /\ Held /\ RowsThere /\ LastEdit
  BY DEF IInv
<1>2. CASE Sync
  <2>1. ~AnyOpen
    BY <1>1, <1>2, SyncEffect
  <2> QED
    BY <1>1, <2>1 DEF LastEdit, RowsThere, AnyOpen, Open
<1>3. CASE Edit
  BY <1>1, <1>3, EditEffect
<1>5. ASSUME NEW w \in Worker, Record(w) PROVE event'.pulled = event.pulled
  BY <1>1, <1>5, RecordEffect, ToldEvent
<1>6. ASSUME NEW w \in Worker, Claim(w) \/ Load(w) \/ Send(w) \/ Lose(w) \/ Recheck(w) \/ Crash(w)
      PROVE  UNCHANGED event
  BY <1>6 DEF Claim, Load, Send, Lose, Recheck, Crash
<1>7. ASSUME NEW i \in 1 .. rows, Lapse(i) PROVE UNCHANGED event
  BY <1>7 DEF Lapse
<1>8. ASSUME Foreign \/ Reconfigure \/ UNCHANGED vars PROVE UNCHANGED event
  BY <1>8 DEF Foreign, Reconfigure, vars
<1> QED
  BY <1>2, <1>3, <1>5, <1>6, <1>7, <1>8 DEF Next, Work

\* The inductive invariant of the calendar outbox: what workers, event row and
\* server know of each other is kept by every edit, claim, request and pull, as
\* long as no claim is taken over between its last check and the commit.
THEOREM CalendarInvariant == ASSUME PromptRecord PROVE Spec => []IInv
  BY InvariantInit, InvariantStep, PTL DEF Spec

\* Event row, deliveries, workers and server keep their types.
THEOREM CalendarTypes == ASSUME PromptRecord PROVE Spec => []TypeOK
<1>1. IInv => TypeOK
  BY DEF IInv
<1> QED
  BY CalendarInvariant, <1>1, PTL

\* Per-event FIFO (_has_earlier_open_delivery): no delivery is begun while an
\* earlier one of the event is open.
THEOREM DeliveredInOrder == ASSUME PromptRecord PROVE Spec => []InOrder
<1>1. IInv => InOrder
  BY DEF IInv
<1> QED
  BY CalendarInvariant, <1>1, PTL

\* However late a request arrives, no delivery replaces what a later one wrote.
THEOREM LaterDeliveryStands == ASSUME PromptRecord PROVE Spec => QueueOrder
<1>1. IInv /\ [Next]_vars =>
        [(remote.etag # 0 /\ remote' # remote /\ remote'.by # 0) => remote'.by >= remote.by]_vars
  BY CopyStep
<1> QED
  BY CalendarInvariant, <1>1, PTL DEF Spec, QueueOrder

\* No delivery replaces another client's change that the event row has not seen
\* (the If-Match of put_calendar_event and delete_calendar_event).
THEOREM ForeignChangeStands == ASSUME PromptRecord PROVE Spec => ForeignKept
<1>1. IInv /\ [Next]_vars =>
        [(remote.etag # 0 /\ remote.by = 0 /\ remote' # remote /\ remote'.by # 0)
           => event.etag = remote.etag]_vars
  BY CopyStep
<1> QED
  BY CalendarInvariant, <1>1, PTL DEF Spec, ForeignKept

\* A pull (ingest_remote_calendar_event, cancel_missing_remote_calendar_event)
\* replaces the user's last edit only after its delivery.
THEOREM LastEditStands == ASSUME PromptRecord PROVE Spec => EditsStand
<1>1. IInv /\ [Next]_vars =>
        [event'.pulled # event.pulled =>
           \/ event.version = event.pulled
           \/ \E i \in 1 .. rows :
                row[i].gen = event.version /\ row[i].state \in {"completed", "cancelled"}]_vars
  BY PullStep
<1> QED
  BY CalendarInvariant, <1>1, PTL DEF Spec, EditsStand

LEMMA TextsInit == Init => Gens /\ Texts
<1> SUFFICES ASSUME Init PROVE Gens /\ Texts
  OBVIOUS
<1>1. rows = 0 /\ worker = [w \in Worker |-> Idle] /\ pull = NoPull
  BY DEF Init
<1>2. ~Carries(Idle) /\ ~Reports(Idle)
  BY DEF Carries, Reports, Idle
<1>3. /\ event.version \in Nat /\ ~event.torn
      /\ event.etag # 0 => event.status = Status(event.text) /\ event.text = remote.text
  BY DEF Init, Absent
<1>4. Gens /\ RowSays /\ ListingStands /\ OldStands /\ TrustedEtag
  BY <1>1, <1>3, NoPullType DEF Gens, RowSays, ListingStands, OldStands, TrustedEtag
<1>5. HolderSays /\ AnswerStands
  BY <1>1, <1>2 DEF HolderSays, AnswerStands, Stands
<1> QED
  BY <1>4, <1>5 DEF Texts

LEMMA TextsStep == IInv /\ Gens /\ Texts /\ [Next]_vars => (Gens /\ Texts)'
<1> SUFFICES ASSUME IInv, Gens, Texts, [Next]_vars PROVE (Gens /\ Texts)'
  OBVIOUS
<1>1. TypeOK /\ Working /\ Held /\ RowsThere /\ InOrder /\ Tokens /\ Bounds /\ Creates
  BY DEF IInv
<1>2. RowSays /\ HolderSays /\ AnswerStands /\ ListingStands /\ OldStands
  BY DEF Texts
<1>3. Gens'
  BY <1>1, GensStep
<1>4. RowSays'
  BY <1>1, <1>2, RowSaysStep
<1>5. HolderSays'
  BY <1>1, <1>2, HolderSaysStep
<1>6. AnswerStands'
  BY <1>1, <1>2, AnswerStandsStep
<1>7. ListingStands'
  BY <1>1, <1>2, ListingStandsStep
<1>8. TrustedEtag'
  BY <1>1, TrustedStep
<1>9. OldStands'
  BY <1>1, <1>2, OldStandsStep
<1> QED
  BY <1>3, <1>4, <1>5, <1>6, <1>7, <1>8, <1>9 DEF Texts

\* Once the outbox of the event is empty, an ETag the event row shares with the
\* server stands for what the row says, unless a pull wrote the row between the
\* record of a delivery and the next edit without having seen its ETag.
THEOREM EtagIsTrusted == ASSUME PromptRecord PROVE Spec => []TrustedEtag
<1>1. Init => IInv /\ Gens /\ Texts
  BY InvariantInit, TextsInit
<1>2. PromptRecord /\ IInv /\ Gens /\ Texts /\ [Next]_vars => (IInv /\ Gens /\ Texts)'
  BY InvariantStep, TextsStep
<1>3. Texts => TrustedEtag
  BY DEF Texts
<1> QED
  BY <1>1, <1>2, <1>3, PTL DEF Spec

\* No queued delivery is given up as "event changed without delivery", unless
\* the create before it took over a later edit.
THEOREM EveryGenerationIsCovered == ASSUME PromptRecord PROVE Spec => []GenerationsCovered
<1>1. Init => IInv /\ Gens /\ Texts
  BY InvariantInit, TextsInit
<1>2. PromptRecord /\ IInv /\ Gens /\ Texts /\ [Next]_vars => (IInv /\ Gens /\ Texts)'
  BY InvariantStep, TextsStep
<1>3. Gens => GenerationsCovered
  BY DEF Gens, GenerationsCovered
<1> QED
  BY <1>1, <1>2, <1>3, PTL DEF Spec
=============================================================================
