---------------------- MODULE CalendarRefinementProofs ----------------------
(***************************************************************************)
(* Edits, outbox rows, workers, lost answers and pulls together implement  *)
(* TwoCopies, for any set of workers and texts and whatever the bounds, as *)
(* long as no claim is taken over between its last check and the commit.   *)
(* Beside the invariants of CalendarDeliveryProofs the proof needs three   *)
(* that tie the texts in the deliveries and in the requests to what the    *)
(* user asked for.                                                         *)
(***************************************************************************)
EXTENDS CalendarDeliveryProofs

-----------------------------------------------------------------------------
(* What was asked for                                                      *)

Says == Text \cup {NoText}

\* A copy without an ETag is no copy, and a pull goes on about an event it found
\* or about one that was missing.
CopySays ==
  /\ remote.etag = 0 <=> remote.text = NoText
  /\ pull.phase = "found" => pull.copy.text # NoText
  /\ pull.phase \in {"missing", "verified", "lost"} => pull.copy.text = NoText

\* A delivery was asked for once at least; an open one carries what was asked
\* last, and a delete takes no other edit.
RowAsked ==
  /\ \A i \in 1 .. MaxRows : i > rows => row[i].asked = << >>
  /\ \A i \in 1 .. rows :
       /\ row[i].asked # << >>
       /\ row[i].op = "delete" => row[i].asked = <<NoText>>
       /\ Open(i) => row[i].text \in Text
       /\ Open(i) /\ row[i].op # "delete" => row[i].text = row[i].asked[Len(row[i].asked)]

\* A request, however old, carries something that was asked for in its delivery.
SentAsked ==
  \A w \in Worker : worker[w].phase = "sending" =>
    /\ worker[w].text \in Text
    /\ IF worker[w].op \in {"create", "update"}
       THEN \E k \in 1 .. Len(row[worker[w].row].asked) :
              worker[w].text = row[worker[w].row].asked[k]
       ELSE row[worker[w].row].op = "delete"

LEMMA AskedMore ==
  ASSUME NEW s \in Seq(Says), NEW t \in Says
  PROVE  /\ Append(s, t) \in Seq(Says) /\ Append(s, t) # << >>
         /\ Append(s, t)[Len(Append(s, t))] = t
         /\ Len(Append(s, t)) = Len(s) + 1 /\ Len(s) \in Nat
         /\ \A k \in 1 .. Len(s) : Append(s, t)[k] = s[k]
  OBVIOUS

LEMMA AskedFirst ==
  ASSUME NEW t \in Says
  PROVE  /\ Append(<< >>, t) = <<t>> /\ <<t>> # << >> /\ <<t>>[Len(<<t>>)] = t
  OBVIOUS

\* Only an edit asks for anything.
LEMMA AskedKept ==
  ASSUME TypeOK, Working, Held, [Next]_vars, ~Edit
  PROVE  \A i \in 1 .. MaxRows : row'[i].asked = row[i].asked
<1> USE CalendarDeliveryAssumption
<1>1. ASSUME NEW i \in 1 .. MaxRows, NEW r, row' = [row EXCEPT ![i] = r], r.asked = row[i].asked
      PROVE  \A j \in 1 .. MaxRows : row'[j].asked = row[j].asked
  BY <1>1 DEF TypeOK
<1>2. ASSUME NEW w \in Worker, Claim(w)
      PROVE  \A j \in 1 .. MaxRows : row'[j].asked = row[j].asked
  <2>1. PICK i \in 1 .. rows :
          i \in 1 .. MaxRows /\ row' = [row EXCEPT ![i] = Begun(row[i], claims + 1)]
    BY <1>2, ClaimEffect
  <2>2. Begun(row[i], claims + 1).asked = row[i].asked
    BY <2>1 DEF Begun, TypeOK, Row
  <2> QED
    BY <1>1, <2>1, <2>2
<1>3. ASSUME NEW w \in Worker, Record(w)
      PROVE  \A j \in 1 .. MaxRows : row'[j].asked = row[j].asked
  <2>1. PICK i \in 1 .. MaxRows :
          /\ row[i] \in Row
          /\ \/ row' = [row EXCEPT ![i] = Completed(row[i])]
             \/ \E result \in Results : row' = [row EXCEPT ![i] = Failure(row[i], result)]
    BY <1>3, RecordEffect
  <2>2. /\ Completed(row[i]).asked = row[i].asked
        /\ \A result \in Results : Failure(row[i], result).asked = row[i].asked
    BY <2>1, ClosingRow DEF Results
  <2> QED
    BY <1>1, <2>1, <2>2
<1>4. ASSUME NEW i \in 1 .. rows, Lapse(i)
      PROVE  \A j \in 1 .. MaxRows : row'[j].asked = row[j].asked
  <2>1. i \in 1 .. MaxRows /\ row' = [row EXCEPT ![i] = [row[i] EXCEPT !.lapsed = TRUE]]
    BY <1>4 DEF Lapse, TypeOK
  <2>2. [row[i] EXCEPT !.lapsed = TRUE].asked = row[i].asked
    BY <2>1 DEF TypeOK, Row
  <2> QED
    BY <1>1, <2>1, <2>2
<1>5. ASSUME NEW w \in Worker, Load(w) \/ Send(w) \/ Lose(w) \/ Recheck(w) \/ Crash(w)
      PROVE  row' = row
  BY <1>5 DEF Load, Send, Lose, Recheck, Crash
<1>6. ASSUME Sync \/ Foreign \/ Reconfigure \/ UNCHANGED vars PROVE row' = row
  BY <1>6, SyncEffect DEF Foreign, Reconfigure, vars
<1> QED
  BY <1>2, <1>3, <1>4, <1>5, <1>6 DEF Next, Work

\* What an edit asks for.
LEMMA EditAsks ==
  ASSUME TypeOK, Edit
  PROVE  /\ event' \in Event /\ event'.text \in Text
         /\ \E op \in RowOps :
              Enqueue(op, event') /\ Mine' = IF op = "delete" THEN NoText ELSE event'.text
<1>1. event' \in Event
  BY EditEffect
<1>2. ASSUME NEW t \in Text, Create(t)
      PROVE  event'.text = t /\ event'.status = "confirmed" /\ Enqueue("create", event')
  BY <1>2 DEF Create, TypeOK, Event
<1>3. ASSUME NEW t \in Text, NEW status \in {"confirmed", "cancelled"}, Mutate(status, t)
      PROVE  /\ event'.text = t /\ event'.status = status
             /\ Enqueue(IF status = "cancelled" THEN "delete" ELSE "update", event')
  BY <1>3 DEF Mutate, TypeOK, Event
<1>4. CASE \E t \in Text \ Cancelling : Create(t)
  BY <1>1, <1>2, <1>4 DEF RowOps, Mine
<1>5. CASE \E t \in Text \ Cancelling : \E status \in {"confirmed", "cancelled"} : Mutate(status, t)
  <2>1. PICK t \in Text \ Cancelling, status \in {"confirmed", "cancelled"} : Mutate(status, t)
    BY <1>5
  <2> DEFINE op == IF status = "cancelled" THEN "delete" ELSE "update"
  <2>2. /\ event'.text = t /\ event'.status = status /\ Enqueue(op, event')
    BY <1>3, <2>1
  <2>3. op \in RowOps /\ (op = "delete" <=> status # "confirmed")
    BY DEF RowOps
  <2> HIDE DEF op
  <2>4. Mine' = IF op = "delete" THEN NoText ELSE event'.text
    BY <2>2, <2>3 DEF Mine
  <2> QED
    BY <1>1, <2>2, <2>3, <2>4
<1> QED
  BY <1>4, <1>5 DEF Edit

LEMMA FoldedAsks ==
  ASSUME NEW r \in Row, NEW op, NEW e
  PROVE  /\ Folded(r, op, e).text = e.text /\ Folded(r, op, e).op = r.op
         /\ op = "delete" =>
              Folded(r, op, e).state = "cancelled" /\ Folded(r, op, e).asked = r.asked
         /\ op # "delete" =>
              Folded(r, op, e).state = "pending" /\ Folded(r, op, e).asked = Append(r.asked, e.text)
<1> DEFINE more == IF op = "delete" THEN r.asked ELSE Append(r.asked, e.text)
<1>1. Folded(r, op, e) =
        [r EXCEPT !.text = e.text, !.gen = e.version, !.config = config,
                  !.state = IF op = "delete" THEN "cancelled" ELSE "pending", !.asked = more]
  BY DEF Folded, Row
<1>2. more = IF op = "delete" THEN r.asked ELSE Append(r.asked, e.text)
  OBVIOUS
<1> HIDE DEF more
<1> QED
  BY <1>1, <1>2 DEF Row

LEMMA QueuedAsks ==
  ASSUME NEW op, NEW e
  PROVE  /\ Queued(op, e).text = e.text /\ Queued(op, e).op = op /\ Queued(op, e).state = "pending"
         /\ Queued(op, e).asked = <<IF op = "delete" THEN NoText ELSE e.text>>
<1> DEFINE new == <<IF op = "delete" THEN NoText ELSE e.text>>
<1>1. Queued(op, e) =
        [NoRow EXCEPT !.state = "pending", !.op = op, !.text = e.text, !.gen = e.version,
                      !.config = config, !.asked = new]
  BY Zenon DEF Queued
<1>2. NoRow \in Row
  BY NoRowType
<1>3. new = <<IF op = "delete" THEN NoText ELSE e.text>>
  OBVIOUS
<1> HIDE DEF new
<1> QED
  BY <1>1, <1>2, <1>3 DEF Row
\* An edit asks for more of a create that no worker owns, or of a new delivery; or
\* it calls the create off.
AsksOf(d) ==
  /\ d \in 1 .. MaxRows /\ d \in 1 .. rows'
  /\ \A i \in 1 .. MaxRows : i # d => row'[i] = row[i]
  /\ \/ d \in 1 .. rows /\ rows' = rows /\ Foldable(d)
     \/ d = rows + 1 /\ rows' = rows + 1
  /\ row'[d].text \in Text

Asked1(d) ==
  /\ row'[d].state = "pending" /\ row'[d].asked = Append(row[d].asked, Mine')
  /\ Mine' \in Says /\ row[d].asked \in Seq(Says)
  /\ row'[d].op = "delete" => d = rows + 1 /\ Mine' = NoText
  /\ row'[d].op # "delete" => Mine' = row'[d].text

CalledOff(d) ==
  /\ row'[d].state = "cancelled" /\ row'[d].asked = row[d].asked /\ Mine' = NoText
  /\ d \in 1 .. rows /\ row'[d].op = "create"

LEMMA EditDoes ==
  ASSUME TypeOK, RowAsked, Edit
  PROVE  \E d \in 1 .. MaxRows : AsksOf(d) /\ (Asked1(d) \/ CalledOff(d))
<1> USE CalendarDeliveryAssumption
<1>1. PICK op \in RowOps :
        Enqueue(op, event') /\ Mine' = IF op = "delete" THEN NoText ELSE event'.text
  BY EditAsks
<1>2. event' \in Event /\ event'.text \in Text /\ Mine' \in Says
  BY <1>1, EditAsks DEF Says
<1>3. rows \in 0 .. MaxRows /\ \A i \in 1 .. MaxRows : row[i] \in Row /\ row[i].asked \in Seq(Says)
  BY DEF TypeOK, Row, Says
<1>4. ASSUME NEW d \in 1 .. rows, Foldable(d), rows' = rows, op # "create",
             row' = [row EXCEPT ![d] = Folded(row[d], op, event')]
      PROVE  d \in 1 .. MaxRows /\ AsksOf(d) /\ (Asked1(d) \/ CalledOff(d))
  <2>1. /\ d \in 1 .. MaxRows /\ row'[d] = Folded(row[d], op, event') /\ row[d].op = "create"
        /\ \A i \in 1 .. MaxRows : i # d => row'[i] = row[i]
    BY <1>3, <1>4 DEF TypeOK, Foldable
  <2>2. /\ row'[d].text = event'.text /\ row'[d].op = "create"
        /\ op = "delete" => row'[d].state = "cancelled" /\ row'[d].asked = row[d].asked
        /\ op # "delete" =>
             row'[d].state = "pending" /\ row'[d].asked = Append(row[d].asked, event'.text)
    BY <1>3, <2>1, FoldedAsks
  <2>3. AsksOf(d)
    BY <1>2, <1>4, <2>1, <2>2 DEF AsksOf
  <2>4. CASE op = "delete"
    BY <1>1, <2>1, <2>2, <2>3, <2>4 DEF CalledOff
  <2>5. CASE op # "delete"
    <3>1. Mine' = event'.text
      BY <1>1, <2>5
    <3> QED
      BY <1>2, <1>3, <2>1, <2>2, <2>3, <2>5, <3>1 DEF Asked1
  <2> QED
    BY <2>4, <2>5
<1>5. ASSUME rows < MaxRows, rows' = rows + 1, row' = [row EXCEPT ![rows + 1] = Queued(op, event')]
      PROVE  rows + 1 \in 1 .. MaxRows /\ AsksOf(rows + 1) /\ Asked1(rows + 1)
  <2> DEFINE d == rows + 1
  <2>1. /\ d \in 1 .. MaxRows /\ d > rows /\ row'[d] = Queued(op, event')
        /\ \A i \in 1 .. MaxRows : i # d => row'[i] = row[i]
    BY <1>3, <1>5 DEF TypeOK
  <2>2. /\ row'[d].text = event'.text /\ row'[d].op = op /\ row'[d].state = "pending"
        /\ row'[d].asked = <<IF op = "delete" THEN NoText ELSE event'.text>>
    BY <2>1, QueuedAsks
  <2>3. row'[d].asked = <<Mine'>> /\ row[d].asked = << >>
    BY <1>1, <2>1, <2>2 DEF RowAsked
  <2>4. row'[d].asked = Append(row[d].asked, Mine')
    BY <1>2, <2>3, AskedFirst
  <2>5. AsksOf(d)
    BY <1>2, <1>3, <1>5, <2>1, <2>2 DEF AsksOf
  <2>6. Asked1(d)
    BY <1>1, <1>2, <1>3, <2>1, <2>2, <2>4 DEF Asked1
  <2> QED
    BY <2>1, <2>5, <2>6
<1>6. CASE op # "create" /\ \E i \in 1 .. rows : Foldable(i)
  <2>1. PICK d \in 1 .. rows :
          Foldable(d) /\ rows' = rows /\ row' = [row EXCEPT ![d] = Folded(row[d], op, event')]
    BY <1>1, <1>6 DEF Enqueue
  <2> QED
    BY <1>4, <1>6, <2>1
<1>7. CASE ~(op # "create" /\ \E i \in 1 .. rows : Foldable(i))
  <2>1. rows < MaxRows /\ rows' = rows + 1 /\ row' = [row EXCEPT ![rows + 1] = Queued(op, event')]
    BY <1>1, <1>7 DEF Enqueue
  <2> QED
    BY <1>5, <2>1
<1> QED
  BY <1>6, <1>7

LEMMA RowAskedStep ==
  ASSUME TypeOK, Working, Held, InOrder, RowAsked, [Next]_vars PROVE RowAsked'
<1> USE CalendarDeliveryAssumption
<1>1. rows \in 0 .. MaxRows
  BY DEF TypeOK
<1>2. CASE ~Edit
  <2>1. RowsKeep /\ \A i \in 1 .. MaxRows : row'[i].asked = row[i].asked
    BY <1>2, RowsKept, AskedKept
  <2>2. \A i \in 1 .. rows : i \in 1 .. MaxRows
    BY <1>1
  <2> QED
    BY <2>1, <2>2 DEF RowAsked, RowsKeep
<1>3. CASE Edit
  <2>1. PICK d \in 1 .. MaxRows : AsksOf(d) /\ (Asked1(d) \/ CalledOff(d))
    BY <1>3, EditDoes
  <2>2. /\ rows' \in {rows, rows + 1} /\ d \in 1 .. rows' /\ d \in 1 .. MaxRows
        /\ \A i \in 1 .. MaxRows : i # d => row'[i] = row[i]
        /\ \A i \in 1 .. rows' : i # d => i \in 1 .. rows /\ i \in 1 .. MaxRows
        /\ row'[d].text \in Text
    BY <1>1, <2>1 DEF AsksOf
  <2>3. CASE Asked1(d)
    <3>1. /\ row'[d].asked # << >> /\ row'[d].asked[Len(row'[d].asked)] = Mine'
      BY <2>3, AskedMore DEF Asked1
    <3>2. row'[d].op = "delete" => row'[d].asked = <<NoText>>
      <4>1. ASSUME row'[d].op = "delete" PROVE row'[d].asked = <<NoText>>
        <5>1. row[d].asked = << >> /\ Mine' = NoText /\ Mine' \in Says
          BY <1>1, <2>1, <2>3, <4>1 DEF Asked1, RowAsked
        <5> QED
          BY <2>3, <5>1, AskedFirst DEF Asked1
      <4> QED
        BY <4>1
    <3>3. row'[d].op # "delete" => row'[d].text = row'[d].asked[Len(row'[d].asked)]
      BY <2>3, <3>1 DEF Asked1
    <3>4. ASSUME NEW i \in 1 .. rows', i # d
          PROVE  /\ row'[i].asked # << >>
                 /\ row'[i].op = "delete" => row'[i].asked = <<NoText>>
                 /\ Open(i)' => row'[i].text \in Text
                 /\ Open(i)' /\ row'[i].op # "delete"
                      => row'[i].text = row'[i].asked[Len(row'[i].asked)]
      BY <2>2, <3>4 DEF RowAsked, Open
    <3>5. \A i \in 1 .. MaxRows : i > rows' => row'[i].asked = << >>
      BY <1>1, <2>2 DEF RowAsked
    <3> QED
      BY <2>2, <3>1, <3>2, <3>3, <3>4, <3>5 DEF RowAsked
  <2>4. CASE CalledOff(d)
    <3>1. /\ row'[d].asked # << >> /\ row'[d].op # "delete" /\ ~Open(d)'
      BY <2>4 DEF CalledOff, RowAsked, Open
    <3>2. \A i \in 1 .. MaxRows : i > rows' => row'[i].asked = << >>
      BY <1>1, <2>2 DEF RowAsked
    <3> QED
      BY <2>2, <3>1, <3>2 DEF RowAsked, Open
  <2> QED
    BY <2>1, <2>3, <2>4
<1> QED
  BY <1>2, <1>3
\* What was asked of a delivery stays asked.
LEMMA AskedGrows ==
  ASSUME TypeOK, Working, Held, RowAsked, [Next]_vars
  PROVE  \A i \in 1 .. rows : \A k \in 1 .. Len(row[i].asked) :
           k \in 1 .. Len(row'[i].asked) /\ row'[i].asked[k] = row[i].asked[k]
<1> USE CalendarDeliveryAssumption
<1>1. \A i \in 1 .. rows : i \in 1 .. MaxRows
  BY DEF TypeOK
<1>2. CASE ~Edit
  BY <1>1, <1>2, AskedKept
<1>3. CASE Edit
  <2>1. PICK d \in 1 .. MaxRows : AsksOf(d) /\ (Asked1(d) \/ CalledOff(d))
    BY <1>3, EditDoes
  <2>2. \A i \in 1 .. MaxRows : i # d => row'[i] = row[i]
    BY <2>1 DEF AsksOf
  <2>3. CASE CalledOff(d)
    BY <1>1, <2>2, <2>3 DEF CalledOff
  <2>4. CASE Asked1(d)
    <3>1. /\ row'[d].asked = Append(row[d].asked, Mine') /\ Mine' \in Says
          /\ row[d].asked \in Seq(Says)
      BY <2>4 DEF Asked1
    <3>2. \A k \in 1 .. Len(row[d].asked) :
            k \in 1 .. Len(row'[d].asked) /\ row'[d].asked[k] = row[d].asked[k]
      BY <3>1, AskedMore
    <3> QED
      BY <1>1, <2>2, <3>2
  <2> QED
    BY <2>1, <2>3, <2>4
<1> QED
  BY <1>2, <1>3

\* Who sends has loaded or goes on as it was.
LEMMA SendingStays ==
  ASSUME TypeOK, Working, [Next]_vars, NEW w \in Worker, worker'[w].phase = "sending"
  PROVE  worker'[w] = worker[w] \/ Load(w)
<1>1. ASSUME NEW v \in Worker, NEW q, worker' = [worker EXCEPT ![v] = q], q.phase # "sending"
      PROVE  worker'[w] = worker[w]
  BY <1>1 DEF TypeOK
<1>2. ASSUME NEW v \in Worker, Claim(v) PROVE worker'[w] = worker[w]
  <2>1. PICK i \in 1 .. rows : i \in 1 .. MaxRows /\ worker' = [worker EXCEPT ![v] = Taken(i, claims + 1)]
    BY <1>2, ClaimEffect
  <2>2. Taken(i, claims + 1).phase = "loading"
    BY TakenWorker DEF TypeOK
  <2> QED
    BY <1>1, <2>1, <2>2
<1>3. ASSUME NEW v \in Worker, Load(v) PROVE worker'[w] = worker[w] \/ Load(w)
  <2>1. PICK q : worker' = [worker EXCEPT ![v] = q]
    BY <1>3, LoadEffect
  <2> QED
    BY <1>3, <2>1 DEF TypeOK
<1>9. ASSUME NEW v \in Worker, Recheck(v) PROVE worker'[w] = worker[w]
  <2>1. PICK q : worker' = [worker EXCEPT ![v] = q] /\ q \in {Idle, Checked(worker[v])}
    BY <1>9, RecheckEffect
  <2>2. Idle.phase = "idle" /\ Checked(worker[v]).phase = "writing"
    BY CheckedWorker DEF Idle, TypeOK
  <2> QED
    BY <1>1, <2>1, <2>2
<1>4. ASSUME NEW v \in Worker, Send(v) \/ Lose(v) PROVE worker'[w] = worker[w]
  BY <1>1, <1>4, SendEffect
<1>5. ASSUME NEW v \in Worker, Record(v) \/ Crash(v) PROVE worker'[w] = worker[w]
  <2>1. worker' = [worker EXCEPT ![v] = Idle] /\ Idle.phase = "idle"
    BY <1>5 DEF Record, Crash, Idle
  <2> QED
    BY <1>1, <2>1
<1>6. ASSUME NEW i \in 1 .. rows, Lapse(i) PROVE worker' = worker
  BY <1>6 DEF Lapse
<1>7. ASSUME Edit \/ Sync PROVE worker' = worker
  BY <1>7, EditEffect, SyncEffect
<1>8. ASSUME Foreign \/ Reconfigure \/ UNCHANGED vars PROVE worker' = worker
  BY <1>8 DEF Foreign, Reconfigure, vars
<1> QED
  BY <1>2, <1>3, <1>4, <1>5, <1>6, <1>7, <1>8, <1>9 DEF Next, Work

LEMMA SentAskedStep ==
  ASSUME TypeOK, Working, Held, RowsThere, RowAsked, SentAsked, [Next]_vars PROVE SentAsked'
<1> USE CalendarDeliveryAssumption
<1> SUFFICES ASSUME NEW w \in Worker, worker'[w].phase = "sending"
             PROVE  /\ worker'[w].text \in Text
                    /\ IF worker'[w].op \in {"create", "update"}
                       THEN \E k \in 1 .. Len(row'[worker'[w].row].asked) :
                              worker'[w].text = row'[worker'[w].row].asked[k]
                       ELSE row'[worker'[w].row].op = "delete"
  BY DEF SentAsked
<1>1. CASE worker'[w] = worker[w]
  <2> DEFINE i == worker[w].row
  <2>1. worker[w].phase = "sending" /\ i \in 1 .. rows
    BY <1>1 DEF Working
  <2>2. row'[i].op = row[i].op
    BY <2>1, RowStep DEF RowsGrow
  <2>3. \A k \in 1 .. Len(row[i].asked) :
          k \in 1 .. Len(row'[i].asked) /\ row'[i].asked[k] = row[i].asked[k]
    BY <2>1, AskedGrows
  <2> HIDE DEF i
  <2>4. /\ worker[w].text \in Text
        /\ IF worker[w].op \in {"create", "update"}
           THEN \E k \in 1 .. Len(row[i].asked) : worker[w].text = row[i].asked[k]
           ELSE row[i].op = "delete"
    BY <2>1 DEF SentAsked, i
  <2>5. i = worker'[w].row
    BY <1>1 DEF i
  <2> QED
    BY <1>1, <2>2, <2>3, <2>4, <2>5
<1>2. CASE Load(w)
  <2> DEFINE i == worker[w].row
  <2>1. Carries(worker'[w]) /\ row' = row
    BY <1>2 DEF Carries, Load
  <2>2. /\ Claimed(worker[w]) /\ worker'[w].row = i /\ worker'[w].text = row[i].text
        /\ worker'[w].op \in {"create", "update"} => row[i].op # "delete"
    BY <1>2, <2>1, LoadText
  <2>3. i \in 1 .. rows /\ Open(i) /\ row[i].asked \in Seq(Says)
    BY <1>2, <2>2, WorkingRow DEF Claimed, Open, Load, Row, Says
  <2>4. row[i].op # "delete" => worker'[w].op \in {"create", "update"}
    <3>1. /\ worker[w] \in Doing /\ row[i] \in Row /\ "conflict" \in Results
      BY <1>2, LoadEffect, WorkingRow DEF Results
    <3>2. Idle.phase = "idle" /\ Failed(worker[w], "conflict").phase = "recording"
      BY <3>1, FailedWorker DEF Idle
    <3>3. worker'[w] \in {Idle, Failed(worker[w], "conflict"), Loaded(worker[w])}
      BY <1>2, LoadEffect DEF TypeOK
    <3>4. worker'[w].op = Request(row[i].op)
      BY <3>1, <3>2, <3>3, LoadedWorker
    <3> QED
      BY <3>4 DEF Request
  <2> HIDE DEF i
  <2>5. row[i].text \in Text /\ row[i].asked # << >>
    BY <2>3 DEF RowAsked
  <2>6. row[i].op # "delete" => row[i].text = row[i].asked[Len(row[i].asked)]
    BY <2>3 DEF RowAsked
  <2>7. Len(row[i].asked) \in 1 .. Len(row[i].asked)
    BY <2>3, <2>5
  <2> QED
    BY <2>1, <2>2, <2>4, <2>5, <2>6, <2>7
<1> QED
  BY <1>1, <1>2, SendingStays

\* A copy that is there says something.
LEMMA CopySaysStep ==
  ASSUME TypeOK, Working, SentAsked, CopySays, [Next]_vars PROVE CopySays'
<1>0. etags \in Nat /\ pull \in Pull /\ remote \in Copy
  BY DEF TypeOK
<1>1. ASSUME UNCHANGED <<remote, pull>> PROVE CopySays'
  BY <1>1 DEF CopySays
<1>2. ASSUME NEW w \in Worker, Send(w) \/ Lose(w) PROVE CopySays'
  <2>1. /\ UNCHANGED pull /\ worker[w].phase = "sending"
        /\ remote' = remote \/ remote' = Served(worker[w])
    BY <1>2 DEF Send, Lose
  <2>2. CASE remote' = remote
    BY <1>1, <2>1, <2>2
  <2>3. CASE remote' = Served(worker[w]) /\ remote' # remote
    <3>1. \/ remote' = Gone(worker[w].row)
          \/ remote' = [etag |-> etags + 1, text |-> worker[w].text, by |-> worker[w].row]
      BY <2>3 DEF Served
    <3>2. worker[w].text \in Text
      BY <2>1 DEF SentAsked
    <3>3. remote'.etag = 0 <=> remote'.text = NoText
      BY <1>0, <3>1, <3>2, CalendarDeliveryAssumption DEF Gone
    <3> QED
      BY <2>1, <3>3 DEF CopySays
  <2> QED
    BY <2>1, <2>2, <2>3
<1>3. CASE Foreign
  <2>1. (remote'.etag = 0 <=> remote'.text = NoText) /\ pull' = pull
    BY <1>0, <1>3, CalendarDeliveryAssumption DEF Foreign, Gone
  <2> QED
    BY <2>1 DEF CopySays
<1>4. CASE Sync
  <2>1. remote' = remote
    BY <1>4, SyncEffect
  <2>2. PullGoes \/ pull' = NoPull
    BY <1>4, SyncCases
  <2>3. Gone(0).text = NoText
    BY DEF Gone
  <2> QED
    BY <2>1, <2>2, <2>3, NoPullType DEF PullGoes, CopySays
<1>5. ASSUME NEW w \in Worker, Claim(w) \/ Load(w) \/ Recheck(w) \/ Record(w) \/ Crash(w)
      PROVE  UNCHANGED <<remote, pull>>
  BY <1>5 DEF Claim, Load, Recheck, Record, Crash
<1>6. ASSUME NEW i \in 1 .. rows, Lapse(i) PROVE UNCHANGED <<remote, pull>>
  BY <1>6 DEF Lapse
<1>7. ASSUME Edit \/ Reconfigure \/ UNCHANGED vars PROVE UNCHANGED <<remote, pull>>
  BY <1>7, EditEffect DEF Reconfigure, vars
<1> QED
  BY <1>1, <1>2, <1>3, <1>4, <1>5, <1>6, <1>7 DEF Next, Work
-----------------------------------------------------------------------------
(* What the nine variables of TwoCopies see of a step                      *)

avars == <<Mine, Theirs, Author, Known, Asked, Opened, InEffect, Looked, Late>>

RInv == IInv /\ Gens /\ Texts /\ CopySays /\ RowAsked /\ SentAsked

LEMMA RInvParts ==
  ASSUME RInv
  PROVE  /\ TypeOK /\ Working /\ Held /\ RowsThere /\ InOrder /\ Tokens /\ Bounds /\ Writer
         /\ Creates /\ HolderSees /\ NewsKept /\ SeenKept
         /\ Gens /\ RowSays /\ HolderSays /\ AnswerStands /\ ListingStands /\ OldStands
         /\ CopySays /\ RowAsked /\ SentAsked
  BY DEF RInv, IInv, Seen, Texts

LEMMA SameAsked ==
  ASSUME \A i \in 1 .. MaxRows : row'[i].asked = row[i].asked PROVE Asked' = Asked
  BY DEF Asked

LEMMA SameOpened ==
  ASSUME rows' = rows, \A i \in 1 .. rows : Open(i)' <=> Open(i) PROVE Opened' = Opened
  BY DEF Opened

LEMMA SameMine ==
  ASSUME event'.status = event.status, event'.text = event.text PROVE Mine' = Mine
  BY DEF Mine

LEMMA SameKnown ==
  ASSUME event'.etag = event.etag, event'.href = event.href, remote' = remote
  PROVE  Known' = Known /\ Theirs' = Theirs /\ Author' = Author
  BY DEF Known, Theirs, Author

LEMMA SameLooked ==
  ASSUME pull' = pull PROVE Looked' = Looked
  BY DEF Looked

LEMMA SameLate ==
  ASSUME pull' = pull, event'.etag = event.etag PROVE Late' = Late
  BY DEF Late

\* At most one worker's step tells that a delivery is in effect.
LEMMA OneSees ==
  ASSUME NEW w \in Worker, ~SeenBy(w),
         \A v \in Worker : v # w => (SeenBy(v)' <=> SeenBy(v)) /\ worker'[v].row = worker[v].row
  PROVE  /\ SeenBy(w)' => InEffect' = InEffect \cup {worker'[w].row}
         /\ ~SeenBy(w)' => InEffect' = InEffect
  BY DEF InEffect

LEMMA NoneSees ==
  ASSUME \A v \in Worker : SeenBy(v)' => SeenBy(v) /\ worker'[v].row = worker[v].row
  PROVE  InEffect' \subseteq InEffect
  BY DEF InEffect

\* A step that only makes workers give up claims or answers.
LEMMA ForgetMaps ==
  ASSUME event' = event, remote' = remote, pull' = pull, rows' = rows,
         \A i \in 1 .. MaxRows : row'[i].asked = row[i].asked,
         \A i \in 1 .. rows : Open(i)' <=> Open(i),
         \A v \in Worker : SeenBy(v)' => SeenBy(v) /\ worker'[v].row = worker[v].row
  PROVE  [Abstract!Next]_avars
<1>1. Mine' = Mine /\ Known' = Known /\ Theirs' = Theirs /\ Author' = Author
  BY SameMine, SameKnown
<1>2. Asked' = Asked /\ Opened' = Opened /\ Looked' = Looked /\ Late' = Late
  BY SameAsked, SameOpened, SameLooked, SameLate
<1>3. InEffect' \subseteq InEffect
  BY NoneSees
<1>4. Abstract!Forget
  BY <1>1, <1>2, <1>3 DEF Abstract!Forget
<1> QED
  BY <1>4 DEF Abstract!Next

-----------------------------------------------------------------------------
(* Requests                                                                *)

LEMMA AnsweredDone ==
  ASSUME TypeOK, NEW s \in Doing, NEW q \in Answered(s), q.result = "done", ~Accepts(s)
  PROVE  \/ s.op = "none"
         \/ s.op = "delete" /\ remote.etag = 0
         \/ s.op \in {"create", "update"} /\ remote.text = s.text
<1>1. q # Failed(s, "conflict")
  BY FailedWorker DEF Results
<1> QED
  BY <1>1, AnsweredCases

\* What the holder of a claim sends is what was asked last.
LEMMA HolderWants ==
  ASSUME RInv, NEW w \in Worker, worker[w].phase = "sending", Claimed(worker[w])
  PROVE  LET i == worker[w].row IN
         /\ i \in 1 .. rows /\ Open(i)
         /\ worker[w].op \in {"create", "update"} => Abstract!Wanted(i) = worker[w].text
         /\ worker[w].op \notin {"create", "update"} => Abstract!Wanted(i) = NoText
<1> DEFINE i == worker[w].row
           l == row[i].asked
<1>1. i \in 1 .. rows /\ i \in 1 .. MaxRows /\ Open(i)
  BY WorkingRow, RInvParts DEF Claimed, Open
<1>2. /\ worker[w].text = row[i].text
      /\ worker[w].op \in {"create", "update"} => row[i].op # "delete"
  BY RInvParts DEF HolderSays, Carries
<1>3. worker[w].op \notin {"create", "update"} => l = <<NoText>>
  BY <1>1, RInvParts DEF SentAsked, RowAsked
<1>4. row[i].op # "delete" => row[i].text = l[Len(l)]
  BY <1>1, RInvParts DEF RowAsked
<1>5. Abstract!Wanted(i) = l[Len(l)]
  BY <1>1 DEF Abstract!Wanted, Asked
<1>6. <<NoText>>[Len(<<NoText>>)] = NoText
  OBVIOUS
<1> HIDE DEF i, l
<1>7. /\ worker[w].op \in {"create", "update"} => Abstract!Wanted(i) = worker[w].text
      /\ worker[w].op \notin {"create", "update"} => Abstract!Wanted(i) = NoText
  BY <1>2, <1>3, <1>4, <1>5, <1>6
<1> QED
  BY <1>1, <1>7 DEF i

\* A request the server accepts replaces a copy the event row knows.
LEMMA AcceptedOver ==
  ASSUME RInv, NEW w \in Worker, worker[w].phase = "sending", Accepts(worker[w]), Theirs # NoText
  PROVE  Known /\ Author < worker[w].row
<1>1. remote.etag # 0
  BY RInvParts DEF CopySays, Theirs
<1>2. worker[w].op \in {"none", "create", "update", "delete"}
  BY RInvParts DEF TypeOK, Doing
<1>3. worker[w].op \in {"update", "delete"} /\ worker[w].etag = remote.etag
  BY <1>1, <1>2 DEF Accepts, Precondition
<1> QED
  BY <1>1, <1>3, RInvParts DEF SeenKept, Author

\* What it leaves there was asked for.
LEMMA AcceptedSays ==
  ASSUME RInv, NEW w \in Worker, worker[w].phase = "sending", Accepts(worker[w])
  PROVE  LET i == worker[w].row IN
         /\ i \in 1 .. MaxRows
         /\ \E k \in 1 .. Len(Asked[i]) : Served(worker[w]).text = Asked[i][k]
         /\ Served(worker[w]).by = i /\ Served(worker[w]).etag \in {0, etags + 1}
         /\ Claimed(worker[w]) => Served(worker[w]).text = Abstract!Wanted(i)
<1> DEFINE s == worker[w]
           i == s.row
           l == row[i].asked
<1>1. i \in 1 .. rows /\ i \in 1 .. MaxRows /\ s \in Doing /\ TypeOK
  BY WorkingRow, RInvParts DEF TypeOK
<1>2. Asked[i] = l
  BY <1>1 DEF Asked
<1>3. Served(s).by = i /\ Served(s).etag \in {0, etags + 1}
  BY <1>1, ServedCopy
<1>4. CASE s.op = "delete"
  <2>1. Served(s).text = NoText /\ l = <<NoText>>
    BY <1>1, <1>4, RInvParts DEF Served, Gone, SentAsked, RowAsked
  <2>2. 1 \in 1 .. Len(<<NoText>>) /\ <<NoText>>[1] = NoText
    OBVIOUS
  <2>3. Claimed(s) => Abstract!Wanted(i) = NoText
    BY <1>4, HolderWants
  <2> QED
    BY <1>1, <1>2, <1>3, <2>1, <2>2, <2>3
<1>5. CASE s.op \in {"create", "update"}
  <2>1. Served(s).text = s.text
    BY <1>5 DEF Served
  <2>2. \E k \in 1 .. Len(l) : s.text = l[k]
    BY <1>1, <1>5, RInvParts DEF SentAsked
  <2>3. Claimed(s) => Abstract!Wanted(i) = s.text
    BY <1>5, HolderWants
  <2> QED
    BY <1>1, <1>2, <1>3, <2>1, <2>2, <2>3
<1>6. s.op \in {"create", "update", "delete"}
  BY <1>1 DEF Accepts, Doing
<1> QED
  BY <1>4, <1>5, <1>6

LEMMA SendMaps ==
  ASSUME RInv, NEW w \in Worker, Send(w) \/ Lose(w) PROVE [Abstract!Next]_avars
<1> DEFINE s == worker[w]
           i == s.row
<1>1. PICK q \in Doing :
        /\ worker'[w] = q /\ q.row = i /\ q.token = s.token
        /\ (Send(w) /\ q \in Answered(s)) \/ q.result = "retry"
        /\ \A v \in Worker : v # w => worker'[v] = worker[v]
  BY SendEffect, RInvParts DEF TypeOK
<1>2. /\ s.phase = "sending" /\ s \in Doing /\ UNCHANGED <<event, row, rows, pull>>
      /\ i \in 1 .. rows /\ i \in 1 .. MaxRows
  BY SendEffect, WorkingRow, RInvParts DEF TypeOK
<1>3. /\ Mine' = Mine /\ Asked' = Asked /\ Opened' = Opened /\ Looked' = Looked /\ Late' = Late
  BY <1>2, SameMine, SameAsked, SameLooked, SameLate DEF Opened, Open
<1>4. /\ ~SeenBy(w)
      /\ SeenBy(w)' => Send(w) /\ q \in Answered(s) /\ q.result = "done" /\ Claimed(s)
      /\ \A v \in Worker : v # w => (SeenBy(v)' <=> SeenBy(v)) /\ worker'[v].row = worker[v].row
  BY <1>1, <1>2 DEF SeenBy, Claimed
<1>5. /\ SeenBy(w)' => InEffect' = InEffect \cup {i}
      /\ ~SeenBy(w)' => InEffect' = InEffect
  BY <1>1, <1>4, OneSees
<1>6. CASE remote' = Served(s) /\ Accepts(s)
  <2>1. Theirs # NoText => Known /\ Author < i
    BY <1>2, <1>6, AcceptedOver
  <2>2. /\ \E k \in 1 .. Len(Asked[i]) : Theirs' = Asked[i][k]
        /\ Author' = i /\ remote'.etag \in {0, etags + 1}
        /\ Claimed(s) => Theirs' = Abstract!Wanted(i)
    BY <1>2, <1>6, AcceptedSays DEF Theirs, Author
  <2>3. Known' = FALSE
    <3>1. remote'.etag # 0 => event.etag # remote'.etag
      BY <2>2, NewEtag, RInvParts
    <3> QED
      BY <1>2, <3>1 DEF Known
  <2>4. InEffect' = InEffect \/ (InEffect' = InEffect \cup {i} /\ Theirs' = Abstract!Wanted(i))
    BY <1>4, <1>5, <2>2
  <2> HIDE DEF i
  <2>5. Abstract!Write(i)
    BY <1>3, <2>1, <2>2, <2>3, <2>4 DEF Abstract!Write
  <2> QED
    BY <1>2, <2>5 DEF Abstract!Next
<1>7. CASE remote' = remote /\ ~SeenBy(w)'
  BY <1>2, <1>3, <1>5, <1>7, SameKnown DEF avars
<1>8. CASE remote' = remote /\ SeenBy(w)' /\ ~Accepts(s)
  <2>1. Claimed(s) /\ q \in Answered(s) /\ q.result = "done" /\ InEffect' = InEffect \cup {i}
    BY <1>4, <1>5, <1>8
  <2>2. /\ Open(i)
        /\ s.op \in {"create", "update"} => Abstract!Wanted(i) = s.text
        /\ s.op \notin {"create", "update"} => Abstract!Wanted(i) = NoText
    BY <1>2, <2>1, HolderWants
  <2>3. s.op \in {"create", "update"} /\ remote.text = s.text => Theirs = Abstract!Wanted(i)
    BY <2>2 DEF Theirs
  <2>4. s.op = "delete" /\ remote.etag = 0 => Theirs = Abstract!Wanted(i)
    BY <2>2, RInvParts DEF Theirs, CopySays
  <2>5. s.op = "none" => Abstract!Wanted(i) = NoText /\ ~Known
    <3>1. s.op = "none" => ~event.href
      BY <1>2, <2>1, RInvParts DEF HolderSees, Follows
    <3> QED
      BY <2>2, <3>1 DEF Known
  <2>6. Theirs = Abstract!Wanted(i) \/ (Abstract!Wanted(i) = NoText /\ ~Known)
    BY <1>2, <1>8, <2>1, <2>3, <2>4, <2>5, AnsweredDone, RInvParts
  <2>7. i \in Opened
    BY <1>2, <2>2 DEF Opened
  <2>8. Known' = Known /\ Theirs' = Theirs /\ Author' = Author
    BY <1>2, <1>8, SameKnown
  <2> HIDE DEF i
  <2>9. Abstract!See(i)
    BY <1>3, <2>1, <2>6, <2>7, <2>8 DEF Abstract!See
  <2> QED
    BY <1>2, <2>9 DEF Abstract!Next
<1>9. \/ remote' = Served(s) /\ Accepts(s)
      \/ remote' = remote /\ ~SeenBy(w)'
      \/ remote' = remote /\ SeenBy(w)' /\ ~Accepts(s)
  <2>1. remote' = Served(s) \/ (remote' = remote /\ Lose(w))
    BY DEF Send, Lose
  <2>2. ~Accepts(s) => Served(s) = remote
    BY DEF Served
  <2>3. SeenBy(w)' => Send(w) /\ ~Lose(w)
    <3>1. Lose(w) => worker'[w] = Failed(s, "retry")
      BY RInvParts DEF Lose, TypeOK
    <3>2. Failed(s, "retry").result = "retry"
      BY <1>2, FailedWorker DEF Results
    <3> QED
      BY <1>4, <3>1, <3>2 DEF SeenBy
  <2> QED
    BY <2>1, <2>2, <2>3
<1> QED
  BY <1>6, <1>7, <1>8, <1>9
-----------------------------------------------------------------------------
(* Edits                                                                   *)

LEMMA SameEffect ==
  ASSUME \A v \in Worker : (SeenBy(v)' <=> SeenBy(v)) /\ worker'[v].row = worker[v].row
  PROVE  InEffect' = InEffect
  BY DEF InEffect

LEMMA EditMaps == ASSUME RInv, Edit PROVE [Abstract!Next]_avars
<1>1. PICK d \in 1 .. MaxRows : AsksOf(d) /\ (Asked1(d) \/ CalledOff(d))
  BY EditDoes, RInvParts
<1>2. UNCHANGED <<remote, worker, pull>> /\ event'.etag = event.etag /\ event'.href = event.href
  BY EditEffect, RInvParts
<1>3. /\ Known' = Known /\ Theirs' = Theirs /\ Author' = Author
      /\ Looked' = Looked /\ Late' = Late
  BY <1>2, SameKnown, SameLooked, SameLate
<1>4. /\ \A i \in 1 .. MaxRows : i # d => row'[i] = row[i]
      /\ (d \in 1 .. rows /\ rows' = rows /\ Foldable(d)) \/ (d = rows + 1 /\ rows' = rows + 1)
      /\ row'[d].state \in {"pending", "cancelled"}
  BY <1>1 DEF AsksOf, Asked1, CalledOff
<1>5. InEffect' = InEffect
  <2>1. ASSUME NEW v \in Worker, worker[v].phase # "idle"
        PROVE  Claimed(worker[v])' <=> Claimed(worker[v])
    <3>1. worker[v].row \in 1 .. rows /\ worker[v].row \in 1 .. MaxRows /\ rows \in Nat
      BY <2>1, WorkingRow, RInvParts, CalendarDeliveryAssumption DEF TypeOK
    <3>2. CASE worker[v].row # d
      BY <1>2, <1>4, <3>1, <3>2 DEF Claimed
    <3>3. CASE worker[v].row = d
      <4>1. Foldable(d)
        BY <1>4, <3>1, <3>3
      <4> QED
        BY <1>2, <1>4, <3>3, <4>1 DEF Claimed, Foldable
    <3> QED
      BY <3>2, <3>3
  <2>2. \A v \in Worker : SeenBy(v)' <=> SeenBy(v)
    BY <1>2, <2>1 DEF SeenBy
  <2> QED
    BY <1>2, <2>2, SameEffect
<1>6. rows \in 0 .. MaxRows /\ MaxRows \in Nat
  BY RInvParts, CalendarDeliveryAssumption DEF TypeOK
<1>7. CASE Asked1(d)
  <2>1. d \in Opened \/ Asked[d] = << >>
    <3>1. CASE Foldable(d) /\ d \in 1 .. rows
      BY <3>1 DEF Opened, Foldable, Open
    <3>2. CASE d = rows + 1
      BY <1>6, <3>2, RInvParts DEF RowAsked, Asked
    <3> QED
      BY <1>4, <3>1, <3>2
  <2>2. Asked' = [Asked EXCEPT ![d] = Append(Asked[d], Mine')]
    BY <1>4, <1>7 DEF Asked, Asked1
  <2>3. Opened' = Opened \cup {d}
    <3>1. Open(d)' /\ d \in 1 .. rows'
      BY <1>1, <1>7 DEF AsksOf, Asked1, Open
    <3>2. \A i \in 1 .. rows' : i # d => i \in 1 .. rows /\ (Open(i)' <=> Open(i))
      BY <1>4, <1>6 DEF Open
    <3>3. \A i \in 1 .. rows : i \in 1 .. rows'
      BY <1>4, <1>6
    <3>4. ASSUME NEW i PROVE i \in Opened' <=> i \in Opened \cup {d}
      BY <3>1, <3>2, <3>3 DEF Opened
    <3> QED
      BY <3>4
  <2>4. Mine' \in Abstract!Says
    BY <1>7 DEF Asked1, Says, Abstract!Says
  <2>5. Abstract!Ask(d, Mine')
    BY <1>3, <1>5, <2>1, <2>2, <2>3 DEF Abstract!Ask
  <2> QED
    BY <2>4, <2>5 DEF Abstract!Next
<1>8. CASE CalledOff(d)
  <2>1. /\ rows' = rows /\ Foldable(d) /\ d \in 1 .. rows /\ Mine' = NoText
        /\ row'[d].asked = row[d].asked /\ row'[d].state = "cancelled"
    BY <1>4, <1>6, <1>8 DEF CalledOff
  <2>2. Asked' = Asked
    BY <1>4, <2>1, SameAsked
  <2>3. ~Known
    BY <2>1, RInvParts DEF Creates, Foldable, Open, Known
  <2>4. d \in Opened
    BY <2>1 DEF Opened, Foldable, Open
  <2>5. Opened' = Opened \ {d}
    <3>1. ASSUME NEW i \in 1 .. rows, i # d PROVE Open(i)' <=> Open(i)
      BY <1>4, <1>6, <3>1 DEF Open
    <3>2. ~Open(d)'
      BY <2>1 DEF Open
    <3>3. ASSUME NEW i PROVE i \in Opened' <=> i \in Opened \ {d}
      BY <2>1, <3>1, <3>2 DEF Opened
    <3> QED
      BY <3>3
  <2>6. Abstract!CallOff(d)
    BY <1>3, <1>5, <2>1, <2>2, <2>3, <2>4, <2>5 DEF Abstract!CallOff
  <2> QED
    BY <2>6 DEF Abstract!Next
<1> QED
  BY <1>1, <1>7, <1>8

-----------------------------------------------------------------------------
(* Claims                                                                  *)

\* No step but a claim gives a worker its claim back.
LEMMA ClaimedKept ==
  ASSUME RInv, [Next]_vars, ~Edit, NEW v \in Worker, worker[v].phase # "idle",
         worker'[v].row = worker[v].row, worker'[v].token = worker[v].token,
         Claimed(worker[v])'
  PROVE  Claimed(worker[v])
<1>1. RowsKeep /\ worker[v].row \in 1 .. rows
  BY RowsKept, WorkingRow, RInvParts
<1>2. worker[v].token <= claims /\ worker[v].token \in Nat /\ claims \in Nat
  BY RInvParts DEF Tokens, TypeOK, Doing
<1> QED
  BY <1>1, <1>2 DEF RowsKeep, Claimed

\* A step of a worker, after which it has no delivery in effect and nothing else
\* has changed but the state of its claim.
LEMMA QuietMaps ==
  ASSUME RInv, [Next]_vars, ~Edit, NEW w \in Worker,
         event' = event, remote' = remote, pull' = pull,
         \A i \in 1 .. rows : Open(i)' <=> Open(i),
         ~SeenBy(w)', \A v \in Worker : v # w => worker'[v] = worker[v]
  PROVE  [Abstract!Next]_avars
<1>1. rows' = rows /\ \A i \in 1 .. MaxRows : row'[i].asked = row[i].asked
  BY RowsKept, AskedKept, RInvParts DEF RowsKeep
<1>2. ASSUME NEW v \in Worker, SeenBy(v)'
      PROVE  SeenBy(v) /\ worker'[v].row = worker[v].row
  <2>1. worker'[v] = worker[v]
    BY <1>2
  <2>2. worker[v].phase # "idle" /\ Claimed(worker[v])'
    BY <1>2, <2>1 DEF SeenBy, Claimed
  <2> QED
    BY <1>2, <2>1, <2>2, ClaimedKept DEF SeenBy
<1> QED
  BY <1>1, <1>2, ForgetMaps

LEMMA StillOpen ==
  ASSUME TypeOK, NEW i \in 1 .. MaxRows, NEW r, row' = [row EXCEPT ![i] = r],
         Open(i), r.state \notin {"none", "completed", "cancelled"}
  PROVE  \A j \in 1 .. rows : Open(j)' <=> Open(j)
  BY CalendarDeliveryAssumption DEF TypeOK, Open

LEMMA ClaimMaps == ASSUME RInv, [Next]_vars, ~Edit, NEW w \in Worker, Claim(w)
                   PROVE  [Abstract!Next]_avars
<1>1. PICK i \in 1 .. rows :
        /\ i \in 1 .. MaxRows /\ First(i)
        /\ row' = [row EXCEPT ![i] = Begun(row[i], claims + 1)]
        /\ worker' = [worker EXCEPT ![w] = Taken(i, claims + 1)]
  BY ClaimEffect, RInvParts
<1>2. row[i] \in Row /\ claims + 1 \in Nat /\ i \in Nat
  BY <1>1, RInvParts DEF TypeOK
<1>3. worker'[w].phase = "loading" /\ \A v \in Worker : v # w => worker'[v] = worker[v]
  <2>1. worker'[w] = Taken(i, claims + 1) /\ \A v \in Worker : v # w => worker'[v] = worker[v]
    BY <1>1, RInvParts DEF TypeOK
  <2> QED
    BY <1>2, <2>1, TakenWorker
<1>4. \A j \in 1 .. rows : Open(j)' <=> Open(j)
  <2>1. Begun(row[i], claims + 1).state = "processing" /\ Open(i)
    BY <1>1, <1>2, BegunRow DEF First
  <2> HIDE DEF Begun
  <2> QED
    BY <1>1, <2>1, StillOpen, RInvParts
<1>5. ~SeenBy(w)'
  BY <1>3 DEF SeenBy
<1>6. event' = event /\ remote' = remote /\ pull' = pull
  BY DEF Claim
<1> QED
  BY <1>3, <1>4, <1>5, <1>6, QuietMaps

LEMMA LoadMaps == ASSUME RInv, [Next]_vars, ~Edit, NEW w \in Worker, Load(w) \/ Crash(w)
                  PROVE  [Abstract!Next]_avars
<1>1. UNCHANGED <<event, row, rows, remote, pull>>
  BY DEF Load, Crash
<1>2. PICK q \in Doing : /\ worker' = [worker EXCEPT ![w] = q]
                         /\ q.phase \in {"idle", "sending"} \/ q.result = "conflict"
  <2>1. Idle \in Doing /\ Idle.phase = "idle"
    BY IdleType DEF Idle
  <2>2. CASE Load(w)
    <3>1. /\ worker[w] \in Doing /\ row[worker[w].row] \in Row /\ "conflict" \in Results
      BY <2>2, LoadEffect, WorkingRow, RInvParts DEF Results
    <3>2. /\ Failed(worker[w], "conflict") \in Doing /\ Failed(worker[w], "conflict").result = "conflict"
          /\ Loaded(worker[w]) \in Doing /\ Loaded(worker[w]).phase = "sending"
      BY <3>1, FailedWorker, LoadedWorker, RInvParts
    <3> QED
      BY <2>1, <2>2, <3>2, LoadEffect, RInvParts
  <2>3. CASE Crash(w)
    BY <2>1, <2>3 DEF Crash
  <2> QED
    BY <2>2, <2>3
<1>3. worker'[w] = q /\ \A v \in Worker : v # w => worker'[v] = worker[v]
  BY <1>2, RInvParts DEF TypeOK
<1>4. ~SeenBy(w)'
  BY <1>2, <1>3 DEF SeenBy
<1>5. \A i \in 1 .. rows : Open(i)' <=> Open(i)
  BY <1>1 DEF Open
<1> QED
  BY <1>1, <1>3, <1>4, <1>5, QuietMaps

LEMMA RecheckMaps == ASSUME RInv, [Next]_vars, ~Edit, NEW w \in Worker, Recheck(w)
                     PROVE  [Abstract!Next]_avars
<1>1. /\ UNCHANGED <<event, row, rows, remote, pull>> /\ worker[w].phase = "recording"
      /\ worker[w] \in Doing /\ worker'[w] \in {Idle, Checked(worker[w])}
      /\ \A v \in Worker : v # w => worker'[v] = worker[v]
  BY RecheckEffect, RInvParts DEF TypeOK
<1>2. /\ Idle.phase = "idle"
      /\ Checked(worker[w]).row = worker[w].row /\ Checked(worker[w]).token = worker[w].token
      /\ Checked(worker[w]).result = "done" => worker[w].result = "done"
  BY <1>1, CheckedWorker, RInvParts DEF Idle
<1>3. ASSUME NEW v \in Worker, SeenBy(v)' PROVE SeenBy(v) /\ worker'[v].row = worker[v].row
  BY <1>1, <1>2, <1>3 DEF SeenBy, Claimed
<1>4. \A i \in 1 .. rows : Open(i)' <=> Open(i)
  BY <1>1 DEF Open
<1> QED
  BY <1>1, <1>3, <1>4, ForgetMaps

LEMMA LapseMaps == ASSUME RInv, [Next]_vars, ~Edit, NEW i \in 1 .. rows, Lapse(i)
                   PROVE  [Abstract!Next]_avars
<1>1. /\ row' = [row EXCEPT ![i] = [row[i] EXCEPT !.lapsed = TRUE]]
      /\ row[i].state = "processing" /\ UNCHANGED <<event, rows, remote, worker, pull>>
  BY DEF Lapse
<1>2. i \in 1 .. MaxRows /\ row[i] \in Row
  BY RInvParts, CalendarDeliveryAssumption DEF TypeOK
<1>3. \A j \in 1 .. rows : Open(j)' <=> Open(j)
  <2>1. [row[i] EXCEPT !.lapsed = TRUE].state = "processing"
    BY <1>1, <1>2 DEF Row
  <2> QED
    BY <1>1, <1>2, <2>1, StillOpen, RInvParts DEF Open
<1>4. \A j \in 1 .. MaxRows : row'[j].asked = row[j].asked
  BY AskedKept, RInvParts
<1>5. ASSUME NEW v \in Worker, SeenBy(v)' PROVE SeenBy(v) /\ worker'[v].row = worker[v].row
  <2>1. worker[v].phase # "idle" /\ Claimed(worker[v])' /\ worker' = worker
    BY <1>1, <1>5 DEF SeenBy
  <2> QED
    BY <1>5, <2>1, ClaimedKept DEF SeenBy
<1> QED
  BY <1>1, <1>3, <1>4, <1>5, ForgetMaps
-----------------------------------------------------------------------------
(* Records                                                                 *)

LEMMA RecordMaps == ASSUME RInv, [Next]_vars, ~Edit, NEW w \in Worker, Record(w)
                    PROVE  [Abstract!Next]_avars
<1> DEFINE s == worker[w]
<1>1. PICK i \in 1 .. rows :
        /\ i = s.row /\ i \in 1 .. MaxRows /\ row[i] \in Row /\ row[i].attempts > 0
        /\ \/ /\ s.result = "done" /\ Covered(i) /\ event' = Told(s)
              /\ row' = [row EXCEPT ![i] = Completed(row[i])]
           \/ /\ UNCHANGED event
              /\ \E result \in Results : row' = [row EXCEPT ![i] = Failure(row[i], result)]
  BY RecordEffect, RInvParts
<1>2. /\ s \in Doing /\ s.phase = "writing" /\ Claimed(s) /\ "conflict" \in Results
      /\ UNCHANGED <<rows, remote, pull>> /\ worker'[w].phase = "idle"
      /\ \A v \in Worker : v # w => worker'[v] = worker[v]
  BY RecordEffect, RInvParts DEF TypeOK, Results
<1>3. ~SeenBy(w)' /\ Open(i)
  BY <1>1, <1>2 DEF SeenBy, Claimed, Open
<1>4. ASSUME NEW result \in Results, UNCHANGED event,
             row' = [row EXCEPT ![i] = Failure(row[i], result)]
      PROVE  [Abstract!Next]_avars
  <2>1. Failure(row[i], result).state \in {"retry", "conflict"}
    BY <1>1, ClosingRow
  <2>2. \A j \in 1 .. rows : Open(j)' <=> Open(j)
    BY <1>1, <1>3, <1>4, <2>1, StillOpen, RInvParts
  <2> QED
    BY <1>2, <1>3, <1>4, <2>2, QuietMaps
<1>5. CASE /\ s.result = "done" /\ Covered(i) /\ event' = Told(s)
           /\ row' = [row EXCEPT ![i] = Completed(row[i])]
  <2>1. /\ event'.etag = s.etag /\ event'.text = event.text /\ event'.status = event.status
        /\ event'.href => s.op \in {"create", "update"}
    BY <1>2, <1>5, ToldEvent, RInvParts
  <2>2. row'[i].state = "completed" /\ \A j \in 1 .. rows : j # i => row'[j] = row[j]
    <3>1. row'[i] = Completed(row[i]) /\ \A j \in 1 .. rows : j # i => row'[j] = row[j]
      BY <1>1, <1>5, RInvParts, CalendarDeliveryAssumption DEF TypeOK
    <3> QED
      BY <1>1, <1>2, <3>1, ClosingRow
  <2>3. i \in Opened /\ SeenBy(w) /\ i \in InEffect
    BY <1>1, <1>2, <1>3, <1>5 DEF Opened, SeenBy, InEffect
  <2>4. \A e \in Opened : i <= e
    BY <1>1, RInvParts DEF Opened, InOrder
  <2>5. Opened' = Opened \ {i}
    <3>1. ASSUME NEW j PROVE j \in Opened' <=> j \in Opened \ {i}
      BY <1>2, <2>2 DEF Opened, Open
    <3> QED
      BY <3>1
  <2>6. InEffect' = InEffect \ {i}
    <3>1. ASSUME NEW v \in Worker, SeenBy(v) PROVE v = w
      <4>1. worker[v].phase # "idle" /\ Claimed(worker[v])
        BY <3>1 DEF SeenBy
      <4> QED
        BY <1>2, <4>1, OneHolder, RInvParts
    <3>2. ASSUME NEW v \in Worker, SeenBy(v)' PROVE FALSE
      <4>1. v # w /\ worker'[v] = worker[v]
        BY <1>2, <1>3, <3>2
      <4>2. worker[v].phase # "idle" /\ Claimed(worker[v])'
        BY <3>2, <4>1 DEF SeenBy, Claimed
      <4>3. Claimed(worker[v])
        BY <4>1, <4>2, ClaimedKept
      <4> QED
        BY <3>1, <3>2, <4>1, <4>3 DEF SeenBy
    <3>3. InEffect' = {} /\ InEffect \subseteq {i}
      BY <1>1, <3>1, <3>2 DEF InEffect
    <3> QED
      BY <3>3
  <2>7. Mine' = Mine /\ Asked' = Asked /\ Looked' = Looked /\ Theirs' = Theirs /\ Author' = Author
    BY <1>2, <2>1, SameMine, SameAsked, AskedKept, SameLooked, RInvParts DEF Theirs, Author
  <2>8. Known' => Theirs # NoText
    BY <1>2, RInvParts DEF Known, CopySays, Theirs
  <2>9. ASSUME Known', Opened' = {} PROVE Mine = Theirs
    <3>1. \A j \in (i + 1) .. rows : ~Open(j)
      <4>1. ASSUME NEW j \in (i + 1) .. rows PROVE ~Open(j)
        BY <1>2, <2>2, <2>9, RInvParts DEF Opened, Open, TypeOK
      <4> QED
        BY <4>1
    <3>2. event.version = row[i].gen
      BY <1>5, <3>1 DEF Covered
    <3>3. s.op \in {"create", "update"} /\ s.etag # 0 /\ s.etag = remote.etag
      BY <1>2, <2>1, <2>9 DEF Known
    <3>4. Reports(s) /\ Carries(s)
      BY <1>2, <1>5 DEF Reports, Carries
    <3>5. s.text = row[i].text /\ row[i].op # "delete"
      BY <1>1, <1>2, <3>3, <3>4, RInvParts DEF HolderSays
    <3>6. event.status = "confirmed" /\ row[i].text = event.text
      BY <1>3, <3>2, <3>5, RInvParts DEF RowSays
    <3>7. remote.text = s.text
      BY <3>3, <3>4, RInvParts DEF AnswerStands, Stands
    <3> QED
      BY <3>5, <3>6, <3>7 DEF Mine, Theirs
  <2>10. Known' \in {FALSE, Theirs # NoText} /\ Late' \in {FALSE, Looked # << >>}
    <3>1. Known' \in BOOLEAN /\ Late' \in BOOLEAN
      BY DEF Known, Late
    <3>2. Late' => Looked # << >>
      BY <1>2 DEF Late, Looked
    <3> QED
      BY <2>8, <3>1, <3>2
  <2>11. Abstract!Settle(i)
    BY <2>3, <2>4, <2>5, <2>6, <2>7, <2>9, <2>10 DEF Abstract!Settle
  <2> QED
    BY <1>1, <2>11 DEF Abstract!Next
<1> QED
  BY <1>1, <1>4, <1>5

-----------------------------------------------------------------------------
(* Pulls and other clients                                                 *)

LEMMA PullLooks ==
  ASSUME RInv, event' = event, UNCHANGED <<row, rows, remote, worker>>,
         \/ Looked' = Looked /\ Late' = Late
         \/ Looked' \in {<< >>, <<Theirs>>} /\ Late' = FALSE
  PROVE  [Abstract!Next]_avars
<1>1. Mine' = Mine /\ Known' = Known /\ Theirs' = Theirs /\ Author' = Author
  BY SameMine, SameKnown
<1>2. Asked' = Asked /\ Opened' = Opened /\ InEffect' = InEffect
  BY DEF Asked, Opened, Open, InEffect, SeenBy, Claimed
<1>3. CASE Looked' = Looked /\ Late' = Late
  BY <1>1, <1>2, <1>3 DEF avars
<1>4. CASE Looked' \in {<< >>, <<Theirs>>} /\ Late' = FALSE
  <2>1. Abstract!Look
    BY <1>1, <1>2, <1>4 DEF Abstract!Look
  <2> QED
    BY <2>1 DEF Abstract!Next
<1> QED
  BY <1>3, <1>4

\* A pull that writes the event row writes what it saw.
LEMMA PullMaps ==
  ASSUME RInv, UNCHANGED <<row, rows, remote, worker>>, ~AnyOpen,
         pull.phase # "idle", pull' = NoPull, Mine' = Abstract!Shown(pull.copy.text),
         Late \/ event'.etag \in {0, pull.copy.etag}
  PROVE  [Abstract!Next]_avars
<1>1. Theirs' = Theirs /\ Author' = Author
  BY DEF Theirs, Author
<1>2. Asked' = Asked /\ Opened' = Opened /\ InEffect' = InEffect
  BY DEF Asked, Opened, Open, InEffect, SeenBy, Claimed
<1>3. Opened = {}
  BY DEF Opened, AnyOpen
<1>4. Looked = <<pull.copy.text>> /\ Looked' = << >> /\ Late' = FALSE
  BY NoPullType DEF Looked, Late
<1>5. Looked # << >> /\ Looked[1] = pull.copy.text
  BY <1>4
<1>6. Known' => Theirs # NoText /\ (Late \/ Theirs = pull.copy.text)
  BY RInvParts DEF Known, CopySays, ListingStands, Theirs
<1>7. Known' \in {FALSE, Theirs # NoText}
  <2>1. Known' \in BOOLEAN
    BY DEF Known
  <2> QED
    BY <1>6, <2>1
<1>8. Abstract!Pull
  BY <1>1, <1>2, <1>3, <1>4, <1>5, <1>6, <1>7 DEF Abstract!Pull
<1> QED
  BY <1>8 DEF Abstract!Next

\* What a pull finds in the event row is what it has read, but for the ETag.
LEMMA PullWrote ==
  ASSUME RInv, NEW new \in Event, pull.phase \in {"found", "lost"},
         Refresh(pull.old, new), event' # event
  PROVE  /\ ~AnyOpen /\ event'.status = new.status /\ event'.text = new.text
         /\ Late \/ event'.etag = new.etag
<1> DEFINE old == pull.old
<1>1. event.version = old.version /\ event' = Written(old, new) /\ ~AnyOpen
  BY RefreshEffect
<1>2. old \in Event /\ TypeOK
  BY RInvParts DEF TypeOK, Pull
<1>3. event.text = old.text /\ event.status = old.status
  BY <1>1, RInvParts DEF OldStands
<1>4. Late \/ event.etag = old.etag
  BY DEF Late
<1> HIDE DEF old
<1> QED
  BY <1>1, <1>2, <1>3, <1>4, WrittenType

LEMMA SyncMaps == ASSUME RInv, Sync PROVE [Abstract!Next]_avars
<1>1. /\ UNCHANGED <<row, rows, remote, worker>> /\ pull.copy \in Copy /\ pull.old \in Event
      /\ (UNCHANGED event /\ PullGoes) \/ (pull' = NoPull /\ PullWrites)
  BY SyncCases, RInvParts DEF TypeOK, Pull
<1>2. pull' = NoPull => Looked' = << >> /\ Late' = FALSE
  BY NoPullType DEF Looked, Late
<1>3. CASE event' = event /\ pull' = NoPull
  BY <1>1, <1>2, <1>3, PullLooks
<1>4. CASE UNCHANGED event /\ PullGoes /\ pull' # NoPull
  <2>1. CASE pull'.phase = "listed" /\ pull'.copy.text = remote.text
    <3>1. Looked' = <<Theirs>> /\ Late' = FALSE
      BY <2>1 DEF Looked, Late, Theirs
    <3> QED
      BY <1>1, <1>4, <3>1, PullLooks
  <2>2. CASE ~(pull'.phase = "listed" /\ pull'.copy.text = remote.text)
    <3>1. /\ pull.phase \in {"listed", "missing", "verified"}
          /\ pull'.phase \in {"found", "missing", "verified", "lost"}
          /\ pull'.copy = pull.copy \/ (pull'.copy = Gone(0) /\ pull.copy.text = NoText)
          /\ pull'.phase \in {"found", "lost"} => pull'.old = event
      BY <1>4, <2>2 DEF PullGoes
    <3>2. pull'.copy.text = pull.copy.text
      BY <3>1 DEF Gone
    <3>3. Looked' = Looked
      BY <3>1, <3>2 DEF Looked
    <3>4. Late' = Late
      BY <1>4, <3>1 DEF Late
    <3> QED
      BY <1>1, <1>4, <3>3, <3>4, PullLooks
  <2> QED
    BY <2>1, <2>2
<1>5. CASE pull' = NoPull /\ pull.phase = "found" /\ event' # event
  <2> DEFINE new == Pulled(pull.old, pull.copy)
  <2>1. /\ new \in Event /\ new.status = Status(pull.copy.text) /\ new.text = pull.copy.text
        /\ new.etag = pull.copy.etag
    BY <1>1, PulledType
  <2>2. Refresh(pull.old, new)
    BY <1>1, <1>5 DEF PullWrites
  <2> HIDE DEF new
  <2>3. /\ ~AnyOpen /\ event'.status = new.status /\ event'.text = new.text
        /\ Late \/ event'.etag = new.etag
    BY <1>5, <2>1, <2>2, PullWrote
  <2>4. Mine' = Abstract!Shown(pull.copy.text)
    BY <2>1, <2>3 DEF Mine, Status, Abstract!Shown
  <2> QED
    BY <1>1, <1>5, <2>1, <2>3, <2>4, PullMaps
<1>6. CASE pull' = NoPull /\ pull.phase = "lost" /\ event' # event
  <2> DEFINE new == Vanished(pull.old)
  <2>1. new \in Event /\ new.status = "cancelled" /\ new.etag = 0
    BY <1>1, VanishedType
  <2>2. Refresh(pull.old, new)
    BY <1>1, <1>6 DEF PullWrites
  <2> HIDE DEF new
  <2>3. /\ ~AnyOpen /\ event'.status = "cancelled" /\ (Late \/ event'.etag = 0)
    BY <1>6, <2>1, <2>2, PullWrote
  <2>4. pull.copy.text = NoText
    BY <1>6, RInvParts DEF CopySays
  <2>5. Mine' = Abstract!Shown(pull.copy.text)
    BY <2>3, <2>4 DEF Mine, Abstract!Shown
  <2> QED
    BY <1>1, <1>6, <2>3, <2>5, PullMaps
<1> QED
  BY <1>1, <1>3, <1>4, <1>5, <1>6 DEF PullWrites

LEMMA ForeignMaps == ASSUME RInv, Foreign PROVE [Abstract!Next]_avars
<1>1. /\ UNCHANGED <<event, row, rows, worker, pull>> /\ remote.etag # 0
      /\ remote'.by = 0 /\ remote'.text \in Says /\ remote'.etag \in {0, etags + 1}
  BY DEF Foreign, Gone, Says
<1>2. Mine' = Mine /\ Asked' = Asked /\ Opened' = Opened /\ InEffect' = InEffect
  BY <1>1, SameMine DEF Asked, Opened, Open, InEffect, SeenBy, Claimed
<1>6. Looked' = Looked /\ Late' = Late
  BY <1>1, SameLooked, SameLate
<1>3. Theirs # NoText /\ Theirs' \in Abstract!Says /\ Author' = 0
  BY <1>1, RInvParts DEF CopySays, Theirs, Author, Says, Abstract!Says
<1>4. Known' = FALSE
  <2>1. remote'.etag # 0 => event.etag # remote'.etag
    BY <1>1, NewEtag, RInvParts
  <2> QED
    BY <1>1, <2>1 DEF Known
<1>5. Abstract!Foreign
  BY <1>2, <1>3, <1>4, <1>6 DEF Abstract!Foreign
<1> QED
  BY <1>5 DEF Abstract!Next

-----------------------------------------------------------------------------
(* The theorem                                                             *)

LEMMA StillMaps == ASSUME RInv, Reconfigure \/ UNCHANGED vars PROVE [Abstract!Next]_avars
<1>1. UNCHANGED <<event, row, rows, remote, worker, pull>>
  BY DEF Reconfigure, vars
<1>2. Looked' = Looked /\ Late' = Late
  BY <1>1, SameLooked, SameLate
<1> QED
  BY <1>1, <1>2, PullLooks

LEMMA StepMaps == RInv /\ [Next]_vars => [Abstract!Next]_avars
<1> SUFFICES ASSUME RInv, [Next]_vars PROVE [Abstract!Next]_avars
  OBVIOUS
<1>1. CASE Edit
  BY <1>1, EditMaps
<1>3. ASSUME ~Edit, NEW w \in Worker,
             Claim(w) \/ Load(w) \/ Send(w) \/ Lose(w) \/ Recheck(w) \/ Record(w) \/ Crash(w)
      PROVE  [Abstract!Next]_avars
  BY <1>3, ClaimMaps, LoadMaps, SendMaps, RecheckMaps, RecordMaps
<1>4. ASSUME ~Edit, NEW i \in 1 .. rows, Lapse(i) PROVE [Abstract!Next]_avars
  BY <1>4, LapseMaps
<1>5. CASE Sync
  BY <1>5, SyncMaps
<1>6. CASE Foreign
  BY <1>6, ForeignMaps
<1>7. CASE Reconfigure \/ UNCHANGED vars
  BY <1>7, StillMaps
<1> QED
  BY <1>1, <1>3, <1>4, <1>5, <1>6, <1>7 DEF Next, Work

LEMMA StartMaps == Init => CopySays /\ RowAsked /\ SentAsked /\ Abstract!Init
<1> SUFFICES ASSUME Init PROVE CopySays /\ RowAsked /\ SentAsked /\ Abstract!Init
  OBVIOUS
<1>1. /\ rows = 0 /\ \A i \in 1 .. MaxRows : row[i].asked = << >>
      /\ \A w \in Worker : worker[w].phase = "idle"
      /\ pull = NoPull /\ pull.phase = "idle"
  BY NoPullType DEF Init, NoRow, Idle
<1>2. /\ Mine = Abstract!Shown(Theirs) /\ Theirs \in Says /\ Author = 0
      /\ Known = (Theirs # NoText) /\ (remote.etag = 0 <=> remote.text = NoText)
  <2>1. CASE event = Absent /\ remote = Gone(0)
    BY <2>1 DEF Mine, Theirs, Author, Known, Says, Gone, Absent, Abstract!Shown
  <2>2. ASSUME NEW t \in Text,
               event = [status |-> Status(t), text |-> t, version |-> 1, href |-> TRUE, etag |-> 1,
                        origin |-> "caldav", pulled |-> 1, torn |-> FALSE],
               remote = [etag |-> 1, text |-> t, by |-> 0]
        PROVE  /\ Mine = Abstract!Shown(Theirs) /\ Theirs \in Says /\ Author = 0
               /\ Known = (Theirs # NoText) /\ (remote.etag = 0 <=> remote.text = NoText)
    BY <2>2, CalendarDeliveryAssumption
      DEF Mine, Theirs, Author, Known, Says, Status, Abstract!Shown
  <2> QED
    BY <2>1, <2>2 DEF Init
<1>3. /\ Asked = [i \in 1 .. MaxRows |-> << >>] /\ Opened = {} /\ InEffect = {}
      /\ Looked = << >> /\ Late = FALSE
  BY <1>1 DEF Asked, Opened, InEffect, SeenBy, Looked, Late
<1>4. CopySays /\ RowAsked /\ SentAsked
  BY <1>1, <1>2 DEF CopySays, RowAsked, SentAsked
<1>5. Abstract!Init
  BY <1>2, <1>3 DEF Abstract!Init, Abstract!Says, Says
<1> QED
  BY <1>4, <1>5

\* Edits, outbox rows, workers, lost answers and pulls together implement
\* TwoCopies, as long as no claim is taken over between its last check and the
\* commit (PromptRecord).
THEOREM Implements == ASSUME PromptRecord PROVE Spec => ImplementsTwoCopies
<1>1. Init => RInv /\ Abstract!Init
  BY InvariantInit, TextsInit, StartMaps DEF RInv
<1>2. RInv /\ [Next]_vars => RInv'
  <2> SUFFICES ASSUME RInv, [Next]_vars PROVE RInv'
    OBVIOUS
  <2>1. IInv' /\ (Gens /\ Texts)'
    BY InvariantStep, TextsStep DEF RInv
  <2>2. CopySays' /\ RowAsked' /\ SentAsked'
    BY CopySaysStep, RowAskedStep, SentAskedStep, RInvParts
  <2> QED
    BY <2>1, <2>2 DEF RInv
<1>3. RInv /\ [Next]_vars =>
        [Abstract!Next]_<<Mine, Theirs, Author, Known, Asked, Opened, InEffect, Looked, Late>>
  BY StepMaps DEF avars
<1> QED
  BY <1>1, <1>2, <1>3, PTL DEF Spec, Abstract!Spec, Abstract!copies, ImplementsTwoCopies

=============================================================================
