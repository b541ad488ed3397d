--------------------------- MODULE AgentRunsProofs ---------------------------
(***************************************************************************)
(* Proofs about AgentRuns: for any browsers and any number of messages and *)
(* events, a browser is sent the events of its run in order and whole,     *)
(* replies are generated one after the other, and the last run stays       *)
(* reachable.                                                              *)
(***************************************************************************)
EXTENDS AgentRuns, SequenceTheorems, TLAPS

-----------------------------------------------------------------------------
(* What the steps do to runs and streams                                   *)

\* A run of which at most the timer and the cancellation have changed.
Same(r, q) ==
  /\ q.phase = r.phase /\ q.status = r.status
  /\ q.previous = r.previous /\ q.length = r.length

Quiet == run' \in [RunId -> Run] /\ \A i \in RunId : Same(run[i], run'[i])

LEMMA Timers ==
  ASSUME NEW rs \in [RunId -> Run]
  PROVE  /\ ScheduleEvict(rs) \in [RunId -> Run]
         /\ \A i \in RunId : Same(rs[i], ScheduleEvict(rs)[i])
  BY DEF ScheduleEvict, Run, Same

LEMMA Unchanged ==
  ASSUME TypeOK, run' = run PROVE Quiet
  BY DEF TypeOK, Quiet, Same

LEMMA StreamWith ==
  ASSUME TypeOK, NEW c \in Client, NEW s \in Stream, client' = [client EXCEPT ![c] = s]
  PROVE  /\ client' \in [Client -> Stream] /\ client'[c] = s
         /\ \A d \in Client : d # c => client'[d] = client[d]
  BY DEF TypeOK

LEMMA PhaseType ==
  ASSUME NEW s \in Stream, NEW p \in Watching \union {"away", "closed"}
  PROVE  [s EXCEPT !.phase = p] \in Stream
  BY DEF Stream

LEMMA ReceiveType ==
  ASSUME NEW s \in Stream, NEW e \in Nat PROVE Receive(s, e) \in Stream
<1>1. Append(s.received, e) \in Seq(Nat)
  BY AppendProperties DEF Stream
<1> QED
  BY <1>1 DEF Receive, Stream

LEMMA LeaveEffect ==
  ASSUME TypeOK, NEW c \in Client, NEW i, NEW p \in {"away", "closed"}, Leave(c, i, p)
  PROVE  /\ Quiet /\ client' \in [Client -> Stream]
         /\ client'[c] = [client[c] EXCEPT !.phase = p]
         /\ \A d \in Client : d # c => client'[d] = client[d]
<1>1. Quiet
  BY Timers, Unchanged DEF Leave, Quiet, TypeOK
<1>2. client' = [client EXCEPT ![c] = [client[c] EXCEPT !.phase = p]]
  BY DEF Leave, TypeOK
<1>3. [client[c] EXCEPT !.phase = p] \in Stream
  BY PhaseType DEF TypeOK
<1> QED
  BY <1>1, <1>2, <1>3, StreamWith

LEMMA PutEffect ==
  ASSUME TypeOK, NEW i, NEW items \in Seq(Nat), client' = Put(i, items)
  PROVE  /\ client' \in [Client -> Stream]
         /\ \A c \in Client :
              /\ c \in Subscribers(i) =>
                   client'[c] = [client[c] EXCEPT !.queue = client[c].queue \o items]
              /\ c \notin Subscribers(i) => client'[c] = client[c]
<1>1. \A c \in Client : client[c] \in Stream
  BY DEF TypeOK
<1>2. \A c \in Client : [client[c] EXCEPT !.queue = client[c].queue \o items] \in Stream
  <2> TAKE c \in Client
  <2>1. client[c].queue \o items \in Seq(Nat)
    BY <1>1, ConcatProperties DEF Stream
  <2> QED
    BY <1>1, <2>1 DEF Stream
<1>3. \A c \in Client :
        client'[c] = IF c \in Subscribers(i)
                       THEN [client[c] EXCEPT !.queue = client[c].queue \o items]
                       ELSE client[c]
  BY DEF Put
<1>4. client' = [c \in Client |-> client'[c]]
  BY DEF Put
<1> QED
  BY <1>1, <1>2, <1>3, <1>4

-----------------------------------------------------------------------------
(* Types                                                                   *)

LEMMA NewRunType ==
  ASSUME NEW p \in 0 .. MaxRuns PROVE NewRun(p) \in Run
  BY DEF NewRun, Run, Phase, Status

LEMMA NewStreamType ==
  ASSUME NEW i \in 0 .. MaxRuns PROVE NewStream(i) \in Stream
  BY EmptySeq DEF NewStream, Stream, Watching

LEMMA InitTypes == Init => TypeOK
<1> SUFFICES ASSUME Init PROVE TypeOK
  OBVIOUS
<1>1. 0 \in 0 .. MaxRuns
  BY AgentRunsAssumption
<1>2. [NewRun(0) EXCEPT !.phase = "unborn"] \in Run
  BY <1>1, NewRunType DEF Run, Phase
<1>3. [NewStream(0) EXCEPT !.phase = "away"] \in Stream
  BY <1>1, NewStreamType, PhaseType
<1> QED
  BY <1>1, <1>2, <1>3 DEF Init, TypeOK

\* A step that leaves the messages alone keeps the types of the rest.
LEMMA KeepTypes ==
  ASSUME TypeOK, UNCHANGED <<current, started>>,
         run' \in [RunId -> Run], client' \in [Client -> Stream]
  PROVE  TypeOK'
  BY DEF TypeOK

LEMMA FinishItems ==
  ASSUME NEW n \in Nat
  PROVE  <<n + 1>> \in Seq(Nat) /\ <<End>> \in Seq(Nat) /\ <<n + 1, n + 2, End>> \in Seq(Nat)
  BY DEF End

\* What becomes of the stream of a browser that reads on; the rest stays.
Moves(c, s) ==
  /\ Quiet /\ client' \in [Client -> Stream] /\ client'[c] = s
  /\ \A d \in Client : d # c => client'[d] = client[d]

LEMMA ReplayEffect ==
  ASSUME TypeOK, NEW c \in Client, Replay(c)
  PROVE  LET s == client[c] IN
         \/ s.next < run[s.run].length /\ Moves(c, Receive(s, s.next + 1))
         \/ /\ s.next = run[s.run].length /\ run[s.run].status # "running"
            /\ Moves(c, [s EXCEPT !.phase = "closed"])
         \/ s.next = run[s.run].length /\ Moves(c, [s EXCEPT !.phase = "live"])
<1> DEFINE s == client[c]
<1>1. s \in Stream
  BY DEF TypeOK
<1>2. CASE /\ s.next < run[s.run].length
           /\ client' = [client EXCEPT ![c] = Receive(s, s.next + 1)] /\ UNCHANGED run
  <2>1. s.next + 1 \in Nat
    BY <1>1 DEF Stream
  <2>2. Receive(s, s.next + 1) \in Stream
    BY <1>1, <2>1, ReceiveType
  <2> QED
    BY <1>2, <2>2, Unchanged, StreamWith DEF Moves
<1>3. CASE /\ s.next = run[s.run].length /\ run[s.run].status # "running"
           /\ Leave(c, s.run, "closed")
  BY <1>3, LeaveEffect DEF Moves
<1>4. CASE /\ s.next = run[s.run].length
           /\ client' = [client EXCEPT ![c] = [s EXCEPT !.phase = "live"]] /\ UNCHANGED run
  BY <1>1, <1>4, Unchanged, PhaseType, StreamWith DEF Watching, Moves
<1> QED
  BY <1>2, <1>3, <1>4 DEF Replay

LEMMA LiveEffect ==
  ASSUME TypeOK, NEW c \in Client, Live(c)
  PROVE  LET s == client[c]
             rest == [s EXCEPT !.queue = Tail(s.queue)]
         IN
         /\ s.phase = "live"
         /\ \/ /\ s.queue # << >> /\ Head(s.queue) # End /\ Head(s.queue) > s.next
               /\ Moves(c, Receive(rest, Head(s.queue)))
            \/ /\ s.queue # << >> /\ Head(s.queue) # End /\ ~(Head(s.queue) > s.next)
               /\ Moves(c, rest)
            \/ /\ s.queue # << >> /\ Head(s.queue) = End
               /\ Moves(c, [rest EXCEPT !.phase = "flushing"])
            \/ /\ s.queue = << >> /\ run[s.run].status # "running"
               /\ Moves(c, [s EXCEPT !.phase = "flushing"])
<1> DEFINE s == client[c]
           rest == [s EXCEPT !.queue = Tail(s.queue)]
<1>1. s \in Stream /\ s.queue \in Seq(Nat) /\ s.phase = "live"
  BY DEF TypeOK, Stream, Live
<1>2. Quiet
  BY Unchanged DEF Live
<1>3. CASE /\ s.queue # << >> /\ Head(s.queue) # End
           /\ client' = [client EXCEPT ![c] =
                IF New(s, Head(s.queue)) THEN Receive(rest, Head(s.queue)) ELSE rest]
  <2>1. Tail(s.queue) \in Seq(Nat) /\ Head(s.queue) \in Nat
    BY <1>1, <1>3, HeadTailProperties
  <2>2. rest \in Stream
    BY <1>1, <2>1 DEF Stream
  <2>3. Receive(rest, Head(s.queue)) \in Stream
    BY <2>1, <2>2, ReceiveType
  <2>4. CASE Head(s.queue) > s.next
    <3>1. client' = [client EXCEPT ![c] = Receive(rest, Head(s.queue))]
      BY <1>3, <2>4 DEF New
    <3>2. Moves(c, Receive(rest, Head(s.queue)))
      BY <1>2, <2>3, <3>1, StreamWith DEF Moves
    <3> QED
      BY <1>1, <1>3, <2>4, <3>2
  <2>5. CASE ~(Head(s.queue) > s.next)
    <3>1. client' = [client EXCEPT ![c] = rest]
      BY <1>3, <2>5 DEF New
    <3>2. Moves(c, rest)
      BY <1>2, <2>2, <3>1, StreamWith DEF Moves
    <3> QED
      BY <1>1, <1>3, <2>5, <3>2
  <2> QED
    BY <2>4, <2>5
<1>4. CASE /\ s.queue # << >> /\ Head(s.queue) = End
           /\ client' = [client EXCEPT ![c] = [rest EXCEPT !.phase = "flushing"]]
  <2>1. Tail(s.queue) \in Seq(Nat)
    BY <1>1, <1>4, HeadTailProperties
  <2>2. rest \in Stream
    BY <1>1, <2>1 DEF Stream
  <2>3. [rest EXCEPT !.phase = "flushing"] \in Stream
    BY <2>2, PhaseType DEF Watching
  <2>4. Moves(c, [rest EXCEPT !.phase = "flushing"])
    BY <1>2, <1>4, <2>3, StreamWith DEF Moves
  <2> QED
    BY <1>1, <1>4, <2>4
<1>5. CASE /\ s.queue = << >> /\ run[s.run].status # "running"
           /\ client' = [client EXCEPT ![c] = [s EXCEPT !.phase = "flushing"]]
  BY <1>1, <1>2, <1>5, PhaseType, StreamWith DEF Watching, Moves
<1> QED
  BY <1>3, <1>4, <1>5 DEF Live

LEMMA FlushEffect ==
  ASSUME TypeOK, NEW c \in Client, Flush(c)
  PROVE  LET s == client[c] IN
         /\ s.phase = "flushing"
         /\ \/ s.next < run[s.run].length /\ Moves(c, Receive(s, s.next + 1))
            \/ s.next = run[s.run].length /\ Moves(c, [s EXCEPT !.phase = "closed"])
<1> DEFINE s == client[c]
<1>1. s \in Stream /\ s.phase = "flushing"
  BY DEF TypeOK, Flush
<1>2. CASE /\ s.next < run[s.run].length
           /\ client' = [client EXCEPT ![c] = Receive(s, s.next + 1)] /\ UNCHANGED run
  <2>1. s.next + 1 \in Nat
    BY <1>1 DEF Stream
  <2>2. Receive(s, s.next + 1) \in Stream
    BY <1>1, <2>1, ReceiveType
  <2> QED
    BY <1>1, <1>2, <2>2, Unchanged, StreamWith DEF Moves
<1>3. CASE s.next = run[s.run].length /\ Leave(c, s.run, "closed")
  BY <1>1, <1>3, LeaveEffect DEF Moves
<1> QED
  BY <1>2, <1>3 DEF Flush

LEMMA DisconnectEffect ==
  ASSUME TypeOK, NEW c \in Client, Disconnect(c)
  PROVE  Moves(c, [client[c] EXCEPT !.phase = "away"])
  BY LeaveEffect DEF Disconnect, Moves

\* A stream stays on its run, whatever it receives.
LEMMA SameRun ==
  ASSUME NEW s \in Stream
  PROVE  /\ \A e : Receive(s, e).run = s.run
         /\ \A p : [s EXCEPT !.phase = p].run = s.run
  BY DEF Receive, Stream

\* In each case only that stream has moved, on the run it was on.
LEMMA ServeMoves ==
  ASSUME TypeOK, NEW c \in Client, Serve(c) \/ Disconnect(c)
  PROVE  /\ Quiet /\ client' \in [Client -> Stream] /\ UNCHANGED <<current, started>>
         /\ client[c].phase \in Watching /\ client'[c].run = client[c].run
         /\ \A d \in Client : d # c => client'[d] = client[d]
<1>1. client[c] \in Stream
  BY DEF TypeOK
<1>2. client[c].phase \in Watching
  BY DEF Serve, Replay, Live, Flush, Disconnect, Watching
<1>3. UNCHANGED <<current, started>>
  BY DEF Serve, Replay, Live, Flush, Disconnect
<1> DEFINE Goal == /\ Quiet /\ client' \in [Client -> Stream] /\ client'[c].run = client[c].run
                   /\ \A d \in Client : d # c => client'[d] = client[d]
<1>g. ASSUME NEW s, s.run = client[c].run, Moves(c, s) PROVE Goal
  BY <1>g DEF Moves
<1> HIDE DEF Goal
<1>4. ASSUME Replay(c) PROVE Goal
  BY <1>1, <1>4, <1>g, ReplayEffect, SameRun
<1>5. ASSUME Live(c) PROVE Goal
  <2> DEFINE s == client[c]
             rest == [s EXCEPT !.queue = Tail(s.queue)]
  <2>1. rest.run = s.run /\ [rest EXCEPT !.phase = "flushing"].run = s.run
        /\ Receive(rest, Head(s.queue)).run = s.run /\ [s EXCEPT !.phase = "flushing"].run = s.run
    BY <1>1 DEF Receive, Stream
  <2> HIDE DEF s, rest
  <2>2. \/ Moves(c, Receive(rest, Head(s.queue))) \/ Moves(c, rest)
        \/ Moves(c, [rest EXCEPT !.phase = "flushing"]) \/ Moves(c, [s EXCEPT !.phase = "flushing"])
    BY <1>5, LiveEffect DEF s, rest
  <2> QED
    BY <1>g, <2>1, <2>2 DEF s
<1>6. ASSUME Flush(c) PROVE Goal
  BY <1>1, <1>6, <1>g, FlushEffect, SameRun
<1>7. ASSUME Disconnect(c) PROVE Goal
  BY <1>1, <1>7, <1>g, DisconnectEffect, SameRun
<1> USE DEF Goal
<1> QED
  BY <1>2, <1>3, <1>4, <1>5, <1>6, <1>7 DEF Serve

\* What the routes and the timer do.
LEMMA TimerOf ==
  ASSUME TypeOK, NEW i \in RunId, NEW b \in BOOLEAN, run' = [run EXCEPT ![i].evicting = b]
  PROVE  Quiet
  BY DEF TypeOK, Run, Quiet, Same

LEMMA StopEffect ==
  ASSUME TypeOK, Stop
  PROVE  Quiet /\ UNCHANGED <<current, started>> /\ client' = client /\ client' \in [Client -> Stream]
<1>1. current \in RunId /\ run' = [run EXCEPT ![current].cancelled = TRUE]
  BY AgentRunsAssumption DEF Stop, TypeOK, RunId
<1>2. Quiet
  BY <1>1 DEF TypeOK, Run, Quiet, Same
<1> QED
  BY <1>2 DEF Stop, TypeOK

LEMMA SubscribeEffect ==
  ASSUME TypeOK, NEW c \in Client, Subscribe(c)
  PROVE  /\ Quiet /\ current \in RunId
         /\ client' \in [Client -> Stream] /\ client'[c] = NewStream(current)
         /\ \A d \in Client : d # c => client'[d] = client[d]
<1>1. /\ current \in RunId /\ current \in 0 .. MaxRuns
      /\ run' = [run EXCEPT ![current].evicting = FALSE]
  BY AgentRunsAssumption DEF Subscribe, TypeOK, RunId
<1>2. client' = [client EXCEPT ![c] = NewStream(current)]
  BY DEF Subscribe
<1> QED
  BY <1>1, <1>2, TimerOf, NewStreamType, StreamWith

LEMMA EvictEffect ==
  ASSUME TypeOK, NEW i \in RunId, Evict(i)
  PROVE  Quiet /\ started' = started /\ current' \in 0 .. started /\ client' = client
<1>1. Quiet
  BY TimerOf DEF Evict
<1> QED
  BY <1>1 DEF Evict, TypeOK

LEMMA PreviousType == ASSUME NEW i \in 0 .. MaxRuns PROVE Previous(i) \in {0, i}
  BY DEF Previous

\* What the steps of _drain do to the runs.
LEMMA SettledEffect ==
  ASSUME NEW r \in Run, NEW how \in {"done", "error", "stopped"}
  PROVE  /\ Settled(r, how) \in Run
         /\ Settled(r, how).phase = "ended" /\ Settled(r, how).status # "running"
         /\ Settled(r, how).previous = r.previous
         /\ Settled(r, how).length = IF how = "error" THEN r.length + 2 ELSE r.length
<1> DEFINE n == IF how = "error" THEN r.length + 2 ELSE r.length
<1>1. n \in Nat
  BY DEF Run
<1>2. Settled(r, how) = [r EXCEPT !.phase = "ended", !.status = how, !.length = n]
  BY DEF Settled
<1> HIDE DEF n
<1>3. /\ Settled(r, how) \in Run
      /\ Settled(r, how).phase = "ended" /\ Settled(r, how).status = how
      /\ Settled(r, how).previous = r.previous /\ Settled(r, how).length = n
  BY <1>1, <1>2 DEF Run, Phase, Status
<1> QED
  BY <1>3 DEF n

LEMMA FinishEffect ==
  ASSUME TypeOK, NEW i \in RunId, Finish(i)
  PROVE  \E how \in {"done", "error", "stopped"} :
           /\ run' \in [RunId -> Run]
           /\ Same(Settled(run[i], how), run'[i])
           /\ \A j \in RunId : j # i => Same(run[j], run'[j])
           /\ client' = Put(i, IF how = "error"
                                 THEN <<run[i].length + 1, run[i].length + 2, End>>
                                 ELSE <<End>>)
<1>1. PICK how \in {"done", "error", "stopped"} :
        /\ run' = ScheduleEvict([run EXCEPT ![i] = Settled(@, how)])
        /\ client' = Put(i, IF how = "error"
                              THEN <<run[i].length + 1, run[i].length + 2, End>>
                              ELSE <<End>>)
  BY DEF Finish
<1> DEFINE rs == [run EXCEPT ![i] = Settled(run[i], how)]
<1>2. Settled(run[i], how) \in Run
  BY SettledEffect DEF TypeOK
<1>3. /\ rs \in [RunId -> Run] /\ rs[i] = Settled(run[i], how)
      /\ \A j \in RunId : j # i => rs[j] = run[j]
  BY <1>2 DEF TypeOK
<1>4. run' = ScheduleEvict(rs)
  BY <1>1
<1> HIDE DEF rs
<1>5. run' \in [RunId -> Run] /\ \A j \in RunId : Same(rs[j], run'[j])
  BY <1>3, <1>4, Timers
<1>6. Same(Settled(run[i], how), run'[i]) /\ \A j \in RunId : j # i => Same(run[j], run'[j])
  BY Zenon, <1>3, <1>5
<1> QED
  BY <1>1, <1>5, <1>6

\* The first run, a later run, and what becomes of the one before it.
LEMMA StartEffect ==
  ASSUME TypeOK, Start
  PROVE  /\ started + 1 \in RunId /\ started' = started + 1 /\ current' = started + 1
         /\ run' \in [RunId -> Run] /\ client' = client
         /\ run'[started + 1] = NewRun(Previous(current))
         /\ \A i \in RunId : i # started + 1 => Same(run[i], run'[i])
<1> USE AgentRunsAssumption
<1>1. started + 1 \in RunId /\ started' = started + 1 /\ current' = started + 1 /\ client' = client
  <2>1. started < MaxRuns /\ started' = started + 1 /\ current' = started' /\ client' = client
    BY Zenon DEF Start
  <2> QED
    BY <2>1 DEF TypeOK, RunId
<1>2. current \in 0 .. MaxRuns /\ Previous(current) \in 0 .. MaxRuns
  BY PreviousType DEF TypeOK
<1>3. NewRun(Previous(current)) \in Run
  BY <1>2, NewRunType
<1>4. \A i \in RunId :
        run'[i] = IF i = started + 1 THEN NewRun(Previous(current))
                  ELSE IF i = current
                    THEN [run[i] EXCEPT !.cancelled = @ \/ ~Done(i), !.evicting = FALSE]
                    ELSE run[i]
  BY <1>1 DEF Start
<1>5. run' = [i \in RunId |-> run'[i]]
  BY DEF Start
<1>6. \A i \in RunId : run[i] \in Run
  BY DEF TypeOK
<1>7. \A i \in RunId :
        LET q == [run[i] EXCEPT !.cancelled = @ \/ ~Done(i), !.evicting = FALSE]
        IN  q \in Run /\ Same(run[i], q)
  <2> TAKE i \in RunId
  <2>1. (run[i].cancelled \/ ~Done(i)) \in BOOLEAN
    OBVIOUS
  <2> QED
    BY <1>6, <2>1 DEF Run, Same
<1>8. \A i \in RunId : run'[i] \in Run /\ (i # started + 1 => Same(run[i], run'[i]))
  BY <1>3, <1>4, <1>6, <1>7 DEF Same
<1> QED
  BY <1>1, <1>4, <1>5, <1>8

-----------------------------------------------------------------------------
(* Steps by what they do to the runs: none, one advances, one is started.  *)

Draining == {"pulling", "unwinding", "ended"}

\* One run goes on; a wait is over before it drains.
Advances(i) ==
  /\ run' \in [RunId -> Run]
  /\ run[i].phase \notin {"unborn", "ended", "aborted"} /\ run'[i].phase # "unborn"
  /\ run'[i].previous = run[i].previous
  /\ (run[i].status = "running" => (run'[i].status # "running" <=> run'[i].phase = "ended"))
  /\ run'[i].phase \in Draining =>
       \/ run[i].phase \in Draining
       \/ run[i].previous = 0 \/ Done(run[i].previous)
  /\ \A j \in RunId : j # i => Same(run[j], run'[j])

SubscribersKept ==
  \A c \in Client : client'[c].phase = client[c].phase /\ client'[c].run = client[c].run

LEMMA RunWith ==
  ASSUME TypeOK, NEW i \in RunId, NEW r \in Run, run' = [run EXCEPT ![i] = r]
  PROVE  /\ run' \in [RunId -> Run] /\ run'[i] = r
         /\ \A j \in RunId : j # i => Same(run[j], run'[j])
  BY DEF TypeOK, Same

LEMMA RunPhase ==
  ASSUME TypeOK, NEW i \in RunId, NEW p \in Phase, run' = [run EXCEPT ![i].phase = p]
  PROVE  /\ run' \in [RunId -> Run] /\ run'[i].phase = p
         /\ run'[i].previous = run[i].previous /\ run'[i].status = run[i].status
         /\ run'[i].length = run[i].length
         /\ \A j \in RunId : j # i => Same(run[j], run'[j])
<1>1. run[i] \in Run
  BY DEF TypeOK
<1> DEFINE r == [run[i] EXCEPT !.phase = p]
<1>2. /\ r \in Run /\ r.phase = p /\ r.previous = run[i].previous
      /\ r.status = run[i].status /\ r.length = run[i].length
  BY <1>1 DEF Run
<1>3. run' = [run EXCEPT ![i] = r]
  OBVIOUS
<1> HIDE DEF r
<1> QED
  BY <1>2, <1>3, RunWith

LEMMA DrainAdvances ==
  ASSUME TypeOK, NEW i \in RunId, Drain(i)
  PROVE  Advances(i) /\ run'[i].length = run[i].length /\ run'[i].phase # "ended"
<1>1. CASE Begin(i)
  <2> DEFINE p == IF run[i].cancelled THEN "aborted"
                  ELSE IF run[i].previous # 0 /\ ~Done(run[i].previous) THEN "waiting"
                  ELSE "pulling"
  <2>1. p \in Phase /\ run' = [run EXCEPT ![i].phase = p] /\ run[i].phase = "created"
    BY <1>1 DEF Begin, Phase
  <2>2. p \notin {"unborn", "ended"}
        /\ (p \in Draining => run[i].previous = 0 \/ Done(run[i].previous))
    BY DEF Draining
  <2> HIDE DEF p
  <2> QED
    BY <2>1, <2>2, RunPhase DEF Advances
<1>2. CASE Proceed(i)
  <2>1. CASE run' = [run EXCEPT ![i].phase = "aborted"]
    <3>1. "aborted" \in Phase /\ run[i].phase = "waiting"
      BY <1>2 DEF Proceed, Phase
    <3> QED
      BY <2>1, <3>1, RunPhase DEF Advances, Draining
  <2>2. CASE run' = [run EXCEPT ![i].phase = "pulling"] /\ Done(run[i].previous)
    <3>1. "pulling" \in Phase /\ run[i].phase = "waiting"
      BY <1>2 DEF Proceed, Phase
    <3> QED
      BY <2>2, <3>1, RunPhase DEF Advances
  <2> QED
    BY <1>2, <2>1, <2>2 DEF Proceed
<1>3. CASE Interrupt(i)
  <2>1. /\ "unwinding" \in Phase /\ run[i].phase = "pulling"
        /\ run' = [run EXCEPT ![i].phase = "unwinding"]
    BY <1>3 DEF Interrupt, Phase
  <2> QED
    BY <2>1, RunPhase DEF Advances, Draining
<1> QED
  BY <1>1, <1>2, <1>3 DEF Drain

LEMMA EmitAdvances ==
  ASSUME TypeOK, NEW i \in RunId, Emit(i)
  PROVE  /\ Advances(i) /\ run'[i].length = run[i].length + 1
         /\ run[i].phase = "pulling" /\ run'[i].phase = "pulling"
<1>1. run[i] \in Run /\ run[i].phase = "pulling"
  BY DEF TypeOK, Emit
<1> DEFINE r == [run[i] EXCEPT !.length = run[i].length + 1]
<1>2. /\ r \in Run /\ r.phase = "pulling" /\ r.previous = run[i].previous
      /\ r.status = run[i].status /\ r.length = run[i].length + 1
  BY <1>1 DEF Run
<1>3. run' = [run EXCEPT ![i] = r]
  BY DEF Emit
<1> HIDE DEF r
<1> QED
  BY <1>1, <1>2, <1>3, RunWith DEF Advances, Draining

LEMMA FinishAdvances ==
  ASSUME TypeOK, NEW i \in RunId, Finish(i)
  PROVE  Advances(i) /\ run'[i].phase = "ended" /\ run[i].phase \in {"pulling", "unwinding"}
<1>1. run[i] \in Run /\ run[i].phase \in {"pulling", "unwinding"}
  BY DEF TypeOK, Finish
<1>2. PICK how \in {"done", "error", "stopped"} :
        /\ run' \in [RunId -> Run] /\ Same(Settled(run[i], how), run'[i])
        /\ \A j \in RunId : j # i => Same(run[j], run'[j])
  BY FinishEffect
<1>3. /\ run'[i].phase = "ended" /\ run'[i].status # "running"
      /\ run'[i].previous = run[i].previous
  BY <1>1, <1>2, SettledEffect DEF Same
<1> QED
  BY <1>1, <1>2, <1>3 DEF Advances, Draining

LEMMA PutKeeps ==
  ASSUME TypeOK, NEW i, NEW items \in Seq(Nat), client' = Put(i, items)
  PROVE  client' \in [Client -> Stream] /\ SubscribersKept
<1>1. \A c \in Client : client[c] \in Stream
  BY DEF TypeOK
<1>2. /\ client' \in [Client -> Stream]
      /\ \A c \in Client :
           \/ client'[c] = [client[c] EXCEPT !.queue = client[c].queue \o items]
           \/ client'[c] = client[c]
  BY PutEffect
<1> QED
  BY <1>1, <1>2 DEF SubscribersKept, Stream

LEMMA EmitPuts ==
  ASSUME TypeOK, NEW i \in RunId, Emit(i)
  PROVE  client' \in [Client -> Stream] /\ SubscribersKept
<1>1. run[i].length \in Nat
  BY DEF TypeOK, Run
<1>2. client' = Put(i, <<run[i].length + 1>>)
  BY DEF Emit
<1> QED
  BY <1>1, <1>2, FinishItems, PutKeeps

LEMMA FinishPuts ==
  ASSUME TypeOK, NEW i \in RunId, Finish(i)
  PROVE  client' \in [Client -> Stream] /\ SubscribersKept
<1>1. run[i].length \in Nat
  BY DEF TypeOK, Run
<1>2. \/ client' = Put(i, <<run[i].length + 1, run[i].length + 2, End>>)
      \/ client' = Put(i, <<End>>)
  BY DEF Finish
<1> QED
  BY <1>1, <1>2, FinishItems, PutKeeps

\* Every step keeps the types.
LEMMA TypeStep == TypeOK /\ [Next]_vars => TypeOK'
<1> SUFFICES ASSUME TypeOK, [Next]_vars PROVE TypeOK'
  OBVIOUS
<1>1. CASE Start
  <2>1. started + 1 \in 0 .. MaxRuns /\ started + 1 \in 0 .. started + 1
    BY <1>1, StartEffect DEF TypeOK, RunId
  <2> QED
    BY <1>1, <2>1, StartEffect DEF TypeOK
<1>2. CASE Stop
  BY <1>2, StopEffect, KeepTypes DEF Quiet
<1>3. ASSUME NEW c \in Client, Subscribe(c) PROVE TypeOK'
  BY <1>3, SubscribeEffect, KeepTypes DEF Quiet, Subscribe
<1>4. ASSUME NEW c \in Client, Serve(c) PROVE TypeOK'
  BY <1>4, ServeMoves, KeepTypes DEF Quiet
<1>5. ASSUME NEW c \in Client, Disconnect(c) PROVE TypeOK'
  BY <1>5, ServeMoves, KeepTypes DEF Quiet
<1>6. ASSUME NEW i \in RunId, Drain(i) PROVE TypeOK'
  <2>1. UNCHANGED <<current, started, client>>
    BY <1>6 DEF Drain, Begin, Proceed, Interrupt
  <2>2. client' \in [Client -> Stream]
    BY <2>1 DEF TypeOK
  <2> QED
    BY <1>6, <2>1, <2>2, DrainAdvances, KeepTypes DEF Advances
<1>7. ASSUME NEW i \in RunId, Emit(i) PROVE TypeOK'
  BY <1>7, EmitAdvances, EmitPuts, KeepTypes DEF Advances, Emit
<1>8. ASSUME NEW i \in RunId, Finish(i) PROVE TypeOK'
  BY <1>8, FinishAdvances, FinishPuts, KeepTypes DEF Advances, Finish
<1>9. ASSUME NEW i \in RunId, Evict(i) PROVE TypeOK'
  BY <1>9, EvictEffect DEF Quiet, TypeOK, Evict
<1>10. CASE UNCHANGED vars
  BY <1>10 DEF vars, TypeOK
<1> QED
  BY <1>1, <1>2, <1>3, <1>4, <1>5, <1>6, <1>7, <1>8, <1>9, <1>10 DEF Next

-----------------------------------------------------------------------------
(* One run drains at a time                                                *)

\* The runs are started in order, each knows the one before it, and a run is
\* dropped only when it is over and nobody watches it.
InvRuns ==
  /\ current \in {0, started}
  /\ \A i \in RunId : run[i].phase = "unborn" <=> i > started
  /\ \A i \in RunId : run[i].status # "running" <=> run[i].phase = "ended"
  /\ \A i \in RunId : i <= started =>
       /\ run[i].previous \in {0, i - 1}
       /\ run[i].previous = 0 /\ i > 1 => Done(i - 1)
  /\ \A c \in Client : client[c].phase \in Watching => client[c].run \in 1 .. started
  /\ LastIsReachable

\* A run that drains has nothing before it that is not over.
InvOrder ==
  ~Aborted => \A i, j \in RunId :
    i < j /\ run[j].phase \in Draining => run[i].phase = "ended"

LEMMA QuietDone == ASSUME Quiet, NEW i \in RunId PROVE Done(i)' <=> Done(i)
  BY DEF Quiet, Same, Done

LEMMA AdvanceDone ==
  ASSUME NEW i \in RunId, Advances(i), NEW j \in RunId, Done(j) PROVE Done(j)'
  BY DEF Advances, Same, Done

LEMMA KeptSubscribers == ASSUME SubscribersKept, NEW i PROVE Subscribers(i)' = Subscribers(i)
  BY DEF SubscribersKept, Subscribers

\* A stream that only moves on, or ends, adds no subscriber.
LEMMA MovedSubscribers ==
  ASSUME \A c \in Client :
           /\ client'[c].run = client[c].run
           /\ client'[c].phase \in Watching => client[c].phase \in Watching,
         NEW i
  PROVE  Subscribers(i)' \subseteq Subscribers(i)
  BY DEF Subscribers

\* The runs and the streams as a quiet step leaves them.
LEMMA QuietRuns ==
  ASSUME TypeOK, InvRuns, Quiet, UNCHANGED <<current, started>>,
         \A c \in Client :
           /\ client'[c].run = client[c].run
           /\ client'[c].phase \in Watching => client[c].phase \in Watching
  PROVE  InvRuns'
<1>1. started \in 0 .. MaxRuns
  BY DEF TypeOK
<1>2. \A i \in RunId : i <= started =>
        /\ run'[i].previous \in {0, i - 1}
        /\ run'[i].previous = 0 /\ i > 1 => Done(i - 1)'
  <2> SUFFICES ASSUME NEW i \in RunId, i <= started
               PROVE  /\ run'[i].previous \in {0, i - 1}
                      /\ run'[i].previous = 0 /\ i > 1 => Done(i - 1)'
    OBVIOUS
  <2>1. i > 1 => i - 1 \in RunId
    BY AgentRunsAssumption DEF RunId
  <2> QED
    BY <2>1, QuietDone DEF InvRuns, Quiet, Same
<1>3. LastIsReachable'
  <2> SUFFICES ASSUME started # 0, ~Done(started)' \/ Subscribers(started)' # {}
               PROVE  current = started
    BY DEF LastIsReachable
  <2>1. started \in RunId
    BY <1>1, AgentRunsAssumption DEF RunId
  <2>2. ~Done(started) \/ Subscribers(started) # {}
    BY <2>1, QuietDone, MovedSubscribers
  <2> QED
    BY <2>2 DEF InvRuns, LastIsReachable
<1> QED
  BY <1>1, <1>2, <1>3 DEF InvRuns, Quiet, Same

LEMMA QuietOrder == ASSUME InvOrder, Quiet PROVE InvOrder'
  BY DEF InvOrder, Aborted, Quiet, Same

LEMMA AdvanceRuns ==
  ASSUME TypeOK, InvRuns, NEW i \in RunId, Advances(i), SubscribersKept,
         UNCHANGED <<current, started>>
  PROVE  InvRuns'
<1>1. started \in 0 .. MaxRuns
  BY DEF TypeOK
<1>2. \A j \in RunId : j <= started =>
        /\ run'[j].previous \in {0, j - 1}
        /\ run'[j].previous = 0 /\ j > 1 => Done(j - 1)'
  <2> SUFFICES ASSUME NEW j \in RunId, j <= started
               PROVE  /\ run'[j].previous \in {0, j - 1}
                      /\ run'[j].previous = 0 /\ j > 1 => Done(j - 1)'
    OBVIOUS
  <2>1. j > 1 => j - 1 \in RunId
    BY AgentRunsAssumption DEF RunId
  <2>2. run'[j].previous = run[j].previous
    BY DEF Advances, Same
  <2> QED
    BY <2>1, <2>2, AdvanceDone DEF InvRuns
<1>3. LastIsReachable'
  <2> SUFFICES ASSUME started # 0, ~Done(started)' \/ Subscribers(started)' # {}
               PROVE  current = started
    BY DEF LastIsReachable
  <2>1. started \in RunId
    BY <1>1, AgentRunsAssumption DEF RunId
  <2>2. ~Done(started) \/ Subscribers(started) # {}
    BY <2>1, AdvanceDone, KeptSubscribers
  <2> QED
    BY <2>2 DEF InvRuns, LastIsReachable
<1>4. \A j \in RunId : run'[j].phase = "unborn" <=> j > started
  BY DEF Advances, InvRuns, Same
<1>5. \A j \in RunId : run'[j].status # "running" <=> run'[j].phase = "ended"
  BY DEF Advances, InvRuns, Same
<1> QED
  BY <1>1, <1>2, <1>3, <1>4, <1>5 DEF InvRuns, SubscribersKept

LEMMA AdvanceOrder ==
  ASSUME TypeOK, InvRuns, InvOrder, NEW i \in RunId, Advances(i)
  PROVE  InvOrder'
<1> SUFFICES ASSUME ~Aborted', NEW k \in RunId, NEW j \in RunId,
                    k < j, run'[j].phase \in Draining
             PROVE  run'[k].phase = "ended"
  BY DEF InvOrder
<1>1. ~Aborted
  BY DEF Aborted, Advances, Same
<1>2. \A m \in RunId : run[m].phase = "ended" => run'[m].phase = "ended"
  BY DEF Advances, Same
<1>3. CASE run[j].phase \in Draining
  BY <1>1, <1>2, <1>3 DEF InvOrder
<1>4. CASE run[j].phase \notin Draining
  <2>1. j = i /\ (run[j].previous = 0 \/ Done(run[j].previous))
    BY <1>4 DEF Advances, Same
  <2>2. started \in 0 .. MaxRuns /\ j <= started
    BY <2>1 DEF TypeOK, InvRuns, Advances, RunId
  <2>3. j - 1 \in RunId /\ j > 1 /\ k <= j - 1
    BY AgentRunsAssumption DEF RunId
  <2>4. Done(j - 1)
    BY <2>1, <2>2, <2>3 DEF InvRuns
  <2>5. run[j - 1].phase = "ended"
    BY <1>1, <2>3, <2>4 DEF Done, Aborted
  <2>6. run[k].phase = "ended"
    <3>1. CASE k = j - 1
      BY <2>5, <3>1
    <3>2. CASE k < j - 1
      BY <1>1, <2>3, <2>5, <3>2 DEF InvOrder, Draining
    <3> QED
      BY <2>3, <3>1, <3>2 DEF RunId
  <2> QED
    BY <1>2, <2>6
<1> QED
  BY <1>3, <1>4

LEMMA StartRuns ==
  ASSUME TypeOK, InvRuns, InvOrder, Start
  PROVE  InvRuns' /\ InvOrder'
<1> DEFINE n == started + 1
<1>1. /\ n \in RunId /\ started' = n /\ current' = n /\ client' = client
      /\ run'[n] = NewRun(Previous(current))
      /\ \A i \in RunId : i # n => Same(run[i], run'[i])
  BY StartEffect
<1>2. /\ run'[n].phase = "created" /\ run'[n].status = "running"
      /\ run'[n].previous = Previous(current)
  BY <1>1 DEF NewRun
<1>3. started \in 0 .. MaxRuns /\ n = started + 1
  BY DEF TypeOK
<1>4. run[n].phase = "unborn"
  BY <1>1, <1>3 DEF InvRuns
<1> HIDE DEF n
<1>5. \A i \in RunId : i # n => (Done(i)' <=> Done(i))
  BY <1>1 DEF Same, Done
<1>6. Previous(current) \in {0, started}
      /\ (Previous(current) = 0 /\ started # 0 => Done(started))
  BY <1>3, PreviousType DEF InvRuns, LastIsReachable, Previous, TypeOK
<1>7. \A i \in RunId : i <= n =>
        /\ run'[i].previous \in {0, i - 1}
        /\ run'[i].previous = 0 /\ i > 1 => Done(i - 1)'
  <2> SUFFICES ASSUME NEW i \in RunId, i <= n
               PROVE  /\ run'[i].previous \in {0, i - 1}
                      /\ run'[i].previous = 0 /\ i > 1 => Done(i - 1)'
    OBVIOUS
  <2>1. i > 1 => i - 1 \in RunId /\ i - 1 # n
    BY <1>3, AgentRunsAssumption DEF RunId
  <2>2. CASE i = n
    BY <1>2, <1>3, <1>5, <1>6, <2>1, <2>2 DEF RunId
  <2>3. CASE i # n
    <3>1. i <= started /\ run'[i].previous = run[i].previous
      BY <1>1, <1>3, <2>3 DEF Same, RunId
    <3> QED
      BY <1>5, <2>1, <3>1 DEF InvRuns
  <2> QED
    BY <2>2, <2>3
<1>8. \A i \in RunId : run'[i].phase = "unborn" <=> i > n
  BY <1>1, <1>2, <1>3 DEF InvRuns, Same, RunId
<1>9. \A i \in RunId : run'[i].status # "running" <=> run'[i].phase = "ended"
  BY <1>1, <1>2 DEF InvRuns, Same
<1>10. \A c \in Client : client'[c].phase \in Watching => client'[c].run \in 1 .. n
  BY <1>1, <1>3 DEF InvRuns
<1>11. LastIsReachable'
  BY <1>1 DEF LastIsReachable
<1>12. InvOrder'
  <2> SUFFICES ASSUME ~Aborted', NEW k \in RunId, NEW j \in RunId,
                      k < j, run'[j].phase \in Draining
               PROVE  run'[k].phase = "ended"
    BY DEF InvOrder
  <2>1. j # n /\ run[j].phase \in Draining
    BY <1>1, <1>2 DEF Draining, Same
  <2>2. ~Aborted
    BY <1>1, <1>4 DEF Aborted, Same
  <2>3. run[k].phase = "ended"
    BY <2>1, <2>2 DEF InvOrder
  <2> QED
    BY <1>1, <1>4, <2>3 DEF Same
<1> QED
  BY <1>1, <1>7, <1>8, <1>9, <1>10, <1>11, <1>12 DEF InvRuns

LEMMA SubscribeRuns ==
  ASSUME TypeOK, InvRuns, NEW c \in Client, Subscribe(c)
  PROVE  InvRuns'
<1>1. /\ Quiet /\ UNCHANGED <<current, started>> /\ current = started /\ current \in RunId
      /\ client'[c] = NewStream(current) /\ \A d \in Client : d # c => client'[d] = client[d]
  BY SubscribeEffect DEF Subscribe, InvRuns
<1>2. client'[c].run = started /\ started \in 1 .. started
  BY <1>1 DEF NewStream, RunId
<1>3. \A i \in RunId : i <= started =>
        /\ run'[i].previous \in {0, i - 1}
        /\ run'[i].previous = 0 /\ i > 1 => Done(i - 1)'
  <2> SUFFICES ASSUME NEW i \in RunId, i <= started
               PROVE  /\ run'[i].previous \in {0, i - 1}
                      /\ run'[i].previous = 0 /\ i > 1 => Done(i - 1)'
    OBVIOUS
  <2>1. i > 1 => i - 1 \in RunId
    BY AgentRunsAssumption DEF RunId
  <2> QED
    BY <1>1, <2>1, QuietDone DEF InvRuns, Quiet, Same
<1> QED
  BY <1>1, <1>2, <1>3 DEF InvRuns, Quiet, Same, LastIsReachable

LEMMA EvictRuns ==
  ASSUME TypeOK, InvRuns, NEW i \in RunId, Evict(i)
  PROVE  InvRuns'
<1>1. Quiet /\ started' = started /\ client' = client
  BY EvictEffect
<1>2. current' = current \/ (current' = 0 /\ Evictable(i))
  BY DEF Evict
<1>3. SubscribersKept
  BY <1>1 DEF SubscribersKept
<1>4. \A j \in RunId : j <= started =>
        /\ run'[j].previous \in {0, j - 1}
        /\ run'[j].previous = 0 /\ j > 1 => Done(j - 1)'
  <2> SUFFICES ASSUME NEW j \in RunId, j <= started
               PROVE  /\ run'[j].previous \in {0, j - 1}
                      /\ run'[j].previous = 0 /\ j > 1 => Done(j - 1)'
    OBVIOUS
  <2>1. j > 1 => j - 1 \in RunId
    BY AgentRunsAssumption DEF RunId
  <2> QED
    BY <1>1, <2>1, QuietDone DEF InvRuns, Quiet, Same
<1>5. LastIsReachable'
  <2> SUFFICES ASSUME started # 0, ~Done(started)' \/ Subscribers(started)' # {}
               PROVE  current' = started
    BY <1>1 DEF LastIsReachable
  <2>1. started \in RunId
    BY AgentRunsAssumption DEF TypeOK, RunId
  <2>2. ~Done(started) \/ Subscribers(started) # {}
    BY <1>1, <1>3, <2>1, QuietDone, KeptSubscribers
  <2>3. current = started
    BY <2>2 DEF InvRuns, LastIsReachable
  <2>4. ~Evictable(i)
    <3> SUFFICES ASSUME Evictable(i) PROVE FALSE
      OBVIOUS
    <3>1. i = started /\ Done(started) /\ Subscribers(started) = {}
      BY <2>1, <2>3 DEF Evictable, InvRuns, Done
    <3> QED
      BY <2>2, <3>1
  <2> QED
    BY <1>2, <2>3, <2>4
<1> QED
  BY <1>1, <1>2, <1>4, <1>5 DEF InvRuns, Quiet, Same

\* Every step keeps the two invariants of the runs.
LEMMA RunsStep ==
  TypeOK /\ InvRuns /\ InvOrder /\ [Next]_vars => InvRuns' /\ InvOrder'
<1> SUFFICES ASSUME TypeOK, InvRuns, InvOrder, [Next]_vars PROVE InvRuns' /\ InvOrder'
  OBVIOUS
<1>1. CASE Start
  BY <1>1, StartRuns
<1>2. CASE Stop
  BY <1>2, StopEffect, QuietRuns, QuietOrder
<1>3. ASSUME NEW c \in Client, Subscribe(c) PROVE InvRuns' /\ InvOrder'
  BY <1>3, SubscribeEffect, SubscribeRuns, QuietOrder
<1>4. ASSUME NEW c \in Client, Serve(c) \/ Disconnect(c) PROVE InvRuns' /\ InvOrder'
  <2>1. /\ Quiet /\ UNCHANGED <<current, started>>
        /\ \A d \in Client :
             /\ client'[d].run = client[d].run
             /\ client'[d].phase \in Watching => client[d].phase \in Watching
    BY <1>4, ServeMoves
  <2> QED
    BY <2>1, QuietRuns, QuietOrder
<1>5. ASSUME NEW i \in RunId, Drain(i) PROVE InvRuns' /\ InvOrder'
  <2>1. UNCHANGED <<current, started, client>>
    BY <1>5 DEF Drain, Begin, Proceed, Interrupt
  <2>2. SubscribersKept
    BY <2>1 DEF SubscribersKept
  <2> QED
    BY <1>5, <2>1, <2>2, DrainAdvances, AdvanceRuns, AdvanceOrder
<1>6. ASSUME NEW i \in RunId, Emit(i) PROVE InvRuns' /\ InvOrder'
  BY <1>6, EmitAdvances, EmitPuts, AdvanceRuns, AdvanceOrder DEF Emit
<1>7. ASSUME NEW i \in RunId, Finish(i) PROVE InvRuns' /\ InvOrder'
  BY <1>7, FinishAdvances, FinishPuts, AdvanceRuns, AdvanceOrder DEF Finish
<1>8. ASSUME NEW i \in RunId, Evict(i) PROVE InvRuns' /\ InvOrder'
  BY <1>8, EvictEffect, EvictRuns, QuietOrder
<1>9. CASE UNCHANGED vars
  BY <1>9, Unchanged, QuietRuns, QuietOrder DEF vars
<1> QED
  BY <1>1, <1>2, <1>3, <1>4, <1>5, <1>6, <1>7, <1>8, <1>9 DEF Next

LEMMA InitRuns == Init => InvRuns /\ InvOrder
<1> SUFFICES ASSUME Init PROVE InvRuns /\ InvOrder
  OBVIOUS
<1>1. \A i \in RunId : run[i].phase = "unborn" /\ run[i].status = "running"
  BY DEF Init, NewRun
<1>2. \A c \in Client : client[c].phase = "away"
  BY DEF Init, NewStream
<1> QED
  BY <1>1, <1>2 DEF Init, InvRuns, InvOrder, Draining, RunId, Watching, LastIsReachable

-----------------------------------------------------------------------------
(* A stream is faithful to its run                                         *)

\* The queue of a watching browser holds the last n events of the run, then
\* the sentinel if the run has put it there; live, nothing is missing between
\* what was received and what is queued.
Pending(s, r) ==
  \E n \in 0 .. r.length :
    /\ Len(s.queue) \in {n, n + 1}
    /\ \A k \in 1 .. n : s.queue[k] = r.length - n + k
    /\ Len(s.queue) = n + 1 => s.queue[n + 1] = End /\ r.phase = "ended"
    /\ s.phase = "live" => r.length - n <= s.next

Counted(s) == s.received = [k \in 1 .. s.next |-> k]

StreamOK(s, r) ==
  /\ s.next <= r.length
  /\ s.phase \in Watching => Pending(s, r)
  /\ s.phase = "flushing" => r.phase = "ended"

InvStreams ==
  \A c \in Client :
    /\ Counted(client[c]) /\ client[c].run <= started
    /\ client[c].run # 0 => StreamOK(client[c], run[client[c].run])

LEMMA CountedNext ==
  ASSUME NEW s \in Stream, Counted(s) PROVE Counted(Receive(s, s.next + 1))
<1> DEFINE q == Append(s.received, s.next + 1)
<1>1. /\ s.received \in Seq(Nat) /\ s.next \in Nat /\ s.next + 1 \in Nat
      /\ s.received = [k \in 1 .. s.next |-> k]
  BY DEF Stream, Counted
<1>2. Len(s.received) = s.next
  BY <1>1, LenProperties
<1>3. /\ q \in Seq(Nat) /\ Len(q) = s.next + 1 /\ q[s.next + 1] = s.next + 1
      /\ \A k \in 1 .. s.next : q[k] = k
  BY <1>1, <1>2, AppendProperties
<1>4. q = [k \in 1 .. s.next + 1 |-> q[k]]
  BY <1>3, LenProperties
<1>5. \A k \in 1 .. s.next + 1 : q[k] = k
  BY <1>1, <1>3
<1>6. q = [k \in 1 .. s.next + 1 |-> k]
  BY <1>4, <1>5
<1>7. Receive(s, s.next + 1).received = q /\ Receive(s, s.next + 1).next = s.next + 1
  BY DEF Receive, Stream
<1> QED
  BY <1>6, <1>7 DEF Counted

\* A run that does not publish leaves the streams as they were.
LEMMA KeptOK ==
  ASSUME NEW s \in Stream, NEW r \in Run, NEW q \in Run, StreamOK(s, r),
         q.length = r.length, r.phase = "ended" => q.phase = "ended"
  PROVE  StreamOK(s, q)
<1>1. Pending(s, r) => Pending(s, q)
  BY DEF Pending, Run, Stream
<1> QED
  BY <1>1 DEF StreamOK

LEMMA ReceivedOK ==
  ASSUME NEW s \in Stream, NEW r \in Run, StreamOK(s, r), s.next < r.length, s.phase # "live"
  PROVE  StreamOK(Receive(s, s.next + 1), r)
<1> DEFINE t == Receive(s, s.next + 1)
<1>1. t.phase = s.phase /\ t.queue = s.queue /\ t.next = s.next + 1
  BY DEF Receive, Stream
<1> HIDE DEF t
<1>2. Pending(s, r) => Pending(t, r)
  BY <1>1 DEF Pending
<1>3. t.next <= r.length
  BY <1>1 DEF Stream, Run
<1>4. StreamOK(t, r)
  BY <1>1, <1>2, <1>3 DEF StreamOK
<1> QED
  BY <1>4 DEF t

\* The replay has sent everything the buffer holds.
LEMMA LiveOK ==
  ASSUME NEW s \in Stream, NEW r \in Run, StreamOK(s, r), s.phase = "replaying",
         s.next = r.length
  PROVE  StreamOK([s EXCEPT !.phase = "live"], r)
<1> DEFINE t == [s EXCEPT !.phase = "live"]
<1>1. t.phase = "live" /\ t.queue = s.queue /\ t.next = s.next
  BY DEF Stream
<1> HIDE DEF t
<1>2. Pending(s, r)
  BY DEF StreamOK, Watching
<1>3. \A n \in 0 .. r.length : r.length - n <= s.next
  BY DEF Run
<1>4. Pending(t, r)
  BY <1>1, <1>2, <1>3 DEF Pending
<1>5. StreamOK(t, r)
  BY <1>1, <1>4 DEF StreamOK
<1> QED
  BY <1>5 DEF t

\* A stream that has ended, or been left.
LEMMA LeftOK ==
  ASSUME NEW s \in Stream, NEW r \in Run, StreamOK(s, r), NEW p \in {"away", "closed"}
  PROVE  StreamOK([s EXCEPT !.phase = p], r)
<1> DEFINE t == [s EXCEPT !.phase = p]
<1>1. t.phase = p /\ t.next = s.next
  BY DEF Stream
<1> HIDE DEF t
<1>2. StreamOK(t, r)
  BY <1>1 DEF StreamOK, Watching
<1> QED
  BY <1>2 DEF t

LEMMA FlushingOK ==
  ASSUME NEW s \in Stream, NEW r \in Run, StreamOK(s, r), s.queue = << >>, s.phase = "live",
         r.phase = "ended"
  PROVE  StreamOK([s EXCEPT !.phase = "flushing"], r)
<1> DEFINE t == [s EXCEPT !.phase = "flushing"]
<1>1. t.phase = "flushing" /\ t.queue = s.queue /\ t.next = s.next
  BY DEF Stream
<1> HIDE DEF t
<1>2. Pending(t, r)
  BY <1>1 DEF StreamOK, Pending, Watching
<1>3. StreamOK(t, r)
  BY <1>1, <1>2 DEF StreamOK
<1> QED
  BY <1>3 DEF t

LEMMA PendingBy ==
  ASSUME NEW s \in Stream, NEW r \in Run, NEW n \in 0 .. r.length,
         Len(s.queue) \in {n, n + 1},
         \A k \in 1 .. n : s.queue[k] = r.length - n + k,
         Len(s.queue) = n + 1 => s.queue[n + 1] = End /\ r.phase = "ended",
         s.phase = "live" => r.length - n <= s.next
  PROVE  Pending(s, r)
  BY DEF Pending

LEMMA TailFacts ==
  ASSUME NEW q \in Seq(Nat), q # << >>
  PROVE  /\ Tail(q) \in Seq(Nat) /\ Len(q) \in Nat /\ Len(q) > 0 /\ Len(Tail(q)) = Len(q) - 1
         /\ Head(q) = q[1] /\ \A k \in 1 .. Len(q) - 1 : Tail(q)[k] = q[k + 1]
  BY HeadTailProperties, LenProperties, EmptySeq

\* The head of a queue is its next event or, when there is none, the sentinel.
LEMMA PoppedPending ==
  ASSUME NEW s \in Stream, NEW r \in Run, NEW t \in Stream, Pending(s, r), s.queue # << >>,
         s.phase = "live", s.next <= r.length, t.queue = Tail(s.queue)
  PROVE  /\ Head(s.queue) # End =>
              /\ Head(s.queue) <= r.length /\ Head(s.queue) <= s.next + 1
              /\ t.next >= Head(s.queue) => Pending(t, r)
         /\ Head(s.queue) = End =>
              /\ r.phase = "ended"
              /\ t.phase = "flushing" => Pending(t, r)
<1>1. PICK n \in 0 .. r.length :
        /\ Len(s.queue) \in {n, n + 1}
        /\ \A k \in 1 .. n : s.queue[k] = r.length - n + k
        /\ Len(s.queue) = n + 1 => s.queue[n + 1] = End /\ r.phase = "ended"
        /\ s.phase = "live" => r.length - n <= s.next
  BY DEF Pending
<1>2. r.length \in Nat /\ n \in Nat /\ n <= r.length /\ s.next \in Nat /\ t.next \in Nat /\ r.length - n <= s.next
  BY <1>1 DEF Run, Stream
<1>3. s.queue \in Seq(Nat)
  BY DEF Stream
<1>4. /\ Len(s.queue) \in Nat /\ Len(s.queue) > 0 /\ Len(t.queue) = Len(s.queue) - 1
      /\ Head(s.queue) = s.queue[1]
      /\ \A k \in 1 .. Len(s.queue) - 1 : t.queue[k] = s.queue[k + 1]
  BY <1>3, TailFacts
<1>5. CASE n = 0
  <2>1. Len(s.queue) = 1 /\ Head(s.queue) = End /\ r.phase = "ended" /\ Len(t.queue) = 0
    BY <1>1, <1>4, <1>5
  <2>2. t.phase = "flushing" => Pending(t, r)
    <3> SUFFICES ASSUME t.phase = "flushing" PROVE Pending(t, r)
      OBVIOUS
    <3>1. 0 \in 0 .. r.length
      BY <1>2
    <3>2. Len(t.queue) \in {0, 0 + 1} /\ Len(t.queue) # 0 + 1
      <4>1. 0 + 1 = 1 /\ 0 # 1
        OBVIOUS
      <4> QED
        BY Zenon, <2>1, <4>1
    <3>3. \A k \in 1 .. 0 : t.queue[k] = r.length - 0 + k
      <4>1. \A k \in 1 .. 0 : FALSE
        OBVIOUS
      <4> QED
        BY Zenon, <4>1
    <3> QED
      BY Zenon, <2>1, <3>1, <3>2, <3>3, PendingBy
  <2> QED
    BY <2>1, <2>2
<1>6. CASE n > 0
  <2>1. Head(s.queue) = r.length - n + 1 /\ Head(s.queue) # End
    BY <1>1, <1>2, <1>4, <1>6 DEF End
  <2>2. \A k \in 1 .. n - 1 : t.queue[k] = r.length - (n - 1) + k
    <3> TAKE k \in 1 .. n - 1
    <3>1. k + 1 \in 1 .. n /\ k \in 1 .. Len(s.queue) - 1
      BY <1>1, <1>2, <1>4, <1>6
    <3>2. t.queue[k] = s.queue[k + 1] /\ s.queue[k + 1] = r.length - n + (k + 1)
      BY <1>1, <1>4, <3>1
    <3>3. r.length - n + (k + 1) = r.length - (n - 1) + k
      BY <1>2, <3>1
    <3> QED
      BY <3>2, <3>3
  <2>3. Len(t.queue) = n => t.queue[n] = End /\ r.phase = "ended"
    <3> SUFFICES ASSUME Len(t.queue) = n PROVE t.queue[n] = End /\ r.phase = "ended"
      OBVIOUS
    <3>1. Len(s.queue) = n + 1 /\ n \in 1 .. Len(s.queue) - 1
      BY <1>2, <1>4, <1>6
    <3>2. t.queue[n] = s.queue[n + 1]
      BY <1>4, <3>1
    <3> QED
      BY <1>1, <3>1, <3>2
  <2>4. n - 1 \in 0 .. r.length /\ Len(t.queue) \in {n - 1, n}
    BY <1>1, <1>2, <1>4, <1>6
  <2>5. t.next >= Head(s.queue) => Pending(t, r)
    <3> SUFFICES ASSUME t.next >= Head(s.queue) PROVE Pending(t, r)
      OBVIOUS
    <3>1. r.length - (n - 1) <= t.next
      BY <1>2, <2>1
    <3>2. n = (n - 1) + 1
      BY <1>2
    <3> DEFINE m == n - 1
    <3>3. /\ m \in 0 .. r.length /\ Len(t.queue) \in {m, m + 1} /\ r.length - m <= t.next
          /\ \A k \in 1 .. m : t.queue[k] = r.length - m + k
          /\ Len(t.queue) = m + 1 => t.queue[m + 1] = End /\ r.phase = "ended"
      BY <2>2, <2>3, <2>4, <3>1, <3>2
    <3> HIDE DEF m
    <3> QED
      BY Zenon, <3>3, PendingBy
  <2>6. Head(s.queue) <= r.length /\ Head(s.queue) <= s.next + 1
    BY <1>2, <1>6, <2>1
  <2> QED
    BY <2>1, <2>5, <2>6
<1> QED
  BY <1>2, <1>5, <1>6

\* A run that is not over has no sentinel out: a queue is its last n events.
LEMMA PendingOpen ==
  ASSUME NEW s \in Stream, NEW r \in Run, Pending(s, r), r.phase # "ended"
  PROVE  LET n == Len(s.queue) IN
         /\ n \in 0 .. r.length /\ \A k \in 1 .. n : s.queue[k] = r.length - n + k
         /\ s.phase = "live" => r.length - n <= s.next
<1>1. PICK n \in 0 .. r.length :
        /\ Len(s.queue) \in {n, n + 1}
        /\ \A k \in 1 .. n : s.queue[k] = r.length - n + k
        /\ Len(s.queue) = n + 1 => s.queue[n + 1] = End /\ r.phase = "ended"
        /\ s.phase = "live" => r.length - n <= s.next
  BY DEF Pending
<1>2. Len(s.queue) = n
  BY <1>1
<1> QED
  BY <1>1, <1>2

\* Items are put at the end of the queue: m further events, perhaps the
\* sentinel.
LEMMA PutPending ==
  ASSUME NEW s \in Stream, NEW r \in Run, NEW t \in Stream, NEW q \in Run,
         Pending(s, r), r.phase # "ended", NEW items \in Seq(Nat), NEW m \in Nat,
         t.queue = s.queue \o items, t.phase = s.phase, t.next = s.next,
         q.length = r.length + m, Len(items) \in {m, m + 1},
         \A k \in 1 .. m : items[k] = r.length + k,
         Len(items) = m + 1 => items[m + 1] = End /\ q.phase = "ended"
  PROVE  Pending(t, q)
<1> DEFINE n == Len(s.queue)
<1>1. /\ n \in 0 .. r.length /\ \A k \in 1 .. n : s.queue[k] = r.length - n + k
      /\ s.phase = "live" => r.length - n <= s.next
  BY PendingOpen
<1>2. /\ n \in Nat /\ r.length \in Nat /\ q.length \in Nat /\ s.next \in Nat
      /\ s.queue \in Seq(Nat) /\ Len(items) \in Nat
  BY LenProperties DEF Stream, Run
<1>3. /\ Len(t.queue) = n + Len(items)
      /\ \A k \in 1 .. n + Len(items) :
           t.queue[k] = IF k <= n THEN s.queue[k] ELSE items[k - n]
  BY <1>2, ConcatProperties
<1> HIDE DEF n
<1>4. n + m \in 0 .. q.length
  BY <1>1, <1>2
<1>5. Len(t.queue) \in {n + m, (n + m) + 1}
  <2>1. CASE Len(items) = m
    BY <1>3, <2>1
  <2>2. CASE Len(items) = m + 1
    <3>1. n + (m + 1) = (n + m) + 1
      BY <1>2
    <3> QED
      BY Zenon, <1>3, <2>2, <3>1
  <2> QED
    BY <2>1, <2>2
<1>6. \A k \in 1 .. n + m : t.queue[k] = q.length - (n + m) + k
  <2> TAKE k \in 1 .. n + m
  <2>1. k \in 1 .. n + Len(items)
    BY <1>2
  <2>2. CASE k <= n
    <3>1. t.queue[k] = s.queue[k] /\ s.queue[k] = r.length - n + k
      BY <1>1, <1>2, <1>3, <2>1, <2>2
    <3>2. r.length - n + k = q.length - (n + m) + k
      BY <1>2
    <3> QED
      BY <3>1, <3>2
  <2>3. CASE ~(k <= n)
    <3>1. k - n \in 1 .. m
      BY <1>2, <2>3
    <3>2. t.queue[k] = items[k - n] /\ items[k - n] = r.length + (k - n)
      BY <1>3, <2>1, <2>3, <3>1
    <3>3. r.length + (k - n) = q.length - (n + m) + k
      BY <1>2
    <3> QED
      BY <3>2, <3>3
  <2> QED
    BY <2>2, <2>3
<1>7. Len(t.queue) = (n + m) + 1 => t.queue[(n + m) + 1] = End /\ q.phase = "ended"
  <2> SUFFICES ASSUME Len(t.queue) = (n + m) + 1
               PROVE  t.queue[(n + m) + 1] = End /\ q.phase = "ended"
    OBVIOUS
  <2>1. Len(items) = m + 1 /\ (n + m) + 1 \in 1 .. n + Len(items)
        /\ ~((n + m) + 1 <= n) /\ ((n + m) + 1) - n = m + 1
    BY <1>2, <1>3
  <2>2. t.queue[(n + m) + 1] = items[m + 1]
    BY <1>3, <2>1
  <2> QED
    BY <2>1, <2>2
<1>8. t.phase = "live" => q.length - (n + m) <= t.next
  <2>1. q.length - (n + m) = r.length - n
    BY <1>2
  <2> QED
    BY <1>1, <2>1
<1> QED
  BY Zenon, <1>4, <1>5, <1>6, <1>7, <1>8, PendingBy

LEMMA FinishItemsAt ==
  ASSUME NEW n \in Nat
  PROVE  /\ Len(<<n + 1>>) = 1 /\ <<n + 1>>[1] = n + 1
         /\ Len(<<End>>) = 0 + 1 /\ <<End>>[0 + 1] = End
         /\ Len(<<n + 1, n + 2, End>>) = 2 + 1 /\ <<n + 1, n + 2, End>>[2 + 1] = End
         /\ <<n + 1, n + 2, End>>[1] = n + 1 /\ <<n + 1, n + 2, End>>[2] = n + 2
  OBVIOUS

\* A stream that is not put anything, in a step in which no run publishes to
\* it and none goes back.
LEMMA SameStream ==
  ASSUME TypeOK, TypeOK', NEW c \in Client, client'[c] = client[c],
         Counted(client[c]), client[c].run <= started, started <= started',
         client[c].run # 0 =>
           /\ StreamOK(client[c], run[client[c].run])
           /\ run'[client[c].run].length = run[client[c].run].length
           /\ run[client[c].run].phase = "ended" => run'[client[c].run].phase = "ended"
  PROVE  /\ Counted(client'[c]) /\ client'[c].run <= started'
         /\ client'[c].run # 0 => StreamOK(client'[c], run'[client'[c].run])
<1>1. client[c] \in Stream /\ started \in Nat /\ started' \in Nat /\ client[c].run \in 0 .. MaxRuns
  BY AgentRunsAssumption DEF TypeOK, Stream
<1>2. client[c].run # 0 => run[client[c].run] \in Run /\ run'[client[c].run] \in Run
  BY <1>1, AgentRunsAssumption DEF TypeOK, RunId
<1>3. client[c].run # 0 => StreamOK(client[c], run'[client[c].run])
  BY <1>1, <1>2, KeptOK
<1>4. client[c].run <= started'
  BY <1>1
<1> QED
  BY <1>3, <1>4

\* A quiet step in which at most the stream of c moves.
LEMMA MovedStreams ==
  ASSUME TypeOK, TypeOK', InvStreams, Quiet, started' = started, NEW c \in Client,
         \A d \in Client : d # c => client'[d] = client[d],
         /\ Counted(client'[c]) /\ client'[c].run <= started
         /\ client'[c].run # 0 => StreamOK(client'[c], run[client'[c].run])
  PROVE  InvStreams'
<1>1. ASSUME NEW d \in Client, client[d].run # 0
      PROVE  /\ run'[client[d].run].length = run[client[d].run].length
             /\ run'[client[d].run].phase = run[client[d].run].phase
  <2>1. client[d] \in Stream
    BY DEF TypeOK
  <2>2. client[d].run \in RunId
    BY <1>1, <2>1, AgentRunsAssumption DEF Stream, RunId
  <2> QED
    BY <2>2 DEF Quiet, Same
<1>2. \A d \in Client : d # c =>
        /\ Counted(client'[d]) /\ client'[d].run <= started'
        /\ client'[d].run # 0 => StreamOK(client'[d], run'[client'[d].run])
  <2> TAKE d \in Client
  <2> HAVE d # c
  <2>1. started <= started'
    BY AgentRunsAssumption DEF TypeOK
  <2> QED
    BY <1>1, <2>1, SameStream DEF InvStreams
<1>3. client'[c].run # 0 => StreamOK(client'[c], run'[client'[c].run])
  <2> SUFFICES ASSUME client'[c].run # 0 PROVE StreamOK(client'[c], run'[client'[c].run])
    OBVIOUS
  <2>1. client'[c] \in Stream /\ client'[c].run \in RunId
    BY AgentRunsAssumption DEF TypeOK, Stream, RunId
  <2>2. /\ run[client'[c].run] \in Run /\ run'[client'[c].run] \in Run
        /\ Same(run[client'[c].run], run'[client'[c].run])
    BY <2>1 DEF TypeOK, Quiet
  <2> QED
    BY <2>1, <2>2, KeptOK DEF Same
<1> QED
  BY <1>2, <1>3 DEF InvStreams

\* Nobody's stream moves.
LEMMA StillStreams ==
  ASSUME TypeOK, TypeOK', InvStreams, client' = client, started <= started',
         \A i \in RunId : i <= started =>
           /\ run'[i].length = run[i].length
           /\ run[i].phase = "ended" => run'[i].phase = "ended"
  PROVE  InvStreams'
<1> SUFFICES ASSUME NEW c \in Client
             PROVE  /\ Counted(client'[c]) /\ client'[c].run <= started'
                    /\ client'[c].run # 0 => StreamOK(client'[c], run'[client'[c].run])
  BY DEF InvStreams
<1>1. client[c].run # 0 => client[c].run \in RunId /\ client[c].run <= started
  BY AgentRunsAssumption DEF TypeOK, Stream, RunId, InvStreams
<1> QED
  BY <1>1, SameStream DEF InvStreams

LEMMA ServeStreams ==
  ASSUME TypeOK, TypeOK', InvRuns, InvStreams, NEW c \in Client, Serve(c) \/ Disconnect(c)
  PROVE  InvStreams'
<1> DEFINE s == client[c]
           r == run[s.run]
<1>1. /\ s \in Stream /\ s.phase \in Watching /\ s.run \in RunId /\ r \in Run
      /\ s.run # 0 /\ s.run <= started
  BY ServeMoves, AgentRunsAssumption DEF InvRuns, TypeOK, RunId, Stream
<1>2. Counted(s) /\ StreamOK(s, r) /\ s.next <= r.length
  BY <1>1 DEF InvStreams, StreamOK
<1>3. r.status # "running" <=> r.phase = "ended"
  BY <1>1 DEF InvRuns
<1>4. /\ Quiet /\ started' = started /\ \A d \in Client : d # c => client'[d] = client[d]
      /\ client'[c].run = s.run
  BY ServeMoves
<1>5. SUFFICES Counted(client'[c]) /\ StreamOK(client'[c], r)
  BY <1>1, <1>4, MovedStreams
<1>6. ASSUME s.next < r.length, s.phase # "live", client'[c] = Receive(s, s.next + 1)
      PROVE  Counted(client'[c]) /\ StreamOK(client'[c], r)
  BY <1>1, <1>2, <1>6, CountedNext, ReceivedOK
<1>7. ASSUME NEW p \in {"away", "closed"}, client'[c] = [s EXCEPT !.phase = p]
      PROVE  Counted(client'[c]) /\ StreamOK(client'[c], r)
  <2>1. Counted(client'[c])
    BY <1>1, <1>2, <1>7 DEF Counted, Stream
  <2>2. StreamOK([s EXCEPT !.phase = p], r)
    <3> HIDE DEF s, r
    <3> QED
      BY <1>1, <1>2, LeftOK
  <2> QED
    BY <1>7, <2>1, <2>2
<1>8. CASE Replay(c)
  <2>1. s.phase = "replaying"
    BY <1>8 DEF Replay
  <2>2. CASE s.next = r.length /\ client'[c] = [s EXCEPT !.phase = "live"]
    <3>1. Counted(client'[c])
      BY <1>1, <1>2, <2>2 DEF Counted, Stream
    <3> QED
      BY <1>1, <1>2, <2>1, <2>2, <3>1, LiveOK
  <2> QED
    BY <1>6, <1>7, <1>8, <2>1, <2>2, ReplayEffect DEF Moves
<1>9. CASE Flush(c)
  BY <1>6, <1>7, <1>9, FlushEffect DEF Moves
<1>10. CASE Disconnect(c)
  BY <1>7, <1>10, DisconnectEffect DEF Moves
<1>11. CASE Live(c)
  <2> DEFINE h == Head(s.queue)
             rest == [s EXCEPT !.queue = Tail(s.queue)]
  <2>1. s.phase = "live" /\ Pending(s, r)
    BY <1>2, <1>11, LiveEffect DEF StreamOK, Watching
  <2>2. CASE s.queue = << >>
    <3>1. client'[c] = [s EXCEPT !.phase = "flushing"] /\ r.phase = "ended"
      BY <1>3, <1>11, <2>2, LiveEffect DEF Moves
    <3>2. Counted(client'[c])
      BY <1>1, <1>2, <3>1 DEF Counted, Stream
    <3> QED
      BY <1>1, <1>2, <2>1, <2>2, <3>1, <3>2, FlushingOK
  <2>3. CASE s.queue # << >>
    <3>1. s.queue \in Seq(Nat) /\ Tail(s.queue) \in Seq(Nat) /\ h \in Nat /\ s.next \in Nat
      BY <1>1, <2>3, HeadTailProperties DEF Stream
    <3>2. /\ rest \in Stream /\ rest.queue = Tail(s.queue) /\ rest.next = s.next
          /\ rest.phase = "live" /\ rest.received = s.received
      BY <1>1, <2>1, <3>1 DEF Stream
    <3>3. Counted(rest)
      BY <1>2, <3>2 DEF Counted
    <3> HIDE DEF rest, h
    <3>4. ASSUME h # End, h > s.next, client'[c] = Receive(rest, h)
          PROVE  Counted(client'[c]) /\ StreamOK(client'[c], r)
      <4> DEFINE t == Receive(rest, h)
      <4>1. /\ t \in Stream /\ t.queue = Tail(s.queue) /\ t.next = h /\ t.phase = "live"
        BY <3>1, <3>2, ReceiveType DEF Receive, Stream
      <4> HIDE DEF t
      <4>2. h <= r.length /\ h <= s.next + 1 /\ (t.next >= h => Pending(t, r))
        BY <1>1, <1>2, <2>1, <2>3, <3>4, <4>1, PoppedPending DEF h
      <4>3. h = rest.next + 1
        BY <3>1, <3>2, <3>4, <4>2
      <4>4. Counted(t)
        BY <3>2, <3>3, <4>3, CountedNext DEF t
      <4>5. StreamOK(t, r)
        BY <3>1, <4>1, <4>2 DEF StreamOK
      <4> QED
        BY <3>4, <4>4, <4>5 DEF t
    <3>5. ASSUME h # End, ~(h > s.next), client'[c] = rest
          PROVE  Counted(client'[c]) /\ StreamOK(client'[c], r)
      <4>1. rest.next >= h
        BY <3>1, <3>2, <3>5
      <4>2. Pending(rest, r)
        BY <1>1, <1>2, <2>1, <2>3, <3>2, <3>5, <4>1, PoppedPending DEF h
      <4>3. StreamOK(rest, r)
        BY <1>2, <3>2, <4>2 DEF StreamOK
      <4> QED
        BY <3>3, <3>5, <4>3
    <3>6. ASSUME h = End, client'[c] = [rest EXCEPT !.phase = "flushing"]
          PROVE  Counted(client'[c]) /\ StreamOK(client'[c], r)
      <4> DEFINE t == [rest EXCEPT !.phase = "flushing"]
      <4>1. /\ t \in Stream /\ t.queue = Tail(s.queue) /\ t.next = s.next
            /\ t.phase = "flushing" /\ t.received = rest.received /\ rest.next = s.next
        BY <3>2, PhaseType DEF Stream, Watching
      <4> HIDE DEF t
      <4>2. r.phase = "ended" /\ Pending(t, r)
        BY <1>1, <1>2, <2>1, <2>3, <3>6, <4>1, PoppedPending DEF h
      <4>3. Counted(t) /\ StreamOK(t, r)
        BY <1>2, <3>3, <4>1, <4>2 DEF StreamOK, Counted
      <4> QED
        BY <3>6, <4>3 DEF t
    <3>7. \/ h # End /\ h > s.next /\ client'[c] = Receive(rest, h)
          \/ h # End /\ ~(h > s.next) /\ client'[c] = rest
          \/ h = End /\ client'[c] = [rest EXCEPT !.phase = "flushing"]
      BY <1>11, <2>3, LiveEffect DEF Moves, rest, h
    <3> QED
      BY <3>4, <3>5, <3>6, <3>7
  <2> QED
    BY <2>2, <2>3
<1> QED
  BY <1>8, <1>9, <1>10, <1>11 DEF Serve

\* A run publishes m further events, and the sentinel when it is over.
LEMMA PublishStreams ==
  ASSUME TypeOK, TypeOK', InvStreams, NEW i \in RunId, NEW items \in Seq(Nat), NEW m \in Nat,
         client' = Put(i, items), started' = started,
         \A j \in RunId : j # i => Same(run[j], run'[j]),
         run[i].phase # "ended", run'[i].length = run[i].length + m,
         Len(items) \in {m, m + 1}, \A k \in 1 .. m : items[k] = run[i].length + k,
         Len(items) = m + 1 => items[m + 1] = End /\ run'[i].phase = "ended"
  PROVE  InvStreams'
<1> SUFFICES ASSUME NEW c \in Client
             PROVE  /\ Counted(client'[c]) /\ client'[c].run <= started'
                    /\ client'[c].run # 0 => StreamOK(client'[c], run'[client'[c].run])
  BY DEF InvStreams
<1> DEFINE s == client[c]
           t == client'[c]
<1>1. /\ s \in Stream /\ t \in Stream /\ s.next \in Nat
      /\ run[i] \in Run /\ run'[i] \in Run /\ run[i].length \in Nat /\ i # 0
  <2>1. s \in Stream /\ t \in Stream
    BY DEF TypeOK
  <2>2. run[i] \in Run /\ run'[i] \in Run
    BY DEF TypeOK
  <2> HIDE DEF s, t
  <2> QED
    BY <2>1, <2>2, AgentRunsAssumption DEF Stream, Run, RunId
<1>2. Counted(s) /\ s.run <= started /\ (s.run # 0 => StreamOK(s, run[s.run]))
  BY DEF InvStreams
<1>3. /\ c \in Subscribers(i) => t = [s EXCEPT !.queue = s.queue \o items]
      /\ c \notin Subscribers(i) => t = s
  BY PutEffect
<1>4. CASE c \in Subscribers(i)
  <2>1. /\ t.queue = s.queue \o items /\ t.phase = s.phase /\ t.next = s.next
        /\ t.received = s.received /\ t.run = s.run
    <3>1. s \in Stream /\ t = [s EXCEPT !.queue = s.queue \o items]
      BY <1>1, <1>3, <1>4
    <3> HIDE DEF s, t
    <3> QED
      BY <3>1 DEF Stream
  <2>2. s.run = i /\ s.phase \in Watching
    BY <1>4 DEF Subscribers
  <2> HIDE DEF s, t
  <2>3. /\ StreamOK(s, run[i]) /\ Pending(s, run[i]) /\ s.next <= run[i].length
        /\ s.phase # "flushing"
    <3>1. i # 0 /\ StreamOK(s, run[i])
      BY <1>1, <1>2, <2>2
    <3> QED
      BY <1>1, <2>2, <3>1 DEF StreamOK
  <2>4. Pending(t, run'[i])
    <3>1. /\ s \in Stream /\ run[i] \in Run /\ t \in Stream /\ run'[i] \in Run
          /\ Pending(s, run[i]) /\ t.queue = s.queue \o items
          /\ t.phase = s.phase /\ t.next = s.next
      BY <1>1, <2>1, <2>3
    <3> QED
      BY Zenon, <3>1, PutPending
  <2>5. t.next <= run'[i].length
    BY <1>1, <2>1, <2>3
  <2>6. Counted(t) /\ StreamOK(t, run'[i])
    BY <1>2, <2>1, <2>3, <2>4, <2>5 DEF StreamOK, Counted
  <2>7. t.run = i /\ t.run <= started'
    BY <1>2, <2>1, <2>2
  <2> QED
    BY <2>6, <2>7 DEF t
<1>5. CASE c \notin Subscribers(i)
  <2>1. t = s
    BY <1>3, <1>5
  <2>2. CASE s.run = i
    <3>1. s.phase \notin Watching
      BY <1>5, <2>2 DEF Subscribers
    <3>2. s.next <= run[i].length /\ s.next <= run'[i].length
      BY <1>1, <1>2, <2>2 DEF StreamOK
    <3>3. StreamOK(s, run'[i])
      BY <3>1, <3>2 DEF StreamOK, Watching
    <3> QED
      BY <1>2, <2>1, <2>2, <3>3
  <2>3. CASE s.run # i
    <3>1. s.run # 0 => s.run \in RunId
      BY <1>1, AgentRunsAssumption DEF Stream, RunId
    <3>2. started <= started'
      BY AgentRunsAssumption DEF TypeOK
    <3> QED
      BY <1>2, <2>1, <2>3, <3>1, <3>2, SameStream DEF Same
  <2> QED
    BY <2>2, <2>3
<1> QED
  BY <1>4, <1>5

LEMMA SubscribeStreams ==
  ASSUME TypeOK, TypeOK', InvRuns, InvStreams, NEW c \in Client, Subscribe(c)
  PROVE  InvStreams'
<1>1. /\ Quiet /\ current \in RunId /\ client'[c] = NewStream(current)
      /\ \A d \in Client : d # c => client'[d] = client[d]
      /\ started' = started /\ current = started
  BY SubscribeEffect DEF Subscribe, InvRuns, RunId
<1> DEFINE t == NewStream(current)
           r == run[current]
<1>2. /\ t \in Stream /\ t.run = current /\ t.next = 0 /\ t.phase = "replaying"
      /\ t.received = << >> /\ t.queue = << >>
  BY <1>1, NewStreamType DEF NewStream, RunId
<1>3. r \in Run /\ r.length \in Nat /\ 0 \in 0 .. r.length
  BY <1>1 DEF TypeOK, Run
<1> HIDE DEF t, r
<1>4. Counted(t)
  <2>1. << >> = [k \in 1 .. 0 |-> k]
    OBVIOUS
  <2> QED
    BY <1>2, <2>1 DEF Counted
<1>5. Pending(t, r)
  <2>1. Len(t.queue) \in {0, 0 + 1} /\ Len(t.queue) # 0 + 1
    <3>1. Len(t.queue) = 0 /\ 0 # 0 + 1
      BY <1>2
    <3> QED
      BY Zenon, <3>1
  <2>2. \A k \in 1 .. 0 : t.queue[k] = r.length - 0 + k
    <3>1. \A k \in 1 .. 0 : FALSE
      OBVIOUS
    <3> QED
      BY Zenon, <3>1
  <2>3. t.phase # "live"
    BY <1>2
  <2> QED
    BY Zenon, <1>2, <1>3, <2>1, <2>2, <2>3, PendingBy
<1>6. StreamOK(t, r)
  BY <1>2, <1>3, <1>5 DEF StreamOK
<1>7. t.run <= started
  BY <1>1, <1>2 DEF TypeOK
<1> QED
  BY <1>1, <1>2, <1>4, <1>6, <1>7, MovedStreams DEF t, r

\* Every step keeps the streams faithful.
LEMMA StreamsStep ==
  TypeOK /\ TypeOK' /\ InvRuns /\ InvStreams /\ [Next]_vars => InvStreams'
<1> SUFFICES ASSUME TypeOK, TypeOK', InvRuns, InvStreams, [Next]_vars PROVE InvStreams'
  OBVIOUS
<1>0. started \in Nat /\ started <= started
  BY AgentRunsAssumption DEF TypeOK
<1>1. CASE Start
  <2>1. /\ client' = client /\ started <= started'
        /\ \A i \in RunId : i <= started => Same(run[i], run'[i])
    BY <1>0, <1>1, StartEffect DEF RunId
  <2> QED
    BY <2>1, StillStreams DEF Same
<1>2. ASSUME Quiet, client' = client, started' = started PROVE InvStreams'
  BY <1>0, <1>2, StillStreams DEF Quiet, Same
<1>3. CASE Stop
  BY <1>2, <1>3, StopEffect
<1>4. ASSUME NEW c \in Client, Subscribe(c) PROVE InvStreams'
  BY <1>4, SubscribeStreams
<1>5. ASSUME NEW c \in Client, Serve(c) \/ Disconnect(c) PROVE InvStreams'
  BY <1>5, ServeStreams
<1>6. ASSUME NEW i \in RunId, Drain(i) PROVE InvStreams'
  <2>1. client' = client /\ started' = started
    BY <1>6 DEF Drain, Begin, Proceed, Interrupt
  <2>2. \A j \in RunId :
          /\ run'[j].length = run[j].length
          /\ run[j].phase = "ended" => run'[j].phase = "ended"
    BY <1>6, DrainAdvances DEF Advances, Same
  <2> QED
    BY <1>0, <2>1, <2>2, StillStreams
<1>7. ASSUME NEW i \in RunId, Emit(i) PROVE InvStreams'
  <2>1. run[i].length \in Nat
    BY DEF TypeOK, Run
  <2> DEFINE items == <<run[i].length + 1>>
  <2>2. /\ items \in Seq(Nat) /\ Len(items) = 1 /\ items[1] = run[i].length + 1
    BY <2>1, FinishItems, FinishItemsAt
  <2>3. client' = Put(i, items) /\ started' = started
    BY <1>7 DEF Emit
  <2>4. /\ run[i].phase # "ended" /\ run'[i].length = run[i].length + 1
        /\ \A j \in RunId : j # i => Same(run[j], run'[j])
    BY <1>7, EmitAdvances DEF Advances
  <2> HIDE DEF items
  <2>5. Len(items) \in {1, 1 + 1} /\ Len(items) # 1 + 1 /\ 1 \in Nat
        /\ \A k \in 1 .. 1 : items[k] = run[i].length + k
    BY <2>1, <2>2
  <2> QED
    BY Zenon, <2>2, <2>3, <2>4, <2>5, PublishStreams
<1>8. ASSUME NEW i \in RunId, Finish(i) PROVE InvStreams'
  <2>1. run[i] \in Run /\ run[i].length \in Nat
    BY DEF TypeOK, Run
  <2>2. PICK how \in {"done", "error", "stopped"} :
          /\ Same(Settled(run[i], how), run'[i])
          /\ \A j \in RunId : j # i => Same(run[j], run'[j])
          /\ client' = Put(i, IF how = "error"
                                THEN <<run[i].length + 1, run[i].length + 2, End>>
                                ELSE <<End>>)
    BY <1>8, FinishEffect
  <2>3. run[i].phase # "ended" /\ run'[i].phase = "ended" /\ started' = started
    BY <1>8, FinishAdvances DEF Finish
  <2>4. CASE how = "error"
    <3> DEFINE items == <<run[i].length + 1, run[i].length + 2, End>>
    <3>1. client' = Put(i, items) /\ run'[i].length = run[i].length + 2
      BY <2>1, <2>2, <2>4, SettledEffect DEF Same
    <3>2. /\ items \in Seq(Nat) /\ Len(items) = 2 + 1 /\ items[2 + 1] = End
          /\ items[1] = run[i].length + 1 /\ items[2] = run[i].length + 2
      BY <2>1, FinishItems, FinishItemsAt
    <3> HIDE DEF items
    <3>3. 2 \in Nat /\ Len(items) \in {2, 2 + 1}
          /\ \A k \in 1 .. 2 : items[k] = run[i].length + k
      BY <2>1, <3>2
    <3> QED
      BY Zenon, <2>2, <2>3, <3>1, <3>2, <3>3, PublishStreams
  <2>5. CASE how # "error"
    <3> DEFINE items == <<End>>
    <3>1. client' = Put(i, items) /\ run'[i].length = run[i].length + 0
      BY <2>1, <2>2, <2>5, SettledEffect DEF Same
    <3>2. items \in Seq(Nat) /\ Len(items) = 0 + 1 /\ items[0 + 1] = End
      BY <2>1, FinishItems, FinishItemsAt
    <3> HIDE DEF items
    <3>3. 0 \in Nat /\ Len(items) \in {0, 0 + 1}
      BY Zenon, <3>2, <1>0
    <3>4. \A k \in 1 .. 0 : items[k] = run[i].length + k
      <4>1. \A k \in 1 .. 0 : FALSE
        OBVIOUS
      <4> QED
        BY Zenon, <4>1
    <3> QED
      BY Zenon, <2>2, <2>3, <3>1, <3>2, <3>3, <3>4, PublishStreams
  <2> QED
    BY <2>4, <2>5
<1>9. ASSUME NEW i \in RunId, Evict(i) PROVE InvStreams'
  BY <1>2, <1>9, EvictEffect
<1>10. CASE UNCHANGED vars
  BY <1>2, <1>10, Unchanged DEF vars
<1> QED
  BY <1>1, <1>3, <1>4, <1>5, <1>6, <1>7, <1>8, <1>9, <1>10 DEF Next

LEMMA InitStreams == Init => InvStreams
<1> SUFFICES ASSUME Init, NEW c \in Client
             PROVE  /\ Counted(client[c]) /\ client[c].run <= started
                    /\ client[c].run # 0 => StreamOK(client[c], run[client[c].run])
  BY DEF InvStreams
<1>1. client[c].run = 0 /\ client[c].next = 0 /\ client[c].received = << >> /\ started = 0
  BY DEF Init, NewStream
<1>2. << >> = [k \in 1 .. 0 |-> k]
  OBVIOUS
<1> QED
  BY <1>1, <1>2 DEF Counted

-----------------------------------------------------------------------------
(* Theorems                                                                *)

Inv == TypeOK /\ InvRuns /\ InvOrder /\ InvStreams

\* The invariant of the runs and the streams: runs are started in order and
\* drain one at a time, and each stream and its queue are what its run has
\* published.
THEOREM RunsInvariant == Spec => []Inv
<1>1. Init => Inv
  BY InitTypes, InitRuns, InitStreams DEF Inv
<1>2. Inv /\ [Next]_vars => Inv'
  BY TypeStep, RunsStep, StreamsStep DEF Inv
<1> QED
  BY <1>1, <1>2, PTL DEF Spec

\* Every variable keeps its type.
THEOREM RunsTypes == Spec => []TypeOK
  BY RunsInvariant, PTL DEF Inv

\* What a browser is sent are the events of its run, in order, each once,
\* none left out, whenever it comes and whatever is published meanwhile.
THEOREM FaithfulStreams == Spec => []Faithful
<1>1. Inv => Faithful
  BY DEF Inv, InvStreams, StreamOK, Counted, Faithful
<1> QED
  BY <1>1, RunsInvariant, PTL

\* Unless a run was aborted while it waited, no two runs of the session are
\* generating at a time.
THEOREM OneWriterAtATime == Spec => []OneWriter
<1>1. Inv => OneWriter
  <2> SUFFICES ASSUME Inv, ~Aborted, NEW i \in RunId, NEW j \in RunId,
                      Writing(i), Writing(j), i # j
               PROVE  FALSE
    BY DEF OneWriter
  <2>1. i < j \/ j < i
    BY DEF RunId
  <2> QED
    BY <2>1 DEF Inv, InvOrder, Writing, Draining
<1> QED
  BY <1>1, RunsInvariant, PTL

\* The last run is the one that can be stopped and watched, until it is over
\* and nobody watches it.
THEOREM LastStaysReachable == Spec => []LastIsReachable
<1>1. Inv => LastIsReachable
  BY DEF Inv, InvRuns
<1> QED
  BY <1>1, RunsInvariant, PTL

Whole ==
  \A c \in Client :
    client[c].phase \in Watching /\ client'[c].phase = "closed" =>
      LET r == run[client[c].run] IN
        r.phase = "ended" /\ Len(client'[c].received) = r.length

LEMMA WholeStep == Inv /\ [Next]_vars => Whole
<1> SUFFICES ASSUME Inv, [Next]_vars, NEW c \in Client,
                    client[c].phase \in Watching, client'[c].phase = "closed"
             PROVE  /\ run[client[c].run].phase = "ended"
                    /\ Len(client'[c].received) = run[client[c].run].length
  BY DEF Whole
<1> DEFINE s == client[c]
           r == run[s.run]
<1>1. TypeOK /\ s \in Stream /\ s.run \in RunId /\ s.run # 0 /\ r \in Run
  BY AgentRunsAssumption DEF Inv, TypeOK, InvRuns, RunId, Stream
<1>2. Counted(s) /\ StreamOK(s, r) /\ (r.status # "running" <=> r.phase = "ended")
  BY <1>1 DEF Inv, InvStreams, InvRuns
<1>3. ASSUME s.next = r.length, client'[c] = [s EXCEPT !.phase = "closed"]
      PROVE  Len(client'[c].received) = r.length
  <2>1. client'[c].received = s.received
    BY <1>1, <1>3 DEF Stream
  <2>2. s.received \in Seq(Nat) /\ s.next \in Nat /\ s.received = [k \in 1 .. s.next |-> k]
    BY <1>1, <1>2 DEF Stream, Counted
  <2>3. Len(s.received) = s.next
    BY <2>2, LenProperties
  <2> QED
    BY <1>3, <2>1, <2>3
<1>4. s.phase # "closed"
  BY DEF Watching
<1>5. ASSUME SubscribersKept \/ client' = client PROVE FALSE
  BY <1>4, <1>5 DEF SubscribersKept
<1>6. ASSUME NEW d \in Client, d # c, client'[c] = client[c] PROVE FALSE
  BY <1>4, <1>6
<1>7. CASE Start \/ Stop
  BY <1>5, <1>7 DEF Start, Stop
<1>8. ASSUME NEW d \in Client, Subscribe(d) PROVE FALSE
  <2>1. CASE d = c
    BY <1>1, <1>8, <2>1, SubscribeEffect DEF NewStream
  <2>2. CASE d # c
    BY <1>1, <1>6, <1>8, <2>2, SubscribeEffect
  <2> QED
    BY <2>1, <2>2
<1>9. ASSUME NEW d \in Client, Serve(d) \/ Disconnect(d), d # c PROVE FALSE
  BY <1>1, <1>6, <1>9, ServeMoves
<1>10. ASSUME Replay(c) PROVE r.phase = "ended" /\ Len(client'[c].received) = r.length
  <2>1. s.phase = "replaying"
    BY <1>10 DEF Replay
  <2>2. ASSUME client'[c] = Receive(s, s.next + 1) \/ client'[c] = [s EXCEPT !.phase = "live"]
        PROVE  FALSE
    BY <1>1, <2>1, <2>2 DEF Receive, Stream
  <2> QED
    BY <1>1, <1>2, <1>3, <1>10, <2>2, ReplayEffect DEF Moves
<1>11. ASSUME Live(c) PROVE FALSE
  <2> DEFINE rest == [s EXCEPT !.queue = Tail(s.queue)]
  <2>1. s.phase = "live" /\ Tail(s.queue) = rest.queue
    BY <1>1, <1>11 DEF Live, Stream
  <2>2. CASE client'[c] = Receive(rest, Head(s.queue))
    BY <1>1, <2>1, <2>2 DEF Receive, Stream
  <2>3. CASE client'[c] = rest
    BY <1>1, <2>1, <2>3 DEF Stream
  <2>4. CASE client'[c] = [rest EXCEPT !.phase = "flushing"]
    BY <1>1, <2>4 DEF Stream
  <2>5. CASE client'[c] = [s EXCEPT !.phase = "flushing"]
    BY <1>1, <2>5 DEF Stream
  <2> QED
    BY <1>1, <1>11, <2>2, <2>3, <2>4, <2>5, LiveEffect DEF Moves
<1>12. ASSUME Flush(c) PROVE r.phase = "ended" /\ Len(client'[c].received) = r.length
  <2>1. s.phase = "flushing" /\ r.phase = "ended"
    BY <1>2, <1>12 DEF Flush, StreamOK
  <2>2. ASSUME client'[c] = Receive(s, s.next + 1) PROVE FALSE
    BY <1>1, <2>1, <2>2 DEF Receive, Stream
  <2> QED
    BY <1>1, <1>3, <1>12, <2>1, <2>2, FlushEffect DEF Moves
<1>13. ASSUME Disconnect(c) PROVE FALSE
  BY <1>1, <1>13, DisconnectEffect DEF Moves, Stream
<1>14. ASSUME NEW i \in RunId, Drain(i) \/ Emit(i) \/ Finish(i) \/ Evict(i) PROVE FALSE
  <2>1. CASE Drain(i) \/ Evict(i)
    BY <1>5, <2>1 DEF Drain, Begin, Proceed, Interrupt, Evict
  <2>2. CASE Emit(i) \/ Finish(i)
    BY <1>1, <1>5, <2>2, EmitPuts, FinishPuts
  <2> QED
    BY <1>14, <2>1, <2>2
<1>15. CASE UNCHANGED vars
  BY <1>5, <1>15 DEF vars
<1> QED
  BY <1>7, <1>8, <1>9, <1>10, <1>11, <1>12, <1>13, <1>14, <1>15 DEF Next, Serve

\* A stream that ends by itself has sent the whole of a run that is over.
THEOREM StreamsEndWhole == Spec => EndedWhole
<1>1. Inv /\ [Next]_vars => [Whole]_vars
  BY WholeStep
<1> QED
  BY <1>1, RunsInvariant, PTL DEF Spec, EndedWhole, Whole

-----------------------------------------------------------------------------
(* Detached runs implement Broadcast                                       *)

\* A run that is still to be started has published nothing.
UnbornBlank == \A i \in RunId : run[i].phase = "unborn" => run[i].length = 0

LEMMA BlankStep == TypeOK /\ UnbornBlank /\ [Next]_vars => UnbornBlank'
<1> SUFFICES ASSUME TypeOK, UnbornBlank, [Next]_vars PROVE UnbornBlank'
  OBVIOUS
<1> USE DEF UnbornBlank
<1>1. CASE Start
  BY <1>1, StartEffect DEF Same, NewRun
<1>2. CASE Quiet
  BY <1>2 DEF Quiet, Same
<1>3. ASSUME NEW i \in RunId, Drain(i) \/ Emit(i) \/ Finish(i) PROVE UnbornBlank'
  BY <1>3, DrainAdvances, EmitAdvances, FinishAdvances DEF Advances, Same
<1>4. Stop => Quiet
  BY StopEffect
<1>5. ASSUME NEW c \in Client, Subscribe(c) \/ Serve(c) \/ Disconnect(c) PROVE Quiet
  BY <1>5, SubscribeEffect, ServeMoves
<1>6. ASSUME NEW i \in RunId, Evict(i) PROVE Quiet
  BY <1>6, EvictEffect
<1>7. UNCHANGED vars => Quiet
  BY Unchanged DEF vars
<1> QED
  BY <1>1, <1>2, <1>3, <1>4, <1>5, <1>6, <1>7 DEF Next

\* What the abstract logs and readers see of a step.
LEMMA QuietLogs == ASSUME Quiet PROVE Lengths' = Lengths /\ Ended' = Ended
  BY DEF Quiet, Same, Lengths, Ended

LEMMA LogOf ==
  ASSUME NEW i \in RunId, \A j \in RunId : j # i => Same(run[j], run'[j])
  PROVE  /\ Lengths[i] = run[i].length /\ (Ended[i] <=> run[i].phase = "ended")
         /\ Lengths' = [Lengths EXCEPT ![i] = run'[i].length]
         /\ Ended' = [Ended EXCEPT ![i] = run'[i].phase = "ended"]
  BY DEF Same, Lengths, Ended

Shows(s) == IF s.phase \in Watching THEN "reading" ELSE s.phase

LEMMA ReaderOf ==
  ASSUME NEW c \in Client, \A d \in Client : d # c => client'[d] = client[d]
  PROVE  /\ RunOf[c] = client[c].run /\ Sent[c] = client[c].received
         /\ Mode[c] = Shows(client[c])
         /\ RunOf' = [RunOf EXCEPT ![c] = client'[c].run]
         /\ Sent' = [Sent EXCEPT ![c] = client'[c].received]
         /\ Mode' = [Mode EXCEPT ![c] = Shows(client'[c])]
  BY DEF RunOf, Sent, Mode, Shows

\* Setting a value that is there already.
LEMMA SetAgain ==
  ASSUME NEW c \in Client
  PROVE  /\ [RunOf EXCEPT ![c] = RunOf[c]] = RunOf
         /\ [Sent EXCEPT ![c] = Sent[c]] = Sent
         /\ [Mode EXCEPT ![c] = Mode[c]] = Mode
  BY DEF RunOf, Sent, Mode

LEMMA StillReaders ==
  ASSUME \A c \in Client : /\ client'[c].run = client[c].run
                           /\ client'[c].received = client[c].received
                           /\ client'[c].phase = client[c].phase
  PROVE  RunOf' = RunOf /\ Sent' = Sent /\ Mode' = Mode
  BY DEF RunOf, Sent, Mode

\* What is put into the queues is not sent yet.
LEMMA PutIsUnseen ==
  ASSUME TypeOK, NEW i, NEW items \in Seq(Nat), client' = Put(i, items)
  PROVE  RunOf' = RunOf /\ Sent' = Sent /\ Mode' = Mode
<1>1. \A c \in Client : client[c] \in Stream
  BY DEF TypeOK
<1>2. \A c \in Client : /\ client'[c].run = client[c].run
                        /\ client'[c].received = client[c].received
                        /\ client'[c].phase = client[c].phase
  <2> TAKE c \in Client
  <2>1. client[c] \in Stream
    BY <1>1
  <2>2. /\ c \in Subscribers(i) =>
             client'[c] = [client[c] EXCEPT !.queue = client[c].queue \o items]
        /\ c \notin Subscribers(i) => client'[c] = client[c]
    BY Zenon, PutEffect
  <2>3. CASE c \in Subscribers(i)
    BY <2>1, <2>2, <2>3 DEF Stream
  <2>4. CASE c \notin Subscribers(i)
    BY <2>2, <2>4
  <2> QED
    BY <2>3, <2>4
<1> QED
  BY <1>2, StillReaders

avars == <<started, Lengths, Ended, RunOf, Sent, Mode>>

\* The generator's side: events and ends are the log's.
LEMMA RunMaps ==
  ASSUME Inv, NEW i \in RunId, Drain(i) \/ Emit(i) \/ Finish(i)
  PROVE  [Abstract!Next]_avars
<1> USE DEF avars
<1>1. TypeOK /\ run[i].length \in Nat
  BY DEF Inv, TypeOK, Run
<1>2. Advances(i) /\ i <= started /\ started' = started
  <2>1. Advances(i) /\ started' = started
    BY <1>1, DrainAdvances, EmitAdvances, FinishAdvances
    DEF Drain, Begin, Proceed, Interrupt, Emit, Finish
  <2> QED
    BY <1>1, <2>1 DEF Advances, Inv, InvRuns, TypeOK, RunId
<1>3. /\ Lengths[i] = run[i].length /\ (Ended[i] <=> run[i].phase = "ended")
      /\ Lengths' = [Lengths EXCEPT ![i] = run'[i].length]
      /\ Ended' = [Ended EXCEPT ![i] = run'[i].phase = "ended"]
  BY <1>2, LogOf DEF Advances
<1>4. ~Ended[i]
  BY <1>2, <1>3 DEF Advances
<1>5. CASE Drain(i)
  <2>1. run'[i].length = run[i].length /\ run'[i].phase # "ended" /\ client' = client
    BY <1>1, <1>5, DrainAdvances DEF Drain, Begin, Proceed, Interrupt
  <2>2. Lengths' = Lengths /\ Ended' = Ended
    BY <1>3, <1>4, <2>1 DEF Lengths, Ended
  <2>3. RunOf' = RunOf /\ Sent' = Sent /\ Mode' = Mode
    BY <2>1, StillReaders
  <2> QED
    BY <1>2, <2>2, <2>3
<1>6. CASE Emit(i)
  <2>1. run'[i].length = run[i].length + 1 /\ run'[i].phase # "ended"
    BY <1>1, <1>6, EmitAdvances
  <2>2. client' = Put(i, <<run[i].length + 1>>) /\ <<run[i].length + 1>> \in Seq(Nat)
    BY <1>1, <1>6, FinishItems DEF Emit
  <2>3. RunOf' = RunOf /\ Sent' = Sent /\ Mode' = Mode
    BY <1>1, <2>2, PutIsUnseen
  <2>4. Lengths' = [Lengths EXCEPT ![i] = Lengths[i] + 1]
    BY <1>3, <2>1
  <2>5. Ended' = Ended
    BY <1>3, <1>4, <2>1 DEF Ended
  <2>6. Abstract!Publish(i)
    BY <1>2, <1>4, <2>3, <2>4, <2>5 DEF Abstract!Publish
  <2> QED
    BY <2>6 DEF Abstract!Next, Abstract!Topic, RunId
<1>7. CASE Finish(i)
  <2>1. PICK how \in {"done", "error", "stopped"} :
          /\ Same(Settled(run[i], how), run'[i])
          /\ client' = Put(i, IF how = "error"
                                THEN <<run[i].length + 1, run[i].length + 2, End>>
                                ELSE <<End>>)
    BY <1>1, <1>7, FinishEffect
  <2>2. run'[i].phase = "ended" /\ run'[i].length \in {run[i].length, run[i].length + 2}
    <3>1. run[i] \in Run
      BY <1>1 DEF TypeOK
    <3> QED
      BY <2>1, <3>1, SettledEffect DEF Same
  <2>3. RunOf' = RunOf /\ Sent' = Sent /\ Mode' = Mode
    <3>1. \/ client' = Put(i, <<run[i].length + 1, run[i].length + 2, End>>)
          \/ client' = Put(i, <<End>>)
      BY <2>1
    <3> QED
      BY <1>1, <3>1, FinishItems, PutIsUnseen
  <2>4. Lengths' \in {Lengths, [Lengths EXCEPT ![i] = Lengths[i] + 2]}
    <3>1. CASE run'[i].length = run[i].length
      BY <1>3, <3>1 DEF Lengths
    <3>2. CASE run'[i].length = run[i].length + 2
      BY <1>3, <3>2
    <3> QED
      BY <2>2, <3>1, <3>2
  <2>5. Ended' = [Ended EXCEPT ![i] = TRUE]
    BY <1>3, <2>2
  <2>6. Abstract!End(i)
    BY <1>2, <1>4, <2>3, <2>4, <2>5 DEF Abstract!End
  <2> QED
    BY <2>6 DEF Abstract!Next, Abstract!Topic, RunId
<1> QED
  BY <1>5, <1>6, <1>7

\* The reader's side: an event, an end, a departure or nothing.
LEMMA ReaderMaps ==
  ASSUME Inv, NEW c \in Client, client[c].phase \in Watching,
         started' = started, Quiet, \A d \in Client : d # c => client'[d] = client[d],
         client'[c].run = client[c].run,
         \/ /\ client[c].next < run[client[c].run].length
            /\ client'[c].received = Append(client[c].received, client[c].next + 1)
            /\ client'[c].phase = client[c].phase
         \/ client'[c].received = client[c].received /\ client'[c].phase \in Watching \union {"away"}
         \/ /\ client'[c].received = client[c].received /\ client'[c].phase = "closed"
            /\ client[c].next = run[client[c].run].length
            /\ run[client[c].run].phase = "ended"
  PROVE  [Abstract!Next]_avars
<1> DEFINE s == client[c]
           q == client'[c]
           r == run[s.run]
<1> USE DEF avars
<1>1. /\ s \in Stream /\ s.received \in Seq(Nat) /\ s.next \in Nat /\ s.run \in RunId
      /\ Len(s.received) = s.next
  <2>1. s \in Stream /\ Counted(s) /\ s.run \in 1 .. started /\ started \in 0 .. MaxRuns
    BY DEF Inv, TypeOK, InvRuns, InvStreams
  <2>2. s.received \in Seq(Nat) /\ s.next \in Nat /\ s.received = [k \in 1 .. s.next |-> k]
    BY <2>1 DEF Stream, Counted
  <2>3. Len(s.received) = s.next
    BY <2>2, LenProperties
  <2> QED
    BY <2>1, <2>2, <2>3, AgentRunsAssumption DEF RunId
<1>2. /\ RunOf[c] = s.run /\ Sent[c] = s.received /\ Mode[c] = "reading"
      /\ RunOf' = [RunOf EXCEPT ![c] = q.run]
      /\ Sent' = [Sent EXCEPT ![c] = q.received]
      /\ Mode' = [Mode EXCEPT ![c] = Shows(q)]
  BY ReaderOf DEF Shows
<1>3. /\ Lengths' = Lengths /\ Ended' = Ended
      /\ Lengths[s.run] = r.length /\ (Ended[s.run] <=> r.phase = "ended")
  BY <1>1, QuietLogs DEF Lengths, Ended
<1>4. RunOf' = RunOf
  BY <1>2, SetAgain
<1>5. CASE s.next < r.length /\ q.received = Append(s.received, s.next + 1) /\ q.phase = s.phase
  <2>1. Shows(q) = "reading"
    BY <1>5 DEF Shows
  <2>2. Mode' = Mode
    BY <1>2, <2>1, SetAgain
  <2>3. Abstract!Deliver(c)
    BY <1>1, <1>2, <1>3, <1>4, <1>5, <2>2 DEF Abstract!Deliver
  <2> QED
    BY <2>3 DEF Abstract!Next
<1>6. CASE q.received = s.received /\ q.phase \in Watching \union {"away"}
  <2>1. Sent' = Sent
    BY <1>2, <1>6, SetAgain
  <2>2. CASE q.phase \in Watching
    <3>1. Mode' = Mode
      BY <1>2, <2>2, SetAgain DEF Shows
    <3> QED
      BY <1>3, <1>4, <2>1, <3>1
  <2>3. CASE q.phase = "away"
    <3>1. Mode' = [Mode EXCEPT ![c] = "away"]
      BY <1>2, <2>3 DEF Shows, Watching
    <3>2. Abstract!Leave(c)
      BY <1>2, <1>3, <1>4, <2>1, <3>1 DEF Abstract!Leave
    <3> QED
      BY <3>2 DEF Abstract!Next
  <2> QED
    BY <1>6, <2>2, <2>3
<1>7. CASE /\ q.received = s.received /\ q.phase = "closed" /\ s.next = r.length
           /\ r.phase = "ended"
  <2>1. Sent' = Sent
    BY <1>2, <1>7, SetAgain
  <2>2. Mode' = [Mode EXCEPT ![c] = "closed"]
    <3>1. Shows(q) = "closed"
      BY <1>7 DEF Shows, Watching
    <3> QED
      BY <1>2, <3>1
  <2>3. Abstract!Close(c)
    <3>1. Len(Sent[c]) = Lengths[RunOf[c]]
      BY <1>1, <1>2, <1>3, <1>7
    <3>2. Ended[RunOf[c]]
      BY <1>2, <1>3, <1>7
    <3>3. Mode[c] = "reading"
      BY <1>2
    <3> HIDE DEF s, q, r
    <3> QED
      BY <1>3, <1>4, <2>1, <2>2, <3>1, <3>2, <3>3 DEF Abstract!Close
  <2> QED
    BY <2>3 DEF Abstract!Next
<1> QED
  BY <1>5, <1>6, <1>7

\* What subscribe does, step by step.
LEMMA ServeMaps ==
  ASSUME Inv, NEW c \in Client, Serve(c) \/ Disconnect(c)
  PROVE  [Abstract!Next]_avars
<1> DEFINE s == client[c]
           q == client'[c]
           r == run[s.run]
<1>1. /\ Quiet /\ started' = started /\ s.phase \in Watching /\ q.run = s.run
      /\ \A d \in Client : d # c => client'[d] = client[d]
  BY ServeMoves DEF Inv
<1>2. /\ s \in Stream /\ s.run \in RunId /\ s.run # 0 /\ r \in Run
  <2>1. s \in Stream /\ s.run \in 1 .. started /\ started \in 0 .. MaxRuns
    BY <1>1 DEF Inv, TypeOK, InvRuns
  <2> QED
    BY <2>1, AgentRunsAssumption DEF RunId, Inv, TypeOK
<1>3. (r.status # "running" <=> r.phase = "ended") /\ StreamOK(s, r)
  BY <1>2 DEF Inv, InvRuns, InvStreams
<1> DEFINE Delivers == /\ s.next < r.length /\ q.received = Append(s.received, s.next + 1)
                       /\ q.phase = s.phase
           Stays    == q.received = s.received /\ q.phase \in Watching \union {"away"}
           Closes   == /\ q.received = s.received /\ q.phase = "closed" /\ s.next = r.length
                       /\ r.phase = "ended"
<1>4. SUFFICES Delivers \/ Stays \/ Closes
  BY <1>1, ReaderMaps
<1>5. ASSUME q = Receive(s, s.next + 1), s.next < r.length PROVE Delivers
  BY <1>2, <1>5 DEF Receive, Stream
<1>6. ASSUME NEW p \in Watching \union {"away"}, q = [s EXCEPT !.phase = p] PROVE Stays
  BY <1>2, <1>6 DEF Stream
<1>7. ASSUME q = [s EXCEPT !.phase = "closed"], s.next = r.length, r.phase = "ended" PROVE Closes
  BY <1>2, <1>7 DEF Stream
<1>8. CASE Replay(c)
  BY <1>3, <1>5, <1>6, <1>7, <1>8, ReplayEffect DEF Inv, Moves, Watching
<1>9. CASE Flush(c)
  BY <1>3, <1>5, <1>7, <1>9, FlushEffect DEF Inv, Moves, StreamOK
<1>10. CASE Disconnect(c)
  BY <1>6, <1>10, DisconnectEffect DEF Inv, Moves
<1>11. CASE Live(c)
  <2> DEFINE h == Head(s.queue)
             rest == [s EXCEPT !.queue = Tail(s.queue)]
  <2>1. s.phase = "live" /\ Pending(s, r) /\ s.next <= r.length
    BY <1>3, <1>11, LiveEffect DEF Inv, StreamOK, Watching
  <2>2. CASE s.queue = << >>
    BY <1>6, <1>11, <2>2, LiveEffect DEF Inv, Moves, Watching
  <2>3. CASE s.queue # << >>
    <3>1. s.queue \in Seq(Nat) /\ Tail(s.queue) \in Seq(Nat) /\ h \in Nat /\ s.next \in Nat
      BY <1>2, <2>3, HeadTailProperties DEF Stream
    <3>2. /\ rest \in Stream /\ rest.queue = Tail(s.queue) /\ rest.phase = "live"
          /\ rest.received = s.received
      BY <1>2, <2>1, <3>1 DEF Stream
    <3> HIDE DEF rest, h
    <3>3. CASE h # End /\ h > s.next /\ q = Receive(rest, h)
      <4>1. h <= r.length /\ h <= s.next + 1
        BY <1>2, <2>1, <2>3, <3>2, <3>3, PoppedPending DEF h
      <4>2. h = s.next + 1 /\ s.next < r.length
        BY <1>2, <3>1, <3>3, <4>1 DEF Run
      <4>3. q.received = Append(s.received, h) /\ q.phase = "live"
        BY <3>2, <3>3 DEF Receive, Stream
      <4> QED
        BY <2>1, <4>2, <4>3
    <3>4. CASE q = rest \/ q = [rest EXCEPT !.phase = "flushing"]
      BY <3>2, <3>4 DEF Stream, Watching
    <3> QED
      BY <1>11, <2>3, <3>3, <3>4, LiveEffect DEF Inv, Moves, rest, h
  <2> QED
    BY <2>2, <2>3
<1> QED
  BY <1>8, <1>9, <1>10, <1>11 DEF Serve

\* A browser joins the run that was started last.
LEMMA SubscribeMaps ==
  ASSUME Inv, NEW c \in Client, Subscribe(c)
  PROVE  [Abstract!Next]_avars
<1>1. /\ Quiet /\ current = started /\ started # 0 /\ started' = started
      /\ client'[c] = NewStream(started) /\ \A d \in Client : d # c => client'[d] = client[d]
      /\ client[c].phase \notin Watching
  BY SubscribeEffect DEF Inv, InvRuns, Subscribe, RunId
<1>2. Lengths' = Lengths /\ Ended' = Ended
  BY <1>1, QuietLogs
<1>3. /\ client[c].phase # "reading" /\ Shows(client[c]) = client[c].phase
      /\ Shows(client'[c]) = "reading" /\ client'[c].run = started /\ client'[c].received = << >>
  <2>1. client[c] \in Stream
    BY DEF Inv, TypeOK
  <2>2. client[c].phase # "reading"
    BY <1>1, <2>1 DEF Watching, Stream
  <2>3. /\ client'[c].phase = "replaying" /\ client'[c].run = started
        /\ client'[c].received = << >>
    BY <1>1 DEF NewStream
  <2> QED
    BY <1>1, <2>2, <2>3 DEF Shows, Watching
<1>4. /\ Mode[c] # "reading"
      /\ RunOf' = [RunOf EXCEPT ![c] = started] /\ Sent' = [Sent EXCEPT ![c] = << >>]
      /\ Mode' = [Mode EXCEPT ![c] = "reading"]
  <2>1. /\ Mode[c] = Shows(client[c]) /\ RunOf' = [RunOf EXCEPT ![c] = client'[c].run]
        /\ Sent' = [Sent EXCEPT ![c] = client'[c].received]
        /\ Mode' = [Mode EXCEPT ![c] = Shows(client'[c])]
    BY <1>1, ReaderOf
  <2> QED
    BY <1>3, <2>1
<1>5. Abstract!Join(c)
  BY <1>1, <1>2, <1>4 DEF Abstract!Join
<1> QED
  BY <1>5 DEF Abstract!Next

\* Every step of the runs and of the browsers.
LEMMA RunsMap == Inv /\ UnbornBlank /\ [Next]_vars => [Abstract!Next]_avars
<1> SUFFICES ASSUME Inv, UnbornBlank, [Next]_vars PROVE [Abstract!Next]_avars
  OBVIOUS
<1>1. ASSUME Quiet, client' = client, started' = started PROVE [Abstract!Next]_avars
  BY <1>1, QuietLogs, StillReaders DEF avars
<1>2. CASE Start
  <2> DEFINE n == started + 1
  <2>1. /\ n \in RunId /\ started' = n /\ client' = client /\ started < MaxRuns
        /\ run'[n] = NewRun(Previous(current))
        /\ \A i \in RunId : i # n => Same(run[i], run'[i])
    BY <1>2, StartEffect DEF Inv, Start
  <2>2. run[n].phase = "unborn" /\ run[n].length = 0
    BY <2>1 DEF Inv, InvRuns, TypeOK, UnbornBlank
  <2>3. \A i \in RunId : /\ run'[i].length = run[i].length
                         /\ run'[i].phase = "ended" <=> run[i].phase = "ended"
    BY <2>1, <2>2 DEF NewRun, Same
  <2>4. Lengths' = Lengths /\ Ended' = Ended
    BY <2>3 DEF Lengths, Ended
  <2>5. RunOf' = RunOf /\ Sent' = Sent /\ Mode' = Mode
    BY <2>1, StillReaders
  <2>6. Abstract!Open
    BY <2>1, <2>4, <2>5 DEF Abstract!Open
  <2> QED
    BY <2>6 DEF Abstract!Next
<1>3. CASE Stop
  BY <1>1, <1>3, StopEffect DEF Inv
<1>4. ASSUME NEW c \in Client, Subscribe(c) \/ Serve(c) \/ Disconnect(c)
      PROVE  [Abstract!Next]_avars
  BY <1>4, SubscribeMaps, ServeMaps
<1>5. ASSUME NEW i \in RunId, Drain(i) \/ Emit(i) \/ Finish(i) PROVE [Abstract!Next]_avars
  BY <1>5, RunMaps
<1>6. ASSUME NEW i \in RunId, Evict(i) PROVE [Abstract!Next]_avars
  BY <1>1, <1>6, EvictEffect DEF Inv
<1>7. CASE UNCHANGED vars
  BY <1>1, <1>7, Unchanged DEF vars, Inv
<1> QED
  BY <1>2, <1>3, <1>4, <1>5, <1>6, <1>7 DEF Next

\* Tasks, buffers, queues, replays and flushes together implement Broadcast.
THEOREM Implements == Spec => ImplementsBroadcast
<1>1. Init => UnbornBlank /\ Abstract!Init
  <2> SUFFICES ASSUME Init PROVE UnbornBlank /\ Abstract!Init
    OBVIOUS
  <2>1. \A i \in RunId : run[i].phase = "unborn" /\ run[i].length = 0
    BY DEF Init, NewRun
  <2>2. \A c \in Client : /\ client[c].phase = "away" /\ client[c].run = 0
                          /\ client[c].received = << >>
    BY DEF Init, NewStream
  <2>3. Lengths = [i \in RunId |-> 0]
    BY <2>1 DEF Lengths
  <2>4. Ended = [i \in RunId |-> FALSE]
    BY <2>1 DEF Ended
  <2>5. /\ RunOf = [c \in Client |-> 0] /\ Sent = [c \in Client |-> << >>]
        /\ Mode = [c \in Client |-> "away"]
    BY <2>2 DEF RunOf, Sent, Mode, Watching
  <2> QED
    BY <2>1, <2>3, <2>4, <2>5 DEF Init, UnbornBlank, Abstract!Init, Abstract!Topic, RunId
<1>2. Inv /\ UnbornBlank /\ [Next]_vars => UnbornBlank'
  BY BlankStep DEF Inv
<1>3. Inv /\ UnbornBlank /\ [Next]_vars =>
        [Abstract!Next]_<<started, Lengths, Ended, RunOf, Sent, Mode>>
  BY RunsMap DEF avars
<1> QED
  BY RunsInvariant, <1>1, <1>2, <1>3, PTL DEF Spec, Abstract!Spec, ImplementsBroadcast

=============================================================================
