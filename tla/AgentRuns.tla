------------------------------ MODULE AgentRuns ------------------------------
(***************************************************************************)
(* The detached agent runs of one chat session (src/agent_runs.py): a task *)
(* drains the generator of a reply into a replay buffer, and browsers      *)
(* subscribe to it, leave it and come back.  One process, one event loop:  *)
(* a step is what a coroutine does between two awaits, or a whole route.   *)
(*                                                                         *)
(* An event is its position in the buffer.  The generator is the chat      *)
(* stream: it yields, ends, fails, or unwinds when its task is cancelled,  *)
(* and saves the reply before it is gone.  A heartbeat changes nothing and *)
(* is not a step.                                                          *)
(***************************************************************************)
EXTENDS Naturals, Sequences

CONSTANTS
  Client,     \* browsers that watch the session
  MaxRuns,    \* bound on the messages sent
  MaxEvents   \* bound on the events of a run, its error aside

ASSUME AgentRunsAssumption == MaxRuns \in Nat /\ MaxEvents \in Nat

VARIABLES
  current,   \* _RUNS[session_id]; 0 when there is none
  started,   \* runs started so far
  run,       \* every run ever started
  client     \* the subscribe() generator of each browser

vars == <<current, started, run, client>>

RunId == 1 .. MaxRuns
End   == 0                \* the sentinel; events count from 1

\* created: the task has not had its first step; aborted: it was cancelled
\* before _drain came to its try block; pulling and unwinding: its generator
\* is live, in the latter with a CancelledError thrown into it.
Phase  == {"unborn", "created", "waiting", "pulling", "unwinding", "ended", "aborted"}
Status == {"running", "done", "error", "stopped"}

Run == [phase : Phase, status : Status, previous : 0 .. MaxRuns,
        cancelled : BOOLEAN, length : Nat, evicting : BOOLEAN]

Watching == {"replaying", "live", "flushing"}
Stream == [phase : Watching \union {"away", "closed"}, run : 0 .. MaxRuns,
           next : Nat, received : Seq(Nat), queue : Seq(Nat)]

TypeOK ==
  /\ current \in 0 .. started /\ started \in 0 .. MaxRuns
  /\ run \in [RunId -> Run]
  /\ client \in [Client -> Stream]

NewRun(previous) ==
  [phase |-> "created", status |-> "running", previous |-> previous,
   cancelled |-> FALSE, length |-> 0, evicting |-> FALSE]

NewStream(i) ==
  [phase |-> "replaying", run |-> i, next |-> 0, received |-> << >>, queue |-> << >>]

Init ==
  /\ current = 0 /\ started = 0
  /\ run = [i \in RunId |-> [NewRun(0) EXCEPT !.phase = "unborn"]]
  /\ client = [c \in Client |-> [NewStream(0) EXCEPT !.phase = "away"]]

Done(i)        == run[i].phase \in {"ended", "aborted"}     \* task.done()
Subscribers(i) == {c \in Client : client[c].phase \in Watching /\ client[c].run = i}

\* Queue.put_nowait to every subscriber of the run.
Put(i, items) ==
  [c \in Client |-> IF c \in Subscribers(i)
                      THEN [client[c] EXCEPT !.queue = @ \o items] ELSE client[c]]

\* _schedule_evict goes by the session: the timer is that of the run which is
\* current now, with the runs as they are in rs.
ScheduleEvict(rs) ==
  IF current = 0 THEN rs ELSE [rs EXCEPT ![current].evicting = TRUE]

-----------------------------------------------------------------------------
(* The routes *)

\* Mutant: the new run does not wait.
PreviousNever(i) == 0

\* The task a new run has to wait for.
Previous(i) == IF i # 0 /\ ~Done(i) THEN i ELSE 0

\* start: the run in flight is cancelled and replaced.
Start ==
  /\ started < MaxRuns
  /\ started' = started + 1 /\ current' = started'
  /\ run' = [i \in RunId |->
       IF i = started' THEN NewRun(Previous(current))
       ELSE IF i = current
         THEN [run[i] EXCEPT !.cancelled = @ \/ ~Done(i), !.evicting = FALSE]
         ELSE run[i]]
  /\ UNCHANGED client

Stop ==
  /\ current # 0 /\ ~Done(current)
  /\ run' = [run EXCEPT ![current].cancelled = TRUE]
  /\ UNCHANGED <<current, started, client>>

\* subscribe begins: registered before it replays, so that nothing is missed.
Subscribe(c) ==
  /\ client[c].phase \notin Watching /\ current # 0
  /\ client' = [client EXCEPT ![c] = NewStream(current)]
  /\ run' = [run EXCEPT ![current].evicting = FALSE]
  /\ UNCHANGED <<current, started>>

-----------------------------------------------------------------------------
(* _drain *)

\* The first step of the task.  One that is cancelled before it never runs.
Begin(i) ==
  /\ run[i].phase = "created"
  /\ run' = [run EXCEPT ![i].phase =
       IF run[i].cancelled THEN "aborted"
       ELSE IF run[i].previous # 0 /\ ~Done(run[i].previous) THEN "waiting"
       ELSE "pulling"]
  /\ UNCHANGED <<current, started, client>>

\* The wait for the run before it ends, or is cancelled: that is raised
\* outside of the try block.
Proceed(i) ==
  /\ run[i].phase = "waiting"
  /\ \/ run[i].cancelled /\ run' = [run EXCEPT ![i].phase = "aborted"]
     \/ /\ ~run[i].cancelled /\ Done(run[i].previous)
        /\ run' = [run EXCEPT ![i].phase = "pulling"]
  /\ UNCHANGED <<current, started, client>>

\* _publish of the next event.
Emit(i) ==
  /\ run[i].phase = "pulling" /\ ~run[i].cancelled
  /\ run[i].length < MaxEvents
  /\ run' = [run EXCEPT ![i].length = @ + 1]
  /\ client' = Put(i, <<run[i].length + 1>>)
  /\ UNCHANGED <<current, started>>

Interrupt(i) ==
  /\ run[i].phase = "pulling" /\ run[i].cancelled
  /\ run' = [run EXCEPT ![i].phase = "unwinding"]
  /\ UNCHANGED <<current, started, client>>

\* Mutant: a cancelled run keeps its status.
SettledRunning(r, how) ==
  [r EXCEPT !.phase = "ended", !.status = IF how = "stopped" THEN @ ELSE how,
            !.length = IF how = "error" THEN @ + 2 ELSE @]

\* A failure is published as two more events.
Settled(r, how) ==
  [r EXCEPT !.phase = "ended", !.status = how,
            !.length = IF how = "error" THEN @ + 2 ELSE @]

\* The generator is exhausted, raises, or has unwound (it may also answer a
\* cancellation by ending or raising); the sentinel follows the last event.
Finish(i) ==
  /\ \/ run[i].phase = "pulling" /\ ~run[i].cancelled
     \/ run[i].phase = "unwinding"
  /\ \E how \in {"done", "error", "stopped"} :
       /\ how = "stopped" => run[i].phase = "unwinding"
       /\ run' = ScheduleEvict([run EXCEPT ![i] = Settled(@, how)])
       /\ client' = Put(i, IF how = "error"
                             THEN <<run[i].length + 1, run[i].length + 2, End>>
                             ELSE <<End>>)
  /\ UNCHANGED <<current, started>>

-----------------------------------------------------------------------------
(* subscribe *)

Receive(s, event) == [s EXCEPT !.received = Append(@, event), !.next = event]

\* Mutant: the last one to leave does not arm the timer.
LeaveQuietly(c, i, phase) ==
  /\ client' = [client EXCEPT ![c].phase = phase]
  /\ UNCHANGED run

\* The finally block.
Leave(c, i, phase) ==
  /\ client' = [client EXCEPT ![c].phase = phase]
  /\ run' = IF Subscribers(i) = {c} /\ run[i].status # "running"
              THEN ScheduleEvict(run) ELSE run

Replay(c) ==
  LET s == client[c] IN
  /\ s.phase = "replaying"
  /\ \/ /\ s.next < run[s.run].length
        /\ client' = [client EXCEPT ![c] = Receive(@, s.next + 1)]
        /\ UNCHANGED run
     \/ /\ s.next = run[s.run].length
        /\ \/ run[s.run].status # "running" /\ Leave(c, s.run, "closed")
           \/ /\ run[s.run].status = "running"
              /\ client' = [client EXCEPT ![c].phase = "live"]
              /\ UNCHANGED run
  /\ UNCHANGED <<current, started>>

\* Mutant: what the replay has already sent comes again from the queue.
Unseen(s, event) == TRUE

\* Mutant: off by one, the first event after the replay is skipped.
NewLate(s, event) == event > s.next + 1

New(s, event) == event > s.next

\* q.get answers, or times out on a run that is over.
Live(c) ==
  LET s == client[c]
      rest == [s EXCEPT !.queue = Tail(@)]
  IN
  /\ s.phase = "live"
  /\ \/ /\ s.queue # << >> /\ Head(s.queue) # End
        /\ client' = [client EXCEPT ![c] =
             IF New(s, Head(s.queue)) THEN Receive(rest, Head(s.queue)) ELSE rest]
     \/ /\ s.queue # << >> /\ Head(s.queue) = End
        /\ client' = [client EXCEPT ![c] = [rest EXCEPT !.phase = "flushing"]]
     \/ /\ s.queue = << >> /\ run[s.run].status # "running"
        /\ client' = [client EXCEPT ![c].phase = "flushing"]
  /\ UNCHANGED <<current, started, run>>

Flush(c) ==
  LET s == client[c] IN
  /\ s.phase = "flushing"
  /\ \/ /\ s.next < run[s.run].length
        /\ client' = [client EXCEPT ![c] = Receive(@, s.next + 1)]
        /\ UNCHANGED run
     \/ s.next = run[s.run].length /\ Leave(c, s.run, "closed")
  /\ UNCHANGED <<current, started>>

\* The browser goes away: a closed tab, another session, a reload.
Disconnect(c) ==
  /\ client[c].phase \in Watching
  /\ Leave(c, client[c].run, "away")
  /\ UNCHANGED <<current, started>>

\* Mutant: the timer does not look at what it evicts.
EvictableAny(i) == TRUE

Evictable(i) == current = i /\ run[i].status # "running" /\ Subscribers(i) = {}

\* The grace period of a run is over.
Evict(i) ==
  /\ run[i].evicting
  /\ run' = [run EXCEPT ![i].evicting = FALSE]
  /\ current' = IF Evictable(i) THEN 0 ELSE current
  /\ UNCHANGED <<started, client>>

-----------------------------------------------------------------------------
Drain(i) == Begin(i) \/ Proceed(i) \/ Interrupt(i)
Serve(c) == Replay(c) \/ Live(c) \/ Flush(c)

Next ==
  \/ Start \/ Stop
  \/ \E c \in Client : Subscribe(c) \/ Serve(c) \/ Disconnect(c)
  \/ \E i \in RunId : Drain(i) \/ Emit(i) \/ Finish(i) \/ Evict(i)

Spec == Init /\ [][Next]_vars

\* The event loop runs what is ready and a browser that stays reads on; a
\* generator that is cancelled unwinds.  Nothing else makes one end.
FairSpec ==
  /\ Spec
  /\ \A i \in RunId : /\ WF_vars(Drain(i)) /\ WF_vars(Evict(i))
                      /\ WF_vars(run[i].phase = "unwinding" /\ Finish(i))
  /\ \A c \in Client : WF_vars(Serve(c))

-----------------------------------------------------------------------------
(* Properties *)

\* The generator of a run may be appending to the session.
Writing(i) == run[i].phase \in {"pulling", "unwinding"}

\* A run was cancelled before it had begun to drain: nobody ends its streams.
Aborted == \E i \in RunId : run[i].phase = "aborted"

\* However often a browser reloads, and whatever comes while it replays: it is
\* sent the events of its run in order, none twice, none left out.
Faithful ==
  \A c \in Client :
    /\ client[c].received = [k \in 1 .. client[c].next |-> k]
    /\ client[c].run # 0 => client[c].next <= run[client[c].run].length

\* A stream that ends by itself has sent the whole of a run that is over.
EndedWhole ==
  [][ \A c \in Client :
        client[c].phase \in Watching /\ client'[c].phase = "closed" =>
          LET r == run[client[c].run] IN
            r.phase = "ended" /\ Len(client'[c].received) = r.length ]_vars

\* Replies of one session are generated and saved one after the other, unless
\* a run was aborted while it waited.
OneWriter ==
  ~Aborted => \A i, j \in RunId : Writing(i) /\ Writing(j) => i = j

\* The last message sent can be stopped and watched again as long as its run
\* is not over, and as long as somebody is watching it.
LastIsReachable ==
  started # 0 /\ (~Done(started) \/ Subscribers(started) # {}) => current = started

\* What a browser and a run are to the abstract readers and logs.
Lengths == [i \in RunId |-> run[i].length]
Ended   == [i \in RunId |-> run[i].phase = "ended"]
RunOf   == [c \in Client |-> client[c].run]
Sent    == [c \in Client |-> client[c].received]
Mode    == [c \in Client |-> IF client[c].phase \in Watching THEN "reading" ELSE client[c].phase]

Abstract == INSTANCE Broadcast
              WITH Reader <- Client, Last <- MaxRuns, newest <- started, log <- Lengths,
                   over <- Ended, at <- RunOf, got <- Sent, mode <- Mode

\* Tasks, buffers, queues, replays and flushes together are a Broadcast: whenever
\* a browser comes, goes or reloads, and whatever is cancelled, it is sent its
\* run's events one by one from the first, and is let go only with the whole of
\* a run that is over.
ImplementsBroadcast == Abstract!Spec

\* A browser is not left waiting on a run that is over.
StreamsEnd ==
  \A c \in Client : LET Waits == /\ client[c].phase \in Watching
                                /\ run[client[c].run].phase = "ended"
                   IN  Waits ~> ~Waits

\* The buffer of a run that is over is dropped, unless somebody comes back.
Evicted ==
  LET Kept == /\ current # 0 /\ run[current].phase = "ended"
              /\ Subscribers(current) = {}
  IN  Kept ~> ~Kept

\* subscribe: "stream live until it ends" (agent_runs.py:159).
StreamsUntilEnd ==
  \A c \in Client, i \in RunId :
    (c \in Subscribers(i) /\ Done(i)) ~> c \notin Subscribers(i)

=============================================================================
