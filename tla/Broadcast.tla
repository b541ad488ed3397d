----------------------------- MODULE Broadcast -----------------------------
(***************************************************************************)
(* What detached runs promise their watchers, without tasks, queues,       *)
(* replays or cancellations: each topic is a log that grows until it is    *)
(* over; a reader joins the newest topic and is sent its log from the      *)
(* start, event by event; it is let go only at the end of a topic that is  *)
(* over, or when it leaves.                                                *)
(***************************************************************************)
EXTENDS Naturals, Sequences

CONSTANTS
  Reader,
  Last     \* the last topic there may be

VARIABLES
  newest,  \* the newest topic, 0 before the first
  log,     \* the length of each topic's log
  over,    \* whether it is over
  at,      \* the topic each reader reads or has read, 0 for none
  got,     \* the events it was sent
  mode     \* whether it reads, has left, or was let go

Topic == 1 .. Last

Init ==
  /\ newest = 0
  /\ log = [t \in Topic |-> 0]
  /\ over = [t \in Topic |-> FALSE]
  /\ at = [r \in Reader |-> 0]
  /\ got = [r \in Reader |-> << >>]
  /\ mode = [r \in Reader |-> "away"]

Open == newest < Last /\ newest' = newest + 1 /\ UNCHANGED <<log, over, at, got, mode>>

Publish(t) ==
  /\ t <= newest /\ ~over[t]
  /\ log' = [log EXCEPT ![t] = @ + 1]
  /\ UNCHANGED <<newest, over, at, got, mode>>

\* Its last words may be that it failed.
End(t) ==
  /\ t <= newest /\ ~over[t]
  /\ over' = [over EXCEPT ![t] = TRUE]
  /\ log' \in {log, [log EXCEPT ![t] = @ + 2]}
  /\ UNCHANGED <<newest, at, got, mode>>

Join(r) ==
  /\ newest # 0 /\ mode[r] # "reading"
  /\ at' = [at EXCEPT ![r] = newest]
  /\ got' = [got EXCEPT ![r] = << >>]
  /\ mode' = [mode EXCEPT ![r] = "reading"]
  /\ UNCHANGED <<newest, log, over>>

Deliver(r) ==
  /\ mode[r] = "reading" /\ Len(got[r]) < log[at[r]]
  /\ got' = [got EXCEPT ![r] = Append(@, Len(@) + 1)]
  /\ UNCHANGED <<newest, log, over, at, mode>>

Close(r) ==
  /\ mode[r] = "reading" /\ over[at[r]] /\ Len(got[r]) = log[at[r]]
  /\ mode' = [mode EXCEPT ![r] = "closed"]
  /\ UNCHANGED <<newest, log, over, at, got>>

Leave(r) ==
  /\ mode[r] = "reading"
  /\ mode' = [mode EXCEPT ![r] = "away"]
  /\ UNCHANGED <<newest, log, over, at, got>>

Next ==
  \/ Open
  \/ \E t \in Topic : Publish(t) \/ End(t)
  \/ \E r \in Reader : Join(r) \/ Deliver(r) \/ Close(r) \/ Leave(r)

Spec == Init /\ [][Next]_<<newest, log, over, at, got, mode>>
=============================================================================
