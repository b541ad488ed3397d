------------------------------- MODULE Alarm -------------------------------
(***************************************************************************)
(* What a reminder promises, without claims, leases, tombstones or         *)
(* notifications.  It is delivered for good once it has reached its owner  *)
(* since it was last called off, by a message or by a notification that    *)
(* was shown.  No message is started and nothing is shown while it is      *)
(* called off, though a message on its way then cannot be stopped.  Each   *)
(* message after the first is owed to trouble or to a rearming.            *)
(***************************************************************************)
EXTENDS Naturals

CONSTANTS Ringer

VARIABLES
  quiet,  \* is it called off
  aloft,  \* messages on their way
  fresh,  \* those of them that may still deliver it
  heard,  \* has it reached its owner, for what is to be delivered now
  rung,   \* messages sent
  paid,   \* messages there may be
  done    \* is it delivered

alarm == <<quiet, aloft, fresh, heard, rung, paid, done>>

Init ==
  /\ ~quiet /\ ~heard /\ ~done
  /\ aloft = {} /\ fresh = {} /\ rung = 0 /\ paid = 1

Start(r) ==
  /\ ~quiet /\ ~done /\ r \notin aloft
  /\ aloft' = aloft \cup {r} /\ fresh' = fresh \cup {r}
  /\ UNCHANGED <<quiet, heard, rung, paid, done>>

Ring(r) ==
  /\ r \in aloft /\ rung < paid
  /\ aloft' = aloft \ {r} /\ fresh' = fresh \ {r}
  /\ heard' = (heard \/ r \in fresh)
  /\ rung' = rung + 1
  /\ UNCHANGED <<quiet, paid, done>>

\* A notification is shown.
Show ==
  /\ ~quiet /\ ~done /\ heard'
  /\ UNCHANGED <<quiet, aloft, fresh, rung, paid, done>>

Deliver ==
  /\ ~quiet /\ heard /\ ~done
  /\ done' /\ ~heard' /\ fresh' = {}
  /\ UNCHANGED <<quiet, aloft, rung, paid>>

\* Who was to deliver it gives up, or somebody else takes it on.
Lose ==
  /\ fresh' \subseteq fresh /\ (heard' => heard)
  /\ UNCHANGED <<quiet, aloft, rung, paid, done>>

\* A message is lost, or its sender does not know that it left.
Trouble ==
  /\ aloft' \subseteq aloft /\ fresh' \subseteq fresh /\ (heard' => heard)
  /\ rung' = rung \/ (aloft' # aloft /\ rung' = rung + 1)
  /\ paid' = paid + 1
  /\ UNCHANGED <<quiet, done>>

CallOff ==
  /\ quiet' /\ fresh' = {} /\ ~heard'
  /\ UNCHANGED <<aloft, rung, paid, done>>

Rearm ==
  /\ ~quiet' /\ fresh' \subseteq fresh /\ (heard' => heard)
  /\ paid' = paid + 1
  /\ UNCHANGED <<aloft, rung, done>>

Next ==
  \/ \E r \in Ringer : Start(r) \/ Ring(r)
  \/ Show \/ Deliver \/ Lose \/ Trouble \/ CallOff \/ Rearm

Spec == Init /\ [][Next]_alarm
=============================================================================
