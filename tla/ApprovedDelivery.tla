-------------------------- MODULE ApprovedDelivery --------------------------
(***************************************************************************)
(* What the email outbox promises, without claims, leases or workers: one  *)
(* prepared message is reviewed; copies of it leave only once it is owed;  *)
(* the outcome is recorded once and is final; "delivered" is never claimed *)
(* of a message no copy of which left; and copies are bounded only by how  *)
(* often a worker took it on ("at-least-once, not exactly-once").          *)
(***************************************************************************)
EXTENDS Naturals

CONSTANT Late  \* may a worker take on a message that is settled already?

VARIABLES
  phase,    \* of the message
  taken,    \* times a worker took it on
  copies    \* copies the mail server accepted

Phase == {"unwritten", "review", "rejected", "owed", "delivered", "failed"}

Init == phase = "unwritten" /\ taken = 0 /\ copies = 0

Prepare == phase = "unwritten" /\ phase' = "review"
Decide  == phase = "review" /\ phase' \in {"rejected", "owed"}
Deliver == phase = "owed" /\ copies > 0 /\ phase' = "delivered"
GiveUp  == phase = "owed" /\ taken > 0 /\ phase' = "failed"

Take ==
  /\ phase = "owed" \/ (Late /\ phase \in {"delivered", "failed"})
  /\ taken' = taken + 1

\* A worker that was taken for dead may still send.
Send == phase \in {"owed", "delivered", "failed"}
          /\ copies < taken /\ copies' = copies + 1

Next ==
  \/ (Prepare \/ Decide \/ Deliver \/ GiveUp) /\ UNCHANGED <<taken, copies>>
  \/ Take /\ UNCHANGED <<phase, copies>>
  \/ Send /\ UNCHANGED <<phase, taken>>

Spec == Init /\ [][Next]_<<phase, taken, copies>>
=============================================================================
