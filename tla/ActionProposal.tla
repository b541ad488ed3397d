--------------------------- MODULE ActionProposal ---------------------------
(***************************************************************************)
(* One action proposal (src/action_policy.py) as a record, and what each   *)
(* lifecycle function of the source computes from the row it has read: a   *)
(* guard XOk, the conditions under which it does not raise, and the row X  *)
(* it writes.  ActionPolicy and EmailOutbox run these inside transactions. *)
(*                                                                         *)
(* Abstracted: payload, reason, sources and result; the owner (every query *)
(* is scoped to one); and the clock: fresh says that expires_at is set and *)
(* has not passed.  A confirmation token is the challenge it answers: the  *)
(* digest binds proposal, version, purpose and token, and a version has at *)
(* most one challenge.  The state "expired" of the schema is never written *)
(* by the code, so the guards that name it do not here.                    *)
(***************************************************************************)
EXTENDS Naturals

Level == 1 .. 6

State == {"absent", "prepared", "approved", "executing", "completed",
          "failed", "rejected", "reversed"}

NoDigest == [version |-> 0, purpose |-> "none"]
Challenge(version, purpose) == [version |-> version, purpose |-> purpose]
Digest == {NoDigest} \union [version : Nat \ {0}, purpose : {"approve", "reverse"}]

Proposal == [state : State, version : Nat, level : Level, digest : Digest,
             fresh : BOOLEAN, approved : BOOLEAN, undo : BOOLEAN]

\* No row: what a query by id or by idempotency key finds first.
Absent == [state |-> "absent", version |-> 0, level |-> 1, digest |-> NoDigest,
           fresh |-> FALSE, approved |-> FALSE, undo |-> FALSE]

\* Critical actions are level 6 and external ones at least level 5, so the
\* stored flag is a function of the effective level.
Confirmed(level) == level >= 5

\* create_action_proposal behind a policy that allows the level.
Created(level) ==
  [state |-> "prepared", version |-> 1, level |-> level,
   digest |-> IF Confirmed(level) THEN Challenge(1, "approve") ELSE NoDigest,
   fresh |-> Confirmed(level), approved |-> FALSE, undo |-> FALSE]

\* _transition: one version per state change.
Transition(p, state, digest, fresh, approved, undo) ==
  [state |-> state, version |-> p.version + 1, level |-> p.level,
   digest |-> digest, fresh |-> fresh, approved |-> approved, undo |-> undo]

\* _verify_confirmation
Verifies(p, token, purpose) ==
  /\ p.digest # NoDigest
  /\ p.fresh
  /\ token = Challenge(p.version, purpose) /\ token = p.digest

IssueOk(p, purpose) ==
  /\ Confirmed(p.level)
  /\ \/ purpose = "approve" /\ p.state \in {"prepared", "approved"}
     \/ purpose = "reverse" /\ p.state = "completed" /\ p.undo

\* Mutant: an approval survives the fresh challenge.
IssuedBesideApproval(p, purpose) ==
  Transition(p, p.state, Challenge(p.version + 1, purpose), TRUE, p.approved, p.undo)

\* A fresh challenge withdraws an approval that was given.
Issued(p, purpose) ==
  Transition(p, IF purpose = "approve" THEN "prepared" ELSE "completed",
             Challenge(p.version + 1, purpose), TRUE,
             purpose = "reverse" /\ p.approved, p.undo)

ApproveOk(p, token) ==
  /\ p.state = "prepared" /\ Confirmed(p.level)
  /\ Verifies(p, token, "approve")

Approved(p) == Transition(p, "approved", NoDigest, TRUE, TRUE, p.undo)

RejectOk(p) == p.state \in {"prepared", "approved"}

Rejected(p) == Transition(p, "rejected", NoDigest, FALSE, p.approved, p.undo)

\* Mutant: a fresh challenge passes for an approval.
StartPreparedOk(p, undo) ==
  p.level >= 4 /\ p.state \in {"prepared", "approved"} /\ (Confirmed(p.level) => p.fresh)

\* start_action; undo: the executor recorded a reversal path beforehand.
StartOk(p, undo) ==
  /\ p.level >= 4
  /\ IF Confirmed(p.level) THEN p.fresh /\ p.state = "approved"
                           ELSE p.state = "prepared"
  /\ p.level = 4 => undo \/ p.undo

Started(p, undo) ==
  Transition(p, "executing", NoDigest, FALSE, p.approved, undo \/ p.undo)

CompleteOk(p) == p.state = "executing" /\ (p.level = 4 => p.undo)

Completed(p) == Transition(p, "completed", p.digest, p.fresh, p.approved, p.undo)

FailOk(p) == p.state = "executing"

Failed(p) == Transition(p, "failed", p.digest, p.fresh, p.approved, p.undo)

ReverseOk(p, token) ==
  /\ p.state = "completed" /\ p.undo
  /\ Confirmed(p.level) => Verifies(p, token, "reverse")

Reversed(p) == Transition(p, "reversed", NoDigest, FALSE, p.approved, p.undo)

\* expires_at passes.
Lapsed(p) == [p EXCEPT !.fresh = FALSE]

=============================================================================
