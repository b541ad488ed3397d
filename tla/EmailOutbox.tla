---------------------------- MODULE EmailOutbox ----------------------------
(***************************************************************************)
(* One approved email from its draft to its outcome: the approval and      *)
(* queueing of src/email_outbound.py and the delivery workers of           *)
(* src/email_delivery_worker.py, which several threads and processes run   *)
(* at once.                                                                *)
(*                                                                         *)
(* The steps of a worker are its database transactions and the SMTP call.  *)
(* Two transactions are split where the code reads before it writes: the   *)
(* claim (select, then an update fenced by state and version) and the      *)
(* recording of an outcome (_claimed_delivery, then writes by primary key, *)
(* of which only the proposal's transition is fenced).                     *)
(*                                                                         *)
(* Abstracted: the message and its digests (a snapshot that is no longer   *)
(* the approved one fails to load), lease_expires_at - clock as ticks, the *)
(* random claim token as the number of the claim, and the account checks.  *)
(***************************************************************************)
EXTENDS ActionProposal, FiniteSets

CONSTANTS
  Worker,       \* threads that drain the outbox
  MaxAttempts,  \* MAX_DELIVERY_ATTEMPTS
  LeaseTicks,   \* WORKER_LEASE
  PromptCommit, \* no transaction outlives the lease it checked
  MaxVersion,   \* bound on the proposal's version while it is reviewed
  MaxClaims,    \* bound on the claims of a behaviour
  MaxDrops      \* bound on the crashes of a behaviour

ASSUME EmailOutboxAssumption ==
  /\ MaxAttempts \in Nat \ {0} /\ LeaseTicks \in Nat \ {0}
  /\ PromptCommit \in BOOLEAN
  /\ MaxVersion \in Nat /\ MaxClaims \in Nat /\ MaxDrops \in Nat

VARIABLES
  proposal,  \* the ActionProposal row
  draft,     \* the state of the EmailOutboundDraft row
  delivery,  \* the EmailOutboundDelivery row
  worker,    \* what each worker has read and is about to do
  claims,    \* claims committed so far
  sent,      \* copies the SMTP server accepted
  drops      \* crashes so far

vars == <<proposal, draft, delivery, worker, claims, sent, drops>>

DraftState    == {"none", "pending_review", "rejected", "queued", "delivered", "failed"}
DeliveryState == {"none", "queued", "claimed", "retry", "delivered", "failed"}

\* token: the claim it belongs to, 0 for NULL; due: next_attempt_at passed.
Delivery == [state : DeliveryState, version : Nat, attempts : Nat, token : Nat,
             lease : 0 .. LeaseTicks, due : BOOLEAN]

NoDelivery == [state |-> "none", version |-> 0, attempts |-> 0, token |-> 0,
               lease |-> 0, due |-> FALSE]

\* seen: the delivery row as read by the open transaction.
Doing == [phase : {"idle", "claiming", "loading", "sending", "recording", "writing"},
          token : Nat, outcome : {"none", "delivered", "retry", "failed"},
          seen : Delivery]

Idle == [phase |-> "idle", token |-> 0, outcome |-> "none", seen |-> NoDelivery]

TypeOK ==
  /\ proposal \in Proposal
  /\ draft \in DraftState
  /\ delivery \in Delivery
  /\ worker \in [Worker -> Doing]
  /\ claims \in 0 .. MaxClaims /\ sent \in Nat /\ drops \in 0 .. MaxDrops

Init ==
  /\ proposal = Absent /\ draft = "none" /\ delivery = NoDelivery
  /\ worker = [w \in Worker |-> Idle]
  /\ claims = 0 /\ sent = 0 /\ drops = 0

-----------------------------------------------------------------------------
(* The web routes: each is one transaction, fenced by the version of the   *)
(* proposal (see ActionPolicy).                                            *)

Review(p, d) ==
  /\ p.version <= MaxVersion
  /\ proposal' = p /\ draft' = d
  /\ UNCHANGED <<delivery, worker, claims, sent, drops>>

\* prepare_agent_email_action
Prepare == proposal.state = "absent" /\ Review(Created(5), "pending_review")

Issue == IssueOk(proposal, "approve") /\ Review(Issued(proposal, "approve"), draft)

Approve ==
  \E token \in {Challenge(v, "approve") : v \in 1 .. MaxVersion} :
    ApproveOk(proposal, token) /\ Review(Approved(proposal), draft)

\* mark_email_action_rejected
Reject ==
  /\ RejectOk(proposal)
  /\ Review(Rejected(proposal), IF draft = "pending_review" THEN "rejected" ELSE draft)

\* queue_approved_email_action; a repeated call finds the delivery.
Queue ==
  /\ draft = "pending_review" /\ StartOk(proposal, FALSE)
  /\ proposal' = Started(proposal, FALSE)
  /\ delivery' = [NoDelivery EXCEPT !.state = "queued", !.version = 1, !.due = TRUE]
  /\ draft' = "queued"
  /\ UNCHANGED <<worker, claims, sent, drops>>

\* expires_at passes.
Lapse ==
  /\ proposal.fresh /\ proposal' = Lapsed(proposal)
  /\ UNCHANGED <<draft, delivery, worker, claims, sent, drops>>

-----------------------------------------------------------------------------
(* The worker *)

Goto(w, phase) == worker' = [worker EXCEPT ![w].phase = phase]
Rest(w)        == worker' = [worker EXCEPT ![w] = Idle]

\* Mutants: a claim whose worker died is never taken over; or a failed row,
\* whose next_attempt_at is NULL, counts as ready.
ClaimableOnce   == delivery.state \in {"queued", "retry"} /\ delivery.due
ClaimableFailed == delivery.state \in {"queued", "retry", "failed"} /\ delivery.due

Claimable ==
  /\ \/ delivery.state \in {"queued", "retry"}
     \/ delivery.state = "claimed" /\ delivery.lease = 0
  /\ delivery.due

\* claim_email_delivery selects a ready row ...
ClaimRead(w) ==
  /\ worker[w] = Idle /\ Claimable /\ claims < MaxClaims
  /\ worker' = [worker EXCEPT ![w].phase = "claiming", ![w].seen = delivery]
  /\ UNCHANGED <<proposal, draft, delivery, claims, sent, drops>>

Unchanged(seen) == delivery.state = seen.state /\ delivery.version = seen.version

\* ... and takes it if nobody was faster.
ClaimWrite(w) ==
  LET seen == worker[w].seen IN
  /\ worker[w].phase = "claiming"
  /\ \/ /\ Unchanged(seen) /\ claims < MaxClaims
        /\ claims' = claims + 1
        /\ delivery' = [delivery EXCEPT !.state = "claimed", !.token = claims + 1,
                          !.version = seen.version + 1, !.lease = LeaseTicks,
                          !.attempts = seen.attempts + 1]
        /\ worker' = [worker EXCEPT ![w] =
                        [Idle EXCEPT !.phase = "loading", !.token = claims + 1]]
     \/ (~Unchanged(seen) \/ claims = MaxClaims) /\ Rest(w) /\ UNCHANGED <<claims, delivery>>
  /\ UNCHANGED <<proposal, draft, sent, drops>>

\* The approved snapshot still stands (_load_delivery_snapshot).
ApprovalStands ==
  /\ delivery.state = "claimed"
  /\ proposal.state = "executing" /\ proposal.approved
  /\ draft = "queued"

Report(w, outcome) ==
  worker' = [worker EXCEPT ![w].phase = "recording", ![w].outcome = outcome]

\* A message that no longer loads or builds is a terminal failure.
Load(w) ==
  /\ worker[w].phase = "loading"
  /\ \/ ApprovalStands /\ Goto(w, "sending")
     \/ Report(w, "failed")
  /\ UNCHANGED <<proposal, draft, delivery, claims, sent, drops>>

\* SMTP: accepted; refused for now or for good; or accepted with an error
\* that hides it (the connection breaks after the data).
Send(w) ==
  /\ worker[w].phase = "sending"
  /\ \/ sent' = sent + 1 /\ Report(w, "delivered")
     \/ sent' = sent + 1 /\ Report(w, "retry")
     \/ \E outcome \in {"retry", "failed"} : Report(w, outcome) /\ UNCHANGED sent
  /\ UNCHANGED <<proposal, draft, delivery, claims, drops>>

\* Mutant: the lease is not looked at.
HoldsToken(w) == delivery.state = "claimed" /\ delivery.token = worker[w].token

\* _claimed_delivery
HoldsClaim(w) ==
  /\ delivery.state = "claimed"
  /\ delivery.token = worker[w].token
  /\ delivery.lease > 0

Exhausted == delivery.attempts >= MaxAttempts

\* complete_email_delivery and retry_email_delivery check the claim (and the
\* former the proposal); a worker whose claim is gone leaves everything.
Record(w) ==
  /\ worker[w].phase = "recording"
  /\ IF HoldsClaim(w) /\ (worker[w].outcome = "delivered" => proposal.state = "executing")
       THEN worker' = [worker EXCEPT ![w].phase = "writing", ![w].seen = delivery,
              ![w].outcome = IF @ = "retry" /\ Exhausted THEN "failed" ELSE @]
       ELSE Rest(w)
  /\ UNCHANGED <<proposal, draft, delivery, claims, sent, drops>>

\* Mutant: the outcome is not carried to the draft.
KeepDraft(outcome) == draft

DraftAfter(outcome) == IF outcome = "retry" THEN draft ELSE outcome

\* The columns the ORM writes by primary key, from the row it has read.
Written(seen, outcome) ==
  [delivery EXCEPT !.state = outcome, !.version = seen.version + 1,
                   !.token = 0, !.lease = 0, !.due = outcome # "retry"]

\* The same transaction writes: a terminal outcome moves the proposal with a
\* compare-and-set (it leaves "executing" once) and is rolled back when that
\* misses; a retry is fenced by nothing.
Write(w) ==
  LET outcome == worker[w].outcome IN
  /\ worker[w].phase = "writing"
  /\ \/ /\ outcome = "retry" \/ proposal.state = "executing"
        /\ delivery' = Written(worker[w].seen, outcome)
        /\ draft' = DraftAfter(outcome)
        /\ proposal' = CASE outcome = "delivered" -> Completed(proposal)
                         [] outcome = "failed"    -> Failed(proposal)
                         [] outcome = "retry"     -> proposal
     \/ /\ outcome # "retry" /\ proposal.state # "executing"
        /\ UNCHANGED <<delivery, draft, proposal>>
  /\ Rest(w)
  /\ UNCHANGED <<claims, sent, drops>>

\* A crash of the process, or an error while recording (rolled back and
\* logged only): the claim stays until its lease expires.
Drop(w) ==
  /\ worker[w] # Idle /\ drops < MaxDrops
  /\ drops' = drops + 1 /\ Rest(w)
  /\ UNCHANGED <<proposal, draft, delivery, claims, sent>>

-----------------------------------------------------------------------------
(* Time *)

Tick ==
  /\ delivery.lease > 0
  /\ PromptCommit => \A w \in Worker : worker[w].phase # "writing"
  /\ delivery' = [delivery EXCEPT !.lease = @ - 1]
  /\ UNCHANGED <<proposal, draft, worker, claims, sent, drops>>

\* next_attempt_at passes.
BackoffEnds ==
  /\ delivery.state = "retry" /\ ~delivery.due
  /\ delivery' = [delivery EXCEPT !.due = TRUE]
  /\ UNCHANGED <<proposal, draft, worker, claims, sent, drops>>

Work(w) == ClaimRead(w) \/ ClaimWrite(w) \/ Load(w) \/ Send(w) \/ Record(w) \/ Write(w)

Next ==
  \/ Prepare \/ Issue \/ Approve \/ Reject \/ Queue \/ Lapse
  \/ \E w \in Worker : Work(w) \/ Drop(w)
  \/ Tick \/ BackoffEnds

Spec == Init /\ [][Next]_vars

\* The pollers run and time passes; nobody has to review anything.
FairSpec ==
  Spec /\ WF_vars(Tick) /\ WF_vars(BackoffEnds) /\ \A w \in Worker : WF_vars(Work(w))

-----------------------------------------------------------------------------
(* Properties *)

Pending == {"queued", "claimed", "retry"}

\* The three rows of an email agree at every commit: pending, delivered or
\* failed together, however workers, crashes and lapsed leases interleave.
StatesAgree ==
  /\ delivery.state \in Pending <=> proposal.state = "executing"
  /\ delivery.state \in Pending <=> draft = "queued"
  /\ delivery.state = "delivered" <=> proposal.state = "completed"
  /\ delivery.state \in {"delivered", "failed"} => draft = delivery.state
  /\ delivery.state = "failed" <=> proposal.state = "failed"
  /\ draft = "rejected" <=> proposal.state = "rejected"

\* No worker takes on a message that a human has not approved, or whose
\* approval a newer challenge or a rejection has withdrawn; and while workers
\* that were taken for dead may still send, each claim sends at most once.
OnlyApprovedIsClaimed ==
  /\ claims > 0 => proposal.approved /\ proposal.state \in {"executing", "completed", "failed"}
  /\ sent + Cardinality({w \in Worker : worker[w].phase = "sending"}) <= claims

\* At most one worker at a time has passed the check of its claim.
OneRecorder ==
  \A v, w \in Worker : worker[v].phase = "writing" /\ worker[w].phase = "writing" => v = w

\* A recorded outcome is final.
SettledIsFinal ==
  [][ delivery.state \in {"delivered", "failed"} => delivery'.state = delivery.state ]_vars

\* No pending email is forgotten, whichever worker dies where: it is settled
\* or a worker claims it again.
NeverForgotten ==
  \A n \in 0 .. MaxClaims - 1 :
    (delivery.state \in Pending /\ claims = n)
      ~> (delivery.state \notin Pending \/ claims > n)

\* The phase of the abstract message is what its draft shows to the user.
PhaseOf ==
  CASE draft = "none"           -> "unwritten"
    [] draft = "pending_review" -> "review"
    [] draft = "queued"         -> "owed"
    [] OTHER                    -> draft

Abstract == INSTANCE ApprovedDelivery
              WITH phase <- PhaseOf, taken <- claims, copies <- sent, Late <- ~PromptCommit

\* The outbox implements ApprovedDelivery: nothing leaves before approval or
\* after rejection, "delivered" is said only of what was sent, and what the user
\* was told is not taken back.
ImplementsApprovedDelivery == Abstract!Spec
=============================================================================
