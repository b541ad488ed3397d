------------------------- MODULE EmailOutboxProofs -------------------------
(***************************************************************************)
(* What holds of EmailOutbox for every number of workers, attempts, claims *)
(* and crashes, and that it implements ApprovedDelivery.  What the user is *)
(* shown (proposal and draft) rests on the version and state fences alone. *)
(* That the delivery row goes along needs PromptCommit, in one step: a     *)
(* worker that has checked its claim keeps it until it writes              *)
(* (WritersStep), because the clock waits.                                 *)
(***************************************************************************)
EXTENDS EmailOutbox, FiniteSetTheorems, TLAPS

\* The draft is at every commit what the proposal says, and only an approval
\* leads to the execution of a level 5 proposal.
DraftFollows ==
  /\ proposal.state # "reversed"
  /\ proposal.state = "absent" <=> draft = "none"
  /\ proposal.state \in {"prepared", "approved"} <=> draft = "pending_review"
  /\ proposal.state = "rejected" <=> draft = "rejected"
  /\ proposal.state = "executing" <=> draft = "queued"
  /\ proposal.state = "completed" <=> draft = "delivered"
  /\ proposal.state = "failed" <=> draft = "failed"

\* The delivery is queued with the start of the execution, and workers come
\* after it.
Reviewed ==
  /\ proposal.state # "absent" => proposal.level = 5
  /\ proposal.state \in {"approved", "executing", "completed", "failed"} => proposal.approved
  /\ delivery.state = "none" <=> draft \in {"none", "pending_review", "rejected"}
  /\ delivery.state \in {"delivered", "failed"} => draft = delivery.state
  /\ claims > 0 => delivery.state # "none"
  /\ \A w \in Worker : worker[w].phase # "idle" => delivery.state # "none"

\* Every worker beyond its claim has a token no other worker has, and reports
\* "delivered" only of a message that was sent.
TokensDistinct ==
  \A w \in Worker :
    /\ worker[w].token <= claims
    /\ worker[w].phase \in {"loading", "sending", "recording", "writing"}
         => worker[w].token > 0
    /\ worker[w].phase \in {"recording", "writing"} => worker[w].outcome # "none"
    /\ worker[w].outcome = "delivered" => sent > 0
    /\ \A v \in Worker : v # w /\ worker[v].token > 0 => worker[v].token # worker[w].token

\* What a claiming worker has read is behind the row or a claim that lapsed.
ReadersBehind ==
  \A w \in Worker :
    worker[w].phase = "claiming" =>
      /\ delivery.state # "none"
      /\ worker[w].seen.state \in Pending
      /\ worker[w].seen.version <= delivery.version
      /\ Unchanged(worker[w].seen) /\ delivery.state = "claimed" => delivery.lease = 0

\* A worker about to write holds its claim, on the row it has read.
WritersHold ==
  \A w \in Worker :
    worker[w].phase = "writing" => worker[w].seen = delivery /\ HoldsClaim(w)

\* Workers that have not sent their copy yet.
Carrying == {w \in Worker : worker[w].phase \in {"loading", "sending"}}

CopiesCounted == IsFiniteSet(Carrying) /\ sent + Cardinality(Carrying) <= claims

\* Inductive whatever a transaction outlives.
UInv == TypeOK /\ DraftFollows /\ Reviewed /\ TokensDistinct /\ CopiesCounted

\* Inductive if no transaction outlives its lease: in addition, what a reader or a
\* writer has read still tells it about the row, and the row goes with the draft.
IInv ==
  /\ UInv
  /\ StatesAgree
  /\ ReadersBehind
  /\ WritersHold

USE EmailOutboxAssumption

\* Nothing written, every worker idle.
LEMMA InitEstablishes == Init => IInv
<1> SUFFICES ASSUME Init PROVE IInv
  OBVIOUS
<1>1. TypeOK
  BY DEF Init, TypeOK, Absent, Proposal, State, Level, Digest, NoDigest, DraftState,
         NoDelivery, Delivery, DeliveryState, Idle, Doing
<1>2. DraftFollows /\ Reviewed /\ StatesAgree /\ TokensDistinct /\ ReadersBehind /\ WritersHold
  BY DEF Init, Absent, NoDelivery, Idle, DraftFollows, Reviewed, StatesAgree, Pending,
         TokensDistinct, ReadersBehind, WritersHold
<1>3. CopiesCounted
  <2>1. Carrying = {}
    BY DEF Init, Carrying, Idle
  <2> QED
    BY <2>1, FS_EmptySet DEF CopiesCounted, Init
<1> QED
  BY <1>1, <1>2, <1>3 DEF IInv, UInv

\* The rows the lifecycle of a proposal goes through are proposals.
LEMMA TransitionType ==
  ASSUME NEW p \in Proposal, NEW s \in State, NEW d \in Digest,
         NEW f \in BOOLEAN, NEW a \in BOOLEAN, NEW u \in BOOLEAN
  PROVE  Transition(p, s, d, f, a, u) \in Proposal
BY DEF Proposal, Transition

LEMMA ProposalTypes ==
  ASSUME NEW p \in Proposal
  PROVE  /\ Created(5) \in Proposal
         /\ Issued(p, "approve") \in Proposal /\ Approved(p) \in Proposal
         /\ Rejected(p) \in Proposal /\ Started(p, FALSE) \in Proposal
         /\ Completed(p) \in Proposal /\ Failed(p) \in Proposal /\ Lapsed(p) \in Proposal
<1>1. /\ NoDigest \in Digest /\ Challenge(1, "approve") \in Digest
      /\ Challenge(p.version + 1, "approve") \in Digest
  BY DEF Proposal, Digest, Challenge
<1>2. /\ p.state \in State /\ p.version \in Nat /\ p.level \in Level /\ p.digest \in Digest
      /\ p.fresh \in BOOLEAN /\ p.approved \in BOOLEAN /\ p.undo \in BOOLEAN
  BY DEF Proposal
<1>3. Created(5) \in Proposal
  BY <1>1 DEF Created, Confirmed, Proposal, State, Level
<1>4. Issued(p, "approve") \in Proposal
  BY <1>1, <1>2, TransitionType DEF Issued, State
<1>5. Approved(p) \in Proposal /\ Rejected(p) \in Proposal /\ Started(p, FALSE) \in Proposal
  BY <1>1, <1>2, TransitionType DEF Approved, Rejected, Started, State
<1>6. Completed(p) \in Proposal /\ Failed(p) \in Proposal
  BY <1>1, <1>2, TransitionType DEF Completed, Failed, State
<1>7. Lapsed(p) \in Proposal
  BY DEF Lapsed, Proposal
<1> QED
  BY <1>3, <1>4, <1>5, <1>6, <1>7

\* A worker that goes on to another phase, token, outcome or row is well-formed.
LEMMA DoingType ==
  ASSUME NEW d \in Doing, NEW row \in Delivery, NEW t \in Nat,
         NEW ph \in {"idle", "claiming", "loading", "sending", "recording", "writing"},
         NEW out \in {"none", "delivered", "retry", "failed"}
  PROVE  /\ [d EXCEPT !.phase = ph] \in Doing
         /\ [d EXCEPT !.phase = ph, !.token = t] \in Doing
         /\ [d EXCEPT !.phase = ph, !.outcome = out] \in Doing
         /\ [d EXCEPT !.phase = ph, !.seen = row] \in Doing
         /\ [d EXCEPT !.phase = ph, !.seen = row, !.outcome = out] \in Doing
BY DEF Doing

\* So is one at rest, or with a claim.
LEMMA IdleType ==
  ASSUME NEW t \in Nat
  PROVE  /\ NoDelivery \in Delivery
         /\ Idle \in Doing
         /\ [Idle EXCEPT !.phase = "loading", !.token = t] \in Doing
<1>1. NoDelivery \in Delivery
  BY DEF NoDelivery, Delivery, DeliveryState
<1>2. Idle \in Doing
  BY <1>1 DEF Idle, Doing
<1>3. ASSUME NEW d \in Doing PROVE [d EXCEPT !.phase = "loading", !.token = t] \in Doing
  BY DEF Doing
<1> QED
  BY <1>1, <1>2, <1>3

\* The row after an outcome is a delivery ...
LEMMA WrittenType ==
  ASSUME delivery \in Delivery, NEW row \in Delivery,
         NEW out \in {"none", "delivered", "retry", "failed"}
  PROVE  Written(row, out) \in Delivery
<1>1. /\ (out # "retry") \in BOOLEAN
      /\ out \in DeliveryState /\ row.version + 1 \in Nat /\ 0 \in 0 .. LeaseTicks
  BY DEF Delivery, DeliveryState
<1>2. ASSUME NEW s \in DeliveryState, NEW v \in Nat, NEW l \in 0 .. LeaseTicks, NEW b \in BOOLEAN
      PROVE  [delivery EXCEPT !.state = s, !.version = v, !.token = 0, !.lease = l, !.due = b]
               \in Delivery
  BY DEF Delivery
<1> QED
  BY <1>1, <1>2 DEF Written

\* ... and so is the row after a claim, ...
LEMMA ClaimedType ==
  ASSUME delivery \in Delivery, NEW row \in Delivery, claims \in Nat
  PROVE  [delivery EXCEPT !.state = "claimed", !.token = claims + 1,
            !.version = row.version + 1, !.lease = LeaseTicks,
            !.attempts = row.attempts + 1] \in Delivery
<1>1. /\ row.version + 1 \in Nat /\ row.attempts + 1 \in Nat /\ claims + 1 \in Nat
      /\ LeaseTicks \in 0 .. LeaseTicks
  BY DEF Delivery
<1>2. ASSUME NEW t \in Nat, NEW v \in Nat, NEW a \in Nat, NEW l \in 0 .. LeaseTicks
      PROVE  [delivery EXCEPT !.state = "claimed", !.token = t, !.version = v,
                !.lease = l, !.attempts = a] \in Delivery
  BY DEF Delivery, DeliveryState
<1> QED
  BY <1>1, <1>2

\* ... the first row, and the row as time passes.
LEMMA RowTypes ==
  ASSUME delivery \in Delivery
  PROVE  /\ [NoDelivery EXCEPT !.state = "queued", !.version = 1, !.due = TRUE] \in Delivery
         /\ delivery.lease > 0 => [delivery EXCEPT !.lease = @ - 1] \in Delivery
         /\ [delivery EXCEPT !.due = TRUE] \in Delivery
<1>1. [NoDelivery EXCEPT !.state = "queued", !.version = 1, !.due = TRUE] \in Delivery
  <2>1. NoDelivery \in Delivery
    BY DEF NoDelivery, Delivery, DeliveryState
  <2>2. ASSUME NEW d \in Delivery
        PROVE  [d EXCEPT !.state = "queued", !.version = 1, !.due = TRUE] \in Delivery
    BY DEF Delivery, DeliveryState
  <2> QED
    BY <2>1, <2>2
<1>2. ASSUME delivery.lease > 0 PROVE [delivery EXCEPT !.lease = @ - 1] \in Delivery
  BY <1>2 DEF Delivery
<1>3. [delivery EXCEPT !.due = TRUE] \in Delivery
  BY DEF Delivery
<1> QED
  BY <1>1, <1>2, <1>3

\* Every step keeps the types.
LEMMA TypeStep == TypeOK /\ TokensDistinct /\ [Next]_vars => TypeOK'
<1> SUFFICES ASSUME TypeOK, TokensDistinct, [Next]_vars PROVE TypeOK'
  OBVIOUS
<1> USE DEF TypeOK
<1>r. ASSUME NEW w \in Worker, Rest(w) PROVE worker' \in [Worker -> Doing]
  BY <1>r, IdleType DEF Rest
<1>1. CASE Prepare \/ Issue \/ Approve \/ Reject \/ Lapse
  BY <1>1, ProposalTypes
  DEF Prepare, Issue, Approve, Reject, Lapse, Review, DraftState
<1>2. CASE Queue
  BY <1>2, RowTypes, ProposalTypes DEF Queue, DraftState
<1>3. ASSUME NEW w \in Worker, ClaimRead(w) PROVE TypeOK'
  <2>1. [worker[w] EXCEPT !.phase = "claiming", !.seen = delivery] \in Doing
    <3>1. worker[w] \in Doing
      OBVIOUS
    <3> QED
      BY <3>1, DoingType
  <2> QED
    BY <1>3, <2>1 DEF ClaimRead
<1>4. ASSUME NEW w \in Worker, ClaimWrite(w) PROVE TypeOK'
  <2>1. worker[w].seen \in Delivery
    BY DEF Doing
  <2>2. CASE UNCHANGED <<claims, delivery>> /\ Rest(w)
    BY <1>4, <1>r, <2>2 DEF ClaimWrite
  <2>3. CASE ~(UNCHANGED <<claims, delivery>> /\ Rest(w))
    <3>1. claims < MaxClaims /\ claims' = claims + 1
      BY <1>4, <2>3 DEF ClaimWrite
    <3>2. delivery' \in Delivery
      <4>1. delivery \in Delivery /\ claims \in Nat
        OBVIOUS
      <4>2. delivery' = [delivery EXCEPT !.state = "claimed", !.token = claims + 1,
                           !.version = worker[w].seen.version + 1, !.lease = LeaseTicks,
                           !.attempts = worker[w].seen.attempts + 1]
        BY <1>4, <2>3 DEF ClaimWrite
      <4> HIDE DEF TypeOK
      <4> QED
        BY <2>1, <4>1, <4>2, ClaimedType
    <3>3. [Idle EXCEPT !.phase = "loading", !.token = claims + 1] \in Doing
      <4>1. claims + 1 \in Nat
        OBVIOUS
      <4> QED
        BY <4>1, IdleType
    <3> QED
      BY <1>4, <2>3, <3>1, <3>2, <3>3 DEF ClaimWrite
  <2> QED
    BY <2>2, <2>3
<1>5. ASSUME NEW w \in Worker, Load(w) \/ Send(w) PROVE TypeOK'
  <2>0. worker[w] \in Doing /\ delivery \in Delivery
    OBVIOUS
  <2>1. [worker[w] EXCEPT !.phase = "sending"] \in Doing
    BY <2>0, DoingType
  <2>2. ASSUME NEW out \in {"delivered", "retry", "failed"}, Report(w, out)
        PROVE  worker' \in [Worker -> Doing]
    <3>1. [worker[w] EXCEPT !.phase = "recording", !.outcome = out] \in Doing
      BY <2>0, DoingType
    <3> QED
      BY <2>2, <3>1 DEF Report
  <2>3. sent' \in Nat
    BY <1>5 DEF Load, Send
  <2> QED
    BY <1>5, <2>1, <2>2, <2>3 DEF Load, Send, Goto
<1>6. ASSUME NEW w \in Worker, Record(w) PROVE TypeOK'
  <2>1. CASE Rest(w)
    BY <1>6, <1>r, <2>1 DEF Record
  <2>2. CASE ~Rest(w)
    <3> DEFINE out == IF worker[w].outcome = "retry" /\ Exhausted THEN "failed"
                                                              ELSE worker[w].outcome
    <3>0. worker[w] \in Doing /\ out \in {"none", "delivered", "retry", "failed"}
      BY DEF Doing
    <3>1. worker' = [worker EXCEPT ![w] =
                       [@ EXCEPT !.phase = "writing", !.seen = delivery, !.outcome = out]]
      <4>1. worker' = [worker EXCEPT ![w].phase = "writing", ![w].seen = delivery,
                                     ![w].outcome = out]
        BY <1>6, <2>2 DEF Record
      <4> HIDE DEF out
      <4> QED
        BY <4>1
    <3>2. [worker[w] EXCEPT !.phase = "writing", !.seen = delivery, !.outcome = out] \in Doing
      BY <3>0, DoingType
    <3> QED
      BY <1>6, <3>1, <3>2 DEF Record
  <2> QED
    BY <2>1, <2>2
<1>7. ASSUME NEW w \in Worker, Write(w) PROVE TypeOK'
  <2>1. CASE UNCHANGED <<delivery, draft, proposal>>
    BY <1>7, <1>r, <2>1 DEF Write
  <2>2. CASE ~UNCHANGED <<delivery, draft, proposal>>
    <3> DEFINE out == worker[w].outcome
    <3>0. worker[w].seen \in Delivery /\ out \in {"delivered", "retry", "failed"}
      BY <1>7 DEF Doing, TokensDistinct, Write
    <3>1. /\ delivery' = Written(worker[w].seen, out) /\ draft' = DraftAfter(out)
          /\ Rest(w) /\ UNCHANGED <<claims, sent, drops>>
      BY <1>7, <2>2 DEF Write
    <3>2. delivery' \in Delivery
      BY <3>0, <3>1, WrittenType
    <3>3. draft' \in DraftState
      BY <3>0, <3>1 DEF DraftAfter, DraftState
    <3>4. proposal' \in Proposal
      BY <1>7, <2>2, <3>0, ProposalTypes DEF Write
    <3> QED
      BY <3>1, <3>2, <3>3, <3>4, <1>r
  <2> QED
    BY <2>1, <2>2
<1>8. ASSUME NEW w \in Worker, Drop(w) PROVE TypeOK'
  BY <1>8, <1>r DEF Drop
<1>9. CASE Tick \/ BackoffEnds
  BY <1>9, RowTypes DEF Tick, BackoffEnds
<1>10. CASE UNCHANGED vars
  BY <1>10 DEF vars
<1> QED
  BY <1>1, <1>2, <1>3, <1>4, <1>5, <1>6, <1>7, <1>8, <1>9, <1>10 DEF Next, Work


\* What the review computes, in the fields the invariant speaks of.
LEMMA ProposalFields ==
  ASSUME NEW p \in Proposal
  PROVE  /\ Created(5).state = "prepared" /\ Created(5).level = 5
         /\ Issued(p, "approve").state = "prepared" /\ Issued(p, "approve").level = p.level
         /\ Approved(p).state = "approved" /\ Approved(p).level = p.level /\ Approved(p).approved
         /\ Rejected(p).state = "rejected" /\ Rejected(p).level = p.level
         /\ Started(p, FALSE).state = "executing" /\ Started(p, FALSE).level = p.level
         /\ Started(p, FALSE).approved = p.approved
         /\ Completed(p).state = "completed" /\ Completed(p).level = p.level
         /\ Completed(p).approved = p.approved
         /\ Failed(p).state = "failed" /\ Failed(p).level = p.level
         /\ Failed(p).approved = p.approved
         /\ Lapsed(p).state = p.state /\ Lapsed(p).level = p.level
         /\ Lapsed(p).approved = p.approved
BY DEF Created, Issued, Approved, Rejected, Started, Completed, Failed, Lapsed, Transition,
       Proposal

\* What a write leaves of the row.
LEMMA WrittenFields ==
  ASSUME delivery \in Delivery, NEW row \in Delivery, NEW out
  PROVE  /\ Written(row, out).state = out /\ Written(row, out).version = row.version + 1
         /\ Written(row, out).lease = 0 /\ Written(row, out).token = 0
BY DEF Written, Delivery

\* Only a worker's own actions move it, and a worker moves alone.
LEMMA OnlyWorkersMove ==
  ASSUME TypeOK, [Next]_vars
  PROVE  \/ UNCHANGED <<worker, claims, sent>>
         \/ \E w \in Worker : Work(w) \/ Drop(w)
BY DEF Next, vars, Prepare, Issue, Approve, Reject, Queue, Lapse, Review, Tick, BackoffEnds

\* Tokens: a claim takes a new one, and nothing else hands one out.
LEMMA TokensStep == TypeOK /\ TokensDistinct /\ [Next]_vars => TokensDistinct'
<1> SUFFICES ASSUME TypeOK, TokensDistinct, [Next]_vars PROVE TokensDistinct'
  OBVIOUS
<1> USE DEF TypeOK, TokensDistinct, Doing
<1>1. CASE UNCHANGED <<worker, claims, sent>>
  BY <1>1
<1>2. ASSUME NEW w \in Worker, ClaimRead(w) \/ Load(w) PROVE TokensDistinct'
  BY <1>2 DEF ClaimRead, Load, Goto, Report
<1>3. ASSUME NEW w \in Worker, ClaimWrite(w) PROVE TokensDistinct'
  <2>1. CASE Rest(w) /\ UNCHANGED <<claims, sent>>
    BY <2>1 DEF Rest, Idle
  <2>2. CASE ~(Rest(w) /\ UNCHANGED <<claims, sent>>)
    <3>1. /\ claims' = claims + 1 /\ sent' = sent
          /\ worker' = [worker EXCEPT ![w] =
                          [Idle EXCEPT !.phase = "loading", !.token = claims + 1]]
      BY <1>3, <2>2 DEF ClaimWrite
    <3>2. /\ worker'[w].phase = "loading" /\ worker'[w].token = claims + 1
          /\ worker'[w].outcome = "none"
          /\ \A v \in Worker : v # w => worker'[v] = worker[v]
      BY <3>1 DEF Idle
    <3>3. claims \in Nat /\ \A v \in Worker : worker[v].token < claims + 1
      OBVIOUS
    <3> QED
      BY <3>1, <3>2, <3>3
  <2> QED
    BY <2>1, <2>2
<1>4. ASSUME NEW w \in Worker, Send(w) PROVE TokensDistinct'
  BY <1>4 DEF Send, Report
<1>5. ASSUME NEW w \in Worker, Record(w) PROVE TokensDistinct'
  BY <1>5 DEF Record, Rest, Idle
<1>6. ASSUME NEW w \in Worker, Write(w) \/ Drop(w) PROVE TokensDistinct'
  BY <1>6 DEF Write, Drop, Rest, Idle
<1> QED
  BY <1>1, <1>2, <1>3, <1>4, <1>5, <1>6, OnlyWorkersMove DEF Work


\* Two workers never hold the claim at once, so at most one is writing.
LEMMA OneWriter == TypeOK /\ TokensDistinct /\ WritersHold => OneRecorder
<1> SUFFICES ASSUME TypeOK, TokensDistinct, WritersHold,
                    NEW v \in Worker, NEW w \in Worker,
                    worker[v].phase = "writing", worker[w].phase = "writing"
             PROVE  v = w
  BY DEF OneRecorder
<1>1. worker[v].token = delivery.token /\ worker[w].token = delivery.token
  BY DEF WritersHold, HoldsClaim
<1>2. worker[v].token > 0 /\ worker[w].token > 0
  BY DEF TokensDistinct
<1> QED
  BY <1>1, <1>2 DEF TokensDistinct

\* The delivery row changes in five places.
LEMMA OnlyTheseWriteTheRow ==
  ASSUME [Next]_vars
  PROVE  \/ UNCHANGED delivery
         \/ Queue \/ Tick \/ BackoffEnds
         \/ \E w \in Worker : ClaimWrite(w) \/ Write(w)
BY DEF Next, vars, Prepare, Issue, Approve, Reject, Lapse, Review, Work, ClaimRead, Load,
       Send, Record, Drop

\* Nobody has read a row that is not there yet.
LEMMA QueueIsFirst ==
  ASSUME Reviewed, Queue
  PROVE  delivery.state = "none"
BY DEF Reviewed, Queue

\* A worker's step moves that worker alone, ...
LEMMA WorkersMoveAlone ==
  ASSUME TypeOK, NEW w \in Worker, Work(w) \/ Drop(w), NEW v \in Worker, v # w
  PROVE  worker'[v] = worker[v]
BY DEF TypeOK, Work, ClaimRead, ClaimWrite, Load, Send, Record, Write, Drop, Goto, Report, Rest

\* ... and from one phase to the next.
LEMMA PhaseAfter ==
  ASSUME TypeOK, NEW w \in Worker
  PROVE  /\ ClaimRead(w) => worker'[w].phase = "claiming" /\ worker'[w].seen = delivery
         /\ ClaimWrite(w) => worker'[w].phase \in {"idle", "loading"}
         /\ Load(w) \/ Send(w) => worker'[w].phase \in {"sending", "recording"}
         /\ Record(w) => \/ worker'[w].phase = "idle"
                         \/ /\ worker'[w].phase = "writing"
                            /\ worker'[w].seen = delivery /\ worker'[w].token = worker[w].token
                            /\ HoldsClaim(w)
         /\ Write(w) \/ Drop(w) => worker'[w].phase = "idle"
<1> USE DEF TypeOK, Doing
<1>1. ClaimRead(w) => worker'[w].phase = "claiming" /\ worker'[w].seen = delivery
  BY DEF ClaimRead
<1>2. Rest(w) => worker'[w].phase = "idle"
  BY DEF Rest, Idle
<1>3. ClaimWrite(w) => worker'[w].phase \in {"idle", "loading"}
  <2>1. [Idle EXCEPT !.phase = "loading", !.token = claims + 1].phase = "loading"
    BY DEF Idle
  <2> QED
    BY <1>2, <2>1 DEF ClaimWrite
<1>4. Load(w) \/ Send(w) => worker'[w].phase \in {"sending", "recording"}
  BY DEF Load, Send, Goto, Report
<1>5. Record(w) => \/ worker'[w].phase = "idle"
                   \/ /\ worker'[w].phase = "writing"
                      /\ worker'[w].seen = delivery /\ worker'[w].token = worker[w].token
                      /\ HoldsClaim(w)
  BY <1>2 DEF Record
<1>6. Write(w) \/ Drop(w) => worker'[w].phase = "idle"
  BY <1>2 DEF Write, Drop
<1> QED
  BY <1>1, <1>3, <1>4, <1>5, <1>6

\* What a claim and a write do to the row.
LEMMA RowAfter ==
  ASSUME TypeOK, ReadersBehind, WritersHold, NEW w \in Worker
  PROVE  /\ ClaimWrite(w) =>
              \/ UNCHANGED delivery
              \/ /\ worker[w].phase = "claiming" /\ Unchanged(worker[w].seen)
                 /\ delivery'.state = "claimed" /\ delivery'.version = delivery.version + 1
         /\ Write(w) =>
              \/ UNCHANGED delivery
              \/ /\ worker[w].phase = "writing" /\ delivery'.state = worker[w].outcome
                 /\ delivery'.version = delivery.version + 1
<1>1. worker[w].seen \in Delivery /\ delivery \in Delivery
  BY DEF TypeOK, Doing
<1>2. ClaimWrite(w) =>
        \/ UNCHANGED delivery
        \/ /\ worker[w].phase = "claiming" /\ Unchanged(worker[w].seen)
           /\ delivery'.state = "claimed" /\ delivery'.version = delivery.version + 1
  <2> SUFFICES ASSUME ClaimWrite(w), delivery' # delivery
               PROVE  /\ worker[w].phase = "claiming" /\ Unchanged(worker[w].seen)
                      /\ delivery'.state = "claimed" /\ delivery'.version = delivery.version + 1
    OBVIOUS
  <2>1. /\ worker[w].phase = "claiming" /\ Unchanged(worker[w].seen)
        /\ delivery' = [delivery EXCEPT !.state = "claimed", !.token = claims + 1,
                          !.version = worker[w].seen.version + 1, !.lease = LeaseTicks,
                          !.attempts = worker[w].seen.attempts + 1]
    BY DEF ClaimWrite
  <2>2. delivery'.state = "claimed" /\ delivery'.version = worker[w].seen.version + 1
    BY <1>1, <2>1 DEF Delivery
  <2> QED
    BY <2>1, <2>2 DEF Unchanged
<1>3. Write(w) =>
        \/ UNCHANGED delivery
        \/ /\ worker[w].phase = "writing" /\ delivery'.state = worker[w].outcome
           /\ delivery'.version = delivery.version + 1
  BY <1>1, WrittenFields DEF Write, WritersHold
<1> QED
  BY <1>2, <1>3

\* A row is read before it is claimed, and every change makes an older reading
\* stale: the version grows with each claim and each outcome.
LEMMA ReadersStep ==
  TypeOK /\ TokensDistinct /\ Reviewed /\ ReadersBehind /\ WritersHold /\ [Next]_vars
    => ReadersBehind'
<1> SUFFICES ASSUME TypeOK, TokensDistinct, Reviewed, ReadersBehind, WritersHold,
                    [Next]_vars, NEW v \in Worker, worker'[v].phase = "claiming"
             PROVE  /\ delivery'.state # "none"
                    /\ worker'[v].seen.state \in Pending
                    /\ worker'[v].seen.version <= delivery'.version
                    /\ Unchanged(worker[v].seen)' /\ delivery'.state = "claimed"
                         => delivery'.lease = 0
  BY DEF ReadersBehind
<1> DEFINE seen == worker[v].seen
<1>t. delivery \in Delivery /\ seen \in Delivery
  BY DEF TypeOK, Doing
<1>1. CASE ClaimRead(v)
  <2>1. worker'[v].seen = delivery /\ UNCHANGED delivery /\ Claimable
    BY <1>1, PhaseAfter DEF ClaimRead
  <2> QED
    BY <2>1, <1>t DEF Claimable, Pending, Delivery
<1>2. CASE ~ClaimRead(v)
  <2>1. worker'[v] = worker[v]
    BY <1>2, OnlyWorkersMove, WorkersMoveAlone, PhaseAfter DEF Work
  <2>2. /\ delivery.state # "none" /\ seen.state \in Pending
        /\ seen.version <= delivery.version
        /\ Unchanged(seen) /\ delivery.state = "claimed" => delivery.lease = 0
    BY <2>1 DEF ReadersBehind
  <2> HIDE DEF seen
  <2>3. CASE UNCHANGED delivery
    BY <2>1, <2>2, <2>3 DEF Unchanged, seen
  <2>4. CASE Queue
    BY <2>2, <2>4, QueueIsFirst
  <2>5. CASE Tick
    BY <1>t, <2>1, <2>2, <2>5 DEF Tick, Unchanged, Delivery, seen
  <2>6. CASE BackoffEnds
    BY <1>t, <2>1, <2>2, <2>6 DEF BackoffEnds, Unchanged, Delivery, seen
  <2>7. ASSUME NEW w \in Worker, ClaimWrite(w) \/ Write(w), delivery' # delivery
        PROVE  delivery'.version = delivery.version + 1 /\ delivery'.state # "none"
    BY <2>7, RowAfter DEF TokensDistinct
  <2>8. CASE delivery'.version = delivery.version + 1 /\ delivery'.state # "none"
    BY <1>t, <2>1, <2>2, <2>8 DEF Unchanged, Delivery, seen
  <2> QED
    BY <2>3, <2>4, <2>5, <2>6, <2>7, <2>8, OnlyTheseWriteTheRow DEF seen
<1> QED
  BY <1>1, <1>2

\* A writer keeps its claim: the clock waits for it, no reader can take a row
\* whose lease runs, and nobody else holds its token.
LEMMA WritersStep ==
  PromptCommit /\ IInv /\ [Next]_vars => WritersHold'
<1> SUFFICES ASSUME PromptCommit, IInv, [Next]_vars,
                    NEW v \in Worker, worker'[v].phase = "writing"
             PROVE  worker'[v].seen = delivery' /\ HoldsClaim(v)'
  BY DEF WritersHold
<1> USE DEF IInv, UInv
<1>1. CASE Record(v)
  BY <1>1, PhaseAfter DEF Record, HoldsClaim
<1>2. CASE ~Record(v)
  <2>1. worker'[v] = worker[v] /\ worker[v].phase = "writing"
    BY <1>2, OnlyWorkersMove, WorkersMoveAlone, PhaseAfter DEF Work
  <2>2. /\ worker[v].seen = delivery /\ delivery.state = "claimed"
        /\ delivery.token = worker[v].token /\ delivery.lease > 0
    BY <2>1 DEF WritersHold, HoldsClaim
  <2>3. ~Queue /\ ~Tick /\ ~BackoffEnds
    BY <2>1, <2>2, QueueIsFirst DEF Tick, BackoffEnds
  <2>4. ASSUME NEW w \in Worker, ClaimWrite(w) PROVE UNCHANGED delivery
    <3>1. ~Unchanged(worker[w].seen) \/ worker[w].phase # "claiming"
      BY <2>2 DEF ReadersBehind
    <3> QED
      BY <2>4, <3>1 DEF ClaimWrite
  <2>5. ASSUME NEW w \in Worker, Write(w) PROVE FALSE
    <3>1. w = v
      BY <2>1, <2>5, OneWriter DEF OneRecorder, Write
    <3> QED
      BY <2>1, <2>5, <3>1, PhaseAfter
  <2>6. UNCHANGED delivery
    BY <2>3, <2>4, <2>5, OnlyTheseWriteTheRow
  <2> QED
    BY <2>1, <2>2, <2>6 DEF HoldsClaim
<1> QED
  BY <1>1, <1>2

\* The outcome a worker is about to write, and what it has read, are well-formed.
LEMMA WritesOutcome ==
  ASSUME TypeOK, TokensDistinct, NEW w \in Worker, Write(w)
  PROVE  /\ worker[w].outcome \in {"delivered", "retry", "failed"}
         /\ worker[w].seen \in Delivery /\ claims > 0
         /\ worker[w].outcome = "delivered" => sent > 0
<1>1. worker[w] \in Doing /\ worker[w].phase = "writing"
  BY DEF TypeOK, Write
<1> QED
  BY <1>1 DEF TypeOK, TokensDistinct, Doing

\* A write that changes anything changes the rows together, or is a retry.
LEMMA WriteMoves ==
  ASSUME UInv, NEW w \in Worker, Write(w)
  PROVE  \/ UNCHANGED <<proposal, draft, delivery>>
         \/ /\ worker[w].outcome = "retry" /\ UNCHANGED <<proposal, draft>>
            /\ delivery'.state = "retry"
         \/ /\ worker[w].outcome = "delivered" /\ proposal.state = "executing"
            /\ proposal' = Completed(proposal) /\ draft' = "delivered"
            /\ delivery'.state = "delivered"
         \/ /\ worker[w].outcome = "failed" /\ proposal.state = "executing"
            /\ proposal' = Failed(proposal) /\ draft' = "failed"
            /\ delivery'.state = "failed"
<1> DEFINE out == worker[w].outcome
<1>1. /\ out \in {"delivered", "retry", "failed"} /\ worker[w].seen \in Delivery
      /\ delivery \in Delivery
  BY WritesOutcome DEF UInv, TypeOK
<1>2. CASE UNCHANGED <<proposal, draft, delivery>>
  BY <1>2
<1>3. CASE ~UNCHANGED <<proposal, draft, delivery>>
  <2>1. /\ out = "retry" \/ proposal.state = "executing"
        /\ delivery' = Written(worker[w].seen, out) /\ draft' = DraftAfter(out)
        /\ out = "delivered" => proposal' = Completed(proposal)
        /\ out = "failed" => proposal' = Failed(proposal)
        /\ out = "retry" => proposal' = proposal
    BY <1>1, <1>3 DEF Write
  <2>2. delivery'.state = out
    BY <1>1, <2>1, WrittenFields
  <2>3. draft' = IF out = "retry" THEN draft ELSE out
    BY <2>1 DEF DraftAfter
  <2> QED
    BY <1>1, <2>1, <2>2, <2>3
<1> QED
  BY <1>2, <1>3

\* Review and outcome move proposal and draft together: the proposal's state is
\* fenced by the compare-and-set, and the draft goes with it.
LEMMA DraftStep == UInv /\ [Next]_vars => DraftFollows'
<1> SUFFICES ASSUME UInv, [Next]_vars PROVE DraftFollows'
  OBVIOUS
<1> USE DEF DraftFollows
<1>t. proposal \in Proposal
  BY DEF UInv, TypeOK
<1>s. DraftFollows
  BY DEF UInv
<1>1. CASE Prepare
  <2>1. proposal' = Created(5) /\ draft' = "pending_review"
    BY <1>1 DEF Prepare, Review
  <2> QED
    BY <1>t, <2>1, ProposalFields
<1>2. CASE Issue
  <2>1. /\ proposal.state \in {"prepared", "approved"} /\ draft' = draft
        /\ proposal' = Issued(proposal, "approve")
    BY <1>2 DEF Issue, IssueOk, Review
  <2> QED
    BY <1>t, <1>s, <2>1, ProposalFields
<1>3. CASE Approve
  <2>1. proposal.state = "prepared" /\ proposal' = Approved(proposal) /\ draft' = draft
    BY <1>3 DEF Approve, ApproveOk, Review
  <2> QED
    BY <1>t, <1>s, <2>1, ProposalFields
<1>4. CASE Reject
  <2>1. /\ proposal.state \in {"prepared", "approved"} /\ proposal' = Rejected(proposal)
        /\ draft = "pending_review" => draft' = "rejected"
    BY <1>4 DEF Reject, RejectOk, Review
  <2> QED
    BY <1>t, <1>s, <2>1, ProposalFields
<1>5. CASE Queue
  <2>1. proposal' = Started(proposal, FALSE) /\ draft' = "queued"
    BY <1>5 DEF Queue
  <2> QED
    BY <1>t, <2>1, ProposalFields
<1>6. CASE Lapse
  BY <1>6, <1>t, <1>s, ProposalFields DEF Lapse
<1>7. ASSUME NEW w \in Worker, Write(w) PROVE DraftFollows'
  <2>1. CASE UNCHANGED <<proposal, draft>>
    BY <1>s, <2>1
  <2>2. CASE proposal' = Completed(proposal) /\ draft' = "delivered"
    <3>1. proposal'.state = "completed"
      BY <1>t, <2>2, ProposalFields
    <3> QED
      BY <2>2, <3>1
  <2>3. CASE proposal' = Failed(proposal) /\ draft' = "failed"
    <3>1. proposal'.state = "failed"
      BY <1>t, <2>3, ProposalFields
    <3> QED
      BY <2>3, <3>1
  <2> HIDE DEF DraftFollows
  <2> QED
    BY <1>7, <2>1, <2>2, <2>3, WriteMoves
<1>8. CASE UNCHANGED <<proposal, draft>>
  BY <1>8, <1>s
<1> QED
  BY <1>1, <1>2, <1>3, <1>4, <1>5, <1>6, <1>7, <1>8
  DEF Next, vars, Work, ClaimRead, ClaimWrite, Load, Send, Record, Drop, Tick, BackoffEnds

\* The delivery is there from the start of the execution on, with an approval.
LEMMA ReviewStep == UInv /\ [Next]_vars => Reviewed'
<1> SUFFICES ASSUME UInv, [Next]_vars PROVE Reviewed'
  OBVIOUS
<1> USE DEF Reviewed
<1>t. proposal \in Proposal /\ delivery \in Delivery /\ TypeOK /\ TokensDistinct
  BY DEF UInv, TypeOK
<1>s. Reviewed /\ DraftFollows
  BY DEF UInv
<1>1. CASE Prepare \/ Issue \/ Approve \/ Reject
  <2>1. UNCHANGED <<delivery, claims, worker>>
    BY <1>1 DEF Prepare, Issue, Approve, Reject, Review
  <2>2. /\ proposal.state \in {"absent", "prepared", "approved"}
        /\ draft' \in {"none", "pending_review", "rejected"}
    BY <1>1, <1>s DEF Prepare, Issue, IssueOk, Approve, ApproveOk, Reject, RejectOk, Review,
                      DraftFollows
  <2>3. delivery.state = "none"
    BY <1>s, <2>2 DEF DraftFollows
  <2>4. /\ proposal'.level = 5
        /\ proposal'.state \in {"prepared", "approved", "rejected"}
        /\ proposal'.state = "approved" => proposal'.approved
    <3>1. CASE Prepare
      BY <3>1, <1>t, ProposalFields DEF Prepare, Review
    <3>2. CASE Issue
      <4>1. proposal' = Issued(proposal, "approve") /\ proposal.state \in {"prepared", "approved"}
        BY <3>2 DEF Issue, IssueOk, Review
      <4> QED
        BY <4>1, <1>t, <1>s, ProposalFields
    <3>3. CASE Approve
      <4>1. proposal' = Approved(proposal) /\ proposal.state = "prepared"
        BY <3>3 DEF Approve, ApproveOk, Review
      <4> QED
        BY <4>1, <1>t, <1>s, ProposalFields
    <3>4. CASE Reject
      <4>1. proposal' = Rejected(proposal) /\ proposal.state \in {"prepared", "approved"}
        BY <3>4 DEF Reject, RejectOk, Review
      <4> QED
        BY <4>1, <1>t, <1>s, ProposalFields
    <3> QED
      BY <1>1, <3>1, <3>2, <3>3, <3>4
  <2> QED
    BY <1>s, <2>1, <2>2, <2>3, <2>4
<1>2. CASE Queue
  <2>1. proposal.state = "approved"
    BY <1>2, <1>s DEF Queue, StartOk, Confirmed, DraftFollows
  <2>2. delivery'.state = "queued" /\ draft' = "queued" /\ proposal' = Started(proposal, FALSE)
    BY <1>2 DEF Queue, NoDelivery
  <2>3. proposal'.level = proposal.level /\ (proposal'.approved <=> proposal.approved)
    BY <1>t, <2>2, ProposalFields
  <2> QED
    BY <1>s, <2>1, <2>2, <2>3
<1>3. CASE Lapse
  BY <1>3, <1>t, <1>s, ProposalFields DEF Lapse
<1>4. CASE Tick \/ BackoffEnds
  <2>1. delivery'.state = delivery.state /\ UNCHANGED <<proposal, draft, claims, worker>>
    BY <1>4, <1>t DEF Tick, BackoffEnds, Delivery
  <2> QED
    BY <1>s, <2>1
<1>5. ASSUME NEW w \in Worker, ClaimWrite(w) PROVE Reviewed'
  <2>1. /\ UNCHANGED <<proposal, draft>> /\ worker[w].phase = "claiming"
        /\ delivery' = delivery \/ delivery'.state = "claimed"
    BY <1>5, <1>t DEF ClaimWrite, Delivery
  <2>2. delivery.state # "none"
    BY <1>s, <2>1
  <2> QED
    BY <1>s, <2>1, <2>2
<1>6. ASSUME NEW w \in Worker, Write(w) PROVE Reviewed'
  <2>1. delivery.state # "none" /\ claims' = claims
    BY <1>6, <1>s DEF Write
  <2>2. delivery'.state # "none"
    BY <1>6, <2>1, WriteMoves
  <2>3. /\ proposal'.state # "absent" => proposal'.level = 5
        /\ proposal'.state \in {"approved", "executing", "completed", "failed"}
             => proposal'.approved
    <3>1. \/ proposal' = proposal
          \/ /\ proposal.state = "executing"
             /\ proposal' = Completed(proposal) \/ proposal' = Failed(proposal)
      BY <1>6, WriteMoves
    <3>2. CASE proposal' = proposal
      BY <1>s, <3>2
    <3>3. CASE /\ proposal.state = "executing"
               /\ proposal' = Completed(proposal) \/ proposal' = Failed(proposal)
      <4>1. proposal.level = 5 /\ proposal.approved
        BY <1>s, <3>3
      <4>2. proposal'.level = 5 /\ proposal'.approved
        <5>1. /\ Completed(proposal).level = proposal.level
              /\ Failed(proposal).level = proposal.level
              /\ Completed(proposal).approved <=> proposal.approved
              /\ Failed(proposal).approved <=> proposal.approved
          BY <1>t, ProposalFields
        <5> QED
          BY <3>3, <4>1, <5>1
      <4> QED
        BY <4>2
    <3> QED
      BY <3>1, <3>2, <3>3
  <2>4. /\ draft' \notin {"none", "pending_review", "rejected"}
        /\ delivery'.state \in {"delivered", "failed"} => draft' = delivery'.state
    BY <1>6, <1>s, <2>1, WriteMoves
  <2> QED
    BY <2>2, <2>3, <2>4
<1>7. ASSUME NEW w \in Worker, ClaimRead(w) PROVE Reviewed'
  <2>1. delivery.state # "none" /\ UNCHANGED <<proposal, draft, delivery, claims>>
    BY <1>7 DEF ClaimRead, Claimable
  <2> QED
    BY <1>s, <2>1
<1>8. ASSUME NEW w \in Worker, Load(w) \/ Send(w) \/ Record(w) \/ Drop(w) PROVE Reviewed'
  <2>1. UNCHANGED <<proposal, draft, delivery, claims>>
    BY <1>8 DEF Load, Send, Record, Drop
  <2>2. \A v \in Worker : worker'[v].phase # "idle" => worker[v].phase # "idle"
    <3>1. worker'[w].phase # "idle" => worker[w].phase # "idle"
      BY <1>8, <1>t, PhaseAfter DEF Load, Send, Record
    <3> QED
      BY <1>8, <1>t, <3>1, WorkersMoveAlone DEF Work
  <2> QED
    BY <1>s, <2>1, <2>2
<1>9. CASE UNCHANGED <<proposal, draft, delivery, claims, worker>>
  BY <1>9, <1>s
<1> QED
  BY <1>1, <1>2, <1>3, <1>4, <1>5, <1>6, <1>7, <1>8, <1>9 DEF Next, vars, Work

\* What the user is shown follows the fences alone: the delivery is in step with
\* it as soon as a pending delivery is of a queued draft.
LEMMA PendingIsEnough ==
  ASSUME TypeOK, DraftFollows, Reviewed, delivery.state \in Pending => draft = "queued"
  PROVE  StatesAgree
<1>1. delivery.state \in {"none", "queued", "claimed", "retry", "delivered", "failed"}
  BY DEF TypeOK, Delivery, DeliveryState
<1> QED
  BY <1>1 DEF DraftFollows, Reviewed, Pending, StatesAgree

\* A claim takes a pending row and a write a claimed one, so a recorded outcome
\* is never replaced.
LEMMA RowStateStep ==
  ASSUME IInv, [Next]_vars
  PROVE  \/ delivery'.state = delivery.state
         \/ Queue
         \/ \E w \in Worker : ClaimWrite(w) /\ delivery.state \in Pending /\ delivery'.state = "claimed"
         \/ \E w \in Worker :
              Write(w) /\ delivery.state = "claimed" /\ delivery'.state = worker[w].outcome
<1> USE DEF IInv, UInv
<1>t. delivery \in Delivery
  BY DEF TypeOK
<1>1. CASE Tick \/ BackoffEnds
  BY <1>t, <1>1 DEF Tick, BackoffEnds, Delivery
<1>2. ASSUME NEW w \in Worker, ClaimWrite(w), delivery' # delivery
      PROVE  delivery.state \in Pending /\ delivery'.state = "claimed"
  BY <1>2, RowAfter DEF ReadersBehind, Unchanged
<1>3. ASSUME NEW w \in Worker, Write(w), delivery' # delivery
      PROVE  delivery.state = "claimed" /\ delivery'.state = worker[w].outcome
  BY <1>3, RowAfter DEF WritersHold, HoldsClaim
<1> QED
  BY <1>1, <1>2, <1>3, OnlyTheseWriteTheRow

\* A draft leaves "queued" with the row of its delivery.
LEMMA AgreeStep ==
  ASSUME IInv, [Next]_vars, (TypeOK /\ DraftFollows /\ Reviewed)'
  PROVE  StatesAgree'
<1>1. delivery'.state \in Pending => draft' = "queued"
  <2> SUFFICES ASSUME delivery'.state \in Pending PROVE draft' = "queued"
    OBVIOUS
  <2>1. CASE Queue
    BY <2>1 DEF Queue
  <2>2. CASE ~Queue
    <3>1. delivery.state \in Pending
      BY <2>2, RowStateStep DEF Pending
    <3>2. draft = "queued" /\ proposal.state = "executing"
      BY <3>1 DEF IInv, StatesAgree
    <3>3. ASSUME NEW w \in Worker, Write(w) PROVE draft' = draft
      BY <3>3, WriteMoves DEF IInv, Pending
    <3>4. draft' = draft
      BY <2>2, <3>2, <3>3
      DEF Next, vars, Prepare, Issue, Approve, Reject, RejectOk, Lapse, Review, Work, ClaimRead,
          ClaimWrite, Load, Send, Record, Drop, Tick, BackoffEnds
    <3> QED
      BY <3>2, <3>4
  <2> QED
    BY <2>1, <2>2
<1> HIDE DEF Pending
<1>2. (delivery.state \in Pending => draft = "queued")'
  BY <1>1 DEF Pending
<1>3. (TypeOK /\ DraftFollows /\ Reviewed /\ (delivery.state \in Pending => draft = "queued")
         => StatesAgree)'
  BY PendingIsEnough, PTL
<1> QED
  BY <1>2, <1>3

\* The workers that carry a copy change one at a time.
LEMMA CarryingAfter ==
  ASSUME TypeOK, [Next]_vars
  PROVE  \/ Carrying' = Carrying /\ UNCHANGED <<claims, sent>>
         \/ \E w \in Worker :
              /\ w \notin Carrying /\ Carrying' = Carrying \union {w}
              /\ claims' = claims + 1 /\ sent' = sent
         \/ \E w \in Worker :
              /\ w \in Carrying /\ Carrying' = Carrying \ {w}
              /\ claims' = claims /\ sent' \in {sent, sent + 1}
<1> USE DEF Carrying
<1>1. CASE UNCHANGED <<worker, claims, sent>>
  BY <1>1
<1>2. ASSUME NEW w \in Worker, Work(w) \/ Drop(w)
      PROVE  \/ Carrying' = Carrying /\ UNCHANGED <<claims, sent>>
             \/ /\ w \notin Carrying /\ Carrying' = Carrying \union {w}
                /\ claims' = claims + 1 /\ sent' = sent
             \/ /\ w \in Carrying /\ Carrying' = Carrying \ {w}
                /\ claims' = claims /\ sent' \in {sent, sent + 1}
  <2>0. \A v \in Worker : v # w => worker'[v] = worker[v]
    BY <1>2, WorkersMoveAlone
  <2>1. CASE ClaimRead(w)
    BY <2>0, <2>1, PhaseAfter DEF ClaimRead, Idle
  <2>2. CASE ClaimWrite(w)
    <3>1. worker[w].phase = "claiming" /\ sent' = sent
      BY <2>2 DEF ClaimWrite
    <3>2. \/ worker'[w].phase = "idle" /\ claims' = claims
          \/ worker'[w].phase = "loading" /\ claims' = claims + 1
      <4>1. /\ Idle.phase = "idle"
            /\ [Idle EXCEPT !.phase = "loading", !.token = claims + 1].phase = "loading"
        BY DEF Idle
      <4> QED
        BY <2>2, <4>1 DEF ClaimWrite, Rest, TypeOK
    <3> QED
      BY <2>0, <3>1, <3>2
  <2>3. CASE Load(w)
    <3>1. /\ worker[w].phase = "loading" /\ worker'[w].phase \in {"sending", "recording"}
          /\ UNCHANGED <<claims, sent>>
      BY <2>3, PhaseAfter DEF Load
    <3> QED
      BY <2>0, <3>1
  <2>4. CASE Send(w)
    <3>1. /\ worker[w].phase = "sending" /\ worker'[w].phase = "recording"
          /\ claims' = claims /\ sent' \in {sent, sent + 1}
      BY <2>4 DEF Send, Report, TypeOK, Doing
    <3> QED
      BY <2>0, <3>1
  <2>5. CASE Record(w) \/ Write(w)
    <3>1. /\ worker[w].phase \in {"recording", "writing"} /\ worker'[w].phase \in {"idle", "writing"}
          /\ UNCHANGED <<claims, sent>>
      BY <2>5, PhaseAfter DEF Record, Write
    <3> QED
      BY <2>0, <3>1
  <2>6. CASE Drop(w)
    <3>1. worker'[w].phase = "idle" /\ UNCHANGED <<claims, sent>>
      BY <2>6, PhaseAfter DEF Drop
    <3> QED
      BY <2>0, <3>1
  <2> QED
    BY <1>2, <2>1, <2>2, <2>3, <2>4, <2>5, <2>6 DEF Work
<1> QED
  BY <1>1, <1>2, OnlyWorkersMove

\* Each claim is carried by one worker, which sends it at most once.
LEMMA CopiesStep == TypeOK /\ CopiesCounted /\ [Next]_vars => CopiesCounted'
<1> SUFFICES ASSUME TypeOK, CopiesCounted, [Next]_vars PROVE CopiesCounted'
  OBVIOUS
<1>t. IsFiniteSet(Carrying) /\ Cardinality(Carrying) \in Nat /\ sent \in Nat /\ claims \in Nat
  BY FS_CardinalityType DEF CopiesCounted, TypeOK
<1>1. CASE Carrying' = Carrying /\ UNCHANGED <<claims, sent>>
  BY <1>1 DEF CopiesCounted
<1>2. ASSUME NEW w \in Worker, w \notin Carrying, Carrying' = Carrying \union {w},
             claims' = claims + 1, sent' = sent
      PROVE  CopiesCounted'
  <2>1. IsFiniteSet(Carrying') /\ Cardinality(Carrying') = Cardinality(Carrying) + 1
    BY <1>2, <1>t, FS_AddElement
  <2> QED
    BY <1>2, <1>t, <2>1 DEF CopiesCounted
<1>3. ASSUME NEW w \in Worker, w \in Carrying, Carrying' = Carrying \ {w},
             claims' = claims, sent' \in {sent, sent + 1}
      PROVE  CopiesCounted'
  <2>1. IsFiniteSet(Carrying') /\ Cardinality(Carrying') = Cardinality(Carrying) - 1
    BY <1>3, <1>t, FS_RemoveElement
  <2> QED
    BY <1>3, <1>t, <2>1 DEF CopiesCounted
<1> QED
  BY <1>1, <1>2, <1>3, CarryingAfter

\* Whatever a transaction outlives, ...
LEMMA FencesStep == UInv /\ [Next]_vars => UInv'
BY TypeStep, TokensStep, DraftStep, ReviewStep, CopiesStep DEF UInv

THEOREM FencesInvariant == Spec => []UInv
<1>1. Init => UInv
  BY InitEstablishes DEF IInv
<1> QED
  BY <1>1, FencesStep, PTL DEF Spec

\* ... and if none outlives the lease it checked.
LEMMA ClaimsStep == PromptCommit /\ IInv /\ [Next]_vars => IInv'
<1> SUFFICES ASSUME PromptCommit, IInv, [Next]_vars PROVE IInv'
  OBVIOUS
<1>1. UInv'
  BY FencesStep DEF IInv
<1>2. ReadersBehind' /\ WritersHold'
  BY ReadersStep, WritersStep DEF IInv, UInv
<1>3. StatesAgree'
  BY <1>1, AgreeStep DEF UInv
<1> QED
  BY <1>1, <1>2, <1>3 DEF IInv

THEOREM Invariant == ASSUME PromptCommit PROVE Spec => []IInv
  BY ClaimsStep, InitEstablishes, PTL DEF Spec

\* The rows of the outbox and what its workers hold stay well-formed.
THEOREM TypeCorrect == Spec => []TypeOK
BY FencesInvariant, PTL DEF UInv

\* The proposal, the draft and the delivery row agree at every commit, if no
\* transaction outlives the lease it checked.
THEOREM RowsAgree == ASSUME PromptCommit PROVE Spec => []StatesAgree
BY Invariant, PTL DEF IInv

\* At most one worker at a time has passed the check of its claim, if none
\* outlives the lease it checked.
THEOREM OnlyOneRecorder == ASSUME PromptCommit PROVE Spec => []OneRecorder
<1>1. IInv => OneRecorder
  BY OneWriter DEF IInv, UInv
<1> QED
  BY <1>1, Invariant, PTL

\* Workers take on only what a human approved, and send it at most once a claim.
THEOREM OnlyApproved == Spec => []OnlyApprovedIsClaimed
<1>1. UInv => OnlyApprovedIsClaimed
  <2> SUFFICES ASSUME UInv PROVE OnlyApprovedIsClaimed
    OBVIOUS
  <2> DEFINE Sending == {w \in Worker : worker[w].phase = "sending"}
  <2>1. claims > 0 => proposal.approved /\ proposal.state \in {"executing", "completed", "failed"}
    BY DEF UInv, TypeOK, Proposal, State, DraftFollows, Reviewed
  <2>2. /\ IsFiniteSet(Carrying) /\ sent + Cardinality(Carrying) <= claims
        /\ sent \in Nat /\ claims \in Nat
    BY DEF UInv, CopiesCounted, TypeOK
  <2>3. Sending \subseteq Carrying
    BY DEF Carrying
  <2>4. IsFiniteSet(Sending) /\ Cardinality(Sending) <= Cardinality(Carrying)
    BY <2>2, <2>3, FS_Subset
  <2>5. Cardinality(Sending) \in Nat /\ Cardinality(Carrying) \in Nat
    BY <2>2, <2>4, FS_CardinalityType
  <2>6. sent + Cardinality(Sending) <= claims
    BY <2>2, <2>4, <2>5
  <2> QED
    BY <2>1, <2>6 DEF OnlyApprovedIsClaimed
<1> QED
  BY <1>1, FencesInvariant, PTL

\* The outcome the delivery row records is final, if no transaction outlives the
\* lease it checked.
THEOREM OutcomeIsFinal == ASSUME PromptCommit PROVE Spec => SettledIsFinal
<1>1. IInv /\ [Next]_vars =>
        [delivery.state \in {"delivered", "failed"} => delivery'.state = delivery.state]_vars
  <2> SUFFICES ASSUME IInv, [Next]_vars, delivery.state \in {"delivered", "failed"}
               PROVE  delivery'.state = delivery.state
    OBVIOUS
  <2>1. ~Queue
    BY QueueIsFirst DEF IInv, UInv
  <2> QED
    BY <2>1, RowStateStep DEF Pending
<1> QED
  BY <1>1, Invariant, PTL DEF Spec, SettledIsFinal

-----------------------------------------------------------------------------
(* The refinement.  In a state of the invariant, whatever the leases:      *)

\* The review and its decision.
LEMMA ReviewRefines ==
  ASSUME UInv, Prepare \/ Issue \/ Approve \/ Reject \/ Queue \/ Lapse
  PROVE  Abstract!Next \/ UNCHANGED <<PhaseOf, claims, sent>>
<1> USE DEF PhaseOf
<1>1. UNCHANGED <<claims, sent>>
  BY DEF Prepare, Issue, Approve, Reject, Queue, Lapse, Review
<1>2. CASE Prepare
  <2>1. draft = "none" /\ draft' = "pending_review"
    BY <1>2 DEF UInv, DraftFollows, Prepare, Review
  <2> QED
    BY <1>1, <2>1 DEF Abstract!Next, Abstract!Prepare
<1>3. CASE Reject \/ Queue
  <2>1. draft = "pending_review" /\ draft' \in {"rejected", "queued"}
    BY <1>3 DEF UInv, DraftFollows, Reject, RejectOk, Review, Queue
  <2> QED
    BY <1>1, <2>1 DEF Abstract!Next, Abstract!Decide
<1>4. CASE Issue \/ Approve \/ Lapse
  <2>1. draft' = draft
    BY <1>4 DEF Issue, Approve, Lapse, Review
  <2> QED
    BY <1>1, <2>1
<1> QED
  BY <1>2, <1>3, <1>4

\* A claim takes the message on; late only if a transaction may be late.
LEMMA ClaimRefines ==
  ASSUME UInv, PromptCommit => IInv, NEW w \in Worker, ClaimWrite(w)
  PROVE  Abstract!Next \/ UNCHANGED <<PhaseOf, claims, sent>>
<1> USE DEF PhaseOf
<1>1. sent' = sent /\ draft' = draft /\ worker[w].phase = "claiming"
  BY DEF ClaimWrite
<1>2. CASE claims' = claims
  BY <1>1, <1>2
<1>3. CASE claims' # claims
  <2>1. claims' = claims + 1 /\ Unchanged(worker[w].seen)
    BY <1>3 DEF ClaimWrite
  <2>2. draft \in {"queued", "delivered", "failed"}
    BY <1>1 DEF UInv, TypeOK, DraftState, Reviewed
  <2>3. PromptCommit => draft = "queued"
    BY <1>1, <2>1 DEF IInv, ReadersBehind, Unchanged, StatesAgree
  <2> QED
    BY <1>1, <2>1, <2>2, <2>3 DEF Abstract!Next, Abstract!Take
<1> QED
  BY <1>2, <1>3

\* A copy leaves for a claim that has sent none yet.
LEMMA SendRefines ==
  ASSUME UInv, NEW w \in Worker, Send(w), sent' # sent
  PROVE  Abstract!Next
<1>1. sent' = sent + 1 /\ UNCHANGED <<draft, claims>> /\ w \in Carrying
  BY DEF Send, Carrying
<1>2. sent < claims
  <2>1. /\ IsFiniteSet(Carrying) /\ sent + Cardinality(Carrying) <= claims
        /\ sent \in Nat /\ claims \in Nat
    BY DEF UInv, CopiesCounted, TypeOK
  <2>2. Cardinality(Carrying) \in Nat /\ Cardinality(Carrying) # 0
    BY <1>1, <2>1, FS_CardinalityType, FS_EmptySet
  <2> QED
    BY <2>1, <2>2
<1>3. draft \in {"queued", "delivered", "failed"}
  BY DEF UInv, TypeOK, DraftState, Reviewed, Send
<1> QED
  BY <1>1, <1>2, <1>3 DEF Abstract!Next, Abstract!Send, PhaseOf

\* An outcome is told once, of a message that was sent or given up.
LEMMA WriteRefines ==
  ASSUME UInv, NEW w \in Worker, Write(w)
  PROVE  Abstract!Next \/ UNCHANGED <<PhaseOf, claims, sent>>
<1>1. UNCHANGED <<claims, sent>>
  BY DEF Write
<1>2. claims > 0 /\ (worker[w].outcome = "delivered" => sent > 0)
  BY WritesOutcome DEF UInv
<1>3. proposal.state = "executing" => draft = "queued"
  BY DEF UInv, DraftFollows
<1>4. \/ draft' = draft
      \/ draft = "queued" /\ draft' = "delivered" /\ sent > 0
      \/ draft = "queued" /\ draft' = "failed"
  BY <1>2, <1>3, WriteMoves
<1> QED
  BY <1>1, <1>2, <1>4 DEF Abstract!Next, Abstract!Deliver, Abstract!GiveUp, PhaseOf

LEMMA StepRefines ==
  UInv /\ (PromptCommit => IInv) /\ [Next]_vars => [Abstract!Next]_<<PhaseOf, claims, sent>>
<1> SUFFICES ASSUME UInv, PromptCommit => IInv, [Next]_vars
             PROVE  Abstract!Next \/ UNCHANGED <<PhaseOf, claims, sent>>
  OBVIOUS
<1>1. CASE UNCHANGED <<draft, claims, sent>>
  BY <1>1 DEF PhaseOf
<1>2. CASE Prepare \/ Issue \/ Approve \/ Reject \/ Queue \/ Lapse
  BY <1>2, ReviewRefines
<1>3. ASSUME NEW w \in Worker, Work(w) \/ Drop(w), ~UNCHANGED <<draft, claims, sent>>
      PROVE  Abstract!Next \/ UNCHANGED <<PhaseOf, claims, sent>>
  <2>1. ClaimWrite(w) \/ Write(w) \/ (Send(w) /\ sent' # sent)
    BY <1>3 DEF Work, ClaimRead, Load, Send, Record, Drop
  <2> QED
    BY <2>1, ClaimRefines, WriteRefines, SendRefines
<1> QED
  BY <1>1, <1>2, <1>3 DEF Next, vars, Tick, BackoffEnds

\* The outbox implements ApprovedDelivery: the review, a claim, a copy and an
\* outcome are its steps, everything else stutters.
THEOREM Implements == Spec => ImplementsApprovedDelivery
<1>1. Init => Abstract!Init
  BY DEF Init, Abstract!Init, PhaseOf
<1>2. CASE PromptCommit
  <2>1. IInv => UInv
    BY DEF IInv
  <2>2. IInv /\ [Next]_vars => [Abstract!Next]_<<PhaseOf, claims, sent>>
    BY <2>1, StepRefines
  <2>3. Spec => []IInv
    BY <1>2, Invariant
  <2> QED
    BY <1>1, <2>2, <2>3, PTL DEF Spec, Abstract!Spec, ImplementsApprovedDelivery
<1>3. CASE ~PromptCommit
  <2>1. UInv /\ [Next]_vars => [Abstract!Next]_<<PhaseOf, claims, sent>>
    BY <1>3, StepRefines
  <2> QED
    BY <1>1, <2>1, FencesInvariant, PTL DEF Spec, Abstract!Spec, ImplementsApprovedDelivery
<1> QED
  BY <1>2, <1>3

\* What the user was told is final and true, however long a recording
\* transaction takes: proposal and draft leave "rejected", "delivered" and
\* "failed" never, agree on them, and "delivered" has a copy that left.
ToldOnce ==
  [][ (draft \in {"rejected", "delivered", "failed"}) =>
        draft' = draft /\ proposal'.state = proposal.state ]_vars

ToldTruly ==
  /\ draft = "delivered" <=> proposal.state = "completed"
  /\ draft = "failed" <=> proposal.state = "failed"
  /\ draft = "rejected" <=> proposal.state = "rejected"
  /\ draft = "delivered" => sent > 0

\* A draft that says "delivered" was written by a worker that had sent a copy.
LEMMA SentStep ==
  UInv /\ (draft = "delivered" => sent > 0) /\ [Next]_vars => (draft = "delivered" => sent > 0)'
<1> SUFFICES ASSUME UInv, draft = "delivered" => sent > 0, [Next]_vars, draft' = "delivered"
             PROVE  sent' > 0
  OBVIOUS
<1>1. ASSUME NEW w \in Worker, Write(w) PROVE sent' > 0
  <2>1. sent' = sent /\ (worker[w].outcome = "delivered" => sent > 0)
    BY <1>1, WritesOutcome DEF UInv, Write
  <2> QED
    BY <1>1, <2>1, WriteMoves
<1>2. ASSUME NEW w \in Worker, Send(w) PROVE sent' > 0
  BY <1>2 DEF Send, UInv, TypeOK
<1>3. CASE UNCHANGED sent /\ (draft' = draft \/ draft' # "delivered")
  BY <1>3
<1> QED
  BY <1>1, <1>2, <1>3
  DEF Next, vars, Prepare, Issue, Approve, Reject, Queue, Lapse, Review, Work, ClaimRead,
      ClaimWrite, Load, Record, Drop, Tick, BackoffEnds

THEOREM ToldTheTruth == Spec => []ToldTruly
<1>1. Init => (draft = "delivered" => sent > 0)
  BY DEF Init
<1>2. UInv /\ (draft = "delivered" => sent > 0) => ToldTruly
  BY DEF UInv, DraftFollows, ToldTruly
<1> QED
  BY <1>1, <1>2, SentStep, FencesInvariant, PTL DEF Spec

THEOREM ToldForGood == Spec => ToldOnce
<1>1. UInv /\ [Next]_vars =>
        [(draft \in {"rejected", "delivered", "failed"}) =>
           draft' = draft /\ proposal'.state = proposal.state]_vars
  <2> SUFFICES ASSUME UInv, [Next]_vars, draft \in {"rejected", "delivered", "failed"}
               PROVE  draft' = draft /\ proposal'.state = proposal.state
    OBVIOUS
  <2>1. proposal.state \in {"rejected", "completed", "failed"} /\ proposal \in Proposal
    BY DEF UInv, DraftFollows, TypeOK
  <2>2. CASE Lapse
    BY <2>1, <2>2, ProposalFields DEF Lapse
  <2>3. ASSUME NEW w \in Worker, Write(w) PROVE UNCHANGED <<draft, proposal>>
    BY <2>1, <2>3, WriteMoves
  <2>4. ~Prepare /\ ~Issue /\ ~Approve /\ ~Reject /\ ~Queue
    BY <2>1 DEF Prepare, Issue, IssueOk, Approve, ApproveOk, Reject, RejectOk, Queue
  <2> QED
    BY <2>2, <2>3, <2>4
    DEF Next, vars, Work, ClaimRead, ClaimWrite, Load, Send, Record, Drop, Tick, BackoffEnds
<1> QED
  BY <1>1, FencesInvariant, PTL DEF Spec, ToldOnce

=============================================================================
