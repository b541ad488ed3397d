------------------------- MODULE ActionPolicyProofs -------------------------
(***************************************************************************)
(* Proofs about ActionPolicy: for any actions and their levels, any        *)
(* requests and processes and whatever the bounds, the audit trail is the  *)
(* history of a proposal, nothing critical runs without consent, a device  *)
(* is operated once, and no agent loosens a policy; and, when one process  *)
(* serves every request, nothing runs that the policy forbids.             *)
(***************************************************************************)
EXTENDS ActionPolicy, SequenceTheorems, TLAPS

-----------------------------------------------------------------------------
(* Rows and sequences                                                      *)

LEMMA OneWritten ==
  ASSUME NEW S, NEW n \in S
  PROVE  <<n>> \in Seq(S) /\ Last(<<n>>) = n
  BY DEF Last

LEMMA TwoWritten ==
  ASSUME NEW S, NEW m \in S, NEW n \in S
  PROVE  <<m, n>> \in Seq(S) /\ Last(<<m, n>>) = n
  BY DEF Last

LEMMA TransitionType ==
  ASSUME NEW p \in Proposal, NEW state \in State, NEW digest \in Digest,
         NEW fresh \in BOOLEAN, NEW approved \in BOOLEAN, NEW undo \in BOOLEAN
  PROVE  Transition(p, state, digest, fresh, approved, undo) \in Proposal
  BY DEF Transition, Proposal

LEMMA ChallengeType ==
  ASSUME NEW v \in Nat \ {0}, NEW purpose \in {"approve", "reverse"}
  PROVE  Challenge(v, purpose) \in Digest
  BY DEF Challenge, Digest

LEMMA AbsentType == Absent \in Proposal
  BY DEF Absent, Proposal, State, Level, Digest, NoDigest

LEMMA CreatedType == ASSUME NEW level \in Level PROVE Created(level) \in Proposal
<1>1. Challenge(1, "approve") \in Digest /\ NoDigest \in Digest
  BY ChallengeType DEF Digest
<1> QED
  BY <1>1 DEF Created, Proposal, State, Confirmed, Level

LEMMA WrittenTypes ==
  ASSUME NEW p \in Proposal
  PROVE  /\ \A purpose \in {"approve", "reverse"} : Issued(p, purpose) \in Proposal
         /\ Approved(p) \in Proposal /\ Rejected(p) \in Proposal
         /\ \A undo \in BOOLEAN : Started(p, undo) \in Proposal
         /\ Completed(p) \in Proposal /\ Failed(p) \in Proposal
         /\ Reversed(p) \in Proposal /\ Lapsed(p) \in Proposal
<1>1. /\ p.version + 1 \in Nat \ {0} /\ NoDigest \in Digest /\ p.digest \in Digest
      /\ p.fresh \in BOOLEAN /\ p.approved \in BOOLEAN /\ p.undo \in BOOLEAN
  BY DEF Proposal, Digest
<1>2. ASSUME NEW purpose \in {"approve", "reverse"} PROVE Issued(p, purpose) \in Proposal
  <2>1. Challenge(p.version + 1, purpose) \in Digest
    BY <1>1, ChallengeType
  <2>2. (purpose = "reverse" /\ p.approved) \in BOOLEAN
    OBVIOUS
  <2> QED
    BY <1>1, <2>1, <2>2, TransitionType DEF Issued, State
<1>3. ASSUME NEW undo \in BOOLEAN PROVE Started(p, undo) \in Proposal
  <2>1. (undo \/ p.undo) \in BOOLEAN
    OBVIOUS
  <2> QED
    BY <1>1, <2>1, TransitionType DEF Started, State
<1>4. /\ Approved(p) \in Proposal /\ Rejected(p) \in Proposal /\ Reversed(p) \in Proposal
      /\ Completed(p) \in Proposal /\ Failed(p) \in Proposal
  BY <1>1, TransitionType DEF Approved, Rejected, Reversed, Completed, Failed, State
<1>5. Lapsed(p) \in Proposal
  BY DEF Lapsed, Proposal
<1> QED
  BY <1>2, <1>3, <1>4, <1>5

-----------------------------------------------------------------------------
(* One proposal                                                            *)

\* A row n that may follow the row p of action a in a commit of the actor.
Grows(a, p, n, actor) ==
  /\ n.version = p.version + 1 /\ n.level = LevelOf[a]
  /\ Follows(p.state, n.state) \/ (p.state = "absent" /\ n.state = "prepared")
  /\ n.state = "approved" => actor = "human"
  /\ (Confirmed(LevelOf[a]) /\ n.state = "executing") => p.state = "approved"
  /\ (Confirmed(LevelOf[a]) /\ n.state = "reversed")
       => actor = "human" /\ p.digest.purpose = "reverse"
  /\ n.digest.purpose = "reverse" => p.state = "completed" /\ n.state = "completed"

\* What the trail of a row says (AuditIsHistory and ConsentedExecution, for
\* one action).
Trail(p, log) ==
  /\ Len(log) = p.version
  /\ log # << >> => log[1].state = "prepared" /\ log[Len(log)].state = p.state
  /\ \A i \in 2 .. Len(log) : Follows(log[i-1].state, log[i].state)
Consents(log) ==
  \A i \in 1 .. Len(log) :
    /\ log[i].state = "executing" =>
         i > 1 /\ log[i-1] = [state |-> "approved", actor |-> "human"]
    /\ log[i].state = "reversed" =>
         /\ log[i].actor = "human"
         /\ i > 2 /\ log[i-1].state = "completed" /\ log[i-2].state = "completed"
Ran(log) == \E i \in 1 .. Len(log) : log[i].state = "executing"

\* The inductive form: only humans approve, the challenge of a reversal is
\* issued to a completed proposal, and what ran never starts again.
History(a, p, log) ==
  /\ p.version = 0 <=> p.state = "absent"
  /\ p.version # 0 => p.level = LevelOf[a]
  /\ Trail(p, log)
  /\ Confirmed(LevelOf[a]) => Consents(log)
  /\ \A i \in 1 .. Len(log) : log[i].state = "approved" => log[i].actor = "human"
  /\ p.digest.purpose = "reverse" =>
       p.state = "completed" /\ Len(log) >= 2 /\ log[Len(log) - 1].state = "completed"
  /\ Ran(log) => p.state \in {"executing", "completed", "failed", "reversed"}

LEMMA HistoryBegins ==
  ASSUME NEW a \in Action PROVE History(a, Absent, << >>)
  BY DEF History, Absent, Trail, Consents, Ran, NoDigest

Signed(n, actor) == [state |-> n.state, actor |-> actor]

LEMMA HistoryGrows ==
  ASSUME NEW a \in Action, NEW p \in Proposal, NEW n \in Proposal, NEW actor \in Actor,
         NEW log \in Seq(Entry), History(a, p, log), Grows(a, p, n, actor)
  PROVE  History(a, n, Append(log, Signed(n, actor)))
<1> DEFINE e == Signed(n, actor)
           new == Append(log, e)
           k == Len(log)
<1>1. e \in Entry /\ e.state = n.state /\ e.actor = actor
  BY DEF Signed, Entry, Proposal
<1>2. /\ k \in Nat /\ Len(new) = k + 1 /\ new[k + 1] = e
      /\ \A i \in 1 .. k : new[i] = log[i] /\ log[i] \in Entry
  BY <1>1, LenProperties, ElementOfSeq
<1>3. k = p.version /\ (k > 0 => log[k].state = p.state) /\ p.version \in Nat
  BY <1>2, EmptySeq DEF History, Trail, Proposal
<1>4. (k = 0 <=> p.state = "absent") /\ n.state # "absent" /\ n.version = k + 1
  BY <1>3 DEF History, Grows, Follows
<1> HIDE DEF new, e, k
<1>5. Trail(n, new)
  <2>1. new[1].state = "prepared"
    <3>1. CASE k = 0
      BY <1>1, <1>2, <1>4, <3>1 DEF Grows, Follows
    <3>2. CASE k > 0
      <4>1. log # << >> /\ 1 \in 1 .. k
        BY <1>2, <3>2 DEF k
      <4>2. log[1].state = "prepared"
        BY <4>1 DEF History, Trail
      <4>3. new[1] = log[1]
        BY <1>2, <4>1
      <4> QED
        BY <4>2, <4>3
    <3> QED
      BY <1>2, <3>1, <3>2
  <2>2. ASSUME NEW i \in 2 .. k + 1 PROVE Follows(new[i-1].state, new[i].state)
    <3>1. CASE i = k + 1
      <4>1. new[i].state = n.state /\ i - 1 = k /\ k > 0 /\ k \in 1 .. k
        BY <1>1, <1>2, <3>1
      <4>2. \A j \in 1 .. k : new[j] = log[j]
        BY <1>2
      <4>3. new[k] = log[k]
        BY <4>1, <4>2
      <4>4. new[i-1].state = p.state /\ p.state # "absent"
        BY <1>3, <1>4, <4>1, <4>3
      <4> QED
        BY <4>1, <4>4 DEF Grows
    <3>2. CASE i # k + 1
      <4>1. i \in 2 .. k /\ new[i-1] = log[i-1] /\ new[i] = log[i]
        BY <1>2, <3>2
      <4> QED
        BY <4>1 DEF History, Trail, k
    <3> QED
      BY <3>1, <3>2
  <2> QED
    BY <1>1, <1>2, <1>4, <2>1, <2>2 DEF Trail
<1>6. ASSUME Confirmed(LevelOf[a]) PROVE Consents(new)
  <2> SUFFICES ASSUME NEW i \in 1 .. k + 1
               PROVE  /\ new[i].state = "executing" =>
                           i > 1 /\ new[i-1] = [state |-> "approved", actor |-> "human"]
                      /\ new[i].state = "reversed" =>
                           /\ new[i].actor = "human" /\ i > 2
                           /\ new[i-1].state = "completed" /\ new[i-2].state = "completed"
    BY <1>2 DEF Consents
  <2>1. CASE i = k + 1 /\ n.state = "executing"
    <3>1. p.state = "approved"
      BY <1>6, <2>1 DEF Grows
    <3>2. k > 0 /\ log[k].state = "approved"
      BY <1>2, <1>3, <1>4, <3>1
    <3>3. log[k].actor = "human" /\ log[k] \in Entry
      BY <1>2, <3>2 DEF History, k
    <3>4. log[k] = [state |-> "approved", actor |-> "human"]
      BY <3>2, <3>3 DEF Entry
    <3> QED
      BY <1>1, <1>2, <2>1, <3>2, <3>4
  <2>2. CASE i = k + 1 /\ n.state = "reversed"
    <3>1. actor = "human" /\ p.digest.purpose = "reverse"
      BY <1>6, <2>2 DEF Grows
    <3>2. p.state = "completed" /\ k >= 2 /\ log[k - 1].state = "completed"
      BY <3>1 DEF History, k
    <3>3. i - 1 = k /\ i - 2 = k - 1 /\ k \in 1 .. k /\ k - 1 \in 1 .. k
      BY <1>2, <2>2, <3>2
    <3>4. log[k].state = "completed"
      BY <1>2, <1>3, <3>2
    <3>5. \A j \in 1 .. k : new[j] = log[j]
      BY <1>2
    <3>6. new[k] = log[k] /\ new[k - 1] = log[k - 1]
      BY <3>3, <3>5
    <3>7. i > 2 /\ new[i].state = "reversed" /\ new[i].actor = "human"
      BY <1>1, <1>2, <2>2, <3>1, <3>2
    <3>8. new[i - 1].state = "completed" /\ new[i - 2].state = "completed"
      BY <3>2, <3>3, <3>4, <3>6
    <3> QED
      BY <3>7, <3>8
  <2>3. CASE i = k + 1 /\ n.state \notin {"executing", "reversed"}
    BY <1>1, <1>2, <2>3
  <2>4. CASE i \in 1 .. k
    <3>1. Consents(log) /\ i \in 1 .. Len(log) /\ new[i] = log[i]
      BY <1>2, <1>6, <2>4 DEF History, k
    <3>2. (i > 1 => new[i-1] = log[i-1]) /\ (i > 2 => new[i-2] = log[i-2])
      BY <1>2, <2>4
    <3> QED
      BY <3>1, <3>2 DEF Consents
  <2> QED
    BY <1>2, <2>1, <2>2, <2>3, <2>4
<1>7. \A i \in 1 .. k + 1 : new[i].state = "approved" => new[i].actor = "human"
  <2>1. e.state = "approved" => e.actor = "human"
    BY <1>1 DEF Grows
  <2>2. \A i \in 1 .. k : log[i].state = "approved" => log[i].actor = "human"
    BY DEF History, k
  <2> QED
    BY <1>2, <2>1, <2>2
<1>8. n.digest.purpose = "reverse" =>
        n.state = "completed" /\ k + 1 >= 2 /\ new[k + 1 - 1].state = "completed"
  <2> SUFFICES ASSUME n.digest.purpose = "reverse"
               PROVE  n.state = "completed" /\ k + 1 >= 2 /\ new[k + 1 - 1].state = "completed"
    OBVIOUS
  <2>1. p.state = "completed" /\ n.state = "completed"
    BY DEF Grows
  <2>2. k > 0 /\ k + 1 - 1 = k /\ k \in 1 .. k
    BY <1>2, <1>4, <2>1
  <2>3. new[k].state = "completed"
    BY <1>2, <1>3, <2>1, <2>2
  <2> QED
    BY <1>2, <2>1, <2>2, <2>3
<1>9. Ran(new) => n.state \in {"executing", "completed", "failed", "reversed"}
  <2> SUFFICES ASSUME NEW i \in 1 .. k + 1, new[i].state = "executing"
               PROVE  n.state \in {"executing", "completed", "failed", "reversed"}
    BY <1>2 DEF Ran
  <2>1. CASE i = k + 1
    BY <1>1, <1>2, <2>1
  <2>2. CASE i # k + 1
    <3>1. i \in 1 .. k /\ log[i].state = "executing"
      BY <1>2, <2>2
    <3>2. Ran(log)
      BY <3>1 DEF Ran, k
    <3>3. p.state \in {"executing", "completed", "failed", "reversed"}
      BY <3>2 DEF History
    <3> QED
      BY <3>3 DEF Grows, Follows
  <2> QED
    BY <2>1, <2>2
<1>10. n.version # 0 => n.level = LevelOf[a]
  BY DEF Grows
<1> QED
  BY <1>2, <1>4, <1>5, <1>6, <1>7, <1>8, <1>9, <1>10 DEF History, new, e

-----------------------------------------------------------------------------
(* What a request prepares and what its commit adds                        *)

\* A prepared write: one row, or the start and the completion of a calendar
\* action.
Justified(a, p, actor, w) ==
  \/ \E n \in Proposal : w = <<n>> /\ Grows(a, p, n, actor)
  \/ \E m \in Proposal, n \in Proposal :
       /\ w = <<m, n>> /\ n.state = "completed"
       /\ Grows(a, p, m, actor) /\ Grows(a, m, n, actor)

Executes(w) == \E i \in 1 .. Len(w) : w[i].state = "executing"

Written(w, actor) == [i \in DOMAIN w |-> [state |-> w[i].state, actor |-> actor]]

LEMMA WrittenOne ==
  ASSUME NEW n, NEW actor PROVE Written(<<n>>, actor) = <<Signed(n, actor)>>
  BY DEF Written, Signed

LEMMA WrittenTwo ==
  ASSUME NEW m, NEW n, NEW actor
  PROVE  Written(<<m, n>>, actor) = <<Signed(m, actor), Signed(n, actor)>>
  BY DEF Written, Signed

LEMMA SignedType ==
  ASSUME NEW n \in Proposal, NEW actor \in Actor PROVE Signed(n, actor) \in Entry
  BY DEF Signed, Entry, Proposal

LEMMA AppendTwice ==
  ASSUME NEW S, NEW s \in Seq(S), NEW x \in S, NEW y \in S
  PROVE  s \o <<x, y>> = Append(Append(s, x), y)
<1>1. /\ s \o <<x, y>> \in Seq(S) /\ Append(s, x) \in Seq(S)
      /\ Append(Append(s, x), y) \in Seq(S)
  OBVIOUS
<1>2. Len(s) \in Nat
  BY LenProperties
<1>3. Len(s \o <<x, y>>) = Len(Append(Append(s, x), y))
  BY <1>2
<1>4. ASSUME NEW i \in 1 .. Len(s \o <<x, y>>)
      PROVE  (s \o <<x, y>>)[i] = Append(Append(s, x), y)[i]
  BY <1>2
<1> QED
  BY <1>1, <1>3, <1>4, SeqEqual

LEMMA NeverAgain ==
  ASSUME NEW a \in Action, NEW p \in Proposal, NEW n \in Proposal, NEW actor \in Actor,
         NEW log \in Seq(Entry), History(a, p, log), Grows(a, p, n, actor),
         n.state = "executing"
  PROVE  ~Ran(log)
  BY DEF History, Grows, Follows

LEMMA JustifiedCommits ==
  ASSUME NEW a \in Action, NEW p \in Proposal, NEW actor \in Actor, NEW w,
         NEW log \in Seq(Entry), History(a, p, log), Justified(a, p, actor, w)
  PROVE  LET new == log \o Written(w, actor) IN
         /\ w \in Seq(Proposal) /\ Last(w) \in Proposal /\ Last(w).version > p.version
         /\ new \in Seq(Entry) /\ History(a, Last(w), new)
         /\ Ran(log) => Ran(new)
         /\ Last(w).state = "executing" => ~Ran(log) /\ Ran(new)
         /\ (\E i \in Len(log) + 1 .. Len(new) : new[i].state = "executing") => Executes(w)
<1> DEFINE new == log \o Written(w, actor)
<1>1. Len(log) \in Nat /\ p.version \in Nat
  BY LenProperties DEF Proposal
<1>2. CASE \E n \in Proposal : w = <<n>> /\ Grows(a, p, n, actor)
  <2> PICK n \in Proposal : w = <<n>> /\ Grows(a, p, n, actor)
    BY <1>2
  <2> DEFINE e == Signed(n, actor)
  <2>1. e \in Entry /\ e.state = n.state
    BY SignedType DEF Signed
  <2>2. new = Append(log, e)
    <3>1. Written(w, actor) = <<e>>
      BY WrittenOne
    <3> HIDE DEF e
    <3>2. log \o <<e>> = Append(log, e)
      BY <2>1, AppendIsConcat
    <3> QED
      BY <3>1, <3>2
  <2>3. w \in Seq(Proposal) /\ Last(w) = n /\ Len(w) = 1 /\ w[1] = n
    BY OneWritten
  <2> HIDE DEF e, new
  <2>4. /\ new \in Seq(Entry) /\ Len(new) = Len(log) + 1 /\ new[Len(log) + 1] = e
        /\ \A i \in 1 .. Len(log) : new[i] = log[i]
    BY <1>1, <2>1, <2>2
  <2>5. History(a, n, new)
    BY <2>2, HistoryGrows DEF e
  <2>6. Ran(log) => Ran(new)
    BY <1>1, <2>4 DEF Ran
  <2>7. n.state = "executing" => Ran(new)
    BY <1>1, <2>1, <2>4 DEF Ran
  <2>8. n.state = "executing" => ~Ran(log)
    BY NeverAgain
  <2>9. (\E i \in Len(log) + 1 .. Len(new) : new[i].state = "executing") => Executes(w)
    BY <1>1, <2>1, <2>3, <2>4 DEF Executes
  <2>10. n.version > p.version
    BY <1>1 DEF Grows
  <2> QED
    BY <2>3, <2>4, <2>5, <2>6, <2>7, <2>8, <2>9, <2>10 DEF new
<1>3. CASE \E m \in Proposal, n \in Proposal :
             /\ w = <<m, n>> /\ n.state = "completed"
             /\ Grows(a, p, m, actor) /\ Grows(a, m, n, actor)
  <2> PICK m \in Proposal, n \in Proposal :
             /\ w = <<m, n>> /\ n.state = "completed"
             /\ Grows(a, p, m, actor) /\ Grows(a, m, n, actor)
    BY <1>3
  <2> DEFINE d == Signed(m, actor)
             e == Signed(n, actor)
  <2>1. d \in Entry /\ e \in Entry /\ d.state = m.state /\ e.state = "completed"
    BY SignedType DEF Signed
  <2>2. new = Append(Append(log, d), e) /\ Append(log, d) \in Seq(Entry)
    <3>1. Written(w, actor) = <<d, e>>
      BY WrittenTwo
    <3> HIDE DEF d, e
    <3>2. log \o <<d, e>> = Append(Append(log, d), e)
      BY <2>1, AppendTwice
    <3>3. Append(log, d) \in Seq(Entry)
      BY <2>1, AppendProperties
    <3> QED
      BY <3>1, <3>2, <3>3
  <2>3. w \in Seq(Proposal) /\ Last(w) = n /\ Len(w) = 2 /\ w[1] = m
    BY TwoWritten
  <2> HIDE DEF d, e, new
  <2>4. /\ new \in Seq(Entry) /\ Len(new) = Len(log) + 2
        /\ new[Len(log) + 1] = d /\ new[Len(log) + 2] = e
        /\ \A i \in 1 .. Len(log) : new[i] = log[i]
    BY <1>1, <2>1, <2>2
  <2>5. History(a, m, Append(log, d))
    BY HistoryGrows DEF d
  <2>6. History(a, n, new)
    BY <2>2, <2>5, HistoryGrows DEF e
  <2>7. Ran(log) => Ran(new)
    BY <1>1, <2>4 DEF Ran
  <2>8. (\E i \in Len(log) + 1 .. Len(new) : new[i].state = "executing") => Executes(w)
    <3> SUFFICES ASSUME NEW i \in Len(log) + 1 .. Len(new), new[i].state = "executing"
                 PROVE  Executes(w)
      OBVIOUS
    <3>1. i = Len(log) + 1 \/ i = Len(log) + 2
      BY <1>1, <2>4
    <3>2. w[1].state = "executing"
      BY <2>1, <2>3, <2>4, <3>1
    <3> QED
      BY <2>3, <3>2 DEF Executes
  <2>9. n.version > p.version
    BY <1>1 DEF Grows
  <2> QED
    BY <2>3, <2>4, <2>6, <2>7, <2>8, <2>9 DEF new
<1> QED
  BY <1>2, <1>3 DEF Justified

-----------------------------------------------------------------------------
(* The inductive invariant                                                 *)

Histories == \A a \in Action : History(a, proposal[a], audit[a])

\* The row of a proposal only moves on after it has been read.
Behind ==
  \A r \in Request : request[r].phase = "checked" /\ request[r].target \in Action =>
    request[r].version <= proposal[request[r].target].version

\* As long as the row is the one it has read, what a request will write is
\* a legal next step of it.
Sound ==
  \A r \in Request : LET q == request[r] IN
    (q.phase = "checked" /\ q.target \in Action /\ Current(r)) =>
      Justified(q.target, proposal[q.target], q.actor, q.write)

\* What a request q will make of a policy that is pol by now: one version on
\* from the one it names, and checked against what the policy was, which no
\* other policy has followed under the same version.
Draft(pol, q) ==
  \E n, old \in Policy :
    /\ q.write = <<n>> /\ n.version = q.version + 1
    /\ q.seen = old /\ (Loosens(n, old) => q.actor = "human")
    /\ old.version <= pol.version /\ (old.version = pol.version => old = pol)

Drafts ==
  \A r \in Request : request[r].phase = "checked" /\ request[r].target \in Domain =>
    Draft(policy[request[r].target], request[r])

\* One request calls for an action that ran, before its device is operated.
Calls ==
  /\ \A a \in Action : performed[a] <= 1 /\ (performed[a] = 1 => Ran(audit[a]))
  /\ \A r \in Request : request[r].phase = "calling" =>
       performed[request[r].target] = 0 /\ Ran(audit[request[r].target])
  /\ \A q, r \in Request :
       /\ request[q].phase = "calling" /\ request[r].phase = "calling"
       /\ request[q].target = request[r].target
       => q = r

Safe == TypeOK /\ Histories /\ Behind /\ Sound /\ Drafts /\ Calls

\* What the guards of a route establish.
Prepares(r, a) ==
  \E actor \in Actor, w \in Seq(Proposal) :
    /\ Check(r, actor, a, w)
    /\ Justified(a, proposal[a], actor, w)
    /\ Executes(w) => Allows(a, LevelOf[a])

LEMMA SetsApart ==
  /\ \A a \in Action : a \notin Domain
  /\ \A x \in Waiting : x.phase \in {"calling", "succeeded", "failed"} /\ x.target \in Action
                         /\ x.actor \in Actor /\ x.version \in Nat /\ x.write = << >>
  /\ \A x \in Checked : x.phase = "checked" /\ x.target \in Action /\ x.actor \in Actor
                         /\ x.version \in Nat /\ x.write \in Seq(Proposal)
  /\ \A x \in Change : x.phase = "checked" /\ x.target \in Domain /\ x.actor \in Actor
                         /\ x.version \in Nat /\ x.write \in Seq(Policy)
  /\ Idle.phase = "idle"
  BY ActionPolicyAssumption DEF Waiting, Checked, Change, Idle

LEMMA OneStep ==
  ASSUME NEW a \in Action, NEW n \in Proposal, NEW actor \in Actor, NEW p,
         Grows(a, p, n, actor)
  PROVE  /\ Justified(a, p, actor, <<n>>) /\ <<n>> \in Seq(Proposal)
         /\ Executes(<<n>>) => n.state = "executing"
  BY OneWritten DEF Justified, Executes

LEMMA RouteOne ==
  ASSUME NEW r \in Request, NEW a \in Action, NEW n \in Proposal, NEW actor \in Actor,
         Grows(a, proposal[a], n, actor), Check(r, actor, a, <<n>>),
         n.state = "executing" => Allows(a, LevelOf[a])
  PROVE  Prepares(r, a)
<1>1. /\ Justified(a, proposal[a], actor, <<n>>) /\ <<n>> \in Seq(Proposal)
      /\ Executes(<<n>>) => n.state = "executing"
  BY OneStep
<1> QED
  BY <1>1 DEF Prepares

LEMMA Leveled ==
  ASSUME TypeOK, Histories, NEW a \in Action
  PROVE  /\ proposal[a] \in Proposal /\ LevelOf[a] \in Level
         /\ proposal[a].version \in Nat
         /\ proposal[a].state # "absent" => proposal[a].level = LevelOf[a]
         /\ proposal[a].state = "absent" => proposal[a].version = 0
         /\ proposal[a].digest.purpose = "reverse" => proposal[a].state = "completed"
         /\ History(a, proposal[a], audit[a])
<1>1. proposal[a] \in Proposal /\ History(a, proposal[a], audit[a]) /\ LevelOf[a] \in Level
  BY ActionPolicyAssumption DEF TypeOK, Histories
<1>2. proposal[a].version \in Nat
  BY <1>1 DEF Proposal
<1> QED
  BY <1>1, <1>2 DEF History

LEMMA CreatePrepares ==
  ASSUME TypeOK, Histories, NEW r \in Request, NEW a \in Action, CreateProposal(r, a)
  PROVE  Prepares(r, a)
<1>1. proposal[a].version = 0 /\ LevelOf[a] \in Level /\ proposal[a].state = "absent"
  BY Leveled DEF CreateProposal
<1>2. Created(LevelOf[a]) \in Proposal /\ Created(LevelOf[a]).state = "prepared"
  BY <1>1, CreatedType DEF Created
<1>3. Grows(a, proposal[a], Created(LevelOf[a]), "agent")
  BY <1>1 DEF Grows, Created, Challenge, NoDigest
<1> QED
  BY <1>2, <1>3, RouteOne DEF CreateProposal, Actor

LEMMA IssuePrepares ==
  ASSUME TypeOK, Histories, NEW r \in Request, NEW a \in Action, IssueConfirmation(r, a)
  PROVE  Prepares(r, a)
<1> PICK purpose \in {"approve", "reverse"} :
      /\ IssueOk(proposal[a], purpose)
      /\ Check(r, "agent", a, <<Issued(proposal[a], purpose)>>)
  BY DEF IssueConfirmation
<1> DEFINE n == Issued(proposal[a], purpose)
<1>1. n \in Proposal /\ n.state \in {"prepared", "completed"}
  BY Leveled, WrittenTypes DEF Issued, Transition
<1>2. Grows(a, proposal[a], n, "agent")
  BY Leveled DEF Grows, Follows, IssueOk, Issued, Transition, Challenge
<1> QED
  BY <1>1, <1>2, RouteOne DEF Actor

LEMMA ApprovePrepares ==
  ASSUME TypeOK, Histories, NEW r \in Request, NEW a \in Action, NEW actor \in Actor,
         ApproveAction(r, actor, a)
  PROVE  Prepares(r, a)
<1> DEFINE n == Approved(proposal[a])
<1>1. n \in Proposal /\ n.state = "approved"
  BY Leveled, WrittenTypes DEF Approved, Transition
<1>2. Grows(a, proposal[a], n, actor)
  BY Leveled DEF ApproveAction, Grows, Follows, ApproveOk, Approved, Transition, NoDigest
<1> QED
  BY <1>1, <1>2, RouteOne DEF ApproveAction

LEMMA RejectPrepares ==
  ASSUME TypeOK, Histories, NEW r \in Request, NEW a \in Action, RejectAction(r, a)
  PROVE  Prepares(r, a)
<1> DEFINE n == Rejected(proposal[a])
<1>1. n \in Proposal /\ n.state = "rejected"
  BY Leveled, WrittenTypes DEF Rejected, Transition
<1>2. Grows(a, proposal[a], n, "agent")
  BY Leveled DEF RejectAction, Grows, Follows, RejectOk, Rejected, Transition, NoDigest
<1> QED
  BY <1>1, <1>2, RouteOne DEF RejectAction, Actor

LEMMA ReversePrepares ==
  ASSUME TypeOK, Histories, NEW r \in Request, NEW a \in Action, NEW actor \in Actor,
         ReverseAction(r, actor, a)
  PROVE  Prepares(r, a)
<1> DEFINE p == proposal[a]
           n == Reversed(p)
<1>1. n \in Proposal /\ n.state = "reversed"
  BY Leveled, WrittenTypes DEF Reversed, Transition
<1>2. /\ p.state = "completed" /\ Check(r, actor, a, <<n>>)
      /\ Confirmed(p.level) => actor = "human" /\ p.digest.purpose = "reverse"
  BY DEF ReverseAction, ReverseOk, Verifies, Challenge
<1>3. Grows(a, p, n, actor)
  BY <1>2, Leveled DEF Grows, Follows, Reversed, Transition, NoDigest
<1> QED
  BY <1>1, <1>2, <1>3, RouteOne

LEMMA ExecutePrepares ==
  ASSUME TypeOK, Histories, NEW r \in Request, NEW a \in Action, ExecuteAction(r, a)
  PROVE  Prepares(r, a)
<1> DEFINE p == proposal[a]
           m == Started(p, Calendar(a))
           n == Completed(m)
<1>1. Calendar(a) \in BOOLEAN
  BY DEF Calendar
<1>2. m \in Proposal /\ m.state = "executing"
  BY <1>1, Leveled, WrittenTypes DEF Started, Transition
<1>3. Grows(a, p, m, "agent") /\ Allows(a, LevelOf[a])
  BY <1>1, Leveled DEF ExecuteAction, StartOk, Grows, Follows, Started, Transition, NoDigest
<1>4. CASE Check(r, "agent", a, <<m>>)
  BY <1>2, <1>3, <1>4, RouteOne DEF Actor
<1>5. CASE Check(r, "agent", a, <<m, n>>)
  <2>1. n \in Proposal /\ n.state = "completed"
    BY <1>2, WrittenTypes DEF Completed, Transition
  <2>2. m.version \in Nat /\ m.level = LevelOf[a] /\ m.digest.purpose = "none"
    BY <1>2, <1>3 DEF Proposal, Grows, Started, Transition, NoDigest
  <2>3. Grows(a, m, n, "agent")
    BY <1>2, <2>2 DEF Grows, Follows, Completed, Transition
  <2>4. Justified(a, p, "agent", <<m, n>>)
    BY <1>2, <1>3, <2>1, <2>3 DEF Justified
  <2>5. <<m, n>> \in Seq(Proposal) /\ "agent" \in Actor
    BY <1>2, <2>1 DEF Actor
  <2> QED
    BY <1>3, <1>5, <2>4, <2>5 DEF Prepares
<1> QED
  BY <1>4, <1>5 DEF ExecuteAction

-----------------------------------------------------------------------------
(* Every step preserves it                                                 *)

LEMMA Begins == Init => Safe
<1> SUFFICES ASSUME Init PROVE Safe
  OBVIOUS
<1>1. TypeOK
  BY ActionPolicyAssumption, AbsentType DEF Init, TypeOK, Policy
<1>2. Histories
  BY HistoryBegins DEF Init, Histories
<1>3. Behind /\ Sound /\ Drafts
  BY DEF Init, Behind, Sound, Drafts, Idle
<1>4. Calls
  BY DEF Init, Calls, Idle
<1> QED
  BY <1>1, <1>2, <1>3, <1>4 DEF Safe

\* Only the slot of one request changes, and nothing it now calls for.
LEMMA RequestStep ==
  ASSUME Safe, NEW r \in Request,
         NEW x \in {Idle} \union Waiting \union Checked \union Change,
         request' = [request EXCEPT ![r] = x],
         UNCHANGED <<policy, proposal, audit, performed>>, abandoned' \subseteq Action,
         x.phase # "calling",
         x.phase = "checked" =>
           /\ x.target \in Action =>
                /\ x.version = proposal[x.target].version
                /\ Justified(x.target, proposal[x.target], x.actor, x.write)
           /\ x.target \in Domain => Draft(policy[x.target], x)
  PROVE  Safe'
<1>1. TypeOK /\ Histories /\ Behind /\ Sound /\ Drafts /\ Calls
  BY DEF Safe
<1>2. request'[r] = x /\ \A q \in Request \ {r} : request'[q] = request[q]
  BY <1>1 DEF TypeOK
<1>3. TypeOK'
  BY <1>1, <1>2 DEF TypeOK
<1>4. Histories'
  BY <1>1 DEF Histories
<1>5. x.phase = "checked" => /\ x.target \in Action \/ x.target \in Domain
                             /\ x.target \in Action => x.target \notin Domain
                             /\ x.version \in Nat
  BY SetsApart
<1>6. Behind'
  BY <1>1, <1>2, <1>5 DEF Behind
<1>7. Sound'
  <2> SUFFICES ASSUME NEW q \in Request, request'[q].phase = "checked",
                      request'[q].target \in Action, Current(q)'
               PROVE  LET t == request'[q] IN
                        Justified(t.target, proposal[t.target], t.actor, t.write)
    BY DEF Sound
  <2>1. CASE q = r
    BY <1>2, <2>1
  <2>2. CASE q # r
    <3>1. request'[q] = request[q] /\ Current(q)
      BY <1>2, <2>2 DEF Current
    <3> QED
      BY <1>1, <3>1 DEF Sound
  <2> QED
    BY <2>1, <2>2
<1>8. Drafts'
  BY <1>1, <1>2 DEF Drafts
<1>9. Calls'
  BY <1>1, <1>2 DEF Calls
<1> QED
  BY <1>3, <1>4, <1>6, <1>7, <1>8, <1>9 DEF Safe

LEMMA PrepareStep ==
  ASSUME Safe, NEW r \in Request, NEW a \in Action, Prepares(r, a) PROVE Safe'
<1> PICK actor \in Actor, w \in Seq(Proposal) :
      Check(r, actor, a, w) /\ Justified(a, proposal[a], actor, w)
  BY DEF Prepares
<1> DEFINE x == [phase |-> "checked", actor |-> actor, target |-> a,
                 version |-> proposal[a].version, write |-> w]
<1>1. proposal[a].version \in Nat /\ abandoned \subseteq Action /\ a \notin Domain
  BY Leveled, SetsApart DEF Safe, TypeOK
<1>2. x \in Checked
  BY <1>1 DEF Checked
<1>3. x.phase = "checked" /\ x.target = a /\ x.version = proposal[a].version
      /\ x.actor = actor /\ x.write = w
  OBVIOUS
<1>4. request' = [request EXCEPT ![r] = x] /\ UNCHANGED <<policy, proposal, audit, performed, abandoned>>
  BY DEF Check
<1> HIDE DEF x
<1> QED
  BY <1>1, <1>2, <1>3, <1>4, RequestStep

LEMMA SetPolicyStep ==
  ASSUME Safe, NEW r \in Request, NEW actor \in Actor, NEW d \in Domain,
         SetPolicy(r, actor, d)
  PROVE  Safe'
<1>1. policy[d] \in Policy /\ policy[d].version \in Nat /\ abandoned \subseteq Action
      /\ d \notin Action
  BY SetsApart DEF Safe, TypeOK, Policy
<1> PICK expected, n :
      /\ expected \in policy[d].version .. MaxPolicies - 1
      /\ n \in [cap : Cap, enabled : BOOLEAN, version : {expected + 1}]
      /\ Loosens(n, policy[d]) => actor = "human"
      /\ request' = [request EXCEPT ![r] =
           [phase |-> "checked", actor |-> actor, target |-> d,
            version |-> expected, write |-> <<n>>, seen |-> policy[d]]]
      /\ UNCHANGED <<policy, proposal, audit, performed, abandoned>>
  BY DEF SetPolicy
<1> DEFINE x == [phase |-> "checked", actor |-> actor, target |-> d,
                 version |-> expected, write |-> <<n>>, seen |-> policy[d]]
<1>2. expected \in Nat
  BY <1>1, ActionPolicyAssumption
<1>3. n \in Policy /\ n.version = expected + 1
  BY <1>2 DEF Policy
<1>4. x \in Change
  BY <1>1, <1>2, <1>3, OneWritten DEF Change
<1>5. x.phase = "checked" /\ x.target = d /\ x.version = expected
      /\ x.actor = actor /\ x.write = <<n>> /\ x.seen = policy[d]
  OBVIOUS
<1>6. request' = [request EXCEPT ![r] = x] /\ UNCHANGED <<policy, proposal, audit, performed>>
  OBVIOUS
<1>7. abandoned' \subseteq Action
  BY <1>1
<1> HIDE DEF x
<1>8. Draft(policy[d], x)
  BY <1>1, <1>3, <1>5 DEF Draft
<1>9. x.phase = "checked" =>
           /\ x.target \in Action =>
                /\ x.version = proposal[x.target].version
                /\ Justified(x.target, proposal[x.target], x.actor, x.write)
           /\ x.target \in Domain => Draft(policy[x.target], x)
  BY <1>1, <1>5, <1>8
<1> QED
  BY <1>4, <1>5, <1>6, <1>7, <1>9, RequestStep

LEMMA LeaveStep ==
  ASSUME Safe, NEW r \in Request, Rollback(r) \/ Abandon(r) PROVE Safe'
<1>1. Idle \in {Idle} \union Waiting \union Checked \union Change /\ Idle.phase = "idle"
  BY DEF Idle
<1>2. abandoned \subseteq Action
  BY DEF Safe, TypeOK
<1> QED
  BY <1>1, <1>2, RequestStep DEF Rollback, Abandon

LEMMA FinishStep ==
  ASSUME Safe, NEW r \in Request, Finish(r) PROVE Safe'
<1> DEFINE q == request[r]
           a == q.target
           p == proposal[a]
           n == IF q.phase = "succeeded" THEN Completed(p) ELSE Failed(p)
           x == [request[r] EXCEPT !.phase = "checked", !.write = <<n>>]
<1>1. q \in Waiting /\ a \in Action /\ a \notin Domain /\ abandoned \subseteq Action
  BY SetsApart DEF Finish, Safe, TypeOK
<1>2. p.state = "executing" /\ p.version = q.version
  BY DEF Finish, CompleteOk, FailOk
<1>3. n \in Proposal
  BY <1>1, Leveled, WrittenTypes DEF Safe
<1>4. Grows(a, p, n, q.actor)
  BY <1>1, <1>2, Leveled DEF Safe, Grows, Follows, Completed, Failed, Transition
<1>5. x \in Checked
  BY <1>1, <1>3, OneWritten DEF Waiting, Checked
<1>6. /\ x.phase = "checked" /\ x.target = a /\ x.actor = q.actor
      /\ x.write = <<n>> /\ x.version = p.version
  BY <1>1, <1>2 DEF Waiting
<1>7. Justified(a, p, q.actor, <<n>>)
  BY <1>3, <1>4 DEF Justified
<1>8. request' = [request EXCEPT ![r] = x] /\ UNCHANGED <<policy, proposal, audit, performed, abandoned>>
  BY DEF Finish
<1> HIDE DEF x, n, p
<1> QED
  BY <1>1, <1>5, <1>6, <1>7, <1>8, RequestStep DEF p

LEMMA CallStep ==
  ASSUME Safe, NEW r \in Request, Call(r) PROVE Safe'
<1> PICK operated \in BOOLEAN, answer \in {"succeeded", "failed"} :
       /\ request' = [request EXCEPT ![r].phase = answer]
       /\ performed' = [performed EXCEPT ![request[r].target] =
                          IF operated THEN @ + 1 ELSE @]
  BY DEF Call
<1> DEFINE a == request[r].target
<1>1. TypeOK /\ Histories /\ Behind /\ Sound /\ Drafts /\ Calls
  BY DEF Safe
<1>2. request[r] \in Waiting /\ request[r].phase = "calling" /\ a \in Action
  BY <1>1, SetsApart DEF TypeOK, Call
<1>3. performed[a] = 0 /\ Ran(audit[a]) /\ UNCHANGED <<policy, proposal, audit, abandoned>>
  BY <1>1, <1>2 DEF Calls, Call
<1>4. /\ request'[r].phase = answer /\ request'[r] \in Waiting
      /\ \A q \in Request \ {r} : request'[q] = request[q]
  <2>1. request'[r] = [request[r] EXCEPT !.phase = answer]
    BY <1>1, <1>2 DEF TypeOK
  <2>2. request'[r].phase = answer /\ request'[r] \in Waiting
    BY <1>2, <2>1 DEF Waiting
  <2> QED
    BY <1>1, <2>2 DEF TypeOK
<1>5. /\ performed'[a] \in {0, 1} /\ performed' \in [Action -> Nat]
      /\ \A b \in Action \ {a} : performed'[b] = performed[b]
  BY <1>1, <1>2, <1>3 DEF TypeOK
<1>6. TypeOK'
  BY <1>1, <1>3, <1>4, <1>5 DEF TypeOK
<1>7. Histories'
  BY <1>1, <1>3 DEF Histories
<1>8. \A q \in Request : request'[q].phase = "checked" => request'[q] = request[q]
  BY <1>4
<1>9. Behind'
  BY <1>1, <1>3, <1>8 DEF Behind
<1>10. Sound'
  BY <1>1, <1>3, <1>8 DEF Sound, Current
<1>15. Drafts'
  BY <1>1, <1>3, <1>8 DEF Drafts
<1>11. \A q \in Request : request'[q].phase = "calling" =>
         q # r /\ request'[q] = request[q] /\ request[q].target # a
  BY <1>1, <1>2, <1>4 DEF Calls
<1>12. \A q \in Request : request'[q].phase = "calling" => request[q].target \in Action
  BY <1>1, <1>11, SetsApart DEF TypeOK
<1>13. \A b \in Action : performed'[b] <= 1 /\ (performed'[b] = 1 => Ran(audit[b]))
  BY <1>1, <1>3, <1>5 DEF Calls
<1>14. Calls'
  BY <1>1, <1>3, <1>5, <1>11, <1>12, <1>13 DEF Calls
<1> QED
  BY <1>6, <1>7, <1>9, <1>10, <1>14, <1>15 DEF Safe

LEMMA LapseStep ==
  ASSUME Safe, NEW a \in Action, Lapse(a) PROVE Safe'
<1> DEFINE p == proposal[a]
           n == Lapsed(p)
<1>1. TypeOK /\ Histories /\ Behind /\ Sound /\ Drafts /\ Calls
  BY DEF Safe
<1>2. /\ p \in Proposal /\ n \in Proposal
      /\ proposal' = [proposal EXCEPT ![a] = n]
      /\ UNCHANGED <<policy, audit, request, performed, abandoned>>
  BY <1>1, Leveled, WrittenTypes DEF Lapse
<1>3. proposal'[a] = n /\ \A b \in Action \ {a} : proposal'[b] = proposal[b]
  BY <1>1, <1>2 DEF TypeOK
<1>4. /\ n.version = p.version /\ n.state = p.state /\ n.level = p.level
      /\ n.digest = p.digest
  BY <1>2 DEF Lapsed, Proposal
<1> HIDE DEF n
<1>5. \A b \in Action : /\ proposal'[b].version = proposal[b].version
                        /\ proposal'[b].state = proposal[b].state
                        /\ proposal'[b].level = proposal[b].level
                        /\ proposal'[b].digest = proposal[b].digest
  BY <1>3, <1>4
<1>6. TypeOK'
  BY <1>1, <1>2 DEF TypeOK
<1>7. Histories'
  BY <1>1, <1>2, <1>5 DEF Histories, History, Trail
<1>8. \A r \in Request : request[r].phase = "checked" =>
        request[r].target \in Action \/ request[r].target \in Domain
  BY <1>1, SetsApart DEF TypeOK
<1>9. Behind'
  BY <1>1, <1>2, <1>5, <1>8 DEF Behind
<1>10. Sound'
  <2> SUFFICES ASSUME NEW r \in Request, request[r].phase = "checked",
                      request[r].target \in Action, Current(r)'
               PROVE  LET q == request[r] IN
                        Justified(q.target, proposal[q.target], q.actor, q.write)'
    BY <1>2 DEF Sound
  <2>1. Current(r)
    BY <1>2, <1>5, <1>8 DEF Current
  <2>2. Justified(request[r].target, proposal[request[r].target],
                  request[r].actor, request[r].write)
    BY <1>1, <2>1 DEF Sound
  <2>3. \A actor : \A b \in Action, m \in Proposal :
          Grows(b, proposal[b], m, actor) => Grows(b, proposal'[b], m, actor)
    BY <1>5 DEF Grows
  <2>4. Justified(request[r].target, proposal'[request[r].target],
                  request[r].actor, request[r].write)
    BY <2>2, <2>3 DEF Justified
  <2> QED
    BY <1>2, <2>2, <2>4
<1>11. Calls'
  BY <1>1, <1>2 DEF Calls
<1>12. Drafts'
  BY <1>1, <1>2 DEF Drafts
<1> QED
  BY <1>6, <1>7, <1>9, <1>10, <1>11, <1>12 DEF Safe

\* The commit of a policy change.
LEMMA CommitPolicyStep ==
  ASSUME Safe, NEW r \in Request, Commit(r), request[r].target \in Domain
  PROVE  /\ Safe'
         /\ \A d \in Domain : Loosens(policy'[d], policy[d]) =>
              /\ request[r].target = d /\ request'[r] = Idle
              /\ \/ request[r].actor = "human"
                 \/ Ahead(r) /\ ~Loosens(policy'[d], request[r].seen)
<1> DEFINE d == request[r].target
<1>1. TypeOK /\ Histories /\ Behind /\ Sound /\ Drafts /\ Calls
  BY DEF Safe
<1>2. d \in Domain /\ d \notin Action /\ request[r].phase = "checked" /\ Current(r)
  BY SetsApart DEF Commit
<1>3. PICK n, old \in Policy :
        /\ request[r].write = <<n>> /\ n.version = policy[d].version + 1
        /\ request[r].seen = old /\ (Loosens(n, old) => request[r].actor = "human")
        /\ old.version <= policy[d].version /\ (old.version = policy[d].version => old = policy[d])
        /\ request[r].version = policy[d].version
  BY <1>1, <1>2 DEF Drafts, Draft, Current
<1>4. Last(request[r].write) = n
  BY <1>3, OneWritten
<1>5. /\ policy' = [policy EXCEPT ![d] = n]
      /\ request' = [request EXCEPT ![r] = Idle]
      /\ UNCHANGED <<proposal, audit, performed, abandoned>>
  BY <1>2, <1>4 DEF Commit
<1> HIDE DEF d
<1>6. policy'[d] = n /\ \A c \in Domain \ {d} : policy'[c] = policy[c]
  BY <1>1, <1>2, <1>5 DEF TypeOK
<1>7. request'[r] = Idle /\ \A q \in Request \ {r} : request'[q] = request[q]
  BY <1>1, <1>5 DEF TypeOK
<1>8. \A c \in Domain : policy[c].version \in Nat /\ policy[c].cap \in Nat
  <2>1. Cap \subseteq Nat
    BY ActionPolicyAssumption DEF Level
  <2>2. \A c \in Domain : policy[c] \in Policy
    BY <1>1 DEF TypeOK
  <2> QED
    BY <2>1, <2>2 DEF Policy
<1>9. TypeOK'
  BY <1>1, <1>2, <1>3, <1>5 DEF TypeOK
<1>10. Histories'
  BY <1>1, <1>5 DEF Histories
<1>11. ASSUME NEW q \in Request, request'[q].phase = "checked"
       PROVE  q # r /\ request'[q] = request[q]
  BY <1>7, <1>11 DEF Idle
<1>12. Behind'
  BY <1>1, <1>5, <1>11 DEF Behind
<1>13. Sound'
  <2> SUFFICES ASSUME NEW q \in Request, request'[q].phase = "checked",
                      request[q].target \in Action, Current(q)'
               PROVE  LET t == request[q] IN
                        Justified(t.target, proposal[t.target], t.actor, t.write)
    BY <1>5, <1>11 DEF Sound
  <2>1. Current(q) /\ request[q].phase = "checked"
    BY <1>5, <1>11, SetsApart DEF Current
  <2> QED
    BY <1>1, <2>1 DEF Sound
<1>14. Calls'
  BY <1>1, <1>5, <1>7 DEF Calls, Idle
<1>15. ASSUME NEW c \in Domain, Loosens(policy'[c], policy[c])
       PROVE  /\ c = d
              /\ \/ request[r].actor = "human"
                 \/ Ahead(r) /\ ~Loosens(policy'[d], request[r].seen)
  <2>1. c = d
    BY <1>6, <1>8, <1>15 DEF Loosens
  <2>2. CASE old = policy[d]
    BY <1>3, <1>6, <1>15, <2>1, <2>2
  <2>3. CASE old # policy[d]
    <3>1. old.version < policy[d].version
      BY <1>2, <1>3, <1>8, <2>3 DEF Policy
    <3> QED
      BY <1>3, <1>6, <2>1, <3>1 DEF Ahead
  <2> QED
    BY <2>2, <2>3
<1>16. Drafts'
  <2> SUFFICES ASSUME NEW q \in Request, request'[q].phase = "checked",
                      request[q].target \in Domain
               PROVE  Draft(policy'[request[q].target], request[q])
    BY <1>11 DEF Drafts
  <2>1. Draft(policy[request[q].target], request[q])
    BY <1>1, <1>11 DEF Drafts
  <2>2. CASE request[q].target # d
    BY <1>6, <2>1, <2>2
  <2>3. CASE request[q].target = d
    <3>1. \A p \in Policy : p.version \in Nat
      BY DEF Policy
    <3> QED
      BY <1>2, <1>3, <1>6, <1>8, <2>1, <2>3, <3>1 DEF Draft
  <2> QED
    BY <2>2, <2>3
<1> QED
  BY <1>7, <1>9, <1>10, <1>12, <1>13, <1>14, <1>15, <1>16 DEF Safe, d

\* The commit of a step of a proposal.
LEMMA CommitProposalStep ==
  ASSUME Safe, NEW r \in Request, Commit(r), request[r].target \in Action
  PROVE  /\ Safe' /\ UNCHANGED policy
         /\ \A b \in Action :
              (\E i \in Len(audit[b]) + 1 .. Len(audit'[b]) : audit'[b][i].state = "executing")
                => b = request[r].target /\ Executes(request[r].write)
<1> DEFINE a == request[r].target
           w == request[r].write
           p == proposal[a]
           n == Last(w)
           new == audit[a] \o Entries(r)
<1>1. TypeOK /\ Histories /\ Behind /\ Sound /\ Drafts /\ Calls
  BY DEF Safe
<1>2. /\ a \in Action /\ a \notin Domain /\ request[r].phase = "checked" /\ Current(r)
      /\ request[r].actor \in Actor
  BY <1>1, SetsApart DEF Commit, TypeOK
<1>3. Justified(a, p, request[r].actor, w) /\ History(a, p, audit[a])
  BY <1>1, <1>2 DEF Sound, Histories
<1>4. new = audit[a] \o Written(w, request[r].actor)
  BY DEF Entries, Written
<1>5. p \in Proposal /\ p.version \in Nat /\ audit[a] \in Seq(Entry)
  BY <1>1, <1>2, Leveled DEF TypeOK
<1>6. /\ n \in Proposal /\ n.version > p.version
      /\ new \in Seq(Entry) /\ History(a, n, new)
      /\ Ran(audit[a]) => Ran(new)
      /\ n.state = "executing" => ~Ran(audit[a]) /\ Ran(new)
      /\ (\E i \in Len(audit[a]) + 1 .. Len(new) : new[i].state = "executing") => Executes(w)
  <2> HIDE DEF a, w, p
  <2>1. LET ext == audit[a] \o Written(w, request[r].actor) IN
        /\ w \in Seq(Proposal) /\ Last(w) \in Proposal /\ Last(w).version > p.version
        /\ ext \in Seq(Entry) /\ History(a, Last(w), ext)
        /\ Ran(audit[a]) => Ran(ext)
        /\ Last(w).state = "executing" => ~Ran(audit[a]) /\ Ran(ext)
        /\ (\E i \in Len(audit[a]) + 1 .. Len(ext) : ext[i].state = "executing") => Executes(w)
    BY <1>2, <1>3, <1>5, JustifiedCommits
  <2> HIDE DEF new
  <2> QED
    BY <1>4, <2>1
<1>7. /\ proposal' = [proposal EXCEPT ![a] = n]
      /\ audit' = [audit EXCEPT ![a] = new]
      /\ request' = [request EXCEPT ![r] = Continue(r)]
      /\ UNCHANGED <<policy, performed, abandoned>>
  BY <1>2 DEF Commit
<1>8. /\ Continue(r).phase # "checked" /\ Continue(r) \in {Idle} \union Waiting
      /\ Continue(r).phase = "calling" =>
           n.state = "executing" /\ Continue(r).target = a
  <2>1. request[r] \in Checked
    BY <1>1, <1>2, SetsApart DEF TypeOK
  <2>2. CASE n.state = "executing"
    <3>1. Continue(r) = [request[r] EXCEPT !.phase = "calling", !.write = << >>,
                                           !.version = @ + 1]
      BY <2>2 DEF Continue
    <3>2. Continue(r) = [phase |-> "calling", actor |-> request[r].actor, target |-> a,
                         version |-> request[r].version + 1, write |-> << >>]
      BY <2>1, <3>1 DEF Checked
    <3>3. request[r].version + 1 \in Nat
      BY <2>1 DEF Checked
    <3>4. Continue(r) \in Waiting /\ Continue(r).phase = "calling" /\ Continue(r).target = a
      BY <1>2, <3>2, <3>3 DEF Waiting
    <3> QED
      BY <2>2, <3>4
  <2>3. CASE n.state # "executing"
    BY <2>3 DEF Continue, Idle
  <2> QED
    BY <2>2, <2>3
<1> HIDE DEF a, w, p, n, new
<1>9. /\ proposal'[a] = n /\ \A b \in Action \ {a} : proposal'[b] = proposal[b]
      /\ audit'[a] = new /\ \A b \in Action \ {a} : audit'[b] = audit[b]
      /\ request'[r] = Continue(r) /\ \A q \in Request \ {r} : request'[q] = request[q]
  BY <1>1, <1>2, <1>7 DEF TypeOK
<1>10. TypeOK'
  BY <1>1, <1>2, <1>6, <1>7, <1>8 DEF TypeOK
<1>11. Histories'
  BY <1>1, <1>6, <1>9 DEF Histories
<1>12. \A b \in Action : proposal[b].version \in Nat /\ proposal'[b].version \in Nat
  BY <1>1, <1>10 DEF TypeOK, Proposal
<1>13. ASSUME NEW q \in Request, request'[q].phase = "checked"
       PROVE  /\ q # r /\ request'[q] = request[q]
              /\ request[q].version \in Nat
              /\ request[q].target \in Domain => request[q].target \notin Action
              /\ request[q].target \in Action =>
                   request[q].version <= proposal[request[q].target].version
  <2>1. q # r /\ request'[q] = request[q]
    BY <1>8, <1>9, <1>13
  <2> QED
    BY <1>1, <1>13, <2>1, SetsApart DEF TypeOK, Behind
<1>14. \A b \in Action : proposal[b].version <= proposal'[b].version
  BY <1>6, <1>9, <1>12 DEF p
<1>15. Behind'
  <2> SUFFICES ASSUME NEW q \in Request, request'[q].phase = "checked",
                      request[q].target \in Action
               PROVE  request[q].version <= proposal'[request[q].target].version
    BY <1>13 DEF Behind
  <2> QED
    BY <1>12, <1>13, <1>14
<1>16. Sound'
  <2> SUFFICES ASSUME NEW q \in Request, request'[q].phase = "checked",
                      request[q].target \in Action, Current(q)'
               PROVE  LET t == request[q] IN
                        Justified(t.target, proposal'[t.target], t.actor, t.write)
    BY <1>13 DEF Sound
  <2>1. request[q].target # a
    BY <1>2, <1>6, <1>9, <1>12, <1>13 DEF Current, p
  <2>2. Current(q)
    BY <1>7, <1>9, <1>13, <2>1 DEF Current
  <2> QED
    BY <1>1, <1>9, <1>13, <2>1, <2>2 DEF Sound
<1>17. Calls'
  <2>1. \A b \in Action : Ran(audit[b]) => Ran(audit'[b])
    BY <1>6, <1>9
  <2>2. \A q \in Request : request[q].phase = "calling" => request[q].target \in Action
    BY <1>1, SetsApart DEF TypeOK
  <2>3. \A q \in Request : request'[q].phase = "calling" =>
          \/ q = r /\ request'[q].target = a /\ ~Ran(audit[a]) /\ Ran(audit'[a])
          \/ q # r /\ request'[q] = request[q]
    BY <1>6, <1>8, <1>9
  <2>4. ~Ran(audit[a]) => performed[a] = 0
    BY <1>1, <1>2 DEF Calls, TypeOK
  <2>5. \A b \in Action : performed'[b] <= 1 /\ (performed'[b] = 1 => Ran(audit'[b]))
    BY <1>1, <1>7, <2>1 DEF Calls
  <2>6. \A q \in Request : request'[q].phase = "calling" =>
          performed'[request'[q].target] = 0 /\ Ran(audit'[request'[q].target])
    BY <1>1, <1>7, <2>1, <2>2, <2>3, <2>4 DEF Calls
  <2>7. \A t, q \in Request :
          /\ request'[t].phase = "calling" /\ request'[q].phase = "calling"
          /\ request'[t].target = request'[q].target
          => t = q
    BY <1>1, <2>2, <2>3 DEF Calls
  <2> QED
    BY <2>5, <2>6, <2>7 DEF Calls
<1>18. \A b \in Action :
         (\E i \in Len(audit[b]) + 1 .. Len(audit'[b]) : audit'[b][i].state = "executing")
           => b = a /\ Executes(w)
  <2>1. \A b \in Action \ {a} : Len(audit'[b]) = Len(audit[b]) /\ Len(audit[b]) \in Nat
    BY <1>1, <1>9, LenProperties DEF TypeOK
  <2> QED
    BY <1>6, <1>9, <2>1
<1>19. Drafts'
  BY <1>1, <1>7, <1>13 DEF Drafts
<1> QED
  BY <1>7, <1>10, <1>11, <1>15, <1>16, <1>17, <1>18, <1>19 DEF Safe, a, w

LEMMA RoutesPrepare ==
  ASSUME Safe, NEW r \in Request, NEW a \in Action, NEW actor \in Actor,
         \/ CreateProposal(r, a) \/ IssueConfirmation(r, a) \/ RejectAction(r, a)
         \/ ExecuteAction(r, a) \/ ApproveAction(r, actor, a) \/ ReverseAction(r, actor, a)
  PROVE  Prepares(r, a)
  BY CreatePrepares, IssuePrepares, RejectPrepares, ExecutePrepares, ApprovePrepares,
     ReversePrepares DEF Safe

\* The steps of the module, the routes that prepare a write taken together.
LEMMA Steps ==
  ASSUME Safe, [Next]_vars
  PROVE  \/ \E r \in Request :
              \/ \E a \in Action : Prepares(r, a)
              \/ \E actor \in Actor, d \in Domain : SetPolicy(r, actor, d)
              \/ Commit(r) \/ Rollback(r) \/ Call(r) \/ Finish(r) \/ Abandon(r)
         \/ \E a \in Action : Lapse(a)
         \/ UNCHANGED vars
<1>1. CASE UNCHANGED vars
  BY <1>1
<1>2. CASE \E a \in Action : Lapse(a)
  BY <1>2
<1>3. ASSUME NEW r \in Request, NEW a \in Action,
             CreateProposal(r, a) \/ IssueConfirmation(r, a) \/ RejectAction(r, a)
               \/ ExecuteAction(r, a)
      PROVE  Prepares(r, a)
  <2>1. "human" \in Actor
    BY DEF Actor
  <2> QED
    BY <1>3, <2>1, RoutesPrepare
<1>4. ASSUME NEW r \in Request, NEW a \in Action, NEW actor \in Actor,
             ApproveAction(r, actor, a) \/ ReverseAction(r, actor, a)
      PROVE  Prepares(r, a)
  BY <1>4, RoutesPrepare
<1> QED
  BY <1>1, <1>2, <1>3, <1>4 DEF Next, Serve

LEMMA CommitTargets ==
  ASSUME Safe, NEW r \in Request, Commit(r)
  PROVE  request[r].target \in Action \/ request[r].target \in Domain
  BY SetsApart DEF Safe, TypeOK, Commit

LEMMA SafeStep == Safe /\ [Next]_vars => Safe'
<1> SUFFICES ASSUME Safe, [Next]_vars PROVE Safe'
  OBVIOUS
<1>1. ASSUME NEW r \in Request, NEW a \in Action, Prepares(r, a) PROVE Safe'
  BY <1>1, PrepareStep
<1>2. ASSUME NEW r \in Request, NEW actor \in Actor, NEW d \in Domain, SetPolicy(r, actor, d)
      PROVE  Safe'
  BY <1>2, SetPolicyStep
<1>3. ASSUME NEW r \in Request, Commit(r) PROVE Safe'
  BY <1>3, CommitTargets, CommitPolicyStep, CommitProposalStep
<1>4. ASSUME NEW r \in Request, Rollback(r) \/ Call(r) \/ Finish(r) \/ Abandon(r) PROVE Safe'
  BY <1>4, LeaveStep, CallStep, FinishStep
<1>5. ASSUME NEW a \in Action, Lapse(a) PROVE Safe'
  BY <1>5, LapseStep
<1>6. CASE UNCHANGED vars
  BY <1>6 DEF vars, Safe, TypeOK, Histories, Behind, Sound, Drafts, Calls, Current
<1> QED
  BY <1>1, <1>2, <1>3, <1>4, <1>5, <1>6, Steps

\* Only the commit of a policy change touches a policy.
LEMMA PolicyKept ==
  ASSUME Safe, [Next]_vars
  PROVE  \/ UNCHANGED policy
         \/ \E r \in Request : Commit(r) /\ request[r].target \in Domain
<1>1. ASSUME NEW r \in Request, NEW a \in Action, Prepares(r, a) PROVE UNCHANGED policy
  BY <1>1 DEF Prepares, Check
<1>2. ASSUME NEW r \in Request, Commit(r), request[r].target \in Action PROVE UNCHANGED policy
  BY <1>2, CommitProposalStep
<1>3. ASSUME NEW r \in Request, Rollback(r) \/ Call(r) \/ Finish(r) \/ Abandon(r)
      PROVE  UNCHANGED policy
  BY <1>3 DEF Rollback, Call, Finish, Abandon
<1>4. ASSUME NEW r \in Request, NEW actor \in Actor, NEW d \in Domain, SetPolicy(r, actor, d)
      PROVE  UNCHANGED policy
  BY <1>4 DEF SetPolicy
<1> QED
  BY <1>1, <1>2, <1>3, <1>4, CommitTargets, Steps DEF Lapse, vars

LEMMA LooseningStep ==
  ASSUME Safe, [Next]_vars, NEW d \in Domain, Loosens(policy'[d], policy[d])
  PROVE  \E r \in Request :
           /\ request[r].phase = "checked" /\ request[r].target = d /\ request'[r] = Idle
           /\ \/ request[r].actor = "human"
              \/ Ahead(r) /\ ~Loosens(policy'[d], request[r].seen)
<1>1. policy[d].cap \in Nat
  <2>1. policy[d] \in Policy
    BY DEF Safe, TypeOK
  <2>2. Cap \subseteq Nat
    BY ActionPolicyAssumption DEF Level
  <2> QED
    BY <2>1, <2>2 DEF Policy
<1>2. policy' # policy
  BY <1>1 DEF Loosens
<1>3. PICK r \in Request : Commit(r) /\ request[r].target \in Domain
  BY <1>2, PolicyKept
<1>4. /\ request[r].target = d /\ request'[r] = Idle
      /\ \/ request[r].actor = "human"
         \/ Ahead(r) /\ ~Loosens(policy'[d], request[r].seen)
  BY <1>3, CommitPolicyStep
<1> QED
  BY <1>3, <1>4 DEF Commit

-----------------------------------------------------------------------------
(* One process                                                             *)

\* Every request is served by the same web process, under one auth lock.
OneProcess == \A q, r \in Request : ProcessOf[q] = ProcessOf[r]

\* At most one request is between its guards and its commit, and what it will
\* start the policy still allows.
Ordered ==
  /\ \A q, r \in Request :
       request[q].phase = "checked" /\ request[r].phase = "checked" => q = r
  /\ \A r \in Request :
       /\ request[r].phase = "checked" /\ request[r].target \in Action
       /\ Executes(request[r].write)
       => Allows(request[r].target, LevelOf[request[r].target])

LEMMA OrderedRequest ==
  ASSUME OneProcess, TypeOK, Ordered, NEW r \in Request, NEW x,
         request' = [request EXCEPT ![r] = x], UNCHANGED policy,
         x.phase = "checked" =>
           /\ LockFree(r)
           /\ (x.target \in Action /\ Executes(x.write)) => Allows(x.target, LevelOf[x.target])
  PROVE  Ordered'
<1>1. request'[r] = x /\ \A q \in Request \ {r} : request'[q] = request[q]
  BY DEF TypeOK
<1>2. x.phase = "checked" => \A q \in Request : request[q].phase # "checked"
  BY DEF LockFree, OneProcess
<1>3. \A q, t \in Request :
        request'[q].phase = "checked" /\ request'[t].phase = "checked" => q = t
  BY <1>1, <1>2 DEF Ordered
<1>4. \A q \in Request :
       /\ request'[q].phase = "checked" /\ request'[q].target \in Action
       /\ Executes(request'[q].write)
       => Allows(request'[q].target, LevelOf[request'[q].target])
  BY <1>1 DEF Ordered
<1>5. \A a, level : Allows(a, level)' <=> Allows(a, level)
  BY DEF Allows
<1> QED
  BY <1>3, <1>4, <1>5 DEF Ordered

LEMMA OrderedStep ==
  ASSUME OneProcess, Safe, Ordered, [Next]_vars PROVE Ordered'
<1>1. TypeOK
  BY DEF Safe
<1>2. ASSUME NEW r \in Request, NEW a \in Action, Prepares(r, a) PROVE Ordered'
  <2> PICK actor \in Actor, w \in Seq(Proposal) :
        Check(r, actor, a, w) /\ (Executes(w) => Allows(a, LevelOf[a]))
    BY <1>2 DEF Prepares
  <2> QED
    BY <1>1, OrderedRequest DEF Check
<1>3. ASSUME NEW r \in Request, NEW actor \in Actor, NEW d \in Domain, SetPolicy(r, actor, d)
      PROVE  Ordered'
  <2>1. d \notin Action
    BY SetsApart
  <2> QED
    BY <1>1, <1>3, <2>1, OrderedRequest DEF SetPolicy
<1>4. ASSUME NEW r \in Request, Commit(r), request[r].target \in Domain PROVE Ordered'
  <2>1. request' = [request EXCEPT ![r] = Idle] /\ request[r].phase = "checked"
    BY <1>4, SetsApart DEF Commit
  <2>2. \A q \in Request : request'[q].phase # "checked"
    BY <1>1, <2>1 DEF TypeOK, Ordered, Idle
  <2> QED
    BY <2>2 DEF Ordered
<1>5. ASSUME NEW r \in Request, Commit(r), request[r].target \in Action PROVE Ordered'
  <2>1. request' = [request EXCEPT ![r] = Continue(r)] /\ UNCHANGED policy
    BY <1>5, SetsApart DEF Commit
  <2>2. request[r] \in Checked
    BY <1>1, <1>5, SetsApart DEF TypeOK, Commit
  <2>3. Continue(r).phase # "checked"
    BY <2>2 DEF Continue, Idle, Checked
  <2> QED
    BY <1>1, <2>1, <2>3, OrderedRequest
<1>6. ASSUME NEW r \in Request, Rollback(r) \/ Abandon(r) PROVE Ordered'
  BY <1>1, <1>6, OrderedRequest DEF Rollback, Abandon, Idle
<1>7. ASSUME NEW r \in Request, Call(r) PROVE Ordered'
  <2>1. PICK answer \in {"succeeded", "failed"} :
          request' = [request EXCEPT ![r].phase = answer] /\ UNCHANGED policy
    BY <1>7 DEF Call
  <2>2. /\ \A q \in Request \ {r} : request'[q] = request[q]
        /\ request'[r].phase # "checked"
    <3>1. request[r] \in Waiting
      BY <1>1, <1>7, SetsApart DEF TypeOK, Call
    <3>2. request'[r] = [request[r] EXCEPT !.phase = answer]
      BY <1>1, <2>1 DEF TypeOK
    <3> QED
      BY <1>1, <2>1, <3>1, <3>2 DEF TypeOK, Waiting
  <2> QED
    BY <2>1, <2>2 DEF Ordered, Allows
<1>8. ASSUME NEW r \in Request, Finish(r) PROVE Ordered'
  <2> DEFINE q == request[r]
             p == proposal[q.target]
             n == IF q.phase = "succeeded" THEN Completed(p) ELSE Failed(p)
             x == [q EXCEPT !.phase = "checked", !.write = <<n>>]
  <2>1. request' = [request EXCEPT ![r] = x] /\ LockFree(r) /\ UNCHANGED policy
    BY <1>8 DEF Finish
  <2>2. request[r] \in Waiting
    BY <1>1, <1>8, SetsApart DEF TypeOK, Finish
  <2>3. x.write = <<n>>
    BY <2>2 DEF Waiting
  <2>4. n.state # "executing"
    BY DEF Completed, Failed, Transition
  <2>5. ~Executes(x.write)
    BY <2>3, <2>4 DEF Executes
  <2> HIDE DEF x
  <2> QED
    BY <1>1, <2>1, <2>5, OrderedRequest
<1>9. ASSUME NEW a \in Action, Lapse(a) PROVE Ordered'
  BY <1>9 DEF Lapse, Ordered, Allows
<1>10. CASE UNCHANGED vars
  BY <1>10 DEF vars, Ordered, Allows
<1> QED
  BY <1>2, <1>3, <1>4, <1>5, <1>6, <1>7, <1>8, <1>9, <1>10, CommitTargets, Steps

\* Only the commit of a step of a proposal adds to an audit trail.
LEMMA AuditKept ==
  ASSUME Safe, [Next]_vars
  PROVE  \/ UNCHANGED audit
         \/ \E r \in Request : Commit(r) /\ request[r].target \in Action
<1>1. ASSUME NEW r \in Request, NEW a \in Action, Prepares(r, a) PROVE UNCHANGED audit
  BY <1>1 DEF Prepares, Check
<1>2. ASSUME NEW r \in Request, Commit(r), request[r].target \in Domain PROVE UNCHANGED audit
  BY <1>2, SetsApart DEF Commit
<1>3. ASSUME NEW r \in Request, Rollback(r) \/ Call(r) \/ Finish(r) \/ Abandon(r)
      PROVE  UNCHANGED audit
  BY <1>3 DEF Rollback, Call, Finish, Abandon
<1>4. ASSUME NEW r \in Request, NEW actor \in Actor, NEW d \in Domain, SetPolicy(r, actor, d)
      PROVE  UNCHANGED audit
  BY <1>4 DEF SetPolicy
<1> QED
  BY <1>1, <1>2, <1>3, <1>4, CommitTargets, Steps DEF Lapse, vars

LEMMA StartStep ==
  ASSUME Safe, Ordered, [Next]_vars, NEW a \in Action,
         \E i \in Len(audit[a]) + 1 .. Len(audit'[a]) : audit'[a][i].state = "executing"
  PROVE  Allows(a, LevelOf[a])
<1>1. Len(audit[a]) \in Nat
  BY LenProperties DEF Safe, TypeOK
<1>2. audit' # audit
  BY <1>1
<1>3. PICK r \in Request : Commit(r) /\ request[r].target \in Action
  BY <1>2, AuditKept
<1>4. a = request[r].target /\ Executes(request[r].write)
  BY <1>3, CommitProposalStep
<1> QED
  BY <1>3, <1>4 DEF Ordered, Commit

-----------------------------------------------------------------------------
(* The theorems                                                            *)

\* The inductive invariant: every trail is the history of its proposal, every
\* prepared write a legal step of the row it was read from, and every call one
\* of its own.
THEOREM PolicyInvariant == Spec => []Safe
  BY Begins, SafeStep, PTL DEF Spec

\* Policies, proposals, audit rows and requests keep their types.
THEOREM PolicyTypes == Spec => []TypeOK
<1>1. Safe => TypeOK
  BY DEF Safe
<1> QED
  BY PolicyInvariant, <1>1, PTL

\* The audit trail of every proposal is its whole history, whichever requests
\* of whichever processes raced (_transition's compare-and-set).
THEOREM TrailIsHistory == Spec => []AuditIsHistory
<1>1. Safe => AuditIsHistory
  BY DEF Safe, Histories, History, Trail, AuditIsHistory, Last
<1> QED
  BY PolicyInvariant, <1>1, PTL

\* Nothing of level 5 or 6 is executed or reversed on an agent's own consent
\* (_verify_confirmation, approve_action, start_action, reverse_action).
THEOREM ConsentPrecedes == Spec => []ConsentedExecution
<1>1. Safe => ConsentedExecution
  <2> SUFFICES ASSUME Safe, NEW a \in Action, Confirmed(LevelOf[a])
               PROVE  \A i \in DOMAIN audit[a] :
                        /\ audit[a][i].state = "executing" =>
                             i > 1 /\ audit[a][i-1] = [state |-> "approved", actor |-> "human"]
                        /\ audit[a][i].state = "reversed" =>
                             /\ audit[a][i].actor = "human"
                             /\ i > 2 /\ audit[a][i-1].state = "completed"
                             /\ audit[a][i-2].state = "completed"
    BY DEF ConsentedExecution
  <2>1. DOMAIN audit[a] = 1 .. Len(audit[a])
    BY LenProperties DEF Safe, TypeOK
  <2>2. Consents(audit[a])
    BY DEF Safe, Histories, History
  <2> QED
    BY <2>1, <2>2 DEF Consents
<1> QED
  BY PolicyInvariant, <1>1, PTL

\* No device is operated twice for one proposal, nor for one that did not start.
THEOREM OperatedOnce == Spec => []EffectOnce
<1>1. Safe => EffectOnce
  <2>1. Safe => \A a \in Action : DOMAIN audit[a] = 1 .. Len(audit[a])
    BY LenProperties DEF Safe, TypeOK
  <2> QED
    BY <2>1 DEF Safe, Calls, Ran, EffectOnce
<1> QED
  BY PolicyInvariant, <1>1, PTL

\* A policy becomes looser only in a human's commit, or when an agent named a
\* version still to come, and then not looser than it was when the agent was
\* checked (set_action_policy).
THEOREM HumansLoosen == Spec => AgentsNeverLoosen
<1>1. Safe /\ [Next]_vars =>
        [ \A d \in Domain : Loosens(policy'[d], policy[d]) =>
            \E r \in Request :
              /\ request[r].phase = "checked" /\ request[r].target = d /\ request'[r] = Idle
              /\ \/ request[r].actor = "human"
                 \/ Ahead(r) /\ ~Loosens(policy'[d], request[r].seen) ]_vars
  BY LooseningStep
<1> QED
  BY PolicyInvariant, <1>1, PTL DEF Spec, AgentsNeverLoosen

\* When one process serves every request, what starts to execute is allowed by
\* the policy in force: the auth lock covers the check and the commit.
THEOREM PolicyOfTheMoment ==
  ASSUME OneProcess PROVE Spec => ExecutionRespectsPolicy
<1>1. Init => Safe /\ Ordered
  <2>1. Init => Ordered
    BY DEF Init, Ordered, Idle
  <2> QED
    BY <2>1, Begins
<1>2. Safe /\ Ordered /\ [Next]_vars => (Safe /\ Ordered)'
  BY SafeStep, OrderedStep
<1>3. Safe /\ Ordered /\ [Next]_vars =>
        [ \A a \in Action :
            (\E i \in Len(audit[a]) + 1 .. Len(audit'[a]) : audit'[a][i].state = "executing")
              => LET pol == policy[DomainOf[KindOf[a]]] IN
                   pol.enabled /\ LevelOf[a] <= pol.cap ]_vars
  <2> SUFFICES ASSUME Safe, Ordered, [Next]_vars, NEW a \in Action,
                      \E i \in Len(audit[a]) + 1 .. Len(audit'[a]) :
                        audit'[a][i].state = "executing"
               PROVE  LET pol == policy[DomainOf[KindOf[a]]] IN
                        pol.enabled /\ LevelOf[a] <= pol.cap
    OBVIOUS
  <2>1. Allows(a, LevelOf[a])
    BY StartStep
  <2> QED
    BY <2>1 DEF Allows
<1> QED
  BY <1>1, <1>2, <1>3, PTL DEF Spec, ExecutionRespectsPolicy

-----------------------------------------------------------------------------
(* Concurrent requests implement SerialActions                             *)

\* What a request may have decided to write over the row p of action a, whose
\* device was operated done times: a step of the lifecycle, by whom.
Decided(a, p, done, who, w) ==
  \/ p.state = "absent" /\ who = "agent" /\ w = <<Created(LevelOf[a])>>
  \/ /\ a \in Critical /\ p.state \in {"prepared", "approved"} /\ who = "agent"
     /\ w = <<Issued(p, "approve")>>
  \/ /\ a \in Critical \ Devices /\ p.state = "completed" /\ who = "agent"
     /\ w = <<Issued(p, "reverse")>>
  \/ /\ a \in Critical /\ p.state = "prepared" /\ p.digest.purpose = "approve"
     /\ who = "human" /\ w = <<Approved(p)>>
  \/ p.state \in {"prepared", "approved"} /\ who = "agent" /\ w = <<Rejected(p)>>
  \/ /\ p.state = (IF a \in Critical THEN "approved" ELSE "prepared") /\ who = "agent"
     /\ \/ a \notin Devices /\ w = <<Started(p, TRUE), Completed(Started(p, TRUE))>>
        \/ a \in Devices /\ w = <<Started(p, FALSE)>>
  \/ /\ p.state = "executing" /\ who = "agent"
     /\ (done = 1 /\ w = <<Completed(p)>>) \/ w = <<Failed(p)>>
  \/ /\ a \notin Devices /\ p.state = "completed" /\ who \in Actor /\ w = <<Reversed(p)>>
     /\ a \in Critical => who = "human" /\ p.digest.purpose = "reverse"

\* A request that has read the row as it still is.
Holds(r) ==
  /\ request[r].phase = "checked" /\ request[r].target \in Action
  /\ request[r].version = proposal[request[r].target].version

\* A request between the start of an action and the record of its outcome.
Outside(r) == request[r].phase \in {"calling", "succeeded", "failed"}
Carries(r) ==
  Outside(r) \/ (Holds(r) /\ proposal[request[r].target].state = "executing")

Decisions ==
  \A r \in Request : LET q == request[r] IN
    Holds(r) => Decided(q.target, proposal[q.target], performed[q.target], q.actor, q.write)

\* Nobody else touches an action while its device is called.
Carried ==
  /\ \A r \in Request : LET q == request[r] IN
       Outside(r) => /\ q.target \in Devices /\ q.actor = "agent"
                     /\ proposal[q.target].state = "executing"
                     /\ q.version = proposal[q.target].version
                     /\ q.phase = "succeeded" => performed[q.target] = 1
  /\ \A q, r \in Request :
       Carries(q) /\ Carries(r) /\ request[q].target = request[r].target => q = r

Plain ==
  \A a \in Action : /\ proposal[a].state = "executing" => ~proposal[a].fresh
                    /\ proposal[a].undo => a \notin Devices

Serial == Decisions /\ Carried /\ Plain

\* States a request decides for because of a challenge or an approval.
Binding == {"approved", "executing", "reversed"}

\* What the guards of a route establish of its decision.
Chooses(r, a) ==
  \E who \in Actor, w \in Seq(Proposal) :
    /\ Check(r, who, a, w) /\ Decided(a, proposal[a], performed[a], who, w)
    /\ proposal[a].state # "executing"
    /\ a \in Critical /\ w[1].state \in Binding => proposal[a].fresh

LEMMA OneChoice ==
  ASSUME NEW r \in Request, NEW a \in Action, NEW who \in Actor, NEW n \in Proposal,
         Check(r, who, a, <<n>>), Decided(a, proposal[a], performed[a], who, <<n>>),
         proposal[a].state # "executing",
         a \in Critical /\ n.state \in Binding => proposal[a].fresh
  PROVE  Chooses(r, a)
<1>1. <<n>> \in Seq(Proposal) /\ <<n>>[1] = n
  BY OneWritten
<1> QED
  BY <1>1 DEF Chooses

LEMMA Kinds ==
  /\ "agent" \in Actor /\ "human" \in Actor
  /\ \A a \in Action : /\ Calendar(a) \in BOOLEAN
                       /\ Calendar(a) <=> a \notin Devices
                       /\ a \in Critical <=> Confirmed(LevelOf[a])
                       /\ a \in Devices => a \in Critical
<1>1. \A a \in Action : Calendar(a) <=> ~SmartHome(a)
  BY ActionPolicyAssumption DEF Calendar, SmartHome, Floor
<1>2. \A a \in Action : SmartHome(a) => LevelOf[a] >= 5
  BY ActionPolicyAssumption DEF SmartHome, Floor
<1> QED
  BY <1>1, <1>2 DEF Actor, Calendar, Devices, Critical, Confirmed

LEMMA CreateChooses ==
  ASSUME Safe, NEW r \in Request, NEW a \in Action, CreateProposal(r, a)
  PROVE  Chooses(r, a)
<1>1. LevelOf[a] \in Level /\ proposal[a].state = "absent"
  BY Leveled DEF CreateProposal, Safe
<1>2. Created(LevelOf[a]) \in Proposal /\ Created(LevelOf[a]).state = "prepared"
  BY <1>1, CreatedType DEF Created
<1>3. Decided(a, proposal[a], performed[a], "agent", <<Created(LevelOf[a])>>)
  BY <1>1 DEF Decided
<1> QED
  BY <1>1, <1>2, <1>3, OneChoice, Kinds DEF CreateProposal, Binding

LEMMA IssueChooses ==
  ASSUME Safe, Plain, NEW r \in Request, NEW a \in Action, IssueConfirmation(r, a)
  PROVE  Chooses(r, a)
<1> PICK purpose \in {"approve", "reverse"} :
      /\ IssueOk(proposal[a], purpose)
      /\ Check(r, "agent", a, <<Issued(proposal[a], purpose)>>)
  BY DEF IssueConfirmation
<1> DEFINE n == Issued(proposal[a], purpose)
<1>1. n \in Proposal /\ n.state \in {"prepared", "completed"}
  BY Leveled, WrittenTypes DEF Issued, Transition, Safe
<1>2. a \in Critical /\ proposal[a].state # "executing"
  BY Leveled, Kinds DEF IssueOk, Safe
<1>3. CASE purpose = "approve"
  <2>1. Decided(a, proposal[a], performed[a], "agent", <<n>>)
    BY <1>2, <1>3 DEF Decided, IssueOk
  <2> QED
    BY <1>1, <1>2, <2>1, OneChoice, Kinds DEF Binding
<1>4. CASE purpose = "reverse"
  <2>1. Decided(a, proposal[a], performed[a], "agent", <<n>>)
    BY <1>2, <1>4 DEF Decided, IssueOk, Plain
  <2> QED
    BY <1>1, <1>2, <2>1, OneChoice, Kinds DEF Binding
<1> QED
  BY <1>3, <1>4

LEMMA ApproveChooses ==
  ASSUME Safe, NEW r \in Request, NEW a \in Action, NEW actor \in Actor,
         ApproveAction(r, actor, a)
  PROVE  Chooses(r, a)
<1> DEFINE n == Approved(proposal[a])
<1>1. n \in Proposal
  BY Leveled, WrittenTypes DEF Safe
<1>2. /\ a \in Critical /\ proposal[a].state = "prepared" /\ actor = "human"
      /\ proposal[a].digest.purpose = "approve" /\ proposal[a].fresh
  BY Leveled, Kinds DEF ApproveAction, ApproveOk, Verifies, Challenge, Safe
<1>3. Decided(a, proposal[a], performed[a], actor, <<n>>)
  BY <1>2 DEF Decided
<1> QED
  BY <1>1, <1>2, <1>3, OneChoice DEF ApproveAction

LEMMA RejectChooses ==
  ASSUME Safe, NEW r \in Request, NEW a \in Action, RejectAction(r, a)
  PROVE  Chooses(r, a)
<1> DEFINE n == Rejected(proposal[a])
<1>1. n \in Proposal /\ n.state = "rejected"
  BY Leveled, WrittenTypes DEF Rejected, Transition, Safe
<1>2. Decided(a, proposal[a], performed[a], "agent", <<n>>) /\ proposal[a].state # "executing"
  BY DEF Decided, RejectAction, RejectOk
<1> QED
  BY <1>1, <1>2, OneChoice, Kinds DEF RejectAction, Binding

LEMMA ReverseChooses ==
  ASSUME Safe, NEW r \in Request, NEW a \in Action, NEW actor \in Actor,
         ReverseAction(r, actor, a)
  PROVE  Chooses(r, a)
<1> DEFINE n == Reversed(proposal[a])
<1>1. n \in Proposal
  BY Leveled, WrittenTypes DEF Safe
<1>2. /\ proposal[a].state = "completed" /\ a \notin Devices /\ Check(r, actor, a, <<n>>)
      /\ Confirmed(proposal[a].level) =>
           actor = "human" /\ proposal[a].digest.purpose = "reverse" /\ proposal[a].fresh
  BY Kinds DEF ReverseAction, ReverseOk, Verifies, Challenge
<1>3. a \in Critical => Confirmed(proposal[a].level)
  BY <1>2, Leveled, Kinds DEF Safe
<1>4. Decided(a, proposal[a], performed[a], actor, <<n>>)
  BY <1>2, <1>3 DEF Decided
<1> QED
  BY <1>1, <1>2, <1>3, <1>4, OneChoice

LEMMA ExecuteChooses ==
  ASSUME Safe, NEW r \in Request, NEW a \in Action, ExecuteAction(r, a)
  PROVE  Chooses(r, a)
<1> DEFINE p == proposal[a]
<1>1. /\ p.state = (IF a \in Critical THEN "approved" ELSE "prepared")
      /\ a \in Critical => p.fresh
  BY Leveled, Kinds DEF ExecuteAction, StartOk, Safe
<1>2. p \in Proposal /\ Started(p, TRUE) \in Proposal /\ Started(p, FALSE) \in Proposal
  BY Leveled, WrittenTypes DEF Safe
<1>3. CASE Calendar(a) /\ Check(r, "agent", a, <<Started(p, Calendar(a)), Completed(Started(p, Calendar(a)))>>)
  <2> DEFINE m == Started(p, TRUE)
             w == <<m, Completed(m)>>
  <2>1. Calendar(a) = TRUE /\ a \notin Devices
    BY <1>3, Kinds
  <2>2. w \in Seq(Proposal) /\ Check(r, "agent", a, w)
    <3>1. m \in Proposal /\ Completed(m) \in Proposal
      BY <1>2, WrittenTypes
    <3>2. w \in Seq(Proposal)
      <4> HIDE DEF m
      <4> QED
        BY <3>1, TwoWritten
    <3> QED
      BY <1>3, <2>1, <3>2
  <2>3. Decided(a, p, performed[a], "agent", w)
    BY <1>1, <2>1 DEF Decided
  <2> HIDE DEF w
  <2> QED
    BY <1>1, <2>2, <2>3, Kinds DEF Chooses
<1>4. CASE SmartHome(a) /\ Check(r, "agent", a, <<Started(p, Calendar(a))>>)
  <2>1. Calendar(a) = FALSE /\ a \in Devices
    BY <1>4, Kinds DEF Devices
  <2>2. Check(r, "agent", a, <<Started(p, FALSE)>>)
    BY <1>4, <2>1
  <2>3. Decided(a, p, performed[a], "agent", <<Started(p, FALSE)>>)
    BY <1>1, <2>1 DEF Decided
  <2> QED
    BY <1>1, <1>2, <2>2, <2>3, OneChoice, Kinds
<1> QED
  BY <1>3, <1>4 DEF ExecuteAction

\* The steps of the module, the routes taken together.
LEMMA SerialSteps ==
  ASSUME Safe, Plain, [Next]_vars
  PROVE  \/ \E r \in Request :
              \/ \E a \in Action : Chooses(r, a)
              \/ \E actor \in Actor, d \in Domain : SetPolicy(r, actor, d)
              \/ Commit(r) \/ Rollback(r) \/ Call(r) \/ Finish(r) \/ Abandon(r)
         \/ \E a \in Action : Lapse(a)
         \/ UNCHANGED vars
<1>1. ASSUME NEW r \in Request, NEW a \in Action,
             CreateProposal(r, a) \/ IssueConfirmation(r, a) \/ RejectAction(r, a)
               \/ ExecuteAction(r, a)
      PROVE  Chooses(r, a)
  BY <1>1, CreateChooses, IssueChooses, RejectChooses, ExecuteChooses
<1>2. ASSUME NEW r \in Request, NEW a \in Action, NEW actor \in Actor,
             ApproveAction(r, actor, a) \/ ReverseAction(r, actor, a)
      PROVE  Chooses(r, a)
  BY <1>2, ApproveChooses, ReverseChooses
<1> QED
  BY <1>1, <1>2 DEF Next, Serve

\* The rows a decision writes.
LEMMA LastOf ==
  /\ \A n : Last(<<n>>) = n /\ <<n>>[1] = n
  /\ \A m, n : Last(<<m, n>>) = n /\ <<m, n>>[1] = m
  BY DEF Last

\* What is decided of a start, of its outcome, and of what can be undone.
LEMMA Decides ==
  ASSUME NEW a \in Action, NEW p \in Proposal, NEW done, NEW who, NEW w,
         Decided(a, p, done, who, w), p.undo => a \notin Devices
  PROVE  LET n == Last(w) IN
         /\ p.state = "executing" => n.state \in {"completed", "failed"} /\ n.fresh = p.fresh
         /\ n.state = "executing" => /\ a \in Devices /\ who = "agent" /\ ~n.fresh
                                     /\ n.version = p.version + 1
         /\ n.undo => a \notin Devices
<1> DEFINE Goal(n) ==
      /\ p.state = "executing" => n.state \in {"completed", "failed"} /\ n.fresh = p.fresh
      /\ n.state = "executing" => /\ a \in Devices /\ who = "agent" /\ ~n.fresh
                                  /\ n.version = p.version + 1
      /\ n.undo => a \notin Devices
<1> SUFFICES Goal(Last(w))
  OBVIOUS
<1>1. CASE p.state = "absent" /\ w = <<Created(LevelOf[a])>>
  <2>1. Goal(Created(LevelOf[a]))
    BY <1>1 DEF Created
  <2> QED
    BY <1>1, <2>1, LastOf
<1>2. ASSUME NEW purpose \in {"approve", "reverse"},
             p.state \in {"prepared", "approved", "completed"}, w = <<Issued(p, purpose)>>
      PROVE  Goal(Last(w))
  <2>1. Goal(Issued(p, purpose))
    BY <1>2 DEF Issued, Transition
  <2>2. Last(w) = Issued(p, purpose)
    BY Zenon, <1>2, LastOf
  <2> HIDE DEF Goal
  <2> QED
    BY <2>1, <2>2
<1>3. CASE /\ p.state \in {"prepared", "approved", "completed"}
           /\ w \in {<<Approved(p)>>, <<Rejected(p)>>, <<Reversed(p)>>}
  <2>1. Goal(Approved(p)) /\ Goal(Rejected(p)) /\ Goal(Reversed(p))
    BY <1>3 DEF Approved, Rejected, Reversed, Transition
  <2>2. PICK n \in {Approved(p), Rejected(p), Reversed(p)} : w = <<n>>
    BY <1>3
  <2>3. Goal(n)
    BY <2>1, <2>2
  <2>4. Last(w) = n
    BY Zenon, <2>2, LastOf
  <2> HIDE DEF Goal
  <2> QED
    BY <2>3, <2>4
<1>4. CASE /\ p.state \in {"prepared", "approved"} /\ a \notin Devices
           /\ w = <<Started(p, TRUE), Completed(Started(p, TRUE))>>
  <2>1. Goal(Completed(Started(p, TRUE)))
    BY <1>4 DEF Completed, Transition
  <2>2. Last(w) = Completed(Started(p, TRUE))
    BY Zenon, <1>4, LastOf
  <2> HIDE DEF Goal
  <2> QED
    BY <2>1, <2>2
<1>5. CASE /\ p.state \in {"prepared", "approved"} /\ a \in Devices /\ who = "agent"
           /\ w = <<Started(p, FALSE)>>
  <2>1. Goal(Started(p, FALSE))
    BY <1>5 DEF Started, Transition
  <2> QED
    BY <1>5, <2>1, LastOf
<1>6. CASE p.state = "executing" /\ w \in {<<Completed(p)>>, <<Failed(p)>>}
  <2>1. Goal(Completed(p)) /\ Goal(Failed(p))
    BY <1>6 DEF Completed, Failed, Transition
  <2> QED
    BY <1>6, <2>1, LastOf
<1> QED
  <2>1. \/ p.state = "absent" /\ w = <<Created(LevelOf[a])>>
        \/ \E purpose \in {"approve", "reverse"} :
             p.state \in {"prepared", "approved", "completed"} /\ w = <<Issued(p, purpose)>>
        \/ /\ p.state \in {"prepared", "approved", "completed"}
           /\ w \in {<<Approved(p)>>, <<Rejected(p)>>, <<Reversed(p)>>}
        \/ /\ p.state \in {"prepared", "approved"} /\ a \notin Devices
           /\ w = <<Started(p, TRUE), Completed(Started(p, TRUE))>>
        \/ /\ p.state \in {"prepared", "approved"} /\ a \in Devices /\ who = "agent"
           /\ w = <<Started(p, FALSE)>>
        \/ p.state = "executing" /\ w \in {<<Completed(p)>>, <<Failed(p)>>}
    BY DEF Decided
  <2> QED
    BY <1>1, <1>2, <1>3, <1>4, <1>5, <1>6, <2>1

\* A challenge that lapses changes no decision of a request that has seen it.
LEMMA LapsedDecides ==
  ASSUME NEW a \in Action, NEW p \in Proposal, NEW done, NEW who, NEW w,
         Decided(a, p, done, who, w), p.state # "executing"
  PROVE  Decided(a, Lapsed(p), done, who, w)
<1> DEFINE q == Lapsed(p)
<1>1. /\ q.state = p.state /\ q.version = p.version /\ q.level = p.level
      /\ q.digest = p.digest /\ q.approved = p.approved /\ q.undo = p.undo
  BY DEF Lapsed, Proposal
<1> HIDE DEF q
<1>2. /\ \A purpose : Issued(q, purpose) = Issued(p, purpose)
      /\ Approved(q) = Approved(p) /\ Rejected(q) = Rejected(p) /\ Reversed(q) = Reversed(p)
      /\ \A undo : Started(q, undo) = Started(p, undo)
  BY <1>1 DEF Issued, Approved, Rejected, Reversed, Started, Transition
<1> QED
  BY <1>1, <1>2 DEF Decided, q

-----------------------------------------------------------------------------
(* Decisions stay valid, and one request carries an action                 *)

LEMMA SerialBegins == Init => Serial
<1> SUFFICES ASSUME Init PROVE Serial
  OBVIOUS
<1>1. \A r \in Request : request[r].phase = "idle"
  BY DEF Init, Idle
<1>2. Decisions /\ Carried
  BY <1>1 DEF Decisions, Carried, Carries, Holds, Outside
<1>3. Plain
  BY DEF Init, Plain, Absent
<1> QED
  BY <1>2, <1>3 DEF Serial

\* Only the slot of one request changes.
LEMMA SerialRequest ==
  ASSUME TypeOK, Serial, NEW r \in Request, NEW x,
         request' = [request EXCEPT ![r] = x],
         proposal' = proposal, performed' = performed,
         x.phase \notin {"calling", "succeeded", "failed"},
         x.phase = "checked" /\ x.target \in Action =>
           /\ Decided(x.target, proposal[x.target], performed[x.target], x.actor, x.write)
           /\ proposal[x.target].state = "executing" =>
                Outside(r) /\ request[r].target = x.target
  PROVE  Serial'
<1>1. request'[r] = x /\ \A q \in Request \ {r} : request'[q] = request[q]
  BY DEF TypeOK
<1>2. \A q \in Request \ {r} : /\ Holds(q)' <=> Holds(q)
                               /\ Outside(q)' <=> Outside(q)
                               /\ Carries(q)' <=> Carries(q)
  BY <1>1 DEF Holds, Outside, Carries
<1>3. Decisions'
  <2> SUFFICES ASSUME NEW q \in Request, Holds(q)'
               PROVE  Decided(request'[q].target, proposal[request'[q].target],
                              performed[request'[q].target], request'[q].actor,
                              request'[q].write)
    BY DEF Decisions
  <2>1. CASE q = r
    BY <1>1, <2>1 DEF Holds
  <2>2. CASE q # r
    BY <1>1, <1>2, <2>2 DEF Serial, Decisions
  <2> QED
    BY <2>1, <2>2
<1>4. ~Outside(r)'
  BY <1>1 DEF Outside
<1>5. Carries(r)' => Outside(r) /\ request[r].target = request'[r].target
  BY <1>1, <1>4 DEF Carries, Holds
<1>6. ASSUME NEW q \in Request, Outside(q)'
      PROVE  q # r /\ request'[q] = request[q] /\ Outside(q)
  BY <1>1, <1>2, <1>4, <1>6
<1>7. ASSUME NEW q \in Request, NEW t \in Request, Carries(q)', Carries(t)',
             request'[q].target = request'[t].target
      PROVE  q = t
  <2>1. Carries(q) /\ request[q].target = request'[q].target
    BY <1>1, <1>2, <1>5, <1>7 DEF Carries
  <2>2. Carries(t) /\ request[t].target = request'[t].target
    BY <1>1, <1>2, <1>5, <1>7 DEF Carries
  <2> QED
    BY <1>7, <2>1, <2>2 DEF Serial, Carried
<1>8. Carried'
  BY <1>6, <1>7 DEF Serial, Carried
<1>9. Plain'
  BY DEF Serial, Plain
<1> QED
  BY <1>3, <1>8, <1>9 DEF Serial

LEMMA ChooseSerial ==
  ASSUME Safe, Serial, NEW r \in Request, NEW a \in Action, Chooses(r, a) PROVE Serial'
<1> PICK who \in Actor, w \in Seq(Proposal) :
      /\ Check(r, who, a, w) /\ Decided(a, proposal[a], performed[a], who, w)
      /\ proposal[a].state # "executing"
  BY DEF Chooses
<1> QED
  BY SerialRequest DEF Check, Safe

LEMMA SetPolicySerial ==
  ASSUME Safe, Serial, NEW r \in Request, NEW actor \in Actor, NEW d \in Domain,
         SetPolicy(r, actor, d)
  PROVE  Serial'
<1> PICK expected, new : request' = [request EXCEPT ![r] =
                 [phase |-> "checked", actor |-> actor, target |-> d,
                  version |-> expected, write |-> <<new>>, seen |-> policy[d]]]
  BY DEF SetPolicy
<1> QED
  BY SerialRequest, SetsApart DEF SetPolicy, Safe

LEMMA LeaveSerial ==
  ASSUME Safe, Serial, NEW r \in Request,
         \/ Rollback(r) \/ Abandon(r)
         \/ Commit(r) /\ request[r].target \in Domain
  PROVE  Serial'
<1>1. /\ request' = [request EXCEPT ![r] = Idle]
      /\ proposal' = proposal /\ performed' = performed
  BY SetsApart DEF Rollback, Abandon, Commit
<1> QED
  BY <1>1, SerialRequest DEF Idle, Safe

\* The outcome is recorded by the request that carries the action.
LEMMA FinishSerial ==
  ASSUME Safe, Serial, NEW r \in Request, Finish(r) PROVE Serial'
<1> DEFINE q == request[r]
           a == q.target
           p == proposal[a]
           n == IF q.phase = "succeeded" THEN Completed(p) ELSE Failed(p)
           x == [request[r] EXCEPT !.phase = "checked", !.write = <<n>>]
<1>1. q \in Waiting /\ a \in Action
  BY SetsApart DEF Finish, Safe, TypeOK
<1>2. /\ Outside(r) /\ p.state = "executing" /\ q.actor = "agent"
      /\ q.phase = "succeeded" => performed[a] = 1
  BY DEF Finish, Outside, Serial, Carried
<1>3. Decided(a, p, performed[a], q.actor, <<n>>)
  BY <1>2 DEF Decided
<1>4. /\ x.phase = "checked" /\ x.target = a /\ x.actor = q.actor /\ x.write = <<n>>
  BY <1>1 DEF Waiting
<1>5. request' = [request EXCEPT ![r] = x] /\ UNCHANGED <<policy, proposal, audit, performed>>
  BY DEF Finish
<1> HIDE DEF x, n, p
<1> QED
  BY <1>2, <1>3, <1>4, <1>5, SerialRequest DEF p, Safe

LEMMA CallSerial ==
  ASSUME Safe, Serial, NEW r \in Request, Call(r) PROVE Serial'
<1> PICK operated \in BOOLEAN, answer \in {"succeeded", "failed"} :
       /\ answer = "succeeded" => operated
       /\ request' = [request EXCEPT ![r].phase = answer]
       /\ performed' = [performed EXCEPT ![request[r].target] =
                          IF operated THEN @ + 1 ELSE @]
  BY DEF Call
<1> DEFINE a == request[r].target
<1>1. /\ request[r] \in Waiting /\ request[r].phase = "calling" /\ a \in Action
      /\ proposal' = proposal /\ performed[a] = 0 /\ Outside(r)
  BY SetsApart DEF Call, Safe, TypeOK, Calls, Outside
<1>2. /\ request'[r].phase = answer /\ request'[r].target = a
      /\ request'[r].actor = request[r].actor /\ request'[r].version = request[r].version
      /\ \A q \in Request \ {r} : request'[q] = request[q]
  <2>1. request'[r] = [request[r] EXCEPT !.phase = answer]
    BY <1>1 DEF Safe, TypeOK
  <2> QED
    BY <1>1, <2>1 DEF Safe, TypeOK, Waiting
<1>3. /\ answer = "succeeded" => performed'[a] = 1
      /\ \A b \in Action \ {a} : performed'[b] = performed[b]
  BY <1>1 DEF Safe, TypeOK
<1>4. /\ ~Holds(r)' /\ Outside(r)'
      /\ \A q \in Request \ {r} : /\ Holds(q)' <=> Holds(q)
                                  /\ Outside(q)' <=> Outside(q)
                                  /\ Carries(q)' <=> Carries(q)
  BY <1>1, <1>2 DEF Holds, Outside, Carries
<1>5. \A q \in Request \ {r} : Carries(q) => request[q].target # a
  BY <1>1 DEF Serial, Carried, Carries
<1>6. \A q \in Request \ {r} : Holds(q) => request[q].target # a /\ request[q].target \in Action
  <2>1. proposal[a].state = "executing"
    BY <1>1 DEF Serial, Carried
  <2> QED
    BY <1>5, <2>1 DEF Carries, Holds
<1>7. Decisions'
  BY <1>1, <1>2, <1>3, <1>4, <1>6 DEF Serial, Decisions
<1>8. ASSUME NEW q \in Request, Outside(q)'
      PROVE  LET t == request'[q] IN
             /\ t.target \in Devices /\ t.actor = "agent"
             /\ proposal[t.target].state = "executing"
             /\ t.version = proposal[t.target].version
             /\ t.phase = "succeeded" => performed'[t.target] = 1
  <2>1. CASE q = r
    BY <1>1, <1>2, <1>3, <2>1 DEF Serial, Carried
  <2>2. CASE q # r
    <3>1. request'[q] = request[q] /\ Outside(q) /\ request[q].target # a
      BY <1>2, <1>4, <1>5, <1>8, <2>2 DEF Carries
    <3>2. request[q].target \in Action
      BY <3>1 DEF Serial, Carried, Devices
    <3> QED
      BY <1>3, <3>1, <3>2 DEF Serial, Carried
  <2> QED
    BY <2>1, <2>2
<1>9. ASSUME NEW q \in Request, NEW t \in Request, Carries(q)', Carries(t)',
             request'[q].target = request'[t].target
      PROVE  q = t
  BY <1>2, <1>4, <1>5, <1>9 DEF Serial, Carried
<1>10. Carried'
  BY <1>1, <1>8, <1>9 DEF Carried
<1>11. Plain'
  BY <1>1 DEF Serial, Plain
<1> QED
  BY <1>7, <1>10, <1>11 DEF Serial

LEMMA LapseSerial ==
  ASSUME Safe, Serial, NEW a \in Action, Lapse(a) PROVE Serial'
<1> DEFINE p == proposal[a]
           n == Lapsed(p)
<1>1. /\ p \in Proposal /\ p.fresh /\ proposal' = [proposal EXCEPT ![a] = n]
      /\ request' = request /\ performed' = performed
  BY Leveled DEF Lapse, Safe
<1>2. proposal'[a] = n /\ \A b \in Action \ {a} : proposal'[b] = proposal[b]
  BY <1>1 DEF Safe, TypeOK
<1>3. n.version = p.version /\ n.state = p.state /\ n.undo = p.undo /\ n.fresh = FALSE
  BY <1>1 DEF Lapsed, Proposal
<1>4. p.state # "executing"
  BY <1>1 DEF Serial, Plain
<1> HIDE DEF n
<1>5. \A b \in Action : /\ proposal'[b].version = proposal[b].version
                        /\ proposal'[b].state = proposal[b].state
  BY <1>2, <1>3
<1>6. \A r \in Request : Holds(r) \/ Outside(r) => request[r].target \in Action
  BY DEF Serial, Carried, Holds, Devices
<1>7. \A r \in Request : Carries(r)' <=> Carries(r)
  <2> TAKE r \in Request
  <2>1. CASE request[r].target \in Action
    BY <1>1, <1>5, <2>1 DEF Carries, Holds, Outside
  <2>2. CASE request[r].target \notin Action
    BY <1>1, <2>2 DEF Carries, Holds, Outside
  <2> QED
    BY <2>1, <2>2
<1>8. Decisions'
  <2> SUFFICES ASSUME NEW r \in Request, Holds(r)'
               PROVE  Decided(request[r].target, proposal'[request[r].target],
                              performed[request[r].target], request[r].actor,
                              request[r].write)
    BY <1>1 DEF Decisions
  <2> Holds(r)
    BY <1>1, <1>5 DEF Holds
  <2>1. Decided(request[r].target, proposal[request[r].target],
                performed[request[r].target], request[r].actor, request[r].write)
    BY DEF Serial, Decisions
  <2>2. CASE request[r].target = a
    BY <1>1, <1>2, <1>4, <2>1, <2>2, LapsedDecides DEF n
  <2>3. CASE request[r].target # a
    BY <1>2, <1>6, <2>1, <2>3
  <2> QED
    BY <2>2, <2>3
<1>9. Carried'
  <2>1. ASSUME NEW r \in Request, Outside(r)' PROVE Outside(r)
    BY <1>1, <2>1 DEF Outside
  <2>2. ASSUME NEW q \in Request, NEW r \in Request, Carries(q)', Carries(r)',
               request[q].target = request[r].target
        PROVE  q = r
    <3>1. Carries(q) /\ Carries(r)
      BY <1>7, <2>2
    <3> QED
      BY <2>2, <3>1 DEF Serial, Carried
  <2> QED
    BY <1>1, <1>5, <1>6, <2>1, <2>2 DEF Serial, Carried
<1>10. Plain'
  BY <1>2, <1>3, <1>4 DEF Serial, Plain
<1> QED
  BY <1>8, <1>9, <1>10 DEF Serial

\* What the commit of a decision does to the rows and to the slots.
LEMMA CommitFacts ==
  ASSUME Safe, Serial, NEW r \in Request, Commit(r), request[r].target \in Action
  PROVE  LET a == request[r].target
             p == proposal[a]
             w == request[r].write
             who == request[r].actor
             n == Last(w)
         IN /\ Holds(r) /\ p \in Proposal /\ n \in Proposal /\ n.version > p.version
            /\ Decided(a, p, performed[a], who, w)
            /\ proposal' = [proposal EXCEPT ![a] = n]
            /\ audit' = [audit EXCEPT ![a] = audit[a] \o Written(w, who)]
            /\ audit[a] \in Seq(Entry) /\ who \in Actor
            /\ UNCHANGED performed
            /\ proposal'[a] = n /\ \A b \in Action \ {a} : proposal'[b] = proposal[b]
            /\ request'[r] = Continue(r)
            /\ \A q \in Request \ {r} : request'[q] = request[q]
            /\ \A q \in Request \ {r} : Holds(q)' <=> Holds(q) /\ request[q].target # a
            /\ ~Holds(r)' /\ (Outside(r)' <=> n.state = "executing")
            /\ n.state = "executing" =>
                 /\ Continue(r).phase = "calling" /\ Continue(r).target = a
                 /\ Continue(r).actor = who /\ Continue(r).version = p.version + 1
<1> DEFINE a == request[r].target
           p == proposal[a]
           w == request[r].write
           who == request[r].actor
           n == Last(w)
<1>1. /\ a \in Action /\ a \notin Domain /\ request[r].phase = "checked" /\ Current(r)
      /\ request[r] \in Checked /\ who \in Actor
  BY SetsApart DEF Commit, Safe, TypeOK
<1>2. request[r].version = p.version /\ Holds(r)
  BY <1>1 DEF Current, Holds
<1>3. Decided(a, p, performed[a], who, w) /\ Justified(a, p, who, w) /\ History(a, p, audit[a])
  BY <1>1, <1>2 DEF Safe, Sound, Histories, Serial, Decisions
<1>4. p \in Proposal /\ p.version \in Nat /\ audit[a] \in Seq(Entry)
  BY <1>1, Leveled DEF Safe, TypeOK
<1>5. n \in Proposal /\ n.version > p.version
  <2> HIDE DEF a, w, p, who
  <2> QED
    BY <1>1, <1>3, <1>4, JustifiedCommits
<1>6. Entries(r) = Written(w, who)
  BY DEF Entries, Written
<1>7. /\ proposal' = [proposal EXCEPT ![a] = n]
      /\ audit' = [audit EXCEPT ![a] = audit[a] \o Written(w, who)]
      /\ request' = [request EXCEPT ![r] = Continue(r)]
      /\ UNCHANGED performed
  BY <1>1, <1>6 DEF Commit
<1>8. /\ Continue(r).phase = "calling" \/ Continue(r).phase = "idle"
      /\ Continue(r).phase = "calling" <=> n.state = "executing"
      /\ n.state = "executing" =>
           /\ Continue(r).phase = "calling" /\ Continue(r).target = a
           /\ Continue(r).actor = who /\ Continue(r).version = p.version + 1
  <2>1. CASE n.state = "executing"
    <3>1. Continue(r) = [request[r] EXCEPT !.phase = "calling", !.write = << >>,
                                           !.version = @ + 1]
      BY <2>1 DEF Continue
    <3>2. Continue(r) = [phase |-> "calling", actor |-> who, target |-> a,
                         version |-> p.version + 1, write |-> << >>]
      BY <1>1, <1>2, <3>1 DEF Checked
    <3> QED
      BY <2>1, <3>2
  <2>2. CASE n.state # "executing"
    BY <2>2 DEF Continue, Idle
  <2> QED
    BY <2>1, <2>2
<1> HIDE DEF n
<1>9. /\ proposal'[a] = n /\ \A b \in Action \ {a} : proposal'[b] = proposal[b]
      /\ request'[r] = Continue(r) /\ \A q \in Request \ {r} : request'[q] = request[q]
  BY <1>1, <1>7 DEF Safe, TypeOK
<1>10. ~Holds(r)' /\ (Outside(r)' <=> n.state = "executing")
  BY <1>8, <1>9 DEF Holds, Outside
<1>11. ASSUME NEW q \in Request \ {r}
       PROVE  Holds(q)' <=> Holds(q) /\ request[q].target # a
  <2>1. CASE request[q].target # a
    BY <1>9, <2>1 DEF Holds
  <2>2. CASE request[q].target = a
    <3>1. ASSUME Holds(q)' PROVE FALSE
      <4>1. request[q].phase = "checked" /\ request[q].version = n.version
        BY <1>9, <2>2, <3>1 DEF Holds
      <4>2. request[q].version <= p.version
        BY <1>1, <2>2, <4>1 DEF Safe, Behind
      <4>3. n.version \in Nat
        BY <1>5 DEF Proposal
      <4> QED
        BY <1>4, <1>5, <4>1, <4>2, <4>3
    <3> QED
      BY <2>2, <3>1
  <2> QED
    BY <2>1, <2>2
<1> QED
  BY <1>1, <1>2, <1>3, <1>4, <1>5, <1>7, <1>8, <1>9, <1>10, <1>11 DEF n

LEMMA CommitSerial ==
  ASSUME Safe, Serial, NEW r \in Request, Commit(r), request[r].target \in Action
  PROVE  Serial'
<1> DEFINE a == request[r].target
           p == proposal[a]
           w == request[r].write
           who == request[r].actor
           n == Last(w)
<1>1. /\ a \in Action /\ Holds(r) /\ p \in Proposal
      /\ Decided(a, p, performed[a], who, w) /\ UNCHANGED performed
      /\ proposal'[a] = n /\ \A b \in Action \ {a} : proposal'[b] = proposal[b]
      /\ request'[r] = Continue(r) /\ \A q \in Request \ {r} : request'[q] = request[q]
      /\ \A q \in Request \ {r} : Holds(q)' <=> Holds(q) /\ request[q].target # a
      /\ ~Holds(r)' /\ (Outside(r)' <=> n.state = "executing")
      /\ n.state = "executing" =>
           /\ Continue(r).phase = "calling" /\ Continue(r).target = a
           /\ Continue(r).actor = who /\ Continue(r).version = p.version + 1
  BY CommitFacts
<1>2. p.undo => a \notin Devices
  BY <1>1 DEF Serial, Plain
<1>3. /\ p.state = "executing" => n.state \in {"completed", "failed"} /\ n.fresh = p.fresh
      /\ n.state = "executing" => /\ a \in Devices /\ who = "agent" /\ ~n.fresh
                                  /\ n.version = p.version + 1
      /\ n.undo => a \notin Devices
  BY <1>1, <1>2, Decides
<1> HIDE DEF n
<1>4. \A q \in Request : Outside(q) => q # r /\ request[q].target # a
  BY <1>1 DEF Serial, Carried, Carries, Holds, Outside
<1>5. \A q \in Request \ {r} : Outside(q)' <=> Outside(q)
  BY <1>1 DEF Outside
<1>6. \A q \in Request : Holds(q) \/ Outside(q) => request[q].target \in Action
  BY DEF Serial, Carried, Holds, Devices
<1>7. \A q \in Request \ {r} : Carries(q)' => Carries(q) /\ request[q].target # a
  BY <1>1, <1>4, <1>5, <1>6 DEF Carries, Holds
<1>8. Carries(r)' => n.state = "executing" /\ request'[r].target = a
  BY <1>1 DEF Carries
<1>9. Decisions'
  <2> SUFFICES ASSUME NEW q \in Request, Holds(q)'
               PROVE  Decided(request'[q].target, proposal'[request'[q].target],
                              performed[request'[q].target], request'[q].actor,
                              request'[q].write)
    BY <1>1 DEF Decisions
  <2>1. q # r /\ request'[q] = request[q] /\ Holds(q) /\ request[q].target # a
    BY <1>1
  <2>2. proposal'[request[q].target] = proposal[request[q].target]
    BY <1>1, <1>6, <2>1
  <2> QED
    BY <2>1, <2>2 DEF Serial, Decisions
<1>10. ASSUME NEW q \in Request, Outside(q)'
       PROVE  LET t == request'[q] IN
              /\ t.target \in Devices /\ t.actor = "agent"
              /\ proposal'[t.target].state = "executing"
              /\ t.version = proposal'[t.target].version
              /\ t.phase = "succeeded" => performed[t.target] = 1
  <2>1. CASE q = r
    BY <1>1, <1>3, <1>10, <2>1
  <2>2. CASE q # r
    <3>1. request'[q] = request[q] /\ Outside(q) /\ request[q].target # a
      BY <1>1, <1>4, <1>5, <1>10, <2>2
    <3>2. proposal'[request[q].target] = proposal[request[q].target]
      BY <1>1, <1>6, <3>1
    <3> QED
      BY <3>1, <3>2 DEF Serial, Carried
  <2> QED
    BY <2>1, <2>2
<1>11. ASSUME NEW q \in Request, NEW t \in Request, Carries(q)', Carries(t)',
              request'[q].target = request'[t].target
       PROVE  q = t
  BY <1>1, <1>7, <1>8, <1>11 DEF Serial, Carried
<1>12. Carried'
  BY <1>1, <1>10, <1>11 DEF Carried
<1>13. Plain'
  <2>1. n.state = "executing" => ~n.fresh
    BY <1>3
  <2> QED
    BY <1>1, <1>3, <2>1 DEF Serial, Plain
<1> QED
  BY <1>9, <1>12, <1>13 DEF Serial

LEMMA SerialStep == Safe /\ Serial /\ [Next]_vars => Serial'
<1> SUFFICES ASSUME Safe, Serial, [Next]_vars PROVE Serial'
  OBVIOUS
<1>1. ASSUME NEW r \in Request, NEW a \in Action, Chooses(r, a) PROVE Serial'
  BY <1>1, ChooseSerial
<1>2. ASSUME NEW r \in Request, NEW actor \in Actor, NEW d \in Domain, SetPolicy(r, actor, d)
      PROVE  Serial'
  BY <1>2, SetPolicySerial
<1>3. ASSUME NEW r \in Request, Commit(r) PROVE Serial'
  BY <1>3, CommitTargets, CommitSerial, LeaveSerial
<1>4. ASSUME NEW r \in Request, Rollback(r) \/ Abandon(r) \/ Call(r) \/ Finish(r) PROVE Serial'
  BY <1>4, LeaveSerial, CallSerial, FinishSerial
<1>5. ASSUME NEW a \in Action, Lapse(a) PROVE Serial'
  BY <1>5, LapseSerial
<1>6. CASE UNCHANGED vars
  BY <1>6 DEF vars, Serial, Decisions, Carried, Plain, Holds, Outside, Carries
<1> QED
  BY <1>1, <1>2, <1>3, <1>4, <1>5, <1>6, SerialSteps DEF Serial

-----------------------------------------------------------------------------
(* The step that is seen of each                                           *)

pvars == <<States, Questions, Standing, audit, performed>>

LEMMA Stands ==
  \A b \in Action :
    Standing[b] <=> proposal[b].fresh \/ (b \in Critical /\ DecidedInTime(b))
  BY DEF Standing

LEMMA StandsNext ==
  \A b \in Action :
    Standing'[b] <=> \/ proposal'[b].fresh
                     \/ b \in Critical /\ \E r \in Request :
                          /\ request'[r].phase = "checked" /\ request'[r].target = b
                          /\ request'[r].version = proposal'[b].version
                          /\ request'[r].write[1].state \in Binding
  BY DEF Standing, DecidedInTime, Binding

\* One question is answered, withdrawn or asked.
LEMMA StandingSet ==
  ASSUME NEW a \in Action, NEW v \in BOOLEAN, Standing'[a] <=> v,
         \A b \in Action : b # a => (Standing'[b] <=> Standing[b])
  PROVE  Standing' = [Standing EXCEPT ![a] = v]
  BY DEF Standing

LEMMA StandingKept ==
  ASSUME \A b \in Action : Standing'[b] <=> Standing[b]
  PROVE  Standing' = Standing
  BY DEF Standing

\* A request that leaves, or a time that passes, ends at most one question.
LEMMA ExpireOrNot ==
  ASSUME NEW a, States' = States, Questions' = Questions, audit' = audit,
         performed' = performed, \A b \in Action : Standing'[b] => Standing[b],
         \A b \in Action : b # a => (Standing'[b] <=> Standing[b])
  PROVE  [Abstract!Next]_pvars
<1>1. CASE a \in Action /\ Standing[a] /\ ~Standing'[a]
  <2>1. Standing' = [Standing EXCEPT ![a] = FALSE]
    BY <1>1, StandingSet
  <2>2. Abstract!Expire(a)
    BY <1>1, <2>1 DEF Abstract!Expire
  <2> QED
    BY <1>1, <2>2 DEF Abstract!Next
<1>2. CASE ~(a \in Action /\ Standing[a] /\ ~Standing'[a])
  <2>1. Standing' = Standing
    BY <1>2, StandingKept
  <2> QED
    BY <2>1 DEF pvars
<1> QED
  BY <1>1, <1>2

\* Only the slot of one request changes.
LEMMA RequestMaps ==
  ASSUME TypeOK, NEW r \in Request, NEW x, request' = [request EXCEPT ![r] = x],
         proposal' = proposal, audit' = audit, performed' = performed,
         (/\ x.phase = "checked" /\ x.target \in Critical
          /\ x.write[1].state \in Binding) => proposal[x.target].fresh
  PROVE  [Abstract!Next]_pvars
<1>1. request'[r] = x /\ \A q \in Request \ {r} : request'[q] = request[q]
  BY DEF TypeOK
<1>2. States' = States /\ Questions' = Questions
  BY DEF States, Questions
<1>3. ASSUME NEW b \in Action, Standing'[b] PROVE Standing[b]
  <2>1. CASE proposal[b].fresh
    BY <2>1, Stands
  <2>2. CASE ~proposal[b].fresh
    <3>1. PICK q \in Request : /\ request'[q].phase = "checked" /\ request'[q].target = b
                               /\ request'[q].version = proposal[b].version
                               /\ request'[q].write[1].state \in Binding
      BY <1>3, <2>2, StandsNext
    <3>2. b \in Critical
      BY <1>3, <2>2, StandsNext
    <3>3. q # r
      BY <1>1, <2>2, <3>1, <3>2
    <3>4. DecidedInTime(b)
      BY <1>1, <3>1, <3>3 DEF DecidedInTime, Binding
    <3> QED
      BY <3>2, <3>4, Stands
  <2> QED
    BY <2>1, <2>2
<1>4. ASSUME NEW b \in Action, b # request[r].target, Standing[b] PROVE Standing'[b]
  <2>1. CASE proposal[b].fresh
    BY <2>1, StandsNext
  <2>2. CASE ~proposal[b].fresh
    <3>1. b \in Critical /\ DecidedInTime(b)
      BY <1>4, <2>2, Stands
    <3>2. PICK q \in Request : /\ request[q].phase = "checked" /\ request[q].target = b
                               /\ request[q].version = proposal[b].version
                               /\ request[q].write[1].state \in Binding
      BY <3>1 DEF DecidedInTime, Binding
    <3>3. request'[q] = request[q]
      BY <1>1, <1>4, <3>2
    <3> QED
      BY <3>1, <3>2, <3>3, StandsNext
  <2> QED
    BY <2>1, <2>2
<1> QED
  BY <1>2, <1>3, <1>4, ExpireOrNot

LEMMA ChooseMaps ==
  ASSUME Safe, NEW r \in Request, NEW a \in Action, Chooses(r, a)
  PROVE  [Abstract!Next]_pvars
<1> PICK who \in Actor, w \in Seq(Proposal) :
      /\ Check(r, who, a, w)
      /\ a \in Critical /\ w[1].state \in Binding => proposal[a].fresh
  BY DEF Chooses
<1> DEFINE x == [phase |-> "checked", actor |-> who, target |-> a,
                 version |-> proposal[a].version, write |-> w]
<1>1. /\ request' = [request EXCEPT ![r] = x]
      /\ proposal' = proposal /\ audit' = audit /\ performed' = performed
  BY DEF Check
<1>2. x.target = a /\ x.write = w
  OBVIOUS
<1> HIDE DEF x
<1> QED
  BY <1>1, <1>2, RequestMaps DEF Safe

LEMMA SetPolicyMaps ==
  ASSUME Safe, NEW r \in Request, NEW actor \in Actor, NEW d \in Domain,
         SetPolicy(r, actor, d)
  PROVE  [Abstract!Next]_pvars
<1> PICK expected, new : request' = [request EXCEPT ![r] =
                 [phase |-> "checked", actor |-> actor, target |-> d,
                  version |-> expected, write |-> <<new>>, seen |-> policy[d]]]
  BY DEF SetPolicy
<1>1. d \notin Critical
  BY SetsApart DEF Critical
<1> QED
  BY <1>1, RequestMaps DEF SetPolicy, Safe

LEMMA LeaveMaps ==
  ASSUME Safe, NEW r \in Request,
         \/ Rollback(r) \/ Abandon(r)
         \/ Commit(r) /\ request[r].target \in Domain
  PROVE  [Abstract!Next]_pvars
<1>1. /\ request' = [request EXCEPT ![r] = Idle]
      /\ proposal' = proposal /\ audit' = audit /\ performed' = performed
  BY SetsApart DEF Rollback, Abandon, Commit
<1> QED
  BY <1>1, RequestMaps DEF Idle, Safe

LEMMA FinishMaps ==
  ASSUME Safe, NEW r \in Request, Finish(r)
  PROVE  [Abstract!Next]_pvars
<1> DEFINE p == proposal[request[r].target]
           n == IF request[r].phase = "succeeded" THEN Completed(p) ELSE Failed(p)
           x == [request[r] EXCEPT !.phase = "checked", !.write = <<n>>]
<1>1. request[r] \in Waiting
  BY SetsApart DEF Finish, Safe, TypeOK
<1>2. n.state \in {"completed", "failed"}
  BY DEF Completed, Failed, Transition
<1>3. x.write = <<n>>
  BY <1>1 DEF Waiting
<1>4. /\ request' = [request EXCEPT ![r] = x]
      /\ proposal' = proposal /\ audit' = audit /\ performed' = performed
  BY DEF Finish
<1> HIDE DEF n
<1>5. x.write[1].state \notin Binding
  BY <1>2, <1>3 DEF Binding
<1> HIDE DEF x
<1> QED
  BY <1>4, <1>5, RequestMaps DEF Safe

LEMMA LapseMaps ==
  ASSUME Safe, NEW a \in Action, Lapse(a) PROVE [Abstract!Next]_pvars
<1> DEFINE p == proposal[a]
           n == Lapsed(p)
<1>1. /\ p \in Proposal /\ p.fresh /\ proposal' = [proposal EXCEPT ![a] = n]
      /\ request' = request /\ audit' = audit /\ performed' = performed
  BY Leveled DEF Lapse, Safe
<1>2. proposal'[a] = n /\ \A b \in Action \ {a} : proposal'[b] = proposal[b]
  BY <1>1 DEF Safe, TypeOK
<1>3. n.version = p.version /\ n.state = p.state /\ n.digest = p.digest
  BY <1>1 DEF Lapsed, Proposal
<1> HIDE DEF n
<1>4. States' = States /\ Questions' = Questions
  BY <1>2, <1>3 DEF States, Questions
<1>5. Standing[a]
  BY <1>1, Stands
<1>6. ASSUME NEW b \in Action, b # a PROVE Standing'[b] <=> Standing[b]
  <2>1. proposal'[b] = proposal[b]
    BY <1>2, <1>6
  <2> QED
    BY <1>1, <2>1, Stands, StandsNext DEF DecidedInTime, Binding
<1> QED
  BY <1>1, <1>4, <1>5, <1>6, ExpireOrNot

LEMMA CallMaps ==
  ASSUME Safe, Serial, NEW r \in Request, Call(r) PROVE [Abstract!Next]_pvars
<1> PICK operated \in BOOLEAN, answer \in {"succeeded", "failed"} :
       /\ request' = [request EXCEPT ![r].phase = answer]
       /\ performed' = [performed EXCEPT ![request[r].target] =
                          IF operated THEN @ + 1 ELSE @]
  BY DEF Call
<1> DEFINE a == request[r].target
<1>1. /\ request[r] \in Waiting /\ request[r].phase = "calling" /\ a \in Action
      /\ proposal' = proposal /\ audit' = audit /\ performed[a] = 0
      /\ proposal[a].state = "executing"
  BY SetsApart DEF Call, Safe, TypeOK, Calls, Outside, Serial, Carried
<1>2. request'[r].phase = answer /\ \A q \in Request \ {r} : request'[q] = request[q]
  <2>1. request'[r] = [request[r] EXCEPT !.phase = answer]
    BY <1>1 DEF Safe, TypeOK
  <2> QED
    BY <1>1, <2>1 DEF Safe, TypeOK, Waiting
<1>3. States' = States /\ Questions' = Questions
  BY <1>1 DEF States, Questions
<1>4. Standing' = Standing
  <2>1. ASSUME NEW b \in Action PROVE Standing'[b] <=> Standing[b]
    <3>1. ASSUME NEW q \in Request
          PROVE  request'[q].phase = "checked" <=> request[q].phase = "checked"
      BY <1>1, <1>2
    <3>2. ASSUME NEW q \in Request, request[q].phase = "checked"
          PROVE  request'[q] = request[q]
      BY <1>1, <1>2, <3>2
    <3>3. DecidedInTime(b) <=>
            \E q \in Request : /\ request'[q].phase = "checked" /\ request'[q].target = b
                               /\ request'[q].version = proposal[b].version
                               /\ request'[q].write[1].state \in Binding
      BY <3>1, <3>2 DEF DecidedInTime, Binding
    <3> QED
      BY <1>1, <3>3, Stands, StandsNext
  <2> QED
    BY <2>1, StandingKept
<1>5. CASE operated
  <2>1. performed' = [performed EXCEPT ![a] = 1]
    BY <1>1, <1>5 DEF Safe, TypeOK
  <2>2. Abstract!Operate(a)
    BY <1>1, <1>3, <1>4, <2>1 DEF Abstract!Operate, States
  <2> QED
    BY <1>1, <2>2 DEF Abstract!Next
<1>6. CASE ~operated
  <2>1. performed' = performed
    BY <1>1, <1>6 DEF Safe, TypeOK
  <2> QED
    BY <1>1, <1>3, <1>4, <2>1 DEF pvars
<1> QED
  BY <1>5, <1>6

\* The commit of a decision sets the view of one action, to what was written.
LEMMA CommitView ==
  ASSUME Safe, Serial, NEW r \in Request, Commit(r), request[r].target \in Action
  PROVE  LET a == request[r].target
             n == Last(request[r].write)
         IN /\ States' = [States EXCEPT ![a] = n.state]
            /\ Questions' = [Questions EXCEPT ![a] = n.digest.purpose]
            /\ Standing' = [Standing EXCEPT ![a] = n.fresh]
            /\ States[a] = proposal[a].state /\ Questions[a] = proposal[a].digest.purpose
            /\ a \in Critical /\ request[r].write[1].state \in Binding => Standing[a]
<1> DEFINE a == request[r].target
           p == proposal[a]
           n == Last(request[r].write)
<1>1. /\ a \in Action /\ Holds(r) /\ p \in Proposal /\ n \in Proposal
      /\ proposal'[a] = n /\ \A b \in Action \ {a} : proposal'[b] = proposal[b]
      /\ request'[r] = Continue(r) /\ \A q \in Request \ {r} : request'[q] = request[q]
      /\ \A q \in Request \ {r} : Holds(q)' <=> Holds(q) /\ request[q].target # a
      /\ ~Holds(r)'
  BY CommitFacts
<1> HIDE DEF n
<1>2. n.fresh \in BOOLEAN
  BY <1>1 DEF Proposal
<1>3. ASSUME NEW q \in Request, request'[q].phase = "checked",
             request'[q].target \in Action,
             request'[q].version = proposal'[request'[q].target].version
      PROVE  q # r /\ request'[q] = request[q] /\ request[q].target # a
  BY <1>1, <1>3 DEF Holds
<1>4. Standing'[a] <=> n.fresh
  BY <1>1, <1>3, StandsNext
<1>5. ASSUME NEW b \in Action, b # a PROVE Standing'[b] <=> Standing[b]
  <2>1. proposal'[b] = proposal[b]
    BY <1>1, <1>5
  <2>2. ASSUME NEW q \in Request, request[q].target = b PROVE request'[q] = request[q]
    BY <1>1, <1>5, <2>2
  <2>3. (\E q \in Request : /\ request'[q].phase = "checked" /\ request'[q].target = b
                            /\ request'[q].version = proposal'[b].version
                            /\ request'[q].write[1].state \in Binding)
          => DecidedInTime(b)
    BY <1>3, <2>1 DEF DecidedInTime, Binding
  <2>4. DecidedInTime(b) =>
          \E q \in Request : /\ request'[q].phase = "checked" /\ request'[q].target = b
                             /\ request'[q].version = proposal'[b].version
                             /\ request'[q].write[1].state \in Binding
    BY <2>1, <2>2 DEF DecidedInTime, Binding
  <2> QED
    BY <2>1, <2>3, <2>4, Stands, StandsNext
<1>6. Standing' = [Standing EXCEPT ![a] = n.fresh]
  BY <1>1, <1>2, <1>4, <1>5, StandingSet
<1>7. /\ States' = [States EXCEPT ![a] = n.state] /\ States[a] = p.state
      /\ Questions' = [Questions EXCEPT ![a] = n.digest.purpose]
      /\ Questions[a] = p.digest.purpose
  BY <1>1 DEF States, Questions
<1>8. a \in Critical /\ request[r].write[1].state \in Binding => Standing[a]
  BY <1>1, Stands DEF DecidedInTime, Holds, Binding
<1> QED
  BY <1>6, <1>7, <1>8 DEF n

\* One row was written.
LEMMA OneWriteMaps ==
  ASSUME Safe, Serial, NEW r \in Request, Commit(r), request[r].target \in Action,
         NEW n, request[r].write = <<n>>
  PROVE  LET a == request[r].target IN
         /\ Abstract!Step(a, request[r].actor, n.state)
         /\ Abstract!Leave(a, n.digest.purpose, n.fresh)
         /\ a \in Critical /\ n.state \in Binding => Standing[a]
<1> DEFINE a == request[r].target
           who == request[r].actor
           e == Signed(n, who)
<1>1. Last(request[r].write) = n /\ request[r].write[1] = n
  BY LastOf
<1>2. /\ States' = [States EXCEPT ![a] = n.state]
      /\ Questions' = [Questions EXCEPT ![a] = n.digest.purpose]
      /\ Standing' = [Standing EXCEPT ![a] = n.fresh]
      /\ a \in Critical /\ n.state \in Binding => Standing[a]
  BY <1>1, CommitView
<1>3. /\ audit' = [audit EXCEPT ![a] = audit[a] \o Written(request[r].write, who)]
      /\ audit[a] \in Seq(Entry) /\ performed' = performed
      /\ n \in Proposal /\ who \in Actor
  BY <1>1, CommitFacts
<1>4. Written(request[r].write, who) = <<e>> /\ e \in Entry
  BY <1>3, WrittenOne, SignedType
<1>5. audit' = [audit EXCEPT ![a] = Append(audit[a], e)]
  <2> HIDE DEF e
  <2>1. audit[a] \o <<e>> = Append(audit[a], e)
    BY <1>3, <1>4, AppendIsConcat
  <2> QED
    BY <1>3, <1>4, <2>1
<1>6. e = Abstract!By(who, n.state)
  BY DEF Signed, Abstract!By
<1> HIDE DEF e
<1> QED
  BY <1>2, <1>3, <1>5, <1>6 DEF Abstract!Step, Abstract!Leave

LEMMA CommitMaps ==
  ASSUME Safe, Serial, NEW r \in Request, Commit(r), request[r].target \in Action
  PROVE  [Abstract!Next]_pvars
<1> DEFINE a == request[r].target
           p == proposal[a]
           w == request[r].write
           who == request[r].actor
<1>1. a \in Action /\ p \in Proposal /\ Decided(a, p, performed[a], who, w) /\ Holds(r)
  BY CommitFacts
<1>2. States[a] = p.state /\ Questions[a] = p.digest.purpose
  BY CommitView
<1>3. CASE p.state = "absent" /\ who = "agent" /\ w = <<Created(LevelOf[a])>>
  <2> DEFINE n == Created(LevelOf[a])
  <2>1. /\ n.state = "prepared" /\ n.fresh = (a \in Critical)
        /\ n.digest.purpose = IF a \in Critical THEN "approve" ELSE "none"
    BY <1>1, Kinds DEF Created, Challenge, NoDigest, Confirmed
  <2>2. /\ Abstract!Step(a, "agent", n.state)
        /\ Abstract!Leave(a, n.digest.purpose, n.fresh)
    BY <1>3, OneWriteMaps
  <2> HIDE DEF n
  <2>3. Abstract!Propose(a)
    BY <1>2, <1>3, <2>1, <2>2 DEF Abstract!Propose
  <2> QED
    BY <1>1, <2>3 DEF Abstract!Next
<1>4. CASE /\ a \in Critical /\ p.state \in {"prepared", "approved"} /\ who = "agent"
           /\ w = <<Issued(p, "approve")>>
  <2> DEFINE n == Issued(p, "approve")
  <2>1. n.state = "prepared" /\ n.fresh = TRUE /\ n.digest.purpose = "approve"
    BY DEF Issued, Transition, Challenge
  <2>2. /\ Abstract!Step(a, "agent", n.state)
        /\ Abstract!Leave(a, n.digest.purpose, n.fresh)
    BY <1>4, OneWriteMaps
  <2> HIDE DEF n
  <2>3. Abstract!AskConsent(a)
    BY <1>2, <1>4, <2>1, <2>2 DEF Abstract!AskConsent
  <2> QED
    BY <1>1, <2>3 DEF Abstract!Next
<1>5. CASE /\ a \in Critical \ Devices /\ p.state = "completed" /\ who = "agent"
           /\ w = <<Issued(p, "reverse")>>
  <2> DEFINE n == Issued(p, "reverse")
  <2>1. n.state = "completed" /\ n.fresh = TRUE /\ n.digest.purpose = "reverse"
    BY DEF Issued, Transition, Challenge
  <2>2. /\ Abstract!Step(a, "agent", n.state)
        /\ Abstract!Leave(a, n.digest.purpose, n.fresh)
    BY <1>5, OneWriteMaps
  <2> HIDE DEF n
  <2>3. Abstract!AskUndo(a)
    BY <1>2, <1>5, <2>1, <2>2 DEF Abstract!AskUndo
  <2> QED
    BY <1>1, <2>3 DEF Abstract!Next
<1>6. CASE /\ a \in Critical /\ p.state = "prepared" /\ p.digest.purpose = "approve"
           /\ who = "human" /\ w = <<Approved(p)>>
  <2> DEFINE n == Approved(p)
  <2>1. n.state = "approved" /\ n.fresh = TRUE /\ n.digest.purpose = "none"
    BY DEF Approved, Transition, NoDigest
  <2>2. /\ Abstract!Step(a, "human", n.state)
        /\ Abstract!Leave(a, n.digest.purpose, n.fresh)
        /\ n.state \in Binding => Standing[a]
    BY <1>6, OneWriteMaps
  <2> HIDE DEF n
  <2>3. Abstract!Approve(a)
    BY <1>2, <1>6, <2>1, <2>2 DEF Abstract!Approve, Binding
  <2> QED
    BY <1>1, <2>3 DEF Abstract!Next
<1>7. CASE p.state \in {"prepared", "approved"} /\ who = "agent" /\ w = <<Rejected(p)>>
  <2> DEFINE n == Rejected(p)
  <2>1. n.state = "rejected" /\ n.fresh = FALSE /\ n.digest.purpose = "none"
    BY DEF Rejected, Transition, NoDigest
  <2>2. /\ Abstract!Step(a, "agent", n.state)
        /\ Abstract!Leave(a, n.digest.purpose, n.fresh)
    BY <1>7, OneWriteMaps
  <2> HIDE DEF n
  <2>3. Abstract!Reject(a)
    BY <1>2, <1>7, <2>1, <2>2 DEF Abstract!Reject
  <2> QED
    BY <1>1, <2>3 DEF Abstract!Next
<1>8. CASE /\ p.state = (IF a \in Critical THEN "approved" ELSE "prepared")
           /\ who = "agent" /\ a \in Devices /\ w = <<Started(p, FALSE)>>
  <2> DEFINE n == Started(p, FALSE)
  <2>1. n.state = "executing" /\ n.fresh = FALSE /\ n.digest.purpose = "none"
    BY DEF Started, Transition, NoDigest
  <2>2. /\ Abstract!Step(a, "agent", n.state)
        /\ Abstract!Leave(a, n.digest.purpose, n.fresh)
        /\ a \in Critical /\ n.state \in Binding => Standing[a]
    BY <1>8, OneWriteMaps
  <2> HIDE DEF n
  <2>3. Abstract!MayStart(a)
    BY <1>2, <1>8, <2>1, <2>2 DEF Abstract!MayStart, Binding
  <2>4. Abstract!Begin(a)
    BY <1>8, <2>1, <2>2, <2>3 DEF Abstract!Begin
  <2> QED
    BY <1>1, <2>4 DEF Abstract!Next
<1>9. CASE /\ p.state = (IF a \in Critical THEN "approved" ELSE "prepared")
           /\ who = "agent" /\ a \notin Devices
           /\ w = <<Started(p, TRUE), Completed(Started(p, TRUE))>>
  <2> DEFINE m == Started(p, TRUE)
             n == Completed(m)
  <2>1. /\ m.state = "executing" /\ n.state = "completed" /\ n.fresh = FALSE
        /\ n.digest.purpose = "none"
    BY DEF Completed, Started, Transition, NoDigest
  <2>2. w = <<m, n>>
    BY <1>9
  <2> HIDE DEF m, n
  <2>3. /\ States' = [States EXCEPT ![a] = "completed"]
        /\ Abstract!Leave(a, "none", FALSE)
        /\ a \in Critical => Standing[a]
    <3>1. Last(w) = n /\ w[1] = m
      BY <2>2, LastOf
    <3> QED
      BY <2>1, <3>1, CommitView DEF Abstract!Leave, Binding
  <2>4. audit' = [audit EXCEPT ![a] = audit[a] \o Written(w, who)] /\ performed' = performed
    BY CommitFacts
  <2>5. Written(w, who) =
          <<Abstract!By("agent", "executing"), Abstract!By("agent", "completed")>>
    <3>1. Written(w, who) = <<Signed(m, who), Signed(n, who)>>
      BY <2>2, WrittenTwo
    <3>2. /\ Signed(m, who) = Abstract!By("agent", "executing")
          /\ Signed(n, who) = Abstract!By("agent", "completed")
      BY <1>9, <2>1 DEF Signed, Abstract!By
    <3> QED
      BY <3>1, <3>2
  <2>6. Abstract!MayStart(a)
    BY <1>2, <1>9, <2>3 DEF Abstract!MayStart
  <2>7. Abstract!Perform(a)
    BY <1>9, <2>3, <2>4, <2>5, <2>6 DEF Abstract!Perform
  <2> QED
    BY <1>1, <2>7 DEF Abstract!Next
<1>10. CASE /\ p.state = "executing" /\ who = "agent"
            /\ (performed[a] = 1 /\ w = <<Completed(p)>>) \/ w = <<Failed(p)>>
  <2>1. PICK n : /\ w = <<n>> /\ n.fresh = p.fresh /\ n.digest = p.digest
                 /\ n.state \in {"completed", "failed"}
                 /\ n.state = "completed" => performed[a] = 1
    <3>1. /\ Completed(p).fresh = p.fresh /\ Completed(p).digest = p.digest
          /\ Completed(p).state = "completed"
      BY DEF Completed, Transition
    <3>2. /\ Failed(p).fresh = p.fresh /\ Failed(p).digest = p.digest
          /\ Failed(p).state = "failed"
      BY DEF Failed, Transition
    <3> QED
      BY <1>10, <3>1, <3>2
  <2>2. /\ Abstract!Step(a, "agent", n.state)
        /\ Abstract!Leave(a, n.digest.purpose, n.fresh)
    BY <1>10, <2>1, OneWriteMaps
  <2>3. ~p.fresh
    BY <1>1, <1>10 DEF Serial, Plain
  <2>4. ~DecidedInTime(a)
    <3> SUFFICES ASSUME NEW q \in Request, request[q].phase = "checked",
                        request[q].target = a, request[q].version = p.version,
                        request[q].write[1].state \in Binding
                 PROVE  FALSE
      BY DEF DecidedInTime, Binding
    <3>1. Holds(q)
      BY <1>1 DEF Holds
    <3>2. q = r
      BY <1>1, <1>10, <3>1 DEF Serial, Carried, Carries
    <3> QED
      BY <2>1, <3>2 DEF Binding
  <2>5. Standing[a] <=> FALSE
    BY <1>1, <2>3, <2>4, Stands
  <2>6. Questions' = Questions
    BY <1>2, <2>1, <2>2 DEF Abstract!Leave, Questions
  <2>7. Standing' = Standing
    <3>1. Standing' = [Standing EXCEPT ![a] = p.fresh]
      BY <2>1, <2>2 DEF Abstract!Leave
    <3>2. p.fresh = FALSE /\ Standing[a] = FALSE
      BY <1>1, <2>3, <2>5 DEF Standing, Proposal
    <3> QED
      BY <3>1, <3>2 DEF Standing
  <2>8. Abstract!Resolve(a)
    BY <1>2, <1>10, <2>1, <2>2, <2>6, <2>7 DEF Abstract!Resolve
  <2> QED
    BY <1>1, <2>8 DEF Abstract!Next
<1>11. CASE /\ a \notin Devices /\ p.state = "completed" /\ who \in Actor
            /\ w = <<Reversed(p)>>
            /\ a \in Critical => who = "human" /\ p.digest.purpose = "reverse"
  <2> DEFINE n == Reversed(p)
  <2>1. n.state = "reversed" /\ n.fresh = FALSE /\ n.digest.purpose = "none"
    BY DEF Reversed, Transition, NoDigest
  <2>2. /\ Abstract!Step(a, who, n.state)
        /\ Abstract!Leave(a, n.digest.purpose, n.fresh)
        /\ a \in Critical /\ n.state \in Binding => Standing[a]
    BY <1>11, OneWriteMaps
  <2> HIDE DEF n
  <2>3. Abstract!Undo(a)
    BY <1>2, <1>11, <2>1, <2>2 DEF Abstract!Undo, Binding, Actor
  <2> QED
    BY <1>1, <2>3 DEF Abstract!Next
<1> QED
  BY <1>1, <1>3, <1>4, <1>5, <1>6, <1>7, <1>8, <1>9, <1>10, <1>11 DEF Decided

LEMMA SerialMaps == Safe /\ Serial /\ [Next]_vars => [Abstract!Next]_pvars
<1> SUFFICES ASSUME Safe, Serial, [Next]_vars PROVE [Abstract!Next]_pvars
  OBVIOUS
<1>1. ASSUME NEW r \in Request, NEW a \in Action, Chooses(r, a)
      PROVE  [Abstract!Next]_pvars
  BY <1>1, ChooseMaps
<1>2. ASSUME NEW r \in Request, NEW actor \in Actor, NEW d \in Domain, SetPolicy(r, actor, d)
      PROVE  [Abstract!Next]_pvars
  BY <1>2, SetPolicyMaps
<1>3. ASSUME NEW r \in Request, Commit(r) PROVE [Abstract!Next]_pvars
  BY <1>3, CommitTargets, CommitMaps, LeaveMaps
<1>4. ASSUME NEW r \in Request, Rollback(r) \/ Abandon(r) \/ Call(r) \/ Finish(r)
      PROVE  [Abstract!Next]_pvars
  BY <1>4, LeaveMaps, CallMaps, FinishMaps
<1>5. ASSUME NEW a \in Action, Lapse(a) PROVE [Abstract!Next]_pvars
  BY <1>5, LapseMaps
<1>6. CASE UNCHANGED vars
  BY <1>6 DEF vars, pvars, States, Questions, Standing, DecidedInTime
<1> QED
  BY <1>1, <1>2, <1>3, <1>4, <1>5, <1>6, SerialSteps DEF Serial

\* Requests of any number of processes that read, decide and later write (the
\* compare-and-set of _transition) are as good as serial.
THEOREM Implements == Spec => ImplementsSerialActions
<1>1. Init => Safe /\ Serial
  BY Begins, SerialBegins
<1>2. Init => Abstract!Init
  <2> SUFFICES ASSUME Init PROVE Abstract!Init
    OBVIOUS
  <2>1. /\ States = [a \in Action |-> "absent"]
        /\ Questions = [a \in Action |-> "none"]
    BY DEF Init, States, Questions, Absent, NoDigest
  <2>2. Standing = [a \in Action |-> FALSE]
    <3>1. \A a \in Action : ~proposal[a].fresh /\ ~DecidedInTime(a)
      BY DEF Init, Absent, DecidedInTime, Idle
    <3> QED
      BY <3>1 DEF Standing
  <2> QED
    BY <2>1, <2>2 DEF Init, Abstract!Init
<1>3. Safe /\ Serial /\ [Next]_vars => (Safe /\ Serial)'
  BY SafeStep, SerialStep
<1>4. Safe /\ Serial /\ [Next]_vars =>
        [Abstract!Next]_<<States, Questions, Standing, audit, performed>>
  BY SerialMaps DEF pvars
<1> QED
  BY <1>1, <1>2, <1>3, <1>4, PTL DEF Spec, Abstract!Spec, ImplementsSerialActions

LEMMA TruthStep ==
  ASSUME TypeOK, Abstract!Truthful, [Abstract!Next]_pvars PROVE Abstract!Truthful'
<1> SUFFICES ASSUME NEW a \in Devices, States'[a] = "completed" PROVE performed'[a] = 1
  BY DEF Abstract!Truthful
<1>1. /\ a \in Action /\ performed \in [Action -> Nat]
      /\ States[a] = "completed" => performed[a] = 1
      /\ DOMAIN States = Action
  BY DEF TypeOK, Devices, Abstract!Truthful, States
<1>2. CASE UNCHANGED pvars
  BY <1>1, <1>2 DEF pvars
<1>3. ASSUME NEW b \in Action, Abstract!Operate(b) PROVE performed'[a] = 1
  BY <1>1, <1>3 DEF Abstract!Operate
<1>4. ASSUME NEW b \in Action, Abstract!Perform(b) PROVE performed'[a] = 1
  BY <1>1, <1>4 DEF Abstract!Perform
<1>5. ASSUME NEW b \in Action, Abstract!Resolve(b) PROVE performed'[a] = 1
  BY <1>1, <1>5 DEF Abstract!Resolve, Abstract!Step
<1>6. ASSUME NEW b \in Action,
             \/ Abstract!Propose(b) \/ Abstract!AskConsent(b) \/ Abstract!AskUndo(b)
             \/ Abstract!Approve(b) \/ Abstract!Reject(b) \/ Abstract!Begin(b)
             \/ Abstract!Undo(b) \/ Abstract!Expire(b)
      PROVE  performed'[a] = 1
  BY <1>1, <1>6 DEF Abstract!Propose, Abstract!AskConsent, Abstract!AskUndo, Abstract!Approve,
                    Abstract!Reject, Abstract!Begin, Abstract!Undo, Abstract!Expire,
                    Abstract!Step
<1> QED
  BY <1>2, <1>3, <1>4, <1>5, <1>6 DEF Abstract!Next

\* An action of a device that is recorded as completed was operated, exactly
\* once, whatever raced or died (start_smart_home_execution, finish_smart_home_execution).
THEOREM CompletedWasOperated == Spec => []Abstract!Truthful
<1>1. Init => Safe /\ Serial /\ Abstract!Truthful
  <2>1. Init => Abstract!Truthful
    BY DEF Init, Abstract!Truthful, States, Absent, Devices
  <2> QED
    BY <2>1, Begins, SerialBegins
<1>2. Safe /\ Serial /\ Abstract!Truthful /\ [Next]_vars =>
        (Safe /\ Serial /\ Abstract!Truthful)'
  BY SafeStep, SerialStep, SerialMaps, TruthStep DEF Safe
<1> QED
  BY <1>1, <1>2, PTL DEF Spec

=============================================================================
