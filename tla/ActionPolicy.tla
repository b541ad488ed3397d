---------------------------- MODULE ActionPolicy ----------------------------
(***************************************************************************)
(* The autonomy policies and action proposals of one owner, as requests of *)
(* the web routes drive them (src/action_policy.py, the routes, and the    *)
(* calendar and smart-home executors).                                     *)
(*                                                                         *)
(* A route is two steps: the first locks, reads the rows and evaluates     *)
(* every guard; Commit writes with the compare-and-set of _transition (or  *)
(* of set_action_policy).  The auth lock of a process is held across both, *)
(* so requests of one process are serialized; those of two replicas are    *)
(* not.  A smart-home execution commits its start, calls the device        *)
(* outside any transaction and commits the outcome in a second one.  A     *)
(* denied request changes nothing and is not a step.  A client that acts   *)
(* on a proposal and carries an old version is denied, so the version it   *)
(* carries is left out; the one it carries for a policy is compared again  *)
(* in a read of its own, after the check, and may be one still to come.    *)
(* Of a policy, external_requires_confirmation and rules are left          *)
(* out: external actions are confirmed anyway.  The event rows a calendar  *)
(* action changes commit with it, and what may refuse them is left out too.*)
(***************************************************************************)
EXTENDS ActionProposal, SequencesExt

CONSTANTS
  Action,      \* actions, each identified by its idempotency key
  KindOf,      \* the registered kind of each
  LevelOf,     \* its effective autonomy level, at least the kind's floor
  Request,     \* slots for concurrent requests
  ProcessOf,   \* the web process that serves each
  Cap,         \* the values max_autonomy takes
  MaxVersion,  \* bound on the version of a proposal
  MaxPolicies  \* bound on the version of a policy

\* The risk floor the server assigns to each kind (_resolve_action_risk).
Floor == [create_event |-> 4, cancel_event |-> 5, smart_home_turn_on |-> 5]

DomainOf == [create_event |-> "calendar", cancel_event |-> "calendar",
             smart_home_turn_on |-> "smart_home"]

Domain == {DomainOf[KindOf[a]] : a \in Action}

\* SAFE_DOMAIN_DEFAULTS
DefaultCap == [calendar |-> 5, smart_home |-> 5]

ASSUME ActionPolicyAssumption ==
  /\ KindOf \in [Action -> DOMAIN Floor]
  /\ LevelOf \in [Action -> Level]
  /\ \A a \in Action : LevelOf[a] >= Floor[KindOf[a]]
  /\ Domain \intersect Action = {}
  /\ DOMAIN ProcessOf = Request
  /\ Cap \subseteq Level /\ \A d \in Domain : DefaultCap[d] \in Cap
  /\ MaxVersion \in Nat /\ MaxPolicies \in Nat

Calendar(a)  == KindOf[a] \in {"create_event", "cancel_event"}
SmartHome(a) == KindOf[a] = "smart_home_turn_on"

VARIABLES
  policy,     \* per domain; version 0 is the default, without a row
  proposal,   \* the action_proposals rows
  audit,      \* the append-only audit rows of each
  request,    \* what each request slot has read and is about to write
  performed,  \* times the device of an action was actually operated
  abandoned   \* actions whose request ended between start and finish

vars == <<policy, proposal, audit, request, performed, abandoned>>

Actor  == {"human", "agent"}
Policy == [cap : Cap, enabled : BOOLEAN, version : Nat]
Entry  == [state : State, actor : Actor]

\* version is what the compare-and-set expects, write the rows a commit
\* passes through, the last of which stays, seen the policy as it was when the
\* change was checked against it.
Idle == [phase |-> "idle", actor |-> "agent", target |-> "none",
         version |-> 0, write |-> << >>]

Waiting == [phase : {"calling", "succeeded", "failed"}, actor : Actor,
            target : Action, version : Nat, write : {<< >>}]
Checked == [phase : {"checked"}, actor : Actor, target : Action, version : Nat,
            write : Seq(Proposal)]
Change  == [phase : {"checked"}, actor : Actor, target : Domain, version : Nat,
            write : Seq(Policy), seen : Policy]

TypeOK ==
  /\ policy \in [Domain -> Policy]
  /\ proposal \in [Action -> Proposal]
  /\ audit \in [Action -> Seq(Entry)]
  /\ request \in [Request -> {Idle} \union Waiting \union Checked \union Change]
  /\ performed \in [Action -> Nat]
  /\ abandoned \subseteq Action

Init ==
  /\ policy = [d \in Domain |->
                 [cap |-> DefaultCap[d], enabled |-> TRUE, version |-> 0]]
  /\ proposal = [a \in Action |-> Absent]
  /\ audit = [a \in Action |-> << >>]
  /\ request = [r \in Request |-> Idle]
  /\ performed = [a \in Action |-> 0]
  /\ abandoned = {}

-----------------------------------------------------------------------------
(* Reading and deciding *)

\* The auth lock of the process is free.
LockFree(r) ==
  \A q \in Request : ProcessOf[q] = ProcessOf[r] => request[q].phase # "checked"

\* Mutant: only the switch of the domain is looked at again.
AllowsAnyLevel(a, level) == policy[DomainOf[KindOf[a]]].enabled

\* The check of create_action_proposal and of _assert_policy_still_allows.
Allows(a, level) ==
  LET pol == policy[DomainOf[KindOf[a]]] IN pol.enabled /\ level <= pol.cap

\* Any challenge ever issued for an action may be presented, by anyone.
Token(a) == {Challenge(v, purpose) : v \in 1 .. proposal[a].version,
                                     purpose \in {"approve", "reverse"}}

\* A request of the actor has read action a and will write these rows.  A
\* route open to every credential of the owner is an agent's here.
Check(r, actor, a, write) ==
  /\ request[r] = Idle /\ LockFree(r)
  /\ Last(write).version <= MaxVersion
  /\ request' = [request EXCEPT ![r] =
       [phase |-> "checked", actor |-> actor, target |-> a,
        version |-> proposal[a].version, write |-> write]]
  /\ UNCHANGED <<policy, proposal, audit, performed, abandoned>>

\* An idempotency key that already has a row returns it and writes nothing.
CreateProposal(r, a) ==
  /\ proposal[a].state = "absent" /\ Allows(a, LevelOf[a])
  /\ Check(r, "agent", a, <<Created(LevelOf[a])>>)

IssueConfirmation(r, a) ==
  \E purpose \in {"approve", "reverse"} :
    /\ IssueOk(proposal[a], purpose)
    /\ Check(r, "agent", a, <<Issued(proposal[a], purpose)>>)

ApproveAction(r, actor, a) ==
  /\ actor = "human"
  /\ Allows(a, proposal[a].level)
  /\ \E token \in Token(a) : ApproveOk(proposal[a], token)
  /\ Check(r, actor, a, <<Approved(proposal[a])>>)

RejectAction(r, a) ==
  RejectOk(proposal[a]) /\ Check(r, "agent", a, <<Rejected(proposal[a])>>)

\* A calendar action records its undo, starts, mutates the event and
\* completes in one transaction; a smart-home action only starts in it.
ExecuteAction(r, a) ==
  LET started == Started(proposal[a], Calendar(a)) IN
  /\ proposal[a].state # "absent"
  /\ Allows(a, proposal[a].level)
  /\ StartOk(proposal[a], Calendar(a))
  /\ \/ /\ Calendar(a) /\ CompleteOk(started)
        /\ Check(r, "agent", a, <<started, Completed(started)>>)
     \/ SmartHome(a) /\ Check(r, "agent", a, <<started>>)

ReverseAction(r, actor, a) ==
  /\ Calendar(a)
  /\ Confirmed(proposal[a].level) => actor = "human"
  /\ \/ ~Confirmed(proposal[a].level) /\ ReverseOk(proposal[a], NoDigest)
     \/ \E token \in Token(a) : ReverseOk(proposal[a], token)
  /\ Check(r, actor, a, <<Reversed(proposal[a])>>)

\* A change that only an owning human session may make.
Loosens(new, old) == new.cap > old.cap \/ (new.enabled /\ ~old.enabled)

\* The check of set_action_policy, on its first read.  The version the client
\* names is compared on a second read and again by the update.  Versions only
\* grow, so Commit stands for both, and Abandon for a refusal by that read.
SetPolicy(r, actor, d) ==
  \E expected \in policy[d].version .. MaxPolicies - 1 :
    \E new \in [cap : Cap, enabled : BOOLEAN, version : {expected + 1}] :
      /\ request[r] = Idle /\ LockFree(r)
      /\ Loosens(new, policy[d]) => actor = "human"
      /\ request' = [request EXCEPT ![r] =
           [phase |-> "checked", actor |-> actor, target |-> d,
            version |-> expected, write |-> <<new>>, seen |-> policy[d]]]
      /\ UNCHANGED <<policy, proposal, audit, performed, abandoned>>

-----------------------------------------------------------------------------
(* Writing *)

\* Mutant: the update does not filter on the version.
BlindUpdate(r) == request[r].phase = "checked"

\* The row still is the one the request has read.
Current(r) ==
  request[r].version = IF request[r].target \in Domain
                       THEN policy[request[r].target].version
                       ELSE proposal[request[r].target].version

Entries(r) ==
  [i \in DOMAIN request[r].write |->
     [state |-> request[r].write[i].state, actor |-> request[r].actor]]

\* Mutant: the outcome of the call is not recorded.
ForgetCall(r) == Idle

\* After its start has been committed a smart-home request goes on to call.
Continue(r) ==
  IF Last(request[r].write).state = "executing"
    THEN [request[r] EXCEPT !.phase = "calling", !.write = << >>,
                            !.version = @ + 1]
    ELSE Idle

Commit(r) ==
  /\ request[r].phase = "checked" /\ Current(r)
  /\ \/ /\ request[r].target \in Domain
        /\ policy' = [policy EXCEPT ![request[r].target] = Last(request[r].write)]
        /\ request' = [request EXCEPT ![r] = Idle]
        /\ UNCHANGED <<proposal, audit>>
     \/ /\ request[r].target \in Action
        /\ proposal' = [proposal EXCEPT ![request[r].target] = Last(request[r].write)]
        /\ audit' = [audit EXCEPT ![request[r].target] = @ \o Entries(r)]
        /\ request' = [request EXCEPT ![r] = Continue(r)]
        /\ UNCHANGED policy
  /\ UNCHANGED <<performed, abandoned>>

\* The compare-and-set misses: 409, nothing is written.
Rollback(r) ==
  /\ request[r].phase = "checked" /\ ~Current(r)
  /\ request' = [request EXCEPT ![r] = Idle]
  /\ UNCHANGED <<policy, proposal, audit, performed, abandoned>>

\* call_smart_home_connector: an error may hide an operation that happened.
Call(r) ==
  /\ request[r].phase = "calling"
  /\ \E operated \in BOOLEAN, answer \in {"succeeded", "failed"} :
       /\ answer = "succeeded" => operated
       /\ request' = [request EXCEPT ![r].phase = answer]
       /\ performed' = [performed EXCEPT ![request[r].target] =
                          IF operated THEN @ + 1 ELSE @]
  /\ UNCHANGED <<policy, proposal, audit, abandoned>>

\* finish_smart_home_execution reads in its own account transaction.
Finish(r) ==
  LET p == proposal[request[r].target] IN
  /\ request[r].phase \in {"succeeded", "failed"} /\ LockFree(r)
  /\ p.version = request[r].version
  /\ request' = [request EXCEPT ![r].phase = "checked", ![r].write =
       IF request[r].phase = "succeeded" THEN <<Completed(p)>> ELSE <<Failed(p)>>]
  /\ IF request[r].phase = "succeeded" THEN CompleteOk(p) ELSE FailOk(p)
  /\ UNCHANGED <<policy, proposal, audit, performed, abandoned>>

\* The process dies, or the second transaction is refused (a signed-out
\* session, an error of the database): nothing retries the outcome.
Abandon(r) ==
  /\ request[r] # Idle
  /\ request' = [request EXCEPT ![r] = Idle]
  /\ abandoned' = abandoned \union
       {a \in Action : a = request[r].target /\ proposal[a].state = "executing"}
  /\ UNCHANGED <<policy, proposal, audit, performed>>

\* expires_at passes.
Lapse(a) ==
  /\ proposal[a].fresh
  /\ proposal' = [proposal EXCEPT ![a] = Lapsed(@)]
  /\ UNCHANGED <<policy, audit, request, performed, abandoned>>

Serve(r) == Commit(r) \/ Rollback(r) \/ Call(r) \/ Finish(r)

Next ==
  \/ \E r \in Request :
       \/ \E a \in Action :
            CreateProposal(r, a) \/ IssueConfirmation(r, a) \/ RejectAction(r, a)
              \/ ExecuteAction(r, a)
       \/ \E actor \in Actor :
            \/ \E d \in Domain : SetPolicy(r, actor, d)
            \/ \E a \in Action : ApproveAction(r, actor, a) \/ ReverseAction(r, actor, a)
       \/ Serve(r) \/ Abandon(r)
  \/ \E a \in Action : Lapse(a)

Spec == Init /\ [][Next]_vars

\* A request that has begun goes on as long as its process lives, and does
\* not starve at the auth lock.
FairSpec ==
  Spec /\ \A r \in Request : WF_vars(Serve(r)) /\ SF_vars(Finish(r))
-----------------------------------------------------------------------------
(* Properties *)

\* The states that may follow one another in the lifecycle of a proposal.
Follows(old, new) ==
  \/ old = "prepared"  /\ new \in {"prepared", "approved", "rejected", "executing"}
  \/ old = "approved"  /\ new \in {"prepared", "rejected", "executing"}
  \/ old = "executing" /\ new \in {"completed", "failed"}
  \/ old = "completed" /\ new \in {"completed", "reversed"}

\* The audit trail is the whole history of a proposal: one row per version,
\* the last one the current state, each a legal successor of the one before.
\* Two requests that decided on the same version never both commit.
AuditIsHistory ==
  \A a \in Action : LET log == audit[a] IN
    /\ Len(log) = proposal[a].version
    /\ log # << >> => log[1].state = "prepared" /\ Last(log).state = proposal[a].state
    /\ \A i \in 2 .. Len(log) : Follows(log[i-1].state, log[i].state)

\* Nothing of level 5 or 6 is executed or reversed by an agent's own consent:
\* the row before an execution is an approval by a human that no newer
\* challenge has withdrawn, and a human answers the challenge of a reversal.
ConsentedExecution ==
  \A a \in Action : LET log == audit[a] IN
    Confirmed(LevelOf[a]) =>
      \A i \in DOMAIN log :
        /\ log[i].state = "executing" =>
             i > 1 /\ log[i-1] = [state |-> "approved", actor |-> "human"]
        /\ log[i].state = "reversed" =>
             /\ log[i].actor = "human"
             /\ i > 2 /\ log[i-1].state = "completed" /\ log[i-2].state = "completed"

\* A device is operated at most once per proposal, and only for a proposal
\* whose execution was committed first: retries of the route, concurrent
\* executions and abandoned requests add no second call.
EffectOnce ==
  \A a \in Action :
    /\ performed[a] <= 1
    /\ performed[a] = 1 => \E i \in DOMAIN audit[a] : audit[a][i].state = "executing"

\* A change named a version that the policy did not have yet when the change
\* was checked: somebody else's change got there in between.
Ahead(r) == request[r].seen.version < request[r].version

\* An agent does not widen what it may do: the policy becomes looser only in a
\* human's commit, whatever changed it between the agent's check and its write.
\* The exception is an agent that named a version still to come: it undoes a
\* change made since, but goes no further than the policy it was checked on.
AgentsNeverLoosen ==
  [][ \A d \in Domain : Loosens(policy'[d], policy[d]) =>
        \E r \in Request :
          /\ request[r].phase = "checked" /\ request[r].target = d /\ request'[r] = Idle
          /\ \/ request[r].actor = "human"
             \/ Ahead(r) /\ ~Loosens(policy'[d], request[r].seen) ]_vars

\* What starts to execute is allowed by the policy in force at that moment.
\* True within one process, where the auth lock orders the two.
ExecutionRespectsPolicy ==
  [][ \A a \in Action :
        (\E i \in Len(audit[a]) + 1 .. Len(audit'[a]) : audit'[a][i].state = "executing")
          => LET pol == policy[DomainOf[KindOf[a]]] IN
               pol.enabled /\ LevelOf[a] <= pol.cap ]_vars

\* A request that has seen a challenge or an approval in time may commit after
\* it has expired: to the abstract actions it stands until then.
DecidedInTime(a) ==
  \E r \in Request :
    /\ request[r].phase = "checked" /\ request[r].target = a
    /\ request[r].version = proposal[a].version
    /\ request[r].write[1].state \in {"approved", "executing", "reversed"}

Critical  == {a \in Action : Confirmed(LevelOf[a])}
Devices   == {a \in Action : SmartHome(a)}
States    == [a \in Action |-> proposal[a].state]
Questions == [a \in Action |-> proposal[a].digest.purpose]
Standing  == [a \in Action |-> proposal[a].fresh \/ (a \in Critical /\ DecidedInTime(a))]

Abstract == INSTANCE SerialActions
              WITH Device <- Devices, state <- States, asked <- Questions, open <- Standing,
                   trail <- audit, operated <- performed

\* Requests of any number of processes, each of which reads, decides and later
\* writes, are as good as serial: a committed step is one that somebody who
\* looked at the proposal just then could have taken, except that a challenge
\* or an approval may have expired since it was seen.
ImplementsSerialActions == Abstract!Spec

\* An execution is resolved unless the request that carries it is abandoned.
ExecutingResolves ==
  \A a \in Action :
    []<>(proposal[a].state # "executing" \/ a \in abandoned)

=============================================================================
