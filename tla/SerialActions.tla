--------------------------- MODULE SerialActions ---------------------------
(***************************************************************************)
(* What the policy service promises of proposed actions, without requests, *)
(* versions, tokens or a compare-and-set: one step at a time, each taken   *)
(* by somebody who sees the action as it is at that moment, and each       *)
(* recorded.  A critical action runs only on a human's standing approval,  *)
(* and is undone only on a human's answer to the question whether to.  A   *)
(* device is operated at most once, between the beginning of its action    *)
(* and the end, and what is called completed was operated.                 *)
(***************************************************************************)
EXTENDS Naturals, Sequences

CONSTANTS
  Action,
  Critical,  \* the actions that need consent
  Device     \* those that operate a device; the others take effect with
             \* their record, and can be undone

VARIABLES
  state,     \* where each action is in its life
  asked,     \* the question a human was asked last, "none" once it is answered
  open,      \* whether that question, or the approval given, still stands
  trail,     \* the record: the states it went through, and by whom
  operated   \* how often its device was operated

Init ==
  /\ state = [a \in Action |-> "absent"]
  /\ asked = [a \in Action |-> "none"]
  /\ open = [a \in Action |-> FALSE]
  /\ trail = [a \in Action |-> << >>]
  /\ operated = [a \in Action |-> 0]

By(who, to) == [state |-> to, actor |-> who]

\* One step of one action.
Step(a, who, to) ==
  /\ state' = [state EXCEPT ![a] = to]
  /\ trail' = [trail EXCEPT ![a] = Append(@, By(who, to))]
  /\ UNCHANGED operated

\* The question that stands after it.
Leave(a, question, standing) ==
  /\ asked' = [asked EXCEPT ![a] = question]
  /\ open' = [open EXCEPT ![a] = standing]

Propose(a) ==
  /\ state[a] = "absent"
  /\ Step(a, "agent", "prepared")
  /\ Leave(a, IF a \in Critical THEN "approve" ELSE "none", a \in Critical)

\* To ask again withdraws an approval.
AskConsent(a) ==
  /\ a \in Critical /\ state[a] \in {"prepared", "approved"}
  /\ Step(a, "agent", "prepared") /\ Leave(a, "approve", TRUE)

AskUndo(a) ==
  /\ a \in Critical \ Device /\ state[a] = "completed"
  /\ Step(a, "agent", "completed") /\ Leave(a, "reverse", TRUE)

Approve(a) ==
  /\ a \in Critical /\ state[a] = "prepared"
  /\ asked[a] = "approve" /\ open[a]
  /\ Step(a, "human", "approved") /\ Leave(a, "none", TRUE)

Reject(a) ==
  /\ state[a] \in {"prepared", "approved"}
  /\ Step(a, "agent", "rejected") /\ Leave(a, "none", FALSE)

MayStart(a) ==
  IF a \in Critical THEN state[a] = "approved" /\ open[a] ELSE state[a] = "prepared"

Perform(a) ==
  /\ a \notin Device /\ MayStart(a)
  /\ state' = [state EXCEPT ![a] = "completed"]
  /\ trail' = [trail EXCEPT ![a] = @ \o <<By("agent", "executing"), By("agent", "completed")>>]
  /\ Leave(a, "none", FALSE) /\ UNCHANGED operated

Begin(a) ==
  /\ a \in Device /\ MayStart(a)
  /\ Step(a, "agent", "executing") /\ Leave(a, "none", FALSE)

Operate(a) ==
  /\ state[a] = "executing" /\ operated[a] = 0
  /\ operated' = [operated EXCEPT ![a] = 1]
  /\ UNCHANGED <<state, asked, open, trail>>

\* A failure may hide that the device was operated.
Resolve(a) ==
  /\ state[a] = "executing"
  /\ \/ operated[a] = 1 /\ Step(a, "agent", "completed")
     \/ Step(a, "agent", "failed")
  /\ UNCHANGED <<asked, open>>

Undo(a) ==
  /\ a \notin Device /\ state[a] = "completed"
  /\ \E who \in {"human", "agent"} :
       /\ a \in Critical => who = "human" /\ asked[a] = "reverse" /\ open[a]
       /\ Step(a, who, "reversed")
  /\ Leave(a, "none", FALSE)

Expire(a) ==
  /\ open[a] /\ open' = [open EXCEPT ![a] = FALSE]
  /\ UNCHANGED <<state, asked, trail, operated>>

Next ==
  \E a \in Action :
    \/ Propose(a) \/ AskConsent(a) \/ AskUndo(a) \/ Approve(a) \/ Reject(a)
    \/ Perform(a) \/ Begin(a) \/ Operate(a) \/ Resolve(a) \/ Undo(a) \/ Expire(a)

Spec == Init /\ [][Next]_<<state, asked, open, trail, operated>>

\* What is called completed was operated, once.
Truthful == \A a \in Device : state[a] = "completed" => operated[a] = 1
=============================================================================
