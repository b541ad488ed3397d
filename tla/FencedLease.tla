---------------------------- MODULE FencedLease ----------------------------
(***************************************************************************)
(* What the leadership of a role promises, without rows, calls, tokens or  *)
(* coroutines.  Leadership is granted in epochs; a member hears of a grant *)
(* or a renewal later than it is made, if at all.  An epoch is served in   *)
(* by the one member it was granted to; a live grant ends only by its      *)
(* member, who no longer serves then; and a member that was replaced may   *)
(* serve on, in its own, older epoch.  What a member hears is the present  *)
(* epoch: when its own grant has lapsed and passed to another before it    *)
(* hears, it mishears the epoch of the other, and nothing is promised of   *)
(* an epoch that was misheard.                                             *)
(***************************************************************************)
EXTENDS Naturals

CONSTANTS
  Member,
  Nobody

VARIABLES
  leader,   \* the member the last epoch was granted to, or Nobody
  epoch,    \* of the last grant
  live,     \* the grant has not lapsed
  due,      \* a member is yet to hear of its grant or renewal
  told,     \* the epoch a member has heard of and not begun, 0 for none
  serving,  \* the epoch a member serves in, 0 for none
  misheard  \* the epochs heard by a member they were not granted to

vars == <<leader, epoch, live, due, told, serving, misheard>>

Init ==
  /\ leader = Nobody /\ epoch = 0 /\ live = FALSE
  /\ due = [m \in Member |-> FALSE]
  /\ told = [m \in Member |-> 0]
  /\ serving = [m \in Member |-> 0]
  /\ misheard = {}

Resting(m) == told[m] = 0 /\ serving[m] = 0
Garbled    == epoch \in misheard

Grant(m) ==
  /\ leader \in {Nobody, m} \/ ~live
  /\ Resting(m)
  /\ leader' = m /\ epoch' = epoch + 1 /\ live' = TRUE
  /\ due' = [due EXCEPT ![m] = TRUE]
  /\ UNCHANGED <<told, serving, misheard>>

\* Renewed while it is live, by its member.
Renew(m) ==
  /\ live /\ (leader = m \/ Garbled)
  /\ due' = [due EXCEPT ![m] = TRUE]
  /\ UNCHANGED <<leader, epoch, live, told, serving, misheard>>

Hear(m) ==
  /\ due[m] /\ leader # Nobody
  /\ due' = [due EXCEPT ![m] = FALSE]
  /\ told' = [told EXCEPT ![m] = epoch]
  /\ misheard' = IF leader = m THEN misheard ELSE misheard \union {epoch}
  /\ UNCHANGED <<leader, epoch, live, serving>>

\* The answer is lost.
Miss(m) ==
  /\ due' = [due EXCEPT ![m] = FALSE]
  /\ UNCHANGED <<leader, epoch, live, told, serving, misheard>>

Begin(m) ==
  /\ told[m] # 0
  /\ serving' = [serving EXCEPT ![m] = told[m]]
  /\ told' = [told EXCEPT ![m] = 0]
  /\ UNCHANGED <<leader, epoch, live, due, misheard>>

\* Of its own accord, replaced, shut down or crashed.
Rest(m) ==
  /\ \E t \in {0, told[m]} : told' = [told EXCEPT ![m] = t]
  /\ serving' = [serving EXCEPT ![m] = 0]
  /\ UNCHANGED <<leader, epoch, live, due, misheard>>

Vacate ==
  /\ leader # Nobody /\ (Resting(leader) \/ Garbled)
  /\ leader' = Nobody /\ live' = FALSE
  /\ UNCHANGED <<epoch, due, told, serving, misheard>>

Lapse ==
  /\ live /\ live' = FALSE
  /\ UNCHANGED <<leader, epoch, due, told, serving, misheard>>

Next ==
  \/ Lapse \/ Vacate
  \/ \E m \in Member :
       Grant(m) \/ Renew(m) \/ Hear(m) \/ Miss(m) \/ Begin(m) \/ Rest(m)

Spec == Init /\ [][Next]_vars

\* No two members ever serve in the same epoch, and whoever serves in the
\* newest one leads, but for the epochs that were misheard.
Exclusive ==
  \A m \in Member : serving[m] # 0 =>
    /\ serving[m] <= epoch
    /\ serving[m] \notin misheard =>
         /\ serving[m] = epoch => leader = m
         /\ \A n \in Member \ {m} : serving[n] # serving[m]
=============================================================================
