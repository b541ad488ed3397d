------------------------- MODULE TaskSchedulerProofs -------------------------
(***************************************************************************)
(* Proofs about TaskScheduler: its safety properties hold for any number   *)
(* of executions and whatever the bound on disturbances.                   *)
(***************************************************************************)
EXTENDS TaskScheduler, TLAPS

Runs == [Execution -> Run]

-----------------------------------------------------------------------------
(* Types                                                                   *)

LEMMA TaskNext ==
  ASSUME NEW t \in Task, NEW next \in {"none", "later", "due"}
  PROVE  [t EXCEPT !.next = next] \in Task
  BY DEF Task

LEMMA DisturbsType == ASSUME TypeOK, Disturbs PROVE acts' \in 0 .. MaxActs
  BY TaskSchedulerAssumption DEF TypeOK, Disturbs

LEMMA AfterType == ASSUME NEW t PROVE After(t) \in {"none", "later"}
  BY DEF After

LEMMA WroteType ==
  ASSUME TypeOK, NEW e, NEW next \in {"none", "later", "due"}
  PROVE  Wrote(e, next) \in Task
  BY TaskNext DEF TypeOK, Wrote

LEMMA DeferredType == ASSUME TypeOK PROVE Deferred \in Task
  BY TaskNext DEF TypeOK, Deferred

LEMMA NoRunType == NoRun \in Run
  BY DEF NoRun, Run

LEMMA ExecWith ==
  ASSUME TypeOK, NEW e \in Execution, NEW r \in Run
  PROVE  [exec EXCEPT ![e] = r] \in Runs
  BY DEF TypeOK, Runs

LEMMA CreatedType ==
  ASSUME TypeOK, NEW e \in Execution, NEW auto \in BOOLEAN, NEW forced \in BOOLEAN,
         Created(e, auto, forced)
  PROVE  exec' \in Runs
<1>1. [NoRun EXCEPT !.phase = "created", !.auto = auto, !.forced = forced] \in Run
  BY DEF NoRun, Run
<1> QED
  BY <1>1, ExecWith DEF Created

LEMMA CancelledType ==
  ASSUME TypeOK, NEW why \in {"user", "background", "failover"}, Cancelled(why)
  PROVE  exec' \in Runs /\ phantom' \in BOOLEAN
<1>1. PICK rows : exec' = Stopped(why, rows) /\ phantom' \in {phantom, phantom /\ rows # {}}
  BY Zenon DEF Cancelled
<1>2. ASSUME NEW e \in Execution PROVE Stopped(why, rows)[e] \in Run
  <2>1. exec[e] \in Run
    BY DEF TypeOK
  <2> QED
    BY <2>1 DEF Run, Stopped
<1>3. Stopped(why, rows) \in Runs
  BY <1>2 DEF Stopped, Runs
<1> QED
  BY Zenon, <1>1, <1>3 DEF TypeOK

LEMMA ExitsType ==
  ASSUME TypeOK, NEW e \in Execution, NEW row, Exits(e, row)
  PROVE  /\ exec' \in Runs /\ handle' \in Execution \cup {NoExecution}
         /\ executing' \in BOOLEAN /\ phantom' \in BOOLEAN
<1>1. exec' \in Runs
  BY NoRunType, ExecWith DEF Exits
<1>2. executing' \in BOOLEAN /\ phantom' \in BOOLEAN
  BY Zenon DEF Exits, Leaves
<1> QED
  BY Zenon, <1>1, <1>2 DEF Exits, Leaves, TypeOK

\* Every step keeps the types.
LEMMA TypeStep == TypeOK /\ [Next]_vars => TypeOK'
<1> SUFFICES ASSUME TypeOK, [Next]_vars PROVE TypeOK'
  OBVIOUS
<1> USE TaskSchedulerAssumption
<1>1. CASE CheckDueTasks
  <2>1. task' \in Task
    BY <1>1, TaskNext, AfterType DEF CheckDueTasks, TypeOK
  <2>2. exec' \in Runs
    BY <1>1, CreatedType DEF CheckDueTasks, TypeOK, Runs
  <2> QED
    BY <1>1, <2>1, <2>2 DEF CheckDueTasks, TypeOK, Runs
<1>2. CASE RunNow
  <2>1. exec' \in Runs
    BY <1>2, CreatedType DEF RunNow
  <2> QED
    BY <1>2, <2>1 DEF RunNow, Disturbs, TypeOK, Runs
<1>3. CASE RunForced
  <2>1. exec' \in Runs
    BY <1>3, CreatedType DEF RunForced
  <2> QED
    BY <1>3, <2>1 DEF RunForced, Disturbs, TypeOK, Runs
<1>4. CASE Trigger
  <2>1. task' \in Task
    BY <1>4, TaskNext DEF Trigger, TypeOK
  <2>2. exec' \in Runs
    BY <1>4, CreatedType DEF Trigger, TypeOK, Runs
  <2> QED
    BY Zenon, <1>4, <2>1, <2>2, DisturbsType DEF Trigger, TypeOK, Runs
<1>5. CASE StopTask
  <2>1. exec' \in Runs /\ phantom' \in BOOLEAN
    BY <1>5, CancelledType DEF StopTask
  <2>2. dropped' \in BOOLEAN
    BY <1>5, Zenon DEF StopTask
  <2> QED
    BY Zenon, <1>5, <2>1, <2>2, DisturbsType DEF StopTask, TypeOK, Runs
<1>6. CASE StopBackground
  <2>1. exec' \in Runs /\ phantom' \in BOOLEAN
    BY <1>6, CancelledType DEF StopBackground
  <2> QED
    BY <1>6, <2>1 DEF StopBackground, Disturbs, TypeOK, Runs
<1>7. CASE StartLeader
  <2>1. task' \in Task
    BY <1>7, DeferredType DEF StartLeader
  <2>2. exec' \in Runs
    BY <1>7 DEF StartLeader, TypeOK, Run, Runs, Recovered, Aborted
  <2> QED
    BY <1>7, <2>1, <2>2 DEF StartLeader, Unsettled, TypeOK, Runs
<1>8. CASE StartStandby
  BY <1>8 DEF StartStandby, TypeOK, Runs
<1>9. CASE LoseLeadership
  <2>1. exec' \in Runs /\ phantom' \in BOOLEAN
    BY <1>9, CancelledType DEF LoseLeadership, TypeOK, Runs
  <2> QED
    BY <1>9, <2>1 DEF LoseLeadership, Disturbs, TypeOK, Runs
<1>10. CASE Crash
  <2>1. exec' \in Runs
    BY <1>10, NoRunType DEF Crash, Runs
  <2>2. phantom' \in BOOLEAN
    BY <1>10, Zenon DEF Crash
  <2> QED
    BY Zenon, <1>10, <2>1, <2>2, DisturbsType DEF Crash, TypeOK, Runs
<1>11. CASE Tick
  <2>1. task' \in Task
    BY <1>11 DEF Tick, TypeOK, Task
  <2> QED
    BY <1>11, <2>1 DEF Tick, TypeOK, Runs
<1>12. CASE User
  BY <1>12 DEF User, Disturbs, TypeOK, Runs
<1>13. CASE Pause
  <2>1. task' \in Task
    BY <1>13 DEF Pause, TypeOK, Task
  <2> QED
    BY <1>13, <2>1 DEF Pause, Disturbs, TypeOK, Runs
<1>14. CASE Resume
  <2>1. task' \in Task
    BY <1>14, AfterType DEF Resume, TypeOK, Task
  <2> QED
    BY <1>14, <2>1 DEF Resume, Disturbs, TypeOK, Runs
<1>15. ASSUME NEW e \in Execution, Begin(e) PROVE TypeOK'
  <2>1. exec' \in Runs
    <3>1. [exec[e] EXCEPT !.phase = "queued", !.row = "queued"] \in Run
      BY DEF TypeOK, Run
    <3> QED
      BY Zenon, <1>15, <3>1, ExecWith, NoRunType DEF Begin
  <2>2. executing' \in BOOLEAN
    BY Zenon, <1>15 DEF Begin, TypeOK
  <2> QED
    BY <1>15, <2>1, <2>2 DEF Begin, TypeOK, Runs
<1>16. ASSUME NEW e \in Execution, Enter(e) PROVE TypeOK'
  <2>1. exec' \in Runs
    BY <1>16, ExitsType DEF Enter, TypeOK, Run, Runs
  <2> QED
    BY <1>16, <2>1, ExitsType DEF Enter, TypeOK, Runs
<1>17. ASSUME NEW e \in Execution, Start(e) PROVE TypeOK'
  <2>1. exec' \in Runs
    <3> DEFINE blank == task.next = "none"
    <3>1. blank \in BOOLEAN
      OBVIOUS
    <3> HIDE DEF blank
    <3>2. [exec[e] EXCEPT !.phase = "running", !.row = "running", !.blank = blank] \in Run
      BY <3>1 DEF TypeOK, Run
    <3> QED
      BY <1>17, <3>2, ExecWith DEF Start, blank
  <2> QED
    BY <1>17, <2>1 DEF Start, TypeOK, Runs
<1>18. ASSUME NEW e \in Execution, Complete(e) PROVE TypeOK'
  <2>1. task' \in Task
    BY <1>18, WroteType, AfterType DEF Complete, Task
  <2>2. exec' \in Runs
    <3>1. [exec[e] EXCEPT !.phase = "ending", !.row = "done", !.auto = FALSE, !.blank = FALSE] \in Run
      BY DEF TypeOK, Run
    <3> QED
      BY Zenon, <1>18, <3>1, ExecWith DEF Complete
  <2> QED
    BY <1>18, <2>1, <2>2 DEF Complete, TypeOK, Runs
<1>19. ASSUME NEW e \in Execution, Decline(e) PROVE TypeOK'
  <2>1. task' \in Task
    BY <1>19, WroteType, AfterType DEF Decline
  <2> QED
    BY <1>19, <2>1, ExitsType DEF Decline, TypeOK, Runs
<1>20. ASSUME NEW e \in Execution, Raise(e) PROVE TypeOK'
  <2>1. exec' \in Runs
    <3>1. [exec[e] EXCEPT !.phase = "failing", !.auto = FALSE, !.blank = FALSE] \in Run
      BY DEF TypeOK, Run
    <3> QED
      BY Zenon, <1>20, <3>1, ExecWith DEF Raise
  <2> QED
    BY <1>20, <2>1 DEF Raise, TypeOK, Runs
<1>21. ASSUME NEW e \in Execution, Fail(e) PROVE TypeOK'
  <2>1. task' \in Task
    BY <1>21, TaskNext, AfterType DEF Fail, TypeOK
  <2> QED
    BY <1>21, <2>1, ExitsType DEF Fail, TypeOK, Runs
<1>22. ASSUME NEW e \in Execution, End(e) PROVE TypeOK'
  BY <1>22, ExitsType DEF End, TypeOK, Runs
<1>23. ASSUME NEW e \in Execution, Unwind(e) PROVE TypeOK'
  <2>1. task' \in Task
    BY <1>23, DeferredType, WroteType, AfterType DEF Unwind
  <2> QED
    BY <1>23, <2>1, ExitsType DEF Unwind, TypeOK, Runs
<1>24. ASSUME NEW e \in Execution, Monitor(e) PROVE TypeOK'
  <2>1. exec' \in Runs
    BY <1>24 DEF Monitor, TypeOK, Run, Runs
  <2> QED
    BY <1>24, <2>1 DEF Monitor, TypeOK, Runs
<1>25. CASE UNCHANGED vars
  BY <1>25 DEF vars, TypeOK
<1> QED
  BY <1>1, <1>2, <1>3, <1>4, <1>5, <1>6, <1>7, <1>8, <1>9, <1>10, <1>11, <1>12, <1>13,
     <1>14, <1>15, <1>16, <1>17, <1>18, <1>19, <1>20, <1>21, <1>22, <1>23, <1>24,
     <1>25 DEF Next, Step

-----------------------------------------------------------------------------
(* What the steps do to the executions                                     *)

LEMMA CreatedEffect ==
  ASSUME TypeOK, NEW e \in Execution, NEW auto, NEW forced, Created(e, auto, forced)
  PROVE  /\ \A f \in Execution : f # e => exec'[f] = exec[f]
         /\ exec'[e].phase = "created" /\ exec'[e].forced = forced
         /\ exec'[e].cancel = "no" /\ exec'[e].row = "none"
  BY DEF TypeOK, Created, NoRun

LEMMA CancelledEffect ==
  ASSUME TypeOK, NEW why, Cancelled(why)
  PROVE  /\ \A f \in Execution :
              /\ exec'[f].phase = exec[f].phase /\ exec'[f].forced = exec[f].forced
              /\ f # handle => exec'[f].cancel = exec[f].cancel
              /\ Unsettled(exec'[f].row) => Unsettled(exec[f].row)
         /\ ~phantom => ~phantom'
<1>1. PICK rows : exec' = Stopped(why, rows) /\ phantom' \in {phantom, phantom /\ rows # {}}
  BY Zenon DEF Cancelled
<1>2. ~phantom => ~phantom'
  BY Zenon, <1>1
<1>3. ASSUME NEW f \in Execution
      PROVE  /\ exec'[f].phase = exec[f].phase /\ exec'[f].forced = exec[f].forced
             /\ f # handle => exec'[f].cancel = exec[f].cancel
             /\ Unsettled(exec'[f].row) => Unsettled(exec[f].row)
  <2>1. exec' = Stopped(why, rows) /\ exec[f] \in Run
    BY <1>1 DEF TypeOK
  <2> QED
    BY <2>1 DEF Stopped, Run, Unsettled
<1> QED
  BY <1>2, <1>3

-----------------------------------------------------------------------------
(* The kinds of steps, by what they do to the executions                   *)

\* It touches no execution.
Quiet == UNCHANGED <<executing, handle, exec, phantom, dropped>>

\* An execution begins; only one that is not forced joins _executing.
Begins(e, forced) ==
  /\ ~Live(e) /\ \E auto \in BOOLEAN : Created(e, auto, forced)
  /\ IF forced THEN UNCHANGED executing ELSE ~executing /\ executing'
  /\ UNCHANGED <<handle, phantom, dropped>>

\* An execution goes on: its row is settled when it is about to end.
Moves(e) ==
  /\ Live(e) /\ exec'[e].phase # "idle" /\ exec'[e].forced = exec[e].forced
  /\ exec'[e].phase = "ending" => ~Unsettled(exec'[e].row)
  /\ \A f \in Execution : f # e => exec'[f] = exec[f]
  /\ handle' \in {handle, e} /\ UNCHANGED <<executing, phantom, dropped>>

\* An execution ends, and leaves a row that is settled.
Ends(e, row) ==
  /\ Live(e) /\ ~Unsettled(row)
  /\ exec' = [exec EXCEPT ![e] = NoRun]
  /\ executing' = (executing /\ exec[e].forced)
  /\ handle' \in {handle, NoExecution} \ {e}
  /\ UNCHANGED <<phantom, dropped>>

\* What is running is cancelled.
Cancels(why) ==
  /\ Cancelled(why) /\ UNCHANGED handle
  /\ \/ UNCHANGED <<executing, dropped>>
     \/ ~executing' /\ dropped' = (dropped \/ Counted # {})

\* No step but StartLeader makes a leader.
Keeps == process' = "leader" => process = "leader"

StepKind ==
  \/ Keeps /\ \/ Quiet
              \/ \E e \in Execution, forced \in BOOLEAN : Begins(e, forced)
              \/ \E e \in Execution : Moves(e)
              \/ \E e \in Execution, row \in {"none", "done", "aborted"} : Ends(e, row)
              \/ \E why \in {"user", "background", "failover"} : Cancels(why)
  \/ StartLeader
  \/ Crash

-----------------------------------------------------------------------------
(* The auxiliary invariant                                                 *)

\* An execution that ends has nothing left to record; one that is not there
\* is not being cancelled; the handle is that of one that is there.
EndsSettled  == \A e \in Execution : exec[e].phase = "ending" => ~Unsettled(exec[e].row)
IdleIsBlank  == \A e \in Execution : ~Live(e) => exec[e].cancel = "no" /\ ~Unsettled(exec[e].row)
HandleIsLive == handle # NoExecution => Live(handle)
Aux          == EndsSettled /\ IdleIsBlank /\ HandleIsLive

LEMMA ExitsEnds ==
  ASSUME TypeOK, NEW e \in Execution, NEW row,
         Exits(e, row), Live(e), ~Unsettled(row), UNCHANGED dropped
  PROVE  Ends(e, row)
<1>1. exec' = [exec EXCEPT ![e] = NoRun] /\ executing' = (executing /\ exec[e].forced)
  BY Zenon DEF Exits, Leaves
<1>2. handle' = IF handle = e THEN NoExecution ELSE handle
  BY Zenon DEF Exits, Leaves
<1>3. handle' \in {handle, NoExecution} \ {e}
  BY <1>2, TaskSchedulerAssumption
<1>4. phantom' = phantom
  <2>1. phantom' = (phantom \/ Unsettled(row)) /\ phantom \in BOOLEAN
    BY Zenon DEF Exits, TypeOK
  <2> QED
    BY <2>1
<1> QED
  BY Zenon, <1>1, <1>3, <1>4 DEF Ends

LEMMA EndsEffect ==
  ASSUME TypeOK, NEW e \in Execution, NEW row, Ends(e, row)
  PROVE  (\A f \in Execution : f # e => exec'[f] = exec[f]) /\ exec'[e] = NoRun
  BY DEF TypeOK, Ends

LEMMA RowEnds ==
  ASSUME TypeOK, NEW e \in Execution, ~Unsettled(exec[e].row)
  PROVE  exec[e].row \in {"none", "done", "aborted"}
  BY DEF TypeOK, Run, Unsettled

LEMMA AbortedRow ==
  ASSUME TypeOK, NEW e \in Execution
  PROVE  Aborted(exec[e].row) \in {"none", "done", "aborted"}
  BY DEF TypeOK, Run, Aborted, Unsettled

LEMMA RunMoves ==
  ASSUME TypeOK, NEW e \in Execution, NEW r \in Run, Live(e), r.phase # "idle",
         r.forced = exec[e].forced, r.phase = "ending" => ~Unsettled(r.row),
         exec' = [exec EXCEPT ![e] = r],
         handle' \in {handle, e}, UNCHANGED <<executing, phantom, dropped>>
  PROVE  Moves(e)
  BY DEF TypeOK, Moves

\* Every step is of one of these kinds.
LEMMA Kinds == TypeOK /\ Aux /\ [Next]_vars => StepKind
<1> SUFFICES ASSUME TypeOK, Aux, [Next]_vars PROVE StepKind
  OBVIOUS
<1>1. CASE CheckDueTasks
  <2>1. CASE foreground
    BY <1>1, <2>1 DEF CheckDueTasks, StepKind, Keeps, Quiet
  <2>2. CASE ~foreground
    <3>1. \E e \in Execution : Begins(e, FALSE)
      BY <1>1, <2>2 DEF CheckDueTasks, Begins, Eligible
    <3> QED
      BY <1>1, <3>1 DEF CheckDueTasks, StepKind, Keeps
  <2> QED
    BY <2>1, <2>2
<1>2. CASE RunNow
  <2>1. \E e \in Execution : Begins(e, FALSE)
    BY <1>2 DEF RunNow, Begins
  <2> QED
    BY <1>2, <2>1 DEF RunNow, StepKind, Keeps
<1>3. CASE RunForced
  <2>1. \E e \in Execution : Begins(e, TRUE)
    BY <1>3 DEF RunForced, Begins
  <2> QED
    BY <1>3, <2>1 DEF RunForced, StepKind, Keeps
<1>4. CASE Trigger
  <2>1. CASE executing
    BY <1>4, <2>1 DEF Trigger, StepKind, Keeps, Quiet
  <2>2. CASE ~executing
    <3>1. \E e \in Execution : Begins(e, FALSE)
      BY <1>4, <2>2 DEF Trigger, Begins
    <3> QED
      BY <1>4, <3>1 DEF Trigger, StepKind, Keeps
  <2> QED
    BY <2>1, <2>2
<1>5. CASE StopTask
  <2>1. Cancels("user")
    BY Zenon, <1>5 DEF StopTask, Cancels
  <2> QED
    BY <1>5, <2>1 DEF StopTask, StepKind, Keeps
<1>6. CASE StopBackground
  <2>1. Cancels("background")
    BY Zenon, <1>6 DEF StopBackground, Cancels
  <2> QED
    BY <1>6, <2>1 DEF StopBackground, StepKind, Keeps
<1>7. CASE LoseLeadership
  <2>1. CASE executing
    <3>1. Cancels("failover")
      BY Zenon, <1>7, <2>1 DEF LoseLeadership, Cancels
    <3> QED
      BY <1>7, <3>1 DEF LoseLeadership, StepKind, Keeps
  <2>2. CASE ~executing
    BY <1>7, <2>2 DEF LoseLeadership, StepKind, Keeps, Quiet
  <2> QED
    BY <2>1, <2>2
<1>8. CASE StartLeader \/ Crash
  BY <1>8 DEF StepKind
<1>9. CASE StartStandby \/ Tick \/ User \/ Pause \/ Resume \/ UNCHANGED vars
  BY <1>9 DEF StartStandby, Tick, User, Pause, Resume, vars, StepKind, Keeps, Quiet
<1>10. ASSUME NEW e \in Execution, Begin(e) PROVE StepKind
  <2>1. Live(e)
    BY <1>10 DEF Begin, Live
  <2>2. CASE handle' = NoExecution
    <3>1. handle' # e
      BY <2>2, TaskSchedulerAssumption
    <3>2. exec' = [exec EXCEPT ![e] = NoRun] /\ executing' = (executing /\ exec[e].forced)
      BY Zenon, <1>10, <3>1 DEF Begin
    <3>3. UNCHANGED <<phantom, dropped>>
      BY Zenon, <1>10 DEF Begin
    <3>4. handle' \in {handle, NoExecution} \ {e} /\ ~Unsettled("none")
      BY <2>2, <3>1 DEF Unsettled
    <3>5. Ends(e, "none")
      BY Zenon, <2>1, <3>2, <3>3, <3>4 DEF Ends
    <3> QED
      BY <1>10, <3>5 DEF Begin, StepKind, Keeps
  <2>3. CASE handle' # NoExecution
    <3> DEFINE r == [exec[e] EXCEPT !.phase = "queued", !.row = "queued"]
    <3>1. r \in Run /\ r.phase = "queued" /\ r.forced = exec[e].forced
      BY DEF TypeOK, Run
    <3>2. exec' = [exec EXCEPT ![e] = r] /\ handle' = e /\ UNCHANGED <<executing, phantom, dropped>>
      BY Zenon, <1>10, <2>3 DEF Begin
    <3> HIDE DEF r
    <3>3. Moves(e)
      BY <2>1, <3>1, <3>2, RunMoves
    <3> QED
      BY <1>10, <3>3 DEF Begin, StepKind, Keeps
  <2> QED
    BY <2>2, <2>3
<1>11. ASSUME NEW e \in Execution, Enter(e) PROVE StepKind
  <2>1. Live(e)
    BY <1>11 DEF Enter, Live
  <2>2. CASE task.status # "active"
    BY <1>11, <2>1, <2>2, ExitsEnds DEF Enter, StepKind, Keeps, Unsettled
  <2>3. CASE task.status = "active"
    <3>1. Moves(e)
      BY <1>11, <2>1, <2>3 DEF Enter, TypeOK, Run, Moves
    <3> QED
      BY <1>11, <3>1 DEF Enter, StepKind, Keeps
  <2> QED
    BY <2>2, <2>3
<1>12. ASSUME NEW e \in Execution, Start(e) PROVE StepKind
  <2> DEFINE blank == task.next = "none"
  <2> DEFINE r == [exec[e] EXCEPT !.phase = "running", !.row = "running", !.blank = blank]
  <2>1. blank \in BOOLEAN
    OBVIOUS
  <2>2. exec' = [exec EXCEPT ![e] = r]
    BY Zenon, <1>12 DEF Start
  <2> HIDE DEF blank
  <2>3. r \in Run /\ r.phase = "running" /\ r.forced = exec[e].forced
    BY <2>1 DEF TypeOK, Run
  <2> HIDE DEF r
  <2>4. Live(e) /\ UNCHANGED <<process, executing, handle, phantom, dropped>>
    BY <1>12 DEF Start, Live
  <2>5. Moves(e)
    BY <2>2, <2>3, <2>4, RunMoves
  <2> QED
    BY <2>4, <2>5 DEF StepKind, Keeps
<1>13. ASSUME NEW e \in Execution, Complete(e) PROVE StepKind
  <2>1. Moves(e)
    BY <1>13 DEF Complete, TypeOK, Run, Moves, Live, Unsettled
  <2> QED
    BY <1>13, <2>1 DEF Complete, StepKind, Keeps
<1>14. ASSUME NEW e \in Execution, Raise(e) PROVE StepKind
  <2>1. Moves(e)
    BY <1>14 DEF Raise, TypeOK, Run, Moves, Live
  <2> QED
    BY <1>14, <2>1 DEF Raise, StepKind, Keeps
<1>15. ASSUME NEW e \in Execution, Monitor(e) PROVE StepKind
  <2>1. Moves(e)
    BY <1>15 DEF Monitor, TypeOK, Run, Moves, Live
  <2> QED
    BY <1>15, <2>1 DEF Monitor, StepKind, Keeps
<1>16. ASSUME NEW e \in Execution, Decline(e) PROVE StepKind
  <2>1. Ends(e, "done")
    BY <1>16, ExitsEnds DEF Decline, Live, Unsettled
  <2> QED
    BY <1>16, <2>1 DEF Decline, StepKind, Keeps
<1>17. ASSUME NEW e \in Execution, Fail(e) PROVE StepKind
  <2>1. Ends(e, "done")
    BY <1>17, ExitsEnds DEF Fail, Live, Unsettled
  <2> QED
    BY <1>17, <2>1 DEF Fail, StepKind, Keeps
<1>18. ASSUME NEW e \in Execution, End(e) PROVE StepKind
  <2>1. ~Unsettled(exec[e].row) /\ Live(e)
    BY <1>18 DEF End, Aux, EndsSettled, Live
  <2>2. Ends(e, exec[e].row)
    BY <1>18, <2>1, ExitsEnds DEF End
  <2> QED
    BY <1>18, <2>1, <2>2, RowEnds DEF End, StepKind, Keeps
<1>19. ASSUME NEW e \in Execution, Unwind(e) PROVE StepKind
  <2>1. Live(e)
    BY <1>19 DEF Unwind, Aux, IdleIsBlank
  <2>2. ~Unsettled(Aborted(exec[e].row))
    BY AbortedRow DEF Unsettled
  <2>3. Ends(e, Aborted(exec[e].row))
    BY <1>19, <2>1, <2>2, ExitsEnds DEF Unwind
  <2> QED
    BY <1>19, <2>3, AbortedRow DEF Unwind, StepKind, Keeps
<1> QED
  BY <1>1, <1>2, <1>3, <1>4, <1>5, <1>6, <1>7, <1>8, <1>9, <1>10, <1>11, <1>12, <1>13,
     <1>14, <1>15, <1>16, <1>17, <1>18, <1>19 DEF Next, Step

\* Every step keeps the auxiliary invariant.
LEMMA AuxStep == TypeOK /\ Aux /\ [Next]_vars => Aux'
<1> SUFFICES ASSUME TypeOK, Aux, [Next]_vars PROVE Aux'
  OBVIOUS
<1> USE TaskSchedulerAssumption DEF Aux, EndsSettled, IdleIsBlank, HandleIsLive, Live, Unsettled
<1>1. CASE Quiet
  BY <1>1 DEF Quiet
<1>2. ASSUME NEW e \in Execution, NEW forced \in BOOLEAN, Begins(e, forced) PROVE Aux'
  BY <1>2, CreatedEffect DEF TypeOK, Begins
<1>3. ASSUME NEW e \in Execution, Moves(e) PROVE Aux'
  BY <1>3 DEF TypeOK, Moves
<1>4. ASSUME NEW e \in Execution, NEW row, Ends(e, row) PROVE Aux'
  BY <1>4, EndsEffect DEF TypeOK, Ends, NoRun
<1>5. ASSUME NEW why, Cancels(why) PROVE Aux'
  BY <1>5, CancelledEffect DEF TypeOK, Cancels
<1>6. CASE StartLeader
  BY <1>6 DEF StartLeader, Recovered, Aborted, TypeOK, Run
<1>7. CASE Crash
  BY <1>7 DEF Crash, NoRun
<1> QED
  BY <1>1, <1>2, <1>3, <1>4, <1>5, <1>6, <1>7, Kinds DEF StepKind

-----------------------------------------------------------------------------
(* The safety properties                                                   *)

LEMMA EndsCounted ==
  ASSUME TypeOK, OneExecution, ~dropped, NEW e \in Execution, NEW row, Ends(e, row)
  PROVE  (\A f, g \in Counted' : f = g) /\ (executing' <=> Counted' # {})
<1>1. Counted' = Counted \ {e}
  <2>1. Live(e)
    BY DEF Ends
  <2> QED
    BY <2>1, EndsEffect DEF Counted, Live, NoRun
<1>2. executing' <=> executing /\ exec[e].forced
  BY DEF Ends
<1>3. CASE exec[e].forced
  <2>1. Counted' = Counted
    BY <1>1, <1>3 DEF Counted
  <2> QED
    BY <1>2, <1>3, <2>1 DEF OneExecution
<1>4. CASE ~exec[e].forced
  <2>1. e \in Counted
    BY <1>4 DEF Counted, Ends
  <2>2. Counted' = {}
    BY <1>1, <2>1 DEF OneExecution
  <2> QED
    BY <1>2, <1>4, <2>2
<1> QED
  BY <1>3, <1>4

\* No step runs the task twice, or leaves it in _executing without a run.
LEMMA OneExecutionStep == TypeOK /\ Aux /\ OneExecution /\ [Next]_vars => OneExecution'
<1> SUFFICES ASSUME TypeOK, Aux, OneExecution, [Next]_vars, ~dropped'
             PROVE  (\A e, f \in Counted' : e = f) /\ (executing' <=> Counted' # {})
  BY DEF OneExecution
<1>1. CASE Quiet
  BY <1>1 DEF Quiet, OneExecution, Counted, Live
<1>2. ASSUME NEW e \in Execution, Begins(e, TRUE)
      PROVE  (\A f, g \in Counted' : f = g) /\ (executing' <=> Counted' # {})
  <2>1. PICK auto \in BOOLEAN : Created(e, auto, TRUE)
    BY <1>2 DEF Begins
  <2>2. exec'[e].forced /\ \A f \in Execution : f # e => exec'[f] = exec[f]
    BY <2>1, CreatedEffect
  <2>3. Counted' = Counted
    BY <1>2, <2>2 DEF Begins, Counted, Live
  <2> QED
    BY <1>2, <2>3 DEF Begins, OneExecution
<1>3. ASSUME NEW e \in Execution, Begins(e, FALSE)
      PROVE  (\A f, g \in Counted' : f = g) /\ (executing' <=> Counted' # {})
  <2>1. Counted = {}
    BY <1>3 DEF Begins, OneExecution
  <2>2. PICK auto \in BOOLEAN : Created(e, auto, FALSE)
    BY <1>3 DEF Begins
  <2>3. /\ Live(e)' /\ ~exec'[e].forced
        /\ \A f \in Execution : f # e => exec'[f] = exec[f]
    BY <2>2, CreatedEffect DEF Live
  <2>4. Counted' = {e}
    BY <2>1, <2>3 DEF Counted, Live
  <2> QED
    BY <1>3, <2>4 DEF Begins
<1>4. ASSUME NEW e \in Execution, Moves(e)
      PROVE  (\A f, g \in Counted' : f = g) /\ (executing' <=> Counted' # {})
  <2>1. Counted' = Counted
    BY <1>4 DEF Moves, Counted, Live
  <2> QED
    BY <1>4, <2>1 DEF Moves, OneExecution
<1>5. ASSUME NEW e \in Execution, NEW row, Ends(e, row)
      PROVE  (\A f, g \in Counted' : f = g) /\ (executing' <=> Counted' # {})
  BY <1>5, EndsCounted DEF Ends
<1>6. ASSUME NEW why, Cancels(why)
      PROVE  (\A f, g \in Counted' : f = g) /\ (executing' <=> Counted' # {})
  <2>1. Counted' = Counted
    BY <1>6, CancelledEffect DEF Cancels, Counted, Live
  <2>2. CASE UNCHANGED <<executing, dropped>>
    BY <2>1, <2>2 DEF OneExecution
  <2>3. CASE ~executing' /\ dropped' = (dropped \/ Counted # {})
    BY <2>1, <2>3
  <2> QED
    BY <1>6, <2>2, <2>3 DEF Cancels
<1>7. CASE StartLeader
  <2>1. Counted' = Counted
    BY <1>7 DEF StartLeader, TypeOK, Run, Counted, Live
  <2> QED
    BY <1>7, <2>1 DEF StartLeader, OneExecution
<1>8. CASE Crash
  BY <1>8 DEF Crash, Counted, Live, NoRun
<1> QED
  BY <1>1, <1>2, <1>3, <1>4, <1>5, <1>6, <1>7, <1>8, Kinds DEF StepKind

\* No step leaves a leader with a row that says it is still being worked on.
LEMMA LedgerStep == TypeOK /\ Aux /\ LedgerSettles /\ [Next]_vars => LedgerSettles'
<1> SUFFICES ASSUME TypeOK, Aux, LedgerSettles, [Next]_vars, process' = "leader"
             PROVE  ~phantom'
  BY DEF LedgerSettles
<1>1. CASE Keeps
  <2>1. ~phantom
    BY <1>1 DEF Keeps, LedgerSettles
  <2>2. CASE Quiet
    BY <2>1, <2>2 DEF Quiet
  <2>3. ASSUME NEW e \in Execution, NEW forced, Begins(e, forced) PROVE ~phantom'
    BY <2>1, <2>3 DEF Begins
  <2>4. ASSUME NEW e \in Execution, Moves(e) PROVE ~phantom'
    BY <2>1, <2>4 DEF Moves
  <2>5. ASSUME NEW e \in Execution, NEW row, Ends(e, row) PROVE ~phantom'
    BY <2>1, <2>5 DEF Ends
  <2>6. ASSUME NEW why, Cancels(why) PROVE ~phantom'
    BY <2>1, <2>6, CancelledEffect DEF Cancels
  <2>7. CASE StartLeader \/ Crash
    BY <2>7 DEF StartLeader, Recovered, Aborted, Unsettled, Crash
  <2> QED
    BY <2>2, <2>3, <2>4, <2>5, <2>6, <2>7, Kinds DEF StepKind
<1>2. CASE ~Keeps
  BY <1>2, Kinds DEF StepKind, StartLeader, Recovered, Aborted, Unsettled, Crash
<1> QED
  BY <1>1, <1>2

LEMMA KeepsDate ==
  ASSUME TypeOK, RecurringKept, NEW next \in {"none", "later", "due"},
         task.kind = "recurring" => next # "none"
  PROVE  LET t == [task EXCEPT !.next = next]
         IN  t.kind = task.kind /\ (t.kind = "recurring" => t.next # "none")
  BY DEF TypeOK, Task

LEMMA AfterKeeps ==
  ASSUME NEW t, t.kind = "recurring" PROVE After(t) # "none"
  BY DEF After

LEMMA WroteKeeps ==
  ASSUME TypeOK, RecurringKept, NEW e, NEW next \in {"none", "later", "due"},
         task.kind = "recurring" => next # "none"
  PROVE  LET t == Wrote(e, next) IN t.kind = "recurring" => t.next # "none"
  BY KeepsDate DEF Wrote, RecurringKept

\* No step takes the next run of a recurring task away.
LEMMA RecurringStep == TypeOK /\ RecurringKept /\ [Next]_vars => RecurringKept'
<1> SUFFICES ASSUME TypeOK, RecurringKept, [Next]_vars PROVE RecurringKept'
  OBVIOUS
<1>1. CASE UNCHANGED task
  BY <1>1 DEF RecurringKept
<1>2. CASE CheckDueTasks
  BY <1>2, KeepsDate, AfterType, AfterKeeps DEF CheckDueTasks, RecurringKept
<1>3. CASE Trigger
  BY <1>3, KeepsDate DEF Trigger, RecurringKept
<1>4. CASE StartLeader
  BY <1>4, KeepsDate DEF StartLeader, Deferred, RecurringKept
<1>5. CASE Tick
  BY <1>5 DEF Tick, TypeOK, Task, RecurringKept
<1>6. CASE Pause
  BY <1>6 DEF Pause, TypeOK, Task, RecurringKept
<1>7. CASE Resume
  BY <1>7, AfterKeeps DEF Resume, TypeOK, Task, RecurringKept
<1>8. ASSUME NEW e \in Execution, Complete(e) PROVE RecurringKept'
  <2> DEFINE w == Wrote(e, After(task))
  <2>1. w \in Task /\ (w.kind = "recurring" => w.next # "none")
    BY WroteType, WroteKeeps, AfterType, AfterKeeps
  <2>2. PICK status : task' = [w EXCEPT !.status = status]
    BY Zenon, <1>8 DEF Complete
  <2> HIDE DEF w
  <2> QED
    BY <2>1, <2>2 DEF Task, RecurringKept
<1>9. ASSUME NEW e \in Execution, Decline(e) PROVE RecurringKept'
  BY <1>9, WroteKeeps, AfterType, AfterKeeps DEF Decline, RecurringKept
<1>10. ASSUME NEW e \in Execution, Fail(e) PROVE RecurringKept'
  BY <1>10, KeepsDate, AfterType, AfterKeeps DEF Fail, RecurringKept
<1>11. ASSUME NEW e \in Execution, Unwind(e) PROVE RecurringKept'
  BY <1>11, WroteKeeps, KeepsDate, AfterType, AfterKeeps DEF Unwind, Deferred, RecurringKept
<1>12. ASSUME NEW e \in Execution,
              Begin(e) \/ Enter(e) \/ Start(e) \/ Raise(e) \/ End(e) \/ Monitor(e)
       PROVE  UNCHANGED task
  BY <1>12 DEF Begin, Enter, Start, Raise, End, Monitor
<1>13. CASE RunNow \/ RunForced \/ StopTask \/ StopBackground \/ StartStandby
            \/ LoseLeadership \/ Crash \/ User \/ UNCHANGED vars
  BY <1>1, <1>13
  DEF RunNow, RunForced, StopTask, StopBackground, StartStandby, LoseLeadership, Crash, User, vars
<1> QED
  BY <1>1, <1>2, <1>3, <1>4, <1>5, <1>6, <1>7, <1>8, <1>9, <1>10, <1>11, <1>12,
     <1>13 DEF Next, Step

-----------------------------------------------------------------------------
(* Theorems                                                                *)

IInv == TypeOK /\ Aux /\ OneExecution /\ LedgerSettles /\ RecurringKept

LEMMA InitInvariant == Init => IInv
<1> SUFFICES ASSUME Init PROVE IInv
  OBVIOUS
<1>1. TypeOK
  <2>1. task \in Task
    BY Zenon DEF Init
  <2>2. exec \in [Execution -> Run]
    BY NoRunType DEF Init
  <2>3. acts \in 0 .. MaxActs /\ process \in {"down", "standby", "leader"}
    BY TaskSchedulerAssumption DEF Init
  <2> QED
    BY Zenon, <2>1, <2>2, <2>3 DEF Init, TypeOK
<1>2. Aux
  BY DEF Init, NoRun, Aux, EndsSettled, IdleIsBlank, HandleIsLive, Live, Unsettled
<1>3. OneExecution
  BY DEF Init, NoRun, OneExecution, Counted, Live
<1>4. LedgerSettles /\ RecurringKept
  BY DEF Init, LedgerSettles, RecurringKept
<1> QED
  BY <1>1, <1>2, <1>3, <1>4 DEF IInv

\* The inductive invariant: the properties below, and that an execution about
\* to end has settled its row while one that is gone has nothing pending.
THEOREM SchedulerInvariant == Spec => []IInv
<1>1. IInv /\ [Next]_vars => IInv'
  BY TypeStep, AuxStep, OneExecutionStep, LedgerStep, RecurringStep DEF IInv
<1> QED
  BY <1>1, InitInvariant, PTL DEF Spec

\* The rows, the sets of _execute_task and the runs stay what they can be.
THEOREM TypeCorrect == Spec => []TypeOK
<1>1. IInv => TypeOK
  BY DEF IInv
<1> QED
  BY <1>1, SchedulerInvariant, PTL

\* The tick, the user, events and chains never run the task twice at a time,
\* and it is in _executing exactly while it runs, however runs end.
THEOREM OnlyOneExecution == Spec => []OneExecution
<1>1. IInv => OneExecution
  BY DEF IInv
<1> QED
  BY <1>1, SchedulerInvariant, PTL

\* Under a leader no run record is left queued or running by an execution that
\* is gone, across cancellations, failovers and crashes.
THEOREM LedgerIsSettled == Spec => []LedgerSettles
<1>1. IInv => LedgerSettles
  BY DEF IInv
<1> QED
  BY <1>1, SchedulerInvariant, PTL

\* A recurring task keeps a next run through every way an execution may end.
THEOREM RecurringStays == Spec => []RecurringKept
<1>1. IInv => RecurringKept
  BY DEF IInv
<1> QED
  BY <1>1, SchedulerInvariant, PTL
=============================================================================
