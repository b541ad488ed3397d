---------------------------- MODULE TaskScheduler ----------------------------
(***************************************************************************)
(* One scheduled task and the executions of it in one process              *)
(* (src/task_scheduler.py): the tick that claims it when it is due, manual *)
(* and event triggers, the queue behind the model slot and the quiet gate, *)
(* cancellation by the user or by foreground activity, and what the        *)
(* process does when it starts, dies, or loses and regains the             *)
(* "task-scheduler" leadership.                                            *)
(*                                                                         *)
(* Executions are asyncio tasks: a step here is what one of them does      *)
(* between two awaits, and a cancellation is delivered at the next of its  *)
(* steps.  _executing_lock is never held across an await of anything else, *)
(* so what it guards is one step.                                          *)
(*                                                                         *)
(* Abstracted: next_run is due, later, or NULL; other tasks leave the      *)
(* model slot in the end; the quiet gate waits without limit, as by        *)
(* default.  Left out: edits of the schedule, the admin-only check, chains *)
(* (a chained task is run as by run_task_now), and database errors inside  *)
(* an execution, with the transaction that repairs a commit that failed.   *)
(***************************************************************************)
EXTENDS Naturals

CONSTANTS
  Execution,  \* executions there may be at a time
  NoExecution,
  MaxActs     \* bound on what users, events and failures do

ASSUME TaskSchedulerAssumption == NoExecution \notin Execution /\ MaxActs \in Nat

VARIABLES
  task,        \* the ScheduledTask row
  process,     \* "down", "standby", or "leader": its loops run
  foreground,  \* has_foreground_activity
  executing,   \* is the task in _executing
  handle,      \* its _task_handles entry
  exec,        \* the executions, each with its TaskRun row
  phantom,     \* a row of an execution that is gone says queued or running
  dropped,     \* _executing lost an execution that goes on (history)
  acts         \* what users, events and failures have done so far

vars == <<task, process, foreground, executing, handle, exec, phantom, dropped, acts>>

\* slot: it needs the model slot; ahead: the date of a one-off has not passed.
Task == [kind : {"recurring", "once", "event"}, slot : BOOLEAN, ahead : BOOLEAN,
         status : {"active", "paused", "completed"}, next : {"none", "later", "due"}]

\* auto: the scheduler began it, not the user; blank: its session has loaded a
\* next_run of NULL.
Run == [phase : {"idle", "created", "queued", "gate", "running", "failing", "ending"},
        auto : BOOLEAN, forced : BOOLEAN, cancel : {"no", "user", "background", "failover", "hit"},
        row : {"none", "queued", "running", "done", "aborted"},
        blank : BOOLEAN]

NoRun == [phase |-> "idle", auto |-> FALSE, forced |-> FALSE, cancel |-> "no", row |-> "none",
          blank |-> FALSE]

TypeOK ==
  /\ task \in Task /\ process \in {"down", "standby", "leader"}
  /\ foreground \in BOOLEAN /\ executing \in BOOLEAN
  /\ handle \in Execution \cup {NoExecution} /\ exec \in [Execution -> Run]
  /\ phantom \in BOOLEAN /\ dropped \in BOOLEAN /\ acts \in 0 .. MaxActs

Init ==
  /\ task \in {t \in Task : /\ t.status = "active" /\ (t.ahead <=> t.kind = "once")
                           /\ t.next = IF t.kind = "event" THEN "none" ELSE "later"}
  /\ process = "down" /\ foreground = FALSE /\ executing = FALSE /\ handle = NoExecution
  /\ exec = [e \in Execution |-> NoRun] /\ phantom = FALSE /\ dropped = FALSE
  /\ acts = 0

Live(e)     == exec[e].phase # "idle"
Counted     == {e \in Execution : Live(e) /\ ~exec[e].forced}
Unsettled(row) == row \in {"queued", "running"}
Disturbs    == acts < MaxActs /\ acts' = acts + 1
Due         == task.status = "active" /\ task.next = "due"

\* compute_next_run, or the NULL of an event task.  Mutant: the claimed
\* occurrence was the last.
AfterLast(t) == "none"
After(t)     == IF t.kind = "recurring" \/ t.ahead THEN "later" ELSE "none"

Created(e, auto, forced) ==
  exec' = [exec EXCEPT ![e] = [NoRun EXCEPT !.phase = "created", !.auto = auto, !.forced = forced]]

-----------------------------------------------------------------------------
(* How executions begin                                                    *)

\* _check_due_tasks.  The commit of next_run is the claim of the occurrence.
\* Mutant: the set of running tasks is not looked at.
EligibleAnyway == process = "leader" /\ Due
Eligible       == process = "leader" /\ Due /\ ~executing

CheckDueTasks ==
  /\ Eligible
  /\ IF foreground
     THEN task' = [task EXCEPT !.next = "later"] /\ UNCHANGED <<executing, exec>>
     ELSE /\ task' = [task EXCEPT !.next = After(task)]
          /\ executing' = TRUE
          /\ \E e \in Execution : ~Live(e) /\ Created(e, TRUE, FALSE)
  /\ UNCHANGED <<process, foreground, handle, phantom, dropped, acts>>

\* run_task_now, by the user, the assistant or a chain.
RunNow ==
  /\ Disturbs
  /\ process # "down" /\ ~executing
  /\ executing' = TRUE
  /\ \E e \in Execution : ~Live(e) /\ Created(e, FALSE, FALSE)
  /\ UNCHANGED <<task, process, foreground, handle, phantom, dropped>>

RunForced ==
  /\ Disturbs
  /\ process # "down"
  /\ \E e \in Execution : ~Live(e) /\ Created(e, FALSE, TRUE)
  /\ UNCHANGED <<task, process, foreground, executing, handle, phantom, dropped>>

\* event_bus: the trigger is persisted, then handed over.
Trigger ==
  /\ Disturbs
  /\ process # "down" /\ task.kind = "event" /\ task.status = "active"
  /\ task' = [task EXCEPT !.next = "due"]
  /\ IF executing THEN UNCHANGED <<executing, exec>>
     ELSE executing' = TRUE /\ \E e \in Execution : ~Live(e) /\ Created(e, TRUE, FALSE)
  /\ UNCHANGED <<process, foreground, handle, phantom, dropped>>

-----------------------------------------------------------------------------
(* An execution                                                            *)

\* The finally blocks of _execute_task and _execute_task_locked.  Mutant:
\* leaving, an execution stays in the set of running tasks.
LeavesMember(e) ==
  /\ handle' = IF handle = e THEN NoExecution ELSE handle
  /\ UNCHANGED executing
Leaves(e) ==
  /\ handle' = IF handle = e THEN NoExecution ELSE handle
  /\ executing' = (executing /\ exec[e].forced)

\* The execution ends and its row stays as it is.
Exits(e, row) ==
  /\ Leaves(e)
  /\ exec' = [exec EXCEPT ![e] = NoRun]
  /\ phantom' = (phantom \/ Unsettled(row))

\* _execute_task: the row is written before anything else, or nothing is done
\* but to take the handle, another execution's too, and to drop it again.
Begin(e) ==
  /\ exec[e].phase = "created"
  /\ \/ /\ exec' = [exec EXCEPT ![e] = [@ EXCEPT !.phase = "queued", !.row = "queued"]]
        /\ handle' = e /\ UNCHANGED executing
     \/ /\ exec' = [exec EXCEPT ![e] = NoRun]
        /\ handle' = NoExecution /\ executing' = (executing /\ exec[e].forced)
  /\ UNCHANGED <<task, process, foreground, phantom, dropped, acts>>

\* The model slot, which a forced execution or a plain action does not need.
SlotFree(e) ==
  \/ exec[e].forced \/ ~task.slot
  \/ \A f \in Execution \ {e} :
       exec[f].forced \/ exec[f].phase \notin {"gate", "running", "failing", "ending"}

\* _execute_task_locked up to the gate: a task paused meanwhile is skipped.
Enter(e) ==
  /\ exec[e].phase = "queued" /\ exec[e].cancel = "no" /\ SlotFree(e)
  /\ IF task.status = "active"
     THEN exec' = [exec EXCEPT ![e] = [@ EXCEPT !.phase = "gate"]] /\ UNCHANGED <<executing, handle, phantom>>
     ELSE Exits(e, "done")
  /\ UNCHANGED <<task, process, foreground, dropped, acts>>

\* wait_for_interactive_quiet, then the task is run.
Start(e) ==
  /\ exec[e].phase = "gate" /\ exec[e].cancel = "no"
  /\ exec[e].forced \/ ~foreground
  /\ exec' = [exec EXCEPT ![e] = [@ EXCEPT !.phase = "running", !.row = "running",
                                           !.blank = (task.next = "none")]]
  /\ UNCHANGED <<task, process, foreground, executing, handle, phantom, dropped, acts>>

\* The session writes next_run only if it differs from what it has loaded.
Wrote(e, next) ==
  IF next = "none" /\ exec[e].blank THEN task ELSE [task EXCEPT !.next = next]

\* _cancel_if_foreground_active
Monitor(e) ==
  /\ exec[e].phase = "running" /\ ~exec[e].forced /\ foreground /\ exec[e].cancel # "hit"
  /\ exec' = [exec EXCEPT ![e] = [@ EXCEPT !.cancel = "hit"]]
  /\ UNCHANGED <<task, process, foreground, executing, handle, phantom, dropped, acts>>

\* The run succeeds or reports an error; then it is announced.
Complete(e) ==
  LET next == After(task) IN
  /\ exec[e].phase = "running" /\ exec[e].cancel = "no"
  /\ task' = [Wrote(e, next) EXCEPT !.status =
              IF task.kind = "once" /\ next = "none" THEN "completed" ELSE @]
  /\ exec' = [exec EXCEPT ![e] = [@ EXCEPT !.phase = "ending", !.row = "done",
                                           !.auto = FALSE, !.blank = FALSE]]
  /\ UNCHANGED <<process, foreground, executing, handle, phantom, dropped, acts>>

\* TaskNoop: nothing to do.  TaskDeferred: again in a while.
Decline(e) ==
  /\ exec[e].phase = "running" /\ exec[e].cancel = "no"
  /\ task' \in {Wrote(e, After(task)), Wrote(e, "later")}
  /\ Exits(e, "done")
  /\ UNCHANGED <<process, foreground, dropped, acts>>

\* It raises, or what follows it does; the failure is announced before it is
\* recorded.
Raise(e) ==
  /\ exec[e].phase \in {"running", "ending"} /\ exec[e].cancel = "no"
  /\ exec' = [exec EXCEPT ![e] = [@ EXCEPT !.phase = "failing", !.auto = FALSE, !.blank = FALSE]]
  /\ UNCHANGED <<task, process, foreground, executing, handle, phantom, dropped, acts>>

Fail(e) ==
  /\ exec[e].phase = "failing" /\ exec[e].cancel = "no"
  /\ task' = IF task.kind = "event" THEN task ELSE [task EXCEPT !.next = After(task)]
  /\ Exits(e, "done")
  /\ UNCHANGED <<process, foreground, dropped, acts>>

End(e) ==
  /\ exec[e].phase = "ending" /\ exec[e].cancel = "no"
  /\ Exits(e, exec[e].row)
  /\ UNCHANGED <<task, process, foreground, dropped, acts>>

\* _defer_immediately_due_task
Deferred == IF Due THEN [task EXCEPT !.next = "later"] ELSE task

\* What a cancelled run leaves: aborted.  Mutant: its row is not
\* touched.
AbortedNot(row) == row
Aborted(row)    == IF Unsettled(row) THEN "aborted" ELSE row

\* CancelledError: the run's own handler, or _execute_task's.
Unwind(e) ==
  /\ exec[e].cancel # "no"
  /\ task' = IF exec[e].phase # "running" THEN Deferred
             ELSE IF exec[e].cancel = "hit" THEN Wrote(e, "later")
             ELSE Wrote(e, After(task))
  /\ Exits(e, Aborted(exec[e].row))
  /\ UNCHANGED <<process, foreground, dropped, acts>>

-----------------------------------------------------------------------------
(* Cancellation                                                            *)

\* The handle's cancel, and the rows marked aborted.
Stopped(why, rows) ==
  [e \in Execution |-> [exec[e] EXCEPT
                          !.cancel = IF e = handle /\ @ = "no" THEN why ELSE @,
                          !.row = IF e \in rows THEN "aborted" ELSE @]]

\* _mark_run_aborted takes the latest row that is queued or running, or fails to.
Cancelled(why) ==
  \E rows \in {{e} : e \in {f \in Execution : Unsettled(exec[f].row)}} \cup {{}} :
    /\ exec' = Stopped(why, rows)
    /\ phantom' \in {phantom, phantom /\ rows # {}}

\* stop_task
StopTask ==
  /\ Disturbs
  /\ process # "down"
  /\ Cancelled("user")
  /\ executing' = FALSE
  /\ dropped' = (dropped \/ Counted # {})
  /\ UNCHANGED <<task, process, foreground, handle>>

\* stop_background_tasks_for_foreground: only what is in _executing.
StopBackground ==
  /\ Disturbs
  /\ process # "down" /\ foreground /\ executing
  /\ Cancelled("background")
  /\ UNCHANGED <<task, process, foreground, executing, handle, dropped>>

-----------------------------------------------------------------------------
(* The process and its surroundings                                        *)

\* _start_leader_tasks: what is left in the ledger was interrupted, and what
\* is overdue waits a minute.
Recovered(row) == Aborted(row)

StartLeader ==
  /\ process \in {"down", "standby"}
  /\ process' = "leader"
  /\ exec' = [e \in Execution |-> [exec[e] EXCEPT !.row = Recovered(@)]]
  /\ phantom' = Unsettled(Recovered(IF phantom THEN "running" ELSE "none"))
  /\ task' = Deferred
  /\ UNCHANGED <<foreground, executing, handle, dropped, acts>>

StartStandby ==
  /\ process = "down" /\ process' = "standby"
  /\ UNCHANGED <<task, foreground, executing, handle, exec, phantom, dropped, acts>>

\* _leadership_loop after a renewal failed: _stop_leader_tasks.
LoseLeadership ==
  /\ Disturbs
  /\ process = "leader" /\ process' = "standby"
  /\ IF executing THEN Cancelled("failover") ELSE UNCHANGED <<exec, phantom>>
  /\ UNCHANGED <<task, foreground, executing, handle, dropped>>

\* The process dies; only the database is left.
Crash ==
  /\ Disturbs
  /\ process # "down" /\ process' = "down"
  /\ exec' = [e \in Execution |-> NoRun]
  /\ phantom' = (phantom \/ \E e \in Execution : Unsettled(exec[e].row))
  /\ executing' = FALSE /\ handle' = NoExecution /\ dropped' = FALSE
  /\ UNCHANGED <<task, foreground>>

\* Time passes.  A postponement may end before the date of a one-off.
Tick ==
  /\ task.next = "later"
  /\ \E ahead \in {FALSE, task.ahead} : task' = [task EXCEPT !.next = "due", !.ahead = ahead]
  /\ UNCHANGED <<process, foreground, executing, handle, exec, phantom, dropped, acts>>

User ==
  /\ Disturbs
  /\ foreground' = ~foreground
  /\ UNCHANGED <<task, process, executing, handle, exec, phantom, dropped>>

\* pause_task, resume_task; a date that has passed is not scheduled again.
Pause ==
  /\ Disturbs
  /\ process # "down" /\ task.status = "active"
  /\ task' = [task EXCEPT !.status = "paused"]
  /\ UNCHANGED <<process, foreground, executing, handle, exec, phantom, dropped>>

Resume ==
  /\ Disturbs
  /\ process # "down" /\ task.status # "active"
  /\ task' = [task EXCEPT !.status = "active",
                          !.next = IF task.kind = "event" THEN @ ELSE After(task)]
  /\ UNCHANGED <<process, foreground, executing, handle, exec, phantom, dropped>>

Step(e) ==
  Begin(e) \/ Enter(e) \/ Start(e) \/ Complete(e) \/ Decline(e) \/ Raise(e)
    \/ Fail(e) \/ End(e) \/ Unwind(e)
Next ==
  \/ CheckDueTasks \/ RunNow \/ RunForced \/ Trigger
  \/ \E e \in Execution : Step(e) \/ Monitor(e)
  \/ StopTask \/ StopBackground
  \/ StartLeader \/ StartStandby \/ LoseLeadership \/ Crash
  \/ Tick \/ User \/ Pause \/ Resume

\* The loop ticks and executions proceed: no run takes for ever.
Fairness ==
  /\ WF_vars(CheckDueTasks)
  /\ \A e \in Execution : WF_vars(Step(e))

Spec     == Init /\ [][Next]_vars
FairSpec == Spec /\ Fairness

-----------------------------------------------------------------------------
(* Properties                                                              *)

\* However it is triggered, the task is not executed twice at a time, and it
\* is in _executing exactly while it is, unless stop_task took it out under an
\* execution that goes on.
OneExecution ==
  ~dropped => /\ \A e, f \in Counted : e = f
              /\ executing <=> Counted # {}

\* No row of the ledger says queued or running for an execution that is gone,
\* whichever way it was cancelled or died.
LedgerSettles == process = "leader" => ~phantom

\* A recurring task is always going to run again.
RecurringKept == task.kind = "recurring" => task.next # "none"

\* Once the user and the machines leave it alone, a due task is dispatched: no
\* leftover of an execution, however it ended, keeps it from running.
OnItsOwn == CheckDueTasks \/ (\E e \in Execution : Step(e)) \/ Tick
DueIsTaken ==
  (<>[][OnItsOwn]_vars /\ <>[](process = "leader" /\ ~foreground)) => [](Due => <>~Due)

\* Violated: an automatic job that is stopped because the user became active
\* is deferred.
BackgroundIsDeferred ==
  [][\A e \in Execution :
       (exec[e].auto /\ exec[e].cancel = "background" /\ exec'[e] = NoRun /\ process' # "down"
          /\ task.status = "active" /\ exec[e].phase \in {"queued", "gate", "running"})
       => task'.next # "none"]_vars
=============================================================================
