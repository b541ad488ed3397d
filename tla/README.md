# Restia: models and proofs of its background protocols

Restia is a self-hosted AI workspace: one FastAPI process in local mode, any
number of replicas over one PostgreSQL database in shared mode. This directory
models the protocols by which its replicas, threads and requests share work
through database rows: who may drive a singleton role, what an agent's proposed
action may do and when, how an approved email leaves exactly as approved, how
edits of a calendar event reach its CalDAV server, how a reminder is delivered
once, how a scheduled task is run, and how browsers follow a chat reply that is
generated in the background.

File references are to the repository; `src/x.py` is the package directory
`src/`, `core/x.py` and `routes/x.py` are beside it.

## 1. Inventory

| Component | State it keeps | Operations | What is hard, and what makes it correct |
|---|---|---|---|
| Runtime leadership, `src/distributed_leadership.py` | one `runtime_worker_leases` row per role; per replica a token, a worker task | acquire, renew, release; the coroutine `run_database_leased_worker` | lapse of a lease, cancellation during a database call in a thread, crash, errors after commit. Tokens are distinct, a lease is not taken before it lapses, it is handed over after the worker stopped, a stale worker stops, a dead leader is replaced |
| Action policy, `src/action_policy.py`, `routes/action_policy_routes.py` | `action_policies`, `action_proposals`, audit rows | create, issue confirmation, approve, reject, start, complete, fail, reverse, set policy | concurrent requests on one version, withdrawn approvals, policy changed meanwhile. One winner per version, nothing confirmed runs without a standing human approval, an agent does not widen its policy |
| Identity barrier, `src/identity.py` | the auth lock of a process | `request_account_transaction` | serializes the requests of one process only |
| Calendar executor, `src/calendar_action_executor.py` | undo rows | execute, reverse, in one transaction | undo exists before the effect |
| Smart-home execution, `src/ambient_capabilities.py` | - | start, connector call, finish, in two transactions | crash between them, errors that hide an effect |
| Email outbox, `src/email_outbound.py`, and worker, `src/email_delivery_worker.py` | draft, delivery and proposal rows | prepare, queue, claim, load, send, complete, retry | several workers, lapsing leases, crash after SMTP accepted. Rows agree, only approved mail is claimed, an outcome is final, none is forgotten |
| Email pollers and manual queue, `routes/email_pollers.py`, `src/email_runtime_authority.py` | scheduled email claims | poll, claim, complete, fail | the poller thread outlives its cancelled task |
| Task scheduler, `src/task_scheduler.py`, `src/event_bus.py`, `routes/task_routes.py` | `scheduled_tasks`, `task_runs`; per process `_executing`, `_task_handles` and the model slot | tick, event trigger, manual run, execute, stop, stop for the foreground, pause, resume, start and lose leadership, recover | every trigger races with every cancellation; `next_run` is cleared before the run and written after it. One execution at a time, no row stays running, no recurrence is lost, a due task runs |
| Calendar delivery, `src/calendar_service.py`, `src/calendar_delivery.py`, `src/caldav_writeback.py` | the event row, its delivery rows in a FIFO, the calendar's `config_version` | edit, enqueue, fold, claim, load, send, record, fail | order per event, newer edits while an older one is delivered, lost answers, workers that outlive their lease, other clients of the server. Effects in order, nobody's change overwritten unseen, the head of the queue settles |
| CalDAV sync, `src/caldav_sync.py` | - | list, ingest, verify and cancel what is missing | a listing is stale when it is used. It never undoes an undelivered edit |
| Contact delivery, `src/contact_delivery.py` | delivery rows per contact generation | enqueue, claim, load, execute, complete, fail | as calendar delivery |
| Reminder delivery, `src/notification_delivery_authority.py`, `src/note_reminder_state.py`, `dispatch_reminder` in `routes/note_routes.py` | claim, cancellation and browser notification rows | claim, check, send, queue, await, acknowledge, fail, cancel, re-arm | cancel against every step of a dispatch, late acknowledgement, browser hand-over. Cancelled means quiet, acknowledged means delivered, wanted means delivered in the end |
| Agent runs, `src/agent_runs.py` | per session the current run; per run a replay buffer, subscribers, a status, the drain task and the eviction timer | start, stop, subscribe, drain, evict | reconnects while events are published, messages sent faster than replies end, cancellation before the task's first step. A browser gets every event once and in order, replies are written one after the other, streams end, buffers are dropped |
| Telegram inbound, `src/telegram_inbound_ledger.py`, `src/telegram_runtime.py`, `src/telegram_delivery.py` | update ledger, offset, reply rows | claim, store reply, deliver, mark | update processed twice after a crash, reply delivered twice |
| Projection ledger, connector polling | claim rows | claim, complete, fail | same family as the outboxes |
| Agent loop, LLM clients, Life services, web UI, MCP servers, migrations, calls, projects | documents, conversations, domain rows | many | text processing or single-transaction updates |

How they interact: the pollers and the scheduler run as workers of a leadership
role; requests reach proposals and policies through the identity barrier; an
approved email proposal becomes a delivery row that the workers of any replica
drain and whose outcome moves the proposal. A calendar edit becomes a delivery
row in the same transaction, and a pull of the calendar meets those rows. The
scheduler's process also scans for reminders and holds the browser outbox the
note routes write to. They share nothing but rows of the database and, inside a
process, the scheduler's sets; every model below takes rows and transactions,
and for the scheduler the code between two awaits, as its ground.

`PROJECT.json` lists the components with their status and the hazards of the
code, line by line, with the properties that cover each.

## 2. Modules

| Module | Models | State and actions against the code |
|---|---|---|
| `RuntimeLeadership` | the lease row and any number of replicas | `lease` is the row with `expires_at - clock` as ticks left; `pc`, `token`, `worker` the coroutine's suspension point and locals; `call` and `reply` a database call in its thread. `DbAcquire` and `DbRenew` commit, `DbRefresh` reads the token back in a second transaction (`db.refresh`); `DbRelease`, `DbError`. `misread` is history: fences read back by another replica than their holder. Each coroutine action runs from one `await` to the next |
| `FencedLease` | what leadership promises | leader, epoch and liveness of the last grant; per member whether an answer is due, the epoch it was told of and the one it serves in; the epochs that were misheard |
| `RuntimeLeadershipProofs` | - | the inductive invariant, its lemmas, the theorems and the refinement step by step |
| `ActionProposal` | one proposal as a record | per lifecycle function a guard `XOk` and the row `X` it writes; no variables, so that two state machines use it |
| `ActionPolicy` | policies, proposals and audit rows of an owner under concurrent requests | a request decides in one step (lock, read, guards), and writes in another (`Commit`, or `Rollback` when the compare-and-set misses); a policy change is checked against the row as it is (`seen`) and written against the version its client expects; `Call` and `Finish` for the smart home; `Abandon` is a crash or a refused second transaction |
| `SerialActions` | what the policy service promises of proposals | per action its state, the question a human was asked and whether it stands, its record, and how often its device was operated |
| `ActionPolicyProofs` | - | invariants, safety theorems and the refinement step by step |
| `EmailOutbox` | one email with any number of workers | the three rows, and per worker its phase and what its transaction has read. A claim and an outcome are split between reading and writing |
| `ApprovedDelivery` | what the outbox promises | phase of the message, times taken on, copies accepted |
| `EmailOutboxProofs` | - | invariant, theorems and the refinement step by step |
| `CalendarDelivery` | one event, its outbox, any number of workers, the server and a pull | `event`, `row` and `config` are the rows; `worker` is what a drain has read between its transactions; `remote` is the server's copy, with the ETag a conditional request is compared to. `Create` and `Mutate` write the event and enqueue or fold in one step; `Claim`, `Load`, `Send` or `Lose`, `Recheck`, `Record` are a delivery: `Recheck` reads the claim again, `Record` is the rest of that transaction. A pull is `List`, then `Find` and `Ingest` for an event that is listed, or `Missing`, `Verify`, `Reload`, `CancelMissing` for one that is not; it reads the event row in one step and writes it in another. `asked`, `pulled` and `torn` are history |
| `TwoCopies` | what the calendar promises of one event | the two copies, who wrote the server's, whether the user's side knows it, what was asked for in each delivery, which deliveries are open, what the server was last seen to have, and whether a delivery was settled since |
| `CalendarDeliveryProofs` | - | invariants and seven safety theorems |
| `CalendarRefinementProofs` | - | the invariants about texts and the refinement step by step |
| `ReminderDelivery` | one timed occurrence of a note's reminder | `claim`, `tomb`, `outbox` are the rows (`tomb` per store, because who calls without the scheduler reaches the retired files); `who` is each call of `dispatch_reminder`, `acker` an acknowledgement, `editor` each of any number of requests that edit the note, between its two transactions; `torn` and `intent` are history |
| `Alarm` | what a reminder promises | whether it is called off, the messages on their way and those that may still deliver it, whether it has reached its owner, messages sent and owed, whether it is delivered |
| `ReminderDeliveryProofs` | - | invariants, five safety theorems and the refinement step by step |
| `TaskScheduler` | one task in one process | `task` and the `row` of each execution are database rows; `executing`, `handle` and the phase of an execution are the process's memory and are lost in a crash. A cancellation is a mark that the execution meets at its next step |
| `TaskSchedulerProofs` | - | invariant and four safety theorems |
| `AgentRuns` | the detached runs of one chat session and the browsers that watch it | `current` is `_RUNS[session_id]`; `run` holds the task's position in `_drain`, status, buffer length, timer; `client` is a `subscribe` generator with its queue. A step is the code between two awaits; `Leave` is the generator's `finally` |
| `Broadcast` | what detached runs promise their watchers | length of each topic's log and whether it is over; per reader its topic, what it was sent, and whether it was let go |
| `AgentRunsProofs` | - | invariants, five safety theorems and the refinement step by step |
| `MC...` | the instances TLC runs | - |

`EmailOutbox` composes `ActionProposal` with the delivery rows and implements
`ApprovedDelivery` (`ImplementsApprovedDelivery`, under `PhaseOf`);
`RuntimeLeadership` implements `FencedLease` (`ImplementsFencedLease`),
`AgentRuns` implements `Broadcast` (`ImplementsBroadcast`), `ActionPolicy`
implements `SerialActions` (`ImplementsSerialActions`), `CalendarDelivery`
implements `TwoCopies` (`ImplementsTwoCopies`), and `ReminderDelivery`
implements `Alarm` (`ImplementsAlarm`). No step's guard reads a history variable
or field (the comments name them): they are for the mappings and for the
exceptions the properties state. The operator names are the source's names where
TLA+ allows.

What is abstracted, everywhere: payloads, digests of content, owners (all
queries are scoped to one owner), wording of errors, and clocks (an expiry is a
flag or a number of ticks that only time changes). Challenge tokens are the
version and purpose they were issued for: a presented token is any challenge
ever issued. A denied request changes nothing and is not a step.

Operators commented "Mutant" are not part of a model: each is a plausible bug,
and shows that a property would notice it.

## 3. Runs

Each run is one configuration; `PROJECT.json` names its module and properties.
No run lists the type invariant `TypeOK` of its module: it is a theorem of each
(section 6).

| Run | Instance | Checks | Shows |
|---|---|---|---|
| `leadership` (`RuntimeLeadership.cfg`) | 2 replicas, lease of 1 tick, 3 row versions, 1 database fault | `FencesDistinct`, `HandoverAfterWorkerStops`, `CleanExitFreesLease`, `ImplementsFencedLease`, `StaleWorkerStops`, `TakeoverAfterCrash` | fencing, orderly hand-over and clean exit with calls failing before or after their commit, workers ending, shutdowns and crashes at every suspension point, and a lapse with a takeover between a commit and its refresh (the fences so misread are excepted, section 5); a stale worker stops and a dead leader is replaced; the protocol implements `FencedLease` |
| `leadership_shutdown` | 2 replicas, 5 versions, no fault | `CancelledStartsNoWorker` (violated) | finding 1 |
| `policy_shared` (`ActionPolicy_shared.cfg`) | a smart-home action, 2 requests in 2 replicas, 5 proposal and 3 policy versions | `EffectOnce`, `ImplementsSerialActions`, `AgentsNeverLoosen`, `ExecutingResolves` | of requests that race on a version one wins; they implement `SerialActions`, audit rows included; the device is operated at most once per approval; an agent loosens no policy beyond the one its change was checked on, and nothing at all unless it named a version still to come (section 5); a started action is resolved unless its request dies |
| `policy_local` (`ActionPolicy_local.cfg`) | a level 4 and a level 5 calendar action, 2 requests in one process, 7 and 3 versions; requests are interchangeable (symmetry, safety only) | `ConsentedExecution`, `ExecutionRespectsPolicy` | nothing that needs consent runs without a standing approval by a human, and nothing runs that the policy of that moment forbids |
| `outbox` (`EmailOutbox.cfg`) | 2 workers, 2 attempts, lease of 1 tick, 4 claims, 1 crash | `StatesAgree`, `OnlyApprovedIsClaimed`, `OneRecorder`, `SettledIsFinal`, `ImplementsApprovedDelivery`, `NeverForgotten` | the rows agree at every commit, only approved mail is claimed, an outcome is final and no pending mail is forgotten; the outbox implements `ApprovedDelivery` |
| `calendar` (`CalendarDelivery.cfg`) | 2 workers, 3 texts of which one is a remote cancellation, 2 attempts, 3 versions, 2 deliveries, 2 faults, `PromptRecord` | `InOrder`, `TrustedEtag`, `GenerationsCovered`, `ImplementsTwoCopies`, `ForeignKept`, `EditsStand`, `HeadSettles` | deliveries begin in order; outbox and pulls implement `TwoCopies`: what takes effect was asked for and never replaces a later delivery, however late a request; no delivery overwrites another client's change that the event row has not seen; an ETag left with an empty outbox stands for what the row says, unless a pull was torn (section 5); a pull undoes no undelivered edit; the head of the queue is delivered or given up |
| `reminder` (`ReminderDelivery.cfg`) | 2 dispatchers, 2 requests that edit through the routes at once, 2 edits, 2 faults | `CancelHolds`, `AckIsDelivered`, `Acknowledgeable`, `ImplementsAlarm`, `Rings` | a cancelled reminder is quiet whatever was under way, but for a rearm at the same time (section 5); all together are one `Alarm`; an acknowledged notification was a delivered reminder; a claim that waits has its notification; a second message has a cause; a wanted reminder is delivered |
| `reminder_tool` | also edits by the agent's tool, 1 edit, no fault | `CancelHolds` (violated) | finding 2 |
| `scheduler` (`TaskScheduler.cfg`) | 2 executions, 3 disturbances, every kind of task | `OneExecution`, `LedgerSettles`, `RecurringKept`, `DueIsTaken` | one execution at a time and membership of `_executing` neither lost nor left behind; no row of a dead execution says running under a leader; a recurring task always has a next occurrence; a due task is taken |
| `scheduler_deferred` | the same | `BackgroundIsDeferred` (violated) | finding 3 |
| `agent_runs` (`AgentRuns.cfg`) | 2 browsers, 2 runs, 1 event and the 2 of an error | `Faithful`, `OneWriter`, `LastIsReachable`, `ImplementsBroadcast`, `StreamsEnd`, `Evicted` | replay and live stream join without gap or repetition; a stream that ends was whole: the runs implement `Broadcast`; the last reply can be stopped and watched; a second reply waits for the first; a browser is not left waiting on a run that is over, and the buffer is dropped once nobody watches |
| `agent_aborted` | 1 browser, 2 runs | `StreamsUntilEnd` (violated) | finding 4 |

What the bounds leave out. Every bound is a constant named `Max...`, is in a
guard, and is listed in the module's header.

- Leadership: two replicas, because every property relates one replica to the
  row or two replicas to each other, and each can be followed by the other;
  three versions reach a grant, a lapse, a takeover before the grant's token is
  read back, and what the loser then does with it; one fault
  is enough to lose an answer in any call. Three replicas and five versions
  were run for safety without change. The proofs have no such bound.
- Policy: one or two actions and two requests give every race of two decisions
  on one version; seven versions are create, issue, approve, execute and
  complete (two versions in one commit), issue and reverse; three policy
  versions loosen and tighten the domain once around an execution, or let an
  agent name a version that a human's change then reaches.
- Outbox: two workers, two attempts, four claims and one crash let a worker
  crash at every point, a second take over, fail, retry and exhaust the
  attempts. The run also passed with three workers, and with five claims, three
  attempts and two crashes.

- Calendar (`MaxAttempts`, `MaxVersion`, `MaxRows`, `MaxFaults`): two workers
  let one outlive its lease while the other takes over; two deliveries are an
  operation and its successor, the first of which may be a create that takes
  edits; three versions are one edit before and one after a delivery, or an edit
  and a pull; two faults combine any two of a lost request or answer, a listing
  without its ETag, a crash, an overrun lease, another client and a new
  configuration. The proofs have no such bound.
- Reminder (`MaxEdits`, `MaxFaults`): two dispatchers race, or one takes over
  from the other; two edits are a cancel and a rearm, one after the other or at
  once in two requests, or one edit cut short and its repetition; two faults
  kill a dispatcher after each of its steps and let the next one fail. Three
  edits were run with one fault.
- Scheduler (`MaxActs`): two executions because `OneExecution` relates two, and
  a forced run goes beside another; the bound counts everything that users,
  events and failures do, and three of them reach a trigger, its cancellation
  and a third party (failover, pause, a second trigger or a crash) in any order.
  Time is not counted.

- Agent runs: two browsers, because eviction looks for another subscriber, and
  nothing else relates them; two runs give the hand-over and a third adds only
  the case of section 5 that `OneWriter` excepts (safety was also run with three
  runs and one browser).
  Every run publishes up to `MaxEvents` events and the two of an error, so that
  a browser can join, leave and come back between any two of them.

`CHECK_DEADLOCK FALSE` stands in every configuration because the systems may
stop: all replicas have exited, a proposal is settled, an email is delivered or
a bound is reached.

## 4. Fairness

- Leadership: the clock ticks, database calls of live processes end, the
  coroutine is scheduled, and a cancelled worker ends. Not assumed: that a
  worker ends by itself, that a shutdown happens, that a crashed process's call
  still commits, that no fault occurs.
- Policy: a request that has begun takes its next step as long as its process
  lives, and its second transaction does not starve at the auth lock: strong
  fairness of `Finish`, since other requests of the process take and release
  the lock in between, and a `threading` lock lets each waiter through in the
  end. No request has to arrive.
- Outbox: the pollers go round every thirty seconds in every process that runs
  them, the clock ticks and a back-off ends. Nobody has to review or approve.

- Calendar: `calendar_delivery_loop` polls for good, so some worker claims
  what can be claimed, a worker that has claimed goes on until it is done or
  dies, and a lease lapses in time. Edits, pulls, other clients and faults owe
  nothing. The claim is fair for the workers together: a worker that never
  claims again is no harm.
- Reminder: the scanner comes round, a dispatch goes on unless it dies, a lease
  lapses, and a client shows and acknowledges what is queued. The last is an
  assumption about the user: without an open client a browser reminder waits.
- Scheduler: the loop ticks, and an execution proceeds. `DueIsTaken` is
  conditional: once users, events and failures have stopped, this process
  leads, and the foreground is quiet.
- Agent runs: the event loop runs tasks that are ready, timers fire, a browser
  that stays reads on, and a generator that a `CancelledError` was thrown into
  unwinds. Not assumed: that a generator ends by itself, or that anybody sends,
  stops, watches or leaves.

The lease of the outbox is used with an assumption the code does not enforce,
the constant `PromptCommit`: a transaction that has checked its claim commits
before that lease lapses. The worker's lease is 55 minutes
(`email_delivery_worker.py`) and the transaction three row writes, so it is
reasonable; it is a constant because what depends on it should be visible.
Without it `StatesAgree`, `OneRecorder` and `SettledIsFinal` fail: the outcome is
written by primary key, over another worker's claim. What the user is told, the
bound on copies and the refinement do not need it (section 6).

The calendar has the like, `PromptRecord`: no delivery is claimed anew between
the step in which a recording transaction has read its claim and the commit of
that transaction, a few row reads and writes. That the claim was outlived
*before* it is read again is modelled without restriction (`Lapse`, another
`Claim`, and the late worker stops). Nothing enforces the assumption: a failure is
written by primary key (`_fail_delivery`, `_record_delivery_failure`), and one
that `_complete_delivery` raises because its claim is gone is written after the
event row's ETag and commits with it. Without `PromptRecord` such a transaction
closes, or opens again, a delivery that another worker holds or has completed.

## 5. Findings

1. **A swallowed shutdown** (`leadership_shutdown`). A cancellation that arrives
   while the coroutine awaits the worker of a lost lease is taken for the
   worker's own: the replica contends again and starts another worker, and the
   shutdown that awaits the task does not return.
2. **A cancel that reaches the wrong store** (`reminder_tool`). The agent's note
   tool calls `cancel_note_reminder` and `rearm_note_reminder` without the
   scheduler; `_paths` answers with the retired sqlite files, and the SQL rows
   dispatch reads are untouched. `CancelledStaysQuiet` proves the property for
   edits that pass through the routes.
3. **A claimed occurrence that is not deferred** (`scheduler_deferred`). An
   automatic job stopped because the user became active is to be deferred; if
   its `next_run` is already NULL (a one-off that was claimed, an event task)
   no path sets it again, and the task stays active and never runs.
4. **A stream that does not end** (`agent_aborted`). A run cancelled before its
   task reaches the `try` of `_drain` leaves its status at running, puts no
   sentinel and arms no timer: who subscribed to it waits, with heartbeats, for
   good.

What the models also reach, and the properties therefore except or bound:

- two workers of one role overlap: the holder learns of a lapse at its next
  renewal, although the module's docstring says that only the holder of the
  current lease drives the role. `StaleWorkerStops` shows the overlap ends;
- `acquire` and `renew` commit, and then read the row once more for the token
  (`db.refresh`, `distributed_leadership.py` 181 and 221). If the lease has
  lapsed and another replica has taken over in between, the caller is given the
  other's holder, fence and version: it works under that fence, and renews and
  releases that lease. `misread` holds exactly the fences this has happened to,
  and `FencesDistinct`, `HandoverAfterWorkerStops`, `CleanExitFreesLease`,
  `NoUnexpiredTakeover`, `TakeoverAfterCrash` and `FencedLease` except them and
  no others;
- a policy change is checked for loosening on one read of the row
  (`action_policy.py` 649) and compared with its client's version on a second
  (666), and the client may name a version that is not there yet. An agent that
  names one can so undo a tightening by a human made in between, although the
  comment at 650 says that an agent may only tighten; it gets no further than
  the policy it was checked on (`Ahead` in `AgentsNeverLoosen`);
- a transaction that outlives the lease it has checked writes its outcome over
  another worker's claim (`PromptCommit`, `PromptRecord`, section 4);
- a pull reads the event row, and writes the columns that differ later, under
  the row's version; a delivery recorded in between changes the ETag and not the
  version. The row then has the text of the old listing beside the ETag of the
  new copy, so that the next edit replaces a text the row does not show (`torn` in
  `TrustedEtag`, `late` in `TwoCopies`);
- a cancel and a rearm of one reminder at the same time (the note routes are
  sync handlers, run in a thread pool, with no lock and no version): first half
  of the cancel, the rearm, a dispatch that queues, second half of the cancel.
  A notification is then pending after a completed cancel (`alone` and `intent`
  in `CancelHolds`; `Rings` excepts it too);
- three messages sent in a row: the second run is cancelled while it waits for
  the first and ends at once, and the third starts beside the first, which is
  still saving, although the comment of `_drain` calls the saves sequential.
  `OneWriterAtATime` proves that there is no other way;
- an edit made while a create waits for its retry is folded into the create, also
  when an earlier edit was queued behind it while it was being sent: that
  delivery is then of no generation and ends in conflict;
  `GenerationsCovered` excepts it;
- a create whose request was applied and whose answer was lost, cancelled
  before its retry, leaves the event on the server;
- a dispatcher whose claim was taken over can still queue a notification under
  its dead token, and the claim that waits is then not acknowledged by it
  (`late` in `Acknowledgeable` and `Rings`);
- `rearm_note_reminder` is two transactions, and a dispatch between them is
  rearmed away: the reminder is sent twice (`Rearm` pays for it in `Alarm`);
- `stop_task` takes a task out of `_executing` under an execution that still
  unwinds, so that a new one may begin beside it (`dropped` in `OneExecution`);
  and an execution whose row cannot be persisted pops `_task_handles` after
  having put itself there (1062, 1087), so that another's handle is lost and
  `stop_task` no longer reaches it;
- an event trigger that arrives while its task runs is lost, since completion
  writes `next_run` NULL; a one-off whose execution raises stays active with
  `next_run` NULL.

Two facts about proposals the models show and the code does not contradict:
across replicas nothing orders a policy change before an execution that was
checked against the old policy (`ExecutionRespectsPolicy` is therefore checked
for one process), and a smart-home action whose request dies between its two
transactions stays `executing` (`ExecutingResolves` excepts it).

## 6. Proofs

`RuntimeLeadershipProofs`, from `ConstantsAssumption` alone (any set of
replicas, any lease length, any bounds):

| Theorem | Property |
|---|---|
| `TypeCorrect` | `TypeOK` |
| `FencingTokensDistinct` | `FencesDistinct` |
| `HandoverIsOrderly` | `HandoverAfterWorkerStops` |
| `Implements` | `ImplementsFencedLease` |
| `OneServerPerFence` | `Abstract!Exclusive`: one server per fence, the newest one holds the row |
| `UnexpiredLeaseIsKept` | `NoUnexpiredTakeover` |
| `CleanExit` | `CleanExitFreesLease` |

The argument. `FencesDistinct` and `HandoverAfterWorkerStops` are not inductive:
that no release precedes the end of a worker depends on where the coroutine was
when it issued its call, and whose lease a token names depends on what the row
was when the token was read back, which may be after a takeover. `IInv` adds
`HeldRowGranted` (a held row has been granted), `CallOfLocation` (a call in
flight belongs to the suspension point that issued it), `WorkerSupervised` (a
worker runs only under a coroutine that awaits it, and holds a token),
`TokensNamed` (a token names the holder of its fence, and another replica than
the one that knows it only if the fence is in `misread`) and `AnswerHolds` (a
newest token still in flight is the holder's, if not misread). A call whose
fence was not misread finds its own row or none, which is what makes its release
one of its own lease (`MatchesMisread`). There is one lemma per part, and one
for the steps that write the row at all. `UnexpiredLeaseIsKept` is about steps:
besides the actions' guards it needs that who releases or renews another's lease
has misread its fence. `CleanExit` needs what a replica knows of the lease it
has (`LeaseKnown`): as long as no call has failed and the fence was not misread,
a replica with an unexpired lease holds the row's token, is about to observe it,
or is about to release with it, and it has not exited unless its worker failed.

The refinement maps the row to leader, epoch and whether the grant is live, a
refresh that is due to an answer that is due, an answer not yet observed to what
a member has been told, and the token of a running worker to the epoch it serves
in; `misread` to what was misheard. A step of a replica is then a grant, a
renewal, an answer heard or missed, a vacation, a beginning, an end or nothing
(`Steps`, proved apart for the calls and for the coroutine), and `StepMaps`
takes each to its step of `FencedLease`; ticks before the expiry and calls that
change nothing stutter.

`ActionPolicyProofs`, from `ActionPolicyAssumption` (any actions and levels, any
requests and processes, any bounds):

| Theorem | Property |
|---|---|
| `PolicyTypes` | `TypeOK` |
| `Implements` | `ImplementsSerialActions` |
| `CompletedWasOperated` | `Abstract!Truthful`: a device action that is called completed was operated, once |
| `TrailIsHistory` | `AuditIsHistory`: the audit trail is the whole history of a proposal, one row per version |
| `ConsentPrecedes` | `ConsentedExecution` |
| `OperatedOnce` | `EffectOnce` |
| `HumansLoosen` | `AgentsNeverLoosen` |
| `PolicyOfTheMoment` | `ExecutionRespectsPolicy`, when one process serves every request |

The argument. What a proposal and its trail say of each other is `History`, and
`Grows` says which row may follow a row in a commit of a given actor;
`HistoryGrows` is the one lemma about both. A request decides on a row that may
have changed when it writes, so its write is only known to be a legal step as
long as the row is the one it has read (`Sound`), which a commit of another
request ends, because versions only grow (`Behind`). `HumansLoosen` needs of a
policy change that what it writes was checked on `seen`, and that the row still
is `seen` when it is written unless the change was ahead of it (`Drafts`). A
device is operated once because what ran never starts again (`Ran` in `History`)
and a call in flight has a start of its own (`Calls`). `PolicyOfTheMoment` needs
in addition that no two requests are between check and commit (`Ordered`), which
is what the auth lock gives within one process and nothing gives across
replicas.

The refinement says that reading, deciding and writing are as good as one step
at the commit. It forgets requests, versions, digests and policies, and keeps the
audit rows. `Decided` lists what a request may have decided on a row; it holds of
every request whose row is still the one it has read (`Decisions`), so a commit
takes the step of `SerialActions` that the row allows now (`CommitMaps`). One
thing may have changed under the same version: `expires_at` may have passed. The
code does not look again, so to the abstract specification a challenge or an
approval stands as long as a request that has seen it in time may still commit
(`DecidedInTime`), and expires when the last such request leaves. For devices,
`Carried` says that from the start of an action to the record of its outcome one
request carries it and nobody else touches the row; hence what is completed was
operated.

`EmailOutboxProofs`, from `EmailOutboxAssumption` (any set of workers, finite or
not; any number of attempts, claims and crashes); the theorems marked with a star
also assume `PromptCommit`:

| Theorem | Property |
|---|---|
| `TypeCorrect` | `TypeOK` |
| `OnlyApproved` | `OnlyApprovedIsClaimed` |
| `Implements` | `ImplementsApprovedDelivery` |
| `ToldTheTruth`, `ToldForGood` | `ToldTruly`, `ToldOnce`: what the user was told is true and final |
| `RowsAgree` * | `StatesAgree` |
| `OnlyOneRecorder` * | `OneRecorder` |
| `OutcomeIsFinal` * | `SettledIsFinal` |

The argument. There are two invariants. `UInv` (`FencesInvariant`) rests on the
fences of the rows alone and holds however long a transaction takes: the
proposal leaves "executing" once, by a compare-and-set, and the draft is written
in the same transaction (`DraftFollows`); `Reviewed` carries the approval from
the proposal to the queue and from there to the claims; a claim's token is its
own, and a worker reports "delivered" only after it sent (`TokensDistinct`);
`CopiesCounted` counts the workers that still carry a copy, which bounds the
copies sent, with the cardinality lemmas of `FiniteSetTheorems`. So whatever the
delivery row suffers from a late transaction, proposal and draft tell the user
one outcome, once, and "delivered" of a message that left.

`IInv` adds what keeps the delivery row in step with them. A worker about to
write still holds its claim (`WritersHold`), because a claim could be taken from
it only by a worker that read the row after the lease lapsed (`ReadersBehind`: a
reading is behind the row's version, or of a row that is queued, waiting for a
retry, or claimed with its lease lapsed), because two workers never have the
same token, and because the clock waits for the write, which is where
`PromptCommit` is used, and only there (`WritersStep`).

The refinement maps the message's phase to its draft; preparing, deciding,
claiming, sending and writing map to the steps of `ApprovedDelivery`, every other
step to a stutter. Without `PromptCommit` the abstract message may be taken on
again after it was settled (`Late`), and nothing else changes. TLC checks the
invariants' parts on small instances before they are proved: those that are
properties in the runs above, the others once, by a run that is not kept; the
refinement was also checked with `PromptCommit` false.

`CalendarDeliveryProofs`, from `CalendarDeliveryAssumption` (any set of workers
and of texts, any bounds) and `PromptRecord`:

| Theorem | Property |
|---|---|
| `CalendarTypes` | `TypeOK` |
| `DeliveredInOrder` | `InOrder` |
| `LaterDeliveryStands` | `QueueOrder`, which `ImplementsTwoCopies` contains |
| `ForeignChangeStands` | `ForeignKept` |
| `LastEditStands` | `EditsStand` |
| `EveryGenerationIsCovered` | `GenerationsCovered` |
| `EtagIsTrusted` | `TrustedEtag` |
| `CalendarRefinementProofs`!`Implements` | `ImplementsTwoCopies` |

The argument. A request that has left its transaction cannot be called back, so
what protects the server is the ETag it carries. `SeenKept` says that a request
which would be accepted still has the event row's ETag, that its delivery is
open, and that an earlier delivery or another client wrote the server's copy. It
rests on who may change the event row's ETag: only the holder of the claim
(`HolderSees`, with distinct `Tokens`, and `NewsKept` for what it is about to
record; `Held`, from `PromptRecord`, says that who has rechecked its claim still
has it), and a pull only when no delivery is open; on a delivery whose ETag the
event row has being closed (`KnownClosed`); and on ETags never being given out
twice (`Bounds`). `Creates` is why a delete or an update that finds no ETag is
the first to speak to the server. `LastEdit` says that a version no pull wrote
has a delivery of its generation, which `EditsStand` then finds closed.
`GenerationsCovered` is nearly inductive (`Gens`: no delivery is ahead of the
event, and only the first is a create that can take a later edit over).
`TrustedEtag` is not: what an ETag stands for passes from the event row through
the delivery (`RowSays`), its holder's request (`HolderSays`) and the server's
answer (`AnswerStands`), or through a pull's listing (`ListingStands`), before
it is recorded. `OldStands` says what a pull has read of the event row is still
true when it writes, the ETag excepted: where that has moved, the write is
`torn`.

The refinement needs to know, besides, that texts come from the user: an open
delivery carries what was asked last (`RowAsked`), a request in flight something
that was asked for in its delivery, though a later edit may have been folded in
since (`SentAsked`), and a copy without an ETag says nothing (`CopySays`). An
accepted request maps to `Write`, whether its answer arrives or not; a request
that finds its text there, or nothing to delete, to `See`; the transaction that
records success to `Settle`, which is `late` for a pull that has read the row; a
lease that lapses or a worker that dies to `Forget`; what a pull lists to `Look`
and what it writes to `Pull`; claims, snapshots, conflicts and retries to
stutters. `SeenKept` is what makes an accepted request a `Write`, and
`TrustedEtag` is why settling or pulling leaves the two copies equal where the
ETag says they are.

`ReminderDeliveryProofs`, from `ReminderDeliveryAssumption`:

| Theorem | Property |
|---|---|
| `ReminderTypes` | `TypeOK` |
| `AckMeansDelivered` | `AckIsDelivered` |
| `CancelledStaysQuiet` | `CancelHolds`, when the tool is not among the callers |
| `WaitingCanBeAcknowledged` | `Acknowledgeable`, with the same assumption |
| `EachMessageIsPaid` | `SentOnce`, which `ImplementsAlarm` contains |
| `Implements` | `ImplementsAlarm`, when the tool is not among the callers |

The argument. A notification's identity is the token it was first queued under,
so tokens below `claims` never come again, and what an acknowledgement has read
still says which claim it settles. A cancel that has begun, and beside which no
rearm ran, has its tombstone and no notification waits (`CancelUnderWay`, over
all requests that are editing); one that has ended has no open claim either
(`CancelDone`); no step but a rearm lifts a tombstone, and while either holds
no rearm is under way. The assumption on the callers is
necessary: run `reminder_tool` violates the property without it. `SentOnce`
needs no assumption, and two counts: messages sent and tokens that may still
send are no more than the claims (`OncePerToken`), and each claim but the first
is paid for, the next one in advance unless there can be none (`ClaimsPaid`).

The refinement maps a checked message to `Start`, its departure to `Ring`, an
acknowledgement that is read to `Show`, and whichever of dispatcher and client
settles the claim to `Deliver`. Only the token of a claim decides what counts: a
message that left under an earlier claim rings, but delivers nothing, and what a
client read before a cancel does not deliver what was rearmed since. `Known`
says that a token a client read has been given out, so that a new claim starts
unheard; `CancelDone` that nothing is started, shown or delivered while the
reminder is called off; `SentOnce`, in the next state, that a message that rings
was owed.

`TaskSchedulerProofs`, from `TaskSchedulerAssumption`:

| Theorem | Property |
|---|---|
| `TypeCorrect` | `TypeOK` |
| `OnlyOneExecution` | `OneExecution` |
| `LedgerIsSettled` | `LedgerSettles` |
| `RecurringStays` | `RecurringKept` |

The argument. Every step is of one kind (`StepKind`: it leaves the executions
alone, begins one, moves one, ends one, cancels, recovers the ledger, or kills
the process), and each property is preserved by each kind. What they need of the
executions is in `EndsSettled` (an execution about to end has a row that is
settled already), `IdleIsBlank` and `HandleIsLive`.

`AgentRunsProofs`, from `AgentRunsAssumption` (any browsers, runs, events):

| Theorem | Property |
|---|---|
| `RunsTypes` | `TypeOK` |
| `FaithfulStreams` | `Faithful` |
| `OneWriterAtATime` | `OneWriter` |
| `LastStaysReachable` | `LastIsReachable` |
| `Implements` | `ImplementsBroadcast` |
| `StreamsEndWhole` | `EndedWhole`: a stream that ends by itself has sent the whole of a run that is over |

The argument. What a stream has still to send is in two places, the buffer and
its queue, and they agree: `Pending` says a subscriber's queue holds the last
events of its run, as many as were published since it registered, and the
sentinel if the run has ended. A stream that has gone live has no gap before its
queue, so skipping what is not newer drops only repetitions. For the writers,
`InvOrder` says that a run drains only after all earlier ones have ended, unless
one was aborted.

The refinement hides tasks, buffers, queues and timers: a log is the length of a
run's buffer and is over when the run has ended by itself (an aborted one never
is, and its readers stay). The drain's steps are a publication or an end
(`RunMaps`), those of a stream a delivery, a release, a departure or nothing
(`ServeMaps`); that a delivered event is the next one, and that a stream is
released only with the whole log, is where `Pending` is needed. What is put into
the queues is seen by nobody yet (`PutIsUnseen`). A run that is not started must
have an empty buffer (`UnbornBlank`).

Lemmas are stated once per idea: what a record constructor returns
(`ProposalTypes`, `ProposalFields`, `WrittenFields`), which steps write a row
(`OnlyTheseWriteTheRow`), which worker a step moves and to which phase
(`WorkersMoveAlone`, `PhaseAfter`).

## 7. Only model-checked

Liveness (`StaleWorkerStops`, `TakeoverAfterCrash`, `ExecutingResolves`,
`NeverForgotten`, `HeadSettles`, `Rings`, `DueIsTaken`, `StreamsEnd`, `Evicted`)
is out of the prover's reach, as is anything with ENABLED. Every other property
of the passing runs is proved, under the assumptions its row in section 6 names:
`ConstantsAssumption` and its like, `PromptCommit` for what the outbox's rows
say of each other, `PromptRecord` for the calendar, one process for
`ExecutionRespectsPolicy`, edits by the routes alone for `CancelHolds`,
`Acknowledgeable` and `ImplementsAlarm`. What happens without them only TLC
shows.

## 8. Plan

Done: `RuntimeLeadership` with `FencedLease`, `ActionProposal`, `ActionPolicy`
with `SerialActions`, `EmailOutbox` with `ApprovedDelivery`, `CalendarDelivery`
with `TwoCopies`, `ReminderDelivery` with `Alarm`, `TaskScheduler`, `AgentRuns`
with `Broadcast`, and their proofs.

What is left, the most important first:

1. The scheduler's own acquisition loop (`start`, `_leadership_loop`, `stop`)
   over the database actions of `RuntimeLeadership`, composed with
   `TaskScheduler`'s `StartLeader` and `LoseLeadership`.
2. Contact delivery, against the same properties as `CalendarDelivery`.
3. The manual email queue of `email_runtime_authority.py`, and the claims of the
   projection ledger and of connector polling.
4. Telegram: the polling offset, reply delivery, and the per-chat reminder claims.

## 9. Not modelled, and why

Text processing (agent loop, LLM clients, parsers, prompts), the web interface,
pure input and output (backups, uploads, CalDAV and IMAP wire formats),
start-up and migrations: what can go wrong there is in data, not in the order
of steps. The Life services write versioned rows in one transaction each, with
the compare-and-set `ActionPolicy` models. One-time imports of legacy files run
before the protocols they feed.

Inside the components that are modelled:

- Calendar: moves between calendars, collection create and delete, idempotent
  replays of a request, the delay before a retry (a retry is due at once), and
  the legacy `caldav_sync_pending` mark, which no code sets any more. An event's
  fields are one text.
- Reminder: quiet hours and disabled topics, the per-chat claims of Telegram,
  occurrences without a date, a change of the channel while an occurrence is
  due, and the JSON cache of recent pings, which only suppresses what was sent.
- Scheduler: edits of a schedule while an execution holds the row it loaded (its
  ORM session writes `next_run` over them), the admin-only check, chains (run as
  by `run_task_now`), the optional maximum wait at the quiet gate
  (`BACKGROUND_TASK_MAX_WAIT_SECONDS`, none by default), other tasks beyond
  leaving the model slot in the end, and database errors inside an execution
  with the transaction that repairs a failed commit. The files of tasks' output
  are text.
- Agent runs: the text of events, heartbeats, sessions beside each other (they
  share nothing but the table), and of `chat_routes.py` only that it starts,
  stops and subscribes. The job table of background jobs and the life cycle of
  model servers are other components.
