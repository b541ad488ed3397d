------------------------- MODULE RuntimeLeadership -------------------------
(***************************************************************************)
(* Database-fenced leadership of one singleton role in shared mode:        *)
(* RuntimeLeadershipAuthority (acquire, renew, release) and the coroutine  *)
(* run_database_leased_worker that every web replica runs around a worker. *)
(*                                                                         *)
(* A replica is one invocation of run_database_leased_worker: its holder   *)
(* id is a fresh uuid, so a restarted process is another replica.  Each    *)
(* database call runs in a thread, so its commit is a step apart from the  *)
(* coroutine that observes the answer; cancellation, faults and crashes    *)
(* fall between the two.  A grant or a renewal is committed first, and its *)
(* token is read back from the row in a transaction of its own: when the   *)
(* lease lapses in between, the token may be the next holder's.            *)
(*                                                                         *)
(* Abstracted: expires_at - clock is the number of ticks left, the missing *)
(* row is fence 0 and version 0 (the code's first insert writes 1 and 1,   *)
(* and its loser retries and sees the winner), and the poll sleep is the   *)
(* time a replica spends in "standby" or "leading".                        *)
(***************************************************************************)
EXTENDS Integers

CONSTANTS
  Replica,      \* invocations of run_database_leased_worker
  NoHolder,     \* holder_id NULL
  LeaseTicks,   \* lease_seconds, in clock ticks
  MaxVersion,   \* bound on the row version: no grant or renewal beyond it
  MaxFaults     \* bound on the database errors of a behaviour

ASSUME ConstantsAssumption ==
  /\ NoHolder \notin Replica
  /\ LeaseTicks \in Nat \ {0}
  /\ MaxVersion \in Nat
  /\ MaxFaults \in Nat

VARIABLES
  lease,     \* the runtime_worker_leases row
  pc,        \* where the coroutine is suspended
  token,     \* its local RuntimeLeadershipToken, NoToken for None
  worker,    \* the state of its worker task
  call,      \* its database call: not issued, in a thread, or answered
  reply,     \* the answer of that call
  cancel,    \* the cancellation of the coroutine by the shutdown
  faults,    \* database errors so far
  misread    \* history: the fences read back by a replica that is not their
             \* holder, after its own lease had lapsed

vars == <<lease, pc, token, worker, call, reply, cancel, faults, misread>>

NoToken == [holder |-> NoHolder, fence |-> 0, version |-> 0]
Failed  == [holder |-> NoHolder, fence |-> -1, version |-> 0]   \* it raised
Token   == [holder : Replica, fence : Nat \ {0}, version : Nat \ {0}]

Row == [holder : Replica \union {NoHolder}, fence : Nat, version : Nat,
        remaining : 0 .. LeaseTicks]

Gone == {"exited", "crashed"}
PC   == {"standby", "acquiring", "leading", "renewing", "losing",
         "yielding", "closing", "releasing"} \union Gone
WorkerState == {"none", "running", "cancelling", "returned", "failed"}
Cancellation == {"none", "delivered", "swallowed"}
CallState   == {"idle", "acquire", "renew", "release", "refresh", "answered"}

TypeOK ==
  /\ lease \in Row
  /\ pc \in [Replica -> PC]
  /\ token \in [Replica -> Token \union {NoToken}]
  /\ worker \in [Replica -> WorkerState]
  /\ call \in [Replica -> CallState]
  /\ reply \in [Replica -> Token \union {NoToken, Failed}]
  /\ cancel \in [Replica -> Cancellation]
  /\ faults \in 0 .. MaxFaults
  /\ misread \in SUBSET Nat

Init ==
  /\ lease = [holder |-> NoHolder, fence |-> 0, version |-> 0, remaining |-> 0]
  /\ pc = [r \in Replica |-> "standby"]
  /\ token = [r \in Replica |-> NoToken]
  /\ worker = [r \in Replica |-> "none"]
  /\ call = [r \in Replica |-> "idle"]
  /\ reply = [r \in Replica |-> NoToken]
  /\ cancel = [r \in Replica |-> "none"]
  /\ faults = 0
  /\ misread = {}

Active(r)  == worker[r] \in {"running", "cancelling"}
AtBound    == lease.version >= MaxVersion
RowToken   == [holder |-> lease.holder, fence |-> lease.fence,
               version |-> lease.version]

-----------------------------------------------------------------------------
(* The database: one serialized transaction per call, on the database clock *)

\* Mutants: the expiry is one tick early; or it is not looked at.
AvailableEarly(r)   == lease.holder \in {NoHolder, r} \/ lease.remaining <= 1
AvailableIfFreed(r) == lease.holder \in {NoHolder, r}

\* A holder keeps the row until it releases it or the database clock reaches
\* the expiry; the same holder may always acquire again.
Available(r) == lease.holder \in {NoHolder, r} \/ lease.remaining = 0

\* The row still is the one the token was issued for: renew and release
\* compare the holder named in the token, not the caller.
Matches(r) == lease.holder # NoHolder /\ RowToken = token[r]

Renewable(r) == Matches(r) /\ lease.remaining > 0

\* Mutant: a takeover keeps the fence.
GrantedSameFence(r) == [holder |-> r, fence |-> IF lease.fence = 0 THEN 1 ELSE lease.fence,
                        version |-> lease.version + 1, remaining |-> LeaseTicks]

Granted(r) == [holder |-> r, fence |-> lease.fence + 1,
               version |-> lease.version + 1, remaining |-> LeaseTicks]

Extended == [holder |-> lease.holder, fence |-> lease.fence,
             version |-> lease.version + 1, remaining |-> LeaseTicks]

Freed == [holder |-> NoHolder, fence |-> lease.fence,
          version |-> lease.version + 1, remaining |-> 0]

\* The thread ends without a token, or with an error raised in its place
\* (the connection fails once the row has changed).
AnswerNone(r) ==
  /\ call' = [call EXCEPT ![r] = "answered"]
  /\ \/ reply' = [reply EXCEPT ![r] = NoToken] /\ UNCHANGED faults
     \/ /\ faults < MaxFaults
        /\ reply' = [reply EXCEPT ![r] = Failed]
        /\ faults' = faults + 1

\* The grant or renewal is committed; the token is yet to be read back.
Committed(r) == call' = [call EXCEPT ![r] = "refresh"] /\ UNCHANGED <<reply, faults>>

DbAcquire(r) ==
  /\ call[r] = "acquire"
  /\ \/ Available(r) /\ ~AtBound /\ lease' = Granted(r) /\ Committed(r)
     \/ ~Available(r) /\ AnswerNone(r) /\ UNCHANGED lease
  /\ UNCHANGED <<pc, token, worker, cancel, misread>>

DbRenew(r) ==
  /\ call[r] = "renew"
  /\ \/ Renewable(r) /\ ~AtBound /\ lease' = Extended /\ Committed(r)
     \/ ~Renewable(r) /\ AnswerNone(r) /\ UNCHANGED lease
  /\ UNCHANGED <<pc, token, worker, cancel, misread>>

DbRelease(r) ==
  /\ call[r] = "release"
  /\ AnswerNone(r)
  /\ lease' = IF Matches(r) THEN Freed ELSE lease
  /\ UNCHANGED <<pc, token, worker, cancel, misread>>

\* db.refresh after the commit: the answer is the token of whoever holds the
\* row by now; a row that was freed meanwhile is malformed, and raises.
DbRefresh(r) ==
  /\ call[r] = "refresh" /\ pc[r] # "crashed"
  /\ call' = [call EXCEPT ![r] = "answered"]
  /\ reply' = [reply EXCEPT ![r] = IF lease.holder = NoHolder THEN Failed ELSE RowToken]
  /\ misread' = IF lease.holder \in {r, NoHolder} THEN misread
                ELSE misread \union {lease.fence}
  /\ UNCHANGED <<lease, pc, token, worker, cancel, faults>>

\* The call fails before it commits anything, or in its refresh.
DbError(r) ==
  /\ call[r] \in {"acquire", "renew", "release", "refresh"}
  /\ faults < MaxFaults
  /\ faults' = faults + 1
  /\ call' = [call EXCEPT ![r] = "answered"]
  /\ reply' = [reply EXCEPT ![r] = Failed]
  /\ UNCHANGED <<lease, pc, token, worker, cancel, misread>>

Tick ==
  /\ lease.remaining > 0
  /\ lease' = [lease EXCEPT !.remaining = @ - 1]
  /\ UNCHANGED <<pc, token, worker, call, reply, cancel, faults, misread>>

-----------------------------------------------------------------------------
(* The coroutine *)

Goto(r, where) == pc' = [pc EXCEPT ![r] = where]
Issue(r, op)   == call' = [call EXCEPT ![r] = op]
\* Once looked at, an answer is forgotten.
Looked(r)      == reply' = [reply EXCEPT ![r] = NoToken]
Returned(r)    == call[r] = "answered" /\ call' = [call EXCEPT ![r] = "idle"] /\ Looked(r)

\* Top of the loop without a token.
Contend(r) ==
  /\ pc[r] = "standby"
  /\ Goto(r, "acquiring") /\ Issue(r, "acquire")
  /\ UNCHANGED <<lease, token, worker, reply, cancel, faults, misread>>

\* acquire answered: lead, or poll again.  An error counts as no token.
Acquired(r) ==
  /\ pc[r] = "acquiring" /\ cancel[r] # "delivered" /\ Returned(r)
  /\ \/ /\ reply[r] \in Token
        /\ token' = [token EXCEPT ![r] = reply[r]]
        /\ worker' = [worker EXCEPT ![r] = "running"]
        /\ Goto(r, "leading")
     \/ reply[r] \notin Token /\ Goto(r, "standby") /\ UNCHANGED <<token, worker>>
  /\ UNCHANGED <<lease, cancel, faults, misread>>

\* Mutant: the cancelled acquisition is not looked at.
AcquiredIgnored(r) ==
  /\ pc[r] = "acquiring" /\ cancel[r] = "delivered" /\ Returned(r)
  /\ Goto(r, "exited")
  /\ UNCHANGED <<lease, token, worker, cancel, faults, misread>>

\* acquire answered after a cancellation: a lease just won is released.
AcquiredCancelled(r) ==
  /\ pc[r] = "acquiring" /\ cancel[r] = "delivered" /\ call[r] = "answered" /\ Looked(r)
  /\ \/ /\ reply[r] \in Token
        /\ token' = [token EXCEPT ![r] = reply[r]]
        /\ Issue(r, "release") /\ Goto(r, "releasing")
     \/ /\ reply[r] \notin Token
        /\ Issue(r, "idle") /\ Goto(r, "exited")
        /\ UNCHANGED token
  /\ UNCHANGED <<lease, worker, cancel, faults, misread>>

\* asyncio.wait times out with the worker still running.
PollRenew(r) ==
  /\ pc[r] = "leading" /\ worker[r] = "running"
  /\ Goto(r, "renewing") /\ Issue(r, "renew")
  /\ UNCHANGED <<lease, token, worker, reply, cancel, faults, misread>>

\* asyncio.wait reports the worker done.  A worker that returned yields the
\* lease and the replica polls again; its exception propagates to finally.
WorkerDone(r) ==
  /\ pc[r] = "leading"
  /\ \/ worker[r] = "returned" /\ Goto(r, "yielding")
     \/ worker[r] = "failed" /\ Goto(r, "releasing")
  /\ Issue(r, "release")
  /\ UNCHANGED <<lease, token, worker, reply, cancel, faults, misread>>

\* The release after a returned worker: its own error reaches finally, which
\* releases once more and leaves the loop for good.
Yielded(r) ==
  /\ pc[r] = "yielding" /\ call[r] = "answered" /\ Looked(r)
  /\ \/ /\ reply[r] # Failed
        /\ Goto(r, "standby") /\ Issue(r, "idle")
        /\ token' = [token EXCEPT ![r] = NoToken]
        /\ worker' = [worker EXCEPT ![r] = "none"]
     \/ /\ reply[r] = Failed
        /\ Goto(r, "releasing") /\ Issue(r, "release")
        /\ UNCHANGED <<token, worker>>
  /\ UNCHANGED <<lease, cancel, faults, misread>>

\* worker.cancel() reaches a task that is still running.
CancelWorker(r) ==
  worker' = [worker EXCEPT ![r] = IF @ = "running" THEN "cancelling" ELSE @]

\* Mutant: a renewal without a token is tried again.
RenewedAnyway(r) ==
  /\ pc[r] = "renewing" /\ cancel[r] # "delivered" /\ Returned(r)
  /\ Goto(r, "leading")
  /\ token' = [token EXCEPT ![r] = IF reply[r] \in Token THEN reply[r] ELSE @]
  /\ UNCHANGED <<lease, worker, cancel, faults, misread>>

Renewed(r) ==
  /\ pc[r] = "renewing" /\ cancel[r] # "delivered" /\ Returned(r)
  /\ \/ /\ reply[r] \in Token
        /\ token' = [token EXCEPT ![r] = reply[r]]
        /\ Goto(r, "leading") /\ UNCHANGED worker
     \/ /\ reply[r] \notin Token
        /\ CancelWorker(r) /\ Goto(r, "losing") /\ UNCHANGED token
  /\ UNCHANGED <<lease, cancel, faults, misread>>

\* Mutant: release first, the worker ends by itself.
FinallyReleases(r) == UNCHANGED worker /\ Goto(r, "releasing") /\ Issue(r, "release")

\* The finally block: cancel a live worker and wait for it, then release.
Finally(r) ==
  IF worker[r] = "running"
    THEN CancelWorker(r) /\ Goto(r, "closing") /\ Issue(r, "idle")
    ELSE UNCHANGED worker /\ Goto(r, "releasing") /\ Issue(r, "release")

\* renew answered after a cancellation: the newest version is what finally
\* has to release.
RenewedCancelled(r) ==
  /\ pc[r] = "renewing" /\ cancel[r] = "delivered" /\ call[r] = "answered" /\ Looked(r)
  /\ token' = [token EXCEPT ![r] = IF reply[r] \in Token THEN reply[r] ELSE @]
  /\ Finally(r)
  /\ UNCHANGED <<lease, cancel, faults, misread>>

\* The cancelled worker has ended after a lost lease: back to standby, even
\* when a cancellation of the coroutine arrived meanwhile (the except clause
\* that expects the worker's CancelledError takes it).
Lost(r) ==
  /\ pc[r] = "losing" /\ ~Active(r)
  /\ \/ /\ worker[r] = "returned"
        /\ token' = [token EXCEPT ![r] = NoToken]
        /\ worker' = [worker EXCEPT ![r] = "none"]
        /\ Goto(r, "standby") /\ UNCHANGED call
     \/ /\ worker[r] = "failed"
        /\ Goto(r, "releasing") /\ Issue(r, "release")
        /\ UNCHANGED <<token, worker>>
  /\ UNCHANGED <<lease, reply, cancel, faults, misread>>

\* finally awaits the worker; an error of the worker's cleanup skips release.
Closed(r) ==
  /\ pc[r] = "closing"
  /\ \/ worker[r] = "returned" /\ Goto(r, "releasing") /\ Issue(r, "release")
     \/ worker[r] = "failed" /\ Goto(r, "exited") /\ UNCHANGED call
  /\ UNCHANGED <<lease, token, worker, reply, cancel, faults, misread>>

Released(r) ==
  /\ pc[r] = "releasing" /\ Returned(r)
  /\ Goto(r, "exited")
  /\ UNCHANGED <<lease, token, worker, cancel, faults, misread>>

-----------------------------------------------------------------------------
(* The worker task, cancellation and crashes *)

WorkerEnds(r) ==
  /\ Active(r)
  /\ \E end \in {"returned", "failed"} : worker' = [worker EXCEPT ![r] = end]
  /\ UNCHANGED <<lease, pc, token, call, reply, cancel, faults, misread>>

\* Application shutdown cancels the task, once.  What it interrupts depends
\* on the await it arrives at; the two shielded calls are observed first.
Cancel(r) ==
  /\ cancel[r] = "none" /\ pc[r] \notin Gone
  /\ cancel' = [cancel EXCEPT ![r] =
                  IF pc[r] = "losing" THEN "swallowed" ELSE "delivered"]
  /\ \/ pc[r] = "standby" /\ Goto(r, "exited") /\ UNCHANGED <<worker, call>>
     \/ pc[r] \in {"leading", "yielding"} /\ Finally(r)
     \/ pc[r] \in {"acquiring", "renewing"} /\ UNCHANGED <<pc, worker, call>>
     \/ /\ pc[r] = "losing"      \* hides a failure not yet observed
        /\ worker' = [worker EXCEPT ![r] = IF @ = "failed" THEN "returned" ELSE @]
        /\ UNCHANGED <<pc, call>>
     \/ pc[r] = "releasing" /\ Goto(r, "exited") /\ UNCHANGED <<worker, call>>
  /\ UNCHANGED <<lease, token, reply, faults, misread>>

\* The process dies; a call already in flight may still commit.
Crash(r) ==
  /\ pc[r] \notin Gone
  /\ Goto(r, "crashed")
  /\ worker' = [worker EXCEPT ![r] = "none"]
  /\ cancel' = [cancel EXCEPT ![r] = "none"]
  /\ UNCHANGED <<lease, token, call, reply, faults, misread>>

DbStep(r) == DbAcquire(r) \/ DbRenew(r) \/ DbRelease(r) \/ DbRefresh(r)

Coroutine(r) ==
  \/ Contend(r) \/ Acquired(r) \/ AcquiredCancelled(r)
  \/ PollRenew(r) \/ WorkerDone(r) \/ Yielded(r)
  \/ Renewed(r) \/ RenewedCancelled(r) \/ Lost(r)
  \/ Closed(r) \/ Released(r)

Next ==
  \/ Tick
  \/ \E r \in Replica :
       \/ DbStep(r) \/ DbError(r) \/ Coroutine(r)
       \/ WorkerEnds(r) \/ Cancel(r) \/ Crash(r)

\* The clock runs; threads and the event loop of a live process are scheduled;
\* a cancelled worker ends.  Nothing forces a worker to return by itself, a
\* shutdown, an error or a crash.
Fairness ==
  /\ WF_vars(Tick)
  /\ \A r \in Replica :
       /\ WF_vars(pc[r] # "crashed" /\ DbStep(r))
       /\ WF_vars(Coroutine(r))
       /\ WF_vars(worker[r] = "cancelling" /\ WorkerEnds(r))

Spec == Init /\ [][Next]_vars
FairSpec == Spec /\ Fairness

-----------------------------------------------------------------------------
(* Properties *)

Stale(r) == token[r] # NoToken /\ token[r].fence < lease.fence

\* The fencing tokens replicas act under are distinct, and a token a replica
\* has been given but not yet seen is distinct from every other's: no two
\* invocations can both pass a check against the row.  The one exception is a
\* fence that was read back by another replica than its holder.
Known(r) == {token[r]} \union (IF call[r] = "answered" THEN {reply[r]} ELSE {})

FencesDistinct ==
  \A r, s \in Replica :
    \A a \in Known(r) \intersect Token, b \in Known(s) \intersect Token :
      /\ a.fence <= lease.fence
      /\ r # s /\ a.fence \notin misread => a.fence # b.fence

\* The row is never handed over by a release while the worker that holds it
\* still runs: until another acquisition, which needs the lease to lapse, the
\* row stays held.  Losing, yielding and finally all stop the worker first.
\* Whoever misread a fence can release it, so those fences are excepted.
HandoverAfterWorkerStops ==
  \A r \in Replica :
    Active(r) /\ ~Stale(r) /\ token[r].fence \notin misread => lease.holder = r

\* After a shutdown without a database error, and whose worker did not fail
\* in its cleanup, a standby need not wait for the expiry: the row is not under
\* a live lease of the replica that left, wherever the cancellation caught it.
\* Whoever misread its fence can renew it, and then its release finds nothing.
LeftCleanly(r) ==
  pc[r] = "exited" /\ call[r] = "idle" /\ faults = 0 /\ worker[r] # "failed"

CleanExitFreesLease ==
  \A r \in Replica :
    LeftCleanly(r) /\ lease.fence \notin misread
      => ~(lease.holder = r /\ lease.remaining > 0)

\* The holder of an unexpired lease changes only by that holder's own release;
\* no renewal, release or acquisition of a paused former holder touches it,
\* but for one that has misread the lease's fence.
NoUnexpiredTakeover ==
  [][ \A r \in Replica :
        lease.holder = r /\ lease.remaining > 0 /\ lease' # lease
          => \/ lease'.holder = r /\ lease'.fence >= lease.fence
             \/ lease'.holder = NoHolder
                  /\ (call[r] = "release" \/ lease.fence \in misread) ]_vars

\* Whether the answer to a grant or renewal is due, the fence it has brought
\* and the coroutine has not looked at, and the fence the worker runs under.
Told(r)    == IF /\ pc[r] \in {"acquiring", "renewing"}
                 /\ call[r] = "answered" /\ reply[r] \in Token
                THEN reply[r].fence ELSE 0
Serving(r) == IF Active(r) THEN token[r].fence ELSE 0

DueAll     == [r \in Replica |-> call[r] = "refresh"]
ToldAll    == [r \in Replica |-> Told(r)]
ServingAll == [r \in Replica |-> Serving(r)]
Live       == lease.remaining > 0

Abstract == INSTANCE FencedLease
              WITH Member <- Replica, Nobody <- NoHolder,
                   leader <- lease.holder, epoch <- lease.fence, live <- Live,
                   due <- DueAll, told <- ToldAll, serving <- ServingAll,
                   misheard <- misread

\* Row, calls, answers and coroutines together are a FencedLease: a live lease
\* leaves its holder only by a release after its worker has stopped; a fence
\* is worked under by the one replica it was granted to, whatever is cancelled,
\* fails, is answered late or is lost; and a fence another replica misread, the
\* only one for which neither holds, was read by a replica whose own grant or
\* renewal had been superseded before its answer was read back.
ImplementsFencedLease == Abstract!Spec

\* A fenced-out leader finds out and stops its worker: no replica works under
\* a superseded fence for good.
StaleWorkerStops == \A r \in Replica : []<>~(Stale(r) /\ Active(r))

\* A role is not lost with the process that led it: while another replica
\* contends, the row does not stay with a crashed holder (or the bound is hit, or
\* a replica that misread its fence renews it on).
TakeoverAfterCrash ==
  \A r \in Replica :
    []<>( \/ ~(pc[r] = "crashed" /\ lease.holder = r)
          \/ AtBound
          \/ lease.fence \in misread
          \/ \A s \in Replica : pc[s] \in Gone)

\* Shutdown cancels every startup task and waits for them before it tears
\* down "the services they can call" (app.py:1901-1910): a cancelled replica
\* starts no new worker.
CancelledStartsNoWorker ==
  [][ \A r \in Replica :
        cancel[r] # "none" => ~(worker[r] = "none" /\ worker'[r] = "running") ]_vars

=============================================================================
