---------------------- MODULE RuntimeLeadershipProofs ----------------------
(***************************************************************************)
(* What holds of RuntimeLeadership for every number of replicas, lease     *)
(* length and bound.  The inductive invariant relates each coroutine's     *)
(* location to its database call and its worker, and each token a replica  *)
(* has been given, its own or one it misread, to the row.                  *)
(***************************************************************************)
EXTENDS RuntimeLeadership, TLAPS

\* A held row has been granted at least once.
HeldRowGranted == lease.holder # NoHolder => lease.fence > 0 /\ lease.version > 0

\* A call in flight belongs to the location that issued it (or its replica is
\* gone), so a release is only in flight once the worker has stopped.
CallOfLocation ==
  \A r \in Replica :
    /\ call[r] = "acquire" => pc[r] \in {"acquiring", "crashed"}
    /\ call[r] = "renew" => pc[r] \in {"renewing", "crashed"}
    /\ call[r] = "release" => pc[r] \in {"yielding", "releasing"} \union Gone
    /\ call[r] = "refresh" => pc[r] \in {"acquiring", "renewing", "crashed"}
    /\ pc[r] \in {"leading", "losing", "closing"} => call[r] = "idle"

\* A worker runs only while its coroutine supervises it, under a token.
WorkerSupervised ==
  \A r \in Replica :
    Active(r) => /\ pc[r] \in {"leading", "renewing", "losing", "closing"}
                 /\ token[r] \in Token
                 /\ worker[r] = "cancelling" => pc[r] \in {"losing", "closing"}

\* A token names the holder of its fence, and another than the replica that
\* knows it only when that fence was misread.
TokensNamed ==
  \A r \in Replica : \A a \in Known(r) \intersect Token :
    /\ a.holder # r => a.fence \in misread
    /\ lease.holder # NoHolder /\ a.fence = lease.fence => a.holder = lease.holder

\* A token still to be observed, when no later one has been granted and its
\* fence was not misread, is the one of the row's holder.
AnswerHolds ==
  \A r \in Replica :
    call[r] = "answered" /\ reply[r] \in Token /\ reply[r].fence = lease.fence
      => lease.holder = r \/ lease.fence \in misread

IInv ==
  /\ TypeOK
  /\ HeldRowGranted
  /\ CallOfLocation
  /\ WorkerSupervised
  /\ FencesDistinct
  /\ TokensNamed
  /\ AnswerHolds
  /\ HandoverAfterWorkerStops

USE ConstantsAssumption

\* The empty row, with every replica in standby, satisfies the invariant.
LEMMA InitEstablishes == Init => IInv
BY DEF Init, IInv, TypeOK, Row, PC, Gone, WorkerState, CallState, Cancellation,
       NoToken, Token, HeldRowGranted, CallOfLocation, WorkerSupervised, Active,
       FencesDistinct, TokensNamed, Known, AnswerHolds, HandoverAfterWorkerStops

\* Every step keeps the types.
LEMMA TypeStep == TypeOK /\ HeldRowGranted /\ [Next]_vars => TypeOK'
<1> SUFFICES ASSUME TypeOK, HeldRowGranted, [Next]_vars PROVE TypeOK'
  OBVIOUS
<1> USE DEF TypeOK, Row, PC, Gone, WorkerState, CallState, Cancellation
<1> SUFFICES ASSUME Next PROVE TypeOK'
  BY DEF vars
<1>1. CASE Tick
  BY <1>1 DEF Tick
<1>2. ASSUME NEW r \in Replica, DbAcquire(r) PROVE TypeOK'
  <2>1. Granted(r) \in Row
    BY DEF Granted
  <2> QED
    BY <1>2, <2>1 DEF DbAcquire, AnswerNone, Committed, NoToken, Failed
<1>3. ASSUME NEW r \in Replica, DbRenew(r) PROVE TypeOK'
  <2>1. Extended \in Row
    BY DEF Extended
  <2> QED
    BY <1>3, <2>1 DEF DbRenew, AnswerNone, Committed, NoToken, Failed
<1>4. ASSUME NEW r \in Replica, DbRelease(r) PROVE TypeOK'
  <2>1. Freed \in Row
    BY DEF Freed
  <2> QED
    BY <1>4, <2>1 DEF DbRelease, AnswerNone
<1>12. ASSUME NEW r \in Replica, DbRefresh(r) PROVE TypeOK'
  <2>1. lease.holder # NoHolder => RowToken \in Token
    BY DEF RowToken, Token, HeldRowGranted
  <2>2. reply' \in [Replica -> Token \union {NoToken, Failed}]
    BY <1>12, <2>1 DEF DbRefresh
  <2> QED
    BY <1>12, <2>2 DEF DbRefresh
<1>5. ASSUME NEW r \in Replica, DbError(r) PROVE TypeOK'
  BY <1>5 DEF DbError, Failed, Token, NoToken
<1>6. ASSUME NEW r \in Replica, Contend(r) \/ Acquired(r) \/ AcquiredCancelled(r)
      PROVE  TypeOK'
  BY <1>6 DEF Contend, Acquired, AcquiredCancelled, Goto, Issue, Returned, Looked
<1>7. ASSUME NEW r \in Replica, PollRenew(r) \/ WorkerDone(r) \/ Yielded(r)
      PROVE  TypeOK'
  BY <1>7 DEF PollRenew, WorkerDone, Yielded, Goto, Issue, Returned, Looked
<1>8. ASSUME NEW r \in Replica, Renewed(r) \/ RenewedCancelled(r)
      PROVE  TypeOK'
  <2>1. CASE Renewed(r)
    BY <2>1 DEF Renewed, CancelWorker, Goto, Returned, Looked
  <2>2. CASE RenewedCancelled(r)
    BY <2>2 DEF RenewedCancelled, Finally, CancelWorker, Goto, Issue, Looked
  <2> QED
    BY <1>8, <2>1, <2>2
<1>9. ASSUME NEW r \in Replica, Lost(r) \/ Closed(r) \/ Released(r)
      PROVE  TypeOK'
  BY <1>9 DEF Lost, Closed, Released, Goto, Issue, Returned, Looked
<1>10. ASSUME NEW r \in Replica, WorkerEnds(r) \/ Crash(r) PROVE TypeOK'
  <2>1. CASE WorkerEnds(r)
    BY <2>1 DEF WorkerEnds
  <2>2. CASE Crash(r)
    BY <2>2 DEF Crash, Goto
  <2> QED
    BY <1>10, <2>1, <2>2
<1>11. ASSUME NEW r \in Replica, Cancel(r) PROVE TypeOK'
  BY <1>11 DEF Cancel, Finally, CancelWorker, Goto, Issue
<1> QED
  BY <1>1, <1>2, <1>3, <1>4, <1>5, <1>6, <1>7, <1>8, <1>9, <1>10, <1>11, <1>12
  DEF Next, DbStep, Coroutine

\* The row is written by the clock and by the three calls alone.
LEMMA OnlyTheseWriteTheRow ==
  ASSUME [Next]_vars
  PROVE  \/ UNCHANGED lease
         \/ Tick
         \/ \E r \in Replica : DbAcquire(r) \/ DbRenew(r) \/ DbRelease(r)
BY DEF Next, vars, DbStep, DbRefresh, DbError, Coroutine, Contend, Acquired,
       AcquiredCancelled, PollRenew, WorkerDone, Yielded, Renewed, RenewedCancelled,
       Lost, Closed, Released, WorkerEnds, Cancel, Crash

\* What was misread stays so.
LEMMA MisreadGrows == [Next]_vars => misread \subseteq misread'
BY DEF Next, vars, Tick, DbStep, DbAcquire, DbRenew, DbRelease, DbRefresh, DbError,
       Coroutine, Contend, Acquired, AcquiredCancelled, PollRenew, WorkerDone, Yielded,
       Renewed, RenewedCancelled, Lost, Closed, Released, WorkerEnds, Cancel, Crash

\* A held row has been granted: only a grant gives the row a holder.
LEMMA HeldStep == TypeOK /\ HeldRowGranted /\ [Next]_vars => HeldRowGranted'
<1> SUFFICES ASSUME TypeOK, HeldRowGranted, [Next]_vars PROVE HeldRowGranted'
  OBVIOUS
<1> USE DEF TypeOK, Row, HeldRowGranted
<1>1. CASE UNCHANGED lease
  BY <1>1
<1>2. CASE Tick
  BY <1>2 DEF Tick
<1>3. ASSUME NEW r \in Replica, DbAcquire(r) PROVE HeldRowGranted'
  BY <1>3 DEF DbAcquire, Granted
<1>4. ASSUME NEW r \in Replica, DbRenew(r) PROVE HeldRowGranted'
  BY <1>4 DEF DbRenew, Extended
<1>5. ASSUME NEW r \in Replica, DbRelease(r) PROVE HeldRowGranted'
  BY <1>5 DEF DbRelease, Freed
<1> QED
  BY <1>1, <1>2, <1>3, <1>4, <1>5, OnlyTheseWriteTheRow

\* The control part of the invariant: calls and workers belong to locations.
LEMMA ControlStep ==
  ASSUME TypeOK, CallOfLocation, WorkerSupervised, [Next]_vars
  PROVE  CallOfLocation' /\ WorkerSupervised'
<1> USE DEF TypeOK, PC, Gone, CallOfLocation, WorkerSupervised, Active
<1>1. CASE UNCHANGED <<pc, token, worker, call>>
  BY <1>1
<1>2. ASSUME NEW r \in Replica, DbStep(r) \/ DbError(r)
      PROVE  CallOfLocation' /\ WorkerSupervised'
  BY <1>2 DEF DbStep, DbAcquire, DbRenew, DbRelease, DbRefresh, DbError, AnswerNone,
              Committed
<1>3. ASSUME NEW r \in Replica, Contend(r) \/ Acquired(r) \/ AcquiredCancelled(r)
      PROVE  CallOfLocation' /\ WorkerSupervised'
  BY <1>3 DEF Contend, Acquired, AcquiredCancelled, Goto, Issue, Returned, Looked
<1>4. ASSUME NEW r \in Replica, PollRenew(r) \/ WorkerDone(r) \/ Yielded(r)
      PROVE  CallOfLocation' /\ WorkerSupervised'
  BY <1>4 DEF PollRenew, WorkerDone, Yielded, Goto, Issue
<1>5. ASSUME NEW r \in Replica, Renewed(r) PROVE CallOfLocation' /\ WorkerSupervised'
  BY <1>5 DEF Renewed, CancelWorker, Goto, Returned, Looked
<1>6. ASSUME NEW r \in Replica, RenewedCancelled(r)
      PROVE  CallOfLocation' /\ WorkerSupervised'
  <2>1. CASE worker[r] = "running"
    BY <1>6, <2>1 DEF RenewedCancelled, Finally, CancelWorker, Goto, Issue, Looked
  <2>2. CASE worker[r] # "running"
    BY <1>6, <2>2 DEF RenewedCancelled, Finally, Goto, Issue
  <2> QED
    BY <2>1, <2>2
<1>7. ASSUME NEW r \in Replica, Lost(r) \/ Closed(r) \/ Released(r)
      PROVE  CallOfLocation' /\ WorkerSupervised'
  BY <1>7 DEF Lost, Closed, Released, Goto, Issue, Returned, Looked
<1>8. ASSUME NEW r \in Replica, WorkerEnds(r) \/ Crash(r)
      PROVE  CallOfLocation' /\ WorkerSupervised'
  BY <1>8 DEF WorkerEnds, Crash, Goto
<1>9. ASSUME NEW r \in Replica, Cancel(r) PROVE CallOfLocation' /\ WorkerSupervised'
  <2>1. CASE pc[r] \in {"leading", "yielding"} /\ worker[r] = "running"
    BY <1>9, <2>1 DEF Cancel, Finally, CancelWorker, Goto, Issue
  <2>2. CASE pc[r] \in {"leading", "yielding"} /\ worker[r] # "running"
    BY <1>9, <2>2 DEF Cancel, Finally, CancelWorker, Goto, Issue
  <2>3. CASE pc[r] = "losing"
    BY <1>9, <2>3 DEF Cancel
  <2>4. CASE pc[r] \notin {"leading", "yielding", "losing"}
    BY <1>9, <2>4 DEF Cancel, Goto
  <2> QED
    BY <2>1, <2>2, <2>3, <2>4
<1> QED
  BY <1>1, <1>2, <1>3, <1>4, <1>5, <1>6, <1>7, <1>8, <1>9
  DEF Next, Coroutine, vars, Tick

\* The fence of the row never decreases.
LEMMA FenceGrows ==
  ASSUME TypeOK, [Next]_vars
  PROVE  lease.fence \in Nat /\ lease'.fence \in Nat /\ lease'.fence >= lease.fence
<1> USE DEF TypeOK, Row
<1>1. CASE UNCHANGED lease \/ Tick
  BY <1>1 DEF Tick
<1>2. ASSUME NEW r \in Replica, DbAcquire(r) \/ DbRenew(r) \/ DbRelease(r)
      PROVE  lease'.fence \in Nat /\ lease'.fence >= lease.fence
  BY <1>2 DEF DbAcquire, DbRenew, DbRelease, Granted, Extended, Freed
<1> QED
  BY <1>1, <1>2, OnlyTheseWriteTheRow

\* A fence has one holder, until it is freed for good.
LEMMA FenceKeepsHolder ==
  ASSUME TypeOK, [Next]_vars, lease'.fence = lease.fence
  PROVE  lease'.holder \in {lease.holder, NoHolder}
<1> USE DEF TypeOK, Row
<1>1. CASE UNCHANGED lease \/ Tick
  BY <1>1 DEF Tick
<1>2. ASSUME NEW r \in Replica, DbAcquire(r) \/ DbRenew(r) \/ DbRelease(r)
      PROVE  lease'.holder \in {lease.holder, NoHolder}
  BY <1>2 DEF DbAcquire, DbRenew, DbRelease, Granted, Extended, Freed
<1> QED
  BY <1>1, <1>2, OnlyTheseWriteTheRow

\* Nothing but the refresh of a held row gives a replica a token it did not
\* have.
LEMMA OnlyRefreshTells ==
  ASSUME TypeOK, [Next]_vars, NEW r \in Replica,
         ~(DbRefresh(r) /\ lease.holder # NoHolder)
  PROVE  Known(r)' \intersect Token \subseteq Known(r)
<1> USE DEF TypeOK, Known
<1>1. ASSUME NEW s \in Replica, DbAcquire(s) \/ DbRenew(s) \/ DbRelease(s) \/ DbError(s)
      PROVE  Known(r)' \intersect Token \subseteq Known(r)
  BY <1>1 DEF DbAcquire, DbRenew, DbRelease, DbError, AnswerNone, Committed, NoToken,
              Failed, Token
<1>2. ASSUME NEW s \in Replica, DbRefresh(s)
      PROVE  Known(r)' \intersect Token \subseteq Known(r)
  <2>1. CASE s = r
    <3>1. reply'[r] = Failed /\ token' = token
      BY <1>2, <2>1 DEF DbRefresh
    <3>2. Failed \notin Token
      BY DEF Failed, Token
    <3> QED
      BY <3>1, <3>2
  <2>2. CASE s # r
    BY <1>2, <2>2 DEF DbRefresh
  <2> QED
    BY <2>1, <2>2
<1>3. ASSUME NEW s \in Replica, Coroutine(s)
      PROVE  Known(r)' \intersect Token \subseteq Known(r)
  <2>1. CASE Acquired(s) \/ AcquiredCancelled(s)
    BY <2>1 DEF Acquired, AcquiredCancelled, Issue, Returned, Looked
  <2>2. CASE Renewed(s) \/ RenewedCancelled(s)
    BY <2>2 DEF Renewed, RenewedCancelled, Finally, Issue, Returned, Looked
  <2>3. CASE Yielded(s) \/ Lost(s)
    BY <2>3 DEF Yielded, Lost, Issue, NoToken, Token, Looked
  <2>4. CASE Contend(s) \/ PollRenew(s) \/ WorkerDone(s) \/ Closed(s) \/ Released(s)
    BY <2>4 DEF Contend, PollRenew, WorkerDone, Closed, Released, Issue, Returned, Looked
  <2> QED
    BY <1>3, <2>1, <2>2, <2>3, <2>4 DEF Coroutine
<1>4. ASSUME NEW s \in Replica, WorkerEnds(s) \/ Cancel(s) \/ Crash(s)
      PROVE  Known(r)' \intersect Token \subseteq Known(r)
  BY <1>4 DEF WorkerEnds, Cancel, Crash, Finally, Issue
<1>5. CASE Tick \/ UNCHANGED vars
  BY <1>5 DEF Tick, vars
<1> QED
  BY <1>1, <1>2, <1>3, <1>4, <1>5 DEF Next, DbStep

\* What the refresh of a held row brings.
LEMMA RefreshTells ==
  ASSUME TypeOK, HeldRowGranted, NEW r \in Replica, DbRefresh(r), lease.holder # NoHolder
  PROVE  /\ RowToken \in Token /\ lease' = lease
         /\ Known(r)' \subseteq Known(r) \union {RowToken}
         /\ lease.holder # r => lease.fence \in misread'
         /\ \A s \in Replica \ {r} : Known(s)' = Known(s)
<1> USE DEF TypeOK, Row, HeldRowGranted
<1>1. RowToken \in Token
  BY DEF RowToken, Token
<1> QED
  BY <1>1 DEF DbRefresh, Known

\* Whoever refreshes, every token known after a step was known to its replica
\* before, or is the row's, which names its holder or was misread.
LEMMA KnownAfter ==
  ASSUME TypeOK, HeldRowGranted, [Next]_vars, NEW s \in Replica,
         NEW a \in Known(s)' \intersect Token
  PROVE  \/ a \in Known(s)
         \/ /\ a = RowToken /\ lease' = lease
            /\ lease.holder # s => lease.fence \in misread'
<1>1. CASE DbRefresh(s) /\ lease.holder # NoHolder
  BY <1>1, RefreshTells
<1>2. CASE ~(DbRefresh(s) /\ lease.holder # NoHolder)
  BY <1>2, OnlyRefreshTells
<1> QED
  BY <1>1, <1>2

\* Tokens stay named for the holder of their fence.
LEMMA NamedStep ==
  ASSUME TypeOK, HeldRowGranted, FencesDistinct, TokensNamed, [Next]_vars
  PROVE  TokensNamed'
<1> SUFFICES ASSUME NEW r \in Replica, NEW a \in Known(r)' \intersect Token
             PROVE  /\ a.holder # r => a.fence \in misread'
                    /\ lease'.holder # NoHolder /\ a.fence = lease'.fence
                         => a.holder = lease'.holder
  BY DEF TokensNamed
<1>1. CASE a \in Known(r)
  <2>1. a.fence <= lease.fence /\ a.fence \in Nat
    BY <1>1 DEF FencesDistinct, Token
  <2>2. a.holder # r => a.fence \in misread'
    BY <1>1, MisreadGrows DEF TokensNamed
  <2>3. ASSUME lease'.holder # NoHolder, a.fence = lease'.fence
        PROVE  a.holder = lease'.holder
    <3>1. lease'.fence = lease.fence
      BY <2>1, <2>3, FenceGrows
    <3> QED
      BY <1>1, <2>3, <3>1, FenceKeepsHolder DEF TokensNamed
  <2> QED
    BY <2>2, <2>3
<1>2. CASE /\ a = RowToken /\ lease' = lease
           /\ lease.holder # r => lease.fence \in misread'
  BY <1>2 DEF RowToken
<1> QED
  BY <1>1, <1>2, KnownAfter

\* Distinct fences: a token read back is that of the row, and whoever else
\* knows the row's fence is not its holder and has misread it.
LEMMA FencesStep ==
  ASSUME TypeOK, HeldRowGranted, FencesDistinct, TokensNamed, [Next]_vars
  PROVE  FencesDistinct'
<1> SUFFICES ASSUME NEW r \in Replica, NEW s \in Replica,
                    NEW a \in Known(r)' \intersect Token,
                    NEW b \in Known(s)' \intersect Token
             PROVE  /\ a.fence <= lease'.fence
                    /\ r # s /\ a.fence \notin misread' => a.fence # b.fence
  BY DEF FencesDistinct
<1>1. a.fence \in Nat /\ b.fence \in Nat
  BY DEF Token
<1>2. a.fence <= lease'.fence
  <2>1. CASE a \in Known(r)
    BY <1>1, <2>1, FenceGrows DEF FencesDistinct
  <2>2. CASE a = RowToken /\ lease' = lease
    BY <2>2, FenceGrows DEF RowToken
  <2> QED
    BY <2>1, <2>2, KnownAfter
<1>3. ASSUME r # s, a.fence \notin misread', a.fence = b.fence PROVE FALSE
  <2>1. a.fence \notin misread
    BY <1>3, MisreadGrows
  <2>2. CASE a \in Known(r) /\ b \in Known(s)
    BY <1>3, <2>1, <2>2 DEF FencesDistinct
  <2>3. CASE a = RowToken /\ (lease.holder # r => lease.fence \in misread')
    <3>1. lease.holder = r /\ a.fence = lease.fence /\ r # NoHolder
      BY <1>3, <2>3 DEF RowToken
    <3>2. CASE b \in Known(s)
      BY <1>3, <2>1, <3>1, <3>2 DEF TokensNamed
    <3>3. CASE lease.holder # s => lease.fence \in misread'
      BY <1>3, <3>1, <3>3
    <3> QED
      BY <3>2, <3>3, KnownAfter
  <2>4. CASE b = RowToken /\ (lease.holder # s => lease.fence \in misread')
    <3>1. lease.holder = s /\ b.fence = lease.fence /\ s # NoHolder
      BY <1>3, <2>4 DEF RowToken
    <3>2. CASE a \in Known(r)
      BY <1>3, <2>1, <3>1, <3>2 DEF TokensNamed
    <3>3. CASE lease.holder # r => lease.fence \in misread'
      BY <1>3, <3>1, <3>3
    <3> QED
      BY <3>2, <3>3, KnownAfter
  <2> QED
    BY <2>2, <2>3, <2>4, KnownAfter
<1> QED
  BY <1>2, <1>3

\* A call whose token matches the row, but was issued by another replica than
\* the holder, has misread its fence.
LEMMA MatchesMisread ==
  ASSUME TypeOK, HeldRowGranted, TokensNamed, NEW s \in Replica, Matches(s),
         lease.holder # s
  PROVE  lease.fence \in misread
<1>1. RowToken \in Token /\ token[s] = RowToken
  BY DEF RowToken, Token, TypeOK, Row, HeldRowGranted, Matches
<1> QED
  BY <1>1 DEF TokensNamed, Known, RowToken

\* Only the holder's own release frees the row, or that of a replica that has
\* misread its fence, and only a lapse lets another replica take it.
LEMMA RowStep ==
  ASSUME TypeOK, HeldRowGranted, TokensNamed, [Next]_vars,
         NEW r \in Replica, lease.holder = r, lease'.fence = lease.fence
  PROVE  \/ lease'.holder = r
         \/ call[r] = "release" /\ Matches(r)
         \/ lease.fence \in misread
<1> USE DEF TypeOK, Row
<1>1. CASE UNCHANGED lease \/ Tick
  BY <1>1 DEF Tick
<1>2. ASSUME NEW s \in Replica, DbAcquire(s) \/ DbRenew(s) PROVE lease'.holder = r
  BY <1>2 DEF DbAcquire, DbRenew, Granted, Extended
<1>3. ASSUME NEW s \in Replica, DbRelease(s)
      PROVE  \/ lease'.holder = r
             \/ call[r] = "release" /\ Matches(r)
             \/ lease.fence \in misread
  <2>1. CASE Matches(s) /\ s # r
    BY <2>1, MatchesMisread
  <2>2. CASE ~Matches(s) \/ s = r
    BY <1>3, <2>2 DEF DbRelease
  <2> QED
    BY <2>1, <2>2
<1> QED
  BY <1>1, <1>2, <1>3, OnlyTheseWriteTheRow

\* An answered call was answered by this step, or had its answer before.
LEMMA AnsweredBefore ==
  ASSUME TypeOK, [Next]_vars, NEW r \in Replica, call'[r] = "answered"
  PROVE  \/ DbStep(r) \/ DbError(r)
         \/ call[r] = "answered" /\ reply'[r] = reply[r]
<1> USE DEF TypeOK
<1>1. ASSUME NEW s \in Replica, DbStep(s) \/ DbError(s), s # r
      PROVE  call'[r] = call[r] /\ reply'[r] = reply[r]
  BY <1>1 DEF DbStep, DbAcquire, DbRenew, DbRelease, DbRefresh, DbError, AnswerNone,
              Committed
<1>2. ASSUME NEW s \in Replica, Coroutine(s)
      PROVE  call[r] = "answered" /\ reply'[r] = reply[r]
  <2>1. CASE Contend(s) \/ Acquired(s) \/ AcquiredCancelled(s) \/ PollRenew(s)
    BY <2>1 DEF Contend, Acquired, AcquiredCancelled, PollRenew, Issue, Returned, Looked
  <2>2. CASE WorkerDone(s) \/ Yielded(s) \/ Renewed(s) \/ RenewedCancelled(s)
    BY <2>2 DEF WorkerDone, Yielded, Renewed, RenewedCancelled, Finally, Issue, Returned, Looked
  <2>3. CASE Lost(s) \/ Closed(s) \/ Released(s)
    BY <2>3 DEF Lost, Closed, Released, Issue, Returned, Looked
  <2> QED
    BY <1>2, <2>1, <2>2, <2>3 DEF Coroutine
<1>3. ASSUME NEW s \in Replica, WorkerEnds(s) \/ Cancel(s) \/ Crash(s)
      PROVE  call[r] = "answered" /\ reply'[r] = reply[r]
  BY <1>3 DEF WorkerEnds, Cancel, Crash, Finally, Issue
<1>4. CASE Tick \/ UNCHANGED vars
  BY <1>4 DEF Tick, vars
<1> QED
  BY <1>1, <1>2, <1>3, <1>4 DEF Next

\* An answered call holds the row's token, or the replica had it before.
LEMMA AnswerStep ==
  ASSUME TypeOK, HeldRowGranted, FencesDistinct, TokensNamed, AnswerHolds, [Next]_vars
  PROVE  AnswerHolds'
<1> USE DEF TypeOK
<1> SUFFICES ASSUME NEW r \in Replica, call'[r] = "answered", reply'[r] \in Token,
                    reply'[r].fence = lease'.fence, lease'.fence \notin misread'
             PROVE  lease'.holder = r
  BY DEF AnswerHolds
<1>1. CASE DbStep(r) \/ DbError(r)
  <2>1. CASE DbRefresh(r)
    BY <1>1, <2>1 DEF DbRefresh, Failed, Token
  <2>2. CASE ~DbRefresh(r)
    BY <1>1, <2>2 DEF DbStep, DbAcquire, DbRenew, DbRelease, DbError, AnswerNone, Committed,
                      NoToken, Failed, Token
  <2> QED
    BY <2>1, <2>2
<1>2. CASE call[r] = "answered" /\ reply'[r] = reply[r]
  <2>1. reply[r].fence <= lease.fence /\ reply[r].fence \in Nat
    BY <1>2 DEF FencesDistinct, Known, Token
  <2>2. lease'.fence = lease.fence /\ lease.fence \notin misread
    BY <1>2, <2>1, FenceGrows, MisreadGrows
  <2> QED
    BY <1>2, <2>2, RowStep DEF AnswerHolds
<1> QED
  BY <1>1, <1>2, AnsweredBefore

\* A worker that runs after a step either ran before it under a token of the
\* same fence, or its replica has just observed the token it runs under.
LEMMA ActiveBefore ==
  ASSUME TypeOK, [Next]_vars, NEW r \in Replica, Active(r)'
  PROVE  \/ Active(r) /\ token'[r] = token[r]
         \/ call[r] = "answered" /\ reply[r] \in Token /\ token'[r] = reply[r]
<1> USE DEF TypeOK, Active
<1>1. CASE UNCHANGED <<token, worker>>
  BY <1>1
<1>2. ASSUME NEW s \in Replica, Coroutine(s)
      PROVE  \/ Active(r) /\ token'[r] = token[r]
             \/ call[r] = "answered" /\ reply[r] \in Token /\ token'[r] = reply[r]
  <2>1. CASE Acquired(s) \/ Renewed(s)
    BY <2>1 DEF Acquired, Renewed, Returned, Looked, CancelWorker
  <2>2. CASE AcquiredCancelled(s) \/ RenewedCancelled(s)
    BY <2>2 DEF AcquiredCancelled, RenewedCancelled, Finally, CancelWorker
  <2>3. CASE Yielded(s) \/ Lost(s)
    BY <2>3 DEF Yielded, Lost
  <2>4. CASE Contend(s) \/ PollRenew(s) \/ WorkerDone(s) \/ Closed(s) \/ Released(s)
    BY <2>4 DEF Contend, PollRenew, WorkerDone, Closed, Released
  <2> QED
    BY <1>2, <2>1, <2>2, <2>3, <2>4 DEF Coroutine
<1>3. ASSUME NEW s \in Replica, WorkerEnds(s) \/ Cancel(s) \/ Crash(s)
      PROVE  Active(r) /\ token'[r] = token[r]
  BY <1>3 DEF WorkerEnds, Cancel, Crash, Finally, CancelWorker
<1> QED
  BY <1>1, <1>2, <1>3
  DEF Next, vars, Tick, DbStep, DbAcquire, DbRenew, DbRelease, DbRefresh, DbError

\* The holder of a fence that was not misread keeps the row while its worker
\* runs: the calls that could take it are not in flight then.
LEMMA HandoverStep ==
  ASSUME IInv, TypeOK', [Next]_vars
  PROVE  HandoverAfterWorkerStops'
<1> USE DEF IInv, TypeOK
<1> SUFFICES ASSUME NEW r \in Replica, Active(r)', ~Stale(r)',
                    token'[r].fence \notin misread'
             PROVE  lease'.holder = r
  BY DEF HandoverAfterWorkerStops
<1>0. token'[r].fence \notin misread
  BY MisreadGrows
<1>1. CASE Active(r) /\ token'[r] = token[r]
  <2>1. /\ token[r] \in Token
        /\ call[r] # "release"
    BY <1>1 DEF WorkerSupervised, CallOfLocation, Gone
  <2>2. token[r].fence <= lease.fence /\ token[r].fence \in Nat
    BY <2>1 DEF FencesDistinct, Known, Token
  <2>3. lease'.fence = token[r].fence /\ lease'.fence = lease.fence
    <3>1. token[r] # NoToken
      BY <2>1 DEF Token, NoToken
    <3> QED
      BY <1>1, <2>2, <3>1, FenceGrows DEF Stale
  <2>4. lease.holder = r
    BY <1>0, <1>1, <2>2, <2>3 DEF HandoverAfterWorkerStops, Stale
  <2> QED
    BY <1>0, <1>1, <2>1, <2>3, <2>4, RowStep
<1>2. CASE call[r] = "answered" /\ reply[r] \in Token /\ token'[r] = reply[r]
  <2>1. reply[r].fence <= lease.fence /\ reply[r].fence \in Nat
    BY <1>2 DEF FencesDistinct, Known, Token
  <2>2. lease'.fence = reply[r].fence /\ lease'.fence = lease.fence
    <3>1. reply[r] # NoToken
      BY <1>2 DEF Token, NoToken
    <3> QED
      BY <1>2, <2>1, <3>1, FenceGrows DEF Stale
  <2>3. lease.holder = r
    BY <1>0, <1>2, <2>2 DEF AnswerHolds
  <2> QED
    BY <1>0, <1>2, <2>2, <2>3, RowStep
<1> QED
  BY <1>1, <1>2, ActiveBefore

-----------------------------------------------------------------------------

\* The invariant of the leadership protocol.
THEOREM Invariant == Spec => []IInv
<1>1. IInv /\ [Next]_vars => IInv'
  BY TypeStep, HeldStep, ControlStep, FencesStep, NamedStep, AnswerStep, HandoverStep DEF IInv
<1> QED
  BY InitEstablishes, <1>1, PTL DEF Spec

\* The row, the tokens and the answers of acquire and renew keep their types.
THEOREM TypeCorrect == Spec => []TypeOK
<1>1. IInv => TypeOK
  BY DEF IInv
<1> QED
  BY Invariant, <1>1, PTL

\* Fencing tokens are unique among all invocations, paused ones included, but
\* for the fences that were misread: what lets renew and release refuse every
\* former holder.
THEOREM FencingTokensDistinct == Spec => []FencesDistinct
<1>1. IInv => FencesDistinct
  BY DEF IInv
<1> QED
  BY Invariant, <1>1, PTL

\* No replica frees the row under a running worker, its own or another's,
\* unless it has misread the fence the worker runs under.
THEOREM HandoverIsOrderly == Spec => []HandoverAfterWorkerStops
<1>1. IInv => HandoverAfterWorkerStops
  BY DEF IInv
<1> QED
  BY Invariant, <1>1, PTL

\* An unexpired lease leaves its holder by that holder's release only, or by
\* the release of a replica that misread its fence.
THEOREM UnexpiredLeaseIsKept == Spec => NoUnexpiredTakeover
<1> DEFINE Kept ==
      \A r \in Replica :
        lease.holder = r /\ lease.remaining > 0 /\ lease' # lease
          => \/ lease'.holder = r /\ lease'.fence >= lease.fence
             \/ lease'.holder = NoHolder
                  /\ (call[r] = "release" \/ lease.fence \in misread)
<1>1. IInv /\ [Next]_vars => [Kept]_vars
  <2> SUFFICES ASSUME IInv, [Next]_vars, NEW r \in Replica,
                      lease.holder = r, lease.remaining > 0, lease' # lease
               PROVE  \/ lease'.holder = r /\ lease'.fence >= lease.fence
                      \/ lease'.holder = NoHolder
                           /\ (call[r] = "release" \/ lease.fence \in misread)
    OBVIOUS
  <2> USE DEF IInv
  <2>1. lease'.fence >= lease.fence
    BY FenceGrows
  <2>2. CASE Tick
    BY <2>1, <2>2 DEF Tick, TypeOK, Row
  <2>3. ASSUME NEW s \in Replica, DbAcquire(s) PROVE lease'.holder = r
    BY <2>3 DEF DbAcquire, Available, Granted, TypeOK, Row
  <2>4. ASSUME NEW s \in Replica, DbRenew(s) PROVE lease'.holder = r
    BY <2>4 DEF DbRenew, Extended
  <2>5. ASSUME NEW s \in Replica, DbRelease(s)
        PROVE  lease'.holder = NoHolder /\ (call[r] = "release" \/ lease.fence \in misread)
    <3>1. Matches(s) /\ lease' = Freed
      BY <2>5 DEF DbRelease
    <3> QED
      BY <2>5, <3>1, MatchesMisread DEF DbRelease, Freed
  <2> QED
    BY <2>1, <2>2, <2>3, <2>4, <2>5, OnlyTheseWriteTheRow
<1> QED
  BY Invariant, <1>1, PTL DEF Spec, NoUnexpiredTakeover

-----------------------------------------------------------------------------
(* A clean exit leaves no live lease behind *)

\* Replica r has an unexpired lease.
Leads(r) == lease.holder = r /\ lease.remaining > 0

\* What a replica knows of its lease, by location: the token it would release
\* with, or the answer it is about to observe, is that of the row.
LeaseKnownTo(r) ==
  /\ pc[r] \notin {"standby", "losing"}
  /\ pc[r] \in {"leading", "closing"} => token[r] = RowToken
  /\ pc[r] = "acquiring" =>
       /\ call[r] # "acquire"
       /\ call[r] = "answered" => reply[r] \in Token /\ reply[r] = RowToken
  /\ pc[r] = "renewing" =>
       /\ call[r] = "renew" => token[r] = RowToken
       /\ call[r] = "answered" => reply[r] \in Token /\ reply[r] = RowToken
  /\ pc[r] \in {"yielding", "releasing"} => call[r] = "release" /\ token[r] = RowToken
  /\ pc[r] = "exited" => call[r] # "idle" \/ worker[r] = "failed"

LeaseKnown ==
  faults = 0 /\ lease.fence \notin misread
    => \A r \in Replica : Leads(r) => LeaseKnownTo(r)

\* A step that is not the replica's own leaves its locals alone, and neither
\* gives it the row nor writes the row it has, unless its fence was misread.
LEMMA OthersLeave ==
  ASSUME TypeOK, HeldRowGranted, TokensNamed, NEW r \in Replica, NEW s \in Replica \ {r},
         \/ DbStep(s) \/ DbError(s) \/ Coroutine(s)
         \/ WorkerEnds(s) \/ Cancel(s) \/ Crash(s)
  PROVE  /\ pc'[r] = pc[r] /\ token'[r] = token[r] /\ worker'[r] = worker[r]
         /\ call'[r] = call[r] /\ reply'[r] = reply[r]
         /\ Leads(r)' => lease' = lease \/ lease'.fence \in misread
<1> USE DEF TypeOK, Leads
<1>1. CASE DbStep(s)
  <2>1. /\ pc'[r] = pc[r] /\ token'[r] = token[r] /\ worker'[r] = worker[r]
        /\ call'[r] = call[r] /\ reply'[r] = reply[r]
    BY <1>1 DEF DbStep, DbAcquire, DbRenew, DbRelease, DbRefresh, AnswerNone, Committed
  <2>2. CASE lease' = Extended /\ Matches(s)
    <3>1. lease.holder # s => lease.fence \in misread
      BY <2>2, MatchesMisread
    <3> QED
      BY <2>1, <2>2, <3>1 DEF Extended
  <2>3. CASE lease' \in {lease, Granted(s), Freed}
    BY <2>1, <2>3 DEF Granted, Freed
  <2> QED
    BY <1>1, <2>2, <2>3 DEF DbStep, DbAcquire, DbRenew, DbRelease, DbRefresh, Renewable
<1>2. CASE DbError(s)
  BY <1>2 DEF DbError
<1>3. CASE Contend(s) \/ Acquired(s) \/ AcquiredCancelled(s) \/ PollRenew(s)
  BY <1>3 DEF Contend, Acquired, AcquiredCancelled, PollRenew, Goto, Issue, Returned, Looked
<1>4. CASE WorkerDone(s) \/ Yielded(s) \/ Renewed(s)
  BY <1>4 DEF WorkerDone, Yielded, Renewed, CancelWorker, Goto, Issue, Returned, Looked
<1>5. CASE RenewedCancelled(s)
  BY <1>5 DEF RenewedCancelled, Finally, CancelWorker, Goto, Issue, Looked
<1>6. CASE Lost(s) \/ Closed(s) \/ Released(s)
  BY <1>6 DEF Lost, Closed, Released, Goto, Issue, Returned, Looked
<1>7. CASE WorkerEnds(s) \/ Crash(s)
  BY <1>7 DEF WorkerEnds, Crash, Goto
<1>8. CASE Cancel(s)
  BY <1>8 DEF Cancel, Finally, CancelWorker, Goto, Issue
<1> QED
  BY <1>1, <1>2, <1>3, <1>4, <1>5, <1>6, <1>7, <1>8 DEF Coroutine

\* Errors are counted and never forgotten.
LEMMA FaultsGrow == TypeOK /\ [Next]_vars /\ faults' = 0 => faults = 0
BY DEF TypeOK, Next, vars, Tick, DbStep, DbAcquire, DbRenew, DbRelease, DbRefresh, DbError,
       AnswerNone, Committed, Coroutine, Contend, Acquired, AcquiredCancelled, PollRenew, WorkerDone, Yielded,
       Renewed, RenewedCancelled, Lost, Closed, Released, WorkerEnds, Cancel, Crash

\* The replica's own calls: a grant or a renewal is answered with the row's
\* token, and a release with that token frees the row.
LEMMA LeaseAnswered ==
  ASSUME TypeOK, HeldRowGranted, CallOfLocation, faults' = 0,
         NEW r \in Replica, DbStep(r), Leads(r)', Leads(r) => LeaseKnownTo(r)
  PROVE  LeaseKnownTo(r)'
<1> USE DEF TypeOK, Leads, LeaseKnownTo
<1>1. CASE DbAcquire(r)
  BY <1>1 DEF DbAcquire, AnswerNone, Committed, Granted, Available, CallOfLocation, Gone
<1>2. CASE DbRenew(r)
  <2>1. pc'[r] = pc[r] /\ pc[r] \in {"renewing", "crashed"}
    BY <1>2 DEF DbRenew, CallOfLocation
  <2>2. CASE Renewable(r) /\ lease' = Extended /\ Committed(r)
    BY <2>1, <2>2 DEF Committed
  <2>3. CASE ~Renewable(r) /\ lease' = lease
    BY <1>2, <2>1, <2>3 DEF DbRenew, Renewable, Matches, RowToken
  <2> QED
    BY <1>2, <2>2, <2>3 DEF DbRenew
<1>3. CASE DbRelease(r)
  BY <1>3 DEF DbRelease, AnswerNone, Freed, Matches, CallOfLocation, RowToken, Row, Gone
<1>4. CASE DbRefresh(r)
  <2>1. /\ lease' = lease /\ lease.holder = r /\ reply'[r] = RowToken
        /\ pc'[r] = pc[r] /\ pc[r] \in {"acquiring", "renewing"} /\ call'[r] = "answered"
    BY <1>4 DEF DbRefresh, CallOfLocation
  <2>2. RowToken \in Token /\ RowToken' = RowToken
    BY <1>4, <2>1, RefreshTells DEF RowToken
  <2> QED
    BY <2>1, <2>2
<1> QED
  BY <1>1, <1>2, <1>3, <1>4 DEF DbStep

\* The steps of the coroutine carry the token from its answer to the release.
LEMMA LeaseCarried ==
  ASSUME TypeOK, CallOfLocation, WorkerSupervised, NEW r \in Replica,
         Coroutine(r) \/ WorkerEnds(r) \/ Cancel(r) \/ Crash(r),
         lease' = lease, Leads(r), LeaseKnownTo(r)
  PROVE  LeaseKnownTo(r)'
<1> USE DEF TypeOK, LeaseKnownTo, RowToken, CallOfLocation
<1>1. CASE Contend(r) \/ Acquired(r) \/ AcquiredCancelled(r) \/ PollRenew(r)
  BY <1>1 DEF Contend, Acquired, AcquiredCancelled, PollRenew, Goto, Issue, Returned, Looked
<1>2. CASE WorkerDone(r) \/ Yielded(r) \/ Renewed(r)
  BY <1>2 DEF WorkerDone, Yielded, Renewed, Goto, Issue, Returned, Looked
<1>3. CASE RenewedCancelled(r)
  BY <1>3 DEF RenewedCancelled, Finally, Goto, Issue
<1>4. CASE Lost(r) \/ Closed(r) \/ Released(r)
  BY <1>4 DEF Lost, Closed, Released, Goto, Issue, Returned, Looked
<1>5. CASE WorkerEnds(r) \/ Crash(r)
  BY <1>5 DEF WorkerEnds, Crash, Goto, Active, WorkerSupervised
<1>6. CASE Cancel(r)
  BY <1>6 DEF Cancel, Finally, Goto, Issue, WorkerSupervised, Active
<1> QED
  BY <1>1, <1>2, <1>3, <1>4, <1>5, <1>6 DEF Coroutine

\* As long as no call failed, a replica knows of the lease it has.
LEMMA LeaseStep ==
  ASSUME IInv, IInv', LeaseKnown, [Next]_vars
  PROVE  LeaseKnown'
<1> SUFFICES ASSUME faults' = 0, lease'.fence \notin misread', NEW r \in Replica, Leads(r)'
             PROVE  LeaseKnownTo(r)'
  BY DEF LeaseKnown
<1>1. faults = 0 /\ lease'.fence \notin misread
  BY FaultsGrow, MisreadGrows DEF IInv
<1>2. Leads(r) /\ lease.fence = lease'.fence => LeaseKnownTo(r)
  BY <1>1 DEF LeaseKnown
<1>3. CASE UNCHANGED vars
  BY <1>2, <1>3 DEF vars, Leads, LeaseKnownTo, RowToken
<1>4. CASE Tick
  <2>1. Leads(r) /\ RowToken' = RowToken /\ lease'.fence = lease.fence
    BY <1>4 DEF Tick, Leads, RowToken, IInv, TypeOK, Row
  <2> QED
    BY <1>2, <1>4, <2>1 DEF Tick, LeaseKnownTo
<1>5. ASSUME NEW s \in Replica \ {r},
             \/ DbStep(s) \/ DbError(s) \/ Coroutine(s)
             \/ WorkerEnds(s) \/ Cancel(s) \/ Crash(s)
      PROVE  LeaseKnownTo(r)'
  <2>1. /\ pc'[r] = pc[r] /\ token'[r] = token[r] /\ worker'[r] = worker[r]
        /\ call'[r] = call[r] /\ reply'[r] = reply[r] /\ lease' = lease
    BY <1>1, <1>5, OthersLeave DEF IInv
  <2> QED
    BY <1>2, <2>1 DEF Leads, LeaseKnownTo, RowToken
<1>6. CASE DbStep(r)
  <2>1. CASE DbAcquire(r)
    BY <2>1 DEF DbAcquire, AnswerNone, Committed, Available, Leads, LeaseKnownTo, IInv,
                TypeOK, CallOfLocation, Gone
  <2>2. CASE ~DbAcquire(r)
    <3>1. lease'.fence = lease.fence
      BY <1>6, <2>2 DEF DbStep, DbRenew, DbRelease, DbRefresh, Extended, Freed
    <3> QED
      BY <1>1, <1>2, <1>6, <3>1, LeaseAnswered DEF IInv
  <2> QED
    BY <2>1, <2>2
<1>7. CASE DbError(r)
  BY <1>7 DEF DbError, IInv, TypeOK
<1>8. CASE Coroutine(r) \/ WorkerEnds(r) \/ Cancel(r) \/ Crash(r)
  <2>1. UNCHANGED lease
    BY <1>8 DEF Coroutine, Contend, Acquired, AcquiredCancelled, PollRenew, WorkerDone,
                Yielded, Renewed, RenewedCancelled, Lost, Closed, Released, WorkerEnds,
                Cancel, Crash
  <2>2. Leads(r)
    BY <2>1 DEF Leads
  <2> QED
    BY <1>2, <1>8, <2>1, <2>2, LeaseCarried DEF IInv
<1> QED
  BY <1>3, <1>4, <1>5, <1>6, <1>7, <1>8 DEF Next

\* Wherever the shutdown caught it, a replica that left without an error has
\* released, unless its fence was misread: a standby takes over at once.
THEOREM CleanExit == Spec => []CleanExitFreesLease
<1>1. Init => LeaseKnown
  BY DEF Init, LeaseKnown, Leads
<1>2. IInv /\ IInv' /\ LeaseKnown /\ [Next]_vars => LeaseKnown'
  BY LeaseStep
<1>3. LeaseKnown => CleanExitFreesLease
  BY DEF LeaseKnown, LeaseKnownTo, Leads, LeftCleanly, CleanExitFreesLease
<1> QED
  BY Invariant, <1>1, <1>2, <1>3, PTL DEF Spec

-----------------------------------------------------------------------------
(* Leadership implements FencedLease *)

\* What a step of replica r is to the lease and to r: nothing, an end, a
\* beginning, a grant, a renewal, an answer, its loss or a vacation.
Due(r)      == call[r] = "refresh"
Quiet       == /\ lease'.holder = lease.holder /\ lease'.fence = lease.fence
               /\ lease'.remaining > 0 <=> lease.remaining > 0
               /\ misread' = misread
Rests(r)    == Told(r) = 0 /\ Serving(r) = 0
Keeps(r)    == /\ Due(r)' <=> Due(r)
               /\ Told(r)' = Told(r) /\ Serving(r)' = Serving(r)
Ends(r)     == /\ Quiet /\ (Due(r)' <=> Due(r))
               /\ Told(r)' \in {0, Told(r)} /\ Serving(r)' = 0
Begins(r)   == /\ Quiet /\ (Due(r)' <=> Due(r))
               /\ Told(r) # 0 /\ Told(r)' = 0 /\ Serving(r)' = Told(r)
IsGranted(r) == /\ Rests(r) /\ (lease.holder \in {NoHolder, r} \/ ~(lease.remaining > 0))
                /\ lease'.holder = r /\ lease'.fence = lease.fence + 1 /\ lease'.remaining > 0
                /\ Due(r)' /\ Told(r)' = Told(r) /\ Serving(r)' = Serving(r)
                /\ misread' = misread
IsRenewed(r) == /\ Quiet /\ lease.remaining > 0
                /\ lease.holder = r \/ lease.fence \in misread
                /\ Due(r)' /\ Told(r)' = Told(r) /\ Serving(r)' = Serving(r)
Hears(r)    == /\ lease' = lease /\ Due(r) /\ lease.holder # NoHolder
               /\ ~Due(r)' /\ Told(r)' = lease.fence /\ Serving(r)' = Serving(r)
               /\ misread' = IF lease.holder = r THEN misread
                             ELSE misread \union {lease.fence}
Misses(r)   == /\ Quiet /\ ~Due(r)'
               /\ Told(r)' = Told(r) /\ Serving(r)' = Serving(r)
Vacates(r)  == /\ lease.holder # NoHolder
               /\ Rests(lease.holder) \/ lease.fence \in misread
               /\ Keeps(r) /\ misread' = misread
               /\ lease'.holder = NoHolder /\ lease'.fence = lease.fence
               /\ ~(lease'.remaining > 0)

Steps(r) == \/ Quiet /\ Keeps(r)
            \/ Ends(r) \/ Begins(r) \/ IsGranted(r) \/ IsRenewed(r)
            \/ Hears(r) \/ Misses(r) \/ Vacates(r)

\* The calls: grants, renewals, their answers and releases are the lease's own
\* steps.
LEMMA CallSteps ==
  ASSUME IInv, NEW r \in Replica, DbStep(r) \/ DbError(r)
  PROVE  Steps(r)
<1> USE DEF IInv, TypeOK
<1>1. /\ UNCHANGED <<pc, token, worker>>
      /\ call[r] \notin {"answered", "idle"} /\ Told(r) = 0
  BY DEF DbStep, DbAcquire, DbRenew, DbRelease, DbRefresh, DbError, Told
<1>2. Serving(r)' = Serving(r)
  BY <1>1 DEF Serving, Active
<1>3. reply'[r] \notin Token \/ call'[r] # "answered" => Told(r)' = 0
  BY DEF Told
<1>4. NoToken \notin Token /\ Failed \notin Token
  BY DEF NoToken, Failed, Token
<1>5. ASSUME AnswerNone(r), lease' = lease, misread' = misread, ~Due(r)
      PROVE  Steps(r)
  <2>1. Told(r)' = 0 /\ ~Due(r)'
    BY <1>3, <1>4, <1>5 DEF AnswerNone, Due
  <2> QED
    BY <1>1, <1>2, <1>5, <2>1 DEF Steps, Keeps, Quiet
<1>6. CASE DbAcquire(r)
  <2>1. Serving(r) = 0 /\ misread' = misread /\ ~Due(r)
    BY <1>6 DEF DbAcquire, Serving, CallOfLocation, WorkerSupervised, Due
  <2>2. CASE Available(r) /\ lease' = Granted(r) /\ Committed(r)
    <3>1. Due(r)' /\ Told(r)' = 0
      BY <1>3, <2>2 DEF Committed, Due
    <3>2. lease'.holder = r /\ lease'.fence = lease.fence + 1 /\ lease'.remaining > 0
      BY <2>2 DEF Granted
    <3>3. lease.holder \in {NoHolder, r} \/ ~(lease.remaining > 0)
      BY <2>2 DEF Available, Row
    <3> QED
      BY <1>1, <1>2, <2>1, <3>1, <3>2, <3>3 DEF Steps, IsGranted, Rests
  <2> QED
    BY <1>5, <1>6, <2>1, <2>2 DEF DbAcquire
<1>7. CASE DbRenew(r)
  <2>1. misread' = misread /\ ~Due(r)
    BY <1>7 DEF DbRenew, Due
  <2>2. CASE Renewable(r) /\ lease' = Extended /\ Committed(r)
    <3>1. Due(r)' /\ Told(r)' = 0
      BY <1>3, <2>2 DEF Committed, Due
    <3>2. Quiet /\ lease.remaining > 0
      BY <2>1, <2>2 DEF Quiet, Extended, Renewable, Row
    <3>3. lease.holder = r \/ lease.fence \in misread
      BY <2>2, MatchesMisread DEF Renewable
    <3> QED
      BY <1>1, <1>2, <3>1, <3>2, <3>3 DEF Steps, IsRenewed
  <2> QED
    BY <1>5, <1>7, <2>1, <2>2 DEF DbRenew
<1>8. CASE DbRelease(r)
  <2>1. /\ AnswerNone(r) /\ ~Due(r) /\ ~Due(r)' /\ misread' = misread
        /\ Told(r)' = 0
    BY <1>3, <1>4, <1>8 DEF DbRelease, Due, AnswerNone
  <2>2. CASE Matches(r)
    <3>1. lease' = Freed /\ lease.holder # NoHolder
      BY <1>8, <2>2 DEF DbRelease, Matches
    <3>2. Serving(r) = 0
      BY <1>8 DEF DbRelease, Serving, CallOfLocation, WorkerSupervised, Gone
    <3>3. Rests(lease.holder) \/ lease.fence \in misread
      BY <1>1, <2>2, <3>2, MatchesMisread DEF Rests
    <3>4. lease'.holder = NoHolder /\ lease'.fence = lease.fence /\ ~(lease'.remaining > 0)
      BY <3>1 DEF Freed
    <3> QED
      BY <1>1, <1>2, <2>1, <3>1, <3>3, <3>4 DEF Steps, Vacates, Keeps
  <2> QED
    BY <1>5, <1>8, <2>1, <2>2 DEF DbRelease
<1>9. CASE DbRefresh(r)
  <2>1. /\ Due(r) /\ ~Due(r)' /\ lease' = lease /\ call'[r] = "answered"
        /\ pc'[r] \in {"acquiring", "renewing"}
    BY <1>1, <1>9 DEF DbRefresh, Due, CallOfLocation
  <2>2. CASE lease.holder = NoHolder
    <3>1. reply'[r] = Failed /\ misread' = misread
      BY <1>9, <2>2 DEF DbRefresh
    <3>2. Told(r)' = 0
      BY <1>3, <1>4, <3>1
    <3> QED
      BY <1>1, <1>2, <2>1, <3>1, <3>2 DEF Steps, Misses, Quiet
  <2>3. CASE lease.holder # NoHolder
    <3>1. reply'[r] = RowToken /\ RowToken \in Token
      BY <1>9, <2>3, RefreshTells DEF DbRefresh
    <3>2. Told(r)' = lease.fence
      BY <2>1, <3>1 DEF Told, RowToken
    <3>3. misread' = IF lease.holder = r THEN misread ELSE misread \union {lease.fence}
      BY <1>9, <2>3 DEF DbRefresh
    <3> QED
      BY <1>2, <2>1, <2>3, <3>2, <3>3 DEF Steps, Hears
  <2> QED
    BY <2>2, <2>3
<1>10. CASE DbError(r)
  <2>1. Told(r)' = 0 /\ lease' = lease /\ misread' = misread /\ ~Due(r)'
    BY <1>3, <1>4, <1>10 DEF DbError, Due
  <2> QED
    BY <1>1, <1>2, <2>1 DEF Steps, Misses, Quiet
<1> QED
  BY <1>6, <1>7, <1>8, <1>9, <1>10 DEF DbStep

\* The coroutine begins an epoch with the answer that brings it, and keeps or
\* ends it with every other step.
LEMMA CoroutineSteps ==
  ASSUME IInv, NEW r \in Replica,
         Coroutine(r) \/ WorkerEnds(r) \/ Cancel(r) \/ Crash(r)
  PROVE  Steps(r)
<1> USE DEF IInv, TypeOK
<1>1. Quiet
  BY DEF Quiet, Coroutine, Contend, Acquired, AcquiredCancelled, PollRenew, WorkerDone,
         Yielded, Renewed, RenewedCancelled, Lost, Closed, Released, WorkerEnds, Cancel, Crash
<1>2. Due(r)' <=> Due(r)
  <2>1. CASE Coroutine(r)
    <3>1. ~Due(r)
      BY <2>1
      DEF Coroutine, Contend, Acquired, AcquiredCancelled, PollRenew, WorkerDone, Yielded,
          Renewed, RenewedCancelled, Lost, Closed, Released, Returned, Looked, CallOfLocation, Due
    <3>2. ~Due(r)'
      BY <2>1, <3>1
      DEF Coroutine, Contend, Acquired, AcquiredCancelled, PollRenew, WorkerDone, Yielded,
          Renewed, RenewedCancelled, Finally, Lost, Closed, Released, Returned, Looked, Issue, Due
    <3> QED
      BY <3>1, <3>2
  <2>2. CASE Cancel(r)
    BY <2>2 DEF Cancel, Finally, Issue, CallOfLocation, Due
  <2>3. CASE WorkerEnds(r) \/ Crash(r)
    BY <2>3 DEF WorkerEnds, Crash, Due
  <2> QED
    BY <2>1, <2>2, <2>3
<1>s. ~Active(r) => Serving(r) = 0
  BY DEF Serving
<1>t. (pc[r] \notin {"acquiring", "renewing"} \/ call[r] # "answered" \/ reply[r] \notin Token)
        => Told(r) = 0
  BY DEF Told
<1>u. pc'[r] \notin {"acquiring", "renewing"} => Told(r)' = 0
  BY DEF Told
<1>3. CASE Acquired(r) \/ Renewed(r)
  <2>1. /\ pc[r] \in {"acquiring", "renewing"} /\ call[r] = "answered"
        /\ pc'[r] \in {"leading", "standby", "losing"}
    BY <1>3 DEF Acquired, Renewed, Returned, Looked, Goto
  <2>2. Told(r)' = 0
    BY <2>1, <1>u
  <2>3. CASE reply[r] \in Token
    <3>1. token'[r] = reply[r]
      BY <1>3, <2>3 DEF Acquired, Renewed
    <3>2. Told(r) = reply[r].fence /\ Told(r) # 0
      BY <2>1, <2>3 DEF Told, Token
    <3>3. Serving(r)' \in {0, reply[r].fence}
      BY <3>1 DEF Serving
    <3> QED
      BY <1>1, <1>2, <2>2, <3>2, <3>3 DEF Steps, Begins, Ends
  <2>4. CASE reply[r] \notin Token
    <3>1. token'[r] = token[r] /\ (Active(r)' <=> Active(r))
      BY <1>3, <2>4 DEF Acquired, Renewed, CancelWorker, Active
    <3>2. Serving(r)' = Serving(r) /\ Told(r) = 0
      BY <1>t, <2>4, <3>1 DEF Serving
    <3> QED
      BY <1>1, <1>2, <2>2, <3>2 DEF Steps, Keeps
  <2> QED
    BY <2>3, <2>4
<1>4. CASE RenewedCancelled(r)
  <2>1. /\ pc[r] = "renewing" /\ call[r] = "answered"
        /\ pc'[r] \in {"closing", "releasing"}
    BY <1>4 DEF RenewedCancelled, Finally, Goto
  <2>2. Told(r)' = 0 /\ (Active(r)' <=> Active(r))
    BY <1>4, <2>1, <1>u DEF RenewedCancelled, Finally, CancelWorker, Active
  <2>3. CASE reply[r] \in Token
    <3>1. token'[r] = reply[r]
      BY <1>4, <2>3 DEF RenewedCancelled
    <3>2. Told(r) = reply[r].fence /\ Told(r) # 0
      BY <2>1, <2>3 DEF Told, Token
    <3>3. Serving(r)' \in {0, reply[r].fence}
      BY <3>1 DEF Serving
    <3> QED
      BY <1>1, <1>2, <2>2, <3>2, <3>3 DEF Steps, Begins, Ends
  <2>4. CASE reply[r] \notin Token
    <3>1. token'[r] = token[r]
      BY <1>4, <2>4 DEF RenewedCancelled
    <3>2. Serving(r)' = Serving(r) /\ Told(r) = 0
      BY <1>t, <2>2, <2>4, <3>1 DEF Serving
    <3> QED
      BY <1>1, <1>2, <2>2, <3>2 DEF Steps, Keeps
  <2> QED
    BY <2>3, <2>4
<1>5. CASE Contend(r) \/ AcquiredCancelled(r)
  <2>1. ~Active(r) /\ UNCHANGED worker
    BY <1>5 DEF Contend, AcquiredCancelled, WorkerSupervised
  <2>2. Told(r)' = 0
    BY <1>5 DEF Contend, AcquiredCancelled, Goto, Issue, Told
  <2>3. Serving(r)' = 0
    BY <2>1 DEF Active, Serving
  <2> QED
    BY <1>1, <1>2, <2>2, <2>3 DEF Steps, Ends
<1>6. CASE PollRenew(r) \/ WorkerDone(r) \/ Yielded(r) \/ Lost(r) \/ Closed(r) \/ Released(r)
  <2>1. Told(r) = 0 /\ Told(r)' = 0
    BY <1>6 DEF PollRenew, WorkerDone, Yielded, Lost, Closed, Released, Goto, Issue, Told
  <2>2. \/ worker'[r] = worker[r] /\ token'[r] = token[r]
        \/ worker'[r] = "none"
    BY <1>6 DEF PollRenew, WorkerDone, Yielded, Lost, Closed, Released
  <2>3. Serving(r)' = Serving(r) \/ Serving(r)' = 0
    BY <2>2 DEF Serving, Active
  <2> QED
    BY <1>1, <1>2, <2>1, <2>3 DEF Steps, Keeps, Ends
<1>7. CASE WorkerEnds(r)
  <2>1. Told(r)' = Told(r)
    BY <1>7 DEF WorkerEnds, Told
  <2>2. Serving(r)' = 0
    BY <1>7 DEF WorkerEnds, Serving, Active
  <2> QED
    BY <1>1, <1>2, <2>1, <2>2 DEF Steps, Ends
<1>8. CASE Cancel(r)
  <2>1. (Active(r)' <=> Active(r)) /\ token' = token
    BY <1>8 DEF Cancel, Finally, CancelWorker, Active
  <2>2. Serving(r)' = Serving(r)
    BY <2>1 DEF Serving
  <2>3. Told(r)' = Told(r)
    <3>1. CASE pc[r] \in {"acquiring", "renewing"}
      BY <1>8, <3>1 DEF Cancel, Told
    <3>2. CASE pc[r] \notin {"acquiring", "renewing"}
      BY <1>8, <1>t, <1>u, <3>2 DEF Cancel, Finally, Goto
    <3> QED
      BY <3>1, <3>2
  <2> QED
    BY <1>1, <1>2, <2>2, <2>3 DEF Steps, Keeps
<1>9. CASE Crash(r)
  <2>1. Told(r)' = 0 /\ Serving(r)' = 0
    BY <1>9 DEF Crash, Goto, Told, Serving, Active
  <2> QED
    BY <1>1, <1>2, <2>1 DEF Steps, Ends
<1> QED
  BY <1>3, <1>4, <1>5, <1>6, <1>7, <1>8, <1>9 DEF Coroutine

-----------------------------------------------------------------------------
\* A step of one replica, the others keeping what they await, have been told
\* and serve, is a step of FencedLease or a stutter.
AbstractVars == <<lease.holder, lease.fence, Live, DueAll, ToldAll, ServingAll, misread>>

LEMMA StepMaps ==
  ASSUME TypeOK, NEW m \in Replica, Steps(m), \A s \in Replica \ {m} : Keeps(s)
  PROVE  [Abstract!Next]_AbstractVars
<1> USE DEF Live
<1>1. /\ DueAll[m] = Due(m) /\ ToldAll[m] = Told(m) /\ ServingAll[m] = Serving(m)
      /\ DueAll' = [DueAll EXCEPT ![m] = Due(m)']
      /\ ToldAll' = [ToldAll EXCEPT ![m] = Told(m)']
      /\ ServingAll' = [ServingAll EXCEPT ![m] = Serving(m)']
  BY DEF Keeps, DueAll, ToldAll, ServingAll, Due
<1>2. /\ (Due(m)' <=> Due(m)) => DueAll' = DueAll
      /\ Told(m)' = Told(m) => ToldAll' = ToldAll
      /\ Serving(m)' = Serving(m) => ServingAll' = ServingAll
  BY DEF Keeps, DueAll, ToldAll, ServingAll, Due
<1>3. (Due(m)' => DueAll' = [DueAll EXCEPT ![m] = TRUE])
        /\ (~Due(m)' => DueAll' = [DueAll EXCEPT ![m] = FALSE])
  BY <1>1 DEF Due
<1>4. CASE Quiet /\ Keeps(m)
  BY <1>2, <1>4 DEF Quiet, Keeps, AbstractVars
<1>5. CASE Ends(m)
  <2>1. Abstract!Rest(m)
    <3>1. \E t \in {0, ToldAll[m]} : ToldAll' = [ToldAll EXCEPT ![m] = t]
      BY <1>1, <1>5 DEF Ends
    <3>2. ServingAll' = [ServingAll EXCEPT ![m] = 0] /\ DueAll' = DueAll
      BY <1>1, <1>2, <1>5 DEF Ends
    <3>3. /\ UNCHANGED <<lease.holder, lease.fence, misread>>
          /\ (lease'.remaining > 0) = (lease.remaining > 0)
      BY <1>5 DEF Ends, Quiet
    <3> QED
      BY <3>1, <3>2, <3>3 DEF Abstract!Rest
  <2> QED
    BY <2>1 DEF Abstract!Next
<1>6. CASE Begins(m)
  <2>1. Abstract!Begin(m)
    BY <1>1, <1>2, <1>6 DEF Begins, Quiet, Abstract!Begin
  <2> QED
    BY <2>1 DEF Abstract!Next
<1>7. CASE IsGranted(m)
  <2>1. Abstract!Grant(m)
    BY <1>1, <1>2, <1>3, <1>7 DEF IsGranted, Rests, Abstract!Grant, Abstract!Resting
  <2> QED
    BY <2>1 DEF Abstract!Next
<1>8. CASE IsRenewed(m)
  <2>1. Abstract!Renew(m)
    BY <1>2, <1>3, <1>8 DEF IsRenewed, Quiet, Abstract!Renew, Abstract!Garbled
  <2> QED
    BY <2>1 DEF Abstract!Next
<1>9. CASE Hears(m)
  <2>1. Abstract!Hear(m)
    BY <1>1, <1>2, <1>3, <1>9 DEF Hears, Abstract!Hear
  <2> QED
    BY <2>1 DEF Abstract!Next
<1>10. CASE Misses(m)
  <2>1. Abstract!Miss(m)
    BY <1>2, <1>3, <1>10 DEF Misses, Quiet, Abstract!Miss
  <2> QED
    BY <2>1 DEF Abstract!Next
<1>11. CASE Vacates(m)
  <2>1. lease.holder \in Replica
    BY <1>11 DEF Vacates, TypeOK, Row
  <2>2. Rests(lease.holder) => Abstract!Resting(lease.holder)
    BY <2>1 DEF Rests, Abstract!Resting, ToldAll, ServingAll
  <2>3. Abstract!Vacate
    BY <1>2, <1>11, <2>2 DEF Vacates, Keeps, Abstract!Vacate, Abstract!Garbled
  <2> QED
    BY <2>3 DEF Abstract!Next
<1> QED
  BY <1>4, <1>5, <1>6, <1>7, <1>8, <1>9, <1>10, <1>11 DEF Steps

\* Every step of the protocol.
LEMMA LeadershipMaps ==
  ASSUME IInv, [Next]_vars
  PROVE  [Abstract!Next]_AbstractVars
<1>1. CASE UNCHANGED vars
  BY <1>1 DEF vars, AbstractVars, DueAll, ToldAll, ServingAll, Told, Serving, Active, Live
<1>2. CASE Tick
  <2>1. DueAll' = DueAll /\ ToldAll' = ToldAll /\ ServingAll' = ServingAll /\ misread' = misread
    BY <1>2 DEF Tick, DueAll, ToldAll, ServingAll, Told, Serving, Active
  <2>2. lease'.holder = lease.holder /\ lease'.fence = lease.fence /\ lease.remaining > 0
    BY <1>2 DEF Tick, IInv, TypeOK, Row
  <2>3. CASE lease'.remaining > 0
    BY <2>1, <2>2, <2>3 DEF Live, AbstractVars
  <2>4. CASE ~(lease'.remaining > 0)
    <3>1. Abstract!Lapse
      BY <2>1, <2>2, <2>4 DEF Abstract!Lapse, Live
    <3> QED
      BY <3>1 DEF Abstract!Next
  <2> QED
    BY <2>3, <2>4
<1>3. ASSUME NEW m \in Replica,
             \/ DbStep(m) \/ DbError(m) \/ Coroutine(m)
             \/ WorkerEnds(m) \/ Cancel(m) \/ Crash(m)
      PROVE  [Abstract!Next]_AbstractVars
  <2>1. ASSUME NEW s \in Replica \ {m} PROVE Keeps(s)
    <3>1. /\ pc'[s] = pc[s] /\ token'[s] = token[s] /\ worker'[s] = worker[s]
          /\ call'[s] = call[s] /\ reply'[s] = reply[s]
      BY <1>3, OthersLeave DEF IInv
    <3> QED
      BY <3>1 DEF Keeps, Due, Told, Serving, Active
  <2>2. Steps(m)
    BY <1>3, CallSteps, CoroutineSteps
  <2> QED
    BY <2>1, <2>2, StepMaps DEF IInv
<1> QED
  BY <1>1, <1>2, <1>3 DEF Next

\* Row, calls, answers and coroutines together implement FencedLease: grants,
\* renewals, answers, mishearings, beginnings, ends and vacations are its
\* steps, everything else stutters.
THEOREM Implements == Spec => ImplementsFencedLease
<1>1. Init => Abstract!Init
  <2> SUFFICES ASSUME Init PROVE Abstract!Init
    OBVIOUS
  <2>1. \A r \in Replica : /\ (call[r] = "refresh") = FALSE
                           /\ Told(r) = 0 /\ Serving(r) = 0
    BY DEF Init, Told, Serving, Active
  <2>2. /\ DueAll = [r \in Replica |-> FALSE]
        /\ ToldAll = [r \in Replica |-> 0] /\ ServingAll = [r \in Replica |-> 0]
    BY <2>1 DEF DueAll, ToldAll, ServingAll
  <2> QED
    BY <2>2 DEF Init, Abstract!Init, Live
<1>2. IInv /\ [Next]_vars => [Abstract!Next]_AbstractVars
  BY LeadershipMaps
<1>3. IInv /\ [Next]_vars => [Abstract!Next]_Abstract!vars
  BY <1>2 DEF AbstractVars, Abstract!vars
<1> QED
  BY Invariant, <1>1, <1>3, PTL DEF Spec, Abstract!Spec, ImplementsFencedLease

\* No two replicas ever work under the same fence, and whoever works under the
\* row's fence holds the row, but for the fences that were misread: a check of
\* any other fence admits one replica at most.
THEOREM OneServerPerFence == Spec => []Abstract!Exclusive
<1>1. IInv => Abstract!Exclusive
  <2> SUFFICES ASSUME IInv, NEW r \in Replica, Serving(r) # 0
               PROVE  /\ Serving(r) <= lease.fence
                      /\ Serving(r) \notin misread =>
                           /\ Serving(r) = lease.fence => lease.holder = r
                           /\ \A s \in Replica \ {r} : Serving(s) # Serving(r)
    BY DEF Abstract!Exclusive, ServingAll
  <2>1. Active(r) /\ Serving(r) = token[r].fence /\ token[r] \in Token
    BY DEF Serving, IInv, WorkerSupervised
  <2>2. token[r].fence <= lease.fence /\ token[r].fence \in Nat /\ lease.fence \in Nat
    BY <2>1 DEF IInv, TypeOK, Row, FencesDistinct, Known, Token
  <2>3. ASSUME Serving(r) \notin misread, Serving(r) = lease.fence
        PROVE  lease.holder = r
    <3>1. ~Stale(r)
      BY <2>1, <2>2, <2>3 DEF Stale
    <3> QED
      BY <2>1, <2>3, <3>1 DEF IInv, HandoverAfterWorkerStops
  <2>4. ASSUME Serving(r) \notin misread, NEW s \in Replica \ {r}, Serving(s) = Serving(r)
        PROVE  FALSE
    <3>1. Active(s) /\ Serving(s) = token[s].fence /\ token[s] \in Token
      BY <2>1, <2>4 DEF Serving, IInv, WorkerSupervised, Token
    <3> QED
      BY <2>1, <2>4, <3>1 DEF IInv, FencesDistinct, Known
  <2> QED
    BY <2>1, <2>2, <2>3, <2>4
<1> QED
  BY <1>1, Invariant, PTL

=============================================================================
