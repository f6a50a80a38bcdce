-------------------------- MODULE WorkerRecordProofs --------------------------
(***************************************************************************)
(* What a row or a worker claims to have done has been done; a settled row *)
(* stays settled; one worker keeps the throttle: for every set of          *)
(* messages, workers and faults.                                           *)
(***************************************************************************)
EXTENDS WorkerReplyProofs, FiniteSetTheorems

USE DEF Null

-----------------------------------------------------------------------------
(***************************************************************************)
(* What grows, and who takes the steps that must not come too early        *)
(***************************************************************************)

\* Replies, logged replies and letters are never taken back.
LEMMA CountsGrow ==
  ASSUME TypeOK, Next, NEW m \in Msgs
  PROVE  /\ replies[m] \in Nat /\ replies'[m] \in Nat /\ replies'[m] >= replies[m]
         /\ dryRun[m] \in Nat /\ dryRun'[m] \in Nat /\ dryRun'[m] >= dryRun[m]
         /\ letters[m] \in Nat /\ letters'[m] \in Nat /\ letters'[m] >= letters[m]
  <1> USE DEF TypeOK, TablesTypeOK
  <1>1. /\ replies[m] \in Nat /\ replies'[m] \in Nat
        /\ dryRun[m] \in Nat /\ dryRun'[m] \in Nat
        /\ letters[m] \in Nat /\ letters'[m] \in Nat
    BY RestType
  <1>2. replies' = replies \/ \E n \in Msgs : Reply(n)
    BY DEF Next, Enqueue, Lease, Elapse, Claim, Recover, AllSettled, vars, Outside,
        WorkerStep, Fetch, FetchFails, Mark, Throttle, DryRunSend, PostAnswered,
        PostRejected, Record, Finalize, Retry, WriteLetter, CloseRow, PostAnswerLost,
        Crash, DbError, SweepStep, SweepSelect, SweepWriteLetter, SweepCloseRow,
        SweepFails, Sending, Busy
  <1>3. \/ dryRun' = dryRun
        \/ \E n \in Msgs : dryRun' = [dryRun EXCEPT ![n] = dryRun[n] + 1]
    BY DEF Next, Enqueue, Lease, Elapse, Claim, Recover, AllSettled, vars, Outside,
        WorkerStep, Fetch, FetchFails, Mark, Throttle, DryRunSend, PostAnswered,
        PostRejected, Record, Finalize, Retry, WriteLetter, CloseRow, PostAnswerLost,
        Crash, DbError, SweepStep, SweepSelect, SweepWriteLetter, SweepCloseRow,
        SweepFails, Busy
  <1>4. letters' = letters \/ \E n \in Msgs : InsertLetter(n)
    BY DEF Next, Enqueue, Lease, Elapse, Claim, Recover, AllSettled, vars, Outside,
        WorkerStep, Fetch, FetchFails, Mark, Throttle, DryRunSend, PostAnswered,
        PostRejected, Record, Finalize, Retry, WriteLetter, CloseRow, PostAnswerLost,
        Crash, DbError, SweepStep, SweepSelect, SweepWriteLetter, SweepCloseRow,
        SweepFails, Busy
  <1>5. replies'[m] >= replies[m]
    BY <1>1, <1>2 DEF Reply
  <1>6. dryRun'[m] >= dryRun[m]
    BY <1>1, <1>3
  <1>7. letters'[m] >= letters[m]
    BY <1>1, <1>4 DEF InsertLetter
  <1>q. QED BY <1>1, <1>5, <1>6, <1>7

\* A worker is only about to write sent_at, to finalize or to close a row after
\* the step that entitles it to.
LEMMA LateMoves ==
  ASSUME TypeOK, OtherSteps, NEW w \in Workers,
         worker'[w].pc \in {"record", "finalize", "close"}
  PROVE  \/ worker'[w] = worker[w]
         \/ worker'[w].pc = "record" /\ PostAnswered(w)
         \/ worker'[w].pc = "finalize" /\ (Record(w) \/ DryRunSend(w))
         \/ worker'[w].pc = "close" /\ WriteLetter(w)
  <1> USE DEF TypeOK
  <1>1. CASE UNCHANGED worker
    BY <1>1
  <1>2. ASSUME NEW v \in Workers,
               WorkerStep(v) \/ PostAnswerLost(v) \/ Crash(v) \/ DbError(v)
        PROVE  \/ worker'[w] = worker[w]
               \/ worker'[w].pc = "record" /\ PostAnswered(w)
               \/ worker'[w].pc = "finalize" /\ (Record(w) \/ DryRunSend(w))
               \/ worker'[w].pc = "close" /\ WriteLetter(w)
    <2>1. CASE v # w
      BY <1>2, <2>1, WorkerMoves
    <2>2. CASE PostAnswered(w) \/ Record(w) \/ DryRunSend(w) \/ WriteLetter(w)
      BY <2>2, GotoEffect DEF PostAnswered, Record, DryRunSend, WriteLetter, Pc
    <2>3. ~Mark(w) /\ ~Finalize(w) /\ ~CloseRow(w) /\ ~Crash(w)
      BY ReleaseEffect DEF Mark, Finalize, CloseRow, Crash
    <2>4. ~Retry(w)
      BY ReleaseEffect, GotoEffect DEF Retry, Pc
    <2>5. ~FetchFails(w) /\ ~DbError(w)
      BY GotoEffect, HandlerPc DEF FetchFails, DbError, Pc, ErrorKinds
    <2>6. ~PostRejected(w) /\ ~PostAnswerLost(w)
      BY PostFailsEffect DEF PostRejected, PostAnswerLost, Sending, ErrorKinds
    <2>7. ~Throttle(w)
      BY GotoEffect DEF Throttle, Pc
    <2>8. ~Fetch(w)
      BY GotoEffect DEF Fetch, Verdicts, Verdict, Pc
    <2>q. QED
      BY <1>2, <2>1, <2>2, <2>3, <2>4, <2>5, <2>6, <2>7, <2>8 DEF WorkerStep
  <1>q. QED
    BY <1>1, <1>2
    DEF OtherSteps, Enqueue, Lease, Elapse, Recover, SweepStep, SweepSelect,
        SweepWriteLetter, SweepCloseRow, SweepFails, AllSettled, vars

\* sent_at is written by the worker on the row, under its current claim.
LEMMA SentMoves ==
  ASSUME TypeOK, OtherSteps, NEW m \in Msgs, queue'[m].sent # "null"
  PROVE  queue[m].sent # "null" \/ \E w \in Workers : On(w, m) /\ Record(w)
  <1> USE DEF TypeOK, TablesTypeOK
  <1>1. CASE queue'[m] = queue[m] \/ Enqueue(m) \/ Lease(m) \/ Elapse(m)
    BY <1>1, TickKeepsRow DEF KeepsRow
  <1>2. ASSUME NEW w \in Workers, On(w, m), Writes(w)
        PROVE  queue[m].sent # "null" \/ Record(w)
    BY <1>2, CloseEffect, DoneEffect, RetryEffect
    DEF On, Writes, Mark, MarkStatus, Finalize, Retry, CloseRow, CloseLetter, Terminal
  <1>3. CASE SweepCloseRow /\ m = sweep.current
    BY <1>3, CloseEffect DEF SweepCloseRow, CloseLetter, Terminal
  <1>4. CASE Recover
    BY <1>4, RecoverEffect, PendingRowFields DEF Recover
  <1>q. QED BY <1>1, <1>2, <1>3, <1>4, RowMoves

\* A row is done by the worker that holds it.
LEMMA DoneMoves ==
  ASSUME TypeOK, OtherSteps, NEW m \in Msgs, queue'[m].status = "done"
  PROVE  \/ queue[m].status = "done"
         \/ \E w \in Workers : Holds(w, m) /\ Finalize(w)
  <1> USE DEF TypeOK, TablesTypeOK
  <1>1. CASE queue'[m] = queue[m] \/ Enqueue(m) \/ Lease(m) \/ Elapse(m)
    BY <1>1, TickKeepsRow DEF KeepsRow
  <1>2. ASSUME NEW w \in Workers, On(w, m), Writes(w)
        PROVE  queue[m].status = "done" \/ (Holds(w, m) /\ Finalize(w))
    <2>1. CASE Mark(w) \/ CloseRow(w)
      BY <1>2, <2>1, CloseEffect DEF On, Mark, MarkStatus, CloseRow, CloseLetter, Terminal
    <2>2. CASE Record(w)
      BY <1>2, <2>2, SentEffect DEF On, Record
    <2>3. CASE Retry(w)
      BY <1>2, <2>3, RetryEffect DEF On, Retry
    <2>4. CASE Finalize(w)
      BY <1>2, <2>4, DoneEffect DEF On, Holds, Finalize
    <2>q. QED BY <1>2, <2>1, <2>2, <2>3, <2>4 DEF Writes
  <1>3. ~(SweepCloseRow /\ m = sweep.current)
    BY CloseEffect DEF SweepCloseRow, CloseLetter, Terminal
  <1>4. CASE Recover
    BY <1>4, RecoverEffect, PendingRowFields DEF Recover
  <1>q. QED BY <1>1, <1>2, <1>3, <1>4, RowMoves

\* A row is dead-lettered by a worker or a sweep at the end of its letter.
LEMMA LetteredMoves ==
  ASSUME TypeOK, OtherSteps, NEW m \in Msgs, queue'[m].status = "dead_lettered"
  PROVE  \/ queue[m].status = "dead_lettered"
         \/ \E w \in Workers : On(w, m) /\ CloseRow(w)
         \/ SweepCloseRow /\ m = sweep.current
  <1> USE DEF TypeOK, TablesTypeOK
  <1>1. CASE queue'[m] = queue[m] \/ Enqueue(m) \/ Lease(m) \/ Elapse(m)
    BY <1>1, TickKeepsRow DEF KeepsRow
  <1>2. ASSUME NEW w \in Workers, On(w, m), Writes(w)
        PROVE  queue[m].status = "dead_lettered" \/ CloseRow(w)
    BY <1>2, CloseEffect, SentEffect, DoneEffect, RetryEffect
    DEF On, Writes, Mark, MarkStatus, Record, Finalize, Retry, Terminal
  <1>3. CASE Recover
    BY <1>3, RecoverEffect, PendingRowFields DEF Recover
  <1>q. QED BY <1>1, <1>2, <1>3, RowMoves

-----------------------------------------------------------------------------
(***************************************************************************)
(* Records and letters                                                     *)
(***************************************************************************)

LEMMA RecordInvInit == Init => RecordInv
  BY DEF Init, TablesInit, AbsentRow, RecordInv, Holds, On, Busy, Idle

LEMMA RecordInvStep ==
  ASSUME TypeOK, ClaimInv, RecordInv, [Next]_vars
  PROVE  RecordInv'
  <1> DEFINE
        Sent      == \A m \in Msgs :
                       queue[m].sent # "null" => replies[m] >= 1 /\ Mode = "live"
        Answered  == \A w \in Workers, m \in Msgs :
                       On(w, m) /\ worker[w].pc = "record"
                         => replies[m] >= 1 /\ Mode = "live"
        Finishing == \A w \in Workers, m \in Msgs :
                       Holds(w, m) /\ worker[w].pc = "finalize" =>
                         IF Mode = "live" THEN queue[m].sent # "null" ELSE dryRun[m] >= 1
        Finished  == \A m \in Msgs : queue[m].status = "done" =>
                       IF Mode = "live" THEN queue[m].sent # "null" ELSE dryRun[m] >= 1
  <1>0. RecordInv <=> Sent /\ Answered /\ Finishing /\ Finished
    BY DEF RecordInv
  <1> USE DEF TypeOK, TablesTypeOK
  <1>1. CASE OtherSteps
    <2>1. \A m \in Msgs : /\ replies[m] \in Nat /\ replies'[m] \in Nat
                          /\ replies'[m] >= replies[m]
                          /\ dryRun[m] \in Nat /\ dryRun'[m] \in Nat
                          /\ dryRun'[m] >= dryRun[m]
      BY <1>1, CountsGrow DEF Next, OtherSteps
    <2>2. Sent'
      <3> SUFFICES ASSUME NEW m \in Msgs, queue'[m].sent # "null"
                   PROVE  replies'[m] >= 1 /\ Mode = "live"
        OBVIOUS
      <3>1. replies[m] >= 1 /\ Mode = "live"
        BY <1>0, <1>1, SentMoves DEF Record
      <3>q. QED BY <2>1, <3>1
    <2>3. Answered'
      <3> SUFFICES ASSUME NEW w \in Workers, NEW m \in Msgs,
                          On(w, m)', worker'[w].pc = "record"
                   PROVE  replies'[m] >= 1 /\ Mode = "live"
        OBVIOUS
      <3>1. On(w, m)
        BY <1>1, WorkerKeeps DEF On
      <3>2. CASE worker'[w] = worker[w]
        BY <1>0, <2>1, <3>1, <3>2
      <3>3. CASE PostAnswered(w)
        BY <2>1, <3>1, <3>3 DEF PostAnswered, Sending, Reply, On
      <3>q. QED BY <1>1, <3>2, <3>3, LateMoves
    <2>4. Finishing'
      <3> SUFFICES ASSUME NEW w \in Workers, NEW m \in Msgs,
                          Holds(w, m)', worker'[w].pc = "finalize"
                   PROVE  IF Mode = "live" THEN queue'[m].sent # "null"
                                           ELSE dryRun'[m] >= 1
        OBVIOUS
      <3>1. Holds(w, m)
        BY <1>1, HoldsBack
      <3>2. CASE worker'[w] = worker[w]
        BY <1>0, <1>1, <2>1, <3>1, <3>2, SentStays
      <3>3. CASE Record(w)
        <4>1. queue'[m].sent = "recent"
          BY <3>1, <3>3, SentEffect DEF Record, Holds, On
        <4>q. QED BY <1>0, <3>1, <3>3, <4>1 DEF Record, Holds
      <3>4. CASE DryRunSend(w)
        BY <2>1, <3>1, <3>4 DEF DryRunSend, Holds, On
      <3>q. QED BY <1>1, <3>2, <3>3, <3>4, LateMoves
    <2>5. Finished'
      <3> SUFFICES ASSUME NEW m \in Msgs, queue'[m].status = "done"
                   PROVE  IF Mode = "live" THEN queue'[m].sent # "null"
                                           ELSE dryRun'[m] >= 1
        OBVIOUS
      <3>1. IF Mode = "live" THEN queue[m].sent # "null" ELSE dryRun[m] >= 1
        BY <1>0, <1>1, DoneMoves DEF Finalize
      <3>q. QED BY <1>1, <2>1, <3>1, SentStays
    <2>q. QED BY <1>0, <2>2, <2>3, <2>4, <2>5 DEF RecordInv
  <1>2. ASSUME NEW u \in Workers, NEW k \in Msgs, Claim(u, k)
        PROVE  RecordInv'
    <2>1. /\ worker'[u].pc = IF queue[k].sent = "null" THEN "fetch" ELSE "finalize"
          /\ worker'[u].msg = k
          /\ \A v \in Workers : v # u => worker'[v] = worker[v]
      BY <1>2, ClaimEffect
    <2>2. /\ queue'[k].status = "claimed"
          /\ \A n \in Msgs : queue'[n].sent = queue[n].sent
          /\ \A n \in Msgs : n # k => queue'[n] = queue[n]
      BY <1>2, ClaimRowEffect
    <2>3. replies' = replies /\ dryRun' = dryRun
      BY <1>2 DEF Claim, Outside
    <2>4. Sent' /\ Finished'
      BY <1>0, <2>2, <2>3
    <2>5. Answered'
      BY <1>0, <2>1, <2>3 DEF On, Busy
    <2>6. Finishing'
      <3> SUFFICES ASSUME NEW w \in Workers, NEW m \in Msgs,
                          Holds(w, m)', worker'[w].pc = "finalize"
                   PROVE  IF Mode = "live" THEN queue[m].sent # "null"
                                           ELSE dryRun[m] >= 1
        BY <2>2, <2>3
      <3>1. CASE w = u /\ m = k
        BY <1>0, <2>1, <3>1
      <3>2. CASE Holds(w, m) /\ worker'[w] = worker[w]
        BY <1>0, <3>2
      <3>q. QED BY <1>2, <3>1, <3>2, ClaimHoldsBack
    <2>q. QED BY <1>0, <2>4, <2>5, <2>6 DEF RecordInv
  <1>3. CASE UNCHANGED vars
    BY <1>3 DEF vars, RecordInv, Holds, On, Busy
  <1>q. QED BY <1>1, <1>2, <1>3 DEF Next, OtherSteps

\* A row is done only after its reply went out, or was logged in a dry run.
THEOREM DoneMeansAnsweredCorrect == Spec => []DoneMeansAnswered
  <1>1. RecordInv => DoneMeansAnswered
    BY DEF RecordInv, DoneMeansAnswered
  <1>q. QED
    BY <1>1, TypeInit, TypeStep, ClaimInvInit, ClaimInvStep, RecordInvInit,
       RecordInvStep, PTL DEF Spec

\* The sweep is at the end of a letter only after it wrote it.
LEMMA SweepWrites ==
  ASSUME TypeOK, OtherSteps, sweep'.current # NoMsg
  PROVE  \/ sweep'.current = sweep.current
         \/ sweep'.current \in Msgs /\ InsertLetter(sweep'.current)
  <1> USE DEF TypeOK, SweepState
  <1>1. CASE UNCHANGED sweep
    BY <1>1
  <1>2. CASE SweepStep
    BY <1>2 DEF SweepStep, SweepSelect, SweepWriteLetter, SweepCloseRow
  <1>3. CASE SweepFails
    BY <1>3 DEF SweepFails, Resting
  <1>q. QED
    BY <1>1, <1>2, <1>3
    DEF OtherSteps, Enqueue, Lease, Elapse, Recover, AllSettled, vars, Outside,
        WorkerStep, Fetch, FetchFails, Mark, Throttle, DryRunSend, PostAnswered,
        PostRejected, Record, Finalize, Retry, WriteLetter, CloseRow,
        PostAnswerLost, Crash, DbError

LEMMA LetterInvInit == Init => LetterInv
  BY DEF Init, TablesInit, AbsentRow, LetterInv, Resting, On, Busy, Idle

LEMMA LetterInvStep ==
  ASSUME TypeOK, LetterInv, [Next]_vars
  PROVE  LetterInv'
  <1> DEFINE
        Closing == \A w \in Workers, m \in Msgs :
                     On(w, m) /\ worker[w].pc = "close" => letters[m] >= 1
        Swept   == sweep.current # NoMsg => letters[sweep.current] >= 1
        Closed  == \A m \in Msgs : queue[m].status = "dead_lettered" => letters[m] >= 1
  <1>0. LetterInv <=> Closing /\ Swept /\ Closed
    BY DEF LetterInv
  <1> USE DEF TypeOK, TablesTypeOK
  <1>1. CASE OtherSteps
    <2>1. \A m \in Msgs : /\ letters[m] \in Nat /\ letters'[m] \in Nat
                          /\ letters'[m] >= letters[m]
      BY <1>1, CountsGrow DEF Next, OtherSteps
    <2>2. Closing'
      <3> SUFFICES ASSUME NEW w \in Workers, NEW m \in Msgs,
                          On(w, m)', worker'[w].pc = "close"
                   PROVE  letters'[m] >= 1
        OBVIOUS
      <3>1. On(w, m)
        BY <1>1, WorkerKeeps DEF On
      <3>2. CASE worker'[w] = worker[w]
        BY <1>0, <2>1, <3>1, <3>2
      <3>3. CASE WriteLetter(w)
        BY <2>1, <3>1, <3>3 DEF WriteLetter, InsertLetter, On
      <3>q. QED BY <1>1, <3>2, <3>3, LateMoves
    <2>3. Swept'
      <3> SUFFICES ASSUME sweep'.current # NoMsg
                   PROVE  letters'[sweep'.current] >= 1
        OBVIOUS
      <3>1. CASE sweep'.current = sweep.current
        BY <1>0, <2>1, <3>1 DEF SweepState
      <3>2. CASE sweep'.current \in Msgs /\ InsertLetter(sweep'.current)
        BY <2>1, <3>2 DEF InsertLetter
      <3>q. QED BY <1>1, <3>1, <3>2, SweepWrites
    <2>4. Closed'
      <3> SUFFICES ASSUME NEW m \in Msgs, queue'[m].status = "dead_lettered"
                   PROVE  letters'[m] >= 1
        OBVIOUS
      <3>1. letters[m] >= 1
        BY <1>0, <1>1, LetteredMoves DEF CloseRow, SweepCloseRow
      <3>q. QED BY <2>1, <3>1
    <2>q. QED BY <1>0, <2>2, <2>3, <2>4 DEF LetterInv
  <1>2. ASSUME NEW u \in Workers, NEW k \in Msgs, Claim(u, k)
        PROVE  LetterInv'
    <2>1. /\ worker'[u].pc \in {"fetch", "finalize"}
          /\ \A v \in Workers : v # u => worker'[v] = worker[v]
      BY <1>2, ClaimEffect
    <2>2. /\ queue'[k].status = "claimed"
          /\ \A n \in Msgs : n # k => queue'[n] = queue[n]
      BY <1>2, ClaimRowEffect
    <2>3. letters' = letters /\ sweep' = sweep
      BY <1>2 DEF Claim, Outside
    <2>q. QED BY <1>0, <2>1, <2>2, <2>3 DEF LetterInv, On, Busy
  <1>3. CASE UNCHANGED vars
    BY <1>3 DEF vars, LetterInv, On, Busy
  <1>q. QED BY <1>1, <1>2, <1>3 DEF Next, OtherSteps

\* No row is closed as dead-lettered without its letter.
THEOREM DeadLetterRecordedCorrect == Spec => []DeadLetterRecorded
  <1>1. LetterInv => DeadLetterRecorded
    BY DEF LetterInv, DeadLetterRecorded
  <1>q. QED
    BY <1>1, TypeInit, TypeStep, LetterInvInit, LetterInvStep, PTL DEF Spec

-----------------------------------------------------------------------------
(***************************************************************************)
(* A settled row stays settled                                             *)
(***************************************************************************)

LEMMA SweepInvInit == Init => SweepInv
  BY DEF Init, SweepInv, Sweeping, Resting

LEMMA SweepInvStep ==
  ASSUME TypeOK, ClaimInv, BudgetInv, FenceInv, SweepInv, [Next]_vars
  PROVE  SweepInv'
  <1> USE DEF TypeOK, TablesTypeOK
  <1>0. MaxAttempts \in Nat /\ \A m \in Msgs : queue[m].attempts \in Nat
    BY QueueAssumption DEF Row
  <1>1. CASE OtherSteps
    <2> SUFFICES ASSUME NEW m \in Sweeping', Fenced(m)'
                 PROVE  queue'[m].status \in {"pending", "dead_lettered"}
      BY DEF SweepInv
    <2>1. m \in Msgs /\ (m \in Sweeping \/ Exhausted(m))
      BY <1>1, SweepMoves DEF Next, OtherSteps
    <2>2. Fenced(m)
      BY <1>1, <2>1, FencedBack DEF Next, OtherSteps
    <2>3. /\ queue[m].status \in {"pending", "dead_lettered"}
          /\ queue[m].attempts >= MaxAttempts
      BY <2>1, <2>2 DEF SweepInv, BudgetInv, Exhausted
    <2>4. CASE queue'[m] = queue[m] \/ Enqueue(m) \/ Lease(m) \/ Elapse(m)
      BY <2>1, <2>3, <2>4, TickKeepsRow DEF KeepsRow
    <2>5. ASSUME NEW w \in Workers, On(w, m), Writes(w)
          PROVE  queue'[m].status \in {"pending", "dead_lettered"}
      <3>1. CloseRow(w)
        BY <2>1, <2>2, <2>3, <2>5, WriterHolds, FencedAlone
      <3>q. QED BY <2>1, <2>5, <3>1, CloseEffect DEF CloseRow, CloseLetter, Terminal, On
    <2>6. CASE SweepCloseRow /\ m = sweep.current
      BY <2>1, <2>6, CloseEffect DEF SweepCloseRow, CloseLetter, Terminal
    <2>7. m \notin Stale
      BY <2>3 DEF Stale
    <2>q. QED BY <1>1, <2>1, <2>4, <2>5, <2>6, <2>7, RowMoves
  <1>2. ASSUME NEW u \in Workers, NEW k \in Msgs, Claim(u, k)
        PROVE  SweepInv'
    <2>1. /\ queue[k].attempts < MaxAttempts
          /\ \A n \in Msgs : n # k => queue'[n] = queue[n]
      BY <1>2, ClaimRowEffect
    <2>2. k \notin Sweeping
      BY <1>0, <2>1 DEF BudgetInv
    <2>3. Sweeping' = Sweeping /\ Sweeping \subseteq Msgs /\ exposed' = exposed
      BY <1>2 DEF Claim, Outside, NoFault, Sweeping, SweepState
    <2>q. QED BY <2>1, <2>2, <2>3 DEF SweepInv, Fenced
  <1>3. CASE UNCHANGED vars
    BY <1>3 DEF vars, SweepInv, Sweeping, Fenced
  <1>q. QED BY <1>1, <1>2, <1>3 DEF Next, OtherSteps

\* A reply is posted by a worker that is on the row, at its POST.
LEMMA ReplyBySender ==
  ASSUME TypeOK, [Next]_vars, NEW m \in Msgs, replies'[m] # replies[m]
  PROVE  \E u \in Workers : On(u, m) /\ Sending(u)
  <1> USE DEF TypeOK
  <1>1. PICK u \in Workers : Sending(u) /\ Reply(worker[u].msg)
    BY DEF Next, vars, Enqueue, Lease, Elapse, Claim, Recover, AllSettled, Outside,
        WorkerStep, Fetch, FetchFails, Mark, Throttle, DryRunSend, PostAnswered,
        PostRejected, Record, Finalize, Retry, WriteLetter, CloseRow,
        PostAnswerLost, Crash, DbError, SweepStep, SweepSelect, SweepWriteLetter,
        SweepCloseRow, SweepFails
  <1>2. worker[u].msg = m
    BY <1>1 DEF Reply, Sending, Busy
  <1>q. QED BY <1>1, <1>2 DEF On, Busy, Sending

\* Who is about to POST the reply to an unexposed message holds its claim and
\* finds it unanswered.
LEMMA SenderHolds ==
  ASSUME TypeOK, ClaimInv, FenceInv, ReplyInv, NEW m \in Msgs, m \notin exposed,
         NEW u \in Workers, On(u, m), Sending(u)
  PROVE  Holds(u, m) /\ queue[m].status = "claimed" /\ queue[m].sent = "null"
  <1>1. Fenced(m) /\ worker[u].pc = "send"
    BY DEF Fenced, Sending
  <1>2. Holds(u, m) /\ queue[m].status = "claimed"
    BY <1>1, FencedAlone DEF Settling
  <1>q. QED BY <1>1, <1>2 DEF ReplyInv, BeforePost

LEMMA NoReplyAfterRecordStep ==
  ASSUME TypeOK, ClaimInv, FenceInv, ReplyInv, [Next]_vars
  PROVE  \A m \in Msgs : /\ queue[m].sent # "null"
                         /\ replies'[m] # replies[m]
                         => m \in exposed
  BY ReplyBySender, SenderHolds

\* Once sent_at is recorded, only a message that a fault exposed is answered
\* again.
THEOREM NoReplyAfterRecordCorrect == Spec => NoReplyAfterRecord
  <1>1. /\ TypeOK /\ ClaimInv /\ FenceInv /\ ReplyInv /\ [Next]_vars
        => [\A m \in Msgs : /\ queue[m].sent # "null"
                            /\ replies'[m] # replies[m]
                            => m \in exposed]_vars
    BY NoReplyAfterRecordStep
  <1>q. QED
    BY <1>1, TypeInit, TypeStep, ClaimInvInit, ClaimInvStep, BudgetInvInit,
       BudgetInvStep, FenceInvInit, FenceInvStep, ReplyInvInit, ReplyInvStep,
       PTL DEF Spec, NoReplyAfterRecord

\* Of the workers and the sweep, only one that dead-letters the row once more
\* touches an unexposed row that is settled.
LEMMA SettledStaysStep ==
  ASSUME TypeOK, ClaimInv, BudgetInv, FenceInv, ReplyInv, SweepInv, [Next]_vars,
         NEW m \in Msgs, queue[m].status \in Terminal, m \notin exposed
  PROVE  queue'[m].status = queue[m].status /\ replies'[m] = replies[m]
  <1> USE DEF TypeOK, TablesTypeOK
  <1>0. Fenced(m) /\ queue[m].status \notin {"absent", "pending", "claimed"}
    BY DEF Fenced, Terminal
  <1>1. replies'[m] = replies[m]
    BY <1>0, ReplyBySender, SenderHolds
  <1>2. ASSUME OtherSteps
        PROVE  queue'[m].status = queue[m].status
    <2>1. CASE queue'[m] = queue[m] \/ Enqueue(m) \/ Lease(m) \/ Elapse(m)
      BY <1>0, <2>1, TickKeepsRow DEF KeepsRow
    <2>2. ASSUME NEW w \in Workers, On(w, m), Writes(w)
          PROVE  queue'[m].status = queue[m].status
      <3>1. Settling(w, m) /\ CloseRow(w)
        BY <1>0, <2>2, WriterHolds, FencedAlone
      <3>2. queue[m].status = "dead_lettered"
        BY <1>0, <3>1 DEF Settling
      <3>q. QED BY <2>2, <3>1, <3>2, CloseEffect DEF CloseRow, CloseLetter, Terminal, On
    <2>3. CASE SweepCloseRow /\ m = sweep.current
      <3>1. queue[m].status = "dead_lettered"
        BY <1>0, <2>3 DEF SweepCloseRow, SweepInv, Sweeping
      <3>q. QED BY <2>3, <3>1, CloseEffect DEF SweepCloseRow, CloseLetter, Terminal
    <2>4. m \notin Stale
      BY <1>0 DEF Stale
    <2>q. QED BY <1>2, <2>1, <2>2, <2>3, <2>4, RowMoves
  <1>3. ASSUME NEW u \in Workers, NEW k \in Msgs, Claim(u, k)
        PROVE  queue'[m].status = queue[m].status
    BY <1>0, <1>3, ClaimRowEffect
  <1>4. CASE UNCHANGED vars
    BY <1>4 DEF vars
  <1>q. QED BY <1>1, <1>2, <1>3, <1>4 DEF Next, OtherSteps

\* A settled message that no fault exposed keeps its status and gets no further
\* reply, although _mark_status and to_dead_letter check no token.
THEOREM SettledStaysCorrect == Spec => SettledStays
  <1>1. /\ TypeOK /\ ClaimInv /\ BudgetInv /\ FenceInv /\ ReplyInv /\ SweepInv
        /\ [Next]_vars
        => [\A m \in Msgs : queue[m].status \in Terminal /\ m \notin exposed
             => queue'[m].status = queue[m].status /\ replies'[m] = replies[m]]_vars
    BY SettledStaysStep
  <1>q. QED
    BY <1>1, TypeInit, TypeStep, ClaimInvInit, ClaimInvStep, BudgetInvInit,
       BudgetInvStep, FenceInvInit, FenceInvStep, ReplyInvInit, ReplyInvStep,
       SweepInvInit, SweepInvStep, PTL DEF Spec, SettledStays

-----------------------------------------------------------------------------
(***************************************************************************)
(* One worker keeps the throttle                                           *)
(***************************************************************************)

Recent(t) == {m \in Msgs : TicketOf[m] = t /\ queue[m].sent = "recent"}

LEMMA RecentIsFinite ==
  ASSUME NEW S \in SUBSET Msgs
  PROVE  IsFiniteSet(S) /\ Cardinality(S) \in Nat
  BY FS_Subset, FS_CardinalityType, QueueAssumption

\* Replies that leave the window, and one that enters it.
LEMMA RecentShrinks ==
  ASSUME NEW t, Recent(t)' \subseteq Recent(t)
  PROVE  RecentReplies(t)' <= RecentReplies(t)
  <1>1. Recent(t) \in SUBSET Msgs
    BY DEF Recent
  <1>2. Cardinality(Recent(t)') <= Cardinality(Recent(t))
    BY <1>1, RecentIsFinite, FS_Subset
  <1>q. QED BY <1>2 DEF Recent, RecentReplies

LEMMA RecentGrowsByOne ==
  ASSUME NEW t, NEW k \in Msgs, Recent(t)' \subseteq Recent(t) \cup {k}
  PROVE  RecentReplies(t)' <= RecentReplies(t) + 1
  <1> DEFINE S == Recent(t) \cup {k}
  <1>1. Recent(t) \in SUBSET Msgs /\ S \in SUBSET Msgs
    BY DEF Recent
  <1>2. /\ IsFiniteSet(Recent(t)) /\ Cardinality(Recent(t)) \in Nat
        /\ IsFiniteSet(S) /\ Cardinality(S) \in Nat
    BY <1>1, RecentIsFinite
  <1>3. Cardinality(S) <= Cardinality(Recent(t)) + 1
    BY <1>2, FS_AddElement
  <1>4. Cardinality(Recent(t)') <= Cardinality(S) /\ Cardinality(Recent(t)') \in Nat
    BY <1>2, FS_Subset, FS_CardinalityType
  <1>5. Cardinality(Recent(t)') <= Cardinality(Recent(t)) + 1
    BY <1>2, <1>3, <1>4
  <1>q. QED BY <1>5 DEF Recent, RecentReplies

\* A reply enters the window when its sent_at is written.
LEMMA RecentMoves ==
  ASSUME TypeOK, OtherSteps, NEW m \in Msgs, queue'[m].sent = "recent"
  PROVE  queue[m].sent = "recent" \/ \E w \in Workers : On(w, m) /\ Record(w)
  <1> USE DEF TypeOK, TablesTypeOK
  <1>1. CASE queue'[m] = queue[m]
    BY <1>1
  <1>2. CASE Enqueue(m) \/ Lease(m) \/ Elapse(m)
    BY <1>2 DEF Enqueue, EnqueueTicket, Lease, LeaseExpires, Elapse, BecomeDue,
                WindowPasses, SetRow, Row
  <1>3. ASSUME NEW w \in Workers, On(w, m), Writes(w)
        PROVE  queue[m].sent = "recent" \/ Record(w)
    BY <1>3, CloseEffect, DoneEffect, RetryEffect
    DEF On, Writes, Mark, MarkStatus, Finalize, Retry, CloseRow, CloseLetter, Terminal
  <1>4. CASE SweepCloseRow /\ m = sweep.current
    BY <1>4, CloseEffect DEF SweepCloseRow, CloseLetter, Terminal
  <1>5. CASE Recover
    BY <1>5, RecoverEffect, PendingRowFields DEF Recover
  <1>q. QED BY <1>1, <1>2, <1>3, <1>4, <1>5, RowMoves

\* A worker comes to its POST by the count of step 4.
LEMMA SendMoves ==
  ASSUME TypeOK, OtherSteps, NEW w \in Workers, worker'[w].pc \in {"send", "record"}
  PROVE  /\ worker'[w].msg = worker[w].msg
         /\ \/ worker[w].pc \in {"send", "record"} /\ ~Record(w)
            \/ Throttle(w) /\ ~Throttled(TicketOf[worker[w].msg])
  <1> USE DEF TypeOK
  <1>1. CASE UNCHANGED worker
    <2>1. ~Record(w)
      BY <1>1, GotoEffect DEF Record, Pc
    <2>q. QED BY <1>1, <2>1
  <1>2. ASSUME NEW v \in Workers,
               WorkerStep(v) \/ PostAnswerLost(v) \/ Crash(v) \/ DbError(v)
        PROVE  /\ worker'[w].msg = worker[w].msg
               /\ \/ worker[w].pc \in {"send", "record"} /\ ~Record(w)
                  \/ Throttle(w) /\ ~Throttled(TicketOf[worker[w].msg])
    <2>0. ~Record(w) /\ ~DryRunSend(w) /\ ~WriteLetter(w)
      BY GotoEffect DEF Record, DryRunSend, WriteLetter, Pc
    <2>1. CASE v # w
      BY <1>2, <2>0, <2>1, WorkerMoves
    <2>2. ~Mark(w) /\ ~Finalize(w) /\ ~CloseRow(w) /\ ~Crash(w)
      BY ReleaseEffect DEF Mark, Finalize, CloseRow, Crash
    <2>3. ~Retry(w)
      BY ReleaseEffect, GotoEffect DEF Retry, Pc
    <2>4. ~FetchFails(w) /\ ~DbError(w)
      BY GotoEffect, HandlerPc DEF FetchFails, DbError, Pc, ErrorKinds
    <2>5. ~Fetch(w)
      BY GotoEffect DEF Fetch, Verdicts, Verdict, Pc
    <2>6. CASE Throttle(w)
      BY <2>6, GotoEffect DEF Throttle, Pc
    <2>7. CASE PostAnswered(w) \/ PostRejected(w) \/ PostAnswerLost(w)
      <3>1. worker[w].pc = "send" /\ Busy(w)'
        BY <2>7 DEF PostAnswered, PostRejected, PostAnswerLost, Sending, Busy
      <3>2. worker'[w].msg = worker[w].msg
        BY <2>7, <3>1, WorkerMoves DEF WorkerStep
      <3>q. QED BY <2>0, <3>1, <3>2
    <2>q. QED
      BY <1>2, <2>0, <2>1, <2>2, <2>3, <2>4, <2>5, <2>6, <2>7 DEF WorkerStep
  <1>q. QED
    BY <1>1, <1>2
    DEF OtherSteps, Enqueue, Lease, Elapse, Recover, SweepStep, SweepSelect,
        SweepWriteLetter, SweepCloseRow, SweepFails, AllSettled, vars

LEMMA ThrottleInvInit == Init => ThrottleInv
  <1> SUFFICES ASSUME Init PROVE ThrottleInv
    OBVIOUS
  <1>1. \A t : Recent(t) = {}
    BY DEF Init, TablesInit, AbsentRow, Recent
  <1>2. \A t : RecentReplies(t) = 0
    BY <1>1, FS_EmptySet DEF Recent, RecentReplies
  <1>q. QED
    BY <1>2, WorkerAssumption DEF Init, Idle, ThrottleInv

LEMMA ThrottleInvStep ==
  ASSUME TypeOK, ThrottleInv, [Next]_vars
  PROVE  ThrottleInv'
  <1> DEFINE
        Bound   == \A t \in Tickets : RecentReplies(t) <= ThrottleN
        Counted == \A w \in Workers : worker[w].pc \in {"send", "record"} =>
                     RecentReplies(TicketOf[worker[w].msg]) < ThrottleN
  <1> SUFFICES ASSUME OneWorker PROVE Bound' /\ Counted'
    BY DEF ThrottleInv, OneWorker
  <1> USE DEF TypeOK, TablesTypeOK
  <1>0. /\ Bound /\ Counted /\ ThrottleN \in Nat
        /\ \A t : /\ RecentReplies(t) \in Nat /\ RecentReplies(t)' \in Nat
                  /\ RecentReplies(t)' = Cardinality(Recent(t)')
    <2>1. \A t : RecentReplies(t) \in Nat /\ RecentReplies(t)' \in Nat
      BY RecentIsFinite DEF RecentReplies
    <2>q. QED BY <2>1, WorkerAssumption DEF ThrottleInv, RecentReplies, Recent
  <1> HIDE DEF Bound, Counted
  <1>1. CASE OtherSteps
    <2>1. CASE \A w \in Workers : ~Record(w)
      <3>1. \A t : Recent(t)' \subseteq Recent(t)
        BY <1>1, <2>1, RecentMoves DEF Recent
      <3>2. \A t : RecentReplies(t)' <= RecentReplies(t)
        BY <3>1, RecentShrinks
      <3>3. Bound'
        BY <1>0, <3>2 DEF Bound
      <3>4. Counted'
        <4> SUFFICES ASSUME NEW w \in Workers, worker'[w].pc \in {"send", "record"},
                            NEW t, t = TicketOf[worker'[w].msg]
                     PROVE  RecentReplies(t)' < ThrottleN
          BY DEF Counted, RecentReplies
        <4>1. t = TicketOf[worker[w].msg]
          BY <1>1, SendMoves
        <4>2. RecentReplies(t) < ThrottleN
          BY <1>0, <1>1, <4>1, SendMoves DEF Counted, Throttled
        <4>q. QED BY <1>0, <3>2, <4>2
      <3>q. QED BY <3>3, <3>4
    <2>2. ASSUME NEW u \in Workers, Record(u)
          PROVE  Bound' /\ Counted'
      <3>0. worker[u].msg \in Msgs /\ worker[u].pc = "record"
        BY <2>2 DEF Record, Busy
      <3>msg. PICK k \in Msgs : k = worker[u].msg
        BY <3>0
      <3>ticket. PICK tk : tk = TicketOf[k]
        OBVIOUS
      <3>1. k = worker[u].msg /\ tk = TicketOf[k]
        BY <3>msg, <3>ticket
      <3>2. \A m \in Msgs : queue'[m].sent = "recent" => queue[m].sent = "recent" \/ m = k
        BY <1>1, <3>1, RecentMoves DEF OneWorker, On
      <3>3. RecentReplies(tk)' <= RecentReplies(tk) + 1
        <4>1. Recent(tk)' \subseteq Recent(tk) \cup {k}
          BY <3>2 DEF Recent
        <4>q. QED BY <4>1, RecentGrowsByOne
      <3>4. \A t : t # tk => RecentReplies(t)' <= RecentReplies(t)
        <4>1. \A t : t # tk => Recent(t)' \subseteq Recent(t)
          BY <3>1, <3>2 DEF Recent
        <4>q. QED BY <4>1, RecentShrinks
      <3>5. RecentReplies(tk) < ThrottleN
        BY <1>0, <3>0, <3>1 DEF Counted
      <3>6. Bound'
        BY <1>0, <3>3, <3>4, <3>5 DEF Bound
      <3>7. Counted'
        <4>1. worker'[u].pc = "finalize"
          BY <2>2, GotoEffect DEF Record, Pc
        <4>q. QED BY <4>1 DEF Counted, OneWorker
      <3>q. QED BY <3>6, <3>7
    <2>q. QED BY <2>1, <2>2
  <1>2. ASSUME NEW u \in Workers, NEW k \in Msgs, Claim(u, k)
        PROVE  Bound' /\ Counted'
    <2>1. \A n \in Msgs : queue'[n].sent = queue[n].sent
      BY <1>2, ClaimRowEffect
    <2>2. \A t : Recent(t)' = Recent(t)
      BY <2>1 DEF Recent
    <2>3. Bound'
      BY <1>0, <2>2, RecentShrinks DEF Bound
    <2>4. worker'[u].pc \in {"fetch", "finalize"}
      BY <1>2, ClaimEffect
    <2>5. Counted'
      BY <2>4 DEF Counted, OneWorker
    <2>q. QED BY <2>3, <2>5
  <1>3. CASE UNCHANGED vars
    <2>1. \A t : RecentReplies(t)' = RecentReplies(t)
      BY <1>3 DEF vars, RecentReplies
    <2>q. QED BY <1>0, <1>3, <2>1 DEF vars, Bound, Counted
  <1>q. QED BY <1>1, <1>2, <1>3 DEF Next, OtherSteps

\* With one worker a ticket never gets more than throttle_n recorded replies
\* inside the window, whatever fails, crashes or overruns.
THEOREM ThrottleBoundCorrect ==
  ASSUME OneWorker
  PROVE  Spec => []ThrottleBound
  <1>1. ThrottleInv => ThrottleBound
    BY DEF ThrottleInv, ThrottleBound
  <1>q. QED
    BY <1>1, TypeInit, TypeStep, ThrottleInvInit, ThrottleInvStep, PTL DEF Spec
=============================================================================
