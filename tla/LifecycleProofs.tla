--------------------------- MODULE LifecycleProofs ---------------------------
(***************************************************************************)
(* The live reply path implements Lifecycle as long as its only faults are *)
(* crashes outside the window between a POST and its sent_at write, for    *)
(* every set of messages and workers.                                      *)
(***************************************************************************)
EXTENDS WorkerRecordProofs

USE DEF Null

-----------------------------------------------------------------------------
(***************************************************************************)
(* Outcomes                                                                *)
(***************************************************************************)

LEMMA CrashOnlyFences ==
  ASSUME CrashOnly
  PROVE  \A m \in Msgs : Fenced(m)
  BY DEF CrashOnly, Fenced

\* Of the faults only a crash outside the window is left, and nobody overruns.
LEMMA CrashOnlyFaults ==
  ASSUME CrashOnly, NEW w
  PROVE  /\ ~PostAnswerLost(w) /\ ~DbError(w)
         /\ Crash(w) => worker[w].pc # "record" /\ exposed' = exposed
  BY DEF CrashOnly, PostAnswerLost, DbError, Crash, Fault

LEMMA NothingExposed ==
  ASSUME TypeOK, FenceInv, CrashOnly, Next, exposed = {}
  PROVE  exposed' = {}
  <1>1. CASE Recover
    <2>1. \A m \in Stale : ~Held(m)
      BY DEF FenceInv, CrashOnly, Stale
    <2>q. QED BY <1>1, <2>1 DEF Recover
  <1>q. QED
    BY <1>1, CrashOnlyFaults
    DEF Next, Enqueue, Lease, Elapse, Claim, AllSettled, vars, Outside, NoFault,
        WorkerStep, Fetch, FetchFails, Mark, Throttle, DryRunSend, PostAnswered,
        PostRejected, Record, Finalize, Retry, WriteLetter, CloseRow, SweepStep,
        SweepSelect, SweepWriteLetter, SweepCloseRow, SweepFails

\* From the answered POST on, a worker goes on to record and finalize it or dies.
LEMMA AnsweredGoesOn ==
  ASSUME TypeOK, CrashOnly, OtherSteps, NEW w \in Workers, Busy(w)',
         worker'[w].pc \notin {"record", "finalize"}
  PROVE  /\ worker[w].pc \notin {"record", "finalize"}
         /\ ~PostAnswered(w)
  <1> USE DEF TypeOK
  <1>1. ~PostAnswered(w) /\ ~Record(w)
    BY GotoEffect DEF PostAnswered, Record, Pc
  <1>2. ~Finalize(w) /\ ~Crash(w)
    BY ReleaseEffect DEF Finalize, Crash, Busy
  <1>3. CASE UNCHANGED worker
    BY <1>1, <1>3
  <1>4. ASSUME NEW v \in Workers, WorkerStep(v) \/ Crash(v)
        PROVE  worker[w].pc \notin {"record", "finalize"}
    <2>1. CASE v # w
      BY <1>4, <2>1, WorkerMoves
    <2>q. QED
      BY <1>1, <1>2, <1>4, <2>1
      DEF WorkerStep, Fetch, FetchFails, Mark, Throttle, DryRunSend, PostAnswered,
          PostRejected, Sending, Retry, WriteLetter, CloseRow
  <1>q. QED
    BY <1>1, <1>3, <1>4, CrashOnlyFaults
    DEF OtherSteps, Enqueue, Lease, Elapse, Recover, SweepStep, SweepSelect,
        SweepWriteLetter, SweepCloseRow, SweepFails, AllSettled, vars

\* Without exposure a message is answered by the holder of its claim only.
LEMMA AnswerMoves ==
  ASSUME TypeOK, ClaimInv, FenceInv, ReplyInv, CrashOnly, exposed = {}, exposed' = {},
         OtherSteps, NEW m \in Msgs
  PROVE  \/ replies'[m] = replies[m]
         \/ \E u \in Workers : /\ Holds(u, m) /\ PostAnswered(u)
                               /\ queue[m].status = "claimed"
                               /\ replies[m] = 0 /\ replies'[m] = 1
  BY ReplyMoves, AnsweredIsFirst

\* A row never leaves the table.
LEMMA StaysIn ==
  ASSUME TypeOK, OtherSteps, NEW m \in Msgs, queue[m].status # "absent"
  PROVE  queue'[m].status # "absent"
  <1> USE DEF TypeOK, TablesTypeOK
  <1>1. CASE queue'[m] = queue[m] \/ Enqueue(m) \/ Lease(m) \/ Elapse(m)
    BY <1>1, TickKeepsRow DEF KeepsRow
  <1>2. ASSUME NEW w \in Workers, On(w, m), Writes(w)
        PROVE  queue'[m].status # "absent"
    BY <1>2, CloseEffect, SentEffect, DoneEffect, RetryEffect
    DEF On, Writes, Mark, MarkStatus, Record, Finalize, Retry, CloseRow, CloseLetter,
        Terminal
  <1>3. CASE SweepCloseRow /\ m = sweep.current
    BY <1>3, CloseEffect DEF SweepCloseRow, CloseLetter, Terminal
  <1>4. CASE Recover
    BY <1>4, RecoverEffect, PendingRowFields DEF Recover
  <1>q. QED BY <1>1, <1>2, <1>3, <1>4, RowMoves

LEMMA OutcomeInvInit == Init => OutcomeInv
  BY DEF Init, TablesInit, AbsentRow, OutcomeInv, On, Busy, Idle

LEMMA OutcomeInvStep ==
  ASSUME TypeOK, ClaimInv, BudgetInv, FenceInv, ReplyInv, SweepInv, OutcomeInv,
         [Next]_vars
  PROVE  OutcomeInv'
  <1> DEFINE
        OnPath == \A w \in Workers, m \in Msgs :
                    On(w, m) /\ replies[m] # 0
                      => worker[w].pc \in {"record", "finalize"}
        Left   == \A m \in Msgs :
                    queue[m].status = "absent" \/ Exhausted(m) => replies[m] = 0
  <1> USE DEF TypeOK, TablesTypeOK
  <1> SUFFICES ASSUME CrashOnly
               PROVE  exposed' = {} /\ OnPath' /\ Left'
    BY DEF OutcomeInv, CrashOnly
  <1>0. exposed = {} /\ OnPath /\ Left /\ \A m \in Msgs : Fenced(m) /\ Fenced(m)'
    BY DEF OutcomeInv, CrashOnly, Fenced
  <1>1. CASE OtherSteps
    <2>1. exposed' = {}
      BY <1>0, <1>1, NothingExposed DEF Next, OtherSteps
    <2>2. OnPath'
      <3> SUFFICES ASSUME NEW w \in Workers, NEW m \in Msgs, On(w, m)',
                          worker'[w].pc \notin {"record", "finalize"}
                   PROVE  replies'[m] = 0
        BY DEF On
      <3>1. On(w, m)
        BY <1>1, WorkerKeeps DEF On
      <3>2. worker[w].pc \notin {"record", "finalize"} /\ ~PostAnswered(w)
        BY <1>1, AnsweredGoesOn DEF On
      <3>3. replies[m] = 0
        BY <1>0, <3>1, <3>2
      <3>4. \A u \in Workers : Holds(u, m) => u = w
        BY <1>0, <3>1, FencedAlone
      <3>q. QED BY <1>0, <1>1, <2>1, <3>2, <3>3, <3>4, AnswerMoves
    <2>3. Left'
      <3> SUFFICES ASSUME NEW m \in Msgs,
                          queue'[m].status = "absent" \/ Exhausted(m)'
                   PROVE  replies'[m] = 0
        OBVIOUS
      <3>0. /\ MaxAttempts \in Nat /\ queue[m].attempts \in Nat
            /\ queue[m].status \in Status
        BY QueueAssumption DEF Row
      <3>1. ASSUME NEW w \in Workers, On(w, m), Retry(w)
            PROVE  replies'[m] = 0
        <4>1. replies[m] = 0
          BY <1>0, <3>1 DEF Retry
        <4>2. UNCHANGED replies
          BY <3>1 DEF Retry, Outside
        <4>q. QED BY <4>1, <4>2
      <3>2. CASE \A w \in Workers : ~(On(w, m) /\ Retry(w))
        <4>1. queue[m].status # "claimed"
          <5> SUFFICES ASSUME queue[m].status = "claimed" PROVE FALSE
            OBVIOUS
          <5>1. queue[m].attempts < MaxAttempts
            BY DEF BudgetInv
          <5>2. CASE queue'[m] = queue[m] \/ Enqueue(m) \/ Lease(m) \/ Elapse(m)
            BY <5>2, TickKeepsRow DEF KeepsRow, Exhausted
          <5>3. ASSUME NEW w \in Workers, On(w, m), Writes(w)
                PROVE  FALSE
            <6>1. CASE Mark(w) \/ CloseRow(w)
              BY <5>3, <6>1, CloseEffect
              DEF On, Mark, MarkStatus, CloseRow, CloseLetter, Terminal, Exhausted
            <6>2. CASE Record(w)
              BY <3>0, <5>1, <5>3, <6>2, SentEffect DEF On, Record, Exhausted
            <6>3. CASE Finalize(w)
              BY <3>0, <5>1, <5>3, <6>3, DoneEffect DEF On, Finalize, Exhausted
            <6>q. QED BY <3>2, <5>3, <6>1, <6>2, <6>3 DEF Writes
          <5>4. CASE SweepCloseRow /\ m = sweep.current
            BY <5>4, CloseEffect DEF SweepCloseRow, CloseLetter, Terminal, Exhausted
          <5>5. CASE Recover /\ m \in Stale
            <6>1. queue'[m] = PendingRow(m)
              BY <5>5, RecoverEffect DEF Recover
            <6>2. queue'[m].status = "pending" /\ queue'[m].attempts = queue[m].attempts
              BY <6>1, PendingRowFields
            <6>q. QED BY <3>0, <5>1, <6>2 DEF Exhausted
          <5>q. QED BY <1>1, <5>2, <5>3, <5>4, <5>5, RowMoves
        <4>2. replies'[m] = replies[m]
          BY <1>0, <1>1, <2>1, <4>1, AnswerMoves
        <4>3. queue[m].status \notin Terminal
          <5>1. queue[m].status \in Terminal => queue'[m].status = queue[m].status
            BY <1>0, <1>1, SettledStaysStep DEF Next, OtherSteps
          <5>q. QED BY <5>1 DEF Terminal, Exhausted
        <4>4. CASE queue[m].status = "pending"
          <5>1. queue'[m].status # "absent"
            BY <1>1, <4>4, StaysIn
          <5>2. queue'[m].attempts = queue[m].attempts
            BY <1>1, <4>1, AttemptMoves
          <5>q. QED BY <1>0, <4>2, <4>4, <5>1, <5>2 DEF Exhausted
        <4>5. CASE queue[m].status = "absent"
          BY <1>0, <4>2, <4>5
        <4>q. QED BY <3>0, <4>1, <4>3, <4>4, <4>5 DEF Status
      <3>q. QED BY <3>1, <3>2
    <2>q. QED BY <2>1, <2>2, <2>3
  <1>2. ASSUME NEW u \in Workers, NEW k \in Msgs, Claim(u, k)
        PROVE  exposed' = {} /\ OnPath' /\ Left'
    <2>1. /\ worker'[u].pc = IF queue[k].sent = "null" THEN "fetch" ELSE "finalize"
          /\ worker'[u].msg = k
          /\ \A v \in Workers : v # u => worker'[v] = worker[v]
      BY <1>2, ClaimEffect
    <2>2. /\ queue[k].status = "pending" /\ queue'[k].status = "claimed"
          /\ \A n \in Msgs : n # k => queue'[n] = queue[n]
      BY <1>2, ClaimRowEffect
    <2>3. exposed' = exposed /\ replies' = replies
      BY <1>2 DEF Claim, Outside, NoFault
    <2>4. queue[k].sent = "null" => replies[k] = 0
      <3>1. \A v \in Workers : ~Holds(v, k)
        BY <1>0, <2>2, FencedAlone DEF Holds
      <3>q. QED BY <1>0, <3>1 DEF ReplyInv
    <2>5. OnPath'
      BY <1>0, <2>1, <2>3, <2>4 DEF On, Busy
    <2>6. Left'
      BY <1>0, <2>2, <2>3 DEF Exhausted
    <2>q. QED BY <1>0, <2>3, <2>5, <2>6
  <1>3. CASE UNCHANGED vars
    BY <1>0, <1>3 DEF vars, On, Busy, Exhausted
  <1>q. QED BY <1>1, <1>2, <1>3 DEF Next, OtherSteps

-----------------------------------------------------------------------------
(***************************************************************************)
(* The refinement, message by message                                      *)
(***************************************************************************)

\* The stage the mapping of ImplementsLifecycle gives to a message.
Stage(m) == CASE queue[m].status = "absent" -> "new"
              [] queue[m].status \in {"pending", "claimed"} -> "open"
              [] OTHER -> queue[m].status

Same(m)     == Stage(m)' = Stage(m) /\ replies'[m] = replies[m]
TakenIn(m)  == Stage(m) = "new" /\ Stage(m)' = "open" /\ replies'[m] = replies[m]
Answered(m) == /\ Stage(m) = "open" /\ Stage(m)' = "open"
               /\ replies[m] = 0 /\ replies'[m] = 1
ClosedAs(m, s) == /\ Stage(m) = "open" /\ Stage(m)' = s
                  /\ (s = "done") <=> (replies[m] = 1)
                  /\ replies'[m] = replies[m]

\* What a write of a row does to its message.
LEMMA WriteMoves ==
  ASSUME TypeOK, ClaimInv, BudgetInv, FenceInv, ReplyInv, RecordInv, OutcomeInv,
         CrashOnly, Mode = "live", NEW m \in Msgs, replies'[m] = replies[m],
         NEW w \in Workers, On(w, m), Writes(w)
  PROVE  Same(m) \/ \E s \in Terminal : ClosedAs(m, s)
  <1> USE DEF TypeOK, TablesTypeOK
  <1>0. /\ Fenced(m) /\ worker[w].msg = m /\ m \notin exposed
        /\ replies[m] # 0 => worker[w].pc \in {"record", "finalize"}
    BY CrashOnlyFences DEF OutcomeInv, On
  <1>1. /\ Holds(w, m) \/ Settling(w, m)
        /\ Holds(w, m) => queue[m].status = "claimed"
    BY <1>0, FencedAlone
  <1>2. ~CloseRow(w) => queue[m].status = "claimed" /\ Holds(w, m)
    BY <1>0, <1>1, WriterHolds
  <1>3. CASE Mark(w)
    <2>1. queue[m].status = "claimed" /\ queue'[m].status = worker[w].pc
      BY <1>0, <1>2, <1>3, CloseEffect DEF Mark, MarkStatus, CloseRow, Terminal
    <2>2. replies[m] = 0 /\ worker[w].pc \in {"suppressed", "stale_inbound"}
      BY <1>0, <1>3 DEF Mark
    <2>q. QED BY <2>1, <2>2 DEF ClosedAs, Stage, Terminal
  <1>4. CASE Record(w)
    <2>1. queue'[m].status = queue[m].status
      BY <1>0, <1>4, SentEffect DEF Record
    <2>q. QED BY <2>1 DEF Same, Stage
  <1>5. CASE Finalize(w)
    <2>1. queue[m].status = "claimed" /\ Holds(w, m) /\ worker[w].pc = "finalize"
      BY <1>2, <1>5 DEF Finalize, CloseRow
    <2>2. queue'[m].status = "done"
      BY <1>0, <1>5, <2>1, DoneEffect DEF Finalize, Holds
    <2>3. replies[m] >= 1
      BY <2>1 DEF RecordInv
    <2>4. replies[m] = 1
      BY <1>0, <2>3 DEF ReplyInv
    <2>q. QED BY <2>1, <2>2, <2>4 DEF ClosedAs, Stage, Terminal
  <1>6. CASE Retry(w)
    <2>1. queue[m].status = "claimed" /\ Holds(w, m)
      BY <1>2, <1>6 DEF Retry, CloseRow
    <2>2. queue'[m].status = "pending"
      BY <1>0, <1>6, <2>1, RetryEffect DEF Retry, Holds
    <2>q. QED BY <2>1, <2>2 DEF Same, Stage
  <1>7. CASE CloseRow(w)
    <2>1. queue'[m].status = "dead_lettered"
      BY <1>0, <1>7, CloseEffect DEF CloseRow, CloseLetter, Terminal
    <2>2. queue[m].status \in {"claimed", "pending", "dead_lettered"}
      BY <1>1 DEF Settling
    <2>3. replies[m] = 0
      BY <1>0, <1>7 DEF CloseRow
    <2>q. QED BY <2>1, <2>2, <2>3 DEF Same, ClosedAs, Stage, Terminal
  <1>q. QED BY <1>3, <1>4, <1>5, <1>6, <1>7 DEF Writes

\* What any step does to a message.
LEMMA StageMoves ==
  ASSUME IInv, CrashOnly, Mode = "live", Next, NEW m \in Msgs
  PROVE  \/ Same(m) \/ TakenIn(m) \/ Answered(m)
         \/ \E s \in Terminal : ClosedAs(m, s)
  <1> USE DEF TypeOK, TablesTypeOK, IInv
  <1>0. exposed = {} /\ exposed' = {} /\ Fenced(m)
    BY NothingExposed, CrashOnlyFences DEF OutcomeInv
  <1>1. CASE OtherSteps
    <2>1. ASSUME NEW u \in Workers, PostAnswered(u), queue[m].status = "claimed",
                 replies[m] = 0, replies'[m] = 1
          PROVE  Answered(m)
      <3>1. queue' = queue
        BY <2>1 DEF PostAnswered
      <3>q. QED BY <2>1, <3>1 DEF Answered, Stage
    <2>2. CASE replies'[m] = replies[m]
      <3>1. CASE queue'[m] = queue[m] \/ Enqueue(m) \/ Lease(m) \/ Elapse(m)
        <4>1. \/ queue'[m].status = queue[m].status
              \/ queue'[m].status = "pending" /\ queue[m].status = "absent"
          BY <3>1, TickKeepsRow DEF KeepsRow
        <4>q. QED BY <2>2, <4>1 DEF Same, TakenIn, Stage
      <3>2. ASSUME NEW w \in Workers, On(w, m), Writes(w)
            PROVE  Same(m) \/ \E s \in Terminal : ClosedAs(m, s)
        BY <2>2, <3>2, WriteMoves
      <3>3. CASE SweepCloseRow /\ m = sweep.current
        <4>1. queue'[m].status = "dead_lettered"
          BY <3>3, CloseEffect DEF SweepCloseRow, CloseLetter, Terminal
        <4>2. m \in Sweeping
          BY <3>3 DEF SweepCloseRow, Sweeping
        <4>3. /\ queue[m].status \in {"pending", "dead_lettered"}
              /\ queue[m].attempts >= MaxAttempts
          BY <1>0, <4>2 DEF SweepInv, BudgetInv
        <4>4. queue[m].status = "pending" => replies[m] = 0
          BY <4>3 DEF OutcomeInv, Exhausted
        <4>q. QED BY <2>2, <4>1, <4>3, <4>4 DEF Same, ClosedAs, Stage, Terminal
      <3>4. CASE Recover /\ m \in Stale
        <4>1. queue'[m].status = "pending" /\ queue[m].status = "claimed"
          BY <3>4, RecoverEffect, PendingRowFields DEF Recover, Stale
        <4>q. QED BY <2>2, <4>1 DEF Same, Stage
      <3>q. QED BY <1>1, <3>1, <3>2, <3>3, <3>4, RowMoves
    <2>q. QED BY <1>0, <1>1, <2>1, <2>2, AnswerMoves
  <1>2. ASSUME NEW u \in Workers, NEW k \in Msgs, Claim(u, k)
        PROVE  Same(m)
    <2>1. /\ queue[k].status = "pending" /\ queue'[k].status = "claimed"
          /\ \A n \in Msgs : n # k => queue'[n] = queue[n]
      BY <1>2, ClaimRowEffect
    <2>2. replies' = replies
      BY <1>2 DEF Claim, Outside
    <2>q. QED BY <2>1, <2>2 DEF Same, Stage
  <1>q. QED BY <1>1, <1>2 DEF Next, OtherSteps

\* No step moves two messages.
LEMMA OneMoves ==
  ASSUME TypeOK, Next
  PROVE  \E k : \A m \in Msgs : m # k => Same(m)
  <1> USE DEF TypeOK, TablesTypeOK
  <1>1. ASSUME NEW k \in Msgs, Enqueue(k) \/ Lease(k) \/ Elapse(k)
        PROVE  \A m \in Msgs : m # k => Same(m)
    <2>1. \A m \in Msgs : m # k => queue'[m] = queue[m]
      BY <1>1, TickStep
    <2>q. QED BY <1>1, <2>1 DEF Same, Stage, Enqueue, Lease, Elapse, Outside
  <1>2. ASSUME NEW w \in Workers, NEW k \in Msgs, Claim(w, k)
        PROVE  \A m \in Msgs : m # k => Same(m)
    <2>1. \A m \in Msgs : m # k => queue'[m] = queue[m]
      BY <1>2, ClaimRowEffect
    <2>q. QED BY <1>2, <2>1 DEF Same, Stage, Claim, Outside
  <1>3. ASSUME NEW w \in Workers,
               WorkerStep(w) \/ PostAnswerLost(w) \/ Crash(w) \/ DbError(w)
        PROVE  \A m \in Msgs : m # worker[w].msg => Same(m)
    <2>1. worker[w].msg \in Msgs
      BY <1>3, WorkerMoves
    <2>2. ASSUME NEW m \in Msgs, m # worker[w].msg
          PROVE  queue'[m] = queue[m]
      <3>1. CASE Mark(w)
        BY <2>1, <2>2, <3>1, CloseEffect DEF Mark, MarkStatus, Terminal
      <3>2. CASE Record(w)
        BY <2>1, <2>2, <3>2, SentEffect DEF Record
      <3>3. CASE Finalize(w)
        BY <2>1, <2>2, <3>3, DoneEffect DEF Finalize
      <3>4. CASE Retry(w)
        BY <2>1, <2>2, <3>4, RetryEffect DEF Retry
      <3>5. CASE CloseRow(w)
        BY <2>1, <2>2, <3>5, CloseEffect DEF CloseRow, CloseLetter, Terminal
      <3>q. QED
        BY <1>3, <3>1, <3>2, <3>3, <3>4, <3>5
        DEF WorkerStep, Fetch, FetchFails, Throttle, DryRunSend, PostAnswered,
            PostRejected, PostAnswerLost, WriteLetter, Crash, DbError
    <2>3. ASSUME NEW m \in Msgs, m # worker[w].msg
          PROVE  replies'[m] = replies[m]
      BY <1>3, <2>1, <2>3
      DEF WorkerStep, Fetch, FetchFails, Mark, Throttle, DryRunSend, PostAnswered,
          PostRejected, Record, Finalize, Retry, WriteLetter, CloseRow,
          PostAnswerLost, Crash, DbError, Outside, Reply
    <2>q. QED BY <2>2, <2>3 DEF Same, Stage
  <1>4. CASE SweepStep \/ SweepFails
    <2>1. CASE SweepCloseRow
      <3>1. \A m \in Msgs : m # sweep.current => queue'[m] = queue[m]
        BY <2>1, CloseEffect DEF SweepCloseRow, CloseLetter, SweepState, Terminal
      <3>q. QED BY <2>1, <3>1 DEF SweepCloseRow, Same, Stage
    <2>q. QED
      BY <1>4, <2>1
      DEF SweepStep, SweepSelect, SweepWriteLetter, SweepFails, Same, Stage
  <1>5. CASE Recover
    <2>1. ASSUME NEW m \in Msgs
          PROVE  Same(m)
      <3>1. CASE m \in Stale
        <4>1. queue'[m].status = "pending" /\ queue[m].status = "claimed"
          BY <1>5, <3>1, RecoverEffect, PendingRowFields DEF Recover, Stale
        <4>q. QED BY <1>5, <4>1 DEF Recover, Same, Stage
      <3>2. CASE m \notin Stale
        <4>1. queue'[m] = queue[m]
          BY <1>5, <3>2, RecoverEffect DEF Recover
        <4>q. QED BY <1>5, <4>1 DEF Recover, Same, Stage
      <3>q. QED BY <3>1, <3>2
    <2>q. QED BY <2>1
  <1>6. CASE AllSettled
    BY <1>6 DEF AllSettled, vars, Same, Stage
  <1>q. QED BY <1>1, <1>2, <1>3, <1>4, <1>5, <1>6 DEF Next

-----------------------------------------------------------------------------
(***************************************************************************)
(* The refinement, step by step                                            *)
(***************************************************************************)

Stages == [m \in Msgs |-> Stage(m)]

LEMMA LifecycleInit == Init => L!Init
  BY DEF Init, TablesInit, AbsentRow, L!Init

\* The step of one message is a step of Lifecycle, if no other message moves.
LEMMA OneMessageMoves ==
  ASSUME replies \in [Msgs -> Nat], replies' \in [Msgs -> Nat],
         NEW k \in Msgs, \A m \in Msgs : m # k => Same(m),
         TakenIn(k) \/ Answered(k) \/ \E s \in Terminal : ClosedAs(k, s)
  PROVE  L!Next
  <1>1. ASSUME NEW s, Stage(k)' = s
        PROVE  Stages' = [Stages EXCEPT ![k] = s]
    BY <1>1 DEF Same, Stages
  <1>2. ASSUME replies'[k] = replies[k]
        PROVE  replies' = replies
    BY <1>2 DEF Same
  <1>3. CASE TakenIn(k)
    <2>1. Stages[k] = "new" /\ Stages' = [Stages EXCEPT ![k] = "open"] /\ replies' = replies
      BY <1>1, <1>2, <1>3 DEF TakenIn, Stages
    <2>2. L!TakeIn(k)
      BY <2>1 DEF L!TakeIn, Stages, Stage
    <2>q. QED BY <2>2 DEF L!Next
  <1>4. CASE Answered(k)
    <2>1. Stages[k] = "open" /\ Stages' = Stages
      BY <1>4 DEF Answered, Same, Stages
    <2>2. replies[k] = 0 /\ replies' = [replies EXCEPT ![k] = 1]
      BY <1>4 DEF Answered, Same
    <2>3. L!Answer(k)
      BY <2>1, <2>2 DEF L!Answer, Stages, Stage
    <2>q. QED BY <2>3 DEF L!Next
  <1>5. ASSUME NEW s \in Terminal, ClosedAs(k, s)
        PROVE  L!Next
    <2>1. /\ Stages[k] = "open" /\ Stages' = [Stages EXCEPT ![k] = s]
          /\ (s = "done") <=> (replies[k] = 1)
          /\ replies' = replies
      BY <1>1, <1>2, <1>5 DEF ClosedAs, Stages
    <2>2. L!Close(k, s)
      BY <2>1 DEF L!Close, Stages, Stage
    <2>q. QED BY <2>2 DEF L!Next, L!Closed, Terminal
  <1>q. QED BY <1>3, <1>4, <1>5

LEMMA LifecycleStep ==
  ASSUME IInv, CrashOnly, Mode = "live", [Next]_vars
  PROVE  [L!Next]_(L!vars)
  <1>0. replies \in [Msgs -> Nat]
    BY DEF IInv, TypeOK
  <1>1. CASE Next
    <2>1. PICK k : \A m \in Msgs : m # k => Same(m)
      BY <1>1, OneMoves DEF IInv
    <2>2. replies' \in [Msgs -> Nat]
      BY <1>1, RestType DEF IInv
    <2>3. CASE \A m \in Msgs : Same(m)
      <3>1. replies' = replies
        BY <1>0, <2>2, <2>3 DEF Same
      <3>2. Stages' = Stages
        BY <2>3 DEF Same, Stages
      <3>q. QED BY <3>1, <3>2 DEF L!vars, Stages, Stage
    <2>4. CASE \E m \in Msgs : ~Same(m)
      <3>1. k \in Msgs /\ ~Same(k)
        BY <2>1, <2>4
      <3>2. TakenIn(k) \/ Answered(k) \/ \E s \in Terminal : ClosedAs(k, s)
        BY <1>1, <3>1, StageMoves
      <3>q. QED BY <1>0, <2>1, <2>2, <3>1, <3>2, OneMessageMoves
    <2>q. QED BY <2>3, <2>4
  <1>2. CASE UNCHANGED vars
    BY <1>2 DEF vars, L!vars
  <1>q. QED BY <1>1, <1>2

-----------------------------------------------------------------------------
(***************************************************************************)
(* The theorems                                                            *)
(***************************************************************************)

LEMMA IInvInit == Init => IInv
  BY TypeInit, ClaimInvInit, BudgetInvInit, FenceInvInit, ReplyInvInit, RecordInvInit,
     LetterInvInit, SweepInvInit, OutcomeInvInit, ThrottleInvInit DEF IInv

LEMMA IInvStep ==
  ASSUME IInv, [Next]_vars
  PROVE  IInv'
  <1> USE DEF IInv
  <1>1. TypeOK' /\ ClaimInv' /\ BudgetInv' /\ FenceInv' /\ ReplyInv'
    BY TypeStep, ClaimInvStep, BudgetInvStep, FenceInvStep, ReplyInvStep
  <1>2. RecordInv' /\ LetterInv' /\ SweepInv' /\ OutcomeInv' /\ ThrottleInv'
    BY RecordInvStep, LetterInvStep, SweepInvStep, OutcomeInvStep, ThrottleInvStep
  <1>q. QED BY <1>1, <1>2

\* Together the parts of the invariant are inductive: they hold in every state,
\* for any workers, messages, attempt budget, mode and faults.
THEOREM IInvCorrect == Spec => []IInv
  BY IInvInit, IInvStep, PTL DEF Spec

\* As long as the only faults are crashes outside the window between a POST and
\* its sent_at write, the live reply path implements Lifecycle: every message is
\* answered at most once and ends in the one status that tells whether it was.
THEOREM LifecycleImplemented ==
  ASSUME CrashOnly, Mode = "live"
  PROVE  Spec => ImplementsLifecycle
  <1>1. IInv /\ [Next]_vars => [L!Next]_(L!vars)
    BY LifecycleStep
  <1>q. QED
    BY <1>1, LifecycleInit, IInvCorrect, PTL DEF Spec, ImplementsLifecycle, L!Spec
=============================================================================
