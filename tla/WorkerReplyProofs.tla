------------------------- MODULE WorkerReplyProofs -------------------------
(***************************************************************************)
(* A message that no fault exposed gets at most one reply, for every set   *)
(* of messages, workers and faults.                                        *)
(***************************************************************************)
EXTENDS WorkerProofs

USE DEF Null

-----------------------------------------------------------------------------
(***************************************************************************)
(* Who touches a row                                                       *)
(***************************************************************************)

\* The steps of a worker that write its row.
Writes(w) == Mark(w) \/ Record(w) \/ Finalize(w) \/ Retry(w) \/ CloseRow(w)

\* A row changes by a clock or its INSERT, by a worker that is on it, by the
\* sweep, or by the recovery.
LEMMA RowMoves ==
  ASSUME TypeOK, OtherSteps, NEW n \in Msgs
  PROVE  \/ queue'[n] = queue[n]
         \/ Enqueue(n) \/ Lease(n) \/ Elapse(n)
         \/ \E w \in Workers : On(w, n) /\ Writes(w)
         \/ SweepCloseRow /\ n = sweep.current
         \/ Recover /\ n \in Stale
  <1> USE DEF TypeOK, TablesTypeOK
  <1>1. CASE UNCHANGED queue
    BY <1>1
  <1>2. ASSUME NEW m \in Msgs, Enqueue(m) \/ Lease(m) \/ Elapse(m)
        PROVE  queue'[n] = queue[n] \/ n = m
    BY <1>2, TickStep
  <1>3. ASSUME NEW w \in Workers,
               WorkerStep(w) \/ PostAnswerLost(w) \/ Crash(w) \/ DbError(w)
        PROVE  queue'[n] = queue[n] \/ (On(w, n) /\ Writes(w))
    <2>1. worker[w].msg \in Msgs /\ Busy(w)
      BY <1>3, WorkerMoves
    <2>2. CASE Writes(w) /\ worker[w].msg # n
      <3>1. CASE Mark(w)
        BY <2>1, <2>2, <3>1, CloseEffect DEF Mark, MarkStatus, Terminal
      <3>2. CASE Record(w)
        BY <2>1, <2>2, <3>2, SentEffect DEF Record
      <3>3. CASE Finalize(w)
        BY <2>1, <2>2, <3>3, DoneEffect DEF Finalize
      <3>4. CASE Retry(w)
        BY <2>1, <2>2, <3>4, RetryEffect DEF Retry
      <3>5. CASE CloseRow(w)
        BY <2>1, <2>2, <3>5, CloseEffect DEF CloseRow, CloseLetter, Terminal
      <3>q. QED BY <2>2, <3>1, <3>2, <3>3, <3>4, <3>5 DEF Writes
    <2>3. CASE Writes(w) /\ worker[w].msg = n
      BY <2>1, <2>3 DEF On
    <2>q. QED
      BY <1>1, <1>3, <2>2, <2>3
      DEF WorkerStep, Writes, Fetch, FetchFails, Throttle, DryRunSend, PostAnswered,
          PostRejected, PostAnswerLost, WriteLetter, Crash, DbError
  <1>4. CASE SweepStep \/ SweepFails
    <2>1. CASE SweepCloseRow
      BY <2>1, CloseEffect DEF SweepCloseRow, CloseLetter, SweepState, Terminal
    <2>q. QED
      BY <1>1, <1>4, <2>1 DEF SweepStep, SweepSelect, SweepWriteLetter, SweepFails
  <1>5. CASE Recover
    BY <1>5, RecoverEffect DEF Recover
  <1>q. QED
    BY <1>1, <1>2, <1>3, <1>4, <1>5 DEF OtherSteps, AllSettled, vars

\* The clocks and the INSERT keep what belongs to a claim or a reply.
KeepsRow(n) == /\ queue'[n].token = queue[n].token
               /\ queue'[n].attempts = queue[n].attempts
               /\ \/ queue'[n].status = queue[n].status
                  \/ queue'[n].status = "pending" /\ queue[n].status = "absent"
               /\ (queue'[n].sent = "null") <=> (queue[n].sent = "null")

LEMMA TickKeepsRow ==
  ASSUME TypeOK, NEW n \in Msgs,
         queue'[n] = queue[n] \/ Enqueue(n) \/ Lease(n) \/ Elapse(n)
  PROVE  KeepsRow(n)
  BY TickStep DEF TypeOK, TablesTypeOK, KeepsRow

\* A row is only marked as expired by its lease.
LEMMA ExpiredMoves ==
  ASSUME TypeOK, OtherSteps, NEW n \in Msgs, queue'[n].expired
  PROVE  \/ queue[n].expired /\ queue'[n].status = queue[n].status
         \/ queue[n].expired /\ queue[n].status = "absent"
         \/ Lease(n) /\ queue'[n].status = queue[n].status
  <1> USE DEF TypeOK, TablesTypeOK
  <1> DEFINE Goal == \/ queue[n].expired /\ queue'[n].status = queue[n].status
                     \/ queue[n].expired /\ queue[n].status = "absent"
                     \/ Lease(n) /\ queue'[n].status = queue[n].status
  <1>1. CASE queue'[n] = queue[n]
    BY <1>1
  <1>2. CASE Enqueue(n) \/ Lease(n) \/ Elapse(n)
    <2>1. CASE Lease(n)
      BY <2>1 DEF Lease, LeaseExpires, SetRow, Row
    <2>2. CASE Enqueue(n) \/ Elapse(n)
      BY <2>2 DEF Enqueue, EnqueueTicket, Elapse, BecomeDue, WindowPasses, SetRow, Row
    <2>q. QED BY <1>2, <2>1, <2>2
  <1>3. ASSUME NEW w \in Workers, On(w, n), Writes(w)
        PROVE  Goal
    BY <1>3, CloseEffect, SentEffect, DoneEffect, RetryEffect
    DEF On, Writes, Mark, MarkStatus, Record, Finalize, Retry, CloseRow, CloseLetter, Terminal
  <1>4. CASE SweepCloseRow /\ n = sweep.current
    BY <1>4, CloseEffect DEF SweepCloseRow, CloseLetter, SweepState, Terminal
  <1>5. CASE Recover
    BY <1>1, <1>5, RecoverEffect, PendingRowFields DEF Recover
  <1>q. QED BY <1>1, <1>2, <1>3, <1>4, <1>5, RowMoves

-----------------------------------------------------------------------------
(***************************************************************************)
(* Live claims are not overrun                                             *)
(***************************************************************************)

\* A claim that is current after a claim of another row or worker was so before.
LEMMA ClaimHoldsBack ==
  ASSUME TypeOK, ClaimInv, NEW w \in Workers, NEW m \in Msgs, Claim(w, m),
         NEW v \in Workers, NEW n \in Msgs, Holds(v, n)'
  PROVE  \/ v = w /\ n = m
         \/ v # w /\ n # m /\ Holds(v, n) /\ worker'[v] = worker[v]
  <1>1. /\ worker'[w].msg = m /\ worker[w].pc = "idle"
        /\ \A u \in Workers : u # w => worker'[u] = worker[u]
    BY ClaimEffect DEF TypeOK, TablesTypeOK
  <1>2. /\ queue'[m].token = queue[m].issued + 1
        /\ \A k \in Msgs : k # m => queue'[k] = queue[k]
    BY ClaimRowEffect DEF TypeOK, TablesTypeOK
  <1>3. CASE v = w
    BY <1>1, <1>3 DEF Holds, On
  <1>4. CASE v # w /\ n # m
    BY <1>1, <1>2, <1>4 DEF Holds, On, Busy
  <1>5. CASE v # w /\ n = m
    <2>1. On(v, m) /\ worker[v].token = queue[m].issued + 1
      BY <1>1, <1>2, <1>5 DEF Holds, On, Busy
    <2>2. worker[v].token \in 1..queue[m].issued /\ queue[m].issued \in Nat
      BY <2>1 DEF ClaimInv, TokensIssued, TypeOK, TablesTypeOK, Row
    <2>q. QED BY <2>1, <2>2
  <1>q. QED BY <1>3, <1>4, <1>5

\* Who is on an unexposed row that is claimed holds the claim, and is alone.
LEMMA FencedAlone ==
  ASSUME TypeOK, ClaimInv, FenceInv, NEW m \in Msgs, Fenced(m),
         NEW w \in Workers, On(w, m)
  PROVE  /\ Holds(w, m) \/ Settling(w, m)
         /\ Holds(w, m) => queue[m].status = "claimed"
         /\ \A v \in Workers : Holds(v, m) => v = w
  <1>1. Holds(w, m) \/ Settling(w, m)
    BY DEF FenceInv
  <1>2. ASSUME NEW v \in Workers, Holds(v, m)
        PROVE  queue[m].status = "claimed"
    <2>1. worker[v].token # 0
      BY <1>2 DEF ClaimInv, TokensIssued, Holds
    <2>q. QED BY <1>2, <2>1 DEF ClaimInv, TokenWhileClaimed, Holds
  <1>3. ASSUME NEW v \in Workers, Holds(v, m)
        PROVE  v = w
    <2>1. ~Settling(w, m)
      BY <1>2, <1>3 DEF Settling
    <2>2. Holds(w, m)
      BY <1>1, <2>1
    <2>q. QED BY <1>3, <2>2 DEF ClaimInv, TokensUnique, Holds
  <1>q. QED BY <1>1, <1>2, <1>3

LEMMA ExposedGrows ==
  ASSUME Next
  PROVE  exposed \subseteq exposed'
  BY DEF Next, Enqueue, Lease, Elapse, Claim, Recover, AllSettled, vars, Outside,
      NoFault, WorkerStep, Fetch, FetchFails, Mark, Throttle, DryRunSend,
      PostAnswered, PostRejected, Record, Finalize, Retry, WriteLetter, CloseRow,
      PostAnswerLost, Crash, DbError, SweepStep, SweepSelect, SweepWriteLetter,
      SweepCloseRow, SweepFails

LEMMA FencedBack ==
  ASSUME Next, NEW m \in Msgs, Fenced(m)'
  PROVE  Fenced(m)
  BY ExposedGrows DEF Fenced

\* A worker that writes a row other than to close its letter is not settling it,
\* so on an unexposed row it is the holder of the claim.
LEMMA WriterHolds ==
  ASSUME TypeOK, ClaimInv, FenceInv, NEW m \in Msgs, Fenced(m),
         NEW w \in Workers, On(w, m), Writes(w), ~CloseRow(w)
  PROVE  Holds(w, m)
  BY FencedAlone
  DEF Settling, Writes, Mark, Record, Finalize, Retry

\* The row of a live claim that stays unexposed is touched by its holder only.
LEMMA HeldRowMoves ==
  ASSUME TypeOK, ClaimInv, BudgetInv, FenceInv, OtherSteps,
         NEW m \in Msgs, NEW w \in Workers, Holds(w, m), Fenced(m)'
  PROVE  \/ KeepsRow(m)
         \/ Writes(w)
  <1>1. Fenced(m) /\ On(w, m)
    BY FencedBack DEF Next, OtherSteps, Holds
  <1>2. queue[m].status = "claimed" /\ queue[m].attempts < MaxAttempts
    BY <1>1, FencedAlone DEF BudgetInv
  <1>3. ASSUME NEW v \in Workers, On(v, m), Writes(v)
        PROVE  Writes(w)
    BY <1>1, <1>3, FencedAlone
  <1>4. ~(SweepCloseRow /\ m = sweep.current)
    <2>1. m \notin Sweeping
      BY <1>2, QueueAssumption DEF BudgetInv, TypeOK, TablesTypeOK, Row
    <2>q. QED BY <2>1, WorkerAssumption DEF Sweeping
  <1>5. ~(Recover /\ m \in Stale)
    <2> SUFFICES ASSUME Recover, m \in Stale PROVE FALSE
      OBVIOUS
    <2>1. m \in exposed' /\ queue[m].expired /\ Held(m)
      BY DEF Recover, Stale, Held
    <2>2. exposed' = exposed \cup {n \in Stale : Held(n)}
      BY DEF Recover
    <2>3. "overrun" \notin Faults
      BY <2>1 DEF Fenced
    <2>q. QED BY <2>1, <2>3 DEF FenceInv
  <1>q. QED BY <1>3, <1>4, <1>5, RowMoves, TickKeepsRow

\* A worker on the dead-letter path stays on it until it closes the row.
LEMMA SettlingGoesOn ==
  ASSUME TypeOK, OtherSteps, NEW w \in Workers,
         worker[w].pc \in {"letter", "close"}, Busy(w)'
  PROVE  worker'[w].pc \in {"letter", "close"}
  <1> USE DEF Busy
  <1>1. CASE UNCHANGED worker
    BY <1>1
  <1>2. ASSUME NEW v \in Workers,
               WorkerStep(v) \/ PostAnswerLost(v) \/ Crash(v) \/ DbError(v)
        PROVE  worker'[w].pc \in {"letter", "close"}
    <2>1. CASE v # w
      BY <1>2, <2>1, WorkerMoves
    <2>2. CASE v = w /\ WriteLetter(w)
      BY <2>2, GotoEffect DEF WriteLetter, TypeOK, Pc
    <2>3. CASE v = w /\ (CloseRow(w) \/ Crash(w))
      BY <2>3, ReleaseEffect DEF CloseRow, Crash, TypeOK
    <2>q. QED
      BY <1>2, <2>1, <2>2, <2>3
      DEF WorkerStep, Fetch, FetchFails, Mark, Throttle, DryRunSend, PostAnswered,
          PostRejected, Record, Finalize, Retry, PostAnswerLost, DbError, Sending
  <1>q. QED
    BY <1>1, <1>2
    DEF OtherSteps, Enqueue, Lease, Elapse, Recover, SweepStep, SweepSelect,
        SweepWriteLetter, SweepCloseRow, SweepFails, AllSettled, vars

\* A worker that holds its row holds it after the step, or has exhausted it.
LEMMA HolderStays ==
  ASSUME TypeOK, ClaimInv, BudgetInv, FenceInv, OtherSteps,
         NEW m \in Msgs, NEW w \in Workers, Holds(w, m), Fenced(m)', On(w, m)'
  PROVE  Holds(w, m)' \/ Settling(w, m)'
  <1> USE DEF TypeOK, TablesTypeOK
  <1>1. /\ worker'[w].token = worker[w].token /\ worker[w].token = queue[m].token
        /\ worker[w].msg = m /\ Busy(w)'
    BY WorkerKeeps DEF Holds, On
  <1>2. CASE queue'[m].token = queue[m].token
    BY <1>1, <1>2 DEF Holds
  <1>3. CASE Record(w)
    BY <1>1, <1>2, <1>3, SentEffect DEF Record
  <1>4. CASE Retry(w)
    <2>1. worker[w].pc = "exhaust" /\ Goto(w, "letter")
      BY <1>1, <1>4, ReleaseEffect DEF Retry, Busy
    <2>2. worker'[w].pc = "letter"
      BY <2>1, GotoEffect DEF Pc
    <2>3. queue'[m].status = "pending" /\ queue'[m].attempts = queue[m].attempts + 1
      BY <1>1, <1>4, RetryEffect DEF Retry
    <2>4. queue[m].attempts + 1 >= MaxAttempts
      BY <2>1 DEF BudgetInv, LastAttempt
    <2>q. QED BY <2>2, <2>3, <2>4 DEF Settling
  <1>5. ~Mark(w) /\ ~Finalize(w) /\ ~CloseRow(w)
    BY <1>1, ReleaseEffect DEF Mark, Finalize, CloseRow, Busy
  <1>q. QED BY <1>2, <1>3, <1>4, <1>5, HeldRowMoves DEF KeepsRow, Writes

\* A worker on the dead-letter path of an exhausted row still is.
LEMMA SettlerStays ==
  ASSUME TypeOK, ClaimInv, FenceInv, OtherSteps,
         NEW m \in Msgs, NEW w \in Workers, Settling(w, m), On(w, m),
         Fenced(m)', On(w, m)'
  PROVE  Settling(w, m)'
  <1> USE DEF TypeOK, TablesTypeOK
  <1>1. worker'[w].pc \in {"letter", "close"}
    BY SettlingGoesOn DEF Settling, On
  <1>2. queue'[m].attempts >= MaxAttempts
    <2>1. queue[m].attempts \in Nat /\ MaxAttempts \in Nat
      BY QueueAssumption DEF Row
    <2>2. queue'[m].attempts = queue[m].attempts
      BY AttemptMoves DEF Settling
    <2>q. QED BY <2>1, <2>2 DEF Settling
  <1>3. queue'[m].status \in {"pending", "dead_lettered"}
    <2>1. CASE queue'[m] = queue[m] \/ Enqueue(m) \/ Lease(m) \/ Elapse(m)
      BY <2>1, TickKeepsRow DEF KeepsRow, Settling
    <2>2. ASSUME NEW v \in Workers, On(v, m), Writes(v)
          PROVE  queue'[m].status \in {"pending", "dead_lettered"}
      <3>1. Fenced(m)
        BY FencedBack DEF Next, OtherSteps
      <3>2. ~Holds(v, m)
        BY <2>2, <3>1, FencedAlone DEF Settling
      <3>3. CloseRow(v)
        BY <2>2, <3>1, <3>2, WriterHolds
      <3>q. QED BY <2>2, <3>3, CloseEffect DEF CloseRow, CloseLetter, Terminal, On
    <2>3. CASE SweepCloseRow /\ m = sweep.current
      BY <2>3, CloseEffect DEF SweepCloseRow, CloseLetter, Terminal
    <2>4. m \notin Stale
      BY DEF Stale, Settling
    <2>q. QED BY <2>1, <2>2, <2>3, <2>4, RowMoves
  <1>q. QED BY <1>1, <1>2, <1>3 DEF Settling

LEMMA FenceInvInit == Init => FenceInv
  BY DEF Init, TablesInit, AbsentRow, FenceInv, On, Busy, Idle

LEMMA FenceInvStep ==
  ASSUME TypeOK, ClaimInv, BudgetInv, FenceInv, [Next]_vars
  PROVE  FenceInv'
  <1> DEFINE Alone  == \A w \in Workers, m \in Msgs :
                         Fenced(m) /\ On(w, m) => Holds(w, m) \/ Settling(w, m)
             InTime == "overrun" \notin Faults =>
                         \A m \in Msgs : queue[m].expired => ~Held(m)
             Leased == \A m \in Msgs : queue[m].expired => queue[m].status = "claimed"
  <1>0. FenceInv <=> Alone /\ InTime /\ Leased
    BY DEF FenceInv
  <1>1. CASE OtherSteps
    <2>1. Alone'
      <3> SUFFICES ASSUME NEW w \in Workers, NEW m \in Msgs, Fenced(m)', On(w, m)'
                   PROVE  Holds(w, m)' \/ Settling(w, m)'
        OBVIOUS
      <3>1. On(w, m)
        BY <1>1, WorkerKeeps DEF On
      <3>2. Fenced(m)
        BY <1>1, FencedBack DEF Next, OtherSteps
      <3>3. Holds(w, m) \/ Settling(w, m)
        BY <1>0, <3>1, <3>2
      <3>q. QED BY <1>1, <3>1, <3>3, HolderStays, SettlerStays
    <2>2. InTime'
      <3> SUFFICES ASSUME "overrun" \notin Faults, NEW m \in Msgs, queue'[m].expired,
                          NEW w \in Workers, Holds(w, m)'
                   PROVE  FALSE
        BY DEF Held
      <3>1. Holds(w, m) /\ queue[m].status = "claimed"
        BY <1>1, HoldsBack
      <3>2. ~queue[m].expired
        BY <1>0, <3>1 DEF Held
      <3>3. Lease(m)
        BY <1>1, <3>2, ExpiredMoves
      <3>q. QED BY <3>1, <3>3 DEF Lease, Held, Fault
    <2>3. Leased'
      BY <1>0, <1>1, ExpiredMoves DEF Lease, LeaseExpires
    <2>q. QED BY <1>0, <2>1, <2>2, <2>3 DEF FenceInv
  <1>2. ASSUME NEW u \in Workers, NEW k \in Msgs, Claim(u, k)
        PROVE  FenceInv'
    <2>1. /\ worker'[u].msg = k /\ worker[u].pc = "idle"
          /\ worker'[u].token = queue[k].issued + 1
          /\ \A v \in Workers : v # u => worker'[v] = worker[v]
      BY <1>2, ClaimEffect DEF TypeOK, TablesTypeOK
    <2>2. /\ queue'[k].token = queue[k].issued + 1
          /\ queue[k].status = "pending" /\ queue[k].attempts < MaxAttempts
          /\ queue'[k].status = "claimed" /\ queue'[k].expired = FALSE
          /\ \A n \in Msgs : n # k => queue'[n] = queue[n]
      BY <1>2, ClaimRowEffect DEF TypeOK, TablesTypeOK
    <2>3. exposed' = exposed
      BY <1>2 DEF Claim, Outside, NoFault
    <2>4. Alone'
      <3> SUFFICES ASSUME NEW w \in Workers, NEW m \in Msgs, Fenced(m)', On(w, m)'
                   PROVE  Holds(w, m)' \/ Settling(w, m)'
        OBVIOUS
      <3>1. CASE w = u
        BY <2>1, <2>2, <3>1 DEF Holds, On
      <3>2. CASE w # u
        <4>1. worker'[w] = worker[w] /\ On(w, m) /\ Fenced(m)
          BY <2>1, <2>3, <3>2 DEF On, Busy, Fenced
        <4>2. Holds(w, m) \/ Settling(w, m)
          BY <1>0, <4>1
        <4>3. m # k
          <5> SUFFICES ASSUME m = k PROVE FALSE
            OBVIOUS
          <5>1. Holds(w, m)
            BY <2>2, <4>2, QueueAssumption DEF Settling, TypeOK, TablesTypeOK, Row
          <5>q. QED BY <2>2, <4>1, <5>1, FencedAlone
        <4>q. QED BY <2>2, <4>1, <4>2, <4>3 DEF Holds, Settling, On, Busy
      <3>q. QED BY <3>1, <3>2
    <2>5. InTime'
      <3> SUFFICES ASSUME "overrun" \notin Faults, NEW m \in Msgs, queue'[m].expired,
                          NEW w \in Workers, Holds(w, m)'
                   PROVE  FALSE
        BY DEF Held
      <3>1. m # k
        BY <2>2
      <3>2. Holds(w, m)
        BY <1>2, <3>1, ClaimHoldsBack
      <3>q. QED BY <1>0, <2>2, <3>1, <3>2 DEF Held
    <2>6. Leased'
      BY <1>0, <2>2
    <2>q. QED BY <1>0, <2>4, <2>5, <2>6 DEF FenceInv
  <1>3. CASE UNCHANGED vars
    BY <1>3 DEF vars, FenceInv, Fenced, Held, Holds, On, Busy, Settling
  <1>q. QED BY <1>1, <1>2, <1>3 DEF Next, OtherSteps

-----------------------------------------------------------------------------
(***************************************************************************)
(* Replies                                                                 *)
(***************************************************************************)

\* An unexposed message gets a reply only from a worker whose POST is answered.
LEMMA ReplyMoves ==
  ASSUME TypeOK, OtherSteps, NEW m \in Msgs, m \notin exposed'
  PROVE  \/ replies'[m] = replies[m]
         \/ \E u \in Workers : /\ On(u, m) /\ PostAnswered(u)
                               /\ replies'[m] = replies[m] + 1
  <1> USE DEF TypeOK
  <1>1. CASE UNCHANGED replies
    BY <1>1
  <1>2. ASSUME NEW u \in Workers, PostAnswered(u)
        PROVE  \/ replies'[m] = replies[m]
               \/ On(u, m) /\ replies'[m] = replies[m] + 1
    BY <1>2 DEF PostAnswered, Sending, Reply, On, Busy
  <1>3. ASSUME NEW u \in Workers, PostAnswerLost(u)
        PROVE  replies'[m] = replies[m]
    <2>1. worker[u].msg # m
      BY <1>3 DEF PostAnswerLost
    <2>q. QED BY <1>3, <2>1 DEF PostAnswerLost, Sending, Reply, Busy
  <1>q. QED
    BY <1>1, <1>2, <1>3
    DEF OtherSteps, Enqueue, Lease, Elapse, Recover, AllSettled, vars, Outside,
        WorkerStep, Fetch, FetchFails, Mark, Throttle, DryRunSend, PostRejected,
        Record, Finalize, Retry, WriteLetter, CloseRow, Crash, DbError, SweepStep,
        SweepSelect, SweepWriteLetter, SweepCloseRow, SweepFails

\* sent_at is never cleared.
LEMMA SentStays ==
  ASSUME TypeOK, OtherSteps, NEW m \in Msgs, queue[m].sent # "null"
  PROVE  queue'[m].sent # "null"
  <1> USE DEF TypeOK, TablesTypeOK
  <1>1. CASE queue'[m] = queue[m] \/ Enqueue(m) \/ Lease(m) \/ Elapse(m)
    BY <1>1, TickKeepsRow DEF KeepsRow
  <1>2. ASSUME NEW w \in Workers, On(w, m), Writes(w)
        PROVE  queue'[m].sent # "null"
    BY <1>2, CloseEffect, SentEffect, DoneEffect, RetryEffect
    DEF On, Writes, Mark, MarkStatus, Record, Finalize, Retry, CloseRow, CloseLetter, Terminal
  <1>3. CASE SweepCloseRow /\ m = sweep.current
    BY <1>3, CloseEffect DEF SweepCloseRow, CloseLetter, Terminal
  <1>4. CASE Recover
    BY <1>4, RecoverEffect, PendingRowFields DEF Recover
  <1>q. QED BY <1>1, <1>2, <1>3, <1>4, RowMoves

\* A worker before its POST was there before the step, or has just claimed.
LEMMA BeforePostMoves ==
  ASSUME TypeOK, OtherSteps, NEW w \in Workers, worker'[w].pc \in BeforePost
  PROVE  worker[w].pc \in BeforePost /\ ~PostAnswered(w) /\ ~Writes(w)
  <1> USE DEF BeforePost, TypeOK
  <1>1. CASE UNCHANGED worker /\ ~PostAnswered(w) /\ ~Writes(w)
    BY <1>1
  <1>2. ~PostAnswered(w) /\ ~Writes(w)
    <2>1. ~PostAnswered(w) /\ ~Record(w)
      BY GotoEffect DEF PostAnswered, Record, Pc
    <2>2. ~Retry(w)
      BY GotoEffect, ReleaseEffect DEF Retry, Pc
    <2>3. ~Mark(w) /\ ~Finalize(w) /\ ~CloseRow(w)
      BY ReleaseEffect DEF Mark, Finalize, CloseRow
    <2>q. QED BY <2>1, <2>2, <2>3 DEF Writes
  <1>3. ASSUME NEW v \in Workers,
               WorkerStep(v) \/ PostAnswerLost(v) \/ Crash(v) \/ DbError(v)
        PROVE  worker[w].pc \in BeforePost
    <2>1. CASE v # w
      BY <1>3, <2>1, WorkerMoves
    <2>2. CASE v = w /\ (Crash(w) \/ WriteLetter(w) \/ DryRunSend(w) \/ DbError(w))
      BY <2>2, ReleaseEffect, GotoEffect, HandlerPc
      DEF Crash, WriteLetter, DryRunSend, DbError, Pc, ErrorKinds
    <2>q. QED
      BY <1>2, <1>3, <2>1, <2>2
      DEF WorkerStep, Fetch, FetchFails, Throttle, PostRejected, Writes,
          PostAnswerLost, Sending
  <1>q. QED
    BY <1>1, <1>2, <1>3
    DEF OtherSteps, Enqueue, Lease, Elapse, Recover, SweepStep, SweepSelect,
        SweepWriteLetter, SweepCloseRow, SweepFails, AllSettled, vars

\* Only the write of sent_at, or a fault that exposes the message, takes a
\* worker away from it.
LEMMA RecordingMoves ==
  ASSUME TypeOK, OtherSteps, NEW w \in Workers, NEW m \in Msgs, m \notin exposed',
         On(w, m), worker[w].pc = "record"
  PROVE  worker'[w] = worker[w] \/ Record(w)
  <1>1. CASE UNCHANGED worker
    BY <1>1
  <1>2. ASSUME NEW v \in Workers,
               WorkerStep(v) \/ PostAnswerLost(v) \/ Crash(v) \/ DbError(v)
        PROVE  worker'[w] = worker[w] \/ Record(w)
    <2>1. CASE v # w
      BY <1>2, <2>1, WorkerMoves
    <2>2. ~Crash(w) /\ ~DbError(w)
      BY DEF Crash, DbError, On
    <2>q. QED
      BY <1>2, <2>1, <2>2
      DEF WorkerStep, Fetch, FetchFails, Mark, Throttle, DryRunSend, PostAnswered,
          PostRejected, Finalize, Retry, WriteLetter, CloseRow, PostAnswerLost, Sending
  <1>q. QED
    BY <1>1, <1>2
    DEF OtherSteps, Enqueue, Lease, Elapse, Recover, SweepStep, SweepSelect,
        SweepWriteLetter, SweepCloseRow, SweepFails, AllSettled, vars

\* A row is dismissed by the worker on it.
LEMMA DismissMoves ==
  ASSUME TypeOK, OtherSteps, NEW m \in Msgs,
         queue'[m].status \in {"suppressed", "stale_inbound"}
  PROVE  \/ queue'[m].status = queue[m].status
         \/ \E w \in Workers : On(w, m) /\ Mark(w)
  <1> USE DEF TypeOK, TablesTypeOK
  <1>1. CASE queue'[m] = queue[m] \/ Enqueue(m) \/ Lease(m) \/ Elapse(m)
    BY <1>1, TickKeepsRow DEF KeepsRow
  <1>2. ASSUME NEW w \in Workers, On(w, m), Writes(w)
        PROVE  queue'[m].status = queue[m].status \/ Mark(w)
    BY <1>2, CloseEffect, SentEffect, DoneEffect, RetryEffect
    DEF On, Writes, Record, Finalize, Retry, CloseRow, CloseLetter, Terminal
  <1>3. ~(SweepCloseRow /\ m = sweep.current)
    BY CloseEffect DEF SweepCloseRow, CloseLetter, Terminal
  <1>4. CASE Recover
    BY <1>4, RecoverEffect, PendingRowFields DEF Recover
  <1>q. QED BY <1>1, <1>2, <1>3, <1>4, RowMoves

\* An answered POST of an unexposed message is its holder's, and the first.
LEMMA AnsweredIsFirst ==
  ASSUME TypeOK, ClaimInv, FenceInv, ReplyInv, NEW u \in Workers, NEW m \in Msgs,
         m \notin exposed, On(u, m), PostAnswered(u)
  PROVE  Holds(u, m) /\ replies[m] = 0 /\ queue[m].status = "claimed"
  <1>1. Fenced(m) /\ worker[u].pc = "send"
    BY DEF Fenced, PostAnswered, Sending
  <1>2. Holds(u, m) /\ queue[m].status = "claimed"
    BY <1>1, FencedAlone DEF Settling
  <1>q. QED BY <1>1, <1>2 DEF ReplyInv, BeforePost

LEMMA ReplyInvInit == Init => ReplyInv
  BY DEF Init, TablesInit, AbsentRow, ReplyInv, Holds, On, Busy, Idle

LEMMA ReplyInvStep ==
  ASSUME TypeOK, ClaimInv, BudgetInv, FenceInv, ReplyInv, [Next]_vars
  PROVE  ReplyInv'
  <1> DEFINE
        Before == \A w \in Workers, m \in Msgs :
                    m \notin exposed /\ Holds(w, m) /\ worker[w].pc \in BeforePost
                    => replies[m] = 0 /\ queue[m].sent = "null"
        After  == \A m \in Msgs :
                    m \notin exposed /\ replies[m] # 0
                    => /\ replies[m] = 1
                       /\ \/ queue[m].sent # "null"
                          \/ \E w \in Workers : Holds(w, m) /\ worker[w].pc = "record"
        Dismissed == \A m \in Msgs :
                       /\ m \notin exposed
                       /\ queue[m].status \in {"suppressed", "stale_inbound"}
                       => replies[m] = 0
  <1>0. ReplyInv <=> Before /\ After /\ Dismissed
    BY DEF ReplyInv
  <1>1. CASE OtherSteps
    <2>0. \A m \in Msgs : m \notin exposed' => m \notin exposed /\ Fenced(m) /\ Fenced(m)'
      <3>1. exposed \subseteq exposed'
        BY <1>1, ExposedGrows DEF Next, OtherSteps
      <3>q. QED BY <3>1 DEF Fenced
    <2>1. Before'
      <3> SUFFICES ASSUME NEW w \in Workers, NEW m \in Msgs, m \notin exposed',
                          Holds(w, m)', worker'[w].pc \in BeforePost
                   PROVE  replies'[m] = 0 /\ queue'[m].sent = "null"
        BY DEF BeforePost
      <3>1. Holds(w, m)
        BY <1>1, HoldsBack
      <3>2. worker[w].pc \in BeforePost /\ ~PostAnswered(w) /\ ~Writes(w)
        BY <1>1, BeforePostMoves
      <3>3. replies[m] = 0 /\ queue[m].sent = "null"
        BY <1>0, <2>0, <3>1, <3>2
      <3>4. replies'[m] = replies[m]
        <4>1. ASSUME NEW u \in Workers, On(u, m) PROVE u = w
          BY <2>0, <3>1, <4>1, FencedAlone
        <4>q. QED BY <1>1, <3>2, <4>1, ReplyMoves
      <3>5. KeepsRow(m)
        BY <1>1, <2>0, <3>1, <3>2, HeldRowMoves
      <3>q. QED BY <3>3, <3>4, <3>5 DEF KeepsRow
    <2>2. After'
      <3> SUFFICES ASSUME NEW m \in Msgs, m \notin exposed', replies'[m] # 0
                   PROVE  /\ replies'[m] = 1
                          /\ \/ queue'[m].sent # "null"
                             \/ \E w \in Workers : Holds(w, m)' /\ worker'[w].pc = "record"
        OBVIOUS
      <3>1. ASSUME NEW u \in Workers, On(u, m), PostAnswered(u),
                   replies'[m] = replies[m] + 1
            PROVE  replies'[m] = 1 /\ Holds(u, m)' /\ worker'[u].pc = "record"
        <4>1. Holds(u, m) /\ replies[m] = 0
          BY <2>0, <3>1, AnsweredIsFirst
        <4>2. /\ worker'[u].pc = "record" /\ worker'[u].msg = worker[u].msg
              /\ worker'[u].token = worker[u].token /\ queue' = queue
          BY <3>1, GotoEffect DEF PostAnswered, TypeOK, Pc
        <4>q. QED BY <3>1, <4>1, <4>2 DEF Holds, On, Busy
      <3>2. CASE replies'[m] = replies[m] /\ queue[m].sent # "null"
        BY <1>0, <1>1, <2>0, <3>2, SentStays
      <3>3. ASSUME replies'[m] = replies[m],
                   NEW w \in Workers, Holds(w, m), worker[w].pc = "record"
            PROVE  (Holds(w, m)' /\ worker'[w].pc = "record") \/ queue'[m].sent # "null"
        <4>1. CASE Record(w)
          BY <3>3, <4>1, SentEffect DEF Record, Holds, On, TypeOK, TablesTypeOK
        <4>2. CASE worker'[w] = worker[w] /\ KeepsRow(m)
          BY <3>3, <4>2 DEF KeepsRow, Holds, On, Busy
        <4>3. Record(w) \/ worker'[w] = worker[w]
          BY <1>1, <3>3, RecordingMoves DEF Holds
        <4>4. Writes(w) => Record(w)
          BY <3>3 DEF Writes, Mark, Finalize, Retry, CloseRow
        <4>q. QED BY <1>1, <2>0, <3>3, <4>1, <4>2, <4>3, <4>4, HeldRowMoves
      <3>q. QED BY <1>0, <1>1, <2>0, <3>1, <3>2, <3>3, ReplyMoves
    <2>3. Dismissed'
      <3> SUFFICES ASSUME NEW m \in Msgs, m \notin exposed',
                          queue'[m].status \in {"suppressed", "stale_inbound"}
                   PROVE  replies'[m] = 0
        OBVIOUS
      <3>1. replies'[m] = replies[m]
        <4> SUFFICES ASSUME NEW u \in Workers, On(u, m), PostAnswered(u) PROVE FALSE
          BY <1>1, ReplyMoves
        <4>1. queue[m].status = "claimed"
          BY <2>0, AnsweredIsFirst
        <4>q. QED BY <4>1 DEF PostAnswered
      <3>2. ASSUME NEW w \in Workers, On(w, m), Mark(w)
            PROVE  replies[m] = 0
        <4>1. worker[w].pc \in BeforePost /\ ~CloseRow(w)
          BY <3>2 DEF Mark, CloseRow, BeforePost
        <4>2. Holds(w, m)
          BY <2>0, <3>2, <4>1, WriterHolds DEF Writes
        <4>q. QED BY <1>0, <2>0, <4>1, <4>2
      <3>3. CASE queue'[m].status = queue[m].status
        BY <1>0, <2>0, <3>1, <3>3
      <3>q. QED BY <1>1, <3>1, <3>2, <3>3, DismissMoves
    <2>q. QED BY <1>0, <2>1, <2>2, <2>3 DEF ReplyInv
  <1>2. ASSUME NEW u \in Workers, NEW k \in Msgs, Claim(u, k)
        PROVE  ReplyInv'
    <2>1. /\ worker[u].pc = "idle"
          /\ worker'[u].pc = IF queue[k].sent = "null" THEN "fetch" ELSE "finalize"
          /\ \A v \in Workers : v # u => worker'[v] = worker[v]
      BY <1>2, ClaimEffect DEF TypeOK, TablesTypeOK
    <2>2. /\ queue[k].status = "pending" /\ queue'[k].status = "claimed"
          /\ queue'[k].sent = queue[k].sent
          /\ \A n \in Msgs : n # k => queue'[n] = queue[n]
      BY <1>2, ClaimRowEffect DEF TypeOK, TablesTypeOK
    <2>3. exposed' = exposed /\ replies' = replies
      BY <1>2 DEF Claim, Outside, NoFault
    <2>4. ASSUME NEW v \in Workers, Holds(v, k) PROVE k \in exposed
      BY <2>2, <2>4, FencedAlone DEF Fenced, Holds
    <2>5. Before'
      <3> SUFFICES ASSUME NEW w \in Workers, NEW m \in Msgs, m \notin exposed,
                          Holds(w, m)', worker'[w].pc \in BeforePost
                   PROVE  replies[m] = 0 /\ queue'[m].sent = "null"
        BY <2>3 DEF BeforePost
      <3>1. CASE w = u /\ m = k
        BY <1>0, <2>1, <2>2, <2>4, <3>1 DEF BeforePost
      <3>2. CASE w # u /\ m # k /\ Holds(w, m) /\ worker'[w] = worker[w]
        BY <1>0, <2>2, <3>2
      <3>q. QED BY <1>2, <3>1, <3>2, ClaimHoldsBack
    <2>6. After'
      <3> SUFFICES ASSUME NEW m \in Msgs, m \notin exposed, replies[m] # 0
                   PROVE  /\ replies[m] = 1
                          /\ \/ queue'[m].sent # "null"
                             \/ \E w \in Workers : Holds(w, m)' /\ worker'[w].pc = "record"
        BY <2>3
      <3>1. queue'[m].sent = queue[m].sent
        BY <2>2
      <3>2. ASSUME NEW w \in Workers, Holds(w, m), worker[w].pc = "record"
            PROVE  Holds(w, m)' /\ worker'[w].pc = "record"
        <4>1. m # k /\ w # u
          BY <2>1, <2>4, <3>2
        <4>2. worker'[w] = worker[w] /\ queue'[m] = queue[m]
          BY <2>1, <2>2, <4>1
        <4>q. QED BY <3>2, <4>2 DEF Holds, On, Busy
      <3>q. QED BY <1>0, <3>1, <3>2
    <2>7. Dismissed'
      BY <1>0, <2>2, <2>3
    <2>q. QED BY <1>0, <2>5, <2>6, <2>7 DEF ReplyInv
  <1>3. CASE UNCHANGED vars
    BY <1>3 DEF vars, ReplyInv, Holds, On, Busy
  <1>q. QED BY <1>1, <1>2, <1>3 DEF Next, OtherSteps

\* A message that no fault exposed is answered at most once, however many
\* workers, claims, crashes and recoveries it goes through.
THEOREM AtMostOneReplyCorrect == Spec => []AtMostOneReply
  <1>1. TypeOK /\ ReplyInv => AtMostOneReply
    BY DEF ReplyInv, AtMostOneReply, TypeOK
  <1>q. QED
    BY <1>1, TypeInit, TypeStep, ClaimInvInit, ClaimInvStep, BudgetInvInit,
       BudgetInvStep, FenceInvInit, FenceInvStep, ReplyInvInit, ReplyInvStep,
       PTL DEF Spec

\* A row that was closed without an answer belongs to an unanswered message,
\* unless a fault exposed it.
THEOREM DismissedMeansUnansweredCorrect == Spec => []DismissedMeansUnanswered
  <1>1. ReplyInv => DismissedMeansUnanswered
    BY DEF ReplyInv, DismissedMeansUnanswered
  <1>q. QED
    BY <1>1, TypeInit, TypeStep, ClaimInvInit, ClaimInvStep, BudgetInvInit,
       BudgetInvStep, FenceInvInit, FenceInvStep, ReplyInvInit, ReplyInvStep,
       PTL DEF Spec
=============================================================================
