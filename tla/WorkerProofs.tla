---------------------------- MODULE WorkerProofs ----------------------------
(***************************************************************************)
(* Proofs about Worker, for every set of messages, workers and faults.     *)
(***************************************************************************)
EXTENDS WorkerInv, TLAPS

USE DEF Null

-----------------------------------------------------------------------------
(***************************************************************************)
(* The statements, field by field                                          *)
(***************************************************************************)

LEMMA SetRowEffect ==
  ASSUME queue \in [Msgs -> Row], NEW m \in Msgs, NEW r \in Row, SetRow(m, r)
  PROVE  /\ queue' \in [Msgs -> Row]
         /\ queue'[m] = r
         /\ \A n \in Msgs : n # m => queue'[n] = queue[n]
  BY DEF SetRow

LEMMA ClaimedRowFields ==
  ASSUME queue \in [Msgs -> Row], NEW m \in Msgs
  PROVE  /\ ClaimedRow(m) \in Row
         /\ ClaimedRow(m).status = "claimed"
         /\ ClaimedRow(m).token = queue[m].issued + 1
         /\ ClaimedRow(m).issued = queue[m].issued + 1
         /\ ClaimedRow(m).attempts = queue[m].attempts
         /\ ClaimedRow(m).expired = FALSE
         /\ ClaimedRow(m).sent = queue[m].sent
  <1>1. NextToken(m) \in Nat /\ NextToken(m) = queue[m].issued + 1
    BY DEF NextToken, Row
  <1>q. QED BY <1>1 DEF ClaimedRow, Row, Status, Terminal

LEMMA DoneRowFields ==
  ASSUME queue \in [Msgs -> Row], NEW m \in Msgs
  PROVE  /\ DoneRow(m) \in Row
         /\ DoneRow(m).status = "done"
         /\ DoneRow(m).token = 0
         /\ DoneRow(m).issued = queue[m].issued
         /\ DoneRow(m).attempts = queue[m].attempts
         /\ DoneRow(m).expired = FALSE
         /\ DoneRow(m).sent = queue[m].sent
  BY DEF DoneRow, Row, Status, Terminal

LEMMA PendingRowFields ==
  ASSUME queue \in [Msgs -> Row], NEW m \in Msgs
  PROVE  /\ PendingRow(m) \in Row
         /\ PendingRow(m).status = "pending"
         /\ PendingRow(m).token = 0
         /\ PendingRow(m).issued = queue[m].issued
         /\ PendingRow(m).attempts = queue[m].attempts
         /\ PendingRow(m).expired = FALSE
         /\ PendingRow(m).sent = queue[m].sent
  BY DEF PendingRow, Row, Status, Terminal

LEMMA RetryRowFields ==
  ASSUME queue \in [Msgs -> Row], NEW m \in Msgs
  PROVE  /\ RetryRow(m) \in Row
         /\ RetryRow(m).status = "pending"
         /\ RetryRow(m).token = 0
         /\ RetryRow(m).issued = queue[m].issued
         /\ RetryRow(m).attempts = queue[m].attempts + 1
         /\ RetryRow(m).expired = FALSE
         /\ RetryRow(m).sent = queue[m].sent
  <1>1. queue[m].attempts + 1 \in Nat
    BY DEF Row
  <1>q. QED BY <1>1, PendingRowFields DEF RetryRow, Row

LEMMA SentRowFields ==
  ASSUME queue \in [Msgs -> Row], NEW m \in Msgs
  PROVE  /\ SentRow(m) \in Row
         /\ SentRow(m).status = queue[m].status
         /\ SentRow(m).token = queue[m].token
         /\ SentRow(m).issued = queue[m].issued
         /\ SentRow(m).attempts = queue[m].attempts
         /\ SentRow(m).expired = queue[m].expired
         /\ SentRow(m).sent = "recent"
  BY DEF SentRow, Row, Status, Terminal

LEMMA ClosedRowFields ==
  ASSUME queue \in [Msgs -> Row], NEW m \in Msgs, NEW s \in Terminal
  PROVE  /\ ClosedRow(m, s) \in Row
         /\ ClosedRow(m, s).status = s
         /\ ClosedRow(m, s).token = 0
         /\ ClosedRow(m, s).issued = queue[m].issued
         /\ ClosedRow(m, s).attempts = queue[m].attempts
         /\ ClosedRow(m, s).expired = FALSE
         /\ ClosedRow(m, s).sent = queue[m].sent
  BY DEF ClosedRow, Row, Status, Terminal

\* The steps of the clock and the INSERT of a row.
LEMMA TickFields ==
  ASSUME queue \in [Msgs -> Row], NEW m \in Msgs, NEW r,
         \/ r = [queue[m] EXCEPT !.status = "pending"] /\ queue[m].status = "absent"
         \/ r = [queue[m] EXCEPT !.due = TRUE]
         \/ r = [queue[m] EXCEPT !.expired = TRUE]
         \/ r = [queue[m] EXCEPT !.sent = "old"] /\ queue[m].sent = "recent"
  PROVE  /\ r \in Row
         /\ \/ r.status = queue[m].status
            \/ r.status = "pending" /\ queue[m].status = "absent"
         /\ r.token = queue[m].token
         /\ r.issued = queue[m].issued
         /\ r.attempts = queue[m].attempts
         /\ (r.sent = "null") <=> (queue[m].sent = "null")
  BY DEF Row, Status, Terminal

LEMMA GotoEffect ==
  ASSUME worker \in [Workers -> WorkerState], NEW w \in Workers,
         NEW pc \in Pc, Goto(w, pc)
  PROVE  /\ worker' \in [Workers -> WorkerState]
         /\ worker'[w].pc = pc
         /\ worker'[w].msg = worker[w].msg
         /\ worker'[w].token = worker[w].token
         /\ worker'[w].attempts = worker[w].attempts
         /\ \A v \in Workers : v # w => worker'[v] = worker[v]
  BY DEF Goto, WorkerState

LEMMA ReleaseEffect ==
  ASSUME worker \in [Workers -> WorkerState], NEW w \in Workers, Release(w)
  PROVE  /\ worker' \in [Workers -> WorkerState]
         /\ worker'[w].pc = "idle"
         /\ \A v \in Workers : v # w => worker'[v] = worker[v]
  BY DEF Release, WorkerState, Idle, Pc

LEMMA HandlerPc ==
  ASSUME NEW w, NEW kind \in ErrorKinds
  PROVE  /\ Handler(w, kind) \in {"letter", "retry", "exhaust"}
         /\ Handler(w, kind) = "exhaust" => LastAttempt(w)
  BY DEF Handler, ErrorKinds

LEMMA PostFailsEffect ==
  ASSUME worker \in [Workers -> WorkerState], NEW w \in Workers,
         worker[w].pc = "send", NEW kind \in ErrorKinds, PostFails(w, kind)
  PROVE  /\ worker' \in [Workers -> WorkerState]
         /\ worker'[w].pc \in {"send", "letter", "retry", "exhaust"}
         /\ worker'[w].pc = "exhaust" => LastAttempt(w)
         /\ worker'[w].msg = worker[w].msg
         /\ worker'[w].token = worker[w].token
         /\ worker'[w].attempts = worker[w].attempts
         /\ \A v \in Workers : v # w => worker'[v] = worker[v]
  <1>1. CASE Goto(w, Handler(w, kind))
    BY <1>1, HandlerPc, GotoEffect DEF Pc
  <1>2. CASE worker' = [worker EXCEPT ![w].tries = worker[w].tries + 1]
    BY <1>2 DEF WorkerState
  <1>q. QED BY <1>1, <1>2 DEF PostFails

\* What a claim does to the worker, and to the row.
LEMMA ClaimEffect ==
  ASSUME queue \in [Msgs -> Row], worker \in [Workers -> WorkerState],
         NEW w \in Workers, NEW m \in Msgs, Claim(w, m)
  PROVE  /\ worker' \in [Workers -> WorkerState]
         /\ worker'[w].pc = IF queue[m].sent = "null" THEN "fetch" ELSE "finalize"
         /\ worker'[w].msg = m
         /\ worker'[w].token = queue[m].issued + 1
         /\ worker[w].pc = "idle"
         /\ \A v \in Workers : v # w => worker'[v] = worker[v]
  BY DEF Claim, FirstStep, WorkerState, Pc, NextToken, Row, Busy

LEMMA ClaimRowEffect ==
  ASSUME queue \in [Msgs -> Row], NEW w \in Workers, NEW m \in Msgs, Claim(w, m)
  PROVE  /\ queue' \in [Msgs -> Row]
         /\ queue[m].status = "pending" /\ queue[m].attempts < MaxAttempts
         /\ queue'[m].status = "claimed"
         /\ queue'[m].token = queue[m].issued + 1
         /\ queue'[m].issued = queue[m].issued + 1
         /\ queue'[m].attempts = queue[m].attempts
         /\ queue'[m].expired = FALSE
         /\ queue'[m].sent = queue[m].sent
         /\ \A n \in Msgs : n # m => queue'[n] = queue[n]
  <1> DEFINE r == ClaimedRow(m)
  <1>1. SetRow(m, r) /\ queue[m].status = "pending" /\ queue[m].attempts < MaxAttempts
    BY DEF Claim, ClaimOne, Claimable
  <1>2. /\ r \in Row /\ r.status = "claimed" /\ r.expired = FALSE
        /\ r.token = queue[m].issued + 1 /\ r.issued = queue[m].issued + 1
        /\ r.attempts = queue[m].attempts /\ r.sent = queue[m].sent
    BY ClaimedRowFields
  <1> HIDE DEF r
  <1>3. /\ queue' \in [Msgs -> Row] /\ queue'[m] = r
        /\ \A n \in Msgs : n # m => queue'[n] = queue[n]
    BY <1>1, <1>2, SetRowEffect
  <1>q. QED BY <1>1, <1>2, <1>3

\* An INSERT or a tick changes nothing that belongs to a claim.
LEMMA TickStep ==
  ASSUME queue \in [Msgs -> Row], NEW m \in Msgs,
         Enqueue(m) \/ Lease(m) \/ Elapse(m)
  PROVE  /\ queue' \in [Msgs -> Row]
         /\ \/ queue'[m].status = queue[m].status
            \/ queue'[m].status = "pending" /\ queue[m].status = "absent"
         /\ queue'[m].token = queue[m].token
         /\ queue'[m].issued = queue[m].issued
         /\ queue'[m].attempts = queue[m].attempts
         /\ (queue'[m].sent = "null") <=> (queue[m].sent = "null")
         /\ \A n \in Msgs : n # m => queue'[n] = queue[n]
  <1>1. \E r : /\ SetRow(m, r)
               /\ \/ r = [queue[m] EXCEPT !.status = "pending"] /\ queue[m].status = "absent"
                  \/ r = [queue[m] EXCEPT !.due = TRUE]
                  \/ r = [queue[m] EXCEPT !.expired = TRUE]
                  \/ r = [queue[m] EXCEPT !.sent = "old"] /\ queue[m].sent = "recent"
    BY DEF Enqueue, EnqueueTicket, Lease, LeaseExpires, Elapse, BecomeDue, WindowPasses
  <1>2. PICK r \in Row :
          /\ SetRow(m, r)
          /\ \/ r.status = queue[m].status
             \/ r.status = "pending" /\ queue[m].status = "absent"
          /\ r.token = queue[m].token
          /\ r.issued = queue[m].issued
          /\ r.attempts = queue[m].attempts
          /\ (r.sent = "null") <=> (queue[m].sent = "null")
    BY <1>1, TickFields
  <1>q. QED BY <1>2, SetRowEffect

LEMMA UpdateEffect ==
  ASSUME queue \in [Msgs -> Row], NEW m \in Msgs, NEW t, NEW r \in Row,
         UpdateIfToken(m, t, r)
  PROVE  /\ queue' \in [Msgs -> Row]
         /\ queue[m].token = t => queue'[m] = r
         /\ queue[m].token # t => queue'[m] = queue[m]
         /\ \A n \in Msgs : n # m => queue'[n] = queue[n]
  BY SetRowEffect DEF UpdateIfToken

LEMMA DoneEffect ==
  ASSUME queue \in [Msgs -> Row], NEW m \in Msgs, NEW t, FinalizeDone(m, t)
  PROVE  /\ queue' \in [Msgs -> Row]
         /\ \A n \in Msgs : n # m => queue'[n] = queue[n]
         /\ queue[m].token # t => queue'[m] = queue[m]
         /\ queue[m].token = t =>
                  /\ queue'[m].status = "done"
                  /\ queue'[m].token = 0
                  /\ queue'[m].issued = queue[m].issued
                  /\ queue'[m].attempts = queue[m].attempts
                  /\ queue'[m].expired = FALSE
                  /\ queue'[m].sent = queue[m].sent
  BY UpdateEffect, DoneRowFields DEF FinalizeDone

LEMMA RetryEffect ==
  ASSUME queue \in [Msgs -> Row], NEW m \in Msgs, NEW t, FinalizeRetry(m, t)
  PROVE  /\ queue' \in [Msgs -> Row]
         /\ \A n \in Msgs : n # m => queue'[n] = queue[n]
         /\ queue[m].token # t => queue'[m] = queue[m]
         /\ queue[m].token = t =>
                  /\ queue'[m].status = "pending"
                  /\ queue'[m].token = 0
                  /\ queue'[m].issued = queue[m].issued
                  /\ queue'[m].attempts = queue[m].attempts + 1
                  /\ queue'[m].expired = FALSE
                  /\ queue'[m].sent = queue[m].sent
  BY UpdateEffect, RetryRowFields DEF FinalizeRetry

LEMMA SentEffect ==
  ASSUME queue \in [Msgs -> Row], NEW m \in Msgs, NEW t, RecordSent(m, t)
  PROVE  /\ queue' \in [Msgs -> Row]
         /\ \A n \in Msgs : n # m => queue'[n] = queue[n]
         /\ queue[m].token # t => queue'[m] = queue[m]
         /\ queue[m].token = t =>
                  /\ queue'[m].status = queue[m].status
                  /\ queue'[m].token = queue[m].token
                  /\ queue'[m].issued = queue[m].issued
                  /\ queue'[m].attempts = queue[m].attempts
                  /\ queue'[m].expired = queue[m].expired
                  /\ queue'[m].sent = "recent"
  BY UpdateEffect, SentRowFields DEF RecordSent

LEMMA CloseEffect ==
  ASSUME queue \in [Msgs -> Row], NEW m \in Msgs, NEW s \in Terminal,
         SetRow(m, ClosedRow(m, s))
  PROVE  /\ queue' \in [Msgs -> Row]
         /\ \A n \in Msgs : n # m => queue'[n] = queue[n]
         /\ queue'[m].status = s
         /\ queue'[m].token = 0
         /\ queue'[m].issued = queue[m].issued
         /\ queue'[m].attempts = queue[m].attempts
         /\ queue'[m].expired = FALSE
         /\ queue'[m].sent = queue[m].sent
  <1>1. ClosedRow(m, s) \in Row
    BY ClosedRowFields
  <1>2. /\ queue' \in [Msgs -> Row]
        /\ \A n \in Msgs : n # m => queue'[n] = queue[n]
        /\ queue'[m] = ClosedRow(m, s)
    BY <1>1, SetRowEffect
  <1> DEFINE r == ClosedRow(m, s)
  <1>3. /\ r.status = s /\ r.token = 0 /\ r.issued = queue[m].issued
        /\ r.attempts = queue[m].attempts /\ r.expired = FALSE
        /\ r.sent = queue[m].sent
    BY ClosedRowFields
  <1>4. queue'[m] = r
    BY <1>2
  <1> HIDE DEF r
  <1>q. QED BY <1>2, <1>3, <1>4

LEMMA RecoverEffect ==
  ASSUME queue \in [Msgs -> Row], RecoverStaleClaims
  PROVE  /\ queue' \in [Msgs -> Row]
         /\ \A n \in Msgs : queue'[n] = IF n \in Stale THEN PendingRow(n) ELSE queue[n]
  <1>1. \A n \in Msgs : PendingRow(n) \in Row
    BY PendingRowFields
  <1>q. QED BY <1>1 DEF RecoverStaleClaims

-----------------------------------------------------------------------------
(***************************************************************************)
(* Types                                                                   *)
(***************************************************************************)

LEMMA TypeInit == Init => TypeOK
  BY WorkerAssumption
  DEF Init, TablesInit, AbsentRow, TypeOK, TablesTypeOK, Row, Status, Terminal,
      WorkerState, Idle, Pc, Busy, SweepState, Resting

\* The statements keep the type of the queue, whoever issues them.
LEMMA QueueType ==
  ASSUME TypeOK, Next
  PROVE  queue' \in [Msgs -> Row]
  <1> USE DEF TypeOK, TablesTypeOK
  <1>1. ASSUME NEW m \in Msgs, Enqueue(m) \/ Lease(m) \/ Elapse(m)
        PROVE  queue' \in [Msgs -> Row]
    BY <1>1, TickStep
  <1>2. ASSUME NEW w \in Workers, NEW m \in Msgs, Claim(w, m)
        PROVE  queue' \in [Msgs -> Row]
    BY <1>2, ClaimRowEffect
  <1>3. ASSUME NEW w \in Workers,
               WorkerStep(w) \/ PostAnswerLost(w) \/ Crash(w) \/ DbError(w)
        PROVE  queue' \in [Msgs -> Row]
    <2>1. CASE UNCHANGED queue
      BY <2>1
    <2>2. CASE Mark(w)
      BY <2>2, CloseEffect DEF Mark, MarkStatus, Busy, Terminal
    <2>3. CASE Record(w)
      BY <2>3, SentEffect DEF Record, Busy
    <2>4. CASE Finalize(w)
      BY <2>4, DoneEffect DEF Finalize, Busy
    <2>5. CASE Retry(w)
      BY <2>5, RetryEffect DEF Retry, Busy
    <2>6. CASE CloseRow(w)
      BY <2>6, CloseEffect DEF CloseRow, CloseLetter, Busy, Terminal
    <2>q. QED
      BY <1>3, <2>1, <2>2, <2>3, <2>4, <2>5, <2>6
      DEF WorkerStep, Fetch, FetchFails, Throttle, DryRunSend, PostAnswered,
          PostRejected, PostAnswerLost, WriteLetter, Crash, DbError
  <1>4. CASE SweepStep \/ SweepFails
    BY <1>4, CloseEffect
    DEF SweepStep, SweepSelect, SweepWriteLetter, SweepCloseRow, SweepFails,
        CloseLetter, SweepState, Terminal
  <1>5. CASE Recover
    BY <1>5, RecoverEffect DEF Recover
  <1>6. CASE AllSettled
    BY <1>6 DEF AllSettled, vars
  <1>q. QED BY <1>1, <1>2, <1>3, <1>4, <1>5, <1>6 DEF Next

\* What a step of a worker other than a claim does to the workers.
LEMMA WorkerMoves ==
  ASSUME TypeOK, NEW w \in Workers,
         WorkerStep(w) \/ PostAnswerLost(w) \/ Crash(w) \/ DbError(w)
  PROVE  /\ Busy(w)
         /\ worker' \in [Workers -> WorkerState]
         /\ Busy(w)' => /\ worker'[w].msg = worker[w].msg
                        /\ worker'[w].token = worker[w].token
                        /\ worker'[w].attempts = worker[w].attempts
         /\ worker'[w].pc = "exhaust" => LastAttempt(w)
         /\ \A v \in Workers : v # w => worker'[v] = worker[v]
  <1> USE DEF TypeOK, Busy
  <1>1. CASE Release(w) /\ worker[w].pc # "idle"
    BY <1>1, ReleaseEffect
  <1>2. CASE \E pc \in Pc : /\ Goto(w, pc) /\ worker[w].pc # "idle"
                            /\ pc = "exhaust" => LastAttempt(w)
    BY <1>2, GotoEffect
  <1>3. CASE \E kind \in ErrorKinds : PostFails(w, kind) /\ worker[w].pc = "send"
    BY <1>3, PostFailsEffect
  <1>4. CASE Fetch(w)
    <2>1. \E pc \in Pc : Goto(w, pc) /\ pc # "exhaust"
      BY <1>4 DEF Fetch, Verdicts, Verdict, Pc
    <2>q. QED BY <1>4, <2>1, <1>2 DEF Fetch
  <1>5. CASE FetchFails(w)
    BY <1>5, <1>2, HandlerPc DEF FetchFails, Pc
  <1>6. CASE Throttle(w) \/ DryRunSend(w) \/ PostAnswered(w) \/ Record(w) \/ WriteLetter(w)
    BY <1>6, <1>2 DEF Throttle, DryRunSend, PostAnswered, Sending, Record, WriteLetter, Pc
  <1>7. CASE Mark(w) \/ Finalize(w) \/ CloseRow(w) \/ Crash(w)
    BY <1>7, <1>1 DEF Mark, Finalize, CloseRow, Crash
  <1>8. CASE Retry(w)
    BY <1>8, <1>1, <1>2 DEF Retry, Pc
  <1>9. CASE PostRejected(w) \/ PostAnswerLost(w)
    BY <1>9, <1>3 DEF PostRejected, PostAnswerLost, Sending, ErrorKinds
  <1>10. CASE DbError(w)
    BY <1>10, <1>2, HandlerPc DEF DbError, Pc, ErrorKinds
  <1>q. QED
    BY <1>4, <1>5, <1>6, <1>7, <1>8, <1>9, <1>10, WorkerAssumption DEF WorkerStep

\* The same of every step of the system.
LEMMA WorkerType ==
  ASSUME TypeOK, Next
  PROVE  /\ worker' \in [Workers -> WorkerState]
         /\ \A w \in Workers : Busy(w)' => worker'[w].msg \in Msgs
  <1> USE DEF TypeOK, TablesTypeOK
  <1>1. CASE UNCHANGED worker
    BY <1>1 DEF Busy
  <1>2. ASSUME NEW w \in Workers, NEW m \in Msgs, Claim(w, m)
        PROVE  /\ worker' \in [Workers -> WorkerState]
               /\ \A v \in Workers : Busy(v)' => worker'[v].msg \in Msgs
    BY <1>2, ClaimEffect DEF Busy
  <1>3. ASSUME NEW w \in Workers,
               WorkerStep(w) \/ PostAnswerLost(w) \/ Crash(w) \/ DbError(w)
        PROVE  /\ worker' \in [Workers -> WorkerState]
               /\ \A v \in Workers : Busy(v)' => worker'[v].msg \in Msgs
    BY <1>3, WorkerMoves DEF Busy
  <1>q. QED
    BY <1>1, <1>2, <1>3
    DEF Next, Enqueue, Lease, Elapse, Recover, SweepStep, SweepSelect,
        SweepWriteLetter, SweepCloseRow, SweepFails, AllSettled, vars

LEMMA FaultType ==
  ASSUME faults \in 0..MaxFaults, NEW kind, Fault(kind)
  PROVE  faults' \in 0..MaxFaults
  BY WorkerAssumption DEF Fault

\* The history variables and the counters.
LEMMA RestType ==
  ASSUME TypeOK, Next
  PROVE  /\ letters' \in [Msgs -> Nat]
         /\ replies' \in [Msgs -> Nat]
         /\ dryRun' \in [Msgs -> Nat]
         /\ exposed' \subseteq Msgs
         /\ faults' \in 0..MaxFaults
         /\ sweep' \in SweepState
  <1> USE DEF TypeOK, TablesTypeOK
  <1> DEFINE Goal == /\ letters' \in [Msgs -> Nat]
                     /\ replies' \in [Msgs -> Nat]
                     /\ dryRun' \in [Msgs -> Nat]
                     /\ exposed' \subseteq Msgs
                     /\ faults' \in 0..MaxFaults
                     /\ sweep' \in SweepState
  <1>1. CASE Outside \/ UNCHANGED vars
    BY <1>1 DEF Outside, NoFault, vars
  <1>2. ASSUME NEW w \in Workers,
               WorkerStep(w) \/ PostAnswerLost(w) \/ Crash(w) \/ DbError(w)
        PROVE  Goal
    <2>1. worker[w].msg \in Msgs
      BY <1>2, WorkerMoves
    <2>2. CASE DryRunSend(w) \/ PostAnswered(w) \/ WriteLetter(w)
      BY <2>1, <2>2 DEF DryRunSend, PostAnswered, WriteLetter, NoFault, Reply, InsertLetter
    <2>3. CASE PostAnswerLost(w)
      BY <2>1, <2>3, FaultType DEF PostAnswerLost, Reply
    <2>4. CASE Crash(w)
      BY <2>1, <2>4, FaultType DEF Crash
    <2>5. CASE DbError(w)
      BY <2>1, <2>5, FaultType DEF DbError
    <2>q. QED
      BY <1>1, <1>2, <2>2, <2>3, <2>4, <2>5
      DEF WorkerStep, Fetch, FetchFails, Mark, Throttle, PostRejected, Record,
          Finalize, Retry, CloseRow
  <1>3. CASE SweepStep
    BY <1>3 DEF SweepStep, SweepSelect, SweepWriteLetter, SweepCloseRow, NoFault,
                InsertLetter, SweepState, Resting
  <1>4. CASE SweepFails
    BY <1>4, FaultType DEF SweepFails, SweepState, Resting
  <1>5. ASSUME NEW m \in Msgs, Lease(m)
        PROVE  Goal
    BY <1>5, FaultType DEF Lease
  <1>6. CASE Recover
    BY <1>6 DEF Recover, Stale
  <1>q. QED
    BY <1>1, <1>2, <1>3, <1>4, <1>5, <1>6 DEF Next, Enqueue, Elapse, Claim, AllSettled

LEMMA TypeStep ==
  ASSUME TypeOK, [Next]_vars
  PROVE  TypeOK'
  <1>1. CASE Next
    BY <1>1, QueueType, WorkerType, RestType DEF TypeOK, TablesTypeOK
  <1>2. CASE UNCHANGED vars
    BY <1>2 DEF vars, TypeOK, TablesTypeOK, Busy
  <1>q. QED BY <1>1, <1>2

\* Every variable keeps its type, whatever the workers, the sweep, the recovery
\* and the faults do.
THEOREM TypeCorrect == Spec => []TypeOK
  BY TypeInit, TypeStep, PTL DEF Spec

-----------------------------------------------------------------------------
(***************************************************************************)
(* Claims and attempts                                                     *)
(***************************************************************************)

\* Everything in Next but the claims.
OtherSteps ==
  \/ \E m \in Msgs : Enqueue(m) \/ Lease(m) \/ Elapse(m)
  \/ \E w \in Workers : WorkerStep(w) \/ PostAnswerLost(w) \/ Crash(w) \/ DbError(w)
  \/ SweepStep \/ SweepFails
  \/ Recover
  \/ AllSettled

\* What such a step may do to the claim of a row: keep it or end it.
KeepsClaim(m) == /\ queue'[m].token = queue[m].token
                 /\ (queue'[m].status = "claimed") <=> (queue[m].status = "claimed")
EndsClaim(m)  == queue'[m].token = 0 /\ queue'[m].status # "claimed"

LEMMA ClaimMoves ==
  ASSUME TypeOK, OtherSteps, NEW n \in Msgs
  PROVE  /\ queue'[n].issued = queue[n].issued
         /\ KeepsClaim(n) \/ EndsClaim(n)
  <1> USE DEF TypeOK, TablesTypeOK, KeepsClaim, EndsClaim
  <1> DEFINE Goal == /\ queue'[n].issued = queue[n].issued
                     /\ KeepsClaim(n) \/ EndsClaim(n)
  <1>1. CASE UNCHANGED queue
    BY <1>1
  <1>2. ASSUME NEW m \in Msgs, Enqueue(m) \/ Lease(m) \/ Elapse(m)
        PROVE  Goal
    BY <1>2, TickStep
  <1>3. ASSUME NEW w \in Workers,
               WorkerStep(w) \/ PostAnswerLost(w) \/ Crash(w) \/ DbError(w)
        PROVE  Goal
    <2>1. worker[w].msg \in Msgs
      BY <1>3, WorkerMoves
    <2>2. CASE Mark(w)
      BY <2>1, <2>2, CloseEffect DEF Mark, MarkStatus, Terminal
    <2>3. CASE Record(w)
      BY <2>1, <2>3, SentEffect DEF Record
    <2>4. CASE Finalize(w)
      BY <2>1, <2>4, DoneEffect DEF Finalize
    <2>5. CASE Retry(w)
      BY <2>1, <2>5, RetryEffect DEF Retry
    <2>6. CASE CloseRow(w)
      BY <2>1, <2>6, CloseEffect DEF CloseRow, CloseLetter, Terminal
    <2>q. QED
      BY <1>1, <1>3, <2>2, <2>3, <2>4, <2>5, <2>6
      DEF WorkerStep, Fetch, FetchFails, Throttle, DryRunSend, PostAnswered,
          PostRejected, PostAnswerLost, WriteLetter, Crash, DbError
  <1>4. CASE SweepStep \/ SweepFails
    <2>1. CASE SweepCloseRow
      BY <2>1, CloseEffect DEF SweepCloseRow, CloseLetter, SweepState, Terminal
    <2>q. QED
      BY <1>1, <1>4, <2>1 DEF SweepStep, SweepSelect, SweepWriteLetter, SweepFails
  <1>5. CASE Recover
    BY <1>5, RecoverEffect, PendingRowFields DEF Recover
  <1>q. QED
    BY <1>1, <1>2, <1>3, <1>4, <1>5 DEF OtherSteps, AllSettled, vars

\* The same for the workers: none of them gets a claim but by claiming.
LEMMA WorkerKeeps ==
  ASSUME TypeOK, OtherSteps, NEW w \in Workers, Busy(w)'
  PROVE  /\ Busy(w)
         /\ worker'[w].msg = worker[w].msg
         /\ worker'[w].token = worker[w].token
         /\ worker'[w].attempts = worker[w].attempts
         /\ worker'[w].pc = "exhaust" => worker[w].pc = "exhaust" \/ LastAttempt(w)
  <1>1. CASE UNCHANGED worker
    BY <1>1 DEF Busy
  <1>2. ASSUME NEW v \in Workers,
               WorkerStep(v) \/ PostAnswerLost(v) \/ Crash(v) \/ DbError(v)
        PROVE  /\ Busy(w)
               /\ worker'[w].msg = worker[w].msg
               /\ worker'[w].token = worker[w].token
               /\ worker'[w].attempts = worker[w].attempts
               /\ worker'[w].pc = "exhaust" => worker[w].pc = "exhaust" \/ LastAttempt(w)
    BY <1>2, WorkerMoves DEF Busy
  <1>q. QED
    BY <1>1, <1>2
    DEF OtherSteps, Enqueue, Lease, Elapse, Recover, SweepStep, SweepSelect,
        SweepWriteLetter, SweepCloseRow, SweepFails, AllSettled, vars

LEMMA ClaimInvInit == Init => ClaimInv
  BY DEF Init, TablesInit, AbsentRow, ClaimInv, TokenWhileClaimed, TokensIssued,
         TokensUnique, On, Busy, Idle

LEMMA ClaimInvStep ==
  ASSUME TypeOK, ClaimInv, [Next]_vars
  PROVE  ClaimInv'
  <1> USE DEF ClaimInv, TokenWhileClaimed, TokensIssued, TokensUnique, On
  <1>1. CASE OtherSteps
    <2>1. queue' \in [Msgs -> Row]
      BY <1>1, QueueType DEF Next, OtherSteps
    <2>2. TokenWhileClaimed'
      BY <1>1, ClaimMoves DEF KeepsClaim, EndsClaim
    <2>3. TokensIssued'
      BY <1>1, <2>1, ClaimMoves, WorkerKeeps DEF KeepsClaim, EndsClaim, TypeOK, TablesTypeOK, Row
    <2>4. TokensUnique'
      BY <1>1, WorkerKeeps
    <2>q. QED BY <2>2, <2>3, <2>4
  <1>2. ASSUME NEW w \in Workers, NEW m \in Msgs, Claim(w, m)
        PROVE  ClaimInv'
    <2> DEFINE t == queue[m].issued + 1
    <2>1. /\ queue'[m].status = "claimed" /\ queue'[m].token = t /\ queue'[m].issued = t
          /\ \A n \in Msgs : n # m => queue'[n] = queue[n]
      BY <1>2, ClaimRowEffect DEF TypeOK, TablesTypeOK
    <2>2. /\ worker'[w].msg = m /\ worker'[w].token = t
          /\ \A v \in Workers : v # w => worker'[v] = worker[v]
      BY <1>2, ClaimEffect DEF TypeOK, TablesTypeOK
    <2>3. queue[m].issued \in Nat /\ t \in Nat /\ t > queue[m].issued
      BY DEF TypeOK, TablesTypeOK, Row
    <2>4. TokenWhileClaimed'
      BY <2>1, <2>3
    <2>5. TokensIssued'
      BY <2>1, <2>2, <2>3 DEF Busy
    <2>6. TokensUnique'
      BY <2>1, <2>2, <2>3 DEF Busy
    <2>q. QED BY <2>4, <2>5, <2>6
  <1>3. CASE UNCHANGED vars
    BY <1>3 DEF vars, Busy
  <1>q. QED BY <1>1, <1>2, <1>3 DEF Next, OtherSteps

\* At any time at most one worker holds a row under its current claim.
THEOREM ClaimExclusiveCorrect == Spec => []ClaimExclusive
  <1>1. ClaimInv => ClaimExclusive
    BY DEF ClaimInv, TokensUnique, ClaimExclusive, Holds
  <1>q. QED
    BY <1>1, TypeInit, TypeStep, ClaimInvInit, ClaimInvStep, PTL DEF Spec

\* Attempts only grow, and only while the row is claimed.
LEMMA AttemptMoves ==
  ASSUME TypeOK, ClaimInv, OtherSteps, NEW n \in Msgs
  PROVE  \/ queue'[n].attempts = queue[n].attempts
         \/ /\ queue[n].status = "claimed" /\ queue'[n].status # "claimed"
            /\ queue'[n].attempts = queue[n].attempts + 1
  <1> USE DEF TypeOK, TablesTypeOK
  <1> DEFINE Goal == \/ queue'[n].attempts = queue[n].attempts
                     \/ /\ queue[n].status = "claimed" /\ queue'[n].status # "claimed"
                        /\ queue'[n].attempts = queue[n].attempts + 1
  <1>1. CASE UNCHANGED queue
    BY <1>1
  <1>2. ASSUME NEW m \in Msgs, Enqueue(m) \/ Lease(m) \/ Elapse(m)
        PROVE  Goal
    BY <1>2, TickStep
  <1>3. ASSUME NEW w \in Workers,
               WorkerStep(w) \/ PostAnswerLost(w) \/ Crash(w) \/ DbError(w)
        PROVE  Goal
    <2>1. worker[w].msg \in Msgs /\ Busy(w)
      BY <1>3, WorkerMoves
    <2>2. CASE Mark(w)
      BY <2>1, <2>2, CloseEffect DEF Mark, MarkStatus, Terminal
    <2>3. CASE Record(w)
      BY <2>1, <2>3, SentEffect DEF Record
    <2>4. CASE Finalize(w)
      BY <2>1, <2>4, DoneEffect DEF Finalize
    <2>5. CASE Retry(w)
      <3>1. queue[worker[w].msg].token = worker[w].token => queue[worker[w].msg].status = "claimed"
        BY <2>1 DEF ClaimInv, TokensIssued, TokenWhileClaimed, On
      <3>q. QED BY <2>1, <2>5, <3>1, RetryEffect DEF Retry
    <2>6. CASE CloseRow(w)
      BY <2>1, <2>6, CloseEffect DEF CloseRow, CloseLetter, Terminal
    <2>q. QED
      BY <1>1, <1>3, <2>2, <2>3, <2>4, <2>5, <2>6
      DEF WorkerStep, Fetch, FetchFails, Throttle, DryRunSend, PostAnswered,
          PostRejected, PostAnswerLost, WriteLetter, Crash, DbError
  <1>4. CASE SweepStep \/ SweepFails
    <2>1. CASE SweepCloseRow
      BY <2>1, CloseEffect DEF SweepCloseRow, CloseLetter, SweepState, Terminal
    <2>q. QED
      BY <1>1, <1>4, <2>1 DEF SweepStep, SweepSelect, SweepWriteLetter, SweepFails
  <1>5. CASE Recover
    BY <1>5, RecoverEffect, PendingRowFields DEF Recover
  <1>q. QED
    BY <1>1, <1>2, <1>3, <1>4, <1>5 DEF OtherSteps, AllSettled, vars

\* The sweep only takes up rows that are out of attempts.
LEMMA SweepMoves ==
  ASSUME TypeOK, Next
  PROVE  \A m \in Sweeping' : m \in Msgs /\ (m \in Sweeping \/ Exhausted(m))
  <1> USE DEF Sweeping, TypeOK, SweepState
  <1>1. CASE UNCHANGED sweep
    BY <1>1
  <1>2. CASE SweepStep
    BY <1>2, WorkerAssumption
    DEF SweepStep, SweepSelect, SweepWriteLetter, SweepCloseRow, Resting
  <1>3. CASE SweepFails
    BY <1>3 DEF SweepFails, Resting
  <1>q. QED
    BY <1>1, <1>2, <1>3
    DEF Next, Enqueue, Lease, Elapse, Claim, Recover, AllSettled, vars, Outside,
        WorkerStep, Fetch, FetchFails, Mark, Throttle, DryRunSend, PostAnswered,
        PostRejected, Record, Finalize, Retry, WriteLetter, CloseRow,
        PostAnswerLost, Crash, DbError

\* A current claim was current before the step, unless it is just made.
LEMMA HoldsBack ==
  ASSUME TypeOK, ClaimInv, OtherSteps, NEW w \in Workers, NEW m \in Msgs, Holds(w, m)'
  PROVE  /\ Holds(w, m)
         /\ queue'[m].status = "claimed" /\ queue[m].status = "claimed"
         /\ queue'[m].token = queue[m].token
  <1> USE DEF Holds, On
  <1>1. /\ On(w, m) /\ worker'[w].token = worker[w].token
    BY WorkerKeeps
  <1>2. worker[w].token # 0
    BY <1>1 DEF ClaimInv, TokensIssued
  <1>3. KeepsClaim(m)
    BY <1>1, <1>2, ClaimMoves DEF EndsClaim
  <1>q. QED BY <1>1, <1>2, <1>3 DEF KeepsClaim, ClaimInv, TokenWhileClaimed

LEMMA BudgetInvInit == Init => BudgetInv
  BY QueueAssumption
  DEF Init, TablesInit, AbsentRow, BudgetInv, Resting, Sweeping, Holds, On, Busy, Idle

LEMMA BudgetInvStep ==
  ASSUME TypeOK, ClaimInv, BudgetInv, [Next]_vars
  PROVE  BudgetInv'
  <1> USE DEF BudgetInv
  <1>0. /\ MaxAttempts \in Nat
        /\ \A m \in Msgs : queue[m].attempts \in Nat
    BY QueueAssumption DEF TypeOK, TablesTypeOK, Row
  <1>1. CASE OtherSteps
    <2>1. \A m \in Msgs : queue'[m].status = "claimed" => queue[m].status = "claimed"
      BY <1>1, ClaimMoves DEF KeepsClaim, EndsClaim
    <2>2. \A m \in Msgs : \/ queue'[m].attempts = queue[m].attempts
                          \/ /\ queue[m].status = "claimed" /\ queue'[m].status # "claimed"
                             /\ queue'[m].attempts = queue[m].attempts + 1
      BY <1>1, AttemptMoves
    <2>3. \A m \in Sweeping' : m \in Msgs /\ queue[m].attempts >= MaxAttempts
      BY <1>1, SweepMoves DEF Next, OtherSteps, Exhausted
    <2>4. \A m \in Sweeping' : queue'[m].attempts >= MaxAttempts
      BY <1>0, <2>2, <2>3
    <2>5. \A w \in Workers, m \in Msgs :
            Holds(w, m)' => worker'[w].attempts = queue'[m].attempts
      <3> SUFFICES ASSUME NEW w \in Workers, NEW m \in Msgs, Holds(w, m)'
                   PROVE  worker'[w].attempts = queue'[m].attempts
        OBVIOUS
      <3>1. Holds(w, m) /\ queue'[m].status = "claimed"
        BY <1>1, HoldsBack
      <3>2. worker'[w].attempts = worker[w].attempts
        BY <1>1, WorkerKeeps DEF Holds, On
      <3>q. QED BY <2>2, <3>1, <3>2
    <2>6. \A w \in Workers : worker'[w].pc = "exhaust" => LastAttempt(w)'
      BY <1>1, WorkerKeeps DEF LastAttempt, Busy
    <2>7. /\ \A m \in Msgs : queue'[m].attempts <= MaxAttempts
          /\ \A m \in Msgs : queue'[m].status = "claimed" => queue'[m].attempts < MaxAttempts
      BY <1>0, <2>1, <2>2
    <2>q. QED BY <2>4, <2>5, <2>6, <2>7
  <1>2. ASSUME NEW w \in Workers, NEW m \in Msgs, Claim(w, m)
        PROVE  BudgetInv'
    <2>1. \A n \in Msgs : queue'[n].attempts = queue[n].attempts
      BY <1>2, ClaimRowEffect DEF TypeOK, TablesTypeOK
    <2>2. \A n \in Msgs : queue'[n].status = "claimed" => queue[n].attempts < MaxAttempts
      BY <1>2, ClaimRowEffect DEF TypeOK, TablesTypeOK
    <2>3. sweep' = sweep /\ Sweeping \subseteq Msgs
      BY <1>2 DEF Claim, Outside, TypeOK, SweepState, Sweeping
    <2>4. \A v \in Workers, n \in Msgs : Holds(v, n)' => worker'[v].attempts = queue'[n].attempts
      <3>1. worker'[w].attempts = queue[m].attempts /\ worker'[w].msg = m
        BY <1>2 DEF Claim, TypeOK
      <3>2. \A v \in Workers : v # w => worker'[v] = worker[v]
        BY <1>2, ClaimEffect DEF TypeOK, TablesTypeOK
      <3>3. ASSUME NEW v \in Workers, v # w, NEW n \in Msgs, Holds(v, n)'
            PROVE  Holds(v, n)
        <4>1. CASE n = m
          <5>1. On(v, m) /\ worker[v].token = queue[m].issued + 1
            BY <1>2, <3>2, <3>3, <4>1, ClaimRowEffect DEF Holds, On, Busy, TypeOK, TablesTypeOK
          <5>q. QED BY <5>1 DEF ClaimInv, TokensIssued, TypeOK, TablesTypeOK, Row
        <4>2. CASE n # m
          BY <1>2, <3>2, <3>3, <4>2, ClaimRowEffect DEF Holds, On, Busy, TypeOK, TablesTypeOK
        <4>q. QED BY <4>1, <4>2
      <3>q. QED BY <2>1, <3>1, <3>2, <3>3 DEF Holds, On
    <2>5. \A v \in Workers : worker'[v].pc = "exhaust" => LastAttempt(v)'
      BY <1>2, ClaimEffect DEF LastAttempt, TypeOK, TablesTypeOK
    <2>q. QED BY <2>1, <2>2, <2>3, <2>4, <2>5 DEF Sweeping
  <1>3. CASE UNCHANGED vars
    BY <1>3 DEF vars, Sweeping, Holds, On, Busy, LastAttempt
  <1>q. QED BY <1>1, <1>2, <1>3 DEF Next, OtherSteps

\* No row is ever retried past its attempt budget.
THEOREM AttemptsInBudgetCorrect == Spec => []AttemptsInBudget
  <1>1. BudgetInv => AttemptsInBudget
    BY DEF BudgetInv, AttemptsInBudget
  <1>q. QED
    BY <1>1, TypeInit, TypeStep, ClaimInvInit, ClaimInvStep, BudgetInvInit,
       BudgetInvStep, PTL DEF Spec
=============================================================================
