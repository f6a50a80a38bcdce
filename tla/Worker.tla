------------------------------- MODULE Worker -------------------------------
(***************************************************************************)
(* The reply path: N copies of worker_loop (src/src/work_queue/worker.py), *)
(* the send seam (send.py), the Freshdesk client's POST with its retries   *)
(* (freshdesk_io/client.py), the stale-claim recovery and the              *)
(* exhausted-row sweep (scheduled by main.py), all over the tables of      *)
(* TicketQueue.  Each worker holds the copy of the row it read at claim    *)
(* time; every SQL statement and every HTTP call is a step of its own, so  *)
(* workers, recovery and sweep interleave between any two of them.         *)
(***************************************************************************)
EXTENDS TicketQueue, LoopGuard

CONSTANTS Workers,
          NoMsg,         \* "no row": not a message
          Mode,          \* settings.send_mode: "live" or "dry_run"
          ThrottleN,     \* settings.per_ticket_reply_throttle_n
          HttpAttempts,  \* FreshdeskClient(max_attempts)
          Whitelisted,   \* is settings.selless_sync_user_ids non-empty?
          Faults,        \* which faults may happen
          MaxFaults      \* bound on the number of faults

FaultKinds == {"crash",        \* a worker or the sweep dies between two steps
               "window_crash", \* ... between a POST and its sent_at write
               "lost_answer",  \* Freshdesk applies a POST, the answer is lost
               "db_error",     \* a statement fails and changes nothing
               "overrun"}      \* a claim outlives its lease, its worker alive

ASSUME WorkerAssumption ==
  /\ NoMsg \notin Msgs
  /\ Mode \in {"live", "dry_run"}
  /\ ThrottleN \in Nat
  /\ HttpAttempts \in Nat \ {0}
  /\ Whitelisted \in BOOLEAN
  /\ Faults \subseteq FaultKinds
  /\ MaxFaults \in Nat

VARIABLES worker,   \* what each worker is doing
          sweep,    \* what sweep_exhausted is doing
          replies,  \* Freshdesk: replies posted for each message
          dryRun,   \* dry_run_log: rows of each message
          exposed,  \* messages some fault has exposed to a second reply
          faults    \* faults so far

vars == <<queue, letters, worker, sweep, replies, dryRun, exposed, faults>>

\* The statement or call a worker is about to make.
Pc == {"idle", "fetch", "throttle", "send", "record", "finalize",
       "suppressed", "stale_inbound", "retry", "exhaust", "letter", "close"}

WorkerState == [pc : Pc, msg : Msgs \cup {NoMsg}, token : Nat,
                attempts : Nat, tries : Nat]
Idle == [pc |-> "idle", msg |-> NoMsg, token |-> Null, attempts |-> 0, tries |-> 0]

SweepState == [todo : SUBSET Msgs, current : Msgs \cup {NoMsg}]
Resting == [todo |-> {}, current |-> NoMsg]

Init == /\ TablesInit
        /\ worker  = [w \in Workers |-> Idle]
        /\ sweep   = Resting
        /\ replies = [m \in Msgs |-> 0]
        /\ dryRun  = [m \in Msgs |-> 0]
        /\ exposed = {}
        /\ faults  = 0

Busy(w)     == worker[w].pc # "idle"
On(w, m)    == Busy(w) /\ worker[w].msg = m
\* w works on the row of m under the row's current claim.
Holds(w, m) == On(w, m) /\ worker[w].token = queue[m].token
Held(m)     == \E w \in Workers : Holds(w, m)

Goto(w, pc) == worker' = [worker EXCEPT ![w].pc = pc]
Release(w)  == worker' = [worker EXCEPT ![w] = Idle]

Fault(kind) == /\ kind \in Faults
               /\ faults < MaxFaults
               /\ faults' = faults + 1

NoFault == UNCHANGED <<exposed, faults>>
Outside == UNCHANGED <<letters, sweep, replies, dryRun>> /\ NoFault

(***************************************************************************)
(* The except clauses of process_queue_row: what each kind of error does   *)
(* next, decided on the attempts the worker read at claim time.            *)
(***************************************************************************)
LastAttempt(w) == worker[w].attempts + 1 >= MaxAttempts

CloseWithoutLetter(w, kind) ==                                   \* mutant
  IF kind = "fatal" THEN "close" ELSE IF LastAttempt(w) THEN "letter" ELSE "retry"

Handler(w, kind) ==
  CASE kind = "fatal"      -> "letter"
    [] kind = "rate_limit" -> IF LastAttempt(w) THEN "letter" ELSE "retry"
    [] kind = "transient"  -> IF LastAttempt(w) THEN "exhaust" ELSE "retry"

ErrorKinds == {"fatal", "rate_limit", "transient"}

(***************************************************************************)
(* worker_loop and process_queue_row                                       *)
(***************************************************************************)

Enqueue(m) == /\ queue[m].status = "absent"
              /\ EnqueueTicket(m)
              /\ UNCHANGED worker /\ Outside

\* Step 1, skip-if-sent, looks at the row as the claim returned it.
FetchAlways(m)  == "fetch"                                        \* mutant
SkipIfUnsent(m) == IF queue[m].sent = "null" THEN "finalize" ELSE "fetch"  \* mutant

FirstStep(m) == IF queue[m].sent = "null" THEN "fetch" ELSE "finalize"

Claim(w, m) ==
  /\ ~Busy(w)
  /\ ClaimOne(m)
  /\ worker' = [worker EXCEPT ![w] =
       [pc |-> FirstStep(m), msg |-> m, token |-> NextToken(m),
        attempts |-> queue[m].attempts, tries |-> 0]]
  /\ Outside

\* Steps 2 and 3: GET the conversations, pick one, re-check should_suppress.
Fetch(w) ==
  /\ worker[w].pc = "fetch"
  /\ \E v \in Verdicts(Whitelisted) :
       Goto(w, IF v = "reply" THEN "throttle" ELSE v)
  /\ UNCHANGED queue /\ Outside

FetchFails(w) ==
  /\ worker[w].pc = "fetch"
  /\ \E kind \in ErrorKinds : Goto(w, Handler(w, kind))
  /\ UNCHANGED queue /\ Outside

Mark(w) ==
  /\ worker[w].pc \in {"suppressed", "stale_inbound"}
  /\ MarkStatus(worker[w].msg, worker[w].pc)
  /\ Release(w) /\ Outside

\* Step 4: count the recorded replies of the ticket.
ThrottledAbove(t) == RecentReplies(t) > ThrottleN                 \* mutant

Throttled(t) == RecentReplies(t) >= ThrottleN

Throttle(w) ==
  /\ worker[w].pc = "throttle"
  /\ Goto(w, IF Throttled(TicketOf[worker[w].msg])
             THEN "stale_inbound" ELSE "send")
  /\ UNCHANGED queue /\ Outside

\* Step 7, dry-run: the would-be reply is logged; sent_at stays NULL.
DryRunSend(w) ==
  /\ worker[w].pc = "send" /\ Mode = "dry_run"
  /\ dryRun' = [dryRun EXCEPT ![worker[w].msg] = @ + 1]
  /\ Goto(w, "finalize")
  /\ UNCHANGED <<queue, letters, sweep, replies>> /\ NoFault

\* Step 7, live: one HTTP attempt of post_reply.
Sending(w) == worker[w].pc = "send" /\ Mode = "live"

\* tenacity sends the POST again after a retryable error, up to HttpAttempts
\* times; then the error reaches process_queue_row.
PostFails(w, kind) ==
  IF kind # "fatal" /\ worker[w].tries + 1 < HttpAttempts
  THEN worker' = [worker EXCEPT ![w].tries = worker[w].tries + 1]
  ELSE Goto(w, Handler(w, kind))

Reply(m) == replies' = [replies EXCEPT ![m] = @ + 1]

PostAnswered(w) ==
  /\ Sending(w)
  /\ Reply(worker[w].msg)
  /\ Goto(w, "record")
  /\ UNCHANGED <<queue, letters, sweep, dryRun>> /\ NoFault

PostRejected(w) ==
  /\ Sending(w)
  /\ \E kind \in ErrorKinds : PostFails(w, kind)
  /\ UNCHANGED queue /\ Outside

\* The reply is in the ticket, but the answer is a timeout or a gateway error.
PostAnswerLost(w) ==
  /\ Sending(w)
  /\ Fault("lost_answer")
  /\ Reply(worker[w].msg)
  /\ exposed' = exposed \cup {worker[w].msg}
  /\ PostFails(w, "transient")
  /\ UNCHANGED <<queue, letters, sweep, dryRun>>

\* Send-intent: the token-checked write of sent_at.
Record(w) ==
  /\ worker[w].pc = "record"
  /\ RecordSent(worker[w].msg, worker[w].token)
  /\ Goto(w, "finalize")
  /\ Outside

\* Step 8, and the skip-if-sent path.
Finalize(w) ==
  /\ worker[w].pc = "finalize"
  /\ FinalizeDone(worker[w].msg, worker[w].token)
  /\ Release(w) /\ Outside

\* The handlers.  A retry with attempts left goes back to the loop; the last
\* one goes on to the dead letter, whatever finalize_retry found.
Retry(w) ==
  /\ worker[w].pc \in {"retry", "exhaust"}
  /\ FinalizeRetry(worker[w].msg, worker[w].token)
  /\ IF worker[w].pc = "retry" THEN Release(w) ELSE Goto(w, "letter")
  /\ Outside

\* to_dead_letter: two statements, no transaction, no token.
WriteLetter(w) ==
  /\ worker[w].pc = "letter"
  /\ InsertLetter(worker[w].msg)
  /\ Goto(w, "close")
  /\ UNCHANGED <<queue, sweep, replies, dryRun>> /\ NoFault

CloseRow(w) ==
  /\ worker[w].pc = "close"
  /\ CloseLetter(worker[w].msg)
  /\ Release(w) /\ Outside

(***************************************************************************)
(* sweep_exhausted: a SELECT, then to_dead_letter for each row it returned *)
(***************************************************************************)

SweepSelect ==
  /\ sweep = Resting
  /\ \E m \in Msgs : Exhausted(m)
  /\ sweep' = [sweep EXCEPT !.todo = {m \in Msgs : Exhausted(m)}]
  /\ UNCHANGED <<queue, letters, worker, replies, dryRun>> /\ NoFault

SweepWriteLetter(m) ==
  /\ m \in sweep.todo /\ sweep.current = NoMsg
  /\ InsertLetter(m)
  /\ sweep' = [todo |-> sweep.todo \ {m}, current |-> m]
  /\ UNCHANGED <<queue, worker, replies, dryRun>> /\ NoFault

SweepCloseRow ==
  /\ sweep.current # NoMsg
  /\ CloseLetter(sweep.current)
  /\ sweep' = [sweep EXCEPT !.current = NoMsg]
  /\ UNCHANGED <<letters, worker, replies, dryRun>> /\ NoFault

(***************************************************************************)
(* recover_stale_claims, and the leases it reads                           *)
(***************************************************************************)

\* A claim expires under a worker that is still at it only by a fault.
Lease(m) ==
  /\ LeaseExpires(m)
  /\ IF Held(m) THEN Fault("overrun") ELSE UNCHANGED faults
  /\ UNCHANGED <<letters, worker, sweep, replies, dryRun, exposed>>

Recover ==
  /\ Stale # {}
  /\ RecoverStaleClaims
  /\ exposed' = exposed \cup {m \in Stale : Held(m)}
  /\ UNCHANGED <<letters, worker, sweep, replies, dryRun, faults>>

Elapse(m) == /\ BecomeDue(m) \/ WindowPasses(m)
             /\ UNCHANGED worker /\ Outside

(***************************************************************************)
(* Faults                                                                  *)
(***************************************************************************)

\* A worker dies (process crash, cancellation at shutdown, or an exception out
\* of an except clause) and, with the process, is started again: worker_loop has
\* no try, and the repository leaves the restart to whatever runs main.py.
Crash(w) ==
  /\ Busy(w)
  /\ Fault(IF worker[w].pc = "record" THEN "window_crash" ELSE "crash")
  /\ exposed' = IF worker[w].pc = "record"
                THEN exposed \cup {worker[w].msg} ELSE exposed
  /\ Release(w)
  /\ UNCHANGED <<queue, letters, sweep, replies, dryRun>>

\* A statement of the try block raises: the catch-all clause takes over.
DbError(w) ==
  /\ \/ worker[w].pc \in {"throttle", "record", "finalize",
                          "suppressed", "stale_inbound"}
     \/ worker[w].pc = "send" /\ Mode = "dry_run"
  /\ Fault("db_error")
  /\ exposed' = IF worker[w].pc = "record"
                THEN exposed \cup {worker[w].msg} ELSE exposed
  /\ Goto(w, Handler(w, "transient"))
  /\ UNCHANGED <<queue, letters, sweep, replies, dryRun>>

\* The sweep dies with its process, or to_dead_letter raises: the sweep logs
\* the error and goes on with the next row.
SweepFails ==
  /\ sweep # Resting
  /\ \/ Fault("crash") /\ sweep' = Resting
     \/ /\ Fault("db_error")
        /\ \/ /\ sweep.current # NoMsg
              /\ sweep' = [sweep EXCEPT !.current = NoMsg]
           \/ /\ sweep.current = NoMsg
              /\ \E m \in sweep.todo : sweep' = [sweep EXCEPT !.todo = @ \ {m}]
  /\ UNCHANGED <<queue, letters, worker, replies, dryRun, exposed>>

(***************************************************************************)
(* The system                                                              *)
(***************************************************************************)

WorkerStep(w) ==
  \/ Fetch(w) \/ FetchFails(w) \/ Mark(w) \/ Throttle(w)
  \/ DryRunSend(w) \/ PostAnswered(w) \/ PostRejected(w)
  \/ Record(w) \/ Finalize(w) \/ Retry(w) \/ WriteLetter(w) \/ CloseRow(w)

SweepStep == SweepSelect \/ (\E m \in Msgs : SweepWriteLetter(m)) \/ SweepCloseRow

\* Every message is settled: the loops poll an empty queue.
AllSettled ==
  /\ \A m \in Msgs : queue[m].status \in Terminal /\ queue[m].sent # "recent"
  /\ \A w \in Workers : ~Busy(w)
  /\ UNCHANGED vars

Next ==
  \/ \E m \in Msgs : Enqueue(m) \/ Lease(m) \/ Elapse(m)
  \/ \E w \in Workers, m \in Msgs : Claim(w, m)
  \/ \E w \in Workers : WorkerStep(w) \/ PostAnswerLost(w) \/ Crash(w) \/ DbError(w)
  \/ SweepStep \/ SweepFails
  \/ Recover
  \/ AllSettled

Spec == Init /\ [][Next]_vars

\* Scheduling: a busy worker runs on, whatever its calls answer; the two
\* schedulers wake up again and again; clocks advance.  claim_one takes the
\* oldest due row first, so a row that stays claimable is not overtaken for
\* ever: strong fairness of its claim.
Fairness ==
  /\ \A w \in Workers : WF_vars(WorkerStep(w))
  /\ \A m \in Msgs : /\ SF_vars(\E w \in Workers : Claim(w, m))
                     /\ WF_vars(Lease(m) /\ ~Held(m))
                     /\ WF_vars(Elapse(m))
  /\ WF_vars(Recover)
  /\ WF_vars(SweepStep)

FairSpec == Spec /\ Fairness

(***************************************************************************)
(* Properties                                                              *)
(***************************************************************************)

\* Types.
TypeOK ==
  /\ TablesTypeOK
  /\ worker \in [Workers -> WorkerState]
  /\ \A w \in Workers : Busy(w) => worker[w].msg \in Msgs
  /\ sweep \in SweepState
  /\ replies \in [Msgs -> Nat]
  /\ dryRun \in [Msgs -> Nat]
  /\ exposed \subseteq Msgs
  /\ faults \in 0..MaxFaults

\* claim_one and the token checks: at any time at most one worker works on a
\* row under its current claim, whatever crashed, overran or was recovered.
ClaimExclusive ==
  \A w, v \in Workers, m \in Msgs : Holds(w, m) /\ Holds(v, m) => w = v

\* claim_one and finalize_retry: late and repeated retries never push a row
\* past its attempt budget.
AttemptsInBudget == \A m \in Msgs : queue[m].attempts <= MaxAttempts

\* send.py, worker.py step 1: a message is answered twice only if one of the
\* four faults that lose a sent_at write hit it: a lost answer, a crash or a
\* failed write right after the POST, or the recovery of a live claim.
\* Every other crash, error and interleaving leaves it with one reply.
AtMostOneReply == \A m \in Msgs : m \notin exposed => replies[m] <= 1

\* worker.py step 1: once sent_at is recorded only an exposed message can be
\* answered again.
NoReplyAfterRecord ==
  [][\A m \in Msgs : /\ queue[m].sent # "null"
                     /\ replies'[m] # replies[m]
                     => m \in exposed]_vars

\* finalize_done: a row is done only after its reply went out (live) or was
\* logged (dry-run); in live mode the row says so itself.
DoneMeansAnswered ==
  \A m \in Msgs : queue[m].status = "done" =>
    IF Mode = "live" THEN replies[m] >= 1 /\ queue[m].sent # "null"
                     ELSE dryRun[m] >= 1

\* worker.py steps 3 and 4: a row closed without an answer (suppressed,
\* stale_inbound) belongs to a customer who got none.
DismissedMeansUnanswered ==
  \A m \in Msgs : /\ queue[m].status \in {"suppressed", "stale_inbound"}
                  /\ m \notin exposed
                  => replies[m] = 0

\* to_dead_letter: no row is closed as dead-lettered without its letter, even
\* when the worker, the sweep or a statement fails half way.
DeadLetterRecorded ==
  \A m \in Msgs : queue[m].status = "dead_lettered" => letters[m] >= 1

\* loop_guard.should_throttle_ticket: at most n recorded replies per ticket
\* inside the window.
ThrottleBound == \A t \in Tickets : RecentReplies(t) <= ThrottleN

\* A settled message stays as it was settled and gets no further reply: no
\* retry, recovery, sweep or late worker takes it up again unless a fault
\* exposed it, although _mark_status and to_dead_letter check no token.
SettledStays ==
  [][\A m \in Msgs : queue[m].status \in Terminal /\ m \notin exposed
       => queue'[m].status = queue[m].status /\ replies'[m] = replies[m]]_vars

\* main.py's recovery and sweep ("no silent stuck rows"): every message that
\* reached the queue is settled in the end.
EveryMessageSettles ==
  \A m \in Msgs : queue[m].status # "absent" ~> queue[m].status \in Terminal

\* sweep_exhausted: a row out of attempts ends in the dead letters, even when
\* the worker died before it wrote the letter.
ExhaustedIsSwept ==
  \A m \in Msgs : /\ queue[m].status = "pending"
                  /\ queue[m].attempts = MaxAttempts
                  ~> queue[m].status = "dead_lettered"

(***************************************************************************)
(* Statements of the docs that the code does not keep                      *)
(***************************************************************************)

\* claim.py, "a stale/crashed worker that wakes up cannot finalize a row
\* already reclaimed": a claimed row is closed only under its current claim.
StaleWorkerCannotFinalize ==
  [][\A m \in Msgs : /\ queue[m].status = "claimed"
                     /\ queue'[m].status \in Terminal
                     => \E w \in Workers : Holds(w, m) /\ worker'[w] = Idle]_vars

\* send.py, "exactly-once is enforced by three layers": one reply per message,
\* unless the process dies right after the POST.
ExactlyOnce == \A m \in Msgs : replies[m] <= 1

\* dead_letter.py, "a row cannot be dead-lettered twice under normal operation".
DeadLetteredOnce == \A m \in Msgs : letters[m] <= 1

(***************************************************************************)
(* Refinement: as long as no fault loses a sent_at write (Faults has only  *)
(* "crash"), the live reply path implements Lifecycle.  A message is open  *)
(* while its row is pending or claimed; its answers are the replies in the *)
(* ticket.                                                                 *)
(***************************************************************************)
L == INSTANCE Lifecycle WITH
       stage    <- [m \in Msgs |->
                      CASE queue[m].status = "absent" -> "new"
                        [] queue[m].status \in {"pending", "claimed"} -> "open"
                        [] OTHER -> queue[m].status],
       answers  <- replies

\* worker.py's promise, one reply and one final status per message.
ImplementsLifecycle == L!Spec

=============================================================================
