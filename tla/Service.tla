------------------------------ MODULE Service -------------------------------
(***************************************************************************)
(* The process (src/src/main.py): five tasks on one event loop, started    *)
(* together, and the shutdown that the first one to end sets off.  The     *)
(* poller and the webhook are those of the module Intake; of the worker    *)
(* (module Worker) and of the two schedulers only the fate of the task is  *)
(* modelled.  The process may be killed, told to stop and started again.   *)
(***************************************************************************)
EXTENDS Intake

CONSTANTS IntervalArg,  \* what main() passes as interval_seconds:
                        \* "settings", the Settings object, or "seconds"
          Schedulers,   \* the scheduler tasks: stale_recovery, exhausted_sweep
          Incidents     \* which of "signal", "crash", "webhook", "worker", "load" occur

ASSUME ServiceAssumption ==
  /\ IntervalArg \in {"settings", "seconds"}
  /\ Incidents \subseteq {"signal", "crash", "webhook", "worker", "load"}

VARIABLES proc,      \* where main() is
          task,      \* the state of each task
          pool       \* "open" or "closed"

superVars == <<proc, task, pool>>
vars      == <<intakeVars, superVars>>

Tasks   == {"webhook", "poller", "worker"} \cup Schedulers

Running(k) == proc \in {"running", "closing", "closed"} /\ task[k] = "running"
Ended      == {k \in Tasks : task[k] = "ended"}

Incident(kind) == kind \in Incidents /\ Fault

\* Cancellation is a request: a task ends when it next runs, and does nothing
\* else before.
CancelAll ==
  /\ task' = [k \in Tasks |-> IF task[k] = "running" THEN "cancelling" ELSE task[k]]
  /\ poll' = PollerOff
End(k)    == task' = [task EXCEPT ![k] = "ended"]

Init ==
  /\ IntakeInit
  /\ proc = "down"
  /\ task = [k \in Tasks |-> "ended"]
  /\ pool = "closed"

-----------------------------------------------------------------------------
(***************************************************************************)
(* main()                                                                  *)
(***************************************************************************)
Start ==
  /\ proc = "down"
  /\ proc' = "running" /\ pool' = "open"
  /\ task' = [k \in Tasks |-> "running"]
  /\ poll' = PollerNew
  /\ UNCHANGED <<freshdesk, rows, ckpt, req, exposed, faults>>

\* SIGTERM or SIGINT: _handle_signal cancels every task.
Signal ==
  /\ proc = "running"
  /\ Incident("signal")
  /\ CancelAll
  /\ UNCHANGED <<freshdesk, rows, ckpt, req, exposed, proc, pool>>

AllCompleted == proc = "running" /\ Ended = Tasks                  \* mutant

\* asyncio.wait(..., FIRST_COMPLETED) returns.
SomeCompleted == proc = "running" /\ Ended # {}

ShutDown ==
  /\ SomeCompleted
  /\ proc' = "closing"
  /\ CancelAll
  /\ UNCHANGED <<freshdesk, rows, ckpt, req, exposed, faults, pool>>

NotAwaited == proc = "closing"                                    \* mutant

\* gather(*pending) has returned.
Gathered == proc = "closing" /\ Ended = Tasks

ClosePool ==
  /\ Gathered
  /\ proc' = "closed" /\ pool' = "closed"
  /\ UNCHANGED <<intakeVars, task>>

\* aclose() of the HTTP client; where no request was ever made that client is
\* None, and main() ends with an AttributeError instead of returning.  Webhook
\* requests still being served end with the event loop.
CloseClient ==
  /\ proc = "closed"
  /\ proc' = "down"
  /\ req' = [h \in Handlers |-> Idle]
  /\ UNCHANGED <<freshdesk, rows, ckpt, poll, exposed, faults,
                 task, pool>>

Crash ==
  /\ proc # "down"
  /\ Incident("crash")
  /\ proc' = "down" /\ pool' = "closed"
  /\ task' = [k \in Tasks |-> "ended"]
  /\ poll' = PollerOff
  /\ req' = [h \in Handlers |-> Idle]
  /\ UNCHANGED <<freshdesk, rows, ckpt, exposed>>

(***************************************************************************)
(* The tasks                                                               *)
(***************************************************************************)

\* CancelledError passes every "except Exception" on its way out.
TaskCancelled(k) ==
  /\ task[k] = "cancelling"
  /\ End(k)
  /\ UNCHANGED <<intakeVars, proc, pool>>

\* uvicorn ends, or an error leaves worker_loop.
TaskFails(k) ==
  /\ k \in {"webhook", "worker"} /\ Running(k)
  /\ Incident(k)
  /\ End(k)
  /\ UNCHANGED <<intakeState, proc, pool>>

\* A round of a scheduler raises: logged, and the loop goes on.
SchedulerFails(k) ==
  /\ k \in Schedulers /\ Running(k)
  /\ Fault
  /\ UNCHANGED <<freshdesk, rows, ckpt, poll, req, exposed, superVars>>

\* load_checkpoint is outside the loop's try: timedelta(seconds=Settings) is a
\* TypeError, and a database error ends the task too.
PollerLoads ==
  /\ Running("poller")
  /\ IntervalArg = "seconds"
  /\ LoadCheckpoint
  /\ UNCHANGED superVars

PollerDies ==
  /\ Running("poller") /\ poll.pc = "load"
  /\ IF IntervalArg = "settings" THEN UNCHANGED faults ELSE Incident("load")
  /\ End("poller")
  /\ poll' = PollerOff
  /\ UNCHANGED <<freshdesk, rows, ckpt, req, exposed, proc, pool>>

PollerRuns ==
  /\ Running("poller")
  /\ PollerStep
  /\ UNCHANGED <<proc, task, pool>>

ErrorEndsPoller ==                                                 \* mutant
  /\ Running("poller") /\ ReconcileFails
  /\ End("poller")
  /\ UNCHANGED <<proc, pool>>

PollerFails ==
  /\ Running("poller")
  /\ ReconcileFails
  /\ UNCHANGED <<proc, task, pool>>

\* A new request needs the server; one being served only the event loop.
HookArrives(h) == Running("webhook") /\ HookResolve(h) /\ UNCHANGED superVars

HookRuns(h) == /\ proc # "down"
               /\ HookEnqueue(h) \/ HookFails(h)
               /\ UNCHANGED superVars

Main  == Start \/ Signal \/ ShutDown \/ ClosePool \/ CloseClient \/ Crash
Fate  == \E k \in Tasks : TaskCancelled(k) \/ TaskFails(k) \/ SchedulerFails(k)
Poll  == PollerLoads \/ PollerDies \/ PollerRuns \/ PollerFails
Hook  == \E h \in Handlers : HookArrives(h) \/ HookRuns(h)
World == TicketUpdate /\ UNCHANGED superVars

Next == Main \/ Fate \/ Poll \/ Hook \/ World

\* The event loop runs every task that can go on.  Nothing makes anyone start
\* the process, and Freshdesk owes no delivery.
Fairness == /\ WF_vars(PollerLoads) /\ WF_vars(PollerRuns)
            /\ WF_vars(PollerDies /\ IntervalArg = "settings")
            /\ \A k \in Tasks : WF_vars(TaskCancelled(k))
            /\ WF_vars(ShutDown) /\ WF_vars(ClosePool) /\ WF_vars(CloseClient)

Spec == Init /\ [][Next]_vars /\ Fairness

-----------------------------------------------------------------------------
(***************************************************************************)
(* Properties                                                              *)
(***************************************************************************)
TypeOK ==
  /\ conv \in [Tickets -> Seq(Kinds)]
  /\ updated \in [Tickets -> 0..clock] /\ clock \in Nat
  /\ exposed \subseteq Tickets
  /\ rows \subseteq Tickets \X Nat
  /\ ckpt \in Int
  /\ poll.pc \in {"off", "load", "list", "work", "enqueue"}
  /\ poll.pc = "off" <=> task["poller"] # "running"
  /\ \A h \in Handlers : req[h].pc \in {"idle", "enqueue"}
  /\ proc \in {"down", "running", "closing", "closed"}
  /\ task \in [Tasks -> {"running", "cancelling", "ended"}]
  /\ pool \in {"open", "closed"}
  /\ faults \in 0..MaxFaults

\* The latest message of the ticket that the poller's guard lets pass has no row.
Unqueued(t) ==
  LET passing == Candidates(t, PollerWhitelisted)
  IN \E m \in passing : (\A n \in passing : n <= m) /\ <<t, m>> \notin rows

\* Whatever fails, races or restarts, a ticket whose latest customer message
\* is not in the queue will be listed again: by the running poller, whose
\* since has not passed it, and by the next process, which starts from the
\* checkpoint (reconcile.py:9-12, save_checkpoint after the loop).  The
\* tickets excepted are those the code does give up: updated behind a scan,
\* between two of its pages.
NothingForgotten ==
  \A t \in Tickets : Unqueued(t) /\ t \notin exposed =>
    /\ poll.pc \notin {"off", "load"} => updated[t] >= poll.since
    /\ updated[t] >= ckpt

\* The poller is the backstop for lost deliveries (main.py:17): while the
\* process lives, the latest message of every ticket that the poller lets pass
\* gets its row, with no help from the webhook.  Where the integration writes
\* after the customer and the poller has no whitelist (main.py:140), that is the
\* integration's message, and the customer's has no backstop.
Backstop ==
  []<>(proc = "down" \/ \A t \in Tickets : Unqueued(t) => t \in exposed)

\* What an intake is about to insert passed every layer of the guard under the
\* whitelist it was given, and still does when the INSERT runs, whatever was
\* added to the ticket since; so a row is never the sentinel id, an agent's
\* message or an automatic one, and an integration's only where an intake has
\* no whitelist (resolve_latest_inbound_msg_id; main.py:140 gives the poller none).
RowsPassTheGuard ==
  /\ \A h \in Handlers : req[h].pc = "enqueue" =>
       req[h].msg \in Candidates(req[h].ticket, HookWhitelisted)
  /\ poll.pc = "enqueue" => poll.msg \in Candidates(Head(poll.todo).id, PollerWhitelisted)
  /\ \A r \in rows : r[2] \in Candidates(r[1], HookWhitelisted /\ PollerWhitelisted)

\* The pool is closed after the last task that borrows from it is gone: the
\* cancelled tasks are awaited before the finally clause (main.py:166-171).
PoolOutlivesTasks == pool = "closed" => Ended = Tasks

\* The process is never half alive: once a task has ended, every other one is
\* cancelled and the process goes down (main.py:161-168).
NeverHalfAlive == Ended # {} ~> proc = "down"

\* Once its loop runs, the poller ends only because it was cancelled or the
\* process was killed: no failing call ends it (reconcile.py:258).
PollerSurvivesErrors ==
  [][poll.pc \notin {"off", "load"} /\ poll'.pc = "off"
       => task'["poller"] = "cancelling" \/ proc' = "down"]_vars

\* main()'s docstring: "Start all components and run until shutdown signal."
RunsUntilSignal == proc = "closing" => faults > 0
=============================================================================
