---------------------------- MODULE TicketQueue ----------------------------
(***************************************************************************)
(* The Postgres work queue: tables queue.ticket_queue and queue.dead_letter*)
(* (src/migrations/versions/0001_initial_queue_schema.py) and one operator for     *)
(* each SQL statement of enqueue.py, claim.py, send.py, worker.py and      *)
(* dead_letter.py that reads or writes them.  A statement autocommits, so  *)
(* each operator is one atomic change of the tables; what happens between  *)
(* two statements is the business of the module Worker.                    *)
(*                                                                         *)
(* Time is reduced to what a WHERE clause can tell:                        *)
(*   due      next_attempt_at <= NOW()                                     *)
(*   expired  status = 'claimed' and claimed_at older than the lease       *)
(*   sent     sent_at is NULL, inside the throttle window, or older        *)
(* Claim tokens are random UUIDs; here the n-th claim of a row gets the    *)
(* token n, so that no two claims of a row share a token.  0 is NULL.      *)
(***************************************************************************)
EXTENDS Integers, FiniteSets

CONSTANTS Msgs,         \* inbound messages; one idempotency key each
          Tickets,
          TicketOf,     \* the ticket of each message
          MaxAttempts   \* ticket_queue.max_attempts

ASSUME QueueAssumption ==
  /\ IsFiniteSet(Msgs)
  /\ TicketOf \in [Msgs -> Tickets]
  /\ MaxAttempts \in Nat \ {0}

VARIABLES queue,        \* ticket_queue: the row of each message
          letters       \* dead_letter: how many rows each message has there

tables == <<queue, letters>>

Terminal == {"done", "suppressed", "stale_inbound", "dead_lettered"}
Status   == {"absent", "pending", "claimed"} \cup Terminal
Null     == 0

Row == [status : Status, token : Nat, issued : Nat, attempts : Nat,
        due : BOOLEAN, expired : BOOLEAN, sent : {"null", "recent", "old"}]

\* "absent": the message has no row yet.  The other fields have the values
\* the column defaults will give the row.
AbsentRow == [status |-> "absent", token |-> Null, issued |-> 0, attempts |-> 0,
              due |-> TRUE, expired |-> FALSE, sent |-> "null"]

TablesInit == /\ queue = [m \in Msgs |-> AbsentRow]
              /\ letters = [m \in Msgs |-> 0]

\* Mutants, here and below: what each of them breaks is in PROJECT.json.
ExhaustedEarly(m) == queue[m].status = "pending" /\ queue[m].attempts + 1 >= MaxAttempts
ExhaustedLate(m)  == queue[m].status = "pending" /\ queue[m].attempts > MaxAttempts

Exhausted(m) == queue[m].status = "pending" /\ queue[m].attempts >= MaxAttempts
ClaimableAnyAttempts(m) == queue[m].status = "pending" /\ queue[m].due

Claimable(m) == /\ queue[m].status = "pending"
                /\ queue[m].due
                /\ queue[m].attempts < MaxAttempts

SameToken(m) == 1
NextToken(m) == queue[m].issued + 1

(***************************************************************************)
(* Statements.  The operators named ...Row are the SET clauses.            *)
(***************************************************************************)
SetRow(m, row) == queue' = [queue EXCEPT ![m] = row]

\* INSERT ... ON CONFLICT (idempotency_key) DO NOTHING
EnqueueTicket(m) ==
  IF queue[m].status = "absent"
  THEN SetRow(m, [queue[m] EXCEPT !.status = "pending"])
  ELSE UNCHANGED queue

\* SELECT ... FOR UPDATE SKIP LOCKED, then UPDATE, as one statement.
ClaimedRow(m) == [queue[m] EXCEPT !.status = "claimed", !.token = NextToken(m),
                                  !.issued = NextToken(m), !.expired = FALSE]
ClaimOne(m)   == Claimable(m) /\ SetRow(m, ClaimedRow(m))

\* The UPDATEs that carry AND claim_token = $n::uuid touch no row, silently,
\* when the token is not the row's own.
UpdateAnyToken(m, t, row) == SetRow(m, row)                       \* mutant

UpdateIfToken(m, t, row) ==
  IF queue[m].token = t THEN SetRow(m, row) ELSE UNCHANGED queue

\* A claim given up, by its worker or by the recovery.
RequeuedUnsent(m) == [queue[m] EXCEPT !.status = "pending", !.token = Null,
                                      !.expired = FALSE, !.sent = "null"]   \* mutant

PendingRow(m) == [queue[m] EXCEPT !.status = "pending", !.token = Null, !.expired = FALSE]

DoneRow(m) == [queue[m] EXCEPT !.status = "done", !.token = Null, !.expired = FALSE]

RetryCountsDown(m) == [PendingRow(m) EXCEPT !.attempts = queue[m].attempts - 1,
                                            !.due = FALSE]   \* mutant

RetryRow(m) == [PendingRow(m) EXCEPT !.attempts = queue[m].attempts + 1, !.due = FALSE]
SentRow(m) == [queue[m] EXCEPT !.sent = "recent"]

FinalizeDone(m, t)  == UpdateIfToken(m, t, DoneRow(m))
FinalizeRetry(m, t) == UpdateIfToken(m, t, RetryRow(m))
RecordSent(m, t)    == UpdateIfToken(m, t, SentRow(m))

\* Two UPDATEs name the row by id only: _mark_status and the second statement
\* of to_dead_letter, whose first statement is an INSERT.
ClosedRow(m, status) == [queue[m] EXCEPT !.status = status, !.token = Null,
                                         !.expired = FALSE]

MarkStatus(m, status) == SetRow(m, ClosedRow(m, status))
InsertLetter(m)       == letters' = [letters EXCEPT ![m] = @ + 1]
CloseLetter(m)        == SetRow(m, ClosedRow(m, "dead_lettered"))

\* One UPDATE over every row whose lease ran out; attempts stay as they are.
StaleOrLive == {m \in Msgs : queue[m].status = "claimed"}          \* mutant

Stale == {m \in Msgs : queue[m].status = "claimed" /\ queue[m].expired}

RecoverTokenOnly ==                                              \* mutant
  queue' = [m \in Msgs |-> IF m \in Stale THEN [queue[m] EXCEPT !.token = Null]
                                          ELSE queue[m]]

RecoverStaleClaims ==
  queue' = [m \in Msgs |-> IF m \in Stale THEN PendingRow(m) ELSE queue[m]]

\* SELECT COUNT(*) of the replies recorded for the ticket inside the window.
RecentReplies(t) ==
  Cardinality({m \in Msgs : TicketOf[m] = t /\ queue[m].sent = "recent"})

(***************************************************************************)
(* Passing of time                                                         *)
(***************************************************************************)

\* The backoff of a retried row runs out.
BecomeDue(m) ==
  /\ queue[m].status = "pending" /\ ~queue[m].due
  /\ SetRow(m, [queue[m] EXCEPT !.due = TRUE])

\* The lease of a claim runs out.
LeaseExpires(m) ==
  /\ queue[m].status = "claimed" /\ ~queue[m].expired
  /\ SetRow(m, [queue[m] EXCEPT !.expired = TRUE])

\* A recorded reply leaves the throttle window.
WindowPasses(m) ==
  /\ queue[m].sent = "recent"
  /\ SetRow(m, [queue[m] EXCEPT !.sent = "old"])

TablesTypeOK == /\ queue \in [Msgs -> Row]
                /\ letters \in [Msgs -> Nat]
=============================================================================
