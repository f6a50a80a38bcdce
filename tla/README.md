# cs-agent-teams: TLA+ models, model checks and proofs

The repository is a customer-support backend around Freshdesk: messages of
customers come in by webhook and by polling, wait in a Postgres queue, and a
worker answers each of them once. Beside it stand MCP servers that look up orders
and knowledge for the drafting agents, an ingest pipeline that fills the knowledge
tables, and a file store over the same exported snapshot. This directory models
these parts, checks them with TLC and proves what matters most with TLAPS.

## 1. The system

| Component | State it keeps | Operations | What makes it correct |
|---|---|---|---|
| Queue tables (`work_queue/claim.py`, `enqueue.py`, migration 0001) | `ticket_queue`, `dead_letter`, `dry_run_log`: status, claim token, attempts, `sent_at` | enqueue, claim, finalize, retry, recover | one row per message; one owner per claim; attempts in budget |
| Worker (`work_queue/worker.py`) | the row it read at claim time | claim, fetch, guard, throttle, send, finalize, the except clauses | one reply per message; a final status that tells the truth; no silent stuck row |
| Send seam (`work_queue/send.py`) | - | dry-run log; POST, then `sent_at` | no second POST once `sent_at` is set |
| Dead letters (`work_queue/dead_letter.py`) | - | `to_dead_letter`, `sweep_exhausted` | every dead-lettered row has its letter; exhausted rows get one |
| Loop guard (`guards/loop_guard.py`) | - | `should_suppress`, `should_throttle_ticket` | nothing but public customer messages is answered; at most n replies per window |
| Freshdesk client (`freshdesk_io/`) | - | GET/POST with tenacity retries | retries only what may be retried |
| Poller (`poller/reconcile.py`) | `poller_checkpoint`, `since` | scan, resolve, enqueue, save | no update is lost between scans and restarts |
| Webhook (`webhook/receiver.py`) | - | verify, resolve, enqueue | no message that the guard suppresses; whatever it loses, the poller finds |
| Supervisor (`main.py`) | five tasks, the pool | start, wait for the first to end, cancel, gather, close | the process is never half alive; the pool is closed last |
| Selless MCP (`selless_mcp/`) | token bucket, audit pool | five read-only tools behind two middlewares | rate bound; no unaudited answer; no denied field |
| Knowledge MCP (`knowledge_mcp/`) | knowledge tables (read) | hybrid retrieval, conflict flag, override, exact lookups | no citation dropped; only a human row resolves a conflict |
| Ingest (`ingest/`) | knowledge tables (write) | read, chunk, embed, upsert | no text lost in the cut; the store is what the export says; a repeated run changes nothing |
| File store (`file_store/`) | snapshot files, a cached index | `get_template`, field choices, validation | the library's text of a template, without the rest of the heading line that the library has in front; nothing valid that Freshdesk does not list |
| Demonstration (`scripts/cs_team_demo.py`) | - | pre-screen, grounded draft, verdict | a draft for an order is the first template that has a text; an injected ticket still gets a draft, and a hint that says so |
| Reply MCP, PII, configuration, other scripts | - | reads and formatting | - |

The parts meet in the tables. The webhook and the poller insert rows; the worker,
the recovery scheduler and the sweep scheduler update them, each SQL statement in
its own transaction; the worker and the intake call Freshdesk. Nothing else is
shared inside the process but the connection pool.

The ingest pipeline runs by hand in a process of its own; it and the
knowledge server meet in the knowledge tables, it and the file store in the
snapshot files. The Selless server shares nothing with the others.

The hard behaviours are in the reply path: statements of several actors
interleave; a claim can be taken from a live worker; the process can die, a call
or a statement can fail, between any two steps; a POST cannot be undone and its
answer can be lost. In the intake, tickets move between the pages of a scan while
it runs, and a checkpoint must not pass what is not queued. In the knowledge part,
a run that breaks off leaves a mixture of exports, which searches read. `PROJECT.json`
lists the hazards line by line.

## 2. Modules

| Module | Models | Uses |
|---|---|---|
| `LoopGuard` | the guard layers, and the worker's verdict on a conversation | - |
| `TicketQueue` | the tables and every SQL statement on them | - |
| `Worker` | workers, send seam, client retries, recovery, sweep, faults; all properties of the reply path | `TicketQueue`, `LoopGuard` |
| `Lifecycle` | the abstract promise for one message | - |
| `WorkerInv` | the inductive invariant | `Worker` |
| `WorkerProofs` | statements field by field, types, claims, attempts: theorems and proofs | `WorkerInv` |
| `WorkerReplyProofs` | live claims and replies: theorems and proofs | `WorkerProofs` |
| `WorkerRecordProofs` | what a row records, the sweep, the throttle: theorems and proofs | `WorkerReplyProofs` |
| `LifecycleProofs` | outcomes, the whole invariant, the refinement of `Lifecycle` | `WorkerRecordProofs` |
| `MCWorker` | instances for TLC | `WorkerInv` |
| `Intake` | webhook requests, `poller_loop`, the ticket list of Freshdesk, checkpoint and rows | `LoopGuard` |
| `Service` | `main()`: tasks, signal, shutdown, crash and restart; when the intake may step; the properties of both | `Intake` |
| `ServiceProofs` | the intake's invariant, page by page; five theorems | `Service` |
| `TokenBucket` | the rate limiter of the Selless server | - |
| `Selless` | tool calls through limiter, audit, HTTP retries and whitelists | `TokenBucket` |
| `SellessProofs` | five theorems | `Selless` |
| `Selection` | the elements of a set in an order, those of a sequence that pass a test | - |
| `Chunking` | `chunk_prose` as a function of the sentence lengths | `Selection` |
| `ChunkingProofs` | what `FlattenSeq`, `Selection` and `chunk_prose` return for every input | `Chunking` |
| `Ingest` | the readers, the upserts, runs that break off, exports that change | `Chunking` |
| `Knowledge` | `hybrid_search`, rank fusion, conflict ids, override | `Ingest` |
| `FileStore` | template lookup, field validation, the ticket run of the demonstration | `Ingest` |
| `Grounding` | composition of `Knowledge` and `FileStore` over one snapshot | both |
| `GroundingProofs` | store, search, fusion, drafts and classification: eleven theorems | `Grounding`, `ChunkingProofs` |
| `MCService`, `MCSelless`, `MCGrounding` | instances for TLC | |

### State of the reply path

* `queue[m]` is the row of message `m` in `ticket_queue`. There is one message per
  idempotency key, so `m` stands for the row id as well. Timestamps are reduced to
  what a `WHERE` clause distinguishes: `due` (`next_attempt_at <= NOW()`),
  `expired` (`claimed_at` older than the lease), `sent` (`sent_at` NULL, inside the
  throttle window, or older). Claim tokens are the number of the claim, because
  random UUIDs do not repeat; `issued` counts them and is not a column.
* `letters[m]`, `dryRun[m]`: the rows of `m` in `dead_letter` and `dry_run_log`.
* `worker[w]`: `pc` names the statement or call the worker makes next; `msg`,
  `token` and `attempts` are the snapshot `process_queue_row` takes of its row,
  which the code never refreshes; `tries` counts the HTTP attempts of the POST.
* `sweep`: the rows the sweep selected and has not reached, and the one whose
  letter is written but whose row is not yet closed.
* `replies[m]`: the replies in the Freshdesk ticket.
* `exposed`, `faults`: bookkeeping of the model. `exposed` collects the messages
  that were hit by a fault which can lose a `sent_at` write.

### Actions of the reply path

| Code | Actions |
|---|---|
| `enqueue_ticket` | `Enqueue` |
| `worker_loop`: `claim_one`; step 1 of `process_queue_row` | `Claim` (with `FirstStep`) |
| steps 2-3: conversations and guard | `Fetch`, `FetchFails`, `Mark` |
| step 4: throttle | `Throttle`, `Mark` |
| step 7: `_dry_run`; `post_reply`; `sent_at` | `DryRunSend`; `PostAnswered`, `PostRejected`, `PostAnswerLost`; `Record` |
| step 8 | `Finalize` |
| the four `except` clauses | `Handler`, `Retry`, `WriteLetter`, `CloseRow` |
| `sweep_exhausted` | `SweepSelect`, `SweepWriteLetter`, `SweepCloseRow`, `SweepFails` |
| `recover_stale_claims` and the lease | `Lease`, `Recover` |
| passing of time | `Elapse` |
| process death, failing statement | `Crash`, `DbError` |

### Faults

`Faults` names the kinds a run allows and `MaxFaults` how many may happen:
`crash` (a worker or the sweep dies at a step), `window_crash` (it dies between
the POST and the `sent_at` write), `lost_answer` (the POST is applied, its answer
is lost), `db_error` (a statement raises and changes nothing), `overrun` (a claim
outlives its ten-minute lease while its worker is alive). Errors that Freshdesk
answers are not faults: `FetchFails` and `PostRejected` are always possible.

### Intake and process

* `conv[t]` are the conversations of ticket `t` by kind, `updated[t]` its
  `updated_at`; `clock` advances by one per update, so no two updates carry the same
  time. `rows` are the keys in `ticket_queue`, `ckpt` is `last_since`, `poll` the
  locals of `poller_loop` and `reconcile_once`, `req[h]` those of a webhook request.
  `exposed` is bookkeeping: the tickets that were last updated onto a page which the
  running scan had already fetched.
* `proc` is where `main()` stands, `task[k]` whether a task runs, is being cancelled
  or has ended, `pool` whether connections can be had.

| Code | Actions |
|---|---|
| `load_checkpoint` | `LoadCheckpoint`, `PollerDies` when it raises |
| `list_updated_tickets` | `FetchPage`, one per page, until an empty one |
| `reconcile_once` | `PollResolve`, `PollEnqueue`, `SaveCheckpoint` |
| the `except` of `poller_loop` | `ReconcileFails`, at any of its awaits |
| `webhook_freshdesk` | `HookResolve`, `HookEnqueue`, `HookFails` |
| `main()` | `Start`, `Signal`, `ShutDown`, `ClosePool`, `CloseClient`, `Crash` |
| the tasks | `TaskCancelled`, `TaskFails`, `SchedulerFails` |

A delivery may come late, twice or never. Of the worker and the schedulers only
the fate of the task is in `Service`: their work is in `Worker`.

### Selless server

`call[c]` is one tool call: where it is (limiter, Selless, Freshdesk, audit, over),
its attempt, its outcome and the fields of its answer; a payload is the set of its
field names. `tokens` counts in units, so that the fractions of a token the code
keeps are whole numbers. Each await is a step: `Refused` or `Admitted`, `AttemptFails`
and `SellessAnswers`, `MappingAnswers` or `FreshdeskAnswers`, `Cancelled`, then
`AuditWritten` or `AuditFails`.

### Knowledge and files

`files` is the snapshot on disk, `tables` the knowledge tables with the run that last
wrote each row, `run` the ingest run (it writes row by row, table by table, and may
break off after any row: `RunFails`), `search` one search between its two statements
and its answer, `rulings` the human rows of `policy_resolution`. A sentence is its
length; a body that `_extract_section` or `chunk_prose` would cut differently is a
different value. A line of a template file has its heading as the file store reads it
(`heading`), the code at its start (`key`), what follows the code on the line (`rest`)
and the lines below it (`body`). Run ids increase: the code takes `--run-id` or the
second at which the run starts (`cli.py:87`), and an id that is used again would only
blur which run last wrote a row. The similarity order of the vector statement is any order; the index
cached by the file store may be the one of any earlier export.

## 3. Runs

Every message belongs to one ticket, so that workers meet in the throttle as well
as in the rows. Two workers, two messages, a budget of two attempts, a throttle of
one and two HTTP attempts are the least numbers for which every branch is taken: a
retry and an exhaustion, a second claim while the first worker is still alive, a
retried POST, a throttled message. Two faults suffice to hit one message twice or
two messages once, and to combine a fault with its recovery (an overrun and then
the crash of the second worker).

| Run | Shows |
|---|---|
| `WorkerPool` | two workers, all faults: `ClaimExclusive`, `AttemptsInBudget`, `AtMostOneReply`, `NoReplyAfterRecord`, `DoneMeansAnswered`, `DismissedMeansUnanswered`, `DeadLetterRecorded`, `SettledStays`, and the invariant of the proofs, `IInv` |
| `WorkerSingle` | one worker as in `main.py`, all faults, `FairSpec`: `ThrottleBound`, `IInv`, `EveryMessageSettles`, `ExhaustedIsSwept` |
| `WorkerLifecycle` | crashes only: `Worker` implements `Lifecycle`; `IInv`, with the part on outcomes that has this premise |
| `WorkerDryRun` | dry-run mode: `DoneMeansAnswered` |
| `ServiceIntake` | the process with poller and webhook, all incidents, under `Spec` with its fairness: `NothingForgotten`, `RowsPassTheGuard`, `PoolOutlivesTasks`, `PollerSurvivesErrors`, `Backstop`, `NeverHalfAlive` |
| `Selless` | three concurrent calls: `RateBound`, `AnswersAreAudited`, `AuditTellsTheTruth`, `NoDeniedField`, `CallsEnd` |
| `Grounding` | two exports, two runs, searches and rulings between their steps: `EveryTextIsCutFaithfully`, `StoreIsCurrent`, `RerunChangesNothing`, `EveryFusionRespectsRanks`, `OnlyHumansArbitrate`, `TemplatesAgree`, `DraftIsGrounded`, `InjectionIsFlagged`, `ValidMeansListed` |

Bounds of `ServiceIntake`: two tickets on pages of one are the least with which a
ticket can move behind a scan; three updates let a ticket be updated before, during
and after one; an overlap of one tick lets a restart list a ticket again; one fault
is combined with the restart it leads to. Conversations come from customers, from
agents, which every guard suppresses, and from the integration, which only a guard with
the whitelist does. The webhook gets the whitelist and the poller does not, as `main.py`
wires them, and `RowsPassTheGuard` judges each intake by its own. Of `Selless`: a burst of one and half a token
per tick with three calls in three ticks cover an empty bucket, a partial and a full
refill; two attempts cover a retry and its exhaustion. Of `Grounding`: the two exports
differ in every kind of file and have a code in two tables, a code in two sections, a
heading repeated in a table of contents, headings that are longer than their code, a
template missing from its file, one without a text, and two sources in conflict; two edits and two runs let a run break off, be repeated and meet
a changed export. The operators of the pure parts are evaluated on every input of
their small domains: all texts of at most two paragraphs of three sentences, all
rankings of up to four passages, all tickets, model outputs and field values of
`MCGrounding`.

Five runs find a violation of a sentence the code or its comments state; each is
a finding in `PROJECT.json`:

| Run | Sentence | What happens |
|---|---|---|
| `WorkerLateFinalize` | a stale worker cannot finalize a reclaimed row (`claim.py`) | `_mark_status` and `to_dead_letter` check no token |
| `WorkerOverrunResend` | exactly once unless the process dies after the POST (`send.py`) | the lease runs out before the `sent_at` write, which then writes nothing |
| `WorkerTwoLetters` | a row is not dead-lettered twice (`dead_letter.py`) | the sweep runs between the last `finalize_retry` and `to_dead_letter` |
| `WorkerThrottleRace` | launch N copies, no code changes (`worker.py`) | two workers pass the throttle together |
| `ServiceStartup` | start all components and run until shutdown signal (`main.py`) | the third argument of `poller_loop` is `interval_seconds` but gets the settings: its first step raises, and the process goes down |

Two more disagreements show in the model without a run of their own: `ExactlyOnce`
also fails with `Faults = {"lost_answer"}`, because `post_reply` repeats a POST whose
answer was lost; and `sent_at` is written after the POST (`Record` follows
`PostAnswered`), where migration 0001, line 35, says before.

What holds instead is `AtMostOneReply`: a message gets a second reply only if it
was hit by one of four faults - a lost answer, a crash or a failed write between
the POST and `sent_at`, or the recovery of a live claim.

Disagreements and limits met while modelling the other parts, without a run of
their own:

* `NothingForgotten` excepts tickets updated behind a scan: between two page requests
  such a ticket is on no page any more, and `new_since` may pass it. The start-up
  overlap finds it again only if the process restarts in time.
* `main()` hands the whitelist of integration users to the webhook and not to
  `poller_loop` (line 140). Where the integration writes after the customer, the poller
  resolves the ticket to the integration's message, queues that and is done with the
  ticket. So the two keys differ, where `reconcile.py:5-6` says they are the same, and the
  poller is no "backstop" (lines 17-18) for that customer's message when its delivery is
  lost. `RowsPassTheGuard`, `NothingForgotten` and `Backstop` judge the poller by what its
  own guard lets pass.
* A ticket without conversations, its first message in the description, is queued by
  neither intake.
* D-34 (`cs_team_demo.py:39-41`, 395-396, 420-422): an order that is "unknown" or "cannot be
  resolved" leads to the verify-order flow. The code tests only for an empty `order_ref`
  (line 423) and looks nothing up: a number that stands for no order gets the template.
  `DraftIsGrounded` states what the code does, and no ticket of the instance differs
  by whether its order exists.
* D-14 (`cs_team_demo.py:14-15`, and `main()` at 611-612, of `--live` too): the hint of an
  injected ticket starts with "injection". `run_ticket` attaches that hint only to a
  verdict without one (line 336, `is None`): a hint of the CLI's own, an empty one or that of
  a failed call included, is kept instead. `InjectionIsFlagged` allows this.
* The library's text of a template starts with the rest of its heading line: the pattern
  at `sources.py:496` stops at the code, and `re.split` leaves what follows in the body
  (`replace-Not provide measurements` for A1-Bra-Can). The file store's text starts below
  the line, and the docstring speaks of "the body content up to the next header".
  `TemplatesAgree` compares the library's text with the file store's behind that rest.
* A call refused by the limiter has no audit row; `audit.py:4` speaks of every tool
  call. The limiter is the outer middleware.
* `read_code_map_rows` matches the rows of both tables of `CODE-MAP.md`: B4 and C2 are
  written twice in each run, so a lookup during a rerun can see the other row, where
  `cli.py:9` says "unchanged content is a no-op" (`RerunChangesNothing` leaves the code
  map out; `StoreIsCurrent` allows either row).
* The template library is keyed by heading prefixes, so most template codes linked
  from the code map find no template by exact lookup, and of four keys with two
  sections the last survives. Nine codes of the index have headings that differ from
  the files by escape characters and yield no text.
* The upsert of an unchanged body keeps its old recency, rank and metadata; chunks
  of changed bodies stay, with an older `snapshot_version`, and are still found by
  searches. `top_k` can cut off the passage a conflict is about. `resolved_by_override`
  can be true although the winning source is not among the citations. `SET LOCAL`
  outside a transaction has no effect. `knowledge_mcp/server.py` sets no pool.

### Fairness

`FairSpec` assumes weak fairness of each worker's steps, of the recovery, of the
sweep and of the clocks, and strong fairness of claiming each row: `claim_one` orders by `next_attempt_at`
and `id`, so a row that is due again and again is the oldest one at some point. The
expiry of a claim is fair only when its worker is gone. Faults are finite and have no
fairness. Progress is checked with one worker, which is what `main.py` starts.

Weak fairness of a worker's steps holds through a crash because the model lets the worker
claim again at once, and this is an assumption about the deployment: the schedulers and
`poller_loop` survive the errors of a round, but `worker_loop` has no `try`. An error
outside the `try` of `process_queue_row` (in `claim_one`, say), or one inside its `except`
clauses, ends the task and, by `FIRST_COMPLETED`, the process, which nothing in the
repository starts again. `EveryMessageSettles` and `ExhaustedIsSwept` hold if whatever runs
the process (a service manager, a container runtime) does.

`Service` assumes weak fairness of the poller's steps, of the end of each cancelled
task, and of `main()` after a task has ended: they are what the event loop runs next.
Nothing makes anybody start the process again, and Freshdesk owes no delivery, so
`Start` and the webhook have no fairness; `Backstop` holds by the poller alone.
`Selless` assumes weak fairness of each call: an HTTP request ends by its answer or
its timeout. `Grounding` states no liveness: runs and searches are started by hand.

## 4. Proofs

### Reply path

`WorkerProofs`, `WorkerReplyProofs`, `WorkerRecordProofs` and `LifecycleProofs` prove,
for every set of workers and messages, every attempt budget and every set of faults:

| Theorem | States |
|---|---|
| `TypeCorrect`, `ClaimExclusiveCorrect`, `AttemptsInBudgetCorrect` | `Spec => []` of `TypeOK`, `ClaimExclusive`, `AttemptsInBudget` |
| `AtMostOneReplyCorrect`, `DismissedMeansUnansweredCorrect` | `Spec => []` of `AtMostOneReply`, `DismissedMeansUnanswered` |
| `DoneMeansAnsweredCorrect`, `DeadLetterRecordedCorrect` | `Spec => []` of `DoneMeansAnswered`, `DeadLetterRecorded` |
| `NoReplyAfterRecordCorrect`, `SettledStaysCorrect` | the action properties `NoReplyAfterRecord`, `SettledStays` |
| `ThrottleBoundCorrect` | `OneWorker`, hence `Spec => []ThrottleBound` |
| `IInvCorrect` | `Spec => []IInv`: the conjunction of all parts below |
| `LifecycleImplemented` | `CrashOnly` and `Mode = "live"`, hence `Spec => ImplementsLifecycle` |

They need the assumptions `QueueAssumption` and `WorkerAssumption`, and the two
premises named: with two workers `ThrottleBound` is false (`WorkerThrottleRace`), and
with other faults a message may be answered twice (`WorkerOverrunResend`), so neither
theorem holds without its premise. `main.py` starts one worker. The first part of
`WorkerProofs` states what each statement does to a row (`ClaimRowEffect`,
`RetryEffect`, `RecoverEffect`, ...) and what each step does to a worker; later proofs
cite these lemmas and not the definitions.

`ClaimExclusive` is not inductive: a worker could hold a token that the row is
about to be given. `ClaimInv` adds that a row has a token exactly while it is
claimed, that workers carry only tokens that were issued, and that no two workers on
one row carry the same. The lemma `ClaimMoves` reduces every step to two cases for
each row: the claim is kept, or it is ended.

`AttemptsInBudget` rests on `BudgetInv`: a claimed row has an attempt left, so
`finalize_retry`, which touches a row only under its current token, stays within
the budget.

`AtMostOneReply` needs two more conjuncts. `FenceInv` says why a worker may act on
a row by its id only (`_mark_status`, `to_dead_letter`): as long as the message is
not exposed, whoever is on its row either holds the current claim, or is writing the
letter of a row that is out of attempts and that nobody can claim any more
(`Settling`). `HeldRowMoves` is its use: under a live claim, only the holder, a
clock or the INSERT touches the row. `ReplyInv` then follows the holder through the
POST: before it, the message has no reply and `sent_at` is NULL; after it, there is
one reply, and `sent_at` is set or the holder is about to set it. A new claim reads
the row between two holders, so it finds `sent_at` set whenever there is a reply.

`RecordInv` and `LetterInv` follow an actor that is about to close a row: it has seen
the `sent_at`, the dry-run row or the letter that the status will speak of. They use
that replies, letters and dry-run rows only ever grow. `SettledStays` needs `SweepInv`
besides: the sweep names rows by id and works from a list, and a row on its list is
still waiting for a letter or has one, so closing it once more loses no other status.
`NoReplyAfterRecord` follows from the invariant before the step: who posts (`SenderHolds`)
holds the claim of an unexposed message, for which `sent_at` is then NULL.

`ThrottleInv`, under `OneWorker`, says that between its count and its write the worker
finds fewer than `ThrottleN` recent replies; nobody else records one meanwhile.

The refinement maps a message to the status of `Lifecycle` that its row, letters and
replies amount to. `OutcomeInv`, under `CrashOnly`, is what makes its steps those of
`Lifecycle`: nothing is exposed, and a message with a reply is on no path that ends
without one, in no worker and not exhausted. Each step of `Worker` then takes one message
from one status of `Lifecycle` to a next one, or stutters.

### Intake and process

`ServiceProofs` proves, for any tickets, page size, overlap, whitelists, incidents
and bounds, from `IntakeAssumption`:

* `NoTicketIsForgotten`: `Spec => []NothingForgotten`;
* `OnlyPassingAreQueued`: `Spec => []RowsPassTheGuard`;
* `PoolIsClosedLast`: `Spec => []PoolOutlivesTasks`;
* `PollerSurvives`: `Spec => PollerSurvivesErrors`;
* `ServiceTypeCorrect`: `Spec => []TypeOK`.

`NothingForgotten` compares `updated[t]` with two numbers and is not inductive: the
next number is the newest `updated_at` a scan has seen, which may be later than
that of a ticket the scan has missed. `IntakeInv` says where a ticket that is due
can be while a scan runs (`Covered`): in the list that is being worked through, on a
page still to come, or updated after everything the scan has seen (`Fresh`), and
during an INSERT also in hand. Pages are places: `PlaceGrows` says that an update
never moves another ticket to an earlier place, `PlaceEntered` that a ticket enters
after those before it, so what is not behind the scan stays ahead of it. `MaxIsLargest`,
on which the resolve step rests, gets the maximum of a finite set from the
well-foundedness of strict inclusion, because induction over sets is not available.

`RowsInv` follows a message from its resolve step to its INSERT: conversations are only
added, so what passed a guard still does (`PassingStay`), and what passes either guard
passes under the shorter whitelist (`PassesBoth`). `StepShape` reduces the actions to
what they do to rows and messages in hand. `PoolInv` relates `proc`,
`pool` and the tasks. `PollerSurvives` goes through every action that could end the
task: past its first step only cancellation and the death of the process are left.

### Selless server

`SellessProofs` proves `RateIsBounded`, `AnswersAreAuditedAlways`, `AuditIsTrue`,
`NothingDeniedGetsOut` and `SellessTypeCorrect`: `Spec =>` always `RateBound`,
`AnswersAreAudited`, `AuditTellsTheTruth`, `NoDeniedField`, `TypeOK`, for any calls,
payloads, statuses, rate, burst and number of attempts. `RateBound` speaks of calls
let through and not of tokens; `BucketInv` adds that what was let through since any
earlier call, and what is left in the bucket, is at most the burst and the refill
since then.

### Ingest, search, file store

`ChunkingProofs` and `GroundingProofs` are about functions of sequences as much as about
states. `FlattenSeq`, the sizes of paragraphs, the greedy filling of pieces and the
selection of elements are recursive functions or counts, and what they compute needs
an induction over data. The induction theorems of the library cannot be instantiated;
`ChunkingProofs` uses the set form instead: a set of numbers that is not empty has a
least element (`LeastElement`, from the well-foundedness of `<` on `Nat`), so a least
length at which a fact fails is contradicted. `Selection` exists for the same reason:
`SelectSeq` and `SortSeq` are built into the prover without a definition, `Sorted` and
`At` count how many elements come before one (`Ranks`, `RankedEnumerates`).

* `TextsAreCutFaithfully`: for every text of nonempty paragraphs `ChunksFaithfully(text)`.
  `EveryTextIsCutFaithfullyCorrect` is the run's property from it.
* `StoreIsCurrentCorrect`, `RerunChangesNothingCorrect`: from `StoreInv`. What
  `StoreIsCurrent` says of a complete run is not inductive; `FillInv` says of a run in
  progress over unchanged files that the rows still to write are the rest of what the
  files say (`Written` counts those that are not), that every key written so far
  has a row of this run, that tables before the current one are complete, and that no
  row of this run says anything the files do not. `CurrentInv` is what is left of it when the
  run is over, and `UpsertAgrees` is why a further run keeps it: each row it writes
  says what the row it replaces says. TLC checked `StoreInv` on the instance of
  `MCGrounding` before it was proved.
* `FusionRespectsRanksCorrect`: for every finite set of passages. Scores are fractions;
  that their order is total and transitive is `FractionsOrdered`, with the products the
  solver does not find by itself spelled out (`ProductOrder`, `CrossProducts`). A passage
  that no ranking puts lower scores at least as much (`BetterScore`); of equal scores the
  one met first stays first, and it was met first. `EveryFusionRespectsRanksCorrect` is
  the run's property from it.
* `OnlyHumansArbitrateCorrect`, `GroundingTypeCorrect`: from `GroundingInv`. That the
  passages of a search stay in the table while runs write between its statements is
  `PassagesGrow`; that `WinnersFirst` is a permutation which keeps the order within a
  source is `WinnersFacts`.
* `DraftIsGroundedCorrect`, `InjectionIsFlaggedCorrect`, `ValidMeansListedCorrect`: facts
  about the functions of `FileStore`, for every export the files may be (`FilesInv`).
  `DraftIsGrounded` does not say how a section is found: it asks for a stretch of a file
  (`Stands`) below a heading that the index gives for the code. `SectionStands` shows that
  `_extract_section` returns one.
* `TemplatesAgreeCorrect`: both readers take the first few of the pieces that the lines
  of a file give, so one text is a prefix of the other once the rest of the heading line
  is put in front of the file store's (`FirstOfGrows`, `CutsAgree`); that
  every row of the library is the section of a coded heading is `SectionsCoded`, from
  `StoreInv`. The attempt showed that the property had been stated too strongly: it asked
  that one section of the library has the code, but a coded heading without text gives no
  section, and then a row of another heading with that code, or of an older run, answers.
  No export of the instance has such a heading. The property now asks that the code
  occurs at one heading and that the library keeps its section.

The assumptions are those of the modules. `SnapshotAssumption` gives an export its types
and says that no threshold id occurs twice in `POLICY-THRESHOLD-INDEX.md`: that is so in
the repository's file, and `read_threshold_rows` does not check it; with a repeated id
`RerunChangesNothing` would fail as it does for the code map. It also says that the files
of a directory have different names. `TicketAssumption`,
`CliAssumption` and `CandidatesAssumption` type the inputs of the demonstration: an
injected ticket names its fields, an injected `order_ref` is not empty, the CLI's envelope holds at most one object, every
sub-type has a sequence of codes.

### Only model-checked

* Liveness: `EveryMessageSettles`, `ExhaustedIsSwept`, `Backstop`, `NeverHalfAlive`,
  `CallsEnd`. Fairness and `ENABLED` are outside the prover's reach.
* The five findings are counterexamples, which only TLC gives.

## 5. Plan

Every invariant and action property of the passing runs is proved. Left: a property of
rows that are retried for ever, with faults counted per claim, and the reply MCP server.

## 6. Not modelled

* Text: bodies, redaction, idempotency-key strings, log lines, header and sender
  patterns (flags of a conversation instead).
* Durations: backoff and lease lengths; a clock may advance at any time.
* The embeddings, the recogniser behind the PII redaction, the Selless API.
* The pools and HTTP clients that webhook requests open and never close, and the
  `AttributeError` with which `main()` ends when its client was never used.
* The signature and timestamp checks of the webhook: they only turn deliveries away.
* Text extraction from SVG and PDF, `normalize_text`, the subject and scenario of a
  template: data of the snapshot.
* Two ingest runs at a time.
* The reply MCP server (calls into the file store, and one best-effort INSERT) and
  the other scripts (one-off fetches and reports around an external model).
