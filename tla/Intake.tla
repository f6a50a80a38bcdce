------------------------------- MODULE Intake -------------------------------
(***************************************************************************)
(* The two ways a customer message gets into the queue: the webhook        *)
(* (src/src/webhook/receiver.py), once for each delivery Freshdesk makes,  *)
(* and the reconciliation poller (src/src/poller/reconcile.py), which      *)
(* lists the tickets updated since its last scan.  Both resolve a ticket   *)
(* to its latest customer message and insert the row of that message.      *)
(*                                                                         *)
(* This module has the state of the two and one action per step between    *)
(* two awaits; the module Service says when the process lets them run.     *)
(*                                                                         *)
(* Time is a clock that only ticket updates advance.  The retries of a GET *)
(* are inside its step: they change nothing outside the HTTP client, whose *)
(* retry rules are in the module Selless.                                  *)
(***************************************************************************)
EXTENDS LoopGuard, FiniteSets, SequencesExt

CONSTANTS Tickets,      \* ticket ids, in the order the list endpoint returns them
          Kinds,        \* the kinds of conversation that may be added
          PageSize,     \* per_page
          Overlap,      \* safety_overlap_seconds, in clock ticks
          SeedLead,     \* the hour by which the migration's checkpoint lies back
          Handlers,     \* webhook requests that can be served at one time
          HookWhitelisted,    \* selless_sync_user_ids, as the webhook passes it
          PollerWhitelisted,  \* ... and as poller_loop gets it
          MaxUpdates,   \* bound on the ticket updates
          MaxFaults     \* bound on failures, crashes and signals together

ASSUME IntakeAssumption ==
  /\ Tickets \subseteq Nat \ {0} /\ IsFiniteSet(Tickets)
  /\ PageSize \in Nat \ {0} /\ Overlap \in Nat /\ SeedLead \in Nat
  /\ {HookWhitelisted, PollerWhitelisted} \subseteq BOOLEAN
  /\ MaxUpdates \in Nat /\ MaxFaults \in Nat

VARIABLES conv,      \* Freshdesk: the kinds of each ticket's conversations, oldest first
          updated,   \* Freshdesk: updated_at of each ticket
          clock,
          rows,      \* ticket_queue: <<ticket, message>> of every row
          ckpt,      \* poller_checkpoint.last_since
          poll,      \* the locals of poller_loop
          req,       \* the locals of each webhook request
          exposed,   \* history: tickets last updated where the scans do not look
          faults     \* how many of them there were

freshdesk   == <<conv, updated, clock>>
intakeState == <<freshdesk, rows, ckpt, poll, req, exposed>>
intakeVars  == <<intakeState, faults>>

None == 0

\* A kind of conversation as the guard sees it.
Seen(kind) == [incoming |-> kind \in {"customer", "noreply", "sync"},
               private |-> FALSE,
               noreply |-> kind = "noreply",
               syncUser |-> kind = "sync"]

(***************************************************************************)
(* resolve_latest_inbound_msg_id: the latest conversation that no layer of *)
(* the guard suppresses; conversation i of a ticket has the id i.          *)
(***************************************************************************)
Candidates(t, whitelisted) ==
  {i \in 1..Len(conv[t]) : ~should_suppress(Seen(conv[t][i]), whitelisted)}

AnyConversation(t, whitelisted) == Len(conv[t])                     \* mutant

Resolve(t, whitelisted) == Max(Candidates(t, whitelisted) \cup {None})

OncePerTicket(t, msg) ==                                          \* mutant
  rows' = IF \E r \in rows : r[1] = t THEN rows ELSE rows \cup {<<t, msg>>}

\* enqueue_ticket, as these callers see it: an existing key is left alone.
Enqueue(t, msg) == rows' = rows \cup {<<t, msg>>}

\* Something fails: it counts against the bound.
Fault == faults < MaxFaults /\ faults' = faults + 1

-----------------------------------------------------------------------------
(***************************************************************************)
(* Freshdesk                                                               *)
(***************************************************************************)

\* The list endpoint: the tickets updated at since or later, by their ids, and
\* the place of a ticket among them.
UpdatedSince(since) == {t \in Tickets : conv[t] # <<>> /\ updated[t] >= since}
Place(t, since)     == Cardinality({u \in UpdatedSince(since) : u <= t})

\* An update now puts t on a page that the scan has fetched without it.
BehindScan(t) ==
  /\ poll.pc = "list"
  /\ \A i \in 1..Len(poll.todo) : poll.todo[i].id # t
  /\ Place(t, poll.since) + (IF t \in UpdatedSince(poll.since) THEN 0 ELSE 1)
       <= (poll.page - 1) * PageSize

\* A conversation is added to a ticket.
TicketUpdate ==
  \E t \in Tickets, kind \in Kinds :
    /\ clock < MaxUpdates
    /\ conv' = [conv EXCEPT ![t] = Append(@, kind)]
    /\ clock' = clock + 1
    /\ updated' = [updated EXCEPT ![t] = clock + 1]
    /\ exposed' = IF BehindScan(t) THEN exposed \cup {t} ELSE exposed \ {t}
    /\ UNCHANGED <<rows, ckpt, poll, req, faults>>

(***************************************************************************)
(* Webhook requests                                                        *)
(***************************************************************************)
Idle == [pc |-> "idle", ticket |-> None, msg |-> None]

\* A delivery about an updated ticket passes the checks of the handler, which
\* reads the conversations.  It may come late or twice; one that is lost, turned
\* away, or fails here changes nothing.
HookResolve(h) ==
  \E t \in Tickets :
    LET msg == Resolve(t, HookWhitelisted)
    IN /\ req[h].pc = "idle"
       /\ msg # None
       /\ req' = [req EXCEPT ![h] = [pc |-> "enqueue", ticket |-> t, msg |-> msg]]
       /\ UNCHANGED <<freshdesk, rows, ckpt, poll, exposed, faults>>

HookEnqueue(h) ==
  /\ req[h].pc = "enqueue"
  /\ Enqueue(req[h].ticket, req[h].msg)
  /\ req' = [req EXCEPT ![h] = Idle]
  /\ UNCHANGED <<freshdesk, ckpt, poll, exposed, faults>>

\* The INSERT raises: HTTP 500.  It may have been applied all the same.
HookFails(h) ==
  /\ req[h].pc = "enqueue"
  /\ Fault
  /\ Enqueue(req[h].ticket, req[h].msg) \/ UNCHANGED rows
  /\ req' = [req EXCEPT ![h] = Idle]
  /\ UNCHANGED <<freshdesk, ckpt, poll, exposed>>

(***************************************************************************)
(* poller_loop                                                             *)
(***************************************************************************)
PollerOff == [pc |-> "off", since |-> 0, page |-> 1, todo |-> <<>>, new |-> 0, msg |-> None]
PollerNew == [PollerOff EXCEPT !.pc = "load"]

\* reconcile_once(since) is next: at once, or when the loop has slept.
Scan(since) == [PollerOff EXCEPT !.pc = "list", !.since = since, !.new = since]

\* The migration seeds the checkpoint and nothing deletes it: the branch for a
\* missing row is out of reach.
LoadCheckpoint ==
  /\ poll.pc = "load"
  /\ poll' = Scan(ckpt - Overlap)
  /\ UNCHANGED <<freshdesk, rows, ckpt, req, exposed, faults>>

\* The page-th PageSize of them, as they are now; past the last one is an empty
\* page, which ends the list.
OnPage(since, page) ==
  {t \in UpdatedSince(since) : Place(t, since) \in ((page - 1) * PageSize + 1)..(page * PageSize)}

FetchPage ==
  LET page == OnPage(poll.since, poll.page)
  IN /\ poll.pc = "list"
     /\ IF Cardinality(UpdatedSince(poll.since)) <= (poll.page - 1) * PageSize
        THEN poll' = [poll EXCEPT !.pc = "work"]
        ELSE \E ids \in [1..Cardinality(page) -> page] :
               /\ \A i, j \in DOMAIN ids : i < j => ids[i] < ids[j]
               /\ \A t \in page : \E i \in DOMAIN ids : ids[i] = t
               /\ poll' = [poll EXCEPT !.page = poll.page + 1,
                             !.todo = poll.todo \o [i \in DOMAIN ids |->
                                         [id |-> ids[i], at |-> updated[ids[i]]]]]
     /\ UNCHANGED <<freshdesk, rows, ckpt, req, exposed, faults>>

PollResolve ==
  LET next == Head(poll.todo)
      msg  == Resolve(next.id, PollerWhitelisted)
      seen == [poll EXCEPT !.new = Max({@, next.at})]
  IN /\ poll.pc = "work" /\ poll.todo # <<>>
     /\ poll' = IF msg = None THEN [seen EXCEPT !.todo = Tail(@)]
                ELSE [seen EXCEPT !.pc = "enqueue", !.msg = msg]
     /\ UNCHANGED <<freshdesk, rows, ckpt, req, exposed, faults>>

PollEnqueue ==
  /\ poll.pc = "enqueue"
  /\ Enqueue(Head(poll.todo).id, poll.msg)
  /\ poll' = [poll EXCEPT !.pc = "work", !.todo = Tail(@), !.msg = None]
  /\ UNCHANGED <<freshdesk, ckpt, req, exposed, faults>>

SaveNow == /\ poll.pc = "work" /\ poll.todo = <<>>                 \* mutant
           /\ ckpt' = clock /\ poll' = Scan(clock)
           /\ UNCHANGED <<freshdesk, rows, req, exposed, faults>>

SaveCheckpoint ==
  /\ poll.pc = "work" /\ poll.todo = <<>>
  /\ ckpt' = poll.new
  /\ poll' = Scan(poll.new)
  /\ UNCHANGED <<freshdesk, rows, req, exposed, faults>>

LoopLeft == PollerOff                                              \* mutant

\* Every exception of reconcile_once is logged and since keeps its value.
AfterError == Scan(poll.since)

\* A page, a conversation list, an INSERT or the checkpoint fails.  The two
\* writes may have been applied although they raised.
ReconcileFails ==
  /\ poll.pc \in {"list", "work", "enqueue"}
  /\ Fault
  /\ IF poll.pc = "enqueue"
     THEN Enqueue(Head(poll.todo).id, poll.msg) \/ UNCHANGED rows
     ELSE UNCHANGED rows
  /\ IF poll.pc = "work" /\ poll.todo = <<>>
     THEN ckpt' \in {ckpt, poll.new}
     ELSE UNCHANGED ckpt
  /\ poll' = AfterError
  /\ UNCHANGED <<freshdesk, req, exposed>>

PollerStep == \/ FetchPage \/ PollResolve \/ PollEnqueue \/ SaveCheckpoint

IntakeInit ==
  /\ conv = [t \in Tickets |-> <<>>]
  /\ updated = [t \in Tickets |-> 0]
  /\ clock = 0
  /\ rows = {} /\ exposed = {}
  /\ ckpt = -SeedLead
  /\ poll = PollerOff
  /\ req = [h \in Handlers |-> Idle]
  /\ faults = 0
=============================================================================
