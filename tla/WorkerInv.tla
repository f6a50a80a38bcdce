----------------------------- MODULE WorkerInv -----------------------------
(***************************************************************************)
(* The inductive invariant behind the safety properties of Worker.  TLC    *)
(* checks it (WorkerPool.cfg, WorkerSingle.cfg, WorkerLifecycle.cfg).  Its *)
(* parts are proved where they are used: types, claims and attempts in     *)
(* WorkerProofs, live claims and replies in WorkerReplyProofs, what a row  *)
(* records in WorkerRecordProofs, outcomes and the whole of it in          *)
(* LifecycleProofs.                                                        *)
(***************************************************************************)
EXTENDS Worker

\* Claims: the token of a row is set exactly while it is claimed, workers only
\* carry tokens that were issued, and no two of them carry the same one.
TokenWhileClaimed ==
  \A m \in Msgs : (queue[m].token # Null) <=> (queue[m].status = "claimed")

TokensIssued ==
  /\ \A m \in Msgs : queue[m].token <= queue[m].issued
  /\ \A w \in Workers, m \in Msgs :
       On(w, m) => worker[w].token \in 1..queue[m].issued

TokensUnique ==
  \A w, v \in Workers, m \in Msgs :
    On(w, m) /\ On(v, m) /\ worker[w].token = worker[v].token => w = v

ClaimInv == TokenWhileClaimed /\ TokensIssued /\ TokensUnique

\* Attempts: a claimed row has an attempt left, its holder knows how many were
\* used, and the sweep has only seen rows that have none.
Sweeping == sweep.todo \cup ({sweep.current} \ {NoMsg})

BudgetInv ==
  /\ \A m \in Msgs : queue[m].attempts <= MaxAttempts
  /\ \A m \in Msgs : queue[m].status = "claimed" => queue[m].attempts < MaxAttempts
  /\ \A m \in Sweeping : queue[m].attempts >= MaxAttempts
  /\ \A w \in Workers, m \in Msgs :
       Holds(w, m) => worker[w].attempts = queue[m].attempts
  /\ \A w \in Workers : worker[w].pc = "exhaust" => LastAttempt(w)

\* Live claims are not overrun, or their message is exposed: a worker is on a
\* row under its current claim, or is writing the letter of an exhausted row.
Settling(w, m) ==
  /\ worker[w].pc \in {"letter", "close"}
  /\ queue[m].status \in {"pending", "dead_lettered"}
  /\ queue[m].attempts >= MaxAttempts

Fenced(m) == m \notin exposed \/ "overrun" \notin Faults

FenceInv ==
  /\ \A w \in Workers, m \in Msgs :
       Fenced(m) /\ On(w, m) => Holds(w, m) \/ Settling(w, m)
  /\ "overrun" \notin Faults =>
       \A m \in Msgs : queue[m].expired => ~Held(m)
  /\ \A m \in Msgs : queue[m].expired => queue[m].status = "claimed"

\* Replies: before the POST the holder of an unexposed message finds it
\* unanswered; after it, sent_at is set or about to be.
BeforePost == {"fetch", "throttle", "send", "suppressed", "stale_inbound"}

ReplyInv ==
  /\ \A w \in Workers, m \in Msgs :
       /\ m \notin exposed
       /\ Holds(w, m)
       /\ worker[w].pc \in BeforePost
       => replies[m] = 0 /\ queue[m].sent = "null"
  /\ \A m \in Msgs :
       /\ m \notin exposed
       /\ replies[m] # 0
       => /\ replies[m] = 1
          /\ \/ queue[m].sent # "null"
             \/ \E w \in Workers : Holds(w, m) /\ worker[w].pc = "record"
  /\ \A m \in Msgs :
       /\ m \notin exposed
       /\ queue[m].status \in {"suppressed", "stale_inbound"}
       => replies[m] = 0

\* Records: what a row or a worker claims to have done has been done.
RecordInv ==
  /\ \A m \in Msgs : queue[m].sent # "null" => replies[m] >= 1 /\ Mode = "live"
  /\ \A w \in Workers, m \in Msgs :
       On(w, m) /\ worker[w].pc = "record" => replies[m] >= 1 /\ Mode = "live"
  /\ \A w \in Workers, m \in Msgs :
       Holds(w, m) /\ worker[w].pc = "finalize" =>
         IF Mode = "live" THEN queue[m].sent # "null" ELSE dryRun[m] >= 1
  /\ \A m \in Msgs : queue[m].status = "done" =>
         IF Mode = "live" THEN queue[m].sent # "null" ELSE dryRun[m] >= 1

LetterInv ==
  /\ \A w \in Workers, m \in Msgs :
       On(w, m) /\ worker[w].pc = "close" => letters[m] >= 1
  /\ sweep.current # NoMsg => letters[sweep.current] >= 1
  /\ \A m \in Msgs : queue[m].status = "dead_lettered" => letters[m] >= 1

\* The sweep: a row it has seen waits for its letter or has it, so closing it
\* once more loses no other status.
SweepInv ==
  \A m \in Sweeping : Fenced(m) => queue[m].status \in {"pending", "dead_lettered"}

\* Outcomes, as long as the only faults are crashes outside the window between
\* a POST and its sent_at write: nothing is exposed, and a message that was
\* answered is on no path that ends without an answer.
CrashOnly == Faults \subseteq {"crash"}

OutcomeInv ==
  CrashOnly =>
    /\ exposed = {}
    /\ \A w \in Workers, m \in Msgs :
         On(w, m) /\ replies[m] # 0 => worker[w].pc \in {"record", "finalize"}
    /\ \A m \in Msgs :
         queue[m].status = "absent" \/ Exhausted(m) => replies[m] = 0

\* The throttle, when one worker runs: between its count and its write of
\* sent_at nobody else records a reply.
OneWorker == \A w, v \in Workers : w = v

ThrottleInv ==
  OneWorker =>
    /\ \A t \in Tickets : RecentReplies(t) <= ThrottleN
    /\ \A w \in Workers :
         worker[w].pc \in {"send", "record"} =>
           RecentReplies(TicketOf[worker[w].msg]) < ThrottleN

IInv == /\ TypeOK
        /\ ClaimInv
        /\ BudgetInv
        /\ FenceInv
        /\ ReplyInv
        /\ RecordInv
        /\ LetterInv
        /\ SweepInv
        /\ OutcomeInv
        /\ ThrottleInv
=============================================================================
