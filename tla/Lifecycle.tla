----------------------------- MODULE Lifecycle -----------------------------
(***************************************************************************)
(* What the reply path promises for one inbound message: it is taken in    *)
(* once, answered at most once, and closed for good in a status that tells *)
(* whether the customer got an answer.                                     *)
(***************************************************************************)
CONSTANT Msgs

VARIABLES stage,    \* of each message
          answers   \* how often each message was answered

vars == <<stage, answers>>

Closed == {"done", "suppressed", "stale_inbound", "dead_lettered"}

Init == /\ stage = [m \in Msgs |-> "new"]
        /\ answers = [m \in Msgs |-> 0]

TakeIn(m) == /\ stage[m] = "new"
             /\ stage' = [stage EXCEPT ![m] = "open"]
             /\ UNCHANGED answers

Answer(m) == /\ stage[m] = "open"
             /\ answers[m] = 0
             /\ answers' = [answers EXCEPT ![m] = 1]
             /\ UNCHANGED stage

\* Only an answered message is done; only an unanswered one is dismissed or
\* dead-lettered.
Close(m, status) == /\ stage[m] = "open"
                    /\ (status = "done") <=> (answers[m] = 1)
                    /\ stage' = [stage EXCEPT ![m] = status]
                    /\ UNCHANGED answers

Next == \E m \in Msgs : TakeIn(m) \/ Answer(m) \/ \E s \in Closed : Close(m, s)

Spec == Init /\ [][Next]_vars
=============================================================================
