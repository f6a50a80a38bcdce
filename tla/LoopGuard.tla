----------------------------- MODULE LoopGuard -----------------------------
(***************************************************************************)
(* The four-layer reply guard (src/src/guards/loop_guard.py) as pure       *)
(* operators, and the two places that apply it to the conversations of a   *)
(* ticket: the intake, which resolves the message to enqueue               *)
(* (src/src/poller/reconcile.py), and the worker, which re-checks it after *)
(* the claim (src/src/work_queue/worker.py).                               *)
(*                                                                         *)
(* A conversation is reduced to what a layer looks at: the direction, the  *)
(* visibility, whether the sender matches the no-reply pattern and whether *)
(* its user is the Selless integration.  The conversation API exposes no   *)
(* raw e-mail headers, so both callers pass headers=None and layer 1 never *)
(* applies to a conversation of this module.                               *)
(***************************************************************************)
EXTENDS Sequences, Integers

Conv == [incoming : BOOLEAN, private : BOOLEAN,
         noreply : BOOLEAN, syncUser : BOOLEAN]

\* Layer 3: everything but a public customer message.
is_agent_or_system_message(c) == ~c.incoming \/ c.private

\* Layer 4: the caller's whitelist of integration users; an empty whitelist
\* (whitelisted = FALSE) switches the layer off.
is_selless_sync(c, whitelisted) == whitelisted /\ c.syncUser

\* The unified entry point, with headers=None: layers 2, 3 and 4.
should_suppress(c, whitelisted) ==
  \/ c.noreply
  \/ is_agent_or_system_message(c)
  \/ is_selless_sync(c, whitelisted)

(***************************************************************************)
(* What the worker does with the conversation it found for a claimed row:  *)
(* send the reply, or close the row with one of two statuses.              *)
(***************************************************************************)
Verdict(c, whitelisted) ==
  IF ~should_suppress(c, whitelisted) THEN "reply"
  ELSE IF c.incoming THEN "stale_inbound" ELSE "suppressed"

\* Over whatever the API returns: any conversation, or none, which is not
\* suppressed.
Verdicts(whitelisted) == {Verdict(c, whitelisted) : c \in Conv} \cup {"reply"}
=============================================================================
