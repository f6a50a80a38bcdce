---------------------------- MODULE TokenBucket -----------------------------
(***************************************************************************)
(* The rate limiter of the Selless server (class _TokenBucketRateLimiter   *)
(* in src/src/selless_mcp/server.py).  The code counts tokens in floating  *)
(* point and time in seconds; here time advances in ticks, a token is Unit *)
(* units, and Rate units come in per tick, so that any rational rate can   *)
(* be given.  The asyncio lock makes _acquire one step.                    *)
(***************************************************************************)
EXTENDS Integers, Sequences

CONSTANTS Unit,     \* units that make a token
          Rate,     \* max_requests_per_second, in units per tick
          Burst     \* burst_capacity, in tokens

ASSUME BucketAssumption == Unit \in Nat \ {0} /\ Rate \in Nat /\ Burst \in Nat

VARIABLES now,      \* time.monotonic()
          tokens,   \* _tokens, in units
          last,     \* _last_refill
          admitted  \* history: when each call was let through

bucket == <<tokens, last, admitted>>

Least(a, b) == IF a <= b THEN a ELSE b

Uncapped == tokens + Rate * (now - last)                           \* mutant

Refilled == Least(Burst * Unit, tokens + Rate * (now - last))

BucketInit == /\ now = 0 /\ last = 0
              /\ tokens = Burst * Unit
              /\ admitted = <<>>

\* _acquire returns True.
Admit == /\ Refilled >= Unit
         /\ tokens' = Refilled - Unit
         /\ last' = now
         /\ admitted' = Append(admitted, now)

\* _acquire returns False: the refill is kept.
Refuse == /\ Refilled < Unit
          /\ tokens' = Refilled
          /\ last' = now
          /\ UNCHANGED admitted

Tick == now' = now + 1 /\ UNCHANGED bucket

\* In every interval the calls let through are at most the burst and what the
\* rate adds to it: from the i-th to the j-th call, both included.
RateBound ==
  \A i, j \in 1..Len(admitted) : i <= j =>
    (j - i + 1) * Unit <= Burst * Unit + Rate * (admitted[j] - admitted[i])
=============================================================================
