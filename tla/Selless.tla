------------------------------ MODULE Selless -------------------------------
(***************************************************************************)
(* The Selless MCP server (src/src/selless_mcp): tool calls pass the rate  *)
(* limiter, then the audit middleware, then the tool, which asks Selless   *)
(* over HTTP with retries (and, for the ticket history, Freshdesk) and     *)
(* maps the payload to the fields of its model.  The audit row is written  *)
(* on the way out, whatever happened inside.                               *)
(*                                                                         *)
(* A payload is the set of its field names; the names of a delivery order  *)
(* nested in an order are in the set like those of the order.  How long a  *)
(* retry waits is not modelled: it may come at any later time.             *)
(***************************************************************************)
EXTENDS TokenBucket, FiniteSets

CONSTANTS Calls,        \* the tool calls of one run of the server
          Payloads,     \* the payloads each upstream resource may return
          HttpAttempts, \* max_attempts of both HTTP clients
          Statuses,     \* HTTP status codes that may come back
          AuditPool,    \* "set", "none", or "bypass", as in the tests
          HasFreshdesk, \* was a Freshdesk client injected?
          MaxTime       \* bound on the clock

ASSUME SellessAssumption ==
  /\ IsFiniteSet(Calls)
  /\ HttpAttempts \in Nat \ {0}
  /\ AuditPool \in {"set", "none", "bypass"}
  /\ HasFreshdesk \in BOOLEAN /\ MaxTime \in Nat

VARIABLES call,     \* each tool call: where it is, its tool, its result
          audits    \* audit.selless_audit: <<call, outcome>> of every row

vars == <<now, bucket, call, audits>>

Tools == {"get_order_status", "get_customer_info", "get_purchase_history",
          "get_ticket_history", "resolve_order"}

(***************************************************************************)
(* rate_limit.py and client.py: what becomes of a response                 *)
(***************************************************************************)
classify_status(status) ==
  IF status \in {429} \cup 500..599 THEN "transient" ELSE "fatal"

\* A 429 is told apart before the classification.
raise_for_status(status) == IF status = 429 THEN "rate_limited" ELSE classify_status(status)

\* retry_if_exception_type
Retryable(error) == error \in {"rate_limited", "transient", "transport"}

\* What one attempt may raise.
Errors == {raise_for_status(s) : s \in Statuses \ {200}} \cup {"transport"}

(***************************************************************************)
(* whitelist.py: the fields of each model                                  *)
(***************************************************************************)
DenyFields == {"payment", "total_product_cost", "supplier_id", "supplier_code",
  "supplier_name", "contract_id", "is_fake_contract", "fulfillment_version_id",
  "fulfillment_version_name", "handling_fee", "note", "payload", "agent", "agent_id"}

OrderFields == {"id", "code", "status", "created", "amount", "items_amount",
  "tax_amount", "discount", "shipping", "closed_reason", "shipping_address",
  "billing_address", "product", "delivery_orders"}

DoFields == {"id", "code", "status", "odo_status", "status_date_processing",
  "status_date_delivered", "trackings", "failed_reason", "product_label", "urgent"}

CustomerFields == {"id", "first_name", "last_name", "full_name", "email", "phone",
                   "email_status", "phone_status"}

HistoryFields == {"rootcause", "customer_feedback", "customer_request", "status",
                  "source", "created"}

ResolvedFields == {"id", "code", "customer_id", "customer_email"}

\* raw[...], where the others are read with raw.get(...).
Required(tool) == CASE tool \in {"get_order_status", "resolve_order"} -> {"id", "code"}
                    [] tool = "get_customer_info" -> {"id"}
                    [] OTHER -> {}

Allowed(tool) == CASE tool = "get_order_status"     -> OrderFields \cup DoFields
                   [] tool = "get_customer_info"    -> CustomerFields
                   [] tool = "get_ticket_history"   -> HistoryFields
                   [] tool = "resolve_order"        -> ResolvedFields
                   [] tool = "get_purchase_history" -> {}

PassThrough(tool, raw) == raw                                      \* mutant

\* apply_..._whitelist: explicit extraction.
Whitelist(tool, raw) == raw \cap Allowed(tool)

(***************************************************************************)
(* Tool calls                                                              *)
(***************************************************************************)
Where == {"new", "selless", "freshdesk", "audit", "answered", "raised", "refused"}
Call  == [at : Where, tool : Tools \cup {"none"}, attempt : Nat, outcome : {"ok", "error"},
          fields : SUBSET UNION UNION {Payloads[t] : t \in Tools}]

Move(c, new) == call' = [call EXCEPT ![c] = new]

\* The tool has a result, or it raised: the finally block of the middleware.
Result(c, fields) == [call[c] EXCEPT !.at = "audit", !.outcome = "ok", !.fields = fields]
Raised(c)         == [call[c] EXCEPT !.at = "audit", !.outcome = "error"]

Init == /\ BucketInit
        /\ call = [c \in Calls |-> [at |-> "new", tool |-> "none", attempt |-> 1,
                                    outcome |-> "error", fields |-> {}]]
        /\ audits = {}

Refused(c) == /\ call[c].at = "new"
              /\ Refuse
              /\ Move(c, [call[c] EXCEPT !.at = "refused"])
              /\ UNCHANGED <<now, audits>>

\* A search parameter of fewer than three characters raises before any request.
Admitted(c) == /\ call[c].at = "new"
               /\ Admit
               /\ \/ \E tool \in Tools :
                       Move(c, [call[c] EXCEPT !.at = "selless", !.tool = tool])
                  \/ Move(c, [Raised(c) EXCEPT !.tool = "resolve_order"])
               /\ UNCHANGED <<now, audits>>

\* An attempt that raised: try again, or give up.
NextAttempt(c) == [call[c] EXCEPT !.attempt = @ + 1]

RetryForEver(c, error) ==                                          \* mutant
  IF ~Retryable(error) THEN Raised(c)
  ELSE IF call[c].attempt < HttpAttempts THEN NextAttempt(c)
  ELSE [call[c] EXCEPT !.attempt = 1]

Failed(c, error) ==
  IF Retryable(error) /\ call[c].attempt < HttpAttempts THEN NextAttempt(c) ELSE Raised(c)

AttemptFails(c) ==
  /\ call[c].at \in {"selless", "freshdesk"}
  /\ \E error \in Errors : Move(c, Failed(c, error))
  /\ UNCHANGED <<now, bucket, audits>>

Converted(c, raw) == IF Required(call[c].tool) \subseteq raw
                     THEN Result(c, Whitelist(call[c].tool, raw)) ELSE Raised(c)

SellessAnswers(c) ==
  LET tool == call[c].tool
  IN /\ call[c].at = "selless" /\ tool # "get_ticket_history"
     /\ \E raw \in Payloads[tool] : Move(c, Converted(c, raw))
     /\ UNCHANGED <<now, bucket, audits>>

\* The ticket history asks for the Freshdesk id of the order first.
MappingAnswers(c) ==
  /\ call[c].at = "selless" /\ call[c].tool = "get_ticket_history"
  /\ \/ Move(c, Raised(c))                          \* no fd_ticket_id in the mapping
     \/ ~HasFreshdesk /\ Move(c, Result(c, {}))
     \/ HasFreshdesk /\ Move(c, [call[c] EXCEPT !.at = "freshdesk", !.attempt = 1])
  /\ UNCHANGED <<now, bucket, audits>>

FreshdeskAnswers(c) ==
  /\ call[c].at = "freshdesk"
  /\ \E raw \in Payloads[call[c].tool] : Move(c, Converted(c, raw))
  /\ UNCHANGED <<now, bucket, audits>>

\* The request is cancelled while the tool waits: its finally block still runs.
Cancelled(c) == /\ call[c].at \in {"selless", "freshdesk"}
                /\ Move(c, Raised(c))
                /\ UNCHANGED <<now, bucket, audits>>

AnswerAnyway(c) == /\ call[c].at = "audit"                         \* mutant
                   /\ Move(c, [call[c] EXCEPT !.at = IF call[c].outcome = "ok"
                                                     THEN "answered" ELSE "raised"])
                   /\ UNCHANGED <<now, bucket, audits>>

\* _write_audit_row raises, with or without the row: its exception replaces
\* the result.
AuditFails(c) ==
  /\ call[c].at = "audit" /\ AuditPool # "bypass"
  /\ Move(c, [call[c] EXCEPT !.at = "raised", !.fields = {}])
  /\ \/ UNCHANGED audits
     \/ AuditPool = "set" /\ audits' = audits \cup {<<c, call[c].outcome>>}
  /\ UNCHANGED <<now, bucket>>

OkWritten(c) ==                                                   \* mutant
  /\ call[c].at = "audit"
  /\ Move(c, [call[c] EXCEPT !.at = IF call[c].outcome = "ok" THEN "answered" ELSE "raised"])
  /\ audits' = audits \cup {<<c, "ok">>}
  /\ UNCHANGED <<now, bucket>>

AuditWritten(c) ==
  /\ call[c].at = "audit" /\ AuditPool # "none"
  /\ Move(c, [call[c] EXCEPT !.at = IF call[c].outcome = "ok" THEN "answered" ELSE "raised"])
  /\ audits' = IF AuditPool = "set" THEN audits \cup {<<c, call[c].outcome>>} ELSE audits
  /\ UNCHANGED <<now, bucket>>

TimePasses == now < MaxTime /\ Tick /\ UNCHANGED <<call, audits>>

Step(c) == \/ Refused(c) \/ Admitted(c)
           \/ AttemptFails(c) \/ SellessAnswers(c) \/ MappingAnswers(c)
           \/ FreshdeskAnswers(c) \/ Cancelled(c) \/ AuditFails(c) \/ AuditWritten(c)

Next == TimePasses \/ \E c \in Calls : Step(c)

\* Every request ends by an answer or a timeout, and the event loop runs on.
Spec == Init /\ [][Next]_vars /\ \A c \in Calls : WF_vars(Step(c))

-----------------------------------------------------------------------------
(***************************************************************************)
(* Properties                                                              *)
(***************************************************************************)
TypeOK == /\ now \in Nat /\ last \in 0..now
          /\ tokens \in 0..(Burst * Unit)
          /\ admitted \in Seq(Nat)
          /\ call \in [Calls -> Call]
          /\ audits \subseteq Calls \X {"ok", "error"}

\* Fail-closed (audit.py:8-10): with a pool, a caller that has its answer has
\* an "ok" row in the audit table; without one nobody is answered.
AnswersAreAudited ==
  \A c \in Calls : call[c].at = "answered" /\ AuditPool # "bypass" => <<c, "ok">> \in audits

\* Every row is of a call that was let through and is over, and tells what its
\* tool did; an answered call has an "ok" row, and an "ok" row is of an answered
\* call or of one whose INSERT raised after it was applied.  A refused call has
\* no row, although audit.py:4 speaks of every call: the limiter is outside.
AuditTellsTheTruth ==
  \A row \in audits : /\ call[row[1]].at \in {"answered", "raised"}
                      /\ row[2] = "ok" <=> call[row[1]].outcome = "ok"

\* D-04: none of the denied fields reaches the caller, at any depth.
NoDeniedField == \A c \in Calls : call[c].fields \cap DenyFields = {}

\* Every call let through comes to an end, and so does every refused one.
CallsEnd == \A c \in Calls : <>(call[c].at \in {"answered", "raised", "refused"})
=============================================================================
