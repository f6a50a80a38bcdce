----------------------------- MODULE MCSelless ------------------------------
\* Instances of Selless for TLC.
EXTENDS Selless, TLC

\* The payloads of the test fixtures, every denied field included, and ones
\* without what a model requires.
MCPayloads ==
  [tool \in Tools |->
     CASE tool = "get_order_status" -> {OrderFields \cup DoFields \cup DenyFields, {"id"}}
       [] tool = "get_customer_info" -> {CustomerFields \cup {"note"}, {"email"}}
       [] tool = "get_ticket_history" -> {HistoryFields \cup {"agent", "agent_id"}, {}}
       [] tool = "resolve_order" -> {ResolvedFields \cup {"payment"}, {"id"}}
       [] tool = "get_purchase_history" -> {CustomerFields}]

MCStatuses == {200, 404, 429, 503}

Interchangeable == Permutations(Calls)
=============================================================================
