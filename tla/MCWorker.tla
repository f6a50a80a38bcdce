------------------------------ MODULE MCWorker ------------------------------
\* Instances of Worker for TLC.
EXTENDS WorkerInv, TLC

\* Every message belongs to one ticket: the throttle and the workers meet.
OneTicket == [m \in Msgs |-> CHOOSE t \in Tickets : TRUE]

Interchangeable == Permutations(Msgs) \cup Permutations(Workers)
=============================================================================
