CONSTANTS
  Msgs = {m1, m2}
  Tickets = {t1}
  TicketOf <- OneTicket
  MaxAttempts = 2
  Workers = {w1, w2}
  NoMsg = NoMsg
  Mode = "live"
  ThrottleN = 1
  HttpAttempts = 2
  Whitelisted = TRUE
  Faults = {"crash"}
  MaxFaults = 2
  m1 = m1
  m2 = m2
  w1 = w1
  w2 = w2
  t1 = t1
SYMMETRY Interchangeable
SPECIFICATION Spec
INVARIANTS
  IInv
PROPERTIES
  ImplementsLifecycle
