CONSTANTS
  Msgs = {m1}
  Tickets = {t1}
  TicketOf <- OneTicket
  MaxAttempts = 2
  Workers = {w1}
  NoMsg = NoMsg
  Mode = "live"
  ThrottleN = 1
  HttpAttempts = 2
  Whitelisted = TRUE
  Faults = {"overrun"}
  MaxFaults = 1
  m1 = m1
  w1 = w1
  t1 = t1
SPECIFICATION Spec
INVARIANTS
  ExactlyOnce
