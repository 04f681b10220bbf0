\* Two writers, a queue of one, four messages (one malformed, one skipped),
\* one crash, one broken or refused connection, one failing transaction.
CONSTANTS
  m1 = m1  m2 = m2  m3 = m3  m4 = m4  w1 = w1  w2 = w2
  Messages = {m1, m2, m3, m4}
  Retained = {m4}
  Statistics = {m4}
  Undecodable = {m3}
  Writers = {w1, w2}
  Capacity = 1
  NoItem = NoItem
  MaxLinkFaults = 1
  MaxDbFaults = 1
  MaxCrashes = 1
SPECIFICATION Spec
SYMMETRY Symmetry
INVARIANTS TypeOK AtMostOnce ReplayOrder JoinAccounting StrandedAtMostOne
PROPERTY ImplementsLog
CHECK_DEADLOCK FALSE
