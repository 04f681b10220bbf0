\* Two writers, a queue of one, three messages (one malformed), one fault of each
\* kind; no symmetry, since the properties are temporal.
CONSTANTS
  m1 = m1  m2 = m2  m3 = m3  m4 = m4  w1 = w1  w2 = w2
  Messages = {m1, m2, m3}
  Retained = {}
  Statistics = {}
  Undecodable = {m3}
  Writers = {w1, w2}
  Capacity = 1
  NoItem = NoItem
  MaxLinkFaults = 1
  MaxDbFaults = 1
  MaxCrashes = 0
SPECIFICATION FairSpec
PROPERTIES QueuedIsDecided ShutdownCompletes
CHECK_DEADLOCK FALSE
