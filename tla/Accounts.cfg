\* Two accounts beside the canonical one with all they can be given, two unused codes,
\* one refused COMMIT; two browsers on two accounts over three seconds.
CONSTANTS
  root = root  ann = ann  bob = bob  cara = cara  n1 = n1  n2 = n2  n3 = n3
  e1 = e1  e2 = e2  e3 = e3  k1 = k1  k2 = k2  c1 = c1  c2 = c2
  Ids = {root, ann, bob}
  Canonical = root
  Names = {n1, n2, n3}
  Emails = {e1, e2, e3}
  Codes = {k1, k2}
  MaxRefused = 1
  MaxUnused = 2
  Users = {root, cara}
  Admins = {root}
  Clients = {c1, c2}
  NoPair = NoPair
  AccessLife = 1
  MaxClock = 2
  MaxRow = 3
SPECIFICATION MCSpec
INVARIANTS AccountsHold SessionsHold
PROPERTIES NoRevival OthersKeepTheirSession
SYMMETRY Symmetry
CHECK_DEADLOCK FALSE
