\* What either of the two instances has: the bounds that differ are in the module.
CONSTANTS
  admin = admin  owen = owen
  s1 = s1  s2 = s2  s3 = s3
  m1 = m1  m2 = m2  ph = ph
  Admins = {admin}
  Canonical = admin
  Placeholder = ph
  None = None
  Users = {admin, owen}
  Stages = {s1, s2, s3}
  Media = {m1, m2, ph}
  Kinds = {"prop", "audio"}
  KeptKinds = {"audio"}
  SoundKinds = {"audio"}
  Levels = {0}
  Exits = {"fade"}
  UserLists <- NoLists
  MaxWanted = 2
  MaxLink = 6
  MaxUsage = 1
SPECIFICATION MCSpec
INVARIANTS TypeOK NothingDangles
PROPERTIES PlaceKept ExitKept PlaceholderTakesOver
SYMMETRY Symmetry
