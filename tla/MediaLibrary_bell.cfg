CONSTANTS
  admin = admin
  owen = owen
  paula = paula
  m1 = m1
  ph = ph
  Admins = {admin}
  Canonical = admin
  Placeholder = ph
  None = None
  Users = {admin, owen, paula}
  Stages = {}
  Media = {m1, ph}
  Kinds = {"prop"}
  KeptKinds = {"prop"}
  SoundKinds = {}
  Levels = {0, 2}
  Exits = {}
  UserLists <- AllLists
  MaxWanted = 0
  MaxLink = 0
  MaxUsage = 2
SPECIFICATION Spec
PROPERTIES StrictUseIsGranted YesIsTold
SYMMETRY UserSymmetry
