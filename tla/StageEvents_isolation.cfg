\* A sweep next to a stage of a similar slug.
CONSTANTS
  s1 = s1  s2 = s2  under = under  dash = dash  m1 = m1  m2 = m2  m3 = m3
  Stages = {s1, s2}
  Slugs = {under, dash}
  ShortNames = {dash}
  NoSlug = NoSlug
  Gone = Gone
  Messages = {m1, m2}
  SlugOf <- TwoSlugOf
  Like <- MCLike
  ILike <- MCILike
  MaxPerformances = 2
  MaxRows = 4
SPECIFICATION Spec
SYMMETRY StageSymmetry
INVARIANT SweepIsolation
CHECK_DEADLOCK FALSE
