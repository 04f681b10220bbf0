\* Two stages, an administrator and two accounts, lists of players and editors; four
\* scenes on two stages, of which names are chosen or not.
CONSTANTS
  root = root  ann = ann  bob = bob  s1 = s1  s2 = s2
  Users = {root, ann, bob}
  Admins = {root}
  Canonical = root
  Stages = {s1, s2}
  Lists <- MCLists
  None = None
  Odd = Odd
  b1 = b1  b2 = b2  dan = dan  solo = solo
  Owners = {root, dan}
  Directors = {root}
  Boards = {b1, b2}
  Titles = {solo, 2}
  Untitled = Untitled
  MaxScene = 4
SPECIFICATION MCSpec
PROPERTIES PlacesKept FoyerAsNamed ScenesKept
SYMMETRY Symmetry
CHECK_DEADLOCK FALSE
