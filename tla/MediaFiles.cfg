\* Two items, two files, one of them with a name that JSON escapes, a stream key, a
\* request that awaits, a refused deletion.
CONSTANTS
  m1 = m1  m2 = m2  f1 = f1  f2 = f2  key = key  r1 = r1
  Items = {m1, m2}
  Files = {f1, f2}
  Escaped = {f2}
  Keys = {key}
  Nowhere = Nowhere
  Requests = {r1}
  MaxFrames = 2
  MaxRefused = 1
SPECIFICATION Spec
PROPERTIES FilesKept AwaitsHarmless
SYMMETRY Symmetry
CHECK_DEADLOCK FALSE
