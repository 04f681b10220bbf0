\* Every sorted timeline of at most four events at times up to five, every pause; two
\* stages, three changes each, two faults; two dying runs of the seed, two deletions;
\* two refused COMMITs; two videos and two extractors; lists of two out of six strings.
CONSTANTS
  MaxLength = 4
  MaxTime = 5
  Timelines <- MCTimelines
  Pauses <- MCPauses
  Slugs = {s1, s2}
  MaxPublished = 3
  MaxFaults = 2
  Assigned = {a1, a2}
  Unassigned = {u1}
  Placeholder = Placeholder
  MaxDeaths = 2
  MaxDeleted = 2
  MaxRefused = 2
  Videos = {v1, v2}
  Extractors = {upload, backfill}
  Nobody = Nobody
  MaxLost = 2
  Ids = {i1, i2}
  Files = {f1, f2}
  Keys = {key}
  Picture = Picture
  scene = scene  recording = recording
  Payloads = {scene, recording}
  Escaped = {f2}
  EscapedIn <- MCEscapedIn
  pat = pat  help = help  helpToo = helpToo  server = server  spaces = spaces
  Blank = Blank
  Parts = {pat, help, helpToo, server, spaces, Blank}
  Addresses <- MCAddresses
  Reads <- MCReads
  NoAddress = NoAddress
  From = server
  Support <- MCSupport
  MaxListed = 2
SPECIFICATION MCSpec
INVARIANTS TimesHold MailsReachTheirOwn
PROPERTIES RowsFollow SeededWhole Installed PayloadsHold WholePostersStay
CHECK_DEADLOCK FALSE
