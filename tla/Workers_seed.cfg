\* A promise of run_bootstrap's, which one refused COMMIT breaks. The other workers have
\* as little to do as they can.
CONSTANTS
  MaxLength = 0
  MaxTime = 0
  Timelines <- MCTimelines
  Pauses <- MCPauses
  Slugs = {s1}
  MaxPublished = 1
  MaxFaults = 0
  Assigned = {a1, a2}
  Unassigned = {u1}
  Placeholder = Placeholder
  MaxDeaths = 1
  MaxDeleted = 1
  MaxRefused = 1
  Videos = {v1}
  Extractors = {upload}
  Nobody = Nobody
  MaxLost = 0
  Ids = {}
  Files = {f2}
  Keys = {}
  Picture = Picture
  scene = scene  recording = recording
  Payloads = {scene, recording}
  Escaped = {f2}
  EscapedIn <- MCEscapedIn
  pat = pat  help = help  helpToo = helpToo  server = server  spaces = spaces
  Blank = Blank
  Parts = {pat, help, helpToo, server, spaces, Blank}
  Addresses <- MCAddresses
  Reads <- MCReads
  NoAddress = NoAddress
  From = server
  Support <- MCSupport
  MaxListed = 0
SPECIFICATION MCSpec
PROPERTY FailedSeedBlocks
CHECK_DEADLOCK FALSE
