\* Three requests on two rows that they and another process contend for, under
\* the fairness of the event loop.
CONSTANTS
  upload = upload  audience = audience  studio = studio
  type = type  asset = asset
  Requests = {upload, audience, studio}
  Rows = {type, asset}
  Program <- MCProgram
  NoRequest = NoRequest
  Other = Other
SPECIFICATION FairSpec
INVARIANTS TypeOK NoLockAcrossYield AnswerMatchesDatabase AllOrNothing
PROPERTY EveryRequestEnds
CHECK_DEADLOCK FALSE
