SPECIFICATION FairSpec
CONSTANTS
  b1 = b1
  p1 = p1
  Buffers <- OneBuffer
  Pages <- OnePage
  MaxRevision = 6
  QueueCap = 1
  MaxEdits = 1
  MaxDisturbances = 1
  OnBlock = {TRUE}
  Others = {TRUE}
INVARIANT CaughtUp
INVARIANT IdleViewAgrees
PROPERTY LiveViewSpec
CHECK_DEADLOCK FALSE
PROPERTY Converges
