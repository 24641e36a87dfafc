CONSTANTS
  Writer = {w1, w2}
  Reader = {r1, r2}
  Runnables = {w1, r1}
  Message <- MCMessages
  Base = 3
  WordSize = 2
  Capacity = 3
  MaxSent = 2
  Request <- MCRequest
  Following <- MCFollowing
  Garbage = {"value"}
  MaxPauses = 1
  Size <- MCSize
  Text = {"text", "jpeg"}
  JpegText = {"jpeg"}
  Mask <- MCMask
  MaxFrames = 2
  MaxWritten = 1
SPECIFICATION AllSpec
INVARIANT ReadsWhatWasSent
CHECK_DEADLOCK FALSE
