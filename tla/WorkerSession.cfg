\* Payloads of up to three bytes through a buffer of two.
CONSTANTS
  MaxStrays = 2
  Bytes = {b1, b2}
  NewLine = NewLine
  MaxFrameSize = 3
  BufferSize = 2
  RecvSize = 3
  MaxMessages = 3
  MaxStray = 6
SPECIFICATION LinkSpec
INVARIANTS CleanEnd TalksToWorker
PROPERTIES SessionEnds NoOrphan
PROPERTIES ImplementsChannel RejectsOnlyLong ReadingProgresses
\* A session returns; a reader stops when its connection fails or ends.
CHECK_DEADLOCK FALSE
