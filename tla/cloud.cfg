SPECIFICATION FairSpec
CONSTANTS
  NestingLimit = 3
  MaxRefused = 1
  PrintSize = 4
  IntMax = 160
  FirstCap = 4
  MaxId = 3
  MaxName = 4
  Pieces = {6, 40}
  Devices <- DevicesMC
  Replies <- RepliesMC
  Acks <- AcksMC
  Messages <- MessagesMC
INVARIANTS TypeOK NothingLeft ListsSound PrintInBounds ParseInBounds ResponseInBounds ReplyInOrder BodyRight ParseRight CommandAsTold
PROPERTY CallsEnd
CHECK_DEADLOCK FALSE
