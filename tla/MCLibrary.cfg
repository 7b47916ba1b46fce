SPECIFICATION Spec
CONSTANTS
  NULL = NULL
  MaxNodes = 3
  MaxItems = 5
  TERM = TERM
  FILL = FILL
  IOCapacity = 4
  MaxBytes = 6
  BlockSize = 2
  Slack = 1
  MaxText = 3
  MaxBlocks = 3
  NUL = NUL
  RAW = RAW
  MinString = 2
  MaxString = 5
  NotSet = NotSet
  MaxHeaders = 2
  MaxPieces = 2
  Beginnings <- UrlBeginnings
  MaxMore = 3
  OffsetRange = 12
  SendRoom = 2
  PeerBytes = 2
  Lengths = {1, 2}
  OldConns = {o1, o2}
  Requests <- MCRequests
  ResponseLen = 2
  OldRoom = 1
  ClientSends <- MCSends
  ReadBufferSize = 1
  InRoom = 2
  OutLen = 2
  OutRoom = 3
  Adders = {a1, a2, a3}
  PipeRoom = 2
  NoFunctor = NoFunctor
  Functors = {f1, f2}
  ReadyCapacity = 4
INVARIANTS
  ItemsAnnounced
  ListAsCalled
  BufferKeepsBytes
  ChainHoldsText
  CbufferKeepsString
  MessageAsSent
  HeadersAsMeant
  UrlSplits
  OldServerAnswers
  OldConnectionGoesOn
PROPERTIES
  HelpersReportTruly
  IsFifo
CHECK_DEADLOCK FALSE
