CONSTANTS
  client = client
  server = server
  Ends <- MCEnds
  Peer <- MCPeer
  StrandOf <- OneStrandEach
  Messages <- MCMessages
  MaxMessageSize = 2
  PlainEnds <- MCPlainEnds
  Outbox <- MCOutbox
  MaxCalls = 2
  WireCapacity = 1
SPECIFICATION FairSpec
CHECK_DEADLOCK FALSE
INVARIANTS
  OneAtATime
PROPERTIES
  MessagesStream
  SentIsReceived
  ClosingEnds
