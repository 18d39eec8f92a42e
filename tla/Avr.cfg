\* A host that reads what it likes and sends for as long as it likes.
SPECIFICATION AvrSpec
CONSTANTS
  Catalog <- MCCatalog
  AvrReply <- MCReply
  Inbound <- MCInbound
  TxWords = 4
  RxWords = 2
  MaxTries = 1
  Period = 2
INVARIANTS
  MessagesFramed
  LeavesInOnePass
PROPERTIES
  EveryRoundEnds
