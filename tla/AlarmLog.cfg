SPECIFICATION Spec
CONSTANTS
  PTAlm_Item = 3
  ByteBase = 2
  VoltEvents = {"AUa"}
  CurrEvents = {}
  TripEvents = {"AQF"}
  FactoryRelates <- ZeroRelate
  FactoryTails <- PlainTail
  PowerMayFail = TRUE
INVARIANT TypeOK
INVARIANT RingWritten
INVARIANT WriteInRing
INVARIANT Durable
INVARIANT ClearedStaysCleared
INVARIANT ActiveIsOpen
INVARIANT EndedIsClosed
PROPERTY ClosesNewest
