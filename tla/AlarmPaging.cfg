SPECIFICATION PagingSpec
CONSTANTS
  PTAlm_Item = 3
  ByteBase = 2
  VoltEvents = {"AUa"}
  CurrEvents = {}
  TripEvents = {}
  FactoryRelates <- ZeroRelate
  FactoryTails <- PlainTail
  PowerMayFail = TRUE
INVARIANT PagingTypeOK
INVARIANT HostReadsRecords
INVARIANT EveryRecordSent
PROPERTY TerminateFollows
