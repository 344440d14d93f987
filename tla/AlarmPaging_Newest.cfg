SPECIFICATION PagingSpec
CONSTANTS
  PTAlm_Item = 3
  ByteBase = 4
  VoltEvents = {"AUa"}
  CurrEvents = {}
  TripEvents = {}
  FactoryRelates <- ZeroRelate
  FactoryTails <- PlainTail
  PowerMayFail = FALSE
PROPERTY NewestOnZero
