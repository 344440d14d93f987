SPECIFICATION Spec
CONSTANTS
  PTAlm_Item = 3
  ByteBase = 4
  VoltEvents = {"AUa"}
  CurrEvents = {}
  TripEvents = {"AQF"}
  FactoryRelates <- ZeroRelate
  FactoryTails <- PlainTail
  PowerMayFail = FALSE
INVARIANT ClearEmptiesLog
