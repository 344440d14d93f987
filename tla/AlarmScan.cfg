SPECIFICATION FairSpec
CONSTANTS
  Analog = {6}
  Switches = {8, 18}
  Branches = {0}
  AnalogReadings = {"Normal", "Under", "Over"}
  BranchReadings = {"Normal", "Under", "Unused"}
  Setups <- SeparateOrPaired
  Reconfigurable = TRUE
INVARIANTS
  TypeOK
  MsgCoversAlarm
  
  IndicationCurrent
PROPERTIES
  LampGoesOff
