SPECIFICATION FairSpec
CONSTANTS
  Analog = {16}
  Switches = {8}
  Branches = {0, 1}
  AnalogReadings = {"Normal", "Over"}
  BranchReadings = {"Normal", "Under", "Absent"}
  Setups <- TwoBuses
  Reconfigurable = FALSE
PROPERTY
  LampGoesOffAnywhere
