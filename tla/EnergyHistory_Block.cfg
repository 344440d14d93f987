SPECIFICATION Spec
CONSTANTS
  Months = 2
  YearBase = 4
  Word = 64
  FirstMonth = 5
  LastYear = 2
  MaxEra = 2
  PowerMayFail = TRUE
INVARIANT SaveInBlock
