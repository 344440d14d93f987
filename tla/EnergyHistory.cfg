SPECIFICATION Spec
CONSTANTS
  Months = 2
  YearBase = 4
  Word = 64
  FirstMonth = 5
  LastYear = 2
  MaxEra = 3
  PowerMayFail = TRUE
INVARIANTS
  TypeOK
  SavedKept
  MonthSaved
  QueryHonest
  LastIsSound
