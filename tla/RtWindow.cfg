SPECIFICATION Spec
CONSTANTS
  Events = {e1, e2}
  AlmTypes = {over, under}
  Normal = normal
  RTAlm_Item = 3
INVARIANTS
  TypeOK
  WindowIsRecent
  AlarmStaysAlarm
