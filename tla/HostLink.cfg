SPECIFICATION FairSpec
CONSTANTS
  Settings = {v1, v2}
  Default = v1
  Refused = {bad}
  MaxAlm = 1
  MaxIo = 1
  MaxNoise = 1
  MaxRush = 1
  QueueSize = 1
  NoFrame = NoFrame
  Garbage = Garbage
  Err = Err
INVARIANTS
  TypeOK
  ReplyFits
  SetConfirmed
  AlarmAnnounced
  
PROPERTIES
  Answered
