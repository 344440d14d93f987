SPECIFICATION FairSpec
CONSTANTS
  Pcbs = {1, 2}
  Structs = {"e1", "e2", "e3"}
  Pbufs = {"b1", "b2"}
INVARIANTS
  CallbackOwnsStruct
  BufferOwned
  MessageOnce
PROPERTY
  ServerCloseFollowed
