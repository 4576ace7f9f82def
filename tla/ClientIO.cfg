SPECIFICATION FairSpec
CONSTANTS
  Letters = {"a"}
  MsgChanSize = 2
  MaxInteractiveBuf = 1
  MaxBytes = 4
  MaxInFlight = 2
  MaxSends = 1
INVARIANTS
  TypeOK
  InputTracked
  LinesAsTyped
PROPERTIES
  SlowPeerHarmless
  ConnectionEnds
CHECK_DEADLOCK FALSE
