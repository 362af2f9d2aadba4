SPECIFICATION FairSpec
CONSTANTS
  MissedPongsBeforeTimeout = 3
  Sequences = 8
INVARIANTS
  LegacyIsReal
  NoFalseAlarm
PROPERTIES
  SilenceIsNoticed
  NegotiationEnds
CHECK_DEADLOCK FALSE
