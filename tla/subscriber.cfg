SPECIFICATION FairSpec
CONSTANTS
  Outers = {o1, o2}
  Opens = {r1}
  None = None
  Gone = Gone
INVARIANTS
  NoLostWakeup
  NoLeakedOuter
  PromotionImpliesGrant
PROPERTIES
  CurrentIsKept
  Reconnects
  RestartConfirms
