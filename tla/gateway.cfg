SPECIFICATION GatewayFairSpec
CONSTANTS
  h1 = h1
  t1 = t1
  Http = {h1}
  Tcp = {t1}
  MaxMuxes = 3
INVARIANTS
  NoLeakedTunnel
  OneAnswer
  BadGatewayIsReal
PROPERTIES
  EveryClientIsSettled
CHECK_DEADLOCK FALSE
