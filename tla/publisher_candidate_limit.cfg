SPECIFICATION Spec
CONSTANTS
  alice = alice
  bob = bob
  carol = carol
  s1 = s1
  s2 = s2
  s3 = s3
  wiki = wiki
  NoStream = NoStream
  Keys = {alice, bob, carol}
  Services = {wiki}
  ServiceAllows <- MCServiceAllows
  InitialAllow <- MCInitialAllow
  Streams = {s1, s2, s3}
  KeyOf <- MCPairingKeyOf
  MaximumPairingCandidates = 1
  MaxInvitations = 2
  MaxStarts = 0
INVARIANT AtMostThreeCandidates
CHECK_DEADLOCK FALSE
