SPECIFICATION FairSpec
CONSTANTS
  alice = alice
  bob = bob
  carol = carol
  s1 = s1
  s2 = s2
  s3 = s3
  wiki = wiki
  NoStream = NoStream
  Keys = {alice, bob, carol}
  Services = {wiki}
  ServiceAllows <- MCServiceAllows
  InitialAllow <- MCInitialAllow
  Streams = {s1, s2, s3}
  KeyOf <- MCKeyOf
  MaximumPairingCandidates = 2
  MaxInvitations = 1
  MaxStarts = 1
INVARIANTS
  Authority
  OneCurrent
  ApprovalIsDurable
  StopSweeps
PROPERTIES
  ActiveHandover
  StopCompletes
  SilenceEnds
CHECK_DEADLOCK FALSE
