SPECIFICATION FairSpec
CONSTANTS
  a = a
  b = b
  Peers <- MCPeers
  Hash <- MCHash
  UseEphemeralKeys = TRUE
  MaxEph <- MCOneRekeys
  MaxChallenge = 8
  CanCalm = TRUE
  NetCap = 1
  DataCap = 1
INVARIANTS
  TypeOK
  TimersFollowStatus
  UpMeansConfirmed
PROPERTIES
  NewestKeyWins
  EventuallyAgreed
