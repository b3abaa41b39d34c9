SPECIFICATION Spec
CONSTANTS
  A = A
  B = B
  a1 = a1
  a2 = a2
  Peers = {A, B}
  Address = {a1, a2}
  NULL = NULL
  Usable <- MCUsable
  MaxSyn <- MCMaxSyn
  MaxNonce = 1
  NetCap = 1
  May = {"loss", "dup", "session", "fail", "force", "stop", "send"}
INVARIANTS
  MasterTaskPending
CHECK_DEADLOCK FALSE
