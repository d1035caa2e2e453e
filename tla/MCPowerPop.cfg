CONSTANTS
  Backend = {b1, b2}
  Client = {c1}
  Msg = {m1}
  Junk = Junk
  NoMsg = NoMsg
  LogMayFail = TRUE
  MaxLate = 2
SPECIFICATION Spec
INVARIANTS TypeOK UpIsConnected
PROPERTIES OnlyAskedGone ReplayedOrKept
