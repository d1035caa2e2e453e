CONSTANTS
  Backend = {b1}
  Client = {c1, c2}
  Msg = {m1}
  Junk = Junk
  NoMsg = NoMsg
  LogMayFail = TRUE
  MaxLate = 2
SPECIFICATION Spec
INVARIANT ListedReal
