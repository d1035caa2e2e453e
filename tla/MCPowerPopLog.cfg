CONSTANTS
  Backend = {b1}
  Client = {c1}
  Msg = {m1, m2}
  Junk = Junk
  NoMsg = NoMsg
  LogMayFail = FALSE
  MaxLate = 0
SPECIFICATION Spec
INVARIANT DeletionKept
