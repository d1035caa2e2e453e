CONSTANTS
  b1 = b1
  b2 = b2
  b3 = b3
  g1 = g1
  g2 = g2
  limited = limited
  unlimited = unlimited
  Backend = {b1, b2, b3}
  Table <- MCTable
  GroupOf <- MCGroupOf
  PriorityOf <- MCPriorityOf
  Redundancy = 2
  Mailbox = {limited, unlimited}
  Quota <- MCQuota
  MaxMsgKb = 2
  StatEvery = 2
  Bounds <- MCBounds
  MaxLate = 3
  MaxTalkers = 3
SPECIFICATION Spec
CHECK_DEADLOCK FALSE
INVARIANTS TypeOK
PROPERTIES ChosenWell RefusedForCause AcceptedWhole WithinRoom BlockedLeftAlone WaitEnds BackAgain ServesAgain
