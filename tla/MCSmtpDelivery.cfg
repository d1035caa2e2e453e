CONSTANTS
  b1 = b1
  b2 = b2
  b3 = b3
  g1 = g1
  g2 = g2
  r1 = r1
  r2 = r2
  Backend = {b1, b2, b3}
  GroupOf <- MCGroupOf
  Redundancy = 2
  Local = {r1, r2}
  Forward = {f1}
  Sender = Sender
  NoForward = NoForward
  MaxIndex = 2
  MaxTalkers = 4
SPECIFICATION Spec
SYMMETRY Recipients
INVARIANTS TypeOK RedundantUnlessForwarded EveryRecipientServed RejectedNowhere
