CONSTANTS
  s1 = s1
  s2 = s2
  m1 = m1
  m2 = m2
  a = a
  b = b
  NoName = NoName
  Session = {s1, s2}
  Mbox = {m1, m2}
  Name = {a, b}
  MboxOf <- MCMboxOf
SPECIFICATION Spec
INVARIANT DeliveredWhole
