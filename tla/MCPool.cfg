CONSTANTS
  Thread = {t1, t2, t3, t4}
  Thing = {x1, x2, x3}
  Max = 2
  MaxSpare = 1
  Stock = 1
  NoThing = NoThing
  MaxLost = 2
SPECIFICATION FairSpec
INVARIANTS TypeOK WokenFinds AtMostMax Exclusive
PROPERTY ServedWithSpares
