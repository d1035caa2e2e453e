CONSTANTS
  Thread = {t1, t2, t3, t4}
  Thing = {x1, x2, x3}
  Max = 2
  MaxSpare = 0
  Stock = 0
  NoThing = NoThing
  MaxLost = 0
SPECIFICATION FairSpec
PROPERTY Served
