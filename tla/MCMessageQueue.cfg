CONSTANTS
  Producer = {p1, p2}
  Consumer = {c1, c2}
  Kind = {k1, k2}
  None = None
  MaxSent = 2
SPECIFICATION FairSpec
INVARIANTS FindItValid NoLostWakeup ExactlyOnce
PROPERTIES Linearizable CallsReturn
