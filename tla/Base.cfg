CONSTANTS
  l1 = l1  l2 = l2
  g1 = g1  g2 = g2  g3 = g3
  t1 = t1  t2 = t2
  Logger = {l1, l2}
  Log = {g1, g2, g3}
  Throwing = {g3}
  Reentrant = {g3}
  Level = {1, 2}
  MaxStarts = 1
  MaxAdditions = 3
  MaxMessages = 1
  User = {1, 2}
  initialSize = 2
  MaxHeld = 2
  Task = {t1, t2}
SPECIFICATION Spec
INVARIANTS SameOrder Pool
PROPERTIES LoggingReturns InterruptHeeded DestructionEnds
CHECK_DEADLOCK FALSE
