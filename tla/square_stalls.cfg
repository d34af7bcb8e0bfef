CONSTANTS
  Nil = Nil
  m1 = m1  m2 = m2  w1 = w1  w2 = w2  s1 = s1  s2 = s2
  Movers = {m1}
  Workers = {w1}
  Slots = {s1, s2}
  SlotOf <- SameSlot
  Prompt = FALSE
  MaxEdits = 1
  MaxCancels = 1
  MaxCrashes = 0
\* Every request may have been answered, with nothing left to recover.
CHECK_DEADLOCK FALSE
SPECIFICATION Spec
PROPERTY Implements
