CONSTANTS
  Nil = Nil
  m1 = m1  m2 = m2  w1 = w1  w2 = w2  s1 = s1  s2 = s2
  Movers = {m1}
  Workers = {w1}
  Slots = {s1, s2}
  SlotOf <- SameSlot
  Prompt = TRUE
  MaxEdits = 1
  MaxCancels = 1
  MaxCrashes = 2
\* Every request may have been answered, with nothing left to recover.
CHECK_DEADLOCK FALSE
SPECIFICATION FairSpec
PROPERTY Resolved
