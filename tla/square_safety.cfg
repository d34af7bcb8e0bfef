CONSTANTS
  Nil = Nil
  m1 = m1  m2 = m2  w1 = w1  w2 = w2  s1 = s1  s2 = s2
  Movers = {m1, m2}
  Workers = {w1}
  Slots = {s1, s2}
  SlotOf <- SameSlot
  Prompt = TRUE
  MaxEdits = 1
  MaxCancels = 1
  MaxCrashes = 1
\* Every request may have been answered, with nothing left to recover.
CHECK_DEADLOCK FALSE
SPECIFICATION Spec
SYMMETRY MoversAlike
INVARIANTS BookedOnce AnswerIsTrue
PROPERTY SourceDroppedByOwner
