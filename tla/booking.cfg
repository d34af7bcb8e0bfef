CONSTANTS
  Nil = Nil
  b1 = b1  b2 = b2  p1 = p1  p2 = p2  s1 = s1  s2 = s2
  Bookers = {b1, b2}
  Replacers = {p1, p2}
  Slots = {s1, s2}
  SlotOf <- TwoTimes
  Keep = {b1, b2}
  Google = TRUE
  Prompt = TRUE
  MaxUpsets = 2
\* Every request may have been answered.
CHECK_DEADLOCK FALSE
SPECIFICATION Spec
SYMMETRY Retries
VIEW InUse
INVARIANTS OneEventPerSlot BookedIsWritten AnswerIsTrue
PROPERTY NewFirst
