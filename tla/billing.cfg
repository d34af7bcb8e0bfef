CONSTANTS
  Nil = Nil
  j1 = j1  j2 = j2  s1 = s1  s2 = s2  s3 = s3  p1 = p1  p2 = p2
  Jobs = {j1, j2}
  Subs = {s1, s2, s3}
  Plans = {p1, p2}
  Kinds = {"comp", "manual", "new", "trial"}
  MaxWindows = 1
  MaxChanges = 1
  MaxFaults = 1
\* Every request and every webhook may have been answered.
CHECK_DEADLOCK FALSE
SYMMETRY Alike
CONSTRAINT Separately
SPECIFICATION Spec
INVARIANTS OneLive UnpaidIsCut PaidIsFinished
PROPERTY CompEndsPaid
