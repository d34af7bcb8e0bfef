CONSTANTS
  Nil = Nil  Old = Old
  q1 = q1  q2 = q2  q3 = q3  s1 = s1  s2 = s2  s3 = s3
  Requests = {q1, q2, q3}
  Sids = {s1, s2, s3}
  Kinds = {"address", "end_user", "document", "bundle", "filed", "filed_before"}
  MaxFaults = 2
  MaxVanished = 2
\* Every request may have been answered.
CHECK_DEADLOCK FALSE
SYMMETRY Alike
SPECIFICATION Spec
INVARIANTS OneIdentity NoDuplicate NoScopeIsPoisoned
PROPERTIES RetiredIsGone WinnerIsKept
