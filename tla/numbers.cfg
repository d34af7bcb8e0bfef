CONSTANTS
  Nil = Nil  Home = Home
  n1 = n1  n2 = n2
  sweep = sweep  purge = purge  s1 = s1  p1 = p1
  Numbers = {n1, n2}
  First = n1
  Sweeps = {sweep}
  Admins = {}
  Purges = {purge}
  Signups = {s1}
  Reprovisions = {p1}
  MaxFaults = 1
\* The tenant may have been dropped.
CHECK_DEADLOCK FALSE
SPECIFICATION FairSpec
INVARIANTS VapiFirst
PROPERTIES BooksFollowTwilio Reclaimed
