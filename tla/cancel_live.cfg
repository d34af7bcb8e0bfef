CONSTANTS
  Nil = Nil
  c1 = c1  c2 = c2  f1 = f1  f2 = f2  w1 = w1  w2 = w2  r1 = r1  r2 = r2
  Callers = {c1}
  Refunds = {f1}
  Workers = {w1}
  Refs = {r1, r2}
  RefOf <- OwnRefs
  MAX_ATTEMPTS = 2
  MaxMoves = 1
  MaxCrashes = 1
\* Every request may have ended, with nothing queued or left to recover.
CHECK_DEADLOCK FALSE
SPECIFICATION FairSpec
PROPERTIES ReconcileSettles IntentsEnd
