CONSTANTS
  Nil = Nil
  m1 = m1  m2 = m2  c1 = c1  w1 = w1  w2 = w2
  r1 = r1  r2 = r2  t0 = t0  t1 = t1  t2 = t2
  Movers = {m1, m2}
  Cancellers = {c1}
  Workers = {w1}
  Refs = {r1, r2}
  RefOf <- TwoCalls
  Times = {t0, t1, t2}
  Start = t0
  Prompt = TRUE
  MaxEdits = 0
  MaxCrashes = 1
\* Every request may have been answered, with nothing left to recover.
CHECK_DEADLOCK FALSE
SPECIFICATION Spec
INVARIANTS LiveOpOwned UnownedAgrees AnswerIsTrue
PROPERTIES RowMovesAsAgreed RowWrittenByOwner OutcomeIsFinal
