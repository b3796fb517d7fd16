SPECIFICATION Safety
CONSTANTS
  p1 = p1
  p2 = p2
  w1 = w1
  w2 = w2
  t1 = t1
  m1 = m1
  zero = zero
  Process = {p1}
  Worker = {w1, w2}
  Text = {t1}
  Model = {m1}
  Zero = zero
  FaultyDisk = FALSE
INVARIANT
  Reproducible
