SPECIFICATION Spec
CONSTANTS
  c1 = c1
  c2 = c2
  m1 = m1
  m2 = m2
  m3 = m3
  NoCpu = NoCpu
  NoMap = NoMap
  Cpus = {c1, c2}
  Maps = {m1, m2, m3}
  Clashing = {m3}
  Closes = TRUE
  Retires = TRUE
  Patient = FALSE
SYMMETRY Symmetry
INVARIANTS AckedMeansGone Announced
PROPERTY RecordedReclaim
