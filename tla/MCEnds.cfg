SPECIFICATION EndsSpec
CONSTANTS
  c1 = c1
  c2 = c2
  m1 = m1
  m2 = m2
  NoCpu = NoCpu
  NoMap = NoMap
  Cpus = {c1, c2}
  Maps = {m1, m2}
  Clashing = {}
  Closes = FALSE
  Retires = FALSE
  Patient = TRUE
  d1 = d1
  d2 = d2
  r1 = r1
  Nobody = Nobody
  Domains = {d1, d2}
  Records = {r1}
PROPERTIES ShootdownEnds DrainCompletes
CHECK_DEADLOCK FALSE
