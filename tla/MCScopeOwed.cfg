SPECIFICATION Spec
CONSTANTS
  d1 = d1
  Nobody = Nobody
  d2 = d2
  r1 = r1
  r2 = r2
  NSlots = 2
  MaxDepth = 2
  Domains = {d1, d2}
  Records = {r1, r2}
  MaxGen = 1
PROPERTY OwesNothing
CHECK_DEADLOCK FALSE
