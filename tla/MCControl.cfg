\* Three processors and four tickets: the counters wrap while every processor is
\* in line, the tightest case TicketModAssumption allows.  Three entries of the
\* scope table, so that scopes nest and the third creation reuses one.
SPECIFICATION ControlSpec
CONSTANTS
  NCpu = 3
  TicketMod = 4
  d1 = d1
  Nobody = Nobody
  r1 = r1
  NSlots = 3
  MaxDepth = 3
  Domains = {d1}
  Records = {r1}
  MaxGen = 2
INVARIANTS Exclusion QuietBelow
PROPERTIES WriterServed Implements Forward
CHECK_DEADLOCK FALSE
