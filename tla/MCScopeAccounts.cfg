SPECIFICATION Spec
CONSTANTS
  root = root
  service = service
  client = client
  r1 = r1
  r2 = r2
  r3 = r3
  Scopes <- MCScopes
  Path <- MCPath
  Reservations <- MCReservations
  MaxAmount <- MCMaxAmount
  NCpu <- MCNCpu
  Ceilings <- MCCeilings
  Limit0 <- MCLimit0
SYMMETRY Symmetry
INVARIANT Settled
PROPERTY Implements
