SPECIFICATION Spec
CONSTANTS
    c1 = c1
    c2 = c2
    Server = Server
    Nobody = Nobody
    i1 = i1
    i2 = i2
    Clients = {c1, c2}
    Servers = {1, 2}
    Invs = {i1, i2}
    Capacity = 1
    MaxAdmissions = 2
    MaxEnds = 1
    Timed = {c1, c2, 2}
    Workers = {1}
    Crossing = FALSE
    SharedTickets = FALSE
    Overtaken = FALSE
SYMMETRY Symmetry
CHECK_DEADLOCK FALSE
INVARIANTS
    OneAnswer
    RecordsAgree
    ReceiverReached
    AccountsMatch
