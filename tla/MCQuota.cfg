\* Two open transactions over two reservations and two workspaces of one or
\* two GPUs: the limit is reached from either side.
SPECIFICATION Spec
CONSTANTS
    c1 = c1
    c2 = c2
    r1 = r1
    r2 = r2
    x1 = x1
    x2 = x2
    Clients <- MCClients
    NoClient = NoClient
    NoHolder = NoHolder
    Reservations <- MCReservations
    Workspaces <- MCWorkspaces
    MaxAmount = 2
    Limits = {1, 2, 4}
SYMMETRY Symmetry
INVARIANTS
    Accounting
PROPERTIES
    AllocationKept
