SPECIFICATION Spec
CONSTANTS
  r1 = r1  r2 = r2  h1 = h1  h2 = h2  rec = rec  x1 = x1  x2 = x2
  Replicas = {r1, r2}
  Coordinators = {h1}
  Reconcilers = {rec}
  Home <- MCHome
  Keys = {k1}
  Conns = {x1, x2}
  MaxTickets = 2
  MaxConnectionsPerLease = 1
SYMMETRY Symmetry
INVARIANTS TypeOK RevokedAccessStaysClosed SoleBearer
PROPERTY ImplementsLeaseLife
CHECK_DEADLOCK FALSE
