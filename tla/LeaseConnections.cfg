SPECIFICATION FairSpec
CONSTANTS
  r1 = r1  r2 = r2  h1 = h1  h2 = h2  rec = rec  x1 = x1  x2 = x2
  Replicas = {r1, r2}
  Coordinators = {h1, h2}
  Reconcilers = {}
  Home <- MCHome
  Keys = {k1}
  Conns = {x1}
  MaxTickets = 2
  MaxConnectionsPerLease = 1
INVARIANT ReconnectReplyMatchesTicket
PROPERTY StaleConnectionCloses
CHECK_DEADLOCK FALSE
