SPECIFICATION JournalSpec
CONSTANTS
  None = None
  h1 = h1
  h2 = h2
  h3 = h3
  w1 = w1
  Keys = {k1}
  Requests = {q1, q2}
  Responses = {r1, r2}
  Handlers <- MCHandlers
  Workers <- MCWorkers
  WorkerOf <- MCWorkerOf
  MaxGeneration = 2
INVARIANTS
  JournalTypeOK
  SingleOwner
  DecisionIsCurrent
PROPERTIES
  AgreedOutcome
