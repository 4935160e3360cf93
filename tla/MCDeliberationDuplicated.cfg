SPECIFICATION Spec
CONSTANTS
  Deliberations = {d1}
  Clients = {c1, c2}
  NoClient = nobody
  Keys = {k1, k2}
  Workers = {w1}
  MaxContributions = 3
SYMMETRY WorkerAndClientSymmetry
CHECK_DEADLOCK FALSE
INVARIANT VerifiedNotDuplicated
