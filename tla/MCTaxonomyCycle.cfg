SPECIFICATION Spec
CONSTANTS
  Names = {n1, n2}
  NoName = noname
  Actors = {a1}
  Nobody = nobody
  LegacyUses = {"is_a"}
  Workers = {w1, w2}
  MaxEdges = 2
  MaxEdgesThreaded = 2
CHECK_DEADLOCK FALSE
INVARIANT Acyclic
