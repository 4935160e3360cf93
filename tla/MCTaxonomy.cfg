SPECIFICATION Spec
CONSTANTS
  Names = {n1, n2, n3}
  NoName = noname
  Actors = {a1, a2}
  Nobody = nobody
  LegacyUses = {"is_a"}
  Workers = {w1, w2}
  MaxEdges = 3
  MaxEdgesThreaded = 2
SYMMETRY NameActorWorkerSymmetry
CHECK_DEADLOCK FALSE
INVARIANTS
  TypeOK
  AcyclicInOrder
  PlacedExactly
  PeersConverge
PROPERTIES
  NamesKept
  TombstonesStay
