SPECIFICATION ManagedSpec
CONSTANTS
  Thread = {t1, t2}
  Path = {p1, p2}
  Object = {a1, a2}
  NoPath = NoPath
  NoObject = NoObject
SYMMETRY Symmetry
INVARIANTS ManagedUnique
