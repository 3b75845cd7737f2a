SPECIFICATION Spec
CONSTANTS
  n1 = n1
  n2 = n2
  n3 = n3
  x1 = x1
  x2 = x2
  x3 = x3
  p1 = p1
  p2 = p2
  i1 = i1
  i2 = i2
  t1 = t1
  t2 = t2
  Thread = {t1, t2}
  Node <- MCNode
  Path <- MCPath
  PathOf <- MCPathOf
  Iface <- MCIface
  IfName <- MCIfName
  NameOf <- MCNameOf
  NoNode = NoNode
  NoIface = NoIface
SYMMETRY Symmetry
CHECK_DEADLOCK FALSE
INVARIANTS TypeOK Answered Published OwnerAgrees
PROPERTIES WithdrawnAtEnd
