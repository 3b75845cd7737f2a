SPECIFICATION Spec
CONSTANTS
  n1 = n1
  n2 = n2
  n3 = n3
  Node = {n1, n2, n3}
  t1 = t1
  t2 = t2
  Thread = {t1, t2}
  a = a
  Name = {a}
  NoNode = NoNode
  NoThread = NoThread
CHECK_DEADLOCK FALSE
INVARIANTS OrphanNotExpired
