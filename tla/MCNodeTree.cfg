SPECIFICATION FairSpec
CONSTANTS
  n1 = n1
  n2 = n2
  n3 = n3
  Node = {n1, n2, n3}
  t1 = t1
  t2 = t2
  Thread = {t1, t2}
  a = a
  b = b
  Name = {a, b}
  NoNode = NoNode
  NoThread = NoThread
CHECK_DEADLOCK FALSE
INVARIANTS TypeOK LinksAgree PathLocal ExportsTracked
PROPERTIES LockReleased NearerToRelease
