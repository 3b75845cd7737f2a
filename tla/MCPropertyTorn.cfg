SPECIFICATION Spec
CONSTANTS
  q1 = q1
  r1 = r1
  q2 = q2
  c1 = c1
  c2 = c2
  t1 = t1
  t2 = t2
  Thread = {t1, t2}
  NoThread = NoThread
  Prop = {q1, r1, q2}
  Writeable = {r1}
  Cell = {c1, c2}
  CellOf <- MCCellOf
  NoCell = NoCell
  v0 = v0
  v1 = v1
  Value = {v0, v1}
  Valid = {v1}
  First = v0
  Torn = Torn
  Quiet = FALSE
INVARIANTS WholeValues
