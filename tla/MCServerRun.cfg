SPECIFICATION FairSpec
CONSTANTS
  t1 = t1
  t2 = t2
  t3 = t3
  Thread = {t1, t2, t3}
  NoThread = NoThread
  NoLoop = NoLoop
INVARIANTS TypeOK NameLossStops
PROPERTIES RunsUnderControl NameLossEndsRun WaitsForRun StoppedReturns
