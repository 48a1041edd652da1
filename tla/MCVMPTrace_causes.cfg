SPECIFICATION Spec
CONSTANTS
  Programs <- CausePrograms
  Threads = {t1, t2}
  Started <- CauseThreads
  KnobStart = 2
  KnobEnd = 3
  LibBase = 9
  MaxLog = 8
INVARIANTS TypeOK MissedExplained StrayExplained
