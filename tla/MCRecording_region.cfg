SPECIFICATION RecSpec
CONSTANTS
  Programs <- VmOnly
  Threads = {t1}
  Started <- AllStarted
  KnobStart = 2
  KnobEnd = 4
  LibBase = 10
  MaxLog = 20
  Noises = {"line", "glued", "broken"}
  MaxNoise = 1
INVARIANTS ReplayFaithful NothingMissing Resynchronized RegistersKept
PROPERTIES ExactTrace Replayed
