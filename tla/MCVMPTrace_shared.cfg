SPECIFICATION Spec
CONSTANTS
  Programs <- SharedVm
  Threads = {t1}
  Started <- AllStarted
  KnobStart = 2
  KnobEnd = 4
  LibBase = 10
  MaxLog = 20
INVARIANT NothingOutside
