SPECIFICATION Spec
CONSTANTS
  Programs <- NativeLoop
  Threads = {t1}
  Started <- AllStarted
  KnobStart = 2
  KnobEnd = 5
  LibBase = 6
  MaxLog = 12
INVARIANT RegionLogged
