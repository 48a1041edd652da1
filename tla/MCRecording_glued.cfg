SPECIFICATION RecSpec
CONSTANTS
  Programs <- VmOnly
  Threads = {t1}
  Started <- AllStarted
  KnobStart = 2
  KnobEnd = 4
  LibBase = 10
  MaxLog = 12
  Noises = {"glued"}
  MaxNoise = 1
INVARIANT AlwaysKept
