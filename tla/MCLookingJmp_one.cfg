SPECIFICATION LookSpec
CONSTANTS
  Loc <- LocOne
  Val <- Bits
  Rdi <- RdiOne
  Rsi <- RsiOne
  Gpr <- GprOne
  RetBytes <- EaxOne
  Cf = "cf"
  Af = "af"
  Zero = "zero"
  Programs <- AllPrograms
  Entries <- EntriesOne
  Argvs <- LookCommands
  NoFlag = "none"
  Interrupted = TRUE
INVARIANTS TypeOK SyncedBeforeExec FirstRunCoherent PathFaithful ResultFaithful
PROPERTIES ReportsAreReal MissesAreExplained FirstReplay
