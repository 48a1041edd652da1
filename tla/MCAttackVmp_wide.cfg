SPECIFICATION FairSpec
CONSTANTS
  Loc <- LocTwo
  Val <- Bits
  Rdi <- RdiTwo
  Rsi <- RsiTwo
  Gpr <- GprTwo
  RetBytes <- EaxTwo
  Cf = "cf"
  Af = "af"
  Zero = "zero"
  Programs <- WidePrograms
  Entries <- EntriesTwo
  Argvs <- WideCommands
  NoFlag = "none"
  Interrupted = FALSE
INVARIANTS SyncedBeforeExec PathFaithful RefusalJustified
PROPERTY Terminates
