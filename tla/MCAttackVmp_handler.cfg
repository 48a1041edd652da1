SPECIFICATION Spec
CONSTANTS
  Loc <- LocOne
  Val <- Bits
  Rdi <- RdiOne
  Rsi <- RsiOne
  Gpr <- GprOne
  RetBytes <- EaxOne
  Cf = "cf"
  Af = "af"
  Zero = "zero"
  Programs <- HandlerTwice
  Entries <- EntriesOne
  Argvs <- LoopCommand
  NoFlag = "none"
  Interrupted = FALSE
INVARIANTS MergeCorrect
