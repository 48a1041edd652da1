SPECIFICATION Spec
CONSTANTS
  Loc <- LocOne
  Val <- Bits
  Rdi <- RdiOne
  Rsi <- RsiOne
  Gpr <- GprOne
  RetBytes <- EaxOne
  Cf = "cf"
  Af = "af"
  Zero = "zero"
  Programs <- Branches
  Entries <- EntriesOne
  Argvs <- TwoTraces
  NoFlag = "none"
  Interrupted = TRUE
INVARIANTS MergedExact MergeCorrect WorkflowAnswered PathFaithful
