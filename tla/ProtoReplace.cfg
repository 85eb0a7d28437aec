SPECIFICATION Spec
CONSTANTS
  Files <- MCFiles
  Generated <- MCGenerated
  Server <- Ws
  MaxRuns = 3
INVARIANTS WholeOrKept CleanRunReplaces
CHECK_DEADLOCK FALSE
