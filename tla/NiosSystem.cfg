CONSTANTS
  x = x
  y = y
  Word = {zero, one, ones, x, y}
  Zero = zero
  One = one
  AllOnes = ones
  Odd = {one, ones}
  Unknown = unknown
  Inputs <- MCInputs
  Modes = {"test"}
  BenchCalls = 1
  Consoles = {TRUE}
  MaxJobs = 2
  MaxRestarts = 1

SPECIFICATION MCSpec

INVARIANT CallsOutlastRuns
PROPERTY DecryptReturns
PROPERTY ImplementsProgram
