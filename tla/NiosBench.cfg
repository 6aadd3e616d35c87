CONSTANTS
  a = a
  b = b
  c = c
  d = d
  Word = {zero, one, ones, a, b, c, d}
  Zero = zero
  One = one
  AllOnes = ones
  Odd = {one, ones}
  Garbage = garbage
  Outcome <- MCOutcome
  Decrypt <- MCDecrypt
  Inputs <- MCInputs
  Modes = {"bench"}
  BenchCalls = 3
  Consoles = {TRUE}
  MaxJobs = 1
  MaxRestarts = 0

SPECIFICATION FairSysSpec

PROPERTY DecryptRunsHardware
