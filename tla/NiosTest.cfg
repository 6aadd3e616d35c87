CONSTANTS
  a = a
  b = b
  c = c
  d = d
  Word = {zero, one, ones, a, b, c, d}
  Zero = zero
  One = one
  AllOnes = ones
  Odd = {one, ones}
  Garbage = garbage
  Outcome <- MCOutcome
  Decrypt <- MCDecrypt
  Inputs <- MCInputs
  Modes = {"test", "bench"}
  BenchCalls = 2
  Consoles = {TRUE, FALSE}
  MaxJobs = 2
  MaxRestarts = 1

SPECIFICATION MCSpec

INVARIANT SysTypeOK
INVARIANT AnswerCorrect
PROPERTY DecryptRunsHardware
PROPERTY DecryptReturns
