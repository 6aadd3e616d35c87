CONSTANTS
  Inputs <- MCInputs
  Doubling <- Double
  RoundConstants <- RconListed

SPECIFICATION TestSpec

INVARIANT ScheduleCorrect
INVARIANT EncryptsCorrectly
INVARIANT DatapathInverts
INVARIANT SchedulesAgree
