CONSTANTS
  Inputs <- MCInputs
  Doubling <- Double
  RoundConstants <- RconWire

SPECIFICATION TestSpec

INVARIANT SchedulesAgree
