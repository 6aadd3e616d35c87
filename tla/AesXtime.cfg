CONSTANTS
  Inputs <- MCInputs
  Doubling <- xtime
  RoundConstants <- RconListed

SPECIFICATION TestSpec

INVARIANT InvMixColumnsInverts
