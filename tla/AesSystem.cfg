CONSTANTS
  Word = {zero, ones, w}
  Zero = zero
  AllOnes = ones
  Odd = {ones}
  Unknown = unknown
  Other = w
  MaxEvents = 4
  MaxResets = 1

SPECIFICATION MCSpec

INVARIANT PublishedCorrect
PROPERTY NoResultLost
PROPERTY StartGoverns
PROPERTY ImplementsRegisters
