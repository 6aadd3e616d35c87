CONSTANTS
  Key = {k1, k2}
  Msg = {m1, m2}
  Unknown = unknown
  MaxChanges = 2
  MaxControls = 5
  SomeKey = k1
  SomeMsg = m1

SPECIFICATION MCSpec

INVARIANT Inv
INVARIANT ResultCorrect
INVARIANT RunsWholeSchedule
INVARIANT NoTornColumns
PROPERTY RunsOnTime
PROPERTY ImplementsDevice
