SPECIFICATION Spec
CONSTANTS
  Null = Null
  FIFO_DEPTH = 2
  THRESHOLD = 1
  Period = 4
  HostSends = TRUE
  MaxCount = 4
  UserAlarm = {a1, a2, a3}
  Wrap = 4
  MaxDelay = 2
  StopsOthers = FALSE
  ListHead = ListHead
  Source = {0, 2}
  Isr = {i1, i2}
  clock_irq = clock_irq
  Function = {f, g}
  Site = {s, t}
  MaxCalls = 2
CHECK_DEADLOCK FALSE
INVARIANT RuntimeTypeOK
INVARIANT AlarmsOnTime
INVARIANT InterruptsSafe
INVARIANT Recorded
PROPERTY Streams
PROPERTY CallsReturn
PROPERTY NothingForgotten
