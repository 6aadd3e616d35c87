SPECIFICATION SupportSpec
CONSTANTS
  HeapStart = 2
  HeapLimit = 17
  Increments = {1, 4, 6}
  ALT_MAX_FD = 5
  U32 = 128
  ALT_US = 6
  tick_rate = 3
  MaxTicks = 63
  MaxSec = 3
  SleepU32 = 256
  CyclesPerUs = 50
  cycles_per_loop = 3
  Line = 2
  Sets = 2
  Top = 8
  Lengths = {1, 2, 3}
  DropsAnywhere = FALSE
  OSC_CNT = 2
  CNT_WIDTH = 2
  Undriven = {0, 3}
  MaxFalls = 5
CHECK_DEADLOCK FALSE
INVARIANT SupportTypeOK
INVARIANT HeapSound
INVARIANT TimeKept
INVARIANT MemoryCurrent
INVARIANT AddressesAgree
INVARIANT CountsExact
PROPERTY DescriptorsSound
