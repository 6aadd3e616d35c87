SPECIFICATION MCSpec
CONSTANTS
  FIFO_DEPTH = 2
  THRESHOLD = 1
  Period = 6
  HostSends = TRUE
  BUF_LEN = 3
  DEFAULT_TIMEOUT = 2
  INT_MAX = 5
  MaxCount = 3
  Calls = {"write", "read", "close", "ioctl"}
  Timeouts = {3}
  MaxSent = 2
INVARIANT TypeOK
INVARIANT NeitherAsleep
PROPERTY Streams
PROPERTY CallsReturn
PROPERTY Delivered
