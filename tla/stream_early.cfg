SPECIFICATION StreamSpec
CONSTANTS
  BootstrapRetries = 1
  MaxFrames = 3
CHECK_DEADLOCK FALSE
INVARIANT EarlyErrorIsReported
