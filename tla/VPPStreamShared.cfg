\* Both callbacks, no timeout: the type assertions.
CONSTANTS
  tf = tf  phynet = phynet  metrics = metrics
  Callers = {tf, phynet}
  CallsOf <- MCCalls
  Dumps <- MCDumps
  Ping = "control_ping"
  NoCall = NoCall
  Timeouts = FALSE
  MaxRows = 1
  MaxCalls = 3
SPECIFICATION Spec
INVARIANT AssertionsHold
CHECK_DEADLOCK FALSE
