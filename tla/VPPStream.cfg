\* Both callbacks and the metrics, late replies.
CONSTANTS
  tf = tf  phynet = phynet  metrics = metrics
  Callers = {tf, phynet, metrics}
  CallsOf <- MCCalls
  Dumps <- MCDumps
  Ping = "control_ping"
  NoCall = NoCall
  Timeouts = TRUE
  MaxRows = 2
  MaxCalls = 4
SPECIFICATION Spec
INVARIANTS RepliesBalance OnlySharingMixes
PROPERTY CallsReturn
CHECK_DEADLOCK FALSE
