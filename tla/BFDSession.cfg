\* One peer; everything may happen.
CONSTANTS
  p1 = p1  p2 = p2
  Peers = {p1}
  Events = {"writeError", "lowerInterval", "dialError", "badPacket", "peerDown", "stop"}
SPECIFICATION Spec
INVARIANTS
  StopsOnlyAfterUp
PROPERTIES
  DoneForcesExit
  ShutdownCompletes
  ConnectionHeals
  DetectionStopsApp
  FalseAlarmOnlyInWindow
  PanicsOnlyUnconnected
CHECK_DEADLOCK FALSE
