\* Two peers on a working network.
CONSTANTS
  p1 = p1  p2 = p2
  Peers = {p1, p2}
  Events = {}
SPECIFICATION Spec
PROPERTIES SilenceStopsApp
CHECK_DEADLOCK FALSE
