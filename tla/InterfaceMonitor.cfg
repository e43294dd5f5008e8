\* The limit of the code and two BGP peers.
CONSTANTS
  p1 = p1  p2 = p2
  Peers = {p1, p2}
  MaxFailCount = 10
SPECIFICATION Spec
INVARIANTS
  StopsOnlyWhenDead
PROPERTY DeadInterfaceStopsApp
