\* A controller and a router with BFD, one VRF; a default route, an aggregate
\* and a floating IP; two session states below ESTABLISHED.
CONSTANTS
  tfc = tfc  router = router  blue = blue
  Peers = {tfc, router}
  PhyNet = {router}
  BFDPeers = {router}
  VRFs = {blue}
  Masks = {0, 24, 32}
  Reported = {"IDLE", "ESTABLISHED"}
SPECIFICATION PeeringSpec
INVARIANTS
  ActiveCountExact
  OneMonitorPerPeer
  PeersGoneAtExit
PROPERTIES
  ExportsFiltered
  SignalStopsApp
  VPPLossStopsApp
\* The program ends.
CHECK_DEADLOCK FALSE
