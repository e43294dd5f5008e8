\* Intervals on both sides of Slow, a product that does not fit.
CONSTANTS
  TxIntervals = {1, 4, 5}
  RxIntervals = {1, 3}
  Slow = 4
  PeerRx = {1, 2, 4, 6}
  PeerTx = {1, 2, 4, 6}
  Mults = {1, 3}
  Word = 16
  None = None
SPECIFICATION Spec
INVARIANTS DetectTimeRight TxRespectsPeer RestartOnlyIfLowered
