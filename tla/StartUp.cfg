\* Two configurations, n2 a host prefix, three dumped routes too many for
\* NPaths, a one- and a two-byte tunnel id, two failures.
CONSTANTS
  f1 = f1  f2 = f2  n1 = n1  n2 = n2
  Configs <- MCConfigs
  LocalIP <- MCLocalIP
  FIPVRF <- MCFIPVRF
  FIPs = {f1, f2}
  Nets = {n1, n2}
  HostNets = {n2}
  TunIds = {0, 256}
  StrictDelete = TRUE
  SubIfIds = {7, 8}
  UndefinedSubIf = 0
  ByteRange = 3
  MaxPaths = 2
  MaxCrashes = 2
SPECIFICATION Spec
INVARIANTS ClearedIsEmpty ReadyIsConfigured LabelsReachTheirVRF OldRoutesGone
PROPERTY StartUpEnds
CHECK_DEADLOCK FALSE
