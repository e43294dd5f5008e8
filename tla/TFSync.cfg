\* Two floating IPs, two vRouters, three changes, one crash; VPP may refuse to remove a route.
CONSTANTS
  f1 = f1  f2 = f2  v1 = v1  n1 = n1  n2 = n2  r1 = r1  r2 = r2  t1 = t1  t2 = t2
  VRFs = {v1}
  Hosts = {f1, f2}
  FIPs = {f1, f2}
  NHs = {n1, n2}
  Labels = {1, 2}
  TunIds = {t1, t2}
  UndefinedTunnelID = UndefinedTunnelID
  NoRoute = NoRoute
  NoTunnel = NoTunnel
  NoPath = NoPath
  Home <- MCHome
  Faults = {"delRoute"}
  RDs = {r1, r2}
  VRouterOf <- MCVRouterOf
  MaxChanges = 3
  MaxCrashes = 1
SPECIFICATION SyncSpec
INVARIANTS
  CaughtUp
PROPERTIES
  Converges
  ImplementsFIPTable
CHECK_DEADLOCK FALSE
