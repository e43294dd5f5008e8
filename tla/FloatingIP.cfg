\* Two VRFs, one with three floating IPs and an internal prefix; VPP may refuse all but the
\* removal of a route.
CONSTANTS
  f1 = f1  f2 = f2  f3 = f3  f4 = f4  x = x
  v1 = v1  v2 = v2  n1 = n1  n2 = n2  t1 = t1  t2 = t2  t3 = t3
  VRFs = {v1, v2}
  Hosts = {f1, f2, f3, f4, x}
  FIPs = {f1, f2, f3, f4}
  NHs = {n1, n2}
  Labels = {0, 1}
  TunIds = {t1, t2, t3}
  UndefinedTunnelID = UndefinedTunnelID
  NoRoute = NoRoute
  NoTunnel = NoTunnel
  Home <- MCHome2
  Faults = {"addTunnel", "addRoute", "delTunnel"}
SYMMETRY Symm
SPECIFICATION Spec
INVARIANTS
  DistinctNextHops
  TunnelRefCount
  VRFRefCount
  StoredIsInstalled
  AdvertisedIffServed
  NothingLeftBehind
  NoDanglingPath
PROPERTIES
  ImplementsFIPTable
