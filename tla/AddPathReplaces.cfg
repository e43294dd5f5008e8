\* One VRF, one floating IP, two vRouters; VPP answers every call.
CONSTANTS
  f1 = f1  f2 = f2  f3 = f3  f4 = f4  x = x
  v1 = v1  v2 = v2  n1 = n1  n2 = n2  t1 = t1  t2 = t2  t3 = t3
  VRFs = {v1}
  Hosts = {f1}
  FIPs = {f1}
  NHs = {n1, n2}
  Labels = {1, 2}
  TunIds = {t1, t2}
  UndefinedTunnelID = UndefinedTunnelID
  NoRoute = NoRoute
  NoTunnel = NoTunnel
  Home <- MCHome1
  Faults = {}
SYMMETRY Symm
SPECIFICATION Spec
INVARIANT AddPathReplaces
