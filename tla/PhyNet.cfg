\* Two routers, one with the gateway's own ASN; b is a host prefix; two dumped
\* routes and the default route are too many for NPaths; VPP may refuse every call.
CONSTANTS
  v1 = v1  v2 = v2  r1 = r1  r2 = r2  gw = gw  a = a  b = b  c = c
  VRFs = {v1, v2}
  Default = Default
  Routers = {r1, r2}
  NextHop <- MCNextHop
  OwnASN = {r2}
  Prefixes = {a, b, c}
  HostPrefixes = {b}
  ByteRange = 3
  Faults = {"addRoute", "delRoute"}
  MaxChanges = 5
  MaxCrashes = 1
SPECIFICATION Spec
INVARIANTS
  InSync
PROPERTY Converges
CHECK_DEADLOCK FALSE
