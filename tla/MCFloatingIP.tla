---------------------------- MODULE MCFloatingIP ----------------------------
(***************************************************************************)
(* Instances of FloatingIP for TLC.                                        *)
(***************************************************************************)
EXTENDS FloatingIP

CONSTANTS f1, f2, f3, f4, x, v1, v2, n1, n2, t1, t2, t3

\* One VRF.
MCHome1 == [h \in Hosts |-> [n \in NHs |-> VRFs]]

\* Two VRFs, every floating IP in one of them; the first has three of them:
\* the third one crosses the "> 2" of AddFIPAndTunnelInVPPAndStorage.
MCHome2 == [h \in Hosts |-> [n \in NHs |-> IF h = f4 THEN {v2} ELSE {v1}]]

\* vRouters are interchangeable, and so are tunnel ids.
Symm == Permutations(NHs) \cup Permutations(TunIds)
=============================================================================
