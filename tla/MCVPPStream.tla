---------------------------- MODULE MCVPPStream -----------------------------
(***************************************************************************)
(* VPPStream for TLC: the calls of the callback for Tungsten Fabric, of    *)
(* the callback for the physical network and of the metrics.               *)
(***************************************************************************)
EXTENDS VPPStream, TLC

CONSTANTS tf, phynet, metrics

MCDumps == {"udp_encap_dump", "ip_route_dump"}
MCCalls ==
  (tf :> {"udp_encap_add", "ip_route_add_del"}) @@ (phynet :> {"ip_route_add_del"})
    @@ (metrics :> MCDumps)
=============================================================================
