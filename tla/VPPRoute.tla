------------------------------ MODULE VPPRoute ------------------------------
(***************************************************************************)
(* The paths of a floating IP route (internal/model/vpp_route.go).         *)
(*                                                                         *)
(* VPPIPRoute keeps three slices of equal length, NextHops, TunnelIDs and  *)
(* FIPMPLSLabels, indexed together.  Here they are one sequence of records *)
(* [nh, tun, label], in slice order: the order decides whether AddPath     *)
(* survives.  The next-hops of a route are pairwise distinct, which        *)
(* FloatingIP!DistinctNextHops checks and FloatingIP_proofs proves, so     *)
(* "the" path via a next-hop is well defined.                              *)
(*                                                                         *)
(* A definition marked "mutant", here and in the other modules, is used by *)
(* no specification: it is the definition that follows it with a plausible *)
(* bug, which the run named in PROJECT.json has to notice.                 *)
(***************************************************************************)
EXTENDS Naturals, Sequences, SequencesExt

\* The slice NextHops of a route, as a set.
NextHops(paths) == {paths[i].nh : i \in DOMAIN paths}

\* No two paths of a route go to the same next-hop.
Distinct(paths) ==
  \A i, j \in DOMAIN paths : paths[i].nh = paths[j].nh => i = j

\* Position of the path via next-hop nh.
PathIndex(paths, nh) == CHOOSE i \in DOMAIN paths : paths[i].nh = nh

\* The comparison loop of IsFIPWithNHAndLabelExist.
HasPathAnyLabel(paths, nh, label) == nh \in NextHops(paths)   \* mutant

HasPath(paths, nh, label) ==
  \E i \in DOMAIN paths : paths[i].nh = nh /\ paths[i].label = label

\* DelPath: the path via nh is cut out of the three slices, the rest keep
\* their order; a next-hop the route does not have changes nothing.
DelPathKeeps(paths, nh) == paths                              \* mutant

DelPath(paths, nh) ==
  IF nh \in NextHops(paths) THEN RemoveAt(paths, PathIndex(paths, nh)) ELSE paths

(***************************************************************************)
(* AddPath.  Label 0 is refused silently (the guards on an empty next-hop  *)
(* and on tunnel id 0 never fire in the handler, which passes the parsed   *)
(* next-hop and UndefinedTunnelID).  Otherwise the old path via the same   *)
(* next-hop is cut out and the new one appended.                           *)
(*                                                                         *)
(* "for i := range r.NextHops" fixes the number of iterations before the   *)
(* loop shortens the slice and the loop does not break, so when the match  *)
(* is not the last path the last iteration indexes past the end: a Go      *)
(* runtime panic, which nothing recovers.                                  *)
(***************************************************************************)
AddPathPanics(paths, path) ==
  /\ path.label # 0
  /\ path.nh \in NextHops(paths)
  /\ PathIndex(paths, path.nh) < Len(paths)

AddPathAppends(paths, path) == Append(paths, path)            \* mutant
AddPathForgets(paths, path) == <<path>>                       \* mutant

AddPath(paths, path) ==
  IF path.label = 0 THEN paths ELSE Append(DelPath(paths, path.nh), path)
=============================================================================
