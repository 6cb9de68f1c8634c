--------------------------- MODULE MCDockerDaemon ---------------------------
(***************************************************************************)
(* One configured host, and two containers: one on the configured domain,  *)
(* one on a domain of its own, or without a domain.                        *)
(***************************************************************************)
EXTENDS DockerDaemon, TLC

CONSTANTS p1, s1, s2, d1, d2, c1, c2

MCPrefix == {p1}
MCSuffix == {s1, s2}
MCDomain == {d1, d2}
MCContainer == {c1, c2}
MCStatic == <<[suffix |-> s1, domain |-> d1]>>
MCLabel == c1 :> d1 @@ c2 :> d2
MCNetworked == {{s2}, {s1, s2}}

(* Bound: a change, a fault and a restart come at most two together.       *)
TwoTroubles == changes + faults + restarts <= 2
=============================================================================
