-------------------------- MODULE MCDetectorDaemon --------------------------
(***************************************************************************)
(* One configured host, with each of the methods: a reference domain that  *)
(* lists a record that is not global unicast before the one that is, and   *)
(* may have none at all; an interface that moves from one prefix to        *)
(* another, with a temporary and a link-local address beside it; a router  *)
(* that advertises one of two prefixes.                                    *)
(***************************************************************************)
EXTENDS DetectorDaemon

CONSTANTS p1, p2, s1, d1

MCPrefix == {p1, p2}
MCSuffix == {s1}
MCDomain == {d1}
MCStatic == <<[suffix |-> s1, domain |-> d1]>>
NoContainers == {<<>>}
EveryAnswer == {<<p1>>, <<NonGlobal, p2>>, <<NonGlobal>>}

Address(p, valid, preferred) ==
  [prefix |-> p, valid |-> valid, preferred |-> preferred,
   global |-> TRUE, secondary |-> FALSE, permanent |-> FALSE]

Temporary == [Address(p1, Infinite, Infinite) EXCEPT !.secondary = TRUE]
LinkLocal == [Address(p2, Infinite, Infinite) EXCEPT !.global = FALSE]

(* The old prefix is preferred for longer, the new one is valid for longer.*)
Addresses == {Address(p1, 2, 1), Address(p2, Infinite, 0), Temporary}
=============================================================================
