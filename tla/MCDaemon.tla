------------------------------ MODULE MCDaemon ------------------------------
(***************************************************************************)
(* Small instances of Daemon: one configured host, and a container that    *)
(* comes and goes between two discoveries, on a domain of its own or on    *)
(* the domain of the configured host.                                      *)
(***************************************************************************)
EXTENDS Daemon

CONSTANTS p1, p2, s1, s2, d1, d2

MCPrefix == {p1, p2}
MCSuffix == {s1, s2}
MCDomain == {d1, d2}
OneDomain == {d1}

Configured == [suffix |-> s1, domain |-> d1]
Container == [suffix |-> s2, domain |-> d2]
Colliding == [suffix |-> s2, domain |-> d1]

MCStatic == <<Configured>>
WithCollision == {<<>>, <<Container>>, <<Colliding>>}
NoContainers == {<<>>}
=============================================================================
