------------------------------ MODULE MCUpdater ------------------------------
(* One host and two addresses.  At Cloudflare its domain has a record from *)
(* the start, or none, and POSTs may be given up on.  The name server      *)
(* serves l2.l1, and the host is at the apex, below it, or further below.  *)
EXTENDS Updater

CONSTANTS a1, a2, l1, l2, l3, l4

MCAddr == {a1, a2}
MCExisting == {0, 1}
MCLabel == {l1, l2, l3, l4}
MCZone == <<l2, l1>>
MCDomains == {<<l2, l1>>, <<l3, l2, l1>>, <<l4, l3, l2, l1>>}
=============================================================================
