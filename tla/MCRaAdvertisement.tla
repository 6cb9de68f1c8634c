------------------------- MODULE MCRaAdvertisement -------------------------
(* Every list of up to MaxOptions options, each option one the parser has  *)
(* to treat in its own way, cut at every length.                           *)
EXTENDS RaAdvertisement

Ip(first) == [i \in 0..7 |-> IF i = 0 THEN first ELSE 16 * i + 1]

Information(units, flags, preferred, first) ==
  [type |-> PrefixInformation, units |-> units, flags |-> flags,
   valid |-> 9, preferred |-> preferred, prefix |-> Ip(first)]

Other(units) == [Information(units, 192, 4, 8193) EXCEPT !.type = 5]

(* Autonomous global, deprecated, on-link only, ULA, too short, too long,  *)
(* another type with the same content, and a length of zero.               *)
MCKinds ==
  { Information(4, 192, 4, 8193), Information(4, 64, 0, 16383),
    Information(4, 128, 4, 8194), Information(4, 192, 4, 64768),
    Information(3, 192, 4, 8195), Information(5, 64, 4, 8196),
    Other(1), Other(4), Other(0) }
=============================================================================
