------------------------- MODULE MCAddressPipeline -------------------------
(***************************************************************************)
(* Sample addresses for AddressPipeline.  Every segment of an address has  *)
(* a value of its own, so that a conversion that moves or drops a segment  *)
(* shows; the first segments sit on and around the borders of 2000::/3.    *)
(***************************************************************************)
EXTENDS AddressPipeline

Ip(first, last) ==
  [i \in 0..7 |-> IF i = 0 THEN first ELSE IF i = 7 THEN last
                  ELSE IF first = 0 /\ i < 4 THEN 0 ELSE 10 + i]

(* ::, 1fff::, 2000::, 2001::, 3fff::, 4000::, fd00::, fe80::, ffff::      *)
FirstSegments == {0, 8191, 8192, 8193, 16383, 16384, 64768, 65152, 65535}

MCSamples == {Ip(first, last) : first \in FirstSegments, last \in {1, 48879}}
=============================================================================
