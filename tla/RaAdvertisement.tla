--------------------------- MODULE RaAdvertisement ---------------------------
(***************************************************************************)
(* RaParser on the packets a router makes.  The router lays out one option *)
(* after the other as build_ra_packet of prefix/ra.rs does and sends the   *)
(* packet, which may be cut anywhere.  What the parser returns is compared *)
(* with what the list of options says.                                     *)
(***************************************************************************)
EXTENDS RaParser

CONSTANTS
  Kinds,         \* the options routers send
  MessageTypes,  \* ICMPv6 types that get through the filter
  MaxOptions     \* bound: options in a packet

(* An option: its type, its length field, and for a prefix option the      *)
(* flags, the two lifetimes (small enough for one byte) and the prefix.    *)
Option == [type : Byte, units : Byte, flags : Byte, valid : Byte, preferred : Byte, prefix : Addr]

ASSUME AdvertisementAssumption ==
  Kinds \subseteq Option /\ MessageTypes \subseteq Byte /\ MaxOptions \in Nat

VARIABLES
  packet,   \* what the router has laid out
  sent,     \* is the packet sent
  options,  \* history: the option list of the packet
  starts    \* history: where in the packet each of them begins

router == <<packet, sent, options, starts>>
avars == <<rvars, router>>

Octets(addr) == [i \in 1..16 |->
  IF i % 2 = 1 THEN addr[(i - 1) \div 2] \div 256 ELSE addr[(i - 1) \div 2] % 256]

(* The length field counts in units of eight bytes; a field of zero is a   *)
(* lie, for the option is there all the same.                              *)
Size(o) == IF o.units = 0 THEN 8 ELSE 8 * o.units

(* Type, length, prefix length, flags, both lifetimes, reserved, prefix.   *)
Layout(o) == [i \in 1..Size(o) |->
  CASE i = 1 -> o.type [] i = 2 -> o.units [] i = 3 -> 64 [] i = 4 -> o.flags
    [] i = 8 -> o.valid [] i = 12 -> o.preferred
    [] i \in 17..32 -> Octets(o.prefix)[i - 16]
    [] OTHER -> 0]

AInit ==
  /\ packet \in {[i \in 1..16 |-> IF i = 1 THEN type ELSE 0] : type \in MessageTypes}
  /\ sent = FALSE /\ options = <<>> /\ starts = <<>>
  /\ data = <<>> /\ offset = 0 /\ state = "header" /\ result = None

AddOption(o) ==
  /\ ~sent /\ Len(options) < MaxOptions
  /\ packet' = packet \o Layout(o)
  /\ options' = Append(options, o)
  /\ starts' = Append(starts, Len(packet))
  /\ UNCHANGED <<rvars, sent>>

Receive ==
  /\ ~sent /\ sent' = TRUE
  /\ \E n \in 0..Len(packet) : data' = SubSeq(packet, 1, n)
  /\ UNCHANGED <<offset, state, result, packet, options, starts>>

Parse == sent /\ RNext /\ UNCHANGED router

ANext == (\E o \in Kinds : AddOption(o)) \/ Receive \/ Parse

(* A packet that is finished arrives, and the parser is sequential code.   *)
ASpec == AInit /\ [][ANext]_avars /\ WF_avars(Receive \/ Parse)

-----------------------------------------------------------------------------
(* Option k is complete, and no option before it hides it.                 *)
Readable(k) ==
  /\ starts[k] + Size(options[k]) <= Len(data)
  /\ \A j \in 1..k : options[j].units # 0

Usable(k) ==
  /\ options[k].type = PrefixInformation /\ options[k].units >= 4
  /\ (options[k].flags \div 64) % 2 = 1
  /\ IsGlobalUnicast(options[k].prefix)

Candidates == {k \in 1..Len(options) : Readable(k) /\ Usable(k)}

FirstCandidate == CHOOSE k \in Candidates : \A j \in Candidates : k <= j

(* The parser returns the first complete global prefix that hosts may      *)
(* configure addresses from, and nothing else, however the packet is cut   *)
(* and whatever stands before it (prefix/ra.rs: "extract the first valid   *)
(* PIO prefix").                                                           *)
ReturnsFirstUsablePrefix ==
  state = "done" =>
    result = IF Len(data) > 0 /\ data[1] = RouterAdvertisement /\ Candidates # {}
             THEN MaskTo64(options[FirstCandidate].prefix) ELSE None
=============================================================================
