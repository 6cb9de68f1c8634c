------------------------------ MODULE RaParser ------------------------------
(***************************************************************************)
(* parse_ra_packet of prefix/ra.rs, one action per turn of its loop.  The  *)
(* bytes come straight from the raw socket: any sequence of bytes may be   *)
(* there, whatever its length fields claim.  An index past the end panics  *)
(* and ends the listener thread, that is, all prefix detection.            *)
(***************************************************************************)
EXTENDS Ipv6Addr, Sequences

CONSTANT None  \* no prefix found

Byte == 0..255

VARIABLES
  data,    \* the bytes recv returned
  offset,  \* the index the parser is at, from 0 as in the code
  state,   \* "header", "options", "done"
  result   \* the prefix, None until one is returned

rvars == <<data, offset, state, result>>

At(index) == data[index + 1]
InData(index) == index < Len(data)

RouterAdvertisement == 134
PrefixInformation == 3

(* The option at `offset`: type, length in units of 8 octets, then data.   *)
opt_type == At(offset)
opt_len == At(offset + 1)
opt_data_len == opt_len * 8 - 2
OptData == offset + 2

(* Slip: one byte left is taken for an option's header of two.             *)
OneByteLeft == offset + 1 <= Len(data)

HasOption == offset + 2 <= Len(data)

(* Slip: the end of the option is compared without its two header bytes.   *)
FitsWithoutHeader == opt_len # 0 /\ offset + opt_data_len <= Len(data)

(* Slip: an option with a length of zero is stepped over.                  *)
ZeroLengthFits == OptData + opt_data_len <= Len(data)

(* Neither empty nor longer than what is left of the packet.               *)
OptionFits == opt_len # 0 /\ OptData + opt_data_len <= Len(data)

IsInformation == opt_type = PrefixInformation /\ opt_data_len >= 30

(* Slip: the on-link flag is taken for the autonomous flag.                *)
OnLinkFlag == At(OptData + 1) \div 128 = 1

(* `flags & 0x40`: the autonomous address-configuration flag.              *)
AFlag == (At(OptData + 1) \div 64) % 2 = 1

PrefixStart == OptData + 14

(* The sixteen bytes of the prefix field, as segments.  The check that it  *)
(* lies within the packet, after the ones above, never fails.              *)
OptPrefix ==
  [i \in 0..7 |-> 256 * At(PrefixStart + 2 * i) + At(PrefixStart + 2 * i + 1)]

Acceptable == IsInformation /\ AFlag /\ IsGlobalUnicastMasked(OptPrefix)

IsAdvertisement == Len(data) >= 16 /\ At(0) = RouterAdvertisement

RInit ==
  /\ data \in Seq(Byte)
  /\ offset = 0
  /\ state = "header"
  /\ result = None

RejectPacket ==
  /\ state = "header"
  /\ ~IsAdvertisement
  /\ state' = "done"
  /\ UNCHANGED <<data, offset, result>>

AcceptPacket ==
  /\ state = "header"
  /\ IsAdvertisement
  /\ offset' = 16
  /\ state' = "options"
  /\ UNCHANGED <<data, result>>

(* The end of the packet, or an option that cannot be one.                 *)
StopParsing ==
  /\ state = "options"
  /\ ~(HasOption /\ OptionFits)
  /\ state' = "done"
  /\ UNCHANGED <<data, offset, result>>

SkipOption ==
  /\ state = "options" /\ HasOption /\ OptionFits
  /\ ~Acceptable
  /\ offset' = OptData + opt_data_len
  /\ UNCHANGED <<data, state, result>>

ReturnPrefix ==
  /\ state = "options" /\ HasOption /\ OptionFits
  /\ Acceptable
  /\ result' = MaskTo64(OptPrefix)
  /\ state' = "done"
  /\ UNCHANGED <<data, offset>>

RNext == RejectPacket \/ AcceptPacket \/ StopParsing \/ SkipOption \/ ReturnPrefix

RSpec == RInit /\ [][RNext]_rvars

(* The parser is sequential code.                                          *)
RFairSpec == RSpec /\ WF_rvars(RNext)

-----------------------------------------------------------------------------
(* Types: the parser never steps past the end of the packet, and what it   *)
(* returns is a network without host bits, or nothing (prefix/ra.rs        *)
(* parse_ra_packet).                                                       *)
RTypeOK ==
  /\ data \in Seq(Byte)
  /\ offset \in 0..Len(data)
  /\ state \in {"header", "options", "done"}
  /\ result \in Network \cup {None}

(* Whatever the packet claims, no index of the next turn of the loop lies  *)
(* past its end (prefix/ra.rs parse_ra_packet).                            *)
ReadsInBounds ==
  state = "options" /\ HasOption =>
    /\ InData(offset + 1)
    /\ OptionFits /\ IsInformation => InData(OptData + 1) /\ InData(PrefixStart + 15)

(* The loop ends on every packet.                                          *)
ParserReturns == <>(state = "done")
=============================================================================
