--------------------------- MODULE RaParser_proofs ---------------------------
(***************************************************************************)
(* Theorems about RaParser, for every sequence of bytes, and about         *)
(* RaAdvertisement, for every list of options and every cut.               *)
(***************************************************************************)
EXTENDS RaAdvertisement, SequenceTheorems, TLAPS

(* An index inside the packet reads a byte.                                *)
LEMMA ByteInData ==
  ASSUME data \in Seq(Byte), NEW i \in Nat, InData(i)
  PROVE  At(i) \in Byte
  BY DEF At, InData

(* The range of a byte, as numbers.                                        *)
LEMMA ByteRange ==
  ASSUME NEW b \in Byte
  PROVE  b \in Nat /\ b <= 255
  BY DEF Byte

(* Two bytes in network order make a segment.                              *)
LEMMA TwoBytes ==
  ASSUME NEW a \in Byte, NEW b \in Byte
  PROVE  256 * a + b \in Segment
<1>1. a \in Nat /\ a <= 255 /\ b \in Nat /\ b <= 255
  BY ByteRange
<1>2. 256 * a + b \in Nat /\ 256 * a + b <= 65535
  BY <1>1
<1>3. u16_MAX \in Nat /\ 256 * a + b <= u16_MAX
  BY <1>2 DEF u16_MAX
<1> QED
  BY <1>2, <1>3 DEF Segment

(* The mask of a global unicast address is a network.                      *)
LEMMA MaskIsNetwork ==
  ASSUME NEW addr \in Addr, IsGlobalUnicastMasked(addr)
  PROVE  MaskTo64(addr) \in Network
<1>1. 0 \in Segment
  BY DEF Segment, u16_MAX
<1>2. MaskTo64(addr) \in Addr
  BY <1>1 DEF MaskTo64, Addr
<1>3. \A i \in Lower : MaskTo64(addr)[i] = 0
  BY DEF MaskTo64, Lower, Upper
<1>4. IsGlobalUnicastMasked(MaskTo64(addr))
  BY DEF IsGlobalUnicastMasked, MaskTo64, Upper
<1> QED
  BY <1>2, <1>3, <1>4 DEF Network

(* A complete option has at least one unit, and its end is in the packet.  *)
LEMMA CompleteOption ==
  ASSUME RTypeOK, HasOption, OptionFits
  PROVE  /\ opt_len \in Nat /\ opt_len >= 1
         /\ OptData + opt_data_len \in 0..Len(data)
         /\ OptData + opt_data_len > offset
<1>1. offset \in Nat /\ Len(data) \in Nat /\ offset + 2 <= Len(data)
  BY DEF RTypeOK, HasOption
<1>2. opt_len \in Byte
  BY <1>1, ByteInData DEF RTypeOK, opt_len, InData
<1>3. opt_len \in Nat /\ opt_len >= 1
  BY <1>2, ByteRange DEF OptionFits
<1> QED
  BY <1>1, <1>3 DEF OptionFits, OptData, opt_data_len

(* A complete prefix option holds the whole of its sixteen prefix bytes:   *)
(* the check of ra.rs before the prefix is read is never taken.            *)
LEMMA PrefixInOption ==
  ASSUME RTypeOK, HasOption, OptionFits, IsInformation
  PROVE  PrefixStart \in Nat /\ PrefixStart + 16 <= Len(data)
<1>1. offset \in Nat /\ Len(data) \in Nat
  BY DEF RTypeOK
<1>2. opt_data_len \in Int /\ opt_data_len >= 30
  BY CompleteOption DEF IsInformation, opt_data_len
<1>3. OptData + opt_data_len <= Len(data)
  BY DEF OptionFits
<1> QED
  BY <1>1, <1>2, <1>3 DEF OptData, PrefixStart

(* The type invariant alone keeps the reads of the next turn in bounds.    *)
LEMMA InBounds == RTypeOK => ReadsInBounds
<1> SUFFICES ASSUME RTypeOK, state = "options", HasOption
             PROVE  /\ InData(offset + 1)
                    /\ OptionFits /\ IsInformation =>
                         InData(OptData + 1) /\ InData(PrefixStart + 15)
  BY DEF ReadsInBounds
<1>1. offset \in Nat /\ Len(data) \in Nat /\ offset + 2 <= Len(data)
  BY DEF RTypeOK, HasOption
<1>2. InData(offset + 1)
  BY <1>1 DEF InData
<1>3. ASSUME OptionFits, IsInformation
      PROVE  InData(OptData + 1) /\ InData(PrefixStart + 15)
  BY <1>1, <1>3, PrefixInOption DEF InData, PrefixStart, OptData
<1> QED
  BY <1>2, <1>3

(* The prefix field of an acceptable option, masked, is a network.         *)
LEMMA PrefixIsNetwork ==
  ASSUME RTypeOK, HasOption, OptionFits, Acceptable
  PROVE  MaskTo64(OptPrefix) \in Network
<1> IsInformation /\ IsGlobalUnicastMasked(OptPrefix)
  BY DEF Acceptable
<1>1. PrefixStart \in Nat /\ PrefixStart + 16 <= Len(data) /\ Len(data) \in Nat
  BY PrefixInOption DEF RTypeOK
<1>2. ASSUME NEW i \in 0..7
      PROVE  256 * At(PrefixStart + 2 * i) + At(PrefixStart + 2 * i + 1) \in Segment
  <2>1. At(PrefixStart + 2 * i) \in Byte /\ At(PrefixStart + 2 * i + 1) \in Byte
    BY <1>1, ByteInData DEF RTypeOK, InData
  <2> QED
    BY <2>1, TwoBytes
<1>3. OptPrefix \in Addr
  BY <1>2 DEF OptPrefix, Addr
<1> QED
  BY <1>3, MaskIsNetwork

(* The type invariant holds at first.                                      *)
LEMMA RTypeInit == RInit => RTypeOK
  BY DEF RInit, RTypeOK

(* Every turn of the parser preserves the type invariant.                  *)
LEMMA RTypeStep == RTypeOK /\ [RNext]_rvars => RTypeOK'
<1> SUFFICES ASSUME RTypeOK, [RNext]_rvars PROVE RTypeOK'
  OBVIOUS
<1>1. CASE RejectPacket
  BY <1>1 DEF RejectPacket, RTypeOK
<1>2. CASE AcceptPacket
  <2>1. 16 \in 0..Len(data)
    BY <1>2 DEF AcceptPacket, IsAdvertisement, RTypeOK
  <2> QED
    BY <1>2, <2>1 DEF AcceptPacket, RTypeOK
<1>3. CASE StopParsing
  BY <1>3 DEF StopParsing, RTypeOK
<1>4. CASE SkipOption
  BY <1>4, CompleteOption DEF SkipOption, RTypeOK
<1>5. CASE ReturnPrefix
  BY <1>5, PrefixIsNetwork DEF ReturnPrefix, RTypeOK
<1>6. CASE UNCHANGED rvars
  BY <1>6 DEF rvars, RTypeOK
<1> QED
  BY <1>1, <1>2, <1>3, <1>4, <1>5, <1>6 DEF RNext

(* For every packet the parser stays within it and returns an address or   *)
(* nothing (prefix/ra.rs parse_ra_packet).                                 *)
THEOREM ParserTypes == RSpec => []RTypeOK
  BY RTypeInit, RTypeStep, PTL DEF RSpec

(* No packet makes the parser read past its end, so none ends the thread.  *)
THEOREM ParserStaysInBounds == RSpec => []ReadsInBounds
  BY ParserTypes, InBounds, PTL

(* Every turn of the loop moves on: the parser cannot stay at an option.   *)
OffsetGrows == [][state = "options" /\ state' = "options" => offset' > offset]_rvars

(* The loop of parse_ra_packet moves on at every option of every packet.   *)
THEOREM ParserMovesOn == RSpec => OffsetGrows
<1>1. RTypeOK /\ [RNext]_rvars =>
        [state = "options" /\ state' = "options" => offset' > offset]_rvars
  BY CompleteOption DEF RNext, RejectPacket, AcceptPacket, StopParsing, SkipOption,
     ReturnPrefix, rvars
<1> QED
  BY <1>1, ParserTypes, PTL DEF RSpec, OffsetGrows

-----------------------------------------------------------------------------
(* What the router lays out.                                               *)

(* The two tests for 2000::/3 accept the same addresses.                   *)
LEMMA SameGlobalUnicast ==
  ASSUME NEW addr \in Addr
  PROVE  IsGlobalUnicast(addr) <=> IsGlobalUnicastMasked(addr)
<1>1. addr[0] \in Nat
  BY DEF Addr, Segment
<1> QED
  BY <1>1 DEF IsGlobalUnicast, IsGlobalUnicastMasked

(* Both bytes of a number of 16 bits.                                      *)
LEMMA BytesOfNumber ==
  ASSUME NEW n \in Nat, n <= 65535
  PROVE  /\ n \div 256 \in Byte /\ n % 256 \in Byte
         /\ 256 * (n \div 256) + (n % 256) = n
<1>1. n \div 256 \in Int /\ 0 <= n \div 256 /\ n \div 256 <= 255
  OBVIOUS
<1>2. n % 256 \in Int /\ 0 <= n % 256 /\ n % 256 <= 255
  OBVIOUS
<1>3. 256 * (n \div 256) + (n % 256) = n
  OBVIOUS
<1>4. n \div 256 \in Byte
  BY <1>1 DEF Byte
<1>5. n % 256 \in Byte
  BY <1>2 DEF Byte
<1> QED
  BY <1>3, <1>4, <1>5

(* Both bytes of a segment, and the segment from its bytes.                *)
LEMMA SegmentBytes ==
  ASSUME NEW s \in Segment
  PROVE  /\ s \div 256 \in Byte /\ s % 256 \in Byte
         /\ 256 * (s \div 256) + (s % 256) = s
<1>1. u16_MAX = 65535
  BY SMTT(30) DEF u16_MAX
<1>2. s \in Int /\ 0 <= s /\ s <= u16_MAX
  BY SMTT(30), <1>1 DEF Segment
<1>3. s \in Nat /\ s <= 65535
  BY <1>1, <1>2
<1> QED
  BY <1>3, BytesOfNumber

(* The octets of an address are bytes, two for each segment.               *)
LEMMA OctetsOfAddr ==
  ASSUME NEW addr \in Addr
  PROVE  /\ \A i \in 1..16 : Octets(addr)[i] \in Byte
         /\ \A m \in 0..7 : 256 * Octets(addr)[2 * m + 1] + Octets(addr)[2 * m + 2] = addr[m]
<1>1. ASSUME NEW i \in 1..16 PROVE Octets(addr)[i] \in Byte
  <2>1. (i - 1) \div 2 \in 0..7
    OBVIOUS
  <2>2. addr[(i - 1) \div 2] \in Segment
    BY <2>1 DEF Addr
  <2> QED
    BY <2>2, SegmentBytes DEF Octets
<1>2. ASSUME NEW m \in 0..7
      PROVE  256 * Octets(addr)[2 * m + 1] + Octets(addr)[2 * m + 2] = addr[m]
  <2>1. /\ 2 * m + 1 \in 1..16 /\ (2 * m + 1) % 2 = 1 /\ ((2 * m + 1) - 1) \div 2 = m
        /\ 2 * m + 2 \in 1..16 /\ (2 * m + 2) % 2 # 1 /\ ((2 * m + 2) - 1) \div 2 = m
    OBVIOUS
  <2>2. Octets(addr)[2 * m + 1] = addr[m] \div 256 /\ Octets(addr)[2 * m + 2] = addr[m] % 256
    BY <2>1 DEF Octets
  <2>3. addr[m] \in Segment
    BY DEF Addr
  <2> QED
    BY <2>2, <2>3, SegmentBytes
<1> QED
  BY <1>1, <1>2

(* An option is laid out in bytes, eight for each unit.                    *)
LEMMA LayoutBytes ==
  ASSUME NEW o \in Option
  PROVE  /\ Size(o) \in Nat /\ Size(o) >= 8
         /\ o.units \in Nat /\ (o.units # 0 => Size(o) = 8 * o.units)
         /\ Layout(o) \in Seq(Byte) /\ Len(Layout(o)) = Size(o)
<1>1. o.units \in Nat
  BY DEF Option, Byte
<1>2. Size(o) \in Nat /\ Size(o) >= 8
  BY <1>1 DEF Size
<1>3. ASSUME NEW i \in 1..Size(o) PROVE Layout(o)[i] \in Byte
  <2>1. 64 \in Byte /\ 0 \in Byte
    BY DEF Byte
  <2>2. o.type \in Byte /\ o.units \in Byte /\ o.flags \in Byte /\ o.valid \in Byte
        /\ o.preferred \in Byte
    BY DEF Option
  <2>3. i \in 17..32 => Octets(o.prefix)[i - 16] \in Byte
    <3>1. o.prefix \in Addr
      BY DEF Option
    <3>2. i \in 17..32 => i - 16 \in 1..16
      OBVIOUS
    <3> QED
      BY <3>1, <3>2, OctetsOfAddr
  <2> QED
    BY <1>2, <2>1, <2>2, <2>3 DEF Layout
<1>4. Layout(o) \in [1..Size(o) -> Byte]
  BY <1>3 DEF Layout
<1> QED
  BY <1>1, <1>2, <1>4 DEF Size

(* The fields the parser reads, where it reads them.                       *)
LEMMA LayoutFields ==
  ASSUME NEW o \in Option
  PROVE  /\ Layout(o)[1] = o.type /\ Layout(o)[2] = o.units /\ Layout(o)[4] = o.flags
         /\ o.units >= 4 =>
              \A m \in 0..7 : 256 * Layout(o)[17 + 2 * m] + Layout(o)[18 + 2 * m] = o.prefix[m]
<1>1. Size(o) \in Nat /\ Size(o) >= 8 /\ o.units \in Nat
  BY LayoutBytes
<1>2. Layout(o)[1] = o.type /\ Layout(o)[2] = o.units /\ Layout(o)[4] = o.flags
  BY <1>1 DEF Layout
<1>3. ASSUME o.units >= 4, NEW m \in 0..7
      PROVE  256 * Layout(o)[17 + 2 * m] + Layout(o)[18 + 2 * m] = o.prefix[m]
  <2>1. Size(o) >= 32
    BY <1>1, <1>3 DEF Size
  <2>2. /\ 17 + 2 * m \in 17..32 /\ (17 + 2 * m) - 16 = 2 * m + 1
        /\ 18 + 2 * m \in 17..32 /\ (18 + 2 * m) - 16 = 2 * m + 2
    OBVIOUS
  <2>3. ASSUME NEW i \in 17..32 PROVE Layout(o)[i] = Octets(o.prefix)[i - 16]
    BY SMTT(30), <1>1, <2>1 DEF Layout
  <2>4. o.prefix \in Addr
    BY DEF Option
  <2> QED
    BY <2>2, <2>3, <2>4, OctetsOfAddr
<1> QED
  BY <1>2, <1>3

(* Where option k begins; past the last one, the end of the packet.        *)
StartOf(k) == IF k <= Len(options) THEN starts[k] ELSE Len(packet)

RouterTypes ==
  /\ packet \in Seq(Byte) /\ Len(packet) >= 16
  /\ sent \in BOOLEAN
  /\ options \in Seq(Option) /\ starts \in Seq(Nat) /\ Len(starts) = Len(options)

(* The options stand one after the other behind the header, in order.      *)
LaidOut ==
  /\ StartOf(1) = 16
  /\ \A k \in 1..Len(options) :
       /\ StartOf(k + 1) = starts[k] + Size(options[k])
       /\ starts[k] + Size(options[k]) <= Len(packet)
       /\ \A i \in 1..Size(options[k]) : packet[starts[k] + i] = Layout(options[k])[i]
  /\ \A j, k \in 1..Len(options) : j < k => starts[j] + Size(options[j]) <= starts[k]

(* What arrives is the packet up to where it was cut.                      *)
Arrived ==
  /\ ~sent => data = <<>> /\ state = "header"
  /\ sent => Len(data) <= Len(packet) /\ \A i \in 1..Len(data) : data[i] = packet[i]

Passed(k) == \A j \in 1..(k - 1) : options[j].units # 0 /\ ~Usable(j)

(* The parser stands at an option and has found nothing to return before.  *)
Progress ==
  /\ state # "done" => result = None
  /\ state = "header" => offset = 0
  /\ state = "options" =>
       /\ IsAdvertisement
       /\ \E k \in 1..(Len(options) + 1) : offset = StartOf(k) /\ Passed(k)
  /\ ReturnsFirstUsablePrefix

AdvertisementInv == RTypeOK /\ RouterTypes /\ LaidOut /\ Arrived /\ Progress

(* With every option before k passed over, nothing was to be found there.  *)
LEMMA NoneBefore ==
  ASSUME NEW k, Passed(k)
  PROVE  Candidates \cap 1..(k - 1) = {}
  BY DEF Passed, Candidates

(* The fields of the option at `offset`, as far as they have arrived, are  *)
(* those of option k.                                                      *)
LEMMA BytesOfOption ==
  ASSUME RTypeOK, RouterTypes, LaidOut, Arrived, sent, NEW k \in 1..Len(options),
         offset = starts[k], NEW i \in 1..Size(options[k]), offset + i <= Len(data)
  PROVE  At(offset + i - 1) = Layout(options[k])[i]
<1>1. Size(options[k]) \in Nat /\ starts[k] \in Nat
  <2>1. options[k] \in Option /\ starts[k] \in Nat
    BY DEF RouterTypes
  <2> QED
    BY <2>1, LayoutBytes
<1>2. offset + i \in 1..Len(data) /\ (offset + i - 1) + 1 = offset + i /\ Len(data) \in Nat
  BY <1>1 DEF RTypeOK
<1>3. data[offset + i] = packet[starts[k] + i]
  BY <1>2 DEF Arrived
<1>4. packet[starts[k] + i] = Layout(options[k])[i]
  BY DEF LaidOut
<1> QED
  BY <1>2, <1>3, <1>4 DEF At

(* A parser that finds an option finds the one that was laid out there.    *)
LEMMA OptionFound ==
  ASSUME RTypeOK, RouterTypes, LaidOut, Arrived, sent, HasOption,
         NEW k \in 1..(Len(options) + 1), offset = StartOf(k)
  PROVE  /\ k \in 1..Len(options) /\ offset = starts[k] /\ options[k] \in Option
         /\ opt_type = options[k].type /\ opt_len = options[k].units
         /\ OptionFits <=> options[k].units # 0 /\ starts[k] + Size(options[k]) <= Len(data)
<1>1. Len(options) \in Nat /\ Len(packet) \in Nat /\ Len(data) \in Nat /\ offset \in Nat
      /\ Len(data) <= Len(packet)
  BY DEF RouterTypes, RTypeOK, Arrived
<1>2. k \in 1..Len(options) /\ offset = starts[k]
  BY <1>1 DEF StartOf, HasOption
<1>3. options[k] \in Option
  BY <1>2 DEF RouterTypes
<1>4. Size(options[k]) \in Nat /\ Size(options[k]) >= 8 /\ options[k].units \in Nat
      /\ (options[k].units # 0 => Size(options[k]) = 8 * options[k].units)
  BY <1>3, LayoutBytes
<1>5. At(offset + 1 - 1) = Layout(options[k])[1] /\ At(offset + 2 - 1) = Layout(options[k])[2]
  <2>1. 1 \in 1..Size(options[k]) /\ 2 \in 1..Size(options[k])
    BY <1>4
  <2>2. offset + 1 <= Len(data) /\ offset + 2 <= Len(data)
    BY <1>1 DEF HasOption
  <2>3. At(offset + 1 - 1) = Layout(options[k])[1]
    BY <1>2, <2>1, <2>2, BytesOfOption
  <2>4. At(offset + 2 - 1) = Layout(options[k])[2]
    BY <1>2, <2>1, <2>2, BytesOfOption
  <2> QED
    BY <2>3, <2>4
<1>6. opt_type = options[k].type /\ opt_len = options[k].units
  BY <1>1, <1>3, <1>5, LayoutFields DEF opt_type, opt_len
<1>7. OptionFits <=> options[k].units # 0 /\ starts[k] + Size(options[k]) <= Len(data)
  <2>1. \A start, units \in Int : (start + 2) + (units * 8 - 2) = start + 8 * units
    OBVIOUS
  <2>2. options[k].units \in Int /\ starts[k] \in Int
    BY <1>1, <1>2, <1>4
  <2>3. OptData = starts[k] + 2 /\ opt_data_len = options[k].units * 8 - 2
    BY <1>2, <1>6 DEF OptData, opt_data_len
  <2>4. OptData + opt_data_len = starts[k] + 8 * options[k].units
    BY <2>1, <2>2, <2>3
  <2> QED
    BY <1>4, <1>6, <2>4 DEF OptionFits
<1> QED
  BY <1>2, <1>3, <1>6, <1>7

(* An option that fits is acceptable to the parser when the list says so,  *)
(* and then its prefix is the one of the list.                             *)
LEMMA AcceptsUsable ==
  ASSUME RTypeOK, RouterTypes, LaidOut, Arrived, sent, HasOption, OptionFits,
         NEW k \in 1..Len(options), offset = starts[k]
  PROVE  /\ Acceptable <=> Usable(k)
         /\ Acceptable => OptPrefix = options[k].prefix
<1>1. Len(options) \in Nat /\ Len(data) \in Nat /\ offset \in Nat
  BY DEF RouterTypes, RTypeOK
<1>2. k \in 1..(Len(options) + 1) /\ offset = StartOf(k)
  BY <1>1 DEF StartOf
<1>3. /\ options[k] \in Option /\ opt_type = options[k].type /\ opt_len = options[k].units
      /\ options[k].units # 0 /\ starts[k] + Size(options[k]) <= Len(data)
  BY <1>2, OptionFound
<1>4. /\ options[k].units \in Nat /\ Size(options[k]) = 8 * options[k].units
      /\ options[k].prefix \in Addr
  BY <1>3, LayoutBytes DEF Option
<1>5. IsInformation <=> options[k].type = PrefixInformation /\ options[k].units >= 4
  BY <1>3, <1>4 DEF IsInformation, opt_data_len
<1>6. ASSUME options[k].units >= 4
      PROVE  At(OptData + 1) = options[k].flags /\ OptPrefix = options[k].prefix
  <2>1. ASSUME NEW i \in 1..32 PROVE At(offset + i - 1) = Layout(options[k])[i]
    <3>1. Size(options[k]) \in Nat /\ Size(options[k]) >= 32 /\ offset + Size(options[k]) <= Len(data)
      BY <1>3, <1>4, <1>6
    <3>2. i \in 1..Size(options[k]) /\ offset + i <= Len(data)
      BY <1>1, <3>1
    <3> QED
      BY <3>2, BytesOfOption
  <2>2. At(OptData + 1) = options[k].flags
    <3>1. OptData + 1 = offset + 4 - 1
      BY <1>1 DEF OptData
    <3>2. At(OptData + 1) = Layout(options[k])[4]
      BY <2>1, <3>1
    <3>3. Layout(options[k])[4] = options[k].flags
      BY <1>3, LayoutFields
    <3> QED
      BY <3>2, <3>3
  <2>3. ASSUME NEW m \in 0..7
        PROVE  256 * At(PrefixStart + 2 * m) + At(PrefixStart + 2 * m + 1) = options[k].prefix[m]
    <3>1. /\ PrefixStart + 2 * m = offset + (17 + 2 * m) - 1
          /\ PrefixStart + 2 * m + 1 = offset + (18 + 2 * m) - 1
          /\ 17 + 2 * m \in 1..32 /\ 18 + 2 * m \in 1..32
      BY SMTT(30), <1>1 DEF PrefixStart, OptData
    <3>2. /\ At(PrefixStart + 2 * m) = Layout(options[k])[17 + 2 * m]
          /\ At(PrefixStart + 2 * m + 1) = Layout(options[k])[18 + 2 * m]
      BY <2>1, <3>1
    <3>3. 256 * Layout(options[k])[17 + 2 * m] + Layout(options[k])[18 + 2 * m] = options[k].prefix[m]
      BY <1>3, <1>6, LayoutFields
    <3> QED
      BY <3>2, <3>3
  <2>4. OptPrefix = [m \in 0..7 |-> options[k].prefix[m]]
    BY <2>3 DEF OptPrefix
  <2>5. options[k].prefix = [m \in 0..7 |-> options[k].prefix[m]]
    BY <1>4 DEF Addr
  <2> QED
    BY <2>2, <2>4, <2>5
<1>7. IsGlobalUnicast(options[k].prefix) <=> IsGlobalUnicastMasked(options[k].prefix)
  BY <1>4, SameGlobalUnicast
<1> QED
  BY <1>5, <1>6, <1>7 DEF Acceptable, AFlag, Usable

-----------------------------------------------------------------------------
(* The first usable option of the list is the one returned.                *)

LEMMA AdvertisementInit == AInit => AdvertisementInv
<1> SUFFICES ASSUME AInit PROVE AdvertisementInv
  OBVIOUS
<1>1. PICK type \in MessageTypes : packet = [i \in 1..16 |-> IF i = 1 THEN type ELSE 0]
  BY DEF AInit
<1>2. type \in Byte /\ 0 \in Byte
  BY <1>1, AdvertisementAssumption DEF Byte
<1>3. packet \in Seq(Byte) /\ Len(packet) = 16
  BY <1>1, <1>2
<1>4. Len(options) = 0 /\ Len(starts) = 0 /\ Len(data) = 0 /\ data \in Seq(Byte)
  BY DEF AInit
<1>5. RouterTypes /\ LaidOut /\ Arrived
  <2>1. options \in Seq(Option) /\ starts \in Seq(Nat)
    BY DEF AInit
  <2>2. sent \in BOOLEAN
    BY DEF AInit
  <2>3. RouterTypes
    BY <1>3, <1>4, <2>1, <2>2 DEF RouterTypes
  <2>4. 1..Len(options) = {} /\ StartOf(1) = 16
    BY <1>3, <1>4 DEF StartOf
  <2> QED
    BY <2>3, <2>4 DEF AInit, LaidOut, Arrived
<1>6. RTypeOK /\ Progress
  BY <1>4 DEF AInit, RTypeOK, Progress, ReturnsFirstUsablePrefix
<1> QED
  BY <1>5, <1>6 DEF AdvertisementInv

(* One more option stands behind the others.                               *)
LEMMA AddOptionKeepsLayout ==
  ASSUME AdvertisementInv, NEW o \in Kinds, AddOption(o)
  PROVE  RouterTypes' /\ LaidOut'
<1> DEFINE n == Len(options)
<1>1. o \in Option
  BY AdvertisementAssumption
<1>2. /\ Size(o) \in Nat /\ Size(o) >= 8
      /\ Layout(o) \in Seq(Byte) /\ Len(Layout(o)) = Size(o)
  BY <1>1, LayoutBytes
<1>3. /\ packet \in Seq(Byte) /\ options \in Seq(Option) /\ starts \in Seq(Nat)
      /\ Len(starts) = n /\ n \in Nat /\ Len(packet) \in Nat /\ Len(packet) >= 16
  BY DEF AdvertisementInv, RouterTypes
<1>4. /\ packet' = packet \o Layout(o) /\ options' = Append(options, o)
      /\ starts' = Append(starts, Len(packet)) /\ sent' = sent
  BY DEF AddOption
<1>5. /\ Len(packet') = Len(packet) + Size(o) /\ Len(options') = n + 1
      /\ options'[n + 1] = o /\ starts'[n + 1] = Len(packet)
      /\ \A k \in 1..n : options'[k] = options[k] /\ starts'[k] = starts[k]
  <2>1. Len(packet') = Len(packet) + Size(o)
    BY ZenonT(30), <1>2, <1>3, <1>4, ConcatProperties
  <2>2. /\ Len(options') = n + 1 /\ options'[n + 1] = o
        /\ \A k \in 1..n : options'[k] = options[k]
    BY <1>1, <1>3, <1>4
  <2>3. starts'[n + 1] = Len(packet) /\ \A k \in 1..n : starts'[k] = starts[k]
    BY <1>3, <1>4
  <2> QED
    BY <2>1, <2>2, <2>3
<1>6. /\ \A i \in 1..Len(packet) : packet'[i] = packet[i]
      /\ \A i \in 1..Size(o) : packet'[Len(packet) + i] = Layout(o)[i]
  BY SMTT(30), <1>2, <1>3, <1>4
<1>7. RouterTypes'
  BY <1>1, <1>2, <1>3, <1>4, <1>5 DEF RouterTypes, AdvertisementInv
<1>8. ASSUME NEW k \in 1..n
      PROVE  /\ Size(options[k]) \in Nat /\ Size(options[k]) >= 8 /\ starts[k] \in Nat
             /\ starts[k] + Size(options[k]) <= Len(packet)
  <2>1. options[k] \in Option /\ starts[k] \in Nat
    BY <1>3
  <2> QED
    BY <2>1, LayoutBytes DEF AdvertisementInv, LaidOut
<1>9. ASSUME NEW k \in 1..(n + 1) PROVE StartOf(k)' = StartOf(k)
  BY <1>3, <1>5 DEF StartOf
<1>10. StartOf(1)' = 16
  <2>1. StartOf(1) = 16 /\ 1 \in 1..(n + 1)
    BY <1>3 DEF AdvertisementInv, LaidOut
  <2> QED
    BY <1>9, <2>1
<1>11. ASSUME NEW k \in 1..n
       PROVE  /\ StartOf(k + 1)' = starts'[k] + Size(options'[k])
              /\ starts'[k] + Size(options'[k]) <= Len(packet')
              /\ \A i \in 1..Size(options'[k]) : packet'[starts'[k] + i] = Layout(options'[k])[i]
  <2>1. k + 1 \in 1..(n + 1) /\ StartOf(k + 1) = starts[k] + Size(options[k])
    BY <1>3 DEF AdvertisementInv, LaidOut
  <2>2. ASSUME NEW i \in 1..Size(options[k])
        PROVE  packet'[starts[k] + i] = Layout(options[k])[i]
    <3>1. starts[k] + i \in 1..Len(packet)
      BY SMTT(30), <1>3, <1>8
    <3> QED
      BY <1>6, <3>1 DEF AdvertisementInv, LaidOut
  <2>3. Size(options[k]) \in Nat /\ starts[k] + Size(options[k]) <= Len(packet')
    <3>1. /\ Size(options[k]) \in Nat /\ starts[k] \in Nat
          /\ starts[k] + Size(options[k]) <= Len(packet)
      BY <1>8
    <3>2. Len(packet') >= Len(packet) /\ Len(packet') \in Nat
      BY <1>2, <1>3, <1>5
    <3> QED
      BY <1>3, <3>1, <3>2
  <2> QED
    BY <1>5, <1>9, <2>1, <2>2, <2>3
<1>12. /\ StartOf(n + 2)' = Len(packet') /\ Len(packet') = starts'[n + 1] + Size(options'[n + 1])
       /\ starts'[n + 1] + Size(options'[n + 1]) <= Len(packet')
       /\ \A i \in 1..Size(options'[n + 1]) :
            packet'[starts'[n + 1] + i] = Layout(options'[n + 1])[i]
  BY <1>2, <1>3, <1>5, <1>6 DEF StartOf
<1>13. ASSUME NEW k \in 1..(n + 1)
       PROVE  /\ StartOf(k + 1)' = starts'[k] + Size(options'[k])
              /\ starts'[k] + Size(options'[k]) <= Len(packet')
              /\ \A i \in 1..Size(options'[k]) : packet'[starts'[k] + i] = Layout(options'[k])[i]
  <2>1. CASE k \in 1..n
    BY <1>11, <2>1
  <2>2. CASE k = n + 1
    <3>1. StartOf(k + 1)' = Len(packet')
      BY <1>3, <1>5, <2>2 DEF StartOf
    <3> QED
      BY <1>12, <2>2, <3>1
  <2> QED
    BY <1>3, <2>1, <2>2
<1>14. ASSUME NEW j \in 1..(n + 1), NEW k \in 1..(n + 1), j < k
       PROVE  starts'[j] + Size(options'[j]) <= starts'[k]
  <2>1. j \in 1..n
    BY <1>3, <1>14
  <2>2. CASE k \in 1..n
    BY <1>5, <1>14, <2>1, <2>2 DEF AdvertisementInv, LaidOut
  <2>3. CASE k = n + 1
    BY <1>5, <1>8, <2>1, <2>3
  <2> QED
    BY <1>3, <2>2, <2>3
<1>15. LaidOut'
  BY <1>5, <1>10, <1>13, <1>14 DEF LaidOut
<1> QED
  BY <1>7, <1>15

LEMMA ReceiveKeepsInv ==
  ASSUME AdvertisementInv, Receive
  PROVE  AdvertisementInv'
<1>1. PICK n \in 0..Len(packet) : data' = SubSeq(packet, 1, n)
  BY DEF Receive
<1>2. packet \in Seq(Byte) /\ Len(packet) \in Nat
  BY DEF AdvertisementInv, RouterTypes
<1>3. data' \in Seq(Byte) /\ Len(data') = n /\ \A i \in 1..n : data'[i] = packet[i]
  BY <1>1, <1>2
<1>4. ~sent /\ state = "header" /\ offset = 0 /\ result = None
  BY DEF AdvertisementInv, Arrived, Progress, Receive
<1>5. sent' = TRUE /\ UNCHANGED <<offset, state, result, packet, options, starts>>
  BY DEF Receive
<1>6. RTypeOK' /\ Arrived' /\ Progress'
  BY <1>2, <1>3, <1>4, <1>5 DEF RTypeOK, Arrived, Progress, ReturnsFirstUsablePrefix
<1>7. RouterTypes' /\ LaidOut'
  BY <1>5 DEF AdvertisementInv, RouterTypes, LaidOut, StartOf
<1> QED
  BY <1>6, <1>7 DEF AdvertisementInv

(* The list and the packet stay as they are while the parser runs.         *)
LEMMA SameList ==
  ASSUME UNCHANGED <<data, router>>
  PROVE  /\ RouterTypes' = RouterTypes /\ LaidOut' = LaidOut /\ IsAdvertisement' = IsAdvertisement
         /\ Candidates' = Candidates /\ FirstCandidate' = FirstCandidate
         /\ \A k : StartOf(k)' = StartOf(k) /\ Passed(k)' = Passed(k)
<1> USE DEF router
<1>1. \A k : Usable(k)' = Usable(k) /\ Readable(k)' = Readable(k) /\ StartOf(k)' = StartOf(k)
  BY DEF Usable, Readable, StartOf
<1>2. Candidates' = Candidates
  BY <1>1 DEF Candidates
<1>3. RouterTypes' = RouterTypes /\ IsAdvertisement' = IsAdvertisement /\ LaidOut' = LaidOut
  BY <1>1 DEF RouterTypes, IsAdvertisement, At, LaidOut
<1> QED
  BY <1>1, <1>2, <1>3 DEF FirstCandidate, Passed

(* No option of the list ends before the header does.                      *)
LEMMA OptionsAreBehindHeader ==
  ASSUME RouterTypes, LaidOut, NEW k \in 1..Len(options)
  PROVE  /\ starts[k] \in Nat /\ starts[k] >= 16
         /\ Size(options[k]) \in Nat /\ Size(options[k]) >= 8
<1>1. ASSUME NEW j \in 1..Len(options)
      PROVE  starts[j] \in Nat /\ Size(options[j]) \in Nat /\ Size(options[j]) >= 8
  <2>1. options[j] \in Option /\ starts[j] \in Nat
    BY DEF RouterTypes
  <2> QED
    BY <2>1, LayoutBytes
<1>2. Len(options) \in Nat /\ 1 \in 1..Len(options)
  BY DEF RouterTypes
<1>3. starts[1] = 16
  BY <1>2 DEF LaidOut, StartOf
<1>4. k = 1 \/ starts[1] + Size(options[1]) <= starts[k]
  BY <1>2 DEF LaidOut
<1> QED
  BY <1>1, <1>2, <1>3, <1>4

(* When the parser gives up at option k, there is nothing to return from   *)
(* there on either.                                                        *)
LEMMA NoneBehind ==
  ASSUME AdvertisementInv, sent, ~(HasOption /\ OptionFits),
         NEW k \in 1..(Len(options) + 1), offset = StartOf(k), Passed(k)
  PROVE  Candidates = {}
<1> SUFFICES ASSUME NEW j \in Candidates PROVE FALSE
  OBVIOUS
<1> USE DEF AdvertisementInv
<1>1. Len(options) \in Nat /\ Len(data) \in Nat /\ offset \in Nat /\ j \in 1..Len(options)
  BY DEF RouterTypes, RTypeOK, Candidates
<1>2. k <= j
  BY <1>1, NoneBefore
<1>3. k \in 1..Len(options) /\ offset = starts[k]
  BY <1>1, <1>2 DEF StartOf
<1>4. starts[j] + Size(options[j]) <= Len(data) /\ options[k].units # 0
  BY <1>1, <1>2 DEF Candidates, Readable
<1>5. k = j \/ starts[k] + Size(options[k]) <= starts[j]
  BY SMTT(30), <1>1, <1>2, <1>3 DEF LaidOut
<1>6. starts[k] + Size(options[k]) <= Len(data)
  BY SMTT(30), <1>1, <1>3, <1>4, <1>5, OptionsAreBehindHeader
<1>7. HasOption
  BY SMTT(30), <1>1, <1>3, <1>6, OptionsAreBehindHeader DEF HasOption
<1> QED
  BY <1>4, <1>6, <1>7, <1>3, OptionFound

LEMMA ParseKeepsInv ==
  ASSUME AdvertisementInv, Parse
  PROVE  AdvertisementInv'
<1> USE DEF AdvertisementInv
<1>1. RNext /\ sent /\ UNCHANGED <<data, router>>
  BY DEF Parse, RNext, RejectPacket, AcceptPacket, StopParsing, SkipOption, ReturnPrefix
<1>2. RTypeOK'
  BY <1>1, RTypeStep
<1>3. RouterTypes' /\ LaidOut' /\ Arrived'
  BY <1>1, SameList DEF Arrived, router
<1>4. CASE RejectPacket
  <2>1. ASSUME Len(data) > 0, data[1] = RouterAdvertisement PROVE Candidates = {}
    <3>1. Len(data) \in Nat /\ Len(data) < 16
      BY <1>4, <2>1 DEF RejectPacket, IsAdvertisement, At, RTypeOK
    <3>2. ASSUME NEW k \in Candidates PROVE FALSE
      BY <3>1, <3>2, OptionsAreBehindHeader DEF Candidates, Readable
    <3> QED
      BY <3>2
  <2>2. ReturnsFirstUsablePrefix' /\ state' = "done"
    BY <1>1, <1>4, <2>1, SameList DEF RejectPacket, Progress, ReturnsFirstUsablePrefix
  <2> QED
    BY <1>2, <1>3, <2>2 DEF Progress
<1>5. CASE AcceptPacket
  <2>1. 1 \in 1..(Len(options) + 1) /\ StartOf(1) = 16 /\ Passed(1)
    BY DEF RouterTypes, LaidOut, Passed
  <2>2. Progress'
    BY <1>1, <1>5, <2>1, SameList DEF AcceptPacket, Progress, ReturnsFirstUsablePrefix, router
  <2> QED
    BY <1>2, <1>3, <2>2
<1>6. ASSUME state = "options"
      PROVE  /\ IsAdvertisement /\ Len(data) > 0 /\ data[1] = RouterAdvertisement
             /\ \E k \in 1..(Len(options) + 1) : offset = StartOf(k) /\ Passed(k)
  <2>1. IsAdvertisement /\ \E k \in 1..(Len(options) + 1) : offset = StartOf(k) /\ Passed(k)
    BY <1>6 DEF Progress
  <2> QED
    BY <2>1 DEF IsAdvertisement, At, RTypeOK
<1>7. CASE StopParsing
  <2>1. Candidates = {}
    BY <1>1, <1>6, <1>7, NoneBehind DEF StopParsing
  <2>2. ReturnsFirstUsablePrefix' /\ state' = "done"
    BY <1>1, <1>7, <2>1, SameList DEF StopParsing, Progress, ReturnsFirstUsablePrefix
  <2> QED
    BY <1>2, <1>3, <2>2 DEF Progress
<1>8. ASSUME HasOption, OptionFits, state = "options"
      PROVE  \E k \in 1..Len(options) :
               /\ offset = starts[k] /\ Passed(k) /\ options[k].units # 0
               /\ starts[k] + Size(options[k]) <= Len(data)
               /\ OptData + opt_data_len = StartOf(k + 1)
               /\ Acceptable <=> Usable(k)
               /\ Acceptable => OptPrefix = options[k].prefix
  <2>1. PICK k \in 1..(Len(options) + 1) : offset = StartOf(k) /\ Passed(k)
    BY <1>6, <1>8
  <2>2. /\ k \in 1..Len(options) /\ offset = starts[k] /\ options[k] \in Option
        /\ opt_len = options[k].units /\ options[k].units # 0
        /\ starts[k] + Size(options[k]) <= Len(data)
    BY <1>1, <1>8, <2>1, OptionFound
  <2>3. (Acceptable <=> Usable(k)) /\ (Acceptable => OptPrefix = options[k].prefix)
    BY <1>1, <1>8, <2>2, AcceptsUsable
  <2>4. StartOf(k + 1) = starts[k] + 8 * options[k].units /\ options[k].units \in Nat
    BY <2>2, LayoutBytes DEF LaidOut
  <2>5. OptData + opt_data_len = StartOf(k + 1)
    BY <2>2, <2>4 DEF OptData, opt_data_len, RTypeOK
  <2> QED
    BY <2>1, <2>2, <2>3, <2>5
<1>9. CASE SkipOption
  <2>1. PICK k \in 1..Len(options) :
          /\ Passed(k) /\ options[k].units # 0 /\ ~Usable(k)
          /\ OptData + opt_data_len = StartOf(k + 1)
    BY <1>8, <1>9 DEF SkipOption
  <2>2. Len(options) \in Nat
    BY DEF RouterTypes
  <2>3. k + 1 \in 1..(Len(options) + 1) /\ Passed(k + 1)
    <3>1. \A j \in 1..((k + 1) - 1) : j = k \/ j \in 1..(k - 1)
      BY <2>2
    <3> QED
      BY <2>1, <2>2, <3>1 DEF Passed
  <2>4. /\ state = "options" /\ state' = "options" /\ result' = result
        /\ offset' = StartOf(k + 1)
    BY <1>9, <2>1 DEF SkipOption
  <2>5. IsAdvertisement' /\ offset' = StartOf(k + 1)' /\ Passed(k + 1)' /\ options' = options
    BY <1>1, <1>6, <2>3, <2>4, SameList DEF router
  <2>6. Progress'
    BY <2>3, <2>4, <2>5 DEF Progress, ReturnsFirstUsablePrefix
  <2> QED
    BY <1>2, <1>3, <2>6
<1>10. CASE ReturnPrefix
  <2>1. PICK k \in 1..Len(options) :
          /\ Passed(k) /\ options[k].units # 0
          /\ starts[k] + Size(options[k]) <= Len(data)
          /\ Usable(k) /\ OptPrefix = options[k].prefix
    BY <1>8, <1>10 DEF ReturnPrefix
  <2>2. Len(options) \in Nat
    BY DEF RouterTypes
  <2>3. k \in Candidates
    <3>1. \A j \in 1..k : j = k \/ j \in 1..(k - 1)
      BY <2>2
    <3> QED
      BY <2>1, <3>1 DEF Candidates, Readable, Passed
  <2>4. \A j \in Candidates : k <= j /\ j \in Nat
    BY <2>1, <2>2, NoneBefore DEF Candidates
  <2>5. FirstCandidate = k
    <3>1. \A m \in Candidates : (\A j \in Candidates : m <= j) => m = k
      BY <2>3, <2>4
    <3> QED
      BY <2>3, <2>4, <3>1 DEF FirstCandidate
  <2>6. state' = "done" /\ result' = MaskTo64(options[k].prefix)
    BY <1>10, <2>1 DEF ReturnPrefix
  <2>7. ReturnsFirstUsablePrefix'
    <3>1. Candidates # {} /\ options' = options /\ data' = data
      BY <1>1, <2>3 DEF router
    <3>2. Len(data) > 0 /\ data[1] = RouterAdvertisement
      BY <1>6, <1>10 DEF ReturnPrefix
    <3> QED
      BY <1>1, <2>5, <2>6, <3>1, <3>2, SameList DEF ReturnsFirstUsablePrefix
  <2> QED
    BY <1>2, <1>3, <2>6, <2>7 DEF Progress
<1> QED
  BY <1>1, <1>4, <1>5, <1>7, <1>9, <1>10 DEF RNext

LEMMA AdvertisementStep == AdvertisementInv /\ [ANext]_avars => AdvertisementInv'
<1> SUFFICES ASSUME AdvertisementInv, [ANext]_avars PROVE AdvertisementInv'
  OBVIOUS
<1>1. ASSUME NEW o \in Kinds, AddOption(o) PROVE AdvertisementInv'
  <2>1. RouterTypes' /\ LaidOut'
    BY <1>1, AddOptionKeepsLayout
  <2>2. ~sent /\ UNCHANGED <<rvars, sent>>
    BY <1>1 DEF AddOption
  <2>3. RTypeOK' /\ Arrived'
    BY <2>2 DEF AdvertisementInv, RTypeOK, Arrived, rvars
  <2>4. Progress'
    BY <2>2 DEF AdvertisementInv, Arrived, Progress, ReturnsFirstUsablePrefix, rvars
  <2> QED
    BY <2>1, <2>3, <2>4 DEF AdvertisementInv
<1>2. CASE UNCHANGED avars
  <2>1. UNCHANGED <<data, router>> /\ UNCHANGED rvars /\ UNCHANGED router
    BY <1>2 DEF avars, rvars
  <2>2. RTypeOK' /\ RouterTypes' /\ LaidOut' /\ Arrived'
    BY <2>1, SameList DEF AdvertisementInv, RTypeOK, Arrived, rvars, router
  <2>3. Progress'
    BY <2>1, SameList DEF AdvertisementInv, Progress, ReturnsFirstUsablePrefix, rvars, router
  <2> QED
    BY <2>2, <2>3 DEF AdvertisementInv
<1> QED
  BY <1>1, <1>2, ReceiveKeepsInv, ParseKeepsInv DEF ANext

(* Whatever options a router sends, in any number and order, and wherever  *)
(* the packet is cut: the prefix the parser returns is that of the first   *)
(* usable option (prefix/ra.rs parse_ra_packet).                           *)
THEOREM FirstUsableIsReturned == ASpec => []ReturnsFirstUsablePrefix
<1>1. AdvertisementInv => ReturnsFirstUsablePrefix
  BY DEF AdvertisementInv, Progress
<1> QED
  BY <1>1, AdvertisementInit, AdvertisementStep, PTL DEF ASpec
=============================================================================
