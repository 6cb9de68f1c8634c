------------------------------ MODULE Ipv6Addr ------------------------------
(***************************************************************************)
(* Ipv6Addr values as the crate uses them: eight 16-bit segments, the      *)
(* upper four naming the /64 prefix and the lower four the host suffix.    *)
(* Translated from src/src/util.rs and from the copies of its helpers in   *)
(* src/src/prefix/{dns,netlink,ra}.rs.                                     *)
(***************************************************************************)
EXTENDS Integers

u16_MAX == 65535
Segment == 0..u16_MAX
Upper == 0..3
Lower == 4..7
Addr == [0..7 -> Segment]

(* `0x2000..=0x3FFF` of util.rs, the test applied to containers.           *)
IsGlobalUnicast(addr) == addr[0] >= 8192 /\ addr[0] <= 16383

(* `(segments[0] & 0xe000) == 0x2000`, the test of the three detectors:    *)
(* the three leading bits of the address are 001.                          *)
IsGlobalUnicastMasked(addr) == addr[0] \div 8192 = 1

(* What a detector may return: a global unicast network, no host bits.     *)
Network == {addr \in Addr : IsGlobalUnicastMasked(addr) /\ \A i \in Lower : addr[i] = 0}

(* What may stand for a host below any network.                            *)
HostBits == {addr \in Addr : \A i \in Upper : addr[i] = 0}

(* Slip: the boundary is off by one, and a host segment is kept.           *)
MaskAtSegment5(addr) == [i \in 0..7 |-> IF i < 5 THEN addr[i] ELSE 0]

(* The /64 network of an address: the lower four segments become zero.     *)
MaskTo64(addr) == [i \in 0..7 |-> IF i \in Upper THEN addr[i] ELSE 0]

(* Slip: the suffix is taken from segment 5 on.                            *)
SuffixFromSegment5(addr) == [i \in 0..7 |-> IF i > 4 THEN addr[i] ELSE 0]

(* Slip: the address is returned as it came, without the mask.             *)
SuffixUnmasked(addr) == addr

(* The lower four segments; upper bits that were set only cost a warning.  *)
SuffixFromAddr(addr) == [i \in 0..7 |-> IF i \in Lower THEN addr[i] ELSE 0]

(* The two debug_assert_eq! of combine: compiled out of release builds.    *)
CombineAsserts(prefix, suffix) ==
  /\ \A i \in Lower : prefix[i] = 0
  /\ \A i \in Upper : suffix[i] = 0

(* Slip: the boundary between the two halves is off by one.                *)
CombineAtSegment3(prefix, suffix) ==
  [i \in 0..7 |-> IF i < 3 THEN prefix[i] ELSE suffix[i]]

(* The upper half of the prefix and the lower half of the suffix.          *)
Combine(prefix, suffix) ==
  [i \in 0..7 |-> IF i \in Upper THEN prefix[i] ELSE suffix[i]]
=============================================================================
