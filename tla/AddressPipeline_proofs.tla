----------------------- MODULE AddressPipeline_proofs -----------------------
(***************************************************************************)
(* Theorems about AddressPipeline, for every address there is.             *)
(***************************************************************************)
EXTENDS AddressPipeline, TLAPS

(* The two tests for 2000::/3, the range of util.rs and the mask of the    *)
(* detectors, accept the same addresses.                                   *)
THEOREM GlobalUnicastAgree ==
  \A addr \in Addr : IsGlobalUnicast(addr) <=> IsGlobalUnicastMasked(addr)
<1> TAKE addr \in Addr
<1>1. addr[0] \in Nat
  <2>1. Segment \subseteq Nat
    BY DEF Segment, u16_MAX
  <2>2. addr[0] \in Segment
    BY DEF Addr
  <2> QED
    BY <2>1, <2>2
<1> QED
  BY <1>1 DEF IsGlobalUnicast, IsGlobalUnicastMasked

(* The conversions of util.rs and of the detectors yield addresses.        *)
LEMMA ConversionTypes ==
  ASSUME NEW a \in Addr, NEW b \in Addr
  PROVE  MaskTo64(a) \in Addr /\ SuffixFromAddr(a) \in Addr /\ Combine(a, b) \in Addr
<1>1. 0 \in Segment
  BY DEF Segment, u16_MAX
<1> QED
  BY <1>1 DEF Addr, MaskTo64, SuffixFromAddr, Combine, Upper, Lower

(* A detector returns a network, and a container's suffix no network bits. *)
LEMMA HalvesAreEmpty ==
  ASSUME NEW a \in Addr
  PROVE  /\ IsGlobalUnicastMasked(a) => MaskTo64(a) \in Network
         /\ SuffixFromAddr(a) \in HostBits
<1>1. MaskTo64(a) \in Addr /\ SuffixFromAddr(a) \in Addr
  BY ConversionTypes
<1>2. \A i \in Lower : MaskTo64(a)[i] = 0
  BY DEF MaskTo64, Lower, Upper
<1>3. \A i \in Upper : SuffixFromAddr(a)[i] = 0
  BY DEF SuffixFromAddr, Lower, Upper
<1>4. IsGlobalUnicastMasked(a) => IsGlobalUnicastMasked(MaskTo64(a))
  BY DEF IsGlobalUnicastMasked, MaskTo64, Upper
<1> QED
  BY <1>1, <1>2, <1>3, <1>4 DEF Network, HostBits

(* Combination keeps the upper half of one and the lower half of the other.*)
LEMMA CombineHalves ==
  ASSUME NEW p \in Addr, NEW s \in Addr
  PROVE  /\ MaskTo64(Combine(p, s)) = MaskTo64(p)
         /\ SuffixFromAddr(Combine(p, s)) = SuffixFromAddr(s)
         /\ IsGlobalUnicast(p) <=> IsGlobalUnicast(Combine(p, s))
  BY DEF Addr, MaskTo64, SuffixFromAddr, Combine, Upper, Lower, IsGlobalUnicast

(* Masking and suffix extraction leave what combine asserts of its         *)
(* arguments, and keep an address global unicast.                          *)
LEMMA MaskFacts ==
  ASSUME NEW a \in Addr
  PROVE  /\ MaskTo64(MaskTo64(a)) = MaskTo64(a)
         /\ SuffixFromAddr(SuffixFromAddr(a)) = SuffixFromAddr(a)
         /\ \A i \in Lower : MaskTo64(a)[i] = 0
         /\ \A i \in Upper : SuffixFromAddr(a)[i] = 0
         /\ IsGlobalUnicast(a) <=> IsGlobalUnicast(MaskTo64(a))
  BY DEF Addr, MaskTo64, SuffixFromAddr, Upper, Lower, IsGlobalUnicast

(* An address is the combination of its own two halves.                    *)
LEMMA HalvesMakeWhole ==
  ASSUME NEW a \in Addr
  PROVE  Combine(MaskTo64(a), SuffixFromAddr(a)) = a
<1> DEFINE c == Combine(MaskTo64(a), SuffixFromAddr(a))
<1>1. \A i \in 0..7 : c[i] = a[i]
  BY DEF MaskTo64, SuffixFromAddr, Combine, Upper, Lower
<1>2. c = [i \in 0..7 |-> c[i]] /\ a = [i \in 0..7 |-> a[i]]
  BY DEF Addr, Combine
<1> QED
  BY <1>1, <1>2

-----------------------------------------------------------------------------
(* The prefix is an address, whichever of the two it is.                   *)
LEMMA PrefixInAddr == TypeOK => prefix \in Addr
<1>1. 0 \in Segment
  BY DEF Segment, u16_MAX
<1>2. Unspecified \in Addr
  BY <1>1 DEF Unspecified, Addr
<1> QED
  BY <1>2 DEF TypeOK, Network

(* What each stage of the pipeline has established.                        *)
StageInv ==
  /\ stage \in {"host", "combine", "published", "panicked"} =>
       IsGlobalUnicast(seen) /\ prefix = MaskTo64(seen)
  /\ stage \in {"combine", "published", "panicked"} =>
       IF origin = "docker" THEN suffix = SuffixFromAddr(host) ELSE suffix = host
  /\ stage = "published" => published = Combine(prefix, suffix)
  /\ stage = "panicked" => debug_assertions /\ ~CombineAsserts(prefix, suffix)

PipelineInv == TypeOK /\ StageInv

(* The invariant holds at first.                                           *)
LEMMA PipelineInit == Init => PipelineInv
<1>1. Unspecified \in Addr
  <2>1. 0 \in Segment
    BY DEF Segment, u16_MAX
  <2> QED
    BY <2>1 DEF Unspecified, Addr
<1> QED
  BY <1>1 DEF Init, PipelineInv, TypeOK, StageInv

(* Every conversion preserves the invariant.                               *)
LEMMA PipelineStep == PipelineInv /\ [Next]_vars => PipelineInv'
<1> SUFFICES ASSUME PipelineInv, [Next]_vars PROVE PipelineInv'
  OBVIOUS
<1> USE SamplesAssumption DEF PipelineInv, TypeOK, StageInv
<1>1. ASSUME NEW addr \in Samples, DetectPrefix(addr) PROVE PipelineInv'
  BY <1>1, HalvesAreEmpty, GlobalUnicastAgree DEF DetectPrefix
<1>2. ASSUME NEW addr \in Samples, ConfiguredSuffix(addr) PROVE PipelineInv'
  BY <1>2 DEF ConfiguredSuffix
<1>3. ASSUME NEW addr \in Samples, DiscoveredSuffix(addr) PROVE PipelineInv'
  BY <1>3, ConversionTypes, HalvesAreEmpty DEF DiscoveredSuffix
<1>4. CASE CombinePanics
  BY <1>4 DEF CombinePanics
<1>5. CASE CombineReturns
  <2>1. prefix \in Addr
    BY PrefixInAddr
  <2> QED
    BY <1>5, <2>1, ConversionTypes DEF CombineReturns
<1>6. CASE NextCycle
  BY <1>6 DEF NextCycle
<1>7. CASE UNCHANGED vars
  BY <1>7 DEF vars
<1> QED
  BY <1>1, <1>2, <1>3, <1>4, <1>5, <1>6, <1>7 DEF Next

(* So it holds throughout.                                                 *)
LEMMA PipelineInvariant == Spec => []PipelineInv
  BY PipelineInit, PipelineStep, PTL DEF Spec

(* Whatever addresses occur, a detector returns a global unicast network   *)
(* without host bits and a container gives a suffix without network bits:  *)
(* what combine asserts of both (prefix.rs detect, docker.rs               *)
(* extract_suffix, util.rs combine).                                       *)
THEOREM PipelineTypes == Spec => []TypeOK
  BY PipelineInvariant, PTL DEF PipelineInv

(* The published address is the detected network with the host's own bits: *)
(* util.rs combine over dns.rs, netlink.rs, ra.rs and docker.rs.           *)
THEOREM PublishesPrefixAndHost == Spec => []PublishedIsPrefixAndHost
<1>1. PipelineInv => PublishedIsPrefixAndHost
  <2> SUFFICES ASSUME PipelineInv, stage = "published"
               PROVE  /\ IsGlobalUnicast(published)
                      /\ MaskTo64(published) = MaskTo64(seen)
                      /\ SuffixFromAddr(published) = SuffixFromAddr(host)
    BY DEF PublishedIsPrefixAndHost
  <2>1. {seen, prefix, host, suffix, published} \subseteq Addr
    BY PrefixInAddr DEF PipelineInv, TypeOK
  <2>2. IsGlobalUnicast(seen) /\ prefix = MaskTo64(seen) /\ published = Combine(prefix, suffix)
    BY DEF PipelineInv, StageInv
  <2>3. SuffixFromAddr(suffix) = SuffixFromAddr(host)
    BY <2>1, MaskFacts DEF PipelineInv, StageInv
  <2> QED
    BY <2>1, <2>2, <2>3, CombineHalves, MaskFacts
<1> QED
  BY <1>1, PipelineInvariant, PTL

(* A container inside the detected network keeps the address it has.       *)
THEOREM ContainersKeepTheirAddress == Spec => []ContainerKeepsItsAddress
<1>1. PipelineInv => ContainerKeepsItsAddress
  BY HalvesMakeWhole DEF PipelineInv, TypeOK, StageInv, ContainerKeepsItsAddress
<1> QED
  BY <1>1, PipelineInvariant, PTL

(* Only a configured suffix with upper bits set can trip the assertions of *)
(* combine, and only in a build that has them.                             *)
THEOREM OnlyConfiguredAddressesPanic == Spec => []PanicOnlyOnConfiguredFullAddress
<1>1. PipelineInv => PanicOnlyOnConfiguredFullAddress
  BY MaskFacts DEF PipelineInv, TypeOK, StageInv, CombineAsserts,
     PanicOnlyOnConfiguredFullAddress
<1> QED
  BY <1>1, PipelineInvariant, PTL
=============================================================================
