--------------------------- MODULE AddressPipeline ---------------------------
(***************************************************************************)
(* The life of one published address, through every conversion the crate   *)
(* applies to it.  A detector looks at a full address and keeps its /64    *)
(* (prefix/dns.rs, netlink.rs, ra.rs); a host contributes a suffix, either *)
(* from the configuration file or from the address Docker reports for a    *)
(* container; run_update_cycle combines the two.  The build profile is     *)
(* chosen once: only a debug build keeps combine's assertions.             *)
(***************************************************************************)
EXTENDS Ipv6Addr

CONSTANT Samples   \* the addresses that occur on the link and in the config

ASSUME SamplesAssumption == Samples \subseteq Addr

VARIABLES
  debug_assertions,  \* cfg(debug_assertions) of the build
  stage,             \* "detect", "host", "combine", "published", "panicked"
  seen,              \* the address the detector looked at
  prefix,            \* the prefix it returned
  host,              \* the address the host's suffix came from
  origin,            \* where that address came from: "config" or "docker"
  suffix,            \* the HostEntry's suffix
  published          \* the address handed to set_record

vars == <<debug_assertions, stage, seen, prefix, host, origin, suffix, published>>

Unspecified == [i \in 0..7 |-> 0]

Init ==
  /\ debug_assertions \in BOOLEAN
  /\ stage = "detect"
  /\ origin = "config"
  /\ seen = Unspecified /\ prefix = Unspecified
  /\ host = Unspecified /\ suffix = Unspecified
  /\ published = Unspecified

(* resolve_prefix_inner, detect_prefix and parse_ra_packet: an address     *)
(* that is not global unicast is passed over.                              *)
DetectPrefix(addr) ==
  /\ stage = "detect"
  /\ IsGlobalUnicastMasked(addr)
  /\ seen' = addr
  /\ prefix' = MaskTo64(addr)
  /\ stage' = "host"
  /\ UNCHANGED <<debug_assertions, host, origin, suffix, published>>

(* A [[hosts]] entry: ipv6addr_from_str parses any address and keeps it.   *)
ConfiguredSuffix(addr) ==
  /\ stage = "host"
  /\ host' = addr /\ suffix' = addr /\ origin' = "config"
  /\ stage' = "combine"
  /\ UNCHANGED <<debug_assertions, seen, prefix, published>>

(* A container: extract_suffix masks the first global unicast address.     *)
DiscoveredSuffix(addr) ==
  /\ stage = "host"
  /\ IsGlobalUnicast(addr)
  /\ host' = addr /\ suffix' = SuffixFromAddr(addr) /\ origin' = "docker"
  /\ stage' = "combine"
  /\ UNCHANGED <<debug_assertions, seen, prefix, published>>

(* combine in a build with the assertions: a violated one unwinds main.    *)
CombinePanics ==
  /\ stage = "combine"
  /\ debug_assertions /\ ~CombineAsserts(prefix, suffix)
  /\ stage' = "panicked"
  /\ UNCHANGED <<debug_assertions, seen, prefix, host, origin, suffix, published>>

CombineReturns ==
  /\ stage = "combine"
  /\ debug_assertions => CombineAsserts(prefix, suffix)
  /\ published' = Combine(prefix, suffix)
  /\ stage' = "published"
  /\ UNCHANGED <<debug_assertions, seen, prefix, host, origin, suffix>>

(* The next cycle detects again.                                           *)
NextCycle ==
  /\ stage = "published"
  /\ stage' = "detect"
  /\ UNCHANGED <<debug_assertions, seen, prefix, host, origin, suffix, published>>

Next ==
  \/ \E addr \in Samples : \/ DetectPrefix(addr)
                           \/ ConfiguredSuffix(addr)
                           \/ DiscoveredSuffix(addr)
  \/ CombinePanics
  \/ CombineReturns
  \/ NextCycle

Spec == Init /\ [][Next]_vars

-----------------------------------------------------------------------------
(* Types, with the half that each conversion must leave empty: a prefix    *)
(* is a global unicast network without host bits, the suffix of a          *)
(* container has no network bits (detect of prefix.rs, which says so of    *)
(* every detector; docker.rs extract_suffix).                              *)
TypeOK ==
  /\ debug_assertions \in BOOLEAN
  /\ stage \in {"detect", "host", "combine", "published", "panicked"}
  /\ origin \in {"config", "docker"}
  /\ {seen, host, suffix, published} \subseteq Addr
  /\ prefix \in Network \cup {Unspecified}
  /\ origin = "docker" => suffix \in HostBits

(* A published address carries exactly the network the detector saw and    *)
(* exactly the host bits of the host it is published for, and it passes    *)
(* the test of util.rs although the detector applied the other one         *)
(* (util.rs combine, suffix_from_addr; the is_global_unicast copies).      *)
PublishedIsPrefixAndHost ==
  stage = "published" =>
    /\ IsGlobalUnicast(published)
    /\ MaskTo64(published) = MaskTo64(seen)
    /\ SuffixFromAddr(published) = SuffixFromAddr(host)

(* A container whose address lies in the detected prefix is published      *)
(* under that very address: mask, extraction and combination lose nothing  *)
(* (docker.rs extract_suffix feeding main.rs run_update_cycle).            *)
ContainerKeepsItsAddress ==
  (stage = "published" /\ origin = "docker" /\ MaskTo64(host) = prefix)
    => published = host

(* The assertions of combine can only be violated by a configured suffix   *)
(* with upper bits set, in a build that has them: no detector and no       *)
(* discovered container can take the daemon down (util.rs combine).        *)
PanicOnlyOnConfiguredFullAddress ==
  stage = "panicked" =>
    /\ debug_assertions
    /\ origin = "config"
    /\ \E i \in Upper : host[i] # 0
=============================================================================
