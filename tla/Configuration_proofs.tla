------------------------ MODULE Configuration_proofs ------------------------
(***************************************************************************)
(* Whatever the files and the environments: a running daemon has a         *)
(* complete configuration, and algorithms are refused when it is loaded.   *)
(***************************************************************************)
EXTENDS Configuration, TLAPS

(* Types; a process has read the file before it validates it, builds its   *)
(* components from what it read, and has an error only when it has ended.  *)
ConfigTypeOK ==
  /\ file \in File \cup {NoFile} /\ env \in Environments /\ environ \in Environments
  /\ stage \in {"load", "validate", "build_detector", "build_updater", "connect_docker",
               "running", "exited"}
  /\ stage = "load" => raw = None /\ config = None
  /\ stage \notin {"load", "exited"} => raw \in File
  /\ stage \in {"build_detector", "build_updater", "connect_docker", "running"} =>
       config.dns = raw.dns /\ config.docker = DockerEnabled
  /\ error # None => stage = "exited"
  /\ edits \in 0..MaxEdits /\ faults \in 0..MaxFaults

Built == stage \in {"build_detector", "build_updater", "connect_docker", "running"}

(* What the later stages know of the file that was read.                   *)
ConfigInv ==
  /\ ConfigTypeOK
  /\ stage \notin {"load", "exited"} => RawConfig(raw)
  /\ Built => ~UnknownAlgorithm /\ ~EnvNotSet /\ ~EmptyHosts
  /\ stage \in {"connect_docker", "running"} /\ raw.dns.provider = "rfc2136" =>
       raw.dns.server # "malformed"
  /\ AlgorithmSettledByLoad

LEMMA ConfigInvInit == ConfigInit => ConfigInv
  BY ConfigurationAssumption
     DEF ConfigInit, ConfigInv, ConfigTypeOK, Built, AlgorithmSettledByLoad

(* A process that ends has an error that the stage it was at can give.     *)
LEMMA RefuseKeepsInv ==
  ASSUME ConfigInv, NEW kind, Refuse(kind), kind = "UnknownAlgorithm" => stage = "validate"
  PROVE  ConfigInv'
  BY DEF ConfigInv, ConfigTypeOK, Built, AlgorithmSettledByLoad, Refuse, world

(* As long as the process keeps what it read, so do the facts about it.    *)
LEMMA SameFile ==
  ASSUME raw' = raw, environ' = environ
  PROVE  /\ UnknownAlgorithm' = UnknownAlgorithm /\ EnvNotSet' = EnvNotSet
         /\ EmptyHosts' = EmptyHosts /\ DockerEnabled' = DockerEnabled
         /\ RawConfig(raw)' = RawConfig(raw)
  BY DEF UnknownAlgorithm, EnvNotSet, Secret, EmptyHosts, DockerEnabled, RawConfig, Has,
       RawPrefix, RawDns, HostEntry

LEMMA ConfigInvStep == ConfigInv /\ [ConfigNext]_vars => ConfigInv'
<1> SUFFICES ASSUME ConfigInv, [ConfigNext]_vars PROVE ConfigInv'
  OBVIOUS
<1> USE ConfigurationAssumption DEF ConfigInv, ConfigTypeOK, Built, AlgorithmSettledByLoad, world
<1>1. CASE load
  <2>1. CASE (file = NoFile /\ Refuse("Io")) \/ (file # NoFile /\ Refuse("Parse"))
    BY <1>1, <2>1, RefuseKeepsInv DEF load
  <2>2. CASE file # NoFile /\ RawConfig(file) /\ raw' = file /\ stage' = "validate"
             /\ UNCHANGED <<environ, config, error, world, faults>>
    <3>1. RawConfig(raw)'
      BY <2>2 DEF RawConfig, Has, RawPrefix, RawDns, HostEntry
    <3> QED
      BY <1>1, <2>2, <3>1 DEF load
  <2> QED
    BY <1>1, <2>1, <2>2 DEF load
<1>2. CASE validate
  <2>1. CASE Refuse("UnknownAlgorithm") \/ Refuse("EnvNotSet") \/ Refuse("EmptyHosts")
    BY <1>2, <2>1, RefuseKeepsInv DEF validate
  <2>2. CASE /\ ~UnknownAlgorithm /\ ~EnvNotSet /\ ~EmptyHosts
             /\ config' = ValidatedConfig /\ stage' = "build_detector"
             /\ UNCHANGED <<environ, raw, error, world, faults>>
    <3>1. config'.dns = raw.dns /\ config'.docker = DockerEnabled
      BY <2>2 DEF ValidatedConfig
    <3> QED
      BY <1>2, <2>2, <3>1, SameFile DEF validate
  <2> QED
    BY <1>2, <2>1, <2>2 DEF validate
<1>3. CASE build_detector \/ connect_docker
  BY <1>3, SameFile DEF build_detector, connect_docker, Proceed
<1>4. CASE build_updater
  <2>1. raw.dns.provider \in {"cloudflare", "rfc2136"}
    BY <1>4 DEF build_updater, RawConfig, RawDns
  <2>2. config.dns.provider = "cloudflare" \/ config.dns.key_algorithm \in {"hmac-sha256", "hmac-sha512"}
    BY <1>4, <2>1 DEF build_updater, UnknownAlgorithm
  <2>3. CASE Refuse("Other")
    BY <1>4, <2>3, RefuseKeepsInv DEF build_updater
  <2>4. CASE Proceed("connect_docker") /\ (raw.dns.provider = "rfc2136" => raw.dns.server # "malformed")
    BY <1>4, <2>4, SameFile DEF build_updater, Proceed
  <2> QED
    BY <1>4, <2>2, <2>3, <2>4 DEF build_updater
<1>5. CASE BuildFails
  BY <1>5, SameFile DEF BuildFails
<1>6. CASE Stop
  BY <1>6, SameFile DEF Stop
<1>7. CASE Restart
  BY <1>7 DEF Restart
<1>8. CASE Edit
  <2>1. edits' \in 0..MaxEdits
    BY <1>8 DEF Edit
  <2> QED
    BY <1>8, <2>1, SameFile DEF Edit
<1>9. CASE Run \/ UNCHANGED vars
  BY <1>9, SameFile DEF Run, vars
<1> QED
  BY <1>1, <1>2, <1>3, <1>4, <1>5, <1>6, <1>7, <1>8, <1>9 DEF ConfigNext, Start

(* config.rs and rfc2136.rs agree on the algorithms, for any file.         *)
THEOREM AlgorithmsAgree == ConfigSpec => []AlgorithmSettledByLoad
  BY ConfigInvInit, ConfigInvStep, PTL DEF ConfigSpec, ConfigInv

(* Whatever the operator writes, and whenever: what runs was complete when *)
(* it was read (config.rs validate, main.rs build_updater).                *)
THEOREM RunningIsComplete == ConfigSpec => []RunsOnlyComplete
<1>1. ConfigInv => RunsOnlyComplete
  <2> SUFFICES ASSUME ConfigInv, stage = "running" PROVE Complete(raw, environ)
    BY DEF RunsOnlyComplete
  <2>1. raw # NoFile /\ RawConfig(raw) /\ ~UnknownAlgorithm /\ ~EnvNotSet /\ ~EmptyHosts
        /\ (raw.dns.provider = "rfc2136" => raw.dns.server # "malformed")
    BY ConfigurationAssumption DEF ConfigInv, ConfigTypeOK, Built
  <2> QED
    BY <2>1 DEF Complete, RawConfig, RawPrefix, RawDns, HostEntry, Has, UnknownAlgorithm,
         EnvNotSet, Secret, EmptyHosts, DockerEnabled
<1> QED
  BY <1>1, ConfigInvInit, ConfigInvStep, PTL DEF ConfigSpec

(* What is complete passes every test of load, validate and the builders.  *)
LEMMA CompletePasses ==
  ASSUME NEW f, NEW variable, Complete(f, variable)
  PROVE  /\ f # NoFile /\ RawConfig(f)
         /\ raw = f /\ environ = variable => ~UnknownAlgorithm /\ ~EnvNotSet /\ ~EmptyHosts
         /\ f.dns.provider = "rfc2136" => f.dns.server # "malformed"
  BY DEF Complete, RawConfig, RawPrefix, RawDns, HostEntry, Has, UnknownAlgorithm,
         EnvNotSet, Secret, EmptyHosts, DockerEnabled

(* The other half: no complete configuration is refused, at no stage of a  *)
(* start (config.rs load and validate, main.rs build_updater).             *)
THEOREM CompleteIsNotRefused == ConfigSpec => RefusesOnlyIncomplete
<1>1. ConfigInv /\ [ConfigNext]_vars =>
        [stage # "exited" /\ stage' = "exited" /\ faults' = faults =>
           ~Complete(IF stage = "load" THEN file ELSE raw, environ)]_vars
  <2> SUFFICES ASSUME ConfigInv, ConfigNext, stage # "exited", stage' = "exited", faults' = faults
               PROVE  ~Complete(IF stage = "load" THEN file ELSE raw, environ)
    BY DEF vars
  <2>1. CASE load
    BY <2>1, CompletePasses DEF load
  <2>2. CASE validate
    BY <2>2, CompletePasses DEF validate
  <2>3. CASE build_updater
    <3>1. stage = "build_updater" /\ config.dns = raw.dns /\ ~UnknownAlgorithm /\ RawDns(raw.dns)
      BY <2>3 DEF build_updater, ConfigInv, ConfigTypeOK, Built, RawConfig
    <3>2. raw.dns.provider = "rfc2136" /\ raw.dns.server = "malformed"
      BY <2>3, <3>1 DEF build_updater, Proceed, RawDns, UnknownAlgorithm
    <3> QED
      BY <3>1, <3>2, CompletePasses
  <2>4. CASE BuildFails \/ Stop
    BY <2>4, ConfigurationAssumption DEF BuildFails, Stop, ConfigInv, ConfigTypeOK
  <2>5. CASE build_detector \/ connect_docker \/ Run \/ Restart \/ Edit
    BY <2>5 DEF build_detector, connect_docker, Proceed, Run, Restart, Edit, vars
  <2> QED
    BY <2>1, <2>2, <2>3, <2>4, <2>5 DEF ConfigNext, Start
<1> QED
  BY <1>1, ConfigInvInit, ConfigInvStep, PTL DEF ConfigSpec, RefusesOnlyIncomplete
=============================================================================
