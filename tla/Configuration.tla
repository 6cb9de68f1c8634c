---------------------------- MODULE Configuration ----------------------------
(***************************************************************************)
(* From the file to the running daemon: config.rs, the part of main that   *)
(* builds the components, and the supervisor that starts the process again *)
(* (contrib/ddns-ipv6.service) while the operator edits the file.          *)
(*                                                                         *)
(* A table of the file is a function from the keys that are written below  *)
(* its header to their values; the root table is what is written before    *)
(* the first header.                                                       *)
(***************************************************************************)
EXTENDS Naturals, Sequences

CONSTANTS
  Roots, Prefixes, Providers, HostLists, Dockers,  \* tables a file may have
  Environments,  \* what the variable of a secret may be: "unset", "empty", "set"
  NoTable,       \* the file has no [docker] table
  NoFile,        \* the file cannot be read
  None,
  MaxEdits,      \* bound: edits of the file or of the environment
  MaxFaults      \* bound: components that cannot be built, and crashes

File == [root : Roots, prefix : Prefixes, dns : Providers, hosts : HostLists,
         docker : Dockers \cup {NoTable}]

ASSUME ConfigurationAssumption ==
  /\ Environments \subseteq {"unset", "empty", "set"}
  /\ \A hosts \in HostLists : Len(hosts) \in Nat
  /\ NoFile \notin File /\ NoTable \notin Dockers
  /\ MaxEdits \in Nat /\ MaxFaults \in Nat

VARIABLES
  file,     \* the file, as the operator has left it
  env,      \* the variable of the secret, as the next process will find it
  stage,    \* where main is; "exited" when the process has ended
  environ,  \* the variable in the environment of the process
  raw,      \* the file as it was read, RawConfig
  config,   \* ValidatedConfig
  error,    \* why the process ended, and at which stage
  edits, faults

vars == <<file, env, stage, environ, raw, config, error, edits, faults>>
world == <<file, env, edits>>

Has(table, keys) == keys \subseteq DOMAIN table

ConfigInit ==
  /\ file \in File \cup {NoFile} /\ env \in Environments
  /\ stage = "load" /\ environ = env
  /\ raw = None /\ config = None /\ error = None
  /\ edits = 0 /\ faults = 0

-----------------------------------------------------------------------------
(* Deserialization: a tag that is not known, a key that is missing or a    *)
(* value of the wrong form is an error, and so is an unknown key, but in   *)
(* the root table only.                                                    *)

RawPrefix(table) ==
  /\ Has(table, {"method"})
  /\ \/ table.method = "dns" /\ Has(table, {"reference_domain"})
     \/ table.method \in {"netlink", "ra"} /\ Has(table, {"interface"})

RawDns(table) ==
  /\ Has(table, {"provider"})
  /\ \/ table.provider = "cloudflare" /\ Has(table, {"zone_id", "api_token"})
     \/ table.provider = "rfc2136"
          /\ Has(table, {"server", "key_name", "key_algorithm", "key_secret"})

HostEntry(table) == Has(table, {"suffix", "domain"}) /\ table.suffix # "malformed"

RawConfig(f) ==
  /\ DOMAIN f.root \subseteq {"interval_secs"}
  /\ RawPrefix(f.prefix) /\ RawDns(f.dns)
  /\ \A i \in 1..Len(f.hosts) : HostEntry(f.hosts[i])

default_interval == 300

interval_secs == IF Has(raw.root, {"interval_secs"}) THEN raw.root.interval_secs ELSE default_interval

-----------------------------------------------------------------------------
(* ValidatedConfig::load.                                                  *)

(* An error of any stage ends main and with it the process.                *)
Refuse(kind) ==
  /\ stage' = "exited"
  /\ error' = [at |-> stage, kind |-> kind]
  /\ UNCHANGED <<environ, raw, config, world, faults>>

load ==
  /\ stage = "load"
  /\ \/ file = NoFile /\ Refuse("Io")
     \/ file # NoFile /\ ~RawConfig(file) /\ Refuse("Parse")
     \/ /\ file # NoFile /\ RawConfig(file)
        /\ raw' = file
        /\ stage' = "validate"
        /\ UNCHANGED <<environ, config, error, world, faults>>

(* Slip: another algorithm of the same family passes.                      *)
UnknownFamily ==
  raw.dns.provider = "rfc2136" /\ raw.dns.key_algorithm \notin {"hmac-sha256", "hmac-sha384", "hmac-sha512"}

UnknownAlgorithm ==
  raw.dns.provider = "rfc2136" /\ raw.dns.key_algorithm \notin {"hmac-sha256", "hmac-sha512"}

Secret == IF raw.dns.provider = "cloudflare" THEN raw.dns.api_token ELSE raw.dns.key_secret

(* resolve_env: a variable that is set to nothing will do.                 *)
EnvNotSet == Secret = "env:VAR" /\ environ = "unset"

(* Slip: a [docker] table counts although it is not enabled.               *)
DockerTable == raw.docker # NoTable

DockerEnabled == raw.docker # NoTable /\ Has(raw.docker, {"enabled"}) /\ raw.docker.enabled

(* Slip: hosts that are only found by Docker do not count.                 *)
NoConfiguredHosts == raw.hosts = <<>>

EmptyHosts == raw.hosts = <<>> /\ ~DockerEnabled

ValidatedConfig ==
  [method |-> raw.prefix.method, dns |-> raw.dns, hosts |-> raw.hosts, docker |-> DockerEnabled,
   secret |-> IF Secret = "env:VAR" THEN environ ELSE "set", interval_secs |-> interval_secs]

validate ==
  /\ stage = "validate"
  /\ \/ UnknownAlgorithm /\ Refuse("UnknownAlgorithm")
     \/ ~UnknownAlgorithm /\ EnvNotSet /\ Refuse("EnvNotSet")
     \/ ~UnknownAlgorithm /\ ~EnvNotSet /\ EmptyHosts /\ Refuse("EmptyHosts")
     \/ /\ ~UnknownAlgorithm /\ ~EnvNotSet /\ ~EmptyHosts
        /\ config' = ValidatedConfig
        /\ stage' = "build_detector"
        /\ UNCHANGED <<environ, raw, error, world, faults>>

-----------------------------------------------------------------------------
(* main builds the components.                                             *)

Proceed(next) ==
  /\ stage' = next
  /\ UNCHANGED <<environ, raw, config, error, world, faults>>

(* The background task or thread is started; what it fails at is its own   *)
(* business.                                                               *)
build_detector == stage = "build_detector" /\ Proceed("build_updater")

(* The algorithm is matched again, and the address of the server parsed.   *)
build_updater ==
  /\ stage = "build_updater"
  /\ IF config.dns.provider = "cloudflare" THEN Proceed("connect_docker")
     ELSE IF config.dns.key_algorithm \notin {"hmac-sha256", "hmac-sha512"} THEN Refuse("UnknownAlgorithm")
     ELSE IF config.dns.server = "malformed" THEN Refuse("Other")
     ELSE Proceed("connect_docker")

connect_docker == stage = "connect_docker" /\ Proceed("running")

(* The resolver or the Docker client cannot be built.                      *)
BuildFails ==
  /\ \/ stage = "build_detector" /\ config.method = "dns"
     \/ stage = "connect_docker" /\ config.docker
  /\ faults < MaxFaults /\ faults' = faults + 1
  /\ stage' = "exited" /\ error' = [at |-> stage, kind |-> "Other"]
  /\ UNCHANGED <<environ, raw, config, world>>

(* The loop of the daemon goes on, with the configuration it was given.    *)
Run == stage = "running" /\ UNCHANGED vars

(* A signal ends the daemon.                                               *)
Stop ==
  /\ stage = "running"
  /\ faults < MaxFaults /\ faults' = faults + 1
  /\ stage' = "exited"
  /\ UNCHANGED <<environ, raw, config, error, world>>

(* Slip: Restart=on-failure, which leaves a daemon down that a signal      *)
(* ended.                                                                  *)
RestartOnFailure ==
  /\ stage = "exited" /\ error # None
  /\ stage' = "load" /\ environ' = env
  /\ raw' = None /\ config' = None /\ error' = None
  /\ UNCHANGED <<world, faults>>

(* Restart=always, whatever ended the process; starts are thirty seconds  *)
(* apart, too far for systemd's limit of five in ten seconds.              *)
Restart ==
  /\ stage = "exited"
  /\ stage' = "load" /\ environ' = env
  /\ raw' = None /\ config' = None /\ error' = None
  /\ UNCHANGED <<world, faults>>

(* The operator changes one table, takes the file away or puts it back, or *)
(* changes the environment of the service.                                 *)
Edit ==
  /\ edits < MaxEdits /\ edits' = edits + 1
  /\ \/ \E f \in File \cup {NoFile} :
          /\ f # file
          /\ f # NoFile /\ file # NoFile =>
               \E t \in DOMAIN f : \A u \in DOMAIN f \ {t} : f[u] = file[u]
          /\ file' = f /\ UNCHANGED env
     \/ env' \in Environments \ {env} /\ UNCHANGED file
  /\ UNCHANGED <<stage, environ, raw, config, error, faults>>

Start == load \/ validate \/ build_detector \/ build_updater \/ connect_docker

ConfigNext == Start \/ Run \/ BuildFails \/ Stop \/ Restart \/ Edit

ConfigSpec == ConfigInit /\ [][ConfigNext]_vars

(* The process runs, and the supervisor starts it again.                   *)
ConfigFairSpec == ConfigSpec /\ WF_vars(Start \/ Restart)

-----------------------------------------------------------------------------
(* What config.sample.toml asks of a file, table by table.                 *)
Complete(f, variable) ==
  LET Resolves(secret) == secret = "env:VAR" => variable # "unset" IN
  /\ f # NoFile
  /\ DOMAIN f.root \subseteq {"interval_secs"}
  /\ "method" \in DOMAIN f.prefix /\ f.prefix.method \in {"dns", "netlink", "ra"}
  /\ (IF f.prefix.method = "dns" THEN "reference_domain" ELSE "interface") \in DOMAIN f.prefix
  /\ "provider" \in DOMAIN f.dns /\ f.dns.provider \in {"cloudflare", "rfc2136"}
  /\ f.dns.provider = "cloudflare" =>
       {"zone_id", "api_token"} \subseteq DOMAIN f.dns /\ Resolves(f.dns.api_token)
  /\ f.dns.provider = "rfc2136" =>
       /\ {"server", "key_name", "key_algorithm", "key_secret"} \subseteq DOMAIN f.dns
       /\ f.dns.server # "malformed" /\ f.dns.key_algorithm \in {"hmac-sha256", "hmac-sha512"}
       /\ Resolves(f.dns.key_secret)
  /\ \A i \in 1..Len(f.hosts) :
       {"suffix", "domain"} \subseteq DOMAIN f.hosts[i] /\ f.hosts[i].suffix # "malformed"
  /\ \/ f.hosts # <<>>
     \/ f.docker # NoTable /\ "enabled" \in DOMAIN f.docker /\ f.docker.enabled

(* A daemon only runs with a file that was complete when it was read, and  *)
(* with the variable its process was given: it has hosts to publish, or a  *)
(* way to find some (config.rs validate).                                  *)
RunsOnlyComplete == stage = "running" => Complete(raw, environ)

(* No start is refused for the file or the variable it was given unless    *)
(* one of them really is incomplete: what remains is a component that      *)
(* cannot be built, and signals (config.rs load, rfc2136.rs new).          *)
RefusesOnlyIncomplete ==
  [][stage # "exited" /\ stage' = "exited" /\ faults' = faults =>
       ~Complete(IF stage = "load" THEN file ELSE raw, environ)]_vars

(* The two places that know the algorithms agree: what is loaded is not    *)
(* refused for its algorithm when the updater is built (config.rs          *)
(* validate, rfc2136.rs new).                                              *)
AlgorithmSettledByLoad ==
  error # None /\ error.kind = "UnknownAlgorithm" => error.at = "validate"

(* Once the file and the environment are complete and left alone, the      *)
(* daemon ends up running, without a hand on the service, however often it *)
(* was refused before and whatever signal ended it (Restart=always of      *)
(* contrib/ddns-ipv6.service).                                             *)
CorrectedFileRuns == <>[]Complete(file, env) => <>[](stage = "running")

(* config.sample.toml, below the [[hosts]] tables: "How often (in seconds) *)
(* to poll the reference domain for prefix changes."                       *)
WrittenIntervalIsUsed ==
  stage = "running" =>
    \A i \in 1..Len(raw.hosts) :
      Has(raw.hosts[i], {"interval_secs"}) => config.interval_secs = raw.hosts[i].interval_secs
=============================================================================
