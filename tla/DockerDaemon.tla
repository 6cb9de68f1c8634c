---------------------------- MODULE DockerDaemon ----------------------------
(***************************************************************************)
(* Daemon with Docker discovery: docker.rs.  A discovery lists the         *)
(* labelled containers and then inspects one after the other, while they   *)
(* are started, removed and moved between networks; `phase` is where the   *)
(* main task is inside the discovery, whose answer Daemon takes as a whole.*)
(***************************************************************************)
EXTENDS Daemon

CONSTANTS
  Container,   \* the containers with the label "ddns.domain", by their id
  label,       \* the value of that label: a domain, or empty
  NoDomain,    \* the empty label
  Networked,   \* sets of addresses the networks of a container may give it
  MaxChanges,  \* bound: changes of the containers
  MaxFaults    \* bound: calls of the Docker API and updates that fail

(* At most one host for each container.                                    *)
HostLists == UNION {[1..n -> Host] : n \in 0..Cardinality(Container)}

(* What Docker knows of a container: is it there, and the suffixes of the  *)
(* global unicast addresses in its networks.                               *)
Absent == [there |-> FALSE, suffixes |-> {}]
ContainerState == {Absent} \cup [there : {TRUE}, suffixes : Networked]

ASSUME DockerDaemonAssumption ==
  /\ IsFiniteSet(Container)
  /\ label \in [Container -> Domain \cup {NoDomain}] /\ NoDomain \notin Domain
  /\ Networked \subseteq SUBSET Suffix
  /\ Discoverable = HostLists
  /\ MaxChanges \in Nat /\ MaxFaults \in Nat

VARIABLES
  containers,  \* the state of each container
  phase,       \* "idle" or "inspect"
  listed,      \* the listed containers that have not been inspected
  hosts,       \* the entries found so far
  changes, faults,
  held,        \* history: suffixes a container had since it was listed
  touched,     \* history: containers that changed since the listing
  skipped      \* history: containers the discovery gave up on by an error

discovery == <<phase, listed, hosts>>
history == <<held, touched, skipped>>
allVars == <<vars, containers, discovery, changes, faults, history>>

DockerInit ==
  /\ Init
  /\ containers \in [Container -> ContainerState]
  /\ phase = "idle" /\ listed = {} /\ hosts = <<>>
  /\ changes = 0 /\ faults = 0
  /\ held = {} /\ touched = {} /\ skipped = {}

-----------------------------------------------------------------------------
(* DockerDiscoverer::discover.                                             *)

Discovering == pc \in {"startup", "discover"}

Held(c, state) == {c} \X state.suffixes

(* Slip: the entries of the last discovery are kept.                       *)
ListKeepsHosts ==
  /\ Discovering /\ phase = "idle"
  /\ phase' = "inspect"
  /\ listed' = {c \in Container : containers[c].there}
  /\ held' = UNION {Held(c, containers[c]) : c \in Container}
  /\ touched' = {} /\ skipped' = {}
  /\ UNCHANGED <<vars, containers, hosts, changes, faults>>

(* Running or not, all labelled containers are listed.                     *)
list_labeled_containers ==
  /\ Discovering /\ phase = "idle"
  /\ phase' = "inspect"
  /\ listed' = {c \in Container : containers[c].there}
  /\ hosts' = <<>>
  /\ held' = UNION {Held(c, containers[c]) : c \in Container}
  /\ touched' = {} /\ skipped' = {}
  /\ UNCHANGED <<vars, containers, changes, faults>>

Inspecting(c) == phase = "inspect" /\ c \in listed /\ listed' = listed \ {c}

(* The networks are a map in no fixed order: any of the addresses will do. *)
InspectFound(c) ==
  /\ Inspecting(c) /\ label[c] # NoDomain
  /\ \E s \in containers[c].suffixes : hosts' = Append(hosts, [suffix |-> s, domain |-> label[c]])
  /\ UNCHANGED <<vars, containers, phase, changes, faults, history>>

(* An empty label, no global address, or the container is gone by now.     *)
InspectNothing(c) ==
  /\ Inspecting(c)
  /\ label[c] = NoDomain \/ containers[c].suffixes = {}
  /\ UNCHANGED <<vars, containers, phase, hosts, changes, faults, history>>

(* Slip: the error ends the discovery.                                     *)
InspectErrEndsDiscovery(c) ==
  /\ phase = "inspect" /\ c \in listed /\ label[c] # NoDomain
  /\ faults < MaxFaults /\ faults' = faults + 1
  /\ listed' = {}
  /\ skipped' = skipped \cup {c}
  /\ UNCHANGED <<vars, containers, phase, hosts, changes, held, touched>>

InspectErr(c) ==
  /\ Inspecting(c) /\ label[c] # NoDomain
  /\ faults < MaxFaults /\ faults' = faults + 1
  /\ skipped' = skipped \cup {c}
  /\ UNCHANGED <<vars, containers, phase, hosts, changes, held, touched>>

(* Slip: the configured hosts are merged by discover() and by its caller.  *)
AnswerMergedTwice(found) ==
  StartupDiscover(static_suffixes \o found) \/ Discover(static_suffixes \o found)

Answer(found) == StartupDiscover(found) \/ Discover(found)

(* Slip: a failed listing ends the cycle, as a failed detection does.      *)
ListErrEndsCycle ==
  /\ phase = "idle"
  /\ faults < MaxFaults /\ faults' = faults + 1
  /\ \/ StartupDiscover(<<>>)
     \/ /\ pc = "discover" /\ pc' = AfterCycle
        /\ UNCHANGED <<suffixes, idx, prefix, error_count, request, cache, tasks, store,
                       restarts, owed>>
  /\ skipped' = Container /\ touched' = {} /\ held' = {}
  /\ UNCHANGED <<containers, discovery, changes>>

(* Discovery is best-effort: a failed listing is an empty list.            *)
ListErr ==
  /\ phase = "idle"
  /\ faults < MaxFaults /\ faults' = faults + 1
  /\ Answer(<<>>)
  /\ skipped' = Container /\ touched' = {} /\ held' = {}
  /\ UNCHANGED <<containers, discovery, changes>>

DiscoveryDone ==
  /\ phase = "inspect" /\ listed = {}
  /\ Answer(hosts)
  /\ phase' = "idle"
  /\ UNCHANGED <<containers, listed, hosts, changes, faults, history>>

Discovery ==
  \/ list_labeled_containers
  \/ \E c \in Container : InspectFound(c) \/ InspectNothing(c)
  \/ DiscoveryDone

-----------------------------------------------------------------------------
(* The rest of the daemon, and those who start and stop containers.        *)

Unmoved == UNCHANGED <<containers, discovery, changes, faults, history>>

OtherSteps ==
  \/ SeedSome \/ SeedNothing \/ SeedDone \/ EnterLoop
  \/ (\E p \in Prefix : DetectOk(p)) \/ DetectErr
  \/ SkipUpdate \/ SendUpdate \/ SetRecordOk \/ EndCycle
  \/ Wake \/ Shutdown

Main == OtherSteps /\ Unmoved

UpdateFails ==
  /\ SetRecordErr
  /\ faults < MaxFaults /\ faults' = faults + 1
  /\ UNCHANGED <<containers, discovery, changes, history>>

(* The signal tasks are left asleep in an environment that never sends     *)
(* their signals: nothing else depends on them.                            *)
Others ==
  /\ \/ Signals \cap {"INT", "USR1"} # {} /\ SignalStep
     \/ StoreStep \/ NotifyChange \/ RaiseSignal \/ Halted
  /\ Unmoved

(* A new process has no discovery in progress.                             *)
DockerRestart ==
  /\ Restart
  /\ phase' = "idle" /\ listed' = {} /\ hosts' = <<>>
  /\ held' = {} /\ touched' = {} /\ skipped' = {}
  /\ UNCHANGED <<containers, changes, faults>>

(* A container is created, stopped, removed or given other addresses.      *)
ChangeContainer(c, new) ==
  /\ changes < MaxChanges /\ changes' = changes + 1
  /\ containers' = [containers EXCEPT ![c] = new]
  /\ touched' = touched \cup {c}
  /\ held' = held \cup Held(c, new)
  /\ UNCHANGED <<vars, discovery, faults, skipped>>

DockerNext ==
  \/ Discovery \/ Main
  \/ ListErr \/ UpdateFails \/ (\E c \in Container : InspectErr(c))
  \/ Others \/ DockerRestart
  \/ \E c \in Container :
       \E new \in ContainerState \ {containers[c]} : ChangeContainer(c, new)

DockerSpec == DockerInit /\ [][DockerNext]_allVars

-----------------------------------------------------------------------------
(* Types; nothing is left to inspect outside a discovery (docker.rs).      *)
DockerTypeOK ==
  /\ TypeOK
  /\ containers \in [Container -> ContainerState]
  /\ phase \in {"idle", "inspect"} /\ (phase = "inspect" => Discovering \/ ~Running)
  /\ listed \subseteq Container /\ (phase = "idle" => listed = {})
  /\ hosts \in Seq(Host) /\ Len(hosts) + Cardinality(listed) <= Cardinality(Container)
  /\ changes \in 0..MaxChanges /\ faults \in 0..MaxFaults
  /\ held \subseteq Container \X Suffix
  /\ touched \subseteq Container /\ skipped \subseteq Container

(* Every behaviour with Docker discovery is a behaviour of Daemon.         *)
ImplementsDaemon == Spec

(* Every entry a discovery adds to the configured ones belongs to a        *)
(* container of that domain that had the suffix while the discovery ran:   *)
(* nothing is left over from an earlier discovery (docker.rs discover).    *)
DiscoveredHostsExisted ==
  pc \in {"seed", "apply", "await"} =>
    \A i \in (Len(static_suffixes) + 1)..Len(suffixes) :
      \E c \in Container :
        /\ label[c] = suffixes[i].domain
        /\ <<c, suffixes[i].suffix>> \in held

Owners(d) == {c \in Container : label[c] = d /\ containers[c].suffixes # {}}

(* After a cycle without errors a domain whose containers kept still since *)
(* they were listed has the address of one of them, whatever happened to   *)
(* other containers and their inspections, and also if the domain is       *)
(* configured by hand (README.md: "the Docker-discovered entry wins").     *)
ContainersArePublished ==
  (pc \in {"enter", "select"} /\ prefix # None /\ error_count = 0) =>
    \A d \in Domain :
      LET affected == {c \in Container : label[c] = d} \cap (touched \cup skipped)
      IN  (Owners(d) # {} /\ affected = {}) =>
            \/ \E c \in Owners(d), s \in Suffix :
                 s \in containers[c].suffixes /\ dns[d] = combine(prefix, s)
            \/ <<d, dns[d]>> \in lost

(* Whatever fails at Docker, the listing included, the configured hosts    *)
(* are looked after: a cycle without errors leaves a configured domain     *)
(* with its own suffix under the new prefix, or with the suffix of one of  *)
(* its containers (docker.rs discover, whose errors are an empty list;     *)
(* main.rs run_update_cycle).                                              *)
ConfiguredArePublished ==
  (pc \in {"enter", "select"} /\ prefix # None /\ error_count = 0) =>
    \A i \in 1..Len(static_suffixes) :
      LET d == static_suffixes[i].domain
      IN  (\A j \in (i + 1)..Len(static_suffixes) : static_suffixes[j].domain # d) =>
            \/ dns[d] = combine(prefix, static_suffixes[i].suffix)
            \/ \E c \in Container, s \in Suffix :
                 label[c] = d /\ <<c, s>> \in held /\ dns[d] = combine(prefix, s)
            \/ <<d, dns[d]>> \in lost
=============================================================================
