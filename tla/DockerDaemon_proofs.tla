------------------------- MODULE DockerDaemon_proofs -------------------------
(***************************************************************************)
(* With Docker discovery the daemon still implements Daemon, for any       *)
(* containers; what a discovery adds existed, and after a clean cycle it   *)
(* is published.                                                           *)
(***************************************************************************)
EXTENDS DockerDaemon, DaemonRefinement_proofs, WellFoundedInduction

(* The part of DockerTypeOK that does not depend on the other modules.     *)
DiscoveryTypes ==
  /\ containers \in [Container -> ContainerState]
  /\ phase \in {"idle", "inspect"} /\ (phase = "inspect" => Discovering \/ ~Running)
  /\ listed \subseteq Container /\ (phase = "idle" => listed = {})
  /\ hosts \in Seq(Host) /\ Len(hosts) + Cardinality(listed) <= Cardinality(Container)
  /\ changes \in 0..MaxChanges /\ faults \in 0..MaxFaults
  /\ held \subseteq Container \X Suffix
  /\ touched \subseteq Container /\ skipped \subseteq Container

LEMMA DockerBounds ==
  /\ IsFiniteSet(Container) /\ Cardinality(Container) \in Nat
  /\ MaxChanges \in Nat /\ MaxFaults \in Nat
  /\ Discoverable = HostLists
  /\ label \in [Container -> Domain \cup {NoDomain}]
<1>1. IsFiniteSet(Container)
  BY DockerDaemonAssumption
<1>2. Cardinality(Container) \in Nat
  BY <1>1, FS_CardinalityType
<1> QED
  BY <1>1, <1>2, DockerDaemonAssumption

(* A container's suffixes are suffixes.                                    *)
LEMMA StatesHold ==
  ASSUME NEW c \in Container, NEW state \in ContainerState
  PROVE  /\ state.suffixes \subseteq Suffix
         /\ Held(c, state) \subseteq Container \X Suffix
<1>1. Networked \subseteq SUBSET Suffix
  BY DockerDaemonAssumption
<1>2. CASE state = Absent
  BY <1>2 DEF Absent, Held
<1>3. CASE state \in [there : {TRUE}, suffixes : Networked]
  BY <1>1, <1>3 DEF Held
<1> QED
  BY <1>2, <1>3 DEF ContainerState

(* What is listed is finite, and shrinks by one with each inspection.      *)
LEMMA ListedIsFinite ==
  ASSUME NEW S, S \subseteq Container
  PROVE  IsFiniteSet(S) /\ Cardinality(S) \in Nat /\ Cardinality(S) <= Cardinality(Container)
  BY DockerBounds, FS_Subset, FS_CardinalityType

LEMMA InspectionShrinks ==
  ASSUME listed \subseteq Container, NEW c \in listed
  PROVE  Cardinality(listed \ {c}) + 1 = Cardinality(listed)
<1>1. IsFiniteSet(listed) /\ Cardinality(listed) \in Nat
  BY ListedIsFinite
<1>2. Cardinality(listed \ {c}) = Cardinality(listed) - 1
  BY <1>1, FS_RemoveElement
<1> QED
  BY <1>1, <1>2

(* A list that is not longer than the containers are many is one that      *)
(* discovery may return.                                                   *)
LEMMA ShortListsAreDiscoverable ==
  ASSUME NEW h \in Seq(Host), Len(h) <= Cardinality(Container)
  PROVE  h \in Discoverable
<1>1. Len(h) \in 0..Cardinality(Container)
  BY DockerBounds
<1>2. h \in [1..Len(h) -> Host]
  OBVIOUS
<1> QED
  BY <1>1, <1>2, DockerBounds DEF HostLists

LEMMA DockerTypesInit == DockerInit => DiscoveryTypes
<1> SUFFICES ASSUME DockerInit PROVE DiscoveryTypes
  OBVIOUS
<1>1. Cardinality({}) = 0
  BY FS_EmptySet
<1>2. hosts \in Seq(Host) /\ Len(hosts) = 0
  BY DEF DockerInit
<1>3. changes \in 0..MaxChanges /\ faults \in 0..MaxFaults
  BY DockerBounds DEF DockerInit
<1> QED
  BY <1>1, <1>2, <1>3, DockerBounds DEF DockerInit, DiscoveryTypes

(* Between two of its steps a discovery is not disturbed by the daemon.    *)
LEMMA OtherStepsLeaveDiscovery ==
  ASSUME Main \/ UpdateFails \/ Others
  PROVE  /\ phase = "inspect" /\ Discovering => Discovering' \/ ~Running'
         /\ ~Running => ~Running'
  BY DEF Main, OtherSteps, UpdateFails, Others, SetRecordErr, Wake, SignalStep, StoreStep,
       RaiseSignal, SeedSome, SeedNothing, SeedDone, EnterLoop, DetectOk, DetectErr, SkipUpdate,
       SendUpdate, SetRecordOk, SetRecordRefused, SetRecordTimeout, EndCycle, WakeChange,
       WakeRefresh, Shutdown, RegisterHandler, HandleSigint, HandleSigusr1, RaiseCaught,
       RaiseUncaught, NotifyChange, ApplyRequest, ApplyLate, Halted, vars, Running, Discovering

LEMMA DockerTypesStep == DiscoveryTypes /\ [DockerNext]_allVars => DiscoveryTypes'
<1> SUFFICES ASSUME DiscoveryTypes, [DockerNext]_allVars PROVE DiscoveryTypes'
  OBVIOUS
<1> USE DockerBounds DEF DiscoveryTypes, discovery, history
<1>a. ASSUME faults < MaxFaults, faults' = faults + 1 PROVE faults' \in 0..MaxFaults
  BY <1>a
<1>b. Cardinality({}) = 0 /\ <<>> \in Seq(Host) /\ Len(<<>>) = 0
  BY FS_EmptySet
<1>c. Len(hosts) \in Nat
  OBVIOUS
<1>1. CASE list_labeled_containers
  <2>1. listed' \subseteq Container /\ hosts' = <<>> /\ phase' = "inspect" /\ Discovering'
    BY <1>1 DEF list_labeled_containers, Discovering, vars
  <2>2. Cardinality(listed') <= Cardinality(Container) /\ Cardinality(listed') \in Nat
    BY <2>1, ListedIsFinite
  <2>3. held' \subseteq Container \X Suffix
    BY <1>1, StatesHold DEF list_labeled_containers
  <2> QED
    BY <1>1, <1>b, <2>1, <2>2, <2>3 DEF list_labeled_containers
<1>2. ASSUME NEW c \in Container, InspectFound(c) \/ InspectNothing(c) \/ InspectErr(c)
      PROVE  DiscoveryTypes'
  <2>1. /\ listed' = listed \ {c} /\ c \in listed /\ phase' = phase /\ phase = "inspect"
        /\ UNCHANGED <<vars, containers, changes, held, touched>>
    BY <1>2 DEF InspectFound, InspectNothing, InspectErr, Inspecting
  <2>2. /\ Cardinality(listed') + 1 = Cardinality(listed) /\ Cardinality(listed') \in Nat
        /\ Cardinality(listed) \in Nat
    BY <2>1, InspectionShrinks, ListedIsFinite
  <2>3. /\ hosts' \in Seq(Host) /\ Len(hosts') <= Len(hosts) + 1
    <3>1. CASE InspectFound(c)
      <4>1. PICK s \in containers[c].suffixes :
              hosts' = Append(hosts, [suffix |-> s, domain |-> label[c]])
        BY <3>1 DEF InspectFound
      <4>2. s \in Suffix
        BY <4>1, StatesHold
      <4>3. label[c] \in Domain
        BY <3>1 DEF InspectFound
      <4> QED
        BY <1>c, <4>1, <4>2, <4>3 DEF Host
    <3>2. CASE InspectNothing(c) \/ InspectErr(c)
      BY <1>c, <3>2 DEF InspectNothing, InspectErr
    <3> QED
      BY <1>2, <3>1, <3>2
  <2>4. faults' \in 0..MaxFaults
    BY <1>2, <1>a DEF InspectFound, InspectNothing, InspectErr
  <2>5. skipped' \subseteq Container
    BY <1>2 DEF InspectFound, InspectNothing, InspectErr
  <2>6. Len(hosts') + Cardinality(listed') <= Cardinality(Container)
    <3>1. Len(hosts') \in Nat
      BY <2>3
    <3> QED
      BY <1>c, <2>2, <2>3, <3>1
  <2> QED
    BY <2>1, <2>3, <2>4, <2>5, <2>6 DEF vars, Discovering, Running
<1>3. CASE DiscoveryDone
  BY <1>3 DEF DiscoveryDone, StartupDiscover, Discover
<1>4. CASE ListErr
  BY <1>4, <1>a DEF ListErr
<1>5. CASE Main \/ UpdateFails \/ Others
  <2>1. UNCHANGED <<containers, discovery, changes, history>>
    BY <1>5 DEF Main, UpdateFails, Others, Unmoved
  <2>2. faults' \in 0..MaxFaults
    BY <1>5, <1>a DEF Main, UpdateFails, Others, Unmoved
  <2> QED
    BY <1>5, <2>1, <2>2, OtherStepsLeaveDiscovery
<1>6. CASE DockerRestart
  BY <1>6, <1>b DEF DockerRestart
<1>7. ASSUME NEW c \in Container, NEW new \in ContainerState, ChangeContainer(c, new)
      PROVE  DiscoveryTypes'
  <2>1. changes' \in 0..MaxChanges
    BY <1>7 DEF ChangeContainer
  <2>2. held' \subseteq Container \X Suffix
    BY <1>7, StatesHold DEF ChangeContainer
  <2> QED
    BY <1>7, <2>1, <2>2 DEF ChangeContainer, vars, Discovering, Running
<1>8. CASE UNCHANGED allVars
  BY <1>8 DEF allVars, vars, Discovering, Running
<1> QED
  BY <1>1, <1>2, <1>3, <1>4, <1>5, <1>6, <1>7, <1>8 DEF DockerNext, Discovery

-----------------------------------------------------------------------------
(* A step of a discovery is invisible until it answers, and its answer is  *)
(* one that Daemon allows.                                                 *)
LEMMA AnswerIsDaemonStep ==
  ASSUME NEW h \in Discoverable, Answer(h)
  PROVE  Next
<1>1. pc \in {"startup", "discover"} /\ (StartupDiscover(h) \/ Discover(h))
  BY DEF Answer, StartupDiscover, Discover
<1> QED
  BY <1>1 DEF Next, MainStep, UpdateStep

LEMMA DockerStepIsDaemonStep == DiscoveryTypes /\ [DockerNext]_allVars => [Next]_vars
<1> SUFFICES ASSUME DiscoveryTypes, [DockerNext]_allVars PROVE [Next]_vars
  OBVIOUS
<1>1. CASE DiscoveryDone
  <2>1. Cardinality({}) = 0
    BY FS_EmptySet
  <2>2. Len(hosts) <= Cardinality(Container) /\ hosts \in Seq(Host)
    BY <1>1, <2>1, DockerBounds DEF DiscoveryTypes, DiscoveryDone
  <2> QED
    BY <1>1, <2>2, ShortListsAreDiscoverable, AnswerIsDaemonStep DEF DiscoveryDone
<1>2. CASE ListErr
  <2>1. <<>> \in Seq(Host) /\ Len(<<>>) <= Cardinality(Container)
    BY DockerBounds
  <2> QED
    BY <1>2, <2>1, ShortListsAreDiscoverable, AnswerIsDaemonStep DEF ListErr
<1>3. CASE list_labeled_containers
           \/ \E c \in Container : InspectFound(c) \/ InspectNothing(c) \/ InspectErr(c)
  BY <1>3 DEF list_labeled_containers, InspectFound, InspectNothing, InspectErr
<1>4. CASE Main \/ UpdateFails \/ Others
  BY <1>4 DEF Main, OtherSteps, UpdateFails, Others, Next, MainStep, UpdateStep
<1>5. CASE DockerRestart
  BY <1>5 DEF DockerRestart, Next
<1>6. CASE \E c \in Container :
             \E new \in ContainerState \ {containers[c]} : ChangeContainer(c, new)
  BY <1>6 DEF ChangeContainer
<1>7. CASE UNCHANGED allVars
  BY <1>7 DEF allVars
<1> QED
  BY <1>1, <1>2, <1>3, <1>4, <1>5, <1>6, <1>7 DEF DockerNext, Discovery

(* Whatever the containers do while they are inspected, a daemon that      *)
(* discovers them behaves as Daemon allows (docker.rs discover).           *)
THEOREM DiscoveryImplementsDaemon == DockerSpec => ImplementsDaemon
<1>1. DockerInit => Init
  BY DEF DockerInit
<1> QED
  BY <1>1, DockerTypesInit, DockerTypesStep, DockerStepIsDaemonStep, PTL
     DEF DockerSpec, ImplementsDaemon, Spec

(* The discovery keeps its types; the daemon's come with the refinement.   *)
THEOREM DockerTypeCorrect == DockerSpec => []DockerTypeOK
<1>1. DockerSpec => []DiscoveryTypes
  BY DockerTypesInit, DockerTypesStep, PTL DEF DockerSpec
<1>2. TypeOK /\ DiscoveryTypes => DockerTypeOK
  BY DEF DiscoveryTypes, DockerTypeOK
<1>3. ImplementsDaemon => []TypeOK
  BY TypeCorrect DEF ImplementsDaemon
<1> QED
  BY <1>1, <1>2, <1>3, DiscoveryImplementsDaemon, PTL

(* So does it keep what Daemon promises for an arbitrary discovery; the    *)
(* suffixes a record may have are those of the lists Discoverable.         *)
THEOREM DiscoveryKeepsPromises ==
  DockerSpec =>
    /\ [](NoLostWakeup /\ CacheHonest /\ ErrorsAccountForStale /\ ErrorFreeCyclePublishes)
    /\ PublishesOnlyComputedAddresses
<1>1. ImplementsDaemon =>
        /\ [](NoLostWakeup /\ CacheHonest /\ ErrorsAccountForStale /\ ErrorFreeCyclePublishes)
        /\ PublishesOnlyComputedAddresses
  BY WakeupsAreKept, CacheIsHonest, ErrorsAreReported, CleanCyclePublishes, DaemonPublishes, PTL
     DEF ImplementsDaemon
<1> QED
  BY <1>1, DiscoveryImplementsDaemon

-----------------------------------------------------------------------------
(* What has been found so far, and what the last discovery has added.      *)

(* A host belongs to a container that had its suffix, and still has it     *)
(* unless it changed since it was listed.                                  *)
Genuine(h) ==
  \E c \in Container :
    /\ label[c] = h.domain /\ <<c, h.suffix>> \in held
    /\ c \notin touched => h.suffix \in containers[c].suffixes

Findable(c) ==
  c \notin touched \cup skipped /\ label[c] # NoDomain /\ containers[c].suffixes # {}

Seen == \A c \in Container : Held(c, containers[c]) \subseteq held

DuringDiscovery ==
  phase = "inspect" =>
    /\ Seen
    /\ \A i \in 1..Len(hosts) : Genuine(hosts[i])
    /\ \A c \in Container \ listed :
         Findable(c) => \E i \in 1..Len(hosts) : hosts[i].domain = label[c]

AfterDiscovery ==
  (phase = "idle" /\ pc \notin {"startup", "discover", "stopped", "killed"}) =>
    /\ Len(static_suffixes) <= Len(suffixes)
    /\ \A i \in 1..Len(static_suffixes) : suffixes[i] = static_suffixes[i]
    /\ \A i \in (Len(static_suffixes) + 1)..Len(suffixes) : Genuine(suffixes[i])
    /\ \A c \in Container : Findable(c) =>
         \E i \in (Len(static_suffixes) + 1)..Len(suffixes) : suffixes[i].domain = label[c]

DiscoveryInv == DiscoveryTypes /\ DuringDiscovery /\ AfterDiscovery

LEMMA DiscoveryInvInit == DockerInit => DiscoveryInv
  BY DockerTypesInit DEF DockerInit, Init, DiscoveryInv, DuringDiscovery, AfterDiscovery

(* The containers and the history are read by these formulas alone.        *)
LEMMA SameContainers ==
  ASSUME UNCHANGED <<containers, held, touched>>, NEW h
  PROVE  Genuine(h)' = Genuine(h)
  BY DEF Genuine

(* A change of a container only takes away from what has to be found.      *)
LEMMA ChangeKeepsGenuine ==
  ASSUME NEW c \in Container, NEW new \in ContainerState, ChangeContainer(c, new),
         containers \in [Container -> ContainerState], NEW h, Genuine(h)
  PROVE  Genuine(h)'
<1>1. PICK d \in Container :
        /\ label[d] = h.domain /\ <<d, h.suffix>> \in held
        /\ d \notin touched => h.suffix \in containers[d].suffixes
  BY DEF Genuine
<1>2. <<d, h.suffix>> \in held' /\ touched' = touched \cup {c}
  BY <1>1 DEF ChangeContainer
<1>3. d # c => containers'[d] = containers[d]
  BY DEF ChangeContainer
<1> QED
  BY <1>1, <1>2, <1>3 DEF Genuine

LEMMA ChangeKeepsFindable ==
  ASSUME NEW c \in Container, NEW new \in ContainerState, ChangeContainer(c, new),
         containers \in [Container -> ContainerState], NEW d \in Container, Findable(d)'
  PROVE  Findable(d)
<1>1. d # c /\ d \notin touched \cup skipped /\ label[d] # NoDomain
  BY DEF Findable, ChangeContainer
<1>2. containers'[d] = containers[d]
  BY <1>1 DEF ChangeContainer
<1> QED
  BY <1>1, <1>2 DEF Findable

LEMMA InspectKeepsInv ==
  ASSUME DiscoveryInv, DiscoveryTypes', NEW c \in Container,
         InspectFound(c) \/ InspectNothing(c) \/ InspectErr(c)
  PROVE  DiscoveryInv'
<1>1. /\ phase = "inspect" /\ phase' = phase /\ listed' = listed \ {c}
      /\ UNCHANGED <<containers, held, touched>>
  BY DEF InspectFound, InspectNothing, InspectErr, Inspecting, history
<1>2. /\ hosts \in Seq(Host) /\ Len(hosts) \in Nat
      /\ Seen /\ \A i \in 1..Len(hosts) : Genuine(hosts[i])
      /\ \A d \in Container \ listed :
           Findable(d) => \E i \in 1..Len(hosts) : hosts[i].domain = label[d]
  BY <1>1 DEF DiscoveryInv, DiscoveryTypes, DuringDiscovery
<1>3. Seen'
  BY <1>1, <1>2 DEF Seen, Held
<1>4. /\ \A i \in 1..Len(hosts)' : Genuine(hosts[i])'
      /\ \A d \in Container \ listed' :
           Findable(d)' => \E i \in 1..Len(hosts') : hosts'[i].domain = label[d]
  <2>1. CASE InspectFound(c)
    <3>1. PICK s \in containers[c].suffixes :
            hosts' = Append(hosts, [suffix |-> s, domain |-> label[c]])
      BY <2>1 DEF InspectFound
    <3> DEFINE h == [suffix |-> s, domain |-> label[c]]
    <3>2. h \in Host
      <4>1. s \in Suffix
        BY <3>1, StatesHold DEF DiscoveryInv, DiscoveryTypes
      <4>2. label[c] \in Domain
        BY <2>1, DockerBounds DEF InspectFound
      <4> QED
        BY <4>1, <4>2 DEF Host
    <3>3. /\ Len(hosts') = Len(hosts) + 1 /\ hosts'[Len(hosts) + 1] = h
          /\ \A i \in 1..Len(hosts) : hosts'[i] = hosts[i]
      BY <1>2, <3>1, <3>2
    <3>4. Genuine(h)
      <4>1. <<c, s>> \in held
        BY <1>2, <3>1 DEF Seen, Held
      <4> QED
        BY <3>1, <4>1 DEF Genuine
    <3>5. \A i \in 1..Len(hosts)' : Genuine(hosts[i])'
      <4> SUFFICES ASSUME NEW i \in 1..Len(hosts') PROVE Genuine(hosts'[i])
        BY <1>1 DEF Genuine
      <4>1. CASE i = Len(hosts) + 1
        BY <3>3, <3>4, <4>1
      <4>2. CASE i \in 1..Len(hosts)
        BY <1>2, <3>3, <4>2
      <4> QED
        BY <1>2, <3>3, <4>1, <4>2
    <3>6. ASSUME NEW d \in Container \ listed', Findable(d)'
          PROVE  \E i \in 1..Len(hosts') : hosts'[i].domain = label[d]
      <4>1. CASE d = c
        <5>1. Len(hosts) + 1 \in 1..Len(hosts') /\ hosts'[Len(hosts) + 1].domain = label[c]
          BY <1>2, <3>3
        <5> QED
          BY <4>1, <5>1
      <4>2. CASE d \notin listed
        <5>1. Findable(d)
          BY <1>1, <2>1, <3>6 DEF Findable, InspectFound, history
        <5>2. PICK i \in 1..Len(hosts) : hosts[i].domain = label[d]
          BY <1>2, <4>2, <5>1
        <5> QED
          BY <1>2, <3>3, <5>2
      <4> QED
        BY <1>1, <4>1, <4>2
    <3> QED
      BY <3>5, <3>6
  <2>2. CASE InspectNothing(c) \/ InspectErr(c)
    <3>1. hosts' = hosts
      BY <2>2 DEF InspectNothing, InspectErr
    <3>2. \A i \in 1..Len(hosts)' : Genuine(hosts[i])'
      BY <1>1, <1>2, <3>1 DEF Genuine
    <3>3. \A d \in Container : Findable(d)' => Findable(d) /\ d # c
      BY <1>1, <2>2 DEF Findable, InspectNothing, InspectErr, history
    <3> QED
      BY <1>1, <1>2, <3>1, <3>2, <3>3
  <2> QED
    BY <2>1, <2>2
<1> QED
  BY <1>1, <1>3, <1>4 DEF DiscoveryInv, DuringDiscovery, AfterDiscovery

LEMMA DoneKeepsInv ==
  ASSUME DiscoveryInv, DiscoveryTypes', DiscoveryDone
  PROVE  DiscoveryInv'
<1>1. /\ phase = "inspect" /\ listed = {} /\ phase' = "idle" /\ suffixes' = static_suffixes \o hosts
      /\ UNCHANGED <<containers, hosts, held, touched, skipped>>
  BY DEF DiscoveryDone, Answer, StartupDiscover, Discover, history
<1>2. /\ hosts \in Seq(Host) /\ \A i \in 1..Len(hosts) : Genuine(hosts[i])
      /\ \A d \in Container :
           Findable(d) => \E i \in 1..Len(hosts) : hosts[i].domain = label[d]
  BY <1>1 DEF DiscoveryInv, DiscoveryTypes, DuringDiscovery
<1>3. static_suffixes \in Seq(Host) /\ Len(static_suffixes) \in Nat /\ Len(hosts) \in Nat
  BY <1>2, DaemonAssumption
<1>4. /\ Len(suffixes') = Len(static_suffixes) + Len(hosts)
      /\ \A i \in 1..Len(hosts) : suffixes'[Len(static_suffixes) + i] = hosts[i]
  BY <1>1, <1>2, <1>3
<1>5. ASSUME NEW i \in (Len(static_suffixes) + 1)..Len(suffixes') PROVE Genuine(suffixes[i])'
  <2>1. PICK k \in 1..Len(hosts) : i = Len(static_suffixes) + k
    <3>1. i - Len(static_suffixes) \in 1..Len(hosts)
          /\ i = Len(static_suffixes) + (i - Len(static_suffixes))
      BY <1>3, <1>4
    <3> QED
      BY <3>1
  <2>2. suffixes'[i] = hosts[k] /\ Genuine(hosts[k])
    BY <1>2, <1>4, <2>1
  <2> QED
    BY <1>1, <2>2 DEF Genuine
<1>6. ASSUME NEW d \in Container, Findable(d)'
      PROVE  \E i \in (Len(static_suffixes) + 1)..Len(suffixes') : suffixes'[i].domain = label[d]
  <2>1. Findable(d)
    BY <1>1, <1>6 DEF Findable
  <2>2. PICK i \in 1..Len(hosts) : hosts[i].domain = label[d]
    BY <1>2, <2>1
  <2>3. Len(static_suffixes) + i \in (Len(static_suffixes) + 1)..Len(suffixes')
    BY <1>3, <1>4
  <2> QED
    BY <1>4, <2>2, <2>3
<1>7. /\ Len(static_suffixes) <= Len(suffixes')
      /\ \A i \in 1..Len(static_suffixes) : suffixes'[i] = static_suffixes[i]
  BY <1>1, <1>2, <1>3, <1>4
<1> QED
  BY <1>1, <1>5, <1>6, <1>7 DEF DiscoveryInv, DuringDiscovery, AfterDiscovery

(* The other steps of the daemon leave the list of hosts alone.            *)
LEMMA OtherStepsKeepHosts ==
  ASSUME Main \/ UpdateFails \/ Others,
         pc' \notin {"startup", "discover", "stopped", "killed"}
  PROVE  pc \notin {"startup", "discover", "stopped", "killed"} /\ suffixes' = suffixes
  BY DEF Main, OtherSteps, UpdateFails, Others, SetRecordErr, Wake, SignalStep, StoreStep,
       RaiseSignal, SeedSome, SeedNothing, SeedDone, EnterLoop, DetectOk, DetectErr, SkipUpdate,
       SendUpdate, SetRecordOk, SetRecordRefused, SetRecordTimeout, EndCycle, WakeChange,
       WakeRefresh, Shutdown, RegisterHandler, HandleSigint, HandleSigusr1, RaiseCaught,
       RaiseUncaught, NotifyChange, ApplyRequest, ApplyLate, Halted, vars, cycle, Running

LEMMA DiscoveryInvStep == DiscoveryInv /\ [DockerNext]_allVars => DiscoveryInv'
<1> SUFFICES ASSUME DiscoveryInv, [DockerNext]_allVars PROVE DiscoveryInv'
  OBVIOUS
<1>0. DiscoveryTypes'
  BY DockerTypesStep DEF DiscoveryInv
<1>1. CASE list_labeled_containers
  <2>1. /\ phase' = "inspect" /\ hosts' = <<>> /\ containers' = containers
        /\ listed' = {c \in Container : containers[c].there}
        /\ held' = UNION {Held(c, containers[c]) : c \in Container}
    BY <1>1 DEF list_labeled_containers
  <2>2. Seen'
    BY <2>1 DEF Seen, Held
  <2>3. ASSUME NEW c \in Container \ listed', Findable(c)' PROVE FALSE
    <3>1. containers[c] \in ContainerState /\ ~containers[c].there
      BY <2>1, <2>3 DEF DiscoveryInv, DiscoveryTypes
    <3>2. containers[c] = Absent
      BY <3>1 DEF ContainerState, Absent
    <3> QED
      BY <2>1, <2>3, <3>2 DEF Findable, Absent
  <2>4. Len(hosts') = 0
    BY <2>1
  <2> QED
    BY <1>0, <2>1, <2>2, <2>3, <2>4 DEF DiscoveryInv, DuringDiscovery, AfterDiscovery
<1>2. CASE \E c \in Container : InspectFound(c) \/ InspectNothing(c) \/ InspectErr(c)
  BY <1>0, <1>2, InspectKeepsInv
<1>3. CASE DiscoveryDone
  BY <1>0, <1>3, DoneKeepsInv
<1>4. CASE ListErr
  <2>1. phase' = "idle" /\ suffixes' = static_suffixes \o <<>> /\ skipped' = Container
    BY <1>4 DEF ListErr, Answer, StartupDiscover, Discover, discovery
  <2>2. Len(suffixes') = Len(static_suffixes) /\ Len(static_suffixes) \in Nat
    BY <2>1, DaemonAssumption
  <2>3. (Len(static_suffixes) + 1)..Len(suffixes') = {}
    BY <2>2
  <2>4. \A c \in Container : ~Findable(c)'
    BY <2>1 DEF Findable
  <2>5. \A i \in 1..Len(static_suffixes) : suffixes'[i] = static_suffixes[i]
    BY <2>1, DaemonAssumption
  <2> QED
    BY <1>0, <2>1, <2>2, <2>3, <2>4, <2>5 DEF DiscoveryInv, DuringDiscovery, AfterDiscovery
<1>5. CASE Main \/ UpdateFails \/ Others
  <2>1. UNCHANGED <<containers, phase, listed, hosts, held, touched, skipped>>
    BY <1>5 DEF Main, UpdateFails, Others, Unmoved, discovery, history
  <2>2. /\ Seen' = Seen /\ \A c : Findable(c)' = Findable(c)
        /\ \A i : Genuine(hosts[i])' = Genuine(hosts[i])
    BY <2>1 DEF Seen, Findable, Genuine
  <2>3. DuringDiscovery'
    BY <2>1, <2>2 DEF DiscoveryInv, DuringDiscovery
  <2>4. AfterDiscovery'
    <3> SUFFICES ASSUME pc' \notin {"startup", "discover", "stopped", "killed"}
                 PROVE  AfterDiscovery'
      BY DEF AfterDiscovery
    <3>1. pc \notin {"startup", "discover", "stopped", "killed"} /\ suffixes' = suffixes
      BY <1>5, OtherStepsKeepHosts
    <3> QED
      BY <2>1, <2>2, <3>1 DEF DiscoveryInv, AfterDiscovery, Genuine
  <2> QED
    BY <1>0, <2>3, <2>4 DEF DiscoveryInv
<1>6. CASE DockerRestart
  BY <1>0, <1>6 DEF DockerRestart, Restart, DiscoveryInv, DuringDiscovery, AfterDiscovery
<1>7. ASSUME NEW c \in Container, NEW new \in ContainerState, ChangeContainer(c, new)
      PROVE  DiscoveryInv'
  <2>1. containers \in [Container -> ContainerState]
    BY DEF DiscoveryInv, DiscoveryTypes
  <2>2. UNCHANGED <<pc, suffixes, phase, listed, hosts>>
    BY <1>7 DEF ChangeContainer, vars, cycle, discovery
  <2>3. Seen => Seen'
    BY <1>7, <2>1 DEF Seen, ChangeContainer, Held
  <2>4. \A h : Genuine(h) => Genuine(h)'
    BY <1>7, <2>1, ChangeKeepsGenuine
  <2>5. \A d \in Container : Findable(d)' => Findable(d)
    BY <1>7, <2>1, ChangeKeepsFindable
  <2>6. DuringDiscovery'
    BY <2>2, <2>3, <2>4, <2>5 DEF DiscoveryInv, DuringDiscovery, Genuine
  <2>7. AfterDiscovery'
    BY <2>2, <2>4, <2>5 DEF DiscoveryInv, AfterDiscovery, Genuine
  <2> QED
    BY <1>0, <2>6, <2>7 DEF DiscoveryInv
<1>8. CASE UNCHANGED allVars
  BY ZenonT(30), <1>0, <1>8 DEF allVars, vars, cycle, discovery, history, DiscoveryInv, DuringDiscovery,
       AfterDiscovery, Seen, Genuine, Findable
<1> QED
  BY <1>1, <1>2, <1>3, <1>4, <1>5, <1>6, <1>7, <1>8 DEF DockerNext, Discovery

(* Nothing is left over from an earlier discovery, however the containers  *)
(* come and go (docker.rs discover).                                       *)
THEOREM DiscoveredHostsExist == DockerSpec => []DiscoveredHostsExisted
<1>1. DiscoveryInv => DiscoveredHostsExisted
  BY DEF DiscoveryInv, DiscoveryTypes, Discovering, Running, AfterDiscovery, Genuine,
       DiscoveredHostsExisted
<1> QED
  BY <1>1, DiscoveryInvInit, DiscoveryInvStep, PTL DEF DockerSpec

(* Of the entries of a domain one is the last.                             *)
LEMMA LastEntry ==
  ASSUME NEW n \in Nat, NEW S, S \subseteq 1..n, S # {}
  PROVE  \E j \in S : \A k \in (j + 1)..n : k \notin S
<1> DEFINE T == {m \in Nat : n - m \in S}
<1>1. T # {}
  <2>1. PICK j \in S : TRUE
    OBVIOUS
  <2>2. n - j \in Nat /\ n - (n - j) = j
    BY <2>1
  <2> QED
    BY <2>1, <2>2
<1>2. PICK m \in T : \A l \in T : ~(<<l, m>> \in OpToRel(<, Nat))
  BY <1>1, NatLessThanWellFounded, WFMin
<1>3. \A l \in T : ~(l < m)
  BY <1>2 DEF OpToRel
<1>4. ASSUME NEW k \in ((n - m) + 1)..n, k \in S PROVE FALSE
  <2>1. m \in Nat
    BY <1>2
  <2>2. n - k \in Nat /\ n - (n - k) = k /\ n - k < m
    BY <2>1
  <2> QED
    BY <1>3, <1>4, <2>2
<1> QED
  BY <1>2, <1>4

(* After a clean cycle the containers that kept still are published.       *)
LEMMA PublishedInv ==
  TypeOK /\ DiscoveryInv /\ ErrorFreeCyclePublishes => ContainersArePublished
<1> SUFFICES ASSUME TypeOK, DiscoveryInv, ErrorFreeCyclePublishes,
                    pc \in {"enter", "select"}, prefix # None, error_count = 0, NEW d \in Domain,
                    Owners(d) # {}, {c \in Container : label[c] = d} \cap (touched \cup skipped) = {}
             PROVE  \/ \E c \in Owners(d), s \in Suffix :
                         s \in containers[c].suffixes /\ dns[d] = combine(prefix, s)
                    \/ <<d, dns[d]>> \in lost
  BY DEF ContainersArePublished
<1> DEFINE S == {j \in 1..Len(suffixes) : suffixes[j].domain = d}
           first == Len(static_suffixes) + 1
<1>1. /\ \A i \in first..Len(suffixes) : Genuine(suffixes[i])
      /\ \A c \in Container :
           Findable(c) => \E i \in first..Len(suffixes) : suffixes[i].domain = label[c]
  BY DEF DiscoveryInv, DiscoveryTypes, AfterDiscovery, Discovering, Running
<1>2. Len(suffixes) \in Nat /\ Len(static_suffixes) \in Nat
  BY DaemonAssumption DEF TypeOK
<1>3. PICK c \in Owners(d) : TRUE
  OBVIOUS
<1>4. PICK i \in first..Len(suffixes) : suffixes[i].domain = d
  <2>1. d # NoDomain
    BY DockerDaemonAssumption
  <2>2. Findable(c) /\ label[c] = d
    BY <1>3, <2>1 DEF Owners, Findable
  <2> QED
    BY <1>1, <1>3, <2>2 DEF Owners
<1>5. PICK j \in S : \A k \in (j + 1)..Len(suffixes) : k \notin S
  <2>1. S \subseteq 1..Len(suffixes) /\ S # {}
    BY <1>2, <1>4
  <2> HIDE DEF S
  <2> QED
    BY <1>2, <2>1, LastEntry
<1>6. j \in first..Len(suffixes)
  <2>1. ~(i \in (j + 1)..Len(suffixes))
    BY <1>2, <1>4, <1>5
  <2> QED
    BY <1>2, <1>4, <1>5, <2>1
<1>7. PICK o \in Container :
        label[o] = d /\ o \notin touched /\ suffixes[j].suffix \in containers[o].suffixes
  BY <1>1, <1>5, <1>6 DEF Genuine
<1>8. o \in Owners(d) /\ suffixes[j].suffix \in Suffix
  <2>1. containers[o].suffixes \subseteq Suffix
    BY StatesHold DEF DiscoveryInv, DiscoveryTypes
  <2> QED
    BY <1>7, <2>1 DEF Owners
<1>9. dns[d] = combine(prefix, suffixes[j].suffix) \/ <<d, dns[d]>> \in lost
  <2>1. \A k \in (j + 1)..Len(suffixes) : suffixes[k].domain # d
    BY <1>2, <1>5
  <2> QED
    BY <1>5, <2>1 DEF ErrorFreeCyclePublishes
<1> QED
  BY <1>7, <1>8, <1>9

(* Whatever happens to other containers and their inspections, those that  *)
(* kept still are published by a clean cycle (docker.rs discover, main.rs  *)
(* run_update_cycle).                                                      *)
THEOREM DiscoveryPublishes == DockerSpec => []ContainersArePublished
<1>1. ImplementsDaemon => [](TypeOK /\ ErrorFreeCyclePublishes)
  BY TypeCorrect, CleanCyclePublishes, PTL DEF ImplementsDaemon
<1>2. DockerSpec => []DiscoveryInv
  BY DiscoveryInvInit, DiscoveryInvStep, PTL DEF DockerSpec
<1> QED
  BY <1>1, <1>2, DiscoveryImplementsDaemon, PublishedInv, PTL

(* After a clean cycle the last entry of a configured domain is the one    *)
(* from the file, or one that a container of that domain gave.             *)
LEMMA ConfiguredInv ==
  TypeOK /\ DiscoveryInv /\ ErrorFreeCyclePublishes => ConfiguredArePublished
<1> DEFINE d(i) == static_suffixes[i].domain
<1> SUFFICES ASSUME TypeOK, DiscoveryInv, ErrorFreeCyclePublishes,
                    pc \in {"enter", "select"}, prefix # None, error_count = 0,
                    NEW i \in 1..Len(static_suffixes),
                    \A j \in (i + 1)..Len(static_suffixes) : static_suffixes[j].domain # d(i)
             PROVE  \/ dns[d(i)] = combine(prefix, static_suffixes[i].suffix)
                    \/ \E c \in Container, s \in Suffix :
                         label[c] = d(i) /\ <<c, s>> \in held /\ dns[d(i)] = combine(prefix, s)
                    \/ <<d(i), dns[d(i)]>> \in lost
  BY DEF ConfiguredArePublished
<1> DEFINE S == {j \in 1..Len(suffixes) : suffixes[j].domain = d(i)}
           first == Len(static_suffixes) + 1
<1>1. /\ Len(static_suffixes) <= Len(suffixes)
      /\ \A k \in 1..Len(static_suffixes) : suffixes[k] = static_suffixes[k]
      /\ \A k \in first..Len(suffixes) : Genuine(suffixes[k])
  BY DEF DiscoveryInv, DiscoveryTypes, AfterDiscovery, Discovering, Running
<1>2. Len(suffixes) \in Nat /\ Len(static_suffixes) \in Nat
  BY DaemonAssumption DEF TypeOK
<1>3. i \in S
  BY <1>1, <1>2
<1>4. PICK j \in S : \A k \in (j + 1)..Len(suffixes) : k \notin S
  <2>1. S \subseteq 1..Len(suffixes) /\ S # {}
    BY <1>3
  <2> HIDE DEF S
  <2> QED
    BY <1>2, <2>1, LastEntry
<1>5. dns[d(i)] = combine(prefix, suffixes[j].suffix) \/ <<d(i), dns[d(i)]>> \in lost
  <2>1. \A k \in (j + 1)..Len(suffixes) : suffixes[k].domain # d(i)
    BY <1>2, <1>4
  <2> QED
    BY <1>4, <2>1 DEF ErrorFreeCyclePublishes
<1>6. CASE j \in 1..Len(static_suffixes)
  <2>1. ~(i \in (j + 1)..Len(suffixes))
    BY <1>3, <1>4
  <2>2. ~(j \in (i + 1)..Len(static_suffixes))
    BY <1>1, <1>4, <1>6
  <2>3. j = i
    BY <1>1, <1>2, <1>6, <2>1, <2>2
  <2> QED
    BY <1>1, <1>5, <2>3
<1>7. CASE j \in first..Len(suffixes)
  <2>1. PICK c \in Container : label[c] = d(i) /\ <<c, suffixes[j].suffix>> \in held
    BY <1>1, <1>4, <1>7 DEF Genuine
  <2>2. suffixes[j].suffix \in Suffix
    BY <2>1 DEF DiscoveryInv, DiscoveryTypes
  <2> QED
    BY <1>5, <2>1, <2>2
<1>8. j \in 1..Len(static_suffixes) \/ j \in first..Len(suffixes)
  <2>1. j \in 1..Len(suffixes)
    BY <1>4
  <2> QED
    BY <1>2, <2>1
<1> QED
  BY <1>6, <1>7, <1>8

(* The configured hosts do not depend on Docker: whatever fails there, a   *)
(* clean cycle leaves them published, by their own suffix or by that of a  *)
(* container on their domain (docker.rs discover, main.rs                  *)
(* run_update_cycle).                                                      *)
THEOREM ConfiguredPublishes == DockerSpec => []ConfiguredArePublished
<1>1. ImplementsDaemon => [](TypeOK /\ ErrorFreeCyclePublishes)
  BY TypeCorrect, CleanCyclePublishes, PTL DEF ImplementsDaemon
<1>2. DockerSpec => []DiscoveryInv
  BY DiscoveryInvInit, DiscoveryInvStep, PTL DEF DockerSpec
<1> QED
  BY <1>1, <1>2, DiscoveryImplementsDaemon, ConfiguredInv, PTL
=============================================================================
