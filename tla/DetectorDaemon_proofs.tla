------------------------ MODULE DetectorDaemon_proofs ------------------------
(***************************************************************************)
(* DetectorDaemon implements Daemon, for any prefixes, answers, addresses  *)
(* and bounds, and so has every invariant proved of Daemon; and when it is *)
(* settled, what it has published is right.                                *)
(***************************************************************************)
EXTENDS DetectorDaemon, DaemonRefinement_proofs

(* What detect() reads is of the right type: the part of DetectorTypeOK    *)
(* that does not depend on the main task.                                  *)
DetectorTypes ==
  /\ method \in Methods
  /\ IF method = "dns" THEN Dns!DnsTypeOK ELSE DnsOff
  /\ IF method = "netlink" THEN Netlink!NlTypeOK ELSE NlOff
  /\ IF method = "ra" THEN Ra!RaTypeOK ELSE RaOff
  /\ changes \in 0..MaxChanges /\ faults \in 0..MaxFaults /\ missed \in BOOLEAN

LEMMA Bounds ==
  /\ MaxChanges \in Nat /\ MaxFaults \in Nat /\ Infinite \in Nat
  /\ Methods \subseteq {"dns", "netlink", "ra"}
  /\ AddressMessage \subseteq Netlink!Message
  BY DetectorDaemonAssumption

(* The detectors of the three methods start well-typed.                    *)
LEMMA TypesAtStart == DetectorInit => DetectorTypes
<1> SUFFICES ASSUME DetectorInit PROVE DetectorTypes
  OBVIOUS
<1>1. method \in Methods /\ missed \in BOOLEAN
  BY DEF DetectorInit, build_detector
<1>2. changes \in 0..MaxChanges /\ faults \in 0..MaxFaults
  BY Bounds DEF DetectorInit
<1>3. Dns!DnsInit => Dns!DnsTypeOK
  BY DEF Dns!DnsInit, Dns!DnsTypeOK
<1>4. Netlink!NlInit => Netlink!NlTypeOK
  <2>1. AddressMessage \subseteq Netlink!Message
    BY Bounds
  <2> QED
    BY <2>1 DEF Netlink!NlInit, Netlink!NlTypeOK
<1>5. Ra!RaInit => Ra!RaTypeOK
  BY DEF Ra!RaInit, Ra!RaTypeOK
<1> QED
  BY <1>1, <1>2, <1>3, <1>4, <1>5 DEF DetectorInit, DetectorTypes, build_detector

(* A lookup returns global unicast prefixes.                               *)
LEMMA ResolvedIsPrefix ==
  /\ Dns!Resolvable \subseteq Prefix
  /\ Dns!CurrentPrefix \subseteq Prefix
  BY DEF Dns!Resolvable, Dns!CurrentPrefix, Dns!resolve_prefix_inner

(* The lifetimes that are left are lifetimes.                              *)
LEMMA AgedAreMessages ==
  ASSUME addresses \subseteq Netlink!Message
  PROVE  Netlink!Aged \subseteq Netlink!Message
<1> SUFFICES ASSUME NEW a \in addresses
             PROVE  [a EXCEPT !.valid = Netlink!Left(@), !.preferred = Netlink!Left(@)]
                      \in Netlink!Message
  BY DEF Netlink!Aged
<1>1. ASSUME NEW t \in 0..Infinite PROVE Netlink!Left(t) \in 0..Infinite
  BY <1>1, Bounds DEF Netlink!Left
<1>2. a \in Netlink!Message
  OBVIOUS
<1> QED
  BY <1>1, <1>2 DEF Netlink!Message

LEMMA TypesStep == DetectorTypes /\ [DetectorNext]_allVars => DetectorTypes'
<1> SUFFICES ASSUME DetectorTypes, [DetectorNext]_allVars PROVE DetectorTypes'
  OBVIOUS
<1> USE Bounds DEF DetectorTypes
<1>a. ASSUME faults < MaxFaults, faults' = faults + 1 PROVE faults' \in 0..MaxFaults
  BY <1>a
<1>b. CASE UNCHANGED detector /\ UNCHANGED bounds /\ missed' \in BOOLEAN
  BY <1>b DEF detector, dnsVars, nlVars, raVars, bounds, DnsOff, NlOff, RaOff,
       Dns!DnsTypeOK, Netlink!NlTypeOK, Ra!RaTypeOK
<1>1. CASE DnsPoll
  BY <1>1, ResolvedIsPrefix DEF DnsPoll, OnlyDns, Signalled, nlVars, raVars, bounds, Dns!Poll,
       Dns!DnsTypeOK, NlOff, RaOff
<1>2. CASE NlStart \/ NlEvent
  <2>1. CASE NlStart
    BY <2>1 DEF NlStart, OnlyNetlink, Silent, dnsVars, raVars, bounds, Netlink!StartWatcher,
         Netlink!NlTypeOK, DnsOff, RaOff
  <2>2. CASE NlEvent
    <3>1. missed' \in BOOLEAN
      BY <2>2 DEF NlEvent, Signalled
    <3> QED
      BY <2>2, <3>1 DEF NlEvent, OnlyNetlink, Signalled, dnsVars, raVars, bounds,
           Netlink!HandleEvent, Netlink!NlTypeOK, DnsOff, RaOff
  <2> QED
    BY <1>2, <2>1, <2>2
<1>3. CASE NlEndStream
  <2>1. missed' \in BOOLEAN
    BY <1>3 DEF NlEndStream
  <2> QED
    BY <1>3, <2>1 DEF NlEndStream, OnlyNetlink, dnsVars, raVars, bounds, Netlink!EndStream,
         Netlink!NlTypeOK, DnsOff, RaOff
<1>4. CASE NlLoseEvent
  <2>1. faults' \in 0..MaxFaults /\ missed' \in BOOLEAN
    BY <1>a, <1>4 DEF NlLoseEvent
  <2> QED
    BY <1>4, <2>1 DEF NlLoseEvent, OnlyNetlink, dnsVars, raVars, Netlink!LoseEvent,
         Netlink!NlTypeOK, DnsOff, RaOff
<1>5. CASE RaStart \/ RaReceive \/ RaSignal
  BY <1>5 DEF RaStart, RaReceive, RaSignal, OnlyRa, Signalled, Silent, dnsVars, nlVars, bounds,
       Ra!StartListener, Ra!ListenerFails, Ra!ReceiveAdvertisement, Ra!SignalAdvertisement,
       Ra!RaTypeOK, DnsOff, NlOff
<1>6. CASE MainTask
  <2>1. missed' \in BOOLEAN
    BY <1>6 DEF MainTask, detect, DnsDetect, NlDetect, RaDetect
  <2> QED
    BY <1>b, <1>6, <2>1 DEF MainTask
<1>7. CASE Fault
  <2>1. faults' \in 0..MaxFaults
    BY <1>a, <1>7 DEF Fault
  <2>2. missed' \in BOOLEAN
    BY <1>7 DEF Fault, DetectFails
  <2> QED
    BY <1>7, <2>1, <2>2 DEF Fault, detector, dnsVars, nlVars, raVars, DnsOff, NlOff, RaOff,
         Dns!DnsTypeOK, Netlink!NlTypeOK, Ra!RaTypeOK
<1>8. CASE Others
  BY <1>b, <1>8 DEF Others
<1>9. CASE WorldStep
  <2>1. ASSUME NEW response \in Answers, NEW lagging \in BOOLEAN, DnsRotate(response, lagging)
        PROVE  DetectorTypes'
    BY <2>1 DEF DnsRotate, OnlyDns, Change, nlVars, raVars, Dns!Rotate, Dns!DnsTypeOK, NlOff, RaOff
  <2>2. CASE DnsExpire
    BY <2>2 DEF DnsExpire, OnlyDns, nlVars, raVars, bounds, Dns!Expire, Dns!DnsTypeOK, NlOff, RaOff
  <2>3. ASSUME NEW new, NlChange(new), new \subseteq addresses \cup AddressMessage
        PROVE  DetectorTypes'
    BY <2>3 DEF NlChange, OnlyNetlink, Change, dnsVars, raVars, Netlink!ChangeAddresses,
         Netlink!Listening, Netlink!NlTypeOK, DnsOff, RaOff, Unwatched
  <2>4. CASE NlTick
    <3>1. method = "netlink" /\ Netlink!NlTypeOK /\ addresses' \subseteq Netlink!Aged
      BY <2>4 DEF NlTick, OnlyNetlink, Netlink!Tick
    <3>2. addresses' \subseteq Netlink!Message
      BY <3>1, AgedAreMessages DEF Netlink!NlTypeOK
    <3> QED
      BY <2>4, <3>1, <3>2 DEF NlTick, OnlyNetlink, dnsVars, raVars, bounds, Netlink!Tick,
           Netlink!Listening, Netlink!NlTypeOK, DnsOff, RaOff, Unwatched
  <2>5. ASSUME NEW p \in Prefix, RaRotate(p) PROVE DetectorTypes'
    BY <2>5 DEF RaRotate, OnlyRa, Change, dnsVars, nlVars, Ra!RotatePrefix, Ra!RaTypeOK,
         DnsOff, NlOff
  <2> QED
    BY <1>9, <2>1, <2>2, <2>3, <2>4, <2>5 DEF WorldStep
<1>10. CASE DetectorRestart
  BY <1>10 DEF DetectorRestart, bounds, DnsOff, NlOff, RaOff,
       Dns!DnsTypeOK, Netlink!NlTypeOK, Ra!RaTypeOK
<1>11. CASE UNCHANGED allVars
  BY <1>b, <1>11 DEF allVars
<1> QED
  BY <1>1, <1>2, <1>3, <1>4, <1>5, <1>6, <1>7, <1>8, <1>9, <1>10, <1>11
     DEF DetectorNext, Background

-----------------------------------------------------------------------------
(* What detect() returns is a prefix.                                      *)
LEMMA DetectIsAnyAnswer ==
  DetectorTypes /\ detect => DetectErr \/ \E p \in Prefix : DetectOk(p)
<1> SUFFICES ASSUME DetectorTypes, detect PROVE DetectErr \/ \E p \in Prefix : DetectOk(p)
  OBVIOUS
<1>1. CASE method = "dns" /\ DnsDetect
  BY <1>1, ResolvedIsPrefix DEF DnsDetect
<1>2. CASE method = "netlink" /\ NlDetect
  <2>1. Netlink!Detectable \subseteq Prefix
    BY <1>2 DEF DetectorTypes, Netlink!NlTypeOK, Netlink!Detectable, Netlink!Candidates,
         Netlink!Message
  <2> QED
    BY <1>2, <2>1 DEF NlDetect
<1>3. CASE method = "ra" /\ RaDetect
  BY <1>3 DEF RaDetect, DetectorTypes, Ra!RaTypeOK
<1> QED
  BY <1>1, <1>2, <1>3 DEF detect

(* A signal of any of the background tasks is a signal of the detector.    *)
LEMMA SignalIsNotifyChange == DnsPoll \/ NlEvent \/ RaSignal => NotifyChange
  BY DEF DnsPoll, NlEvent, RaSignal, Signalled, NotifyChange, cycle, store, Send,
       Dns!Poll, Dns!Send, Netlink!HandleEvent, Netlink!Send, Ra!SignalAdvertisement, Ra!Send

LEMMA StepIsDaemonStep == DetectorTypes /\ [DetectorNext]_allVars => [Next]_vars
<1> SUFFICES ASSUME DetectorTypes, [DetectorNext]_allVars PROVE [Next]_vars
  OBVIOUS
<1>1. CASE Background
  <2>1. CASE DnsPoll \/ NlEvent \/ RaSignal
    BY <2>1, SignalIsNotifyChange DEF Next
  <2>2. CASE NlStart \/ RaStart \/ RaReceive \/ NlEndStream \/ NlLoseEvent
    BY <2>2 DEF NlStart, RaStart, RaReceive, NlEndStream, NlLoseEvent, Silent
  <2> QED
    BY <1>1, <2>1, <2>2 DEF Background
<1>2. CASE MainTask
  BY <1>2, DetectIsAnyAnswer DEF MainTask, MainStep, Next
<1>3. CASE Fault
  BY <1>3 DEF Fault, DetectFails, MainStep, Next
<1>4. CASE Others
  BY <1>4 DEF Others, Next
<1>5. CASE WorldStep
  BY <1>5 DEF WorldStep, DnsRotate, DnsExpire, NlChange, NlTick, RaRotate, Change
<1>6. CASE DetectorRestart
  BY <1>6 DEF DetectorRestart, Next
<1>7. CASE UNCHANGED allVars
  BY <1>7 DEF allVars
<1> QED
  BY <1>1, <1>2, <1>3, <1>4, <1>5, <1>6, <1>7 DEF DetectorNext

(* Whatever method is configured, the daemon behaves as Daemon allows: the *)
(* detectors signal and answer within what the main loop was proved        *)
(* against (main.rs build_detector, prefix/mod.rs PrefixDetector).         *)
THEOREM DetectorsImplementDaemon == DetectorSpec => ImplementsDaemon
<1>1. DetectorInit => Init
  BY DEF DetectorInit
<1> QED
  BY <1>1, TypesAtStart, TypesStep, StepIsDaemonStep, PTL DEF DetectorSpec, ImplementsDaemon, Spec

(* The detectors keep their types, and each its own rules; the daemon's    *)
(* come with the refinement.                                               *)
THEOREM DetectorTypeCorrect == DetectorSpec => []DetectorTypeOK
<1>1. DetectorSpec => []DetectorTypes
  BY TypesAtStart, TypesStep, PTL DEF DetectorSpec
<1>2. TypeOK /\ DetectorTypes => DetectorTypeOK
  BY DEF DetectorTypes, DetectorTypeOK
<1>3. ImplementsDaemon => []TypeOK
  BY TypeCorrect DEF ImplementsDaemon
<1> QED
  BY <1>1, <1>2, <1>3, DetectorsImplementDaemon, PTL

(* What Daemon promises for an arbitrary detector the daemon keeps with    *)
(* each of the three: wake-ups, cache, errors and records (main.rs).       *)
THEOREM DetectorsKeepPromises ==
  DetectorSpec =>
    /\ [](NoLostWakeup /\ CacheHonest /\ ErrorsAccountForStale /\ ErrorFreeCyclePublishes)
    /\ PublishesOnlyComputedAddresses
<1>1. ImplementsDaemon =>
        /\ [](NoLostWakeup /\ CacheHonest /\ ErrorsAccountForStale /\ ErrorFreeCyclePublishes)
        /\ PublishesOnlyComputedAddresses
  BY WakeupsAreKept, CacheIsHonest, ErrorsAreReported, CleanCyclePublishes, DaemonPublishes, PTL
     DEF ImplementsDaemon
<1> QED
  BY <1>1, DetectorsImplementDaemon

-----------------------------------------------------------------------------
(* When the daemon is settled, it has published the current prefix.        *)

(* Between a detection and the next wake-up, the prefix of the cycle is    *)
(* the current one, or the background task still has something to say.     *)
AfterDetect == pc \in {"discover", "apply", "await", "enter", "select"}

DnsFresh == bg_last \in {None, prefix} \/ Dns!CurrentPrefix = {prefix}
NetlinkFresh == queued \/ prefix \in Netlink!Detectable
RaFresh == listener = "send" \/ prefix = last_prefix

Fresh ==
  (AfterDetect /\ prefix # None /\ ~change_rx.unseen /\ ~missed) =>
    /\ method = "dns" => DnsFresh
    /\ method = "netlink" => NetlinkFresh
    /\ method = "ra" => RaFresh

(* A channel without a receiver keeps nothing.                             *)
Quiet ==
  /\ pc = "enter" => ~change_rx.subscribed
  /\ ~change_rx.subscribed => ~change_rx.unseen

(* The list of a cycle starts with the configured hosts.                   *)
StaticFirst ==
  pc \notin {"startup", "stopped", "killed"} =>
    /\ Len(static_suffixes) <= Len(suffixes)
    /\ \A i \in 1..Len(static_suffixes) : suffixes[i] = static_suffixes[i]

LEMMA StaticFirstStep == TypeOK /\ StaticFirst /\ [Next]_vars => StaticFirst'
<1> SUFFICES ASSUME TypeOK, StaticFirst, [Next]_vars PROVE StaticFirst'
  OBVIOUS
<1>1. ASSUME NEW found \in Discoverable, StartupDiscover(found) \/ Discover(found)
      PROVE  StaticFirst'
  <2>1. static_suffixes \in Seq(Host) /\ found \in Seq(Host)
    BY DaemonAssumption
  <2>2. suffixes' = static_suffixes \o found
    BY <1>1 DEF StartupDiscover, Discover
  <2> QED
    BY <2>1, <2>2 DEF StaticFirst
<1>2. CASE Restart
  BY <1>2 DEF Restart, StaticFirst
<1>3. CASE /\ suffixes' = suffixes
           /\ pc \in {"startup", "stopped", "killed"} => pc' \in {"startup", "stopped", "killed"}
  BY <1>3 DEF StaticFirst
<1> QED
  BY <1>1, <1>2, <1>3
     DEF Next, MainStep, UpdateStep, SetRecordErr, Wake, SignalStep, StoreStep, RaiseSignal,
       SeedSome, SeedNothing, SeedDone, EnterLoop, DetectOk, DetectErr, SkipUpdate, SendUpdate,
       SetRecordOk, SetRecordRefused, SetRecordTimeout, EndCycle, WakeChange, WakeRefresh,
       Shutdown, RegisterHandler, HandleSigint, HandleSigusr1, RaiseCaught, RaiseUncaught,
       NotifyChange, ApplyRequest, ApplyLate, Halted, vars, cycle, Running, StaticFirst, AfterCycle

(* The steps of the daemon but a detection, a signal and a restart.        *)
OtherDaemonStep ==
  UpdateStep \/ SetRecordErr \/ Wake \/ Shutdown \/ SignalStep \/ StoreStep \/ RaiseSignal
  \/ Halted

LEMMA QuietStep == TypeOK /\ Quiet /\ [Next]_vars => Quiet'
<1> SUFFICES ASSUME TypeOK, Quiet, [Next]_vars PROVE Quiet'
  OBVIOUS
<1>a. change_rx \in [subscribed : BOOLEAN, unseen : BOOLEAN]
  BY DEF TypeOK
<1>1. CASE change_rx' = change_rx /\ pc' # "enter"
  BY <1>1 DEF Quiet
<1>2. CASE change_rx' = change_rx /\ (pc' = pc \/ pc' = AfterCycle)
  BY <1>2 DEF Quiet, AfterCycle
<1>3. CASE change_rx' = Send(change_rx) /\ pc' = pc
  BY <1>a, <1>3 DEF Quiet, Send
<1>4. CASE change_rx' = MarkSeen(change_rx) /\ pc' # "enter"
  BY <1>a, <1>4 DEF Quiet, MarkSeen
<1>5. CASE change_rx' \in {Subscribed, Unsubscribed} /\ pc' # "enter"
  BY <1>5 DEF Quiet, Subscribed, Unsubscribed
<1> QED
  BY <1>1, <1>2, <1>3, <1>4, <1>5
     DEF Next, MainStep, UpdateStep, SetRecordErr, Wake, SignalStep, StoreStep, RaiseSignal,
       StartupDiscover, Discover, SeedSome, SeedNothing, SeedDone, EnterLoop, DetectOk, DetectErr,
       SkipUpdate, SendUpdate, SetRecordOk, SetRecordRefused, SetRecordTimeout, EndCycle,
       WakeChange, WakeRefresh, Shutdown, RegisterHandler, HandleSigint, HandleSigusr1,
       RaiseCaught, RaiseUncaught, NotifyChange, ApplyRequest, ApplyLate, Halted, Restart,
       vars, tasks

(* They neither forget a signal that is not seen nor change the prefix     *)
(* between a detection and the next wake-up.                               *)
LEMMA OtherStepKeepsPrefix ==
  TypeOK /\ Quiet /\ OtherDaemonStep /\ AfterDetect' =>
    /\ AfterDetect /\ prefix' = prefix
    /\ ~change_rx'.unseen => ~change_rx.unseen
  BY DEF OtherDaemonStep, UpdateStep, SetRecordErr, Wake, SignalStep, StoreStep, RaiseSignal,
       StartupDiscover, Discover, SeedSome, SeedNothing, SeedDone, EnterLoop,
       SkipUpdate, SendUpdate, SetRecordOk, SetRecordRefused, SetRecordTimeout, EndCycle,
       WakeChange, WakeRefresh, Shutdown, RegisterHandler, HandleSigint, HandleSigusr1,
       RaiseCaught, RaiseUncaught, ApplyRequest, ApplyLate, Halted, Running,
       vars, cycle, tasks, Quiet, AfterDetect, AfterCycle, TypeOK, MarkSeen, Subscribed

(* The reference domain has one prefix at most.                            *)
LEMMA OneCurrentPrefix ==
  ASSUME answer \in Seq(Prefix \cup {NonGlobal}), NEW p \in Dns!CurrentPrefix
  PROVE  Dns!CurrentPrefix = {p}
<1> SUFFICES ASSUME NEW q \in Dns!CurrentPrefix PROVE q = p
  OBVIOUS
<1>1. PICK i \in 1..Len(answer) :
        p = answer[i] /\ answer[i] \in Prefix /\ \A k \in 1..(i - 1) : answer[k] \notin Prefix
  BY DEF Dns!CurrentPrefix, Dns!resolve_prefix_inner
<1>2. PICK j \in 1..Len(answer) :
        q = answer[j] /\ answer[j] \in Prefix /\ \A k \in 1..(j - 1) : answer[k] \notin Prefix
  BY DEF Dns!CurrentPrefix, Dns!resolve_prefix_inner
<1>3. Len(answer) \in Nat
  OBVIOUS
<1>4. i = j
  BY <1>1, <1>2, <1>3
<1> QED
  BY <1>1, <1>2, <1>4

(* Time that passes does not change the choice among the prefixes, as long *)
(* as no address expires.                                                  *)
LEMMA TimeKeepsTheOrder ==
  ASSUME NEW a \in Netlink!Message, NEW b \in Netlink!Message, Netlink!SortsBefore(a, b),
         NEW x, x = [a EXCEPT !.valid = Netlink!Left(@), !.preferred = Netlink!Left(@)],
         NEW y, y = [b EXCEPT !.valid = Netlink!Left(@), !.preferred = Netlink!Left(@)],
         y.valid # 0
  PROVE  Netlink!SortsBefore(x, y)
<1>1. /\ x.valid = Netlink!Left(a.valid) /\ x.preferred = Netlink!Left(a.preferred)
      /\ y.valid = Netlink!Left(b.valid) /\ y.preferred = Netlink!Left(b.preferred)
  BY DEF Netlink!Message
<1>2. /\ a.valid \in 0..Infinite /\ a.preferred \in 0..Infinite
      /\ b.valid \in 0..Infinite /\ b.preferred \in 0..Infinite
  BY DEF Netlink!Message
<1>3. Infinite \in Nat
  BY Bounds
<1> QED
  BY <1>1, <1>2, <1>3 DEF Netlink!SortsBefore, Netlink!Left

LEMMA TickKeepsDetectable ==
  ASSUME addresses \subseteq Netlink!Message, Netlink!Tick, ~Netlink!Expiring,
         NEW p \in Netlink!Detectable
  PROVE  p \in Netlink!Detectable'
<1> DEFINE age(a) == [a EXCEPT !.valid = Netlink!Left(@), !.preferred = Netlink!Left(@)]
<1>1. addresses' = Netlink!Aged
  <2>1. \A a \in Netlink!Aged : a.valid \in 0..Infinite /\ a.valid # 0
    BY AgedAreMessages DEF Netlink!Expiring, Netlink!Message
  <2>2. \A a \in Netlink!Aged : a.valid > 0
    BY <2>1, Bounds
  <2> QED
    BY <2>2 DEF Netlink!Tick
<1>2. \A a \in Netlink!Message :
        /\ age(a).global = a.global /\ age(a).secondary = a.secondary
        /\ age(a).permanent = a.permanent /\ age(a).prefix = a.prefix
  BY DEF Netlink!Message
<1>3. Netlink!Candidates' = {age(a) : a \in Netlink!Candidates}
  BY <1>1, <1>2 DEF Netlink!Candidates, Netlink!Aged
<1>4. PICK a \in Netlink!Candidates :
        p = a.prefix /\ \A b \in Netlink!Candidates : Netlink!SortsBefore(a, b)
  BY DEF Netlink!Detectable
<1>5. Netlink!Candidates \subseteq Netlink!Message
  BY DEF Netlink!Candidates
<1>6. ASSUME NEW b \in Netlink!Candidates PROVE Netlink!SortsBefore(age(a), age(b))
  <2>1. age(b) \in Netlink!Aged
    BY DEF Netlink!Candidates, Netlink!Aged
  <2>2. age(b).valid # 0
    BY <2>1 DEF Netlink!Expiring
  <2> QED
    BY <1>4, <1>5, <2>2, TimeKeepsTheOrder
<1>7. age(a) \in Netlink!Candidates' /\ age(a).prefix = p
  BY <1>2, <1>3, <1>4, <1>5
<1>8. \A c \in Netlink!Candidates' : Netlink!SortsBefore(age(a), c)
  BY <1>3, <1>6
<1>9. Netlink!Detectable' =
        {c.prefix : c \in {d \in Netlink!Candidates' :
           \A b \in Netlink!Candidates' : Netlink!SortsBefore(d, b)}}
  BY DEF Netlink!Detectable
<1>10. PICK x \in Netlink!Candidates' :
         x.prefix = p /\ \A c \in Netlink!Candidates' : Netlink!SortsBefore(x, c)
  BY <1>7, <1>8
<1> QED
  BY <1>9, <1>10

(* A signal is either kept by the receiver or goes to nobody.              *)
LEMMA SignalledStep == TypeOK /\ Signalled /\ change_rx' = Send(change_rx) => Fresh'
<1> SUFFICES ASSUME TypeOK, Signalled, change_rx' = Send(change_rx) PROVE Fresh'
  OBVIOUS
<1>1. change_rx' = [change_rx EXCEPT !.unseen = change_rx.subscribed]
  BY DEF Send
<1>2. change_rx \in [subscribed : BOOLEAN, unseen : BOOLEAN]
  BY DEF TypeOK
<1>3. change_rx'.unseen \/ missed'
  BY <1>1, <1>2 DEF Signalled
<1> QED
  BY <1>3 DEF Fresh

LEMMA FreshStep ==
  TypeOK /\ Quiet /\ DetectorTypes /\ Fresh /\ [DetectorNext]_allVars => Fresh'
<1> SUFFICES ASSUME TypeOK, Quiet, DetectorTypes, Fresh, [DetectorNext]_allVars PROVE Fresh'
  OBVIOUS
<1>a. CASE UNCHANGED <<detector, pc, prefix, change_rx, missed>>
  BY <1>a DEF Fresh, DnsFresh, NetlinkFresh, RaFresh, AfterDetect, detector, dnsVars, nlVars,
       raVars, Dns!CurrentPrefix, Netlink!Detectable, Netlink!Candidates
<1>b. CASE OtherDaemonStep /\ UNCHANGED detector /\ missed' = missed
  <2> SUFFICES ASSUME AfterDetect', prefix' # None, ~change_rx'.unseen, ~missed'
               PROVE  /\ method = "dns" => DnsFresh'
                      /\ method = "netlink" => NetlinkFresh'
                      /\ method = "ra" => RaFresh'
    BY <1>b DEF Fresh, detector
  <2>1. AfterDetect /\ prefix' = prefix /\ ~change_rx.unseen /\ ~missed
    BY <1>b, OtherStepKeepsPrefix
  <2> QED
    BY <1>b, <2>1 DEF Fresh, DnsFresh, NetlinkFresh, RaFresh, detector, dnsVars, nlVars,
         raVars, Dns!CurrentPrefix, Netlink!Detectable, Netlink!Candidates
<1>c. CASE DetectErr
  BY <1>c DEF DetectErr, Fresh
<1>1. CASE DnsPoll \/ NlEvent \/ RaSignal
  <2>1. Signalled /\ change_rx' = Send(change_rx)
    BY <1>1 DEF DnsPoll, NlEvent, RaSignal, Send, Dns!Poll, Dns!Send, Netlink!HandleEvent,
         Netlink!Send, Ra!SignalAdvertisement, Ra!Send
  <2> QED
    BY <2>1, SignalledStep
<1>2. CASE NlStart
  BY <1>2 DEF NlStart, OnlyNetlink, Silent, vars, tasks, cycle, Netlink!StartWatcher, Fresh, DnsFresh,
       NetlinkFresh, RaFresh, AfterDetect, dnsVars, raVars, Netlink!Detectable, Netlink!Candidates
<1>3. CASE NlEndStream \/ NlLoseEvent
  <2>1. method = "netlink" /\ method' = method /\ addresses' = addresses
        /\ UNCHANGED <<pc, prefix, change_rx>>
    BY <1>3 DEF NlEndStream, NlLoseEvent, OnlyNetlink, vars, tasks, cycle, Netlink!EndStream,
         Netlink!LoseEvent
  <2>2. ~missed' => ~missed /\ ~queued
    BY <1>3 DEF NlEndStream, NlLoseEvent
  <2> QED
    BY <2>1, <2>2 DEF Fresh, NetlinkFresh, AfterDetect, Netlink!Detectable, Netlink!Candidates
<1>4. CASE RaStart \/ RaReceive
  BY <1>4 DEF RaStart, RaReceive, OnlyRa, Silent, vars, tasks, cycle, Ra!StartListener,
       Ra!ListenerFails, Ra!ReceiveAdvertisement, Fresh, RaFresh, AfterDetect
<1>5. CASE MainTask
  <2>1. CASE method = "dns" /\ DnsDetect
    <3>1. ASSUME NEW p \in Dns!Resolvable, DetectOk(p), missed' = (p \notin Dns!CurrentPrefix)
          PROVE  Fresh'
      <4>1. method' = method /\ prefix' = p /\ Dns!CurrentPrefix' = Dns!CurrentPrefix
        BY <1>5, <3>1 DEF MainTask, detector, dnsVars, DetectOk, Dns!CurrentPrefix
      <4>2. answer \in Seq(Prefix \cup {NonGlobal})
        BY <2>1, DetectorDaemonAssumption DEF DetectorTypes, Dns!DnsTypeOK
      <4>3. ~missed' => Dns!CurrentPrefix = {p}
        BY <3>1, <4>2, OneCurrentPrefix
      <4> QED
        BY <2>1, <4>1, <4>3 DEF Fresh, DnsFresh
    <3> QED
      BY <1>c, <2>1, <3>1 DEF DnsDetect
  <2>2. CASE method = "netlink" /\ NlDetect
    <3>1. ASSUME NEW p \in Netlink!Detectable, DetectOk(p) PROVE Fresh'
      <4>1. method' = method /\ prefix' = p /\ addresses' = addresses
        BY <1>5, <3>1 DEF MainTask, detector, nlVars, DetectOk
      <4> QED
        BY <2>2, <3>1, <4>1 DEF Fresh, NetlinkFresh, Netlink!Detectable, Netlink!Candidates
    <3> QED
      BY <1>c, <2>2, <3>1 DEF NlDetect
  <2>3. CASE method = "ra" /\ RaDetect
    <3>1. CASE DetectOk(last_prefix)
      BY <1>5, <2>3, <3>1 DEF MainTask, detector, raVars, DetectOk, Fresh, RaFresh
    <3> QED
      BY <1>c, <2>3, <3>1 DEF RaDetect
  <2>4. CASE (UpdateStep \/ Wake \/ Shutdown) /\ UNCHANGED missed
    BY <1>5, <1>b, <2>4 DEF MainTask, OtherDaemonStep
  <2> QED
    BY <1>5, <2>1, <2>2, <2>3, <2>4 DEF MainTask, detect
<1>6. CASE Fault
  BY <1>6, <1>b, <1>c DEF Fault, DetectFails, OtherDaemonStep
<1>7. CASE Others
  BY <1>7, <1>b DEF Others, OtherDaemonStep
<1>8. CASE WorldStep
  <2>1. ASSUME NEW response, NEW lagging, DnsRotate(response, lagging) PROVE Fresh'
    <3>1. method = "dns" /\ method' = method /\ bg_last' = bg_last
          /\ UNCHANGED <<pc, prefix, change_rx, missed>>
      BY <2>1 DEF DnsRotate, OnlyDns, Change, Dns!Rotate, vars, tasks, cycle
    <3>2. AfterDetect => bg_last = None \/ Dns!CurrentPrefix \subseteq {bg_last}
      BY <2>1 DEF DnsRotate, AfterDetect, Running
    <3> QED
      BY <3>1, <3>2 DEF Fresh, DnsFresh, AfterDetect
  <2>2. CASE DnsExpire
    BY <2>2, <1>a DEF DnsExpire, OnlyDns, Dns!Expire, Fresh, DnsFresh, AfterDetect, vars, tasks,
         cycle, Dns!CurrentPrefix
  <2>3. ASSUME NEW new, NlChange(new) PROVE Fresh'
    <3>1. method = "netlink" /\ method' = method /\ UNCHANGED <<pc, prefix, change_rx>>
          /\ queued' = (watcher = "listening") /\ missed' = (missed \/ Unwatched)
      BY <2>3 DEF NlChange, OnlyNetlink, Change, Netlink!ChangeAddresses, Netlink!Listening,
           vars, tasks, cycle
    <3>2. AfterDetect => (Unwatched <=> watcher # "listening")
      BY DEF AfterDetect, Unwatched, Running
    <3> QED
      BY <3>1, <3>2 DEF Fresh, NetlinkFresh, AfterDetect
  <2>4. CASE NlTick
    <3>1. method = "netlink" /\ method' = method /\ UNCHANGED <<pc, prefix, change_rx>>
          /\ missed' = (missed \/ (Unwatched /\ Netlink!Expiring)) /\ Netlink!Tick
          /\ Netlink!NlTypeOK
      BY <2>4 DEF NlTick, OnlyNetlink, vars, tasks, cycle, DetectorTypes
    <3>2. CASE Netlink!Expiring
      BY <3>1, <3>2 DEF Fresh, NetlinkFresh, AfterDetect, Unwatched, Running, Netlink!Tick,
           Netlink!Listening
    <3>3. CASE ~Netlink!Expiring
      <4>1. queued => queued'
        BY <3>1, <3>3 DEF Netlink!Tick, Netlink!Listening, Netlink!NlTypeOK
      <4>2. prefix \in Netlink!Detectable => prefix' \in Netlink!Detectable'
        BY <3>1, <3>3, TickKeepsDetectable DEF Netlink!NlTypeOK
      <4>3. ~missed' => ~missed
        BY <3>1
      <4> QED
        BY <3>1, <4>1, <4>2, <4>3 DEF Fresh, NetlinkFresh, AfterDetect
    <3> QED
      BY <3>2, <3>3
  <2>5. ASSUME NEW p, RaRotate(p) PROVE Fresh'
    BY <2>5 DEF RaRotate, OnlyRa, Change, Ra!RotatePrefix, vars, tasks, cycle, Fresh, RaFresh,
         AfterDetect
  <2> QED
    BY <1>8, <2>1, <2>2, <2>3, <2>4, <2>5 DEF WorldStep
<1>9. CASE DetectorRestart
  BY <1>9 DEF DetectorRestart, Restart, Fresh, AfterDetect
<1>10. CASE UNCHANGED allVars
  BY <1>10, <1>a DEF allVars, vars, tasks, cycle
<1> QED
  BY <1>1, <1>2, <1>3, <1>4, <1>5, <1>6, <1>7, <1>8, <1>9, <1>10 DEF DetectorNext, Background

(* What Fresh says of a settled daemon: the prefix of the last cycle is    *)
(* one of those the world gives now, if it gives any.                      *)
LEMMA SettledPrefixIsCurrent ==
  ASSUME TypeOK, DetectorTypes, Fresh, pc = "select", ~change_rx.unseen, CaughtUp,
         prefix # None, ~missed, CurrentPrefixes # {}
  PROVE  prefix \in CurrentPrefixes
<1>1. CASE method = "dns"
  <2>1. Dns!CurrentPrefix = {bg_last}
    BY <1>1 DEF CaughtUp
  <2>2. bg_last # None
    BY <2>1, ResolvedIsPrefix, DaemonAssumption
  <2> QED
    BY <1>1, <2>1, <2>2 DEF Fresh, DnsFresh, AfterDetect, CurrentPrefixes
<1>2. CASE method = "netlink"
  BY <1>2 DEF CaughtUp, Fresh, NetlinkFresh, AfterDetect, CurrentPrefixes
<1>3. CASE method = "ra"
  BY <1>3 DEF CaughtUp, Fresh, RaFresh, AfterDetect, CurrentPrefixes
<1> QED
  BY <1>1, <1>2, <1>3, Bounds DEF DetectorTypes

LEMMA SettledInv ==
  TypeOK /\ DetectorTypes /\ Fresh /\ StaticFirst /\ ErrorFreeCyclePublishes => SettledIsPublished
<1> SUFFICES ASSUME TypeOK, DetectorTypes, Fresh, StaticFirst, ErrorFreeCyclePublishes,
                    pc = "select", ~change_rx.unseen, CaughtUp, prefix # None,
                    error_count = 0, ~missed, CurrentPrefixes # {}
             PROVE  Published
  BY DEF SettledIsPublished, Published
<1>1. prefix \in CurrentPrefixes
  BY SettledPrefixIsCurrent
<1>2. ASSUME NEW i \in 1..Len(static_suffixes),
             \A j \in 1..Len(suffixes) : suffixes[j].domain = static_suffixes[i].domain => j = i
      PROVE  LET d == static_suffixes[i].domain
             IN  dns[d] = combine(prefix, static_suffixes[i].suffix) \/ <<d, dns[d]>> \in lost
  <2>1. Len(static_suffixes) \in Nat /\ Len(suffixes) \in Nat
    BY DaemonAssumption DEF TypeOK
  <2>2. i \in 1..Len(suffixes) /\ suffixes[i] = static_suffixes[i]
    BY <2>1 DEF StaticFirst
  <2>3. \A j \in (i + 1)..Len(suffixes) : suffixes[j].domain # suffixes[i].domain
    BY <1>2, <2>1, <2>2
  <2> QED
    BY <2>2, <2>3 DEF ErrorFreeCyclePublishes
<1> QED
  BY <1>1, <1>2 DEF Published

(* Whatever the prefixes, answers and addresses: once the background task  *)
(* has caught up, nothing is pending and the last cycle did not fail, the  *)
(* published records are right (prefix/*.rs, main.rs loop).                *)
THEOREM SettledPublishes == DetectorSpec => []SettledIsPublished
<1>1. DetectorInit => TypeOK /\ Quiet /\ DetectorTypes /\ Fresh /\ StaticFirst
  BY TypeOKInit, TypesAtStart
     DEF DetectorInit, Init, Quiet, Fresh, AfterDetect, StaticFirst, Unsubscribed
<1>2. TypeOK /\ Quiet /\ DetectorTypes /\ Fresh /\ StaticFirst /\ [DetectorNext]_allVars =>
        (TypeOK /\ Quiet /\ DetectorTypes /\ Fresh /\ StaticFirst)'
  BY StepIsDaemonStep, TypeOKStep, QuietStep, TypesStep, FreshStep, StaticFirstStep
<1>3. DetectorSpec => [](TypeOK /\ DetectorTypes /\ Fresh /\ StaticFirst)
  BY <1>1, <1>2, PTL DEF DetectorSpec
<1>4. ImplementsDaemon => []ErrorFreeCyclePublishes
  BY CleanCyclePublishes DEF ImplementsDaemon
<1> QED
  BY <1>3, <1>4, DetectorsImplementDaemon, SettledInv, PTL
=============================================================================
