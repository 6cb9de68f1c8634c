----------------------- MODULE DaemonRefinement_proofs -----------------------
(***************************************************************************)
(* Daemon implements RecordPublication.                                    *)
(***************************************************************************)
EXTENDS Daemon_proofs

(* The hosts of a pass all come from the configuration or from a           *)
(* discovery, and so give their domain one of its suffixes.                *)
HostsInv == \A i \in 1..Len(suffixes) : suffixes[i].suffix \in SuffixesOf[suffixes[i].domain]

(* Every host list a discovery can leave gives its domains listed          *)
(* suffixes.                                                               *)
LEMMA ListedSuffixes ==
  ASSUME NEW found \in Discoverable, NEW i \in 1..Len(static_suffixes \o found)
  PROVE  LET h == (static_suffixes \o found)[i] IN h.suffix \in SuffixesOf[h.domain]
<1> DEFINE h == (static_suffixes \o found)[i]
<1>1. static_suffixes \in Seq(Host) /\ found \in Seq(Host)
  BY DaemonAssumption
<1>2. h \in Host
  BY <1>1
<1>3. PICK hosts \in {static_suffixes, found} : \E k \in 1..Len(hosts) : hosts[k] = h
  <2>1. CASE i \in 1..Len(static_suffixes)
    BY <1>1, <2>1
  <2>2. CASE i \notin 1..Len(static_suffixes)
    <3>1. i - Len(static_suffixes) \in 1..Len(found) /\ h = found[i - Len(static_suffixes)]
      BY <1>1, <2>2
    <3> QED
      BY <3>1
  <2> QED
    BY <2>1, <2>2
<1>4. h = [suffix |-> h.suffix, domain |-> h.domain] /\ h.suffix \in Suffix /\ h.domain \in Domain
  BY <1>2 DEF Host
<1> HIDE DEF h
<1>5. h.suffix \in SuffixesOf[h.domain]
  BY <1>3, <1>4 DEF SuffixesOf
<1> QED
  BY <1>5 DEF h

RefinementInv == TypeOK /\ RequestInv /\ HostsInv

(* Every step preserves that the hosts of the pass are listed ones.        *)
LEMMA RefinementInvStep == RefinementInv /\ CacheInv /\ [Next]_vars => HostsInv'
<1> SUFFICES ASSUME RefinementInv, [Next]_vars PROVE HostsInv'
  OBVIOUS
<1>1. CASE UNCHANGED suffixes
  BY <1>1 DEF RefinementInv, HostsInv
<1>2. ASSUME NEW found \in Discoverable, StartupDiscover(found) \/ Discover(found)
      PROVE  HostsInv'
  <2>1. suffixes' = static_suffixes \o found
    BY <1>2 DEF StartupDiscover, Discover
  <2> QED
    BY <2>1, ListedSuffixes DEF HostsInv, SuffixesOf
<1>3. CASE Restart
  BY <1>3 DEF Restart, HostsInv
<1>4. CASE SeedSome \/ SeedNothing \/ SeedDone \/ EnterLoop \/ SkipUpdate \/ SendUpdate
           \/ SetRecordOk \/ SetRecordErr \/ EndCycle
  BY <1>1, <1>4 DEF SeedSome, SeedNothing, SeedDone, EnterLoop, SkipUpdate, SendUpdate,
       SetRecordOk, SetRecordErr, SetRecordRefused, SetRecordTimeout, EndCycle, cycle
<1>5. CASE (\E p \in Prefix : DetectOk(p)) \/ DetectErr \/ Wake \/ Shutdown
  BY <1>1, <1>5 DEF DetectOk, DetectErr, Wake, WakeChange, WakeRefresh, Shutdown, cycle
<1>6. CASE SignalStep \/ RaiseSignal \/ NotifyChange \/ StoreStep \/ UNCHANGED vars
  BY <1>1, <1>6 DEF SignalStep, RegisterHandler, HandleSigint, HandleSigusr1, RaiseSignal,
       RaiseCaught, RaiseUncaught, NotifyChange, StoreStep, ApplyRequest, ApplyLate, vars, cycle
<1> QED
  BY <1>2, <1>3, <1>4, <1>5, <1>6 DEF Next, MainStep, UpdateStep, Halted

(* Every step of the daemon is a step of the abstract specification or     *)
(* leaves it alone.                                                        *)
LEMMA PublicationStep ==
  RefinementInv /\ [Next]_vars => [Publication!PNext]_(Publication!pvars)
<1> SUFFICES ASSUME RefinementInv, [Next]_vars
             PROVE  Publication!PNext \/ UNCHANGED <<dns, prefix, late>>
  BY DEF Publication!pvars
<1> USE DEF RefinementInv
<1>1. CASE UNCHANGED <<dns, prefix, late>>
  BY <1>1
<1>2. ASSUME NEW p \in Prefix \cup {None}, prefix' = p, UNCHANGED <<dns, late>>
      PROVE  Publication!PNext
  BY <1>2 DEF Publication!PNext, Publication!Adopt
<1>3. ASSUME pc = "await"
      PROVE  /\ Entry.domain \in Domain
             /\ Entry.suffix \in SuffixesOf[Entry.domain]
             /\ prefix # None
             /\ NewAddr = <<prefix, Entry.suffix>>
  BY <1>3, CurrentEntry DEF TypeOK, HostsInv, Entry, NewAddr, combine, Host
<1>4. ASSUME pc = "await", Abandon, UNCHANGED <<dns, prefix>>
      PROVE  Publication!PNext \/ UNCHANGED <<dns, prefix, late>>
  <2>1. CASE request = "sent"
    <3>1. Publication!Delay(Entry.domain, Entry.suffix)
      BY <1>3, <1>4, <2>1 DEF Abandon, Publication!Delay
    <3> QED
      BY <1>3, <1>4, <3>1 DEF Publication!PNext
  <2>2. CASE request # "sent"
    BY <1>4, <2>2 DEF Abandon
  <2> QED
    BY <2>1, <2>2
<1>5. CASE ApplyRequest
  <2>1. Publication!Publish(Entry.domain, Entry.suffix)
    BY <1>3, <1>5 DEF ApplyRequest, Publication!Publish
  <2> QED
    BY <1>3, <1>5, <2>1 DEF ApplyRequest, Publication!PNext
<1>6. ASSUME NEW d \in Domain, NEW a \in Addr, ApplyLate(d, a)
      PROVE  Publication!PNext
  <2>1. <<d, a>> \in late /\ Publication!Deliver(d, a)
    BY <1>6 DEF ApplyLate, Publication!Deliver, cycle
  <2> QED
    BY <2>1 DEF Publication!PNext
<1>7. CASE SetRecordTimeout
  BY <1>4, <1>7 DEF SetRecordTimeout
<1>8. ASSUME NEW s \in Signals, RaiseUncaught(s)
      PROVE  Publication!PNext \/ UNCHANGED <<dns, prefix, late>>
  BY <1>4, <1>8 DEF RaiseUncaught, cycle
<1>9. CASE (\E p \in Prefix : DetectOk(p)) \/ DetectErr \/ Restart
  BY <1>2, <1>9 DEF DetectOk, DetectErr, Restart, store
<1>10. CASE (\E found \in Discoverable : StartupDiscover(found) \/ Discover(found))
            \/ SeedSome \/ SeedNothing \/ SeedDone \/ EnterLoop \/ SkipUpdate \/ SendUpdate
            \/ SetRecordOk \/ SetRecordRefused \/ EndCycle
  BY <1>1, <1>10 DEF StartupDiscover, Discover, SeedSome, SeedNothing, SeedDone, EnterLoop,
       SkipUpdate, SendUpdate, SetRecordOk, SetRecordRefused, EndCycle, cycle, store
<1>11. CASE Wake \/ Shutdown \/ SignalStep \/ NotifyChange \/ UNCHANGED vars
            \/ \E s \in Signals : RaiseCaught(s)
  BY <1>1, <1>11 DEF Wake, WakeChange, WakeRefresh, Shutdown, SignalStep, RegisterHandler,
       HandleSigint, HandleSigusr1, NotifyChange, RaiseCaught, vars, cycle, store
<1> QED
  BY <1>5, <1>6, <1>7, <1>8, <1>9, <1>10, <1>11
  DEF Next, MainStep, UpdateStep, SetRecordErr, StoreStep, RaiseSignal, Halted

(* The published records only ever change to an address computed from the  *)
(* prefix of the running cycle and a suffix listed for that very domain,   *)
(* but for writes that were abandoned on their way (main.rs).              *)
THEOREM DaemonPublishes == Spec => PublishesOnlyComputedAddresses
<1>1. Init => Publication!PInit
  BY DEF Init, Publication!PInit
<1>2. Init => RefinementInv /\ CacheInv
  <2> SUFFICES ASSUME Init PROVE HostsInv /\ TypeOK /\ RequestInv /\ CacheHonest
    BY DEF RefinementInv, CacheInv
  <2>1. Len(suffixes) = 0
    BY DEF Init
  <2> QED
    BY <2>1, TypeOKInit DEF Init, HostsInv, RequestInv, CacheHonest
<1>3. RefinementInv /\ CacheInv /\ [Next]_vars => (RefinementInv /\ CacheInv)'
  BY RefinementInvStep, CacheInvStep DEF RefinementInv, CacheInv
<1> QED
  BY <1>1, <1>2, <1>3, PublicationStep, PTL
  DEF Spec, PublishesOnlyComputedAddresses, Publication!PSpec

-----------------------------------------------------------------------------
(* How far the daemon keeps two things its documents say of it without a   *)
(* condition (SkipOnlyWhenPublished and LastEntryWins of Daemon).          *)

(* An update is only skipped when the record has the address, or holds one *)
(* that a set_record was given up with (main.rs, the test of the cache).   *)
SkipErrsOnlyAfterLost ==
  [][SkipUpdate =>
       dns[Entry.domain] = NewAddr \/ <<Entry.domain, dns[Entry.domain]>> \in lost]_vars

(* The cache that allows a skip is honest at that moment.                  *)
LEMMA SkipIsHonest ==
  ASSUME CacheInv, SkipUpdate
  PROVE  dns[Entry.domain] = NewAddr \/ <<Entry.domain, dns[Entry.domain]>> \in lost
<1>1. Entry \in Host /\ prefix # None /\ NewAddr \in Addr
  BY CurrentEntry DEF CacheInv, SkipUpdate, TypeOK
<1>2. cache[Entry.domain] # None
  BY <1>1, DaemonAssumption DEF SkipUpdate
<1> QED
  BY <1>1, <1>2 DEF CacheInv, CacheHonest, SkipUpdate, Host

(* The daemon starts with an empty cache.                                  *)
LEMMA CacheInvInit == Init => CacheInv
  BY TypeOKInit DEF Init, CacheInv, RequestInv, CacheHonest

(* Without a bound on the lost writes: one of them is behind every update  *)
(* that is skipped wrongly (main.rs run_update_cycle).                     *)
THEOREM SkipsAreJustified == Spec => SkipErrsOnlyAfterLost
<1>1. CacheInv /\ [Next]_vars =>
        [SkipUpdate =>
           dns[Entry.domain] = NewAddr \/ <<Entry.domain, dns[Entry.domain]>> \in lost]_vars
  BY SkipIsHonest
<1> QED
  BY <1>1, CacheInvInit, CacheInvStep, PTL DEF Spec, SkipErrsOnlyAfterLost

(* When set_record always gets an answer, nothing is ever lost.            *)
LEMMA NothingLost ==
  ASSUME MaxLost = 0, lost = {}, [Next]_vars
  PROVE  lost' = {}
<1>1. ~Abandon
  <2> SUFFICES ASSUME Abandon PROVE FALSE
    OBVIOUS
  <2>1. lost' = {<<Entry.domain, NewAddr>>} /\ Cardinality(lost') <= 0
    BY DEF Abandon
  <2>2. Cardinality({<<Entry.domain, NewAddr>>}) = 1
    BY FS_Singleton
  <2> QED
    BY <2>1, <2>2
<1>2. CASE MainStep
  BY <1>1, <1>2 DEF MainStep, UpdateStep, StartupDiscover, Discover, SeedSome, SeedNothing,
     SeedDone, EnterLoop, SkipUpdate, SendUpdate, SetRecordOk, EndCycle, SetRecordErr,
     SetRecordRefused, SetRecordTimeout, DetectOk, DetectErr, Wake, WakeChange, WakeRefresh,
     Shutdown, store
<1>3. CASE SignalStep \/ StoreStep \/ NotifyChange \/ RaiseSignal \/ Restart \/ Halted
           \/ UNCHANGED vars
  BY <1>1, <1>3 DEF SignalStep, RegisterHandler, HandleSigint, HandleSigusr1, StoreStep,
     ApplyRequest, ApplyLate, NotifyChange, RaiseSignal, RaiseCaught, RaiseUncaught, Restart,
     Halted, vars, store
<1> QED
  BY <1>2, <1>3 DEF Next

(* CONCEPTS.md is right about skipped updates when every set_record gets   *)
(* an answer, whether it succeeds or not.                                  *)
THEOREM AnsweredCallsAreNotSkippedWrongly ==
  ASSUME MaxLost = 0
  PROVE  Spec => SkipOnlyWhenPublished
<1>1. Init => lost = {}
  BY DEF Init
<1>2. lost = {} /\ [Next]_vars => (lost = {})'
  BY NothingLost
<1>3. CacheInv /\ lost = {} /\ [Next]_vars => [SkipUpdate => dns[Entry.domain] = NewAddr]_vars
  BY SkipIsHonest
<1> QED
  BY <1>1, <1>2, <1>3, CacheInvInit, CacheInvStep, PTL DEF Spec, SkipOnlyWhenPublished

-----------------------------------------------------------------------------
(* No domain has two entries, whatever the discovery finds.                *)
DistinctDomains ==
  \A found \in Discoverable :
    LET hosts == static_suffixes \o found
    IN  \A i, j \in 1..Len(hosts) : hosts[i].domain = hosts[j].domain => i = j

(* A pass runs over the configured hosts and those of one discovery.       *)
PassInv == suffixes = <<>> \/ \E found \in Discoverable : suffixes = static_suffixes \o found

(* Only the two discoveries and a restart change the hosts of the pass.    *)
LEMMA PassInvStep == PassInv /\ [Next]_vars => PassInv'
<1> SUFFICES ASSUME PassInv, [Next]_vars PROVE PassInv'
  OBVIOUS
<1>1. CASE UNCHANGED suffixes
  BY <1>1 DEF PassInv
<1>2. CASE \E found \in Discoverable : StartupDiscover(found) \/ Discover(found)
  BY <1>2 DEF StartupDiscover, Discover, PassInv
<1>3. CASE Restart
  BY <1>3 DEF Restart, PassInv
<1>4. CASE SeedSome \/ SeedNothing \/ SeedDone \/ EnterLoop \/ SkipUpdate \/ SendUpdate
           \/ SetRecordOk \/ SetRecordErr \/ EndCycle
  BY <1>1, <1>4 DEF SeedSome, SeedNothing, SeedDone, EnterLoop, SkipUpdate, SendUpdate,
       SetRecordOk, SetRecordErr, SetRecordRefused, SetRecordTimeout, EndCycle, cycle
<1>5. CASE (\E p \in Prefix : DetectOk(p)) \/ DetectErr \/ Wake \/ Shutdown
  BY <1>1, <1>5 DEF DetectOk, DetectErr, Wake, WakeChange, WakeRefresh, Shutdown, cycle
<1>6. CASE SignalStep \/ RaiseSignal \/ NotifyChange \/ StoreStep \/ UNCHANGED vars
  BY <1>1, <1>6 DEF SignalStep, RegisterHandler, HandleSigint, HandleSigusr1, RaiseSignal,
       RaiseCaught, RaiseUncaught, NotifyChange, StoreStep, ApplyRequest, ApplyLate, vars, cycle
<1> QED
  BY <1>2, <1>3, <1>4, <1>5, <1>6 DEF Next, MainStep, UpdateStep, Halted

(* The last entry of a domain wins when it is the only one: of two entries *)
(* the loser is published too, as the run duplicate_domain shows.          *)
THEOREM SingleEntriesWin ==
  ASSUME DistinctDomains
  PROVE  Spec => LastEntryWins
<1>1. Init => PassInv
  BY DEF Init, PassInv
<1>2. TypeOK /\ PassInv /\ [Next]_vars =>
        [ApplyRequest =>
           \A j \in (idx + 1)..Len(suffixes) : suffixes[j].domain # Entry.domain]_vars
  <2> SUFFICES ASSUME TypeOK, PassInv, ApplyRequest, NEW j \in (idx + 1)..Len(suffixes)
               PROVE  suffixes[j].domain # Entry.domain
    OBVIOUS
  <2>1. idx \in 1..Len(suffixes) /\ j \in 1..Len(suffixes) /\ j # idx
    BY DEF TypeOK, ApplyRequest
  <2>2. PICK found \in Discoverable : suffixes = static_suffixes \o found
    BY <2>1 DEF PassInv
  <2> QED
    BY <2>1, <2>2, DistinctDomains DEF DistinctDomains, Entry
<1> QED
  BY <1>1, <1>2, PassInvStep, TypeOKInit, TypeOKStep, PTL DEF Spec, LastEntryWins
=============================================================================
