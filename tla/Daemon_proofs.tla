---------------------------- MODULE Daemon_proofs ----------------------------
(***************************************************************************)
(* Theorems about Daemon, for any prefixes, hosts, discoveries and bounds. *)
(***************************************************************************)
EXTENDS Daemon, TLAPS, FiniteSetTheorems

(* Every discovery leaves a host list the pass can be run over.            *)
LEMMA DiscoveredHosts ==
  ASSUME NEW found \in Discoverable
  PROVE  /\ static_suffixes \o found \in Seq(Host)
         /\ 1 \in 1..(Len(static_suffixes \o found) + 1)
<1>1. static_suffixes \in Seq(Host) /\ found \in Seq(Host)
  BY DaemonAssumption
<1>2. static_suffixes \o found \in Seq(Host)
  BY <1>1
<1>3. Len(static_suffixes \o found) \in Nat
  BY <1>2
<1> QED
  BY <1>2, <1>3

(* A new process holds no hosts.                                           *)
LEMMA NoHosts == <<>> \in Seq(Host) /\ 1 \in 1..(Len(<<>>) + 1)
  OBVIOUS

(* The entry a pass is at is a host, and its address under the detected    *)
(* prefix is an address.                                                   *)
LEMMA CurrentEntry ==
  ASSUME TypeOK, idx <= Len(suffixes)
  PROVE  /\ Entry \in Host
         /\ prefix # None => NewAddr \in Addr
<1>1. Entry \in Host
  BY DEF TypeOK, Entry
<1>2. ASSUME prefix # None PROVE NewAddr \in Addr
  BY <1>1, <1>2 DEF TypeOK, NewAddr, combine, Addr, Host
<1> QED
  BY <1>1, <1>2

(* Every step of main and of its environment preserves the type invariant. *)
LEMMA TypeOKStep == TypeOK /\ [Next]_vars => TypeOK'
<1> SUFFICES ASSUME TypeOK, [Next]_vars PROVE TypeOK'
  OBVIOUS
<1> USE DaemonAssumption DEF TypeOK, Unsubscribed, Subscribed, Send, MarkSeen, AfterCycle,
      cycle, tasks, store, Running
<1>1. ASSUME NEW found \in Discoverable, StartupDiscover(found) PROVE TypeOK'
  BY <1>1, DiscoveredHosts DEF StartupDiscover
<1>2. CASE SeedSome
  <2>1. Entry \in Host
    BY <1>2, CurrentEntry DEF SeedSome
  <2> QED
    BY <1>2, <2>1 DEF SeedSome, Host
<1>3. CASE SeedNothing
  BY <1>3 DEF SeedNothing
<1>4. CASE SeedDone
  BY <1>4 DEF SeedDone
<1>5. CASE EnterLoop
  BY <1>5 DEF EnterLoop
<1>6. ASSUME NEW p \in Prefix, DetectOk(p) PROVE TypeOK'
  BY <1>6 DEF DetectOk
<1>7. CASE DetectErr
  BY <1>7 DEF DetectErr
<1>8. ASSUME NEW found \in Discoverable, Discover(found) PROVE TypeOK'
  BY <1>8, DiscoveredHosts DEF Discover
<1>9. CASE SkipUpdate
  BY <1>9 DEF SkipUpdate
<1>10. CASE SendUpdate
  BY <1>10 DEF SendUpdate
<1>11. CASE SetRecordOk
  <2>1. Entry \in Host /\ NewAddr \in Addr
    BY <1>11, CurrentEntry DEF SetRecordOk
  <2> QED
    BY <1>11, <2>1 DEF SetRecordOk, Host
<1>12. CASE SetRecordRefused
  BY <1>12 DEF SetRecordRefused
<1>13. ASSUME pc = "await", Abandon
       PROVE  late' \subseteq Domain \X Addr /\ lost' \subseteq Domain \X Addr
  <2>1. Entry \in Host /\ NewAddr \in Addr
    BY <1>13, CurrentEntry
  <2> QED
    BY <1>13, <2>1 DEF Abandon, Host
<1>14. CASE SetRecordTimeout
  BY <1>13, <1>14 DEF SetRecordTimeout
<1>15. CASE EndCycle
  BY <1>15 DEF EndCycle
<1>16. CASE WakeChange
  BY <1>16 DEF WakeChange
<1>17. CASE WakeRefresh
  BY <1>17 DEF WakeRefresh
<1>18. CASE Shutdown
  BY <1>18 DEF Shutdown
<1>19. ASSUME NEW s \in {"INT", "USR1"}, RegisterHandler(s) PROVE TypeOK'
  BY <1>19 DEF RegisterHandler
<1>20. CASE HandleSigint
  BY <1>20 DEF HandleSigint
<1>21. CASE HandleSigusr1
  BY <1>21 DEF HandleSigusr1
<1>22. ASSUME NEW s \in Signals, RaiseCaught(s) PROVE TypeOK'
  BY <1>22 DEF RaiseCaught, Catches
<1>23. ASSUME NEW s \in Signals, RaiseUncaught(s) PROVE TypeOK'
  BY <1>13, <1>23 DEF RaiseUncaught
<1>24. CASE NotifyChange
  BY ZenonT(30), <1>24 DEF NotifyChange
<1>25. CASE ApplyRequest
  <2>1. Entry \in Host /\ NewAddr \in Addr
    BY <1>25, CurrentEntry DEF ApplyRequest
  <2> QED
    BY <1>25, <2>1 DEF ApplyRequest, Host
<1>26. ASSUME NEW d \in Domain, NEW a \in Addr, ApplyLate(d, a) PROVE TypeOK'
  BY <1>26 DEF ApplyLate
<1>27. CASE Restart
  <2>1. suffixes' \in Seq(Host) /\ idx' \in 1..(Len(suffixes') + 1)
    BY <1>27, NoHosts DEF Restart
  <2>2. pc' = "startup" /\ prefix' = None /\ request' = "none" /\ error_count' = 0
    BY <1>27 DEF Restart
  <2>3. cache' \in [Domain -> Addr \cup {None}]
    BY <1>27 DEF Restart
  <2>4. /\ change_rx' \in [subscribed : BOOLEAN, unseen : BOOLEAN]
        /\ handlers' \in [{"INT", "USR1"} -> {"none", "spawned", "waiting", "done"}]
        /\ sig' = {} /\ owed' = {} /\ force_refresh' = FALSE /\ cancel_token' = FALSE
    BY <1>27 DEF Restart
  <2>5. restarts' \in Nat /\ UNCHANGED <<dns, late, lost>>
    BY <1>27 DEF Restart
  <2> QED
    BY <2>1, <2>2, <2>3, <2>4, <2>5
<1>28. CASE UNCHANGED vars
  BY <1>28 DEF vars
<1> QED
  BY <1>1, <1>2, <1>3, <1>4, <1>5, <1>6, <1>7, <1>8, <1>9, <1>10, <1>11, <1>12, <1>14,
     <1>15, <1>16, <1>17, <1>18, <1>19, <1>20, <1>21, <1>22, <1>23, <1>24, <1>25, <1>26,
     <1>27, <1>28
  DEF Next, MainStep, UpdateStep, SetRecordErr, Wake, SignalStep, StoreStep, RaiseSignal, Halted

(* The type invariant holds at first.                                      *)
LEMMA TypeOKInit == Init => TypeOK
<1> SUFFICES ASSUME Init PROVE TypeOK
  OBVIOUS
<1>1. suffixes \in Seq(Host) /\ idx \in 1..(Len(suffixes) + 1)
  BY NoHosts DEF Init
<1>2. cache \in [Domain -> Addr \cup {None}]
  BY DEF Init
<1>3. /\ change_rx \in [subscribed : BOOLEAN, unseen : BOOLEAN]
      /\ handlers \in [{"INT", "USR1"} -> {"none", "spawned", "waiting", "done"}]
  BY DEF Init, Unsubscribed
<1> QED
  BY <1>1, <1>2, <1>3 DEF Init, TypeOK

(* The type invariant of the daemon: a pass over the hosts never leaves    *)
(* its list and never runs without a prefix (main.rs run_update_cycle).    *)
THEOREM TypeCorrect == Spec => []TypeOK
  BY TypeOKInit, TypeOKStep, PTL DEF Spec

-----------------------------------------------------------------------------
(* A change can only be owed to a receiver that exists, and the loop that  *)
(* creates it has none before.                                             *)
ReceiverInv ==
  /\ pc = "enter" => ~change_rx.subscribed
  /\ ~change_rx.subscribed => "change" \notin owed

WakeupInv == TypeOK /\ ReceiverInv /\ NoLostWakeup

(* Every step preserves the invariant about pending wake-ups.              *)
LEMMA WakeupInvStep == WakeupInv /\ [Next]_vars => WakeupInv'
<1> SUFFICES ASSUME WakeupInv, [Next]_vars PROVE WakeupInv'
  OBVIOUS
<1>0. TypeOK'
  BY TypeOKStep DEF WakeupInv
<1> SUFFICES ReceiverInv' /\ NoLostWakeup'
  BY <1>0 DEF WakeupInv
<1> USE DEF WakeupInv, TypeOK, ReceiverInv, NoLostWakeup, Unsubscribed, Subscribed, Send,
      MarkSeen, AfterCycle, cycle, tasks, store, Running
<1>1. CASE \E found \in Discoverable : StartupDiscover(found) \/ Discover(found)
  BY <1>1 DEF StartupDiscover, Discover
<1>2. CASE SeedSome \/ SeedNothing \/ SeedDone
  BY <1>2 DEF SeedSome, SeedNothing, SeedDone
<1>3. CASE EnterLoop
  BY <1>3 DEF EnterLoop
<1>4. CASE (\E p \in Prefix : DetectOk(p)) \/ DetectErr
  BY <1>4 DEF DetectOk, DetectErr
<1>5. CASE SkipUpdate \/ SendUpdate \/ SetRecordOk \/ SetRecordErr \/ EndCycle
  BY <1>5 DEF SkipUpdate, SendUpdate, SetRecordOk, SetRecordErr, SetRecordRefused,
              SetRecordTimeout, EndCycle
<1>6. CASE WakeChange
  BY <1>6 DEF WakeChange
<1>7. CASE WakeRefresh
  BY <1>7 DEF WakeRefresh
<1>8. CASE Shutdown
  BY <1>8 DEF Shutdown
<1>9. CASE SignalStep
  BY <1>9 DEF SignalStep, RegisterHandler, HandleSigint, HandleSigusr1
<1>10. CASE RaiseSignal
  BY <1>10 DEF RaiseSignal, RaiseCaught, RaiseUncaught
<1>11. CASE NotifyChange
  BY <1>11 DEF NotifyChange
<1>12. CASE StoreStep
  BY <1>12 DEF StoreStep, ApplyRequest, ApplyLate
<1>13. CASE Restart
  BY <1>13 DEF Restart
<1>14. CASE UNCHANGED vars
  BY <1>14 DEF vars
<1> QED
  BY <1>1, <1>2, <1>3, <1>4, <1>5, <1>6, <1>7, <1>8, <1>9, <1>10, <1>11, <1>12, <1>13, <1>14
  DEF Next, MainStep, UpdateStep, Wake, Halted

(* No wake-up that reaches the loop is lost: main.rs, the select! of the   *)
(* loop, the signal tasks and the watch channel.                           *)
THEOREM WakeupsAreKept == Spec => []NoLostWakeup
<1>1. Init => WakeupInv
  BY TypeOKInit DEF Init, WakeupInv, ReceiverInv, NoLostWakeup
<1> QED
  BY <1>1, WakeupInvStep, PTL DEF Spec, WakeupInv

-----------------------------------------------------------------------------
(* A request exists only while it is awaited, or died with the process;    *)
(* once applied, only an abandoned write can have overwritten it.          *)
RequestInv ==
  /\ pc \notin {"await", "killed"} => request = "none"
  /\ pc = "await" => request # "none"
  /\ late \subseteq lost
  /\ (pc = "await" /\ request = "applied") =>
       dns[Entry.domain] = NewAddr \/ <<Entry.domain, dns[Entry.domain]>> \in lost

CacheInv == TypeOK /\ RequestInv /\ CacheHonest

(* Every step preserves the invariant about the cache.                     *)
LEMMA CacheInvStep == CacheInv /\ [Next]_vars => CacheInv'
<1> SUFFICES ASSUME CacheInv, [Next]_vars PROVE CacheInv'
  OBVIOUS
<1>0. TypeOK'
  BY TypeOKStep DEF CacheInv
<1> SUFFICES RequestInv' /\ CacheHonest'
  BY <1>0 DEF CacheInv
<1> USE DEF CacheInv, RequestInv, CacheHonest, AfterCycle, cycle, tasks, store, Running
<1>1. CASE \E found \in Discoverable : StartupDiscover(found) \/ Discover(found)
  BY <1>1 DEF StartupDiscover, Discover
<1>2. CASE SeedSome
  <2>1. Entry \in Host
    BY <1>2, CurrentEntry DEF SeedSome
  <2> QED
    BY <1>2, <2>1 DEF SeedSome, TypeOK, Host
<1>3. CASE SeedNothing \/ SeedDone \/ EnterLoop
  BY <1>3 DEF SeedNothing, SeedDone, EnterLoop
<1>4. CASE (\E p \in Prefix : DetectOk(p)) \/ DetectErr
  BY <1>4 DEF DetectOk, DetectErr
<1>5. CASE SkipUpdate \/ SendUpdate \/ EndCycle
  BY <1>5 DEF SkipUpdate, SendUpdate, EndCycle
<1>6. CASE SetRecordOk
  <2>1. Entry \in Host
    BY <1>6, CurrentEntry DEF SetRecordOk, TypeOK
  <2> QED
    BY <1>6, <2>1 DEF SetRecordOk, TypeOK, Host
<1>7. CASE SetRecordRefused
  BY <1>7 DEF SetRecordRefused
<1>8. CASE SetRecordTimeout
  BY <1>8 DEF SetRecordTimeout, Abandon, TypeOK
<1>9. CASE Wake \/ Shutdown \/ SignalStep \/ NotifyChange
  <2>1. UNCHANGED <<suffixes, idx, prefix, request, cache, dns, late, lost>>
    BY <1>9 DEF Wake, WakeChange, WakeRefresh, Shutdown, SignalStep, RegisterHandler,
                HandleSigint, HandleSigusr1, NotifyChange
  <2>2. pc' = pc \/ (pc = "select" /\ pc' \in {"detect", "stopped"})
    BY <1>9 DEF Wake, WakeChange, WakeRefresh, Shutdown, SignalStep, RegisterHandler,
                HandleSigint, HandleSigusr1, NotifyChange
  <2> QED
    BY <2>1, <2>2 DEF Entry, NewAddr
<1>10. CASE RaiseSignal
  <2>1. ASSUME NEW s \in Signals, RaiseCaught(s) PROVE RequestInv' /\ CacheHonest'
    BY <2>1 DEF RaiseCaught, Entry, NewAddr
  <2>2. ASSUME NEW s \in Signals, RaiseUncaught(s) PROVE RequestInv' /\ CacheHonest'
    BY <2>2 DEF RaiseUncaught, Abandon, Entry, NewAddr
  <2> QED
    BY <1>10, <2>1, <2>2 DEF RaiseSignal
<1>11. CASE ApplyRequest
  <2>1. Entry \in Host
    BY <1>11, CurrentEntry DEF ApplyRequest, TypeOK
  <2> QED
    BY <1>11, <2>1 DEF ApplyRequest, TypeOK, Host, Entry, NewAddr
<1>12. ASSUME NEW d \in Domain, NEW a \in Addr, ApplyLate(d, a)
       PROVE  RequestInv' /\ CacheHonest'
  <2>1. \A e \in Domain : dns'[e] = IF e = d THEN a ELSE dns[e]
    BY <1>12 DEF ApplyLate, TypeOK
  <2>2. <<d, a>> \in lost' /\ late' \subseteq lost'
    BY <1>12 DEF ApplyLate
  <2>3. pc = "await" => Entry.domain \in Domain
    BY CurrentEntry DEF TypeOK, Host
  <2> QED
    BY <1>12, <2>1, <2>2, <2>3 DEF ApplyLate, Entry, NewAddr
<1>13. CASE Restart
  BY <1>13 DEF Restart
<1>14. CASE UNCHANGED vars
  BY <1>14 DEF vars, Entry, NewAddr
<1> QED
  BY <1>1, <1>2, <1>3, <1>4, <1>5, <1>6, <1>7, <1>8, <1>9, <1>10, <1>11, <1>12, <1>13, <1>14
  DEF Next, MainStep, UpdateStep, SetRecordErr, StoreStep, Halted

(* The cache errs only after a write that was given up without an answer:  *)
(* main.rs, the seeding of the cache and its update after set_record.      *)
THEOREM CacheIsHonest == Spec => []CacheHonest
<1>1. Init => CacheInv
  BY TypeOKInit DEF Init, CacheInv, RequestInv, CacheHonest
<1> QED
  BY <1>1, CacheInvStep, PTL DEF Spec, CacheInv

-----------------------------------------------------------------------------
(* The domains whose last entry among the first n is not what the cache    *)
(* says of them.                                                           *)
StaleUpTo(n) ==
  {d \in Domain : \E i \in 1..n :
      /\ suffixes[i].domain = d
      /\ \A j \in (i + 1)..n : suffixes[j].domain # d
      /\ cache[d] # combine(prefix, suffixes[i].suffix)}

(* What the pass has seen so far is stale only as far as it has failed.    *)
StaleInv ==
  /\ pc \in {"apply", "await"} =>
       /\ IsFiniteSet(StaleUpTo(idx - 1))
       /\ Cardinality(StaleUpTo(idx - 1)) <= error_count
  /\ (pc \in {"enter", "select"} /\ prefix # None) =>
       /\ IsFiniteSet(StaleUpTo(Len(suffixes)))
       /\ Cardinality(StaleUpTo(Len(suffixes))) <= error_count

ErrorInv == TypeOK /\ StaleInv

(* One more entry adds at most its own domain, and not even that one when  *)
(* the cache holds the address of the entry.                               *)
LEMMA StaleGrows ==
  ASSUME NEW n \in Nat, n + 1 \in 1..Len(suffixes), suffixes \in Seq(Host)
  PROVE  /\ StaleUpTo(n + 1) \subseteq StaleUpTo(n) \cup {suffixes[n + 1].domain}
         /\ cache[suffixes[n + 1].domain] = combine(prefix, suffixes[n + 1].suffix)
              => StaleUpTo(n + 1) \subseteq StaleUpTo(n)
<1>1. ASSUME NEW d \in StaleUpTo(n + 1), d # suffixes[n + 1].domain
      PROVE  d \in StaleUpTo(n)
  <2>1. PICK i \in 1..(n + 1) :
          /\ suffixes[i].domain = d
          /\ \A j \in (i + 1)..(n + 1) : suffixes[j].domain # d
          /\ cache[d] # combine(prefix, suffixes[i].suffix)
    BY <1>1 DEF StaleUpTo
  <2>2. i \in 1..n /\ \A j \in (i + 1)..n : suffixes[j].domain # d
    BY <1>1, <2>1
  <2> QED
    BY <2>1, <2>2 DEF StaleUpTo
<1>2. ASSUME cache[suffixes[n + 1].domain] = combine(prefix, suffixes[n + 1].suffix)
      PROVE  suffixes[n + 1].domain \notin StaleUpTo(n + 1)
  <2> SUFFICES ASSUME suffixes[n + 1].domain \in StaleUpTo(n + 1) PROVE FALSE
    OBVIOUS
  <2>1. PICK i \in 1..(n + 1) :
          /\ \A j \in (i + 1)..(n + 1) : suffixes[j].domain # suffixes[n + 1].domain
          /\ cache[suffixes[n + 1].domain] # combine(prefix, suffixes[i].suffix)
    BY DEF StaleUpTo
  <2>2. i = n + 1
    BY <2>1
  <2> QED
    BY <1>2, <2>1, <2>2
<1> QED
  BY <1>1, <1>2

(* A smaller set, and one with one more element, in numbers.               *)
LEMMA SmallerStale ==
  ASSUME NEW S, NEW T, IsFiniteSet(T), S \subseteq T, NEW n \in Nat, Cardinality(T) <= n
  PROVE  IsFiniteSet(S) /\ Cardinality(S) <= n
<1>1. IsFiniteSet(S) /\ Cardinality(S) <= Cardinality(T)
  BY FS_Subset
<1>2. Cardinality(S) \in Nat /\ Cardinality(T) \in Nat
  BY <1>1, FS_CardinalityType
<1> QED
  BY <1>1, <1>2

(* Adding one domain adds at most one to the number.                       *)
LEMMA OneMoreStale ==
  ASSUME NEW S, NEW T, NEW x, IsFiniteSet(T), S \subseteq T \cup {x},
         NEW n \in Nat, Cardinality(T) <= n
  PROVE  IsFiniteSet(S) /\ Cardinality(S) <= n + 1
<1>1. /\ IsFiniteSet(T \cup {x})
      /\ Cardinality(T \cup {x}) = Cardinality(T) \/ Cardinality(T \cup {x}) = Cardinality(T) + 1
  BY FS_AddElement
<1>2. Cardinality(T) \in Nat
  BY FS_CardinalityType
<1>3. Cardinality(T \cup {x}) <= n + 1
  BY <1>1, <1>2
<1> QED
  BY <1>1, <1>3, SmallerStale

(* Every step of a pass keeps the errors ahead of the stale domains.       *)
LEMMA StaleInvStep == ErrorInv /\ [Next]_vars => ErrorInv'
<1> SUFFICES ASSUME ErrorInv, [Next]_vars PROVE StaleInv'
  BY TypeOKStep DEF ErrorInv
<1> USE DEF ErrorInv
<1>a. suffixes \in Seq(Host) /\ idx \in 1..(Len(suffixes) + 1) /\ Len(suffixes) \in Nat
      /\ error_count \in Nat
  BY DEF TypeOK
<1>b. ASSUME pc \in {"apply", "await"}, idx <= Len(suffixes)
      PROVE  /\ StaleUpTo(idx) \subseteq StaleUpTo(idx - 1) \cup {Entry.domain}
             /\ cache[Entry.domain] = NewAddr => StaleUpTo(idx) \subseteq StaleUpTo(idx - 1)
  <2>1. idx - 1 \in Nat /\ (idx - 1) + 1 = idx /\ idx \in 1..Len(suffixes)
    BY <1>a, <1>b
  <2> QED
    BY <1>a, <2>1, StaleGrows DEF Entry, NewAddr
<1>1. CASE UNCHANGED <<suffixes, idx, prefix, error_count, cache>>
           /\ (pc' = pc \/ pc' \in {"startup", "seed", "detect", "discover", "stopped", "killed"})
  BY <1>1 DEF StaleInv, StaleUpTo
<1>2. ASSUME NEW found \in Discoverable, StartupDiscover(found) PROVE StaleInv'
  BY <1>2 DEF StartupDiscover, StaleInv
<1>3. CASE SeedSome \/ SeedNothing
  BY <1>3 DEF SeedSome, SeedNothing, StaleInv
<1>4. CASE SeedDone
  BY <1>1, <1>4 DEF SeedDone, cycle
<1>5. CASE EnterLoop
  BY <1>5 DEF EnterLoop, StaleInv, StaleUpTo, cycle
<1>6. CASE (\E p \in Prefix : DetectOk(p)) \/ DetectErr
  BY <1>6 DEF DetectOk, DetectErr, StaleInv, AfterCycle
<1>7. ASSUME NEW found \in Discoverable, Discover(found) PROVE StaleInv'
  <2>1. pc' = "apply" /\ error_count' = 0 /\ idx' = 1
    BY <1>7 DEF Discover
  <2>2. StaleUpTo(idx - 1)' = {}
    BY <2>1 DEF StaleUpTo
  <2> QED
    BY <2>1, <2>2, FS_EmptySet DEF StaleInv
<1>8. CASE SkipUpdate
  <2>1. /\ pc = "apply" /\ idx <= Len(suffixes) /\ cache[Entry.domain] = NewAddr
        /\ idx' = idx + 1 /\ UNCHANGED <<pc, suffixes, prefix, error_count, cache>>
    BY <1>8 DEF SkipUpdate
  <2>2. StaleUpTo(idx - 1)' = StaleUpTo(idx)
    BY <1>a, <2>1 DEF StaleUpTo
  <2>3. IsFiniteSet(StaleUpTo(idx)) /\ Cardinality(StaleUpTo(idx)) <= error_count
    BY <1>a, <1>b, <2>1, SmallerStale DEF StaleInv
  <2> QED
    BY <2>1, <2>2, <2>3 DEF StaleInv
<1>9. CASE SendUpdate
  BY <1>9 DEF SendUpdate, StaleInv, StaleUpTo
<1>10. CASE SetRecordOk
  <2>1. /\ pc = "await" /\ idx <= Len(suffixes) /\ Entry \in Host
        /\ cache' = [cache EXCEPT ![Entry.domain] = NewAddr]
        /\ idx' = idx + 1 /\ pc' = "apply" /\ UNCHANGED <<suffixes, prefix, error_count>>
    BY <1>10, CurrentEntry DEF SetRecordOk, TypeOK
  <2>2. cache'[Entry.domain] = NewAddr /\ \A d \in Domain \ {Entry.domain} : cache'[d] = cache[d]
    BY <2>1 DEF TypeOK, Host
  <2>3. StaleUpTo(idx - 1)' \subseteq StaleUpTo(idx - 1)
    <3>1. Entry.domain \notin StaleUpTo(idx - 1)'
      <4> SUFFICES ASSUME Entry.domain \in StaleUpTo(idx - 1)' PROVE FALSE
        OBVIOUS
      <4>1. PICK i \in 1..idx :
              /\ \A j \in (i + 1)..idx : suffixes[j].domain # Entry.domain
              /\ cache'[Entry.domain] # combine(prefix, suffixes[i].suffix)
        BY SMTT(30), <1>a, <2>1 DEF StaleUpTo
      <4>2. i = idx
        BY <1>a, <4>1 DEF Entry
      <4> QED
        BY <2>2, <4>1, <4>2 DEF Entry, NewAddr
    <3>2. ASSUME NEW d \in Domain, d # Entry.domain, d \in StaleUpTo(idx - 1)'
          PROVE  d \in StaleUpTo(idx - 1)
      <4>1. PICK i \in 1..idx :
              /\ suffixes[i].domain = d
              /\ \A j \in (i + 1)..idx : suffixes[j].domain # d
              /\ cache[d] # combine(prefix, suffixes[i].suffix)
        BY <1>a, <2>1, <2>2, <3>2 DEF StaleUpTo
      <4>2. i \in 1..(idx - 1) /\ \A j \in (i + 1)..(idx - 1) : suffixes[j].domain # d
        BY <1>a, <3>2, <4>1 DEF Entry
      <4> QED
        BY <4>1, <4>2 DEF StaleUpTo
    <3> QED
      BY <3>1, <3>2 DEF StaleUpTo
  <2>4. IsFiniteSet(StaleUpTo(idx - 1)') /\ Cardinality(StaleUpTo(idx - 1)') <= error_count
    BY <1>a, <2>1, <2>3, SmallerStale DEF StaleInv
  <2> QED
    BY <2>1, <2>4 DEF StaleInv
<1>11. CASE SetRecordErr
  <2>1. /\ pc = "await" /\ idx <= Len(suffixes) /\ error_count' = error_count + 1
        /\ idx' = idx + 1 /\ pc' = "apply" /\ UNCHANGED <<suffixes, prefix, cache>>
    BY <1>11 DEF SetRecordErr, SetRecordRefused, SetRecordTimeout, TypeOK
  <2>2. StaleUpTo(idx - 1)' = StaleUpTo(idx)
    <3>1. idx' - 1 = idx
      BY <1>a, <2>1
    <3> QED
      BY <2>1, <3>1 DEF StaleUpTo
  <2>3. IsFiniteSet(StaleUpTo(idx)) /\ Cardinality(StaleUpTo(idx)) <= error_count + 1
    BY <1>a, <1>b, <2>1, OneMoreStale DEF StaleInv
  <2> QED
    BY <2>1, <2>2, <2>3 DEF StaleInv
<1>12. CASE EndCycle
  <2>1. /\ pc = "apply" /\ idx - 1 = Len(suffixes) /\ pc' \in {"enter", "select"}
        /\ UNCHANGED <<suffixes, idx, prefix, error_count, cache>>
    BY <1>12, <1>a DEF EndCycle, AfterCycle, cycle
  <2> QED
    BY <2>1 DEF StaleInv, StaleUpTo
<1>13. CASE Wake \/ Shutdown \/ SignalStep \/ NotifyChange
  BY <1>1, <1>13 DEF Wake, WakeChange, WakeRefresh, Shutdown, SignalStep, RegisterHandler,
       HandleSigint, HandleSigusr1, NotifyChange, cycle
<1>14. CASE RaiseSignal
  BY <1>1, <1>14 DEF RaiseSignal, RaiseCaught, RaiseUncaught, cycle
<1>15. CASE StoreStep
  BY <1>1, <1>15 DEF StoreStep, ApplyRequest, ApplyLate, cycle
<1>16. CASE Restart
  BY <1>16 DEF Restart, StaleInv
<1>17. CASE UNCHANGED vars
  BY <1>1, <1>17 DEF vars, cycle
<1> QED
  BY <1>2, <1>3, <1>4, <1>5, <1>6, <1>7, <1>8, <1>9, <1>10, <1>11, <1>12, <1>13, <1>14, <1>15,
     <1>16, <1>17
  DEF Next, MainStep, UpdateStep, Halted

(* A record that is wrong is one of which the cache knows that it is not   *)
(* the address the cycle wants: the cache does not claim what is not so.   *)
LEMMA UnpublishedIsStale ==
  ASSUME TypeOK, CacheHonest, pc \in {"enter", "select"}, prefix # None
  PROVE  Unpublished \subseteq StaleUpTo(Len(suffixes))
<1> SUFFICES ASSUME NEW d \in Unpublished PROVE d \in StaleUpTo(Len(suffixes))
  OBVIOUS
<1>1. PICK i \in 1..Len(suffixes) :
        /\ suffixes[i].domain = d
        /\ \A j \in (i + 1)..Len(suffixes) : suffixes[j].domain # d
        /\ dns[d] # combine(prefix, suffixes[i].suffix)
        /\ <<d, dns[d]>> \notin lost
  BY DEF Unpublished
<1>2. d \in Domain
  BY DEF Unpublished
<1>3. combine(prefix, suffixes[i].suffix) # None
  <2>1. suffixes[i] \in Host
    BY DEF TypeOK
  <2> QED
    BY <2>1, DaemonAssumption DEF TypeOK, combine, Addr, Host
<1>4. cache[d] # combine(prefix, suffixes[i].suffix)
  BY <1>1, <1>2, <1>3 DEF CacheHonest
<1> QED
  BY <1>1, <1>2, <1>4 DEF StaleUpTo

(* A cycle reports at least one error for every domain it leaves with a    *)
(* wrong record, but for records left by abandoned writes: the count of    *)
(* run_update_cycle, joined with what the cache is worth.                  *)
THEOREM ErrorsAreReported == Spec => []ErrorsAccountForStale
<1>1. Init => ErrorInv /\ CacheInv
  BY TypeOKInit DEF Init, ErrorInv, StaleInv, CacheInv, RequestInv, CacheHonest
<1>2. ErrorInv /\ CacheInv => ErrorsAccountForStale
  <2> SUFFICES ASSUME ErrorInv, CacheInv, pc \in {"enter", "select"}, prefix # None
               PROVE  Cardinality(Unpublished) <= error_count
    BY DEF ErrorsAccountForStale
  <2>1. Unpublished \subseteq StaleUpTo(Len(suffixes))
    BY UnpublishedIsStale DEF ErrorInv, CacheInv
  <2>2. /\ IsFiniteSet(StaleUpTo(Len(suffixes))) /\ error_count \in Nat
        /\ Cardinality(StaleUpTo(Len(suffixes))) <= error_count
    BY DEF ErrorInv, StaleInv, TypeOK
  <2> QED
    BY <2>1, <2>2, SmallerStale
<1> QED
  BY <1>1, <1>2, StaleInvStep, CacheInvStep, PTL DEF Spec

(* After a cycle without errors every listed host is published under the   *)
(* detected prefix, but for writes given up on (main.rs run_update_cycle). *)
THEOREM CleanCyclePublishes == Spec => []ErrorFreeCyclePublishes
<1>1. Init => ErrorInv /\ CacheInv
  BY TypeOKInit DEF Init, ErrorInv, StaleInv, CacheInv, RequestInv, CacheHonest
<1>2. ErrorInv /\ CacheInv => ErrorFreeCyclePublishes
  <2> SUFFICES ASSUME ErrorInv, CacheInv, pc \in {"enter", "select"}, prefix # None,
                      error_count = 0, NEW i \in 1..Len(suffixes),
                      \A j \in (i + 1)..Len(suffixes) : suffixes[j].domain # suffixes[i].domain
               PROVE  \/ dns[suffixes[i].domain] = combine(prefix, suffixes[i].suffix)
                      \/ <<suffixes[i].domain, dns[suffixes[i].domain]>> \in lost
    BY DEF ErrorFreeCyclePublishes
  <2>1. StaleUpTo(Len(suffixes)) = {}
    <3>1. IsFiniteSet(StaleUpTo(Len(suffixes))) /\ Cardinality(StaleUpTo(Len(suffixes))) <= 0
      BY DEF ErrorInv, StaleInv
    <3>2. Cardinality(StaleUpTo(Len(suffixes))) = 0
      BY <3>1, FS_CardinalityType
    <3> QED
      BY <3>1, <3>2, FS_EmptySet
  <2>2. suffixes[i] \in Host
    BY DEF ErrorInv, TypeOK
  <2>3. cache[suffixes[i].domain] = combine(prefix, suffixes[i].suffix)
    BY <2>1, <2>2 DEF StaleUpTo, Host
  <2>4. combine(prefix, suffixes[i].suffix) # None
    BY <2>2, DaemonAssumption DEF ErrorInv, TypeOK, combine, Addr, Host
  <2> QED
    BY <2>2, <2>3, <2>4 DEF CacheInv, CacheHonest, Host
<1> QED
  BY <1>1, <1>2, StaleInvStep, CacheInvStep, PTL DEF Spec
=============================================================================
