------------------------------- MODULE Daemon -------------------------------
(***************************************************************************)
(* The daemon's own control: main and run_update_cycle of src/main.rs with *)
(* the two signal tasks main spawns, the watch channel of the detector and *)
(* the record store behind the updater.                                    *)
(*                                                                         *)
(* The main task is a program with one location per await, `pc`; every     *)
(* other actor (the detector's background task, the signal tasks, the      *)
(* record store, the operator, the supervisor) may step between two of its *)
(* steps.  Here the detector and the discoverer answer anything they can   *)
(* ever answer; DetectorDaemon and DockerDaemon have the real ones.        *)
(***************************************************************************)
EXTENDS Naturals, Sequences, FiniteSets

CONSTANTS
  Prefix,           \* the /64 networks a detector may return
  Suffix,           \* host suffixes (lower 64 bits)
  Domain,           \* fully qualified names
  static_suffixes,  \* the [[hosts]] entries, in the order of the file
  Discoverable,     \* the host lists Docker discovery may return
  Signals,          \* the signals the environment sends
  MaxLost,          \* bound: set_record calls whose outcome stays unknown
  MaxRestarts,      \* bound: restarts by the supervisor
  None              \* absence of a value (Option::None)

Host == [suffix : Suffix, domain : Domain]
Addr == Prefix \X Suffix

(* util::combine on the two halves; its bit-level form is in Ipv6Addr.     *)
combine(p, s) == <<p, s>>

ASSUME DaemonAssumption ==
  /\ static_suffixes \in Seq(Host)
  /\ Discoverable \subseteq Seq(Host) /\ Discoverable # {}
  /\ Signals \subseteq {"INT", "USR1", "TERM", "KILL"}
  /\ MaxLost \in Nat /\ MaxRestarts \in Nat
  /\ None \notin Prefix /\ None \notin Addr

VARIABLES
  pc,             \* where the main task is
  suffixes,       \* the host list of the current pass
  idx,            \* the entry of `suffixes` the pass is at
  prefix,         \* the prefix the current cycle detected
  error_count,    \* updates of the current cycle that failed
  request,        \* the set_record in progress: "none", "sent", "applied"
  cache,          \* domain -> last address known to be published, or None
  change_rx,      \* main's receiver of the detector's watch channel
  force_refresh,  \* the permit of the Notify
  cancel_token,   \* is the CancellationToken cancelled
  handlers,       \* the two signal tasks
  sig,            \* signals delivered to the process, not yet received
  dns,            \* the published records
  late,           \* abandoned writes that may still reach the record store
  restarts,       \* restarts so far
  owed,           \* history: requests for a cycle no detection has followed
  lost            \* history: writes abandoned without a definite outcome

cycle == <<suffixes, idx, prefix, error_count, request>>
tasks == <<change_rx, force_refresh, cancel_token, handlers, sig>>
store == <<dns, late, lost>>
vars == <<pc, cycle, cache, tasks, store, restarts, owed>>

Entry == suffixes[idx]

(* Slip: the suffix of the first entry is used throughout.                 *)
FirstSuffixAddr == combine(prefix, suffixes[1].suffix)

NewAddr == combine(prefix, Entry.suffix)
Running == pc \notin {"stopped", "killed"}

(* A tokio watch channel of (): a send without a receiver stores nothing.  *)
Unsubscribed == [subscribed |-> FALSE, unseen |-> FALSE]
Subscribed == [subscribed |-> TRUE, unseen |-> FALSE]
Send(rx) == [rx EXCEPT !.unseen = rx.subscribed]
MarkSeen(rx) == [rx EXCEPT !.unseen = FALSE]

Init ==
  /\ pc = "startup"
  /\ suffixes = <<>> /\ idx = 1 /\ prefix = None
  /\ error_count = 0 /\ request = "none"
  /\ cache = [d \in Domain |-> None]
  /\ change_rx = Unsubscribed
  /\ force_refresh = FALSE /\ cancel_token = FALSE
  /\ handlers = [s \in {"INT", "USR1"} |-> "none"]
  /\ sig = {} /\ owed = {}
  /\ dns \in [Domain -> Addr \cup {None}]
  /\ late = {} /\ lost = {} /\ restarts = 0

-----------------------------------------------------------------------------
(* main before its loop.                                                   *)

(* The first discovery only names the domains to look up.                  *)
StartupDiscover(found) ==
  /\ pc = "startup"
  /\ suffixes' = static_suffixes \o found
  /\ idx' = 1
  /\ pc' = "seed"
  /\ UNCHANGED <<prefix, error_count, request, cache, tasks, store, restarts, owed>>

(* get_record answered Ok(Some(addr)).                                     *)
SeedSome ==
  /\ pc = "seed" /\ idx <= Len(suffixes)
  /\ dns[Entry.domain] # None
  /\ cache' = [cache EXCEPT ![Entry.domain] = dns[Entry.domain]]
  /\ idx' = idx + 1
  /\ UNCHANGED <<pc, suffixes, prefix, error_count, request, tasks, store, restarts, owed>>

(* get_record answered Ok(None), or failed, which any query may.           *)
SeedNothing ==
  /\ pc = "seed" /\ idx <= Len(suffixes)
  /\ idx' = idx + 1
  /\ UNCHANGED <<pc, suffixes, prefix, error_count, request, cache, tasks, store, restarts, owed>>

SeedDone ==
  /\ pc = "seed" /\ idx > Len(suffixes)
  /\ pc' = "detect"
  /\ UNCHANGED <<cycle, cache, tasks, store, restarts, owed>>

(* After the startup cycle: spawn the two signal tasks, then subscribe.    *)
EnterLoop ==
  /\ pc = "enter"
  /\ handlers' = [s \in {"INT", "USR1"} |-> "spawned"]
  /\ change_rx' = Subscribed
  /\ pc' = "select"
  /\ UNCHANGED <<cycle, cache, force_refresh, cancel_token, sig, store, restarts, owed>>

-----------------------------------------------------------------------------
(* run_update_cycle, from startup and from the loop.                       *)

AfterCycle == IF change_rx.subscribed THEN "select" ELSE "enter"

DetectOk(p) ==
  /\ pc = "detect"
  /\ prefix' = p
  /\ owed' = {}
  /\ pc' = "discover"
  /\ UNCHANGED <<suffixes, idx, error_count, request, cache, tasks, store, restarts>>

(* Slip: the error is logged, but the cycle goes on.                       *)
DetectErrFallsThrough ==
  /\ pc = "detect"
  /\ prefix' = None
  /\ owed' = {}
  /\ pc' = "discover"
  /\ UNCHANGED <<suffixes, idx, error_count, request, cache, tasks, store, restarts>>

(* "prefix detection failed, skipping update cycle"                        *)
DetectErr ==
  /\ pc = "detect"
  /\ prefix' = None
  /\ owed' = {}
  /\ pc' = AfterCycle
  /\ UNCHANGED <<suffixes, idx, error_count, request, cache, tasks, store, restarts>>

(* Both entries of a domain that is listed twice are kept.                 *)
Discover(found) ==
  /\ pc = "discover"
  /\ suffixes' = static_suffixes \o found
  /\ idx' = 1
  /\ error_count' = 0
  /\ pc' = "apply"
  /\ UNCHANGED <<prefix, request, cache, tasks, store, restarts, owed>>

(* Slip: any cached address will do.                                       *)
SkipCached ==
  /\ pc = "apply" /\ idx <= Len(suffixes)
  /\ cache[Entry.domain] # None
  /\ idx' = idx + 1
  /\ UNCHANGED <<pc, suffixes, prefix, error_count, request, cache, tasks, store, restarts, owed>>

(* The cached address already is the new one.                              *)
SkipUpdate ==
  /\ pc = "apply" /\ idx <= Len(suffixes)
  /\ cache[Entry.domain] = NewAddr
  /\ idx' = idx + 1
  /\ UNCHANGED <<pc, suffixes, prefix, error_count, request, cache, tasks, store, restarts, owed>>

SendUpdate ==
  /\ pc = "apply" /\ idx <= Len(suffixes)
  /\ cache[Entry.domain] # NewAddr
  /\ request' = "sent"
  /\ pc' = "await"
  /\ UNCHANGED <<suffixes, idx, prefix, error_count, cache, tasks, store, restarts, owed>>

SetRecordOk ==
  /\ pc = "await" /\ request = "applied"
  /\ cache' = [cache EXCEPT ![Entry.domain] = NewAddr]
  /\ idx' = idx + 1
  /\ request' = "none"
  /\ pc' = "apply"
  /\ UNCHANGED <<suffixes, prefix, error_count, tasks, store, restarts, owed>>

(* Slip: the address is cached before the result is looked at.             *)
RefusedIsCached ==
  /\ pc = "await" /\ request = "sent"
  /\ cache' = [cache EXCEPT ![Entry.domain] = NewAddr]
  /\ error_count' = error_count + 1
  /\ idx' = idx + 1
  /\ request' = "none"
  /\ pc' = "apply"
  /\ UNCHANGED <<suffixes, prefix, tasks, store, restarts, owed>>

(* Slip: the first failed update ends the pass.                            *)
RefusedEndsPass ==
  /\ pc = "await" /\ request = "sent"
  /\ error_count' = error_count + 1
  /\ idx' = Len(suffixes) + 1
  /\ request' = "none"
  /\ pc' = "apply"
  /\ UNCHANGED <<suffixes, prefix, cache, tasks, store, restarts, owed>>

(* A definite refusal: the record store never took the write.              *)
SetRecordRefused ==
  /\ pc = "await" /\ request = "sent"
  /\ error_count' = error_count + 1
  /\ idx' = idx + 1
  /\ request' = "none"
  /\ pc' = "apply"
  /\ UNCHANGED <<suffixes, prefix, cache, tasks, store, restarts, owed>>

(* The write in progress is given up: it may have been applied, and if it  *)
(* was not it may still be.                                                *)
Abandon ==
  /\ lost' = lost \cup {<<Entry.domain, NewAddr>>}
  /\ Cardinality(lost') <= MaxLost
  /\ late' = IF request = "sent" THEN late \cup {<<Entry.domain, NewAddr>>} ELSE late

(* A timeout, a reset or an unreadable response: Err without knowing.      *)
SetRecordTimeout ==
  /\ pc = "await"
  /\ Abandon
  /\ error_count' = error_count + 1
  /\ idx' = idx + 1
  /\ request' = "none"
  /\ pc' = "apply"
  /\ UNCHANGED <<suffixes, prefix, cache, tasks, dns, restarts, owed>>

(* Slip: changes that arrived during the cycle are marked as seen.         *)
EndCycleMarksSeen ==
  /\ pc = "apply" /\ idx > Len(suffixes)
  /\ pc' = AfterCycle
  /\ change_rx' = MarkSeen(change_rx)
  /\ UNCHANGED <<cycle, cache, force_refresh, cancel_token, handlers, sig, store, restarts, owed>>

EndCycle ==
  /\ pc = "apply" /\ idx > Len(suffixes)
  /\ pc' = AfterCycle
  /\ UNCHANGED <<cycle, cache, tasks, store, restarts, owed>>

-----------------------------------------------------------------------------
(* The select! of the loop: any ready branch may be taken.                 *)

WakeChange ==
  /\ pc = "select" /\ change_rx.unseen
  /\ change_rx' = MarkSeen(change_rx)
  /\ pc' = "detect"
  /\ UNCHANGED <<cycle, cache, force_refresh, cancel_token, handlers, sig, store, restarts, owed>>

WakeRefresh ==
  /\ pc = "select" /\ force_refresh
  /\ force_refresh' = FALSE
  /\ pc' = "detect"
  /\ UNCHANGED <<cycle, cache, change_rx, cancel_token, handlers, sig, store, restarts, owed>>

(* Slip: the cancelled branch has no break.                                *)
ShutdownWithoutBreak ==
  /\ pc = "select" /\ cancel_token
  /\ pc' = "detect"
  /\ UNCHANGED <<cycle, cache, tasks, store, restarts, owed>>

Shutdown ==
  /\ pc = "select" /\ cancel_token
  /\ pc' = "stopped"
  /\ UNCHANGED <<cycle, cache, tasks, store, restarts, owed>>

-----------------------------------------------------------------------------
(* The signal tasks.                                                       *)

RegisterHandler(s) ==
  /\ Running /\ handlers[s] = "spawned"
  /\ handlers' = [handlers EXCEPT ![s] = "waiting"]
  /\ UNCHANGED <<pc, cycle, cache, change_rx, force_refresh, cancel_token, sig, store, restarts, owed>>

(* ctrl_c() is awaited once; the task ends, the OS handler stays.          *)
HandleSigint ==
  /\ Running /\ handlers["INT"] = "waiting" /\ "INT" \in sig
  /\ sig' = sig \ {"INT"}
  /\ handlers' = [handlers EXCEPT !["INT"] = "done"]
  /\ cancel_token' = TRUE
  /\ UNCHANGED <<pc, cycle, cache, change_rx, force_refresh, store, restarts, owed>>

(* Slip: notify_waiters(), which leaves no permit for a busy main task.    *)
NotifyWaiters ==
  /\ Running /\ "USR1" \in sig
  /\ sig' = sig \ {"USR1"}
  /\ force_refresh' = (force_refresh \/ pc = "select")
  /\ UNCHANGED <<pc, cycle, cache, change_rx, cancel_token, handlers, store, restarts, owed>>

(* recv() and notify_one(): any number of signals leave one permit.        *)
HandleSigusr1 ==
  /\ Running /\ "USR1" \in sig
  /\ sig' = sig \ {"USR1"}
  /\ force_refresh' = TRUE
  /\ UNCHANGED <<pc, cycle, cache, change_rx, cancel_token, handlers, store, restarts, owed>>

-----------------------------------------------------------------------------
(* The environment.                                                        *)

Catches(s) == s \in DOMAIN handlers /\ handlers[s] \in {"waiting", "done"}

(* A signal with a handler becomes pending.                                *)
RaiseCaught(s) ==
  /\ Running /\ Catches(s)
  /\ sig' = sig \cup {s}
  /\ owed' = IF s = "USR1" THEN owed \cup {"refresh"} ELSE owed
  /\ UNCHANGED <<pc, cycle, cache, change_rx, force_refresh, cancel_token, handlers, store, restarts>>

(* Without one the process dies where it stands, a write perhaps on its    *)
(* way: no code registers a handler for SIGTERM, and before EnterLoop none *)
(* for the two others.                                                     *)
RaiseUncaught(s) ==
  /\ Running /\ ~Catches(s)
  /\ pc' = "killed"
  /\ \/ pc = "await" /\ Abandon
     \/ UNCHANGED <<late, lost>>
  /\ UNCHANGED <<cycle, cache, tasks, dns, restarts, owed>>

(* The detector's background task signals its channel.                     *)
NotifyChange ==
  /\ Running
  /\ change_rx' = Send(change_rx)
  /\ owed' = IF change_rx.subscribed THEN owed \cup {"change"} ELSE owed
  /\ UNCHANGED <<pc, cycle, cache, force_refresh, cancel_token, handlers, sig, store, restarts>>

(* The record store takes the write in progress, or an abandoned one.      *)
ApplyRequest ==
  /\ pc = "await" /\ request = "sent"
  /\ request' = "applied"
  /\ dns' = [dns EXCEPT ![Entry.domain] = NewAddr]
  /\ UNCHANGED <<pc, suffixes, idx, prefix, error_count, cache, tasks, late, lost, restarts, owed>>

(* It may have been abandoned, and so arrive, more than once.              *)
ApplyLate(d, a) ==
  /\ <<d, a>> \in late
  /\ late' \in {late, late \ {<<d, a>>}}
  /\ dns' = [dns EXCEPT ![d] = a]
  /\ UNCHANGED <<pc, cycle, cache, tasks, lost, restarts, owed>>

(* The supervisor starts a new process; nothing of the old one is left.    *)
Restart ==
  /\ ~Running /\ restarts < MaxRestarts
  /\ restarts' = restarts + 1
  /\ pc' = "startup"
  /\ suffixes' = <<>> /\ idx' = 1 /\ prefix' = None
  /\ error_count' = 0 /\ request' = "none"
  /\ cache' = [d \in Domain |-> None]
  /\ change_rx' = Unsubscribed
  /\ force_refresh' = FALSE /\ cancel_token' = FALSE
  /\ handlers' = [s \in {"INT", "USR1"} |-> "none"]
  /\ sig' = {} /\ owed' = {}
  /\ UNCHANGED store

Halted ==
  /\ ~Running /\ restarts = MaxRestarts /\ late = {}
  /\ UNCHANGED vars

-----------------------------------------------------------------------------
(* The steps of the main task that neither fail nor wait nor detect.       *)
UpdateStep ==
  \/ pc \in {"startup", "discover"} /\ \E found \in Discoverable :
       StartupDiscover(found) \/ Discover(found)
  \/ SeedSome \/ SeedNothing \/ SeedDone
  \/ EnterLoop
  \/ SkipUpdate \/ SendUpdate \/ SetRecordOk
  \/ EndCycle

SetRecordErr == SetRecordRefused \/ SetRecordTimeout

Wake == WakeChange \/ WakeRefresh

MainStep ==
  \/ UpdateStep \/ SetRecordErr
  \/ (\E p \in Prefix : DetectOk(p)) \/ DetectErr
  \/ Wake \/ Shutdown

SignalStep == (\E s \in {"INT", "USR1"} : RegisterHandler(s)) \/ HandleSigint \/ HandleSigusr1

StoreStep == ApplyRequest \/ \E d \in Domain, a \in Addr : ApplyLate(d, a)

RaiseSignal == \E s \in Signals : RaiseCaught(s) \/ RaiseUncaught(s)

Next ==
  \/ MainStep \/ SignalStep \/ StoreStep
  \/ NotifyChange
  \/ RaiseSignal \/ Restart \/ Halted

Spec == Init /\ [][Next]_vars

(* Every call of the cycle returns (the HTTP client and the UDP exchange   *)
(* have timeouts), the runtime polls its tasks, and select! tries its      *)
(* branches in random order, so a branch that is ready at every turn of    *)
(* the loop is not passed over forever.                                    *)
Fairness ==
  /\ WF_vars(MainStep)
  /\ SF_vars(Shutdown)
  /\ \A s \in {"INT", "USR1"} : WF_vars(RegisterHandler(s))
  /\ WF_vars(HandleSigint)
  /\ WF_vars(HandleSigusr1)

FairSpec == Spec /\ Fairness
-----------------------------------------------------------------------------
(* Types; the pass is at an entry of its list while a set_record is        *)
(* awaited, and it runs under a detected prefix (main.rs run_update_cycle).*)
TypeOK ==
  /\ pc \in {"startup", "seed", "detect", "discover", "apply", "await", "enter",
            "select", "stopped", "killed"}
  /\ suffixes \in Seq(Host)
  /\ idx \in 1..(Len(suffixes) + 1)
  /\ pc = "await" => idx <= Len(suffixes)
  /\ prefix \in Prefix \cup {None}
  /\ pc \in {"discover", "apply", "await"} => prefix # None
  /\ error_count \in Nat
  /\ request \in {"none", "sent", "applied"}
  /\ cache \in [Domain -> Addr \cup {None}]
  /\ change_rx \in [subscribed : BOOLEAN, unseen : BOOLEAN]
  /\ force_refresh \in BOOLEAN /\ cancel_token \in BOOLEAN
  /\ handlers \in [{"INT", "USR1"} -> {"none", "spawned", "waiting", "done"}]
  /\ sig \subseteq {"INT", "USR1"}
  /\ dns \in [Domain -> Addr \cup {None}]
  /\ late \subseteq Domain \X Addr /\ lost \subseteq Domain \X Addr
  /\ restarts \in Nat
  /\ owed \subseteq {"change", "refresh"}

(* Every change signalled to the loop and every SIGUSR1 that was caught is *)
(* either still pending or about to be followed by a detection that starts *)
(* later: what arrives during a cycle, or while select! takes the other    *)
(* branch, is not forgotten (main.rs, the loop and the signal tasks).      *)
NoLostWakeup ==
  pc \notin {"detect", "stopped", "killed"} =>
    /\ "change" \in owed => change_rx.unseen
    /\ "refresh" \in owed => force_refresh \/ "USR1" \in sig

(* A cached address is what is published, except for a write in progress   *)
(* and for writes that were given up without an answer: the check that     *)
(* skips an update errs only after such a write (main.rs, cache).          *)
CacheHonest ==
  \A d \in Domain : cache[d] # None =>
    \/ dns[d] = cache[d]
    \/ <<d, dns[d]>> \in lost
    \/ pc \in {"await", "killed"} /\ request = "applied" /\ d = Entry.domain /\ dns[d] = NewAddr

(* The domains whose record is neither the address of their last entry     *)
(* under the detected prefix nor one that a set_record was given up with.  *)
Unpublished ==
  {d \in Domain : \E i \in 1..Len(suffixes) :
      /\ suffixes[i].domain = d
      /\ \A j \in (i + 1)..Len(suffixes) : suffixes[j].domain # d
      /\ dns[d] # combine(prefix, suffixes[i].suffix)
      /\ <<d, dns[d]>> \notin lost}

(* At the end of a cycle at least as many errors were counted as there are *)
(* domains whose record is wrong under the detected prefix: one failure    *)
(* hides no other.  A record that a write without an answer has left is    *)
(* the exception; over such a one an update may be skipped in silence, see *)
(* SkipOnlyWhenPublished (main.rs run_update_cycle, error_count).          *)
ErrorsAccountForStale ==
  (pc \in {"enter", "select"} /\ prefix # None)
    => Cardinality(Unpublished) <= error_count

(* After a cycle without errors the record of every listed domain carries  *)
(* the address of its last entry under the detected prefix, unless a write *)
(* was abandoned with the address the record has now (main.rs              *)
(* run_update_cycle).                                                      *)
ErrorFreeCyclePublishes ==
  (pc \in {"enter", "select"} /\ prefix # None /\ error_count = 0) =>
    \A i \in 1..Len(suffixes) :
      LET d == suffixes[i].domain
      IN  (\A j \in (i + 1)..Len(suffixes) : suffixes[j].domain # d) =>
            \/ dns[d] = combine(prefix, suffixes[i].suffix)
            \/ <<d, dns[d]>> \in lost

(* The daemon implements RecordPublication.                                *)
SuffixesOf ==
  [d \in Domain |->
    {s \in Suffix : \E hosts \in Discoverable \cup {static_suffixes} :
                      \E i \in 1..Len(hosts) : hosts[i] = [suffix |-> s, domain |-> d]}]

Publication == INSTANCE RecordPublication
  WITH records <- dns, current <- prefix, delayed <- late

PublishesOnlyComputedAddresses == Publication!PSpec

(* A caught SIGUSR1 is followed by a new detection, unless the daemon      *)
(* stops first (README: "triggers an immediate detection + update cycle"). *)
RefreshServed == ("refresh" \in owed) ~> ("refresh" \notin owed \/ ~Running)

(* A caught SIGINT stops the daemon, however often it is woken meanwhile   *)
(* (main.rs, the cancelled branch of the loop).                            *)
ShutdownCompletes == ("INT" \in sig /\ handlers["INT"] = "waiting") ~> ~Running

(* CONCEPTS.md: "The daemon skips updates when the DNS record already      *)
(* matches the computed address."                                          *)
SkipOnlyWhenPublished == [][SkipUpdate => dns[Entry.domain] = NewAddr]_vars

(* main.rs and README: of two entries for one domain the last one wins, so *)
(* the address of the other one is never published.                        *)
LastEntryWins ==
  [][ApplyRequest =>
      \A j \in (idx + 1)..Len(suffixes) : suffixes[j].domain # Entry.domain]_vars
=============================================================================
