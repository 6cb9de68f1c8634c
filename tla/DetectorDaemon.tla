--------------------------- MODULE DetectorDaemon ---------------------------
(***************************************************************************)
(* Daemon with the prefix method that build_detector of src/main.rs picks: *)
(* the dns poller, the netlink event loop or the ra listener runs beside   *)
(* the main task, above the part of the world it watches.  The prefix is   *)
(* not handed over: a signal only makes the cycle detect again, by itself. *)
(***************************************************************************)
EXTENDS Daemon

CONSTANTS
  Methods,         \* the prefix methods, one of which is configured
  NonGlobal,       \* an address that is not global unicast (an A record, a ULA)
  Answers,         \* the record lists the reference domain may have
  AddressMessage,  \* addresses as they are assigned to the interface
  Infinite,        \* the lifetime that does not run down
  MaxChanges,      \* bound: changes of what the detector watches
  MaxFaults        \* bound: detections and updates that fail, events that are lost

VARIABLES
  method,                        \* the configured method
  answer, served, bg_last,       \* dns, see DnsDetector
  addresses, watcher, queued,    \* netlink, see NetlinkWatcher
  advertised, listener, last_prefix,  \* ra, see RaListener
  changes, faults,
  missed  \* history: the last detection failed or was out of date when it was
          \* made, or a change since then has been signalled to nobody

Dns == INSTANCE DnsDetector
Netlink == INSTANCE NetlinkWatcher
Ra == INSTANCE RaListener

ASSUME DetectorDaemonAssumption ==
  /\ Methods \subseteq {"dns", "netlink", "ra"}
  /\ NonGlobal \notin Prefix
  /\ Answers \subseteq Seq(Prefix \cup {NonGlobal})
  /\ Infinite \in Nat
  /\ AddressMessage \subseteq Netlink!Message
  /\ MaxChanges \in Nat /\ MaxFaults \in Nat

dnsVars == <<answer, served, bg_last>>
nlVars == <<addresses, watcher, queued>>
raVars == <<advertised, listener, last_prefix>>
detector == <<method, dnsVars, nlVars, raVars>>
bounds == <<changes, faults>>
allVars == <<vars, detector, bounds, missed>>

DnsOff == answer = <<>> /\ served = {} /\ bg_last = None
NlOff == addresses = {} /\ watcher = "ended" /\ queued = FALSE
RaOff == advertised = None /\ listener = "failed" /\ last_prefix = None

(* One detector is built; its background task starts with it.              *)
build_detector ==
  /\ method \in Methods
  /\ IF method = "dns" THEN Dns!DnsInit ELSE DnsOff
  /\ IF method = "netlink" THEN Netlink!NlInit ELSE NlOff
  /\ IF method = "ra" THEN Ra!RaInit ELSE RaOff

DetectorInit ==
  /\ Init /\ build_detector
  /\ changes = 0 /\ faults = 0 /\ missed = FALSE

OnlyDns == method = "dns" /\ UNCHANGED <<method, nlVars, raVars>>
OnlyNetlink == method = "netlink" /\ UNCHANGED <<method, dnsVars, raVars>>
OnlyRa == method = "ra" /\ UNCHANGED <<method, dnsVars, nlVars>>

-----------------------------------------------------------------------------
(* The background task.                                                    *)

(* What a signal on the watch channel means for the rest of the daemon.    *)
Signalled ==
  /\ Running
  /\ owed' = IF change_rx.subscribed THEN owed \cup {"change"} ELSE owed
  /\ missed' = (missed \/ ~change_rx.subscribed)
  /\ UNCHANGED <<pc, cycle, cache, force_refresh, cancel_token, handlers, sig,
                 store, restarts, bounds>>

(* The poller sleeps before its first lookup, seldom for less than the     *)
(* startup cycle takes.                                                    *)
DnsPoll == OnlyDns /\ Signalled /\ Dns!Poll

NlEvent == OnlyNetlink /\ Signalled /\ Netlink!HandleEvent

RaSignal == OnlyRa /\ Signalled /\ Ra!SignalAdvertisement

Silent == Running /\ UNCHANGED <<vars, bounds, missed>>

NlStart == OnlyNetlink /\ Silent /\ Netlink!StartWatcher

RaStart == OnlyRa /\ Silent /\ (Ra!StartListener \/ Ra!ListenerFails)

RaReceive == OnlyRa /\ Silent /\ Ra!ReceiveAdvertisement

NlEndStream ==
  /\ OnlyNetlink /\ Running /\ Netlink!EndStream
  /\ missed' = (missed \/ queued)
  /\ UNCHANGED <<vars, bounds>>

NlLoseEvent ==
  /\ OnlyNetlink /\ Running /\ Netlink!LoseEvent
  /\ faults < MaxFaults /\ faults' = faults + 1
  /\ missed' = TRUE
  /\ UNCHANGED <<vars, changes>>

-----------------------------------------------------------------------------
(* The main task: detect() of each method in place of any answer at all.   *)

DnsDetect ==
  \/ \E p \in Dns!Resolvable : DetectOk(p) /\ missed' = (p \notin Dns!CurrentPrefix)
  \/ Dns!NothingFound /\ DetectErr /\ missed' = TRUE

NlDetect ==
  /\ \/ \E p \in Netlink!Detectable : DetectOk(p)
     \/ Netlink!Candidates = {} /\ DetectErr
  /\ missed' = FALSE

RaDetect ==
  \/ last_prefix # None /\ DetectOk(last_prefix) /\ missed' = FALSE
  \/ last_prefix = None /\ DetectErr /\ missed' = TRUE

detect ==
  \/ method = "dns" /\ DnsDetect
  \/ method = "netlink" /\ NlDetect
  \/ method = "ra" /\ RaDetect

MainTask ==
  /\ detect \/ ((UpdateStep \/ Wake \/ Shutdown) /\ UNCHANGED missed)
  /\ UNCHANGED <<detector, bounds>>

(* A lookup or a listing fails; detect() of the ra method only reads.      *)
DetectFails == method # "ra" /\ DetectErr /\ missed' = TRUE

Fault ==
  /\ faults < MaxFaults /\ faults' = faults + 1
  /\ DetectFails \/ (SetRecordErr /\ UNCHANGED missed)
  /\ UNCHANGED <<detector, changes>>

(* The signal tasks are left asleep in an environment that never sends     *)
(* their signals: nothing else depends on them.                            *)
Others ==
  /\ \/ Signals \cap {"INT", "USR1"} # {} /\ SignalStep
     \/ StoreStep \/ RaiseSignal \/ Halted
  /\ UNCHANGED <<detector, bounds, missed>>

-----------------------------------------------------------------------------
(* What the detector watches.                                              *)

Change == changes < MaxChanges /\ changes' = changes + 1 /\ UNCHANGED <<vars, faults>>

(* The prefix stays for longer than the polling interval: once the poller  *)
(* runs, a rotation is polled before the next one happens.                 *)
DnsRotate(response, lagging) ==
  /\ OnlyDns /\ Change /\ Dns!Rotate(response, lagging)
  /\ Running => bg_last = None \/ Dns!CurrentPrefix \subseteq {bg_last}
  /\ UNCHANGED missed

DnsExpire == OnlyDns /\ Dns!Expire /\ UNCHANGED <<vars, bounds, missed>>

Unwatched == Running /\ watcher # "listening"

NlChange(new) ==
  /\ OnlyNetlink /\ Change /\ Netlink!ChangeAddresses(new)
  /\ missed' = (missed \/ Unwatched)

NlTick ==
  /\ OnlyNetlink /\ Netlink!Tick
  /\ missed' = (missed \/ (Unwatched /\ Netlink!Expiring))
  /\ UNCHANGED <<vars, bounds>>

RaRotate(p) == OnlyRa /\ Change /\ Ra!RotatePrefix(p) /\ UNCHANGED missed

WorldStep ==
  \/ \E response \in Answers \ {answer}, lagging \in BOOLEAN : DnsRotate(response, lagging)
  \/ DnsExpire
  \/ \E a \in AddressMessage \ addresses :
       \/ NlChange(addresses \cup {a})
       \/ \E b \in addresses : NlChange((addresses \ {b}) \cup {a})
  \/ \E b \in addresses : NlChange(addresses \ {b})
  \/ NlTick
  \/ \E p \in Prefix \ {advertised} : RaRotate(p)

(* A new process builds its detector anew; the world stays as it is.       *)
DetectorRestart ==
  /\ Restart
  /\ bg_last' = None
  /\ watcher' = (IF method = "netlink" THEN "starting" ELSE watcher) /\ queued' = FALSE
  /\ listener' = (IF method = "ra" THEN "starting" ELSE listener) /\ last_prefix' = None
  /\ missed' = FALSE
  /\ UNCHANGED <<method, answer, served, addresses, advertised, bounds>>

Background ==
  \/ DnsPoll
  \/ NlStart \/ NlEvent \/ NlEndStream \/ NlLoseEvent
  \/ RaStart \/ RaReceive \/ RaSignal

DetectorNext ==
  Background \/ MainTask \/ Fault \/ Others \/ WorldStep \/ DetectorRestart

DetectorSpec == DetectorInit /\ [][DetectorNext]_allVars

BackgroundTurn == DnsPoll \/ NlStart \/ NlEvent \/ RaStart \/ RaReceive \/ RaSignal

MainTurn ==
  \/ MainTask
  \/ ApplyRequest /\ UNCHANGED <<detector, bounds, missed>>
  \/ DetectorRestart

(* The background task is a loop and the router repeats its advertisements;*)
(* caches expire.  The main task runs, its calls return, a request that    *)
(* was sent reaches the record store unless it fails, and a dead process   *)
(* is started again: of these three one at most can happen at a time.      *)
DetectorFairness ==
  /\ WF_allVars(BackgroundTurn)
  /\ WF_allVars(DnsExpire)
  /\ WF_allVars(MainTurn)

DetectorFairSpec == DetectorSpec /\ DetectorFairness

-----------------------------------------------------------------------------
(* Types; a detector that is not configured does nothing, and each of the  *)
(* others keeps its own rules: a lookup may get the current answer, only a *)
(* socket that joined the group has events waiting, only a thread that     *)
(* listens knows a prefix (prefix/*.rs).                                   *)
DetectorTypeOK ==
  /\ TypeOK
  /\ method \in Methods
  /\ IF method = "dns" THEN Dns!DnsTypeOK ELSE DnsOff
  /\ IF method = "netlink" THEN Netlink!NlTypeOK ELSE NlOff
  /\ IF method = "ra" THEN Ra!RaTypeOK ELSE RaOff
  /\ changes \in 0..MaxChanges /\ faults \in 0..MaxFaults /\ missed \in BOOLEAN

(* Every behaviour with one of the methods is a behaviour of Daemon, so    *)
(* what holds for an arbitrary detector holds for these (main.rs 233-265). *)
ImplementsDaemon == Spec

(* The prefixes that the world, as it is now, gives a detector.            *)
CurrentPrefixes ==
  CASE method = "dns" -> Dns!CurrentPrefix
    [] method = "netlink" -> Netlink!Detectable
    [] method = "ra" -> {advertised}

(* The configured hosts that share their domain with no other entry have   *)
(* their address under a current prefix, but for writes that were given up *)
(* without an answer.                                                      *)
Published ==
  CurrentPrefixes # {} =>
    \E p \in CurrentPrefixes : \A i \in 1..Len(static_suffixes) :
      LET d == static_suffixes[i].domain
      IN  (\A j \in 1..Len(suffixes) : suffixes[j].domain = d => j = i) =>
            \/ dns[d] = combine(p, static_suffixes[i].suffix)
            \/ <<d, dns[d]>> \in lost

(* The background task has nothing left to say about the world.            *)
CaughtUp ==
  CASE method = "dns" -> Dns!CurrentPrefix = {bg_last}
    [] method = "netlink" -> ~queued
    [] method = "ra" -> listener = "recv" /\ last_prefix = advertised

(* When the background task has nothing left to say, nothing is pending    *)
(* and the last cycle did not fail, the published records are right: a     *)
(* change that comes too late for a detection is followed by a signal, and *)
(* what changes in silence, the lifetimes that run down, does not change   *)
(* the choice among the prefixes (prefix/*.rs, main.rs loop).              *)
SettledIsPublished ==
  (/\ pc = "select" /\ ~change_rx.unseen /\ CaughtUp
   /\ prefix # None /\ error_count = 0 /\ ~missed) => Published

(* When the prefix stops changing, the records of a running daemon become  *)
(* right and stay right (CONCEPTS.md: "the daemon's job is to detect the   *)
(* new prefix and update AAAA records accordingly"), unless the last cycle *)
(* failed or detected an outdated prefix, which nothing retries, or a      *)
(* signal since then found no receiver.                                    *)
Converges == <>[](Running /\ error_count = 0 /\ ~missed => Published)

(* With the ra method they become right whatever failed before, as long as *)
(* the listener came up: the next advertisement starts another cycle       *)
(* (prefix/ra.rs run_ra_listener).                                         *)
RaConverges == <>[](Running /\ method = "ra" /\ listener # "failed" => Published)

(* The netlink watcher "produces the current ISP IPv6 prefix and signals   *)
(* when it changes" (CONCEPTS.md), also while main runs its startup cycle. *)
(* Checked without faults.                                                 *)
ConvergesFromStartup ==
  <>[](Running /\ method = "netlink" /\ watcher # "ended" => Published)
=============================================================================
