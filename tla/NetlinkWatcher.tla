--------------------------- MODULE NetlinkWatcher ---------------------------
(***************************************************************************)
(* The netlink prefix method: prefix/netlink.rs and the kernel's addresses *)
(* of the interface.  The event loop only says that something changed; the *)
(* cycle lists the addresses itself.  Lifetimes run down as time passes,   *)
(* which by itself makes no event.                                         *)
(***************************************************************************)
EXTENDS Naturals

CONSTANTS
  Prefix,
  AddressMessage,  \* addresses as they are assigned or renewed, see Message
  Infinite         \* the lifetime that does not run down, u32::MAX

(* An address as rtnetlink reports it: its network, the two lifetimes, and *)
(* the flags detect_prefix looks at.                                       *)
Message == [prefix : Prefix, valid : 0..Infinite, preferred : 0..Infinite,
            global : BOOLEAN, secondary : BOOLEAN, permanent : BOOLEAN]

VARIABLES
  addresses,  \* what the kernel lists for the interface
  watcher,    \* run_event_loop: "starting", "listening" or "ended"
  queued,     \* events on the socket that the watcher has not handled
  change_rx   \* the receiver main holds once it has subscribed

Send(rx) == [rx EXCEPT !.unseen = rx.subscribed]

(* Slip: the preferred lifetime comes first.                               *)
Outlasts(a, b) ==
  a.preferred > b.preferred \/ (a.preferred = b.preferred /\ a.valid >= b.valid)

(* The order of candidates.sort_by: the valid lifetime first, then the     *)
(* preferred one; equals stay in the order of the listing, which is open.  *)
SortsBefore(a, b) ==
  a.valid > b.valid \/ (a.valid = b.valid /\ a.preferred >= b.preferred)

Candidates == {a \in addresses : a.global /\ ~(a.secondary /\ ~a.permanent)}

Detectable ==
  {a.prefix : a \in {c \in Candidates : \A b \in Candidates : SortsBefore(c, b)}}

NlInit ==
  /\ addresses \in SUBSET AddressMessage
  /\ watcher = "starting" /\ queued = FALSE

(* The socket joins the group of IPv6 address events, or cannot.           *)
StartWatcher ==
  /\ watcher = "starting"
  /\ watcher' \in {"listening", "ended"}
  /\ UNCHANGED <<addresses, queued>>

(* Slip: the channel keeps the signal although no receiver exists yet.     *)
HandleEventKept ==
  /\ queued
  /\ change_rx' = [change_rx EXCEPT !.unseen = TRUE]
  /\ queued' = FALSE
  /\ UNCHANGED <<addresses, watcher>>

(* Slip: an event is logged and not signalled.                             *)
HandleEventSilently ==
  /\ queued
  /\ queued' = FALSE
  /\ UNCHANGED <<addresses, watcher, change_rx>>

(* An event about an IPv6 address is signalled, whatever it says.          *)
HandleEvent ==
  /\ queued
  /\ change_rx' = Send(change_rx)
  /\ queued' = FALSE
  /\ UNCHANGED <<addresses, watcher>>

(* The kernel drops events when the socket's buffer is full: an error is   *)
(* logged instead.                                                         *)
LoseEvent ==
  /\ queued
  /\ queued' = FALSE
  /\ UNCHANGED <<addresses, watcher>>

(* "netlink event stream ended"                                            *)
EndStream ==
  /\ watcher = "listening"
  /\ watcher' = "ended" /\ queued' = FALSE
  /\ UNCHANGED addresses

(* NewAddress or DelAddress, to whoever listens by now.                    *)
Listening == watcher = "listening"

(* An address appears, is removed, or is given new lifetimes.              *)
ChangeAddresses(new) ==
  /\ addresses' = new
  /\ queued' = Listening
  /\ UNCHANGED watcher

Left(lifetime) == IF lifetime \in {0, Infinite} THEN lifetime ELSE lifetime - 1
Aged == {[a EXCEPT !.valid = Left(@), !.preferred = Left(@)] : a \in addresses}
Expiring == \E a \in Aged : a.valid = 0

(* Time passes.  An address that expires is removed with an event; one     *)
(* that is only deprecated may or may not be reported.                     *)
Tick ==
  /\ Aged # addresses
  /\ addresses' = {a \in Aged : a.valid > 0}
  /\ queued' \in IF Expiring THEN {Listening} ELSE {queued, Listening}
  /\ UNCHANGED watcher

(* Only a socket that joined the group has an event waiting.               *)
NlTypeOK ==
  /\ addresses \subseteq Message
  /\ watcher \in {"starting", "listening", "ended"}
  /\ queued \in BOOLEAN /\ (queued => watcher = "listening")
=============================================================================
