----------------------------- MODULE RaListener -----------------------------
(***************************************************************************)
(* The ra prefix method: the listener thread of prefix/ra.rs.  It shares   *)
(* last_prefix with detect(), under a mutex.  Unlike the dns poller it     *)
(* signals every advertisement that names a prefix, changed or not; what   *)
(* it reads from one packet is RaParser's business.                        *)
(***************************************************************************)
CONSTANTS Prefix, None

VARIABLES
  advertised,   \* the prefix the router advertises
  listener,     \* the thread: "starting", "recv", "send" or "failed"
  last_prefix,  \* the prefix of the last advertisement
  change_rx     \* the receiver main holds once it has subscribed

Send(rx) == [rx EXCEPT !.unseen = rx.subscribed]

RaInit ==
  /\ advertised \in Prefix
  /\ listener = "starting" /\ last_prefix = None

(* Socket, filter and device binding succeed.                              *)
StartListener ==
  /\ listener = "starting"
  /\ listener' = "recv"
  /\ UNCHANGED <<advertised, last_prefix>>

(* One of them fails, without CAP_NET_RAW for instance: the thread logs it *)
(* and ends, the daemon runs on.                                           *)
ListenerFails ==
  /\ listener = "starting"
  /\ listener' = "failed"
  /\ UNCHANGED <<advertised, last_prefix>>

(* Slip: only a changed prefix is signalled.                               *)
ReceiveOnlyChanges ==
  /\ listener = "recv"
  /\ last_prefix' = advertised
  /\ listener' = IF last_prefix = advertised THEN "recv" ELSE "send"
  /\ UNCHANGED advertised

(* An advertisement with a prefix arrives.  Others change nothing, nor     *)
(* does a recv that fails.                                                 *)
ReceiveAdvertisement ==
  /\ listener = "recv"
  /\ last_prefix' = advertised
  /\ listener' = "send"
  /\ UNCHANGED advertised

(* Slip: the channel keeps the signal although no receiver exists yet.     *)
SignalKept ==
  /\ listener = "send"
  /\ change_rx' = [change_rx EXCEPT !.unseen = TRUE]
  /\ listener' = "recv"
  /\ UNCHANGED <<advertised, last_prefix>>

SignalAdvertisement ==
  /\ listener = "send"
  /\ change_rx' = Send(change_rx)
  /\ listener' = "recv"
  /\ UNCHANGED <<advertised, last_prefix>>

RotatePrefix(p) == advertised' = p /\ UNCHANGED <<listener, last_prefix>>

(* A thread that is not listening yet, or never will, knows no prefix.     *)
RaTypeOK ==
  /\ advertised \in Prefix
  /\ listener \in {"starting", "recv", "send", "failed"}
  /\ last_prefix \in Prefix \cup {None}
  /\ listener \in {"starting", "failed"} => last_prefix = None
=============================================================================
