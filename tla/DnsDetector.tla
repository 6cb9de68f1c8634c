----------------------------- MODULE DnsDetector -----------------------------
(***************************************************************************)
(* The dns prefix method: prefix/dns.rs.  A background task polls the      *)
(* reference domain and signals the watch channel when the prefix differs  *)
(* from the one of its last poll; detect() resolves the domain again by    *)
(* itself.  The name servers in between may serve an answer that the       *)
(* reference domain no longer has, for as long as it stays in a cache.     *)
(***************************************************************************)
EXTENDS Naturals, Sequences

CONSTANTS
  Prefix,   \* the global unicast /64 networks
  Answers,  \* the record lists the reference domain may have
  None

VARIABLES
  answer,    \* the current records of the reference domain
  served,    \* the answers a lookup may get
  bg_last,   \* the poller's last prefix
  change_rx  \* the receiver main holds once it has subscribed

Send(rx) == [rx EXCEPT !.unseen = rx.subscribed]

(* Slip: the first record is masked and returned, whatever it is.          *)
FirstRecord(response) == IF response = <<>> THEN {} ELSE {response[1]}

(* The first global unicast record, masked; the empty set is the error.    *)
resolve_prefix_inner(response) ==
  {response[i] : i \in {i \in 1..Len(response) :
     response[i] \in Prefix /\ \A j \in 1..(i - 1) : response[j] \notin Prefix}}

CurrentPrefix == resolve_prefix_inner(answer)

Resolvable == UNION {resolve_prefix_inner(response) : response \in served}

NothingFound == \E response \in served : resolve_prefix_inner(response) = {}

DnsInit ==
  /\ answer \in Answers
  /\ served = {answer}
  /\ bg_last = None

(* Slip: the poller takes note of its prefix before it compares.           *)
PollForgetsToSend ==
  \E p \in Resolvable \ {bg_last} :
    /\ bg_last' = p
    /\ UNCHANGED <<answer, served, change_rx>>

(* One turn of the poller that sees another prefix.  A turn that fails or  *)
(* sees the prefix of the last one changes nothing.                        *)
Poll ==
  \E p \in Resolvable \ {bg_last} :
    /\ bg_last' = p
    /\ change_rx' = Send(change_rx)
    /\ UNCHANGED <<answer, served>>

(* The provider rotates the prefix and the router updates its record; the  *)
(* caches may lag behind.                                                  *)
Rotate(response, lagging) ==
  /\ answer' = response
  /\ served' = IF lagging THEN served \cup {response} ELSE {response}
  /\ UNCHANGED bg_last

(* Outdated answers leave the caches.                                      *)
Expire ==
  /\ served # {answer}
  /\ served' = {answer}
  /\ UNCHANGED <<answer, bg_last>>

(* A lookup may get the current answer; the poller notes prefixes only.    *)
DnsTypeOK ==
  /\ answer \in Answers /\ served \subseteq Answers /\ answer \in served
  /\ bg_last \in Prefix \cup {None}
=============================================================================
