--------------------------- MODULE Rfc2136Updater ---------------------------
(***************************************************************************)
(* set_record of updater/rfc2136.rs against a name server: ask for the     *)
(* AAAA record set, and replace it as a whole unless its first address is  *)
(* the wanted one.  The update names the zone it is for, which the code    *)
(* derives from the domain; the server refuses an update for a zone it     *)
(* does not serve.                                                         *)
(***************************************************************************)
EXTENDS Sequences, Naturals

CONSTANTS
  Addr,    \* the addresses the cycle asks for
  Label,   \* the labels of domain names
  Domains, \* the domains a host may have, each as its labels
  zone,    \* the zone of the server, as its labels
  None

Rfc2136Assumption ==
  /\ None \notin Addr
  /\ Domains \subseteq Seq(Label) \ {<<>>} /\ zone \in Seq(Label)

VARIABLES
  domain,  \* of the host
  rrset,   \* the AAAA records of the domain
  step,    \* "idle", "query", "correct", "update" (sent) or "updated" (applied)
  wanted,  \* the address of the call
  outcome, \* of the last call: "none", "Ok" or "Err"
  late     \* updates given up that may still arrive

UInit ==
  /\ domain \in Domains
  /\ rrset \in {{}} \cup {{a} : a \in Addr}
  /\ step = "idle" /\ wanted = None /\ outcome = "none" /\ late = {}

(* Everything after the first dot, or the whole name without one.          *)
zone_from_domain(name) == IF Len(name) > 1 THEN Tail(name) ELSE name

Served == zone_from_domain(domain) = zone

SetRecord(addr) ==
  /\ step = "idle"
  /\ step' = "query" /\ wanted' = addr
  /\ UNCHANGED <<domain, rrset, outcome, late>>

(* get_record answered its first record, which is the wanted address:      *)
(* nothing to do.                                                          *)
FindCorrect ==
  /\ step = "query" /\ wanted \in rrset
  /\ step' = "correct"
  /\ UNCHANGED <<domain, rrset, wanted, outcome, late>>

(* get_record answered otherwise, or failed: an error of the query is      *)
(* ignored, so the update is sent even over a correct record.              *)
SendUpdate ==
  /\ step = "query"
  /\ step' = "update"
  /\ UNCHANGED <<domain, rrset, wanted, outcome, late>>

(* set_rrset at the server: the record set is replaced.                    *)
ServerUpdates ==
  /\ step = "update" /\ Served
  /\ rrset' = {wanted}
  /\ step' = "updated"
  /\ UNCHANGED <<domain, wanted, outcome, late>>

Return(result) == step' = "idle" /\ wanted' = None /\ outcome' = result

ReturnOk == step \in {"correct", "updated"} /\ Return("Ok") /\ UNCHANGED <<domain, rrset, late>>

(* NOTAUTH, a bad signature, no connection.                                *)
Refused == step = "update" /\ Return("Err") /\ UNCHANGED <<domain, rrset, late>>

(* A timeout, or the end of the process.                                   *)
Unknown ==
  /\ step # "idle"
  /\ late' = IF step = "update" /\ Served THEN late \cup {wanted} ELSE late
  /\ Return("Err")
  /\ UNCHANGED <<domain, rrset>>

(* It may have been given up, and so arrive, more than once.               *)
LateUpdate(addr) ==
  /\ addr \in late
  /\ rrset' = {addr}
  /\ late' \in {late, late \ {addr}}
  /\ UNCHANGED <<domain, step, wanted, outcome>>

(* What the calls of the client come to, answered or timed out.            *)
Answered == FindCorrect \/ SendUpdate \/ ReturnOk \/ Refused \/ Unknown

UNext ==
  \/ \E addr \in Addr : SetRecord(addr)
  \/ Answered \/ ServerUpdates
  \/ \E addr \in late : LateUpdate(addr)

-----------------------------------------------------------------------------
(* Types; the domain never has more than one AAAA record, so the first one *)
(* that get_record looks at is the only one (updater/rfc2136.rs).          *)
UTypeOK ==
  /\ domain \in Domains
  /\ rrset \in {{}} \cup {{a} : a \in Addr}
  /\ step \in {"idle", "query", "correct", "update", "updated"}
  /\ wanted \in Addr \cup {None} /\ (wanted = None <=> step = "idle")
  /\ late \subseteq Addr

(* The call as SetRecordCall has it.                                       *)
Value == IF rrset = {} THEN None ELSE CHOOSE a \in Addr : rrset = {a}
Call == IF step \in {"correct", "updated"} THEN "applied"
        ELSE IF step = "idle" THEN "idle" ELSE "sent"
=============================================================================
