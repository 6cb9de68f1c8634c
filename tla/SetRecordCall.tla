---------------------------- MODULE SetRecordCall ----------------------------
(***************************************************************************)
(* What run_update_cycle relies on in one provider's set_record, for one   *)
(* domain: an Ok means that the record held the address at some moment of  *)
(* the call, and an Err says nothing unless the write was refused.  Daemon *)
(* has these steps as SendUpdate, ApplyRequest, SetRecordOk,               *)
(* SetRecordRefused, SetRecordTimeout and ApplyLate.                       *)
(***************************************************************************)
CONSTANTS Addr, None

VARIABLES
  value,    \* the address published for the domain, None when there is none
  call,     \* "idle", "sent" or "applied"
  wanted,   \* the address of the call in progress, None when there is none
  outcome,  \* of the last call: "none", "Ok" or "Err"
  delayed   \* addresses of writes that were given up and may still arrive

svars == <<value, call, wanted, outcome, delayed>>

SInit ==
  /\ value \in Addr \cup {None}
  /\ call = "idle" /\ wanted = None /\ outcome = "none"
  /\ delayed = {}

Begin(a) ==
  /\ call = "idle"
  /\ call' = "sent" /\ wanted' = a
  /\ UNCHANGED <<value, outcome, delayed>>

Take ==
  /\ call = "sent"
  /\ call' = "applied" /\ value' = wanted
  /\ UNCHANGED <<wanted, outcome, delayed>>

End(result) == call' = "idle" /\ wanted' = None /\ outcome' = result

Ok == call = "applied" /\ End("Ok") /\ UNCHANGED <<value, delayed>>

Refuse == call = "sent" /\ End("Err") /\ UNCHANGED <<value, delayed>>

(* Err, or the end of the process, while nobody knows.                     *)
GiveUp ==
  /\ call # "idle"
  /\ End("Err")
  /\ delayed' = IF call = "sent" THEN delayed \cup {wanted} ELSE delayed
  /\ UNCHANGED value

Arrive(a) ==
  /\ a \in delayed
  /\ value' = a
  /\ delayed' \in {delayed, delayed \ {a}}
  /\ UNCHANGED <<call, wanted, outcome>>

SNext ==
  \/ \E a \in Addr : Begin(a) \/ Arrive(a)
  \/ Take \/ Ok \/ Refuse \/ GiveUp

SSpec == SInit /\ [][SNext]_svars
=============================================================================
