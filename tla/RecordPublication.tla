-------------------------- MODULE RecordPublication --------------------------
(***************************************************************************)
(* What the daemon promises to the owners of the records, whatever fails:  *)
(* a record only ever changes to the prefix adopted last combined with a   *)
(* suffix that some host entry gives to that very domain.  The one         *)
(* exception is a write that was delayed on its way, and that one carried  *)
(* the prefix adopted when it was sent.                                    *)
(***************************************************************************)
CONSTANTS Prefix, Domain, SuffixesOf, None

VARIABLES
  records,  \* what is published for each domain
  current,  \* the prefix adopted last, None when there is none
  delayed   \* writes that may still arrive

pvars == <<records, current, delayed>>

(* The records may hold anything at first.                                 *)
PInit ==
  /\ DOMAIN records = Domain
  /\ current = None
  /\ delayed = {}

Adopt(p) ==
  /\ current' = p
  /\ UNCHANGED <<records, delayed>>

Publish(d, s) ==
  /\ current # None
  /\ records' = [records EXCEPT ![d] = <<current, s>>]
  /\ UNCHANGED <<current, delayed>>

Delay(d, s) ==
  /\ current # None
  /\ delayed' = delayed \cup {<<d, <<current, s>>>>}
  /\ UNCHANGED <<records, current>>

Deliver(d, a) ==
  /\ <<d, a>> \in delayed
  /\ delayed' \in {delayed, delayed \ {<<d, a>>}}
  /\ records' = [records EXCEPT ![d] = a]
  /\ UNCHANGED current

PNext ==
  \/ \E p \in Prefix \cup {None} : Adopt(p)
  \/ \E d \in Domain : \E s \in SuffixesOf[d] : Publish(d, s) \/ Delay(d, s)
  \/ \E w \in delayed : Deliver(w[1], w[2])

PSpec == PInit /\ [][PNext]_pvars
=============================================================================
