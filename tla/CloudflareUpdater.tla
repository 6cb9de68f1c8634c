-------------------------- MODULE CloudflareUpdater --------------------------
(***************************************************************************)
(* set_record of updater/cloudflare.rs against the records of one domain:  *)
(* list the AAAA records, then PATCH the first one or POST a new one, each *)
(* request repeated while the API answers 429.  The list and the write are *)
(* two requests: a write that an earlier call gave up on, before a timeout *)
(* or in an earlier process, may arrive between them.                      *)
(***************************************************************************)
EXTENDS Naturals, FiniteSets

CONSTANTS
  Addr,        \* the addresses the cycle asks for
  MaxRecords,  \* the identifiers the API hands out are 1..MaxRecords
  MaxLost,     \* bound: POSTs given up without an answer
  Existing,    \* how many records the domain may have at first
  None

CloudflareAssumption ==
  /\ None \notin Addr /\ None \notin Nat
  /\ MaxRecords \in Nat /\ MaxLost \in Nat
  /\ Existing \subseteq {0, 1} /\ Existing # {} /\ MaxRecords > MaxLost

VARIABLES
  records,  \* the AAAA records of the domain: identifier -> content
  step,     \* "idle", "list", "correct", "write" (sent) or "written" (applied)
  wanted,   \* the address of the call
  target,   \* the record a PATCH is for, None for a POST
  attempt,  \* of the request in progress
  outcome,  \* of the last call: "none", "Ok" or "Err"
  late,     \* writes given up that may still arrive
  lost      \* history: POSTs given up

cvars == <<records, step, wanted, target, attempt, outcome, late, lost>>

RecordId == 1..MaxRecords

(* A write that was given up; POSTs are told apart, each makes a record.   *)
Write == [target : RecordId \cup {None}, content : Addr, nth : 0..MaxLost]

CInit ==
  /\ records \in {[id \in 1..n |-> a] : n \in Existing, a \in Addr}
  /\ step = "idle" /\ wanted = None /\ target = None /\ attempt = 1
  /\ outcome = "none" /\ late = {} /\ lost = 0

(* A PATCH replaces the content of its record, a POST adds a record.       *)
Written(w) ==
  LET id == IF w.target = None THEN Cardinality(DOMAIN records) + 1 ELSE w.target
  IN [i \in DOMAIN records \cup {id} |-> IF i = id THEN w.content ELSE records[i]]

Return(result) ==
  /\ step' = "idle" /\ wanted' = None /\ target' = None /\ attempt' = 1
  /\ outcome' = result

SetRecord(addr) ==
  /\ step = "idle"
  /\ step' = "list" /\ wanted' = addr /\ attempt' = 1
  /\ UNCHANGED <<records, target, outcome, late, lost>>

-----------------------------------------------------------------------------
(* request_with_retry: the list and the write are both sent through it.    *)

(* Slip: the attempts are counted inside the loop.                         *)
RetryForever ==
  /\ step \in {"list", "write"}
  /\ attempt' = (attempt % 3) + 1
  /\ UNCHANGED <<records, step, wanted, target, outcome, late, lost>>

(* Slip: the third 429 is followed by a fourth request.                    *)
RateLimitedOnceMore ==
  /\ step \in {"list", "write"} /\ attempt <= 3
  /\ attempt' = attempt + 1
  /\ UNCHANGED <<records, step, wanted, target, outcome, late, lost>>

(* 429, the first two times: sleep for Retry-After and send again.         *)
RateLimited ==
  /\ step \in {"list", "write"} /\ attempt < 3
  /\ attempt' = attempt + 1
  /\ UNCHANGED <<records, step, wanted, target, outcome, late, lost>>

(* The list fails, or the write is refused: no connection, a third 429,    *)
(* another error status, or `success: false`.                              *)
Refused ==
  /\ step \in {"list", "write"}
  /\ Return("Err")
  /\ UNCHANGED <<records, late, lost>>

-----------------------------------------------------------------------------
(* The first record of the list, whichever the API puts first.             *)

(* "record already correct, skipping update"                               *)
FindCorrect(id) ==
  /\ step = "list" /\ records[id] = wanted
  /\ step' = "correct"
  /\ UNCHANGED <<records, wanted, target, attempt, outcome, late, lost>>

SkipCorrect ==
  /\ step = "correct"
  /\ Return("Ok")
  /\ UNCHANGED <<records, late, lost>>

SendPatch(id) ==
  /\ step = "list" /\ records[id] # wanted
  /\ step' = "write" /\ target' = id /\ attempt' = 1
  /\ UNCHANGED <<records, wanted, outcome, late, lost>>

(* Slip: a new record is created even though there is one.                 *)
SendAlwaysPost ==
  /\ step = "list"
  /\ step' = "write" /\ target' = None /\ attempt' = 1
  /\ UNCHANGED <<records, wanted, outcome, late, lost>>

SendPost ==
  /\ step = "list" /\ DOMAIN records = {}
  /\ step' = "write" /\ target' = None /\ attempt' = 1
  /\ UNCHANGED <<records, wanted, outcome, late, lost>>

(* The API takes the write.                                                *)
ApiWrites ==
  /\ step = "write"
  /\ records' = Written([target |-> target, content |-> wanted])
  /\ step' = "written"
  /\ UNCHANGED <<wanted, target, attempt, outcome, late, lost>>

(* Slip: the body of the answer is not looked at.                          *)
WriteOkEarly ==
  /\ step \in {"write", "written"}
  /\ Return("Ok")
  /\ UNCHANGED <<records, late, lost>>

WriteOk ==
  /\ step = "written"
  /\ Return("Ok")
  /\ UNCHANGED <<records, late, lost>>

(* A timeout, an error status or an answer that does not parse, or the end *)
(* of the process: the write may have been taken, or may still be.         *)
WriteUnknown ==
  /\ step \in {"write", "written"}
  /\ late' = IF step = "write"
             THEN late \cup {[target |-> target, content |-> wanted,
                              nth |-> IF target = None THEN lost + 1 ELSE 0]} ELSE late
  /\ lost' = IF target = None THEN lost + 1 ELSE lost
  /\ lost' <= MaxLost
  /\ Return("Err")
  /\ UNCHANGED records

(* The same PATCH may have been given up, and so arrive, more than once.   *)
LateWrite(w) ==
  /\ w \in late
  /\ records' = Written(w)
  /\ late' \in {late \ {w}} \cup (IF w.target = None THEN {} ELSE {late})
  /\ UNCHANGED <<step, wanted, target, attempt, outcome, lost>>

-----------------------------------------------------------------------------
Answered ==
  \/ RateLimited \/ Refused
  \/ \E id \in DOMAIN records : FindCorrect(id) \/ SendPatch(id)
  \/ SkipCorrect \/ SendPost \/ WriteOk

CNext ==
  \/ \E addr \in Addr : SetRecord(addr)
  \/ Answered
  \/ ApiWrites \/ WriteUnknown
  \/ \E w \in late : LateWrite(w)

-----------------------------------------------------------------------------
(* Types; a POST is sent for a domain that had no record, and the record a *)
(* PATCH is for exists (updater/cloudflare.rs set_record).                 *)
CTypeOK ==
  /\ \E n \in 0..MaxRecords : DOMAIN records = 1..n
  /\ \A id \in DOMAIN records : records[id] \in Addr
  /\ step \in {"idle", "list", "correct", "write", "written"}
  /\ wanted \in Addr \cup {None} /\ (wanted = None <=> step = "idle")
  /\ target \in DOMAIN records \cup {None}
  /\ attempt \in 1..3
  /\ late \subseteq Write /\ lost \in 0..MaxLost

(* The call as SetRecordCall has it, where there is at most one record.    *)
Value == IF DOMAIN records = {} THEN None ELSE records[1]
Call == IF step \in {"correct", "written"} THEN "applied"
        ELSE IF step = "idle" THEN "idle" ELSE "sent"
Delayed == {w.content : w \in late}

(* The daemon itself makes no second record for a domain, unless a POST    *)
(* was given up on that arrived in the end (updater/cloudflare.rs, the two *)
(* branches on `existing`).                                                *)
ExtraRecordsAreLatePosts == Cardinality(DOMAIN records) <= 1 + lost
=============================================================================
