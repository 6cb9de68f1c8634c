------------------------------- MODULE Updater -------------------------------
(***************************************************************************)
(* The DnsUpdater of the daemon: build_updater of main.rs makes one of the *)
(* two providers from the configuration, and set_record of that one is     *)
(* what the update cycle calls, one call at a time, for as long as the     *)
(* process lives.                                                          *)
(***************************************************************************)
EXTENDS Naturals

CONSTANTS
  Addr, None,
  MaxRecords, MaxLost, Existing,  \* see CloudflareUpdater
  Label, Domains, zone            \* see Rfc2136Updater

VARIABLES
  provider,                       \* "cloudflare" or "rfc2136"
  step, wanted, outcome, late,    \* the call, in the words of the provider
  records, target, attempt, lost, \* of Cloudflare
  domain, rrset                   \* of the name server

cloudflareVars == <<records, target, attempt, lost>>
rfc2136Vars == <<domain, rrset>>
allVars == <<provider, step, wanted, outcome, late, cloudflareVars, rfc2136Vars>>

Cloudflare == INSTANCE CloudflareUpdater
Rfc2136 == INSTANCE Rfc2136Updater

ASSUME UpdaterAssumption ==
  /\ Cloudflare!CloudflareAssumption
  /\ Rfc2136!Rfc2136Assumption

(* The variables of the other provider have no meaning and stay.           *)
Init ==
  \/ /\ provider = "cloudflare" /\ Cloudflare!CInit
     /\ domain \in Domains /\ rrset = {}
  \/ /\ provider = "rfc2136" /\ Rfc2136!UInit
     /\ records = <<>> /\ target = None /\ attempt = 1 /\ lost = 0

Next ==
  \/ provider = "cloudflare" /\ Cloudflare!CNext /\ UNCHANGED <<provider, rfc2136Vars>>
  \/ provider = "rfc2136" /\ Rfc2136!UNext /\ UNCHANGED <<provider, cloudflareVars>>

Spec == Init /\ [][Next]_allVars

(* Every request is answered or runs into the client's timeout; set_record *)
(* of Cloudflare sleeps between two tries, and wakes up.                   *)
Answered ==
  \/ provider = "cloudflare" /\ Cloudflare!Answered /\ UNCHANGED <<provider, rfc2136Vars>>
  \/ provider = "rfc2136" /\ Rfc2136!Answered /\ UNCHANGED <<provider, cloudflareVars>>

FairSpec == Spec /\ WF_allVars(Answered)

-----------------------------------------------------------------------------
(* Types of the provider in use (see CTypeOK and UTypeOK): no attempt is   *)
(* numbered above three, a PATCH is for a record that exists, and the      *)
(* record set of the name server has one member.                           *)
UpdaterTypeOK ==
  \/ provider = "cloudflare" /\ Cloudflare!CTypeOK
  \/ provider = "rfc2136" /\ Rfc2136!UTypeOK

Abstract == INSTANCE SetRecordCall WITH
  value <- IF provider = "cloudflare" THEN Cloudflare!Value ELSE Rfc2136!Value,
  call <- IF provider = "cloudflare" THEN Cloudflare!Call ELSE Rfc2136!Call,
  delayed <- IF provider = "cloudflare" THEN Cloudflare!Delayed ELSE late

(* While a domain has at most one record, every step of either provider is *)
(* one that the cycle reckons with: an Ok means that the record had the    *)
(* address during the call, and the list, the repetitions, the query whose *)
(* error is ignored and the shortcut for a correct record do not show      *)
(* (set_record of updater/cloudflare.rs and updater/rfc2136.rs).           *)
ImplementsSetRecordCall ==
  /\ Abstract!SInit
  /\ [][DOMAIN records' \subseteq {1} => Abstract!SNext]_(Abstract!svars)

(* The daemon itself makes no second record for a domain, unless a POST    *)
(* was given up on that arrived in the end (updater/cloudflare.rs, the two *)
(* branches on `existing`).                                                *)
ExtraRecordsAreLatePosts == Cloudflare!ExtraRecordsAreLatePosts

(* Every set_record returns, however often the API answers 429             *)
(* (updater/cloudflare.rs request_with_retry).                             *)
CallReturns == (step # "idle") ~> (step = "idle")
=============================================================================
