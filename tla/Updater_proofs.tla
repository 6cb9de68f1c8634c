---------------------------- MODULE Updater_proofs ----------------------------
(***************************************************************************)
(* Proofs about both set_record: their types, how many records a domain    *)
(* may get, which hosts a name server updates, and that either one is the  *)
(* call SetRecordCall describes.                                           *)
(***************************************************************************)
EXTENDS Updater, Sequences, FiniteSetTheorems, TLAPS

LEMMA Constants ==
  /\ None \notin Addr /\ None \notin Nat
  /\ MaxRecords \in Nat /\ MaxLost \in Nat /\ MaxRecords > MaxLost
  /\ Existing \subseteq {0, 1}
  BY UpdaterAssumption DEF Cloudflare!CloudflareAssumption, Rfc2136!Rfc2136Assumption

(* CloudflareUpdater's Cardinality is the library's.                       *)
LEMMA SameCardinality ==
  ASSUME NEW S PROVE Cloudflare!Cardinality(S) = Cardinality(S)
  BY Zenon DEF Cardinality, Cloudflare!Cardinality

LEMMA CountRecords ==
  ASSUME NEW n \in Nat PROVE Cloudflare!Cardinality(1..n) = n
<1>1. Cardinality(1..n) = n
  BY FS_Interval
<1> QED
  BY <1>1, SameCardinality

-----------------------------------------------------------------------------
(* Cloudflare: every POST that was given up on either may still arrive or  *)
(* has made its record, and one more POST may be on its way.               *)

Pending == {w \in late : w.target = None}

Numbered(n) ==
  /\ records \in [1..n -> Addr]
  /\ target \in 1..n \cup {None}
  /\ \A w \in late : w.target \in 1..n \cup {None}
  /\ n + Cardinality(Pending) <= IF step = "write" /\ target = None THEN lost ELSE 1 + lost

CloudflareInv ==
  /\ step \in {"idle", "list", "correct", "write", "written"}
  /\ wanted \in Addr \cup {None} /\ (wanted = None <=> step = "idle")
  /\ attempt \in 1..3
  /\ late \subseteq Cloudflare!Write /\ lost \in 0..MaxLost
  /\ IsFiniteSet(Pending) /\ Cardinality(Pending) <= lost
  /\ \A w \in Pending : w.nth <= lost
  /\ \E n \in Nat : Numbered(n)

(* A write keeps the records numbered from one.                            *)
LEMMA WrittenRecords ==
  ASSUME NEW n \in Nat, records \in [1..n -> Addr],
         NEW w, w.content \in Addr, w.target \in 1..n \cup {None}
  PROVE  LET id == IF w.target = None THEN n + 1 ELSE w.target
         IN  /\ Cloudflare!Written(w) \in [1..(IF w.target = None THEN n + 1 ELSE n) -> Addr]
             /\ Cloudflare!Written(w)[id] = w.content
<1> DEFINE id == IF w.target = None THEN n + 1 ELSE w.target
<1>1. DOMAIN records = 1..n /\ Cloudflare!Cardinality(DOMAIN records) = n
  BY CountRecords
<1>2. Cloudflare!Written(w) =
        [i \in 1..n \cup {id} |-> IF i = id THEN w.content ELSE records[i]]
  BY <1>1 DEF Cloudflare!Written
<1>3. CASE w.target = None
  <2>1. id = n + 1 /\ 1..n \cup {n + 1} = 1..(n + 1)
    BY <1>3
  <2> QED
    BY <1>2, <1>3, <2>1
<1>4. CASE w.target # None
  <2>1. id \in 1..n /\ 1..n \cup {id} = 1..n
    BY <1>4
  <2> QED
    BY <1>2, <1>4, <2>1
<1> QED
  BY <1>3, <1>4

LEMMA CloudflareStart == Cloudflare!CInit => CloudflareInv
<1> SUFFICES ASSUME Cloudflare!CInit PROVE CloudflareInv
  OBVIOUS
<1>1. late = {} /\ lost = 0 /\ step = "idle" /\ wanted = None /\ target = None /\ attempt = 1
  BY DEF Cloudflare!CInit
<1>2. Pending = {} /\ IsFiniteSet(Pending) /\ Cardinality(Pending) = 0
  BY <1>1, FS_EmptySet DEF Pending
<1>3. PICK n \in Existing, a \in Addr : records = [id \in 1..n |-> a]
  BY DEF Cloudflare!CInit
<1>4. n \in {0, 1} /\ records \in [1..n -> Addr]
  BY <1>3, Constants
<1>5. Numbered(n)
  BY <1>1, <1>2, <1>4 DEF Numbered
<1>6. 0 \in 0..MaxLost
  BY Constants
<1> QED
  BY <1>1, <1>2, <1>4, <1>5, <1>6, Constants DEF CloudflareInv

(* Steps that write nothing and give nothing up.                           *)
LEMMA QuietStep ==
  ASSUME CloudflareInv, UNCHANGED <<records, late, lost>>,
         step' \in {"idle", "list", "correct", "write", "written"},
         wanted' \in Addr \cup {None}, wanted' = None <=> step' = "idle",
         attempt' \in 1..3,
         target' \in DOMAIN records \cup {None, target},
         step' = "write" /\ target' = None =>
           (DOMAIN records = {} \/ (step = "write" /\ target = None))
  PROVE  CloudflareInv'
<1>1. PICK n \in Nat : Numbered(n)
  BY DEF CloudflareInv
<1>2. Pending' = Pending /\ DOMAIN records = 1..n
  BY <1>1 DEF Pending, Numbered
<1>3. Cardinality(Pending) \in Nat /\ lost \in Nat /\ Cardinality(Pending) <= lost
  BY Constants, FS_CardinalityType DEF CloudflareInv
<1>4. DOMAIN records = {} => n = 0
  BY <1>2
<1>5. n + Cardinality(Pending) <= IF step' = "write" /\ target' = None THEN lost ELSE 1 + lost
  BY <1>1, <1>3, <1>4 DEF Numbered
<1>6. Numbered(n)'
  BY <1>1, <1>2, <1>5 DEF Numbered
<1> QED
  BY <1>2, <1>6 DEF CloudflareInv

LEMMA ApiWritesKeepsInv == CloudflareInv /\ Cloudflare!ApiWrites => CloudflareInv'
<1> SUFFICES ASSUME CloudflareInv, Cloudflare!ApiWrites PROVE CloudflareInv'
  OBVIOUS
<1> DEFINE w == [target |-> target, content |-> wanted]
<1>1. /\ step = "write" /\ step' = "written" /\ records' = Cloudflare!Written(w)
      /\ UNCHANGED <<wanted, target, attempt, late, lost>>
  BY DEF Cloudflare!ApiWrites
<1>2. PICK n \in Nat : Numbered(n)
  BY DEF CloudflareInv
<1> DEFINE m == IF target = None THEN n + 1 ELSE n
<1>3. w.content \in Addr /\ w.target \in 1..n \cup {None}
  BY <1>1, <1>2 DEF CloudflareInv, Numbered
<1>4. records' \in [1..m -> Addr]
  BY <1>1, <1>2, <1>3, WrittenRecords DEF Numbered
<1>5. Pending' = Pending /\ Cardinality(Pending) \in Nat /\ lost \in Nat
  BY <1>1, Constants, FS_CardinalityType DEF CloudflareInv, Pending
<1>6. m \in Nat /\ 1..n \subseteq 1..m /\ m + Cardinality(Pending) <= 1 + lost
  BY <1>1, <1>2, <1>5 DEF Numbered
<1>7. Numbered(m)'
  BY <1>1, <1>2, <1>4, <1>5, <1>6 DEF Numbered
<1> QED
  BY <1>1, <1>5, <1>6, <1>7 DEF CloudflareInv

LEMMA WriteUnknownKeepsInv == CloudflareInv /\ Cloudflare!WriteUnknown => CloudflareInv'
<1> SUFFICES ASSUME CloudflareInv, Cloudflare!WriteUnknown PROVE CloudflareInv'
  OBVIOUS
<1> DEFINE w == [target |-> target, content |-> wanted,
                 nth |-> IF target = None THEN lost + 1 ELSE 0]
<1>1. /\ step \in {"write", "written"}
      /\ late' = IF step = "write" THEN late \cup {w} ELSE late
      /\ lost' = (IF target = None THEN lost + 1 ELSE lost) /\ lost' <= MaxLost
      /\ step' = "idle" /\ wanted' = None /\ target' = None /\ attempt' = 1
      /\ records' = records
  BY DEF Cloudflare!WriteUnknown, Cloudflare!Return
<1>2. PICK n \in Nat : Numbered(n)
  BY DEF CloudflareInv
<1>3. /\ Cardinality(Pending) \in Nat /\ lost \in Nat /\ MaxLost \in Nat
      /\ IsFiniteSet(Pending) /\ Cardinality(Pending) <= lost
  BY Constants, FS_CardinalityType DEF CloudflareInv
<1>4. lost' \in 0..MaxLost /\ lost <= lost'
  BY <1>1, <1>3
<1>5. n \in 0..MaxRecords
  <2>1. n <= 1 + lost
    BY <1>2, <1>3 DEF Numbered
  <2> QED
    BY <2>1, <1>3, Constants DEF CloudflareInv
<1>6. w.target = target /\ w.target \in 1..n \cup {None} /\ w.nth <= lost'
  BY <1>1, <1>2, <1>3 DEF Numbered
<1>7. w \in Cloudflare!Write
  <2>1. target \in Cloudflare!RecordId \cup {None}
    BY <1>2, <1>5, Constants DEF Numbered, Cloudflare!RecordId
  <2>2. wanted \in Addr
    BY <1>1 DEF CloudflareInv
  <2>3. (IF target = None THEN lost + 1 ELSE 0) \in 0..MaxLost
    BY <1>1, <1>3
  <2> QED
    BY <2>1, <2>2, <2>3 DEF Cloudflare!Write
<1>8. /\ IsFiniteSet(Pending')
      /\ Cardinality(Pending') <= lost'
      /\ n + Cardinality(Pending') <= 1 + lost'
  <2>1. CASE step = "write" /\ target = None
    <3>1. Pending' = Pending \cup {w}
      BY <1>1, <2>1 DEF Pending
    <3>2. w \notin Pending
      BY <1>3, <2>1 DEF CloudflareInv
    <3>3. IsFiniteSet(Pending') /\ Cardinality(Pending') = Cardinality(Pending) + 1
      BY <1>3, <3>1, <3>2, FS_AddElement
    <3> QED
      BY <1>1, <1>2, <1>3, <2>1, <3>3 DEF Numbered
  <2>2. CASE ~(step = "write" /\ target = None)
    <3>1. Pending' = Pending
      BY <1>1, <2>2 DEF Pending
    <3> QED
      BY <1>1, <1>2, <1>3, <2>2, <3>1 DEF Numbered
  <2> QED
    BY <2>1, <2>2
<1>9. Numbered(n)'
  BY <1>1, <1>2, <1>6, <1>8 DEF Numbered
<1>10. \A v \in Pending' : v.nth <= lost'
  <2> SUFFICES ASSUME NEW v \in Pending' PROVE v.nth <= lost'
    OBVIOUS
  <2>1. CASE v = w
    BY <1>6, <2>1
  <2>2. CASE v # w
    <3>1. v \in Pending /\ v \in Cloudflare!Write
      BY <1>1, <2>2 DEF Pending, CloudflareInv
    <3>2. v.nth <= lost /\ v.nth \in Nat
      BY <3>1, <1>3 DEF CloudflareInv, Cloudflare!Write
    <3> QED
      BY <3>2, <1>3, <1>4
  <2> QED
    BY <2>1, <2>2
<1> QED
  BY <1>1, <1>4, <1>7, <1>8, <1>9, <1>10, Constants DEF CloudflareInv

LEMMA LateWriteKeepsInv ==
  ASSUME CloudflareInv, NEW w \in late, Cloudflare!LateWrite(w)
  PROVE  CloudflareInv'
<1>1. /\ records' = Cloudflare!Written(w)
      /\ late' \in {late \ {w}} \cup (IF w.target = None THEN {} ELSE {late})
      /\ UNCHANGED <<step, wanted, target, attempt, lost>>
  BY DEF Cloudflare!LateWrite
<1>2. PICK n \in Nat : Numbered(n)
  BY DEF CloudflareInv
<1> DEFINE m == IF w.target = None THEN n + 1 ELSE n
<1>3. w.content \in Addr /\ w.target \in 1..n \cup {None}
  BY <1>2 DEF CloudflareInv, Numbered, Cloudflare!Write
<1>4. records' \in [1..m -> Addr]
  BY <1>1, <1>2, <1>3, WrittenRecords DEF Numbered
<1>5. /\ Cardinality(Pending) \in Nat /\ lost \in Nat
      /\ IsFiniteSet(Pending) /\ Cardinality(Pending) <= lost
  BY Constants, FS_CardinalityType DEF CloudflareInv
<1>6. /\ IsFiniteSet(Pending') /\ Cardinality(Pending') \in Nat
      /\ Cardinality(Pending') <= lost
      /\ m + Cardinality(Pending') = n + Cardinality(Pending)
  <2>1. CASE w.target = None
    <3>1. Pending' = Pending \ {w} /\ w \in Pending
      BY <1>1, <2>1 DEF Pending
    <3>2. IsFiniteSet(Pending') /\ Cardinality(Pending') = Cardinality(Pending) - 1
      BY <1>5, <3>1, FS_RemoveElement
    <3>3. Cardinality(Pending') \in Nat
      BY <3>2, FS_CardinalityType
    <3> QED
      BY <1>5, <2>1, <3>2, <3>3
  <2>2. CASE w.target # None
    <3>1. Pending' = Pending
      BY <1>1, <2>2 DEF Pending
    <3> QED
      BY <1>5, <2>2, <3>1
  <2> QED
    BY <2>1, <2>2
<1>7. m \in Nat /\ 1..n \subseteq 1..m /\ late' \subseteq late /\ Pending' \subseteq Pending
  BY <1>1, <1>2 DEF Pending
<1>8. Numbered(m)'
  BY <1>1, <1>2, <1>4, <1>6, <1>7 DEF Numbered
<1> QED
  BY <1>1, <1>6, <1>7, <1>8 DEF CloudflareInv

LEMMA CloudflareStep ==
  CloudflareInv /\ [Cloudflare!CNext]_<<step, wanted, outcome, late, cloudflareVars>>
    => CloudflareInv'
<1> SUFFICES ASSUME CloudflareInv,
                    [Cloudflare!CNext]_<<step, wanted, outcome, late, cloudflareVars>>
             PROVE  CloudflareInv'
  OBVIOUS
<1>0. PICK n \in Nat : Numbered(n)
  BY DEF CloudflareInv
<1>1. ASSUME NEW addr \in Addr, Cloudflare!SetRecord(addr) PROVE CloudflareInv'
  BY <1>1, QuietStep, Constants DEF Cloudflare!SetRecord
<1>2. CASE Cloudflare!RateLimited
  <2>1. attempt' \in 1..3
    BY <1>2 DEF Cloudflare!RateLimited, CloudflareInv
  <2> QED
    BY <1>2, <2>1, QuietStep DEF Cloudflare!RateLimited, CloudflareInv
<1>3. CASE Cloudflare!Refused
  BY <1>3, QuietStep DEF Cloudflare!Refused, Cloudflare!Return
<1>4. ASSUME NEW id \in DOMAIN records, Cloudflare!FindCorrect(id) PROVE CloudflareInv'
  BY <1>4, QuietStep DEF Cloudflare!FindCorrect, CloudflareInv
<1>5. ASSUME NEW id \in DOMAIN records, Cloudflare!SendPatch(id) PROVE CloudflareInv'
  <2>1. id # None
    BY <1>0, Constants DEF Numbered
  <2> QED
    BY <1>5, <2>1, QuietStep DEF Cloudflare!SendPatch, CloudflareInv
<1>6. CASE Cloudflare!SkipCorrect
  BY <1>6, QuietStep DEF Cloudflare!SkipCorrect, Cloudflare!Return
<1>7. CASE Cloudflare!SendPost
  BY <1>7, QuietStep DEF Cloudflare!SendPost, CloudflareInv
<1>8. CASE Cloudflare!WriteOk
  BY <1>8, QuietStep DEF Cloudflare!WriteOk, Cloudflare!Return
<1>9. CASE Cloudflare!ApiWrites
  BY <1>9, ApiWritesKeepsInv
<1>10. CASE Cloudflare!WriteUnknown
  BY <1>10, WriteUnknownKeepsInv
<1>11. ASSUME NEW w \in late, Cloudflare!LateWrite(w) PROVE CloudflareInv'
  BY <1>11, LateWriteKeepsInv
<1>12. CASE UNCHANGED <<step, wanted, outcome, late, cloudflareVars>>
  BY <1>12, QuietStep DEF cloudflareVars, CloudflareInv
<1> QED
  BY <1>1, <1>2, <1>3, <1>4, <1>5, <1>6, <1>7, <1>8, <1>9, <1>10, <1>11, <1>12
  DEF Cloudflare!CNext, Cloudflare!Answered

-----------------------------------------------------------------------------
(* The name server: a record set has one member.                           *)

Rfc2136Inv ==
  /\ domain \in Domains
  /\ rrset \in {{}} \cup {{a} : a \in Addr}
  /\ step \in {"idle", "query", "correct", "update", "updated"}
  /\ wanted \in Addr \cup {None} /\ (wanted = None <=> step = "idle")
  /\ late \subseteq Addr

LEMMA Rfc2136Start == Rfc2136!UInit => Rfc2136Inv
  BY DEF Rfc2136!UInit, Rfc2136Inv

LEMMA Rfc2136Step ==
  Rfc2136Inv /\ [Rfc2136!UNext]_<<step, wanted, outcome, late, rfc2136Vars>> => Rfc2136Inv'
<1> SUFFICES ASSUME Rfc2136Inv,
                    [Rfc2136!UNext]_<<step, wanted, outcome, late, rfc2136Vars>>
             PROVE  Rfc2136Inv'
  OBVIOUS
<1>1. domain' = domain
  BY DEF Rfc2136!UNext, Rfc2136!Answered, Rfc2136!SetRecord, Rfc2136!FindCorrect,
         Rfc2136!SendUpdate, Rfc2136!ServerUpdates, Rfc2136!ReturnOk, Rfc2136!Refused,
         Rfc2136!Unknown, Rfc2136!LateUpdate, rfc2136Vars
<1>3. ASSUME NEW addr \in Addr, Rfc2136!SetRecord(addr) PROVE Rfc2136Inv'
  BY <1>1, <1>3, Constants DEF Rfc2136!SetRecord, Rfc2136Inv
<1>4. CASE Rfc2136!FindCorrect
  BY <1>1, <1>4 DEF Rfc2136!FindCorrect, Rfc2136Inv
<1>5. CASE Rfc2136!SendUpdate
  BY <1>1, <1>5 DEF Rfc2136!SendUpdate, Rfc2136Inv
<1>6. CASE Rfc2136!ReturnOk \/ Rfc2136!Refused
  BY <1>1, <1>6 DEF Rfc2136!ReturnOk, Rfc2136!Refused, Rfc2136!Return, Rfc2136Inv
<1>7. CASE Rfc2136!Unknown
  <2>1. late' \subseteq Addr
    BY <1>7 DEF Rfc2136!Unknown, Rfc2136Inv
  <2> QED
    BY <1>1, <1>7, <2>1 DEF Rfc2136!Unknown, Rfc2136!Return, Rfc2136Inv
<1>8. CASE Rfc2136!ServerUpdates
  <2>1. wanted \in Addr
    BY <1>8 DEF Rfc2136!ServerUpdates, Rfc2136Inv
  <2> QED
    BY <1>1, <1>8, <2>1 DEF Rfc2136!ServerUpdates, Rfc2136Inv
<1>9. ASSUME NEW addr \in late, Rfc2136!LateUpdate(addr) PROVE Rfc2136Inv'
  <2>1. addr \in Addr /\ late' \subseteq late
    BY <1>9 DEF Rfc2136!LateUpdate, Rfc2136Inv
  <2> QED
    BY <1>1, <1>9, <2>1 DEF Rfc2136!LateUpdate, Rfc2136Inv
<1>10. CASE UNCHANGED <<step, wanted, outcome, late, rfc2136Vars>>
  BY <1>10 DEF rfc2136Vars, Rfc2136Inv
<1> QED
  BY <1>3, <1>4, <1>5, <1>6, <1>7, <1>8, <1>9, <1>10 DEF Rfc2136!UNext, Rfc2136!Answered

-----------------------------------------------------------------------------
(* The provider is one of the two and stays the same.                      *)

UpdaterInv ==
  \/ provider = "cloudflare" /\ CloudflareInv
  \/ provider = "rfc2136" /\ Rfc2136Inv /\ records = <<>> /\ lost = 0

LEMMA InvStart == Init => UpdaterInv
  BY CloudflareStart, Rfc2136Start DEF Init, UpdaterInv

(* A step is one of the provider in use, beside the idle variables of the  *)
(* other.                                                                  *)
LEMMA StepsOfProvider ==
  ASSUME UpdaterInv, [Next]_allVars
  PROVE  \/ /\ provider = "cloudflare" /\ provider' = provider /\ CloudflareInv
            /\ UNCHANGED rfc2136Vars
            /\ [Cloudflare!CNext]_<<step, wanted, outcome, late, cloudflareVars>>
         \/ /\ provider = "rfc2136" /\ provider' = provider /\ Rfc2136Inv
            /\ records = <<>> /\ lost = 0 /\ UNCHANGED cloudflareVars
            /\ [Rfc2136!UNext]_<<step, wanted, outcome, late, rfc2136Vars>>
  BY DEF UpdaterInv, Next, allVars

LEMMA InvStep == UpdaterInv /\ [Next]_allVars => UpdaterInv'
<1> SUFFICES ASSUME UpdaterInv, [Next]_allVars PROVE UpdaterInv'
  OBVIOUS
<1>1. CASE provider = "cloudflare"
  BY <1>1, StepsOfProvider, CloudflareStep DEF UpdaterInv
<1>2. CASE provider = "rfc2136"
  BY <1>2, StepsOfProvider, Rfc2136Step DEF UpdaterInv, cloudflareVars
<1> QED
  BY <1>1, <1>2 DEF UpdaterInv

LEMMA UpdaterInvariant == Spec => []UpdaterInv
  BY InvStart, InvStep, PTL DEF Spec

LEMMA InvGivesTypes == UpdaterInv => UpdaterTypeOK
<1> SUFFICES ASSUME UpdaterInv PROVE UpdaterTypeOK
  OBVIOUS
<1>1. ASSUME provider = "cloudflare", CloudflareInv PROVE Cloudflare!CTypeOK
  <2>1. PICK n \in Nat : Numbered(n)
    BY <1>1 DEF CloudflareInv
  <2>2. Cardinality(Pending) \in Nat /\ lost \in 0..MaxLost
    BY <1>1, FS_CardinalityType DEF CloudflareInv
  <2>3. n \in 0..MaxRecords /\ DOMAIN records = 1..n
    BY <2>1, <2>2, Constants DEF Numbered
  <2> QED
    BY <1>1, <2>1, <2>3 DEF CloudflareInv, Numbered, Cloudflare!CTypeOK
<1>2. ASSUME Rfc2136Inv PROVE Rfc2136!UTypeOK
  BY <1>2 DEF Rfc2136Inv, Rfc2136!UTypeOK
<1> QED
  BY <1>1, <1>2 DEF UpdaterInv, UpdaterTypeOK

(* Attempts stay below four, a PATCH is for a record that exists, the name *)
(* server keeps one record; MaxRecords identifiers suffice.                *)
THEOREM UpdaterTypeCorrect == Spec => []UpdaterTypeOK
  BY UpdaterInvariant, InvGivesTypes, PTL

LEMMA InvBoundsRecords == UpdaterInv => ExtraRecordsAreLatePosts
<1> SUFFICES ASSUME UpdaterInv PROVE ExtraRecordsAreLatePosts
  OBVIOUS
<1>1. ASSUME CloudflareInv PROVE ExtraRecordsAreLatePosts
  <2>1. PICK n \in Nat : Numbered(n)
    BY <1>1 DEF CloudflareInv
  <2>2. Cardinality(Pending) \in Nat /\ lost \in Nat
    BY <1>1, FS_CardinalityType, Constants DEF CloudflareInv
  <2>3. n <= 1 + lost /\ DOMAIN records = 1..n
    BY <2>1, <2>2 DEF Numbered
  <2> QED
    BY <2>3, CountRecords DEF ExtraRecordsAreLatePosts, Cloudflare!ExtraRecordsAreLatePosts
<1>2. ASSUME records = <<>>, lost = 0 PROVE ExtraRecordsAreLatePosts
  <2>1. DOMAIN records = 1..0 /\ 0 \in Nat
    BY <1>2
  <2>2. Cloudflare!Cardinality(DOMAIN records) = 0
    BY <2>1, CountRecords
  <2> QED
    BY <1>2, <2>2 DEF ExtraRecordsAreLatePosts, Cloudflare!ExtraRecordsAreLatePosts
<1> QED
  BY <1>1, <1>2 DEF UpdaterInv

(* A domain has at most one record more than POSTs were given up on.       *)
THEOREM ExtraRecordsAreLate == Spec => []ExtraRecordsAreLatePosts
  BY UpdaterInvariant, InvBoundsRecords, PTL

-----------------------------------------------------------------------------
(* Either provider is the call of SetRecordCall.                           *)

LEMMA CloudflareBegins ==
  ASSUME Cloudflare!CInit, provider = "cloudflare" PROVE Abstract!SInit
<1>1. CloudflareInv /\ step = "idle" /\ wanted = None /\ outcome = "none" /\ late = {}
  BY CloudflareStart DEF Cloudflare!CInit
<1>2. PICK n \in Nat : Numbered(n)
  BY <1>1 DEF CloudflareInv
<1>3. Cloudflare!Value \in Addr \cup {None}
  BY <1>2 DEF Cloudflare!Value, Numbered
<1> QED
  BY <1>1, <1>3 DEF Abstract!SInit, Cloudflare!Call, Cloudflare!Delayed

LEMMA OneMember ==
  ASSUME NEW a \in Addr, rrset = {a} PROVE Rfc2136!Value = a
<1>1. \A b \in Addr : rrset = {b} => b = a
  OBVIOUS
<1>2. \E b \in Addr : rrset = {b}
  OBVIOUS
<1> QED
  BY <1>1, <1>2, Zenon DEF Rfc2136!Value

LEMMA OneMemberNext ==
  ASSUME NEW a \in Addr, rrset' = {a} PROVE Rfc2136!Value' = a
<1>1. \A b \in Addr : rrset' = {b} => b = a
  OBVIOUS
<1>2. \E b \in Addr : rrset' = {b}
  OBVIOUS
<1> QED
  BY <1>1, <1>2, Zenon DEF Rfc2136!Value

LEMMA Rfc2136Begins ==
  ASSUME Rfc2136!UInit, provider = "rfc2136" PROVE Abstract!SInit
<1>1. Rfc2136!Value \in Addr \cup {None}
  <2>1. CASE rrset = {}
    BY <2>1 DEF Rfc2136!Value
  <2>2. ASSUME NEW a \in Addr, rrset = {a} PROVE Rfc2136!Value \in Addr \cup {None}
    BY <2>2, OneMember
  <2> QED
    BY <2>1, <2>2 DEF Rfc2136!UInit
<1> QED
  BY <1>1 DEF Rfc2136!UInit, Abstract!SInit, Rfc2136!Call

(* What the API took is the value afterwards, if it made no second record. *)
LEMMA TakenIsValue ==
  ASSUME CloudflareInv, NEW w, w.content \in Addr, w.target \in DOMAIN records \cup {None},
         records' = Cloudflare!Written(w), DOMAIN records' \subseteq {1}
  PROVE  Cloudflare!Value' = w.content
<1> DEFINE id == IF w.target = None THEN Cloudflare!Cardinality(DOMAIN records) + 1 ELSE w.target
<1>1. PICK n \in Nat : Numbered(n)
  BY DEF CloudflareInv
<1>2. DOMAIN records = 1..n /\ id = IF w.target = None THEN n + 1 ELSE w.target
  BY <1>1, CountRecords DEF Numbered
<1>3. records'[id] = w.content
  BY <1>1, <1>2, WrittenRecords DEF Numbered
<1>4. id \in DOMAIN records'
  BY DEF Cloudflare!Written
<1>5. id = 1
  BY <1>4
<1> QED
  BY <1>3, <1>4, <1>5 DEF Cloudflare!Value

LEMMA CloudflareImplements ==
  ASSUME CloudflareInv, provider = "cloudflare", provider' = provider,
         [Cloudflare!CNext]_<<step, wanted, outcome, late, cloudflareVars>>,
         DOMAIN records' \subseteq {1}
  PROVE  Abstract!SNext \/ UNCHANGED Abstract!svars
<1> USE DEF Cloudflare!Call
<1>0. UNCHANGED records => UNCHANGED Cloudflare!Value
  BY DEF Cloudflare!Value
<1>1. UNCHANGED late => UNCHANGED Cloudflare!Delayed
  BY DEF Cloudflare!Delayed
<1>2. ASSUME NEW addr \in Addr, Cloudflare!SetRecord(addr) PROVE Abstract!SNext
  <2>1. Abstract!Begin(addr)
    BY <1>0, <1>1, <1>2 DEF Cloudflare!SetRecord, Abstract!Begin
  <2> QED
    BY <2>1 DEF Abstract!SNext
<1>3. CASE Cloudflare!RateLimited
  BY <1>0, <1>1, <1>3 DEF Cloudflare!RateLimited, Abstract!svars
<1>4. CASE Cloudflare!Refused
  <2>1. Abstract!Refuse
    BY <1>0, <1>1, <1>4 DEF Cloudflare!Refused, Cloudflare!Return, Abstract!Refuse, Abstract!End
  <2> QED
    BY <2>1 DEF Abstract!SNext
<1>5. ASSUME NEW id \in DOMAIN records, Cloudflare!FindCorrect(id) PROVE Abstract!SNext
  <2>1. id = 1 /\ UNCHANGED <<records, late, wanted, outcome>>
    BY <1>5 DEF Cloudflare!FindCorrect
  <2>2. Cloudflare!Value = wanted
    BY <1>5, <2>1 DEF Cloudflare!FindCorrect, Cloudflare!Value
  <2>3. Abstract!Take
    BY <1>0, <1>1, <1>5, <2>1, <2>2 DEF Cloudflare!FindCorrect, Abstract!Take
  <2> QED
    BY <2>3 DEF Abstract!SNext
<1>6. CASE Cloudflare!SkipCorrect \/ Cloudflare!WriteOk
  <2>1. Abstract!Ok
    BY <1>0, <1>1, <1>6 DEF Cloudflare!SkipCorrect, Cloudflare!WriteOk, Cloudflare!Return,
       Abstract!Ok, Abstract!End
  <2> QED
    BY <2>1 DEF Abstract!SNext
<1>7. ASSUME NEW id \in DOMAIN records, Cloudflare!SendPatch(id) PROVE UNCHANGED Abstract!svars
  BY <1>0, <1>1, <1>7 DEF Cloudflare!SendPatch, Abstract!svars
<1>8. CASE Cloudflare!SendPost
  BY <1>0, <1>1, <1>8 DEF Cloudflare!SendPost, Abstract!svars
<1>9. CASE Cloudflare!ApiWrites
  <2> DEFINE w == [target |-> target, content |-> wanted]
  <2>1. w.content \in Addr /\ w.target \in DOMAIN records \cup {None}
    BY <1>9 DEF Cloudflare!ApiWrites, CloudflareInv, Numbered
  <2>2. records' = Cloudflare!Written(w)
    BY <1>9 DEF Cloudflare!ApiWrites
  <2>3. Cloudflare!Value' = wanted
    BY <2>1, <2>2, TakenIsValue
  <2>4. Abstract!Take
    BY <1>1, <1>9, <2>3 DEF Cloudflare!ApiWrites, Abstract!Take
  <2> QED
    BY <2>4 DEF Abstract!SNext
<1>10. CASE Cloudflare!WriteUnknown
  <2>1. Cloudflare!Delayed' =
          IF step = "write" THEN Cloudflare!Delayed \cup {wanted} ELSE Cloudflare!Delayed
    <3> DEFINE w == [target |-> target, content |-> wanted,
                     nth |-> IF target = None THEN lost + 1 ELSE 0]
    <3>1. late' = IF step = "write" THEN late \cup {w} ELSE late
      BY <1>10 DEF Cloudflare!WriteUnknown
    <3>2. w.content = wanted
      OBVIOUS
    <3> HIDE DEF w
    <3> QED
      BY <3>1, <3>2 DEF Cloudflare!Delayed
  <2>2. Abstract!GiveUp
    BY <1>0, <1>10, <2>1 DEF Cloudflare!WriteUnknown, Cloudflare!Return, Abstract!GiveUp, Abstract!End
  <2> QED
    BY <2>2 DEF Abstract!SNext
<1>11. ASSUME NEW w \in late, Cloudflare!LateWrite(w) PROVE Abstract!SNext
  <2>1. w.content \in Addr /\ w.target \in DOMAIN records \cup {None}
    BY DEF CloudflareInv, Cloudflare!Write, Numbered
  <2>2. Cloudflare!Value' = w.content
    BY <1>11, <2>1, TakenIsValue DEF Cloudflare!LateWrite
  <2>3. w.content \in Cloudflare!Delayed
    BY DEF Cloudflare!Delayed
  <2>4. late' \in {late, late \ {w}}
    BY <1>11 DEF Cloudflare!LateWrite
  <2>5. Cloudflare!Delayed' \in {Cloudflare!Delayed, Cloudflare!Delayed \ {w.content}}
    <3>1. CASE \E v \in late' : v.content = w.content
      BY <2>4, <3>1 DEF Cloudflare!Delayed
    <3>2. CASE ~\E v \in late' : v.content = w.content
      BY <2>4, <3>2 DEF Cloudflare!Delayed
    <3> QED
      BY <3>1, <3>2
  <2>6. Abstract!Arrive(w.content)
    BY <1>11, <2>2, <2>3, <2>5 DEF Cloudflare!LateWrite, Abstract!Arrive
  <2> QED
    BY <2>1, <2>6 DEF Abstract!SNext
<1>12. CASE UNCHANGED <<step, wanted, outcome, late, cloudflareVars>>
  BY <1>0, <1>1, <1>12 DEF cloudflareVars, Abstract!svars
<1> QED
  BY <1>2, <1>3, <1>4, <1>5, <1>6, <1>7, <1>8, <1>9, <1>10, <1>11, <1>12
  DEF Cloudflare!CNext, Cloudflare!Answered

LEMMA Rfc2136Implements ==
  ASSUME Rfc2136Inv, provider = "rfc2136", provider' = provider,
         [Rfc2136!UNext]_<<step, wanted, outcome, late, rfc2136Vars>>
  PROVE  Abstract!SNext \/ UNCHANGED Abstract!svars
<1> USE DEF Rfc2136!Call
<1>0. UNCHANGED rrset => UNCHANGED Rfc2136!Value
  BY DEF Rfc2136!Value
<1>1. ASSUME NEW addr \in Addr, Rfc2136!SetRecord(addr) PROVE Abstract!SNext
  <2>1. Abstract!Begin(addr)
    BY <1>0, <1>1 DEF Rfc2136!SetRecord, Abstract!Begin
  <2> QED
    BY <2>1 DEF Abstract!SNext
<1>2. CASE Rfc2136!FindCorrect
  <2>1. wanted \in Addr /\ rrset = {wanted} /\ UNCHANGED <<rrset, late, wanted, outcome>>
    BY <1>2 DEF Rfc2136!FindCorrect, Rfc2136Inv
  <2>2. Rfc2136!Value = wanted
    BY <2>1, OneMember
  <2>3. Abstract!Take
    BY <1>0, <1>2, <2>1, <2>2 DEF Rfc2136!FindCorrect, Abstract!Take
  <2> QED
    BY <2>3 DEF Abstract!SNext
<1>3. CASE Rfc2136!SendUpdate
  BY <1>0, <1>3 DEF Rfc2136!SendUpdate, Abstract!svars
<1>4. CASE Rfc2136!ReturnOk
  <2>1. Abstract!Ok
    BY <1>0, <1>4 DEF Rfc2136!ReturnOk, Rfc2136!Return, Abstract!Ok, Abstract!End
  <2> QED
    BY <2>1 DEF Abstract!SNext
<1>5. CASE Rfc2136!Refused
  <2>1. Abstract!Refuse
    BY <1>0, <1>5 DEF Rfc2136!Refused, Rfc2136!Return, Abstract!Refuse, Abstract!End
  <2> QED
    BY <2>1 DEF Abstract!SNext
<1>6. CASE Rfc2136!Unknown
  <2>1. CASE step \in {"correct", "updated"} \/ (step = "update" /\ Rfc2136!Served)
    <3>1. Abstract!GiveUp
      BY <1>0, <1>6, <2>1 DEF Rfc2136!Unknown, Rfc2136!Return, Abstract!GiveUp, Abstract!End
    <3> QED
      BY <3>1 DEF Abstract!SNext
  <2>2. CASE step = "query" \/ (step = "update" /\ ~Rfc2136!Served)
    <3>1. Abstract!Refuse
      BY <1>0, <1>6, <2>2 DEF Rfc2136!Unknown, Rfc2136!Return, Abstract!Refuse, Abstract!End
    <3> QED
      BY <3>1 DEF Abstract!SNext
  <2> QED
    BY <1>6, <2>1, <2>2 DEF Rfc2136!Unknown, Rfc2136Inv
<1>7. CASE Rfc2136!ServerUpdates
  <2>1. wanted \in Addr /\ rrset' = {wanted} /\ UNCHANGED <<late, wanted, outcome>>
    BY <1>7 DEF Rfc2136!ServerUpdates, Rfc2136Inv
  <2>2. Rfc2136!Value' = wanted
    BY <2>1, OneMemberNext
  <2>3. Abstract!Take
    BY <1>7, <2>1, <2>2 DEF Rfc2136!ServerUpdates, Abstract!Take
  <2> QED
    BY <2>3 DEF Abstract!SNext
<1>8. ASSUME NEW addr \in late, Rfc2136!LateUpdate(addr) PROVE Abstract!SNext
  <2>1. addr \in Addr /\ rrset' = {addr}
    BY <1>8 DEF Rfc2136!LateUpdate, Rfc2136Inv
  <2>2. Rfc2136!Value' = addr
    BY <2>1, OneMemberNext
  <2>3. Abstract!Arrive(addr)
    BY <1>8, <2>2 DEF Rfc2136!LateUpdate, Abstract!Arrive
  <2> QED
    BY <2>1, <2>3 DEF Abstract!SNext
<1>9. CASE UNCHANGED <<step, wanted, outcome, late, rfc2136Vars>>
  BY <1>0, <1>9 DEF rfc2136Vars, Abstract!svars
<1> QED
  BY <1>1, <1>2, <1>3, <1>4, <1>5, <1>6, <1>7, <1>8, <1>9 DEF Rfc2136!UNext, Rfc2136!Answered

LEMMA StepImplements ==
  UpdaterInv /\ [Next]_allVars =>
    [DOMAIN records' \subseteq {1} => Abstract!SNext]_(Abstract!svars)
  BY StepsOfProvider, CloudflareImplements, Rfc2136Implements

LEMMA StartImplements == Init => Abstract!SInit
  BY CloudflareBegins, Rfc2136Begins DEF Init

(* set_record of either provider is the call the update cycle takes it     *)
(* for, as long as there is no second record, whatever addresses, zones    *)
(* and bounds there are.                                                   *)
THEOREM EitherProviderImplements == Spec => ImplementsSetRecordCall
  BY UpdaterInvariant, StartImplements, StepImplements, PTL DEF Spec, ImplementsSetRecordCall

(* No POST is ever given up on, or the provider is one that sends none.    *)
NoLatePosts == provider = "rfc2136" \/ MaxLost = 0

(* Then there is no second record.                                         *)
OneRecord == DOMAIN records \subseteq {1}

LEMMA OneRecordWithoutLatePosts == UpdaterInv /\ NoLatePosts => OneRecord
<1>1. ASSUME CloudflareInv, MaxLost = 0 PROVE OneRecord
  <2>1. PICK n \in Nat : Numbered(n)
    BY <1>1 DEF CloudflareInv
  <2>2. lost = 0 /\ Cardinality(Pending) \in Nat
    BY <1>1, FS_CardinalityType DEF CloudflareInv
  <2>3. n <= 1 /\ DOMAIN records = 1..n
    BY <2>1, <2>2 DEF Numbered
  <2> QED
    BY <2>3 DEF OneRecord
<1>2. ASSUME records = <<>> PROVE OneRecord
  BY <1>2 DEF OneRecord
<1> QED
  BY <1>1, <1>2 DEF UpdaterInv, NoLatePosts

(* What is left of the condition of EitherProviderImplements: at a name    *)
(* server there is none, and at Cloudflare the POSTs must be answered; the *)
(* PATCHes may be given up on and arrive when they like.                   *)
THEOREM AnsweredPostsImplement == Spec /\ NoLatePosts => Abstract!SSpec
<1>1. UpdaterInv /\ NoLatePosts /\ [Next]_allVars => NoLatePosts'
  BY StepsOfProvider DEF NoLatePosts
<1>2. UpdaterInv /\ [Next]_allVars /\ OneRecord' => [Abstract!SNext]_(Abstract!svars)
  BY StepImplements DEF OneRecord
<1> QED
  BY <1>1, <1>2, InvStart, InvStep, OneRecordWithoutLatePosts, StartImplements, PTL
  DEF Spec, Abstract!SSpec
=============================================================================
