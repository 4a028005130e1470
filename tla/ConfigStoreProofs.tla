------------------------- MODULE ConfigStoreProofs -------------------------
(***************************************************************************)
(* Safety of ConfigStore for any names, addresses, verifications and       *)
(* numbers of rows.                                                        *)
(*                                                                         *)
(* StoreInv is inductive.  VerifyBehind and the first part of OutOfService *)
(* say that what a verification or an update holds of a domain is an id    *)
(* the sequence has given, so the next id it gives is a stranger to them.  *)
(* NamesDiffer is why a verification takes a host out, and nothing else,   *)
(* which the refinement of ServedConfig needs.                             *)
(***************************************************************************)
EXTENDS ConfigStore, TLAPS

(* A Verify under way holds the id of a domain that was there. *)
VerifyBehind ==
  \A v \in Verifies :
    verify[v].pc = "lookup" => verify[v].domain \in 1 .. lastId["domains"]

(* Out of service and not put back: the domain is gone, or not active. *)
OutOfService ==
  /\ disabled \subseteq 1 .. lastId["domains"]
  /\ \A d \in disabled \cap DOMAIN domains : domains[d].status # "active"

(* The UNIQUE of the column. *)
NamesDiffer ==
  \A d, e \in DOMAIN domains : domains[d].name = domains[e].name => d = e

StoreInv ==
  /\ StoreTypeOK
  /\ NamesDiffer
  /\ NoOrphans
  /\ VerifyBehind
  /\ VerifyHitsItsDomain
  /\ OutOfService
  /\ PushedIsCurrent
-----------------------------------------------------------------------------
(* The steps of the module, rules and certificates taken together. *)
LEMMA StepKinds ==
  ASSUME [StoreNext]_storeVars
  PROVE  \/ \E n \in Names : CreateDomain(n)
         \/ \E d \in DomainIds, st \in Statuses \cup {Absent} : UpdateDomain(d, st)
         \/ \E d \in DomainIds : DeleteDomain(d)
         \/ \E d \in DomainIds, a \in Addrs, p \in Priorities : CreateOrigin(d, a, p)
         \/ \E o \in DOMAIN origins, a \in Addrs \cup {Absent}, p \in Priorities :
              UpdateOrigin(o, a, p)
         \/ \E o \in DOMAIN origins : DeleteOrigin(o)
         \/ \E t \in Attachments, d \in DomainIds : Attach(t, d)
         \/ \E t \in Attachments : \E i \in DOMAIN attached[t] : Detach(t, i)
         \/ \E v \in Verifies, d \in DomainIds : VerifyRead(v, d)
         \/ \E v \in Verifies : VerifyMismatch(v)
         \/ \E v \in Verifies : VerifyMark(v)
         \/ Load
         \/ LoadFail
         \/ Restart
         \/ UNCHANGED storeVars
BY DEF StoreNext, DomainNext, OriginNext, AttachmentNext, VerifyNext, Attachments,
       CreateCacheRule, DeleteCacheRule, UploadCertificate, DeleteCertificate

(* After a statement that took effect, heard of or not. *)
LEMMA Told ==
  ASSUME StoreTypeOK, TellEdges
  PROVE  /\ pending' \in 0 .. MaxPending
         /\ missed' \subseteq {"error", "cut", "verified"}
         /\ UNCHANGED pushed
<1>1. pending \in 0 .. MaxPending /\ missed \subseteq {"error", "cut", "verified"}
  BY DEF StoreTypeOK
<1>2. CASE NotifyConfigChange
  BY <1>1, <1>2, MaxPendingAssumption DEF NotifyConfigChange
<1>3. CASE ReplyLost
  BY <1>1, <1>3 DEF ReplyLost
<1>4. QED
  BY <1>2, <1>3 DEF TellEdges

(* What a load returns are rows. *)
LEMMA LoadedRows ==
  ASSUME StoreTypeOK
  PROVE  LoadDomainConfigs \subseteq Rows
<1>1. SUFFICES ASSUME NEW r \in LoadDomainConfigs PROVE r \in Rows
  OBVIOUS
<1>2. PICK o \in DOMAIN origins :
        /\ origins[o].domain \in DOMAIN domains
        /\ r = [origin |-> o, host |-> domains[origins[o].domain].name,
                addr |-> origins[o].addr, priority |-> origins[o].priority]
  BY DEF LoadDomainConfigs
<1>3. o \in Nat
  <2>1. o \in 1 .. lastId["origins"] /\ lastId["origins"] \in Nat
    BY <1>2 DEF StoreTypeOK, Tables
  <2>2. QED
    BY <2>1
<1>4. domains[origins[o].domain].name \in Names
  BY <1>2 DEF StoreTypeOK
<1>5. origins[o].addr \in Addrs /\ origins[o].priority \in Priorities
  BY DEF StoreTypeOK
<1>6. QED
  BY <1>2, <1>3, <1>4, <1>5 DEF Rows

(* Every step preserves the types. *)
LEMMA TypeStep ==
  ASSUME StoreTypeOK, [StoreNext]_storeVars
  PROVE  StoreTypeOK'
<1>1. CASE \E n \in Names : CreateDomain(n)
  BY <1>1, Told, MaxIdAssumption
     DEF CreateDomain, TakeId, NextId, With, push, Tables, StoreTypeOK, Statuses
<1>2. CASE \E d \in DomainIds, st \in Statuses \cup {Absent} : UpdateDomain(d, st)
  BY <1>2, Told DEF UpdateDomain, Coalesce, StoreTypeOK
<1>3. CASE \E d \in DomainIds : DeleteDomain(d)
  BY <1>3, Told DEF DeleteDomain, Without, Restrict, StoreTypeOK
<1>4. CASE \E d \in DomainIds, a \in Addrs, p \in Priorities : CreateOrigin(d, a, p)
  BY <1>4, Told, MaxIdAssumption
     DEF CreateOrigin, TakeId, NextId, With, push, Tables, StoreTypeOK
<1>5. CASE \E o \in DOMAIN origins, a \in Addrs \cup {Absent}, p \in Priorities :
             UpdateOrigin(o, a, p)
  <2>1. PICK o \in DOMAIN origins, a \in Addrs \cup {Absent}, p \in Priorities :
              UpdateOrigin(o, a, p)
    BY <1>5
  <2>2. origins[o] \in [domain : DomainIds, addr : Addrs, priority : Priorities]
    BY DEF StoreTypeOK
  <2>3. Coalesce(a, origins[o].addr) \in Addrs
    BY <2>2 DEF Coalesce
  <2>4. /\ DOMAIN origins' = DOMAIN origins
        /\ \A i \in DOMAIN origins \ {o} : origins'[i] = origins[i]
    BY <2>1 DEF UpdateOrigin
  <2>5. origins'[o] = [origins[o] EXCEPT !.addr = Coalesce(a, @), !.priority = p]
    BY <2>1 DEF UpdateOrigin
  <2>6. origins'[o] \in [domain : DomainIds, addr : Addrs, priority : Priorities]
    BY <2>2, <2>3, <2>5
  <2>7. UNCHANGED <<domains, attached, lastId, verify, disabled>> /\ TellEdges
    BY <2>1 DEF UpdateOrigin
  <2>8. /\ pending' \in 0 .. MaxPending /\ UNCHANGED pushed
        /\ missed' \subseteq {"error", "cut", "verified"}
    BY <2>7, Told
  <2>9. QED
    BY <2>4, <2>6, <2>7, <2>8 DEF StoreTypeOK
<1>6. CASE \E o \in DOMAIN origins : DeleteOrigin(o)
  BY <1>6, Told DEF DeleteOrigin, Without, Restrict, StoreTypeOK
<1>7. CASE \E t \in Attachments, d \in DomainIds : Attach(t, d)
  BY <1>7, MaxIdAssumption DEF Attach, TakeId, NextId, With, push, Tables, StoreTypeOK
<1>8. CASE \E t \in Attachments : \E i \in DOMAIN attached[t] : Detach(t, i)
  BY <1>8 DEF Detach, Without, Restrict, push, StoreTypeOK
<1>9. CASE \E v \in Verifies, d \in DomainIds : VerifyRead(v, d)
  BY <1>9 DEF VerifyRead, tables, push, StoreTypeOK
<1>10. CASE \E v \in Verifies : VerifyMismatch(v)
  <2>1. verify' \in [Verifies -> {None} \cup [pc : {"lookup"}, domain : DomainIds, name : Names]]
    BY <1>10 DEF VerifyMismatch, StoreTypeOK
  <2>2. QED
    BY <1>10, <2>1 DEF VerifyMismatch, tables, push, StoreTypeOK
<1>11. CASE \E v \in Verifies : VerifyMark(v)
  <2>1. verify' \in [Verifies -> {None} \cup [pc : {"lookup"}, domain : DomainIds, name : Names]]
    BY <1>11 DEF VerifyMark, StoreTypeOK
  <2>2. /\ DOMAIN domains' = DOMAIN domains
        /\ \A d \in DOMAIN domains : domains'[d] \in [name : Names, status : Statuses]
    BY <1>11 DEF VerifyMark, StatusVerified, StoreTypeOK, Statuses
  <2>3. missed' \subseteq {"error", "cut", "verified"}
    BY <1>11 DEF VerifyMark, StoreTypeOK
  <2>4. UNCHANGED <<origins, attached, lastId, pending, pushed, disabled>>
    BY <1>11 DEF VerifyMark
  <2>5. QED
    BY <2>1, <2>2, <2>3, <2>4 DEF StoreTypeOK
<1>12. CASE Load
  <2>1. pushed' \subseteq Rows
    BY <1>12, LoadedRows DEF Load, CutShort
  <2>2. missed' \subseteq {"error", "cut", "verified"}
    BY <1>12 DEF Load
  <2>3. pending' \in 0 .. MaxPending
    BY <1>12, MaxPendingAssumption DEF Load, StoreTypeOK
  <2>4. UNCHANGED <<domains, origins, attached, lastId, verify, disabled>>
    BY <1>12 DEF Load, tables
  <2>5. QED
    BY <2>1, <2>2, <2>3, <2>4 DEF StoreTypeOK
<1>13. CASE LoadFail
  BY <1>13, MaxPendingAssumption DEF LoadFail, tables, StoreTypeOK
<1>14. CASE UNCHANGED storeVars
  BY <1>14 DEF storeVars, tables, push, StoreTypeOK
<1>15. CASE Restart
  BY <1>15, MaxPendingAssumption DEF Restart, tables, None, StoreTypeOK
<1>16. QED
  BY <1>1, <1>2, <1>3, <1>4, <1>5, <1>6, <1>7, <1>8, <1>9, <1>10, <1>11, <1>12, <1>13,
     <1>14, <1>15, StepKinds

(* Rows are attached to domains that are there, and go with them. *)
LEMMA OrphansStep ==
  ASSUME StoreTypeOK, NoOrphans, [StoreNext]_storeVars
  PROVE  NoOrphans'
<1>1. CASE \E n \in Names : CreateDomain(n)
  BY <1>1 DEF CreateDomain, With, NoOrphans
<1>2. CASE \E d \in DomainIds, st \in Statuses \cup {Absent} : UpdateDomain(d, st)
  BY <1>2 DEF UpdateDomain, NoOrphans
<1>3. CASE \E d \in DomainIds : DeleteDomain(d)
  BY <1>3 DEF DeleteDomain, Without, Restrict, Cascade, Attached, NoOrphans
<1>4. CASE \E d \in DomainIds, a \in Addrs, p \in Priorities : CreateOrigin(d, a, p)
  BY <1>4 DEF CreateOrigin, With, NoOrphans
<1>5. CASE \E o \in DOMAIN origins, a \in Addrs \cup {Absent}, p \in Priorities :
             UpdateOrigin(o, a, p)
  BY <1>5 DEF UpdateOrigin, NoOrphans
<1>6. CASE \E o \in DOMAIN origins : DeleteOrigin(o)
  BY <1>6 DEF DeleteOrigin, Without, Restrict, NoOrphans
<1>7. CASE \E t \in Attachments, d \in DomainIds : Attach(t, d)
  BY <1>7 DEF Attach, With, NoOrphans
<1>8. CASE \E t \in Attachments : \E i \in DOMAIN attached[t] : Detach(t, i)
  BY <1>8 DEF Detach, Without, Restrict, NoOrphans
<1>9. CASE \E v \in Verifies, d \in DomainIds : VerifyRead(v, d)
  BY <1>9 DEF VerifyRead, tables, NoOrphans
<1>10. CASE \E v \in Verifies : VerifyMismatch(v)
  BY <1>10 DEF VerifyMismatch, tables, NoOrphans
<1>11. CASE \E v \in Verifies : VerifyMark(v)
  BY <1>11 DEF VerifyMark, NoOrphans
<1>12. CASE Load
  BY <1>12 DEF Load, tables, NoOrphans
<1>13. CASE LoadFail
  BY <1>13 DEF LoadFail, tables, NoOrphans
<1>14. CASE UNCHANGED storeVars
  BY <1>14 DEF storeVars, tables, NoOrphans
<1>15. CASE Restart
  BY <1>15 DEF Restart, tables, NoOrphans
<1>16. QED
  BY <1>1, <1>2, <1>3, <1>4, <1>5, <1>6, <1>7, <1>8, <1>9, <1>10, <1>11, <1>12, <1>13,
     <1>14, <1>15, StepKinds

(* Ids held by verifications stay behind the sequence. *)
LEMMA BehindStep ==
  ASSUME StoreTypeOK, VerifyBehind, [StoreNext]_storeVars
  PROVE  VerifyBehind'
<1>1. CASE \E n \in Names : CreateDomain(n)
  BY <1>1 DEF CreateDomain, TakeId, NextId, StoreTypeOK, VerifyBehind
<1>2. CASE \E d \in DomainIds, st \in Statuses \cup {Absent} : UpdateDomain(d, st)
  BY <1>2 DEF UpdateDomain, VerifyBehind
<1>3. CASE \E d \in DomainIds : DeleteDomain(d)
  BY <1>3 DEF DeleteDomain, VerifyBehind
<1>4. CASE \E d \in DomainIds, a \in Addrs, p \in Priorities : CreateOrigin(d, a, p)
  BY <1>4 DEF CreateOrigin, TakeId, VerifyBehind
<1>5. CASE \E o \in DOMAIN origins, a \in Addrs \cup {Absent}, p \in Priorities :
             UpdateOrigin(o, a, p)
  BY <1>5 DEF UpdateOrigin, VerifyBehind
<1>6. CASE \E o \in DOMAIN origins : DeleteOrigin(o)
  BY <1>6 DEF DeleteOrigin, VerifyBehind
<1>7. CASE \E t \in Attachments, d \in DomainIds : Attach(t, d)
  BY <1>7 DEF Attach, TakeId, NextId, StoreTypeOK, VerifyBehind
<1>8. CASE \E t \in Attachments : \E i \in DOMAIN attached[t] : Detach(t, i)
  BY <1>8 DEF Detach, VerifyBehind
<1>9. CASE \E v \in Verifies, d \in DomainIds : VerifyRead(v, d)
  BY <1>9 DEF VerifyRead, StoreTypeOK, VerifyBehind
<1>10. CASE \E v \in Verifies : VerifyMismatch(v)
  BY <1>10 DEF VerifyMismatch, None, VerifyBehind
<1>11. CASE \E v \in Verifies : VerifyMark(v)
  BY <1>11 DEF VerifyMark, None, VerifyBehind
<1>12. CASE Load
  BY <1>12 DEF Load, VerifyBehind
<1>13. CASE LoadFail
  BY <1>13 DEF LoadFail, VerifyBehind
<1>14. CASE UNCHANGED storeVars
  BY <1>14 DEF storeVars, VerifyBehind
<1>15. CASE Restart
  BY <1>15 DEF Restart, None, VerifyBehind
<1>16. QED
  BY <1>1, <1>2, <1>3, <1>4, <1>5, <1>6, <1>7, <1>8, <1>9, <1>10, <1>11, <1>12, <1>13,
     <1>14, <1>15, StepKinds

(* A domain keeps its name and its id is not given again. *)
LEMMA HitsStep ==
  ASSUME StoreTypeOK, VerifyBehind, VerifyHitsItsDomain, [StoreNext]_storeVars
  PROVE  VerifyHitsItsDomain'
<1>1. CASE \E n \in Names : CreateDomain(n)
  BY <1>1
     DEF CreateDomain, NextId, With, Tables, StoreTypeOK, VerifyBehind,
         VerifyHitsItsDomain
<1>2. CASE \E d \in DomainIds, st \in Statuses \cup {Absent} : UpdateDomain(d, st)
  BY <1>2 DEF UpdateDomain, VerifyHitsItsDomain
<1>3. CASE \E d \in DomainIds : DeleteDomain(d)
  BY <1>3 DEF DeleteDomain, Without, Restrict, VerifyHitsItsDomain
<1>4. CASE \E d \in DomainIds, a \in Addrs, p \in Priorities : CreateOrigin(d, a, p)
  BY <1>4 DEF CreateOrigin, VerifyHitsItsDomain
<1>5. CASE \E o \in DOMAIN origins, a \in Addrs \cup {Absent}, p \in Priorities :
             UpdateOrigin(o, a, p)
  BY <1>5 DEF UpdateOrigin, VerifyHitsItsDomain
<1>6. CASE \E o \in DOMAIN origins : DeleteOrigin(o)
  BY <1>6 DEF DeleteOrigin, VerifyHitsItsDomain
<1>7. CASE \E t \in Attachments, d \in DomainIds : Attach(t, d)
  BY <1>7 DEF Attach, VerifyHitsItsDomain
<1>8. CASE \E t \in Attachments : \E i \in DOMAIN attached[t] : Detach(t, i)
  BY <1>8 DEF Detach, VerifyHitsItsDomain
<1>9. CASE \E v \in Verifies, d \in DomainIds : VerifyRead(v, d)
  BY <1>9 DEF VerifyRead, tables, VerifyHitsItsDomain
<1>10. CASE \E v \in Verifies : VerifyMismatch(v)
  BY <1>10 DEF VerifyMismatch, tables, None, VerifyHitsItsDomain
<1>11. CASE \E v \in Verifies : VerifyMark(v)
  BY <1>11 DEF VerifyMark, None, StoreTypeOK, VerifyHitsItsDomain
<1>12. CASE Load
  BY <1>12 DEF Load, tables, VerifyHitsItsDomain
<1>13. CASE LoadFail
  BY <1>13 DEF LoadFail, tables, VerifyHitsItsDomain
<1>14. CASE UNCHANGED storeVars
  BY <1>14 DEF storeVars, tables, VerifyHitsItsDomain
<1>15. CASE Restart
  BY <1>15 DEF Restart, tables, None, VerifyHitsItsDomain
<1>16. QED
  BY <1>1, <1>2, <1>3, <1>4, <1>5, <1>6, <1>7, <1>8, <1>9, <1>10, <1>11, <1>12, <1>13,
     <1>14, <1>15, StepKinds

(* Only an update puts a domain back in service. *)
LEMMA ServiceStep ==
  ASSUME StoreTypeOK, OutOfService, [StoreNext]_storeVars
  PROVE  OutOfService'
<1>1. CASE \E n \in Names : CreateDomain(n)
  BY <1>1 DEF CreateDomain, TakeId, NextId, With, Tables, StoreTypeOK, OutOfService
<1>2. CASE \E d \in DomainIds, st \in Statuses \cup {Absent} : UpdateDomain(d, st)
  BY <1>2 DEF UpdateDomain, Coalesce, StoreTypeOK, OutOfService
<1>3. CASE \E d \in DomainIds : DeleteDomain(d)
  BY <1>3 DEF DeleteDomain, Without, Restrict, OutOfService
<1>4. CASE \E d \in DomainIds, a \in Addrs, p \in Priorities : CreateOrigin(d, a, p)
  BY <1>4 DEF CreateOrigin, TakeId, OutOfService
<1>5. CASE \E o \in DOMAIN origins, a \in Addrs \cup {Absent}, p \in Priorities :
             UpdateOrigin(o, a, p)
  BY <1>5 DEF UpdateOrigin, OutOfService
<1>6. CASE \E o \in DOMAIN origins : DeleteOrigin(o)
  BY <1>6 DEF DeleteOrigin, OutOfService
<1>7. CASE \E t \in Attachments, d \in DomainIds : Attach(t, d)
  BY <1>7 DEF Attach, TakeId, NextId, StoreTypeOK, OutOfService
<1>8. CASE \E t \in Attachments : \E i \in DOMAIN attached[t] : Detach(t, i)
  BY <1>8 DEF Detach, OutOfService
<1>9. CASE \E v \in Verifies, d \in DomainIds : VerifyRead(v, d)
  BY <1>9 DEF VerifyRead, tables, OutOfService
<1>10. CASE \E v \in Verifies : VerifyMismatch(v)
  BY <1>10 DEF VerifyMismatch, tables, OutOfService
<1>11. CASE \E v \in Verifies : VerifyMark(v)
  BY <1>11 DEF VerifyMark, StatusVerified, StoreTypeOK, OutOfService
<1>12. CASE Load
  BY <1>12 DEF Load, tables, OutOfService
<1>13. CASE LoadFail
  BY <1>13 DEF LoadFail, tables, OutOfService
<1>14. CASE UNCHANGED storeVars
  BY <1>14 DEF storeVars, tables, OutOfService
<1>15. CASE Restart
  BY <1>15 DEF Restart, tables, OutOfService
<1>16. QED
  BY <1>1, <1>2, <1>3, <1>4, <1>5, <1>6, <1>7, <1>8, <1>9, <1>10, <1>11, <1>12, <1>13,
     <1>14, <1>15, StepKinds

(* A name is given to one domain, and kept. *)
LEMMA NamesStep ==
  ASSUME StoreTypeOK, NamesDiffer, [StoreNext]_storeVars
  PROVE  NamesDiffer'
<1>1. CASE \E n \in Names : CreateDomain(n)
  BY <1>1 DEF CreateDomain, With, NamesDiffer
<1>2. CASE \E d \in DomainIds, st \in Statuses \cup {Absent} : UpdateDomain(d, st)
  BY <1>2 DEF UpdateDomain, StoreTypeOK, NamesDiffer
<1>3. CASE \E d \in DomainIds : DeleteDomain(d)
  BY <1>3 DEF DeleteDomain, Without, Restrict, NamesDiffer
<1>4. CASE \E v \in Verifies : VerifyMark(v)
  BY <1>4 DEF VerifyMark, StoreTypeOK, NamesDiffer
<1>5. CASE UNCHANGED domains
  BY <1>5 DEF NamesDiffer
<1>6. QED
  BY <1>1, <1>2, <1>3, <1>4, <1>5, StepKinds
     DEF CreateOrigin, UpdateOrigin, DeleteOrigin, Attach, Detach, VerifyRead,
         VerifyMismatch, Load, LoadFail, Restart, storeVars, tables

(* What changes the configuration leaves a notification, or a mark that the
   edges may have missed it. *)
LEMMA ToldIsCurrent ==
  ASSUME StoreTypeOK, PushedIsCurrent, TellEdges
  PROVE  PushedIsCurrent'
<1>1. CASE NotifyConfigChange
  <2>1. pending' # 0
    BY <1>1 DEF NotifyConfigChange, StoreTypeOK
  <2>2. QED
    BY <2>1 DEF PushedIsCurrent
<1>2. CASE ReplyLost
  <2>1. "error" \in missed'
    BY <1>2 DEF ReplyLost
  <2>2. missed' # {} /\ ~(missed' \subseteq {"cut"})
    BY <2>1
  <2>3. QED
    BY <2>2 DEF PushedIsCurrent
<1>3. QED
  BY <1>1, <1>2 DEF TellEdges

LEMMA CurrentStep ==
  ASSUME StoreTypeOK, PushedIsCurrent, [StoreNext]_storeVars
  PROVE  PushedIsCurrent'
<1>1. CASE TellEdges
  BY <1>1, ToldIsCurrent
<1>2. CASE UNCHANGED <<domains, origins, push>>
  BY <1>2 DEF push, PushedIsCurrent, LoadDomainConfigs
<1>3. CASE \E v \in Verifies : VerifyMark(v)
  <2>1. CASE "verified" \in missed'
    <3>1. missed' # {} /\ ~(missed' \subseteq {"cut"})
      BY <2>1
    <3>2. QED
      BY <3>1 DEF PushedIsCurrent
  <2>2. CASE UNCHANGED <<domains, missed>>
    <3>1. UNCHANGED <<origins, pending, pushed>>
      BY <1>3 DEF VerifyMark
    <3>2. QED
      BY <1>2, <2>2, <3>1 DEF push
  <2>3. QED
    BY <1>3, <2>1, <2>2 DEF VerifyMark
<1>4. CASE Load
  <2>1. LoadDomainConfigs' = LoadDomainConfigs
    BY <1>4 DEF Load, tables, LoadDomainConfigs
  <2>2. pushed' \subseteq LoadDomainConfigs
    BY <1>4 DEF Load, CutShort
  <2>3. missed' = {} => pushed' = LoadDomainConfigs
    BY <1>4 DEF Load
  <2>4. QED
    BY <2>1, <2>2, <2>3 DEF PushedIsCurrent
<1>5. CASE LoadFail \/ Restart
  <2>1. "error" \in missed'
    BY <1>5 DEF LoadFail, Restart
  <2>2. missed' # {} /\ ~(missed' \subseteq {"cut"})
    BY <2>1
  <2>3. QED
    BY <2>2 DEF PushedIsCurrent
<1>6. ASSUME NEW n \in Names, CreateDomain(n)
      PROVE  TellEdges \/ UNCHANGED <<domains, origins, push>>
  BY <1>6 DEF CreateDomain
<1>7. ASSUME NEW d \in DomainIds, NEW a \in Addrs, NEW p \in Priorities,
             CreateOrigin(d, a, p)
      PROVE  TellEdges \/ UNCHANGED <<domains, origins, push>>
  BY <1>7 DEF CreateOrigin
<1>8. QED
  BY <1>1, <1>2, <1>3, <1>4, <1>5, <1>6, <1>7, StepKinds
     DEF UpdateDomain, DeleteDomain, UpdateOrigin, DeleteOrigin, Attach, Detach,
         VerifyRead, VerifyMismatch, storeVars, tables

-----------------------------------------------------------------------------
(* Empty tables satisfy the invariant. *)
LEMMA StoreInvInit == StoreInit => StoreInv
<1>1. SUFFICES ASSUME StoreInit
               PROVE  StoreInv
  OBVIOUS
<1>2. DOMAIN domains = {} /\ DOMAIN origins = {} /\ pushed = {}
  BY <1>1 DEF StoreInit
<1>3. StoreTypeOK
  <2>1. /\ lastId \in [Tables -> Nat]
        /\ \A t \in Tables : lastId[t] =< MaxId[t]
    BY <1>1, MaxIdAssumption DEF StoreInit
  <2>2. DOMAIN attached = Attachments /\ \A t \in Attachments : DOMAIN attached[t] = {}
    BY <1>1 DEF StoreInit
  <2>3. verify \in [Verifies -> {None}]
    BY <1>1 DEF StoreInit
  <2>4. pending \in 0 .. MaxPending
    BY <1>1, MaxPendingAssumption DEF StoreInit
  <2>5. missed = {} /\ disabled = {}
    BY <1>1 DEF StoreInit
  <2>6. QED
    BY <1>2, <2>1, <2>2, <2>3, <2>4, <2>5 DEF StoreTypeOK
<1>4. NoOrphans /\ OutOfService /\ NamesDiffer
  BY <1>1, <1>2 DEF StoreInit, NoOrphans, OutOfService, NamesDiffer
<1>5. VerifyBehind /\ VerifyHitsItsDomain
  BY <1>1 DEF StoreInit, VerifyBehind, VerifyHitsItsDomain, None
<1>6. PushedIsCurrent
  BY <1>1, <1>2 DEF PushedIsCurrent, LoadDomainConfigs
<1>7. QED
  BY <1>3, <1>4, <1>5, <1>6 DEF StoreInv

(* StoreInv holds in every state of every behaviour. *)
THEOREM StoreInductive == StoreSpec => []StoreInv
<1>1. StoreInv /\ [StoreNext]_storeVars => StoreInv'
  BY TypeStep, OrphansStep, BehindStep, HitsStep, ServiceStep, NamesStep, CurrentStep
     DEF StoreInv
<1>2. QED
  BY StoreInvInit, <1>1, PTL DEF StoreSpec

(* Type correctness: ids are those the sequences gave, for any tables. *)
THEOREM StoreTypeCorrect == StoreSpec => []StoreTypeOK
<1>1. StoreInv => StoreTypeOK
  BY DEF StoreInv
<1>2. QED
  BY StoreInductive, <1>1, PTL

(* The edges are told: at rest, the configuration pushed last is that of the
   tables, for every request of domain.go and origin.go, if no load failed or
   was cut short, no reply was lost, no verification marked a domain and the
   process was not started again since it was loaded; and it is a part of it if
   a load was cut short and nothing else is amiss. *)
THEOREM EdgesAreTold == StoreSpec => []PushedIsCurrent
<1>1. StoreInv => PushedIsCurrent
  BY DEF StoreInv
<1>2. QED
  BY StoreInductive, <1>1, PTL

(* The cascades of the schema leave nothing of a deleted domain, whatever is
   attached while it goes. *)
THEOREM NothingOrphaned == StoreSpec => []NoOrphans
<1>1. StoreInv => NoOrphans
  BY DEF StoreInv
<1>2. QED
  BY StoreInductive, <1>1, PTL

(* The UPDATE of Verify goes by id, and that is enough: it never marks another
   domain than the one it looked up. *)
THEOREM VerifyMarksItsOwn == StoreSpec => []VerifyHitsItsDomain
<1>1. StoreInv => VerifyHitsItsDomain
  BY DEF StoreInv
<1>2. QED
  BY StoreInductive, <1>1, PTL

(* A domain taken out of service is in no configuration before an update puts
   it back: a late verification does not. *)
THEOREM DisabledStaysOut == StoreSpec => []DisabledNotServed
<1>1. StoreInv => DisabledNotServed
  BY DEF StoreInv, OutOfService, DisabledNotServed, LoadDomainConfigs
<1>2. QED
  BY StoreInductive, <1>1, PTL
-----------------------------------------------------------------------------
(* The refinement of ServedConfig.                                         *)

(* What is served, row by row. *)
LEMMA ServedRows ==
  \A r : r \in LoadDomainConfigs <=>
          \E o \in DOMAIN origins :
            /\ origins[o].domain \in DOMAIN domains
            /\ domains[origins[o].domain].status = "active"
            /\ r = [origin |-> o, host |-> domains[origins[o].domain].name,
                    addr |-> origins[o].addr, priority |-> origins[o].priority]
BY DEF LoadDomainConfigs

(* A request about domain d, named n before and after as far as it is there,
   changes no row of another host. *)
LEMMA OneHost ==
  ASSUME NEW d, NEW n,
         d \in DOMAIN domains => domains[d].name = n,
         d \in DOMAIN domains' => domains'[d].name = n,
         \A e \in DOMAIN domains : e # d => e \in DOMAIN domains' /\ domains'[e] = domains[e],
         \A e \in DOMAIN domains' : e # d => e \in DOMAIN domains /\ domains[e] = domains'[e],
         \A o \in DOMAIN origins :
           origins[o].domain # d => o \in DOMAIN origins' /\ origins'[o] = origins[o],
         \A o \in DOMAIN origins' :
           origins'[o].domain # d => o \in DOMAIN origins /\ origins[o] = origins'[o]
  PROVE  Served!Alter(n)
<1>1. ASSUME NEW r \in LoadDomainConfigs, r.host # n
      PROVE  r \in LoadDomainConfigs'
  <2>1. PICK o \in DOMAIN origins :
          /\ origins[o].domain \in DOMAIN domains
          /\ domains[origins[o].domain].status = "active"
          /\ r = [origin |-> o, host |-> domains[origins[o].domain].name,
                  addr |-> origins[o].addr, priority |-> origins[o].priority]
    BY ServedRows
  <2>2. origins[o].domain # d
    BY <1>1, <2>1
  <2>3. /\ o \in DOMAIN origins' /\ origins'[o] = origins[o]
        /\ origins[o].domain \in DOMAIN domains'
        /\ domains'[origins[o].domain] = domains[origins[o].domain]
    BY <2>1, <2>2
  <2>4. QED
    BY <2>1, <2>3 DEF LoadDomainConfigs
<1>2. ASSUME NEW r \in LoadDomainConfigs', r.host # n
      PROVE  r \in LoadDomainConfigs
  <2>1. PICK o \in DOMAIN origins' :
          /\ origins'[o].domain \in DOMAIN domains'
          /\ domains'[origins'[o].domain].status = "active"
          /\ r = [origin |-> o, host |-> domains'[origins'[o].domain].name,
                  addr |-> origins'[o].addr, priority |-> origins'[o].priority]
    BY DEF LoadDomainConfigs
  <2>2. origins'[o].domain # d
    BY <1>2, <2>1
  <2>3. /\ o \in DOMAIN origins /\ origins[o] = origins'[o]
        /\ origins'[o].domain \in DOMAIN domains
        /\ domains[origins'[o].domain] = domains'[origins'[o].domain]
    BY <2>1, <2>2
  <2>4. QED
    BY <2>1, <2>3 DEF LoadDomainConfigs
<1>3. {r \in LoadDomainConfigs' : r.host # n} = {r \in LoadDomainConfigs : r.host # n}
  BY <1>1, <1>2
<1>4. QED
  BY <1>3 DEF Served!Alter, Served!But

(* Such a request is announced, or its reply is lost. *)
LEMMA ToldOfHost ==
  ASSUME NEW n \in Names, Served!Alter(n), TellEdges
  PROVE  Served!ServedNext
<1>1. CASE NotifyConfigChange
  <2>1. Served!Announce(n)
    BY <1>1 DEF NotifyConfigChange, Served!Announce
  <2>2. QED
    BY <2>1 DEF Served!ServedNext
<1>2. CASE ReplyLost
  <2>1. Served!Unheard(n)
    BY <1>2 DEF ReplyLost, Served!Unheard
  <2>2. QED
    BY <2>1 DEF Served!ServedNext
<1>3. QED
  BY <1>1, <1>2 DEF TellEdges

(* A request the edges need not hear of. *)
LEMMA Unseen ==
  ASSUME UNCHANGED <<domains, origins, push>>
  PROVE  UNCHANGED Served!servedVars
BY DEF Served!servedVars, LoadDomainConfigs, push

(* A domain that is marked leaves the configuration with all its origins, and
   with no other domain's: its name is its own. *)
LEMMA MarkTakesOut ==
  ASSUME StoreInv, NEW d \in DOMAIN domains, UNCHANGED origins,
         domains' = [domains EXCEPT ![d].status = "verified"]
  PROVE  LoadDomainConfigs' = Served!But(LoadDomainConfigs, domains[d].name)
<1>1. /\ DOMAIN domains' = DOMAIN domains
      /\ \A e \in DOMAIN domains \ {d} : domains'[e] = domains[e]
      /\ domains'[d].status = "verified"
  BY DEF StoreInv, StoreTypeOK
<1>2. ASSUME NEW r \in LoadDomainConfigs'
      PROVE  r \in LoadDomainConfigs /\ r.host # domains[d].name
  <2>1. PICK o \in DOMAIN origins :
          /\ origins[o].domain \in DOMAIN domains'
          /\ domains'[origins[o].domain].status = "active"
          /\ r = [origin |-> o, host |-> domains'[origins[o].domain].name,
                  addr |-> origins[o].addr, priority |-> origins[o].priority]
    BY DEF LoadDomainConfigs
  <2>2. origins[o].domain # d
    BY <1>1, <2>1
  <2>3. /\ origins[o].domain \in DOMAIN domains
        /\ domains'[origins[o].domain] = domains[origins[o].domain]
    BY <1>1, <2>1, <2>2
  <2>4. domains[origins[o].domain].name # domains[d].name
    BY <2>2, <2>3 DEF StoreInv, NamesDiffer
  <2>5. QED
    BY <2>1, <2>3, <2>4, ServedRows
<1>3. ASSUME NEW r \in LoadDomainConfigs, r.host # domains[d].name
      PROVE  r \in LoadDomainConfigs'
  <2>1. PICK o \in DOMAIN origins :
          /\ origins[o].domain \in DOMAIN domains
          /\ domains[origins[o].domain].status = "active"
          /\ r = [origin |-> o, host |-> domains[origins[o].domain].name,
                  addr |-> origins[o].addr, priority |-> origins[o].priority]
    BY ServedRows
  <2>2. origins[o].domain # d
    BY <1>3, <2>1
  <2>3. /\ origins[o].domain \in DOMAIN domains'
        /\ domains'[origins[o].domain] = domains[origins[o].domain]
    BY <1>1, <2>1, <2>2
  <2>4. QED
    BY <2>1, <2>3 DEF LoadDomainConfigs
<1>4. LoadDomainConfigs' = {r \in LoadDomainConfigs : r.host # domains[d].name}
  BY <1>2, <1>3
<1>5. QED
  BY <1>4 DEF Served!But

(* Every request is a step of ServedConfig or one it does not see. *)
LEMMA ServedStep ==
  ASSUME StoreInv, [StoreNext]_storeVars
  PROVE  [Served!ServedNext]_(Served!servedVars)
<1>a. /\ \A d \in DOMAIN domains : domains[d].name \in Names
      /\ \A o \in DOMAIN origins : origins[o].domain \in DOMAIN domains
      /\ NextId("domains") \notin DOMAIN domains /\ NextId("origins") \notin DOMAIN origins
  BY DEF StoreInv, StoreTypeOK, NoOrphans, NextId, Tables
<1>1. CASE \E n \in Names : CreateDomain(n)
  <2>1. PICK n \in Names : CreateDomain(n)
    BY <1>1
  <2>2. CASE UNCHANGED <<domains, origins, push>>
    BY <2>2, Unseen
  <2>3. CASE /\ domains' = With(domains, NextId("domains"), [name |-> n, status |-> "active"])
             /\ TellEdges
    <3>1. /\ DOMAIN domains' = DOMAIN domains \cup {NextId("domains")}
          /\ domains'[NextId("domains")].name = n
          /\ \A e \in DOMAIN domains : domains'[e] = domains[e]
      BY <1>a, <2>3 DEF With
    <3>2. UNCHANGED origins
      BY <2>1 DEF CreateDomain
    <3>3. Served!Alter(n)
      BY <1>a, <3>1, <3>2, OneHost
    <3>4. QED
      BY <2>3, <3>3, ToldOfHost
  <2>4. QED
    BY <2>1, <2>2, <2>3 DEF CreateDomain
<1>2. CASE \E d \in DomainIds, st \in Statuses \cup {Absent} : UpdateDomain(d, st)
  <2>1. PICK d \in DomainIds, st \in Statuses \cup {Absent} : UpdateDomain(d, st)
    BY <1>2
  <2>2. /\ d \in DOMAIN domains /\ DOMAIN domains' = DOMAIN domains
        /\ domains'[d].name = domains[d].name
        /\ \A e \in DOMAIN domains \ {d} : domains'[e] = domains[e]
        /\ UNCHANGED origins /\ TellEdges
    BY <2>1 DEF UpdateDomain, StoreInv, StoreTypeOK
  <2>3. Served!Alter(domains[d].name)
    BY <2>2, OneHost
  <2>4. QED
    BY <1>a, <2>2, <2>3, ToldOfHost
<1>3. CASE \E d \in DomainIds : DeleteDomain(d)
  <2>1. PICK d \in DomainIds : DeleteDomain(d)
    BY <1>3
  <2>2. /\ d \in DOMAIN domains /\ DOMAIN domains' = DOMAIN domains \ {d}
        /\ \A e \in DOMAIN domains \ {d} : domains'[e] = domains[e]
        /\ TellEdges
    BY <2>1 DEF DeleteDomain, Without, Restrict
  <2>3. /\ DOMAIN origins' = {o \in DOMAIN origins : origins[o].domain # d}
        /\ \A o \in DOMAIN origins' : origins'[o] = origins[o]
    BY <2>1 DEF DeleteDomain, Without, Restrict
  <2>4. Served!Alter(domains[d].name)
    BY <2>2, <2>3, OneHost
  <2>5. QED
    BY <1>a, <2>2, <2>4, ToldOfHost
<1>4. CASE \E d \in DomainIds, a \in Addrs, p \in Priorities : CreateOrigin(d, a, p)
  <2>1. PICK d \in DomainIds, a \in Addrs, p \in Priorities : CreateOrigin(d, a, p)
    BY <1>4
  <2>2. CASE UNCHANGED <<domains, origins, push>>
    BY <2>2, Unseen
  <2>3. CASE /\ d \in DOMAIN domains /\ TellEdges
             /\ origins' = With(origins, NextId("origins"),
                                [domain |-> d, addr |-> a, priority |-> p])
    <3>1. /\ DOMAIN origins' = DOMAIN origins \cup {NextId("origins")}
          /\ origins'[NextId("origins")].domain = d
          /\ \A o \in DOMAIN origins : origins'[o] = origins[o]
      BY <1>a, <2>3 DEF With
    <3>2. UNCHANGED domains
      BY <2>1 DEF CreateOrigin
    <3>3. Served!Alter(domains[d].name)
      BY <3>1, <3>2, OneHost
    <3>4. QED
      BY <1>a, <2>3, <3>3, ToldOfHost
  <2>4. QED
    BY <2>1, <2>2, <2>3 DEF CreateOrigin
<1>5. CASE \E o \in DOMAIN origins, a \in Addrs \cup {Absent}, p \in Priorities :
             UpdateOrigin(o, a, p)
  <2>1. PICK o \in DOMAIN origins, a \in Addrs \cup {Absent}, p \in Priorities :
              UpdateOrigin(o, a, p)
    BY <1>5
  <2>2. /\ DOMAIN origins' = DOMAIN origins
        /\ \A i \in DOMAIN origins \ {o} : origins'[i] = origins[i]
        /\ UNCHANGED domains /\ TellEdges
    BY <2>1 DEF UpdateOrigin
  <2>3. origins'[o].domain = origins[o].domain
    <3>1. origins[o] \in [domain : DomainIds, addr : Addrs, priority : Priorities]
      BY DEF StoreInv, StoreTypeOK
    <3>2. origins'[o] = [origins[o] EXCEPT !.addr = Coalesce(a, @), !.priority = p]
      BY <2>1 DEF UpdateOrigin
    <3>3. QED
      BY <3>1, <3>2
  <2>4. Served!Alter(domains[origins[o].domain].name)
    BY <2>2, <2>3, OneHost
  <2>5. QED
    BY <1>a, <2>2, <2>4, ToldOfHost
<1>6. CASE \E o \in DOMAIN origins : DeleteOrigin(o)
  <2>1. PICK o \in DOMAIN origins : DeleteOrigin(o)
    BY <1>6
  <2>2. /\ DOMAIN origins' = DOMAIN origins \ {o}
        /\ \A i \in DOMAIN origins \ {o} : origins'[i] = origins[i]
        /\ UNCHANGED domains /\ TellEdges
    BY <2>1 DEF DeleteOrigin, Without, Restrict
  <2>3. Served!Alter(domains[origins[o].domain].name)
    BY <2>2, OneHost
  <2>4. QED
    BY <1>a, <2>2, <2>3, ToldOfHost
<1>7. CASE \/ \E t \in Attachments, d \in DomainIds : Attach(t, d)
           \/ \E t \in Attachments : \E i \in DOMAIN attached[t] : Detach(t, i)
           \/ \E v \in Verifies, d \in DomainIds : VerifyRead(v, d)
           \/ \E v \in Verifies : VerifyMismatch(v)
           \/ UNCHANGED storeVars
  <2>1. UNCHANGED <<domains, origins, push>>
    BY <1>7 DEF Attach, Detach, VerifyRead, VerifyMismatch, storeVars, tables
  <2>2. QED
    BY <2>1, Unseen
<1>8. CASE \E v \in Verifies : VerifyMark(v)
  <2>1. PICK v \in Verifies : VerifyMark(v)
    BY <1>8
  <2> DEFINE d == verify[v].domain
  <2>2. UNCHANGED <<origins, pending, pushed>>
    BY <2>1 DEF VerifyMark
  <2>3. CASE UNCHANGED <<domains, missed>>
    BY <2>2, <2>3, Unseen DEF push
  <2>4. CASE /\ d \in DOMAIN domains /\ missed' = missed \cup {"verified"}
             /\ domains' = [domains EXCEPT ![d].status = "verified"]
    <3>1. LoadDomainConfigs' = Served!But(LoadDomainConfigs, domains[d].name)
      BY <2>2, <2>4, MarkTakesOut
    <3>2. Served!TakeOut(domains[d].name)
      BY <2>2, <2>4, <3>1, Zenon DEF Served!TakeOut
    <3>3. QED
      BY <1>a, <2>4, <3>2 DEF Served!ServedNext
  <2>5. QED
    BY <2>1, <2>3, <2>4 DEF VerifyMark, StatusVerified
<1>9. CASE Load
  <2>1. /\ LoadDomainConfigs' = LoadDomainConfigs
        /\ pending > 0 /\ pending' = pending - 1
    BY <1>9 DEF Load, tables, LoadDomainConfigs
  <2>2. CASE pushed' = LoadDomainConfigs /\ missed' = {}
    BY <2>1, <2>2 DEF Served!Answer, Served!ServedNext
  <2>3. CASE pushed' \in CutShort /\ missed' = {"cut"}
    <3>1. pushed' \subseteq LoadDomainConfigs
      BY <2>3 DEF CutShort
    <3>2. QED
      BY <2>1, <2>3, <3>1 DEF Served!AnswerPart, Served!ServedNext
  <2>4. QED
    BY <1>9, <2>2, <2>3 DEF Load
<1>10. CASE LoadFail
  <2>1. LoadDomainConfigs' = LoadDomainConfigs
    BY <1>10 DEF LoadFail, tables, LoadDomainConfigs
  <2>2. QED
    BY <1>10, <2>1 DEF LoadFail, Served!Lose, Served!ServedNext
<1>11. CASE Restart
  <2>1. LoadDomainConfigs' = LoadDomainConfigs
    BY <1>11 DEF Restart, tables, LoadDomainConfigs
  <2>2. QED
    BY <1>11, <2>1 DEF Restart, Served!Restart, Served!ServedNext
<1>12. QED
  BY <1>1, <1>2, <1>3, <1>4, <1>5, <1>6, <1>7, <1>8, <1>9, <1>10, <1>11, StepKinds

(* The refinement, for any tables and requests: what the edges should get
   changes under one name at a time, by a request that is announced or whose
   reply was lost, or by a verification that takes the host out; and every
   notification is answered once, by what the tables give at that moment, by a
   part of it when the load is cut short, or not at all, as after a restart. *)
THEOREM StoreImplementsServed == StoreSpec => ImplementsServed
<1>1. StoreInit => Served!ServedInit
  BY DEF StoreInit, Served!ServedInit, LoadDomainConfigs
<1>2. StoreInv /\ [StoreNext]_storeVars => [Served!ServedNext]_(Served!servedVars)
  BY ServedStep
<1>3. QED
  BY <1>1, <1>2, StoreInductive, PTL DEF StoreSpec, ImplementsServed, Served!ServedSpec
=============================================================================
