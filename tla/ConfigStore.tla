---------------------------- MODULE ConfigStore ----------------------------
(***************************************************************************)
(* The configuration in PostgreSQL and the REST handlers that change it:   *)
(* domains, origins, cache rules and certificates, CNAME verification, and *)
(* what LoadDomainConfigs makes of the tables for the edges.               *)
(*                                                                         *)
(* Every handler runs one SQL statement, which is one step here together   *)
(* with the notifyConfigChange that follows it when it is heard to have    *)
(* succeeded; a request whose statement matches no row or is refused       *)
(* answers an error and does nothing else.  Verify is three steps: its     *)
(* SELECT, a DNS lookup of any duration, its UPDATE.  ConfigPush has the   *)
(* interleavings of the loads with the broadcasts; here a notification is  *)
(* pending until its goroutine has loaded.  Only the columns the edges see *)
(* are kept.                                                               *)
(***************************************************************************)
EXTENDS Naturals, FiniteSets, Functions

CONSTANTS
  Names,       (* domain names in requests, as numbers in collation order  *)
  Addrs,       (* origin addresses in requests                             *)
  Priorities,  (* origin priorities in requests, 0 when the field is absent *)
  Verifies,    (* invocations of Verify                                    *)
  MaxId,       (* bound on the ids of each table                           *)
  MaxAttached, (* bound on the ids of rules and certificates together      *)
  MaxPending,  (* bound on the goroutines that have yet to load            *)
  Absent       (* a field the request leaves empty                         *)

(* A domain may be given any status; these are the ones the code writes,
   and one it does not know.                                               *)
Statuses == {"active", "verified", "disabled"}
Attachments == {"cache_rules", "certificates"}
Tables == {"domains", "origins"} \cup Attachments

ASSUME NamesAssumption == Names \subseteq Nat
ASSUME PrioritiesAssumption == Priorities \subseteq Nat /\ 0 \in Priorities
ASSUME MaxIdAssumption == MaxId \in [Tables -> Nat]
ASSUME MaxAttachedAssumption == MaxAttached \in Nat
ASSUME MaxPendingAssumption == MaxPending \in Nat \ {0}
ASSUME AbsentAssumption == Absent \notin Addrs \cup Statuses

VARIABLES
  domains,   (* id -> [name, status]                                       *)
  origins,   (* id -> [domain, addr, priority]                             *)
  attached,  (* cache_rules, certificates: id -> id of the domain          *)
  lastId,    (* BIGSERIAL of each table: the last id it gave               *)
  verify,    (* each Verify: [pc, domain, name]                            *)
  pending,   (* notifications whose goroutine has not loaded yet           *)
  pushed     (* what the latest LoadDomainConfigs for a broadcast returned *)

(* History, read by the properties only. *)
VARIABLES
  missed,    (* what may have escaped the edges since a complete load      *)
  disabled   (* domains an update took out of service, and none put back   *)

tables    == <<domains, origins, attached>>
push      == <<pending, pushed, missed>>
storeVars == <<tables, lastId, verify, push, disabled>>

None == [pc |-> "idle", domain |-> 0, name |-> Absent]

StoreInit ==
  /\ domains = <<>>
  /\ origins = <<>>
  /\ attached = [t \in Attachments |-> <<>>]
  /\ lastId = [t \in Tables |-> 0]
  /\ verify = [v \in Verifies |-> None]
  /\ pending = 0
  /\ pushed = {}
  /\ missed = {}
  /\ disabled = {}
-----------------------------------------------------------------------------
(* The rows of the SELECT of LoadDomainConfigs, each with its origin's id. *)
LoadDomainConfigs ==
  LET served == {o \in DOMAIN origins :
                   /\ origins[o].domain \in DOMAIN domains
                   /\ domains[origins[o].domain].status = "active"}
  IN  {[origin |-> o, host |-> domains[origins[o].domain].name,
        addr |-> origins[o].addr, priority |-> origins[o].priority] : o \in served}

(* ORDER BY d.domain, o.priority, and how far the loop may have read when the
   connection breaks: rows.Next() is false, rows.Err() is not asked, and what
   was read is returned as if it were everything (see DomainConfigs). *)
Before(r, t) == r.host < t.host \/ (r.host = t.host /\ r.priority =< t.priority)

CutShort ==
  {read \in SUBSET LoadDomainConfigs :
     /\ read # LoadDomainConfigs
     /\ \A r \in read, t \in LoadDomainConfigs \ read : Before(r, t)}

(* A bug: an id that follows from the rows there are.                       *)
IdAfterRows(t) ==
  LET ids == CASE t = "domains" -> DOMAIN domains
               [] t = "origins" -> DOMAIN origins
               [] OTHER -> DOMAIN attached[t]
  IN  CHOOSE i \in 1 .. Cardinality(ids) + 1 : i \notin ids

(* A sequence hands out an id even to an INSERT that fails afterwards.     *)
NextId(t) == lastId[t] + 1
TakeId(t) == lastId[t] < MaxId[t] /\ lastId' = [lastId EXCEPT ![t] = NextId(t)]

(* A row more; a table less the rows that match.                           *)
With(table, id, row) == [i \in DOMAIN table \cup {id} |-> IF i = id THEN row ELSE table[i]]
Without(table, ids) == Restrict(table, DOMAIN table \ ids)

NotifyConfigChange ==
  /\ pending < MaxPending
  /\ pending' = pending + 1
  /\ UNCHANGED <<pushed, missed>>

(* The statement took effect and its reply was lost: the handler gets an
   error, which it passes on, and returns before notifyConfigChange. *)
ReplyLost ==
  /\ missed' = missed \cup {"error"}
  /\ UNCHANGED <<pending, pushed>>

(* After the statement of a handler took effect.                           *)
TellEdges == NotifyConfigChange \/ ReplyLost

Overwrite(new, old) == new           \* a bug: an absent field blanks its column

(* COALESCE(NULLIF(new, empty), old) *)
Coalesce(new, old) == IF new = Absent THEN old ELSE new

CreateDomain(n) ==
  /\ TakeId("domains")
  /\ \/ /\ \A d \in DOMAIN domains : domains[d].name # n
        /\ domains' = With(domains, NextId("domains"), [name |-> n, status |-> "active"])
        /\ TellEdges
     \/ /\ \E d \in DOMAIN domains : domains[d].name = n
        /\ UNCHANGED <<domains, push>>
  /\ UNCHANGED <<origins, attached, verify, disabled>>

(* An absent status or cname keeps its column; the edges are told anyway.  *)
UpdateDomain(d, st) ==
  /\ d \in DOMAIN domains
  /\ domains' = [domains EXCEPT ![d].status = Coalesce(st, @)]
  /\ disabled' = CASE st = Absent -> disabled
                   [] st = "active" -> disabled \ {d}
                   [] OTHER -> disabled \cup {d}
  /\ TellEdges
  /\ UNCHANGED <<origins, attached, lastId, verify>>

(* The rows that ON DELETE CASCADE removes with domain d.                  *)
Attached(t, d) == {i \in DOMAIN attached[t] : attached[t][i] = d}
NoCascade(t, d) == {}                \* a bug: a reference without ON DELETE CASCADE

Cascade(t, d) == Attached(t, d)

DeleteDomain(d) ==
  /\ d \in DOMAIN domains
  /\ domains' = Without(domains, {d})
  /\ origins' = Without(origins, {o \in DOMAIN origins : origins[o].domain = d})
  /\ attached' = [t \in Attachments |-> Without(attached[t], Cascade(t, d))]
  /\ TellEdges
  /\ UNCHANGED <<lastId, verify, disabled>>

(* The reference to the domain is checked by the database.                 *)
CreateOrigin(d, a, p) ==
  /\ TakeId("origins")
  /\ \/ /\ d \in DOMAIN domains
        /\ origins' = With(origins, NextId("origins"),
                           [domain |-> d, addr |-> a, priority |-> p])
        /\ TellEdges
     \/ /\ d \notin DOMAIN domains
        /\ UNCHANGED <<origins, push>>
  /\ UNCHANGED <<domains, attached, verify, disabled>>

(* The domain in the path of the request is not looked at, here and in the
   delete.  An absent address keeps its column, an absent priority is 0 and
   overwrites it. *)
UpdateOrigin(o, a, p) ==
  /\ o \in DOMAIN origins
  /\ origins' = [origins EXCEPT ![o].addr = Coalesce(a, @),
                                ![o].priority = p]
  /\ TellEdges
  /\ UNCHANGED <<domains, attached, lastId, verify, disabled>>

(* A bug: DELETE of an origin that tells nobody.                           *)
DeleteOriginSilently(o) ==
  /\ o \in DOMAIN origins
  /\ origins' = Without(origins, {o})
  /\ UNCHANGED push
  /\ UNCHANGED <<domains, attached, lastId, verify, disabled>>

DeleteOrigin(o) ==
  /\ o \in DOMAIN origins
  /\ origins' = Without(origins, {o})
  /\ TellEdges
  /\ UNCHANGED <<domains, attached, lastId, verify, disabled>>

(* The edges do not get these tables and are not notified.                 *)
Attach(t, d) ==
  /\ TakeId(t)
  /\ lastId["cache_rules"] + lastId["certificates"] < MaxAttached
  /\ attached' = IF d \in DOMAIN domains
                 THEN [attached EXCEPT ![t] = With(@, NextId(t), d)]
                 ELSE attached
  /\ UNCHANGED <<domains, origins, verify, push, disabled>>

Detach(t, i) ==
  /\ i \in DOMAIN attached[t]
  /\ attached' = [attached EXCEPT ![t] = Without(@, {i})]
  /\ UNCHANGED <<domains, origins, lastId, verify, push, disabled>>

CreateCacheRule(d) == Attach("cache_rules", d)
DeleteCacheRule(i) == Detach("cache_rules", i)

UploadCertificate(d) == Attach("certificates", d)
DeleteCertificate(i) == Detach("certificates", i)
-----------------------------------------------------------------------------
(* Verify.                                                                 *)

VerifyRead(v, d) ==
  /\ verify[v].pc = "idle"
  /\ d \in DOMAIN domains
  /\ verify' = [verify EXCEPT ![v] = [pc |-> "lookup", domain |-> d,
                                      name |-> domains[d].name]]
  /\ UNCHANGED <<tables, lastId, push, disabled>>

(* No answer, or another name than the domain's cname: "pending" is said to
   the caller and not stored. *)
VerifyMismatch(v) ==
  /\ verify[v].pc = "lookup"
  /\ verify' = [verify EXCEPT ![v] = None]
  /\ UNCHANGED <<tables, lastId, push, disabled>>

StatusActive(v) == "active"          \* a bug: verification puts a domain in service

StatusVerified(v) == "verified"

(* The UPDATE goes by id, its error and its row count are ignored, and nobody
   is notified although the domain leaves the configuration. *)
VerifyMark(v) ==
  LET d == verify[v].domain IN
  /\ verify[v].pc = "lookup"
  /\ verify' = [verify EXCEPT ![v] = None]
  /\ \/ /\ d \in DOMAIN domains
        /\ domains' = [domains EXCEPT ![d].status = StatusVerified(v)]
        /\ missed' = missed \cup {"verified"}
     \/ UNCHANGED <<domains, missed>>
  /\ UNCHANGED <<origins, attached, lastId, pending, pushed, disabled>>
-----------------------------------------------------------------------------
(* The goroutine of a notification.                                        *)

Load ==
  /\ pending > 0
  /\ pending' = pending - 1
  /\ \/ pushed' = LoadDomainConfigs /\ missed' = {}
     \/ pushed' \in CutShort /\ missed' = {"cut"}
  /\ UNCHANGED <<tables, lastId, verify, disabled>>

LoadFail ==
  /\ pending > 0
  /\ pending' = pending - 1
  /\ missed' = missed \cup {"error"}
  /\ UNCHANGED <<tables, lastId, verify, pushed, disabled>>

(* The process ends, in the middle of anything, and is started again: the
   tables stay, goroutines and handlers do not, nor does a notification that
   was due and had not been given. *)
Restart ==
  /\ pending' = 0
  /\ verify' = [v \in Verifies |-> None]
  /\ missed' = missed \cup {"error"}
  /\ UNCHANGED <<tables, lastId, pushed, disabled>>
-----------------------------------------------------------------------------
DomainIds == 1 .. MaxId["domains"]

DomainNext ==
  \/ \E n \in Names : CreateDomain(n)
  \/ \E d \in DomainIds : \/ \E st \in Statuses \cup {Absent} : UpdateDomain(d, st)
                          \/ DeleteDomain(d)

OriginNext ==
  \/ \E d \in DomainIds, a \in Addrs, p \in Priorities : CreateOrigin(d, a, p)
  \/ \E o \in DOMAIN origins :
       \/ \E a \in Addrs \cup {Absent}, p \in Priorities : UpdateOrigin(o, a, p)
       \/ DeleteOrigin(o)

AttachmentNext ==
  \/ \E d \in DomainIds : CreateCacheRule(d) \/ UploadCertificate(d)
  \/ \E i \in DOMAIN attached["cache_rules"] : DeleteCacheRule(i)
  \/ \E i \in DOMAIN attached["certificates"] : DeleteCertificate(i)

VerifyNext ==
  \E v \in Verifies :
    \/ \E d \in DomainIds : VerifyRead(v, d)
    \/ VerifyMismatch(v)
    \/ VerifyMark(v)

StoreNext ==
  \/ DomainNext \/ OriginNext \/ AttachmentNext \/ VerifyNext
  \/ Load \/ LoadFail \/ Restart

StoreSpec == StoreInit /\ [][StoreNext]_storeVars
-----------------------------------------------------------------------------
(* Properties.                                                             *)

Rows == [origin : Nat, host : Names, addr : Addrs, priority : Priorities]

(* Ids are those the sequences gave, and every row has its columns.        *)
StoreTypeOK ==
  /\ lastId \in [Tables -> Nat] /\ \A t \in Tables : lastId[t] =< MaxId[t]
  /\ DOMAIN domains \subseteq 1 .. lastId["domains"]
  /\ DOMAIN origins \subseteq 1 .. lastId["origins"]
  /\ \A d \in DOMAIN domains : domains[d] \in [name : Names, status : Statuses]
  /\ \A o \in DOMAIN origins :
       origins[o] \in [domain : DomainIds, addr : Addrs, priority : Priorities]
  /\ DOMAIN attached = Attachments
  /\ \A t \in Attachments : /\ DOMAIN attached[t] \subseteq 1 .. lastId[t]
                            /\ \A i \in DOMAIN attached[t] : attached[t][i] \in DomainIds
  /\ verify \in [Verifies -> {None} \cup [pc : {"lookup"}, domain : DomainIds, name : Names]]
  /\ pending \in 0 .. MaxPending
  /\ pushed \subseteq Rows
  /\ missed \subseteq {"error", "cut", "verified"}
  /\ disabled \subseteq DomainIds

(* Whatever request changes what the edges should serve, they are told: with
   no notification pending, the latest configuration loaded for a broadcast is
   that of the tables, unless since the latest complete load one failed, a
   Verify changed a status, the reply of a statement was lost or the process was
   started again.  If the only
   thing amiss is that the load was cut short, it is still a part of what the
   tables give, row for row. *)
PushedIsCurrent ==
  pending = 0 =>
    /\ missed = {} => pushed = LoadDomainConfigs
    /\ missed \subseteq {"cut"} => pushed \subseteq LoadDomainConfigs

(* "ConfigChangeFunc is called when domain/origin config changes"
   (handler/notifier.go:5): at rest, and while the database answers, the
   configuration loaded last is that of the tables.  Verify breaks it. *)
NotifiedOfEveryChange ==
  (pending = 0 /\ missed \subseteq {"verified"}) => pushed = LoadDomainConfigs

(* Nothing is left of a deleted domain, whatever was attached to it.       *)
NoOrphans ==
  /\ \A o \in DOMAIN origins : origins[o].domain \in DOMAIN domains
  /\ \A t \in Attachments : \A i \in DOMAIN attached[t] : attached[t][i] \in DOMAIN domains

(* A Verify that is under way marks, if anything, the domain whose name it
   looks up, even when that domain is deleted and created again meanwhile:
   ids are not given twice. *)
VerifyHitsItsDomain ==
  \A v \in Verifies :
    LET d == verify[v].domain
    IN  (verify[v].pc = "lookup" /\ d \in DOMAIN domains)
          => domains[d].name = verify[v].name

(* A domain that an update took out of service is not served again before an
   update puts it back, whatever verifications are under way. *)
DisabledNotServed ==
  \A r \in LoadDomainConfigs : origins[r.origin].domain \notin disabled

(* The tables and their handlers implement the configuration they serve: a
   request changes what is served under one name, and is announced unless its
   reply was lost; a verification takes one host out as a whole and never adds
   to the configuration; a load answers one notification, with what is served
   at that moment, a part of it when it is cut short, or nothing; a restart
   forgets the notifications, not the configuration. *)
Served == INSTANCE ServedConfig
            WITH Hosts <- Names, served <- LoadDomainConfigs, owed <- pending

ImplementsServed == Served!ServedSpec
=============================================================================
