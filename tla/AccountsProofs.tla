--------------------------- MODULE AccountsProofs ---------------------------
(***************************************************************************)
(* Safety of Accounts for any users, passwords and number of requests      *)
(* under way.                                                              *)
(*                                                                         *)
(* AccountsInv is inductive.  PendingConfirmed is what a Verify between    *)
(* its two statements may rely on, AdminStays why the count of InitAdmin   *)
(* speaks of the name too: a user called Admin was made by InitAdmin, with *)
(* the role, or by an admin, who is still one.                             *)
(***************************************************************************)
EXTENDS Accounts, TLAPS

(* The secret a Verify under way is about to put in force was shown a code
   of, unless it was replaced meanwhile. *)
PendingConfirmed ==
  \A r \in Requests :
    (request[r].pc = "enable" /\ request[r].user \notin overlapped)
      => users[request[r].user].secret \in confirmed[request[r].user]

(* Where there is a user Admin there is an admin. *)
AdminStays ==
  Admin \in DOMAIN users => \E u \in DOMAIN users : users[u].role = "admin"

AccountsInv ==
  /\ AccountsTypeOK
  /\ TokensAreCurrent
  /\ AdminStays
  /\ InitAdminFindsNameFree
  /\ PendingConfirmed
  /\ EnabledIsConfirmed
-----------------------------------------------------------------------------
(* A row more. *)
LEMMA RowMore ==
  ASSUME NEW u, NEW row, users' = WithUser(u, row)
  PROVE  /\ DOMAIN users' = DOMAIN users \cup {u}
         /\ \A v \in DOMAIN users' : users'[v] = IF v = u THEN row ELSE users[v]
BY DEF WithUser

(* Another row in its place. *)
LEMMA RowChanged ==
  ASSUME NEW u \in DOMAIN users, NEW row, users' = [users EXCEPT ![u] = row]
  PROVE  /\ DOMAIN users' = DOMAIN users
         /\ \A v \in DOMAIN users' : users'[v] = IF v = u THEN row ELSE users[v]
OBVIOUS

(* What a request under way has to write. *)
LEMMA WriteKinds ==
  ASSUME AccountsTypeOK, NEW r \in Requests, request[r] # Idle
  PROVE  request[r].user \in DOMAIN users
BY DEF AccountsTypeOK, Writes

(* A new user has no second factor and holds no token yet. *)
LEMMA UserMore ==
  ASSUME AccountsInv, NEW u \in Users, u \notin DOMAIN users,
         NEW p \in Passwords, NEW role \in Roles,
         users' = WithUser(u, NewUser(p, role)),
         boot' = "up",
         u = Admin => role = "admin" \/ \E v \in DOMAIN users : users[v].role = "admin",
         UNCHANGED <<lastSecret, request, tokens, hist>>
  PROVE  AccountsInv'
<1>1. /\ DOMAIN users' = DOMAIN users \cup {u}
      /\ \A v \in DOMAIN users' : users'[v] = IF v = u THEN NewUser(p, role) ELSE users[v]
  BY RowMore
<1>2. /\ NewUser(p, role) \in [password : Passwords, role : Roles,
                               secret : 0 .. lastSecret, enabled : BOOLEAN]
      /\ ~NewUser(p, role).enabled /\ NewUser(p, role).role = role
  BY DEF NewUser, NoSecret, AccountsInv, AccountsTypeOK
<1>3. AccountsTypeOK'
  <2>1. /\ DOMAIN users' \subseteq Users
        /\ \A v \in DOMAIN users' :
             users'[v] \in [password : Passwords, role : Roles,
                            secret : 0 .. lastSecret', enabled : BOOLEAN]
    BY <1>1, <1>2 DEF AccountsInv, AccountsTypeOK
  <2>2. request' \in [Requests -> Writes']
    BY <1>1 DEF AccountsInv, AccountsTypeOK, Writes, Idle
  <2>3. QED
    BY <1>1, <2>1, <2>2 DEF AccountsInv, AccountsTypeOK, hist
<1>4. TokensAreCurrent'
  BY <1>1 DEF AccountsInv, AccountsTypeOK, TokensAreCurrent
<1>5. AdminStays'
  BY <1>1, <1>2 DEF AccountsInv, AdminStays
<1>6. InitAdminFindsNameFree'
  BY DEF InitAdminFindsNameFree
<1>7. PendingConfirmed'
  <2>1. SUFFICES ASSUME NEW r \in Requests, request[r].pc = "enable",
                        request[r].user \notin overlapped
                 PROVE  users'[request[r].user].secret \in confirmed[request[r].user]
    BY DEF PendingConfirmed, hist
  <2>2. request[r].user \in DOMAIN users
    BY <2>1, WriteKinds DEF AccountsInv, Idle
  <2>3. QED
    BY <1>1, <2>1, <2>2 DEF AccountsInv, PendingConfirmed
<1>8. EnabledIsConfirmed'
  BY <1>1, <1>2 DEF AccountsInv, EnabledIsConfirmed, SecretConfirmed, hist
<1>9. QED
  BY <1>3, <1>4, <1>5, <1>6, <1>7, <1>8 DEF AccountsInv
-----------------------------------------------------------------------------
(* InitAdmin, and a process that dies and starts again. *)
LEMMA StartKeeps ==
  ASSUME AccountsInv, Start
  PROVE  AccountsInv'
<1>1. CASE InitAdminSkip
  BY <1>1 DEF InitAdminSkip, table, hist, AccountsInv, AccountsTypeOK, Writes,
              TokensAreCurrent, AdminStays, InitAdminFindsNameFree,
              PendingConfirmed, EnabledIsConfirmed, SecretConfirmed
<1>2. CASE InitAdminCount
  <2>1. Admin \notin DOMAIN users
    BY <1>2 DEF InitAdminCount, AccountsInv, AdminStays
  <2>2. QED
    BY <1>2, <2>1 DEF InitAdminCount, table, hist, AccountsInv, AccountsTypeOK, Writes,
              TokensAreCurrent, AdminStays, InitAdminFindsNameFree,
              PendingConfirmed, EnabledIsConfirmed, SecretConfirmed
<1>3. CASE InitAdminInsert
  <2>1. CASE users' = WithUser(Admin, NewUser(DefaultPassword, "admin"))
    <3>1. Admin \notin DOMAIN users
      BY <1>3 DEF InitAdminInsert, AccountsInv, InitAdminFindsNameFree
    <3>2. QED
      BY <1>3, <2>1, <3>1, UserMore, AdminAssumption DEF InitAdminInsert, Roles
  <2>2. CASE UNCHANGED users
    BY <1>3, <2>2 DEF InitAdminInsert, hist, AccountsInv, AccountsTypeOK, Writes,
              TokensAreCurrent, AdminStays, InitAdminFindsNameFree,
              PendingConfirmed, EnabledIsConfirmed, SecretConfirmed
  <2>3. QED
    BY <1>3, <2>1, <2>2 DEF InitAdminInsert
<1>4. CASE Restart
  BY <1>4 DEF Restart, Idle, table, hist, AccountsInv, AccountsTypeOK, Writes,
              TokensAreCurrent, AdminStays, InitAdminFindsNameFree,
              PendingConfirmed, EnabledIsConfirmed, SecretConfirmed
<1>5. QED
  BY <1>1, <1>2, <1>3, <1>4 DEF Start

(* Logins, tokens that expire, and users an admin makes. *)
LEMMA SessionKeeps ==
  ASSUME AccountsInv, Session
  PROVE  AccountsInv'
<1>1. CASE \E u \in Users, p \in Passwords, code \in Codes : Login(u, p, code)
  BY <1>1 DEF Login, table, hist, AccountsInv, AccountsTypeOK, Writes,
              TokensAreCurrent, AdminStays, InitAdminFindsNameFree,
              PendingConfirmed, EnabledIsConfirmed, SecretConfirmed
<1>2. CASE \E t \in tokens : Expire(t)
  BY <1>2 DEF Expire, table, hist, AccountsInv, AccountsTypeOK, Writes,
              TokensAreCurrent, AdminStays, InitAdminFindsNameFree,
              PendingConfirmed, EnabledIsConfirmed, SecretConfirmed
<1>3. CASE \E t \in tokens, u \in Users, p \in Passwords, role \in Roles \cup {""} :
             CreateUser(t, u, p, role)
  <2>1. PICK t \in tokens, u \in Users, p \in Passwords, role \in Roles \cup {""} :
          CreateUser(t, u, p, role)
    BY <1>3
  <2>2. DefaultRole(role) \in Roles
    BY DEF DefaultRole, Roles
  <2>3. t.user \in DOMAIN users /\ users[t.user].role = "admin"
    BY <2>1 DEF CreateUser, AccountsInv, AccountsTypeOK, TokensAreCurrent
  <2>4. QED
    BY <2>1, <2>2, <2>3, UserMore DEF CreateUser
<1>4. QED
  BY <1>1, <1>2, <1>3 DEF Session
-----------------------------------------------------------------------------
(* A request that read its row and has its write to do, or gave it up. *)
LEMMA OnlyRequests ==
  ASSUME AccountsInv, NEW r \in Requests, NEW w \in Writes,
         request' = [request EXCEPT ![r] = w],
         w.pc = "enable" =>
           (w.user \notin overlapped => users[w.user].secret \in confirmed'[w.user]),
         \A u \in Users : confirmed[u] \subseteq confirmed'[u],
         confirmed' \in [Users -> SUBSET Secrets],
         renewed' \subseteq renewed,
         \A u \in renewed \ renewed' : SecretConfirmed(u)',
         UNCHANGED <<table, boot, tokens, overlapped>>
  PROVE  AccountsInv'
<1>1. AccountsTypeOK' /\ TokensAreCurrent' /\ AdminStays' /\ InitAdminFindsNameFree'
  BY DEF table, AccountsInv, AccountsTypeOK, Writes, TokensAreCurrent, AdminStays,
         InitAdminFindsNameFree
<1>2. PendingConfirmed'
  <2>1. SUFFICES ASSUME NEW q \in Requests, request'[q].pc = "enable",
                        request'[q].user \notin overlapped
                 PROVE  users[request'[q].user].secret \in confirmed'[request'[q].user]
    BY DEF PendingConfirmed, table
  <2>2. CASE q = r
    BY <2>1, <2>2 DEF AccountsInv, AccountsTypeOK
  <2>3. CASE q # r
    <3>1. request'[q] = request[q]
      BY <2>3 DEF AccountsInv, AccountsTypeOK
    <3>2. request[q].user \in DOMAIN users
      BY <2>1, <3>1, WriteKinds DEF AccountsInv, Idle
    <3>3. QED
      BY <2>1, <3>1, <3>2 DEF AccountsInv, AccountsTypeOK, PendingConfirmed
  <2>4. QED
    BY <2>2, <2>3
<1>3. EnabledIsConfirmed'
  BY DEF table, AccountsInv, AccountsTypeOK, EnabledIsConfirmed, SecretConfirmed
<1>4. QED
  BY <1>1, <1>2, <1>3 DEF AccountsInv

(* The handlers of a user over the user's own row. *)
LEMMA OwnRowKeeps ==
  ASSUME AccountsInv, OwnRow
  PROVE  AccountsInv'
<1>1. PICK t \in tokens :
        \/ Setup(t.user)
        \/ \E r \in Requests :
             \/ \E code \in Codes :
                  \/ VerifyRead(r, t.user, code)
                  \/ \E p \in Passwords : DisableRead(r, t.user, p, code)
             \/ \E old, new \in Passwords : ChangePasswordRead(r, t.user, old, new)
  BY DEF OwnRow
<1> DEFINE u == t.user
<1>2. u \in DOMAIN users /\ u \in Users
  BY DEF AccountsInv, AccountsTypeOK
<1>3. CASE Setup(u)
  <2> DEFINE row == [users[u] EXCEPT !.secret = lastSecret']
  <2>1. /\ lastSecret' = lastSecret + 1 /\ lastSecret' \in 0 .. MaxSecret
        /\ lastSecret \in 0 .. MaxSecret
        /\ UNCHANGED <<request, boot, tokens, confirmed>>
    BY <1>3, MaxSecretAssumption DEF Setup, AccountsInv, AccountsTypeOK
  <2>2. /\ row \in [password : Passwords, role : Roles,
                    secret : 0 .. lastSecret', enabled : BOOLEAN]
        /\ row.role = users[u].role /\ row.enabled = users[u].enabled
    BY <1>2, <2>1 DEF AccountsInv, AccountsTypeOK
  <2>3. users' = [users EXCEPT ![u] = row]
    BY <1>3 DEF Setup
  <2>4. /\ DOMAIN users' = DOMAIN users
        /\ \A v \in DOMAIN users' : users'[v] = IF v = u THEN row ELSE users[v]
    BY <1>2, <2>3, RowChanged
  <2>5. /\ overlapped' = IF Verifying(u) THEN overlapped \cup {u} ELSE overlapped
        /\ renewed' = IF users[u].enabled THEN renewed \cup {u} ELSE renewed
    BY <1>3 DEF Setup
  <2>6. AccountsTypeOK'
    <3>1. \A v \in DOMAIN users' :
            users'[v] \in [password : Passwords, role : Roles,
                           secret : 0 .. lastSecret', enabled : BOOLEAN]
      BY <2>1, <2>2, <2>4 DEF AccountsInv, AccountsTypeOK
    <3>2. request' \in [Requests -> Writes']
      BY <2>1, <2>4 DEF AccountsInv, AccountsTypeOK, Writes
    <3>3. QED
      BY <1>2, <2>1, <2>4, <2>5, <3>1, <3>2 DEF AccountsInv, AccountsTypeOK
  <2>7. TokensAreCurrent' /\ AdminStays' /\ InitAdminFindsNameFree'
    BY <2>1, <2>2, <2>4 DEF AccountsInv, AccountsTypeOK, TokensAreCurrent, AdminStays,
                            InitAdminFindsNameFree
  <2>8. PendingConfirmed'
    <3>1. SUFFICES ASSUME NEW r \in Requests, request[r].pc = "enable",
                          request[r].user \notin overlapped'
                   PROVE  users'[request[r].user].secret \in confirmed[request[r].user]
      BY <2>1 DEF PendingConfirmed
    <3>2. request[r].user \in DOMAIN users /\ request[r].user # u
      BY <2>5, <3>1, WriteKinds DEF AccountsInv, Idle, Verifying
    <3>3. QED
      BY <2>4, <2>5, <3>1, <3>2 DEF AccountsInv, PendingConfirmed
  <2>9. EnabledIsConfirmed'
    BY <2>1, <2>2, <2>4, <2>5 DEF AccountsInv, EnabledIsConfirmed, SecretConfirmed
  <2>10. QED
    BY <2>6, <2>7, <2>8, <2>9 DEF AccountsInv
<1>4. CASE \E r \in Requests, code \in Codes : VerifyRead(r, u, code)
  <2>1. PICK r \in Requests, code \in Codes : VerifyRead(r, u, code)
    BY <1>4
  <2>2. code = users[u].secret
    BY <2>1 DEF VerifyRead, Validate
  <2>3. /\ request' = [request EXCEPT ![r] = [pc |-> "enable", user |-> u]]
        /\ confirmed' = [confirmed EXCEPT ![u] = @ \cup {code}]
        /\ renewed' = renewed \ {u}
        /\ UNCHANGED <<table, boot, tokens, overlapped>>
    BY <2>1 DEF VerifyRead, Accept
  <2>4. /\ confirmed' \in [Users -> SUBSET Secrets]
        /\ users[u].secret \in confirmed'[u]
        /\ \A v \in Users : confirmed[v] \subseteq confirmed'[v]
    <3>1. code \in Secrets
      <4>1. users[u].secret # NoSecret
        BY <2>1 DEF VerifyRead
      <4>2. users[u].secret \in 0 .. lastSecret /\ lastSecret \in 0 .. MaxSecret
        BY <1>2 DEF AccountsInv, AccountsTypeOK
      <4>3. QED
        BY <2>2, <4>1, <4>2, MaxSecretAssumption DEF Secrets, NoSecret
    <3>2. QED
      BY <1>2, <2>2, <2>3, <3>1 DEF AccountsInv, AccountsTypeOK
  <2>5. [pc |-> "enable", user |-> u] \in Writes
    BY <1>2 DEF Writes
  <2>6. \A v \in renewed \ renewed' : SecretConfirmed(v)'
    BY <2>3, <2>4 DEF SecretConfirmed, table
  <2>7. QED
    BY <2>3, <2>4, <2>5, <2>6, OnlyRequests
<1>5. CASE \E r \in Requests, code \in Codes, p \in Passwords : DisableRead(r, u, p, code)
  <2>1. PICK r \in Requests, code \in Codes, p \in Passwords : DisableRead(r, u, p, code)
    BY <1>5
  <2>2. /\ request' = [request EXCEPT ![r] = [pc |-> "disable", user |-> u]]
        /\ UNCHANGED <<table, boot, tokens, hist>>
    BY <2>1 DEF DisableRead, Accept
  <2>3. [pc |-> "disable", user |-> u] \in Writes
    BY <1>2 DEF Writes
  <2>4. QED
    BY <2>2, <2>3, OnlyRequests DEF hist, AccountsInv, AccountsTypeOK
<1>6. CASE \E r \in Requests, old, new \in Passwords : ChangePasswordRead(r, u, old, new)
  <2>1. PICK r \in Requests, old \in Passwords, new \in Passwords :
          ChangePasswordRead(r, u, old, new)
    BY <1>6
  <2>2. /\ request' = [request EXCEPT ![r] = [pc |-> "change", user |-> u, password |-> new]]
        /\ UNCHANGED <<table, boot, tokens, hist>>
    BY <2>1 DEF ChangePasswordRead, Accept
  <2>3. [pc |-> "change", user |-> u, password |-> new] \in Writes
    BY <1>2 DEF Writes
  <2>4. QED
    BY <2>2, <2>3, OnlyRequests DEF hist, AccountsInv, AccountsTypeOK
<1>7. QED
  BY <1>1, <1>3, <1>4, <1>5, <1>6
-----------------------------------------------------------------------------
(* The write of a request over a row: role and type stay, and a Verify is left
   what it relies on. *)
LEMMA RowWritten ==
  ASSUME AccountsInv, NEW r \in Requests, NEW u \in DOMAIN users,
         NEW row \in [password : Passwords, role : Roles,
                      secret : 0 .. lastSecret, enabled : BOOLEAN],
         row.role = users[u].role,
         Write(r, u, row),
         confirmed' = confirmed,
         renewed' \subseteq DOMAIN users /\ renewed \subseteq renewed' \cup {u},
         overlapped' \subseteq DOMAIN users /\ overlapped \subseteq overlapped' \cup {u},
         \A q \in Requests \ {r} :
           (request[q].pc = "enable" /\ request[q].user = u /\ u \notin overlapped')
             => row.secret \in confirmed[u],
         (row.enabled /\ u \notin overlapped' \cup renewed') => row.secret \in confirmed[u]
  PROVE  AccountsInv'
<1>1. /\ users' = [users EXCEPT ![u] = row]
      /\ request' = [request EXCEPT ![r] = Idle]
      /\ UNCHANGED <<lastSecret, boot, tokens>>
  BY DEF Write
<1>2. /\ DOMAIN users' = DOMAIN users
      /\ \A v \in DOMAIN users' : users'[v] = IF v = u THEN row ELSE users[v]
  BY <1>1, RowChanged
<1>3. AccountsTypeOK'
  <2>1. request' \in [Requests -> Writes']
    BY <1>1, <1>2 DEF AccountsInv, AccountsTypeOK, Writes
  <2>2. QED
    BY <1>1, <1>2, <2>1 DEF AccountsInv, AccountsTypeOK
<1>4. TokensAreCurrent' /\ AdminStays' /\ InitAdminFindsNameFree'
  BY <1>1, <1>2 DEF AccountsInv, AccountsTypeOK, TokensAreCurrent, AdminStays,
                    InitAdminFindsNameFree
<1>5. PendingConfirmed'
  <2>1. SUFFICES ASSUME NEW q \in Requests, request'[q].pc = "enable",
                        request'[q].user \notin overlapped'
                 PROVE  users'[request'[q].user].secret \in confirmed[request'[q].user]
    BY DEF PendingConfirmed
  <2>2. q # r /\ request'[q] = request[q]
    BY <1>1, <2>1 DEF AccountsInv, AccountsTypeOK, Idle
  <2>3. request[q].user \in DOMAIN users
    BY <2>1, <2>2, WriteKinds DEF AccountsInv, Idle
  <2>4. QED
    BY <1>2, <2>1, <2>2, <2>3 DEF AccountsInv, PendingConfirmed
<1>6. EnabledIsConfirmed'
  BY <1>2 DEF AccountsInv, EnabledIsConfirmed, SecretConfirmed
<1>7. QED
  BY <1>3, <1>4, <1>5, <1>6 DEF AccountsInv

(* The second statements of Verify, Disable and ChangePassword. *)
LEMMA SecondStatementKeeps ==
  ASSUME AccountsInv, SecondStatement
  PROVE  AccountsInv'
<1>1. PICK r \in Requests :
        VerifyEnable(r) \/ DisableWrite(r) \/ ChangePasswordWrite(r) \/ WriteFail(r)
  BY DEF SecondStatement
<1> DEFINE u == request[r].user
<1>2. CASE VerifyEnable(r)
  <2> DEFINE row == [users[u] EXCEPT !.enabled = TRUE]
  <2>1. /\ request[r].pc = "enable"
        /\ Write(r, u, row)
        /\ UNCHANGED hist
    BY <1>2 DEF VerifyEnable
  <2>2. u \in DOMAIN users
    BY <2>1, WriteKinds DEF AccountsInv, Idle
  <2>3. /\ row \in [password : Passwords, role : Roles,
                    secret : 0 .. lastSecret, enabled : BOOLEAN]
        /\ row.role = users[u].role /\ row.secret = users[u].secret
    BY <2>2 DEF AccountsInv, AccountsTypeOK
  <2>4. u \notin overlapped => row.secret \in confirmed[u]
    BY <2>1, <2>3 DEF AccountsInv, PendingConfirmed
  <2>5. QED
    BY <2>1, <2>2, <2>3, <2>4, RowWritten DEF hist, AccountsInv, AccountsTypeOK
<1>3. CASE DisableWrite(r)
  <2> DEFINE row == [users[u] EXCEPT !.enabled = FALSE, !.secret = NoSecret]
  <2>1. /\ request[r].pc = "disable"
        /\ Write(r, u, row)
        /\ overlapped' = IF Verifying(u) THEN overlapped \cup {u} ELSE overlapped \ {u}
        /\ renewed' = renewed \ {u}
        /\ confirmed' = confirmed
    BY <1>3 DEF DisableWrite, Disabled
  <2>2. u \in DOMAIN users
    BY <2>1, WriteKinds DEF AccountsInv, Idle
  <2>3. /\ row \in [password : Passwords, role : Roles,
                    secret : 0 .. lastSecret, enabled : BOOLEAN]
        /\ row.role = users[u].role /\ ~row.enabled
    <3>1. NoSecret \in 0 .. lastSecret
      BY DEF AccountsInv, AccountsTypeOK, NoSecret
    <3>2. users[u] \in [password : Passwords, role : Roles,
                        secret : 0 .. lastSecret, enabled : BOOLEAN]
      BY <2>2 DEF AccountsInv, AccountsTypeOK
    <3>3. QED
      BY <3>1, <3>2
  <2>4. \A q \in Requests :
          (request[q].pc = "enable" /\ request[q].user = u) => u \in overlapped'
    BY <2>1 DEF Verifying
  <2>5. /\ renewed' \subseteq DOMAIN users /\ renewed \subseteq renewed' \cup {u}
        /\ overlapped' \subseteq DOMAIN users /\ overlapped \subseteq overlapped' \cup {u}
    BY <2>1, <2>2 DEF AccountsInv, AccountsTypeOK
  <2>6. /\ \A q \in Requests \ {r} :
             (request[q].pc = "enable" /\ request[q].user = u /\ u \notin overlapped')
               => row.secret \in confirmed[u]
        /\ (row.enabled /\ u \notin overlapped' \cup renewed') => row.secret \in confirmed[u]
    BY <2>3, <2>4
  <2> HIDE DEF row
  <2>7. QED
    BY <2>1, <2>2, <2>3, <2>5, <2>6, RowWritten
<1>4. CASE ChangePasswordWrite(r)
  <2> DEFINE row == [users[u] EXCEPT !.password = request[r].password]
  <2>1. /\ request[r].pc = "change"
        /\ Write(r, u, row)
        /\ UNCHANGED hist
    BY <1>4 DEF ChangePasswordWrite
  <2>2. u \in DOMAIN users /\ request[r].password \in Passwords
    BY <2>1 DEF AccountsInv, AccountsTypeOK, Writes, Idle
  <2>3. /\ row \in [password : Passwords, role : Roles,
                    secret : 0 .. lastSecret, enabled : BOOLEAN]
        /\ row.role = users[u].role /\ row.secret = users[u].secret
        /\ row.enabled = users[u].enabled
    BY <2>2 DEF AccountsInv, AccountsTypeOK
  <2>4. \A q \in Requests :
          (request[q].pc = "enable" /\ request[q].user = u /\ u \notin overlapped)
            => row.secret \in confirmed[u]
    BY <2>3 DEF AccountsInv, PendingConfirmed
  <2>5. (row.enabled /\ u \notin overlapped \cup renewed) => row.secret \in confirmed[u]
    BY <2>2, <2>3 DEF AccountsInv, EnabledIsConfirmed, SecretConfirmed
  <2>6. QED
    BY <2>1, <2>2, <2>3, <2>4, <2>5, RowWritten DEF hist, AccountsInv, AccountsTypeOK
<1>5. CASE WriteFail(r)
  <2>1. request' = [request EXCEPT ![r] = Idle] /\ UNCHANGED <<table, boot, tokens, hist>>
    BY <1>5 DEF WriteFail
  <2>2. Idle \in Writes /\ Idle.pc = "idle"
    BY DEF Writes, Idle
  <2>3. QED
    BY <2>1, <2>2, OnlyRequests DEF hist, AccountsInv, AccountsTypeOK
<1>6. QED
  BY <1>1, <1>2, <1>3, <1>4, <1>5
-----------------------------------------------------------------------------
(* An empty table satisfies the invariant. *)
LEMMA AccountsInvInit == AccountsInit => AccountsInv
BY MaxSecretAssumption DEF AccountsInit, Idle, AccountsInv, AccountsTypeOK, Writes,
   TokensAreCurrent, AdminStays, InitAdminFindsNameFree, PendingConfirmed,
   EnabledIsConfirmed

(* AccountsInv holds in every state of every behaviour. *)
THEOREM AccountsInductive == AccountsSpec => []AccountsInv
<1>1. AccountsInv /\ [AccountsNext]_accountVars => AccountsInv'
  <2>1. SUFFICES ASSUME AccountsInv, [AccountsNext]_accountVars
                 PROVE  AccountsInv'
    OBVIOUS
  <2>2. CASE UNCHANGED accountVars
    BY <2>1, <2>2 DEF accountVars, table, hist, AccountsInv, AccountsTypeOK, Writes,
       TokensAreCurrent, AdminStays, InitAdminFindsNameFree, PendingConfirmed,
       EnabledIsConfirmed, SecretConfirmed
  <2>3. QED
    BY <2>1, <2>2, StartKeeps, SessionKeeps, OwnRowKeeps, SecondStatementKeeps
       DEF AccountsNext
<1>2. QED
  BY AccountsInvInit, <1>1, PTL DEF AccountsSpec

(* Type correctness: a request under way is always that of a user there is. *)
THEOREM AccountsTypeCorrect == AccountsSpec => []AccountsTypeOK
<1>1. AccountsInv => AccountsTypeOK
  BY DEF AccountsInv
<1>2. QED
  BY AccountsInductive, <1>1, PTL

(* The second factor asked for at login is one the user has shown a code of,
   however Setup, Verify, Disable, failed writes and restarts interleave, but
   for the two interleavings overlapped and renewed record. *)
THEOREM SecondFactorConfirmed == AccountsSpec => []EnabledIsConfirmed
<1>1. AccountsInv => EnabledIsConfirmed
  BY DEF AccountsInv
<1>2. QED
  BY AccountsInductive, <1>1, PTL

(* InitAdmin never inserts a username that is taken, whatever earlier runs of
   the process left in the table. *)
THEOREM InitAdminSucceeds == AccountsSpec => []InitAdminFindsNameFree
<1>1. AccountsInv => InitAdminFindsNameFree
  BY DEF AccountsInv
<1>2. QED
  BY AccountsInductive, <1>1, PTL

(* JWTAuth and AdminOnly may trust the role in a token until it expires. *)
THEOREM TokensTellTheRole == AccountsSpec => []TokensAreCurrent
<1>1. AccountsInv => TokensAreCurrent
  BY DEF AccountsInv
<1>2. QED
  BY AccountsInductive, <1>1, PTL
=============================================================================
