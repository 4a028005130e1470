------------------------------ MODULE Accounts ------------------------------
(***************************************************************************)
(* The users table and the handlers over it: the default admin made at     *)
(* start, login and its tokens, creating users, changing a password and    *)
(* the three steps of two-factor authentication (setup, verify, disable).  *)
(*                                                                         *)
(* Each SQL statement is a step.  ChangePassword, Verify and Disable read  *)
(* the row, check it, and write in a second statement outside any          *)
(* transaction, so the steps of other requests come in between.  A TOTP    *)
(* code stands for the secret it was computed from; a password stands for  *)
(* its hash.  The caller of a protected handler holds a token: tokens are  *)
(* not kept by the server, they carry the role and last until they expire, *)
(* across restarts too.                                                    *)
(***************************************************************************)
EXTENDS Naturals, FiniteSets

CONSTANTS
  Users,            (* usernames, a user's id stands and falls with its name *)
  Admin,            (* the username InitAdmin gives the default admin      *)
  Passwords,
  DefaultPassword,  (* the password InitAdmin gives it                     *)
  Requests,         (* requests that may be under way at a time            *)
  MaxSecret         (* bound on the secrets generated                      *)

ASSUME AdminAssumption == Admin \in Users /\ DefaultPassword \in Passwords
ASSUME MaxSecretAssumption == MaxSecret \in Nat

Roles == {"admin", "user"}
NoSecret == 0
Secrets == 1 .. MaxSecret
Codes == {NoSecret} \cup Secrets   \* of the empty key and of the secrets generated

VARIABLES
  users,       (* the rows: username -> [password, role, secret, enabled]  *)
  lastSecret,  (* the secrets generated so far are 1 .. lastSecret         *)
  request,     (* of each request: idle, or the write it still has to do   *)
  boot,        (* "count" and "insert" in InitAdmin, then "up"             *)
  tokens       (* tokens issued and not expired: [user, role]              *)

(* History, read by the properties only. *)
VARIABLES
  confirmed,   (* of each user, the secrets a correct code was shown for   *)
  overlapped,  (* users whose secret was replaced or cleared while a Verify
                  of theirs was between its two statements                 *)
  renewed      (* users with two-factor authentication on whose secret
                  Setup replaced, with no code shown for it since          *)

table       == <<users, lastSecret>>
hist        == <<confirmed, overlapped, renewed>>
accountVars == <<table, request, boot, tokens, hist>>

Idle == [pc |-> "idle"]

AccountsInit ==
  /\ users = [u \in {} |-> <<>>]
  /\ lastSecret = 0
  /\ request = [r \in Requests |-> Idle]
  /\ boot = "count"
  /\ tokens = {}
  /\ confirmed = [u \in Users |-> {}]
  /\ overlapped = {}
  /\ renewed = {}

NewUser(p, role) == [password |-> p, role |-> role, secret |-> NoSecret, enabled |-> FALSE]

WithUser(u, row) == [v \in DOMAIN users \cup {u} |-> IF v = u THEN row ELSE users[v]]
-----------------------------------------------------------------------------
(* Start of the process.                                                   *)

(* The count sees an admin, or fails: the server starts without inserting. *)
InitAdminSkip ==
  /\ boot = "count"
  /\ boot' = "up"
  /\ UNCHANGED <<table, request, tokens, hist>>

InitAdminCount ==
  /\ boot = "count"
  /\ \A u \in DOMAIN users : users[u].role # "admin"
  /\ boot' = "insert"
  /\ UNCHANGED <<table, request, tokens, hist>>

(* A bug: the default admin gets the default role of the column.           *)
InitAdminAsUser ==
  /\ boot = "insert"
  /\ boot' = "up"
  /\ \/ /\ Admin \notin DOMAIN users
        /\ users' = WithUser(Admin, NewUser(DefaultPassword, "user"))
     \/ UNCHANGED users
  /\ UNCHANGED <<lastSecret, request, tokens, hist>>

(* The INSERT is refused when the username is taken, and may fail; the error
   is a warning. *)
InitAdminInsert ==
  /\ boot = "insert"
  /\ boot' = "up"
  /\ \/ /\ Admin \notin DOMAIN users
        /\ users' = WithUser(Admin, NewUser(DefaultPassword, "admin"))
     \/ UNCHANGED users
  /\ UNCHANGED <<lastSecret, request, tokens, hist>>

(* The process dies and starts again: requests under way are lost between
   their statements, rows and tokens are not. *)
Restart ==
  /\ boot' = "count"
  /\ request' = [r \in Requests |-> Idle]
  /\ UNCHANGED <<table, tokens, hist>>
-----------------------------------------------------------------------------
(* Login, its tokens, and user creation.                                   *)

(* totp.Validate, which accepts the code of the empty key when the column is
   empty. *)
Validate(code, secret) == code = secret

(* Without a code while one is required, or with a wrong one, the answer
   carries no token. *)
Login(u, p, code) ==
  /\ boot = "up"
  /\ u \in DOMAIN users
  /\ p = users[u].password
  /\ users[u].enabled => Validate(code, users[u].secret)
  /\ tokens' = tokens \cup {[user |-> u, role |-> users[u].role]}
  /\ UNCHANGED <<table, request, boot, hist>>

Expire(t) ==
  /\ tokens' = tokens \ {t}
  /\ UNCHANGED <<table, request, boot, hist>>

GivenRole(role) == role              \* a bug: an absent role is stored

DefaultRole(role) == IF role = "" THEN "user" ELSE role

(* A bug: an account that is there is made over.                           *)
CreateOrReplace(t, u, p, role) ==
  /\ boot = "up"
  /\ t.role = "admin"
  /\ users' = WithUser(u, NewUser(p, DefaultRole(role)))
  /\ UNCHANGED <<lastSecret, request, boot, tokens, hist>>

(* POST /users, for admins; a username that is taken is refused.           *)
CreateUser(t, u, p, role) ==
  /\ boot = "up"
  /\ t.role = "admin"
  /\ u \notin DOMAIN users
  /\ users' = WithUser(u, NewUser(p, DefaultRole(role)))
  /\ UNCHANGED <<lastSecret, request, boot, tokens, hist>>
-----------------------------------------------------------------------------
(* The handlers of a user over the user's own row.  A request that reads the
   row is accepted when its checks pass, and then has its write to do. *)

Accept(r, u, write) ==
  /\ boot = "up"
  /\ request[r] = Idle
  /\ u \in DOMAIN users
  /\ request' = [request EXCEPT ![r] = write]
  /\ UNCHANGED <<table, boot, tokens>>

Write(r, u, row) ==
  /\ users' = [users EXCEPT ![u] = row]
  /\ request' = [request EXCEPT ![r] = Idle]
  /\ UNCHANGED <<lastSecret, boot, tokens>>

Verifying(u) == \E r \in Requests : request[r].pc = "enable" /\ request[r].user = u

(* The new secret is in force at once if two-factor authentication is on.  *)
Setup(u) ==
  /\ boot = "up"
  /\ u \in DOMAIN users
  /\ lastSecret < MaxSecret
  /\ lastSecret' = lastSecret + 1
  /\ users' = [users EXCEPT ![u].secret = lastSecret']
  /\ overlapped' = IF Verifying(u) THEN overlapped \cup {u} ELSE overlapped
  /\ renewed' = IF users[u].enabled THEN renewed \cup {u} ELSE renewed
  /\ UNCHANGED <<request, boot, tokens, confirmed>>

VerifyRead(r, u, code) ==
  /\ Accept(r, u, [pc |-> "enable", user |-> u])
  /\ users[u].secret # NoSecret
  /\ Validate(code, users[u].secret)
  /\ confirmed' = [confirmed EXCEPT ![u] = @ \cup {code}]
  /\ renewed' = renewed \ {u}
  /\ UNCHANGED overlapped

VerifyEnable(r) ==
  LET u == request[r].user IN
  /\ request[r].pc = "enable"
  /\ Write(r, u, [users[u] EXCEPT !.enabled = TRUE])
  /\ UNCHANGED hist

DisableRead(r, u, p, code) ==
  /\ Accept(r, u, [pc |-> "disable", user |-> u])
  /\ p = users[u].password
  /\ Validate(code, users[u].secret)
  /\ UNCHANGED hist

Kept(row) == [row EXCEPT !.secret = NoSecret]    \* a bug: the flag stays

Disabled(row) == [row EXCEPT !.enabled = FALSE, !.secret = NoSecret]

DisableWrite(r) ==
  LET u == request[r].user IN
  /\ request[r].pc = "disable"
  /\ Write(r, u, Disabled(users[u]))
  /\ overlapped' = IF Verifying(u) THEN overlapped \cup {u} ELSE overlapped \ {u}
  /\ renewed' = renewed \ {u}
  /\ UNCHANGED confirmed

ChangePasswordRead(r, u, old, new) ==
  /\ Accept(r, u, [pc |-> "change", user |-> u, password |-> new])
  /\ old = users[u].password
  /\ UNCHANGED hist

ChangePasswordWrite(r) ==
  LET u == request[r].user IN
  /\ request[r].pc = "change"
  /\ Write(r, u, [users[u] EXCEPT !.password = request[r].password])
  /\ UNCHANGED hist

(* The second statement fails: the row is as it was.                       *)
WriteFail(r) ==
  /\ request[r] # Idle
  /\ request' = [request EXCEPT ![r] = Idle]
  /\ UNCHANGED <<table, boot, tokens, hist>>
-----------------------------------------------------------------------------
Start == InitAdminSkip \/ InitAdminCount \/ InitAdminInsert \/ Restart

Session ==
  \/ \E u \in Users, p \in Passwords, code \in Codes : Login(u, p, code)
  \/ \E t \in tokens :
       \/ Expire(t)
       \/ \E u \in Users, p \in Passwords, role \in Roles \cup {""} :
            CreateUser(t, u, p, role)

(* JWTAuth: the user is the one of the token.                              *)
OwnRow ==
  \E t \in tokens :
    \/ Setup(t.user)
    \/ \E r \in Requests :
         \/ \E code \in Codes :
              \/ VerifyRead(r, t.user, code)
              \/ \E p \in Passwords : DisableRead(r, t.user, p, code)
         \/ \E old, new \in Passwords : ChangePasswordRead(r, t.user, old, new)

SecondStatement ==
  \E r \in Requests :
    VerifyEnable(r) \/ DisableWrite(r) \/ ChangePasswordWrite(r) \/ WriteFail(r)

AccountsNext == Start \/ Session \/ OwnRow \/ SecondStatement

AccountsSpec == AccountsInit /\ [][AccountsNext]_accountVars
-----------------------------------------------------------------------------
(* Properties.                                                             *)

Writes ==
  {Idle} \cup [pc : {"enable", "disable"}, user : DOMAIN users]
         \cup [pc : {"change"}, user : DOMAIN users, password : Passwords]

(* Rows, secrets and tokens are of their types, and a request under way is
   that of a user there is. *)
AccountsTypeOK ==
  /\ DOMAIN users \subseteq Users
  /\ \A u \in DOMAIN users :
       users[u] \in [password : Passwords, role : Roles,
                     secret : 0 .. lastSecret, enabled : BOOLEAN]
  /\ lastSecret \in 0 .. MaxSecret
  /\ request \in [Requests -> Writes]
  /\ boot \in {"count", "insert", "up"}
  /\ tokens \subseteq [user : DOMAIN users, role : Roles]
  /\ confirmed \in [Users -> SUBSET Secrets]
  /\ overlapped \subseteq DOMAIN users
  /\ renewed \subseteq DOMAIN users

(* The secret a login of u needs a code of was confirmed by one.           *)
SecretConfirmed(u) == users[u].enabled => users[u].secret \in confirmed[u]

(* Two-factor authentication that is on asks for codes of a secret whose code
   the user has shown, as long as no Setup or Disable fell between the two
   statements of a Verify and Setup was not used while it was on; restarts and
   failed writes do not matter. *)
EnabledIsConfirmed ==
  \A u \in DOMAIN users \ (overlapped \cup renewed) : SecretConfirmed(u)

(* "Disable disables 2FA after verifying the current TOTP code and password"
   (handler/totp.go:95): two-factor authentication is not on for a user who
   has no secret.  A Verify that had read the row when Disable wrote it turns
   it on again. *)
DisableDisables == \A u \in DOMAIN users : users[u].enabled => users[u].secret # NoSecret

(* InitAdmin looks for a role and inserts a username: whatever happened before
   this start, the username it is about to insert is free. *)
InitAdminFindsNameFree == boot = "insert" => Admin \notin DOMAIN users

(* A token carries the role of its user from the login on; it never says
   another role than the table does. *)
TokensAreCurrent == \A t \in tokens : users[t.user].role = t.role
=============================================================================
