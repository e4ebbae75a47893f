------------------------------- MODULE Users -------------------------------
(***************************************************************************)
(* Accounts and tokens: registration, login with the upgrade of an old     *)
(* password hash, refresh of access tokens, password changes and profile   *)
(* reads, called concurrently over HTTP and gRPC.                          *)
(*                                                                         *)
(* A user is its email: rows are never deleted and emails never change.  A *)
(* call reads its row in one statement and, where it writes, saves the     *)
(* whole row in a later one: there is no transaction around the two.  A    *)
(* password hash is the password and whether its bcrypt cost is below      *)
(* DefaultCost ("legacy").  Signatures are external: the tokens that       *)
(* verify are the ones that were issued and have not expired.  A version   *)
(* travels through a token as a JSON number, which a float64 holds exactly *)
(* below 2^53, far above any count of password changes.                    *)
(***************************************************************************)
EXTENDS Naturals, FiniteSets

CONSTANTS
  Calls,       \* concurrent calls; each serves one request after another
  Emails,      \* addresses that register
  Passwords,   \* passwords that pass validation
  MaxVersion,  \* bound on the token version
  MaxChanges,  \* password changes of a user that are counted
  None

ASSUME UsersAssumption ==
  /\ MaxVersion \in Nat \ {0} /\ MaxChanges \in Nat \ {0}
  /\ None \notin Emails \cup Passwords

VARIABLES
  rows,     \* the users table
  tokens,   \* tokens that verify: issued and not expired
  pc,       \* where each call is
  req,      \* its request
  copy,     \* the row it has read, as the call has changed it
  behind,   \* calls whose row another call has saved since they read it
  changes   \* history: password changes saved for each user, up to MaxChanges

table == <<rows, changes>>
vars == <<table, tokens, pc, req, copy, behind>>

Row == [password : Passwords, legacy : BOOLEAN, version : 0..MaxVersion]
\* login is history: the password changes saved when the token's session began.
Token == [type : {"access", "refresh"}, user : Emails, version : 0..MaxVersion,
          login : 0..MaxChanges]
Kinds == {"register", "login", "refresh", "change", "me"}
Request == [kind : Kinds, user : Emails, password : Passwords \cup {None},
            new : Passwords \cup {None}, version : 0..MaxVersion, login : 0..MaxChanges]

ASSUME NoneAssumption == None \notin Row \cup Request

Goto(c, step) == pc' = [pc EXCEPT ![c] = step]
Hold(c, row) == copy' = [copy EXCEPT ![c] = row]

----------------------------------------------------------------------------
(* Tokens *)

generateToken(user, type, version, login) ==
  [type |-> type, user |-> user, version |-> version, login |-> login]

\* Any change of the payload or the expiry makes the signature check fail.
ValidateToken(t) == t \in tokens

TokenVersion(t) == t.version

\* The refresh route takes refresh tokens, every other route access tokens.
expectedTokenType(kind) == IF kind = "refresh" THEN "refresh" ELSE "access"

\* The middleware: the caller is the user of a token that verifies and has
\* the expected type.
JWT(t, kind) == ValidateToken(t) /\ t.type = expectedTokenType(kind)

----------------------------------------------------------------------------
(* Requests as they pass middleware, binding and validation.  One that does *)
(* not is answered at once and leaves no trace.                             *)

Accept(c, kind, user, password, new, version, login, step) ==
  /\ pc[c] = "idle"
  /\ req' = [req EXCEPT ![c] = [kind |-> kind, user |-> user, password |-> password,
                                new |-> new, version |-> version, login |-> login]]
  /\ Goto(c, step)
  /\ UNCHANGED <<table, tokens, copy, behind>>

ReceiveRegister(c) ==
  \E u \in Emails, p \in Passwords : Accept(c, "register", u, p, None, 0, 0, "create")

ReceiveLogin(c) ==
  \E u \in Emails, p \in Passwords : Accept(c, "login", u, p, None, 0, 0, "read")

ReceiveMe(c) ==
  \E t \in tokens :
    /\ JWT(t, "me")
    /\ Accept(c, "me", t.user, None, None, 0, 0, "read")

ReceiveRefresh(c) ==
  \E t \in tokens :
    /\ JWT(t, "refresh")
    /\ Accept(c, "refresh", t.user, None, None, TokenVersion(t), t.login, "read")

ReceiveChange(c) ==
  \E t \in tokens, p, n \in Passwords :
    /\ JWT(t, "change")
    /\ Accept(c, "change", t.user, p, n, 0, 0, "read")

----------------------------------------------------------------------------
(* The service *)

\* The call is over: its reply, a success or an error, is with the client.
Reply(c) ==
  /\ Goto(c, "idle")
  /\ req' = [req EXCEPT ![c] = None]
  /\ Hold(c, None)
  /\ behind' = behind \ {c}

\* HashAndSalt always uses DefaultCost.
BeforeCreate(password) == [password |-> password, legacy |-> FALSE, version |-> 0]

CreateOver(c) ==
  /\ pc[c] = "create"
  /\ rows' = [rows EXCEPT ![req[c].user] = BeforeCreate(req[c].password)]
  /\ Reply(c)
  /\ UNCHANGED <<tokens, changes>>

\* Register: the unique index on the email refuses a second row.  An error may
\* come although the row is there.
Create(c) ==
  /\ pc[c] = "create"
  /\ \/ /\ rows[req[c].user] = None
        /\ rows' = [rows EXCEPT ![req[c].user] = BeforeCreate(req[c].password)]
     \/ UNCHANGED rows
  /\ Reply(c)
  /\ UNCHANGED <<tokens, changes>>

\* GetUserByEmail, GetUserByID: the row as it is now.
Reads(c, kind) ==
  /\ pc[c] = "read"
  /\ req[c].kind = kind
  /\ rows[req[c].user] # None
  /\ UNCHANGED <<table, tokens, req>>

\* CompareHashAndPassword
Matches(c) == rows[req[c].user].password = req[c].password

\* upgradePasswordHash: a hash of low cost is replaced and the row saved.
upgradePasswordHash(c) ==
  LET row == rows[req[c].user] IN
  /\ Hold(c, [row EXCEPT !.password = req[c].password, !.legacy = FALSE])
  /\ Goto(c, IF row.legacy THEN "save" ELSE "issue")
  /\ UNCHANGED behind

UpgradeBeforeCompare(c) == Reads(c, "login") /\ upgradePasswordHash(c)

Login(c) == Reads(c, "login") /\ Matches(c) /\ upgradePasswordHash(c)

RefreshFromClaims(c) ==
  /\ Reads(c, "refresh")
  /\ Hold(c, [rows[req[c].user] EXCEPT !.version = req[c].version])
  /\ Goto(c, "issue")
  /\ UNCHANGED behind

\* RefreshToken: a version other than the row's is revoked.
RefreshToken(c) ==
  /\ Reads(c, "refresh")
  /\ rows[req[c].user].version = req[c].version
  /\ Hold(c, rows[req[c].user])
  /\ Goto(c, "issue")
  /\ UNCHANGED behind

ChangeBumpingTwice(c) ==
  /\ Reads(c, "change")
  /\ Matches(c)
  /\ Hold(c, [password |-> req[c].new, legacy |-> FALSE,
              version |-> rows[req[c].user].version + 2])
  /\ Goto(c, "save")
  /\ UNCHANGED behind

\* ChangePassword: the new hash and the next token version.
ChangePassword(c) ==
  LET row == rows[req[c].user] IN
  /\ Reads(c, "change")
  /\ Matches(c)
  /\ row.version < MaxVersion
  /\ Hold(c, [password |-> req[c].new, legacy |-> FALSE, version |-> row.version + 1])
  /\ Goto(c, "save")
  /\ UNCHANGED behind

\* GetUserByID's profile, or an error after the read: no row, wrong password,
\* revoked token, failed statement.
AnswerFromRead(c) ==
  /\ pc[c] = "read"
  /\ Reply(c)
  /\ UNCHANGED <<table, tokens>>

\* Update saves every column of the copy.  It may fail before or after it
\* takes effect; a login goes on only if it succeeded.
Save(c) ==
  LET u == req[c].user IN
  /\ pc[c] = "save"
  /\ rows' = [rows EXCEPT ![u] = copy[c]]
  /\ changes' = IF req[c].kind = "change" /\ changes[u] < MaxChanges
                THEN [changes EXCEPT ![u] = @ + 1]
                ELSE changes
  /\ \/ /\ req[c].kind = "login"
        /\ Goto(c, "issue")
        /\ behind' = behind \cup {d \in Calls : copy[d] # None /\ req[d].user = u /\ d # c}
        /\ UNCHANGED <<req, copy>>
     \/ /\ Goto(c, "idle")
        /\ req' = [req EXCEPT ![c] = None]
        /\ Hold(c, None)
        /\ behind' = (behind \cup {d \in Calls : copy[d] # None /\ req[d].user = u}) \ {c}
  /\ UNCHANGED tokens

SaveFails(c) ==
  /\ pc[c] = "save"
  /\ Reply(c)
  /\ UNCHANGED <<table, tokens>>

\* The tokens of a login or a refresh carry the version that was read.
Issue(c) ==
  LET version == copy[c].version
      types == IF req[c].kind = "login" THEN {"access", "refresh"} ELSE {"access"}
      login == IF req[c].kind = "login" THEN changes[req[c].user] ELSE req[c].login
  IN
  /\ pc[c] = "issue"
  /\ tokens' = tokens \cup {generateToken(req[c].user, type, version, login) : type \in types}
  /\ Reply(c)
  /\ UNCHANGED table

\* exp has passed.
Expire(t) ==
  /\ t \in tokens
  /\ tokens' = tokens \ {t}
  /\ UNCHANGED <<table, pc, req, copy, behind>>

----------------------------------------------------------------------------
Init ==
  /\ rows \in [Emails -> {None} \cup {r \in Row : r.legacy /\ r.version = 0}]
  /\ tokens = {}
  /\ pc = [c \in Calls |-> "idle"]
  /\ req = [c \in Calls |-> None]
  /\ copy = [c \in Calls |-> None]
  /\ behind = {}
  /\ changes = [u \in Emails |-> 0]

Receive(c) ==
  \/ ReceiveRegister(c) \/ ReceiveLogin(c) \/ ReceiveMe(c)
  \/ ReceiveRefresh(c) \/ ReceiveChange(c)

Serve(c) ==
  \/ Create(c) \/ Login(c) \/ RefreshToken(c) \/ ChangePassword(c)
  \/ AnswerFromRead(c) \/ Save(c) \/ SaveFails(c) \/ Issue(c)

Next ==
  \/ \E c \in Calls : Receive(c) \/ Serve(c)
  \/ \E t \in tokens : Expire(t)

\* Calls end (every statement has DatabaseTimeout) and access tokens expire.
\* A refresh token may outlive everything else: thirty days.
Fairness ==
  /\ \A c \in Calls : WF_vars(Serve(c))
  /\ \A t \in Token : t.type = "access" => WF_vars(Expire(t))

Spec == Init /\ [][Next]_vars
FairSpec == Spec /\ Fairness

----------------------------------------------------------------------------
(* Properties *)

\* Every variable has its type; a call that will write or issue holds a row
\* of a user that exists.
TypeOK ==
  /\ rows \in [Emails -> Row \cup {None}]
  /\ tokens \subseteq Token
  /\ \A t \in tokens : rows[t.user] # None
  /\ pc \in [Calls -> {"idle", "create", "read", "save", "issue"}]
  /\ req \in [Calls -> Request \cup {None}]
  /\ copy \in [Calls -> Row \cup {None}]
  /\ \A c \in Calls :
       /\ pc[c] = "idle" <=> req[c] = None
       /\ pc[c] \in {"save", "issue"} <=> copy[c] # None
       /\ copy[c] # None => rows[req[c].user] # None
  /\ behind \subseteq {c \in Calls : copy[c] # None}
  /\ changes \in [Emails -> 0..MaxChanges]

\* A user's password changes only when ChangePassword saves the new one:
\* neither a registration of the same email nor the hash upgrade of a login
\* alters it.  The exception is an upgrade whose row was saved since the login
\* read it; what that one puts back is the password it was given, which was the
\* user's when it read the row.
OnlyChangeAlters ==
  [][\A u \in Emails :
       rows[u] # None =>
         /\ rows'[u] # None
         /\ rows'[u].password # rows[u].password =>
              \E c \in Calls :
                /\ pc[c] = "save" /\ req[c].user = u
                /\ \/ req[c].kind = "change" /\ rows'[u].password = req[c].new
                   \/ /\ req[c].kind = "login" /\ c \in behind
                      /\ rows'[u].password = req[c].password]_vars

\* As the documents promise it: RefreshToken never accepts a token of a session
\* that began before a password change was saved.  The code does not keep it: a
\* login that upgrades a hash, or another password change, saves the whole row
\* that it read before the change and puts the version back.
RevokedRefused ==
  [][\A c \in Calls :
       (pc[c] = "read" /\ pc'[c] = "issue" /\ req[c].kind = "refresh") =>
         req[c].login = changes[req[c].user]]_vars

Later(u, v) == rows[u] # None /\ rows[u].version > v

\* Version v of a user is over: the row has a later one, and no call is about
\* to save one that is not later.
Over(u, v) ==
  /\ Later(u, v)
  /\ \A c \in Calls : pc[c] = "save" /\ req[c].user = u => copy[c].version > v

\* A version that is over never comes back, whatever calls overlap from then
\* on: what a call saves is never behind what it read, and no registration
\* replaces a row.  RefreshToken refuses the tokens of that version for good.
RevocationLasts ==
  \A u \in Emails, v \in 0..(MaxVersion - 1) : [](Over(u, v) => []Later(u, v))

\* When a version is over, its sessions run out of access tokens for good,
\* although a refresh may have read the row before the change and issues after
\* it, and their refresh tokens may outlive everything.
SettledSessionsEnd ==
  \A u \in Emails, v \in 0..(MaxVersion - 1) :
    Over(u, v) ~> [](\A t \in tokens : t.type = "access" /\ t.user = u => t.version # v)

\* Why they hold.  Validated requests carry the passwords they need.
RequestComplete ==
  \A c \in Calls :
    /\ pc[c] = "create" => req[c].password \in Passwords
    /\ req[c] # None /\ req[c].kind = "change" => req[c].new \in Passwords

\* Only a login or a password change saves.  It saves the password of its
\* request, and what else it saves follows from the row as it is, unless the
\* row was saved since it was read.
CopyCurrent ==
  \A c \in Calls : pc[c] = "save" =>
    \/ /\ req[c].kind = "login" /\ copy[c].password = req[c].password
       /\ c \notin behind => /\ copy[c].password = rows[req[c].user].password
                             /\ copy[c].version = rows[req[c].user].version
    \/ /\ req[c].kind = "change" /\ copy[c].password = req[c].new
       /\ c \notin behind => copy[c].version = rows[req[c].user].version + 1

\* The inductive invariant.
Inv == TypeOK /\ RequestComplete /\ CopyCurrent
=============================================================================
