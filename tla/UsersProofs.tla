----------------------------- MODULE UsersProofs -----------------------------
(***************************************************************************)
(* A password changes only through ChangePassword, and a token version     *)
(* that is over never comes back, for any number of calls, users,          *)
(* passwords and versions.                                                 *)
(***************************************************************************)
EXTENDS Users, TLAPS

Places == {"idle", "create", "read", "save", "issue"}

\* What TypeOK says of the calls alone.
CallsTyped ==
  /\ pc \in [Calls -> Places]
  /\ req \in [Calls -> Request \cup {None}]
  /\ copy \in [Calls -> Row \cup {None}]
  /\ \A c \in Calls :
       /\ pc[c] = "idle" <=> req[c] = None
       /\ pc[c] \in {"save", "issue"} <=> copy[c] # None
  /\ behind \subseteq {c \in Calls : copy[c] # None}

LEMMA NoneIsNone == None \notin Row /\ None \notin Request
BY NoneAssumption

LEMMA TypeParts ==
  TypeOK <=> /\ CallsTyped
             /\ rows \in [Emails -> Row \cup {None}]
             /\ tokens \subseteq Token
             /\ \A t \in tokens : rows[t.user] # None
             /\ \A c \in Calls : copy[c] # None => rows[req[c].user] # None
             /\ changes \in [Emails -> 0..MaxChanges]
BY DEF TypeOK, CallsTyped, Places

\* The request of a call that is under way, and the row of one that has read it.
LEMMA RequestTyped ==
  ASSUME CallsTyped, NEW c \in Calls, pc[c] # "idle"
  PROVE  /\ req[c] \in Request
         /\ req[c].kind \in Kinds /\ req[c].user \in Emails
         /\ req[c].password \in Passwords \cup {None} /\ req[c].new \in Passwords \cup {None}
         /\ req[c].version \in 0..MaxVersion /\ req[c].login \in 0..MaxChanges
<1>1. req[c] \in Request
  BY DEF CallsTyped
<1> QED
  BY <1>1 DEF Request

LEMMA CopyTyped ==
  ASSUME CallsTyped, NEW c \in Calls, pc[c] \in {"save", "issue"}
  PROVE  copy[c] \in Row /\ copy[c] # None /\ copy[c].version \in 0..MaxVersion
<1>1. copy[c] \in Row
  BY DEF CallsTyped
<1> QED
  BY <1>1, NoneIsNone DEF Row

----------------------------------------------------------------------------
(* Frames: what a step does to the calls *)

LEMMA ReplyFrame ==
  ASSUME CallsTyped, NEW c \in Calls, Reply(c)
  PROVE  /\ CallsTyped'
         /\ pc'[c] = "idle" /\ copy'[c] = None
         /\ \A d \in Calls : d # c => pc'[d] = pc[d] /\ req'[d] = req[d] /\ copy'[d] = copy[d]
         /\ behind' = behind \ {c}
<1>1. /\ pc'[c] = "idle" /\ req'[c] = None /\ copy'[c] = None
      /\ \A d \in Calls : d # c => pc'[d] = pc[d] /\ req'[d] = req[d] /\ copy'[d] = copy[d]
      /\ behind' = behind \ {c}
  BY DEF Reply, Goto, Hold, CallsTyped
<1>2. /\ pc' \in [Calls -> Places] /\ req' \in [Calls -> Request \cup {None}]
      /\ copy' \in [Calls -> Row \cup {None}]
  BY DEF Reply, Goto, Hold, CallsTyped, Places
<1>3. CallsTyped'
  BY <1>1, <1>2 DEF CallsTyped
<1> QED
  BY <1>1, <1>3

LEMMA AcceptFrame ==
  ASSUME CallsTyped, NEW c \in Calls, NEW kind \in Kinds, NEW user \in Emails,
         NEW password \in Passwords \cup {None}, NEW new \in Passwords \cup {None},
         NEW version \in 0..MaxVersion, NEW login \in 0..MaxChanges,
         NEW step \in {"create", "read"},
         Accept(c, kind, user, password, new, version, login, step)
  PROVE  /\ CallsTyped'
         /\ pc[c] = "idle" /\ pc'[c] = step
         /\ req'[c].kind = kind /\ req'[c].password = password /\ req'[c].new = new
         /\ \A d \in Calls : d # c => pc'[d] = pc[d] /\ req'[d] = req[d]
         /\ UNCHANGED <<rows, changes, tokens, copy, behind>>
<1> DEFINE r == [kind |-> kind, user |-> user, password |-> password,
                 new |-> new, version |-> version, login |-> login]
<1>1. /\ r \in Request /\ r # None
      /\ r.kind = kind /\ r.password = password /\ r.new = new
  BY NoneIsNone DEF Request
<1> HIDE DEF r
<1>2. /\ pc[c] = "idle" /\ pc' = [pc EXCEPT ![c] = step] /\ req' = [req EXCEPT ![c] = r]
      /\ UNCHANGED <<rows, changes, tokens, copy, behind>>
  BY DEF Accept, Goto, table, r
<1>3. /\ pc'[c] = step /\ req'[c] = r
      /\ \A d \in Calls : d # c => pc'[d] = pc[d] /\ req'[d] = req[d]
  BY <1>2 DEF CallsTyped
<1>4. pc' \in [Calls -> Places] /\ req' \in [Calls -> Request \cup {None}]
  BY <1>1, <1>2 DEF CallsTyped, Places
<1>5. CallsTyped'
  BY <1>1, <1>2, <1>3, <1>4 DEF CallsTyped
<1> QED
  BY <1>1, <1>2, <1>3, <1>5

\* A read keeps the row in the call's copy.
LEMMA HoldFrame ==
  ASSUME CallsTyped, NEW c \in Calls, pc[c] = "read", NEW row \in Row, Hold(c, row),
         NEW step \in {"save", "issue"}, Goto(c, step), UNCHANGED <<req, behind>>
  PROVE  /\ CallsTyped'
         /\ pc'[c] = step /\ copy'[c] = row /\ c \notin behind
         /\ \A d \in Calls : d # c => pc'[d] = pc[d] /\ copy'[d] = copy[d]
<1>1. /\ pc'[c] = step /\ copy'[c] = row
      /\ \A d \in Calls : d # c => pc'[d] = pc[d] /\ copy'[d] = copy[d]
  BY DEF Goto, Hold, CallsTyped
<1>2. pc' \in [Calls -> Places] /\ copy' \in [Calls -> Row \cup {None}]
  BY DEF Goto, Hold, CallsTyped, Places
<1>3. c \notin behind
  BY DEF CallsTyped
<1>4. CallsTyped'
  BY <1>1, <1>2, NoneIsNone DEF CallsTyped
<1> QED
  BY <1>1, <1>3, <1>4

\* A request is taken.
LEMMA ReceiveFrame ==
  ASSUME TypeOK, NEW c \in Calls, Receive(c)
  PROVE  /\ CallsTyped'
         /\ pc[c] = "idle" /\ pc'[c] \in {"create", "read"}
         /\ pc'[c] = "create" => req'[c].password \in Passwords
         /\ req'[c].kind = "change" => req'[c].new \in Passwords
         /\ \A d \in Calls : d # c => pc'[d] = pc[d] /\ req'[d] = req[d]
         /\ UNCHANGED <<rows, changes, tokens, copy, behind>>
<1>0. CallsTyped /\ tokens \subseteq Token
  BY TypeParts
<1>1. \A t \in tokens : t.user \in Emails /\ t.version \in 0..MaxVersion /\ t.login \in 0..MaxChanges
  BY <1>0 DEF Token
<1>2. 0 \in 0..MaxVersion /\ 0 \in 0..MaxChanges
  BY UsersAssumption
<1>3. PICK kind \in Kinds, user \in Emails, password \in Passwords \cup {None},
           new \in Passwords \cup {None}, version \in 0..MaxVersion, login \in 0..MaxChanges,
           step \in {"create", "read"} :
        /\ Accept(c, kind, user, password, new, version, login, step)
        /\ step = "create" => password \in Passwords
        /\ kind = "change" => new \in Passwords
  <2> USE DEF Kinds
  <2>1. CASE ReceiveRegister(c)
    BY <1>2, <2>1 DEF ReceiveRegister
  <2>2. CASE ReceiveLogin(c)
    BY <1>2, <2>2 DEF ReceiveLogin
  <2>3. CASE ReceiveMe(c)
    BY <1>1, <1>2, <2>3 DEF ReceiveMe
  <2>4. CASE ReceiveRefresh(c)
    BY <1>1, <1>2, <2>4 DEF ReceiveRefresh, TokenVersion
  <2>5. CASE ReceiveChange(c)
    BY <1>1, <1>2, <2>5 DEF ReceiveChange
  <2> QED
    BY <2>1, <2>2, <2>3, <2>4, <2>5 DEF Receive
<1>4. /\ CallsTyped'
      /\ pc[c] = "idle" /\ pc'[c] = step
      /\ req'[c].kind = kind /\ req'[c].password = password /\ req'[c].new = new
      /\ \A d \in Calls : d # c => pc'[d] = pc[d] /\ req'[d] = req[d]
      /\ UNCHANGED <<rows, changes, tokens, copy, behind>>
  BY <1>0, <1>3, AcceptFrame
<1> QED
  BY <1>3, <1>4

\* Login, RefreshToken and ChangePassword read the row and keep what they will
\* save or issue from it.
LEMMA ReadFrame ==
  ASSUME TypeOK, RequestComplete, NEW c \in Calls, Login(c) \/ RefreshToken(c) \/ ChangePassword(c)
  PROVE  /\ CallsTyped'
         /\ UNCHANGED <<rows, changes, tokens, req, behind>>
         /\ pc[c] = "read" /\ c \notin behind /\ rows[req[c].user] # None
         /\ pc'[c] \in {"save", "issue"}
         /\ \A d \in Calls : d # c => pc'[d] = pc[d] /\ copy'[d] = copy[d]
         /\ pc'[c] = "save" =>
              /\ req[c].kind \in {"login", "change"}
              /\ IF req[c].kind = "login"
                   THEN /\ copy'[c].password = req[c].password
                        /\ copy'[c].password = rows[req[c].user].password
                        /\ copy'[c].version = rows[req[c].user].version
                   ELSE /\ copy'[c].password = req[c].new
                        /\ copy'[c].version = rows[req[c].user].version + 1
<1> DEFINE u == req[c].user
<1>0. CallsTyped /\ rows \in [Emails -> Row \cup {None}]
  BY TypeParts
<1>1. /\ pc[c] = "read" /\ rows[u] # None
      /\ UNCHANGED <<rows, changes, tokens, req, behind>>
  BY DEF Login, RefreshToken, ChangePassword, Reads, upgradePasswordHash, table
<1>2. /\ u \in Emails /\ req[c].password \in Passwords \cup {None}
      /\ req[c].new \in Passwords \cup {None} /\ req[c] \in Request
  BY <1>0, <1>1, RequestTyped
<1>3. /\ rows[u] \in Row /\ rows[u].version \in 0..MaxVersion
      /\ rows[u].password \in Passwords /\ rows[u].legacy \in BOOLEAN
  <2>1. rows[u] \in Row
    BY <1>0, <1>1, <1>2
  <2> QED
    BY <2>1 DEF Row
<1>4. CASE Login(c)
  <2>1. /\ req[c].kind = "login" /\ rows[u].password = req[c].password
        /\ Hold(c, [rows[u] EXCEPT !.password = req[c].password, !.legacy = FALSE])
        /\ Goto(c, "save") \/ Goto(c, "issue")
    BY <1>4 DEF Login, Reads, Matches, upgradePasswordHash
  <2> DEFINE row == [rows[u] EXCEPT !.password = req[c].password, !.legacy = FALSE]
  <2>2. row \in Row /\ row.password = rows[u].password /\ row.version = rows[u].version
    BY <1>3, <2>1 DEF Row
  <2> HIDE DEF row, u
  <2>3. PICK step \in {"save", "issue"} : Goto(c, step)
    BY <2>1
  <2>4. /\ CallsTyped' /\ pc'[c] = step /\ copy'[c] = row /\ c \notin behind
        /\ \A d \in Calls : d # c => pc'[d] = pc[d] /\ copy'[d] = copy[d]
    BY <1>0, <1>1, <2>1, <2>2, <2>3, HoldFrame DEF row, u
  <2> QED
    BY <1>1, <2>1, <2>2, <2>3, <2>4 DEF u
<1>5. CASE RefreshToken(c)
  <2>1. /\ req[c].kind = "refresh" /\ rows[u].version = req[c].version
        /\ Hold(c, rows[u]) /\ Goto(c, "issue")
    BY <1>5 DEF RefreshToken, Reads
  <2>2. /\ CallsTyped' /\ pc'[c] = "issue" /\ copy'[c] = rows[u] /\ c \notin behind
        /\ \A d \in Calls : d # c => pc'[d] = pc[d] /\ copy'[d] = copy[d]
    BY <1>0, <1>1, <1>3, <2>1, HoldFrame
  <2> QED
    BY <1>1, <2>1, <2>2
<1>6. CASE ChangePassword(c)
  <2> DEFINE row == [password |-> req[c].new, legacy |-> FALSE, version |-> rows[u].version + 1]
  <2>1. /\ req[c].kind = "change" /\ Hold(c, row) /\ Goto(c, "save")
        /\ rows[u].version < MaxVersion
    BY <1>6 DEF ChangePassword, Reads
  <2>2. req[c].new \in Passwords
    BY <1>2, <2>1, NoneIsNone DEF RequestComplete
  <2>3. row \in Row /\ row.password = req[c].new /\ row.version = rows[u].version + 1
    BY <1>3, <2>1, <2>2, UsersAssumption DEF Row
  <2> HIDE DEF row, u
  <2>4. /\ CallsTyped' /\ pc'[c] = "save" /\ copy'[c] = row /\ c \notin behind
        /\ \A d \in Calls : d # c => pc'[d] = pc[d] /\ copy'[d] = copy[d]
    BY <1>0, <1>1, <2>1, <2>3, HoldFrame
  <2> QED
    BY <1>1, <2>1, <2>3, <2>4 DEF u
<1> QED
  BY <1>4, <1>5, <1>6

\* Update: the whole copy is saved, and every call that has read the row is
\* behind.
LEMMA SaveFrame ==
  ASSUME TypeOK, NEW c \in Calls, Save(c)
  PROVE  /\ CallsTyped'
         /\ pc[c] = "save" /\ req[c].user \in Emails
         /\ UNCHANGED tokens
         /\ rows'[req[c].user] = copy[c]
         /\ \A u \in Emails : u # req[c].user => rows'[u] = rows[u]
         /\ changes' \in [Emails -> 0..MaxChanges]
         /\ \A d \in Calls : d # c => pc'[d] = pc[d] /\ req'[d] = req[d] /\ copy'[d] = copy[d]
         /\ \A d \in Calls : d # c /\ d \in behind => d \in behind'
         /\ \A d \in Calls : d # c /\ copy[d] # None /\ req[d].user = req[c].user => d \in behind'
         /\ \/ pc'[c] = "idle"
            \/ pc'[c] = "issue" /\ req[c].kind = "login" /\ req'[c] = req[c] /\ copy'[c] = copy[c]
<1> DEFINE u == req[c].user
           others == {d \in Calls : copy[d] # None /\ req[d].user = u}
<1>0. /\ CallsTyped /\ rows \in [Emails -> Row \cup {None}]
      /\ changes \in [Emails -> 0..MaxChanges]
  BY TypeParts
<1>1. /\ pc[c] = "save" /\ UNCHANGED tokens
      /\ rows' = [rows EXCEPT ![u] = copy[c]]
      /\ changes' = IF req[c].kind = "change" /\ changes[u] < MaxChanges
                    THEN [changes EXCEPT ![u] = @ + 1] ELSE changes
  BY DEF Save
<1>2. u \in Emails
  BY <1>0, <1>1, RequestTyped
<1>c. changes' \in [Emails -> 0..MaxChanges]
  BY <1>0, <1>1, <1>2, UsersAssumption
<1>3. /\ rows'[u] = copy[c]
      /\ \A v \in Emails : v # u => rows'[v] = rows[v]
  BY <1>0, <1>1, <1>2
<1>4. CASE /\ req[c].kind = "login" /\ Goto(c, "issue") /\ UNCHANGED <<req, copy>>
           /\ behind' = behind \cup {d \in Calls : copy[d] # None /\ req[d].user = u /\ d # c}
  <2>1. pc'[c] = "issue" /\ \A d \in Calls : d # c => pc'[d] = pc[d]
    BY <1>0, <1>4 DEF Goto, CallsTyped
  <2>2. pc' \in [Calls -> Places]
    BY <1>0, <1>4 DEF Goto, CallsTyped, Places
  <2>3. CallsTyped'
    BY <1>0, <1>1, <1>4, <2>1, <2>2 DEF CallsTyped
  <2> HIDE DEF u
  <2> QED
    BY <1>1, <1>2, <1>c, <1>3, <1>4, <2>1, <2>3 DEF u
<1>5. CASE /\ Goto(c, "idle") /\ req' = [req EXCEPT ![c] = None] /\ Hold(c, None)
           /\ behind' = (behind \cup others) \ {c}
  <2>1. /\ pc'[c] = "idle" /\ req'[c] = None /\ copy'[c] = None
        /\ \A d \in Calls : d # c => pc'[d] = pc[d] /\ req'[d] = req[d] /\ copy'[d] = copy[d]
    BY <1>0, <1>5 DEF Goto, Hold, CallsTyped
  <2>2. /\ pc' \in [Calls -> Places] /\ req' \in [Calls -> Request \cup {None}]
        /\ copy' \in [Calls -> Row \cup {None}]
    BY <1>0, <1>5 DEF Goto, Hold, CallsTyped, Places
  <2>3. behind' \subseteq {d \in Calls : copy'[d] # None}
    BY <1>0, <1>5, <2>1 DEF CallsTyped
  <2>4. CallsTyped'
    BY <1>0, <2>1, <2>2, <2>3 DEF CallsTyped
  <2>5. /\ \A d \in Calls : d # c /\ d \in behind => d \in behind'
        /\ \A d \in Calls : d # c /\ copy[d] # None /\ req[d].user = u => d \in behind'
    BY <1>5
  <2> HIDE DEF u
  <2> QED
    BY <1>1, <1>2, <1>c, <1>3, <2>1, <2>4, <2>5 DEF u
<1> QED
  BY <1>4, <1>5 DEF Save

\* Register: at most a row where there was none.
LEMMA CreateFrame ==
  ASSUME TypeOK, RequestComplete, NEW c \in Calls, Create(c)
  PROVE  /\ Reply(c) /\ UNCHANGED <<tokens, changes>>
         /\ rows' \in [Emails -> Row \cup {None}]
         /\ \A u \in Emails : rows[u] # None => rows'[u] = rows[u]
<1>0. CallsTyped /\ rows \in [Emails -> Row \cup {None}] /\ pc[c] = "create"
  BY TypeParts DEF Create
<1>1. req[c].user \in Emails /\ req[c].password \in Passwords
  BY <1>0, RequestTyped DEF RequestComplete
<1>2. BeforeCreate(req[c].password) \in Row
  BY <1>1, UsersAssumption DEF BeforeCreate, Row
<1>3. \/ UNCHANGED rows
      \/ /\ rows[req[c].user] = None
         /\ rows' = [rows EXCEPT ![req[c].user] = BeforeCreate(req[c].password)]
  BY DEF Create
<1>4. rows' \in [Emails -> Row \cup {None}]
  BY <1>0, <1>2, <1>3
<1>5. \A u \in Emails : rows[u] # None => rows'[u] = rows[u]
  BY <1>0, <1>3
<1> QED
  BY <1>4, <1>5 DEF Create

\* generateToken: what a login or a refresh adds.
LEMMA IssueFrame ==
  ASSUME TypeOK, NEW c \in Calls, Issue(c)
  PROVE  /\ Reply(c) /\ UNCHANGED <<rows, changes>>
         /\ pc[c] = "issue" /\ req[c].user \in Emails
         /\ \A t \in tokens' : t \in tokens \/ (t \in Token /\ t.user = req[c].user)
<1>0. CallsTyped /\ pc[c] = "issue"
  BY TypeParts DEF Issue
<1>1. /\ req[c].user \in Emails /\ req[c].login \in 0..MaxChanges
      /\ copy[c].version \in 0..MaxVersion /\ changes[req[c].user] \in 0..MaxChanges
  BY <1>0, TypeParts, RequestTyped, CopyTyped
<1> DEFINE types == IF req[c].kind = "login" THEN {"access", "refresh"} ELSE {"access"}
           login == IF req[c].kind = "login" THEN changes[req[c].user] ELSE req[c].login
<1>2. tokens' = tokens \cup {generateToken(req[c].user, type, copy[c].version, login) : type \in types}
  BY Zenon DEF Issue
<1>3. types \subseteq {"access", "refresh"} /\ login \in 0..MaxChanges
  BY <1>1
<1> HIDE DEF types, login
<1>4. ASSUME NEW t \in tokens', t \notin tokens
      PROVE  t \in Token /\ t.user = req[c].user
  <2>1. PICK type \in types : t = generateToken(req[c].user, type, copy[c].version, login)
    BY <1>2, <1>4
  <2> QED
    BY <1>1, <1>3, <2>1 DEF generateToken, Token
<1>5. Reply(c) /\ UNCHANGED <<rows, changes>>
  BY DEF Issue, table
<1> QED
  BY <1>0, <1>1, <1>4, <1>5

----------------------------------------------------------------------------
(* Types *)

LEMMA TypeStep ==
  TypeOK /\ RequestComplete /\ [Next]_vars => TypeOK' /\ RequestComplete'
<1> SUFFICES ASSUME TypeOK, RequestComplete, [Next]_vars PROVE TypeOK' /\ RequestComplete'
  OBVIOUS
<1>0. /\ CallsTyped
      /\ rows \in [Emails -> Row \cup {None}]
      /\ tokens \subseteq Token
      /\ \A t \in tokens : rows[t.user] # None
      /\ \A c \in Calls : copy[c] # None => rows[req[c].user] # None
      /\ changes \in [Emails -> 0..MaxChanges]
  BY TypeParts
<1>u. /\ \A t \in Token : t.user \in Emails
      /\ \A c \in Calls : copy[c] # None => req[c].user \in Emails
  <2>1. \A c \in Calls : copy[c] # None => pc[c] # "idle"
    BY <1>0 DEF CallsTyped
  <2> QED
    BY <1>0, <2>1, RequestTyped DEF Token
\* A step that keeps rows in place, and lets a call have a copy only of a row
\* that exists.
<1>a. ASSUME CallsTyped', rows' \in [Emails -> Row \cup {None}],
             \A u \in Emails : rows[u] # None => rows'[u] # None,
             \A t \in tokens' : t \in tokens \/ (t \in Token /\ rows[t.user] # None),
             \A d \in Calls : copy'[d] # None =>
               \/ copy[d] # None /\ req'[d] = req[d]
               \/ req'[d].user \in Emails /\ rows[req'[d].user] # None,
             changes' \in [Emails -> 0..MaxChanges]
      PROVE  TypeOK'
  <2>1. \A d \in Calls : copy'[d] # None => rows'[req'[d].user] # None
    BY <1>0, <1>a, <1>u
  <2>2. tokens' \subseteq Token /\ \A t \in tokens' : rows'[t.user] # None
    BY <1>0, <1>a, <1>u
  <2> QED
    BY <1>a, <2>1, <2>2 DEF TypeOK, CallsTyped, Places
<1>b. ASSUME NEW c \in Calls,
             \A d \in Calls : d # c => pc'[d] = pc[d] /\ req'[d] = req[d],
             \/ pc'[c] = "idle" /\ CallsTyped'
             \/ pc'[c] # "create" /\ pc[c] # "idle" /\ req'[c] = req[c]
      PROVE  RequestComplete'
  <2>1. ASSUME NEW d \in Calls, d # c
        PROVE  /\ pc'[d] = "create" => req'[d].password \in Passwords
               /\ req'[d] # None /\ req'[d].kind = "change" => req'[d].new \in Passwords
    BY <1>b, <2>1 DEF RequestComplete
  <2>2. /\ pc'[c] = "create" => req'[c].password \in Passwords
        /\ req'[c] # None /\ req'[c].kind = "change" => req'[c].new \in Passwords
    <3>1. CASE pc'[c] = "idle" /\ CallsTyped'
      BY <3>1 DEF CallsTyped
    <3>2. CASE pc'[c] # "create" /\ pc[c] # "idle" /\ req'[c] = req[c]
      BY <3>2 DEF RequestComplete
    <3> QED
      BY <1>b, <3>1, <3>2
  <2> QED
    BY <2>1, <2>2 DEF RequestComplete
<1>1. CASE UNCHANGED vars
  BY <1>1 DEF TypeOK, RequestComplete, vars, table
<1>2. ASSUME NEW c \in Calls, Receive(c) PROVE TypeOK' /\ RequestComplete'
  <2>1. /\ CallsTyped'
        /\ pc[c] = "idle" /\ pc'[c] \in {"create", "read"}
        /\ pc'[c] = "create" => req'[c].password \in Passwords
        /\ req'[c].kind = "change" => req'[c].new \in Passwords
        /\ \A d \in Calls : d # c => pc'[d] = pc[d] /\ req'[d] = req[d]
        /\ UNCHANGED <<rows, changes, tokens, copy, behind>>
    BY <1>2, ReceiveFrame
  <2>2. copy[c] = None
    BY <1>0, <2>1 DEF CallsTyped
  <2>3. TypeOK'
    BY <1>0, <1>a, <2>1, <2>2
  <2>4. RequestComplete'
    BY <2>1 DEF RequestComplete
  <2> QED
    BY <2>3, <2>4
<1>3. ASSUME NEW c \in Calls, Create(c) PROVE TypeOK' /\ RequestComplete'
  <2>1. /\ Reply(c) /\ UNCHANGED <<tokens, changes>>
        /\ rows' \in [Emails -> Row \cup {None}]
        /\ \A u \in Emails : rows[u] # None => rows'[u] = rows[u]
    BY <1>3, CreateFrame
  <2>2. /\ CallsTyped' /\ pc'[c] = "idle" /\ copy'[c] = None
        /\ \A d \in Calls : d # c => pc'[d] = pc[d] /\ req'[d] = req[d] /\ copy'[d] = copy[d]
    BY <1>0, <2>1, ReplyFrame
  <2>3. TypeOK'
    BY <1>0, <1>a, <2>1, <2>2
  <2> QED
    BY <1>b, <2>2, <2>3
<1>4. ASSUME NEW c \in Calls, Login(c) \/ RefreshToken(c) \/ ChangePassword(c)
      PROVE  TypeOK' /\ RequestComplete'
  <2>1. /\ CallsTyped'
        /\ UNCHANGED <<rows, changes, tokens, req, behind>>
        /\ pc[c] = "read" /\ rows[req[c].user] # None
        /\ pc'[c] \in {"save", "issue"}
        /\ \A d \in Calls : d # c => pc'[d] = pc[d] /\ copy'[d] = copy[d]
    BY <1>4, ReadFrame
  <2>2. req[c].user \in Emails
    BY <1>0, <2>1, RequestTyped
  <2>3. TypeOK'
    BY <1>0, <1>a, <2>1, <2>2
  <2> QED
    BY <1>b, <2>1, <2>3
<1>5. ASSUME NEW c \in Calls, AnswerFromRead(c) \/ SaveFails(c) PROVE TypeOK' /\ RequestComplete'
  <2>1. Reply(c) /\ UNCHANGED <<rows, changes, tokens>>
    BY <1>5 DEF AnswerFromRead, SaveFails, table
  <2>2. /\ CallsTyped' /\ pc'[c] = "idle" /\ copy'[c] = None
        /\ \A d \in Calls : d # c => pc'[d] = pc[d] /\ req'[d] = req[d] /\ copy'[d] = copy[d]
    BY <1>0, <2>1, ReplyFrame
  <2>3. TypeOK'
    BY <1>0, <1>a, <2>1, <2>2
  <2> QED
    BY <1>b, <2>2, <2>3
<1>6. ASSUME NEW c \in Calls, Save(c) PROVE TypeOK' /\ RequestComplete'
  <2>1. /\ CallsTyped'
        /\ pc[c] = "save" /\ req[c].user \in Emails
        /\ UNCHANGED tokens
        /\ rows'[req[c].user] = copy[c]
        /\ \A u \in Emails : u # req[c].user => rows'[u] = rows[u]
        /\ changes' \in [Emails -> 0..MaxChanges]
        /\ \A d \in Calls : d # c => pc'[d] = pc[d] /\ req'[d] = req[d] /\ copy'[d] = copy[d]
        /\ \/ pc'[c] = "idle"
           \/ pc'[c] = "issue" /\ req[c].kind = "login" /\ req'[c] = req[c] /\ copy'[c] = copy[c]
    BY <1>6, SaveFrame
  <2>2. copy[c] \in Row /\ copy[c] # None
    BY <1>0, <2>1, CopyTyped
  <2>3. rows' \in [Emails -> Row \cup {None}]
    BY <1>0, <1>6, <2>2 DEF Save
  <2>4. \A u \in Emails : rows[u] # None => rows'[u] # None
    BY <2>1, <2>2
  <2>6. \A d \in Calls : copy'[d] # None => copy[d] # None /\ req'[d] = req[d]
    <3>1. pc'[c] = "idle" => copy'[c] = None
      BY <2>1 DEF CallsTyped
    <3> QED
      BY <2>1, <2>2, <3>1
  <2>7. TypeOK'
    BY <1>0, <1>a, <2>1, <2>3, <2>4, <2>6
  <2> QED
    BY <1>b, <2>1, <2>7
<1>7. ASSUME NEW c \in Calls, Issue(c) PROVE TypeOK' /\ RequestComplete'
  <2>1. /\ Reply(c) /\ UNCHANGED <<rows, changes>>
        /\ pc[c] = "issue" /\ req[c].user \in Emails
        /\ \A t \in tokens' : t \in tokens \/ (t \in Token /\ t.user = req[c].user)
    BY <1>7, IssueFrame
  <2>2. /\ CallsTyped' /\ pc'[c] = "idle" /\ copy'[c] = None
        /\ \A d \in Calls : d # c => pc'[d] = pc[d] /\ req'[d] = req[d] /\ copy'[d] = copy[d]
    BY <1>0, <2>1, ReplyFrame
  <2>3. rows[req[c].user] # None
    BY <1>0, <2>1 DEF CallsTyped
  <2>4. \A t \in tokens' : t \in tokens \/ (t \in Token /\ rows[t.user] # None)
    BY <2>1, <2>3
  <2>5. TypeOK'
    BY <1>0, <1>a, <2>1, <2>2, <2>4
  <2> QED
    BY <1>b, <2>2, <2>5
<1>8. ASSUME NEW t \in tokens, Expire(t) PROVE TypeOK' /\ RequestComplete'
  BY <1>8 DEF Expire, TypeOK, RequestComplete, table
<1> QED
  BY <1>1, <1>2, <1>3, <1>4, <1>5, <1>6, <1>7, <1>8 DEF Next, Serve

----------------------------------------------------------------------------
(* The rows and the copies *)

\* What CopyCurrent says of one call.
CopyOf(c) ==
  pc[c] = "save" =>
    \/ /\ req[c].kind = "login" /\ copy[c].password = req[c].password
       /\ c \notin behind => /\ copy[c].password = rows[req[c].user].password
                             /\ copy[c].version = rows[req[c].user].version
    \/ /\ req[c].kind = "change" /\ copy[c].password = req[c].new
       /\ c \notin behind => copy[c].version = rows[req[c].user].version + 1

LEMMA InvParts ==
  Inv <=> TypeOK /\ RequestComplete /\ \A c \in Calls : CopyOf(c)
BY DEF Inv, CopyCurrent, CopyOf

LEMMA RowTyped ==
  ASSUME TypeOK, NEW u \in Emails, rows[u] # None
  PROVE  rows[u] \in Row /\ rows[u].version \in 0..MaxVersion
<1>1. rows[u] \in Row
  BY TypeParts
<1> QED
  BY <1>1 DEF Row

\* A step that neither reads for a login, a refresh or a change nor saves
\* leaves every row that is there, and every call that is about to save alone.
LEMMA OtherStep ==
  ASSUME TypeOK, RequestComplete, [Next]_vars,
         ~ \E c \in Calls : Save(c) \/ Login(c) \/ RefreshToken(c) \/ ChangePassword(c)
  PROVE  /\ \A u \in Emails : rows[u] # None => rows'[u] = rows[u]
         /\ \A d \in Calls : pc'[d] = "save" =>
              /\ pc[d] = "save" /\ req'[d] = req[d] /\ copy'[d] = copy[d]
              /\ d \in behind => d \in behind'
<1> DEFINE Goal == /\ \A u \in Emails : rows[u] # None => rows'[u] = rows[u]
                   /\ \A d \in Calls : pc'[d] = "save" =>
                        /\ pc[d] = "save" /\ req'[d] = req[d] /\ copy'[d] = copy[d]
                        /\ d \in behind => d \in behind'
<1>0. CallsTyped
  BY TypeParts
<1>1. CASE UNCHANGED vars
  BY <1>1 DEF vars, table
<1>2. ASSUME NEW c \in Calls, Receive(c) PROVE Goal
  BY <1>2, ReceiveFrame
<1>3. ASSUME NEW c \in Calls, Reply(c), \A u \in Emails : rows[u] # None => rows'[u] = rows[u]
      PROVE  Goal
  BY <1>0, <1>3, ReplyFrame
<1>4. ASSUME NEW c \in Calls, Create(c) PROVE Goal
  BY <1>3, <1>4, CreateFrame
<1>5. ASSUME NEW c \in Calls, AnswerFromRead(c) \/ SaveFails(c) \/ Issue(c) PROVE Goal
  BY <1>3, <1>5 DEF AnswerFromRead, SaveFails, Issue, table
<1>6. ASSUME NEW t \in tokens, Expire(t) PROVE Goal
  BY <1>6 DEF Expire, table
<1> QED
  BY <1>1, <1>2, <1>4, <1>5, <1>6 DEF Next, Serve

LEMMA InvStep == Inv /\ [Next]_vars => Inv'
<1> SUFFICES ASSUME Inv, [Next]_vars, NEW d \in Calls, pc'[d] = "save" PROVE CopyOf(d)'
  <2>1. Inv /\ [Next]_vars => TypeOK' /\ RequestComplete'
    BY TypeStep DEF Inv
  <2> QED
    BY <2>1 DEF Inv, CopyCurrent, CopyOf
<1>0. TypeOK /\ RequestComplete /\ CallsTyped /\ CopyOf(d)
  BY InvParts, TypeParts
\* A call that was about to save already holds a row of an existing user.
<1>a. pc[d] = "save" => /\ req[d].user \in Emails /\ rows[req[d].user] # None
                        /\ copy[d] # None
  BY <1>0, TypeParts, RequestTyped, CopyTyped
<1>b. ASSUME pc[d] = "save", req'[d] = req[d], copy'[d] = copy[d],
             d \in behind' \/ (d \notin behind /\ rows'[req[d].user] = rows[req[d].user])
      PROVE  CopyOf(d)'
  BY <1>0, <1>b DEF CopyOf
<1>1. CASE ~ \E c \in Calls : Save(c) \/ Login(c) \/ RefreshToken(c) \/ ChangePassword(c)
  <2>1. /\ pc[d] = "save" /\ req'[d] = req[d] /\ copy'[d] = copy[d]
        /\ d \in behind => d \in behind'
        /\ \A u \in Emails : rows[u] # None => rows'[u] = rows[u]
    BY <1>0, <1>1, OtherStep
  <2> QED
    BY <1>a, <1>b, <2>1
<1>2. ASSUME NEW c \in Calls, Save(c) PROVE CopyOf(d)'
  <2>1. /\ c # d => pc'[d] = pc[d] /\ req'[d] = req[d] /\ copy'[d] = copy[d]
        /\ c # d /\ d \in behind => d \in behind'
        /\ c # d /\ copy[d] # None /\ req[d].user = req[c].user => d \in behind'
        /\ \A u \in Emails : u # req[c].user => rows'[u] = rows[u]
        /\ pc'[c] \in {"idle", "issue"}
    BY <1>0, <1>2, SaveFrame
  <2> QED
    BY <1>a, <1>b, <2>1
<1>3. ASSUME NEW c \in Calls, Login(c) \/ RefreshToken(c) \/ ChangePassword(c) PROVE CopyOf(d)'
  <2>1. /\ UNCHANGED <<rows, req, behind>>
        /\ c # d => pc'[d] = pc[d] /\ copy'[d] = copy[d]
        /\ pc'[c] = "save" =>
             /\ req[c].kind \in {"login", "change"}
             /\ IF req[c].kind = "login"
                  THEN /\ copy'[c].password = req[c].password
                       /\ copy'[c].password = rows[req[c].user].password
                       /\ copy'[c].version = rows[req[c].user].version
                  ELSE /\ copy'[c].password = req[c].new
                       /\ copy'[c].version = rows[req[c].user].version + 1
    BY <1>0, <1>3, ReadFrame
  <2>2. CASE c = d
    BY <2>1, <2>2 DEF CopyOf
  <2>3. CASE c # d
    BY <1>b, <2>1, <2>3
  <2> QED
    BY <2>2, <2>3
<1> QED
  BY <1>1, <1>2, <1>3

LEMMA InitInv == Init => Inv
<1> SUFFICES ASSUME Init PROVE Inv
  OBVIOUS
<1>1. TypeOK
  BY UsersAssumption DEF Init, TypeOK
<1> QED
  BY <1>1 DEF Init, Inv, RequestComplete, CopyCurrent

----------------------------------------------------------------------------
(* The theorems *)

\* The inductive invariant: a call saves the password of its request, and the
\* rest of what it saves follows from the row, until another call saves it.
THEOREM UsersInvariance == Spec => []Inv
BY InitInv, InvStep, PTL DEF Spec

\* Every variable of the accounts keeps its type, and a call that will save or
\* issue holds a row of a user that exists.
THEOREM UsersTypeCorrect == Spec => []TypeOK
<1>1. Inv => TypeOK
  BY DEF Inv
<1> QED
  BY <1>1, UsersInvariance, PTL

\* Register and the hash upgrade of Login never alter a password that is there;
\* only the save of a ChangePassword does, and the upgrade of a login whose row
\* was saved since it read it.
THEOREM PasswordsOnlyChange == Spec => OnlyChangeAlters
<1> DEFINE Kept(u) ==
      rows[u] # None =>
        /\ rows'[u] # None
        /\ rows'[u].password # rows[u].password =>
             \E c \in Calls :
               /\ pc[c] = "save" /\ req[c].user = u
               /\ \/ req[c].kind = "change" /\ rows'[u].password = req[c].new
                  \/ /\ req[c].kind = "login" /\ c \in behind
                     /\ rows'[u].password = req[c].password
<1>1. Inv /\ [Next]_vars => \A u \in Emails : Kept(u)
  <2> SUFFICES ASSUME Inv, [Next]_vars, NEW u \in Emails, rows[u] # None PROVE Kept(u)
    OBVIOUS
  <2>0. TypeOK /\ RequestComplete /\ \A d \in Calls : CopyOf(d)
    BY InvParts
  <2>1. CASE ~ \E c \in Calls : Save(c) \/ Login(c) \/ RefreshToken(c) \/ ChangePassword(c)
    BY <2>0, <2>1, OtherStep
  <2>2. ASSUME NEW c \in Calls, Login(c) \/ RefreshToken(c) \/ ChangePassword(c) PROVE Kept(u)
    BY <2>0, <2>2, ReadFrame
  <2>3. ASSUME NEW c \in Calls, Save(c) PROVE Kept(u)
    <3>1. /\ pc[c] = "save" /\ req[c].user \in Emails /\ rows'[req[c].user] = copy[c]
          /\ \A v \in Emails : v # req[c].user => rows'[v] = rows[v]
      BY <2>0, <2>3, SaveFrame
    <3>2. copy[c] # None
      BY <2>0, <3>1, TypeParts, CopyTyped
    <3> QED
      BY <2>0, <3>1, <3>2 DEF CopyOf
  <2> QED
    BY <2>1, <2>2, <2>3
<1> QED
  BY <1>1, UsersInvariance, PTL DEF Spec, OnlyChangeAlters

----------------------------------------------------------------------------
(* Versions that are over *)

\* No step brings a version back that is over: a call that starts to save has
\* read a later version, and a call that saves held one.
LEMMA OverStep ==
  ASSUME NEW u \in Emails, NEW v \in 0..(MaxVersion - 1)
  PROVE  Inv /\ Over(u, v) /\ [Next]_vars => Over(u, v)'
<1> SUFFICES ASSUME Inv, Over(u, v), [Next]_vars PROVE Over(u, v)'
  OBVIOUS
<1>0. TypeOK /\ RequestComplete /\ CallsTyped
  BY InvParts, TypeParts
<1>1. /\ rows[u] # None /\ rows[u].version > v
      /\ \A c \in Calls : pc[c] = "save" /\ req[c].user = u => copy[c].version > v
  BY DEF Over, Later
<1>2. v \in Nat /\ rows[u].version \in Nat
  BY <1>0, <1>1, RowTyped, UsersAssumption
<1>3. CASE ~ \E c \in Calls : Save(c) \/ Login(c) \/ RefreshToken(c) \/ ChangePassword(c)
  BY <1>0, <1>1, <1>3, OtherStep DEF Over, Later
<1>4. ASSUME NEW c \in Calls, Save(c) PROVE Over(u, v)'
  <2>1. /\ pc[c] = "save" /\ req[c].user \in Emails /\ rows'[req[c].user] = copy[c]
        /\ \A w \in Emails : w # req[c].user => rows'[w] = rows[w]
        /\ \A d \in Calls : d # c => pc'[d] = pc[d] /\ req'[d] = req[d] /\ copy'[d] = copy[d]
        /\ pc'[c] \in {"idle", "issue"}
    BY <1>0, <1>4, SaveFrame
  <2>2. copy[c] # None
    BY <1>0, <2>1, CopyTyped
  <2>3. rows'[u] # None /\ rows'[u].version > v
    BY <1>1, <2>1, <2>2
  <2>4. \A d \in Calls : pc'[d] = "save" /\ req'[d].user = u => copy'[d].version > v
    BY <1>1, <2>1
  <2> QED
    BY <2>3, <2>4 DEF Over, Later
<1>5. ASSUME NEW c \in Calls, Login(c) \/ RefreshToken(c) \/ ChangePassword(c) PROVE Over(u, v)'
  <2>1. /\ UNCHANGED <<rows, req>>
        /\ \A d \in Calls : d # c => pc'[d] = pc[d] /\ copy'[d] = copy[d]
        /\ pc'[c] = "save" => \/ copy'[c].version = rows[req[c].user].version
                              \/ copy'[c].version = rows[req[c].user].version + 1
    BY <1>0, <1>5, ReadFrame
  <2>2. pc'[c] = "save" /\ req'[c].user = u => copy'[c].version > v
    BY <1>1, <1>2, <2>1
  <2>3. \A d \in Calls : pc'[d] = "save" /\ req'[d].user = u => copy'[d].version > v
    BY <1>1, <2>1, <2>2
  <2> QED
    BY <1>1, <2>1, <2>3 DEF Over, Later
<1> QED
  BY <1>3, <1>4, <1>5

\* Once a later version is saved and no call is about to save an older row,
\* the older version never comes back: RefreshToken refuses its tokens for good.
THEOREM RevocationsLast == Spec => RevocationLasts
<1> SUFFICES ASSUME NEW u \in Emails, NEW v \in 0..(MaxVersion - 1)
             PROVE  Spec => [](Over(u, v) => []Later(u, v))
  BY DEF RevocationLasts
<1>1. Inv /\ Over(u, v) /\ [Next]_vars => Over(u, v)'
  BY OverStep
<1>2. Over(u, v) => Later(u, v)
  BY DEF Over
<1> QED
  BY <1>1, <1>2, UsersInvariance, PTL DEF Spec
=============================================================================
