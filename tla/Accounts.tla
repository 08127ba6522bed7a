------------------------------ MODULE Accounts ------------------------------
(***************************************************************************)
(* Accounts, sessions and personal access tokens: identity.py, the routes  *)
(* of api/v1/auth.py and api/v1/users.py, the authentication boundary of   *)
(* security.py and bootstrap.py.                                           *)
(*                                                                         *)
(* A request is authenticated in a transaction of its own, before the      *)
(* handler's begins; the handler reads, decides, and only then writes      *)
(* (READ COMMITTED, no lock on what was read).  A request is therefore two *)
(* steps: what it read, and its commit.  The change of an account has one  *)
(* in between: its UPDATE, which locks the row, and the UPDATE that revokes*)
(* the sessions, which ends those that are committed when it runs.  A      *)
(* request that is refused changes nothing and is not a step; one that     *)
(* fails, or whose server dies, is rolled back.                            *)
(*                                                                         *)
(* An account is its e-mail address, which is unique and never deleted; a  *)
(* token is its owner and name, which the table keeps unique.  A password  *)
(* hash is the password and whether its cost parameters are the current    *)
(* ones.  Idle expiry is left out: it is a session nobody uses any more.   *)
(***************************************************************************)
EXTENDS Naturals, Sequences

CONSTANTS
    Email,          \* normalised e-mail addresses
    Password,
    TokenName,
    FirstAdmin,     \* the addresses an operator may bootstrap with
    Change,         \* the PATCH /users/{id} bodies considered
    Request,        \* requests in progress at a time
    MaxRequests,    \* bound: requests ever admitted (start-ups not counted)
    MaxSessions,    \* bound: sessions ever opened
    None

VARIABLES
    account,        \* app_user
    session,        \* user_session, in order of commit
    token,          \* access_token
    request,        \* what every request in progress has read
    served,         \* requests admitted so far
    raced,          \* history: a change of authority was decided on a stale read
    undone          \* history: accounts whose new password a rehash overwrote

accountVars == <<account, session, token, request, served, raced, undone>>

Role == {"admin", "member"}
Scope == {"read", "full"}

\* A body of PATCH /users/{id}: None leaves a field alone.
UserUpdate ==
    [role : Role \cup {None}, active : BOOLEAN \cup {None}, password : Password \cup {None}]

User == [role : Role, active : BOOLEAN, password : Password, current : BOOLEAN]
SessionRow == [user : Email, password : Password, late : BOOLEAN, live : BOOLEAN]
TokenRow == [scope : Scope, live : BOOLEAN]

ASSUME AccountsAssumption ==
    /\ FirstAdmin \subseteq Email
    /\ Change \subseteq UserUpdate
    /\ None \notin User
    /\ MaxRequests \in Nat /\ MaxSessions \in Nat

NewUser(role, password) ==
    [role |-> role, active |-> TRUE, password |-> password, current |-> TRUE]

Exists(e) == account[e] # None
IsActive(e) == Exists(e) /\ account[e].active
Verified(e, p) == IsActive(e) /\ account[e].password = p

ActiveAdmins == {e \in Email : IsActive(e) /\ account[e].role = "admin"}

LiveToken(e, n) == token[<<e, n>>] # None /\ token[<<e, n>>].live

HasSession(e) == \E i \in DOMAIN session : session[i].user = e /\ session[i].live
HasFullToken(e) == \E n \in TokenName : LiveToken(e, n) /\ token[<<e, n>>].scope = "full"

\* A credential that may change state: a live session, or a live token that is
\* not read-only, of an account that is not disabled.
Authenticated(e) == IsActive(e) /\ (HasSession(e) \/ HasFullToken(e))

AdminAuthenticated(e) == Authenticated(e) /\ e \in ActiveAdmins

AccountsInit ==
    /\ account = [e \in Email |-> None]
    /\ session = << >>
    /\ token = [t \in Email \X TokenName |-> None]
    /\ request = [q \in Request |-> None]
    /\ served = 0
    /\ raced = FALSE
    /\ undone = {}

-----------------------------------------------------------------------------
(* Requests *)

Admit(q, r) ==
    /\ request[q] = None
    /\ served < MaxRequests
    /\ request' = [request EXCEPT ![q] = r]
    /\ served' = served + 1

Handling(q, op) == request[q] # None /\ request[q].op = op

Answer(q) == request' = [request EXCEPT ![q] = None]

\* A unique key is taken, the database fails or the client goes away.
Rollback(q) ==
    /\ request[q] # None
    /\ Answer(q)
    /\ UNCHANGED <<account, session, token, served, raced, undone>>

\* A release with other cost parameters: the server restarts, and every hash
\* made so far is out of date.
Upgrade ==
    /\ \E e \in Email : Exists(e) /\ account[e].current
    /\ account' = [e \in Email |-> IF Exists(e) THEN [account[e] EXCEPT !.current = FALSE] ELSE None]
    /\ request' = [q \in Request |-> None]
    /\ UNCHANGED <<session, token, served, raced, undone>>

-----------------------------------------------------------------------------
(* The first administrator: INSERT ... WHERE NOT EXISTS, committed later *)

Bootstrap(q, e, p) ==
    /\ request[q] = None
    /\ \A x \in Email : ~Exists(x)
    /\ request' = [request EXCEPT ![q] = [op |-> "bootstrap", email |-> e, password |-> p]]
    /\ UNCHANGED <<account, session, token, served, raced, undone>>

CommitBootstrap(q) ==
    /\ Handling(q, "bootstrap")
    /\ ~Exists(request[q].email)
    /\ account' = [account EXCEPT ![request[q].email] = NewUser("admin", request[q].password)]
    /\ Answer(q)
    /\ UNCHANGED <<session, token, served, raced, undone>>

-----------------------------------------------------------------------------
(* Logging in and out *)

\* The password is verified against the hash read here; hashing is slow, so
\* anything may commit before the session does.
Login(q, e, p) ==
    /\ Verified(e, p)
    /\ Admit(q, [op |-> "login", email |-> e, password |-> p,
                 rehash |-> ~account[e].current, late |-> FALSE])
    /\ UNCHANGED <<account, session, token, raced, undone>>

\* A PATCH of the account has updated its row and not committed yet: another
\* UPDATE waits, while an INSERT that refers to it does not.
RowLocked(e) ==
    \E q \in Request :
        Handling(q, "update_user") /\ request[q].email = e /\ request[q].snapshot # None

\* The rehash is an UPDATE by id: it does not ask whether the hash is still
\* the one that was verified.
CommitLogin(q) ==
    LET r == request[q] IN
    /\ Handling(q, "login")
    /\ r.rehash => ~RowLocked(r.email)
    /\ Len(session) < MaxSessions
    /\ account' = IF r.rehash
                    THEN [account EXCEPT ![r.email].password = r.password,
                                         ![r.email].current = TRUE]
                    ELSE account
    /\ undone' = undone \cup {e \in {r.email} : account'[e].password # account[e].password}
    /\ session' = Append(session, [user |-> r.email, password |-> r.password,
                                   late |-> r.late, live |-> TRUE])
    /\ Answer(q)
    /\ UNCHANGED <<token, served, raced>>

Ended(i) == [session EXCEPT ![i].live = FALSE]

\* A revocation has updated the session's row and not committed yet.
BeingRevoked(i) ==
    \E q \in Request : /\ Handling(q, "update_user") /\ request[q].email = session[i].user
                       /\ request[q].snapshot # None /\ i <= request[q].snapshot

\* POST /auth/logout and DELETE /auth/sessions/{id}: one guarded UPDATE that
\* uses nothing the request read before it.
EndSession(i) ==
    /\ served < MaxRequests
    /\ served' = served + 1
    /\ session[i].live
    /\ ~BeingRevoked(i)
    /\ Authenticated(session[i].user)
    /\ session' = Ended(i)
    /\ UNCHANGED <<account, token, request, raced, undone>>

-----------------------------------------------------------------------------
(* Administration *)

CreateUser(q, by, e, p, role) ==
    /\ Admit(q, [op |-> "create_user", email |-> e, password |-> p, role |-> role])
    /\ AdminAuthenticated(by)
    /\ ~Exists(e)
    /\ UNCHANGED <<account, session, token, raced, undone>>

CommitUser(q) ==
    LET r == request[q] IN
    /\ Handling(q, "create_user")
    /\ ~Exists(r.email)
    /\ account' = [account EXCEPT ![r.email] = NewUser(r.role, r.password)]
    /\ Answer(q)
    /\ UNCHANGED <<session, token, served, raced, undone>>

\* Fault: switching an administrator off is not seen as a demotion.
RoleOnly(user, c) == user.role = "admin" /\ c.role = "member"

Demoting(user, c) == user.role = "admin" /\ (c.role = "member" \/ c.active = FALSE)

IsLastActiveAdmin(e) == ActiveAdmins = {e}

UpdateUser(q, by, e, c) ==
    /\ Admit(q, [op |-> "update_user", email |-> e, change |-> c, stale |-> FALSE,
                 snapshot |-> None])
    /\ AdminAuthenticated(by)
    /\ Exists(e)
    /\ ~(Demoting(account[e], c) /\ IsLastActiveAdmin(e))
    /\ UNCHANGED <<account, session, token, raced, undone>>

Or(value, default) == IF value = None THEN default ELSE value

\* Fault: the fields left out are written as well.
AllWritten(user, c) ==
    [role |-> c.role, active |-> c.active, password |-> c.password, current |-> TRUE]

Updated(user, c) ==
    [role |-> Or(c.role, user.role), active |-> Or(c.active, user.active),
     password |-> Or(c.password, user.password),
     current |-> user.current \/ c.password # None]

\* Fault: the session that was opened last is spared.
AllButTheLast(e, snapshot) ==
    [i \in DOMAIN session |->
        IF session[i].user # e \/ i = snapshot THEN session[i]
        ELSE IF i < snapshot THEN [session[i] EXCEPT !.live = FALSE, !.late = FALSE]
        ELSE [session[i] EXCEPT !.late = TRUE]]

\* What the statement saw is ended; what was committed since, it leaves alone.
\* History: a session is late for the last change of the password only.
Revoked(e, snapshot) ==
    [i \in DOMAIN session |->
        IF session[i].user # e THEN session[i]
        ELSE IF i <= snapshot THEN [session[i] EXCEPT !.live = FALSE, !.late = FALSE]
        ELSE [session[i] EXCEPT !.late = TRUE]]

ChangesAuthority(c) == c.role # None \/ c.active # None

\* History: what the requests still in progress have read is now out of date.
Outdated(r, e, c) ==
    IF r = None THEN None
    ELSE IF r.op = "login" /\ r.email = e /\ c.password # None THEN [r EXCEPT !.late = TRUE]
    ELSE IF r.op = "update_user" /\ ChangesAuthority(c) THEN [r EXCEPT !.stale = TRUE]
    ELSE r

\* One UPDATE by id of the fields given; for a new password, the UPDATE of the
\* sessions follows it, which sees as many as are committed by then.
WriteUser(q) ==
    LET r == request[q] IN
    /\ Handling(q, "update_user")
    /\ r.snapshot = None
    /\ ~RowLocked(r.email)
    /\ request' = [request EXCEPT ![q].snapshot =
                     IF r.change.password = None THEN 0 ELSE Len(session)]
    /\ UNCHANGED <<account, session, token, served, raced, undone>>

CommitUpdate(q) ==
    LET r == request[q] IN
    /\ Handling(q, "update_user")
    /\ r.snapshot # None
    /\ account' = [account EXCEPT ![r.email] = Updated(@, r.change)]
    /\ session' = IF r.change.password = None THEN session ELSE Revoked(r.email, r.snapshot)
    /\ raced' = (raced \/ (r.stale /\ ChangesAuthority(r.change)))
    /\ undone' = IF r.change.password = None THEN undone ELSE undone \ {r.email}
    /\ request' = [x \in Request |-> IF x = q THEN None ELSE Outdated(request[x], r.email, r.change)]
    /\ UNCHANGED <<token, served>>

-----------------------------------------------------------------------------
(* Personal access tokens *)

\* The name is compared with the tokens the owner can list, the revoked ones
\* left out.
CreateToken(q, by, n, scope) ==
    /\ Admit(q, [op |-> "create_token", email |-> by, name |-> n, scope |-> scope])
    /\ Authenticated(by)
    /\ ~LiveToken(by, n)
    /\ UNCHANGED <<account, session, token, raced, undone>>

\* The unique key is over every token, revoked or not.
CommitToken(q) ==
    LET r == request[q] IN
    /\ Handling(q, "create_token")
    /\ token[<<r.email, r.name>>] = None
    /\ token' = [token EXCEPT ![<<r.email, r.name>>] = [scope |-> r.scope, live |-> TRUE]]
    /\ Answer(q)
    /\ UNCHANGED <<account, session, served, raced, undone>>

RevokeToken(by, n) ==
    /\ served < MaxRequests
    /\ served' = served + 1
    /\ Authenticated(by)
    /\ LiveToken(by, n)
    /\ token' = [token EXCEPT ![<<by, n>>].live = FALSE]
    /\ UNCHANGED <<account, session, request, raced, undone>>

-----------------------------------------------------------------------------
AccountsNext ==
    \/ Upgrade
    \/ \E i \in DOMAIN session : EndSession(i)
    \/ \E by \in Email, n \in TokenName : RevokeToken(by, n)
    \/ \E q \in Request :
        \/ Rollback(q)
        \/ \E e \in FirstAdmin, p \in Password : Bootstrap(q, e, p)
        \/ CommitBootstrap(q)
        \/ \E e \in Email, p \in Password : Login(q, e, p)
        \/ CommitLogin(q)
        \/ \E by, e \in Email, p \in Password, role \in Role : CreateUser(q, by, e, p, role)
        \/ CommitUser(q)
        \/ \E by, e \in Email, c \in Change : UpdateUser(q, by, e, c)
        \/ WriteUser(q)
        \/ CommitUpdate(q)
        \/ \E by \in Email, n \in TokenName, scope \in Scope : CreateToken(q, by, n, scope)
        \/ CommitToken(q)

-----------------------------------------------------------------------------
(* Properties *)

\* Every row is one its table admits, and belongs to an account that exists.
AccountsTypeOK ==
    /\ account \in [Email -> User \cup {None}]
    /\ session \in Seq(SessionRow)
    /\ \A i \in DOMAIN session : Exists(session[i].user)
    /\ token \in [Email \X TokenName -> TokenRow \cup {None}]
    /\ \A e \in Email, n \in TokenName : token[<<e, n>>] # None => Exists(e)
    /\ served \in 0 .. MaxRequests
    /\ raced \in BOOLEAN
    /\ undone \subseteq Email

\* Once an instance has an account, somebody can administer it (users.py,
\* update_user): no sequence of promotions, demotions, deactivations and
\* password changes locks everyone out.  Excused are the changes of authority
\* that were decided on accounts another change has altered since: the test
\* and the UPDATE are separate statements, and two administrators who demote
\* each other both pass it.
SomebodyAdministers ==
    ~raced /\ (\E e \in Email : Exists(e)) => ActiveAdmins # {}

\* A new password ends what the old one opened (identity.py, update_user:
\* "that is the point of changing it"): every live session was opened with the
\* password its account has now, through rehashing, upgrades, logging out and
\* concurrent changes.  Excused, until the next change, is a login that read
\* the old hash and overlapped the last one: its session was committed after
\* the statement that revokes, whether before or after the commit of the
\* change.  So is an account whose new password such a login's rehash has
\* overwritten.
SessionsFollowThePassword ==
    \A i \in DOMAIN session :
        LET s == session[i] IN
        s.live /\ ~s.late /\ s.user \notin undone => account[s.user].password = s.password

=============================================================================
