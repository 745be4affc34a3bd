------------------------------ MODULE Accounts ------------------------------
(***************************************************************************)
(* How people get into the workspace: invite links, logins, sessions and    *)
(* password resets (user.service.ts, auth.service.ts, session.ts).  A       *)
(* handler reads the user, hashes or verifies a password for a long time,   *)
(* and then updates the row by id with what it decided from the read; there *)
(* is no transaction around the two.                                        *)
(*                                                                          *)
(* raced is a history flag: of a request, when the row changed under it; of *)
(* a session or a row, when a raced request made it what it is.             *)
(***************************************************************************)
EXTENDS Integers, FiniteSets

CONSTANTS
    User, Password, Token,
    Request,        \* requests that may be in flight at once
    InviteTtl, ResendCooldown,
    MaxVersion,     \* bound on the resets of one user
    LastHour,       \* bound on the clock
    None

ASSUME AccountsAssumption ==
    /\ InviteTtl \in Nat /\ ResendCooldown \in Nat /\ MaxVersion \in Nat /\ LastHour \in Nat
    /\ ResendCooldown <= InviteTtl
    /\ None \notin Password \cup Token \cup User \cup Request

VARIABLES
    now,
    account,        \* account[u]: the users row
    issued,         \* the invite tokens that have been handed out
    spent,          \* those that an accept has used
    sessions,       \* the cookies out there
    request         \* request[r]: what request r is doing

vars == <<now, account, issued, spent, sessions, request>>

Status == {"unborn", "invited", "active", "suspended", "deleted"}
Account == [status: Status, password: Password \cup {None}, version: 0..MaxVersion,
            token: Token \cup {None}, expires: Nat \cup {None}, raced: BOOLEAN]
NoAccount == [status |-> "unborn", password |-> None, version |-> 0,
              token |-> None, expires |-> None, raced |-> FALSE]

Session == [user: User, version: 0..MaxVersion, password: Password, raced: BOOLEAN]

Phase == {"idle", "setToken", "accept", "reset", "login"}
RequestFields == [phase: Phase, user: User \cup {None}, password: Password \cup {None},
                  token: Token \cup {None}, spent: BOOLEAN, wasInvited: BOOLEAN, raced: BOOLEAN]

\* What the second half of a handler needs to know is there.
Carries(q) ==
    /\ q.phase # "idle" => q.user # None
    /\ q.phase \in {"accept", "reset", "login"} => q.password # None
    /\ q.phase = "accept" => q.token # None

RequestState == {q \in RequestFields : Carries(q)}
Idle == [phase |-> "idle", user |-> None, password |-> None, token |-> None,
         spent |-> FALSE, wasInvited |-> FALSE, raced |-> FALSE]

Exists(u) == account[u].status \notin {"unborn", "deleted"}

Init ==
    /\ now = 0
    /\ account \in [User -> {NoAccount} \cup
            {[NoAccount EXCEPT !.status = "active", !.password = p] : p \in Password}]
    /\ issued = {} /\ spent = {} /\ sessions = {}
    /\ request = [r \in Request |-> Idle]

-----------------------------------------------------------------------------
Begins(r, to) ==
    /\ request[r].phase = "idle"
    /\ request' = [request EXCEPT ![r] = to]

Ends(r) == request' = [request EXCEPT ![r] = Idle]

\* The requests in flight for user u, other than r, are overtaken by a write.
Races(r, u) ==
    request' = [q \in Request |->
                  IF q = r THEN Idle
                  ELSE IF request[q].user = u THEN [request[q] EXCEPT !.raced = TRUE]
                  ELSE request[q]]

Writes(u, row) == account' = [account EXCEPT ![u] = row]

\* createUser, as inviteUser calls it, gives the row a password nobody knows.
InviteUser(r, u) ==
    /\ account[u].status = "unborn"
    /\ Writes(u, [NoAccount EXCEPT !.status = "invited"])
    /\ Begins(r, [Idle EXCEPT !.phase = "setToken", !.user = u])
    /\ UNCHANGED <<now, issued, spent, sessions>>

\* The token comes in a statement of its own; should it be too late, or fail, the
\* user stays without a link.
SetToken(r) ==
    LET u == request[r].user IN
    /\ request[r].phase = "setToken"
    /\ \E t \in Token \ issued :
         /\ Writes(u, IF Exists(u) THEN [account[u] EXCEPT !.token = t, !.expires = now + InviteTtl]
                                   ELSE account[u])
         /\ issued' = issued \cup {t}
    /\ Races(r, u)
    /\ UNCHANGED <<now, spent, sessions>>

\* Status and cooldown are part of the UPDATE's WHERE clause.
ReissueInvite(u) ==
    /\ account[u].status = "invited"
    /\ account[u].expires # None => account[u].expires < now + InviteTtl - ResendCooldown
    /\ \E t \in Token \ issued :
         /\ Writes(u, [account[u] EXCEPT !.token = t, !.expires = now + InviteTtl])
         /\ issued' = issued \cup {t}
    /\ Races(None, u)
    /\ UNCHANGED <<now, spent, sessions>>

CancelInvite(u) ==
    /\ account[u].status = "invited"
    /\ Writes(u, [NoAccount EXCEPT !.status = "deleted"])
    /\ Races(None, u)
    /\ UNCHANGED <<now, issued, spent, sessions>>

\* getUserByInviteToken: the row that holds the token, whatever its status.
ReadInvite(r, t, p) ==
    /\ \E u \in User :
         /\ Exists(u) /\ account[u].token = t /\ account[u].expires >= now
         /\ Begins(r, [Idle EXCEPT !.phase = "accept", !.user = u, !.token = t,
                                   !.password = p, !.spent = spent \cap {t} # {}])
    /\ UNCHANGED <<now, account, issued, spent, sessions>>

\* Mutant: the cookie is signed without the session version.
OpensUnversioned(u, p, raced) ==
    sessions' = sessions \cup
        {[user |-> u, version |-> None, password |-> p, raced |-> raced]}

Opens(u, p, raced) ==
    sessions' = sessions \cup
        {[user |-> u, version |-> account[u].version, password |-> p, raced |-> raced]}

\* Mutant: the link is left in the row.
ActivatedWithLink(row, p, raced) ==
    [row EXCEPT !.status = "active", !.password = p, !.raced = @ \/ raced]

Activated(row, p, raced) ==
    [row EXCEPT !.status = "active", !.password = p, !.token = None, !.expires = None,
                !.raced = @ \/ raced]

\* The UPDATE by id, and the session of the user it returns.  PATCH may have
\* made the account active without its link: then accepting it is a race too.
AcceptInvite(r) ==
    LET q == request[r]
        raced == q.raced \/ account[q.user].status # "invited" IN
    /\ q.phase = "accept"
    /\ IF Exists(q.user)
       THEN /\ Writes(q.user, Activated(account[q.user], q.password, raced))
            /\ spent' = spent \cup {q.token}
            /\ Opens(q.user, q.password, raced)
            /\ Races(r, q.user)
       ELSE Ends(r) /\ UNCHANGED <<account, spent, sessions>>
    /\ UNCHANGED <<now, issued>>

ReadForReset(r, u, p) ==
    /\ Exists(u) /\ account[u].version < MaxVersion
    /\ Begins(r, [Idle EXCEPT !.phase = "reset", !.user = u, !.password = p,
                              !.wasInvited = account[u].status = "invited"])
    /\ UNCHANGED <<now, account, issued, spent, sessions>>

\* Mutant: whoever gets a new password is activated.
ResetActivates(row, q) == [Activated(row, q.password, FALSE) EXCEPT !.version = row.version + 1]

\* Mutant: the sessions are left alone.
ResetWithoutVersion(row, q) ==
    IF q.wasInvited THEN Activated(row, q.password, FALSE)
                    ELSE [row EXCEPT !.password = q.password]

Reset(row, q) ==
    [IF q.wasInvited THEN Activated(row, q.password, FALSE)
                     ELSE [row EXCEPT !.password = q.password]
     EXCEPT !.version = row.version + 1]

ResetPassword(r) ==
    LET q == request[r] IN
    /\ q.phase = "reset" /\ account[q.user].version < MaxVersion
    /\ Writes(q.user, IF Exists(q.user) THEN Reset(account[q.user], q) ELSE account[q.user])
    /\ Races(r, q.user)
    /\ UNCHANGED <<now, issued, spent, sessions>>

\* The password is right for the hash that was read, and the account was active.
VerifyPassword(r, u, p) ==
    /\ account[u].status = "active" /\ account[u].password = p
    /\ Begins(r, [Idle EXCEPT !.phase = "login", !.user = u, !.password = p])
    /\ UNCHANGED <<now, account, issued, spent, sessions>>

\* lastLoginAt is updated, and the row that the UPDATE returns is signed.
Login(r) ==
    LET q == request[r] IN
    /\ q.phase = "login"
    /\ IF Exists(q.user) THEN Opens(q.user, q.password, q.raced) ELSE UNCHANGED sessions
    /\ Ends(r)
    /\ UNCHANGED <<now, account, issued, spent>>

\* PATCH /admin/users/:id, and its DELETE; Owners says when they are refused.
PatchStatus(u) ==
    /\ Exists(u)
    /\ \E status \in {"active", "suspended"} : Writes(u, [account[u] EXCEPT !.status = status])
    /\ Races(None, u)
    /\ UNCHANGED <<now, issued, spent, sessions>>

DeleteUser(u) ==
    /\ Exists(u)
    /\ Writes(u, [NoAccount EXCEPT !.status = "deleted"])
    /\ Races(None, u)
    /\ UNCHANGED <<now, issued, spent, sessions>>

\* A statement or the hashing fails, or the process dies.
Fails(r) ==
    /\ request[r].phase # "idle"
    /\ Ends(r)
    /\ UNCHANGED <<now, account, issued, spent, sessions>>

\* The JWT's seven days are over.
SessionEnds ==
    /\ \E s \in sessions : sessions' = sessions \ {s}
    /\ UNCHANGED <<now, account, issued, spent, request>>

Tick ==
    /\ now < LastHour
    /\ now' = now + 1
    /\ UNCHANGED <<account, issued, spent, sessions, request>>

Next ==
    \/ \E r \in Request, u \in User :
         \/ InviteUser(r, u)
         \/ \E p \in Password : ReadForReset(r, u, p) \/ VerifyPassword(r, u, p)
    \/ \E r \in Request, t \in Token, p \in Password : ReadInvite(r, t, p)
    \/ \E r \in Request : SetToken(r) \/ AcceptInvite(r) \/ ResetPassword(r) \/ Login(r) \/ Fails(r)
    \/ \E u \in User : ReissueInvite(u) \/ CancelInvite(u) \/ PatchStatus(u) \/ DeleteUser(u)
    \/ SessionEnds
    \/ Tick

Spec == Init /\ [][Next]_vars

-----------------------------------------------------------------------------
\* The variables have these types.
TypeOK ==
    /\ now \in 0..LastHour
    /\ account \in [User -> Account]
    /\ issued \subseteq Token /\ spent \subseteq Token
    /\ sessions \subseteq Session
    /\ request \in [Request -> RequestState]

\* What the authPlugin asks of a cookie on every request.
Authentic(s) ==
    account[s.user].status = "active" /\ account[s.user].version = s.version

\* A new password locks out whoever came in with an old one: a session opened with
\* a password that has been replaced since is refused, unless its login overlapped
\* the replacement or an overtaken accept replaced it (resetPassword, auth.ts:206).
OldPasswordsAreLockedOut ==
    \A s \in sessions :
        (Authentic(s) /\ s.password # account[s.user].password) =>
            s.raced \/ account[s.user].raced

\* A link that was used cannot be used again: an accept that begins after another
\* has succeeded with the same token fails (acceptInvite).
LinkWorksOnce ==
    [][\A r \in Request :
         (request[r].phase = "accept" /\ request'[r].phase = "idle" /\ <<account, sessions>>' # <<account, sessions>>)
         => ~request[r].spent]_vars

\* A reset lifts no suspension, unless the row changed while it was hashing.
ResetKeepsSuspension ==
    [][\A r \in Request :
         (/\ request[r].phase = "reset" /\ request'[r].phase = "idle" /\ account' # account
          /\ account[request[r].user].status = "suspended" /\ ~request[r].raced)
         => account'[request[r].user].status = "suspended"]_vars
=============================================================================
