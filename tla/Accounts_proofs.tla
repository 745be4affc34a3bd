--------------------------- MODULE Accounts_proofs ---------------------------
(***************************************************************************)
(* Proofs about accounts, links and sessions (Accounts), for any users,     *)
(* passwords, tokens and requests in flight.                                *)
(***************************************************************************)
EXTENDS Accounts, TLAPS

\* Rows the handlers write.
LEMMA RowTypes ==
    ASSUME NEW row \in Account, NEW p \in Password, NEW raced \in BOOLEAN
    PROVE  /\ Activated(row, p, raced) \in Account
           /\ Activated(row, p, raced).version = row.version
           /\ \A t \in Token, e \in Nat : [row EXCEPT !.token = t, !.expires = e] \in Account
           /\ \A s \in Status : [row EXCEPT !.status = s] \in Account
           /\ [row EXCEPT !.password = p] \in Account
<1>1. (row.raced \/ raced) \in BOOLEAN
  OBVIOUS
<1>2. Activated(row, p, raced) \in Account /\ Activated(row, p, raced).version = row.version
  <2> DEFINE overtaken == row.raced \/ raced
  <2>1. Activated(row, p, raced) = [row EXCEPT !.status = "active", !.password = p, !.token = None,
                                               !.expires = None, !.raced = overtaken]
    BY DEF Activated, Account
  <2>2. overtaken \in BOOLEAN
    OBVIOUS
  <2> HIDE DEF overtaken
  <2> QED
    BY <2>1, <2>2 DEF Account, Status
<1>3. \A t \in Token, e \in Nat : [row EXCEPT !.token = t, !.expires = e] \in Account
  BY DEF Account
<1>4. \A s \in Status : [row EXCEPT !.status = s] \in Account
  BY DEF Account
<1>5. [row EXCEPT !.password = p] \in Account
  BY DEF Account
<1> QED
  BY <1>2, <1>3, <1>4, <1>5

\* A reset leaves an account of its type, its version one higher, and the status of
\* an account that was not invited.
LEMMA ResetType ==
    ASSUME NEW row \in Account, row.version < MaxVersion, NEW q \in RequestState, q.phase = "reset"
    PROVE  /\ Reset(row, q) \in Account
           /\ Reset(row, q).version = row.version + 1
           /\ ~q.wasInvited => Reset(row, q).status = row.status
<1>1. q.password \in Password
  BY DEF RequestState, RequestFields, Carries
<1>2. MaxVersion \in Nat
  BY AccountsAssumption
<1>3. Activated(row, q.password, FALSE) \in Account
      /\ Activated(row, q.password, FALSE).version = row.version
      /\ [row EXCEPT !.password = q.password] \in Account
  BY <1>1, RowTypes
<1> DEFINE half == IF q.wasInvited THEN Activated(row, q.password, FALSE)
                                   ELSE [row EXCEPT !.password = q.password]
<1>4. half \in Account /\ half.version = row.version /\ (~q.wasInvited => half.status = row.status)
  BY <1>3 DEF Account
<1>5. row.version + 1 \in 0..MaxVersion
  BY <1>2 DEF Account
<1>6. Reset(row, q) = [half EXCEPT !.version = row.version + 1]
  BY DEF Reset
<1> HIDE DEF half
<1> QED
  BY <1>4, <1>5, <1>6 DEF Account

\* The idle request, the absent account and the accounts Init makes have their types.
LEMMA BlankTypes ==
    /\ Idle \in RequestState
    /\ NoAccount \in Account
    /\ \A s \in Status : [NoAccount EXCEPT !.status = s] \in Account
    /\ \A p \in Password : [NoAccount EXCEPT !.status = "active", !.password = p] \in Account
<1>1. Idle \in RequestState
  BY DEF Idle, RequestState, RequestFields, Carries, Phase
<1>2. 0 \in 0..MaxVersion
  BY AccountsAssumption
<1>3. NoAccount \in Account
  BY <1>2 DEF NoAccount, Account, Status
<1>4. \A s \in Status : [NoAccount EXCEPT !.status = s] \in Account
  BY <1>3 DEF Account
<1>5. \A p \in Password : [NoAccount EXCEPT !.status = "active", !.password = p] \in Account
  BY <1>3 DEF Account, Status
<1> QED
  BY <1>1, <1>3, <1>4, <1>5

\* A write overtakes requests and leaves them well-typed; so does an end.
LEMMA RacesType ==
    ASSUME TypeOK, NEW r, NEW u, Races(r, u)
    PROVE  request' \in [Request -> RequestState]
<1> SUFFICES ASSUME NEW q \in Request PROVE request'[q] \in RequestState
  BY DEF Races
<1>1. request[q] \in RequestState
  BY DEF TypeOK
<1>2. [request[q] EXCEPT !.raced = TRUE] \in RequestState
  BY <1>1 DEF RequestState, RequestFields, Carries
<1> QED
  BY <1>1, <1>2, BlankTypes DEF Races

\* A request that ends leaves every request of its type.
LEMMA EndsType ==
    ASSUME TypeOK, NEW r \in Request, Ends(r)
    PROVE  request' \in [Request -> RequestState]
BY BlankTypes DEF Ends, TypeOK

\* A request that begins leaves every request of its type.
LEMMA BeginsType ==
    ASSUME TypeOK, NEW r \in Request, NEW to \in RequestState, Begins(r, to)
    PROVE  request' \in [Request -> RequestState]
BY DEF Begins, TypeOK

\* A request under way knows its user, and what else its second half uses.
LEMMA RequestKnows ==
    ASSUME TypeOK, NEW r \in Request
    PROVE  /\ request[r].phase # "idle" => request[r].user \in User
           /\ request[r].phase \in {"accept", "reset", "login"} => request[r].password \in Password
           /\ request[r].phase = "accept" => request[r].token \in Token
           /\ request[r].raced \in BOOLEAN
BY DEF TypeOK, RequestState, RequestFields, Carries

\* A step keeps every variable in its type.
LEMMA TypeStep ==
    ASSUME TypeOK, [Next]_vars
    PROVE  TypeOK'
<1>a. now \in 0..LastHour /\ LastHour \in Nat /\ now + InviteTtl \in Nat
  BY AccountsAssumption DEF TypeOK
<1>b. \A u \in User : account[u] \in Account
  BY DEF TypeOK
<1>0. account \in [User -> Account] /\ request \in [Request -> RequestState]
  BY DEF TypeOK
<1>1. ASSUME NEW r \in Request, NEW u \in User, InviteUser(r, u) PROVE TypeOK'
  <2>1. [NoAccount EXCEPT !.status = "invited"] \in Account
    BY BlankTypes DEF Status
  <2>2. [Idle EXCEPT !.phase = "setToken", !.user = u] \in RequestState
    BY AccountsAssumption, BlankTypes DEF Idle, RequestState, RequestFields, Carries, Phase
  <2> QED
    BY <1>0, <1>1, <2>1, <2>2, BeginsType DEF InviteUser, Writes, TypeOK
<1>2. ASSUME NEW r \in Request, NEW u \in User, NEW p \in Password, ReadForReset(r, u, p) PROVE TypeOK'
  <2>1. [Idle EXCEPT !.phase = "reset", !.user = u, !.password = p,
                     !.wasInvited = account[u].status = "invited"] \in RequestState
    BY AccountsAssumption, BlankTypes DEF Idle, RequestState, RequestFields, Carries, Phase
  <2> QED
    BY <1>2, <2>1, BeginsType DEF ReadForReset, TypeOK
<1>3. ASSUME NEW r \in Request, NEW u \in User, NEW p \in Password, VerifyPassword(r, u, p) PROVE TypeOK'
  <2>1. [Idle EXCEPT !.phase = "login", !.user = u, !.password = p] \in RequestState
    BY AccountsAssumption, BlankTypes DEF Idle, RequestState, RequestFields, Carries, Phase
  <2> QED
    BY <1>3, <2>1, BeginsType DEF VerifyPassword, TypeOK
<1>4. ASSUME NEW r \in Request, NEW t \in Token, NEW p \in Password, ReadInvite(r, t, p) PROVE TypeOK'
  <2>1. PICK u \in User : Begins(r, [Idle EXCEPT !.phase = "accept", !.user = u, !.token = t,
                                                 !.password = p, !.spent = spent \cap {t} # {}])
    BY <1>4 DEF ReadInvite
  <2>2. [Idle EXCEPT !.phase = "accept", !.user = u, !.token = t,
                     !.password = p, !.spent = spent \cap {t} # {}] \in RequestState
    BY AccountsAssumption, BlankTypes DEF Idle, RequestState, RequestFields, Carries, Phase
  <2> QED
    BY <1>4, <2>1, <2>2, BeginsType DEF ReadInvite, TypeOK
<1>5. ASSUME NEW r \in Request, SetToken(r) PROVE TypeOK'
  <2>1. request[r].user \in User
    BY <1>5, RequestKnows DEF SetToken
  <2>2. PICK t \in Token : /\ Writes(request[r].user,
                                IF Exists(request[r].user)
                                THEN [account[request[r].user] EXCEPT !.token = t, !.expires = now + InviteTtl]
                                ELSE account[request[r].user])
                           /\ issued' = issued \cup {t}
    BY <1>5 DEF SetToken
  <2>3. account[request[r].user] \in Account /\ now + InviteTtl \in Nat
    BY <1>a, <1>b, <2>1
  <2>4. [account[request[r].user] EXCEPT !.token = t, !.expires = now + InviteTtl] \in Account
    BY <2>3 DEF Account
  <2>5. account' \in [User -> Account]
    BY <1>0, <2>2, <2>3, <2>4 DEF Writes
  <2>6. request' \in [Request -> RequestState]
    BY <1>5, RacesType DEF SetToken
  <2> QED
    BY <1>5, <2>2, <2>5, <2>6 DEF SetToken, TypeOK
<1>6. ASSUME NEW r \in Request, AcceptInvite(r) PROVE TypeOK'
  <2> DEFINE u == request[r].user
             p == request[r].password
             raced == request[r].raced \/ account[u].status # "invited"
  <2>1. u \in User /\ p \in Password /\ request[r].token \in Token /\ raced \in BOOLEAN
    BY <1>6, RequestKnows DEF AcceptInvite
  <2>2. account[u] \in Account
    BY <1>0, <2>1
  <2>3. Activated(account[u], p, raced) \in Account
    BY <2>1, <2>2, RowTypes
  <2>4. [user |-> u, version |-> account[u].version, password |-> p, raced |-> raced] \in Session
    BY <2>1, <2>2 DEF Session, Account
  <2>5. request' \in [Request -> RequestState]
    BY <1>6, RacesType, EndsType DEF AcceptInvite
  <2>6. CASE Exists(u)
    <3>1. /\ Writes(u, Activated(account[u], p, raced))
          /\ spent' = spent \cup {request[r].token}
          /\ Opens(u, p, raced)
      BY <1>6, <2>6 DEF AcceptInvite
    <3>2. account' \in [User -> Account]
      BY <1>0, <2>3, <3>1 DEF Writes
    <3>3. sessions' \subseteq Session
      BY <2>4, <3>1 DEF Opens, TypeOK
    <3> QED
      BY <1>6, <2>1, <2>5, <3>1, <3>2, <3>3 DEF AcceptInvite, TypeOK
  <2>7. CASE ~Exists(u)
    BY <1>6, <2>5, <2>7 DEF AcceptInvite, TypeOK
  <2> QED
    BY <2>6, <2>7
<1>7. ASSUME NEW r \in Request, ResetPassword(r) PROVE TypeOK'
  <2>1. request[r].user \in User /\ account[request[r].user] \in Account /\ request[r] \in RequestState
    BY <1>0, <1>7, RequestKnows DEF ResetPassword
  <2>2. Reset(account[request[r].user], request[r]) \in Account
    BY <1>7, <2>1, ResetType DEF ResetPassword
  <2>3. account' \in [User -> Account]
    BY <1>0, <1>7, <2>1, <2>2 DEF ResetPassword, Writes
  <2> QED
    BY <1>7, <2>3, RacesType DEF ResetPassword, TypeOK
<1>8. ASSUME NEW r \in Request, Login(r) PROVE TypeOK'
  <2>1. /\ request[r].user \in User /\ account[request[r].user] \in Account
        /\ request[r].password \in Password /\ request[r].raced \in BOOLEAN
    BY <1>0, <1>8, RequestKnows DEF Login
  <2>2. [user |-> request[r].user, version |-> account[request[r].user].version,
         password |-> request[r].password, raced |-> request[r].raced] \in Session
    BY <2>1 DEF Session, Account
  <2> QED
    BY <1>8, <2>2, EndsType DEF Login, Opens, TypeOK
<1>9. ASSUME NEW r \in Request, Fails(r) PROVE TypeOK'
  BY <1>9, EndsType DEF Fails, TypeOK
<1>10. ASSUME NEW u \in User, ReissueInvite(u) PROVE TypeOK'
  <2>1. PICK t \in Token : /\ Writes(u, [account[u] EXCEPT !.token = t, !.expires = now + InviteTtl])
                           /\ issued' = issued \cup {t}
    BY <1>10 DEF ReissueInvite
  <2>2. account[u] \in Account /\ now + InviteTtl \in Nat
    BY <1>a, <1>b
  <2>3. [account[u] EXCEPT !.token = t, !.expires = now + InviteTtl] \in Account
    BY <2>2 DEF Account
  <2> QED
    BY <1>0, <1>10, <2>1, <2>3, RacesType DEF ReissueInvite, Writes, TypeOK
<1>11. ASSUME NEW u \in User, CancelInvite(u) \/ DeleteUser(u) PROVE TypeOK'
  <2>1. [NoAccount EXCEPT !.status = "deleted"] \in Account
    BY BlankTypes DEF Status
  <2> QED
    BY <1>0, <1>11, <2>1, RacesType DEF CancelInvite, DeleteUser, Writes, TypeOK
<1>12. ASSUME NEW u \in User, PatchStatus(u) PROVE TypeOK'
  <2>1. PICK status \in {"active", "suspended"} : Writes(u, [account[u] EXCEPT !.status = status])
    BY <1>12 DEF PatchStatus
  <2>2. [account[u] EXCEPT !.status = status] \in Account
    BY <1>b DEF Account, Status
  <2> QED
    BY <1>0, <1>12, <2>1, <2>2, RacesType DEF PatchStatus, Writes, TypeOK
<1>13. ASSUME SessionEnds PROVE TypeOK'
  BY <1>13 DEF SessionEnds, TypeOK
<1>14. ASSUME Tick PROVE TypeOK'
  <2>1. now' \in 0..LastHour
    BY <1>a, <1>14 DEF Tick
  <2> QED
    BY <1>14, <2>1 DEF Tick, TypeOK
<1>15. ASSUME UNCHANGED vars PROVE TypeOK'
  BY <1>15 DEF vars, TypeOK
<1> QED
  BY <1>1, <1>2, <1>3, <1>4, <1>5, <1>6, <1>7, <1>8, <1>9, <1>10, <1>11, <1>12, <1>13, <1>14, <1>15 DEF Next

\* Every state is well-typed: no cookie is signed without a session version, and
\* the second half of a handler finds what the first half read (Accounts).
THEOREM TypeCorrect == Spec => []TypeOK
<1>1. Init => TypeOK
  <2> SUFFICES ASSUME Init PROVE TypeOK
    OBVIOUS
  <2>1. now \in 0..LastHour
    <3>1. now = 0 /\ LastHour \in Nat
      BY AccountsAssumption DEF Init
    <3> QED
      BY <3>1
  <2>2. account \in [User -> Account]
    <3>1. {NoAccount} \cup {[NoAccount EXCEPT !.status = "active", !.password = p] : p \in Password}
            \subseteq Account
      BY BlankTypes
    <3> QED
      BY <3>1 DEF Init
  <2>3. request \in [Request -> RequestState]
    BY BlankTypes DEF Init
  <2> QED
    BY <2>1, <2>2, <2>3 DEF Init, TypeOK
<1>2. TypeOK /\ [Next]_vars => TypeOK'
  BY TypeStep
<1> QED
  BY <1>1, <1>2, PTL DEF Spec

-----------------------------------------------------------------------------
\* A token is in at most one row, is not there once it has been used, and the
\* accepts that are under way began before it was.
LinksAreUnique ==
    /\ spent \subseteq issued
    /\ \A u \in User : account[u].token \in issued \cup {None} /\ account[u].token \notin spent
    /\ \A u, v \in User : u # v /\ account[u].token # None => account[v].token # account[u].token
    /\ \A r \in Request : request[r].phase = "accept" =>
         /\ request[r].token \in issued /\ ~request[r].spent
         /\ \A v \in User : v # request[r].user => account[v].token # request[r].token

\* Rows lose their tokens, or one of them gets a token that is new.
LEMMA TokensStep ==
    ASSUME TypeOK, [Next]_vars
    PROVE  \/ /\ issued' = issued
              /\ \A u \in User : account'[u].token \in {account[u].token, None}
           \/ \E t \in Token \ issued, u \in User :
                /\ issued' = issued \cup {t}
                /\ account'[u].token \in {account[u].token, t}
                /\ \A v \in User \ {u} : account'[v] = account[v]
<1> DEFINE Lost == issued' = issued /\ \A u \in User : account'[u].token \in {account[u].token, None}
           Issued == \E t \in Token \ issued, u \in User :
                       /\ issued' = issued \cup {t}
                       /\ account'[u].token \in {account[u].token, t}
                       /\ \A v \in User \ {u} : account'[v] = account[v]
<1>0. account \in [User -> Account] /\ \A u \in User : account[u] \in Account
  BY DEF TypeOK
<1>1. ASSUME NEW u \in User, NEW row, Writes(u, row), row.token \in {account[u].token, None}, issued' = issued
      PROVE  Lost
  BY <1>0, <1>1 DEF Writes
<1>2. ASSUME NEW r \in Request, NEW u \in User, InviteUser(r, u) PROVE Lost
  <2>1. [NoAccount EXCEPT !.status = "invited"].token = None
    BY DEF NoAccount
  <2> QED
    BY <1>1, <1>2, <2>1 DEF InviteUser
<1>3. ASSUME NEW r \in Request, SetToken(r) PROVE Issued
  <2> DEFINE u == request[r].user
  <2>1. u \in User
    BY <1>3, RequestKnows DEF SetToken
  <2>2. PICK t \in Token \ issued :
          /\ Writes(u, IF Exists(u) THEN [account[u] EXCEPT !.token = t, !.expires = now + InviteTtl]
                                    ELSE account[u])
          /\ issued' = issued \cup {t}
    BY <1>3 DEF SetToken
  <2>3. [account[u] EXCEPT !.token = t, !.expires = now + InviteTtl].token = t
    BY <1>0, <2>1 DEF Account
  <2> HIDE DEF u
  <2>4. account'[u].token \in {account[u].token, t}
    BY <1>0, <2>1, <2>2, <2>3 DEF Writes
  <2>5. \A v \in User \ {u} : account'[v] = account[v]
    BY <1>0, <2>2 DEF Writes
  <2> QED
    BY <2>1, <2>2, <2>4, <2>5
<1>4. ASSUME NEW u \in User, ReissueInvite(u) PROVE Issued
  <2>1. PICK t \in Token \ issued : /\ Writes(u, [account[u] EXCEPT !.token = t, !.expires = now + InviteTtl])
                                    /\ issued' = issued \cup {t}
    BY <1>4 DEF ReissueInvite
  <2>2. [account[u] EXCEPT !.token = t, !.expires = now + InviteTtl].token = t
    BY <1>0 DEF Account
  <2>3. account'[u].token = t /\ \A v \in User \ {u} : account'[v] = account[v]
    BY <1>0, <2>1, <2>2 DEF Writes
  <2> QED
    BY <2>1, <2>3
<1>5. ASSUME NEW u \in User, CancelInvite(u) \/ DeleteUser(u) PROVE Lost
  <2>1. [NoAccount EXCEPT !.status = "deleted"].token = None
    BY DEF NoAccount
  <2> QED
    BY <1>1, <1>5, <2>1 DEF CancelInvite, DeleteUser
<1>6. ASSUME NEW r \in Request, AcceptInvite(r) PROVE Lost
  <2>1. request[r].user \in User
    BY <1>6, RequestKnows DEF AcceptInvite
  <2>2. ASSUME NEW p, NEW raced PROVE Activated(account[request[r].user], p, raced).token = None
    BY <1>0, <2>1 DEF Activated, Account
  <2> QED
    BY <1>1, <1>6, <2>1, <2>2 DEF AcceptInvite
<1>7. ASSUME NEW r \in Request, ResetPassword(r) PROVE Lost
  <2> DEFINE u == request[r].user
  <2>1. u \in User
    BY <1>7, RequestKnows DEF ResetPassword
  <2>2. Reset(account[u], request[r]).token \in {account[u].token, None}
    BY <1>0, <2>1 DEF Reset, Activated, Account
  <2>3. PICK row : Writes(u, row) /\ row.token \in {account[u].token, None}
    BY <1>7, <2>2 DEF ResetPassword
  <2> QED
    BY <1>1, <1>7, <2>1, <2>3 DEF ResetPassword
<1>8. ASSUME NEW u \in User, PatchStatus(u) PROVE Lost
  <2>1. PICK status : Writes(u, [account[u] EXCEPT !.status = status])
    BY <1>8 DEF PatchStatus
  <2>2. [account[u] EXCEPT !.status = status].token = account[u].token
    BY <1>0 DEF Account
  <2> QED
    BY <1>1, <1>8, <2>1, <2>2 DEF PatchStatus
<1>9. ASSUME UNCHANGED <<account, issued>> PROVE Lost
  BY <1>9
<1> QED
  BY <1>2, <1>3, <1>4, <1>5, <1>6, <1>7, <1>8, <1>9 DEF Next, ReadForReset, VerifyPassword, ReadInvite,
     Login, Fails, SessionEnds, Tick, vars

\* What a step does to a request: it ends, is overtaken, or begins.
LEMMA RequestsStep ==
    ASSUME TypeOK, [Next]_vars, NEW r \in Request
    PROVE  \/ request'[r] = request[r]
           \/ request'[r] = [request[r] EXCEPT !.raced = TRUE]
           \/ request'[r] = Idle
           \/ /\ request[r].phase = "idle" /\ UNCHANGED <<account, issued, spent, sessions>>
              /\ \/ \E u \in User, p \in Password : ReadForReset(r, u, p) \/ VerifyPassword(r, u, p)
                 \/ \E t \in Token, p \in Password : ReadInvite(r, t, p)
           \/ \E u \in User : InviteUser(r, u)
<1> DEFINE Kept == \/ request'[r] = request[r]
                   \/ request'[r] = [request[r] EXCEPT !.raced = TRUE]
                   \/ request'[r] = Idle
<1>0. request \in [Request -> RequestState]
  BY DEF TypeOK
<1>1. ASSUME NEW q, NEW u, Races(q, u) PROVE Kept
  BY <1>0, <1>1 DEF Races
<1>2. ASSUME NEW q \in Request, Ends(q) PROVE Kept
  BY <1>0, <1>2 DEF Ends
<1>3. ASSUME UNCHANGED request PROVE Kept
  BY <1>3
<1>4. ASSUME NEW q \in Request, NEW to, Begins(q, to), q # r PROVE Kept
  BY <1>0, <1>4 DEF Begins
<1>5. ASSUME NEW q \in Request, NEW u \in User, NEW p \in Password, ReadForReset(q, u, p) \/ VerifyPassword(q, u, p)
      PROVE  Kept \/ (q = r /\ request[r].phase = "idle" /\ UNCHANGED <<account, issued, spent, sessions>>)
  BY <1>4, <1>5 DEF ReadForReset, VerifyPassword, Begins
<1>6. ASSUME NEW q \in Request, NEW t \in Token, NEW p \in Password, ReadInvite(q, t, p)
      PROVE  Kept \/ (q = r /\ request[r].phase = "idle" /\ UNCHANGED <<account, issued, spent, sessions>>)
  BY <1>4, <1>6 DEF ReadInvite, Begins
<1>7. ASSUME NEW q \in Request, NEW u \in User, InviteUser(q, u) PROVE Kept \/ q = r
  BY <1>4, <1>7 DEF InviteUser
<1>8. ASSUME NEW q \in Request, SetToken(q) \/ AcceptInvite(q) \/ ResetPassword(q) \/ Login(q) \/ Fails(q) PROVE Kept
  BY <1>1, <1>2, <1>8 DEF SetToken, AcceptInvite, ResetPassword, Login, Fails
<1>9. ASSUME NEW u \in User, ReissueInvite(u) \/ CancelInvite(u) \/ PatchStatus(u) \/ DeleteUser(u) PROVE Kept
  BY <1>1, <1>9 DEF ReissueInvite, CancelInvite, PatchStatus, DeleteUser
<1>10. ASSUME SessionEnds \/ Tick \/ UNCHANGED vars PROVE Kept
  BY <1>3, <1>10 DEF SessionEnds, Tick, vars
<1> HIDE DEF Kept
<1>11. \/ Kept
       \/ /\ request[r].phase = "idle" /\ UNCHANGED <<account, issued, spent, sessions>>
          /\ \/ \E u \in User, p \in Password : ReadForReset(r, u, p) \/ VerifyPassword(r, u, p)
             \/ \E t \in Token, p \in Password : ReadInvite(r, t, p)
       \/ \E u \in User : InviteUser(r, u)
  BY <1>5, <1>6, <1>7, <1>8, <1>9, <1>10 DEF Next
<1> QED
  BY <1>11 DEF Kept

\* Only an accept uses a token, and it empties the row that has it.
LEMMA SpentStep ==
    ASSUME TypeOK, [Next]_vars
    PROVE  \/ spent' = spent
           \/ \E r \in Request : /\ request[r].phase = "accept"
                                 /\ spent' = spent \cup {request[r].token}
                                 /\ issued' = issued
                                 /\ account'[request[r].user].token = None
                                 /\ \A v \in User \ {request[r].user} : account'[v] = account[v]
<1>0. account \in [User -> Account]
  BY DEF TypeOK
<1>1. ASSUME NEW r \in Request, AcceptInvite(r)
      PROVE  \/ spent' = spent
             \/ /\ request[r].phase = "accept" /\ spent' = spent \cup {request[r].token} /\ issued' = issued
                /\ account'[request[r].user].token = None
                /\ \A v \in User \ {request[r].user} : account'[v] = account[v]
  <2> DEFINE u == request[r].user
  <2>1. u \in User
    BY <1>1, RequestKnows DEF AcceptInvite
  <2>2. account[u] \in Account
    BY <1>0, <2>1
  <2>3. ASSUME NEW p, NEW raced PROVE Activated(account[u], p, raced).token = None
    BY <2>2 DEF Activated, Account
  <2> HIDE DEF u
  <2>4. ASSUME NEW row, Writes(u, row)
        PROVE  account'[u] = row /\ \A v \in User \ {u} : account'[v] = account[v]
    BY <1>0, <2>1, <2>4 DEF Writes
  <2> QED
    BY <1>1, <2>3, <2>4 DEF AcceptInvite, u
<1> QED
  BY <1>1 DEF Next, InviteUser, ReadForReset, VerifyPassword, ReadInvite, SetToken, ResetPassword, Login,
     Fails, ReissueInvite, CancelInvite, PatchStatus, DeleteUser, SessionEnds, Tick, vars

\* A step keeps LinksAreUnique.
LEMMA LinksStep ==
    ASSUME TypeOK, LinksAreUnique, [Next]_vars
    PROVE  LinksAreUnique'
<1>0. /\ spent \subseteq issued /\ issued \subseteq Token /\ None \notin Token
      /\ \A u \in User : account[u].token \in issued \cup {None} /\ account[u].token \notin spent
      /\ \A u, v \in User : u # v /\ account[u].token # None => account[v].token # account[u].token
      /\ \A r \in Request : request[r].phase = "accept" =>
           /\ request[r].token \in issued /\ ~request[r].spent
           /\ \A v \in User : v # request[r].user => account[v].token # request[r].token
  BY AccountsAssumption DEF LinksAreUnique, TypeOK
<1>1. issued \subseteq issued' /\ spent' \subseteq issued'
  BY <1>0, TokensStep, SpentStep
<1>2. ASSUME NEW u \in User PROVE account'[u].token \in issued' \cup {None}
  BY <1>0, <1>1, TokensStep
<1>3. ASSUME NEW u \in User PROVE account'[u].token \notin spent'
  <2>1. CASE spent' = spent
    BY <1>0, <2>1, TokensStep
  <2>2. CASE \E r \in Request : /\ request[r].phase = "accept" /\ spent' = spent \cup {request[r].token}
                                /\ account'[request[r].user].token = None
                                /\ \A v \in User \ {request[r].user} : account'[v] = account[v]
    BY <1>0, <2>2
  <2> QED
    BY <2>1, <2>2, SpentStep
<1>4. ASSUME NEW u \in User, NEW v \in User, u # v, account'[u].token # None
      PROVE  account'[v].token # account'[u].token
  BY <1>0, <1>4, TokensStep
<1>5. ASSUME NEW r \in Request, request'[r].phase = "accept"
      PROVE  /\ request'[r].token \in issued' /\ ~request'[r].spent
             /\ \A v \in User : v # request'[r].user => account'[v].token # request'[r].token
  <2> DEFINE Held == /\ request'[r].token \in issued' /\ ~request'[r].spent
                     /\ \A v \in User : v # request'[r].user => account'[v].token # request'[r].token
  <2>0. request[r] \in RequestFields /\ request \in [Request -> RequestState]
    BY DEF TypeOK, RequestState
  <2>1. ASSUME request'[r].phase = request[r].phase, request'[r].token = request[r].token,
               request'[r].user = request[r].user, request'[r].spent = request[r].spent
        PROVE  Held
    <3>1. request[r].token \in issued /\ request[r].token # None
      BY <1>0, <1>5, <2>1
    <3> QED
      BY <1>0, <1>1, <1>5, <2>1, <3>1, TokensStep
  <2>2. CASE request'[r] = [request[r] EXCEPT !.raced = TRUE]
    <3>1. /\ request'[r].phase = request[r].phase /\ request'[r].token = request[r].token
          /\ request'[r].user = request[r].user /\ request'[r].spent = request[r].spent
      BY <2>0, <2>2 DEF RequestFields
    <3> QED
      BY <2>1, <3>1
  <2>3. ASSUME NEW u \in User, NEW p, ReadForReset(r, u, p) \/ VerifyPassword(r, u, p) PROVE FALSE
    BY <1>5, <2>0, <2>3 DEF ReadForReset, VerifyPassword, Begins, Idle
  <2>4. ASSUME NEW t \in Token, NEW p, ReadInvite(r, t, p) PROVE Held
    <3>1. PICK u \in User : /\ account[u].token = t
                            /\ Begins(r, [Idle EXCEPT !.phase = "accept", !.user = u, !.token = t,
                                          !.password = p, !.spent = spent \cap {t} # {}])
                            /\ UNCHANGED <<account, issued, spent>>
      BY <2>4 DEF ReadInvite
    <3>2. t \in issued /\ t \notin spent /\ t # None
      BY <1>0, <3>1
    <3>3. request'[r].token = t /\ request'[r].user = u /\ request'[r].spent = (spent \cap {t} # {})
      BY <2>0, <3>1 DEF Begins, Idle
    <3>4. \A v \in User : v # u => account'[v].token # t
      BY <1>0, <3>1, <3>2
    <3> QED
      BY <3>1, <3>2, <3>3, <3>4
  <2>5. ASSUME NEW u \in User, InviteUser(r, u) PROVE FALSE
    BY <1>5, <2>0, <2>5 DEF InviteUser, Begins, Idle
  <2>6. request'[r] # Idle
    BY <1>5 DEF Idle
  <2> QED
    BY <2>1, <2>2, <2>3, <2>4, <2>5, <2>6, RequestsStep
<1> QED
  BY <1>1, <1>2, <1>3, <1>4, <1>5 DEF LinksAreUnique

\* An invite link that was used cannot be used again: no accept that begins
\* afterwards changes anything (acceptInvite).
THEOREM LinksWorkOnce == Spec => LinkWorksOnce
<1>1. Init => LinksAreUnique
  <2> SUFFICES ASSUME Init PROVE LinksAreUnique
    OBVIOUS
  <2>1. \A u \in User : account[u].token = None
    <3>1. NoAccount.token = None
          /\ \A p \in Password : [NoAccount EXCEPT !.status = "active", !.password = p].token = None
      BY DEF NoAccount
    <3>2. ASSUME NEW u \in User
          PROVE  account[u] \in {NoAccount} \cup
                   {[NoAccount EXCEPT !.status = "active", !.password = p] : p \in Password}
      BY DEF Init
    <3> QED
      BY <3>1, <3>2
  <2>2. issued = {} /\ spent = {} /\ \A r \in Request : request[r].phase = "idle"
    BY DEF Init, Idle
  <2> QED
    BY <2>1, <2>2 DEF LinksAreUnique
<1>2. TypeOK /\ LinksAreUnique /\ [Next]_vars => LinksAreUnique'
  BY LinksStep
<1>3. LinksAreUnique =>
        [\A r \in Request :
          (request[r].phase = "accept" /\ request'[r].phase = "idle" /\ <<account, sessions>>' # <<account, sessions>>)
          => ~request[r].spent]_vars
  BY DEF LinksAreUnique
<1> QED
  BY <1>1, <1>2, <1>3, TypeCorrect, PTL DEF Spec, LinkWorksOnce

-----------------------------------------------------------------------------
\* What a step may do to the row of user u.
Untouched(u) == account'[u] = account[u]
Invited(u) == account[u].status = "unborn" /\ account'[u].status = "invited"
Gone(u) == Exists(u) /\ account'[u].status = "deleted"
Moved(u) ==
    /\ Exists(u)
    /\ account'[u].password = account[u].password /\ account'[u].version = account[u].version
    /\ account'[u].raced = account[u].raced
    /\ account'[u].status \in {account[u].status, "active", "suspended"}
Accepted(u) ==
    /\ Exists(u)
    /\ account'[u].version = account[u].version /\ account'[u].status = "active"
    /\ account[u].status # "invited" => account'[u].raced
Replaced(u) ==
    /\ Exists(u)
    /\ account'[u].version = account[u].version + 1
    /\ account'[u].status \in {account[u].status, "active"}

\* A row that changes, other than by being invited, overtakes the requests for it.
LEMMA RowStep ==
    ASSUME TypeOK, [Next]_vars, NEW u \in User
    PROVE  \/ Untouched(u)
           \/ Invited(u) /\ \E r \in Request : InviteUser(r, u)
           \/ (Gone(u) \/ Moved(u) \/ Accepted(u) \/ Replaced(u)) /\ \E r : Races(r, u)
<1> DEFINE Done == \/ Untouched(u)
                   \/ (Gone(u) \/ Moved(u) \/ Accepted(u) \/ Replaced(u)) /\ \E r : Races(r, u)
<1>0. account \in [User -> Account] /\ account[u] \in Account
  BY DEF TypeOK
<1>1. ASSUME NEW v, NEW row, Writes(v, row) PROVE account'[u] = IF v = u THEN row ELSE account[u]
  BY <1>0, <1>1 DEF Writes
<1>2. ASSUME NEW r \in Request, NEW v \in User, InviteUser(r, v) PROVE Untouched(u) \/ (Invited(u) /\ InviteUser(r, u))
  <2>1. Writes(v, [NoAccount EXCEPT !.status = "invited"]) /\ account[v].status = "unborn"
    BY <1>2 DEF InviteUser
  <2>2. [NoAccount EXCEPT !.status = "invited"].status = "invited"
    BY DEF NoAccount
  <2>3. CASE u = v
    BY <1>1, <1>2, <2>1, <2>2, <2>3 DEF Invited
  <2>4. CASE u # v
    BY <1>1, <2>1, <2>4 DEF Untouched
  <2> QED
    BY <2>3, <2>4
<1>3. ASSUME NEW t, NEW e
      PROVE  /\ [account[u] EXCEPT !.token = t, !.expires = e].password = account[u].password
             /\ [account[u] EXCEPT !.token = t, !.expires = e].version = account[u].version
             /\ [account[u] EXCEPT !.token = t, !.expires = e].raced = account[u].raced
             /\ [account[u] EXCEPT !.token = t, !.expires = e].status = account[u].status
  BY <1>0 DEF Account
<1>4. ASSUME NEW r \in Request, SetToken(r) PROVE Done
  <2>1. PICK t : Writes(request[r].user,
                        IF Exists(request[r].user)
                        THEN [account[request[r].user] EXCEPT !.token = t, !.expires = now + InviteTtl]
                        ELSE account[request[r].user])
    BY <1>4 DEF SetToken
  <2>2. Races(r, request[r].user)
    BY <1>4 DEF SetToken
  <2>3. CASE u = request[r].user /\ Exists(u)
    <3>1. account'[u] = [account[u] EXCEPT !.token = t, !.expires = now + InviteTtl]
      BY <1>1, <2>1, <2>3
    <3>2. Moved(u)
      BY <1>3, <2>3, <3>1 DEF Moved
    <3> QED
      BY <2>2, <2>3, <3>2
  <2>4. CASE ~(u = request[r].user /\ Exists(u))
    BY <1>1, <2>1, <2>4 DEF Untouched
  <2> QED
    BY <2>3, <2>4
<1>5. ASSUME NEW v \in User, ReissueInvite(v) PROVE Done
  <2>1. PICK t : Writes(v, [account[v] EXCEPT !.token = t, !.expires = now + InviteTtl])
    BY <1>5 DEF ReissueInvite
  <2>2. Races(None, v) /\ Exists(v)
    BY <1>5 DEF ReissueInvite, Exists
  <2>3. CASE u = v
    <3>1. account'[u] = [account[u] EXCEPT !.token = t, !.expires = now + InviteTtl]
      BY <1>1, <2>1, <2>3
    <3>2. Moved(u)
      BY <1>3, <2>2, <2>3, <3>1 DEF Moved
    <3> QED
      BY <2>2, <2>3, <3>2
  <2>4. CASE u # v
    BY <1>1, <2>1, <2>4 DEF Untouched
  <2> QED
    BY <2>3, <2>4
<1>6. ASSUME NEW v \in User, PatchStatus(v) PROVE Done
  <2>1. PICK status \in {"active", "suspended"} : Writes(v, [account[v] EXCEPT !.status = status])
    BY <1>6 DEF PatchStatus
  <2>2. Races(None, v) /\ Exists(v)
    BY <1>6 DEF PatchStatus
  <2>3. CASE u = v
    <3>1. account'[u] = [account[u] EXCEPT !.status = status]
      BY <1>1, <2>1, <2>3
    <3>2. /\ account'[u].password = account[u].password /\ account'[u].version = account[u].version
          /\ account'[u].raced = account[u].raced /\ account'[u].status = status
      BY <1>0, <3>1 DEF Account
    <3>3. Moved(u)
      BY <2>2, <2>3, <3>2 DEF Moved
    <3> QED
      BY <2>2, <2>3, <3>3
  <2>4. CASE u # v
    BY <1>1, <2>1, <2>4 DEF Untouched
  <2> QED
    BY <2>3, <2>4
<1>7. ASSUME NEW v \in User, CancelInvite(v) \/ DeleteUser(v) PROVE Done
  <2>1. Writes(v, [NoAccount EXCEPT !.status = "deleted"]) /\ Races(None, v) /\ Exists(v)
    BY <1>7 DEF CancelInvite, DeleteUser, Exists
  <2>2. [NoAccount EXCEPT !.status = "deleted"].status = "deleted"
    BY DEF NoAccount
  <2>3. CASE u = v
    BY <1>1, <2>1, <2>2, <2>3 DEF Gone
  <2>4. CASE u # v
    BY <1>1, <2>1, <2>4 DEF Untouched
  <2> QED
    BY <2>1, <2>3, <2>4
<1>8. ASSUME NEW r \in Request, AcceptInvite(r) PROVE Done
  <2>1. CASE Exists(request[r].user) /\ u = request[r].user
    <3> DEFINE raced == request[r].raced \/ account[u].status # "invited"
    <3>1. Writes(u, Activated(account[u], request[r].password, raced)) /\ Races(r, u)
      BY <1>8, <2>1 DEF AcceptInvite
    <3>2. account'[u] = Activated(account[u], request[r].password, raced)
      BY <1>1, <3>1
    <3>3. /\ account'[u].version = account[u].version /\ account'[u].status = "active"
          /\ account'[u].raced = (account[u].raced \/ raced)
      BY <1>0, <3>2 DEF Activated, Account
    <3>4. Accepted(u)
      BY <2>1, <3>3 DEF Accepted
    <3> QED
      BY <3>1, <3>4
  <2>2. CASE ~Exists(request[r].user)
    BY <1>8, <2>2 DEF AcceptInvite, Untouched
  <2>3. CASE Exists(request[r].user) /\ u # request[r].user
    BY <1>1, <1>8, <2>3 DEF AcceptInvite, Untouched
  <2> QED
    BY <2>1, <2>2, <2>3
<1>9. ASSUME NEW r \in Request, ResetPassword(r) PROVE Done
  <2>1. Races(r, request[r].user)
    BY <1>9 DEF ResetPassword
  <2>2. CASE Exists(u) /\ u = request[r].user
    <3>1. account'[u] = Reset(account[u], request[r])
      BY <1>1, <1>9, <2>2 DEF ResetPassword
    <3>2. account'[u].version = account[u].version + 1
      BY <1>0, <3>1 DEF Reset, Activated, Account
    <3>3. account'[u].status \in {account[u].status, "active"}
      BY <1>0, <3>1 DEF Reset, Activated, Account
    <3>4. Replaced(u)
      BY <2>2, <3>2, <3>3 DEF Replaced
    <3> QED
      BY <2>1, <2>2, <3>4
  <2>3. CASE ~(Exists(u) /\ u = request[r].user)
    <3>1. PICK row : /\ Writes(request[r].user, row)
                     /\ ~Exists(request[r].user) => row = account[request[r].user]
      BY <1>9 DEF ResetPassword
    <3> QED
      BY <1>1, <2>3, <3>1 DEF Untouched
  <2> QED
    BY <2>2, <2>3
<1>10. ASSUME UNCHANGED account PROVE Done
  BY <1>10 DEF Untouched
<1> HIDE DEF Done
<1>11. Done \/ (Invited(u) /\ \E r \in Request : InviteUser(r, u))
  <2>1. ASSUME Untouched(u) PROVE Done
    BY <2>1 DEF Done
  <2> QED
    BY <1>2, <1>4, <1>5, <1>6, <1>7, <1>8, <1>9, <1>10, <2>1 DEF Next, ReadForReset, VerifyPassword, ReadInvite, Login,
       Fails, SessionEnds, Tick, vars
<1> QED
  BY <1>11 DEF Done

-----------------------------------------------------------------------------
\* A reset that has not been overtaken remembers the status the row has.
ResetsAreCurrent ==
    \A r \in Request : request[r].phase = "reset" /\ ~request[r].raced /\ request[r].wasInvited
        => account[request[r].user].status = "invited"

\* After a write to user u, no request for u is under way as if nothing had happened.
LEMMA Overtaken ==
    ASSUME TypeOK, NEW q, NEW u, Races(q, u), NEW r \in Request, request'[r].phase # "idle",
           request'[r].user = u
    PROVE  request'[r].raced
<1>1. request[r] \in RequestFields
  BY DEF TypeOK, RequestState
<1> QED
  BY <1>1 DEF Races, RequestFields, Idle

\* A step keeps ResetsAreCurrent.
LEMMA ResetsStep ==
    ASSUME TypeOK, ResetsAreCurrent, [Next]_vars
    PROVE  ResetsAreCurrent'
<1> SUFFICES ASSUME NEW r \in Request,
                    request'[r].phase = "reset", ~request'[r].raced, request'[r].wasInvited
             PROVE  account'[request'[r].user].status = "invited"
  BY DEF ResetsAreCurrent
<1>0. request[r] \in RequestFields /\ request \in [Request -> RequestState]
  BY DEF TypeOK, RequestState
<1>1. request'[r].user \in User
  <2>1. TypeOK'
    BY TypeStep
  <2> QED
    BY <2>1 DEF TypeOK, RequestState, RequestFields, Carries
<1>2. CASE request'[r] = request[r]
  <2> DEFINE u == request[r].user
  <2>1. account[u].status = "invited"
    BY <1>2 DEF ResetsAreCurrent
  <2>2. ASSUME NEW q, Races(q, u) PROVE FALSE
    BY <1>2, <2>2, Overtaken
  <2>3. u \in User
    BY <1>1, <1>2
  <2> HIDE DEF u
  <2>4. account'[u].status = "invited"
    BY <2>1, <2>2, <2>3, RowStep DEF Untouched, Invited
  <2> QED
    BY <1>2, <2>4 DEF u
<1>3. ASSUME NEW u \in User, NEW p, ReadForReset(r, u, p) PROVE account'[request'[r].user].status = "invited"
  <2>1. request'[r].user = u /\ request'[r].wasInvited = (account[u].status = "invited")
    BY <1>0, <1>3 DEF ReadForReset, Begins, Idle
  <2> QED
    BY <1>3, <2>1 DEF ReadForReset
<1>4. ASSUME NEW u \in User, NEW p, VerifyPassword(r, u, p) PROVE FALSE
  BY <1>0, <1>4 DEF VerifyPassword, Begins, Idle
<1>5. ASSUME NEW t \in Token, NEW p, ReadInvite(r, t, p) PROVE FALSE
  BY <1>0, <1>5 DEF ReadInvite, Begins, Idle
<1>6. ASSUME NEW u \in User, InviteUser(r, u) PROVE FALSE
  BY <1>0, <1>6 DEF InviteUser, Begins, Idle
<1>7. request'[r] # Idle
  BY DEF Idle
<1>8. CASE request'[r] = [request[r] EXCEPT !.raced = TRUE]
  BY <1>0, <1>8 DEF RequestFields
<1> QED
  BY <1>2, <1>3, <1>4, <1>5, <1>6, <1>7, <1>8, RequestsStep

\* A password reset lifts no suspension, unless the row changed while it was
\* hashing (resetPassword).
THEOREM ResetsKeepSuspensions == Spec => ResetKeepsSuspension
<1>1. Init => ResetsAreCurrent
  <2> SUFFICES ASSUME Init PROVE ResetsAreCurrent
    OBVIOUS
  <2>1. \A r \in Request : request[r].phase = "idle"
    BY DEF Init, Idle
  <2> QED
    BY <2>1 DEF ResetsAreCurrent
<1>2. TypeOK /\ ResetsAreCurrent /\ [Next]_vars => ResetsAreCurrent'
  BY ResetsStep
<1>3. TypeOK /\ ResetsAreCurrent /\ [Next]_vars =>
        [\A r \in Request :
          (/\ request[r].phase = "reset" /\ request'[r].phase = "idle" /\ account' # account
           /\ account[request[r].user].status = "suspended" /\ ~request[r].raced)
          => account'[request[r].user].status = "suspended"]_vars
  <2> SUFFICES ASSUME TypeOK, ResetsAreCurrent, [Next]_vars, NEW r \in Request,
                      request[r].phase = "reset", request'[r].phase = "idle", account' # account,
                      account[request[r].user].status = "suspended", ~request[r].raced
               PROVE  account'[request[r].user].status = "suspended"
    OBVIOUS
  <2> DEFINE u == request[r].user
  <2>0. /\ request[r] \in RequestState /\ request \in [Request -> RequestState]
        /\ u \in User /\ account \in [User -> Account]
    BY RequestKnows DEF TypeOK
  <2>1. ~request[r].wasInvited
    BY DEF ResetsAreCurrent
  <2>2. ASSUME ResetPassword(r) PROVE account'[u].status = "suspended"
    <3>1. account'[u] = Reset(account[u], request[r])
      BY <2>0, <2>2 DEF ResetPassword, Writes, Exists
    <3>2. account[u].version < MaxVersion
      BY <2>2 DEF ResetPassword
    <3>3. account[u] \in Account
      BY <2>0
    <3> QED
      BY <2>0, <2>1, <3>1, <3>2, <3>3, ResetType
  <2>3. ASSUME NEW q, NEW v, Races(q, v), q # r PROVE FALSE
    <3>1. request[r] \in RequestFields
      BY <2>0 DEF RequestState
    <3> QED
      BY <2>3, <3>1 DEF Races, RequestFields
  <2>4. ASSUME NEW q \in Request, NEW to, Begins(q, to) PROVE FALSE
    BY <2>0, <2>4 DEF Begins
  <2>5. ASSUME NEW q \in Request, Races(q, request[q].user), request[q].phase # "reset" PROVE FALSE
    BY <2>3, <2>5
  <2>6. ASSUME NEW v \in User, ReissueInvite(v) \/ CancelInvite(v) \/ PatchStatus(v) \/ DeleteUser(v) PROVE FALSE
    <3>1. Races(None, v)
      BY <2>6 DEF ReissueInvite, CancelInvite, PatchStatus, DeleteUser
    <3> QED
      BY <2>3, <3>1, AccountsAssumption
  <2>7. ASSUME NEW q \in Request, SetToken(q) PROVE FALSE
    BY <2>5, <2>7 DEF SetToken
  <2>8. ASSUME NEW q \in Request, AcceptInvite(q) PROVE FALSE
    BY <2>5, <2>8 DEF AcceptInvite
  <2>9. ASSUME NEW q \in Request, ResetPassword(q) PROVE q = r
    BY <2>3, <2>9 DEF ResetPassword
  <2>10. ASSUME NEW q \in Request, NEW v \in User, InviteUser(q, v) PROVE FALSE
    BY <2>4, <2>10 DEF InviteUser
  <2> QED
    BY <2>2, <2>6, <2>7, <2>8, <2>9, <2>10 DEF Next, ReadForReset, VerifyPassword, ReadInvite, Login, Fails,
       SessionEnds, Tick, vars
<1> QED
  BY <1>1, <1>2, <1>3, TypeCorrect, PTL DEF Spec, ResetKeepsSuspension

-----------------------------------------------------------------------------
\* The condition that OldPasswordsAreLockedOut puts on a session, for every
\* account that a patch of its status could make active again.
SessionsAreCurrent ==
    \A s \in sessions :
        /\ account[s.user].status \notin {"unborn", "invited"}
        /\ Exists(s.user) =>
             /\ s.version <= account[s.user].version
             /\ s.version = account[s.user].version /\ s.password # account[s.user].password =>
                  s.raced \/ account[s.user].raced

\* A login that has not been overtaken verified the password the row has.
LoginsAreCurrent ==
    \A r \in Request : request[r].phase = "login" =>
        /\ account[request[r].user].status \notin {"unborn", "invited"}
        /\ ~request[r].raced => account[request[r].user].password = request[r].password

\* A step keeps LoginsAreCurrent.
LEMMA LoginsStep ==
    ASSUME TypeOK, LoginsAreCurrent, [Next]_vars
    PROVE  LoginsAreCurrent'
<1> SUFFICES ASSUME NEW r \in Request, request'[r].phase = "login"
             PROVE  /\ account'[request'[r].user].status \notin {"unborn", "invited"}
                    /\ ~request'[r].raced => account'[request'[r].user].password = request'[r].password
  BY DEF LoginsAreCurrent
<1> DEFINE Held == /\ account'[request'[r].user].status \notin {"unborn", "invited"}
                   /\ ~request'[r].raced => account'[request'[r].user].password = request'[r].password
<1>0. request[r] \in RequestFields /\ request \in [Request -> RequestState]
  BY DEF TypeOK, RequestState
<1>1. ASSUME NEW u \in User, NEW p, VerifyPassword(r, u, p) PROVE Held
  <2>1. request'[r].user = u /\ request'[r].password = p
    BY <1>0, <1>1 DEF VerifyPassword, Begins, Idle
  <2> QED
    BY <1>1, <2>1 DEF VerifyPassword
<1>2. ASSUME NEW u \in User, NEW p, ReadForReset(r, u, p) PROVE FALSE
  BY <1>0, <1>2 DEF ReadForReset, Begins, Idle
<1>3. ASSUME NEW t \in Token, NEW p, ReadInvite(r, t, p) PROVE FALSE
  BY <1>0, <1>3 DEF ReadInvite, Begins, Idle
<1>4. ASSUME NEW u \in User, InviteUser(r, u) PROVE FALSE
  BY <1>0, <1>4 DEF InviteUser, Begins, Idle
<1>5. request'[r] # Idle
  BY DEF Idle
<1>6. ASSUME request'[r] = request[r] \/ request'[r] = [request[r] EXCEPT !.raced = TRUE] PROVE Held
  <2>1. /\ request[r].phase = "login" /\ request'[r].user = request[r].user
        /\ request'[r].password = request[r].password
        /\ ~request'[r].raced => ~request[r].raced
    BY <1>0, <1>6 DEF RequestFields
  <2> DEFINE u == request[r].user
  <2>2. u \in User
    BY <2>1, RequestKnows
  <2>3. /\ account[u].status \notin {"unborn", "invited"}
        /\ ~request[r].raced => account[u].password = request[r].password
    BY <2>1 DEF LoginsAreCurrent
  <2>4. ASSUME NEW q, Races(q, u) PROVE request'[r].raced
    BY <2>1, <2>4, Overtaken
  <2> HIDE DEF u
  <2>5. account'[u].status \notin {"unborn", "invited"}
    BY <2>2, <2>3, RowStep DEF Untouched, Invited, Gone, Moved, Accepted, Replaced
  <2>6. account'[u] = account[u] \/ request'[r].raced
    BY <2>2, <2>3, <2>4, RowStep DEF Untouched, Invited
  <2> QED
    BY <2>1, <2>3, <2>5, <2>6 DEF u
<1> QED
  BY <1>1, <1>2, <1>3, <1>4, <1>5, <1>6, RequestsStep

\* A session is opened by an accept, with the password it sets, or by a login.
LEMMA OpenStep ==
    ASSUME TypeOK, [Next]_vars, NEW s \in sessions', s \notin sessions
    PROVE  \E r \in Request :
             /\ request[r].user = s.user /\ Exists(s.user)
             /\ s.version = account[s.user].version
             /\ \/ /\ request[r].phase = "login" /\ UNCHANGED account
                   /\ s.password = request[r].password /\ s.raced = request[r].raced
                \/ account'[s.user].status = "active" /\ account'[s.user].password = s.password
                   /\ account'[s.user].version = account[s.user].version
<1>0. account \in [User -> Account]
  BY DEF TypeOK
<1>1. ASSUME NEW u, NEW p, NEW raced, Opens(u, p, raced)
      PROVE  s.user = u /\ s.version = account[u].version /\ s.password = p /\ s.raced = raced
  BY <1>1 DEF Opens
<1>2. ASSUME NEW r \in Request, AcceptInvite(r)
      PROVE  /\ request[r].user = s.user /\ Exists(s.user) /\ s.version = account[s.user].version
             /\ account'[s.user].status = "active" /\ account'[s.user].password = s.password
             /\ account'[s.user].version = account[s.user].version
  <2> DEFINE u == request[r].user
             raced == request[r].raced \/ account[u].status # "invited"
  <2>1. u \in User
    BY <1>2, RequestKnows DEF AcceptInvite
  <2>2. Exists(u) /\ Writes(u, Activated(account[u], request[r].password, raced))
        /\ Opens(u, request[r].password, raced)
    BY <1>2 DEF AcceptInvite
  <2>3. account'[u] = Activated(account[u], request[r].password, raced)
    BY <1>0, <2>1, <2>2 DEF Writes
  <2>4. account[u] \in Account
    BY <1>0, <2>1
  <2>5. /\ account'[u].status = "active" /\ account'[u].password = request[r].password
        /\ account'[u].version = account[u].version
    BY <2>3, <2>4 DEF Activated, Account
  <2> QED
    BY <1>1, <2>2, <2>5
<1>3. ASSUME NEW r \in Request, Login(r)
      PROVE  /\ request[r].user = s.user /\ Exists(s.user) /\ s.version = account[s.user].version
             /\ request[r].phase = "login" /\ UNCHANGED account
             /\ s.password = request[r].password /\ s.raced = request[r].raced
  BY <1>1, <1>3 DEF Login
<1> QED
  BY <1>2, <1>3 DEF Next, InviteUser, ReadForReset, VerifyPassword, ReadInvite, SetToken, ResetPassword,
     Fails, ReissueInvite, CancelInvite, PatchStatus, DeleteUser, SessionEnds, Tick, vars

\* A step keeps SessionsAreCurrent.
LEMMA SessionsStep ==
    ASSUME TypeOK, SessionsAreCurrent, LoginsAreCurrent, [Next]_vars
    PROVE  SessionsAreCurrent'
<1> SUFFICES ASSUME NEW s \in sessions'
             PROVE  /\ account'[s.user].status \notin {"unborn", "invited"}
                    /\ Exists(s.user)' =>
                         /\ s.version <= account'[s.user].version
                         /\ s.version = account'[s.user].version /\ s.password # account'[s.user].password =>
                              s.raced \/ account'[s.user].raced
  BY DEF SessionsAreCurrent
<1> DEFINE u == s.user
           Held == /\ account'[u].status \notin {"unborn", "invited"}
                   /\ Exists(u)' =>
                        /\ s.version <= account'[u].version
                        /\ s.version = account'[u].version /\ s.password # account'[u].password =>
                             s.raced \/ account'[u].raced
<1>0. u \in User /\ s.version \in Nat
  <2>1. TypeOK'
    BY TypeStep
  <2>2. MaxVersion \in Nat
    BY AccountsAssumption
  <2> QED
    BY <2>1, <2>2 DEF TypeOK, Session
<1>1. account[u].version \in Nat
  BY <1>0, AccountsAssumption DEF TypeOK, Account
<1>2. CASE s \in sessions
  <2>1. /\ account[u].status \notin {"unborn", "invited"}
        /\ Exists(u) =>
             /\ s.version <= account[u].version
             /\ s.version = account[u].version /\ s.password # account[u].password => s.raced \/ account[u].raced
    BY <1>2 DEF SessionsAreCurrent
  <2> HIDE DEF u
  <2>2. ASSUME Untouched(u) PROVE Held
    BY <2>1, <2>2 DEF Untouched, Exists
  <2>3. ASSUME Gone(u) PROVE Held
    BY <2>3 DEF Gone, Exists
  <2>4. ASSUME Moved(u) PROVE Held
    BY <2>1, <2>4 DEF Moved, Exists
  <2>5. ASSUME Accepted(u) PROVE Held
    BY <2>1, <2>5 DEF Accepted
  <2>6. ASSUME Replaced(u) PROVE Held
    BY <1>0, <1>1, <2>1, <2>6 DEF Replaced
  <2>7. Held
    BY <1>0, <2>1, <2>2, <2>3, <2>4, <2>5, <2>6, RowStep DEF Invited
  <2> QED
    BY <2>7 DEF u
<1>3. CASE s \notin sessions
  <2>1. PICK r \in Request :
             /\ request[r].user = u /\ Exists(u)
             /\ s.version = account[u].version
             /\ \/ /\ request[r].phase = "login" /\ UNCHANGED account
                   /\ s.password = request[r].password /\ s.raced = request[r].raced
                \/ account'[u].status = "active" /\ account'[u].password = s.password
                   /\ account'[u].version = account[u].version
    BY <1>3, OpenStep
  <2> HIDE DEF u
  <2>2. ASSUME request[r].phase = "login", UNCHANGED account,
               s.password = request[r].password, s.raced = request[r].raced
        PROVE  Held
    <3>1. /\ account[u].status \notin {"unborn", "invited"}
          /\ ~request[r].raced => account[u].password = request[r].password
      BY <2>1, <2>2 DEF LoginsAreCurrent
    <3> QED
      BY <1>1, <2>1, <2>2, <3>1
  <2>3. ASSUME account'[u].status = "active", account'[u].password = s.password,
               account'[u].version = account[u].version
        PROVE  Held
    BY <1>1, <2>1, <2>3
  <2>4. Held
    BY <2>1, <2>2, <2>3
  <2> QED
    BY <2>4 DEF u
<1> QED
  BY <1>2, <1>3

\* Whoever came in with a password that has been replaced since is locked out,
\* but for the races that OldPasswordsAreLockedOut names (auth.ts:206).
THEOREM OldPasswordsLockedOut == Spec => []OldPasswordsAreLockedOut
<1>1. Init => SessionsAreCurrent /\ LoginsAreCurrent
  <2> SUFFICES ASSUME Init PROVE SessionsAreCurrent /\ LoginsAreCurrent
    OBVIOUS
  <2>1. sessions = {} /\ \A r \in Request : request[r].phase = "idle"
    BY DEF Init, Idle
  <2> QED
    BY <2>1 DEF SessionsAreCurrent, LoginsAreCurrent
<1>2. TypeOK /\ SessionsAreCurrent /\ LoginsAreCurrent /\ [Next]_vars => SessionsAreCurrent' /\ LoginsAreCurrent'
  BY SessionsStep, LoginsStep
<1>3. SessionsAreCurrent => OldPasswordsAreLockedOut
  BY DEF SessionsAreCurrent, OldPasswordsAreLockedOut, Authentic, Exists
<1> QED
  BY <1>1, <1>2, <1>3, TypeCorrect, PTL DEF Spec
=============================================================================
