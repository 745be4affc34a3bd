--------------------------- MODULE KeyAuth_proofs ---------------------------
(***************************************************************************)
(* Proofs about the rows of a project and the cached authentication of its  *)
(* keys (KeyAuth, which extends Projects), for any environments, fields,    *)
(* keys, requests and limits.                                               *)
(***************************************************************************)
EXTENDS KeyAuth, FiniteSetTheorems, FunctionTheorems, TLAPS

\* The request Starts makes is well-typed.
LEMMA StartsType ==
    ASSUME TypeOK, NEW r \in Request, NEW kind, NEW to \in RequestState, Starts(r, kind, to)
    PROVE  request' \in [Request -> RequestState]
<1>1. {settings} \in SUBSET Settings
  BY DEF TypeOK, ProjectsTypeOK
<1>2. [to EXCEPT !.during = {settings}] \in RequestState
  BY <1>1 DEF RequestState, RequestFields, Carries
<1> QED
  BY <1>2 DEF Starts, TypeOK, ProjectsTypeOK

\* The idle request is well-typed.
LEMMA IdleType == Idle \in RequestState
  BY ProjectsAssumption DEF Idle, RequestState, RequestFields, Carries, Unset, Settings, Phase, Group, Expiry

\* A request that has ended is well-typed.
LEMMA EndsType ==
    ASSUME TypeOK, NEW r \in Request, Ends(r)
    PROVE  request' \in [Request -> RequestState]
BY IdleType DEF Ends, TypeOK, ProjectsTypeOK

\* The cascade leaves the keys well-typed.
LEMMA CascadeType ==
    ASSUME TypeOK, NEW gone, Cascade(gone)
    PROVE  keys' \in [KeyId -> KeyRow]
<1> SUFFICES ASSUME NEW k \in KeyId PROVE keys'[k] \in KeyRow
  BY DEF Cascade
<1>1. keys[k] \in KeyRow
  BY DEF TypeOK, ProjectsTypeOK
<1>2. [keys[k] EXCEPT !.life = "cascaded"] \in KeyRow
  BY <1>1 DEF KeyRow
<1> QED
  BY <1>1, <1>2 DEF Cascade

\* Revoking a key keeps the projects well-typed.
LEMMA RevokeKeyType ==
    ASSUME TypeOK, NEW r \in Request, NEW k \in KeyId, RevokeKey(r, k)
    PROVE  ProjectsTypeOK'
<1>1. [Idle EXCEPT !.phase = "evict", !.key = k] \in RequestState
  BY IdleType, ProjectsAssumption DEF RequestState, RequestFields, Carries, Phase
<1>2. keys' \in [KeyId -> KeyRow]
  <2>1. keys[k] \in KeyRow
    BY DEF TypeOK, ProjectsTypeOK
  <2>2. [keys[k] EXCEPT !.life = "revoked"] \in KeyRow
    BY <2>1 DEF KeyRow
  <2>3. keys' = [keys EXCEPT ![k] = [keys[k] EXCEPT !.life = "revoked"]]
    BY DEF RevokeKey
  <2> QED
    BY <2>2, <2>3 DEF TypeOK, ProjectsTypeOK
<1> QED
  BY <1>1, <1>2, StartsType DEF RevokeKey, TypeOK, ProjectsTypeOK

\* The requests' statements leave the rows and the requests well-typed.
LEMMA RequestStepType ==
    ASSUME TypeOK, NEW r \in Request, RequestStep(r)
    PROVE  ProjectsTypeOK'
<1> USE IdleType, ProjectsAssumption
<1>1. ASSUME CountEnvironments(r) PROVE ProjectsTypeOK'
  <2>1. [Idle EXCEPT !.phase = "insertEnv"] \in RequestState
    BY DEF RequestState, RequestFields, Carries, Phase
  <2> QED
    BY <1>1, <2>1, StartsType DEF CountEnvironments, TypeOK, ProjectsTypeOK, rows
<1>2. ASSUME InsertEnvironment(r) PROVE ProjectsTypeOK'
  <2>1. env' \in [Env -> EnvLife]
    BY <1>2 DEF InsertEnvironment, EnvLife, TypeOK, ProjectsTypeOK
  <2> QED
    BY <1>2, <2>1, EndsType DEF InsertEnvironment, TypeOK, ProjectsTypeOK
<1>3. ASSUME NEW e \in Env, CheckUnprotected(r, e) PROVE ProjectsTypeOK'
  <2>1. [Idle EXCEPT !.phase = "deleteEnv", !.env = e] \in RequestState
    BY DEF RequestState, RequestFields, Carries, Phase
  <2> QED
    BY <1>3, <2>1, StartsType DEF CheckUnprotected, TypeOK, ProjectsTypeOK, rows
<1>4. ASSUME NEW e \in Env, CheckKeyEnvironment(r, e) PROVE ProjectsTypeOK'
  <2>1. [Idle EXCEPT !.phase = "insertKey", !.env = e] \in RequestState
    BY DEF RequestState, RequestFields, Carries, Phase
  <2> QED
    BY <1>4, <2>1, StartsType DEF CheckKeyEnvironment, TypeOK, ProjectsTypeOK, rows
<1>5. ASSUME DeleteEnvironment(r) PROVE ProjectsTypeOK'
  <2>1. env' \in [Env -> EnvLife]
    BY <1>5 DEF DeleteEnvironment, EnvLife, TypeOK, ProjectsTypeOK
  <2>2. keys' \in [KeyId -> KeyRow]
    BY <1>5, CascadeType DEF DeleteEnvironment
  <2> QED
    BY <1>5, <2>1, <2>2, EndsType DEF DeleteEnvironment, TypeOK, ProjectsTypeOK
<1>6. ASSUME NEW f \in Field, CountFields(r, f) PROVE ProjectsTypeOK'
  <2>1. [Idle EXCEPT !.phase = "checkField", !.planned = {f}] \in RequestState
    BY DEF RequestState, RequestFields, Carries, Phase
  <2> QED
    BY <1>6, <2>1, StartsType DEF CountFields, TypeOK, ProjectsTypeOK, rows
<1>7. ASSUME CheckField(r) PROVE ProjectsTypeOK'
  <2>0. request[r] \in RequestState
    BY DEF TypeOK, ProjectsTypeOK
  <2>1. [request[r] EXCEPT !.phase = "insertField"] \in RequestState
    BY <1>7, <2>0 DEF CheckField, RequestState, RequestFields, Carries, Phase
  <2>2. request' = [request EXCEPT ![r] = [request[r] EXCEPT !.phase = "insertField"]]
    BY <1>7 DEF CheckField
  <2> QED
    BY <1>7, <2>1, <2>2 DEF CheckField, TypeOK, ProjectsTypeOK, rows
<1>8. ASSUME InsertField(r) PROVE ProjectsTypeOK'
  <2>1. request[r] \in RequestState
    BY DEF TypeOK, ProjectsTypeOK
  <2>2. request[r].planned \in SUBSET Field
    BY <2>1 DEF RequestState, RequestFields
  <2> QED
    BY <1>8, <2>2, EndsType DEF InsertField, TypeOK, ProjectsTypeOK
<1>9. ASSUME ReadLifetime(r) PROVE ProjectsTypeOK'
  <2> DEFINE days == IF live THEN settings["security"] ELSE None
             expires == IF days = None THEN None ELSE now + days
  <2>1. expires \in Expiry
    <3>1. days = None \/ days \in Nat
      BY DEF TypeOK, ProjectsTypeOK, Settings, Group
    <3>2. now \in Nat
      BY DEF TypeOK, ProjectsTypeOK
    <3> QED
      BY <3>1, <3>2 DEF Expiry
  <2>2. [Idle EXCEPT !.phase = "insertKey", !.expires = expires] \in RequestState
    <3> HIDE DEF expires
    <3> QED
      BY <2>1 DEF RequestState, RequestFields, Carries, Phase
  <2>3. Starts(r, "createKey", [Idle EXCEPT !.phase = "insertKey", !.expires = expires])
    BY <1>9 DEF ReadLifetime
  <2> HIDE DEF expires
  <2> QED
    BY <1>9, <2>2, <2>3, StartsType DEF ReadLifetime, TypeOK, ProjectsTypeOK, rows
<1>10. ASSUME InsertKey(r) PROVE ProjectsTypeOK'
  <2>1. PICK k \in KeyId :
          keys' = [keys EXCEPT ![k] = [life |-> "live", env |-> request[r].env, expires |-> request[r].expires]]
    BY <1>10 DEF InsertKey
  <2>2. request[r] \in RequestState
    BY DEF TypeOK, ProjectsTypeOK
  <2>3. [life |-> "live", env |-> request[r].env, expires |-> request[r].expires] \in KeyRow
    BY <2>2 DEF RequestState, RequestFields, KeyRow
  <2>4. keys' \in [KeyId -> KeyRow]
    BY <2>1, <2>3 DEF TypeOK, ProjectsTypeOK
  <2> QED
    BY <1>10, <2>4, EndsType DEF InsertKey, TypeOK, ProjectsTypeOK
<1>11. ASSUME NEW k \in KeyId, RevokeKey(r, k) PROVE ProjectsTypeOK'
  BY <1>11, RevokeKeyType
<1>12. ASSUME ReadSettings(r) PROVE ProjectsTypeOK'
  <2>1. PICK named \in SUBSET Group \ {{}}, wanted \in Settings :
          Starts(r, "patch", [Idle EXCEPT !.phase = "update", !.read = settings,
                                          !.named = named, !.wanted = wanted])
    BY <1>12 DEF ReadSettings
  <2>2. settings \in Settings
    BY DEF TypeOK, ProjectsTypeOK
  <2>3. [Idle EXCEPT !.phase = "update", !.read = settings, !.named = named, !.wanted = wanted] \in RequestState
    BY <2>2 DEF RequestState, RequestFields, Carries, Phase
  <2> QED
    BY <1>12, <2>1, <2>3, StartsType DEF ReadSettings, TypeOK, ProjectsTypeOK, rows
<1>13. ASSUME UpdateSettings(r) PROVE ProjectsTypeOK'
  <2>1. request \in [Request -> RequestState] /\ settings \in Settings
    BY DEF TypeOK, ProjectsTypeOK
  <2>2. settings' \in Settings
    <3>1. request[r].wanted \in [Group -> Lifetime] /\ request[r].read \in [Group -> Lifetime]
      BY <2>1 DEF RequestState, RequestFields, Settings
    <3>2. Merged(request[r]) \in [Group -> Lifetime]
      BY <3>1 DEF Merged
    <3> QED
      BY <1>13, <3>2 DEF UpdateSettings, Settings
  <2>3. ASSUME NEW q \in Request PROVE [request[q] EXCEPT !.during = @ \cup {settings'}] \in RequestState
    <3>1. request[q] \in RequestState
      BY <2>1
    <3>2. request[q].during \cup {settings'} \in SUBSET Settings
      BY <2>2, <3>1 DEF RequestState, RequestFields, Carries
    <3> QED
      BY <3>1, <3>2 DEF RequestState, RequestFields, Carries
  <2>4. request' \in [Request -> RequestState]
    BY <1>13, <2>3 DEF UpdateSettings
  <2> QED
    BY <1>13, <2>2, <2>4 DEF UpdateSettings, TypeOK, ProjectsTypeOK
<1>14. ASSUME Fails(r) PROVE ProjectsTypeOK'
  BY <1>14, EndsType DEF Fails, TypeOK, ProjectsTypeOK, rows
<1>15. ASSUME NEW new \in SUBSET Field, CountImport(r, new) PROVE ProjectsTypeOK'
  <2>1. [Idle EXCEPT !.phase = "insertField", !.planned = new] \in RequestState
    BY <1>15 DEF CountImport, RequestState, RequestFields, Carries, Phase
  <2> QED
    BY <1>15, <2>1, StartsType DEF CountImport, TypeOK, ProjectsTypeOK, rows
<1> QED
  BY <1>1, <1>2, <1>3, <1>4, <1>5, <1>6, <1>7, <1>8, <1>9, <1>10, <1>11, <1>12, <1>13, <1>14, <1>15 DEF RequestStep

-----------------------------------------------------------------------------

\* The initial states are well-typed.
LEMMA InitType == Init => TypeOK
<1> SUFFICES ASSUME Init PROVE TypeOK
  OBVIOUS
<1>1. ProjectsTypeOK
  <2>1. now \in 0..LastDay
    BY ProjectsAssumption DEF Init, ProjectsInit
  <2>2. env \in [Env -> EnvLife]
    BY DEF Init, ProjectsInit, EnvLife
  <2>3. [life |-> "unborn", env |-> None, expires |-> None] \in KeyRow
    BY DEF KeyRow, Expiry
  <2>4. keys \in [KeyId -> KeyRow]
    BY <2>3 DEF Init, ProjectsInit
  <2>5. request \in [Request -> RequestState]
    BY IdleType DEF Init, ProjectsInit
  <2> QED
    BY <2>1, <2>2, <2>4, <2>5 DEF Init, ProjectsInit, ProjectsTypeOK
<1>2. NoLoad \in Load
  BY DEF NoLoad, Load, Expiry
<1>3. granted \in KeyId \cup {None}
  BY DEF Init
<1> QED
  BY <1>1, <1>2, <1>3 DEF Init, EmptyCache, TypeOK

\* Every step keeps the types.
LEMMA TypeStep ==
    ASSUME TypeOK, [Next]_vars
    PROVE  TypeOK'
<1>1. NoLoad \in Load
  BY DEF NoLoad, Load, Expiry
<1>2. ASSUME NEW k \in KeyId, NEW expires \in Expiry, Grants(k, expires)
      PROVE  granted' \in KeyId \cup {None}
  BY <1>1, <1>2 DEF Grants
<1>3. ASSUME UNCHANGED projectVars PROVE ProjectsTypeOK'
  BY <1>3 DEF TypeOK, ProjectsTypeOK, projectVars, rows
<1>4. ASSUME NEW k \in KeyId, Authenticate(k) PROVE TypeOK'
  <2>1. loader' \in [KeyId -> Load]
    <3>1. loader[k] \in Load
      BY DEF TypeOK
    <3>2. [loader[k] EXCEPT !.pc = "select"] \in Load
      BY <3>1 DEF Load
    <3>3. \/ UNCHANGED loader
          \/ loader' = [loader EXCEPT ![k] = [loader[k] EXCEPT !.pc = "select"]]
      BY <1>4 DEF Authenticate
    <3> QED
      BY <3>2, <3>3 DEF TypeOK
  <2>2. granted' \in KeyId \cup {None}
    <3>1. CASE store[k] # None /\ Grants(k, store[k].expires)
      <4>1. store[k].expires \in Expiry
        BY <3>1 DEF TypeOK, Cached
      <4> QED
        BY <1>2, <3>1, <4>1
    <3>2. CASE granted' = None
      BY <1>1, <3>2
    <3> QED
      BY <1>4, <3>1, <3>2 DEF Authenticate
  <2> QED
    BY <1>3, <1>4, <2>1, <2>2 DEF Authenticate, Track, TypeOK
<1>5. ASSUME NEW k \in KeyId, LoadApiKey(k) PROVE TypeOK'
  <2>1. keys[k] \in KeyRow
    BY DEF TypeOK, ProjectsTypeOK
  <2>2. [pc |-> "return", found |-> keys[k].life = "live", expires |-> keys[k].expires, disturbed |-> FALSE] \in Load
    BY <2>1 DEF KeyRow, Load
  <2> QED
    BY <1>1, <1>3, <1>5, <2>2 DEF LoadApiKey, TypeOK
<1>6. ASSUME NEW k \in KeyId, StoreKey(k) PROVE TypeOK'
  <2>1. loader[k] \in Load
    BY DEF TypeOK
  <2>2. [expires |-> loader[k].expires, disturbed |-> loader[k].disturbed] \in Cached
    BY <2>1 DEF Load, Cached
  <2>3. store' \in [KeyId -> Cached \cup {None}]
    BY <1>6, <2>2 DEF StoreKey, Put, TypeOK
  <2>4. granted' \in KeyId \cup {None}
    <3>1. loader[k].expires \in Expiry
      BY <2>1 DEF Load
    <3> QED
      BY <1>1, <1>2, <1>6, <3>1 DEF StoreKey
  <2> QED
    BY <1>1, <1>3, <1>6, <2>3, <2>4 DEF StoreKey, TypeOK
<1>7. ASSUME NEW k \in KeyId, LoadFails(k) PROVE TypeOK'
  BY <1>1, <1>3, <1>7 DEF LoadFails, TypeOK
<1>8. ASSUME NEW k \in KeyId, TimeToLive(k) PROVE TypeOK'
  BY <1>1, <1>3, <1>8 DEF TimeToLive, Expire, Put, TypeOK
<1>9. ASSUME NEW r \in Request, NEW k \in KeyId, Revoke(r, k) PROVE TypeOK'
  <2>1. ProjectsTypeOK'
    BY <1>9, RevokeKeyType DEF Revoke
  <2>2. loader' \in [KeyId -> Load]
    <3>1. loader[k] \in Load
      BY DEF TypeOK
    <3>2. [loader[k] EXCEPT !.disturbed = TRUE] \in Load
      BY <3>1 DEF Load
    <3>3. \/ UNCHANGED loader
          \/ loader' = [loader EXCEPT ![k] = [loader[k] EXCEPT !.disturbed = TRUE]]
      BY <1>9 DEF Revoke
    <3> QED
      BY <3>2, <3>3 DEF TypeOK
  <2> QED
    BY <1>1, <1>9, <2>1, <2>2 DEF Revoke, TypeOK
<1>10. ASSUME NEW r \in Request, Evict(r) PROVE TypeOK'
  <2>1. ProjectsTypeOK'
    BY <1>10, EndsType DEF Evict, Evicted, TypeOK, ProjectsTypeOK, rows
  <2> QED
    BY <1>1, <1>10, <2>1 DEF Evict, Delete, Forget, TypeOK
<1>11. ASSUME Other PROVE TypeOK'
  <2>1. ASSUME NEW r \in Request, RequestStep(r) PROVE ProjectsTypeOK'
    BY <2>1, RequestStepType
  <2>2. ASSUME NEW e \in Env, UpdateEnvironment(e) PROVE ProjectsTypeOK'
    <3>1. env' \in [Env -> EnvLife]
      BY <2>2 DEF UpdateEnvironment, EnvLife, TypeOK, ProjectsTypeOK
    <3> QED
      BY <2>2, <3>1 DEF UpdateEnvironment, TypeOK, ProjectsTypeOK
  <2>3. ASSUME NEW f \in Field, DeleteField(f) PROVE ProjectsTypeOK'
    BY <2>3 DEF DeleteField, TypeOK, ProjectsTypeOK
  <2>4. ASSUME DeleteProject PROVE ProjectsTypeOK'
    <3>1. env' \in [Env -> EnvLife]
      BY <2>4 DEF DeleteProject, EnvLife, TypeOK, ProjectsTypeOK
    <3>2. keys' \in [KeyId -> KeyRow]
      BY <2>4, CascadeType DEF DeleteProject
    <3> QED
      BY <2>4, <3>1, <3>2 DEF DeleteProject, TypeOK, ProjectsTypeOK
  <2>5. ASSUME Tick PROVE ProjectsTypeOK'
    BY <2>5, ProjectsAssumption DEF Tick, TypeOK, ProjectsTypeOK, rows
  <2> QED
    BY <1>1, <1>11, <2>1, <2>2, <2>3, <2>4, <2>5 DEF Other, ProjectStep, TypeOK
<1>12. ASSUME Restart PROVE TypeOK'
  <2>1. request' \in [Request -> RequestState]
    BY <1>12, IdleType DEF Restart
  <2> QED
    BY <1>1, <1>12, <2>1 DEF Restart, ClearedCache, rows, TypeOK, ProjectsTypeOK
<1>13. ASSUME UNCHANGED vars PROVE TypeOK'
  BY <1>13 DEF vars, projectVars, authVars, rows, TypeOK, ProjectsTypeOK
<1> QED
  BY <1>4, <1>5, <1>6, <1>7, <1>8, <1>9, <1>10, <1>11, <1>12, <1>13 DEF Next

\* Every state is well-typed, and every request carries what its next statement
\* needs (KeyAuth, Projects).
THEOREM TypeCorrect == Spec => []TypeOK
<1>1. TypeOK /\ [Next]_vars => TypeOK'
  BY TypeStep
<1> QED
  BY InitType, <1>1, PTL DEF Spec

-----------------------------------------------------------------------------
\* The steps that change the rows of the environments and the keys.
LEMMA RowsStep ==
    ASSUME [Next]_vars
    PROVE  \/ UNCHANGED <<live, env, keys>>
           \/ \E r \in Request : InsertEnvironment(r) \/ DeleteEnvironment(r) \/ InsertKey(r)
           \/ \E e \in Env : UpdateEnvironment(e)
           \/ \E r \in Request, k \in KeyId : RevokeKey(r, k)
           \/ DeleteProject
<1>1. ASSUME NEW r \in Request, RequestStep(r), request'[r].phase # "evict"
      PROVE  \/ UNCHANGED <<live, env, keys>>
             \/ InsertEnvironment(r) \/ DeleteEnvironment(r) \/ InsertKey(r)
             \/ \E k \in KeyId : RevokeKey(r, k)
  BY <1>1 DEF RequestStep, CountEnvironments, CheckUnprotected, CheckKeyEnvironment, CountFields, CountImport,
     CheckField, InsertField, ReadLifetime, ReadSettings, UpdateSettings, Fails, rows
<1>2. ASSUME ProjectStep
      PROVE  UNCHANGED <<live, env, keys>> \/ (\E e \in Env : UpdateEnvironment(e)) \/ DeleteProject
  BY <1>2 DEF ProjectStep, DeleteField
<1>3. ASSUME Other
      PROVE  \/ UNCHANGED <<live, env, keys>>
             \/ \E r \in Request : InsertEnvironment(r) \/ DeleteEnvironment(r) \/ InsertKey(r)
             \/ \E e \in Env : UpdateEnvironment(e)
             \/ \E r \in Request, k \in KeyId : RevokeKey(r, k)
             \/ DeleteProject
  BY <1>1, <1>2, <1>3 DEF Other, Tick, rows
<1> QED
  BY <1>3 DEF Next, Authenticate, LoadApiKey, StoreKey, LoadFails, TimeToLive, Revoke, Evict, Evicted,
     Restart, vars, projectVars, rows

\* A key that is live belongs to an environment that exists, or to none, and to a
\* project that exists, whatever is deleted while it is created (key.service.ts).
THEOREM KeysHaveOwners == Spec => []NoOrphanKeys
<1>1. Init => NoOrphanKeys
  BY DEF Init, ProjectsInit, NoOrphanKeys
<1>2. TypeOK /\ NoOrphanKeys /\ [Next]_vars => NoOrphanKeys'
  <2> SUFFICES ASSUME TypeOK, NoOrphanKeys, [Next]_vars,
                      NEW k \in KeyId, keys'[k].life = "live"
               PROVE  live' /\ (keys'[k].env = None \/ keys'[k].env \in Environments')
    BY DEF NoOrphanKeys
  <2> DEFINE Held == live' /\ (keys'[k].env = None \/ keys'[k].env \in Environments')
  <2>0. keys \in [KeyId -> KeyRow] /\ env \in [Env -> EnvLife]
    BY DEF TypeOK, ProjectsTypeOK
  <2>1. ASSUME UNCHANGED <<live, env, keys>> PROVE Held
    BY <2>1 DEF NoOrphanKeys, Environments
  <2>2. ASSUME NEW r \in Request, InsertEnvironment(r) PROVE Held
    BY <2>0, <2>2 DEF InsertEnvironment, NoOrphanKeys, Environments
  <2>3. ASSUME NEW r \in Request, DeleteEnvironment(r) PROVE Held
    <3> DEFINE gone == {request[r].env} \cap Environments
    <3>1. keys[k].life = "live" /\ keys[k].env \notin gone /\ keys'[k] = keys[k]
      BY <2>0, <2>3 DEF DeleteEnvironment, Cascade, KeyRow
    <3>2. \A e \in Env \ gone : env'[e] = env[e]
      BY <2>3 DEF DeleteEnvironment
    <3> QED
      BY <2>0, <2>3, <3>1, <3>2 DEF DeleteEnvironment, NoOrphanKeys, Environments
  <2>4. ASSUME NEW r \in Request, InsertKey(r) PROVE Held
    BY <2>0, <2>4 DEF InsertKey, NoOrphanKeys, Environments
  <2>5. ASSUME NEW e \in Env, UpdateEnvironment(e) PROVE Held
    BY <2>0, <2>5 DEF UpdateEnvironment, NoOrphanKeys, Environments
  <2>6. ASSUME NEW r \in Request, NEW q \in KeyId, RevokeKey(r, q) PROVE Held
    <3>1. keys[k].life = "live" /\ keys'[k] = keys[k]
      BY <2>0, <2>6 DEF RevokeKey, KeyRow
    <3> QED
      BY <2>6, <3>1 DEF RevokeKey, NoOrphanKeys, Environments
  <2>7. ASSUME DeleteProject PROVE FALSE
    <3>1. keys[k] \in KeyRow
      BY <2>0
    <3> QED
      BY <2>7, <3>1 DEF DeleteProject, Cascade, KeyRow
  <2> QED
    BY RowsStep, <2>1, <2>2, <2>3, <2>4, <2>5, <2>6, <2>7
<1> QED
  BY <1>1, <1>2, TypeCorrect, PTL DEF Spec

-----------------------------------------------------------------------------
\* A patch under way was sent with the settings it read among those that were in
\* force while it was in flight.
ReadWhileInFlight ==
    \A r \in Request : request[r].phase = "update" => request[r].read \in request[r].during

\* The steps that change what the requests hold.
LEMMA RequestsStep ==
    ASSUME [Next]_vars
    PROVE  \/ UNCHANGED request
           \/ \E r \in Request : RequestStep(r) \/ Evicted(r)
           \/ request' = [r \in Request |-> Idle]
<1>1. ASSUME NEW r \in Request, NEW k \in KeyId, Revoke(r, k) PROVE RequestStep(r)
  BY <1>1 DEF Revoke, RequestStep
<1> QED
  BY <1>1 DEF Next, Authenticate, LoadApiKey, StoreKey, LoadFails, TimeToLive, Evict, Other, ProjectStep,
     UpdateEnvironment, DeleteField, DeleteProject, Tick, Restart, vars, projectVars

\* A step keeps ReadWhileInFlight.
LEMMA InFlight ==
    ASSUME TypeOK, ReadWhileInFlight, [Next]_vars
    PROVE  ReadWhileInFlight'
<1> SUFFICES ASSUME NEW r \in Request, request'[r].phase = "update"
             PROVE  request'[r].read \in request'[r].during
  BY DEF ReadWhileInFlight
<1> DEFINE Held == request'[r].read \in request'[r].during
<1>0. request \in [Request -> RequestState]
  BY DEF TypeOK, ProjectsTypeOK
<1>1. ASSUME UNCHANGED request PROVE Held
  BY <1>1 DEF ReadWhileInFlight
<1>2. ASSUME NEW q \in Request, Ends(q) PROVE Held
  BY <1>0, <1>2 DEF Ends, Idle, ReadWhileInFlight
<1>3. ASSUME NEW q \in Request, RequestStep(q) PROVE Held
  <2>1. ASSUME CountEnvironments(q) PROVE Held
    BY <1>0, <2>1 DEF CountEnvironments, Starts, Idle, ReadWhileInFlight
  <2>2. ASSUME NEW e \in Env, CheckUnprotected(q, e) PROVE Held
    BY <1>0, <2>2 DEF CheckUnprotected, Starts, Idle, ReadWhileInFlight
  <2>3. ASSUME NEW e \in Env, CheckKeyEnvironment(q, e) PROVE Held
    BY <1>0, <2>3 DEF CheckKeyEnvironment, Starts, Idle, ReadWhileInFlight
  <2>4. ASSUME NEW f \in Field, CountFields(q, f) PROVE Held
    BY <1>0, <2>4 DEF CountFields, Starts, Idle, ReadWhileInFlight
  <2>5. ASSUME CheckField(q) PROVE Held
    <3>1. request'[q].phase = "insertField"
      BY <1>0, <2>5 DEF CheckField, RequestState, RequestFields
    <3> QED
      BY <1>0, <2>5, <3>1 DEF CheckField, ReadWhileInFlight
  <2>6. ASSUME ReadLifetime(q) PROVE Held
    BY <1>0, <2>6 DEF ReadLifetime, Starts, Idle, ReadWhileInFlight
  <2>7. ASSUME NEW k \in KeyId, RevokeKey(q, k) PROVE Held
    BY <1>0, <2>7 DEF RevokeKey, Starts, Idle, ReadWhileInFlight
  <2>8. ASSUME ReadSettings(q) PROVE Held
    <3>1. PICK named, wanted :
            Starts(q, "patch", [Idle EXCEPT !.phase = "update", !.read = settings,
                                            !.named = named, !.wanted = wanted])
      BY <2>8 DEF ReadSettings
    <3> QED
      BY <1>0, <3>1 DEF Starts, Idle, ReadWhileInFlight
  <2>9. ASSUME UpdateSettings(q) PROVE Held
    <3>1. request[r] \in RequestFields
      BY <1>0 DEF RequestState
    <3>2. r # q /\ request[r].phase # "idle"
      BY <2>9 DEF UpdateSettings, Idle
    <3>3. request'[r] = [request[r] EXCEPT !.during = request[r].during \cup {settings'}]
      BY <2>9, <3>2 DEF UpdateSettings
    <3>4. request'[r].phase = request[r].phase /\ request'[r].read = request[r].read
          /\ request'[r].during = request[r].during \cup {settings'}
      BY <3>1, <3>3 DEF RequestFields
    <3> QED
      BY <3>4 DEF ReadWhileInFlight
  <2>10. ASSUME NEW new \in SUBSET Field, CountImport(q, new) PROVE Held
    BY <1>0, <2>10 DEF CountImport, Starts, Idle, ReadWhileInFlight
  <2> QED
    BY <1>2, <1>3, <2>1, <2>2, <2>3, <2>4, <2>5, <2>6, <2>7, <2>8, <2>9, <2>10
       DEF RequestStep, InsertEnvironment, DeleteEnvironment, InsertField, InsertKey, Fails
<1>4. ASSUME NEW q \in Request, Evicted(q) PROVE Held
  BY <1>2, <1>4 DEF Evicted
<1>5. ASSUME request' = [q \in Request |-> Idle] PROVE Held
  BY <1>5 DEF Idle
<1> QED
  BY RequestsStep, <1>1, <1>3, <1>4, <1>5

\* The settings are only changed by the UPDATE of a patch.
LEMMA SettingsStep ==
    ASSUME [Next]_vars, settings' # settings
    PROVE  \E r \in Request : UpdateSettings(r)
<1>1. ASSUME NEW r \in Request, RequestStep(r) PROVE UpdateSettings(r)
  BY <1>1 DEF RequestStep, CountEnvironments, InsertEnvironment, CheckUnprotected, CheckKeyEnvironment,
     DeleteEnvironment, CountFields, CountImport, CheckField, InsertField, ReadLifetime, InsertKey, RevokeKey,
     ReadSettings, Fails, rows
<1> QED
  BY <1>1 DEF Next, Authenticate, LoadApiKey, StoreKey, LoadFails, TimeToLive, Revoke, RevokeKey, Evict, Evicted,
     Other, ProjectStep, UpdateEnvironment, DeleteField, DeleteProject, Tick, Restart, vars, projectVars, rows

\* A patch of the settings may undo groups it does not name, but only back to what
\* they were while it was in flight (patchProject).
THEOREM PatchesUndoOnlyOverlapping == Spec => PatchUndoesOnlyOverlapping
<1>1. Init => ReadWhileInFlight
  BY DEF Init, ProjectsInit, Idle, ReadWhileInFlight
<1>2. TypeOK /\ ReadWhileInFlight /\ [Next]_vars => ReadWhileInFlight'
  BY InFlight
<1>3. TypeOK /\ ReadWhileInFlight /\ [Next]_vars =>
        [\A r \in Request : request[r].phase = "update" /\ settings' # settings
           /\ request'[r].phase = "idle" =>
             \A g \in Group \ request[r].named :
                 \E s \in request[r].during : settings'[g] = s[g]]_projectVars
  <2> SUFFICES ASSUME TypeOK, ReadWhileInFlight, [Next]_vars,
                      NEW r \in Request, request[r].phase = "update", settings' # settings,
                      request'[r].phase = "idle",
                      NEW g \in Group \ request[r].named
               PROVE  \E s \in request[r].during : settings'[g] = s[g]
    OBVIOUS
  <2>1. PICK q \in Request : UpdateSettings(q)
    BY SettingsStep
  <2>2. r = q
    <3> SUFFICES ASSUME r # q PROVE FALSE
      OBVIOUS
    <3>1. request'[r] = [request[r] EXCEPT !.during = request[r].during \cup {settings'}]
      BY <2>1 DEF UpdateSettings
    <3>2. request[r] \in RequestFields
      BY DEF TypeOK, ProjectsTypeOK, RequestState
    <3> QED
      BY <3>1, <3>2 DEF RequestFields
  <2>3. settings'[g] = request[r].read[g]
    BY <2>1, <2>2 DEF UpdateSettings, Merged
  <2>4. request[r].read \in request[r].during
    BY DEF ReadWhileInFlight
  <2> QED
    BY <2>3, <2>4
<1> QED
  BY <1>1, <1>2, <1>3, TypeCorrect, PTL DEF Spec, PatchUndoesOnlyOverlapping

-----------------------------------------------------------------------------
\* A load that nothing has disturbed holds a row that is not revoked.
LoadsAreCurrent ==
    \A k \in KeyId : loader[k].pc = "return" /\ loader[k].found /\ ~loader[k].disturbed
        => keys[k].life # "revoked"

\* Only a revocation makes a key revoked.
LEMMA RevokedStep ==
    ASSUME TypeOK, [Next]_vars, NEW k \in KeyId, keys'[k].life = "revoked"
    PROVE  keys[k].life = "revoked" \/ \E r \in Request : Revoke(r, k)
<1>0. keys \in [KeyId -> KeyRow]
  BY DEF TypeOK, ProjectsTypeOK
<1>1. ASSUME NEW gone, Cascade(gone) PROVE keys[k].life = "revoked"
  BY <1>0, <1>1 DEF Cascade, KeyRow
<1>2. ASSUME NEW r \in Request, InsertKey(r) PROVE keys[k].life = "revoked"
  BY <1>0, <1>2 DEF InsertKey, KeyRow
<1>3. ASSUME NEW r \in Request, NEW q \in KeyId, RevokeKey(r, q), q # k PROVE keys[k].life = "revoked"
  BY <1>0, <1>3 DEF RevokeKey
<1>4. ASSUME NEW r \in Request, NEW q \in KeyId, RevokeKey(r, q) PROVE request'[r].phase = "evict"
  BY <1>4 DEF RevokeKey, Starts, Idle, TypeOK, ProjectsTypeOK
<1>5. ASSUME NEW r \in Request, RequestStep(r), request'[r].phase # "evict" PROVE keys[k].life = "revoked"
  BY <1>1, <1>2, <1>4, <1>5 DEF RequestStep, CountEnvironments, InsertEnvironment, CheckUnprotected,
     CheckKeyEnvironment, DeleteEnvironment, CountFields, CountImport, CheckField, InsertField, ReadLifetime,
     ReadSettings, UpdateSettings, Fails, rows
<1>6. ASSUME ProjectStep PROVE keys[k].life = "revoked"
  BY <1>1, <1>6 DEF ProjectStep, UpdateEnvironment, DeleteField, DeleteProject
<1>7. ASSUME NEW r \in Request, NEW q \in KeyId, Revoke(r, q)
      PROVE  keys[k].life = "revoked" \/ \E p \in Request : Revoke(p, k)
  BY <1>3, <1>7 DEF Revoke
<1>8. ASSUME UNCHANGED keys PROVE keys[k].life = "revoked"
  BY <1>8
<1>9. ASSUME Other PROVE keys[k].life = "revoked"
  BY <1>5, <1>6, <1>8, <1>9 DEF Other, Tick, rows
<1> QED
  BY <1>7, <1>8, <1>9 DEF Next, Authenticate, LoadApiKey, StoreKey, LoadFails, TimeToLive, Evict, Evicted,
     Restart, vars, projectVars, rows

\* A step keeps LoadsAreCurrent.
LEMMA LoadsStep ==
    ASSUME TypeOK, LoadsAreCurrent, [Next]_vars
    PROVE  LoadsAreCurrent'
<1> SUFFICES ASSUME NEW k \in KeyId, loader'[k].pc = "return", loader'[k].found, ~loader'[k].disturbed,
                    keys'[k].life = "revoked"
             PROVE  FALSE
  BY DEF LoadsAreCurrent
<1>0. loader \in [KeyId -> Load]
  BY DEF TypeOK
<1>1. ASSUME NEW r \in Request, Revoke(r, k) PROVE FALSE
  BY <1>0, <1>1 DEF Revoke, Load
<1>2. keys[k].life = "revoked"
  BY RevokedStep, <1>1
<1>3. ASSUME loader'[k] = loader[k] PROVE FALSE
  BY <1>2, <1>3 DEF LoadsAreCurrent
<1>4. ASSUME NEW q \in KeyId, Authenticate(q) PROVE FALSE
  <2>1. CASE q = k
    BY <1>0, <1>3, <1>4, <2>1 DEF Authenticate, Load
  <2>2. CASE q # k
    BY <1>0, <1>3, <1>4, <2>2 DEF Authenticate
  <2> QED
    BY <2>1, <2>2
<1>5. ASSUME NEW q \in KeyId, LoadApiKey(q) PROVE FALSE
  BY <1>0, <1>2, <1>3, <1>5 DEF LoadApiKey
<1>6. ASSUME NEW q \in KeyId, StoreKey(q) \/ LoadFails(q) PROVE FALSE
  BY <1>0, <1>3, <1>6 DEF StoreKey, LoadFails, NoLoad
<1>7. ASSUME NEW r \in Request, NEW q \in KeyId, Revoke(r, q) PROVE FALSE
  BY <1>0, <1>1, <1>3, <1>7 DEF Revoke
<1>8. ASSUME Restart PROVE FALSE
  BY <1>8 DEF Restart, NoLoad
<1> QED
  BY <1>3, <1>4, <1>5, <1>6, <1>7, <1>8 DEF Next, TimeToLive, Evict, Other, vars, authVars

\* The eviction of a key stays due until it is done, or the cache is emptied.
LEMMA DueStep ==
    ASSUME TypeOK, [Next]_vars, NEW k \in KeyId, EvictionDue(k)
    PROVE  \/ EvictionDue(k)'
           \/ store'[k] = None
<1>0. request \in [Request -> RequestState] /\ store \in [KeyId -> Cached \cup {None}]
  BY DEF TypeOK, ProjectsTypeOK
<1>1. PICK q \in Request : request[q].phase = "evict" /\ request[q].key = k
  BY DEF EvictionDue
<1>2. ASSUME request'[q].phase = request[q].phase, request'[q].key = request[q].key PROVE EvictionDue(k)'
  BY <1>1, <1>2 DEF EvictionDue
<1>3. ASSUME NEW r \in Request, r # q, Ends(r) PROVE EvictionDue(k)'
  BY <1>0, <1>2, <1>3 DEF Ends
<1>4. ASSUME NEW r \in Request, NEW kind, NEW to, Starts(r, kind, to) PROVE EvictionDue(k)'
  BY <1>0, <1>1, <1>2, <1>4 DEF Starts
<1>5. ASSUME NEW r \in Request, RequestStep(r) PROVE EvictionDue(k)'
  <2>1. ASSUME CheckField(r) PROVE EvictionDue(k)'
    BY <1>0, <1>1, <1>2, <2>1 DEF CheckField
  <2>2. ASSUME UpdateSettings(r) PROVE EvictionDue(k)'
    <3>1. request[q] \in RequestFields
      BY <1>0 DEF RequestState
    <3>2. request'[q] = [request[q] EXCEPT !.during = request[q].during \cup {settings'}]
      BY <1>1, <2>2 DEF UpdateSettings
    <3>3. request'[q].phase = request[q].phase /\ request'[q].key = request[q].key
      BY <3>1, <3>2 DEF RequestFields
    <3> QED
      BY <1>2, <3>3
  <2>3. ASSUME ReadSettings(r) PROVE EvictionDue(k)'
    BY <1>4, <2>3 DEF ReadSettings
  <2>4. ASSUME ReadLifetime(r) PROVE EvictionDue(k)'
    BY <1>4, <2>4 DEF ReadLifetime
  <2>5. ASSUME \/ InsertEnvironment(r) \/ DeleteEnvironment(r) \/ InsertField(r)
               \/ InsertKey(r) \/ Fails(r)
        PROVE  EvictionDue(k)'
    <3>1. r # q /\ Ends(r)
      BY <1>1, <2>5 DEF InsertEnvironment, DeleteEnvironment, InsertField, InsertKey, Fails
    <3> QED
      BY <1>3, <3>1
  <2> QED
    BY <1>4, <1>5, <2>1, <2>2, <2>3, <2>4, <2>5 DEF RequestStep, CountEnvironments, CheckUnprotected,
       CheckKeyEnvironment, CountFields, CountImport, RevokeKey
<1>6. ASSUME NEW r \in Request, Evict(r) PROVE EvictionDue(k)' \/ store'[k] = None
  BY <1>1, <1>3, <1>6 DEF Evict, Evicted, Delete, Forget
<1>7. ASSUME UNCHANGED request PROVE EvictionDue(k)'
  BY <1>2, <1>7
<1>8. ASSUME NEW r \in Request, NEW p \in KeyId, Revoke(r, p) PROVE EvictionDue(k)'
  BY <1>4, <1>8 DEF Revoke, RevokeKey
<1> QED
  BY <1>5, <1>6, <1>7, <1>8 DEF Next, Authenticate, LoadApiKey, StoreKey, LoadFails, TimeToLive, Other,
     ProjectStep, UpdateEnvironment, DeleteField, DeleteProject, Tick, Restart, ClearedCache, vars, projectVars

\* Once the eviction that follows a revocation is done, the cache holds the key
\* only if it was being loaded when it was revoked (key.routes.ts:93).
THEOREM RevokedKeysAreEvicted == Spec => []RevokedIsEvicted
<1>1. Init => LoadsAreCurrent /\ RevokedIsEvicted
  BY DEF Init, EmptyCache, NoLoad, LoadsAreCurrent, RevokedIsEvicted
<1>2. TypeOK /\ LoadsAreCurrent /\ [Next]_vars => LoadsAreCurrent'
  BY LoadsStep
<1>3. TypeOK /\ LoadsAreCurrent /\ RevokedIsEvicted /\ [Next]_vars => RevokedIsEvicted'
  <2> SUFFICES ASSUME TypeOK, LoadsAreCurrent, RevokedIsEvicted, [Next]_vars, NEW k \in KeyId,
                      store'[k] # None, ~store'[k].disturbed, keys'[k].life = "revoked"
               PROVE  EvictionDue(k)'
    BY DEF RevokedIsEvicted
  <2>0. store \in [KeyId -> Cached \cup {None}] /\ request \in [Request -> RequestState]
    BY DEF TypeOK, ProjectsTypeOK
  <2>1. ASSUME NEW r \in Request, Revoke(r, k) PROVE EvictionDue(k)'
    <3>1. request'[r].phase = "evict" /\ request'[r].key = k
      BY <2>0, <2>1 DEF Revoke, RevokeKey, Starts, Idle
    <3> QED
      BY <3>1 DEF EvictionDue
  <2>2. ASSUME keys[k].life = "revoked", store'[k] = store[k] PROVE EvictionDue(k)'
    BY <2>2, DueStep DEF RevokedIsEvicted
  <2>3. ASSUME keys[k].life = "revoked", NEW q \in KeyId, StoreKey(q) PROVE EvictionDue(k)'
    <3>1. CASE q = k
      BY <2>0, <2>3, <3>1 DEF StoreKey, Put, LoadsAreCurrent
    <3>2. CASE q # k
      BY <2>0, <2>2, <2>3, <3>2 DEF StoreKey, Put
    <3> QED
      BY <3>1, <3>2
  <2>4. ASSUME keys[k].life = "revoked" PROVE store'[k] = store[k] \/ \E q \in KeyId : StoreKey(q)
    BY <2>0 DEF Next, Authenticate, LoadApiKey, LoadFails, TimeToLive, Expire, Put, Revoke, Evict, Delete,
       Forget, Other, Restart, ClearedCache, vars, authVars
  <2> QED
    BY RevokedStep, <2>1, <2>2, <2>3, <2>4
<1> QED
  BY <1>1, <1>2, <1>3, TypeCorrect, PTL DEF Spec

-----------------------------------------------------------------------------
\* The requests that have found room and have not inserted yet, and what the ones
\* that bring context fields are about to insert.
InsertingEnvironment == {r \in Request : request[r].phase = "insertEnv"}
Planned == {x \in Request \X Field : x[2] \in request[x[1]].planned}

\* What is there and what is on its way: a request that finds room leaves at least
\* that place to itself, and all the others may have found the same one.
Reserved ==
    /\ Cardinality(Environments) + Cardinality(InsertingEnvironment)
         <= MaxEnvironments + Cardinality(Request) - 1
    /\ \A r \in Request : Cardinality(request[r].planned) <= MaxFields
    /\ Cardinality(fields) + Cardinality(Planned) <= MaxFields * Cardinality(Request)

\* The sets that are counted are finite.
LEMMA FiniteRows ==
    ASSUME TypeOK
    PROVE  /\ IsFiniteSet(Environments) /\ Cardinality(Environments) \in Nat
           /\ IsFiniteSet(fields) /\ Cardinality(fields) \in Nat
           /\ IsFiniteSet(InsertingEnvironment) /\ Cardinality(InsertingEnvironment) \in 0..Cardinality(Request)
           /\ IsFiniteSet(Planned) /\ Cardinality(Planned) \in Nat
           /\ Cardinality(Request) \in Nat
<1>1. Environments \subseteq Env /\ fields \subseteq Field
      /\ InsertingEnvironment \subseteq Request /\ Planned \subseteq Request \X Field
  BY DEF Environments, InsertingEnvironment, Planned, TypeOK, ProjectsTypeOK
<1>2. IsFiniteSet(Env) /\ IsFiniteSet(Field) /\ IsFiniteSet(Request)
  BY ProjectsAssumption
<1>3. IsFiniteSet(Environments) /\ IsFiniteSet(fields)
  BY <1>1, <1>2, FS_Subset
<1>4. IsFiniteSet(InsertingEnvironment) /\ Cardinality(InsertingEnvironment) <= Cardinality(Request)
  BY <1>1, <1>2, FS_Subset
<1>5. IsFiniteSet(Planned)
  BY <1>1, <1>2, FS_Product, FS_Subset
<1>6. /\ Cardinality(Environments) \in Nat /\ Cardinality(fields) \in Nat /\ Cardinality(Request) \in Nat
      /\ Cardinality(InsertingEnvironment) \in Nat /\ Cardinality(Planned) \in Nat
  BY <1>2, <1>3, <1>4, <1>5, FS_CardinalityType
<1> QED
  BY <1>3, <1>4, <1>5, <1>6

\* A set that does not grow is counted no higher.
LEMMA NoMore ==
    ASSUME NEW S, NEW T, IsFiniteSet(S), T \subseteq S
    PROVE  Cardinality(T) <= Cardinality(S)
BY FS_Subset

\* So many boxes, none of which holds more than m, hold together no more than m for
\* each box.
LEMMA Boxes ==
    ASSUME NEW R, IsFiniteSet(R), NEW F, IsFiniteSet(F), NEW P \in [R -> SUBSET F],
           NEW m \in Nat, \A r \in R : Cardinality(P[r]) <= m
    PROVE  Cardinality({x \in R \X F : x[2] \in P[x[1]]}) <= Cardinality(R) * m
<1> DEFINE Boxed == {x \in R \X F : x[2] \in P[x[1]]}
           Numbers(r) == {g \in [P[r] -> 1..m] : \A a, b \in P[r] : g[a] = g[b] => a = b}
           number == [r \in R |-> CHOOSE g \in Numbers(r) : TRUE]
           place == [x \in Boxed |-> <<x[1], number[x[1]][x[2]]>>]
<1>1. ASSUME NEW r \in R PROVE Numbers(r) # {}
  <2>1. IsFiniteSet(P[r])
    BY FS_Subset
  <2>2. Cardinality(P[r]) \in Nat /\ ExistsBijection(1..Cardinality(P[r]), P[r])
    BY <2>1, FS_CardinalityType
  <2>3. ExistsBijection(P[r], 1..Cardinality(P[r]))
    BY <2>2, Fun_ExistsBijSymmetric
  <2>4. PICK g \in Bijection(P[r], 1..Cardinality(P[r])) : TRUE
    BY <2>3 DEF ExistsBijection
  <2>5. /\ g \in [P[r] -> 1..Cardinality(P[r])]
        /\ \A a, b \in P[r] : g[a] = g[b] => a = b
    BY <2>4 DEF Bijection, Injection, IsInjective
  <2>6. Cardinality(P[r]) <= m
    OBVIOUS
  <2>7. g \in [P[r] -> 1..m]
    BY <2>2, <2>5, <2>6
  <2> QED
    BY <2>5, <2>7
<1>2. ASSUME NEW r \in R PROVE number[r] \in Numbers(r)
  BY <1>1
<1>3. place \in [Boxed -> R \X (1..m)]
  <2> SUFFICES ASSUME NEW x \in Boxed PROVE <<x[1], number[x[1]][x[2]]>> \in R \X (1..m)
    OBVIOUS
  <2>1. x[1] \in R /\ x[2] \in P[x[1]]
    OBVIOUS
  <2> HIDE DEF number, Boxed
  <2> QED
    BY <1>2, <2>1
<1>4. ASSUME NEW x \in Boxed, NEW y \in Boxed, place[x] = place[y] PROVE x = y
  <2>1. x[1] = y[1] /\ number[x[1]][x[2]] = number[y[1]][y[2]]
    BY <1>4
  <2>2. x[1] \in R /\ x[2] \in P[x[1]] /\ y[2] \in P[x[1]]
    BY <2>1
  <2>3. x[2] = y[2]
    <3> HIDE DEF number, Boxed, place
    <3> QED
      BY <1>2, <2>1, <2>2
  <2>4. x = <<x[1], x[2]>> /\ y = <<y[1], y[2]>>
    OBVIOUS
  <2> QED
    BY <2>1, <2>3, <2>4
<1>5. place \in Injection(Boxed, R \X (1..m))
  BY <1>3, <1>4 DEF Injection, IsInjective
<1>6. IsFiniteSet(1..m) /\ Cardinality(1..m) = m
  BY FS_Interval
<1>7. IsFiniteSet(R \X (1..m)) /\ Cardinality(R \X (1..m)) = Cardinality(R) * m
  BY <1>6, FS_Product
<1> HIDE DEF Boxed, place
<1> QED
  BY <1>5, <1>7, FS_Injection DEF Boxed

\* The steps that bring environments nearer: all others leave no more of them,
\* there or on their way.
LEMMA EnvironmentsStep ==
    ASSUME TypeOK, [Next]_vars
    PROVE  \/ Environments' \subseteq Environments /\ InsertingEnvironment' \subseteq InsertingEnvironment
           \/ \E r \in Request : CountEnvironments(r) \/ InsertEnvironment(r)
<1> DEFINE Fewer == Environments' \subseteq Environments /\ InsertingEnvironment' \subseteq InsertingEnvironment
<1>0. request \in [Request -> RequestState] /\ env \in [Env -> EnvLife]
  BY DEF TypeOK, ProjectsTypeOK
<1>1. ASSUME NEW r \in Request, Ends(r) PROVE InsertingEnvironment' \subseteq InsertingEnvironment
  BY <1>0, <1>1 DEF Ends, Idle, InsertingEnvironment
<1>2. ASSUME NEW r \in Request, NEW kind, NEW to, Starts(r, kind, to), [to EXCEPT !.during = {settings}].phase # "insertEnv"
      PROVE  InsertingEnvironment' \subseteq InsertingEnvironment
  BY <1>0, <1>2 DEF Starts, InsertingEnvironment
<1>3. ASSUME UNCHANGED env PROVE Environments' = Environments
  BY <1>3 DEF Environments
<1>4. ASSUME UNCHANGED request PROVE InsertingEnvironment' = InsertingEnvironment
  BY <1>4 DEF InsertingEnvironment
<1>5. ASSUME NEW r \in Request, RequestStep(r), ~CountEnvironments(r), ~InsertEnvironment(r) PROVE Fewer
  <2>1. ASSUME NEW e \in Env, CheckUnprotected(r, e) PROVE Fewer
    BY <1>2, <1>3, <2>1 DEF CheckUnprotected, Idle, rows
  <2>2. ASSUME NEW e \in Env, CheckKeyEnvironment(r, e) PROVE Fewer
    BY <1>2, <1>3, <2>2 DEF CheckKeyEnvironment, Idle, rows
  <2>3. ASSUME DeleteEnvironment(r) PROVE Fewer
    <3>1. Environments' \subseteq Environments
      BY <1>0, <2>3 DEF DeleteEnvironment, Environments
    <3> QED
      BY <1>1, <2>3, <3>1 DEF DeleteEnvironment
  <2>4. ASSUME NEW f \in Field, CountFields(r, f) PROVE Fewer
    BY <1>2, <1>3, <2>4 DEF CountFields, Idle, rows
  <2>5. ASSUME CheckField(r) PROVE Fewer
    <3>1. request[r] \in RequestFields
      BY <1>0 DEF RequestState
    <3>2. request'[r].phase = "insertField"
      BY <1>0, <2>5, <3>1 DEF CheckField, RequestFields
    <3> QED
      BY <1>0, <1>3, <2>5, <3>2 DEF CheckField, InsertingEnvironment, rows
  <2>6. ASSUME InsertField(r) \/ InsertKey(r) \/ Fails(r) PROVE Fewer
    BY <1>1, <1>3, <2>6 DEF InsertField, InsertKey, Fails, rows
  <2>7. ASSUME ReadLifetime(r) PROVE Fewer
    BY <1>2, <1>3, <2>7 DEF ReadLifetime, Idle, rows
  <2>8. ASSUME NEW k \in KeyId, RevokeKey(r, k) PROVE Fewer
    BY <1>2, <1>3, <2>8 DEF RevokeKey, Idle
  <2>9. ASSUME ReadSettings(r) PROVE Fewer
    BY <1>2, <1>3, <2>9 DEF ReadSettings, Idle, rows
  <2>10. ASSUME UpdateSettings(r) PROVE Fewer
    <3>1. ASSUME NEW q \in Request, request'[q].phase = "insertEnv" PROVE request[q].phase = "insertEnv"
      <4>1. request'[q] = [request[q] EXCEPT !.during = request[q].during \cup {settings'}]
        BY <2>10, <3>1 DEF UpdateSettings, Idle
      <4>2. request[q] \in RequestFields
        BY <1>0 DEF RequestState
      <4> QED
        BY <3>1, <4>1, <4>2 DEF RequestFields
    <3> QED
      BY <1>3, <2>10, <3>1 DEF UpdateSettings, InsertingEnvironment
  <2>11. ASSUME NEW new \in SUBSET Field, CountImport(r, new) PROVE Fewer
    BY <1>2, <1>3, <2>11 DEF CountImport, Idle, rows
  <2> QED
    BY <1>5, <2>1, <2>2, <2>3, <2>4, <2>5, <2>6, <2>7, <2>8, <2>9, <2>10, <2>11 DEF RequestStep
<1>6. ASSUME ProjectStep PROVE Fewer
  <2>1. Environments' \subseteq Environments
    BY <1>0, <1>6 DEF ProjectStep, UpdateEnvironment, DeleteField, DeleteProject, Environments
  <2> QED
    BY <1>4, <1>6, <2>1 DEF ProjectStep, UpdateEnvironment, DeleteField, DeleteProject
<1>7. ASSUME NEW r \in Request, Evict(r) PROVE Fewer
  BY <1>1, <1>3, <1>7 DEF Evict, Evicted, rows
<1>8. ASSUME Restart PROVE Fewer
  BY <1>3, <1>8 DEF Restart, rows, Idle, InsertingEnvironment
<1>9. ASSUME NEW r \in Request, NEW k \in KeyId, Revoke(r, k) PROVE Fewer
  BY <1>2, <1>3, <1>9 DEF Revoke, RevokeKey, Idle
<1>10. ASSUME UNCHANGED projectVars PROVE Fewer
  BY <1>3, <1>4, <1>10 DEF projectVars, rows
<1>11. ASSUME Tick PROVE Fewer
  BY <1>3, <1>4, <1>11 DEF Tick, rows
<1> QED
  BY <1>5, <1>6, <1>7, <1>8, <1>9, <1>10, <1>11 DEF Next, Authenticate, LoadApiKey, StoreKey, LoadFails,
     TimeToLive, Other, vars

\* The same of the context fields: all other steps leave no more of them, there or
\* planned.
LEMMA FieldsStep ==
    ASSUME TypeOK, [Next]_vars
    PROVE  \/ /\ fields' \subseteq fields
              /\ \A q \in Request : request'[q].planned \subseteq request[q].planned
           \/ \E r \in Request : \/ \E f \in Field : CountFields(r, f)
                                 \/ \E new \in SUBSET Field : CountImport(r, new)
                                 \/ InsertField(r)
<1> DEFINE Plans == \A q \in Request : request'[q].planned \subseteq request[q].planned
           Fewer == fields' \subseteq fields /\ Plans
<1>0. request \in [Request -> RequestState]
  BY DEF TypeOK, ProjectsTypeOK
<1>1. ASSUME NEW r \in Request, Ends(r) PROVE Plans
  BY <1>0, <1>1 DEF Ends, Idle
<1>2. ASSUME NEW r \in Request, NEW kind, NEW to, Starts(r, kind, to), [to EXCEPT !.during = {settings}].planned = {}
      PROVE  Plans
  BY <1>0, <1>2 DEF Starts
<1>3. ASSUME UNCHANGED request PROVE Plans
  BY <1>3
<1>4. ASSUME NEW r \in Request, RequestStep(r), ~InsertField(r), ~\E f \in Field : CountFields(r, f),
             ~\E new \in SUBSET Field : CountImport(r, new)
      PROVE  Fewer
  <2>1. ASSUME CountEnvironments(r) PROVE Fewer
    BY <1>2, <2>1 DEF CountEnvironments, Idle, rows
  <2>2. ASSUME NEW e \in Env, CheckUnprotected(r, e) PROVE Fewer
    BY <1>2, <2>2 DEF CheckUnprotected, Idle, rows
  <2>3. ASSUME NEW e \in Env, CheckKeyEnvironment(r, e) PROVE Fewer
    BY <1>2, <2>3 DEF CheckKeyEnvironment, Idle, rows
  <2>4. ASSUME CheckField(r) PROVE Fewer
    <3>1. request[r] \in RequestFields
      BY <1>0 DEF RequestState
    <3>2. request'[r].planned = request[r].planned
      BY <1>0, <2>4, <3>1 DEF CheckField, RequestFields
    <3> QED
      BY <1>0, <2>4, <3>2 DEF CheckField, rows
  <2>5. ASSUME InsertEnvironment(r) \/ DeleteEnvironment(r) \/ InsertKey(r) \/ Fails(r) PROVE Fewer
    BY <1>1, <2>5 DEF InsertEnvironment, DeleteEnvironment, InsertKey, Fails, rows
  <2>6. ASSUME ReadLifetime(r) PROVE Fewer
    BY <1>2, <2>6 DEF ReadLifetime, Idle, rows
  <2>7. ASSUME NEW k \in KeyId, RevokeKey(r, k) PROVE Fewer
    BY <1>2, <2>7 DEF RevokeKey, Idle
  <2>8. ASSUME ReadSettings(r) PROVE Fewer
    BY <1>2, <2>8 DEF ReadSettings, Idle, rows
  <2>9. ASSUME UpdateSettings(r) PROVE Fewer
    <3>1. ASSUME NEW q \in Request PROVE request'[q].planned \subseteq request[q].planned
      <4>1. request'[q] = Idle \/ request'[q] = [request[q] EXCEPT !.during = request[q].during \cup {settings'}]
        BY <2>9 DEF UpdateSettings
      <4>2. request[q] \in RequestFields
        BY <1>0 DEF RequestState
      <4> QED
        BY <4>1, <4>2 DEF RequestFields, Idle
    <3> QED
      BY <2>9, <3>1 DEF UpdateSettings
  <2> QED
    BY <1>4, <2>1, <2>2, <2>3, <2>4, <2>5, <2>6, <2>7, <2>8, <2>9 DEF RequestStep
<1>5. ASSUME ProjectStep PROVE Fewer
  BY <1>3, <1>5 DEF ProjectStep, UpdateEnvironment, DeleteField, DeleteProject
<1>6. ASSUME NEW r \in Request, Evict(r) PROVE Fewer
  BY <1>1, <1>6 DEF Evict, Evicted, rows
<1>7. ASSUME Restart PROVE Fewer
  BY <1>7 DEF Restart, rows, Idle
<1>8. ASSUME NEW r \in Request, NEW k \in KeyId, Revoke(r, k) PROVE Fewer
  BY <1>2, <1>8 DEF Revoke, RevokeKey, Idle
<1>9. ASSUME UNCHANGED projectVars PROVE Fewer
  BY <1>3, <1>9 DEF projectVars, rows
<1>10. ASSUME Tick PROVE Fewer
  BY <1>3, <1>10 DEF Tick, rows
<1> QED
  BY <1>4, <1>5, <1>6, <1>7, <1>8, <1>9, <1>10 DEF Next, Authenticate, LoadApiKey, StoreKey, LoadFails,
     TimeToLive, Other, vars

\* What Reserved says of the context fields.
FieldsReserved ==
    /\ \A r \in Request : Cardinality(request[r].planned) <= MaxFields
    /\ Cardinality(fields) + Cardinality(Planned) <= MaxFields * Cardinality(Request)

\* A request that counts room for what it plans keeps it: the others plan no more
\* than the limit each, whatever they have counted.
LEMMA CountingReserves ==
    ASSUME TypeOK, TypeOK', FieldsReserved, NEW r \in Request, NEW new \in SUBSET Field,
           request' = [request EXCEPT ![r] = request'[r]], request'[r].planned = new,
           fields' = fields, Cardinality(fields) + Cardinality(new) <= MaxFields
    PROVE  FieldsReserved'
<1> DEFINE rest == Request \ {r}
           plan == [q \in rest |-> request[q].planned]
           Others == {x \in rest \X Field : x[2] \in plan[x[1]]}
           Mine == {r} \X new
<1>0. /\ request \in [Request -> RequestState]
      /\ \A q \in Request : request[q].planned \in SUBSET Field
      /\ IsFiniteSet(Field) /\ IsFiniteSet(Request) /\ MaxFields \in Nat
      /\ Cardinality(fields) \in Nat /\ Cardinality(Request) \in Nat
  BY ProjectsAssumption, FiniteRows DEF TypeOK, ProjectsTypeOK, RequestState, RequestFields
<1>1. \A q \in rest : request'[q] = request[q]
  BY <1>0
<1>2. IsFiniteSet(rest) /\ Cardinality(rest) = Cardinality(Request) - 1
  BY <1>0, FS_RemoveElement
<1>3. IsFiniteSet(new) /\ Cardinality(new) \in Nat
  BY <1>0, FS_Subset, FS_CardinalityType
<1>4. Cardinality(Others) <= (Cardinality(Request) - 1) * MaxFields
  <2>1. plan \in [rest -> SUBSET Field] /\ \A q \in rest : Cardinality(plan[q]) <= MaxFields
    BY <1>0 DEF FieldsReserved
  <2> HIDE DEF rest, plan
  <2> QED
    BY <1>0, <1>2, <2>1, Boxes
<1>5. IsFiniteSet(Mine) /\ Cardinality(Mine) = Cardinality(new)
  <2>1. IsFiniteSet({r}) /\ Cardinality({r}) = 1
    BY FS_Singleton
  <2> QED
    BY <1>3, <2>1, FS_Product
<1>6. IsFiniteSet(Others) /\ Cardinality(Others) \in Nat
  <2>1. Others \subseteq Planned
    BY DEF Planned
  <2> QED
    BY <2>1, FiniteRows, FS_Subset, FS_CardinalityType
<1>7. Planned' = Others \cup Mine
  BY <1>1 DEF Planned
<1>8. Cardinality(Planned') <= Cardinality(Others) + Cardinality(new) /\ Cardinality(Planned') \in Nat
  <2> HIDE DEF Others, Mine
  <2>1. /\ IsFiniteSet(Others \cup Mine)
        /\ Cardinality(Others \cup Mine) = Cardinality(Others) + Cardinality(Mine) - Cardinality(Others \cap Mine)
    BY <1>5, <1>6, FS_Union
  <2>2. IsFiniteSet(Others \cap Mine) /\ Cardinality(Others \cap Mine) \in Nat
    BY <1>5, FS_Subset, FS_CardinalityType
  <2>3. Cardinality(Others \cup Mine) \in Nat
    BY <2>1, FS_CardinalityType
  <2> QED
    BY <1>3, <1>5, <1>6, <1>7, <2>1, <2>2, <2>3
<1>9. (Cardinality(Request) - 1) * MaxFields = MaxFields * Cardinality(Request) - MaxFields
  BY <1>0
<1>10. Cardinality(fields') + Cardinality(Planned') <= MaxFields * Cardinality(Request)
  <2> HIDE DEF Others
  <2>1. MaxFields * Cardinality(Request) \in Nat
    BY <1>0
  <2> QED
    BY <1>0, <1>3, <1>4, <1>6, <1>8, <1>9, <2>1
<1>11. ASSUME NEW q \in Request PROVE Cardinality(request'[q].planned) <= MaxFields
  <2>1. CASE q = r
    BY <1>0, <1>3, <2>1
  <2>2. CASE q # r
    BY <1>1, <2>2 DEF FieldsReserved
  <2> QED
    BY <2>1, <2>2
<1> QED
  BY <1>10, <1>11 DEF FieldsReserved

\* A request that inserts what it planned adds no more than it had reserved.
LEMMA InsertingReserves ==
    ASSUME TypeOK, TypeOK', FieldsReserved, NEW r \in Request, InsertField(r)
    PROVE  FieldsReserved'
<1> DEFINE mine == request[r].planned
           Mine == {r} \X mine
<1>0. /\ request \in [Request -> RequestState]
      /\ \A q \in Request : request[q].planned \in SUBSET Field
      /\ IsFiniteSet(Field) /\ MaxFields \in Nat
  BY ProjectsAssumption DEF TypeOK, ProjectsTypeOK, RequestState, RequestFields
<1>1. IsFiniteSet(mine) /\ Cardinality(mine) \in Nat
  BY <1>0, FS_Subset, FS_CardinalityType
<1>2. IsFiniteSet(Mine) /\ Cardinality(Mine) = Cardinality(mine)
  <2>1. IsFiniteSet({r}) /\ Cardinality({r}) = 1
    BY FS_Singleton
  <2> HIDE DEF mine
  <2> QED
    BY <1>1, <2>1, FS_Product
<1>3. /\ fields' = fields \cup mine
      /\ request'[r].planned = {} /\ \A q \in Request \ {r} : request'[q] = request[q]
  BY <1>0 DEF InsertField, Ends, Idle
<1>4. Planned = Planned' \cup Mine /\ Planned' \cap Mine = {}
  BY <1>0, <1>3 DEF Planned
<1>5. IsFiniteSet(Planned) /\ Cardinality(Planned) \in Nat /\ IsFiniteSet(fields) /\ Cardinality(fields) \in Nat
      /\ Cardinality(Request) \in Nat
  BY FiniteRows
<1>6. IsFiniteSet(Planned') /\ Cardinality(Planned') \in Nat
  BY <1>4, <1>5, FS_Subset, FS_CardinalityType
<1>7. Cardinality(Planned) = Cardinality(Planned') + Cardinality(mine)
  <2>1. Cardinality(Planned' \cup Mine) = Cardinality(Planned') + Cardinality(Mine) - Cardinality(Planned' \cap Mine)
    BY <1>2, <1>6, FS_Union
  <2>2. Cardinality({}) = 0
    BY FS_EmptySet
  <2> HIDE DEF Mine, mine
  <2> QED
    BY <1>1, <1>2, <1>4, <1>6, <2>1, <2>2
<1>8. Cardinality(fields') <= Cardinality(fields) + Cardinality(mine) /\ Cardinality(fields') \in Nat
  <2> HIDE DEF mine
  <2>1. /\ IsFiniteSet(fields \cup mine)
        /\ Cardinality(fields \cup mine) = Cardinality(fields) + Cardinality(mine) - Cardinality(fields \cap mine)
    BY <1>1, <1>5, FS_Union
  <2>2. Cardinality(fields \cap mine) \in Nat /\ Cardinality(fields \cup mine) \in Nat
    BY <1>1, <2>1, FS_Subset, FS_CardinalityType
  <2> QED
    BY <1>1, <1>3, <1>5, <2>1, <2>2
<1>9. Cardinality(fields') + Cardinality(Planned') <= MaxFields * Cardinality(Request)
  <2> HIDE DEF mine
  <2>1. MaxFields * Cardinality(Request) \in Nat
    BY <1>0, <1>5
  <2> QED
    BY <1>1, <1>5, <1>6, <1>7, <1>8, <2>1 DEF FieldsReserved
<1>10. ASSUME NEW q \in Request PROVE Cardinality(request'[q].planned) <= MaxFields
  <2>1. CASE q = r
    <3>1. Cardinality({}) = 0
      BY FS_EmptySet
    <3>2. request'[q].planned = {}
      BY <1>3, <2>1
    <3>3. Cardinality(request'[q].planned) = 0
      BY <3>1, <3>2
    <3> QED
      BY <1>0, <3>3
  <2>2. CASE q # r
    BY <1>3, <2>2 DEF FieldsReserved
  <2> QED
    BY <2>1, <2>2
<1> QED
  BY <1>9, <1>10 DEF FieldsReserved

\* A step that plans and adds nothing leaves what is reserved.
LEMMA FewerReserves ==
    ASSUME TypeOK, TypeOK', FieldsReserved, fields' \subseteq fields,
           \A q \in Request : request'[q].planned \subseteq request[q].planned
    PROVE  FieldsReserved'
<1>0. /\ MaxFields \in Nat /\ IsFiniteSet(Field)
      /\ \A q \in Request : request[q].planned \in SUBSET Field /\ request'[q].planned \in SUBSET Field
  BY ProjectsAssumption DEF TypeOK, ProjectsTypeOK, RequestState, RequestFields
<1>1. IsFiniteSet(Planned) /\ Cardinality(Planned) \in Nat /\ IsFiniteSet(fields) /\ Cardinality(fields) \in Nat
      /\ Cardinality(Request) \in Nat
  BY FiniteRows
<1>2. Planned' \subseteq Planned
  BY DEF Planned
<1>3. /\ Cardinality(Planned') \in Nat /\ Cardinality(Planned') <= Cardinality(Planned)
      /\ Cardinality(fields') \in Nat /\ Cardinality(fields') <= Cardinality(fields)
  BY <1>1, <1>2, FS_Subset, FS_CardinalityType
<1>4. ASSUME NEW q \in Request PROVE Cardinality(request'[q].planned) <= MaxFields
  <2>1. IsFiniteSet(request[q].planned)
    BY <1>0, FS_Subset
  <2>2. /\ Cardinality(request'[q].planned) \in Nat /\ Cardinality(request[q].planned) \in Nat
        /\ Cardinality(request'[q].planned) <= Cardinality(request[q].planned)
    BY <2>1, FS_Subset, FS_CardinalityType
  <2> QED
    BY <1>0, <2>2 DEF FieldsReserved
<1>5. MaxFields * Cardinality(Request) \in Nat
  BY <1>0, <1>1
<1> QED
  BY <1>1, <1>3, <1>4, <1>5 DEF FieldsReserved

\* A step keeps Reserved.
LEMMA ReservedStep ==
    ASSUME TypeOK, TypeOK', Reserved, [Next]_vars
    PROVE  Reserved'
<1> DEFINE EnvBound == Cardinality(Environments) + Cardinality(InsertingEnvironment)
                         <= MaxEnvironments + Cardinality(Request) - 1
<1>0. /\ request \in [Request -> RequestState] /\ env \in [Env -> EnvLife]
      /\ MaxEnvironments \in Nat
  BY ProjectsAssumption DEF TypeOK, ProjectsTypeOK
<1>1. /\ IsFiniteSet(Environments) /\ Cardinality(Environments) \in Nat
      /\ IsFiniteSet(InsertingEnvironment) /\ Cardinality(InsertingEnvironment) \in 0..Cardinality(Request)
      /\ Cardinality(Request) \in Nat
  BY FiniteRows
<1>2. /\ IsFiniteSet(Environments') /\ Cardinality(Environments') \in Nat
      /\ IsFiniteSet(InsertingEnvironment') /\ Cardinality(InsertingEnvironment') \in 0..Cardinality(Request)
  <2>1. Environments' \subseteq Env /\ InsertingEnvironment' \subseteq Request
    BY DEF Environments, InsertingEnvironment, TypeOK, ProjectsTypeOK
  <2>2. IsFiniteSet(Env) /\ IsFiniteSet(Request)
    BY ProjectsAssumption
  <2>3. /\ IsFiniteSet(Environments') /\ IsFiniteSet(InsertingEnvironment')
        /\ Cardinality(InsertingEnvironment') <= Cardinality(Request)
    BY <2>1, <2>2, FS_Subset
  <2>4. Cardinality(Environments') \in Nat /\ Cardinality(InsertingEnvironment') \in Nat
    BY <2>3, FS_CardinalityType
  <2> QED
    BY <1>1, <2>3, <2>4
<1>3. EnvBound'
  <2>1. ASSUME Environments' \subseteq Environments, InsertingEnvironment' \subseteq InsertingEnvironment
        PROVE  EnvBound'
    <3>1. Cardinality(Environments') <= Cardinality(Environments)
      BY <1>1, <2>1, NoMore
    <3>2. Cardinality(InsertingEnvironment') <= Cardinality(InsertingEnvironment)
      BY <1>1, <2>1, NoMore
    <3> QED
      BY <1>0, <1>1, <1>2, <3>1, <3>2 DEF Reserved
  <2>2. ASSUME NEW r \in Request, CountEnvironments(r) PROVE EnvBound'
    <3>1. Environments' = Environments
      BY <2>2 DEF CountEnvironments, rows, Environments
    <3>2. Cardinality(Environments) < MaxEnvironments
      BY <2>2 DEF CountEnvironments, HasRoom
    <3> QED
      BY <1>0, <1>1, <1>2, <3>1, <3>2
  <2>3. ASSUME NEW r \in Request, InsertEnvironment(r) PROVE EnvBound'
    <3>1. PICK e \in Env : env[e] = "unborn" /\ Environments' = Environments \cup {e}
      BY <1>0, <2>3 DEF InsertEnvironment, Environments
    <3>2. e \notin Environments
      BY <3>1 DEF Environments
    <3>3. Cardinality(Environments') = Cardinality(Environments) + 1
      BY <1>1, <3>1, <3>2, FS_AddElement
    <3>4. r \in InsertingEnvironment /\ InsertingEnvironment' = InsertingEnvironment \ {r}
      BY <1>0, <2>3 DEF InsertEnvironment, Ends, Idle, InsertingEnvironment
    <3>5. Cardinality(InsertingEnvironment') = Cardinality(InsertingEnvironment) - 1
      BY <1>1, <3>4, FS_RemoveElement
    <3> QED
      BY <1>0, <1>1, <1>2, <3>3, <3>5 DEF Reserved
  <2> QED
    BY EnvironmentsStep, <2>1, <2>2, <2>3
<1>4. FieldsReserved'
  <2>0. FieldsReserved
    BY DEF Reserved, FieldsReserved
  <2>1. ASSUME NEW r \in Request, NEW f \in Field, CountFields(r, f) PROVE FieldsReserved'
    <3>1. request' = [request EXCEPT ![r] = request'[r]] /\ request'[r].planned = {f} /\ fields' = fields
      BY <1>0, <2>1 DEF CountFields, Starts, Idle, rows
    <3>2. Cardinality(fields) < MaxFields
      BY <2>1 DEF CountFields, HasRoom
    <3>3. Cardinality({f}) = 1 /\ Cardinality(fields) \in Nat /\ MaxFields \in Nat
      BY FS_Singleton, FiniteRows, ProjectsAssumption
    <3>4. Cardinality(fields) + Cardinality({f}) <= MaxFields
      BY <3>2, <3>3
    <3> QED
      BY <2>0, <3>1, <3>4, CountingReserves
  <2>2. ASSUME NEW r \in Request, NEW new \in SUBSET Field, CountImport(r, new) PROVE FieldsReserved'
    <3>1. request' = [request EXCEPT ![r] = request'[r]] /\ request'[r].planned = new /\ fields' = fields
      BY <1>0, <2>2 DEF CountImport, Starts, Idle, rows
    <3>2. Cardinality(fields) + Cardinality(new) <= MaxFields
      BY <2>2 DEF CountImport
    <3> QED
      BY <2>0, <3>1, <3>2, CountingReserves
  <2> QED
    BY FieldsStep, InsertingReserves, FewerReserves, <2>0, <2>1, <2>2
<1> QED
  BY <1>3, <1>4 DEF Reserved, FieldsReserved

\* However many requests count and then insert at once, the environments pass their
\* limit by no more than one row for each request beside the first
\* (environment.service.ts:13), and the context fields reach no more than the limit for
\* each request (context-field.service.ts:42, transfer.service.ts:277).
THEOREM LimitsHoldUpToRequests == Spec => []OvershootIsBounded
<1>1. Init => Reserved
  <2> SUFFICES ASSUME Init PROVE Reserved
    OBVIOUS
  <2>1. /\ InsertingEnvironment = {} /\ Planned = {} /\ fields = {}
        /\ \A r \in Request : request[r].planned = {}
    BY DEF Init, ProjectsInit, Idle, InsertingEnvironment, Planned
  <2>2. Cardinality(Request) \in Nat /\ Cardinality(Request) # 0
    BY ProjectsAssumption, FS_CardinalityType, FS_EmptySet
  <2>3. Cardinality({}) = 0
    BY FS_EmptySet
  <2>4. Cardinality(Environments) \in Nat /\ Cardinality(Environments) <= MaxEnvironments
    BY InitType, FiniteRows DEF Init, ProjectsInit
  <2>5. MaxEnvironments \in Nat /\ MaxFields \in Nat /\ MaxFields * Cardinality(Request) \in Nat
    BY <2>2, ProjectsAssumption
  <2>6. Cardinality(Environments) + Cardinality(InsertingEnvironment)
          <= MaxEnvironments + Cardinality(Request) - 1
    BY <2>1, <2>2, <2>3, <2>4, <2>5
  <2>7. /\ \A r \in Request : Cardinality(request[r].planned) <= MaxFields
        /\ Cardinality(fields) + Cardinality(Planned) <= MaxFields * Cardinality(Request)
    <3>1. /\ Cardinality(fields) = 0 /\ Cardinality(Planned) = 0
          /\ \A r \in Request : Cardinality(request[r].planned) = 0
      BY <2>1, <2>3
    <3> QED
      BY <2>5, <3>1
  <2> QED
    BY <2>6, <2>7 DEF Reserved
<1>2. TypeOK /\ TypeOK' /\ Reserved /\ [Next]_vars => Reserved'
  BY ReservedStep
<1>3. TypeOK /\ Reserved => OvershootIsBounded
  <2> SUFFICES ASSUME TypeOK, Reserved PROVE OvershootIsBounded
    OBVIOUS
  <2>1. MaxEnvironments \in Nat /\ MaxFields * Cardinality(Request) \in Nat
    BY ProjectsAssumption, FiniteRows
  <2> QED
    BY FiniteRows, <2>1 DEF Reserved, OvershootIsBounded
<1> QED
  BY <1>1, <1>2, <1>3, TypeCorrect, PTL DEF Spec
=============================================================================
