------------------------ MODULE FlagServing_proofs ------------------------
(***************************************************************************)
(* FlagServing for any environments, any number of admin requests and any   *)
(* interleaving: the types, the freshness of undisturbed entries, and the   *)
(* refinement of CacheContract.                                             *)
(***************************************************************************)
EXTENDS FlagServingContract, SequenceTheorems, TLAPS

USE KeyAssumption, NoneAssumption

\* What one instant of the database would load is something the cache may hold.
LEMMA CurrentType == \A d \in Database, e \in Env : Current(d, e) \in EnvState
  BY DEF Database, Current, StateOf, EnvState, Toggle, Rules, FieldRow

\* Every write leaves a database.
LEMMA WrittenType ==
  ASSUME NEW d \in Database, NEW kind \in WriteKind, NEW e \in Env,
         NEW value \in ValuesOf(kind), NEW n \in Written(d, kind, e, value)
  PROVE  n \in Database
<1> USE DEF Database, Life, Toggle, Rules, FieldRow
<1>1. CASE kind = "toggle"
  <2>1. value \in Toggle
    BY <1>1 DEF ValuesOf
  <2>2. n = [d EXCEPT !.row = [@ EXCEPT ![e] = value]]
    BY <1>1 DEF Written, ToggleWritten
  <2> QED BY <2>1, <2>2
<1>2. CASE kind = "strategies"
  <2>1. value \in Rules
    BY <1>2 DEF ValuesOf
  <2>2. n \in StrategiesWritten(d, e, value)
    BY <1>2 DEF Written
  <2>3. n = [d EXCEPT !.rules = [d.rules EXCEPT ![e] = value]] \/ n = d
    BY <2>2 DEF StrategiesWritten
  <2> QED BY <2>1, <2>3
<1>3. CASE kind = "createFlag"
  <2>1. n \in FlagCreated(d)
    BY <1>3 DEF Written
  <2>2. PICK r \in [Env -> Toggle] : n = [d EXCEPT !.flag = "live", !.row = r]
    BY <2>1 DEF FlagCreated
  <2> QED BY <2>2
<1>4. CASE kind = "deleteFlag"
  <2>1. n \in FlagDeleted(d)
    BY <1>4 DEF Written
  <2>2. n = [d EXCEPT !.flag = "deleted", !.row = [x \in Env |-> "none"],
                      !.rules = [x \in Env |-> "everyone"]]
    BY <2>1 DEF FlagDeleted
  <2>3. /\ [x \in Env |-> "none"] \in [Env -> Toggle]
        /\ [x \in Env |-> "everyone"] \in [Env -> Rules]
    OBVIOUS
  <2> QED BY <2>2, <2>3
<1>5. CASE kind = "createField"
  <2>1. value \in FieldRow /\ n \in FieldCreated(d, value)
    BY <1>5 DEF Written, ValuesOf
  <2> QED BY <2>1 DEF FieldCreated
<1>6. CASE kind = "updateField"
  <2>1. value \in FieldRow /\ n \in FieldUpdated(d, value)
    BY <1>6 DEF Written, ValuesOf
  <2> QED BY <2>1 DEF FieldUpdated
<1>7. CASE kind = "deleteField"
  <2>1. n \in FieldDeleted(d)
    BY <1>7 DEF Written
  <2> QED BY <2>1 DEF FieldDeleted
<1>8. CASE kind = "createEnv"
  <2>1. n \in EnvCreated(d, e)
    BY <1>8 DEF Written
  <2> QED BY <2>1 DEF EnvCreated
<1>9. CASE kind = "deleteEnv"
  <2>1. n \in EnvDeleted(d, e)
    BY <1>9 DEF Written
  <2>2. n = [d EXCEPT !.env = [d.env EXCEPT ![e] = "deleted"],
                      !.row = [d.row EXCEPT ![e] = "none"],
                      !.rules = [d.rules EXCEPT ![e] = "everyone"]]
    BY <2>1 DEF EnvDeleted
  <2>3. /\ [d.env EXCEPT ![e] = "deleted"] \in [Env -> Life]
        /\ [d.row EXCEPT ![e] = "none"] \in [Env -> Toggle]
        /\ [d.rules EXCEPT ![e] = "everyone"] \in [Env -> Rules]
    OBVIOUS
  <2> QED BY <2>2, <2>3
<1>10. CASE kind = "import"
  <2>1. n \in FlagImported(d)
    BY <1>10 DEF Written
  <2>2. PICK p \in [Env -> Toggle] \X [Env -> Rules] \X FieldRow :
          n = [d EXCEPT !.flag = "live", !.row = p[1], !.rules = p[2], !.field = p[3]]
    BY <2>1 DEF FlagImported
  <2>3. p[1] \in [Env -> Toggle] /\ p[2] \in [Env -> Rules] /\ p[3] \in FieldRow
    BY <2>2
  <2> QED BY <2>2, <2>3
<1>11. CASE kind = "deleteProject"
  <2>1. n \in ProjectDeleted(d)
    BY <1>11 DEF Written
  <2>2. n = [project |-> "deleted",
             flag |-> IF d.flag = "live" THEN "deleted" ELSE d.flag,
             env |-> [x \in Env |-> IF d.env[x] = "live" THEN "deleted" ELSE d.env[x]],
             row |-> [x \in Env |-> "none"], rules |-> [x \in Env |-> "everyone"],
             field |-> "none"]
    BY <2>1 DEF ProjectDeleted
  <2>3. /\ [x \in Env |-> IF d.env[x] = "live" THEN "deleted" ELSE d.env[x]] \in [Env -> Life]
        /\ [x \in Env |-> "none"] \in [Env -> Toggle]
        /\ [x \in Env |-> "everyone"] \in [Env -> Rules]
    OBVIOUS
  <2> QED BY <2>2, <2>3
<1> QED BY <1>1, <1>2, <1>3, <1>4, <1>5, <1>6, <1>7, <1>8, <1>9, <1>10, <1>11 DEF WriteKind

\* A project that is gone does not come back, and only its deletion removes it.
LEMMA ProjectGone ==
  ASSUME NEW d \in Database, NEW kind \in WriteKind \ {"deleteProject"}, NEW e \in Env,
         NEW value, NEW n \in Written(d, kind, e, value)
  PROVE  n.project = d.project
<1> USE DEF Database
<1>1. CASE kind \in {"toggle", "strategies"}
  BY <1>1 DEF Written, ToggleWritten, StrategiesWritten
<1>2. CASE kind = "createFlag"
  <2>1. PICK r \in [Env -> Toggle] : n = [d EXCEPT !.flag = "live", !.row = r]
    BY <1>2 DEF Written, FlagCreated
  <2> QED BY <2>1
<1>3. CASE kind = "deleteFlag"
  BY <1>3 DEF Written, FlagDeleted
<1>4. CASE kind \in {"createField", "updateField", "deleteField"}
  BY <1>4 DEF Written, FieldCreated, FieldUpdated, FieldDeleted
<1>5. CASE kind \in {"createEnv", "deleteEnv"}
  BY <1>5 DEF Written, EnvCreated, EnvDeleted
<1>6. CASE kind = "import"
  <2>1. PICK p \in [Env -> Toggle] \X [Env -> Rules] \X FieldRow :
          n = [d EXCEPT !.flag = "live", !.row = p[1], !.rules = p[2], !.field = p[3]]
    BY <1>6 DEF Written, FlagImported
  <2> QED BY <2>1
<1> QED BY <1>1, <1>2, <1>3, <1>4, <1>5, <1>6 DEF WriteKind

\* The values a request carries depend only on its kind.
ValueOK ==
    \A w \in Writer : writer[w] # NoWrite => writer[w].value \in ValuesOf(writer[w].kind)

\* The types, and that a request's value is one its kind of write can carry, hold
\* in every state of the server (client.service.ts, the admin routes).
THEOREM TypeCorrect == Spec => [](TypeOK /\ ValueOK)
<1>1. Init => TypeOK /\ ValueOK
  BY DEF Init, TypeOK, ValueOK, EmptyCache, Database, Life, Load, NoLoad, NoWrite,
         Toggle, Rules, FieldRow
<1>2. TypeOK /\ ValueOK /\ [Next]_vars => (TypeOK /\ ValueOK)'
  <2> SUFFICES ASSUME TypeOK, ValueOK, [Next]_vars PROVE TypeOK' /\ ValueOK'
    OBVIOUS
  <2> USE DEF TypeOK, ValueOK
  <2>1. ASSUME NEW e \in Env, ClientRequest(e) PROVE TypeOK' /\ ValueOK'
    <3>1. waiting' \in [Env -> Seq(BOOLEAN)]
      <4>1. Append(waiting[e], FALSE) \in Seq(BOOLEAN)
        OBVIOUS
      <4>2. UNCHANGED waiting \/ waiting' = [waiting EXCEPT ![e] = Append(waiting[e], FALSE)]
        BY <2>1 DEF ClientRequest
      <4> QED BY <4>1, <4>2
    <3> QED BY <2>1, <3>1 DEF ClientRequest, Track
  <2>14. ASSUME NEW e \in Env, AcquireLock(e) PROVE TypeOK' /\ ValueOK'
    <3>1. Tail(waiting[e]) \in Seq(BOOLEAN) /\ Head(waiting[e]) \in BOOLEAN
      BY <2>14 DEF AcquireLock
    <3>2. [loader[e] EXCEPT !.pc = "flags", !.disturbed = Head(waiting[e])] \in Load
      BY <3>1 DEF Load
    <3>3. waiting' \in [Env -> Seq(BOOLEAN)]
      BY <2>14, <3>1 DEF AcquireLock
    <3>4. loader' \in [Env -> Load]
      BY <2>14, <3>2 DEF AcquireLock
    <3> QED BY <2>14, <3>3, <3>4 DEF AcquireLock
  <2>2. ASSUME NEW e \in Env, ReadFlags(e) PROVE TypeOK' /\ ValueOK'
    <3>1. db.row[e] \in Toggle
      BY DEF Database
    <3>2. [loader[e] EXCEPT !.pc = "strategies", !.row = db.row[e]] \in Load
      BY <3>1 DEF Load
    <3>3. loader' = [loader EXCEPT ![e] = [loader[e] EXCEPT !.pc = "strategies", !.row = db.row[e]]]
      BY <2>2 DEF ReadFlags
    <3> QED BY <2>2, <3>2, <3>3 DEF ReadFlags
  <2>3. ASSUME NEW e \in Env, ReadStrategies(e) PROVE TypeOK' /\ ValueOK'
    <3>1. db.rules[e] \in Rules
      BY DEF Database
    <3>2. [loader[e] EXCEPT !.pc = "fields", !.rules = db.rules[e]] \in Load
      BY <3>1 DEF Load
    <3>3. loader' = [loader EXCEPT ![e] = [loader[e] EXCEPT !.pc = "fields", !.rules = db.rules[e]]]
      BY <2>3 DEF ReadStrategies
    <3> QED BY <2>3, <3>2, <3>3 DEF ReadStrategies
  <2>4. ASSUME NEW e \in Env, ReadFields(e) PROVE TypeOK' /\ ValueOK'
    <3>1. db.field \in FieldRow
      BY DEF Database
    <3>2. [loader[e] EXCEPT !.pc = "return", !.field = db.field] \in Load
      BY <3>1 DEF Load
    <3>3. loader' = [loader EXCEPT ![e] = [loader[e] EXCEPT !.pc = "return", !.field = db.field]]
      BY <2>4 DEF ReadFields
    <3> QED BY <2>4, <3>2, <3>3 DEF ReadFields
  <2>5. ASSUME NEW e \in Env, StoreResult(e) PROVE TypeOK' /\ ValueOK'
    <3>1. Loaded(e) \in EnvState
      BY DEF Loaded, StateOf, EnvState, Load, Rules
    <3>2. [state |-> Loaded(e), disturbed |-> loader[e].disturbed, unreported |-> FALSE] \in Entry
      BY <3>1 DEF Entry, Load
    <3> QED BY <2>5, <3>2 DEF StoreResult, Put, Load, NoLoad, Toggle, Rules, FieldRow
  <2>6. ASSUME NEW e \in Env, LoadFails(e) PROVE TypeOK' /\ ValueOK'
    BY <2>6 DEF LoadFails, Load, NoLoad, Toggle, Rules, FieldRow
  <2>7. ASSUME NEW e \in Env, TimeToLive(e) PROVE TypeOK' /\ ValueOK'
    BY <2>7 DEF TimeToLive, Expire, Put
  <2>8. ASSUME NEW w \in Writer, WriteRequest(w) PROVE TypeOK' /\ ValueOK'
    <3>1. PICK kind \in Writes, e \in Env : \E value \in ValuesOf(kind) :
            writer' = [writer EXCEPT
              ![w] = [pc |-> "checked", kind |-> kind, env |-> e, value |-> value]]
      BY <2>8 DEF WriteRequest
    <3>2. PICK value \in ValuesOf(kind) :
            writer' = [writer EXCEPT
              ![w] = [pc |-> "checked", kind |-> kind, env |-> e, value |-> value]]
      BY <3>1
    <3>3. value \in WriteValue
      BY DEF ValuesOf, WriteValue, Rules
    <3>4. [pc |-> "checked", kind |-> kind, env |-> e, value |-> value] \in Write
      BY <3>3 DEF Write
    <3> QED BY <2>8, <3>2, <3>4 DEF WriteRequest, NoWrite
  <2>9. ASSUME NEW w \in Writer, Commit(w) \/ CommitUnreported(w) PROVE TypeOK' /\ ValueOK'
    <3>1. CommitRows(w) /\ writer[w] \in Write
      <4>1. CommitRows(w)
        BY <2>9 DEF Commit, CommitUnreported
      <4>2. writer[w].pc = "checked"
        BY <4>1 DEF CommitRows
      <4> QED BY <4>1, <4>2 DEF NoWrite
    <3>2. PICK d \in Written(db, writer[w].kind, writer[w].env, writer[w].value) :
            /\ db' = d
            /\ loader' = Disturb(loader, {e \in Env : Current(d, e) # Current(db, e)})
      BY <3>1 DEF CommitRows
    <3>3. db' \in Database
      BY <3>1, <3>2, WrittenType DEF Write, NoWrite
    <3>4. loader' \in [Env -> Load]
      BY <3>2 DEF Disturb, Load
    <3>5. writer' \in [Writer -> Write \cup {NoWrite}] /\ ValueOK'
      <4>1. \/ writer' = [writer EXCEPT ![w] = NoWrite]
            \/ writer' = [writer EXCEPT ![w] = [writer[w] EXCEPT !.pc = "committed"]]
        BY <2>9 DEF Commit, CommitUnreported
      <4>2. /\ [writer[w] EXCEPT !.pc = "committed"] \in Write
            /\ [writer[w] EXCEPT !.pc = "committed"].value = writer[w].value
            /\ [writer[w] EXCEPT !.pc = "committed"].kind = writer[w].kind
        BY <3>1 DEF Write
      <4>3. writer[w] # NoWrite
        BY <3>1 DEF CommitRows, NoWrite
      <4> QED BY <4>1, <4>2, <4>3
    <3>6. store' \in [Key -> Entry \cup {None}]
      <4>1. ASSUME NEW x \in Entry PROVE [x EXCEPT !.unreported = TRUE] \in Entry
        BY DEF Entry
      <4>2. CASE Commit(w)
        BY <4>2 DEF Commit
      <4>3. CASE CommitUnreported(w)
        <5>1. store' = [e \in Env |->
                IF store[e] = None \/ Current(db', e) = Current(db, e) THEN store[e]
                ELSE [store[e] EXCEPT !.unreported = TRUE]]
          BY <4>3 DEF CommitUnreported
        <5>2. ASSUME NEW e \in Env
              PROVE  (IF store[e] = None \/ Current(db', e) = Current(db, e) THEN store[e]
                      ELSE [store[e] EXCEPT !.unreported = TRUE]) \in Entry \cup {None}
          BY <4>1
        <5> QED BY <5>1, <5>2
      <4> QED BY <2>9, <4>2, <4>3
    <3> QED BY <3>1, <3>3, <3>4, <3>5, <3>6 DEF CommitRows
  <2>10. ASSUME NEW w \in Writer, WriteFails(w) PROVE TypeOK' /\ ValueOK'
    BY <2>10 DEF WriteFails
  <2>11. ASSUME NEW w \in Writer, Evict(w) PROVE TypeOK' /\ ValueOK'
    <3>1. store' \in [Key -> Entry \cup {None}] /\ knownKeys' \subseteq Key
      BY <2>11 DEF Evict, Delete, DeleteByPrefix, Forget
    <3>2. loader' \in [Env -> Load]
      <4>1. PICK K : loader' = Disturb(loader, K)
        BY <2>11 DEF Evict
      <4>2. ASSUME NEW ld \in Load PROVE [ld EXCEPT !.disturbed = TRUE] \in Load
        BY DEF Load
      <4> QED
        BY <4>1, <4>2 DEF Disturb
    <3>3. waiting' \in [Env -> Seq(BOOLEAN)]
      <4>1. ASSUME NEW q \in Seq(BOOLEAN) PROVE [i \in 1 .. Len(q) |-> TRUE] \in Seq(BOOLEAN)
        OBVIOUS
      <4> QED BY <2>11, <4>1 DEF Evict
    <3> QED BY <2>11, <3>1, <3>2, <3>3 DEF Evict
  <2>12. CASE Restart
    BY <2>12 DEF Restart, ClearedCache, Load, NoLoad, NoWrite, Toggle, Rules, FieldRow
  <2>13. CASE UNCHANGED vars
    BY <2>13 DEF vars
  <2> QED
    BY <2>1, <2>2, <2>3, <2>4, <2>5, <2>6, <2>7, <2>8, <2>9, <2>10, <2>11, <2>12, <2>13,
       <2>14
       DEF Next, LoadStep
<1> QED BY <1>1, <1>2, PTL DEF Spec

-----------------------------------------------------------------------------
(* What a write changes is what its route evicts, but for a new field and the *)
(* end of the project.                                                        *)

\* A write changes nothing outside the keys it evicts but to create a field or to
\* delete the project.
LEMMA ChangedIsCovered ==
  ASSUME NEW d \in Database, NEW kind \in WriteKind,
         NEW e \in Env, NEW value, NEW n \in Written(d, kind, e, value),
         NEW x \in Env, Current(n, x) # Current(d, x)
  PROVE  \/ x \in Covered(kind, e) \/ n.project = "deleted"
         \/ UpToNewField(d, x) \subseteq UpToNewField(n, x)
<1>1. CASE kind = "toggle"
  <2>1. n = [d EXCEPT !.row = [d.row EXCEPT ![e] = value]]
    BY <1>1 DEF Written, ToggleWritten
  <2>2. n.rules = d.rules /\ n.field = d.field /\ n.row = [d.row EXCEPT ![e] = value]
    BY <2>1 DEF Database
  <2>3. x = e
    BY <2>2 DEF Database, Current
  <2> QED BY <1>1, <2>3 DEF Covered
<1>2. CASE kind = "createEnv"
  <2>1. n = [d EXCEPT !.env = [d.env EXCEPT ![e] = "live"]]
    BY <1>2 DEF Written, EnvCreated
  <2>2. n.row = d.row /\ n.rules = d.rules /\ n.field = d.field
    BY <2>1 DEF Database
  <2> QED BY <2>2 DEF Current
<1>3. CASE kind = "createField"
  <2>1. n = [d EXCEPT !.field = value] /\ d.field = "none"
    BY <1>3 DEF Written, FieldCreated
  <2>2. n.row = d.row /\ n.rules = d.rules
    BY <2>1 DEF Database
  <2>3. Current(d, x).field = "none" /\ Current(d, x) = [Current(n, x) EXCEPT !.field = "none"]
    BY <2>1, <2>2 DEF Current, StateOf
  <2>4. Current(d, x) = [Current(d, x) EXCEPT !.field = "none"]
    BY <2>3 DEF Current, StateOf
  <2> QED BY <2>3, <2>4 DEF UpToNewField
<1>4. CASE kind = "deleteProject"
  BY <1>4 DEF Written, ProjectDeleted
<1>5. CASE kind \notin {"toggle", "createEnv", "createField", "deleteProject"}
  BY <1>5 DEF Covered, WriteKind
<1> QED BY <1>1, <1>2, <1>3, <1>4, <1>5

\* What a commit leaves unchanged of the result of a load, part by part.
LEMMA SameCurrent ==
  ASSUME NEW d, NEW n, NEW x \in Env, Current(n, x) = Current(d, x)
  PROVE  /\ n.row[x] = d.row[x]
         /\ n.row[x] # "none" => n.rules[x] = d.rules[x]
         /\ n.field = d.field
BY DEF Current, StateOf

-----------------------------------------------------------------------------
(* The inductive invariant.                                                  *)

IInv ==
    /\ TypeOK
    /\ UndisturbedLoadIsCurrent
    /\ UndisturbedIsFresh
    /\ UndisturbedIsTracked
    /\ UndisturbedWaitIsTracked

Safe == /\ UndisturbedLoadIsCurrent /\ UndisturbedIsFresh
        /\ UndisturbedIsTracked /\ UndisturbedWaitIsTracked

USE DEF UndisturbedLoadIsCurrent, UndisturbedIsFresh, UndisturbedIsTracked,
        UndisturbedWaitIsTracked, Safe

\* Asking, reading, storing, failing and expiring keep an undisturbed entry fresh.
LEMMA ReadStepSafe ==
  ASSUME IInv, NEW x \in Env,
         \/ ClientRequest(x) \/ AcquireLock(x)
         \/ LoadStep(x) \/ LoadFails(x) \/ TimeToLive(x)
  PROVE  Safe'
<1> USE DEF IInv, TypeOK, EvictionDue
<1>1. CASE ClientRequest(x)
  <2>1. /\ knownKeys' = knownKeys \cup {x} /\ UNCHANGED <<store, db, loader, writer>>
        /\ \A e \in Env \ {x} : waiting'[e] = waiting[e]
    BY <1>1 DEF ClientRequest, Track
  <2> QED BY <2>1
<1>2. CASE AcquireLock(x)
  <2>1. /\ UNCHANGED <<store, knownKeys, db, writer>>
        /\ \A e \in Env \ {x} : loader'[e] = loader[e] /\ waiting'[e] = waiting[e]
        /\ waiting[x] # <<>> /\ waiting'[x] = Tail(waiting[x])
        /\ \/ loader'[x] = loader[x]
           \/ loader'[x].pc = "flags" /\ loader'[x].disturbed = Head(waiting[x])
    BY <1>2 DEF AcquireLock, Load
  <2>2. /\ Len(waiting[x]) \in Nat /\ Len(waiting[x]) >= 1
        /\ Head(waiting[x]) = waiting[x][1]
        /\ Len(Tail(waiting[x])) = Len(waiting[x]) - 1
        /\ \A i \in 1 .. Len(Tail(waiting[x])) :
             Tail(waiting[x])[i] = waiting[x][i + 1] /\ i + 1 \in 1 .. Len(waiting[x])
    <3>1. waiting[x] \in Seq(BOOLEAN) /\ waiting[x] # <<>>
      BY <2>1
    <3>2. Head(waiting[x]) = waiting[x][1] /\ Len(waiting[x]) \in Nat /\ Len(waiting[x]) >= 1
      BY <3>1
    <3>3. /\ Len(Tail(waiting[x])) = Len(waiting[x]) - 1
          /\ \A i \in 1 .. Len(waiting[x]) - 1 : Tail(waiting[x])[i] = waiting[x][i + 1]
      BY <3>1
    <3> QED BY <3>2, <3>3
  <2>3. UndisturbedWaitIsTracked'
    <3> SUFFICES ASSUME NEW e \in Env, NEW i \in 1 .. Len(waiting'[e]), ~waiting'[e][i]
                 PROVE  e \in knownKeys'
      OBVIOUS
    <3>1. CASE e = x
      <4>1. waiting'[e][i] = waiting[x][i + 1] /\ i + 1 \in 1 .. Len(waiting[x])
        BY <2>1, <2>2, <3>1
      <4> QED BY <2>1, <3>1, <4>1
    <3>2. CASE e # x
      BY <2>1, <3>2
    <3> QED BY <3>1, <3>2
  <2>4. UndisturbedLoadIsCurrent'
    BY <2>1, <2>2
  <2> QED BY <2>1, <2>3, <2>4
<1>3. CASE ReadFlags(x)
  BY <1>3 DEF ReadFlags, Load
<1>4. CASE ReadStrategies(x)
  BY <1>4 DEF ReadStrategies, Load
<1>5. CASE ReadFields(x)
  BY <1>5 DEF ReadFields, Load
<1>6. CASE StoreResult(x)
  <2>1. ~loader[x].disturbed => Loaded(x) \in UpToNewField(db, x) /\ x \in knownKeys
    BY <1>6 DEF StoreResult, Loaded, Current, StateOf, UpToNewField
  <2> QED BY <1>6, <2>1 DEF StoreResult, Put, NoLoad
<1>7. CASE LoadFails(x)
  BY <1>7 DEF LoadFails, NoLoad
<1>8. CASE TimeToLive(x)
  BY <1>8 DEF TimeToLive, Expire, Put
<1> QED BY <1>1, <1>2, <1>3, <1>4, <1>5, <1>6, <1>7, <1>8 DEF LoadStep

\* What a commit does to the rows, whether or not its request lives to evict.
LEMMA RowsCommitted ==
  ASSUME IInv, ValueOK, NEW w \in Writer, CommitRows(w)
  PROVE  /\ UndisturbedLoadIsCurrent'
         /\ db.project = "deleted" => db'.project = "deleted"
         /\ \A e \in Env : Current(db', e) = Current(db, e)
              => UpToNewField(db', e) = UpToNewField(db, e)
         /\ \A e \in Env : \/ e \in Covered(writer[w].kind, writer[w].env)
                           \/ db'.project = "deleted"
                           \/ UpToNewField(db, e) \subseteq UpToNewField(db', e)
<1> DEFINE kind == writer[w].kind
<1>1. /\ writer[w] \in Write /\ kind \in WriteKind /\ writer[w].env \in Env
      /\ writer[w].value \in ValuesOf(kind)
  BY DEF CommitRows, IInv, TypeOK, ValueOK, NoWrite, Write
<1>2. PICK d \in Written(db, kind, writer[w].env, writer[w].value) :
        /\ db' = d
        /\ loader' = Disturb(loader, {e \in Env : Current(d, e) # Current(db, e)})
  BY DEF CommitRows
<1>3. db \in Database
  BY DEF IInv, TypeOK
<1>4. \A e \in Env : Current(db', e) = Current(db, e)
        => UpToNewField(db', e) = UpToNewField(db, e)
  BY DEF UpToNewField
<1>5. \A e \in Env : \/ e \in Covered(kind, writer[w].env)
                     \/ db'.project = "deleted"
                     \/ UpToNewField(db, e) \subseteq UpToNewField(db', e)
  BY <1>1, <1>2, <1>3, <1>4, ChangedIsCovered
<1>6. db.project = "deleted" => db'.project = "deleted"
  <2>1. CASE kind = "deleteProject"
    BY <1>2, <2>1 DEF Written, ProjectDeleted
  <2>2. CASE kind # "deleteProject"
    BY <1>1, <1>2, <1>3, <2>2, ProjectGone
  <2> QED BY <2>1, <2>2
<1>7. UndisturbedLoadIsCurrent'
  <2> SUFFICES ASSUME NEW e \in Env, loader'[e].pc # "idle", ~loader'[e].disturbed
               PROVE  UndisturbedLoadIsCurrent!(e)'
    OBVIOUS
  <2>1. loader'[e] = loader[e] /\ Current(d, e) = Current(db, e)
    BY <1>2 DEF Disturb, IInv, TypeOK, Load
  <2>2. /\ d.row[e] = db.row[e] /\ d.field = db.field
        /\ d.row[e] # "none" => d.rules[e] = db.rules[e]
    BY <2>1, SameCurrent
  <2>3. knownKeys' = knownKeys
    BY DEF CommitRows
  <2> QED BY <1>2, <2>1, <2>2, <2>3 DEF IInv
<1> QED BY <1>4, <1>5, <1>6, <1>7

\* An eviction another request owes is still owed.
LEMMA StillDue ==
  ASSUME TypeOK, NEW w \in Writer, writer[w].pc # "committed",
         \A v \in Writer : v # w => writer'[v] = writer[v]
  PROVE  \A e \in Env : EvictionDue(e) => EvictionDue(e)'
BY DEF EvictionDue

\* A commit whose request goes on to its eviction.
LEMMA CommitSafe ==
  ASSUME IInv, ValueOK, NEW w \in Writer, Commit(w)
  PROVE  Safe'
<1> DEFINE K == Covered(writer[w].kind, writer[w].env)
<1>1. /\ CommitRows(w) /\ UNCHANGED <<store, knownKeys, waiting>>
      /\ K # {} => writer' = [writer EXCEPT ![w].pc = "committed"]
      /\ K = {} => writer' = [writer EXCEPT ![w] = NoWrite]
      /\ writer[w].pc = "checked" /\ writer[w] \in Write
  <2>1. /\ CommitRows(w) /\ UNCHANGED store
        /\ writer' = IF K = {} THEN [writer EXCEPT ![w] = NoWrite]
                     ELSE [writer EXCEPT ![w].pc = "committed"]
    BY DEF Commit
  <2>2. UNCHANGED <<knownKeys, waiting>> /\ writer[w].pc = "checked"
    BY <2>1 DEF CommitRows
  <2>3. writer[w] \in Write
    BY <2>2 DEF IInv, TypeOK, NoWrite
  <2> QED BY <2>1, <2>2, <2>3
<1>2. \A e \in Env : EvictionDue(e) => EvictionDue(e)'
  <2>1. \A v \in Writer : v # w => writer'[v] = writer[v]
    BY <1>1 DEF IInv, TypeOK
  <2> QED BY <1>1, <2>1, StillDue DEF IInv
<1>3. ASSUME NEW e \in Env, e \in K PROVE EvictionDue(e)'
  <2>1. writer'[w] = [writer[w] EXCEPT !.pc = "committed"]
    BY <1>3, <1>1 DEF IInv, TypeOK
  <2>2. writer'[w].pc = "committed" /\ e \in Covered(writer'[w].kind, writer'[w].env)
    BY <1>3, <2>1, <1>1 DEF Write
  <2> QED BY <2>2 DEF EvictionDue
<1>4. UndisturbedIsFresh'
  <2> SUFFICES ASSUME NEW e \in Env, store[e] # None, ~store[e].disturbed,
                      ~store[e].unreported, ~EvictionDue(e)', db'.project # "deleted"
               PROVE  store[e].state \in UpToNewField(db', e)
    BY <1>1
  <2>1. e \notin K /\ store[e].state \in UpToNewField(db, e)
    BY <1>1, <1>2, <1>3, RowsCommitted DEF IInv
  <2> QED BY <1>1, <2>1, RowsCommitted
<1>5. UndisturbedIsTracked' /\ UndisturbedWaitIsTracked'
  BY <1>1 DEF IInv
<1> QED BY <1>1, <1>4, <1>5, RowsCommitted

\* A commit whose request fails before its eviction marks what it changed.
LEMMA CommitUnreportedSafe ==
  ASSUME IInv, ValueOK, NEW w \in Writer, CommitUnreported(w)
  PROVE  Safe'
<1>1. /\ CommitRows(w) /\ UNCHANGED <<knownKeys, waiting>>
      /\ writer[w].pc = "checked"
      /\ \A v \in Writer : v # w => writer'[v] = writer[v]
  BY DEF CommitUnreported, CommitRows, IInv, TypeOK
<1>2. \A e \in Env : EvictionDue(e) => EvictionDue(e)'
  BY <1>1, StillDue DEF IInv
<1>3. ASSUME NEW e \in Env
      PROVE  /\ store'[e] = None <=> store[e] = None
             /\ store'[e] # None => /\ store'[e].disturbed = store[e].disturbed
                                    /\ \/ store'[e].unreported
                                       \/ store'[e] = store[e] /\ Current(db', e) = Current(db, e)
  <2>1. store'[e] = IF store[e] = None \/ Current(db', e) = Current(db, e) THEN store[e]
                    ELSE [store[e] EXCEPT !.unreported = TRUE]
    BY DEF CommitUnreported
  <2>2. store[e] # None => /\ store[e] \in Entry
                           /\ [store[e] EXCEPT !.unreported = TRUE] \in Entry
    <3>1. store[e] # None => store[e] \in Entry
      BY DEF IInv, TypeOK
    <3>2. ASSUME NEW y \in Entry PROVE [y EXCEPT !.unreported = TRUE] \in Entry
      BY DEF Entry
    <3> QED BY <3>1, <3>2
  <2>3. store[e] \in Entry => [store[e] EXCEPT !.unreported = TRUE].unreported
                              /\ [store[e] EXCEPT !.unreported = TRUE].disturbed = store[e].disturbed
    BY DEF Entry
  <2> QED BY <2>1, <2>2, <2>3
<1>4. UndisturbedIsFresh'
  <2> SUFFICES ASSUME NEW e \in Env, store'[e] # None, ~store'[e].disturbed,
                      ~store'[e].unreported, ~EvictionDue(e)', db'.project # "deleted"
               PROVE  store'[e].state \in UpToNewField(db', e)
    OBVIOUS
  <2>1. store'[e] = store[e] /\ Current(db', e) = Current(db, e)
    BY <1>3
  <2>2. store[e].state \in UpToNewField(db, e)
    BY <1>1, <1>2, <2>1, RowsCommitted DEF IInv
  <2> QED BY <1>1, <2>1, <2>2, RowsCommitted
<1>5. UndisturbedIsTracked' /\ UndisturbedWaitIsTracked'
  BY <1>1, <1>3 DEF IInv
<1> QED BY <1>1, <1>4, <1>5, RowsCommitted

\* An eviction keeps the invariant: it drops the keys it covers that are tracked,
\* and an undisturbed entry's key is.
LEMMA EvictSafe ==
  ASSUME IInv, NEW w \in Writer, Evict(w)
  PROVE  Safe'
<1> DEFINE K == Covered(writer[w].kind, writer[w].env)
           gone == IF writer[w].kind = "toggle" THEN {writer[w].env} ELSE K \cap knownKeys
<1>1. /\ store' = [k \in Key |-> IF k \in gone THEN None ELSE store[k]]
      /\ knownKeys' = knownKeys \ gone
      /\ db' = db
  BY DEF Evict, Delete, DeleteByPrefix, Forget
<1>2. gone \subseteq K /\ K \cap knownKeys \subseteq gone
  BY DEF Covered
<1>3. \A e \in Env : ~(e \in K) => loader'[e] = loader[e] /\ waiting'[e] = waiting[e]
  BY DEF Evict, Disturb, IInv, TypeOK
<1>4. \A e \in Env : e \in K => loader'[e].pc = "idle" \/ loader'[e].disturbed
  BY DEF Evict, Disturb, IInv, TypeOK, Load
<1>5. \A e \in Env : e \in K => \A i \in 1 .. Len(waiting'[e]) : waiting'[e][i]
  <2> SUFFICES ASSUME NEW e \in Env, e \in K
               PROVE  \A i \in 1 .. Len(waiting'[e]) : waiting'[e][i]
    OBVIOUS
  <2>1. waiting'[e] = [i \in 1 .. Len(waiting[e]) |-> TRUE] /\ Len(waiting[e]) \in Nat
    BY DEF Evict, IInv, TypeOK
  <2>2. Len(waiting'[e]) = Len(waiting[e])
    BY <2>1
  <2> QED BY <2>1, <2>2
<1>6. UndisturbedLoadIsCurrent'
  BY <1>1, <1>2, <1>3, <1>4 DEF IInv
<1>7. UndisturbedIsTracked'
  BY <1>1 DEF IInv
<1>8. UndisturbedWaitIsTracked'
  BY <1>1, <1>2, <1>3, <1>5 DEF IInv
<1>9. UndisturbedIsFresh'
  <2> SUFFICES ASSUME NEW e \in Env, store'[e] # None, ~store'[e].disturbed,
                      ~store'[e].unreported, db'.project # "deleted"
               PROVE  store'[e].state \in UpToNewField(db, e) \/ EvictionDue(e)'
    BY <1>1
  <2>1. store'[e] = store[e] /\ e \in knownKeys /\ e \notin gone
    BY <1>1 DEF IInv
  <2>2. e \notin K
    BY <2>1, <1>2
  <2>3. \A v \in Writer : v # w => writer'[v] = writer[v]
    BY DEF Evict, IInv, TypeOK
  <2>4. EvictionDue(e) => EvictionDue(e)'
    BY <2>2, <2>3 DEF EvictionDue
  <2> QED BY <2>1, <2>4, <1>1 DEF IInv
<1> QED BY <1>6, <1>7, <1>8, <1>9

\* UndisturbedIsFresh, and why: what undisturbed loads have read stays current, and
\* eviction by prefix finds it, across failed loads and turns at the lock.  For any
\* number of environments and of requests in flight, whatever they write.
THEOREM Freshness == Spec => [](UndisturbedIsFresh /\ UndisturbedLoads)
<1>1. Init => IInv
  BY DEF Init, IInv, EmptyCache, TypeOK, Database, Life, Load, NoLoad, NoWrite,
         Toggle, Rules, FieldRow
<1>2. IInv /\ TypeOK' /\ ValueOK /\ [Next]_vars => IInv'
  <2> SUFFICES ASSUME IInv, TypeOK', ValueOK, [Next]_vars PROVE Safe'
    BY DEF IInv
  <2>1. ASSUME NEW e \in Env,
               \/ ClientRequest(e) \/ AcquireLock(e)
               \/ LoadStep(e) \/ LoadFails(e) \/ TimeToLive(e)
        PROVE  Safe'
    BY <2>1, ReadStepSafe
  <2>2. ASSUME NEW w \in Writer, WriteRequest(w) \/ WriteFails(w) PROVE Safe'
    <3>1. UNCHANGED <<store, knownKeys, db, waiting, loader>>
      BY <2>2 DEF WriteRequest, WriteFails
    <3>2. writer[w].pc # "committed" /\ \A v \in Writer : v # w => writer'[v] = writer[v]
      BY <2>2 DEF WriteRequest, WriteFails, IInv, TypeOK, NoWrite
    <3>3. \A e \in Env : EvictionDue(e) => EvictionDue(e)'
      BY <3>2 DEF EvictionDue
    <3> QED BY <3>1, <3>3 DEF IInv
  <2>3. ASSUME NEW w \in Writer, Commit(w) PROVE Safe'
    BY <2>3, CommitSafe
  <2>4. ASSUME NEW w \in Writer, CommitUnreported(w) PROVE Safe'
    BY <2>4, CommitUnreportedSafe
  <2>5. ASSUME NEW w \in Writer, Evict(w) PROVE Safe'
    BY <2>5, EvictSafe
  <2>6. CASE Restart
    BY <2>6 DEF Restart, ClearedCache, NoLoad
  <2>7. CASE UNCHANGED vars
    BY <2>7 DEF vars, IInv, EvictionDue
  <2> QED BY <2>1, <2>2, <2>3, <2>4, <2>5, <2>6, <2>7 DEF Next
<1>3. IInv => UndisturbedIsFresh /\ UndisturbedLoads
  BY DEF IInv, UndisturbedLoads
<1> QED BY <1>1, <1>2, <1>3, TypeCorrect, PTL DEF Spec

-----------------------------------------------------------------------------
(* The refinement of CacheContract, for any environments, requests and writes. *)

\* What e's load will have read when it ends, if nothing is written until then.
Reading(e) ==
    [row   |-> IF loader[e].pc = "flags" THEN db.row[e] ELSE loader[e].row,
     rules |-> IF loader[e].pc \in {"flags", "strategies"} THEN db.rules[e] ELSE loader[e].rules,
     field |-> IF loader[e].pc = "return" THEN loader[e].field ELSE db.field]

\* A load runs where something is witnessed, and will read something witnessed.
WindowInv ==
    /\ window \in [Env -> SUBSET Parts]
    /\ \A e \in Env : loader[e].pc = "idle" => window[e] = {}
    /\ \A e \in Env : loader[e].pc # "idle" => Reading(e) \in window[e]

\* The rows of an environment are parts.
LEMMA PartsType == \A d \in Database, e \in Env : PartsOf(d, e) \in Parts
  BY DEF Database, PartsOf, Parts

\* A change of the rows leaves parts that the reads may have found.
LEMMA AfterType ==
    ASSUME NEW W \in SUBSET Parts, NEW now \in Parts
    PROVE  Contract!After(W, now) \in SUBSET Parts
  BY DEF Contract!After, Parts

\* What the window of each load becomes in any step.
LEMMA WindowStep ==
    ASSUME TypeOK, TypeOK', WindowInv, Observe
    PROVE  /\ window' \in [Env -> SUBSET Parts]
           /\ \A e \in Env : loader'[e].pc = "idle" => window'[e] = {}
           /\ \A e \in Env : (loader'[e].pc # "idle" /\ loader[e].pc = "idle")
                => window'[e] = {PartsOf(db', e)}
           /\ \A e \in Env : (loader'[e].pc # "idle" /\ loader[e].pc # "idle")
                => window'[e] = IF PartsOf(db', e) = PartsOf(db, e) THEN window[e]
                                ELSE Contract!After(window[e], PartsOf(db', e))
<1>1. ASSUME NEW e \in Env
      PROVE  (IF loader'[e].pc = "idle" THEN {}
              ELSE IF loader[e].pc = "idle" THEN {PartsOf(db', e)}
              ELSE IF PartsOf(db', e) = PartsOf(db, e) THEN window[e]
              ELSE Contract!After(window[e], PartsOf(db', e))) \in SUBSET Parts
  <2>1. PartsOf(db', e) \in Parts
    BY PartsType DEF TypeOK
  <2>2. window[e] \in SUBSET Parts
    BY DEF WindowInv
  <2>3. Contract!After(window[e], PartsOf(db', e)) \in SUBSET Parts
    BY <2>1, <2>2, AfterType
  <2> QED
    BY <2>1, <2>2, <2>3
<1> QED
  BY <1>1 DEF Observe

\* Entries go, loads are given up, and the database stays.
LEMMA LoseStep ==
    ASSUME NEW gone \in SUBSET Env, NEW abandoned \in SUBSET Env, UNCHANGED db,
           store' = [e \in Env |-> IF e \in gone THEN None ELSE store[e]],
           window' = [e \in Env |-> IF e \in abandoned THEN {} ELSE window[e]]
    PROVE  Contract!Lose
<1> DEFINE held == [e \in Env |-> IF store[e] = None THEN None ELSE store[e].state]
           next == [e \in Env |-> IF store'[e] = None THEN None ELSE store'[e].state]
<1>1. next = [k \in Env |-> IF k \in gone THEN None ELSE held[k]]
  <2>1. ASSUME NEW e \in Env PROVE next[e] = IF e \in gone THEN None ELSE held[e]
    OBVIOUS
  <2> HIDE DEF held
  <2> QED
    BY <2>1
<1>2. [e \in Env |-> PartsOf(db', e)] = [e \in Env |-> PartsOf(db, e)]
  OBVIOUS
<1> HIDE DEF held, next
<1>3. \E g, a \in SUBSET Env : /\ next = [k \in Env |-> IF k \in g THEN None ELSE held[k]]
                              /\ window' = [k \in Env |-> IF k \in a THEN {} ELSE window[k]]
  BY <1>1
<1> QED
  BY <1>2, <1>3 DEF Contract!Lose, held, next

\* While the rows stay, a load that goes on running has nothing new to find.
LEMMA QuietStep ==
    ASSUME TypeOK, TypeOK', WindowInv, Observe, UNCHANGED db, NEW D \in SUBSET Env,
           \A e \in Env \ D : loader'[e].pc = "idle" <=> loader[e].pc = "idle"
    PROVE  \A e \in Env \ D : window'[e] = window[e]
<1> SUFFICES ASSUME NEW e \in Env \ D PROVE window'[e] = window[e]
  OBVIOUS
<1>1. CASE loader[e].pc = "idle"
  BY <1>1, WindowStep DEF WindowInv
<1>2. CASE loader[e].pc # "idle"
  BY <1>2, WindowStep
<1> QED
  BY <1>1, <1>2

\* No load finds anything new in a step that only moves within a load.
LEMMA StutterStep ==
    ASSUME TypeOK, TypeOK', WindowInv, Observe, UNCHANGED <<store, db>>,
           \A e \in Env : loader'[e].pc = "idle" <=> loader[e].pc = "idle"
    PROVE  window' = window /\ UNCHANGED Contract!vars
<1>1. \A e \in Env : window'[e] = window[e]
  <2>1. {} \in SUBSET Env
    OBVIOUS
  <2> QED
    BY <2>1, QuietStep, Zenon
<1>2. window' = window
  BY <1>1, WindowStep DEF WindowInv
<1> QED
  BY <1>2 DEF Contract!vars

\* One of the three SELECTs: it fixes a part of what the load will have read.
LEMMA SelectRefines ==
    ASSUME TypeOK, TypeOK', WindowInv, Observe, NEW x \in Env,
           ReadFlags(x) \/ ReadStrategies(x) \/ ReadFields(x)
    PROVE  WindowInv' /\ UNCHANGED Contract!vars
<1>1. /\ loader[x].pc # "idle" /\ loader'[x].pc # "idle" /\ UNCHANGED <<store, db>>
      /\ \A e \in Env \ {x} : loader'[e] = loader[e]
  BY DEF ReadFlags, ReadStrategies, ReadFields, TypeOK, Load
<1>2. window' = window /\ UNCHANGED Contract!vars
  BY <1>1, StutterStep
<1>3. Reading(x)' = Reading(x)
  <2>1. loader[x] \in Load
    BY DEF TypeOK
  <2>2. CASE ReadFlags(x)
    <3>1. loader[x].pc = "flags" /\ loader'[x] = [loader[x] EXCEPT !.pc = "strategies", !.row = db.row[x]]
      BY <2>2 DEF ReadFlags, TypeOK
    <3> QED BY <1>1, <2>1, <3>1 DEF Reading, Load
  <2>3. CASE ReadStrategies(x)
    <3>1. loader[x].pc = "strategies" /\ loader'[x] = [loader[x] EXCEPT !.pc = "fields", !.rules = db.rules[x]]
      BY <2>3 DEF ReadStrategies, TypeOK
    <3> QED BY <1>1, <2>1, <3>1 DEF Reading, Load
  <2>4. CASE ReadFields(x)
    <3>1. loader[x].pc = "fields" /\ loader'[x] = [loader[x] EXCEPT !.pc = "return", !.field = db.field]
      BY <2>4 DEF ReadFields, TypeOK
    <3> QED BY <1>1, <2>1, <3>1 DEF Reading, Load
  <2> QED BY <2>2, <2>3, <2>4
<1>4. \A e \in Env \ {x} : Reading(e)' = Reading(e)
  BY <1>1 DEF Reading
<1> QED
  BY <1>1, <1>2, <1>3, <1>4 DEF WindowInv

\* Loads that stay as they are while the rows do.
LEMMA SameReading ==
    ASSUME UNCHANGED db, NEW e \in Env, loader'[e] = loader[e], window'[e] = window[e],
           loader[e].pc # "idle" => Reading(e) \in window[e]
    PROVE  loader'[e].pc # "idle" => Reading(e)' \in window'[e]
BY DEF Reading

\* The end of a load, well or not.
LEMMA LoadEndRefines ==
    ASSUME TypeOK, TypeOK', WindowInv, Observe, NEW x \in Env, StoreResult(x) \/ LoadFails(x)
    PROVE  WindowInv' /\ [Contract!Next]_(Contract!vars)
<1>1. /\ window' \in [Env -> SUBSET Parts] /\ window \in [Env -> SUBSET Parts]
      /\ UNCHANGED db /\ loader' = [loader EXCEPT ![x] = NoLoad]
  BY WindowStep DEF WindowInv, StoreResult, LoadFails
<1>2. loader'[x].pc = "idle" /\ \A e \in Env \ {x} : loader'[e] = loader[e]
  BY <1>1 DEF TypeOK, NoLoad
<1>3. window'[x] = {} /\ \A e \in Env \ {x} : window'[e] = window[e]
  BY <1>1, <1>2, WindowStep, QuietStep
<1>4. window' = [window EXCEPT ![x] = {}]
  BY <1>1, <1>3
<1>5. WindowInv'
  BY <1>1, <1>2, <1>3, SameReading DEF WindowInv
<1>6. CASE StoreResult(x)
  <2>1. /\ loader[x].pc = "return" /\ loader[x] \in Load
        /\ store' = [store EXCEPT ![x] = [state |-> Loaded(x), disturbed |-> loader[x].disturbed,
                                          unreported |-> FALSE]]
    BY <1>6 DEF StoreResult, Put, TypeOK
  <2>2. Reading(x) \in window[x] /\ Reading(x) \in Parts
    BY <1>1, <2>1 DEF WindowInv
  <2>3. Loaded(x) = [p \in Parts |-> StateOf(p.row, p.rules, p.field)][Reading(x)]
    BY <2>1, <2>2 DEF Loaded, Reading
  <2>4. [e \in Env |-> IF store'[e] = None THEN None ELSE store'[e].state]
          = [[e \in Env |-> IF store[e] = None THEN None ELSE store[e].state] EXCEPT ![x] = Loaded(x)]
    <3>1. Loaded(x) \in EnvState
      BY <2>1 DEF Loaded, StateOf, EnvState, Load, Rules
    <3>2. [state |-> Loaded(x), disturbed |-> loader[x].disturbed, unreported |-> FALSE] \in Entry
      BY <2>1, <3>1 DEF Entry, Load
    <3>3. store'[x] # None /\ store'[x].state = Loaded(x)
      BY <2>1, <3>2 DEF TypeOK
    <3>4. \A e \in Env \ {x} : store'[e] = store[e]
      BY <2>1 DEF TypeOK
    <3> QED
      BY <3>3, <3>4
  <2>5. [e \in Env |-> PartsOf(db', e)] = [e \in Env |-> PartsOf(db, e)]
    BY <1>1
  <2>6. Contract!EndLoad(x)
    BY <1>4, <2>2, <2>3, <2>4, <2>5 DEF Contract!EndLoad
  <2> QED
    BY <1>5, <2>6 DEF Contract!Next
<1>7. CASE LoadFails(x)
  <2>1. window' = [k \in Env |-> IF k \in {x} THEN {} ELSE window[k]]
    BY <1>1, <1>3
  <2>2. store' = [k \in Env |-> IF k \in {} THEN None ELSE store[k]]
    BY <1>7 DEF LoadFails, TypeOK
  <2>3. {} \in SUBSET Env /\ {x} \in SUBSET Env
    OBVIOUS
  <2>4. Contract!Lose
    BY <1>1, <2>1, <2>2, <2>3, LoseStep
  <2> QED
    BY <1>5, <2>4 DEF Contract!Next
<1> QED
  BY <1>6, <1>7

\* A turn at the lock begins a load, or finds the value there.
LEMMA AcquireRefines ==
    ASSUME TypeOK, TypeOK', WindowInv, Observe, NEW x \in Env, AcquireLock(x)
    PROVE  WindowInv' /\ [Contract!Next]_(Contract!vars)
<1>1. /\ window' \in [Env -> SUBSET Parts] /\ window \in [Env -> SUBSET Parts]
      /\ UNCHANGED <<store, db>> /\ loader[x].pc = "idle"
  BY WindowStep DEF WindowInv, AcquireLock
<1>2. CASE store[x] # None
  <2>1. UNCHANGED loader
    BY <1>2 DEF AcquireLock
  <2>2. window' = window /\ UNCHANGED Contract!vars
    BY <1>1, <2>1, StutterStep
  <2> QED
    BY <1>1, <2>1, <2>2, SameReading DEF WindowInv
<1>3. CASE store[x] = None
  <2>1. /\ loader'[x].pc = "flags" /\ \A e \in Env \ {x} : loader'[e] = loader[e]
    BY <1>3 DEF AcquireLock, TypeOK, Load
  <2>2. window[x] = {}
    BY <1>1 DEF WindowInv
  <2>3. window'[x] = {PartsOf(db, x)}
    BY <1>1, <2>1, WindowStep
  <2>4. \A e \in Env \ {x} : window'[e] = window[e]
    <3>1. {x} \in SUBSET Env
      OBVIOUS
    <3> QED
      BY <1>1, <2>1, <3>1, QuietStep
  <2>5. window' = [window EXCEPT ![x] = {PartsOf(db, x)}]
    BY <1>1, <2>3, <2>4
  <2>6. Contract!BeginLoad(x)
    BY <1>1, <2>2, <2>5 DEF Contract!BeginLoad
  <2>7. Reading(x)' = PartsOf(db, x)
    BY <1>1, <2>1 DEF Reading, PartsOf
  <2>8. WindowInv'
    BY <1>1, <2>1, <2>3, <2>4, <2>7, SameReading DEF WindowInv
  <2> QED
    BY <2>6, <2>8 DEF Contract!Next
<1> QED
  BY <1>2, <1>3

\* The steps of clients and of loads.
LEMMA ReadStepRefines ==
    ASSUME TypeOK, TypeOK', WindowInv, Observe, NEW x \in Env,
           \/ ClientRequest(x) \/ AcquireLock(x)
           \/ LoadStep(x) \/ LoadFails(x) \/ TimeToLive(x)
    PROVE  WindowInv' /\ [Contract!Next]_(Contract!vars)
<1>1. CASE ClientRequest(x)
  <2>1. UNCHANGED <<store, db, loader>>
    BY <1>1 DEF ClientRequest
  <2>2. window' = window /\ UNCHANGED Contract!vars
    BY <2>1, StutterStep
  <2> QED
    BY <2>1, <2>2, SameReading DEF WindowInv
<1>2. CASE AcquireLock(x)
  BY <1>2, AcquireRefines
<1>3. CASE ReadFlags(x) \/ ReadStrategies(x) \/ ReadFields(x)
  BY <1>3, SelectRefines
<1>4. CASE StoreResult(x) \/ LoadFails(x)
  BY <1>4, LoadEndRefines
<1>5. CASE TimeToLive(x)
  <2>1. UNCHANGED <<loader, db>> /\ store' = [store EXCEPT ![x] = None]
    BY <1>5 DEF TimeToLive, Expire, Put
  <2>2. \A e \in Env : window'[e] = window[e]
    <3>1. {} \in SUBSET Env
      OBVIOUS
    <3> QED
      BY <2>1, <3>1, QuietStep
  <2>3. window' = window /\ window \in [Env -> SUBSET Parts]
    BY <2>2, WindowStep DEF WindowInv
  <2>4. Contract!Lose
    <3>1. window' = [k \in Env |-> IF k \in {} THEN {} ELSE window[k]]
      BY <2>3
    <3>2. store' = [k \in Env |-> IF k \in {x} THEN None ELSE store[k]]
      BY <2>1 DEF TypeOK
    <3>3. {} \in SUBSET Env /\ {x} \in SUBSET Env
      OBVIOUS
    <3> QED
      BY <2>1, <3>1, <3>2, <3>3, LoseStep
  <2> QED
    BY <2>1, <2>3, <2>4, SameReading DEF WindowInv, Contract!Next
<1> QED
  BY <1>1, <1>2, <1>3, <1>4, <1>5 DEF LoadStep

\* A commit changes the truth, and every load under way may find either side in each
\* of the parts it has still to read.
LEMMA CommitRefines ==
    ASSUME TypeOK, TypeOK', WindowInv, Observe, NEW w \in Writer,
           Commit(w) \/ CommitUnreported(w)
    PROVE  WindowInv' /\ [Contract!Next]_(Contract!vars)
<1>1. CommitRows(w)
  BY DEF Commit, CommitUnreported
<1>2. PICK d : loader' = Disturb(loader, {e \in Env : Current(d, e) # Current(db, e)})
  BY <1>1 DEF CommitRows
<1>3. \A e \in Env : /\ loader'[e].pc = loader[e].pc /\ loader'[e].row = loader[e].row
                     /\ loader'[e].rules = loader[e].rules /\ loader'[e].field = loader[e].field
  BY <1>2 DEF Disturb, TypeOK, Load
<1>4. /\ window' \in [Env -> SUBSET Parts] /\ window \in [Env -> SUBSET Parts]
      /\ \A e \in Env : loader[e].pc = "idle" => window'[e] = {} /\ window[e] = {}
      /\ \A e \in Env : loader[e].pc # "idle"
           => window'[e] = IF PartsOf(db', e) = PartsOf(db, e) THEN window[e]
                           ELSE Contract!After(window[e], PartsOf(db', e))
  BY <1>3, WindowStep DEF WindowInv
<1>5. ASSUME NEW e \in Env, loader[e].pc # "idle" PROVE Reading(e)' \in window'[e]
  <2>1. Reading(e) \in window[e] /\ Reading(e) \in Parts
    BY <1>4, <1>5 DEF WindowInv
  <2>2. CASE PartsOf(db', e) = PartsOf(db, e)
    <3>1. db'.row[e] = db.row[e] /\ db'.rules[e] = db.rules[e] /\ db'.field = db.field
      BY <2>2 DEF PartsOf
    <3>2. Reading(e)' = Reading(e)
      BY <1>3, <3>1 DEF Reading
    <3> QED BY <1>4, <1>5, <2>1, <2>2, <3>2
  <2>3. CASE PartsOf(db', e) # PartsOf(db, e)
    <3> DEFINE now == PartsOf(db', e)
               p == Reading(e)
    <3>1. window'[e] = Contract!After(window[e], now)
      BY <1>4, <1>5, <2>3
    <3>2. CASE loader[e].pc = "flags"
      <4>1. Reading(e)' = now
        BY <1>3, <3>2 DEF Reading, PartsOf
      <4> QED BY <3>1, <4>1 DEF Contract!After
    <3>3. CASE loader[e].pc = "strategies"
      <4>1. Reading(e)' = [now EXCEPT !.row = p.row]
        BY <1>3, <3>3 DEF Reading, PartsOf
      <4> QED BY <2>1, <3>1, <4>1 DEF Contract!After
    <3>4. CASE loader[e].pc = "fields"
      <4>1. Reading(e)' = [p EXCEPT !.field = now.field]
        BY <1>3, <3>4 DEF Reading, PartsOf
      <4> QED BY <2>1, <3>1, <4>1 DEF Contract!After
    <3>5. CASE loader[e].pc = "return"
      <4>1. Reading(e)' = p
        BY <1>3, <3>5 DEF Reading
      <4> QED BY <2>1, <3>1, <4>1 DEF Contract!After
    <3> QED BY <1>5, <3>2, <3>3, <3>4, <3>5 DEF TypeOK, Load
  <2> QED BY <2>2, <2>3
<1>6. WindowInv'
  BY <1>3, <1>4, <1>5 DEF WindowInv
<1>7. Contract!Change
  <2> DEFINE truth == [e \in Env |-> PartsOf(db, e)]
             now == [e \in Env |-> PartsOf(db', e)]
  <2>1. now \in [Env -> Parts]
    BY PartsType DEF TypeOK
  <2>2. window' = [k \in Env |-> IF window[k] = {} \/ now[k] = truth[k] THEN window[k]
                                 ELSE Contract!After(window[k], now[k])]
    <3>1. ASSUME NEW k \in Env
          PROVE  window'[k] = IF window[k] = {} \/ now[k] = truth[k] THEN window[k]
                              ELSE Contract!After(window[k], now[k])
      <4>1. CASE loader[k].pc = "idle"
        BY <1>4, <4>1
      <4>2. CASE loader[k].pc # "idle"
        <5>1. window[k] # {}
          BY <4>2 DEF WindowInv
        <5> QED BY <1>4, <4>2, <5>1
      <4> QED
        BY <4>1, <4>2
    <3> QED
      BY <1>4, <3>1
  <2>3. [e \in Env |-> IF store'[e] = None THEN None ELSE store'[e].state]
          = [e \in Env |-> IF store[e] = None THEN None ELSE store[e].state]
    <3>1. ASSUME NEW e \in Env
          PROVE  /\ store'[e] = None <=> store[e] = None
                 /\ store[e] # None => store'[e].state = store[e].state
      <4>1. CASE Commit(w)
        BY <4>1 DEF Commit
      <4>2. CASE CommitUnreported(w)
        <5>1. store'[e] = IF store[e] = None \/ Current(db', e) = Current(db, e) THEN store[e]
                          ELSE [store[e] EXCEPT !.unreported = TRUE]
          BY <4>2 DEF CommitUnreported
        <5>2. store[e] # None => store[e] \in Entry
          BY DEF TypeOK
        <5>3. ASSUME NEW y \in Entry
              PROVE  /\ [y EXCEPT !.unreported = TRUE] \in Entry
                     /\ [y EXCEPT !.unreported = TRUE].state = y.state
          BY DEF Entry
        <5> QED BY <5>1, <5>2, <5>3
      <4> QED
        BY <4>1, <4>2
    <3> QED
      BY <3>1
  <2> QED
    BY <2>1, <2>2, <2>3 DEF Contract!Change, Contract!Parts, Parts
<1> QED
  BY <1>6, <1>7 DEF Contract!Next

\* The other steps of admin requests, and a restart.
LEMMA OtherStepRefines ==
    ASSUME TypeOK, TypeOK', WindowInv, Observe,
           Restart \/ \E w \in Writer : WriteRequest(w) \/ WriteFails(w) \/ Evict(w)
    PROVE  WindowInv' /\ [Contract!Next]_(Contract!vars)
<1>1. window' \in [Env -> SUBSET Parts] /\ window \in [Env -> SUBSET Parts]
  BY WindowStep DEF WindowInv
<1>2. ASSUME NEW w \in Writer, WriteRequest(w) \/ WriteFails(w)
      PROVE  WindowInv' /\ [Contract!Next]_(Contract!vars)
  <2>1. UNCHANGED <<store, db, loader>>
    BY <1>2 DEF WriteRequest, WriteFails
  <2>2. window' = window /\ UNCHANGED Contract!vars
    BY <2>1, StutterStep
  <2> QED
    BY <2>1, <2>2, SameReading DEF WindowInv
<1>3. ASSUME NEW w \in Writer, Evict(w) PROVE WindowInv' /\ [Contract!Next]_(Contract!vars)
  <2>1. /\ UNCHANGED db
        /\ loader' = Disturb(loader, Covered(writer[w].kind, writer[w].env))
    BY <1>3 DEF Evict
  <2>2. \A e \in Env : /\ loader'[e].pc = loader[e].pc /\ loader'[e].row = loader[e].row
                       /\ loader'[e].rules = loader[e].rules /\ loader'[e].field = loader[e].field
    BY <2>1 DEF Disturb, TypeOK, Load
  <2>3. window' = window
    <3>1. {} \in SUBSET Env
      OBVIOUS
    <3>2. \A e \in Env : window'[e] = window[e]
      BY <2>1, <2>2, <3>1, QuietStep
    <3> QED
      BY <1>1, <3>2
  <2>4. \A e \in Env : Reading(e)' = Reading(e)
    BY <2>1, <2>2 DEF Reading
  <2>5. PICK gone \in SUBSET Env : store' = [k \in Key |-> IF k \in gone THEN None ELSE store[k]]
    <3>1. writer[w].env \in Env
      BY <1>3 DEF Evict, TypeOK, NoWrite, Write
    <3>2. CASE writer[w].kind = "toggle"
      <4>1. store' = [k \in Key |-> IF k \in {writer[w].env} THEN None ELSE store[k]]
        BY <1>3, <3>2 DEF Evict, Delete, Forget
      <4>2. {writer[w].env} \in SUBSET Env
        BY <3>1
      <4> QED
        BY <4>1, <4>2
    <3>3. CASE writer[w].kind # "toggle"
      <4> DEFINE covered == Covered(writer[w].kind, writer[w].env)
      <4>1. covered \in SUBSET Env
        BY <3>1 DEF Covered
      <4> HIDE DEF covered
      <4>2. DeleteByPrefix(covered)
        BY <1>3, <3>3 DEF Evict, covered
      <4>3. covered \cap knownKeys \in SUBSET Env
        BY <4>1
      <4> QED
        BY <4>2, <4>3 DEF DeleteByPrefix, Forget
    <3> QED
      BY <3>2, <3>3
  <2>6. Contract!Lose
    <3>1. window' = [k \in Env |-> IF k \in {} THEN {} ELSE window[k]]
      BY <1>1, <2>3
    <3>2. {} \in SUBSET Env
      OBVIOUS
    <3> QED
      BY <2>1, <2>5, <3>1, <3>2, LoseStep
  <2> QED
    BY <2>2, <2>3, <2>4, <2>6 DEF WindowInv, Contract!Next
<1>4. CASE Restart
  <2>1. /\ UNCHANGED db /\ store' = [k \in Key |-> None]
        /\ \A e \in Env : loader'[e].pc = "idle"
    BY <1>4 DEF Restart, ClearedCache, NoLoad
  <2>2. \A e \in Env : window'[e] = {}
    BY <2>1, WindowStep
  <2>3. Contract!Lose
    <3>1. window' = [k \in Env |-> IF k \in Env THEN {} ELSE window[k]]
      BY <1>1, <2>2
    <3>2. store' = [k \in Env |-> IF k \in Env THEN None ELSE store[k]]
      BY <2>1
    <3>3. Env \in SUBSET Env
      OBVIOUS
    <3> QED
      BY <2>1, <3>1, <3>2, <3>3, LoseStep
  <2> QED
    BY <1>1, <2>1, <2>2, <2>3 DEF WindowInv, Contract!Next
<1> QED
  BY <1>2, <1>3, <1>4

\* Whatever admins write while loads run, and however loads fail, entries go and the
\* process restarts: what the cache holds was read, part by part in loadEnvState's
\* order, from rows that were there at three instants of one load
\* (client.service.ts, src/cache/index.ts).
THEOREM ServingRefines == SpecH => ImplementsContract
<1>1. InitH => Init /\ WindowInv /\ Contract!Init
  <2> SUFFICES ASSUME InitH PROVE WindowInv /\ Contract!Init
    BY DEF InitH
  <2>1. /\ db \in Database /\ store = [k \in Key |-> None] /\ window = [e \in Env |-> {}]
        /\ \A e \in Env : loader[e].pc = "idle"
    BY DEF InitH, Init, EmptyCache, NoLoad, Database, Life, Toggle, Rules
  <2>2. [e \in Env |-> PartsOf(db, e)] \in [Env -> Parts]
    BY <2>1, PartsType
  <2> QED
    BY <2>1, <2>2 DEF WindowInv, Contract!Init, Contract!Parts, Parts
<1>2. [NextH]_varsH => [Next]_vars
  BY DEF NextH, varsH, vars
<1>3. ASSUME TypeOK, TypeOK', WindowInv, [NextH]_varsH
      PROVE  WindowInv' /\ [Contract!Next]_(Contract!vars)
  <2>1. CASE NextH
    <3>1. Observe /\ Next
      BY <2>1 DEF NextH
    <3>2. ASSUME NEW e \in Env,
                 \/ ClientRequest(e) \/ AcquireLock(e)
                 \/ LoadStep(e) \/ LoadFails(e) \/ TimeToLive(e)
          PROVE  WindowInv' /\ [Contract!Next]_(Contract!vars)
      BY <1>3, <3>1, <3>2, ReadStepRefines
    <3>3. ASSUME NEW w \in Writer, Commit(w) \/ CommitUnreported(w)
          PROVE  WindowInv' /\ [Contract!Next]_(Contract!vars)
      BY <1>3, <3>1, <3>3, CommitRefines
    <3>4. ASSUME Restart \/ \E w \in Writer : WriteRequest(w) \/ WriteFails(w) \/ Evict(w)
          PROVE  WindowInv' /\ [Contract!Next]_(Contract!vars)
      BY <1>3, <3>1, <3>4, OtherStepRefines
    <3> QED
      BY <3>1, <3>2, <3>3, <3>4 DEF Next
  <2>2. CASE UNCHANGED varsH
    BY <1>3, <2>2 DEF varsH, WindowInv, Reading, Contract!vars
  <2> QED
    BY <1>3, <2>1, <2>2
<1>4. Spec => [](TypeOK /\ ValueOK)
  BY TypeCorrect
<1>5. SpecH => Spec
  BY <1>1, <1>2, PTL DEF SpecH, Spec
<1> QED
  BY <1>1, <1>3, <1>4, <1>5, PTL DEF SpecH, ImplementsContract, Contract!Spec

=============================================================================
