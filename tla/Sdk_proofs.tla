----------------------------- MODULE Sdk_proofs -----------------------------
(***************************************************************************)
(* The two SDKs for any number of overlapping calls and any times: types,   *)
(* the ETag kept with each list, how old an answer may be, and when a call  *)
(* may give up.                                                             *)
(***************************************************************************)
EXTENDS SdkThreads, SequenceTheorems, TLAPS

\* Where a call has not asked for anything yet, or is over.
Outside == {"waiting", "done"}

\* Where a Python thread has not sent its request yet.
Early == {"missing", "single", "bulk", "absent", "list", "gate", "previous"}

\* Held, with the flag's history and the clock spelled out.
Was(h, n, state, t) ==
    \E i \in DOMAIN h : h[i].state = state /\ (IF i = Len(h) THEN n ELSE h[i + 1].since) >= t

\* A list that goes along with its tag, and an answer, are about states the flag had.
Told(h, n, call) ==
    LET a == call.answer
        recent(state) == Was(h, n, state, call.since - ServerLag) IN
    /\ call.previous # None => call.previous.tag \in {None, call.previous.body}
    /\ call.phase = "answered" =>
         \/ /\ call.op = "isEnabled" /\ a.status = "ok"
            /\ a.body \in {"on", "off"} /\ recent(a.body)
         \/ call.op = "isEnabled" /\ a.status = "notFound" /\ recent("absent")
         \/ /\ call.op = "getAllFeatures" /\ a.status = "ok"
            /\ a.body \in FlagState /\ a.tag = a.body /\ recent(a.body)
         \/ /\ call.op = "getAllFeatures" /\ a.status = "unchanged"
            /\ call.previous # None /\ call.previous.tag = call.previous.body
            /\ a.tag \in {None, call.previous.body} /\ recent(call.previous.body)

\* When the flag was in a state that a call which ends at n has received, if no request
\* has taken longer than d.
Sent(n, d) == n - ServerLag - d

\* A call keeps to the moment it runs in.
Timely(h, n, d, call) ==
    /\ call.phase \notin Outside =>
         call.op \in {"isEnabled", "getAllFeatures"} /\ call.ctx \in Contexts /\ call.since <= n
    /\ call.phase \in Early => n = call.since
    /\ call.phase \in {"missing", "single", "bulk", "absent", "staleSingle"} => call.op = "isEnabled"
    /\ call.phase \in {"list", "previous"} => call.op = "getAllFeatures"
    /\ call.phase = "absent" => Was(h, n, "absent", Sent(n, d) - AgeWithin(Ttl))

\* Where a call has found nothing fresh in one of the caches.
AskedSingle == {"bulk", "gate", "sent", "suppressed", "answered", "limited", "staleSingle"}
AskedBulk == {"gate", "sent", "suppressed", "answered", "limited", "previous", "staleSingle", "staleBulk"}

\* An entry was not fresh when the call began, or was stored since.
NotMissed(e, call) == e.at >= call.since \/ call.since - e.at >= Ttl

\* What a call with these two caches may meet when it looks for an expired entry.
Asked(s, b, n, call) ==
    /\ call.phase \in AskedSingle /\ call.op = "isEnabled" =>
         \A i \in DOMAIN s : s[i].key = call.ctx => NotMissed(s[i], call)
    /\ call.phase \in AskedBulk =>
         \A i \in DOMAIN b : b[i].key = call.ctx => NotMissed(b[i], call)
    /\ call.phase = "staleBulk" /\ call.op = "isEnabled" /\ Ttl # 0 =>
         \A i \in DOMAIN s : s[i].key = call.ctx =>
           s[i].at >= call.since \/ n - s[i].at >= Ttl + StaleTtl

\* What a cache holds was so when it was stored, give or take one request.
KnownSingle(h, n, d, e) == e.at <= n /\ Was(h, n, e.value, Sent(e.at, d))
KnownBulk(h, n, d, e) ==
    /\ e.at <= n /\ Was(h, n, e.value.body, Sent(e.at, d))
    /\ e.value.tag \in {None, e.value.body}
KnownMissing(h, n, d, e) == e.at <= n /\ Was(h, n, "absent", Sent(e.at, d) - AgeWithin(Ttl))

Known ==
    /\ \A i \in DOMAIN single : KnownSingle(history, now, slowest, single[i])
    /\ \A i \in DOMAIN bulk : KnownBulk(history, now, slowest, bulk[i])
    /\ \A i \in DOMAIN missing : KnownMissing(history, now, slowest, missing[i])

\* AnswersAreRecent, with the history, the clock and the answer spelled out.
Fits(h, n, d, r) ==
    /\ r.kind = "value" => Was(h, n, r.body, Sent(n, d) - AgeWithin(Ttl))
    /\ r.kind = "stale" => Was(h, n, r.body, Sent(n, d) - AgeWithin(Ttl + StaleTtl))
    /\ r.kind = "missing" => Was(h, n, "absent", Sent(n, d) - AgeWithin(Ttl) - AgeWithin(MissingTtl))

\* The inductive invariant.
Inv ==
    /\ TypeOK
    /\ runtime = "javascript" => \A c \in Calls : calls[c].phase \in Phase
    /\ Known
    /\ \A c \in Calls :
         /\ Told(history, now, calls[c])
         /\ Timely(history, now, slowest, calls[c])
         /\ Asked(single, bulk, now, calls[c])
    /\ Fits(history, now, slowest, returned)

-----------------------------------------------------------------------------
\* What the operations of a cache do to its entries.

\* The constants as the arithmetic needs them.
LEMMA Numbers ==
    /\ Ttl \in Nat /\ StaleTtl \in Nat /\ ServerLag \in Nat /\ Horizon \in Nat
    /\ DefaultBackoff \in Nat /\ MaxBackoff \in Nat /\ DefaultBackoff <= MaxBackoff
    /\ MissingTtl \in Nat /\ MissingTtl > 0 /\ Timeout \in Nat
    /\ MaxEntries \in Nat /\ MaxEntries > 0
  BY SdkAssumption

\* Every entry of r is one of s.
Within(r, s) == \A j \in DOMAIN r : \E i \in DOMAIN s : r[j] = s[i]

\* No key occurs twice.
KeysOnce(s) == \A i, j \in DOMAIN s : s[i].key = s[j].key => i = j

\* Taking one entry out keeps the others and their order.
LEMMA Removed ==
    ASSUME NEW E, NEW s \in Seq(E), NEW i \in DOMAIN s
    PROVE  /\ RemoveAt(s, i) \in Seq(E)
           /\ Len(RemoveAt(s, i)) = Len(s) - 1
           /\ \A j \in DOMAIN RemoveAt(s, i) :
                RemoveAt(s, i)[j] = s[IF j < i THEN j ELSE j + 1]
<1>. DEFINE left == SubSeq(s, 1, i - 1)
            right == SubSeq(s, i + 1, Len(s))
<1>1. i \in 1..Len(s) /\ Len(s) \in Nat /\ \A j \in 1..Len(s) : s[j] \in E
  OBVIOUS
<1>2. /\ left \in Seq(E) /\ Len(left) = i - 1
      /\ \A j \in 1..i - 1 : left[j] = s[j]
  <2>1. \A j \in 1..i - 1 : s[j] \in E
    BY <1>1
  <2>. QED
    BY <1>1, <2>1, SubSeqProperties
<1>3. /\ right \in Seq(E) /\ Len(right) = Len(s) - i
      /\ \A j \in 1..Len(s) - i : right[j] = s[i + j]
  <2>1. \A j \in i + 1..Len(s) : s[j] \in E
    BY <1>1
  <2>2. /\ right \in Seq(E) /\ Len(right) = Len(s) - i
        /\ \A j \in 1..Len(s) - (i + 1) + 1 : right[j] = s[i + 1 + j - 1]
    BY <1>1, <2>1, SubSeqProperties
  <2>. QED
    BY <1>1, <2>2
<1>4. RemoveAt(s, i) = left \o right
  BY DEF RemoveAt
<1>. HIDE DEF left, right
<1>5. /\ left \o right \in Seq(E)
      /\ Len(left \o right) = Len(s) - 1
      /\ \A j \in 1..Len(s) - 1 :
           (left \o right)[j] = IF j <= i - 1 THEN left[j] ELSE right[j - (i - 1)]
  <2>1. /\ left \o right \in Seq(E)
        /\ Len(left \o right) = Len(left) + Len(right)
        /\ \A j \in 1..Len(left) + Len(right) : (left \o right)[j] =
              IF j <= Len(left) THEN left[j] ELSE right[j - Len(left)]
    BY <1>2, <1>3, ConcatProperties
  <2>2. Len(left) + Len(right) = Len(s) - 1
    BY <1>1, <1>2, <1>3
  <2>. QED
    BY <1>2, <2>1, <2>2
<1>6. ASSUME NEW j \in 1..Len(s) - 1
      PROVE  (left \o right)[j] = s[IF j < i THEN j ELSE j + 1]
  <2>1. CASE j < i
    <3>1. j \in 1..i - 1 /\ j <= i - 1
      BY <1>1, <2>1
    <3>. QED
      BY <1>2, <1>5, <2>1, <3>1
  <2>2. CASE j >= i
    <3>1. j - (i - 1) \in 1..Len(s) - i /\ ~(j <= i - 1) /\ i + (j - (i - 1)) = j + 1
      BY <1>1, <2>2
    <3>2. right[j - (i - 1)] = s[j + 1]
      BY <1>3, <3>1
    <3>. QED
      BY <1>1, <1>5, <2>2, <3>1, <3>2
  <2>3. j < i \/ j >= i
    BY <1>1
  <2>. HIDE DEF left, right
  <2>. QED
    BY ONLY <2>1, <2>2, <2>3
<1>7. DOMAIN (left \o right) = 1..Len(s) - 1
  BY <1>5
<1>. QED
  BY <1>4, <1>5, <1>6, <1>7

\* What is left of a cache when a key is deleted from it.
Without(s, k) ==
    IF {i \in DOMAIN s : s[i].key = k} = {} THEN s
    ELSE RemoveAt(s, CHOOSE i \in {i \in DOMAIN s : s[i].key = k} : TRUE)

\* The same with a new entry at the end, for which the oldest may have made room.
With(s, e) == Append(IF Len(s) >= MaxEntries THEN Tail(s) ELSE s, e)

\* A key that is deleted is gone, the others stay.
LEMMA Deleted ==
    ASSUME NEW E, NEW s \in Seq(E), KeysOnce(s), NEW k, NEW r, r = Without(s, k)
    PROVE  /\ r \in Seq(E) /\ Len(r) <= Len(s) /\ KeysOnce(r) /\ Within(r, s)
           /\ \A j \in DOMAIN r : r[j].key # k
<1>1. CASE {i \in DOMAIN s : s[i].key = k} = {}
  BY <1>1 DEF KeysOnce, Within, Without
<1>2. CASE {i \in DOMAIN s : s[i].key = k} # {}
  <2>1. PICK i \in DOMAIN s : s[i].key = k /\ r = RemoveAt(s, i)
    BY <1>2 DEF Without
  <2>2. /\ r \in Seq(E) /\ Len(r) = Len(s) - 1
        /\ \A j \in DOMAIN r : r[j] = s[IF j < i THEN j ELSE j + 1]
    BY <2>1, Removed
  <2>3. \A j \in DOMAIN r : (IF j < i THEN j ELSE j + 1) \in DOMAIN s \ {i}
    BY <2>2
  <2>4. ASSUME NEW a \in DOMAIN r, NEW b \in DOMAIN r, r[a].key = r[b].key
        PROVE  a = b
    <3>1. PICK x \in DOMAIN s, y \in DOMAIN s :
            x = (IF a < i THEN a ELSE a + 1) /\ y = (IF b < i THEN b ELSE b + 1)
      BY <2>3
    <3>2. s[x].key = s[y].key
      BY <2>2, <2>4, <3>1
    <3>3. x = y
      BY <3>2 DEF KeysOnce
    <3>. QED
      BY <2>2, <3>1, <3>3
  <2>5. Within(r, s)
    BY <2>2, <2>3 DEF Within
  <2>6. \A j \in DOMAIN r : r[j].key # k
    BY <2>1, <2>2, <2>3 DEF KeysOnce
  <2>. QED
    BY <2>2, <2>4, <2>5, <2>6 DEF KeysOnce
<1>. QED
  BY <1>1, <1>2

\* A new entry at the end, for which the oldest may have made room.
LEMMA Added ==
    ASSUME NEW E, NEW s \in Seq(E), KeysOnce(s), Len(s) <= MaxEntries,
           NEW e \in E, \A j \in DOMAIN s : s[j].key # e.key, NEW r, r = With(s, e)
    PROVE  /\ r \in Seq(E) /\ OneOfEach(r)
           /\ \A j \in DOMAIN r : r[j] = e \/ \E i \in DOMAIN s : r[j] = s[i]
<1>1. CASE Len(s) >= MaxEntries
  <2>1. Len(s) > 0 /\ Tail(s) \in Seq(E) /\ Len(Tail(s)) = Len(s) - 1
    BY <1>1, Numbers
  <2>2. \A j \in DOMAIN Tail(s) : j + 1 \in DOMAIN s /\ Tail(s)[j] = s[j + 1]
    BY <2>1
  <2>3. /\ r \in Seq(E) /\ Len(r) = Len(s)
        /\ \A j \in DOMAIN r : r[j] = IF j = Len(s) THEN e ELSE s[j + 1]
    BY <1>1, <2>1, <2>2 DEF With
  <2>4. ASSUME NEW a \in DOMAIN r, NEW b \in DOMAIN r, r[a].key = r[b].key
        PROVE  a = b
    <3>1. CASE a # Len(s) /\ b # Len(s)
      <4>1. a + 1 \in DOMAIN s /\ b + 1 \in DOMAIN s /\ s[a + 1].key = s[b + 1].key
        BY <2>3, <2>4, <3>1
      <4>. QED
        BY <4>1, <2>3 DEF KeysOnce
    <3>2. CASE a = Len(s) \/ b = Len(s)
      BY <2>3, <2>4, <3>2
    <3>. QED
      BY <3>1, <3>2
  <2>5. \A j \in DOMAIN r : r[j] = e \/ \E i \in DOMAIN s : r[j] = s[i]
    <3>1. \A j \in DOMAIN r : j # Len(s) => j + 1 \in DOMAIN s
      BY <2>3
    <3>. QED
      BY <2>3, <3>1
  <2>. QED
    BY <2>3, <2>4, <2>5 DEF OneOfEach
<1>2. CASE Len(s) < MaxEntries
  <2>1. /\ r \in Seq(E) /\ Len(r) = Len(s) + 1
        /\ \A j \in DOMAIN r : r[j] = IF j = Len(s) + 1 THEN e ELSE s[j]
    BY <1>2, Numbers DEF With
  <2>. QED
    BY <1>2, <2>1, Numbers DEF OneOfEach, KeysOnce
<1>. QED
  BY <1>1, <1>2, Numbers

\* A lookup only ever drops entries.
LEMMA Purges ==
    ASSUME NEW E, NEW s \in Seq(E), OneOfEach(s), NEW k, NEW n, NEW r,
           \/ r = Single!Purged(s, k, n) \/ r = Bulk!Purged(s, k, n) \/ r = Missing!Purged(s, k, n)
    PROVE  r \in Seq(E) /\ OneOfEach(r) /\ Within(r, s)
<1>. DEFINE d == Without(s, k)
<1>1. r = s \/ r = d
  BY DEF Single!Purged, Single!Delete, Single!Positions, Single!RemoveAt, Bulk!Purged, Bulk!Delete, Bulk!Positions, Bulk!RemoveAt,
         Missing!Purged, Missing!Delete, Missing!Positions, Missing!RemoveAt, RemoveAt, Without
<1>2. KeysOnce(s)
  BY DEF OneOfEach, KeysOnce
<1>3. CASE r = s
  BY <1>3 DEF Within
<1>4. CASE r = d
  <2>1. r \in Seq(E) /\ Len(r) <= Len(s) /\ KeysOnce(r) /\ Within(r, s)
    BY <1>2, <1>4, Deleted
  <2>. QED
    BY <2>1, Numbers DEF OneOfEach, KeysOnce
<1>. QED
  BY <1>1, <1>3, <1>4

\* A store adds its entry, and may drop others.
LEMMA Puts ==
    ASSUME NEW E, NEW s \in Seq(E), OneOfEach(s), NEW k, NEW v, NEW n,
           [key |-> k, value |-> v, at |-> n] \in E, NEW r,
           \/ r = Single!Put(s, k, v, n) \/ r = Bulk!Put(s, k, v, n) \/ r = Missing!Put(s, k, v, n)
    PROVE  /\ r \in Seq(E) /\ OneOfEach(r)
           /\ \A j \in DOMAIN r :
                r[j] = [key |-> k, value |-> v, at |-> n] \/ \E i \in DOMAIN s : r[j] = s[i]
<1>. DEFINE e == [key |-> k, value |-> v, at |-> n]
<1>1. PICK d : d = Without(s, k)
  OBVIOUS
<1>2. r = s \/ r = With(d, e)
  BY <1>1 DEF Single!Put, Single!Delete, Single!Positions, Single!RemoveAt, Bulk!Put, Bulk!Delete, Bulk!Positions, Bulk!RemoveAt,
              Missing!Put, Missing!Delete, Missing!Positions, Missing!RemoveAt, RemoveAt, Without, With
<1>3. /\ d \in Seq(E) /\ Len(d) <= Len(s) /\ KeysOnce(d) /\ Within(d, s)
      /\ \A j \in DOMAIN d : d[j].key # k
  <2>1. KeysOnce(s)
    BY DEF OneOfEach, KeysOnce
  <2>. QED
    BY <1>1, <2>1, Deleted
<1>4. CASE r = s
  BY <1>4
<1>5. CASE r = With(d, e)
  <2>1. e.key = k /\ Len(d) <= MaxEntries /\ e \in E
    BY <1>3, Numbers DEF OneOfEach
  <2>2. /\ r \in Seq(E) /\ OneOfEach(r)
        /\ \A j \in DOMAIN r : r[j] = e \/ \E i \in DOMAIN d : r[j] = d[i]
    BY <1>3, <1>5, <2>1, Added
  <2>. QED
    BY <1>3, <2>2 DEF Within
<1>. QED
  BY <1>2, <1>4, <1>5

-----------------------------------------------------------------------------
\* What lookups find.

LEMMA SingleHits ==
    ASSUME NEW s, NEW k, NEW n
    PROVE  /\ \A e \in Single!Get(s, k, n) :
                Ttl # 0 /\ e.key = k /\ n - e.at < Ttl /\ \E i \in DOMAIN s : e = s[i]
           /\ \A e \in Single!GetStale(s, k, n) :
                /\ Ttl # 0 /\ e.key = k /\ n - e.at < Ttl + StaleTtl
                /\ \E i \in DOMAIN s : e = s[i]
           /\ \A e \in Single!Read(s, k, n) :
                /\ Ttl # 0 /\ e.key = k /\ n - e.at < Ttl + StaleTtl
                /\ \E i \in DOMAIN s : e = s[i]
           /\ \A i \in DOMAIN s : s[i].key = k /\ Ttl # 0 /\ n - s[i].at < Ttl + StaleTtl =>
                \/ n - s[i].at < Ttl /\ s[i] \in Single!Get(s, k, n)
                \/ ~(n - s[i].at < Ttl) /\ s[i] \in Single!GetStale(s, k, n)
  BY DEF Single!Get, Single!GetStale, Single!Read, Single!Usable, Single!ToSet, ToSet

\* What lookups in the bulk cache find.
LEMMA BulkHits ==
    ASSUME NEW s, NEW k, NEW n
    PROVE  /\ \A e \in Bulk!Get(s, k, n) :
                Ttl # 0 /\ e.key = k /\ n - e.at < Ttl /\ \E i \in DOMAIN s : e = s[i]
           /\ \A e \in Bulk!GetStale(s, k, n) :
                /\ Ttl # 0 /\ e.key = k /\ n - e.at < Ttl + StaleTtl
                /\ \E i \in DOMAIN s : e = s[i]
           /\ \A e \in Bulk!Read(s, k, n) :
                /\ Ttl # 0 /\ e.key = k /\ n - e.at < Ttl + StaleTtl
                /\ \E i \in DOMAIN s : e = s[i]
           /\ \A i \in DOMAIN s : s[i].key = k /\ Ttl # 0 /\ n - s[i].at < Ttl + StaleTtl =>
                \/ n - s[i].at < Ttl /\ s[i] \in Bulk!Get(s, k, n)
                \/ ~(n - s[i].at < Ttl) /\ s[i] \in Bulk!GetStale(s, k, n)
  BY DEF Bulk!Get, Bulk!GetStale, Bulk!Read, Bulk!Usable, Bulk!ToSet, ToSet

\* The cache of missing flags has a shorter ttl and keeps nothing beyond it.
LEMMA MissingHits ==
    ASSUME NEW s, NEW k, NEW n, NEW e \in Missing!Get(s, k, n)
    PROVE  Ttl # 0 /\ n - e.at < MissingTtl /\ \E i \in DOMAIN s : e = s[i]
  BY DEF Missing!Get, Missing!Read, Missing!ToSet, ToSet

-----------------------------------------------------------------------------
\* What was so stays so.

\* One step of the clock or of the flag takes h and n to g and m.
Later(h, n, g, m) ==
    \/ g = h /\ n <= m
    \/ m = n /\ \E s \in FlagState : g = Append(h, [state |-> s, since |-> n])

HistoryOf == Seq([state: FlagState, since: 0..Horizon]) \ {<<>>}

\* What was so at an instant stays so as the history grows.
LEMMA WasStays ==
    ASSUME NEW h \in HistoryOf, NEW n \in Nat, NEW g, NEW m \in Nat, Later(h, n, g, m),
           NEW x, NEW t \in Int, Was(h, n, x, t)
    PROVE  Was(g, m, x, t)
<1>1. h \in Seq([state: FlagState, since: 0..Horizon]) /\ Len(h) \in Nat
  BY DEF HistoryOf
<1>2. PICK i \in DOMAIN h : h[i].state = x /\ (IF i = Len(h) THEN n ELSE h[i + 1].since) >= t
  BY DEF Was
<1>3. CASE g = h /\ n <= m
  <2>1. (IF i = Len(h) THEN m ELSE h[i + 1].since) >= t
    <3>1. CASE i = Len(h)
      BY <1>2, <1>3, <3>1
    <3>2. CASE i # Len(h)
      BY <1>2, <3>2
    <3>. QED
      BY <3>1, <3>2
  <2>. QED
    BY <1>2, <1>3, <2>1 DEF Was
<1>4. ASSUME m = n, NEW s \in FlagState, g = Append(h, [state |-> s, since |-> n])
      PROVE  Was(g, m, x, t)
  <2>1. /\ Len(g) = Len(h) + 1 /\ i \in DOMAIN g /\ g[i] = h[i] /\ i # Len(g)
        /\ i = Len(h) => g[i + 1].since = n
        /\ i # Len(h) => g[i + 1] = h[i + 1]
    BY <1>1, <1>4
  <2>2. g[i].state = x /\ (IF i = Len(g) THEN m ELSE g[i + 1].since) >= t
    BY <1>2, <2>1
  <2>. QED
    BY <2>1, <2>2 DEF Was
<1>. QED
  BY <1>3, <1>4 DEF Later

\* What was so at an instant or later was so at any earlier instant or later.
LEMMA WasEarlier ==
    ASSUME NEW h \in HistoryOf, NEW n \in Nat, NEW x, NEW t \in Int, NEW u \in Int,
           Was(h, n, x, t), u <= t
    PROVE  Was(h, n, x, u)
<1>1. PICK i \in DOMAIN h : h[i].state = x /\ (IF i = Len(h) THEN n ELSE h[i + 1].since) >= t
  BY DEF Was
<1>2. (IF i = Len(h) THEN n ELSE h[i + 1].since) \in Int
  <2>1. CASE i # Len(h)
    <3>1. h[i + 1] \in [state: FlagState, since: 0..Horizon]
      <4>1. h \in Seq([state: FlagState, since: 0..Horizon]) /\ i + 1 \in DOMAIN h
        BY <2>1 DEF HistoryOf
      <4>2. i + 1 \in 1..Len(h)
        BY <4>1
      <4>. QED
        BY <4>1, <4>2, ElementOfSeq
    <3>. QED
      BY <2>1, <3>1
  <2>2. CASE i = Len(h)
    BY <2>2
  <2>. QED
    BY <2>1, <2>2
<1>. QED
  BY <1>1, <1>2 DEF Was

\* A call that is over promises nothing.
LEMMA DoneCall ==
    /\ Done \in Call(Phase) /\ Done.phase = "done"
    /\ \A h, n, d : Told(h, n, Done) /\ Timely(h, n, d, Done)
    /\ \A s, b, n : Asked(s, b, n, Done)
  BY Numbers DEF Done, Waiting, NoAnswer, Call, Phase, Told, Timely, Asked, Outside, Requested, Early,
                 AskedSingle, AskedBulk

-----------------------------------------------------------------------------
\* A step of one call.

AnyPhase == Phase \cup Running

\* Every entry of a cache was there before or is stored now, and then holds.
SingleKeeps ==
    /\ single' \in Seq(Entry({"on", "off"})) /\ OneOfEach(single')
    /\ \A j \in DOMAIN single' :
         \/ \E i \in DOMAIN single : single'[j] = single[i]
         \/ single'[j].at = now /\ KnownSingle(history, now, slowest', single'[j])
BulkKeeps ==
    /\ bulk' \in Seq(Entry(BulkEntry)) /\ OneOfEach(bulk')
    /\ \A j \in DOMAIN bulk' :
         \/ \E i \in DOMAIN bulk : bulk'[j] = bulk[i]
         \/ bulk'[j].at = now /\ KnownBulk(history, now, slowest', bulk'[j])
MissingKeeps ==
    /\ missing' \in Seq(Entry({"absent"})) /\ OneOfEach(missing')
    /\ \A j \in DOMAIN missing' :
         \/ \E i \in DOMAIN missing : missing'[j] = missing[i]
         \/ missing'[j].at = now /\ KnownMissing(history, now, slowest', missing'[j])

\* What call c does to the variables when it goes on as call.
StepTo(c, call) ==
    /\ now' = now /\ history' = history /\ pausedUntil' \in 0..Horizon + MaxBackoff
    /\ slowest' \in 0..Horizon /\ slowest <= slowest'
    /\ SingleKeeps /\ BulkKeeps /\ MissingKeeps
    /\ calls' = [calls EXCEPT ![c] = call]
    /\ call \in Call(AnyPhase) /\ (runtime = "javascript" => call.phase \in Phase)
    /\ Told(history, now, call) /\ Timely(history, now, slowest', call)
    /\ Asked(single', bulk', now, call)
    /\ returned' \in Result /\ Fits(history, now, slowest', returned')

Step(c) == \E call : StepTo(c, call)

\* The types, for the steps of the proofs.
LEMMA Types ==
    ASSUME Inv
    PROVE  /\ now \in 0..Horizon /\ now \in Nat /\ history \in HistoryOf
           /\ single \in Seq(Entry({"on", "off"})) /\ OneOfEach(single)
           /\ bulk \in Seq(Entry(BulkEntry)) /\ OneOfEach(bulk)
           /\ missing \in Seq(Entry({"absent"})) /\ OneOfEach(missing)
           /\ pausedUntil \in 0..Horizon + MaxBackoff
           /\ slowest \in 0..Horizon /\ slowest \in Nat
           /\ calls \in [Calls -> Call(AnyPhase)]
           /\ returned \in Result
           /\ runtime \in {"javascript", "python"}
           /\ \A i \in DOMAIN single : single[i] \in Entry({"on", "off"}) /\ single[i].at \in Nat
           /\ \A i \in DOMAIN bulk : bulk[i] \in Entry(BulkEntry) /\ bulk[i].at \in Nat
           /\ \A i \in DOMAIN missing : missing[i] \in Entry({"absent"}) /\ missing[i].at \in Nat
<1>1. /\ now \in 0..Horizon /\ history \in HistoryOf
      /\ single \in Seq(Entry({"on", "off"})) /\ OneOfEach(single)
      /\ bulk \in Seq(Entry(BulkEntry)) /\ OneOfEach(bulk)
      /\ missing \in Seq(Entry({"absent"})) /\ OneOfEach(missing)
      /\ pausedUntil \in 0..Horizon + MaxBackoff
      /\ slowest \in 0..Horizon
      /\ calls \in [Calls -> Call(AnyPhase)]
      /\ returned \in Result
      /\ runtime \in {"javascript", "python"}
  BY DEF Inv, TypeOK, Typed, HistoryOf, AnyPhase
<1>2. \A i \in DOMAIN single : single[i] \in Entry({"on", "off"})
  BY <1>1
<1>3. \A i \in DOMAIN bulk : bulk[i] \in Entry(BulkEntry)
  BY <1>1
<1>4. \A i \in DOMAIN missing : missing[i] \in Entry({"absent"})
  BY <1>1
<1>5. \A V : \A e \in Entry(V) : e.at \in Nat
  BY Numbers DEF Entry
<1>6. now \in Nat /\ slowest \in Nat
  BY <1>1, Numbers
<1>. QED
  BY <1>1, <1>2, <1>3, <1>4, <1>5, <1>6

\* A cache that is left alone, or only purged, keeps what it has.
LEMMA SingleOnlyPurged ==
    ASSUME Inv, NEW k, \/ single' = single \/ single' = Single!Purged(single, k, now)
    PROVE  SingleKeeps /\ Within(single', single)
<1>1. single \in Seq(Entry({"on", "off"})) /\ OneOfEach(single)
  BY Types
<1>2. CASE single' = single
  BY <1>1, <1>2 DEF SingleKeeps, Within, OneOfEach
<1>3. CASE single' = Single!Purged(single, k, now)
  <2>1. single' \in Seq(Entry({"on", "off"})) /\ OneOfEach(single') /\ Within(single', single)
    BY <1>1, <1>3, Purges
  <2>. QED
    BY <2>1 DEF SingleKeeps, Within
<1>. QED
  BY <1>2, <1>3

\* The same of the bulk cache.
LEMMA BulkOnlyPurged ==
    ASSUME Inv, NEW k, \/ bulk' = bulk \/ bulk' = Bulk!Purged(bulk, k, now)
    PROVE  BulkKeeps /\ Within(bulk', bulk)
<1>1. bulk \in Seq(Entry(BulkEntry)) /\ OneOfEach(bulk)
  BY Types
<1>2. CASE bulk' = bulk
  BY <1>1, <1>2 DEF BulkKeeps, Within, OneOfEach
<1>3. CASE bulk' = Bulk!Purged(bulk, k, now)
  <2>1. bulk' \in Seq(Entry(BulkEntry)) /\ OneOfEach(bulk') /\ Within(bulk', bulk)
    BY <1>1, <1>3, Purges
  <2>. QED
    BY <2>1 DEF BulkKeeps, Within
<1>. QED
  BY <1>2, <1>3

\* The same of the cache of absent flags.
LEMMA MissingOnlyPurged ==
    ASSUME Inv, NEW k, \/ missing' = missing \/ missing' = Missing!Purged(missing, k, now)
    PROVE  MissingKeeps
<1>1. missing \in Seq(Entry({"absent"})) /\ OneOfEach(missing)
  BY Types
<1>2. CASE missing' = missing
  BY <1>1, <1>2 DEF MissingKeeps, OneOfEach
<1>3. CASE missing' = Missing!Purged(missing, k, now)
  <2>1. missing' \in Seq(Entry({"absent"})) /\ OneOfEach(missing') /\ Within(missing', missing)
    BY <1>1, <1>3, Purges
  <2>. QED
    BY <2>1 DEF MissingKeeps, Within
<1>. QED
  BY <1>2, <1>3

\* What is stored holds at that moment.
LEMMA SinglePut ==
    ASSUME Inv, NEW k \in Contexts, NEW v \in {"on", "off"}, Was(history, now, v, Sent(now, slowest')),
           single' = Single!Put(single, k, v, now)
    PROVE  SingleKeeps
<1>1. /\ single \in Seq(Entry({"on", "off"})) /\ OneOfEach(single)
      /\ now \in Nat /\ now \in 0..Horizon
  BY Types
<1>2. [key |-> k, value |-> v, at |-> now] \in Entry({"on", "off"})
  BY <1>1 DEF Entry
<1>3. /\ single' \in Seq(Entry({"on", "off"})) /\ OneOfEach(single')
      /\ \A j \in DOMAIN single' : \/ single'[j] = [key |-> k, value |-> v, at |-> now]
                                   \/ \E i \in DOMAIN single : single'[j] = single[i]
  BY <1>1, <1>2, Puts
<1>. QED
  BY <1>1, <1>3 DEF SingleKeeps, KnownSingle

\* The same of the bulk cache.
LEMMA BulkPut ==
    ASSUME Inv, NEW k \in Contexts, NEW v \in BulkEntry, v.tag \in {None, v.body},
           Was(history, now, v.body, Sent(now, slowest')), bulk' = Bulk!Put(bulk, k, v, now)
    PROVE  BulkKeeps
<1>1. /\ bulk \in Seq(Entry(BulkEntry)) /\ OneOfEach(bulk)
      /\ now \in Nat /\ now \in 0..Horizon
  BY Types
<1>2. [key |-> k, value |-> v, at |-> now] \in Entry(BulkEntry)
  BY <1>1 DEF Entry
<1>3. /\ bulk' \in Seq(Entry(BulkEntry)) /\ OneOfEach(bulk')
      /\ \A j \in DOMAIN bulk' : \/ bulk'[j] = [key |-> k, value |-> v, at |-> now]
                                 \/ \E i \in DOMAIN bulk : bulk'[j] = bulk[i]
  BY <1>1, <1>2, Puts
<1>. QED
  BY <1>1, <1>3 DEF BulkKeeps, KnownBulk

\* The same of the cache of absent flags.
LEMMA MissingPut ==
    ASSUME Inv, Was(history, now, "absent", Sent(now, slowest') - AgeWithin(Ttl)),
           missing' = Missing!Put(missing, Flag, "absent", now)
    PROVE  MissingKeeps
<1>1. /\ missing \in Seq(Entry({"absent"})) /\ OneOfEach(missing)
      /\ now \in Nat /\ now \in 0..Horizon
  BY Types
<1>2. [key |-> Flag, value |-> "absent", at |-> now] \in Entry({"absent"})
  BY <1>1 DEF Entry
<1>3. /\ missing' \in Seq(Entry({"absent"})) /\ OneOfEach(missing')
      /\ \A j \in DOMAIN missing' : \/ missing'[j] = [key |-> Flag, value |-> "absent", at |-> now]
                                    \/ \E i \in DOMAIN missing : missing'[j] = missing[i]
  BY <1>1, <1>2, Puts
<1>. QED
  BY <1>1, <1>3 DEF MissingKeeps, KnownMissing

-----------------------------------------------------------------------------
\* What a step leaves alone stays as good as it was.

LEMMA Ages ==
    /\ AgeWithin(Ttl) \in Nat /\ AgeWithin(Ttl + StaleTtl) \in Nat /\ AgeWithin(MissingTtl) \in Nat
    /\ \A n \in Int, d \in Int : Sent(n, d) \in Int /\ Sent(n, d) = n - ServerLag - d
  BY Numbers DEF AgeWithin, Sent

\* What was so under one bound was so under a later clock and a wider bound.
LEMMA WasWithin ==
    ASSUME NEW h \in HistoryOf, NEW n \in Nat, NEW g, NEW m \in Nat, Later(h, n, g, m),
           NEW x, NEW t \in Int, NEW u \in Int, u <= t, Was(h, n, x, t)
    PROVE  Was(g, m, x, u)
<1>1. Was(h, n, x, u)
  BY WasEarlier
<1>. QED
  BY <1>1, WasStays

\* What a cache knows stays known as the history grows, and a slower request with it.
LEMMA KnownStays ==
    ASSUME NEW h \in HistoryOf, NEW n \in Nat, NEW g, NEW m \in Nat, Later(h, n, g, m), n <= m,
           NEW d \in Nat, NEW u \in Nat, d <= u, NEW e, e.at \in Nat
    PROVE  /\ KnownSingle(h, n, d, e) => KnownSingle(g, m, u, e)
           /\ KnownBulk(h, n, d, e) => KnownBulk(g, m, u, e)
           /\ KnownMissing(h, n, d, e) => KnownMissing(g, m, u, e)
<1>1. /\ Sent(e.at, d) \in Int /\ Sent(e.at, u) \in Int /\ Sent(e.at, u) <= Sent(e.at, d)
      /\ Sent(e.at, d) - AgeWithin(Ttl) \in Int /\ Sent(e.at, u) - AgeWithin(Ttl) \in Int
      /\ Sent(e.at, u) - AgeWithin(Ttl) <= Sent(e.at, d) - AgeWithin(Ttl)
  BY Ages, Numbers DEF Sent
<1>2. /\ \A x : Was(h, n, x, Sent(e.at, d)) => Was(g, m, x, Sent(e.at, u))
      /\ \A x : Was(h, n, x, Sent(e.at, d) - AgeWithin(Ttl)) =>
                Was(g, m, x, Sent(e.at, u) - AgeWithin(Ttl))
  BY <1>1, WasWithin
<1>3. e.at <= n => e.at <= m
  OBVIOUS
<1>4. KnownSingle(h, n, d, e) => KnownSingle(g, m, u, e)
  BY <1>2, <1>3 DEF KnownSingle
<1>5. KnownBulk(h, n, d, e) => KnownBulk(g, m, u, e)
  BY <1>2, <1>3 DEF KnownBulk
<1>6. KnownMissing(h, n, d, e) => KnownMissing(g, m, u, e)
  BY <1>2, <1>3 DEF KnownMissing
<1>. QED
  BY <1>4, <1>5, <1>6

\* A step that keeps each cache's entries known keeps Known.
LEMMA KnownAfter ==
    ASSUME Inv, now' \in Nat, now <= now', Later(history, now, history', now'),
           slowest' \in Nat, slowest <= slowest', SingleKeeps, BulkKeeps, MissingKeeps
    PROVE  Known'
<1>1. /\ now \in Nat /\ history \in HistoryOf /\ slowest \in Nat
      /\ \A i \in DOMAIN single : single[i].at \in Nat
      /\ \A i \in DOMAIN bulk : bulk[i].at \in Nat
      /\ \A i \in DOMAIN missing : missing[i].at \in Nat
  BY Types
<1>2. Known
  BY DEF Inv
<1>3. ASSUME NEW j \in DOMAIN single' PROVE KnownSingle(history', now', slowest', single'[j])
  <2>1. CASE \E i \in DOMAIN single : single'[j] = single[i]
    BY <1>1, <1>2, <2>1, KnownStays DEF Known
  <2>2. CASE single'[j].at = now /\ KnownSingle(history, now, slowest', single'[j])
    BY <1>1, <2>2, KnownStays
  <2>. QED
    BY <2>1, <2>2 DEF SingleKeeps
<1>4. ASSUME NEW j \in DOMAIN bulk' PROVE KnownBulk(history', now', slowest', bulk'[j])
  <2>1. CASE \E i \in DOMAIN bulk : bulk'[j] = bulk[i]
    BY <1>1, <1>2, <2>1, KnownStays DEF Known
  <2>2. CASE bulk'[j].at = now /\ KnownBulk(history, now, slowest', bulk'[j])
    BY <1>1, <2>2, KnownStays
  <2>. QED
    BY <2>1, <2>2 DEF BulkKeeps
<1>5. ASSUME NEW j \in DOMAIN missing' PROVE KnownMissing(history', now', slowest', missing'[j])
  <2>1. CASE \E i \in DOMAIN missing : missing'[j] = missing[i]
    BY <1>1, <1>2, <2>1, KnownStays DEF Known
  <2>2. CASE missing'[j].at = now /\ KnownMissing(history, now, slowest', missing'[j])
    BY <1>1, <2>2, KnownStays
  <2>. QED
    BY <2>1, <2>2 DEF MissingKeeps
<1>. QED
  BY <1>3, <1>4, <1>5 DEF Known

\* What a call was told stays true as the history grows.
LEMMA ToldStays ==
    ASSUME NEW h \in HistoryOf, NEW n \in Nat, NEW g, NEW m \in Nat, Later(h, n, g, m),
           NEW call, call.since \in Nat, Told(h, n, call)
    PROVE  Told(g, m, call)
<1>1. call.since - ServerLag \in Int
  BY Numbers
<1>2. \A x : Was(h, n, x, call.since - ServerLag) => Was(g, m, x, call.since - ServerLag)
  BY <1>1, WasStays
<1>. QED
  BY <1>2 DEF Told

\* A call that does not move in a step at one moment still keeps to that moment.
LEMMA TimelyStays ==
    ASSUME NEW h \in HistoryOf, NEW n \in Nat, NEW g, Later(h, n, g, n),
           NEW d \in Nat, NEW u \in Nat, d <= u, NEW call, Timely(h, n, d, call)
    PROVE  Timely(g, n, u, call)
<1>1. /\ Sent(n, d) - AgeWithin(Ttl) \in Int /\ Sent(n, u) - AgeWithin(Ttl) \in Int
      /\ Sent(n, u) - AgeWithin(Ttl) <= Sent(n, d) - AgeWithin(Ttl)
  BY Ages, Numbers DEF Sent
<1>2. \A x : Was(h, n, x, Sent(n, d) - AgeWithin(Ttl)) => Was(g, n, x, Sent(n, u) - AgeWithin(Ttl))
  BY <1>1, WasWithin
<1>. QED
  BY <1>2 DEF Timely

\* New entries are stored after the call began.
LEMMA AskedStays ==
    ASSUME Inv, now' \in Nat, now <= now', NEW call, call.since \in Nat, call.since <= now,
           Asked(single, bulk, now, call), SingleKeeps, BulkKeeps
    PROVE  Asked(single', bulk', now', call)
<1>1. /\ now \in Nat
      /\ \A i \in DOMAIN single : single[i].at \in Nat
      /\ \A i \in DOMAIN bulk : bulk[i].at \in Nat
  BY Types
<1>2. /\ call.phase \in AskedSingle /\ call.op = "isEnabled" =>
           \A i \in DOMAIN single : single[i].key = call.ctx => NotMissed(single[i], call)
      /\ call.phase \in AskedBulk =>
           \A i \in DOMAIN bulk : bulk[i].key = call.ctx => NotMissed(bulk[i], call)
      /\ call.phase = "staleBulk" /\ call.op = "isEnabled" /\ Ttl # 0 =>
           \A i \in DOMAIN single : single[i].key = call.ctx =>
             single[i].at >= call.since \/ now - single[i].at >= Ttl + StaleTtl
  BY DEF Asked
<1>3. ASSUME NEW j \in DOMAIN single', single'[j].key = call.ctx,
             call.phase \in AskedSingle, call.op = "isEnabled"
      PROVE  NotMissed(single'[j], call)
  <2>1. CASE \E i \in DOMAIN single : single'[j] = single[i]
    BY <1>2, <1>3, <2>1
  <2>2. CASE single'[j].at = now
    BY <2>2 DEF NotMissed
  <2>. QED
    BY <2>1, <2>2 DEF SingleKeeps
<1>4. ASSUME NEW j \in DOMAIN bulk', bulk'[j].key = call.ctx, call.phase \in AskedBulk
      PROVE  NotMissed(bulk'[j], call)
  <2>1. CASE \E i \in DOMAIN bulk : bulk'[j] = bulk[i]
    BY <1>2, <1>4, <2>1
  <2>2. CASE bulk'[j].at = now
    BY <2>2 DEF NotMissed
  <2>. QED
    BY <2>1, <2>2 DEF BulkKeeps
<1>5. ASSUME NEW j \in DOMAIN single', single'[j].key = call.ctx,
             call.phase = "staleBulk", call.op = "isEnabled", Ttl # 0
      PROVE  single'[j].at >= call.since \/ now' - single'[j].at >= Ttl + StaleTtl
  <2>1. CASE \E i \in DOMAIN single : single'[j] = single[i]
    <3>1. PICK i \in DOMAIN single : single'[j] = single[i]
      BY <2>1
    <3>2. single[i].at >= call.since \/ now - single[i].at >= Ttl + StaleTtl
      BY <1>2, <1>5, <3>1
    <3>. QED
      BY <1>1, <3>1, <3>2, Numbers
  <2>2. CASE single'[j].at = now
    BY <2>2
  <2>. QED
    BY <2>1, <2>2 DEF SingleKeeps
<1>. QED
  BY <1>3, <1>4, <1>5 DEF Asked

\* Where a call has begun, it began in the past.
LEMMA Begins ==
    ASSUME Inv, NEW c \in Calls
    PROVE  /\ calls[c] \in Call(AnyPhase) /\ calls[c].since \in Nat
           /\ \/ calls[c].since <= now
              \/ \A s, b, n : Asked(s, b, n, calls[c])
<1>1. calls[c] \in Call(AnyPhase)
  BY Types
<1>2. calls[c].since \in Nat
  BY <1>1, Numbers DEF Call
<1>3. Timely(history, now, slowest, calls[c])
  BY DEF Inv
<1>4. CASE calls[c].phase \in Outside
  <2>1. /\ calls[c].phase \notin AskedSingle /\ calls[c].phase \notin AskedBulk
        /\ calls[c].phase # "staleBulk"
    BY <1>4 DEF Outside, AskedSingle, AskedBulk
  <2>. QED
    BY <1>1, <1>2, <2>1 DEF Asked
<1>5. CASE calls[c].phase \notin Outside
  <2>1. calls[c].since <= now
    BY <1>3, <1>5 DEF Timely
  <2>. QED
    BY <1>1, <1>2, <2>1
<1>. QED
  BY <1>4, <1>5

\* One call's step keeps the invariant.
LEMMA StepKeepsInv ==
    ASSUME Inv, NEW c \in Calls, Step(c), UNCHANGED runtime
    PROVE  Inv'
<1>1. PICK call : StepTo(c, call)
  BY DEF Step
<1>2. /\ now \in Nat /\ now \in 0..Horizon /\ history \in HistoryOf /\ slowest \in Nat
      /\ calls \in [Calls -> Call(AnyPhase)] /\ runtime \in {"javascript", "python"}
  BY Types
<1>3. /\ now' = now /\ history' = history /\ pausedUntil' \in 0..Horizon + MaxBackoff
      /\ slowest' \in 0..Horizon /\ slowest' \in Nat /\ slowest <= slowest'
      /\ SingleKeeps /\ BulkKeeps /\ MissingKeeps
      /\ calls' = [calls EXCEPT ![c] = call]
      /\ call \in Call(AnyPhase) /\ (runtime = "javascript" => call.phase \in Phase)
      /\ Told(history, now, call) /\ Timely(history, now, slowest', call)
      /\ Asked(single', bulk', now, call)
      /\ returned' \in Result /\ Fits(history, now, slowest', returned')
  BY <1>1, Numbers DEF StepTo
<1>4. Later(history, now, history', now')
  BY <1>2, <1>3 DEF Later
<1>5. TypeOK'
  BY <1>2, <1>3 DEF TypeOK, Typed, SingleKeeps, BulkKeeps, MissingKeeps, HistoryOf, AnyPhase
<1>6. Known'
  BY <1>2, <1>3, <1>4, KnownAfter
<1>7. ASSUME NEW d \in Calls
      PROVE  /\ Told(history', now', calls'[d])
             /\ Timely(history', now', slowest', calls'[d])
             /\ Asked(single', bulk', now', calls'[d])
             /\ runtime' = "javascript" => calls'[d].phase \in Phase
  <2>1. CASE d = c
    BY <1>2, <1>3, <2>1
  <2>2. CASE d # c
    <3>1. calls'[d] = calls[d]
      BY <1>2, <1>3, <2>2
    <3>2. /\ Told(history, now, calls[d]) /\ Timely(history, now, slowest, calls[d])
          /\ Asked(single, bulk, now, calls[d])
          /\ runtime = "javascript" => calls[d].phase \in Phase
      BY DEF Inv
    <3>3. Asked(single', bulk', now', calls[d])
      BY <1>2, <1>3, <3>2, Begins, AskedStays
    <3>4. Timely(history', now', slowest', calls[d])
      BY <1>2, <1>3, <1>4, <3>2, TimelyStays
    <3>. QED
      BY <1>3, <3>1, <3>2, <3>3, <3>4
  <2>. QED
    BY <2>1, <2>2
<1>8. Fits(history', now', slowest', returned')
  BY <1>3
<1>. QED
  BY <1>5, <1>6, <1>7, <1>8 DEF Inv

-----------------------------------------------------------------------------
\* The initial states, and the steps that are no call's.

LEMMA InitKeepsInv == ThreadsInit => Inv
<1>. SUFFICES ASSUME ThreadsInit PROVE Inv
  OBVIOUS
<1>1. PICK f \in FlagState, known \in SUBSET {"single", "bulk", "missing"} :
        history = <<[state |-> f, since |-> 0]>> /\ Filled(known)
  BY DEF ThreadsInit, Init
<1>2. /\ now = 0 /\ now \in Nat /\ now \in 0..Horizon /\ pausedUntil = 0 /\ slowest = 0
      /\ calls = [c \in Calls |-> Waiting]
      /\ returned = NoResult /\ runtime \in {"javascript", "python"}
  BY Numbers DEF ThreadsInit, Init
<1>3. /\ history \in HistoryOf /\ history # <<>> /\ history[1].state = f
      /\ history \in Seq([state: FlagState, since: 0..Horizon])
  <2>1. [state |-> f, since |-> 0] \in [state: FlagState, since: 0..Horizon]
    BY Numbers
  <2>. QED
    BY <1>1, <2>1 DEF HistoryOf
<1>4. \A t \in Int : t <= 0 => Was(history, now, f, t)
  <2>1. 1 \in DOMAIN history /\ Len(history) = 1
    BY <1>1
  <2>. QED
    BY <1>2, <1>3, <2>1 DEF Was
<1>5. PICK first \in Contexts : first = CHOOSE ctx \in Contexts : TRUE
  BY SdkAssumption
<1>6. /\ "single" \in known => f # "absent"
      /\ "missing" \in known => f = "absent"
      /\ single = IF "single" \in known THEN <<[key |-> first, value |-> f, at |-> 0]>> ELSE <<>>
      /\ bulk = IF "bulk" \in known
                THEN <<[key |-> first, value |-> [body |-> f, tag |-> f], at |-> 0]>> ELSE <<>>
      /\ missing = IF "missing" \in known
                   THEN <<[key |-> Flag, value |-> "absent", at |-> 0]>> ELSE <<>>
  BY <1>1, <1>3, <1>5 DEF Filled, EtagFor
<1>7. /\ Sent(0, slowest) \in Int /\ Sent(0, slowest) <= 0
      /\ Sent(0, slowest) - AgeWithin(Ttl) \in Int /\ Sent(0, slowest) - AgeWithin(Ttl) <= 0
  BY <1>2, Ages, Numbers DEF Sent
<1>8. /\ single \in Seq(Entry({"on", "off"})) /\ OneOfEach(single)
      /\ \A i \in DOMAIN single : KnownSingle(history, now, slowest, single[i])
  <2>1. CASE "single" \in known
    <3>1. [key |-> first, value |-> f, at |-> 0] \in Entry({"on", "off"})
      BY <1>6, <2>1, Numbers DEF Entry, FlagState
    <3>2. single = <<[key |-> first, value |-> f, at |-> 0]>>
      BY <1>6, <2>1
    <3>3. single \in Seq(Entry({"on", "off"})) /\ OneOfEach(single)
      BY <3>1, <3>2, Numbers DEF OneOfEach
    <3>4. KnownSingle(history, now, slowest, single[1])
      BY <1>2, <1>4, <1>7, <3>2 DEF KnownSingle
    <3>. QED
      BY <3>2, <3>3, <3>4
  <2>2. CASE "single" \notin known
    BY <1>6, <2>2, Numbers DEF OneOfEach
  <2>. QED
    BY <2>1, <2>2
<1>9. /\ bulk \in Seq(Entry(BulkEntry)) /\ OneOfEach(bulk)
      /\ \A i \in DOMAIN bulk : KnownBulk(history, now, slowest, bulk[i])
  <2>1. CASE "bulk" \in known
    <3>1. [key |-> first, value |-> [body |-> f, tag |-> f], at |-> 0] \in Entry(BulkEntry)
      BY Numbers DEF Entry, BulkEntry
    <3>2. bulk = <<[key |-> first, value |-> [body |-> f, tag |-> f], at |-> 0]>>
      BY <1>6, <2>1
    <3>3. bulk \in Seq(Entry(BulkEntry)) /\ OneOfEach(bulk)
      BY <3>1, <3>2, Numbers DEF OneOfEach
    <3>4. KnownBulk(history, now, slowest, bulk[1])
      BY <1>2, <1>4, <1>7, <3>2 DEF KnownBulk
    <3>. QED
      BY <3>2, <3>3, <3>4
  <2>2. CASE "bulk" \notin known
    BY <1>6, <2>2, Numbers DEF OneOfEach
  <2>. QED
    BY <2>1, <2>2
<1>10. /\ missing \in Seq(Entry({"absent"})) /\ OneOfEach(missing)
       /\ \A i \in DOMAIN missing : KnownMissing(history, now, slowest, missing[i])
  <2>1. CASE "missing" \in known
    <3>1. [key |-> Flag, value |-> "absent", at |-> 0] \in Entry({"absent"})
      BY Numbers DEF Entry
    <3>2. missing = <<[key |-> Flag, value |-> "absent", at |-> 0]>>
      BY <1>6, <2>1
    <3>3. missing \in Seq(Entry({"absent"})) /\ OneOfEach(missing)
      BY <3>1, <3>2, Numbers DEF OneOfEach
    <3>4. KnownMissing(history, now, slowest, missing[1])
      BY <1>2, <1>4, <1>6, <1>7, <2>1, <3>2 DEF KnownMissing
    <3>. QED
      BY <3>2, <3>3, <3>4
  <2>2. CASE "missing" \notin known
    BY <1>6, <2>2, Numbers DEF OneOfEach
  <2>. QED
    BY <2>1, <2>2
<1>11. /\ Waiting \in Call(AnyPhase) /\ Waiting.phase = "waiting" /\ Waiting.phase \in Phase
       /\ \A h, n, d : Told(h, n, Waiting) /\ Timely(h, n, d, Waiting)
       /\ \A s, b, n : Asked(s, b, n, Waiting)
  BY Numbers DEF Waiting, NoAnswer, Call, AnyPhase, Phase, Told, Timely, Asked, Outside, Requested,
                 Early, AskedSingle, AskedBulk
<1>12. returned \in Result /\ Fits(history, now, slowest, returned)
  BY <1>2, SdkAssumption DEF Result, NoResult, Fits
<1>13. TypeOK
  BY <1>2, <1>3, <1>8, <1>9, <1>10, <1>11, <1>12, Numbers DEF TypeOK, Typed, AnyPhase
<1>. QED
  BY <1>2, <1>8, <1>9, <1>10, <1>11, <1>12, <1>13 DEF Inv, Known

\* The flag changes, or the Python client is closed.
LEMMA CallsUntouched ==
    ASSUME Inv, UNCHANGED <<now, pausedUntil, slowest, calls, runtime>>, returned' = NoResult,
           SingleKeeps, BulkKeeps, MissingKeeps, history' \in HistoryOf,
           Later(history, now, history', now')
    PROVE  Inv'
<1>1. /\ now \in Nat /\ now \in 0..Horizon /\ history \in HistoryOf
      /\ pausedUntil \in 0..Horizon + MaxBackoff
      /\ slowest \in 0..Horizon /\ slowest \in Nat
      /\ calls \in [Calls -> Call(AnyPhase)] /\ runtime \in {"javascript", "python"}
  BY Types
<1>2. returned' \in Result /\ Fits(history', now', slowest', returned')
  BY SdkAssumption DEF Result, NoResult, Fits
<1>3. TypeOK'
  BY <1>1, <1>2 DEF TypeOK, Typed, SingleKeeps, BulkKeeps, MissingKeeps, HistoryOf, AnyPhase
<1>4. Known'
  BY <1>1, KnownAfter
<1>5. ASSUME NEW d \in Calls
      PROVE  /\ Told(history', now', calls'[d])
             /\ Timely(history', now', slowest', calls'[d])
             /\ Asked(single', bulk', now', calls'[d])
             /\ runtime' = "javascript" => calls'[d].phase \in Phase
  <2>1. /\ Told(history, now, calls[d]) /\ Timely(history, now, slowest, calls[d])
        /\ Asked(single, bulk, now, calls[d])
        /\ runtime = "javascript" => calls[d].phase \in Phase
    BY DEF Inv
  <2>2. calls[d].since \in Nat
    BY Begins
  <2>3. Told(history', now', calls[d])
    BY <1>1, <2>1, <2>2, ToldStays
  <2>4. Timely(history', now', slowest', calls[d])
    BY <1>1, <2>1, TimelyStays
  <2>5. Asked(single', bulk', now', calls[d])
    BY <1>1, <2>1, <2>2, Begins, AskedStays
  <2>. QED
    BY <2>1, <2>3, <2>4, <2>5
<1>. QED
  BY <1>2, <1>3, <1>4, <1>5 DEF Inv

\* An unchanged or an emptied cache keeps what it has.
LEMMA Untouched ==
    ASSUME Inv
    PROVE  /\ single' = single => SingleKeeps
           /\ bulk' = bulk => BulkKeeps
           /\ missing' = missing => MissingKeeps
  BY SingleOnlyPurged, BulkOnlyPurged, MissingOnlyPurged

\* A change at the server keeps the invariant.
LEMMA ChangeKeepsInv == Inv /\ Change /\ UNCHANGED runtime => Inv'
<1>. SUFFICES ASSUME Inv, Change, UNCHANGED runtime PROVE Inv'
  OBVIOUS
<1>1. PICK s \in FlagState : history' = Append(history, [state |-> s, since |-> now])
  BY DEF Change
<1>2. now \in 0..Horizon /\ history \in HistoryOf
  BY Types
<1>3. history' \in HistoryOf
  BY <1>1, <1>2 DEF HistoryOf
<1>4. Later(history, now, history', now')
  BY <1>1 DEF Later, Change
<1>5. /\ UNCHANGED <<now, pausedUntil, slowest, calls, runtime>> /\ returned' = NoResult
      /\ single' = single /\ bulk' = bulk /\ missing' = missing
  BY DEF Change, caches
<1>. QED
  BY <1>3, <1>4, <1>5, Untouched, CallsUntouched

\* Closing the client keeps the invariant.
LEMMA CloseKeepsInv == Inv /\ Close /\ UNCHANGED runtime => Inv'
<1>. SUFFICES ASSUME Inv, Close, UNCHANGED runtime PROVE Inv'
  OBVIOUS
<1>1. /\ UNCHANGED <<now, history, pausedUntil, slowest, calls, runtime>> /\ returned' = NoResult
      /\ single' = <<>> /\ bulk' = <<>> /\ missing' = <<>>
  BY DEF Close
<1>2. SingleKeeps /\ BulkKeeps /\ MissingKeeps
  BY <1>1, Numbers DEF SingleKeeps, BulkKeeps, MissingKeeps, OneOfEach
<1>3. now \in Nat /\ history \in HistoryOf
  BY Types
<1>4. history' \in HistoryOf /\ Later(history, now, history', now')
  BY <1>1, <1>3 DEF Later
<1>. QED
  BY <1>1, <1>2, <1>4, CallsUntouched

\* Time passes only when every call waits for its request.
LEMMA TickKeepsInv ==
    ASSUME Inv, Passes, \A c \in Calls : calls[c].phase \notin Running, UNCHANGED runtime
    PROVE  Inv'
<1>1. /\ now \in Nat /\ now \in 0..Horizon /\ history \in HistoryOf
      /\ pausedUntil \in 0..Horizon + MaxBackoff
      /\ slowest \in 0..Horizon /\ slowest \in Nat
      /\ calls \in [Calls -> Call(AnyPhase)] /\ runtime \in {"javascript", "python"}
  BY Types
<1>2. /\ UNCHANGED <<history, pausedUntil, slowest, calls, runtime>> /\ returned' = NoResult
      /\ single' = single /\ bulk' = bulk /\ missing' = missing
      /\ now < Horizon /\ now' = now + 1
  BY DEF Passes, caches
<1>3. now' \in Nat /\ now' \in 0..Horizon /\ now <= now' /\ Later(history, now, history', now')
  BY <1>1, <1>2, Numbers DEF Later
<1>4. SingleKeeps /\ BulkKeeps /\ MissingKeeps
  BY <1>2, Untouched
<1>5. returned' \in Result /\ Fits(history', now', slowest', returned')
  BY <1>2, SdkAssumption DEF Result, NoResult, Fits
<1>6. TypeOK'
  BY <1>1, <1>2, <1>3, <1>4, <1>5
     DEF TypeOK, Typed, SingleKeeps, BulkKeeps, MissingKeeps, HistoryOf, AnyPhase
<1>7. Known'
  BY <1>1, <1>2, <1>3, <1>4, KnownAfter
<1>8. ASSUME NEW d \in Calls
      PROVE  /\ Told(history', now', calls'[d])
             /\ Timely(history', now', slowest', calls'[d])
             /\ Asked(single', bulk', now', calls'[d])
             /\ runtime' = "javascript" => calls'[d].phase \in Phase
  <2>1. /\ Told(history, now, calls[d]) /\ Timely(history, now, slowest, calls[d])
        /\ Asked(single, bulk, now, calls[d])
        /\ runtime = "javascript" => calls[d].phase \in Phase
    BY DEF Inv
  <2>2. calls[d].since \in Nat
    BY Begins
  <2>3. Told(history', now', calls[d])
    BY <1>1, <1>3, <2>1, <2>2, ToldStays
  <2>4. Asked(single', bulk', now', calls[d])
    BY <1>3, <1>4, <2>1, <2>2, Begins, AskedStays
  <2>5. /\ calls[d].phase \notin Early /\ calls[d].phase \notin {"single", "bulk", "absent", "staleSingle"}
        /\ calls[d].phase \notin {"missing", "list", "previous"}
    BY DEF Running, Early
  <2>7. calls[d].phase \notin Outside =>
          /\ calls[d].op \in {"isEnabled", "getAllFeatures"} /\ calls[d].ctx \in Contexts
          /\ calls[d].since <= now'
    BY <1>1, <1>2, <2>1, <2>2 DEF Timely
  <2>8. Timely(history', now', slowest', calls[d])
    BY <2>5, <2>7 DEF Timely
  <2>. QED
    BY <1>2, <2>1, <2>3, <2>4, <2>8
<1>. QED
  BY <1>5, <1>6, <1>7, <1>8 DEF Inv

-----------------------------------------------------------------------------
\* What an answer is made of.

\* The facts about one call.
LEMMA CallFacts ==
    ASSUME Inv, NEW c \in Calls
    PROVE  /\ calls[c] \in Call(AnyPhase) /\ calls[c].since \in Nat /\ calls[c].since \in 0..Horizon
           /\ calls[c].previous \in BulkEntry \cup {None}
           /\ Told(history, now, calls[c]) /\ Timely(history, now, slowest, calls[c])
           /\ Asked(single, bulk, now, calls[c])
           /\ calls[c].phase \notin Outside => calls[c].since <= now /\ calls[c].ctx \in Contexts
                                              /\ calls[c].op \in {"isEnabled", "getAllFeatures"}
<1>1. calls[c] \in Call(AnyPhase) /\ calls[c].since \in Nat
  BY Begins
<1>2. /\ Told(history, now, calls[c]) /\ Timely(history, now, slowest, calls[c])
      /\ Asked(single, bulk, now, calls[c])
  BY DEF Inv
<1>3. calls[c].since \in 0..Horizon /\ calls[c].previous \in BulkEntry \cup {None}
  BY <1>1 DEF Call
<1>4. calls[c].phase \notin Outside => /\ calls[c].since <= now /\ calls[c].ctx \in Contexts
                                       /\ calls[c].op \in {"isEnabled", "getAllFeatures"}
  BY <1>2 DEF Timely
<1>. QED
  BY <1>1, <1>2, <1>3, <1>4

\* Just received.
LEMMA FetchedFits ==
    ASSUME Inv, NEW d \in Nat, NEW x \in FlagState, Was(history, now, x, Sent(now, d))
    PROVE  /\ [kind |-> "value", body |-> x] \in Result
           /\ Fits(history, now, d, [kind |-> "value", body |-> x])
<1>1. now \in Nat /\ history \in HistoryOf
  BY Types
<1>2. Sent(now, d) \in Int /\ Sent(now, d) - AgeWithin(Ttl) \in Int /\ Sent(now, d) - AgeWithin(Ttl) <= Sent(now, d)
  BY <1>1, Ages, Numbers DEF Sent
<1>3. Was(history, now, x, Sent(now, d) - AgeWithin(Ttl))
  BY <1>1, <1>2, WasEarlier
<1>. QED
  BY <1>3 DEF Result, Fits

\* From a cache, while it is fresh.
LEMMA FreshFits ==
    ASSUME Inv, NEW d \in Nat, NEW x \in FlagState, NEW at \in Nat, at <= now, Ttl # 0, now - at < Ttl,
           Was(history, now, x, Sent(at, d))
    PROVE  /\ [kind |-> "value", body |-> x] \in Result
           /\ Fits(history, now, d, [kind |-> "value", body |-> x])
<1>1. now \in Nat /\ history \in HistoryOf
  BY Types
<1>2. /\ Sent(at, d) \in Int /\ Sent(now, d) - AgeWithin(Ttl) \in Int
      /\ Sent(now, d) - AgeWithin(Ttl) <= Sent(at, d)
  BY <1>1, Numbers DEF Sent, AgeWithin
<1>3. Was(history, now, x, Sent(now, d) - AgeWithin(Ttl))
  BY <1>1, <1>2, WasEarlier
<1>. QED
  BY <1>3 DEF Result, Fits

\* From a cache, when a refetch failed.
LEMMA StaleFits ==
    ASSUME Inv, NEW d \in Nat, NEW x \in FlagState, NEW at \in Nat, at <= now, Ttl # 0, now - at < Ttl + StaleTtl,
           Was(history, now, x, Sent(at, d))
    PROVE  /\ [kind |-> "stale", body |-> x] \in Result
           /\ Fits(history, now, d, [kind |-> "stale", body |-> x])
<1>1. now \in Nat /\ history \in HistoryOf
  BY Types
<1>2. /\ Sent(at, d) \in Int /\ Sent(now, d) - AgeWithin(Ttl + StaleTtl) \in Int
      /\ Sent(now, d) - AgeWithin(Ttl + StaleTtl) <= Sent(at, d)
  BY <1>1, Numbers DEF Sent, AgeWithin
<1>3. Was(history, now, x, Sent(now, d) - AgeWithin(Ttl + StaleTtl))
  BY <1>1, <1>2, WasEarlier
<1>. QED
  BY <1>3 DEF Result, Fits

\* The flag is taken for missing, from a list or an answer.
LEMMA MissingFits ==
    ASSUME Inv, NEW d \in Nat, Was(history, now, "absent", Sent(now, d) - AgeWithin(Ttl))
    PROVE  /\ [kind |-> "missing", body |-> None] \in Result
           /\ Fits(history, now, d, [kind |-> "missing", body |-> None])
<1>1. now \in Nat /\ history \in HistoryOf
  BY Types
<1>2. /\ Sent(now, d) - AgeWithin(Ttl) \in Int
      /\ Sent(now, d) - AgeWithin(Ttl) - AgeWithin(MissingTtl) \in Int
      /\ Sent(now, d) - AgeWithin(Ttl) - AgeWithin(MissingTtl) <= Sent(now, d) - AgeWithin(Ttl)
  BY <1>1, Ages, Numbers DEF Sent
<1>3. Was(history, now, "absent", Sent(now, d) - AgeWithin(Ttl) - AgeWithin(MissingTtl))
  BY <1>1, <1>2, WasEarlier
<1>. QED
  BY <1>3 DEF Result, Fits

\* The flag is remembered as missing.
LEMMA RememberedFits ==
    ASSUME Inv, NEW e \in Missing!Get(missing, Flag, now)
    PROVE  /\ [kind |-> "missing", body |-> None] \in Result
           /\ Fits(history, now, slowest, [kind |-> "missing", body |-> None])
<1>1. /\ now \in Nat /\ history \in HistoryOf /\ slowest \in Nat
      /\ \A i \in DOMAIN missing : missing[i].at \in Nat
  BY Types
<1>2. Ttl # 0 /\ now - e.at < MissingTtl /\ \E i \in DOMAIN missing : e = missing[i]
  BY MissingHits
<1>3. e.at \in Nat /\ e.at <= now /\ Was(history, now, "absent", Sent(e.at, slowest) - AgeWithin(Ttl))
  BY <1>1, <1>2 DEF Inv, Known, KnownMissing
<1>4. /\ Sent(e.at, slowest) - AgeWithin(Ttl) \in Int
      /\ Sent(now, slowest) - AgeWithin(Ttl) - AgeWithin(MissingTtl) \in Int
      /\ Sent(now, slowest) - AgeWithin(Ttl) - AgeWithin(MissingTtl) <= Sent(e.at, slowest) - AgeWithin(Ttl)
  BY <1>1, <1>2, <1>3, Numbers DEF Sent, AgeWithin
<1>5. Was(history, now, "absent", Sent(now, slowest) - AgeWithin(Ttl) - AgeWithin(MissingTtl))
  BY <1>1, <1>3, <1>4, WasEarlier
<1>. QED
  BY <1>5 DEF Result, Fits

\* No answer, or the caller's default.
LEMMA NothingFits ==
    /\ NoResult \in Result /\ \A d : Fits(history, now, d, NoResult)
    /\ \A kind \in {"default", "throws"} :
         /\ [kind |-> kind, body |-> None] \in Result
         /\ \A d : Fits(history, now, d, [kind |-> kind, body |-> None])
  BY SdkAssumption DEF NoResult, Result, Fits

\* A hit in the cache of single flags.
LEMMA SingleFits ==
    ASSUME Inv, NEW k, NEW e
    PROVE  /\ e \in Single!Get(single, k, now) =>
                /\ [kind |-> "value", body |-> e.value] \in Result
                /\ Fits(history, now, slowest, [kind |-> "value", body |-> e.value])
           /\ e \in Single!GetStale(single, k, now) =>
                /\ [kind |-> "stale", body |-> e.value] \in Result
                /\ Fits(history, now, slowest, [kind |-> "stale", body |-> e.value])
<1>1. \A i \in DOMAIN single :
        /\ single[i].at \in Nat /\ single[i].at <= now /\ single[i].value \in FlagState
        /\ Was(history, now, single[i].value, Sent(single[i].at, slowest))
  <2>1. \A i \in DOMAIN single : single[i] \in Entry({"on", "off"}) /\ single[i].at \in Nat
    BY Types
  <2>. QED
    BY <2>1 DEF Inv, Known, KnownSingle, Entry, FlagState
<1>2. ASSUME e \in Single!GetStale(single, k, now)
      PROVE  /\ [kind |-> "stale", body |-> e.value] \in Result
             /\ Fits(history, now, slowest, [kind |-> "stale", body |-> e.value])
  BY <1>1, <1>2, SingleHits, StaleFits, Types
<1>3. ASSUME e \in Single!Get(single, k, now)
      PROVE  /\ [kind |-> "value", body |-> e.value] \in Result
             /\ Fits(history, now, slowest, [kind |-> "value", body |-> e.value])
  BY <1>1, <1>3, SingleHits, FreshFits, Types
<1>. QED
  BY <1>2, <1>3

\* A hit in the cache of lists.
LEMMA BulkFits ==
    ASSUME Inv, NEW k, NEW e
    PROVE  /\ e \in Bulk!Get(bulk, k, now) =>
                /\ [kind |-> "value", body |-> e.value.body] \in Result
                /\ Fits(history, now, slowest, [kind |-> "value", body |-> e.value.body])
                /\ e.value.body = "absent" =>
                     Was(history, now, "absent", Sent(now, slowest) - AgeWithin(Ttl))
           /\ e \in Bulk!GetStale(bulk, k, now) =>
                /\ [kind |-> "stale", body |-> e.value.body] \in Result
                /\ Fits(history, now, slowest, [kind |-> "stale", body |-> e.value.body])
                /\ e.value \in BulkEntry /\ e.value.tag \in {None, e.value.body}
<1>1. \A i \in DOMAIN bulk :
        /\ bulk[i].at \in Nat /\ bulk[i].at <= now
        /\ bulk[i].value \in BulkEntry /\ bulk[i].value.body \in FlagState
        /\ bulk[i].value.tag \in {None, bulk[i].value.body}
        /\ Was(history, now, bulk[i].value.body, Sent(bulk[i].at, slowest))
  <2>1. \A i \in DOMAIN bulk : bulk[i] \in Entry(BulkEntry) /\ bulk[i].at \in Nat
    BY Types
  <2>. QED
    BY <2>1 DEF Inv, Known, KnownBulk, Entry, BulkEntry
<1>2. ASSUME e \in Bulk!GetStale(bulk, k, now)
      PROVE  /\ [kind |-> "stale", body |-> e.value.body] \in Result
             /\ Fits(history, now, slowest, [kind |-> "stale", body |-> e.value.body])
             /\ e.value \in BulkEntry /\ e.value.tag \in {None, e.value.body}
  BY <1>1, <1>2, BulkHits, StaleFits, Types
<1>3. ASSUME e \in Bulk!Get(bulk, k, now)
      PROVE  /\ [kind |-> "value", body |-> e.value.body] \in Result
             /\ Fits(history, now, slowest, [kind |-> "value", body |-> e.value.body])
  BY <1>1, <1>3, BulkHits, FreshFits, Types
<1>4. ASSUME e \in Bulk!Get(bulk, k, now), e.value.body = "absent"
      PROVE  Was(history, now, "absent", Sent(now, slowest) - AgeWithin(Ttl))
  BY <1>3, <1>4 DEF Fits
<1>. QED
  BY <1>2, <1>3, <1>4

-----------------------------------------------------------------------------
\* How a call's step ends.

\* It ends the call, on an answer that has just come or without one.
LEMMA EndsWith ==
    ASSUME Inv, NEW c \in Calls, UNCHANGED <<now, history>>, pausedUntil' \in 0..Horizon + MaxBackoff,
           slowest' \in 0..Horizon, slowest <= slowest',
           SingleKeeps, BulkKeeps, MissingKeeps,
           NEW kind, NEW body, Returns(c, kind, body),
           [kind |-> kind, body |-> body] \in Result,
           Fits(history, now, slowest', [kind |-> kind, body |-> body])
    PROVE  Step(c)
<1>1. Done \in Call(AnyPhase) /\ Done.phase \in Phase
  BY DoneCall DEF AnyPhase, Call, Phase
<1>2. StepTo(c, Done)
  BY <1>1, DoneCall DEF StepTo, Returns
<1>. QED
  BY <1>2 DEF Step

\* It ends the call, and no request with it.
LEMMA Ends ==
    ASSUME Inv, NEW c \in Calls, UNCHANGED <<now, history, slowest>>, pausedUntil' \in 0..Horizon + MaxBackoff,
           SingleKeeps, BulkKeeps, MissingKeeps,
           NEW kind, NEW body, Returns(c, kind, body),
           [kind |-> kind, body |-> body] \in Result,
           Fits(history, now, slowest, [kind |-> kind, body |-> body])
    PROVE  Step(c)
<1>1. slowest' = slowest /\ slowest' \in 0..Horizon /\ slowest <= slowest'
  BY Types
<1>2. Fits(history, now, slowest', [kind |-> kind, body |-> body])
  BY <1>1
<1>. QED
  BY <1>1, <1>2, EndsWith

\* It goes on.
LEMMA GoesOn ==
    ASSUME Inv, NEW c \in Calls, UNCHANGED <<now, history, slowest>>, pausedUntil' \in 0..Horizon + MaxBackoff,
           SingleKeeps, BulkKeeps, MissingKeeps,
           NEW call \in Call(AnyPhase), Becomes(c, call), runtime = "javascript" => call.phase \in Phase,
           Told(history, now, call), Timely(history, now, slowest, call), Asked(single', bulk', now, call)
    PROVE  Step(c)
<1>1. /\ slowest' \in 0..Horizon /\ slowest <= slowest'
      /\ Timely(history, now, slowest', call)
  BY Types
<1>2. StepTo(c, call)
  BY <1>1, NothingFits DEF StepTo, Becomes
<1>. QED
  BY <1>2 DEF Step

\* Where nothing fresh was found, nothing is missed later.
LEMMA NoFreshSingle ==
    ASSUME Inv, NEW call, call.since = now, Single!Get(single, call.ctx, now) = {},
           Within(single', single)
    PROVE  \A i \in DOMAIN single' : single'[i].key = call.ctx => NotMissed(single'[i], call)
<1>1. now \in Nat /\ \A i \in DOMAIN single : single[i].at \in Nat /\ single[i].at <= now
  BY Types DEF Inv, Known, KnownSingle
<1>2. ASSUME NEW i \in DOMAIN single, single[i].key = call.ctx
      PROVE  NotMissed(single[i], call)
  <2>1. Ttl = 0 \/ ~(now - single[i].at < Ttl + StaleTtl) \/ ~(now - single[i].at < Ttl)
    BY <1>2, SingleHits
  <2>2. now - single[i].at >= Ttl
    BY <1>1, <2>1, Numbers
  <2>. QED
    BY <2>2 DEF NotMissed
<1>. QED
  BY <1>2 DEF Within

\* The same of the bulk cache.
LEMMA NoFreshBulk ==
    ASSUME Inv, NEW call, call.since = now, Bulk!Get(bulk, call.ctx, now) = {},
           Within(bulk', bulk)
    PROVE  \A i \in DOMAIN bulk' : bulk'[i].key = call.ctx => NotMissed(bulk'[i], call)
<1>1. now \in Nat /\ \A i \in DOMAIN bulk : bulk[i].at \in Nat /\ bulk[i].at <= now
  BY Types DEF Inv, Known, KnownBulk
<1>2. ASSUME NEW i \in DOMAIN bulk, bulk[i].key = call.ctx
      PROVE  NotMissed(bulk[i], call)
  <2>1. Ttl = 0 \/ ~(now - bulk[i].at < Ttl + StaleTtl) \/ ~(now - bulk[i].at < Ttl)
    BY <1>2, BulkHits
  <2>2. now - bulk[i].at >= Ttl
    BY <1>1, <2>1, Numbers
  <2>. QED
    BY <2>2 DEF NotMissed
<1>. QED
  BY <1>2 DEF Within

\* What a call is when it begins.
LEMMA BegunCall ==
    ASSUME Inv, NEW op \in {"isEnabled", "getAllFeatures"}, NEW ctx \in Contexts, NEW phase \in AnyPhase
    PROVE  /\ [Begun(op, ctx) EXCEPT !.phase = phase] \in Call(AnyPhase)
           /\ [Begun(op, ctx) EXCEPT !.phase = phase].since = now
           /\ [Begun(op, ctx) EXCEPT !.phase = phase].phase = phase
           /\ [Begun(op, ctx) EXCEPT !.phase = phase].op = op
           /\ [Begun(op, ctx) EXCEPT !.phase = phase].ctx = ctx
           /\ [Begun(op, ctx) EXCEPT !.phase = phase].previous = None
  BY Types, Numbers DEF Begun, Waiting, NoAnswer, Call

-----------------------------------------------------------------------------
\* The JavaScript SDK's steps.

LEMMA IsEnabledStep ==
    ASSUME Inv, NEW c \in Calls, NEW ctx \in Contexts, IsEnabled(c, ctx)
    PROVE  Step(c)
<1>. DEFINE known == Missing!Get(missing, Flag, now)
            cached == Single!Get(single, ctx, now)
            listed == Bulk!Get(bulk, ctx, now)
<1>1. UNCHANGED <<now, history, pausedUntil, slowest>> /\ pausedUntil' \in 0..Horizon + MaxBackoff
  BY Types DEF IsEnabled
<1>2. CASE known # {} /\ Returns(c, "missing", None) /\ UNCHANGED caches
  <2>1. SingleKeeps /\ BulkKeeps /\ MissingKeeps
    BY <1>2, Untouched DEF caches
  <2>2. PICK e : e \in known
    BY <1>2
  <2>. QED
    BY <1>1, <1>2, <2>1, <2>2, RememberedFits, Ends
<1>3. ASSUME NEW e \in cached, Returns(c, "value", e.value),
             missing' = Missing!Purged(missing, Flag, now), UNCHANGED <<single, bulk>>
      PROVE  Step(c)
  <2>1. SingleKeeps /\ BulkKeeps /\ MissingKeeps
    BY <1>3, Untouched, MissingOnlyPurged
  <2>. QED
    BY <1>1, <1>3, <2>1, SingleFits, Ends
<1>4. ASSUME NEW e \in listed,
             IF e.value.body = "absent"
               THEN /\ missing' = Missing!Put(missing, Flag, "absent", now)
                    /\ Returns(c, "missing", None)
               ELSE /\ missing' = Missing!Purged(missing, Flag, now)
                    /\ Returns(c, "value", e.value.body),
             single' = Single!Purged(single, ctx, now), UNCHANGED bulk
      PROVE  Step(c)
  <2>1. SingleKeeps /\ BulkKeeps
    BY <1>4, Untouched, SingleOnlyPurged
  <2>2. CASE e.value.body = "absent"
    <3>1. /\ Was(history, now, "absent", Sent(now, slowest) - AgeWithin(Ttl))
          /\ slowest' = slowest /\ slowest \in Nat
      BY <1>1, <2>2, BulkFits, Types
    <3>2. MissingKeeps
      <4>1. Was(history, now, "absent", Sent(now, slowest') - AgeWithin(Ttl))
        BY <3>1
      <4>2. missing' = Missing!Put(missing, Flag, "absent", now)
        BY <1>4, <2>2
      <4>. QED
        BY <4>1, <4>2, MissingPut
    <3>. QED
      BY <1>1, <1>4, <2>1, <2>2, <3>1, <3>2, MissingFits, Ends
  <2>3. CASE e.value.body # "absent"
    <3>1. MissingKeeps
      BY <1>4, <2>3, MissingOnlyPurged
    <3>. QED
      BY <1>1, <1>4, <2>1, <2>3, <3>1, BulkFits, Ends
  <2>. QED
    BY <2>2, <2>3
<1>5. ASSUME cached = {}, listed = {}, Becomes(c, Send(Begun("isEnabled", ctx))),
             missing' = Missing!Purged(missing, Flag, now),
             single' = Single!Purged(single, ctx, now), bulk' = Bulk!Purged(bulk, ctx, now)
      PROVE  Step(c)
  <2>1. /\ SingleKeeps /\ BulkKeeps /\ MissingKeeps
        /\ Within(single', single) /\ Within(bulk', bulk)
    BY <1>5, SingleOnlyPurged, BulkOnlyPurged, MissingOnlyPurged
  <2>2. PICK phase \in {"sent", "suppressed"} :
          Send(Begun("isEnabled", ctx)) = [Begun("isEnabled", ctx) EXCEPT !.phase = phase]
    BY DEF Send
  <2>3. PICK call : call = Send(Begun("isEnabled", ctx))
    OBVIOUS
  <2>4. phase \in AnyPhase /\ phase \in Phase
    BY DEF AnyPhase, Phase
  <2>5. /\ call \in Call(AnyPhase) /\ call.since = now /\ call.phase = phase
        /\ call.op = "isEnabled" /\ call.ctx = ctx /\ call.previous = None
    <3>1. "isEnabled" \in {"isEnabled", "getAllFeatures"}
      OBVIOUS
    <3>2. call = [Begun("isEnabled", ctx) EXCEPT !.phase = phase]
      BY <2>2, <2>3
    <3>. QED
      BY ONLY Inv, ctx \in Contexts, <2>4, <3>1, <3>2, BegunCall
  <2>6. Told(history, now, call)
    BY <2>5 DEF Told
  <2>7. Timely(history, now, slowest, call)
    BY <2>5, Types, Numbers DEF Timely, Requested, Early
  <2>8. Asked(single', bulk', now, call)
    <3>1. \A i \in DOMAIN single' : single'[i].key = call.ctx => NotMissed(single'[i], call)
      BY <1>5, <2>1, <2>5, NoFreshSingle
    <3>2. \A i \in DOMAIN bulk' : bulk'[i].key = call.ctx => NotMissed(bulk'[i], call)
      BY <1>5, <2>1, <2>5, NoFreshBulk
    <3>. QED
      BY <2>5, <3>1, <3>2 DEF Asked
  <2>. QED
    BY <1>1, <1>5, <2>1, <2>3, <2>4, <2>5, <2>6, <2>7, <2>8, GoesOn
<1>. QED
  BY <1>2, <1>3, <1>4, <1>5 DEF IsEnabled

\* A list that is expired is the only one of its key.
LEMMA StaleIsAlone ==
    ASSUME Inv, NEW k, NEW e \in Bulk!GetStale(bulk, k, now)
    PROVE  Bulk!Get(bulk, k, now) = {}
<1>1. \A i, j \in DOMAIN bulk : bulk[i].key = bulk[j].key => i = j
  BY Types DEF OneOfEach
<1>2. \A f \in Bulk!Get(bulk, k, now) : f = e
  BY <1>1, BulkHits
<1>. QED
  BY <1>2 DEF Bulk!GetStale

\* getAllFeatures is a step of its call.
LEMMA GetAllFeaturesStep ==
    ASSUME Inv, NEW c \in Calls, NEW ctx \in Contexts, GetAllFeatures(c, ctx)
    PROVE  Step(c)
<1>. DEFINE cached == Bulk!Get(bulk, ctx, now)
            call0 == Begun("getAllFeatures", ctx)
<1>1. /\ UNCHANGED <<now, history, pausedUntil, slowest>> /\ pausedUntil' \in 0..Horizon + MaxBackoff
      /\ UNCHANGED <<single, missing>> /\ bulk' = Bulk!Purged(bulk, ctx, now)
  BY Types DEF GetAllFeatures
<1>2. SingleKeeps /\ BulkKeeps /\ MissingKeeps /\ Within(bulk', bulk)
  BY <1>1, Untouched, BulkOnlyPurged
<1>3. ASSUME NEW e \in cached, Returns(c, "value", e.value.body)
      PROVE  Step(c)
  BY <1>1, <1>2, <1>3, BulkFits, Ends
<1>4. ASSUME cached = {}, NEW call, Becomes(c, call), NEW previous \in BulkEntry \cup {None},
             previous # None => previous.tag \in {None, previous.body},
             \/ call = Send([call0 EXCEPT !.previous = previous])
             \/ previous = None /\ call = Send(call0)
      PROVE  Step(c)
  <2>1. PICK phase \in {"sent", "suppressed"} :
          \/ call = [[call0 EXCEPT !.previous = previous] EXCEPT !.phase = phase]
          \/ previous = None /\ call = [call0 EXCEPT !.phase = phase]
    BY <1>4 DEF Send
  <2>2. phase \in AnyPhase /\ phase \in Phase
    BY DEF AnyPhase, Phase
  <2>3. /\ call \in Call(AnyPhase) /\ call.since = now /\ call.phase = phase
        /\ call.op = "getAllFeatures" /\ call.ctx = ctx /\ call.previous = previous
    <3>1. "getAllFeatures" \in {"isEnabled", "getAllFeatures"}
      OBVIOUS
    <3>2. CASE call = [[call0 EXCEPT !.previous = previous] EXCEPT !.phase = phase]
      <4>1. PICK base : base = [call0 EXCEPT !.previous = previous]
        OBVIOUS
      <4>2. call0 \in Call({"waiting"}) /\ call0.since = now /\ call0.op = "getAllFeatures" /\ call0.ctx = ctx
        BY Types, Numbers DEF Begun, Waiting, NoAnswer, Call
      <4>3. /\ base.since = now /\ base.op = "getAllFeatures" /\ base.ctx = ctx
            /\ base.previous = previous
        BY <4>1, <4>2 DEF Call
      <4>4. base \in Call({"waiting"})
        BY <4>1, <4>2 DEF Call
      <4>5. call = [base EXCEPT !.phase = phase]
        BY <3>2, <4>1
      <4>. QED
        BY <2>2, <4>5, <4>3, <4>4 DEF Call
    <3>3. CASE previous = None /\ call = [call0 EXCEPT !.phase = phase]
      BY ONLY Inv, ctx \in Contexts, <2>2, <3>1, <3>3, BegunCall
    <3>. QED
      BY <2>1, <3>2, <3>3
  <2>4. Told(history, now, call)
    BY <1>4, <2>3 DEF Told
  <2>5. Timely(history, now, slowest, call)
    BY <2>3, Types, Numbers DEF Timely, Requested, Early
  <2>6. \A i \in DOMAIN bulk' : bulk'[i].key = call.ctx => NotMissed(bulk'[i], call)
    BY <1>2, <1>4, <2>3, NoFreshBulk
  <2>7. Asked(single', bulk', now, call)
    BY <2>3, <2>6 DEF Asked
  <2>. QED
    BY <1>1, <1>2, <1>4, <2>2, <2>3, <2>4, <2>5, <2>7, GoesOn
<1>5. ASSUME cached = {}, Becomes(c, Send(call0))
      PROVE  Step(c)
  BY <1>4, <1>5
<1>6. ASSUME NEW e \in Bulk!GetStale(bulk, ctx, now), Becomes(c, Send([call0 EXCEPT !.previous = e.value]))
      PROVE  Step(c)
  <2>1. e.value \in BulkEntry /\ e.value.tag \in {None, e.value.body}
    BY BulkFits
  <2>2. cached = {}
    BY StaleIsAlone
  <2>. QED
    BY <1>4, <1>6, <2>1, <2>2
<1>. QED
  BY <1>3, <1>5, <1>6 DEF GetAllFeatures

\* A call that is waiting for its request has new fields and the same promises.
LEMMA AnswerStep ==
    ASSUME Inv, NEW c \in Calls, Answer(c)
    PROVE  Step(c)
<1>. DEFINE old == calls[c]
<1>1. /\ old.phase = "sent" /\ UNCHANGED <<now, history, caches, pausedUntil, slowest>>
      /\ single' = single /\ bulk' = bulk /\ missing' = missing
      /\ pausedUntil' \in 0..Horizon + MaxBackoff
      /\ now \in Nat /\ history \in HistoryOf
  BY Types DEF Answer, caches
<1>2. PICK i \in DOMAIN history :
        /\ Until(i) >= now - ServerLag
        /\ \E a \in Evaluated(old, history[i].state) :
             Becomes(c, [old EXCEPT !.phase = "answered", !.answer = a])
  BY DEF Answer
<1>3. PICK a \in Evaluated(old, history[i].state) :
        Becomes(c, [old EXCEPT !.phase = "answered", !.answer = a])
  BY <1>2
<1>4. /\ old \in Call(AnyPhase) /\ old.since \in Nat
      /\ old.previous \in BulkEntry \cup {None}
      /\ Told(history, now, old) /\ Timely(history, now, slowest, old)
      /\ Asked(single, bulk, now, old)
      /\ old.since <= now /\ old.ctx \in Contexts /\ old.op \in {"isEnabled", "getAllFeatures"}
  BY <1>1, CallFacts DEF Outside
<1>5. PICK x \in FlagState : x = history[i].state
  <2>1. history \in Seq([state: FlagState, since: 0..Horizon])
    BY <1>1 DEF HistoryOf
  <2>2. history[i] \in [state: FlagState, since: 0..Horizon]
    <3>1. i \in 1..Len(history)
      BY <2>1
    <3>. QED
      BY <2>1, <3>1, ElementOfSeq
  <2>3. history[i].state \in FlagState
    BY <2>2
  <2>. QED
    BY <2>3
<1>6. Was(history, now, x, old.since - ServerLag)
  <2>1. Was(history, now, x, now - ServerLag)
    BY <1>2, <1>5 DEF Was, Until
  <2>. QED
    BY <1>1, <1>4, <2>1, WasEarlier, Numbers
<1>7. SingleKeeps /\ BulkKeeps /\ MissingKeeps
  BY <1>1, Untouched
<1>8. /\ a \in [status: Status \cup {None}, body: FlagState \cup {None}, tag: FlagState \cup {None}]
      /\ \/ /\ old.op = "isEnabled" /\ a.status = "ok" /\ a.body \in {"on", "off"} /\ a.body = x
         \/ old.op = "isEnabled" /\ a.status = "notFound" /\ x = "absent"
         \/ old.op = "getAllFeatures" /\ a.status = "ok" /\ a.body = x /\ a.tag = x
         \/ /\ old.op = "getAllFeatures" /\ a.status = "unchanged"
            /\ old.previous # None /\ old.previous.tag = x /\ a.tag \in {None, x}
  <2>1. CASE old.op = "isEnabled" /\ x = "absent"
    <3>1. a = [NoAnswer EXCEPT !.status = "notFound"]
      BY <1>5, <2>1 DEF Evaluated
    <3>. QED
      BY <2>1, <3>1 DEF NoAnswer, Status
  <2>2. CASE old.op = "isEnabled" /\ x # "absent"
    <3>1. a = [NoAnswer EXCEPT !.status = "ok", !.body = x]
      BY <1>5, <2>2 DEF Evaluated
    <3>. QED
      BY <2>2, <3>1 DEF NoAnswer, Status, FlagState
  <2>3. CASE old.op # "isEnabled" /\ old.previous # None /\ old.previous.tag = x
    <3>1. PICK t \in {x, None} : a = [NoAnswer EXCEPT !.status = "unchanged", !.tag = t]
      BY <1>5, <2>3 DEF Evaluated, EtagFor
    <3>. QED
      BY <1>4, <2>3, <3>1 DEF NoAnswer, Status, FlagState
  <2>4. CASE old.op # "isEnabled" /\ ~(old.previous # None /\ old.previous.tag = x)
    <3>1. a = [NoAnswer EXCEPT !.status = "ok", !.body = x, !.tag = x]
      BY <1>5, <2>4 DEF Evaluated, EtagFor
    <3>. QED
      BY <1>4, <2>4, <3>1 DEF NoAnswer, Status, FlagState
  <2>. QED
    BY <2>1, <2>2, <2>3, <2>4
<1>9. PICK call : call = [old EXCEPT !.phase = "answered", !.answer = a]
  OBVIOUS
<1>10. /\ call.phase = "answered" /\ call.answer = a /\ call.op = old.op /\ call.ctx = old.ctx
      /\ call.since = old.since /\ call.previous = old.previous
  BY <1>4, <1>9 DEF Call
<1>11. call \in Call(AnyPhase) /\ call.phase \in Phase
  BY <1>4, <1>8, <1>9 DEF Call, AnyPhase, Phase
<1>12. Told(history, now, call)
  <2>1. call.previous # None => call.previous.tag \in {None, call.previous.body}
    BY <1>4, <1>10 DEF Told
  <2>2. call.previous # None /\ call.previous.tag = x => call.previous.body = x
    BY <2>1, SdkAssumption DEF FlagState
  <2>. QED
    BY <1>6, <1>8, <1>10, <2>1, <2>2 DEF Told
<1>13. Timely(history, now, slowest, call)
  BY <1>1, <1>4, <1>10 DEF Timely, Requested, Early
<1>14. Asked(single', bulk', now, call)
  BY <1>1, <1>4, <1>10 DEF Asked, AskedSingle, AskedBulk, NotMissed
<1>. QED
  BY <1>1, <1>3, <1>7, <1>9, <1>11, <1>12, <1>13, <1>14, GoesOn

\* The answer of a request that took no longer than d is as recent as the request.
LEMMA InTime ==
    ASSUME Inv, NEW c \in Calls, calls[c].phase = "answered", NEW x,
           NEW d \in Nat, now - calls[c].since <= d,
           Was(history, now, x, calls[c].since - ServerLag)
    PROVE  /\ Was(history, now, x, Sent(now, d))
           /\ Was(history, now, x, Sent(now, d) - AgeWithin(Ttl))
<1>1. now \in Nat /\ history \in HistoryOf
  BY Types
<1>2. calls[c].since \in Nat
  BY CallFacts
<1>3. /\ Sent(now, d) \in Int /\ calls[c].since - ServerLag \in Int
      /\ Sent(now, d) <= calls[c].since - ServerLag
      /\ Sent(now, d) - AgeWithin(Ttl) \in Int /\ Sent(now, d) - AgeWithin(Ttl) <= calls[c].since - ServerLag
  BY <1>1, <1>2, Numbers, Ages DEF Sent
<1>. QED
  BY <1>1, <1>3, WasEarlier

\* A response received is a step of its call.
LEMMA ReceiveStep ==
    ASSUME Inv, NEW c \in Calls, Receive(c)
    PROVE  Step(c)
<1>. DEFINE call == calls[c]
            a == call.answer
<1>1. /\ call.phase = "answered" /\ UNCHANGED <<now, history, pausedUntil>>
      /\ pausedUntil' \in 0..Horizon + MaxBackoff
      /\ slowest' \in 0..Horizon /\ slowest' \in Nat /\ slowest <= slowest'
      /\ now - call.since <= slowest'
  <2>1. /\ call.phase = "answered" /\ UNCHANGED <<now, history, pausedUntil>>
        /\ slowest' = Longer(slowest, now - call.since)
    BY DEF Receive
  <2>2. call.since \in Nat /\ call.since <= now
    BY <2>1, CallFacts DEF Outside
  <2>3. /\ now \in 0..Horizon /\ slowest \in 0..Horizon
        /\ pausedUntil \in 0..Horizon + MaxBackoff
    BY Types
  <2>. QED
    BY <2>1, <2>2, <2>3, Numbers DEF Longer
<1>2. /\ call.previous \in BulkEntry \cup {None}
      /\ Told(history, now, call)
      /\ call.ctx \in Contexts
  BY <1>1, CallFacts DEF Outside
<1>3. ASSUME a.status = "ok", call.op = "isEnabled",
             single' = Single!Put(single, call.ctx, a.body, now),
             Returns(c, "value", a.body), UNCHANGED <<bulk, missing>>
      PROVE  Step(c)
  <2>1. a.body \in {"on", "off"} /\ Was(history, now, a.body, call.since - ServerLag)
    BY <1>1, <1>2, <1>3 DEF Told
  <2>2. Was(history, now, a.body, Sent(now, slowest'))
    BY <1>1, <2>1, InTime
  <2>3. SingleKeeps /\ BulkKeeps /\ MissingKeeps
    BY <1>2, <1>3, <2>1, <2>2, SinglePut, Untouched
  <2>4. a.body \in FlagState
    BY <2>1 DEF FlagState
  <2>. QED
    BY <1>1, <1>3, <2>2, <2>3, <2>4, FetchedFits, EndsWith
<1>4. ASSUME a.status = "notFound", missing' = Missing!Put(missing, Flag, "absent", now),
             Returns(c, "missing", None), UNCHANGED <<single, bulk>>
      PROVE  Step(c)
  <2>1. Was(history, now, "absent", call.since - ServerLag)
    BY <1>1, <1>2, <1>4 DEF Told
  <2>2. Was(history, now, "absent", Sent(now, slowest') - AgeWithin(Ttl))
    BY <1>1, <2>1, InTime
  <2>3. SingleKeeps /\ BulkKeeps /\ MissingKeeps
    BY <1>4, <2>2, MissingPut, Untouched
  <2>. QED
    BY <1>1, <1>4, <2>2, <2>3, MissingFits, EndsWith
<1>5. ASSUME a.status \in {"ok", "unchanged"}, call.op = "getAllFeatures",
             bulk' = Bulk!Put(bulk, call.ctx, Revalidated(call), now),
             Returns(c, "value", Revalidated(call).body), UNCHANGED <<single, missing>>
      PROVE  Step(c)
  <2>1. PICK entry : entry = Revalidated(call)
    OBVIOUS
  <2>2. /\ entry \in BulkEntry /\ entry.tag \in {None, entry.body}
        /\ Was(history, now, entry.body, call.since - ServerLag)
    <3>1. CASE a.status = "unchanged"
      <4>1. /\ call.previous # None /\ call.previous.tag = call.previous.body
            /\ a.tag \in {None, call.previous.body}
            /\ Was(history, now, call.previous.body, call.since - ServerLag)
        BY <1>1, <1>2, <1>5, <3>1 DEF Told
      <4>2. call.previous.body \in FlagState
        BY <1>2, <4>1 DEF BulkEntry
      <4>3. entry = [body |-> call.previous.body, tag |-> call.previous.body]
        BY <2>1, <3>1, <4>1 DEF Revalidated
      <4>. QED
        BY <4>1, <4>2, <4>3 DEF BulkEntry
    <3>2. CASE a.status = "ok"
      <4>1. /\ a.body \in FlagState /\ a.tag = a.body
            /\ Was(history, now, a.body, call.since - ServerLag)
        BY <1>1, <1>2, <1>5, <3>2 DEF Told
      <4>2. entry = [body |-> a.body, tag |-> a.tag]
        BY <2>1, <3>2 DEF Revalidated
      <4>. QED
        BY <4>1, <4>2 DEF BulkEntry
    <3>. QED
      BY <1>5, <3>1, <3>2
  <2>3. Was(history, now, entry.body, Sent(now, slowest')) /\ entry.body \in FlagState
    BY <1>1, <2>2, InTime DEF BulkEntry
  <2>4. SingleKeeps /\ BulkKeeps /\ MissingKeeps
    BY <1>2, <1>5, <2>1, <2>2, <2>3, BulkPut, Untouched
  <2>. QED
    BY <1>1, <1>5, <2>1, <2>3, <2>4, FetchedFits, EndsWith
<1>. QED
  BY <1>3, <1>4, <1>5 DEF Receive

\* A request that fails ends the call, on what the caches still have.
LEMMA CatchStep ==
    ASSUME Inv, NEW c \in Calls, NEW status, Catch(c, status),
           pausedUntil' \in 0..Horizon + MaxBackoff
    PROVE  Step(c)
<1>. DEFINE call == calls[c]
            stale == IF call.op = "isEnabled" THEN Single!GetStale(single, call.ctx, now) ELSE {}
            list == {e \in Bulk!GetStale(bulk, call.ctx, now) :
                       call.op = "isEnabled" => e.value.body # "absent"}
<1>1. UNCHANGED <<now, history, slowest>> /\ SingleKeeps /\ BulkKeeps /\ MissingKeeps
  <2>1. UNCHANGED <<now, history, slowest, missing>>
    BY DEF Catch
  <2>2. single' = single \/ single' = Single!Purged(single, call.ctx, now)
    BY DEF Catch
  <2>3. bulk' = bulk \/ bulk' = Bulk!Purged(bulk, call.ctx, now)
    BY DEF Catch
  <2>. QED
    BY <2>1, <2>2, <2>3, Untouched, SingleOnlyPurged, BulkOnlyPurged
<1>2. ASSUME NEW e \in stale, Returns(c, "stale", e.value) PROVE Step(c)
  BY <1>1, <1>2, SingleFits, Ends
<1>3. ASSUME NEW e \in list, Returns(c, "stale", e.value.body) PROVE Step(c)
  BY <1>1, <1>3, BulkFits, Ends
<1>4. ASSUME NEW kind \in {"throws", "default"}, Returns(c, kind, None) PROVE Step(c)
  BY <1>1, <1>4, NothingFits, Ends
<1>. QED
  BY <1>2, <1>3, <1>4 DEF Catch

\* A pause lasts at most MaxBackoff.
LEMMA Pauses ==
    ASSUME Inv, NEW header \in RetryAfters
    PROVE  now + ParseRetryAfter(header) \in 0..Horizon + MaxBackoff
<1>1. now \in 0..Horizon
  BY Types
<1>2. header = None \/ header \in Int
  BY SdkAssumption
<1>3. ParseRetryAfter(header) \in 0..MaxBackoff
  BY <1>2, Numbers DEF ParseRetryAfter, Clamp
<1>. QED
  BY <1>1, <1>3, Numbers

\* A call of which only the phase changes.
LEMMA Rephased ==
    ASSUME NEW old \in Call(AnyPhase), NEW to \in AnyPhase, NEW call, call = [old EXCEPT !.phase = to]
    PROVE  /\ call \in Call(AnyPhase) /\ call.phase = to /\ call.op = old.op /\ call.ctx = old.ctx
           /\ call.since = old.since /\ call.previous = old.previous
  BY DEF Call

\* A 429 that has come without its body leaves the call waiting for it.
LEMMA RateLimitedStep ==
    ASSUME Inv, NEW c \in Calls, RateLimited(c)
    PROVE  Step(c)
<1>. DEFINE old == calls[c]
<1>1. /\ old.phase = "sent" /\ UNCHANGED <<now, history, caches, slowest>>
      /\ pausedUntil' \in 0..Horizon + MaxBackoff
      /\ Becomes(c, [old EXCEPT !.phase = "limited"])
  BY Pauses DEF RateLimited
<1>2. /\ old \in Call(AnyPhase) /\ Told(history, now, old) /\ Timely(history, now, slowest, old)
      /\ Asked(single, bulk, now, old)
  BY CallFacts
<1>3. PICK call : call = [old EXCEPT !.phase = "limited"]
  OBVIOUS
<1>4. "limited" \in AnyPhase /\ "limited" \in Phase
  BY DEF AnyPhase, Phase
<1>5. /\ call \in Call(AnyPhase) /\ call.phase = "limited" /\ call.op = old.op /\ call.ctx = old.ctx
      /\ call.since = old.since /\ call.previous = old.previous
  BY <1>2, <1>3, <1>4, Rephased
<1>6. SingleKeeps /\ BulkKeeps /\ MissingKeeps /\ single' = single /\ bulk' = bulk
  BY <1>1, Untouched DEF caches
<1>7. Told(history, now, call)
  BY <1>2, <1>5 DEF Told
<1>8. Timely(history, now, slowest, call)
  BY <1>1, <1>2, <1>5 DEF Timely, Outside, Early
<1>9. Asked(single', bulk', now, call)
  BY <1>1, <1>2, <1>5, <1>6 DEF Asked, AskedSingle, AskedBulk, NotMissed
<1>. QED
  BY <1>1, <1>3, <1>4, <1>5, <1>6, <1>7, <1>8, <1>9, GoesOn

\* Every action of the JavaScript client is a step of a call.
LEMMA ClientStep ==
    ASSUME Inv, NEW c \in Calls,
           \/ \E ctx \in Contexts : IsEnabled(c, ctx) \/ GetAllFeatures(c, ctx)
           \/ Answer(c) \/ Receive(c)
           \/ Suppressed(c) \/ Refused(c) \/ RateLimited(c) \/ Limited(c) \/ Breaks(c)
    PROVE  Step(c)
<1>1. CASE Suppressed(c) \/ Refused(c) \/ Limited(c) \/ Breaks(c)
  BY <1>1, CatchStep, Types DEF Suppressed, Refused, Limited, Breaks
<1>. QED
  BY <1>1, IsEnabledStep, GetAllFeaturesStep, AnswerStep, ReceiveStep, RateLimitedStep

-----------------------------------------------------------------------------
\* The Python SDK's steps.

\* A thread goes from one phase to the next.
LEMMA Moved ==
    ASSUME Inv, NEW c \in Calls, runtime = "python", UNCHANGED <<now, history, pausedUntil, slowest>>,
           SingleKeeps, BulkKeeps, MissingKeeps,
           NEW from, NEW to \in AnyPhase, to # "answered", Moves(c, from, to),
           NEW call, call = [calls[c] EXCEPT !.phase = to],
           Timely(history, now, slowest, call), Asked(single', bulk', now, call)
    PROVE  Step(c)
<1>1. calls[c] \in Call(AnyPhase) /\ Told(history, now, calls[c])
  BY CallFacts
<1>2. call \in Call(AnyPhase) /\ call.phase = to /\ call.previous = calls[c].previous
  BY <1>1, Rephased
<1>3. Told(history, now, call)
  BY <1>1, <1>2 DEF Told
<1>4. Becomes(c, call) /\ pausedUntil' \in 0..Horizon + MaxBackoff
  BY Types DEF Moves
<1>. QED
  BY <1>2, <1>3, <1>4, GoesOn

\* A call that begins in a thread is a step of it.
LEMMA BeginThreadStep ==
    ASSUME Inv, NEW c \in Calls, runtime = "python", NEW op \in {"isEnabled", "getAllFeatures"},
           NEW ctx \in Contexts, BeginThread(c, op, ctx)
    PROVE  Step(c)
<1>1. PICK phase \in {"missing", "list"} :
        /\ phase = (IF op = "isEnabled" THEN "missing" ELSE "list")
        /\ Becomes(c, [Begun(op, ctx) EXCEPT !.phase = phase])
  BY DEF BeginThread
<1>2. phase \in AnyPhase
  BY DEF AnyPhase, Running
<1>3. PICK call : call = [Begun(op, ctx) EXCEPT !.phase = phase]
  OBVIOUS
<1>4. /\ call \in Call(AnyPhase) /\ call.since = now /\ call.phase = phase
      /\ call.op = op /\ call.ctx = ctx /\ call.previous = None
  BY <1>2, <1>3, BegunCall
<1>5. /\ UNCHANGED <<now, history, slowest>> /\ pausedUntil' \in 0..Horizon + MaxBackoff
      /\ SingleKeeps /\ BulkKeeps /\ MissingKeeps
  BY Types, Untouched DEF BeginThread, caches
<1>6. Told(history, now, call) /\ Timely(history, now, slowest, call) /\ Asked(single', bulk', now, call)
  BY <1>1, <1>4, Types DEF Told, Timely, Requested, Early, Asked, AskedSingle, AskedBulk
<1>. QED
  BY <1>1, <1>3, <1>4, <1>5, <1>6, GoesOn

\* _cache_missing.get is a step of its call.
LEMMA LookMissingStep ==
    ASSUME Inv, NEW c \in Calls, runtime = "python", LookMissing(c)
    PROVE  Step(c)
<1>1. /\ calls[c].phase = "missing" /\ UNCHANGED <<now, history, single, bulk, pausedUntil, slowest>>
      /\ SingleKeeps /\ BulkKeeps /\ MissingKeeps /\ pausedUntil' \in 0..Horizon + MaxBackoff
  BY Types, Untouched, MissingOnlyPurged DEF LookMissing
<1>2. ASSUME NEW e \in Missing!Get(missing, Flag, now), Returns(c, "missing", None)
      PROVE  Step(c)
  BY <1>1, <1>2, RememberedFits, Ends
<1>3. CASE Moves(c, "missing", "single")
  <2>1. PICK call : call = [calls[c] EXCEPT !.phase = "single"]
    OBVIOUS
  <2>2. /\ "single" \in AnyPhase /\ calls[c] \in Call(AnyPhase) /\ Timely(history, now, slowest, calls[c])
    BY CallFacts DEF AnyPhase, Running
  <2>3. /\ call.phase = "single" /\ call.op = calls[c].op /\ call.ctx = calls[c].ctx
        /\ call.since = calls[c].since
    BY <2>1, <2>2, Rephased
  <2>4. Timely(history, now, slowest, call) /\ Asked(single', bulk', now, call)
    BY <1>1, <2>2, <2>3 DEF Timely, Outside, Requested, Early, Asked, AskedSingle, AskedBulk
  <2>. QED
    BY <1>1, <1>3, <2>1, <2>2, <2>4, Moved
<1>. QED
  BY <1>2, <1>3 DEF LookMissing

\* _cache_single.get is a step of its call.
LEMMA LookSingleStep ==
    ASSUME Inv, NEW c \in Calls, runtime = "python", LookSingle(c)
    PROVE  Step(c)
<1>. DEFINE cached == Single!Get(single, calls[c].ctx, now)
<1>1. /\ calls[c].phase = "single" /\ UNCHANGED <<now, history, bulk, missing, pausedUntil, slowest>>
      /\ SingleKeeps /\ BulkKeeps /\ MissingKeeps /\ pausedUntil' \in 0..Horizon + MaxBackoff
      /\ Within(single', single)
  BY Types, Untouched, SingleOnlyPurged DEF LookSingle
<1>2. ASSUME NEW e \in cached, Returns(c, "value", e.value)
      PROVE  Step(c)
  BY <1>1, <1>2, SingleFits, Ends
<1>3. ASSUME cached = {}, Moves(c, "single", "bulk")
      PROVE  Step(c)
  <2>1. PICK call : call = [calls[c] EXCEPT !.phase = "bulk"]
    OBVIOUS
  <2>2. /\ "bulk" \in AnyPhase /\ calls[c] \in Call(AnyPhase) /\ Timely(history, now, slowest, calls[c])
    BY CallFacts DEF AnyPhase, Running
  <2>3. /\ call.phase = "bulk" /\ call.op = calls[c].op /\ call.ctx = calls[c].ctx
        /\ call.since = calls[c].since /\ calls[c].since = now
    BY <1>1, <2>1, <2>2, Rephased DEF Timely, Early
  <2>4. Timely(history, now, slowest, call)
    BY <1>1, <2>2, <2>3 DEF Timely, Outside, Requested, Early
  <2>5. \A i \in DOMAIN single' : single'[i].key = call.ctx => NotMissed(single'[i], call)
    BY <1>1, <1>3, <2>3, NoFreshSingle
  <2>6. Asked(single', bulk', now, call)
    BY <2>3, <2>5 DEF Asked, AskedBulk
  <2>. QED
    BY <1>1, <1>3, <2>1, <2>2, <2>4, <2>6, Moved
<1>. QED
  BY <1>2, <1>3 DEF LookSingle

\* _cache_bulk.get, for one flag, is a step of its call.
LEMMA LookBulkStep ==
    ASSUME Inv, NEW c \in Calls, runtime = "python", LookBulk(c)
    PROVE  Step(c)
<1>. DEFINE listed == Bulk!Get(bulk, calls[c].ctx, now)
<1>1. /\ calls[c].phase = "bulk" /\ UNCHANGED <<now, history, single, missing, pausedUntil, slowest>>
      /\ SingleKeeps /\ BulkKeeps /\ MissingKeeps /\ pausedUntil' \in 0..Horizon + MaxBackoff
      /\ Within(bulk', bulk)
  BY Types, Untouched, BulkOnlyPurged DEF LookBulk
<1>2. /\ calls[c] \in Call(AnyPhase) /\ Timely(history, now, slowest, calls[c])
      /\ Asked(single, bulk, now, calls[c]) /\ calls[c].op = "isEnabled" /\ calls[c].since = now
  BY <1>1, CallFacts DEF Timely, Early
<1>3. ASSUME NEW e \in listed, e.value.body = "absent", Moves(c, "bulk", "absent")
      PROVE  Step(c)
  <2>1. PICK call : call = [calls[c] EXCEPT !.phase = "absent"]
    OBVIOUS
  <2>2. "absent" \in AnyPhase
    BY DEF AnyPhase, Running
  <2>3. /\ call.phase = "absent" /\ call.op = calls[c].op /\ call.ctx = calls[c].ctx
        /\ call.since = calls[c].since
    BY <1>2, <2>1, <2>2, Rephased
  <2>4. Was(history, now, "absent", Sent(now, slowest) - AgeWithin(Ttl))
    BY <1>3, BulkFits DEF Sent
  <2>5. Timely(history, now, slowest, call)
    BY <1>1, <1>2, <2>3, <2>4 DEF Timely, Outside, Requested, Early
  <2>6. Asked(single', bulk', now, call)
    BY <2>3 DEF Asked, AskedSingle, AskedBulk
  <2>. QED
    BY <1>1, <1>3, <2>1, <2>2, <2>5, <2>6, Moved
<1>4. ASSUME NEW e \in listed, Returns(c, "value", e.value.body)
      PROVE  Step(c)
  BY <1>1, <1>4, BulkFits, Ends
<1>5. ASSUME listed = {}, Moves(c, "bulk", "gate")
      PROVE  Step(c)
  <2>1. PICK call : call = [calls[c] EXCEPT !.phase = "gate"]
    OBVIOUS
  <2>2. "gate" \in AnyPhase
    BY DEF AnyPhase, Running
  <2>3. /\ call.phase = "gate" /\ call.op = calls[c].op /\ call.ctx = calls[c].ctx
        /\ call.since = calls[c].since
    BY <1>2, <2>1, <2>2, Rephased
  <2>4. Timely(history, now, slowest, call)
    BY <1>1, <1>2, <2>3 DEF Timely, Outside, Requested, Early
  <2>5. \A i \in DOMAIN bulk' : bulk'[i].key = call.ctx => NotMissed(bulk'[i], call)
    BY <1>1, <1>2, <1>5, <2>3, NoFreshBulk
  <2>6. \A i \in DOMAIN single' : single'[i].key = call.ctx => NotMissed(single'[i], call)
    BY <1>1, <1>2, <2>3 DEF Asked, AskedSingle, NotMissed
  <2>7. Asked(single', bulk', now, call)
    BY <2>3, <2>5, <2>6 DEF Asked
  <2>. QED
    BY <1>1, <1>5, <2>1, <2>2, <2>4, <2>7, Moved
<1>. QED
  BY <1>3, <1>4, <1>5 DEF LookBulk

\* _cache_missing.set is a step of its call.
LEMMA NoteAbsentStep ==
    ASSUME Inv, NEW c \in Calls, NoteAbsent(c)
    PROVE  Step(c)
<1>1. /\ calls[c].phase = "absent" /\ UNCHANGED <<now, history, single, bulk, pausedUntil, slowest>>
      /\ Returns(c, "missing", None) /\ missing' = Missing!Put(missing, Flag, "absent", now)
      /\ pausedUntil' \in 0..Horizon + MaxBackoff
  BY Types DEF NoteAbsent
<1>2. Was(history, now, "absent", Sent(now, slowest) - AgeWithin(Ttl))
  BY <1>1, CallFacts DEF Timely, Sent
<1>3. SingleKeeps /\ BulkKeeps /\ MissingKeeps
  BY <1>1, <1>2, Untouched, MissingPut
<1>. QED
  BY <1>1, <1>2, <1>3, MissingFits, Ends, Types

\* _cache_bulk.get, for the whole list, is a step of its call.
LEMMA LookListStep ==
    ASSUME Inv, NEW c \in Calls, runtime = "python", LookList(c)
    PROVE  Step(c)
<1>. DEFINE cached == Bulk!Get(bulk, calls[c].ctx, now)
<1>1. /\ calls[c].phase = "list" /\ UNCHANGED <<now, history, single, missing, pausedUntil, slowest>>
      /\ SingleKeeps /\ BulkKeeps /\ MissingKeeps /\ pausedUntil' \in 0..Horizon + MaxBackoff
      /\ Within(bulk', bulk)
  BY Types, Untouched, BulkOnlyPurged DEF LookList
<1>2. ASSUME NEW e \in cached, Returns(c, "value", e.value.body)
      PROVE  Step(c)
  BY <1>1, <1>2, BulkFits, Ends
<1>3. ASSUME cached = {}, Moves(c, "list", "previous")
      PROVE  Step(c)
  <2>1. PICK call : call = [calls[c] EXCEPT !.phase = "previous"]
    OBVIOUS
  <2>2. /\ "previous" \in AnyPhase /\ calls[c] \in Call(AnyPhase) /\ Timely(history, now, slowest, calls[c])
    BY CallFacts DEF AnyPhase, Running
  <2>3. /\ call.phase = "previous" /\ call.op = calls[c].op /\ call.ctx = calls[c].ctx
        /\ call.since = calls[c].since /\ calls[c].since = now
    BY <1>1, <2>1, <2>2, Rephased DEF Timely, Early
  <2>4. Timely(history, now, slowest, call)
    BY <1>1, <2>2, <2>3 DEF Timely, Outside, Requested, Early
  <2>5. \A i \in DOMAIN bulk' : bulk'[i].key = call.ctx => NotMissed(bulk'[i], call)
    BY <1>1, <1>3, <2>3, NoFreshBulk
  <2>6. Asked(single', bulk', now, call)
    BY <2>3, <2>5 DEF Asked, AskedSingle
  <2>. QED
    BY <1>1, <1>3, <2>1, <2>2, <2>4, <2>6, Moved
<1>. QED
  BY <1>2, <1>3 DEF LookList

\* Reading the entry whose ETag is sent is a step of its call.
LEMMA LookPreviousStep ==
    ASSUME Inv, NEW c \in Calls, runtime = "python", LookPrevious(c)
    PROVE  Step(c)
<1>. DEFINE old == calls[c]
<1>1. /\ old.phase = "previous" /\ UNCHANGED <<now, history, single, missing, pausedUntil, slowest>>
      /\ SingleKeeps /\ BulkKeeps /\ MissingKeeps /\ pausedUntil' \in 0..Horizon + MaxBackoff
      /\ Within(bulk', bulk)
  BY Types, Untouched, BulkOnlyPurged DEF LookPrevious
<1>2. /\ old \in Call(AnyPhase) /\ Told(history, now, old) /\ Timely(history, now, slowest, old)
      /\ Asked(single, bulk, now, old) /\ old.op = "getAllFeatures"
  BY <1>1, CallFacts DEF Timely
<1>3. "gate" \in AnyPhase
  BY DEF AnyPhase, Running
<1>4. ASSUME NEW call \in Call(AnyPhase), call.phase = "gate", call.op = old.op,
             call.ctx = old.ctx, call.since = old.since
      PROVE  Timely(history, now, slowest, call) /\ Asked(single', bulk', now, call)
  <2>1. Timely(history, now, slowest, call)
    BY <1>1, <1>2, <1>4 DEF Timely, Outside, Requested, Early
  <2>2. \A i \in DOMAIN bulk' : bulk'[i].key = call.ctx => NotMissed(bulk'[i], call)
    BY <1>1, <1>2, <1>4 DEF Within, Asked, AskedBulk, NotMissed
  <2>. QED
    BY <1>2, <1>4, <2>1, <2>2 DEF Asked
<1>5. ASSUME NEW e \in Bulk!GetStale(bulk, old.ctx, now),
             Becomes(c, [old EXCEPT !.phase = "gate", !.previous = e.value])
      PROVE  Step(c)
  <2>1. e.value \in BulkEntry /\ e.value.tag \in {None, e.value.body}
    BY BulkFits
  <2>2. PICK call : call = [old EXCEPT !.phase = "gate", !.previous = e.value]
    OBVIOUS
  <2>3. /\ call \in Call(AnyPhase) /\ call.phase = "gate" /\ call.op = old.op
        /\ call.ctx = old.ctx /\ call.since = old.since /\ call.previous = e.value
    BY <1>2, <1>3, <2>1, <2>2 DEF Call
  <2>4. Told(history, now, call)
    BY <2>1, <2>3 DEF Told
  <2>. QED
    BY <1>1, <1>4, <1>5, <2>2, <2>3, <2>4, GoesOn
<1>6. CASE Moves(c, "previous", "gate")
  <2>1. PICK call : call = [old EXCEPT !.phase = "gate"]
    OBVIOUS
  <2>2. /\ call \in Call(AnyPhase) /\ call.phase = "gate" /\ call.op = old.op
        /\ call.ctx = old.ctx /\ call.since = old.since
    BY <1>2, <1>3, <2>1, Rephased
  <2>. QED
    BY <1>1, <1>3, <1>4, <1>6, <2>1, <2>2, Moved
<1>. QED
  BY <1>5, <1>6 DEF LookPrevious

\* Where a call has asked both caches, a failure leads to the fallbacks.
LEMMA FailsStep ==
    ASSUME Inv, NEW c \in Calls, runtime = "python", calls[c].phase \in {"gate", "sent", "answered"},
           NEW status \in Status, Fails(c, status), UNCHANGED <<now, history, slowest, caches>>,
           pausedUntil' \in 0..Horizon + MaxBackoff
    PROVE  Step(c)
<1>. DEFINE old == calls[c]
<1>1. SingleKeeps /\ BulkKeeps /\ MissingKeeps /\ single' = single /\ bulk' = bulk
  BY Untouched DEF caches
<1>2. /\ old \in Call(AnyPhase) /\ Timely(history, now, slowest, old) /\ Asked(single, bulk, now, old)
      /\ old.since <= now /\ old.ctx \in Contexts /\ old.op \in {"isEnabled", "getAllFeatures"}
  BY CallFacts DEF Outside
<1>3. PICK next \in {"staleSingle", "staleBulk"} :
        /\ next = (IF old.op = "isEnabled" THEN "staleSingle" ELSE "staleBulk")
        /\ Becomes(c, [old EXCEPT !.phase = next, !.previous = None,
                                  !.answer = [NoAnswer EXCEPT !.status = status]])
  BY DEF Fails
<1>4. PICK call : call = [old EXCEPT !.phase = next, !.previous = None,
                                     !.answer = [NoAnswer EXCEPT !.status = status]]
  OBVIOUS
<1>5. /\ call.phase = next /\ call.op = old.op /\ call.ctx = old.ctx /\ call.since = old.since
      /\ call.previous = None
  BY <1>2, <1>4 DEF Call
<1>6. call \in Call(AnyPhase)
  <2>1. next \in AnyPhase
    BY DEF AnyPhase, Running
  <2>2. [NoAnswer EXCEPT !.status = status] \in
          [status: Status \cup {None}, body: FlagState \cup {None}, tag: FlagState \cup {None}]
    BY DEF NoAnswer
  <2>. QED
    BY <1>2, <1>4, <2>1, <2>2 DEF Call
<1>7. Told(history, now, call)
  BY <1>5 DEF Told
<1>8. Timely(history, now, slowest, call)
  BY <1>2, <1>3, <1>5 DEF Timely, Requested, Early
<1>9. Asked(single', bulk', now, call)
  BY <1>1, <1>2, <1>3, <1>5 DEF Asked, AskedSingle, AskedBulk, NotMissed
<1>. QED
  BY <1>1, <1>3, <1>4, <1>6, <1>7, <1>8, <1>9, GoesOn

\* The test of the rate limit is a step of its call.
LEMMA GateStep ==
    ASSUME Inv, NEW c \in Calls, runtime = "python", Gate(c)
    PROVE  Step(c)
<1>. DEFINE old == calls[c]
<1>1. /\ old.phase = "gate" /\ UNCHANGED <<now, history, caches, pausedUntil, slowest>>
      /\ pausedUntil' \in 0..Horizon + MaxBackoff
  BY Types DEF Gate
<1>2. CASE Fails(c, "limited")
  BY <1>1, <1>2, FailsStep DEF Status
<1>3. CASE Moves(c, "gate", "sent")
  <2>1. /\ old \in Call(AnyPhase) /\ Timely(history, now, slowest, old) /\ Asked(single, bulk, now, old)
        /\ old.since = now /\ now \in Nat
    BY <1>1, CallFacts, Types DEF Timely, Early
  <2>2. PICK call : call = [old EXCEPT !.phase = "sent"]
    OBVIOUS
  <2>3. "sent" \in AnyPhase
    BY DEF AnyPhase, Phase
  <2>4. /\ call.phase = "sent" /\ call.op = old.op /\ call.ctx = old.ctx /\ call.since = old.since
    BY <2>1, <2>2, <2>3, Rephased
  <2>5. Timely(history, now, slowest, call)
    BY <1>1, <2>1, <2>4, Numbers DEF Timely, Outside, Requested, Early
  <2>6. SingleKeeps /\ BulkKeeps /\ MissingKeeps /\ single' = single /\ bulk' = bulk
    BY <1>1, Untouched DEF caches
  <2>7. Asked(single', bulk', now, call)
    BY <1>1, <2>1, <2>4, <2>6 DEF Asked, AskedSingle, AskedBulk, NotMissed
  <2>. QED
    BY <1>1, <1>3, <2>2, <2>3, <2>5, <2>6, <2>7, Moved
<1>. QED
  BY <1>2, <1>3 DEF Gate

\* Serving a stale single entry is a step of its call.
LEMMA StaleSingleStep ==
    ASSUME Inv, NEW c \in Calls, runtime = "python", StaleSingle(c)
    PROVE  Step(c)
<1>. DEFINE old == calls[c]
            stale == Single!GetStale(single, old.ctx, now)
<1>1. /\ old.phase = "staleSingle" /\ UNCHANGED <<now, history, bulk, missing, pausedUntil, slowest>>
      /\ SingleKeeps /\ BulkKeeps /\ MissingKeeps /\ pausedUntil' \in 0..Horizon + MaxBackoff
      /\ Within(single', single)
  BY Types, Untouched, SingleOnlyPurged DEF StaleSingle
<1>2. ASSUME NEW e \in stale, Returns(c, "stale", e.value)
      PROVE  Step(c)
  BY <1>1, <1>2, SingleFits, Ends
<1>3. ASSUME stale = {}, Moves(c, "staleSingle", "staleBulk")
      PROVE  Step(c)
  <2>1. /\ old \in Call(AnyPhase) /\ Timely(history, now, slowest, old) /\ Asked(single, bulk, now, old)
        /\ old.since <= now /\ old.since \in Nat /\ now \in Nat
        /\ \A i \in DOMAIN single : single[i].at \in Nat
    BY <1>1, CallFacts, Types DEF Outside
  <2>2. PICK call : call = [old EXCEPT !.phase = "staleBulk"]
    OBVIOUS
  <2>3. "staleBulk" \in AnyPhase
    BY DEF AnyPhase, Running
  <2>4. /\ call.phase = "staleBulk" /\ call.op = old.op /\ call.ctx = old.ctx
        /\ call.since = old.since
    BY <2>1, <2>2, <2>3, Rephased
  <2>5. Timely(history, now, slowest, call)
    BY <1>1, <2>1, <2>4 DEF Timely, Outside, Requested, Early
  <2>6. ASSUME Ttl # 0, call.op = "isEnabled", NEW i \in DOMAIN single, single[i].key = call.ctx
        PROVE  single[i].at >= call.since \/ now - single[i].at >= Ttl + StaleTtl
    <3>1. ~(now - single[i].at < Ttl + StaleTtl) \/ now - single[i].at < Ttl
      BY <1>3, <2>4, <2>6, SingleHits
    <3>2. NotMissed(single[i], call)
      BY <1>1, <2>1, <2>4, <2>6 DEF Asked, AskedSingle, NotMissed
    <3>. QED
      BY <2>1, <2>4, <3>1, <3>2, Numbers DEF NotMissed
  <2>7. \A i \in DOMAIN bulk' : bulk'[i].key = call.ctx => NotMissed(bulk'[i], call)
    BY <1>1, <2>1, <2>4 DEF Asked, AskedBulk, NotMissed
  <2>8. Asked(single', bulk', now, call)
    BY <1>1, <2>4, <2>6, <2>7 DEF Asked, AskedSingle, Within
  <2>. QED
    BY <1>1, <1>3, <2>2, <2>3, <2>5, <2>8, Moved
<1>. QED
  BY <1>2, <1>3 DEF StaleSingle

\* Serving from a stale list is a step of its call.
LEMMA StaleBulkStep ==
    ASSUME Inv, NEW c \in Calls, StaleBulk(c)
    PROVE  Step(c)
<1>1. /\ UNCHANGED <<now, history, single, missing, pausedUntil, slowest>>
      /\ SingleKeeps /\ BulkKeeps /\ MissingKeeps /\ pausedUntil' \in 0..Horizon + MaxBackoff
  BY Types, Untouched, BulkOnlyPurged DEF StaleBulk
<1>2. ASSUME NEW e \in Bulk!GetStale(bulk, calls[c].ctx, now), Returns(c, "stale", e.value.body)
      PROVE  Step(c)
  BY <1>1, <1>2, BulkFits, Ends
<1>3. ASSUME NEW kind \in {"throws", "default"}, Returns(c, kind, None)
      PROVE  Step(c)
  BY <1>1, <1>3, NothingFits, Ends
<1>. QED
  BY <1>2, <1>3 DEF StaleBulk

\* Every step of a Python thread is a step of its call.
LEMMA ThreadStepIsStep ==
    ASSUME Inv, NEW c \in Calls, runtime = "python", ThreadStep(c)
    PROVE  Step(c)
<1>1. CASE RefusedThread(c) \/ BreaksThread(c)
  BY <1>1, FailsStep, Types DEF RefusedThread, BreaksThread, Status
<1>2. CASE RateLimitedThread(c)
  BY <1>2, FailsStep, Pauses DEF RateLimitedThread, Status
<1>. QED
  BY <1>1, <1>2, BeginThreadStep, LookMissingStep, LookSingleStep, LookBulkStep, NoteAbsentStep,
     LookListStep, LookPreviousStep, GateStep, AnswerStep, ReceiveStep, StaleSingleStep,
     StaleBulkStep DEF ThreadStep

-----------------------------------------------------------------------------
\* Giving up.

\* What was looked for in vain when the call began is not fresh now.
LEMMA FreshIsNew ==
    ASSUME NEW n \in Nat, NEW call, call.since \in Nat, call.since <= n, NEW e, e.at \in Nat,
           NotMissed(e, call), n - e.at < Ttl
    PROVE  e.at >= call.since
  BY Numbers DEF NotMissed

\* Only two steps end a call without an answer.
LEMMA Quiet ==
    ASSUME NEW d, NEW ctx, NEW op,
           \/ IsEnabled(d, ctx) \/ GetAllFeatures(d, ctx) \/ Answer(d) \/ Receive(d) \/ RateLimited(d)
           \/ Change \/ Passes \/ Close
           \/ BeginThread(d, op, ctx) \/ LookMissing(d) \/ LookSingle(d) \/ LookBulk(d)
           \/ NoteAbsent(d) \/ LookList(d) \/ LookPrevious(d) \/ Gate(d)
           \/ RefusedThread(d) \/ RateLimitedThread(d) \/ BreaksThread(d) \/ StaleSingle(d)
    PROVE  returned'.kind \notin {"default", "throws"}
<1>1. \A call : Becomes(d, call) => returned'.kind \notin {"default", "throws"}
  BY SdkAssumption DEF Becomes, NoResult
<1>2. \A body : \/ Returns(d, "missing", body) \/ Returns(d, "value", body) \/ Returns(d, "stale", body)
                  => returned'.kind \notin {"default", "throws"}
  BY DEF Returns
<1>3. CASE IsEnabled(d, ctx)
  BY <1>1, <1>2, <1>3 DEF IsEnabled
<1>4. CASE GetAllFeatures(d, ctx)
  BY <1>1, <1>2, <1>4 DEF GetAllFeatures
<1>5. CASE Answer(d) \/ Receive(d) \/ RateLimited(d)
  BY <1>1, <1>2, <1>5 DEF Answer, Receive, RateLimited
<1>6. CASE Change \/ Passes \/ Close
  BY <1>6, SdkAssumption DEF Change, Passes, Close, NoResult
<1>7. CASE BeginThread(d, op, ctx) \/ LookMissing(d) \/ LookSingle(d)
  BY <1>1, <1>2, <1>7 DEF BeginThread, LookMissing, LookSingle, Moves
<1>8. CASE LookBulk(d) \/ NoteAbsent(d) \/ LookList(d) \/ LookPrevious(d)
  BY <1>1, <1>2, <1>8 DEF LookBulk, NoteAbsent, LookList, LookPrevious, Moves
<1>9. CASE Gate(d) \/ RefusedThread(d) \/ RateLimitedThread(d) \/ BreaksThread(d) \/ StaleSingle(d)
  BY <1>1, <1>2, <1>9 DEF Gate, RefusedThread, RateLimitedThread, BreaksThread, StaleSingle, Fails, Moves
<1>. QED
  BY <1>3, <1>4, <1>5, <1>6, <1>7, <1>8, <1>9

\* What a call that ends is.
LEMMA EndsItself ==
    ASSUME Inv, NEW c \in Calls, NEW d \in Calls, NEW kind, NEW body, Returns(d, kind, body), GivesUp(c)
    PROVE  c = d /\ kind \in {"default", "throws"}
  BY Types DEF Returns, GivesUp

\* The JavaScript SDK.
LEMMA CatchGivesUp ==
    ASSUME Inv, NEW c \in Calls, NEW d \in Calls, NEW status, Catch(d, status),
           calls[d].phase \in {"sent", "suppressed", "answered", "limited"}, GivesUp(c)
    PROVE  \A t \in Readings(c) : t >= calls[c].since
<1>. DEFINE call == calls[d]
            stale == IF call.op = "isEnabled" THEN Single!GetStale(single, call.ctx, now) ELSE {}
            list == {e \in Bulk!GetStale(bulk, call.ctx, now) :
                       call.op = "isEnabled" => e.value.body # "absent"}
<1>1. c = d /\ stale = {} /\ list = {}
  <2>1. \A body : ~(Returns(d, "stale", body) /\ GivesUp(c))
    BY EndsItself
  <2>2. stale = {} /\ list = {}
    BY <2>1 DEF Catch
  <2>3. \E kind \in {"throws", "default"} : Returns(d, kind, None)
    BY <2>1 DEF Catch
  <2>. QED
    BY <2>2, <2>3, EndsItself
<1>2. /\ Asked(single, bulk, now, call) /\ call.since \in Nat /\ call.since <= now /\ now \in Nat
      /\ \A i \in DOMAIN single : single[i].at \in Nat
      /\ \A i \in DOMAIN bulk : bulk[i].at \in Nat
  BY CallFacts, Types DEF Outside
<1>3. ASSUME NEW e \in Bulk!Read(bulk, call.ctx, now), call.op = "isEnabled" => e.value.body # "absent"
      PROVE  e.at >= call.since
  <2>1. PICK i \in DOMAIN bulk : e = bulk[i] /\ bulk[i].key = call.ctx
    BY BulkHits
  <2>2. now - e.at < Ttl
    BY <1>1, <1>3, <2>1, BulkHits
  <2>3. NotMissed(e, call)
    BY <1>2, <2>1 DEF Asked, AskedBulk
  <2>. QED
    BY <1>2, <2>1, <2>2, <2>3, FreshIsNew
<1>4. ASSUME call.op = "isEnabled", NEW e \in Single!Read(single, call.ctx, now)
      PROVE  e.at >= call.since
  <2>1. PICK i \in DOMAIN single : e = single[i] /\ single[i].key = call.ctx
    BY SingleHits
  <2>2. now - e.at < Ttl
    BY <1>1, <1>4, <2>1, SingleHits
  <2>3. NotMissed(e, call)
    BY <1>2, <1>4, <2>1 DEF Asked, AskedSingle
  <2>. QED
    BY <1>2, <2>1, <2>2, <2>3, FreshIsNew
<1>. QED
  BY <1>1, <1>3, <1>4 DEF Readings

\* The Python SDK.
LEMMA StaleBulkGivesUp ==
    ASSUME Inv, NEW c \in Calls, NEW d \in Calls, StaleBulk(d), GivesUp(c)
    PROVE  \A t \in Readings(c) : t >= calls[c].since
<1>. DEFINE call == calls[d]
            list == {e \in Bulk!GetStale(bulk, call.ctx, now) :
                       call.op = "isEnabled" => e.value.body # "absent"}
<1>1. c = d /\ list = {} /\ call.phase = "staleBulk"
  <2>1. \A body : ~(Returns(d, "stale", body) /\ GivesUp(c))
    BY EndsItself
  <2>2. list = {} /\ call.phase = "staleBulk"
    BY <2>1 DEF StaleBulk
  <2>3. \E kind \in {"throws", "default"} : Returns(d, kind, None)
    BY <2>1 DEF StaleBulk
  <2>. QED
    BY <2>2, <2>3, EndsItself
<1>2. /\ Asked(single, bulk, now, call) /\ call.since \in Nat /\ call.since <= now /\ now \in Nat
      /\ \A i \in DOMAIN single : single[i].at \in Nat
      /\ \A i \in DOMAIN bulk : bulk[i].at \in Nat
  BY <1>1, CallFacts, Types DEF Outside
<1>3. ASSUME NEW e \in Bulk!Read(bulk, call.ctx, now), call.op = "isEnabled" => e.value.body # "absent"
      PROVE  e.at >= call.since
  <2>1. PICK i \in DOMAIN bulk : e = bulk[i] /\ bulk[i].key = call.ctx
    BY BulkHits
  <2>2. now - e.at < Ttl
    BY <1>1, <1>3, <2>1, BulkHits
  <2>3. NotMissed(e, call)
    BY <1>1, <1>2, <2>1 DEF Asked, AskedBulk
  <2>. QED
    BY <1>2, <2>1, <2>2, <2>3, FreshIsNew
<1>4. ASSUME call.op = "isEnabled", NEW e \in Single!Read(single, call.ctx, now)
      PROVE  e.at >= call.since
  <2>1. PICK i \in DOMAIN single : e = single[i] /\ single[i].key = call.ctx
    BY SingleHits
  <2>2. Ttl # 0 /\ now - e.at < Ttl + StaleTtl
    BY <1>4, SingleHits
  <2>3. e.at >= call.since \/ now - e.at >= Ttl + StaleTtl
    BY <1>1, <1>2, <1>4, <2>1, <2>2 DEF Asked
  <2>. QED
    BY <1>2, <2>1, <2>2, <2>3, Numbers
<1>. QED
  BY <1>1, <1>3, <1>4 DEF Readings

-----------------------------------------------------------------------------
\* The invariant holds, and with it the properties.

LEMMA Inductive == Inv /\ [ThreadsNext]_threadVars => Inv'
<1>. SUFFICES ASSUME Inv, [ThreadsNext]_threadVars PROVE Inv'
  OBVIOUS
<1>1. CASE UNCHANGED threadVars
  <2>1. /\ UNCHANGED <<now, history, pausedUntil, slowest, calls, returned, runtime>>
        /\ single' = single /\ bulk' = bulk /\ missing' = missing
    BY <1>1 DEF threadVars, vars
  <2>. QED
    BY <2>1 DEF Inv, TypeOK, Typed, Known, OneOfEach
<1>2. CASE ThreadsNext
  <2>1. UNCHANGED runtime
    BY <1>2 DEF ThreadsNext
  <2>2. CASE runtime = "javascript" /\ Next
    <3>1. CASE Change
      BY <2>1, <3>1, ChangeKeepsInv
    <3>2. CASE Tick
      <4>1. \A c \in Calls : calls[c].phase \notin Running
        BY <2>2 DEF Inv, Phase, Running
      <4>. QED
        BY <2>1, <3>2, <4>1, TickKeepsInv DEF Tick
    <3>3. CASE \E c \in Calls :
                 \/ \E ctx \in Contexts : IsEnabled(c, ctx) \/ GetAllFeatures(c, ctx)
                 \/ Answer(c) \/ Receive(c)
                 \/ Suppressed(c) \/ Refused(c) \/ RateLimited(c) \/ Limited(c) \/ Breaks(c)
      BY <2>1, <3>3, ClientStep, StepKeepsInv
    <3>. QED
      BY <2>2, <3>1, <3>2, <3>3 DEF Next
  <2>3. CASE runtime = "python" /\ (Change \/ ThreadTick \/ Close \/ \E c \in Calls : ThreadStep(c))
    BY <2>1, <2>3, ChangeKeepsInv, CloseKeepsInv, TickKeepsInv, ThreadStepIsStep, StepKeepsInv
       DEF ThreadTick
  <2>. QED
    BY <1>2, <2>2, <2>3 DEF ThreadsNext
<1>. QED
  BY <1>1, <1>2

\* The inductive invariant holds in every state.
LEMMA InvHolds == ThreadsSpec => []Inv
  BY InitKeepsInv, Inductive, PTL DEF ThreadsSpec

\* Types: in both SDKs every state is well-typed, and no cache ever holds more than
\* its limit or a key twice (cache.ts, _cache.py, set).
THEOREM TypeCorrect == ThreadsSpec => []TypeOK
<1>1. Inv => TypeOK
  BY DEF Inv
<1>. QED
  BY <1>1, InvHolds, PTL

\* For any number of overlapping calls, refetches and 304 answers, an ETag is kept
\* only with the list it stands for (client.ts, fetchAll and getAllFeatures).
THEOREM EtagsMatch == ThreadsSpec => []EtagMatchesBody
<1>1. Inv => EtagMatchesBody
  BY DEF Inv, Known, KnownBulk, EtagMatchesBody, EtagFor, ToSet
<1>. QED
  BY <1>1, InvHolds, PTL

\* Where a timer ends the requests, none has lasted longer and none will.
InTimer ==
    runtime = "javascript" /\ Timeout # 0 =>
      /\ slowest <= Timeout
      /\ \A c \in Calls : calls[c].phase \in Requested => now <= calls[c].since + Timeout

\* A call keeps to its timer when it moves, if it did before or begins now.
LEMMA TimerKeeps ==
    ASSUME Inv, InTimer, UNCHANGED <<now, runtime>>, slowest' <= Timeout \/ slowest' = slowest,
           NEW c \in Calls, NEW call, calls' = [calls EXCEPT ![c] = call],
           call.phase \in Requested =>
             \/ call.since = now
             \/ calls[c].phase \in Requested /\ call.since = calls[c].since
    PROVE  InTimer'
<1>. SUFFICES ASSUME runtime = "javascript", Timeout # 0
              PROVE  /\ slowest' <= Timeout
                     /\ \A d \in Calls : calls'[d].phase \in Requested =>
                                        now' <= calls'[d].since + Timeout
  BY DEF InTimer
<1>1. slowest' <= Timeout
  BY DEF InTimer
<1>2. ASSUME NEW d \in Calls, calls'[d].phase \in Requested
      PROVE  now' <= calls'[d].since + Timeout
  <2>1. CASE d = c
    <3>1. calls'[d] = call
      BY <2>1, Types
    <3>. QED
      BY <1>2, <2>1, <3>1, Types, Numbers DEF InTimer
  <2>2. CASE d # c
    <3>1. calls'[d] = calls[d]
      BY <2>2, Types
    <3>. QED
      BY <1>2, <3>1 DEF InTimer
  <2>. QED
    BY <2>1, <2>2
<1>. QED
  BY <1>1, <1>2

\* A step that ends a call.
LEMMA TimerEnds ==
    ASSUME Inv, InTimer, UNCHANGED <<now, runtime>>, slowest' <= Timeout \/ slowest' = slowest,
           NEW c \in Calls, NEW kind, NEW body, Returns(c, kind, body)
    PROVE  InTimer'
<1>1. calls' = [calls EXCEPT ![c] = Done] /\ Done.phase \notin Requested
  BY DoneCall DEF Returns, Requested
<1>. QED
  BY <1>1, TimerKeeps

\* A step that leaves a call as it was, but for the named call.
LEMMA TimerGoesOn ==
    ASSUME Inv, InTimer, UNCHANGED <<now, runtime>>, slowest' = slowest,
           NEW c \in Calls, NEW call, Becomes(c, call),
           \/ call.since = now
           \/ calls[c].phase \in Requested /\ call.since = calls[c].since
    PROVE  InTimer'
  BY TimerKeeps DEF Becomes

\* A call that begins does so now.
LEMMA BeginsNow ==
    ASSUME NEW op, NEW ctx
    PROVE  /\ Send(Begun(op, ctx)).since = now
           /\ \A previous : Send([Begun(op, ctx) EXCEPT !.previous = previous]).since = now
  BY DEF Send, Begun, Waiting

\* No step of a JavaScript client lets a request outlast its timer.
LEMMA TimerStep ==
    ASSUME Inv, InTimer, [ThreadsNext]_threadVars
    PROVE  InTimer'
<1>. SUFFICES ASSUME runtime = "javascript", Timeout # 0, runtime' = runtime
              PROVE  InTimer'
  <2>1. runtime' = runtime
    BY DEF ThreadsNext, threadVars
  <2>. QED
    BY <2>1 DEF InTimer
<1>1. CASE UNCHANGED threadVars
  BY <1>1 DEF threadVars, vars, InTimer
<1>2. CASE Change
  BY <1>2 DEF Change, InTimer
<1>3. CASE Tick
  <2>1. now' = now + 1 /\ slowest' = slowest /\ calls' = calls
    BY <1>3 DEF Tick, Passes
  <2>2. ASSUME NEW d \in Calls, calls[d].phase \in Requested
        PROVE  now' <= calls[d].since + Timeout
    <3>1. now < calls[d].since + Timeout
      BY <1>3, <2>2 DEF Tick, TimerKept
    <3>2. now \in Nat /\ calls[d].since \in Nat
      BY Types, CallFacts
    <3>. QED
      BY <2>1, <3>1, <3>2, Numbers
  <2>. QED
    BY <2>1, <2>2 DEF InTimer
<1>4. ASSUME NEW c \in Calls, NEW ctx \in Contexts, IsEnabled(c, ctx)
      PROVE  InTimer'
  <2>1. UNCHANGED <<now, runtime, slowest>>
    BY <1>4 DEF IsEnabled
  <2>2. \A kind, body : Returns(c, kind, body) => InTimer'
    BY <2>1, TimerEnds
  <2>3. ASSUME Becomes(c, Send(Begun("isEnabled", ctx)))
        PROVE  InTimer'
    <3>1. PICK call : call = Send(Begun("isEnabled", ctx))
      OBVIOUS
    <3>2. Becomes(c, call) /\ call.since = now
      BY <2>3, <3>1, BeginsNow
    <3>. QED
      BY <2>1, <3>2, TimerGoesOn
  <2>. QED
    BY <1>4, <2>2, <2>3 DEF IsEnabled
<1>5. ASSUME NEW c \in Calls, NEW ctx \in Contexts, GetAllFeatures(c, ctx)
      PROVE  InTimer'
  <2>1. UNCHANGED <<now, runtime, slowest>>
    BY <1>5 DEF GetAllFeatures
  <2>2. \A kind, body : Returns(c, kind, body) => InTimer'
    BY <2>1, TimerEnds
  <2>3. ASSUME Becomes(c, Send(Begun("getAllFeatures", ctx)))
        PROVE  InTimer'
    <3>1. PICK call : call = Send(Begun("getAllFeatures", ctx))
      OBVIOUS
    <3>2. Becomes(c, call) /\ call.since = now
      BY <2>3, <3>1, BeginsNow
    <3>. QED
      BY <2>1, <3>2, TimerGoesOn
  <2>4. ASSUME NEW previous,
               Becomes(c, Send([Begun("getAllFeatures", ctx) EXCEPT !.previous = previous]))
        PROVE  InTimer'
    <3>1. PICK call : call = Send([Begun("getAllFeatures", ctx) EXCEPT !.previous = previous])
      OBVIOUS
    <3>2. Becomes(c, call) /\ call.since = now
      BY <2>4, <3>1, BeginsNow
    <3>. QED
      BY <2>1, <3>2, TimerGoesOn
  <2>. QED
    BY <1>5, <2>2, <2>3, <2>4 DEF GetAllFeatures
<1>6. ASSUME NEW c \in Calls, Answer(c)
      PROVE  InTimer'
  <2>1. /\ UNCHANGED <<now, runtime, slowest>> /\ calls[c].phase \in Requested
        /\ calls[c] \in Call(AnyPhase)
    BY <1>6, CallFacts DEF Answer, Requested
  <2>2. PICK a : Becomes(c, [calls[c] EXCEPT !.phase = "answered", !.answer = a])
    BY <1>6 DEF Answer
  <2>3. [calls[c] EXCEPT !.phase = "answered", !.answer = a].since = calls[c].since
    BY <2>1 DEF Call
  <2>. QED
    BY <2>1, <2>2, <2>3, TimerGoesOn
<1>7. ASSUME NEW c \in Calls, Receive(c)
      PROVE  InTimer'
  <2>1. UNCHANGED <<now, runtime>> /\ slowest' = Longer(slowest, now - calls[c].since)
    BY <1>7 DEF Receive
  <2>2. calls[c].phase \in Requested /\ now <= calls[c].since + Timeout /\ slowest <= Timeout
    BY <1>7 DEF Receive, Requested, InTimer
  <2>3. slowest' <= Timeout
    BY <2>1, <2>2, Types, CallFacts, Numbers DEF Longer
  <2>4. \A kind, body : Returns(c, kind, body) => InTimer'
    BY <2>1, <2>3, TimerEnds
  <2>. QED
    BY <1>7, <2>4 DEF Receive
<1>8. ASSUME NEW c \in Calls, NEW status, Catch(c, status)
      PROVE  InTimer'
  <2>1. UNCHANGED <<now, runtime, slowest>>
    BY <1>8 DEF Catch
  <2>2. \A kind, body : Returns(c, kind, body) => InTimer'
    BY <2>1, TimerEnds
  <2>. QED
    BY <1>8, <2>2 DEF Catch
<1>9. ASSUME NEW c \in Calls, RateLimited(c)
      PROVE  InTimer'
  <2>1. /\ UNCHANGED <<now, runtime, slowest>> /\ calls[c].phase \in Requested
        /\ calls[c] \in Call(AnyPhase)
        /\ Becomes(c, [calls[c] EXCEPT !.phase = "limited"])
    BY <1>9, CallFacts DEF RateLimited, Requested
  <2>2. [calls[c] EXCEPT !.phase = "limited"].since = calls[c].since
    BY <2>1 DEF Call
  <2>. QED
    BY <2>1, <2>2, TimerGoesOn
<1>. QED
  BY <1>1, <1>2, <1>3, <1>4, <1>5, <1>6, <1>7, <1>8, <1>9
     DEF ThreadsNext, Next, Suppressed, Refused, Limited, Breaks

\* An answer that is recent by one bound is recent by a wider one.
LEMMA FitsWider ==
    ASSUME Inv, NEW d \in Nat, NEW u \in Nat, d <= u, Fits(history, now, d, returned)
    PROVE  RecentWithin(u)
<1>1. now \in Nat /\ history \in HistoryOf
  BY Types
<1>2. \A x : \A t \in Int, v \in Int : Was(history, now, x, t) /\ v <= t => Held(x, v)
  <2>1. \A x : \A v \in Int : Was(history, now, x, v) => Held(x, v)
    BY DEF Was, Held, Until
  <2>. QED
    BY <1>1, <2>1, WasEarlier
<1>3. /\ AgeWithin(Ttl) \in Nat /\ AgeWithin(Ttl + StaleTtl) \in Nat /\ AgeWithin(MissingTtl) \in Nat
  BY Ages
<1>4. /\ Sent(now, d) \in Int /\ now - ServerLag - u \in Int /\ now - ServerLag - u <= Sent(now, d)
  BY <1>1, Numbers DEF Sent
<1>. QED
  BY <1>2, <1>3, <1>4 DEF Fits, RecentWithin

\* For any ttl, timeout and server lag, whatever a call returns was so at the server
\* within those and the longest that a request has lasted; where AbortSignal.timeout
\* ends every request, within those and the timeout (client.ts, client.py).
THEOREM RecentAnswers == ThreadsSpec => []AnswersAreRecent
<1>1. ThreadsInit => InTimer
  BY Numbers DEF ThreadsInit, Init, InTimer, Waiting, Requested
<1>2. Inv /\ InTimer => AnswersAreRecent
  <2>. SUFFICES ASSUME Inv, InTimer PROVE AnswersAreRecent
    OBVIOUS
  <2>1. slowest \in Nat /\ slowest <= slowest /\ Fits(history, now, slowest, returned)
    BY Types DEF Inv
  <2>2. RecentWithin(slowest)
    BY <2>1, FitsWider
  <2>3. runtime = "javascript" /\ Timeout # 0 => RecentWithin(Timeout)
    BY <2>1, FitsWider, Numbers DEF InTimer
  <2>. QED
    BY <2>2, <2>3 DEF AnswersAreRecent
<1>3. Inv /\ InTimer /\ [ThreadsNext]_threadVars => InTimer'
  BY TimerStep
<1>. QED
  BY <1>1, <1>2, <1>3, InvHolds, PTL DEF ThreadsSpec

\* For any number of calls and threads, a call gives up only on readings that were
\* stored while it ran (client.ts and client.py, the fallbacks after a failure).
THEOREM GivingUp == ThreadsSpec => GivesUpOnlyWithoutReading
<1>1. ASSUME Inv, [ThreadsNext]_threadVars, NEW c \in Calls, GivesUp(c)
      PROVE  \A t \in Readings(c) : t >= calls[c].since
  <2>1. CASE UNCHANGED threadVars
    BY <1>1, <2>1 DEF threadVars, vars, GivesUp
  <2>2. returned'.kind \in {"default", "throws"}
    BY <1>1 DEF GivesUp
  <2>3. CASE runtime = "javascript" /\ Next
    <3>1. \A d \in Calls : \A status : Catch(d, status) /\ calls[d].phase \in {"sent", "suppressed", "answered", "limited"}
            => \A t \in Readings(c) : t >= calls[c].since
      BY <1>1, CatchGivesUp
    <3>2. PICK d \in Calls : Suppressed(d) \/ Refused(d) \/ Limited(d) \/ Breaks(d)
      BY <2>2, <2>3, Quiet DEF Next, Tick
    <3>. QED
      BY <3>1, <3>2 DEF Suppressed, Refused, Limited, Breaks
  <2>4. CASE runtime = "python" /\ (Change \/ ThreadTick \/ Close \/ \E d \in Calls : ThreadStep(d))
    <3>1. PICK d \in Calls : StaleBulk(d)
      BY <2>2, <2>4, Quiet DEF ThreadTick, ThreadStep
    <3>. QED
      BY <1>1, <3>1, StaleBulkGivesUp
  <2>. QED
    BY <1>1, <2>1, <2>3, <2>4 DEF ThreadsNext
<1>2. Inv /\ [ThreadsNext]_threadVars =>
        [\A c \in Calls : GivesUp(c) => \A t \in Readings(c) : t >= calls[c].since]_vars
  BY <1>1
<1>. QED
  BY <1>2, InvHolds, PTL DEF ThreadsSpec, GivesUpOnlyWithoutReading

=============================================================================
