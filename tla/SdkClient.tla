------------------------------ MODULE SdkClient ------------------------------
(***************************************************************************)
(* FlagraftClient of the JavaScript SDK (packages/sdk-js/src/client.ts):     *)
(* overlapping isEnabled and getAllFeatures calls of one client, about one   *)
(* flag.  What a call does up to its request, and after the answer, runs     *)
(* without interruption; other calls and the clock run in between.  The      *)
(* server may answer late, out of order, with an error, or not at all.       *)
(*                                                                          *)
(* slowest is a history field: the longest that a request whose answer was  *)
(* taken has lasted.                                                        *)
(***************************************************************************)
EXTENDS Integers, FiniteSets, SequencesExt

CONSTANTS
    Calls,          \* 1..n: the calls, numbered in the order they begin
    Contexts,       \* evaluation contexts, one cache key each
    Ttl, StaleTtl, MissingTtl, MaxEntries,
    Timeout,        \* 0 for none: timeoutMs, or no AbortSignal.timeout to keep it
    DefaultBackoff, MaxBackoff,
    RetryAfters,    \* what a Retry-After header may say, None when it is missing
    ServerLag,      \* how old the server's own cached flag state may be
    MaxChanges,     \* bound on the flag's changes
    Horizon,        \* bound on the clock
    None

ASSUME SdkAssumption ==
    /\ IsFiniteSet(Calls) /\ Calls = 1..Cardinality(Calls)
    /\ {Ttl, StaleTtl, ServerLag, DefaultBackoff, MaxBackoff, Timeout, MaxChanges, Horizon} \subseteq Nat
    /\ {MissingTtl, MaxEntries} \subseteq Nat \ {0}
    /\ DefaultBackoff <= MaxBackoff
    /\ \A h \in RetryAfters : h = None \/ h \in Int
    /\ Contexts # {} /\ None \notin Contexts
    /\ None \notin {"on", "off", "absent", "value", "stale", "missing", "default", "throws"}

VARIABLES
    now,
    history,        \* the flag at the server: its states and when each began
    single,         \* singleCache: enabled or not, by context
    bulk,           \* bulkCache: the flag's part of a list, with its ETag
    missing,        \* missingCache: whether the flag is known not to exist
    pausedUntil,    \* rateLimitedUntil
    slowest,
    calls,
    returned        \* what the call that ends in this step answers

vars == <<now, history, single, bulk, missing, pausedUntil, slowest, calls, returned>>
caches == <<single, bulk, missing>>

Single == INSTANCE TtlCache
Bulk == INSTANCE TtlCache
Missing == INSTANCE TtlCache WITH
    Ttl <- IF Ttl = 0 THEN 0 ELSE MissingTtl, StaleTtl <- 0

Flag == "flag"
FlagState == {"on", "off", "absent"}
BulkEntry == [body: FlagState, tag: FlagState \cup {None}]

Status == {"ok", "unchanged", "notFound", "refused", "limited", "down"}
NoAnswer == [status |-> None, body |-> None, tag |-> None]
NoResult == [kind |-> None, body |-> None]
Waiting == [phase |-> "waiting", op |-> None, ctx |-> None, since |-> 0,
            previous |-> None, answer |-> NoAnswer]
Done == [Waiting EXCEPT !.phase = "done"]

\* The tag is a hash of the flag state and the context: it tells lists apart.
EtagFor(state) == state

\* Calls that were over when the run begins may have filled the caches.
Filled(known) ==
    LET state == history[1].state
        entry(name, key, value) ==
            IF name \in known THEN <<[key |-> key, value |-> value, at |-> 0]>> ELSE <<>> IN
    /\ Ttl = 0 => known = {}
    /\ "single" \in known => state # "absent"
    /\ "missing" \in known => state = "absent"
    /\ single = entry("single", CHOOSE ctx \in Contexts : TRUE, state)
    /\ bulk = entry("bulk", CHOOSE ctx \in Contexts : TRUE, [body |-> state, tag |-> EtagFor(state)])
    /\ missing = entry("missing", Flag, "absent")

Init ==
    /\ now = 0
    /\ history \in {<<[state |-> s, since |-> 0]>> : s \in FlagState}
    /\ \E known \in SUBSET {"single", "bulk", "missing"} : Filled(known)
    /\ pausedUntil = 0
    /\ slowest = 0
    /\ calls = [c \in Calls |-> Waiting]
    /\ returned = NoResult

-----------------------------------------------------------------------------
\* A call goes on, or ends with its answer.
Becomes(c, call) == calls' = [calls EXCEPT ![c] = call] /\ returned' = NoResult
Returns(c, kind, body) ==
    calls' = [calls EXCEPT ![c] = Done] /\ returned' = [kind |-> kind, body |-> body]

\* The server.

Until(i) == IF i = Len(history) THEN now ELSE history[i + 1].since

Change ==
    /\ Len(history) <= MaxChanges
    /\ \E s \in FlagState \ {Last(history).state} :
         history' = Append(history, [state |-> s, since |-> now])
    /\ returned' = NoResult
    /\ UNCHANGED <<now, caches, pausedUntil, slowest, calls>>

\* GET /client/features and GET /client/features/:flagKey, from a flag state
\* that the server's cache may have held for a while.
Evaluated(call, state) ==
    IF call.op = "isEnabled"
    THEN IF state = "absent"
         THEN {[NoAnswer EXCEPT !.status = "notFound"]}
         ELSE {[NoAnswer EXCEPT !.status = "ok", !.body = state]}
    ELSE IF call.previous # None /\ call.previous.tag = EtagFor(state)
    THEN {[NoAnswer EXCEPT !.status = "unchanged", !.tag = t] : t \in {EtagFor(state), None}}
    ELSE {[NoAnswer EXCEPT !.status = "ok", !.body = state, !.tag = EtagFor(state)]}

Answer(c) ==
    /\ calls[c].phase = "sent"
    /\ \E i \in DOMAIN history :
         /\ Until(i) >= now - ServerLag
         /\ \E a \in Evaluated(calls[c], history[i].state) :
              Becomes(c, [calls[c] EXCEPT !.phase = "answered", !.answer = a])
    /\ UNCHANGED <<now, history, caches, pausedUntil, slowest>>

-----------------------------------------------------------------------------
\* The client.

BackingOff == now < pausedUntil

Clamp(ms) == IF ms < 0 THEN 0 ELSE IF ms > MaxBackoff THEN MaxBackoff ELSE ms

ParseRetryAfter(header) == IF header = None THEN DefaultBackoff ELSE Clamp(header)

Begun(op, ctx) == [Waiting EXCEPT !.op = op, !.ctx = ctx, !.since = now]

\* send: nothing goes out while backing off.
Send(call) == [call EXCEPT !.phase = IF BackingOff THEN "suppressed" ELSE "sent"]

CanBegin(c) ==
    /\ calls[c].phase = "waiting"
    /\ \A d \in Calls : d < c => calls[d].phase # "waiting"

\* isEnabled up to its await: three caches are asked in turn.
IsEnabled(c, ctx) ==
    LET call == Begun("isEnabled", ctx)
        known == Missing!Get(missing, Flag, now)
        cached == Single!Get(single, ctx, now)
        listed == Bulk!Get(bulk, ctx, now) IN
    /\ CanBegin(c)
    /\ \/ /\ known # {}
          /\ Returns(c, "missing", None)
          /\ UNCHANGED caches
       \/ /\ known = {}
          /\ \E e \in cached :
               Returns(c, "value", e.value)
          /\ missing' = Missing!Purged(missing, Flag, now)
          /\ UNCHANGED <<single, bulk>>
       \/ /\ known = {} /\ cached = {}
          /\ \E e \in listed :
               IF e.value.body = "absent"
               THEN /\ missing' = Missing!Put(missing, Flag, "absent", now)
                    /\ Returns(c, "missing", None)
               ELSE /\ missing' = Missing!Purged(missing, Flag, now)
                    /\ Returns(c, "value", e.value.body)
          /\ single' = Single!Purged(single, ctx, now)
          /\ UNCHANGED bulk
       \/ /\ known = {} /\ cached = {} /\ listed = {}
          /\ Becomes(c, Send(call))
          /\ missing' = Missing!Purged(missing, Flag, now)
          /\ single' = Single!Purged(single, ctx, now)
          /\ bulk' = Bulk!Purged(bulk, ctx, now)
    /\ UNCHANGED <<now, history, pausedUntil, slowest>>

\* getAllFeatures up to its await: an expired list goes along as its ETag.
GetAllFeatures(c, ctx) ==
    LET call == Begun("getAllFeatures", ctx)
        cached == Bulk!Get(bulk, ctx, now)
        previous == Bulk!GetStale(bulk, ctx, now) IN
    /\ CanBegin(c)
    /\ \/ \E e \in cached :
            Returns(c, "value", e.value.body)
       \/ /\ cached = {} /\ previous = {}
          /\ Becomes(c, Send(call))
       \/ \E e \in previous :
            Becomes(c, Send([call EXCEPT !.previous = e.value]))
    /\ bulk' = Bulk!Purged(bulk, ctx, now)
    /\ UNCHANGED <<now, history, single, missing, pausedUntil, slowest>>

\* Mutant: on a 304 the list is the one the cache holds now.
RevalidatedWithCurrent(call) ==
    LET a == call.answer
        current == {e \in ToSet(bulk) : e.key = call.ctx} IN
    IF a.status = "unchanged" /\ current # {}
    THEN [body |-> (CHOOSE e \in current : TRUE).value.body,
          tag |-> IF a.tag = None THEN call.previous.tag ELSE a.tag]
    ELSE [body |-> a.body, tag |-> a.tag]

\* The list to keep: on a 304 the one whose ETag was sent.
Revalidated(call) ==
    LET a == call.answer IN
    IF a.status = "unchanged"
    THEN [body |-> call.previous.body, tag |-> IF a.tag = None THEN call.previous.tag ELSE a.tag]
    ELSE [body |-> a.body, tag |-> a.tag]

\* The longer of two times.
Longer(t, u) == IF t < u THEN u ELSE t

Receive(c) ==
    LET call == calls[c]
        a == call.answer IN
    /\ call.phase = "answered"
    /\ slowest' = Longer(slowest, now - call.since)
    /\ \/ /\ a.status = "ok" /\ call.op = "isEnabled"
          /\ single' = Single!Put(single, call.ctx, a.body, now)
          /\ Returns(c, "value", a.body)
          /\ UNCHANGED <<bulk, missing>>
       \/ /\ a.status = "notFound"
          /\ missing' = Missing!Put(missing, Flag, "absent", now)
          /\ Returns(c, "missing", None)
          /\ UNCHANGED <<single, bulk>>
       \/ /\ a.status \in {"ok", "unchanged"} /\ call.op = "getAllFeatures"
          /\ LET entry == Revalidated(call) IN
             /\ bulk' = Bulk!Put(bulk, call.ctx, entry, now)
             /\ Returns(c, "value", entry.body)
          /\ UNCHANGED <<single, missing>>
    /\ UNCHANGED <<now, history, pausedUntil>>

\* Mutant: isEnabled does not fall back to an expired list.
CatchWithoutList(c, status) ==
    LET call == calls[c]
        stale == IF call.op = "isEnabled" THEN Single!GetStale(single, call.ctx, now) ELSE {} IN
    /\ \/ \E e \in stale : Returns(c, "stale", e.value)
       \/ stale = {} /\ Returns(c, IF status = "refused" THEN "throws" ELSE "default", None)
    /\ UNCHANGED <<now, history, slowest, caches>>

\* The two catch blocks: a stale value, else a stale list, else the default; the
\* caller's own mistake is thrown.
Catch(c, status) ==
    LET call == calls[c]
        stale == IF call.op = "isEnabled" THEN Single!GetStale(single, call.ctx, now) ELSE {}
        list == {e \in Bulk!GetStale(bulk, call.ctx, now) :
                   call.op = "isEnabled" => e.value.body # "absent"} IN
    /\ \/ \E e \in stale : Returns(c, "stale", e.value)
       \/ /\ stale = {}
          /\ \E e \in list : Returns(c, "stale", e.value.body)
       \/ /\ stale = {} /\ list = {}
          /\ Returns(c, IF status = "refused" THEN "throws" ELSE "default", None)
    /\ single' = IF call.op = "isEnabled" THEN Single!Purged(single, call.ctx, now) ELSE single
    /\ bulk' = IF stale = {} THEN Bulk!Purged(bulk, call.ctx, now) ELSE bulk
    /\ UNCHANGED <<now, history, slowest, missing>>

\* Nothing was sent.
Suppressed(c) ==
    /\ calls[c].phase = "suppressed"
    /\ Catch(c, "limited")
    /\ UNCHANGED pausedUntil

\* The server answers 401 or 403: the key is wrong.
Refused(c) ==
    /\ calls[c].phase = "sent"
    /\ Catch(c, "refused")
    /\ UNCHANGED pausedUntil

\* A 429, whose Retry-After starts a pause; its body is still to come.
RateLimited(c) ==
    /\ calls[c].phase = "sent"
    /\ \E header \in RetryAfters : pausedUntil' = now + ParseRetryAfter(header)
    /\ Becomes(c, [calls[c] EXCEPT !.phase = "limited"])
    /\ UNCHANGED <<now, history, caches, slowest>>

\* throwFromResponse has the body of the 429, or has given up on it.
Limited(c) ==
    /\ calls[c].phase = "limited"
    /\ Catch(c, "limited")
    /\ UNCHANGED pausedUntil

\* A 5xx, a broken connection, or AbortSignal.timeout, which covers the body too.
Breaks(c) ==
    /\ calls[c].phase \in {"sent", "answered"}
    /\ Catch(c, "down")
    /\ UNCHANGED pausedUntil

\* Where a call waits for its request.
Requested == {"sent", "answered", "limited"}

\* A rejection does not wait for its handler.
Prompt(c) == calls[c].phase # "suppressed"

\* Time does not pass a timer that is due: with AbortSignal.timeout a request has
\* ended, its body included, once it has lasted its timeout.
TimerKept(c) ==
    Timeout # 0 /\ calls[c].phase \in Requested => now < calls[c].since + Timeout

Passes ==
    /\ now < Horizon
    /\ \A c \in Calls : Prompt(c)
    /\ now' = now + 1
    /\ returned' = NoResult
    /\ UNCHANGED <<history, caches, pausedUntil, slowest, calls>>

Tick == Passes /\ \A c \in Calls : TimerKept(c)

Next ==
    \/ Change \/ Tick
    \/ \E c \in Calls :
         \/ \E ctx \in Contexts : IsEnabled(c, ctx) \/ GetAllFeatures(c, ctx)
         \/ Answer(c) \/ Receive(c)
         \/ Suppressed(c) \/ Refused(c) \/ RateLimited(c) \/ Limited(c) \/ Breaks(c)

Spec == Init /\ [][Next]_vars

-----------------------------------------------------------------------------
Phase == {"waiting", "sent", "suppressed", "answered", "limited", "done"}
Call(phases) ==
    [phase: phases, op: {"isEnabled", "getAllFeatures", None}, ctx: Contexts \cup {None},
     since: 0..Horizon, previous: BulkEntry \cup {None},
     answer: [status: Status \cup {None}, body: FlagState \cup {None}, tag: FlagState \cup {None}]]
Result == [kind: {"value", "stale", "missing", "default", "throws", None},
           body: FlagState \cup {None}]
Entry(Value) == [key: Contexts \cup {Flag}, value: Value, at: 0..Horizon]
OneOfEach(store) ==
    /\ Len(store) <= MaxEntries
    /\ \A i, j \in DOMAIN store : store[i].key = store[j].key => i = j

\* The variables have these types, if a call is in one of these phases.
Typed(phases) ==
    /\ now \in 0..Horizon
    /\ history \in Seq([state: FlagState, since: 0..Horizon]) /\ history # <<>>
    /\ single \in Seq(Entry({"on", "off"}))
    /\ bulk \in Seq(Entry(BulkEntry))
    /\ missing \in Seq(Entry({"absent"}))
    /\ pausedUntil \in 0..Horizon + MaxBackoff
    /\ slowest \in 0..Horizon
    /\ OneOfEach(single) /\ OneOfEach(bulk) /\ OneOfEach(missing)
    /\ calls \in [Calls -> Call(phases)]
    /\ returned \in Result

\* An ETag is only ever kept with the list it stands for, however many refetches
\* overlap: a 304 cannot renew another list than the one that was asked about.
EtagMatchesBody ==
    \A e \in ToSet(bulk) : e.value.tag \in {None, EtagFor(e.value.body)}

\* The flag was in this state at time t or later.
Held(state, t) == \E i \in DOMAIN history : history[i].state = state /\ Until(i) >= t

\* The age of a value from a cache that keeps it for ttl: none when caching is off.
AgeWithin(ttl) == IF Ttl = 0 THEN 0 ELSE ttl - 1

\* What is returned is no older than one server lag, a request of this duration and the
\* time a cache keeps it: ttl when it is fresh, ttl + staleTtl when a refetch failed.  A
\* flag taken for missing really was missing within the same bound, plus the time the
\* miss is remembered: a miss may be read off a list that is ttl old.
RecentWithin(duration) ==
    LET sent == now - ServerLag - duration IN
    /\ returned.kind = "value" => Held(returned.body, sent - AgeWithin(Ttl))
    /\ returned.kind = "stale" => Held(returned.body, sent - AgeWithin(Ttl + StaleTtl))
    /\ returned.kind = "missing" =>
         Held("absent", sent - AgeWithin(Ttl) - AgeWithin(MissingTtl))

\* When the usable entries that can answer call c were stored.
Readings(c) ==
    {e.at : e \in {e \in Bulk!Read(bulk, calls[c].ctx, now) :
                     calls[c].op = "isEnabled" => e.value.body # "absent"}}
    \cup IF calls[c].op = "isEnabled"
         THEN {e.at : e \in Single!Read(single, calls[c].ctx, now)} ELSE {}

GivesUp(c) ==
    calls'[c] # calls[c] /\ returned'.kind \in {"default", "throws"}

\* A call that fails gives up, on its default or with an error, only if every
\* usable reading was stored after the call began (client.ts, the catch blocks).
GivesUpOnlyWithoutReading ==
    [][\A c \in Calls : GivesUp(c) =>
         \A t \in Readings(c) : t >= calls[c].since]_vars

\* "A real value we fetched earlier always beats a static guess" (client.ts:165):
\* a call never gives up while the client holds a usable reading.  This does not
\* hold: see README, section 6.
AReadingBeatsTheDefault == [][\A c \in Calls : GivesUp(c) => Readings(c) = {}]_vars

\* "On a 429 the client reads Retry-After and sends nothing at all until that
\* moment passes" (packages/sdk-js/README.md:371): a pause is never cut short.
\* This does not hold: see README, section 6.
PauseIsKept == [][pausedUntil' < pausedUntil => now >= pausedUntil]_vars

=============================================================================
