----------------------------- MODULE SdkThreads -----------------------------
(***************************************************************************)
(* The Python SDK (packages/sdk-python/src/flagraft/client.py): the same     *)
(* algorithm as SdkClient, run by threads.  Each cache has a lock for one    *)
(* lookup or one store, and nothing is held between two of them, so a call   *)
(* is a sequence of steps that the other threads' steps come between.        *)
(* runtime says which of the two SDKs a behaviour is about.                  *)
(***************************************************************************)
EXTENDS SdkClient

VARIABLE runtime

threadVars == <<vars, runtime>>

ThreadsInit == Init /\ runtime \in {"javascript", "python"}

-----------------------------------------------------------------------------
\* Call c takes a step of its own from one phase to another.
Moves(c, from, to) ==
    /\ calls[c].phase = from
    /\ Becomes(c, [calls[c] EXCEPT !.phase = to])

\* The phases in which no clock is waited for.
Running == {"missing", "single", "bulk", "absent", "list", "gate",
            "previous", "staleSingle", "staleBulk"}

BeginThread(c, op, ctx) ==
    /\ CanBegin(c)
    /\ Becomes(c, [Begun(op, ctx) EXCEPT !.phase = IF op = "isEnabled" THEN "missing" ELSE "list"])
    /\ UNCHANGED <<now, history, caches, pausedUntil, slowest>>

\* is_enabled asks its three caches, one lock after the other.
LookMissing(c) ==
    LET known == Missing!Get(missing, Flag, now) IN
    /\ calls[c].phase = "missing"
    /\ \/ known # {} /\ Returns(c, "missing", None)
       \/ known = {} /\ Moves(c, "missing", "single")
    /\ missing' = Missing!Purged(missing, Flag, now)
    /\ UNCHANGED <<now, history, single, bulk, pausedUntil, slowest>>

LookSingle(c) ==
    LET cached == Single!Get(single, calls[c].ctx, now) IN
    /\ calls[c].phase = "single"
    /\ \/ \E e \in cached : Returns(c, "value", e.value)
       \/ cached = {} /\ Moves(c, "single", "bulk")
    /\ single' = Single!Purged(single, calls[c].ctx, now)
    /\ UNCHANGED <<now, history, bulk, missing, pausedUntil, slowest>>

LookBulk(c) ==
    LET listed == Bulk!Get(bulk, calls[c].ctx, now) IN
    /\ calls[c].phase = "bulk"
    /\ \/ \E e \in listed :
            IF e.value.body = "absent" THEN Moves(c, "bulk", "absent")
                                       ELSE Returns(c, "value", e.value.body)
       \/ listed = {} /\ Moves(c, "bulk", "gate")
    /\ bulk' = Bulk!Purged(bulk, calls[c].ctx, now)
    /\ UNCHANGED <<now, history, single, missing, pausedUntil, slowest>>

NoteAbsent(c) ==
    /\ calls[c].phase = "absent"
    /\ Returns(c, "missing", None)
    /\ missing' = Missing!Put(missing, Flag, "absent", now)
    /\ UNCHANGED <<now, history, single, bulk, pausedUntil, slowest>>

\* get_all_features: get, and get_stale for the ETag, are two lookups.
LookList(c) ==
    LET cached == Bulk!Get(bulk, calls[c].ctx, now) IN
    /\ calls[c].phase = "list"
    /\ \/ \E e \in cached : Returns(c, "value", e.value.body)
       \/ cached = {} /\ Moves(c, "list", "previous")
    /\ bulk' = Bulk!Purged(bulk, calls[c].ctx, now)
    /\ UNCHANGED <<now, history, single, missing, pausedUntil, slowest>>

LookPrevious(c) ==
    LET previous == Bulk!GetStale(bulk, calls[c].ctx, now) IN
    /\ calls[c].phase = "previous"
    /\ \/ \E e \in previous :
            Becomes(c, [calls[c] EXCEPT !.phase = "gate", !.previous = e.value])
       \/ previous = {} /\ Moves(c, "previous", "gate")
    /\ bulk' = Bulk!Purged(bulk, calls[c].ctx, now)
    /\ UNCHANGED <<now, history, single, missing, pausedUntil, slowest>>

\* The first fallback of a failure: is_enabled has one more than the list.
Fails(c, status) ==
    LET next == IF calls[c].op = "isEnabled" THEN "staleSingle" ELSE "staleBulk" IN
    Becomes(c, [calls[c] EXCEPT !.phase = next, !.previous = None,
                                !.answer = [NoAnswer EXCEPT !.status = status]])

Gate(c) ==
    /\ calls[c].phase = "gate"
    /\ IF BackingOff THEN Fails(c, "limited") ELSE Moves(c, "gate", "sent")
    /\ UNCHANGED <<now, history, caches, pausedUntil, slowest>>

RefusedThread(c) ==
    /\ calls[c].phase = "sent"
    /\ Fails(c, "refused")
    /\ UNCHANGED <<now, history, caches, pausedUntil, slowest>>

RateLimitedThread(c) ==
    /\ calls[c].phase = "sent"
    /\ \E header \in RetryAfters : pausedUntil' = now + ParseRetryAfter(header)
    /\ Fails(c, "limited")
    /\ UNCHANGED <<now, history, slowest, caches>>

BreaksThread(c) ==
    /\ calls[c].phase \in {"sent", "answered"}
    /\ Fails(c, "down")
    /\ UNCHANGED <<now, history, caches, pausedUntil, slowest>>

StaleSingle(c) ==
    LET stale == Single!GetStale(single, calls[c].ctx, now) IN
    /\ calls[c].phase = "staleSingle"
    /\ \/ \E e \in stale : Returns(c, "stale", e.value)
       \/ stale = {} /\ Moves(c, "staleSingle", "staleBulk")
    /\ single' = Single!Purged(single, calls[c].ctx, now)
    /\ UNCHANGED <<now, history, bulk, missing, pausedUntil, slowest>>

StaleBulk(c) ==
    LET call == calls[c]
        list == {e \in Bulk!GetStale(bulk, call.ctx, now) :
                   call.op = "isEnabled" => e.value.body # "absent"} IN
    /\ call.phase = "staleBulk"
    /\ \/ \E e \in list : Returns(c, "stale", e.value.body)
       \/ /\ list = {}
          /\ Returns(c, IF call.answer.status = "refused" THEN "throws" ELSE "default", None)
    /\ bulk' = Bulk!Purged(bulk, call.ctx, now)
    /\ UNCHANGED <<now, history, single, missing, pausedUntil, slowest>>

\* close() empties the caches under the calls that are still running.
Close ==
    /\ single' = <<>> /\ bulk' = <<>> /\ missing' = <<>>
    /\ returned' = NoResult
    /\ UNCHANGED <<now, history, pausedUntil, slowest, calls>>

ThreadStep(c) ==
    \/ \E op \in {"isEnabled", "getAllFeatures"}, ctx \in Contexts : BeginThread(c, op, ctx)
    \/ LookMissing(c) \/ LookSingle(c) \/ LookBulk(c) \/ NoteAbsent(c)
    \/ LookList(c) \/ LookPrevious(c) \/ Gate(c)
    \/ Answer(c) \/ Receive(c)
    \/ RefusedThread(c) \/ RateLimitedThread(c) \/ BreaksThread(c)
    \/ StaleSingle(c) \/ StaleBulk(c)

\* The timeout of urllib is for one socket operation: a request lasts as long as the
\* server keeps sending.
ThreadTick == (\A c \in Calls : calls[c].phase \notin Running) /\ Passes

ThreadsNext ==
    /\ UNCHANGED runtime
    /\ \/ runtime = "javascript" /\ Next
       \/ runtime = "python" /\ (Change \/ ThreadTick \/ Close \/ \E c \in Calls : ThreadStep(c))

ThreadsSpec == ThreadsInit /\ [][ThreadsNext]_threadVars

-----------------------------------------------------------------------------
\* The variables have their types in both SDKs, and no cache holds more than its
\* limit or a key twice (cache.ts, set).
TypeOK == Typed(Phase \cup Running) /\ runtime \in {"javascript", "python"}

\* However late, out of order or failing the answers come, what a call returns is no
\* older than the longest that a request has taken so far allows; where a timer ends
\* every request, no older than its timeout allows.
AnswersAreRecent ==
    /\ RecentWithin(slowest)
    /\ runtime = "javascript" /\ Timeout # 0 => RecentWithin(Timeout)

=============================================================================
