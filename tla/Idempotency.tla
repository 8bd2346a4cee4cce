----------------------------- MODULE Idempotency -----------------------------
(***************************************************************************)
(* Idempotency-Key of the public API: the interceptor looks an answer up   *)
(* in Redis before a handler runs, and stores it, without waiting, after   *)
(* the answer is given.                                                    *)
(***************************************************************************)
EXTENDS Naturals, FiniteSets

CONSTANTS Requests,
          Company, Path, Key, \* of a request; POST and PATCH with a key only
          Missing,
          MaxLapses           \* bound: entries that expire, times Redis goes

ASSUME IdempotencyAssumption == MaxLapses \in Nat /\ Missing \notin Requests

VARIABLES
    cache,    \* cache[k]: the request whose answer is stored, or Missing
    redis,    \* reachable
    step,     \* of a request; "stored" until its entry expires
    given,    \* the request whose answer it was given
    after,    \* those that began with an answer stored for them (not in the code)
    lapses

idempotencyVars == <<cache, redis, step, given, after, lapses>>

Faulty_CacheKey(r) == <<Path[r], Key[r]>>

CacheKey(r) == <<Company[r], Path[r], Key[r]>>
Entries == {CacheKey(r) : r \in Requests}

IdempotencyInit ==
    /\ cache = [k \in Entries |-> Missing]
    /\ redis = TRUE
    /\ step = [r \in Requests |-> "none"]
    /\ given = [r \in Requests |-> Missing]
    /\ after = {}
    /\ lapses = 0

\* cache.get: out of reach counts as a miss.
Found(r) == redis /\ cache[CacheKey(r)] # Missing

Same(r, o) == <<Company[r], Path[r], Key[r]>> = <<Company[o], Path[o], Key[o]>>

Arrive(r) ==
    /\ step[r] = "none"
    /\ step' = [step EXCEPT ![r] = "looking"]
    /\ after' = IF redis /\ \E o \in Requests : step[o] = "stored" /\ Same(r, o)
                THEN after \cup {r} ELSE after
    /\ UNCHANGED <<cache, redis, given, lapses>>

Look(r) ==
    /\ step[r] = "looking"
    /\ IF Found(r)
       THEN /\ step' = [step EXCEPT ![r] = "replayed"]
            /\ given' = [given EXCEPT ![r] = cache[CacheKey(r)]]
       ELSE /\ step' = [step EXCEPT ![r] = "running"]
            /\ UNCHANGED given
    /\ UNCHANGED <<cache, redis, after, lapses>>

\* The handler answers, or throws: an error is not stored.
Answer(r) ==
    /\ step[r] = "running"
    /\ \/ /\ step' = [step EXCEPT ![r] = "answered"]
          /\ given' = [given EXCEPT ![r] = r]
       \/ /\ step' = [step EXCEPT ![r] = "refused"]
          /\ UNCHANGED given
    /\ UNCHANGED <<cache, redis, after, lapses>>

Faulty_Store(r) ==
    /\ step[r] = "answered"
    /\ step' = [step EXCEPT ![r] = "stored"]
    /\ UNCHANGED <<cache, redis, given, after, lapses>>

\* cache.set, after the answer; a failure is only logged.
Store(r) ==
    /\ step[r] = "answered"
    /\ step' = [step EXCEPT ![r] = IF redis THEN "stored" ELSE "expired"]
    /\ cache' = IF redis THEN [cache EXCEPT ![CacheKey(r)] = r] ELSE cache
    /\ UNCHANGED <<redis, given, after, lapses>>

\* An entry expires, or Redis goes out of reach; those it leaves without their
\* answer no longer count.
Lapse ==
    /\ lapses < MaxLapses
    /\ lapses' = lapses + 1
    /\ \/ \E k \in Entries :
            /\ cache' = [cache EXCEPT ![k] = Missing]
            /\ after' = {r \in after : CacheKey(r) # k}
            /\ step' = [r \in Requests |-> IF step[r] = "stored" /\ CacheKey(r) = k
                                          THEN "expired" ELSE step[r]]
            /\ UNCHANGED redis
       \/ /\ redis' = FALSE
          /\ after' = {}
          /\ UNCHANGED <<cache, step>>
    /\ UNCHANGED given

RedisReturns ==
    /\ ~redis
    /\ redis' = TRUE
    /\ UNCHANGED <<cache, step, given, after, lapses>>

Handle(r) == Look(r) \/ Answer(r) \/ Store(r)
IdempotencyNext ==
    \/ \E r \in Requests : Arrive(r) \/ Handle(r)
    \/ Lapse \/ RedisReturns

IdempotencySpec == IdempotencyInit /\ [][IdempotencyNext]_idempotencyVars

-----------------------------------------------------------------------------
\* A second run of one key overlaps the first: it began before the answer of the
\* first was stored, unless the store lost it.  Concurrent requests do run twice:
\* nothing is written before the handler.  (intercept: "evita acoes duplicadas".)
SecondRunOverlaps ==
    \A r \in after : step[r] \in {"looking", "replayed"}

\* A replayed answer is the answer of a request of the same company to the same
\* path with the same key, and that request did run.
ReplaysItsOwn ==
    \A r \in Requests : step[r] = "replayed" =>
        LET o == given[r] IN
        o \in Requests /\ step[o] \in {"stored", "expired"} /\ Same(r, o)
=============================================================================
