--------------------------- MODULE IdempotencyProofs ---------------------------
(* Proofs about Idempotency, for any requests, companies, paths and keys: an   *)
(* answer that is stored and not lost is the one every later request is given. *)
EXTENDS Idempotency, TLAPS

Progress ==
    {"none", "looking", "replayed", "running", "answered", "refused", "stored", "expired"}

IdempotencyTypeOK ==
    /\ cache \in [Entries -> Requests \cup {Missing}]
    /\ redis \in BOOLEAN
    /\ step \in [Requests -> Progress]
    /\ given \in [Requests -> Requests \cup {Missing}]
    /\ after \subseteq Requests
    /\ lapses \in Nat

\* What the cache holds was answered, and what was stored is still held.
CacheHolds ==
    /\ \A k \in Entries : cache[k] # Missing =>
          step[cache[k]] \in {"stored", "expired"} /\ CacheKey(cache[k]) = k
    /\ \A o \in Requests : step[o] = "stored" => cache[CacheKey(o)] # Missing

\* Whoever began with an answer stored for it will find one.
WillFind == \A r \in after : step[r] \in {"looking", "replayed"} /\ Found(r)

IdempotencyInv == IdempotencyTypeOK /\ CacheHolds /\ WillFind /\ ReplaysItsOwn

--------------------------------------------------------------------------------

LEMMA KeyOfRequest ==
  ASSUME NEW r \in Requests
  PROVE  /\ CacheKey(r) \in Entries
         /\ \A o \in Requests : Same(r, o) <=> CacheKey(r) = CacheKey(o)
  BY DEF Entries, CacheKey, Same

LEMMA IdempotencyStarts == IdempotencyInit => IdempotencyInv
<1> SUFFICES ASSUME IdempotencyInit PROVE IdempotencyInv
  OBVIOUS
<1>1. IdempotencyTypeOK
  BY DEF IdempotencyInit, IdempotencyTypeOK, Progress
<1>2. CacheHolds /\ WillFind /\ ReplaysItsOwn
  BY DEF IdempotencyInit, CacheHolds, WillFind, ReplaysItsOwn
<1> QED BY <1>1, <1>2 DEF IdempotencyInv

LEMMA ArriveStep ==
  ASSUME IdempotencyInv, NEW r \in Requests, Arrive(r)
  PROVE  IdempotencyInv'
<1> USE DEF IdempotencyInv
<1>1. /\ step[r] = "none" /\ step' = [step EXCEPT ![r] = "looking"]
      /\ UNCHANGED <<cache, redis, given, lapses>>
      /\ after' = IF redis /\ \E o \in Requests : step[o] = "stored" /\ Same(r, o)
                  THEN after \cup {r} ELSE after
  BY DEF Arrive
<1>2. /\ step' \in [Requests -> Progress] /\ step'[r] = "looking"
      /\ \A o \in Requests : o # r => step'[o] = step[o]
  BY <1>1 DEF IdempotencyTypeOK, Progress
<1>3. IdempotencyTypeOK'
  BY <1>1, <1>2 DEF IdempotencyTypeOK
<1>4. CacheHolds'
  <2>1. \A k \in Entries : cache[k] # Missing => cache[k] \in Requests /\ cache[k] # r
    BY <1>1 DEF CacheHolds, IdempotencyTypeOK
  <2> QED BY <1>1, <1>2, <2>1 DEF CacheHolds
<1>5. WillFind'
  <2>1. ASSUME NEW x \in after' PROVE step'[x] \in {"looking", "replayed"} /\ Found(x)
    <3>1. CASE x \in after
      BY <1>1, <1>2, <3>1 DEF WillFind, IdempotencyTypeOK
    <3>2. CASE x \notin after
      <4>1. PICK o \in Requests : redis /\ x = r /\ step[o] = "stored" /\ Same(r, o)
        BY <1>1, <2>1, <3>2
      <4>2. cache[CacheKey(o)] # Missing /\ CacheKey(o) = CacheKey(r)
        BY <4>1, KeyOfRequest DEF CacheHolds
      <4> QED BY <1>2, <4>1, <4>2 DEF Found
    <3> QED BY <3>1, <3>2
  <2> QED BY <1>1, <2>1 DEF WillFind, Found
<1>6. ReplaysItsOwn'
  BY <1>1, <1>2 DEF ReplaysItsOwn
<1> QED BY <1>3, <1>4, <1>5, <1>6

LEMMA HandleStep ==
  ASSUME IdempotencyInv, NEW r \in Requests, Handle(r)
  PROVE  IdempotencyInv'
<1> USE DEF IdempotencyInv
<1>k. CacheKey(r) \in Entries /\ \A o \in Requests : Same(r, o) <=> CacheKey(r) = CacheKey(o)
  BY KeyOfRequest
<1>1. CASE Look(r) /\ Found(r)
  <2> DEFINE o == cache[CacheKey(r)]
  <2>1. /\ step[r] = "looking" /\ step' = [step EXCEPT ![r] = "replayed"]
        /\ given' = [given EXCEPT ![r] = o] /\ UNCHANGED <<cache, redis, after, lapses>>
    BY <1>1 DEF Look
  <2>2. o \in Requests /\ step[o] \in {"stored", "expired"} /\ CacheKey(o) = CacheKey(r)
    BY <1>1, <1>k DEF Found, CacheHolds, IdempotencyTypeOK
  <2> HIDE DEF o
  <2>3. /\ step' \in [Requests -> Progress] /\ step'[r] = "replayed"
        /\ \A q \in Requests : q # r => step'[q] = step[q]
        /\ given' \in [Requests -> Requests \cup {Missing}] /\ given'[r] = o
        /\ \A q \in Requests : q # r => given'[q] = given[q]
    BY <2>1, <2>2 DEF IdempotencyTypeOK, Progress
  <2>4. IdempotencyTypeOK'
    BY <2>1, <2>3 DEF IdempotencyTypeOK
  <2>5. CacheHolds'
    <3>1. \A k \in Entries : cache[k] # Missing => cache[k] \in Requests /\ cache[k] # r
      BY <2>1 DEF CacheHolds, IdempotencyTypeOK
    <3> QED BY <2>1, <2>3, <3>1 DEF CacheHolds
  <2>6. WillFind'
    BY <2>1, <2>3 DEF WillFind, Found, IdempotencyTypeOK
  <2>7. ReplaysItsOwn'
    BY <1>k, <2>1, <2>2, <2>3 DEF ReplaysItsOwn
  <2> QED BY <2>4, <2>5, <2>6, <2>7
<1>2. CASE (Look(r) /\ ~Found(r)) \/ Answer(r)
  <2>1. /\ step[r] \in {"looking", "running"} /\ r \notin after
        /\ \E s \in {"running", "answered", "refused"} : step' = [step EXCEPT ![r] = s]
        /\ given' \in [Requests -> Requests \cup {Missing}]
        /\ \A q \in Requests : q # r => given'[q] = given[q]
        /\ UNCHANGED <<cache, redis, after, lapses>>
    BY <1>2 DEF Look, Answer, WillFind, IdempotencyTypeOK
  <2>2. /\ step' \in [Requests -> Progress] /\ step'[r] \in {"running", "answered", "refused"}
        /\ \A q \in Requests : q # r => step'[q] = step[q]
    BY <2>1 DEF IdempotencyTypeOK, Progress
  <2>3. IdempotencyTypeOK'
    BY <2>1, <2>2 DEF IdempotencyTypeOK
  <2>4. CacheHolds'
    <3>1. \A k \in Entries : cache[k] # Missing => cache[k] \in Requests /\ cache[k] # r
      BY <2>1 DEF CacheHolds, IdempotencyTypeOK
    <3> QED BY <2>1, <2>2, <3>1 DEF CacheHolds
  <2>5. WillFind'
    BY <2>1, <2>2 DEF WillFind, Found, IdempotencyTypeOK
  <2>6. ReplaysItsOwn'
    BY <2>1, <2>2 DEF ReplaysItsOwn
  <2> QED BY <2>3, <2>4, <2>5, <2>6
<1>3. CASE Store(r)
  <2>1. /\ step[r] = "answered" /\ UNCHANGED <<redis, given, after, lapses>>
        /\ step' = [step EXCEPT ![r] = IF redis THEN "stored" ELSE "expired"]
        /\ cache' = IF redis THEN [cache EXCEPT ![CacheKey(r)] = r] ELSE cache
    BY <1>3 DEF Store
  <2>2. /\ step' \in [Requests -> Progress] /\ step'[r] = IF redis THEN "stored" ELSE "expired"
        /\ \A q \in Requests : q # r => step'[q] = step[q]
    BY <2>1 DEF IdempotencyTypeOK, Progress
  <2>3. /\ cache' \in [Entries -> Requests \cup {Missing}]
        /\ \A k \in Entries : cache'[k] = IF redis /\ k = CacheKey(r) THEN r ELSE cache[k]
    BY <1>k, <2>1 DEF IdempotencyTypeOK
  <2>4. IdempotencyTypeOK'
    BY <2>1, <2>2, <2>3 DEF IdempotencyTypeOK
  <2>5. CacheHolds'
    <3>1. ASSUME NEW k \in Entries, cache'[k] # Missing
          PROVE  step'[cache'[k]] \in {"stored", "expired"} /\ CacheKey(cache'[k]) = k
      <4>1. CASE redis /\ k = CacheKey(r)
        BY <2>2, <2>3, <4>1
      <4>2. CASE ~(redis /\ k = CacheKey(r))
        <5>1. cache'[k] = cache[k] /\ cache[k] \in Requests /\ cache[k] # r
          BY <2>1, <2>3, <3>1, <4>2 DEF CacheHolds, IdempotencyTypeOK
        <5> QED BY <2>2, <3>1, <5>1 DEF CacheHolds
      <4> QED BY <4>1, <4>2
    <3>2. ASSUME NEW o \in Requests, step'[o] = "stored" PROVE cache'[CacheKey(o)] # Missing
      <4>1. CacheKey(o) \in Entries
        BY KeyOfRequest
      <4>2. redis \/ o # r
        BY <2>2, <3>2
      <4> QED BY <2>2, <2>3, <3>2, <4>1, <4>2, IdempotencyAssumption DEF CacheHolds
    <3>3. CacheHolds' <=>
            /\ \A k \in Entries : cache'[k] # Missing =>
                  step'[cache'[k]] \in {"stored", "expired"} /\ CacheKey(cache'[k]) = k
            /\ \A o \in Requests : step'[o] = "stored" => cache'[CacheKey(o)] # Missing
      BY DEF CacheHolds
    <3> QED BY <3>1, <3>2, <3>3
  <2>6. WillFind'
    <3>1. ASSUME NEW x \in after
          PROVE  step'[x] \in {"looking", "replayed"} /\ redis /\ cache'[CacheKey(x)] # Missing
      <4>1. x \in Requests /\ CacheKey(x) \in Entries
        BY KeyOfRequest DEF IdempotencyTypeOK
      <4> QED BY <2>1, <2>2, <2>3, <4>1, IdempotencyAssumption DEF WillFind, Found
    <3> QED BY <2>1, <3>1 DEF WillFind, Found
  <2>7. ReplaysItsOwn'
    BY <2>1, <2>2 DEF ReplaysItsOwn
  <2> QED BY <2>4, <2>5, <2>6, <2>7
<1> QED BY <1>1, <1>2, <1>3 DEF Handle

LEMMA LapseStep ==
  ASSUME IdempotencyInv, Lapse
  PROVE  IdempotencyInv'
<1> USE DEF IdempotencyInv
<1>0. lapses' \in Nat /\ UNCHANGED given
  BY DEF Lapse, IdempotencyTypeOK
<1>1. CASE redis' = FALSE /\ after' = {} /\ UNCHANGED <<cache, step>>
  BY <1>0, <1>1 DEF IdempotencyTypeOK, CacheHolds, WillFind, ReplaysItsOwn
<1>2. ASSUME NEW k \in Entries,
             cache' = [cache EXCEPT ![k] = Missing],
             after' = {r \in after : CacheKey(r) # k},
             step' = [r \in Requests |-> IF step[r] = "stored" /\ CacheKey(r) = k
                                        THEN "expired" ELSE step[r]],
             UNCHANGED redis
      PROVE  IdempotencyInv'
  <2>1. /\ step' \in [Requests -> Progress]
        /\ \A o \in Requests :
              step'[o] = IF step[o] = "stored" /\ CacheKey(o) = k THEN "expired" ELSE step[o]
    BY <1>2 DEF IdempotencyTypeOK, Progress
  <2>2. /\ cache' \in [Entries -> Requests \cup {Missing}] /\ cache'[k] = Missing
        /\ \A e \in Entries : e # k => cache'[e] = cache[e]
    BY <1>2 DEF IdempotencyTypeOK
  <2>3. IdempotencyTypeOK'
    BY <1>0, <1>2, <2>1, <2>2 DEF IdempotencyTypeOK
  <2>4. CacheHolds'
    <3>1. ASSUME NEW e \in Entries, cache'[e] # Missing
          PROVE  step'[cache'[e]] \in {"stored", "expired"} /\ CacheKey(cache'[e]) = e
      <4>1. e # k /\ cache'[e] = cache[e] /\ cache[e] \in Requests
        BY <2>2, <3>1 DEF IdempotencyTypeOK
      <4> QED BY <2>1, <3>1, <4>1 DEF CacheHolds
    <3>2. ASSUME NEW o \in Requests, step'[o] = "stored" PROVE cache'[CacheKey(o)] # Missing
      <4>1. CacheKey(o) \in Entries
        BY KeyOfRequest
      <4>2. step[o] = "stored" /\ CacheKey(o) # k
        BY <2>1, <3>2
      <4> QED BY <2>2, <4>1, <4>2 DEF CacheHolds
    <3>3. CacheHolds' <=>
            /\ \A e \in Entries : cache'[e] # Missing =>
                  step'[cache'[e]] \in {"stored", "expired"} /\ CacheKey(cache'[e]) = e
            /\ \A o \in Requests : step'[o] = "stored" => cache'[CacheKey(o)] # Missing
      BY DEF CacheHolds
    <3> QED BY <3>1, <3>2, <3>3
  <2>5. WillFind'
    <3>1. ASSUME NEW x \in after'
          PROVE  step'[x] \in {"looking", "replayed"} /\ redis' /\ cache'[CacheKey(x)] # Missing
      <4>1. x \in after /\ x \in Requests /\ CacheKey(x) \in Entries /\ CacheKey(x) # k
        BY <1>2, <3>1, KeyOfRequest DEF IdempotencyTypeOK
      <4> QED BY <1>2, <2>1, <2>2, <4>1 DEF WillFind, Found
    <3> QED BY <3>1 DEF WillFind, Found
  <2>6. ReplaysItsOwn'
    BY <1>0, <2>1 DEF ReplaysItsOwn
  <2> QED BY <2>3, <2>4, <2>5, <2>6
<1> QED BY <1>1, <1>2 DEF Lapse

\* The invariant holds in every state the interceptor can reach.
THEOREM IdempotencyInvariant == IdempotencySpec => []IdempotencyInv
<1>1. ASSUME IdempotencyInv, [IdempotencyNext]_idempotencyVars PROVE IdempotencyInv'
  <2>1. CASE RedisReturns \/ UNCHANGED idempotencyVars
    <3>1. UNCHANGED <<cache, step, given, after, lapses>> /\ redis' \in BOOLEAN
          /\ (after # {} => redis' = redis)
      BY <1>1, <2>1 DEF RedisReturns, idempotencyVars, IdempotencyInv, IdempotencyTypeOK,
                        WillFind, Found
    <3> QED BY <1>1, <3>1 DEF IdempotencyInv, IdempotencyTypeOK, CacheHolds, WillFind, Found,
                              ReplaysItsOwn
  <2> QED BY <1>1, <2>1, ArriveStep, HandleStep, LapseStep DEF IdempotencyNext
<1>2. IdempotencyInv /\ [IdempotencyNext]_idempotencyVars => IdempotencyInv'
  BY <1>1
<1> QED BY IdempotencyStarts, <1>2, PTL DEF IdempotencySpec

\* A request that began after the first answer was stored, and while nothing was lost,
\* never runs.
THEOREM SecondRunsOverlap == IdempotencySpec => []SecondRunOverlaps
<1>1. IdempotencyInv => SecondRunOverlaps
  BY DEF IdempotencyInv, WillFind, SecondRunOverlaps
<1> QED BY <1>1, IdempotencyInvariant, PTL

\* What is replayed is the answer of a request of the same company, path and key.
THEOREM RepliesAreOwn == IdempotencySpec => []ReplaysItsOwn
<1>1. IdempotencyInv => ReplaysItsOwn
  BY DEF IdempotencyInv
<1> QED BY <1>1, IdempotencyInvariant, PTL
================================================================================
