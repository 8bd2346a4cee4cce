------------------------- MODULE OutboundWebhooksProofs -------------------------
(* Proofs about OutboundWebhooks, for any events, webhooks, attempts and       *)
(* mishaps: a receiver takes an event again only for a reason, and the log of  *)
(* deliveries agrees with the queue.                                           *)
EXTENDS OutboundWebhooks, Integers, TLAPS

JobStates == {"none", "waiting", "posting", "posted", "recorded",
              "completed", "failed", "skipped"}

OutboundTypeOK ==
    /\ webhook \in [Webhooks -> {"active", "inactive", "gone"}]
    /\ chosen \in [Events \cup Tests -> SUBSET Webhooks]
    /\ raised \subseteq Events \cup Tests
    /\ state \in [Jobs -> JobStates]
    /\ made \in [Jobs -> Nat]
    /\ answer \in [Jobs -> BOOLEAN]
    /\ taken \in [Jobs -> Nat] /\ lost \in [Jobs -> Nat]
    /\ DOMAIN log = Jobs
    /\ mishaps \in Nat

\* A job is queued once: what a dispatch has chosen has no job yet.
QueuedOnce ==
    \A e \in Events \cup Tests : \A w \in Webhooks :
        /\ w \in chosen[e] => e \in raised
        /\ w \in chosen[e] \/ e \notin raised => state[<<e, w>>] = "none"

\* A success is known to the worker until the job is completed, and then to the queue.
AnswerHeld(j) ==
    /\ answer[j] => state[j] \in {"posted", "recorded", "completed"}
    /\ state[j] = "completed" => answer[j]

\* Every post taken is one whose answer was lost, or the one whose answer is held.
Accounted(j) == taken[j] <= lost[j] + (IF answer[j] THEN 1 ELSE 0)

Refusals(n) == {<<a, FALSE>> : a \in 1..n}

\* The log, in step with the queue.
LogInStep(j) ==
    webhook[j[2]] # "gone" =>
        /\ state[j] \in {"recorded", "completed"} => <<made[j] + 1, answer[j]>> \in log[j]
        /\ mishaps = 0 =>
             log[j] = Refusals(made[j]) \cup
                      (IF state[j] \in {"recorded", "completed"}
                       THEN {<<made[j] + 1, answer[j]>>} ELSE {})

JobOK(j) == AnswerHeld(j) /\ Accounted(j) /\ LogInStep(j)
OutboundInv == OutboundTypeOK /\ QueuedOnce /\ \A j \in Jobs : JobOK(j)

--------------------------------------------------------------------------------
(* Jobs are opaque outside these lemmas.                                      *)

LEMMA JobParts ==
  /\ \A j \in Jobs : /\ j[1] \in Events \cup Tests /\ j[2] \in Webhooks
                     /\ j = <<j[1], j[2]>>
  /\ \A e \in Events \cup Tests : \A w \in Webhooks : <<e, w>> \in Jobs
  BY DEF Jobs

LEMMA OneMoreRefusal ==
  ASSUME NEW n \in Nat
  PROVE  Refusals(n + 1) = Refusals(n) \cup {<<n + 1, FALSE>>}
<1>1. 1..(n + 1) = (1..n) \cup {n + 1}
  OBVIOUS
<1> QED BY <1>1 DEF Refusals

LEMMA NoRefusal == Refusals(0) = {}
<1>1. 1..0 = {}
  OBVIOUS
<1> QED BY <1>1 DEF Refusals

\* What a step of one job owes: its own facts; the others keep theirs.
Alone(j) ==
    /\ UNCHANGED <<webhook, chosen, raised>> /\ mishaps' \in Nat
    /\ mishaps' = 0 => mishaps = 0
    /\ state' \in [Jobs -> JobStates] /\ made' \in [Jobs -> Nat]
    /\ answer' \in [Jobs -> BOOLEAN] /\ taken' \in [Jobs -> Nat] /\ lost' \in [Jobs -> Nat]
    /\ DOMAIN log' = Jobs
    /\ \A i \in Jobs : i # j =>
          /\ state'[i] = state[i] /\ made'[i] = made[i] /\ answer'[i] = answer[i]
          /\ taken'[i] = taken[i] /\ lost'[i] = lost[i] /\ log'[i] = log[i]

LEMMA AloneStep ==
  ASSUME OutboundInv, NEW j \in Jobs, Alone(j), JobOK(j)', state[j] # "none"
  PROVE  OutboundInv'
<1>1. OutboundTypeOK'
  BY DEF OutboundInv, OutboundTypeOK, Alone
<1>2. QueuedOnce'
  <2>1. ASSUME NEW e \in Events \cup Tests, NEW w \in Webhooks,
               w \in chosen[e] \/ e \notin raised
        PROVE  state'[<<e, w>>] = "none"
    BY <2>1, JobParts DEF OutboundInv, QueuedOnce, Alone
  <2>2. \A e \in Events \cup Tests : \A w \in Webhooks : w \in chosen[e] => e \in raised
    BY DEF OutboundInv, QueuedOnce
  <2> QED BY <2>1, <2>2 DEF QueuedOnce, Alone
<1>3. ASSUME NEW i \in Jobs, i # j PROVE JobOK(i)'
  BY <1>3 DEF OutboundInv, Alone, JobOK, AnswerHeld, Accounted, LogInStep
<1> QED BY <1>1, <1>2, <1>3 DEF OutboundInv

--------------------------------------------------------------------------------
(* The worker.                                                                *)

\* The job goes back to the queue without an answer.
LEMMA RetriedFacts ==
  ASSUME OutboundTypeOK, NEW j \in Jobs, Retried(j)
  PROVE  /\ state' \in [Jobs -> JobStates] /\ state'[j] \in {"waiting", "failed"}
         /\ made' \in [Jobs -> Nat] /\ made'[j] = made[j] + 1
         /\ answer' \in [Jobs -> BOOLEAN] /\ answer'[j] = FALSE
         /\ \A i \in Jobs : i # j =>
               state'[i] = state[i] /\ made'[i] = made[i] /\ answer'[i] = answer[i]
  BY DEF OutboundTypeOK, Retried, JobStates

LEMMA ForgottenFacts ==
  ASSUME OutboundTypeOK, NEW js
  PROVE  /\ Forgotten(js) \in [Jobs -> Nat]
         /\ \A i \in Jobs : Forgotten(js)[i] = IF i \in js /\ answer[i] THEN lost[i] + 1
                                              ELSE lost[i]
  BY DEF OutboundTypeOK, Forgotten

LEMMA StartStep ==
  ASSUME OutboundInv, NEW j \in Jobs, Start(j)
  PROVE  OutboundInv'
<1>0. OutboundTypeOK /\ JobOK(j)
  BY DEF OutboundInv
<1>1. /\ state[j] = "waiting" /\ state' \in [Jobs -> JobStates]
      /\ state'[j] \in {"posting", "skipped"}
      /\ \A i \in Jobs : i # j => state'[i] = state[i]
      /\ UNCHANGED <<webhook, chosen, raised, made, answer, log, taken, lost, mishaps>>
  BY <1>0 DEF Start, OutboundTypeOK, JobStates
<1>2. Alone(j)
  BY <1>0, <1>1 DEF Alone, OutboundTypeOK
<1>3. JobOK(j)'
  BY <1>0, <1>1 DEF JobOK, AnswerHeld, Accounted, LogInStep
<1> QED BY <1>1, <1>2, <1>3, AloneStep

LEMMA PostStep ==
  ASSUME OutboundInv, NEW j \in Jobs, Post(j)
  PROVE  OutboundInv'
<1>0. OutboundTypeOK /\ JobOK(j)
  BY DEF OutboundInv
<1>1. PICK took \in BOOLEAN : \E ok \in {FALSE, took} :
         /\ answer' = [answer EXCEPT ![j] = ok]
         /\ taken' = [taken EXCEPT ![j] = IF took THEN taken[j] + 1 ELSE taken[j]]
         /\ lost' = [lost EXCEPT ![j] = IF took /\ ~ok THEN lost[j] + 1 ELSE lost[j]]
  BY DEF Post
<1>2. PICK ok \in {FALSE, took} :
         /\ answer' = [answer EXCEPT ![j] = ok]
         /\ taken' = [taken EXCEPT ![j] = IF took THEN taken[j] + 1 ELSE taken[j]]
         /\ lost' = [lost EXCEPT ![j] = IF took /\ ~ok THEN lost[j] + 1 ELSE lost[j]]
  BY <1>1
<1>3. /\ state[j] = "posting" /\ state' \in [Jobs -> JobStates] /\ state'[j] = "posted"
      /\ \A i \in Jobs : i # j => state'[i] = state[i]
      /\ UNCHANGED <<webhook, chosen, raised, made, log, mishaps>>
  BY <1>0 DEF Post, OutboundTypeOK, JobStates
<1>4. /\ answer' \in [Jobs -> BOOLEAN] /\ taken' \in [Jobs -> Nat] /\ lost' \in [Jobs -> Nat]
      /\ \A i \in Jobs : i # j => answer'[i] = answer[i] /\ taken'[i] = taken[i]
                                  /\ lost'[i] = lost[i]
      /\ taken'[j] = IF took THEN taken[j] + 1 ELSE taken[j]
      /\ lost'[j] = IF took /\ ~ok THEN lost[j] + 1 ELSE lost[j]
  <2>1. ok \in BOOLEAN
    BY <1>1
  <2>2. /\ answer \in [Jobs -> BOOLEAN] /\ taken \in [Jobs -> Nat] /\ lost \in [Jobs -> Nat]
        /\ taken[j] \in Nat /\ lost[j] \in Nat
    BY <1>0 DEF OutboundTypeOK
  <2>3. /\ taken' \in [Jobs -> Nat] /\ taken'[j] = IF took THEN taken[j] + 1 ELSE taken[j]
        /\ \A i \in Jobs : i # j => taken'[i] = taken[i]
    BY <1>2, <2>2
  <2>4. /\ lost' \in [Jobs -> Nat]
        /\ lost'[j] = IF took /\ ~ok THEN lost[j] + 1 ELSE lost[j]
        /\ \A i \in Jobs : i # j => lost'[i] = lost[i]
    BY <1>2, <2>2
  <2>5. answer' \in [Jobs -> BOOLEAN] /\ \A i \in Jobs : i # j => answer'[i] = answer[i]
    BY <1>2, <2>1, <2>2
  <2> QED BY <2>3, <2>4, <2>5
<1>5. answer'[j] = ok /\ answer[j] = FALSE
  BY <1>0, <1>2, <1>3 DEF OutboundTypeOK, JobOK, AnswerHeld
<1>6. Alone(j)
  BY <1>0, <1>3, <1>4 DEF Alone, OutboundTypeOK
<1>7. Accounted(j)'
  <2>1. taken[j] \in Nat /\ lost[j] \in Nat /\ taken[j] <= lost[j]
    <3>1. taken[j] \in Nat /\ lost[j] \in Nat
      BY <1>0 DEF OutboundTypeOK
    <3> QED BY <1>0, <1>5, <3>1 DEF JobOK, Accounted
  <2>2. CASE took /\ ok
    BY <1>4, <1>5, <2>1, <2>2 DEF Accounted
  <2>3. CASE took /\ ~ok
    BY <1>4, <1>5, <2>1, <2>3 DEF Accounted
  <2>4. CASE ~took
    BY <1>2, <1>4, <1>5, <2>1, <2>4 DEF Accounted
  <2> QED BY <2>2, <2>3, <2>4
<1>8. AnswerHeld(j)'
  BY <1>3 DEF AnswerHeld
<1>9. LogInStep(j)'
  BY <1>0, <1>3 DEF JobOK, LogInStep
<1> QED BY <1>3, <1>6, <1>7, <1>8, <1>9, AloneStep DEF JobOK

LEMMA RecordStep ==
  ASSUME OutboundInv, NEW j \in Jobs, Record(j)
  PROVE  OutboundInv'
<1>0. OutboundTypeOK /\ JobOK(j)
  BY DEF OutboundInv
<1>1. /\ state[j] = "posted" /\ state' \in [Jobs -> JobStates] /\ state'[j] = "recorded"
      /\ \A i \in Jobs : i # j => state'[i] = state[i]
      /\ UNCHANGED <<webhook, chosen, raised, made, answer, taken, lost, mishaps>>
  BY <1>0 DEF Record, OutboundTypeOK, JobStates
<1>2. /\ DOMAIN log' = Jobs /\ log'[j] = log[j] \cup {<<made[j] + 1, answer[j]>>}
      /\ \A i \in Jobs : i # j => log'[i] = log[i]
  BY <1>0 DEF Record, OutboundTypeOK
<1>3. Alone(j)
  BY <1>0, <1>1, <1>2 DEF Alone, OutboundTypeOK
<1>4. AnswerHeld(j)' /\ Accounted(j)'
  BY <1>0, <1>1 DEF JobOK, AnswerHeld, Accounted
<1>5. LogInStep(j)'
  BY <1>0, <1>1, <1>2 DEF JobOK, LogInStep
<1> QED BY <1>1, <1>3, <1>4, <1>5, AloneStep DEF JobOK

LEMMA ThrowsStep ==
  ASSUME OutboundInv, NEW j \in Jobs, ReadThrows(j) \/ RecordThrows(j)
  PROVE  OutboundInv'
<1>0. OutboundTypeOK /\ JobOK(j)
  BY DEF OutboundInv
<1>1. /\ Retried(j) /\ state[j] \in {"waiting", "posted"}
      /\ UNCHANGED <<webhook, chosen, raised, log, taken>>
      /\ mishaps' \in Nat /\ (mishaps' = 0 => mishaps = 0)
      /\ mishaps' = 0 => webhook[j[2]] = "gone"
  BY <1>0 DEF ReadThrows, RecordThrows, OutboundTypeOK
<1>2. /\ state' \in [Jobs -> JobStates] /\ state'[j] \in {"waiting", "failed"}
      /\ made' \in [Jobs -> Nat] /\ made'[j] = made[j] + 1
      /\ answer' \in [Jobs -> BOOLEAN] /\ answer'[j] = FALSE
      /\ \A i \in Jobs : i # j =>
            state'[i] = state[i] /\ made'[i] = made[i] /\ answer'[i] = answer[i]
  BY <1>0, <1>1, RetriedFacts
<1>3. /\ lost' \in [Jobs -> Nat]
      /\ lost'[j] = IF answer[j] THEN lost[j] + 1 ELSE lost[j]
      /\ \A i \in Jobs : i # j => lost'[i] = lost[i]
  <2>1. CASE ReadThrows(j)
    BY <1>0, <2>1 DEF ReadThrows, OutboundTypeOK, JobOK, AnswerHeld
  <2>2. CASE RecordThrows(j)
    <3>1. lost' = Forgotten({j})
      BY <2>2 DEF RecordThrows
    <3> QED BY <1>0, <3>1, ForgottenFacts
  <2> QED BY <2>1, <2>2
<1>4. Alone(j)
  BY <1>0, <1>1, <1>2, <1>3 DEF Alone, OutboundTypeOK
<1>5. AnswerHeld(j)'
  BY <1>2 DEF AnswerHeld
<1>6. Accounted(j)'
  <2>1. taken[j] \in Nat /\ lost[j] \in Nat
    BY <1>0 DEF OutboundTypeOK
  <2> QED BY <1>0, <1>1, <1>2, <1>3, <2>1 DEF JobOK, Accounted
<1>7. LogInStep(j)'
  BY <1>1, <1>2 DEF LogInStep
<1> QED BY <1>1, <1>4, <1>5, <1>6, <1>7, AloneStep DEF JobOK

LEMMA SettleStep ==
  ASSUME OutboundInv, NEW j \in Jobs, Settle(j)
  PROVE  OutboundInv'
<1>0. /\ OutboundTypeOK /\ JobOK(j) /\ made[j] \in Nat /\ taken[j] \in Nat /\ lost[j] \in Nat
      /\ state[j] = "recorded"
      /\ UNCHANGED <<webhook, chosen, raised, log, taken, lost, mishaps>>
  BY DEF OutboundInv, OutboundTypeOK, Settle
<1>1. CASE answer[j]
  <2>1. /\ state' = [state EXCEPT ![j] = "completed"] /\ UNCHANGED <<made, answer>>
    BY <1>1 DEF Settle
  <2>2. /\ state' \in [Jobs -> JobStates] /\ state'[j] = "completed"
        /\ \A i \in Jobs : i # j => state'[i] = state[i]
    BY <1>0, <2>1 DEF OutboundTypeOK, JobStates
  <2>3. Alone(j)
    BY <1>0, <2>1, <2>2 DEF Alone, OutboundTypeOK
  <2>4. JobOK(j)'
    BY <1>0, <1>1, <2>1, <2>2 DEF JobOK, AnswerHeld, Accounted, LogInStep
  <2> QED BY <1>0, <2>3, <2>4, AloneStep
<1>2. CASE ~answer[j]
  <2>1. Retried(j)
    BY <1>2 DEF Settle
  <2>2. /\ state' \in [Jobs -> JobStates] /\ state'[j] \in {"waiting", "failed"}
        /\ made' \in [Jobs -> Nat] /\ made'[j] = made[j] + 1
        /\ answer' \in [Jobs -> BOOLEAN] /\ answer'[j] = FALSE
        /\ \A i \in Jobs : i # j =>
              state'[i] = state[i] /\ made'[i] = made[i] /\ answer'[i] = answer[i]
    BY <1>0, <2>1, RetriedFacts
  <2>3. Alone(j)
    BY <1>0, <2>2 DEF Alone, OutboundTypeOK
  <2>4. AnswerHeld(j)' /\ Accounted(j)'
    BY <1>0, <1>2, <2>2 DEF JobOK, AnswerHeld, Accounted
  <2>5. LogInStep(j)'
    <3>1. answer[j] = FALSE
      BY <1>0, <1>2 DEF OutboundTypeOK
    <3>2. mishaps = 0 /\ webhook[j[2]] # "gone" => log[j] = Refusals(made[j] + 1)
      BY <1>0, <3>1, OneMoreRefusal DEF JobOK, LogInStep
    <3> QED BY <1>0, <2>2, <3>2 DEF LogInStep
  <2> QED BY <1>0, <2>3, <2>4, <2>5, AloneStep DEF JobOK
<1> QED BY <1>1, <1>2

--------------------------------------------------------------------------------
(* Dispatch, administration, and the death of the process.                    *)

LEMMA DispatchStep ==
  ASSUME OutboundInv, NEW e \in Events \cup Tests, Dispatch(e)
  PROVE  OutboundInv'
<1>1. /\ e \notin raised /\ raised' = raised \cup {e}
      /\ UNCHANGED <<webhook, state, made, answer, log, taken, lost, mishaps>>
      /\ OutboundTypeOK /\ QueuedOnce /\ \A j \in Jobs : JobOK(j)
  BY DEF Dispatch, queueVars, OutboundInv
<1>2. PICK ws \in Recipients(e) : chosen' = [chosen EXCEPT ![e] = ws]
  BY DEF Dispatch
<1>3. ws \subseteq Webhooks
  BY <1>2 DEF Recipients
<1>4. /\ chosen' \in [Events \cup Tests -> SUBSET Webhooks]
      /\ \A f \in Events \cup Tests : f # e => chosen'[f] = chosen[f]
  BY <1>1, <1>2, <1>3 DEF OutboundTypeOK
<1>5. OutboundTypeOK'
  BY <1>1, <1>4 DEF OutboundTypeOK
<1>6. QueuedOnce'
  BY <1>1, <1>4 DEF QueuedOnce
<1>7. \A j \in Jobs : JobOK(j)'
  BY <1>1 DEF JobOK, AnswerHeld, Accounted, LogInStep
<1> QED BY <1>5, <1>6, <1>7 DEF OutboundInv

LEMMA EnqueueStep ==
  ASSUME OutboundInv, NEW e \in Events \cup Tests, NEW w \in Webhooks, Enqueue(e, w)
  PROVE  OutboundInv'
<1>0. OutboundTypeOK /\ QueuedOnce /\ \A i \in Jobs : JobOK(i)
  BY DEF OutboundInv
<1>1. /\ w \in chosen[e] /\ chosen' = [chosen EXCEPT ![e] = chosen[e] \ {w}]
      /\ UNCHANGED <<webhook, raised, made, answer, log, taken, lost>>
      /\ \/ state' = [state EXCEPT ![<<e, w>>] = "waiting"] /\ mishaps' = mishaps
         \/ state' = state /\ mishaps' = mishaps + 1
  BY DEF Enqueue
<1>2. <<e, w>> \in Jobs /\ state[<<e, w>>] = "none" /\ e \in raised
  BY <1>0, <1>1, JobParts DEF QueuedOnce
<1>3. /\ state' \in [Jobs -> JobStates] /\ mishaps' \in Nat /\ (mishaps' = 0 => mishaps = 0)
      /\ \A i \in Jobs : \/ state'[i] = state[i]
                         \/ i = <<e, w>> /\ state[i] = "none" /\ state'[i] = "waiting"
  BY <1>0, <1>1, <1>2 DEF OutboundTypeOK, JobStates
<1>4. /\ chosen' \in [Events \cup Tests -> SUBSET Webhooks]
      /\ \A f \in Events \cup Tests : f # e => chosen'[f] = chosen[f]
      /\ chosen'[e] = chosen[e] \ {w}
  BY <1>0, <1>1 DEF OutboundTypeOK
<1>5. OutboundTypeOK'
  BY <1>0, <1>1, <1>3, <1>4 DEF OutboundTypeOK
<1>6. QueuedOnce'
  <2>1. ASSUME NEW f \in Events \cup Tests, NEW v \in Webhooks,
               v \in chosen'[f] \/ f \notin raised'
        PROVE  state'[<<f, v>>] = "none"
    <3>1. <<f, v>> \in Jobs /\ <<f, v>> # <<e, w>> /\ state[<<f, v>>] = "none"
      BY <1>0, <1>1, <1>2, <1>4, <2>1, JobParts DEF QueuedOnce
    <3> QED BY <1>3, <3>1
  <2>2. ASSUME NEW f \in Events \cup Tests, NEW v \in Webhooks, v \in chosen'[f]
        PROVE  f \in raised'
    BY <1>0, <1>1, <1>4, <2>2 DEF QueuedOnce
  <2> QED BY <2>1, <2>2 DEF QueuedOnce
<1>7. \A i \in Jobs : JobOK(i)'
  <2>1. ASSUME NEW i \in Jobs PROVE JobOK(i)'
    <3>1. JobOK(i) /\ (mishaps' = 0 => mishaps = 0)
      BY <1>0, <1>3
    <3>2. AnswerHeld(i)' /\ Accounted(i)'
      BY <1>1, <1>3, <3>1 DEF JobOK, AnswerHeld, Accounted
    <3>3. LogInStep(i)'
      BY <1>1, <1>3, <3>1 DEF JobOK, LogInStep
    <3> QED BY <3>2, <3>3 DEF JobOK
  <2> QED BY <2>1
<1> QED BY <1>5, <1>6, <1>7 DEF OutboundInv

LEMMA AdministerStep ==
  ASSUME OutboundInv, NEW w \in Webhooks, Administer(w)
  PROVE  OutboundInv'
<1>0. OutboundTypeOK /\ QueuedOnce /\ \A i \in Jobs : JobOK(i)
  BY DEF OutboundInv
<1>1. PICK s \in {"active", "inactive", "gone"} :
         /\ webhook' = [webhook EXCEPT ![w] = s]
         /\ log' = [j \in Jobs |-> IF j[2] = w /\ s = "gone" THEN {} ELSE log[j]]
  BY DEF Administer
<1>2. /\ webhook[w] # "gone"
      /\ UNCHANGED <<chosen, raised, state, made, answer, taken, lost, mishaps>>
  BY DEF Administer, queueVars
<1>3. OutboundTypeOK' /\ QueuedOnce'
  BY <1>0, <1>1, <1>2 DEF OutboundTypeOK, QueuedOnce
<1>4. ASSUME NEW i \in Jobs PROVE JobOK(i)'
  <2>1. i[2] \in Webhooks
    BY JobParts
  <2>2. webhook'[i[2]] # "gone" => webhook[i[2]] # "gone" /\ log'[i] = log[i]
    BY <1>0, <1>1, <1>2, <2>1 DEF OutboundTypeOK
  <2> QED BY <1>0, <1>2, <2>2 DEF JobOK, AnswerHeld, Accounted, LogInStep
<1> QED BY <1>3, <1>4 DEF OutboundInv

LEMMA DieStep ==
  ASSUME OutboundInv, Die
  PROVE  OutboundInv'
<1>0. OutboundTypeOK /\ QueuedOnce /\ \A i \in Jobs : JobOK(i)
  BY DEF OutboundInv
<1>1. /\ mishaps' = mishaps + 1 /\ chosen' = [e \in Events \cup Tests |-> {}]
      /\ state' = [j \in Jobs |-> IF j \notin Running THEN state[j]
                                  ELSE IF stalls[j] = 0 THEN "waiting" ELSE "failed"]
      /\ lost' = Forgotten(Running)
      /\ answer' = [j \in Jobs |-> IF j \in Running THEN FALSE ELSE answer[j]]
      /\ UNCHANGED <<webhook, raised, made, log, taken>>
  BY DEF Die
<1>2. /\ state' \in [Jobs -> JobStates] /\ answer' \in [Jobs -> BOOLEAN]
      /\ lost' \in [Jobs -> Nat] /\ mishaps' \in Nat /\ mishaps' # 0
      /\ chosen' \in [Events \cup Tests -> SUBSET Webhooks]
  <2>1. state' \in [Jobs -> JobStates]
    BY <1>0, <1>1 DEF OutboundTypeOK, JobStates
  <2>2. answer' \in [Jobs -> BOOLEAN]
    <3>1. \A j \in Jobs : (IF j \in Running THEN FALSE ELSE answer[j]) \in BOOLEAN
      BY <1>0 DEF OutboundTypeOK
    <3> QED BY <1>1, <3>1
  <2>3. lost' \in [Jobs -> Nat]
    BY <1>0, <1>1, ForgottenFacts
  <2>4. /\ mishaps' \in Nat /\ mishaps' # 0
        /\ chosen' \in [Events \cup Tests -> SUBSET Webhooks]
    BY <1>0, <1>1 DEF OutboundTypeOK
  <2> QED BY <2>1, <2>2, <2>3, <2>4
<1>3. OutboundTypeOK'
  BY <1>0, <1>1, <1>2 DEF OutboundTypeOK
<1>4. QueuedOnce'
  <2>1. ASSUME NEW e \in Events \cup Tests, NEW w \in Webhooks, e \notin raised
        PROVE  state'[<<e, w>>] = "none"
    <3>1. <<e, w>> \in Jobs /\ state[<<e, w>>] = "none"
      BY <1>0, <2>1, JobParts DEF QueuedOnce
    <3>2. <<e, w>> \notin Running
      BY <3>1 DEF Running
    <3> QED BY <1>1, <3>1, <3>2
  <2> QED BY <1>1, <2>1 DEF QueuedOnce
<1>5. ASSUME NEW i \in Jobs PROVE JobOK(i)'
  <2>1. /\ JobOK(i) /\ taken[i] \in Nat /\ lost[i] \in Nat
        /\ lost'[i] = IF i \in Running /\ answer[i] THEN lost[i] + 1 ELSE lost[i]
        /\ UNCHANGED <<webhook, made, log, taken>> /\ mishaps' # 0
    BY <1>0, <1>1, <1>2, ForgottenFacts DEF OutboundTypeOK
  <2>2. CASE i \in Running
    <3>1. state'[i] \in {"waiting", "failed"} /\ answer'[i] = FALSE
      BY <1>1, <2>2
    <3>2. AnswerHeld(i)' /\ LogInStep(i)'
      BY <2>1, <3>1 DEF AnswerHeld, LogInStep
    <3>3. Accounted(i)'
      BY <2>1, <2>2, <3>1 DEF JobOK, Accounted
    <3> QED BY <3>2, <3>3 DEF JobOK
  <2>3. CASE i \notin Running
    <3>1. state'[i] = state[i] /\ answer'[i] = answer[i] /\ lost'[i] = lost[i]
      BY <1>1, <2>1, <2>3
    <3> QED BY <2>1, <3>1 DEF JobOK, AnswerHeld, Accounted, LogInStep
  <2> QED BY <2>2, <2>3
<1> QED BY <1>3, <1>4, <1>5 DEF OutboundInv

--------------------------------------------------------------------------------

LEMMA OutboundStarts == OutboundInit => OutboundInv
<1> SUFFICES ASSUME OutboundInit PROVE OutboundInv
  OBVIOUS
<1>1. OutboundTypeOK
  BY DEF OutboundInit, OutboundTypeOK, JobStates
<1>2. QueuedOnce
  BY JobParts DEF OutboundInit, QueuedOnce
<1>3. ASSUME NEW j \in Jobs PROVE JobOK(j)
  <2>1. /\ state[j] = "none" /\ made[j] = 0 /\ answer[j] = FALSE /\ taken[j] = 0
        /\ lost[j] = 0 /\ log[j] = {}
    BY DEF OutboundInit
  <2> QED BY <2>1, NoRefusal DEF JobOK, AnswerHeld, Accounted, LogInStep
<1> QED BY <1>1, <1>2, <1>3 DEF OutboundInv

\* The invariant holds in every state, for any events, webhooks and attempts.
THEOREM OutboundInvariant == OutboundSpec => []OutboundInv
<1>1. ASSUME OutboundInv, [OutboundNext]_outboundVars PROVE OutboundInv'
  <2>1. CASE UNCHANGED outboundVars
    BY <1>1, <2>1 DEF outboundVars, queueVars, OutboundInv, OutboundTypeOK, QueuedOnce, JobOK,
                      AnswerHeld, Accounted, LogInStep
  <2>2. CASE \E j \in Jobs : Work(j)
    BY <1>1, <2>2, StartStep, PostStep, RecordStep, SettleStep, ThrowsStep DEF Work
  <2> QED BY <1>1, <2>1, <2>2, DispatchStep, EnqueueStep, AdministerStep, DieStep
          DEF OutboundNext
<1>2. OutboundInv /\ [OutboundNext]_outboundVars => OutboundInv'
  BY <1>1
<1> QED BY OutboundStarts, <1>2, PTL DEF OutboundSpec

\* A receiver takes an event again only after an answer that was lost.
THEOREM RepeatsAreExplained == OutboundSpec => []RepeatsExplained
<1>1. OutboundInv => RepeatsExplained
  <2> SUFFICES ASSUME OutboundInv, NEW j \in Jobs PROVE taken[j] <= 1 + lost[j]
    BY DEF RepeatsExplained
  <2>1. taken[j] \in Nat /\ lost[j] \in Nat /\ Accounted(j)
    BY DEF OutboundInv, OutboundTypeOK, JobOK
  <2> QED BY <2>1 DEF Accounted
<1> QED BY <1>1, OutboundInvariant, PTL

\* The log of deliveries agrees with the queue while the webhook exists.
THEOREM SettledOnRecord == OutboundSpec => []SettledIsOnRecord
<1>1. OutboundInv => SettledIsOnRecord
  <2> SUFFICES ASSUME OutboundInv, NEW j \in Jobs, webhook[j[2]] # "gone"
               PROVE  /\ state[j] = "completed" => \E row \in log[j] : row[2]
                      /\ state[j] = "failed" /\ mishaps = 0 =>
                            log[j] = {<<a, FALSE>> : a \in 1..made[j]}
    BY DEF SettledIsOnRecord
  <2>1. AnswerHeld(j) /\ LogInStep(j) /\ answer[j] \in BOOLEAN
    BY DEF OutboundInv, OutboundTypeOK, JobOK
  <2>2. ASSUME state[j] = "completed" PROVE \E row \in log[j] : row[2]
    <3>1. <<made[j] + 1, answer[j]>> \in log[j] /\ answer[j]
      BY <2>1, <2>2 DEF AnswerHeld, LogInStep
    <3>2. <<made[j] + 1, answer[j]>>[2]
      BY <3>1
    <3> QED BY <3>1, <3>2
  <2>3. ASSUME state[j] = "failed", mishaps = 0
        PROVE  log[j] = {<<a, FALSE>> : a \in 1..made[j]}
    BY <2>1, <2>3 DEF LogInStep, Refusals
  <2> QED BY <2>2, <2>3
<1> QED BY <1>1, OutboundInvariant, PTL

--------------------------------------------------------------------------------
(* Every job comes to an end.  A job has so many attempts, one stall, and so   *)
(* many statements in an attempt: each of its steps uses some of them up, and  *)
(* no step of anybody gives any back.                                          *)

Over(j) == state[j] \in {"completed", "failed", "skipped"}

Statements == [waiting |-> 3, posting |-> 2, posted |-> 1, recorded |-> 0]
Left(j) == 4 * (Attempts - made[j]) + 4 * (1 - stalls[j]) + Statements[state[j]]

Bounded(j) == Queued(j) => made[j] < Attempts /\ stalls[j] \in {0, 1}
BoundedInv == stalls \in [Jobs -> Nat] /\ \A j \in Jobs : Bounded(j) /\ (state[j] = "none" => made[j] = 0 /\ stalls[j] = 0)

\* A job at its end, or nearer to it.
Toward(j) == Over(j)' \/ (Queued(j)' /\ Left(j)' < Left(j))

\* What a step does to one job: nothing, a step nearer to its end, or its first.
Nearer(j) ==
    \/ UNCHANGED <<state[j], made[j], stalls[j]>>
    \/ Queued(j) /\ Toward(j)
    \/ state[j] = "none" /\ state'[j] = "waiting" /\ UNCHANGED <<made[j], stalls[j]>>

LEMMA LeftIsInt ==
  ASSUME NEW j \in Jobs, Queued(j), Attempts \in Nat, made[j] \in Nat, stalls[j] \in Nat
  PROVE  Left(j) \in Int /\ Statements[state[j]] \in 0..3
  BY DEF Queued, Left, Statements

\* A retry costs an attempt.
LEMMA RetryNears ==
  ASSUME OutboundTypeOK, BoundedInv, Attempts \in Nat \ {0}, NEW j \in Jobs, Queued(j),
         Retried(j), UNCHANGED stalls
  PROVE  /\ stalls' \in [Jobs -> Nat] /\ Bounded(j)' /\ state'[j] # "none"
         /\ Toward(j)
<1>1. /\ made[j] \in Nat /\ stalls[j] \in Nat /\ made'[j] = made[j] + 1 /\ stalls'[j] = stalls[j]
      /\ made[j] < Attempts /\ stalls[j] \in {0, 1} /\ stalls' = stalls
  BY RetriedFacts DEF OutboundTypeOK, BoundedInv, Bounded
<1>2. state'[j] = IF made[j] + 1 < (IF j[1] \in Tests THEN 1 ELSE Attempts)
                  THEN "waiting" ELSE "failed"
  BY DEF Retried, OutboundTypeOK
<1>3. CASE state'[j] = "failed"
  BY <1>1, <1>3 DEF Toward, Over, Queued, Bounded, BoundedInv
<1>4. CASE state'[j] = "waiting"
  <2>1. made[j] + 1 < Attempts
    BY <1>1, <1>2, <1>4
  <2>2. Statements[state[j]] \in 0..3
    BY <1>1, LeftIsInt
  <2>3. Left(j)' = 4 * (Attempts - (made[j] + 1)) + 4 * (1 - stalls[j]) + 3
    BY <1>1, <1>4 DEF Left, Statements
  <2>4. Left(j)' < Left(j)
    BY <1>1, <2>2, <2>3 DEF Left
  <2> QED BY <1>1, <1>4, <2>1, <2>4 DEF Toward, Queued, Bounded, BoundedInv
<1> QED BY <1>2, <1>3, <1>4

\* A statement that ends well is one less to go.
LEMMA StatementNears ==
  ASSUME OutboundTypeOK, BoundedInv, Attempts \in Nat \ {0}, NEW j \in Jobs,
         Start(j) \/ Post(j) \/ Record(j)
  PROVE  /\ UNCHANGED <<made, stalls>> /\ Queued(j) /\ Bounded(j)' /\ state'[j] # "none"
         /\ Toward(j)
<1>1. /\ UNCHANGED <<made, stalls>> /\ made[j] \in Nat /\ stalls[j] \in Nat
      /\ \/ state[j] = "waiting" /\ state'[j] \in {"posting", "skipped"}
         \/ state[j] = "posting" /\ state'[j] = "posted"
         \/ state[j] = "posted" /\ state'[j] = "recorded"
  BY DEF Start, Post, Record, OutboundTypeOK, BoundedInv
<1>2. Queued(j) /\ made[j] < Attempts /\ stalls[j] \in {0, 1} /\ Bounded(j)'
  BY <1>1 DEF Queued, BoundedInv, Bounded
<1>3. CASE state'[j] = "skipped"
  BY <1>1, <1>2, <1>3 DEF Toward, Over
<1>4. CASE state'[j] # "skipped"
  <2>1. Statements[state'[j]] + 1 = Statements[state[j]] /\ Statements[state'[j]] \in 0..3
    BY <1>1, <1>4 DEF Statements
  <2>2. Left(j)' < Left(j)
    BY <1>1, <2>1 DEF Left
  <2> QED BY <1>1, <1>2, <1>4, <2>2 DEF Toward, Queued
<1> QED BY <1>3, <1>4

\* What the worker of a job does brings it nearer to its end.
LEMMA WorkNears ==
  ASSUME OutboundInv, BoundedInv, Attempts \in Nat \ {0}, NEW j \in Jobs, Work(j)
  PROVE  /\ BoundedInv' /\ Queued(j)
         /\ Toward(j)
         /\ \A i \in Jobs : i # j => UNCHANGED <<state[i], made[i], stalls[i]>>
<1>0. OutboundTypeOK
  BY DEF OutboundInv
<1>1. UNCHANGED stalls
  BY DEF Work, Start, Post, Record, Settle, ReadThrows, RecordThrows
<1>2. \A i \in Jobs : i # j => state'[i] = state[i] /\ made'[i] = made[i]
  <2>1. CASE Retried(j)
    BY <1>0, <2>1, RetriedFacts
  <2>2. CASE UNCHANGED made /\ \E s \in JobStates : state' = [state EXCEPT ![j] = s]
    BY <1>0, <2>2 DEF OutboundTypeOK
  <2> QED BY <2>1, <2>2 DEF Work, Start, Post, Record, Settle, ReadThrows, RecordThrows, JobStates
<1>3. /\ Queued(j) /\ Bounded(j)' /\ state'[j] # "none" /\ stalls' \in [Jobs -> Nat]
      /\ Toward(j)
  <2>1. CASE Start(j) \/ Post(j) \/ Record(j)
    BY <1>0, <1>1, <2>1, StatementNears DEF BoundedInv
  <2>2. CASE Settle(j) /\ answer[j]
    <3>1. state[j] = "recorded" /\ state'[j] = "completed"
      BY <1>0, <2>2 DEF Settle, OutboundTypeOK
    <3> QED BY <1>1, <3>1 DEF Toward, Queued, Over, Bounded, BoundedInv
  <2>3. CASE \/ Settle(j) /\ ~answer[j]
             \/ ReadThrows(j) \/ RecordThrows(j)
    <3>1. Retried(j) /\ Queued(j)
      BY <2>3 DEF Settle, ReadThrows, RecordThrows, Queued
    <3> QED BY <1>0, <1>1, <3>1, RetryNears
  <2> QED BY <2>1, <2>2, <2>3 DEF Work
<1>4. BoundedInv'
  <2>1. ASSUME NEW i \in Jobs
        PROVE  Bounded(i)' /\ (state'[i] = "none" => made'[i] = 0 /\ stalls'[i] = 0)
    BY <1>1, <1>2, <1>3 DEF BoundedInv, Bounded, Queued
  <2> QED BY <1>3, <2>1 DEF BoundedInv
<1> QED BY <1>1, <1>2, <1>3, <1>4

\* A restart costs a running job its stall.
LEMMA DeathNears ==
  ASSUME OutboundInv, BoundedInv, Attempts \in Nat \ {0}, Die
  PROVE  BoundedInv' /\ \A j \in Jobs : Nearer(j)
<1>0. OutboundTypeOK
  BY DEF OutboundInv
<1>1. /\ stalls' = [j \in Jobs |-> IF j \in Running THEN stalls[j] + 1 ELSE stalls[j]]
      /\ state' = [j \in Jobs |-> IF j \notin Running THEN state[j]
                                  ELSE IF stalls[j] = 0 THEN "waiting" ELSE "failed"]
      /\ UNCHANGED made
  BY DEF Die
<1>2. stalls' \in [Jobs -> Nat]
  BY <1>1 DEF BoundedInv
<1>3. ASSUME NEW j \in Jobs
      PROVE  /\ Bounded(j)' /\ (state'[j] = "none" => made'[j] = 0 /\ stalls'[j] = 0)
             /\ Nearer(j)
  <2>1. CASE j \notin Running
    <3>1. UNCHANGED <<state[j], made[j], stalls[j]>>
      BY <1>1, <2>1
    <3> QED BY <3>1 DEF BoundedInv, Bounded, Queued, Nearer, Toward
  <2>2. CASE j \in Running
    <3>1. /\ Queued(j) /\ state[j] # "none" /\ made[j] < Attempts /\ stalls[j] \in {0, 1}
          /\ made[j] \in Nat /\ made'[j] = made[j] /\ stalls'[j] = stalls[j] + 1
          /\ state'[j] = IF stalls[j] = 0 THEN "waiting" ELSE "failed"
      BY <1>0, <1>1, <2>2 DEF Running, Queued, BoundedInv, Bounded, OutboundTypeOK
    <3>2. CASE stalls[j] = 1
      BY <3>1, <3>2 DEF Toward, Over, Queued, Bounded, Nearer, Toward
    <3>3. CASE stalls[j] = 0
      <4>1. state'[j] = "waiting" /\ stalls'[j] = 1
        BY <3>1, <3>3
      <4>2. Statements[state[j]] \in 0..2 /\ Statements[state'[j]] = 3
        BY <2>2, <4>1 DEF Running, Statements
      <4>3. Left(j)' < Left(j)
        BY <3>1, <3>3, <4>1, <4>2 DEF Left
      <4> QED BY <3>1, <4>1, <4>3 DEF Queued, Bounded, Nearer, Toward
    <3> QED BY <3>1, <3>2, <3>3
  <2> QED BY <2>1, <2>2
<1> QED BY <1>2, <1>3 DEF BoundedInv

LEMMA EveryStepNears ==
  ASSUME OutboundInv, BoundedInv, Attempts \in Nat \ {0}, [OutboundNext]_outboundVars
  PROVE  BoundedInv' /\ \A j \in Jobs : Nearer(j)
<1>0. OutboundTypeOK /\ QueuedOnce
  BY DEF OutboundInv
<1>1. CASE \E j \in Jobs : Work(j)
  <2>1. PICK j \in Jobs : Work(j)
    BY <1>1
  <2>2. /\ BoundedInv' /\ Queued(j)
        /\ Toward(j)
        /\ \A i \in Jobs : i # j => UNCHANGED <<state[i], made[i], stalls[i]>>
    BY <2>1, WorkNears
  <2>3. Nearer(j)
    BY <2>2 DEF Nearer, Toward
  <2>4. \A i \in Jobs : i # j => Nearer(i)
    BY <2>2 DEF Nearer, Toward
  <2> QED BY <2>2, <2>3, <2>4
<1>2. CASE Die
  BY <1>2, DeathNears
<1>3. CASE UNCHANGED <<state, made, stalls>>
  BY <1>3 DEF BoundedInv, Bounded, Queued, Nearer, Toward
<1>4. CASE \E e \in Events \cup Tests : \E w \in Webhooks : Enqueue(e, w)
  <2>1. PICK e \in Events \cup Tests, w \in Webhooks : Enqueue(e, w)
    BY <1>4
  <2>2. <<e, w>> \in Jobs /\ state[<<e, w>>] = "none" /\ UNCHANGED <<made, stalls>>
    BY <1>0, <2>1, JobParts DEF Enqueue, QueuedOnce
  <2>3. CASE UNCHANGED state
    BY <1>3, <2>2, <2>3
  <2>4. CASE state' = [state EXCEPT ![<<e, w>>] = "waiting"]
    <3>1. ASSUME NEW i \in Jobs
          PROVE  \/ state'[i] = state[i]
                 \/ state[i] = "none" /\ state'[i] = "waiting"
      BY <1>0, <2>2, <2>4 DEF OutboundTypeOK
    <3>2. ASSUME NEW i \in Jobs
          PROVE  /\ Bounded(i)' /\ (state'[i] = "none" => made'[i] = 0 /\ stalls'[i] = 0)
                 /\ Nearer(i)
      BY <2>2, <3>1 DEF BoundedInv, Bounded, Queued, Nearer, Toward
    <3> QED BY <2>2, <3>2 DEF BoundedInv
  <2> QED BY <2>1, <2>3, <2>4 DEF Enqueue
<1>5. CASE UNCHANGED outboundVars
  BY <1>3, <1>5 DEF outboundVars, queueVars
<1>6. CASE (\E e \in Events \cup Tests : Dispatch(e)) \/ \E w \in Webhooks : Administer(w)
  BY <1>3, <1>6 DEF Dispatch, Administer, queueVars
<1> QED BY <1>1, <1>2, <1>4, <1>5, <1>6 DEF OutboundNext

LEMMA BoundedStarts == OutboundInit => BoundedInv
  BY DEF OutboundInit, BoundedInv, Bounded, Queued

LEMMA BoundedAlways ==
  ASSUME Attempts \in Nat \ {0}
  PROVE  OutboundSpec => []BoundedInv
<1>1. OutboundInv /\ BoundedInv /\ [OutboundNext]_outboundVars => BoundedInv'
  BY EveryStepNears
<1> QED BY BoundedStarts, <1>1, OutboundInvariant, PTL DEF OutboundSpec

\* Whatever happens to the queue, its webhooks and its process, no job is ever
\* further from its end than it was, for any number of attempts.
THEOREM JobsRunDown ==
  ASSUME Attempts \in Nat \ {0}
  PROVE  OutboundSpec => [][\A j \in Jobs : Nearer(j)]_outboundVars
<1> DEFINE Step == \A j \in Jobs : Nearer(j)
<1>1. OutboundInv /\ BoundedInv /\ [OutboundNext]_outboundVars => [Step]_outboundVars
  BY EveryStepNears
<1> HIDE DEF Step
<1>2. OutboundSpec => [][Step]_outboundVars
  BY <1>1, OutboundInvariant, BoundedAlways, PTL DEF OutboundSpec
<1> QED BY <1>2 DEF Step

Within(j, n) == state[j] # "none" /\ (Queued(j) => Left(j) < n)
Draws(j, n, m) == Within(j, n) ~> Within(j, m)

\* Served, a job does not stay where it is.
LEMMA ServedDraws ==
  ASSUME Attempts \in Nat \ {0}, NEW j \in Jobs, NEW n \in Nat, NEW m \in Nat, n = m + 1
  PROVE  OutboundSpec /\ []Workable => Draws(j, n, m)
<1>1. ASSUME OutboundInv, OutboundInv', BoundedInv, Within(j, n),
             [OutboundNext]_outboundVars
      PROVE  Within(j, n)'
  <2>1. Nearer(j) /\ BoundedInv'
    BY <1>1, EveryStepNears
  <2>2. CASE UNCHANGED <<state[j], made[j], stalls[j]>>
    BY <1>1, <2>2 DEF Within, Queued, Left
  <2>3. CASE Queued(j) /\ Over(j)'
    BY <2>3 DEF Within, Over, Queued
  <2>4. CASE Queued(j) /\ Queued(j)' /\ Left(j)' < Left(j)
    <3>1. /\ made[j] \in Nat /\ stalls[j] \in Nat /\ made'[j] \in Nat /\ stalls'[j] \in Nat
      BY <1>1, <2>1 DEF OutboundInv, OutboundTypeOK, BoundedInv
    <3>2. Left(j) \in Int /\ Left(j)' \in Int
      BY <2>4, <3>1 DEF Queued, Left, Statements
    <3> QED BY <1>1, <2>4, <3>2 DEF Within, Queued
  <2>5. CASE state[j] = "none"
    BY <1>1, <2>5 DEF Within
  <2> QED BY <2>1, <2>2, <2>3, <2>4, <2>5 DEF Nearer, Toward
<1>2. ASSUME OutboundInv, OutboundInv', BoundedInv, Within(j, n), Work(j)
      PROVE  Within(j, m)'
  <2>1. Queued(j) /\ Toward(j) /\ BoundedInv'
    BY <1>2, WorkNears
  <2>2. CASE Over(j)'
    BY <2>2 DEF Within, Over, Queued
  <2>3. CASE Queued(j)' /\ Left(j)' < Left(j)
    <3>1. /\ made[j] \in Nat /\ stalls[j] \in Nat /\ made'[j] \in Nat /\ stalls'[j] \in Nat
      BY <1>2, <2>1 DEF OutboundInv, OutboundTypeOK, BoundedInv
    <3>2. Left(j) \in Int /\ Left(j)' \in Int
      BY <2>1, <2>3, <3>1 DEF Queued, Left, Statements
    <3> QED BY <1>2, <2>1, <2>3, <3>2 DEF Within, Queued
  <2> QED BY <2>1, <2>2, <2>3 DEF Toward
<1>3. Workable /\ Within(j, n) /\ ~Within(j, m) => ENABLED <<Work(j)>>_outboundVars
  BY DEF Workable, Within
<1>4. OutboundSpec => Served(j)
  BY DEF OutboundSpec
<1>5. OutboundInv /\ OutboundInv' /\ BoundedInv /\ Within(j, n)
        /\ [OutboundNext]_outboundVars => Within(j, n)'
  BY <1>1
<1>6. OutboundInv /\ OutboundInv' /\ BoundedInv /\ Within(j, n)
        /\ <<Work(j)>>_outboundVars => Within(j, m)'
  BY <1>2
<1> QED BY <1>3, <1>4, <1>5, <1>6, OutboundInvariant, BoundedAlways, PTL
        DEF OutboundSpec, Served, Draws

\* With the code's three attempts, or fewer, every queued job comes to an end, if the
\* worker keeps coming back: whatever is done to its webhook, and however often the
\* process dies.
THEOREM QueuedJobsSettle ==
  ASSUME Attempts \in 1..3
  PROVE  OutboundSpec /\ []Workable => QueuedSettles
<1>0. Attempts \in Nat \ {0}
  OBVIOUS
<1>1. ASSUME NEW j \in Jobs
      PROVE  OutboundSpec /\ []Workable =>
               ((state[j] = "waiting") ~> (state[j] \in {"completed", "failed", "skipped"}))
  <2>1. \A n, m \in Nat : n = m + 1 => (OutboundSpec /\ []Workable => Draws(j, n, m))
    BY <1>0, ServedDraws
  <2>2. OutboundInv /\ BoundedInv /\ state[j] = "waiting" => Within(j, 20)
    BY <1>0 DEF OutboundInv, OutboundTypeOK, BoundedInv, Bounded, Within, Queued, Left,
       Statements
  <2>3. OutboundInv /\ BoundedInv /\ Within(j, 4)
          => state[j] \in {"completed", "failed", "skipped"}
    BY <1>0, LeftIsInt DEF OutboundInv, OutboundTypeOK, BoundedInv, Bounded, Within, Queued,
       Left, Statements, JobStates
  <2>4. OutboundSpec /\ []Workable =>
          /\ Draws(j, 20, 19) /\ Draws(j, 19, 18) /\ Draws(j, 18, 17)
          /\ Draws(j, 17, 16) /\ Draws(j, 16, 15) /\ Draws(j, 15, 14)
          /\ Draws(j, 14, 13) /\ Draws(j, 13, 12)
    BY <2>1
  <2>5. OutboundSpec /\ []Workable =>
          /\ Draws(j, 12, 11) /\ Draws(j, 11, 10) /\ Draws(j, 10, 9)
          /\ Draws(j, 9, 8) /\ Draws(j, 8, 7) /\ Draws(j, 7, 6)
          /\ Draws(j, 6, 5) /\ Draws(j, 5, 4)
    BY <2>1
  <2>6. OutboundSpec /\ []Workable => (Within(j, 20) ~> Within(j, 12))
    BY <2>4, PTL DEF Draws
  <2>7. OutboundSpec /\ []Workable => (Within(j, 12) ~> Within(j, 4))
    BY <2>5, PTL DEF Draws
  <2> QED BY <1>0, <2>2, <2>3, <2>6, <2>7, OutboundInvariant, BoundedAlways, PTL
<1> QED BY <1>1 DEF QueuedSettles
================================================================================
