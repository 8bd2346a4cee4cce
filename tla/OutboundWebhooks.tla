--------------------------- MODULE OutboundWebhooks ---------------------------
(***************************************************************************)
(* Outbound webhooks: an event of the CRM is queued once for each active   *)
(* webhook of the company, and a worker posts it, writes a delivery row    *)
(* and lets the queue retry what failed.                                   *)
(***************************************************************************)
EXTENDS Naturals, FiniteSets

CONSTANTS Events, Tests,    \* dispatch; test(), which gets one attempt
          Webhooks,
          Attempts,         \* of a dispatched job (the code's 3)
          MaxMishaps        \* bound: restarts and failed statements together

Jobs == (Events \cup Tests) \X Webhooks

VARIABLES
    webhook,   \* OutboundWebhook: "active", "inactive" or "gone"
    chosen,    \* chosen[e]: webhooks the dispatch of e has read and not queued yet
    raised,    \* events whose dispatch has run
    state, made, stalls,  \* the job in the queue: attemptsMade, times it stalled
    answer,    \* success, as the worker holds it between the post and the end
    log,       \* WebhookDelivery rows: <<attempt, success>>
    taken,     \* posts the receiver took (not in the code)
    lost,      \* of these, the ones nothing was left of (not in the code)
    mishaps

queueVars == <<state, made, stalls, answer>>
outboundVars == <<webhook, chosen, raised, queueVars, log, taken, lost, mishaps>>

OutboundInit ==
    /\ webhook \in [Webhooks -> {"active", "inactive"}]
    /\ chosen = [e \in Events \cup Tests |-> {}]
    /\ raised = {}
    /\ state = [j \in Jobs |-> "none"]
    /\ made = [j \in Jobs |-> 0]
    /\ stalls = [j \in Jobs |-> 0]
    /\ answer = [j \in Jobs |-> FALSE]
    /\ log = [j \in Jobs |-> {}]
    /\ taken = [j \in Jobs |-> 0]
    /\ lost = [j \in Jobs |-> 0]
    /\ mishaps = 0

-----------------------------------------------------------------------------
(* dispatch, test and the administration of webhooks. *)

\* Those a new event goes to; a test goes to the webhook it was asked for, active
\* or not.
Recipients(e) ==
    IF e \in Tests
    THEN {{w} : w \in {x \in Webhooks : webhook[x] # "gone"}}
    ELSE {{w \in Webhooks : webhook[w] = "active"}}

Dispatch(e) ==
    /\ e \notin raised
    /\ raised' = raised \cup {e}
    /\ \E ws \in Recipients(e) : chosen' = [chosen EXCEPT ![e] = ws]
    /\ UNCHANGED <<webhook, queueVars, log, taken, lost, mishaps>>

\* queue.add, one webhook at a time; the queue may refuse it, which is only logged.
Enqueue(e, w) ==
    /\ w \in chosen[e]
    /\ chosen' = [chosen EXCEPT ![e] = @ \ {w}]
    /\ \/ /\ state' = [state EXCEPT ![<<e, w>>] = "waiting"]
          /\ UNCHANGED mishaps
       \/ /\ mishaps < MaxMishaps
          /\ mishaps' = mishaps + 1
          /\ UNCHANGED state
    /\ UNCHANGED <<webhook, raised, made, stalls, answer, log, taken, lost>>

\* update (the active flag) and delete; the rows of the log go with the webhook.
Administer(w) ==
    /\ webhook[w] # "gone"
    /\ \E s \in {"active", "inactive", "gone"} \ {webhook[w]} :
         /\ webhook' = [webhook EXCEPT ![w] = s]
         /\ log' = [j \in Jobs |-> IF j[2] = w /\ s = "gone" THEN {} ELSE log[j]]
    /\ UNCHANGED <<chosen, raised, queueVars, taken, lost, mishaps>>

-----------------------------------------------------------------------------
(* OutboundWebhooksProcessor.process, statement by statement. *)

Start(j) ==
    /\ state[j] = "waiting"
    /\ state' = [state EXCEPT ![j] = IF webhook[j[2]] = "active"
                                     THEN "posting" ELSE "skipped"]
    /\ UNCHANGED <<webhook, chosen, raised, made, stalls, answer, log, taken,
                   lost, mishaps>>

\* What was known of a success is lost.
Forgotten(js) ==
    [j \in Jobs |-> IF j \in js /\ answer[j] THEN lost[j] + 1 ELSE lost[j]]

\* The queue counts an attempt and gives the job another, after a delay, or gives up.
Retried(j) ==
    /\ made' = [made EXCEPT ![j] = @ + 1]
    /\ answer' = [answer EXCEPT ![j] = FALSE]
    /\ state' = [state EXCEPT ![j] =
                   IF made[j] + 1 < (IF j[1] \in Tests THEN 1 ELSE Attempts)
                   THEN "waiting" ELSE "failed"]

\* The webhook cannot be read.
ReadThrows(j) ==
    /\ state[j] = "waiting"
    /\ mishaps < MaxMishaps
    /\ mishaps' = mishaps + 1
    /\ Retried(j)
    /\ UNCHANGED <<webhook, chosen, raised, stalls, log, taken, lost>>

\* The receiver takes the post and says so; takes it, and its answer is lost or is
\* not a 2xx; or does not take it.
Post(j) ==
    /\ state[j] = "posting"
    /\ state' = [state EXCEPT ![j] = "posted"]
    /\ \E took \in BOOLEAN : \E ok \in {FALSE, took} :
         /\ answer' = [answer EXCEPT ![j] = ok]
         /\ taken' = [taken EXCEPT ![j] = IF took THEN @ + 1 ELSE @]
         /\ lost' = [lost EXCEPT ![j] = IF took /\ ~ok THEN @ + 1 ELSE @]
    /\ UNCHANGED <<webhook, chosen, raised, made, stalls, log, mishaps>>

Faulty_Record(j) ==
    /\ state[j] = "posted"
    /\ webhook[j[2]] # "gone"
    /\ log' = IF answer[j] THEN log
              ELSE [log EXCEPT ![j] = @ \cup {<<made[j] + 1, answer[j]>>}]
    /\ state' = [state EXCEPT ![j] = "recorded"]
    /\ UNCHANGED <<webhook, chosen, raised, made, stalls, answer, taken, lost, mishaps>>

\* webhookDelivery.create.
Record(j) ==
    /\ state[j] = "posted"
    /\ webhook[j[2]] # "gone"
    /\ log' = [log EXCEPT ![j] = @ \cup {<<made[j] + 1, answer[j]>>}]
    /\ state' = [state EXCEPT ![j] = "recorded"]
    /\ UNCHANGED <<webhook, chosen, raised, made, stalls, answer, taken, lost, mishaps>>

Faulty_RecordThrows(j) ==
    /\ state[j] = "posted"
    /\ webhook[j[2]] # "gone"
    /\ mishaps < MaxMishaps
    /\ mishaps' = mishaps + 1
    /\ lost' = Forgotten({j})
    /\ Retried(j)
    /\ UNCHANGED <<webhook, chosen, raised, stalls, log, taken>>

\* The row is refused: its webhook is gone, or the statement fails.
RecordThrows(j) ==
    /\ state[j] = "posted"
    /\ IF webhook[j[2]] = "gone" THEN UNCHANGED mishaps
       ELSE mishaps < MaxMishaps /\ mishaps' = mishaps + 1
    /\ lost' = Forgotten({j})
    /\ Retried(j)
    /\ UNCHANGED <<webhook, chosen, raised, stalls, log, taken>>

Faulty_Settle(j) ==
    /\ state[j] = "recorded"
    /\ Retried(j)
    /\ UNCHANGED <<webhook, chosen, raised, stalls, log, taken, lost, mishaps>>

\* The end of process: a failure is thrown to the queue.
Settle(j) ==
    /\ state[j] = "recorded"
    /\ IF answer[j]
       THEN /\ state' = [state EXCEPT ![j] = "completed"]
            /\ UNCHANGED <<made, answer>>
       ELSE Retried(j)
    /\ UNCHANGED <<webhook, chosen, raised, stalls, log, taken, lost, mishaps>>

\* The process dies.  A stalled job runs again without counting an attempt, once;
\* what was chosen and not queued is gone.
Running == {j \in Jobs : state[j] \in {"posting", "posted", "recorded"}}
Die ==
    /\ mishaps < MaxMishaps
    /\ mishaps' = mishaps + 1
    /\ chosen' = [e \in Events \cup Tests |-> {}]
    /\ stalls' = [j \in Jobs |-> IF j \in Running THEN stalls[j] + 1 ELSE stalls[j]]
    /\ state' = [j \in Jobs |-> IF j \notin Running THEN state[j]
                                ELSE IF stalls[j] = 0 THEN "waiting" ELSE "failed"]
    /\ lost' = Forgotten(Running)
    /\ answer' = [j \in Jobs |-> IF j \in Running THEN FALSE ELSE answer[j]]
    /\ UNCHANGED <<webhook, raised, made, log, taken>>

Work(j) ==
    \/ Start(j) \/ Post(j) \/ Record(j) \/ Settle(j)
    \/ ReadThrows(j) \/ RecordThrows(j)

OutboundNext ==
    \/ \E e \in Events \cup Tests : Dispatch(e) \/ \E w \in Webhooks : Enqueue(e, w)
    \/ \E w \in Webhooks : Administer(w)
    \/ \E j \in Jobs : Work(j)
    \/ Die

\* The worker comes back to every job it can work on.
Served(j) == WF_outboundVars(Work(j))

OutboundSpec ==
    OutboundInit /\ [][OutboundNext]_outboundVars /\ \A j \in Jobs : Served(j)

-----------------------------------------------------------------------------
(* Properties. *)

\* A receiver takes one event a second time only when the first was answered too
\* late or badly, its row was refused, or the process died over it.  (process: the
\* throw after the row is what asks for a retry.)
RepeatsExplained == \A j \in Jobs : taken[j] <= 1 + lost[j]

\* The log agrees with the queue: while its webhook exists, a completed job has a
\* row of its success, and one that failed for good without a mishap has a failed
\* row for each attempt and no other.
SettledIsOnRecord ==
    \A j \in Jobs : webhook[j[2]] # "gone" =>
        /\ state[j] = "completed" => \E row \in log[j] : row[2]
        /\ state[j] = "failed" /\ mishaps = 0 =>
             log[j] = {<<a, FALSE>> : a \in 1..made[j]}

\* The worker never finds a job of the queue with nothing to do for it: what
\* QueuedSettles owes to the shape of a job, and not to fairness.
Queued(j) == state[j] \in {"waiting", "posting", "posted", "recorded"}
Workable == \A j \in Jobs : Queued(j) => ENABLED <<Work(j)>>_outboundVars

\* Every queued job comes to an end, whatever is done to its webhook meanwhile.
QueuedSettles ==
    \A j \in Jobs :
        (state[j] = "waiting") ~> (state[j] \in {"completed", "failed", "skipped"})
=============================================================================
