---------------------------- MODULE MessageDelivery ----------------------------
(***************************************************************************)
(* Outgoing messages of one chat: the rows users and automations create, the *)
(* queue that posts them to the WhatsApp gateway with retries, the echo      *)
(* webhook that links or copies them, delivery acks, the recovery sweep, the *)
(* status reconciler and the manual resend.                                  *)
(* Code: src/apps/api/src/modules/messages, and the echo and ack handlers    *)
(* of src/apps/api/src/modules/webhooks.                                     *)
(*                                                                         *)
(* A message the gateway accepts is a wire, numbered in the order accepted.  *)
(* Every await between a read and the write that depends on it is a step     *)
(* boundary.  Durations only decide which of two things happens first, so    *)
(* they are left to the interleaving; of a row's age the model keeps the     *)
(* half minute in which an echo may claim it.  No guard tells a read message *)
(* from a delivered one: DELIVERED stands for both.                          *)
(***************************************************************************)
EXTENDS Integers, FiniteSets

CONSTANTS
    Messages,        \* rows created by sendText, sendAudio and sendMedia
    Text,            \* [Messages -> contents]  Message.content
    Jobs,            \* bound: jobs of the messages-send queue alive at once
    Manuals,         \* bound: calls of the resend endpoint
    Sweeps,          \* executions of the recovery cron that may overlap
    Reconciler,      \* the reconciler: its running flag admits one execution
    Nobody,          \* no row
    MaxWires,        \* bound: posts the gateway accepts
    Attempts,        \* the 4 attempts of a job
    MaxResends,      \* the 5 resends of the sweep
    MaxStuckResends, \* the 2 resends of the reconciler
    MaxCrashes       \* bound: restarts of the process

Wires == 1..MaxWires
NoId == 0            \* a null whatsapp_message_id
Rows == Messages \cup Wires        \* a copy made by an echo is named by its wire
Callers == Messages \cup Manuals \cup Sweeps \cup {Reconciler}

ASSUME ParameterAssumption ==
    /\ IsFiniteSet(Messages)
    /\ {MaxWires, Attempts, MaxResends, MaxStuckResends, MaxCrashes} \subseteq Nat
    /\ Attempts > 0
    /\ Messages \cap Wires = {}
    /\ Nobody \notin Rows
    /\ Messages \cap (Manuals \cup Sweeps) = {} /\ Manuals \cap Sweeps = {}
    /\ Reconciler \notin Messages \cup Manuals \cup Sweeps

VARIABLES
    \* rows
    status,          \* MessageStatus, "none" before the row exists
    wire,            \* whatsapp_message_id
    resends,         \* metadata.resend_count
    cause,           \* metadata.send_error_*: may the sweep take it for undelivered?
    fresh,           \* rows created in the last 30 seconds
    born,            \* order of creation
    text,            \* content
    \* processes
    job,             \* [Jobs -> a job of the queue, with the state of its handler]
    request,         \* [Callers -> a resend in progress, or the add of a new message]
    swept,           \* [Sweeps -> rows read by the sweep and not yet handled]
    plan,            \* [Rows -> what the reconciler read or decided]
    echo,            \* [Wires -> the webhook of the gateway's own message]
    crashes,
    \* the gateway
    server,          \* [Wires -> status]
    origin,          \* [Wires -> the row it was posted for]
    \* history
    lost,            \* wires whose id their row does not, or no longer, know
    abandoned        \* rows whose job was discarded by suspension or restarts

rows == <<status, wire, resends, cause, fresh, born, text>>
processes == <<job, request, swept, plan, echo, crashes>>
gateway == <<server, origin>>
history == <<lost, abandoned>>
vars == <<rows, processes, gateway, history>>

NoJob == [row |-> Nobody, step |-> "free", left |-> 0, wire |-> NoId, id |-> NoId,
          n |-> 0, cause |-> "none", stalled |-> FALSE]
NoRequest == [row |-> Nobody, step |-> "idle", n |-> 0, cause |-> "none"]
Ended == [NoRequest EXCEPT !.step = "ended"]
NoPlan == [act |-> "none", wire |-> NoId, n |-> 0, cause |-> "none"]
NoEcho == [step |-> "none", row |-> Nobody]

Exists(r) == status[r] # "none"
Posted == {w \in Wires : server[w] # "none"}
Linked(w) == {r \in Rows : wire[r] = w}
Delivered(w) == server[w] = "DELIVERED"
Busy(r) == {j \in Jobs : job[j].row = r /\ job[j].step \in {"post", "update"}}

\* alreadySent: the guard of the queue worker before every attempt.
Faulty_AlreadySent(r) == status[r] = "SENT"

AlreadySent(r) == wire[r] # NoId \/ status[r] = "SENT"

Init ==
    /\ status = [r \in Rows |-> "none"]
    /\ wire = [r \in Rows |-> NoId]
    /\ resends = [r \in Rows |-> 0]
    /\ cause = [r \in Rows |-> "none"]
    /\ fresh = {}
    /\ born = [r \in Rows |-> 0]
    /\ text = [r \in Rows |-> IF r \in Messages THEN Text[r] ELSE Nobody]
    /\ job = [j \in Jobs |-> NoJob]
    /\ request = [p \in Callers |-> NoRequest]
    /\ swept = [s \in Sweeps |-> {}]
    /\ plan = [r \in Rows |-> NoPlan]
    /\ echo = [w \in Wires |-> NoEcho]
    /\ crashes = 0
    /\ server = [w \in Wires |-> "none"]
    /\ origin = [w \in Wires |-> Nobody]
    /\ lost = {}
    /\ abandoned = {}

--------------------------------------------------------------------------------
(* Creating a message and asking for it again                               *)

\* Users' requests are answered once; the crons come back.
Return(p) ==
    request' = [request EXCEPT ![p] =
                    IF p \in Messages \cup Manuals THEN Ended ELSE NoRequest]

Create(m) ==
    /\ ~Exists(m)
    /\ status' = [status EXCEPT ![m] = "PENDING"]
    /\ born' = [born EXCEPT ![m] = Cardinality({r \in Rows : Exists(r)})]
    /\ fresh' = fresh \cup {m}
    /\ request' = [request EXCEPT ![m] = [NoRequest EXCEPT !.row = m, !.step = "add"]]
    /\ UNCHANGED <<wire, resends, cause, text, job, swept, plan, echo, crashes,
                   gateway, history>>

Ask(p, r) == request' = [request EXCEPT ![p] = [NoRequest EXCEPT !.row = r, !.step = "read"]]

ResendRequest(p) ==
    /\ request[p].step = "idle" /\ p \in Manuals
    /\ \E r \in Rows : Exists(r) /\ Ask(p, r)
    /\ UNCHANGED <<rows, job, swept, plan, echo, crashes, gateway, history>>

\* Only a linked row or one in SENT is turned away.
ResendRead(p) ==
    /\ request[p].step = "read"
    /\ LET r == request[p].row
       IN  IF wire[r] # NoId \/ status[r] = "SENT"
           THEN Return(p)
           ELSE request' = [request EXCEPT ![p] =
                    [row |-> r, step |-> "put", n |-> resends[r], cause |-> cause[r]]]
    /\ UNCHANGED <<rows, job, swept, plan, echo, crashes, gateway, history>>

\* The metadata is written back whole, from the copy just read.
ResendPut(p) ==
    /\ request[p].step = "put"
    /\ LET r == request[p].row
       IN  /\ status' = [status EXCEPT ![r] = "PENDING"]
           /\ resends' = [resends EXCEPT ![r] = request[p].n + 1]
           /\ cause' = [cause EXCEPT ![r] = request[p].cause]
    /\ request' = [request EXCEPT ![p] = [@ EXCEPT !.step = "add"]]
    /\ UNCHANGED <<wire, fresh, born, text, job, swept, plan, echo, crashes, gateway,
                   history>>

Enqueue(p) ==
    /\ request[p].step = "add"
    /\ \E j \in Jobs :
        /\ job[j].step = "free"
        /\ job' = [job EXCEPT ![j] = [NoJob EXCEPT !.row = request[p].row,
                                                   !.step = "wait", !.left = Attempts]]
    /\ Return(p)
    /\ UNCHANGED <<rows, swept, plan, echo, crashes, gateway, history>>

\* No connected instance, no signed url, no queue: after "put" the row keeps
\* PENDING and no job.
RequestThrows(p) ==
    /\ request[p].step \in {"put", "add"}
    /\ Return(p)
    /\ abandoned' = IF request[p].step = "add" THEN abandoned \cup {request[p].row}
                                               ELSE abandoned
    /\ UNCHANGED <<rows, job, swept, plan, echo, crashes, gateway, lost>>

--------------------------------------------------------------------------------
(* MessagesSendProcessor                                                    *)

Free(j) == job' = [job EXCEPT ![j] = NoJob]

\* A suspended company's job is discarded as done.
Discard(j) ==
    /\ job[j].step = "wait"
    /\ abandoned' = abandoned \cup {job[j].row}
    /\ Free(j)
    /\ UNCHANGED <<rows, request, swept, plan, echo, crashes, gateway, lost>>

Attempt(j) ==
    /\ job[j].step = "wait"
    /\ IF AlreadySent(job[j].row) THEN Free(j)
                                  ELSE job' = [job EXCEPT ![j] = [@ EXCEPT !.step = "post"]]
    /\ UNCHANGED <<rows, request, swept, plan, echo, crashes, gateway, history>>

\* The attempt throws: a retry after the backoff, or the final failure.
Fail(j, why) ==
    job' = [job EXCEPT ![j] =
                [@ EXCEPT !.step = IF job[j].left > 1 THEN "wait" ELSE "failed",
                          !.left = job[j].left - 1, !.cause = why]]

\* The gateway takes the message; its answer may lack the id, or never come.
PostAccepted(j) ==
    /\ job[j].step = "post"
    /\ Cardinality(Posted) < MaxWires
    /\ LET r == job[j].row
           w == Cardinality(Posted) + 1
       IN  /\ server' = [server EXCEPT ![w] = "SENT"]
           /\ origin' = [origin EXCEPT ![w] = r]
           /\ text' = [text EXCEPT ![w] = text[r]]
           /\ echo' = [echo EXCEPT ![w] = [@ EXCEPT !.step = "due"]]
           /\ \/ /\ \E id \in {w, NoId} :
                      job' = [job EXCEPT ![j] = [@ EXCEPT !.step = "update", !.wire = w, !.id = id]]
                 /\ UNCHANGED lost
              \/ Fail(j, "other") /\ lost' = lost \cup {w}
    /\ UNCHANGED <<status, wire, resends, cause, fresh, born, request, swept, plan, crashes,
                   abandoned>>

Faulty_PostRefused(j) ==
    /\ job[j].step = "post"
    /\ job' = [job EXCEPT ![j] = [@ EXCEPT !.step = "update"]]
    /\ UNCHANGED <<rows, request, swept, plan, echo, crashes, gateway, history>>

\* "clear": 429, 500, 502, 503 and refused connections, which the code takes
\* for no delivery; "other": any other error before the message was taken.
PostRefused(j) ==
    /\ job[j].step = "post"
    /\ \E why \in {"clear", "other"} : Fail(j, why)
    /\ UNCHANGED <<rows, request, swept, plan, echo, crashes, gateway, history>>

Faulty_Taken(r, w) == FALSE

Taken(r, w) == w # NoId /\ \E q \in Rows \ {r} : wire[q] = w

\* P2002 when another row of the chat has the id: the attempt throws.  The id an
\* echo may have linked is overwritten, and erased by an answer without one.
Record(j) ==
    /\ job[j].step = "update"
    /\ LET r == job[j].row
           id == job[j].id
       IN  IF Taken(r, id)
           THEN /\ Fail(j, "other")
                /\ lost' = lost \cup {id}
                /\ UNCHANGED <<status, wire>>
           ELSE /\ status' = [status EXCEPT ![r] = "SENT"]
                /\ wire' = [wire EXCEPT ![r] = id]
                /\ lost' = lost \cup ({wire[r], job[j].wire} \ {NoId, id})
                /\ Free(j)
    /\ UNCHANGED <<resends, cause, fresh, born, text, request, swept, plan, echo, crashes,
                   gateway, abandoned>>

RecordThrows(j) ==
    /\ job[j].step = "update"
    /\ Fail(j, "other")
    /\ lost' = lost \cup {job[j].wire}
    /\ UNCHANGED <<rows, request, swept, plan, echo, crashes, gateway, abandoned>>

Faulty_FailedRead(j) ==
    /\ job[j].step = "failed"
    /\ Free(j)
    /\ UNCHANGED <<rows, request, swept, plan, echo, crashes, gateway, history>>

\* onFailed reads the metadata to merge it; a read that fails counts as empty ...
FailedRead(j) ==
    /\ job[j].step = "failed"
    /\ \E n \in {resends[job[j].row], 0} :
        job' = [job EXCEPT ![j] = [@ EXCEPT !.step = "failing", !.n = n]]
    /\ UNCHANGED <<rows, request, swept, plan, echo, crashes, gateway, history>>

\* ... and writes FAILED by id, whatever became of the row.
FailedWrite(j) ==
    /\ job[j].step = "failing"
    /\ LET r == job[j].row
       IN  /\ status' = [status EXCEPT ![r] = "FAILED"]
           /\ resends' = [resends EXCEPT ![r] = job[j].n]
           /\ cause' = [cause EXCEPT ![r] = job[j].cause]
    /\ Free(j)
    /\ UNCHANGED <<wire, fresh, born, text, request, swept, plan, echo, crashes, gateway,
                   history>>

\* A write that fails is logged: the row keeps its status and has no job.
FailedWriteThrows(j) ==
    /\ job[j].step = "failing"
    /\ Free(j)
    /\ abandoned' = abandoned \cup {job[j].row}
    /\ UNCHANGED <<rows, request, swept, plan, echo, crashes, gateway, lost>>

--------------------------------------------------------------------------------
(* MessagesRecoveryService.sweep                                            *)

Eligible(r) ==
    /\ status[r] = "FAILED" /\ wire[r] = NoId
    /\ cause[r] = "clear" /\ resends[r] < MaxResends

SweepRead(s) ==
    /\ request[s].step = "idle" /\ swept[s] = {}
    /\ \E r \in Rows : Eligible(r)
    /\ swept' = [swept EXCEPT ![s] = {r \in Rows : Eligible(r)}]
    /\ UNCHANGED <<rows, job, request, plan, echo, crashes, gateway, history>>

SweepNext(s) ==
    /\ request[s].step = "idle"
    /\ \E r \in swept[s] :
        /\ Ask(s, r)
        /\ swept' = [swept EXCEPT ![s] = @ \ {r}]
    /\ UNCHANGED <<rows, job, plan, echo, crashes, gateway, history>>

--------------------------------------------------------------------------------
(* The echo of our own message, inbound webhook                             *)

\* The latest row of the last 30 seconds with the same content.
RecentLocal(w) ==
    LET same == {r \in Rows : r \in fresh /\ text[r] = text[w]}
    IN  {r \in same : \A q \in same : born[q] <= born[r]}

EchoRead(w) ==
    /\ echo[w].step = "due"
    /\ echo' = [echo EXCEPT ![w] =
        IF Linked(w) # {} THEN [step |-> "done", row |-> Nobody]
        ELSE IF \E r \in RecentLocal(w) : wire[r] = NoId
        THEN [step |-> "link", row |-> CHOOSE r \in RecentLocal(w) : TRUE]
        ELSE [step |-> "insert", row |-> Nobody]]
    /\ UNCHANGED <<rows, job, request, swept, plan, crashes, gateway, history>>

\* The id is written by row id, over the one the worker may have recorded since;
\* the unique key may refuse it, and the webhook job is then run again.
EchoLink(w) ==
    /\ echo[w].step = "link"
    /\ IF Taken(echo[w].row, w)
       THEN /\ echo' = [echo EXCEPT ![w] = [step |-> "due", row |-> Nobody]]
            /\ UNCHANGED <<wire, lost>>
       ELSE /\ echo' = [echo EXCEPT ![w] = [step |-> "done", row |-> Nobody]]
            /\ wire' = [wire EXCEPT ![echo[w].row] = w]
            /\ lost' = (IF echo[w].row = origin[w] THEN lost \ {w} ELSE lost)
                         \cup ({wire[echo[w].row]} \ {NoId, w})
    /\ UNCHANGED <<status, resends, cause, fresh, born, text, job, request, swept, plan,
                   crashes, gateway, abandoned>>

EchoInsert(w) ==
    /\ echo[w].step = "insert"
    /\ echo' = [echo EXCEPT ![w] = [@ EXCEPT !.step = "done"]]
    /\ IF Linked(w) # {}
       THEN UNCHANGED <<status, wire, born, fresh>>
       ELSE /\ status' = [status EXCEPT ![w] = "SENT"]
            /\ wire' = [wire EXCEPT ![w] = w]
            /\ born' = [born EXCEPT ![w] = Cardinality({r \in Rows : Exists(r)})]
            /\ fresh' = fresh \cup {w}
    /\ UNCHANGED <<resends, cause, text, job, request, swept, plan, crashes, gateway,
                   history>>

--------------------------------------------------------------------------------
(* Delivery: the gateway's progress, acks, and the status reconciler        *)

ServerMoves(w) ==
    /\ server[w] = "SENT"
    /\ \E s \in {"DELIVERED", "ERROR"} : server' = [server EXCEPT ![w] = s]
    /\ UNCHANGED <<rows, processes, origin, history>>

\* What the gateway has reported of the wire so far, in whatever order it
\* arrives, and as often.
Acks(w) ==
    CASE server[w] = "none" -> {}
      [] server[w] = "SENT" -> {"SENT"}
      [] server[w] = "DELIVERED" -> {"SENT", "DELIVERED"}
      [] server[w] = "ERROR" -> {"SENT", "FAILED"}

Ack(w) ==
    /\ Linked(w) # {}
    /\ \E s \in Acks(w) :
        status' = [r \in Rows |-> IF r \in Linked(w) THEN s ELSE status[r]]
    /\ UNCHANGED <<wire, resends, cause, fresh, born, text, processes, gateway, history>>

Planless == \A r \in Rows : plan[r].act = "none"

ReconcileRead ==
    /\ Planless /\ request[Reconciler].step = "idle"
    /\ \E r \in Rows : status[r] = "SENT" /\ wire[r] # NoId
    /\ plan' = [r \in Rows |->
        IF status[r] = "SENT" /\ wire[r] # NoId
        THEN [act |-> "ask", wire |-> wire[r], n |-> resends[r], cause |-> cause[r]]
        ELSE NoPlan]
    /\ UNCHANGED <<rows, job, request, swept, echo, crashes, gateway, history>>

\* planReconciliation: a stuck row is half an hour old and still SENT at the
\* gateway, with a later message of the chat delivered.
Stuck(r) ==
    LET w == plan[r].wire
    IN  server[w] = "SENT" /\ r \notin fresh /\ \E v \in Wires : v > w /\ Delivered(v)

\* A row the gateway's page of messages does not show gets no verdict.
Verdicts(r) ==
    {"none"} \cup (IF plan[r].act = "ask" /\ Delivered(plan[r].wire) THEN {"DELIVERED"} ELSE {})
             \cup (IF plan[r].act = "ask" /\ Stuck(r) THEN {"STUCK"} ELSE {})

ReconcileAsk ==
    /\ \E r \in Rows : plan[r].act = "ask"
    /\ \E verdict \in [Rows -> {"none", "DELIVERED", "STUCK"}] :
        /\ \A r \in Rows : verdict[r] \in Verdicts(r)
        /\ plan' = [r \in Rows |-> IF verdict[r] = "none" THEN NoPlan
                                   ELSE [plan[r] EXCEPT !.act = verdict[r]]]
    /\ UNCHANGED <<rows, job, request, swept, echo, crashes, gateway, history>>

ReconcileThrows ==
    /\ ~Planless /\ request[Reconciler].step = "idle"
    /\ plan' = [r \in Rows |-> NoPlan]
    /\ UNCHANGED <<rows, job, request, swept, echo, crashes, gateway, history>>

Faulty_ReconcileStatus(r) ==
    /\ plan[r].act = "DELIVERED" /\ request[Reconciler].step = "idle"
    /\ status' = [status EXCEPT ![r] = plan[r].act]
    /\ wire' = [wire EXCEPT ![r] = NoId]
    /\ plan' = [plan EXCEPT ![r] = NoPlan]
    /\ UNCHANGED <<resends, cause, fresh, born, text, job, request, swept, echo,
                   crashes, gateway, history>>

ReconcileStatus(r) ==
    /\ plan[r].act = "DELIVERED" /\ request[Reconciler].step = "idle"
    /\ status' = [status EXCEPT ![r] = plan[r].act]
    /\ plan' = [plan EXCEPT ![r] = NoPlan]
    /\ UNCHANGED <<wire, resends, cause, fresh, born, text, job, request, swept, echo,
                   crashes, gateway, history>>

\* markStuck writes the metadata it read at the start, drops the id, and
\* resends unless the row is no text, is old, or was resent enough.
MarkStuck(r) ==
    /\ plan[r].act = "STUCK" /\ request[Reconciler].step = "idle"
    /\ status' = [status EXCEPT ![r] = "FAILED"]
    /\ wire' = [wire EXCEPT ![r] = NoId]
    /\ resends' = [resends EXCEPT ![r] = plan[r].n]
    /\ cause' = [cause EXCEPT ![r] = plan[r].cause]
    /\ lost' = lost \cup ({plan[r].wire, wire[r]} \ {NoId})
    /\ plan' = [plan EXCEPT ![r] = NoPlan]
    /\ \/ plan[r].n < MaxStuckResends /\ Ask(Reconciler, r)
       \/ UNCHANGED request
    /\ UNCHANGED <<fresh, born, text, job, swept, echo, crashes, gateway, abandoned>>

--------------------------------------------------------------------------------
Ages(r) ==
    /\ r \in fresh
    /\ fresh' = fresh \ {r}
    /\ UNCHANGED <<status, wire, resends, cause, born, text, processes, gateway, history>>

\* One process holds the API, the crons and the workers.  The queue runs a job
\* whose worker died once more, and drops it the second time.
Crash ==
    LET running == {j \in Jobs : job[j].step \in {"post", "update"}}
        again == {j \in running : ~job[j].stalled}
        gone == {j \in running : job[j].stalled}
                    \cup {j \in Jobs : job[j].step \in {"failed", "failing"}}
        adding == {p \in Callers : request[p].step = "add"}
    IN  /\ crashes < MaxCrashes
        /\ crashes' = crashes + 1
        /\ job' = [j \in Jobs |->
            CASE j \in again -> [job[j] EXCEPT !.step = "wait", !.stalled = TRUE]
              [] j \in gone -> NoJob
              [] OTHER -> job[j]]
        /\ request' = [p \in Callers |->
            CASE request[p].step = "ended" -> Ended
              [] request[p].step # "idle" /\ p \in Messages \cup Manuals -> Ended
              [] OTHER -> NoRequest]
        /\ swept' = [s \in Sweeps |-> {}]
        /\ plan' = [r \in Rows |-> NoPlan]
        /\ echo' = [w \in Wires |->
            IF echo[w].step \in {"link", "insert"} THEN [step |-> "due", row |-> Nobody]
                                                   ELSE echo[w]]
        /\ abandoned' = abandoned \cup {job[j].row : j \in gone} \cup {request[p].row : p \in adding}
        /\ lost' = lost \cup {job[j].wire : j \in {i \in running : job[i].step = "update"}}
        /\ UNCHANGED <<rows, gateway>>

Send(j) ==
    \/ Attempt(j) \/ PostAccepted(j) \/ PostRefused(j) \/ Record(j)
    \/ FailedRead(j) \/ FailedWrite(j)

Resend(p) == ResendRead(p) \/ ResendPut(p) \/ Enqueue(p)
Sweep(s) == SweepRead(s) \/ SweepNext(s)
Echo(w) == EchoRead(w) \/ EchoLink(w) \/ EchoInsert(w)

Reconcile ==
    \/ ReconcileRead \/ ReconcileAsk
    \/ \E r \in Rows : ReconcileStatus(r) \/ MarkStuck(r)

Next ==
    \/ \E m \in Messages : Create(m)
    \/ \E p \in Manuals : ResendRequest(p)
    \/ \E p \in Callers : Resend(p) \/ RequestThrows(p)
    \/ \E j \in Jobs : Send(j) \/ Discard(j) \/ RecordThrows(j) \/ FailedWriteThrows(j)
    \/ \E s \in Sweeps : Sweep(s)
    \/ \E w \in Wires : Echo(w) \/ ServerMoves(w) \/ Ack(w)
    \/ Reconcile \/ ReconcileThrows
    \/ \E r \in Rows : Ages(r)
    \/ Crash

Spec == Init /\ [][Next]_vars

--------------------------------------------------------------------------------
(* Fairness: timers fire, the workers of a live process go on, and a call to *)
(* the gateway ends, well or not (the code sets no timeout on it: this is an *)
(* assumption on the network).  Users, crons, webhooks, the gateway's own    *)
(* progress, errors and crashes owe nothing.                                 *)
GoesOn(p) == WF_vars(Resend(p))
Works(j) == WF_vars(Send(j))

Fairness ==
    /\ \A p \in Callers : GoesOn(p)
    /\ \A j \in Jobs : Works(j)

FairSpec == Spec /\ Fairness

--------------------------------------------------------------------------------
(* Correctness                                                              *)

RowStatus == {"none", "PENDING", "SENT", "DELIVERED", "FAILED"}
Causes == {"none", "clear", "other"}
JobRecord ==
    [row : Rows \cup {Nobody}, step : {"free", "wait", "post", "update", "failed", "failing"},
     left : Nat, wire : Wires \cup {NoId}, id : Wires \cup {NoId},
     n : Nat, cause : Causes, stalled : BOOLEAN]
RequestRecord ==
    [row : Rows \cup {Nobody}, step : {"idle", "read", "put", "add", "ended"},
     n : Nat, cause : Causes]
PlanRecord ==
    [act : {"none", "ask", "DELIVERED", "STUCK"}, wire : Wires \cup {NoId},
     n : Nat, cause : Causes]
EchoRecord == [step : {"none", "due", "link", "insert", "done"}, row : Rows \cup {Nobody}]

TypeOK ==
    /\ status \in [Rows -> RowStatus]
    /\ wire \in [Rows -> Wires \cup {NoId}]
    /\ resends \in [Rows -> Nat]
    /\ cause \in [Rows -> Causes]
    /\ fresh \subseteq Rows
    /\ born \in [Rows -> Nat]
    /\ text \in [Rows -> {Text[m] : m \in Messages} \cup {Nobody}]
    /\ job \in [Jobs -> JobRecord]
    /\ request \in [Callers -> RequestRecord]
    /\ swept \in [Sweeps -> SUBSET Rows]
    /\ plan \in [Rows -> PlanRecord]
    /\ echo \in [Wires -> EchoRecord]
    /\ crashes \in Nat
    /\ server \in [Wires -> {"none", "SENT", "DELIVERED", "ERROR"}]
    /\ origin \in [Wires -> Rows \cup {Nobody}]
    /\ lost \subseteq Wires
    /\ abandoned \subseteq Rows
    /\ \A r, q \in Rows : wire[r] = wire[q] => r = q \/ wire[r] = NoId

PostsOf(r) == {w \in Wires : origin[w] = r}

\* A message is posted again only while its row does not know an earlier post
\* (the answer was lost, had no id or was refused by the database, the reconciler
\* gave the post up, or the echo of an equal message took the place of its id) or
\* while another job of the row is posting: no sequence of resends, acks, echoes
\* and failures makes a row that knows its post send it again.
NoSilentDuplicate ==
    [][\A j \in Jobs : job[j].step = "wait" /\ job'[j].step = "post" =>
          LET r == job[j].row
          IN  PostsOf(r) = {} \/ PostsOf(r) \cap lost # {} \/ Busy(r) # {}]_vars

\* The attempts under way, the posts they hold, and the posts whose row has their id.
Contract == INSTANCE DeliveryContract WITH
    Posts <- Wires, Runs <- Jobs, None <- NoId, sender <- origin,
    at <- [j \in Jobs |-> IF job[j].step \in {"post", "update"} THEN job[j].row ELSE Nobody],
    holds <- [j \in Jobs |-> IF job[j].step = "update" THEN job[j].wire ELSE NoId],
    known <- {w \in Wires : origin[w] # Nobody /\ wire[origin[w]] = w}

\* The rows, the queue, the sweep, the reconciler and the webhooks together keep
\* the contract: no attempt begins while its row remembers a post, and a row's
\* memory is lost only as the contract says, never to a crash.
KeepsContract == Contract!Spec

\* What the chat shows as sent or delivered has reached the gateway.
ShownReachedGateway ==
    \A r \in Messages : status[r] \in {"SENT", "DELIVERED"} =>
        \E w \in Posted : text[w] = text[r]

\* A row that shows as pending, and that no id and no note of its abandonment
\* explains, has a job of the queue or a request about to add one: nothing in the
\* code looks for pending rows, so that one left without would stay so.
Unsettled(r) == status[r] = "PENDING" /\ wire[r] = NoId /\ r \notin abandoned
Carries(j, r) == job[j].row = r /\ job[j].step # "free"
CarriedByJob(r) == \E j \in Jobs : Carries(j, r)
CarriedByRequest(r) == \E p \in Callers : request[p].row = r /\ request[p].step = "add"
PendingIsCarried == \A r \in Rows : Unsettled(r) => CarriedByJob(r) \/ CarriedByRequest(r)

\* A pending message is settled or at least linked to its wire, unless its job
\* was thrown away.
PendingSettles ==
    \A r \in Rows : status[r] = "PENDING" ~>
        (status[r] # "PENDING" \/ wire[r] # NoId \/ r \in abandoned)

\* The worker never finds a job with nothing to do for it: what PendingSettles owes
\* to the shape of a job, and not to fairness.
Sendable == \A j \in Jobs : job[j].step # "free" => ENABLED <<Send(j)>>_vars

\* "Se a msg JÁ saiu o retry é abortado": a job does not post again what the
\* echo has already brought back to the chat as a row of its own.
EchoStopsRetries ==
    [][\A j \in Jobs : job[j].step = "wait" /\ job'[j].step = "post" =>
          \A w \in PostsOf(job[j].row) : ~Exists(w)]_vars

\* "Timeouts (...) NÃO são reenviados aqui": the sweep takes no row whose post
\* the gateway accepted while the answer was lost.
TimeoutsNotResent == \A s \in Sweeps : \A r \in swept[s] : PostsOf(r) = {}

================================================================================
