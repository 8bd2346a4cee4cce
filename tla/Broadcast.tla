------------------------------- MODULE Broadcast -------------------------------
(***************************************************************************)
(* Follow-up campaigns: the minute cron and the manual "send now" that      *)
(* share one sender, the reply hook of the inbound webhook, the recovery    *)
(* cron and the management API, all acting on the same campaign and target  *)
(* rows.  Code: src/apps/api/src/modules/broadcasts.                         *)
(*                                                                         *)
(* Every await of the code is a step boundary here: a sender is a process   *)
(* whose pc names the statement it is about to execute.  A transaction that *)
(* takes the tenant's advisory lock is two steps with the lock held between *)
(* them, so other writers, which take no lock, interleave with it.          *)
(***************************************************************************)
EXTENDS Integers, FiniteSets

CONSTANTS
    Tenants, Campaigns, Targets, Leads,
    TenantOf,        \* [Campaigns -> Tenants]   Broadcast.tenant_id
    CampaignOf,      \* [Targets -> Campaigns]   BroadcastTarget.broadcast_id
    LeadOf,          \* [Targets -> Leads]       BroadcastTarget.lead_id
    Ticks,           \* executions of the dispatcher cron that may overlap
    Manuals,         \* executions of sendNow
    Nobody,          \* no campaign, no target
    DailyLimit,      \* [Campaigns -> Nat]       Broadcast.daily_limit
    TenantLimit,     \* the 200 attempts a day of a company
    Throttle,        \* [Campaigns -> Nat]       Broadcast.throttle_seconds
    MinGap,          \* the 30 s floor between campaigns of a company
    StaleAfter,      \* the 20 min after which a claim is taken for interrupted
    DayLength,       \* time units in a day
    TenantHours,     \* [Tenants -> SUBSET 0..DayLength-1]    company window
    CampaignHours,   \* [Campaigns -> SUBSET 0..DayLength-1]  campaign window
    MaxNow,          \* bound: the clock stops here
    LastReserve,     \* bound: no reservation is granted after this time
    MaxRetries,      \* bound: retryFailed requeues a target this often
    MaxCrashes,      \* bound: process crashes
    Managed,         \* bound: campaigns managers do more to than start
    Speakers         \* bound: leads that write

Workers == Ticks \cup Manuals

ASSUME TopologyAssumption ==
    /\ TenantOf \in [Campaigns -> Tenants]
    /\ CampaignOf \in [Targets -> Campaigns]
    /\ LeadOf \in [Targets -> Leads]
    /\ Managed \subseteq Campaigns /\ Speakers \subseteq Leads
    /\ Nobody \notin Campaigns \cup Targets
    /\ Ticks \cap Manuals = {}
    /\ IsFiniteSet(Workers)
    /\ IsFiniteSet(Targets)

ASSUME BoundAssumption ==
    /\ DailyLimit \in [Campaigns -> Nat \ {0}]
    /\ Throttle \in [Campaigns -> Nat]
    /\ {TenantLimit, MinGap, StaleAfter, MaxNow, LastReserve, MaxRetries,
        MaxCrashes} \subseteq Nat
    /\ DayLength \in Nat \ {0}
    /\ TenantHours \in [Tenants -> SUBSET (0..DayLength-1)]
    /\ CampaignHours \in [Campaigns -> SUBSET (0..DayLength-1)]

Never == -1          \* a null timestamp

CampaignStatus == {"draft", "running", "paused", "done", "canceled", "deleted"}
TargetStatus == {"pending", "sent", "replied", "skipped", "failed", "gone"}

\* The statements between a claim and the sendText call: a worker standing at
\* one of them owns a claim and has not messaged the customer yet.
BeforeSend == {"lead", "noSender", "content", "recheck", "fresh", "gate",
               "skip", "release", "aiConfig", "send"}
InLoop == {"count", "close", "reserve", "claim", "markFailed", "pause"}
PC == {"idle", "loop", "mark", "rescue"} \cup BeforeSend \cup InLoop

VARIABLES
    now,
    \* rows
    status,      \* [Campaigns -> CampaignStatus]
    last,        \* [Campaigns -> time]  last_dispatch_at
    st,          \* [Targets -> TargetStatus]
    claimed,     \* [Targets -> BOOLEAN]  error_code = 'dispatching'
    sentAt,      \* [Targets -> time]
    spoke,       \* [Leads -> BOOLEAN] last_customer_message_at > created_at
    \* processes
    pc, todo, camp, tgt, at,
    hook,        \* [Leads -> record]  a registerCustomerReply in progress
    removing,    \* campaigns whose remove() passed its checks
    crashes,
    \* history, read by no action
    sends,       \* [Targets -> Nat] messages handed to the message queue
    retries,     \* [Targets -> Nat] times the manager requeued the target
    sentOn,      \* [Campaigns -> Nat] messages handed over since midnight
    sentBy,      \* [Tenants -> Nat]   the same, of all campaigns of a company
    carried      \* [Campaigns -> BOOLEAN] a delivery was open at midnight

rows == <<status, last, st, claimed, sentAt, spoke>>
history == <<sends, retries, sentOn, sentBy, carried>>
vars == <<now, rows, pc, todo, camp, tgt, at, hook, removing, crashes, history>>

--------------------------------------------------------------------------------
(* Queries                                                                 *)

TargetsOf(c) == {t \in Targets : CampaignOf[t] = c}
Midnight(time) == time - (time % DayLength)
TenantOpen(c, time) == time % DayLength \in TenantHours[TenantOf[c]]
ThrottleElapsed(c, time) == last[c] = Never \/ time - last[c] >= Throttle[c]

\* The reservation and the final check ask the same question of fresh rows;
\* the final one leaves the throttle out.
Dispatchable(c, time) ==
    /\ status[c] = "running"
    /\ TenantOpen(c, time)
    /\ time % DayLength \in CampaignHours[c]

SentToday(c) ==
    Cardinality({t \in TargetsOf(c) : /\ st[t] \in {"sent", "replied"}
                                      /\ sentAt[t] >= Midnight(now)})

AttemptsToday(cs) ==
    Cardinality({t \in Targets : /\ CampaignOf[t] \in cs
                                 /\ st[t] # "gone"
                                 /\ sentAt[t] >= Midnight(now)})

\* Faulty_* variants are not the code: each puts one plausible bug in the
\* definition that follows it, to confirm that a property notices.
Faulty_Queued(t) == st[t] = "pending"

Queued(t) == st[t] = "pending" /\ ~claimed[t]
InFlight(t) == st[t] = "pending" /\ claimed[t]

SameTenant(c) == {d \in Campaigns : TenantOf[d] = TenantOf[c]}

\* findFirst ordered by last_dispatch_at desc: the latest dispatch of the tenant.
Recent(c) == {d \in SameTenant(c) :
                /\ last[d] # Never
                /\ \A e \in SameTenant(c) : last[e] <= last[d]}

Faulty_IntervalElapsed(c) ==
    last[c] # Never => now - last[c] >= MinGap /\ now - last[c] >= Throttle[c]

IntervalElapsed(c) ==
    \A d \in Recent(c) : \A gap \in {MinGap, Throttle[c], Throttle[d]} :
        now - last[d] >= gap

CanReserve(c) ==
    /\ Dispatchable(c, now) /\ ThrottleElapsed(c, now)
    /\ AttemptsToday({c}) < DailyLimit[c]
    /\ AttemptsToday(SameTenant(c)) < TenantLimit
    /\ IntervalElapsed(c)
    /\ now <= LastReserve

Faulty_LockFree(c) == TRUE

\* pg_advisory_xact_lock(tenant): held from the check to the end of the claim.
LockFree(c) == \A w \in Workers : pc[w] = "claim" => TenantOf[camp[w]] # TenantOf[c]

--------------------------------------------------------------------------------
NoHook == [step |-> "idle", sent |-> {}, queued |-> {}]

Init ==
    /\ now = 0
    /\ status = [c \in Campaigns |-> "draft"]
    /\ last = [c \in Campaigns |-> Never]
    /\ st = [t \in Targets |-> "pending"]
    /\ claimed = [t \in Targets |-> FALSE]
    /\ sentAt = [t \in Targets |-> Never]
    /\ spoke = [l \in Leads |-> FALSE]
    /\ pc = [w \in Workers |-> "idle"]
    /\ todo = [w \in Workers |-> {}]
    /\ camp = [w \in Workers |-> Nobody]
    /\ tgt = [w \in Workers |-> Nobody]
    /\ at = [w \in Workers |-> Never]
    /\ hook = [l \in Leads |-> NoHook]
    /\ removing = {}
    /\ crashes = 0
    /\ sends = [t \in Targets |-> 0]
    /\ retries = [t \in Targets |-> 0]
    /\ sentOn = [c \in Campaigns |-> 0]
    /\ sentBy = [x \in Tenants |-> 0]
    /\ carried = [c \in Campaigns |-> FALSE]

Goto(w, l) == pc' = [pc EXCEPT ![w] = l] /\ UNCHANGED <<todo, camp, tgt, at>>

Faulty_Finish(w) ==
    /\ pc' = [pc EXCEPT ![w] = IF todo[w] = {} THEN "idle" ELSE "loop"]
    /\ camp' = [camp EXCEPT ![w] = Nobody]
    /\ at' = [at EXCEPT ![w] = Never]
    /\ UNCHANGED <<todo, tgt>>

\* The call returns: a tick goes on with its loop, sendNow answers its caller.
Finish(w) ==
    /\ pc' = [pc EXCEPT ![w] = IF todo[w] = {} THEN "idle" ELSE "loop"]
    /\ camp' = [camp EXCEPT ![w] = Nobody]
    /\ tgt' = [tgt EXCEPT ![w] = Nobody]
    /\ at' = [at EXCEPT ![w] = Never]
    /\ UNCHANGED todo

\* An exception nobody catches, or the process dies: nothing more is written.
Vanish(w) ==
    /\ pc' = [pc EXCEPT ![w] = "idle"]
    /\ todo' = [todo EXCEPT ![w] = {}]
    /\ camp' = [camp EXCEPT ![w] = Nobody]
    /\ tgt' = [tgt EXCEPT ![w] = Nobody]
    /\ at' = [at EXCEPT ![w] = Never]

SetTarget(t, s, time) ==
    /\ st' = [st EXCEPT ![t] = s]
    /\ claimed' = [claimed EXCEPT ![t] = FALSE]
    /\ sentAt' = [sentAt EXCEPT ![t] = time]

world == <<now, spoke, hook, removing, crashes>>
processes == <<pc, todo, camp, tgt, at>>

--------------------------------------------------------------------------------
(* BroadcastDispatcher.tick                                                 *)

\* now, the running campaigns and the tenants' windows are read once: what the
\* loop asks of them is settled here.
TickBegin(w) ==
    /\ pc[w] = "idle" /\ w \in Ticks
    /\ LET due == {c \in Campaigns : /\ status[c] = "running"
                                     /\ TenantOpen(c, now)
                                     /\ ThrottleElapsed(c, now)}
       IN  /\ due # {}
           /\ todo' = [todo EXCEPT ![w] = due]
    /\ pc' = [pc EXCEPT ![w] = "loop"]
    /\ UNCHANGED <<rows, world, camp, tgt, at, history>>

TickPick(w) ==
    /\ pc[w] = "loop"
    /\ \E c \in todo[w] :
        /\ todo' = [todo EXCEPT ![w] = @ \ {c}]
        /\ IF SentToday(c) >= DailyLimit[c]
           THEN /\ pc' = [pc EXCEPT ![w] = IF todo[w] = {c} THEN "idle" ELSE "loop"]
                /\ UNCHANGED <<camp, tgt>>
           ELSE /\ camp' = [camp EXCEPT ![w] = c]
                /\ \/ /\ ~ \E t \in TargetsOf(c) : Queued(t)
                      /\ pc' = [pc EXCEPT ![w] = "count"]
                      /\ UNCHANGED tgt
                   \/ \E t \in TargetsOf(c) :
                        /\ Queued(t)
                        /\ pc' = [pc EXCEPT ![w] = "reserve"]
                        /\ tgt' = [tgt EXCEPT ![w] = t]
    /\ UNCHANGED <<rows, world, at, history>>

Faulty_TickCount(w) ==
    /\ pc[w] = "count"
    /\ Finish(w)
    /\ UNCHANGED <<rows, world, history>>

TickCount(w) ==
    /\ pc[w] = "count"
    /\ IF \E t \in TargetsOf(camp[w]) : InFlight(t) THEN Finish(w) ELSE Goto(w, "close")
    /\ UNCHANGED <<rows, world, history>>

TickClose(w) ==
    /\ pc[w] = "close"
    /\ status' = [status EXCEPT ![camp[w]] = IF @ = "running" THEN "done" ELSE @]
    /\ Finish(w)
    /\ UNCHANGED <<last, st, claimed, sentAt, spoke, world, history>>

\* The tick's catch writes by id alone, whatever became of the target.
TickMarkFailed(w) ==
    /\ pc[w] = "markFailed"
    /\ IF st[tgt[w]] = "gone"
       THEN Vanish(w) /\ UNCHANGED rows
       ELSE /\ SetTarget(tgt[w], "failed", sentAt[tgt[w]])
            /\ Finish(w) /\ UNCHANGED <<status, last, spoke>>
    /\ UNCHANGED <<world, history>>

TickPauseForAi(w) ==
    /\ pc[w] = "pause"
    /\ status' = [status EXCEPT ![camp[w]] = IF @ = "running" THEN "paused" ELSE @]
    /\ Finish(w)
    /\ UNCHANGED <<last, st, claimed, sentAt, spoke, world, history>>

Faulty_Stale(t) == InFlight(t) /\ sentAt[t] > now - StaleAfter

\* recoverInterrupted: a claim older than 20 minutes becomes a failure.
Stale(t) == InFlight(t) /\ sentAt[t] < now - StaleAfter

Faulty_RecoverInterrupted ==
    /\ \E t \in Targets : Stale(t)
    /\ claimed' = [t \in Targets |-> claimed[t] /\ ~Stale(t)]
    /\ UNCHANGED <<status, last, st, sentAt, spoke, world, processes, history>>

RecoverInterrupted ==
    /\ \E t \in Targets : Stale(t)
    /\ st' = [t \in Targets |-> IF Stale(t) THEN "failed" ELSE st[t]]
    /\ claimed' = [t \in Targets |-> claimed[t] /\ ~Stale(t)]
    /\ UNCHANGED <<status, last, sentAt, spoke, world, processes, history>>

--------------------------------------------------------------------------------
(* BroadcastsService.sendNow and BroadcastSenderService                     *)

SendNow(w) ==
    /\ pc[w] = "idle" /\ w \in Manuals
    /\ \E t \in Targets :
        /\ status[CampaignOf[t]] = "running"
        /\ SentToday(CampaignOf[t]) < DailyLimit[CampaignOf[t]]
        /\ st[t] = "pending"
        /\ tgt' = [tgt EXCEPT ![w] = t]
        /\ camp' = [camp EXCEPT ![w] = CampaignOf[t]]
    /\ pc' = [pc EXCEPT ![w] = "reserve"]
    /\ UNCHANGED <<rows, world, todo, at, history>>

Reserve(w) ==
    /\ pc[w] = "reserve"
    /\ LockFree(camp[w])
    /\ IF CanReserve(camp[w])
       THEN /\ pc' = [pc EXCEPT ![w] = "claim"]
            /\ at' = [at EXCEPT ![w] = now]
            /\ UNCHANGED <<todo, camp, tgt>>
       ELSE Finish(w)
    /\ UNCHANGED <<rows, world, history>>

Claim(w) ==
    /\ pc[w] = "claim"
    /\ IF Queued(tgt[w])
       THEN /\ claimed' = [claimed EXCEPT ![tgt[w]] = TRUE]
            /\ sentAt' = [sentAt EXCEPT ![tgt[w]] = at[w]]
            /\ last' = [last EXCEPT ![camp[w]] = at[w]]
            /\ pc' = [pc EXCEPT ![w] = "lead"]
            /\ at' = [at EXCEPT ![w] = Never]
            /\ UNCHANGED <<todo, camp, tgt>>
       ELSE Finish(w) /\ UNCHANGED <<claimed, sentAt, last>>
    /\ UNCHANGED <<status, st, spoke, world, history>>

\* A database error rolls the reservation back; only the tick catches it.
ReserveThrows(w) ==
    /\ pc[w] \in {"reserve", "claim"}
    /\ IF w \in Ticks THEN Goto(w, "markFailed") ELSE Vanish(w)
    /\ UNCHANGED <<rows, world, history>>

\* Telephone, ai_blocked and audience belong to other modules: they may make
\* any target skippable.  So may the absence of an active manager.
ReadLead(w) ==
    /\ pc[w] = "lead"
    /\ \/ Goto(w, "skip")
       \/ ~spoke[LeadOf[tgt[w]]] /\ (Goto(w, "noSender") \/ Goto(w, "content"))
    /\ UNCHANGED <<rows, world, history>>

NoSender(w) ==
    /\ pc[w] = "noSender"
    /\ IF st[tgt[w]] = "gone"
       THEN Goto(w, "rescue") /\ UNCHANGED rows
       ELSE /\ SetTarget(tgt[w], "failed", sentAt[tgt[w]])
            /\ Finish(w) /\ UNCHANGED <<status, last, spoke>>
    /\ UNCHANGED <<world, history>>

BuildContent(w) ==
    /\ pc[w] = "content"
    /\ Goto(w, "recheck") \/ Goto(w, "skip") \/ Goto(w, "aiConfig")
    /\ UNCHANGED <<rows, world, history>>

RecheckActive(w) ==
    /\ pc[w] = "recheck"
    /\ IF InFlight(tgt[w]) /\ status[camp[w]] = "running"
       THEN Goto(w, "fresh") ELSE Goto(w, "release")
    /\ UNCHANGED <<rows, world, history>>

RecheckLead(w) ==
    /\ pc[w] = "fresh"
    /\ Goto(w, "skip") \/ (~spoke[LeadOf[tgt[w]]] /\ Goto(w, "gate"))
    /\ UNCHANGED <<rows, world, history>>

Faulty_RecheckWindow(w) ==
    /\ pc[w] = "gate"
    /\ IF Dispatchable(camp[w], now) THEN Goto(w, "send") ELSE Finish(w)
    /\ UNCHANGED <<rows, world, history>>

RecheckWindow(w) ==
    /\ pc[w] = "gate"
    /\ IF Dispatchable(camp[w], now) THEN Goto(w, "send") ELSE Goto(w, "release")
    /\ UNCHANGED <<rows, world, history>>

Release(w) ==
    /\ pc[w] = "release"
    /\ IF InFlight(tgt[w]) THEN SetTarget(tgt[w], "pending", Never)
                           ELSE UNCHANGED <<st, claimed, sentAt>>
    /\ Finish(w)
    /\ UNCHANGED <<status, last, spoke, world, history>>

Skip(w) ==
    /\ pc[w] = "skip"
    /\ IF st[tgt[w]] = "gone"
       THEN Goto(w, "rescue") /\ UNCHANGED rows
       ELSE /\ SetTarget(tgt[w], "skipped", Never)
            /\ Finish(w) /\ UNCHANGED <<status, last, spoke>>
    /\ UNCHANGED <<world, history>>

\* messages.sendText: the message is stored and its job queued.
SendText(w) ==
    /\ pc[w] = "send"
    /\ sends' = [sends EXCEPT ![tgt[w]] = @ + 1]
    /\ sentOn' = [sentOn EXCEPT ![camp[w]] = @ + 1]
    /\ sentBy' = [sentBy EXCEPT ![TenantOf[camp[w]]] = @ + 1]
    /\ Goto(w, "mark")
    /\ UNCHANGED <<rows, world, retries, carried>>

MarkSent(w) ==
    /\ pc[w] = "mark"
    /\ IF st[tgt[w]] = "gone"
       THEN Goto(w, "rescue") /\ UNCHANGED rows
       ELSE /\ SetTarget(tgt[w], "sent", now)
            /\ Finish(w) /\ UNCHANGED <<status, last, spoke>>
    /\ UNCHANGED <<world, history>>

\* Any query, the model call or sendText may throw, each before its effect.
DeliverThrows(w) ==
    /\ pc[w] \in (BeforeSend \ {"aiConfig"}) \cup {"mark"}
    /\ Goto(w, "rescue")
    /\ UNCHANGED <<rows, world, history>>

Rethrow(w, l) == IF w \in Ticks THEN Goto(w, l) ELSE Vanish(w)

Faulty_Rescue(w) ==
    /\ pc[w] = "rescue"
    /\ IF claimed[tgt[w]] THEN SetTarget(tgt[w], "failed", Never)
                          ELSE UNCHANGED <<st, claimed, sentAt>>
    /\ Rethrow(w, "markFailed")
    /\ UNCHANGED <<status, last, spoke, world, history>>

\* sendToTarget's catch: only the row that still says 'dispatching'.
Rescue(w) ==
    /\ pc[w] = "rescue"
    /\ IF claimed[tgt[w]] THEN SetTarget(tgt[w], "failed", sentAt[tgt[w]])
                          ELSE UNCHANGED <<st, claimed, sentAt>>
    /\ Rethrow(w, "markFailed")
    /\ UNCHANGED <<status, last, spoke, world, history>>

RescueAiConfig(w) ==
    /\ pc[w] = "aiConfig"
    /\ IF claimed[tgt[w]] THEN SetTarget(tgt[w], "pending", Never)
                          ELSE UNCHANGED <<st, claimed, sentAt>>
    /\ Rethrow(w, "pause")
    /\ UNCHANGED <<status, last, spoke, world, history>>

Crash(w) ==
    /\ pc[w] # "idle" /\ crashes < MaxCrashes
    /\ crashes' = crashes + 1
    /\ Vanish(w)
    /\ UNCHANGED <<now, rows, hook, removing, history>>

--------------------------------------------------------------------------------
(* BroadcastsService: the management API                                    *)

SetStatus(c, from, to) ==
    /\ status[c] \in from
    /\ status' = [status EXCEPT ![c] = to]
    /\ UNCHANGED <<last, st, claimed, sentAt, spoke, world, processes, history>>

Start(c) == SetStatus(c, {"draft", "paused"}, "running")
Pause(c) == SetStatus(c, {"running"}, "paused")
Cancel(c) == SetStatus(c, {"draft", "running", "paused"}, "canceled")

\* A failure of today keeps its quota and waits for tomorrow.
Retryable(t) == st[t] = "failed" /\ sentAt[t] < Midnight(now)

Faulty_RetryFailed(c) ==
    LET again == {t \in TargetsOf(c) : Retryable(t)}
    IN  /\ status[c] # "deleted"
        /\ again # {}
        /\ \A t \in again : retries[t] < MaxRetries
        /\ status' = [status EXCEPT ![c] = "running"]
        /\ st' = [t \in Targets |-> IF t \in again THEN "pending" ELSE st[t]]
        /\ claimed' = [t \in Targets |-> claimed[t] /\ t \notin again]
        /\ retries' = [t \in Targets |-> IF t \in again THEN retries[t] + 1 ELSE retries[t]]
        /\ UNCHANGED <<last, sentAt, spoke, world, processes, sends, sentOn, sentBy, carried>>

RetryFailed(c) ==
    LET again == {t \in TargetsOf(c) : Retryable(t)}
    IN  /\ status[c] \notin {"canceled", "deleted"}
        /\ again # {}
        /\ \A t \in again : retries[t] < MaxRetries
        /\ status' = [status EXCEPT ![c] = "running"]
        /\ st' = [t \in Targets |-> IF t \in again THEN "pending" ELSE st[t]]
        /\ claimed' = [t \in Targets |-> claimed[t] /\ t \notin again]
        /\ retries' = [t \in Targets |-> IF t \in again THEN retries[t] + 1 ELSE retries[t]]
        /\ UNCHANGED <<last, sentAt, spoke, world, processes, sends, sentOn, sentBy, carried>>

RemoveCheck(c) ==
    /\ status[c] \in {"draft", "done", "canceled"} /\ c \notin removing
    /\ AttemptsToday({c}) = 0
    /\ removing' = removing \cup {c}
    /\ UNCHANGED <<now, rows, hook, crashes, processes, history>>

\* The row goes, its targets with it (onDelete: Cascade).
RemoveDelete(c) ==
    /\ c \in removing
    /\ removing' = removing \ {c}
    /\ status' = [status EXCEPT ![c] = "deleted"]
    /\ last' = [last EXCEPT ![c] = Never]
    /\ st' = [t \in Targets |-> IF CampaignOf[t] = c THEN "gone" ELSE st[t]]
    /\ claimed' = [t \in Targets |-> claimed[t] /\ CampaignOf[t] # c]
    /\ sentAt' = [t \in Targets |-> IF CampaignOf[t] = c THEN Never ELSE sentAt[t]]
    /\ UNCHANGED <<now, spoke, hook, crashes, processes, history>>

--------------------------------------------------------------------------------
(* The inbound webhook: a customer message and registerCustomerReply        *)

LeadSpeaks(l) ==
    /\ hook[l].step = "idle"
    /\ spoke' = [spoke EXCEPT ![l] = TRUE]
    /\ hook' = [hook EXCEPT ![l].step = "read"]
    /\ UNCHANGED <<now, status, last, st, claimed, sentAt, removing, crashes,
                   processes, history>>

Faulty_HookRead(l) ==
    /\ hook[l].step = "read"
    /\ LET mine == {t \in Targets : /\ LeadOf[t] = l
                                    /\ status[CampaignOf[t]] \in {"running", "paused"}
                                    /\ st[t] \in {"sent", "pending"}}
       IN  hook' = [hook EXCEPT ![l] = [step |-> "write", sent |-> mine, queued |-> {}]]
    /\ UNCHANGED <<now, rows, removing, crashes, processes, history>>

HookRead(l) ==
    /\ hook[l].step = "read"
    /\ LET mine == {t \in Targets : /\ LeadOf[t] = l
                                    /\ status[CampaignOf[t]] \in {"running", "paused"}}
           sent == {t \in mine : st[t] = "sent"}
           queued == {t \in mine : st[t] = "pending"}
       IN  hook' = [hook EXCEPT ![l] =
                IF sent \cup queued = {} THEN NoHook
                ELSE [step |-> "write", sent |-> sent, queued |-> queued]]
    /\ UNCHANGED <<now, rows, removing, crashes, processes, history>>

\* Both updates go by the ids just read.
HookWrite(l) ==
    /\ hook[l].step = "write"
    /\ LET alive(ts) == {t \in ts : st[t] # "gone"}
           sent == alive(hook[l].sent)
           queued == alive(hook[l].queued)
       IN  /\ st' = [t \in Targets |-> CASE t \in queued -> "skipped"
                                         [] t \in sent -> "replied"
                                         [] OTHER -> st[t]]
           /\ claimed' = [t \in Targets |-> claimed[t] /\ t \notin queued]
    /\ hook' = [hook EXCEPT ![l] = NoHook]
    /\ UNCHANGED <<now, status, last, sentAt, spoke, removing, crashes,
                   processes, history>>

\* The hook is not awaited: an error is logged, a crash forgets it.
HookLost(l) ==
    /\ hook[l].step # "idle"
    /\ hook' = [hook EXCEPT ![l] = NoHook]
    /\ UNCHANGED <<now, rows, removing, crashes, processes, history>>

--------------------------------------------------------------------------------
Open(c) == \E w \in Workers : camp[w] = c /\ pc[w] \in BeforeSend \cup {"claim", "mark"}

TimePasses ==
    /\ now < MaxNow
    /\ now' = now + 1
    /\ IF (now + 1) % DayLength = 0
       THEN /\ sentOn' = [c \in Campaigns |-> 0]
            /\ sentBy' = [x \in Tenants |-> 0]
            /\ carried' = [c \in Campaigns |-> Open(c)]
       ELSE UNCHANGED <<sentOn, sentBy, carried>>
    /\ UNCHANGED <<rows, hook, removing, crashes, processes, sends, retries>>

Deliver(w) ==
    \/ Reserve(w) \/ Claim(w) \/ ReadLead(w) \/ NoSender(w) \/ BuildContent(w)
    \/ RecheckActive(w) \/ RecheckLead(w) \/ RecheckWindow(w) \/ Release(w)
    \/ Skip(w) \/ SendText(w) \/ MarkSent(w) \/ Rescue(w) \/ RescueAiConfig(w)

Tick(w) ==
    \/ TickBegin(w) \/ TickPick(w) \/ TickCount(w) \/ TickClose(w)
    \/ TickMarkFailed(w) \/ TickPauseForAi(w)

Fault(w) == ReserveThrows(w) \/ DeliverThrows(w) \/ Crash(w)

Manage(c) ==
    Pause(c) \/ Cancel(c) \/ RetryFailed(c) \/ RemoveCheck(c) \/ RemoveDelete(c)

Reply(l) == LeadSpeaks(l) \/ HookRead(l) \/ HookWrite(l) \/ HookLost(l)

Next ==
    \/ \E w \in Workers : Tick(w) \/ Deliver(w) \/ SendNow(w) \/ Fault(w)
    \/ \E c \in Campaigns : Start(c)
    \/ \E c \in Managed : Manage(c)
    \/ \E l \in Speakers : Reply(l)
    \/ RecoverInterrupted
    \/ TimePasses

Spec == Init /\ [][Next]_vars

--------------------------------------------------------------------------------
(* Fairness: node runs every continuation that is ready, and both crons keep *)
(* firing.  Managers, customers, errors and crashes owe nothing.             *)
Fairness ==
    /\ \A w \in Workers : WF_vars(Tick(w) \/ Deliver(w))
    /\ WF_vars(RecoverInterrupted)
    /\ WF_vars(TimePasses)

FairSpec == Spec /\ Fairness

--------------------------------------------------------------------------------
(* Correctness                                                              *)

Hook == [step : {"idle", "read", "write"}, sent : SUBSET Targets, queued : SUBSET Targets]
Time == Nat \cup {Never}

TypeOK ==
    /\ now \in Nat
    /\ status \in [Campaigns -> CampaignStatus]
    /\ last \in [Campaigns -> Time]
    /\ st \in [Targets -> TargetStatus]
    /\ claimed \in [Targets -> BOOLEAN]
    /\ sentAt \in [Targets -> Time]
    /\ spoke \in [Leads -> BOOLEAN]
    /\ pc \in [Workers -> PC]
    /\ todo \in [Workers -> SUBSET Campaigns]
    /\ camp \in [Workers -> Campaigns \cup {Nobody}]
    /\ tgt \in [Workers -> Targets \cup {Nobody}]
    /\ at \in [Workers -> Time]
    /\ hook \in [Leads -> Hook]
    /\ removing \in SUBSET Campaigns
    /\ crashes \in Nat
    /\ sends \in [Targets -> Nat]
    /\ retries \in [Targets -> Nat]
    /\ sentOn \in [Campaigns -> Nat]
    /\ sentBy \in [Tenants -> Nat]
    /\ carried \in [Campaigns -> BOOLEAN]
    /\ \A w \in Workers :
          /\ pc[w] \in {"idle", "loop"} <=> camp[w] = Nobody
          /\ pc[w] \in {"idle", "loop", "count", "close"} <=> tgt[w] = Nobody
          /\ tgt[w] # Nobody => CampaignOf[tgt[w]] = camp[w]

Holders(t) == {w \in Workers : pc[w] \in BeforeSend /\ tgt[w] = t}

\* What a target may still be sent: the claims whose message is not out yet,
\* and the claim that the queue still has to give.
Allowance(t) == Cardinality(Holders(t)) + (IF Queued(t) THEN 1 ELSE 0)

Promise == INSTANCE FollowupPromise
    WITH allowance <- [t \in Targets |-> Allowance(t)],
         delivered <- sends, requeued <- retries

\* The campaign rows, crons, replicas and hooks together keep the promise.
KeepsPromise == Promise!Spec

\* However ticks, manual sends, recovery, replies and restarts interleave, a
\* contact gets one message, and one more per time the manager requeues it.
DeliveriesPaid == \A t \in Targets : sends[t] <= 1 + retries[t]

\* The daily limit counts reservations by sent_at; refunds, retries and rows
\* rewritten by slow senders never let more messages out in a day than the
\* limit, provided no delivery was open when the day began.
QuotaPerDay == \A c \in Campaigns : ~carried[c] => sentOn[c] <= DailyLimit[c]

\* The company's cap holds over all its campaigns on the same terms, as long as
\* no campaign took its rows, and with them their count, out of the database.
TenantQuotaPerDay ==
    \A c \in Campaigns :
        (\A d \in SameTenant(c) : ~carried[d] /\ status[d] # "deleted")
            => sentBy[TenantOf[c]] <= TenantLimit

\* The company-wide interval holds between any two reservations, whichever
\* campaigns and replicas make them.
ReservationsSpaced ==
    [][\A c \in Campaigns : last'[c] \notin {last[c], Never} =>
          \A d \in SameTenant(c) : last[d] # Never =>
              /\ last'[c] - last[d] >= MinGap
              /\ last'[c] - last[d] >= Throttle[c]]_vars

\* No request in flight revives a cancelled campaign.
CanceledIsFinal ==
    [][\A c \in Campaigns : status[c] = "canceled" => status'[c] \in {"canceled", "deleted"}]_vars

\* While no process has died, every target shown as being sent has a sender
\* that will settle it: no path of the sender forgets its claim.
ClaimIsOwned ==
    crashes = 0 => \A t \in Targets : InFlight(t) =>
        \E w \in Workers : tgt[w] = t /\ pc[w] \in BeforeSend \cup {"mark", "rescue"}

\* 'replied' is the metric of conversations the campaign caused: it never
\* counts a contact that no message went to.
ReplyMetricHonest == \A t \in Targets : st[t] \in {"sent", "replied"} => sends[t] > 0

\* A target left 'dispatching', by a crash too, does not stay so.
ClaimsResolve == \A t \in Targets : InFlight(t) ~> ~InFlight(t)

\* What ClaimsResolve owes to the cron and to the clock: the recovery can run
\* whenever there is something to recover, and time goes on.
Recoverable == (\E t \in Targets : Stale(t)) => ENABLED <<RecoverInterrupted>>_vars
ClockRuns == <>(now = MaxNow)

\* A running campaign with nobody left to message is closed.
ExhaustedCloses ==
    \A c \in Campaigns :
        (status[c] = "running" /\ \A t \in TargetsOf(c) : st[t] # "pending")
            ~> (status[c] # "running" \/ \E t \in TargetsOf(c) : st[t] = "pending")

\* "Recoloca os alvos com falha na fila e religa o disparo": a finished
\* campaign keeps nobody in its queue, since nothing can start it again.
DoneLeavesNobodyQueued ==
    \A c \in Campaigns : status[c] = "done" => \A t \in TargetsOf(c) : ~Queued(t)

\* "Alvo que JA recebeu vira replied": once recorded as sent, a reply can only
\* turn the target into 'replied'.
ReceivedBecomesReplied ==
    [][\A t \in Targets : st[t] = "sent" /\ (\E l \in Leads : HookWrite(l))
          => st'[t] \in {"sent", "replied"}]_vars

================================================================================
