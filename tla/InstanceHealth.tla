---------------------------- MODULE InstanceHealth ----------------------------
(***************************************************************************)
(* The monitor of the WhatsApp numbers (instances/instance-health.service) *)
(* and the connection webhooks it shares the outage alerts with.           *)
(*                                                                         *)
(* Every five minutes a tick asks the gateway about each instance, tries   *)
(* to reconnect the fallen ones, and opens an outage alert for one that    *)
(* two ticks found down.  A tick and a webhook both resolve the alert.     *)
(* The counter of falls, the re-entrancy flag and the set of silences this *)
(* process opened live in memory and die with it; alerts are rows.         *)
(***************************************************************************)
EXTENDS Naturals, FiniteSets

CONSTANTS Instances, \* those monitored: a token, and a company not suspended
          Ticks,     \* executions of the cron that may be under way at once
          Hooks,     \* connection webhooks handled at once
          Down,      \* "connecting", "close": fallen either way
          Nothing,
          MaxTroubles \* bound: failed statements and restarts together

ASSUME HealthAssumption ==
    /\ IsFiniteSet(Ticks) /\ IsFiniteSet(Hooks) /\ Ticks \cap Hooks = {}
    /\ Nothing \notin Instances
    /\ MaxTroubles \in Nat

Processes == Ticks \cup Hooks
States == Down \cup {"open"}

\* A name for each row: one more than the alerts anyone can hold.
Rows == 1..(Cardinality(Processes) + 2)

\* ContadorQueda.ciclos; two and more are one case.
ToAlert == 2

VARIABLES
    gateway,  \* what the gateway would answer; "mute" when it cannot be reached
    events,   \* connection webhooks on their way, in no order
    met,      \* the durable sign of a pairing: a telephone, or a lead that came in
    customers, \* "talking", "silent" (six hours, on a live and busy channel) or "dead"
    status,   \* WhatsappInstance.status
    outage,   \* open rows of InstanceAlert, type desconectada
    recent,   \* rows of type inbound_silencioso opened within the cooldown
    running, quedas, silenciosAbertos,
    proc,     \* what a tick or a webhook is doing
    troubles

memory == <<running, quedas, silenciosAbertos>>
healthVars == <<gateway, events, met, customers, status, outage, recent, memory,
                proc, troubles>>

\* todo holds the rows a tick read and has not come to.  fell is kept for
\* AlertHadTwoLooks: the instances already counted when the tick began.
Idle == [pc |-> "idle", inst |-> Nothing, seen |-> Nothing, row |-> 0,
         todo |-> {}, fell |-> {}]

HealthInit ==
    /\ gateway \in [Instances -> States]
    /\ status = gateway
    /\ met \in [Instances -> BOOLEAN]
    /\ customers = [i \in Instances |-> "talking"]
    /\ events = [i \in Instances |-> {}]
    /\ outage = [i \in Instances |-> {}]
    /\ recent = [i \in Instances |-> 0]
    /\ running = FALSE
    /\ quedas = [i \in Instances |-> 0]
    /\ silenciosAbertos = {}
    /\ proc = [p \in Processes |-> Idle]
    /\ troubles = 0

At(p, pc) == proc[p].pc = pc
Goto(p, pc) == proc' = [proc EXCEPT ![p].pc = pc]

\* Done with an instance: a tick goes on to the next, a webhook is over.
Leave(p) ==
    proc' = [proc EXCEPT ![p] =
               IF p \in Ticks
               THEN [Idle EXCEPT !.pc = "loop", !.todo = proc[p].todo, !.fell = proc[p].fell]
               ELSE Idle]
Inst(p) == proc[p].inst

-----------------------------------------------------------------------------
(* The tick. *)

\* Executions are alike: a new one takes a fixed free name.
NewTick == CHOOSE t \in Ticks : \A u \in Ticks : At(u, "idle") => At(t, "idle")

Faulty_TickBegin(t) ==
    /\ t = NewTick
    /\ At(t, "idle")
    /\ running' = TRUE
    /\ proc' = [proc EXCEPT ![t] =
                  [Idle EXCEPT !.pc = "loop",
                               !.todo = {<<i, status[i]>> : i \in Instances},
                               !.fell = {i \in Instances : quedas[i] > 0}]]
    /\ UNCHANGED <<gateway, events, met, customers, status, outage, recent,
                   quedas, silenciosAbertos, troubles>>

\* cron and the first query of verificarTodas: nothing while another one runs.
TickBegin(t) ==
    /\ t = NewTick
    /\ At(t, "idle")
    /\ ~running
    /\ running' = TRUE
    /\ proc' = [proc EXCEPT ![t] =
                  [Idle EXCEPT !.pc = "loop",
                               !.todo = {<<i, status[i]>> : i \in Instances},
                               !.fell = {i \in Instances : quedas[i] > 0}]]
    /\ UNCHANGED <<gateway, events, met, customers, status, outage, recent,
                   quedas, silenciosAbertos, troubles>>

Faulty_TickEnd(t) ==
    /\ At(t, "loop")
    /\ proc[t].todo = {}
    /\ proc' = [proc EXCEPT ![t] = Idle]
    /\ UNCHANGED <<gateway, events, met, customers, status, outage, recent,
                   memory, troubles>>

TickEnd(t) ==
    /\ At(t, "loop")
    /\ proc[t].todo = {}
    /\ running' = FALSE
    /\ proc' = [proc EXCEPT ![t] = Idle]
    /\ UNCHANGED <<gateway, events, met, customers, status, outage, recent,
                   quedas, silenciosAbertos, troubles>>

Faulty_EverPaired(i, was) == was = "open"

\* jaPareada: the row as it was when the tick began, or a lead of this number.
EverPaired(i, was) == met[i] \/ was = "open"

\* consultarEstado and the branch it chooses; a mute gateway says nothing.
Probed(t, i, was) ==
    LET heard == gateway[i] # "mute"
    IN  [proc[t] EXCEPT
           !.todo = @ \ {<<i, was>>},
           !.inst = IF heard THEN i ELSE Nothing,
           !.seen = IF heard THEN gateway[i] ELSE Nothing,
           !.pc = CASE ~heard -> "loop"
                    [] heard /\ gateway[i] = "open" -> "markOpen"
                    [] OTHER -> IF EverPaired(i, was) THEN "connect" ELSE "markOnly"]

Probe(t) ==
    /\ At(t, "loop")
    /\ \E i \in Instances, was \in States :
         /\ <<i, was>> \in proc[t].todo
         /\ proc' = [proc EXCEPT ![t] = Probed(t, i, was)]
    /\ UNCHANGED <<gateway, events, met, customers, status, outage, recent,
                   memory, troubles>>

\* Never paired: only the status.
MarkOnly(t) ==
    /\ At(t, "markOnly")
    /\ status' = [status EXCEPT ![Inst(t)] = proc[t].seen]
    /\ quedas' = [quedas EXCEPT ![Inst(t)] = 0]
    /\ Leave(t)
    /\ UNCHANGED <<gateway, events, met, customers, outage, recent, running,
                   silenciosAbertos, troubles>>

\* tentarReconectar: the session may come back, and its answer may be lost; a code to
\* scan, a refusal or an error leave the instance down, and an answer with neither a
\* state nor a code is taken for a return.
Connect(t) ==
    /\ At(t, "connect")
    /\ \/ /\ gateway[Inst(t)] # "mute"
          /\ gateway' = [gateway EXCEPT ![Inst(t)] = "open"]
          /\ \E told \in SUBSET {"open"} :
               events' = [events EXCEPT ![Inst(t)] = @ \cup told]
          /\ \E voltou \in BOOLEAN : Goto(t, IF voltou THEN "markOpen" ELSE "markDown")
       \/ /\ UNCHANGED <<gateway, events>>
          /\ \/ Goto(t, "markDown")
             \/ gateway[Inst(t)] # "mute" /\ Goto(t, "markOpen")
    /\ UNCHANGED <<met, customers, status, outage, recent, memory, troubles>>

MarkDown(t) ==
    /\ At(t, "markDown")
    /\ status' = [status EXCEPT ![Inst(t)] = proc[t].seen]
    /\ Goto(t, "count")
    /\ UNCHANGED <<gateway, events, met, customers, outage, recent, memory, troubles>>

\* The counter, once marcarStatus is done: the second fall in a row looks for an alert.
Count(t) ==
    /\ At(t, "count")
    /\ quedas' = [quedas EXCEPT ![Inst(t)] = IF @ < ToAlert THEN @ + 1 ELSE @]
    /\ IF quedas'[Inst(t)] >= ToAlert THEN Goto(t, "findAlert") ELSE Leave(t)
    /\ UNCHANGED <<gateway, events, met, customers, status, outage, recent, running,
                   silenciosAbertos, troubles>>

Faulty_FindAlert(t) ==
    /\ At(t, "findAlert")
    /\ Goto(t, "createAlert")
    /\ UNCHANGED <<gateway, events, met, customers, status, outage, recent,
                   memory, troubles>>

\* abrirAlerta: one alert per outage.
FindAlert(t) ==
    /\ At(t, "findAlert")
    /\ IF outage[Inst(t)] = {} THEN Goto(t, "createAlert") ELSE Leave(t)
    /\ UNCHANGED <<gateway, events, met, customers, status, outage, recent,
                   memory, troubles>>

FreshRow(i) ==
    CHOOSE r \in Rows : r \notin outage[i] /\ \A p \in Processes : proc[p].row # r

CreateAlert(t) ==
    /\ At(t, "createAlert")
    /\ outage' = [outage EXCEPT ![Inst(t)] = @ \cup {FreshRow(Inst(t))}]
    /\ Leave(t)
    /\ UNCHANGED <<gateway, events, met, customers, status, recent, memory, troubles>>

Faulty_MarkOpen(t) ==
    /\ At(t, "markOpen")
    /\ status' = [status EXCEPT ![Inst(t)] = "open"]
    /\ quedas' = [quedas EXCEPT ![Inst(t)] = 0]
    /\ Leave(t)
    /\ UNCHANGED <<gateway, events, met, customers, outage, recent, running,
                   silenciosAbertos, troubles>>

\* Found open, or reconnected: the status, the counter, then resolverAlerta.
MarkOpen(t) ==
    /\ At(t, "markOpen")
    /\ status' = [status EXCEPT ![Inst(t)] = "open"]
    /\ quedas' = [quedas EXCEPT ![Inst(t)] = 0]
    /\ Goto(t, "findOpen")
    /\ UNCHANGED <<gateway, events, met, customers, outage, recent, running,
                   silenciosAbertos, troubles>>

\* After resolverAlerta a tick that found the instance open checks for silence.
Resolved(p) ==
    IF p \in Ticks /\ proc[p].seen = "open"
    THEN proc' = [proc EXCEPT ![p].pc = "silence", ![p].row = 0]
    ELSE Leave(p)

\* resolverAlerta, of a tick or a webhook: the open row is read, then closed.
FindOpen(p) ==
    /\ At(p, "findOpen")
    /\ \/ /\ outage[Inst(p)] = {}
          /\ Resolved(p)
       \/ \E r \in outage[Inst(p)] :
            proc' = [proc EXCEPT ![p].pc = "resolve", ![p].row = r]
    /\ UNCHANGED <<gateway, events, met, customers, status, outage, recent,
                   memory, troubles>>

Resolve(p) ==
    /\ At(p, "resolve")
    /\ outage' = [outage EXCEPT ![Inst(p)] = @ \ {proc[p].row}]
    /\ Resolved(p)
    /\ UNCHANGED <<gateway, events, met, customers, status, recent, memory, troubles>>

Faulty_Silence(t) ==
    /\ At(t, "silence")
    /\ \/ /\ customers[Inst(t)] = "talking"
          /\ silenciosAbertos' = silenciosAbertos \ {Inst(t)}
          /\ Leave(t)
       \/ /\ customers[Inst(t)] # "talking"
          /\ IF Inst(t) \notin silenciosAbertos /\ customers[Inst(t)] = "silent"
             THEN Goto(t, "openSilence") ELSE Leave(t)
          /\ UNCHANGED silenciosAbertos
    /\ UNCHANGED <<gateway, events, met, customers, status, outage, recent,
                   running, quedas, troubles>>

\* checarSilencioInbound: the latest customer message, then the cooldown, which is
\* in the rows, then the rest.
Silence(t) ==
    /\ At(t, "silence")
    /\ \/ /\ customers[Inst(t)] = "talking"
          /\ silenciosAbertos' = silenciosAbertos \ {Inst(t)}
          /\ Leave(t)
       \/ /\ customers[Inst(t)] # "talking"
          /\ IF recent[Inst(t)] = 0 /\ customers[Inst(t)] = "silent"
             THEN Goto(t, "openSilence") ELSE Leave(t)
          /\ UNCHANGED silenciosAbertos
    /\ UNCHANGED <<gateway, events, met, customers, status, outage, recent,
                   running, quedas, troubles>>

OpenSilence(t) ==
    /\ At(t, "openSilence")
    /\ recent' = [recent EXCEPT ![Inst(t)] = @ + 1]
    /\ silenciosAbertos' = silenciosAbertos \cup {Inst(t)}
    /\ Leave(t)
    /\ UNCHANGED <<gateway, events, met, customers, status, outage, running,
                   quedas, troubles>>

-----------------------------------------------------------------------------
(* handleConnectionUpdate, handleUazapiConnectionUpdate. *)

HookRead(h) ==
    /\ At(h, "idle")
    /\ \E i \in Instances : \E e \in events[i] :
         /\ events' = [events EXCEPT ![i] = @ \ {e}]
         /\ proc' = [proc EXCEPT ![h] =
              [Idle EXCEPT !.inst = i, !.seen = e,
                           !.pc = IF e = "open" /\ status[i] # "open"
                                  THEN "reopen" ELSE "note"]]
    /\ UNCHANGED <<gateway, met, customers, status, outage, recent, memory, troubles>>

\* Only over a row that was not open does it resolve the alert.
HookWrite(h) ==
    /\ proc[h].pc \in {"reopen", "note"}
    /\ status' = [status EXCEPT ![Inst(h)] = proc[h].seen]
    /\ IF At(h, "reopen") THEN Goto(h, "forget") ELSE Leave(h)
    /\ UNCHANGED <<gateway, events, met, customers, outage, recent, memory, troubles>>

Forget(h) ==
    /\ At(h, "forget")
    /\ quedas' = [quedas EXCEPT ![Inst(h)] = 0]
    /\ Goto(h, "findOpen")
    /\ UNCHANGED <<gateway, events, met, customers, status, outage, recent,
                   running, silenciosAbertos, troubles>>

-----------------------------------------------------------------------------
(* Failures and the world. *)

\* A statement fails (at "connect", the query of jaPareada).  A tick goes on with its
\* next instance; a webhook's job is tried again, unless it was only resolving the
\* alert, which is logged.
Throws(p) ==
    /\ troubles < MaxTroubles
    /\ proc[p].pc \notin {"idle", "loop", "count", "forget"}
    /\ troubles' = troubles + 1
    /\ events' = IF proc[p].pc \in {"reopen", "note"}
                 THEN [events EXCEPT ![Inst(p)] = @ \cup {proc[p].seen}] ELSE events
    /\ Leave(p)
    /\ UNCHANGED <<gateway, met, customers, status, outage, recent, memory>>

\* The process dies: its memory with it; an unfinished webhook job runs again.
Restart ==
    /\ troubles < MaxTroubles
    /\ troubles' = troubles + 1
    /\ running' = FALSE
    /\ quedas' = [i \in Instances |-> 0]
    /\ silenciosAbertos' = {}
    /\ events' = [i \in Instances |-> events[i] \cup
                    {proc[h].seen : h \in {g \in Hooks : /\ proc[g].pc \in {"reopen", "note"}
                                                        /\ Inst(g) = i}}]
    /\ proc' = [p \in Processes |-> Idle]
    /\ UNCHANGED <<gateway, met, customers, status, outage, recent>>

\* The session falls, rises or goes out of reach; the webhook may never leave.
GatewayTurns ==
    /\ \E i \in Instances : \E s \in States \cup {"mute"} :
         /\ s # gateway[i]
         /\ gateway' = [gateway EXCEPT ![i] = s]
         /\ \E told \in SUBSET ({s} \cap States) :
              events' = [events EXCEPT ![i] = @ \cup told]
    /\ UNCHANGED <<met, customers, status, outage, recent, memory, proc, troubles>>

FirstLead ==
    /\ \E i \in Instances :
         /\ gateway[i] = "open" /\ ~met[i]
         /\ met' = [met EXCEPT ![i] = TRUE]
    /\ UNCHANGED <<gateway, events, customers, status, outage, recent, memory,
                   proc, troubles>>

\* customers fall silent or come back, and six hours pass since a silence alert.
CustomersTurn ==
    /\ \E i \in Instances : \E c \in {"talking", "silent", "dead"} :
         /\ c # customers[i]
         /\ customers' = [customers EXCEPT ![i] = c]
    /\ UNCHANGED <<gateway, events, met, status, outage, recent, memory, proc, troubles>>

CooldownEnds ==
    /\ \E i \in Instances :
         /\ recent[i] > 0
         /\ recent' = [recent EXCEPT ![i] = 0]
    /\ UNCHANGED <<gateway, events, met, customers, status, outage, memory, proc, troubles>>

TickStep(t) ==
    \/ TickBegin(t) \/ TickEnd(t) \/ Probe(t) \/ MarkOnly(t) \/ Connect(t)
    \/ MarkDown(t) \/ Count(t) \/ FindAlert(t) \/ CreateAlert(t) \/ MarkOpen(t)
    \/ FindOpen(t) \/ Resolve(t) \/ Silence(t) \/ OpenSilence(t)
HookStep(h) == HookWrite(h) \/ Forget(h) \/ FindOpen(h) \/ Resolve(h)

HealthNext ==
    \/ \E t \in Ticks : TickStep(t)
    \/ \E h \in Hooks : HookRead(h) \/ HookStep(h)
    \/ \E p \in Processes : Throws(p)
    \/ Restart \/ GatewayTurns \/ FirstLead \/ CustomersTurn \/ CooldownEnds

HealthSpec == HealthInit /\ [][HealthNext]_healthVars

-----------------------------------------------------------------------------
(* Properties. *)

\* The types, and the re-entrancy flag, which is up exactly while a tick runs.
HealthTypeOK ==
    /\ gateway \in [Instances -> States \cup {"mute"}]
    /\ events \in [Instances -> SUBSET States]
    /\ met \in [Instances -> BOOLEAN]
    /\ customers \in [Instances -> {"talking", "silent", "dead"}]
    /\ status \in [Instances -> States]
    /\ outage \in [Instances -> SUBSET Rows]
    /\ recent \in [Instances -> Nat]
    /\ running \in BOOLEAN
    /\ quedas \in [Instances -> 0..ToAlert]
    /\ silenciosAbertos \subseteq Instances
    /\ proc \in [Processes -> [
         pc : {"idle", "loop", "markOnly", "markOpen", "connect", "markDown",
               "count", "findAlert", "createAlert", "findOpen", "resolve", "silence",
               "openSilence", "reopen", "note", "forget"},
         inst : Instances \cup {Nothing}, seen : States \cup {Nothing},
         row : Rows \cup {0}, todo : SUBSET (Instances \X States),
         fell : SUBSET Instances]]
    /\ troubles \in 0..MaxTroubles
    /\ running <=> \E t \in Ticks : ~At(t, "idle")

\* One outage has one open alert, whoever looks at it: ticks that overlap, a webhook
\* that resolves it meanwhile, a restart between the look and the row.
\* (abrirAlerta: UM alerta por queda.)
OneAlertPerOutage ==
    \A i \in Instances : \A r, s \in outage[i] : r = s

\* The alert of an instance is opened only by a tick that began with the instance
\* already counted as down: two ticks saw it, five minutes apart, and none of them
\* counted one cycle twice.  (cron: the re-entrancy guard; CICLOS_PARA_ALERTAR.)
AlertHadTwoLooks ==
    \A t \in Ticks : proc[t].pc \in {"findAlert", "createAlert"} => Inst(t) \in proc[t].fell

\* Two silence alerts of an instance are at least one cooldown apart, however many
\* times the process was restarted in between.  (checarSilencioInbound.)
SilenceOncePerCooldown == \A i \in Instances : recent[i] <= 1

\* A tick takes the gateway's answer for the return of a number that is down.
Reassured(i) ==
    \E t \in Ticks : /\ At(t, "connect") /\ Inst(t) = i
                     /\ proc'[t].pc = "markOpen" /\ gateway'[i] # "open"

\* A paired number that stays down ends up with an open alert, whatever late webhooks,
\* lost statements, restarts and mistaken returns came before; only a gateway that goes
\* on answering reconnections with neither a state nor a code keeps it from that.
OutageAlerted ==
    \A i \in Instances :
        /\ <>[](gateway[i] \in Down /\ met[i])
        /\ <>[][~Reassured(i)]_healthVars
        => <>[](outage[i] # {})

\* A number that stays connected ends up shown as open and without an alert, even if
\* the webhook that announced it was lost, late, or raced the tick that alerted.
FalseAlarmHeals ==
    \A i \in Instances :
        <>[](gateway[i] = "open") => <>[](status[i] = "open" /\ outage[i] = {})
=============================================================================
