------------------------------ MODULE MCServices ------------------------------
(* Four small services checked in one run: a behaviour is one of its parts,   *)
(* so the states are the sum of the parts and not their product.             *)
EXTENDS InstanceHealth, OutboundWebhooks, Idempotency, SheetImport

CONSTANTS i1, w1, r1, r2, r3, acme, other, k1, old, new, lead1, lead2

VARIABLE part

MCCompany == [r \in Requests |-> IF r = r3 THEN other ELSE acme]
MCPath == [r \in Requests |-> "conversations"]
MCSheet == [p \in Importers |-> SheetRows]
MCProcess == [p \in Importers |-> p]
MCLeadOf == <<lead1, lead2>>
MCPerson == [c \in SheetLeads |-> "she"]
MCKey == [r \in Requests |-> k1]

vars == <<part, healthVars, outboundVars, idempotencyVars, importVars>>

\* The monitor without silence, the monitor of a number that stays connected, and the
\* other services; the import runs in two processes at once, as during a release.
Parts == {"outage", "silence", "outbound", "idempotency", "sheet"}

Init ==
    /\ part \in Parts
    /\ HealthInit /\ OutboundInit /\ IdempotencyInit /\ ImportInit
    /\ part # "outage" => \A i \in Instances : gateway[i] = "open" /\ met[i]
    /\ part # "sheet" => \A c \in SheetLeads : lead[c] = "none"
    /\ part # "outbound" => \A w \in Webhooks : webhook[w] = "active"

HealthOnly == UNCHANGED <<part, outboundVars, idempotencyVars, importVars>>
OutboundOnly == UNCHANGED <<part, healthVars, idempotencyVars, importVars>>
IdempotencyOnly == UNCHANGED <<part, healthVars, outboundVars, importVars>>
ImportOnly == UNCHANGED <<part, healthVars, outboundVars, idempotencyVars>>

Monitor ==
    \/ \E t \in Ticks : TickStep(t)
    \/ \E h \in Hooks : HookRead(h) \/ HookStep(h)
    \/ \E p \in Processes : Throws(p)
    \/ Restart

Outage == part = "outage" /\ (Monitor \/ GatewayTurns \/ FirstLead) /\ HealthOnly
InSilence == part = "silence" /\ (Monitor \/ CustomersTurn \/ CooldownEnds) /\ HealthOnly
Outbound == part = "outbound" /\ OutboundNext /\ OutboundOnly
Keyed == part = "idempotency" /\ IdempotencyNext /\ IdempotencyOnly

Sheets == part = "sheet" /\ ImportNext /\ ImportOnly

Next == Outage \/ InSilence \/ Outbound \/ Keyed \/ Sheets

Spec ==
    /\ Init /\ [][Next]_vars
    /\ \A t \in Ticks : WF_vars(part = "outage" /\ TickStep(t) /\ HealthOnly)
    /\ \A h \in Hooks : WF_vars(part = "outage" /\ HookStep(h) /\ HealthOnly)
    /\ \A j \in Jobs : WF_vars(part = "outbound" /\ Work(j) /\ OutboundOnly)
    /\ \A p \in Importers : WF_vars(part = "sheet" /\ RunImport(p) /\ ImportOnly)
================================================================================
