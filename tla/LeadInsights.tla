----------------------------- MODULE LeadInsights -----------------------------
(***************************************************************************)
(* The card (ficha) the language model keeps of one lead.                  *)
(*                                                                         *)
(* A customer's message, an import, a person or the nightly cron ask for a *)
(* generation; the queue merges requests by jobId.  A generation reads the *)
(* lead, the messages and the card, waits for the model (30 s to 2 min),   *)
(* rewrites the card and then looks for messages that came meanwhile,      *)
(* whose own request the queue dropped because the job still existed.      *)
(* A message takes its created_at when its worker begins and is a row many *)
(* awaits later, so rows may appear out of the order of their dates.       *)
(* People refuse the stage it suggests and edit the field it may fill in.  *)
(***************************************************************************)
EXTENDS Naturals, FiniteSets, Sequences

CONSTANTS
    Stages, None,    \* stages to suggest, and no suggestion
    Clicks,          \* requests on the suggestion handled at once
    MaxMessages,     \* bound: messages of the conversation; the k-th has created_at k
    MsgsParaDisparar, \* MSGS_PARA_DISPARAR (5)
    RecusasMax,      \* RECUSAS_MAX (10)
    Workers,         \* LEAD_INSIGHTS_CONCURRENCY
    Tries,        \* TENTATIVAS_JOB (2)
    MaxEdits,        \* bound: edits of the lead
    MaxRefusals,     \* bound: refusals of suggestions
    MaxFailures      \* bound: calls that fail, restarts

ASSUME InsightAssumption ==
    /\ None \notin Stages
    /\ MaxMessages \in Nat /\ Tries \in Nat /\ MaxFailures \in Nat
    /\ RecusasMax \in Nat \ {0}

Texts == 1..MaxMessages

\* jobIds: lead-<id>, refresh-<id>, interest-<id>, and lead-<id>-<watermark>.
TheLead == <<"lead", 0>>
Refresh == <<"refresh", 0>>
Interest == <<"interest", 0>>
After(w) == <<"after", w>>
Ids == {TheLead, Refresh, Interest} \cup {After(w) : w \in 0..MaxMessages}

VARIABLES
    inserted, \* messages that are rows, internal notes apart
    trigger,  \* the worker of each message, and enfileirarSeElegivel: the watermark it read
    mark,     \* ultima_msg_processada_at; 0 is null, or no card at all
    suggested, \* etapa_sugerida_id
    refused,  \* etapa_recusas: those it still lists, by their place in refusals
    refusals, \* the stages people refused, in order
    weekAgo,  \* up to this one, they are more than seven days old
    field, version,      \* bem_de_interesse, Lead.updated_at
    task,      \* [Ids -> state, attempts left, stalled once]
    run,      \* [Ids -> what the generation holds]
    click,    \* [Clicks -> a request on the suggestion]
    failures,
    \* The rest is not in the code.
    covered,  \* messages that were rows when the generation of the card read them
    excused,  \* messages left out by a failure or a gap named below
    checked,  \* refusals made when the generation of the suggestion looked at them
    erased    \* refusals a concurrent one wrote over

chat == <<inserted, trigger>>
card == <<mark, suggested, refused>>
people == <<refusals, weekAgo, click>>
fields == <<field, version>>
ghost == <<covered, excused, checked, erased>>
insightVars == <<chat, card, people, fields, task, run, failures, ghost>>

NoTask == [state |-> "none", left |-> 0, stalled |-> FALSE]
NoRun == [pc |-> "none", upto |-> 0, saw |-> {}, known |-> {}, looked |-> 0,
          version |-> 0, stage |-> None, interest |-> FALSE]
NoClick == [pc |-> "idle", stage |-> None, refused |-> {}]

InsightInit ==
    /\ inserted = {}
    /\ trigger = [k \in Texts |-> [step |-> "none", mark |-> 0]]
    /\ mark = 0 /\ suggested = None /\ refused = {}
    /\ refusals = <<>> /\ weekAgo = 0
    /\ field = "empty" /\ version = 0
    /\ task = [d \in Ids |-> NoTask]
    /\ run = [d \in Ids |-> NoRun]
    /\ click = [c \in Clicks |-> NoClick]
    /\ failures = 0
    /\ covered = {} /\ excused = {} /\ checked = 0 /\ erased = {}

\* Rows the generation of the card had not there to read.
Pending == inserted \ covered

On(d, pc) == run[d].pc = pc

\* queue.add: refused while a job of that id exists, waiting or active.
Added(d) ==
    IF task[d].state = "none"
    THEN [task EXCEPT ![d] = [state |-> "waiting", left |-> Tries, stalled |-> FALSE]]
    ELSE task

\* The job that exists will not look for the message k any more: it is over, or the
\* card it wrote has a watermark that is not older.
Deaf(d, k) ==
    \/ On(d, "ending")
    \/ run[d].pc \in {"fill", "fillWrite", "count"} /\ k <= run[d].upto

\* Only the recheck is left of a generation.
Done(d) == [NoRun EXCEPT !.pc = "count", !.upto = run[d].upto]

-----------------------------------------------------------------------------
(* Requests. *)

\* A worker takes the message up: occurredAt, its created_at to be.
Receive(k) ==
    /\ trigger[k].step = "none"
    /\ \A m \in 1..(k - 1) : trigger[m].step # "none"
    /\ trigger' = [trigger EXCEPT ![k].step = "handled"]
    /\ UNCHANGED <<inserted, card, people, fields, task, run, failures, ghost>>

\* The row; one of the team, or backfilled, asks for nothing.
Insert(k) ==
    /\ trigger[k].step = "handled"
    /\ inserted' = inserted \cup {k}
    /\ \/ /\ trigger' = [trigger EXCEPT ![k].step = "asked"]
          /\ UNCHANGED excused
       \/ /\ trigger' = [trigger EXCEPT ![k].step = "over"]
          /\ excused' = excused \cup {k}
    /\ UNCHANGED <<card, people, fields, task, run, failures, covered, checked, erased>>

ReadMark(k) ==
    /\ trigger[k].step = "asked"
    /\ trigger' = [trigger EXCEPT ![k] = [step |-> "read", mark |-> mark]]
    /\ UNCHANGED <<inserted, card, people, fields, task, run, failures, ghost>>

NewSince(w) == {k \in inserted : k > w}

\* Enough new messages, or any when the watermark is older than 12 h or missing.
Elegivel(w, old) ==
    /\ NewSince(w) # {}
    /\ Cardinality(NewSince(w)) >= MsgsParaDisparar \/ w = 0 \/ old

\* The gap: too few, or none, because a card that did not read it is not older.
Judge(k) ==
    /\ trigger[k].step = "read"
    /\ \E old \in BOOLEAN :
         LET due == Elegivel(trigger[k].mark, old) IN
         /\ trigger' = [trigger EXCEPT ![k] = [step |-> IF due THEN "due" ELSE "over", mark |-> 0]]
         /\ excused' = IF due THEN excused ELSE excused \cup ({k} \ covered)
    /\ UNCHANGED <<inserted, card, people, fields, task, run, failures, covered, checked, erased>>

\* The gap: the queue drops the request, and the job that exists is past this message.
Enfileirar(k) ==
    /\ trigger[k].step = "due"
    /\ trigger' = [trigger EXCEPT ![k].step = "over"]
    /\ task' = Added(TheLead)
    /\ excused' = excused \cup {m \in {k} \ covered : Deaf(TheLead, m)}
    /\ UNCHANGED <<inserted, card, people, fields, run, failures, covered, checked, erased>>

\* A statement or the queue fails: only logged.
TriggerThrows(k) ==
    /\ trigger[k].step \in {"asked", "read", "due"}
    /\ failures < MaxFailures
    /\ failures' = failures + 1
    /\ trigger' = [trigger EXCEPT ![k] = [step |-> "over", mark |-> 0]]
    /\ excused' = excused \cup ({k} \ covered)
    /\ UNCHANGED <<inserted, card, people, fields, task, run, covered, checked, erased>>

\* enfileirarImportado and the cron use the lead's jobId, refrescar its own.
Request(d) ==
    /\ d \in {TheLead, Refresh}
    /\ task[d].state = "none"
    /\ task' = Added(d)
    /\ UNCHANGED <<chat, card, people, fields, run, failures, ghost>>

-----------------------------------------------------------------------------
(* gerarInsight. *)

\* A worker takes the job and reads the lead.
Begin(d) ==
    /\ task[d].state = "waiting"
    /\ Cardinality({e \in Ids : task[e].state = "active"}) < Workers
    /\ task' = [task EXCEPT ![d].state = "active"]
    /\ run' = [run EXCEPT ![d] = [NoRun EXCEPT !.pc = "read", !.version = version]]
    /\ UNCHANGED <<chat, card, people, fields, failures, ghost>>

\* The messages (the latest 40, down to the last created_at) and the old card; without
\* messages, and nothing on the form, there is nothing to write a card of.
ReadMessages(d) ==
    /\ On(d, "read")
    /\ \/ inserted = {} /\ run' = [run EXCEPT ![d].pc = "ending"]
       \/ \E last \in {0} \cup inserted :
            /\ \A k \in inserted : 0 < last /\ k <= last
            /\ run' = [run EXCEPT ![d].pc = "model", ![d].upto = last, ![d].saw = inserted,
                                  ![d].known = refused, ![d].looked = Len(refusals)]
    /\ UNCHANGED <<chat, card, people, fields, task, failures, ghost>>

Model(d) ==
    /\ On(d, "model")
    /\ \E s \in Stages \cup {None}, i \in BOOLEAN :
         run' = [run EXCEPT ![d].stage = s, ![d].interest = i,
                            ![d].pc = IF s = None THEN "write" ELSE "look",
                            ![d].known = IF s = None THEN {} ELSE @]
    /\ UNCHANGED <<chat, card, people, fields, task, failures, ghost>>

\* Two answers that are not usable: the card stays as it is, and nobody looks for
\* the messages that came meanwhile.
Unusable(d) ==
    /\ On(d, "model")
    /\ failures < MaxFailures
    /\ failures' = failures + 1
    /\ run' = [run EXCEPT ![d].pc = "useless"]
    /\ UNCHANGED <<chat, card, people, fields, task, ghost>>

Faulty_LookAgain(d) ==
    /\ On(d, "look")
    /\ run' = [run EXCEPT ![d].pc = "write", ![d].known = {}, ![d].looked = Len(refusals)]
    /\ UNCHANGED <<chat, card, people, fields, task, failures, ghost>>

\* recusadaRecente, of the refusals a list has.
RecusadaRecente(list, s) == \E n \in list : n > weekAgo /\ refusals[n] = s

\* recusasAtuais: the refusals as they are now, not as when the generation began.
LookAgain(d) ==
    /\ On(d, "look")
    /\ run' = [run EXCEPT ![d].pc = "write", ![d].known = {}, ![d].looked = Len(refusals),
                          ![d].stage = IF RecusadaRecente(refused, @) THEN None ELSE @]
    /\ UNCHANGED <<chat, card, people, fields, task, failures, ghost>>

\* They cannot be read: those of the beginning stand in for them.
LookFails(d) ==
    /\ On(d, "look")
    /\ failures < MaxFailures
    /\ failures' = failures + 1
    /\ run' = [run EXCEPT ![d].pc = "write", ![d].known = {},
                          ![d].stage = IF RecusadaRecente(run[d].known, @) THEN None ELSE @]
    /\ UNCHANGED <<chat, card, people, fields, task, ghost>>

\* The upsert: everything but the refusals.  The gap: a row that appeared after this
\* generation read, with a created_at that is not after its watermark.
WriteCard(d) ==
    /\ On(d, "write")
    /\ mark' = run[d].upto /\ covered' = run[d].saw
    /\ excused' = (excused \cup {k \in inserted : k <= run[d].upto}) \ run[d].saw
    /\ suggested' = run[d].stage /\ checked' = run[d].looked
    /\ run' = [run EXCEPT ![d] = IF run[d].interest
                                THEN [Done(d) EXCEPT !.pc = "fill", !.version = run[d].version]
                                ELSE Done(d)]
    /\ UNCHANGED <<chat, refused, people, fields, task, failures, erased>>

\* preencherBemDeInteresse, its checks: a value of any origin stays; a lead that
\* changed since it was read needs another generation; the company may not have
\* the field, and an error counts as that.
Fill(d) ==
    /\ On(d, "fill")
    /\ IF field = "empty" /\ version # run[d].version
       THEN /\ task' = Added(Interest)
            /\ run' = [run EXCEPT ![d] = Done(d)]
       ELSE /\ \/ field = "empty" /\ run' = [run EXCEPT ![d].pc = "fillWrite"]
               \/ run' = [run EXCEPT ![d] = Done(d)]
            /\ UNCHANGED task
    /\ UNCHANGED <<chat, card, people, fields, failures, ghost>>

Faulty_FillWrite(d) ==
    /\ On(d, "fillWrite")
    /\ field' = "ai" /\ version' = version + 1
    /\ run' = [run EXCEPT ![d] = Done(d)]
    /\ UNCHANGED <<chat, card, people, task, failures, ghost>>

\* Its conditional updateMany.
FillWrite(d) ==
    /\ On(d, "fillWrite")
    /\ IF version = run[d].version
       THEN field' = "ai" /\ version' = version + 1 /\ UNCHANGED task
       ELSE task' = Added(Interest) /\ UNCHANGED fields
    /\ run' = [run EXCEPT ![d] = Done(d)]
    /\ UNCHANGED <<chat, card, people, failures, ghost>>

Faulty_Recheck(d) ==
    /\ On(d, "count")
    /\ run' = [run EXCEPT ![d].pc = "ending"]
    /\ UNCHANGED <<chat, card, people, fields, task, failures, ghost>>

\* rechecarNovidade: messages after the watermark this generation wrote.
Recheck(d) ==
    /\ On(d, "count")
    /\ run' = [run EXCEPT ![d].pc = IF NewSince(run[d].upto) # {} THEN "readd" ELSE "ending"]
    /\ UNCHANGED <<chat, card, people, fields, task, failures, ghost>>

\* The gap: a generation that began with the same watermark has already written.
Readd(d) ==
    /\ On(d, "readd")
    /\ task' = Added(After(run[d].upto))
    /\ excused' = excused \cup {k \in Pending : Deaf(After(run[d].upto), k)}
    /\ run' = [run EXCEPT ![d].pc = "ending"]
    /\ UNCHANGED <<chat, card, people, fields, failures, covered, checked, erased>>

\* Completed: the queue forgets it, and its id is free.
End(d) ==
    /\ run[d].pc \in {"ending", "useless"}
    /\ task' = [task EXCEPT ![d] = NoTask]
    /\ run' = [run EXCEPT ![d] = NoRun]
    /\ excused' = IF On(d, "useless") THEN excused \cup Pending ELSE excused
    /\ UNCHANGED <<chat, card, people, fields, failures, covered, checked, erased>>

\* A read, the model or the upsert fails: another attempt, or the job is dropped.
RunThrows(d) ==
    /\ run[d].pc \in {"read", "model", "write"}
    /\ failures < MaxFailures
    /\ failures' = failures + 1
    /\ run' = [run EXCEPT ![d] = NoRun]
    /\ IF task[d].left > 1
       THEN /\ task' = [task EXCEPT ![d].state = "waiting", ![d].left = @ - 1]
            /\ UNCHANGED excused
       ELSE /\ task' = [task EXCEPT ![d] = NoTask]
            /\ excused' = excused \cup Pending
    /\ UNCHANGED <<chat, card, people, fields, covered, checked, erased>>

\* The recheck fails, which is only logged.
RecheckThrows(d) ==
    /\ run[d].pc \in {"count", "readd"}
    /\ failures < MaxFailures
    /\ failures' = failures + 1
    /\ run' = [run EXCEPT ![d].pc = "useless"]
    /\ UNCHANGED <<chat, card, people, fields, task, ghost>>

\* The process dies: a stalled job runs again, once; requests on their way are lost.
ProcessDies ==
    /\ failures < MaxFailures
    /\ failures' = failures + 1
    /\ task' = [d \in Ids |->
                 IF task[d].state # "active" THEN task[d]
                 ELSE IF task[d].stalled THEN NoTask
                 ELSE [task[d] EXCEPT !.state = "waiting", !.stalled = TRUE]]
    /\ run' = [d \in Ids |-> NoRun]
    /\ trigger' = [k \in Texts |->
                     IF trigger[k].step = "none" THEN trigger[k]
                     ELSE [step |-> "over", mark |-> 0]]
    /\ click' = [c \in Clicks |-> NoClick]
    /\ excused' = excused \cup Pending
    /\ UNCHANGED <<inserted, card, refusals, weekAgo, fields, covered, checked, erased>>

-----------------------------------------------------------------------------
(* People. *)

\* fichaComSugestao, for a refusal or an acceptance (updateStage moves the lead).
Consider(c) ==
    /\ click[c].pc = "idle"
    /\ suggested # None
    /\ \E answer \in {"refuse", "accept"} :
         click' = [click EXCEPT ![c] = [pc |-> answer, stage |-> suggested, refused |-> refused]]
    /\ UNCHANGED <<chat, card, refusals, weekAgo, fields, task, run, failures, ghost>>

Accept(c) ==
    /\ click[c].pc = "accept"
    /\ suggested' = None /\ checked' = 0
    /\ click' = [click EXCEPT ![c] = NoClick]
    /\ UNCHANGED <<chat, mark, refused, refusals, weekAgo, fields, task, run, failures,
                   covered, excused, erased>>

\* proximasRecusas cuts the list; those past 30 days, which nothing looks at, go before.
Latest(list) == {n \in list : Cardinality({m \in list : m > n}) < RecusasMax}

\* recusarEtapaSugerida: the list it read, and this stage.
Refuse(c) ==
    /\ click[c].pc = "refuse"
    /\ Len(refusals) < MaxRefusals
    /\ refusals' = Append(refusals, click[c].stage)
    /\ refused' = Latest(click[c].refused \cup {Len(refusals')})
    /\ erased' = erased \cup (refused \ click[c].refused)
    /\ suggested' = None /\ checked' = 0
    /\ click' = [click EXCEPT ![c] = NoClick]
    /\ UNCHANGED <<chat, mark, weekAgo, fields, task, run, failures, covered, excused>>

\* Seven days pass since the oldest refusal that is not that old.
WeekPasses ==
    /\ weekAgo < Len(refusals)
    /\ weekAgo' = weekAgo + 1
    /\ UNCHANGED <<chat, card, refusals, click, fields, task, run, failures, ghost>>

\* A person fills the field in, empties it, or changes something else.
Edit ==
    /\ version < MaxEdits
    /\ version' = version + 1
    /\ field' \in {field, "manual", "empty"}
    /\ UNCHANGED <<chat, card, people, task, run, failures, ghost>>

Generate(d) ==
    \/ Begin(d) \/ ReadMessages(d) \/ Model(d) \/ Unusable(d) \/ LookAgain(d) \/ LookFails(d)
    \/ WriteCard(d) \/ Fill(d) \/ FillWrite(d) \/ Recheck(d) \/ Readd(d) \/ End(d)
    \/ RunThrows(d) \/ RecheckThrows(d)

InsightNext ==
    \/ \E k \in Texts :
         Receive(k) \/ Insert(k) \/ ReadMark(k) \/ Judge(k) \/ Enfileirar(k) \/ TriggerThrows(k)
    \/ \E d \in Ids : Request(d) \/ Generate(d)
    \/ \E c \in Clicks : Consider(c) \/ Accept(c) \/ Refuse(c)
    \/ ProcessDies \/ WeekPasses \/ Edit

InsightSpec == InsightInit /\ [][InsightNext]_insightVars

-----------------------------------------------------------------------------
(* Properties. *)

\* When nothing of the lead is queued or running and no request is on its way, the
\* generation of its card had every row to read, also those that appeared during one and
\* although a slower generation may have put an older card back.  The gaps left are the
\* ones excused: a failure; a message that asked for nothing or found too little news; a
\* request the queue dropped after the job's last look; a recheck whose own id already
\* ran; and a row that appeared late, with a created_at the card it is missing from
\* already passed.  (rechecarNovidade: "a ultima mensagem do cliente ficaria fora".)
NewsReachesTheCard ==
    (/\ \A d \in Ids : task[d].state = "none"
     /\ \A k \in Texts : trigger[k].step \in {"none", "handled", "over"})
      => Pending \subseteq excused

\* A stage that people had refused when a generation looked (again, or only as it began
\* when the second look fails) is not what it suggests, for seven days, whether or not
\* the list still has the refusal.  The gaps left: one that RECUSAS_MAX later ones pushed out, and
\* one that a concurrent refusal wrote over.  (recusarEtapaSugerida: "nao re-sugerir a
\* mesma etapa nos proximos 7 dias"; gerarInsight: "Recusas RELIDAS".)
RefusedStaysAway ==
    \A n \in 1..checked :
        suggested = refusals[n] /\ n > weekAgo => n \in erased \/ checked - n >= RecusasMax

\* The model never takes the place of what a person filled in, also while it was
\* answering.  (preencherBemDeInteresse: "Manual input wins".)
ManualInputWins == [][field = "manual" => field' # "ai"]_insightVars
=============================================================================
