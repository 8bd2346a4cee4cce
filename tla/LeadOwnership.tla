----------------------------- MODULE LeadOwnership -----------------------------
(***************************************************************************)
(* Who a lead belongs to.  A lead (a contact of the company) has one        *)
(* conversation per WhatsApp number it wrote to; each conversation has an    *)
(* owner, and the lead mirrors the owner and the number of its active        *)
(* conversation, the one the customer wrote to last.  Writers of that state: *)
(*  - the webhook workers, one job per message: InboundMessageService        *)
(*    .saveIncomingMessage, ConversationService and, for the round robin     *)
(*    of a sector, AssignmentService;                                        *)
(*  - people: claim, reassign, return to the pool, move to a sector, bulk    *)
(*    assignment, the lead's form, stage moves, the owner of a number, the   *)
(*    deletion of a member (LeadsService, InstancesService, UsersService);   *)
(*  - the automation that runs when a lead enters a stage.                   *)
(*                                                                         *)
(* One tenant, one pipeline and one sector, to which every member belongs; a *)
(* number without a sector falls to "Sem Setor", which has no member.  A     *)
(* column is named by whose board it is on (Nobody: the base board), and     *)
(* every base column stands for the first.  A statement or a                 *)
(* transaction of the database is one step; what a handler reads first and   *)
(* uses later is kept in its job or session record.                          *)
(* Code: src/apps/api/src/modules/{webhooks,queue,leads,instances,users,     *)
(* pipelines}.                                                               *)
(***************************************************************************)
EXTENDS Naturals, FiniteSets, Sequences

CONSTANTS
    Users,         \* members who may own a lead (no VISUALIZADOR)
    Managers,      \* those whose role is GERENTE or SUPER_ADMIN
    Leads,
    Numbers,       \* instances of WhatsApp; a number orders the conversations' ids
    Jobs,          \* messages of the webhooks queue
    Sessions,      \* requests of people that may overlap
    Nobody,        \* a null responsavel_id; the base board
    Scenarios,     \* a tenant's flags, its numbers' owners, and the messages that arrive
    Sectored,      \* numbers with a sector_id
    Listing,       \* [SUBSET Users -> Seq(Users)]  ORDER BY id
    Operations,    \* the requests people make
    Automated,     \* the column assigns an owner on entry
    Attempts,      \* the 3 attempts of a webhook job
    MaxOperations  \* bound: requests, changes of the team, failures of workers

Owners == Users \cup {Nobody}
NoNumber == 0

ASSUME UsersAssumption ==
    Nobody \notin Users /\ Managers \subseteq Users /\ Owners \cap {"none", "queued"} = {}
ASSUME NumbersAssumption == Numbers \subseteq Nat \ {NoNumber}
Messages == [lead : Leads, number : Numbers, fromMe : BOOLEAN]
Flags == [pool : BOOLEAN, roundRobin : BOOLEAN, kanban : BOOLEAN]
ASSUME ScenariosAssumption ==
    Scenarios \subseteq
        [flags : Flags, owner : [Numbers -> Owners], messages : [Jobs -> Messages]]
\* A listing of a set is a sequence of its members, each of them once.
ASSUME ListingAssumption ==
    \A S \in SUBSET Users :
        /\ Listing[S] \in Seq(S)
        /\ \A u \in S : \E k \in 1..Len(Listing[S]) : Listing[S][k] = u
        /\ \A k, m \in 1..Len(Listing[S]) : Listing[S][k] = Listing[S][m] => k = m

VARIABLES
    tenant,        \* pool_enabled, round_robin_enabled and kanban_individual
    staff,         \* User: "active", "inactive", or "gone" once deleted
    number,        \* WhatsappInstance: owner_user_id and direct_to_owner
    lead,          \* Lead rows
    conversation,  \* Conversation rows: owner and last_customer_message_at (0: null)
    cursor,        \* QueuePointer.current_index of the sector
    message,       \* what each webhook job carries
    job,           \* webhook jobs and the locals of the worker that runs them
    saved,         \* jobs whose message row exists
    session,       \* requests of people: what they read, and what comes next
    entered,       \* on-stage-enter jobs: "none", "queued", or the board read
    now,           \* new Date() of the message processed last
    operations,    \* requests and failures so far
    owned,         \* history: leads that have had an owner
    turns,         \* history: round-robin turns of each member of this team
    held           \* history: the owner a person gave the lead undisturbed

\* The tenant's flags and the messages do not change.
fixed == <<tenant, message>>
business == <<fixed, staff, number, lead, conversation, cursor>>
vars == <<tenant, message, staff, number, lead, conversation, cursor, job, saved, session,
          entered, now, operations, owned, turns, held>>

NoLead == [exists |-> FALSE, owner |-> Nobody, number |-> NoNumber,
           cloud |-> FALSE, private |-> FALSE, board |-> Nobody]
NoConversation == [exists |-> FALSE, owner |-> Nobody, at |-> 0]
IdleJob == [pc |-> "queued", tries |-> 0, at |-> 0, rule |-> Nobody, wants |-> FALSE,
            owner |-> Nobody, number |-> NoNumber, board |-> Nobody, pick |-> Nobody]
IdleSession == [pc |-> "idle", op |-> "none", user |-> Nobody, lead |-> Nobody,
                target |-> Nobody, owner |-> Nobody, board |-> Nobody]

Init ==
    /\ \E s \in Scenarios :
        /\ tenant = s.flags
        /\ message = s.messages
        /\ number = [i \in Numbers |-> [owner |-> s.owner[i], direct |-> FALSE]]
    /\ staff = [u \in Users |-> "active"]
    /\ lead = [l \in Leads |-> NoLead]
    /\ conversation = [l \in Leads |-> [i \in Numbers |-> NoConversation]]
    /\ cursor = 0
    /\ job = [j \in Jobs |-> IdleJob]
    /\ saved = {}
    /\ session = [h \in Sessions |-> IdleSession]
    /\ entered = [l \in Leads |-> "none"]
    /\ now = 0
    /\ operations = 0
    /\ owned = {}
    /\ turns = [u \in Users |-> 0]
    /\ held = [l \in Leads |-> Nobody]

--------------------------------------------------------------------------------
(* Rows and rules *)

Exists(u) == u \in Users => staff[u] # "gone"

\* Column of the board of an owner that stands for any column (stageForOwner,
\* stageForBase): the base board unless the tenant gives each member a board.
BoardOf(o) == IF tenant.kanban THEN o ELSE Nobody

\* The column a write leaves: untouched when the one read before is already right
\* or no longer exists.
Remap(row, seen, o) == IF BoardOf(o) = seen \/ ~Exists(seen) THEN row.board ELSE BoardOf(o)

\* An update of the Lead row; a foreign key to a deleted member or column fails.
WriteLead(l, row) ==
    /\ Exists(row.owner) /\ Exists(row.board)
    /\ lead' = [lead EXCEPT ![l] = row]
    /\ owned' = IF row.owner = Nobody THEN owned ELSE owned \cup {l}

\* The fields every assignment to a person writes, and every return to nobody.
Given(row, o) == [row EXCEPT !.owner = o, !.cloud = FALSE]

Faulty_Returned(row) == [row EXCEPT !.owner = Nobody, !.private = FALSE]

Returned(row) == [row EXCEPT !.owner = Nobody, !.cloud = TRUE, !.private = FALSE]

\* resolveActiveConversation: latest customer message, ties by id.
ActiveAmong(c, i) ==
    /\ c[i].exists
    /\ \A k \in Numbers :
        c[k].exists => c[i].at > c[k].at \/ (c[i].at = c[k].at /\ i <= k)
IsActive(l, i) == ActiveAmong(conversation[l], i)

Faulty_Transfer(l, o) == UNCHANGED conversation

\* transferActiveConversation
Transfer(l, o) ==
    conversation' = [conversation EXCEPT ![l] =
        [i \in Numbers |-> IF IsActive(l, i) THEN [@[i] EXCEPT !.owner = o] ELSE @[i]]]

Faulty_OwnNumber(row, u) ==
    LET mine == {i \in Numbers : number[i].owner = u}
    IN  IF mine = {} THEN {Nobody} ELSE mine

\* Numbers findOwnedInstance may return; the row keeps its own when there is none.
OwnNumber(row, u) ==
    LET mine == {i \in Numbers : number[i].owner = u}
    IN  IF u = Nobody \/ mine = {} THEN {row.number} ELSE mine

\* AssignmentService.runAssign: the pointer is locked for the whole transaction,
\* the active members of the sector are listed by id.
Team == {u \in Users : staff[u] = "active"}
Turn(S) == Listing[S][(cursor % Len(Listing[S])) + 1]

Faulty_Advance(S) == (cursor + 2) % Len(Listing[S])

Advance(S) == (cursor + 1) % Len(Listing[S])

RoundRobin(chosen) ==
    \/ /\ Team = {}
       /\ chosen = Nobody
       /\ UNCHANGED <<cursor, turns>>
    \/ /\ Team # {}
       /\ chosen = Turn(Team)
       /\ cursor' = Advance(Team)
       /\ turns' = [turns EXCEPT ![chosen] = @ + 1]

--------------------------------------------------------------------------------
(* saveIncomingMessage, one job per message *)

At(j, pc) == job[j].pc = pc
Goto(j, pc) == job' = [job EXCEPT ![j].pc = pc]
Finish(j) == job' = [job EXCEPT ![j] = [IdleJob EXCEPT !.pc = "done"]]

\* The settings and the owner of the number decide whose a new lead is (rule)
\* and whether the sector's round robin hands it out (wants).
Start(j) ==
    LET own == number[message[j].number].owner
        direct == number[message[j].number].direct /\ own # Nobody
        spread == tenant.roundRobin /\ message[j].number \in Sectored /\ ~message[j].fromMe
        inPool == tenant.pool /\ (own \notin Managers \/ spread)
        shared == inPool \/ (~tenant.pool /\ spread)
    IN  /\ At(j, "queued")
        /\ IF j \in saved
           THEN Finish(j) /\ UNCHANGED now
           ELSE /\ now' = now + 1
                /\ job' = [job EXCEPT ![j] =
                    [@ EXCEPT !.pc = "upsert", !.at = now + 1,
                              !.rule = IF shared /\ ~direct THEN Nobody ELSE own,
                              !.wants = /\ shared /\ ~direct
                                        /\ tenant.roundRobin /\ ~message[j].fromMe]]
        /\ UNCHANGED <<business, saved, session, entered, operations, owned, turns, held>>

NewLead(j) ==
    [NoLead EXCEPT !.exists = TRUE, !.owner = job[j].rule, !.number = message[j].number]

\* The upsert of the lead; the worker keeps the row it gets back.
UpsertLead(j) ==
    LET l == message[j].lead
        row == IF lead[l].exists THEN lead[l] ELSE NewLead(j)
    IN  /\ At(j, "upsert")
        /\ WriteLead(l, row)
        /\ job' = [job EXCEPT ![j].pc = "place", ![j].owner = row.owner,
                              ![j].number = row.number, ![j].board = row.board]
        /\ UNCHANGED <<fixed, staff, number, conversation, cursor, saved, session,
                       entered, now, operations, turns, held>>

AfterPlace(j, owner) == IF owner = Nobody /\ job[j].wants THEN "pick" ELSE "resolve"

\* Auto-assign: the row read had no owner, the rule names one; by id alone.
AutoAssign(j) ==
    LET l == message[j].lead
        rule == job[j].rule
        row == [Given(lead[l], rule) EXCEPT
                    !.number = message[j].number, !.board = Remap(lead[l], job[j].board, rule)]
    IN  /\ At(j, "place")
        /\ job[j].owner = Nobody /\ rule # Nobody
        /\ WriteLead(l, row)
        /\ job' = [job EXCEPT ![j].pc = "resolve", ![j].owner = rule,
                              ![j].number = message[j].number, ![j].board = row.board]
        /\ UNCHANGED <<fixed, staff, number, conversation, cursor, saved, session,
                       entered, now, operations, turns, held>>

\* A lead born with its owner sits on the base board: move it to the owner's.
FixColumn(j) ==
    LET l == message[j].lead
        row == [lead[l] EXCEPT !.board = BoardOf(job[j].owner)]
    IN  /\ At(j, "place")
        /\ job[j].owner # Nobody \/ job[j].rule = Nobody
        /\ IF job[j].owner # Nobody /\ job[j].board = Nobody /\ tenant.kanban
           THEN WriteLead(l, row)
           ELSE UNCHANGED <<lead, owned>>
        /\ Goto(j, AfterPlace(j, job[j].owner))
        /\ UNCHANGED <<fixed, staff, number, conversation, cursor, saved, session,
                       entered, now, operations, turns, held>>

\* assignBySector in its own transaction.
PickAgent(j) ==
    /\ At(j, "pick")
    /\ \E chosen \in Owners :
        /\ IF message[j].number \in Sectored
           THEN RoundRobin(chosen)
           ELSE chosen = Nobody /\ UNCHANGED <<cursor, turns>>
        /\ job' = [job EXCEPT ![j].pc = IF chosen = Nobody THEN "resolve" ELSE "grant",
                              ![j].pick = chosen]
    /\ UNCHANGED <<fixed, staff, number, lead, conversation, saved, session, entered,
                   now, operations, owned, held>>

\* updateMany where responsavel_id is null: a lead taken meanwhile is left alone.
Grant(j) ==
    LET l == message[j].lead
        free == lead[l].owner = Nobody
        o == job[j].pick
        row == [Given(lead[l], o) EXCEPT
                    !.number = message[j].number, !.board = Remap(lead[l], job[j].board, o)]
    IN  /\ At(j, "grant")
        /\ IF free THEN WriteLead(l, row) ELSE UNCHANGED <<lead, owned>>
        /\ job' = [job EXCEPT ![j] =
            IF free THEN [@ EXCEPT !.pc = "resolve", !.owner = o, !.number = message[j].number]
            ELSE [@ EXCEPT !.pc = "resolve"]]
        /\ UNCHANGED <<fixed, staff, number, conversation, cursor, saved, session,
                       entered, now, operations, turns, held>>

\* resolveForInbound: an existing conversation keeps its owner, a new one takes the
\* rule's or the lead's.
Thread(j) ==
    LET c == conversation[message[j].lead][message[j].number]
    IN  IF c.exists THEN c
        ELSE [exists |-> TRUE, at |-> IF message[j].fromMe THEN 0 ELSE job[j].at,
              owner |-> IF job[j].rule # Nobody THEN job[j].rule ELSE job[j].owner]

\* A handover holds while no other conversation becomes the active one.
Elect(l) ==
    held' = IF \A i \in Numbers : ActiveAmong(conversation'[l], i) => IsActive(l, i)
            THEN held ELSE [held EXCEPT ![l] = Nobody]

ResolveConversation(j) ==
    LET l == message[j].lead
        i == message[j].number
        touches == conversation[l][i].exists /\ ~message[j].fromMe
    IN  /\ At(j, "resolve")
        /\ Exists(Thread(j).owner)
        /\ conversation' = [conversation EXCEPT ![l][i] = Thread(j)]
        /\ job' = [job EXCEPT ![j].pc = IF touches THEN "touch" ELSE "save",
                              ![j].pick = Thread(j).owner]
        /\ Elect(l)
        /\ UNCHANGED <<fixed, staff, number, lead, cursor, saved, session, entered, now,
                       operations, owned, turns>>

\* The conditional updateMany: the customer's time only moves forward.
Faulty_Later(t, at) == at

Later(t, at) == IF at > t THEN at ELSE t

Touch(j) ==
    LET l == message[j].lead
        i == message[j].number
    IN  /\ At(j, "touch")
        /\ conversation' = [conversation EXCEPT ![l][i].at = Later(@, job[j].at)]
        /\ Goto(j, "save")
        /\ Elect(l)
        /\ UNCHANGED <<fixed, staff, number, lead, cursor, saved, session, entered, now,
                       operations, owned, turns>>

\* The message row; then the lead mirrors the active conversation, unless the
\* worker's copy of the lead already shows this conversation's owner and number.
Save(j) ==
    /\ At(j, "save")
    /\ saved' = saved \cup {j}
    /\ IF /\ ~message[j].fromMe
          /\ job[j].owner # job[j].pick \/ job[j].number # message[j].number
       THEN job' = [job EXCEPT ![j] = [IdleJob EXCEPT !.pc = "sync"]]
       ELSE Finish(j)
    /\ UNCHANGED <<business, session, entered, now, operations, owned, turns, held>>

\* syncLeadFromActive: the read and the write of one READ COMMITTED transaction.
SyncRead(j) ==
    /\ At(j, "sync")
    /\ \E i \in Numbers :
        /\ IsActive(message[j].lead, i)
        /\ job' = [job EXCEPT ![j].pc = "mirror", ![j].number = i,
                              ![j].pick = conversation[message[j].lead][i].owner]
    /\ UNCHANGED <<business, saved, session, entered, now, operations, owned, turns, held>>

Mirror(j) ==
    LET l == message[j].lead
        row == IF job[j].pick = Nobody THEN Returned(lead[l]) ELSE Given(lead[l], job[j].pick)
    IN  /\ At(j, "mirror")
        /\ WriteLead(l, [row EXCEPT !.number = job[j].number])
        /\ Finish(j)
        /\ UNCHANGED <<fixed, staff, number, conversation, cursor, saved, session,
                       entered, now, operations, turns, held>>

\* A statement fails, for one because it names a deleted member, or the worker stops:
\* the job runs again from its first line while attempts are left.  An error of the
\* mirror is logged and swallowed.
Refused(j) == \E o \in {job[j].rule, job[j].owner, job[j].pick} : ~Exists(o)

Fail(j) ==
    /\ job[j].pc \notin {"queued", "done"}
    /\ operations < MaxOperations \/ Refused(j)
    /\ operations' = IF operations < MaxOperations THEN operations + 1 ELSE operations
    /\ IF job[j].pc \in {"sync", "mirror"} \/ job[j].tries + 1 = Attempts
       THEN Finish(j)
       ELSE job' = [job EXCEPT ![j] = [IdleJob EXCEPT !.tries = job[j].tries + 1]]
    /\ UNCHANGED <<business, saved, session, entered, now, owned, turns, held>>

WorkerStep(j) ==
    \/ Start(j) \/ UpsertLead(j) \/ AutoAssign(j) \/ FixColumn(j) \/ PickAgent(j)
    \/ Grant(j) \/ ResolveConversation(j) \/ Touch(j) \/ Save(j) \/ SyncRead(j) \/ Mirror(j)
    \/ Fail(j)

--------------------------------------------------------------------------------
(* Requests of people *)

Flying(l) == \E j \in Jobs : message[j].lead = l /\ job[j].pc \notin {"queued", "done"}

\* A person gave the lead to o, together with its conversation.
Hold(l, o) ==
    held' = [held EXCEPT ![l] = IF ~Flying(l) /\ \E i \in Numbers : IsActive(l, i)
                                THEN o ELSE Nobody]
LetGo(l) == held' = [held EXCEPT ![l] = Nobody]

Leave(h) == session' = [session EXCEPT ![h] = IdleSession]
Then(h, pc) == session' = [session EXCEPT ![h].pc = pc]

\* Who may ask what, from the row read at the start of the request.
May(op, u, l) ==
    CASE op \in {"claim", "stage"} -> TRUE
      [] op = "bulk" -> u \in Managers
      [] op = "return" -> lead[l].owner # Nobody /\ (u \in Managers \/ lead[l].owner = u)
      [] OTHER -> u \in Managers \/ lead[l].owner = u

\* Whom the lead may be given to: only reassign asks for an active member.
Targets(op, u) ==
    CASE op = "claim" -> {u}
      [] op = "reassign" -> Team
      [] op \in {"bulk", "form"} -> {v \in Users : staff[v] # "gone"}
      [] OTHER -> {Nobody}

Open(h) ==
    /\ session[h].pc = "idle" /\ operations < MaxOperations
    /\ \E op \in Operations, u \in Team, l \in Leads :
        /\ lead[l].exists /\ May(op, u, l)
        /\ \E t \in Targets(op, u) :
            session' = [session EXCEPT ![h] =
                [pc |-> IF op = "sector" THEN "pick" ELSE "commit", op |-> op, user |-> u,
                 lead |-> l, target |-> t, owner |-> lead[l].owner, board |-> lead[l].board]]
    /\ operations' = operations + 1
    /\ UNCHANGED <<business, job, saved, entered, now, owned, turns, held>>

Commits(h, op) == session[h].pc = "commit" /\ session[h].op = op

\* claim: the update is guarded by the owner being null; in the individual mode an
\* operator may only take what was returned.  The lead's number is a write of its own.
Claim(h) ==
    LET s == session[h]
        row == lead[s.lead]
    IN  /\ Commits(h, "claim")
        /\ row.owner = Nobody
        /\ tenant.pool \/ s.user \in Managers \/ row.cloud
        /\ WriteLead(s.lead, [Given(row, s.user) EXCEPT !.private = s.user \in Managers,
                                                        !.board = Remap(row, s.board, s.user)])
        /\ Transfer(s.lead, s.user)
        /\ Hold(s.lead, s.user)
        /\ Then(h, "relabel")
        /\ UNCHANGED <<fixed, staff, number, cursor, job, saved, entered, now, operations,
                       turns>>

Relabel(h) ==
    LET s == session[h] IN
    /\ s.pc = "relabel"
    /\ \E i \in OwnNumber(lead[s.lead], s.user) :
        WriteLead(s.lead, [lead[s.lead] EXCEPT !.number = i])
    /\ Leave(h)
    /\ UNCHANGED <<fixed, staff, number, conversation, cursor, job, saved, entered, now,
                   operations, turns, held>>

\* reassign, and the second transaction of moveToSector, which leaves the column.
GiveTo(h, o, board) ==
    LET l == session[h].lead IN
    /\ \E i \in OwnNumber(lead[l], o) :
        WriteLead(l, [Given(lead[l], o) EXCEPT !.private = FALSE, !.number = i,
                                               !.board = board])
    /\ Transfer(l, o)
    /\ Hold(l, o)
    /\ Leave(h)
    /\ UNCHANGED <<fixed, staff, number, cursor, job, saved, entered, now, operations, turns>>

Reassign(h) ==
    LET s == session[h] IN
    /\ Commits(h, "reassign")
    /\ GiveTo(h, s.target, Remap(lead[s.lead], s.board, s.target))

SectorPick(h) ==
    /\ session[h].pc = "pick"
    /\ \E chosen \in Owners :
        /\ RoundRobin(chosen)
        /\ session' = [session EXCEPT ![h].pc = "commit", ![h].target = chosen]
    /\ UNCHANGED <<fixed, staff, number, lead, conversation, job, saved, entered, now,
                   operations, owned, held>>

\* returnToPool, and moveToSector when the sector has nobody (board untouched).
GiveBack(h, board) ==
    LET l == session[h].lead IN
    /\ WriteLead(l, [Returned(lead[l]) EXCEPT !.board = board])
    /\ Transfer(l, Nobody)
    /\ LetGo(l)
    /\ Leave(h)
    /\ UNCHANGED <<fixed, staff, number, cursor, job, saved, entered, now, operations, turns>>

MoveToSector(h) ==
    LET s == session[h] IN
    /\ Commits(h, "sector")
    /\ IF s.target = Nobody THEN GiveBack(h, lead[s.lead].board)
       ELSE GiveTo(h, s.target, lead[s.lead].board)

ReturnToPool(h) ==
    LET s == session[h] IN
    /\ Commits(h, "return")
    /\ GiveBack(h, Remap(lead[s.lead], s.board, Nobody))

\* bulkAssign and the lead's form write the Lead alone.
WriteOwner(h, op, board) ==
    LET s == session[h] IN
    /\ Commits(h, op)
    /\ WriteLead(s.lead, [Given(lead[s.lead], s.target) EXCEPT !.board = board])
    /\ LetGo(s.lead)
    /\ Leave(h)
    /\ UNCHANGED <<fixed, staff, number, conversation, cursor, job, saved, entered, now,
                   operations, turns>>

BulkAssign(h) ==
    WriteOwner(h, "bulk", Remap(lead[session[h].lead], session[h].board, session[h].target))
SaveForm(h) == WriteOwner(h, "form", lead[session[h].lead].board)

\* updateStage: the column asked for, on the board of the owner read; the entry of
\* a column is handed to the automation.
MoveStage(h) ==
    LET s == session[h] IN
    /\ Commits(h, "stage")
    /\ WriteLead(s.lead, [lead[s.lead] EXCEPT
                            !.board = IF Exists(s.owner) THEN BoardOf(s.owner) ELSE @])
    /\ entered' = [entered EXCEPT ![s.lead] = IF Automated THEN "queued" ELSE @]
    /\ Leave(h)
    /\ UNCHANGED <<fixed, staff, number, conversation, cursor, job, saved, now, operations,
                   turns, held>>

\* The guard of a claim no longer holds, a statement fails, or the process stops.
Abort(h) ==
    /\ session[h].pc # "idle"
    /\ Leave(h)
    /\ UNCHANGED <<business, job, saved, entered, now, operations, owned, turns, held>>

PersonStep(h) ==
    \/ Open(h) \/ Claim(h) \/ Relabel(h) \/ Reassign(h) \/ SectorPick(h) \/ MoveToSector(h)
    \/ ReturnToPool(h) \/ BulkAssign(h) \/ SaveForm(h) \/ MoveStage(h) \/ Abort(h)

--------------------------------------------------------------------------------
(* The owner of a number, the team, the automation *)

\* instances.setOwner; with transfer, the number's leads and conversations that
\* are nobody's or the former owner's go with it.
SetOwner(i, u, transfer) ==
    LET former == number[i].owner
        mine(o) == o \in {Nobody, former}
        moved == {l \in Leads : lead[l].exists /\ lead[l].number = i /\ mine(lead[l].owner)}
    IN  /\ operations < MaxOperations
        /\ "owner" \in Operations /\ staff[u] = "active"
        /\ number' = [number EXCEPT ![i] = [owner |-> u, direct |-> TRUE]]
        /\ IF transfer /\ moved # {}
           THEN /\ lead' = [l \in Leads |-> IF l \notin moved THEN lead[l]
                                ELSE [Given(lead[l], u) EXCEPT !.board = BoardOf(u)]]
                /\ conversation' = [l \in Leads |-> [conversation[l] EXCEPT ![i] =
                                      IF @.exists /\ mine(@.owner) THEN [@ EXCEPT !.owner = u]
                                      ELSE @]]
                /\ owned' = owned \cup moved
                /\ held' = [l \in Leads |-> Nobody]
           ELSE UNCHANGED <<lead, conversation, owned, held>>
        /\ operations' = operations + 1
        /\ UNCHANGED <<fixed, staff, cursor, job, saved, session, entered, now, turns>>

\* users.deleteMember: refused while the member owns a number.
DeleteMember(u) ==
    /\ operations < MaxOperations
    /\ "delete" \in Operations /\ staff[u] # "gone"
    /\ \A i \in Numbers : number[i].owner # u
    /\ staff' = [staff EXCEPT ![u] = "gone"]
    /\ lead' = [l \in Leads |->
                  LET row == [lead[l] EXCEPT !.board = IF @ = u THEN Nobody ELSE @]
                  IN  IF row.owner = u THEN Returned(row) ELSE row]
    /\ conversation' = [l \in Leads |-> [i \in Numbers |->
                          IF conversation[l][i].owner = u
                          THEN [conversation[l][i] EXCEPT !.owner = Nobody]
                          ELSE conversation[l][i]]]
    /\ held' = [l \in Leads |-> IF held[l] = u THEN Nobody ELSE held[l]]
    /\ turns' = [v \in Users |-> 0]
    /\ operations' = operations + 1
    /\ UNCHANGED <<fixed, number, cursor, job, saved, session, entered, now, owned>>

\* A manager deactivates a member, or takes one back.
SetActive(u) ==
    /\ operations < MaxOperations
    /\ "active" \in Operations /\ staff[u] # "gone"
    /\ staff' = [staff EXCEPT ![u] = IF @ = "active" THEN "inactive" ELSE "active"]
    /\ turns' = [v \in Users |-> 0]
    /\ operations' = operations + 1
    /\ UNCHANGED <<fixed, number, lead, conversation, cursor, job, saved, session, entered,
                   now, owned, held>>

\* AutoActionsProcessor: the lead is read, an active member drawn by the clock.
ReadEntered(l) ==
    /\ entered[l] = "queued"
    /\ entered' = [entered EXCEPT ![l] = lead[l].board]
    /\ UNCHANGED <<business, job, saved, session, now, operations, owned, turns, held>>

AssignEntered(l) ==
    /\ entered[l] \in Owners
    /\ \E u \in Team :
        WriteLead(l, [Given(lead[l], u) EXCEPT !.board = Remap(lead[l], entered[l], u)])
    /\ entered' = [entered EXCEPT ![l] = "none"]
    /\ LetGo(l)
    /\ UNCHANGED <<fixed, staff, number, conversation, cursor, job, saved, session, now,
                   operations, turns>>

\* The team is empty, or the failure is logged and the assignment given up.
SkipEntered(l) ==
    /\ entered[l] # "none"
    /\ entered' = [entered EXCEPT ![l] = "none"]
    /\ UNCHANGED <<business, job, saved, session, now, operations, owned, turns, held>>

Quiet ==
    /\ \A j \in Jobs : job[j].pc = "done"
    /\ \A h \in Sessions : session[h].pc = "idle"
    /\ \A l \in Leads : entered[l] = "none"
    /\ operations = MaxOperations
    /\ UNCHANGED vars

Next ==
    \/ \E j \in Jobs : WorkerStep(j)
    \/ \E h \in Sessions : PersonStep(h)
    \/ \E i \in Numbers, u \in Users, transfer \in BOOLEAN : SetOwner(i, u, transfer)
    \/ \E u \in Users : DeleteMember(u) \/ SetActive(u)
    \/ \E l \in Leads : ReadEntered(l) \/ AssignEntered(l) \/ SkipEntered(l)
    \/ Quiet

Spec == Init /\ [][Next]_vars
--------------------------------------------------------------------------------
(* Properties *)

NumberOrNone == Numbers \cup {NoNumber}
WorkerPc == {"queued", "upsert", "place", "pick", "grant", "resolve", "touch", "save",
             "sync", "mirror", "done"}
RequestPc == {"idle", "pick", "commit", "relabel"}

LeadRow == [exists : BOOLEAN, owner : Owners, number : NumberOrNone,
            cloud : BOOLEAN, private : BOOLEAN, board : Owners]
ThreadRow == [exists : BOOLEAN, owner : Owners, at : Nat]
JobRow ==
    [pc : WorkerPc, tries : Nat, at : Nat, rule : Owners, wants : BOOLEAN, owner : Owners,
     number : NumberOrNone, board : Owners, pick : Owners]
SessionRow ==
    [pc : RequestPc, op : Operations \cup {"none"},
     user : Owners, lead : Leads \cup {Nobody}, target : Owners, owner : Owners, board : Owners]

\* The shape of every row, pointer and local of the component.
TypeOK ==
    /\ tenant \in Flags /\ message \in [Jobs -> Messages]
    /\ staff \in [Users -> {"active", "inactive", "gone"}]
    /\ number \in [Numbers -> [owner : Owners, direct : BOOLEAN]]
    /\ lead \in [Leads -> LeadRow]
    /\ conversation \in [Leads -> [Numbers -> ThreadRow]]
    /\ cursor \in Nat
    /\ job \in [Jobs -> JobRow]
    /\ saved \subseteq Jobs
    /\ session \in [Sessions -> SessionRow]
    /\ entered \in [Leads -> Owners \cup {"none", "queued"}]
    /\ now \in Nat /\ operations \in Nat
    /\ owned \subseteq Leads
    /\ turns \in [Users -> Nat]
    /\ held \in [Leads -> Owners]

\* A lead with an owner is not offered in the cloud of returned leads; one that had
\* an owner and has none is in it, and is not private: it would be seen by nobody
\* (patchDaNuvem, leads.service.ts:172-190, and every writer of responsavel_id).
CloudHoldsTheReturned ==
    \A l \in Leads :
        /\ lead[l].owner # Nobody => ~lead[l].cloud
        /\ lead[l].owner = Nobody => ~lead[l].private
        /\ lead[l].owner = Nobody /\ l \in owned => lead[l].cloud

\* Webhook workers and moveToSector share one pointer: whatever the interleaving,
\* no active member is two turns ahead of another since the team last changed
\* (assignment.service.ts:60-127, "ordem estavel (garante o padrao A,B,A,B)").
RoundRobinFair == \A u, v \in Team : turns[u] <= turns[v] + 1

\* The webhook never takes a conversation from its owner, and the customer's time
\* that elects the active conversation never goes back, in whatever order workers
\* that started at different times write it (conversation.service.ts:30-70).
ConversationIsSteady ==
    [][\A j \in Jobs, l \in Leads, i \in Numbers :
        WorkerStep(j) /\ conversation[l][i].exists =>
            /\ conversation'[l][i].owner = conversation[l][i].owner
            /\ conversation'[l][i].at >= conversation[l][i].at]_vars

\* A lead a person claimed, reassigned or moved to a sector, together with its
\* conversation, stays with its new owner through every later message the customer
\* writes to the same number (transferActiveConversation, leads.service.ts:1783-1803).
HandoverSticks == \A l \in Leads : held[l] # Nobody => lead[l].owner = held[l]

\* The mirror takes a lead from its owner only when the customer wrote through
\* another number: "O dono do card muda quando o cliente manda mensagem por outro
\* numero" (docs/specs/conversa-por-instancia.md:83).
CardMovesOnlyToAnotherNumber ==
    [][\A j \in Jobs :
        LET l == message[j].lead IN
        Mirror(j) /\ lead[l].owner # Nobody /\ lead'[l].owner # lead[l].owner
            => lead'[l].number # lead[l].number]_vars
================================================================================
