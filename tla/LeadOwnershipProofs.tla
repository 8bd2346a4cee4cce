-------------------------- MODULE LeadOwnershipProofs --------------------------
(***************************************************************************)
(* Proofs about LeadOwnership, for any team, contacts, numbers, messages,   *)
(* sessions, scenarios and bounds.                                          *)
(***************************************************************************)
EXTENDS LeadOwnership, TLAPS

--------------------------------------------------------------------------------
(* Rows.  The types of rows are opaque in the proofs about actions, which know *)
(* of them only what these lemmas say.                                        *)

LEMMA JobFields ==
  ASSUME NEW r \in JobRow
  PROVE  /\ r.rule \in Owners /\ r.owner \in Owners /\ r.pick \in Owners
         /\ r.board \in Owners /\ r.number \in NumberOrNone
         /\ r.tries \in Nat /\ r.at \in Nat /\ r.pc \in WorkerPc
         /\ \A p \in WorkerPc : [r EXCEPT !.pc = p] \in JobRow
         /\ \A o \in Owners : [r EXCEPT !.owner = o] \in JobRow
         /\ \A o \in Owners : [r EXCEPT !.pick = o] \in JobRow
         /\ \A o \in Owners : [r EXCEPT !.board = o] \in JobRow
         /\ \A o \in Owners : [r EXCEPT !.rule = o] \in JobRow
         /\ \A i \in NumberOrNone : [r EXCEPT !.number = i] \in JobRow
         /\ \A t \in Nat : [r EXCEPT !.at = t] \in JobRow
         /\ \A t \in Nat : [r EXCEPT !.tries = t] \in JobRow
         /\ \A b \in BOOLEAN : [r EXCEPT !.wants = b] \in JobRow
  BY DEF JobRow

LEMMA SessionFields ==
  ASSUME NEW r \in SessionRow
  PROVE  /\ r.user \in Owners /\ r.target \in Owners /\ r.owner \in Owners
         /\ r.board \in Owners /\ r.lead \in Leads \cup {Nobody}
         /\ \A p \in RequestPc : [r EXCEPT !.pc = p] \in SessionRow
         /\ \A o \in Owners : [r EXCEPT !.target = o] \in SessionRow
  BY DEF SessionRow

LEMMA LeadFields ==
  ASSUME NEW r \in LeadRow
  PROVE  /\ r.exists \in BOOLEAN /\ r.owner \in Owners /\ r.board \in Owners
         /\ r.number \in NumberOrNone
         /\ \A b \in BOOLEAN : [r EXCEPT !.exists = b] \in LeadRow
         /\ \A o \in Owners : [r EXCEPT !.owner = o] \in LeadRow
         /\ \A i \in NumberOrNone : [r EXCEPT !.number = i] \in LeadRow
         /\ \A b \in BOOLEAN : [r EXCEPT !.cloud = b] \in LeadRow
         /\ \A b \in BOOLEAN : [r EXCEPT !.private = b] \in LeadRow
         /\ \A o \in Owners : [r EXCEPT !.board = o] \in LeadRow
  BY DEF LeadRow

LEMMA ThreadFields ==
  ASSUME NEW r \in ThreadRow
  PROVE  /\ r.exists \in BOOLEAN /\ r.owner \in Owners /\ r.at \in Nat
         /\ \A o \in Owners : [r EXCEPT !.owner = o] \in ThreadRow
         /\ \A t \in Nat : [r EXCEPT !.at = t] \in ThreadRow
  BY DEF ThreadRow

LEMMA Idle ==
  /\ IdleJob \in JobRow /\ IdleSession \in SessionRow /\ NoLead \in LeadRow
  /\ NoConversation \in ThreadRow
  /\ [IdleJob EXCEPT !.pc = "done"] \in JobRow /\ [IdleJob EXCEPT !.pc = "sync"] \in JobRow
  /\ \A n \in Nat : [IdleJob EXCEPT !.tries = n] \in JobRow
<1>1. IdleJob \in JobRow /\ IdleSession \in SessionRow /\ NoLead \in LeadRow
      /\ NoConversation \in ThreadRow
  BY DEF IdleJob, JobRow, IdleSession, SessionRow, NoLead, LeadRow, NoConversation,
         ThreadRow, Owners, NumberOrNone, NoNumber, WorkerPc, RequestPc
<1> QED
  BY <1>1, JobFields DEF WorkerPc

LEMMA GivenType ==
  ASSUME NEW row \in LeadRow, NEW o \in Owners
  PROVE  Given(row, o) \in LeadRow /\ Returned(row) \in LeadRow
  BY LeadFields DEF Given, Returned, Owners

--------------------------------------------------------------------------------
(* The type invariant *)

LEMMA InitType == Init => TypeOK
<1> SUFFICES ASSUME Init PROVE TypeOK  OBVIOUS
<1>1. PICK s \in Scenarios : /\ tenant = s.flags /\ message = s.messages
                             /\ number = [i \in Numbers |-> [owner |-> s.owner[i], direct |-> FALSE]]
  BY DEF Init
<1>2. s \in [flags : Flags, owner : [Numbers -> Owners], messages : [Jobs -> Messages]]
  BY ScenariosAssumption
<1>3. number \in [Numbers -> [owner : Owners, direct : BOOLEAN]]
  BY <1>1, <1>2
<1> QED
  BY <1>1, <1>2, <1>3, Idle DEF Init, TypeOK, Owners

LEMMA WriteLeadType ==
  ASSUME TypeOK, NEW l \in Leads, NEW row \in LeadRow, WriteLead(l, row)
  PROVE  lead' \in [Leads -> LeadRow] /\ owned' \in SUBSET Leads
  BY DEF TypeOK, WriteLead

LEMMA JobInType ==
  ASSUME TypeOK, NEW j \in Jobs
  PROVE  /\ job[j] \in JobRow /\ message[j].lead \in Leads /\ message[j].number \in Numbers
         /\ message[j].number \in NumberOrNone /\ lead[message[j].lead] \in LeadRow
         /\ \A r \in JobRow : job' = [job EXCEPT ![j] = r] => job' \in [Jobs -> JobRow]
  BY DEF TypeOK, Messages, NumberOrNone

LEMMA ListingFacts ==
  ASSUME NEW S \in SUBSET Users, S # {}
  PROVE  /\ Len(Listing[S]) \in Nat \ {0}
         /\ \A k \in 1..Len(Listing[S]) : Listing[S][k] \in S
<1>1. Listing[S] \in Seq(S)
  BY ListingAssumption
<1>2. PICK u \in S : TRUE  OBVIOUS
<1>3. \E k \in 1..Len(Listing[S]) : Listing[S][k] = u
  BY ListingAssumption
<1> QED BY <1>1, <1>3

LEMMA TurnMember ==
  ASSUME cursor \in Nat, Team # {}
  PROVE  Turn(Team) \in Team /\ Turn(Team) \in Users
<1>1. /\ Len(Listing[Team]) \in Nat \ {0}
      /\ \A k \in 1..Len(Listing[Team]) : Listing[Team][k] \in Team
  BY ListingFacts DEF Team
<1>2. \A n \in Nat \ {0} : (cursor % n) + 1 \in 1..n
  OBVIOUS
<1>3. (cursor % Len(Listing[Team])) + 1 \in 1..Len(Listing[Team])
  BY <1>1, <1>2, Zenon
<1>4. Turn(Team) \in Team
  BY <1>1, <1>3, Zenon DEF Turn
<1> QED BY <1>4 DEF Team

LEMMA RoundRobinType ==
  ASSUME TypeOK, NEW o \in Owners, RoundRobin(o)
  PROVE  cursor' \in Nat /\ turns' \in [Users -> Nat]
<1>1. CASE Team = {}
  BY <1>1 DEF RoundRobin, TypeOK
<1>2. CASE Team # {}
  <2>1. Len(Listing[Team]) \in Nat \ {0}
    BY <1>2, ListingFacts DEF Team
  <2>2. \A n \in Nat \ {0}, c \in Nat : (c + 1) % n \in Nat
    OBVIOUS
  <2>3. (cursor + 1) % Len(Listing[Team]) \in Nat
    BY <2>1, <2>2 DEF TypeOK
  <2>4. turns' \in [Users -> Nat]
    <3>1. /\ turns \in [Users -> Nat] /\ turns' = [turns EXCEPT ![o] = @ + 1]
          /\ o \in Users
      BY <1>2, TurnMember DEF RoundRobin, TypeOK
    <3> QED BY <3>1
  <2> QED
    BY <1>2, <2>3, <2>4, Zenon DEF RoundRobin, Advance
<1> QED BY <1>1, <1>2

LEMMA RemapType ==
  ASSUME TypeOK, NEW row \in LeadRow, NEW seen \in Owners, NEW o \in Owners
  PROVE  Remap(row, seen, o) \in Owners /\ BoardOf(o) \in Owners
  BY LeadFields DEF Remap, BoardOf, Owners

LEMMA WorkerType ==
  ASSUME TypeOK, NEW j \in Jobs, WorkerStep(j) PROVE TypeOK'
<1> DEFINE l == message[j].lead
           i == message[j].number
<1>0. /\ l \in Leads /\ i \in Numbers /\ i \in NumberOrNone /\ lead[l] \in LeadRow
      /\ job[j] \in JobRow /\ Nobody \in Owners
  BY JobInType DEF Owners
<1>f. /\ job[j].rule \in Owners /\ job[j].owner \in Owners /\ job[j].pick \in Owners
      /\ job[j].board \in Owners /\ job[j].number \in NumberOrNone
      /\ job[j].tries \in Nat /\ job[j].at \in Nat
  BY <1>0, JobFields
<1>p. \A x \in {"upsert", "place", "pick", "grant", "resolve", "touch", "save", "mirror"} :
        x \in WorkerPc
  BY DEF WorkerPc
<1>d. Finish(j) => job' \in [Jobs -> JobRow]
  BY Idle, JobInType DEF Finish
<1>1. CASE Start(j)
  <2>1. number[i].owner \in Owners /\ now \in Nat
    BY <1>0 DEF TypeOK
  <2>2. job' \in [Jobs -> JobRow]
    <3>1. CASE j \in saved
      BY <1>1, <1>d, <3>1 DEF Start
    <3>2. CASE j \notin saved
      <4>1. \A t \in Nat, o \in Owners, b \in BOOLEAN :
              [job[j] EXCEPT !.pc = "upsert", !.at = t, !.rule = o, !.wants = b] \in JobRow
        BY <1>0, <1>p, JobFields
      <4>2. now + 1 \in Nat
        BY <2>1
      <4>3. PICK o \in Owners, b \in BOOLEAN : job' = [job EXCEPT ![j] =
              [job[j] EXCEPT !.pc = "upsert", !.at = now + 1, !.rule = o, !.wants = b]]
        BY <1>0, <1>1, <2>1, <3>2 DEF Start, TypeOK
      <4> QED BY <4>1, <4>2, <4>3, JobInType, Zenon
    <3> QED BY <3>1, <3>2
  <2>3. now' \in Nat
    BY <1>1, <2>1 DEF Start
  <2> QED
    BY <1>1, <2>2, <2>3 DEF Start, TypeOK, fixed, business
<1>2. CASE UpsertLead(j)
  <2> DEFINE row == IF lead[l].exists THEN lead[l] ELSE NewLead(j)
  <2>1. row \in LeadRow
    BY <1>0, <1>f, Idle, LeadFields DEF NewLead
  <2>2. lead' \in [Leads -> LeadRow] /\ owned' \in SUBSET Leads
    BY <1>0, <1>2, <2>1, WriteLeadType DEF UpsertLead
  <2>4. row.owner \in Owners /\ row.number \in NumberOrNone /\ row.board \in Owners
    BY <2>1, LeadFields
  <2>5. job' = [job EXCEPT ![j].pc = "place", ![j].owner = row.owner,
                           ![j].number = row.number, ![j].board = row.board]
    BY <1>2 DEF UpsertLead
  <2>3. job' \in [Jobs -> JobRow]
    <3> HIDE DEF row
    <3> QED BY <1>0, <1>p, <2>4, <2>5, JobFields DEF TypeOK
  <2> QED
    BY <1>2, <2>2, <2>3 DEF UpsertLead, TypeOK, fixed
<1>3. CASE AutoAssign(j)
  <2> DEFINE b == Remap(lead[l], job[j].board, job[j].rule)
             row == [Given(lead[l], job[j].rule) EXCEPT !.number = i, !.board = b]
  <2>1. b \in Owners /\ row \in LeadRow
    BY <1>0, <1>f, GivenType, RemapType, LeadFields
  <2>2. lead' \in [Leads -> LeadRow] /\ owned' \in SUBSET Leads
    BY <1>0, <1>3, <2>1, WriteLeadType DEF AutoAssign
  <2>3. row.board \in Owners
    BY <2>1, LeadFields
  <2>4. job' \in [Jobs -> JobRow]
    BY <1>0, <1>f, <1>3, <1>p, <2>3, JobFields DEF AutoAssign, TypeOK
  <2> QED
    BY <1>0, <1>3, <2>2, <2>4 DEF AutoAssign, TypeOK, fixed
<1>4. CASE FixColumn(j)
  <2>1. [lead[l] EXCEPT !.board = BoardOf(job[j].owner)] \in LeadRow
    BY <1>0, <1>f, RemapType, LeadFields
  <2>2. lead' \in [Leads -> LeadRow] /\ owned' \in SUBSET Leads
    BY <1>0, <1>4, <2>1, WriteLeadType DEF FixColumn, TypeOK
  <2>3. job' \in [Jobs -> JobRow]
    BY <1>0, <1>4, <1>p, JobFields DEF FixColumn, Goto, AfterPlace, TypeOK
  <2> QED
    BY <1>4, <2>2, <2>3 DEF FixColumn, TypeOK, fixed
<1>5. CASE PickAgent(j)
  <2>1. PICK chosen \in Owners :
          /\ \/ RoundRobin(chosen)
             \/ chosen = Nobody /\ UNCHANGED <<cursor, turns>>
          /\ job' = [job EXCEPT ![j].pc = IF chosen = Nobody THEN "resolve" ELSE "grant",
                                ![j].pick = chosen]
    BY <1>5 DEF PickAgent
  <2>2. job' \in [Jobs -> JobRow]
    BY <1>0, <1>p, <2>1, JobFields DEF TypeOK
  <2>3. cursor' \in Nat /\ turns' \in [Users -> Nat]
    BY <2>1, RoundRobinType DEF TypeOK
  <2> QED
    BY <1>5, <2>2, <2>3 DEF PickAgent, TypeOK, fixed
<1>6. CASE Grant(j)
  <2> DEFINE o == job[j].pick
             b == Remap(lead[l], job[j].board, o)
             row == [Given(lead[l], o) EXCEPT !.number = i, !.board = b]
  <2>1. row \in LeadRow
    BY <1>0, <1>f, GivenType, RemapType, LeadFields
  <2>2. lead' \in [Leads -> LeadRow] /\ owned' \in SUBSET Leads
    BY <1>0, <1>6, <2>1, WriteLeadType DEF Grant, TypeOK
  <2>3. job' \in [Jobs -> JobRow]
    BY <1>0, <1>f, <1>6, <1>p, JobFields DEF Grant, TypeOK
  <2> QED
    BY <1>6, <2>2, <2>3 DEF Grant, TypeOK, fixed
<1>7. CASE ResolveConversation(j)
  <2>1. conversation[l][i] \in ThreadRow
    BY <1>0 DEF TypeOK
  <2>2. Thread(j) \in ThreadRow /\ Thread(j).owner \in Owners
    BY <1>0, <1>f, <2>1, ThreadFields DEF Thread, ThreadRow
  <2>3. conversation' \in [Leads -> [Numbers -> ThreadRow]]
    BY <1>0, <1>7, <2>2 DEF ResolveConversation, TypeOK
  <2>4. job' \in [Jobs -> JobRow]
    BY <1>0, <1>7, <1>p, <2>2, JobFields DEF ResolveConversation, TypeOK
  <2>5. held' \in [Leads -> Owners]
    BY <1>0, <1>7 DEF ResolveConversation, Elect, TypeOK
  <2> QED
    BY <1>7, <2>3, <2>4, <2>5 DEF ResolveConversation, TypeOK, fixed
<1>8. CASE Touch(j)
  <2>1. conversation[l][i] \in ThreadRow
    BY <1>0 DEF TypeOK
  <2>2. [conversation[l][i] EXCEPT !.at = Later(conversation[l][i].at, job[j].at)] \in ThreadRow
    BY <1>0, <1>f, <2>1, ThreadFields DEF Later
  <2>3. conversation' \in [Leads -> [Numbers -> ThreadRow]]
    BY <1>0, <1>8, <2>2 DEF Touch, TypeOK
  <2>4. job' \in [Jobs -> JobRow]
    BY <1>0, <1>8, <1>p, JobFields DEF Touch, Goto, TypeOK
  <2>5. held' \in [Leads -> Owners]
    BY <1>0, <1>8 DEF Touch, Elect, TypeOK
  <2> QED
    BY <1>8, <2>3, <2>4, <2>5 DEF Touch, TypeOK, fixed
<1>9. CASE Save(j)
  <2>1. job' \in [Jobs -> JobRow]
    BY <1>9, <1>d, Idle, JobInType DEF Save
  <2> QED
    BY <1>9, <2>1 DEF Save, TypeOK, fixed, business
<1>10. CASE SyncRead(j)
  <2>1. PICK k \in Numbers : job' = [job EXCEPT ![j].pc = "mirror", ![j].number = k,
                                        ![j].pick = conversation[l][k].owner]
    BY <1>10 DEF SyncRead
  <2>2. conversation[l][k].owner \in Owners /\ k \in NumberOrNone
    BY <1>0, ThreadFields DEF TypeOK, NumberOrNone
  <2>3. job' \in [Jobs -> JobRow]
    BY <1>0, <1>p, <2>1, <2>2, JobFields DEF TypeOK
  <2> QED
    BY <1>10, <2>3 DEF SyncRead, TypeOK, fixed, business
<1>11. CASE Mirror(j)
  <2> DEFINE row == IF job[j].pick = Nobody THEN Returned(lead[l])
                    ELSE Given(lead[l], job[j].pick)
  <2>1. [row EXCEPT !.number = job[j].number] \in LeadRow
    BY <1>0, <1>f, GivenType, LeadFields
  <2>2. lead' \in [Leads -> LeadRow] /\ owned' \in SUBSET Leads
    BY <1>0, <1>11, <2>1, WriteLeadType DEF Mirror
  <2> QED
    BY <1>11, <1>d, <2>2 DEF Mirror, TypeOK, fixed
<1>12. CASE Fail(j)
  <2>1. job' \in [Jobs -> JobRow]
    BY <1>12, <1>d, <1>f, Idle, JobInType DEF Fail
  <2> QED
    BY <1>12, <2>1 DEF Fail, TypeOK, fixed, business
<1> QED
  BY <1>1, <1>2, <1>3, <1>4, <1>5, <1>6, <1>7, <1>8, <1>9, <1>10, <1>11, <1>12
  DEF WorkerStep

LEMMA SessionInType ==
  ASSUME TypeOK, NEW h \in Sessions
  PROVE  /\ session[h] \in SessionRow
         /\ session[h].lead \in Leads => lead[session[h].lead] \in LeadRow
         /\ \A r \in SessionRow :
              session' = [session EXCEPT ![h] = r] => session' \in [Sessions -> SessionRow]
  BY DEF TypeOK

LEMMA LeaveType ==
  ASSUME TypeOK, NEW h \in Sessions, Leave(h) PROVE session' \in [Sessions -> SessionRow]
  BY Idle, SessionInType DEF Leave

LEMMA TransferType ==
  ASSUME TypeOK, NEW l \in Leads, NEW o \in Owners, Transfer(l, o)
  PROVE  conversation' \in [Leads -> [Numbers -> ThreadRow]]
<1> DEFINE rows == [i \in Numbers |-> IF IsActive(l, i)
                      THEN [conversation[l][i] EXCEPT !.owner = o] ELSE conversation[l][i]]
<1>1. \A i \in Numbers : conversation[l][i] \in ThreadRow
  BY DEF TypeOK
<1>2. \A i \in Numbers : [conversation[l][i] EXCEPT !.owner = o] \in ThreadRow
  BY <1>1, ThreadFields
<1>3. rows \in [Numbers -> ThreadRow]
  BY <1>1, <1>2
<1>4. conversation' = [conversation EXCEPT ![l] = rows]
  BY DEF Transfer
<1> HIDE DEF rows
<1> QED
  BY <1>3, <1>4 DEF TypeOK

LEMMA HoldType ==
  ASSUME TypeOK, NEW l \in Leads, NEW o \in Owners, Hold(l, o) \/ LetGo(l)
  PROVE  held' \in [Leads -> Owners]
  BY DEF TypeOK, Hold, LetGo, Owners

LEMMA OwnNumberType ==
  ASSUME NEW row \in LeadRow, NEW u, NEW i \in OwnNumber(row, u) PROVE i \in NumberOrNone
  BY LeadFields DEF OwnNumber, NumberOrNone

LEMMA GiveToType ==
  ASSUME TypeOK, NEW h \in Sessions, NEW o \in Owners, NEW b \in Owners,
         session[h].lead \in Leads, GiveTo(h, o, b)
  PROVE  TypeOK'
<1> DEFINE l == session[h].lead
<1>1. lead[l] \in LeadRow /\ Given(lead[l], o) \in LeadRow
  BY SessionInType, GivenType
<1>2. PICK i \in OwnNumber(lead[l], o) :
        WriteLead(l, [Given(lead[l], o) EXCEPT !.private = FALSE, !.number = i, !.board = b])
  BY DEF GiveTo
<1>3. i \in NumberOrNone
  BY <1>1, OwnNumberType
<1>4. [Given(lead[l], o) EXCEPT !.private = FALSE, !.number = i, !.board = b] \in LeadRow
  BY <1>1, <1>3, LeadFields
<1>5. lead' \in [Leads -> LeadRow] /\ owned' \in SUBSET Leads
  BY <1>2, <1>4, WriteLeadType
<1> QED
  BY <1>5, TransferType, HoldType, LeaveType DEF GiveTo, TypeOK, fixed

LEMMA GiveBackType ==
  ASSUME TypeOK, NEW h \in Sessions, NEW b \in Owners,
         session[h].lead \in Leads, GiveBack(h, b)
  PROVE  TypeOK'
<1> DEFINE l == session[h].lead
<1>1. [Returned(lead[l]) EXCEPT !.board = b] \in LeadRow
  BY SessionInType, GivenType, LeadFields DEF Owners
<1>2. lead' \in [Leads -> LeadRow] /\ owned' \in SUBSET Leads
  BY <1>1, WriteLeadType DEF GiveBack
<1>3. Nobody \in Owners
  BY DEF Owners
<1> QED
  BY <1>2, <1>3, TransferType, HoldType, LeaveType DEF GiveBack, TypeOK, fixed

LEMMA WriteOwnerType ==
  ASSUME TypeOK, NEW h \in Sessions, NEW op, NEW b \in Owners,
         session[h].lead \in Leads, WriteOwner(h, op, b)
  PROVE  TypeOK'
<1> DEFINE l == session[h].lead
           o == session[h].target
<1>1. o \in Owners /\ lead[l] \in LeadRow
  BY SessionInType, SessionFields
<1>2. [Given(lead[l], o) EXCEPT !.board = b] \in LeadRow
  BY <1>1, GivenType, LeadFields
<1>3. lead' \in [Leads -> LeadRow] /\ owned' \in SUBSET Leads
  BY <1>2, WriteLeadType DEF WriteOwner
<1> QED
  BY <1>1, <1>3, HoldType, LeaveType DEF WriteOwner, TypeOK, fixed

--------------------------------------------------------------------------------
(* What a request, a job and the automation remember of the rows they read *)

SessionsOK ==
    \A h \in Sessions : session[h].pc # "idle" =>
        /\ session[h].user \in Users /\ session[h].lead \in Leads
        /\ lead[session[h].lead].exists
        /\ session[h].op \in {"reassign", "bulk", "form"} => session[h].target \in Users
        /\ session[h].pc = "pick" => session[h].op = "sector"

JobsOK ==
    \A j \in Jobs :
        /\ job[j].pc \notin {"queued", "upsert", "done"} => lead[message[j].lead].exists
        /\ job[j].pc = "grant" => job[j].pick \in Users

LEMMA PersonType ==
  ASSUME TypeOK, SessionsOK, NEW h \in Sessions, PersonStep(h) PROVE TypeOK'
<1> DEFINE s == session[h]
           l == s.lead
<1>0. /\ s \in SessionRow /\ s.user \in Owners /\ s.target \in Owners /\ s.board \in Owners
      /\ s.owner \in Owners /\ Nobody \in Owners
  BY SessionInType, SessionFields DEF Owners
<1>l. s.pc # "idle" => l \in Leads /\ lead[l] \in LeadRow /\ lead[l].board \in Owners
  BY SessionInType, LeadFields DEF SessionsOK
<1>r. s.pc # "idle" => \A o \in Owners : Remap(lead[l], s.board, o) \in Owners
  BY <1>0, <1>l, RemapType
<1>p. \A x \in {"pick", "commit", "relabel"} : x \in RequestPc
  BY DEF RequestPc
<1>1. CASE Open(h)
  <2>1. PICK op \in Operations, u \in Team, k \in Leads : \E t \in Targets(op, u) :
          session' = [session EXCEPT ![h] =
            [pc |-> IF op = "sector" THEN "pick" ELSE "commit", op |-> op, user |-> u,
             lead |-> k, target |-> t, owner |-> lead[k].owner, board |-> lead[k].board]]
    BY <1>1 DEF Open
  <2>t. PICK t \in Targets(op, u) :
          session' = [session EXCEPT ![h] =
            [pc |-> IF op = "sector" THEN "pick" ELSE "commit", op |-> op, user |-> u,
             lead |-> k, target |-> t, owner |-> lead[k].owner, board |-> lead[k].board]]
    BY <2>1
  <2>2. u \in Owners /\ t \in Owners /\ lead[k].owner \in Owners /\ lead[k].board \in Owners
    BY LeadFields DEF Team, Targets, Owners, TypeOK
  <2>3. [pc |-> IF op = "sector" THEN "pick" ELSE "commit", op |-> op, user |-> u,
         lead |-> k, target |-> t, owner |-> lead[k].owner, board |-> lead[k].board]
          \in SessionRow
    BY <2>2 DEF SessionRow, RequestPc
  <2>4. session' \in [Sessions -> SessionRow]
    BY <2>t, <2>3, SessionInType
  <2> QED
    BY <1>1, <2>4 DEF Open, TypeOK, fixed, business
<1>2. CASE Claim(h)
  <2>0. l \in Leads /\ lead[l] \in LeadRow
    BY <1>2, <1>l DEF Claim, Commits
  <2>1. Remap(lead[l], s.board, s.user) \in Owners
    BY <1>0, <2>0, RemapType
  <2>a. \A p \in BOOLEAN : [Given(lead[l], s.user) EXCEPT !.private = p,
           !.board = Remap(lead[l], s.board, s.user)] \in LeadRow
    BY <1>0, <2>0, <2>1, GivenType, LeadFields
  <2>b. (s.user \in Managers) \in BOOLEAN
    OBVIOUS
  <2>2. [Given(lead[l], s.user) EXCEPT !.private = s.user \in Managers,
           !.board = Remap(lead[l], s.board, s.user)] \in LeadRow
    BY <2>a, <2>b, Zenon
  <2>3. lead' \in [Leads -> LeadRow] /\ owned' \in SUBSET Leads
    BY <1>2, <2>0, <2>2, WriteLeadType DEF Claim
  <2>4. session' \in [Sessions -> SessionRow]
    BY <1>0, <1>2, <1>p, SessionInType, SessionFields DEF Claim, Then, TypeOK
  <2> QED
    BY <1>0, <1>2, <2>0, <2>3, <2>4, TransferType, HoldType DEF Claim, TypeOK, fixed
<1>3. CASE Relabel(h)
  <2>0. l \in Leads /\ lead[l] \in LeadRow
    BY <1>3, <1>l DEF Relabel
  <2>1. PICK i \in OwnNumber(lead[l], s.user) :
          WriteLead(l, [lead[l] EXCEPT !.number = i])
    BY <1>3 DEF Relabel
  <2>2. [lead[l] EXCEPT !.number = i] \in LeadRow
    BY <2>0, <2>1, OwnNumberType, LeadFields
  <2>3. lead' \in [Leads -> LeadRow] /\ owned' \in SUBSET Leads
    BY <2>0, <2>1, <2>2, WriteLeadType
  <2> QED
    BY <1>3, <2>3, LeaveType DEF Relabel, TypeOK, fixed
<1>4. CASE Reassign(h)
  BY <1>0, <1>4, <1>l, <1>r, GiveToType DEF Reassign, Commits
<1>5. CASE SectorPick(h)
  <2>1. PICK chosen \in Owners :
          /\ RoundRobin(chosen)
          /\ session' = [session EXCEPT ![h].pc = "commit", ![h].target = chosen]
    BY <1>5 DEF SectorPick
  <2>2. session' \in [Sessions -> SessionRow]
    BY <1>0, <1>p, <2>1, SessionFields DEF TypeOK
  <2>3. cursor' \in Nat /\ turns' \in [Users -> Nat]
    BY <2>1, RoundRobinType
  <2> QED
    BY <1>5, <2>2, <2>3 DEF SectorPick, TypeOK, fixed
<1>6. CASE MoveToSector(h)
  BY <1>0, <1>6, <1>l, GiveToType, GiveBackType DEF MoveToSector, Commits
<1>7. CASE ReturnToPool(h)
  BY <1>0, <1>7, <1>l, <1>r, GiveBackType DEF ReturnToPool, Commits
<1>8. CASE BulkAssign(h)
  <2>1. s.pc # "idle"
    BY <1>8 DEF BulkAssign, WriteOwner, Commits
  <2> QED BY <1>0, <1>8, <1>l, <1>r, <2>1, WriteOwnerType DEF BulkAssign
<1>9. CASE SaveForm(h)
  <2>1. s.pc # "idle"
    BY <1>9 DEF SaveForm, WriteOwner, Commits
  <2> QED BY <1>0, <1>9, <1>l, <2>1, WriteOwnerType DEF SaveForm
<1>10. CASE MoveStage(h)
  <2>0. l \in Leads /\ lead[l] \in LeadRow /\ lead[l].board \in Owners
    BY <1>10, <1>l DEF MoveStage, Commits
  <2>1. [lead[l] EXCEPT !.board = IF Exists(s.owner) THEN BoardOf(s.owner)
                                  ELSE lead[l].board] \in LeadRow
    BY <1>0, <2>0, LeadFields DEF BoardOf
  <2>2. lead' \in [Leads -> LeadRow] /\ owned' \in SUBSET Leads
    BY <1>10, <2>0, <2>1, WriteLeadType DEF MoveStage
  <2>3. entered' \in [Leads -> Owners \cup {"none", "queued"}]
    BY <1>10 DEF MoveStage, TypeOK
  <2> QED
    BY <1>10, <2>2, <2>3, LeaveType DEF MoveStage, TypeOK, fixed
<1>11. CASE Abort(h)
  BY <1>11, LeaveType DEF Abort, TypeOK, fixed, business
<1> QED
  BY <1>1, <1>2, <1>3, <1>4, <1>5, <1>6, <1>7, <1>8, <1>9, <1>10, <1>11 DEF PersonStep

LEMMA SetOwnerType ==
  ASSUME TypeOK, NEW i \in Numbers, NEW u \in Users, NEW transfer \in BOOLEAN,
         SetOwner(i, u, transfer)
  PROVE  TypeOK'
<1>1. number' \in [Numbers -> [owner : Owners, direct : BOOLEAN]]
  BY DEF SetOwner, TypeOK, Owners
<1>2. /\ lead' \in [Leads -> LeadRow] /\ owned' \in SUBSET Leads
      /\ conversation' \in [Leads -> [Numbers -> ThreadRow]] /\ held' \in [Leads -> Owners]
  <2> DEFINE mine(o) == o \in {Nobody, number[i].owner}
             moved == {l \in Leads : lead[l].exists /\ lead[l].number = i
                                     /\ mine(lead[l].owner)}
  <2>1. CASE ~(transfer /\ moved # {})
    BY <2>1 DEF SetOwner, TypeOK
  <2>2. CASE transfer /\ moved # {}
    <3>1. \A l \in Leads : /\ lead[l] \in LeadRow
                           /\ [Given(lead[l], u) EXCEPT !.board = BoardOf(u)] \in LeadRow
      BY GivenType, LeadFields DEF TypeOK, BoardOf, Owners
    <3>2. lead' \in [Leads -> LeadRow]
      <4>1. lead' = [l \in Leads |-> IF l \notin moved THEN lead[l]
                                     ELSE [Given(lead[l], u) EXCEPT !.board = BoardOf(u)]]
        BY <2>2 DEF SetOwner
      <4> HIDE DEF moved
      <4> QED BY <3>1, <4>1
    <3>3. \A l \in Leads, k \in Numbers : /\ conversation[l][k] \in ThreadRow
                                         /\ [conversation[l][k] EXCEPT !.owner = u] \in ThreadRow
      BY ThreadFields DEF TypeOK, Owners
    <3>4. conversation' \in [Leads -> [Numbers -> ThreadRow]]
      <4>1. conversation' = [l \in Leads |-> [conversation[l] EXCEPT ![i] =
                               IF @.exists /\ mine(@.owner) THEN [@ EXCEPT !.owner = u] ELSE @]]
        BY <2>2 DEF SetOwner
      <4> HIDE DEF mine
      <4> QED BY <3>3, <4>1 DEF TypeOK
    <3>5. owned' \in SUBSET Leads /\ held' \in [Leads -> Owners]
      BY <2>2 DEF SetOwner, TypeOK, Owners
    <3> QED BY <3>2, <3>4, <3>5
  <2> QED BY <2>1, <2>2
<1> QED
  BY <1>1, <1>2 DEF SetOwner, TypeOK, fixed

LEMMA DeleteMemberType ==
  ASSUME TypeOK, NEW u \in Users, DeleteMember(u) PROVE TypeOK'
<1> DEFINE row(l) == [lead[l] EXCEPT !.board = IF @ = u THEN Nobody ELSE @]
<1>1. \A l \in Leads : row(l) \in LeadRow /\ Returned(row(l)) \in LeadRow
  BY LeadFields, GivenType DEF TypeOK, Owners
<1>2. lead' \in [Leads -> LeadRow]
  BY <1>1 DEF DeleteMember
<1>0. Nobody \in Owners
  BY DEF Owners
<1>3. \A l \in Leads, k \in Numbers : /\ conversation[l][k] \in ThreadRow
                                     /\ [conversation[l][k] EXCEPT !.owner = Nobody] \in ThreadRow
  BY <1>0, ThreadFields DEF TypeOK
<1>4. conversation' \in [Leads -> [Numbers -> ThreadRow]]
  BY <1>3 DEF DeleteMember
<1>5. /\ held' \in [Leads -> Owners] /\ turns' \in [Users -> Nat]
      /\ staff' \in [Users -> {"active", "inactive", "gone"}]
  BY DEF DeleteMember, TypeOK, Owners
<1>6. /\ operations' = operations + 1
      /\ UNCHANGED <<tenant, message, number, cursor, job, saved, session, entered, now, owned>>
  BY DEF DeleteMember, fixed
<1> QED
  BY <1>2, <1>4, <1>5, <1>6 DEF TypeOK

LEMMA TeamAndAutomationType ==
  ASSUME TypeOK,
         \/ \E u \in Users : DeleteMember(u) \/ SetActive(u)
         \/ \E l \in Leads : ReadEntered(l) \/ AssignEntered(l) \/ SkipEntered(l)
  PROVE  TypeOK'
<1>1. ASSUME NEW u \in Users, DeleteMember(u) PROVE TypeOK'
  BY <1>1, DeleteMemberType
<1>2. ASSUME NEW u \in Users, SetActive(u) PROVE TypeOK'
  BY <1>2 DEF SetActive, TypeOK, fixed
<1>3. ASSUME NEW l \in Leads, ReadEntered(l) PROVE TypeOK'
  <2>1. lead[l].board \in Owners
    BY LeadFields DEF TypeOK
  <2>2. entered' \in [Leads -> Owners \cup {"none", "queued"}]
    BY <1>3, <2>1 DEF ReadEntered, TypeOK
  <2> QED BY <1>3, <2>2 DEF ReadEntered, TypeOK, fixed, business
<1>4. ASSUME NEW l \in Leads, AssignEntered(l) PROVE TypeOK'
  <2>1. PICK u \in Team :
          WriteLead(l, [Given(lead[l], u) EXCEPT !.board = Remap(lead[l], entered[l], u)])
    BY <1>4 DEF AssignEntered
  <2>2. u \in Owners /\ lead[l] \in LeadRow /\ entered[l] \in Owners
    BY <1>4, <2>1 DEF AssignEntered, Team, Owners, TypeOK
  <2>3. [Given(lead[l], u) EXCEPT !.board = Remap(lead[l], entered[l], u)] \in LeadRow
    BY <2>2, GivenType, RemapType, LeadFields
  <2>4. lead' \in [Leads -> LeadRow] /\ owned' \in SUBSET Leads
    BY <2>1, <2>3, WriteLeadType
  <2>5. entered' \in [Leads -> Owners \cup {"none", "queued"}]
    BY <1>4 DEF AssignEntered, TypeOK
  <2>6. held' \in [Leads -> Owners]
    BY <1>4, HoldType DEF AssignEntered, Owners
  <2> QED BY <1>4, <2>4, <2>5, <2>6 DEF AssignEntered, TypeOK, fixed
<1>5. ASSUME NEW l \in Leads, SkipEntered(l) PROVE TypeOK'
  BY <1>5 DEF SkipEntered, TypeOK, fixed, business
<1> QED BY <1>1, <1>2, <1>3, <1>4, <1>5

--------------------------------------------------------------------------------
(* A lead that was given back is in the cloud.  The rows a step writes are    *)
(* right one by one; a lead, once there, is never removed.                    *)

OwnedOK == \A l \in owned : lead[l].exists

EnteredOK == \A l \in Leads : entered[l] # "none" => lead[l].exists

LeadInv == TypeOK /\ SessionsOK /\ JobsOK /\ EnteredOK /\ OwnedOK /\ CloudHoldsTheReturned

\* What a write must bring to the row of lead l.
Right(l, row) ==
    /\ row.exists
    /\ row.owner # Nobody => ~row.cloud
    /\ row.owner = Nobody => ~row.private
    /\ row.owner = Nobody /\ l \in owned => row.cloud

Remains == \A l \in Leads : lead[l].exists => lead'[l].exists

LeadsStep == CloudHoldsTheReturned' /\ OwnedOK' /\ Remains

LEMMA LeadFacts ==
  ASSUME NEW r \in LeadRow
  PROVE  /\ \A o \in Owners : /\ Given(r, o).owner = o /\ ~Given(r, o).cloud
                              /\ Given(r, o).exists = r.exists
                              /\ Given(r, o).private = r.private
         /\ Returned(r).owner = Nobody /\ Returned(r).cloud /\ ~Returned(r).private
         /\ Returned(r).exists = r.exists
         /\ \A i : /\ [r EXCEPT !.number = i].owner = r.owner
                   /\ [r EXCEPT !.number = i].cloud = r.cloud
                   /\ [r EXCEPT !.number = i].private = r.private
                   /\ [r EXCEPT !.number = i].exists = r.exists
         /\ \A b : /\ [r EXCEPT !.board = b].owner = r.owner
                   /\ [r EXCEPT !.board = b].cloud = r.cloud
                   /\ [r EXCEPT !.board = b].private = r.private
                   /\ [r EXCEPT !.board = b].exists = r.exists
         /\ \A p : /\ [r EXCEPT !.private = p].owner = r.owner
                   /\ [r EXCEPT !.private = p].cloud = r.cloud
                   /\ [r EXCEPT !.private = p].private = p
                   /\ [r EXCEPT !.private = p].exists = r.exists
  BY DEF LeadRow, Given, Returned

LEMMA SameLeads ==
  ASSUME CloudHoldsTheReturned, OwnedOK, UNCHANGED <<lead, owned>> PROVE LeadsStep
  BY DEF LeadsStep, CloudHoldsTheReturned, OwnedOK, Remains

LEMMA RightWrite ==
  ASSUME TypeOK, CloudHoldsTheReturned, OwnedOK, NEW l \in Leads, NEW row, Right(l, row),
         WriteLead(l, row)
  PROVE  LeadsStep
<1>1. /\ lead'[l] = row /\ \A m \in Leads \ {l} : lead'[m] = lead[m]
      /\ owned' \subseteq owned \cup {l} /\ owned \subseteq owned'
      /\ row.owner = Nobody => owned' = owned
  BY DEF WriteLead, TypeOK
<1>2. CloudHoldsTheReturned'
  BY <1>1 DEF CloudHoldsTheReturned, Right
<1>3. OwnedOK'
  BY <1>1 DEF OwnedOK, Right, TypeOK
<1>4. Remains
  BY <1>1 DEF Remains, Right
<1> QED BY <1>2, <1>3, <1>4 DEF LeadsStep

\* An owner leaves the row out of the cloud; a row that keeps its owner stays right.
LEMMA RightRows ==
  ASSUME TypeOK, CloudHoldsTheReturned, NEW l \in Leads, lead[l].exists
  PROVE  /\ \A u \in Users : \A i, b :
               /\ Right(l, Given(lead[l], u))
               /\ Right(l, [Given(lead[l], u) EXCEPT !.board = b])
               /\ Right(l, [Given(lead[l], u) EXCEPT !.number = i])
               /\ Right(l, [Given(lead[l], u) EXCEPT !.number = i, !.board = b])
         /\ \A i, b : /\ Right(l, [Returned(lead[l]) EXCEPT !.number = i])
                      /\ Right(l, [Returned(lead[l]) EXCEPT !.board = b])
         /\ Right(l, lead[l])
         /\ \A i : Right(l, [lead[l] EXCEPT !.number = i])
         /\ \A b : Right(l, [lead[l] EXCEPT !.board = b])
<1>1. lead[l] \in LeadRow
  BY DEF TypeOK
<1>2. Right(l, lead[l])
  BY DEF CloudHoldsTheReturned, Right
<1>3. \A i : Right(l, [lead[l] EXCEPT !.number = i])
  BY <1>1, <1>2, LeadFacts DEF Right
<1>4. \A b : Right(l, [lead[l] EXCEPT !.board = b])
  BY <1>1, <1>2, LeadFacts DEF Right
<1>5. ASSUME NEW i, NEW b
      PROVE  /\ Right(l, [Returned(lead[l]) EXCEPT !.number = i])
             /\ Right(l, [Returned(lead[l]) EXCEPT !.board = b])
  BY <1>1 DEF Right, Returned, LeadRow
<1>6. ASSUME NEW u \in Users, NEW i, NEW b
      PROVE  /\ Right(l, Given(lead[l], u))
             /\ Right(l, [Given(lead[l], u) EXCEPT !.board = b])
             /\ Right(l, [Given(lead[l], u) EXCEPT !.number = i])
             /\ Right(l, [Given(lead[l], u) EXCEPT !.number = i, !.board = b])
  BY <1>1, UsersAssumption DEF Right, Given, LeadRow
<1> QED BY <1>2, <1>3, <1>4, <1>5, <1>6

LEMMA WorkerLeads ==
  ASSUME LeadInv, NEW j \in Jobs, WorkerStep(j) PROVE LeadsStep
<1> USE DEF LeadInv
<1> DEFINE l == message[j].lead
<1>0. /\ l \in Leads /\ lead[l] \in LeadRow /\ job[j] \in JobRow
      /\ \A o \in Owners : o # Nobody => o \in Users
  BY JobInType DEF Owners
<1>s. ASSUME UNCHANGED <<lead, owned>> PROVE LeadsStep
  BY <1>s, SameLeads
<1>e. job[j].pc \in {"place", "grant", "mirror"} => lead[l].exists
  BY DEF JobsOK
<1>1. CASE UpsertLead(j)
  <2> DEFINE row == IF lead[l].exists THEN lead[l] ELSE NewLead(j)
  <2>1. CASE lead[l].exists
    BY <1>0, <1>1, <2>1, RightRows, RightWrite DEF UpsertLead
  <2>2. CASE ~lead[l].exists
    <3>1. l \notin owned
      BY <2>2 DEF OwnedOK
    <3>2. Right(l, NewLead(j))
      BY <3>1 DEF Right, NewLead, NoLead
    <3> QED BY <1>0, <1>1, <2>2, <3>2, RightWrite DEF UpsertLead
  <2> QED BY <2>1, <2>2
<1>2. CASE AutoAssign(j)
  <2>1. job[j].rule \in Users
    BY <1>0, <1>2, JobFields DEF AutoAssign
  <2>2. lead[l].exists
    BY <1>2, <1>e DEF AutoAssign, At
  <2> QED BY <1>0, <1>2, <2>1, <2>2, RightRows, RightWrite DEF AutoAssign
<1>3. CASE FixColumn(j)
  <2>1. lead[l].exists
    BY <1>3, <1>e DEF FixColumn, At
  <2>2. \/ WriteLead(l, [lead[l] EXCEPT !.board = BoardOf(job[j].owner)])
        \/ UNCHANGED <<lead, owned>>
    BY <1>3 DEF FixColumn
  <2> QED BY <1>0, <1>s, <2>1, <2>2, RightRows, RightWrite
<1>4. CASE Grant(j)
  <2>1. lead[l].exists /\ job[j].pick \in Users
    BY <1>4, <1>e DEF Grant, At, JobsOK
  <2>2. \/ WriteLead(l, [Given(lead[l], job[j].pick) EXCEPT !.number = message[j].number,
                           !.board = Remap(lead[l], job[j].board, job[j].pick)])
        \/ UNCHANGED <<lead, owned>>
    BY <1>4 DEF Grant
  <2> QED BY <1>0, <1>s, <2>1, <2>2, RightRows, RightWrite
<1>5. CASE Mirror(j)
  <2>1. lead[l].exists
    BY <1>5, <1>e DEF Mirror, At
  <2>2. CASE job[j].pick = Nobody
    BY <1>0, <1>5, <2>1, <2>2, RightRows, RightWrite DEF Mirror
  <2>3. CASE job[j].pick # Nobody
    <3>1. job[j].pick \in Users
      BY <1>0, <2>3, JobFields
    <3> QED BY <1>0, <1>5, <2>1, <2>3, <3>1, RightRows, RightWrite DEF Mirror
  <2> QED BY <2>2, <2>3
<1> QED
  BY <1>s, <1>1, <1>2, <1>3, <1>4, <1>5
  DEF WorkerStep, Start, PickAgent, ResolveConversation, Touch, Save, SyncRead, Fail, business

LEMMA PersonLeads ==
  ASSUME LeadInv, NEW h \in Sessions, PersonStep(h) PROVE LeadsStep
<1> USE DEF LeadInv
<1> DEFINE s == session[h]
           l == s.lead
<1>0. s \in SessionRow /\ s.target \in Owners /\ \A o \in Owners : o # Nobody => o \in Users
  BY SessionInType, SessionFields DEF Owners
<1>l. s.pc # "idle" => l \in Leads /\ lead[l].exists /\ s.user \in Users /\ lead[l] \in LeadRow
  BY SessionInType DEF SessionsOK
<1>s. ASSUME UNCHANGED <<lead, owned>> PROVE LeadsStep
  BY <1>s, SameLeads
<1>g. ASSUME NEW o \in Users, NEW b, GiveTo(h, o, b), s.pc # "idle" PROVE LeadsStep
  <2>1. PICK i : WriteLead(l, [Given(lead[l], o) EXCEPT !.private = FALSE, !.number = i,
                                                        !.board = b])
    BY <1>g DEF GiveTo
  <2>2. Right(l, [Given(lead[l], o) EXCEPT !.private = FALSE, !.number = i, !.board = b])
    BY <1>g, <1>l, UsersAssumption DEF Right, Given, LeadRow
  <2> QED BY <1>g, <1>l, <2>1, <2>2, RightWrite
<1>b. ASSUME NEW b, GiveBack(h, b), s.pc # "idle" PROVE LeadsStep
  <2>1. WriteLead(l, [Returned(lead[l]) EXCEPT !.board = b])
    BY <1>b DEF GiveBack
  <2> QED BY <1>b, <1>l, <2>1, RightRows, RightWrite
<1>w. ASSUME NEW op \in {"bulk", "form"}, NEW b, WriteOwner(h, op, b) PROVE LeadsStep
  <2>1. s.pc # "idle" /\ s.target \in Users
    BY <1>w DEF WriteOwner, Commits, SessionsOK
  <2>2. WriteLead(l, [Given(lead[l], s.target) EXCEPT !.board = b])
    BY <1>w DEF WriteOwner
  <2> QED BY <1>l, <2>1, <2>2, RightRows, RightWrite
<1>1. CASE Claim(h)
  <2>1. WriteLead(l, [Given(lead[l], s.user) EXCEPT !.private = s.user \in Managers,
                        !.board = Remap(lead[l], s.board, s.user)])
    BY <1>1 DEF Claim
  <2>2. l \in Leads /\ lead[l].exists /\ s.user \in Users /\ lead[l] \in LeadRow
    BY <1>1, <1>l DEF Claim, Commits
  <2>3. Right(l, [Given(lead[l], s.user) EXCEPT !.private = s.user \in Managers,
                    !.board = Remap(lead[l], s.board, s.user)])
    BY <2>2, UsersAssumption DEF Right, Given, LeadRow
  <2> QED BY <2>1, <2>2, <2>3, RightWrite
<1>2. CASE Relabel(h)
  <2>1. PICK i : WriteLead(l, [lead[l] EXCEPT !.number = i])
    BY <1>2 DEF Relabel
  <2>2. l \in Leads /\ lead[l].exists
    BY <1>2, <1>l DEF Relabel
  <2> QED BY <2>1, <2>2, RightRows, RightWrite
<1>3. CASE Reassign(h)
  <2>1. s.pc # "idle" /\ s.target \in Users
    BY <1>3 DEF Reassign, Commits, SessionsOK
  <2> QED BY <1>3, <1>g, <2>1 DEF Reassign
<1>4. CASE MoveToSector(h)
  <2>1. s.pc # "idle"
    BY <1>4 DEF MoveToSector, Commits
  <2> QED BY <1>0, <1>4, <1>g, <1>b, <2>1 DEF MoveToSector
<1>5. CASE ReturnToPool(h)
  BY <1>5, <1>b DEF ReturnToPool, Commits
<1>6. CASE BulkAssign(h)
  BY <1>6, <1>w DEF BulkAssign
<1>7. CASE SaveForm(h)
  BY <1>7, <1>w DEF SaveForm
<1>8. CASE MoveStage(h)
  <2>1. l \in Leads /\ lead[l].exists
    BY <1>8, <1>l DEF MoveStage, Commits
  <2>2. PICK b : WriteLead(l, [lead[l] EXCEPT !.board = b])
    BY <1>8 DEF MoveStage
  <2> QED BY <2>1, <2>2, RightRows, RightWrite
<1> QED
  BY <1>s, <1>1, <1>2, <1>3, <1>4, <1>5, <1>6, <1>7, <1>8
  DEF PersonStep, Open, SectorPick, Abort, business

LEMMA CompanyLeads ==
  ASSUME LeadInv,
         \/ \E i \in Numbers, u \in Users, transfer \in BOOLEAN : SetOwner(i, u, transfer)
         \/ \E u \in Users : DeleteMember(u) \/ SetActive(u)
         \/ \E l \in Leads : ReadEntered(l) \/ AssignEntered(l) \/ SkipEntered(l)
  PROVE  LeadsStep
<1> USE DEF LeadInv
<1>1. ASSUME NEW i \in Numbers, NEW u \in Users, NEW transfer \in BOOLEAN,
             SetOwner(i, u, transfer)
      PROVE  LeadsStep
  <2> DEFINE moved == {l \in Leads : lead[l].exists /\ lead[l].number = i
                                     /\ lead[l].owner \in {Nobody, number[i].owner}}
  <2>1. CASE transfer /\ moved # {}
    <3>1. /\ lead' = [l \in Leads |-> IF l \notin moved THEN lead[l]
                        ELSE [Given(lead[l], u) EXCEPT !.board = BoardOf(u)]]
          /\ owned' = owned \cup moved
      BY <1>1, <2>1 DEF SetOwner
    <3>2. \A l \in moved : /\ lead'[l].owner = u /\ ~lead'[l].cloud /\ lead'[l].exists
      BY <3>1 DEF Given, TypeOK, LeadRow
    <3>3. \A l \in Leads \ moved : lead'[l] = lead[l] /\ (l \in owned' => l \in owned)
      BY <3>1
    <3>4. moved \subseteq Leads
      OBVIOUS
    <3> HIDE DEF moved
    <3>5. CloudHoldsTheReturned'
      BY <3>2, <3>3, UsersAssumption DEF CloudHoldsTheReturned
    <3>6. OwnedOK' /\ Remains
      BY <3>1, <3>2, <3>3, <3>4 DEF OwnedOK, Remains, TypeOK
    <3> QED BY <3>5, <3>6 DEF LeadsStep
  <2>2. CASE ~(transfer /\ moved # {})
    BY <1>1, <2>2, SameLeads DEF SetOwner
  <2> QED BY <2>1, <2>2
<1>2. ASSUME NEW u \in Users, DeleteMember(u) PROVE LeadsStep
  <2>1. \A l \in Leads : /\ lead'[l].exists = lead[l].exists
                         /\ \/ /\ lead'[l].owner = Nobody
                               /\ lead'[l].cloud /\ ~lead'[l].private
                            \/ /\ lead'[l].owner = lead[l].owner
                               /\ lead'[l].cloud = lead[l].cloud
                               /\ lead'[l].private = lead[l].private
    <3> TAKE l \in Leads
    <3> DEFINE row == [lead[l] EXCEPT !.board = IF @ = u THEN Nobody ELSE @]
    <3>1. lead'[l] = IF row.owner = u THEN Returned(row) ELSE row
      BY <1>2 DEF DeleteMember
    <3>2. lead[l] \in LeadRow /\ row \in LeadRow
      BY LeadFields DEF TypeOK, Owners
    <3>3. /\ row.exists = lead[l].exists /\ row.owner = lead[l].owner
          /\ row.cloud = lead[l].cloud /\ row.private = lead[l].private
      BY <3>2, LeadFacts
    <3> HIDE DEF row
    <3> QED BY <3>1, <3>2, <3>3, LeadFacts
  <2>2. owned' = owned /\ owned \subseteq Leads
    BY <1>2 DEF DeleteMember, TypeOK
  <2>3. CloudHoldsTheReturned'
    BY <2>1, <2>2 DEF CloudHoldsTheReturned
  <2> QED BY <2>1, <2>2, <2>3 DEF LeadsStep, OwnedOK, Remains
<1>3. ASSUME NEW l \in Leads, AssignEntered(l) PROVE LeadsStep
  <2>1. PICK u \in Team :
          WriteLead(l, [Given(lead[l], u) EXCEPT !.board = Remap(lead[l], entered[l], u)])
    BY <1>3 DEF AssignEntered
  <2>2. u \in Users
    BY DEF Team
  <2>3. CASE entered[l] # "none"
    BY <2>1, <2>2, <2>3, RightRows, RightWrite DEF EnteredOK
  <2>4. CASE entered[l] = "none"
    BY <1>3, <2>4, UsersAssumption DEF AssignEntered
  <2> QED BY <2>3, <2>4
<1>4. ASSUME UNCHANGED <<lead, owned>> PROVE LeadsStep
  BY <1>4, SameLeads
<1> QED BY <1>1, <1>2, <1>3, <1>4 DEF SetActive, ReadEntered, SkipEntered, business

LEMMA LeadsNext ==
  ASSUME LeadInv, [Next]_vars PROVE LeadsStep
<1>1. CASE UNCHANGED <<lead, owned>>
  BY <1>1, SameLeads DEF LeadInv
<1> QED
  BY <1>1, WorkerLeads, PersonLeads, CompanyLeads DEF Next, Quiet, vars

LEMMA JobsStep ==
  ASSUME LeadInv, Remains, [Next]_vars PROVE JobsOK'
<1> USE DEF LeadInv
<1>1. CASE UNCHANGED <<message, job>>
  <2>1. \A j \in Jobs : message[j].lead \in Leads
    BY JobInType
  <2> QED BY <1>1, <2>1 DEF JobsOK, Remains
<1>2. ASSUME NEW j \in Jobs, WorkerStep(j) PROVE JobsOK'
  <2> DEFINE l == message[j].lead
  <2>0. /\ \A k \in Jobs : message[k].lead \in Leads
        /\ job[j] \in JobRow /\ job \in [Jobs -> JobRow] /\ lead \in [Leads -> LeadRow]
        /\ \A o \in Owners : o # Nobody => o \in Users
    BY JobInType DEF TypeOK, Owners
  <2>1. message' = message /\ \A k \in Jobs \ {j} : job'[k] = job[k]
    BY <1>2, <2>0 DEF WorkerStep, Start, UpsertLead, AutoAssign, FixColumn, PickAgent, Grant,
       ResolveConversation, Touch, Save, SyncRead, Mirror, Fail, Goto, Finish, fixed, business
  <2>2. /\ job'[j].pc \notin {"queued", "upsert", "done"} => lead'[l].exists
        /\ job'[j].pc = "grant" => job'[j].pick \in Users
    <3>0. lead[l].exists => lead'[l].exists
      BY <2>0 DEF Remains
    <3>1. job[j].pc \notin {"queued", "upsert", "done"} => lead'[l].exists
      BY <3>0 DEF JobsOK
    <3>2. CASE Start(j)
      <4>1. CASE j \in saved
        BY <2>0, <3>2, <4>1 DEF Start, Finish, IdleJob
      <4>3. CASE j \notin saved
        <5>1. PICK o, b : job' = [job EXCEPT ![j] =
                 [job[j] EXCEPT !.pc = "upsert", !.at = now + 1, !.rule = o, !.wants = b]]
          BY <3>2, <4>3 DEF Start
        <5>2. job'[j].pc = "upsert"
          BY <2>0, <5>1 DEF JobRow
        <5> QED BY <5>2
      <4> QED BY <4>1, <4>3
    <3>3. CASE UpsertLead(j)
      <4>1. lead'[l].exists
        BY <2>0, <3>0, <3>3 DEF UpsertLead, WriteLead, NewLead, NoLead
      <4>2. job'[j].pc = "place"
        BY <2>0, <3>3 DEF UpsertLead, JobRow
      <4> QED BY <4>1, <4>2
    <3>4. CASE PickAgent(j)
      <4>1. job[j].pc = "pick"
        BY <3>4 DEF PickAgent, At
      <4>2. PICK chosen \in Owners :
              job' = [job EXCEPT ![j].pc = IF chosen = Nobody THEN "resolve" ELSE "grant",
                                 ![j].pick = chosen]
        BY <3>4 DEF PickAgent
      <4>3. job'[j].pc = "grant" => chosen # Nobody /\ job'[j].pick = chosen
        BY <2>0, <4>2 DEF JobRow
      <4> QED BY <2>0, <3>1, <4>1, <4>3
    <3>5. CASE Fail(j)
      BY <2>0, <3>5 DEF Fail, Finish, IdleJob, JobRow
    <3>6. CASE AutoAssign(j) \/ FixColumn(j) \/ Grant(j) \/ ResolveConversation(j) \/ Touch(j)
               \/ Save(j) \/ SyncRead(j) \/ Mirror(j)
      <4>1. job[j].pc \notin {"queued", "upsert", "done"}
        BY <3>6 DEF AutoAssign, FixColumn, Grant, ResolveConversation, Touch, Save, SyncRead,
           Mirror, At
      <4>2. job'[j].pc # "grant"
        <5>1. CASE AutoAssign(j) \/ ResolveConversation(j) \/ SyncRead(j)
          <6>1. CASE AutoAssign(j)
            <7>1. PICK a, b, c : job' = [job EXCEPT ![j].pc = "resolve", ![j].owner = a,
                                              ![j].number = b, ![j].board = c]
              BY <6>1 DEF AutoAssign
            <7>2. job'[j].pc = "resolve"
              BY <2>0, <7>1 DEF JobRow
            <7> QED BY <7>2
          <6>2. CASE ResolveConversation(j)
            <7>1. PICK a, t :
                    job' = [job EXCEPT ![j].pc = IF t THEN "touch" ELSE "save", ![j].pick = a]
              BY <6>2 DEF ResolveConversation
            <7>2. job'[j].pc \in {"touch", "save"}
              BY <2>0, <7>1 DEF JobRow
            <7> QED BY <7>2
          <6>3. CASE SyncRead(j)
            <7>1. PICK a, b : job' = [job EXCEPT ![j].pc = "mirror", ![j].number = a,
                                                 ![j].pick = b]
              BY <6>3 DEF SyncRead
            <7>2. job'[j].pc = "mirror"
              BY <2>0, <7>1 DEF JobRow
            <7> QED BY <7>2
          <6> QED BY <5>1, <6>1, <6>2, <6>3
        <5>2. CASE FixColumn(j) \/ Touch(j)
          BY <2>0, <5>2 DEF FixColumn, Touch, Goto, AfterPlace, JobRow
        <5>3. CASE Grant(j)
          BY <2>0, <5>3 DEF Grant, JobRow
        <5>4. CASE Save(j) \/ Mirror(j)
          BY <2>0, <5>4 DEF Save, Mirror, Finish, IdleJob
        <5> QED BY <3>6, <5>1, <5>2, <5>3, <5>4
      <4> QED BY <3>1, <4>1, <4>2
    <3>7. \/ Start(j) \/ UpsertLead(j) \/ PickAgent(j) \/ Fail(j)
          \/ AutoAssign(j) \/ FixColumn(j) \/ Grant(j) \/ ResolveConversation(j) \/ Touch(j)
          \/ Save(j) \/ SyncRead(j) \/ Mirror(j)
      BY <1>2 DEF WorkerStep
    <3> QED BY <3>2, <3>3, <3>4, <3>5, <3>6, <3>7
  <2> QED BY <2>0, <2>1, <2>2 DEF JobsOK, Remains
<1> QED
  BY <1>1, <1>2 DEF Next, PersonStep, Open, Claim, Relabel, Reassign, GiveTo, SectorPick,
     MoveToSector, GiveBack, ReturnToPool, BulkAssign, SaveForm, WriteOwner, MoveStage, Abort,
     SetOwner, DeleteMember, SetActive, ReadEntered, AssignEntered, SkipEntered, Quiet,
     fixed, business, vars

LEMMA EnteredStep ==
  ASSUME LeadInv, Remains, [Next]_vars PROVE EnteredOK'
<1> USE DEF LeadInv
<1>1. CASE UNCHANGED entered
  BY <1>1 DEF EnteredOK, Remains
<1>2. ASSUME NEW h \in Sessions, MoveStage(h) PROVE EnteredOK'
  <2>1. session[h].lead \in Leads /\ lead[session[h].lead].exists
    BY <1>2 DEF MoveStage, Commits, SessionsOK
  <2>2. entered' = [entered EXCEPT ![session[h].lead] = IF Automated THEN "queued" ELSE @]
    BY <1>2 DEF MoveStage
  <2> QED BY <2>1, <2>2 DEF EnteredOK, Remains, TypeOK
<1>3. ASSUME NEW l \in Leads, ReadEntered(l) \/ AssignEntered(l) \/ SkipEntered(l)
      PROVE  EnteredOK'
  <2>1. entered[l] # "none"
    BY <1>3, UsersAssumption DEF ReadEntered, AssignEntered, SkipEntered
  <2>2. \A m \in Leads \ {l} : entered'[m] = entered[m]
    BY <1>3 DEF ReadEntered, AssignEntered, SkipEntered, TypeOK
  <2> QED BY <2>1, <2>2 DEF EnteredOK, Remains
<1> QED
  BY <1>1, <1>2, <1>3 DEF Next, WorkerStep, Start, UpsertLead, AutoAssign, FixColumn, PickAgent,
     Grant, ResolveConversation, Touch, Save, SyncRead, Mirror, Fail, PersonStep, Open, Claim,
     Relabel, Reassign, GiveTo, SectorPick, MoveToSector, GiveBack, ReturnToPool, BulkAssign,
     SaveForm, WriteOwner, Abort, SetOwner, DeleteMember, SetActive, Quiet, vars

LEMMA SessionsStep ==
  ASSUME LeadInv, Remains, [Next]_vars PROVE SessionsOK'
<1> USE DEF LeadInv
<1>1. CASE UNCHANGED session
  BY <1>1 DEF SessionsOK, Remains
<1>2. ASSUME NEW h \in Sessions, Leave(h) PROVE SessionsOK'
  BY <1>2 DEF Leave, IdleSession, SessionsOK, Remains, TypeOK
<1>3. ASSUME NEW h \in Sessions, Open(h) PROVE SessionsOK'
  <2>1. PICK op \in Operations, u \in Team, k \in Leads :
          /\ lead[k].exists
          /\ \E t \in Targets(op, u) : session' = [session EXCEPT ![h] =
               [pc |-> IF op = "sector" THEN "pick" ELSE "commit", op |-> op, user |-> u,
                lead |-> k, target |-> t, owner |-> lead[k].owner, board |-> lead[k].board]]
    BY <1>3 DEF Open
  <2>2. PICK t \in Targets(op, u) : session' = [session EXCEPT ![h] =
               [pc |-> IF op = "sector" THEN "pick" ELSE "commit", op |-> op, user |-> u,
                lead |-> k, target |-> t, owner |-> lead[k].owner, board |-> lead[k].board]]
    BY <2>1
  <2>3. u \in Users /\ (op \in {"reassign", "bulk", "form"} => t \in Users)
    BY DEF Team, Targets
  <2> QED BY <2>1, <2>2, <2>3 DEF SessionsOK, Remains, TypeOK
<1>4. ASSUME NEW h \in Sessions, Claim(h) PROVE SessionsOK'
  <2>1. session[h].pc # "idle" /\ session' = [session EXCEPT ![h].pc = "relabel"]
    BY <1>4 DEF Claim, Commits, Then
  <2> QED BY <2>1, SessionInType DEF SessionsOK, Remains, TypeOK, SessionRow
<1>5. ASSUME NEW h \in Sessions, SectorPick(h) PROVE SessionsOK'
  <2>1. PICK chosen : session' = [session EXCEPT ![h].pc = "commit", ![h].target = chosen]
    BY <1>5 DEF SectorPick
  <2>2. session[h].pc = "pick" /\ session[h].op = "sector"
    BY <1>5 DEF SectorPick, SessionsOK
  <2>3. /\ session'[h].op = session[h].op /\ session'[h].user = session[h].user
        /\ session'[h].lead = session[h].lead /\ session'[h].pc = "commit"
    BY <2>1, SessionInType DEF TypeOK, SessionRow
  <2>4. \A g \in Sessions \ {h} : session'[g] = session[g]
    BY <2>1 DEF TypeOK
  <2> QED BY <2>2, <2>3, <2>4 DEF SessionsOK, Remains
<1> QED
  BY <1>1, <1>2, <1>3, <1>4, <1>5 DEF Next, WorkerStep, Start, UpsertLead, AutoAssign, FixColumn,
     PickAgent, Grant, ResolveConversation, Touch, Save, SyncRead, Mirror, Fail, PersonStep,
     Relabel, Reassign, GiveTo, MoveToSector, GiveBack, ReturnToPool, BulkAssign, SaveForm,
     WriteOwner, MoveStage, Abort, SetOwner, DeleteMember, SetActive, ReadEntered,
     AssignEntered, SkipEntered, Quiet, business, vars

LEMMA LeadInvInductive ==
  /\ Init => LeadInv
  /\ LeadInv /\ [Next]_vars => LeadInv'
<1>1. Init => LeadInv
  <2>1. Init => SessionsOK /\ JobsOK
    BY DEF Init, SessionsOK, JobsOK, IdleJob, IdleSession
  <2>2. Init => EnteredOK /\ OwnedOK
    BY DEF Init, EnteredOK, OwnedOK
  <2>3. Init => CloudHoldsTheReturned
    BY DEF Init, CloudHoldsTheReturned, NoLead
  <2> QED BY <2>1, <2>2, <2>3, InitType DEF LeadInv
<1>2. ASSUME LeadInv, [Next]_vars PROVE LeadInv'
  <2>1. TypeOK'
    <3>1. CASE UNCHANGED vars
      BY <1>2, <3>1 DEF LeadInv, TypeOK, vars
    <3> QED
      BY <1>2, <3>1, WorkerType, PersonType, SetOwnerType, TeamAndAutomationType
      DEF LeadInv, Next, Quiet
  <2>2. LeadsStep
    BY <1>2, LeadsNext
  <2> QED BY <1>2, <2>1, <2>2, JobsStep, EnteredStep, SessionsStep DEF LeadInv, LeadsStep
<1> QED BY <1>1, <1>2

\* Every row, pointer and local of every worker and request keeps its type.
THEOREM TypeCorrect == Spec => []TypeOK
<1>1. LeadInv => TypeOK
  BY DEF LeadInv
<1> QED BY <1>1, LeadInvInductive, PTL DEF Spec

\* Whatever workers, people and automation do to a lead at once, a lead that was
\* given back is in the cloud, and a lead somebody owns is not.
THEOREM CloudCorrect == Spec => []CloudHoldsTheReturned
<1>1. LeadInv => CloudHoldsTheReturned
  BY DEF LeadInv
<1> QED BY <1>1, LeadInvInductive, PTL DEF Spec

--------------------------------------------------------------------------------
(* Turns.  The members who are one turn ahead are those between the place where  *)
(* the round began (s) and the pointer (c), going around the listing.            *)

Ahead(s, c, p) == IF s <= c THEN s <= p /\ p < c ELSE s <= p \/ p < c

InTurn ==
    Team # {} =>
        \E q \in Nat, s \in 0..(Len(Listing[Team]) - 1) :
            \A k \in 1..Len(Listing[Team]) :
                turns[Listing[Team][k]] =
                    q + (IF Ahead(s, cursor % Len(Listing[Team]), k - 1) THEN 1 ELSE 0)

LEMMA Successor ==
  ASSUME NEW a \in Nat, NEW n \in Nat \ {0}
  PROVE  (a + 1) % n = IF a % n = n - 1 THEN 0 ELSE (a % n) + 1
<1> DEFINE q == a \div n
           r == a % n
           p == (a + 1) \div n
           t == (a + 1) % n
<1>1. a = n * q + r /\ q \in Nat /\ r \in 0..(n - 1)
  OBVIOUS
<1>2. a + 1 = n * p + t /\ p \in Nat /\ t \in 0..(n - 1)
  OBVIOUS
<1> HIDE DEF q, r, p, t
<1>3. n * p + t = n * q + r + 1
  BY <1>1, <1>2
<1>4. \A x, y \in Nat : x > y => n * x >= n * y + n
  <2> TAKE x, y \in Nat
  <2> HAVE x > y
  <2>1. PICK z \in Nat : x = y + 1 + z
    <3>1. x - y - 1 \in Nat /\ x = y + 1 + (x - y - 1)
      OBVIOUS
    <3> QED BY <3>1
  <2>2. n * x = n * y + n + n * z
    BY <2>1
  <2>3. n * z >= 0 /\ n * z \in Nat
    BY <2>1
  <2> QED BY <2>2, <2>3
<1>5. n * p \in Nat /\ n * q \in Nat
  BY <1>1, <1>2
<1>6. CASE p = q
  BY <1>1, <1>2, <1>3, <1>5, <1>6 DEF r, t
<1>7. CASE p > q
  <2>1. n * p >= n * q + n
    BY <1>1, <1>2, <1>4, <1>7
  <2>2. r = n - 1 /\ t = 0
    BY <1>1, <1>2, <1>3, <1>5, <2>1
  <2> QED BY <2>2 DEF r, t
<1>8. CASE p < q
  <2>1. n * q >= n * p + n
    BY <1>1, <1>2, <1>4, <1>8
  <2> QED BY <1>1, <1>2, <1>3, <1>5, <2>1
<1> QED BY <1>1, <1>2, <1>6, <1>7, <1>8

LEMMA TurnFair ==
  ASSUME InTurn, turns \in [Users -> Nat] PROVE RoundRobinFair
<1> SUFFICES ASSUME NEW u \in Team, NEW v \in Team PROVE turns[u] <= turns[v] + 1
  BY DEF RoundRobinFair
<1>1. \A x \in Team : \E k \in 1..Len(Listing[Team]) : Listing[Team][k] = x
  BY ListingAssumption DEF Team
<1>2. PICK q \in Nat, s \in 0..(Len(Listing[Team]) - 1) :
        \A k \in 1..Len(Listing[Team]) :
          turns[Listing[Team][k]] =
            q + (IF Ahead(s, cursor % Len(Listing[Team]), k - 1) THEN 1 ELSE 0)
  BY DEF InTurn
<1>3. \A x \in Team : turns[x] = q \/ turns[x] = q + 1
  <2> TAKE x \in Team
  <2>1. PICK k \in 1..Len(Listing[Team]) : Listing[Team][k] = x
    BY <1>1
  <2>2. turns[x] = q + (IF Ahead(s, cursor % Len(Listing[Team]), k - 1) THEN 1 ELSE 0)
    BY <1>2, <2>1
  <2>3. CASE Ahead(s, cursor % Len(Listing[Team]), k - 1)
    BY <2>2, <2>3
  <2>4. CASE ~Ahead(s, cursor % Len(Listing[Team]), k - 1)
    BY <2>2, <2>4
  <2> QED BY <2>3, <2>4
<1> QED BY <1>3

LEMMA TurnStep ==
  ASSUME TypeOK, InTurn, NEW o \in Owners, RoundRobin(o), UNCHANGED staff PROVE InTurn'
<1>1. Team' = Team
  BY DEF Team
<1>2. CASE Team = {}
  BY <1>1, <1>2 DEF InTurn
<1>3. CASE Team # {}
  <2> DEFINE L == Listing[Team]
             n == Len(L)
             c == cursor % n
             d == (cursor + 1) % n
  <2>1. n \in Nat \ {0} /\ \A k \in 1..n : L[k] \in Users
    BY <1>3, ListingFacts DEF Team
  <2>2. \A k, m \in 1..n : L[k] = L[m] => k = m
    BY ListingAssumption DEF Team
  <2>3. /\ o = L[c + 1] /\ cursor' = d /\ turns' = [turns EXCEPT ![o] = @ + 1]
        /\ turns \in [Users -> Nat] /\ cursor \in Nat
    BY <1>3 DEF RoundRobin, Turn, Advance, TypeOK
  <2>4. PICK q \in Nat, s \in 0..(n - 1) :
          \A k \in 1..n : turns[L[k]] = q + (IF Ahead(s, c, k - 1) THEN 1 ELSE 0)
    BY <1>3 DEF InTurn
  <2>5. c \in 0..(n - 1) /\ d = IF c = n - 1 THEN 0 ELSE c + 1
    <3>1. \A m \in Nat \ {0}, a \in Nat :
            /\ a % m \in 0..(m - 1)
            /\ (a + 1) % m = IF a % m = m - 1 THEN 0 ELSE (a % m) + 1
      <4> TAKE m \in Nat \ {0}, a \in Nat
      <4>1. a % m \in 0..(m - 1)
        OBVIOUS
      <4>2. (a + 1) % m = IF a % m = m - 1 THEN 0 ELSE (a % m) + 1
        BY Successor, Zenon
      <4> QED BY <4>1, <4>2, Zenon
    <3> QED BY <2>1, <2>3, <3>1, Zenon
  <2>6. d \in 0..(n - 1) /\ d % n = d
    <3> HIDE DEF n, c, d
    <3>1. d \in 0..(n - 1)
      BY <2>1, <2>5
    <3> QED BY <2>1, <3>1
  <2>7. SUFFICES \E q2 \in Nat, s2 \in 0..(n - 1) :
          \A k \in 1..n : turns'[L[k]] = q2 + (IF Ahead(s2, d, k - 1) THEN 1 ELSE 0)
    <3>1. cursor' % n = d
      BY <2>3, <2>6, Zenon
    <3>2. \E q2 \in Nat, s2 \in 0..(n - 1) : \A k \in 1..n :
            turns'[L[k]] = q2 + (IF Ahead(s2, cursor' % n, k - 1) THEN 1 ELSE 0)
      BY <3>1, Zenon
    <3>3. n = Len(Listing[Team]) /\ L = Listing[Team] /\ Team' = Team
      BY <1>1
    <3> HIDE DEF d, c, n, L
    <3> QED BY <3>2, <3>3, Zenon DEF InTurn
  <2> HIDE DEF L, n, c, d
  <2>8. \A k \in 1..n : /\ k - 1 = c => turns'[L[k]] = q + 1
                        /\ k - 1 # c => turns'[L[k]] = turns[L[k]]
    <3> TAKE k \in 1..n
    <3>1. c + 1 \in 1..n /\ (k - 1 = c <=> k = c + 1)
      BY <2>1, <2>5
    <3>2. ~Ahead(s, c, c)
      BY <2>1, <2>4, <2>5 DEF Ahead
    <3>3. CASE k = c + 1
      <4>1. turns[L[k]] = q
        BY <2>1, <2>4, <3>1, <3>2, <3>3
      <4> QED BY <2>1, <2>3, <3>1, <3>3, <4>1
    <3>4. CASE k # c + 1
      <4>1. L[k] # o
        BY <2>2, <2>3, <3>1, <3>4
      <4> QED BY <2>1, <2>3, <3>1, <3>4, <4>1
    <3> QED BY <3>3, <3>4
  <2>9. CASE d = s
    <3>1. \A k \in 1..n : turns'[L[k]] = (q + 1) + (IF Ahead(s, d, k - 1) THEN 1 ELSE 0)
      <4> TAKE k \in 1..n
      <4>1. k - 1 \in 0..(n - 1)
        BY <2>1
      <4>2. ~Ahead(s, d, k - 1) /\ (k - 1 # c => Ahead(s, c, k - 1))
        BY <2>1, <2>4, <2>5, <2>9, <4>1 DEF Ahead
      <4> QED BY <2>4, <2>8, <4>1, <4>2
    <3>2. q + 1 \in Nat /\ s \in 0..(n - 1)
      BY <2>4
    <3> QED BY <3>1, <3>2, Zenon
  <2>10. CASE d # s
    <3>1. \A k \in 1..n : turns'[L[k]] = q + (IF Ahead(s, d, k - 1) THEN 1 ELSE 0)
      <4> TAKE k \in 1..n
      <4>1. k - 1 \in 0..(n - 1)
        BY <2>1
      <4>2. Ahead(s, d, k - 1) <=> Ahead(s, c, k - 1) \/ k - 1 = c
        BY <2>1, <2>4, <2>5, <2>10, <4>1 DEF Ahead
      <4> QED BY <2>4, <2>8, <4>1, <4>2
    <3> QED BY <2>4, <3>1
  <2> QED BY <2>9, <2>10
<1> QED BY <1>2, <1>3

LEMMA InTurnInductive ==
  /\ Init => InTurn
  /\ LeadInv /\ InTurn /\ [Next]_vars => InTurn'
<1> DEFINE n == Len(Listing[Team])
<1>0. /\ Team # {} => n \in Nat \ {0} /\ \A k \in 1..n : Listing[Team][k] \in Users
      /\ Team' # {} => /\ Len(Listing[Team']) \in Nat \ {0}
                       /\ \A k \in 1..Len(Listing[Team']) : Listing[Team'][k] \in Users
  BY ListingFacts DEF Team
<1>m. \A c \in Nat, m \in Nat \ {0} : c % m \in 0..(m - 1)
  OBVIOUS
<1>1. ASSUME Init PROVE InTurn
  <2>1. SUFFICES ASSUME Team # {}
                 PROVE  \A k \in 1..n : turns[Listing[Team][k]] =
                                          0 + (IF Ahead(0, cursor % n, k - 1) THEN 1 ELSE 0)
    <3>1. 0 \in Nat /\ (Team # {} => 0 \in 0..(n - 1))
      BY <1>0
    <3> QED BY <3>1, Zenon DEF InTurn
  <2>2. cursor % n = 0
    <3>1. \A m \in Nat \ {0} : 0 % m = 0
      OBVIOUS
    <3>2. cursor = 0
      BY <1>1 DEF Init
    <3> QED BY <1>0, <2>1, <3>1, <3>2, Zenon
  <2>3. \A k \in 1..n : turns[Listing[Team][k]] = 0
    BY <1>0, <1>1, <2>1 DEF Init
  <2>4. \A k \in 1..n : ~Ahead(0, 0, k - 1)
    BY DEF Ahead
  <2> HIDE DEF n
  <2> QED BY <2>2, <2>3, <2>4
<1>2. ASSUME LeadInv, InTurn, turns' = [u \in Users |-> 0], UNCHANGED cursor PROVE InTurn'
  <2> DEFINE s == cursor' % Len(Listing[Team'])
  <2>1. cursor' \in Nat
    BY <1>2 DEF LeadInv, TypeOK
  <2>2. Team' # {} => s \in 0..(Len(Listing[Team']) - 1)
    BY <1>0, <1>m, <2>1, Zenon
  <2>3. \A c, p \in Nat : ~Ahead(c, c, p)
    BY DEF Ahead
  <2>4. Team' # {} => \A k \in 1..Len(Listing[Team']) : turns'[Listing[Team'][k]] = 0
    BY <1>0, <1>2
  <2>5. Team' # {} => \A k \in 1..Len(Listing[Team']) :
          turns'[Listing[Team'][k]] = 0 + (IF Ahead(s, s, k - 1) THEN 1 ELSE 0)
    <3>1. \A k \in 1..Len(Listing[Team']) : k - 1 \in Nat
      OBVIOUS
    <3>2. Team' # {} => s \in Nat
      BY <2>2
    <3> HIDE DEF s
    <3> QED BY <2>3, <2>4, <3>1, <3>2
  <2>6. 0 \in Nat
    OBVIOUS
  <2> QED BY <2>2, <2>5, <2>6, Zenon DEF InTurn
<1>3. ASSUME InTurn, UNCHANGED <<staff, cursor, turns>> PROVE InTurn'
  BY <1>3 DEF InTurn, Team
<1>4. ASSUME LeadInv, InTurn, NEW o \in Owners, RoundRobin(o), UNCHANGED staff PROVE InTurn'
  BY <1>4, TurnStep DEF LeadInv
<1>5. ASSUME LeadInv, InTurn, NEW j \in Jobs, PickAgent(j) PROVE InTurn'
  BY <1>5, <1>3, <1>4 DEF PickAgent
<1>6. ASSUME LeadInv, InTurn, NEW h \in Sessions, SectorPick(h) PROVE InTurn'
  BY <1>6, <1>4 DEF SectorPick
<1>7. ASSUME LeadInv, InTurn, NEW u \in Users, DeleteMember(u) \/ SetActive(u) PROVE InTurn'
  BY <1>7, <1>2 DEF DeleteMember, SetActive
<1>8. ASSUME LeadInv, InTurn, [Next]_vars PROVE InTurn'
  BY <1>3, <1>5, <1>6, <1>7, <1>8 DEF Next, WorkerStep, Start, UpsertLead, AutoAssign,
     FixColumn, Grant, ResolveConversation, Touch, Save, SyncRead, Mirror, Fail, PersonStep,
     Open, Claim, Relabel, Reassign, GiveTo, MoveToSector, GiveBack, ReturnToPool, BulkAssign,
     SaveForm, WriteOwner, MoveStage, Abort, SetOwner, ReadEntered, AssignEntered,
     SkipEntered, Quiet, business, vars
<1> QED BY <1>1, <1>8

\* The workers of the queue and the requests that move a lead to a sector draw from
\* one pointer: no active member is two turns ahead of another since the team changed.
THEOREM RoundRobinCorrect == Spec => []RoundRobinFair
<1>1. LeadInv /\ InTurn => RoundRobinFair
  BY TurnFair DEF LeadInv, TypeOK
<1> QED BY <1>1, LeadInvInductive, InTurnInductive, PTL DEF Spec

--------------------------------------------------------------------------------
(* The conversation and its owner *)

\* No step of a worker takes an existing conversation from its owner or sets the
\* customer's time back.
THEOREM SteadyCorrect == Spec => ConversationIsSteady
<1> DEFINE Steady == \A j \in Jobs, l \in Leads, i \in Numbers :
              WorkerStep(j) /\ conversation[l][i].exists =>
                /\ conversation'[l][i].owner = conversation[l][i].owner
                /\ conversation'[l][i].at >= conversation[l][i].at
<1>1. LeadInv /\ [Next]_vars => [Steady]_vars
  <2>1. SUFFICES ASSUME LeadInv, NEW j \in Jobs, NEW l \in Leads, NEW i \in Numbers,
                        WorkerStep(j), conversation[l][i].exists
                 PROVE  /\ conversation'[l][i].owner = conversation[l][i].owner
                        /\ conversation'[l][i].at >= conversation[l][i].at
    OBVIOUS
  <2>2. /\ conversation[l][i] \in ThreadRow /\ conversation[l][i].at \in Nat
        /\ job[j].at \in Nat /\ message[j].lead \in Leads /\ message[j].number \in Numbers
    BY <2>1, JobInType, JobFields, ThreadFields DEF LeadInv, TypeOK
  <2>3. CASE UNCHANGED conversation
    BY <2>2, <2>3
  <2>4. CASE ResolveConversation(j)
    <3>1. conversation' = [conversation EXCEPT ![message[j].lead][message[j].number] = Thread(j)]
      BY <2>4 DEF ResolveConversation
    <3>2. conversation'[l][i] = conversation[l][i]
      BY <2>1, <2>2, <3>1 DEF LeadInv, TypeOK, Thread
    <3> QED BY <2>2, <3>2
  <2>5. CASE Touch(j)
    <3>1. conversation' = [conversation EXCEPT ![message[j].lead][message[j].number].at =
                              Later(@, job[j].at)]
      BY <2>5 DEF Touch
    <3>2. \/ conversation'[l][i] = conversation[l][i]
          \/ conversation'[l][i] = [conversation[l][i] EXCEPT !.at = Later(@, job[j].at)]
      BY <2>1, <2>2, <3>1 DEF LeadInv, TypeOK
    <3>3. Later(conversation[l][i].at, job[j].at) >= conversation[l][i].at
      BY <2>2 DEF Later
    <3> QED BY <2>2, <3>2, <3>3 DEF ThreadRow
  <2> QED
    BY <2>1, <2>3, <2>4, <2>5 DEF WorkerStep, Start, UpsertLead, AutoAssign, FixColumn,
       PickAgent, Grant, Save, SyncRead, Mirror, Fail, business
<1> QED BY <1>1, LeadInvInductive, PTL DEF Spec, ConversationIsSteady

--------------------------------------------------------------------------------
(* A handover sticks.  What keeps it: the active conversation is the new owner's *)
(* too, and every worker on its way with a message of the lead read it there.    *)

Kept(l) ==
    /\ lead[l].exists /\ lead[l].owner = held[l]
    /\ \A i \in Numbers : IsActive(l, i) => conversation[l][i].owner = held[l]
    /\ \A j \in Jobs : message[j].lead = l =>
        /\ job[j].pc = "place" => job[j].owner # Nobody
        /\ job[j].pc = "mirror" => job[j].pick = held[l]

HandInv == \A l \in Leads : held[l] # Nobody => Kept(l)

\* A step that changes neither the owner of a lead, nor its conversations, nor what
\* its workers hold keeps it.
LEMMA KeptSame ==
  ASSUME NEW l \in Leads, Kept(l), held'[l] = held[l], lead'[l].exists,
         lead'[l].owner = lead[l].owner, conversation'[l] = conversation[l],
         message' = message,
         \A j \in Jobs : message[j].lead = l =>
            \/ job'[j] = job[j]
            \/ job'[j].pc \notin {"place", "mirror"}
  PROVE  Kept(l)'
  BY DEF Kept, IsActive

\* A person's transfer: no worker is on its way, every active conversation is given.
LEMMA KeptByHand ==
  ASSUME TypeOK, NEW l \in Leads, NEW o \in Users, lead'[l].exists, lead'[l].owner = o,
         Transfer(l, o), Hold(l, o), message' = message, job' = job, held'[l] # Nobody
  PROVE  Kept(l)'
<1>1. held'[l] = o /\ ~Flying(l)
  BY DEF Hold, TypeOK
<1>2. /\ \A i \in Numbers : /\ conversation'[l][i].exists = conversation[l][i].exists
                            /\ conversation'[l][i].at = conversation[l][i].at
      /\ \A i \in Numbers : IsActive(l, i) => conversation'[l][i].owner = o
  BY DEF Transfer, TypeOK, ThreadRow
<1>3. \A i \in Numbers : ActiveAmong(conversation'[l], i) => IsActive(l, i)
  BY <1>2 DEF IsActive, ActiveAmong
<1>4. \A j \in Jobs : message[j].lead = l => job[j].pc \in {"queued", "done"}
  BY <1>1 DEF Flying
<1> QED BY <1>1, <1>2, <1>3, <1>4 DEF Kept, IsActive

LEMMA WorkerFrame ==
  ASSUME TypeOK, NEW j \in Jobs, WorkerStep(j)
  PROVE  /\ message' = message /\ \A k \in Jobs \ {j} : job'[k] = job[k]
         /\ \A l \in Leads \ {message[j].lead} :
              held'[l] = held[l] /\ lead'[l] = lead[l] /\ conversation'[l] = conversation[l]
<1>0. message[j].lead \in Leads
  BY JobInType
<1>1. message' = message /\ \A k \in Jobs \ {j} : job'[k] = job[k]
  BY <1>0 DEF WorkerStep, Start, UpsertLead, AutoAssign, FixColumn, PickAgent, Grant,
     ResolveConversation, Touch, Save, SyncRead, Mirror, Fail, Goto, Finish, fixed, business,
     TypeOK
<1>2. \A l \in Leads \ {message[j].lead} : lead'[l] = lead[l]
  BY <1>0 DEF WorkerStep, Start, UpsertLead, AutoAssign, FixColumn, PickAgent, Grant, WriteLead,
     ResolveConversation, Touch, Save, SyncRead, Mirror, Fail, business, TypeOK
<1>3. \A l \in Leads \ {message[j].lead} : held'[l] = held[l]
  BY <1>0 DEF WorkerStep, Start, UpsertLead, AutoAssign, FixColumn, PickAgent, Grant, Elect,
     ResolveConversation, Touch, Save, SyncRead, Mirror, Fail, business, TypeOK
<1>4. \A l \in Leads \ {message[j].lead} : conversation'[l] = conversation[l]
  BY <1>0 DEF WorkerStep, Start, UpsertLead, AutoAssign, FixColumn, PickAgent, Grant,
     ResolveConversation, Touch, Save, SyncRead, Mirror, Fail, business, TypeOK
<1> QED BY <1>1, <1>2, <1>3, <1>4

LEMMA WorkerHands ==
  ASSUME LeadInv, HandInv, NEW j \in Jobs, WorkerStep(j) PROVE HandInv'
<1> USE DEF LeadInv
<1> DEFINE i == message[j].number
<1>l. PICK l \in Leads : l = message[j].lead
  BY JobInType
<1>0. /\ l = message[j].lead /\ i \in Numbers /\ job[j] \in JobRow /\ lead[l] \in LeadRow
      /\ job \in [Jobs -> JobRow] /\ lead \in [Leads -> LeadRow]
      /\ conversation \in [Leads -> [Numbers -> ThreadRow]] /\ held \in [Leads -> Owners]
  BY <1>l, JobInType DEF TypeOK
<1>1. ASSUME NEW m \in Leads \ {l}, held'[m] # Nobody PROVE Kept(m)'
  BY <1>0, <1>1, WorkerFrame, KeptSame DEF HandInv, Kept
<1>2. ASSUME held'[l] # Nobody PROVE Kept(l)'
  <2>1. held'[l] = held[l]
    BY <1>0, <1>2 DEF WorkerStep, Start, UpsertLead, AutoAssign, FixColumn, PickAgent, Grant,
       Elect, ResolveConversation, Touch, Save, SyncRead, Mirror, Fail, business, TypeOK
  <2>2. Kept(l)
    BY <1>0, <1>2, <2>1 DEF HandInv
  <2>3. lead[l].exists /\ lead[l].owner = held[l] /\ lead[l].owner # Nobody
    BY <1>2, <2>1, <2>2 DEF Kept
  <2>4. message' = message /\ \A k \in Jobs \ {j} : job'[k] = job[k]
    BY WorkerFrame
  <2>s. ASSUME lead'[l].exists, lead'[l].owner = lead[l].owner, UNCHANGED conversation,
               job'[j].pc \notin {"place", "mirror"}
        PROVE  Kept(l)'
    BY <1>0, <2>1, <2>2, <2>4, <2>s, KeptSame
  <2>5. CASE UpsertLead(j)
    <3>1. /\ lead'[l] = lead[l] /\ UNCHANGED conversation
          /\ job' = [job EXCEPT ![j].pc = "place", ![j].owner = lead[l].owner,
                                ![j].number = lead[l].number, ![j].board = lead[l].board]
      BY <1>0, <2>3, <2>5 DEF UpsertLead, WriteLead
    <3>2. job'[j].pc = "place" /\ job'[j].owner = lead[l].owner
      BY <1>0, <3>1 DEF JobRow
    <3>3. \A k \in Jobs : message[k].lead = l =>
            /\ job'[k].pc = "place" => job'[k].owner # Nobody
            /\ job'[k].pc = "mirror" => job'[k].pick = held[l]
      BY <2>2, <2>3, <2>4, <3>2 DEF Kept
    <3> QED BY <2>1, <2>2, <2>4, <3>1, <3>3 DEF Kept, IsActive
  <2>6. CASE AutoAssign(j)
    BY <1>0, <2>2, <2>6 DEF AutoAssign, Kept, At
  <2>7. CASE ResolveConversation(j) \/ Touch(j)
    <3>1. /\ \A k \in Numbers : ActiveAmong(conversation'[l], k) => IsActive(l, k)
          /\ UNCHANGED lead
      BY <1>0, <1>2, <2>7 DEF ResolveConversation, Touch, Elect
    <3>2. \A k \in Numbers : IsActive(l, k) => conversation'[l][k].owner = conversation[l][k].owner
      <4>1. CASE ResolveConversation(j)
        <5>1. conversation' = [conversation EXCEPT ![l][i] = Thread(j)]
          BY <1>l, <4>1 DEF ResolveConversation
        <5>2. conversation[l][i].exists => Thread(j) = conversation[l][i]
          BY <1>l DEF Thread
        <5> QED BY <1>0, <5>1, <5>2 DEF IsActive, ActiveAmong
      <4>2. CASE Touch(j)
        <5>1. conversation' = [conversation EXCEPT ![l][i].at = Later(@, job[j].at)]
          BY <1>l, <4>2 DEF Touch
        <5> QED BY <1>0, <5>1 DEF ThreadRow
      <4> QED BY <2>7, <4>1, <4>2
    <3>3. job'[j].pc \in {"touch", "save"}
      <4>1. CASE ResolveConversation(j)
        <5>1. PICK a, t :
                job' = [job EXCEPT ![j].pc = IF t THEN "touch" ELSE "save", ![j].pick = a]
          BY <4>1 DEF ResolveConversation
        <5> QED BY <1>0, <5>1 DEF JobRow
      <4>2. CASE Touch(j)
        BY <1>0, <4>2 DEF Touch, Goto, JobRow
      <4> QED BY <2>7, <4>1, <4>2
    <3> QED BY <1>0, <2>1, <2>2, <2>4, <3>1, <3>2, <3>3 DEF Kept, IsActive
  <2>8. CASE SyncRead(j)
    <3>1. PICK k \in Numbers :
            /\ IsActive(l, k)
            /\ job' = [job EXCEPT ![j].pc = "mirror", ![j].number = k,
                                  ![j].pick = conversation[l][k].owner]
      BY <1>l, <2>8 DEF SyncRead
    <3>2. job'[j].pc = "mirror" /\ job'[j].pick = conversation[l][k].owner
      BY <1>0, <3>1 DEF JobRow
    <3>3. conversation[l][k].owner = held[l]
      BY <2>2, <3>1 DEF Kept
    <3>4. UNCHANGED <<lead, conversation>>
      BY <2>8 DEF SyncRead, business
    <3> QED BY <2>1, <2>2, <2>4, <3>2, <3>3, <3>4 DEF Kept, IsActive
  <2>9. CASE Mirror(j)
    <3>1. job[j].pick = held[l] /\ job[j].pick # Nobody
      BY <1>l, <2>2, <2>3, <2>9 DEF Mirror, At, Kept
    <3>2. lead'[l] = [Given(lead[l], job[j].pick) EXCEPT !.number = job[j].number]
      BY <1>0, <2>9, <3>1 DEF Mirror, WriteLead
    <3>3. lead'[l].exists /\ lead'[l].owner = held[l]
      BY <1>0, <2>3, <3>1, <3>2 DEF Given, LeadRow
    <3>4. UNCHANGED conversation /\ job'[j].pc = "done"
      BY <1>0, <2>9 DEF Mirror, Finish, IdleJob
    <3> QED BY <2>s, <2>3, <3>3, <3>4
  <2>10. CASE FixColumn(j)
    <3>1. lead'[l].exists /\ lead'[l].owner = lead[l].owner
      BY <1>0, <2>3, <2>10 DEF FixColumn, WriteLead, LeadRow
    <3>2. UNCHANGED conversation /\ job'[j].pc \in {"pick", "resolve"}
      BY <1>0, <2>10 DEF FixColumn, Goto, AfterPlace, JobRow
    <3> QED BY <2>s, <3>1, <3>2
  <2>11. CASE PickAgent(j)
    <3>1. UNCHANGED <<lead, conversation>>
      BY <2>11 DEF PickAgent
    <3>2. PICK a, t :
            job' = [job EXCEPT ![j].pc = IF t THEN "resolve" ELSE "grant", ![j].pick = a]
      BY <2>11 DEF PickAgent
    <3>3. job'[j].pc \in {"resolve", "grant"}
      BY <1>0, <3>2 DEF JobRow
    <3> QED BY <2>s, <2>3, <3>1, <3>3
  <2>12. CASE Grant(j)
    <3>1. UNCHANGED <<lead, conversation>>
      BY <1>l, <2>3, <2>12 DEF Grant
    <3>2. job' = [job EXCEPT ![j] = [@ EXCEPT !.pc = "resolve"]]
      BY <1>l, <2>3, <2>12 DEF Grant
    <3>3. job'[j].pc = "resolve"
      BY <1>0, <3>2 DEF JobRow
    <3> QED BY <2>s, <2>3, <3>1, <3>3
  <2>13. CASE Start(j)
    <3>1. UNCHANGED <<lead, conversation>>
      BY <2>13 DEF Start, business
    <3>2. job'[j].pc \in {"done", "upsert"}
      <4>1. CASE j \in saved
        BY <1>0, <2>13, <4>1 DEF Start, Finish, IdleJob
      <4>2. CASE j \notin saved
        <5>1. PICK o, b : job' = [job EXCEPT ![j] =
                 [job[j] EXCEPT !.pc = "upsert", !.at = now + 1, !.rule = o, !.wants = b]]
          BY <2>13, <4>2 DEF Start
        <5> QED BY <1>0, <5>1 DEF JobRow
      <4> QED BY <4>1, <4>2
    <3> QED BY <2>s, <2>3, <3>1, <3>2
  <2>14. CASE Save(j) \/ Fail(j)
    <3>1. UNCHANGED <<lead, conversation>>
      BY <2>14 DEF Save, Fail, business
    <3>2. job'[j].pc \in {"queued", "sync", "done"}
      BY <1>0, <2>14 DEF Save, Fail, Finish, IdleJob
    <3> QED BY <2>s, <2>3, <3>1, <3>2
  <2> QED
    BY <2>5, <2>6, <2>7, <2>8, <2>9, <2>10, <2>11, <2>12, <2>13, <2>14 DEF WorkerStep
<1> QED BY <1>1, <1>2 DEF HandInv

LEMMA PersonHands ==
  ASSUME LeadInv, HandInv, NEW h \in Sessions, PersonStep(h) PROVE HandInv'
<1> USE DEF LeadInv
<1> DEFINE s == session[h]
<1>p. PICK l : l = s.lead
  OBVIOUS
<1>0. /\ s \in SessionRow /\ s.target \in Owners /\ \A o \in Owners : o # Nobody => o \in Users
      /\ lead \in [Leads -> LeadRow] /\ held \in [Leads -> Owners]
      /\ conversation \in [Leads -> [Numbers -> ThreadRow]]
  BY SessionInType, SessionFields DEF Owners, TypeOK
<1>l. s.pc # "idle" => l \in Leads /\ lead[l].exists /\ s.user \in Users /\ lead[l] \in LeadRow
  BY <1>p, SessionInType DEF SessionsOK
<1>j. UNCHANGED <<message, job>>
  BY DEF PersonStep, Open, Claim, Relabel, Reassign, GiveTo, SectorPick, MoveToSector, GiveBack,
     ReturnToPool, BulkAssign, SaveForm, WriteOwner, MoveStage, Abort, fixed, business
\* The other leads of the company are not touched.
<1>o. ASSUME NEW row, WriteLead(l, row), l \in Leads,
             Transfer(l, lead'[l].owner) \/ UNCHANGED conversation,
             \A m \in Leads \ {l} : held'[m] = held[m],
             held'[l] # Nobody => Kept(l)'
      PROVE  HandInv'
  <2>1. ASSUME NEW m \in Leads \ {l}, held'[m] # Nobody PROVE Kept(m)'
    <3>1. lead'[m] = lead[m] /\ conversation'[m] = conversation[m]
      BY <1>0, <1>o, <2>1 DEF WriteLead, Transfer
    <3> QED BY <1>j, <1>o, <2>1, <3>1, KeptSame DEF HandInv, Kept
  <2> QED BY <1>o, <2>1 DEF HandInv
<1>s. ASSUME UNCHANGED <<lead, conversation, held>> PROVE HandInv'
  BY <1>j, <1>s DEF HandInv, Kept, IsActive
<1>g. ASSUME NEW o \in Users, NEW b, GiveTo(h, o, b), s.pc # "idle" PROVE HandInv'
  <2>0. l \in Leads /\ lead[l].exists /\ lead[l] \in LeadRow
    BY <1>g, <1>l
  <2>1. PICK i : WriteLead(l, [Given(lead[l], o) EXCEPT !.private = FALSE, !.number = i,
                                                        !.board = b])
    BY <1>p, <1>g DEF GiveTo
  <2>2. lead'[l].exists /\ lead'[l].owner = o
    BY <1>0, <2>0, <2>1 DEF WriteLead, Given, LeadRow
  <2>3. Transfer(l, o) /\ Hold(l, o)
    BY <1>p, <1>g DEF GiveTo
  <2>4. held'[l] # Nobody => Kept(l)'
    BY <1>j, <2>0, <2>2, <2>3, KeptByHand
  <2>5. \A m \in Leads \ {l} : held'[m] = held[m]
    BY <1>0, <2>0, <2>3 DEF Hold
  <2> QED BY <1>o, <2>0, <2>1, <2>2, <2>3, <2>4, <2>5
<1>b. ASSUME NEW b, GiveBack(h, b), s.pc # "idle" PROVE HandInv'
  <2>0. l \in Leads /\ lead[l] \in LeadRow
    BY <1>b, <1>l
  <2>1. WriteLead(l, [Returned(lead[l]) EXCEPT !.board = b]) /\ Transfer(l, Nobody) /\ LetGo(l)
    BY <1>p, <1>b DEF GiveBack
  <2>2. lead'[l].owner = Nobody
    BY <1>0, <2>0, <2>1 DEF WriteLead, Returned, LeadRow
  <2>3. held'[l] = Nobody /\ \A m \in Leads \ {l} : held'[m] = held[m]
    BY <1>0, <2>0, <2>1 DEF LetGo
  <2> QED BY <1>o, <2>0, <2>1, <2>2, <2>3
<1>w. ASSUME NEW op, NEW b, WriteOwner(h, op, b) PROVE HandInv'
  <2>0. l \in Leads
    BY <1>w, <1>l DEF WriteOwner, Commits
  <2>1. /\ WriteLead(l, [Given(lead[l], s.target) EXCEPT !.board = b])
        /\ UNCHANGED conversation /\ LetGo(l)
    BY <1>p, <1>w DEF WriteOwner
  <2>2. held'[l] = Nobody /\ \A m \in Leads \ {l} : held'[m] = held[m]
    BY <1>0, <2>0, <2>1 DEF LetGo
  <2> QED BY <1>o, <2>0, <2>1, <2>2
\* A write that leaves the owner alone.
<1>k. ASSUME NEW row, WriteLead(l, row), s.pc # "idle", row.exists, row.owner = lead[l].owner,
             UNCHANGED <<conversation, held>>
      PROVE  HandInv'
  <2>1. lead'[l] = row
    BY <1>0, <1>l, <1>k DEF WriteLead
  <2>2. held'[l] # Nobody => Kept(l)'
    BY <1>j, <1>l, <1>k, <2>1, KeptSame DEF HandInv
  <2> QED BY <1>l, <1>k, <1>o, <2>2
<1>1. CASE Claim(h)
  <2>0. l \in Leads /\ lead[l].exists /\ s.user \in Users /\ lead[l] \in LeadRow
    BY <1>1, <1>l DEF Claim, Commits
  <2>1. WriteLead(l, [Given(lead[l], s.user) EXCEPT !.private = s.user \in Managers,
                        !.board = Remap(lead[l], s.board, s.user)])
    BY <1>p, <1>1 DEF Claim
  <2>2. lead'[l].exists /\ lead'[l].owner = s.user
    BY <1>0, <2>0, <2>1 DEF WriteLead, Given, LeadRow
  <2>3. Transfer(l, s.user) /\ Hold(l, s.user)
    BY <1>p, <1>1 DEF Claim
  <2>4. held'[l] # Nobody => Kept(l)'
    BY <1>j, <2>0, <2>2, <2>3, KeptByHand
  <2>5. \A m \in Leads \ {l} : held'[m] = held[m]
    BY <1>0, <2>0, <2>3 DEF Hold
  <2> QED BY <1>o, <2>0, <2>1, <2>2, <2>3, <2>4, <2>5
<1>2. CASE Relabel(h)
  <2>1. PICK i : WriteLead(l, [lead[l] EXCEPT !.number = i])
    BY <1>p, <1>2 DEF Relabel
  <2>2. s.pc # "idle" /\ UNCHANGED <<conversation, held>>
    BY <1>p, <1>2 DEF Relabel
  <2>3. /\ [lead[l] EXCEPT !.number = i].exists
        /\ [lead[l] EXCEPT !.number = i].owner = lead[l].owner
    BY <1>l, <2>2, LeadFacts
  <2> QED BY <1>k, <2>1, <2>2, <2>3
<1>3. CASE Reassign(h)
  <2>1. s.pc # "idle" /\ s.target \in Users
    BY <1>3 DEF Reassign, Commits, SessionsOK
  <2> QED BY <1>3, <1>g, <2>1 DEF Reassign
<1>4. CASE MoveToSector(h)
  <2>1. s.pc # "idle"
    BY <1>4 DEF MoveToSector, Commits
  <2> QED BY <1>0, <1>4, <1>g, <1>b, <2>1 DEF MoveToSector
<1>5. CASE ReturnToPool(h)
  BY <1>5, <1>b DEF ReturnToPool, Commits
<1>6. CASE BulkAssign(h) \/ SaveForm(h)
  BY <1>6, <1>w DEF BulkAssign, SaveForm
<1>8. CASE MoveStage(h)
  <2>1. PICK b : WriteLead(l, [lead[l] EXCEPT !.board = b])
    BY <1>p, <1>8 DEF MoveStage
  <2>2. s.pc # "idle" /\ UNCHANGED <<conversation, held>>
    BY <1>8 DEF MoveStage, Commits
  <2>3. /\ [lead[l] EXCEPT !.board = b].exists
        /\ [lead[l] EXCEPT !.board = b].owner = lead[l].owner
    BY <1>l, <2>2, LeadFacts
  <2> QED BY <1>k, <2>1, <2>2, <2>3
<1>9. CASE Open(h) \/ SectorPick(h) \/ Abort(h)
  BY <1>9, <1>s DEF Open, SectorPick, Abort, business
<1> QED BY <1>1, <1>2, <1>3, <1>4, <1>5, <1>6, <1>8, <1>9 DEF PersonStep

LEMMA CompanyHands ==
  ASSUME LeadInv, HandInv,
         \/ \E i \in Numbers, u \in Users, transfer \in BOOLEAN : SetOwner(i, u, transfer)
         \/ \E u \in Users : DeleteMember(u) \/ SetActive(u)
         \/ \E l \in Leads : ReadEntered(l) \/ AssignEntered(l) \/ SkipEntered(l)
  PROVE  HandInv'
<1> USE DEF LeadInv
<1>j. UNCHANGED <<message, job>>
  BY DEF SetOwner, DeleteMember, SetActive, ReadEntered, AssignEntered, SkipEntered, fixed,
     business
<1>s. ASSUME UNCHANGED <<lead, conversation, held>> PROVE HandInv'
  BY <1>j, <1>s DEF HandInv, Kept, IsActive
<1>1. ASSUME NEW i \in Numbers, NEW u \in Users, NEW transfer \in BOOLEAN,
             SetOwner(i, u, transfer)
      PROVE  HandInv'
  <2>1. UNCHANGED <<lead, conversation, held>> \/ held' = [l \in Leads |-> Nobody]
    BY <1>1 DEF SetOwner
  <2> QED BY <1>s, <2>1 DEF HandInv
<1>2. ASSUME NEW u \in Users, DeleteMember(u) PROVE HandInv'
  <2> SUFFICES ASSUME NEW l \in Leads, held'[l] # Nobody PROVE Kept(l)'
    BY DEF HandInv
  <2>1. held'[l] = held[l] /\ held[l] # u /\ held[l] # Nobody
    BY <1>2 DEF DeleteMember
  <2>2. Kept(l)
    BY <2>1 DEF HandInv
  <2>3. lead'[l].exists /\ lead'[l].owner = held[l]
    <3> DEFINE row == [lead[l] EXCEPT !.board = IF @ = u THEN Nobody ELSE @]
    <3>1. lead'[l] = IF row.owner = u THEN Returned(row) ELSE row
      BY <1>2 DEF DeleteMember
    <3>2. row.exists = lead[l].exists /\ row.owner = lead[l].owner
      BY LeadFacts DEF TypeOK
    <3> HIDE DEF row
    <3> QED BY <2>1, <2>2, <3>1, <3>2 DEF Kept
  <2>4. \A i \in Numbers :
          /\ conversation'[l][i].exists = conversation[l][i].exists
          /\ conversation'[l][i].at = conversation[l][i].at
          /\ conversation[l][i].owner = held[l] => conversation'[l][i].owner = held[l]
    BY <1>2, <2>1 DEF DeleteMember, TypeOK, ThreadRow
  <2>5. \A i \in Numbers : ActiveAmong(conversation'[l], i) => IsActive(l, i)
    <3>1. \A i \in Numbers :
            /\ conversation'[l][i].exists = conversation[l][i].exists
            /\ conversation'[l][i].at = conversation[l][i].at
      BY <2>4
    <3> QED BY <3>1, Zenon DEF IsActive, ActiveAmong
  <2> QED BY <1>j, <2>1, <2>2, <2>3, <2>4, <2>5 DEF Kept, IsActive
<1>3. ASSUME NEW l \in Leads, AssignEntered(l) PROVE HandInv'
  <2>1. PICK row : WriteLead(l, row)
    BY <1>3 DEF AssignEntered
  <2>2. held' = [held EXCEPT ![l] = Nobody] /\ UNCHANGED conversation
    BY <1>3 DEF AssignEntered, LetGo
  <2>3. \A m \in Leads \ {l} : lead'[m] = lead[m] /\ held'[m] = held[m]
    BY <2>1, <2>2 DEF WriteLead, TypeOK
  <2>4. held'[l] = Nobody
    BY <2>2 DEF TypeOK
  <2>5. ASSUME NEW m \in Leads \ {l}, held'[m] # Nobody PROVE Kept(m)'
    BY <1>j, <2>2, <2>3, <2>5, KeptSame DEF HandInv, Kept
  <2> QED BY <2>4, <2>5 DEF HandInv
<1> QED BY <1>1, <1>2, <1>3, <1>s DEF SetActive, ReadEntered, SkipEntered, business

\* A lead that a person handed over with its conversation is not taken from its new
\* owner by any later message on that number, however the workers interleave.
THEOREM HandoverCorrect == Spec => []HandoverSticks
<1>1. Init => HandInv
  BY DEF Init, HandInv
<1>2. ASSUME LeadInv, HandInv, [Next]_vars PROVE HandInv'
  <2>1. CASE UNCHANGED vars
    BY <1>2, <2>1 DEF HandInv, Kept, IsActive, vars
  <2> QED BY <1>2, <2>1, WorkerHands, PersonHands, CompanyHands DEF Next, Quiet
<1>3. HandInv => HandoverSticks
  BY DEF HandInv, Kept, HandoverSticks
<1> QED BY <1>1, <1>2, <1>3, LeadInvInductive, PTL DEF Spec
================================================================================
