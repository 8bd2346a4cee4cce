------------------------------ MODULE SheetImport ------------------------------
(* The import of the leads of a form from a published spreadsheet             *)
(* (apps/api/src/modules/sheet-import). Every five minutes, and at boot, an   *)
(* importer downloads its sheet, compares it with the last one it finished,   *)
(* and turns each row without a final entry in SheetImportRow into a lead, or *)
(* attaches the row to the lead that has its telephone. Importers of one      *)
(* company share its leads: two sheets of one process, or two processes while *)
(* a release replaces the running one. People and webhooks take no lock.      *)
(* Abstracted: the columns (one field stands for those an edit and a form may *)
(* both fill in) and an id that occurs twice in one sheet.                    *)
EXTENDS Naturals, FiniteSetsExt

CONSTANTS
    Importers,      \* the instances of SheetImportService of one company
    Process,        \* Process[p]: the process importer p runs in
    Sheet,          \* Sheet[p]: the rows its sheet may come to hold
    MaxRows,        \* bound: rows of all sheets, in the order they are added
    SheetLeads,     \* the leads there may be: a telephone in a pipeline
    LeadOf,         \* LeadOf[r]: the telephone of row r in the pipeline of its importer
    Person,         \* Person[c]: whom the ninth digit, the pipeline and the e-mail identify
    Known,          \* leads that may be there before the first run
    Protected,      \* conservativeDedupe, or the company also has the protected sheet
    Unread,         \* no sheet read yet, no row in hand
    MaxTentativas,
    MaxUpsets       \* bound: failed statements, edits by others, deaths of a process

ASSUME ImportAssumption ==
    /\ MaxRows \in Nat /\ MaxUpsets \in Nat /\ MaxTentativas \in Nat
    /\ Sheet \in [Importers -> SUBSET (1..MaxRows)]
    /\ LeadOf \in [1..MaxRows -> SheetLeads] /\ Known \subseteq SheetLeads
    /\ Protected \in BOOLEAN

VARIABLES
    published,      \* how many rows the sheets hold; rows are only added
    usable,         \* those of them that map to a lead; the others are skipped
    entry,          \* entry[r]: status and attempts of the SheetImportRow
    lead,           \* lead[c]: none, or the state of the one field modelled
    mine,           \* the leads the import created
    importer,       \* importer[p]: the locals of run, and lastHash
    notes,          \* history: notes[r], how often row r was written on a lead
    upsets          \* errors, edits and deaths so far

SheetRows == 1..MaxRows
importVars == <<published, usable, entry, lead, mine, importer, notes, upsets>>
outside == <<published, usable, upsets>>

\* row, field, same: the row in hand, what was read of its lead's field, and
\* whether the lead still has the updated_at that was read.
NotRunning(hash) ==
    [pc |-> "idle", last |-> hash, csv |-> {}, todo |-> {}, clean |-> TRUE,
     row |-> Unread, field |-> "none", same |-> FALSE]

ImportInit ==
    /\ published = 0 /\ usable = {}
    /\ entry = [r \in SheetRows |-> [status |-> "none", attempts |-> 0]]
    /\ \E known \in SUBSET Known :
          lead = [c \in SheetLeads |-> IF c \in known THEN "empty" ELSE "none"]
    /\ mine = {}
    /\ importer = [p \in Importers |-> NotRunning(Unread)]
    /\ notes = [r \in SheetRows |-> 0]
    /\ upsets = 0

--------------------------------------------------------------------------------
Upset == upsets < MaxUpsets /\ upsets' = upsets + 1

InTransaction(p) == importer[p].pc \in {"create", "attach"}

\* pg_advisory_xact_lock: held from the first statement to the commit.
LockFree == Protected => \A p \in Importers : ~InTransaction(p)

OnRecord(r) == entry[r].status \in {"ok", "skipped"}
Exhausted(r) == entry[r].status = "error" /\ entry[r].attempts >= MaxTentativas

\* A write of a lead moves its updated_at: whoever has read the lead holds an old one.
Rewritten(c) == [p \in Importers |->
    [importer[p] EXCEPT !.same = @ /\ LeadOf[importer[p].row] # c]]

\* The row in hand is dealt with, or has to be marked as an error.
Dealt(x, clean) ==
    [x EXCEPT !.pc = "rows", !.row = Unread, !.field = "none", !.same = FALSE,
              !.todo = x.todo \ {x.row}, !.clean = x.clean /\ clean]
ToMark(x) == [x EXCEPT !.pc = "mark", !.field = "none", !.same = FALSE]

--------------------------------------------------------------------------------
(* A run.                                                                     *)

\* tick, run: one run at a time; an unchanged sheet ends it.
DownloadSheet(p) ==
    LET csv == {r \in Sheet[p] : r <= published} IN
    /\ importer[p].pc = "idle"
    /\ csv # importer[p].last
    /\ importer' = [importer EXCEPT ![p] =
                        [@ EXCEPT !.pc = "read", !.csv = csv, !.clean = TRUE]]
    /\ UNCHANGED <<outside, entry, lead, mine, notes>>

Faulty_ReadEntries(p) ==
    /\ importer[p].pc = "read"
    /\ LET todo == {r \in importer[p].csv : entry[r].status \notin {"ok", "skipped", "error"}}
       IN  importer' = [importer EXCEPT ![p] = [@ EXCEPT !.pc = "rows", !.todo = todo]]
    /\ UNCHANGED <<outside, entry, lead, mine, notes>>

ReadEntries(p) ==
    /\ importer[p].pc = "read"
    /\ LET todo == {r \in importer[p].csv : ~OnRecord(r) /\ ~Exhausted(r)}
       IN  importer' = [importer EXCEPT ![p] = [@ EXCEPT !.pc = "rows", !.todo = todo]]
    /\ UNCHANGED <<outside, entry, lead, mine, notes>>

\* A row that is no lead is marked, unless another process has settled it.
SkipRow(p) ==
    LET r == Min(importer[p].todo) IN
    /\ importer[p].pc = "rows" /\ importer[p].todo # {} /\ LockFree
    /\ r \notin usable
    /\ entry' = IF Protected /\ OnRecord(r) THEN entry
                ELSE [entry EXCEPT ![r] = [@ EXCEPT !.status = "skipped"]]
    /\ importer' = [importer EXCEPT ![p] = [@ EXCEPT !.todo = importer[p].todo \ {r}]]
    /\ UNCHANGED <<outside, lead, mine, notes>>

Faulty_MatchRow(p) ==
    LET r == Min(importer[p].todo)
        c == LeadOf[r]
        found == {d \in SheetLeads : lead[d] # "none"}
        matches == IF Protected THEN {d \in found : Person[d] = Person[c]} ELSE found \cap {c}
    IN
    /\ importer[p].pc = "rows" /\ importer[p].todo # {}
    /\ r \in usable
    /\ importer' =
          IF Protected /\ OnRecord(r) THEN [importer EXCEPT ![p] = [@ EXCEPT !.todo = importer[p].todo \ {r}]]
          ELSE [importer EXCEPT ![p] = [@ EXCEPT !.row = r,
                   !.pc = IF matches = {} THEN "create"
                          ELSE IF matches = {c} THEN "attach" ELSE "mark",
                   !.field = IF matches = {c} THEN lead[c] ELSE "none",
                   !.same = matches = {c}]]
    /\ UNCHANGED <<outside, entry, lead, mine, notes>>

\* The transaction of processRow up to its first write: the entry again, and the match.
MatchRow(p) ==
    LET r == Min(importer[p].todo)
        c == LeadOf[r]
        found == {d \in SheetLeads : lead[d] # "none"}
        matches == IF Protected THEN {d \in found : Person[d] = Person[c]} ELSE found \cap {c}
    IN
    /\ importer[p].pc = "rows" /\ importer[p].todo # {} /\ LockFree
    /\ r \in usable
    /\ importer' =
          IF Protected /\ OnRecord(r) THEN [importer EXCEPT ![p] = [@ EXCEPT !.todo = importer[p].todo \ {r}]]
          ELSE [importer EXCEPT ![p] = [@ EXCEPT !.row = r,
                   !.pc = IF matches = {} THEN "create"
                          ELSE IF matches = {c} THEN "attach" ELSE "mark",
                   !.field = IF matches = {c} THEN lead[c] ELSE "none",
                   !.same = matches = {c}]]
    /\ UNCHANGED <<outside, entry, lead, mine, notes>>

\* registrarLinha, with the activity on the lead.
EnterRow(r) ==
    /\ entry' = [entry EXCEPT ![r] = [@ EXCEPT !.status = "ok"]]
    /\ notes' = [notes EXCEPT ![r] = @ + 1]

\* A lead that came meanwhile breaks the unique key.
CreateLead(p) ==
    LET r == importer[p].row  c == LeadOf[r] IN
    /\ importer[p].pc = "create"
    /\ IF lead[c] # "none"
       THEN /\ importer' = [importer EXCEPT ![p] = ToMark(@)]
            /\ UNCHANGED <<entry, lead, mine, notes>>
       ELSE /\ lead' = [lead EXCEPT ![c] = "form"]
            /\ mine' = mine \cup {c}
            /\ EnterRow(r)
            /\ importer' = [importer EXCEPT ![p] = Dealt(@, TRUE)]
    /\ UNCHANGED outside

Faulty_AttachRow(p) ==
    LET r == importer[p].row  c == LeadOf[r] IN
    /\ importer[p].pc = "attach"
    /\ IF lead[c] = "none"
       THEN /\ importer' = [importer EXCEPT ![p] = ToMark(@)]
            /\ UNCHANGED <<entry, lead, notes>>
       ELSE /\ lead' = [lead EXCEPT ![c] = IF importer[p].field = "empty" THEN "form"
                                            ELSE importer[p].field]
            /\ EnterRow(r)
            /\ importer' = [Rewritten(c) EXCEPT ![p] = Dealt(@, TRUE)]
    /\ UNCHANGED <<outside, mine>>

\* The custom fields are written back whole, the empty ones filled in.
AttachRow(p) ==
    LET r == importer[p].row  c == LeadOf[r] IN
    /\ importer[p].pc = "attach"
    /\ IF lead[c] = "none" \/ (Protected /\ ~importer[p].same)
       THEN /\ importer' = [importer EXCEPT ![p] = ToMark(@)]
            /\ UNCHANGED <<entry, lead, notes>>
       ELSE /\ lead' = [lead EXCEPT ![c] = IF importer[p].field = "empty" THEN "form"
                                            ELSE importer[p].field]
            /\ EnterRow(r)
            /\ importer' = [Rewritten(c) EXCEPT ![p] = Dealt(@, TRUE)]
    /\ UNCHANGED <<outside, mine>>

\* A statement of the transaction fails and all of it is undone.
RowThrows(p) ==
    /\ InTransaction(p)
    /\ Upset
    /\ importer' = [importer EXCEPT ![p] = ToMark(@)]
    /\ UNCHANGED <<published, usable, entry, lead, mine, notes>>

Faulty_MarkError(p) ==
    LET r == importer[p].row IN
    /\ importer[p].pc = "mark" /\ LockFree
    /\ entry' = [entry EXCEPT ![r] = [status |-> "error", attempts |-> @.attempts + 1]]
    /\ importer' = [importer EXCEPT ![p] = Dealt(@, FALSE)]
    /\ UNCHANGED <<outside, lead, mine, notes>>

\* marcarLinha: an error counts an attempt, unless another process has settled the row.
MarkError(p) ==
    LET r == importer[p].row IN
    /\ importer[p].pc = "mark" /\ LockFree
    /\ entry' = IF Protected /\ OnRecord(r) THEN entry
                ELSE [entry EXCEPT ![r] = [status |-> "error", attempts |-> @.attempts + 1]]
    /\ importer' = [importer EXCEPT ![p] = Dealt(@, FALSE)]
    /\ UNCHANGED <<outside, lead, mine, notes>>

\* The list, the context or a mark fails: the whole run ends, and the sheet is not noted.
ImportThrows(p) ==
    /\ importer[p].pc \in {"read", "rows", "mark"}
    /\ Upset
    /\ importer' = [importer EXCEPT ![p] = NotRunning(@.last)]
    /\ UNCHANGED <<published, usable, entry, lead, mine, notes>>

\* Only a run without an error notes the sheet as done.
EndRun(p) ==
    /\ importer[p].pc = "rows" /\ importer[p].todo = {}
    /\ importer' = [importer EXCEPT ![p] = NotRunning(IF @.clean THEN @.csv ELSE @.last)]
    /\ UNCHANGED <<outside, entry, lead, mine, notes>>

RunImport(p) ==
    \/ DownloadSheet(p) \/ ReadEntries(p) \/ SkipRow(p) \/ MatchRow(p)
    \/ CreateLead(p) \/ AttachRow(p) \/ MarkError(p) \/ EndRun(p)

--------------------------------------------------------------------------------
(* The rest of the system.                                                    *)

AddRow ==
    /\ published < MaxRows
    /\ published' = published + 1
    /\ usable' \in {usable, usable \cup {published'}}
    /\ UNCHANGED <<entry, lead, mine, importer, notes, upsets>>

\* Webhooks and people create, edit and delete leads; a message moves updated_at too.
LeadWritten ==
    /\ Upset
    /\ \E c \in SheetLeads :
          \/ lead[c] = "none" /\ lead' = [lead EXCEPT ![c] = "empty"]
          \/ /\ lead[c] # "none"
             /\ \E f \in {lead[c], "hand", "none"} : lead' = [lead EXCEPT ![c] = f]
       /\ importer' = Rewritten(c)
       /\ mine' = {d \in mine : lead'[d] # "none"}
    /\ UNCHANGED <<published, usable, entry, notes>>

ImportersDie ==
    /\ Upset
    /\ \E x \in {Process[p] : p \in Importers} :
          importer' = [p \in Importers |-> IF Process[p] = x THEN NotRunning(Unread)
                                          ELSE importer[p]]
    /\ UNCHANGED <<published, usable, entry, lead, mine, notes>>

ImportNext ==
    \/ \E p \in Importers : RunImport(p) \/ RowThrows(p) \/ ImportThrows(p)
    \/ AddRow \/ LeadWritten \/ ImportersDie

ImportSpec == ImportInit /\ [][ImportNext]_importVars
--------------------------------------------------------------------------------
\* A row is written on a lead once, whatever fails, dies or runs twice: it is not
\* imported again by another process, nor after it was marked. (run: the sheet is
\* read again after every restart, and SheetImportRow is what remembers.)
RowEntersOnce == Protected => \A r \in SheetRows : notes[r] <= 1

\* Two rows of one person, in whatever sheets, never become two leads.
\* (resolveConsortiumMatch: "Never steal a partner lead or guess".)
OneLeadPerPerson ==
    Protected => \A c, d \in mine : Person[c] = Person[d] => c = d

\* What a person wrote on a lead is not overwritten by an import that read the
\* lead before. (processRow: "tentar novamente preservando a edicao".)
HandwrittenStays ==
    [][Protected => \A c \in SheetLeads :
          lead[c] = "hand" /\ lead'[c] # "none" => lead'[c] = "hand"]_importVars

\* A sheet that an importer passes over, because it is the one it noted, holds no
\* row that is left to import. (run: `hash === this.lastHash`.)
RowSettled(r) == OnRecord(r) \/ Exhausted(r)
SheetDoneIsSettled ==
    Protected => \A p \in Importers : importer[p].last # Unread =>
                     \A r \in importer[p].last : RowSettled(r)

\* The import catches up: every row of the sheet ends on record, as a lead, as
\* skipped, or as an error that was tried as often as allowed. (run: only a run
\* without errors notes the sheet as done, so the next one tries again.)
RowsSettle == []<>(\A r \in SheetRows : r <= published => RowSettled(r))
================================================================================
