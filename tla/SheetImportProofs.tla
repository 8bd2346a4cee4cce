--------------------------- MODULE SheetImportProofs ---------------------------
(* Proofs about SheetImport, for any importers, sheets, leads and bounds: the  *)
(* lock and the second look at SheetImportRow keep a row from entering twice   *)
(* and a person from becoming two leads, and updated_at protects an edit.      *)
EXTENDS SheetImport, TLAPS

Steps == {"idle", "read", "rows", "create", "attach", "mark"}
Fields == {"none", "empty", "form", "hand"}
Sheets == (SUBSET SheetRows) \cup {Unread}
ImporterRow ==
    [pc : Steps, last : Sheets, csv : SUBSET SheetRows, todo : SUBSET SheetRows, clean : BOOLEAN,
     row : SheetRows \cup {Unread}, field : Fields, same : BOOLEAN]
EntryRow == [status : {"none", "ok", "skipped", "error"}, attempts : Nat]

ImportTypeOK ==
    /\ published \in Nat /\ usable \subseteq SheetRows
    /\ entry \in [SheetRows -> EntryRow]
    /\ lead \in [SheetLeads -> Fields]
    /\ mine \subseteq SheetLeads
    /\ importer \in [Importers -> ImporterRow]
    /\ notes \in [SheetRows -> Nat]

\* What an importer in the middle of a row knows of the row and of its lead.
InHand(p) ==
    /\ importer[p].pc \in {"create", "attach", "mark"} => importer[p].row \in SheetRows
    /\ importer[p].pc = "attach" /\ importer[p].same
          => importer[p].field = lead[LeadOf[importer[p].row]]
    /\ importer[p].pc = "attach" => importer[p].field # "none"
    /\ importer[p].pc # "attach" => ~importer[p].same

\* The lock: what is true of the one importer that is in a transaction.
OneAtATime == \A p, q \in Importers : InTransaction(p) /\ InTransaction(q) => p = q
StillOpen == \A p \in Importers : InTransaction(p) => ~OnRecord(importer[p].row)
NoTwin == \A p \in Importers : importer[p].pc = "create" =>
              \A d \in mine : Person[d] # Person[LeadOf[importer[p].row]]

Counted == \A r \in SheetRows : notes[r] = IF entry[r].status = "ok" THEN 1 ELSE 0
MineExist == \A c \in mine : lead[c] # "none"

Locked == OneAtATime /\ StillOpen /\ NoTwin /\ Counted /\ OneLeadPerPerson
ImportInv == /\ ImportTypeOK
             /\ \A p \in Importers : InHand(p)
             /\ MineExist
             /\ Protected => Locked

--------------------------------------------------------------------------------
(* The type of the locals of a run is opaque outside these lemmas.            *)

LEMMA RowFields ==
  ASSUME NEW r \in ImporterRow
  PROVE  /\ r.pc \in Steps /\ r.last \in Sheets /\ r.csv \subseteq SheetRows
         /\ r.todo \subseteq SheetRows /\ r.clean \in BOOLEAN
         /\ r.row \in SheetRows \cup {Unread} /\ r.field \in Fields /\ r.same \in BOOLEAN
  BY DEF ImporterRow

LEMMA NotRunningRow ==
  ASSUME NEW hash \in Sheets
  PROVE  /\ NotRunning(hash) \in ImporterRow
         /\ NotRunning(hash).pc = "idle" /\ NotRunning(hash).same = FALSE
  BY DEF NotRunning, ImporterRow, Steps, Fields, Sheets

\* What Dealt, ToMark and Rewritten do to an importer.
LEMMA DealtRow ==
  ASSUME NEW x \in ImporterRow, NEW clean \in BOOLEAN
  PROVE  /\ Dealt(x, clean) \in ImporterRow
         /\ Dealt(x, clean).pc = "rows" /\ Dealt(x, clean).same = FALSE
  BY DEF Dealt, ImporterRow, Steps, Fields

LEMMA ToMarkRow ==
  ASSUME NEW x \in ImporterRow
  PROVE  /\ ToMark(x) \in ImporterRow
         /\ ToMark(x).pc = "mark" /\ ToMark(x).same = FALSE /\ ToMark(x).row = x.row
  BY DEF ToMark, ImporterRow, Steps, Fields

LEMMA ProgressRow ==
  ASSUME NEW x \in ImporterRow, NEW s \in SUBSET SheetRows
  PROVE  /\ [x EXCEPT !.todo = s] \in ImporterRow
         /\ [x EXCEPT !.todo = s].pc = x.pc
         /\ [x EXCEPT !.todo = s].same = x.same
  BY DEF ImporterRow

LEMMA RewrittenRow ==
  ASSUME ImportTypeOK, NEW c
  PROVE  /\ Rewritten(c) \in [Importers -> ImporterRow]
         /\ \A q \in Importers :
               /\ Rewritten(c)[q].pc = importer[q].pc
               /\ Rewritten(c)[q].row = importer[q].row
               /\ Rewritten(c)[q].field = importer[q].field
               /\ Rewritten(c)[q].same => importer[q].same /\ LeadOf[importer[q].row] # c
<1>1. ASSUME NEW q \in Importers
      PROVE  /\ importer[q] \in ImporterRow
             /\ Rewritten(c)[q] = [importer[q] EXCEPT
                    !.same = importer[q].same /\ LeadOf[importer[q].row] # c]
  BY DEF Rewritten, ImportTypeOK, ImporterRow
<1>2. ASSUME NEW q \in Importers
      PROVE  Rewritten(c)[q] \in ImporterRow
  BY <1>1 DEF ImporterRow
<1> QED BY <1>1, <1>2 DEF Rewritten, ImporterRow

--------------------------------------------------------------------------------
(* Steps that leave importer p outside a transaction and touch no lead.       *)

\* importer p ends its step outside a transaction; nobody else moves.
Outside(p) ==
    /\ importer' \in [Importers -> ImporterRow]
    /\ \A q \in Importers : q # p => importer'[q] = importer[q]
    /\ importer'[p].pc \in {"idle", "read", "rows", "mark"} /\ ~importer'[p].same
    /\ importer'[p].pc = "mark" => importer'[p].row \in SheetRows

\* The entries stay, or one that is not on record changes while nobody holds the lock.
EntriesKept ==
    \/ entry' = entry
    \/ /\ entry' \in [SheetRows -> EntryRow]
       /\ Protected => /\ \A q \in Importers : ~InTransaction(q)
                       /\ \A r \in SheetRows : entry[r].status = "ok" <=> entry'[r].status = "ok"

LEMMA OutsideStep ==
  ASSUME ImportInv, NEW p \in Importers, Outside(p), EntriesKept,
         published' \in Nat, usable' \subseteq SheetRows, UNCHANGED <<lead, mine, notes>>
  PROVE  ImportInv'
<1> USE DEF ImportInv
<1>1. ImportTypeOK'
  BY DEF ImportTypeOK, Outside, EntriesKept
<1>2. (\A q \in Importers : InHand(q))'
  BY DEF Outside, InHand
<1>3. MineExist'
  BY DEF MineExist
<1>4. ASSUME Protected PROVE Locked'
  <2>1. \A q \in Importers : InTransaction(q)' => q # p /\ InTransaction(q)
    BY DEF Outside, InTransaction
  <2>2. OneAtATime'
    BY <1>4, <2>1 DEF OneAtATime, Locked
  <2>3. StillOpen'
    BY <1>4, <2>1 DEF StillOpen, Locked, EntriesKept, Outside, OnRecord
  <2>4. NoTwin'
    BY <1>4 DEF NoTwin, Locked, Outside
  <2>5. Counted'
    BY <1>4 DEF Counted, Locked, EntriesKept
  <2>6. OneLeadPerPerson'
    BY <1>4 DEF OneLeadPerPerson, Locked
  <2> QED BY <2>2, <2>3, <2>4, <2>5, <2>6 DEF Locked
<1> QED BY <1>1, <1>2, <1>3, <1>4

--------------------------------------------------------------------------------
(* The steps of a run.                                                        *)

\* An importer moves on, outside a transaction.
LEMMA MovesOutside ==
  ASSUME importer \in [Importers -> ImporterRow], NEW p \in Importers, NEW x \in ImporterRow,
         x.pc \in {"idle", "read", "rows", "mark"}, ~x.same,
         x.pc = "mark" => x.row \in SheetRows,
         importer' = [importer EXCEPT ![p] = x]
  PROVE  Outside(p)
<1>1. importer'[p] = x /\ importer' \in [Importers -> ImporterRow]
  OBVIOUS
<1>2. \A q \in Importers : q # p => importer'[q] = importer[q]
  OBVIOUS
<1> QED BY <1>1, <1>2 DEF Outside

LEMMA EntryFacts ==
  ASSUME NEW x \in EntryRow
  PROVE  /\ [x EXCEPT !.status = "ok"] \in EntryRow
         /\ [x EXCEPT !.status = "ok"].status = "ok"
         /\ [x EXCEPT !.status = "skipped"] \in EntryRow
         /\ [x EXCEPT !.status = "skipped"].status = "skipped"
         /\ [status |-> "error", attempts |-> x.attempts + 1] \in EntryRow
  BY DEF EntryRow

\* A row that is not entered is marked: skipped, or as an error.
LEMMA MarkedEntries ==
  ASSUME ImportTypeOK, LockFree, NEW r,
         \/ entry' = IF Protected /\ OnRecord(r) THEN entry
                     ELSE [entry EXCEPT ![r] = [@ EXCEPT !.status = "skipped"]]
         \/ entry' = IF Protected /\ OnRecord(r) THEN entry
                     ELSE [entry EXCEPT ![r] = [status |-> "error", attempts |-> @.attempts + 1]]
  PROVE  EntriesKept
<1>0. entry \in [SheetRows -> EntryRow]
  BY DEF ImportTypeOK
<1>1. CASE r \notin SheetRows
  <2>1. ASSUME NEW x PROVE [entry EXCEPT ![r] = x] = entry
    BY <1>0, <1>1
  <2> QED BY <2>1 DEF EntriesKept
<1>2. CASE r \in SheetRows /\ ~(Protected /\ OnRecord(r))
  <2>1. entry[r] \in EntryRow
    BY <1>0, <1>2
  <2>2. PICK x \in EntryRow : entry' = [entry EXCEPT ![r] = x] /\ x.status # "ok"
    BY <1>2, <2>1, EntryFacts
  <2>3. Protected => entry[r].status # "ok"
    BY <1>2 DEF OnRecord
  <2> QED BY <1>0, <1>2, <2>2, <2>3 DEF EntriesKept, LockFree
<1>3. CASE Protected /\ OnRecord(r)
  BY <1>3 DEF EntriesKept
<1> QED BY <1>1, <1>2, <1>3

LEMMA RunOutside ==
  ASSUME ImportInv, NEW p \in Importers,
         \/ DownloadSheet(p) \/ ReadEntries(p) \/ SkipRow(p) \/ MarkError(p) \/ EndRun(p)
         \/ RowThrows(p) \/ ImportThrows(p)
  PROVE  ImportInv'
<1> USE DEF ImportInv
<1>0. /\ importer[p] \in ImporterRow /\ importer \in [Importers -> ImporterRow]
      /\ published' \in Nat /\ usable' \subseteq SheetRows
  BY DEF ImportTypeOK, DownloadSheet, ReadEntries, SkipRow, MarkError, EndRun, RowThrows,
         ImportThrows, outside
<1>i. InHand(p)
  OBVIOUS
<1>1. CASE DownloadSheet(p)
  <2> DEFINE csv == {r \in Sheet[p] : r <= published}
  <2>1. csv \in SUBSET SheetRows
    BY ImportAssumption DEF SheetRows
  <2>1a. /\ importer' = [importer EXCEPT ![p] =
                           [importer[p] EXCEPT !.pc = "read", !.csv = csv, !.clean = TRUE]]
         /\ importer[p].pc = "idle"
    BY <1>1 DEF DownloadSheet
  <2> HIDE DEF csv
  <2>1b. ~importer[p].same
    BY <1>i, <2>1a DEF InHand
  <2> DEFINE x == [importer[p] EXCEPT !.pc = "read", !.csv = csv, !.clean = TRUE]
  <2>1c. x \in ImporterRow /\ x.pc = "read" /\ ~x.same
    BY <1>0, <2>1, <2>1b DEF ImporterRow, Steps
  <2>1d. importer' = [importer EXCEPT ![p] = x]
    BY <2>1a
  <2> HIDE DEF x
  <2>2. Outside(p)
    BY <1>0, <2>1c, <2>1d, MovesOutside
  <2>3. UNCHANGED <<lead, mine, notes, entry>>
    BY <1>1 DEF DownloadSheet
  <2> QED BY <1>0, <2>2, <2>3, OutsideStep DEF EntriesKept
<1>2. CASE ReadEntries(p)
  <2> DEFINE todo == {r \in importer[p].csv : ~OnRecord(r) /\ ~Exhausted(r)}
  <2>1. importer' = [importer EXCEPT ![p] = [importer[p] EXCEPT !.pc = "rows", !.todo = todo]]
    BY <1>2 DEF ReadEntries
  <2>2. importer[p].csv \subseteq SheetRows
    BY <1>0, RowFields
  <2>2a. todo \in SUBSET SheetRows
    BY <2>2
  <2>2b. importer[p].pc = "read"
    BY <1>2 DEF ReadEntries
  <2> HIDE DEF todo
  <2>2c. ~importer[p].same
    BY <1>i, <2>2b DEF InHand
  <2> DEFINE x == [importer[p] EXCEPT !.pc = "rows", !.todo = todo]
  <2>2d. x \in ImporterRow /\ x.pc = "rows" /\ ~x.same
    BY <1>0, <2>2a, <2>2c DEF ImporterRow, Steps
  <2>2e. importer' = [importer EXCEPT ![p] = x]
    BY <2>1
  <2> HIDE DEF x
  <2>3. Outside(p)
    BY <1>0, <2>2d, <2>2e, MovesOutside
  <2>4. UNCHANGED <<lead, mine, notes, entry>>
    BY <1>2 DEF ReadEntries
  <2> QED BY <1>0, <2>3, <2>4, OutsideStep DEF EntriesKept
<1>3. CASE SkipRow(p)
  <2> DEFINE r == Min(importer[p].todo)
  <2>1. importer' = [importer EXCEPT ![p] = [importer[p] EXCEPT !.todo = importer[p].todo \ {r}]]
    BY <1>3 DEF SkipRow
  <2>2. importer[p].todo \ {r} \in SUBSET SheetRows /\ importer[p].pc = "rows"
    BY <1>0, <1>3, RowFields DEF SkipRow
  <2>4. EntriesKept
    BY <1>3, MarkedEntries DEF SkipRow
  <2>5. UNCHANGED <<lead, mine, notes>>
    BY <1>3 DEF SkipRow
  <2> HIDE DEF r
  <2>2a. ~importer[p].same
    BY <1>i, <2>2 DEF InHand
  <2> DEFINE rest == importer[p].todo \ {r}
           y == [importer[p] EXCEPT !.todo = rest]
  <2>2b. rest \in SUBSET SheetRows /\ importer' = [importer EXCEPT ![p] = y]
    BY <2>1, <2>2
  <2> HIDE DEF rest
  <2>2c. y \in ImporterRow /\ y.pc = importer[p].pc /\ y.same = importer[p].same
    BY <1>0, <2>2b, ProgressRow
  <2> HIDE DEF y
  <2>3. Outside(p)
    BY <1>0, <2>2, <2>2a, <2>2b, <2>2c, MovesOutside
  <2> QED BY <1>0, <2>3, <2>4, <2>5, OutsideStep
<1>4. CASE MarkError(p)
  <2>1. Outside(p)
    BY <1>0, <1>4, DealtRow DEF Outside, MarkError
  <2>2. UNCHANGED <<lead, mine, notes>>
    BY <1>4 DEF MarkError
  <2>3. EntriesKept
    BY <1>4, MarkedEntries DEF MarkError
  <2> QED BY <1>0, <2>1, <2>2, <2>3, OutsideStep
<1>5. CASE EndRun(p) \/ ImportThrows(p)
  <2>0. importer[p].csv \in Sheets /\ importer[p].last \in Sheets
    BY <1>0, RowFields DEF Sheets
  <2>0a. \/ importer' = [importer EXCEPT ![p] = NotRunning(importer[p].last)]
        \/ importer' = [importer EXCEPT ![p] = NotRunning(importer[p].csv)]
    BY <1>5 DEF EndRun, ImportThrows
  <2>1. PICK hash \in Sheets : importer' = [importer EXCEPT ![p] = NotRunning(hash)]
    BY <2>0, <2>0a
  <2>2. Outside(p)
    BY <1>0, <2>1, NotRunningRow DEF Outside
  <2>3. UNCHANGED <<lead, mine, notes, entry>>
    BY <1>5 DEF EndRun, ImportThrows
  <2> QED BY <1>0, <2>2, <2>3, OutsideStep DEF EntriesKept
<1>6. CASE RowThrows(p)
  <2>1. importer[p].row \in SheetRows /\ importer' = [importer EXCEPT ![p] = ToMark(importer[p])]
    BY <1>6, <1>i DEF RowThrows, InTransaction, InHand
  <2>2. Outside(p)
    BY <1>0, <2>1, ToMarkRow DEF Outside
  <2>3. UNCHANGED <<lead, mine, notes, entry>>
    BY <1>6 DEF RowThrows
  <2> QED BY <1>0, <2>2, <2>3, OutsideStep DEF EntriesKept
<1> QED BY <1>1, <1>2, <1>3, <1>4, <1>5, <1>6

--------------------------------------------------------------------------------
(* The steps that enter a transaction and commit it.                          *)

LEMMA MatchRowStep ==
  ASSUME ImportInv, NEW p \in Importers, MatchRow(p)
  PROVE  ImportInv'
<1> DEFINE r == Min(importer[p].todo)
           found == {d \in SheetLeads : lead[d] # "none"}
           matches == IF Protected THEN {d \in found : Person[d] = Person[LeadOf[r]]}
                      ELSE found \cap {LeadOf[r]}
           step == IF matches = {} THEN "create"
                   ELSE IF matches = {LeadOf[r]} THEN "attach" ELSE "mark"
           field == IF matches = {LeadOf[r]} THEN lead[LeadOf[r]] ELSE "none"
           x == [importer[p] EXCEPT !.row = r, !.pc = step, !.field = field,
                                    !.same = matches = {LeadOf[r]}]
<1>1. /\ importer[p] \in ImporterRow /\ importer \in [Importers -> ImporterRow]
      /\ lead \in [SheetLeads -> Fields]
      /\ ImportTypeOK /\ MineExist /\ \A q \in Importers : InHand(q)
  BY DEF ImportInv, ImportTypeOK
<1>2. /\ r \in usable /\ r \in SheetRows /\ LockFree /\ importer[p].pc = "rows"
      /\ UNCHANGED <<published, usable, upsets, entry, lead, mine, notes>>
  BY <1>1 DEF MatchRow, ImportTypeOK, outside
<1>3. LeadOf[r] \in SheetLeads
  BY <1>2, ImportAssumption DEF SheetRows
<1>4. CASE Protected /\ OnRecord(r)
  <2>1. importer' = [importer EXCEPT ![p] = [importer[p] EXCEPT !.todo = importer[p].todo \ {r}]]
    BY <1>4 DEF MatchRow
  <2>2. importer[p].todo \ {r} \in SUBSET SheetRows /\ ~importer[p].same
    BY <1>1, <1>2, RowFields DEF InHand
  <2> HIDE DEF r
  <2> DEFINE rest == importer[p].todo \ {r}
           y == [importer[p] EXCEPT !.todo = rest]
  <2>2b. rest \in SUBSET SheetRows /\ importer' = [importer EXCEPT ![p] = y]
    BY <2>1, <2>2
  <2> HIDE DEF rest
  <2>2c. y \in ImporterRow /\ y.pc = importer[p].pc /\ y.same = importer[p].same
    BY <1>1, <2>2b, ProgressRow
  <2> HIDE DEF y
  <2>3. Outside(p)
    BY <1>1, <1>2, <2>2, <2>2b, <2>2c, MovesOutside
  <2> QED BY <1>1, <1>2, <2>3, OutsideStep DEF EntriesKept, ImportTypeOK
<1>5. CASE ~(Protected /\ OnRecord(r))
  <2>1. importer' = [importer EXCEPT ![p] = x]
    BY <1>5 DEF MatchRow
  <2>2. /\ step \in {"create", "attach", "mark"} /\ field \in Fields
        /\ step = "attach" <=> matches = {LeadOf[r]}
        /\ step = "create" <=> matches = {}
        /\ matches = {LeadOf[r]} => field = lead[LeadOf[r]] /\ field # "none"
    BY <1>1, <1>3 DEF Fields
  <2>3. Protected /\ matches = {} => \A d \in mine : Person[d] # Person[LeadOf[r]]
    BY <1>1 DEF MineExist, ImportTypeOK
  <2> HIDE DEF r, matches, step, field
  <2>4. /\ x \in ImporterRow /\ x.row = r /\ x.pc = step /\ x.field = field
        /\ x.same <=> matches = {LeadOf[r]}
    <3>1. /\ x \in ImporterRow /\ x.row = r /\ x.pc = step /\ x.field = field
          /\ x.same = (matches = {LeadOf[r]})
      BY <1>1, <1>2, <2>2 DEF ImporterRow, Steps
    <3> QED BY <3>1
  <2> HIDE DEF x
  <2>5. /\ importer' \in [Importers -> ImporterRow] /\ importer'[p] = x
        /\ \A q \in Importers : q # p => importer'[q] = importer[q]
    BY <1>1, <2>1, <2>4
  <2>6. ImportTypeOK'
    BY <1>1, <1>2, <2>5 DEF ImportTypeOK
  <2>7. ASSUME NEW q \in Importers PROVE InHand(q)'
    BY <1>1, <1>2, <2>2, <2>4, <2>5 DEF InHand
  <2>8. MineExist'
    BY <1>1, <1>2 DEF MineExist
  <2>9. ASSUME Protected PROVE Locked'
    <3>1. \A q \in Importers : InTransaction(q)' => q = p
      BY <1>2, <2>5, <2>9 DEF LockFree, InTransaction
    <3>2. OneAtATime'
      BY <3>1 DEF OneAtATime
    <3>3. StillOpen'
      BY <1>2, <1>5, <2>4, <2>5, <2>9, <3>1 DEF StillOpen, OnRecord
    <3>4. \A q \in Importers : importer'[q].pc = "create" => q = p
      BY <3>1 DEF InTransaction
    <3>5. NoTwin'
      BY <1>2, <2>2, <2>3, <2>4, <2>5, <2>9, <3>4 DEF NoTwin
    <3>6. Counted' /\ OneLeadPerPerson'
      BY <1>2, <2>9 DEF Counted, OneLeadPerPerson, ImportInv, Locked
    <3> QED BY <3>2, <3>3, <3>5, <3>6 DEF Locked
  <2> QED BY <2>6, <2>7, <2>8, <2>9 DEF ImportInv
<1> QED BY <1>4, <1>5

\* A row entered by importer p: no importer is in a transaction after it.
LEMMA EnteredCounts ==
  ASSUME ImportInv, NEW p \in Importers, InTransaction(p), EnterRow(importer[p].row)
  PROVE  /\ entry' \in [SheetRows -> EntryRow] /\ notes' \in [SheetRows -> Nat]
         /\ Protected => Counted'
<1>1. importer[p].row \in SheetRows
  BY DEF ImportInv, InHand, InTransaction
<1> DEFINE r == importer[p].row
<1>2. /\ entry \in [SheetRows -> EntryRow] /\ notes \in [SheetRows -> Nat]
      /\ entry[r] \in EntryRow /\ notes[r] \in Nat
  BY <1>1 DEF ImportInv, ImportTypeOK
<1>3. /\ entry' = [entry EXCEPT ![r] = [entry[r] EXCEPT !.status = "ok"]]
      /\ notes' = [notes EXCEPT ![r] = notes[r] + 1]
  BY DEF EnterRow
<1>4. /\ [entry[r] EXCEPT !.status = "ok"] \in EntryRow
      /\ [entry[r] EXCEPT !.status = "ok"].status = "ok"
  BY <1>2, EntryFacts
<1>5. ASSUME Protected PROVE Counted'
  <2>1. Counted /\ ~OnRecord(r)
    BY <1>5 DEF ImportInv, Locked, StillOpen
  <2>2. notes[r] = 0
    BY <1>1, <2>1 DEF Counted, OnRecord
  <2>3. ASSUME NEW s \in SheetRows
        PROVE  notes'[s] = IF entry'[s].status = "ok" THEN 1 ELSE 0
    <3>1. CASE s = r
      BY <1>1, <1>2, <1>3, <1>4, <2>2, <3>1
    <3>2. CASE s # r
      BY <1>1, <1>2, <1>3, <2>1, <3>2 DEF Counted
    <3> QED BY <3>1, <3>2
  <2> QED BY <2>3 DEF Counted
<1> QED BY <1>1, <1>2, <1>3, <1>4, <1>5

LEMMA CreateLeadStep ==
  ASSUME ImportInv, NEW p \in Importers, CreateLead(p)
  PROVE  ImportInv'
<1> DEFINE r == importer[p].row
           c == LeadOf[r]
<1>1. /\ importer[p] \in ImporterRow /\ importer \in [Importers -> ImporterRow]
      /\ lead \in [SheetLeads -> Fields] /\ mine \subseteq SheetLeads
      /\ published \in Nat /\ usable \subseteq SheetRows
      /\ MineExist /\ \A q \in Importers : InHand(q)
  BY DEF ImportInv, ImportTypeOK
<1>2. r \in SheetRows /\ importer[p].pc = "create" /\ UNCHANGED <<published, usable>>
  BY <1>1 DEF CreateLead, InHand, outside
<1>3. c \in SheetLeads
  BY <1>2, ImportAssumption DEF SheetRows
<1>4. CASE lead[c] # "none"
  <2>1. /\ importer' = [importer EXCEPT ![p] = ToMark(importer[p])]
        /\ UNCHANGED <<entry, lead, mine, notes>>
    BY <1>4 DEF CreateLead
  <2>2. Outside(p)
    BY <1>1, <1>2, <2>1, ToMarkRow, MovesOutside
  <2> QED BY <1>1, <1>2, <2>1, <2>2, OutsideStep DEF EntriesKept
<1>5. CASE lead[c] = "none"
  <2>1. /\ lead' = [lead EXCEPT ![c] = "form"] /\ mine' = mine \cup {c} /\ EnterRow(r)
        /\ importer' = [importer EXCEPT ![p] = Dealt(importer[p], TRUE)]
    BY <1>5 DEF CreateLead
  <2>2. InTransaction(p)
    BY <1>2 DEF InTransaction
  <2>3. /\ entry' \in [SheetRows -> EntryRow] /\ notes' \in [SheetRows -> Nat]
        /\ Protected => Counted'
    BY <2>1, <2>2, EnteredCounts
  <2>4. Outside(p)
    BY <1>1, <2>1, DealtRow, MovesOutside
  <2>5. /\ lead' \in [SheetLeads -> Fields] /\ lead'[c] = "form"
        /\ \A d \in SheetLeads : d # c => lead'[d] = lead[d]
    BY <1>1, <1>3, <2>1 DEF Fields
  <2> HIDE DEF c
  <2>6. ImportTypeOK'
    BY <1>1, <1>2, <1>3, <2>1, <2>3, <2>4, <2>5 DEF ImportTypeOK, Outside
  <2>7. ASSUME NEW q \in Importers PROVE InHand(q)'
    <3>1. CASE q = p
      BY <2>4, <3>1 DEF Outside, InHand
    <3>2. CASE q # p
      <4>1. importer'[q] = importer[q] /\ InHand(q)
        BY <1>1, <2>4, <3>2 DEF Outside
      <4>2. importer[q].pc = "attach" /\ importer[q].same
              => LeadOf[importer[q].row] \in SheetLeads /\ LeadOf[importer[q].row] # c
        BY <1>5, <4>1, ImportAssumption DEF InHand, SheetRows
      <4> QED BY <2>5, <4>1, <4>2 DEF InHand
    <3> QED BY <3>1, <3>2
  <2>8. MineExist'
    BY <1>1, <2>1, <2>5 DEF MineExist
  <2>9. ASSUME Protected PROVE Locked'
    <3>0. Locked
      BY <2>9 DEF ImportInv
    <3>1. \A q \in Importers : ~InTransaction(q)'
      BY <2>2, <2>4, <3>0 DEF Locked, OneAtATime, InTransaction, Outside
    <3>2. OneAtATime' /\ StillOpen' /\ NoTwin'
      BY <3>1 DEF OneAtATime, StillOpen, NoTwin, InTransaction
    <3>3. \A d \in mine : Person[d] # Person[c]
      BY <1>2, <3>0 DEF Locked, NoTwin, c
    <3>4. OneLeadPerPerson'
      BY <2>1, <2>9, <3>0, <3>3 DEF Locked, OneLeadPerPerson
    <3> QED BY <2>3, <2>9, <3>2, <3>4 DEF Locked
  <2> QED BY <2>6, <2>7, <2>8, <2>9 DEF ImportInv
<1> QED BY <1>4, <1>5

LEMMA AttachRowStep ==
  ASSUME ImportInv, NEW p \in Importers, AttachRow(p)
  PROVE  /\ ImportInv'
         /\ Protected => \A d \in SheetLeads : lead[d] = "hand" => lead'[d] = "hand"
<1> DEFINE r == importer[p].row
           c == LeadOf[r]
<1>1. /\ importer[p] \in ImporterRow /\ importer \in [Importers -> ImporterRow]
      /\ lead \in [SheetLeads -> Fields] /\ mine \subseteq SheetLeads
      /\ published \in Nat /\ usable \subseteq SheetRows
      /\ ImportTypeOK /\ MineExist /\ \A q \in Importers : InHand(q)
  BY DEF ImportInv, ImportTypeOK
<1>2. r \in SheetRows /\ importer[p].pc = "attach" /\ UNCHANGED <<published, usable, mine>>
  BY <1>1 DEF AttachRow, InHand, outside
<1>3. c \in SheetLeads
  BY <1>2, ImportAssumption DEF SheetRows
<1>4. CASE lead[c] = "none" \/ (Protected /\ ~importer[p].same)
  <2>1. /\ importer' = [importer EXCEPT ![p] = ToMark(importer[p])]
        /\ UNCHANGED <<entry, lead, notes>>
    BY <1>4 DEF AttachRow
  <2>2. Outside(p)
    BY <1>1, <1>2, <2>1, ToMarkRow, MovesOutside
  <2> QED BY <1>1, <1>2, <2>1, <2>2, OutsideStep DEF EntriesKept
<1>5. CASE ~(lead[c] = "none" \/ (Protected /\ ~importer[p].same))
  <2> DEFINE f == IF importer[p].field = "empty" THEN "form" ELSE importer[p].field
  <2>1. /\ lead' = [lead EXCEPT ![c] = f] /\ EnterRow(r)
        /\ importer' = [Rewritten(c) EXCEPT ![p] = Dealt(Rewritten(c)[p], TRUE)]
    BY <1>5 DEF AttachRow
  <2>2. InTransaction(p)
    BY <1>2 DEF InTransaction
  <2>3. /\ entry' \in [SheetRows -> EntryRow] /\ notes' \in [SheetRows -> Nat]
        /\ Protected => Counted'
    BY <2>1, <2>2, EnteredCounts
  <2>4. /\ f \in Fields /\ f # "none"
        /\ Protected /\ lead[c] = "hand" => f = "hand"
    BY <1>1, <1>2, <1>5, RowFields DEF InHand, Fields
  <2> HIDE DEF f
  <2>5. /\ lead' \in [SheetLeads -> Fields] /\ lead'[c] = f
        /\ \A d \in SheetLeads : d # c => lead'[d] = lead[d]
    BY <1>1, <1>3, <2>1, <2>4
  <2> HIDE DEF c
  <2>6. /\ Rewritten(c) \in [Importers -> ImporterRow]
        /\ \A q \in Importers :
              /\ Rewritten(c)[q].pc = importer[q].pc
              /\ Rewritten(c)[q].row = importer[q].row
              /\ Rewritten(c)[q].field = importer[q].field
              /\ Rewritten(c)[q].same => importer[q].same /\ LeadOf[importer[q].row] # c
    BY <1>1, RewrittenRow
  <2>7. /\ Dealt(Rewritten(c)[p], TRUE) \in ImporterRow
        /\ Dealt(Rewritten(c)[p], TRUE).pc = "rows" /\ Dealt(Rewritten(c)[p], TRUE).same = FALSE
    BY <2>6, DealtRow
  <2>8. /\ importer' \in [Importers -> ImporterRow]
        /\ importer'[p].pc = "rows" /\ importer'[p].same = FALSE
        /\ \A q \in Importers : q # p => importer'[q] = Rewritten(c)[q]
    BY <2>1, <2>6, <2>7
  <2>9. ImportTypeOK'
    BY <1>1, <1>2, <2>3, <2>5, <2>8 DEF ImportTypeOK
  <2>10. ASSUME NEW q \in Importers PROVE InHand(q)'
    <3>1. CASE q = p
      BY <2>8, <3>1 DEF InHand
    <3>2. CASE q # p
      <4>1. /\ InHand(q) /\ importer'[q].pc = importer[q].pc
            /\ importer'[q].row = importer[q].row /\ importer'[q].field = importer[q].field
            /\ importer'[q].same => importer[q].same /\ LeadOf[importer[q].row] # c
        BY <1>1, <2>6, <2>8, <3>2
      <4>2. importer[q].pc = "attach" => LeadOf[importer[q].row] \in SheetLeads
        BY <4>1, ImportAssumption DEF InHand, SheetRows
      <4> QED BY <2>5, <4>1, <4>2 DEF InHand
    <3> QED BY <3>1, <3>2
  <2>11. MineExist'
    BY <1>1, <1>2, <2>4, <2>5 DEF MineExist
  <2>12. ASSUME Protected PROVE Locked'
    <3>0. Locked
      BY <2>12 DEF ImportInv
    <3>1. \A q \in Importers : ~InTransaction(q)'
      BY <2>2, <2>6, <2>8, <3>0 DEF Locked, OneAtATime, InTransaction
    <3>2. OneAtATime' /\ StillOpen' /\ NoTwin'
      BY <3>1 DEF OneAtATime, StillOpen, NoTwin, InTransaction
    <3>3. OneLeadPerPerson'
      BY <1>2, <2>12, <3>0 DEF Locked, OneLeadPerPerson
    <3> QED BY <2>3, <2>12, <3>2, <3>3 DEF Locked
  <2>13. Protected => \A d \in SheetLeads : lead[d] = "hand" => lead'[d] = "hand"
    BY <2>4, <2>5
  <2> QED BY <2>9, <2>10, <2>11, <2>12, <2>13 DEF ImportInv
<1> QED BY <1>4, <1>5

--------------------------------------------------------------------------------
(* The steps of the rest of the system.                                       *)

LEMMA LeadWrittenStep ==
  ASSUME ImportInv, LeadWritten
  PROVE  /\ ImportInv'
         /\ \A d \in SheetLeads : lead[d] = "hand" => lead'[d] \in {"hand", "none"}
<1>1. /\ importer \in [Importers -> ImporterRow] /\ lead \in [SheetLeads -> Fields]
      /\ mine \subseteq SheetLeads /\ UNCHANGED <<published, usable, entry, notes>>
      /\ ImportTypeOK /\ MineExist /\ \A q \in Importers : InHand(q)
  BY DEF ImportInv, ImportTypeOK, LeadWritten
<1>2. PICK c \in SheetLeads :
         /\ \/ lead[c] = "none" /\ lead' = [lead EXCEPT ![c] = "empty"]
            \/ /\ lead[c] # "none"
               /\ \E f \in {lead[c], "hand", "none"} : lead' = [lead EXCEPT ![c] = f]
         /\ importer' = Rewritten(c)
         /\ mine' = {d \in mine : lead'[d] # "none"}
  BY DEF LeadWritten
<1>3. lead' \in [SheetLeads -> Fields] /\ \A d \in SheetLeads : d # c => lead'[d] = lead[d]
  BY <1>1, <1>2 DEF Fields
<1>4. /\ importer' \in [Importers -> ImporterRow]
      /\ \A q \in Importers :
            /\ importer'[q].pc = importer[q].pc
            /\ importer'[q].row = importer[q].row
            /\ importer'[q].field = importer[q].field
            /\ importer'[q].same => importer[q].same /\ LeadOf[importer[q].row] # c
  BY <1>1, <1>2, RewrittenRow
<1>5. ImportTypeOK'
  BY <1>1, <1>2, <1>3, <1>4 DEF ImportTypeOK
<1>6. ASSUME NEW q \in Importers PROVE InHand(q)'
  <2>1. InHand(q) /\ (importer[q].pc = "attach" => LeadOf[importer[q].row] \in SheetLeads)
    BY <1>1, ImportAssumption DEF InHand, SheetRows
  <2> QED BY <1>3, <1>4, <2>1 DEF InHand
<1>7. MineExist' /\ mine' \subseteq mine
  BY <1>2 DEF MineExist
<1>8. ASSUME Protected PROVE Locked'
  <2>1. Locked
    BY <1>8 DEF ImportInv
  <2>2. OneAtATime' /\ StillOpen'
    BY <1>1, <1>4, <2>1 DEF Locked, OneAtATime, StillOpen, InTransaction, OnRecord
  <2>3. NoTwin'
    BY <1>4, <1>7, <2>1 DEF Locked, NoTwin
  <2>4. Counted' /\ OneLeadPerPerson'
    BY <1>1, <1>7, <2>1 DEF Locked, Counted, OneLeadPerPerson
  <2> QED BY <2>2, <2>3, <2>4 DEF Locked
<1>9. \A d \in SheetLeads : lead[d] = "hand" => lead'[d] \in {"hand", "none"}
  BY <1>1, <1>2
<1> QED BY <1>5, <1>6, <1>7, <1>8, <1>9 DEF ImportInv

LEMMA ImportersDieStep ==
  ASSUME ImportInv, ImportersDie
  PROVE  ImportInv'
<1>1. /\ importer \in [Importers -> ImporterRow] /\ ImportTypeOK /\ MineExist
      /\ \A q \in Importers : InHand(q)
      /\ UNCHANGED <<published, usable, entry, lead, mine, notes>>
  BY DEF ImportInv, ImportTypeOK, ImportersDie
<1>2. PICK x : importer' = [p \in Importers |-> IF Process[p] = x THEN NotRunning(Unread)
                                                ELSE importer[p]]
  BY DEF ImportersDie
<1>3. /\ NotRunning(Unread) \in ImporterRow
      /\ NotRunning(Unread).pc = "idle" /\ NotRunning(Unread).same = FALSE
  BY NotRunningRow DEF Sheets
<1>4. ASSUME NEW q \in Importers
      PROVE  /\ importer'[q] \in ImporterRow
             /\ \/ importer'[q] = importer[q]
                \/ importer'[q].pc = "idle" /\ importer'[q].same = FALSE
  BY <1>1, <1>2, <1>3
<1>5. ImportTypeOK'
  BY <1>1, <1>2, <1>4 DEF ImportTypeOK
<1>6. ASSUME NEW q \in Importers PROVE InHand(q)'
  BY <1>1, <1>4 DEF InHand
<1>7. MineExist'
  BY <1>1 DEF MineExist
<1>8. ASSUME Protected PROVE Locked'
  <2>1. Locked
    BY <1>8 DEF ImportInv
  <2>2. \A q \in Importers : InTransaction(q)' => InTransaction(q) /\ importer'[q] = importer[q]
    BY <1>4 DEF InTransaction
  <2>3. OneAtATime' /\ StillOpen'
    BY <1>1, <2>1, <2>2 DEF Locked, OneAtATime, StillOpen, OnRecord
  <2>4. NoTwin'
    BY <1>1, <1>4, <2>1 DEF Locked, NoTwin
  <2>5. Counted' /\ OneLeadPerPerson'
    BY <1>1, <2>1 DEF Locked, Counted, OneLeadPerPerson
  <2> QED BY <2>3, <2>4, <2>5 DEF Locked
<1> QED BY <1>5, <1>6, <1>7, <1>8 DEF ImportInv

LEMMA ElsewhereStep ==
  ASSUME ImportInv, AddRow \/ UNCHANGED importVars
  PROVE  ImportInv' /\ lead' = lead
<1>1. UNCHANGED <<entry, lead, mine, importer, notes>>
  BY DEF AddRow, importVars
<1>2. published' \in Nat /\ usable' \subseteq SheetRows
  <2>1. published \in Nat /\ usable \subseteq SheetRows /\ MaxRows \in Nat
    BY ImportAssumption DEF ImportInv, ImportTypeOK
  <2>2. CASE AddRow
    <3>1. published' \in Nat /\ published' \in SheetRows
      BY <2>1, <2>2 DEF AddRow, SheetRows
    <3> QED BY <2>1, <2>2, <3>1 DEF AddRow
  <2> QED BY <2>1, <2>2 DEF importVars
<1>3. ImportTypeOK'
  BY <1>1, <1>2 DEF ImportInv, ImportTypeOK
<1>4. (\A q \in Importers : InHand(q))' /\ MineExist'
  BY <1>1 DEF ImportInv, InHand, MineExist
<1>5. Protected => Locked'
  BY <1>1 DEF ImportInv, Locked, OneAtATime, StillOpen, NoTwin, Counted, OneLeadPerPerson,
              InTransaction, OnRecord
<1> QED BY <1>1, <1>3, <1>4, <1>5 DEF ImportInv

--------------------------------------------------------------------------------

LEMMA ImportStarts == ImportInit => ImportInv
<1> SUFFICES ASSUME ImportInit PROVE ImportInv
  OBVIOUS
<1>1. NotRunning(Unread) \in ImporterRow /\ NotRunning(Unread).pc = "idle"
      /\ NotRunning(Unread).same = FALSE
  BY NotRunningRow DEF Sheets
<1>2. \A p \in Importers : importer[p] = NotRunning(Unread)
  BY DEF ImportInit
<1>3. ImportTypeOK
  BY <1>1 DEF ImportInit, ImportTypeOK, EntryRow, Fields
<1>4. (\A p \in Importers : InHand(p)) /\ MineExist
  BY <1>1, <1>2 DEF InHand, MineExist, ImportInit
<1>5. Locked
  BY <1>1, <1>2 DEF Locked, OneAtATime, StillOpen, NoTwin, Counted, OneLeadPerPerson,
                    InTransaction, ImportInit
<1> QED BY <1>3, <1>4, <1>5 DEF ImportInv

\* Every step of the import and of the system around it keeps the invariant, and
\* leaves what a person wrote on a lead.
LEMMA ImportStep ==
  ASSUME ImportInv, [ImportNext]_importVars
  PROVE  /\ ImportInv'
         /\ Protected => \A d \in SheetLeads :
                lead[d] = "hand" /\ lead'[d] # "none" => lead'[d] = "hand"
<1>1. CASE \E p \in Importers : CreateLead(p)
  <2>1. PICK p \in Importers : CreateLead(p)
    BY <1>1
  <2>2. \A d \in SheetLeads : lead[d] = "hand" => lead'[d] = "hand"
    BY <2>1 DEF CreateLead, ImportInv, ImportTypeOK
  <2> QED BY <2>1, <2>2, CreateLeadStep
<1>2. CASE \E p \in Importers : AttachRow(p)
  BY <1>2, AttachRowStep
<1>3. CASE \E p \in Importers : MatchRow(p)
  <2>1. lead' = lead
    BY <1>3 DEF MatchRow
  <2> QED BY <1>3, <2>1, MatchRowStep
<1>4. CASE \E p \in Importers :
              \/ DownloadSheet(p) \/ ReadEntries(p) \/ SkipRow(p) \/ MarkError(p) \/ EndRun(p)
              \/ RowThrows(p) \/ ImportThrows(p)
  <2>1. lead' = lead
    BY <1>4 DEF DownloadSheet, ReadEntries, SkipRow, MarkError, EndRun, RowThrows, ImportThrows
  <2> QED BY <1>4, <2>1, RunOutside
<1>5. CASE LeadWritten
  BY <1>5, LeadWrittenStep
<1>6. CASE ImportersDie
  BY <1>6, ImportersDieStep DEF ImportersDie
<1>7. CASE AddRow \/ UNCHANGED importVars
  BY <1>7, ElsewhereStep
<1> QED BY <1>1, <1>2, <1>3, <1>4, <1>5, <1>6, <1>7 DEF ImportNext, RunImport

\* The invariant holds in every state the import can reach, for any number of
\* importers, processes, sheets, rows and leads.
THEOREM ImportInvariant == ImportSpec => []ImportInv
<1>1. ImportInv /\ [ImportNext]_importVars => ImportInv'
  BY ImportStep
<1> QED BY ImportStarts, <1>1, PTL DEF ImportSpec

\* In the protected mode a row is written on a lead at most once.
THEOREM RowsEnterOnce == ImportSpec => []RowEntersOnce
<1>1. ImportInv => RowEntersOnce
  <2> SUFFICES ASSUME ImportInv, Protected, NEW r \in SheetRows PROVE notes[r] <= 1
    BY DEF RowEntersOnce
  <2>1. notes[r] = 1 \/ notes[r] = 0
    BY DEF ImportInv, Locked, Counted
  <2> QED BY <2>1
<1> QED BY <1>1, ImportInvariant, PTL

\* In the protected mode the import never makes two leads of one person.
THEOREM PersonIsOneLead == ImportSpec => []OneLeadPerPerson
<1>1. ImportInv => OneLeadPerPerson
  BY DEF ImportInv, Locked, OneLeadPerPerson
<1> QED BY <1>1, ImportInvariant, PTL

\* In the protected mode no import overwrites what a person wrote on a lead.
THEOREM HandwritingStays == ImportSpec => HandwrittenStays
<1>1. ImportInv /\ [ImportNext]_importVars =>
         [Protected => \A c \in SheetLeads :
             lead[c] = "hand" /\ lead'[c] # "none" => lead'[c] = "hand"]_importVars
  BY ImportStep
<1> QED BY <1>1, ImportInvariant, PTL DEF ImportSpec, HandwrittenStays

--------------------------------------------------------------------------------
(* A sheet noted as done has no row left to import.                           *)

\* What a clean run has put behind it is settled.
RunSettles(p) ==
    /\ importer[p].last # Unread => \A r \in importer[p].last : RowSettled(r)
    /\ importer[p].pc # "read" /\ importer[p].clean =>
          \A r \in importer[p].csv \ importer[p].todo : RowSettled(r)
RunsSettle == \A p \in Importers : RunSettles(p)

\* An importer that only rests, or sees its lead written by somebody else.
SameRun(p) ==
    /\ importer'[p].last = importer[p].last /\ importer'[p].pc = importer[p].pc
    /\ importer'[p].clean = importer[p].clean /\ importer'[p].csv = importer[p].csv
    /\ importer'[p].todo = importer[p].todo

LEMMA SettledStays ==
  ASSUME ImportInv, Protected, ImportNext, NEW r \in SheetRows, RowSettled(r)
  PROVE  RowSettled(r)'
<1>0. entry \in [SheetRows -> EntryRow] /\ entry[r] \in EntryRow
  BY DEF ImportInv, ImportTypeOK
<1>1. CASE UNCHANGED entry
  BY <1>1 DEF RowSettled, OnRecord, Exhausted
<1>2. ASSUME NEW s, EnterRow(s) PROVE RowSettled(r)'
  <2>1. entry' = [entry EXCEPT ![s] = [entry[s] EXCEPT !.status = "ok"]]
    BY <1>2 DEF EnterRow
  <2>2. CASE s = r
    <3>1. entry'[r].status = "ok"
      BY <1>0, <2>1, <2>2, EntryFacts
    <3> QED BY <3>1 DEF RowSettled, OnRecord
  <2>3. CASE s # r
    <3>1. entry'[r] = entry[r]
      BY <1>0, <2>1, <2>3
    <3> QED BY <3>1 DEF RowSettled, OnRecord, Exhausted
  <2> QED BY <2>2, <2>3
<1>3. ASSUME NEW s, NEW x, entry' = [entry EXCEPT ![s] = x],
             s = r => x.status = "skipped" \/ (x.status = "error" /\ x.attempts = entry[r].attempts + 1
                                               /\ ~OnRecord(r))
      PROVE  RowSettled(r)'
  <2>1. CASE s = r
    <3>1. entry'[r] = x
      BY <1>0, <1>3, <2>1
    <3>2. CASE x.status = "skipped"
      BY <3>1, <3>2 DEF RowSettled, OnRecord
    <3>3. CASE x.status = "error" /\ x.attempts = entry[r].attempts + 1 /\ ~OnRecord(r)
      <4>1. entry[r].attempts \in Nat /\ entry[r].attempts >= MaxTentativas
        BY <1>0, <3>3 DEF RowSettled, Exhausted, EntryRow
      <4>2. x.attempts >= MaxTentativas
        BY <3>3, <4>1, ImportAssumption
      <4> QED BY <3>1, <3>3, <4>2 DEF RowSettled, Exhausted
    <3> QED BY <1>3, <2>1, <3>2, <3>3
  <2>2. CASE s # r
    <3>1. entry'[r] = entry[r]
      BY <1>0, <1>3, <2>2
    <3> QED BY <3>1 DEF RowSettled, OnRecord, Exhausted
  <2> QED BY <2>1, <2>2
<1>4. ASSUME NEW p \in Importers, SkipRow(p) PROVE RowSettled(r)'
  <2>1. PICK s : s = Min(importer[p].todo)
    OBVIOUS
  <2>2. \/ entry' = entry
        \/ entry' = [entry EXCEPT ![s] = [entry[s] EXCEPT !.status = "skipped"]]
    BY <1>4, <2>1 DEF SkipRow
  <2>3. s = r => [entry[s] EXCEPT !.status = "skipped"].status = "skipped"
    BY <1>0, EntryFacts
  <2> QED BY <1>1, <1>3, <2>2, <2>3
<1>5. ASSUME NEW p \in Importers, MarkError(p) PROVE RowSettled(r)'
  <2>1. PICK s : s = importer[p].row
    OBVIOUS
  <2>2. \/ entry' = entry
        \/ /\ entry' = [entry EXCEPT ![s] = [status |-> "error", attempts |-> entry[s].attempts + 1]]
           /\ ~OnRecord(s)
    BY <1>5, <2>1 DEF MarkError
  <2> QED BY <1>1, <1>3, <2>2
<1> QED BY <1>1, <1>2, <1>4, <1>5 DEF ImportNext, RunImport, DownloadSheet, ReadEntries,
     MatchRow, CreateLead, AttachRow, EndRun, RowThrows, ImportThrows, AddRow, LeadWritten,
     ImportersDie

\* A run keeps its promise when it puts behind it only what is settled.
LEMMA RunStillSettles ==
  ASSUME NEW p \in Importers, RunSettles(p), importer[p].csv \subseteq SheetRows,
         importer[p].last \subseteq SheetRows \/ importer[p].last = Unread,
         \A r \in SheetRows : RowSettled(r) => RowSettled(r)',
         importer'[p].last = importer[p].last, importer'[p].csv = importer[p].csv,
         importer'[p].clean => importer[p].clean, importer[p].pc # "read",
         importer'[p].clean => \A r \in SheetRows :
              r \in importer[p].todo => r \in importer'[p].todo \/ RowSettled(r)'
  PROVE  RunSettles(p)'
BY DEF RunSettles

LEMMA RunsSettleStep ==
  ASSUME ImportInv, Protected, RunsSettle, ImportNext
  PROVE  RunsSettle'
<1>s. \A r \in SheetRows : RowSettled(r) => RowSettled(r)'
  BY SettledStays
<1>t. importer \in [Importers -> ImporterRow] /\ entry \in [SheetRows -> EntryRow]
  BY DEF ImportInv, ImportTypeOK
<1>f. ASSUME NEW p \in Importers
      PROVE  /\ importer[p] \in ImporterRow /\ RunSettles(p)
             /\ importer[p].csv \subseteq SheetRows /\ importer[p].todo \subseteq SheetRows
             /\ importer[p].last \subseteq SheetRows \/ importer[p].last = Unread
  BY <1>t, RowFields DEF RunsSettle, Sheets
<1>q. ASSUME NEW p \in Importers, SameRun(p) PROVE RunSettles(p)'
  BY <1>q, <1>s, <1>f DEF SameRun, RunSettles
<1>w. ASSUME NEW c, NEW p \in Importers, importer'[p] = Rewritten(c)[p] PROVE SameRun(p)
  <2>1. importer'[p] = [importer[p] EXCEPT !.same = importer[p].same /\ LeadOf[importer[p].row] # c]
    BY <1>w DEF Rewritten
  <2> QED BY <1>f, <2>1 DEF SameRun, ImporterRow
<1>n. ASSUME NEW p \in Importers, NEW hash \in Sheets, importer'[p] = NotRunning(hash),
             hash # Unread => \A r \in hash : RowSettled(r)'
      PROVE  RunSettles(p)'
  <2>1. importer'[p].last = hash /\ importer'[p].csv = {}
    BY <1>n DEF NotRunning
  <2> QED BY <1>n, <2>1 DEF RunSettles
<1>m. ASSUME NEW p \in Importers, importer'[p] = ToMark(importer[p]), importer[p].pc # "read"
      PROVE  RunSettles(p)'
  <2>1. /\ importer'[p].last = importer[p].last /\ importer'[p].csv = importer[p].csv
        /\ importer'[p].clean = importer[p].clean /\ importer'[p].todo = importer[p].todo
    BY <1>m, <1>f DEF ToMark, ImporterRow
  <2> QED BY <1>m, <1>f, <1>s, <2>1, RunStillSettles
<1>d. ASSUME NEW p \in Importers, NEW y \in ImporterRow, NEW clean \in BOOLEAN,
             importer'[p] = Dealt(y, clean), importer[p].pc # "read",
             y.last = importer[p].last, y.csv = importer[p].csv, y.clean = importer[p].clean,
             y.todo = importer[p].todo, NEW s, s = y.row, clean => RowSettled(s)'
      PROVE  RunSettles(p)'
  <2>1. /\ importer'[p].last = importer[p].last /\ importer'[p].csv = importer[p].csv
        /\ importer'[p].clean = (importer[p].clean /\ clean)
        /\ importer'[p].todo = importer[p].todo \ {s}
    BY <1>d, <1>f DEF Dealt, ImporterRow
  <2> QED BY <1>d, <1>f, <1>s, <2>1, RunStillSettles
<1>r. ASSUME NEW p \in Importers, NEW x, importer' = [importer EXCEPT ![p] = x], RunSettles(p)'
      PROVE  RunsSettle'
  <2>1. ASSUME NEW q \in Importers, q # p PROVE SameRun(q)
    BY <1>r, <1>t, <2>1 DEF SameRun
  <2> QED BY <1>r, <1>q, <2>1 DEF RunsSettle
<1>x. ASSUME NEW p \in Importers, NEW x, importer' = [importer EXCEPT ![p] = x]
      PROVE  importer'[p] = x
  BY <1>t, <1>x
<1>1. ASSUME NEW p \in Importers, RunImport(p) \/ RowThrows(p) \/ ImportThrows(p)
      PROVE  RunsSettle'
  <2>1. CASE DownloadSheet(p)
    <3>1. PICK csv : importer' = [importer EXCEPT ![p] =
                        [importer[p] EXCEPT !.pc = "read", !.csv = csv, !.clean = TRUE]]
      BY <2>1 DEF DownloadSheet
    <3>1a. importer'[p] = [importer[p] EXCEPT !.pc = "read", !.csv = csv, !.clean = TRUE]
      BY <1>x, <3>1
    <3>2. importer'[p].pc = "read" /\ importer'[p].last = importer[p].last
      BY <1>f, <3>1a DEF ImporterRow
    <3>3. RunSettles(p)'
      BY <1>f, <1>s, <3>2 DEF RunSettles
    <3> QED BY <1>r, <3>1, <3>3
  <2>2. CASE ReadEntries(p)
    <3> DEFINE todo == {r \in importer[p].csv : ~OnRecord(r) /\ ~Exhausted(r)}
    <3>1. importer' = [importer EXCEPT ![p] = [importer[p] EXCEPT !.pc = "rows", !.todo = todo]]
      BY <2>2 DEF ReadEntries
    <3>0. \A r \in importer[p].csv \ todo : RowSettled(r)
      BY DEF RowSettled
    <3> HIDE DEF todo
    <3>1a. importer'[p] = [importer[p] EXCEPT !.pc = "rows", !.todo = todo]
      BY <1>x, <3>1
    <3>2. /\ importer'[p].last = importer[p].last /\ importer'[p].csv = importer[p].csv
          /\ importer'[p].todo = todo
      BY <1>f, <3>1a DEF ImporterRow
    <3>3. RunSettles(p)'
      BY <1>f, <1>s, <3>0, <3>2 DEF RunSettles
    <3> QED BY <1>r, <3>1, <3>3
  <2>3. CASE SkipRow(p) \/ (MatchRow(p) /\ Protected /\ OnRecord(Min(importer[p].todo)))
    <3>1. PICK s : s = Min(importer[p].todo)
      OBVIOUS
    <3>2. importer' = [importer EXCEPT ![p] = [importer[p] EXCEPT !.todo = importer[p].todo \ {s}]]
          /\ importer[p].pc = "rows"
      BY <2>3, <3>1 DEF SkipRow, MatchRow
    <3>3. s \in SheetRows => RowSettled(s)'
      <4>1. CASE OnRecord(s)
        BY <1>s, <4>1 DEF RowSettled
      <4>2. CASE ~OnRecord(s) /\ s \in SheetRows
        <5>1. entry' = [entry EXCEPT ![s] = [entry[s] EXCEPT !.status = "skipped"]]
          BY <2>3, <3>1, <4>2 DEF SkipRow
        <5>2. entry'[s].status = "skipped"
          BY <1>t, <4>2, <5>1, EntryFacts
        <5> QED BY <5>2 DEF RowSettled, OnRecord
      <4> QED BY <4>1, <4>2
    <3>2a. importer'[p] = [importer[p] EXCEPT !.todo = importer[p].todo \ {s}]
      BY <1>x, <3>2
    <3>4. /\ importer'[p].last = importer[p].last /\ importer'[p].csv = importer[p].csv
          /\ importer'[p].clean = importer[p].clean
          /\ importer'[p].todo = importer[p].todo \ {s}
      BY <1>f, <3>2a DEF ImporterRow
    <3>5. RunSettles(p)'
      BY <1>f, <1>s, <3>2, <3>3, <3>4, RunStillSettles
    <3> QED BY <1>r, <3>2, <3>5
  <2>4. CASE MatchRow(p) /\ ~(Protected /\ OnRecord(Min(importer[p].todo)))
    <3>1. PICK row, pc, field, same : importer' = [importer EXCEPT ![p] =
              [importer[p] EXCEPT !.row = row, !.pc = pc, !.field = field, !.same = same]]
      BY <2>4 DEF MatchRow
    <3>2. /\ importer'[p].last = importer[p].last /\ importer'[p].csv = importer[p].csv
          /\ importer'[p].clean = importer[p].clean /\ importer'[p].todo = importer[p].todo
      BY <1>f, <1>x, <3>1 DEF ImporterRow
    <3>3. RunSettles(p)'
      BY <1>f, <1>s, <2>4, <3>2, RunStillSettles DEF MatchRow
    <3> QED BY <1>r, <3>1, <3>3
  <2>e. ASSUME NEW r \in SheetRows, EnterRow(r) PROVE RowSettled(r)'
    <3>1. entry' = [entry EXCEPT ![r] = [entry[r] EXCEPT !.status = "ok"]]
      BY <2>e DEF EnterRow
    <3>2. entry'[r].status = "ok"
      BY <1>t, <3>1, EntryFacts
    <3> QED BY <3>2 DEF RowSettled, OnRecord
  <2>i. importer[p].pc \in {"create", "attach"} => importer[p].row \in SheetRows
    BY DEF ImportInv, InHand
  <2>5. CASE CreateLead(p)
    <3>1. PICK s \in SheetRows : s = importer[p].row
      BY <2>5, <2>i DEF CreateLead
    <3>0. importer[p].pc # "read"
      BY <2>5 DEF CreateLead
    <3>2. \/ importer' = [importer EXCEPT ![p] = ToMark(importer[p])]
          \/ importer' = [importer EXCEPT ![p] = Dealt(importer[p], TRUE)] /\ EnterRow(s)
      BY <2>5, <3>1 DEF CreateLead
    <3> QED BY <1>d, <1>f, <1>m, <1>r, <1>x, <2>e, <3>0, <3>1, <3>2
  <2>6. CASE AttachRow(p)
    <3>1. PICK s \in SheetRows : s = importer[p].row
      BY <2>6, <2>i DEF AttachRow
    <3>0. importer[p].pc # "read"
      BY <2>6 DEF AttachRow
    <3>2. CASE importer' = [importer EXCEPT ![p] = ToMark(importer[p])]
      BY <1>m, <1>r, <1>x, <3>0, <3>2
    <3>3. CASE importer' # [importer EXCEPT ![p] = ToMark(importer[p])]
      <4>1. PICK c : /\ importer' = [Rewritten(c) EXCEPT ![p] = Dealt(Rewritten(c)[p], TRUE)]
                     /\ EnterRow(s)
        BY <2>6, <3>1, <3>3 DEF AttachRow
      <4>2. /\ importer'[p] = Dealt(Rewritten(c)[p], TRUE)
            /\ \A q \in Importers : q # p => importer'[q] = Rewritten(c)[q]
        BY <4>1 DEF Rewritten
      <4> DEFINE y == Rewritten(c)[p]
      <4>3. y = [importer[p] EXCEPT !.same = importer[p].same /\ LeadOf[importer[p].row] # c]
        BY DEF Rewritten
      <4>4. /\ y \in ImporterRow /\ y.last = importer[p].last /\ y.csv = importer[p].csv
            /\ y.clean = importer[p].clean /\ y.todo = importer[p].todo /\ y.row = importer[p].row
        BY <1>f, <4>3 DEF ImporterRow
      <4> HIDE DEF y
      <4>5. importer'[p] = Dealt(y, TRUE)
        BY <4>2 DEF y
      <4>6. RunSettles(p)'
        BY <1>d, <2>e, <3>0, <3>1, <4>1, <4>4, <4>5
      <4> QED BY <1>q, <1>w, <4>2, <4>6 DEF RunsSettle
    <3> QED BY <3>2, <3>3
  <2>7. CASE MarkError(p)
    <3>1. importer' = [importer EXCEPT ![p] = Dealt(importer[p], FALSE)] /\ importer[p].pc = "mark"
      BY <2>7 DEF MarkError
    <3> QED BY <1>d, <1>f, <1>r, <1>x, <3>1
  <2>8. CASE EndRun(p)
    <3>1. PICK hash : /\ hash = IF importer[p].clean THEN importer[p].csv ELSE importer[p].last
                      /\ importer' = [importer EXCEPT ![p] = NotRunning(hash)]
                      /\ importer[p].pc = "rows" /\ importer[p].todo = {}
      BY <2>8 DEF EndRun
    <3>2. hash \in Sheets /\ (hash # Unread => \A r \in hash : RowSettled(r)')
      BY <1>f, <1>s, <3>1 DEF RunSettles, Sheets
    <3> QED BY <1>n, <1>r, <1>x, <3>1, <3>2
  <2>9. CASE RowThrows(p)
    <3>1. importer' = [importer EXCEPT ![p] = ToMark(importer[p])] /\ importer[p].pc # "read"
      BY <2>9 DEF RowThrows, InTransaction
    <3> QED BY <1>m, <1>r, <1>x, <3>1
  <2>10. CASE ImportThrows(p)
    <3>1. PICK hash : hash = importer[p].last /\ importer' = [importer EXCEPT ![p] = NotRunning(hash)]
      BY <2>10 DEF ImportThrows
    <3>2. hash \in Sheets /\ (hash # Unread => \A r \in hash : RowSettled(r)')
      BY <1>f, <1>s, <3>1 DEF RunSettles, Sheets
    <3> QED BY <1>n, <1>r, <1>x, <3>1, <3>2
  <2> QED BY <1>1, <2>1, <2>2, <2>3, <2>4, <2>5, <2>6, <2>7, <2>8, <2>9, <2>10 DEF RunImport
<1>2. CASE AddRow
  BY <1>2, <1>q DEF AddRow, RunsSettle, SameRun
<1>3. CASE LeadWritten
  <2>1. PICK c : importer' = Rewritten(c)
    BY <1>3 DEF LeadWritten
  <2> QED BY <1>q, <1>w, <2>1 DEF RunsSettle
<1>4. CASE ImportersDie
  <2>1. PICK x : importer' = [p \in Importers |-> IF Process[p] = x THEN NotRunning(Unread)
                                                  ELSE importer[p]]
    BY <1>4 DEF ImportersDie
  <2>2. ASSUME NEW p \in Importers PROVE RunSettles(p)'
    <3>1. CASE Process[p] = x
      BY <1>n, <2>1, <3>1 DEF Sheets
    <3>2. CASE Process[p] # x
      <4>1. SameRun(p)
        BY <2>1, <3>2 DEF SameRun
      <4> QED BY <1>q, <4>1
    <3> QED BY <3>1, <3>2
  <2> QED BY <2>2 DEF RunsSettle
<1> QED BY <1>1, <1>2, <1>3, <1>4 DEF ImportNext

\* For any importers, sheets and bounds: with the lock, an importer that passes over a
\* sheet because it is the one it noted passes over nothing that is left to import.
THEOREM DoneSheetsAreSettled == ImportSpec => []SheetDoneIsSettled
<1>1. ImportInit => (Protected => RunsSettle)
  BY DEF ImportInit, RunsSettle, RunSettles, NotRunning
<1>2. ImportInv /\ (Protected => RunsSettle) /\ [ImportNext]_importVars => (Protected => RunsSettle)'
  <2>1. ASSUME RunsSettle, UNCHANGED importVars PROVE RunsSettle'
    BY <2>1 DEF importVars, RunsSettle, RunSettles, RowSettled, OnRecord, Exhausted
  <2> QED BY <2>1, RunsSettleStep
<1>3. (Protected => RunsSettle) => SheetDoneIsSettled
  BY DEF RunsSettle, RunSettles, SheetDoneIsSettled
<1> QED BY <1>1, <1>2, <1>3, ImportInvariant, PTL DEF ImportSpec
================================================================================
