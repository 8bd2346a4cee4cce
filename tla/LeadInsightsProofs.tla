--------------------------- MODULE LeadInsightsProofs ---------------------------
(* Proofs about LeadInsights, for any stages, people, workers, attempts and    *)
(* failures: what was refused stays away, what a person filled in stays, and   *)
(* no message is forgotten but in the gaps the module names.                   *)
EXTENDS LeadInsights, FiniteSetTheorems, TLAPS

Times == 0..MaxMessages
Steps == {"none", "handled", "asked", "read", "due", "over"}
Places == {"none", "read", "model", "look", "write", "fill", "fillWrite", "count",
           "readd", "ending", "useless"}

Asking == [step : Steps, mark : Times]
QueueJob == [state : {"none", "waiting", "active"}, left : Nat, stalled : BOOLEAN]
Generation == [pc : Places, upto : Times, saw : SUBSET Texts, known : SUBSET Nat,
               looked : Nat, version : Nat, stage : Stages \cup {None}, interest : BOOLEAN]
Answering == [pc : {"idle", "refuse", "accept"}, stage : Stages \cup {None},
              refused : SUBSET Nat]

InsightTypeOK ==
    /\ inserted \in SUBSET Texts
    /\ trigger \in [Texts -> Asking]
    /\ mark \in Times
    /\ suggested \in Stages \cup {None}
    /\ refused \in SUBSET Nat
    /\ refusals \in Seq(Stages) /\ weekAgo \in Nat
    /\ field \in {"empty", "manual", "ai"}
    /\ version \in Nat
    /\ task \in [Ids -> QueueJob]
    /\ run \in [Ids -> Generation]
    /\ click \in [Clicks -> Answering]
    /\ failures \in Nat
    /\ covered \in SUBSET Texts /\ excused \in SUBSET Texts
    /\ checked \in Nat /\ erased \in SUBSET Nat

\* Who runs is active in the queue, and the other way round.
InStep == \A d \in Ids : task[d].state = "active" <=> run[d].pc # "none"

\* A list has every refusal made up to then, but those pushed out or written over.
Listed(list, made) == \A n \in 1..made : n \in list \/ n \in erased \/ made - n >= RecusasMax

\* A stage that was not refused lately, as far as a list that is Listed can tell.
Refrains(s, made) ==
    \A n \in 1..made : s = refusals[n] /\ n > weekAgo => n \in erased \/ made - n >= RecusasMax

\* What a generation knows of the refusals, and what it is about to write.
Heeds(r) ==
    /\ r.looked <= Len(refusals)
    /\ r.pc \in {"model", "look"} => Listed(r.known, r.looked)
    /\ r.pc = "write" => Refrains(r.stage, r.looked)

RefusalsOK ==
    /\ refused \subseteq 1..Len(refusals)
    /\ Listed(refused, Len(refusals))
    /\ \A d \in Ids : Heeds(run[d])
    /\ checked <= Len(refusals) /\ RefusedStaysAway
    /\ \A c \in Clicks : /\ click[c].refused \subseteq 1..Len(refusals)
                         /\ click[c].pc = "refuse" => click[c].stage \in Stages

\* The row a generation read as empty is empty while its version is the same.
FieldOK ==
    \A d \in Ids :
        /\ run[d].version <= version
        /\ run[d].pc = "fillWrite" /\ run[d].version = version => field = "empty"

\* Who will see to the message k: a job that has still to read, one that has still to
\* write and look, or one whose failure will be on record.
Carries(d, k) ==
    \/ task[d].state = "waiting"
    \/ run[d].pc \in {"read", "model", "look", "write", "useless", "readd"}
    \/ run[d].pc \in {"fill", "fillWrite", "count"} /\ run[d].upto < k

Asked(k) == trigger[k].step \in {"asked", "read", "due"}

\* The message is not on the card and its own request is over.
Needs(k) == k \in Pending /\ k \notin excused /\ ~Asked(k)

NewsOK == \A k \in Texts : Needs(k) => \E d \in Ids : Carries(d, k)

\* A job named after a watermark has something newer to read, and so never asks for
\* its own id again; nor does one ask for another for nothing.
AfterOK ==
    /\ \A w \in Times : /\ task[After(w)].state # "none" => NewSince(w) # {}
                        /\ run[After(w)].pc \notin {"none", "read"} => w < run[After(w)].upto
    /\ \A d \in Ids : run[d].pc = "readd" => NewSince(run[d].upto) # {}

InsightInv == InsightTypeOK /\ InStep /\ RefusalsOK /\ FieldOK /\ NewsOK /\ AfterOK

--------------------------------------------------------------------------------
(* The shape of a step of one generation.                                     *)

LEMMA Nones ==
  /\ NoRun \in Generation /\ NoRun.pc = "none" /\ NoRun.version = 0 /\ NoRun.upto = 0
  /\ NoRun.looked = 0
  /\ NoTask \in QueueJob /\ NoTask.state = "none"
  /\ NoClick \in Answering /\ NoClick.pc = "idle" /\ NoClick.refused = {}
  BY InsightAssumption DEF NoRun, NoTask, NoClick, Generation, QueueJob, Answering, Places, Times

LEMMA DoneFacts ==
  ASSUME InsightTypeOK, NEW d \in Ids, NEW r, r = Done(d)
  PROVE  r \in Generation /\ r.pc = "count" /\ r.upto = run[d].upto /\ r.version = 0
         /\ r.looked = 0
  BY InsightAssumption DEF InsightTypeOK, Done, NoRun, Generation, Places

LEMMA AddedFacts ==
  ASSUME InsightTypeOK, NEW e \in Ids, task' = Added(e)
  PROVE  /\ task' \in [Ids -> QueueJob]
         /\ \A d \in Ids : d # e => task'[d] = task[d]
         /\ task'[e].state = IF task[e].state = "none" THEN "waiting" ELSE task[e].state
  BY InsightAssumption DEF InsightTypeOK, Added, QueueJob

\* The generation of d becomes r; the others go on as they were.
Becomes(d, r) == run' = [run EXCEPT ![d] = r]

\* Nobody's place in the queue is lost, and a new one has something to read.
KeepsQueue ==
    /\ task' \in [Ids -> QueueJob]
    /\ \A e \in Ids : \/ task'[e].state = task[e].state
                      \/ task[e].state = "none" /\ task'[e].state = "waiting"
    /\ \A w \in Times : task'[After(w)].state # "none" =>
                            task[After(w)].state # "none" \/ NewSince(w) # {}

\* What the generation r of d knows of the messages.
Knows(d, r) ==
    /\ \A w \in Times : d = After(w) /\ r.pc # "read" => w < r.upto
    /\ r.pc = "readd" => NewSince(r.upto) # {}

LEMMA AfterIs == \A w \in Times : After(w) \in Ids
  BY DEF Ids, Times

LEMMA GenerationStep ==
  ASSUME InsightInv, NEW d \in Ids, NEW r \in Generation, Becomes(d, r),
         run[d].pc # "none", r.pc # "none", KeepsQueue,
         UNCHANGED <<chat, people, refused, erased>>,
         mark' \in Times, suggested' \in Stages \cup {None}, failures' \in Nat,
         excused' \in SUBSET Texts, covered' \in SUBSET Texts,
         Heeds(r), Knows(d, r), checked' \in Nat, checked' <= Len(refusals),
         Refrains(suggested', checked'),
         \/ UNCHANGED fields
         \/ version' = version + 1 /\ field' \in {"empty", "manual", "ai"},
         r.version <= version,
         r.pc = "fillWrite" => UNCHANGED fields /\ (r.version = version => field = "empty"),
         \A k \in Texts : Needs(k)' =>
            \/ \E e \in Ids : e # d /\ Carries(e, k)
            \/ task'[d].state = "waiting"
            \/ r.pc \in {"read", "model", "look", "write", "useless", "readd"}
            \/ r.pc \in {"fill", "fillWrite", "count"} /\ r.upto < k
            \/ \E e \in Ids : e # d /\ Carries(e, k)'
  PROVE  InsightInv'
<1>0. UNCHANGED <<inserted, trigger, refusals, weekAgo, click>>
  BY DEF chat, people
<1>1. /\ run' \in [Ids -> Generation] /\ run'[d] = r
      /\ \A e \in Ids : e # d => run'[e] = run[e]
  BY DEF InsightInv, InsightTypeOK, Becomes
<1>2. InsightTypeOK'
  BY <1>0, <1>1 DEF InsightInv, InsightTypeOK, fields, KeepsQueue
<1>3. InStep'
  BY <1>1 DEF InsightInv, InStep, KeepsQueue
<1>4. RefusalsOK'
  <2>1. ASSUME NEW e \in Ids PROVE Heeds(run[e])'
    <3>1. Heeds(run'[e])
      BY <1>1 DEF InsightInv, RefusalsOK
    <3> QED BY <1>0, <3>1 DEF Heeds, Listed, Refrains
  <2>2. RefusedStaysAway'
    BY <1>0 DEF RefusedStaysAway, Refrains
  <2> QED BY <1>0, <2>1, <2>2 DEF InsightInv, RefusalsOK, Listed
<1>5. FieldOK'
  <2>1. ASSUME NEW e \in Ids, e # d
        PROVE  /\ run'[e].version <= version'
               /\ run'[e].pc = "fillWrite" /\ run'[e].version = version' => field' = "empty"
    BY <1>1, <2>1 DEF InsightInv, FieldOK, InsightTypeOK, Generation, fields
  <2>2. /\ run'[d].version <= version'
        /\ run'[d].pc = "fillWrite" /\ run'[d].version = version' => field' = "empty"
    BY <1>1 DEF InsightInv, InsightTypeOK, Generation, fields
  <2> QED BY <2>1, <2>2 DEF FieldOK
<1>6. NewsOK'
  <2> SUFFICES ASSUME NEW k \in Texts, Needs(k)'
               PROVE  \E e \in Ids : Carries(e, k)'
    BY DEF NewsOK
  <2>1. \A e \in Ids : e # d /\ Carries(e, k) => Carries(e, k)'
    BY <1>1 DEF Carries, KeepsQueue
  <2>2. CASE \/ task'[d].state = "waiting"
             \/ r.pc \in {"read", "model", "look", "write", "useless", "readd"}
             \/ r.pc \in {"fill", "fillWrite", "count"} /\ r.upto < k
    BY <1>1, <2>2 DEF Carries
  <2>3. CASE \E e \in Ids : e # d /\ Carries(e, k)
    BY <2>1, <2>3
  <2>4. CASE \E e \in Ids : e # d /\ Carries(e, k)'
    BY <2>4
  <2> QED BY <2>2, <2>3, <2>4
<1>7. AfterOK'
  <2>1. ASSUME NEW w \in Times, task'[After(w)].state # "none" PROVE NewSince(w)' # {}
    BY <1>0, <2>1 DEF InsightInv, AfterOK, KeepsQueue, NewSince
  <2>2. ASSUME NEW w \in Times, run'[After(w)].pc \notin {"none", "read"}
        PROVE  w < run'[After(w)].upto
    BY <1>1, <2>2, AfterIs DEF InsightInv, AfterOK, Knows
  <2>3. ASSUME NEW e \in Ids, run'[e].pc = "readd" PROVE NewSince(run[e].upto)' # {}
    BY <1>0, <1>1, <2>3 DEF InsightInv, AfterOK, Knows, NewSince
  <2> QED BY <2>1, <2>2, <2>3 DEF AfterOK
<1> QED BY <1>2, <1>3, <1>4, <1>5, <1>6, <1>7 DEF InsightInv

\* The queue forgets the job of d, or takes it back for another attempt.
Ends(d, j) ==
    /\ Becomes(d, NoRun) /\ task' = [task EXCEPT ![d] = j]
    /\ UNCHANGED <<chat, card, people, fields, covered, checked, erased>> /\ failures' \in Nat

LEMMA EndsFacts ==
  ASSUME InsightInv, NEW d \in Ids, NEW j \in QueueJob, j.state # "active", Ends(d, j),
         run[d].pc # "none", excused' \in {excused, excused \cup Pending}
  PROVE  /\ run'[d] = NoRun /\ \A e \in Ids : e # d => run'[e] = run[e]
         /\ task'[d] = j /\ \A e \in Ids : e # d => task'[e] = task[e]
         /\ InsightTypeOK' /\ InStep' /\ RefusalsOK' /\ FieldOK' /\ AfterOK'
<1>0. UNCHANGED <<inserted, trigger, mark, suggested, refused, refusals, weekAgo, click,
                  field, version, covered, checked, erased>>
  BY DEF Ends, chat, card, people, fields
<1>1. /\ run' \in [Ids -> Generation] /\ run'[d] = NoRun
      /\ \A e \in Ids : e # d => run'[e] = run[e]
      /\ task' \in [Ids -> QueueJob] /\ task'[d] = j
      /\ \A e \in Ids : e # d => task'[e] = task[e]
  BY Nones DEF InsightInv, InsightTypeOK, Becomes, Ends
<1>2. InsightTypeOK'
  BY <1>0, <1>1 DEF InsightInv, InsightTypeOK, Pending, Ends
<1>3. InStep' /\ FieldOK'
  BY <1>0, <1>1, Nones DEF InsightInv, InsightTypeOK, InStep, FieldOK
<1>4. RefusalsOK'
  <2>1. ASSUME NEW e \in Ids PROVE Heeds(run[e])'
    <3>1. Heeds(run'[e])
      BY <1>1, Nones DEF InsightInv, RefusalsOK, Heeds, InsightTypeOK
    <3> QED BY <1>0, <3>1 DEF Heeds, Listed, Refrains
  <2> QED BY <1>0, <2>1 DEF InsightInv, RefusalsOK, Listed, RefusedStaysAway
<1>5. AfterOK'
  <2>1. ASSUME NEW w \in Times, task'[After(w)].state # "none" PROVE NewSince(w)' # {}
    <3>1. task[After(w)].state # "none"
      BY <1>1, <2>1, AfterIs DEF InsightInv, InStep
    <3> QED BY <1>0, <3>1 DEF InsightInv, AfterOK, NewSince
  <2>2. ASSUME NEW w \in Times, run'[After(w)].pc \notin {"none", "read"}
        PROVE  w < run'[After(w)].upto
    BY <1>1, <2>2, AfterIs, Nones DEF InsightInv, AfterOK
  <2>3. ASSUME NEW e \in Ids, run'[e].pc = "readd" PROVE NewSince(run[e].upto)' # {}
    BY <1>0, <1>1, <2>3, Nones DEF InsightInv, AfterOK, NewSince
  <2> QED BY <2>1, <2>2, <2>3 DEF AfterOK
<1> QED BY <1>1, <1>2, <1>3, <1>4, <1>5

\* Its failure is on record ...
LEMMA GenerationExcused ==
  ASSUME InsightInv, NEW d \in Ids, NEW j \in QueueJob, j.state # "active", Ends(d, j),
         run[d].pc # "none", excused' = excused \cup Pending
  PROVE  InsightInv'
<1>1. InsightTypeOK' /\ InStep' /\ RefusalsOK' /\ FieldOK' /\ AfterOK'
  BY EndsFacts
<1>2. NewsOK'
  BY DEF NewsOK, Needs, Pending, chat, Ends
<1> QED BY <1>1, <1>2 DEF InsightInv

\* ... or it carried no message that is not carried by its next attempt.
LEMMA GenerationEnds ==
  ASSUME InsightInv, NEW d \in Ids, NEW j \in QueueJob, j.state # "active", Ends(d, j),
         run[d].pc # "none", excused' = excused,
         \A k \in inserted : Carries(d, k) => j.state = "waiting"
  PROVE  InsightInv'
<1>1. /\ run'[d] = NoRun /\ \A e \in Ids : e # d => run'[e] = run[e]
      /\ task'[d] = j /\ \A e \in Ids : e # d => task'[e] = task[e]
      /\ InsightTypeOK' /\ InStep' /\ RefusalsOK' /\ FieldOK' /\ AfterOK'
  BY EndsFacts
<1>2. ASSUME NEW k \in Texts, Needs(k)' PROVE \E e \in Ids : Carries(e, k)'
  <2>1. Needs(k) /\ k \in inserted
    BY <1>2 DEF Needs, Asked, Pending, chat, Ends
  <2>2. PICK e \in Ids : Carries(e, k)
    BY <2>1 DEF InsightInv, NewsOK
  <2>3. CASE e = d
    BY <1>1, <2>1, <2>2, <2>3 DEF Carries
  <2>4. CASE e # d
    BY <1>1, <2>2, <2>4 DEF Carries
  <2> QED BY <2>3, <2>4
<1> QED BY <1>1, <1>2 DEF InsightInv, NewsOK

--------------------------------------------------------------------------------
(* The statements of a generation.                                            *)

LEMMA RunIs ==
  ASSUME InsightTypeOK, NEW d \in Ids
  PROVE  run \in [Ids -> Generation] /\ run[d] \in Generation
  BY DEF InsightTypeOK

LEMMA AddedKeepsQueue ==
  ASSUME InsightTypeOK, NEW e \in Ids, task' = Added(e),
         \A w \in Times : e = After(w) => NewSince(w) # {}
  PROVE  KeepsQueue
  BY AddedFacts, AfterIs DEF KeepsQueue

LEMMA SameKeepsQueue ==
  ASSUME InsightTypeOK, UNCHANGED task PROVE KeepsQueue
  BY DEF KeepsQueue, InsightTypeOK

\* What the card says is not touched.
LEMMA CardStays ==
  ASSUME InsightInv, UNCHANGED <<chat, card, people, ghost>>
  PROVE  /\ mark' \in Times /\ suggested' \in Stages \cup {None}
         /\ excused' \in SUBSET Texts /\ covered' \in SUBSET Texts
         /\ checked' \in Nat /\ checked' <= Len(refusals) /\ Refrains(suggested', checked')
         /\ UNCHANGED <<refused, erased, inserted>> /\ Pending' = Pending
  BY DEF InsightInv, InsightTypeOK, RefusalsOK, RefusedStaysAway, Refrains, chat, card,
         people, ghost, Pending

\* Only the place changes, and it is still one that carries every message.
LEMMA StillToWrite ==
  ASSUME InsightInv, NEW d \in Ids, NEW r \in Generation, Becomes(d, r), run[d].pc # "none",
         r.pc \in {"model", "look", "write", "useless"}, r.version = run[d].version,
         Heeds(r), Knows(d, r),
         UNCHANGED <<chat, card, people, fields, task, ghost>>, failures' \in Nat
  PROVE  InsightInv'
<1>1. KeepsQueue
  BY SameKeepsQueue DEF InsightInv
<1>2. r.version <= version
  BY DEF InsightInv, FieldOK
<1>3. UNCHANGED <<chat, people>>
  OBVIOUS
<1>4. UNCHANGED fields
  OBVIOUS
<1> QED BY <1>1, <1>2, <1>3, <1>4, CardStays, GenerationStep

\* A generation that goes on from "model", "look", "count" and the like with the
\* watermark it has.
LEMMA KnowsOn ==
  ASSUME InsightInv, NEW d \in Ids, NEW r, r.upto = run[d].upto,
         run[d].pc \notin {"none", "read"}, r.pc # "readd"
  PROVE  Knows(d, r)
  BY DEF InsightInv, AfterOK, Knows

LEMMA ReadMessagesStep ==
  ASSUME InsightInv, NEW d \in Ids, ReadMessages(d) PROVE InsightInv'
<1>1. /\ run[d].pc = "read" /\ run[d] \in Generation
      /\ UNCHANGED <<chat, card, people, fields, task, failures, ghost>>
      /\ failures' \in Nat /\ run[d].version <= version /\ Len(refusals) \in Nat
  <2>1. run[d].pc = "read" /\ UNCHANGED <<chat, card, people, fields, task, failures, ghost>>
    BY DEF ReadMessages, On
  <2>2. run[d] \in Generation
    BY RunIs DEF InsightInv
  <2>3. failures \in Nat /\ refusals \in Seq(Stages) /\ run[d].version <= version
    BY DEF InsightInv, InsightTypeOK, FieldOK
  <2>4. failures' = failures
    BY <2>1
  <2>5. Len(refusals) \in Nat
    BY <2>3
  <2> QED BY <2>1, <2>2, <2>3, <2>4, <2>5
<1>2. CASE inserted = {} /\ run' = [run EXCEPT ![d].pc = "ending"]
  <2>1. PICK r : r = [run[d] EXCEPT !.pc = "ending"]
    OBVIOUS
  <2>2. Becomes(d, r)
    BY <1>2, <2>1 DEF Becomes
  <2>3. r \in Generation /\ r.pc = "ending" /\ r.version <= version /\ r.looked = run[d].looked
    BY <1>1, <2>1 DEF Generation, Places
  <2>4. Heeds(r)
    BY <2>3 DEF Heeds, InsightInv, RefusalsOK
  <2>5. Knows(d, r)
    <3>1. task[d].state # "none"
      BY <1>1 DEF InsightInv, InStep
    <3>2. \A w \in Times : d # After(w)
      BY <1>2, <3>1 DEF InsightInv, AfterOK, NewSince
    <3> QED BY <2>3, <3>2 DEF Knows
  <2>6. \A k \in Texts : ~Needs(k)'
    BY <1>1, <1>2 DEF Needs, Pending, chat
  <2>7. KeepsQueue
    BY <1>1, SameKeepsQueue DEF InsightInv
  <2>8. UNCHANGED <<chat, people>>
    BY <1>1
  <2>9. UNCHANGED fields
    BY <1>1
  <2>10. UNCHANGED <<chat, card, people, ghost>>
    BY <1>1
  <2> QED BY <1>1, <2>2, <2>3, <2>4, <2>5, <2>6, <2>7, <2>8, <2>9, <2>10, CardStays, GenerationStep
<1>3. ASSUME NEW last \in {0} \cup inserted,
             \A k \in inserted : 0 < last /\ k <= last,
             run' = [run EXCEPT ![d].pc = "model", ![d].upto = last, ![d].saw = inserted,
                                ![d].known = refused, ![d].looked = Len(refusals)]
      PROVE  InsightInv'
  <2>1. PICK r : r = [run[d] EXCEPT !.pc = "model", !.upto = last, !.saw = inserted,
                                    !.known = refused, !.looked = Len(refusals)]
    OBVIOUS
  <2>2. Becomes(d, r)
    <3>1. run \in [Ids -> Generation]
      BY RunIs DEF InsightInv
    <3> QED BY <1>3, <2>1, <3>1 DEF Becomes
  <2>3. /\ last \in Times /\ inserted \in SUBSET Texts /\ refused \in SUBSET Nat
    BY InsightAssumption DEF InsightInv, InsightTypeOK, Texts, Times
  <2>4. /\ r \in Generation /\ r.pc = "model" /\ r.version = run[d].version
        /\ r.looked = Len(refusals) /\ r.known = refused /\ r.upto = last
    BY <1>1, <2>1, <2>3 DEF Generation, Places
  <2>5. Heeds(r)
    BY <1>1, <2>4 DEF Heeds, InsightInv, RefusalsOK
  <2>6. Knows(d, r)
    <3>1. ASSUME NEW w \in Times, d = After(w) PROVE w < last
      <4>1. task[d].state # "none"
        BY <1>1 DEF InsightInv, InStep
      <4>2. PICK k \in inserted : k > w
        BY <3>1, <4>1 DEF InsightInv, AfterOK, NewSince
      <4> QED BY <1>3, <2>3, <4>2 DEF Times, Texts
    <3> QED BY <2>4, <3>1 DEF Knows
  <2>7. UNCHANGED <<chat, card, people, fields, task, ghost>>
    BY <1>1
  <2> QED BY <1>1, <2>2, <2>4, <2>5, <2>6, <2>7, StillToWrite
<1> QED BY <1>2, <1>3 DEF ReadMessages

LEMMA ModelStep ==
  ASSUME InsightInv, NEW d \in Ids, Model(d) PROVE InsightInv'
<1>1. PICK s \in Stages \cup {None}, i \in BOOLEAN :
        run' = [run EXCEPT ![d].stage = s, ![d].interest = i,
                           ![d].pc = IF s = None THEN "write" ELSE "look",
                           ![d].known = IF s = None THEN {} ELSE @]
  BY DEF Model
<1>2. /\ run[d].pc = "model" /\ run[d] \in Generation /\ run \in [Ids -> Generation]
      /\ UNCHANGED <<chat, card, people, fields, task, failures, ghost>> /\ failures' \in Nat
  BY RunIs DEF Model, On, InsightInv, InsightTypeOK
<1>3. PICK pc \in {"write", "look"}, known \in {{}, run[d].known} :
        /\ run' = [run EXCEPT ![d].stage = s, ![d].interest = i, ![d].pc = pc, ![d].known = known]
        /\ pc = "write" => s = None
        /\ pc = "look" => known = run[d].known
  BY <1>1
<1>4. PICK r : r = [run[d] EXCEPT !.stage = s, !.interest = i, !.pc = pc, !.known = known]
  OBVIOUS
<1>5. Becomes(d, r)
  BY <1>2, <1>3, <1>4 DEF Becomes
<1>6. /\ r \in Generation /\ r.pc = pc /\ r.version = run[d].version /\ r.stage = s
      /\ r.upto = run[d].upto /\ r.looked = run[d].looked /\ r.known = known
  BY <1>2, <1>4 DEF Generation, Places
<1>7. Heeds(r)
  <2>1. Heeds(run[d])
    BY DEF InsightInv, RefusalsOK
  <2>2. CASE pc = "look"
    BY <1>2, <1>3, <1>6, <2>1, <2>2 DEF Heeds
  <2>3. CASE pc = "write"
    <3>1. \A n \in 1..r.looked : refusals[n] \in Stages
      BY <1>2, <1>6, <2>1 DEF Heeds, Generation, InsightInv, InsightTypeOK
    <3>2. Refrains(r.stage, r.looked)
      BY <1>3, <1>6, <2>3, <3>1, InsightAssumption DEF Refrains
    <3> QED BY <1>6, <2>1, <2>3, <3>2 DEF Heeds
  <2> QED BY <2>2, <2>3
<1>8. Knows(d, r)
  BY <1>2, <1>6, KnowsOn
<1> QED BY <1>2, <1>5, <1>6, <1>7, <1>8, StillToWrite

LEMMA UnusableStep ==
  ASSUME InsightInv, NEW d \in Ids, Unusable(d) PROVE InsightInv'
<1>1. PICK r : r = [run[d] EXCEPT !.pc = "useless"]
  OBVIOUS
<1>2. Becomes(d, r)
  BY <1>1 DEF Becomes, Unusable
<1>3. /\ r \in Generation /\ r.pc = "useless" /\ r.version = run[d].version
      /\ r.upto = run[d].upto /\ r.looked = run[d].looked
  BY <1>1, RunIs DEF Generation, Places, InsightInv
<1>4. Heeds(r)
  BY <1>3 DEF Heeds, InsightInv, RefusalsOK
<1>5. Knows(d, r) /\ run[d].pc = "model"
  BY <1>3, KnowsOn DEF Unusable, On
<1>6. failures' \in Nat /\ UNCHANGED <<chat, card, people, fields, task, ghost>>
  BY DEF Unusable, InsightInv, InsightTypeOK
<1> QED BY <1>2, <1>3, <1>4, <1>5, <1>6, StillToWrite

\* The stage that the look leaves is one the list it looked at does not refuse.
LEMMA LookedAt ==
  ASSUME NEW list, NEW made, NEW s, Listed(list, made), ~RecusadaRecente(list, s)
  PROVE  Refrains(s, made)
  BY DEF Listed, RecusadaRecente, Refrains

LEMMA NoStage ==
  ASSUME InsightInv, NEW made \in Nat, made <= Len(refusals) PROVE Refrains(None, made)
<1>1. \A n \in 1..made : refusals[n] \in Stages
  BY DEF InsightInv, InsightTypeOK
<1> QED BY <1>1, InsightAssumption DEF Refrains

LEMMA LookStep ==
  ASSUME InsightInv, NEW d \in Ids, run[d].pc = "look",
         NEW s \in {None, run[d].stage}, NEW made \in Nat, made <= Len(refusals),
         Refrains(s, made),
         run' = [run EXCEPT ![d].pc = "write", ![d].known = {}, ![d].looked = made,
                            ![d].stage = s],
         UNCHANGED <<chat, card, people, fields, task, ghost>>, failures' \in Nat
  PROVE  InsightInv'
<1>1. PICK r : r = [run[d] EXCEPT !.pc = "write", !.known = {}, !.looked = made, !.stage = s]
  OBVIOUS
<1>2. run[d] \in Generation /\ run \in [Ids -> Generation]
  BY RunIs DEF InsightInv
<1>3. Becomes(d, r)
  BY <1>1, <1>2 DEF Becomes
<1>4. /\ r \in Generation /\ r.pc = "write" /\ r.version = run[d].version
      /\ r.upto = run[d].upto /\ r.looked = made /\ r.stage = s
  BY <1>1, <1>2 DEF Generation, Places
<1>5. Heeds(r)
  BY <1>4 DEF Heeds
<1>6. Knows(d, r)
  BY <1>4, KnowsOn
<1> QED BY <1>3, <1>4, <1>5, <1>6, StillToWrite

LEMMA LookAgainStep ==
  ASSUME InsightInv, NEW d \in Ids, LookAgain(d) PROVE InsightInv'
<1>1. PICK made : made = Len(refusals)
  OBVIOUS
<1>2. made \in Nat /\ made <= Len(refusals) /\ Listed(refused, made)
  BY <1>1 DEF InsightInv, InsightTypeOK, RefusalsOK
<1>3. PICK s : s = IF RecusadaRecente(refused, run[d].stage) THEN None ELSE run[d].stage
  OBVIOUS
<1>4. Refrains(s, made) /\ s \in {None, run[d].stage}
  <2>1. CASE RecusadaRecente(refused, run[d].stage)
    BY <1>2, <1>3, <2>1, NoStage
  <2>2. CASE ~RecusadaRecente(refused, run[d].stage)
    BY <1>2, <1>3, <2>2, LookedAt
  <2> QED BY <2>1, <2>2
<1>5. run' = [run EXCEPT ![d].pc = "write", ![d].known = {}, ![d].looked = made,
                         ![d].stage = s]
  BY <1>1, <1>3 DEF LookAgain
<1> QED BY <1>2, <1>4, <1>5, LookStep DEF LookAgain, On, InsightInv, InsightTypeOK

LEMMA LookFailsStep ==
  ASSUME InsightInv, NEW d \in Ids, LookFails(d) PROVE InsightInv'
<1>0. run[d].pc = "look" /\ run[d] \in Generation /\ run \in [Ids -> Generation]
  BY RunIs DEF LookFails, On, InsightInv
<1>1. PICK made : made = run[d].looked
  OBVIOUS
<1>2. made \in Nat /\ made <= Len(refusals) /\ Listed(run[d].known, made)
  BY <1>0, <1>1 DEF InsightInv, RefusalsOK, Heeds, Generation
<1>3. PICK s : s = IF RecusadaRecente(run[d].known, run[d].stage) THEN None ELSE run[d].stage
  OBVIOUS
<1>4. Refrains(s, made) /\ s \in {None, run[d].stage}
  <2>1. CASE RecusadaRecente(run[d].known, run[d].stage)
    BY <1>2, <1>3, <2>1, NoStage
  <2>2. CASE ~RecusadaRecente(run[d].known, run[d].stage)
    BY <1>2, <1>3, <2>2, LookedAt
  <2> QED BY <2>1, <2>2
<1>5. run' = [run EXCEPT ![d].pc = "write", ![d].known = {}, ![d].stage = s]
  BY <1>3 DEF LookFails
<1>6. run' = [run EXCEPT ![d].pc = "write", ![d].known = {}, ![d].looked = made,
                         ![d].stage = s]
  <2>1. [run[d] EXCEPT !.pc = "write", !.known = {}, !.stage = s]
          = [run[d] EXCEPT !.pc = "write", !.known = {}, !.looked = made, !.stage = s]
    BY <1>0, <1>1 DEF Generation
  <2>2. run' = [run EXCEPT ![d] = [run[d] EXCEPT !.pc = "write", !.known = {}, !.stage = s]]
    BY <1>0, <1>5
  <2> QED BY <1>0, <2>1, <2>2
<1>7. failures' \in Nat /\ UNCHANGED <<chat, card, people, fields, task, ghost>>
  BY DEF LookFails, InsightInv, InsightTypeOK
<1> QED BY <1>0, <1>2, <1>4, <1>6, <1>7, LookStep

LEMMA RecheckThrowsStep ==
  ASSUME InsightInv, NEW d \in Ids, RecheckThrows(d) PROVE InsightInv'
<1>1. PICK r : r = [run[d] EXCEPT !.pc = "useless"]
  OBVIOUS
<1>2. Becomes(d, r)
  BY <1>1 DEF RecheckThrows, Becomes
<1>3. /\ r \in Generation /\ r.pc = "useless" /\ r.version = run[d].version
      /\ r.upto = run[d].upto /\ r.looked = run[d].looked
  BY <1>1, RunIs DEF Generation, Places, InsightInv
<1>4. Heeds(r) /\ Knows(d, r)
  BY <1>3, KnowsOn DEF Heeds, InsightInv, RefusalsOK, RecheckThrows
<1>5. /\ failures' \in Nat /\ UNCHANGED <<chat, card, people, fields, task, ghost>>
      /\ run[d].pc # "none"
  BY DEF RecheckThrows, InsightInv, InsightTypeOK
<1> QED BY <1>2, <1>3, <1>4, <1>5, StillToWrite

\* After the write a generation goes on to its look at the messages that came since.
LEMMA StillToLook ==
  ASSUME InsightInv, NEW d \in Ids, NEW r \in Generation, Becomes(d, r),
         run[d].pc \in {"fill", "fillWrite", "count"},
         r.pc \in {"fillWrite", "count", "readd"}, r.upto = run[d].upto,
         r.looked <= Len(refusals), KeepsQueue, Knows(d, r),
         UNCHANGED <<chat, card, people, failures, ghost>>,
         \/ UNCHANGED fields
         \/ version' = version + 1 /\ field' \in {"empty", "manual", "ai"},
         r.version <= version,
         r.pc = "fillWrite" => UNCHANGED fields /\ (r.version = version => field = "empty")
  PROVE  InsightInv'
<1>1. Heeds(r) /\ failures' \in Nat /\ UNCHANGED <<chat, people>>
  BY DEF Heeds, InsightInv, InsightTypeOK
<1>2. ASSUME NEW k \in Texts, Needs(k)'
      PROVE  \/ \E e \in Ids : e # d /\ Carries(e, k)
             \/ r.pc \in {"read", "model", "look", "write", "useless", "readd"}
             \/ r.pc \in {"fill", "fillWrite", "count"} /\ r.upto < k
  <2>1. Needs(k)
    BY <1>2, CardStays DEF Needs, Asked, chat, ghost
  <2>2. PICK e \in Ids : Carries(e, k)
    BY <2>1 DEF InsightInv, NewsOK
  <2>3. task[d].state # "waiting"
    BY DEF InsightInv, InStep
  <2> QED BY <2>2, <2>3 DEF Carries
<1> QED BY <1>1, <1>2, CardStays, GenerationStep

\* The card is written: what needs another generation came after this one's watermark.
LEMMA WriteCardStep ==
  ASSUME InsightInv, NEW d \in Ids, WriteCard(d) PROVE InsightInv'
<1>1. PICK done : done = Done(d)
  OBVIOUS
<1>2. PICK r : r = IF run[d].interest
                   THEN [done EXCEPT !.pc = "fill", !.version = run[d].version] ELSE done
  OBVIOUS
<1>3. /\ run[d].pc = "write" /\ run[d] \in Generation
      /\ mark' = run[d].upto /\ covered' = run[d].saw
      /\ excused' = (excused \cup {k \in inserted : k <= run[d].upto}) \ run[d].saw
      /\ suggested' = run[d].stage /\ checked' = run[d].looked
      /\ UNCHANGED <<chat, refused, people, fields, task, failures, erased>>
  BY RunIs DEF WriteCard, On, InsightInv
<1>4. Becomes(d, r)
  BY <1>1, <1>2 DEF WriteCard, Becomes
<1>5. /\ done \in Generation /\ done.pc = "count" /\ done.upto = run[d].upto
      /\ done.version = 0 /\ done.looked = 0
  BY <1>1, DoneFacts DEF InsightInv
<1>6. /\ r \in Generation /\ r.pc \in {"fill", "count"} /\ r.upto = run[d].upto
      /\ r.looked = 0 /\ r.version <= version
  <2>1. run[d].version <= version /\ 0 <= version
    BY DEF InsightInv, InsightTypeOK, FieldOK
  <2>2. CASE run[d].interest
    <3>1. r = [done EXCEPT !.pc = "fill", !.version = run[d].version]
      BY <1>2, <2>2
    <3>2. r \in Generation /\ r.pc = "fill" /\ r.upto = done.upto /\ r.looked = done.looked
          /\ r.version = run[d].version
      BY <1>3, <1>5, <3>1 DEF Generation, Places
    <3> QED BY <1>5, <2>1, <3>2
  <2>3. CASE ~run[d].interest
    BY <1>2, <1>5, <2>1, <2>3
  <2> QED BY <2>2, <2>3
<1>7. /\ mark' \in Times /\ suggested' \in Stages \cup {None}
      /\ excused' \in SUBSET Texts /\ covered' \in SUBSET Texts
      /\ failures' \in Nat /\ checked' \in Nat
  <2>1. inserted \in SUBSET Texts /\ excused \in SUBSET Texts /\ failures \in Nat
    BY DEF InsightInv, InsightTypeOK
  <2> QED BY <1>3, <2>1 DEF Generation
<1>8. /\ checked' <= Len(refusals) /\ Refrains(suggested', checked')
  <2>1. Heeds(run[d])
    BY DEF InsightInv, RefusalsOK
  <2>2. run[d].looked <= Len(refusals) /\ Refrains(run[d].stage, run[d].looked)
    BY <1>3, <2>1 DEF Heeds
  <2> QED BY <1>3, <2>2
<1>9. Heeds(r)
  BY <1>6 DEF Heeds, InsightInv, InsightTypeOK
<1>10. Knows(d, r)
  BY <1>3, <1>6, KnowsOn
<1>11. KeepsQueue
  BY <1>3, SameKeepsQueue DEF InsightInv
<1>12. ASSUME NEW k \in Texts, Needs(k)' PROVE r.upto < k
  <2>1. k \in inserted /\ k \notin run[d].saw /\ ~(k <= run[d].upto)
    BY <1>3, <1>12 DEF Needs, Pending, chat
  <2>2. run[d].upto \in Nat /\ k \in Nat
    BY <1>3, InsightAssumption DEF Generation, Times, Texts
  <2> QED BY <1>6, <2>1, <2>2
<1>13. UNCHANGED <<chat, people, refused, erased>>
  BY <1>3
<1>14. UNCHANGED fields
  BY <1>3
<1> QED BY <1>3, <1>4, <1>6, <1>7, <1>8, <1>9, <1>10, <1>11, <1>12, <1>13, <1>14, GenerationStep

\* Only the recheck is left.
LEMMA FilledIn ==
  ASSUME InsightInv, NEW d \in Ids, run[d].pc \in {"fill", "fillWrite"}, Becomes(d, Done(d)),
         KeepsQueue, UNCHANGED <<chat, card, people, failures, ghost>>,
         \/ UNCHANGED fields
         \/ version' = version + 1 /\ field' \in {"empty", "manual", "ai"}
  PROVE  InsightInv'
<1>1. PICK r : r = Done(d)
  OBVIOUS
<1>2. /\ r \in Generation /\ r.pc = "count" /\ r.upto = run[d].upto /\ r.version = 0
      /\ r.looked = 0
  BY <1>1, DoneFacts DEF InsightInv
<1>3. r.version <= version /\ r.looked <= Len(refusals)
  BY <1>2 DEF InsightInv, InsightTypeOK
<1>4. Knows(d, r)
  BY <1>2, KnowsOn
<1>5. Becomes(d, r)
  BY <1>1
<1> QED BY <1>2, <1>3, <1>4, <1>5, StillToLook

LEMMA InterestQueued ==
  ASSUME InsightInv, task' = Added(Interest) \/ UNCHANGED task PROVE KeepsQueue
<1>1. Interest \in Ids /\ \A w \in Times : Interest # After(w)
  BY DEF Ids, Interest, After
<1> QED BY <1>1, AddedKeepsQueue, SameKeepsQueue DEF InsightInv

LEMMA FillStep ==
  ASSUME InsightInv, NEW d \in Ids, Fill(d) PROVE InsightInv'
<1>1. /\ run[d].pc = "fill" /\ run[d] \in Generation
      /\ UNCHANGED <<chat, card, people, failures, ghost>>
      /\ task' = Added(Interest) \/ UNCHANGED task
  BY RunIs DEF Fill, On, InsightInv
<1>2. UNCHANGED fields
  BY DEF Fill
<1>3. KeepsQueue
  BY <1>1, InterestQueued
<1>4. CASE Becomes(d, Done(d))
  BY <1>1, <1>2, <1>3, <1>4, FilledIn
<1>5. CASE ~Becomes(d, Done(d))
  <2>1. field = "empty" /\ run' = [run EXCEPT ![d].pc = "fillWrite"]
    BY <1>5 DEF Fill, Becomes
  <2>2. PICK r : r = [run[d] EXCEPT !.pc = "fillWrite"]
    OBVIOUS
  <2>3. Becomes(d, r)
    BY <2>1, <2>2 DEF Becomes
  <2>4. /\ r \in Generation /\ r.pc = "fillWrite" /\ r.upto = run[d].upto
        /\ r.version = run[d].version /\ r.looked = run[d].looked
    BY <1>1, <2>2 DEF Generation, Places
  <2>5. r.version <= version /\ r.looked <= Len(refusals)
    BY <2>4 DEF InsightInv, FieldOK, RefusalsOK, Heeds
  <2>6. Knows(d, r)
    BY <1>1, <2>4, KnowsOn
  <2> QED BY <1>1, <1>2, <1>3, <2>1, <2>3, <2>4, <2>5, <2>6, StillToLook
<1> QED BY <1>4, <1>5

LEMMA FillWriteStep ==
  ASSUME InsightInv, NEW d \in Ids, FillWrite(d) PROVE InsightInv'
<1>1. /\ run[d].pc = "fillWrite" /\ Becomes(d, Done(d))
      /\ UNCHANGED <<chat, card, people, failures, ghost>>
      /\ task' = Added(Interest) \/ UNCHANGED task
  BY DEF FillWrite, On, Becomes
<1>2. KeepsQueue
  BY <1>1, InterestQueued
<1>3. \/ UNCHANGED fields
      \/ version' = version + 1 /\ field' \in {"empty", "manual", "ai"}
  BY DEF FillWrite
<1> QED BY <1>1, <1>2, <1>3, FilledIn

\* A generation that has nothing more to do but asking again, or ending.
LEMMA OverStep ==
  ASSUME InsightInv, NEW d \in Ids, run[d].pc \in {"count", "readd"},
         run' = [run EXCEPT ![d].pc = "ending"], KeepsQueue,
         UNCHANGED <<chat, card, people, fields, failures, covered, checked, erased>>,
         excused' \in SUBSET Texts,
         \A k \in Texts : Needs(k)' => \/ \E e \in Ids : e # d /\ Carries(e, k)
                                       \/ task'[d].state = "waiting"
                                       \/ \E e \in Ids : e # d /\ Carries(e, k)'
  PROVE  InsightInv'
<1>1. PICK r : r = [run[d] EXCEPT !.pc = "ending"]
  OBVIOUS
<1>2. Becomes(d, r)
  BY <1>1 DEF Becomes
<1>3. /\ r \in Generation /\ r.pc = "ending" /\ r.upto = run[d].upto
      /\ r.version = run[d].version /\ r.looked = run[d].looked
  BY <1>1, RunIs DEF Generation, Places, InsightInv
<1>4. Heeds(r) /\ r.version <= version
  BY <1>3 DEF Heeds, InsightInv, RefusalsOK, FieldOK
<1>5. Knows(d, r)
  BY <1>3, KnowsOn
<1>6. /\ UNCHANGED <<mark, suggested, refused>>
  BY DEF card
<1>7. /\ mark' \in Times /\ suggested' \in Stages \cup {None} /\ covered' \in SUBSET Texts
      /\ checked' \in Nat /\ checked' <= Len(refusals) /\ failures' \in Nat
  BY <1>6 DEF InsightInv, InsightTypeOK, RefusalsOK
<1>8. Refrains(suggested', checked')
  BY <1>6 DEF InsightInv, RefusalsOK, RefusedStaysAway, Refrains
<1>9. UNCHANGED fields
  OBVIOUS
<1>10. UNCHANGED <<chat, people, refused, erased>>
  BY <1>6
<1> QED BY <1>2, <1>3, <1>4, <1>5, <1>7, <1>8, <1>9, <1>10, GenerationStep

LEMMA RecheckStep ==
  ASSUME InsightInv, NEW d \in Ids, Recheck(d) PROVE InsightInv'
<1>1. /\ run[d].pc = "count" /\ run[d] \in Generation
      /\ UNCHANGED <<chat, card, people, fields, task, failures, ghost>>
      /\ run' = [run EXCEPT ![d].pc = IF NewSince(run[d].upto) # {} THEN "readd" ELSE "ending"]
  BY RunIs DEF Recheck, On, InsightInv
<1>2. KeepsQueue
  BY <1>1, SameKeepsQueue DEF InsightInv
<1>3. CASE NewSince(run[d].upto) # {}
  <2>1. PICK r : r = [run[d] EXCEPT !.pc = "readd"]
    OBVIOUS
  <2>2. Becomes(d, r)
    BY <1>1, <1>3, <2>1 DEF Becomes
  <2>3. /\ r \in Generation /\ r.pc = "readd" /\ r.upto = run[d].upto
        /\ r.version = run[d].version /\ r.looked = run[d].looked
    BY <1>1, <2>1 DEF Generation, Places
  <2>4. r.version <= version /\ r.looked <= Len(refusals)
    BY <2>3 DEF InsightInv, FieldOK, RefusalsOK, Heeds
  <2>5. Knows(d, r)
    BY <1>1, <1>3, <2>3 DEF InsightInv, AfterOK, Knows
  <2>6. UNCHANGED fields
    BY <1>1
  <2>7. UNCHANGED <<chat, card, people, failures, ghost>>
    BY <1>1
  <2> QED BY <1>1, <1>2, <2>2, <2>3, <2>4, <2>5, <2>6, <2>7, StillToLook
<1>4. CASE NewSince(run[d].upto) = {}
  <2>1. run' = [run EXCEPT ![d].pc = "ending"]
    BY <1>1, <1>4
  <2>2. ASSUME NEW k \in Texts, Needs(k)' PROVE \E e \in Ids : e # d /\ Carries(e, k)
    <3>1. Needs(k) /\ k \in inserted
      BY <1>1, <2>2 DEF Needs, Asked, Pending, chat, ghost
    <3>2. PICK e \in Ids : Carries(e, k)
      BY <3>1 DEF InsightInv, NewsOK
    <3>3. ~(run[d].upto < k)
      BY <1>4, <3>1 DEF NewSince
    <3>4. task[d].state # "waiting"
      BY <1>1 DEF InsightInv, InStep
    <3> QED BY <1>1, <3>2, <3>3, <3>4 DEF Carries
  <2>3. excused' \in SUBSET Texts
    BY <1>1, CardStays
  <2>4. UNCHANGED <<chat, card, people, fields, failures, covered, checked, erased>>
    BY <1>1 DEF ghost
  <2> QED BY <1>1, <1>2, <2>1, <2>2, <2>3, <2>4, OverStep
<1> QED BY <1>3, <1>4
\* The job asked for exists and will look, is queued now, or the gap is on record.
LEMMA ReaddStep ==
  ASSUME InsightInv, NEW d \in Ids, Readd(d) PROVE InsightInv'
<1>1. /\ run[d].pc = "readd" /\ run[d] \in Generation /\ run[d].upto \in Times
      /\ UNCHANGED <<chat, card, people, fields, failures, covered, checked, erased>>
      /\ run' = [run EXCEPT ![d].pc = "ending"] /\ task' = Added(After(run[d].upto))
      /\ excused' = excused \cup {k \in Pending : Deaf(After(run[d].upto), k)}
  BY RunIs DEF Readd, On, InsightInv, Generation
<1>2. PICK after \in Ids : after = After(run[d].upto)
  BY <1>1, AfterIs
<1>3. after # d
  BY <1>1, <1>2, InsightAssumption DEF InsightInv, AfterOK, Times
<1>4. \A w \in Times : after = After(w) => NewSince(w) # {}
  BY <1>1, <1>2 DEF InsightInv, AfterOK, After
<1>5. /\ task' = Added(after) /\ excused' = excused \cup {k \in Pending : Deaf(after, k)}
  BY <1>1, <1>2
<1>6. KeepsQueue /\ task'[after].state = IF task[after].state = "none" THEN "waiting"
                                         ELSE task[after].state
  BY <1>4, <1>5, AddedKeepsQueue, AddedFacts DEF InsightInv
<1>7. excused' \in SUBSET Texts
  BY <1>5 DEF InsightInv, InsightTypeOK, Pending
<1>8. ASSUME NEW k \in Texts, Needs(k)'
      PROVE  Carries(after, k) \/ Carries(after, k)'
  <2>1. k \in Pending /\ ~Deaf(after, k)
    BY <1>1, <1>5, <1>8 DEF Needs, Pending, chat
  <2>2. CASE task[after].state = "active"
    <3>1. run[after] \in Generation /\ run[after].pc \notin {"none", "ending"}
      BY <2>1, <2>2, RunIs DEF Deaf, On, InsightInv, InStep
    <3>2. run[after].pc \in {"fill", "fillWrite", "count"} => run[after].upto < k
      BY <2>1, <3>1, InsightAssumption DEF Deaf, Generation, Times, Texts
    <3> QED BY <3>1, <3>2 DEF Carries, Generation, Places
  <2>3. CASE task[after].state # "active"
    <3>1. task'[after].state = "waiting"
      BY <1>6, <2>3 DEF InsightInv, InsightTypeOK, QueueJob
    <3> QED BY <3>1 DEF Carries
  <2> QED BY <2>2, <2>3
<1>9. \A k \in Texts : Needs(k)' => \/ \E e \in Ids : e # d /\ Carries(e, k)
                                    \/ \E e \in Ids : e # d /\ Carries(e, k)'
  <2> TAKE k \in Texts
  <2>1. ASSUME Needs(k)' PROVE Carries(after, k) \/ Carries(after, k)'
    BY <1>8, <2>1
  <2>2. CASE Carries(after, k)
    BY <1>3, <2>2
  <2>3. CASE Carries(after, k)'
    BY <1>3, <2>3
  <2> QED BY <2>1, <2>2, <2>3
<1> QED BY <1>1, <1>6, <1>7, <1>9, OverStep

LEMMA EndStep ==
  ASSUME InsightInv, NEW d \in Ids, End(d) PROVE InsightInv'
<1>1. PICK j : j = NoTask
  OBVIOUS
<1>2. Ends(d, j) /\ run[d].pc \in {"ending", "useless"} /\ j \in QueueJob /\ j.state = "none"
  BY <1>1, Nones DEF End, Ends, Becomes, InsightInv, InsightTypeOK
<1>3. CASE run[d].pc = "useless"
  BY <1>2, <1>3, GenerationExcused DEF End, On
<1>4. CASE run[d].pc = "ending"
  <2>1. \A k \in inserted : ~Carries(d, k)
    BY <1>4 DEF Carries, InsightInv, InStep
  <2> QED BY <1>2, <1>4, <2>1, GenerationEnds DEF End, On
<1> QED BY <1>2, <1>3, <1>4

LEMMA RunThrowsStep ==
  ASSUME InsightInv, NEW d \in Ids, RunThrows(d) PROVE InsightInv'
<1>1. task[d] \in QueueJob /\ task \in [Ids -> QueueJob] /\ failures \in Nat
  BY DEF InsightInv, InsightTypeOK
<1>2. run[d].pc # "none" /\ Becomes(d, NoRun) /\ failures' \in Nat
      /\ UNCHANGED <<chat, card, people, fields, covered, checked, erased>>
  BY <1>1 DEF RunThrows, Becomes
<1>3. CASE task[d].left > 1
  <2>1. PICK n \in Nat : n = task[d].left - 1
    BY <1>1, <1>3 DEF QueueJob
  <2>2. PICK j : j = [task[d] EXCEPT !.state = "waiting", !.left = n]
    OBVIOUS
  <2>3. j \in QueueJob /\ j.state = "waiting"
    BY <1>1, <2>2 DEF QueueJob
  <2>4. task' = [task EXCEPT ![d] = j] /\ excused' = excused
    BY <1>1, <1>3, <2>1, <2>2 DEF RunThrows
  <2>5. Ends(d, j)
    BY <1>2, <2>4 DEF Ends
  <2> QED BY <1>2, <2>3, <2>4, <2>5, GenerationEnds
<1>4. CASE ~(task[d].left > 1)
  <2>1. PICK j : j = NoTask
    OBVIOUS
  <2>2. task' = [task EXCEPT ![d] = j] /\ excused' = excused \cup Pending
    BY <1>4, <2>1 DEF RunThrows
  <2>3. Ends(d, j) /\ j \in QueueJob /\ j.state = "none"
    BY <1>2, <2>1, <2>2, Nones DEF Ends
  <2> QED BY <1>2, <2>2, <2>3, GenerationExcused
<1> QED BY <1>3, <1>4

LEMMA BeginStep ==
  ASSUME InsightInv, NEW d \in Ids, Begin(d) PROVE InsightInv'
<1>1. PICK r : r = [NoRun EXCEPT !.pc = "read", !.version = version]
  OBVIOUS
<1>2. /\ r \in Generation /\ r.pc = "read" /\ r.version = version /\ r.looked = 0
  BY <1>1, Nones DEF Generation, Places, NoRun, InsightInv, InsightTypeOK
<1>3. /\ task[d].state = "waiting" /\ task' = [task EXCEPT ![d].state = "active"]
      /\ run' = [run EXCEPT ![d] = r]
      /\ UNCHANGED <<chat, card, people, fields, failures, ghost>>
  BY <1>1 DEF Begin
<1>4. /\ run' \in [Ids -> Generation] /\ run'[d] = r
      /\ \A e \in Ids : e # d => run'[e] = run[e]
      /\ task' \in [Ids -> QueueJob] /\ task'[d].state = "active"
      /\ \A e \in Ids : e # d => task'[e] = task[e]
  BY <1>2, <1>3 DEF InsightInv, InsightTypeOK, QueueJob
<1>5. UNCHANGED <<inserted, trigger, mark, suggested, refused, refusals, weekAgo, click,
                  field, version, failures, covered, excused, checked, erased>>
  BY <1>3 DEF chat, card, people, fields, ghost
<1>6. InsightTypeOK'
  BY <1>4, <1>5 DEF InsightInv, InsightTypeOK
<1>7. InStep' /\ FieldOK'
  BY <1>2, <1>4, <1>5 DEF InsightInv, InsightTypeOK, InStep, FieldOK
<1>8. RefusalsOK'
  <2>1. ASSUME NEW e \in Ids PROVE Heeds(run[e])'
    <3>1. Heeds(run'[e])
      BY <1>2, <1>4 DEF InsightInv, RefusalsOK, Heeds, InsightTypeOK
    <3> QED BY <1>5, <3>1 DEF Heeds, Listed, Refrains
  <2> QED BY <1>5, <2>1 DEF InsightInv, RefusalsOK, Listed, RefusedStaysAway
<1>9. ASSUME NEW k \in Texts, Needs(k)' PROVE \E e \in Ids : Carries(e, k)'
  BY <1>2, <1>4 DEF Carries
<1>10. AfterOK'
  <2>1. ASSUME NEW w \in Times, task'[After(w)].state # "none" PROVE NewSince(w)' # {}
    <3>1. task[After(w)].state # "none"
      BY <1>3, <1>4, <2>1, AfterIs
    <3> QED BY <1>5, <3>1 DEF InsightInv, AfterOK, NewSince
  <2>2. ASSUME NEW w \in Times, run'[After(w)].pc \notin {"none", "read"}
        PROVE  w < run'[After(w)].upto
    BY <1>2, <1>4, <2>2, AfterIs DEF InsightInv, AfterOK
  <2>3. ASSUME NEW e \in Ids, run'[e].pc = "readd" PROVE NewSince(run[e].upto)' # {}
    BY <1>2, <1>4, <1>5, <2>3 DEF InsightInv, AfterOK, NewSince
  <2> QED BY <2>1, <2>2, <2>3 DEF AfterOK
<1> QED BY <1>6, <1>7, <1>8, <1>9, <1>10 DEF InsightInv, NewsOK
--------------------------------------------------------------------------------
(* Requests, people and the death of the process.                             *)

\* No generation moves.
LEMMA Elsewhere ==
  ASSUME InsightInv, UNCHANGED run, KeepsQueue, InsightTypeOK', RefusalsOK', FieldOK',
         inserted \subseteq inserted',
         \A k \in Texts : Needs(k)' => Needs(k) \/ \E e \in Ids : Carries(e, k)'
  PROVE  InsightInv'
<1>1. InStep'
  BY DEF InsightInv, InStep, KeepsQueue
<1>2. AfterOK'
  <2>1. \A w : NewSince(w) # {} => NewSince(w)' # {}
    BY DEF NewSince
  <2>2. ASSUME NEW w \in Times, task'[After(w)].state # "none" PROVE NewSince(w)' # {}
    BY <2>1, <2>2 DEF InsightInv, AfterOK, KeepsQueue
  <2>3. ASSUME NEW w \in Times, run'[After(w)].pc \notin {"none", "read"}
        PROVE  w < run'[After(w)].upto
    BY <2>3 DEF InsightInv, AfterOK
  <2>4. ASSUME NEW e \in Ids, run'[e].pc = "readd" PROVE NewSince(run[e].upto)' # {}
    <3>1. PICK w : w = run[e].upto
      OBVIOUS
    <3>2. NewSince(w)' # {}
      BY <2>1, <2>4, <3>1 DEF InsightInv, AfterOK
    <3> QED BY <3>1, <3>2 DEF NewSince
  <2> QED BY <2>2, <2>3, <2>4 DEF AfterOK
<1>3. ASSUME NEW k \in Texts, Needs(k)' PROVE \E e \in Ids : Carries(e, k)'
  <2>1. CASE Needs(k)
    <3>1. PICK e \in Ids : Carries(e, k)
      BY <2>1 DEF InsightInv, NewsOK
    <3> QED BY <3>1 DEF Carries, KeepsQueue
  <2> QED BY <1>3, <2>1
<1> QED BY <1>1, <1>2, <1>3 DEF InsightInv, NewsOK

\* A step of a trigger changes the card, the lead and people's requests in nothing.
LEMMA TriggerTyped ==
  ASSUME InsightInv, UNCHANGED <<card, people, fields, run, covered, checked, erased>>,
         KeepsQueue, inserted' \in SUBSET Texts, trigger' \in [Texts -> Asking],
         failures' \in Nat, excused' \in SUBSET Texts
  PROVE  InsightTypeOK' /\ RefusalsOK' /\ FieldOK'
<1>1. UNCHANGED <<mark, suggested, refused, refusals, weekAgo, click, field, version>>
  BY DEF card, people, fields
<1>2. InsightTypeOK'
  BY <1>1 DEF InsightInv, InsightTypeOK, KeepsQueue
<1>3. RefusalsOK' /\ FieldOK'
  BY <1>1 DEF InsightInv, RefusalsOK, RefusedStaysAway, Heeds, Listed, Refrains, FieldOK
<1> QED BY <1>2, <1>3

\* A trigger whose step changes, and perhaps what it leaves behind.
TriggerMoves(k, step) ==
    /\ trigger' \in [Texts -> Asking] /\ trigger'[k].step = step
    /\ \A m \in Texts : m # k => trigger'[m] = trigger[m]
    /\ inserted' \in {inserted, inserted \cup {k}}
    /\ excused' \in SUBSET Texts /\ excused \subseteq excused'
    /\ UNCHANGED <<card, people, fields, run, covered, checked, erased>> /\ failures' \in Nat

LEMMA TriggerStep ==
  ASSUME InsightInv, NEW k \in Texts, NEW step, TriggerMoves(k, step), KeepsQueue,
         Needs(k)' => Needs(k) \/ \E e \in Ids : Carries(e, k)'
  PROVE  InsightInv'
<1>1. /\ excused' \in SUBSET Texts /\ inserted' \in SUBSET Texts /\ inserted \subseteq inserted'
      /\ UNCHANGED run
  BY DEF TriggerMoves, InsightInv, InsightTypeOK
<1>2. InsightTypeOK' /\ RefusalsOK' /\ FieldOK'
  BY <1>1, TriggerTyped DEF TriggerMoves
<1>3. ASSUME NEW m \in Texts, Needs(m)' PROVE Needs(m) \/ \E e \in Ids : Carries(e, m)'
  <2>1. CASE m = k
    BY <1>3, <2>1
  <2>2. CASE m # k
    BY <1>3, <2>2 DEF Needs, Asked, Pending, TriggerMoves
  <2> QED BY <2>1, <2>2
<1> QED BY <1>1, <1>2, <1>3, Elsewhere

LEMMA AtTrigger ==
  ASSUME InsightInv, NEW k \in Texts
  PROVE  /\ trigger \in [Texts -> Asking] /\ trigger[k] \in Asking
         /\ failures \in Nat /\ failures + 1 \in Nat /\ mark \in Times /\ 0 \in Times
         /\ excused \in SUBSET Texts
  BY InsightAssumption DEF InsightInv, InsightTypeOK, Times

LEMMA ReceiveStep ==
  ASSUME InsightInv, NEW k \in Texts, Receive(k) PROVE InsightInv'
<1>1. TriggerMoves(k, "handled") /\ UNCHANGED <<task, inserted, covered, excused>>
  BY AtTrigger DEF Receive, TriggerMoves, Asking, Steps, ghost
<1>2. Needs(k)' => Needs(k)
  BY <1>1 DEF Needs, Asked, Pending, Receive
<1> QED BY <1>1, <1>2, TriggerStep, SameKeepsQueue DEF InsightInv

\* Its own request is to come, or it will not have one.
LEMMA InsertStep ==
  ASSUME InsightInv, NEW k \in Texts, Insert(k) PROVE InsightInv'
<1>1. PICK step \in {"asked", "over"} :
        /\ trigger' = [trigger EXCEPT ![k].step = step]
        /\ step = "asked" => UNCHANGED excused
        /\ step = "over" => excused' = excused \cup {k}
  BY DEF Insert
<1>2. TriggerMoves(k, step) /\ UNCHANGED task
  BY <1>1, AtTrigger DEF Insert, TriggerMoves, Asking, Steps
<1>3. ~Needs(k)'
  BY <1>1, <1>2 DEF Needs, Asked, TriggerMoves
<1> QED BY <1>2, <1>3, TriggerStep, SameKeepsQueue DEF InsightInv

LEMMA ReadMarkStep ==
  ASSUME InsightInv, NEW k \in Texts, ReadMark(k) PROVE InsightInv'
<1>1. [step |-> "read", mark |-> mark] \in Asking
  BY AtTrigger DEF Asking, Steps
<1>2. TriggerMoves(k, "read") /\ UNCHANGED task
  BY <1>1, AtTrigger DEF ReadMark, TriggerMoves, ghost
<1>3. ~Needs(k)'
  BY <1>2 DEF Needs, Asked, TriggerMoves
<1> QED BY <1>2, <1>3, TriggerStep, SameKeepsQueue DEF InsightInv

\* A request that goes no further leaves its message on record.
LEMMA GivenUp ==
  ASSUME InsightInv, NEW k \in Texts, UNCHANGED <<inserted, covered>>,
         excused' = excused \cup ({k} \ covered)
  PROVE  ~Needs(k)'
  BY DEF Needs, Pending

LEMMA JudgeStep ==
  ASSUME InsightInv, NEW k \in Texts, Judge(k) PROVE InsightInv'
<1>1. PICK old \in BOOLEAN :
        /\ trigger' = [trigger EXCEPT ![k] =
             [step |-> IF Elegivel(trigger[k].mark, old) THEN "due" ELSE "over", mark |-> 0]]
        /\ excused' = IF Elegivel(trigger[k].mark, old) THEN excused
                      ELSE excused \cup ({k} \ covered)
  BY DEF Judge
<1>2. PICK step \in {"due", "over"} :
        /\ trigger' = [trigger EXCEPT ![k] = [step |-> step, mark |-> 0]]
        /\ excused' = IF step = "due" THEN excused ELSE excused \cup ({k} \ covered)
  BY <1>1
<1>3. [step |-> step, mark |-> 0] \in Asking
  BY AtTrigger DEF Asking, Steps
<1>4. TriggerMoves(k, step) /\ UNCHANGED task
  BY <1>2, <1>3, AtTrigger DEF Judge, TriggerMoves
<1>5. ~Needs(k)'
  <2>1. CASE step = "due"
    BY <1>4, <2>1 DEF Needs, Asked, TriggerMoves
  <2>2. CASE step = "over"
    BY <1>2, <2>2, GivenUp DEF Judge
  <2> QED BY <2>1, <2>2
<1> QED BY <1>4, <1>5, TriggerStep, SameKeepsQueue DEF InsightInv

\* A generation that was merged with the request has still to read or to look.
LEMMA EnfileirarStep ==
  ASSUME InsightInv, NEW k \in Texts, Enfileirar(k) PROVE InsightInv'
<1>1. PICK d \in Ids : d = TheLead
  BY DEF Ids
<1>2. /\ task' = Added(d) /\ UNCHANGED <<inserted, card, people, fields, run, failures,
                                         covered, checked, erased>>
      /\ excused' = excused \cup {m \in {k} \ covered : Deaf(d, m)}
      /\ trigger' = [trigger EXCEPT ![k].step = "over"]
  BY <1>1 DEF Enfileirar
<1>3. TriggerMoves(k, "over")
  BY <1>2, AtTrigger DEF TriggerMoves, Asking, Steps
<1>4. KeepsQueue /\ task'[d].state = IF task[d].state = "none" THEN "waiting" ELSE task[d].state
  <2>1. \A w \in Times : d # After(w)
    BY <1>1 DEF TheLead, After
  <2> QED BY <1>2, <2>1, AddedKeepsQueue, AddedFacts DEF InsightInv
<1>5. ASSUME Needs(k)' PROVE Carries(d, k)'
  <2>1. ~Deaf(d, k)
    BY <1>2, <1>5 DEF Needs, Pending
  <2>2. CASE task[d].state = "active"
    <3>1. run[d] \in Generation /\ run[d].pc \notin {"none", "ending"}
      BY <2>1, <2>2, RunIs DEF Deaf, On, InsightInv, InStep
    <3>2. run[d].pc \in {"fill", "fillWrite", "count"} => run[d].upto < k
      BY <2>1, <3>1, InsightAssumption DEF Deaf, Generation, Times, Texts
    <3> QED BY <1>2, <3>1, <3>2 DEF Carries, Generation, Places
  <2>3. CASE task[d].state # "active"
    <3>1. task'[d].state = "waiting"
      BY <1>4, <2>3 DEF InsightInv, InsightTypeOK, QueueJob
    <3> QED BY <3>1 DEF Carries
  <2> QED BY <2>2, <2>3
<1> QED BY <1>3, <1>4, <1>5, TriggerStep

LEMMA TriggerThrowsStep ==
  ASSUME InsightInv, NEW k \in Texts, TriggerThrows(k) PROVE InsightInv'
<1>1. [step |-> "over", mark |-> 0] \in Asking
  BY AtTrigger DEF Asking, Steps
<1>2. TriggerMoves(k, "over") /\ UNCHANGED task
  BY <1>1, AtTrigger DEF TriggerThrows, TriggerMoves
<1>3. ~Needs(k)'
  BY GivenUp DEF TriggerThrows
<1> QED BY <1>2, <1>3, TriggerStep, SameKeepsQueue DEF InsightInv

LEMMA RequestStep ==
  ASSUME InsightInv, NEW d \in Ids, Request(d) PROVE InsightInv'
<1>1. KeepsQueue
  <2>1. \A w \in Times : d # After(w)
    BY DEF Request, TheLead, Refresh, After
  <2> QED BY <2>1, AddedKeepsQueue DEF Request, InsightInv
<1>2. UNCHANGED <<inserted, trigger, card, people, fields, run, failures, covered, excused,
                  checked, erased>>
  BY DEF Request, chat, ghost
<1>3. InsightTypeOK' /\ RefusalsOK' /\ FieldOK' /\ inserted \subseteq inserted'
  BY <1>1, <1>2, TriggerTyped DEF InsightInv, InsightTypeOK
<1>4. \A k \in Texts : Needs(k)' => Needs(k)
  BY <1>2 DEF Needs, Asked, Pending
<1> QED BY <1>1, <1>2, <1>3, <1>4, Elsewhere
LEMMA ProcessDiesStep ==
  ASSUME InsightInv, ProcessDies PROVE InsightInv'
<1>1. /\ UNCHANGED <<inserted, card, refusals, weekAgo, fields, covered, checked, erased>>
      /\ failures' = failures + 1
      /\ excused' = excused \cup Pending /\ run' = [d \in Ids |-> NoRun]
      /\ click' = [c \in Clicks |-> NoClick]
  BY DEF ProcessDies
<1>2. trigger' \in [Texts -> Asking]
  <2>1. [step |-> "over", mark |-> 0] \in Asking
    BY InsightAssumption DEF Asking, Steps, Times
  <2>2. \A k \in Texts : trigger[k] \in Asking
    BY DEF InsightInv, InsightTypeOK
  <2>3. trigger' = [k \in Texts |-> IF trigger[k].step = "none" THEN trigger[k]
                                    ELSE [step |-> "over", mark |-> 0]]
    BY DEF ProcessDies
  <2> QED BY <2>1, <2>2, <2>3
<1>3. /\ task' \in [Ids -> QueueJob]
      /\ \A d \in Ids : task'[d].state # "active"
                        /\ (task'[d].state # "none" => task[d].state # "none")
  <2>1. ASSUME NEW d \in Ids
        PROVE  /\ task'[d] \in QueueJob /\ task'[d].state # "active"
               /\ task'[d].state # "none" => task[d].state # "none"
    <3>1. task[d] \in QueueJob
      BY DEF InsightInv, InsightTypeOK
    <3>2. task'[d] = IF task[d].state # "active" THEN task[d]
                     ELSE IF task[d].stalled THEN NoTask
                     ELSE [task[d] EXCEPT !.state = "waiting", !.stalled = TRUE]
      BY DEF ProcessDies
    <3>3. CASE task[d].state # "active"
      BY <3>1, <3>2, <3>3
    <3>4. CASE task[d].state = "active" /\ task[d].stalled
      BY <3>2, <3>4, Nones
    <3>5. CASE task[d].state = "active" /\ ~task[d].stalled
      <4>1. PICK j : j = [task[d] EXCEPT !.state = "waiting", !.stalled = TRUE]
        OBVIOUS
      <4>2. j \in QueueJob /\ j.state = "waiting"
        BY <3>1, <4>1 DEF QueueJob
      <4> QED BY <3>2, <3>5, <4>1, <4>2
    <3> QED BY <3>3, <3>4, <3>5
  <2>2. DOMAIN task' = Ids /\ task' = [d \in Ids |-> task'[d]]
    BY DEF ProcessDies
  <2> QED BY <2>1, <2>2
<1>4. InsightTypeOK'
  BY <1>1, <1>2, <1>3, Nones DEF InsightInv, InsightTypeOK, Pending, card, fields
<1>5. InStep' /\ FieldOK'
  BY <1>1, <1>3, Nones DEF InStep, FieldOK, InsightInv, InsightTypeOK, fields
<1>6. RefusalsOK'
  <2>1. ASSUME NEW d \in Ids PROVE Heeds(run[d])'
    BY <1>1, Nones DEF Heeds, InsightInv, InsightTypeOK
  <2>2. UNCHANGED <<suggested, refused>>
    BY <1>1 DEF card
  <2> QED BY <1>1, <2>1, <2>2, Nones DEF InsightInv, RefusalsOK, RefusedStaysAway, Listed
<1>7. NewsOK'
  BY <1>1 DEF NewsOK, Needs, Pending
<1>8. AfterOK'
  BY <1>1, <1>3, Nones, AfterIs DEF AfterOK, InsightInv, NewSince
<1> QED BY <1>4, <1>5, <1>6, <1>7, <1>8 DEF InsightInv

\* No message loses who carries it when neither the queue nor what has arrived changes.
LEMMA PeopleStep ==
  ASSUME InsightInv, InsightTypeOK', RefusalsOK', FieldOK',
         UNCHANGED <<inserted, trigger, task, run, covered, excused>>
  PROVE  InsightInv'
<1>1. KeepsQueue /\ inserted \subseteq inserted'
  BY SameKeepsQueue DEF InsightInv
<1>2. \A k \in Texts : Needs(k)' => Needs(k)
  BY DEF Needs, Asked, Pending
<1> QED BY <1>1, <1>2, Elsewhere

\* Nor does what was listed and looked at.
LEMMA StillRefused ==
  ASSUME InsightInv, UNCHANGED <<suggested, refused, refusals, run, checked, erased>>,
         weekAgo \in Nat, weekAgo' \in Nat, weekAgo <= weekAgo',
         \A c \in Clicks : /\ click'[c].refused \subseteq 1..Len(refusals)
                           /\ click'[c].pc = "refuse" => click'[c].stage \in Stages
  PROVE  RefusalsOK'
<1>1. ASSUME NEW d \in Ids PROVE Heeds(run[d])'
  <2>1. Heeds(run[d])
    BY DEF InsightInv, RefusalsOK
  <2>2. ASSUME NEW r, r = run[d], Refrains(r.stage, r.looked) PROVE Refrains(r.stage, r.looked)'
    <3>1. r.looked \in Nat
      BY <2>2, RunIs DEF Generation, InsightInv
    <3> QED BY <2>2, <3>1 DEF Refrains
  <2> QED BY <2>1, <2>2 DEF Heeds, Listed
<1>2. RefusedStaysAway'
  BY DEF InsightInv, InsightTypeOK, RefusalsOK, RefusedStaysAway
<1> QED BY <1>1, <1>2 DEF InsightInv, RefusalsOK, Listed

LEMMA ConsiderStep ==
  ASSUME InsightInv, NEW c \in Clicks, Consider(c) PROVE InsightInv'
<1>1. PICK answer \in {"refuse", "accept"} :
        click' = [click EXCEPT ![c] = [pc |-> answer, stage |-> suggested, refused |-> refused]]
  BY DEF Consider
<1>2. PICK a : a = [pc |-> answer, stage |-> suggested, refused |-> refused]
  OBVIOUS
<1>3. a \in Answering /\ a.stage \in Stages /\ a.refused \subseteq 1..Len(refusals)
  BY <1>2 DEF Answering, Consider, InsightInv, InsightTypeOK, RefusalsOK
<1>4. /\ click' \in [Clicks -> Answering]
      /\ \A e \in Clicks : /\ click'[e].refused \subseteq 1..Len(refusals)
                           /\ click'[e].pc = "refuse" => click'[e].stage \in Stages
  BY <1>1, <1>2, <1>3 DEF InsightInv, InsightTypeOK, RefusalsOK
<1>5. UNCHANGED <<inserted, trigger, mark, suggested, refused, refusals, weekAgo, field,
                  version, task, run, failures, covered, excused, checked, erased>>
  BY DEF Consider, chat, card, fields, ghost
<1>6. InsightTypeOK' /\ FieldOK'
  BY <1>4, <1>5 DEF InsightInv, InsightTypeOK, FieldOK
<1>7. RefusalsOK'
  BY <1>4, <1>5, StillRefused DEF InsightInv, InsightTypeOK
<1> QED BY <1>5, <1>6, <1>7, PeopleStep

\* The request is answered; the card suggests nothing.
LEMMA Answered ==
  ASSUME InsightInv, NEW c \in Clicks, click' = [click EXCEPT ![c] = NoClick]
  PROVE  /\ click' \in [Clicks -> Answering]
         /\ \A e \in Clicks : /\ click'[e].refused \subseteq 1..Len(refusals)
                              /\ click'[e].pc = "refuse" => click'[e].stage \in Stages
  BY Nones DEF InsightInv, InsightTypeOK, RefusalsOK

LEMMA AcceptStep ==
  ASSUME InsightInv, NEW c \in Clicks, Accept(c) PROVE InsightInv'
<1>1. /\ click' \in [Clicks -> Answering]
      /\ \A e \in Clicks : /\ click'[e].refused \subseteq 1..Len(refusals)
                           /\ click'[e].pc = "refuse" => click'[e].stage \in Stages
  BY Answered DEF Accept
<1>2. /\ suggested' = None /\ checked' = 0
      /\ UNCHANGED <<inserted, trigger, mark, refused, refusals, weekAgo, field, version,
                     task, run, failures, covered, excused, erased>>
  BY DEF Accept, chat, fields
<1>3. InsightTypeOK' /\ FieldOK'
  BY <1>1, <1>2 DEF InsightInv, InsightTypeOK, FieldOK
<1>4. RefusalsOK'
  <2>1. ASSUME NEW d \in Ids PROVE Heeds(run[d])'
    BY <1>2 DEF InsightInv, RefusalsOK, Heeds, Listed, Refrains
  <2>2. RefusedStaysAway' /\ checked' <= Len(refusals)
    BY <1>2 DEF RefusedStaysAway, InsightInv, InsightTypeOK
  <2> QED BY <1>1, <1>2, <2>1, <2>2 DEF InsightInv, RefusalsOK, Listed
<1> QED BY <1>2, <1>3, <1>4, PeopleStep

\* What the cut of a list drops has RecusasMax later refusals.
LEMMA LatestKeeps ==
  ASSUME NEW n \in Nat, NEW list \in SUBSET (1..n), NEW m \in list, m \notin Latest(list)
  PROVE  n - m >= RecusasMax
<1>1. PICK later : later = {k \in list : k > m}
  OBVIOUS
<1>2. later \in SUBSET ((m + 1)..n) /\ m \in 1..n
  <2>1. m \in 1..n /\ later \subseteq 1..n
    BY <1>1
  <2>2. \A k \in later : k \in (m + 1)..n
    BY <1>1, <2>1
  <2> QED BY <2>1, <2>2
<1>3. IsFiniteSet((m + 1)..n) /\ Cardinality((m + 1)..n) = n - m
  <2>1. m + 1 \in Int /\ n \in Int /\ ~(m + 1 > n + 1)
    BY <1>2
  <2>2. /\ IsFiniteSet((m + 1)..n)
        /\ Cardinality((m + 1)..n) = IF m + 1 > n THEN 0 ELSE n - (m + 1) + 1
    BY <2>1, FS_Interval
  <2> QED BY <1>2, <2>1, <2>2
<1>4. Cardinality(later) <= n - m /\ Cardinality(later) \in Nat
  BY <1>2, <1>3, FS_Subset, FS_CardinalityType
<1>5. ~(Cardinality(later) < RecusasMax)
  BY <1>1 DEF Latest
<1> QED BY <1>2, <1>4, <1>5, InsightAssumption

LEMMA RefuseStep ==
  ASSUME InsightInv, NEW c \in Clicks, Refuse(c) PROVE InsightInv'
<1>1. PICK n \in Nat : n = Len(refusals)
  BY DEF InsightInv, InsightTypeOK
<1>2. PICK list : list = click[c].refused \cup {n + 1}
  OBVIOUS
<1>3. /\ refusals' = Append(refusals, click[c].stage) /\ click[c].stage \in Stages
      /\ refusals \in Seq(Stages) /\ click[c].refused \subseteq 1..n
      /\ refused \subseteq 1..n
  BY <1>1 DEF Refuse, InsightInv, InsightTypeOK, RefusalsOK
<1>4. /\ refusals' \in Seq(Stages) /\ Len(refusals') = n + 1
      /\ \A m \in 1..n : refusals'[m] = refusals[m]
  BY <1>1, <1>3
<1>5. /\ refused' = Latest(list) /\ erased' = erased \cup (refused \ click[c].refused)
      /\ suggested' = None /\ checked' = 0
      /\ UNCHANGED <<inserted, trigger, mark, weekAgo, field, version, task, run, failures,
                     covered, excused>>
  BY <1>2, <1>4 DEF Refuse, chat, fields
<1>6. list \in SUBSET (1..(n + 1)) /\ refused' \subseteq list
  BY <1>2, <1>3, <1>5 DEF Latest
<1>7. /\ click' \in [Clicks -> Answering]
      /\ \A e \in Clicks : /\ click'[e].refused \subseteq 1..n
                           /\ click'[e].pc = "refuse" => click'[e].stage \in Stages
  BY <1>1, Answered DEF Refuse
<1>8. InsightTypeOK'
  <2>1. refused' \in SUBSET Nat /\ erased' \in SUBSET Nat
    <3>1. 1..n \subseteq Nat /\ 1..(n + 1) \subseteq Nat
      OBVIOUS
    <3>2. erased \in SUBSET Nat
      BY DEF InsightInv, InsightTypeOK
    <3> QED BY <1>3, <1>5, <1>6, <3>1, <3>2
  <2> QED BY <1>4, <1>5, <1>7, <2>1 DEF InsightInv, InsightTypeOK
<1>9. FieldOK'
  BY <1>5 DEF InsightInv, FieldOK
<1>10. ASSUME NEW m \in 1..(n + 1), m \notin refused', m \notin erased'
       PROVE  n + 1 - m >= RecusasMax
  <2>1. CASE m \in list
    <3>1. PICK made \in Nat : made = n + 1
      OBVIOUS
    <3>2. m \notin Latest(list) /\ list \in SUBSET (1..made)
      BY <1>5, <1>6, <1>10, <3>1
    <3>3. made - m >= RecusasMax
      BY <2>1, <3>2, LatestKeeps
    <3> QED BY <3>1, <3>3
  <2>2. CASE m \notin list
    <3>1. m \in 1..n /\ m \notin refused /\ m \notin erased
      BY <1>2, <1>5, <1>10, <2>2
    <3>2. n - m >= RecusasMax
      BY <1>1, <3>1 DEF InsightInv, RefusalsOK, Listed
    <3> QED BY <3>1, <3>2, InsightAssumption
  <2> QED BY <2>1, <2>2
<1>11. ASSUME NEW d \in Ids PROVE Heeds(run[d])'
  <2>1. Heeds(run[d]) /\ run[d].looked \in Nat /\ run[d].looked <= n
    BY <1>1, RunIs DEF InsightInv, RefusalsOK, Heeds, Generation
  <2>2. ASSUME Listed(run[d].known, run[d].looked) PROVE Listed(run[d].known, run[d].looked)'
    BY <1>5, <2>2 DEF Listed
  <2>3. ASSUME Refrains(run[d].stage, run[d].looked)
        PROVE  Refrains(run[d].stage, run[d].looked)'
    BY <1>4, <1>5, <2>1, <2>3 DEF Refrains
  <2> QED BY <1>4, <1>5, <2>1, <2>2, <2>3 DEF Heeds
<1>12. RefusalsOK'
  <2>1. RefusedStaysAway' /\ checked' <= Len(refusals')
    BY <1>4, <1>5 DEF RefusedStaysAway
  <2>2. refused' \subseteq 1..Len(refusals')
    BY <1>4, <1>6
  <2>3. Listed(refused, Len(refusals))'
    BY <1>4, <1>10 DEF Listed
  <2>4. \A e \in Clicks : click'[e].refused \subseteq 1..Len(refusals')
    BY <1>4, <1>7
  <2> QED BY <1>7, <1>11, <2>1, <2>2, <2>3, <2>4 DEF RefusalsOK
<1> QED BY <1>5, <1>8, <1>9, <1>12, PeopleStep

LEMMA WeekPassesStep ==
  ASSUME InsightInv, WeekPasses PROVE InsightInv'
<1>1. /\ weekAgo' = weekAgo + 1 /\ weekAgo \in Nat
      /\ UNCHANGED <<inserted, trigger, mark, suggested, refused, refusals, click, field,
                     version, task, run, failures, covered, excused, checked, erased>>
  BY DEF WeekPasses, chat, card, fields, ghost, InsightInv, InsightTypeOK
<1>2. InsightTypeOK' /\ FieldOK'
  BY <1>1 DEF InsightInv, InsightTypeOK, FieldOK
<1>3. RefusalsOK'
  <2>1. weekAgo' \in Nat /\ weekAgo <= weekAgo'
    BY <1>1
  <2>2. \A c \in Clicks : /\ click'[c].refused \subseteq 1..Len(refusals)
                          /\ click'[c].pc = "refuse" => click'[c].stage \in Stages
    BY <1>1 DEF InsightInv, RefusalsOK
  <2> QED BY <1>1, <2>1, <2>2, StillRefused
<1> QED BY <1>1, <1>2, <1>3, PeopleStep

LEMMA EditStep ==
  ASSUME InsightInv, Edit PROVE InsightInv'
<1>1. /\ version' = version + 1 /\ field' \in {field, "manual", "empty"}
      /\ UNCHANGED <<inserted, trigger, mark, suggested, refused, refusals, weekAgo, click,
                     task, run, failures, covered, excused, checked, erased>>
  BY DEF Edit, chat, card, people, ghost
<1>2. InsightTypeOK'
  BY <1>1 DEF InsightInv, InsightTypeOK
<1>3. RefusalsOK'
  <2>1. weekAgo \in Nat /\ weekAgo' \in Nat /\ weekAgo <= weekAgo'
    BY <1>1 DEF InsightInv, InsightTypeOK
  <2>2. \A c \in Clicks : /\ click'[c].refused \subseteq 1..Len(refusals)
                          /\ click'[c].pc = "refuse" => click'[c].stage \in Stages
    BY <1>1 DEF InsightInv, RefusalsOK
  <2> QED BY <1>1, <2>1, <2>2, StillRefused
<1>4. FieldOK'
  BY <1>1, RunIs DEF InsightInv, InsightTypeOK, Generation, FieldOK
<1> QED BY <1>1, <1>2, <1>3, <1>4, PeopleStep

--------------------------------------------------------------------------------
(* The invariant, and what it gives.                                          *)

LEMMA InsightInitOK == InsightInit => InsightInv
<1> SUFFICES ASSUME InsightInit PROVE InsightInv
  OBVIOUS
<1>1. InsightTypeOK
  <2>1. [step |-> "none", mark |-> 0] \in Asking
    BY InsightAssumption DEF Asking, Steps, Times
  <2>2. refusals \in Seq(Stages)
    BY DEF InsightInit
  <2> QED BY <2>1, <2>2, Nones, InsightAssumption DEF InsightInit, InsightTypeOK, Times
<1>2. InStep /\ FieldOK /\ NewsOK
  BY Nones DEF InsightInit, InStep, FieldOK, NewsOK, Needs, Pending
<1>3. RefusalsOK
  <2>1. Len(refusals) = 0 /\ 1..0 = {}
    BY DEF InsightInit
  <2>2. \A d \in Ids : Heeds(run[d])
    BY <2>1, Nones DEF Heeds, InsightInit
  <2> QED BY <2>1, <2>2, Nones DEF InsightInit, RefusalsOK, RefusedStaysAway, Listed
<1>4. AfterOK
  BY Nones, AfterIs DEF AfterOK, InsightInit
<1> QED BY <1>1, <1>2, <1>3, <1>4 DEF InsightInv

LEMMA GenerateStep ==
  ASSUME InsightInv, NEW d \in Ids, Generate(d) PROVE InsightInv'
  BY BeginStep, ReadMessagesStep, ModelStep, UnusableStep, LookAgainStep, LookFailsStep,
     WriteCardStep, FillStep, FillWriteStep, RecheckStep, ReaddStep, EndStep, RunThrowsStep,
     RecheckThrowsStep DEF Generate

LEMMA InsightStep == InsightInv /\ [InsightNext]_insightVars => InsightInv'
<1> SUFFICES ASSUME InsightInv, [InsightNext]_insightVars PROVE InsightInv'
  OBVIOUS
<1>1. ASSUME NEW k \in Texts,
             \/ Receive(k) \/ Insert(k) \/ ReadMark(k) \/ Judge(k) \/ Enfileirar(k)
             \/ TriggerThrows(k)
      PROVE  InsightInv'
  BY <1>1, ReceiveStep, InsertStep, ReadMarkStep, JudgeStep, EnfileirarStep, TriggerThrowsStep
<1>2. ASSUME NEW d \in Ids, Request(d) \/ Generate(d) PROVE InsightInv'
  BY <1>2, RequestStep, GenerateStep
<1>3. ASSUME NEW c \in Clicks, Consider(c) \/ Accept(c) \/ Refuse(c) PROVE InsightInv'
  BY <1>3, ConsiderStep, AcceptStep, RefuseStep
<1>4. CASE ProcessDies \/ WeekPasses \/ Edit
  BY <1>4, ProcessDiesStep, WeekPassesStep, EditStep
<1>5. CASE UNCHANGED insightVars
  <2>1. UNCHANGED <<inserted, trigger, mark, suggested, refused, refusals, weekAgo, click,
                    field, version, task, run, failures, covered, excused, checked, erased>>
    BY <1>5 DEF insightVars, chat, card, people, fields, ghost
  <2>2. InsightTypeOK' /\ FieldOK'
    BY <2>1 DEF InsightInv, InsightTypeOK, FieldOK
  <2>3. RefusalsOK'
    <3>1. weekAgo \in Nat /\ weekAgo' \in Nat /\ weekAgo <= weekAgo'
      BY <2>1 DEF InsightInv, InsightTypeOK
    <3>2. \A c \in Clicks : /\ click'[c].refused \subseteq 1..Len(refusals)
                            /\ click'[c].pc = "refuse" => click'[c].stage \in Stages
      BY <2>1 DEF InsightInv, RefusalsOK
    <3> QED BY <2>1, <3>1, <3>2, StillRefused
  <2> QED BY <2>1, <2>2, <2>3, PeopleStep
<1> QED BY <1>1, <1>2, <1>3, <1>4, <1>5 DEF InsightNext

\* InsightInv holds all along: every message that cannot rely on its own request is
\* carried by a job (rechecarNovidade looks for it), what is about to be written was
\* checked against the refusals, and a version read with an empty field keeps it.
THEOREM InsightCorrect == InsightSpec => []InsightInv
  BY InsightInitOK, InsightStep, PTL DEF InsightSpec

\* A stage is not suggested again within seven days of any refusal that people had made
\* when the generation looked, listed or not, but for the refusals that RECUSAS_MAX
\* later ones pushed out (proximasRecusas) and those a concurrent one wrote over.
THEOREM RefusalsStayAway == InsightSpec => []RefusedStaysAway
<1>1. InsightInv => RefusedStaysAway
  BY DEF InsightInv, RefusalsOK
<1> QED BY <1>1, InsightCorrect, PTL

\* With nothing queued, running or asked for, every row that the card's generation had
\* not there to read is in one of the gaps that NewsReachesTheCard names, although rows
\* appear out of the order of their created_at (rechecarNovidade).
THEOREM NewsIsCovered == InsightSpec => []NewsReachesTheCard
<1>1. ASSUME InsightInv PROVE NewsReachesTheCard
  <2> SUFFICES ASSUME \A d \in Ids : task[d].state = "none",
                      \A k \in Texts : trigger[k].step \in {"none", "handled", "over"},
                      NEW k \in Pending
               PROVE  k \in excused
    BY DEF NewsReachesTheCard
  <2>1. k \in Texts
    BY <1>1 DEF Pending, InsightInv, InsightTypeOK
  <2>2. \A d \in Ids : ~Carries(d, k)
    BY <1>1 DEF Carries, InsightInv, InStep
  <2>3. ~Asked(k) /\ ~Needs(k)
    BY <1>1, <2>1, <2>2 DEF Asked, InsightInv, NewsOK
  <2> QED BY <2>3 DEF Needs
<1> QED BY <1>1, InsightCorrect, PTL

\* The model's value never takes the place of a person's: preencherBemDeInteresse
\* writes on the version it read, and that one had the field empty.
THEOREM ManualInputStays == InsightSpec => ManualInputWins
<1>1. ASSUME InsightInv, [InsightNext]_insightVars, field = "manual" PROVE field' # "ai"
  <2>1. ASSUME NEW d \in Ids, FillWrite(d) PROVE field' # "ai"
    <3>1. version # run[d].version
      BY <1>1, <2>1 DEF InsightInv, FieldOK, FillWrite, On
    <3> QED BY <1>1, <2>1, <3>1 DEF FillWrite, fields
  <2>2. CASE Edit
    BY <1>1, <2>2 DEF Edit
  <2>3. CASE UNCHANGED fields
    BY <1>1, <2>3 DEF fields
  <2>4. CASE UNCHANGED insightVars
    BY <1>1, <2>4 DEF insightVars, fields
  <2>5. ASSUME NEW d \in Ids, Request(d) \/ Generate(d) PROVE UNCHANGED fields \/ FillWrite(d)
    BY <2>5 DEF Request, Generate, Begin, ReadMessages, Model, Unusable, LookAgain, LookFails,
                WriteCard, Fill, Recheck, Readd, End, RunThrows, RecheckThrows
  <2>6. ASSUME NEW k \in Texts,
               \/ Receive(k) \/ Insert(k) \/ ReadMark(k) \/ Judge(k) \/ Enfileirar(k)
               \/ TriggerThrows(k)
        PROVE  UNCHANGED fields
    BY <2>6 DEF Receive, Insert, ReadMark, Judge, Enfileirar, TriggerThrows
  <2>7. ASSUME NEW c \in Clicks, Consider(c) \/ Accept(c) \/ Refuse(c) PROVE UNCHANGED fields
    BY <2>7 DEF Consider, Accept, Refuse
  <2>8. ProcessDies \/ WeekPasses => UNCHANGED fields
    BY DEF ProcessDies, WeekPasses
  <2> QED BY <1>1, <2>1, <2>2, <2>3, <2>4, <2>5, <2>6, <2>7, <2>8 DEF InsightNext
<1> QED BY <1>1, InsightCorrect, PTL DEF InsightSpec, ManualInputWins
================================================================================
