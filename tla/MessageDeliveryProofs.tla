------------------------- MODULE MessageDeliveryProofs -------------------------
(* Proofs about MessageDelivery, for any messages, jobs, callers, posts and    *)
(* restarts: what a row, a job, a request, a plan or an echo knows of a post   *)
(* is true of the gateway, and a post the gateway took is forgotten by its row *)
(* only in the ways that lost names.                                           *)
EXTENDS MessageDelivery, FiniteSetTheorems, TLAPS

\* What each record knows.  A row that exists stays; a post that was taken too.
JobFits(x) ==
    /\ x.step # "free" => x.row \in Rows /\ Exists(x.row)
    /\ x.step \in {"wait", "post", "update"} => x.left > 0
    /\ x.step = "update" =>
          /\ x.wire \in Posted /\ x.id \in {x.wire, NoId}
          /\ origin[x.wire] = x.row /\ text[x.wire] = text[x.row]

RequestFits(x) == x.step \in {"read", "put", "add"} => x.row \in Rows /\ Exists(x.row)

PlanFits(r, x) ==
    x.act # "none" => x.wire \in Posted /\ text[x.wire] = text[r] /\ Exists(r)

EchoFits(w, x) ==
    /\ x.step # "none" => w \in Posted
    /\ x.step = "link" => x.row \in Rows /\ Exists(x.row) /\ text[x.row] = text[w]
    /\ Exists(w) => x.step = "done"

RowFits(r) ==
    /\ wire[r] # NoId => wire[r] \in Posted /\ text[wire[r]] = text[r] /\ Exists(r)
    /\ r \in fresh => Exists(r)
    /\ status[r] \in {"SENT", "DELIVERED"} => \E w \in Posted : text[w] = text[r]

\* A post is lost, or its row has the id, or the worker that posted it still holds it.
Remembered(w) ==
    /\ origin[w] \in Rows
    /\ \/ w \in lost
       \/ wire[origin[w]] = w
       \/ \E j \in Jobs : job[j].step = "update" /\ job[j].wire = w

PostedInOrder ==
    /\ Posted = 1..Cardinality(Posted)
    /\ \A w \in Wires \ Posted : origin[w] = Nobody

DeliveryInv ==
    /\ TypeOK
    /\ PostedInOrder
    /\ \A j \in Jobs : JobFits(job[j])
    /\ \A p \in Callers : RequestFits(request[p])
    /\ \A r \in Rows : PlanFits(r, plan[r]) /\ RowFits(r)
    /\ \A w \in Wires : EchoFits(w, echo[w])
    /\ \A w \in Posted : Remembered(w)
    /\ \A s \in Sweeps : \A r \in swept[s] : Exists(r)

--------------------------------------------------------------------------------
(* Frame: what every step keeps, and what is left to prove of it.             *)

\* Rows and posts stay, with the text and the origin they have.
Keeps ==
    /\ \A r \in Rows : Exists(r) => status'[r] # "none" /\ text'[r] = text[r]
    /\ \A w \in Posted : server'[w] # "none" /\ text'[w] = text[w] /\ origin'[w] = origin[w]

LEMMA Framed ==
  ASSUME DeliveryInv, TypeOK', PostedInOrder', Keeps,
         \A j \in Jobs : job'[j] = job[j] \/ JobFits(job[j])',
         \A p \in Callers : request'[p] = request[p] \/ RequestFits(request[p])',
         \A r \in Rows : plan'[r] = plan[r] \/ PlanFits(r, plan[r])',
         \A r \in Rows : \/ /\ wire'[r] = wire[r] /\ status'[r] = status[r]
                            /\ r \in fresh' => r \in fresh
                         \/ RowFits(r)',
         \A w \in Wires : \/ echo'[w] = echo[w] /\ (Exists(w)' => Exists(w))
                          \/ EchoFits(w, echo[w])',
         \A w \in Posted' : Remembered(w)',
         \A s \in Sweeps : \A r \in swept'[s] : r \in swept[s] \/ Exists(r)'
  PROVE  DeliveryInv'
<1> USE DEF DeliveryInv
<1>1. \A w \in Posted : w \in Posted'
  BY DEF Posted, Keeps
<1>2. \A r \in Rows : Exists(r) => Exists(r)'
  BY DEF Exists, Keeps
<1>3. ASSUME NEW j \in Jobs PROVE JobFits(job[j])'
  <2>1. CASE job'[j] = job[j]
    BY <1>1, <1>2, <2>1 DEF JobFits, Keeps
  <2> QED BY <2>1
<1>4. ASSUME NEW p \in Callers PROVE RequestFits(request[p])'
  <2>1. CASE request'[p] = request[p]
    BY <1>2, <2>1 DEF RequestFits
  <2> QED BY <2>1
<1>5. ASSUME NEW r \in Rows PROVE PlanFits(r, plan[r])'
  <2>1. CASE plan'[r] = plan[r]
    BY <1>1, <1>2, <2>1 DEF PlanFits, Keeps
  <2> QED BY <2>1
<1>6. ASSUME NEW r \in Rows PROVE RowFits(r)'
  <2>1. CASE wire'[r] = wire[r] /\ status'[r] = status[r] /\ (r \in fresh' => r \in fresh)
    <3>1. RowFits(r)
      OBVIOUS
    <3>2. CASE Exists(r)
      BY <1>1, <1>2, <2>1, <3>1, <3>2 DEF RowFits, Keeps
    <3>3. CASE ~Exists(r)
      BY <2>1, <3>1, <3>3 DEF RowFits, Exists
    <3> QED BY <3>2, <3>3
  <2> QED BY <2>1
<1>7. ASSUME NEW w \in Wires PROVE EchoFits(w, echo[w])'
  <2>1. CASE echo'[w] = echo[w] /\ (Exists(w)' => Exists(w))
    <3>1. EchoFits(w, echo[w])
      OBVIOUS
    <3> QED BY <1>1, <1>2, <2>1, <3>1 DEF EchoFits, Keeps
  <2> QED BY <2>1
<1>8. ASSUME NEW s \in Sweeps, NEW r \in swept'[s] PROVE Exists(r)'
  BY <1>2 DEF TypeOK
<1> QED BY <1>3, <1>4, <1>5, <1>6, <1>7, <1>8

\* The same when neither the gateway nor what is said of rows changes: only jobs,
\* requests, plans, echoes and sweeps do.
RowsStay == UNCHANGED <<status, wire, fresh, text, server, origin>>

LEMMA RowsStayFramed ==
  ASSUME DeliveryInv, TypeOK', RowsStay,
         \A j \in Jobs : job'[j] = job[j] \/ JobFits(job[j])',
         \A p \in Callers : request'[p] = request[p] \/ RequestFits(request[p])',
         \A r \in Rows : plan'[r] = plan[r] \/ PlanFits(r, plan[r])',
         \A w \in Wires : echo'[w] = echo[w] \/ EchoFits(w, echo[w])',
         \A w \in Posted : Remembered(w)',
         \A s \in Sweeps : \A r \in swept'[s] : r \in swept[s] \/ Exists(r)
  PROVE  DeliveryInv'
<1>1. PostedInOrder' /\ Keeps /\ Posted' = Posted
  BY DEF DeliveryInv, PostedInOrder, Posted, Keeps, RowsStay, Exists
<1>2. \A r \in Rows : Exists(r)' <=> Exists(r)
  BY DEF Exists, RowsStay
<1>3. \A w \in Wires : w \in Rows
  BY DEF Rows
<1>4. \A w \in Wires : Exists(w)' => Exists(w)
  BY <1>2, <1>3
<1>5. \A s \in Sweeps : \A r \in swept'[s] : r \in swept[s] \/ Exists(r)'
  BY DEF Exists, RowsStay
<1> QED BY <1>1, <1>4, <1>5, Framed DEF RowsStay

--------------------------------------------------------------------------------
(* Records are opaque outside these lemmas.                                   *)

LEMMA FreeJob ==
  NoJob \in JobRecord /\ NoJob.step = "free"
  BY DEF NoJob, JobRecord, Causes

LEMMA EmptyRequests ==
  /\ NoRequest \in RequestRecord /\ NoRequest.step = "idle"
  /\ Ended \in RequestRecord /\ Ended.step = "ended"
  BY DEF NoRequest, Ended, RequestRecord, Causes

LEMMA EmptyPlan == NoPlan \in PlanRecord /\ NoPlan.act = "none"
  BY DEF NoPlan, PlanRecord, Causes

LEMMA JobFields ==
  ASSUME NEW x \in JobRecord
  PROVE  /\ x.row \in Rows \cup {Nobody} /\ x.left \in Nat /\ x.n \in Nat /\ x.cause \in Causes
         /\ x.step \in {"free", "wait", "post", "update", "failed", "failing"}
         /\ x.wire \in Wires \cup {NoId} /\ x.id \in Wires \cup {NoId}
  BY DEF JobRecord

LEMMA RequestFields ==
  ASSUME NEW x \in RequestRecord
  PROVE  x.row \in Rows \cup {Nobody} /\ x.n \in Nat /\ x.cause \in Causes
  BY DEF RequestRecord

LEMMA PlanFields ==
  ASSUME NEW x \in PlanRecord
  PROVE  x.wire \in Wires \cup {NoId} /\ x.n \in Nat /\ x.cause \in Causes
  BY DEF PlanRecord

LEMMA QuietType ==
  ASSUME TypeOK, RowsStay, UNCHANGED <<resends, cause, born, crashes>>,
         job' \in [Jobs -> JobRecord], request' \in [Callers -> RequestRecord],
         swept' \in [Sweeps -> SUBSET Rows], plan' \in [Rows -> PlanRecord],
         echo' \in [Wires -> EchoRecord], lost' \subseteq Wires, abandoned' \subseteq Rows
  PROVE  TypeOK'
  BY DEF TypeOK, RowsStay

--------------------------------------------------------------------------------
(* MessagesSendProcessor: the steps that change a job alone.                  *)

LEMMA JobStep ==
  ASSUME DeliveryInv, NEW j \in Jobs, NEW x \in JobRecord,
         job' = [job EXCEPT ![j] = x], JobFits(x),
         job[j].step = "update" => job[j].wire \in lost' \/ (x.step = "update" /\ x.wire = job[j].wire),
         lost \subseteq lost', lost' \subseteq Wires, abandoned' \subseteq Rows,
         UNCHANGED <<rows, request, swept, plan, echo, crashes, gateway>>
  PROVE  DeliveryInv'
<1>0. /\ TypeOK /\ RowsStay /\ UNCHANGED <<resends, cause, born, crashes>>
      /\ \A w \in Posted : Remembered(w)
  BY DEF DeliveryInv, RowsStay, rows, gateway
<1>1. /\ job' \in [Jobs -> JobRecord] /\ job'[j] = x
      /\ \A i \in Jobs : i # j => job'[i] = job[i]
  BY <1>0 DEF TypeOK
<1>2. TypeOK'
  BY <1>0, <1>1, QuietType DEF TypeOK
<1>3. JobFits(job[j])'
  BY <1>0, <1>1 DEF JobFits, RowsStay, Exists, Posted
<1>4. ASSUME NEW w \in Posted PROVE Remembered(w)'
  <2>1. Remembered(w)
    BY <1>0
  <2>2. CASE \E i \in Jobs : job[i].step = "update" /\ job[i].wire = w
    <3>1. PICK i \in Jobs : job[i].step = "update" /\ job[i].wire = w
      BY <2>2
    <3>2. w \in lost' \/ (job'[i].step = "update" /\ job'[i].wire = w)
      BY <1>1, <3>1
    <3> QED BY <1>0, <2>1, <3>2 DEF Remembered, RowsStay
  <2>3. CASE w \in lost \/ wire[origin[w]] = w
    BY <1>0, <2>1, <2>3 DEF Remembered, RowsStay
  <2> QED BY <2>1, <2>2, <2>3 DEF Remembered
<1> QED BY <1>0, <1>1, <1>2, <1>3, <1>4, RowsStayFramed

\* An attempt that throws.
LEMMA Failing ==
  ASSUME DeliveryInv, NEW j \in Jobs, NEW why \in Causes, job[j].step \in {"post", "update"},
         Fail(j, why)
  PROVE  \E x \in JobRecord :
            /\ job' = [job EXCEPT ![j] = x]
            /\ x.step \in {"wait", "failed"} /\ x.row = job[j].row
            /\ x.step = "wait" => x.left > 0
<1>1. job[j] \in JobRecord /\ job[j].left \in Nat /\ job[j].left > 0
  BY JobFields DEF DeliveryInv, TypeOK, JobFits
<1> DEFINE step == IF job[j].left > 1 THEN "wait" ELSE "failed"
           left == job[j].left - 1
           x == [job[j] EXCEPT !.step = step, !.left = left, !.cause = why]
<1>2. step \in {"wait", "failed"} /\ left \in Nat /\ (step = "wait" => left > 0)
  BY <1>1
<1>3. job' = [job EXCEPT ![j] = x]
  BY DEF Fail
<1> HIDE DEF step, left
<1>4. x \in JobRecord /\ x.step = step /\ x.row = job[j].row /\ x.left = left
  BY <1>1, <1>2 DEF JobRecord
<1> HIDE DEF x
<1> QED BY <1>2, <1>3, <1>4

LEMMA WorkerSteps ==
  ASSUME DeliveryInv, NEW j \in Jobs,
         \/ Discard(j) \/ Attempt(j) \/ PostRefused(j) \/ RecordThrows(j)
         \/ FailedRead(j) \/ FailedWriteThrows(j)
  PROVE  DeliveryInv'
<1>1. /\ job[j] \in JobRecord /\ JobFits(job[j]) /\ TypeOK
      /\ lost \subseteq Wires /\ abandoned \subseteq Rows
  BY DEF DeliveryInv, TypeOK
<1>f. JobFits(NoJob)
  BY FreeJob DEF JobFits
<1>2. CASE Discard(j) \/ FailedWriteThrows(j)
  <2>1. /\ job' = [job EXCEPT ![j] = NoJob] /\ job[j].step \in {"wait", "failing"}
        /\ abandoned' = abandoned \cup {job[j].row} /\ lost' = lost
        /\ UNCHANGED <<rows, request, swept, plan, echo, crashes, gateway>>
    BY <1>2 DEF Discard, FailedWriteThrows, Free
  <2>2. abandoned' \subseteq Rows
    BY <1>1, <2>1 DEF JobFits
  <2> QED BY <1>1, <1>f, <2>1, <2>2, FreeJob, JobStep
<1>3. CASE Attempt(j)
  <2>1. /\ job[j].step = "wait" /\ UNCHANGED history
        /\ UNCHANGED <<rows, request, swept, plan, echo, crashes, gateway>>
        /\ \/ job' = [job EXCEPT ![j] = NoJob]
           \/ job' = [job EXCEPT ![j] = [job[j] EXCEPT !.step = "post"]]
    BY <1>3 DEF Attempt, Free
  <2> DEFINE x == [job[j] EXCEPT !.step = "post"]
  <2>2. x \in JobRecord /\ x.step = "post" /\ x.row = job[j].row /\ x.left = job[j].left
    BY <1>1 DEF JobRecord
  <2>3. CASE job' = [job EXCEPT ![j] = x]
    <3> HIDE DEF x
    <3>1. JobFits(x)
      BY <1>1, <2>1, <2>2 DEF JobFits
    <3> QED BY <1>1, <2>1, <2>2, <2>3, <3>1, JobStep DEF history
  <2>4. CASE job' = [job EXCEPT ![j] = NoJob]
    BY <1>1, <1>f, <2>1, <2>4, FreeJob, JobStep DEF history
  <2> QED BY <2>1, <2>3, <2>4
<1>4. CASE PostRefused(j)
  <2>1. /\ job[j].step = "post" /\ UNCHANGED history
        /\ UNCHANGED <<rows, request, swept, plan, echo, crashes, gateway>>
    BY <1>4 DEF PostRefused
  <2>2. PICK why \in Causes : Fail(j, why)
    BY <1>4 DEF PostRefused, Causes
  <2>3. PICK x \in JobRecord :
            /\ job' = [job EXCEPT ![j] = x]
            /\ x.step \in {"wait", "failed"} /\ x.row = job[j].row
            /\ x.step = "wait" => x.left > 0
    BY <2>1, <2>2, Failing
  <2>4. JobFits(x)
    BY <1>1, <2>1, <2>3 DEF JobFits
  <2> QED BY <1>1, <2>1, <2>3, <2>4, JobStep DEF history
<1>5. CASE RecordThrows(j)
  <2>1. /\ job[j].step = "update" /\ Fail(j, "other") /\ lost' = lost \cup {job[j].wire}
        /\ UNCHANGED <<rows, request, swept, plan, echo, crashes, gateway, abandoned>>
    BY <1>5 DEF RecordThrows
  <2>2. PICK x \in JobRecord :
            /\ job' = [job EXCEPT ![j] = x]
            /\ x.step \in {"wait", "failed"} /\ x.row = job[j].row
            /\ x.step = "wait" => x.left > 0
    BY <2>1, Failing DEF Causes
  <2>3. JobFits(x) /\ job[j].wire \in Wires
    BY <1>1, <2>1, <2>2 DEF JobFits, Posted
  <2> QED BY <1>1, <2>1, <2>2, <2>3, JobStep
<1>6. CASE FailedRead(j)
  <2>1. /\ job[j].step = "failed" /\ UNCHANGED history
        /\ UNCHANGED <<rows, request, swept, plan, echo, crashes, gateway>>
    BY <1>6 DEF FailedRead
  <2>2. PICK n \in {resends[job[j].row], 0} :
           job' = [job EXCEPT ![j] = [job[j] EXCEPT !.step = "failing", !.n = n]]
    BY <1>6 DEF FailedRead
  <2>3. n \in Nat
    BY <1>1, <2>1, <2>2 DEF TypeOK, JobFits
  <2> DEFINE x == [job[j] EXCEPT !.step = "failing", !.n = n]
  <2>4. x \in JobRecord /\ x.step = "failing" /\ x.row = job[j].row
    BY <1>1, <2>3 DEF JobRecord
  <2> HIDE DEF x
  <2>5. JobFits(x)
    BY <1>1, <2>1, <2>4 DEF JobFits
  <2> QED BY <1>1, <2>1, <2>2, <2>4, <2>5, JobStep DEF history, x
<1> QED BY <1>2, <1>3, <1>4, <1>5, <1>6

--------------------------------------------------------------------------------
(* Requests and sweeps.                                                       *)

LEMMA RequestStep ==
  ASSUME DeliveryInv, NEW p \in Callers, NEW x \in RequestRecord,
         request' = [request EXCEPT ![p] = x], RequestFits(x),
         swept' \in [Sweeps -> SUBSET Rows],
         \A s \in Sweeps : \A r \in swept'[s] : r \in swept[s] \/ Exists(r),
         abandoned' \subseteq Rows,
         UNCHANGED <<rows, job, plan, echo, crashes, gateway, lost>>
  PROVE  DeliveryInv'
<1>0. /\ TypeOK /\ RowsStay /\ UNCHANGED <<resends, cause, born, crashes>>
      /\ \A w \in Posted : Remembered(w)
  BY DEF DeliveryInv, RowsStay, rows, gateway
<1>1. /\ request' \in [Callers -> RequestRecord] /\ request'[p] = x
      /\ \A q \in Callers : q # p => request'[q] = request[q]
  BY <1>0 DEF TypeOK
<1>2. TypeOK'
  BY <1>0, <1>1, QuietType DEF TypeOK
<1>3. RequestFits(request[p])'
  BY <1>0, <1>1 DEF RequestFits, RowsStay, Exists
<1>4. \A w \in Posted : Remembered(w)'
  BY <1>0 DEF Remembered, RowsStay
<1> QED BY <1>0, <1>1, <1>2, <1>3, <1>4, RowsStayFramed

LEMMA Returned ==
  ASSUME NEW p \in Callers, Return(p)
  PROVE  \E x \in RequestRecord : request' = [request EXCEPT ![p] = x] /\ RequestFits(x)
  BY EmptyRequests DEF Return, RequestFits

LEMMA Asked ==
  ASSUME NEW p \in Callers, NEW r \in Rows, Exists(r), Ask(p, r)
  PROVE  \E x \in RequestRecord : request' = [request EXCEPT ![p] = x] /\ RequestFits(x)
<1> DEFINE x == [NoRequest EXCEPT !.row = r, !.step = "read"]
<1>1. x \in RequestRecord /\ x.row = r
  BY EmptyRequests DEF RequestRecord
<1> QED BY <1>1 DEF Ask, RequestFits

LEMMA RequestSteps ==
  ASSUME DeliveryInv, NEW p \in Callers, ResendRequest(p) \/ ResendRead(p) \/ RequestThrows(p)
  PROVE  DeliveryInv'
<1>1. /\ TypeOK /\ request[p] \in RequestRecord /\ RequestFits(request[p])
      /\ swept \in [Sweeps -> SUBSET Rows] /\ abandoned \subseteq Rows
  BY DEF DeliveryInv, TypeOK
<1>2. CASE ResendRequest(p)
  <2>1. \E x \in RequestRecord : request' = [request EXCEPT ![p] = x] /\ RequestFits(x)
    BY <1>2, Asked DEF ResendRequest
  <2> QED BY <1>1, <1>2, <2>1, RequestStep DEF ResendRequest, history
<1>3. CASE ResendRead(p)
  <2>1. request[p].step = "read" /\ request[p].row \in Rows /\ Exists(request[p].row)
    BY <1>1, <1>3 DEF ResendRead, RequestFits
  <2> DEFINE r == request[p].row
             y == [row |-> r, step |-> "put", n |-> resends[r], cause |-> cause[r]]
  <2>2. y \in RequestRecord /\ RequestFits(y)
    BY <1>1, <2>1 DEF TypeOK, RequestRecord, RequestFits
  <2>3. Return(p) \/ request' = [request EXCEPT ![p] = y]
    BY <1>3 DEF ResendRead
  <2> HIDE DEF y
  <2>4. \E x \in RequestRecord : request' = [request EXCEPT ![p] = x] /\ RequestFits(x)
    BY <2>2, <2>3, Returned
  <2> QED BY <1>1, <1>3, <2>4, RequestStep DEF ResendRead, history
<1>4. CASE RequestThrows(p)
  <2>1. \E x \in RequestRecord : request' = [request EXCEPT ![p] = x] /\ RequestFits(x)
    BY <1>4, Returned DEF RequestThrows
  <2>2. abandoned' \subseteq Rows
    BY <1>1, <1>4 DEF RequestThrows, RequestFits
  <2> QED BY <1>1, <1>4, <2>1, <2>2, RequestStep DEF RequestThrows
<1> QED BY <1>2, <1>3, <1>4

LEMMA SweepSteps ==
  ASSUME DeliveryInv, NEW s \in Sweeps, Sweep(s)
  PROVE  DeliveryInv'
<1>1. /\ TypeOK /\ swept \in [Sweeps -> SUBSET Rows] /\ abandoned \subseteq Rows
      /\ request \in [Callers -> RequestRecord] /\ s \in Callers
      /\ RequestFits(request[s]) /\ request[s] \in RequestRecord
      /\ \A r \in swept[s] : Exists(r)
  BY DEF DeliveryInv, TypeOK, Callers
<1>2. CASE SweepRead(s)
  <2>1. /\ swept' = [swept EXCEPT ![s] = {r \in Rows : Eligible(r)}]
        /\ request' = [request EXCEPT ![s] = request[s]]
        /\ UNCHANGED <<rows, job, plan, echo, crashes, gateway, history>>
    BY <1>1, <1>2 DEF SweepRead
  <2>2. \A r \in Rows : Eligible(r) => Exists(r)
    BY DEF Eligible, Exists
  <2>3. /\ swept' \in [Sweeps -> SUBSET Rows]
        /\ \A t \in Sweeps : \A r \in swept'[t] : r \in swept[t] \/ Exists(r)
    BY <1>1, <2>1, <2>2
  <2> QED BY <1>1, <2>1, <2>3, RequestStep DEF history
<1>3. CASE SweepNext(s)
  <2>1. PICK r \in swept[s] : Ask(s, r) /\ swept' = [swept EXCEPT ![s] = swept[s] \ {r}]
    BY <1>3 DEF SweepNext
  <2>2. r \in Rows /\ Exists(r)
    BY <1>1
  <2>3. \E x \in RequestRecord : request' = [request EXCEPT ![s] = x] /\ RequestFits(x)
    BY <1>1, <2>1, <2>2, Asked
  <2>4. /\ swept' \in [Sweeps -> SUBSET Rows]
        /\ \A t \in Sweeps : \A q \in swept'[t] : q \in swept[t] \/ Exists(q)
    BY <1>1, <2>1
  <2> QED BY <1>1, <1>3, <2>3, <2>4, RequestStep DEF SweepNext, history
<1> QED BY <1>2, <1>3 DEF Sweep

LEMMA EnqueueStep ==
  ASSUME DeliveryInv, NEW p \in Callers, Enqueue(p)
  PROVE  DeliveryInv'
<1>1. /\ TypeOK /\ RequestFits(request[p]) /\ RowsStay
      /\ job \in [Jobs -> JobRecord] /\ request \in [Callers -> RequestRecord]
      /\ UNCHANGED <<resends, cause, born, crashes, swept, plan, echo, lost, abandoned>>
      /\ \A w \in Posted : Remembered(w)
  BY DEF DeliveryInv, TypeOK, Enqueue, RowsStay, rows, gateway, history
<1>2. PICK j \in Jobs :
         /\ job[j].step = "free"
         /\ job' = [job EXCEPT ![j] = [NoJob EXCEPT !.row = request[p].row, !.step = "wait",
                                                    !.left = Attempts]]
  BY DEF Enqueue
<1>3. request[p].row \in Rows /\ Exists(request[p].row)
  BY <1>1 DEF Enqueue, RequestFits
<1> DEFINE y == [NoJob EXCEPT !.row = request[p].row, !.step = "wait", !.left = Attempts]
<1>4. y \in JobRecord /\ y.row = request[p].row /\ y.step = "wait" /\ y.left > 0
  BY <1>3, FreeJob, ParameterAssumption DEF JobRecord
<1>5. PICK x \in RequestRecord : request' = [request EXCEPT ![p] = x] /\ RequestFits(x)
  BY Returned DEF Enqueue
<1> HIDE DEF y
<1>6. /\ job' \in [Jobs -> JobRecord] /\ job'[j] = y
      /\ \A i \in Jobs : i # j => job'[i] = job[i]
  BY <1>1, <1>2, <1>4 DEF y
<1>7. /\ request' \in [Callers -> RequestRecord] /\ request'[p] = x
      /\ \A q \in Callers : q # p => request'[q] = request[q]
  BY <1>1, <1>5
<1>8. TypeOK'
  BY <1>1, <1>6, <1>7, QuietType DEF TypeOK
<1>9. JobFits(job[j])' /\ RequestFits(request[p])'
  BY <1>1, <1>3, <1>4, <1>5, <1>6, <1>7 DEF JobFits, RequestFits, RowsStay, Exists
<1>10. ASSUME NEW w \in Posted PROVE Remembered(w)'
  <2>1. Remembered(w) /\ \A i \in Jobs : job[i].step = "update" => job'[i] = job[i]
    BY <1>1, <1>2, <1>6
  <2> QED BY <1>1, <2>1 DEF Remembered, RowsStay
<1> QED BY <1>1, <1>6, <1>7, <1>8, <1>9, <1>10, RowsStayFramed

--------------------------------------------------------------------------------
(* Rows that are created, or change their status.                             *)

LEMMA RowsCounted ==
  ASSUME TypeOK
  PROVE  Cardinality({r \in Rows : Exists(r)}) \in Nat
<1>1. IsFiniteSet(Messages) /\ IsFiniteSet(Wires)
  BY ParameterAssumption, FS_Interval DEF Wires
<1>2. IsFiniteSet(Rows)
  BY <1>1, FS_Union DEF Rows
<1>3. IsFiniteSet({r \in Rows : Exists(r)})
  BY <1>2, FS_Subset
<1> QED BY <1>3, FS_CardinalityType

LEMMA CreateStep ==
  ASSUME DeliveryInv, NEW m \in Messages, Create(m)
  PROVE  DeliveryInv'
<1>1. /\ TypeOK /\ m \in Rows /\ m \in Callers /\ m \notin Wires /\ ~Exists(m)
      /\ UNCHANGED <<wire, resends, cause, text, job, swept, plan, echo, crashes, gateway,
                     history>>
      /\ fresh' = fresh \cup {m} /\ RowFits(m)
      /\ \A w \in Posted : Remembered(w)
  BY ParameterAssumption DEF DeliveryInv, Create, Rows, Callers
<1>2. /\ status' \in [Rows -> RowStatus] /\ status'[m] = "PENDING"
      /\ \A r \in Rows : r # m => status'[r] = status[r]
  BY <1>1 DEF Create, TypeOK, RowStatus
<1>3. born' \in [Rows -> Nat]
  BY <1>1, RowsCounted DEF Create, TypeOK
<1> DEFINE x == [NoRequest EXCEPT !.row = m, !.step = "add"]
<1>4. x \in RequestRecord /\ x.row = m /\ x.step = "add"
  BY <1>1, EmptyRequests DEF RequestRecord
<1>5. request' = [request EXCEPT ![m] = x]
  BY DEF Create
<1> HIDE DEF x
<1>6. /\ request' \in [Callers -> RequestRecord] /\ request'[m] = x
      /\ \A q \in Callers : q # m => request'[q] = request[q]
  BY <1>1, <1>4, <1>5 DEF TypeOK
<1>7. TypeOK'
  BY <1>1, <1>2, <1>3, <1>6 DEF TypeOK, gateway, history
<1>8. PostedInOrder' /\ Posted' = Posted
  BY <1>1 DEF DeliveryInv, PostedInOrder, Posted, gateway
<1>9. Keeps
  BY <1>1, <1>2 DEF Keeps, Exists, gateway, Posted
<1>10. RequestFits(request[m])'
  BY <1>1, <1>2, <1>4, <1>6 DEF RequestFits, Exists
<1>11. RowFits(m)'
  BY <1>1, <1>2 DEF RowFits, Exists
<1>12. \A w \in Posted' : Remembered(w)'
  BY <1>1, <1>8 DEF Remembered, gateway, history
<1>13. \A w \in Wires : Exists(w)' => Exists(w)
  BY <1>1, <1>2 DEF Exists, Rows
<1> QED BY <1>1, <1>2, <1>6, <1>7, <1>8, <1>9, <1>10, <1>11, <1>12, <1>13, Framed

\* Rows that change status, and nothing the posts depend on.
LEMMA StatusStep ==
  ASSUME DeliveryInv, TypeOK',
         UNCHANGED <<wire, fresh, text, swept, echo, gateway>>,
         lost \subseteq lost',
         \A j \in Jobs : job'[j] = job[j] \/ (job'[j].step = "free" /\ job[j].step # "update"),
         \A p \in Callers : request'[p] = request[p] \/ RequestFits(request[p])',
         \A r \in Rows : plan'[r] = plan[r] \/ plan'[r].act = "none",
         \A r \in Rows : \/ status'[r] = status[r]
                         \/ /\ Exists(r) /\ status'[r] # "none"
                            /\ status'[r] \in {"SENT", "DELIVERED"} =>
                                  \E w \in Posted : text[w] = text[r]
  PROVE  DeliveryInv'
<1>1. PostedInOrder' /\ Posted' = Posted
  BY DEF DeliveryInv, PostedInOrder, Posted, gateway
<1>2. Keeps
  BY DEF Keeps, Exists, gateway, Posted
<1>3. ASSUME NEW r \in Rows PROVE RowFits(r)'
  <2>1. RowFits(r) /\ (Exists(r) => Exists(r)')
    BY DEF DeliveryInv, Exists
  <2> QED BY <1>1, <2>1 DEF RowFits
<1>4. \A w \in Wires : Exists(w)' => Exists(w)
  BY DEF Exists, Rows
<1>5. ASSUME NEW w \in Posted' PROVE Remembered(w)'
  <2>1. Remembered(w)
    BY <1>1 DEF DeliveryInv
  <2> QED BY <2>1 DEF Remembered, gateway
<1>6. \A j \in Jobs : job'[j] = job[j] \/ JobFits(job[j])'
  BY DEF JobFits
<1>7. \A r \in Rows : plan'[r] = plan[r] \/ PlanFits(r, plan[r])'
  BY DEF PlanFits
<1> QED BY <1>1, <1>2, <1>3, <1>4, <1>5, <1>6, <1>7, Framed

LEMMA ResendPutStep ==
  ASSUME DeliveryInv, NEW p \in Callers, ResendPut(p)
  PROVE  DeliveryInv'
<1>1. /\ TypeOK /\ RequestFits(request[p]) /\ request[p].step = "put"
      /\ request[p] \in RequestRecord /\ request \in [Callers -> RequestRecord]
      /\ UNCHANGED <<wire, fresh, born, text, job, swept, plan, echo, crashes, gateway, history>>
  BY DEF DeliveryInv, TypeOK, ResendPut
<1> DEFINE r == request[p].row
<1>2. r \in Rows /\ Exists(r) /\ request[p].n \in Nat /\ request[p].cause \in Causes
  BY <1>1, RequestFields DEF RequestFits
<1>3. /\ status' = [status EXCEPT ![r] = "PENDING"]
      /\ resends' = [resends EXCEPT ![r] = request[p].n + 1]
      /\ cause' = [cause EXCEPT ![r] = request[p].cause]
      /\ request' = [request EXCEPT ![p] = [request[p] EXCEPT !.step = "add"]]
  BY DEF ResendPut
<1> DEFINE x == [request[p] EXCEPT !.step = "add"]
<1>4. x \in RequestRecord /\ x.row = r
  BY <1>1 DEF RequestRecord
<1> HIDE DEF x
<1>5. /\ request' \in [Callers -> RequestRecord] /\ request'[p] = x
      /\ \A q \in Callers : q # p => request'[q] = request[q]
  BY <1>1, <1>3, <1>4 DEF x
<1> HIDE DEF r
<1>6. /\ status' \in [Rows -> RowStatus] /\ status'[r] = "PENDING"
      /\ \A q \in Rows : q # r => status'[q] = status[q]
  BY <1>1, <1>2, <1>3 DEF TypeOK, RowStatus
<1>7. resends' \in [Rows -> Nat] /\ cause' \in [Rows -> Causes]
  BY <1>1, <1>2, <1>3 DEF TypeOK
<1>8. TypeOK'
  BY <1>1, <1>5, <1>6, <1>7 DEF TypeOK, gateway, history
<1>9. RequestFits(request[p])'
  BY <1>2, <1>4, <1>5, <1>6 DEF RequestFits, Exists
<1>10. \A q \in Rows : \/ status'[q] = status[q]
                      \/ /\ Exists(q) /\ status'[q] # "none"
                         /\ status'[q] \in {"SENT", "DELIVERED"} =>
                               \E w \in Posted : text[w] = text[q]
  BY <1>2, <1>6
<1>11. \A q \in Callers : request'[q] = request[q] \/ RequestFits(request[q])'
  BY <1>5, <1>9
<1>12. /\ UNCHANGED <<wire, fresh, text, swept, echo, gateway>> /\ lost \subseteq lost'
       /\ \A i \in Jobs : job'[i] = job[i] \/ (job'[i].step = "free" /\ job[i].step # "update")
       /\ \A q \in Rows : plan'[q] = plan[q] \/ plan'[q].act = "none"
  BY <1>1 DEF history
<1> QED BY <1>8, <1>10, <1>11, <1>12, StatusStep

LEMMA FailedWriteStep ==
  ASSUME DeliveryInv, NEW j \in Jobs, FailedWrite(j)
  PROVE  DeliveryInv'
<1>1. /\ TypeOK /\ JobFits(job[j]) /\ job[j].step = "failing"
      /\ job[j] \in JobRecord /\ job \in [Jobs -> JobRecord]
      /\ UNCHANGED <<wire, fresh, born, text, request, swept, plan, echo, crashes, gateway,
                     history>>
      /\ job' = [job EXCEPT ![j] = NoJob]
  BY DEF DeliveryInv, TypeOK, FailedWrite, Free
<1> DEFINE r == job[j].row
<1>2. r \in Rows /\ Exists(r) /\ job[j].n \in Nat /\ job[j].cause \in Causes
  BY <1>1, JobFields DEF JobFits
<1>3. /\ status' = [status EXCEPT ![r] = "FAILED"]
      /\ resends' = [resends EXCEPT ![r] = job[j].n]
      /\ cause' = [cause EXCEPT ![r] = job[j].cause]
  BY DEF FailedWrite
<1> HIDE DEF r
<1>4. /\ job' \in [Jobs -> JobRecord] /\ job'[j].step = "free"
      /\ \A i \in Jobs : i # j => job'[i] = job[i]
  BY <1>1, FreeJob
<1>5. /\ status' \in [Rows -> RowStatus] /\ status'[r] = "FAILED"
      /\ \A q \in Rows : q # r => status'[q] = status[q]
  BY <1>1, <1>2, <1>3 DEF TypeOK, RowStatus
<1>6. resends' \in [Rows -> Nat] /\ cause' \in [Rows -> Causes]
  BY <1>1, <1>2, <1>3 DEF TypeOK
<1>7. TypeOK'
  BY <1>1, <1>4, <1>5, <1>6 DEF TypeOK, gateway, history
<1>8. \A q \in Rows : \/ status'[q] = status[q]
                      \/ /\ Exists(q) /\ status'[q] # "none"
                         /\ status'[q] \in {"SENT", "DELIVERED"} =>
                               \E w \in Posted : text[w] = text[q]
  BY <1>2, <1>5
<1>9. \A i \in Jobs : job'[i] = job[i] \/ (job'[i].step = "free" /\ job[i].step # "update")
  BY <1>1, <1>4
<1>10. /\ UNCHANGED <<wire, fresh, text, swept, echo, gateway>> /\ lost \subseteq lost'
       /\ \A p \in Callers : request'[p] = request[p] \/ RequestFits(request[p])'
       /\ \A q \in Rows : plan'[q] = plan[q] \/ plan'[q].act = "none"
  BY <1>1 DEF history
<1> QED BY <1>7, <1>8, <1>9, <1>10, StatusStep

LEMMA AckStep ==
  ASSUME DeliveryInv, NEW w \in Wires, Ack(w)
  PROVE  DeliveryInv'
<1>1. /\ TypeOK /\ UNCHANGED <<wire, resends, cause, fresh, born, text, processes, gateway, history>>
      /\ \A r \in Rows : RowFits(r)
  BY DEF DeliveryInv, Ack
<1>2. PICK s \in Acks(w) : status' = [r \in Rows |-> IF r \in Linked(w) THEN s ELSE status[r]]
  BY DEF Ack
<1>3. s \in RowStatus /\ s # "none"
  <2>1. server[w] \in {"none", "SENT", "DELIVERED", "ERROR"}
    BY <1>1 DEF TypeOK
  <2> QED BY <1>2, <2>1 DEF Acks, RowStatus
<1>4. \A r \in Linked(w) :
         /\ r \in Rows /\ Exists(r)
         /\ \E v \in Posted : text[v] = text[r]
  BY <1>1 DEF Linked, RowFits, Wires, NoId
<1>5. status' \in [Rows -> RowStatus]
  BY <1>1, <1>2, <1>3 DEF TypeOK
<1>6. TypeOK'
  BY <1>1, <1>5 DEF TypeOK, processes, gateway, history
<1>7. \A r \in Rows : \/ status'[r] = status[r]
                      \/ /\ Exists(r) /\ status'[r] # "none"
                         /\ status'[r] \in {"SENT", "DELIVERED"} =>
                               \E v \in Posted : text[v] = text[r]
  BY <1>2, <1>3, <1>4
<1>8. /\ UNCHANGED <<wire, fresh, text, swept, echo, gateway>> /\ lost \subseteq lost'
      /\ \A i \in Jobs : job'[i] = job[i] \/ (job'[i].step = "free" /\ job[i].step # "update")
      /\ \A p \in Callers : request'[p] = request[p] \/ RequestFits(request[p])'
      /\ \A q \in Rows : plan'[q] = plan[q] \/ plan'[q].act = "none"
  BY <1>1 DEF history, processes
<1> QED BY <1>6, <1>7, <1>8, StatusStep

LEMMA ReconcileStatusStep ==
  ASSUME DeliveryInv, NEW r \in Rows, ReconcileStatus(r)
  PROVE  DeliveryInv'
<1>1. /\ TypeOK /\ PlanFits(r, plan[r]) /\ plan[r].act = "DELIVERED"
      /\ UNCHANGED <<wire, resends, cause, fresh, born, text, job, request, swept, echo,
                     crashes, gateway, history>>
      /\ status' = [status EXCEPT ![r] = "DELIVERED"]
      /\ plan' = [plan EXCEPT ![r] = NoPlan]
  BY DEF DeliveryInv, ReconcileStatus
<1>2. /\ status' \in [Rows -> RowStatus] /\ status'[r] = "DELIVERED"
      /\ \A q \in Rows : q # r => status'[q] = status[q]
  BY <1>1 DEF TypeOK, RowStatus
<1>3. /\ plan' \in [Rows -> PlanRecord] /\ plan'[r].act = "none"
      /\ \A q \in Rows : q # r => plan'[q] = plan[q]
  BY <1>1, EmptyPlan DEF TypeOK
<1>4. TypeOK'
  BY <1>1, <1>2, <1>3 DEF TypeOK, gateway, history
<1>5. \A q \in Rows : \/ status'[q] = status[q]
                      \/ /\ Exists(q) /\ status'[q] # "none"
                         /\ status'[q] \in {"SENT", "DELIVERED"} =>
                               \E v \in Posted : text[v] = text[q]
  BY <1>1, <1>2 DEF PlanFits
<1>6. /\ UNCHANGED <<wire, fresh, text, swept, echo, gateway>> /\ lost \subseteq lost'
      /\ \A i \in Jobs : job'[i] = job[i] \/ (job'[i].step = "free" /\ job[i].step # "update")
      /\ \A p \in Callers : request'[p] = request[p] \/ RequestFits(request[p])'
      /\ \A q \in Rows : plan'[q] = plan[q] \/ plan'[q].act = "none"
  BY <1>1, <1>3 DEF history
<1> QED BY <1>4, <1>5, <1>6, StatusStep

\* The reconciler's reading, its verdicts and its giving up change plans alone.
LEMMA PlanStep ==
  ASSUME DeliveryInv, plan' \in [Rows -> PlanRecord],
         \A r \in Rows : plan'[r] = plan[r] \/ PlanFits(r, plan'[r]),
         UNCHANGED <<rows, job, request, swept, echo, crashes, gateway, history>>
  PROVE  DeliveryInv'
<1>1. /\ TypeOK /\ RowsStay /\ UNCHANGED <<resends, cause, born, crashes, job, request, swept, echo, lost, abandoned>>
      /\ \A w \in Posted : Remembered(w)
  BY DEF DeliveryInv, RowsStay, rows, gateway, history
<1>2. TypeOK'
  BY <1>1, QuietType DEF TypeOK
<1>3. \A r \in Rows : plan'[r] = plan[r] \/ PlanFits(r, plan[r])'
  BY <1>1 DEF PlanFits, RowsStay, Exists, Posted
<1>4. \A w \in Posted : Remembered(w)'
  BY <1>1 DEF Remembered, RowsStay
<1> QED BY <1>1, <1>2, <1>3, <1>4, RowsStayFramed

LEMMA PlanSteps ==
  ASSUME DeliveryInv, ReconcileRead \/ ReconcileAsk \/ ReconcileThrows
  PROVE  DeliveryInv'
<1>1. /\ TypeOK /\ plan \in [Rows -> PlanRecord]
      /\ \A r \in Rows : PlanFits(r, plan[r]) /\ RowFits(r)
  BY DEF DeliveryInv, TypeOK
<1>2. \A r \in Rows : PlanFits(r, NoPlan)
  BY EmptyPlan DEF PlanFits
<1>3. CASE ReconcileRead
  <2> DEFINE asked(r) == [act |-> "ask", wire |-> wire[r], n |-> resends[r], cause |-> cause[r]]
  <2>1. /\ plan' = [r \in Rows |-> IF status[r] = "SENT" /\ wire[r] # NoId THEN asked(r) ELSE NoPlan]
        /\ UNCHANGED <<rows, job, request, swept, echo, crashes, gateway, history>>
    BY <1>3 DEF ReconcileRead
  <2>2. \A r \in Rows : asked(r) \in PlanRecord
    BY <1>1 DEF TypeOK, PlanRecord
  <2>3. \A r \in Rows : wire[r] # NoId => PlanFits(r, asked(r))
    BY <1>1 DEF RowFits, PlanFits
  <2> HIDE DEF asked
  <2>4. plan' \in [Rows -> PlanRecord] /\ \A r \in Rows : PlanFits(r, plan'[r])
    BY <1>2, <2>1, <2>2, <2>3, EmptyPlan
  <2> QED BY <2>1, <2>4, PlanStep
<1>4. CASE ReconcileAsk
  <2>1. PICK verdict \in [Rows -> {"none", "DELIVERED", "STUCK"}] :
          /\ \A r \in Rows : verdict[r] \in Verdicts(r)
          /\ plan' = [r \in Rows |-> IF verdict[r] = "none" THEN NoPlan
                                     ELSE [plan[r] EXCEPT !.act = verdict[r]]]
    BY <1>4 DEF ReconcileAsk
  <2> DEFINE judged(r) == [plan[r] EXCEPT !.act = verdict[r]]
  <2>2. \A r \in Rows : verdict[r] # "none" => plan[r].act = "ask"
    BY <2>1 DEF Verdicts
  <2>3. ASSUME NEW r \in Rows, verdict[r] # "none"
        PROVE  judged(r) \in PlanRecord /\ judged(r).wire = plan[r].wire
    <3>1. verdict[r] \in {"DELIVERED", "STUCK"} /\ plan[r] \in PlanRecord
      BY <1>1, <2>1, <2>3
    <3> QED BY <3>1 DEF PlanRecord
  <2>4. \A r \in Rows : verdict[r] # "none" => PlanFits(r, judged(r))
    BY <1>1, <2>2, <2>3 DEF PlanFits
  <2>5. plan' = [r \in Rows |-> IF verdict[r] = "none" THEN NoPlan ELSE judged(r)]
    BY <2>1
  <2> HIDE DEF judged
  <2>6. plan' \in [Rows -> PlanRecord] /\ \A r \in Rows : PlanFits(r, plan'[r])
    BY <1>2, <2>3, <2>4, <2>5, EmptyPlan
  <2> QED BY <1>4, <2>6, PlanStep DEF ReconcileAsk
<1>5. CASE ReconcileThrows
  <2>1. plan' \in [Rows -> PlanRecord] /\ \A r \in Rows : PlanFits(r, plan'[r])
    BY <1>2, <1>5, EmptyPlan DEF ReconcileThrows
  <2> QED BY <1>5, <2>1, PlanStep DEF ReconcileThrows
<1> QED BY <1>3, <1>4, <1>5

LEMMA AgesStep ==
  ASSUME DeliveryInv, NEW r \in Rows, Ages(r)
  PROVE  DeliveryInv'
<1>1. /\ TypeOK /\ fresh' \subseteq fresh
      /\ UNCHANGED <<status, wire, resends, cause, born, text, job, request, swept, plan, echo,
                     crashes, server, origin, lost, abandoned>>
      /\ \A w \in Posted : Remembered(w)
  BY DEF DeliveryInv, Ages, processes, gateway, history
<1>2. TypeOK'
  BY <1>1 DEF TypeOK
<1>3. PostedInOrder' /\ Posted' = Posted
  BY <1>1 DEF DeliveryInv, PostedInOrder, Posted
<1>4. Keeps
  BY <1>1 DEF Keeps, Exists, Posted
<1>5. \A w \in Posted' : Remembered(w)'
  BY <1>1, <1>3 DEF Remembered
<1>6. \A w \in Wires : Exists(w)' => Exists(w)
  BY <1>1 DEF Exists
<1> QED BY <1>1, <1>2, <1>3, <1>4, <1>5, <1>6, Framed

LEMMA ServerStep ==
  ASSUME DeliveryInv, NEW w \in Wires, ServerMoves(w)
  PROVE  DeliveryInv'
<1>1. /\ TypeOK /\ server[w] = "SENT"
      /\ UNCHANGED <<status, wire, resends, cause, fresh, born, text, job, request, swept, plan,
                     echo, crashes, origin, lost, abandoned>>
      /\ \A v \in Posted : Remembered(v)
  BY DEF DeliveryInv, ServerMoves, rows, processes, history
<1>2. /\ server' \in [Wires -> {"none", "SENT", "DELIVERED", "ERROR"}] /\ server'[w] # "none"
      /\ \A v \in Wires : v # w => server'[v] = server[v]
  BY <1>1 DEF ServerMoves, TypeOK
<1>3. TypeOK'
  BY <1>1, <1>2 DEF TypeOK
<1>4. Posted' = Posted
  BY <1>1, <1>2 DEF Posted
<1>5. PostedInOrder'
  BY <1>1, <1>4 DEF DeliveryInv, PostedInOrder
<1>6. Keeps
  BY <1>1, <1>2 DEF Keeps, Exists, Posted
<1>7. \A v \in Posted' : Remembered(v)'
  BY <1>1, <1>4 DEF Remembered
<1>8. \A v \in Wires : Exists(v)' => Exists(v)
  BY <1>1 DEF Exists
<1> QED BY <1>1, <1>3, <1>5, <1>6, <1>7, <1>8, Framed

--------------------------------------------------------------------------------
(* The echo.                                                                  *)

\* An echo that goes on without touching rows.
LEMMA EchoMoves ==
  ASSUME DeliveryInv, NEW w \in Wires, NEW x \in EchoRecord,
         echo' = [echo EXCEPT ![w] = x], EchoFits(w, x),
         UNCHANGED <<rows, job, request, swept, plan, crashes, gateway, history>>
  PROVE  DeliveryInv'
<1>1. /\ TypeOK /\ RowsStay
      /\ UNCHANGED <<resends, cause, born, crashes, job, request, swept, plan, lost, abandoned>>
      /\ \A v \in Posted : Remembered(v)
  BY DEF DeliveryInv, RowsStay, rows, gateway, history
<1>2. /\ echo' \in [Wires -> EchoRecord] /\ echo'[w] = x
      /\ \A v \in Wires : v # w => echo'[v] = echo[v]
  BY <1>1 DEF TypeOK
<1>3. TypeOK'
  BY <1>1, <1>2, QuietType DEF TypeOK
<1>4. EchoFits(w, echo[w])'
  BY <1>1, <1>2 DEF EchoFits, RowsStay, Exists, Posted
<1>5. \A v \in Posted : Remembered(v)'
  BY <1>1 DEF Remembered, RowsStay
<1> QED BY <1>1, <1>2, <1>3, <1>4, <1>5, RowsStayFramed

LEMMA EchoReadStep ==
  ASSUME DeliveryInv, NEW w \in Wires, EchoRead(w)
  PROVE  DeliveryInv'
<1>1. /\ TypeOK /\ EchoFits(w, echo[w]) /\ echo[w].step = "due"
      /\ \A r \in Rows : RowFits(r)
      /\ UNCHANGED <<rows, job, request, swept, plan, crashes, gateway, history>>
  BY DEF DeliveryInv, EchoRead
<1>2. w \in Posted /\ ~Exists(w)
  BY <1>1 DEF EchoFits
<1> DEFINE done == [step |-> "done", row |-> Nobody]
           insert == [step |-> "insert", row |-> Nobody]
           chosen == CHOOSE r \in RecentLocal(w) : TRUE
           link == [step |-> "link", row |-> chosen]
<1>3. \/ echo' = [echo EXCEPT ![w] = done] \/ echo' = [echo EXCEPT ![w] = insert]
      \/ echo' = [echo EXCEPT ![w] = link] /\ \E r \in RecentLocal(w) : wire[r] = NoId
  BY DEF EchoRead
<1>4. done \in EchoRecord /\ insert \in EchoRecord /\ EchoFits(w, done) /\ EchoFits(w, insert)
  BY <1>2 DEF EchoRecord, EchoFits
<1>5. CASE \E r \in RecentLocal(w) : wire[r] = NoId
  <2>1. chosen \in RecentLocal(w)
    BY <1>5
  <2> HIDE DEF chosen
  <2>2. chosen \in Rows /\ chosen \in fresh /\ text[chosen] = text[w]
    BY <2>1 DEF RecentLocal
  <2>3. link \in EchoRecord /\ EchoFits(w, link)
    BY <1>1, <1>2, <2>2 DEF EchoRecord, EchoFits, RowFits
  <2> HIDE DEF link, done, insert
  <2> QED BY <1>1, <1>3, <1>4, <2>3, EchoMoves
<1>6. CASE ~\E r \in RecentLocal(w) : wire[r] = NoId
  <2> HIDE DEF link, done, insert
  <2> QED BY <1>1, <1>3, <1>4, <1>6, EchoMoves
<1> QED BY <1>5, <1>6

\* The id of a row of the same text: the row's former id joins the lost ones.
LEMMA EchoLinkStep ==
  ASSUME DeliveryInv, NEW w \in Wires, EchoLink(w)
  PROVE  DeliveryInv'
<1>1. /\ TypeOK /\ EchoFits(w, echo[w]) /\ echo[w].step = "link" /\ PostedInOrder
      /\ UNCHANGED <<status, resends, cause, fresh, born, text, job, request, swept, plan,
                     crashes, server, origin, abandoned>>
      /\ \A r \in Rows : RowFits(r)
      /\ \A v \in Posted : Remembered(v)
  BY DEF DeliveryInv, EchoLink, gateway
<1>r. PICK r \in Rows : r = echo[w].row
  BY <1>1 DEF EchoFits
<1> DEFINE due == [step |-> "due", row |-> Nobody]
           done == [step |-> "done", row |-> Nobody]
<1>2. /\ w \in Posted /\ ~Exists(w) /\ w # NoId
      /\ r \in Rows /\ Exists(r) /\ text[r] = text[w]
  BY <1>1, <1>r DEF EchoFits, Wires, NoId
<1>3. /\ due \in EchoRecord /\ done \in EchoRecord
      /\ EchoFits(w, due) /\ EchoFits(w, done)
  BY <1>2 DEF EchoRecord, EchoFits
<1>4. CASE Taken(r, w)
  <2>1. /\ echo' = [echo EXCEPT ![w] = due]
        /\ UNCHANGED <<rows, job, request, swept, plan, crashes, gateway, history>>
    BY <1>1, <1>4, <1>r DEF EchoLink, rows, gateway, history
  <2> HIDE DEF due
  <2> QED BY <1>3, <2>1, EchoMoves
<1>5. CASE ~Taken(r, w)
  <2>1. /\ echo' = [echo EXCEPT ![w] = done]
        /\ wire' = [wire EXCEPT ![r] = w]
        /\ lost' = (IF r = origin[w] THEN lost \ {w} ELSE lost)
                      \cup ({wire[r]} \ {NoId, w})
    BY <1>5, <1>r DEF EchoLink
  <2>2. \A q \in Rows : q # r => wire[q] # w
    BY <1>2, <1>5 DEF Taken
  <2> HIDE DEF done
  <2>3. /\ wire' \in [Rows -> Wires \cup {NoId}] /\ wire'[r] = w
        /\ \A q \in Rows : q # r => wire'[q] = wire[q]
    BY <1>1, <1>2, <2>1 DEF TypeOK
  <2>4. /\ echo' \in [Wires -> EchoRecord] /\ echo'[w] = done
        /\ \A v \in Wires : v # w => echo'[v] = echo[v]
    BY <1>1, <1>3, <2>1 DEF TypeOK
  <2>5. \A p, q \in Rows : wire'[p] = wire'[q] => p = q \/ wire'[p] = NoId
    BY <1>1, <2>2, <2>3 DEF TypeOK
  <2>6. lost' \subseteq Wires
    BY <1>1, <1>2, <2>1 DEF TypeOK
  <2>7. TypeOK'
    BY <1>1, <2>3, <2>4, <2>5, <2>6 DEF TypeOK
  <2>8. Posted' = Posted /\ PostedInOrder'
    BY <1>1 DEF PostedInOrder, Posted
  <2>9. Keeps
    BY <1>1 DEF Keeps, Exists, Posted
  <2>10. RowFits(r)'
    <3>1. /\ wire'[r] \in Posted' /\ text'[wire'[r]] = text'[r] /\ Exists(r)'
          /\ status'[r] \in {"SENT", "DELIVERED"} => \E v \in Posted' : text'[v] = text'[r]
      BY <1>1, <1>2, <2>3, <2>8 DEF Exists
    <3> QED BY <3>1 DEF RowFits
  <2>11. EchoFits(w, echo[w])'
    BY <1>1, <1>3, <2>4, <2>8 DEF EchoFits, Exists
  <2>12. ASSUME NEW v \in Posted' PROVE Remembered(v)'
    <3>1. Remembered(v) /\ v \in Wires
      BY <1>1, <2>8 DEF Posted
    <3>2. CASE v = w
      BY <1>1, <2>1, <2>3, <3>1, <3>2 DEF Remembered
    <3>3. CASE v # w
      <4>1. CASE v \in lost
        BY <1>1, <2>1, <3>1, <3>3, <4>1 DEF Remembered
      <4>2. CASE wire[origin[v]] = v
        <5>1. CASE origin[v] = r
          BY <1>1, <2>1, <3>1, <3>3, <4>2, <5>1 DEF Remembered, Wires, NoId
        <5>2. CASE origin[v] # r
          BY <1>1, <2>3, <3>1, <4>2, <5>2 DEF Remembered
        <5> QED BY <5>1, <5>2
      <4>3. CASE \E j \in Jobs : job[j].step = "update" /\ job[j].wire = v
        BY <1>1, <3>1, <4>3 DEF Remembered
      <4> QED BY <3>1, <4>1, <4>2, <4>3 DEF Remembered
    <3> QED BY <3>2, <3>3
  <2>13. \A q \in Rows : \/ /\ wire'[q] = wire[q] /\ status'[q] = status[q]
                            /\ q \in fresh' => q \in fresh
                         \/ RowFits(q)'
    <3>1. fresh' = fresh /\ status' = status
      BY <1>1
    <3> QED BY <2>3, <2>10, <3>1
  <2>14. \A v \in Wires : \/ echo'[v] = echo[v] /\ (Exists(v)' => Exists(v))
                          \/ EchoFits(v, echo[v])'
    BY <1>1, <2>4, <2>11 DEF Exists
  <2> QED BY <1>1, <2>7, <2>8, <2>9, <2>12, <2>13, <2>14, Framed
<1> QED BY <1>4, <1>5

\* A copy of the post becomes a row of its own, named by the post.
LEMMA EchoInsertStep ==
  ASSUME DeliveryInv, NEW w \in Wires, EchoInsert(w)
  PROVE  DeliveryInv'
<1>1. /\ TypeOK /\ EchoFits(w, echo[w]) /\ echo[w].step = "insert" /\ PostedInOrder
      /\ UNCHANGED <<resends, cause, text, job, request, swept, plan, crashes, server, origin,
                     lost, abandoned>>
      /\ \A r \in Rows : RowFits(r)
      /\ \A v \in Posted : Remembered(v)
      /\ echo[w] \in EchoRecord
  BY DEF DeliveryInv, EchoInsert, gateway, history, TypeOK
<1> DEFINE x == [echo[w] EXCEPT !.step = "done"]
<1>2. echo' = [echo EXCEPT ![w] = x] /\ x \in EchoRecord /\ x.step = "done"
  BY <1>1 DEF EchoInsert, EchoRecord
<1> HIDE DEF x
<1>3. w \in Posted /\ ~Exists(w) /\ w # NoId /\ w \in Rows
  BY <1>1 DEF EchoFits, Wires, NoId, Rows
<1>4. CASE Linked(w) # {}
  <2>1. UNCHANGED <<rows, job, request, swept, plan, crashes, gateway, history>>
    BY <1>1, <1>4 DEF EchoInsert, rows, gateway, history
  <2>2. EchoFits(w, x)
    BY <1>2, <1>3 DEF EchoFits
  <2> QED BY <1>2, <2>1, <2>2, EchoMoves
<1>5. CASE Linked(w) = {}
  <2>1. /\ status' = [status EXCEPT ![w] = "SENT"]
        /\ wire' = [wire EXCEPT ![w] = w]
        /\ born' = [born EXCEPT ![w] = Cardinality({r \in Rows : Exists(r)})]
        /\ fresh' = fresh \cup {w}
    BY <1>5 DEF EchoInsert
  <2>2. \A q \in Rows : wire[q] # w
    BY <1>5 DEF Linked
  <2>3. /\ wire' \in [Rows -> Wires \cup {NoId}] /\ wire'[w] = w
        /\ status' \in [Rows -> RowStatus] /\ status'[w] = "SENT"
        /\ born' \in [Rows -> Nat]
        /\ \A q \in Rows : q # w => wire'[q] = wire[q] /\ status'[q] = status[q]
    BY <1>1, <1>3, <2>1, RowsCounted DEF TypeOK, RowStatus
  <2>4. /\ echo' \in [Wires -> EchoRecord] /\ echo'[w] = x
        /\ \A v \in Wires : v # w => echo'[v] = echo[v]
    BY <1>1, <1>2 DEF TypeOK
  <2>5. \A p, q \in Rows : wire'[p] = wire'[q] => p = q \/ wire'[p] = NoId
    BY <1>1, <2>2, <2>3 DEF TypeOK
  <2>6. TypeOK'
    BY <1>1, <1>3, <2>1, <2>3, <2>4, <2>5 DEF TypeOK
  <2>7. Posted' = Posted /\ PostedInOrder'
    BY <1>1 DEF PostedInOrder, Posted
  <2>8. Keeps
    BY <1>1, <2>3 DEF Keeps, Exists, Posted
  <2>9. RowFits(w)'
    BY <1>1, <1>3, <2>3, <2>7 DEF RowFits, Exists
  <2>10. EchoFits(w, echo[w])'
    BY <1>2, <1>3, <2>4, <2>7 DEF EchoFits
  <2>11. wire[w] = NoId
    BY <1>1, <1>3 DEF RowFits
  <2>12. ASSUME NEW v \in Posted' PROVE Remembered(v)'
    <3>1. Remembered(v) /\ v \in Wires
      BY <1>1, <2>7 DEF Posted
    <3>2. wire[origin[v]] = v => wire'[origin[v]] = v
      BY <2>3, <2>11, <3>1 DEF Remembered, Wires, NoId
    <3> QED BY <1>1, <3>1, <3>2 DEF Remembered
  <2>13. \A q \in Rows : \/ /\ wire'[q] = wire[q] /\ status'[q] = status[q]
                            /\ q \in fresh' => q \in fresh
                         \/ RowFits(q)'
    BY <2>1, <2>3, <2>9
  <2>14. \A v \in Wires : \/ echo'[v] = echo[v] /\ (Exists(v)' => Exists(v))
                          \/ EchoFits(v, echo[v])'
    BY <2>3, <2>4, <2>10 DEF Exists, Rows
  <2> QED BY <1>1, <2>6, <2>7, <2>8, <2>12, <2>13, <2>14, Framed
<1> QED BY <1>4, <1>5

--------------------------------------------------------------------------------
(* The reconciler gives a post up.                                            *)

LEMMA MarkStuckStep ==
  ASSUME DeliveryInv, NEW r \in Rows, MarkStuck(r)
  PROVE  DeliveryInv'
<1>1. /\ TypeOK /\ PlanFits(r, plan[r]) /\ plan[r].act = "STUCK" /\ PostedInOrder
      /\ plan[r] \in PlanRecord /\ Reconciler \in Callers
      /\ UNCHANGED <<fresh, born, text, job, swept, echo, crashes, server, origin, abandoned>>
      /\ \A v \in Posted : Remembered(v)
  BY DEF DeliveryInv, MarkStuck, gateway, TypeOK, Callers
<1>2. /\ status' = [status EXCEPT ![r] = "FAILED"]
      /\ wire' = [wire EXCEPT ![r] = NoId]
      /\ resends' = [resends EXCEPT ![r] = plan[r].n]
      /\ cause' = [cause EXCEPT ![r] = plan[r].cause]
      /\ lost' = lost \cup ({plan[r].wire, wire[r]} \ {NoId})
      /\ plan' = [plan EXCEPT ![r] = NoPlan]
      /\ Ask(Reconciler, r) \/ UNCHANGED request
  BY DEF MarkStuck
<1>3. /\ Exists(r) /\ plan[r].n \in Nat /\ plan[r].cause \in Causes
      /\ plan[r].wire \in Wires \cup {NoId}
  BY <1>1, PlanFields DEF PlanFits
<1>4. /\ status' \in [Rows -> RowStatus] /\ status'[r] = "FAILED"
      /\ wire' \in [Rows -> Wires \cup {NoId}] /\ wire'[r] = NoId
      /\ \A q \in Rows : q # r => status'[q] = status[q] /\ wire'[q] = wire[q]
  BY <1>1, <1>2 DEF TypeOK, RowStatus
<1>5. resends' \in [Rows -> Nat] /\ cause' \in [Rows -> Causes] /\ lost' \subseteq Wires
  BY <1>1, <1>2, <1>3 DEF TypeOK
<1>6. /\ plan' \in [Rows -> PlanRecord] /\ plan'[r].act = "none"
      /\ \A q \in Rows : q # r => plan'[q] = plan[q]
  BY <1>1, <1>2, EmptyPlan DEF TypeOK
<1> DEFINE x == [NoRequest EXCEPT !.row = r, !.step = "read"]
<1>7. x \in RequestRecord /\ x.row = r
  BY EmptyRequests DEF RequestRecord
<1>8. request' = request \/ request' = [request EXCEPT ![Reconciler] = x]
  BY <1>2 DEF Ask
<1> HIDE DEF x
<1>9. /\ request' \in [Callers -> RequestRecord]
      /\ \A p \in Callers : request'[p] = request[p] \/ request'[p] = x
  BY <1>1, <1>7, <1>8 DEF TypeOK
<1>10. \A p, q \in Rows : wire'[p] = wire'[q] => p = q \/ wire'[p] = NoId
  BY <1>1, <1>4 DEF TypeOK
<1>11. TypeOK'
  BY <1>1, <1>4, <1>5, <1>6, <1>9, <1>10 DEF TypeOK
<1>12. Posted' = Posted /\ PostedInOrder'
  BY <1>1 DEF PostedInOrder, Posted
<1>13. Keeps
  BY <1>1, <1>4 DEF Keeps, Exists, Posted
<1>14. \A p \in Callers : request'[p] = request[p] \/ RequestFits(request[p])'
  BY <1>4, <1>7, <1>9 DEF RequestFits, Exists
<1>15. RowFits(r)' /\ PlanFits(r, plan[r])'
  BY <1>4, <1>6 DEF RowFits, PlanFits, Exists
<1>16. ASSUME NEW v \in Posted' PROVE Remembered(v)'
  <2>1. Remembered(v) /\ v \in Wires
    BY <1>1, <1>12 DEF Posted
  <2>2. CASE wire[origin[v]] = v
    BY <1>1, <1>2, <1>4, <2>1, <2>2 DEF Remembered, Wires, NoId
  <2>3. CASE wire[origin[v]] # v
    BY <1>1, <1>2, <2>1, <2>3 DEF Remembered
  <2> QED BY <2>2, <2>3
<1>17. \A w \in Wires : Exists(w)' => Exists(w)
  BY <1>3, <1>4 DEF Exists, Rows
<1>18. \A q \in Rows : \/ /\ wire'[q] = wire[q] /\ status'[q] = status[q]
                          /\ q \in fresh' => q \in fresh
                       \/ RowFits(q)'
  BY <1>1, <1>4, <1>15
<1>19. \A q \in Rows : plan'[q] = plan[q] \/ PlanFits(q, plan[q])'
  BY <1>6, <1>15
<1> QED BY <1>1, <1>11, <1>12, <1>13, <1>14, <1>16, <1>17, <1>18, <1>19, Framed

--------------------------------------------------------------------------------
(* The worker records a post, and the gateway takes one.                      *)

LEMMA RecordStep ==
  ASSUME DeliveryInv, NEW j \in Jobs, Record(j)
  PROVE  DeliveryInv'
<1>1. /\ TypeOK /\ JobFits(job[j]) /\ job[j].step = "update" /\ PostedInOrder
      /\ job \in [Jobs -> JobRecord] /\ job[j] \in JobRecord
      /\ \A v \in Posted : Remembered(v)
      /\ UNCHANGED <<resends, cause, fresh, born, text, request, swept, plan, echo, crashes,
                     gateway, abandoned>>
  BY DEF DeliveryInv, Record, TypeOK
<1>2. PICK r, w, id : r = job[j].row /\ w = job[j].wire /\ id = job[j].id
  OBVIOUS
<1>3. /\ r \in Rows /\ Exists(r) /\ w \in Posted /\ w \in Wires /\ w # NoId
      /\ id \in {w, NoId} /\ origin[w] = r /\ text[w] = text[r]
  BY <1>1, <1>2 DEF JobFits, Posted, Wires, NoId
<1>4. CASE Taken(r, id)
  <2>1. /\ Fail(j, "other") /\ lost' = lost \cup {id} /\ id = w
        /\ UNCHANGED <<rows, request, swept, plan, echo, crashes, gateway, abandoned>>
    BY <1>1, <1>2, <1>3, <1>4 DEF Record, Taken, rows
  <2>2. PICK x \in JobRecord :
            /\ job' = [job EXCEPT ![j] = x]
            /\ x.step \in {"wait", "failed"} /\ x.row = job[j].row
            /\ x.step = "wait" => x.left > 0
    BY <1>1, <2>1, Failing DEF Causes
  <2>3. JobFits(x)
    BY <1>1, <2>2 DEF JobFits
  <2>4. job[j].wire \in lost' /\ lost \subseteq lost' /\ lost' \subseteq Wires /\ abandoned' \subseteq Rows
    BY <1>1, <1>2, <1>3, <2>1 DEF TypeOK
  <2> QED BY <2>1, <2>2, <2>3, <2>4, JobStep
<1>5. CASE ~Taken(r, id)
  <2>1. /\ status' = [status EXCEPT ![r] = "SENT"]
        /\ wire' = [wire EXCEPT ![r] = id]
        /\ lost' = lost \cup ({wire[r], w} \ {NoId, id})
        /\ job' = [job EXCEPT ![j] = NoJob]
    BY <1>2, <1>5 DEF Record, Free
  <2>2. \A q \in Rows : q # r => wire[q] # id \/ id = NoId
    BY <1>5 DEF Taken
  <2>3. /\ status' \in [Rows -> RowStatus] /\ status'[r] = "SENT"
        /\ wire' \in [Rows -> Wires \cup {NoId}] /\ wire'[r] = id
        /\ \A q \in Rows : q # r => status'[q] = status[q] /\ wire'[q] = wire[q]
    BY <1>1, <1>3, <2>1 DEF TypeOK, RowStatus
  <2>4. /\ job' \in [Jobs -> JobRecord] /\ job'[j].step = "free"
        /\ \A i \in Jobs : i # j => job'[i] = job[i]
    BY <1>1, <2>1, FreeJob
  <2>5. \A p, q \in Rows : wire'[p] = wire'[q] => p = q \/ wire'[p] = NoId
    BY <1>1, <2>2, <2>3 DEF TypeOK
  <2>6. lost' \subseteq Wires
    BY <1>1, <1>3, <2>1 DEF TypeOK
  <2>7. TypeOK'
    BY <1>1, <2>3, <2>4, <2>5, <2>6 DEF TypeOK, gateway
  <2>8. Posted' = Posted /\ PostedInOrder'
    BY <1>1 DEF PostedInOrder, Posted, gateway
  <2>9. Keeps
    BY <1>1, <2>3 DEF Keeps, Exists, Posted, gateway
  <2>10. RowFits(r)'
    <3>1. /\ id # NoId => id \in Posted' /\ text'[id] = text'[r]
          /\ \E v \in Posted' : text'[v] = text'[r]
      BY <1>1, <1>3, <2>8
    <3> QED BY <2>3, <3>1 DEF RowFits, Exists
  <2>11. ASSUME NEW v \in Posted' PROVE Remembered(v)'
    <3>1. Remembered(v) /\ v \in Wires /\ v # NoId /\ origin' = origin
      BY <1>1, <2>8 DEF Posted, gateway, Wires, NoId
    <3>2. CASE v = w
      BY <1>3, <2>1, <2>3, <3>1, <3>2 DEF Remembered
    <3>3. CASE v # w
      <4>1. CASE wire[origin[v]] = v
        <5>1. CASE origin[v] = r
          BY <1>3, <2>1, <3>1, <3>3, <4>1, <5>1 DEF Remembered
        <5>2. CASE origin[v] # r
          BY <2>3, <3>1, <4>1, <5>2 DEF Remembered
        <5> QED BY <5>1, <5>2
      <4>2. CASE v \in lost
        BY <2>1, <3>1, <4>2 DEF Remembered
      <4>3. CASE \E i \in Jobs : job[i].step = "update" /\ job[i].wire = v
        <5>1. PICK i \in Jobs : job[i].step = "update" /\ job[i].wire = v
          BY <4>3
        <5>2. job'[i] = job[i]
          BY <1>2, <2>4, <3>3, <5>1
        <5> QED BY <3>1, <5>1, <5>2 DEF Remembered
      <4> QED BY <3>1, <4>1, <4>2, <4>3 DEF Remembered
    <3> QED BY <3>2, <3>3
  <2>12. \A i \in Jobs : job'[i] = job[i] \/ JobFits(job[i])'
    BY <2>4 DEF JobFits
  <2>13. \A q \in Rows : \/ /\ wire'[q] = wire[q] /\ status'[q] = status[q]
                            /\ q \in fresh' => q \in fresh
                         \/ RowFits(q)'
    BY <1>1, <2>3, <2>10
  <2>14. \A v \in Wires : Exists(v)' => Exists(v)
    BY <1>3, <2>3 DEF Exists, Rows
  <2> QED BY <1>1, <2>7, <2>8, <2>9, <2>11, <2>12, <2>13, <2>14, Framed
<1> QED BY <1>4, <1>5

\* The posts are numbered in the order the gateway took them.
LEMMA NextPost ==
  ASSUME TypeOK, PostedInOrder, NEW w, w = Cardinality(Posted) + 1,
         Cardinality(Posted) < MaxWires,
         NEW x \in {"SENT", "DELIVERED", "ERROR"}, server' = [server EXCEPT ![w] = x],
         NEW r, origin' = [origin EXCEPT ![w] = r]
  PROVE  w \in Wires /\ w \notin Posted /\ Posted' = Posted \cup {w} /\ PostedInOrder'
<1>1. Posted \subseteq Wires /\ IsFiniteSet(Wires) /\ MaxWires \in Nat
  BY ParameterAssumption, FS_Interval DEF Posted, Wires
<1>2. Cardinality(Posted) \in Nat
  BY <1>1, FS_Subset, FS_CardinalityType
<1>3. w \in Wires /\ w \in Nat \ {0}
  BY <1>1, <1>2 DEF Wires
<1>4. w \notin Posted
  BY <1>2 DEF PostedInOrder
<1>5. Posted' = Posted \cup {w}
  <2>1. server \in [Wires -> {"none", "SENT", "DELIVERED", "ERROR"}] /\ x # "none"
    BY DEF TypeOK
  <2>2. /\ server'[w] # "none"
        /\ \A v \in Wires : v # w => server'[v] = server[v]
    BY <1>3, <2>1
  <2> QED BY <1>3, <2>2 DEF Posted
<1>6. Posted' = 1..w
  BY <1>2, <1>5 DEF PostedInOrder
<1>7. Cardinality(1..w) = w
  BY <1>3, FS_Interval
<1>8. \A v \in Wires \ Posted' : origin'[v] = Nobody
  BY <1>5 DEF PostedInOrder, TypeOK
<1> QED BY <1>3, <1>4, <1>5, <1>6, <1>7, <1>8 DEF PostedInOrder

LEMMA PostAcceptedStep ==
  ASSUME DeliveryInv, NEW j \in Jobs, PostAccepted(j)
  PROVE  DeliveryInv'
<1>1. /\ TypeOK /\ JobFits(job[j]) /\ job[j].step = "post" /\ PostedInOrder
      /\ job \in [Jobs -> JobRecord] /\ job[j] \in JobRecord
      /\ Cardinality(Posted) < MaxWires
      /\ \A v \in Posted : Remembered(v)
      /\ \A v \in Wires : EchoFits(v, echo[v])
      /\ UNCHANGED <<status, wire, resends, cause, fresh, born, request, swept, plan, crashes,
                     abandoned>>
  BY DEF DeliveryInv, PostAccepted, TypeOK
<1>2. PICK r, w : r = job[j].row /\ w = Cardinality(Posted) + 1
  OBVIOUS
<1>3. /\ server' = [server EXCEPT ![w] = "SENT"]
      /\ origin' = [origin EXCEPT ![w] = r]
      /\ text' = [text EXCEPT ![w] = text[r]]
      /\ echo' = [echo EXCEPT ![w] = [echo[w] EXCEPT !.step = "due"]]
      /\ \/ /\ \E id \in {w, NoId} :
                 job' = [job EXCEPT ![j] =
                           [job[j] EXCEPT !.step = "update", !.wire = w, !.id = id]]
            /\ UNCHANGED lost
         \/ Fail(j, "other") /\ lost' = lost \cup {w}
  BY <1>2 DEF PostAccepted
<1>4. /\ w \in Wires /\ w \notin Posted /\ Posted' = Posted \cup {w} /\ PostedInOrder'
      /\ r \in Rows /\ Exists(r) /\ w \in Rows
  BY <1>1, <1>2, <1>3, NextPost DEF JobFits, Rows
<1>5. ~Exists(w) /\ r # w
  BY <1>1, <1>4 DEF EchoFits
<1>6. /\ server' \in [Wires -> {"none", "SENT", "DELIVERED", "ERROR"}] /\ server'[w] # "none"
      /\ \A v \in Wires : v # w => server'[v] = server[v]
  BY <1>1, <1>3, <1>4 DEF TypeOK
<1>7. /\ origin' \in [Wires -> Rows \cup {Nobody}] /\ origin'[w] = r
      /\ \A v \in Wires : v # w => origin'[v] = origin[v]
  BY <1>1, <1>3, <1>4 DEF TypeOK
<1>8. /\ text' \in [Rows -> {Text[m] : m \in Messages} \cup {Nobody}] /\ text'[w] = text[r]
      /\ \A q \in Rows : q # w => text'[q] = text[q]
  BY <1>1, <1>3, <1>4 DEF TypeOK
<1> DEFINE y == [echo[w] EXCEPT !.step = "due"]
<1>9. y \in EchoRecord /\ y.step = "due"
  BY <1>1, <1>4 DEF TypeOK, EchoRecord
<1>e. echo' = [echo EXCEPT ![w] = y]
  BY <1>3
<1> HIDE DEF y
<1>10. /\ echo' \in [Wires -> EchoRecord] /\ echo'[w] = y
       /\ \A v \in Wires : v # w => echo'[v] = echo[v]
  BY <1>1, <1>4, <1>9, <1>e DEF TypeOK
<1>11. PICK x \in JobRecord :
          /\ job' = [job EXCEPT ![j] = x] /\ x.row = r
          /\ \/ x.step = "update" /\ x.wire = w /\ x.id \in {w, NoId} /\ lost' = lost
             \/ /\ x.step \in {"wait", "failed"} /\ (x.step = "wait" => x.left > 0)
                /\ lost' = lost \cup {w}
          /\ x.step = "update" => x.left > 0
  <2>1. CASE Fail(j, "other") /\ lost' = lost \cup {w}
    <3>1. \E x \in JobRecord :
            /\ job' = [job EXCEPT ![j] = x]
            /\ x.step \in {"wait", "failed"} /\ x.row = job[j].row
            /\ x.step = "wait" => x.left > 0
      BY <1>1, <2>1, Failing DEF Causes
    <3> QED BY <1>2, <2>1, <3>1
  <2>2. CASE lost' = lost /\ \E id \in {w, NoId} :
                 job' = [job EXCEPT ![j] =
                           [job[j] EXCEPT !.step = "update", !.wire = w, !.id = id]]
    <3>1. PICK id \in {w, NoId} :
                 job' = [job EXCEPT ![j] =
                           [job[j] EXCEPT !.step = "update", !.wire = w, !.id = id]]
      BY <2>2
    <3> DEFINE z == [job[j] EXCEPT !.step = "update", !.wire = w, !.id = id]
    <3>2. /\ z \in JobRecord /\ z.row = r /\ z.step = "update" /\ z.wire = w /\ z.id = id
          /\ z.left = job[j].left
      BY <1>1, <1>2, <1>4 DEF JobRecord
    <3>3. job' = [job EXCEPT ![j] = z]
      BY <3>1
    <3> HIDE DEF z
    <3>4. z.left > 0
      BY <1>1, <3>2 DEF JobFits
    <3> QED BY <2>2, <3>2, <3>3, <3>4
  <2> QED BY <1>3, <2>1, <2>2
<1>12. /\ job' \in [Jobs -> JobRecord] /\ job'[j] = x
       /\ \A i \in Jobs : i # j => job'[i] = job[i]
  BY <1>1, <1>11
<1>13. lost' \subseteq Wires /\ lost \subseteq lost'
  BY <1>1, <1>4, <1>11 DEF TypeOK
<1>14. TypeOK'
  BY <1>1, <1>6, <1>7, <1>8, <1>10, <1>12, <1>13 DEF TypeOK
<1>15. Keeps
  BY <1>1, <1>4, <1>5, <1>6, <1>7, <1>8 DEF Keeps, Exists, Posted, Rows
<1>16. JobFits(job[j])'
  BY <1>1, <1>4, <1>5, <1>7, <1>8, <1>11, <1>12 DEF JobFits, Exists
<1>17. EchoFits(w, echo[w])'
  BY <1>1, <1>4, <1>5, <1>9, <1>10 DEF EchoFits, Exists
<1>18. ASSUME NEW v \in Posted' PROVE Remembered(v)'
  <2>1. CASE v = w
    BY <1>4, <1>7, <1>11, <1>12, <2>1 DEF Remembered
  <2>2. CASE v # w
    <3>1. Remembered(v) /\ v \in Posted /\ v \in Wires
      BY <1>1, <1>4, <2>2 DEF Posted
    <3>2. \A i \in Jobs : job[i].step = "update" => job'[i] = job[i]
      BY <1>1, <1>12
    <3> QED BY <1>1, <1>7, <1>13, <2>2, <3>1, <3>2 DEF Remembered
  <2> QED BY <2>1, <2>2
<1>19. \A i \in Jobs : job'[i] = job[i] \/ JobFits(job[i])'
  BY <1>12, <1>16
<1>20. \A v \in Wires : \/ echo'[v] = echo[v] /\ (Exists(v)' => Exists(v))
                        \/ EchoFits(v, echo[v])'
  BY <1>1, <1>10, <1>17 DEF Exists
<1> QED BY <1>1, <1>4, <1>14, <1>15, <1>18, <1>19, <1>20, Framed

--------------------------------------------------------------------------------
(* Restarts.                                                                  *)

LEMMA CrashStep ==
  ASSUME DeliveryInv, Crash
  PROVE  DeliveryInv'
<1> DEFINE running == {j \in Jobs : job[j].step \in {"post", "update"}}
           again == {j \in running : ~job[j].stalled}
           gone == {j \in running : job[j].stalled}
                       \cup {j \in Jobs : job[j].step \in {"failed", "failing"}}
           adding == {p \in Callers : request[p].step = "add"}
           holding == {i \in running : job[i].step = "update"}
           retried(j) == [job[j] EXCEPT !.step = "wait", !.stalled = TRUE]
<1>1. /\ TypeOK /\ RowsStay /\ UNCHANGED <<resends, cause, born>> /\ crashes' = crashes + 1
      /\ job \in [Jobs -> JobRecord] /\ request \in [Callers -> RequestRecord]
      /\ \A j \in Jobs : JobFits(job[j])
      /\ \A p \in Callers : RequestFits(request[p])
      /\ \A w \in Wires : EchoFits(w, echo[w])
      /\ \A w \in Posted : Remembered(w)
  BY DEF DeliveryInv, TypeOK, Crash, RowsStay, rows, gateway
<1>2. /\ job' = [j \in Jobs |-> CASE j \in again -> retried(j)
                                  [] j \in gone -> NoJob
                                  [] OTHER -> job[j]]
      /\ abandoned' = abandoned \cup {job[j].row : j \in gone} \cup {request[p].row : p \in adding}
      /\ lost' = lost \cup {job[j].wire : j \in holding}
  BY DEF Crash
<1>3. /\ request' = [p \in Callers |->
            CASE request[p].step = "ended" -> Ended
              [] request[p].step # "idle" /\ p \in Messages \cup Manuals -> Ended
              [] OTHER -> NoRequest]
      /\ swept' = [s \in Sweeps |-> {}]
      /\ plan' = [r \in Rows |-> NoPlan]
      /\ echo' = [w \in Wires |->
            IF echo[w].step \in {"link", "insert"} THEN [step |-> "due", row |-> Nobody]
                                                   ELSE echo[w]]
  BY DEF Crash
<1>4. ASSUME NEW j \in again
      PROVE  retried(j) \in JobRecord /\ JobFits(retried(j)) /\ retried(j).step = "wait"
  <2>1. job[j] \in JobRecord /\ JobFits(job[j]) /\ job[j].step \in {"post", "update"}
    BY <1>1
  <2>2. /\ retried(j) \in JobRecord /\ retried(j).step = "wait"
        /\ retried(j).row = job[j].row /\ retried(j).left = job[j].left
    BY <2>1 DEF JobRecord
  <2> HIDE DEF retried
  <2> QED BY <2>1, <2>2 DEF JobFits
<1> HIDE DEF retried
<1>5. /\ job' \in [Jobs -> JobRecord]
      /\ \A j \in Jobs : job'[j] = job[j] \/ JobFits(job'[j])
      /\ \A j \in Jobs : job[j].step = "update" => job[j].wire \in lost'
  <2>1. \A j \in Jobs : job'[j] \in {job[j], NoJob, retried(j)} /\ (job'[j] = retried(j) => j \in again \/ job'[j] \in {job[j], NoJob})
    BY <1>2
  <2>2. NoJob \in JobRecord /\ JobFits(NoJob)
    BY FreeJob DEF JobFits
  <2>3. \A j \in Jobs : job[j].step = "update" => j \in holding
    OBVIOUS
  <2>4. \A j \in Jobs : job'[j] = job[j] \/ job'[j] = NoJob \/ (job'[j] = retried(j) /\ j \in again)
    BY <2>1
  <2>5. \A j \in Jobs : job'[j] \in JobRecord /\ (job'[j] = job[j] \/ JobFits(job'[j]))
    BY <1>1, <1>4, <2>2, <2>4
  <2> HIDE DEF again, gone, holding
  <2> QED BY <1>2, <2>3, <2>5
<1>6. \A j \in Jobs : job'[j] = job[j] \/ JobFits(job[j])'
  BY <1>1, <1>5 DEF JobFits, RowsStay, Exists, Posted
<1>7. /\ request' \in [Callers -> RequestRecord]
      /\ \A p \in Callers : request'[p].step \in {"idle", "ended"}
  BY <1>3, EmptyRequests
<1>8. /\ plan' \in [Rows -> PlanRecord] /\ \A r \in Rows : plan'[r].act = "none"
      /\ swept' \in [Sweeps -> SUBSET Rows]
  BY <1>3, EmptyPlan
<1> DEFINE due == [step |-> "due", row |-> Nobody]
<1>9. ASSUME NEW w \in Wires
      PROVE  /\ echo'[w] \in EchoRecord
             /\ echo'[w] = echo[w] \/ EchoFits(w, echo[w])'
  <2>1. due \in EchoRecord /\ echo[w] \in EchoRecord /\ EchoFits(w, echo[w])
    BY <1>1 DEF EchoRecord, TypeOK
  <2>2. echo'[w] = IF echo[w].step \in {"link", "insert"} THEN due ELSE echo[w]
    BY <1>3
  <2>3. CASE echo[w].step \in {"link", "insert"}
    <3>1. w \in Posted /\ ~Exists(w) /\ due.step = "due"
      BY <2>1, <2>3 DEF EchoFits
    <3>2. echo'[w] = due
      BY <2>2, <2>3
    <3>3. EchoFits(w, due)
      BY <3>1 DEF EchoFits
    <3> QED BY <1>1, <2>1, <3>1, <3>2 DEF EchoFits, RowsStay, Exists, Posted
  <2>4. CASE echo[w].step \notin {"link", "insert"}
    BY <2>1, <2>2, <2>4
  <2> QED BY <2>3, <2>4
<1>10. abandoned' \subseteq Rows
  <2>1. \A j \in gone : job[j].row \in Rows
    BY <1>1 DEF JobFits
  <2>2. \A p \in adding : request[p].row \in Rows
    BY <1>1 DEF RequestFits
  <2>3. abandoned \subseteq Rows
    BY <1>1 DEF TypeOK
  <2> HIDE DEF gone, adding
  <2> QED BY <1>2, <2>1, <2>2, <2>3
<1>11. lost' \subseteq Wires
  <2>1. \A j \in holding : job[j].wire \in Wires
    BY <1>1 DEF JobFits, Posted
  <2>2. lost \subseteq Wires
    BY <1>1 DEF TypeOK
  <2> HIDE DEF holding
  <2> QED BY <1>2, <2>1, <2>2
<1>12. echo' \in [Wires -> EchoRecord]
  BY <1>3, <1>9
<1>13. TypeOK'
  <2> HIDE DEF again, gone, adding, holding, due
  <2> QED BY <1>1, <1>5, <1>7, <1>8, <1>10, <1>11, <1>12 DEF TypeOK, RowsStay
<1>14. ASSUME NEW w \in Posted PROVE Remembered(w)'
  <2>1. Remembered(w) /\ lost \subseteq lost'
    BY <1>1, <1>2
  <2>2. CASE \E j \in Jobs : job[j].step = "update" /\ job[j].wire = w
    <3>1. w \in lost'
      BY <1>5, <2>2
    <3> QED BY <1>1, <2>1, <3>1 DEF Remembered, RowsStay
  <2>3. CASE w \in lost \/ wire[origin[w]] = w
    BY <1>1, <2>1, <2>3 DEF Remembered, RowsStay
  <2> QED BY <2>1, <2>2, <2>3 DEF Remembered
<1>15. /\ \A p \in Callers : RequestFits(request[p])'
       /\ \A r \in Rows : PlanFits(r, plan[r])'
       /\ \A s \in Sweeps : swept'[s] = {}
  BY <1>3, <1>7, <1>8 DEF RequestFits, PlanFits
<1> HIDE DEF again, gone, adding, holding, due
<1> QED BY <1>1, <1>6, <1>9, <1>13, <1>14, <1>15, RowsStayFramed

--------------------------------------------------------------------------------
(* The theorems.                                                              *)

LEMMA DeliveryInit ==
  Init => DeliveryInv
<1> SUFFICES ASSUME Init PROVE DeliveryInv
  OBVIOUS
<1>1. Posted = {}
  BY DEF Init, Posted
<1>2. /\ \A r \in Rows : status[r] = "none" /\ wire[r] = NoId /\ plan[r] = NoPlan
      /\ \A j \in Jobs : job[j] = NoJob
      /\ \A p \in Callers : request[p] = NoRequest
      /\ \A w \in Wires : echo[w] = NoEcho /\ w \in Rows
      /\ fresh = {} /\ \A s \in Sweeps : swept[s] = {}
      /\ \A w \in Wires : origin[w] = Nobody
  BY DEF Init, Rows
<1>3. TypeOK
  <2>1. /\ job \in [Jobs -> JobRecord] /\ request \in [Callers -> RequestRecord]
        /\ plan \in [Rows -> PlanRecord]
    BY FreeJob, EmptyRequests, EmptyPlan DEF Init
  <2>2. NoEcho \in EchoRecord
    BY DEF NoEcho, EchoRecord
  <2>3. echo \in [Wires -> EchoRecord]
    BY <2>2 DEF Init
  <2>4. /\ status \in [Rows -> RowStatus] /\ cause \in [Rows -> Causes]
        /\ text \in [Rows -> {Text[m] : m \in Messages} \cup {Nobody}]
    BY DEF Init, RowStatus, Causes
  <2> QED BY <1>2, <2>1, <2>3, <2>4 DEF Init, TypeOK
<1>4. PostedInOrder
  BY <1>1, <1>2, FS_EmptySet DEF PostedInOrder
<1>5. \A j \in Jobs : JobFits(job[j])
  BY <1>2, FreeJob DEF JobFits
<1>6. \A p \in Callers : RequestFits(request[p])
  BY <1>2, EmptyRequests DEF RequestFits
<1>7. \A r \in Rows : PlanFits(r, plan[r]) /\ RowFits(r)
  BY <1>2, EmptyPlan DEF PlanFits, RowFits
<1>8. \A w \in Wires : EchoFits(w, echo[w])
  BY <1>2 DEF EchoFits, NoEcho, Exists
<1> QED BY <1>1, <1>2, <1>3, <1>4, <1>5, <1>6, <1>7, <1>8 DEF DeliveryInv

LEMMA DeliveryStep ==
  DeliveryInv /\ [Next]_vars => DeliveryInv'
<1> SUFFICES ASSUME DeliveryInv, [Next]_vars PROVE DeliveryInv'
  OBVIOUS
<1>1. CASE Next
  <2>1. ASSUME NEW m \in Messages, Create(m) PROVE DeliveryInv'
    BY <2>1, CreateStep
  <2>2. ASSUME NEW p \in Manuals, ResendRequest(p) PROVE DeliveryInv'
    BY <2>2, RequestSteps DEF Callers
  <2>3. ASSUME NEW p \in Callers, Resend(p) \/ RequestThrows(p) PROVE DeliveryInv'
    BY <2>3, RequestSteps, ResendPutStep, EnqueueStep DEF Resend
  <2>4. ASSUME NEW j \in Jobs,
               Send(j) \/ Discard(j) \/ RecordThrows(j) \/ FailedWriteThrows(j)
        PROVE  DeliveryInv'
    BY <2>4, WorkerSteps, PostAcceptedStep, RecordStep, FailedWriteStep DEF Send
  <2>5. ASSUME NEW s \in Sweeps, Sweep(s) PROVE DeliveryInv'
    BY <2>5, SweepSteps
  <2>6. ASSUME NEW w \in Wires, Echo(w) \/ ServerMoves(w) \/ Ack(w) PROVE DeliveryInv'
    BY <2>6, EchoReadStep, EchoLinkStep, EchoInsertStep, ServerStep, AckStep DEF Echo
  <2>7. ASSUME Reconcile \/ ReconcileThrows PROVE DeliveryInv'
    BY <2>7, PlanSteps, ReconcileStatusStep, MarkStuckStep DEF Reconcile
  <2>8. ASSUME NEW r \in Rows, Ages(r) PROVE DeliveryInv'
    BY <2>8, AgesStep
  <2>9. CASE Crash
    BY <2>9, CrashStep
  <2> QED BY <1>1, <2>1, <2>2, <2>3, <2>4, <2>5, <2>6, <2>7, <2>8, <2>9 DEF Next
<1>2. CASE UNCHANGED vars
  <2>1. /\ UNCHANGED <<rows, job, request, swept, echo, crashes, gateway, history>>
        /\ plan' = plan
    BY <1>2 DEF vars, processes
  <2>2. plan \in [Rows -> PlanRecord]
    BY DEF DeliveryInv, TypeOK
  <2> QED BY <2>1, <2>2, PlanStep
<1> QED BY <1>1, <1>2

\* In every reachable state: what a row, a job, a request, a plan or an echo says
\* of a post is true of the gateway, and no post is forgotten but through lost.
THEOREM DeliveryInvariant == Spec => []DeliveryInv
<1> QED BY DeliveryInit, DeliveryStep, PTL DEF Spec

\* The records, counters and statuses keep their types, and no two rows of the
\* chat ever hold the same id of the gateway (the unique key of messages).
THEOREM RecordsKeepTheirTypes == Spec => []TypeOK
<1>1. DeliveryInv => TypeOK
  BY DEF DeliveryInv
<1> QED BY <1>1, DeliveryInvariant, PTL

\* A message the chat shows as sent or delivered was taken by the gateway, under
\* any sequence of resends, acks, echoes, failures and restarts.
THEOREM ShownWasTaken == Spec => []ShownReachedGateway
<1>1. DeliveryInv => ShownReachedGateway
  BY DEF DeliveryInv, ShownReachedGateway, RowFits, Rows
<1> QED BY <1>1, DeliveryInvariant, PTL

\* The queue worker alone takes a job from waiting to posting, and its guard has
\* seen a row that knows no post.
LEMMA PostsAfterGuard ==
  ASSUME DeliveryInv, Next, NEW j \in Jobs, job[j].step = "wait", job'[j].step = "post"
  PROVE  ~AlreadySent(job[j].row)
<1>1. job \in [Jobs -> JobRecord] /\ job' # job
  BY DEF DeliveryInv, TypeOK
<1>2. \A i \in Jobs, x \in JobRecord :
         job' = [job EXCEPT ![i] = x] /\ x.step # "post" => job'[j].step # "post"
  BY <1>1
<1>3. ASSUME NEW i \in Jobs, Attempt(i) PROVE ~AlreadySent(job[j].row)
  <2>1. CASE i = j
    BY <1>2, <1>3, <2>1, FreeJob DEF Attempt, Free
  <2>2. CASE i # j
    BY <1>1, <1>3, <2>2 DEF Attempt, Free
  <2> QED BY <2>1, <2>2
<1>4. ASSUME NEW i \in Jobs, Send(i), ~Attempt(i) PROVE FALSE
  <2>1. CASE FailedWrite(i)
    BY <1>2, <2>1, FreeJob DEF FailedWrite, Free
  <2>2. CASE FailedRead(i)
    BY <1>1, <2>2 DEF FailedRead, JobRecord
  <2>3. CASE PostRefused(i)
    BY <1>1, <2>3 DEF PostRefused, Fail, JobRecord
  <2>4. CASE PostAccepted(i)
    BY <1>1, <2>4 DEF PostAccepted, Fail, JobRecord
  <2>5. CASE Record(i)
    BY <1>1, <2>5, FreeJob DEF Record, Fail, Free, JobRecord
  <2> QED BY <1>4, <2>1, <2>2, <2>3, <2>4, <2>5 DEF Send
<1>5. ASSUME NEW i \in Jobs, Discard(i) \/ RecordThrows(i) \/ FailedWriteThrows(i) PROVE FALSE
  <2>1. CASE RecordThrows(i)
    BY <1>1, <2>1 DEF RecordThrows, Fail, JobRecord
  <2> QED BY <1>2, <1>5, <2>1, FreeJob DEF Discard, FailedWriteThrows, Free
<1>6. ASSUME NEW p \in Callers, Resend(p) \/ RequestThrows(p) PROVE FALSE
  <2>1. Enqueue(p)
    BY <1>1, <1>6 DEF Resend, RequestThrows, ResendRead, ResendPut
  <2> QED BY <1>1, <2>1, FreeJob DEF Enqueue, JobRecord
<1>7. ASSUME Crash PROVE FALSE
  BY <1>1, <1>7, FreeJob DEF Crash, JobRecord
<1>8. ASSUME NEW w \in Wires, Echo(w) \/ ServerMoves(w) \/ Ack(w) PROVE FALSE
  BY <1>1, <1>8 DEF Echo, EchoRead, EchoLink, EchoInsert, ServerMoves, Ack, processes
<1>9. ASSUME \/ Reconcile \/ ReconcileThrows
             \/ \E m \in Messages : Create(m)
             \/ \E p \in Manuals : ResendRequest(p)
             \/ \E s \in Sweeps : Sweep(s)
             \/ \E r \in Rows : Ages(r)
      PROVE  FALSE
  BY <1>1, <1>9 DEF Reconcile, ReconcileRead, ReconcileAsk, ReconcileStatus, MarkStuck,
     ReconcileThrows, Create, ResendRequest, Sweep, SweepRead, SweepNext, Ages, processes
<1> QED BY <1>3, <1>4, <1>5, <1>6, <1>7, <1>8, <1>9 DEF Next

\* A message is posted again only when its row does not know an earlier post for
\* one of the reasons lost names, or while another job of the row is posting.
THEOREM RepeatsAreForgottenPosts == Spec => NoSilentDuplicate
<1> DEFINE Step == \A j \in Jobs : job[j].step = "wait" /\ job'[j].step = "post" =>
                      LET r == job[j].row
                      IN  PostsOf(r) = {} \/ PostsOf(r) \cap lost # {} \/ Busy(r) # {}
<1>1. ASSUME DeliveryInv, Next PROVE Step
  <2>1. SUFFICES ASSUME NEW j \in Jobs, job[j].step = "wait", job'[j].step = "post",
                        NEW w \in PostsOf(job[j].row), w \notin lost
                 PROVE  Busy(job[j].row) # {}
    OBVIOUS
  <2>2. PICK r : r = job[j].row
    OBVIOUS
  <2>3. /\ r \in Rows /\ w \in Wires /\ origin[w] = r /\ r # Nobody
    BY <1>1, <2>1, <2>2, ParameterAssumption DEF DeliveryInv, JobFits, PostsOf
  <2>4. w \in Posted /\ Remembered(w) /\ w # NoId
    BY <1>1, <2>3 DEF DeliveryInv, PostedInOrder, Wires, NoId
  <2>5. wire[r] = NoId
    BY <1>1, <2>1, <2>2, PostsAfterGuard DEF AlreadySent
  <2>6. PICK i \in Jobs : job[i].step = "update" /\ job[i].wire = w
    BY <2>1, <2>3, <2>4, <2>5 DEF Remembered
  <2>7. job[i].row = r
    BY <1>1, <2>3, <2>6 DEF DeliveryInv, JobFits
  <2> QED BY <2>2, <2>6, <2>7 DEF Busy
<1>2. DeliveryInv /\ [Next]_vars => [Step]_vars
  BY <1>1
<1> HIDE DEF Step
<1>3. Spec => [][Step]_vars
  BY <1>2, DeliveryInvariant, PTL DEF Spec
<1> QED BY <1>3 DEF Step, NoSilentDuplicate

--------------------------------------------------------------------------------
(* The contract: what a step does to the attempts, the posts they hold and the *)
(* memory of the rows.                                                         *)

Under(j) == job[j].step \in {"post", "update"}
AtOf(j) == IF Under(j) THEN job[j].row ELSE Nobody
HoldOf(j) == IF job[j].step = "update" THEN job[j].wire ELSE NoId
Memory == {w \in Wires : origin[w] # Nobody /\ wire[origin[w]] = w}

\* The step leaves what the contract sees of a job alone.
Untouched(j) == AtOf(j)' = AtOf(j) /\ HoldOf(j)' = HoldOf(j)

\* A job that changed, and neither was nor is at the gateway.
LEMMA UntouchedJobs ==
  ASSUME NEW j \in Jobs, \/ job'[j] = job[j]
                         \/ /\ job[j].step \notin {"post", "update"}
                            /\ job'[j].step \notin {"post", "update"}
  PROVE  Untouched(j)
BY DEF Untouched, AtOf, HoldOf, Under

\* Attempts end, and neither rows nor posts change.
LEMMA ContractEnds ==
  ASSUME NEW js \in SUBSET Jobs, UNCHANGED <<wire, origin>>,
         \A j \in js : job'[j].step \notin {"post", "update"},
         \A j \in Jobs \ js : Untouched(j)
  PROVE  Contract!Next
<1>1. Contract!End(js)
  BY DEF Contract!End, Untouched, AtOf, HoldOf, Under
<1> QED BY <1>1 DEF Contract!Next

LEMMA ContractRests ==
  ASSUME UNCHANGED <<wire, origin>>, \A j \in Jobs : Untouched(j)
  PROVE  Contract!Next
<1>1. Contract!End({})
  BY DEF Contract!End, Untouched, AtOf, HoldOf, Under
<1> QED BY <1>1 DEF Contract!Next

\* One row's id changes.
LEMMA ContractRevises ==
  ASSUME TypeOK, NEW r \in Rows, NEW id \in Wires \cup {NoId},
         wire' = [wire EXCEPT ![r] = id], UNCHANGED <<origin, job>>
  PROVE  Contract!Next
<1>1. Memory' = (Memory \ {w \in Wires : origin[w] = r}) \cup ({id} \cap {w \in Wires : origin[w] = r})
  BY ParameterAssumption DEF Memory, TypeOK
<1>2. Contract!Memory(r, id)
  BY <1>1 DEF Contract!Memory, Contract!PostsFor, Memory
<1>3. Contract!Revise(r)
  BY <1>2 DEF Contract!Revise
<1> QED BY <1>3 DEF Contract!Next

LEMMA ContractTries ==
  ASSUME DeliveryInv, NEW j \in Jobs, Attempt(j)
  PROVE  Contract!Next
<1>1. PICK r : r = job[j].row
  OBVIOUS
<1>2. r \in Rows /\ job \in [Jobs -> JobRecord]
  BY <1>1 DEF DeliveryInv, JobFits, Attempt, TypeOK
<1>3. CASE AlreadySent(r)
  <2>1. \A i \in Jobs : Untouched(i)
    BY <1>1, <1>2, <1>3, FreeJob, UntouchedJobs DEF Attempt, Free
  <2> QED BY <2>1, ContractRests DEF Attempt, rows, gateway
<1>4. CASE ~AlreadySent(r)
  <2>1. job' = [job EXCEPT ![j] = [@ EXCEPT !.step = "post"]] /\ UNCHANGED <<wire, origin>>
    BY <1>1, <1>4 DEF Attempt, rows, gateway
  <2>2. AtOf(j) = Nobody /\ AtOf(j)' = r /\ HoldOf(j)' = HoldOf(j)
    BY <1>1, <1>2, <2>1 DEF AtOf, HoldOf, Under, Attempt, JobRecord
  <2>3. \A i \in Jobs \ {j} : Untouched(i)
    BY <1>2, <2>1, UntouchedJobs
  <2>4. \A w \in Memory : origin[w] # r
    BY <1>2, <1>4 DEF Memory, AlreadySent, Wires, NoId
  <2>5. Contract!Try(j, r)
    <3>1. Memory \cap {w \in Wires : origin[w] = r} = {}
      BY <2>4
    <3>2. [i \in Jobs |-> AtOf(i)]' = [[i \in Jobs |-> AtOf(i)] EXCEPT ![j] = r]
      BY <2>2, <2>3 DEF Untouched
    <3>3. [i \in Jobs |-> HoldOf(i)]' = [i \in Jobs |-> HoldOf(i)]
      BY <2>2, <2>3 DEF Untouched
    <3>4. Memory' = Memory
      BY <2>1 DEF Memory
    <3> QED BY <2>1, <2>2, <3>1, <3>2, <3>3, <3>4
         DEF Contract!Try, Contract!PostsFor, AtOf, HoldOf, Under, Memory
  <2> QED BY <1>2, <2>5 DEF Contract!Next
<1> QED BY <1>3, <1>4

LEMMA ContractAccepts ==
  ASSUME DeliveryInv, NEW j \in Jobs, PostAccepted(j)
  PROVE  Contract!Next
<1> DEFINE w == Cardinality(Posted) + 1
<1>1. PICK r : r = job[j].row
  OBVIOUS
<1>2. r \in Rows /\ job \in [Jobs -> JobRecord] /\ r # Nobody /\ origin \in [Wires -> Rows \cup {Nobody}]
  BY <1>1, ParameterAssumption DEF DeliveryInv, JobFits, PostAccepted, TypeOK
<1>3. w \in Wires /\ w \notin Posted /\ origin[w] = Nobody /\ w # NoId
  <2>1. /\ Cardinality(Posted) < MaxWires
        /\ server' = [server EXCEPT ![w] = "SENT"]
        /\ origin' = [origin EXCEPT ![w] = r]
    BY <1>1 DEF PostAccepted
  <2>2. TypeOK /\ PostedInOrder
    BY DEF DeliveryInv
  <2> HIDE DEF w
  <2>3. w \in Wires /\ w \notin Posted
    BY <2>1, <2>2, NextPost DEF w
  <2> QED BY <2>2, <2>3, ParameterAssumption DEF PostedInOrder, Wires, NoId
<1>4. PICK v \in Wires : v = w
  BY <1>3
<1>5. origin' = [origin EXCEPT ![v] = r] /\ wire' = wire
  BY <1>1, <1>4 DEF PostAccepted
<1>6. \A i \in Jobs \ {j} : Untouched(i)
  BY <1>2, UntouchedJobs DEF PostAccepted, Fail
<1>7. AtOf(j) = r /\ HoldOf(j) = NoId
  BY <1>1 DEF AtOf, HoldOf, Under, PostAccepted
<1>8. \/ AtOf(j)' = r /\ HoldOf(j)' = v
      \/ AtOf(j)' = Nobody /\ HoldOf(j)' = NoId
  BY <1>1, <1>2, <1>4 DEF AtOf, HoldOf, Under, PostAccepted, Fail, JobRecord
<1>9. Memory' = Memory
  <2>1. wire[r] # v
    BY <1>2, <1>3, <1>4 DEF DeliveryInv, RowFits
  <2> QED BY <1>2, <1>3, <1>4, <1>5, <2>1 DEF Memory
<1>10. [i \in Jobs |-> AtOf(i)]' = [i \in Jobs |-> IF i = j THEN AtOf(j)' ELSE AtOf(i)]
  BY <1>6 DEF Untouched
<1>11. [i \in Jobs |-> HoldOf(i)]' = [i \in Jobs |-> IF i = j THEN HoldOf(j)' ELSE HoldOf(i)]
  BY <1>6 DEF Untouched
<1>12. \/ /\ [i \in Jobs |-> AtOf(i)]' = [i \in Jobs |-> AtOf(i)]
          /\ [i \in Jobs |-> HoldOf(i)]' = [[i \in Jobs |-> HoldOf(i)] EXCEPT ![j] = v]
       \/ /\ [i \in Jobs |-> AtOf(i)]' = [[i \in Jobs |-> AtOf(i)] EXCEPT ![j] = Nobody]
          /\ [i \in Jobs |-> HoldOf(i)]' = [i \in Jobs |-> HoldOf(i)]
  <2> DEFINE A == [i \in Jobs |-> AtOf(i)]
             H == [i \in Jobs |-> HoldOf(i)]
  <2>1. AtOf(j)' = AtOf(j) => A' = A
    BY <1>10
  <2>2. HoldOf(j)' = HoldOf(j) => H' = H
    BY <1>11
  <2>3. AtOf(j)' = Nobody => A' = [A EXCEPT ![j] = Nobody]
    BY <1>10
  <2>4. HoldOf(j)' = v => H' = [H EXCEPT ![j] = v]
    BY <1>11
  <2> QED BY <1>7, <1>8, <2>1, <2>2, <2>3, <2>4
<1>13. Contract!Accept(j, v)
  BY <1>2, <1>3, <1>4, <1>5, <1>7, <1>9, <1>12
     DEF Contract!Accept, AtOf, HoldOf, Under, Memory
<1> QED BY <1>13 DEF Contract!Next

LEMMA ContractReports ==
  ASSUME DeliveryInv, NEW j \in Jobs, Record(j)
  PROVE  Contract!Next
<1>1. PICK r, id : r = job[j].row /\ id = job[j].id
  OBVIOUS
<1>2. /\ r \in Rows /\ job \in [Jobs -> JobRecord] /\ wire \in [Rows -> Wires \cup {NoId}]
      /\ job[j].step = "update" /\ id \in {job[j].wire, NoId} /\ job[j].wire \in Wires
      /\ job[j].wire # NoId /\ origin[job[j].wire] = r /\ r # Nobody
  BY <1>1, ParameterAssumption
     DEF DeliveryInv, JobFits, Record, TypeOK, Posted, Wires, NoId
<1>3. UNCHANGED origin
  BY DEF Record, gateway
<1>4. \A i \in Jobs \ {j} : Untouched(i)
  BY <1>2, UntouchedJobs DEF Record, Fail, Free
<1>5. job'[j].step \notin {"post", "update"}
  <2>1. CASE Fail(j, "other")
    BY <1>2, <2>1 DEF Fail, JobRecord
  <2>2. CASE Free(j)
    BY <1>2, <2>2, FreeJob DEF Free
  <2> QED BY <2>1, <2>2 DEF Record
<1>6. CASE Taken(r, id)
  <2>1. UNCHANGED wire
    BY <1>1, <1>6 DEF Record
  <2>2. {j} \in SUBSET Jobs
    OBVIOUS
  <2>3. Contract!End({j})
    BY <1>3, <1>4, <1>5, <2>1 DEF Contract!End, Untouched, AtOf, HoldOf, Under
  <2> QED BY <2>2, <2>3 DEF Contract!Next
<1>7. CASE ~Taken(r, id)
  <2>1. wire' = [wire EXCEPT ![r] = id]
    BY <1>1, <1>7 DEF Record
  <2>2. Memory' = (Memory \ {w \in Wires : origin[w] = r}) \cup ({id} \cap {w \in Wires : origin[w] = r})
    BY <1>2, <1>3, <2>1 DEF Memory
  <2>3. AtOf(j) = r /\ HoldOf(j) = job[j].wire /\ AtOf(j)' = Nobody /\ HoldOf(j)' = NoId
    BY <1>1, <1>2, <1>5 DEF AtOf, HoldOf, Under
  <2>4. [i \in Jobs |-> AtOf(i)]' = [[i \in Jobs |-> AtOf(i)] EXCEPT ![j] = Nobody]
    BY <1>4, <2>3 DEF Untouched
  <2>5. [i \in Jobs |-> HoldOf(i)]' = [[i \in Jobs |-> HoldOf(i)] EXCEPT ![j] = NoId]
    BY <1>4, <2>3 DEF Untouched
  <2>6. Contract!Memory(r, id)
    BY <2>2 DEF Contract!Memory, Contract!PostsFor, Memory
  <2>7. Contract!Report(j)
    BY <1>2, <1>3, <2>3, <2>4, <2>5, <2>6 DEF Contract!Report, AtOf, HoldOf, Under
  <2> QED BY <2>7 DEF Contract!Next
<1> QED BY <1>6, <1>7

\* The queue's steps that neither begin nor settle an attempt, and those that end
\* one without a word to its row.
LEMMA ContractWorks ==
  ASSUME DeliveryInv, NEW j \in Jobs,
         \/ PostRefused(j) \/ RecordThrows(j) \/ Discard(j)
         \/ FailedRead(j) \/ FailedWrite(j) \/ FailedWriteThrows(j)
  PROVE  Contract!Next
<1>1. job \in [Jobs -> JobRecord]
  BY DEF DeliveryInv, TypeOK
<1>2. UNCHANGED <<wire, origin>>
  BY DEF PostRefused, RecordThrows, Discard, FailedRead, FailedWrite, FailedWriteThrows,
     rows, gateway
<1>3. \A i \in Jobs \ {j} : Untouched(i)
  BY <1>1, UntouchedJobs DEF PostRefused, RecordThrows, Discard, FailedRead, FailedWrite,
     FailedWriteThrows, Fail, Free
<1>4. job'[j].step \notin {"post", "update"}
  <2>1. ASSUME NEW why \in Causes, Fail(j, why) PROVE job'[j].step \notin {"post", "update"}
    BY <1>1, <2>1 DEF Fail, JobRecord
  <2>2. CASE PostRefused(j) \/ RecordThrows(j)
    BY <2>1, <2>2 DEF PostRefused, RecordThrows, Causes
  <2>3. CASE FailedRead(j)
    BY <1>1, <2>3 DEF FailedRead, JobRecord
  <2>4. CASE Free(j)
    BY <1>1, <2>4, FreeJob DEF Free
  <2> QED BY <2>2, <2>3, <2>4 DEF Discard, FailedWrite, FailedWriteThrows
<1>5. Contract!End({j})
  BY <1>2, <1>3, <1>4 DEF Contract!End, Untouched, AtOf, HoldOf, Under
<1>6. {j} \in SUBSET Jobs
  OBVIOUS
<1> QED BY <1>5, <1>6 DEF Contract!Next

\* A restart ends every attempt, and the rows keep what they know.
LEMMA ContractCrashes ==
  ASSUME DeliveryInv, Crash
  PROVE  Contract!Next
<1> DEFINE running == {j \in Jobs : Under(j)}
<1>1. job \in [Jobs -> JobRecord] /\ UNCHANGED <<wire, origin>>
  BY DEF DeliveryInv, TypeOK, Crash, rows, gateway
<1>2. \A j \in running : job'[j].step \notin {"post", "update"}
  BY <1>1, FreeJob DEF Crash, Under, JobRecord
<1>3. \A j \in Jobs \ running : Untouched(j)
  <2>1. SUFFICES ASSUME NEW j \in Jobs, ~Under(j) PROVE Untouched(j)
    OBVIOUS
  <2>2. job'[j] = job[j] \/ job'[j] = NoJob
    BY <1>1, <2>1 DEF Crash, Under
  <2> QED BY <2>1, <2>2, FreeJob, UntouchedJobs DEF Under
<1> HIDE DEF running
<1>4. running \in SUBSET Jobs
  BY DEF running
<1> QED BY <1>1, <1>2, <1>3, <1>4, ContractEnds

\* A resend and its job in the queue, which has still to begin.
LEMMA ContractQueues ==
  ASSUME DeliveryInv, NEW p \in Callers, Resend(p) \/ RequestThrows(p)
  PROVE  Contract!Next
<1>1. job \in [Jobs -> JobRecord]
  BY DEF DeliveryInv, TypeOK
<1>2. UNCHANGED <<wire, origin>>
  BY DEF Resend, ResendRead, ResendPut, Enqueue, RequestThrows, rows, gateway
<1>3. CASE Enqueue(p)
  <2>1. PICK j \in Jobs : /\ job[j].step = "free"
                          /\ job' = [job EXCEPT ![j] =
                                [NoJob EXCEPT !.row = request[p].row, !.step = "wait", !.left = Attempts]]
    BY <1>3 DEF Enqueue
  <2>2. \A i \in Jobs : Untouched(i)
    BY <1>1, <2>1, UntouchedJobs DEF NoJob
  <2> QED BY <1>2, <2>2, ContractRests
<1>4. CASE UNCHANGED job
  BY <1>2, <1>4, UntouchedJobs, ContractRests
<1> QED BY <1>3, <1>4 DEF Resend, ResendRead, ResendPut, RequestThrows

LEMMA ContractEchoes ==
  ASSUME DeliveryInv, NEW w \in Wires, Echo(w)
  PROVE  Contract!Next
<1>1. TypeOK /\ UNCHANGED <<origin, job>>
  BY DEF DeliveryInv, Echo, EchoRead, EchoLink, EchoInsert, gateway
<1>2. CASE UNCHANGED wire
  BY <1>1, <1>2, UntouchedJobs, ContractRests
<1>3. CASE EchoLink(w) /\ ~Taken(echo[w].row, w)
  <2>1. echo[w].row \in Rows /\ wire' = [wire EXCEPT ![echo[w].row] = w]
    BY <1>3 DEF DeliveryInv, EchoFits, EchoLink
  <2>2. PICK r \in Rows : r = echo[w].row
    BY <2>1
  <2> QED BY <1>1, <2>1, <2>2, ContractRevises
<1>4. CASE EchoInsert(w) /\ Linked(w) = {}
  <2>1. w \in Rows /\ wire' = [wire EXCEPT ![w] = w]
    BY <1>4 DEF EchoInsert, Rows
  <2> QED BY <1>1, <2>1, ContractRevises
<1> QED BY <1>2, <1>3, <1>4 DEF Echo, EchoRead, EchoLink, EchoInsert, rows

LEMMA ContractReconciles ==
  ASSUME DeliveryInv, Reconcile \/ ReconcileThrows
  PROVE  Contract!Next
<1>1. TypeOK /\ UNCHANGED <<origin, job>>
  BY DEF DeliveryInv, Reconcile, ReconcileRead, ReconcileAsk, ReconcileThrows,
     ReconcileStatus, MarkStuck, gateway
<1>2. CASE UNCHANGED wire
  BY <1>1, <1>2, UntouchedJobs, ContractRests
<1>3. ASSUME NEW r \in Rows, MarkStuck(r) PROVE Contract!Next
  <2>1. wire' = [wire EXCEPT ![r] = NoId]
    BY <1>3 DEF MarkStuck
  <2> QED BY <1>1, <2>1, ContractRevises
<1> QED BY <1>2, <1>3 DEF Reconcile, ReconcileRead, ReconcileAsk, ReconcileThrows,
     ReconcileStatus, rows

LEMMA ContractInit ==
  ASSUME Init
  PROVE  Contract!Init
BY ParameterAssumption DEF Init, Contract!Init, NoJob, Rows, Wires, NoId

LEMMA ContractStep ==
  ASSUME DeliveryInv, Next
  PROVE  Contract!Next
<1>1. ASSUME NEW j \in Jobs, Send(j) \/ Discard(j) \/ RecordThrows(j) \/ FailedWriteThrows(j)
      PROVE  Contract!Next
  BY <1>1, ContractTries, ContractAccepts, ContractReports, ContractWorks DEF Send
<1>2. CASE UNCHANGED <<wire, origin, job>>
  BY <1>2, UntouchedJobs, ContractRests
<1>3. ASSUME \/ \E m \in Messages : Create(m)
             \/ \E p \in Manuals : ResendRequest(p)
             \/ \E s \in Sweeps : Sweep(s)
             \/ \E w \in Wires : ServerMoves(w) \/ Ack(w)
             \/ \E r \in Rows : Ages(r)
      PROVE  UNCHANGED <<wire, origin, job>>
  BY <1>3 DEF Create, ResendRequest, Sweep, SweepRead, SweepNext, ServerMoves, Ack, Ages,
     rows, processes, gateway
<1> QED BY <1>1, <1>2, <1>3, ContractQueues, ContractEchoes, ContractReconciles,
     ContractCrashes DEF Next

\* The queue, the sweep, the reconciler and the webhooks implement the contract, for
\* any messages, jobs, callers, posts and restarts.
THEOREM ContractKept == Spec => KeepsContract
<1>1. Init => Contract!Init
  BY ContractInit
<1>2. DeliveryInv /\ [Next]_vars => [Contract!Next]_Contract!contract
  <2>1. ASSUME UNCHANGED vars PROVE UNCHANGED Contract!contract
    BY <2>1 DEF vars, rows, processes, gateway, Contract!contract
  <2> QED BY <2>1, ContractStep
<1> QED BY <1>1, <1>2, DeliveryInvariant, PTL DEF Spec, KeepsContract, Contract!Spec

--------------------------------------------------------------------------------
(* Nobody waits in vain: a pending row that no id and no note of abandonment   *)
(* explains has a job, or a request about to queue one.  Nothing in the code   *)
(* looks for pending rows, so that a row left out here would stay so.          *)

\* The request of a new message is about that message.
OwnRequests ==
    \A m \in Messages : request[m].step \in {"read", "put", "add"} => request[m].row = m

\* A job moves on: it goes on carrying its row, or the row is settled.
LEMMA JobMovesCarried ==
  ASSUME DeliveryInv, PendingIsCarried, NEW j \in Jobs, NEW x, NEW q, q = job[j].row,
         job' = [job EXCEPT ![j] = x], UNCHANGED request,
         (x.row = q /\ x.step # "free") \/ ~Unsettled(q)',
         \A r \in Rows \ {q} : Unsettled(r)' => Unsettled(r)
  PROVE  PendingIsCarried'
<1> SUFFICES ASSUME NEW r \in Rows, Unsettled(r)'
             PROVE  CarriedByJob(r)' \/ CarriedByRequest(r)'
  BY DEF PendingIsCarried
<1>0. job'[j] = x /\ \A i \in Jobs : i # j => job'[i] = job[i]
  BY DEF DeliveryInv, TypeOK
<1>1. CASE r = q
  BY <1>0, <1>1 DEF CarriedByJob, Carries
<1>2. CASE r # q
  <2>1. CarriedByJob(r) \/ CarriedByRequest(r)
    BY <1>2 DEF PendingIsCarried
  <2>2. CASE CarriedByJob(r)
    BY <1>0, <1>2, <2>2 DEF CarriedByJob, Carries
  <2>3. CASE CarriedByRequest(r)
    BY <2>3 DEF CarriedByRequest
  <2> QED BY <2>1, <2>2, <2>3
<1> QED BY <1>1, <1>2

\* A request moves on: it is about to queue its row, or it was not.
LEMMA RequestMovesCarried ==
  ASSUME DeliveryInv, PendingIsCarried, NEW p \in Callers, NEW x,
         request' = [request EXCEPT ![p] = x], UNCHANGED job,
         \A r \in Rows : Unsettled(r)' =>
            \/ x.row = r /\ x.step = "add"
            \/ Unsettled(r) /\ ~(request[p].row = r /\ request[p].step = "add")
  PROVE  PendingIsCarried'
<1> SUFFICES ASSUME NEW r \in Rows, Unsettled(r)'
             PROVE  CarriedByJob(r)' \/ CarriedByRequest(r)'
  BY DEF PendingIsCarried
<1>0. request'[p] = x /\ \A q \in Callers : q # p => request'[q] = request[q]
  BY DEF DeliveryInv, TypeOK
<1>1. CASE x.row = r /\ x.step = "add"
  BY <1>0, <1>1 DEF CarriedByRequest
<1>2. CASE Unsettled(r) /\ ~(request[p].row = r /\ request[p].step = "add")
  <2>1. CarriedByJob(r) \/ CarriedByRequest(r)
    BY <1>2 DEF PendingIsCarried
  <2>2. CASE CarriedByJob(r)
    BY <2>2 DEF CarriedByJob, Carries
  <2>3. CASE CarriedByRequest(r)
    BY <1>0, <1>2, <2>3 DEF CarriedByRequest
  <2> QED BY <2>1, <2>2, <2>3
<1> QED BY <1>1, <1>2

\* Nobody who carries a row moves.
LEMMA RestCarried ==
  ASSUME PendingIsCarried, UNCHANGED <<job, request>>,
         \A r \in Rows : Unsettled(r)' => Unsettled(r)
  PROVE  PendingIsCarried'
  BY DEF PendingIsCarried, CarriedByJob, Carries, CarriedByRequest

LEMMA WorkerCarried ==
  ASSUME DeliveryInv, PendingIsCarried, NEW j \in Jobs,
         Send(j) \/ Discard(j) \/ RecordThrows(j) \/ FailedWriteThrows(j)
  PROVE  PendingIsCarried'
<1> USE DEF Unsettled
<1>0. job[j].step # "free" => job[j].row \in Rows
  BY DEF DeliveryInv, JobFits
<1>t. /\ status \in [Rows -> RowStatus] /\ wire \in [Rows -> Wires \cup {NoId}]
      /\ job \in [Jobs -> JobRecord] /\ job[j] \in JobRecord
  BY DEF DeliveryInv, TypeOK
<1>f. ASSUME NEW why, Fail(j, why), UNCHANGED <<status, wire, request, abandoned>>
      PROVE  PendingIsCarried'
  <2> DEFINE x == [job[j] EXCEPT !.step = IF job[j].left > 1 THEN "wait" ELSE "failed",
                                 !.left = job[j].left - 1, !.cause = why]
  <2>1. job' = [job EXCEPT ![j] = x]
    BY <1>f DEF Fail
  <2>2. x.row = job[j].row /\ x.step # "free"
    BY <1>t DEF JobRecord
  <2> HIDE DEF x
  <2> QED BY <1>f, <2>1, <2>2, JobMovesCarried
<1>g. ASSUME NEW q, q = job[j].row, Free(j), ~Unsettled(q)', UNCHANGED request,
             \A r \in Rows \ {q} : Unsettled(r)' => Unsettled(r)
      PROVE  PendingIsCarried'
  BY <1>g, JobMovesCarried DEF Free
<1>h. ASSUME NEW x, job' = [job EXCEPT ![j] = x], x.row = job[j].row, x.step # "free",
             UNCHANGED <<status, wire, request, abandoned>>
      PROVE  PendingIsCarried'
  BY <1>h, JobMovesCarried
<1>1. CASE Attempt(j)
  <2>1. CASE AlreadySent(job[j].row)
    <3>1. PICK q : q = job[j].row
      OBVIOUS
    <3>2. Free(j) /\ UNCHANGED <<status, wire, request, abandoned>>
      BY <1>1, <2>1 DEF Attempt, rows, history
    <3> QED BY <2>1, <3>1, <3>2, <1>g DEF AlreadySent
  <2>2. CASE ~AlreadySent(job[j].row)
    <3>1. job' = [job EXCEPT ![j] = [job[j] EXCEPT !.step = "post"]]
      BY <1>1, <2>2 DEF Attempt
    <3>2. [job[j] EXCEPT !.step = "post"].row = job[j].row
          /\ [job[j] EXCEPT !.step = "post"].step # "free"
      BY <1>t DEF JobRecord
    <3>3. UNCHANGED <<status, wire, request, abandoned>>
      BY <1>1 DEF Attempt, rows, history
    <3> QED BY <3>1, <3>2, <3>3, <1>h
  <2> QED BY <2>1, <2>2
<1>2. CASE PostAccepted(j)
  <2>0. UNCHANGED <<status, wire, request, abandoned>>
    BY <1>2 DEF PostAccepted
  <2>1. CASE Fail(j, "other")
    BY <2>0, <2>1, <1>f
  <2>2. CASE \E id : job' = [job EXCEPT ![j] =
                  [job[j] EXCEPT !.step = "update", !.wire = Cardinality(Posted) + 1, !.id = id]]
    <3>1. PICK id : job' = [job EXCEPT ![j] =
                  [job[j] EXCEPT !.step = "update", !.wire = Cardinality(Posted) + 1, !.id = id]]
      BY <2>2
    <3> DEFINE x == [job[j] EXCEPT !.step = "update", !.wire = Cardinality(Posted) + 1, !.id = id]
    <3>2. x.row = job[j].row /\ x.step # "free"
      BY <1>t DEF JobRecord
    <3> HIDE DEF x
    <3> QED BY <2>0, <3>1, <3>2, <1>h DEF x
  <2> QED BY <1>2, <2>1, <2>2 DEF PostAccepted
<1>3. CASE PostRefused(j)
  BY <1>3, <1>f DEF PostRefused, rows, history
<1>4. CASE Record(j)
  <2>0. PICK r \in Rows : r = job[j].row
    BY <1>0, <1>4 DEF Record
  <2>3. UNCHANGED <<request, abandoned>>
    BY <1>4 DEF Record
  <2>1. CASE Taken(r, job[j].id)
    BY <1>4, <2>0, <2>3, <2>1, <1>f DEF Record
  <2>2. CASE ~Taken(r, job[j].id)
    <3>1. /\ status' = [status EXCEPT ![r] = "SENT"] /\ wire' = [wire EXCEPT ![r] = job[j].id]
          /\ Free(j)
      BY <1>4, <2>0, <2>2 DEF Record
    <3>2. status'[r] = "SENT"
          /\ \A q \in Rows : q # r => status'[q] = status[q] /\ wire'[q] = wire[q]
      BY <1>t, <2>0, <3>1
    <3>3. ~Unsettled(r)'
      BY <2>0, <3>2
    <3> QED BY <2>0, <2>3, <3>1, <3>2, <3>3, <1>g
  <2> QED BY <2>1, <2>2
<1>5. CASE RecordThrows(j)
  BY <1>5, <1>f DEF RecordThrows, rows
<1>6. CASE FailedRead(j)
  <2>1. PICK n : job' = [job EXCEPT ![j] = [job[j] EXCEPT !.step = "failing", !.n = n]]
    BY <1>6 DEF FailedRead
  <2> DEFINE x == [job[j] EXCEPT !.step = "failing", !.n = n]
  <2>2. x.row = job[j].row /\ x.step # "free"
    BY <1>t DEF JobRecord
  <2>3. UNCHANGED <<status, wire, request, abandoned>>
    BY <1>6 DEF FailedRead, rows, history
  <2> HIDE DEF x
  <2> QED BY <2>1, <2>2, <2>3, <1>h DEF x
<1>7. CASE FailedWrite(j)
  <2>3. PICK r \in Rows : r = job[j].row
    BY <1>0, <1>7 DEF FailedWrite
  <2>0. UNCHANGED <<request, abandoned, wire>> /\ Free(j)
        /\ status' = [status EXCEPT ![r] = "FAILED"]
    BY <2>3, <1>7 DEF FailedWrite, history
  <2>1. status'[r] = "FAILED" /\ \A q \in Rows : q # r => status'[q] = status[q]
    BY <1>t, <2>0
  <2>2. ~Unsettled(r)'
    BY <2>0, <2>1
  <2> QED BY <2>0, <2>1, <2>2, <2>3, <1>g
<1>8. CASE Discard(j) \/ FailedWriteThrows(j)
  <2>1. PICK q : q = job[j].row
    OBVIOUS
  <2>2. Free(j) /\ UNCHANGED <<status, wire, request>> /\ abandoned' = abandoned \cup {q}
    BY <1>8, <2>1 DEF Discard, FailedWriteThrows, rows
  <2> QED BY <2>1, <2>2, <1>g
<1> QED BY <1>1, <1>2, <1>3, <1>4, <1>5, <1>6, <1>7, <1>8 DEF Send

LEMMA RequestCarried ==
  ASSUME DeliveryInv, PendingIsCarried, NEW p \in Callers,
         ResendRead(p) \/ ResendPut(p) \/ RequestThrows(p)
  PROVE  PendingIsCarried'
<1> USE DEF Unsettled
<1>t. /\ status \in [Rows -> RowStatus] /\ wire \in [Rows -> Wires \cup {NoId}]
      /\ request \in [Callers -> RequestRecord] /\ request[p] \in RequestRecord
  BY DEF DeliveryInv, TypeOK
<1>u. UNCHANGED <<job, wire>>
  BY DEF ResendRead, ResendPut, RequestThrows, rows
<1>1. CASE ResendRead(p)
  <2>1. PICK x : request' = [request EXCEPT ![p] = x]
    BY <1>1 DEF ResendRead, Return
  <2>2. request[p].step # "add" /\ UNCHANGED <<status, abandoned>>
    BY <1>1 DEF ResendRead, rows, history
  <2> QED BY <1>u, <2>1, <2>2, RequestMovesCarried
<1>2. CASE ResendPut(p)
  <2>1. PICK r \in Rows : r = request[p].row
    BY <1>2 DEF ResendPut, DeliveryInv, RequestFits
  <2> DEFINE x == [request[p] EXCEPT !.step = "add"]
  <2>2. request' = [request EXCEPT ![p] = x] /\ request[p].step = "put"
        /\ UNCHANGED abandoned /\ status' = [status EXCEPT ![r] = "PENDING"]
    BY <1>2, <2>1 DEF ResendPut, history
  <2>3. x.row = r /\ x.step = "add"
    BY <1>t, <2>1 DEF RequestRecord
  <2>4. \A q \in Rows \ {r} : status'[q] = status[q]
    BY <1>t, <2>2
  <2>5. \A q \in Rows \ {r} : Unsettled(q)' => Unsettled(q)
    BY <1>u, <2>2, <2>4
  <2> HIDE DEF x, Unsettled
  <2>6. \A q \in Rows : Unsettled(q)' =>
            \/ x.row = q /\ x.step = "add"
            \/ Unsettled(q) /\ ~(request[p].row = q /\ request[p].step = "add")
    BY <2>2, <2>3, <2>5
  <2>7. UNCHANGED job /\ request' = [request EXCEPT ![p] = x]
    BY <1>u, <2>2
  <2> QED BY <2>6, <2>7, RequestMovesCarried
<1>3. CASE RequestThrows(p)
  <2>1. PICK x : request' = [request EXCEPT ![p] = x]
    BY <1>3 DEF RequestThrows, Return
  <2>2. UNCHANGED status
    BY <1>3 DEF RequestThrows, rows
  <2>3. CASE request[p].step = "put"
    <3>1. UNCHANGED abandoned
      BY <1>3, <2>3 DEF RequestThrows
    <3> QED BY <1>u, <2>1, <2>2, <2>3, <3>1, RequestMovesCarried
  <2>4. CASE request[p].step = "add"
    <3>1. PICK r \in Rows : r = request[p].row
      BY <2>4 DEF DeliveryInv, RequestFits
    <3>2. abandoned' = abandoned \cup {r}
      BY <1>3, <2>4, <3>1 DEF RequestThrows
    <3> QED BY <1>u, <2>1, <2>2, <3>1, <3>2, RequestMovesCarried
  <2> QED BY <1>3, <2>3, <2>4 DEF RequestThrows
<1> QED BY <1>1, <1>2, <1>3

\* The job is there before the request forgets the row.
LEMMA EnqueueCarried ==
  ASSUME DeliveryInv, PendingIsCarried, NEW p \in Callers, Enqueue(p)
  PROVE  PendingIsCarried'
<1>1. PICK j \in Jobs : /\ job[j].step = "free"
                        /\ job' = [job EXCEPT ![j] = [NoJob EXCEPT !.row = request[p].row,
                                              !.step = "wait", !.left = Attempts]]
  BY DEF Enqueue
<1>2. PICK x : request' = [request EXCEPT ![p] = x]
  BY DEF Enqueue, Return
<1>3. /\ job'[j].row = request[p].row /\ job'[j].step = "wait"
      /\ \A i \in Jobs : i # j => job'[i] = job[i]
      /\ \A q \in Callers : q # p => request'[q] = request[q]
  BY <1>1, <1>2 DEF DeliveryInv, TypeOK, NoJob
<1>4. UNCHANGED <<status, wire, abandoned>>
  BY DEF Enqueue, rows, history
<1> SUFFICES ASSUME NEW r \in Rows, Unsettled(r)'
             PROVE  CarriedByJob(r)' \/ CarriedByRequest(r)'
  BY DEF PendingIsCarried
<1>5. CarriedByJob(r) \/ CarriedByRequest(r)
  BY <1>4 DEF PendingIsCarried, Unsettled
<1>6. CASE CarriedByJob(r)
  BY <1>1, <1>3, <1>6 DEF CarriedByJob, Carries
<1>7. CASE CarriedByRequest(r)
  BY <1>3, <1>7 DEF CarriedByJob, Carries, CarriedByRequest
<1> QED BY <1>5, <1>6, <1>7

LEMMA CreateCarried ==
  ASSUME DeliveryInv, PendingIsCarried, OwnRequests, NEW m \in Messages, Create(m)
  PROVE  PendingIsCarried'
<1> DEFINE x == [NoRequest EXCEPT !.row = m, !.step = "add"]
<1>1. m \in Rows /\ m \in Callers
  BY DEF Rows, Callers
<1>2. /\ request' = [request EXCEPT ![m] = x] /\ UNCHANGED <<job, wire, abandoned>>
      /\ status' = [status EXCEPT ![m] = "PENDING"]
  BY DEF Create, history
<1>3. x.row = m /\ x.step = "add"
  BY DEF NoRequest
<1>4. \A r \in Rows \ {m} : status'[r] = status[r]
  BY <1>2 DEF DeliveryInv, TypeOK
<1>5. ~(request[m].row = m /\ request[m].step = "add")
  BY <1>1 DEF Create, Exists, DeliveryInv, RequestFits
<1>6. \A r \in Rows \ {m} : Unsettled(r)' => Unsettled(r)
  BY <1>2, <1>4 DEF Unsettled
<1>7. ASSUME NEW r \in Rows \ {m} PROVE ~(request[m].row = r /\ request[m].step = "add")
  BY DEF OwnRequests
<1> HIDE DEF x
<1> QED BY <1>1, <1>2, <1>3, <1>6, <1>7, RequestMovesCarried

LEMMA RowsMoveCarried ==
  ASSUME DeliveryInv, PendingIsCarried,
         \/ \E s \in Sweeps : Sweep(s)
         \/ \E p \in Manuals : ResendRequest(p)
         \/ \E w \in Wires : Echo(w) \/ ServerMoves(w) \/ Ack(w)
         \/ Reconcile \/ ReconcileThrows
         \/ \E r \in Rows : Ages(r)
  PROVE  PendingIsCarried'
<1> USE DEF Unsettled
<1>t. /\ status \in [Rows -> RowStatus] /\ wire \in [Rows -> Wires \cup {NoId}]
      /\ request \in [Callers -> RequestRecord] /\ \A p \in Callers : request[p] \in RequestRecord
  BY DEF DeliveryInv, TypeOK
\* A caller with nothing under way asks for a row.
<1>a. ASSUME NEW p \in Callers, NEW r, Ask(p, r), request[p].step = "idle", UNCHANGED job,
             \A q \in Rows : Unsettled(q)' => Unsettled(q)
      PROVE  PendingIsCarried'
  BY <1>a, RequestMovesCarried DEF Ask
<1>1. CASE \E s \in Sweeps : Sweep(s)
  <2>1. PICK s \in Sweeps : Sweep(s)
    BY <1>1
  <2>2. s \in Callers
    BY DEF Callers
  <2>3. UNCHANGED <<job, status, wire, abandoned>>
    BY <2>1 DEF Sweep, SweepRead, SweepNext, rows, history
  <2>4. CASE SweepRead(s)
    BY <2>3, <2>4, RestCarried DEF SweepRead
  <2>5. CASE SweepNext(s)
    BY <2>2, <2>3, <2>5, <1>a DEF SweepNext
  <2> QED BY <2>1, <2>4, <2>5 DEF Sweep
<1>2. CASE \E p \in Manuals : ResendRequest(p)
  BY <1>2, <1>a DEF ResendRequest, Callers, rows, history
<1>3. CASE \E w \in Wires : Echo(w)
  <2>1. PICK w \in Wires : Echo(w)
    BY <1>3
  <2>2. UNCHANGED <<job, request, abandoned>>
    BY <2>1 DEF Echo, EchoRead, EchoLink, EchoInsert, history
  <2>3. CASE EchoLink(w) /\ wire' # wire
    <3>1. PICK r : wire' = [wire EXCEPT ![r] = w] /\ UNCHANGED status
      BY <2>3 DEF EchoLink
    <3>2. w # NoId
      BY DEF Wires, NoId
    <3> QED BY <1>t, <2>2, <3>1, <3>2, RestCarried
  <2>4. CASE EchoInsert(w) /\ ~UNCHANGED <<status, wire>>
    <3>1. w \in Rows /\ status' = [status EXCEPT ![w] = "SENT"] /\ wire' = [wire EXCEPT ![w] = w]
      BY <2>4 DEF EchoInsert, Rows
    <3>2. w # NoId
      BY DEF Wires, NoId
    <3>3. \A r \in Rows \ {w} : status'[r] = status[r] /\ wire'[r] = wire[r]
      BY <1>t, <3>1
    <3>4. status'[w] = "SENT"
      BY <1>t, <3>1
    <3> QED BY <2>2, <3>3, <3>4, RestCarried
  <2>5. CASE UNCHANGED <<status, wire>>
    BY <2>2, <2>5, RestCarried
  <2> QED BY <2>1, <2>3, <2>4, <2>5 DEF Echo, EchoRead, EchoLink, rows
<1>4. CASE \E w \in Wires : ServerMoves(w)
  BY <1>4, RestCarried DEF ServerMoves, rows, processes, history
<1>5. CASE \E w \in Wires : Ack(w)
  <2>1. PICK w \in Wires : Ack(w)
    BY <1>5
  <2>2. UNCHANGED <<job, request, abandoned, wire>>
    BY <2>1 DEF Ack, processes, history
  <2>3. PICK s : status' = [r \in Rows |-> IF r \in Linked(w) THEN s ELSE status[r]]
    BY <2>1 DEF Ack
  <2>4. w # NoId
    BY DEF Wires, NoId
  <2> QED BY <2>2, <2>3, <2>4, RestCarried DEF Linked
<1>6. CASE ReconcileRead \/ ReconcileAsk \/ ReconcileThrows
  BY <1>6, RestCarried DEF ReconcileRead, ReconcileAsk, ReconcileThrows, rows, history
<1>7. CASE \E r \in Rows : ReconcileStatus(r)
  <2>1. PICK r \in Rows : ReconcileStatus(r)
    BY <1>7
  <2>2. UNCHANGED <<job, request, abandoned, wire>> /\ status' = [status EXCEPT ![r] = "DELIVERED"]
    BY <2>1 DEF ReconcileStatus, history
  <2> QED BY <1>t, <2>2, RestCarried
<1>8. CASE \E r \in Rows : MarkStuck(r)
  <2>1. PICK r \in Rows : MarkStuck(r)
    BY <1>8
  <2>2. /\ UNCHANGED <<job, abandoned>> /\ request[Reconciler].step = "idle"
        /\ status' = [status EXCEPT ![r] = "FAILED"] /\ wire' = [wire EXCEPT ![r] = NoId]
        /\ Ask(Reconciler, r) \/ UNCHANGED request
    BY <2>1 DEF MarkStuck
  <2>3. \A q \in Rows : Unsettled(q)' => Unsettled(q)
    BY <1>t, <2>2
  <2>4. Reconciler \in Callers
    BY DEF Callers
  <2> QED BY <2>2, <2>3, <2>4, <1>a, RestCarried
<1>9. CASE \E r \in Rows : Ages(r)
  BY <1>9, RestCarried DEF Ages, processes, history
<1> QED BY <1>1, <1>2, <1>3, <1>4, <1>5, <1>6, <1>7, <1>8, <1>9 DEF Reconcile

\* A restart throws away only jobs and requests it notes as thrown away.
LEMMA CrashCarried ==
  ASSUME DeliveryInv, PendingIsCarried, Crash
  PROVE  PendingIsCarried'
<1> DEFINE running == {j \in Jobs : job[j].step \in {"post", "update"}}
           gone == {j \in running : job[j].stalled}
                      \cup {j \in Jobs : job[j].step \in {"failed", "failing"}}
           adding == {p \in Callers : request[p].step = "add"}
           again == {j \in running : ~job[j].stalled}
<1>1. /\ UNCHANGED <<status, wire>>
      /\ abandoned' = abandoned \cup {job[j].row : j \in gone} \cup {request[p].row : p \in adding}
      /\ job' = [j \in Jobs |->
            CASE j \in again -> [job[j] EXCEPT !.step = "wait", !.stalled = TRUE]
              [] j \in gone -> NoJob
              [] OTHER -> job[j]]
  BY DEF Crash, rows
<1> SUFFICES ASSUME NEW r \in Rows, Unsettled(r)'
             PROVE  CarriedByJob(r)'
  BY DEF PendingIsCarried
<1>2. CarriedByJob(r) \/ CarriedByRequest(r)
  BY <1>1 DEF PendingIsCarried, Unsettled
<1>3. ~CarriedByRequest(r)
  BY <1>1 DEF CarriedByRequest, Unsettled
<1>4. PICK j \in Jobs : job[j].row = r /\ job[j].step # "free"
  BY <1>2, <1>3 DEF CarriedByJob, Carries
<1>5. j \notin gone
  BY <1>1, <1>4 DEF Unsettled
<1>6. CASE j \in again
  <2>1. job'[j] = [job[j] EXCEPT !.step = "wait", !.stalled = TRUE]
    BY <1>1, <1>6
  <2>2. job[j] \in JobRecord
    BY DEF DeliveryInv, TypeOK
  <2>3. job'[j].row = r /\ job'[j].step = "wait"
    BY <1>4, <2>1, <2>2 DEF JobRecord
  <2> QED BY <2>3 DEF CarriedByJob, Carries
<1>7. CASE j \notin again
  <2>1. job'[j] = job[j]
    BY <1>1, <1>5, <1>7
  <2> QED BY <1>4, <2>1 DEF CarriedByJob, Carries
<1> QED BY <1>6, <1>7

LEMMA OwnRequestsStep ==
  ASSUME DeliveryInv, OwnRequests, Next
  PROVE  OwnRequests'
<1> SUFFICES ASSUME NEW m \in Messages, request'[m].step \in {"read", "put", "add"}
             PROVE  request'[m].row = m
  BY DEF OwnRequests
<1>t. /\ request \in [Callers -> RequestRecord] /\ request[m] \in RequestRecord
      /\ m \in Callers /\ m \notin Manuals \cup Sweeps \cup {Reconciler}
  BY ParameterAssumption DEF DeliveryInv, TypeOK, Callers
<1>o. request[m].step \in {"read", "put", "add"} => request[m].row = m
  BY DEF OwnRequests
<1>a. ASSUME NEW p \in Callers, NEW r, Ask(p, r), p # m PROVE request'[m] = request[m]
  BY <1>a DEF Ask
<1>r. ASSUME NEW p \in Callers, Return(p), p = m PROVE FALSE
  BY <1>t, <1>r DEF Return, Ended, NoRequest
<1>1. CASE request'[m] = request[m]
  BY <1>o, <1>1
<1>2. ASSUME NEW k \in Messages, Create(k) PROVE request'[m].row = m
  <2>1. request' = [request EXCEPT ![k] = [NoRequest EXCEPT !.row = k, !.step = "add"]]
    BY <1>2 DEF Create
  <2>2. CASE k = m
    BY <1>t, <2>1, <2>2 DEF NoRequest
  <2>3. CASE k # m
    BY <1>1, <1>t, <2>1, <2>3
  <2> QED BY <2>2, <2>3
<1>3. ASSUME NEW p \in Callers, Resend(p) \/ RequestThrows(p) PROVE request'[m].row = m
  <2>1. CASE p # m
    <3>1. PICK x : request' = [request EXCEPT ![p] = x]
      BY <1>3 DEF Resend, ResendRead, ResendPut, Enqueue, RequestThrows, Return
    <3> QED BY <1>1, <1>t, <2>1, <3>1
  <2>2. CASE p = m /\ ~Return(p)
    <3>1. CASE ResendRead(p)
      <4>1. request' = [request EXCEPT ![m] = [row |-> request[m].row, step |-> "put",
                           n |-> resends[request[m].row], cause |-> cause[request[m].row]]]
            /\ request[m].step = "read"
        BY <2>2, <3>1 DEF ResendRead
      <4> QED BY <1>t, <1>o, <4>1
    <3>2. CASE ResendPut(p)
      <4>1. request' = [request EXCEPT ![m] = [request[m] EXCEPT !.step = "add"]]
            /\ request[m].step = "put"
        BY <2>2, <3>2 DEF ResendPut
      <4>2. request'[m].row = request[m].row
        BY <1>t, <4>1 DEF RequestRecord
      <4> QED BY <1>o, <4>1, <4>2
    <3> QED BY <1>3, <2>2, <3>1, <3>2 DEF Resend, Enqueue, RequestThrows
  <2> QED BY <1>r, <2>1, <2>2
<1>4. CASE \E p \in Manuals : ResendRequest(p)
  BY <1>4, <1>1, <1>a, <1>t DEF ResendRequest, Callers
<1>5. CASE \E j \in Jobs : Send(j) \/ Discard(j) \/ RecordThrows(j) \/ FailedWriteThrows(j)
  BY <1>5, <1>1 DEF Send, Attempt, PostAccepted, PostRefused, Record, FailedRead, FailedWrite,
     Discard, RecordThrows, FailedWriteThrows
<1>6. CASE \E s \in Sweeps : Sweep(s)
  BY <1>6, <1>1, <1>a, <1>t DEF Sweep, SweepRead, SweepNext, Callers
<1>7. CASE \E w \in Wires : Echo(w) \/ ServerMoves(w) \/ Ack(w)
  BY <1>7, <1>1 DEF Echo, EchoRead, EchoLink, EchoInsert, ServerMoves, Ack, processes
<1>8. CASE Reconcile \/ ReconcileThrows
  BY <1>8, <1>1, <1>a, <1>t DEF Reconcile, ReconcileRead, ReconcileAsk, ReconcileThrows,
     ReconcileStatus, MarkStuck, Callers
<1>9. CASE \E r \in Rows : Ages(r)
  BY <1>9, <1>1 DEF Ages, processes
<1>10. CASE Crash
  <2>1. request'[m].step \in {"idle", "ended"}
    BY <1>10, <1>t DEF Crash, Ended, NoRequest
  <2> QED BY <2>1
<1> QED BY <1>2, <1>3, <1>4, <1>5, <1>6, <1>7, <1>8, <1>9, <1>10 DEF Next

LEMMA CarriedStep ==
  ASSUME DeliveryInv, OwnRequests, PendingIsCarried, Next
  PROVE  PendingIsCarried'
BY WorkerCarried, RequestCarried, EnqueueCarried, CreateCarried, RowsMoveCarried, CrashCarried
   DEF Next, Resend

\* For any messages, jobs, callers, posts and restarts: a row that shows as pending,
\* without an id, is either in the hands of a job of the queue or of a request about
\* to queue one, or was thrown away by one of the steps that say so.
THEOREM PendingRowsAreCarried == Spec => []PendingIsCarried
<1>1. Init => OwnRequests /\ PendingIsCarried
  BY DEF Init, OwnRequests, PendingIsCarried, Unsettled, NoRequest, Callers
<1>2. DeliveryInv /\ OwnRequests /\ PendingIsCarried /\ [Next]_vars
         => (OwnRequests /\ PendingIsCarried)'
  <2>1. ASSUME OwnRequests, PendingIsCarried, UNCHANGED vars
        PROVE  (OwnRequests /\ PendingIsCarried)'
    BY <2>1 DEF vars, rows, processes, history, OwnRequests, PendingIsCarried, Unsettled,
       CarriedByJob, Carries, CarriedByRequest
  <2> QED BY <2>1, OwnRequestsStep, CarriedStep
<1> QED BY <1>1, <1>2, DeliveryInvariant, PTL DEF Spec

--------------------------------------------------------------------------------
(* A job settles its row.  An attempt spends one of the job's attempts, each   *)
(* statement brings it nearer to the end of the attempt, and a restart spends  *)
(* the one stall a job may have: what is left of a job only gets less, until   *)
(* it leaves the queue, and it leaves it with its row settled or given up.     *)

StepsLeft == [wait |-> 3, post |-> 2, update |-> 1, failed |-> 1, failing |-> 0]
Left(j) == 4 * job[j].left + StepsLeft[job[j].step] + (IF job[j].stalled THEN 0 ELSE 4)

\* The row is settled or given up, or the job has less left to do for it.
Nearer(j, r) == ~Unsettled(r)' \/ (Carries(j, r)' /\ Left(j)' < Left(j))

LEMMA LeftIsNat ==
  ASSUME TypeOK, NEW j \in Jobs, job[j].step # "free"
  PROVE  Left(j) \in Nat /\ job[j].left \in Nat /\ StepsLeft[job[j].step] \in 0..3
<1>1. /\ job[j].left \in Nat /\ job[j].stalled \in BOOLEAN
      /\ job[j].step \in {"wait", "post", "update", "failed", "failing"}
  BY DEF TypeOK, JobRecord
<1>2. StepsLeft[job[j].step] \in 0..3
  BY <1>1 DEF StepsLeft
<1> QED BY <1>1, <1>2 DEF Left

LEMMA LeftStaysNat ==
  ASSUME TypeOK', NEW j \in Jobs, job'[j].step # "free"
  PROVE  Left(j)' \in Nat
<1>1. /\ job'[j].left \in Nat /\ job'[j].stalled \in BOOLEAN
      /\ job'[j].step \in {"wait", "post", "update", "failed", "failing"}
  BY DEF TypeOK, JobRecord
<1> QED BY <1>1 DEF Left, StepsLeft

\* A job goes on: the next statement, or an attempt less.
LEMMA GoesOnNears ==
  ASSUME TypeOK, NEW j \in Jobs, NEW r, Carries(j, r), NEW x, job' = [job EXCEPT ![j] = x],
         x.row = r, x.stalled = job[j].stalled,
         \/ /\ x.left = job[j].left
            /\ \/ job[j].step = "wait" /\ x.step = "post"
               \/ job[j].step = "post" /\ x.step = "update"
               \/ job[j].step = "failed" /\ x.step = "failing"
         \/ /\ x.left = job[j].left - 1 /\ x.step \in {"wait", "failed"}
            /\ job[j].step \in {"post", "update"}
  PROVE  Nearer(j, r)
<1>1. job'[j] = x
  BY DEF TypeOK
<1>2. job[j].left \in Nat /\ job[j].step # "free" /\ x.step # "free"
  BY LeftIsNat DEF Carries
<1>3. Left(j)' = 4 * x.left + StepsLeft[x.step] + (IF x.stalled THEN 0 ELSE 4)
  BY <1>1 DEF Left
<1>4. Left(j)' < Left(j)
  BY <1>2, <1>3 DEF Left, StepsLeft
<1> QED BY <1>1, <1>2, <1>4 DEF Nearer, Carries

\* Every step of the worker of a job.
LEMMA WorkNears ==
  ASSUME DeliveryInv, NEW j \in Jobs, NEW r \in Rows, Carries(j, r),
         Send(j) \/ Discard(j) \/ RecordThrows(j) \/ FailedWriteThrows(j)
  PROVE  Nearer(j, r)
<1>t. /\ TypeOK /\ job[j] \in JobRecord /\ job[j].row = r
      /\ status \in [Rows -> RowStatus] /\ wire \in [Rows -> Wires \cup {NoId}]
  BY DEF DeliveryInv, TypeOK, Carries
<1>f. ASSUME NEW why, Fail(j, why), job[j].step \in {"post", "update"} PROVE Nearer(j, r)
  <2> DEFINE x == [job[j] EXCEPT !.step = IF job[j].left > 1 THEN "wait" ELSE "failed",
                                 !.left = job[j].left - 1, !.cause = why]
  <2>1. job' = [job EXCEPT ![j] = x]
    BY <1>f DEF Fail
  <2>2. /\ x.row = r /\ x.stalled = job[j].stalled /\ x.left = job[j].left - 1
        /\ x.step \in {"wait", "failed"}
    BY <1>t DEF JobRecord
  <2> HIDE DEF x
  <2> QED BY <1>f, <1>t, <2>1, <2>2, GoesOnNears
<1>g. ASSUME NEW x, job' = [job EXCEPT ![j] = x], x.row = r, x.stalled = job[j].stalled,
             x.left = job[j].left,
             \/ job[j].step = "wait" /\ x.step = "post"
             \/ job[j].step = "post" /\ x.step = "update"
             \/ job[j].step = "failed" /\ x.step = "failing"
      PROVE  Nearer(j, r)
  BY <1>g, <1>t, GoesOnNears
<1>1. CASE Attempt(j)
  <2>1. CASE AlreadySent(r)
    <3>1. UNCHANGED <<status, wire>>
      BY <1>1 DEF Attempt, rows
    <3> QED BY <2>1, <3>1 DEF AlreadySent, Nearer, Unsettled
  <2>2. CASE ~AlreadySent(r)
    <3> DEFINE x == [job[j] EXCEPT !.step = "post"]
    <3>1. job' = [job EXCEPT ![j] = x] /\ job[j].step = "wait"
      BY <1>1, <1>t, <2>2 DEF Attempt
    <3>2. x.row = r /\ x.stalled = job[j].stalled /\ x.left = job[j].left /\ x.step = "post"
      BY <1>t DEF JobRecord
    <3> HIDE DEF x
    <3> QED BY <3>1, <3>2, <1>g
  <2> QED BY <2>1, <2>2
<1>2. CASE PostAccepted(j)
  <2>1. CASE Fail(j, "other")
    BY <1>2, <2>1, <1>f DEF PostAccepted
  <2>2. CASE ~Fail(j, "other")
    <3>1. PICK w, id : job' = [job EXCEPT ![j] =
                           [job[j] EXCEPT !.step = "update", !.wire = w, !.id = id]]
      BY <1>2, <2>2 DEF PostAccepted
    <3> DEFINE x == [job[j] EXCEPT !.step = "update", !.wire = w, !.id = id]
    <3>2. x.row = r /\ x.stalled = job[j].stalled /\ x.left = job[j].left /\ x.step = "update"
      BY <1>t DEF JobRecord
    <3>3. job[j].step = "post"
      BY <1>2 DEF PostAccepted
    <3> HIDE DEF x
    <3> QED BY <3>1, <3>2, <3>3, <1>g DEF x
  <2> QED BY <2>1, <2>2
<1>3. CASE PostRefused(j)
  BY <1>3, <1>f DEF PostRefused
<1>4. CASE Record(j)
  <2>1. CASE Taken(r, job[j].id)
    BY <1>4, <1>t, <2>1, <1>f DEF Record
  <2>2. CASE ~Taken(r, job[j].id)
    <3>1. status' = [status EXCEPT ![r] = "SENT"]
      BY <1>4, <1>t, <2>2 DEF Record
    <3> QED BY <1>t, <3>1 DEF Nearer, Unsettled
  <2> QED BY <2>1, <2>2
<1>5. CASE RecordThrows(j)
  BY <1>5, <1>f DEF RecordThrows
<1>6. CASE FailedRead(j)
  <2>1. PICK n : job' = [job EXCEPT ![j] = [job[j] EXCEPT !.step = "failing", !.n = n]]
    BY <1>6 DEF FailedRead
  <2> DEFINE x == [job[j] EXCEPT !.step = "failing", !.n = n]
  <2>2. x.row = r /\ x.stalled = job[j].stalled /\ x.left = job[j].left /\ x.step = "failing"
    BY <1>t DEF JobRecord
  <2>3. job[j].step = "failed"
    BY <1>6 DEF FailedRead
  <2> HIDE DEF x
  <2> QED BY <2>1, <2>2, <2>3, <1>g DEF x
<1>7. CASE FailedWrite(j)
  <2>1. status' = [status EXCEPT ![r] = "FAILED"]
    BY <1>7, <1>t DEF FailedWrite
  <2> QED BY <1>t, <2>1 DEF Nearer, Unsettled
<1>8. CASE Discard(j) \/ FailedWriteThrows(j)
  <2>1. abandoned' = abandoned \cup {r}
    BY <1>8, <1>t DEF Discard, FailedWriteThrows
  <2> QED BY <2>1 DEF Nearer, Unsettled
<1> QED BY <1>1, <1>2, <1>3, <1>4, <1>5, <1>6, <1>7, <1>8 DEF Send

\* A restart: a job in the middle of an attempt runs once more, the second time it
\* is dropped, and what is dropped is noted as thrown away.
LEMMA CrashNears ==
  ASSUME DeliveryInv, NEW j \in Jobs, NEW r \in Rows, Carries(j, r), Crash
  PROVE  job'[j] = job[j] \/ Nearer(j, r)
<1> DEFINE running == {i \in Jobs : job[i].step \in {"post", "update"}}
           gone == {i \in running : job[i].stalled}
                      \cup {i \in Jobs : job[i].step \in {"failed", "failing"}}
           again == {i \in running : ~job[i].stalled}
<1>1. /\ {job[i].row : i \in gone} \subseteq abandoned'
      /\ job'[j] = CASE j \in again -> [job[j] EXCEPT !.step = "wait", !.stalled = TRUE]
                     [] j \in gone -> NoJob
                     [] OTHER -> job[j]
  BY DEF Crash
<1>2. job[j] \in JobRecord /\ job[j].row = r
  BY DEF DeliveryInv, TypeOK, Carries
<1>3. CASE j \in gone
  BY <1>1, <1>2, <1>3 DEF Nearer, Unsettled
<1>4. CASE j \in again
  <2>1. job'[j] = [job[j] EXCEPT !.step = "wait", !.stalled = TRUE]
    BY <1>1, <1>4
  <2>2. /\ job'[j].row = r /\ job'[j].step = "wait" /\ job'[j].stalled = TRUE
        /\ job'[j].left = job[j].left
    BY <1>2, <2>1 DEF JobRecord
  <2>3. job[j].left \in Nat /\ job[j].step \in {"post", "update"} /\ job[j].stalled = FALSE
    BY <1>2, <1>4 DEF JobRecord
  <2>4. Left(j)' < Left(j)
    BY <2>2, <2>3 DEF Left, StepsLeft
  <2> QED BY <2>2, <2>4 DEF Nearer, Carries
<1>5. CASE j \notin again /\ j \notin gone
  BY <1>1, <1>5
<1> QED BY <1>3, <1>4, <1>5

\* Nothing anybody does sets a job back.
LEMMA EveryStepNears ==
  ASSUME DeliveryInv, NEW j \in Jobs, NEW r \in Rows, Carries(j, r), [Next]_vars
  PROVE  job'[j] = job[j] \/ Nearer(j, r)
<1>t. job \in [Jobs -> JobRecord]
  BY DEF DeliveryInv, TypeOK
<1>1. ASSUME NEW i \in Jobs, Send(i) \/ Discard(i) \/ RecordThrows(i) \/ FailedWriteThrows(i)
      PROVE  job'[j] = job[j] \/ Nearer(j, r)
  <2>1. CASE i = j
    BY <1>1, <2>1, WorkNears
  <2>2. CASE i # j
    <3>1. \E x : job' = [job EXCEPT ![i] = x]
      BY <1>1 DEF Send, Attempt, PostAccepted, PostRefused, Record, FailedRead, FailedWrite,
         Discard, RecordThrows, FailedWriteThrows, Fail, Free
    <3> QED BY <1>t, <2>2, <3>1
  <2> QED BY <2>1, <2>2
<1>2. ASSUME NEW p \in Callers, Resend(p) \/ RequestThrows(p) PROVE job'[j] = job[j]
  <2>1. CASE Enqueue(p)
    BY <1>t, <2>1 DEF Enqueue, Carries
  <2>2. CASE ~Enqueue(p)
    BY <1>2, <2>2 DEF Resend, ResendRead, ResendPut, RequestThrows
  <2> QED BY <2>1, <2>2
<1>3. ASSUME \/ \E m \in Messages : Create(m)
             \/ \E p \in Manuals : ResendRequest(p)
             \/ \E s \in Sweeps : Sweep(s)
             \/ \E w \in Wires : Echo(w) \/ ServerMoves(w) \/ Ack(w)
             \/ Reconcile \/ ReconcileThrows
             \/ \E q \in Rows : Ages(q)
             \/ UNCHANGED vars
      PROVE  UNCHANGED job
  BY <1>3 DEF Create, ResendRequest, Sweep, SweepRead, SweepNext, Echo, EchoRead, EchoLink,
     EchoInsert, ServerMoves, Ack, Reconcile, ReconcileRead, ReconcileAsk, ReconcileStatus,
     MarkStuck, ReconcileThrows, Ages, vars, processes
<1> QED BY <1>1, <1>2, <1>3, CrashNears DEF Next

\* A job starts with its attempts, and never gets one back.
BoundedLeft == \A j \in Jobs : job[j].left <= Attempts

LEMMA LeftStays ==
  ASSUME DeliveryInv, BoundedLeft, [Next]_vars
  PROVE  BoundedLeft'
<1>t. job \in [Jobs -> JobRecord] /\ Attempts \in Nat
  BY ParameterAssumption DEF DeliveryInv, TypeOK
<1>n. NoJob.left <= Attempts
  BY <1>t DEF NoJob
<1>r. ASSUME NEW j \in Jobs
      PROVE  job[j] \in JobRecord /\ job[j].left \in Nat /\ job[j].left <= Attempts
  BY <1>t DEF BoundedLeft, JobRecord
<1>x. ASSUME NEW j \in Jobs, NEW x, job' = [job EXCEPT ![j] = x], x.left <= Attempts
      PROVE  BoundedLeft'
  BY <1>t, <1>x DEF BoundedLeft
<1>1. ASSUME NEW j \in Jobs, NEW why, Fail(j, why) PROVE BoundedLeft'
  <2> DEFINE x == [job[j] EXCEPT !.step = IF job[j].left > 1 THEN "wait" ELSE "failed",
                                 !.left = job[j].left - 1, !.cause = why]
  <2>1. job' = [job EXCEPT ![j] = x]
    BY <1>1 DEF Fail
  <2>2. x.left = job[j].left - 1
    BY <1>r DEF JobRecord
  <2> HIDE DEF x
  <2>3. x.left <= Attempts
    BY <1>r, <1>t, <2>2
  <2> QED BY <1>x, <2>1, <2>3
<1>2. ASSUME NEW j \in Jobs, Free(j) PROVE BoundedLeft'
  BY <1>2, <1>x, <1>n DEF Free
<1>3. ASSUME NEW j \in Jobs, Attempt(j) PROVE BoundedLeft'
  <2>1. CASE job' = [job EXCEPT ![j] = [job[j] EXCEPT !.step = "post"]]
    <3>1. [job[j] EXCEPT !.step = "post"].left = job[j].left
      BY <1>r DEF JobRecord
    <3> QED BY <1>r, <1>x, <2>1, <3>1
  <2> QED BY <1>2, <1>3, <2>1 DEF Attempt
<1>4. ASSUME NEW j \in Jobs, PostAccepted(j) PROVE BoundedLeft'
  <2>1. CASE ~Fail(j, "other")
    <3>1. PICK w, id : job' = [job EXCEPT ![j] =
                           [job[j] EXCEPT !.step = "update", !.wire = w, !.id = id]]
      BY <1>4, <2>1 DEF PostAccepted
    <3> DEFINE x == [job[j] EXCEPT !.step = "update", !.wire = w, !.id = id]
    <3>2. x.left = job[j].left
      BY <1>r DEF JobRecord
    <3> HIDE DEF x
    <3> QED BY <1>r, <1>x, <3>1, <3>2 DEF x
  <2> QED BY <1>1, <2>1
<1>5. ASSUME NEW j \in Jobs, FailedRead(j) PROVE BoundedLeft'
  <2>1. PICK n : job' = [job EXCEPT ![j] = [job[j] EXCEPT !.step = "failing", !.n = n]]
    BY <1>5 DEF FailedRead
  <2> DEFINE x == [job[j] EXCEPT !.step = "failing", !.n = n]
  <2>2. x.left = job[j].left
    BY <1>r DEF JobRecord
  <2> HIDE DEF x
  <2> QED BY <1>r, <1>x, <2>1, <2>2 DEF x
<1>6. ASSUME NEW j \in Jobs, Send(j) \/ Discard(j) \/ RecordThrows(j) \/ FailedWriteThrows(j)
      PROVE  BoundedLeft'
  <2>1. CASE Record(j) \/ PostRefused(j) \/ FailedWrite(j) \/ Discard(j) \/ RecordThrows(j)
             \/ FailedWriteThrows(j)
    BY <1>1, <1>2, <2>1 DEF Record, PostRefused, FailedWrite, Discard, RecordThrows,
       FailedWriteThrows
  <2> QED BY <1>3, <1>4, <1>5, <1>6, <2>1 DEF Send
<1>7. ASSUME NEW p \in Callers, Resend(p) \/ RequestThrows(p) PROVE BoundedLeft'
  <2>1. CASE Enqueue(p)
    <3> DEFINE x == [NoJob EXCEPT !.row = request[p].row, !.step = "wait", !.left = Attempts]
    <3>1. PICK j \in Jobs : job' = [job EXCEPT ![j] = x]
      BY <2>1 DEF Enqueue
    <3>2. x.left <= Attempts
      BY <1>t DEF NoJob
    <3> HIDE DEF x
    <3> QED BY <1>x, <3>1, <3>2
  <2>2. CASE ~Enqueue(p)
    BY <1>7, <2>2 DEF Resend, ResendRead, ResendPut, RequestThrows, BoundedLeft
  <2> QED BY <2>1, <2>2
<1>8. CASE Crash
  <2>1. ASSUME NEW j \in Jobs PROVE job'[j].left <= Attempts
    <3>1. \/ job'[j] = job[j] \/ job'[j] = NoJob
          \/ job'[j] = [job[j] EXCEPT !.step = "wait", !.stalled = TRUE]
      BY <1>8 DEF Crash
    <3>2. [job[j] EXCEPT !.step = "wait", !.stalled = TRUE].left = job[j].left
      BY <1>r DEF JobRecord
    <3> QED BY <1>n, <1>r, <3>1, <3>2
  <2> QED BY <2>1 DEF BoundedLeft
<1>9. CASE UNCHANGED job
  BY <1>9 DEF BoundedLeft
<1> QED BY <1>6, <1>7, <1>8, <1>9 DEF Next, Create, ResendRequest, Sweep, SweepRead, SweepNext,
     Echo, EchoRead, EchoLink, EchoInsert, ServerMoves, Ack, Reconcile, ReconcileRead,
     ReconcileAsk, ReconcileStatus, MarkStuck, ReconcileThrows, Ages, vars, processes

LEMMA LeftBounded == Spec => []BoundedLeft
<1>1. Init => BoundedLeft
  BY ParameterAssumption DEF Init, BoundedLeft, NoJob
<1> QED BY <1>1, LeftStays, DeliveryInvariant, PTL DEF Spec

\* The row is settled or given up, or the job has it, with less than n left to do.
Within(j, r, n) == ~Unsettled(r) \/ (Carries(j, r) /\ Left(j) < n)
Draws(j, r, n, m) == Within(j, r, n) ~> Within(j, r, m)

\* Works, a fairness, is one fact here: fair steps of the worker draw the job nearer.
LEMMA WorkDraws ==
  ASSUME NEW j \in Jobs, NEW r \in Rows, NEW n \in Nat, NEW m \in Nat, n = m + 1
  PROVE  FairSpec /\ []Sendable => Draws(j, r, n, m)
<1>1. ASSUME DeliveryInv, DeliveryInv', Within(j, r, n), Unsettled(r), [Next]_vars
      PROVE  Within(j, r, n)'
  <2>1. CASE job'[j] = job[j]
    BY <1>1, <2>1 DEF Within, Carries, Left
  <2>2. CASE Carries(j, r)' /\ Left(j)' < Left(j)
    <3>1. Left(j) \in Nat /\ Left(j)' \in Nat
      BY <1>1, <2>2, LeftIsNat, LeftStaysNat DEF Within, Carries, DeliveryInv
    <3> QED BY <1>1, <2>2, <3>1 DEF Within
  <2> QED BY <1>1, <2>1, <2>2, EveryStepNears DEF Within, Nearer
<1>2. ASSUME DeliveryInv, DeliveryInv', Within(j, r, n), Unsettled(r), Send(j)
      PROVE  Within(j, r, m)'
  <2>1. CASE Carries(j, r)' /\ Left(j)' < Left(j)
    <3>1. Left(j) \in Nat /\ Left(j)' \in Nat
      BY <1>2, <2>1, LeftIsNat, LeftStaysNat DEF Within, Carries, DeliveryInv
    <3> QED BY <1>2, <2>1, <3>1 DEF Within
  <2> QED BY <1>2, <2>1, WorkNears DEF Within, Nearer
<1>3. Sendable /\ Within(j, r, n) /\ Unsettled(r) => ENABLED <<Send(j)>>_vars
  BY DEF Sendable, Within, Carries
<1>4. FairSpec => Works(j)
  BY DEF FairSpec, Fairness
<1>5. DeliveryInv /\ DeliveryInv' /\ Within(j, r, n) /\ Unsettled(r) /\ [Next]_vars
        => Within(j, r, n)'
  BY <1>1
<1>6. DeliveryInv /\ DeliveryInv' /\ Within(j, r, n) /\ Unsettled(r) /\ <<Send(j)>>_vars
        => Within(j, r, m)'
  BY <1>2
<1>7. ~Unsettled(r) => Within(j, r, m)
  BY DEF Within
<1> QED BY <1>3, <1>4, <1>5, <1>6, <1>7, DeliveryInvariant, PTL DEF FairSpec, Spec, Works, Draws

\* With the code's four attempts, or fewer: a row that shows as pending and is in the
\* hands of a job is settled, or given up by one of the steps that say so, whatever
\* the gateway, the resends, the echoes, the reconciler and the restarts do meanwhile.
THEOREM CarriedRowsSettle ==
  ASSUME Attempts \in 1..4, NEW j \in Jobs, NEW r \in Rows
  PROVE  FairSpec /\ []Sendable => ((Unsettled(r) /\ Carries(j, r)) ~> ~Unsettled(r))
<1>1. \A n, m \in Nat : n = m + 1 => (FairSpec /\ []Sendable => Draws(j, r, n, m))
  BY WorkDraws
<1>2. DeliveryInv /\ BoundedLeft /\ Unsettled(r) /\ Carries(j, r) => Within(j, r, 24)
  <2> SUFFICES ASSUME TypeOK, BoundedLeft, Carries(j, r) PROVE Left(j) < 24
    BY DEF DeliveryInv, Within
  <2>1. /\ job[j].left \in Nat /\ job[j].left <= 4 /\ StepsLeft[job[j].step] \in 0..3
    BY LeftIsNat DEF BoundedLeft, Carries
  <2> QED BY <2>1 DEF Left
<1>3. DeliveryInv /\ Within(j, r, 0) => ~Unsettled(r)
  BY LeftIsNat DEF DeliveryInv, Within, Carries
<1>4. FairSpec /\ []Sendable =>
          /\ Draws(j, r, 24, 23) /\ Draws(j, r, 23, 22)
          /\ Draws(j, r, 22, 21) /\ Draws(j, r, 21, 20)
          /\ Draws(j, r, 20, 19) /\ Draws(j, r, 19, 18)
          /\ Draws(j, r, 18, 17) /\ Draws(j, r, 17, 16)
  BY <1>1
<1>5. FairSpec /\ []Sendable =>
          /\ Draws(j, r, 16, 15) /\ Draws(j, r, 15, 14)
          /\ Draws(j, r, 14, 13) /\ Draws(j, r, 13, 12)
          /\ Draws(j, r, 12, 11) /\ Draws(j, r, 11, 10)
          /\ Draws(j, r, 10, 9) /\ Draws(j, r, 9, 8)
  BY <1>1
<1>6. FairSpec /\ []Sendable =>
          /\ Draws(j, r, 8, 7) /\ Draws(j, r, 7, 6)
          /\ Draws(j, r, 6, 5) /\ Draws(j, r, 5, 4)
          /\ Draws(j, r, 4, 3) /\ Draws(j, r, 3, 2)
          /\ Draws(j, r, 2, 1) /\ Draws(j, r, 1, 0)
  BY <1>1
<1>7. FairSpec /\ []Sendable => (Within(j, r, 24) ~> Within(j, r, 16))
  BY <1>4, PTL DEF Draws
<1>8. FairSpec /\ []Sendable => (Within(j, r, 16) ~> Within(j, r, 8))
  BY <1>5, PTL DEF Draws
<1>9. FairSpec /\ []Sendable => (Within(j, r, 8) ~> Within(j, r, 0))
  BY <1>6, PTL DEF Draws
<1> QED BY <1>2, <1>3, <1>7, <1>8, <1>9, DeliveryInvariant, LeftBounded, PTL DEF FairSpec
================================================================================
