-------------------------- MODULE InstanceHealthProofs --------------------------
(* Proofs about InstanceHealth, for any numbers, overlapping ticks, webhooks,  *)
(* restarts and failed statements: an outage has one alert, opened by a tick   *)
(* that already knew of a fall, and silence is reported once per cooldown.     *)
EXTENDS InstanceHealth, FiniteSetTheorems, TLAPS

TickPc == {"loop", "markOnly", "markOpen", "connect", "markDown", "count", "findAlert",
           "createAlert", "findOpen", "resolve", "silence", "openSilence"}
HookPc == {"idle", "reopen", "note", "forget", "findOpen", "resolve"}
AnyPc == TickPc \cup HookPc

Local == [pc : AnyPc, inst : Instances \cup {Nothing}, seen : States \cup {Nothing},
          row : Rows \cup {0}, todo : SUBSET (Instances \X States), fell : SUBSET Instances]

\* What a process holds at each place: an instance, and what it saw of it.
Busy(r) == r.inst \in Instances /\ r.seen \in States
TickRole(r) == r.pc \in TickPc \cup {"idle"} /\ (r.pc \notin {"idle", "loop"} => Busy(r))
HookRole(r) == r.pc \in HookPc /\ (r.pc # "idle" => Busy(r))
Roles == /\ \A t \in Ticks : TickRole(proc[t])
         /\ \A h \in Hooks : HookRole(proc[h])

RowsOK ==
    /\ gateway \in [Instances -> States \cup {"mute"}]
    /\ events \in [Instances -> SUBSET States]
    /\ met \in [Instances -> BOOLEAN]
    /\ customers \in [Instances -> {"talking", "silent", "dead"}]
    /\ status \in [Instances -> States]
    /\ outage \in [Instances -> SUBSET Rows]
    /\ recent \in [Instances -> Nat]
    /\ quedas \in [Instances -> 0..ToAlert]
    /\ silenciosAbertos \subseteq Instances
    /\ troubles \in 0..MaxTroubles

\* The flag lets one tick run at a time.
Flag == running \in BOOLEAN /\ (running <=> \E t \in Ticks : proc[t].pc # "idle")
OneTick == \A t, u \in Ticks : proc[t].pc # "idle" /\ proc[u].pc # "idle" => t = u

\* The pairs a tick has not come to are of different instances, and none is of the
\* instance it stands at.
InstOnce(r) ==
    /\ \A i \in Instances : \A a, b \in States :
         <<i, a>> \in r.todo /\ <<i, b>> \in r.todo => a = b
    /\ r.pc \notin {"idle", "loop"} => \A a \in States : <<r.inst, a>> \notin r.todo

\* Instances the tick may still count.
ToCount(r, i) ==
    \/ \E s \in States : <<i, s>> \in r.todo
    \/ r.inst = i /\ r.pc \in {"connect", "markDown", "count"}

\* One of them that was counted as down is one that was when the tick began.
Looked(r) ==
    r.pc # "idle" =>
        /\ InstOnce(r)
        /\ \A i \in Instances : ToCount(r, i) /\ quedas[i] > 0 => i \in r.fell
        /\ r.pc \in {"findAlert", "createAlert"} => r.inst \in r.fell

\* Nobody but the one tick opens an alert: what it did not find is still not there.
Absent(r) ==
    /\ r.pc = "createAlert" => outage[r.inst] = {}
    /\ r.pc = "openSilence" => recent[r.inst] = 0

TickOK(r) == Looked(r) /\ Absent(r)

HealthInv ==
    /\ RowsOK /\ proc \in [Processes -> Local] /\ Roles
    /\ Flag /\ OneTick
    /\ \A t \in Ticks : TickOK(proc[t])
    /\ OneAlertPerOutage /\ SilenceOncePerCooldown

--------------------------------------------------------------------------------
(* Records of a process.                                                      *)

LEMMA IdleOK == Idle \in Local /\ TickRole(Idle) /\ HookRole(Idle) /\ TickOK(Idle)
  BY DEF Idle, Local, AnyPc, TickPc, HookPc, TickRole, HookRole, TickOK, Looked, Absent

\* Who leaves an instance.
Left(p) ==
    IF p \in Ticks
    THEN [Idle EXCEPT !.pc = "loop", !.todo = proc[p].todo, !.fell = proc[p].fell]
    ELSE Idle

LEMMA LeaveIs ==
  ASSUME NEW p, Leave(p) PROVE proc' = [proc EXCEPT ![p] = Left(p)]
  BY DEF Leave, Left

\* The step of one process p, which becomes r.
Becomes(p, r) == proc' = [proc EXCEPT ![p] = r]

LEMMA ProcessStep ==
  ASSUME HealthInv, NEW p \in Processes, NEW r \in Local, Becomes(p, r)
  PROVE  /\ proc' \in [Processes -> Local] /\ proc'[p] = r
         /\ \A q \in Processes : q # p => proc'[q] = proc[q]
  BY DEF HealthInv, Becomes

\* A tick that goes on keeps the flag up; the others are idle and stay so.
LEMMA TickGoesOn ==
  ASSUME HealthInv, NEW t \in Ticks, proc[t].pc # "idle",
         NEW r \in Local, Becomes(t, r), r.pc # "idle",
         RowsOK', TickRole(r), TickOK(r)', running' = running,
         OneAlertPerOutage', SilenceOncePerCooldown'
  PROVE  HealthInv'
<1>1. t \in Processes
  BY DEF Processes
<1>2. /\ proc' \in [Processes -> Local] /\ proc'[t] = r
      /\ \A q \in Processes : q # t => proc'[q] = proc[q]
  BY <1>1, ProcessStep
<1>3. \A u \in Ticks : u # t => proc'[u] = proc[u] /\ proc[u].pc = "idle"
  BY <1>2 DEF HealthInv, OneTick, Processes
<1>4. Roles'
  <2>1. \A h \in Hooks : proc'[h] = proc[h]
    BY <1>2, HealthAssumption DEF Processes
  <2> QED BY <2>1, <1>2, <1>3 DEF HealthInv, Roles
<1>5. Flag' /\ OneTick'
  BY <1>2, <1>3 DEF HealthInv, Flag, OneTick
<1>6. \A u \in Ticks : TickOK(proc[u])'
  BY <1>2, <1>3 DEF TickOK, Looked, Absent
<1> QED BY <1>2, <1>4, <1>5, <1>6 DEF HealthInv

\* A webhook opens no alert and counts no fall.
LEMMA HookGoesOn ==
  ASSUME HealthInv, NEW h \in Hooks, NEW r \in Local, Becomes(h, r),
         RowsOK', HookRole(r), running' = running, recent' = recent,
         \A i \in Instances : outage'[i] \subseteq outage[i],
         \A i \in Instances : quedas'[i] = 0 \/ quedas'[i] = quedas[i]
  PROVE  HealthInv'
<1>1. h \in Processes
  BY DEF Processes
<1>2. /\ proc' \in [Processes -> Local] /\ proc'[h] = r
      /\ \A q \in Processes : q # h => proc'[q] = proc[q]
  BY <1>1, ProcessStep
<1>3. \A t \in Ticks : proc'[t] = proc[t]
  BY <1>2, HealthAssumption DEF Processes
<1>4. Roles'
  <2>1. \A g \in Hooks : proc'[g] = proc[g] \/ proc'[g] = r
    BY <1>2 DEF Processes
  <2> QED BY <2>1, <1>3 DEF HealthInv, Roles
<1>5. Flag' /\ OneTick'
  BY <1>3 DEF HealthInv, Flag, OneTick
<1>6. ASSUME NEW t \in Ticks PROVE TickOK(proc[t])'
  <2>1. TickOK(proc[t]) /\ TickRole(proc[t])
    BY DEF HealthInv, Roles
  <2>2. Looked(proc[t])'
    <3>1. proc'[t] = proc[t]
      BY <1>3
    <3>2. \A i \in Instances : ToCount(proc[t], i)' <=> ToCount(proc[t], i)
      BY <3>1 DEF ToCount
    <3>3. InstOnce(proc[t])' <=> InstOnce(proc[t])
      BY <3>1 DEF InstOnce
    <3>4. \A i \in Instances : quedas'[i] > 0 => quedas[i] > 0
      OBVIOUS
    <3> QED BY <2>1, <3>1, <3>2, <3>3, <3>4 DEF TickOK, Looked
  <2>3. Absent(proc[t])'
    BY <2>1, <1>3 DEF TickOK, Absent, TickRole, Busy
  <2> QED BY <2>2, <2>3 DEF TickOK
<1>7. OneAlertPerOutage' /\ SilenceOncePerCooldown'
  BY DEF HealthInv, OneAlertPerOutage, SilenceOncePerCooldown
<1> QED BY <1>2, <1>4, <1>5, <1>6, <1>7 DEF HealthInv

\* The world turns: no process moves, no alert is opened and no fall is counted.
LEMMA WorldTurns ==
  ASSUME HealthInv, RowsOK', UNCHANGED <<proc, running, quedas, outage>>,
         \A i \in Instances : recent'[i] = 0 \/ recent'[i] = recent[i]
  PROVE  HealthInv'
<1>1. Roles' /\ Flag' /\ OneTick' /\ proc' \in [Processes -> Local]
  BY DEF HealthInv, Roles, Flag, OneTick
<1>2. ASSUME NEW t \in Ticks PROVE TickOK(proc[t])'
  BY DEF HealthInv, Roles, TickOK, Looked, InstOnce, ToCount, Absent, TickRole, Busy
<1>3. OneAlertPerOutage' /\ SilenceOncePerCooldown'
  BY DEF HealthInv, OneAlertPerOutage, SilenceOncePerCooldown
<1> QED BY <1>1, <1>2, <1>3 DEF HealthInv

--------------------------------------------------------------------------------
(* The tick.                                                                  *)

\* What a tick that leaves its instance owes.
LEMMA LeftOK ==
  ASSUME HealthInv, NEW t \in Ticks, proc[t].pc # "idle", NEW r, r = Left(t),
         \A i \in Instances : \/ quedas'[i] = 0 \/ quedas'[i] = quedas[i]
                              \/ i = proc[t].inst /\ proc[t].pc # "loop"
  PROVE  r \in Local /\ TickRole(r) /\ TickOK(r)' /\ r.pc # "idle"
<1>1. proc[t] \in Local /\ TickOK(proc[t])
  BY DEF HealthInv, Processes
<1>2. /\ r.pc = "loop" /\ r.todo = proc[t].todo /\ r.fell = proc[t].fell
      /\ r.inst = Nothing
  BY DEF Left, Idle
<1>3. r \in Local /\ TickRole(r)
  BY <1>1 DEF Left, Idle, Local, AnyPc, TickPc, TickRole
<1>4. InstOnce(r)'
  BY <1>1, <1>2 DEF InstOnce, TickOK, Looked, Left, Idle
<1>5. ASSUME NEW i \in Instances, ToCount(r, i)', quedas'[i] > 0
      PROVE  i \in proc[t].fell
  <2>1. \E s \in States : <<i, s>> \in proc[t].todo
    BY <1>5, <1>2, HealthAssumption DEF ToCount, Left, Idle
  <2>2. ~(i = proc[t].inst /\ proc[t].pc # "loop")
    BY <2>1, <1>1 DEF TickOK, Looked, InstOnce
  <2>3. ToCount(proc[t], i) /\ quedas[i] > 0
    BY <2>1, <2>2, <1>5 DEF ToCount
  <2> QED BY <2>3, <1>1 DEF TickOK, Looked
<1>6. TickOK(r)'
  BY <1>4, <1>5, <1>2 DEF TickOK, Looked, Absent, Left, Idle
<1> QED BY <1>2, <1>3, <1>6

\* The facts of a tick at one of its statements.
LEMMA AtTick ==
  ASSUME HealthInv, NEW t \in Ticks
  PROVE  /\ t \in Processes /\ proc[t] \in Local /\ TickOK(proc[t]) /\ TickRole(proc[t])
         /\ proc[t].pc \notin {"idle", "loop"} =>
              proc[t].inst \in Instances /\ proc[t].seen \in States
  BY DEF HealthInv, Processes, Roles, TickRole, Busy

\* A process stays with its instance, at another statement.
Moved(p, pc, row) == [proc[p] EXCEPT !.pc = pc, !.row = row]

LEMMA GotoIs ==
  ASSUME HealthInv, NEW p \in Processes, NEW pc, Goto(p, pc)
  PROVE  Becomes(p, Moved(p, pc, proc[p].row)) /\ proc[p].row \in Rows \cup {0}
<1>1. proc[p] \in Local
  BY DEF HealthInv
<1>2. [proc[p] EXCEPT !.pc = pc] = Moved(p, pc, proc[p].row)
  BY <1>1 DEF Local, Moved
<1>3. Becomes(p, [proc[p] EXCEPT !.pc = pc])
  BY DEF Goto, Becomes, HealthInv
<1> QED BY <1>1, <1>2, <1>3 DEF Local

LEMMA MovedFacts ==
  ASSUME HealthInv, NEW p \in Processes, NEW pc \in AnyPc, NEW row \in Rows \cup {0},
         NEW r, r = Moved(p, pc, row)
  PROVE  /\ r \in Local /\ r.pc = pc /\ r.inst = proc[p].inst /\ r.seen = proc[p].seen
         /\ r.fell = proc[p].fell /\ r.todo = proc[p].todo
<1>1. proc[p] \in Local
  BY DEF HealthInv
<1>2. r = [pc |-> pc, inst |-> proc[p].inst, seen |-> proc[p].seen, row |-> row,
           todo |-> proc[p].todo, fell |-> proc[p].fell]
  BY <1>1 DEF Local, Moved
<1> QED BY <1>1, <1>2 DEF Local

\* A tick moves on with its instance.
LEMMA TickMoves ==
  ASSUME HealthInv, NEW t \in Ticks, proc[t].pc \notin {"idle", "loop"},
         NEW pc \in TickPc \ {"loop"}, NEW row \in Rows \cup {0}, Becomes(t, Moved(t, pc, row)),
         RowsOK', OneAlertPerOutage', SilenceOncePerCooldown', running' = running,
         \A i \in Instances : i # proc[t].inst => quedas'[i] = quedas[i],
         pc \in {"connect", "markDown", "count"} =>
             proc[t].pc \in {"connect", "markDown", "count"} /\ quedas' = quedas,
         pc \in {"findAlert", "createAlert"} => proc[t].inst \in proc[t].fell,
         pc = "createAlert" => outage'[proc[t].inst] = {},
         pc = "openSilence" => recent'[proc[t].inst] = 0
  PROVE  HealthInv'
<1>1. PICK r : r = Moved(t, pc, row)
  OBVIOUS
<1>2. t \in Processes /\ TickOK(proc[t]) /\ TickRole(proc[t]) /\ pc \in AnyPc /\ pc # "idle"
  BY AtTick DEF AnyPc, TickPc
<1>3. /\ r \in Local /\ r.pc = pc /\ r.inst = proc[t].inst /\ r.seen = proc[t].seen
      /\ r.fell = proc[t].fell /\ r.todo = proc[t].todo
  BY <1>1, <1>2, MovedFacts
<1>4. TickRole(r)
  BY <1>2, <1>3 DEF TickRole, Busy
<1>5. InstOnce(r)'
  BY <1>2, <1>3 DEF TickOK, Looked, InstOnce
<1>6. ASSUME NEW i \in Instances, ToCount(r, i)', quedas'[i] > 0 PROVE i \in r.fell
  <2>1. ToCount(proc[t], i)
    BY <1>3, <1>6 DEF ToCount
  <2>2. quedas[i] > 0
    BY <1>2, <1>3, <1>6 DEF ToCount, TickOK, Looked, InstOnce
  <2> QED BY <2>1, <2>2, <1>2, <1>3 DEF TickOK, Looked
<1>7. TickOK(r)'
  BY <1>3, <1>5, <1>6 DEF TickOK, Looked, Absent
<1> QED BY <1>1, <1>2, <1>3, <1>4, <1>7, TickGoesOn

\* A tick is done with its instance.
LEMMA TickLeaves ==
  ASSUME HealthInv, NEW t \in Ticks, proc[t].pc # "idle", Leave(t),
         RowsOK', OneAlertPerOutage', SilenceOncePerCooldown', running' = running,
         \A i \in Instances : \/ quedas'[i] = 0 \/ quedas'[i] = quedas[i]
                              \/ i = proc[t].inst /\ proc[t].pc # "loop"
  PROVE  HealthInv'
<1>1. PICK r : r = Left(t)
  OBVIOUS
<1>2. Becomes(t, r)
  BY <1>1, LeaveIs DEF Becomes
<1>3. r \in Local /\ TickRole(r) /\ TickOK(r)' /\ r.pc # "idle"
  BY <1>1, LeftOK
<1> QED BY <1>2, <1>3, TickGoesOn

LEMMA AllIdle ==
  ASSUME HealthInv, ~running PROVE \A t \in Ticks : proc[t].pc = "idle"
  BY DEF HealthInv, Flag

LEMMA TickBeginStep ==
  ASSUME HealthInv, NEW t \in Ticks, TickBegin(t) PROVE HealthInv'
<1> DEFINE new == [Idle EXCEPT !.pc = "loop",
                               !.todo = {<<i, status[i]>> : i \in Instances},
                               !.fell = {i \in Instances : quedas[i] > 0}]
<1>1. PICK r : r = new
  OBVIOUS
<1>2. Becomes(t, r) /\ ~running /\ running' = TRUE
      /\ UNCHANGED <<gateway, events, met, customers, status, outage, recent, quedas,
                     silenciosAbertos, troubles>>
  BY <1>1 DEF TickBegin, Becomes
<1>3. /\ r.pc = "loop" /\ r.todo = {<<i, status[i]>> : i \in Instances}
      /\ r.fell = {i \in Instances : quedas[i] > 0} /\ r.inst = Nothing
  BY <1>1 DEF Idle
<1>4. r \in Local /\ TickRole(r)
  <2>1. {<<i, status[i]>> : i \in Instances} \in SUBSET (Instances \X States)
    BY DEF HealthInv, RowsOK
  <2>2. r = [pc |-> "loop", inst |-> Nothing, seen |-> Nothing, row |-> 0,
             todo |-> {<<i, status[i]>> : i \in Instances},
             fell |-> {i \in Instances : quedas[i] > 0}]
    BY <1>1 DEF Idle
  <2> HIDE DEF new
  <2> QED BY <2>1, <2>2 DEF Local, AnyPc, TickPc, TickRole
<1>5. TickOK(r)'
  <2>1. InstOnce(r)'
    BY <1>3 DEF InstOnce
  <2>2. \A i \in Instances : quedas'[i] > 0 => i \in r.fell
    BY <1>2, <1>3
  <2> QED BY <2>1, <2>2, <1>3 DEF TickOK, Looked, Absent
<1>6. /\ proc' \in [Processes -> Local] /\ proc'[t] = r
      /\ \A q \in Processes : q # t => proc'[q] = proc[q]
  BY <1>2, <1>4, ProcessStep DEF Processes
<1>7. \A u \in Ticks : u # t => proc'[u] = proc[u] /\ proc[u].pc = "idle"
  BY <1>2, <1>6, AllIdle DEF Processes
<1>8. Roles'
  <2>1. \A h \in Hooks : proc'[h] = proc[h]
    BY <1>6, HealthAssumption DEF Processes
  <2> QED BY <2>1, <1>4, <1>6, <1>7 DEF HealthInv, Roles
<1>9. Flag' /\ OneTick' /\ \A u \in Ticks : TickOK(proc[u])'
  BY <1>2, <1>3, <1>5, <1>6, <1>7 DEF Flag, OneTick, TickOK, Looked, Absent
<1>10. RowsOK' /\ OneAlertPerOutage' /\ SilenceOncePerCooldown'
  BY <1>2 DEF HealthInv, RowsOK, OneAlertPerOutage, SilenceOncePerCooldown
<1> QED BY <1>6, <1>8, <1>9, <1>10 DEF HealthInv

LEMMA TickEndStep ==
  ASSUME HealthInv, NEW t \in Ticks, TickEnd(t) PROVE HealthInv'
<1>1. /\ proc' \in [Processes -> Local] /\ proc'[t] = Idle
      /\ \A q \in Processes : q # t => proc'[q] = proc[q]
  BY IdleOK DEF TickEnd, HealthInv, Processes
<1>2. \A u \in Ticks : proc'[u].pc = "idle" /\ TickRole(proc'[u])
  BY <1>1, IdleOK DEF TickEnd, At, HealthInv, OneTick, Roles, Processes, Idle
<1>3. Roles'
  <2>1. \A h \in Hooks : proc'[h] = proc[h]
    BY <1>1, HealthAssumption DEF Processes, TickEnd, At
  <2> QED BY <2>1, <1>2 DEF HealthInv, Roles
<1>4. Flag' /\ OneTick' /\ \A u \in Ticks : TickOK(proc[u])'
  <2>1. OneTick'
    BY <1>2 DEF OneTick
  <2>2. Flag'
    BY <1>2 DEF TickEnd, Flag
  <2> QED BY <2>1, <2>2, <1>2 DEF TickOK, Looked, Absent
<1>5. RowsOK' /\ OneAlertPerOutage' /\ SilenceOncePerCooldown'
  BY DEF TickEnd, HealthInv, RowsOK, OneAlertPerOutage, SilenceOncePerCooldown
<1> QED BY <1>1, <1>3, <1>4, <1>5 DEF HealthInv

\* Where the answer of the gateway sends a tick.
LEMMA ProbedIs ==
  ASSUME HealthInv, NEW t \in Ticks, NEW i \in Instances, NEW was \in States,
         NEW r, r = Probed(t, i, was)
  PROVE  /\ r \in Local /\ r.todo = proc[t].todo \ {<<i, was>>} /\ r.fell = proc[t].fell
         /\ \/ r.inst = Nothing /\ r.pc = "loop"
            \/ /\ r.inst = i /\ r.seen \in States
               /\ r.pc \in {"markOpen", "connect", "markOnly"}
<1>1. proc[t] \in Local
  BY AtTick
<1>2. gateway[i] \in States \cup {"mute"}
  BY DEF HealthInv, RowsOK
<1>3. /\ proc[t].row \in Rows \cup {0} /\ proc[t].fell \in SUBSET Instances
      /\ proc[t].todo \ {<<i, was>>} \in SUBSET (Instances \X States)
  BY <1>1 DEF Local
<1>4. CASE gateway[i] = "mute"
  <2>1. r = [proc[t] EXCEPT !.todo = proc[t].todo \ {<<i, was>>}, !.inst = Nothing,
                            !.seen = Nothing, !.pc = "loop"]
    BY <1>4 DEF Probed
  <2>2. r = [pc |-> "loop", inst |-> Nothing, seen |-> Nothing, row |-> proc[t].row,
             todo |-> proc[t].todo \ {<<i, was>>}, fell |-> proc[t].fell]
    BY <1>1, <2>1 DEF Local
  <2> QED BY <1>3, <2>2 DEF Local, AnyPc, TickPc
<1>5. CASE gateway[i] # "mute"
  <2>1. PICK pc \in {"markOpen", "connect", "markOnly"} :
          r = [proc[t] EXCEPT !.todo = proc[t].todo \ {<<i, was>>}, !.inst = i,
                              !.seen = gateway[i], !.pc = pc]
    BY <1>5 DEF Probed
  <2>2. r = [pc |-> pc, inst |-> i, seen |-> gateway[i], row |-> proc[t].row,
             todo |-> proc[t].todo \ {<<i, was>>}, fell |-> proc[t].fell]
    BY <1>1, <2>1 DEF Local
  <2>3. pc \in AnyPc /\ gateway[i] \in States
    BY <1>2, <1>5 DEF AnyPc, TickPc
  <2> QED BY <1>3, <2>2, <2>3 DEF Local
<1> QED BY <1>4, <1>5

LEMMA ProbeStep ==
  ASSUME HealthInv, NEW t \in Ticks, Probe(t) PROVE HealthInv'
<1>1. PICK i \in Instances, was \in States :
        <<i, was>> \in proc[t].todo /\ Becomes(t, Probed(t, i, was))
  BY DEF Probe, Becomes
<1>2. PICK r : r = Probed(t, i, was)
  OBVIOUS
<1>3. UNCHANGED <<gateway, events, met, customers, status, outage, recent, memory, troubles>>
      /\ proc[t].pc = "loop"
  BY DEF Probe, At
<1>4. proc[t] \in Local /\ TickOK(proc[t])
  BY AtTick
<1>5. /\ r \in Local /\ r.todo = proc[t].todo \ {<<i, was>>} /\ r.fell = proc[t].fell
      /\ \/ r.inst = Nothing /\ r.pc = "loop"
         \/ /\ r.inst = i /\ r.seen \in States
            /\ r.pc \in {"markOpen", "connect", "markOnly"}
  BY <1>2, ProbedIs
<1>6. TickRole(r) /\ r.pc # "idle" /\ Becomes(t, r)
  BY <1>1, <1>2, <1>5 DEF TickRole, TickPc, Busy
<1>7. InstOnce(r)'
  BY <1>1, <1>3, <1>4, <1>5 DEF TickOK, Looked, InstOnce
<1>8. \A k \in Instances : ToCount(r, k)' => ToCount(proc[t], k)
  BY <1>1, <1>5, HealthAssumption DEF ToCount
<1>9. TickOK(r)'
  BY <1>3, <1>4, <1>5, <1>7, <1>8 DEF TickOK, Looked, Absent, memory
<1>10. RowsOK' /\ OneAlertPerOutage' /\ SilenceOncePerCooldown' /\ running' = running
  BY <1>3 DEF HealthInv, RowsOK, OneAlertPerOutage, SilenceOncePerCooldown, memory
<1> QED BY <1>3, <1>5, <1>6, <1>9, <1>10, TickGoesOn

LEMMA MarkOnlyStep ==
  ASSUME HealthInv, NEW t \in Ticks, MarkOnly(t) PROVE HealthInv'
<1>1. Leave(t) /\ proc[t].pc = "markOnly" /\ running' = running
  BY DEF MarkOnly, At
<1>2. RowsOK'
  BY AtTick DEF MarkOnly, At, Inst, HealthInv, RowsOK, ToAlert
<1>3. OneAlertPerOutage' /\ SilenceOncePerCooldown'
  BY DEF MarkOnly, HealthInv, OneAlertPerOutage, SilenceOncePerCooldown
<1>4. \A i \in Instances : quedas'[i] = 0 \/ quedas'[i] = quedas[i]
  BY DEF MarkOnly, HealthInv, RowsOK
<1> QED BY <1>1, <1>2, <1>3, <1>4, TickLeaves

LEMMA ConnectStep ==
  ASSUME HealthInv, NEW t \in Ticks, Connect(t) PROVE HealthInv'
<1>1. PICK pc \in {"markOpen", "markDown"} : Goto(t, pc)
  BY DEF Connect
<1>2. UNCHANGED <<met, customers, status, outage, recent, running, quedas, silenciosAbertos,
                  troubles>> /\ proc[t].pc = "connect"
  BY DEF Connect, memory, At
<1>3. RowsOK'
  <2>1. gateway' \in [Instances -> States \cup {"mute"}]
    BY DEF Connect, HealthInv, RowsOK, States
  <2>2. events' \in [Instances -> SUBSET States]
    <3>1. UNCHANGED events \/ \E told \in SUBSET {"open"} :
             events' = [events EXCEPT ![Inst(t)] = @ \cup told]
      BY DEF Connect
    <3>2. \A told \in SUBSET {"open"} : told \in SUBSET States
      BY DEF States
    <3>3. events \in [Instances -> SUBSET States]
      BY DEF HealthInv, RowsOK
    <3>4. ASSUME NEW told \in SUBSET States, events' = [events EXCEPT ![Inst(t)] = @ \cup told]
          PROVE  events' \in [Instances -> SUBSET States]
      BY <3>3, <3>4
    <3> QED BY <3>1, <3>2, <3>3, <3>4
  <2> QED BY <2>1, <2>2, <1>2 DEF HealthInv, RowsOK
<1>4. OneAlertPerOutage' /\ SilenceOncePerCooldown'
  BY <1>2 DEF HealthInv, OneAlertPerOutage, SilenceOncePerCooldown
<1>5. /\ Becomes(t, Moved(t, pc, proc[t].row)) /\ proc[t].row \in Rows \cup {0}
      /\ pc \in TickPc \ {"loop"}
  BY <1>1, AtTick, GotoIs DEF TickPc
<1> QED BY <1>2, <1>3, <1>4, <1>5, TickMoves

LEMMA MarkDownStep ==
  ASSUME HealthInv, NEW t \in Ticks, MarkDown(t) PROVE HealthInv'
<1>1. UNCHANGED <<gateway, events, met, customers, outage, recent, running, quedas,
                  silenciosAbertos, troubles>> /\ proc[t].pc = "markDown"
  BY DEF MarkDown, memory, At
<1>2. RowsOK'
  BY <1>1, AtTick DEF MarkDown, Inst, HealthInv, RowsOK
<1>3. OneAlertPerOutage' /\ SilenceOncePerCooldown'
  BY <1>1 DEF HealthInv, OneAlertPerOutage, SilenceOncePerCooldown
<1>4. /\ Becomes(t, Moved(t, "count", proc[t].row)) /\ proc[t].row \in Rows \cup {0}
      /\ "count" \in TickPc \ {"loop"}
  BY AtTick, GotoIs DEF TickPc, MarkDown
<1> QED BY <1>1, <1>2, <1>3, <1>4, TickMoves

LEMMA CountStep ==
  ASSUME HealthInv, NEW t \in Ticks, Count(t) PROVE HealthInv'
<1>1. /\ UNCHANGED <<gateway, events, met, customers, status, outage, recent, running,
                     silenciosAbertos, troubles>>
      /\ proc[t].pc = "count" /\ proc[t].inst \in Instances
      /\ quedas \in [Instances -> 0..2]
      /\ quedas' = [quedas EXCEPT ![proc[t].inst] = IF @ < 2 THEN @ + 1 ELSE @]
  BY AtTick DEF Count, At, Inst, ToAlert, HealthInv, RowsOK
<1>2. /\ quedas' \in [Instances -> 0..2]
      /\ \A i \in Instances : i # proc[t].inst => quedas'[i] = quedas[i]
      /\ quedas'[proc[t].inst] = 2 => quedas[proc[t].inst] > 0
  BY <1>1
<1>3. RowsOK'
  BY <1>1, <1>2 DEF HealthInv, RowsOK, ToAlert
<1>4. OneAlertPerOutage' /\ SilenceOncePerCooldown'
  BY <1>1 DEF HealthInv, OneAlertPerOutage, SilenceOncePerCooldown
<1>5. CASE quedas'[proc[t].inst] >= 2
  <2>1. quedas[proc[t].inst] > 0
    BY <1>1, <1>2, <1>5
  <2>2. proc[t].inst \in proc[t].fell
    BY <1>1, <2>1, AtTick DEF TickOK, Looked, ToCount
  <2>3. Goto(t, "findAlert")
    BY <1>5 DEF Count, ToAlert, Inst
  <2>4. /\ Becomes(t, Moved(t, "findAlert", proc[t].row)) /\ proc[t].row \in Rows \cup {0}
        /\ "findAlert" \in TickPc \ {"loop"}
    BY <2>3, AtTick, GotoIs DEF TickPc
  <2> QED BY <1>1, <1>2, <1>3, <1>4, <2>2, <2>4, TickMoves
<1>6. CASE ~(quedas'[proc[t].inst] >= 2)
  <2>1. Leave(t)
    BY <1>6 DEF Count, ToAlert, Inst
  <2> QED BY <1>1, <1>2, <1>3, <1>4, <2>1, TickLeaves
<1> QED BY <1>5, <1>6

LEMMA FindAlertStep ==
  ASSUME HealthInv, NEW t \in Ticks, FindAlert(t) PROVE HealthInv'
<1>1. /\ UNCHANGED <<gateway, events, met, customers, status, outage, recent, running,
                     quedas, silenciosAbertos, troubles>>
      /\ proc[t].pc = "findAlert" /\ proc[t].inst \in proc[t].fell
  BY AtTick DEF FindAlert, memory, At, TickOK, Looked
<1>2. RowsOK' /\ OneAlertPerOutage' /\ SilenceOncePerCooldown'
  BY <1>1 DEF HealthInv, RowsOK, OneAlertPerOutage, SilenceOncePerCooldown
<1>3. CASE outage[proc[t].inst] = {}
  <2>1. Goto(t, "createAlert")
    BY <1>3 DEF FindAlert, Inst
  <2>2. /\ Becomes(t, Moved(t, "createAlert", proc[t].row)) /\ proc[t].row \in Rows \cup {0}
        /\ "createAlert" \in TickPc \ {"loop"}
    BY <2>1, AtTick, GotoIs DEF TickPc
  <2> QED BY <1>1, <1>2, <1>3, <2>2, TickMoves
<1>4. CASE outage[proc[t].inst] # {}
  BY <1>1, <1>2, <1>4, TickLeaves DEF FindAlert, Inst
<1> QED BY <1>3, <1>4

\* There is a name for a new row: fewer are taken than there are.
LEMMA RowIsFree ==
  ASSUME HealthInv, NEW i \in Instances, outage[i] = {}
  PROVE  FreshRow(i) \in Rows
<1> DEFINE n == Cardinality(Processes)
           held == [p \in Processes |-> proc[p].row]
           taken == {proc[p].row : p \in Processes}
<1>1. IsFiniteSet(Processes) /\ n \in Nat
  BY HealthAssumption, FS_Union, FS_CardinalityType DEF Processes
<1>2. IsFiniteSet(taken) /\ Cardinality(taken) <= n
  <2>1. held \in [Processes -> taken]
    OBVIOUS
  <2>2. \A r \in taken : \E p \in Processes : held[p] = r
    OBVIOUS
  <2>3. held \in Surjection(Processes, taken)
    BY <2>1, <2>2 DEF Surjection
  <2>4. IsFiniteSet(Processes)
    BY <1>1
  <2> HIDE DEF taken, held
  <2> QED BY <2>3, <2>4, FS_Surjection, Zenon
<1>3. IsFiniteSet(Rows) /\ Cardinality(Rows) = n + 2
  BY <1>1, FS_Interval DEF Rows
<1>4. PICK r \in Rows : r \notin taken
  <2>1. CASE Rows \subseteq taken
    <3>1. Cardinality(Rows) <= Cardinality(taken)
      BY <1>2, <2>1, FS_Subset
    <3>2. Cardinality(taken) \in Nat
      BY <1>2, FS_CardinalityType
    <3> HIDE DEF taken, n
    <3> QED BY <1>1, <1>2, <1>3, <3>1, <3>2
  <2> QED BY <2>1
<1>5. \E x \in Rows : x \notin outage[i] /\ \A p \in Processes : proc[p].row # x
  BY <1>4
<1> QED BY <1>5, Zenon DEF FreshRow

LEMMA CreateAlertStep ==
  ASSUME HealthInv, NEW t \in Ticks, CreateAlert(t) PROVE HealthInv'
<1>1. /\ UNCHANGED <<gateway, events, met, customers, status, recent, running,
                     quedas, silenciosAbertos, troubles>>
      /\ proc[t].pc = "createAlert" /\ proc[t].inst \in Instances /\ outage[proc[t].inst] = {}
      /\ Leave(t)
      /\ outage' = [outage EXCEPT ![proc[t].inst] = @ \cup {FreshRow(proc[t].inst)}]
  BY AtTick DEF CreateAlert, memory, At, Inst, TickOK, Absent
<1>2. PICK r : r = FreshRow(proc[t].inst)
  OBVIOUS
<1>3. r \in Rows
  BY <1>1, <1>2, RowIsFree
<1>4. outage \in [Instances -> SUBSET Rows]
  BY DEF HealthInv, RowsOK
<1>5. /\ outage' \in [Instances -> SUBSET Rows] /\ outage'[proc[t].inst] = {r}
      /\ \A i \in Instances : i # proc[t].inst => outage'[i] = outage[i]
  BY <1>1, <1>2, <1>3, <1>4
<1>6. RowsOK'
  BY <1>1, <1>5 DEF HealthInv, RowsOK
<1>7. OneAlertPerOutage' /\ SilenceOncePerCooldown'
  BY <1>1, <1>5 DEF HealthInv, OneAlertPerOutage, SilenceOncePerCooldown
<1> QED BY <1>1, <1>6, <1>7, TickLeaves

LEMMA MarkOpenStep ==
  ASSUME HealthInv, NEW t \in Ticks, MarkOpen(t) PROVE HealthInv'
<1>1. UNCHANGED <<gateway, events, met, customers, outage, recent, running,
                  silenciosAbertos, troubles>> /\ proc[t].pc = "markOpen"
  BY DEF MarkOpen, At
<1>2. RowsOK'
  BY <1>1, AtTick DEF MarkOpen, Inst, HealthInv, RowsOK, ToAlert, States
<1>3. OneAlertPerOutage' /\ SilenceOncePerCooldown'
  BY <1>1 DEF HealthInv, OneAlertPerOutage, SilenceOncePerCooldown
<1>4. /\ Becomes(t, Moved(t, "findOpen", proc[t].row)) /\ proc[t].row \in Rows \cup {0}
      /\ "findOpen" \in TickPc \ {"loop"}
  BY AtTick, GotoIs DEF TickPc, MarkOpen
<1>5. \A i \in Instances : i # proc[t].inst => quedas'[i] = quedas[i]
  BY DEF MarkOpen, Inst, HealthInv, RowsOK
<1> QED BY <1>1, <1>2, <1>3, <1>4, <1>5, TickMoves

\* What follows resolverAlerta, for a tick and for a webhook.
LEMMA TickResolved ==
  ASSUME HealthInv, NEW t \in Ticks, proc[t].pc \in {"findOpen", "resolve"}, Resolved(t),
         RowsOK', OneAlertPerOutage', SilenceOncePerCooldown',
         UNCHANGED <<running, quedas>>
  PROVE  HealthInv'
<1>1. CASE Leave(t)
  BY <1>1, TickLeaves
<1>2. CASE ~Leave(t)
  <2>1. proc' = [proc EXCEPT ![t].pc = "silence", ![t].row = 0]
    BY <1>2 DEF Resolved
  <2>2. Becomes(t, Moved(t, "silence", 0)) /\ "silence" \in TickPc \ {"loop"}
    BY <2>1 DEF Becomes, Moved, TickPc
  <2>3. \A i \in Instances : i # proc[t].inst => quedas'[i] = quedas[i]
    OBVIOUS
  <2> QED BY <2>2, <2>3, TickMoves
<1> QED BY <1>1, <1>2

LEMMA TickFindOpenStep ==
  ASSUME HealthInv, NEW t \in Ticks, FindOpen(t) PROVE HealthInv'
<1>1. UNCHANGED <<gateway, events, met, customers, status, outage, recent, running,
                  quedas, silenciosAbertos, troubles>> /\ proc[t].pc = "findOpen"
  BY DEF FindOpen, memory, At
<1>2. RowsOK' /\ OneAlertPerOutage' /\ SilenceOncePerCooldown'
  BY <1>1 DEF HealthInv, RowsOK, OneAlertPerOutage, SilenceOncePerCooldown
<1>3. CASE Resolved(t)
  BY <1>1, <1>2, <1>3, TickResolved
<1>4. CASE \E r \in outage[Inst(t)] : proc' = [proc EXCEPT ![t].pc = "resolve", ![t].row = r]
  <2>1. PICK r \in outage[Inst(t)] : proc' = [proc EXCEPT ![t].pc = "resolve", ![t].row = r]
    BY <1>4
  <2>2. Becomes(t, Moved(t, "resolve", r)) /\ "resolve" \in TickPc \ {"loop"}
    BY <2>1 DEF Becomes, Moved, TickPc
  <2>3. r \in Rows \cup {0}
    BY <1>1, AtTick DEF Inst, HealthInv, RowsOK
  <2> QED BY <1>1, <1>2, <2>2, <2>3, TickMoves
<1> QED BY <1>3, <1>4 DEF FindOpen

\* Closing an alert leaves at most what was there.
LEMMA ResolveFacts ==
  ASSUME HealthInv, NEW p \in Processes, Resolve(p)
  PROVE  /\ UNCHANGED <<gateway, events, met, customers, status, recent, running,
                        quedas, silenciosAbertos, troubles>>
         /\ RowsOK' /\ OneAlertPerOutage' /\ SilenceOncePerCooldown'
         /\ \A i \in Instances : outage'[i] \subseteq outage[i]
<1>1. UNCHANGED <<gateway, events, met, customers, status, recent, running,
                  quedas, silenciosAbertos, troubles>>
  BY DEF Resolve, memory
<1>2. outage \in [Instances -> SUBSET Rows]
  BY DEF HealthInv, RowsOK
<1>3. outage' \in [Instances -> SUBSET Rows] /\ \A i \in Instances : outage'[i] \subseteq outage[i]
  BY <1>2 DEF Resolve
<1> QED BY <1>1, <1>3 DEF HealthInv, RowsOK, OneAlertPerOutage, SilenceOncePerCooldown

LEMMA TickResolveStep ==
  ASSUME HealthInv, NEW t \in Ticks, Resolve(t) PROVE HealthInv'
  BY AtTick, ResolveFacts, TickResolved DEF Resolve, At

LEMMA SilenceStep ==
  ASSUME HealthInv, NEW t \in Ticks, Silence(t) PROVE HealthInv'
<1>1. UNCHANGED <<gateway, events, met, customers, status, outage, recent, running,
                  quedas, troubles>> /\ proc[t].pc = "silence"
  BY DEF Silence, At
<1>2. silenciosAbertos' \subseteq Instances
  BY DEF Silence, HealthInv, RowsOK
<1>3. RowsOK' /\ OneAlertPerOutage' /\ SilenceOncePerCooldown'
  BY <1>1, <1>2 DEF HealthInv, RowsOK, OneAlertPerOutage, SilenceOncePerCooldown
<1>4. CASE Leave(t)
  BY <1>1, <1>3, <1>4, TickLeaves
<1>5. CASE ~Leave(t)
  <2>1. Goto(t, "openSilence") /\ recent[proc[t].inst] = 0
    BY <1>5 DEF Silence, Inst
  <2>2. /\ Becomes(t, Moved(t, "openSilence", proc[t].row)) /\ proc[t].row \in Rows \cup {0}
        /\ "openSilence" \in TickPc \ {"loop"}
    BY <2>1, AtTick, GotoIs DEF TickPc
  <2> QED BY <1>1, <1>3, <2>1, <2>2, TickMoves
<1> QED BY <1>4, <1>5

LEMMA OpenSilenceStep ==
  ASSUME HealthInv, NEW t \in Ticks, OpenSilence(t) PROVE HealthInv'
<1>1. /\ UNCHANGED <<gateway, events, met, customers, status, outage, running, quedas, troubles>>
      /\ proc[t].pc = "openSilence" /\ proc[t].inst \in Instances /\ recent[proc[t].inst] = 0
      /\ Leave(t) /\ recent' = [recent EXCEPT ![proc[t].inst] = @ + 1]
  BY AtTick DEF OpenSilence, At, Inst, TickOK, Absent
<1>2. silenciosAbertos' \subseteq Instances
  BY <1>1 DEF OpenSilence, Inst, HealthInv, RowsOK
<1>3. recent \in [Instances -> Nat]
  BY DEF HealthInv, RowsOK
<1>4. RowsOK'
  BY <1>1, <1>2, <1>3 DEF HealthInv, RowsOK
<1>5. OneAlertPerOutage' /\ SilenceOncePerCooldown'
  BY <1>1, <1>3 DEF HealthInv, OneAlertPerOutage, SilenceOncePerCooldown
<1> QED BY <1>1, <1>4, <1>5, TickLeaves

--------------------------------------------------------------------------------
(* Webhooks, failures and the world.                                          *)

LEMMA AtHook ==
  ASSUME HealthInv, NEW h \in Hooks
  PROVE  /\ h \in Processes /\ h \notin Ticks /\ proc[h] \in Local /\ HookRole(proc[h])
         /\ proc[h].pc # "idle" => proc[h].inst \in Instances /\ proc[h].seen \in States
  BY HealthAssumption DEF HealthInv, Processes, Roles, HookRole, Busy

LEMMA HookMoves ==
  ASSUME HealthInv, NEW h \in Hooks, proc[h].pc # "idle",
         NEW pc \in HookPc, NEW row \in Rows \cup {0}, Becomes(h, Moved(h, pc, row)),
         RowsOK', running' = running, recent' = recent,
         \A i \in Instances : outage'[i] \subseteq outage[i],
         \A i \in Instances : quedas'[i] = 0 \/ quedas'[i] = quedas[i]
  PROVE  HealthInv'
<1>1. PICK r : r = Moved(h, pc, row)
  OBVIOUS
<1>2. /\ r \in Local /\ r.pc = pc /\ r.inst = proc[h].inst /\ r.seen = proc[h].seen
  BY <1>1, AtHook, MovedFacts DEF AnyPc
<1>3. HookRole(r)
  BY <1>2, AtHook DEF HookRole, Busy
<1> QED BY <1>1, <1>2, <1>3, HookGoesOn

LEMMA HookLeaves ==
  ASSUME HealthInv, NEW h \in Hooks, Leave(h),
         RowsOK', running' = running, recent' = recent,
         \A i \in Instances : outage'[i] \subseteq outage[i],
         \A i \in Instances : quedas'[i] = 0 \/ quedas'[i] = quedas[i]
  PROVE  HealthInv'
<1>1. PICK r : r = Idle
  OBVIOUS
<1>2. Becomes(h, r) /\ r \in Local /\ HookRole(r)
  BY <1>1, AtHook, IdleOK DEF Leave, Becomes
<1> QED BY <1>2, HookGoesOn

LEMMA HookReadStep ==
  ASSUME HealthInv, NEW h \in Hooks, HookRead(h) PROVE HealthInv'
<1>1. PICK i \in Instances : \E e \in events[i] :
        /\ events' = [events EXCEPT ![i] = @ \ {e}]
        /\ proc' = [proc EXCEPT ![h] =
              [Idle EXCEPT !.inst = i, !.seen = e,
                           !.pc = IF e = "open" /\ status[i] # "open"
                                  THEN "reopen" ELSE "note"]]
  BY DEF HookRead
<1>2. PICK e \in events[i] :
        /\ events' = [events EXCEPT ![i] = @ \ {e}]
        /\ proc' = [proc EXCEPT ![h] =
              [Idle EXCEPT !.inst = i, !.seen = e,
                           !.pc = IF e = "open" /\ status[i] # "open"
                                  THEN "reopen" ELSE "note"]]
  BY <1>1
<1>3. PICK pc \in {"reopen", "note"} :
        proc' = [proc EXCEPT ![h] = [Idle EXCEPT !.inst = i, !.seen = e, !.pc = pc]]
  <2>1. CASE e = "open" /\ status[i] # "open"
    BY <1>2, <2>1
  <2>2. CASE ~(e = "open" /\ status[i] # "open")
    BY <1>2, <2>2
  <2> QED BY <2>1, <2>2
<1>4. PICK r : r = [Idle EXCEPT !.inst = i, !.seen = e, !.pc = pc]
  OBVIOUS
<1>5. events \in [Instances -> SUBSET States]
  BY DEF HealthInv, RowsOK
<1>6. e \in States
  BY <1>5
<1>7. r = [pc |-> pc, inst |-> i, seen |-> e, row |-> 0, todo |-> {}, fell |-> {}]
  BY <1>4 DEF Idle
<1>8. r \in Local /\ HookRole(r)
  BY <1>6, <1>7 DEF Local, AnyPc, HookPc, HookRole, Busy
<1>9. UNCHANGED <<gateway, met, customers, status, outage, recent, running, quedas,
                  silenciosAbertos, troubles>>
  BY DEF HookRead, memory
<1>10. RowsOK'
  <2>1. events' \in [Instances -> SUBSET States]
    BY <1>2, <1>5
  <2> QED BY <2>1, <1>9 DEF HealthInv, RowsOK
<1>11. Becomes(h, r)
  BY <1>3, <1>4 DEF Becomes
<1> QED BY <1>8, <1>9, <1>10, <1>11, HookGoesOn

LEMMA HookWriteStep ==
  ASSUME HealthInv, NEW h \in Hooks, HookWrite(h) PROVE HealthInv'
<1>1. UNCHANGED <<gateway, events, met, customers, outage, recent, running, quedas,
                  silenciosAbertos, troubles>> /\ proc[h].pc \in {"reopen", "note"}
  BY DEF HookWrite, memory
<1>2. RowsOK'
  BY <1>1, AtHook DEF HookWrite, Inst, HealthInv, RowsOK
<1>3. CASE Leave(h)
  BY <1>1, <1>2, <1>3, HookLeaves
<1>4. CASE Goto(h, "forget")
  <2>1. /\ Becomes(h, Moved(h, "forget", proc[h].row)) /\ proc[h].row \in Rows \cup {0}
        /\ "forget" \in HookPc
    BY <1>4, AtHook, GotoIs DEF HookPc
  <2> QED BY <1>1, <1>2, <2>1, HookMoves
<1> QED BY <1>3, <1>4 DEF HookWrite

LEMMA ForgetStep ==
  ASSUME HealthInv, NEW h \in Hooks, Forget(h) PROVE HealthInv'
<1>1. UNCHANGED <<gateway, events, met, customers, status, outage, recent, running,
                  silenciosAbertos, troubles>> /\ proc[h].pc = "forget"
  BY DEF Forget, At
<1>2. quedas \in [Instances -> 0..ToAlert] /\ quedas' = [quedas EXCEPT ![proc[h].inst] = 0]
  BY DEF HealthInv, RowsOK, Forget, Inst
<1>3. quedas' \in [Instances -> 0..ToAlert]
      /\ \A i \in Instances : quedas'[i] = 0 \/ quedas'[i] = quedas[i]
  <2>1. 0 \in 0..ToAlert
    BY DEF ToAlert
  <2> QED BY <1>2, <2>1, Zenon
<1>4. RowsOK'
  BY <1>1, <1>3 DEF HealthInv, RowsOK
<1>5. /\ Becomes(h, Moved(h, "findOpen", proc[h].row)) /\ proc[h].row \in Rows \cup {0}
      /\ "findOpen" \in HookPc
  BY AtHook, GotoIs DEF HookPc, Forget
<1> QED BY <1>1, <1>3, <1>4, <1>5, HookMoves

LEMMA HookFindOpenStep ==
  ASSUME HealthInv, NEW h \in Hooks, FindOpen(h) PROVE HealthInv'
<1>1. UNCHANGED <<gateway, events, met, customers, status, outage, recent, running,
                  quedas, silenciosAbertos, troubles>> /\ proc[h].pc = "findOpen"
  BY DEF FindOpen, memory, At
<1>2. RowsOK'
  BY <1>1 DEF HealthInv, RowsOK
<1>3. CASE Resolved(h)
  BY <1>1, <1>2, <1>3, AtHook, HookLeaves DEF Resolved
<1>4. CASE \E r \in outage[Inst(h)] : proc' = [proc EXCEPT ![h].pc = "resolve", ![h].row = r]
  <2>1. PICK r \in outage[Inst(h)] : proc' = [proc EXCEPT ![h].pc = "resolve", ![h].row = r]
    BY <1>4
  <2>2. Becomes(h, Moved(h, "resolve", r)) /\ "resolve" \in HookPc
    BY <2>1 DEF Becomes, Moved, HookPc
  <2>3. r \in Rows \cup {0}
    BY <1>1, AtHook DEF Inst, HealthInv, RowsOK
  <2> QED BY <1>1, <1>2, <2>2, <2>3, HookMoves
<1> QED BY <1>3, <1>4 DEF FindOpen

LEMMA HookResolveStep ==
  ASSUME HealthInv, NEW h \in Hooks, Resolve(h) PROVE HealthInv'
  BY AtHook, ResolveFacts, HookLeaves DEF Resolve, Resolved

LEMMA ThrowsStep ==
  ASSUME HealthInv, NEW p \in Processes, Throws(p) PROVE HealthInv'
<1>1. UNCHANGED <<gateway, met, customers, status, outage, recent, running, quedas,
                  silenciosAbertos>> /\ Leave(p) /\ proc[p].pc \notin {"idle", "loop"}
  BY DEF Throws, memory
<1>2. troubles' \in 0..MaxTroubles
  BY HealthAssumption DEF Throws, HealthInv, RowsOK
<1>3. events' \in [Instances -> SUBSET States]
  <2>1. events \in [Instances -> SUBSET States]
    BY DEF HealthInv, RowsOK
  <2>2. CASE proc[p].pc \in {"reopen", "note"}
    <3>1. p \in Hooks
      BY <2>2, AtTick DEF Processes, TickRole, TickPc
    <3>2. proc[p].seen \in States
      BY <1>1, <3>1, AtHook
    <3>3. events' = [events EXCEPT ![proc[p].inst] = @ \cup {proc[p].seen}]
      BY <2>2 DEF Throws, Inst
    <3> QED BY <2>1, <3>2, <3>3
  <2>3. CASE proc[p].pc \notin {"reopen", "note"}
    BY <2>1, <2>3 DEF Throws
  <2> QED BY <2>2, <2>3
<1>4. RowsOK' /\ OneAlertPerOutage' /\ SilenceOncePerCooldown'
  BY <1>1, <1>2, <1>3 DEF HealthInv, RowsOK, OneAlertPerOutage, SilenceOncePerCooldown
<1>5. CASE p \in Ticks
  BY <1>1, <1>4, <1>5, TickLeaves
<1>6. CASE p \in Hooks
  BY <1>1, <1>4, <1>6, HookLeaves
<1> QED BY <1>5, <1>6 DEF Processes

LEMMA RestartStep ==
  ASSUME HealthInv, Restart PROVE HealthInv'
<1>1. /\ UNCHANGED <<gateway, met, customers, status, outage, recent>>
      /\ running' = FALSE /\ quedas' = [i \in Instances |-> 0] /\ silenciosAbertos' = {}
      /\ proc' = [p \in Processes |-> Idle]
  BY DEF Restart
<1>2. troubles' \in 0..MaxTroubles
  BY HealthAssumption DEF Restart, HealthInv, RowsOK
<1>3. events' \in [Instances -> SUBSET States]
  <2>1. \A h \in Hooks : proc[h].pc \in {"reopen", "note"} => proc[h].seen \in States
    BY AtHook
  <2>2. events \in [Instances -> SUBSET States]
    BY DEF HealthInv, RowsOK
  <2> QED BY <2>1, <2>2 DEF Restart
<1>4. RowsOK' /\ OneAlertPerOutage' /\ SilenceOncePerCooldown'
  BY <1>1, <1>2, <1>3 DEF HealthInv, RowsOK, OneAlertPerOutage, SilenceOncePerCooldown, ToAlert
<1>5. /\ \A t \in Ticks : proc'[t] = Idle
      /\ \A h \in Hooks : proc'[h] = Idle
  BY <1>1 DEF Processes
<1>6. Idle.pc = "idle"
  BY DEF Idle
<1>7. Roles' /\ proc' \in [Processes -> Local]
  BY <1>1, <1>5, IdleOK DEF Roles
<1>8. Flag' /\ OneTick' /\ \A t \in Ticks : TickOK(proc[t])'
  <2>1. Flag'
    BY <1>1, <1>5, <1>6 DEF Flag
  <2>2. OneTick'
    BY <1>5, <1>6 DEF OneTick
  <2> QED BY <2>1, <2>2, <1>5, <1>6 DEF TickOK, Looked, Absent
<1> QED BY <1>4, <1>7, <1>8 DEF HealthInv

LEMMA WorldStep ==
  ASSUME HealthInv, GatewayTurns \/ FirstLead \/ CustomersTurn \/ CooldownEnds
  PROVE  HealthInv'
<1>1. UNCHANGED <<proc, running, quedas, outage, status, silenciosAbertos, troubles>>
  BY DEF GatewayTurns, FirstLead, CustomersTurn, CooldownEnds, memory
<1>2. \/ /\ gateway' \in [Instances -> States \cup {"mute"}]
         /\ events' \in [Instances -> SUBSET States]
         /\ UNCHANGED <<met, customers, recent>>
      \/ /\ UNCHANGED <<gateway, events>> /\ met' \in [Instances -> BOOLEAN]
         /\ customers' \in [Instances -> {"talking", "silent", "dead"}]
         /\ recent' \in [Instances -> Nat]
         /\ \A i \in Instances : recent'[i] = 0 \/ recent'[i] = recent[i]
  <2>0. RowsOK
    BY DEF HealthInv
  <2>1. CASE GatewayTurns
    <3>1. PICK i \in Instances, s \in States \cup {"mute"} :
            /\ gateway' = [gateway EXCEPT ![i] = s]
            /\ \E told \in SUBSET ({s} \cap States) : events' = [events EXCEPT ![i] = @ \cup told]
      BY <2>1 DEF GatewayTurns
    <3>2. PICK told \in SUBSET States : events' = [events EXCEPT ![i] = @ \cup told]
      BY <3>1
    <3>3. events \in [Instances -> SUBSET States] /\ gateway \in [Instances -> States \cup {"mute"}]
      BY <2>0 DEF RowsOK
    <3>4. events' \in [Instances -> SUBSET States]
      BY <3>2, <3>3
    <3>5. gateway' \in [Instances -> States \cup {"mute"}]
      BY <3>1, <3>3
    <3>6. UNCHANGED <<met, customers, recent>>
      BY <2>1 DEF GatewayTurns
    <3> QED BY <3>4, <3>5, <3>6
  <2>2. CASE FirstLead
    BY <2>0, <2>2 DEF FirstLead, RowsOK
  <2>3. CASE CustomersTurn
    BY <2>0, <2>3 DEF CustomersTurn, RowsOK
  <2>4. CASE CooldownEnds
    BY <2>0, <2>4 DEF CooldownEnds, RowsOK
  <2> QED BY <2>1, <2>2, <2>3, <2>4
<1>3. RowsOK'
  BY <1>1, <1>2 DEF HealthInv, RowsOK
<1>4. \A i \in Instances : recent'[i] = 0 \/ recent'[i] = recent[i]
  BY <1>2
<1> QED BY <1>1, <1>3, <1>4, WorldTurns

--------------------------------------------------------------------------------
(* The invariant.                                                             *)

LEMMA HealthInitOK ==
  ASSUME HealthInit PROVE HealthInv
<1>1. RowsOK /\ OneAlertPerOutage /\ SilenceOncePerCooldown
  BY HealthAssumption DEF HealthInit, RowsOK, OneAlertPerOutage, SilenceOncePerCooldown, ToAlert
<1>2. \A p \in Processes : proc[p] = Idle
  BY DEF HealthInit
<1>3. Idle.pc = "idle"
  BY DEF Idle
<1>4. proc \in [Processes -> Local] /\ Roles
  BY <1>2, IdleOK DEF HealthInit, Roles, Processes
<1>5. Flag /\ OneTick /\ \A t \in Ticks : TickOK(proc[t])
  BY <1>2, <1>3 DEF HealthInit, Flag, OneTick, TickOK, Looked, Absent, Processes
<1> QED BY <1>1, <1>4, <1>5 DEF HealthInv

LEMMA HealthStep ==
  ASSUME HealthInv, [HealthNext]_healthVars PROVE HealthInv'
<1>1. ASSUME NEW t \in Ticks, TickStep(t) PROVE HealthInv'
  BY <1>1, TickBeginStep, TickEndStep, ProbeStep, MarkOnlyStep, ConnectStep, MarkDownStep,
     CountStep, FindAlertStep, CreateAlertStep, MarkOpenStep, TickFindOpenStep,
     TickResolveStep, SilenceStep, OpenSilenceStep DEF TickStep
<1>2. ASSUME NEW h \in Hooks, HookRead(h) \/ HookStep(h) PROVE HealthInv'
  BY <1>2, HookReadStep, HookWriteStep, ForgetStep, HookFindOpenStep, HookResolveStep
     DEF HookStep
<1>3. ASSUME NEW p \in Processes, Throws(p) PROVE HealthInv'
  BY <1>3, ThrowsStep
<1>4. CASE Restart
  BY <1>4, RestartStep
<1>5. CASE GatewayTurns \/ FirstLead \/ CustomersTurn \/ CooldownEnds
  BY <1>5, WorldStep
<1>6. CASE UNCHANGED healthVars
  <2>1. RowsOK' /\ UNCHANGED <<proc, running, quedas, outage, recent>>
    BY <1>6 DEF healthVars, memory, HealthInv, RowsOK
  <2> QED BY <2>1, WorldTurns
<1> QED BY <1>1, <1>2, <1>3, <1>4, <1>5, <1>6 DEF HealthNext

THEOREM HealthCorrect == HealthSpec => []HealthInv
  BY HealthInitOK, HealthStep, PTL DEF HealthSpec

\* The monitor's records keep their types, and its flag is up exactly while a tick runs.
THEOREM HealthTyped == HealthSpec => []HealthTypeOK
<1>1. HealthInv => HealthTypeOK
  BY DEF HealthInv, HealthTypeOK, RowsOK, Flag, Local, AnyPc, TickPc, HookPc, At
<1> QED BY <1>1, HealthCorrect, PTL

\* One outage has one open alert (abrirAlerta: one alert per fall).
THEOREM AlertsAreSingle == HealthSpec => []OneAlertPerOutage
<1>1. HealthInv => OneAlertPerOutage
  BY DEF HealthInv
<1> QED BY <1>1, HealthCorrect, PTL

\* No tick alerts of an instance that was not already counted as down when it began.
THEOREM AlertsHadTwoLooks == HealthSpec => []AlertHadTwoLooks
<1>1. HealthInv => AlertHadTwoLooks
  BY DEF HealthInv, AlertHadTwoLooks, TickOK, Looked, Inst
<1> QED BY <1>1, HealthCorrect, PTL

\* A restart does not make the monitor report one silence twice in a cooldown.
THEOREM SilenceIsReportedOnce == HealthSpec => []SilenceOncePerCooldown
<1>1. HealthInv => SilenceOncePerCooldown
  BY DEF HealthInv
<1> QED BY <1>1, HealthCorrect, PTL

================================================================================
