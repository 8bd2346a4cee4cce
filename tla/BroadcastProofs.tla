---------------------------- MODULE BroadcastProofs ----------------------------
(***************************************************************************)
(* Proofs about Broadcast, for any companies, campaigns, contacts, workers, *)
(* limits and clocks.                                                       *)
(***************************************************************************)
EXTENDS Broadcast, TLAPS, FiniteSetTheorems, WellFoundedInduction

--------------------------------------------------------------------------------
(* The type invariant.  It has two halves, which few actions disturb at once. *)

RowsOK ==
    /\ now \in Nat
    /\ status \in [Campaigns -> CampaignStatus]
    /\ last \in [Campaigns -> Time]
    /\ st \in [Targets -> TargetStatus]
    /\ claimed \in [Targets -> BOOLEAN]
    /\ sentAt \in [Targets -> Time]
    /\ spoke \in [Leads -> BOOLEAN]
    /\ hook \in [Leads -> Hook]
    /\ removing \in SUBSET Campaigns
    /\ crashes \in Nat
    /\ sends \in [Targets -> Nat]
    /\ retries \in [Targets -> Nat]
    /\ sentOn \in [Campaigns -> Nat]
    /\ sentBy \in [Tenants -> Nat]
    /\ carried \in [Campaigns -> BOOLEAN]

WorkersOK ==
    /\ pc \in [Workers -> PC]
    /\ todo \in [Workers -> SUBSET Campaigns]
    /\ camp \in [Workers -> Campaigns \cup {Nobody}]
    /\ tgt \in [Workers -> Targets \cup {Nobody}]
    /\ at \in [Workers -> Time]
    /\ \A w \in Workers :
          /\ pc[w] \in {"idle", "loop"} <=> camp[w] = Nobody
          /\ pc[w] \in {"idle", "loop", "count", "close"} <=> tgt[w] = Nobody
          /\ tgt[w] # Nobody => CampaignOf[tgt[w]] = camp[w]

Serving == PC \ {"idle", "loop", "count", "close"}

LEMMA Halves ==
  /\ TypeOK <=> RowsOK /\ WorkersOK
  /\ TypeOK' <=> (RowsOK /\ WorkersOK)'
  BY DEF TypeOK, RowsOK, WorkersOK

\* What the building blocks of the actions do to the workers' half.
LEMMA FinishOK == ASSUME WorkersOK, NEW w \in Workers, Finish(w) PROVE WorkersOK'
  BY TopologyAssumption DEF WorkersOK, Finish, PC, InLoop, Time, Never

LEMMA VanishOK == ASSUME WorkersOK, NEW w \in Workers, Vanish(w) PROVE WorkersOK'
  BY TopologyAssumption DEF WorkersOK, Vanish, PC, InLoop, Time, Never

LEMMA GotoOK ==
  ASSUME WorkersOK, NEW w \in Workers, NEW l \in Serving, pc[w] \in Serving, Goto(w, l)
  PROVE  WorkersOK'
  BY TopologyAssumption DEF WorkersOK, Goto, Serving

LEMMA SameWorkersOK == ASSUME WorkersOK, UNCHANGED processes PROVE WorkersOK'
  BY DEF WorkersOK, processes

LEMMA ServingTarget ==
  ASSUME WorkersOK, NEW w \in Workers, pc[w] \in Serving
  PROVE  /\ tgt[w] \in Targets /\ camp[w] \in Campaigns
         /\ CampaignOf[tgt[w]] = camp[w]
  BY TopologyAssumption DEF WorkersOK, Serving

LEMMA SetTargetOK ==
  ASSUME NEW t \in Targets, NEW s \in TargetStatus, NEW time \in Time,
         SetTarget(t, s, time),
         st \in [Targets -> TargetStatus], claimed \in [Targets -> BOOLEAN],
         sentAt \in [Targets -> Time]
  PROVE  /\ st' \in [Targets -> TargetStatus]
         /\ claimed' \in [Targets -> BOOLEAN]
         /\ sentAt' \in [Targets -> Time]
  BY DEF SetTarget

LEMMA TypeInit == Init => TypeOK
  BY TopologyAssumption DEF Init, TypeOK, CampaignStatus, TargetStatus, PC, Hook, Time, NoHook, Never

LEMMA SameRowsOK ==
  ASSUME RowsOK, UNCHANGED <<rows, world, history>> PROVE RowsOK'
  BY DEF RowsOK, rows, world, history

LEMMA TypeTick ==
  ASSUME TypeOK, NEW w \in Workers, Tick(w) PROVE TypeOK'
<1> USE Halves
<1> SUFFICES RowsOK' /\ WorkersOK'  OBVIOUS
<1>1. CASE TickBegin(w)
  <2>1. WorkersOK'
    BY <1>1, TopologyAssumption DEF TickBegin, WorkersOK, PC, InLoop, rows, world, history
  <2> QED BY <1>1, <2>1, SameRowsOK DEF TickBegin
<1>2. CASE TickPick(w)
  <2>1. PICK c \in todo[w] : TickPick(w)!2!(c)
    BY <1>2 DEF TickPick
  <2>2. c \in Campaigns /\ pc[w] = "loop" /\ UNCHANGED at
    BY <1>2 DEF TickPick, WorkersOK
  <2>3. WorkersOK'
    BY <2>1, <2>2, TopologyAssumption DEF WorkersOK, PC, InLoop, TargetsOf
  <2> QED BY <1>2, <2>3, SameRowsOK DEF TickPick
<1>3. CASE TickCount(w)
  <2>1. WorkersOK'
    BY <1>3, FinishOK, TopologyAssumption DEF TickCount, Goto, WorkersOK, PC, InLoop
  <2> QED BY <1>3, <2>1, SameRowsOK DEF TickCount
<1>4. CASE TickClose(w)
  <2>1. WorkersOK'
    BY <1>4, FinishOK DEF TickClose
  <2>2. camp[w] \in Campaigns
    BY <1>4 DEF TickClose, WorkersOK
  <2> QED BY <1>4, <2>1, <2>2 DEF TickClose, RowsOK, CampaignStatus, world, history
<1>5. CASE TickMarkFailed(w)
  <2>1. WorkersOK'
    BY <1>5, FinishOK, VanishOK DEF TickMarkFailed
  <2>2. tgt[w] \in Targets
    BY <1>5, ServingTarget DEF TickMarkFailed, Serving, PC, InLoop
  <2>3. RowsOK'
    BY <1>5, <2>2, SetTargetOK DEF TickMarkFailed, RowsOK, TargetStatus, rows, world, history
  <2> QED BY <2>1, <2>3
<1>6. CASE TickPauseForAi(w)
  <2>1. WorkersOK'
    BY <1>6, FinishOK DEF TickPauseForAi
  <2>2. camp[w] \in Campaigns
    BY <1>6, ServingTarget DEF TickPauseForAi, Serving, PC, InLoop
  <2> QED BY <1>6, <2>1, <2>2 DEF TickPauseForAi, RowsOK, CampaignStatus, world, history
<1> QED BY <1>1, <1>2, <1>3, <1>4, <1>5, <1>6 DEF Tick

LEMMA TypeDeliver ==
  ASSUME TypeOK, NEW w \in Workers, Deliver(w) PROVE TypeOK'
<1> USE Halves
<1> SUFFICES RowsOK' /\ WorkersOK'  OBVIOUS
<1>a. pc[w] \in Serving
  BY DEF Deliver, Reserve, Claim, ReadLead, NoSender, BuildContent, RecheckActive,
         RecheckLead, RecheckWindow, Release, Skip, SendText, MarkSent, Rescue,
         RescueAiConfig, Serving, PC, BeforeSend, InLoop
<1>b. tgt[w] \in Targets /\ camp[w] \in Campaigns /\ CampaignOf[tgt[w]] = camp[w]
  BY <1>a, ServingTarget
<1>c. {"lead", "noSender", "content", "recheck", "fresh", "gate", "skip", "release",
       "aiConfig", "send", "mark", "rescue", "claim", "markFailed", "pause"} \subseteq Serving
  BY DEF Serving, PC, BeforeSend, InLoop
<1>1. CASE Reserve(w)
  <2>1. WorkersOK'
    <3>1. now \in Time
      BY DEF RowsOK, Time
    <3> QED
      BY <1>1, <3>1, <1>a, <1>b, <1>c, FinishOK, TopologyAssumption DEF Reserve, WorkersOK, Serving
  <2> QED BY <1>1, <2>1, SameRowsOK DEF Reserve
<1>2. CASE Claim(w)
  <2>1. WorkersOK'
    BY <1>2, <1>a, <1>b, <1>c, FinishOK, TopologyAssumption DEF Claim, WorkersOK, Time, Never, Serving
  <2>2. at[w] \in Time
    BY DEF WorkersOK
  <2>3. RowsOK'
    BY <1>2, <1>b, <2>2 DEF Claim, RowsOK, world, history
  <2> QED BY <2>1, <2>3
<1>3. CASE ReadLead(w)
  <2>1. WorkersOK'
    BY <1>3, <1>a, <1>c, GotoOK DEF ReadLead
  <2> QED BY <1>3, <2>1, SameRowsOK DEF ReadLead
<1>4. CASE NoSender(w)
  <2>1. WorkersOK'
    BY <1>4, <1>a, <1>c, FinishOK, GotoOK DEF NoSender
  <2> QED BY <1>4, <1>b, <2>1, SetTargetOK DEF NoSender, RowsOK, TargetStatus, Time, Never, rows, world, history
<1>5. CASE BuildContent(w)
  <2>1. WorkersOK'
    BY <1>5, <1>a, <1>c, GotoOK DEF BuildContent
  <2> QED BY <1>5, <2>1, SameRowsOK DEF BuildContent
<1>6. CASE RecheckActive(w)
  <2>1. WorkersOK'
    BY <1>6, <1>a, <1>c, GotoOK DEF RecheckActive
  <2> QED BY <1>6, <2>1, SameRowsOK DEF RecheckActive
<1>7. CASE RecheckLead(w)
  <2>1. WorkersOK'
    BY <1>7, <1>a, <1>c, GotoOK DEF RecheckLead
  <2> QED BY <1>7, <2>1, SameRowsOK DEF RecheckLead
<1>8. CASE RecheckWindow(w)
  <2>1. WorkersOK'
    BY <1>8, <1>a, <1>c, GotoOK DEF RecheckWindow
  <2> QED BY <1>8, <2>1, SameRowsOK DEF RecheckWindow
<1>9. CASE Release(w)
  <2>1. WorkersOK'
    BY <1>9, <1>a, <1>c, FinishOK DEF Release
  <2> QED BY <1>9, <1>b, <2>1, SetTargetOK DEF Release, RowsOK, TargetStatus, Time, Never, rows, world, history
<1>10. CASE Skip(w)
  <2>1. WorkersOK'
    BY <1>10, <1>a, <1>c, FinishOK, GotoOK DEF Skip
  <2> QED BY <1>10, <1>b, <2>1, SetTargetOK DEF Skip, RowsOK, TargetStatus, Time, Never, rows, world, history
<1>11. CASE SendText(w)
  <2>1. WorkersOK'
    BY <1>11, <1>a, <1>c, GotoOK DEF SendText
  <2>2. TenantOf[camp[w]] \in Tenants
    BY <1>b, TopologyAssumption
  <2> QED BY <1>11, <1>b, <2>1, <2>2 DEF SendText, RowsOK, rows, world, history
<1>12. CASE MarkSent(w)
  <2>1. WorkersOK'
    BY <1>12, <1>a, <1>c, FinishOK, GotoOK DEF MarkSent
  <2> QED BY <1>12, <1>b, <2>1, SetTargetOK DEF MarkSent, RowsOK, TargetStatus, Time, Never, rows, world, history
<1>13. CASE Rescue(w)
  <2>1. WorkersOK'
    BY <1>13, <1>a, <1>c, GotoOK, VanishOK DEF Rescue, Rethrow
  <2> QED BY <1>13, <1>b, <2>1, SetTargetOK DEF Rescue, RowsOK, TargetStatus, Time, Never, rows, world, history
<1>14. CASE RescueAiConfig(w)
  <2>1. WorkersOK'
    BY <1>14, <1>a, <1>c, GotoOK, VanishOK DEF RescueAiConfig, Rethrow
  <2> QED BY <1>14, <1>b, <2>1, SetTargetOK DEF RescueAiConfig, RowsOK, TargetStatus, Time, Never, rows, world, history
<1> QED BY <1>1, <1>2, <1>3, <1>4, <1>5, <1>6, <1>7, <1>8, <1>9, <1>10, <1>11, <1>12, <1>13, <1>14 DEF Deliver

LEMMA TypeSendNow ==
  ASSUME TypeOK, NEW w \in Workers, SendNow(w) PROVE TypeOK'
<1>1. WorkersOK'
  BY Halves, TopologyAssumption DEF SendNow, WorkersOK, PC, InLoop
<1> QED BY <1>1, Halves, SameRowsOK DEF SendNow

LEMMA TypeFault ==
  ASSUME TypeOK, NEW w \in Workers, Fault(w) PROVE TypeOK'
<1>1. CASE ReserveThrows(w)
  <2>1. WorkersOK'
    BY <1>1, Halves, GotoOK, VanishOK DEF ReserveThrows, Serving, PC, InLoop
  <2> QED BY <1>1, <2>1, Halves, SameRowsOK DEF ReserveThrows
<1>2. CASE DeliverThrows(w)
  <2>1. WorkersOK'
    BY <1>2, Halves, GotoOK DEF DeliverThrows, Serving, PC, InLoop, BeforeSend
  <2> QED BY <1>2, <2>1, Halves, SameRowsOK DEF DeliverThrows
<1>3. CASE Crash(w)
  <2>1. RowsOK'
    BY <1>3, Halves DEF Crash, RowsOK, rows, history
  <2> QED BY <1>3, <2>1, Halves, VanishOK DEF Crash
<1> QED BY <1>1, <1>2, <1>3 DEF Fault

LEMMA TypeManage ==
  ASSUME TypeOK, NEW c \in Campaigns, Start(c) \/ Manage(c) PROVE TypeOK'
<1>1. WorkersOK'
  BY Halves, SameWorkersOK
  DEF Manage, Start, Pause, Cancel, SetStatus, RetryFailed, RemoveCheck, RemoveDelete
<1>2. CASE Start(c) \/ Pause(c) \/ Cancel(c)
  <2>1. RowsOK'
    BY <1>2, Halves DEF Start, Pause, Cancel, SetStatus, RowsOK, CampaignStatus, world, history
  <2> QED BY <1>1, <2>1, Halves
<1>3. CASE RetryFailed(c)
  <2>1. RowsOK'
    BY <1>3, Halves DEF RetryFailed, RowsOK, CampaignStatus, TargetStatus, world
  <2> QED BY <1>1, <2>1, Halves
<1>4. CASE RemoveCheck(c)
  <2>1. RowsOK'
    BY <1>4, Halves DEF RemoveCheck, RowsOK, rows, history
  <2> QED BY <1>1, <2>1, Halves
<1>5. CASE RemoveDelete(c)
  <2>1. RowsOK'
    BY <1>5, Halves DEF RemoveDelete, RowsOK, CampaignStatus, TargetStatus, Time, Never, history
  <2> QED BY <1>1, <2>1, Halves
<1> QED BY <1>2, <1>3, <1>4, <1>5 DEF Manage

LEMMA TypeReply ==
  ASSUME TypeOK, NEW l \in Leads, Reply(l) PROVE TypeOK'
<1>1. WorkersOK'
  BY Halves, SameWorkersOK DEF Reply, LeadSpeaks, HookRead, HookWrite, HookLost
<1>2. CASE LeadSpeaks(l)
  <2>1. RowsOK'
    BY <1>2, Halves DEF LeadSpeaks, RowsOK, Hook, history
  <2> QED BY <1>1, <2>1, Halves
<1>3. CASE HookRead(l)
  <2>1. hook' \in [Leads -> Hook]
    BY <1>3, Halves DEF HookRead, RowsOK, Hook, NoHook
  <2>2. RowsOK'
    BY <1>3, <2>1, Halves DEF HookRead, RowsOK, rows, history
  <2> QED BY <1>1, <2>2, Halves
<1>4. CASE HookWrite(l)
  <2>1. RowsOK'
    BY <1>4, Halves DEF HookWrite, RowsOK, Hook, NoHook, TargetStatus, history
  <2> QED BY <1>1, <2>1, Halves
<1>5. CASE HookLost(l)
  <2>1. RowsOK'
    BY <1>5, Halves DEF HookLost, RowsOK, Hook, NoHook, rows, history
  <2> QED BY <1>1, <2>1, Halves
<1> QED BY <1>2, <1>3, <1>4, <1>5 DEF Reply

LEMMA TypeNext == TypeOK /\ [Next]_vars => TypeOK'
<1> SUFFICES ASSUME TypeOK, [Next]_vars PROVE TypeOK'
  OBVIOUS
<1>1. CASE \E w \in Workers : Tick(w) \/ Deliver(w) \/ SendNow(w) \/ Fault(w)
  BY <1>1, TypeTick, TypeDeliver, TypeSendNow, TypeFault
<1>2. CASE \E c \in Campaigns : Start(c) \/ (c \in Managed /\ Manage(c))
  BY <1>2, TypeManage
<1>3. CASE \E l \in Speakers : Reply(l)
  BY <1>3, TypeReply, TopologyAssumption
<1>4. CASE RecoverInterrupted
  <2>1. WorkersOK'
    BY <1>4, Halves, SameWorkersOK DEF RecoverInterrupted
  <2>2. RowsOK'
    BY <1>4, Halves DEF RecoverInterrupted, RowsOK, TargetStatus, world, history
  <2> QED BY <2>1, <2>2, Halves
<1>5. CASE TimePasses
  <2>1. WorkersOK'
    BY <1>5, Halves, SameWorkersOK DEF TimePasses
  <2>2. RowsOK'
    <3>1. now' \in Nat /\ sentOn' \in [Campaigns -> Nat]
      BY <1>5, Halves DEF TimePasses, RowsOK
    <3>2. \A c \in Campaigns : Open(c) \in BOOLEAN
      BY DEF Open
    <3>3. carried' \in [Campaigns -> BOOLEAN]
      BY <1>5, <3>2, Halves DEF TimePasses, RowsOK
    <3> QED BY <1>5, <3>1, <3>3, Halves DEF TimePasses, RowsOK, rows
  <2> QED BY <2>1, <2>2, Halves
<1>6. CASE UNCHANGED vars
  BY <1>6, Halves, SameRowsOK, SameWorkersOK DEF vars, rows, world, history, processes
<1> QED BY <1>1, <1>2, <1>3, <1>4, <1>5, <1>6, TopologyAssumption DEF Next

\* In every state the program reaches, rows and workers are well formed, and a
\* worker's target belongs to the campaign it is working for.
THEOREM TypeCorrect == Spec => []TypeOK
  BY TypeInit, TypeNext, PTL DEF Spec

--------------------------------------------------------------------------------
(* The promise is kept.  What a step does to the allowance of a target comes *)
(* down to who holds its claim and whether it is still queued.               *)

\* Only worker w moves.
Alone(w) == \A u \in Workers \ {w} : pc'[u] = pc[u] /\ tgt'[u] = tgt[u]

\* The three ways an allowance does not grow: nothing is added to it, a claim
\* goes back to the queue, the queue's place becomes a claim.
Dwindles(t) == Holders(t)' \subseteq Holders(t) /\ (Queued(t)' => Queued(t))
Returns(t) == \E w \in Holders(t) : Holders(t)' \subseteq Holders(t) \ {w}
Moves(t) == Queued(t) /\ ~Queued(t)' /\ \E w \in Workers : Holders(t)' \subseteq Holders(t) \cup {w}

LEMMA HoldersFinite ==
  ASSUME NEW t
  PROVE  /\ IsFiniteSet(Holders(t)) /\ IsFiniteSet(Holders(t)')
         /\ Cardinality(Holders(t)) \in Nat /\ Cardinality(Holders(t)') \in Nat
         /\ Allowance(t) \in Nat /\ Allowance(t)' \in Nat
<1>1. Holders(t) \subseteq Workers /\ Holders(t)' \subseteq Workers
  BY DEF Holders
<1>2. IsFiniteSet(Holders(t)) /\ IsFiniteSet(Holders(t)')
  BY <1>1, TopologyAssumption, FS_Subset
<1>3. Cardinality(Holders(t)) \in Nat /\ Cardinality(Holders(t)') \in Nat
  BY <1>2, FS_CardinalityType
<1> QED BY <1>2, <1>3 DEF Allowance

LEMMA NoGrowth ==
  ASSUME NEW t, Dwindles(t) \/ Returns(t) \/ Moves(t)
  PROVE  Allowance(t)' <= Allowance(t)
<1> DEFINE H == Holders(t)
           G == Holders(t)'
<1>1. IsFiniteSet(H) /\ IsFiniteSet(G) /\ Cardinality(H) \in Nat /\ Cardinality(G) \in Nat
  BY HoldersFinite
<1>2. CASE Dwindles(t)
  <2>1. Cardinality(G) <= Cardinality(H)
    BY <1>1, <1>2, FS_Subset DEF Dwindles
  <2> QED BY <1>1, <1>2, <2>1 DEF Allowance, Dwindles
<1>3. CASE Returns(t)
  <2>1. PICK w \in H : G \subseteq H \ {w}
    BY <1>3 DEF Returns
  <2>2. IsFiniteSet(H \ {w}) /\ Cardinality(H \ {w}) = Cardinality(H) - 1
    BY <1>1, <2>1, FS_RemoveElement
  <2>3. Cardinality(G) <= Cardinality(H) - 1
    BY <2>1, <2>2, FS_Subset
  <2> QED BY <1>1, <2>3 DEF Allowance
<1>4. CASE Moves(t)
  <2>1. PICK w \in Workers : G \subseteq H \cup {w}
    BY <1>4 DEF Moves
  <2>2. /\ IsFiniteSet(H \cup {w})
        /\ Cardinality(H \cup {w}) \in {Cardinality(H), Cardinality(H) + 1}
    BY <1>1, FS_AddElement
  <2>3. Cardinality(G) <= Cardinality(H) + 1
    BY <1>1, <2>1, <2>2, FS_Subset
  <2> QED BY <1>1, <1>4, <2>3 DEF Allowance, Moves
<1> QED BY <1>2, <1>3, <1>4

LEMMA LapseStep ==
  ASSUME \A t \in Targets : Dwindles(t) \/ Returns(t) \/ Moves(t),
         UNCHANGED <<sends, retries>>
  PROVE  Promise!Lapse
<1>1. \A t \in Targets : Allowance(t)' \in Nat /\ Allowance(t)' <= Allowance(t)
  BY HoldersFinite, NoGrowth
<1> QED BY <1>1 DEF Promise!Lapse

\* A worker that takes nothing on and puts nobody back in the queue.
LEMMA HarmlessStep ==
  ASSUME NEW w \in Workers, Alone(w),
         pc'[w] \in BeforeSend => pc[w] \in BeforeSend /\ tgt'[w] = tgt[w],
         \A t \in Targets : Queued(t)' => Queued(t),
         UNCHANGED <<sends, retries>>
  PROVE  Promise!Lapse
<1>1. \A t \in Targets : Dwindles(t)
  BY DEF Alone, Dwindles, Holders
<1> QED BY <1>1, LapseStep

LEMMA BlocksAlone ==
  ASSUME WorkersOK, NEW w \in Workers
  PROVE  /\ Finish(w) => Alone(w) /\ pc'[w] \notin BeforeSend
         /\ Vanish(w) => Alone(w) /\ pc'[w] \notin BeforeSend
         /\ \A l : Goto(w, l) => Alone(w) /\ pc'[w] = l /\ tgt'[w] = tgt[w]
  BY DEF WorkersOK, Finish, Vanish, Goto, Alone, BeforeSend

\* A row that is settled is not queued; the other rows are as they were.
LEMMA SettledNotQueued ==
  ASSUME RowsOK, NEW t \in Targets, NEW s \in {"sent", "skipped", "failed"}, NEW time,
         SetTarget(t, s, time)
  PROVE  \A u \in Targets : Queued(u)' => Queued(u)
  BY DEF SetTarget, RowsOK, Queued

LEMMA SameRowsQueued ==
  ASSUME UNCHANGED <<st, claimed>> PROVE \A u \in Targets : Queued(u)' => Queued(u)
  BY DEF Queued

LEMMA TickKeeps ==
  ASSUME TypeOK, NEW w \in Workers, Tick(w) PROVE Promise!Lapse
<1> USE Halves
<1> SUFFICES /\ Alone(w)
             /\ pc'[w] \notin BeforeSend
             /\ \A t \in Targets : Queued(t)' => Queued(t)
             /\ UNCHANGED <<sends, retries>>
  BY HarmlessStep
<1>1. CASE TickBegin(w)
  BY <1>1, SameRowsQueued DEF TickBegin, Alone, WorkersOK, BeforeSend, rows, history
<1>2. CASE TickPick(w)
  <2>1. Alone(w) /\ pc'[w] \notin BeforeSend
    BY <1>2 DEF TickPick, Alone, WorkersOK, BeforeSend
  <2> QED BY <1>2, <2>1, SameRowsQueued DEF TickPick, rows, history
<1>3. CASE TickCount(w)
  <2>1. Alone(w) /\ pc'[w] \notin BeforeSend
    BY <1>3, BlocksAlone DEF TickCount, BeforeSend
  <2> QED BY <1>3, <2>1, SameRowsQueued DEF TickCount, rows, history
<1>4. CASE TickClose(w)
  BY <1>4, BlocksAlone, SameRowsQueued DEF TickClose, history
<1>5. CASE TickMarkFailed(w)
  <2>1. tgt[w] \in Targets
    BY <1>5, ServingTarget DEF TickMarkFailed, Serving, PC, InLoop
  <2>2. \A t \in Targets : Queued(t)' => Queued(t)
    BY <1>5, <2>1, SettledNotQueued, SameRowsQueued DEF TickMarkFailed, rows
  <2> QED BY <1>5, <2>2, BlocksAlone DEF TickMarkFailed, history
<1>6. CASE TickPauseForAi(w)
  BY <1>6, BlocksAlone, SameRowsQueued DEF TickPauseForAi, history
<1> QED BY <1>1, <1>2, <1>3, <1>4, <1>5, <1>6 DEF Tick

\* Release and RescueAiConfig put their target back, if it is still in flight.
LEMMA ReturnKeeps ==
  ASSUME TypeOK, NEW w \in Workers, pc[w] \in {"release", "aiConfig"}, Alone(w),
         pc'[w] \notin BeforeSend,
         \/ SetTarget(tgt[w], "pending", Never)
         \/ UNCHANGED <<st, claimed>>,
         UNCHANGED <<sends, retries>>
  PROVE  Promise!Lapse
<1>1. PICK t \in Targets : t = tgt[w]
  BY Halves, ServingTarget DEF Serving, PC, BeforeSend
<1>2. \A u \in Targets : u # t => Dwindles(u)
  BY <1>1, Halves DEF Dwindles, Holders, Alone, Queued, SetTarget, RowsOK
<1>3. Returns(t)
  BY <1>1, Halves DEF Returns, Holders, Alone, BeforeSend
<1> QED BY <1>2, <1>3, LapseStep

LEMMA DeliverKeeps ==
  ASSUME TypeOK, NEW w \in Workers, Deliver(w)
  PROVE  Promise!Lapse \/ (\E t \in Targets : Promise!Deliver(t))
<1> USE Halves
<1>a. pc[w] \in Serving
  BY DEF Deliver, Reserve, Claim, ReadLead, NoSender, BuildContent, RecheckActive,
         RecheckLead, RecheckWindow, Release, Skip, SendText, MarkSent, Rescue,
         RescueAiConfig, Serving, PC, BeforeSend, InLoop
<1>b. tgt[w] \in Targets
  BY <1>a, ServingTarget
<1>1. CASE Reserve(w)
  <2>1. Alone(w) /\ pc'[w] \notin BeforeSend
    BY <1>1, BlocksAlone DEF Reserve, Alone, WorkersOK, BeforeSend
  <2> QED BY <1>1, <2>1, HarmlessStep, SameRowsQueued DEF Reserve, rows, history
<1>2. CASE Claim(w)
  <2>1. CASE Queued(tgt[w])
    <3>1. Alone(w) /\ tgt'[w] = tgt[w]
      BY <1>2, <2>1 DEF Claim, Alone, WorkersOK
    <3>2. PICK t \in Targets : t = tgt[w]
      BY <1>b
    <3>3. \A u \in Targets : u # t => Dwindles(u)
      BY <1>2, <2>1, <3>1, <3>2 DEF Claim, Dwindles, Holders, Alone, Queued, RowsOK
    <3>4. Moves(t)
      BY <1>2, <2>1, <3>1, <3>2 DEF Claim, Moves, Holders, Alone, Queued, RowsOK
    <3> QED BY <1>2, <3>3, <3>4, LapseStep DEF Claim, history
  <2>2. CASE ~Queued(tgt[w])
    BY <1>2, <2>2, BlocksAlone, HarmlessStep, SameRowsQueued DEF Claim, history
  <2> QED BY <2>1, <2>2
<1>3. CASE \/ ReadLead(w) \/ BuildContent(w) \/ RecheckActive(w)
           \/ RecheckLead(w) \/ RecheckWindow(w)
  <2>1. pc[w] \in BeforeSend /\ Alone(w) /\ tgt'[w] = tgt[w]
    BY <1>3, BlocksAlone
    DEF ReadLead, BuildContent, RecheckActive, RecheckLead, RecheckWindow, BeforeSend
  <2> QED
    BY <1>3, <2>1, HarmlessStep, SameRowsQueued
    DEF ReadLead, BuildContent, RecheckActive, RecheckLead, RecheckWindow, rows, history
<1>4. CASE NoSender(w) \/ Skip(w) \/ MarkSent(w)
  <2>1. Alone(w) /\ pc'[w] \notin BeforeSend
    BY <1>4, BlocksAlone DEF NoSender, Skip, MarkSent, BeforeSend
  <2>2. \A t \in Targets : Queued(t)' => Queued(t)
    BY <1>4, <1>b, SettledNotQueued, SameRowsQueued DEF NoSender, Skip, MarkSent, rows
  <2> QED BY <1>4, <2>1, <2>2, HarmlessStep DEF NoSender, Skip, MarkSent, history
<1>5. CASE Rescue(w)
  <2>1. Alone(w) /\ pc'[w] \notin BeforeSend
    BY <1>5, BlocksAlone DEF Rescue, Rethrow, BeforeSend
  <2>2. \A t \in Targets : Queued(t)' => Queued(t)
    BY <1>5, <1>b, SettledNotQueued, SameRowsQueued DEF Rescue
  <2> QED BY <1>5, <2>1, <2>2, HarmlessStep DEF Rescue, history
<1>6. CASE Release(w)
  BY <1>6, BlocksAlone, ReturnKeeps DEF Release, history
<1>7. CASE RescueAiConfig(w)
  <2>1. Alone(w) /\ pc'[w] \notin BeforeSend
    BY <1>7, BlocksAlone DEF RescueAiConfig, Rethrow, BeforeSend
  <2> QED BY <1>7, <2>1, ReturnKeeps DEF RescueAiConfig, history
<1>8. CASE SendText(w)
  <2>1. Alone(w) /\ pc'[w] = "mark" /\ UNCHANGED <<st, claimed, retries>>
    BY <1>8, BlocksAlone DEF SendText, rows, world
  <2>2. PICK t \in Targets : t = tgt[w]
    BY <1>b
  <2>3. w \in Holders(t) /\ Holders(t)' = Holders(t) \ {w}
    BY <1>8, <2>1, <2>2 DEF SendText, Holders, Alone, BeforeSend
  <2>4. \A u \in Targets : Queued(u)' <=> Queued(u)
    BY <2>1 DEF Queued
  <2>5. Allowance(t) > 0 /\ Allowance(t)' = Allowance(t) - 1
    <3>1. Cardinality(Holders(t)') = Cardinality(Holders(t)) - 1
      BY <2>3, HoldersFinite, FS_RemoveElement
    <3> QED BY <2>4, <3>1, HoldersFinite DEF Allowance
  <2>6. \A u \in Targets : u # t => Allowance(u)' = Allowance(u)
    <3>1. \A u \in Targets : u # t => Holders(u)' = Holders(u)
      BY <1>8, <2>1, <2>2, BlocksAlone DEF SendText, Holders, Alone, BeforeSend
    <3> QED BY <2>4, <3>1 DEF Allowance
  <2>7. sends' = [sends EXCEPT ![t] = @ + 1]
    BY <1>8, <2>2 DEF SendText
  <2>8. Promise!Deliver(t)
    BY <2>1, <2>5, <2>6, <2>7 DEF Promise!Deliver
  <2> QED BY <2>8
<1> QED BY <1>1, <1>2, <1>3, <1>4, <1>5, <1>6, <1>7, <1>8 DEF Deliver

LEMMA SendNowKeeps ==
  ASSUME TypeOK, NEW w \in Workers, SendNow(w) PROVE Promise!Lapse
<1>1. Alone(w) /\ pc'[w] \notin BeforeSend
  BY Halves DEF SendNow, Alone, WorkersOK, BeforeSend
<1> QED BY <1>1, HarmlessStep, SameRowsQueued DEF SendNow, rows, history

LEMMA FaultKeeps ==
  ASSUME TypeOK, NEW w \in Workers, Fault(w) PROVE Promise!Lapse
<1>1. Alone(w) /\ pc'[w] \notin BeforeSend
  BY Halves, BlocksAlone DEF Fault, ReserveThrows, DeliverThrows, Crash, BeforeSend
<1> QED
  BY <1>1, HarmlessStep, SameRowsQueued
  DEF Fault, ReserveThrows, DeliverThrows, Crash, rows, history

\* Steps of managers, customers and crons that leave the senders alone.
LEMMA RowStep ==
  ASSUME UNCHANGED processes, UNCHANGED <<sends, retries>>,
         \A t \in Targets : Queued(t)' => Queued(t)
  PROVE  Promise!Lapse
<1>1. \A t \in Targets : Dwindles(t)
  BY DEF Dwindles, Holders, processes
<1> QED BY <1>1, LapseStep

LEMMA ManageKeeps ==
  ASSUME TypeOK, NEW c \in Campaigns, Start(c) \/ Manage(c)
  PROVE  Promise!Lapse \/ (\E ts \in SUBSET Targets : Promise!Requeue(ts))
<1> USE Halves
<1>1. CASE Start(c) \/ Pause(c) \/ Cancel(c) \/ RemoveCheck(c)
  BY <1>1, RowStep, SameRowsQueued
  DEF Start, Pause, Cancel, SetStatus, RemoveCheck, rows, history
<1>2. CASE RemoveDelete(c)
  <2>1. \A t \in Targets : Queued(t)' => Queued(t)
    BY <1>2 DEF RemoveDelete, Queued, RowsOK
  <2> QED BY <1>2, <2>1, RowStep DEF RemoveDelete, history
<1>3. CASE RetryFailed(c)
  <2> DEFINE again == {t \in TargetsOf(c) : Retryable(t)}
  <2>1. again \in SUBSET Targets
    BY DEF TargetsOf
  <2>2. \A t \in again : ~Queued(t) /\ Queued(t)'
    BY <1>3, <2>1 DEF RetryFailed, Retryable, Queued, RowsOK
  <2>3. \A t \in Targets \ again : Queued(t)' <=> Queued(t)
    BY <1>3 DEF RetryFailed, Queued, RowsOK
  <2>4. \A t \in Targets : Holders(t)' = Holders(t)
    BY <1>3 DEF RetryFailed, Holders, processes
  <2>5. /\ \A t \in again : Allowance(t)' = Allowance(t) + 1
        /\ \A t \in Targets \ again : Allowance(t)' = Allowance(t)
    BY <2>1, <2>2, <2>3, <2>4, HoldersFinite DEF Allowance
  <2>6. /\ retries' = [t \in Targets |-> IF t \in again THEN retries[t] + 1 ELSE retries[t]]
        /\ UNCHANGED sends
    BY <1>3 DEF RetryFailed
  <2>7. Promise!Requeue(again)
    BY <2>5, <2>6 DEF Promise!Requeue
  <2> QED BY <2>1, <2>7
<1> QED BY <1>1, <1>2, <1>3 DEF Manage

LEMMA ReplyKeeps ==
  ASSUME TypeOK, NEW l \in Leads, Reply(l) PROVE Promise!Lapse
<1>1. CASE LeadSpeaks(l) \/ HookRead(l) \/ HookLost(l)
  BY <1>1, RowStep, SameRowsQueued DEF LeadSpeaks, HookRead, HookLost, rows, history
<1>2. CASE HookWrite(l)
  <2>1. \A t \in Targets : Queued(t)' => Queued(t)
    BY <1>2, Halves DEF HookWrite, Queued, RowsOK, Hook
  <2> QED BY <1>2, <2>1, RowStep DEF HookWrite, history
<1> QED BY <1>1, <1>2 DEF Reply

LEMMA PromiseNext ==
  ASSUME TypeOK, [Next]_vars PROVE [Promise!Next]_(Promise!promise)
<1>1. CASE \E w \in Workers : Tick(w) \/ Deliver(w) \/ SendNow(w) \/ Fault(w)
  BY <1>1, TickKeeps, DeliverKeeps, SendNowKeeps, FaultKeeps DEF Promise!Next
<1>2. CASE \E c \in Campaigns : Start(c) \/ (c \in Managed /\ Manage(c))
  BY <1>2, ManageKeeps DEF Promise!Next
<1>3. CASE \E l \in Speakers : Reply(l)
  BY <1>3, ReplyKeeps, TopologyAssumption DEF Promise!Next
<1>4. CASE RecoverInterrupted
  <2>1. \A t \in Targets : Queued(t)' => Queued(t)
    BY <1>4, Halves DEF RecoverInterrupted, Queued, RowsOK, Stale, InFlight
  <2> QED BY <1>4, <2>1, RowStep DEF RecoverInterrupted, history, Promise!Next
<1>5. CASE TimePasses
  BY <1>5, RowStep, SameRowsQueued DEF TimePasses, rows, Promise!Next
<1>6. CASE UNCHANGED vars
  BY <1>6, RowStep, SameRowsQueued DEF vars, rows, processes, history, Promise!Next
<1> QED BY <1>1, <1>2, <1>3, <1>4, <1>5, <1>6, TopologyAssumption DEF Next

LEMMA PromiseInit == Init => Promise!Init
<1> SUFFICES ASSUME Init PROVE Promise!Init
  OBVIOUS
<1>1. \A t \in Targets : Holders(t) = {} /\ Queued(t)
  BY DEF Init, Holders, BeforeSend, Queued
<1>2. \A t \in Targets : Allowance(t) = 1
  BY <1>1, FS_EmptySet DEF Allowance
<1> QED BY <1>2 DEF Init, Promise!Init

\* The crons, replicas, managers and hooks together keep the abstract promise:
\* every message handed over was paid for by the campaign or by a retry.
THEOREM PromiseKept == Spec => KeepsPromise
<1>1. Init => Promise!Init
  BY PromiseInit
<1>2. TypeOK /\ [Next]_vars => [Promise!Next]_(Promise!promise)
  BY PromiseNext
<1> QED BY <1>1, <1>2, TypeCorrect, PTL DEF Spec, KeepsPromise, Promise!Spec

--------------------------------------------------------------------------------
(* What follows from the promise: messages are bounded.  DeliveriesPaid alone *)
(* is not inductive; it becomes so once the allowance still out is counted.   *)

Budget == \A t \in Targets : sends[t] + Allowance(t) <= 1 + retries[t]

LEMMA BudgetNext ==
  ASSUME TypeOK, Budget, [Next]_vars PROVE Budget'
<1>1. \A t \in Targets : /\ Allowance(t) \in Nat /\ Allowance(t)' \in Nat
                         /\ sends[t] \in Nat /\ retries[t] \in Nat
  BY HoldersFinite, Halves DEF RowsOK
<1>2. [Promise!Next]_(Promise!promise)
  BY PromiseNext
<1>3. CASE \E t \in Targets : Promise!Deliver(t)
  <2>1. PICK t \in Targets : Promise!Deliver(t)
    BY <1>3
  <2>2. /\ Allowance(t)' = Allowance(t) - 1 /\ sends'[t] = sends[t] + 1
        /\ \A u \in Targets \ {t} : Allowance(u)' = Allowance(u) /\ sends'[u] = sends[u]
        /\ retries' = retries
    BY <2>1, Halves DEF Promise!Deliver, RowsOK
  <2> QED BY <1>1, <2>2 DEF Budget
<1>4. CASE Promise!Lapse
  BY <1>1, <1>4 DEF Promise!Lapse, Budget
<1>5. CASE \E ts \in SUBSET Targets : Promise!Requeue(ts)
  <2>1. PICK ts \in SUBSET Targets : Promise!Requeue(ts)
    BY <1>5
  <2>2. \A t \in Targets :
          /\ t \in ts => Allowance(t)' = Allowance(t) + 1 /\ retries'[t] = retries[t] + 1
          /\ t \notin ts => Allowance(t)' = Allowance(t) /\ retries'[t] = retries[t]
          /\ sends'[t] = sends[t]
    BY <2>1 DEF Promise!Requeue
  <2> QED BY <1>1, <2>2 DEF Budget
<1>6. CASE UNCHANGED Promise!promise
  BY <1>6 DEF Promise!promise, Budget
<1> QED BY <1>2, <1>3, <1>4, <1>5, <1>6 DEF Promise!Next

\* A contact gets at most one message, and one more per time it is requeued.
THEOREM DeliveriesBounded == Spec => []DeliveriesPaid
<1>1. Init => Budget
  <2> SUFFICES ASSUME Init PROVE Budget
    OBVIOUS
  <2>1. \A t \in Targets : [u \in Targets |-> Allowance(u)][t] = 1
    BY PromiseInit DEF Promise!Init
  <2> QED BY <2>1 DEF Init, Budget
<1>2. TypeOK /\ Budget /\ [Next]_vars => Budget'
  BY BudgetNext
<1>3. TypeOK /\ Budget => DeliveriesPaid
  BY HoldersFinite, Halves DEF RowsOK, Budget, DeliveriesPaid
<1> QED BY <1>1, <1>2, <1>3, TypeCorrect, PTL DEF Spec

--------------------------------------------------------------------------------
(* A claim always has a sender that will settle it, while no process dies.   *)

Owners == BeforeSend \cup {"mark", "rescue"}

\* The shape every sender step has: whoever else owned a claim still does, and
\* a target that comes out of the step in flight was so before, or is w's own.
LEMMA OwnedStep ==
  ASSUME NEW w \in Workers, TypeOK, ClaimIsOwned, Alone(w), UNCHANGED crashes,
         \A t \in Targets : InFlight(t)' =>
            \/ tgt'[w] = t /\ pc'[w] \in Owners
            \/ InFlight(t) /\ ~(tgt[w] = t /\ pc[w] \in Owners)
  PROVE  ClaimIsOwned'
<1> SUFFICES ASSUME crashes = 0, NEW t \in Targets, InFlight(t)'
             PROVE  \E u \in Workers : tgt'[u] = t /\ pc'[u] \in Owners
  BY DEF ClaimIsOwned, Owners
<1>1. CASE tgt'[w] = t /\ pc'[w] \in Owners
  BY <1>1
<1>2. CASE InFlight(t) /\ ~(tgt[w] = t /\ pc[w] \in Owners)
  <2>1. PICK u \in Workers : tgt[u] = t /\ pc[u] \in Owners
    BY <1>2 DEF ClaimIsOwned, Owners
  <2> QED BY <1>2, <2>1 DEF Alone
<1> QED BY <1>1, <1>2

\* Nobody moves and no claim appears.
LEMMA OwnedRowStep ==
  ASSUME ClaimIsOwned, UNCHANGED <<pc, tgt, crashes>>,
         \A t \in Targets : InFlight(t)' => InFlight(t)
  PROVE  ClaimIsOwned'
  BY DEF ClaimIsOwned

LEMMA OwnedNext ==
  ASSUME TypeOK, ClaimIsOwned, [Next]_vars PROVE ClaimIsOwned'
<1> USE Halves
<1>1. ASSUME NEW w \in Workers, Tick(w) \/ SendNow(w) PROVE ClaimIsOwned'
  <2>1. Alone(w)
    BY <1>1, BlocksAlone
    DEF Tick, SendNow, TickBegin, TickPick, TickCount, TickClose, TickMarkFailed,
        TickPauseForAi, Alone, WorkersOK
  <2>2. pc[w] \notin Owners /\ UNCHANGED crashes
    BY <1>1 DEF Tick, SendNow, TickBegin, TickPick, TickCount, TickClose, TickMarkFailed,
                TickPauseForAi, Owners, BeforeSend, world
  <2>3. \A t \in Targets : InFlight(t)' => InFlight(t)
    <3>1. CASE TickMarkFailed(w)
      BY <3>1 DEF TickMarkFailed, SetTarget, InFlight, RowsOK, rows
    <3>2. CASE ~TickMarkFailed(w)
      BY <1>1, <3>2
      DEF Tick, SendNow, TickBegin, TickPick, TickCount, TickClose, TickPauseForAi,
          InFlight, rows
    <3> QED BY <3>1, <3>2
  <2> QED BY <2>1, <2>2, <2>3, OwnedStep
<1>2. ASSUME NEW w \in Workers, Deliver(w) PROVE ClaimIsOwned'
  <2>1. UNCHANGED crashes
    BY <1>2 DEF Deliver, Reserve, Claim, ReadLead, NoSender, BuildContent, RecheckActive,
                RecheckLead, RecheckWindow, Release, Skip, SendText, MarkSent, Rescue,
                RescueAiConfig, world
  <2>2. CASE Reserve(w)
    BY <2>1, <2>2, BlocksAlone, OwnedStep
    DEF Reserve, Alone, WorkersOK, InFlight, rows, Owners, BeforeSend
  <2>3. CASE Claim(w)
    <3>1. Alone(w) /\ pc[w] \notin Owners
      BY <2>3, BlocksAlone DEF Claim, Alone, WorkersOK, Owners, BeforeSend
    <3>2. \A t \in Targets : InFlight(t)' =>
            (tgt'[w] = t /\ pc'[w] \in Owners) \/ InFlight(t)
      BY <2>3 DEF Claim, InFlight, Queued, RowsOK, WorkersOK, Owners, BeforeSend
    <3> QED BY <2>1, <3>1, <3>2, OwnedStep
  <2>4. CASE \/ ReadLead(w) \/ BuildContent(w) \/ RecheckActive(w)
             \/ RecheckLead(w) \/ RecheckWindow(w) \/ SendText(w)
    <3>1. Alone(w) /\ tgt'[w] = tgt[w] /\ pc'[w] \in Owners /\ UNCHANGED <<st, claimed>>
      BY <2>4, BlocksAlone
      DEF ReadLead, BuildContent, RecheckActive, RecheckLead, RecheckWindow, SendText,
          Owners, BeforeSend, rows
    <3> QED BY <2>1, <3>1, OwnedStep DEF InFlight
  <2>5. CASE \/ NoSender(w) \/ Skip(w) \/ MarkSent(w) \/ Rescue(w)
             \/ Release(w) \/ RescueAiConfig(w)
    <3>1. PICK t \in Targets : t = tgt[w]
      BY <2>5, ServingTarget
      DEF NoSender, Skip, MarkSent, Rescue, Release, RescueAiConfig, Serving, PC, BeforeSend
    <3>2. Alone(w)
      BY <2>5, BlocksAlone
      DEF NoSender, Skip, MarkSent, Rescue, Release, RescueAiConfig, Rethrow
    <3>3. \A u \in Targets : u # t => (InFlight(u)' => InFlight(u))
      BY <2>5, <3>1
      DEF NoSender, Skip, MarkSent, Rescue, Release, RescueAiConfig, SetTarget, InFlight,
          RowsOK, rows
    <3>4. InFlight(t)' => tgt'[w] = t /\ pc'[w] \in Owners
      <4>1. CASE st[t] = "gone" /\ UNCHANGED rows
        BY <4>1 DEF InFlight, rows
      <4>2. CASE NoSender(w) \/ Skip(w) \/ MarkSent(w)
        BY <2>5, <3>1, <4>1, <4>2 DEF NoSender, Skip, MarkSent, SetTarget, InFlight, RowsOK
      <4>3. CASE Rescue(w) \/ Release(w) \/ RescueAiConfig(w)
        BY <2>5, <3>1, <4>3
        DEF Rescue, Release, RescueAiConfig, SetTarget, InFlight, RowsOK
      <4> QED BY <2>5, <4>2, <4>3
    <3> QED BY <2>1, <3>1, <3>2, <3>3, <3>4, OwnedStep
  <2> QED BY <1>2, <2>2, <2>3, <2>4, <2>5 DEF Deliver
<1>3. ASSUME NEW w \in Workers, Fault(w) PROVE ClaimIsOwned'
  <2>1. CASE ReserveThrows(w)
    BY <2>1, BlocksAlone, OwnedStep
    DEF ReserveThrows, InFlight, rows, world, Owners, BeforeSend
  <2>2. CASE DeliverThrows(w)
    BY <2>2, BlocksAlone, OwnedStep
    DEF DeliverThrows, InFlight, rows, world, Owners, BeforeSend
  <2>3. CASE Crash(w)
    BY <2>3 DEF Crash, ClaimIsOwned, RowsOK
  <2> QED BY <1>3, <2>1, <2>2, <2>3 DEF Fault
<1>4. ASSUME NEW c \in Campaigns, Start(c) \/ Manage(c) PROVE ClaimIsOwned'
  <2>1. UNCHANGED <<pc, tgt, crashes>>
    BY <1>4 DEF Manage, Start, Pause, Cancel, SetStatus, RetryFailed, RemoveCheck,
                RemoveDelete, world, processes
  <2>2. \A t \in Targets : InFlight(t)' => InFlight(t)
    <3>1. CASE RetryFailed(c)
      BY <3>1 DEF RetryFailed, InFlight, RowsOK
    <3>2. CASE RemoveDelete(c)
      BY <3>2 DEF RemoveDelete, InFlight, RowsOK
    <3>3. CASE Start(c) \/ Pause(c) \/ Cancel(c) \/ RemoveCheck(c)
      BY <3>3 DEF Start, Pause, Cancel, SetStatus, RemoveCheck, InFlight, rows
    <3> QED BY <1>4, <3>1, <3>2, <3>3 DEF Manage
  <2> QED BY <2>1, <2>2, OwnedRowStep
<1>5. ASSUME NEW l \in Leads, Reply(l) PROVE ClaimIsOwned'
  <2>1. UNCHANGED <<pc, tgt, crashes>>
    BY <1>5 DEF Reply, LeadSpeaks, HookRead, HookWrite, HookLost, processes
  <2>2. \A t \in Targets : InFlight(t)' => InFlight(t)
    <3>1. CASE HookWrite(l)
      BY <3>1 DEF HookWrite, InFlight, RowsOK
    <3>2. CASE ~HookWrite(l)
      BY <1>5, <3>2 DEF Reply, LeadSpeaks, HookRead, HookLost, InFlight, rows
    <3> QED BY <3>1, <3>2
  <2> QED BY <2>1, <2>2, OwnedRowStep
<1>6. CASE RecoverInterrupted
  <2>1. \A t \in Targets : InFlight(t)' => InFlight(t)
    BY <1>6 DEF RecoverInterrupted, InFlight, Stale, RowsOK
  <2> QED BY <1>6, <2>1, OwnedRowStep DEF RecoverInterrupted, world, processes
<1>7. CASE TimePasses
  BY <1>7, OwnedRowStep DEF TimePasses, InFlight, rows, processes
<1>8. CASE UNCHANGED vars
  BY <1>8, OwnedRowStep DEF vars, InFlight, rows
<1> QED BY <1>1, <1>2, <1>3, <1>4, <1>5, <1>6, <1>7, <1>8, TopologyAssumption DEF Next

\* No path of a sender that returns or throws leaves a target 'dispatching'
\* with nobody to settle it: only a crash does.
THEOREM ClaimsAreOwned == Spec => []ClaimIsOwned
<1>1. Init => ClaimIsOwned
  BY DEF Init, ClaimIsOwned, InFlight
<1>2. TypeOK /\ ClaimIsOwned /\ [Next]_vars => ClaimIsOwned'
  BY OwnedNext
<1> QED BY <1>1, <1>2, TypeCorrect, PTL DEF Spec

--------------------------------------------------------------------------------
(* The reply metric.  A reply is written from a list read earlier, and 'sent' *)
(* is written after the message went out, so the invariant has to remember    *)
(* what both writers are about to claim.                                      *)

Counted ==
    /\ ReplyMetricHonest
    /\ \A w \in Workers : pc[w] = "mark" => sends[tgt[w]] > 0
    /\ \A l \in Leads : \A t \in hook[l].sent : sends[t] > 0

\* Nothing is marked that was not about to be, and no count goes down.
LEMMA CountedStep ==
  ASSUME TypeOK, Counted,
         \A t \in Targets : sends'[t] \in Nat /\ sends'[t] >= sends[t],
         \A t \in Targets : st'[t] \in {"sent", "replied"} =>
            \/ st[t] \in {"sent", "replied"}
            \/ \E w \in Workers : pc[w] = "mark" /\ tgt[w] = t
            \/ \E l \in Leads : t \in hook[l].sent,
         \A w \in Workers : pc'[w] = "mark" =>
            /\ tgt'[w] \in Targets
            /\ (pc[w] = "mark" /\ tgt'[w] = tgt[w]) \/ sends'[tgt'[w]] > 0,
         \A l \in Leads : \A t \in hook'[l].sent :
            /\ t \in Targets
            /\ t \in hook[l].sent \/ st[t] = "sent"
  PROVE  Counted'
<1>1. \A t \in Targets : sends[t] \in Nat
  BY Halves DEF RowsOK
<1>2. ReplyMetricHonest'
  BY <1>1 DEF Counted, ReplyMetricHonest
<1>3. \A w \in Workers : pc'[w] = "mark" => sends'[tgt'[w]] > 0
  BY <1>1 DEF Counted
<1>4. \A l \in Leads : \A t \in hook'[l].sent : sends'[t] > 0
  BY <1>1 DEF Counted, ReplyMetricHonest
<1> QED BY <1>2, <1>3, <1>4 DEF Counted

LEMMA CountedNext ==
  ASSUME TypeOK, Counted, [Next]_vars PROVE Counted'
<1> USE Halves
<1>a. TypeOK'
  BY TypeNext
<1>b. \A t \in Targets : sends[t] \in Nat /\ sends'[t] \in Nat
  BY <1>a DEF RowsOK
<1>c. \A w \in Workers : /\ pc[w] = "mark" => tgt[w] \in Targets
                         /\ pc'[w] = "mark" => tgt'[w] \in Targets
  BY <1>a, TopologyAssumption DEF WorkersOK
<1>d. \A l \in Leads : hook[l].sent \subseteq Targets /\ hook'[l].sent \subseteq Targets
  BY <1>a DEF RowsOK, Hook
<1>1. ASSUME NEW w \in Workers, Tick(w) \/ SendNow(w) \/ Fault(w) PROVE Counted'
  <2>1. UNCHANGED <<sends, hook>>
    BY <1>1 DEF Tick, SendNow, Fault, TickBegin, TickPick, TickCount, TickClose,
       TickMarkFailed, TickPauseForAi, ReserveThrows, DeliverThrows, Crash, world, history
  <2>2. \A u \in Workers : pc'[u] = "mark" => pc[u] = "mark" /\ tgt'[u] = tgt[u]
    BY <1>1, BlocksAlone
    DEF Tick, SendNow, Fault, TickBegin, TickPick, TickCount, TickClose, TickMarkFailed,
        TickPauseForAi, ReserveThrows, DeliverThrows, Crash, Finish, Vanish, Goto, WorkersOK
  <2>3. \A t \in Targets : st'[t] \in {"sent", "replied"} => st[t] \in {"sent", "replied"}
    <3>1. CASE TickMarkFailed(w)
      BY <3>1 DEF TickMarkFailed, SetTarget, RowsOK, rows
    <3>2. CASE ~TickMarkFailed(w)
      BY <1>1, <3>2 DEF Tick, SendNow, Fault, TickBegin, TickPick, TickCount, TickClose,
         TickPauseForAi, ReserveThrows, DeliverThrows, Crash, rows
    <3> QED BY <3>1, <3>2
  <2> QED BY <1>b, <1>c, <1>d, <2>1, <2>2, <2>3, CountedStep
<1>2. ASSUME NEW w \in Workers, Deliver(w) PROVE Counted'
  <2>1. UNCHANGED hook
    BY <1>2 DEF Deliver, Reserve, Claim, ReadLead, NoSender, BuildContent, RecheckActive,
       RecheckLead, RecheckWindow, Release, Skip, SendText, MarkSent, Rescue,
       RescueAiConfig, world
  <2>2. CASE SendText(w)
    <3>1. PICK t \in Targets : t = tgt[w]
      BY <2>2, ServingTarget DEF SendText, Serving, PC, BeforeSend
    <3>2. sends' = [sends EXCEPT ![t] = @ + 1] /\ UNCHANGED st /\ sends'[t] > 0
      BY <2>2, <3>1, <1>b DEF SendText, RowsOK, rows
    <3>3. \A u \in Workers : pc'[u] = "mark" =>
            (pc[u] = "mark" /\ tgt'[u] = tgt[u]) \/ sends'[tgt'[u]] > 0
      BY <2>2, <3>1, <3>2 DEF SendText, Goto, WorkersOK
    <3>4. \A u \in Targets : sends'[u] >= sends[u]
      BY <3>2, <1>b DEF RowsOK
    <3> QED BY <1>b, <1>c, <1>d, <2>1, <3>2, <3>3, <3>4, CountedStep
  <2>3. CASE ~SendText(w)
    <3>1. UNCHANGED sends
      BY <1>2, <2>3 DEF Deliver, Reserve, Claim, ReadLead, NoSender, BuildContent,
         RecheckActive, RecheckLead, RecheckWindow, Release, Skip, MarkSent, Rescue,
         RescueAiConfig, history
    <3>2. \A u \in Workers : pc'[u] = "mark" => pc[u] = "mark" /\ tgt'[u] = tgt[u]
      BY <1>2, <2>3, BlocksAlone
      DEF Deliver, Reserve, Claim, ReadLead, NoSender, BuildContent, RecheckActive,
          RecheckLead, RecheckWindow, Release, Skip, MarkSent, Rescue, RescueAiConfig,
          Rethrow, Finish, Vanish, Goto, WorkersOK
    <3>3. \A t \in Targets : st'[t] \in {"sent", "replied"} =>
            st[t] \in {"sent", "replied"} \/ (pc[w] = "mark" /\ tgt[w] = t)
      <4>1. CASE NoSender(w) \/ Skip(w) \/ MarkSent(w)
        BY <4>1 DEF NoSender, Skip, MarkSent, SetTarget, RowsOK, rows
      <4>2. CASE Release(w) \/ Rescue(w) \/ RescueAiConfig(w)
        BY <4>2 DEF Release, Rescue, RescueAiConfig, SetTarget, RowsOK
      <4>3. CASE \/ Reserve(w) \/ Claim(w) \/ ReadLead(w) \/ BuildContent(w)
                 \/ RecheckActive(w) \/ RecheckLead(w) \/ RecheckWindow(w)
        BY <4>3 DEF Reserve, Claim, ReadLead, BuildContent, RecheckActive, RecheckLead,
           RecheckWindow, rows
      <4> QED BY <1>2, <2>3, <4>1, <4>2, <4>3 DEF Deliver
    <3> QED BY <1>b, <1>c, <1>d, <2>1, <3>1, <3>2, <3>3, CountedStep
  <2> QED BY <2>2, <2>3
<1>3. ASSUME NEW l \in Leads, Reply(l) PROVE Counted'
  <2>1. UNCHANGED <<sends, pc, tgt>>
    BY <1>3 DEF Reply, LeadSpeaks, HookRead, HookWrite, HookLost, history, processes
  <2>2. \A k \in Leads : \A t \in hook'[k].sent : t \in hook[k].sent \/ st[t] = "sent"
    <3>1. CASE HookRead(l)
      <4> DEFINE mine == {t \in Targets : /\ LeadOf[t] = l
                                          /\ status[CampaignOf[t]] \in {"running", "paused"}}
                 sent == {t \in mine : st[t] = "sent"}
                 queued == {t \in mine : st[t] = "pending"}
      <4>1. \A k \in Leads \ {l} : hook'[k] = hook[k]
        BY <3>1 DEF HookRead, RowsOK
      <4>2. hook'[l] \in {NoHook, [step |-> "write", sent |-> sent, queued |-> queued]}
        BY <3>1 DEF HookRead, RowsOK
      <4> QED BY <4>1, <4>2 DEF NoHook
    <3>2. CASE HookWrite(l) \/ HookLost(l)
      BY <3>2 DEF HookWrite, HookLost, NoHook, RowsOK
    <3>3. CASE LeadSpeaks(l)
      <4>1. \A k \in Leads : hook'[k].sent = hook[k].sent
        BY <3>3 DEF LeadSpeaks, RowsOK, Hook
      <4> QED BY <4>1
    <3> QED BY <1>3, <3>1, <3>2, <3>3 DEF Reply
  <2>3. \A t \in Targets : st'[t] \in {"sent", "replied"} =>
          st[t] \in {"sent", "replied"} \/ t \in hook[l].sent
    BY <1>3 DEF Reply, LeadSpeaks, HookRead, HookWrite, HookLost, RowsOK, rows
  <2> QED BY <1>b, <1>c, <1>d, <2>1, <2>2, <2>3, CountedStep
<1>4. CASE \/ \E c \in Campaigns : Start(c) \/ (c \in Managed /\ Manage(c))
           \/ RecoverInterrupted \/ TimePasses \/ UNCHANGED vars
  <2>1. UNCHANGED <<sends, pc, tgt, hook>>
    BY <1>4 DEF Manage, Start, Pause, Cancel, SetStatus, RetryFailed, RemoveCheck,
       RemoveDelete, RecoverInterrupted, TimePasses, vars, world, processes, history
  <2>2. \A t \in Targets : st'[t] \in {"sent", "replied"} => st[t] \in {"sent", "replied"}
    <3>1. CASE \E c \in Campaigns : RetryFailed(c) \/ RemoveDelete(c)
      BY <3>1 DEF RetryFailed, RemoveDelete, RowsOK
    <3>2. CASE RecoverInterrupted
      BY <3>2 DEF RecoverInterrupted, RowsOK
    <3>3. CASE UNCHANGED st
      BY <3>3
    <3> QED
      BY <1>4, <3>1, <3>2, <3>3
      DEF Manage, Start, Pause, Cancel, SetStatus, RemoveCheck, TimePasses, vars, rows
  <2> QED BY <1>b, <1>c, <1>d, <2>1, <2>2, CountedStep
<1> QED BY <1>1, <1>2, <1>3, <1>4, TopologyAssumption DEF Next

\* No contact counts as messaged or as having replied to a campaign without a
\* message having gone to it.
THEOREM MetricIsHonest == Spec => []ReplyMetricHonest
<1>1. Init => Counted
  BY DEF Init, Counted, ReplyMetricHonest, NoHook
<1>2. TypeOK /\ Counted /\ [Next]_vars => Counted'
  BY CountedNext
<1>3. Counted => ReplyMetricHonest
  BY DEF Counted
<1> QED BY <1>1, <1>2, <1>3, TypeCorrect, PTL DEF Spec

--------------------------------------------------------------------------------
Final(c) == status[c] = "canceled" => status'[c] \in {"canceled", "deleted"}

LEMMA FinalNext ==
  ASSUME TypeOK, [Next]_vars, NEW c \in Campaigns PROVE Final(c)
<1> USE Halves DEF Final
<1>1. ASSUME NEW w \in Workers, Tick(w) \/ Deliver(w) \/ SendNow(w) \/ Fault(w) PROVE Final(c)
  <2>1. CASE TickClose(w) \/ TickPauseForAi(w)
    BY <2>1 DEF TickClose, TickPauseForAi, RowsOK
  <2>2. CASE ~(TickClose(w) \/ TickPauseForAi(w))
    BY <1>1, <2>2 DEF Tick, Deliver, SendNow, Fault, TickBegin, TickPick, TickCount,
       TickMarkFailed, Reserve, Claim, ReadLead, NoSender, BuildContent, RecheckActive,
       RecheckLead, RecheckWindow, Release, Skip, SendText, MarkSent, Rescue,
       RescueAiConfig, ReserveThrows, DeliverThrows, Crash, rows
  <2> QED BY <2>1, <2>2
<1>2. ASSUME NEW d \in Campaigns, Start(d) \/ Manage(d) PROVE Final(c)
  BY <1>2 DEF Manage, Start, Pause, Cancel, SetStatus, RetryFailed, RemoveCheck,
     RemoveDelete, rows, RowsOK
<1>3. ASSUME NEW l \in Leads, Reply(l) PROVE Final(c)
  BY <1>3 DEF Reply, LeadSpeaks, HookRead, HookWrite, HookLost, rows
<1>4. CASE RecoverInterrupted \/ TimePasses \/ UNCHANGED vars
  BY <1>4 DEF RecoverInterrupted, TimePasses, vars, rows
<1> QED BY <1>1, <1>2, <1>3, <1>4, TopologyAssumption DEF Next

\* No tick, sender or retry in flight brings a cancelled campaign back.
THEOREM CancellationIsFinal == Spec => CanceledIsFinal
<1>1. TypeOK /\ [Next]_vars =>
        [\A c \in Campaigns : status[c] = "canceled" => status'[c] \in {"canceled", "deleted"}]_vars
  BY FinalNext DEF Final
<1> QED BY <1>1, TypeCorrect, PTL DEF Spec, CanceledIsFinal

--------------------------------------------------------------------------------
(* The limits of a day and of an interval.  First what both rest on: the lock *)
(* keeps two checked reservations of one company apart, and a campaign and    *)
(* its targets disappear together.                                            *)

Locked ==
    \A u, w \in Workers :
        /\ pc[u] = "claim" /\ pc[w] = "claim"
        /\ TenantOf[camp[u]] = TenantOf[camp[w]]
        => u = w

Wiped ==
    \A t \in Targets :
        /\ st[t] = "gone" <=> status[CampaignOf[t]] = "deleted"
        /\ st[t] = "gone" => ~claimed[t]

\* Worker w moves, and no other.
Apart(w) ==
    \A u \in Workers \ {w} :
        pc'[u] = pc[u] /\ tgt'[u] = tgt[u] /\ camp'[u] = camp[u] /\ at'[u] = at[u]

LEMMA BlocksApart ==
  ASSUME WorkersOK, NEW w \in Workers
  PROVE  /\ Finish(w) => Apart(w) /\ pc'[w] \in {"idle", "loop"}
         /\ Vanish(w) => Apart(w) /\ pc'[w] = "idle"
         /\ \A l : Goto(w, l) => /\ Apart(w) /\ pc'[w] = l
                                 /\ UNCHANGED <<tgt, camp, at>>
  BY DEF WorkersOK, Finish, Vanish, Goto, Apart

\* The steps of a worker, by what they make of its place in the sender.
Begins(w) == Reserve(w) \/ Claim(w)
Proceeds(w) ==
    \/ ReadLead(w) \/ BuildContent(w) \/ RecheckActive(w) \/ RecheckLead(w)
    \/ RecheckWindow(w)
Settles(w) ==
    \/ NoSender(w) \/ Release(w) \/ Skip(w) \/ MarkSent(w) \/ Rescue(w)
    \/ RescueAiConfig(w) \/ TickMarkFailed(w)
Idles(w) ==
    \/ TickBegin(w) \/ TickPick(w) \/ TickCount(w) \/ TickClose(w)
    \/ TickPauseForAi(w) \/ SendNow(w)
    \/ ReserveThrows(w) \/ DeliverThrows(w) \/ Crash(w)

LEMMA WorkerSteps ==
  ASSUME NEW w, Tick(w) \/ Deliver(w) \/ SendNow(w) \/ Fault(w)
  PROVE  Begins(w) \/ Proceeds(w) \/ Settles(w) \/ Idles(w) \/ SendText(w)
  BY DEF Tick, Deliver, Fault, Begins, Proceeds, Settles, Idles

LEMMA BeginsApart ==
  ASSUME TypeOK, NEW w \in Workers, Begins(w)
  PROVE  /\ Apart(w) /\ UNCHANGED <<now, status, st>>
         /\ \/ /\ Reserve(w) /\ pc'[w] = "claim" /\ CanReserve(camp[w]) /\ LockFree(camp[w])
               /\ at'[w] = now /\ UNCHANGED <<camp, tgt, rows, history>>
            \/ /\ Claim(w) /\ pc[w] = "claim" /\ pc'[w] = "lead" /\ Queued(tgt[w])
               /\ UNCHANGED <<camp, tgt, history>>
               /\ claimed' = [claimed EXCEPT ![tgt[w]] = TRUE]
               /\ sentAt' = [sentAt EXCEPT ![tgt[w]] = at[w]]
               /\ last' = [last EXCEPT ![camp[w]] = at[w]]
            \/ pc'[w] \in {"idle", "loop"} /\ UNCHANGED <<rows, history>>
<1> USE Halves
<1>1. CASE Reserve(w)
  <2>1. CASE CanReserve(camp[w])
    BY <1>1, <2>1 DEF Reserve, Apart, WorkersOK, rows, world
  <2>2. CASE ~CanReserve(camp[w])
    BY <1>1, <2>2, BlocksApart DEF Reserve, rows, world
  <2> QED BY <2>1, <2>2
<1>2. CASE Claim(w)
  <2>1. CASE Queued(tgt[w])
    BY <1>2, <2>1 DEF Claim, Apart, WorkersOK, world
  <2>2. CASE ~Queued(tgt[w])
    BY <1>2, <2>2, BlocksApart DEF Claim, rows, world
  <2> QED BY <2>1, <2>2
<1> QED BY <1>1, <1>2 DEF Begins

LEMMA ProceedsApart ==
  ASSUME TypeOK, NEW w \in Workers, Proceeds(w)
  PROVE  /\ Apart(w) /\ pc[w] \in BeforeSend /\ pc'[w] \in BeforeSend
         /\ UNCHANGED <<rows, world, history, camp, tgt, at>>
  BY Halves, BlocksApart
  DEF Proceeds, ReadLead, BuildContent, RecheckActive, RecheckLead, RecheckWindow, BeforeSend

LEMMA IdlesApart ==
  ASSUME TypeOK, NEW w \in Workers, Idles(w)
  PROVE  /\ Apart(w) /\ pc'[w] \notin BeforeSend \cup {"mark", "claim"}
         /\ UNCHANGED <<now, last, st, claimed, sentAt, history>>
         /\ \A c \in Campaigns : status[c] = "deleted" <=> status'[c] = "deleted"
<1> USE Halves
<1>1. CASE TickBegin(w) \/ TickPick(w) \/ SendNow(w)
  BY <1>1 DEF TickBegin, TickPick, SendNow, Apart, WorkersOK, BeforeSend, rows, world
<1>2. CASE TickCount(w) \/ ReserveThrows(w) \/ DeliverThrows(w) \/ Crash(w)
  BY <1>2, BlocksApart
  DEF TickCount, ReserveThrows, DeliverThrows, Crash, BeforeSend, rows, world
<1>3. CASE TickClose(w) \/ TickPauseForAi(w)
  <2>1. /\ Apart(w) /\ pc'[w] \notin BeforeSend \cup {"mark", "claim"}
        /\ UNCHANGED <<now, last, st, claimed, sentAt, history>>
    BY <1>3, BlocksApart DEF TickClose, TickPauseForAi, BeforeSend, world
  <2>2. \A c \in Campaigns : status[c] = "deleted" <=> status'[c] = "deleted"
    BY <1>3 DEF TickClose, TickPauseForAi, RowsOK
  <2> QED BY <2>1, <2>2
<1> QED BY <1>1, <1>2, <1>3 DEF Idles

\* A worker that settles touches its own target's row only, and then it stands
\* nowhere a message could still come from.
LEMMA SettlesApart ==
  ASSUME TypeOK, NEW w \in Workers, Settles(w), Wiped
  PROVE  /\ Apart(w) /\ pc'[w] \notin BeforeSend \cup {"mark", "claim"}
         /\ UNCHANGED <<now, status, last, history>>
         /\ tgt[w] \in Targets
         /\ \/ UNCHANGED rows
            \/ \E s \in TargetStatus \ {"gone"}, time \in Time :
                 /\ SetTarget(tgt[w], s, time) /\ st[tgt[w]] # "gone"
                 /\ \/ pc[w] \in BeforeSend /\ time \in {Never, sentAt[tgt[w]]}
                    \/ time = sentAt[tgt[w]] /\ s = "failed"
                    \/ pc[w] = "mark" /\ time = now /\ s = "sent"
<1> USE Halves
<1>a. tgt[w] \in Targets
  BY ServingTarget DEF Settles, NoSender, Release, Skip, MarkSent, Rescue,
     RescueAiConfig, TickMarkFailed, Serving, PC, BeforeSend, InLoop
<1>b. sentAt[tgt[w]] \in Time /\ now \in Time /\ Never \in Time
  BY <1>a DEF RowsOK, Time
<1>c. {"pending", "sent", "skipped", "failed"} \subseteq TargetStatus \ {"gone"}
  BY DEF TargetStatus
<1>d. claimed[tgt[w]] \/ InFlight(tgt[w]) => st[tgt[w]] # "gone"
  BY <1>a DEF Wiped, InFlight
<1>1. CASE NoSender(w) \/ Skip(w)
  <2>1. Apart(w) /\ pc'[w] \notin BeforeSend \cup {"mark", "claim"}
    BY <1>1, BlocksApart DEF NoSender, Skip, BeforeSend
  <2> QED BY <1>1, <1>a, <1>b, <1>c, <2>1 DEF NoSender, Skip, BeforeSend, world, rows
<1>2. CASE MarkSent(w)
  <2>1. Apart(w) /\ pc'[w] \notin BeforeSend \cup {"mark", "claim"}
    BY <1>2, BlocksApart DEF MarkSent, BeforeSend
  <2> QED BY <1>2, <1>a, <1>b, <1>c, <2>1 DEF MarkSent, world, rows
<1>3. CASE Release(w) \/ RescueAiConfig(w)
  <2>1. Apart(w) /\ pc'[w] \notin BeforeSend \cup {"mark", "claim"}
    BY <1>3, BlocksApart DEF Release, RescueAiConfig, Rethrow, BeforeSend
  <2> QED
    BY <1>3, <1>a, <1>b, <1>c, <1>d, <2>1 DEF Release, RescueAiConfig, BeforeSend, world, rows
<1>4. CASE Rescue(w) \/ TickMarkFailed(w)
  <2>1. Apart(w) /\ pc'[w] \notin BeforeSend \cup {"mark", "claim"}
    BY <1>4, BlocksApart DEF Rescue, TickMarkFailed, Rethrow, BeforeSend
  <2> QED
    BY <1>4, <1>a, <1>b, <1>c, <1>d, <2>1 DEF Rescue, TickMarkFailed, world, rows
<1> QED BY <1>1, <1>2, <1>3, <1>4 DEF Settles

LEMMA SendApart ==
  ASSUME TypeOK, NEW w \in Workers, SendText(w)
  PROVE  /\ Apart(w) /\ pc[w] \in BeforeSend /\ pc'[w] = "mark"
         /\ UNCHANGED <<rows, now, camp, tgt, at, carried>>
         /\ tgt[w] \in Targets /\ camp[w] \in Campaigns
         /\ sentOn' = [sentOn EXCEPT ![camp[w]] = @ + 1]
         /\ sentBy' = [sentBy EXCEPT ![TenantOf[camp[w]]] = @ + 1]
<1>1. tgt[w] \in Targets /\ camp[w] \in Campaigns
  BY Halves, ServingTarget DEF SendText, Serving, PC, BeforeSend
<1> QED BY <1>1, Halves, BlocksApart DEF SendText, BeforeSend, world

\* The steps of managers, customers and crons.
Elsewhere ==
    \/ \E c \in Campaigns : Start(c) \/ Manage(c)
    \/ \E l \in Leads : Reply(l)
    \/ RecoverInterrupted

LEMMA NextSteps ==
  ASSUME [Next]_vars
  PROVE  \/ \E w \in Workers : Tick(w) \/ Deliver(w) \/ SendNow(w) \/ Fault(w)
         \/ Elsewhere \/ TimePasses \/ UNCHANGED vars
  BY TopologyAssumption DEF Next, Elsewhere

\* What such a step leaves of the rows: it takes no row out of the day's count
\* unless its campaign goes too, and it queues only failures of earlier days.
RowsLeft ==
    /\ \A c \in Campaigns : status[c] = "deleted" => status'[c] = "deleted"
    /\ \A c \in Campaigns : last'[c] \in {last[c], Never}
    /\ \A t \in Targets : /\ st'[t] # "gone" => sentAt'[t] = sentAt[t]
                          /\ Queued(t)' => Queued(t) \/ Retryable(t)

LEMMA ElsewhereRows ==
  ASSUME TypeOK, Wiped, Elsewhere
  PROVE  /\ UNCHANGED <<now, processes, sentOn, sentBy, carried>>
         /\ Wiped' /\ RowsLeft
<1> USE Halves
<1>1. UNCHANGED <<now, processes, sentOn, sentBy, carried>>
  BY DEF Elsewhere, Manage, Start, Pause, Cancel, SetStatus, RetryFailed, RemoveCheck,
     RemoveDelete, Reply, LeadSpeaks, HookRead, HookWrite, HookLost, RecoverInterrupted,
     world, history
<1>2. ASSUME NEW c \in Campaigns, Start(c) \/ Manage(c) PROVE Wiped' /\ RowsLeft
  <2>1. CASE Start(c) \/ Pause(c) \/ Cancel(c)
    <3>1. \A d \in Campaigns : status[d] = "deleted" <=> status'[d] = "deleted"
      BY <2>1 DEF Start, Pause, Cancel, SetStatus, RowsOK
    <3>2. UNCHANGED <<last, st, claimed, sentAt>>
      BY <2>1 DEF Start, Pause, Cancel, SetStatus
    <3> QED BY <3>1, <3>2, TopologyAssumption DEF Wiped, RowsLeft, Queued
  <2>2. CASE RemoveCheck(c)
    BY <2>2 DEF RemoveCheck, Wiped, RowsLeft, Queued, rows
  <2>3. CASE RetryFailed(c)
    <3>1. \A d \in Campaigns : status[d] = "deleted" <=> status'[d] = "deleted"
      BY <2>3 DEF RetryFailed, RowsOK
    <3>2. \A t \in Targets : /\ st[t] = "gone" <=> st'[t] = "gone"
                             /\ claimed'[t] => claimed[t]
                             /\ Queued(t)' => Queued(t) \/ Retryable(t)
      BY <2>3 DEF RetryFailed, Retryable, Queued, RowsOK
    <3>3. UNCHANGED <<last, sentAt>>
      BY <2>3 DEF RetryFailed
    <3> QED BY <3>1, <3>2, <3>3, TopologyAssumption DEF Wiped, RowsLeft
  <2>4. CASE RemoveDelete(c)
    <3>1. \A d \in Campaigns : status'[d] = "deleted" <=> (status[d] = "deleted" \/ d = c)
      BY <2>4 DEF RemoveDelete, RowsOK
    <3>2. \A t \in Targets :
            IF CampaignOf[t] = c THEN st'[t] = "gone" /\ ~claimed'[t]
            ELSE /\ st'[t] = st[t] /\ sentAt'[t] = sentAt[t]
                 /\ claimed'[t] <=> claimed[t]
      BY <2>4 DEF RemoveDelete, RowsOK
    <3>3. \A d \in Campaigns : last'[d] \in {last[d], Never}
      BY <2>4 DEF RemoveDelete, RowsOK
    <3> QED BY <3>1, <3>2, <3>3, TopologyAssumption DEF Wiped, RowsLeft, Queued
  <2> QED BY <1>2, <2>1, <2>2, <2>3, <2>4 DEF Manage
<1>3. ASSUME NEW l \in Leads, Reply(l) PROVE Wiped' /\ RowsLeft
  <2>1. UNCHANGED <<status, last, sentAt>>
    BY <1>3 DEF Reply, LeadSpeaks, HookRead, HookWrite, HookLost, rows
  <2>2. \A t \in Targets : /\ st[t] = "gone" <=> st'[t] = "gone"
                           /\ claimed'[t] => claimed[t]
                           /\ Queued(t)' => Queued(t)
    <3>1. CASE HookWrite(l)
      BY <3>1 DEF HookWrite, Queued, RowsOK, Hook
    <3>2. CASE ~HookWrite(l)
      BY <1>3, <3>2 DEF Reply, LeadSpeaks, HookRead, HookLost, Queued, rows
    <3> QED BY <3>1, <3>2
  <2> QED BY <2>1, <2>2 DEF Wiped, RowsLeft
<1>4. ASSUME RecoverInterrupted PROVE Wiped' /\ RowsLeft
  <2>1. \A t \in Targets : /\ st[t] = "gone" <=> st'[t] = "gone"
                           /\ claimed'[t] => claimed[t]
                           /\ Queued(t)' => Queued(t)
    BY <1>4 DEF RecoverInterrupted, Stale, InFlight, Queued, RowsOK
  <2> QED BY <1>4, <2>1 DEF RecoverInterrupted, Wiped, RowsLeft
<1> QED BY <1>1, <1>2, <1>3, <1>4 DEF Elsewhere

LEMMA WipedNext ==
  ASSUME TypeOK, Wiped, [Next]_vars PROVE Wiped'
<1> USE Halves
<1>1. ASSUME NEW w \in Workers, Begins(w) PROVE Wiped'
  BY <1>1, BeginsApart DEF Wiped, RowsOK, rows, Queued
<1>2. ASSUME NEW w \in Workers, Proceeds(w) \/ SendText(w) PROVE Wiped'
  BY <1>2, ProceedsApart, SendApart DEF Wiped, rows
<1>3. ASSUME NEW w \in Workers, Settles(w) PROVE Wiped'
  <2>1. CASE UNCHANGED rows
    BY <2>1 DEF Wiped, rows
  <2>2. CASE ~UNCHANGED rows
    <3>1. PICK s \in TargetStatus \ {"gone"}, time \in Time :
            SetTarget(tgt[w], s, time) /\ st[tgt[w]] # "gone"
      BY <1>3, <2>2, SettlesApart
    <3>2. tgt[w] \in Targets /\ UNCHANGED status
      BY <1>3, SettlesApart
    <3> QED BY <3>1, <3>2 DEF SetTarget, Wiped, RowsOK
  <2> QED BY <2>1, <2>2
<1>4. ASSUME NEW w \in Workers, Idles(w) PROVE Wiped'
  BY <1>4, IdlesApart, TopologyAssumption DEF Wiped
<1>5. CASE Elsewhere
  BY <1>5, ElsewhereRows
<1>6. CASE TimePasses \/ UNCHANGED vars
  BY <1>6 DEF TimePasses, Wiped, vars, rows
<1> QED BY <1>1, <1>2, <1>3, <1>4, <1>5, <1>6, NextSteps, WorkerSteps

\* Only a granted reservation brings a worker to its claim.
LEMMA ClaimersApart ==
  ASSUME TypeOK, Wiped, NEW w \in Workers,
         Tick(w) \/ Deliver(w) \/ SendNow(w) \/ Fault(w)
  PROVE  /\ Apart(w) /\ UNCHANGED now
         /\ pc'[w] = "claim" => /\ CanReserve(camp[w]) /\ LockFree(camp[w])
                                /\ at'[w] = now /\ UNCHANGED <<camp, last>>
         /\ \/ UNCHANGED last
            \/ /\ pc[w] = "claim" /\ pc'[w] # "claim"
               /\ last' = [last EXCEPT ![camp[w]] = at[w]]
<1>1. CASE Begins(w)
  BY <1>1, BeginsApart DEF rows
<1>2. CASE Proceeds(w) \/ SendText(w)
  BY <1>2, ProceedsApart, SendApart DEF rows, world, BeforeSend
<1>3. CASE Settles(w) \/ Idles(w)
  BY <1>3, SettlesApart, IdlesApart
<1> QED BY <1>1, <1>2, <1>3, WorkerSteps

LEMMA LockedNext ==
  ASSUME TypeOK, Wiped, Locked, [Next]_vars PROVE Locked'
<1>1. ASSUME NEW w \in Workers, Tick(w) \/ Deliver(w) \/ SendNow(w) \/ Fault(w)
      PROVE  Locked'
  BY <1>1, ClaimersApart DEF Apart, Locked, LockFree
<1>2. CASE Elsewhere
  BY <1>2, ElsewhereRows DEF Locked, processes
<1>3. CASE TimePasses \/ UNCHANGED vars
  BY <1>3 DEF TimePasses, Locked, vars, processes
<1> QED BY <1>1, <1>2, <1>3, NextSteps

LEMMA LeastNatural ==
  ASSUME NEW T \in SUBSET Nat, T # {} PROVE \E m \in T : \A n \in T : m <= n
<1> DEFINE R == {ss \in Nat \X Nat : ss[1] < ss[2]}
<1>1. R = OpToRel(<, Nat)
  BY DEF OpToRel
<1>2. IsWellFoundedOn(R, Nat)
  BY <1>1, NatLessThanWellFounded, Zenon
<1>3. PICK m \in T : \A n \in T : ~(<<n, m>> \in R)
  BY <1>2, WFMin
<1>4. ASSUME NEW n \in T PROVE m <= n
  <2>1. n \in Nat /\ m \in Nat /\ <<n, m>> \notin R
    BY <1>3
  <2>2. ~(n < m)
    BY <2>1
  <2> QED BY <2>1, <2>2
<1> QED BY <1>4

\* No dispatch and no reservation is dated in the future, and a reservation
\* that is about to be claimed keeps its distance from every dispatch so far.
Dated ==
    /\ \A c \in Campaigns : last[c] <= now
    /\ \A w \in Workers : at[w] <= now

Spaced ==
    \A w \in Workers : pc[w] = "claim" =>
        \A d \in SameTenant(camp[w]) : last[d] # Never =>
            at[w] - last[d] >= MinGap /\ at[w] - last[d] >= Throttle[camp[w]]

\* The latest dispatch of a company that dispatched at all exists, although
\* the company may have any number of campaigns: dispatches are in the past.
LEMMA RecentExists ==
  ASSUME TypeOK, Dated, NEW c \in Campaigns, NEW d \in SameTenant(c), last[d] # Never
  PROVE  \E e \in Recent(c) : last[d] <= last[e]
<1> DEFINE Dispatched == {e \in SameTenant(c) : last[e] # Never}
           Ages == {now - last[e] : e \in Dispatched}
<1>1. \A e \in SameTenant(c) : e \in Campaigns
  BY DEF SameTenant
<1>2. now \in Nat /\ \A e \in Campaigns : last[e] \in Time /\ last[e] <= now
  BY Halves DEF RowsOK, Dated
<1>3. \A e \in Dispatched : last[e] \in Nat /\ now - last[e] \in Nat
  BY <1>1, <1>2 DEF Time
<1>4. Ages \in SUBSET Nat /\ Ages # {}
  BY <1>3
<1>5. PICK m \in Ages : \A n \in Ages : m <= n
  BY <1>4, LeastNatural
<1>6. PICK e \in Dispatched : m = now - last[e]
  BY <1>5
<1>7. \A f \in Dispatched : last[f] <= last[e]
  <2> SUFFICES ASSUME NEW f \in Dispatched PROVE last[f] <= last[e]
    OBVIOUS
  <2>1. now - last[e] <= now - last[f]
    BY <1>5, <1>6
  <2> QED BY <1>2, <1>3, <2>1
<1>8. \A f \in SameTenant(c) : last[f] <= last[e]
  <2> SUFFICES ASSUME NEW f \in SameTenant(c), last[f] = Never PROVE last[f] <= last[e]
    BY <1>7
  <2> QED BY <1>3 DEF Never
<1>9. e \in Recent(c)
  BY <1>6, <1>8 DEF Recent
<1> QED BY <1>7, <1>9

LEMMA DatedNext ==
  ASSUME TypeOK, Wiped, Dated, [Next]_vars PROVE Dated'
<1> USE Halves
<1>0. now \in Nat
  BY DEF RowsOK
<1>1. ASSUME NEW w \in Workers, Tick(w) \/ Deliver(w) \/ SendNow(w) \/ Fault(w)
      PROVE  Dated'
  <2>1. Apart(w) /\ UNCHANGED now
    BY <1>1, ClaimersApart
  <2>2. \A c \in Campaigns : last'[c] <= now
    BY <1>1, ClaimersApart DEF Dated, RowsOK
  <2>3. at'[w] \in {at[w], now, Never}
    <3>1. CASE Finish(w) \/ Vanish(w)
      BY <3>1 DEF Finish, Vanish, WorkersOK
    <3>2. CASE ~(Finish(w) \/ Vanish(w))
      BY <1>1, <3>2
      DEF Tick, Deliver, SendNow, Fault, TickBegin, TickPick, TickCount, TickClose,
          TickMarkFailed, TickPauseForAi, Reserve, Claim, ReadLead, NoSender,
          BuildContent, RecheckActive, RecheckLead, RecheckWindow, Release, Skip,
          SendText, MarkSent, Rescue, RescueAiConfig, ReserveThrows, DeliverThrows,
          Crash, Rethrow, Goto, WorkersOK
    <3> QED BY <3>1, <3>2
  <2> QED BY <1>0, <2>1, <2>2, <2>3 DEF Dated, Apart, Never
<1>2. CASE Elsewhere
  <2>1. UNCHANGED <<now, at>> /\ \A c \in Campaigns : last'[c] \in {last[c], Never}
    BY <1>2, ElsewhereRows DEF processes, RowsLeft
  <2> QED BY <1>0, <2>1 DEF Dated, Never
<1>3. CASE TimePasses
  <2>1. now' = now + 1 /\ UNCHANGED <<last, at>>
    BY <1>3 DEF TimePasses, rows, processes
  <2>2. /\ \A c \in Campaigns : last[c] \in Int
        /\ \A w \in Workers : at[w] \in Int
    BY DEF RowsOK, WorkersOK, Time, Never
  <2> QED BY <1>0, <2>1, <2>2 DEF Dated
<1>4. CASE UNCHANGED vars
  BY <1>4 DEF vars, rows, Dated
<1> QED BY <1>1, <1>2, <1>3, <1>4, NextSteps

\* What a dispatch does to the dates of its company's campaigns.
DispatchSpaced(c) ==
    last'[c] \notin {last[c], Never} =>
        \A d \in SameTenant(c) : last[d] # Never =>
            last'[c] - last[d] >= MinGap /\ last'[c] - last[d] >= Throttle[c]

LEMMA SpacedNext ==
  ASSUME TypeOK, Wiped, Locked, Dated, Spaced, [Next]_vars
  PROVE  Spaced' /\ \A c \in Campaigns : DispatchSpaced(c)
<1> USE Halves
<1>1. ASSUME NEW w \in Workers, Tick(w) \/ Deliver(w) \/ SendNow(w) \/ Fault(w)
      PROVE  Spaced' /\ \A c \in Campaigns : DispatchSpaced(c)
  <2>1. CASE UNCHANGED last
    <3>1. ASSUME pc'[w] = "claim", NEW d \in SameTenant(camp[w]), last[d] # Never
          PROVE  now - last[d] >= MinGap /\ now - last[d] >= Throttle[camp[w]]
      <4>1. CanReserve(camp[w]) /\ UNCHANGED camp
        BY <1>1, <3>1, ClaimersApart
      <4>2. camp[w] \in Campaigns
        <5>1. WorkersOK'
          BY TypeNext
        <5> QED BY <3>1, <4>1, <5>1 DEF WorkersOK
      <4>3. PICK e \in Recent(camp[w]) : last[d] <= last[e]
        BY <3>1, <4>2, RecentExists
      <4>4. now - last[e] >= MinGap /\ now - last[e] >= Throttle[camp[w]]
        BY <4>1 DEF CanReserve, IntervalElapsed
      <4>5. /\ e \in Campaigns /\ d \in Campaigns
            /\ last[e] \in Int /\ last[d] \in Int /\ now \in Int
            /\ MinGap \in Int /\ Throttle[camp[w]] \in Int
        BY <4>2, BoundAssumption DEF Recent, SameTenant, RowsOK, Time, Never
      <4> QED BY <4>3, <4>4, <4>5
    <3>2. Spaced'
      BY <1>1, <2>1, <3>1, ClaimersApart DEF Spaced, Apart, SameTenant
    <3> QED BY <2>1, <3>2 DEF DispatchSpaced
  <2>2. CASE /\ pc[w] = "claim" /\ pc'[w] # "claim"
             /\ last' = [last EXCEPT ![camp[w]] = at[w]]
    <3>1. camp[w] \in Campaigns
      BY <2>2, ServingTarget DEF Serving, PC, InLoop
    <3>2. \A c \in Campaigns : c # camp[w] => last'[c] = last[c]
      BY <2>2, <3>1 DEF RowsOK
    <3>3. last'[camp[w]] = at[w]
      BY <2>2, <3>1 DEF RowsOK
    <3>4. \A c \in Campaigns : DispatchSpaced(c)
      BY <2>2, <3>2, <3>3 DEF DispatchSpaced, Spaced
    <3>5. ASSUME NEW u \in Workers, pc'[u] = "claim"
          PROVE  /\ pc[u] = "claim" /\ camp'[u] = camp[u] /\ at'[u] = at[u]
                 /\ camp[w] \notin SameTenant(camp[u])
      <4>1. u # w
        BY <2>2, <3>5
      <4>2. pc[u] = "claim" /\ camp'[u] = camp[u] /\ at'[u] = at[u]
        BY <1>1, <3>5, <4>1, ClaimersApart DEF Apart
      <4> QED BY <2>2, <4>1, <4>2 DEF Locked, SameTenant
    <3>6. Spaced'
      BY <3>2, <3>5 DEF Spaced, SameTenant
    <3> QED BY <3>4, <3>6
  <2> QED BY <1>1, <2>1, <2>2, ClaimersApart
<1>2. CASE Elsewhere
  <2>1. UNCHANGED <<pc, camp, at>> /\ \A c \in Campaigns : last'[c] \in {last[c], Never}
    BY <1>2, ElsewhereRows DEF processes, RowsLeft
  <2> QED BY <2>1 DEF Spaced, DispatchSpaced, SameTenant
<1>3. CASE TimePasses \/ UNCHANGED vars
  <2>1. UNCHANGED <<pc, camp, at, last>>
    BY <1>3 DEF TimePasses, vars, rows, processes
  <2> QED BY <2>1 DEF Spaced, DispatchSpaced, SameTenant
<1> QED BY <1>1, <1>2, <1>3, NextSteps

LEMMA GroundInit == Init => Wiped /\ Locked /\ Dated /\ Spaced
<1> SUFFICES ASSUME Init PROVE Wiped /\ Locked /\ Dated /\ Spaced
  OBVIOUS
<1>1. Wiped
  BY TopologyAssumption DEF Init, Wiped
<1>2. Locked /\ Spaced
  BY DEF Init, Locked, Spaced
<1>3. Dated
  BY DEF Init, Dated, Never
<1> QED BY <1>1, <1>2, <1>3

\* Whichever replicas, crons and managers dispatch for whichever of its
\* campaigns, a company's dispatches are MinGap and the campaign's own throttle
\* apart.
THEOREM IntervalKept == Spec => ReservationsSpaced
<1>1. TypeOK /\ Wiped /\ Locked /\ Dated /\ Spaced /\ [Next]_vars
        => Wiped' /\ Locked' /\ Dated' /\ Spaced'
  BY WipedNext, LockedNext, DatedNext, SpacedNext
<1>2. TypeOK /\ Wiped /\ Locked /\ Dated /\ Spaced /\ [Next]_vars
        => [\A c \in Campaigns : last'[c] \notin {last[c], Never} =>
              \A d \in SameTenant(c) : last[d] # Never =>
                  /\ last'[c] - last[d] >= MinGap
                  /\ last'[c] - last[d] >= Throttle[c]]_vars
  BY SpacedNext DEF DispatchSpaced
<1> QED BY <1>1, <1>2, GroundInit, TypeCorrect, PTL DEF Spec, ReservationsSpaced

--------------------------------------------------------------------------------
(* The limits of a day, of one campaign and of all campaigns of a company, by *)
(* one argument about a set cs of campaigns.  What counts against the limit is *)
(* rows; the messages of the day each have a row of their own in the count,    *)
(* and so has each claim whose message is not out yet.                         *)

Spent(t) == st[t] = "gone" \/ sentAt[t] >= Midnight(now)
Spending(cs) == {t \in Targets : CampaignOf[t] \in cs /\ Spent(t)}
Serves(w, cs) == pc[w] \in BeforeSend /\ camp[w] \in cs
Held(cs) == {t \in Targets : \E w \in Workers : Serves(w, cs) /\ tgt[w] = t}
Lost(cs) == \E c \in cs : status[c] = "deleted"

\* S: the targets of cs that were messaged today.
Within(cs, S, limit) ==
    /\ \A w \in Workers : pc[w] = "mark" /\ camp[w] \in cs => tgt[w] \in S
    /\ \A w \in Workers : Serves(w, cs) => tgt[w] \notin S
    /\ \A u, w \in Workers : Serves(u, cs) /\ Serves(w, cs) /\ tgt[u] = tgt[w] => u = w
    /\ \A t \in S \cup Held(cs) : CampaignOf[t] \in cs /\ Spent(t) /\ ~Queued(t)
    /\ Cardinality(S \cup Held(cs)) <= limit
    /\ \A w \in Workers : pc[w] = "claim" /\ camp[w] \in cs =>
          /\ at[w] >= Midnight(now)
          /\ Lost(cs) \/ Cardinality(Spending(cs)) < limit

\* A step in which nobody reserves, claims or sends, within one day: the count
\* loses no row whose holder does not let go of it, and gains none.
Calm ==
    /\ \A w \in Workers :
          /\ pc'[w] \in {"mark", "claim"} => pc[w] = pc'[w]
          /\ pc'[w] \in BeforeSend => pc[w] \in BeforeSend
          /\ pc'[w] \in BeforeSend \cup {"mark", "claim"} =>
                tgt'[w] = tgt[w] /\ camp'[w] = camp[w] /\ at'[w] = at[w]
    /\ \A t \in Targets :
          /\ Spent(t) /\ ~Queued(t) =>
                \/ Spent(t)' /\ ~Queued(t)'
                \/ \E w \in Workers : /\ pc[w] \in BeforeSend /\ tgt[w] = t
                                      /\ pc'[w] \notin BeforeSend
          /\ Spent(t)' =>
                \/ Spent(t)
                \/ \E w \in Workers : pc[w] = "mark" /\ tgt[w] = t
                \/ status'[CampaignOf[t]] = "deleted"
    /\ \A c \in Campaigns : status[c] = "deleted" => status'[c] = "deleted"
    /\ Midnight(now') = Midnight(now)

LEMMA SmallerSet ==
  ASSUME NEW A \in SUBSET Targets, NEW B \in SUBSET A
  PROVE  Cardinality(B) <= Cardinality(A) /\ Cardinality(A) \in Nat /\ Cardinality(B) \in Nat
<1>1. IsFiniteSet(A) /\ IsFiniteSet(B)
  BY TopologyAssumption, FS_Subset
<1> QED BY <1>1, FS_Subset, FS_CardinalityType

\* The rows of a campaign under way are its own.
LEMMA WorkersRows ==
  ASSUME TypeOK, NEW w \in Workers, pc[w] \in BeforeSend \cup {"mark", "claim"}
  PROVE  tgt[w] \in Targets /\ camp[w] \in Campaigns /\ CampaignOf[tgt[w]] = camp[w]
  BY Halves, ServingTarget DEF Serving, PC, BeforeSend, InLoop

LEMMA CalmKeeps ==
  ASSUME TypeOK, NEW cs \in SUBSET Campaigns, NEW S \in SUBSET Targets, NEW limit \in Nat,
         Within(cs, S, limit), Calm
  PROVE  Within(cs, S, limit)'
<1>1. \A w \in Workers : Serves(w, cs)' => Serves(w, cs) /\ tgt'[w] = tgt[w]
  BY DEF Calm, Serves
<1>2. Held(cs)' \subseteq Held(cs)
  BY <1>1 DEF Held
<1>3. ASSUME NEW t \in S \cup Held(cs)' PROVE CampaignOf[t] \in cs /\ Spent(t)' /\ ~Queued(t)'
  <2>1. t \in Targets /\ CampaignOf[t] \in cs /\ Spent(t) /\ ~Queued(t)
    BY <1>2 DEF Within, Held
  <2>2. CASE \E w \in Workers : pc[w] \in BeforeSend /\ tgt[w] = t /\ pc'[w] \notin BeforeSend
    <3>1. PICK w \in Workers : pc[w] \in BeforeSend /\ tgt[w] = t /\ pc'[w] \notin BeforeSend
      BY <2>2
    <3>2. Serves(w, cs)
      BY <2>1, <3>1, WorkersRows DEF Serves
    <3>3. t \notin S
      BY <3>1, <3>2 DEF Within
    <3>4. PICK u \in Workers : Serves(u, cs)' /\ tgt'[u] = t
      BY <3>3 DEF Held
    <3>5. u = w
      BY <1>1, <3>1, <3>2, <3>4 DEF Within
    <3> QED BY <3>1, <3>4, <3>5 DEF Serves
  <2> QED BY <2>1, <2>2 DEF Calm
<1>4. Cardinality(S \cup Held(cs)') <= limit
  <2>1. S \cup Held(cs) \in SUBSET Targets /\ S \cup Held(cs)' \in SUBSET (S \cup Held(cs))
    BY <1>2 DEF Held
  <2>2. /\ Cardinality(S \cup Held(cs)') <= Cardinality(S \cup Held(cs))
        /\ Cardinality(S \cup Held(cs)) \in Nat /\ Cardinality(S \cup Held(cs)') \in Nat
    BY <2>1, SmallerSet
  <2>3. Cardinality(S \cup Held(cs)) <= limit
    BY DEF Within
  <2> QED BY <2>2, <2>3
<1>5. ASSUME NEW w \in Workers, pc'[w] = "claim", camp'[w] \in cs
      PROVE  /\ at'[w] >= Midnight(now')
             /\ Lost(cs)' \/ Cardinality(Spending(cs)') < limit
  <2>1. pc[w] = "claim" /\ camp[w] \in cs /\ at'[w] = at[w] /\ Midnight(now') = Midnight(now)
    BY <1>5 DEF Calm
  <2>2. CASE Lost(cs)
    BY <2>1, <2>2 DEF Within, Lost, Calm
  <2>3. CASE ~Lost(cs) /\ ~Lost(cs)'
    <3>1. Spending(cs)' \subseteq Spending(cs)
      <4> SUFFICES ASSUME NEW t \in Targets, CampaignOf[t] \in cs, Spent(t)'
                   PROVE  Spent(t)
        BY DEF Spending
      <4>1. status'[CampaignOf[t]] # "deleted"
        BY <2>3 DEF Lost
      <4>2. ASSUME NEW u \in Workers, pc[u] = "mark", tgt[u] = t PROVE Spent(t)
        BY <4>2, WorkersRows DEF Within
      <4> QED BY <4>1, <4>2 DEF Calm
    <3>2. Spending(cs) \in SUBSET Targets
      BY DEF Spending
    <3>3. /\ Cardinality(Spending(cs)') <= Cardinality(Spending(cs))
          /\ Cardinality(Spending(cs)) \in Nat /\ Cardinality(Spending(cs)') \in Nat
      BY <3>1, <3>2, SmallerSet
    <3>4. at[w] >= Midnight(now) /\ Cardinality(Spending(cs)) < limit
      BY <2>1, <2>3 DEF Within
    <3> QED BY <2>1, <3>3, <3>4
  <2> QED BY <2>1, <2>2, <2>3 DEF Within
<1>6. \A w \in Workers : pc'[w] = "mark" /\ camp'[w] \in cs => tgt'[w] \in S
  BY DEF Within, Calm
<1>7. \A w \in Workers : Serves(w, cs)' => tgt'[w] \notin S
  BY <1>1 DEF Within
<1>8. \A u, w \in Workers : Serves(u, cs)' /\ Serves(w, cs)' /\ tgt'[u] = tgt'[w] => u = w
  BY <1>1 DEF Within
<1> QED BY <1>3, <1>4, <1>5, <1>6, <1>7, <1>8 DEF Within

\* Midnight(time) is the last multiple of the day's length.
LEMMA MidnightPast ==
  ASSUME NEW x \in Nat PROVE Midnight(x) \in Nat /\ Midnight(x) <= x
  BY BoundAssumption DEF Midnight

LEMMA MidnightStays ==
  ASSUME NEW x \in Nat, (x + 1) % DayLength # 0 PROVE Midnight(x + 1) = Midnight(x)
<1> DEFINE q == x \div DayLength
           r == x % DayLength
           p == (x + 1) \div DayLength
           s == (x + 1) % DayLength
<1>0. DayLength \in Nat \ {0}
  BY BoundAssumption
<1>1. /\ x = DayLength * q + r /\ r \in 0..DayLength-1 /\ q \in Int
      /\ x + 1 = DayLength * p + s /\ s \in 1..DayLength-1 /\ p \in Int
  BY <1>0
<1> HIDE DEF q, r, p, s
<1>2. CASE p = q
  BY <1>0, <1>1, <1>2 DEF Midnight, r, s
<1>3. CASE p >= q + 1
  <2>1. DayLength * p >= DayLength * (q + 1)
    BY <1>0, <1>1, <1>3
  <2> QED BY <1>0, <1>1, <2>1
<1>4. CASE p <= q - 1
  <2>1. DayLength * p <= DayLength * (q - 1)
    BY <1>0, <1>1, <1>4
  <2> QED BY <1>0, <1>1, <2>1
<1> QED BY <1>1, <1>2, <1>3, <1>4

\* A reservation is checked against the rows of the moment.
LEMMA ReserveKeeps ==
  ASSUME TypeOK, Wiped, NEW cs \in SUBSET Campaigns, NEW S \in SUBSET Targets,
         NEW limit \in Nat, Within(cs, S, limit),
         NEW w \in Workers, Reserve(w), pc'[w] = "claim",
         camp[w] \in cs => AttemptsToday(cs) < limit
  PROVE  Within(cs, S, limit)'
<1> USE Halves
<1>1. /\ Apart(w) /\ at'[w] = now
      /\ UNCHANGED <<now, status, st, claimed, sentAt, camp, tgt>>
  BY BeginsApart DEF Begins, BeforeSend, rows
<1>2. \A t : (Spent(t)' <=> Spent(t)) /\ (Queued(t)' <=> Queued(t))
  BY <1>1 DEF Spent, Queued
<1>3. \A u \in Workers : Serves(u, cs)' <=> Serves(u, cs)
  BY <1>1 DEF Serves, Apart, Reserve, BeforeSend
<1>4. Held(cs)' = Held(cs) /\ Spending(cs)' = Spending(cs) /\ (Lost(cs)' <=> Lost(cs))
  BY <1>1, <1>2, <1>3 DEF Held, Spending, Lost
<1>5. \A u \in Workers \ {w} : pc'[u] = pc[u] /\ at'[u] = at[u]
  BY <1>1 DEF Apart
<1>6. camp[w] \in cs => Lost(cs) \/ Cardinality(Spending(cs)) < limit
  <2> SUFFICES ASSUME camp[w] \in cs, ~Lost(cs) PROVE Cardinality(Spending(cs)) < limit
    OBVIOUS
  <2>1. \A t \in Targets : CampaignOf[t] \in cs => st[t] # "gone"
    BY DEF Lost, Wiped
  <2>2. Spending(cs) = {t \in Targets : /\ CampaignOf[t] \in cs
                                        /\ st[t] # "gone"
                                        /\ sentAt[t] >= Midnight(now)}
    BY <2>1 DEF Spending, Spent
  <2> QED BY <2>2 DEF AttemptsToday
<1>7. now >= Midnight(now)
  BY MidnightPast DEF RowsOK
<1>8. /\ \A u \in Workers : pc'[u] = "mark" /\ camp'[u] \in cs => tgt'[u] \in S
      /\ \A u \in Workers : Serves(u, cs)' => tgt'[u] \notin S
      /\ \A u, v \in Workers : Serves(u, cs)' /\ Serves(v, cs)' /\ tgt'[u] = tgt'[v] => u = v
  BY <1>1, <1>3, <1>5 DEF Within
<1>9. /\ \A t \in S \cup Held(cs)' : CampaignOf[t] \in cs /\ Spent(t)' /\ ~Queued(t)'
      /\ Cardinality(S \cup Held(cs)') <= limit
  BY <1>2, <1>4 DEF Within
<1>10. \A u \in Workers : pc'[u] = "claim" /\ camp'[u] \in cs =>
          /\ at'[u] >= Midnight(now')
          /\ Lost(cs)' \/ Cardinality(Spending(cs)') < limit
  BY <1>1, <1>4, <1>5, <1>6, <1>7 DEF Within
<1> QED BY <1>8, <1>9, <1>10 DEF Within

\* The claim turns the room the reservation saw into a row of the count; the
\* lock made sure that nobody else saw the same room.
LEMMA ClaimKeeps ==
  ASSUME TypeOK, Wiped, Locked, NEW cs \in SUBSET Campaigns, NEW S \in SUBSET Targets,
         NEW limit \in Nat, Within(cs, S, limit),
         NEW w \in Workers, Claim(w), pc'[w] = "lead",
         \A c, d \in cs : TenantOf[c] = TenantOf[d],
         camp[w] \in cs => ~Lost(cs)
  PROVE  Within(cs, S, limit)'
<1> USE Halves
<1>0. pc[w] = "claim"
  BY DEF Claim
<1>2. PICK t \in Targets : t = tgt[w] /\ camp[w] \in Campaigns /\ CampaignOf[t] = camp[w]
  BY <1>0, WorkersRows
<1>1. /\ Apart(w) /\ pc[w] = "claim" /\ Queued(t)
      /\ UNCHANGED <<now, status, st, camp, tgt>>
      /\ claimed' = [claimed EXCEPT ![t] = TRUE]
      /\ sentAt' = [sentAt EXCEPT ![t] = at[w]]
  BY <1>2, BeginsApart DEF Begins
<1>3. \A u \in Targets \ {t} : (Spent(u)' <=> Spent(u)) /\ (Queued(u)' <=> Queued(u))
  BY <1>1, <1>2 DEF Spent, Queued, RowsOK
<1>4. ~Queued(t)'
  BY <1>1, <1>2 DEF Queued, RowsOK
<1>5. \A u \in Workers \ {w} : pc'[u] = pc[u] /\ at'[u] = at[u]
  BY <1>1 DEF Apart
<1>6. t \notin S \cup Held(cs)
  BY <1>1 DEF Within
<1>7. CASE camp[w] \notin cs
  <2>1. \A u \in Workers : Serves(u, cs)' <=> Serves(u, cs)
    BY <1>1, <1>5, <1>7 DEF Serves
  <2>2. Held(cs)' = Held(cs) /\ Spending(cs)' = Spending(cs) /\ (Lost(cs)' <=> Lost(cs))
    BY <1>1, <1>2, <1>3, <1>7, <2>1 DEF Held, Spending, Lost
  <2>3. /\ \A u \in Workers : pc'[u] = "mark" /\ camp'[u] \in cs => tgt'[u] \in S
        /\ \A u \in Workers : Serves(u, cs)' => tgt'[u] \notin S
        /\ \A u, v \in Workers : Serves(u, cs)' /\ Serves(v, cs)' /\ tgt'[u] = tgt'[v] => u = v
    BY <1>1, <1>5, <1>7, <2>1 DEF Within
  <2>4. \A u \in S \cup Held(cs)' : CampaignOf[u] \in cs /\ Spent(u)' /\ ~Queued(u)'
    BY <1>3, <1>6, <2>2 DEF Within, Held
  <2>5. \A u \in Workers : pc'[u] = "claim" /\ camp'[u] \in cs =>
          /\ at'[u] >= Midnight(now')
          /\ Lost(cs)' \/ Cardinality(Spending(cs)') < limit
    BY <1>1, <1>5, <1>7, <2>2 DEF Within
  <2>6. Cardinality(S \cup Held(cs)') <= limit
    BY <2>2 DEF Within
  <2> QED BY <2>3, <2>4, <2>5, <2>6 DEF Within
<1>8. CASE camp[w] \in cs
  <2>1. at[w] >= Midnight(now) /\ Cardinality(Spending(cs)) < limit
    BY <1>1, <1>8 DEF Within
  <2>2. Spent(t)'
    BY <1>1, <1>2, <2>1 DEF Spent, RowsOK
  <2>3. \A u \in Workers \ {w} : Serves(u, cs)' <=> Serves(u, cs)
    BY <1>1, <1>5 DEF Serves
  <2>4. Held(cs)' = Held(cs) \cup {t}
    <3>1. Serves(w, cs)' /\ tgt'[w] = t /\ ~Serves(w, cs)
      BY <1>1, <1>2, <1>8 DEF Serves, BeforeSend
    <3> QED BY <1>1, <1>2, <2>3, <3>1 DEF Held
  <2>5. \A u \in S \cup Held(cs)' : CampaignOf[u] \in cs /\ Spent(u)' /\ ~Queued(u)'
    <3>1. ASSUME NEW u \in S \cup Held(cs)', u # t
          PROVE  CampaignOf[u] \in cs /\ Spent(u)' /\ ~Queued(u)'
      <4>1. u \in S \cup Held(cs) /\ u \in Targets
        BY <2>4, <3>1 DEF Held
      <4> QED BY <1>3, <3>1, <4>1 DEF Within
    <3> QED BY <1>2, <1>4, <1>8, <2>2, <3>1
  <2>6. Cardinality(S \cup Held(cs)') <= limit
    <3>1. S \cup Held(cs) \in SUBSET Spending(cs) /\ Spending(cs) \in SUBSET Targets
      BY DEF Within, Spending, Held
    <3>2. /\ Cardinality(S \cup Held(cs)) <= Cardinality(Spending(cs))
          /\ Cardinality(S \cup Held(cs)) \in Nat /\ Cardinality(Spending(cs)) \in Nat
      BY <3>1, SmallerSet
    <3>3. IsFiniteSet(S \cup Held(cs))
      BY <3>1, TopologyAssumption, FS_Subset
    <3>4. S \cup Held(cs)' = (S \cup Held(cs)) \cup {t}
      BY <2>4
    <3>5. Cardinality((S \cup Held(cs)) \cup {t}) = Cardinality(S \cup Held(cs)) + 1
      BY <1>6, <3>3, FS_AddElement
    <3>6. Cardinality(S \cup Held(cs)') = Cardinality(S \cup Held(cs)) + 1
      BY <3>4, <3>5
    <3> QED BY <2>1, <3>2, <3>6
  <2>7. \A u \in Workers : ~(pc'[u] = "claim" /\ camp'[u] \in cs)
    BY <1>1, <1>5, <1>8 DEF Locked
  <2>8. \A u \in Workers : pc'[u] = "mark" /\ camp'[u] \in cs => tgt'[u] \in S
    BY <1>1, <1>5 DEF Within
  <2>9. \A u \in Workers : Serves(u, cs)' => tgt'[u] \notin S
    BY <1>1, <1>2, <1>6, <2>3 DEF Within
  <2>10. \A u, v \in Workers : Serves(u, cs)' /\ Serves(v, cs)' /\ tgt'[u] = tgt'[v] => u = v
    <3>1. \A u \in Workers \ {w} : Serves(u, cs) => tgt[u] # t
      BY <1>2, <1>6 DEF Held
    <3> QED BY <1>1, <1>2, <2>3, <3>1 DEF Within
  <2> QED BY <2>5, <2>6, <2>7, <2>8, <2>9, <2>10 DEF Within
<1> QED BY <1>7, <1>8

\* Sending moves a target from the claims to the messages of the day.
LEMMA SendKeeps ==
  ASSUME TypeOK, NEW cs \in SUBSET Campaigns, NEW S \in SUBSET Targets,
         NEW limit \in Nat, Within(cs, S, limit), NEW w \in Workers, SendText(w)
  PROVE  /\ camp[w] \in cs => \E T \in SUBSET Targets : /\ Within(cs, T, limit)'
                                                         /\ Cardinality(T) = Cardinality(S) + 1
         /\ camp[w] \notin cs => Within(cs, S, limit)'
<1>0. PICK t \in Targets : t = tgt[w]
  BY SendApart
<1>1. /\ Apart(w) /\ pc[w] \in BeforeSend /\ pc'[w] = "mark"
      /\ UNCHANGED <<now, status, st, claimed, sentAt, camp, tgt, at>>
  BY SendApart DEF rows
<1>2. \A u : (Spent(u)' <=> Spent(u)) /\ (Queued(u)' <=> Queued(u))
  BY <1>1 DEF Spent, Queued
<1>3. Spending(cs)' = Spending(cs) /\ (Lost(cs)' <=> Lost(cs))
  BY <1>1, <1>2 DEF Spending, Lost
<1>4. \A u \in Workers \ {w} : pc'[u] = pc[u]
  BY <1>1 DEF Apart
<1>5. \A u \in Workers : Serves(u, cs)' <=> Serves(u, cs) /\ u # w
  BY <1>1, <1>4 DEF Serves, BeforeSend
<1>6. \A u \in Workers : pc'[u] = "claim" /\ camp'[u] \in cs =>
          /\ at'[u] >= Midnight(now')
          /\ Lost(cs)' \/ Cardinality(Spending(cs)') < limit
  BY <1>1, <1>3, <1>4 DEF Within
<1>7. \A u, v \in Workers : Serves(u, cs)' /\ Serves(v, cs)' /\ tgt'[u] = tgt'[v] => u = v
  BY <1>1, <1>5 DEF Within
<1>8. CASE camp[w] \in cs
  <2>1. Serves(w, cs) /\ t \notin S
    BY <1>0, <1>1, <1>8 DEF Serves, Within
  <2>2. (S \cup {t}) \cup Held(cs)' = S \cup Held(cs)
    BY <1>0, <1>1, <1>5, <2>1 DEF Held
  <2>3. \A u \in (S \cup {t}) \cup Held(cs)' : CampaignOf[u] \in cs /\ Spent(u)' /\ ~Queued(u)'
    BY <1>2, <2>2 DEF Within
  <2>4. \A u \in Workers : pc'[u] = "mark" /\ camp'[u] \in cs => tgt'[u] \in S \cup {t}
    BY <1>0, <1>1, <1>4 DEF Within
  <2>5. \A u \in Workers : Serves(u, cs)' => tgt'[u] \notin S \cup {t}
    BY <1>0, <1>1, <1>5, <2>1 DEF Within
  <2>6. Cardinality((S \cup {t}) \cup Held(cs)') <= limit
    BY <2>2 DEF Within
  <2>7. Within(cs, S \cup {t}, limit)'
    BY <1>6, <1>7, <2>3, <2>4, <2>5, <2>6 DEF Within
  <2>8. IsFiniteSet(S)
    BY TopologyAssumption, FS_Subset
  <2>9. Cardinality(S \cup {t}) = Cardinality(S) + 1
    BY <2>1, <2>8, FS_AddElement
  <2> QED BY <1>8, <2>7, <2>9
<1>9. CASE camp[w] \notin cs
  <2>1. \A u \in Workers : Serves(u, cs)' <=> Serves(u, cs)
    BY <1>5, <1>9 DEF Serves
  <2>2. Held(cs)' = Held(cs)
    BY <1>1, <2>1 DEF Held
  <2>3. /\ \A u \in Workers : pc'[u] = "mark" /\ camp'[u] \in cs => tgt'[u] \in S
        /\ \A u \in Workers : Serves(u, cs)' => tgt'[u] \notin S
    BY <1>1, <1>4, <1>9, <2>1 DEF Within
  <2>4. /\ \A u \in S \cup Held(cs)' : CampaignOf[u] \in cs /\ Spent(u)' /\ ~Queued(u)'
        /\ Cardinality(S \cup Held(cs)') <= limit
    BY <1>2, <2>2 DEF Within
  <2> QED BY <1>6, <1>7, <1>9, <2>3, <2>4 DEF Within
<1> QED BY <1>8, <1>9

Grants(w) == Reserve(w) /\ pc'[w] = "claim"
Claims(w) == Claim(w) /\ pc'[w] = "lead"
NewDay == TimePasses /\ (now + 1) % DayLength = 0

LEMMA CalmWorker ==
  ASSUME TypeOK, Wiped, NEW w \in Workers, Apart(w),
         UNCHANGED <<now, sentOn, sentBy, carried>>,
         pc'[w] \notin {"mark", "claim"},
         pc'[w] \in BeforeSend => pc[w] \in BeforeSend /\ UNCHANGED <<tgt, camp, at>>,
         \A c \in Campaigns : status[c] = "deleted" => status'[c] = "deleted",
         \A t \in Targets : /\ Spent(t) /\ ~Queued(t) =>
                                 \/ Spent(t)' /\ ~Queued(t)'
                                 \/ /\ pc[w] \in BeforeSend /\ tgt[w] = t
                                    /\ pc'[w] \notin BeforeSend
                            /\ Spent(t)' => Spent(t) \/ (pc[w] = "mark" /\ tgt[w] = t)
  PROVE  Calm
<1>1. \A u \in Workers :
          /\ pc'[u] \in {"mark", "claim"} => pc[u] = pc'[u]
          /\ pc'[u] \in BeforeSend => pc[u] \in BeforeSend
          /\ pc'[u] \in BeforeSend \cup {"mark", "claim"} =>
                tgt'[u] = tgt[u] /\ camp'[u] = camp[u] /\ at'[u] = at[u]
  BY DEF Apart
<1> QED BY <1>1 DEF Calm, Midnight

LEMMA SettlesCalm ==
  ASSUME TypeOK, Wiped, NEW w \in Workers, Settles(w) PROVE Calm
<1> USE Halves
<1>1. /\ Apart(w) /\ pc'[w] \notin BeforeSend \cup {"mark", "claim"}
      /\ UNCHANGED <<now, status, sentOn, sentBy, carried>>
  BY SettlesApart DEF history
<1>2. CASE UNCHANGED rows
  BY <1>1, <1>2, CalmWorker DEF Spent, Queued, rows
<1>3. CASE ~UNCHANGED rows
  <2>1. PICK t \in Targets : t = tgt[w]
    BY SettlesApart
  <2>2. PICK s \in TargetStatus \ {"gone"}, time \in Time :
          /\ SetTarget(t, s, time) /\ st[t] # "gone"
          /\ \/ pc[w] \in BeforeSend /\ time \in {Never, sentAt[t]}
             \/ time = sentAt[t] /\ s = "failed"
             \/ pc[w] = "mark" /\ time = now /\ s = "sent"
    BY <1>3, <2>1, SettlesApart
  <2>3. \A u \in Targets \ {t} : (Spent(u)' <=> Spent(u)) /\ (Queued(u)' <=> Queued(u))
    BY <1>1, <2>2 DEF SetTarget, Spent, Queued, RowsOK
  <2>4. /\ st'[t] = s /\ sentAt'[t] = time /\ (Queued(t)' => s = "pending")
    BY <2>2 DEF SetTarget, Queued, RowsOK
  <2>5. Midnight(now) \in Nat /\ Midnight(now) <= now /\ Midnight(now') = Midnight(now)
    BY <1>1, MidnightPast DEF RowsOK
  <2>6. Spent(t)' <=> time >= Midnight(now)
    BY <1>1, <2>2, <2>4 DEF Spent
  <2>7. Spent(t) <=> sentAt[t] >= Midnight(now)
    BY <2>2 DEF Spent
  <2>8. /\ Spent(t) /\ ~Queued(t) =>
             \/ Spent(t)' /\ ~Queued(t)'
             \/ pc[w] \in BeforeSend /\ pc'[w] \notin BeforeSend
        /\ Spent(t)' => Spent(t) \/ pc[w] = "mark"
    BY <1>1, <2>2, <2>4, <2>5, <2>6, <2>7 DEF Never
  <2> QED BY <1>1, <2>1, <2>3, <2>8, CalmWorker
<1> QED BY <1>2, <1>3

LEMMA ElsewhereCalm ==
  ASSUME TypeOK, Wiped, Elsewhere PROVE Calm
<1>1. /\ Wiped' /\ RowsLeft
      /\ UNCHANGED <<now, pc, camp, tgt, at>>
  BY ElsewhereRows DEF processes
<1>2. ASSUME NEW t \in Targets
      PROVE  /\ Spent(t) /\ ~Queued(t) => Spent(t)' /\ ~Queued(t)'
             /\ Spent(t)' => Spent(t) \/ status'[CampaignOf[t]] = "deleted"
  <2>1. CampaignOf[t] \in Campaigns
    BY TopologyAssumption
  <2>2. st[t] = "gone" => st'[t] = "gone"
    BY <1>1, <2>1 DEF Wiped, RowsLeft
  <2>3. Midnight(now') = Midnight(now) /\ Midnight(now) \in Nat /\ sentAt[t] \in Int
    BY <1>1, Halves, MidnightPast DEF RowsOK, Time, Never
  <2> QED BY <1>1, <2>2, <2>3 DEF RowsLeft, Spent, Retryable, Wiped
<1> QED BY <1>1, <1>2 DEF Calm, RowsLeft

\* Every step is calm, or one of the four that count.
LEMMA CalmNext ==
  ASSUME TypeOK, Wiped, [Next]_vars
  PROVE  \/ Calm /\ UNCHANGED <<sentOn, sentBy, carried>>
         \/ \E w \in Workers : Grants(w) \/ Claims(w) \/ SendText(w)
         \/ NewDay
<1> USE Halves
<1>1. ASSUME NEW w \in Workers, Begins(w), ~Grants(w), ~Claims(w)
      PROVE  Calm /\ UNCHANGED <<sentOn, sentBy, carried>>
  BY <1>1, BeginsApart, CalmWorker
  DEF Grants, Claims, Spent, Queued, BeforeSend, rows, history
<1>2. ASSUME NEW w \in Workers, Proceeds(w)
      PROVE  Calm /\ UNCHANGED <<sentOn, sentBy, carried>>
  BY <1>2, ProceedsApart, CalmWorker DEF Spent, Queued, BeforeSend, rows, world, history
<1>3. ASSUME NEW w \in Workers, Settles(w)
      PROVE  Calm /\ UNCHANGED <<sentOn, sentBy, carried>>
  BY <1>3, SettlesApart, SettlesCalm DEF history
<1>4. ASSUME NEW w \in Workers, Idles(w)
      PROVE  Calm /\ UNCHANGED <<sentOn, sentBy, carried>>
  BY <1>4, IdlesApart, CalmWorker DEF Spent, Queued, history
<1>5. CASE Elsewhere
  BY <1>5, ElsewhereRows, ElsewhereCalm
<1>6. CASE TimePasses /\ ~NewDay
  <2>1. now' = now + 1 /\ UNCHANGED <<rows, processes, sentOn, sentBy, carried>>
    BY <1>6 DEF TimePasses, NewDay
  <2>2. Midnight(now') = Midnight(now)
    BY <1>6, <2>1, MidnightStays DEF NewDay, RowsOK
  <2> QED BY <2>1, <2>2 DEF Calm, Spent, Queued, rows, processes
<1>7. CASE UNCHANGED vars
  BY <1>7 DEF vars, Calm, Spent, Queued, rows, history, Midnight
<1> QED BY <1>1, <1>2, <1>3, <1>4, <1>5, <1>6, <1>7, NextSteps, WorkerSteps DEF NewDay

\* A day begins with nothing under way: nobody of cs is carried over.
LEMMA NewDayKeeps ==
  ASSUME TypeOK, NewDay, NEW cs \in SUBSET Campaigns, NEW limit \in Nat,
         \A c \in cs : ~Open(c)
  PROVE  Within(cs, {}, limit)'
<1>1. UNCHANGED <<pc, camp, tgt>>
  BY DEF NewDay, TimePasses, processes
<1>2. \A w \in Workers :
        pc'[w] \in BeforeSend \cup {"mark", "claim"} => camp'[w] \notin cs
  BY <1>1 DEF Open
<1>3. Held(cs)' = {}
  BY <1>2 DEF Held, Serves
<1> QED BY <1>2, <1>3, FS_EmptySet DEF Within, Serves

DayOfCampaign ==
    \A c \in Campaigns : ~carried[c] =>
        \E S \in SUBSET Targets : /\ Cardinality(S) = sentOn[c]
                                  /\ Within({c}, S, DailyLimit[c])

DayOfTenant ==
    \A c \in Campaigns :
        (\A d \in SameTenant(c) : ~carried[d] /\ status[d] # "deleted") =>
            \E S \in SUBSET Targets : /\ Cardinality(S) = sentBy[TenantOf[c]]
                                      /\ Within(SameTenant(c), S, TenantLimit)

LEMMA ClaimantsCampaign ==
  ASSUME TypeOK, Wiped, NEW w \in Workers, Grants(w) \/ Claims(w)
  PROVE  /\ camp[w] \in Campaigns /\ status[camp[w]] # "deleted"
         /\ UNCHANGED <<status, carried, sentOn, sentBy>>
         /\ Grants(w) => /\ AttemptsToday({camp[w]}) < DailyLimit[camp[w]]
                         /\ AttemptsToday(SameTenant(camp[w])) < TenantLimit
<1> USE Halves
<1>1. CASE Grants(w)
  <2>1. camp[w] \in Campaigns
    BY <1>1, ServingTarget DEF Grants, Reserve, Serving, PC, InLoop
  <2>2. CanReserve(camp[w]) /\ UNCHANGED <<rows, history>>
    BY <1>1, BeginsApart DEF Grants, Begins
  <2> QED BY <1>1, <2>1, <2>2 DEF CanReserve, Dispatchable, rows, history, Grants, Claims
<1>2. CASE Claims(w)
  <2>1. pc[w] = "claim" /\ Queued(tgt[w]) /\ UNCHANGED <<status, history>>
    BY <1>2, BeginsApart DEF Claims, Begins
  <2>2. /\ tgt[w] \in Targets /\ camp[w] \in Campaigns
        /\ CampaignOf[tgt[w]] = camp[w]
    BY <2>1, WorkersRows
  <2>3. ~Grants(w)
    BY <2>1 DEF Grants, Reserve
  <2> QED BY <2>1, <2>2, <2>3 DEF Wiped, Queued, history
<1> QED BY <1>1, <1>2

\* The terms on which the two limits are promised were met before the step, if
\* they are met after it within the day.
LEMMA CampaignNext ==
  ASSUME TypeOK, Wiped, Locked, DayOfCampaign, [Next]_vars PROVE DayOfCampaign'
<1> USE Halves
<1> SUFFICES ASSUME NEW c \in Campaigns, ~carried'[c]
             PROVE  \E S \in SUBSET Targets : /\ Cardinality(S) = sentOn'[c]
                                              /\ Within({c}, S, DailyLimit[c])'
  BY DEF DayOfCampaign
<1>0. {c} \in SUBSET Campaigns /\ DailyLimit[c] \in Nat
  BY BoundAssumption
<1>1. CASE NewDay
  <2>1. ~Open(c) /\ sentOn'[c] = 0
    BY <1>1 DEF NewDay, TimePasses
  <2>2. Within({c}, {}, DailyLimit[c])'
    BY <1>0, <1>1, <2>1, NewDayKeeps
  <2> QED BY <2>1, <2>2, FS_EmptySet
<1>2. CASE ~NewDay
  <2>1. UNCHANGED carried
    BY <1>2, CalmNext, ClaimantsCampaign, SendApart
  <2>2. PICK S \in SUBSET Targets : /\ Cardinality(S) = sentOn[c]
                                    /\ Within({c}, S, DailyLimit[c])
    BY <2>1 DEF DayOfCampaign
  <2>3. CASE Calm /\ UNCHANGED <<sentOn, sentBy, carried>>
    BY <1>0, <2>2, <2>3, CalmKeeps
  <2>4. ASSUME NEW w \in Workers, Grants(w)
        PROVE  sentOn'[c] = sentOn[c] /\ Within({c}, S, DailyLimit[c])'
    <3>1. camp[w] \in {c} => AttemptsToday({c}) < DailyLimit[c]
      BY <2>4, ClaimantsCampaign
    <3> QED BY <1>0, <2>2, <2>4, <3>1, ReserveKeeps, ClaimantsCampaign DEF Grants
  <2>5. ASSUME NEW w \in Workers, Claims(w)
        PROVE  sentOn'[c] = sentOn[c] /\ Within({c}, S, DailyLimit[c])'
    <3>1. camp[w] \in {c} => ~Lost({c})
      BY <2>5, ClaimantsCampaign DEF Lost
    <3> QED BY <1>0, <2>2, <2>5, <3>1, ClaimKeeps, ClaimantsCampaign DEF Claims
  <2>6. ASSUME NEW w \in Workers, SendText(w)
        PROVE  \E T \in SUBSET Targets : /\ Cardinality(T) = sentOn'[c]
                                         /\ Within({c}, T, DailyLimit[c])'
    <3>1. sentOn'[c] = IF camp[w] \in {c} THEN sentOn[c] + 1 ELSE sentOn[c]
      BY <2>6, SendApart DEF RowsOK
    <3> QED BY <1>0, <2>2, <2>6, <3>1, SendKeeps
  <2> QED BY <1>2, <2>2, <2>3, <2>4, <2>5, <2>6, CalmNext
<1> QED BY <1>1, <1>2

LEMMA TenantNext ==
  ASSUME TypeOK, Wiped, Locked, DayOfTenant, [Next]_vars PROVE DayOfTenant'
<1> USE Halves
<1> SUFFICES ASSUME NEW c \in Campaigns,
                    \A d \in SameTenant(c) : ~carried'[d] /\ status'[d] # "deleted"
             PROVE  \E S \in SUBSET Targets :
                       /\ Cardinality(S) = sentBy'[TenantOf[c]]
                       /\ Within(SameTenant(c), S, TenantLimit)'
  BY DEF DayOfTenant
<1> DEFINE cs == SameTenant(c)
<1>0. /\ cs \in SUBSET Campaigns /\ TenantLimit \in Nat /\ TenantOf[c] \in Tenants
      /\ \A d \in Campaigns : d \in cs <=> TenantOf[d] = TenantOf[c]
      /\ \A d \in cs : SameTenant(d) = cs
  BY BoundAssumption, TopologyAssumption DEF SameTenant
<1> HIDE DEF cs
<1>a. \A d \in cs : ~carried'[d] /\ status'[d] # "deleted"
  BY DEF cs
<1> SUFFICES \E S \in SUBSET Targets : /\ Cardinality(S) = sentBy'[TenantOf[c]]
                                       /\ Within(cs, S, TenantLimit)'
  BY DEF cs
<1>1. CASE NewDay
  <2>1. (\A d \in cs : ~Open(d)) /\ sentBy'[TenantOf[c]] = 0
    BY <1>0, <1>1, <1>a DEF NewDay, TimePasses
  <2>2. Within(cs, {}, TenantLimit)'
    BY <1>0, <1>1, <2>1, NewDayKeeps
  <2> QED BY <2>1, <2>2, FS_EmptySet
<1>2. CASE ~NewDay
  <2>1. UNCHANGED carried /\ \A d \in Campaigns : status[d] = "deleted" => status'[d] = "deleted"
    BY <1>2, CalmNext, ClaimantsCampaign, SendApart DEF Calm, rows
  <2>2. PICK S \in SUBSET Targets : /\ Cardinality(S) = sentBy[TenantOf[c]]
                                    /\ Within(cs, S, TenantLimit)
    BY <1>0, <1>a, <2>1 DEF DayOfTenant, cs
  <2>3. CASE Calm /\ UNCHANGED <<sentOn, sentBy, carried>>
    BY <1>0, <2>2, <2>3, CalmKeeps
  <2>4. ASSUME NEW w \in Workers, Grants(w)
        PROVE  UNCHANGED sentBy /\ Within(cs, S, TenantLimit)'
    <3>1. camp[w] \in cs => AttemptsToday(cs) < TenantLimit
      BY <1>0, <2>4, ClaimantsCampaign
    <3> QED BY <1>0, <2>2, <2>4, <3>1, ReserveKeeps, ClaimantsCampaign DEF Grants
  <2>5. ASSUME NEW w \in Workers, Claims(w)
        PROVE  UNCHANGED sentBy /\ Within(cs, S, TenantLimit)'
    <3>1. ~Lost(cs)
      BY <1>0, <1>a, <2>1 DEF Lost
    <3> QED BY <1>0, <2>2, <2>5, <3>1, ClaimKeeps, ClaimantsCampaign DEF Claims
  <2>6. ASSUME NEW w \in Workers, SendText(w)
        PROVE  \E T \in SUBSET Targets : /\ Cardinality(T) = sentBy'[TenantOf[c]]
                                         /\ Within(cs, T, TenantLimit)'
    <3>1. sentBy'[TenantOf[c]] =
            IF camp[w] \in cs THEN sentBy[TenantOf[c]] + 1 ELSE sentBy[TenantOf[c]]
      BY <1>0, <2>6, SendApart DEF RowsOK
    <3> QED BY <1>0, <2>2, <2>6, <3>1, SendKeeps
  <2> QED BY <1>2, <2>2, <2>3, <2>4, <2>5, <2>6, CalmNext
<1> QED BY <1>1, <1>2

LEMMA DayInit == Init => DayOfCampaign /\ DayOfTenant
<1> SUFFICES ASSUME Init PROVE DayOfCampaign /\ DayOfTenant
  OBVIOUS
<1>1. ASSUME NEW cs, NEW limit \in Nat PROVE Within(cs, {}, limit)
  <2>1. \A w \in Workers : pc[w] = "idle"
    BY DEF Init
  <2>2. Held(cs) = {}
    BY <2>1 DEF Held, Serves, BeforeSend
  <2> QED BY <2>1, <2>2, FS_EmptySet DEF Within, Serves, BeforeSend
<1>2. DayOfCampaign
  <2>1. \A c \in Campaigns : sentOn[c] = 0 /\ DailyLimit[c] \in Nat
    BY BoundAssumption DEF Init
  <2> QED BY <1>1, <2>1, FS_EmptySet DEF DayOfCampaign
<1>3. DayOfTenant
  <2>1. \A c \in Campaigns : sentBy[TenantOf[c]] = 0 /\ TenantLimit \in Nat
    BY BoundAssumption, TopologyAssumption DEF Init
  <2> QED BY <1>1, <2>1, FS_EmptySet DEF DayOfTenant
<1> QED BY <1>2, <1>3

\* What is within the limit leaves the messages of the day within it.
LEMMA WithinLimit ==
  ASSUME NEW cs, NEW S \in SUBSET Targets, NEW limit \in Nat, Within(cs, S, limit)
  PROVE  Cardinality(S) <= limit
<1>1. S \cup Held(cs) \in SUBSET Targets
  BY DEF Held
<1>2. /\ Cardinality(S) <= Cardinality(S \cup Held(cs))
      /\ Cardinality(S) \in Nat /\ Cardinality(S \cup Held(cs)) \in Nat
  BY <1>1, SmallerSet
<1>3. Cardinality(S \cup Held(cs)) <= limit
  BY DEF Within
<1> QED BY <1>2, <1>3

\* Refunds, retries, replies, slow senders and restarts never let a campaign
\* send more in a day than its limit.
THEOREM DailyLimitKept == Spec => []QuotaPerDay
<1>1. TypeOK /\ Wiped /\ Locked /\ DayOfCampaign /\ [Next]_vars
        => Wiped' /\ Locked' /\ DayOfCampaign'
  BY WipedNext, LockedNext, CampaignNext
<1>2. DayOfCampaign => QuotaPerDay
  BY WithinLimit, BoundAssumption DEF DayOfCampaign, QuotaPerDay
<1> QED BY <1>1, <1>2, GroundInit, DayInit, TypeCorrect, PTL DEF Spec

\* Nor do all campaigns of a company together send more than the company's cap,
\* as long as none of them was deleted.
THEOREM TenantLimitKept == Spec => []TenantQuotaPerDay
<1>1. TypeOK /\ Wiped /\ Locked /\ DayOfTenant /\ [Next]_vars
        => Wiped' /\ Locked' /\ DayOfTenant'
  BY WipedNext, LockedNext, TenantNext
<1>2. DayOfTenant => TenantQuotaPerDay
  BY WithinLimit, BoundAssumption DEF DayOfTenant, TenantQuotaPerDay
<1> QED BY <1>1, <1>2, GroundInit, DayInit, TypeCorrect, PTL DEF Spec

--------------------------------------------------------------------------------
(* No target stays 'dispatching'.  The recovery cron is what the promise rests *)
(* on: a claim is as old as its reservation, reservations end, and the clock   *)
(* goes on, so that a claim nobody settles is taken for interrupted.           *)

ClaimsDated ==
    /\ \A w \in Workers : pc[w] = "claim" => at[w] <= LastReserve
    /\ \A t \in Targets : claimed[t] => sentAt[t] <= LastReserve

LEMMA ElsewhereClaims ==
  ASSUME TypeOK, Elsewhere
  PROVE  \A t \in Targets : claimed'[t] => claimed[t]
<1> USE Halves
<1>1. CASE \E c \in Campaigns : RetryFailed(c) \/ RemoveDelete(c)
  BY <1>1 DEF RetryFailed, RemoveDelete, RowsOK
<1>2. CASE RecoverInterrupted
  BY <1>2 DEF RecoverInterrupted, RowsOK
<1>3. CASE \E l \in Leads : HookWrite(l)
  BY <1>3 DEF HookWrite, RowsOK
<1>4. CASE UNCHANGED claimed
  BY <1>4
<1> QED BY <1>1, <1>2, <1>3, <1>4
  DEF Elsewhere, Manage, Start, Pause, Cancel, SetStatus, RemoveCheck, Reply, LeadSpeaks,
      HookRead, HookLost, rows

LEMMA ClaimsDatedNext ==
  ASSUME TypeOK, Wiped, Wiped', ClaimsDated, [Next]_vars PROVE ClaimsDated'
<1> USE Halves
<1>1. ASSUME NEW w \in Workers, Tick(w) \/ Deliver(w) \/ SendNow(w) \/ Fault(w)
      PROVE  ClaimsDated'
  <2>1. \A u \in Workers : pc'[u] = "claim" => at'[u] <= LastReserve
    <3>1. Apart(w) /\ (pc'[w] = "claim" => CanReserve(camp[w]) /\ at'[w] = now)
      BY <1>1, ClaimersApart
    <3> QED BY <3>1 DEF Apart, ClaimsDated, CanReserve
  <2>2. ASSUME NEW t \in Targets, claimed'[t] PROVE sentAt'[t] <= LastReserve
    <3>1. CASE UNCHANGED <<claimed, sentAt>>
      BY <2>2, <3>1 DEF ClaimsDated
    <3>2. CASE Begins(w)
      <4>1. CASE UNCHANGED rows
        BY <3>1, <4>1 DEF rows
      <4>2. CASE /\ pc[w] = "claim"
                 /\ claimed' = [claimed EXCEPT ![tgt[w]] = TRUE]
                 /\ sentAt' = [sentAt EXCEPT ![tgt[w]] = at[w]]
        BY <2>2, <4>2 DEF ClaimsDated, RowsOK
      <4> QED BY <3>2, <4>1, <4>2, BeginsApart
    <3>3. CASE Settles(w)
      <4>1. CASE UNCHANGED rows
        BY <3>1, <4>1 DEF rows
      <4>2. CASE ~UNCHANGED rows
        <5>1. PICK s \in TargetStatus \ {"gone"}, time \in Time : SetTarget(tgt[w], s, time)
          BY <3>3, <4>2, SettlesApart
        <5> QED BY <2>2, <5>1 DEF SetTarget, ClaimsDated, RowsOK
      <4> QED BY <4>1, <4>2
    <3>4. CASE Proceeds(w) \/ SendText(w) \/ Idles(w)
      BY <3>1, <3>4, ProceedsApart, SendApart, IdlesApart DEF rows
    <3> QED BY <1>1, <3>2, <3>3, <3>4, WorkerSteps
  <2> QED BY <2>1, <2>2 DEF ClaimsDated
<1>2. CASE Elsewhere
  <2>1. UNCHANGED <<pc, at>> /\ RowsLeft
    BY <1>2, ElsewhereRows DEF processes
  <2>2. \A t \in Targets : claimed'[t] => claimed[t] /\ sentAt'[t] = sentAt[t]
    BY <1>2, <2>1, ElsewhereClaims DEF RowsLeft, Wiped
  <2> QED BY <2>1, <2>2 DEF ClaimsDated
<1>3. CASE TimePasses \/ UNCHANGED vars
  BY <1>3 DEF TimePasses, ClaimsDated, vars, rows, processes
<1> QED BY <1>1, <1>2, <1>3, NextSteps

LEMMA ClaimsAreDated == Spec => [](Wiped /\ ClaimsDated)
<1>1. Init => Wiped /\ ClaimsDated
  BY GroundInit DEF Init, ClaimsDated
<1>2. TypeOK /\ Wiped /\ ClaimsDated /\ [Next]_vars => Wiped' /\ ClaimsDated'
  BY WipedNext, ClaimsDatedNext
<1> QED BY <1>1, <1>2, TypeCorrect, PTL DEF Spec

LEMMA OldClaimIsStale ==
  ASSUME TypeOK, ClaimsDated, LastReserve + StaleAfter < MaxNow, NEW t \in Targets,
         InFlight(t), now = MaxNow
  PROVE  Stale(t)
<1>1. sentAt[t] <= LastReserve /\ sentAt[t] \in Int
  BY Halves DEF ClaimsDated, InFlight, RowsOK, Time, Never
<1>2. {LastReserve, StaleAfter, MaxNow} \subseteq Nat
  BY BoundAssumption
<1> QED BY <1>1, <1>2 DEF Stale

\* The clock stands at its bound.
LEMMA ClockStops == TypeOK /\ now = MaxNow /\ [Next]_vars => (now = MaxNow)'
<1> SUFFICES ASSUME TypeOK, now = MaxNow, [Next]_vars PROVE now' = MaxNow
  OBVIOUS
<1>1. ASSUME NEW w \in Workers, Begins(w) \/ Proceeds(w) \/ Idles(w) \/ SendText(w)
      PROVE  UNCHANGED now
  BY <1>1, BeginsApart, ProceedsApart, SendApart, IdlesApart DEF world
<1>2. ASSUME NEW w \in Workers, Settles(w) PROVE UNCHANGED now
  BY <1>2 DEF Settles, NoSender, Release, Skip, MarkSent, Rescue, RescueAiConfig,
     TickMarkFailed, world
<1>3. CASE Elsewhere
  BY <1>3 DEF Elsewhere, Manage, Start, Pause, Cancel, SetStatus, RetryFailed, RemoveCheck,
     RemoveDelete, Reply, LeadSpeaks, HookRead, HookWrite, HookLost, RecoverInterrupted,
     world
<1>4. ~TimePasses
  BY BoundAssumption DEF TimePasses
<1>5. CASE UNCHANGED vars
  BY <1>5 DEF vars
<1> QED BY <1>1, <1>2, <1>3, <1>4, <1>5, NextSteps, WorkerSteps

\* A target does not stay 'dispatching', whoever dies over it: if the cron of the
\* recovery keeps firing and the clock goes on, any number of crashes included.
THEOREM ClaimsAreResolved ==
  ASSUME LastReserve + StaleAfter < MaxNow
  PROVE  FairSpec /\ []Recoverable /\ ClockRuns => ClaimsResolve
<1>1. ASSUME NEW t \in Targets
      PROVE  FairSpec /\ []Recoverable /\ ClockRuns => (InFlight(t) ~> ~InFlight(t))
  <2>1. TypeOK /\ ClaimsDated /\ now = MaxNow /\ InFlight(t) => Stale(t)
    BY OldClaimIsStale
  <2>2. Recoverable /\ Stale(t) => ENABLED <<RecoverInterrupted>>_vars
    BY DEF Recoverable
  <2>3. TypeOK /\ Stale(t) /\ <<RecoverInterrupted>>_vars => ~InFlight(t)'
    BY Halves DEF RecoverInterrupted, InFlight, RowsOK
  <2> QED BY <2>1, <2>2, <2>3, ClockStops, TypeCorrect, ClaimsAreDated, PTL
          DEF FairSpec, Spec, Fairness, ClockRuns
<1> QED BY <1>1 DEF ClaimsResolve
================================================================================
