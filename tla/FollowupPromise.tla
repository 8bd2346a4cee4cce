---------------------------- MODULE FollowupPromise ----------------------------
(***************************************************************************)
(* What the follow-up module owes a contact, whatever its crons, replicas   *)
(* and managers do: a message is paid for with an allowance.  Putting the   *)
(* contact in a campaign grants one; the manager's "retry failures" grants  *)
(* one more and is counted; nothing else grants any.  Skipping, failing,    *)
(* cancelling and crashing may let allowances lapse.                        *)
(***************************************************************************)
EXTENDS Naturals

CONSTANT Targets

VARIABLES allowance, delivered, requeued

promise == <<allowance, delivered, requeued>>

Init ==
    /\ allowance = [t \in Targets |-> 1]
    /\ delivered = [t \in Targets |-> 0]
    /\ requeued = [t \in Targets |-> 0]

Deliver(t) ==
    /\ allowance[t] > 0
    /\ allowance' = [allowance EXCEPT ![t] = @ - 1]
    /\ delivered' = [delivered EXCEPT ![t] = @ + 1]
    /\ UNCHANGED requeued

\* Any number of contacts lose allowances at once: a campaign is deleted.
Lapse ==
    /\ allowance' \in [Targets -> Nat]
    /\ \A t \in Targets : allowance'[t] <= allowance[t]
    /\ UNCHANGED <<delivered, requeued>>

Requeue(ts) ==
    /\ allowance' = [t \in Targets |-> IF t \in ts THEN allowance[t] + 1 ELSE allowance[t]]
    /\ requeued' = [t \in Targets |-> IF t \in ts THEN requeued[t] + 1 ELSE requeued[t]]
    /\ UNCHANGED delivered

Next == (\E t \in Targets : Deliver(t)) \/ Lapse \/ (\E ts \in SUBSET Targets : Requeue(ts))

Spec == Init /\ [][Next]_promise
================================================================================
