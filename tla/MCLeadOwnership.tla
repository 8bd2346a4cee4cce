---------------------------- MODULE MCLeadOwnership ----------------------------
(* Instances of LeadOwnership for TLC. *)
EXTENDS LeadOwnership

CONSTANTS u1, u2, l1, j1, j2

MCListing == [S \in SUBSET {u1, u2} |->
    CASE S = {u1, u2} -> <<u1, u2>>
      [] S = {u1} -> <<u1>>
      [] S = {u2} -> <<u2>>
      [] OTHER -> <<>>]

\* Two messages of one contact: through one number, through two, and one sent from
\* the number's own phone between the customer's.
Customer(i) == [lead |-> l1, number |-> i, fromMe |-> FALSE]
Seller(i) == [lead |-> l1, number |-> i, fromMe |-> TRUE]
Pair(a, b) == [j \in Jobs |-> IF j = j1 THEN a ELSE b]
Shared == [pool |-> TRUE, roundRobin |-> TRUE, kanban |-> FALSE]
Individual == [pool |-> FALSE, roundRobin |-> FALSE, kanban |-> TRUE]

\* Each is <<number 1's owner, number 2's owner>>; u1 is the manager.
Scenario(flags, owners, messages) ==
    [flags |-> flags, owner |-> [i \in Numbers |-> owners[i]], messages |-> messages]
Distribution == {Scenario(Shared, <<u2, u1>>, Pair(Customer(1), Customer(1)))}
MCScenarios ==
    {Scenario(Shared, <<u1, Nobody>>, Pair(Customer(1), Customer(1))),
     Scenario(Individual, <<u2, u1>>, Pair(Customer(1), Customer(2))),
     Scenario(Shared, <<u2, u1>>, Pair(Customer(1), Seller(2)))}
================================================================================
