------------------------------ MODULE MCBroadcast ------------------------------
(* Instances of Broadcast for TLC: one company; see the README for the sizes. *)
EXTENDS Broadcast

CONSTANTS co, c1, c2, t1, t2, lead1, lead2, w1, w2, m1

MCTenantOf == [c \in Campaigns |-> co]
MCCampaignOf == [t \in Targets |-> IF t = t2 /\ c2 \in Campaigns THEN c2 ELSE c1]
MCLeadOf == [t \in Targets |-> IF t = t2 /\ lead2 \in Leads THEN lead2 ELSE lead1]
MCDailyLimit == [c \in Campaigns |-> 1]
MCAmpleLimit == [c \in Campaigns |-> 2]
MCThrottle == [c \in Campaigns |-> IF c = c1 THEN 1 ELSE 2]
MCTenantHours == [x \in Tenants |-> 0..DayLength-1]
MCCampaignHours == [c \in Campaigns |-> IF c = c1 THEN 0..DayLength-1 ELSE {0, 1}]
================================================================================
