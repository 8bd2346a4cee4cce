---------------------------- MODULE DeliveryContract ----------------------------
(***************************************************************************)
(* What the sending of messages owes the people of a chat, whatever its     *)
(* queue, crons, webhooks and restarts do.  The gateway takes posts; of the *)
(* posts of a message the row remembers one at most.  While the row         *)
(* remembers a post no attempt begins; each attempt makes one post at most, *)
(* and holds it until it ends.  A message is therefore posted again only    *)
(* when every earlier post of it is forgotten, or was made or is being made *)
(* by an attempt that began beside it.                                      *)
(***************************************************************************)
CONSTANTS Rows, Posts, Runs, Nobody, None

VARIABLES
    at,      \* [Runs -> Rows \cup {Nobody}]   the message an attempt is posting
    holds,   \* [Runs -> Posts \cup {None}]    the post it has made
    sender,  \* [Posts -> Rows \cup {Nobody}]  the message a post was made for
    known    \* posts their row remembers

contract == <<at, holds, sender, known>>

PostsFor(r) == {p \in Posts : sender[p] = r}

Init ==
    /\ at = [a \in Runs |-> Nobody]
    /\ holds = [a \in Runs |-> None]
    /\ sender = [p \in Posts |-> Nobody]
    /\ known = {}

Try(a, r) ==
    /\ at[a] = Nobody
    /\ known \cap PostsFor(r) = {}
    /\ at' = [at EXCEPT ![a] = r]
    /\ UNCHANGED <<holds, sender, known>>

\* The gateway takes the message; the attempt learns of it, or ends without.
Accept(a, p) ==
    /\ at[a] # Nobody /\ holds[a] = None
    /\ sender[p] = Nobody
    /\ sender' = [sender EXCEPT ![p] = at[a]]
    /\ \/ holds' = [holds EXCEPT ![a] = p] /\ UNCHANGED at
       \/ at' = [at EXCEPT ![a] = Nobody] /\ UNCHANGED holds
    /\ UNCHANGED known

\* What a row remembers is one post of its own, or none.
Memory(r, p) == known' = (known \ PostsFor(r)) \cup ({p} \cap PostsFor(r))

\* An attempt reports what it holds, by name or not.
Report(a) ==
    /\ holds[a] # None
    /\ \E p \in {holds[a], None} : Memory(at[a], p)
    /\ at' = [at EXCEPT ![a] = Nobody]
    /\ holds' = [holds EXCEPT ![a] = None]
    /\ UNCHANGED sender

\* The echo of a post, or the reconciler that gives one up.
Revise(r) ==
    /\ \E p \in Posts \cup {None} : Memory(r, p)
    /\ UNCHANGED <<at, holds, sender>>

\* Attempts that fail, or die together: what the rows remember stays.
End(runs) ==
    /\ at' = [a \in Runs |-> IF a \in runs THEN Nobody ELSE at[a]]
    /\ holds' = [a \in Runs |-> IF a \in runs THEN None ELSE holds[a]]
    /\ UNCHANGED <<sender, known>>

Next ==
    \/ \E a \in Runs :
        \/ \E r \in Rows : Try(a, r)
        \/ \E p \in Posts : Accept(a, p)
        \/ Report(a)
    \/ \E r \in Rows : Revise(r)
    \/ \E runs \in SUBSET Runs : End(runs)

Spec == Init /\ [][Next]_contract
================================================================================
