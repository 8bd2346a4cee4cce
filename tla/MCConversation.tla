---------------------------- MODULE MCConversation ----------------------------
(* The messages of a conversation and the card of its lead, checked in one run: *)
(* a behaviour is one of the parts, so the states are the sum of the parts and  *)
(* not their product.                                                         *)
EXTENDS MCMessageDelivery, LeadInsights

VARIABLE part

\* What is sent; the card with messages, with suggestions, with the field alone.
Parts == {"sending", "news", "choice", "form"}

ConversationInit == part \in Parts /\ Init /\ InsightInit

SendingOnly == UNCHANGED <<part, insightVars>>
CardOnly == UNCHANGED <<part, vars>>

Sending == part = "sending" /\ Next /\ SendingOnly

Asked ==
    \E k \in Texts :
        Receive(k) \/ Insert(k) \/ ReadMark(k) \/ Judge(k) \/ Enfileirar(k) \/ TriggerThrows(k)
Generated == \E d \in Ids : Generate(d)
Answered == \E c \in Clicks : Consider(c) \/ Accept(c) \/ Refuse(c)

\* Nothing suggested; nothing for the form; no failure but of the second look.
Silent == \A d \in Ids : run'[d].stage = None
Formless == \A d \in Ids : ~run'[d].interest
Smooth == failures' > failures => \E d \in Ids : On(d, "look")

News == /\ part = "news"
        /\ Asked \/ Request(TheLead) \/ Generated
        /\ Silent /\ Formless /\ CardOnly
Choice == /\ part = "choice"
          /\ Request(Refresh) \/ Generated \/ Answered \/ WeekPasses
          /\ Formless /\ Smooth /\ CardOnly
Form == /\ part = "form"
        /\ Request(Refresh) \/ Generated \/ ProcessDies \/ Edit
        /\ Silent /\ CardOnly

ConversationNext == Sending \/ News \/ Choice \/ Form
ConversationSpec == ConversationInit /\ [][ConversationNext]_<<part, vars, insightVars>>
================================================================================
