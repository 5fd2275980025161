-------------------------- MODULE MCConversations --------------------------
(* Small instances of Conversations: two handlers that decide at once with  *)
(* one consolidator, and two consolidators that overlap with one handler.   *)
EXTENDS Conversations

CONSTANTS whatsapp, h1, h2, w1, w2

VARIABLE crew       \* the processes of the instance and its bounds

OnlyFirstDoc == {1}

Crews == {
    [handlers |-> {h1, h2}, consolidators |-> {w1}, convs |-> 3, msgs |-> 1, faults |-> 0],
    [handlers |-> {h1}, consolidators |-> {w1, w2}, convs |-> 1, msgs |-> 2, faults |-> 1],
    [handlers |-> {h1}, consolidators |-> {w1}, convs |-> 2, msgs |-> 2, faults |-> 1]}

MCInit == Init /\ crew \in Crews

WithinBounds ==
    /\ \A c \in Convs : c > crew.convs => status'[c] = None
    /\ \A m \in Msgs : m > crew.msgs => inConv'[m] = None
    /\ faults' <= crew.faults

MCNext ==
    /\ \/ \E h \in crew.handlers :
            \/ \E p \in Platforms \cup {Web} : Arrive(h, p)
            \/ OpenWeb(h)
            \/ \E c \in Convs : Continue(h, c)
            \/ HandlerStep(h) \/ HandlerFails(h)
       \/ \E w \in crew.consolidators : ConsolidatorStep(w) \/ ConsolidatorFails(w)
    /\ WithinBounds
    /\ UNCHANGED crew

mcVars == <<vars, crew>>

\* The loop of every consolidator of the instance runs for ever.
MCSpec ==
    /\ MCInit /\ [][MCNext]_mcVars
    /\ \A w \in Consolidators :
        WF_mcVars(w \in crew.consolidators /\ ConsolidatorStep(w) /\ UNCHANGED crew)
=============================================================================
