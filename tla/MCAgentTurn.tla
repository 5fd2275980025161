---------------------------- MODULE MCAgentTurn ----------------------------
(* A small instance of AgentTurn: the model answers with a text, or calls   *)
(* one tool, two browser tasks at once, or a reply together with a tool.    *)
EXTENDS AgentTurn, TLC

Says(text) == [text |-> text, calls |-> <<>>]
Calls(tools) == [text |-> "none", calls |-> tools]

AllAnswers ==
    {Says("plain"), Says("phrase")} \cup
    {Calls(c) : c \in {<<"reply">>, <<"attach">>, <<"media">>, <<"work">>,
                       <<"browse", "browse">>}}

\* A command in a chat, and a question on the web.
CommandOrQuestion ==
    {[source |-> "chat", expect |-> TRUE], [source |-> "websocket", expect |-> FALSE]}
=============================================================================
