----------------------------- MODULE MCServices -----------------------------
(***************************************************************************)
(* The media of a conversation, the renewal of webhooks, the chat          *)
(* webhooks, what a turn sends, how a message is cut, the batches sent to  *)
(* Microsoft Graph and the calls of tools share no state and no action:    *)
(* what holds of each holds of all, and one of them at a time is checked,  *)
(* chosen by part.  So are, of the chat webhooks, the calls whose          *)
(* accounts, users and chats are disjoint.                                 *)
(***************************************************************************)
EXTENDS ConversationMedia, WebhookRenewal, ChatIngress, Egress, MessageChunks,
        GraphBatch, ToolCalls, TLC

CONSTANTS
    Parts,                      \* the parts to check, of those in ServicesNext
    e1, e2, f1, f2,             \* events, and the files of the first one
    google, airtable,           \* accounts
    drive, base1, base2,        \* watches
    w1, w2, t1, t2,             \* calls of WhatsApp and of Telegram
    i1, s1, s2, d1, p1, p2, h1, \* calls of iMessage, Slack, Discord, iOS, the web
    ann, bob, cyd, eve, zed,    \* senders
    u1, u2,                     \* users
    g1, g2, g3, direct,         \* chats
    m1, m2, m3, k1, k2          \* calls for an email each, access tokens

FilesTable == e1 :> <<f1, f2>> @@ e2 :> <<>>

AccountTable == drive :> google @@ base1 :> airtable @@ base2 :> airtable

\* WhatsApp brings two batches, of two groups of a member, a new account and a
\* stranger; the new account's user has another new account on Telegram.
MessageTable ==
    w1 :> <<1, 2, 3>> @@ w2 :> <<4, 5>> @@ t1 :> <<6>> @@ t2 :> <<7>>
    @@ i1 :> <<8>> @@ s1 :> <<9>> @@ s2 :> <<10>> @@ d1 :> <<11>>
    @@ p1 :> <<12>> @@ p2 :> <<13>> @@ h1 :> <<14>>
ServiceTable ==
    w1 :> "whatsapp" @@ w2 :> "whatsapp" @@ t1 :> "telegram" @@ t2 :> "telegram"
    @@ i1 :> "imessage" @@ s1 :> "slack" @@ s2 :> "slack" @@ d1 :> "discord"
    @@ p1 :> "ios" @@ p2 :> "ios" @@ h1 :> "http"
KindTable == <<"text", "file", "handshake", "text", "text", "handshake", "text",
              "handshake", "text", "other", "text", "text", "text", "file">>
SenderTable == <<ann, ann, bob, ann, eve, cyd, eve, zed, eve, ann, ann, ann, eve, ann>>
ChatTable == <<g1, direct, direct, g2, g1, direct, g3>> \o [i \in 1 .. 7 |-> direct]
UserTable == ann :> u1 @@ bob :> u2 @@ cyd :> u2 @@ zed :> u1 @@ eve :> u1

\* A reply of each kind on a platform, with a file where that is lost.
Reply(p, to, f, where) ==
    [platform |-> p, by |-> "tool", target |-> to, file |-> f, place |-> where]
ReplySet ==
    {Reply("telegram", "nowhere", TRUE, "none"),
     Reply("telegram", "group", FALSE, "request"),
     Reply("whatsapp", "nowhere", TRUE, "share"),
     Reply("slack", "nowhere", TRUE, "share"),
     Reply("discord", "nowhere", TRUE, "none"),
     Reply("mcp", "nowhere", FALSE, "none")}

TokenTable == m1 :> k1 @@ m2 :> k1 @@ m3 :> k2

\* Every tool, and the tools that create the label they have not found.
LabelTools == {"add_label_to_google_email", "create_google_email_rule"}
TurnSet ==
    {<<t>> : t \in DOMAIN ToolPlans}
    \union {<<"add_label_to_google_email", t>> : t \in LabelTools}

\* TLC evaluates the definition a constant is given at each use of the constant,
\* and a definition that one names only once.
MCFilesOf == FilesTable
MCAccountOf == AccountTable
MCMessagesOf == MessageTable
MCServiceOf == ServiceTable
MCKindOf == KindTable
MCSenderOf == SenderTable
MCChatOf == ChatTable
MCUserOf == UserTable
MCReplies == ReplySet
MCTokenOf == TokenTable
MCTurns == TurnSet

VARIABLE part

ChatHooks == {w1, w2, t1, t2}

ServicesInit ==
    /\ part \in Parts
    /\ Init /\ RenewalInit /\ IngressInit /\ EgressInit /\ ChunksInit /\ BatchInit
    /\ ToolsInit

talkVars == <<ingressVars, egressVars, chunkVars>>
callVars == <<batchVars, toolVars>>

ServicesNext ==
    /\ UNCHANGED part
    /\ \/ /\ part = "media" /\ Next
          /\ UNCHANGED <<renewalVars, talkVars, callVars>>
       \/ /\ part = "renewal" /\ RenewalNext
          /\ UNCHANGED <<vars, talkVars, callVars>>
       \/ /\ part = "chats" /\ \E h \in ChatHooks : HookNext(h)
          /\ UNCHANGED <<vars, renewalVars, egressVars, chunkVars, callVars>>
       \/ /\ part = "apps" /\ \E h \in Hooks \ ChatHooks : HookNext(h)
          /\ UNCHANGED <<vars, renewalVars, egressVars, chunkVars, callVars>>
       \/ /\ part = "egress" /\ EgressNext
          /\ UNCHANGED <<vars, renewalVars, ingressVars, chunkVars, callVars>>
       \/ /\ part = "chunks" /\ ChunksNext
          /\ UNCHANGED <<vars, renewalVars, ingressVars, egressVars, callVars>>
       \/ /\ part = "graph" /\ BatchNext
          /\ UNCHANGED <<vars, renewalVars, talkVars, toolVars>>
       \/ /\ part = "tools" /\ ToolsNext
          /\ UNCHANGED <<vars, renewalVars, talkVars, batchVars>>

ServicesSpec ==
    ServicesInit /\ [][ServicesNext]_<<part, vars, renewalVars, talkVars, callVars>>
=============================================================================
