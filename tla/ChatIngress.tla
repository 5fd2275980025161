----------------------------- MODULE ChatIngress -----------------------------
(***************************************************************************)
(* The webhooks of the chat platforms and the web's endpoint               *)
(* (src/ingress/webhook_handlers/): a call brings one or more messages,    *)
(* the handler finds the integration of each sender, connects the ones     *)
(* that send a handshake, keeps the list of the chats an integration is    *)
(* used in, receives files, and publishes an event for each message.       *)
(*                                                                         *)
(* A call that does not end with a success is made again by the platforms  *)
(* in Retrying.  Handlers run concurrently: between two awaits of one the  *)
(* others run.  The handlers of Slack, Discord, iOS and the web share      *)
(* nothing with the others and take one step.  What publish does with an   *)
(* event is in SuspendedEvents; the triggers Slack's handler evaluates     *)
(* first work as in ItemIngestion.                                         *)
(*                                                                         *)
(* Not modelled: signatures, Telegram's buttons, who is mentioned in a     *)
(* group (it decides if the agent answers), the telephone numbers of       *)
(* businesses and of iOS, locations, rate limits and milestones.           *)
(***************************************************************************)
EXTENDS Naturals, Sequences, FiniteSets, Functions

CONSTANTS
    Hooks,          \* the calls the platforms have to make
    MessagesOf,     \* the messages each call brings, in order
    ServiceOf,      \* the platform that makes it
    KindOf,         \* text, handshake, file, or other (nobody publishes it)
    SenderOf,       \* the account a message comes from
    ChatOf,         \* the chat it was written in
    UserOf,         \* the user an account belongs to
    Groups,         \* chats of several people, on Telegram and WhatsApp
    Members,        \* accounts connected from the start
    MaxMisses,      \* bound: calls that fail and answers that are lost
    NoSender

Messages == UNION {Range(MessagesOf[h]) : h \in Hooks}
Senders == Range(SenderOf)
Chats == Range(ChatOf)
Owners == Range(UserOf)

OneStep == {"slack", "discord", "ios", "http"}
Retrying == {"telegram", "whatsapp", "imessage"}

ASSUME HooksAssumption ==
    /\ MessagesOf \in [Hooks -> Seq(Messages)]
    /\ \A h \in Hooks : MessagesOf[h] # <<>> /\ IsInjective(MessagesOf[h])
    /\ \A g, h \in Hooks : g # h => Range(MessagesOf[g]) \cap Range(MessagesOf[h]) = {}
    /\ ServiceOf \in [Hooks -> Retrying \cup OneStep]
    /\ \A h \in Hooks : ServiceOf[h] # "whatsapp" => Len(MessagesOf[h]) = 1
    /\ \A h \in Hooks : \A m \in Range(MessagesOf[h]) :
          ChatOf[m] \in Groups => ServiceOf[h] \in {"telegram", "whatsapp"}
ASSUME MessagesAssumption ==
    /\ KindOf \in [Messages -> {"text", "handshake", "file", "other"}]
    /\ SenderOf \in [Messages -> Senders]
    /\ ChatOf \in [Messages -> Chats]
    /\ UserOf \in [Senders -> Owners]
    /\ Members \subseteq Senders
    /\ NoSender \notin Senders
    /\ MaxMisses \in Nat

VARIABLES
    answer,     \* of each call: due, running, ok or refused
    place,      \* the message of the batch a handler is at
    step,       \* where it is with that message
    owner,      \* the account whose integration it found
    copy,       \* the chats of that integration, as they were read
    greet,      \* the user needed a first interaction when it was read
    accounts,   \* number of active integrations of each account
    chatsOf,    \* active_output_channels of each account's integration
    newcomers,  \* users with needs_first_interaction
    engaged,    \* how often each user was sent a first interaction
    published,  \* messages whose event was given to publish
    unreceived, \* messages whose file could not be received
    givenUp,    \* messages a handler failed with and answered with a success
    troubled,   \* accounts and users two handlers changed at once, or whose
                \* change could not be written
    misses

hookVars == <<answer, place, step, owner, copy, greet>>
accountVars == <<accounts, chatsOf, newcomers, engaged, troubled>>
messageVars == <<published, unreceived, givenUp>>
ingressVars == <<hookVars, accountVars, messageVars, misses>>

-----------------------------------------------------------------------------

Current(h) == MessagesOf[h][place[h]]
At(h, s) == answer[h] = "running" /\ step[h] = s
Sender(h) == SenderOf[Current(h)]
Recipient(h) == UserOf[Sender(h)]
InGroup(h) == ChatOf[Current(h)] \in Groups
Connected == {a \in Senders : accounts[a] > 0}

Miss == misses < MaxMisses /\ misses' = misses + 1
NoMiss == UNCHANGED misses

GoTo(h, s) == step' = [step EXCEPT ![h] = s] /\ UNCHANGED <<answer, place>>

\* The handler returns: what is left of the batch is not looked at.
Return(h) ==
    /\ answer' = [answer EXCEPT ![h] = "ok"]
    /\ step' = [step EXCEPT ![h] = "idle"]
    /\ UNCHANGED place

\* Mutated NextMessage: the answer is given after the first message.
NextMessageNot(h) == Return(h)

NextMessage(h) ==
    IF place[h] < Len(MessagesOf[h])
      THEN /\ place' = [place EXCEPT ![h] = @ + 1]
           /\ step' = [step EXCEPT ![h] = "lookup"]
           /\ UNCHANGED answer
      ELSE Return(h)

\* The platform makes the call, for the first time or again.
CallHook(h) ==
    /\ answer[h] = "due"
    /\ answer' = [answer EXCEPT ![h] = "running"]
    /\ place' = [place EXCEPT ![h] = 1]
    /\ step' = [step EXCEPT ![h] = "lookup"]
    /\ UNCHANGED <<owner, copy, greet, accountVars, messageVars, misses>>

-----------------------------------------------------------------------------
(* Whose message it is.                                                    *)

\* The integration of account a is read, with the chats it is used in.
Read(h, a) ==
    /\ owner' = [owner EXCEPT ![h] = a]
    /\ copy' = [copy EXCEPT ![h] = chatsOf[a]]

Untold(h) == owner' = [owner EXCEPT ![h] = NoSender] /\ UNCHANGED copy

\* Accounts whose integration is used in the chat, on the same platform:
\* accounts of two platforms never share a chat.
Trackers(h) == {a \in Connected : ChatOf[Current(h)] \in chatsOf[a]}

\* A group an unknown account writes in is followed for its tracker, or the
\* handler returns.
Follow(h) ==
    /\ InGroup(h) /\ Sender(h) \notin Connected
    /\ \/ \E a \in Trackers(h) : Read(h, a) /\ GoTo(h, "publish")
       \/ Trackers(h) = {} /\ Untold(h) /\ Return(h)
    /\ UNCHANGED <<greet, accountVars>>

\* Handlers between the reading of a newcomer and the end of its greeting.
Greeting(u) ==
    {h \in Hooks : step[h] \in {"connect", "welcome", "engage", "settle"}
                    /\ Recipient(h) = u}

\* An unknown account: a handshake is checked and its user read, anything
\* else is answered with how to register, and the handler returns.
Handshake(h) ==
    /\ ~InGroup(h) /\ Sender(h) \notin Connected
    /\ Untold(h)
    /\ IF KindOf[Current(h)] = "handshake"
         THEN /\ greet' = [greet EXCEPT ![h] = Recipient(h) \in newcomers]
              /\ troubled' = IF Greeting(Recipient(h)) = {} THEN troubled
                              ELSE troubled \cup {Recipient(h), Sender(h)}
              /\ GoTo(h, "connect")
         ELSE Return(h) /\ UNCHANGED <<greet, troubled>>
    /\ UNCHANGED <<accounts, chatsOf, newcomers, engaged>>

Known(h) ==
    /\ Sender(h) \in Connected
    /\ Read(h, Sender(h))
    /\ UNCHANGED <<greet, accountVars>>

IsNewChat(h) == ChatOf[Current(h)] \notin chatsOf[Sender(h)]

\* Every chat is kept.
Telegram(h) ==
    /\ At(h, "lookup") /\ ServiceOf[h] = "telegram"
    /\ \/ Follow(h)
       \/ Handshake(h)
       \/ Known(h) /\ GoTo(h, IF IsNewChat(h) THEN "channel" ELSE "publish")
    /\ NoMiss /\ UNCHANGED messageVars

\* Only groups are kept.
WhatsApp(h) ==
    /\ At(h, "lookup") /\ ServiceOf[h] = "whatsapp"
    /\ \/ Follow(h)
       \/ Handshake(h)
       \/ /\ Known(h)
          /\ GoTo(h, IF InGroup(h) /\ IsNewChat(h) THEN "channel" ELSE "publish")
    /\ NoMiss /\ UNCHANGED messageVars

\* There are no groups.
IMessage(h) ==
    /\ At(h, "lookup") /\ ServiceOf[h] = "imessage"
    /\ \/ Handshake(h)
       \/ Known(h) /\ GoTo(h, "publish")
    /\ NoMiss /\ UNCHANGED messageVars

-----------------------------------------------------------------------------
(* An account is connected and its user greeted.                           *)

\* The integration is inserted, or that fails and the account is told it is
\* not authorized.
Connect(h) ==
    /\ At(h, "connect")
    /\ \/ /\ accounts' = [accounts EXCEPT ![Sender(h)] = @ + 1]
          /\ GoTo(h, "welcome") /\ NoMiss
       \/ Miss /\ Return(h) /\ UNCHANGED accounts
    /\ UNCHANGED <<owner, copy, greet, chatsOf, newcomers, engaged, troubled, messageVars>>

\* If the welcome cannot be sent the handler returns.
Welcome(h) ==
    /\ At(h, "welcome")
    /\ \/ GoTo(h, "engage") /\ NoMiss
       \/ Miss /\ Return(h)
    /\ UNCHANGED <<owner, copy, greet, accountVars, messageVars>>

\* Mutated Engage: the user is greeted whether it was before or not.
EngageAll(h) ==
    /\ At(h, "engage")
    /\ engaged' = [engaged EXCEPT ![Recipient(h)] = @ + 1]
    /\ GoTo(h, "settle") /\ NoMiss
    /\ UNCHANGED <<owner, copy, greet, accounts, chatsOf, newcomers, troubled, messageVars>>

\* A newcomer is researched and greeted: an event is published for it, unless
\* the user's access cannot be read.
Engage(h) ==
    /\ At(h, "engage")
    /\ \/ /\ greet[h]
          /\ engaged' = [engaged EXCEPT ![Recipient(h)] = @ + 1]
          /\ GoTo(h, "settle") /\ NoMiss
       \/ ~greet[h] /\ Return(h) /\ NoMiss /\ UNCHANGED engaged
       \/ greet[h] /\ Miss /\ Return(h) /\ UNCHANGED engaged
    /\ UNCHANGED <<owner, copy, greet, accounts, chatsOf, newcomers, troubled, messageVars>>

\* It is no newcomer any more; an error is only logged.
Settle(h) ==
    /\ At(h, "settle")
    /\ \/ newcomers' = newcomers \ {Recipient(h)} /\ NoMiss /\ UNCHANGED troubled
       \/ Miss /\ troubled' = troubled \cup {Recipient(h)} /\ UNCHANGED newcomers
    /\ Return(h)
    /\ UNCHANGED <<owner, copy, greet, accounts, chatsOf, engaged, messageVars>>

-----------------------------------------------------------------------------
(* The chat is kept and the message published.                             *)

\* Mutated Channel: the chat replaces the ones that were read.
ChannelAlone(h) ==
    /\ At(h, "channel")
    /\ chatsOf' = [chatsOf EXCEPT ![owner[h]] = {ChatOf[Current(h)]}]
    /\ GoTo(h, "publish")
    /\ NoMiss /\ UNCHANGED <<owner, copy, greet, accounts, newcomers, engaged, troubled, messageVars>>

\* The whole record is written back, with the chats of the copy.
Channel(h) ==
    /\ At(h, "channel")
    /\ chatsOf' = [chatsOf EXCEPT ![owner[h]] = copy[h] \cup {ChatOf[Current(h)]}]
    /\ troubled' = IF \E g \in Hooks \ {h} : At(g, "channel") /\ owner[g] = owner[h]
                      THEN troubled \cup {owner[h]} ELSE troubled
    /\ GoTo(h, "publish")
    /\ NoMiss /\ UNCHANGED <<owner, copy, greet, accounts, newcomers, engaged, messageVars>>

\* A file is downloaded, stored and published; if it cannot be stored that is
\* logged, and the handler goes on.
PublishFile(h) ==
    LET m == Current(h) IN
    /\ At(h, "publish") /\ KindOf[m] = "file"
    /\ \/ published' = published \cup {m} /\ NoMiss /\ UNCHANGED unreceived
       \/ Miss /\ unreceived' = unreceived \cup {m} /\ UNCHANGED published
    /\ NextMessage(h)
    /\ UNCHANGED <<owner, copy, greet, accountVars, givenUp>>

\* A text is published, whatever else the message is is passed over.
Publish(h) ==
    LET m == Current(h) IN
    /\ At(h, "publish") /\ KindOf[m] # "file"
    /\ published' = IF KindOf[m] = "other" THEN published ELSE published \cup {m}
    /\ NextMessage(h)
    /\ NoMiss /\ UNCHANGED <<owner, copy, greet, accountVars, unreceived, givenUp>>

\* The messages of the batch a handler has not passed yet.
Rest(h) == {MessagesOf[h][i] : i \in place[h] .. Len(MessagesOf[h])}

\* WhatsApp's handler reads the user of the integration; an error of that is
\* swallowed, and a user not found ends the batch with a success.
LoseUser(h) ==
    /\ At(h, "publish") /\ ServiceOf[h] = "whatsapp"
    /\ Miss
    /\ givenUp' = givenUp \cup Rest(h)
    /\ Return(h)
    /\ UNCHANGED <<owner, copy, greet, accountVars, published, unreceived>>

-----------------------------------------------------------------------------
(* The handlers that take one step.                                        *)

\* The call is not answered with a success, and nobody makes it again.
Refuse(h) ==
    /\ answer' = [answer EXCEPT ![h] = "refused"]
    /\ step' = [step EXCEPT ![h] = "idle"]
    /\ UNCHANGED <<place, messageVars>>

Accept(h) ==
    /\ published' = published \cup {Current(h)}
    /\ Return(h)
    /\ UNCHANGED <<unreceived, givenUp>>

\* An error is logged and the call answered with a success.
GiveUp(h) ==
    /\ Miss
    /\ givenUp' = givenUp \cup {Current(h)}
    /\ Return(h)
    /\ UNCHANGED <<published, unreceived>>

Ignore(h) == Return(h) /\ UNCHANGED messageVars

SharesNothing == UNCHANGED <<owner, copy, greet, accountVars>>

\* A message of nobody's or of a bot is passed over.
PublishOrIgnore(h) ==
    \/ Sender(h) \in Members /\ KindOf[Current(h)] # "other" /\ Accept(h) /\ NoMiss
    \/ (Sender(h) \notin Members \/ KindOf[Current(h)] = "other") /\ Ignore(h) /\ NoMiss

Slack(h) ==
    /\ At(h, "lookup") /\ ServiceOf[h] = "slack"
    /\ PublishOrIgnore(h) \/ GiveUp(h)
    /\ SharesNothing

\* Only commands are published.
Discord(h) ==
    /\ At(h, "lookup") /\ ServiceOf[h] = "discord"
    /\ PublishOrIgnore(h) \/ GiveUp(h)
    /\ SharesNothing

\* An unknown token is refused, and an error reported.
IOS(h) ==
    /\ At(h, "lookup") /\ ServiceOf[h] = "ios"
    /\ \/ Sender(h) \in Members /\ PublishOrIgnore(h)
       \/ Sender(h) \notin Members /\ Refuse(h) /\ NoMiss
       \/ Miss /\ Refuse(h)
    /\ SharesNothing

\* A file that cannot be received is left out of the event; a request that
\* is too large or too frequent is refused.
Http(h) ==
    /\ At(h, "lookup") /\ ServiceOf[h] = "http"
    /\ \/ Accept(h) /\ NoMiss
       \/ /\ KindOf[Current(h)] = "file" /\ Miss
          /\ published' = published \cup {Current(h)}
          /\ unreceived' = unreceived \cup {Current(h)}
          /\ Return(h) /\ UNCHANGED givenUp
       \/ Miss /\ Refuse(h)
    /\ SharesNothing

-----------------------------------------------------------------------------
(* Calls that fail.                                                        *)

\* An error no handler catches, or the end of the process: the platform makes
\* the call again.  A user greeted and not settled stays a newcomer.
FailCall(h) ==
    /\ ServiceOf[h] \in Retrying
    /\ answer[h] = "running" /\ Miss
    /\ answer' = [answer EXCEPT ![h] = "due"]
    /\ step' = [step EXCEPT ![h] = "idle"]
    /\ troubled' = IF step[h] = "settle" THEN troubled \cup {Recipient(h)} ELSE troubled
    /\ UNCHANGED <<place, owner, copy, greet, accounts, chatsOf, newcomers, engaged, messageVars>>

\* The answer is lost: the platform makes the call again.
LoseAnswer(h) ==
    /\ ServiceOf[h] \in Retrying
    /\ answer[h] = "ok" /\ Miss
    /\ answer' = [answer EXCEPT ![h] = "due"]
    /\ UNCHANGED <<place, step, owner, copy, greet, accountVars, messageVars>>

-----------------------------------------------------------------------------

IngressInit ==
    /\ answer = [h \in Hooks |-> "due"]
    /\ place = [h \in Hooks |-> 1]
    /\ step = [h \in Hooks |-> "idle"]
    /\ owner = [h \in Hooks |-> NoSender]
    /\ copy = [h \in Hooks |-> {}]
    /\ greet = [h \in Hooks |-> FALSE]
    /\ accounts = [a \in Senders |-> IF a \in Members THEN 1 ELSE 0]
    /\ chatsOf = [a \in Senders |-> {}]
    /\ newcomers = {UserOf[a] : a \in Senders \ Members}
    /\ engaged = [u \in Owners |-> 0]
    /\ published = {} /\ unreceived = {} /\ givenUp = {} /\ troubled = {}
    /\ misses = 0

Handle(h) ==
    \/ CallHook(h)
    \/ Telegram(h) \/ WhatsApp(h) \/ IMessage(h)
    \/ Connect(h) \/ Welcome(h) \/ Engage(h) \/ Settle(h)
    \/ Channel(h) \/ PublishFile(h) \/ Publish(h) \/ LoseUser(h)
    \/ Slack(h) \/ Discord(h) \/ IOS(h) \/ Http(h)

HookNext(h) == Handle(h) \/ FailCall(h) \/ LoseAnswer(h)

IngressNext == \E h \in Hooks : HookNext(h)

IngressSpec == IngressInit /\ [][IngressNext]_ingressVars

-----------------------------------------------------------------------------
(* Properties.                                                             *)

IngressTypeOK ==
    /\ answer \in [Hooks -> {"due", "running", "ok", "refused"}]
    /\ place \in [Hooks -> Nat \ {0}] /\ \A h \in Hooks : place[h] \leq Len(MessagesOf[h])
    /\ step \in [Hooks -> {"idle", "lookup", "connect", "welcome", "engage", "settle",
                             "channel", "publish"}]
    /\ owner \in [Hooks -> Senders \cup {NoSender}]
    /\ copy \in [Hooks -> SUBSET Chats]
    /\ greet \in [Hooks -> BOOLEAN]
    /\ accounts \in [Senders -> Nat]
    /\ chatsOf \in [Senders -> SUBSET Chats]
    /\ newcomers \subseteq Owners
    /\ engaged \in [Owners -> Nat]
    /\ published \subseteq Messages /\ unreceived \subseteq Messages
    /\ givenUp \subseteq Messages
    /\ troubled \subseteq Senders \cup Owners
    /\ misses \in 0 .. MaxMisses

\* A call is answered with a success only when each of its messages was
\* published, or was nothing to publish, or its file could not be received;
\* except that a handler may fail and swallow the error, Slack's and Discord's
\* with their one message, WhatsApp's with the rest of its batch
\* (whatsapp_handler.py:180), and that a message of an account that was not
\* connected ends the batch it is in (whatsapp_handler.py:122 to 151).
AcknowledgedIsPublished ==
    \A h \in {g \in Hooks : answer[g] = "ok"} :
        \A i \in DOMAIN MessagesOf[h] :
            \/ MessagesOf[h][i] \in published \cup unreceived \cup givenUp
            \/ KindOf[MessagesOf[h][i]] = "other"
            \/ \E j \in 1 .. i : SenderOf[MessagesOf[h][j]] \notin Members

\* A group a member's message was published from stays in the list of the
\* chats of its integration, so that the messages of others in it are followed
\* (telegram_handler.py:139, whatsapp_handler.py:117), unless two handlers
\* wrote that list at once: each writes back all of the record it read.
GroupsStayTracked ==
    \A m \in published :
        ChatOf[m] \in Groups /\ SenderOf[m] \in Members \ troubled =>
            ChatOf[m] \in chatsOf[SenderOf[m]]

\* An account is connected once and a user is sent one first interaction
\* (engagement_service.py:5), whatever handshakes arrive and are repeated,
\* unless two of them were handled at once or the flag could not be cleared.
GreetedOnce ==
    /\ \A a \in Senders \ troubled : accounts[a] \leq 1
    /\ \A u \in Owners \ troubled : engaged[u] \leq 1
=============================================================================
