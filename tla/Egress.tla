-------------------------------- MODULE Egress --------------------------------
(***************************************************************************)
(* What a turn of the agent sends to the user (src/egress/service.py, the  *)
(* tools of src/tools/communication.py and the clients of the platforms),  *)
(* and what of it the user is shown.                                       *)
(*                                                                         *)
(* A turn has a source: the platform its event came from, or a schedule.   *)
(* Questions that came together are one turn, which goes to the chat of    *)
(* the first of them.                                                      *)
(* The agent's tools send messages while it runs, on that platform or on   *)
(* another one; what it writes on the web is streamed; the worker sends    *)
(* the answer of a turn that did not reply by a tool.  A message is a      *)
(* series of calls, one for each chunk of its text, each file, and the     *)
(* location; a client passes over a call that fails or gives up the rest.  *)
(* send_response never raises, so every tool reports a success: promised   *)
(* is what the agent takes as sent.                                        *)
(*                                                                         *)
(* Not modelled: typing indicators, formatting, messages without a text,   *)
(* media the agent generates with its last answer, business numbers of     *)
(* WhatsApp (the worker knows no such source), and what the chunks are     *)
(* (MessageChunks).                                                        *)
(***************************************************************************)
EXTENDS Naturals, Sequences, FiniteSets, SequencesExt

CONSTANTS
    Sources,    \* where turns come from
    Origins,    \* the platforms tasks were scheduled on
    Replies,    \* the replies the agent makes by a tool: platform, chat it
                \* names, if there is a file, and a location sent or asked for
    MaxSends,   \* bound: messages the agent sends by tools in a turn
    MaxErrors   \* bound: calls and writes that fail in a turn, and look-ups
                \* that fail or find nothing

\* Platforms whose messages find the user by the record of the integration.
ByRecord == {"telegram", "whatsapp", "imessage"}
Platforms == ByRecord \cup {"slack", "discord", "websocket", "email", "mcp"}
WithGroups == {"telegram", "whatsapp", "slack", "discord"}
Merged == {"telegram", "whatsapp", "imessage"}  \* whose events are grouped
ByPhone == {"whatsapp", "imessage"}
Rooms == {"direct", "group"}
Worker == {"worker", "apology"}     \* messages the worker sends, not a tool
Kinds == {"head", "tail", "file", "location"}   \* what a call brings

ASSUME EgressAssumption ==
    /\ Sources \subseteq Platforms \cup {"scheduled"}
    /\ Origins \subseteq Platforms
    /\ \A m \in Replies :
          /\ m \in [platform : Platforms \ {"websocket"}, by : {"tool"},
                   target : Rooms \cup {"nowhere"}, file : BOOLEAN,
                   place : {"none", "request", "share"}]
          /\ m.target = "nowhere" \/ m.platform = "telegram"
    /\ MaxSends \in Nat /\ MaxErrors \in Nat

VARIABLES
    home,       \* telegram_chat_id of the user's integration
    first,      \* where the user wrote on Telegram when it was unknown
    turn,       \* source and origin of the turn that runs, the chat of its
                \* first question and those of all of them
    stage,      \* idle, running, answered, sending or over
    message,    \* the message being sent
    calls,      \* what is still to be sent of it
    sends,      \* messages of this turn
    replied,    \* one of them was a reply by a tool
    attachment, \* the agent attached a file to its answer
    streams,    \* what the model writes is streamed
    streamed,   \* its answer is taken to have been
    web,        \* the web client's socket: here, or away (or of another token)
    client,     \* the MCP client: none, waiting, answered or gone
    shown,      \* what the user was shown in this turn, where, and if it came
                \* a second time, as plain text
    promised,   \* what the agent takes as sent
    undelivered, \* what is not shown because a call or a look-up failed
    saved,      \* messages in the records of the conversation
    errors      \* calls, writes and look-ups that failed in this turn

flags == <<replied, attachment, streams, streamed>>
turnVars == <<turn, stage, message, calls, sends, flags>>
userVars == <<home, first, web, client>>
sentVars == <<shown, promised, undelivered, saved>>
egressVars == <<turnVars, userVars, sentVars, errors>>

NoTurn == [source |-> "none", origin |-> "none", chat |-> "nowhere", asked |-> {}]
NoMessage == [platform |-> "none", by |-> "none", target |-> "nowhere",
              file |-> FALSE, place |-> "none"]

\* An item is what one call of a message brings.
Item(k) == [n |-> sends, kind |-> k, of |-> message]
Items(ks) == {Item(k) : k \in ks}
ShownItems == {e.item : e \in shown}
Err == errors < MaxErrors /\ errors' = errors + 1

-----------------------------------------------------------------------------
(* Where a message goes.                                                   *)

\* The chat the turn came from when the event names it, else that of the
\* user's integration; a tool's event names one on Telegram only.
TelegramChat(m) ==
    IF m.target # "nowhere" THEN m.target
    ELSE IF turn.source = "telegram" /\ m.by # "note" THEN turn.chat ELSE home

WhatsAppChat(m) ==
    IF turn.source = "whatsapp" /\ m.by \in Worker THEN turn.chat ELSE "direct"

\* The number of the event is taken as a number of iMessage.
IMessageChat(m) ==
    IF turn.source = "whatsapp" /\ m.by \in Worker /\ turn.chat = "group"
      THEN "nowhere" ELSE "direct"

\* Channel, token and the channel of the answer are those of the turn's event;
\* an e-mail is only answered by the worker.
EventChat(m) ==
    IF turn.source = m.platform /\ (m.platform = "email" => m.by \in Worker)
      THEN turn.chat ELSE "nowhere"

ChatFor(m) ==
    CASE m.platform = "telegram" -> TelegramChat(m)
      [] m.platform = "whatsapp" -> WhatsAppChat(m)
      [] m.platform = "imessage" -> IMessageChat(m)
      [] OTHER -> EventChat(m)

\* Missed is the location, or the request for one, that is not sent.
Places(m) == m.place \in {"request", "share"} /\ m.platform \in ByRecord

\* A request for a location is one call, with the text of the message.
Texts(m) ==
    IF m.platform \in {"telegram", "whatsapp"} /\ m.place # "request"
      THEN <<"head", "tail">> ELSE <<"head">>

\* A location, or the request for one, is sent instead of the files.
CallsOf(m) ==
    IF Places(m)
      THEN Texts(m) \o (IF m.place = "share" THEN <<"location">> ELSE <<>>)
      ELSE Texts(m) \o (IF m.file /\ m.platform \notin {"discord", "email"}
                          THEN <<"file">> ELSE <<>>)

\* What the tool said it sent.
Claimed(m) ==
    ToSet(Texts(m)) \cup (IF m.file THEN {"file"} ELSE {})
                    \cup (IF m.place \in {"share", "missed"} THEN {"location"} ELSE {})

-----------------------------------------------------------------------------
(* The turn.                                                               *)

\* Mutated HomeAfter: every message sets it.
HomeAfterAny(source, chat) == IF source = "telegram" THEN chat ELSE home

\* The first message of an account that has no chat yet sets it, wherever it
\* was written.
HomeAfter(source, chat) ==
    IF source = "telegram" /\ home = "nowhere" THEN chat ELSE home

\* Where the event of a turn comes from; for a schedule, where that was made.
OriginsOf(source) == IF source = "scheduled" THEN Origins ELSE {source}

\* Events of one user and source are one session, whatever chat they are from.
\* Chat messages handled together are one turn, with the first one's chat.  Their
\* webhooks ran at the same time, and any of them was the first to set home.
BeginTurn(source, origin, chat, asked) ==
    /\ stage = "idle"
    /\ chat \in asked /\ (asked # {chat} => source \in Merged)
    /\ "group" \in asked => source \in WithGroups
    /\ origin \in OriginsOf(source)
    /\ turn' = [source |-> source, origin |-> origin, chat |-> chat, asked |-> asked]
    /\ stage' = "running"
    /\ \E c \in asked :
          /\ home' = HomeAfter(source, c)
          /\ first' = IF source = "telegram" /\ home = "nowhere" THEN c ELSE first
    /\ client' = IF source = "mcp" THEN "waiting" ELSE "none"
    /\ streams' = (source = "websocket")
    /\ UNCHANGED <<message, calls, sends, replied, attachment, streamed, web,
                   sentVars, errors>>

\* Calls of a message nobody is found for are not made.
Start(m, cs) ==
    /\ sends' = sends + 1
    /\ message' = m
    /\ calls' = IF ChatFor(m) = "nowhere" THEN <<>> ELSE cs
    /\ stage' = "sending"
    /\ UNCHANGED <<turn, attachment, streams, streamed, userVars>>

\* Reply tools exist for every platform but the web.
ReplyByTool ==
    /\ stage = "running" /\ sends < MaxSends
    /\ \E m \in Replies : Start(m, CallsOf(m))
    /\ replied' = TRUE
    /\ UNCHANGED <<sentVars, errors>>

\* A message in the middle of the work: its event has no chat of its own.
SendIntermediate ==
    LET m == [NoMessage EXCEPT !.platform = turn.origin, !.by = "note"] IN
    /\ stage = "running" /\ sends < MaxSends
    /\ Start(m, CallsOf(m))
    /\ UNCHANGED <<replied, sentVars, errors>>

AttachFile ==
    /\ stage = "running" /\ ~attachment
    /\ attachment' = TRUE
    /\ UNCHANGED <<turn, stage, message, calls, sends, replied, streams,
                   streamed, userVars, sentVars, errors>>

\* The stream fails and the graph runs again without one.
BreakStream ==
    /\ stage = "running" /\ streams /\ Err
    /\ streams' = FALSE
    /\ UNCHANGED <<turn, stage, message, calls, sends, replied, attachment,
                   streamed, userVars, sentVars>>

-----------------------------------------------------------------------------
(* The answer of a turn.                                                   *)

Answering(p) ==
    [NoMessage EXCEPT !.platform = p, !.by = "worker", !.file = attachment]

\* The model answered without a tool, on the platform it names.  On the web it
\* was streamed, or is taken to have been.
Answer(p) ==
    LET m == Answering(p) IN
    /\ stage = "running" /\ ~replied
    /\ streamed' \in {FALSE, turn.source = "websocket"}
    /\ streamed' => p = "websocket"
    /\ message' = m /\ sends' = sends + 1
    /\ shown' = IF streamed' /\ streams /\ web = "here"
                  THEN shown \cup {[item |-> [n |-> sends', kind |-> "head", of |-> m],
                                     chat |-> "direct", plain |-> FALSE]}
                  ELSE shown
    /\ stage' = "answered"
    /\ UNCHANGED <<turn, calls, replied, attachment, streams, userVars,
                   promised, undelivered, saved, errors>>

\* Mutated Written: what was streamed is not.
WrittenUnlessStreamed == IF streamed THEN {} ELSE Items({"head"})

\* The answer is written to the records of the conversation, streamed or not.
Written == Items({"head"})

\* Then it is sent by the worker; of a streamed one, only the files are.
SendAnswer ==
    /\ stage = "answered"
    /\ saved' = saved \cup Written
    /\ calls' = IF ChatFor(message) = "nowhere" THEN <<>>
                ELSE IF ~streamed THEN CallsOf(message)
                ELSE IF message.file THEN <<"file">> ELSE <<>>
    /\ stage' = "sending"
    /\ UNCHANGED <<turn, message, sends, flags, userVars, shown, promised,
                   undelivered, errors>>

\* An error of the run, or of that write: the worker sends an apology instead,
\* on the platform the event came from, or, of a schedule, where that was made.
Apologize ==
    LET m == [NoMessage EXCEPT !.platform = turn.origin, !.by = "apology"] IN
    /\ stage \in {"running", "answered"} /\ Err
    /\ Start(m, CallsOf(m))
    /\ UNCHANGED <<replied, sentVars>>

\* The agent replied by a tool, or the user cancelled: nothing is sent, the
\* attached files neither.
EndSilently ==
    /\ stage = "running" /\ (replied \/ turn.source = "websocket")
    /\ stage' = "over"
    /\ UNCHANGED <<turn, message, calls, sends, flags, userVars, sentVars,
                   errors>>

-----------------------------------------------------------------------------
(* The calls of a message.                                                 *)

Calling(c) == stage = "sending" /\ calls # <<>> /\ Head(calls) = c
Shown(c, again) == [item |-> Item(c), chat |-> ChatFor(message), plain |-> again]
KeepsTurn == UNCHANGED <<turn, stage, message, sends, flags, userVars, promised,
                         saved>>

\* The files of an answer are objects, which these clients cannot read.
Unreadable(c) ==
    /\ c = "file" /\ message.by = "worker"
    /\ message.platform \in {"whatsapp", "slack"}

\* Clients that log an error and go on, and errors that end the message.
PassesOver(c) ==
    \/ message.platform \in ByRecord
    \/ message.platform = "slack" /\ c = "file"
GivesUp(c) ==
    \/ message.platform \in {"telegram", "imessage"}
    \/ message.platform = "whatsapp" /\ c \in {"file", "location"}
    \/ message.platform \in {"slack", "email"} /\ c = "head"

InCalls == message.platform \in ByRecord \cup {"slack", "email"}

Succeed(c) ==
    /\ Calling(c) /\ InCalls /\ ~Unreadable(c)
    /\ shown' = shown \cup {Shown(c, FALSE)}
    /\ calls' = Tail(calls)
    /\ UNCHANGED <<undelivered, errors>> /\ KeepsTurn

\* Mutated PassOver: the client ends the message at the first chunk that fails.
PassOverAll(c) ==
    /\ Calling(c) /\ InCalls /\ PassesOver(c) /\ ~Unreadable(c) /\ Err
    /\ undelivered' = undelivered \cup {Item(c)}
    /\ calls' = <<>>
    /\ UNCHANGED shown /\ KeepsTurn

PassOver(c) ==
    /\ Calling(c) /\ InCalls /\ PassesOver(c) /\ ~Unreadable(c) /\ Err
    /\ undelivered' = undelivered \cup {Item(c)}
    /\ calls' = Tail(calls)
    /\ UNCHANGED shown /\ KeepsTurn

Abandon(c) ==
    /\ Calling(c) /\ InCalls /\ GivesUp(c) /\ ~Unreadable(c) /\ Err
    /\ undelivered' = undelivered \cup Items(ToSet(calls))
    /\ calls' = <<>>
    /\ UNCHANGED shown /\ KeepsTurn

\* No call of the message was made yet.
Unsent == stage = "sending" /\ calls # <<>> /\ calls = CallsOf(message)

\* Of the events, those the worker answers have a number; those of the tools,
\* the chat of a turn of Telegram or one the agent names.
Addressed(m) ==
    \/ m.platform = "telegram" /\ m.target # "nowhere"
    \/ m.platform = "telegram" /\ turn.source = "telegram" /\ m.by # "note"
    \/ m.platform \in ByPhone /\ turn.source \in ByPhone /\ m.by \in Worker

\* The record of the integration is not found, has no number, or cannot be read:
\* nothing is sent.
LoseAddress ==
    /\ Unsent /\ message.platform \in ByRecord /\ ~Addressed(message)
    /\ ~(message.platform \in ByPhone /\ Places(message)) /\ Err
    /\ undelivered' = undelivered \cup Items(ToSet(calls))
    /\ calls' = <<>>
    /\ UNCHANGED shown /\ KeepsTurn

\* Locations go to the number of the user's own record.  It has none, or could
\* not be read, which is not told from that: the rest is sent without.
MissNumber ==
    /\ Unsent /\ message.by = "tool" /\ message.platform \in ByPhone
    /\ Places(message) /\ Err
    /\ message' = [message EXCEPT !.place = "missed"]
    /\ calls' = CallsOf(message')
    /\ UNCHANGED <<turn, stage, sends, flags, userVars, sentVars>>

\* WhatsApp's client raises, Slack's sender goes on with the next file.
Stumble(c) ==
    /\ Calling(c) /\ Unreadable(c)
    /\ calls' = <<>>
    /\ UNCHANGED <<shown, undelivered, errors>> /\ KeepsTurn

\* The answer of Telegram is lost: the chunk is sent again, as plain text.
SendAgain(c) ==
    /\ Calling(c) /\ message.platform = "telegram" /\ c \in {"head", "tail"}
    /\ Err
    /\ shown' = shown \cup {Shown(c, FALSE), Shown(c, TRUE)}
    /\ calls' = Tail(calls)
    /\ UNCHANGED undelivered /\ KeepsTurn

\* An interaction has one message: a later one takes its place.
Interact(c) ==
    /\ Calling(c) /\ message.platform = "discord"
    /\ \/ /\ shown' = {e \in shown : e.item.of.platform # "discord"} \cup {Shown(c, FALSE)}
          /\ UNCHANGED <<undelivered, errors>>
       \/ Err /\ undelivered' = undelivered \cup {Item(c)} /\ UNCHANGED shown
    /\ calls' = <<>>
    /\ KeepsTurn

\* What is published while nobody is subscribed is gone.
PublishToWeb(c) ==
    /\ Calling(c) /\ message.platform = "websocket"
    /\ \/ /\ shown' = shown \cup {e \in {Shown(c, FALSE)} : web = "here"}
          /\ UNCHANGED <<undelivered, errors>>
       \/ Err /\ undelivered' = undelivered \cup {Item(c)} /\ UNCHANGED shown
    /\ calls' = Tail(calls)
    /\ KeepsTurn

\* Text and files are one payload, which objects cannot be part of; the client
\* takes the first one.
AnswerClient(c) ==
    /\ Calling(c) /\ message.platform = "mcp"
    /\ \/ /\ message.by = "worker" /\ message.file
          /\ UNCHANGED <<shown, client, undelivered, errors>>
       \/ /\ ~(message.by = "worker" /\ message.file)
          /\ IF client = "waiting"
               THEN /\ shown' = shown \cup {Shown(k, FALSE) : k \in ToSet(calls)}
                    /\ client' = "answered"
               ELSE UNCHANGED <<shown, client>>
          /\ UNCHANGED <<undelivered, errors>>
       \/ /\ Err /\ undelivered' = undelivered \cup Items(ToSet(calls))
          /\ UNCHANGED <<shown, client>>
    /\ calls' = <<>>
    /\ UNCHANGED <<turn, stage, message, sends, flags, home, first, web,
                   promised, saved>>

\* The tool stores what it sent, if it can, and reports a success.
Report ==
    /\ stage = "sending" /\ calls = <<>> /\ message.by \notin Worker
    /\ promised' = promised \cup Items(Claimed(message))
    /\ \/ /\ message.by = "tool" /\ saved' = saved \cup Items({"head"})
          /\ UNCHANGED errors
       \/ message.by = "tool" /\ Err /\ UNCHANGED saved
       \/ message.by = "note" /\ UNCHANGED <<saved, errors>>
    /\ stage' = "running"
    /\ UNCHANGED <<turn, message, calls, sends, flags, userVars, shown,
                   undelivered>>

EndTurn ==
    /\ stage = "sending" /\ calls = <<>> /\ message.by \in Worker
    /\ stage' = "over"
    /\ UNCHANGED <<turn, message, calls, sends, flags, userVars, sentVars,
                   errors>>

\* The context of the event is reset, and what it sent is history.
EndEvent ==
    /\ stage = "over"
    /\ stage' = "idle" /\ turn' = NoTurn /\ message' = NoMessage /\ sends' = 0
    /\ replied' = FALSE /\ attachment' = FALSE
    /\ streams' = FALSE /\ streamed' = FALSE
    /\ shown' = {} /\ promised' = {} /\ undelivered' = {} /\ saved' = {}
    /\ errors' = 0
    /\ UNCHANGED <<calls, userVars>>

-----------------------------------------------------------------------------
(* The clients.                                                            *)

\* A socket is closed or opened; the channel is named by the socket's token,
\* and a turn publishes to that of its event.
MoveSocket ==
    /\ turn.source = "websocket" /\ stage \in {"running", "answered", "sending"}
    /\ web' = IF web = "here" THEN "away" ELSE "here"
    /\ UNCHANGED <<turnVars, home, first, client, sentVars, errors>>

\* The client of MCP waits for two minutes.
TimeOutClient ==
    /\ client = "waiting"
    /\ client' = "gone"
    /\ UNCHANGED <<turnVars, home, first, web, sentVars, errors>>

-----------------------------------------------------------------------------

EgressInit ==
    /\ home = "nowhere" /\ first = "nowhere"
    /\ turn = NoTurn /\ stage = "idle" /\ message = NoMessage /\ calls = <<>>
    /\ sends = 0 /\ replied = FALSE /\ attachment = FALSE /\ streams = FALSE
    /\ streamed = FALSE
    /\ web = "here" /\ client = "none"
    /\ shown = {} /\ promised = {} /\ undelivered = {} /\ saved = {}
    /\ errors = 0

EgressNext ==
    \/ stage = "idle" /\ \E s \in Sources, asked \in SUBSET Rooms :
          \E o \in OriginsOf(s), c \in asked : BeginTurn(s, o, c, asked)
    \/ ReplyByTool \/ SendIntermediate \/ AttachFile \/ BreakStream
    \/ \E p \in Platforms : Answer(p)
    \/ SendAnswer \/ Apologize \/ EndSilently \/ LoseAddress \/ MissNumber
    \/ calls # <<>> /\ \E c \in Kinds :
          \/ Succeed(c) \/ PassOver(c) \/ Abandon(c) \/ Stumble(c)
          \/ SendAgain(c) \/ Interact(c) \/ PublishToWeb(c) \/ AnswerClient(c)
    \/ Report \/ EndTurn \/ EndEvent \/ MoveSocket \/ TimeOutClient

EgressSpec == EgressInit /\ [][EgressNext]_egressVars

-----------------------------------------------------------------------------
(* Properties.                                                             *)

MessageType ==
    [platform : Platforms \cup {"none"}, by : {"tool", "note", "none"} \cup Worker,
     target : Rooms \cup {"nowhere"}, file : BOOLEAN,
     place : {"none", "request", "share", "missed"}]
ItemType == [n : Nat, kind : Kinds, of : MessageType]

\* The values of the variables.
EgressTypeOK ==
    /\ home \in Rooms \cup {"nowhere"} /\ first \in Rooms \cup {"nowhere"}
    /\ turn = NoTurn \/ turn \in [source : Sources, origin : Platforms,
                                 chat : Rooms, asked : SUBSET Rooms]
    /\ stage \in {"idle", "running", "answered", "sending", "over"}
    /\ message \in MessageType /\ calls \in Seq(Kinds) /\ sends \in Nat
    /\ \A b \in {replied, attachment, streams, streamed} : b \in BOOLEAN
    /\ web \in {"here", "away"} /\ client \in {"none", "waiting", "answered", "gone"}
    /\ shown \subseteq [item : ItemType, chat : Rooms, plain : BOOLEAN]
    /\ promised \subseteq ItemType /\ undelivered \subseteq ItemType
    /\ saved \subseteq ItemType /\ errors \in 0 .. MaxErrors

\* A question from outside the group came behind one from the group, in the same
\* turn, which goes where the first one came from (execution_worker.py:79-92).
BehindGroup == turn.chat = "group" /\ turn.asked # {"group"}

\* What is shown in a group was asked in that group, on its platform, and only
\* there, unless the agent chose the group, the question came behind one of the
\* group's, or the user's first message on Telegram was written there: then its
\* chat is taken as the user's own (telegram_handler.py:145).
PrivateStaysPrivate ==
    \A e \in shown :
        e.chat = "group" =>
            \/ e.item.of.platform = turn.source
               /\ (turn.asked = {"group"} \/ BehindGroup)
            \/ e.item.of.target = "group"
            \/ e.item.of.platform = "telegram" /\ first = "group"

\* Platforms a message of this turn reaches the user on.
Reaches(p) ==
    \/ p = turn.source /\ p # "email"
    \/ p \in {"whatsapp", "imessage"}
    \/ p = "telegram" /\ home # "nowhere"

Replaced(q) == \E r \in ShownItems : r.n > q.n

\* What is reported and not sent: a file with a location or on Discord; a
\* location on other platforms, or for a user without a number; an answer on
\* Discord before the last; any but the first on MCP; a message in the middle of
\* a turn of the web.
Passed(q) ==
    \/ q.kind = "file" /\ (Places(q.of) \/ q.of.platform = "discord")
    \/ q.kind = "location" /\ (q.of.platform \notin ByRecord \/ q.of.place = "missed")
    \/ q.of.platform = "discord" /\ Replaced(q)
    \/ q.of.platform = "mcp" /\ client \in {"answered", "gone"}
    \/ q.of.platform = "websocket"

\* What a tool reports as sent, on the platform of the turn or on one the user
\* is found on by the integration's record, is shown, each chunk of it, and the
\* files of a message whose location could not be sent, unless a call or the
\* look-up of the record failed or it is passed over (communication.py:162,
\* "raises exception on failure").
ReportedIsShown ==
    \A q \in promised :
        Reaches(q.of.platform) =>
            q \in ShownItems \cup undelivered \/ Passed(q)

\* An answer the web's user was not shown, because the socket was closed or the
\* stream broke (final_response.py:62 takes it as streamed), is in the records
\* the client reads when it comes back, if the worker did not apologize.
MissedAnswersAreStored ==
    stage = "over" /\ turn.source = "websocket" /\ message.by = "worker" =>
        Item("head") \in ShownItems \cup saved
=============================================================================
