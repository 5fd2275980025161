----------------------------- MODULE ChatProofs -----------------------------
(***************************************************************************)
(* Proofs about the two ends of a conversation and about the cutting of    *)
(* long messages.                                                          *)
(*                                                                         *)
(* ChatIngress, for any calls, batches, accounts and chats and any number  *)
(* of failures: what is acknowledged was published, the groups of a member *)
(* stay tracked, and a user is greeted once.  Each of the three has its    *)
(* own invariant; all share the types and the fact that members are        *)
(* connected and only others are greeted.  The first lemmas gather what    *)
(* the handlers have in common.                                            *)
(*                                                                         *)
(* Egress, for any sources, replies and any number of sends and failures:  *)
(* nothing private is shown in a group, what a tool reports is shown, and  *)
(* an answer the web's user missed is in the records.  The three are       *)
(* inductive together with what a message being sent has left to do        *)
(* (ClaimsOK), its chat (SendsOK), the order of the messages of a turn     *)
(* (NumbersOK) and what is stored of an answer (SavedOK).  CallKeeps says  *)
(* once what any call of a message keeps.                                  *)
(*                                                                         *)
(* MessageChunks, for any message, limits and tags: a long message is      *)
(* shown whole, in order and with its format, but for the exceptions the   *)
(* property names.  What is open at a place is a recursion over the        *)
(* message; StepByStep is the induction on places that its lemmas use.     *)
(* ChunkMatches says that a chunk cut where nothing was open before it is  *)
(* closed in the right order, CutMeans where a chunk may end, WasSent what *)
(* becomes of one.                                                         *)
(***************************************************************************)
EXTENDS ChatIngress, Egress, MessageChunks, WellFoundedInduction, FiniteSetTheorems,
        TLAPS

-----------------------------------------------------------------------------
(* Messages that arrive *)


GreetSteps == {"connect", "welcome", "engage", "settle"}

\* A handler is somewhere exactly while its call is running, and writes the
\* chats of the sender's integration; members are connected and only others
\* are greeted.
CallsOK ==
    /\ \A h \in Hooks : answer[h] = "running" <=> step[h] # "idle"
    /\ \A h \in Hooks : step[h] = "channel" => owner[h] = Sender(h)
    /\ \A a \in Members : accounts[a] > 0
    /\ \A h \in Hooks : step[h] \in GreetSteps => Sender(h) \notin Members

Settled(m) == m \in published \cup unreceived \cup givenUp \/ KindOf[m] = "other"

Done(h, i) ==
    \/ Settled(MessagesOf[h][i])
    \/ \E j \in 1 .. i : SenderOf[MessagesOf[h][j]] \notin Members

\* The messages a running handler has passed are done.
BatchOK ==
    \A h \in Hooks : answer[h] = "running" => \A i \in 1 .. (place[h] - 1) : Done(h, i)

\* A handler about to write a list of chats has the list as it is, and one
\* about to publish a member's message finds its group in it.
ChatsOK ==
    /\ \A h \in Hooks : step[h] = "channel" /\ owner[h] \notin troubled =>
          copy[h] = chatsOf[owner[h]]
    /\ \A h \in Hooks : step[h] = "publish" /\ InGroup(h) /\ Sender(h) \in Members \ troubled =>
          ChatOf[Current(h)] \in chatsOf[Sender(h)]

\* Two handlers greet one user, or connect one account, only in trouble; a
\* greeting that is to be sent is the first, and after it the user is no
\* newcomer or about to be settled.
GreetingsOK ==
    /\ \A g, h \in Hooks : g # h /\ step[g] \in GreetSteps /\ step[h] \in GreetSteps =>
          /\ Recipient(g) = Recipient(h) => Recipient(h) \in troubled
          /\ Sender(g) = Sender(h) => Sender(h) \in troubled
    /\ \A h \in Hooks : step[h] = "connect" /\ Sender(h) \notin troubled => accounts[Sender(h)] = 0
    /\ \A h \in Hooks : step[h] \in GreetSteps \ {"settle"} /\ greet[h] /\ Recipient(h) \notin troubled =>
          engaged[Recipient(h)] = 0
    /\ \A u \in newcomers \ troubled :
          engaged[u] = 0 \/ \E h \in Hooks : step[h] = "settle" /\ Recipient(h) = u

-----------------------------------------------------------------------------
(* What the handlers have in common.                                       *)

\* The message a handler is at is one of the messages.
LEMMA CurrentType ==
    ASSUME IngressTypeOK, NEW h \in Hooks
    PROVE  /\ Current(h) \in Messages /\ Sender(h) \in Senders
           /\ Recipient(h) \in Owners /\ ChatOf[Current(h)] \in Chats
           /\ place[h] \in 1 .. Len(MessagesOf[h]) /\ Len(MessagesOf[h]) \in Nat
<1>1. MessagesOf[h] \in Seq(Messages) /\ place[h] \in Nat \ {0} /\ place[h] \leq Len(MessagesOf[h])
  BY HooksAssumption DEF IngressTypeOK
<1>2. Current(h) \in Messages /\ Len(MessagesOf[h]) \in Nat
  BY <1>1 DEF Current
<1> QED
  BY <1>1, <1>2, MessagesAssumption DEF Sender, Recipient

\* The three handlers that take many steps do one of three things when they
\* have read whose message it is.
Lookup(h) ==
    /\ step[h] = "lookup" /\ answer[h] = "running"
    /\ UNCHANGED <<messageVars, misses>>
    /\ \/ Follow(h)
       \/ Handshake(h)
       \/ Known(h) /\ GoTo(h, "channel")
       \/ Known(h) /\ GoTo(h, "publish") /\ (InGroup(h) => ~IsNewChat(h))

LEMMA LookupCases ==
    ASSUME NEW h \in Hooks, IngressTypeOK, Telegram(h) \/ WhatsApp(h) \/ IMessage(h)
    PROVE  Lookup(h)
<1>1. CASE Telegram(h)
  BY <1>1 DEF Telegram, Lookup, At, NoMiss, GoTo
<1>2. CASE WhatsApp(h)
  BY <1>2 DEF WhatsApp, Lookup, At, NoMiss, GoTo
<1>3. CASE IMessage(h)
  <2>1. ServiceOf[h] = "imessage"
    BY <1>3 DEF IMessage
  <2>2. ~InGroup(h)
    <3>1. MessagesOf[h] \in Seq(Messages) /\ place[h] \in DOMAIN MessagesOf[h]
      BY CurrentType, HooksAssumption
    <3>2. Current(h) \in Range(MessagesOf[h])
      BY <3>1 DEF Current, Range
    <3> QED
      BY <2>1, <3>2, HooksAssumption DEF InGroup
  <2> QED
    BY <1>3, <2>2 DEF IMessage, Lookup, At, NoMiss
<1> QED
  BY <1>1, <1>2, <1>3

\* The handlers that take one step answer with a success only when the message
\* is settled, its sender unknown, or they gave up.
OneCall(h) ==
    /\ step[h] = "lookup" /\ ServiceOf[h] \in OneStep
    /\ SharesNothing /\ UNCHANGED place
    /\ published \subseteq published' /\ published' \subseteq published \cup {Current(h)}
    /\ unreceived \subseteq unreceived' /\ unreceived' \subseteq unreceived \cup {Current(h)}
    /\ step' = [step EXCEPT ![h] = "idle"]
    /\ \/ answer' = [answer EXCEPT ![h] = "refused"] /\ UNCHANGED givenUp
       \/ /\ answer' = [answer EXCEPT ![h] = "ok"]
          /\ \/ givenUp' = givenUp \cup {Current(h)}
             \/ UNCHANGED givenUp /\ (Settled(Current(h))' \/ Sender(h) \notin Members)
    /\ misses' \in 0 .. MaxMisses

LEMMA OneStepCases ==
    ASSUME NEW h \in Hooks, IngressTypeOK, Slack(h) \/ Discord(h) \/ IOS(h) \/ Http(h)
    PROVE  OneCall(h)
<1> USE DEF OneCall, SharesNothing, OneStep, At, Return, Refuse, Accept, GiveUp, Ignore,
            PublishOrIgnore, messageVars, Settled, NoMiss
<1>0. misses \in 0 .. MaxMisses /\ MaxMisses \in Nat
  BY MessagesAssumption DEF IngressTypeOK
<1>1. CASE Slack(h)
  BY <1>0, <1>1 DEF Slack, Miss, Current
<1>2. CASE Discord(h)
  BY <1>0, <1>2 DEF Discord, Miss, Current
<1>3. CASE IOS(h)
  BY <1>0, <1>3 DEF IOS, Miss, Current
<1>4. CASE Http(h)
  BY <1>0, <1>4 DEF Http, Miss, Current
<1> QED
  BY <1>1, <1>2, <1>3, <1>4

\* A handler that publishes settles the message and goes on.
Pass(h) ==
    /\ step[h] = "publish" /\ answer[h] = "running"
    /\ UNCHANGED <<owner, copy, greet, accountVars, givenUp>>
    /\ published \subseteq published' /\ published' \subseteq published \cup {Current(h)}
    /\ unreceived \subseteq unreceived' /\ unreceived' \subseteq unreceived \cup {Current(h)}
    /\ Current(h) \in published' \cup unreceived' \/ KindOf[Current(h)] = "other"
    /\ NextMessage(h)
    /\ misses' \in 0 .. MaxMisses

LEMMA PassCases ==
    ASSUME NEW h \in Hooks, IngressTypeOK, PublishFile(h) \/ Publish(h)
    PROVE  Pass(h)
<1> USE DEF Pass, At
<1>0. misses \in 0 .. MaxMisses /\ MaxMisses \in Nat
  BY MessagesAssumption DEF IngressTypeOK
<1>1. CASE PublishFile(h)
  BY <1>0, <1>1 DEF PublishFile, Miss, NoMiss
<1>2. CASE Publish(h)
  BY <1>0, <1>2 DEF Publish, NoMiss
<1> QED
  BY <1>1, <1>2

\* The steps, by what the handlers have in common.
LEMMA StepCases ==
    ASSUME IngressTypeOK, NEW h \in Hooks, HookNext(h)
    PROVE  \/ CallHook(h) \/ Lookup(h) \/ Connect(h) \/ Welcome(h) \/ Engage(h) \/ Settle(h)
           \/ Channel(h) \/ Pass(h) \/ LoseUser(h) \/ OneCall(h) \/ FailCall(h) \/ LoseAnswer(h)
BY LookupCases, OneStepCases, PassCases DEF HookNext, Handle

\* What a step of one handler does to where the handlers are.
LEMMA Moves ==
    ASSUME IngressTypeOK, NEW h \in Hooks, HookNext(h)
    PROVE  /\ \A g \in Hooks \ {h} :
                 /\ answer'[g] = answer[g] /\ place'[g] = place[g] /\ step'[g] = step[g]
                 /\ owner'[g] = owner[g] /\ copy'[g] = copy[g] /\ greet'[g] = greet[g]
           /\ published \subseteq published' /\ unreceived \subseteq unreceived'
           /\ givenUp \subseteq givenUp'
           /\ troubled \subseteq troubled'
<1> USE DEF IngressTypeOK, hookVars, accountVars, messageVars
<1>1. CASE CallHook(h)
  BY <1>1 DEF CallHook
<1>2. CASE Lookup(h)
  <2> USE <1>2 DEF Lookup, GoTo, Return, Read, Untold
  <2>1. CASE Follow(h)
    BY <2>1 DEF Follow
  <2>2. CASE Handshake(h)
    BY <2>2 DEF Handshake
  <2>3. CASE Known(h)
    BY <2>3 DEF Known, Follow, Handshake
  <2> QED
    BY <2>1, <2>2, <2>3
<1>3. CASE Connect(h)
  BY <1>3 DEF Connect, GoTo, Return
<1>4. CASE Welcome(h)
  BY <1>4 DEF Welcome, GoTo, Return
<1>5. CASE Engage(h)
  BY <1>5 DEF Engage, GoTo, Return
<1>6. CASE Settle(h)
  BY <1>6 DEF Settle, Return
<1>7. CASE Channel(h)
  BY <1>7 DEF Channel, GoTo
<1>8. CASE Pass(h)
  BY <1>8 DEF Pass, NextMessage, Return
<1>9. CASE OneCall(h)
  BY <1>9 DEF OneCall, SharesNothing
<1>10. CASE FailCall(h)
  BY <1>10 DEF FailCall
<1>11. CASE LoseAnswer(h)
  BY <1>11 DEF LoseAnswer
<1>12. CASE LoseUser(h)
  BY <1>12 DEF LoseUser, Return
<1> QED
  BY StepCases, <1>1, <1>2, <1>3, <1>4, <1>5, <1>6, <1>7, <1>8, <1>9, <1>10, <1>11, <1>12

-----------------------------------------------------------------------------
(* Types.                                                                  *)

CallTypes ==
    /\ answer \in [Hooks -> {"due", "running", "ok", "refused"}]
    /\ place \in [Hooks -> Nat \ {0}] /\ \A h \in Hooks : place[h] \leq Len(MessagesOf[h])
    /\ step \in [Hooks -> {"idle", "lookup", "connect", "welcome", "engage", "settle",
                             "channel", "publish"}]

CopyTypes ==
    /\ owner \in [Hooks -> Senders \cup {NoSender}]
    /\ copy \in [Hooks -> SUBSET Chats]
    /\ greet \in [Hooks -> BOOLEAN]

AccountTypes ==
    /\ accounts \in [Senders -> Nat]
    /\ chatsOf \in [Senders -> SUBSET Chats]
    /\ newcomers \subseteq Owners
    /\ engaged \in [Owners -> Nat]
    /\ troubled \subseteq Senders \cup Owners

MessageTypes ==
    /\ published \subseteq Messages /\ unreceived \subseteq Messages
    /\ givenUp \subseteq Messages
    /\ misses \in 0 .. MaxMisses

LEMMA TypesByParts == IngressTypeOK <=> CallTypes /\ CopyTypes /\ AccountTypes /\ MessageTypes
BY DEF IngressTypeOK, CallTypes, CopyTypes, AccountTypes, MessageTypes

LEMMA TypesKept ==
    ASSUME IngressTypeOK, CallsOK, NEW h \in Hooks, HookNext(h)
    PROVE  IngressTypeOK'
<1> SUFFICES CallTypes' /\ CopyTypes' /\ AccountTypes' /\ MessageTypes'
  BY TypesByParts DEF IngressTypeOK, CallTypes, CopyTypes, AccountTypes, MessageTypes
<1>0. CallTypes /\ CopyTypes /\ AccountTypes /\ MessageTypes
  BY TypesByParts
<1>00. /\ Current(h) \in Messages /\ Sender(h) \in Senders /\ Recipient(h) \in Owners
       /\ ChatOf[Current(h)] \in Chats /\ MaxMisses \in Nat
       /\ place[h] \in 1 .. Len(MessagesOf[h]) /\ Len(MessagesOf[h]) \in Nat
       /\ \A g \in Hooks : 1 \leq Len(MessagesOf[g])
  <2>1. \A g \in Hooks : MessagesOf[g] \in Seq(Messages) /\ MessagesOf[g] # <<>>
    BY HooksAssumption
  <2> QED
    BY <2>1, CurrentType, MessagesAssumption
<1> USE DEF accountVars, messageVars, Miss, NoMiss, GoTo, Return, Read, Untold
<1>1. CASE CallHook(h)
  <2>1. CallTypes'
    BY <1>0, <1>00, <1>1 DEF CallTypes, CallHook
  <2>2. CopyTypes'
    BY <1>0, <1>00, <1>1 DEF CopyTypes, CallHook
  <2>3. AccountTypes'
    BY <1>0, <1>00, <1>1 DEF AccountTypes, CallHook
  <2>4. MessageTypes'
    BY <1>0, <1>00, <1>1 DEF MessageTypes, CallHook
  <2> QED
    BY <2>1, <2>2, <2>3, <2>4
<1>2. CASE Lookup(h)
  <2>1. CASE Follow(h)
    <3>1. CallTypes'
      BY <1>0, <1>00, <2>1, <1>2 DEF CallTypes, Follow, Lookup, Trackers, Connected
    <3>2. CopyTypes'
      BY <1>0, <2>1 DEF CopyTypes, AccountTypes, Follow, Trackers, Connected
    <3>3. AccountTypes'
      BY <1>0, <1>00, <2>1, <1>2 DEF AccountTypes, Follow, Lookup, Trackers, Connected
    <3>4. MessageTypes'
      BY <1>0, <1>00, <2>1, <1>2 DEF MessageTypes, Follow, Lookup, Trackers, Connected
    <3> QED
      BY <3>1, <3>2, <3>3, <3>4
  <2>2. CASE Handshake(h)
    <3>1. CallTypes'
      BY <1>0, <1>00, <2>2, <1>2 DEF CallTypes, Handshake, Lookup
    <3>2. CopyTypes'
      <4>1. greet' \in [Hooks -> BOOLEAN]
        <5>1. \/ greet' = greet
              \/ greet' = [greet EXCEPT ![h] = TRUE]
              \/ greet' = [greet EXCEPT ![h] = FALSE]
          BY <2>2 DEF Handshake
        <5> QED
          BY <1>0, <5>1 DEF CopyTypes
      <4>2. owner' = [owner EXCEPT ![h] = NoSender] /\ copy' = copy
        BY <2>2 DEF Handshake
      <4> QED
        BY <1>0, <4>1, <4>2 DEF CopyTypes
    <3>3. AccountTypes'
      BY <1>0, <1>00, <2>2, <1>2 DEF AccountTypes, Handshake, Lookup
    <3>4. MessageTypes'
      BY <1>0, <1>00, <2>2, <1>2 DEF MessageTypes, Handshake, Lookup
    <3> QED
      BY <3>1, <3>2, <3>3, <3>4
  <2>3. CASE Known(h)
    <3>1. CallTypes'
      BY <1>0, <1>00, <2>3, <1>2 DEF CallTypes, Known, Follow, Handshake, Lookup
    <3>2. CopyTypes'
      BY <1>0, <1>00, <2>3 DEF CopyTypes, AccountTypes, Known
    <3>3. AccountTypes'
      BY <1>0, <1>00, <2>3, <1>2 DEF AccountTypes, Known, Follow, Handshake, Lookup
    <3>4. MessageTypes'
      BY <1>0, <1>00, <2>3, <1>2 DEF MessageTypes, Known, Follow, Handshake, Lookup
    <3> QED
      BY <3>1, <3>2, <3>3, <3>4
  <2> QED
    BY <1>2, <2>1, <2>2, <2>3 DEF Lookup
<1>3. CASE Connect(h)
  <2>1. CallTypes'
    BY <1>0, <1>00, <1>3 DEF CallTypes, Connect
  <2>2. CopyTypes'
    BY <1>0, <1>00, <1>3 DEF CopyTypes, Connect
  <2>3. AccountTypes'
    BY <1>0, <1>00, <1>3 DEF AccountTypes, Connect
  <2>4. MessageTypes'
    BY <1>0, <1>00, <1>3 DEF MessageTypes, Connect
  <2> QED
    BY <2>1, <2>2, <2>3, <2>4
<1>4. CASE Welcome(h)
  <2>1. CallTypes'
    BY <1>0, <1>00, <1>4 DEF CallTypes, Welcome
  <2>2. CopyTypes'
    BY <1>0, <1>00, <1>4 DEF CopyTypes, Welcome
  <2>3. AccountTypes'
    BY <1>0, <1>00, <1>4 DEF AccountTypes, Welcome
  <2>4. MessageTypes'
    BY <1>0, <1>00, <1>4 DEF MessageTypes, Welcome
  <2> QED
    BY <2>1, <2>2, <2>3, <2>4
<1>5. CASE Engage(h)
  <2>1. CallTypes'
    BY <1>0, <1>00, <1>5 DEF CallTypes, Engage
  <2>2. CopyTypes'
    BY <1>0, <1>00, <1>5 DEF CopyTypes, Engage
  <2>3. AccountTypes'
    BY <1>0, <1>00, <1>5 DEF AccountTypes, Engage
  <2>4. MessageTypes'
    BY <1>0, <1>00, <1>5 DEF MessageTypes, Engage
  <2> QED
    BY <2>1, <2>2, <2>3, <2>4
<1>6. CASE Settle(h)
  <2>1. CallTypes'
    BY <1>0, <1>00, <1>6 DEF CallTypes, Settle
  <2>2. CopyTypes'
    BY <1>0, <1>00, <1>6 DEF CopyTypes, Settle
  <2>3. AccountTypes'
    BY <1>0, <1>00, <1>6 DEF AccountTypes, Settle
  <2>4. MessageTypes'
    BY <1>0, <1>00, <1>6 DEF MessageTypes, Settle
  <2> QED
    BY <2>1, <2>2, <2>3, <2>4
<1>7. CASE Channel(h)
  <2>1. CallTypes'
    BY <1>0, <1>00, <1>7 DEF CallTypes, Channel
  <2>2. CopyTypes'
    BY <1>0, <1>00, <1>7 DEF CopyTypes, Channel
  <2>3. AccountTypes'
    <3>1. copy[h] \cup {ChatOf[Current(h)]} \in SUBSET Chats
      BY <1>0, <1>00 DEF CopyTypes
    <3>2. chatsOf' \in [Senders -> SUBSET Chats]
      BY <1>0, <1>7, <3>1 DEF AccountTypes, Channel
    <3>3. troubled' \subseteq Senders \cup Owners
      <4>1. owner[h] \in Senders
        BY <1>00, <1>7 DEF CallsOK, Channel, At
      <4> QED
        BY <1>0, <1>7, <4>1 DEF AccountTypes, Channel
    <3> QED
      BY <1>0, <1>7, <3>2, <3>3 DEF AccountTypes, Channel
  <2>4. MessageTypes'
    BY <1>0, <1>00, <1>7 DEF MessageTypes, Channel
  <2> QED
    BY <2>1, <2>2, <2>3, <2>4
<1>8. CASE Pass(h)
  <2>1. CallTypes'
    <3>1. NextMessage(h)
      BY <1>8 DEF Pass
    <3>2. CASE place[h] < Len(MessagesOf[h])
      <4>1. place' = [place EXCEPT ![h] = @ + 1]
        BY <3>1, <3>2 DEF NextMessage
      <4>2. place' \in [Hooks -> Nat \ {0}]
        BY <1>0, <1>00, <4>1 DEF CallTypes
      <4>3. \A g \in Hooks : place'[g] \leq Len(MessagesOf[g])
        BY <1>0, <1>00, <3>2, <4>1 DEF CallTypes
      <4>4. step' = [step EXCEPT ![h] = "lookup"] /\ answer' = answer
        BY <3>1, <3>2 DEF NextMessage
      <4> QED
        BY <1>0, <4>2, <4>3, <4>4 DEF CallTypes
    <3>3. CASE ~(place[h] < Len(MessagesOf[h]))
      BY <1>0, <1>00, <3>1, <3>3 DEF CallTypes, NextMessage
    <3> QED
      BY <3>2, <3>3
  <2>2. CopyTypes'
    BY <1>0, <1>00, <1>8 DEF CopyTypes, Pass, NextMessage
  <2>3. AccountTypes'
    BY <1>0, <1>00, <1>8 DEF AccountTypes, Pass, NextMessage
  <2>4. MessageTypes'
    BY <1>0, <1>00, <1>8 DEF MessageTypes, Pass, NextMessage
  <2> QED
    BY <2>1, <2>2, <2>3, <2>4
<1>9. CASE OneCall(h)
  <2>1. CallTypes'
    BY <1>0, <1>00, <1>9 DEF CallTypes, OneCall, SharesNothing
  <2>2. CopyTypes'
    BY <1>0, <1>00, <1>9 DEF CopyTypes, OneCall, SharesNothing
  <2>3. AccountTypes'
    BY <1>0, <1>00, <1>9 DEF AccountTypes, OneCall, SharesNothing
  <2>4. MessageTypes'
    BY <1>0, <1>00, <1>9 DEF MessageTypes, OneCall, SharesNothing
  <2> QED
    BY <2>1, <2>2, <2>3, <2>4
<1>10. CASE FailCall(h)
  <2>1. CallTypes'
    BY <1>0, <1>00, <1>10 DEF CallTypes, FailCall
  <2>2. CopyTypes'
    BY <1>0, <1>00, <1>10 DEF CopyTypes, FailCall
  <2>3. AccountTypes'
    BY <1>0, <1>00, <1>10 DEF AccountTypes, FailCall
  <2>4. MessageTypes'
    BY <1>0, <1>00, <1>10 DEF MessageTypes, FailCall
  <2> QED
    BY <2>1, <2>2, <2>3, <2>4
<1>11. CASE LoseAnswer(h)
  <2>1. CallTypes'
    BY <1>0, <1>00, <1>11 DEF CallTypes, LoseAnswer
  <2>2. CopyTypes'
    BY <1>0, <1>00, <1>11 DEF CopyTypes, LoseAnswer
  <2>3. AccountTypes'
    BY <1>0, <1>00, <1>11 DEF AccountTypes, LoseAnswer
  <2>4. MessageTypes'
    BY <1>0, <1>00, <1>11 DEF MessageTypes, LoseAnswer
  <2> QED
    BY <2>1, <2>2, <2>3, <2>4
<1>12. CASE LoseUser(h)
  <2>1. CallTypes'
    BY <1>0, <1>00, <1>12 DEF CallTypes, LoseUser
  <2>2. CopyTypes'
    BY <1>0, <1>00, <1>12 DEF CopyTypes, LoseUser
  <2>3. AccountTypes'
    BY <1>0, <1>00, <1>12 DEF AccountTypes, LoseUser
  <2>4. MessageTypes'
    <3>1. \A i \in place[h] .. Len(MessagesOf[h]) : MessagesOf[h][i] \in Messages
      <4>1. MessagesOf[h] \in Seq(Messages)
        BY HooksAssumption
      <4>2. \A i \in place[h] .. Len(MessagesOf[h]) : i \in 1 .. Len(MessagesOf[h])
        BY <1>00
      <4> QED
        BY <4>1, <4>2
    <3>2. Rest(h) \subseteq Messages
      BY <3>1 DEF Rest
    <3> QED
      BY <1>0, <1>00, <1>12, <3>2 DEF MessageTypes, LoseUser
  <2> QED
    BY <2>1, <2>2, <2>3, <2>4
<1> QED
  BY StepCases, <1>1, <1>2, <1>3, <1>4, <1>5, <1>6, <1>7, <1>8, <1>9, <1>10, <1>11, <1>12

\* Members stay connected and only others are greeted.
LEMMA CallsKept ==
    ASSUME IngressTypeOK, CallsOK, NEW h \in Hooks, HookNext(h)
    PROVE  CallsOK'
<1> USE DEF hookVars, accountVars, messageVars, GoTo, Return
<1>0. /\ \A g \in Hooks \ {h} :
            /\ answer'[g] = answer[g] /\ step'[g] = step[g] /\ owner'[g] = owner[g]
            /\ Sender(g)' = Sender(g)
      /\ Members \subseteq Senders
      /\ h \in DOMAIN answer /\ h \in DOMAIN step /\ h \in DOMAIN owner
      /\ \A a \in Senders : accounts[a] \in Nat
      /\ Sender(h) \in Senders
  BY Moves, CurrentType, MessagesAssumption DEF IngressTypeOK, Sender, Current
<1>1. /\ answer'[h] = "running" <=> step'[h] # "idle"
      /\ step'[h] = "channel" => owner'[h] = Sender(h)'
      /\ \A a \in Members : accounts'[a] > 0
      /\ step'[h] \in GreetSteps => Sender(h)' \notin Members
  <2> USE <1>0 DEF CallsOK, GreetSteps
  <2>1. CASE CallHook(h)
    BY <2>1 DEF CallHook
  <2>2. CASE Lookup(h)
    <3>1. Sender(h)' = Sender(h)
      BY <2>2 DEF Lookup, Follow, Handshake, Known, Sender, Current
    <3>2. CASE Follow(h)
      BY <2>2, <3>1, <3>2 DEF Follow, Lookup
    <3>3. CASE Handshake(h)
      <4>1. Sender(h) \notin Members
        BY <3>3 DEF Handshake, Connected
      <4>2. accounts' = accounts /\ owner' = [owner EXCEPT ![h] = NoSender]
        BY <3>3 DEF Handshake, Untold
      <4>3. CASE KindOf[Current(h)] = "handshake"
        BY <2>2, <3>1, <3>3, <4>1, <4>2, <4>3 DEF Handshake, Lookup
      <4>4. CASE KindOf[Current(h)] # "handshake"
        BY <2>2, <3>1, <3>3, <4>1, <4>2, <4>4 DEF Handshake, Lookup
      <4> QED
        BY <4>3, <4>4
    <3>4. CASE Known(h)
      BY <2>2, <3>1, <3>4 DEF Known, Lookup, Read, Follow, Handshake
    <3> QED
      BY <2>2, <3>2, <3>3, <3>4 DEF Lookup
  <2>3. CASE Connect(h)
    <3>1. Sender(h)' = Sender(h)
      BY <2>3 DEF Connect, Sender, Current
    <3>2. \A a \in Members : accounts'[a] > 0
      <4>1. accounts \in [Senders -> Nat]
        BY DEF IngressTypeOK
      <4>2. accounts' = accounts \/ accounts' = [accounts EXCEPT ![Sender(h)] = @ + 1]
        BY <2>3 DEF Connect
      <4> QED
        BY <4>1, <4>2
    <3> QED
      BY <2>3, <3>1, <3>2 DEF Connect, At
  <2>4. CASE Welcome(h)
    BY <2>4 DEF Welcome, At, Sender, Current
  <2>5. CASE Engage(h)
    BY <2>5 DEF Engage, At, Sender, Current
  <2>6. CASE Settle(h)
    BY <2>6 DEF Settle, At, Sender, Current
  <2>7. CASE Channel(h)
    BY <2>7 DEF Channel, At
  <2>8. CASE Pass(h)
    BY <2>8 DEF Pass, NextMessage
  <2>9. CASE OneCall(h)
    BY <2>9 DEF OneCall, SharesNothing
  <2>10. CASE FailCall(h)
    BY <2>10 DEF FailCall
  <2>11. CASE LoseAnswer(h)
    BY <2>11 DEF LoseAnswer
  <2>12. CASE LoseUser(h)
    BY <2>12 DEF LoseUser, At
  <2> QED
    BY StepCases, <2>1, <2>2, <2>3, <2>4, <2>5, <2>6, <2>7, <2>8, <2>9, <2>10, <2>11, <2>12
<1> QED
  BY <1>0, <1>1 DEF CallsOK

LEMMA CallsBegin == IngressInit => IngressTypeOK /\ CallsOK
<1> SUFFICES ASSUME IngressInit PROVE IngressTypeOK /\ CallsOK
  OBVIOUS
<1>1. \A h \in Hooks : MessagesOf[h] \in Seq(Messages) /\ MessagesOf[h] # <<>>
  BY HooksAssumption
<1>2. \A h \in Hooks : 1 \leq Len(MessagesOf[h])
  BY <1>1
<1>3. newcomers \subseteq Owners
  BY MessagesAssumption DEF IngressInit
<1>4. IngressTypeOK
  BY <1>2, <1>3, MessagesAssumption DEF IngressInit, IngressTypeOK
<1>5. CallsOK
  BY MessagesAssumption DEF IngressInit, CallsOK, GreetSteps
<1> QED
  BY <1>4, <1>5

\* The variables of the handlers, the accounts, the greetings and the messages
\* keep their types (all of src/ingress/webhook_handlers/).
THEOREM IngressTypes == IngressSpec => [](IngressTypeOK /\ CallsOK)
<1>1. ASSUME IngressTypeOK, CallsOK, [IngressNext]_ingressVars
      PROVE  IngressTypeOK' /\ CallsOK'
  <2>1. CASE IngressNext
    BY <1>1, <2>1, TypesKept, CallsKept DEF IngressNext
  <2>2. CASE UNCHANGED ingressVars
    BY <1>1, <2>2 DEF ingressVars, hookVars, accountVars, messageVars, IngressTypeOK, CallsOK,
                      Sender, Current
  <2> QED
    BY <1>1, <2>1, <2>2
<1> QED
  BY <1>1, CallsBegin, PTL DEF IngressSpec

-----------------------------------------------------------------------------
(* What is acknowledged was published.                                     *)

\* What is done stays done.
LEMMA DoneStays ==
    ASSUME IngressTypeOK, NEW h \in Hooks, HookNext(h), NEW g \in Hooks, NEW i, Done(g, i)
    PROVE  Done(g, i)'
BY Moves DEF Done, Settled

LEMMA AcknowledgedByDone ==
    AcknowledgedIsPublished <=>
        \A h \in Hooks : answer[h] = "ok" =>
            \A i \in DOMAIN MessagesOf[h] : Done(h, i)
BY DEF AcknowledgedIsPublished, Done, Settled

\* The handler's own messages are done as far as it has passed them, and all
\* when it has answered with a success.
LEMMA BatchStep ==
    ASSUME IngressTypeOK, CallsOK, BatchOK, AcknowledgedIsPublished,
           NEW h \in Hooks, HookNext(h)
    PROVE  /\ answer'[h] = "running" => \A i \in 1 .. (place'[h] - 1) : Done(h, i)'
           /\ answer'[h] = "ok" => \A i \in DOMAIN MessagesOf[h] : Done(h, i)'
<1> USE DEF hookVars, accountVars, messageVars, GoTo, Return
<1>0. /\ \A i : Done(h, i) => Done(h, i)'
      /\ DOMAIN MessagesOf[h] = 1 .. Len(MessagesOf[h]) /\ Len(MessagesOf[h]) \in Nat
      /\ place[h] \in 1 .. Len(MessagesOf[h])
      /\ h \in DOMAIN answer /\ h \in DOMAIN step /\ h \in DOMAIN place
      /\ Sender(h) = SenderOf[MessagesOf[h][place[h]]]
      /\ answer[h] = "running" => \A i \in 1 .. (place[h] - 1) : Done(h, i)
      /\ answer[h] = "ok" => \A i \in DOMAIN MessagesOf[h] : Done(h, i)
  <2>1. DOMAIN MessagesOf[h] = 1 .. Len(MessagesOf[h]) /\ Len(MessagesOf[h]) \in Nat
    <3>1. MessagesOf[h] \in Seq(Messages)
      BY HooksAssumption
    <3> QED
      BY <3>1
  <2>2. \A i : Done(h, i) => Done(h, i)'
    BY DoneStays
  <2>3. place[h] \in 1 .. Len(MessagesOf[h])
    BY CurrentType
  <2>4. h \in DOMAIN answer /\ h \in DOMAIN step /\ h \in DOMAIN place
    BY DEF IngressTypeOK
  <2>5. Sender(h) = SenderOf[MessagesOf[h][place[h]]]
    BY DEF Sender, Current
  <2>6. answer[h] = "running" => \A i \in 1 .. (place[h] - 1) : Done(h, i)
    BY DEF BatchOK
  <2>7. answer[h] = "ok" => \A i \in DOMAIN MessagesOf[h] : Done(h, i)
    BY AcknowledgedByDone
  <2> QED
    BY <2>1, <2>2, <2>3, <2>4, <2>5, <2>6, <2>7
\* From the message of an account that is not a member on, all are done.
<1>1. Sender(h) \notin Members => \A i \in 1 .. Len(MessagesOf[h]) : i \geq place[h] => Done(h, i)'
  <2> SUFFICES ASSUME Sender(h) \notin Members, NEW i \in 1 .. Len(MessagesOf[h]), i \geq place[h]
               PROVE  Done(h, i)'
    OBVIOUS
  <2>1. place[h] \in 1 .. i
    BY <1>0
  <2> QED
    BY <1>0, <2>1 DEF Done
<1>2. CASE CallHook(h)
  BY <1>0, <1>2 DEF CallHook
<1>3. CASE Lookup(h)
  <2>1. givenUp' = givenUp /\ place' = place /\ answer[h] = "running"
    BY <1>3 DEF Lookup, Follow, Handshake, Known
  <2>2. answer'[h] = "running" \/ (answer'[h] = "ok" /\ Sender(h) \notin Members)
    <3>1. Sender(h) \notin Connected => Sender(h) \notin Members
      <4>1. Members \subseteq Senders
        BY MessagesAssumption
      <4> QED
        BY <4>1 DEF CallsOK, Connected
    <3>2. CASE Follow(h)
      BY <1>0, <2>1, <3>1, <3>2 DEF Follow
    <3>3. CASE Handshake(h)
      BY <1>0, <2>1, <3>1, <3>3 DEF Handshake
    <3>4. CASE Known(h) /\ answer' = answer
      BY <2>1, <3>4
    <3> QED
      BY <1>3, <3>2, <3>3, <3>4 DEF Lookup
  <2> QED
    BY <1>0, <1>1, <2>1, <2>2
<1>4. CASE Connect(h) \/ Welcome(h) \/ Engage(h) \/ Settle(h)
  <2>1. /\ givenUp' = givenUp /\ place' = place /\ answer[h] = "running"
        /\ answer'[h] = "running" \/ answer'[h] = "ok"
        /\ step[h] \in GreetSteps
    BY <1>0, <1>4 DEF Connect, Welcome, Engage, Settle, At, GreetSteps
  <2> QED
    BY <1>0, <1>1, <2>1 DEF CallsOK
<1>5. CASE Channel(h)
  BY <1>0, <1>5 DEF Channel, At
<1>6. CASE Pass(h)
  <2>1. \A i : i = place[h] => Done(h, i)'
    <3>1. \/ MessagesOf[h][place[h]] \in published' \cup unreceived'
          \/ KindOf[MessagesOf[h][place[h]]] = "other"
      BY <1>6 DEF Pass, Current
    <3> QED
      BY <3>1 DEF Done, Settled
  <2>2. \A i \in 1 .. place[h] : Done(h, i)'
    <3> SUFFICES ASSUME NEW i \in 1 .. place[h] PROVE Done(h, i)'
      OBVIOUS
    <3>1. CASE i = place[h]
      BY <2>1, <3>1
    <3>2. CASE i # place[h]
      BY <1>0, <1>6, <3>2 DEF Pass
    <3> QED
      BY <3>1, <3>2
  <2>3. CASE place[h] < Len(MessagesOf[h])
    BY <1>0, <1>6, <2>2, <2>3 DEF Pass, NextMessage
  <2>4. CASE ~(place[h] < Len(MessagesOf[h]))
    BY <1>0, <1>6, <2>2, <2>4 DEF Pass, NextMessage
  <2> QED
    BY <2>3, <2>4
<1>7. CASE OneCall(h)
  <2>1. Len(MessagesOf[h]) = 1 /\ place[h] = 1
    <3>1. ServiceOf[h] # "whatsapp"
      BY <1>7 DEF OneCall, OneStep
    <3>2. Len(MessagesOf[h]) = 1
      BY <3>1, HooksAssumption
    <3> QED
      BY <1>0, <3>2
  <2>2. answer'[h] # "running"
    BY <1>0, <1>7 DEF OneCall
  <2>3. answer'[h] = "ok" => Done(h, 1)'
    BY <1>0, <1>1, <1>7, <2>1 DEF OneCall, SharesNothing, Done, Settled, Current
  <2> QED
    BY <1>0, <2>1, <2>2, <2>3
<1>8. CASE FailCall(h) \/ LoseAnswer(h)
  BY <1>0, <1>8 DEF FailCall, LoseAnswer
<1>9. CASE LoseUser(h)
  <2>1. answer[h] = "running" /\ answer'[h] = "ok" /\ givenUp' = givenUp \cup Rest(h)
    BY <1>0, <1>9 DEF LoseUser, At
  <2>2. ASSUME NEW i \in 1 .. Len(MessagesOf[h]), ~(i < place[h])
        PROVE  Done(h, i)'
    <3>1. MessagesOf[h][i] \in Rest(h)
      BY <1>0, <2>2 DEF Rest
    <3> QED
      BY <2>1, <3>1 DEF Done, Settled
  <2>3. ASSUME NEW i \in 1 .. Len(MessagesOf[h]), i < place[h]
        PROVE  Done(h, i)'
    BY <1>0, <2>1, <2>3
  <2> QED
    BY <1>0, <2>1, <2>2, <2>3
<1> QED
  BY StepCases, <1>2, <1>3, <1>4, <1>5, <1>6, <1>7, <1>8, <1>9

\* A call is acknowledged only when its messages were published, nothing to
\* publish or not receivable, its handler failed and swallowed the error
\* (slack_handler.py:235, whatsapp_handler.py:180), or the batch was ended by
\* the message of an account that was not connected (whatsapp_handler.py:119).
THEOREM AcknowledgedWasPublished == IngressSpec => []AcknowledgedIsPublished
<1>1. IngressInit => BatchOK /\ AcknowledgedIsPublished
  BY DEF IngressInit, BatchOK, AcknowledgedIsPublished
<1>2. ASSUME IngressTypeOK, CallsOK, BatchOK, AcknowledgedIsPublished, [IngressNext]_ingressVars
      PROVE  BatchOK' /\ AcknowledgedIsPublished'
  <2>1. CASE IngressNext
    <3>1. PICK h \in Hooks : HookNext(h)
      BY <2>1 DEF IngressNext
    <3>2. /\ answer'[h] = "running" => \A i \in 1 .. (place'[h] - 1) : Done(h, i)'
          /\ answer'[h] = "ok" => \A i \in DOMAIN MessagesOf[h] : Done(h, i)'
      BY <1>2, <3>1, BatchStep
    <3>3. ASSUME NEW g \in Hooks \ {h}
          PROVE  /\ answer'[g] = "running" => \A i \in 1 .. (place'[g] - 1) : Done(g, i)'
                 /\ answer'[g] = "ok" => \A i \in DOMAIN MessagesOf[g] : Done(g, i)'
      <4>1. answer'[g] = answer[g] /\ place'[g] = place[g]
        BY <1>2, <3>1, Moves
      <4>2. \A i : Done(g, i) => Done(g, i)'
        BY <1>2, <3>1, DoneStays
      <4>3. /\ answer[g] = "running" => \A i \in 1 .. (place[g] - 1) : Done(g, i)
            /\ answer[g] = "ok" => \A i \in DOMAIN MessagesOf[g] : Done(g, i)
        BY <1>2, AcknowledgedByDone DEF BatchOK
      <4> QED
        BY <4>1, <4>2, <4>3
    <3>4. BatchOK'
      BY <3>2, <3>3 DEF BatchOK
    <3>5. \A g \in Hooks : answer'[g] = "ok" =>
              \A i \in DOMAIN MessagesOf[g] : Done(g, i)'
      BY <3>2, <3>3
    <3>6. AcknowledgedIsPublished'
      BY <3>5 DEF AcknowledgedIsPublished, Done, Settled
    <3> QED
      BY <3>4, <3>6
  <2>2. CASE UNCHANGED ingressVars
    BY <1>2, <2>2 DEF ingressVars, hookVars, accountVars, messageVars, BatchOK,
                      AcknowledgedIsPublished, Done, Settled
  <2> QED
    BY <1>2, <2>1, <2>2
<1> QED
  BY <1>1, <1>2, IngressTypes, PTL DEF IngressSpec

-----------------------------------------------------------------------------
(* Groups stay tracked.                                                    *)

\* Of an integration out of trouble chats are never taken away, and the copy
\* another handler is about to write stays what it is.
LEMMA ChatsGrow ==
    ASSUME IngressTypeOK, CallsOK, ChatsOK, NEW h \in Hooks, HookNext(h)
    PROVE  /\ \A a \in Senders \ troubled' : chatsOf[a] \subseteq chatsOf'[a]
           /\ \A g \in Hooks \ {h} : step[g] = "channel" /\ owner[g] \notin troubled' =>
                 chatsOf'[owner[g]] = chatsOf[owner[g]]
<1>1. CASE Channel(h)
  <2>1. /\ step[h] = "channel" /\ owner[h] = Sender(h) /\ owner[h] \in Senders
        /\ chatsOf' = [chatsOf EXCEPT ![owner[h]] = copy[h] \cup {ChatOf[Current(h)]}]
        /\ chatsOf \in [Senders -> SUBSET Chats]
        /\ troubled \subseteq troubled'
    BY <1>1, Moves, CurrentType DEF Channel, At, CallsOK, IngressTypeOK
  <2>2. owner[h] \notin troubled' => copy[h] = chatsOf[owner[h]]
    BY <2>1 DEF ChatsOK
  <2>3. ASSUME NEW g \in Hooks \ {h}, step[g] = "channel", owner[g] \notin troubled'
        PROVE  owner[g] # owner[h]
    <3>1. At(g, "channel")
      BY <2>3 DEF At, CallsOK
    <3>2. owner[g] = owner[h] => owner[h] \in troubled'
      BY <1>1, <3>1 DEF Channel
    <3> QED
      BY <2>3, <3>2
  <2>4. \A a \in Senders : a # owner[h] => chatsOf'[a] = chatsOf[a]
    BY <2>1
  <2>5. \A g \in Hooks : step[g] = "channel" => owner[g] \in Senders
    BY CurrentType DEF CallsOK
  <2>6. owner[h] \notin troubled' => chatsOf[owner[h]] \subseteq chatsOf'[owner[h]]
    BY <2>1, <2>2
  <2> QED
    BY <2>3, <2>4, <2>5, <2>6
<1>2. CASE chatsOf' = chatsOf
  BY <1>2
<1>3. Channel(h) \/ chatsOf' = chatsOf
  BY StepCases DEF CallHook, Lookup, Follow, Handshake, Known, Connect, Welcome, Engage, Settle,
                   Pass, LoseUser, OneCall, SharesNothing, FailCall, LoseAnswer, accountVars
<1> QED
  BY <1>1, <1>2, <1>3

\* The handler itself has the list as it is when it is to write it, and finds
\* the group in it when it is to publish.
LEMMA HandlerHasChats ==
    ASSUME IngressTypeOK, CallsOK, ChatsOK, NEW h \in Hooks, HookNext(h)
    PROVE  /\ step'[h] = "channel" /\ owner'[h] \notin troubled' => copy'[h] = chatsOf'[owner'[h]]
           /\ step'[h] = "publish" /\ InGroup(h)' /\ Sender(h)' \in Members \ troubled' =>
                 ChatOf[Current(h)'] \in chatsOf'[Sender(h)']
<1>0. h \in DOMAIN step /\ h \in DOMAIN owner /\ h \in DOMAIN copy
  BY DEF IngressTypeOK
<1>1. CASE Lookup(h)
  <2>1. Current(h)' = Current(h) /\ Sender(h)' = Sender(h)
    BY <1>1 DEF Lookup, Follow, Handshake, Known, GoTo, Return, Current, Sender
  <2>2. CASE Follow(h)
    <3>1. step'[h] # "channel"
      BY <1>0, <2>2 DEF Follow, GoTo, Return
    <3>2. Sender(h) \notin Members
      <4>1. Members \subseteq Senders
        BY MessagesAssumption
      <4> QED
        BY <2>2, <4>1 DEF Follow, CallsOK, Connected
    <3> QED
      BY <2>1, <3>1, <3>2
  <2>3. CASE Handshake(h)
    BY <1>0, <2>3 DEF Handshake, GoTo, Return
  <2>4. CASE Known(h) /\ GoTo(h, "channel")
    BY <1>0, <2>4 DEF Known, GoTo, Read, accountVars
  <2>5. CASE Known(h) /\ GoTo(h, "publish") /\ (InGroup(h) => ~IsNewChat(h))
    <3>1. step'[h] = "publish" /\ chatsOf' = chatsOf
      BY <1>0, <2>5 DEF Known, GoTo, accountVars
    <3>2. InGroup(h)' = InGroup(h)
      BY <2>1 DEF InGroup
    <3> QED
      BY <2>1, <2>5, <3>1, <3>2 DEF IsNewChat
  <2> QED
    BY <1>1, <2>2, <2>3, <2>4, <2>5 DEF Lookup
<1>2. CASE Channel(h)
  <2>1. /\ step'[h] = "publish" /\ Current(h)' = Current(h) /\ Sender(h)' = Sender(h)
        /\ owner[h] = Sender(h)
        /\ chatsOf' = [chatsOf EXCEPT ![owner[h]] = copy[h] \cup {ChatOf[Current(h)]}]
    BY <1>0, <1>2 DEF Channel, GoTo, At, Current, Sender, CallsOK
  <2>2. Sender(h) \in DOMAIN chatsOf
    BY CurrentType DEF IngressTypeOK
  <2> QED
    BY <2>1, <2>2
<1>3. CASE Connect(h) \/ Welcome(h) \/ Engage(h) \/ Settle(h) \/ CallHook(h) \/ OneCall(h)
           \/ FailCall(h) \/ LoseUser(h)
  <2>1. step'[h] \notin {"channel", "publish"}
    BY <1>0, <1>3 DEF Connect, Welcome, Engage, Settle, CallHook, OneCall, FailCall, LoseUser,
                      GoTo, Return
  <2> QED
    BY <2>1
<1>4. CASE Pass(h)
  <2>1. step'[h] \notin {"channel", "publish"}
    BY <1>0, <1>4 DEF Pass, NextMessage, Return
  <2> QED
    BY <2>1
<1>5. CASE LoseAnswer(h)
  <2>1. step[h] = "idle"
    BY <1>5 DEF LoseAnswer, CallsOK
  <2> QED
    BY <1>5, <2>1 DEF LoseAnswer
<1> QED
  BY StepCases, <1>1, <1>2, <1>3, <1>4, <1>5

\* What is published by this step is of no group, or its group is in the list.
LEMMA NewlyPublished ==
    ASSUME IngressTypeOK, CallsOK, ChatsOK, NEW h \in Hooks, HookNext(h),
           NEW m \in published' \ published, ChatOf[m] \in Groups, SenderOf[m] \in Members \ troubled
    PROVE  ChatOf[m] \in chatsOf[SenderOf[m]]
<1>1. CASE Pass(h)
  <2>1. m = Current(h) /\ step[h] = "publish"
    BY <1>1 DEF Pass
  <2> QED
    BY <2>1 DEF ChatsOK, InGroup, Sender
<1>2. CASE OneCall(h)
  <2>1. m = Current(h) /\ ServiceOf[h] \in OneStep
    BY <1>2 DEF OneCall
  <2>2. Current(h) \in Range(MessagesOf[h])
    <3>1. MessagesOf[h] \in Seq(Messages) /\ place[h] \in DOMAIN MessagesOf[h]
      BY CurrentType, HooksAssumption
    <3> QED
      BY <3>1 DEF Current, Range
  <2> QED
    BY <2>1, <2>2, HooksAssumption DEF OneStep
<1>3. CASE published' = published
  BY <1>3
<1>4. Pass(h) \/ OneCall(h) \/ published' = published
  BY StepCases DEF CallHook, Lookup, Connect, Welcome, Engage, Settle, Channel, FailCall,
                   LoseUser, LoseAnswer, messageVars
<1> QED
  BY <1>1, <1>2, <1>3, <1>4

\* A group a member's message was published from stays in the list of its
\* integration (telegram_handler.py:149-161, whatsapp_handler.py:165-172),
\* unless two handlers wrote the list at once.
THEOREM PublishedGroupsStayTracked == IngressSpec => []GroupsStayTracked
<1>1. IngressInit => ChatsOK /\ GroupsStayTracked
  BY DEF IngressInit, ChatsOK, GroupsStayTracked
<1>2. ASSUME IngressTypeOK, CallsOK, ChatsOK, GroupsStayTracked, [IngressNext]_ingressVars
      PROVE  ChatsOK' /\ GroupsStayTracked'
  <2>1. CASE IngressNext
    <3>1. PICK h \in Hooks : HookNext(h)
      BY <2>1 DEF IngressNext
    <3>2. /\ \A g \in Hooks \ {h} :
                /\ step'[g] = step[g] /\ owner'[g] = owner[g] /\ copy'[g] = copy[g]
                /\ Current(g)' = Current(g) /\ Sender(g)' = Sender(g) /\ InGroup(g)' = InGroup(g)
          /\ troubled \subseteq troubled'
          /\ \A g \in Hooks : Sender(g) \in Senders
          /\ Members \subseteq Senders
      BY <1>2, <3>1, Moves, CurrentType, MessagesAssumption DEF Current, Sender, InGroup
    <3>3. /\ \A a \in Senders \ troubled' : chatsOf[a] \subseteq chatsOf'[a]
          /\ \A g \in Hooks \ {h} : step[g] = "channel" /\ owner[g] \notin troubled' =>
                chatsOf'[owner[g]] = chatsOf[owner[g]]
      BY <1>2, <3>1, ChatsGrow
    <3>4. ChatsOK'
      <4>1. \A g \in Hooks \ {h} : step'[g] = "channel" /\ owner'[g] \notin troubled' =>
                copy'[g] = chatsOf'[owner'[g]]
        BY <1>2, <3>2, <3>3 DEF ChatsOK
      <4>2. \A g \in Hooks \ {h} :
                step'[g] = "publish" /\ InGroup(g)' /\ Sender(g)' \in Members \ troubled' =>
                    ChatOf[Current(g)'] \in chatsOf'[Sender(g)']
        BY <1>2, <3>2, <3>3 DEF ChatsOK
      <4> QED
        BY <1>2, <3>1, <4>1, <4>2, HandlerHasChats DEF ChatsOK
    <3>5. GroupsStayTracked'
      <4> SUFFICES ASSUME NEW m \in published', ChatOf[m] \in Groups,
                          SenderOf[m] \in Members \ troubled'
                   PROVE  ChatOf[m] \in chatsOf'[SenderOf[m]]
        BY DEF GroupsStayTracked
      <4>1. ChatOf[m] \in chatsOf[SenderOf[m]]
        <5>1. CASE m \in published
          BY <1>2, <3>2, <5>1 DEF GroupsStayTracked
        <5>2. CASE m \notin published
          BY <1>2, <3>1, <3>2, <5>2, NewlyPublished
        <5> QED
          BY <5>1, <5>2
      <4> QED
        BY <3>2, <3>3, <4>1
    <3> QED
      BY <3>4, <3>5
  <2>2. CASE UNCHANGED ingressVars
    BY <1>2, <2>2 DEF ingressVars, hookVars, accountVars, messageVars, ChatsOK, GroupsStayTracked,
                      Sender, Current, InGroup
  <2> QED
    BY <1>2, <2>1, <2>2
<1> QED
  BY <1>1, <1>2, IngressTypes, PTL DEF IngressSpec

-----------------------------------------------------------------------------
(* Users are greeted once.                                                 *)

\* Only Connect adds an account, only Engage greets, and only Settle takes a
\* user off the newcomers.
LEMMA Greetings ==
    ASSUME IngressTypeOK, CallsOK, NEW h \in Hooks, HookNext(h)
    PROVE  /\ \/ accounts' = accounts
              \/ step[h] = "connect" /\ accounts' = [accounts EXCEPT ![Sender(h)] = @ + 1]
           /\ \/ engaged' = engaged
              \/ /\ step[h] = "engage" /\ greet[h] /\ step'[h] = "settle" /\ Current(h)' = Current(h)
                 /\ engaged' = [engaged EXCEPT ![Recipient(h)] = @ + 1]
           /\ newcomers' \subseteq newcomers
           /\ step[h] = "settle" => Recipient(h) \notin newcomers' \ troubled'
<1> USE DEF accountVars, GoTo, Return, At
<1>0. h \in DOMAIN step
  BY DEF IngressTypeOK
<1>1. CASE CallHook(h)
  BY <1>1 DEF CallHook, CallsOK
<1>2. CASE Lookup(h)
  BY <1>2 DEF Lookup, Follow, Handshake, Known
<1>3. CASE Connect(h)
  BY <1>3 DEF Connect
<1>4. CASE Welcome(h)
  BY <1>4 DEF Welcome
<1>5. CASE Engage(h)
  BY <1>0, <1>5 DEF Engage, Current
<1>6. CASE Settle(h)
  BY <1>6 DEF Settle
<1>7. CASE Channel(h)
  BY <1>7 DEF Channel
<1>8. CASE Pass(h)
  BY <1>8 DEF Pass
<1>9. CASE OneCall(h)
  BY <1>9 DEF OneCall, SharesNothing
<1>10. CASE FailCall(h)
  BY <1>10 DEF FailCall
<1>11. CASE LoseAnswer(h)
  BY <1>11 DEF LoseAnswer, CallsOK
<1>12. CASE LoseUser(h)
  BY <1>12 DEF LoseUser
<1> QED
  BY StepCases, <1>1, <1>2, <1>3, <1>4, <1>5, <1>6, <1>7, <1>8, <1>9, <1>10, <1>11, <1>12

\* A handler greets on with what it read, or begins to.
LEMMA GreetsOn ==
    ASSUME IngressTypeOK, CallsOK, NEW h \in Hooks, HookNext(h), step'[h] \in GreetSteps
    PROVE  /\ Current(h)' = Current(h) /\ Sender(h)' = Sender(h) /\ Recipient(h)' = Recipient(h)
           /\ \/ /\ step[h] \in GreetSteps /\ greet'[h] = greet[h]
                 /\ step'[h] # "connect" /\ (step[h] = "settle" => step'[h] = "settle")
              \/ /\ Handshake(h) /\ step[h] = "lookup" /\ step'[h] = "connect"
                 /\ UNCHANGED <<accounts, engaged>>
<1> USE DEF GoTo, Return, At, GreetSteps, Current, Sender, Recipient
<1>0. h \in DOMAIN step /\ h \in DOMAIN answer
  BY DEF IngressTypeOK
<1>1. CASE Connect(h)
  BY <1>0, <1>1 DEF Connect
<1>2. CASE Welcome(h)
  BY <1>0, <1>2 DEF Welcome
<1>3. CASE Engage(h)
  BY <1>0, <1>3 DEF Engage
<1>4. CASE Lookup(h)
  <2>1. ~Follow(h)
    BY <1>0 DEF Follow
  <2>2. ~(Known(h) /\ (GoTo(h, "channel") \/ GoTo(h, "publish")))
    BY <1>0
  <2>3. Handshake(h)
    BY <1>4, <2>1, <2>2 DEF Lookup
  <2> QED
    BY <1>0, <1>4, <2>3 DEF Handshake, Lookup
<1>5. ~(Settle(h) \/ CallHook(h) \/ Channel(h) \/ OneCall(h) \/ FailCall(h) \/ LoseUser(h))
  BY <1>0 DEF Settle, CallHook, Channel, OneCall, FailCall, LoseUser
<1>6. ~Pass(h)
  BY <1>0 DEF Pass, NextMessage
<1>7. ~LoseAnswer(h)
  BY <1>0 DEF LoseAnswer, CallsOK
<1> QED
  BY StepCases, <1>1, <1>2, <1>3, <1>4, <1>5, <1>6, <1>7

\* What a handshake finds when no other handler greets its user.
LEMMA HandshakeFinds ==
    ASSUME IngressTypeOK, GreetingsOK, NEW h \in Hooks, Handshake(h), step'[h] = "connect",
           step[h] = "lookup"
    PROVE  /\ \A g \in Hooks : step[g] \in GreetSteps /\ Recipient(g) = Recipient(h) =>
                 Recipient(h) \in troubled' /\ Sender(h) \in troubled'
           /\ accounts[Sender(h)] = 0
           /\ greet'[h] /\ Recipient(h) \notin troubled' => engaged[Recipient(h)] = 0
<1>0. /\ Sender(h) \in Senders /\ Recipient(h) \in Owners /\ accounts \in [Senders -> Nat]
      /\ h \in DOMAIN step /\ h \in DOMAIN greet
  BY CurrentType DEF IngressTypeOK
<1>1. KindOf[Current(h)] = "handshake"
  BY <1>0 DEF Handshake, Return
<1>2. /\ greet' = [greet EXCEPT ![h] = Recipient(h) \in newcomers]
      /\ troubled' = IF Greeting(Recipient(h)) = {} THEN troubled
                     ELSE troubled \cup {Recipient(h), Sender(h)}
  BY <1>1 DEF Handshake
<1>3. accounts[Sender(h)] = 0
  BY <1>0 DEF Handshake, Connected
<1>4. ASSUME NEW g \in Hooks, step[g] \in GreetSteps, Recipient(g) = Recipient(h)
      PROVE  Recipient(h) \in troubled' /\ Sender(h) \in troubled'
  <2>1. g \in Greeting(Recipient(h))
    BY <1>4 DEF Greeting, GreetSteps
  <2> QED
    BY <1>2, <2>1
<1>5. ASSUME greet'[h], Recipient(h) \notin troubled'
      PROVE  engaged[Recipient(h)] = 0
  <2>1. Recipient(h) \in newcomers
    BY <1>0, <1>2, <1>5
  <2>2. Recipient(h) \notin troubled
    BY <1>2, <1>5
  <2>3. ~\E g \in Hooks : step[g] = "settle" /\ Recipient(g) = Recipient(h)
    BY <1>4, <1>5 DEF GreetSteps
  <2> QED
    BY <2>1, <2>2, <2>3 DEF GreetingsOK
<1> QED
  BY <1>3, <1>4, <1>5

LEMMA GreetingStep ==
    ASSUME IngressTypeOK, CallsOK, GreetingsOK, GreetedOnce, NEW h \in Hooks, HookNext(h)
    PROVE  GreetingsOK' /\ GreetedOnce'
<1>0. /\ \A g \in Hooks \ {h} :
            /\ step'[g] = step[g] /\ greet'[g] = greet[g]
            /\ Sender(g)' = Sender(g) /\ Recipient(g)' = Recipient(g)
      /\ troubled \subseteq troubled'
      /\ \A g \in Hooks : Sender(g) \in Senders /\ Recipient(g) = UserOf[Sender(g)] /\ Recipient(g) \in Owners
      /\ accounts \in [Senders -> Nat] /\ engaged \in [Owners -> Nat]
  BY Moves, CurrentType DEF IngressTypeOK, Current, Sender, Recipient
\* No two handlers greet one user or connect one account out of trouble.
<1>1. ASSUME NEW g \in Hooks \ {h}, step[g] \in GreetSteps, step'[h] \in GreetSteps
      PROVE  /\ Recipient(g) = Recipient(h) => Recipient(h) \in troubled'
             /\ Sender(g) = Sender(h) => Sender(h) \in troubled'
  <2>1. CASE step[h] \in GreetSteps
    BY <1>0, <1>1, <2>1 DEF GreetingsOK
  <2>2. CASE Handshake(h) /\ step[h] = "lookup" /\ step'[h] = "connect"
    BY <1>0, <1>1, <2>2, HandshakeFinds
  <2> QED
    BY <1>1, <2>1, <2>2, GreetsOn
<1>2. \A g, k \in Hooks : g # k /\ step'[g] \in GreetSteps /\ step'[k] \in GreetSteps =>
          /\ Recipient(g)' = Recipient(k)' => Recipient(k)' \in troubled'
          /\ Sender(g)' = Sender(k)' => Sender(k)' \in troubled'
  <2>1. step'[h] \in GreetSteps => Recipient(h)' = Recipient(h) /\ Sender(h)' = Sender(h)
    BY GreetsOn
  <2> SUFFICES ASSUME NEW g \in Hooks, NEW k \in Hooks, g # k,
                      step'[g] \in GreetSteps, step'[k] \in GreetSteps
               PROVE  /\ Recipient(g)' = Recipient(k)' => Recipient(k)' \in troubled'
                      /\ Sender(g)' = Sender(k)' => Sender(k)' \in troubled'
    OBVIOUS
  <2>2. CASE g # h /\ k # h
    BY <1>0, <2>2 DEF GreetingsOK
  <2>3. CASE k = h
    BY <1>0, <1>1, <2>1, <2>3
  <2>4. CASE g = h
    BY <1>0, <1>1, <2>1, <2>4
  <2> QED
    BY <2>2, <2>3, <2>4
<1>3. \A g \in Hooks : step'[g] = "connect" /\ Sender(g)' \notin troubled' =>
          accounts'[Sender(g)'] = 0
  <2>1. ASSUME NEW g \in Hooks \ {h}, step'[g] = "connect", Sender(g)' \notin troubled'
        PROVE  accounts'[Sender(g)'] = 0
    <3>1. accounts[Sender(g)] = 0 /\ step[g] \in GreetSteps
      BY <1>0, <2>1 DEF GreetingsOK, GreetSteps
    <3>2. CASE accounts' = accounts
      BY <1>0, <3>1, <3>2
    <3>3. CASE step[h] = "connect" /\ accounts' = [accounts EXCEPT ![Sender(h)] = @ + 1]
      <4>1. Sender(g) # Sender(h)
        BY <1>0, <2>1, <3>1, <3>3 DEF GreetingsOK, GreetSteps
      <4> QED
        BY <1>0, <3>1, <3>3, <4>1
    <3> QED
      BY <3>2, <3>3, Greetings
  <2>2. ASSUME step'[h] = "connect"
        PROVE  accounts'[Sender(h)'] = 0
    <3>1. Handshake(h) /\ accounts' = accounts /\ Sender(h)' = Sender(h)
      BY <2>2, GreetsOn DEF GreetSteps
    <3>2. accounts[Sender(h)] = 0
      BY <1>0, <3>1 DEF Handshake, Connected
    <3> QED
      BY <3>1, <3>2
  <2> QED
    BY <2>1, <2>2
<1>4. \A g \in Hooks :
          step'[g] \in GreetSteps \ {"settle"} /\ greet'[g] /\ Recipient(g)' \notin troubled' =>
              engaged'[Recipient(g)'] = 0
  <2>1. ASSUME NEW g \in Hooks \ {h}, step'[g] \in GreetSteps \ {"settle"}, greet'[g],
               Recipient(g)' \notin troubled'
        PROVE  engaged'[Recipient(g)'] = 0
    <3>1. engaged[Recipient(g)] = 0 /\ step[g] \in GreetSteps
      BY <1>0, <2>1 DEF GreetingsOK
    <3>2. CASE engaged' = engaged
      BY <1>0, <3>1, <3>2
    <3>3. CASE step[h] = "engage" /\ engaged' = [engaged EXCEPT ![Recipient(h)] = @ + 1]
      <4>1. Recipient(g) # Recipient(h)
        BY <1>0, <2>1, <3>1, <3>3 DEF GreetingsOK, GreetSteps
      <4> QED
        BY <1>0, <3>1, <3>3, <4>1
    <3> QED
      BY <3>2, <3>3, Greetings
  <2>2. ASSUME step'[h] \in GreetSteps \ {"settle"}, greet'[h], Recipient(h)' \notin troubled'
        PROVE  engaged'[Recipient(h)'] = 0
    <3>1. Recipient(h)' = Recipient(h) /\ step'[h] \in GreetSteps
      BY <2>2, GreetsOn
    <3>2. CASE step[h] \in GreetSteps /\ greet'[h] = greet[h] /\ (step[h] = "settle" => step'[h] = "settle")
      <4>1. engaged[Recipient(h)] = 0
        BY <1>0, <2>2, <3>1, <3>2 DEF GreetingsOK
      <4>2. engaged' = engaged
        BY <2>2, Greetings DEF GreetSteps
      <4> QED
        BY <3>1, <4>1, <4>2
    <3>3. CASE Handshake(h) /\ step[h] = "lookup" /\ step'[h] = "connect" /\ engaged' = engaged
      BY <2>2, <3>1, <3>3, HandshakeFinds
    <3> QED
      BY <3>1, <3>2, <3>3, GreetsOn
  <2> QED
    BY <2>1, <2>2
<1>5. \A u \in newcomers' \ troubled' :
          engaged'[u] = 0 \/ \E g \in Hooks : step'[g] = "settle" /\ Recipient(g)' = u
  <2> SUFFICES ASSUME NEW u \in newcomers' \ troubled', engaged'[u] # 0
               PROVE  \E g \in Hooks : step'[g] = "settle" /\ Recipient(g)' = u
    OBVIOUS
  <2>1. u \in newcomers \ troubled
    BY <1>0, Greetings
  <2>2. CASE engaged' = engaged
    <3>1. PICK g \in Hooks : step[g] = "settle" /\ Recipient(g) = u
      BY <2>1, <2>2 DEF GreetingsOK
    <3>2. g # h
      BY <3>1, Greetings
    <3> QED
      BY <1>0, <3>1, <3>2
  <2>3. CASE /\ step'[h] = "settle" /\ Current(h)' = Current(h)
             /\ engaged' = [engaged EXCEPT ![Recipient(h)] = @ + 1]
    <3>1. Recipient(h)' = Recipient(h)
      BY <2>3 DEF Recipient, Sender
    <3>2. CASE u = Recipient(h)
      BY <2>3, <3>1, <3>2
    <3>3. CASE u # Recipient(h)
      <4>1. PICK g \in Hooks : step[g] = "settle" /\ Recipient(g) = u
        BY <1>0, <2>1, <2>3, <3>3 DEF GreetingsOK
      <4> QED
        BY <1>0, <3>3, <4>1
    <3> QED
      BY <3>2, <3>3
  <2> QED
    BY <2>2, <2>3, Greetings
<1>6. GreetedOnce'
  <2>1. \A a \in Senders \ troubled' : accounts'[a] \leq 1
    <3>1. CASE accounts' = accounts
      BY <1>0, <3>1 DEF GreetedOnce
    <3>2. CASE step[h] = "connect" /\ accounts' = [accounts EXCEPT ![Sender(h)] = @ + 1]
      BY <1>0, <3>2 DEF GreetedOnce, GreetingsOK
    <3> QED
      BY <3>1, <3>2, Greetings
  <2>2. \A u \in Owners \ troubled' : engaged'[u] \leq 1
    <3>1. CASE engaged' = engaged
      BY <1>0, <3>1 DEF GreetedOnce
    <3>2. CASE step[h] = "engage" /\ greet[h] /\ engaged' = [engaged EXCEPT ![Recipient(h)] = @ + 1]
      BY <1>0, <3>2 DEF GreetedOnce, GreetingsOK, GreetSteps
    <3> QED
      BY <3>1, <3>2, Greetings
  <2> QED
    BY <2>1, <2>2 DEF GreetedOnce
<1> QED
  BY <1>2, <1>3, <1>4, <1>5, <1>6 DEF GreetingsOK

\* An account is connected once and a user sent one first interaction
\* (integration_service.py:200-231, engagement_service.py:4-57), unless two
\* handshakes were handled at once or the flag was not cleared.
THEOREM UsersAreGreetedOnce == IngressSpec => []GreetedOnce
<1>1. IngressInit => GreetingsOK /\ GreetedOnce
  <2> SUFFICES ASSUME IngressInit PROVE GreetingsOK /\ GreetedOnce
    OBVIOUS
  <2>1. \A u \in Owners : engaged[u] = 0
    BY DEF IngressInit
  <2>2. newcomers \subseteq Owners
    BY MessagesAssumption DEF IngressInit
  <2> QED
    BY <2>1, <2>2 DEF IngressInit, GreetingsOK, GreetedOnce, GreetSteps
<1>2. ASSUME IngressTypeOK, CallsOK, GreetingsOK, GreetedOnce, [IngressNext]_ingressVars
      PROVE  GreetingsOK' /\ GreetedOnce'
  <2>1. CASE IngressNext
    BY <1>2, <2>1, GreetingStep DEF IngressNext
  <2>2. CASE UNCHANGED ingressVars
    BY <1>2, <2>2 DEF ingressVars, hookVars, accountVars, messageVars, GreetingsOK, GreetedOnce,
                      Recipient, Sender, Current
  <2> QED
    BY <1>2, <2>1, <2>2
<1> QED
  BY <1>1, <1>2, IngressTypes, PTL DEF IngressSpec

-----------------------------------------------------------------------------
(* Messages that are sent *)


\* The chat of the integration is the first one, and known to turns of Telegram.
HomeOK ==
    /\ home = first
    /\ stage # "idle" =>
          /\ turn \in [source : Sources, origin : Platforms, chat : Rooms,
                      asked : SUBSET Rooms]
          /\ turn.source = "telegram" => home # "nowhere"
          /\ turn.source = "mcp" => client # "none"

\* Between two turns nothing is being sent, and nothing was yet.
IdleOK == stage = "idle" => message = NoMessage /\ shown = {} /\ promised = {}

\* Messages are numbered; what was promised is of an earlier message.
NumbersOK ==
    /\ \A q \in promised \cup ShownItems : q.n <= sends
    /\ stage \in {"answered", "sending"} =>
          message.platform \in Platforms /\ \A q \in promised : q.n < sends

\* Calls are only made to a chat that was found.
SendsOK ==
    stage = "sending" =>
        /\ calls # <<>> => ChatFor(message) # "nowhere"
        /\ message.platform = "discord" => ToSet(calls) \subseteq {"head"}

\* What is taken as streamed is an answer on the web.
StreamedOK == stage = "answered" /\ streamed => message.platform = "websocket"

\* What a tool is about to report is shown, or still to be sent.
ClaimsOK ==
    stage = "sending" /\ message.by \notin Worker /\ Reaches(message.platform) =>
        \A q \in Items(Claimed(message)) :
            q \in ShownItems \cup undelivered \/ Passed(q) \/ q.kind \in ToSet(calls)

\* An answer is stored before it is sent.
SavedOK ==
    /\ stage = "running" => message.by \notin Worker
    /\ stage = "answered" => message.by = "worker"
    /\ stage \in {"sending", "over"} /\ message.by = "worker" => Item("head") \in saved

EgressInv ==
    /\ EgressTypeOK /\ HomeOK /\ IdleOK /\ NumbersOK /\ SendsOK /\ StreamedOK /\ ClaimsOK
    /\ SavedOK /\ PrivateStaysPrivate /\ ReportedIsShown

-----------------------------------------------------------------------------
(* Sequences and messages.                                                 *)

LEMMA SetOfConcat ==
    ASSUME NEW S, NEW s \in Seq(S), NEW t \in Seq(S)
    PROVE  s \o t \in Seq(S) /\ ToSet(s \o t) = ToSet(s) \cup ToSet(t)
<1>1. s \o t \in Seq(S) /\ Len(s \o t) = Len(s) + Len(t)
  OBVIOUS
<1>2. \A i \in 1 .. Len(s) : (s \o t)[i] = s[i]
  OBVIOUS
<1>3. \A i \in 1 .. Len(t) : (s \o t)[Len(s) + i] = t[i]
  OBVIOUS
<1>4. \A i \in 1 .. Len(s \o t) : i \in 1 .. Len(s) \/ i - Len(s) \in 1 .. Len(t)
  BY <1>1
<1>5. ToSet(s \o t) \subseteq ToSet(s) \cup ToSet(t)
  <2> SUFFICES ASSUME NEW i \in 1 .. Len(s \o t)
               PROVE  (s \o t)[i] \in ToSet(s) \cup ToSet(t)
    BY <1>1 DEF ToSet
  <2>1. CASE i \in 1 .. Len(s)
    BY <1>2, <2>1 DEF ToSet
  <2>2. CASE i - Len(s) \in 1 .. Len(t)
    <3>1. (s \o t)[Len(s) + (i - Len(s))] = t[i - Len(s)]
      BY <1>3, <2>2
    <3> QED
      BY <3>1, <2>2 DEF ToSet
  <2> QED
    BY <1>4, <2>1, <2>2
<1>6. ToSet(s) \subseteq ToSet(s \o t)
  BY <1>1, <1>2 DEF ToSet
<1>7. ToSet(t) \subseteq ToSet(s \o t)
  <2> SUFFICES ASSUME NEW i \in 1 .. Len(t) PROVE t[i] \in ToSet(s \o t)
    BY DEF ToSet
  <2>1. Len(s) + i \in 1 .. Len(s \o t)
    BY <1>1
  <2> QED
    BY <1>1, <1>3, <2>1 DEF ToSet
<1> QED
  BY <1>1, <1>5, <1>6, <1>7

LEMMA SetOfTail ==
    ASSUME NEW S, NEW s \in Seq(S), s # <<>>
    PROVE  Tail(s) \in Seq(S) /\ Head(s) \in S /\ ToSet(s) = {Head(s)} \cup ToSet(Tail(s))
<1>1. Tail(s) \in Seq(S) /\ Len(Tail(s)) = Len(s) - 1 /\ Head(s) = s[1] /\ Len(s) > 0
  OBVIOUS
<1>2. \A i \in 1 .. Len(Tail(s)) : Tail(s)[i] = s[i + 1]
  OBVIOUS
<1>3. ToSet(s) \subseteq {Head(s)} \cup ToSet(Tail(s))
  <2> SUFFICES ASSUME NEW i \in 1 .. Len(s), i # 1 PROVE s[i] \in ToSet(Tail(s))
    BY <1>1 DEF ToSet
  <2>1. i - 1 \in 1 .. Len(Tail(s)) /\ (i - 1) + 1 = i
    BY <1>1
  <2>2. Tail(s)[i - 1] = s[i]
    BY <1>2, <2>1
  <2>3. DOMAIN Tail(s) = 1 .. Len(Tail(s))
    BY <1>1
  <2> QED
    BY <2>1, <2>2, <2>3, Zenon DEF ToSet
<1>4. \A i \in 1 .. Len(Tail(s)) : i + 1 \in 1 .. Len(s)
  BY <1>1
<1> QED
  BY <1>1, <1>2, <1>3, <1>4 DEF ToSet

LEMMA SetOfNone == <<>> \in Seq(Kinds) /\ ToSet(<<>>) = {}
  BY DEF ToSet

LEMMA SetOfFew ==
    ASSUME NEW a \in Kinds, NEW b \in Kinds
    PROVE  /\ <<>> \in Seq(Kinds) /\ ToSet(<<>>) = {}
           /\ <<a>> \in Seq(Kinds) /\ ToSet(<<a>>) = {a}
           /\ <<a, b>> \in Seq(Kinds) /\ ToSet(<<a, b>>) = {a, b}
<1>1. <<>> \in Seq(Kinds) /\ ToSet(<<>>) = {}
  BY DEF ToSet
<1>2. <<a>> \in Seq(Kinds) /\ ToSet(<<a>>) = {a}
  BY DEF ToSet
<1>3. <<a, b>> \in Seq(Kinds) /\ DOMAIN <<a, b>> = {1, 2}
  OBVIOUS
<1>4. <<a, b>>[1] = a /\ <<a, b>>[2] = b
  OBVIOUS
<1>5. ToSet(<<a, b>>) = {a, b}
  BY <1>3, <1>4, Zenon DEF ToSet
<1> QED
  BY <1>1, <1>2, <1>3, <1>5

\* The calls of a message bring its texts, its location or its file.
LEMMA CallsType ==
    ASSUME NEW m \in MessageType
    PROVE  /\ CallsOf(m) \in Seq(Kinds) /\ Claimed(m) \subseteq Kinds
           /\ ToSet(Texts(m)) \subseteq ToSet(CallsOf(m))
           /\ Places(m) /\ m.place = "share" => "location" \in ToSet(CallsOf(m))
           /\ ~Places(m) /\ m.file /\ m.platform \notin {"discord", "email"} =>
                 "file" \in ToSet(CallsOf(m))
           /\ m.platform = "discord" => ToSet(CallsOf(m)) \subseteq {"head"}
<1> DEFINE where == IF m.place = "share" THEN <<"location">> ELSE <<>>
           file == IF m.file /\ m.platform \notin {"discord", "email"} THEN <<"file">> ELSE <<>>
<1>1. /\ Texts(m) \in Seq(Kinds) /\ ToSet(Texts(m)) \subseteq Kinds
      /\ m.platform = "discord" => ToSet(Texts(m)) = {"head"}
  <2>1. "head" \in Kinds /\ "tail" \in Kinds
    BY DEF Kinds
  <2> QED
    BY <2>1, SetOfFew DEF Texts
<1>2. /\ where \in Seq(Kinds) /\ file \in Seq(Kinds)
      /\ m.place = "share" => "location" \in ToSet(where)
      /\ m.file /\ m.platform \notin {"discord", "email"} => "file" \in ToSet(file)
      /\ m.platform = "discord" => ToSet(file) = {}
  <2>1. "location" \in Kinds /\ "file" \in Kinds
    BY DEF Kinds
  <2> QED
    BY <2>1, SetOfFew
<1>3. CallsOf(m) = IF Places(m) THEN Texts(m) \o where ELSE Texts(m) \o file
  BY DEF CallsOf
<1>4. m.platform = "discord" => ~Places(m)
  BY DEF Places, ByRecord
<1> HIDE DEF where, file
<1>5. /\ Texts(m) \o where \in Seq(Kinds) /\ Texts(m) \o file \in Seq(Kinds)
      /\ ToSet(Texts(m) \o where) = ToSet(Texts(m)) \cup ToSet(where)
      /\ ToSet(Texts(m) \o file) = ToSet(Texts(m)) \cup ToSet(file)
  BY <1>1, <1>2, SetOfConcat
<1>6. Claimed(m) \subseteq Kinds
  BY <1>1 DEF Claimed, Kinds
<1> QED
  BY <1>1, <1>2, <1>3, <1>4, <1>5, <1>6

\* A message for whom a tool reports a success has a chat, where the user is
\* reached.
LEMMA ChatTypes ==
    ASSUME EgressTypeOK, NEW m \in MessageType
    PROVE  ChatFor(m) \in Rooms \cup {"nowhere"}
<1>1. turn.chat \in Rooms \cup {"nowhere"}
  BY DEF EgressTypeOK, NoTurn
<1>2. /\ TelegramChat(m) \in Rooms \cup {"nowhere"}
      /\ EventChat(m) \in Rooms \cup {"nowhere"}
  BY <1>1 DEF TelegramChat, EventChat, EgressTypeOK, MessageType, Rooms
<1>3. /\ WhatsAppChat(m) \in Rooms \cup {"nowhere"}
      /\ IMessageChat(m) \in Rooms \cup {"nowhere"}
  BY <1>1 DEF WhatsAppChat, IMessageChat, Rooms
<1> QED
  BY <1>2, <1>3 DEF ChatFor

LEMMA ReachedHasChat ==
    ASSUME EgressTypeOK, HomeOK, stage # "idle", NEW m \in MessageType,
           m.by \notin Worker, m.platform \in Platforms, Reaches(m.platform)
    PROVE  ChatFor(m) # "nowhere"
<1>1. turn.chat \in Rooms /\ "nowhere" \notin Rooms
  BY DEF HomeOK, Rooms
<1>2. CASE m.platform = "telegram"
  <2>1. TelegramChat(m) # "nowhere"
    BY <1>1, <1>2 DEF TelegramChat, Reaches, HomeOK
  <2> QED
    BY <1>2, <2>1 DEF ChatFor
<1>3. CASE m.platform \in {"whatsapp", "imessage"}
  BY <1>3 DEF ChatFor, WhatsAppChat, IMessageChat
<1>4. CASE m.platform \notin {"telegram", "whatsapp", "imessage"}
  BY <1>1, <1>4 DEF ChatFor, EventChat, Reaches
<1> QED
  BY <1>2, <1>3, <1>4

LEMMA ItemTypes ==
    ASSUME EgressTypeOK, NEW k \in Kinds
    PROVE  Item(k) \in ItemType /\ Item(k).n = sends /\ Item(k).kind = k /\ Item(k).of = message
  BY DEF Item, ItemType, EgressTypeOK

\* What a tool will claim of a message and a call will not bring is passed over.
LEMMA ClaimedIsCalled ==
    ASSUME NEW m \in MessageType, Reaches(m.platform), NEW q, q.of = m, q.kind \in Claimed(m)
    PROVE  Passed(q) \/ q.kind \in ToSet(CallsOf(m))
<1>1. CASE q.kind \in ToSet(Texts(m))
  BY <1>1, CallsType
<1>2. CASE q.kind = "file" /\ m.file
  BY <1>2, CallsType DEF Passed, Reaches
<1>3. CASE q.kind = "location" /\ m.place = "share"
  BY <1>3, CallsType DEF Passed, Places
<1>4. CASE q.kind = "location" /\ m.place = "missed"
  BY <1>4 DEF Passed
<1> QED
  BY <1>1, <1>2, <1>3, <1>4 DEF Claimed

-----------------------------------------------------------------------------
(* The calls of a message.                                                 *)

\* What may be shown by calls.
Showable ==
    {Shown(k, FALSE) : k \in ToSet(calls)} \cup {Shown(k, TRUE) : k \in ToSet(calls)}

\* A call takes items off the list of calls: they are shown, or a call failed,
\* or they are passed over.  What was shown stays, but for what the one message
\* of an interaction replaces.
CallFrame ==
    /\ stage = "sending" /\ calls # <<>>
    /\ UNCHANGED <<turn, stage, message, sends, flags, home, first, web, promised, saved>>
    /\ client' = client \/ (client = "waiting" /\ client' = "answered")
    /\ errors' \in 0 .. MaxErrors
    /\ calls' \in {<<>>, Tail(calls)}

CallShows ==
    /\ shown' \subseteq shown \cup Showable
    /\ undelivered \subseteq undelivered'
    /\ undelivered' \subseteq undelivered \cup Items(ToSet(calls))
    /\ \A q \in ShownItems \ ShownItems' :
          /\ q.of.platform = "discord" /\ message.platform = "discord"
          /\ Item("head") \in ShownItems'
    /\ message.by \notin Worker /\ Reaches(message.platform) =>
          \A q \in Items(ToSet(calls)) :
              \/ q \in ShownItems' \cup undelivered'
              \/ Passed(q)'
              \/ q.kind \in ToSet(calls')

LEMMA CallKeeps == ASSUME EgressInv, CallFrame, CallShows PROVE EgressInv'
<1>1. /\ calls \in Seq(Kinds) /\ Tail(calls) \in Seq(Kinds) /\ calls' \in Seq(Kinds)
      /\ ToSet(calls) \subseteq Kinds /\ ToSet(calls') \subseteq ToSet(calls)
  <2>1. calls \in Seq(Kinds) /\ ToSet(calls) \subseteq Kinds
    BY DEF EgressInv, EgressTypeOK, ToSet
  <2>2. Tail(calls) \in Seq(Kinds) /\ ToSet(Tail(calls)) \subseteq ToSet(calls)
    BY <2>1, SetOfTail DEF CallFrame
  <2> QED
    BY <2>1, <2>2, SetOfNone DEF CallFrame
<1>2. /\ ChatFor(message) \in Rooms /\ ChatFor(message)' = ChatFor(message)
      /\ \A k \in Kinds : Item(k)' = Item(k)
      /\ \A p \in Platforms : Reaches(p)' = Reaches(p)
  BY ChatTypes DEF EgressInv, EgressTypeOK, SendsOK, CallFrame, ChatFor, TelegramChat, WhatsAppChat,
                   IMessageChat, EventChat, Item, Reaches
<1>3. \A k \in ToSet(calls) :
         /\ Item(k) \in ItemType /\ Item(k).n = sends /\ Item(k).of = message
         /\ Item(k).kind = k
  BY <1>1, ItemTypes DEF EgressInv
<1>4. EgressTypeOK'
  <2>1. shown' \subseteq [item : ItemType, chat : Rooms, plain : BOOLEAN]
    <3>1. \A k \in ToSet(calls) :
             /\ Shown(k, FALSE) \in [item : ItemType, chat : Rooms, plain : BOOLEAN]
             /\ Shown(k, TRUE) \in [item : ItemType, chat : Rooms, plain : BOOLEAN]
      BY <1>2, <1>3 DEF Shown
    <3>2. shown \subseteq [item : ItemType, chat : Rooms, plain : BOOLEAN]
      BY DEF EgressInv, EgressTypeOK
    <3>3. Showable \subseteq [item : ItemType, chat : Rooms, plain : BOOLEAN]
      BY <3>1 DEF Showable
    <3> QED
      BY <3>2, <3>3 DEF CallShows
  <2>2. undelivered' \subseteq ItemType
    BY <1>3 DEF EgressInv, EgressTypeOK, CallShows, Items
  <2>3. client' \in {"none", "waiting", "answered", "gone"}
    BY DEF EgressInv, EgressTypeOK, CallFrame
  <2> QED
    BY <1>1, <2>1, <2>2, <2>3 DEF EgressInv, EgressTypeOK, CallFrame, flags
<1>5. HomeOK' /\ IdleOK' /\ SendsOK' /\ StreamedOK' /\ SavedOK'
  <2>0. IdleOK' /\ StreamedOK'
    BY DEF IdleOK, StreamedOK, CallFrame
  <2>1. HomeOK'
    BY DEF EgressInv, HomeOK, CallFrame
  <2>2. SendsOK'
    BY <1>1, <1>2 DEF EgressInv, EgressTypeOK, SendsOK, CallFrame
  <2>3. SavedOK'
    BY <1>2 DEF EgressInv, SavedOK, CallFrame, Kinds
  <2> QED
    BY <2>0, <2>1, <2>2, <2>3
<1>6. \A q \in ShownItems' : q \in ShownItems \/ \E k \in ToSet(calls) : q = Item(k)
  BY DEF CallShows, ShownItems, Showable, Shown
<1>7. NumbersOK'
  <2>1. \A q \in promised' \cup ShownItems' : q.n <= sends'
    BY <1>3, <1>6 DEF EgressInv, EgressTypeOK, NumbersOK, CallFrame
  <2> QED
    BY <2>1 DEF EgressInv, NumbersOK, CallFrame
<1>8. PrivateStaysPrivate'
  <2>1. ChatFor(message) = "group" =>
          \/ message.platform = turn.source /\ turn.chat = "group"
          \/ message.target = "group"
          \/ message.platform = "telegram" /\ first = "group"
    BY DEF EgressInv, HomeOK, CallFrame, ChatFor, TelegramChat, WhatsAppChat, IMessageChat, EventChat
  <2>2. \A e \in shown' : e \in shown \/ (e.chat = ChatFor(message) /\ e.item.of = message)
    BY <1>3 DEF CallShows, Showable, Shown
  <2> QED
    BY <2>1, <2>2 DEF EgressInv, PrivateStaysPrivate, BehindGroup, CallFrame
<1>9. ASSUME NEW q \in ItemType, q.n <= sends, Passed(q)
      PROVE  Passed(q)'
  <2>1. Replaced(q) => Replaced(q)'
    <3> SUFFICES ASSUME NEW r \in ShownItems, r.n > q.n
                 PROVE  \E t \in ShownItems' : t.n > q.n
      BY DEF Replaced
    <3>1. r.n <= sends /\ r.n \in Nat /\ q.n \in Nat /\ sends \in Nat
      BY DEF EgressInv, EgressTypeOK, NumbersOK, ShownItems, ItemType
    <3>2. CASE r \in ShownItems'
      BY <3>2
    <3>3. CASE r \notin ShownItems'
      <4>1. Item("head") \in ShownItems' /\ Item("head").n = sends
        BY <3>3, ItemTypes DEF CallShows, EgressInv, Kinds
      <4> QED
        BY <3>1, <4>1
    <3> QED
      BY <3>2, <3>3
  <2> QED
    BY <1>9, <2>1 DEF Passed, CallFrame, Places
<1>10. ClaimsOK'
  <2> SUFFICES ASSUME message.by \notin Worker, Reaches(message.platform),
                      NEW q \in Items(Claimed(message))
               PROVE  \/ q \in ShownItems' \cup undelivered'
                      \/ Passed(q)'
                      \/ q.kind \in ToSet(calls')
    <3>1. Items(Claimed(message))' = Items(Claimed(message))
      BY DEF CallFrame, Items, Item, Claimed, Texts
    <3>2. message.platform \in Platforms
      BY DEF EgressInv, NumbersOK, CallFrame
    <3> QED
      BY <1>2, <3>1, <3>2 DEF ClaimsOK, CallFrame
  <2>0. /\ q \in ItemType /\ q.n = sends /\ sends \in Nat
        /\ q.of = message /\ q.kind \in Claimed(message) /\ q = Item(q.kind)
    BY CallsType, ItemTypes DEF EgressInv, EgressTypeOK, Items
  <2>1. CASE q \in ShownItems \ ShownItems'
    <3>1. message.platform = "discord" /\ Item("head") \in ShownItems'
      BY <2>1 DEF CallShows
    <3>2. q.kind # "head"
      BY <2>0, <2>1, <3>1
    <3>3. Passed(q)
      BY <2>0, <3>1, <3>2, SetOfFew DEF Claimed, Texts, Passed, ByRecord, Kinds
    <3> QED
      BY <1>9, <2>0, <3>3
  <2>2. CASE Passed(q)
    BY <1>9, <2>0, <2>2
  <2>3. CASE q.kind \in ToSet(calls)
    <3>1. q \in Items(ToSet(calls))
      BY <2>0, <2>3 DEF Items
    <3> QED
      BY <3>1 DEF CallShows
  <2>4. CASE q \in undelivered \cup (ShownItems \cap ShownItems')
    BY <2>4 DEF CallShows
  <2> QED
    BY <2>1, <2>2, <2>3, <2>4 DEF EgressInv, ClaimsOK, CallFrame
<1>11. ReportedIsShown'
  <2> SUFFICES ASSUME NEW q \in promised, Reaches(q.of.platform)'
               PROVE  q \in ShownItems' \cup undelivered' \/ Passed(q)'
    BY DEF ReportedIsShown, CallFrame
  <2>0. q \in ItemType /\ q.n \in Nat /\ q.n < sends /\ sends \in Nat
    BY DEF EgressInv, EgressTypeOK, NumbersOK, CallFrame, ItemType
  <2>1. Reaches(q.of.platform)
    BY DEF Reaches, CallFrame
  <2>2. CASE q \in ShownItems \ ShownItems'
    <3>1. q.of.platform = "discord" /\ Item("head") \in ShownItems' /\ Item("head").n = sends
      BY <2>2, ItemTypes DEF CallShows, EgressInv, Kinds
    <3> QED
      BY <2>0, <3>1 DEF Passed, Replaced
  <2>3. CASE Passed(q)
    BY <1>9, <2>0, <2>3
  <2>4. CASE q \in undelivered \cup (ShownItems \cap ShownItems')
    BY <2>4 DEF CallShows
  <2> QED
    BY <2>1, <2>2, <2>3, <2>4 DEF EgressInv, ReportedIsShown
<1> QED
  BY <1>4, <1>5, <1>7, <1>8, <1>10, <1>11 DEF EgressInv

LEMMA FirstCall ==
    ASSUME EgressInv, NEW c \in Kinds, Calling(c)
    PROVE  /\ stage = "sending" /\ calls # <<>> /\ c \in ToSet(calls)
           /\ Item(c) \in Items(ToSet(calls))
           /\ \A q \in Items(ToSet(calls)) : q = Item(c) \/ q.kind \in ToSet(Tail(calls))
           /\ Shown(c, FALSE).item = Item(c)
           /\ Shown(c, FALSE) \in Showable /\ Shown(c, TRUE) \in Showable
<1>1. calls \in Seq(Kinds) /\ calls # <<>> /\ Head(calls) = c
  BY DEF EgressInv, EgressTypeOK, Calling
<1>2. ToSet(calls) = {c} \cup ToSet(Tail(calls))
  BY <1>1, SetOfTail
<1>3. \A q \in Items(ToSet(calls)) : q.kind \in ToSet(calls) /\ q = Item(q.kind)
  BY DEF Items, Item
<1>4. Shown(c, FALSE).item = Item(c)
  BY DEF Shown
<1>5. Shown(c, FALSE) \in Showable /\ Shown(c, TRUE) \in Showable
  BY <1>2 DEF Showable
<1> QED
  BY <1>1, <1>2, <1>3, <1>4, <1>5 DEF Calling, Items

LEMMA ShowsMore ==
    ASSUME NEW c \in Kinds, Shown(c, FALSE) \in shown', Shown(c, FALSE).item = Item(c)
    PROVE  /\ Item(c) \in ShownItems'
           /\ shown \subseteq shown' => ShownItems \subseteq ShownItems'
<1>1. ShownItems' = {e.item : e \in shown'} /\ ShownItems = {e.item : e \in shown}
  BY DEF ShownItems
<1> QED
  BY <1>1

\* Each call keeps the invariant.
LEMMA SendingCalls ==
    ASSUME EgressInv, NEW c \in Kinds,
           \/ Succeed(c) \/ PassOver(c) \/ Abandon(c) \/ Stumble(c)
           \/ SendAgain(c) \/ Interact(c) \/ PublishToWeb(c) \/ AnswerClient(c)
    PROVE  EgressInv'
<1> DEFINE first_call ==
             /\ stage = "sending" /\ calls # <<>> /\ c \in ToSet(calls)
             /\ Item(c) \in Items(ToSet(calls))
             /\ \A q \in Items(ToSet(calls)) : q = Item(c) \/ q.kind \in ToSet(Tail(calls))
             /\ Shown(c, FALSE).item = Item(c)
             /\ Shown(c, FALSE) \in Showable /\ Shown(c, TRUE) \in Showable
<1>f. first_call
  <2>1. Calling(c)
    BY DEF Succeed, PassOver, Abandon, Stumble, SendAgain, Interact, PublishToWeb, AnswerClient
  <2> QED
    BY <2>1, FirstCall
<1> USE <1>f
<1>0. errors \in 0 .. MaxErrors /\ (Err => errors' \in 0 .. MaxErrors)
  BY EgressAssumption DEF EgressInv, EgressTypeOK, Err
<1>1. ASSUME Succeed(c) PROVE CallFrame /\ CallShows
  <2>1. Shown(c, FALSE) \in Showable /\ Shown(c, FALSE) \in shown' /\ shown \subseteq shown'
    BY <1>1 DEF Succeed
  <2>2. Item(c) \in ShownItems' /\ ShownItems \subseteq ShownItems'
    BY <2>1, ShowsMore
  <2> QED
    BY <1>0, <1>1, <2>1, <2>2 DEF Succeed, CallFrame, CallShows, KeepsTurn, userVars
<1>2. ASSUME PassOver(c) PROVE CallFrame /\ CallShows
  BY <1>0, <1>2 DEF PassOver, CallFrame, CallShows, KeepsTurn, userVars, ShownItems
<1>3. ASSUME Abandon(c) PROVE CallFrame /\ CallShows
  BY <1>0, <1>3 DEF Abandon, CallFrame, CallShows, KeepsTurn, userVars, ShownItems
<1>4. ASSUME Stumble(c) PROVE CallFrame /\ CallShows
  BY <1>0, <1>4 DEF Stumble, CallFrame, CallShows, KeepsTurn, userVars, ShownItems, Unreadable, Worker
<1>5. ASSUME SendAgain(c) PROVE CallFrame /\ CallShows
  <2>1. /\ Shown(c, FALSE) \in Showable /\ Shown(c, TRUE) \in Showable
        /\ Shown(c, FALSE) \in shown' /\ shown \subseteq shown'
    BY <1>5 DEF SendAgain
  <2>2. Item(c) \in ShownItems' /\ ShownItems \subseteq ShownItems'
    BY <2>1, ShowsMore
  <2> QED
    BY <1>0, <1>5, <2>1, <2>2 DEF SendAgain, CallFrame, CallShows, KeepsTurn, userVars
<1>6. ASSUME Interact(c) PROVE CallFrame /\ CallShows
  <2>1. CallFrame /\ message.platform = "discord" /\ c = "head" /\ ToSet(calls) = {"head"}
    BY <1>0, <1>6 DEF Interact, CallFrame, KeepsTurn, userVars, EgressInv, SendsOK
  <2>2. CASE shown' = {e \in shown : e.item.of.platform # "discord"} \cup {Shown(c, FALSE)}
                 /\ UNCHANGED <<undelivered, errors>>
    <3>1. Shown(c, FALSE) \in Showable /\ Shown(c, FALSE) \in shown'
      BY <2>2
    <3>2. Item(c) \in ShownItems'
      BY <3>1, ShowsMore
    <3>3. \A q \in ShownItems \ ShownItems' : q.of.platform = "discord"
      BY <2>2 DEF ShownItems
    <3>4. \A q \in Items(ToSet(calls)) : q = Item(c)
      BY <2>1 DEF Items
    <3> QED
      BY <2>1, <2>2, <3>1, <3>2, <3>3, <3>4 DEF CallShows
  <2>3. CASE Err /\ undelivered' = undelivered \cup {Item(c)} /\ UNCHANGED shown
    BY <2>1, <2>3 DEF CallShows, ShownItems, Items
  <2> QED
    BY <1>6, <2>1, <2>2, <2>3 DEF Interact
<1>7. ASSUME PublishToWeb(c) PROVE CallFrame /\ CallShows
  <2>1. CallFrame /\ message.platform = "websocket"
    BY <1>0, <1>7 DEF PublishToWeb, CallFrame, KeepsTurn, userVars
  <2>2. /\ shown \subseteq shown' /\ shown' \subseteq shown \cup {Shown(c, FALSE)}
        /\ undelivered \subseteq undelivered' /\ undelivered' \subseteq undelivered \cup {Item(c)}
    BY <1>7 DEF PublishToWeb
  <2>3. Shown(c, FALSE) \in Showable /\ ShownItems \subseteq ShownItems'
    BY <2>2 DEF ShownItems
  <2>4. \A q \in Items(ToSet(calls)) : Passed(q)'
    BY <2>1 DEF Items, Item, Passed, CallFrame
  <2> QED
    BY <2>1, <2>2, <2>3, <2>4 DEF CallShows
<1>8. ASSUME AnswerClient(c) PROVE CallFrame /\ CallShows
  <2>1. CallFrame /\ message.platform = "mcp"
    BY <1>0, <1>8 DEF AnswerClient, CallFrame
  <2>2. CASE message.by = "worker" /\ UNCHANGED <<shown, client, undelivered, errors>>
    BY <2>1, <2>2 DEF CallShows, ShownItems, Worker
  <2>3. CASE client = "waiting" /\ shown' = shown \cup {Shown(k, FALSE) : k \in ToSet(calls)}
                 /\ client' = "answered" /\ UNCHANGED undelivered
    <3>1. \A k \in ToSet(calls) : Shown(k, FALSE) \in Showable
      BY DEF Showable
    <3>2. ShownItems \subseteq ShownItems'
      BY <2>3 DEF ShownItems
    <3>3. \A q \in Items(ToSet(calls)) : Passed(q)'
      BY <2>1, <2>3 DEF Items, Item, Passed, CallFrame
    <3> QED
      BY <2>1, <2>3, <3>1, <3>2, <3>3 DEF CallShows
  <2>4. CASE client # "waiting" /\ UNCHANGED <<shown, client, undelivered>>
    <3>1. Reaches("mcp") => client \in {"answered", "gone"}
      BY <2>1, <2>4 DEF CallFrame, EgressInv, HomeOK, EgressTypeOK, Reaches
    <3>2. \A q \in Items(ToSet(calls)) : Reaches("mcp") => Passed(q)'
      BY <2>1, <2>4, <3>1 DEF Items, Item, Passed, CallFrame
    <3> QED
      BY <2>1, <2>4, <3>2 DEF CallShows, ShownItems
  <2>5. CASE undelivered' = undelivered \cup Items(ToSet(calls)) /\ UNCHANGED shown
    BY <2>1, <2>5 DEF CallShows, ShownItems
  <2> QED
    BY <1>8, <2>2, <2>3, <2>4, <2>5 DEF AnswerClient
<1> QED
  BY <1>1, <1>2, <1>3, <1>4, <1>5, <1>6, <1>7, <1>8, CallKeeps

\* So does a look-up of the integration's record that fails.
LEMMA LoseAddressStep == ASSUME EgressInv, LoseAddress PROVE EgressInv'
<1>1. errors \in 0 .. MaxErrors /\ (Err => errors' \in 0 .. MaxErrors)
  BY EgressAssumption DEF EgressInv, EgressTypeOK, Err
<1>2. CallFrame
  BY <1>1 DEF LoseAddress, Unsent, KeepsTurn, userVars, CallFrame
<1>3. CallShows
  BY DEF LoseAddress, KeepsTurn, CallShows, ShownItems
<1> QED
  BY <1>2, <1>3, CallKeeps

\* A message whose location cannot be sent becomes one without, whose calls are
\* all still to be made.
LEMMA MissNumberStep == ASSUME EgressInv, MissNumber PROVE EgressInv'
<1> DEFINE m == [message EXCEPT !.place = "missed"]
<1>1. /\ stage = "sending" /\ calls # <<>> /\ message.by = "tool"
      /\ message.platform \in ByPhone
      /\ message' = m /\ calls' = CallsOf(message')
      /\ UNCHANGED <<turn, stage, sends, replied, attachment, streams, streamed, home, first,
                     web, client, shown, promised, undelivered, saved>>
      /\ UNCHANGED ShownItems
  BY DEF MissNumber, Unsent, flags, userVars, sentVars, ShownItems
<1>2. errors' \in 0 .. MaxErrors
  BY EgressAssumption DEF MissNumber, Err, EgressInv, EgressTypeOK
<1>3. /\ m \in MessageType /\ m.platform = message.platform /\ m.by = "tool"
      /\ m.target = message.target
  BY <1>1 DEF EgressInv, EgressTypeOK, MessageType
<1> HIDE DEF m
<1>4. /\ CallsOf(m) \in Seq(Kinds)
      /\ m.platform = "discord" => ToSet(CallsOf(m)) \subseteq {"head"}
  BY <1>3, CallsType
<1>5. CallsOf(message)' = CallsOf(m) /\ calls' = CallsOf(m)
  BY <1>1 DEF CallsOf, Texts, Places
<1>6. ChatFor(message)' # "nowhere"
  BY <1>1, <1>3 DEF EgressInv, SendsOK, ByPhone, ChatFor, WhatsAppChat, IMessageChat
<1>7. EgressTypeOK'
  BY <1>1, <1>2, <1>3, <1>4, <1>5 DEF EgressInv, EgressTypeOK
<1>8. HomeOK' /\ IdleOK' /\ NumbersOK' /\ SendsOK' /\ StreamedOK' /\ SavedOK'
  BY <1>1, <1>3, <1>4, <1>5, <1>6 DEF EgressInv, HomeOK, IdleOK, NumbersOK, SendsOK, StreamedOK,
                                      SavedOK
<1>9. \A q : Passed(q)' = Passed(q) /\ \A p : Reaches(p)' = Reaches(p)
  BY <1>1 DEF Passed, Places, Replaced, Reaches
<1>10. ClaimsOK'
  <2> SUFFICES ASSUME Reaches(m.platform), NEW q \in Items(Claimed(message))'
               PROVE  Passed(q) \/ q.kind \in ToSet(calls')
    BY <1>1, <1>9 DEF ClaimsOK
  <2>1. q.of = m /\ q.kind \in Claimed(m)
    BY <1>1 DEF Items, Item, Claimed, Texts
  <2> QED
    BY <1>3, <1>5, <2>1, ClaimedIsCalled
<1>11. PrivateStaysPrivate' /\ ReportedIsShown'
  BY <1>1, <1>9 DEF EgressInv, PrivateStaysPrivate, BehindGroup, ReportedIsShown
<1> QED
  BY <1>7, <1>8, <1>10, <1>11 DEF EgressInv

-----------------------------------------------------------------------------
(* The other steps of a turn.                                              *)

\* A message of a tool, or an apology, is begun.
LEMMA StartKeeps ==
    ASSUME EgressInv, stage \in {"running", "answered"},
           NEW m \in MessageType, m.platform \in Platforms, m.by # "worker",
           Start(m, CallsOf(m)),
           replied' \in BOOLEAN, errors' \in 0 .. MaxErrors, UNCHANGED sentVars
    PROVE  EgressInv'
<1>1. /\ sends' = sends + 1 /\ message' = m /\ stage' = "sending"
      /\ calls' = IF ChatFor(m) = "nowhere" THEN <<>> ELSE CallsOf(m)
      /\ UNCHANGED <<turn, attachment, streams, streamed, home, first, web, client>>
      /\ UNCHANGED <<shown, promised, undelivered, saved>>
  BY DEF Start, userVars, sentVars
<1>2. /\ ChatFor(message)' = ChatFor(m) /\ UNCHANGED ShownItems
      /\ \A p \in Platforms : Reaches(p)' = Reaches(p)
  BY <1>1 DEF ChatFor, TelegramChat, WhatsAppChat, IMessageChat, EventChat, Reaches, ShownItems
<1>3. EgressTypeOK'
  <2>1. calls' \in Seq(Kinds)
    BY <1>1, CallsType, SetOfNone
  <2> QED
    BY <1>1, <2>1 DEF EgressInv, EgressTypeOK
<1>4. HomeOK' /\ IdleOK' /\ StreamedOK' /\ SavedOK' /\ PrivateStaysPrivate'
  BY <1>1 DEF EgressInv, HomeOK, IdleOK, StreamedOK, SavedOK, PrivateStaysPrivate, BehindGroup
<1>5. NumbersOK'
  <2>1. \A q \in promised \cup ShownItems : q.n \in Nat /\ q.n <= sends
    BY DEF EgressInv, EgressTypeOK, NumbersOK, ShownItems, ItemType
  <2> QED
    BY <1>1, <1>2, <2>1 DEF EgressInv, EgressTypeOK, NumbersOK
<1>6. SendsOK'
  BY <1>1, <1>2, CallsType, SetOfNone DEF SendsOK
<1>7. \A q : Passed(q) => Passed(q)'
  BY <1>1, <1>2 DEF Passed, Places, Replaced
<1>8. ClaimsOK'
  <2> SUFFICES ASSUME m.by \notin Worker, Reaches(m.platform), NEW q \in Items(Claimed(message))'
               PROVE  Passed(q)' \/ q.kind \in ToSet(calls')
    BY <1>1, <1>2 DEF ClaimsOK
  <2>1. q.of = m /\ q.kind \in Claimed(m)
    BY <1>1 DEF Items, Item
  <2>2. ChatFor(m) # "nowhere"
    BY ReachedHasChat DEF EgressInv
  <2> QED
    BY <1>1, <1>7, <2>1, <2>2, ClaimedIsCalled
<1>9. ReportedIsShown'
  <2> SUFFICES ASSUME NEW q \in promised, Reaches(q.of.platform)'
               PROVE  q \in ShownItems' \cup undelivered' \/ Passed(q)'
    BY <1>1 DEF ReportedIsShown
  <2>1. Reaches(q.of.platform)
    BY <1>1 DEF Reaches
  <2> QED
    BY <1>1, <1>2, <1>7, <2>1 DEF EgressInv, ReportedIsShown
<1> QED
  BY <1>3, <1>4, <1>5, <1>6, <1>8, <1>9 DEF EgressInv

LEMMA StartSteps ==
    ASSUME EgressInv, ReplyByTool \/ SendIntermediate \/ Apologize
    PROVE  EgressInv'
<1>0. \A n \in 0 .. MaxErrors : n < MaxErrors => n + 1 \in 0 .. MaxErrors
  BY EgressAssumption
<1>1. turn.origin \in Platforms \/ stage = "idle"
  BY DEF EgressInv, HomeOK
<1>2. CASE ReplyByTool
  <2>1. PICK m \in Replies : Start(m, CallsOf(m))
    BY <1>2 DEF ReplyByTool
  <2>2. m \in MessageType /\ m.platform \in Platforms /\ m.by # "worker"
    BY EgressAssumption DEF MessageType
  <2> QED
    BY <1>2, <2>1, <2>2, StartKeeps DEF ReplyByTool, EgressInv, EgressTypeOK
<1>3. CASE SendIntermediate
  <2> DEFINE m == [NoMessage EXCEPT !.platform = turn.origin, !.by = "note"]
  <2>1. m \in MessageType /\ m.platform \in Platforms /\ m.by # "worker"
    BY <1>1, <1>3 DEF SendIntermediate, MessageType, NoMessage, Rooms
  <2>2. Start(m, CallsOf(m)) /\ stage = "running" /\ UNCHANGED <<replied, sentVars, errors>>
    BY <1>3 DEF SendIntermediate
  <2> HIDE DEF m
  <2> QED
    BY <2>1, <2>2, StartKeeps DEF EgressInv, EgressTypeOK
<1>4. CASE Apologize
  <2> DEFINE m == [NoMessage EXCEPT !.platform = turn.origin, !.by = "apology"]
  <2>1. m \in MessageType /\ m.platform \in Platforms /\ m.by # "worker"
    BY <1>1, <1>4 DEF Apologize, MessageType, NoMessage, Rooms, Worker
  <2>2. /\ Start(m, CallsOf(m)) /\ stage \in {"running", "answered"} /\ Err
        /\ UNCHANGED <<replied, sentVars>>
    BY <1>4 DEF Apologize
  <2> HIDE DEF m
  <2> QED
    BY <1>0, <2>1, <2>2, StartKeeps DEF EgressInv, EgressTypeOK, Err
<1> QED
  BY <1>2, <1>3, <1>4

\* Steps that send and store nothing.
Quiet ==
    /\ UNCHANGED <<turn, message, calls, sends, home, first, streamed, sentVars>>
    /\ client' = client \/ (client = "waiting" /\ client' = "gone")
    /\ \/ stage' = stage
       \/ stage = "running" /\ stage' = "over"
       \/ stage = "sending" /\ stage' = "over"

LEMMA QuietKeeps == ASSUME EgressInv, Quiet, EgressTypeOK' PROVE EgressInv'
<1>1. /\ UNCHANGED <<turn, message, calls, sends, home, first, shown, promised, undelivered, saved>>
      /\ UNCHANGED ShownItems
  BY DEF Quiet, sentVars, ShownItems
<1>2. ChatFor(message)' = ChatFor(message)
  BY <1>1 DEF ChatFor, TelegramChat, WhatsAppChat, IMessageChat, EventChat
<1>3. /\ \A p : Reaches(p)' = Reaches(p)
      /\ Items(Claimed(message))' = Items(Claimed(message))
      /\ Item("head")' = Item("head")
  BY <1>1 DEF Reaches, Items, Item, Claimed, Texts
<1>4. \A q : Passed(q) => Passed(q)'
  BY <1>1 DEF Passed, Places, Replaced, Quiet
<1>5. /\ HomeOK' /\ IdleOK' /\ SendsOK' /\ StreamedOK' /\ SavedOK'
      /\ PrivateStaysPrivate' /\ NumbersOK'
  <2>0. StreamedOK' /\ IdleOK'
    BY <1>1 DEF EgressInv, StreamedOK, IdleOK, Quiet
  <2>1. HomeOK'
    BY <1>1 DEF EgressInv, HomeOK, Quiet
  <2>2. SendsOK'
    BY <1>1, <1>2 DEF EgressInv, SendsOK, Quiet
  <2>3. SavedOK'
    BY <1>1, <1>3 DEF EgressInv, SavedOK, Quiet, Worker
  <2>4. PrivateStaysPrivate' /\ NumbersOK'
    BY <1>1 DEF EgressInv, PrivateStaysPrivate, BehindGroup, NumbersOK, Quiet
  <2> QED
    BY <2>0, <2>1, <2>2, <2>3, <2>4
<1>6. ClaimsOK'
  <2> SUFFICES ASSUME stage = "sending", message.by \notin Worker, Reaches(message.platform),
                      NEW q \in Items(Claimed(message))
               PROVE  q \in ShownItems \cup undelivered \/ Passed(q)' \/ q.kind \in ToSet(calls)
    BY <1>1, <1>3 DEF ClaimsOK, Quiet
  <2> QED
    BY <1>4 DEF EgressInv, ClaimsOK
<1>7. ReportedIsShown'
  <2> SUFFICES ASSUME NEW q \in promised, Reaches(q.of.platform)
               PROVE  q \in ShownItems \cup undelivered \/ Passed(q)'
    BY <1>1, <1>3 DEF ReportedIsShown
  <2> QED
    BY <1>4 DEF EgressInv, ReportedIsShown
<1> QED
  BY <1>5, <1>6, <1>7 DEF EgressInv

LEMMA QuietSteps ==
    ASSUME EgressInv,
           \/ AttachFile \/ BreakStream \/ EndSilently \/ EndTurn \/ MoveSocket \/ TimeOutClient
           \/ UNCHANGED egressVars
    PROVE  EgressInv'
<1>0. \A n \in 0 .. MaxErrors : n < MaxErrors => n + 1 \in 0 .. MaxErrors
  BY EgressAssumption
<1> USE DEF sentVars, userVars, turnVars, flags
<1>1. CASE AttachFile
  BY <1>1, QuietKeeps DEF AttachFile, Quiet, EgressInv, EgressTypeOK
<1>2. CASE BreakStream
  BY <1>0, <1>2, QuietKeeps DEF BreakStream, Err, Quiet, EgressInv, EgressTypeOK
<1>3. CASE EndSilently
  BY <1>3, QuietKeeps DEF EndSilently, Quiet, EgressInv, EgressTypeOK
<1>4. CASE EndTurn
  BY <1>4, QuietKeeps DEF EndTurn, Quiet, EgressInv, EgressTypeOK
<1>5. CASE MoveSocket
  BY <1>5, QuietKeeps DEF MoveSocket, Quiet, EgressInv, EgressTypeOK
<1>6. CASE TimeOutClient
  BY <1>6, QuietKeeps DEF TimeOutClient, Quiet, EgressInv, EgressTypeOK
<1>7. CASE UNCHANGED egressVars
  BY <1>7, QuietKeeps DEF egressVars, Quiet, EgressInv, EgressTypeOK
<1> QED
  BY <1>1, <1>2, <1>3, <1>4, <1>5, <1>6, <1>7

LEMMA BeginTurnStep ==
    ASSUME EgressInv, NEW s \in Sources, NEW asked \in SUBSET Rooms, NEW o \in OriginsOf(s),
           NEW c \in asked, BeginTurn(s, o, c, asked)
    PROVE  EgressInv'
<1>0. o \in Platforms
  BY EgressAssumption DEF OriginsOf
<1>1. /\ stage = "idle" /\ stage' = "running"
      /\ turn' = [source |-> s, origin |-> o, chat |-> c, asked |-> asked]
      /\ UNCHANGED <<message, calls, sends, replied, attachment, streamed, web, errors>>
      /\ UNCHANGED <<shown, promised, undelivered, saved>>
  BY DEF BeginTurn, sentVars
<1>2. /\ home' \in Rooms \cup {"nowhere"} /\ first' \in Rooms \cup {"nowhere"}
      /\ home' = first' /\ (s = "telegram" => home' # "nowhere")
  <2>1. PICK room \in asked :
           /\ home' = HomeAfter(s, room)
           /\ first' = IF s = "telegram" /\ home = "nowhere" THEN room ELSE first
    BY DEF BeginTurn
  <2>2. room \in Rooms /\ room # "nowhere"
    BY DEF Rooms
  <2> QED
    BY <2>1, <2>2 DEF HomeAfter, EgressInv, EgressTypeOK, HomeOK
<1>3. message = NoMessage /\ shown = {} /\ promised = {} /\ ShownItems' = {}
  BY <1>1 DEF EgressInv, IdleOK, ShownItems
<1>4. EgressTypeOK'
  <2>1. client' \in {"none", "waiting"} /\ streams' \in BOOLEAN
    BY DEF BeginTurn
  <2>2. turn' \in [source : Sources, origin : Platforms, chat : Rooms, asked : SUBSET Rooms]
    BY <1>0, <1>1
  <2> QED
    BY <1>1, <1>2, <2>1, <2>2 DEF EgressInv, EgressTypeOK
<1>5. HomeOK'
  BY <1>0, <1>1, <1>2 DEF HomeOK, BeginTurn
<1>6. IdleOK' /\ NumbersOK' /\ SendsOK' /\ StreamedOK' /\ ClaimsOK' /\ SavedOK'
  BY <1>1, <1>3 DEF IdleOK, NumbersOK, SendsOK, StreamedOK, ClaimsOK, SavedOK, NoMessage, Worker
<1>7. PrivateStaysPrivate' /\ ReportedIsShown'
  BY <1>1, <1>3 DEF PrivateStaysPrivate, ReportedIsShown
<1> QED
  BY <1>4, <1>5, <1>6, <1>7 DEF EgressInv

LEMMA EndEventStep == ASSUME EgressInv, EndEvent PROVE EgressInv'
<1>1. /\ stage' = "idle" /\ turn' = NoTurn /\ message' = NoMessage /\ sends' = 0
      /\ shown' = {} /\ promised' = {} /\ undelivered' = {} /\ saved' = {} /\ errors' = 0
      /\ UNCHANGED <<calls, home, first, web, client>> /\ ShownItems' = {}
  BY DEF EndEvent, userVars, ShownItems
<1>2. \A b \in {replied', attachment', streams', streamed'} : b \in BOOLEAN
  BY DEF EndEvent
<1>3. NoMessage \in MessageType /\ errors' \in 0 .. MaxErrors
  BY <1>1, EgressAssumption DEF NoMessage, MessageType, Rooms
<1>4. EgressTypeOK'
  BY <1>1, <1>2, <1>3 DEF EgressInv, EgressTypeOK
<1>5. HomeOK' /\ IdleOK' /\ NumbersOK' /\ SendsOK' /\ StreamedOK' /\ ClaimsOK' /\ SavedOK'
  BY <1>1 DEF EgressInv, HomeOK, IdleOK, NumbersOK, SendsOK, StreamedOK, ClaimsOK, SavedOK
<1>6. PrivateStaysPrivate' /\ ReportedIsShown'
  BY <1>1 DEF PrivateStaysPrivate, ReportedIsShown
<1> QED
  BY <1>4, <1>5, <1>6 DEF EgressInv

LEMMA AnswerStep == ASSUME EgressInv, NEW p \in Platforms, Answer(p) PROVE EgressInv'
<1> DEFINE m == Answering(p)
           item == [n |-> sends', kind |-> "head", of |-> m]
           entry == [item |-> item, chat |-> "direct", plain |-> FALSE]
<1>1. /\ stage = "running" /\ stage' = "answered" /\ message' = m /\ sends' = sends + 1
      /\ streamed' \in BOOLEAN /\ (streamed' => p = "websocket")
      /\ shown \subseteq shown' /\ shown' \subseteq shown \cup {entry}
      /\ UNCHANGED <<turn, calls, replied, attachment, streams, home, first, web, client>>
      /\ UNCHANGED <<promised, undelivered, saved, errors>>
  BY DEF Answer, userVars
<1>2. m \in MessageType /\ m.platform = p /\ m.by = "worker"
  BY DEF Answering, NoMessage, MessageType, Rooms, Worker, EgressInv, EgressTypeOK
<1> HIDE DEF m
<1>3. sends \in Nat /\ sends' \in Nat /\ item \in ItemType /\ item.n = sends'
  BY <1>1, <1>2 DEF EgressInv, EgressTypeOK, ItemType, Kinds
<1> HIDE DEF item
<1>4. entry \in [item : ItemType, chat : Rooms, plain : BOOLEAN]
      /\ entry.item = item /\ entry.chat = "direct"
  BY <1>3 DEF Rooms
<1> HIDE DEF entry
<1>5. EgressTypeOK'
  BY <1>1, <1>2, <1>3, <1>4 DEF EgressInv, EgressTypeOK
<1>6. ShownItems \subseteq ShownItems' /\ ShownItems' \subseteq ShownItems \cup {item}
  BY <1>1, <1>4 DEF ShownItems
<1>7. NumbersOK'
  <2>1. \A q \in promised \cup ShownItems : q.n \in Nat /\ q.n <= sends
    BY DEF EgressInv, EgressTypeOK, NumbersOK, ShownItems, ItemType
  <2> QED
    BY <1>1, <1>2, <1>3, <1>6, <2>1 DEF NumbersOK
<1>8. HomeOK' /\ IdleOK' /\ SendsOK' /\ StreamedOK' /\ ClaimsOK' /\ SavedOK'
  BY <1>1, <1>2 DEF EgressInv, HomeOK, IdleOK, SendsOK, StreamedOK, ClaimsOK, SavedOK
<1>9. PrivateStaysPrivate'
  BY <1>1, <1>4 DEF EgressInv, PrivateStaysPrivate, BehindGroup
<1>10. ReportedIsShown'
  <2>1. \A q : Passed(q) => Passed(q)'
    BY <1>1, <1>6 DEF Passed, Places, Replaced
  <2>2. \A q : Reaches(q)' = Reaches(q)
    BY <1>1 DEF Reaches
  <2> QED
    BY <1>1, <1>6, <2>1, <2>2 DEF EgressInv, ReportedIsShown
<1> QED
  BY <1>5, <1>7, <1>8, <1>9, <1>10 DEF EgressInv

LEMMA SendAnswerStep == ASSUME EgressInv, SendAnswer PROVE EgressInv'
<1>1. /\ stage = "answered" /\ stage' = "sending"
      /\ saved' = saved \cup Items({"head"})
      /\ UNCHANGED <<turn, message, sends, replied, attachment, streams, streamed, home, first,
                     web, client, shown, promised, undelivered, errors>>
      /\ UNCHANGED ShownItems
  BY DEF SendAnswer, Written, flags, userVars, ShownItems
<1>2. /\ ChatFor(message)' = ChatFor(message) /\ Item("head")' = Item("head")
      /\ \A q : Reaches(q)' = Reaches(q)
      /\ \A q : Passed(q)' = Passed(q)
  BY <1>1 DEF ChatFor, TelegramChat, WhatsAppChat, IMessageChat, EventChat, Item, Reaches, Passed,
              Places, Replaced
<1>3. /\ calls' \in Seq(Kinds)
      /\ calls' # <<>> => ChatFor(message) # "nowhere"
      /\ message.platform = "discord" => ToSet(calls') \subseteq {"head"}
  <2>1. message \in MessageType /\ (streamed => message.platform # "discord")
    BY <1>1 DEF EgressInv, EgressTypeOK, StreamedOK
  <2>2. "file" \in Kinds
    BY DEF Kinds
  <2>3. \/ calls' = <<>>
        \/ ChatFor(message) # "nowhere" /\ calls' = CallsOf(message)
        \/ ChatFor(message) # "nowhere" /\ streamed /\ calls' \in {<<"file">>, <<>>}
    BY DEF SendAnswer
  <2> QED
    BY <2>1, <2>2, <2>3, CallsType, SetOfNone, SetOfFew
<1>4. Item("head") \in ItemType /\ Items({"head"}) = {Item("head")}
  BY ItemTypes DEF EgressInv, Items, Kinds
<1>5. EgressTypeOK'
  BY <1>1, <1>3, <1>4 DEF EgressInv, EgressTypeOK
<1>6. HomeOK' /\ IdleOK' /\ NumbersOK' /\ SendsOK' /\ StreamedOK' /\ PrivateStaysPrivate'
  BY <1>1, <1>2, <1>3 DEF EgressInv, HomeOK, IdleOK, NumbersOK, SendsOK, StreamedOK,
                          PrivateStaysPrivate, BehindGroup
<1>7. ClaimsOK' /\ SavedOK'
  BY <1>1, <1>2, <1>4 DEF EgressInv, ClaimsOK, SavedOK, Worker
<1>8. ReportedIsShown'
  BY <1>1, <1>2 DEF EgressInv, ReportedIsShown
<1> QED
  BY <1>5, <1>6, <1>7, <1>8 DEF EgressInv

LEMMA ReportStep == ASSUME EgressInv, Report PROVE EgressInv'
<1>0. \A n \in 0 .. MaxErrors : n < MaxErrors => n + 1 \in 0 .. MaxErrors
  BY EgressAssumption
<1>1. /\ stage = "sending" /\ stage' = "running" /\ calls = <<>> /\ message.by \notin Worker
      /\ promised' = promised \cup Items(Claimed(message))
      /\ saved' \in {saved, saved \cup Items({"head"})}
      /\ UNCHANGED <<turn, message, calls, sends, replied, attachment, streams, streamed, home,
                     first, web, client, shown, undelivered>>
      /\ UNCHANGED ShownItems
  BY DEF Report, flags, userVars, ShownItems
<1>2. errors' \in 0 .. MaxErrors
  BY <1>0 DEF Report, Err, EgressInv, EgressTypeOK
<1>3. \A q \in Items(Claimed(message)) : q \in ItemType /\ q.n = sends /\ q.of = message
  BY CallsType, ItemTypes DEF EgressInv, EgressTypeOK, Items
<1>4. Items({"head"}) \subseteq ItemType
  BY ItemTypes DEF EgressInv, Items, Kinds
<1>5. EgressTypeOK'
  BY <1>1, <1>2, <1>3, <1>4 DEF EgressInv, EgressTypeOK
<1>6. /\ HomeOK' /\ IdleOK' /\ SendsOK' /\ StreamedOK' /\ ClaimsOK' /\ SavedOK'
      /\ PrivateStaysPrivate'
  BY <1>1 DEF EgressInv, HomeOK, IdleOK, SendsOK, StreamedOK, ClaimsOK, SavedOK,
              PrivateStaysPrivate, BehindGroup
<1>7. NumbersOK'
  BY <1>1, <1>3 DEF EgressInv, EgressTypeOK, NumbersOK
<1>8. ReportedIsShown'
  <2>1. /\ \A q : Reaches(q)' = Reaches(q)
        /\ \A q : Passed(q)' = Passed(q)
    BY <1>1 DEF Reaches, Passed, Places, Replaced
  <2>2. \A q \in Items(Claimed(message)) : Reaches(q.of.platform) =>
           q \in ShownItems \cup undelivered \/ Passed(q)
    BY <1>1, <1>3, SetOfNone DEF EgressInv, ClaimsOK
  <2> QED
    BY <1>1, <2>1, <2>2 DEF EgressInv, ReportedIsShown
<1> QED
  BY <1>5, <1>6, <1>7, <1>8 DEF EgressInv

-----------------------------------------------------------------------------
(* The theorems.                                                           *)

LEMMA EgressInvHolds == EgressSpec => []EgressInv
<1>1. EgressInit => EgressInv
  <2> SUFFICES ASSUME EgressInit PROVE EgressInv
    OBVIOUS
  <2>1. EgressTypeOK
    <3>1. message \in MessageType
      BY DEF EgressInit, NoMessage, MessageType, Rooms
    <3>2. calls \in Seq(Kinds) /\ errors \in 0 .. MaxErrors
      BY EgressAssumption, SetOfNone DEF EgressInit
    <3>3. \A b \in {replied, attachment, streams, streamed} : b \in BOOLEAN
      BY DEF EgressInit
    <3> QED
      BY <3>1, <3>2, <3>3 DEF EgressInit, EgressTypeOK
  <2>2. ShownItems = {}
    BY DEF EgressInit, ShownItems
  <2> QED
    BY <2>1, <2>2 DEF EgressInit, EgressInv, HomeOK, IdleOK, NumbersOK, SendsOK, StreamedOK, ClaimsOK,
                      SavedOK, PrivateStaysPrivate, ReportedIsShown
<1>2. ASSUME EgressInv, [EgressNext]_egressVars PROVE EgressInv'
  <2>1. CASE \E s \in Sources, asked \in SUBSET Rooms :
                \E o \in OriginsOf(s), c \in asked : BeginTurn(s, o, c, asked)
    BY <1>2, <2>1, BeginTurnStep
  <2>2. CASE ~\E s \in Sources, asked \in SUBSET Rooms :
                \E o \in OriginsOf(s), c \in asked : BeginTurn(s, o, c, asked)
    BY <1>2, <2>2, StartSteps, QuietSteps, AnswerStep, SendAnswerStep, SendingCalls,
       ReportStep, EndEventStep, LoseAddressStep, MissNumberStep DEF EgressNext
  <2> QED
    BY <2>1, <2>2
<1> QED
  BY <1>1, <1>2, PTL DEF EgressSpec

\* The variables keep their values' types.
THEOREM EgressTypes == EgressSpec => []EgressTypeOK
<1>1. EgressInv => EgressTypeOK
  BY DEF EgressInv
<1> QED
  BY <1>1, EgressInvHolds, PTL

\* What is shown in a group was asked there and only there, unless the question
\* came behind one of the group's and was merged with it, the agent chose the
\* group, or the user's first message on Telegram was written there
\* (execution_worker.py:79-92, egress/service.py:327-346, telegram_handler.py:145).
THEOREM NothingPrivateInGroups == EgressSpec => []PrivateStaysPrivate
<1>1. EgressInv => PrivateStaysPrivate
  BY DEF EgressInv
<1> QED
  BY <1>1, EgressInvHolds, PTL

\* What the reply tools report as sent is shown to a user who can be reached,
\* unless a call or the look-up of the record failed, the user has no number for
\* a location, or it is passed over by design (communication.py:282,
\* egress/service.py:567-720).
THEOREM ReportedWasShown == EgressSpec => []ReportedIsShown
<1>1. EgressInv => ReportedIsShown
  BY DEF EgressInv
<1> QED
  BY <1>1, EgressInvHolds, PTL

\* An answer the web's user missed is in the records of the conversation
\* (agent_runner_langgraph.py:484, stream_buffer.py:36).
THEOREM MissedAnswersAreInTheRecords == EgressSpec => []MissedAnswersAreStored
<1>1. EgressInv => MissedAnswersAreStored
  BY DEF EgressInv, SavedOK, MissedAnswersAreStored
<1> QED
  BY <1>1, EgressInvHolds, PTL

-----------------------------------------------------------------------------
(* The cutting of long messages: what a loop over a sequence computes, step *)
(* by step.                                                                 *)

\* What holds at 0, and one further wherever it holds, holds up to n.
LEMMA StepByStep ==
    ASSUME NEW n \in Nat, NEW T, 0 \in T, \A i \in 0 .. n - 1 : i \in T => i + 1 \in T
    PROVE  \A i \in 0 .. n : i \in T
<1> DEFINE R == {ss \in Nat \X Nat : ss[1] < ss[2]}
<1> SUFFICES ASSUME \E i \in 0 .. n : i \notin T PROVE FALSE
  OBVIOUS
<1>1. PICK S : S = {i \in 0 .. n : i \notin T}
  OBVIOUS
<1>2. S \subseteq Nat /\ S # {}
  BY <1>1
<1>3. IsWellFoundedOn(R, Nat)
  BY NatLessThanWellFounded DEF OpToRel
<1>4. \E x \in S : \A y \in S : ~(<<y, x>> \in R)
  <2> HIDE DEF R
  <2> QED
    BY <1>2, <1>3, WFMin, Zenon
<1>5. PICK x \in S : \A y \in S : ~(<<y, x>> \in R)
  BY <1>4
<1>6. x \in Nat /\ x # 0 /\ x <= n
  BY <1>1, <1>5
<1>7. x - 1 \in 0 .. n - 1 /\ <<x - 1, x>> \in R
  BY <1>6
<1>8. x - 1 \in T
  <2>1. x - 1 \notin S
    <3> HIDE DEF R
    <3> QED
      BY <1>5, <1>7
  <2>2. x - 1 \in 0 .. n
    BY <1>6
  <2> QED
    BY <1>1, <2>1, <2>2
<1>9. x - 1 + 1 \in T
  BY <1>7, <1>8
<1>10. x \in T
  BY <1>6, <1>9
<1> QED
  BY <1>1, <1>5, <1>10

\* The reading of the tags of s, up to n.
Reading(st, s, n) ==
    /\ st = [i \in 0 .. n |-> st[i]]
    /\ st[0] = <<>>
    /\ \A i \in 1 .. n : st[i] = After(st[i - 1], s[i])

\* The tags of any sequence can be read.
LEMMA ReadingExists ==
    ASSUME NEW s, NEW n \in Nat
    PROVE  \E st : Reading(st, s, n)
<1>1. PICK T : T = {k \in 0 .. n : \E st : Reading(st, s, k)}
  OBVIOUS
<1>2. 0 \in T
  <2>1. PICK st : st = [i \in 0 .. 0 |-> <<>>]
    OBVIOUS
  <2>2. Reading(st, s, 0)
    BY <2>1 DEF Reading
  <2> QED
    BY <1>1, <2>2
<1>3. ASSUME NEW k \in 0 .. n - 1, k \in T
      PROVE  k + 1 \in T
  <2>1. PICK st : Reading(st, s, k)
    BY <1>1, <1>3
  <2>2. PICK more : more = [i \in 0 .. k + 1 |-> IF i = k + 1 THEN After(st[k], s[k + 1]) ELSE st[i]]
    OBVIOUS
  <2>3. k \in Nat /\ k + 1 \in 0 .. n /\ 0 # k + 1 /\ 0 \in 0 .. k + 1
    OBVIOUS
  <2>4. more[0] = <<>>
    BY <2>1, <2>2, <2>3 DEF Reading
  <2>5. ASSUME NEW i \in 1 .. k + 1 PROVE more[i] = After(more[i - 1], s[i])
    <3>1. i - 1 # k + 1 /\ i - 1 \in 0 .. k + 1 /\ i \in 0 .. k + 1
      BY <2>3
    <3>2. more[i - 1] = st[i - 1]
      BY <2>2, <3>1
    <3>3. CASE i = k + 1
      <4>1. i - 1 = k
        BY <2>3, <3>3
      <4> QED
        BY <2>2, <3>1, <3>2, <3>3, <4>1
    <3>4. CASE i # k + 1
      <4>1. i \in 1 .. k
        BY <2>3, <3>4
      <4>2. more[i] = st[i]
        BY <2>2, <3>1, <3>4
      <4>3. st[i] = After(st[i - 1], s[i])
        BY <2>1, <4>1 DEF Reading
      <4> QED
        BY <3>2, <4>2, <4>3
    <3> QED
      BY <3>3, <3>4
  <2>6. Reading(more, s, k + 1)
    BY <2>2, <2>4, <2>5 DEF Reading
  <2> QED
    BY <1>1, <2>3, <2>6
<1>4. n \in T
  <2>1. \A i \in 0 .. n : i \in T
    BY <1>2, <1>3, StepByStep
  <2> QED
    BY <2>1
<1> QED
  BY <1>1, <1>4

\* Stacks is the reading: the recursion it is defined by has a solution.
LEMMA StacksRead ==
    ASSUME NEW s, Len(s) \in Nat
    PROVE  Reading(Stacks(s), s, Len(s))
<1> DEFINE Whole(st) ==
        st = [i \in 0 .. Len(s) |-> IF i = 0 THEN <<>> ELSE After(st[i - 1], s[i])]
<1>1. PICK st : Reading(st, s, Len(s))
  BY ReadingExists
<1>2. Whole(st)
  <2>1. ASSUME NEW i \in 0 .. Len(s)
        PROVE  st[i] = IF i = 0 THEN <<>> ELSE After(st[i - 1], s[i])
    <3>1. CASE i = 0
      BY <1>1, <3>1 DEF Reading
    <3>2. CASE i # 0
      <4>1. i \in 1 .. Len(s)
        BY <3>2
      <4>2. st[i] = After(st[i - 1], s[i])
        BY <1>1, <4>1 DEF Reading
      <4> QED
        BY <3>2, <4>2
    <3> QED
      BY <3>1, <3>2
  <2>2. st = [i \in 0 .. Len(s) |-> st[i]]
    BY <1>1 DEF Reading
  <2> QED
    BY <2>1, <2>2
<1>3. Stacks(s) = CHOOSE g : Whole(g)
  BY DEF Stacks
<1>4. Whole(Stacks(s))
  <2> HIDE DEF Whole
  <2> QED
    BY <1>2, <1>3
<1>5. PICK g : g = Stacks(s)
  OBVIOUS
<1>6. g = [i \in 0 .. Len(s) |-> IF i = 0 THEN <<>> ELSE After(g[i - 1], s[i])]
  BY <1>4, <1>5
<1>7. g[0] = <<>>
  BY <1>6
<1>8. \A i \in 1 .. Len(s) : g[i] = After(g[i - 1], s[i])
  BY <1>6
<1>9. g = [i \in 0 .. Len(s) |-> g[i]]
  BY <1>6
<1> QED
  BY <1>5, <1>7, <1>8, <1>9 DEF Reading

\* One token is read at a time.
LEMMA ReadingStep ==
    ASSUME NEW st, NEW s, NEW n \in Nat, Reading(st, s, n), NEW i \in Nat, i < n
    PROVE  st[i + 1] = After(st[i], s[i + 1])
<1>1. PICK j : j = i + 1
  OBVIOUS
<1>2. j \in 1 .. n /\ j - 1 = i
  BY <1>1
<1>3. st[j] = After(st[j - 1], s[j])
  BY <1>2 DEF Reading
<1> QED
  BY <1>1, <1>2, <1>3

\* A part of a sequence has n places, those of the sequence from a on.
LEMMA PartOf ==
    ASSUME NEW S, NEW s \in Seq(S), NEW a \in Nat \ {0}, NEW b \in Nat, NEW n \in Nat,
           n = b - a + 1, b <= Len(s)
    PROVE  /\ SubSeq(s, a, b) \in Seq(S) /\ Len(SubSeq(s, a, b)) = n
           /\ \A i \in 1 .. n : SubSeq(s, a, b)[i] = s[a - 1 + i]
<1>1. Len(s) \in Nat /\ DOMAIN s = 1 .. Len(s)
  OBVIOUS
<1>2. PICK f : f = [i \in 1 .. n |-> s[a - 1 + i]]
  OBVIOUS
<1>3. \A i \in 1 .. n : a - 1 + i \in 1 .. Len(s)
  BY <1>1
<1>4. \A i \in 1 .. n : s[a - 1 + i] \in S
  BY <1>1, <1>3
<1>5. f \in Seq(S) /\ Len(f) = n
  BY <1>2, <1>4
<1>6. SubSeq(s, a, b) = f
  BY <1>1, <1>2
<1> QED
  BY <1>2, <1>5, <1>6

\* u is s and then t.
IsJoin(u, s, t) ==
    /\ Len(u) = Len(s) + Len(t) /\ Len(s) \in Nat /\ Len(t) \in Nat
    /\ \A i \in 1 .. Len(s) : u[i] = s[i]
    /\ \A i \in 1 .. Len(t) : u[Len(s) + i] = t[i]

\* What is joined keeps its places, or moves on by the length of the first.
LEMMA JoinOf ==
    ASSUME NEW S, NEW s \in Seq(S), NEW t \in Seq(S), NEW u, u = s \o t
    PROVE  u \in Seq(S) /\ IsJoin(u, s, t)
<1>1. Len(s) \in Nat /\ Len(t) \in Nat
  OBVIOUS
<1>2. \A i \in 1 .. Len(t) : Len(s) + i - Len(s) = i /\ ~(Len(s) + i <= Len(s)) /\ Len(s) + i \in 1 .. Len(s) + Len(t)
  BY <1>1
<1>3. \A i \in 1 .. Len(s) : i \in 1 .. Len(s) + Len(t) /\ i <= Len(s)
  BY <1>1
<1> QED
  BY <1>1, <1>2, <1>3 DEF IsJoin

Token ==
    {Letter(n) : n \in Nat} \cup {Blank, Line}
        \cup {Open(t) : t \in TagNames} \cup {Close(t) : t \in TagNames}

\* A token is told by its kind.
LEMMA TokensTold ==
    ASSUME NEW k \in Token
    PROVE  /\ k[1] \in {"letter", "blank", "line", "open", "close"}
           /\ k[1] = "letter" <=> k \in {Letter(n) : n \in Nat}
           /\ k[1] = "letter" => k[2] \in Nat /\ k = Letter(k[2])
           /\ k[1] \in {"open", "close"} => k[2] \in TagNames
           /\ k[1] = "close" => k = Close(k[2])
           /\ k[1] = "open" => k = Open(k[2])
BY DEF Token, Letter, Blank, Line, Open, Close

\* What is open after a token are names of tags,
LEMMA AfterTypes ==
    ASSUME NEW st \in Seq(TagNames), NEW k \in Token
    PROVE  After(st, k) \in Seq(TagNames)
<1>1. CASE k[1] = "open"
  BY <1>1, TokensTold DEF After
<1>2. CASE k[1] = "close"
  <2>1. st # <<>> => Front(st) \in Seq(TagNames)
    <3> SUFFICES ASSUME st # <<>> PROVE Front(st) \in Seq(TagNames)
      OBVIOUS
    <3>1. Len(st) \in Nat \ {0}
      OBVIOUS
    <3> QED
      BY <3>1 DEF Front
  <2> QED
    BY <1>2, <2>1 DEF After
<1>3. CASE k[1] \notin {"open", "close"}
  BY <1>3 DEF After
<1> QED
  BY <1>1, <1>2, <1>3

\* and so at every place of a message.
LEMMA StacksTypes ==
    ASSUME NEW s \in Seq(Token)
    PROVE  \A i \in 0 .. Len(s) : Stacks(s)[i] \in Seq(TagNames)
<1>1. PICK st, T : st = Stacks(s) /\ T = {i \in 0 .. Len(s) : st[i] \in Seq(TagNames)}
  OBVIOUS
<1>2. Reading(st, s, Len(s)) /\ Len(s) \in Nat
  BY <1>1, StacksRead
<1>3. 0 \in T
  <2>1. st[0] = <<>> /\ <<>> \in Seq(TagNames) /\ 0 \in 0 .. Len(s)
    BY <1>2 DEF Reading
  <2> QED
    BY <1>1, <2>1
<1>4. ASSUME NEW i \in 0 .. Len(s) - 1, i \in T PROVE i + 1 \in T
  <2>1. i \in Nat /\ i < Len(s) /\ i + 1 \in 0 .. Len(s) /\ s[i + 1] \in Token
    BY <1>2
  <2>2. st[i + 1] = After(st[i], s[i + 1])
    BY <1>2, <2>1, ReadingStep
  <2>3. st[i + 1] \in Seq(TagNames)
    BY <1>1, <1>4, <2>1, <2>2, AfterTypes
  <2> QED
    BY <1>1, <2>1, <2>3
<1>5. \A i \in 0 .. Len(s) : i \in T
  BY <1>2, <1>3, <1>4, StepByStep
<1> QED
  BY <1>1, <1>5

\* The first n tokens of t read as those of s after a.
ReadsAs(t, n, s, a) == \A i \in 0 .. n : Stacks(t)[i] = Stacks(s)[a + i]

\* What is read from a place where nothing is open is read as from the start.
LEMMA ReadOn ==
    ASSUME NEW s \in Seq(Token), NEW t \in Seq(Token), NEW a \in Nat, NEW n \in Nat,
           a + n <= Len(s), n <= Len(t), Stacks(s)[a] = <<>>,
           \A i \in 1 .. n : t[i] = s[a + i]
    PROVE  ReadsAs(t, n, s, a)
<1>1. PICK st, sl, T : /\ st = Stacks(s) /\ sl = Stacks(t)
                       /\ T = {i \in 0 .. n : sl[i] = st[a + i]}
  OBVIOUS
<1>2. Reading(st, s, Len(s)) /\ Reading(sl, t, Len(t)) /\ Len(s) \in Nat /\ Len(t) \in Nat
  BY <1>1, StacksRead
<1>3. 0 \in T
  <2>1. sl[0] = <<>> /\ st[a] = <<>> /\ a + 0 = a
    BY <1>1, <1>2 DEF Reading
  <2> QED
    BY <1>1, <2>1
<1>4. ASSUME NEW i \in 0 .. n - 1, i \in T PROVE i + 1 \in T
  <2>1. /\ i \in Nat /\ i < Len(t) /\ a + i \in Nat /\ a + i < Len(s)
        /\ i + 1 \in 1 .. n /\ a + (i + 1) = a + i + 1
    BY <1>2
  <2>2. sl[i + 1] = After(sl[i], t[i + 1])
    BY <1>2, <2>1, ReadingStep
  <2>3. st[a + (i + 1)] = After(st[a + i], s[a + (i + 1)])
    <3>1. PICK j \in Nat : j = a + i
      BY <2>1
    <3>2. st[j + 1] = After(st[j], s[j + 1])
      BY <1>2, <2>1, <3>1, ReadingStep
    <3> QED
      BY <2>1, <3>1, <3>2
  <2>4. t[i + 1] = s[a + (i + 1)]
    BY <2>1
  <2>5. sl[i] = st[a + i]
    BY <1>1, <1>4
  <2>6. i + 1 \in 0 .. n
    BY <2>1
  <2> QED
    BY <1>1, <2>2, <2>3, <2>4, <2>5, <2>6
<1>5. \A i \in 0 .. n : i \in T
  BY <1>3, <1>4, StepByStep
<1> QED
  BY <1>1, <1>5 DEF ReadsAs

\* The first m of the open tags end in the m-th.
LEMMA TopOf ==
    ASSUME NEW ts \in Seq(TagNames), NEW m \in 1 .. Len(ts)
    PROVE  LET top == SubSeq(ts, 1, m)
           IN  top \in Seq(TagNames) /\ Len(top) = m /\ top # <<>> /\ top[m] = ts[m]
<1>1. PICK top : top = SubSeq(ts, 1, m)
  OBVIOUS
<1>2. m \in Nat /\ m = m - 1 + 1 /\ m <= Len(ts) /\ 1 - 1 + m = m /\ m \in 1 .. m
  OBVIOUS
<1>3. top \in Seq(TagNames) /\ Len(top) = m /\ \A i \in 1 .. m : top[i] = ts[1 - 1 + i]
  BY <1>1, <1>2, PartOf
<1>4. top[m] = ts[m]
  BY <1>2, <1>3
<1>5. top # <<>>
  BY <1>2, <1>3
<1> QED
  BY <1>1, <1>3, <1>4, <1>5

\* The first p of the first m are the first p.
LEMMA FrontOfFront ==
    ASSUME NEW ts \in Seq(TagNames), NEW m \in Nat, NEW p \in Nat, p <= m, m <= Len(ts)
    PROVE  SubSeq(SubSeq(ts, 1, m), 1, p) = SubSeq(ts, 1, p)
<1>1. Len(ts) \in Nat /\ DOMAIN ts = 1 .. Len(ts)
  OBVIOUS
<1>2. SubSeq(ts, 1, m) = [i \in 1 .. m |-> ts[i]]
  BY <1>1
<1>3. SubSeq(ts, 1, p) = [i \in 1 .. p |-> ts[i]]
  BY <1>1
<1>4. SubSeq([i \in 1 .. m |-> ts[i]], 1, p) = [i \in 1 .. p |-> ts[i]]
  BY <1>1
<1> QED
  BY <1>2, <1>3, <1>4

\* Tags that are closed from the last to the first are closed.
LEMMA ClosedUp ==
    ASSUME NEW t \in Seq(Token), NEW L \in Nat, NEW ts \in Seq(TagNames),
           Len(t) = L + Len(ts), Stacks(t)[L] = ts,
           \A i \in 1 .. Len(ts) : t[L + i] = Close(ts[Len(ts) + 1 - i])
    PROVE  \A i \in 0 .. Len(ts) : Stacks(t)[L + i] = SubSeq(ts, 1, Len(ts) - i)
<1>1. PICK st, n, T : /\ st = Stacks(t) /\ n = Len(ts)
                      /\ T = {i \in 0 .. n : st[L + i] = SubSeq(ts, 1, n - i)}
  OBVIOUS
<1>2. Reading(st, t, Len(t)) /\ Len(t) \in Nat /\ n \in Nat
  BY <1>1, StacksRead
<1>3. 0 \in T
  <2>1. L + 0 = L /\ n - 0 = n /\ SubSeq(ts, 1, n) = ts
    BY <1>1, <1>2
  <2> QED
    BY <1>1, <1>2, <2>1
<1>4. ASSUME NEW i \in 0 .. n - 1, i \in T PROVE i + 1 \in T
  <2>1. PICK m \in Nat : m = n - i
    BY <1>2
  <2>2. m \in 1 .. n /\ n - (i + 1) = m - 1 /\ n + 1 - (i + 1) = m /\ i + 1 \in 1 .. n
    BY <1>2, <2>1
  <2>3. L + i \in Nat /\ L + i < Len(t) /\ L + (i + 1) = L + i + 1
    BY <1>1, <1>2, <2>2
  <2>4. st[L + (i + 1)] = After(st[L + i], t[L + (i + 1)])
    <3>1. PICK j \in Nat : j = L + i
      BY <2>3
    <3>2. st[j + 1] = After(st[j], t[j + 1])
      BY <1>2, <2>3, <3>1, ReadingStep
    <3> QED
      BY <2>3, <3>1, <3>2
  <2>5. t[L + (i + 1)] = Close(ts[m])
    BY <1>1, <2>2
  <2>6. PICK top : top = SubSeq(ts, 1, m)
    OBVIOUS
  <2>7. st[L + i] = top
    BY <1>1, <1>4, <2>1, <2>6
  <2>8. top \in Seq(TagNames) /\ Len(top) = m /\ top # <<>> /\ top[m] = ts[m]
    BY <1>1, <2>2, <2>6, TopOf
  <2>9. Last(top) = ts[m] /\ Front(top) = SubSeq(top, 1, m - 1)
    BY <2>8 DEF Last, Front
  <2>10. SubSeq(top, 1, m - 1) = SubSeq(ts, 1, m - 1)
    <3>1. PICK p \in Nat : p = m - 1
      BY <2>2
    <3>2. p <= m /\ m <= Len(ts)
      BY <1>1, <1>2, <2>2, <3>1
    <3> QED
      BY <2>6, <3>1, <3>2, FrontOfFront
  <2>11. After(top, Close(ts[m])) = Front(top)
    BY <2>8, <2>9 DEF After, Close
  <2>12. st[L + (i + 1)] = SubSeq(ts, 1, n - (i + 1))
    BY <2>2, <2>4, <2>5, <2>7, <2>9, <2>10, <2>11
  <2> QED
    BY <1>1, <2>2, <2>12
<1>5. \A i \in 0 .. n : i \in T
  BY <1>2, <1>3, <1>4, StepByStep
<1> QED
  BY <1>1, <1>5

\* Every closing tag closes the one opened last.
Nested(s) ==
    \A i \in DOMAIN s : s[i][1] = "close" =>
        Stacks(s)[i - 1] # <<>> /\ Last(Stacks(s)[i - 1]) = s[i][2]

\* _close_tags closes the last one first.
LEMMA ClosingMeans ==
    ASSUME NEW ts \in Seq(TagNames)
    PROVE  /\ Closing(ts) \in Seq(Token)
           /\ Len(Closing(ts)) = Len(ts)
           /\ \A i \in 1 .. Len(ts) : Closing(ts)[i] = Close(ts[Len(ts) + 1 - i])
<1>1. Len(ts) \in Nat /\ DOMAIN ts = 1 .. Len(ts)
  OBVIOUS
<1>2. \A i \in 1 .. Len(ts) : Len(ts) + 1 - i \in 1 .. Len(ts)
  BY <1>1
<1>3. Closing(ts) = [i \in 1 .. Len(ts) |-> Close(ts[Len(ts) + 1 - i])]
  BY <1>1 DEF Closing
<1>4. \A i \in 1 .. Len(ts) : Close(ts[Len(ts) + 1 - i]) \in Token
  BY <1>2 DEF Token
<1> QED
  BY <1>1, <1>3, <1>4

\* Place i, which is j after L, is m from the end of the N places there.
FromTheEnd(L, N, i, j, m) ==
    /\ j \in 1 .. N /\ m \in 1 .. N /\ i = L + j /\ j - 1 \in 0 .. N
    /\ i - 1 = L + (j - 1) /\ m = N - (j - 1) /\ m = N + 1 - j

\* Each of the N places after L has a number from the end.
LEMMA CountedFromTheEnd ==
    ASSUME NEW L \in Nat, NEW N \in Nat, NEW i \in Nat, L < i, i <= L + N
    PROVE  \E j, m : FromTheEnd(L, N, i, j, m)
<1>1. PICK j \in Nat, m \in Int : j = i - L /\ m = N + 1 - j
  OBVIOUS
<1>2. FromTheEnd(L, N, i, j, m)
  BY <1>1 DEF FromTheEnd
<1> QED
  BY <1>2

\* Places a to b, and the tags ts closed.
ChunkOf(s, a, b, ts) == SubSeq(s, a, b) \o Closing(ts)

\* A chunk that starts where nothing is open, and is closed, has its tags matched.
LEMMA ChunkMatches ==
    ASSUME NEW s \in Seq(Token), Nested(s), NEW a \in Nat \ {0}, NEW b \in Nat,
           a <= b, b <= Len(s), Stacks(s)[a - 1] = <<>>,
           NEW chunk, chunk = ChunkOf(s, a, b, Stacks(s)[b])
    PROVE  Matches(chunk)
<1>1. PICK ts, body, ending, L : /\ ts = Stacks(s)[b] /\ body = SubSeq(s, a, b) /\ ending = Closing(ts)
                             /\ L = b - a + 1
  OBVIOUS
<1>2. ts \in Seq(TagNames) /\ L \in Nat /\ Len(ts) \in Nat
  BY <1>1, StacksTypes
<1>3. /\ Len(s) \in Nat /\ DOMAIN s = 1 .. Len(s)
      /\ a - 1 \in Nat /\ a - 1 + L = b /\ L \in 0 .. L /\ a - 1 + L <= Len(s)
      /\ \A i \in 1 .. L : i - 1 \in 0 .. L /\ a - 1 + i \in DOMAIN s /\ a - 1 + (i - 1) = a - 1 + i - 1
  BY <1>1, <1>2
<1>4. body \in Seq(Token) /\ Len(body) = L /\ \A i \in 1 .. L : body[i] = s[a - 1 + i]
  <2>1. L \in Nat /\ L = b - a + 1 /\ b <= Len(s)
    BY <1>1, <1>2
  <2>2. PICK part : part = SubSeq(s, a, b)
    OBVIOUS
  <2>3. part \in Seq(Token) /\ Len(part) = L /\ \A i \in 1 .. L : part[i] = s[a - 1 + i]
    BY <2>1, <2>2, PartOf
  <2> QED
    BY <1>1, <2>2, <2>3
<1>5. ending \in Seq(Token) /\ Len(ending) = Len(ts)
  BY <1>1, <1>2, ClosingMeans
<1>6. chunk = body \o ending
  BY <1>1 DEF ChunkOf
<1>7. /\ chunk \in Seq(Token) /\ Len(chunk) = L + Len(ts)
      /\ \A i \in 1 .. L : chunk[i] = body[i]
      /\ \A i \in 1 .. Len(ts) : chunk[L + i] = ending[i]
  <2>1. body \in Seq(Token) /\ ending \in Seq(Token)
    BY <1>4, <1>5
  <2>2. chunk \in Seq(Token) /\ IsJoin(chunk, body, ending)
    BY <1>6, <2>1, JoinOf
  <2> QED
    BY <1>4, <1>5, <2>2 DEF IsJoin
<1>8. \A i \in 0 .. L : Stacks(chunk)[i] = Stacks(s)[a - 1 + i]
  <2>1. \A i \in 1 .. L : chunk[i] = s[a - 1 + i]
    BY <1>4, <1>7
  <2>2. L <= L + Len(ts)
    BY <1>2
  <2>3. PICK p \in Nat : p = a - 1
    BY <1>3
  <2>4. /\ p + L <= Len(s) /\ L <= Len(chunk) /\ Stacks(s)[p] = <<>>
        /\ \A i \in 1 .. L : chunk[i] = s[p + i]
    BY <1>3, <1>7, <2>1, <2>2, <2>3
  <2>5. ReadsAs(chunk, L, s, p)
    <3>1. chunk \in Seq(Token) /\ L \in Nat
      BY <1>2, <1>7
    <3> QED
      BY <2>4, <3>1, ReadOn
  <2> QED
    BY <2>3, <2>5 DEF ReadsAs
<1>9. Stacks(chunk)[L] = ts
  BY <1>3, <1>1, <1>8
<1>10. \A i \in 0 .. Len(ts) : Stacks(chunk)[L + i] = SubSeq(ts, 1, Len(ts) - i)
  <2>1. \A i \in 1 .. Len(ts) : chunk[L + i] = Close(ts[Len(ts) + 1 - i])
    BY <1>1, <1>2, <1>7, ClosingMeans
  <2> QED
    BY <1>2, <1>7, <1>9, <2>1, ClosedUp
<1>11. Stacks(chunk)[Len(chunk)] = <<>>
  <2>1. Len(ts) \in 0 .. Len(ts) /\ Len(ts) - Len(ts) = 0
    BY <1>2
  <2>2. SubSeq(ts, 1, 0) = <<>>
    BY <1>2
  <2> QED
    BY <1>7, <1>10, <2>1, <2>2
<1>12. ASSUME NEW i \in DOMAIN chunk, chunk[i][1] = "close"
       PROVE  Stacks(chunk)[i - 1] # <<>> /\ Last(Stacks(chunk)[i - 1]) = chunk[i][2]
  <2>1. i \in Nat /\ 1 <= i /\ i <= L + Len(ts)
    BY <1>2, <1>7
  <2>2. CASE i <= L
    <3>1. i \in 1 .. L
      BY <1>2, <2>1, <2>2
    <3>2. i - 1 \in 0 .. L /\ i \in 1 .. L /\ a - 1 + i \in DOMAIN s /\ a - 1 + (i - 1) = a - 1 + i - 1
      BY <1>3, <3>1
    <3>3. PICK l : l = a - 1 + i
      OBVIOUS
    <3>4. l \in DOMAIN s /\ a - 1 + (i - 1) = l - 1
      BY <3>2, <3>3
    <3>5. Stacks(chunk)[i - 1] = Stacks(s)[l - 1]
      BY <1>8, <3>2, <3>4
    <3>6. chunk[i] = s[l]
      BY <1>4, <1>7, <3>2, <3>3
    <3>7. l \in DOMAIN s /\ Stacks(chunk)[i - 1] = Stacks(s)[l - 1] /\ chunk[i] = s[l]
      BY <3>4, <3>5, <3>6
    <3>8. s[l][1] = "close"
      BY <1>12, <3>7
    <3>9. Stacks(s)[l - 1] # <<>> /\ Last(Stacks(s)[l - 1]) = s[l][2]
      BY <3>7, <3>8 DEF Nested
    <3> QED
      BY <3>7, <3>9
  <2>3. CASE L < i
    <3>1. PICK N \in Nat : N = Len(ts)
      BY <1>2
    <3>2. L \in Nat /\ i \in Nat /\ i <= L + N
      BY <1>2, <2>1, <3>1
    <3>3. PICK j, m : FromTheEnd(L, N, i, j, m)
      BY <2>3, <3>2, CountedFromTheEnd
    <3>4. /\ j \in 1 .. N /\ m \in 1 .. N /\ i = L + j /\ j - 1 \in 0 .. N
          /\ i - 1 = L + (j - 1) /\ m = N - (j - 1) /\ m = N + 1 - j
      BY <3>3 DEF FromTheEnd
    <3>5. j \in 1 .. Len(ts) /\ j - 1 \in 0 .. Len(ts) /\ m = Len(ts) - (j - 1) /\ m = Len(ts) + 1 - j
      BY <3>1, <3>4
    <3>6. m \in 1 .. Len(ts)
      BY <3>1, <3>4
    <3>7. Stacks(chunk)[i - 1] = SubSeq(ts, 1, m)
      BY <1>10, <3>5, <3>4
    <3>8. chunk[i] = Close(ts[m])
      <4>1. ending[j] = Close(ts[Len(ts) + 1 - j])
        BY <1>1, <1>2, <3>5, ClosingMeans
      <4> QED
        BY <1>7, <3>5, <3>4, <4>1
    <3>9. PICK top : top = SubSeq(ts, 1, m)
      OBVIOUS
    <3>10. Len(top) = m /\ top # <<>> /\ top[m] = ts[m]
      BY <1>2, <3>6, <3>9, TopOf
    <3>11. Last(top) = ts[m] /\ chunk[i][2] = ts[m]
      BY <3>8, <3>10 DEF Last, Close
    <3> QED
      BY <3>7, <3>9, <3>10, <3>11
  <2> QED
    BY <1>2, <2>1, <2>2, <2>3
<1> QED
  BY <1>11, <1>12 DEF Matches

\* _reopen_tags opens tags and does nothing else.
LEMMA ReopeningMeans ==
    ASSUME NEW ts \in Seq(TagNames)
    PROVE  Reopening(ts) \in Seq({Open(t) : t \in TagNames}) /\ (ts = <<>> => Reopening(ts) = <<>>)
<1> DEFINE Opened == {Open(t) : t \in TagNames}
           Next(again, i) == IF ts[i] = "a" THEN again[i - 1] ELSE Append(again[i - 1], Open(ts[i]))
           Whole(again) == again = [i \in 0 .. Len(ts) |-> IF i = 0 THEN <<>> ELSE Next(again, i)]
           Loop(again, n) == /\ again = [i \in 0 .. n |-> again[i]] /\ again[0] = <<>>
                             /\ \A i \in 1 .. n : again[i] = Next(again, i)
<1>1. Len(ts) \in Nat /\ DOMAIN ts = 1 .. Len(ts)
  OBVIOUS
<1>2. PICK T : T = {n \in 0 .. Len(ts) : \E again : Loop(again, n)}
  OBVIOUS
<1>3. 0 \in T
  <2>1. PICK again : again = [i \in 0 .. 0 |-> <<>>]
    OBVIOUS
  <2>2. again[0] = <<>> /\ again = [i \in 0 .. 0 |-> again[i]]
    BY <2>1
  <2>3. Loop(again, 0)
    BY <2>2
  <2> HIDE DEF Loop
  <2> QED
    BY <1>1, <1>2, <2>3
<1>4. ASSUME NEW k \in 0 .. Len(ts) - 1, k \in T PROVE k + 1 \in T
  <2>1. PICK again : Loop(again, k)
    <3> HIDE DEF Loop
    <3> QED
      BY <1>2, <1>4
  <2>2. PICK new : new = IF ts[k + 1] = "a" THEN again[k] ELSE Append(again[k], Open(ts[k + 1]))
    OBVIOUS
  <2>3. PICK more : more = [i \in 0 .. k + 1 |-> IF i = k + 1 THEN new ELSE again[i]]
    OBVIOUS
  <2>4. k \in Nat /\ k \in 0 .. k /\ k + 1 \in 1 .. Len(ts) /\ 0 # k + 1 /\ 0 \in 0 .. k + 1 /\ k + 1 \in 0 .. Len(ts)
    BY <1>1
  <2>5. more[0] = <<>>
    BY <2>1, <2>3, <2>4
  <2>6. \A i \in 0 .. k : more[i] = again[i]
    BY <2>3, <2>4
  <2>7. more[k + 1] = new
    BY <2>3, <2>4
  <2>8. ASSUME NEW i \in 1 .. k + 1 PROVE more[i] = Next(more, i)
    <3>1. i - 1 \in 0 .. k /\ (i \in 1 .. k \/ i = k + 1)
      BY <2>4
    <3>2. more[i - 1] = again[i - 1]
      BY <2>6, <3>1
    <3>3. CASE i = k + 1
      <4>1. i - 1 = k
        BY <2>4, <3>3
      <4> QED
        BY <2>2, <2>7, <3>2, <3>3, <4>1
    <3>4. CASE i \in 1 .. k
      <4>1. i \in 0 .. k
        BY <2>4, <3>4
      <4>2. more[i] = again[i] /\ again[i] = Next(again, i)
        <5> HIDE DEF Next
        <5> QED
          BY <2>1, <2>6, <3>4, <4>1
      <4> QED
        BY <3>2, <4>2
    <3> QED
      BY <3>1, <3>3, <3>4
  <2>9. more = [i \in 0 .. k + 1 |-> more[i]]
    BY <2>3
  <2>10. Loop(more, k + 1)
    <3> HIDE DEF Next
    <3> QED
      BY <2>5, <2>8, <2>9
  <2> HIDE DEF Loop
  <2> QED
    BY <1>2, <2>4, <2>10
<1>5. PICK again : Loop(again, Len(ts))
  <2>1. \A i \in 0 .. Len(ts) : i \in T
    BY <1>1, <1>3, <1>4, StepByStep
  <2>2. Len(ts) \in T
    BY <1>1, <2>1
  <2> HIDE DEF Loop
  <2> QED
    BY <1>2, <2>2
<1>6. Whole(again)
  <2>1. ASSUME NEW i \in 0 .. Len(ts) PROVE again[i] = IF i = 0 THEN <<>> ELSE Next(again, i)
    <3>1. i = 0 \/ i \in 1 .. Len(ts)
      BY <1>1
    <3>2. 0 \notin 1 .. Len(ts)
      BY <1>1
    <3> HIDE DEF Next
    <3> QED
      BY <1>5, <3>1, <3>2
  <2>2. again = [i \in 0 .. Len(ts) |-> again[i]]
    BY <1>5
  <2> HIDE DEF Next
  <2> QED
    BY <2>1, <2>2
<1>7. PICK g : Whole(g) /\ Reopening(ts) = g[Len(ts)]
  <2>1. Reopening(ts) = (CHOOSE g : Whole(g))[Len(ts)]
    BY DEF Reopening
  <2>2. Whole(CHOOSE g : Whole(g))
    <3> HIDE DEF Whole
    <3> QED
      BY <1>6
  <2> QED
    BY <2>1, <2>2
<1>8. \A i \in 0 .. Len(ts) : g[i] \in Seq(Opened)
  <2>1. PICK U : U = {i \in 0 .. Len(ts) : g[i] \in Seq(Opened)}
    OBVIOUS
  <2>2. 0 \in U
    <3>1. g[0] = <<>> /\ <<>> \in Seq(Opened) /\ 0 \in 0 .. Len(ts)
      BY <1>1, <1>7
    <3> HIDE DEF Opened
    <3> QED
      BY <2>1, <3>1
  <2>3. ASSUME NEW i \in 0 .. Len(ts) - 1, i \in U PROVE i + 1 \in U
    <3>1. i + 1 \in 0 .. Len(ts) /\ i + 1 # 0 /\ i + 1 \in 1 .. Len(ts) /\ i + 1 - 1 = i
      BY <1>1
    <3>2. g[i + 1] = IF ts[i + 1] = "a" THEN g[i] ELSE Append(g[i], Open(ts[i + 1]))
      <4>1. PICK j : j = i + 1
        OBVIOUS
      <4>2. j \in 0 .. Len(ts) /\ j # 0 /\ j - 1 = i
        BY <3>1, <4>1
      <4>3. g[j] = IF ts[j] = "a" THEN g[j - 1] ELSE Append(g[j - 1], Open(ts[j]))
        BY <1>7, <4>2
      <4> QED
        BY <4>1, <4>2, <4>3
    <3>3. Open(ts[i + 1]) \in Opened
      BY <1>1, <3>1
    <3>4. g[i] \in Seq(Opened)
      BY <2>1, <2>3
    <3>5. g[i + 1] \in Seq(Opened)
      <4> HIDE DEF Opened
      <4> QED
        BY <3>2, <3>3, <3>4
    <3> HIDE DEF Opened
    <3> QED
      BY <2>1, <3>1, <3>5
  <2>4. \A i \in 0 .. Len(ts) : i \in U
    BY <1>1, <2>2, <2>3, StepByStep
  <2> QED
    BY <2>1, <2>4
<1>9. ts = <<>> => g[Len(ts)] = <<>>
  <2>1. g[0] = <<>>
    BY <1>1, <1>7
  <2> QED
    BY <2>1
<1>10. g[Len(ts)] \in Seq(Opened)
  BY <1>1, <1>8
<1> QED
  BY <1>7, <1>9, <1>10

-----------------------------------------------------------------------------
(* Where a message is cut.                                                  *)

\* A set of naturals has a least element.
LEMMA LeastOf ==
    ASSUME NEW S \in SUBSET Nat, S # {}
    PROVE  Min(S) \in S /\ \A x \in S : Min(S) <= x
<1> DEFINE R == {ss \in Nat \X Nat : ss[1] < ss[2]}
<1>1. IsWellFoundedOn(R, Nat)
  BY NatLessThanWellFounded DEF OpToRel
<1>2. \E x \in S : \A y \in S : ~(<<y, x>> \in R)
  <2> HIDE DEF R
  <2> QED
    BY <1>1, WFMin, Zenon
<1>3. PICK x \in S : \A y \in S : ~(<<y, x>> \in R)
  BY <1>2
<1>4. \A y \in S : x <= y
  <2> SUFFICES ASSUME NEW y \in S PROVE x <= y
    OBVIOUS
  <2>1. x \in Nat /\ y \in Nat
    OBVIOUS
  <2>2. y < x => <<y, x>> \in R
    BY <2>1
  <2> HIDE DEF R
  <2> QED
    BY <1>3, <2>1, <2>2
<1> QED
  BY <1>4 DEF Min

\* A bounded one has a greatest.
LEMMA GreatestOf ==
    ASSUME NEW n \in Nat, NEW S \in SUBSET (0 .. n), S # {}
    PROVE  Max(S) \in S
<1>1. PICK D : D = {n - x : x \in S}
  OBVIOUS
<1>2. D \subseteq Nat /\ D # {}
  <2>1. \A x \in S : n - x \in Nat
    OBVIOUS
  <2> QED
    BY <1>1, <2>1
<1>3. PICK d : d = Min(D)
  OBVIOUS
<1>4. d \in D /\ \A e \in D : d <= e
  BY <1>2, <1>3, LeastOf
<1>5. PICK x \in S : d = n - x
  BY <1>1, <1>4
<1>6. ASSUME NEW y \in S PROVE x >= y
  <2>1. n - y \in D
    BY <1>1
  <2>2. n - x <= n - y
    BY <1>4, <1>5, <2>1
  <2> QED
    BY <2>2
<1> QED
  BY <1>6 DEF Max

\* A sequence is not shorter than its tokens are many; one token is a tag at most.
LEMMA SizeBounds ==
    ASSUME NEW s \in Seq(Token)
    PROVE  Size(s) \in Nat /\ Len(s) <= Size(s) /\ (Len(s) = 1 => Size(s) <= TagWidth)
<1>1. PICK I : I = {i \in DOMAIN s : IsTag(s[i])}
  OBVIOUS
<1>2. Len(s) \in Nat /\ DOMAIN s = 1 .. Len(s) /\ I \subseteq 1 .. Len(s)
  BY <1>1
<1>3. /\ IsFiniteSet(1 .. Len(s))
      /\ Cardinality(1 .. Len(s)) = IF 1 > Len(s) THEN 0 ELSE Len(s) - 1 + 1
  BY <1>2, FS_Interval
<1>4. IsFiniteSet(I) /\ Cardinality(I) <= Cardinality(1 .. Len(s))
  BY <1>2, <1>3, FS_Subset
<1>5. Cardinality(I) \in Nat
  BY <1>4, FS_CardinalityType
<1>6. PICK w \in Nat : w = TagWidth - 1
  BY ChunksAssumption
<1>7. PICK c \in Nat : c = Cardinality(I)
  BY <1>5
<1>8. Size(s) = Len(s) + w * c
  BY <1>1, <1>6, <1>7 DEF Size
<1>9. w * c \in Nat
  BY <1>6, <1>7
<1>10. Len(s) = 1 => w * c <= w
  <2> SUFFICES ASSUME Len(s) = 1 PROVE w * c <= w
    OBVIOUS
  <2>1. c = 0 \/ c = 1
    BY <1>3, <1>4, <1>7
  <2>2. w * 0 = 0 /\ w * 1 = w
    BY <1>6
  <2> QED
    BY <2>1, <2>2
<1> QED
  BY <1>2, <1>6, <1>8, <1>9, <1>10, ChunksAssumption

\* Up to LastWhole a chunk is as long as it may be, and not empty.
LEMMA LastWholeFits ==
    ASSUME html \in Seq(Token), start \in 1 .. Len(html)
    PROVE  LastWhole \in start .. Len(html) /\ Size(Upto(LastWhole)) <= MaxLength
<1>1. Len(html) \in Nat /\ start \in Nat /\ 1 <= start /\ start <= Len(html)
  OBVIOUS
<1>2. MaxLength \in Nat /\ TagWidth \in Nat /\ TagWidth < MaxLength /\ 1 <= TagWidth
  BY ChunksAssumption
<1>3. PICK top : top = Min({Len(html), start + MaxLength - 1})
  OBVIOUS
<1>4. top \in Nat /\ start <= top /\ top <= Len(html)
  <2>1. PICK S : S = {Len(html), start + MaxLength - 1}
    OBVIOUS
  <2>2. S \subseteq Nat /\ S # {}
    BY <1>1, <1>2, <2>1
  <2>3. top \in S /\ top <= Len(html)
    BY <1>3, <2>1, <2>2, LeastOf
  <2> QED
    BY <1>1, <1>2, <2>1, <2>3
<1>5. PICK E : E = {i \in start .. top : Size(Upto(i)) <= MaxLength}
  OBVIOUS
<1>6. start \in E
  <2>1. start \in Nat \ {0} /\ 1 = start - start + 1 /\ start \in start .. top
    BY <1>1, <1>4
  <2>2. Upto(start) \in Seq(Token) /\ Len(Upto(start)) = 1
    BY <1>1, <2>1, PartOf DEF Upto
  <2>3. Size(Upto(start)) <= MaxLength
    BY <1>2, <2>2, SizeBounds
  <2> QED
    BY <1>5, <2>1, <2>3
<1>7. E \subseteq 0 .. Len(html)
  BY <1>1, <1>4, <1>5
<1>8. Max(E) \in E
  BY <1>1, <1>6, <1>7, GreatestOf
<1>9. LastWhole = Max(E)
  BY <1>3, <1>5 DEF LastWhole
<1> QED
  BY <1>1, <1>4, <1>5, <1>8, <1>9

\* LastOf is a place of the token, or 0.
LEMMA LastOfMeans ==
    ASSUME html \in Seq(Token), NEW k, NEW from \in Nat \ {0}, NEW to \in Nat
    PROVE  LastOf(k, from, to) = 0 \/ (LastOf(k, from, to) \in from .. to /\ html[LastOf(k, from, to)] = k)
<1>1. PICK S : S = {0} \cup Indices(k, from, to)
  OBVIOUS
<1>2. S \subseteq 0 .. to /\ S # {}
  BY <1>1 DEF Indices
<1>3. Max(S) \in S
  BY <1>2, GreatestOf
<1> QED
  BY <1>1, <1>3 DEF LastOf, Indices

\* A chunk has a token at least, and only to take in the end of code it is longer
\* than it may be.
LEMMA CutMeans ==
    ASSUME html \in Seq(Token), start \in 1 .. Len(html)
    PROVE  Cut \in start .. Len(html) /\ (Cut <= LastWhole \/ html[Cut] = Close("pre"))
<1>1. PICK last, insideTag, insideCode, ends, code, line, blank :
        /\ last = LastWhole
        /\ insideTag = (Size(Upto(last)) < MaxLength)
        /\ insideCode = (LastOf(Open("pre"), 1, last) > LastOf(Close("pre"), 1, last))
        /\ ends = CodeEnds(last, insideTag)
        /\ code = LastOf(Open("pre"), start, last)
        /\ line = LastOf(Line, start + 1, last)
        /\ blank = LastOf(Blank, start + 1, last)
  OBVIOUS
<1>2. Cut = CASE insideCode /\ ends # {} -> Max(ends)
              [] insideCode /\ ends = {} /\ code > start -> code - 1
              [] OTHER -> IF insideTag \/ (line = 0 /\ blank = 0) THEN last
                          ELSE IF line > 0 THEN line ELSE blank
  BY <1>1 DEF Cut
<1>3. /\ Len(html) \in Nat /\ start \in Nat \ {0} /\ start + 1 \in Nat \ {0} /\ start <= Len(html)
      /\ last \in Nat /\ start <= last /\ last <= Len(html)
  BY <1>1, LastWholeFits
<1>4. CASE insideCode /\ ends # {}
  <2>1. ends \subseteq {i \in last + 1 .. Len(html) : html[i] = Close("pre")}
    BY <1>1, <1>3 DEF CodeEnds, Indices
  <2>2. ends \subseteq 0 .. Len(html)
    BY <1>3, <2>1
  <2>3. Max(ends) \in ends
    BY <1>3, <1>4, <2>2, GreatestOf
  <2>4. Cut = Max(ends)
    BY <1>2, <1>4
  <2>5. PICK m : m = Max(ends)
    OBVIOUS
  <2>6. m \in last + 1 .. Len(html) /\ html[m] = Close("pre")
    BY <2>1, <2>3, <2>5
  <2>7. m \in start .. Len(html)
    BY <1>3, <2>6
  <2> QED
    BY <2>4, <2>5, <2>6, <2>7
<1>5. CASE insideCode /\ ends = {} /\ code > start
  <2>1. code = 0 \/ code \in start .. last
    BY <1>1, <1>3, LastOfMeans
  <2>2. Cut = code - 1
    BY <1>2, <1>5
  <2> QED
    BY <1>1, <1>3, <1>5, <2>1, <2>2
<1>6. CASE ~(insideCode /\ ends # {}) /\ ~(insideCode /\ ends = {} /\ code > start)
  <2>1. Cut = IF insideTag \/ (line = 0 /\ blank = 0) THEN last
              ELSE IF line > 0 THEN line ELSE blank
    BY <1>2, <1>6
  <2>2. line = 0 \/ line \in start + 1 .. last
    BY <1>1, <1>3, LastOfMeans
  <2>3. blank = 0 \/ blank \in start + 1 .. last
    BY <1>1, <1>3, LastOfMeans
  <2>4. Cut \in start .. last
    BY <1>3, <2>1, <2>2, <2>3
  <2> QED
    BY <1>1, <1>3, <2>4
<1> QED
  BY <1>4, <1>5, <1>6

-----------------------------------------------------------------------------
(* The message that is written, and what was sent of it.                    *)

ChunksTypeOK ==
    /\ html \in Seq(Token) /\ open \in Seq(TagNames)
    /\ start \in 1 .. Len(html) + 1
    /\ cuts \in Seq([tags : Seq(TagNames), code : BOOLEAN])
    /\ displayed \in Seq(Seq(Token))
    /\ rejected \subseteq {Letter(n) : n \in Nat}
    /\ unformatted \subseteq 1 .. Len(cuts) + 1
    /\ progress \in {"writing", "cutting", "done"}

\* The message is well formed while it is written, and nothing of it was sent.
WritingOK ==
    progress = "writing" =>
        /\ start = 1 /\ cuts = <<>> /\ displayed = <<>> /\ rejected = {} /\ unformatted = {}
        /\ \A i \in DOMAIN html : html[i][1] = "letter" => html[i][2] = i
        /\ Nested(html) /\ OpenAt(Len(html)) = open

LettersIn(s, i, j) == {s[k] : k \in {l \in i .. j : s[l][1] = "letter"}}
Sent == IF progress = "done" THEN Len(html) ELSE start - 1

\* What was sent is shown or rejected.
SentOK ==
    /\ progress = "cutting" => start <= Len(html)
    /\ InOrder(html)
    /\ ShownLetters \cap rejected = {} /\ ShownLetters \cup rejected = LettersIn(html, 1, Sent)
    /\ ShownInOrder

\* As long as no cut was inside a tag, the rest of the message is as it was written.
Clean == \A i \in DOMAIN cuts : cuts[i].tags = <<>>
PlainOK ==
    progress = "cutting" /\ Clean =>
        Nested(html) /\ OpenAt(Len(html)) = <<>> /\ OpenAt(start - 1) = <<>>

RejectedOK == rejected # {} => \E i \in DOMAIN cuts : cuts[i].code
FormatOK == \A i \in unformatted : \E j \in 1 .. i - 1 : cuts[j].tags # <<>>

ChunksInv ==
    /\ ChunksTypeOK /\ WritingOK /\ SentOK /\ PlainOK /\ RejectedOK /\ FormatOK

\* An empty message.
LEMMA ChunksInvInit == ASSUME ChunksInit PROVE ChunksInv
<1>1. /\ html = <<>> /\ open = <<>> /\ cuts = <<>> /\ displayed = <<>>
      /\ rejected = {} /\ unformatted = {} /\ start = 1 /\ progress = "writing"
  BY DEF ChunksInit
<1>2. PICK e : e = html
  OBVIOUS
<1>3. e \in Seq(Token) /\ Len(e) = 0 /\ DOMAIN e = {}
  BY <1>1, <1>2
<1>4. Stacks(e)[0] = <<>>
  BY <1>3, StacksRead DEF Reading
<1>5. ChunksTypeOK
  BY <1>1 DEF ChunksTypeOK
<1>6. WritingOK
  BY <1>1, <1>2, <1>3, <1>4 DEF WritingOK, Nested, OpenAt
<1>7. SentOK
  <2>1. InOrder(html)
    BY <1>2, <1>3 DEF InOrder
  <2>2. ShownLetters = {} /\ ShownInOrder
    BY <1>1 DEF ShownLetters, ShownInOrder
  <2>3. LettersIn(html, 1, Sent) = {}
    BY <1>1 DEF LettersIn, Sent
  <2> QED
    BY <1>1, <2>1, <2>2, <2>3 DEF SentOK
<1> QED
  BY <1>1, <1>5, <1>6, <1>7 DEF ChunksInv, PlainOK, RejectedOK, FormatOK

\* What is added to a message leaves what was read of it.
ReadsOn(u, s, t) ==
    /\ u \in Seq(Token) /\ IsJoin(u, s, t)
    /\ \A i \in 0 .. Len(s) : Stacks(u)[i] = Stacks(s)[i]

\* It is read as before, and then goes on.
LEMMA ReadSoFar ==
    ASSUME NEW s \in Seq(Token), NEW t \in Seq(Token), NEW u, u = s \o t
    PROVE  ReadsOn(u, s, t)
<1>1. u \in Seq(Token) /\ IsJoin(u, s, t)
  BY JoinOf
<1>2. Len(s) \in Nat /\ Len(t) \in Nat /\ Len(u) = Len(s) + Len(t) /\ \A i \in 1 .. Len(s) : u[i] = s[i]
  BY <1>1 DEF IsJoin
<1>3. Stacks(u)[0] = <<>>
  BY <1>1, <1>2, StacksRead DEF Reading
<1>4. PICK z \in Nat : z = 0
  OBVIOUS
<1>5. /\ z + Len(s) <= Len(u) /\ Stacks(u)[z] = <<>>
      /\ \A i \in 1 .. Len(s) : s[i] = u[z + i]
  BY <1>2, <1>3, <1>4
<1>6. ReadsAs(s, Len(s), u, z)
  <2>1. PICK n \in Nat : n = Len(s)
    BY <1>2
  <2>2. /\ z + n <= Len(u) /\ n <= Len(s) /\ Stacks(u)[z] = <<>>
        /\ \A i \in 1 .. n : s[i] = u[z + i]
    BY <1>2, <1>5, <2>1
  <2>3. ReadsAs(s, n, u, z)
    BY <1>1, <2>2, ReadOn
  <2> QED
    BY <2>1, <2>3
<1>7. \A i \in 0 .. Len(s) : Stacks(u)[i] = Stacks(s)[i]
  BY <1>2, <1>4, <1>6 DEF ReadsAs
<1> QED
  BY <1>1, <1>7 DEF ReadsOn

\* It stays nested if each closing tag that is added closes the last one.
LEMMA NestedSoFar ==
    ASSUME NEW s \in Seq(Token), NEW t \in Seq(Token), NEW u, u = s \o t, Nested(s),
           \A i \in 1 .. Len(t) : t[i][1] = "close" =>
              Stacks(u)[Len(s) + i - 1] # <<>> /\ Last(Stacks(u)[Len(s) + i - 1]) = t[i][2]
    PROVE  Nested(u)
<1>1. u \in Seq(Token) /\ IsJoin(u, s, t) /\ \A i \in 0 .. Len(s) : Stacks(u)[i] = Stacks(s)[i]
  BY ReadSoFar DEF ReadsOn
<1>2. /\ Len(s) \in Nat /\ Len(t) \in Nat /\ Len(u) = Len(s) + Len(t)
      /\ \A i \in 1 .. Len(s) : u[i] = s[i]
      /\ \A i \in 1 .. Len(t) : u[Len(s) + i] = t[i]
  BY <1>1 DEF IsJoin
<1> SUFFICES ASSUME NEW i \in DOMAIN u, u[i][1] = "close"
             PROVE  Stacks(u)[i - 1] # <<>> /\ Last(Stacks(u)[i - 1]) = u[i][2]
  BY DEF Nested
<1>3. i \in 1 .. Len(u)
  BY <1>1
<1>4. CASE i \in 1 .. Len(s)
  <2>1. i - 1 \in 0 .. Len(s) /\ i \in DOMAIN s
    BY <1>4
  <2>2. Stacks(u)[i - 1] = Stacks(s)[i - 1] /\ u[i] = s[i]
    BY <1>1, <1>2, <1>4, <2>1
  <2> QED
    BY <2>1, <2>2 DEF Nested
<1>5. CASE i \notin 1 .. Len(s)
  <2>1. PICK j : j = i - Len(s)
    OBVIOUS
  <2>2. j \in 1 .. Len(t) /\ i = Len(s) + j
    BY <1>2, <1>3, <1>5, <2>1
  <2> QED
    BY <1>2, <2>2
<1> QED
  BY <1>4, <1>5

\* Text opens and closes nothing.
LEMMA TextAdded ==
    ASSUME NEW s \in Seq(Token), NEW t \in Seq(Token), NEW u, u = s \o t, Nested(s),
           \A i \in 1 .. Len(t) : t[i][1] \notin {"open", "close"}
    PROVE  Nested(u) /\ Stacks(u)[Len(u)] = Stacks(s)[Len(s)]
<1>1. u \in Seq(Token) /\ IsJoin(u, s, t) /\ \A i \in 0 .. Len(s) : Stacks(u)[i] = Stacks(s)[i]
  <2>1. ReadsOn(u, s, t)
    BY ReadSoFar
  <2> QED
    BY <2>1 DEF ReadsOn
<1>2. /\ Len(s) \in Nat /\ Len(t) \in Nat /\ Len(u) = Len(s) + Len(t) /\ Len(u) \in Nat
      /\ \A i \in 1 .. Len(t) : u[Len(s) + i] = t[i]
  BY <1>1 DEF IsJoin
<1>3. Nested(u)
  <2>1. \A i \in 1 .. Len(t) : t[i][1] # "close"
    OBVIOUS
  <2> QED
    BY <2>1, NestedSoFar
<1>4. PICK st, n, m, T : /\ st = Stacks(u) /\ n = Len(t) /\ m = Len(s)
                         /\ T = {i \in 0 .. n : st[m + i] = st[m]}
  OBVIOUS
<1>5. Reading(st, u, Len(u)) /\ n \in Nat /\ m \in Nat /\ Len(u) = m + n
  BY <1>2, <1>4, StacksRead
<1>6. 0 \in T
  BY <1>4, <1>5
<1>7. ASSUME NEW i \in 0 .. n - 1, i \in T PROVE i + 1 \in T
  <2>1. PICK j \in Nat : j = m + i
    BY <1>5
  <2>2. j < Len(u) /\ j + 1 = m + (i + 1) /\ i + 1 \in 1 .. n /\ i + 1 \in 0 .. n
    BY <1>5, <2>1
  <2>3. st[j + 1] = After(st[j], u[j + 1])
    <3>1. PICK l \in Nat : l = Len(u)
      BY <1>2
    <3>2. Reading(st, u, l) /\ j < l
      BY <1>5, <2>2, <3>1
    <3> QED
      BY <3>2, ReadingStep
  <2>4. u[j + 1] = t[i + 1] /\ t[i + 1][1] \notin {"open", "close"}
    BY <1>2, <1>4, <2>2
  <2>5. st[j + 1] = st[j]
    BY <2>3, <2>4 DEF After
  <2>6. st[j] = st[m]
    BY <1>4, <1>7, <2>1
  <2> QED
    BY <1>4, <2>2, <2>5, <2>6
<1>8. n \in T
  <2>1. \A i \in 0 .. n : i \in T
    BY <1>5, <1>6, <1>7, StepByStep
  <2> QED
    BY <1>5, <2>1
<1>9. Stacks(u)[Len(u)] = Stacks(u)[Len(s)]
  BY <1>4, <1>5, <1>8
<1>10. Len(s) \in 0 .. Len(s)
  BY <1>2
<1> QED
  BY <1>1, <1>3, <1>9, <1>10

\* A tag opens or closes what it says.
LEMMA TagAdded ==
    ASSUME NEW s \in Seq(Token), NEW k \in Token, NEW u, u = s \o <<k>>, Nested(s),
           k[1] = "close" => Stacks(s)[Len(s)] # <<>> /\ Last(Stacks(s)[Len(s)]) = k[2]
    PROVE  Nested(u) /\ Stacks(u)[Len(u)] = After(Stacks(s)[Len(s)], k)
<1>1. PICK t \in Seq(Token) : t = <<k>>
  <2>1. <<k>> \in Seq(Token)
    OBVIOUS
  <2> QED
    BY <2>1
<1>2. Len(t) = 1 /\ t[1] = k
  BY <1>1
<1>3. /\ u \in Seq(Token) /\ IsJoin(u, s, t) /\ u = s \o t
      /\ \A i \in 0 .. Len(s) : Stacks(u)[i] = Stacks(s)[i]
  <2>1. u = s \o t
    BY <1>1
  <2>2. ReadsOn(u, s, t)
    BY <2>1, ReadSoFar
  <2> QED
    BY <2>1, <2>2 DEF ReadsOn
<1>4. Len(s) \in Nat /\ Len(u) = Len(s) + 1 /\ u[Len(s) + 1] = k
  BY <1>2, <1>3 DEF IsJoin
<1>5. Stacks(u)[Len(s)] = Stacks(s)[Len(s)]
  BY <1>3, <1>4
<1>6. Nested(u)
  <2>1. \A i \in 1 .. Len(t) : i = 1 /\ Len(s) + i - 1 = Len(s)
    BY <1>2, <1>4
  <2>2. \A i \in 1 .. Len(t) : t[i][1] = "close" =>
          Stacks(u)[Len(s) + i - 1] # <<>> /\ Last(Stacks(u)[Len(s) + i - 1]) = t[i][2]
    BY <1>2, <1>5, <2>1
  <2> QED
    BY <1>1, <1>3, <2>2, NestedSoFar
<1>7. PICK st : st = Stacks(u)
  OBVIOUS
<1>8. Reading(st, u, Len(u)) /\ Len(u) \in Nat /\ Len(s) < Len(u)
  <2>1. Len(u) \in Nat /\ Len(s) < Len(u)
    BY <1>4
  <2>2. Reading(st, u, Len(u))
    BY <1>7, <2>1, StacksRead
  <2> QED
    BY <2>1, <2>2
<1>9. st[Len(s) + 1] = After(st[Len(s)], u[Len(s) + 1])
  BY <1>4, <1>8, ReadingStep
<1> QED
  BY <1>4, <1>5, <1>6, <1>7, <1>9

\* What a chunk holds of the message.
HoldsOf(chunk, s, a, b) ==
    /\ chunk \in Seq(Token) /\ Letters(chunk) = LettersIn(s, a, b) /\ InOrder(chunk)
    /\ Text(chunk) = {} => Letters(chunk) = {}
    /\ Cardinality(Text(chunk)) <= b - a + 1

\* A chunk holds the letters of its part of the message, in order.
LEMMA ChunkHolds ==
    ASSUME NEW s \in Seq(Token), InOrder(s), NEW a \in Nat \ {0}, NEW b \in Nat,
           a <= b, b <= Len(s), NEW ts \in Seq(TagNames),
           NEW chunk, chunk = ChunkOf(s, a, b, ts)
    PROVE  HoldsOf(chunk, s, a, b)
<1>1. PICK body, ending, L : /\ body = SubSeq(s, a, b) /\ ending = Closing(ts)
                             /\ L = b - a + 1
  OBVIOUS
<1>2. L \in Nat
  BY <1>1
<1>3. body \in Seq(Token) /\ Len(body) = L /\ \A i \in 1 .. L : body[i] = s[a - 1 + i]
  BY <1>1, <1>2, PartOf
<1>4. ending \in Seq(Token) /\ Len(ending) = Len(ts) /\ Len(ts) \in Nat
  BY <1>1, ClosingMeans
<1>5. /\ chunk \in Seq(Token) /\ Len(chunk) = L + Len(ts)
      /\ \A i \in 1 .. L : chunk[i] = body[i]
      /\ \A i \in 1 .. Len(ts) : chunk[L + i] = ending[i]
  <2>1. chunk \in Seq(Token) /\ IsJoin(chunk, body, ending)
    BY <1>1, <1>3, <1>4, JoinOf DEF ChunkOf
  <2> QED
    BY <1>3, <1>4, <2>1 DEF IsJoin
<1>6. \A i \in 1 .. Len(ts) : chunk[L + i][1] = "close"
  <2>1. \A i \in 1 .. Len(ts) : ending[i] = Close(ts[Len(ts) + 1 - i])
    BY <1>1, ClosingMeans
  <2> QED
    <3> SUFFICES ASSUME NEW i \in 1 .. Len(ts) PROVE chunk[L + i][1] = "close"
      OBVIOUS
    <3>1. chunk[L + i] = Close(ts[Len(ts) + 1 - i])
      BY <1>5, <2>1
    <3> QED
      BY <3>1 DEF Close
<1>7. \A i \in DOMAIN chunk : i \in 1 .. L \/ chunk[i][1] = "close"
  <2> SUFFICES ASSUME NEW i \in DOMAIN chunk, i \notin 1 .. L PROVE chunk[i][1] = "close"
    OBVIOUS
  <2>1. i \in 1 .. L + Len(ts)
    BY <1>5
  <2>2. PICK j \in Int : j = i - L
    BY <1>2, <2>1
  <2>3. j \in 1 .. Len(ts) /\ i = L + j
    BY <1>4, <1>2, <2>2, <2>1
  <2> QED
    BY <1>6, <2>3
<1>8. \A i \in 1 .. L : i \in DOMAIN chunk /\ chunk[i] = s[a - 1 + i]
  <2>1. \A i \in 1 .. L : i \in 1 .. L + Len(ts)
    BY <1>2, <1>4
  <2>2. DOMAIN chunk = 1 .. L + Len(ts)
    BY <1>5
  <2> QED
    BY <1>3, <1>5, <2>1, <2>2
<1>9. Letters(chunk) = LettersIn(s, a, b)
  <2>1. ASSUME NEW i \in DOMAIN chunk, chunk[i][1] = "letter" PROVE chunk[i] \in LettersIn(s, a, b)
    <3>1. i \in 1 .. L
      BY <1>7, <2>1
    <3>2. PICK j : j = a - 1 + i
      OBVIOUS
    <3>3. j \in a .. b
      BY <1>1, <3>1, <3>2
    <3>4. chunk[i] = s[j]
      BY <1>8, <3>1, <3>2
    <3> QED
      BY <2>1, <3>3, <3>4 DEF LettersIn
  <2>2. ASSUME NEW j \in a .. b, s[j][1] = "letter" PROVE s[j] \in Letters(chunk)
    <3>1. PICK i : i = j - a + 1
      OBVIOUS
    <3>2. i \in 1 .. L /\ a - 1 + i = j
      BY <1>1, <3>1
    <3>3. i \in DOMAIN chunk /\ chunk[i] = s[j]
      BY <1>8, <3>2
    <3> QED
      BY <2>2, <3>3 DEF Letters
  <2>3. Letters(chunk) \subseteq LettersIn(s, a, b)
    BY <2>1 DEF Letters
  <2>4. LettersIn(s, a, b) \subseteq Letters(chunk)
    BY <2>2 DEF LettersIn
  <2> QED
    BY <2>3, <2>4
<1>10. InOrder(chunk)
  <2> SUFFICES ASSUME NEW i \in DOMAIN chunk, NEW j \in DOMAIN chunk, i < j,
                      chunk[i][1] = "letter", chunk[j][1] = "letter"
               PROVE  chunk[i][2] < chunk[j][2]
    BY DEF InOrder
  <2>1. i \in 1 .. L /\ j \in 1 .. L
    BY <1>7
  <2>2. PICK k, l : k = a - 1 + i /\ l = a - 1 + j
    OBVIOUS
  <2>3. k \in DOMAIN s /\ l \in DOMAIN s /\ k < l
    <3>1. DOMAIN s = 1 .. Len(s) /\ Len(s) \in Nat
      OBVIOUS
    <3>2. k \in 1 .. Len(s)
      BY <1>1, <1>2, <2>1, <2>2, <3>1
    <3>3. l \in 1 .. Len(s)
      BY <1>1, <1>2, <2>1, <2>2, <3>1
    <3>4. i \in Nat /\ j \in Nat
      BY <2>1
    <3> QED
      BY <2>2, <3>1, <3>2, <3>3, <3>4
  <2>4. chunk[i] = s[k] /\ chunk[j] = s[l]
    BY <1>8, <2>1, <2>2
  <2> QED
    BY <2>3, <2>4 DEF InOrder
<1>11. Text(chunk) = {} => Letters(chunk) = {}
  <2>1. \A i \in DOMAIN chunk : chunk[i][1] = "letter" => i \in Text(chunk)
    BY DEF Text, IsTag
  <2> QED
    BY <2>1 DEF Letters
<1>12. Cardinality(Text(chunk)) <= L
  <2>1. Text(chunk) \subseteq 1 .. L
    BY <1>7 DEF Text, IsTag
  <2>2. IsFiniteSet(1 .. L) /\ Cardinality(1 .. L) = IF 1 > L THEN 0 ELSE L - 1 + 1
    BY <1>2, FS_Interval
  <2>3. IsFiniteSet(Text(chunk)) /\ Cardinality(Text(chunk)) <= Cardinality(1 .. L)
    BY <2>1, <2>2, FS_Subset
  <2>4. PICK c : c = Cardinality(Text(chunk)) /\ c \in Nat
    BY <2>3, FS_CardinalityType
  <2>5. PICK e : e = Cardinality(1 .. L) /\ e = L
    BY <1>2, <2>2
  <2> QED
    BY <2>3, <2>4, <2>5
<1> QED
  BY <1>1, <1>5, <1>9, <1>10, <1>11, <1>12 DEF HoldsOf

\* What is sent up to b.
SentUpto(b) ==
    /\ displayed \in Seq(Seq(Token)) /\ rejected \subseteq {Letter(n) : n \in Nat}
    /\ ShownLetters \cap rejected = {} /\ ShownLetters \cup rejected = LettersIn(html, 1, b)
    /\ ShownInOrder

\* The letters up to a and those after it are all up to b, in order.
LEMMA LettersSplit ==
    ASSUME NEW s \in Seq(Token), InOrder(s), NEW a \in Nat, NEW b \in Nat, a <= b, b <= Len(s)
    PROVE  /\ LettersIn(s, 1, b) = LettersIn(s, 1, a) \cup LettersIn(s, a + 1, b)
           /\ \A k \in LettersIn(s, 1, a), l \in LettersIn(s, a + 1, b) : k[2] < l[2]
           /\ LettersIn(s, 1, b) \subseteq {Letter(n) : n \in Nat}
           /\ \A k \in LettersIn(s, 1, b) : k[2] \in Nat
<1>1. \A i \in 1 .. b : i \in DOMAIN s /\ s[i] \in Token
  OBVIOUS
<1>2. \A i \in 1 .. b : i \in 1 .. a \/ i \in a + 1 .. b
  OBVIOUS
<1>3. (\A i \in 1 .. a : i \in 1 .. b) /\ \A i \in a + 1 .. b : i \in 1 .. b
  OBVIOUS
<1>4. \A i \in 1 .. a, j \in a + 1 .. b : i < j
  OBVIOUS
<1>5. LettersIn(s, 1, b) = LettersIn(s, 1, a) \cup LettersIn(s, a + 1, b)
  BY <1>2, <1>3 DEF LettersIn
<1>6. ASSUME NEW k \in LettersIn(s, 1, a), NEW l \in LettersIn(s, a + 1, b) PROVE k[2] < l[2]
  <2>1. PICK i \in 1 .. a : k = s[i] /\ s[i][1] = "letter"
    BY <1>6 DEF LettersIn
  <2>2. PICK j \in a + 1 .. b : l = s[j] /\ s[j][1] = "letter"
    BY <1>6 DEF LettersIn
  <2>3. i \in DOMAIN s /\ j \in DOMAIN s /\ i < j
    BY <1>1, <1>3, <1>4
  <2> QED
    BY <2>1, <2>2, <2>3 DEF InOrder
<1>7. ASSUME NEW k \in LettersIn(s, 1, b) PROVE k \in {Letter(n) : n \in Nat} /\ k[2] \in Nat
  <2>1. PICK i \in 1 .. b : k = s[i] /\ s[i][1] = "letter"
    BY <1>7 DEF LettersIn
  <2>2. k \in Token /\ k[1] = "letter"
    BY <1>1, <2>1
  <2> QED
    BY <2>2, TokensTold
<1> QED
  BY <1>5, <1>6, <1>7

\* A chunk that is sent is shown, or its letters are rejected.
LEMMA SendKeeps ==
    ASSUME html \in Seq(Token), InOrder(html), NEW a \in Nat, SentUpto(a),
           NEW b \in Nat, a <= b, b <= Len(html),
           NEW chunk, HoldsOf(chunk, html, a + 1, b), Send(chunk)
    PROVE  /\ displayed' \in Seq(Seq(Token)) /\ rejected' \subseteq {Letter(n) : n \in Nat}
           /\ ShownLetters' \cap rejected' = {}
           /\ ShownLetters' \cup rejected' = LettersIn(html, 1, b)
           /\ ShownInOrder'
<1>1. /\ displayed \in Seq(Seq(Token)) /\ rejected \subseteq {Letter(n) : n \in Nat}
      /\ ShownLetters \cap rejected = {} /\ ShownLetters \cup rejected = LettersIn(html, 1, a)
      /\ ShownInOrder
  BY DEF SentUpto
<1>2. PICK P, Q, R : P = LettersIn(html, 1, a) /\ Q = LettersIn(html, a + 1, b) /\ R = LettersIn(html, 1, b)
  OBVIOUS
<1>3. /\ R = P \cup Q /\ \A k \in P, l \in Q : k[2] < l[2]
      /\ R \subseteq {Letter(n) : n \in Nat} /\ \A k \in R : k[2] \in Nat
  BY <1>2, LettersSplit
<1>4. P \cap Q = {}
  <2> SUFFICES ASSUME NEW k \in P, k \in Q PROVE FALSE
    OBVIOUS
  <2>1. k[2] < k[2] /\ k[2] \in Nat
    BY <1>3
  <2> QED
    BY <2>1
<1>5. chunk \in Seq(Token) /\ Letters(chunk) = Q /\ InOrder(chunk)
  BY <1>2 DEF HoldsOf
<1>6. CASE Text(chunk) # {} /\ Cardinality(Text(chunk)) <= Limit
  <2>1. displayed' = Append(displayed, chunk) /\ rejected' = rejected
    BY <1>6 DEF Send
  <2>2. PICK n \in Nat : n = Len(displayed)
    BY <1>1
  <2>3. /\ displayed' \in Seq(Seq(Token)) /\ DOMAIN displayed' = 1 .. n + 1
        /\ DOMAIN displayed = 1 .. n
        /\ \A i \in 1 .. n : displayed'[i] = displayed[i]
        /\ displayed'[n + 1] = chunk
    BY <1>1, <1>5, <2>1, <2>2
  <2>4. (1 .. n + 1) = (1 .. n) \cup {n + 1} /\ n + 1 \in 1 .. n + 1 /\ n + 1 \notin 1 .. n
    BY <2>2
  <2>5. ShownLetters' = ShownLetters \cup Q
    <3>1. ASSUME NEW k \in ShownLetters' PROVE k \in ShownLetters \cup Q
      <4>1. PICK c \in 1 .. n + 1 : k \in Letters(displayed'[c])
        BY <2>3, <3>1 DEF ShownLetters
      <4>2. CASE c = n + 1
        BY <1>5, <2>3, <4>1, <4>2
      <4>3. CASE c \in 1 .. n
        BY <2>3, <4>1, <4>3 DEF ShownLetters
      <4> QED
        BY <2>4, <4>2, <4>3
    <3>2. ASSUME NEW k \in ShownLetters PROVE k \in ShownLetters'
      <4>1. PICK c \in 1 .. n : k \in Letters(displayed[c])
        BY <2>3, <3>2 DEF ShownLetters
      <4>2. c \in 1 .. n + 1 /\ displayed'[c] = displayed[c]
        BY <2>3, <2>4
      <4> QED
        BY <2>3, <4>1, <4>2 DEF ShownLetters
    <3>3. Q \subseteq ShownLetters'
      BY <1>5, <2>3, <2>4 DEF ShownLetters
    <3> QED
      BY <3>1, <3>2, <3>3
  <2>6. \A c \in 1 .. n : Letters(displayed[c]) \subseteq P
    <3>1. \A c \in 1 .. n : Letters(displayed[c]) \subseteq ShownLetters
      BY <2>3 DEF ShownLetters
    <3> QED
      BY <1>1, <1>2, <3>1
  <2>7. ASSUME NEW c \in DOMAIN displayed' PROVE InOrder(displayed'[c])
    <3>1. c \in 1 .. n \/ c = n + 1
      BY <2>3, <2>4
    <3>2. CASE c \in 1 .. n
      BY <1>1, <2>3, <3>2 DEF ShownInOrder
    <3>3. CASE c = n + 1
      BY <1>5, <2>3, <3>3
    <3> QED
      BY <3>1, <3>2, <3>3
  <2>8. ASSUME NEW c \in DOMAIN displayed', NEW d \in DOMAIN displayed', c < d,
               NEW k \in Letters(displayed'[c]), NEW l \in Letters(displayed'[d])
        PROVE  k[2] < l[2]
    <3>1. c \in 1 .. n /\ (d \in 1 .. n \/ d = n + 1)
      BY <2>2, <2>3, <2>8
    <3>2. CASE d \in 1 .. n
      BY <1>1, <2>3, <2>8, <3>1, <3>2 DEF ShownInOrder
    <3>3. CASE d = n + 1
      <4>1. k \in P /\ l \in Q
        BY <1>5, <2>3, <2>6, <3>1, <3>3
      <4> QED
        BY <1>3, <4>1
    <3> QED
      BY <3>1, <3>2, <3>3
  <2>9. ShownInOrder'
    BY <2>7, <2>8 DEF ShownInOrder
  <2> QED
    BY <1>1, <1>2, <1>3, <1>4, <2>1, <2>3, <2>5, <2>9
<1>7. CASE ~(Text(chunk) # {} /\ Cardinality(Text(chunk)) <= Limit)
  <2>1. displayed' = displayed /\ rejected' = rejected \cup Q
    BY <1>5, <1>7 DEF Send
  <2>2. ShownLetters' = ShownLetters /\ ShownInOrder'
    BY <1>1, <2>1 DEF ShownLetters, ShownInOrder
  <2> QED
    BY <1>1, <1>2, <1>3, <1>4, <2>1, <2>2
<1> QED
  BY <1>6, <1>7

\* Only a chunk whose text is too long is rejected, and only one whose tags do not
\* match comes as plain text.
LEMMA SendFails ==
    ASSUME NEW s, NEW a, NEW b, NEW chunk, HoldsOf(chunk, s, a, b), Send(chunk)
    PROVE  /\ Cardinality(Text(chunk)) <= Limit => rejected' = rejected
           /\ unformatted' \subseteq unformatted \cup {Len(cuts) + 1}
           /\ Matches(chunk) => unformatted' = unformatted
BY DEF Send, HoldsOf

\* A message is written: t is added, and each of its letters in its place.
LEMMA AddedKeeps ==
    ASSUME ChunksInv, progress = "writing", NEW t \in Seq(Token), html' = html \o t,
           \A i \in 1 .. Len(t) : t[i][1] = "letter" => t[i][2] = Len(html) + i,
           open' \in Seq(TagNames), Nested(html'), Stacks(html')[Len(html')] = open',
           UNCHANGED <<start, cuts, displayed, rejected, unformatted, progress>>
    PROVE  ChunksInv'
<1>1. /\ ChunksTypeOK /\ WritingOK /\ html \in Seq(Token)
      /\ start = 1 /\ cuts = <<>> /\ displayed = <<>> /\ rejected = {} /\ unformatted = {}
  BY DEF ChunksInv, ChunksTypeOK, WritingOK
<1>2. PICK u : u = html'
  OBVIOUS
<1>3. u \in Seq(Token) /\ IsJoin(u, html, t)
  BY <1>1, <1>2, JoinOf
<1>4. /\ Len(html) \in Nat /\ Len(t) \in Nat /\ Len(u) = Len(html) + Len(t)
      /\ \A i \in 1 .. Len(html) : u[i] = html[i]
      /\ \A i \in 1 .. Len(t) : u[Len(html) + i] = t[i]
  BY <1>3 DEF IsJoin
<1>5. ASSUME NEW i \in DOMAIN u, u[i][1] = "letter" PROVE u[i][2] = i
  <2>1. i \in 1 .. Len(html) + Len(t)
    BY <1>3, <1>4
  <2>2. CASE i \in 1 .. Len(html)
    <3>1. i \in DOMAIN html /\ u[i] = html[i]
      BY <1>4, <2>2
    <3> QED
      BY <1>1, <1>5, <3>1 DEF WritingOK
  <2>3. CASE i \notin 1 .. Len(html)
    <3>1. PICK j \in Int : j = i - Len(html)
      BY <1>4, <2>1
    <3>2. j \in 1 .. Len(t) /\ i = Len(html) + j
      BY <1>4, <2>1, <2>3, <3>1
    <3> QED
      BY <1>4, <1>5, <3>2
  <2> QED
    BY <2>2, <2>3
<1>6. InOrder(u)
  BY <1>5 DEF InOrder
<1>7. ChunksTypeOK'
  <2>1. start' = start /\ start \in 1 .. Len(u) + 1
    BY <1>1, <1>4
  <2> QED
    BY <1>1, <1>2, <1>3, <2>1 DEF ChunksTypeOK
<1>8. WritingOK'
  BY <1>1, <1>2, <1>5 DEF WritingOK, OpenAt
<1>9. SentOK'
  <2>1. Sent' = 0
    BY <1>1 DEF Sent
  <2>2. LettersIn(html', 1, 0) = {}
    BY DEF LettersIn
  <2>3. ShownLetters' = {} /\ ShownInOrder'
    BY <1>1 DEF ShownLetters, ShownInOrder
  <2> QED
    BY <1>1, <1>2, <1>6, <2>1, <2>2, <2>3 DEF SentOK
<1> QED
  BY <1>1, <1>7, <1>8, <1>9 DEF ChunksInv, PlainOK, RejectedOK, FormatOK

\* What is known of a message that is being written.
LEMMA WrittenSoFar ==
    ASSUME ChunksInv, progress = "writing"
    PROVE  /\ html \in Seq(Token) /\ Len(html) \in Nat /\ open \in Seq(TagNames)
           /\ Nested(html) /\ Stacks(html)[Len(html)] = open
BY DEF ChunksInv, ChunksTypeOK, WritingOK, OpenAt

\* Text, and a word or a break.
LEMMA WriteTextKeeps ==
    ASSUME ChunksInv, progress = "writing", NEW t \in Seq(Token), Add(t), open' = open,
           \A i \in 1 .. Len(t) : t[i][1] \notin {"open", "close"},
           \A i \in 1 .. Len(t) : t[i][1] = "letter" => t[i][2] = Len(html) + i
    PROVE  ChunksInv'
<1>1. /\ html \in Seq(Token) /\ open \in Seq(TagNames) /\ Nested(html)
      /\ Stacks(html)[Len(html)] = open
  BY WrittenSoFar
<1>2. html' = html \o t /\ UNCHANGED <<start, cuts, displayed, rejected, unformatted, progress>>
  BY DEF Add
<1>3. Nested(html') /\ Stacks(html')[Len(html')] = open'
  <2>1. PICK u : u = html'
    OBVIOUS
  <2>2. Nested(u) /\ Stacks(u)[Len(u)] = open
    BY <1>1, <1>2, <2>1, TextAdded
  <2> QED
    BY <2>1, <2>2
<1> QED
  BY <1>1, <1>2, <1>3, AddedKeeps

LEMMA WriteWordKeeps ==
    ASSUME ChunksInv, NEW w \in Words, WriteWord(w) PROVE ChunksInv'
<1>1. progress = "writing" /\ html \in Seq(Token) /\ Len(html) \in Nat
  BY WrittenSoFar DEF WriteWord, Writing
<1>2. w \in Nat
  BY ChunksAssumption
<1>3. PICK t : t = [i \in 1 .. w |-> Letter(Len(html) + i)]
  OBVIOUS
<1>4. \A i \in 1 .. w : t[i] = Letter(Len(html) + i) /\ t[i] \in Token
  BY <1>1, <1>3 DEF Token
<1>5. t \in Seq(Token) /\ Len(t) = w
  BY <1>2, <1>3, <1>4
<1>6. \A i \in 1 .. Len(t) : t[i][1] = "letter" /\ t[i][2] = Len(html) + i
  BY <1>4, <1>5 DEF Letter
<1>7. Add(t) /\ open' = open
  BY <1>3 DEF WriteWord
<1> QED
  BY <1>1, <1>5, <1>6, <1>7, WriteTextKeeps

LEMMA WriteBreakKeeps ==
    ASSUME ChunksInv, NEW k \in {Blank, Line}, WriteBreak(k) PROVE ChunksInv'
<1>1. progress = "writing"
  BY DEF WriteBreak, Writing
<1>2. k \in Token /\ k[1] \in {"blank", "line"}
  BY DEF Token, Blank, Line
<1>3. PICK t : t = <<k>>
  OBVIOUS
<1>4. t \in Seq(Token) /\ Len(t) = 1 /\ t[1] = k
  BY <1>2, <1>3
<1>5. \A i \in 1 .. Len(t) : t[i][1] \in {"blank", "line"}
  BY <1>2, <1>4
<1>6. Add(t) /\ open' = open
  BY <1>3 DEF WriteBreak
<1> QED
  BY <1>1, <1>4, <1>5, <1>6, WriteTextKeeps

\* A tag, opening or closing.
LEMMA WriteTagKeeps ==
    ASSUME ChunksInv, progress = "writing", NEW k \in Token, k[1] \in {"open", "close"},
           Add(<<k>>), open' = After(open, k),
           k[1] = "close" => open # <<>> /\ Last(open) = k[2]
    PROVE  ChunksInv'
<1>1. /\ html \in Seq(Token) /\ open \in Seq(TagNames) /\ Nested(html)
      /\ Stacks(html)[Len(html)] = open
  BY WrittenSoFar
<1>2. html' = html \o <<k>> /\ UNCHANGED <<start, cuts, displayed, rejected, unformatted, progress>>
  BY DEF Add
<1>3. Nested(html') /\ Stacks(html')[Len(html')] = open'
  <2>1. PICK u : u = html'
    OBVIOUS
  <2>2. Nested(u) /\ Stacks(u)[Len(u)] = After(open, k)
    BY <1>1, <1>2, <2>1, TagAdded
  <2> QED
    BY <2>1, <2>2
<1>4. open' \in Seq(TagNames)
  BY <1>1, AfterTypes
<1>5. PICK t : t = <<k>>
  OBVIOUS
<1>6. t \in Seq(Token) /\ Len(t) = 1 /\ t[1] = k
  BY <1>5
<1>7. \A i \in 1 .. Len(t) : t[i][1] = "letter" => t[i][2] = Len(html) + i
  BY <1>6
<1>8. html' = html \o t
  BY <1>2, <1>5
<1> QED
  BY <1>2, <1>3, <1>4, <1>6, <1>7, <1>8, AddedKeeps

LEMMA OpenTagKeeps ==
    ASSUME ChunksInv, NEW t \in TagNames, OpenTag(t) PROVE ChunksInv'
<1>1. PICK k : k = Open(t)
  OBVIOUS
<1>2. k \in Token /\ k[1] = "open" /\ k[2] = t
  BY <1>1 DEF Token, Open
<1>3. progress = "writing" /\ Add(<<k>>) /\ open' = After(open, k)
  BY <1>1, <1>2 DEF OpenTag, Writing, After
<1> QED
  BY <1>2, <1>3, WriteTagKeeps

LEMMA CloseTagKeeps ==
    ASSUME ChunksInv, CloseTag PROVE ChunksInv'
<1>1. progress = "writing" /\ open # <<>> /\ open \in Seq(TagNames)
  BY WrittenSoFar DEF CloseTag, Writing
<1>2. PICK k, t : t = Last(open) /\ k = Close(t)
  OBVIOUS
<1>3. t \in TagNames
  <2>1. Len(open) \in 1 .. Len(open)
    BY <1>1
  <2> QED
    BY <1>1, <1>2, <2>1 DEF Last
<1>4. k \in Token /\ k[1] = "close" /\ k[2] = t
  BY <1>2, <1>3 DEF Token, Close
<1>5. Add(<<k>>) /\ open' = After(open, k)
  BY <1>1, <1>2, <1>4 DEF CloseTag, After
<1> QED
  BY <1>1, <1>2, <1>4, <1>5, WriteTagKeeps

\* The message is complete; nothing of it was sent.
LEMMA StartCuttingKeeps ==
    ASSUME ChunksInv, StartCutting PROVE ChunksInv'
<1>1. /\ progress = "writing" /\ open = <<>> /\ html # <<>> /\ progress' = "cutting"
      /\ UNCHANGED <<open, html, start, cuts, displayed, rejected, unformatted>>
  BY DEF StartCutting
<1>2. /\ ChunksTypeOK /\ html \in Seq(Token) /\ start = 1 /\ cuts = <<>> /\ displayed = <<>>
      /\ rejected = {} /\ unformatted = {} /\ Nested(html) /\ OpenAt(Len(html)) = <<>>
  BY <1>1 DEF ChunksInv, ChunksTypeOK, WritingOK
<1>3. Len(html) \in Nat /\ Len(html) # 0
  BY <1>1, <1>2
<1>4. OpenAt(0) = <<>>
  BY <1>3, StacksRead DEF Reading, OpenAt
<1>5. ChunksTypeOK'
  BY <1>1, <1>2 DEF ChunksTypeOK
<1>6. SentOK'
  <2>1. SentOK
    BY DEF ChunksInv
  <2>2. Sent = 0 /\ Sent' = 0
    BY <1>1, <1>2 DEF Sent
  <2>3. ShownLetters' = ShownLetters /\ (ShownInOrder <=> ShownInOrder')
    BY <1>1 DEF ShownLetters, ShownInOrder
  <2>4. start' <= Len(html')
    BY <1>1, <1>2, <1>3
  <2> QED
    BY <1>1, <2>1, <2>2, <2>3, <2>4 DEF SentOK
<1>7. PlainOK'
  <2>1. start' - 1 = 0
    BY <1>1, <1>2
  <2> QED
    BY <1>1, <1>2, <1>4, <2>1 DEF PlainOK, OpenAt
<1>8. WritingOK' /\ RejectedOK' /\ FormatOK'
  BY <1>1, <1>2 DEF WritingOK, RejectedOK, FormatOK
<1> QED
  BY <1>5, <1>6, <1>7, <1>8 DEF ChunksInv

\* What is left of a message after a cut: r is what was reopened.
IsRest(u, s, cut, r) ==
    /\ u \in Seq(Token) /\ Len(u) = Len(s) + Len(r) /\ InOrder(u)
    /\ \A i \in 1 .. cut : u[i] = s[i]
    /\ r = <<>> => u = s

RestOf(s, cut, r) == SubSeq(s, 1, cut) \o r \o SubSeq(s, cut + 1, Len(s))

\* Tags that are reopened move the rest on and leave its letters in order.
LEMMA RestMeans ==
    ASSUME NEW s \in Seq(Token), InOrder(s), NEW cut \in Nat, cut < Len(s),
           NEW r \in Seq({Open(t) : t \in TagNames}),
           NEW u, u = RestOf(s, cut, r)
    PROVE  IsRest(u, s, cut, r)
<1>1. PICK n, m, rest : n = Len(s) /\ m = Len(r) /\ rest = n - cut
  OBVIOUS
<1>2. n \in Nat /\ m \in Nat /\ rest \in Nat /\ rest = n - (cut + 1) + 1 /\ cut = cut - 1 + 1 /\ cut <= n
  BY <1>1
<1>3. PICK p, q : p = SubSeq(s, 1, cut) /\ q = SubSeq(s, cut + 1, Len(s))
  OBVIOUS
<1>4. p \in Seq(Token) /\ Len(p) = cut /\ \A i \in 1 .. cut : p[i] = s[i]
  <2>1. p \in Seq(Token) /\ Len(p) = cut /\ \A i \in 1 .. cut : p[i] = s[1 - 1 + i]
    BY <1>1, <1>2, <1>3, PartOf
  <2>2. \A i \in 1 .. cut : 1 - 1 + i = i
    OBVIOUS
  <2> QED
    BY <2>1, <2>2
<1>5. q \in Seq(Token) /\ Len(q) = rest /\ \A i \in 1 .. rest : q[i] = s[cut + i]
  <2>1. PICK k \in Nat \ {0} : k = cut + 1
    OBVIOUS
  <2>2. rest = n - k + 1 /\ q = SubSeq(s, k, n) /\ n \in Nat /\ n <= Len(s)
    BY <1>1, <1>2, <1>3, <2>1
  <2>3. q \in Seq(Token) /\ Len(q) = rest /\ \A i \in 1 .. rest : q[i] = s[k - 1 + i]
    BY <1>2, <2>2, PartOf
  <2>4. k - 1 = cut
    BY <2>1
  <2> QED
    BY <2>3, <2>4
<1>6. r \in Seq(Token) /\ \A i \in 1 .. m : r[i][1] = "open"
  <2>1. \A i \in 1 .. m : r[i] \in {Open(t) : t \in TagNames}
    BY <1>1
  <2>2. \A k \in {Open(t) : t \in TagNames} : k \in Token /\ k[1] = "open"
    BY DEF Token, Open
  <2>3. {Open(t) : t \in TagNames} \subseteq Token
    BY <2>2
  <2>4. \A i \in 1 .. m : r[i][1] = "open"
    BY <2>1, <2>2
  <2> QED
    BY <2>3, <2>4
<1>7. PICK v : v = p \o r
  OBVIOUS
<1>8. v \in Seq(Token) /\ IsJoin(v, p, r)
  BY <1>4, <1>6, <1>7, JoinOf
<1>9. u = v \o q
  BY <1>3, <1>7 DEF RestOf
<1>10. u \in Seq(Token) /\ IsJoin(u, v, q)
  BY <1>5, <1>8, <1>9, JoinOf
<1>11. /\ Len(v) = cut + m
       /\ \A i \in 1 .. cut : v[i] = p[i]
       /\ \A i \in 1 .. m : v[cut + i] = r[i]
  BY <1>1, <1>4, <1>8 DEF IsJoin
<1>12. /\ Len(u) = cut + m + rest
       /\ \A i \in 1 .. cut + m : u[i] = v[i]
       /\ \A i \in 1 .. rest : u[cut + m + i] = q[i]
  BY <1>5, <1>10, <1>11 DEF IsJoin
<1>13. Len(u) = n + m
  BY <1>2, <1>1, <1>12
<1>14. \A i \in 1 .. cut : u[i] = s[i]
  <2>1. \A i \in 1 .. cut : i \in 1 .. cut + m
    BY <1>2
  <2> QED
    BY <1>4, <1>11, <1>12, <2>1
<1>15. ASSUME NEW i \in DOMAIN u, u[i][1] = "letter"
       PROVE  i \in 1 .. cut \/ i \in cut + m + 1 .. n + m
  <2>1. i \in 1 .. n + m
    BY <1>10, <1>13
  <2> SUFFICES ASSUME i \in cut + 1 .. cut + m PROVE FALSE
    BY <1>2, <2>1
  <2>2. PICK j \in Int : j = i - cut
    BY <2>1
  <2>3. j \in 1 .. m /\ i = cut + j /\ i \in 1 .. cut + m
    BY <1>2, <2>2
  <2>4. u[i] = r[j]
    BY <1>11, <1>12, <2>3
  <2> QED
    BY <1>6, <1>15, <2>3, <2>4
<1>16. \A i \in cut + m + 1 .. n + m : i - m \in cut + 1 .. n /\ u[i] = s[i - m]
  <2> SUFFICES ASSUME NEW i \in cut + m + 1 .. n + m
               PROVE  i - m \in cut + 1 .. n /\ u[i] = s[i - m]
    OBVIOUS
  <2>1. PICK j \in Int : j = i - m - cut
    BY <1>2
  <2>2. j \in 1 .. rest /\ i = cut + m + j /\ i - m = cut + j /\ i - m \in cut + 1 .. n
    BY <1>1, <1>2, <2>1
  <2>3. u[i] = q[j] /\ q[j] = s[cut + j]
    BY <1>5, <1>12, <2>2
  <2> QED
    BY <2>2, <2>3
<1>17. InOrder(u)
  <2> SUFFICES ASSUME NEW i \in DOMAIN u, NEW j \in DOMAIN u, i < j,
                      u[i][1] = "letter", u[j][1] = "letter"
               PROVE  u[i][2] < u[j][2]
    BY DEF InOrder
  <2>1. DOMAIN s = 1 .. n
    BY <1>1
  <2>2. CASE i \in 1 .. cut /\ j \in 1 .. cut
    <3>1. i \in DOMAIN s /\ j \in DOMAIN s
      BY <1>2, <2>1, <2>2
    <3> QED
      BY <1>14, <2>2, <3>1 DEF InOrder
  <2>3. CASE i \in 1 .. cut /\ j \in cut + m + 1 .. n + m
    <3>1. PICK l : l = j - m
      OBVIOUS
    <3>2. l \in cut + 1 .. n /\ u[j] = s[l]
      BY <1>16, <2>3, <3>1
    <3>3. i \in DOMAIN s /\ l \in DOMAIN s /\ i < l
      BY <1>2, <2>1, <2>3, <3>2
    <3> QED
      BY <1>14, <2>3, <3>2, <3>3 DEF InOrder
  <2>4. CASE i \in cut + m + 1 .. n + m /\ j \in cut + m + 1 .. n + m
    <3>1. PICK k, l : k = i - m /\ l = j - m
      OBVIOUS
    <3>2. k \in cut + 1 .. n /\ u[i] = s[k] /\ l \in cut + 1 .. n /\ u[j] = s[l]
      BY <1>16, <2>4, <3>1
    <3>3. k \in DOMAIN s /\ l \in DOMAIN s /\ k < l
      BY <1>2, <2>1, <2>4, <3>1, <3>2
    <3> QED
      BY <3>2, <3>3 DEF InOrder
  <2>5. ~(i \in cut + m + 1 .. n + m /\ j \in 1 .. cut)
    BY <1>2
  <2>6. /\ (i \in 1 .. cut \/ i \in cut + m + 1 .. n + m)
        /\ (j \in 1 .. cut \/ j \in cut + m + 1 .. n + m)
    BY <1>15
  <2> QED
    BY <2>2, <2>3, <2>4, <2>5, <2>6
<1>18. r = <<>> => u = s
  <2> SUFFICES ASSUME r = <<>> PROVE u = s
    OBVIOUS
  <2>1. m = 0 /\ Len(u) = n
    BY <1>1, <1>2, <1>13
  <2>2. ASSUME NEW i \in 1 .. n PROVE u[i] = s[i]
    <3>1. CASE i \in 1 .. cut
      BY <1>14, <3>1
    <3>2. CASE i \notin 1 .. cut
      <4>1. i \in cut + m + 1 .. n + m /\ i - m = i
        BY <1>2, <2>1, <3>2
      <4> QED
        BY <1>16, <4>1
    <3> QED
      BY <3>1, <3>2
  <2>3. DOMAIN u = 1 .. n /\ DOMAIN s = 1 .. n
    BY <1>1, <1>10, <2>1
  <2>4. u = [i \in DOMAIN u |-> u[i]] /\ s = [i \in DOMAIN s |-> s[i]]
    BY <1>10
  <2>5. u = [i \in 1 .. n |-> u[i]] /\ s = [i \in 1 .. n |-> s[i]]
    BY <2>3, <2>4
  <2>6. [i \in 1 .. n |-> u[i]] = [i \in 1 .. n |-> s[i]]
    BY <2>2
  <2> QED
    BY <2>5, <2>6
<1> QED
  BY <1>1, <1>10, <1>13, <1>14, <1>17, <1>18 DEF IsRest

\* The chunk that ends at b was sent: it is shown, or rejected for its length, and
\* comes as plain text only if an earlier cut was inside a tag.
WasSent(chunk, b) ==
    /\ HoldsOf(chunk, html, start, b)
    /\ displayed' \in Seq(Seq(Token)) /\ rejected' \subseteq {Letter(n) : n \in Nat}
    /\ ShownLetters' \cap rejected' = {}
    /\ ShownLetters' \cup rejected' = LettersIn(html, 1, b)
    /\ ShownInOrder'
    /\ rejected' = rejected \/ Cardinality(Text(chunk)) > Limit
    /\ unformatted' \subseteq 1 .. Len(cuts) + 1
    /\ \A i \in unformatted' : \E j \in 1 .. i - 1 : j \in DOMAIN cuts /\ cuts[j].tags # <<>>

\* What the invariant says of a chunk when it is sent.
LEMMA ChunkSent ==
    ASSUME ChunksInv, progress = "cutting", NEW b \in start .. Len(html),
           NEW ts \in Seq(TagNames), Clean => ts = OpenAt(b),
           NEW chunk, chunk = ChunkOf(html, start, b, ts), Send(chunk)
    PROVE  WasSent(chunk, b)
<1>1. /\ html \in Seq(Token) /\ start \in Nat \ {0} /\ start <= Len(html) /\ Len(html) \in Nat
      /\ cuts \in Seq([tags : Seq(TagNames), code : BOOLEAN])
      /\ displayed \in Seq(Seq(Token)) /\ rejected \subseteq {Letter(n) : n \in Nat}
      /\ unformatted \subseteq 1 .. Len(cuts) + 1
  BY DEF ChunksInv, ChunksTypeOK, SentOK
<1>2. SentOK /\ PlainOK /\ FormatOK
  BY DEF ChunksInv
<1>3. b \in Nat /\ start <= b /\ b <= Len(html)
  BY <1>1
<1>4. PICK s : s = html
  OBVIOUS
<1>5. HoldsOf(chunk, s, start, b)
  <2>1. chunk = ChunkOf(s, start, b, ts)
    BY <1>4
  <2>2. InOrder(s)
    BY <1>2, <1>4 DEF SentOK
  <2> QED
    BY <1>1, <1>3, <1>4, <2>1, <2>2, ChunkHolds
<1>6. PICK a \in Nat : a = start - 1
  BY <1>1
<1>7. SentUpto(a)
  <2>1. Sent = a
    BY <1>6 DEF Sent
  <2> QED
    BY <1>1, <1>2, <2>1 DEF SentUpto, SentOK
<1>8. /\ displayed' \in Seq(Seq(Token)) /\ rejected' \subseteq {Letter(n) : n \in Nat}
      /\ ShownLetters' \cap rejected' = {}
      /\ ShownLetters' \cup rejected' = LettersIn(html, 1, b)
      /\ ShownInOrder'
  <2>1. a + 1 = start /\ a <= b
    BY <1>1, <1>3, <1>6
  <2>2. HoldsOf(chunk, html, a + 1, b) /\ Send(chunk) /\ InOrder(html)
    BY <1>2, <1>4, <1>5, <2>1 DEF SentOK
  <2> QED
    BY <1>1, <1>3, <1>7, <2>1, <2>2, SendKeeps
<1>9. /\ unformatted' \subseteq unformatted \cup {Len(cuts) + 1}
      /\ Matches(chunk) => unformatted' = unformatted
  BY <1>4, <1>5, SendFails
<1>10. rejected' = rejected \/ Cardinality(Text(chunk)) > Limit
  <2>1. Send(chunk)
    OBVIOUS
  <2>2. CASE Text(chunk) # {}
    <3>1. Cardinality(Text(chunk)) <= Limit => rejected' = rejected
      BY <2>1, <2>2 DEF Send
    <3>2. PICK c : c = Cardinality(Text(chunk)) /\ c \in Nat
      <4>1. chunk \in Seq(Token)
        BY <1>5 DEF HoldsOf
      <4>2. Text(chunk) \subseteq 1 .. Len(chunk) /\ Len(chunk) \in Nat
        BY <4>1 DEF Text
      <4>3. IsFiniteSet(Text(chunk))
        <5>1. IsFiniteSet(1 .. Len(chunk))
          BY <4>2, FS_Interval
        <5> QED
          BY <4>2, <5>1, FS_Subset
      <4> QED
        BY <4>3, FS_CardinalityType
    <3>3. Limit \in Nat
      BY ChunksAssumption
    <3> QED
      BY <3>1, <3>2, <3>3
  <2>3. CASE Text(chunk) = {}
    BY <1>5, <2>1, <2>3 DEF Send, HoldsOf
  <2> QED
    BY <2>2, <2>3
<1>11. Len(cuts) \in Nat /\ DOMAIN cuts = 1 .. Len(cuts)
  BY <1>1
<1>12. unformatted' \subseteq 1 .. Len(cuts) + 1
  <2>1. Len(cuts) + 1 \in 1 .. Len(cuts) + 1
    BY <1>11
  <2> QED
    BY <1>1, <1>9, <2>1
<1>13. ASSUME NEW i \in unformatted'
       PROVE  \E j \in 1 .. i - 1 : j \in DOMAIN cuts /\ cuts[j].tags # <<>>
  <2>1. CASE i \in unformatted
    <3>1. PICK j \in 1 .. i - 1 : cuts[j].tags # <<>>
      BY <1>2, <2>1 DEF FormatOK
    <3>2. i \in 1 .. Len(cuts) + 1
      BY <1>1, <2>1
    <3>3. j \in DOMAIN cuts
      BY <1>11, <3>1, <3>2
    <3> QED
      BY <3>1, <3>3
  <2>2. CASE i \notin unformatted
    <3>1. i = Len(cuts) + 1 /\ ~Matches(chunk)
      BY <1>9, <1>13, <2>2
    <3>2. \E j \in DOMAIN cuts : cuts[j].tags # <<>>
      <4> SUFFICES ASSUME \A j \in DOMAIN cuts : cuts[j].tags = <<>> PROVE FALSE
        OBVIOUS
      <4>1. Clean
        BY DEF Clean
      <4>2. Nested(s) /\ Stacks(s)[start - 1] = <<>>
        BY <1>2, <1>4, <4>1 DEF PlainOK, OpenAt
      <4>3. chunk = ChunkOf(s, start, b, Stacks(s)[b])
        BY <1>4, <4>1 DEF OpenAt
      <4>4. s \in Seq(Token) /\ b <= Len(s)
        BY <1>1, <1>3, <1>4
      <4>5. Matches(chunk)
        BY <1>1, <1>3, <4>2, <4>3, <4>4, ChunkMatches
      <4> QED
        BY <3>1, <4>5
    <3>3. 1 .. i - 1 = DOMAIN cuts
      <4>1. i - 1 = Len(cuts)
        BY <1>11, <3>1
      <4> QED
        BY <1>11, <4>1
    <3> QED
      BY <3>2, <3>3
  <2> QED
    BY <2>1, <2>2
<1> QED
  BY <1>4, <1>5, <1>8, <1>10, <1>12, <1>13 DEF WasSent

\* The text of a chunk that is not longer than it may be is accepted.
LEMMA TextFits ==
    ASSUME html \in Seq(Token), start \in 1 .. Len(html),
           NEW b \in start .. Len(html), NEW last \in start .. Len(html), b <= last,
           Size(Upto(last)) <= MaxLength, NEW chunk, HoldsOf(chunk, html, start, b)
    PROVE  ~(Cardinality(Text(chunk)) > Limit)
<1>1. start \in Nat \ {0} /\ b \in Nat /\ last \in Nat /\ last <= Len(html) /\ start <= last
  OBVIOUS
<1>2. PICK n : n = last - start + 1
  OBVIOUS
<1>3. n \in Nat /\ b - start + 1 <= n
  BY <1>1, <1>2
<1>4. Upto(last) \in Seq(Token) /\ Len(Upto(last)) = n
  BY <1>1, <1>2, <1>3, PartOf DEF Upto
<1>5. PICK z \in Nat : z = Size(Upto(last)) /\ n <= z
  BY <1>4, SizeBounds
<1>6. PICK c : c = Cardinality(Text(chunk)) /\ c <= b - start + 1
  BY DEF HoldsOf
<1>7. c \in Nat
  <2>1. chunk \in Seq(Token)
    BY DEF HoldsOf
  <2>2. Text(chunk) \subseteq 1 .. Len(chunk) /\ Len(chunk) \in Nat
    BY <2>1 DEF Text
  <2>3. IsFiniteSet(Text(chunk))
    <3>1. IsFiniteSet(1 .. Len(chunk))
      BY <2>2, FS_Interval
    <3> QED
      BY <2>2, <3>1, FS_Subset
  <2> QED
    BY <1>6, <2>3, FS_CardinalityType
<1> QED
  BY <1>1, <1>3, <1>5, <1>6, <1>7, ChunksAssumption

\* A chunk is cut off, its tags are closed, and reopened in the rest.
LEMMA SendChunkKeeps ==
    ASSUME ChunksInv, SendChunk PROVE ChunksInv'
<1>1. /\ html \in Seq(Token) /\ start \in 1 .. Len(html) /\ Len(html) \in Nat
      /\ cuts \in Seq([tags : Seq(TagNames), code : BOOLEAN])
      /\ open \in Seq(TagNames) /\ progress = "cutting"
      /\ InOrder(html) /\ PlainOK /\ RejectedOK
  BY DEF ChunksInv, ChunksTypeOK, SentOK, SendChunk
<1>2. PICK cut, ts, chunk : /\ cut = Cut /\ ts = OpenAt(cut)
                          /\ chunk = ChunkOf(html, start, cut, ts)
  OBVIOUS
<1>3. /\ Send(chunk) /\ cuts' = Append(cuts, [tags |-> ts, code |-> html[cut] = Close("pre")])
      /\ start' = cut + 1 /\ open' = open
      /\ html' = IF cut < Len(html) THEN RestOf(html, cut, Reopening(ts)) ELSE html
      /\ progress' = IF cut < Len(html) THEN "cutting" ELSE "done"
  BY <1>2 DEF SendChunk, ChunkOf, Upto, RestOf
<1>4. cut \in start .. Len(html) /\ (cut <= LastWhole \/ html[cut] = Close("pre"))
  BY <1>1, <1>2, CutMeans
<1>5. ts \in Seq(TagNames) /\ cut \in Nat /\ cut <= Len(html)
  BY <1>1, <1>2, <1>4, StacksTypes DEF OpenAt
<1>6. WasSent(chunk, cut)
  BY <1>1, <1>2, <1>3, <1>4, <1>5, ChunkSent
<1>7. PICK s, u : s = html /\ u = html'
  OBVIOUS
<1>8. /\ u \in Seq(Token) /\ Len(u) \in Nat /\ InOrder(u) /\ Len(s) <= Len(u)
      /\ \A i \in 1 .. cut : u[i] = s[i]
      /\ (ts = <<>> \/ ~(cut < Len(s))) => u = s
  <2>1. CASE cut < Len(s)
    <3>1. PICK r : r = Reopening(ts)
      OBVIOUS
    <3>2. r \in Seq({Open(t) : t \in TagNames}) /\ (ts = <<>> => r = <<>>)
      BY <1>5, <3>1, ReopeningMeans
    <3>3. u = RestOf(s, cut, r) /\ s \in Seq(Token) /\ InOrder(s)
      BY <1>1, <1>3, <1>7, <2>1, <3>1
    <3>4. IsRest(u, s, cut, r)
      BY <1>5, <2>1, <3>2, <3>3, RestMeans
    <3>5. Len(s) <= Len(u) /\ Len(u) \in Nat
      <4>1. Len(r) \in Nat /\ Len(s) \in Nat
        BY <1>1, <1>7, <3>2
      <4>2. Len(u) = Len(s) + Len(r)
        BY <3>4 DEF IsRest
      <4> QED
        BY <4>1, <4>2
    <3> QED
      BY <2>1, <3>2, <3>4, <3>5 DEF IsRest
  <2>2. CASE ~(cut < Len(s))
    <3>1. u = s
      BY <1>3, <1>7, <2>2
    <3> QED
      BY <1>1, <1>7, <3>1
  <2> QED
    BY <2>1, <2>2
<1>9. LettersIn(u, 1, cut) = LettersIn(s, 1, cut)
  BY <1>8 DEF LettersIn
<1>10. /\ cuts' \in Seq([tags : Seq(TagNames), code : BOOLEAN])
       /\ Len(cuts) \in Nat /\ Len(cuts') = Len(cuts) + 1
       /\ DOMAIN cuts = 1 .. Len(cuts) /\ DOMAIN cuts' = 1 .. Len(cuts) + 1
       /\ \A i \in 1 .. Len(cuts) : cuts'[i] = cuts[i] /\ i \in DOMAIN cuts'
       /\ Len(cuts) + 1 \in DOMAIN cuts'
       /\ cuts'[Len(cuts) + 1] = [tags |-> ts, code |-> html[cut] = Close("pre")]
  <2>1. PICK e : e = [tags |-> ts, code |-> html[cut] = Close("pre")]
    OBVIOUS
  <2>2. e \in [tags : Seq(TagNames), code : BOOLEAN]
    BY <1>5, <2>1
  <2>3. PICK n \in Nat : n = Len(cuts)
    BY <1>1
  <2>4. cuts' = Append(cuts, e)
    BY <1>3, <2>1
  <2>5. /\ cuts' \in Seq([tags : Seq(TagNames), code : BOOLEAN])
        /\ Len(cuts') = n + 1 /\ DOMAIN cuts = 1 .. n /\ DOMAIN cuts' = 1 .. n + 1
        /\ \A i \in 1 .. n : cuts'[i] = cuts[i]
        /\ cuts'[n + 1] = e
    BY <1>1, <2>2, <2>3, <2>4
  <2>6. n + 1 \in 1 .. n + 1 /\ \A i \in 1 .. n : i \in 1 .. n + 1
    BY <2>3
  <2> QED
    BY <2>1, <2>3, <2>5, <2>6
<1>11. progress' \in {"cutting", "done"} /\ (progress' = "cutting" <=> cut < Len(s))
  BY <1>3, <1>7
<1>12. ChunksTypeOK'
  <2>1. start' \in 1 .. Len(u) + 1
    BY <1>1, <1>3, <1>4, <1>5, <1>7, <1>8
  <2>2. /\ unformatted' \subseteq 1 .. Len(cuts') + 1
        /\ displayed' \in Seq(Seq(Token)) /\ rejected' \subseteq {Letter(n) : n \in Nat}
    <3>1. /\ unformatted' \subseteq 1 .. Len(cuts) + 1
          /\ displayed' \in Seq(Seq(Token)) /\ rejected' \subseteq {Letter(n) : n \in Nat}
      BY <1>6 DEF WasSent
    <3>2. PICK n \in Nat : n = Len(cuts)
      BY <1>10
    <3>3. (1 .. n + 1) \subseteq 1 .. n + 2 /\ Len(cuts') + 1 = n + 2
      BY <1>10, <3>2
    <3> QED
      BY <3>1, <3>2, <3>3
  <2> QED
    BY <1>1, <1>3, <1>7, <1>8, <1>10, <1>11, <2>1, <2>2 DEF ChunksTypeOK
<1>13. WritingOK'
  BY <1>11 DEF WritingOK
<1>14. SentOK'
  <2>1. Sent' = cut
    <3>1. CASE progress' = "cutting"
      <4>1. Sent' = start' - 1
        BY <3>1 DEF Sent
      <4> QED
        BY <1>3, <1>5, <4>1
    <3>2. CASE progress' # "cutting"
      <4>1. progress' = "done" /\ u = s /\ cut = Len(s)
        BY <1>1, <1>5, <1>7, <1>8, <1>11, <3>2
      <4> QED
        BY <1>7, <4>1 DEF Sent
    <3> QED
      BY <3>1, <3>2
  <2>2. progress' = "cutting" => start' <= Len(html')
    <3> SUFFICES ASSUME progress' = "cutting" PROVE start' <= Len(u)
      BY <1>7
    <3>1. cut < Len(s) /\ Len(s) \in Nat
      BY <1>1, <1>7, <1>11
    <3> QED
      BY <1>3, <1>5, <1>8, <3>1
  <2>3. InOrder(html')
    BY <1>7, <1>8
  <2>4. LettersIn(html', 1, Sent') = LettersIn(html, 1, cut)
    BY <1>7, <1>9, <2>1
  <2> QED
    BY <1>6, <2>2, <2>3, <2>4 DEF SentOK, WasSent
<1>15. PlainOK'
  <2> SUFFICES ASSUME progress' = "cutting", \A i \in DOMAIN cuts' : cuts'[i].tags = <<>>
               PROVE  Nested(u) /\ Stacks(u)[Len(u)] = <<>> /\ Stacks(u)[start' - 1] = <<>>
    BY <1>7 DEF PlainOK, OpenAt, Clean
  <2>1. ts = <<>>
    BY <1>10
  <2>2. u = s
    BY <1>8, <2>1
  <2>3. Clean
    BY <1>10 DEF Clean
  <2>4. Nested(s) /\ Stacks(s)[Len(s)] = <<>>
    BY <1>1, <1>7, <2>3 DEF PlainOK, OpenAt
  <2>5. start' - 1 = cut
    BY <1>3, <1>5
  <2>6. Stacks(s)[cut] = <<>>
    BY <1>2, <1>7, <2>1 DEF OpenAt
  <2> QED
    BY <2>2, <2>4, <2>5, <2>6
<1>16. RejectedOK'
  <2> SUFFICES ASSUME rejected' # {} PROVE \E i \in DOMAIN cuts' : cuts'[i].code
    BY DEF RejectedOK
  <2>1. CASE rejected' = rejected
    <3>1. PICK i \in DOMAIN cuts : cuts[i].code
      BY <1>1, <2>1 DEF RejectedOK
    <3> QED
      BY <1>10, <3>1
  <2>2. CASE rejected' # rejected
    <3>1. ~(cut <= LastWhole)
      <4> SUFFICES ASSUME cut <= LastWhole PROVE FALSE
        OBVIOUS
      <4>1. PICK last : last = LastWhole
        OBVIOUS
      <4>2. last \in start .. Len(html) /\ Size(Upto(last)) <= MaxLength /\ cut <= last
        BY <1>1, <4>1, LastWholeFits
      <4>3. HoldsOf(chunk, html, start, cut) /\ Cardinality(Text(chunk)) > Limit
        BY <1>6, <2>2 DEF WasSent
      <4> QED
        BY <1>1, <1>4, <4>2, <4>3, TextFits
    <3>2. html[cut] = Close("pre")
      BY <1>4, <3>1
    <3>3. cuts'[Len(cuts) + 1].code
      BY <1>10, <3>2
    <3> QED
      BY <1>10, <3>3
  <2> QED
    BY <2>1, <2>2
<1>17. FormatOK'
  BY <1>6, <1>10 DEF FormatOK, WasSent
<1> QED
  BY <1>12, <1>13, <1>14, <1>15, <1>16, <1>17 DEF ChunksInv

\* The rest is sent as it is.
LEMMA SendLastChunkKeeps ==
    ASSUME ChunksInv, SendLastChunk PROVE ChunksInv'
<1>1. /\ html \in Seq(Token) /\ start \in 1 .. Len(html) /\ Len(html) \in Nat
      /\ open \in Seq(TagNames) /\ progress = "cutting"
      /\ cuts \in Seq([tags : Seq(TagNames), code : BOOLEAN])
      /\ InOrder(html) /\ PlainOK /\ RejectedOK
  BY DEF ChunksInv, ChunksTypeOK, SentOK, SendLastChunk
<1>2. PICK b : b = Len(html)
  OBVIOUS
<1>3. PICK chunk : chunk = Upto(b)
  OBVIOUS
<1>4. /\ Send(chunk) /\ progress' = "done" /\ UNCHANGED <<open, html, start, cuts>>
      /\ Size(Upto(b)) <= MaxLength
  BY <1>2, <1>3 DEF SendLastChunk
<1>5. /\ b \in start .. Len(html) /\ b \in Nat /\ start \in Nat \ {0}
  BY <1>1, <1>2
<1>6. chunk = ChunkOf(html, start, b, <<>>)
  <2>1. chunk \in Seq(Token)
    <3>1. PICK n : n = b - start + 1
      OBVIOUS
    <3>2. n \in Nat /\ b <= Len(html)
      BY <1>5, <3>1
    <3> QED
      BY <1>1, <1>3, <1>5, <3>1, <3>2, PartOf DEF Upto
  <2>2. PICK e : e = Closing(<<>>)
    OBVIOUS
  <2>3. e = <<>>
    <3>1. <<>> \in Seq(TagNames) /\ Len(<<>>) = 0
      OBVIOUS
    <3>2. e \in Seq(Token) /\ Len(e) = 0
      BY <2>2, <3>1, ClosingMeans
    <3> QED
      BY <3>2
  <2>4. chunk \o <<>> = chunk
    BY <2>1
  <2> QED
    BY <1>3, <2>2, <2>3, <2>4 DEF ChunkOf, Upto
<1>7. PlainOK /\ (Clean => OpenAt(b) = <<>>)
  BY <1>1, <1>2 DEF PlainOK
<1>8. WasSent(chunk, b)
  <2>1. PICK ts : ts = <<>>
    OBVIOUS
  <2>2. ts \in Seq(TagNames) /\ (Clean => ts = OpenAt(b)) /\ chunk = ChunkOf(html, start, b, ts)
    BY <1>6, <1>7, <2>1
  <2> QED
    BY <1>1, <1>4, <1>5, <2>2, ChunkSent
<1>9. rejected' = rejected
  <2>1. HoldsOf(chunk, html, start, b)
    BY <1>8 DEF WasSent
  <2>2. ~(Cardinality(Text(chunk)) > Limit)
    BY <1>1, <1>4, <1>5, <2>1, TextFits
  <2> QED
    BY <1>8, <2>2 DEF WasSent
<1>10. ChunksTypeOK'
  <2>1. start' \in 1 .. Len(html') + 1
    BY <1>1, <1>4
  <2>2. /\ unformatted' \subseteq 1 .. Len(cuts') + 1
        /\ displayed' \in Seq(Seq(Token)) /\ rejected' \subseteq {Letter(n) : n \in Nat}
    BY <1>4, <1>8 DEF WasSent
  <2> QED
    BY <1>1, <1>4, <2>1, <2>2 DEF ChunksTypeOK
<1>11. SentOK'
  <2>1. Sent' = b
    BY <1>2, <1>4 DEF Sent
  <2>2. /\ ShownLetters' \cap rejected' = {} /\ ShownInOrder'
        /\ ShownLetters' \cup rejected' = LettersIn(html', 1, b)
    BY <1>4, <1>8 DEF WasSent
  <2> QED
    BY <1>1, <1>4, <2>1, <2>2 DEF SentOK
<1>12. FormatOK'
  BY <1>4, <1>8 DEF FormatOK, WasSent
<1>13. WritingOK' /\ PlainOK'
  BY <1>4 DEF WritingOK, PlainOK
<1>14. RejectedOK'
  BY <1>1, <1>4, <1>9 DEF RejectedOK
<1> QED
  BY <1>10, <1>11, <1>12, <1>13, <1>14 DEF ChunksInv

\* Every step keeps the invariant.
LEMMA ChunksInvNext ==
    ASSUME ChunksInv, [ChunksNext]_chunkVars PROVE ChunksInv'
<1>1. ASSUME NEW w \in Words, WriteWord(w) PROVE ChunksInv'
  BY <1>1, WriteWordKeeps
<1>2. ASSUME NEW k \in {Blank, Line}, WriteBreak(k) PROVE ChunksInv'
  BY <1>2, WriteBreakKeeps
<1>3. ASSUME NEW t \in TagNames, OpenTag(t) PROVE ChunksInv'
  BY <1>3, OpenTagKeeps
<1>4. CASE CloseTag
  BY <1>4, CloseTagKeeps
<1>5. CASE StartCutting
  BY <1>5, StartCuttingKeeps
<1>6. CASE SendChunk
  BY <1>6, SendChunkKeeps
<1>7. CASE SendLastChunk
  BY <1>7, SendLastChunkKeeps
<1>8. CASE UNCHANGED chunkVars
  BY <1>8 DEF chunkVars, ChunksInv, ChunksTypeOK, WritingOK, SentOK, PlainOK, RejectedOK,
              FormatOK, OpenAt, Clean, Sent, ShownLetters, ShownInOrder
<1> QED
  BY <1>1, <1>2, <1>3, <1>4, <1>5, <1>6, <1>7, <1>8 DEF ChunksNext

\* A long message is displayed whole, in order and with its format, but for the
\* letters of chunks too long for Telegram, which only an end of code makes, and
\* for the format of chunks after a cut inside a tag (chunker.py, client.py).
THEOREM MessagesAreShown == ChunksSpec => []MessageIsShown
<1>1. ChunksInv => MessageIsShown
  <2> SUFFICES ASSUME ChunksInv PROVE MessageIsShown
    OBVIOUS
  <2>1. SentOK /\ RejectedOK /\ FormatOK /\ html \in Seq(Token)
    BY DEF ChunksInv, ChunksTypeOK
  <2>2. ASSUME progress = "done" PROVE ShownLetters = Letters(html) \ rejected
    <3>1. ShownLetters \cap rejected = {} /\ ShownLetters \cup rejected = LettersIn(html, 1, Len(html))
      BY <2>1, <2>2 DEF SentOK, Sent
    <3>2. LettersIn(html, 1, Len(html)) = Letters(html)
      BY <2>1 DEF LettersIn, Letters
    <3> QED
      BY <3>1, <3>2
  <2> QED
    BY <2>1, <2>2 DEF MessageIsShown, SentOK, RejectedOK, FormatOK
<1> QED
  BY <1>1, ChunksInvInit, ChunksInvNext, PTL DEF ChunksSpec
=============================================================================
