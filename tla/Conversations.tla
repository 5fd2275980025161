--------------------------- MODULE Conversations ---------------------------
(***************************************************************************)
(* The conversations of one user and their way to long-term memory:        *)
(* ConversationManager.get_or_create_conversation                          *)
(* (src/services/conversation_manager.py), ConversationDatabase            *)
(* (src/utils/database.py) and the ConversationConsolidator                *)
(* (src/workers/conversation_consolidator.py) that every worker process    *)
(* runs every fifteen minutes (run_workers.py).                            *)
(*                                                                         *)
(* A handler (a worker with a message of the user, or the web endpoint)    *)
(* looks for the active conversation, decides whether it goes on, and      *)
(* creates a new one otherwise; each of these is an await of its own.  A   *)
(* consolidator reads the conversations that are ready, and for each sends *)
(* its unconsolidated messages to Praxos and marks them.  Messages that    *)
(* carry a document have it uploaded first.  What was read so far when the *)
(* row of a file cannot be read is all that is uploaded and marked, while  *)
(* everything is sent.                                                     *)
(*                                                                         *)
(* Left out: the names of conversations, praxos_source_id, search          *)
(* attempts, the descriptions of images, and cleanup_old_conversations and *)
(* mark_conversation_consolidated, which nothing calls.                    *)
(***************************************************************************)
EXTENDS Naturals, FiniteSets

CONSTANTS
    Platforms,          \* the chat platforms of the user
    Web,                \* the platform "websocket"
    Handlers, Consolidators,
    MaxConvs, MaxMsgs,  \* bounds on conversations and messages
    WithDoc,            \* the messages that carry a document
    ConvLimit,          \* to_list(length=100) of get_conversations_to_consolidate
    MsgLimit,           \* limit=100 of get_unconsolidated_messages
    MaxFaults,          \* bound on failures and crashes
    None

ASSUME PlatformAssumption == Web \notin Platforms
ASSUME NoneAssumption == None \notin {"active", "ready"}
ASSUME ProcessAssumption == IsFiniteSet(Handlers) /\ IsFiniteSet(Consolidators)
ASSUME BoundAssumption ==
    /\ MaxConvs \in Nat /\ MaxMsgs \in Nat /\ MaxFaults \in Nat
    /\ ConvLimit \in Nat \ {0} /\ MsgLimit \in Nat \ {0}
    /\ WithDoc \subseteq Nat

Convs == 1..MaxConvs
Msgs == 1..MaxMsgs

VARIABLES
    status, platform, activity, \* the conversations; activity: last_activity
    clock,                      \* the last value of an activity
    inConv,                     \* the conversation of each message
    consolidated,               \* the messages with is_consolidated
    sourced,                    \* the documents with a source_id
    hpc, hplat, hconv,          \* each handler: its step, platform, conversation
    cpc, todo, conv,            \* each consolidator: its step, what is left of
                                \* the pass, the conversation at hand,
    batch, marks, docs,         \* its messages, those to be marked, the documents
    sends, uploads,             \* how often Praxos got a message, a document
    refused, unsourced,         \* messages and documents Praxos did not take
    again,                      \* excuses for sending a message again
    interference,               \* how often a handler could not see another's work
    faults

convVars == <<status, platform, activity, clock>>
msgVars == <<inConv, consolidated, sourced>>
handlerVars == <<hpc, hplat, hconv>>
consolidatorVars == <<cpc, todo, conv, batch, marks, docs>>
praxosVars == <<sends, uploads, refused, unsourced, again>>
vars == <<convVars, msgVars, handlerVars, consolidatorVars, praxosVars, interference, faults>>

SpendFault == faults < MaxFaults /\ faults' = faults + 1

With(s) == {c \in Convs : status[c] = s}

\* The n elements of S with the least values of f: sort(f, 1).limit(n).
Least(S, n, f) == {x \in S : Cardinality({y \in S : f[y] < f[x]}) < n}

-----------------------------------------------------------------------------
(* get_or_create_conversation and add_message, of a handler *)

Deciding == {h \in Handlers : hpc[h] \in {"check", "mark", "create"}}

\* A message of a chat platform, or one from the web for a conversation that is
\* not the user's: the active conversation is looked for.
Arrive(h, p) ==
    /\ hpc[h] = "idle"
    /\ hpc' = [hpc EXCEPT ![h] = "find"]
    /\ hplat' = [hplat EXCEPT ![h] = p]
    /\ UNCHANGED <<convVars, msgVars, hconv, consolidatorVars, praxosVars, interference, faults>>

\* The web asks for a new conversation.
OpenWeb(h) ==
    /\ hpc[h] = "idle"
    /\ hpc' = [hpc EXCEPT ![h] = "create"]
    /\ hplat' = [hplat EXCEPT ![h] = Web]
    /\ interference' = interference + 1
    /\ UNCHANGED <<convVars, msgVars, hconv, consolidatorVars, praxosVars, faults>>

\* A message that names its conversation: from the web, or of a scheduled task.
Continue(h, c) ==
    /\ hpc[h] = "idle"
    /\ status[c] # None
    /\ hpc' = [hpc EXCEPT ![h] = "insert"]
    /\ hconv' = [hconv EXCEPT ![h] = c]
    /\ UNCHANGED <<convVars, msgVars, hplat, consolidatorVars, praxosVars, interference, faults>>

\* get_active_conversation: the active conversation with the latest activity.
Find(h) ==
    /\ hpc[h] = "find"
    /\ IF With("active") = {}
         THEN /\ hpc' = [hpc EXCEPT ![h] = "create"]
              /\ UNCHANGED hconv
         ELSE \E c \in With("active") :
              /\ \A d \in With("active") : activity[d] <= activity[c]
              /\ hconv' = [hconv EXCEPT ![h] = c]
              /\ hpc' = [hpc EXCEPT ![h] = "check"]
    /\ interference' = interference + IF Deciding = {} THEN 0 ELSE 1
    /\ UNCHANGED <<convVars, msgVars, hplat, consolidatorVars, praxosVars, faults>>

\* is_conversation_active: the tags in the text, the time and the model decide.
Check(h) ==
    /\ hpc[h] = "check"
    /\ \E expired \in BOOLEAN :
        hpc' = [hpc EXCEPT ![h] =
            IF ~expired /\ platform[hconv[h]] = hplat[h] THEN "insert" ELSE "mark"]
    /\ UNCHANGED <<convVars, msgVars, hplat, hconv, consolidatorVars, praxosVars, interference, faults>>

\* Mutated Mark: the old conversation stays active.
MarkNothing(h) ==
    /\ hpc[h] = "mark"
    /\ hpc' = [hpc EXCEPT ![h] = "create"]
    /\ UNCHANGED <<convVars, msgVars, hplat, hconv, consolidatorVars, praxosVars, interference, faults>>

\* mark_conversation_for_consolidation
Mark(h) ==
    /\ hpc[h] = "mark"
    /\ status' = [status EXCEPT ![hconv[h]] = "ready"]
    /\ hpc' = [hpc EXCEPT ![h] = "create"]
    /\ UNCHANGED <<platform, activity, clock, msgVars, hplat, hconv,
                   consolidatorVars, praxosVars, interference, faults>>

\* create_conversation
Create(h) ==
    /\ hpc[h] = "create"
    /\ \E c \in Convs :
        /\ status[c] = None
        /\ \A d \in Convs : d < c => status[d] # None
        /\ status' = [status EXCEPT ![c] = "active"]
        /\ platform' = [platform EXCEPT ![c] = hplat[h]]
        /\ activity' = [activity EXCEPT ![c] = clock + 1]
        /\ hconv' = [hconv EXCEPT ![h] = c]
    /\ clock' = clock + 1
    /\ hpc' = [hpc EXCEPT ![h] = "insert"]
    /\ UNCHANGED <<msgVars, hplat, consolidatorVars, praxosVars, interference, faults>>

\* add_message inserts the message of the user or of the assistant ...
Insert(h) ==
    /\ hpc[h] = "insert"
    /\ \E m \in Msgs :
        /\ inConv[m] = None
        /\ \A n \in Msgs : n < m => inConv[n] # None
        /\ inConv' = [inConv EXCEPT ![m] = hconv[h]]
    /\ hpc' = [hpc EXCEPT ![h] = "bump"]
    /\ UNCHANGED <<convVars, consolidated, sourced, hplat, hconv,
                   consolidatorVars, praxosVars, interference, faults>>

\* ... and then moves last_activity; the turn may add more messages.
Bump(h) ==
    /\ hpc[h] = "bump"
    /\ activity' = [activity EXCEPT ![hconv[h]] = clock + 1]
    /\ clock' = clock + 1
    /\ \E at \in {"idle", "insert"} : hpc' = [hpc EXCEPT ![h] = at]
    /\ UNCHANGED <<status, platform, msgVars, hplat, hconv,
                   consolidatorVars, praxosVars, interference, faults>>

\* An await raises or the process dies: the turn is over.
HandlerFails(h) ==
    /\ hpc[h] # "idle"
    /\ SpendFault
    /\ hpc' = [hpc EXCEPT ![h] = "idle"]
    /\ UNCHANGED <<convVars, msgVars, hplat, hconv, consolidatorVars, praxosVars, interference>>

-----------------------------------------------------------------------------
(* consolidate_all_ready_conversations and consolidate_conversation *)

\* A pass takes the ready conversations with the oldest activity.
Poll(w) ==
    /\ cpc[w] = "idle"
    /\ todo' = [todo EXCEPT ![w] = Least(With("ready"), ConvLimit, activity)]
    /\ cpc' = [cpc EXCEPT ![w] = "next"]
    /\ UNCHANGED <<convVars, msgVars, handlerVars, conv, batch, marks, docs, praxosVars,
                   interference, faults>>

Unconsolidated(c) == {m \in Msgs : inConv[m] = c /\ m \notin consolidated}

\* A message may be sent again when another consolidator already has it.
Handling(m) == {w \in Consolidators : cpc[w] \notin {"idle", "next"} /\ m \in batch[w]}

\* The documents of S without a source.
Waiting(S) == (S \cap WithDoc) \ sourced

\* get_unconsolidated_messages, and the documents among them without a source.
\* Each message joins messages_to_mark before the row of its file is read: a read
\* that raises ends the loop, not the consolidation, which sends the rest unmarked.
Read(w, c) ==
    LET oldest == Least(Unconsolidated(c), MsgLimit, [m \in Msgs |-> m])
        Overlap(m) == IF m \in oldest THEN Cardinality(Handling(m)) ELSE 0
    IN
    /\ cpc[w] = "next"
    /\ c \in todo[w]
    /\ todo' = [todo EXCEPT ![w] = @ \ {c}]
    /\ \/ /\ oldest = {}
          /\ UNCHANGED <<cpc, conv, batch, marks, docs, unsourced, again, faults>>
       \/ /\ oldest # {}
          /\ conv' = [conv EXCEPT ![w] = c]
          /\ batch' = [batch EXCEPT ![w] = oldest]
          /\ \/ /\ marks' = [marks EXCEPT ![w] = oldest]
                /\ docs' = [docs EXCEPT ![w] = Waiting(oldest)]
                /\ again' = [m \in Msgs |-> again[m] + Overlap(m)]
                /\ UNCHANGED <<unsourced, faults>>
             \/ \E k \in oldest :
                /\ SpendFault
                /\ marks' = [marks EXCEPT ![w] = {m \in oldest : m <= k}]
                /\ docs' = [docs EXCEPT ![w] = Waiting({m \in oldest : m < k})]
                /\ unsourced' = unsourced \cup Waiting({k})
                /\ again' = [m \in Msgs |-> again[m] + Overlap(m)
                                + IF m \in oldest /\ k < m THEN 1 ELSE 0]
          /\ cpc' = [cpc EXCEPT ![w] = IF docs'[w] = {} THEN "docs" ELSE "user"]
    /\ UNCHANGED <<convVars, msgVars, handlerVars, sends, uploads, refused, interference>>

\* get_user_by_id, which returns None on any error: no document is uploaded.
FindUser(w) ==
    /\ cpc[w] = "user"
    /\ cpc' = [cpc EXCEPT ![w] = "docs"]
    /\ \/ UNCHANGED <<docs, unsourced, faults>>
       \/ /\ SpendFault
          /\ docs' = [docs EXCEPT ![w] = {}]
          /\ unsourced' = unsourced \cup docs[w]
    /\ UNCHANGED <<convVars, msgVars, handlerVars, todo, conv, batch, marks, sends, uploads,
                   refused, again, interference>>

\* add_file and update_document_source_id; an error of either is logged.
Upload(w, d) ==
    /\ cpc[w] = "docs"
    /\ d \in docs[w]
    /\ docs' = [docs EXCEPT ![w] = @ \ {d}]
    /\ \/ /\ uploads' = [uploads EXCEPT ![d] = @ + 1]
          /\ sourced' = sourced \cup {d}
          /\ UNCHANGED <<unsourced, faults>>
       \/ /\ SpendFault
          /\ unsourced' = unsourced \cup {d}
          /\ \E got \in {0, 1} : uploads' = [uploads EXCEPT ![d] = @ + got]
          /\ UNCHANGED sourced
    /\ UNCHANGED <<convVars, inConv, consolidated, handlerVars, cpc, todo, conv, batch, marks,
                   sends, refused, again, interference>>

\* add_conversation: an error of Praxos is returned, not raised.
Send(w) ==
    /\ cpc[w] = "docs"
    /\ docs[w] = {}
    /\ cpc' = [cpc EXCEPT ![w] = "mark"]
    /\ LET got == [m \in Msgs |-> sends[m] + IF m \in batch[w] THEN 1 ELSE 0] IN
       \/ sends' = got /\ UNCHANGED <<refused, faults>>
       \/ SpendFault /\ refused' = refused \cup batch[w] /\ sends' \in {sends, got}
    /\ UNCHANGED <<convVars, msgVars, handlerVars, todo, conv, batch, marks, docs, uploads,
                   unsourced, again, interference>>

\* Mutated MarkConsolidated: everything unconsolidated by now is marked.
MarkAllConsolidated(w) ==
    /\ cpc[w] = "mark"
    /\ consolidated' = consolidated \cup Unconsolidated(conv[w])
    /\ cpc' = [cpc EXCEPT ![w] = "next"]
    /\ UNCHANGED <<convVars, inConv, sourced, handlerVars, todo, conv, batch, marks, docs,
                   praxosVars, interference, faults>>

\* Mutated MarkConsolidated: the conversation is no longer ready.
MarkAndClose(w) ==
    /\ cpc[w] = "mark"
    /\ consolidated' = consolidated \cup marks[w]
    /\ status' = [status EXCEPT ![conv[w]] = "consolidated"]
    /\ cpc' = [cpc EXCEPT ![w] = "next"]
    /\ UNCHANGED <<platform, activity, clock, inConv, sourced, handlerVars, todo, conv,
                   batch, marks, docs, praxosVars, interference, faults>>

\* Mutated MarkConsolidated: the mark is lost.
MarkLost(w) ==
    /\ cpc[w] = "mark"
    /\ cpc' = [cpc EXCEPT ![w] = "next"]
    /\ UNCHANGED <<convVars, msgVars, handlerVars, todo, conv, batch, marks, docs,
                   praxosVars, interference, faults>>

\* mark_messages_consolidated
MarkConsolidated(w) ==
    /\ cpc[w] = "mark"
    /\ consolidated' = consolidated \cup marks[w]
    /\ cpc' = [cpc EXCEPT ![w] = "next"]
    /\ UNCHANGED <<convVars, inConv, sourced, handlerVars, todo, conv, batch, marks, docs,
                   praxosVars, interference, faults>>

PassEnds(w) ==
    /\ cpc[w] = "next"
    /\ todo[w] = {}
    /\ cpc' = [cpc EXCEPT ![w] = "idle"]
    /\ UNCHANGED <<convVars, msgVars, handlerVars, todo, conv, batch, marks, docs,
                   praxosVars, interference, faults>>

\* A step raises: the conversation is given up; a crash gives up the pass.
ConsolidatorFails(w) ==
    /\ cpc[w] # "idle"
    /\ SpendFault
    /\ \/ cpc[w] # "next" /\ cpc' = [cpc EXCEPT ![w] = "next"] /\ UNCHANGED todo
       \/ cpc' = [cpc EXCEPT ![w] = "idle"] /\ todo' = [todo EXCEPT ![w] = {}]
    /\ again' = [m \in Msgs |-> again[m] + IF cpc[w] = "mark" /\ m \in batch[w] THEN 1 ELSE 0]
    /\ UNCHANGED <<convVars, msgVars, handlerVars, conv, batch, marks, docs, sends, uploads,
                   refused, unsourced, interference>>

-----------------------------------------------------------------------------

Init ==
    /\ status = [c \in Convs |-> None]
    /\ platform = [c \in Convs |-> None]
    /\ activity = [c \in Convs |-> 0]
    /\ clock = 0
    /\ inConv = [m \in Msgs |-> None]
    /\ consolidated = {} /\ sourced = {}
    /\ hpc = [h \in Handlers |-> "idle"]
    /\ hplat = [h \in Handlers |-> None]
    /\ hconv = [h \in Handlers |-> None]
    /\ cpc = [w \in Consolidators |-> "idle"]
    /\ todo = [w \in Consolidators |-> {}]
    /\ conv = [w \in Consolidators |-> None]
    /\ batch = [w \in Consolidators |-> {}]
    /\ marks = [w \in Consolidators |-> {}]
    /\ docs = [w \in Consolidators |-> {}]
    /\ sends = [m \in Msgs |-> 0] /\ uploads = [m \in Msgs |-> 0]
    /\ refused = {} /\ unsourced = {}
    /\ again = [m \in Msgs |-> 0]
    /\ interference = 0 /\ faults = 0

HandlerStep(h) ==
    \/ Find(h) \/ Check(h) \/ Mark(h) \/ Create(h) \/ Insert(h) \/ Bump(h)

ConsolidatorStep(w) ==
    \/ \E c \in Convs : Read(w, c)
    \/ \E d \in Msgs : Upload(w, d)
    \/ Poll(w) \/ FindUser(w) \/ Send(w) \/ MarkConsolidated(w) \/ PassEnds(w)

Next ==
    \/ \E h \in Handlers :
        \/ \E p \in Platforms \cup {Web} : Arrive(h, p)
        \/ OpenWeb(h)
        \/ \E c \in Convs : Continue(h, c)
        \/ HandlerStep(h) \/ HandlerFails(h)
    \/ \E w \in Consolidators : ConsolidatorStep(w) \/ ConsolidatorFails(w)

Spec == Init /\ [][Next]_vars

\* The consolidator's loop runs for ever.
FairSpec == Spec /\ \A w \in Consolidators : WF_vars(ConsolidatorStep(w))

-----------------------------------------------------------------------------
(* Properties *)

\* The values of the variables.
TypeOK ==
    /\ status \in [Convs -> {None, "active", "ready"}]
    /\ platform \in [Convs -> Platforms \cup {Web, None}]
    /\ activity \in [Convs -> 0..clock] /\ clock \in Nat
    /\ inConv \in [Msgs -> Convs \cup {None}]
    /\ consolidated \subseteq Msgs /\ sourced \subseteq Msgs \cap WithDoc
    /\ hpc \in [Handlers -> {"idle", "find", "check", "mark", "create", "insert", "bump"}]
    /\ hplat \in [Handlers -> Platforms \cup {Web, None}]
    /\ hconv \in [Handlers -> Convs \cup {None}]
    /\ cpc \in [Consolidators -> {"idle", "next", "user", "docs", "mark"}]
    /\ todo \in [Consolidators -> SUBSET Convs]
    /\ conv \in [Consolidators -> Convs \cup {None}]
    /\ batch \in [Consolidators -> SUBSET Msgs]
    /\ marks \in [Consolidators -> SUBSET Msgs]
    /\ docs \in [Consolidators -> SUBSET (Msgs \cap WithDoc)]
    /\ sends \in [Msgs -> Nat] /\ uploads \in [Msgs -> Nat] /\ again \in [Msgs -> Nat]
    /\ refused \subseteq Msgs /\ unsourced \subseteq Msgs

\* A message is consolidated only after it was sent, also when messages are added
\* and other consolidators mark while it is being sent; the exception is what
\* Praxos refused.
ConsolidatedWasSent ==
    \A m \in consolidated : sends[m] > 0 \/ m \in refused

\* A document of a consolidated message was uploaded, or its row, its user or its
\* upload failed: also when only a part of what is sent is marked.
DocumentsAreUploaded ==
    \A m \in consolidated \cap WithDoc : m \in sourced \cup unsourced

\* Praxos gets a message again only from a consolidator that read it while
\* another had it, after a failure between sending and marking, or because a
\* file's row before it could not be read and it was sent without being marked.
SentOnceUnlessOverlapped ==
    \A m \in Msgs : sends[m] <= 1 + again[m]

\* A conversation stays active beside another only because the web opened one or
\* two handlers decided at once: otherwise the older is made ready first.
ActiveConversationsExplained ==
    Cardinality(With("active")) <= 1 + interference

\* The invariant behind the first two: what a consolidator knows at each step.
ConsolidationInv ==
    /\ TypeOK
    /\ ConsolidatedWasSent
    /\ DocumentsAreUploaded
    /\ \A w \in Consolidators :
        /\ cpc[w] \in {"user", "docs", "mark"} =>
            /\ marks[w] \subseteq batch[w]
            /\ (marks[w] \cap WithDoc) \ docs[w] \subseteq sourced \cup unsourced
        /\ cpc[w] = "mark" =>
            docs[w] = {} /\ \A m \in batch[w] : sends[m] > 0 \/ m \in refused

\* As many older conversations as a pass takes are ready: nothing ever leaves the
\* ready ones, so no pass reaches c until its rank changes.
Behind(c) == Cardinality({d \in With("ready") : activity[d] < activity[c]}) >= ConvLimit

\* A message of a conversation that is ready is consolidated, also one added
\* after the conversation was first consolidated, unless the conversation is
\* behind as many older ready ones as a pass takes.
ReadyIsConsolidated ==
    \A m \in Msgs, c \in Convs :
        (inConv[m] = c /\ status[c] = "ready") ~> (m \in consolidated \/ Behind(c))
=============================================================================
