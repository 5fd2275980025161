------------------------- MODULE ConversationMedia -------------------------
(***************************************************************************)
(* The files of one conversation: the media rows among its stored messages *)
(* and the media bus (src/core/media_bus.py), a list in the memory of the  *)
(* worker that a run fills, the tools of the run read and extend, and the  *)
(* end of the run empties (agent_runner_langgraph.py).                     *)
(*                                                                         *)
(* A run first loads the history: every media row among the last Window    *)
(* messages is fetched again, all at once, and put on the bus in the order *)
(* in which the downloads end.  Then the files of the event are fetched in *)
(* the same way and recorded in order.  Tools generate files, bring stored *)
(* ones back, unpack new ones and attach files to the answer; the flush at *)
(* the end records the attachments that are not on the bus.  Every write   *)
(* may fail, with or without its row: while the event is recorded a failed *)
(* write ends the run, after that it loses the row of one file.            *)
(*                                                                         *)
(* The runs of a conversation follow each other (EventQueue says when they *)
(* do not), an event whose message could not be completed is handled again *)
(* and a worker may die in a run.  A document of the database is known by  *)
(* its identifier; every reception of a file makes a new one.  Not         *)
(* modelled: the marks of what a tool loaded in the context (AgentTurn),   *)
(* entries of events without an identifier, which no handler writes, the   *)
(* replacement of the conversation by a new one (Conversations), the text  *)
(* of a group, stored here before its files and not between them, and the  *)
(* buses that runs in other workers have left uncleared.                   *)
(***************************************************************************)
EXTENDS Naturals, Sequences, FiniteSets, Functions

CONSTANTS
    Events,         \* the events of the conversation
    FilesOf,        \* the files each event carries, in order
    Stored,         \* documents of the user from elsewhere
    Fresh,          \* documents that tools may create
    External,       \* files known by an address only (Drive, Dropbox)
    Captioned,      \* files recorded with a second row: images, and captions
    Window,         \* messages the history is made of (50 in the code)
    MaxAgain,       \* bound: events handled once more
    MaxFaults,      \* bound: failed fetches, failed writes and crashes
    MaxTools,       \* bound: effects of tools on the files
    NoEvent

EventFiles == UNION {Range(FilesOf[e]) : e \in Events}
Documents == EventFiles \cup Stored \cup Fresh
Files == Documents \cup External

ASSUME FilesAssumption ==
    /\ IsFiniteSet(Events) /\ NoEvent \notin Events
    /\ FilesOf \in [Events -> Seq(EventFiles)]
    /\ Captioned \subseteq Documents
\* A document is made for one file of one event, or by one call of a tool.
ASSUME DocumentsAssumption ==
    /\ \A e \in Events : IsInjective(FilesOf[e])
    /\ \A d, e \in Events : d # e => Range(FilesOf[d]) \cap Range(FilesOf[e]) = {}
    /\ Fresh \cap (EventFiles \cup Stored) = {}
    /\ EventFiles \cap Stored = {}
    /\ External \cap Documents = {}
ASSUME BoundsAssumption ==
    /\ Window \in Nat \ {0}
    /\ MaxAgain \in Nat /\ MaxFaults \in Nat /\ MaxTools \in Nat

VARIABLES
    rows,       \* media rows of the conversation: place, file, identified or not
    stored,     \* messages of the conversation, media rows and others
    bus,        \* the files on the media bus; a reference is a place in it
    phase,      \* idle, history, input, agent or flush
    event,      \* the event of the run
    todo,       \* files whose payload is being built
    built,      \* files whose payload is in the context
    next,       \* the place of the next file of the event to record
    attached,   \* the buffer of attach_file_to_response
    tools,      \* effects of tools so far
    created,    \* documents tools have created
    unrecorded, \* files a tool put on the bus without a media row
    handled,    \* how often each event was handled
    failed,     \* files a fault kept from being recorded
    crashed,    \* events whose run died with the worker
    refused,    \* events whose run could not load the history
    delivered,  \* files sent to the user with an answer
    faults      \* faults so far

conversationVars == <<rows, stored>>
runVars == <<phase, event, todo, built, next, attached>>
ghostVars == <<unrecorded, handled, failed, crashed, refused, delivered, faults>>
vars == <<conversationVars, bus, runVars, tools, created, ghostVars>>

-----------------------------------------------------------------------------
(* The rows of the conversation *)

MediaRow(n, f, identified) == [at |-> n, file |-> f, id |-> identified]

\* The media rows get_conversation_history goes through: without inserted_id
\* a row is skipped.
InHistory == {r \in rows : r.at + Window > stored /\ r.id}

HistoryFiles == {r.file : r \in InHistory}

\* Two rows share the coroutine in "cache", which can be awaited only once.
Repeated == \E r, s \in InHistory : r # s /\ r.file = s.file

AddRow(f, identified) == rows' = rows \cup {MediaRow(stored + 1, f, identified)}

\* The media message of a file, and its caption or link as a text.
RowsOf(f) == IF f \in Captioned THEN 2 ELSE 1

\* add_user_media_message, and add_user_message for the caption.
Record(f) == AddRow(f, TRUE) /\ stored' = stored + RowsOf(f)

\* A reference is appended; its place in the list is the number tools know it by.
AddMedia(f) == bus' = Append(bus, f)

NewDocument(f) == f \in Fresh \ created /\ created' = created \cup {f}

\* receive_file for a conversation.
Receive(f) == NewDocument(f) /\ AddMedia(f)

Spend == faults < MaxFaults /\ faults' = faults + 1

\* add_message inserts the row and then updates the conversation: an error of
\* the second leaves the row.  A message mentions the error.
RecordFails(f) ==
    /\ Spend
    /\ failed' = failed \cup {f}
    /\ \/ UNCHANGED rows /\ stored' = stored + 1
       \/ AddRow(f, TRUE) /\ stored' = stored + 2

-----------------------------------------------------------------------------
(* A run: the history, then the files of the event *)

Begin(e) ==
    /\ phase = "idle"
    /\ handled[e] > 0 =>
         handled[e] = 1 /\ Cardinality({d \in Events : handled[d] > 1}) < MaxAgain
    /\ handled' = [handled EXCEPT ![e] = @ + 1]
    /\ phase' = "history" /\ event' = e
    /\ todo' = HistoryFiles
    /\ built' = {} /\ next' = 1 /\ attached' = <<>>
    /\ UNCHANGED <<conversationVars, bus, tools, created, unrecorded, failed, crashed,
                   refused, delivered, faults>>

\* build_payload_from_id: the payload is built, then the file put on the bus.
\* A failed download still leaves the file on the bus; a failed look-up, or no
\* address for the bus, leaves nothing.
Fetch(f) ==
    /\ phase \in {"history", "input"}
    /\ f \in todo
    /\ todo' = todo \ {f}
    /\ \/ built' = built \cup {f} /\ AddMedia(f) /\ UNCHANGED <<failed, faults>>
       \/ /\ Spend
          /\ UNCHANGED bus \/ AddMedia(f)
          /\ failed' = IF phase = "input" THEN failed \cup {f} ELSE failed
          /\ UNCHANGED built
    /\ UNCHANGED <<conversationVars, phase, event, next, attached, tools, created,
                   unrecorded, handled, crashed, refused, delivered>>

\* Nothing of a run is left but its rows and, maybe, the bus.
Stop ==
    /\ phase' = "idle" /\ event' = NoEvent
    /\ todo' = {} /\ built' = {} /\ attached' = <<>>
    /\ UNCHANGED <<next, tools>>

\* The end of a run empties the bus, unless the write of the execution record
\* before it fails: that one raises out of the finally block.
EndRun ==
    /\ Stop
    /\ \/ bus' = <<>> /\ UNCHANGED faults
       \/ Spend /\ UNCHANGED bus

\* The second await of a coroutine raises, its result is not a pair, and the
\* run answers with an apology before anything of the event is stored.
HistoryFails ==
    /\ phase = "history" /\ todo = {}
    /\ Repeated
    /\ refused' = refused \cup {event}
    /\ EndRun
    /\ UNCHANGED <<conversationVars, created, unrecorded, handled, failed, crashed,
                   delivered>>

\* The history is complete: the text of the event is stored, its files fetched.
HistoryLoads ==
    /\ phase = "history" /\ todo = {}
    /\ ~Repeated
    /\ stored' = stored + 1
    /\ phase' = "input"
    /\ todo' = Range(FilesOf[event]) /\ built' = {}
    /\ UNCHANGED <<rows, bus, event, next, attached, tools, created, ghostVars>>

\* Mutated RecordNext: the payloads that were built are matched with the files
\* by their number.
RecordNextShifted ==
    /\ phase = "input" /\ todo = {}
    /\ next <= Len(FilesOf[event])
    /\ next' = next + 1
    /\ IF next <= Cardinality(built)
         THEN Record(FilesOf[event][next]) ELSE UNCHANGED conversationVars
    /\ UNCHANGED <<bus, phase, event, todo, built, attached, tools, created, ghostVars>>

\* Files whose payload was built are recorded in order, the others passed over.
RecordNext ==
    /\ phase = "input" /\ todo = {}
    /\ next <= Len(FilesOf[event])
    /\ next' = next + 1
    /\ LET f == FilesOf[event][next] IN
         IF f \in built THEN Record(f) ELSE UNCHANGED conversationVars
    /\ UNCHANGED <<bus, phase, event, todo, built, attached, tools, created, ghostVars>>

\* What the event brought is not stored: the write raises, out of the loop over
\* the files and of the run, which answers with an apology.
InputFails ==
    /\ phase \in {"history", "input"} /\ todo = {}
    /\ Spend
    /\ failed' = failed \cup {FilesOf[event][i] : i \in next..Len(FilesOf[event])}
    /\ \/ phase = "history"
          /\ ~Repeated /\ stored' \in stored..stored + 1 /\ UNCHANGED rows
       \/ /\ phase = "input" /\ next <= Len(FilesOf[event])
          /\ LET f == FilesOf[event][next] IN
               /\ f \in built
               /\ \/ UNCHANGED conversationVars
                  \/ AddRow(f, TRUE) /\ stored' \in stored + 1..stored + RowsOf(f)
    /\ Stop
    /\ bus' \in {<<>>, bus}
    /\ UNCHANGED <<created, unrecorded, handled, crashed, refused, delivered>>

InputRecorded ==
    /\ phase = "input" /\ todo = {}
    /\ next > Len(FilesOf[event])
    /\ phase' = "agent"
    /\ UNCHANGED <<conversationVars, bus, event, todo, built, next, attached, tools,
                   created, ghostVars>>

-----------------------------------------------------------------------------
(* What the tools of the run do to the files *)

Tool ==
    /\ phase = "agent" /\ tools < MaxTools
    /\ tools' = tools + 1
    /\ UNCHANGED <<phase, event, todo, built, next, handled, crashed, refused, delivered>>

\* Any other message the run stores: an answer, a call or a result of a tool.
Say ==
    /\ Tool
    /\ stored' = stored + 1
    /\ UNCHANGED <<rows, bus, attached, created, unrecorded, failed, faults>>

\* generate_image, _audio, _video: a new document, its media row, the bus.  If
\* the row fails the tool reports an error and the document stays where it is.
Generate(f) ==
    /\ Tool
    /\ NewDocument(f)
    /\ \/ /\ AddRow(f, TRUE) /\ stored' = stored + 1
          /\ AddMedia(f)
          /\ UNCHANGED <<failed, faults>>
       \/ RecordFails(f) /\ UNCHANGED bus
    /\ UNCHANGED <<attached, unrecorded>>

\* Mutated Retrieve: what is brought back is recorded as a media message.
RetrieveAsMedia(f) ==
    /\ Tool
    /\ f \in Stored \cup {r.file : r \in {s \in rows : s.id}}
    /\ AddMedia(f)
    /\ AddRow(f, TRUE) /\ stored' = stored + 1
    /\ UNCHANGED <<attached, created, unrecorded, failed, faults>>

\* retrieve_file_by_source_id: a stored document, of this conversation or of
\* another, is fetched, put on the bus and mentioned in a text.
Retrieve(f) ==
    /\ Tool
    /\ f \in Stored \cup {r.file : r \in {s \in rows : s.id}}
    /\ \/ /\ AddMedia(f)
          /\ stored' = stored + 1
          /\ unrecorded' = unrecorded \cup {f}
          /\ UNCHANGED faults
       \/ /\ Spend
          /\ AddMedia(f)
          /\ unrecorded' = unrecorded \cup {f}
          /\ UNCHANGED stored
    /\ UNCHANGED <<rows, attached, created, failed>>

\* extract_archive: each file of an archive is received as a new document and
\* put on the bus.
Extract(f) ==
    /\ Tool
    /\ Receive(f)
    /\ unrecorded' = unrecorded \cup {f}
    /\ UNCHANGED <<conversationVars, attached, failed, faults>>

\* attach_file_to_response: the address of a file on the bus, or another one.
Attach(f) ==
    /\ Tool
    /\ f \in Range(bus) \cup External
    /\ attached' = Append(attached, f)
    /\ UNCHANGED <<conversationVars, bus, created, unrecorded, failed, faults>>

-----------------------------------------------------------------------------
(* The end of a run *)

\* The graph, the storing of its messages or of the answer raises, or the user
\* cancels: nothing is sent but an apology, the attachments are dropped.
Break ==
    /\ phase = "agent"
    /\ EndRun
    /\ UNCHANGED <<conversationVars, created, unrecorded, handled, failed, crashed,
                   refused, delivered>>

\* process_media_output: the answer itself is a new image, audio or video.  It
\* is among the files of the answer before its row is stored.
Finish ==
    /\ phase = "agent"
    /\ phase' = "flush"
    /\ \/ UNCHANGED <<conversationVars, created, delivered, failed, faults>>
       \/ \E f \in Fresh :
            /\ NewDocument(f)
            /\ delivered' = delivered \cup {f}
            /\ \/ AddRow(f, TRUE) /\ stored' = stored + 1 /\ UNCHANGED <<failed, faults>>
               \/ RecordFails(f)
    /\ UNCHANGED <<bus, event, todo, built, next, attached, tools, unrecorded, handled,
                   crashed, refused>>

\* already_persisted_urls
Persisted(f) == f \in Range(bus)

\* The next attachment is added to the answer; unless the bus has its address,
\* a row without inserted_id is stored, if that does not fail.
Flush ==
    /\ phase = "flush" /\ attached # <<>>
    /\ attached' = Tail(attached)
    /\ delivered' = delivered \cup {Head(attached)}
    /\ \/ Persisted(Head(attached)) /\ UNCHANGED <<conversationVars, failed, faults>>
       \/ /\ ~Persisted(Head(attached))
          /\ AddRow(Head(attached), FALSE) /\ stored' = stored + 1
          /\ UNCHANGED <<failed, faults>>
       \/ /\ ~Persisted(Head(attached))
          /\ Spend
          /\ failed' = failed \cup {Head(attached)}
          /\ \/ UNCHANGED conversationVars
             \/ AddRow(Head(attached), FALSE) /\ stored' = stored + 1
    /\ UNCHANGED <<bus, phase, event, todo, built, next, tools, created, unrecorded,
                   handled, crashed, refused>>

End ==
    /\ phase = "flush" /\ attached = <<>>
    /\ EndRun
    /\ UNCHANGED <<conversationVars, created, unrecorded, handled, failed, crashed,
                   refused, delivered>>

\* The worker dies: its bus dies with it, and the event is not handled further.
Crash ==
    /\ phase # "idle"
    /\ Spend
    /\ crashed' = crashed \cup {event}
    /\ Stop /\ bus' = <<>>
    /\ UNCHANGED <<conversationVars, created, unrecorded, handled, failed, refused,
                   delivered>>

-----------------------------------------------------------------------------

Init ==
    /\ rows = {} /\ stored = 0 /\ bus = <<>>
    /\ phase = "idle" /\ event = NoEvent
    /\ todo = {} /\ built = {} /\ next = 1 /\ attached = <<>> /\ tools = 0
    /\ created = {} /\ unrecorded = {}
    /\ handled = [e \in Events |-> 0]
    /\ failed = {} /\ crashed = {} /\ refused = {} /\ delivered = {} /\ faults = 0

Run ==
    \/ \E e \in Events : Begin(e)
    \/ \E f \in Documents : Fetch(f)
    \/ HistoryFails \/ HistoryLoads \/ RecordNext \/ InputRecorded \/ InputFails
    \/ Say
    \/ \E f \in Documents : Generate(f) \/ Retrieve(f) \/ Extract(f)
    \/ \E f \in Files : Attach(f)
    \/ Break \/ Finish \/ Flush \/ End

Next == Run \/ Crash

Spec == Init /\ [][Next]_vars

-----------------------------------------------------------------------------
(* Properties *)

HandledAgain == {e \in Events : handled[e] > 1}

TypeOK ==
    /\ rows \subseteq [at : Nat, file : Files, id : BOOLEAN]
    /\ stored \in Nat
    /\ bus \in Seq(Documents)
    /\ phase \in {"idle", "history", "input", "agent", "flush"}
    /\ event \in Events \cup {NoEvent} /\ (event = NoEvent <=> phase = "idle")
    /\ todo \subseteq Documents /\ built \subseteq Documents
    /\ next \in Nat \ {0}
    /\ attached \in Seq(Files)
    /\ tools \in Nat
    /\ created \subseteq Fresh
    /\ unrecorded \subseteq Documents
    /\ handled \in [Events -> Nat]
    /\ failed \subseteq Files /\ crashed \subseteq Events /\ refused \subseteq Events
    /\ delivered \subseteq Files /\ faults \in Nat

\* The history of a conversation becomes impossible to load only because an
\* event with a file was handled twice: no tool, no attachment and no crash
\* leaves two rows of the same document.
HistoryBrokenOnlyByRedelivery ==
    \A r, s \in rows :
        r # s /\ r.id /\ s.id /\ r.file = s.file
            => \E e \in HandledAgain : r.file \in Range(FilesOf[e])

\* A file the user sent is in the conversation once its event was handled,
\* unless it could not be fetched, a write failed while the event was recorded
\* or the worker died; when a run is turned away because of the history, an
\* event was handled twice before it.  Nothing the agent, its tools and the end
\* of a run do, and no failure there, takes a received file away.
ReceivedFilesAreKept ==
    \A e \in Events : handled[e] > 0 /\ e # event =>
        \/ \A f \in Range(FilesOf[e]) : f \in failed \/ \E r \in rows : r.file = f
        \/ e \in crashed
        \/ e \in refused /\ HandledAgain # {}

\* A file put in an answer is in the conversation, unless a tool put it on the
\* bus without recording it or the write of its own row failed: that the bus
\* has a file is no reason to skip its row otherwise, not even when an earlier
\* run left the bus as it was.
DeliveredFilesAreShown ==
    \A f \in delivered :
        f \in unrecorded \cup failed \/ \E r \in rows : r.file = f

\* No file of the conversation gets lost on its way to the history, received or sent.
FilesAreKept == ReceivedFilesAreKept /\ DeliveredFilesAreShown

\* Files that appear more than once are downloaded once and the history loads:
\* "inserted_id -> task to dedupe identical media" (file_msg_utils.py:622).
RepeatedMediaLoads == refused = {}

=============================================================================
