----------------------------- MODULE AgentTurn -----------------------------
(***************************************************************************)
(* The turns of one conversation: LangGraphAgentRunner.run and its graph   *)
(* (src/core/agent_runner_langgraph.py, src/core/nodes/), the messages it  *)
(* leaves in the database (ImmediatePersistenceCallback, update_history)   *)
(* and builds the next turn from (get_conversation_history), and what the  *)
(* execution worker does before and after a run: it sends the final        *)
(* response, and it holds the results of browser tasks back until all of   *)
(* them have arrived (handle_async_single_event).                          *)
(*                                                                         *)
(* The language model is external: it answers with any member of Answers,  *)
(* a text and a sequence of tool calls.  So are the tools: a call has any  *)
(* of the outcomes its kind can have.  The kinds are those the code tells  *)
(* apart: "reply" (reply_to_user_on_...), "attach"                         *)
(* (attach_file_to_response), "browse" (browse_website_with_ai), "media"   *)
(* (get_media_by_id) and "work", every other tool.                         *)
(*                                                                         *)
(* The turns of a conversation run one after the other, as the session of  *)
(* the event queue has it while its lock lasts (EventQueue).               *)
(***************************************************************************)
EXTENDS Naturals, Sequences, FiniteSets, SequencesExt

CONSTANTS
    Answers,        \* what the model may answer
    Requests,       \* where a user turn may come from, and what its plan wants
    MaxToolIters,   \* MAX_TOOL_ITERS (3)
    RecursionLimit, \* node executions of one run of the graph (100)
    Window,         \* messages of the log a turn starts from (50)
    MaxTurns,       \* bound on turns
    MaxCalls,       \* bound on tool calls
    MaxFaults,      \* bound on failures and cancellations
    NoCall          \* the tool_call_id of a message that answers no call

Tools == {"reply", "attach", "browse", "media", "work"}
Texts == {"none", "plain", "phrase"}
Sources == {"chat", "websocket"}

ASSUME AnswersAssumption == Answers \subseteq [text : Texts, calls : Seq(Tools)]
ASSUME RequestsAssumption == Requests \subseteq [source : Sources, expect : BOOLEAN]
ASSUME LimitAssumption ==
    /\ MaxToolIters \in Nat /\ RecursionLimit \in Nat /\ Window \in Nat
    /\ MaxTurns \in Nat /\ MaxCalls \in Nat /\ MaxFaults \in Nat
ASSUME NoCallAssumption == NoCall \notin Nat

VARIABLES
    log,        \* the conversation's messages in the database
    turn,       \* turns so far
    source,     \* where the event of the turn came from
    expect,     \* the plan wants a tool to be used (not minimal_tools)
    inherited,  \* the history of the turn has an answered call of a reply tool
    pc, mode,   \* the next node of the run, and whether it streams
    msgs,       \* the messages of the run, after those of the history
    iters,      \* tool_iter_counter
    steps,      \* node executions of the run
    loaded,     \* media_bus: calls whose media is loaded in the context
    files,      \* file_attachment_buffer: the calls that attached a file
    final,      \* the response the run ends with
    saved,      \* messages update_history is through with
    told,       \* what the user got to see of the turn
    ended,      \* how the last turn ended
    called,     \* its run called a reply tool
    broken,     \* turns in which a run broke off or was cancelled
    tasks, arrived, \* browser tasks queued, and those whose result was taken
    nextId,     \* the tool_call_id of the next call
    faults

runVars == <<pc, mode, msgs, iters, steps>>
turnVars == <<turn, source, expect, inherited>>
outVars == <<files, final, saved, told, ended, called>>
taskVars == <<tasks, arrived>>
vars == <<log, turnVars, runVars, outVars, taskVars, loaded, broken, nextId, faults>>

Nodes == {"agent", "router", "action", "finalize"}

SpendFault == faults < MaxFaults /\ faults' = faults + 1

LastOf(s) == s[Len(s)]

-----------------------------------------------------------------------------
\* Messages of a run.
AIMessage(text, calls) == [kind |-> "ai", text |-> text, calls |-> calls]
ToolMessage(call, outcome) ==
    [kind |-> "tool", id |-> call.id, tool |-> call.tool, outcome |-> outcome]
\* A message the router adds for the model; it is never stored.
Note == [kind |-> "note"]

CallsOf(m) == IF m.kind = "ai" THEN {m.calls[k] : k \in DOMAIN m.calls} ELSE {}
NewCalls == UNION {CallsOf(msgs[i]) : i \in DOMAIN msgs}
RepliesCalled == {c \in NewCalls : c.tool = "reply"}

\* Messages of the log.
Stored(kind, calls, id, task) ==
    [kind |-> kind, calls |-> {c.id : c \in calls},
     replies |-> {c.id : c \in {d \in calls : d.tool = "reply"}},
     answers |-> id, task |-> task]
UserText == Stored("user", {}, NoCall, "none")
BotText == Stored("text", {}, NoCall, "none")
\* The record of an attached file, without an inserted_id.
FileRecord == Stored("file", {}, NoCall, "none")
\* Both writers of tool results mark those of the browser tool as requested.
ResultOf(tool, id) ==
    Stored("result", {}, id, IF tool = "browse" THEN "requested" ELSE "none")

(***************************************************************************)
(* get_conversation_history: the messages of the log a turn starts from.   *)
(* Of the last Window messages it drops the calls without an answer, the   *)
(* results without a call, and files without an inserted_id; an AI message *)
(* that loses its calls stays.                                             *)
(***************************************************************************)
Recent(l) == {i \in DOMAIN l : i + Window > Len(l)}
Made(l) == UNION {l[i].calls : i \in Recent(l)}
\* Every result counts as the answer of a call.
AnsweredM(l) == {l[i].answers : i \in {j \in Recent(l) : l[j].kind = "result"}}
Answered(l) == {l[i].answers : i \in {j \in Recent(l) : l[j].kind = "result"}} \cap Made(l)
ValidCalls(l, i) == l[i].calls \cap Answered(l)
Kept(l) ==
    {i \in Recent(l) : /\ l[i].kind # "file"
                       /\ l[i].kind = "result" => l[i].answers \in Answered(l)}
RepliesIn(l) == \E i \in Kept(l) : ValidCalls(l, i) \cap l[i].replies # {}

-----------------------------------------------------------------------------
Init ==
    /\ log = <<>> /\ turn = 0 /\ source = "chat" /\ expect = FALSE /\ inherited = FALSE
    /\ pc = "idle" /\ mode = "stream" /\ msgs = <<>> /\ iters = 0 /\ steps = 0
    /\ loaded = {} /\ files = {} /\ final = "empty" /\ saved = 0
    /\ told = {} /\ ended = "none" /\ called = FALSE /\ broken = {}
    /\ tasks = {} /\ arrived = {} /\ nextId = 1 /\ faults = 0

\* A turn starts: the history is read, then the user's message is stored.
\* A browser result brings no message of its own.
Start(src, wants, l) ==
    /\ pc = "idle" /\ turn < MaxTurns
    /\ turn' = turn + 1 /\ source' = src /\ expect' = wants
    /\ inherited' = RepliesIn(l)
    /\ log' = IF src = "browser" THEN l ELSE Append(l, UserText)
    /\ pc' = "agent" /\ mode' = "stream" /\ msgs' = <<>> /\ iters' = 0 /\ steps' = 0
    /\ loaded' = {} /\ files' = {} /\ final' = "empty" /\ saved' = 0
    /\ told' = {} /\ ended' = "running" /\ called' = FALSE

\* The turn is over: the state of its run is gone.
EndTurn(how, seen) ==
    /\ pc' = "idle" /\ ended' = how /\ told' = told \cup seen
    /\ called' = (RepliesCalled # {})
    /\ mode' = "stream" /\ msgs' = <<>> /\ iters' = 0 /\ steps' = 0
    /\ loaded' = {} /\ final' = "empty" /\ saved' = 0 /\ expect' = FALSE
    /\ UNCHANGED <<turn, source, inherited>>

UserTurn ==
    /\ \E r \in Requests : Start(r.source, r.expect, log)
    /\ UNCHANGED <<taskVars, broken, nextId, faults>>

\* Turns that never reach the graph: a message the agent only listens to
\* (trigger_agent is false), and one in which everything was forwarded,
\* which is answered with a question that is not stored.
NoAgentTurn ==
    /\ pc = "idle" /\ turn < MaxTurns
    /\ turn' = turn + 1 /\ source' = "chat" /\ log' = Append(log, UserText)
    /\ \/ told' = {} /\ ended' = "passive"
       \/ told' = {"asked"} /\ ended' = "asked"
    /\ files' = {} /\ called' = FALSE
    /\ UNCHANGED <<expect, inherited, runVars, final, saved,
                   taskVars, loaded, broken, nextId, faults>>

-----------------------------------------------------------------------------
\* The agent node: the model is called.
WithIds(calls) == [k \in DOMAIN calls |-> [id |-> nextId + k - 1, tool |-> calls[k]]]

\* Text is shown to a websocket user as it is generated, in a streaming run.
Streamed(text) ==
    IF source = "websocket" /\ mode = "stream" /\ text # "none" THEN {"stream"} ELSE {}

Agent ==
    /\ pc = "agent" /\ steps < RecursionLimit
    /\ \E a \in Answers :
         /\ nextId + Len(a.calls) <= MaxCalls + 1
         /\ msgs' = Append(msgs, AIMessage(a.text, WithIds(a.calls)))
         /\ nextId' = nextId + Len(a.calls)
         /\ told' = told \cup Streamed(a.text)
    /\ pc' = "router" /\ steps' = steps + 1
    /\ UNCHANGED <<log, turnVars, mode, iters, files, final, saved, ended, called,
                   taskVars, loaded, broken, faults>>

-----------------------------------------------------------------------------
\* should_continue_router, in the order of its conditions.
NewMedia ==
    {msgs[i].id : i \in {j \in DOMAIN msgs : msgs[j].kind = "tool" /\ msgs[j].outcome = "media"}}
        \ loaded

\* The last message is the result of a call with one of these outcomes.
LastResultIs(outcomes) ==
    /\ NewMedia = {}
    /\ LastOf(msgs).kind = "tool" /\ LastOf(msgs).outcome \in outcomes

LastIsAnswer == NewMedia = {} /\ LastOf(msgs).kind = "ai"

Goto(node, notes, n) ==
    /\ pc' = node /\ msgs' = msgs \o notes /\ iters' = n

\* Media that a tool fetched goes into the context, once.
LoadMedia ==
    /\ NewMedia # {}
    /\ Goto("agent", <<Note>>, iters) /\ loaded' = loaded \cup NewMedia

\* A text with the phrase of a scheduled command goes to the tools.
RoutePhrase ==
    /\ LastIsAnswer /\ LastOf(msgs).text = "phrase"
    /\ Goto("action", <<>>, iters) /\ UNCHANGED loaded

RouteFinalReply ==
    /\ LastResultIs({"final"})
    /\ Goto("finalize", <<>>, iters) /\ UNCHANGED loaded

\* An error that cannot be retried, or was retried often enough, ends the run
\* "to inform the user"; another is given back to the model.
CanRetry == iters < MaxToolIters

RouteError ==
    /\ \/ /\ LastResultIs({"fatal"}) \/ (LastResultIs({"retry"}) /\ ~CanRetry)
          /\ Goto("finalize", <<Note>>, iters)
       \/ /\ LastResultIs({"retry"}) /\ CanRetry
          /\ Goto("agent", <<Note>>, iters + 1)
    /\ UNCHANGED loaded

RouteResult ==
    /\ LastResultIs({"ok", "media", "unreadable"})
    /\ Goto("agent", <<>>, iters) /\ UNCHANGED loaded

\* The plan wants a tool and the model has called none in this run.
Stalled == LastIsAnswer /\ LastOf(msgs).text # "phrase" /\ expect /\ NewCalls = {}

Nudge ==
    /\ Stalled
    /\ Goto(IF iters + 1 > MaxToolIters THEN "finalize" ELSE "agent", <<Note>>, iters + 1)
    /\ UNCHANGED loaded

RouteAnswer ==
    /\ LastIsAnswer /\ LastOf(msgs).text # "phrase" /\ ~Stalled
    /\ Goto(IF LastOf(msgs).calls = <<>> THEN "finalize" ELSE "action", <<>>, iters)
    /\ UNCHANGED loaded

Router ==
    /\ pc = "router" /\ steps < RecursionLimit
    /\ \/ LoadMedia \/ RoutePhrase \/ RouteFinalReply \/ RouteError
       \/ RouteResult \/ Nudge \/ RouteAnswer
    /\ steps' = steps + 1
    /\ UNCHANGED <<log, turnVars, mode, outVars, taskVars, broken, nextId, faults>>

-----------------------------------------------------------------------------
\* A run breaks off: an error while streaming is reported to a websocket user
\* and the graph runs again from the initial state, without streaming; an
\* error of that run ends the turn with an apology.
\* The repeated run may be repeated again.
BreakOffM(seen) ==
    /\ broken' = broken \cup {turn}
    /\ pc' = "agent" /\ mode' = "stream" /\ msgs' = <<>> /\ iters' = 0 /\ steps' = 0
    /\ told' = told \cup seen
    /\ UNCHANGED <<turnVars, loaded, final, saved, ended, called>>

BreakOff(seen) ==
    /\ broken' = broken \cup {turn}
    /\ \/ /\ mode = "stream"
          /\ pc' = "agent" /\ mode' = "batch" /\ msgs' = <<>> /\ iters' = 0 /\ steps' = 0
          /\ told' = told \cup seen \cup (IF source = "websocket" THEN {"error"} ELSE {})
          /\ UNCHANGED <<turnVars, loaded, final, saved, ended, called>>
       \/ /\ mode = "batch" /\ EndTurn("failed", seen \cup {"sorry"})

\* The model, a node or the stream raises an error, or the graph reaches the
\* recursion limit.
GraphFails ==
    /\ pc \in Nodes
    /\ \/ SpendFault
       \/ steps = RecursionLimit /\ UNCHANGED faults
    /\ BreakOff({})
    /\ UNCHANGED <<log, files, taskVars, nextId>>

\* The action node: the calls of the last message are executed together.  A
\* tool that raises an error breaks the run off, or its message is one the
\* router cannot read.  The callback stores what the tools returned, under an
\* id of its own; when it cannot, the error is only logged.  Calls that run
\* together are stored in the order in which they return.
Outcomes(tool) ==
    CASE tool = "reply"  -> {"ok", "final", "unreadable", "raise"}
      [] tool = "attach" -> {"ok", "unreadable", "raise"}
      [] tool = "browse" -> {"ok", "retry", "fatal"}
      [] tool = "media"  -> {"ok", "media", "fatal"}
      [] tool = "work"   -> {"ok", "retry", "fatal", "unreadable", "raise"}
Raised == {"unreadable", "raise"}

\* What is not written.
Nothing == Stored("nothing", {}, NoCall, "none")

\* A reply tool logs its text itself; the callback skips replies and media.
WrittenByTool(call, outcome, stored) ==
    IF outcome \in Raised THEN Nothing
    ELSE CASE call.tool = "reply" -> BotText
           [] call.tool \in {"attach", "browse", "work"} /\ stored ->
                ResultOf(call.tool, NoCall)
           [] OTHER -> Nothing

Act ==
    /\ pc = "action" /\ steps < RecursionLimit
    /\ LET calls == LastOf(msgs).calls
           Done(f, tool) == {calls[k].id : k \in
                {j \in DOMAIN calls : calls[j].tool = tool /\ f[j] \notin Raised}}
       IN \E f \in [DOMAIN calls -> UNION {Outcomes(t) : t \in Tools}], stored \in BOOLEAN :
            /\ \A k \in DOMAIN calls : f[k] \in Outcomes(calls[k].tool)
            /\ IF stored /\ \A k \in DOMAIN calls : f[k] \notin Raised
               THEN UNCHANGED faults ELSE SpendFault
            /\ LET Record(k) == WrittenByTool(calls[k], f[k], stored) IN
               \E order \in SetToSeqs({k \in DOMAIN calls : Record(k) # Nothing}) :
                 log' = log \o [n \in DOMAIN order |-> Record(order[n])]
            /\ files' = files \cup Done(f, "attach")
            /\ tasks' = tasks \cup {id \in Done(f, "browse") :
                            \E k \in DOMAIN calls : calls[k].id = id /\ f[k] = "ok"}
            /\ LET seen == IF Done(f, "reply") # {} THEN {"reply"} ELSE {} IN
               \/ /\ \E k \in DOMAIN calls : f[k] = "raise"
                  /\ BreakOff(seen)
               \/ /\ \A k \in DOMAIN calls : f[k] # "raise"
                  /\ msgs' = msgs \o [k \in DOMAIN calls |-> ToolMessage(calls[k], f[k])]
                  /\ told' = told \cup seen
                  /\ pc' = "router" /\ steps' = steps + 1
                  /\ UNCHANGED <<turnVars, mode, iters, loaded, final, saved, ended, called, broken>>
    /\ UNCHANGED <<arrived, nextId>>

\* generate_final_response.  It looks for calls of reply tools in all the
\* messages of the state, those of the history included.
\* Only a reply marked as the final message counts.
RepliedByToolM ==
    inherited \/ \E i \in DOMAIN msgs : msgs[i].kind = "tool" /\ msgs[i].outcome = "final"
RepliedByTool == inherited \/ RepliesCalled # {}

\* The source is not looked at.
AlreadyStreamedM == LastOf(msgs).kind = "ai" /\ LastOf(msgs).text # "none"
AlreadyStreamed ==
    source = "websocket" /\ LastOf(msgs).kind = "ai" /\ LastOf(msgs).text # "none"

Finalize ==
    /\ pc = "finalize" /\ steps < RecursionLimit
    /\ final' = IF RepliedByTool THEN "empty"
                ELSE IF AlreadyStreamed THEN "streamed" ELSE "text"
    /\ pc' = "save" /\ saved' = 0 /\ steps' = steps + 1
    /\ UNCHANGED <<log, turnVars, mode, msgs, iters, files, told, ended, called,
                   taskVars, loaded, broken, nextId, faults>>

-----------------------------------------------------------------------------
\* update_history: what is stored of message i of the run.  The last one is
\* left to the final response when that has a text.
StoredAs(i) ==
    LET m == msgs[i] IN
    IF i = Len(msgs) /\ final # "empty" THEN Nothing
    ELSE CASE m.kind = "ai" /\ m.calls # <<>> -> Stored("calls", CallsOf(m), NoCall, "none")
           [] m.kind = "ai" /\ m.calls = <<>> /\ m.text # "none" -> BotText
           [] m.kind = "tool" -> ResultOf(m.tool, m.id)
           [] OTHER -> Nothing

\* One message at a time; one that cannot be stored is skipped.
Save ==
    /\ pc = "save" /\ saved < Len(msgs)
    /\ saved' = saved + 1
    /\ \/ /\ log' = IF StoredAs(saved') = Nothing THEN log ELSE Append(log, StoredAs(saved'))
          /\ UNCHANGED faults
       \/ UNCHANGED log /\ SpendFault
    /\ UNCHANGED <<turnVars, runVars, files, final, told, ended, called,
                   taskVars, loaded, broken, nextId>>

\* The final response and the attached files are stored, except files the
\* media bus knows or that cannot be stored, and the run is over.
SaveFinal ==
    /\ pc = "save" /\ saved = Len(msgs)
    /\ \E n \in 0..Cardinality(files) :
         log' = log \o (IF final = "empty" THEN <<>> ELSE <<BotText>>)
                    \o [k \in 1..n |-> FileRecord]
    /\ pc' = "respond"
    /\ UNCHANGED <<turnVars, mode, msgs, iters, steps, outVars,
                   taskVars, loaded, broken, nextId, faults>>

\* An error before the graph starts, in planning or in loading the tools, or
\* after it ended: the turn ends with an apology.
RunFails ==
    /\ pc = "save" \/ (pc = "agent" /\ mode = "stream" /\ steps = 0)
    /\ SpendFault
    /\ EndTurn("failed", {"sorry"}) /\ broken' = broken \cup {turn}
    /\ UNCHANGED <<log, files, taskVars, nextId>>

\* post_process_langgraph_response: a streamed response needs no text, and a
\* response without a text is not sent, whatever files it has.
Respond ==
    /\ pc = "respond"
    /\ EndTurn("completed", (IF final = "text" THEN {"text"} ELSE {})
                 \cup (IF final # "empty" /\ files # {} THEN {"files"} ELSE {}))
    /\ UNCHANGED <<log, files, taskVars, broken, nextId, faults>>

\* The user cancels a streaming run, or the worker dies in the turn.  The
\* event of the turn is complete in the queue: nobody takes it up again.
Cut(how) ==
    /\ pc # "idle" /\ SpendFault
    /\ how = "cancelled" => pc \in Nodes /\ mode = "stream"
    /\ EndTurn(how, {}) /\ broken' = broken \cup {turn}
    /\ UNCHANGED <<log, files, taskVars, nextId>>

-----------------------------------------------------------------------------
\* handle_async_single_event: the result of a browser task.  The message of
\* its call is looked up by tool_call_id and marked; the agent goes on when no
\* message of the conversation is marked as requested any more.
Holding(id) == {i \in DOMAIN log : log[i].kind = "result" /\ log[i].answers = id}
\* The agent does not wait for the other tasks.
RequestedM(l) == {i \in {} : l[i].task = "requested"}
Requested(l) == {i \in DOMAIN l : l[i].task = "requested"}
WithResult(id) ==
    [i \in DOMAIN log |-> IF i \in Holding(id) THEN [log[i] EXCEPT !.task = "success"] ELSE log[i]]

Result(id) ==
    /\ pc = "idle" /\ id \in tasks \ arrived
    /\ arrived' = arrived \cup {id}

ResultUnknown(id) ==
    /\ Result(id) /\ Holding(id) = {}
    /\ UNCHANGED <<log, turnVars, runVars, outVars, tasks, loaded, broken, nextId, faults>>

ResultWaits(id) ==
    /\ Result(id) /\ Holding(id) # {} /\ Requested(WithResult(id)) # {}
    /\ log' = WithResult(id)
    /\ UNCHANGED <<turnVars, runVars, outVars, tasks, loaded, broken, nextId, faults>>

ResultResumes(id) ==
    /\ Result(id) /\ Holding(id) # {} /\ Requested(WithResult(id)) = {}
    /\ \E wants \in BOOLEAN : Start("browser", wants, WithResult(id))
    /\ UNCHANGED <<tasks, broken, nextId, faults>>

-----------------------------------------------------------------------------
TurnStep ==
    \/ Agent \/ Router \/ Act \/ Finalize \/ GraphFails
    \/ Save \/ SaveFinal \/ RunFails \/ Respond

BrowserStep == \E id \in tasks : ResultUnknown(id) \/ ResultWaits(id) \/ ResultResumes(id)

Next ==
    \/ UserTurn \/ NoAgentTurn \/ TurnStep \/ BrowserStep
    \/ \E how \in {"cancelled", "crashed"} : Cut(how)

Spec == Init /\ [][Next]_vars

\* The model and the tools answer, so a worker that runs a turn goes on with it.
FairSpec == Spec /\ WF_vars(TurnStep)

-----------------------------------------------------------------------------
\* The properties.

Outs == UNION {Outcomes(t) : t \in Tools}
CallSeqs == Seq([id : Nat, tool : Tools])
Messages ==
    [kind : {"ai"}, text : Texts, calls : CallSeqs] \cup {Note} \cup
    [kind : {"tool"}, id : Nat, tool : Tools, outcome : Outs \ {"raise"}]

\* The variables of the turn and its run keep their types: among others, no
\* task's result is taken that was not queued, and only turns that ran broke off.
TypeOK ==
    /\ turn \in 0..MaxTurns /\ (pc # "idle" => turn > 0)
    /\ source \in Sources \cup {"browser"} /\ expect \in BOOLEAN /\ inherited \in BOOLEAN
    /\ pc \in Nodes \cup {"idle", "save", "respond"} /\ mode \in {"stream", "batch"}
    /\ msgs \in Seq(Messages) /\ iters \in Nat /\ steps \in 0..RecursionLimit
    /\ loaded \subseteq Nat /\ files \subseteq Nat /\ saved \in Nat
    /\ final \in {"empty", "text", "streamed"} /\ called \in BOOLEAN
    /\ told \subseteq {"asked", "reply", "stream", "text", "files", "error", "sorry"}
    /\ ended \in {"none", "running", "passive", "asked", "completed", "failed", "cancelled", "crashed"}
    /\ broken \subseteq 1..turn /\ tasks \subseteq Nat /\ arrived \subseteq tasks
    /\ nextId \in Nat \ {0} /\ faults \in 0..MaxFaults

(***************************************************************************)
(* should_continue_router gives errors back to the model and nudges it at  *)
(* most MAX_TOOL_ITERS times in a run, both together: after that many, the *)
(* model is not called again for an error or for an answer without tools.  *)
(***************************************************************************)
RetriesAreBounded ==
    /\ iters <= MaxToolIters + 1
    /\ pc \in {"agent", "router", "action"} => iters <= MaxToolIters

(***************************************************************************)
(* What get_conversation_history makes of the log at any time, in the      *)
(* middle of saving a turn and after turns that broke off, is a history    *)
(* the model accepts: every result it keeps follows the message with its   *)
(* call, with only results in between, and every call it keeps has its     *)
(* result behind it.                                                       *)
(***************************************************************************)
Follows(i, j) ==
    /\ i < j
    /\ \A k \in Kept(log) : i < k /\ k < j => log[k].kind = "result"

HistoryIsValid ==
    \A i \in Kept(log) :
        /\ log[i].kind = "result" =>
             \E j \in Kept(log) : log[i].answers \in ValidCalls(log, j) /\ Follows(j, i)
        /\ \A c \in ValidCalls(log, i) :
             \E j \in Kept(log) : log[j].kind = "result" /\ log[j].answers = c /\ Follows(i, j)

(***************************************************************************)
(* A turn that runs to its end without a word to the user called a reply   *)
(* tool, in this turn or in the history it started from; one that was not  *)
(* broken off is not answered both by a reply tool and by the worker.      *)
(***************************************************************************)
Ended(how) == pc = "idle" /\ ended = how

SilenceIsExplained ==
    Ended("completed") /\ told = {} => inherited \/ called

AnsweredOneWay ==
    pc = "idle" /\ turn \notin broken =>
        Cardinality(told \cap {"asked", "reply", "text", "sorry"}) <= 1

(***************************************************************************)
(* A turn that browser results resume has the results of all the browser   *)
(* tasks of the conversation, unless a run that queued one broke off or    *)
(* two writes of its message failed (handle_async_single_event).           *)
(***************************************************************************)
ResumesWithAllResults ==
    source = "browser" /\ pc = "agent" /\ msgs = <<>> /\ broken = {} /\ faults < 2 =>
        tasks = arrived

\* Every turn ends: whatever the model answers, the recursion limit breaks a
\* run off, and a run is repeated only once.
TurnEnds == pc # "idle" ~> pc = "idle"

-----------------------------------------------------------------------------
\* What the code says of itself and does not do.

\* "Generate final response with fallback logic for cases where agent didn't
\* use messaging tools." (src/core/nodes/final_response.py:14): a turn that
\* called no reply tool is answered.
UnansweredTurnsFallBack ==
    Ended("completed") /\ ~called => told # {}

\* "You will be notified with the results in this conversation once the task
\* is complete." (src/tools/web.py:294): when nothing failed and the results of
\* all tasks came, the agent went on.
ResultsAreAnnounced ==
    pc = "idle" /\ faults = 0 /\ broken = {} /\ tasks # {} /\ arrived = tasks =>
        source = "browser"
=============================================================================
