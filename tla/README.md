# Verification of hetairos

hetairos is an assistant that lives in chats (WhatsApp, Telegram, iMessage, Slack and
Discord), mail and a web client. Webhooks and the API publish *events* to an
Azure Service Bus queue; ten replicas of an execution worker drain it and run a
LangGraph agent for each; the agent calls tools, some of which schedule later events
or hand a task to a browser worker; conversations that went quiet are moved to a
long-term memory (Praxos). All paths below are relative to `src/`.

This directory holds TLA+ models of the parts of that system whose correctness depends
on order, concurrency and failure; the TLC runs that check them on small instances; and
proofs, checked by TLAPS, of what matters most for every instance.
`PROJECT.json` is the index: components, runs, mutants, the source lines behind every
definition, findings, hazards, theorems.

## 1. The system

| Part | State | Operations | What makes it hard | What makes it correct |
|---|---|---|---|---|
| Main event queue, `src/core/event_queue.py` | the broker's sessions, their messages and locks; the group a worker collects | `publish`, `consume` | messages are acknowledged *before* they are handled; the session lock is held during the whole agent run and never renewed; acknowledging may fail | no accepted event vanishes unless a process dies; one turn at a time per session; order; at most once |
| Access gate and suspended queue, `src/core/suspended_event_queue.py` | the user's access, parked messages, a background task | `_should_be_suspended`, `publish_scheduled_event`, `resend_suspended_events` | check and send are separate awaits; a parked message is completed before it is published; swallowed errors; parking again while draining | a published event is in exactly one place; a reprocess forwards what it found and ends |
| Scheduled tasks, `src/services/scheduling_service.py` | records in `agent_schedules`, one queued event per task | create, cancel, update, `verify_task_active`, `schedule_next_run` | a recurring task is a chain of events, each link made by the worker that takes the last one; the user edits in between; clocks differ | the chain neither forks nor breaks; a slot runs once; a cancelled task stops |
| Conversations, `src/services/conversation_manager.py`, `src/utils/database.py` | conversations and messages, flags `consolidated`, `praxos_source_id` | `get_or_create_conversation`, `add_message` | find, check, mark, create are separate awaits of several workers | at most one active conversation |
| Consolidator, `src/workers/conversation_consolidator.py` | none of its own | `consolidate_all_ready_conversations` in every worker process | ten processes over the same list; external calls that fail without raising | consolidated means sent; every ready message gets there; sent once |
| Agent runner, `src/core/agent_runner_langgraph.py`, `src/core/nodes/` | graph state, the conversation's records | `run`, the nodes, `update_history`, `get_conversation_history` | records are written during and after the run; runs break off, are repeated or cancelled; the next turn starts from what was stored | the history is one the model accepts; the user gets one answer; a run ends |
| Media bus and files, `src/core/media_bus.py`, `src/utils/file_msg_utils.py` | documents, media messages, references per conversation | load the history, record the input, tools that put files on the bus, flush | an event handled again stores its files again; the flush reads what is recorded off the bus | a received file stays; a delivered file is shown; the history can be loaded |
| Execution worker, `src/workers/execution_worker.py` | none of its own | `handle_grouped_events`, `handle_single_event`, `handle_async_single_event` | grouping; results of browser tasks in any order | the agent resumes when all results are there |
| Browser worker, `src/tools/web.py` (the queueing side) | a queue outside the repository | `browse_website_with_ai` | answers later, while other turns run | tasks can be found by their results |
| Ingestion of platform items, `src/ingress/webhook_handlers/`, `src/utils/database.py` | checkpoints, stored items | eleven handlers: notification, fetch, dedupe, triggers, publish | concurrent notifications; a crash between checkpoint, store and trigger; checkpoints that expire | nothing is passed over; what is evaluated twice has a reason |
| Chat webhooks and the web's endpoint, `src/ingress/` | integrations (accounts, chats), milestones | look the sender up, connect an account, greet, publish | a platform calls again, or gives up; a call brings several messages; two handlers write one record | what is acknowledged is published; a group stays tracked; a user is greeted once |
| Webhook renewal, `src/services/webhook_renewal.py` | integration records, watches at the providers | an hourly pass | writes back a snapshot; calls and writes fail; needs an access token | a watch does not lapse |
| Access tokens, `src/services/integration_service.py`, the clients' refresh code | token records, what the provider accepts | read, refresh, store | several processes refresh one account at a time | the refresh token in force is not lost |
| Egress, `src/egress/service.py`, `src/tools/communication.py`, the platforms' clients | the chat of a user's integration | `send_response`, the reply tools, intermediate messages | every error is swallowed; a message is several calls of which some fail; its chat comes from the event, the tool or the integration | private stays private; what a tool reports as sent is shown |
| WebSocket, MCP and stream buffers, `src/core/stream_buffer.py` | Redis channels, sockets | `write`, subscribe, the final response | publish/subscribe without history; clients come and go; the stream breaks | an answer the client missed is in the records |
| Cutting of long messages, `src/integrations/telegram/chunker.py` | the message's text and its open tags | `chunk`, `send_message` | a cut inside a tag changes the text that is cut next | a long message is shown whole and in order |
| Tools of connected accounts and their clients, `src/tools/`, `src/integrations/` | the accounts a user has connected; what the services keep | 131 tools; a turn asks for several at once | a tool is several requests of which a later one may fail; the model repeats what reports an error; calls of a turn interleave | what a tool reports is what it did |
| Batches to Microsoft Graph, `src/integrations/microsoft/graph_client.py` | a queue, a future for each call, one worker | enqueue and wait, collect, post by token | responses in any order; throttling; an answer that is lost | no call waits for ever; a report is of the call's own email |
| Rate limiter, `src/utils/rate_limiter.py` | counts in Redis | `check_limit`, `increment_usage` | check and count are separate | the limit is a limit |
| Users, engagement, triggers, AI service, Praxos client, other tools, file ingestion, utilities, deployment | records or none | single reads, writes and external calls | - | - |

How they interact:

```
webhooks, API --publish--> [access gate] --> main queue --session--> worker --> agent runner --> tools
                               |    ^                                  |             |             |
                               v    | reprocess                        |             v             v
                        suspended queue                                |       conversations   scheduled events,
                                                                       |             |         browser tasks
 scheduled event (timer) ------------------------> main queue          |             v             |
 browser results ---------------------------------> main queue <-------+-------------+-------------+
                                                           conversations --ready--> consolidator --> Praxos
```

The hazards of the code, each at its line and with the properties aimed at it, are the
list `hazards` of `PROJECT.json`. One of them has no property: that the collecting loop of
`consume` has no bound (`event_queue.py:248`) shows only with endless messages.

## 2. The modules

```
EventDelivery            what the queue promises of each event
   ^ implemented by (refinement mapping in EventQueue)
EventQueue               the queue, its sessions, the workers' consume loop
   ^ EXTENDS; GateSpec implements EventQueue!Spec
SuspendedEvents          publishing, the suspended queue, reprocess + EventQueue
Scheduling               chains of scheduled events; the queue is external here
Conversations            conversations, messages, consolidators
AgentTurn                turns of a conversation, its records, browser tasks
ItemIngestion            webhook handlers of mail, files and calendars
ConversationMedia        documents, media messages and the media bus
ProviderTokens           access and refresh tokens of connected accounts
   ^ EXTENDS
WebhookRenewal           the hourly renewal, with the tokens it uses
ChatIngress              chat webhooks: senders, accounts, greeting, publishing
Egress                   what a turn sends, where, and what of it is shown
MessageChunks            how a long message is cut for Telegram
GraphBatch               the queue of batches to Microsoft Graph
ToolCatalogue            the tools of connected accounts, step by step
   ^ EXTENDS
ToolCalls                a turn's calls of these tools, repeated after errors
MCServices               ConversationMedia and all below it in one instance
```

Each has an `MC...` module that gives the constants values for TLC; `MCServices` holds
the media, the renewal with its tokens, the chat webhooks, the egress, the cutting of
messages, the batches and the calls of tools, which share no state: `part` chooses one of them, and the others stand still
(the chat webhooks are two parts, whose calls have nothing in common). The modules with
proofs are `EventQueueProofs` (also of `SuspendedEvents`, the composition),
`SchedulingProofs`, `ConversationsProofs`, `AgentTurnProofs`, `ItemIngestionProofs`,
`ConversationMediaProofs`, `ProviderProofs` (of the tokens, the renewal and the batches to
Graph) and `ChatProofs` (of `ChatIngress`, `Egress` and `MessageChunks`).
No module declares a RECURSIVE operator.

Some modules hold, next to a definition, a second one with the same parameters (for
example `CollectLast` before `Collect`, `NextMessageNot` before `NextMessage`). These are
mutants: the same definition with a plausible mistake. They are not part of any
specification; `PROJECT.json` says which property each of them violates when it takes
the definition's place.

### EventQueue and EventDelivery

`Publish` is `AzureEventQueue.publish` once the gate let the event through. A worker
goes through `consume`: `Accept` takes the next available session; `Receive` and
`ReceiveEmpty` are the collecting loop (a batch of up to ten, or nothing for three
seconds; a chain that consists of forwarded messages waits once more, `FinalReceive`,
`FinalEmpty`); `Complete`, `Abandon` and `SettleError` are the body of
`for msg in received_msgs`, with its nested error path; `ReceiveError` the two
`except` clauses outside; `LeaveLoop` the yield of a group, or the release of the
session when there is none; `Handle` the worker's `handle_grouped_events`, which makes
one turn of a chat session's group and one turn per event otherwise. The messages of
`FinalReceive` are raw ones, which `dict(msg)` cannot convert: each is abandoned and the
main loop goes on, so the action leaves them in the queue.

The broker is external: a session has one lock owner, messages come in the order of
their sequence numbers, an uncompleted message stays. Faults: `BrokerError` (an
exception from any call), `LockExpire` (at any moment, the worker does not notice until
its next call), `Crash`; each kind has its own budget in `Limit`, so that a property
can say precisely which fault it tolerates.

`EventDelivery` says only: an event is pending, delivered or lost, and the last two
are final. `EventQueue!Delivery` maps it: *delivered* is handled at least once, *lost*
is accepted, gone from the broker, and in no worker's hands.

### SuspendedEvents

`Check` reads the user's access; `Send` / `Park` / `SendFails` is the send, in the main
or the suspended queue; `Reply` the message to the user. Scheduled events stay invisible
until `BecomeDue`, on either queue; `FireTimer` releases one. `RpStart` is the
`/reprocess` endpoint; `RpReceive`, `RpComplete`, `RpAdvance`, `RpFinish`, `RpStop`,
`RpSettleError`, `RpDies` the background task: it drains the user's session, completes
a message, then publishes it, which runs through the gate again. `AccessChange` is what
`can_have_access` reads: the month turns, the user pays, memory grows. Every event reaches
the main queue by `Enqueue`, the same operator `EventQueue!Publish` is made of.

### Scheduling

A task has a record (`made`, `active`, `next`, `command`) and events (`queue`, `parked`).
`CreateRecord`, `CreateEvent`, `CreateEventFails` are `create_future_task` and
`create_recurring_task`; `Cancel`, `Update` the two edits. A worker takes an event
(`Deliver`, again if the acknowledgement failed), `Verify` is `verify_task_active`,
`Load`, `Save`, `PublishNext` the three awaits of `schedule_next_run`, `NextRunFails`
the worker's `except`, `Run` the agent's run. Time is a counter; `Period` stands for the
cron expression, `Delay` for the five seconds `schedule_next_run` adds, and `MaxSkew` for
how far a worker's clock may be behind the broker's (assumed not above `Delay`).
The queue and parking are external here: `EventQueue` and `SuspendedEvents` have them.

### Conversations

`Arrive`, `OpenWeb`, `Continue`, `Find`, `Check`, `Mark`, `Create` are
`get_or_create_conversation` and the web's own path; `Insert` and `Bump` the two writes
of `add_message`. Consolidation: `Poll` reads the `ConvLimit` oldest of the ready list, `Read` the
unconsolidated messages of one conversation and, under an `except` of its own, their
documents: `marks` are the messages to mark, which are fewer than those to send when a
document's read raises. `FindUser` is the look-up of the user, `Upload` each document, `Send`
the conversation (Praxos may refuse it by returning an error), `MarkConsolidated`, `PassEnds`,
`ConsolidatorFails` the `except` of a conversation. Whether a conversation is expired
depends on times and on an LLM's opinion of the new message; `Check` takes either answer.

### AgentTurn

The conversation's records in the database (`log`) and one run at a time. A turn starts
from `Kept(log)`: `get_conversation_history`'s last records, without calls that have no
result and results that have no call. `Agent`, `Act`, `Router`, `Finalize` are the nodes; the
disjuncts of `Router` are the returns of `should_continue_router`, in its order
(`LoadMedia`, `RoutePhrase`, `RouteFinalReply`, `RouteError`, `RouteResult`, `Nudge`,
`RouteAnswer`). `WrittenByTool` is what is stored while a tool runs
(`ImmediatePersistenceCallback`, `reply_to_user_on_platform`); `Save` is
`update_history`, one record at a time, each of which may fail; `SaveFinal` the response
and its files. `BreakOff` and `GraphFails` are the stream's error path, which runs the
graph again from its first message; `RunFails` and `Cut` the errors and cancellations
around; `Respond` is `post_process_langgraph_response`. `Result...` is
`handle_async_single_event` for the results of browser tasks.

The language model is external and may answer anything in `Answers`; tools may have any
outcome their kind can have, and calls made together store their records in any order, as the
`ToolNode` gathers them. Texts are abstracted to the three the code tells apart
(none, a text, a text with the phrase the router looks for); media, files and tasks are
known by the id of the call.

### ItemIngestion

A notification becomes a task of its own. What a handler does is a sequence of steps
(`read`, `fetch`, `write`, `insert`, `collect`, `evaluate`), and the eleven handlers differ
in their order and in which of them they have; the plans of the services are the
constant-level part of the module, each step mapped to the handlers' lines. `Change`
is a user's change at the provider, `Notify` and `Deliver` the provider's call, which may be
made twice, `Read` the checkpoint, `Fetch`, `FetchError`, `FetchRaises` the client's delta
call page by page (an error it swallows, one it raises), `Expire` a checkpoint the provider
no longer accepts, `Write` the checkpoint's store, `Dedupe` and `Insert` the two halves of
`insert_or_reject_items`, `Collect`, `Evaluate`, `EvaluateError`, `NothingToEvaluate` the
triggers, `Fails` a process that dies or a database that raises. `Shared` objects are known to
two users.

### ConversationMedia

One worker and the events of one conversation. `Begin` takes an event, `Fetch` its files
one by one, `HistoryFails` / `HistoryLoads` is `get_conversation_history` (with the lookup
that raises when two media messages name one document), `RecordNext` and `InputRecorded`
store the event's messages. Then tools: `Generate`, `RetrieveAsMedia`, `Retrieve`, `Extract`,
`Attach` (what puts a file on the bus, records it, or attaches it), `Finish` the response,
`Flush` the records of the attached files, `End`, `Crash`. Every write of a row may fail, before or
after the row is there (`RecordFails`): of the input it ends the run with an apology
(`InputFails`), of a tool's file or an attachment the run goes on, of the answer's own file it ends the run with the file among those of
the answer; `Break` is any other error of the run. `EndRun` empties the bus, unless the write of the
execution record before it raises. An event whose acknowledgement failed is taken again.

### ProviderTokens and WebhookRenewal

`Obtain`, `Refresh`, `Store` are the reading of a token record, the provider's answer to a
refresh, and the write of what it returned, by several users of one account; a provider
that rotates accepts only the last refresh token it gave. The renewal's pass is `BeginPass`
(the query for what expires), `BeginRenewal`, `RenewerToken` (Google's is obtained, Airtable's
is the one on record), `Call` (the provider makes or extends the watch), `Write` (the record;
for Airtable the whole array as read at the start of the pass), `RenewerDies`; `NoPass` an
hour without a pass, `AddWatch` the user's connecting another base (external), `Tick` the hour.

### ChatIngress

`CallHook` is a platform's call, made again when the answer does not come. A call brings
`MessagesOf` it; for the message at hand a handler looks the sender up (`Follow`, `Handshake`
or `Known`, in the order of the handler's code, each with its early return), `Connect`s a new
account, sends the `Welcome` and `Engage`s the user, `Settle`s the flag, records the `Channel`
it came from, and `Publish`es (`PublishFile` for files). Slack, Discord, iOS and the web's
endpoint do it in one step. `LoseUser` is WhatsApp's look-up of the user, whose errors are
swallowed: the handler returns a success, and the message and the rest of the batch are given up. `FailCall` is any call that raises or returns its error value, where the
handler's `try` catches it; `LoseAnswer` an acknowledgement that gets lost.

### Egress

`BeginTurn` is the event of a platform or of a schedule, with what the webhook handler kept of it
(`HomeAfter`: a user's first message on Telegram names the user's chat). Messages of Telegram or
WhatsApp that come together are one turn: `turn.asked` has the chats they came from, which may be a group and
the user's own, as the session is of the user and the source; `turn.chat` is that of the first, where the turn goes. `EndEvent` is
what `handle_single_event` does last, and starts the next turn from nothing. While the turn runs the
agent may send: `ReplyByTool` (the reply tools of every platform, with a file, a location or
the request for one), `SendIntermediate`, `AttachFile` (which only the answer delivers). `Answer`
is the final response, which on the web counts as streamed when the turn's tokens were;
`BreakStream` the stream's error, after which they are not. `SendAnswer` stores the
answer and sends what was not streamed; `Apologize` is the worker's or the runner's text
for a failure; `EndSilently` the turn that replied by a tool.

`ChatFor` says where a message goes: the chat the tool names, that of the event, the
integration's, or nowhere (then `send_response` returns without a word). `CallsOf` are the
calls it takes: the first chunk, a later one, a file, a location. Before the first call the address may be lost:
`LoseAddress` when the integration's record cannot be read or has no number (nothing is sent), `MissNumber` when
the user's own record, which locations are addressed by on WhatsApp and iMessage, has no number or cannot be read
(the text and the files are sent without the location). A call may `Succeed`; fail and be
passed over (`PassOver`); fail and take the rest of the message with it (`Abandon`); break on what the worker
hands over (`Stumble`); be sent again as plain text though it arrived (`SendAgain`).
`Interact`, `PublishToWeb` and `AnswerClient` are Discord, the web's channel and MCP. `Report` is the
tool's success, `EndTurn` the end. The clients are external: `MoveSocket` a socket that comes or
goes, `TimeOutClient` an MCP client whose 120 seconds are over.

### MessageChunks

The message is written first (`WriteWord`, `WriteBreak`, `OpenTag`, `CloseTag`, as the
formatter does), then cut. `SendChunk` is one turn of the chunker's loop and the call that sends the
chunk: `Cut` finds the place (the end of a code block, before it, before a tag, a blank line, a
blank, or anywhere), `Closing` and `Reopening` the tags put around it; a chunk Telegram refuses is
sent once more as plain text. `SendLastChunk` is the rest. Characters are tokens with
a width; a letter carries the number of the place where it was written, so that losing, doubling
or reordering shows. `Stacks` is what `_get_open_tags_at_position` computes, for every place of a
sequence at once; Telegram's parser, which is external, reads a chunk by the same rule (`Matches`).
`displayed` keeps the chunks that were accepted, as they were sent.

### GraphBatch

Marking, categorizing and moving an email of Outlook is a call that puts a request on a queue of
the process and waits for its future (`Put`). One worker takes up to `BatchSize` requests
(`Collect`: `taken` is what it took, `left` the places not answered yet), posts those of each token as
one batch (`Chunk`) and sets their futures (`Answered`, in any order of the responses, with some
missing; `Throttled`, posted again; `BatchFails`).
`Resume` is what the call does with its answer: it ends, or tries again. A call for a
single email and one made for a list of emails (`Bulk`) treat refusals and throttling differently.

### ToolCatalogue and ToolCalls

`ToolCatalogue` is constant: every tool of a connected account, and every method of a client that
tools use, as the sequence of requests it makes. A method that another one calls is a part
of its plan, so `move_google_emails_by_sender` is the search, one look-up for each email
found, the choice of what to move, and the change. The kinds of step are listed at its
head; they differ in what a failure does (raised, reported as a count, hidden behind an empty
list) and in what a repetition does (made again, no effect, refused).

`ToolCalls` runs them. `AskTools` is a turn of the model with one or two calls, their arguments, and
one or two connected accounts; `Choose` fixes the optional and repeated steps that arguments
ask for; `StartCall` and `Step` are the graph's `ToolNode`, which starts the calls in
their order and gathers them. `Holds` says where a call keeps the event loop: the clients of
Google and Dropbox are synchronous, so their calls let others in only where they store a
file or, for the frequent senders, gather what threads read. `Repeat` is the model asking again for what failed (external). The module ends with what is true
of each plan of the catalogue (`PlansAssumption`), which TLC evaluates and the proof goes from.

## 3. The runs

| Run | Instance | Shows |
|---|---|---|
| `queue_safety` | 2 workers, one chat session (2 forwarded messages), one mail session (2 events), batches of 2, one fault of each kind, symmetry | `OnlyACrashLosesEvents`: although messages are acknowledged early, no failed call and no lost lock loses one; `SessionsAreSerial`; `FirstHandledInOrder`, whatever is redelivered; `AtMostOnceUnlessNacked`; `ImplementsDelivery`: the queue implements the abstract one |
| `suspended` | 1 user over the cap, one plain and one scheduled event, 1 worker, 2 changes of access, 1 failure of publishing, 1 error and 1 expiry at the broker | `PublishedIsInOnePlace`: when the call returned it waits, is accepted, parked, or dropped by a failure; `ReprocessForwardsAvailable`; `ReprocessEnds`; `EventuallyHandled`: what the main queue accepted is handled |
| `schedule` | a task with period 2, 2 workers, delay 1, skew 1, time to 4, one fault, two edits | `ChainIsWhole`: a chain forks only by redelivery (`ChainsAreNotForked`) and ends only when one of its steps failed (`ChainSurvives`); `NextRunIsQueued`; `SlotRunOnce`; `CancelStopsAllButInFlight`; `CreatedRuns` |
| `conversations` | WhatsApp and the web; three crews: 2 handlers, 1 consolidator, 3 conversations, 1 message, no faults; 1 handler, 2 consolidators, 1 conversation, 2 messages, one fault; 1 handler, 1 consolidator, 2 conversations, 2 messages, one fault (one message has a document) | `ActiveConversationsExplained`: a second active conversation needs the web or two handlers deciding at once; `ConsolidatedWasSent`; `SentOnceUnlessOverlapped`: again only after an overlap, a failure, or a read that broke off the marking; `ReadyIsConsolidated`, but for conversations behind as many older ready ones as a pass takes |
| `agent_turn` | 2 turns, 2 tool calls, one retry, 8 node executions, a window of 4 records, one fault | `HistoryIsValid`, in the middle of saving and after every way a run can break off; `SilenceIsExplained`; `AnsweredOneWay`; `ResumesWithAllResults`; `TurnEnds` |
| `silent_turn` | no faults | violated: `UnansweredTurnsFallBack` |
| `browser_results` | no faults | violated: `ResultsAreAnnounced` |
| `ingestion` | the 11 services, one at a time; 2 tasks, 2 changes (of two objects or of one), pages of one, 2 deliveries, one fault | `BehindTheCheckpoint`: what a checkpoint has passed is stored, on its way, or lost by a failure; `EvaluatedAgainWithReason`; `ChangesAreSettled` |
| `shared_item` | Drive, 1 task, an object two users see, no faults | violated: `PassedOverIsProcessed` |
| `services` | see below | `HistoryBrokenOnlyByRedelivery`; `FilesAreKept`: a received file stays, a delivered one is shown; `RefreshTokenIsKept`; `LapsedOnlyAfterFailures`; `AcknowledgedIsPublished`; `GroupsStayTracked`; `GreetedOnce`; `PrivateStaysPrivate`: what is shown in a group was asked there, but for the three ways the property names; `ReportedIsShown`: what a tool reports as sent is shown, but for failed calls and look-ups and the losses the property names; `MissedAnswersAreStored`: an answer the web client missed is in the records; `MessageIsShown`: a long message is shown whole and in order; `WaitingIsHeld`: what a call waits for is in the worker's hands; `ReportsAreTrue`: a report is what Graph did with the call's own email; `OutcomesAreTrue`: a success is complete but for 23 named tools, a repetition makes nothing twice but after a lost answer or by 3 named tools, and no call of a turn creates another's label |
| `broken_history` | the media part, an event handled again | violated: `RepeatedMediaLoads` |
| `renewal_token` | the renewal part, no failures | violated: `RenewedBeforeTheyExpire` |

Every property of a passing run has a mutant: a change of a mapped definition, of the
kind a plausible bug would be, under which TLC finds that property violated.

`CHECK_DEADLOCK FALSE` everywhere: once all events are published, all budgets spent and
nothing waits, the models stop. That nothing stops too early is what the liveness
properties say.

### Bounds

* *Queue.* Two workers and two sessions are the least with a contended session and a
  free one. Two messages in a session are the least that can be reordered; a batch of
  two of them lets an error strike between two acknowledgements. One fault of each
  kind is enough to reach every error path, and all three kinds can strike in one
  behaviour; two errors in one loop differ from one only by what was already abandoned.
* *Gate.* Two changes of access cover lose-and-regain during a publish or a reprocess.
  One worker: the competition of workers is `queue_safety`'s, and that the composition
  is an `EventQueue` (theorem `GateImplementsQueue`) carries it over, for any number.
* *Scheduling.* Two slots of the cron expression fit the horizon; two workers let a
  redelivered event and its successor be handled at once; `MaxSkew = Delay` is the
  worst skew the code tolerates.
* *Conversations.* `ConvLimit` is 1 and `MsgLimit` 2 (100 both in the code), so that both are
  reached: with two conversations ready, a pass takes the older one only. Without `Behind` in
  `ReadyIsConsolidated` TLC finds the younger one starving, as nothing ever takes a conversation off the ready list. Three
  conversations let two be active on WhatsApp next to the web's; the crews keep apart what
  needs two handlers, two consolidators, or two ready conversations.
* *AgentTurn.* Two turns make one the history of the other; a window of 4 records cuts
  through the calls and results of the first turn, as 50 does in long conversations;
  `MaxToolIters = 1` (3 in the code) and `RecursionLimit = 8` (100) leave room for a tool
  call, its result, an error, a retry and the end, and let both limits be hit.
* *ItemIngestion.* Two tasks are the least that overtake each other; two changes on pages of one
  let a fault strike between two pages; a second delivery of a notification finds what
  the first left.
* *Media.* Two events, the first with two files, one of them captioned; a window of three
  records loses rows while later events are handled; two uses of tools put one file on the bus and attach another; one fault
  (a failing fetch or write, or a crash) and one redelivery.
* *Renewal.* Two Airtable bases of one account are the least that undo each other's
  renewal, and whose refresh tokens rotate; a Drive watch is of the kind that is made anew and its account's do not; three hours let a watch
  of two hours be renewed, fail, and lapse; a token lives as long as a watch (in the run
  `renewal_token` shorter, as in the code), so that the renewer finds it good in one hour and run out in the next. `Threshold` is in passes (24 hours in the code).
* *Chat webhooks.* The batches of WhatsApp bring three messages and two, of a member, a new
  account and a stranger, in two groups; two calls of Telegram, one a handshake of the same user;
  every other platform has one call or two. One call or answer fails, or not.
* *Egress.* Turns from all eight sources follow one another without a bound, so that every
  one finds what any earlier one left of the chat; schedules are made on Telegram, the one
  platform whose chat is kept from messages. A turn sends two messages, the least of which the second can
  replace the first, of six kinds that reach every exception of `ReportedIsShown`; one
  call, write or look-up fails, at any place. Without any one of the exceptions of `PrivateStaysPrivate`
  (the merged turn, the first message in a group, the group the agent names) TLC finds the behaviour it stands for.
* *Chunks.* Chunks of 20 with tags of 2, words of 1, 6 and 15 letters, six pieces and four
  cuts: a chunk ends in a word, at a blank, in a tag, inside and just after a code block, and twice inside
  one tag. `Limit` equals `MaxLength`; in the code it is 2% more (4096 and 4000), less
  than the 20% a code block may exceed it by.

* *Graph batches.* Three calls, one of them of a list, of two tokens; batches of two (20 in the code), so
  that one is cut off and one holds both tokens; two tries (3), so that a request is applied,
  unanswered, and applied again.
* *Tools.* Every tool alone, and the pairs that may create one label; each call once more after an
  error, the named account given or not; up to two items of a list.

Counters (`seqno`, `nextId`, `now`, `turn`, the budgets) are bounded in the guards by the
constants named above; nothing else is cut off.

### Fairness

* *Workers of the queue* (in `suspended`): weak fairness of a worker's steps, and of the failing of calls
  it makes without its lock: `ExecutionWorker.run` loops over `consume` forever and every
  wait in it has a timeout; Service Bus answers a call without a lock with an error.
  No fairness for publishing, lock expiry and crashes.
* *Gate*: a publish call that has started goes on; a due message is released; the
  background task goes on; the worker as above. Nothing makes a user regain access.
* *Scheduling*: time passes; a creation goes on; a worker takes what is due and goes on.
* *Conversations*: every consolidator of the crew makes its passes, as `run_workers.py` starts one every
  fifteen minutes. Handlers have no fairness.
* *AgentTurn*: the steps of a turn happen: model and tools answer or time out. Users and
  the browser worker have no fairness.
* *ItemIngestion*: a task that was started goes on, its calls answer or raise; a
  provider's notification of a change is delivered. Changes, faults and expiry have no fairness.

## 4. What is proved

For every value of the constants that satisfies the named assumptions (finite sets of events, workers, handlers and consolidators; bounds are naturals;
`MaxSkew <= Delay`; the null values are not values; files and messages have one origin
each; a tag is shorter than a chunk, and a chunk not longer than Telegram accepts). No theorem assumes a particular budget of faults.

| Module | Theorem | Says |
|---|---|---|
| EventQueueProofs | `TypeCorrect`, `IndInvHolds` | the type invariant and the inductive invariant |
| | `NothingVanishes` | `OnlyACrashLosesEvents` |
| | `SerialSessions` | `SessionsAreSerial` |
| | `GroupsArePure` | a group holds events of one session |
| | `QueueImplementsDelivery` | `ImplementsDelivery`: the queue implements the abstract specification |
| | `HandledAtMostOnce` | `AtMostOnceUnlessNacked` |
| | `HandledInOrder` | `FirstHandledInOrder` |
| | `GateImplementsQueue` | `GateSpec => Spec`: with publishing, parking and reprocessing around it, the queue is still `EventQueue` |
| | `GateLosesNothing`, `GateSerial`, `GateDelivers` | the losses, the sessions and the abstract specification carried over to the composition |
| | `PublishedRests`, `ReprocessForwards` | `PublishedIsInOnePlace`, `ReprocessForwardsAvailable` |
| SchedulingProofs | `ChainInvHolds`, `SchedulingTypes` | the inductive invariant, types |
| | `NoForks`, `ChainsSurvive`, `ChainsAreWhole` | `ChainsAreNotForked`, `ChainSurvives`, and both as `ChainIsWhole` |
| | `CancelStops` | `CancelStopsAllButInFlight` |
| | `ShownTimeIsQueued`, `SlotsRunOnce` | `NextRunIsQueued`, `SlotRunOnce` |
| ConversationsProofs | `ConsolidationInvHolds`, `ConversationTypes` | the inductive invariant, types |
| | `MarkedWasSent`, `MessagesAreSentOnce`, `FewAreActive` | `ConsolidatedWasSent`, `SentOnceUnlessOverlapped`, `ActiveConversationsExplained` |
| | `MarkedHasDocuments` | `DocumentsAreUploaded`, which no run checks: the documents of a marked message were uploaded or failed |
| AgentTurnProofs | `RetriesBounded` | errors and nudges share a bounded counter |
| | `HistoryIsPaired` | of the operators a turn starts from: every result kept has a kept call, and every call kept has its result, whatever the log |
| | `TurnTypes` | `TypeOK` of `AgentTurn`, which no run checks |
| | `SilenceExplained`, `AnsweredOnce` | `SilenceIsExplained`, `AnsweredOneWay` |
| | `HistoryStaysValid` | `HistoryIsValid`: in every state, the middle of a save included, what the next turn would start from is a history the model accepts |
| | `ResultsComeTogether` | `ResumesWithAllResults` |
| ItemIngestionProofs | `IngestionTypes` | types |
| | `NothingIsLostBehindTheCheckpoint`, `EvaluatedOnce` | `BehindTheCheckpoint`, `EvaluatedAgainWithReason` |
| ConversationMediaProofs | `MediaTypes` | types |
| | `OnlyRedeliveryBreaksHistory`, `NoFileIsLost` | `HistoryBrokenOnlyByRedelivery`, `FilesAreKept` (of `ReceivedFilesStay` and `DeliveredFilesStay`) |
| ProviderProofs | `RenewalTypes` | types, of the tokens too |
| | `RefreshTokensAreKept`, `WatchesLapseOnlyByFailures` | `RefreshTokenIsKept`, `LapsedOnlyAfterFailures` |
| | `BatchTypes` | types of the batches |
| | `NoCallIsForgotten`, `CallsReportTheirOwn` | `WaitingIsHeld`, `ReportsAreTrue` |
| | `ToolTypes` | types of the calls of tools, and what stays true of their plans |
| | `ToolsReportWhatTheyDid` | `OutcomesAreTrue`: for any turns, repetitions and numbers of items |
| ChatProofs | `IngressTypes` | types |
| | `AcknowledgedWasPublished`, `PublishedGroupsStayTracked`, `UsersAreGreetedOnce` | the three properties of the chat webhooks |
| | `EgressTypes` | types |
| | `NothingPrivateInGroups`, `ReportedWasShown`, `MissedAnswersAreInTheRecords` | `PrivateStaysPrivate`, `ReportedIsShown`, `MissedAnswersAreStored` |
| | `MessagesAreShown` | `MessageIsShown`: for any message, limits and tags |

*EventQueue.* `OnlyACrashLosesEvents` is not inductive: a step that completes a message
or drops a group preserves it only if the message is in the group, and the group belongs
to the worker's session. `IndInv` adds `WorkersOK` (what a worker has at each place of
its loop: a group in hand is empty before `Accept` and never empty at `Handle`),
`LocksOK` (a lock is held by the worker that is in the session, and by every such worker
while no lock ran out) and `GroupsStayInTheirSession`. `SessionsAreSerial` then follows:
two workers in one session would both hold its single lock. The argument for losses:
a message is put in the group before it is completed, and the group is left only by
handling it, so between the broker and `handled` there is no gap but the worker's death.

The refinement needs what is known of events (`KnownOK`: whatever workers hold or have handled was
accepted) and that every step of a consumer but `Handle` only moves events from the queue
to a batch, from a batch to a group, or drops them (`Passes`): under the mapping such a
step changes nothing or loses events. `OnceInv` gives an event of
which every acknowledgement arrived a single place (the queue, one group, or once among the
handled) and keeps a lock holder's batch in the queue. `OrderInv` says, while no lock has
expired, that what a session has handled is in the order of the broker's numbers and comes before all that
waits, with and without what its worker carries; `FirstHandledInOrder` is its first part. Redelivered
events are set aside, since they were handled.

*SuspendedEvents.* Each step of the composition either leaves the queue's variables
alone, or enqueues an event (a `Publish`), or is a consumer's step. So everything proved
of `EventQueue` holds of it. `GateInv` is about the rest. `PublishedIsInOnePlace` alone does not say
why parking an event, or forwarding one, finds no second copy: `ParkedOK` (a user's
session holds an event once, and only the user's own) and `TodoOK` (what the background task
still has to settle is parked, and the event it is about to publish no more) do, and
`PlacesOK` says that an event is at rest exactly when its send has returned. `OwedOK` follows
what a task found when it started: all of it rests, but the one event in its hands. Access
plays no part in the argument, as an event that is parked again rests too.

*Scheduling.* `ChainInv` counts: an event of a task is waiting, or in the hands of a
worker that has not yet published the next one. `Deliver` turns the first into the
second, `PublishNext` back; every delivery without acknowledgement adds one and is
counted in `dups`. `EventsOK` (ids are fresh and queues disjoint) makes the
cardinalities change by one; `StepsOK` says what a worker carries at each step;
`CancelOK` bounds the runs after a cancellation by the workers that had passed the check.
Lemmas on cardinalities come first. `NextOK` says that the one link of a task that was not
disturbed has the slot of the record's `next`, on the queue and in a worker's hands. `SlotInv`
counts, for every slot, its runs and all the links that may still add one (events up to that slot, workers
that carry one, workers about to run): together at most one more than the task's redeliveries. A link that
moves on takes a later slot, as the cron expression fires after the time it is given.

*Conversations.* `ConsolidationInv` adds to the two properties what a consolidator knows:
when it sends, the documents it is through with were uploaded or failed; when it marks,
its whole batch was sent or refused. Marks and sends of other consolidators only add. `SentInv` adds to the sends of a message the
consolidators about to send it, and those that sent it and will not mark it (`Unmarked`): all but
one are counted in `again`: overlaps, failures after the send, and reads that broke off the marking. `ActiveInv` adds to the active conversations the handlers that decided to create
one: all but one are counted as interference, except that a handler may be about to mark the one it
found.

*AgentTurn.* `RetryInv` needs the router to be the only place where the counter grows.
`HistoryIsPaired` is a lemma about `Kept` and `ValidCalls` alone. `TurnInv` has the types (numbers
and words apart, `CountsOK` and `WordsOK`), `PlaceOK` (an action follows a message of the
model), `SilentOK` and `OneWayOK`. `SilentOK` says that a response is empty only after a call of a reply
tool, and streamed only when something was told; for the web, that a text in the run
was told. `OneWayOK` says that before the end of a run that was not broken off only a reply tool has
answered, and that a response with a text then has none before it. The nodes go by the same few lemmas
(`GoesOn`, `FinalizeTells`, `RespondTells`), steps that change nothing they speak of by `QuietStep`.

`HistoryInv` is about the order of the records, which `HistoryIsPaired` leaves open. `PairsOK` is the
heart: a result stands behind the message with its call, with nothing but results between. It
is not inductive, since a save appends records one at a time and what a run has not saved lies in
`msgs`: `RunOK` says the same of the run, `UnsavedOK` that the log knows nothing yet of the calls of
unsaved messages, `SavingOK` that while results are being saved nothing else comes behind their calls,
and `SavedOK` ties the place in the save to the step of the turn. A record stored while a tool runs has neither
calls nor answers (`Quiet`), so it disturbs none of this, wherever it lands. A cut of the log
(`Kept`, the window) keeps order and drops both halves of what it cuts through.
`TaskInv` follows a browser task from the call to the result. With no failed write the record of the callback stays
*requested* for ever, which is the finding of `browser_results` and makes the resumption impossible; with one failed write
that record may be missing, and then the message of the call is stored or will be (`TasksOK`), so all tasks of the
conversation are looked at. `FinalOK` says that the last message, in whose place the final response is stored, is not
such a result.

*ItemIngestion.* The handlers are plans, and a task's plan is a tail of one of them: `PlansOK` lists
the tails, `PositionsOK` says what a task holds at each (together `Base`). `Position` is the
strengthening of `BehindTheCheckpoint`: every change up to the checkpoint is `Covered` (evaluated, given
up, or with a task that can no longer lose it), and so is every change up to what any task has *read*, or else
the task has it in its batch (`FetchedOK`) - a task writes a checkpoint computed from an old one, while others have moved it.
`Once` has a part for each way a handler avoids repetition: by the checkpoint alone
(`FetchedOnce`), by documents (`StoredOnce`: of the tasks that hold an object only one is past the
look-up), and by the delivery (`DeliveredOnce` counts evaluations, done and to come, against deliveries).
`ServicesAssumption` only says that the services are among those that have a plan.

*ConversationMedia.* `Inv` adds to the types and the properties: `RowsOK` (an identified
row is of a file of an event that was handled, or of one a tool created); `FirstTimeOK`
(while an event is handled for the first time, the files still to be recorded have no
row); `ProgressOK` (the files the run is through with have a row or failed); `BusOK` (what is on the
bus has a row, is being recorded, or came from a tool that records nothing). The loops
over files are counters, so a step changes one row; lemma `LateKeeps` says once what any step of a
tool or of the run's end leaves intact.

*ProviderTokens and WebhookRenewal.* `TokenInv` is an invariant of `ProviderTokens` alone: nobody has a
refresh token newer than the last given out (`SerialsOK`), and a user about to store
one is the only one that has it (`UsersOK`). For the watches, `PassOK` says where the
pass of the hour is, `RecordsOK` that no record promises more than the provider, and
`FailsOK` counts: a failed renewal for every pass since a watch had `Threshold` hours left.
`LapsedOnlyAfterFailures` is `FailsOK` at zero hours.

*GraphBatch.* `BatchInv` makes `WaitingIsHeld` an equivalence and a count (`HeldOK`): a call waits for a future
that is not set if and only if its request is in the queue or at a place the worker has not answered, and
it is there once. Without *once* a batch could set the future of a call that has gone on to ask again.
`TriesOK` bounds what was applied by the tries, and `ToldOK` ties what was applied and answered to the
answer the call has in hand, which is what `ReportsAreTrue` is about.

*ToolCalls.* What makes `OutcomesAreTrue` true is the order of the steps in every plan. `PlansAssumption` says
it: nothing that can raise comes after a change that is made again (`NothingRaisesAfter`, but for the tools of
`Several`), a label is looked for right before it is created (`LooksBeforeItMakes`), only the tools of
`Silent` have steps that hide a failure. It is a statement about the constant `ToolPlans` with no parameter
in it, so TLC's evaluation, tool by tool, decides it; to prove it would be to repeat the catalogue. The lemmas up to
`SpreadIsSound` show that a plan whose optional and repeated steps were fixed by the arguments, any number of times,
keeps all of it (`Sound`; the steps of the new plan are told by arithmetic on positions, `Woven`). `ToolsInv` then speaks of
a call between two requests: a change that is made again was not made yet, or its answer was lost, or the call is
past it and can only succeed (`RepeatOK`); what a running call is past is done, unless the result will say otherwise
(`ReportOK`); and while a call is between the look-up of a label and its creation, what it found is so (`LabelOK`),
since it keeps the event loop (`NobodyLooked`).

*ChatIngress.* Three separate invariants over `CallsOK` (which step a handler can be at, and
that only connected senders who are no members are greeted): `BatchOK` (the messages
a handler has passed are done), `ChatsOK` (a handler about to write a list of chats has the
list as it is, and one about to publish finds its group in it), `GreetingsOK` (a greeting
about to be sent is the first one). The last two hold of senders and users without *trouble*,
the history variable that notes two handlers at once and failed writes.

*Egress.* `EgressInv` adds to the types and properties: `HomeOK` (the integration's chat is the
first one, and known in every turn of Telegram), `NumbersOK` (what was promised is of an earlier message),
`IdleOK` (a turn starts from nothing),
`SendsOK` (calls are only made when a chat was found), `ClaimsOK` (what a tool is about to report is shown,
failed, passed over, or among the calls that are left; it survives that a location is dropped from the message, as the calls are those of the message that remains), `StreamedOK`, and `SavedOK` (an answer is stored
before it is sent). Lemma `CallKeeps` says once what any call keeps: each of them is
shown to make a call's items shown or undelivered and to change nothing else.

*MessageChunks.* `ChunksInv` says what was sent so far: the letters before `start` are shown or
rejected, none of them twice, and those shown are in order (`SentOK`); the message stays in order
when tags are reopened in it (`RestMeans`). A chunk is rejected for its length only when `Cut` went
past `LastWhole`, which it does for the end of code alone (`CutMeans`, `TextFits`). As long as no
cut was inside a tag, the rest is nested as it was written and nothing is open at `start`
(`PlainOK`), so that a chunk reads as that part of the message does (`ReadOn`) and its closing tags take off what is
open, the last one first (`ClosedUp`, `ChunkMatches`). Which tags are open is a recursive function; the
theorems of induction take an operator and cannot be used, so lemma `StepByStep` proves induction
on the places of a sequence from the least element of a set of naturals, and `StacksRead` that the function
exists and obeys its equation.

Only model-checked:

* everything under fairness (`EventuallyHandled`, `ReprocessEnds`, `CreatedRuns`,
  `ReadyIsConsolidated`, `TurnEnds`, `ChangesAreSettled`), which is out of the prover's reach;
* what the runs that expect a violation show (section 6).

Every invariant and every other action property that a passing run checks is stated by a theorem.

## 5. How to run

```
tlasany EventQueue.tla
tlc -workers 2 -config EventQueueSafety.cfg MCEventQueue.tla
tlapm EventQueueProofs.tla
```

The longest runs are `services` (1.9 million distinct states, about four minutes with two
workers) and `queue_safety` (about 740,000); `agent_turn` has about 300,000.

## 6. Findings

Five runs show that the code does not do what it says of itself.

1. `silent_turn` - the fallback for turns without a reply tool looks at the calls of
   earlier turns too (`final_response.py:24`), so after one reply by tool later answers
   in plain text are dropped.
2. `browser_results` - a browser task is stored as requested under two ids, and its
   result clears one (`ImmediatePersistenceCallback.py:134`), so the agent is never
   resumed with the results.
3. `shared_item` - the deduplication looks items up by the platform's id without the user
   (`database.py:779`): an object that another user has stored is passed over as known.
4. `broken_history` - an event handled again stores its files a second time, and a
   history with two media messages of one document cannot be loaded (`file_msg_utils.py:661`):
   every later turn of the conversation fails.
5. `renewal_token` - the renewal takes Airtable's access token from the record, and
   nobody has refreshed it (`webhook_renewal.py:328`): the renewal fails although
   nothing else did.

## 7. Observed while modelling, without a run

*Queue, schedules, conversations*

* `publish` swallows a failing send, and the API answers "Event queued for processing."
  (`event_queue.py:167`).
* A reprocess passes by parked scheduled events that are not due.
* The `start_time` of a recurring task has no effect on its first slot. Its `end_time` is
  stored and read by nothing (`scheduling_service.py:131`), although the tool's description
  (`create_recurring_future_task.yaml:31`) says when it stops.
* `update_task` writes `next_execution`, which no query reads, and the queued event keeps
  its time (`scheduling_service.py:274`), although `update_scheduled_task.yaml:25` offers it
  for changing the time.
* The ready list returns 100 conversations and nothing takes one off it
  (`mark_conversation_consolidated` has no caller), so later ones starve (`database.py:284`).
* `add_conversation` returns `{"error": ...}` instead of raising, and the consolidator marks
  and logs success (`conversation_consolidator.py:189`).
* A web conversation hides the active chat conversation (`database.py:101`).

*Runs and media*

* A repeated run executes tools again; media loaded in the first run stays marked as
  loaded and is not in the second's context.
* The runner never deletes the cancellation flag of a conversation
  (`agent_runner_langgraph.py:452`): until it expires, later turns are cancelled too.
* A file that a retrieval or archive tool put on the bus, and that is attached, gets no media message,
  as the flush takes a url on the bus for a record (`agent_runner_langgraph.py:504`).
* Media of the history is put on the bus as not loaded (`media_bus.py:34`); the ids of media
  start again in every turn; Gmail attachments are on the bus without a url
  (`google_mail.py:174`).

*Ingress, integrations*

* The Outlook handler evaluates triggers and publishes none. `/ingest` answers "has been queued" while
  its publish is commented out (`http_handler.py:462`).
* `is_one_time` of a trigger is never read.
* The look-up of a calendar's or a drive's webhook reads `webhook_info.webhook_resource_id`, while
  the renewal writes `webhook_info.<service>.webhook_resource_id` (`integration_service.py:436`).
* The token queries of HubSpot, Airtable and Microsoft do not name the integration, so
  that of a user with several accounts any may be read.
* WhatsApp's handler returns on an unknown sender or group and drops the rest of the batch
  (`whatsapp_handler.py:119`). It does the same, for a member, when the user cannot be read: `get_user_by_id`
  swallows the error (`user_service.py:98`), and the call is acknowledged.
* Files and locations of a WhatsApp group, and locations of a Telegram group, carry no `trigger_agent`, whose default
  is true (`execution_worker.py:298`). A merged turn has that of its first message (`execution_worker.py:85`): a user's own
  message behind one that is only listened to is not answered.
* Telegram's milestone is never recorded for known users: `user_id_var` is not set
  (`telegram_handler.py:475`). After a registration the greeting reads a record without
  `needs_first_interaction`, and does nothing (`telegram_handler.py:443`).
* Two first messages at once create two milestones (`milestone_service.py:60`).
* `rate_limiter.py:56` and `:80` await a function that is no coroutine.

*Egress*

* `send_response` swallows every exception (`egress/service.py:720`), while the reply tool's
  description says "Success confirmation or raises exception on failure".
* Where it goes: the event of a reply tool has no `output_phone_number`, so in a turn of a WhatsApp group its reply
  goes to the user's own number; the event of an intermediate message has no chat, so on
  Telegram it goes to the integration's `telegram_chat_id`, not to the group of the turn; that chat
  is set by the user's first message, even one in a group (`telegram_handler.py:145`). A private message merged behind one of
  the same user in a group is answered in the group (`execution_worker.py:79`).
* What is reported and not sent: anything for which the integration's record cannot be read or has no number
  (`egress/service.py:237`, `:310`, `:335`); locations for a user without a number of their own (`:675`); replies by mail; replies to Slack, Discord, MCP or the web
  from a turn of another platform; files along with a location; files on Discord, whose interactions
  show the last reply only; all but the first answer to an MCP client.
* Files the attach tool promised are objects where those of the reply tool are dicts: WhatsApp,
  Slack and MCP fail on them. A turn replied by tool drops the attached files
  (`execution_worker.py:343`), which the attach tool said "will be delivered to the user"
  (`communication.py:75`).
* After the error of a stream the answer of the repeated run counts as streamed
  (`final_response.py:62`): the client sees it only in the records.
* The web's channel is named by the client's token: a client with a new token does not get what is
  published for the old one.
* When Telegram's answer is lost, the chunk is sent a second time as plain text.
* An answer that cannot be stored makes the run return an apology in its place.
* The worker skips events of WhatsApp Business and iOS as of an unknown source
  (`execution_worker.py:226`).
* The chunker scans from the start of the text it has put the reopened tags into, so tags open at a cut are
  doubled at the next one, and Telegram refuses the markup of the later chunks; links are not reopened;
  a chunk that takes in the end of a code block may have 4800 characters, which are refused
  as plain text too and are lost (`chunker.py:76`).
  (HTML entities, which a cut may split, and a `<` as the very first character are not in `MessageChunks`.)

*Tools*

* `send_google_email` sends the email twice (`google_mail.py:33` and `:42`). The second time it does not
  name the account: with several accounts it raises, and an email that went out is reported
  as an error.
* `move_google_emails_by_sender` and `categorize_google_emails_by_sender` take the `id` of emails that
  `get_emails_from_sender` returns without one (`gmail_client.py:220`): they fail on every email found.
* Marking, categorizing or moving one email of Outlook leaves its loop without an exception
  after three answers of 429 and reports a success (`graph_client.py:674`).
* Listings and searches of Outlook and Dropbox, and the look-up of contacts and of frequent senders
  of both mails, come back empty when they fail; the tools that act on a sender's emails then
  say that there are none.
* `remove_label_from_google_email` reports an error inside a success.
* A Trello checklist's items are added one by one: when one fails, asking again makes a
  second checklist.
* An event is created with the time zone UTC when the calendar's cannot be read
  (`google_calendar.py:146`).

## 8. Not modelled, and why

Parsing, prompts, planning, formatting, encryption, and the clients of external services
have no state whose order matters. The queue's fallback without sessions and the local
in-memory queue are for development. `circuit_breaker.py` is used only by a client that
nothing imports. The initial file ingestion is marked as broken in the code and returns
at once. The broker's maximum delivery count is left out: an event delivered ten times
without success goes to the dead-letter queue, which `EventuallyHandled` does not
consider.

Of the tools, those of connected accounts are in `ToolCatalogue`; the others (the knowledge graph, web
search, places, weather, preferences, the database) read or make single writes and keep nothing between
calls. What the outcome of any tool does to a run is in `AgentTurn`. Arguments a tool refuses, paging
(one request in the model) and the shaping of results are left out; the tools for Slack's and Discord's
own functions are given to no agent (`tool_factory.py`).

The web's rate limit is one
count per hour (1000) that is checked and incremented by separate calls (`rate_limiter.py:66`): requests
at once all pass at the limit, and the count of attachments is kept and never checked.
Milestones are found, then written, without more to them than that.

## 9. Plan

Done, in this order: `EventQueue` with `EventDelivery`, `SuspendedEvents`, `Scheduling`,
`Conversations`, `AgentTurn`; `ItemIngestion`, `ConversationMedia`, `ProviderTokens` with
`WebhookRenewal`, `ChatIngress`; `Egress` and `MessageChunks`; `GraphBatch`, `ToolCatalogue` and
`ToolCalls`; the theorems of section 4.

Left:

1. The rate limiter and the milestones (check, then act).
2. A session that never falls silent (`event_queue.py:248`): a model with an unbounded stream of messages and a
   liveness property that the group is yielded, which the code does not guarantee.
