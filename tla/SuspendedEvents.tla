--------------------------- MODULE SuspendedEvents ---------------------------
(***************************************************************************)
(* Publishing, and what becomes of the events of a user who is over the    *)
(* memory cap: AzureEventQueue.publish and publish_scheduled_event         *)
(* (src/core/event_queue.py), the suspended queue and the background task  *)
(* of the /reprocess endpoint (src/core/suspended_event_queue.py), put     *)
(* together with the main queue and its consumers (EventQueue).            *)
(*                                                                         *)
(* A publish checks the user's access, then sends the event to the main    *)
(* queue, or parks it in the suspended queue and replies to the user; the  *)
(* two are separate awaits, and a failing send is logged and swallowed.    *)
(* A scheduled event becomes available only when it is due, in either      *)
(* queue.  Reprocessing completes a parked message and then publishes it.  *)
(***************************************************************************)
EXTENDS EventQueue, SequencesExt

CONSTANTS
    Users,
    UserOf,         \* the user of each event
    Timed,          \* the events published with publish_scheduled_event
    Suspended0,     \* the users over their cap at the start
    MaxFlips,       \* bound on changes of access
    MaxFailures     \* bound on failed sends, failed settlements and restarts

ASSUME UsersAssumption ==
    UserOf \in [Events -> Users] /\ Suspended0 \subseteq Users /\ Timed \subseteq Events
ASSUME BoundsAssumption == MaxFlips \in Nat /\ MaxFailures \in Nat

VARIABLES
    access,     \* can_have_access of each user
    flips,      \* changes of access so far
    stage,      \* progress of the publish call of each event
    due,        \* timed events whose time has come
    timers,     \* scheduled messages the main queue holds back
    parked,     \* the suspended queue's session of each user
    rp,         \* the background task of /reprocess of each user
    todo,       \* its batch: messages received and not gone through yet
    owed,       \* what was parked when it started
    dropped,    \* events whose send failed or whose process died
    failures

gateVars == <<access, flips, stage, due, timers, parked, rp, todo, owed, dropped, failures>>
taskVars == <<rp, todo, owed>>
restVars == <<lock, workerVars, handled, nacked, spent>>

SpendFailure == failures < MaxFailures /\ failures' = failures + 1

At(e, now, next) == stage[e] = now /\ stage' = [stage EXCEPT ![e] = next]

-----------------------------------------------------------------------------
(* publish and publish_scheduled_event *)

\* Mutated Check: a reprocessed event is checked against the access it was parked with.
CheckStale(e) ==
    /\ stage[e] \in {"new", "again"}
    /\ stage' = [stage EXCEPT ![e] = IF @ = "new" /\ access[UserOf[e]] THEN "send" ELSE "park"]
    /\ UNCHANGED <<brokerVars, access, flips, due, timers, parked, taskVars, dropped, failures>>

\* The access check.  "new" is a call of a handler, "again" one of /reprocess.
Check(e) ==
    /\ stage[e] \in {"new", "again"}
    /\ stage' = [stage EXCEPT ![e] = IF access[UserOf[e]] THEN "send" ELSE "park"]
    /\ UNCHANGED <<brokerVars, access, flips, due, timers, parked, taskVars, dropped, failures>>

\* A scheduled message waits in the queue until it is due.
Send(e) ==
    /\ At(e, "send", "done")
    /\ IF e \in Timed \ due
         THEN timers' = timers \cup {e} /\ UNCHANGED brokerVars
         ELSE Enqueue(e) /\ UNCHANGED timers
    /\ UNCHANGED <<access, flips, due, parked, taskVars, dropped, failures>>

Park(e) ==
    /\ At(e, "park", "reply")
    /\ parked' = [parked EXCEPT ![UserOf[e]] = Append(@, e)]
    /\ UNCHANGED <<brokerVars, access, flips, due, timers, taskVars, dropped, failures>>

\* Either send raises: the error is logged and the call goes on as if it had not.
SendFails(e) ==
    /\ At(e, "send", "done") \/ At(e, "park", "reply")
    /\ SpendFailure
    /\ dropped' = dropped \cup {e}
    /\ UNCHANGED <<brokerVars, access, flips, due, timers, parked, taskVars>>

Reply(e) ==
    /\ At(e, "reply", "done")
    /\ UNCHANGED <<brokerVars, access, flips, due, timers, parked, taskVars, dropped, failures>>

PublishCall(e) == Check(e) \/ Send(e) \/ Park(e) \/ Reply(e)

\* The broker releases a scheduled message whose time has come.
FireTimer(e) ==
    /\ e \in timers \cap due
    /\ timers' = timers \ {e}
    /\ Enqueue(e)
    /\ UNCHANGED <<access, flips, stage, due, parked, taskVars, dropped, failures>>

BecomeDue(e) ==
    /\ e \in Timed \ due
    /\ due' = due \cup {e}
    /\ UNCHANGED <<brokerVars, access, flips, stage, timers, parked, taskVars, dropped, failures>>

\* The user's usage or memory cap changes, by a payment for example.
AccessChange(u) ==
    /\ flips < MaxFlips
    /\ flips' = flips + 1
    /\ access' = [access EXCEPT ![u] = ~@]
    /\ UNCHANGED <<brokerVars, stage, due, timers, parked, taskVars, dropped, failures>>

-----------------------------------------------------------------------------
(* _process_suspended_events_background *)

\* The places in the session of the messages that are not held back.
Visible(u) == {i \in DOMAIN parked[u] : parked[u][i] \notin Timed \ due}

\* The session's lock lets one task of a user run at a time.
RpStart(u) ==
    /\ rp[u] = "off"
    /\ rp' = [rp EXCEPT ![u] = "receive"]
    /\ owed' = [owed EXCEPT ![u] = Range(parked[u])]
    /\ UNCHANGED <<brokerVars, access, flips, stage, due, timers, parked, todo, dropped, failures>>

\* A batch holds the oldest of them, in their order.
RpReceive(u) ==
    /\ rp[u] = "receive"
    /\ \E n \in 1..MaxBatch : \E at \in [1..n -> Visible(u)] :
        /\ \A k \in 1..n, i \in Visible(u) : i < at[k] <=> \E j \in 1..(k - 1) : at[j] = i
        /\ todo' = [todo EXCEPT ![u] = [k \in 1..n |-> parked[u][at[k]]]]
    /\ rp' = [rp EXCEPT ![u] = "settle"]
    /\ UNCHANGED <<brokerVars, access, flips, stage, due, timers, parked, owed, dropped, failures>>

\* Mutated RpFinish: the task ends after one batch.
RpFinishEarly(u) ==
    /\ rp[u] = "receive"
    /\ rp' = [rp EXCEPT ![u] = "off"]
    /\ UNCHANGED <<brokerVars, access, flips, stage, due, timers, parked, todo, owed, dropped, failures>>

\* An empty receive: "Completed processing ... suspended events for user".
RpFinish(u) ==
    /\ rp[u] = "receive"
    /\ Visible(u) = {}
    /\ rp' = [rp EXCEPT ![u] = "off"]
    /\ UNCHANGED <<brokerVars, access, flips, stage, due, timers, parked, todo, owed, dropped, failures>>

Unpark(u) == parked' = [parked EXCEPT ![u] = RemoveFirst(@, Head(todo[u]))]

\* Mutated RpComplete: the event is published and its message not completed.
RpCompleteForgotten(u) ==
    /\ rp[u] = "settle"
    /\ stage' = [stage EXCEPT ![Head(todo[u])] = "again"]
    /\ rp' = [rp EXCEPT ![u] = "publish"]
    /\ UNCHANGED <<brokerVars, access, flips, due, timers, parked, todo, owed, dropped, failures>>

\* The message is completed, and its event is then handed to publish.
RpComplete(u) ==
    /\ rp[u] = "settle"
    /\ Unpark(u)
    /\ stage' = [stage EXCEPT ![Head(todo[u])] = "again"]
    /\ rp' = [rp EXCEPT ![u] = "publish"]
    /\ UNCHANGED <<brokerVars, access, flips, due, timers, todo, owed, dropped, failures>>

\* The batch goes on with its next message, or the task receives again.
RpAdvance(u) ==
    /\ todo' = [todo EXCEPT ![u] = Tail(@)]
    /\ rp' = [rp EXCEPT ![u] = IF Len(todo[u]) = 1 THEN "receive" ELSE "settle"]

RpNext(u) ==
    /\ rp[u] = "publish"
    /\ stage[Head(todo[u])] = "done"
    /\ RpAdvance(u)
    /\ UNCHANGED <<brokerVars, access, flips, stage, due, timers, parked, owed, dropped, failures>>

RpStop(u) ==
    /\ rp' = [rp EXCEPT ![u] = "off"]
    /\ todo' = [todo EXCEPT ![u] = <<>>]

\* complete_message raises: the message is abandoned, or abandoning it raises
\* too and ends the task, although the completion may have reached the broker.
RpSettleError(u) ==
    /\ rp[u] = "settle"
    /\ SpendFailure
    /\ \/ RpAdvance(u) /\ UNCHANGED <<parked, dropped>>
       \/ RpStop(u) /\ UNCHANGED <<parked, dropped>>
       \/ RpStop(u) /\ Unpark(u) /\ dropped' = dropped \cup {Head(todo[u])}
    /\ UNCHANGED <<brokerVars, access, flips, stage, due, timers, owed>>

\* The receive raises, or the process that runs the task dies, or the access
\* check inside publish raises: a completed message is not put back.
RpDies(u) ==
    /\ rp[u] # "off"
    /\ SpendFailure
    /\ RpStop(u)
    /\ LET cut == IF rp[u] = "publish" THEN {Head(todo[u])} ELSE {} IN
        /\ stage' = [e \in Events |-> IF e \in cut THEN "done" ELSE stage[e]]
        /\ dropped' = dropped \cup {e \in cut : stage[e] \in {"again", "send", "park"}}
    /\ UNCHANGED <<brokerVars, access, flips, due, timers, parked, owed>>

RpStep(u) == RpReceive(u) \/ RpFinish(u) \/ RpComplete(u) \/ RpNext(u)

-----------------------------------------------------------------------------

GateInit ==
    /\ Init
    /\ access = [u \in Users |-> u \notin Suspended0]
    /\ flips = 0
    /\ stage = [e \in Events |-> "new"]
    /\ due = {}
    /\ timers = {}
    /\ parked = [u \in Users |-> <<>>]
    /\ rp = [u \in Users |-> "off"]
    /\ todo = [u \in Users |-> <<>>]
    /\ owed = [u \in Users |-> {}]
    /\ dropped = {}
    /\ failures = 0

GateStep ==
    \/ \E e \in Events : PublishCall(e) \/ SendFails(e) \/ FireTimer(e) \/ BecomeDue(e)
    \/ \E u \in Users :
        \/ AccessChange(u) \/ RpStart(u) \/ RpStep(u)
        \/ RpSettleError(u) \/ RpDies(u)

GateNext ==
    \/ GateStep /\ UNCHANGED restVars
    \/ ConsumerNext /\ UNCHANGED gateVars

GateSpec == GateInit /\ [][GateNext]_<<vars, gateVars>>

\* A call that was begun goes on, a due message is released, a task goes on, and
\* the workers do (see WorkerFairness).
GateFairness ==
    /\ \A e \in Events :
        /\ WF_<<vars, gateVars>>(stage[e] # "new" /\ PublishCall(e) /\ UNCHANGED restVars)
        /\ WF_<<vars, gateVars>>(FireTimer(e) /\ UNCHANGED restVars)
    /\ \A u \in Users : WF_<<vars, gateVars>>(RpStep(u) /\ UNCHANGED restVars)
    /\ \A w \in Workers :
        /\ WF_<<vars, gateVars>>(Step(w) /\ UNCHANGED gateVars)
        /\ WF_<<vars, gateVars>>(Doomed(w) /\ UNCHANGED gateVars)

FairGateSpec == GateSpec /\ GateFairness

-----------------------------------------------------------------------------
(* Properties *)

IsParked(e) == e \in Range(parked[UserOf[e]])

\* The places where a published event can rest.
Places(e) ==
    {p \in {"accepted", "timer", "parked", "dropped"} :
        \/ p = "accepted" /\ e \in Accepted
        \/ p = "timer" /\ e \in timers
        \/ p = "parked" /\ IsParked(e)
        \/ p = "dropped" /\ e \in dropped}

\* A publish call that returned has left its event in exactly one place: on the
\* main queue, waiting for its time, or parked; however often it was parked and
\* taken out again, and wherever a failure cut in, it is never in two of them,
\* and it is in none of them only if its send failed or its process died.
PublishedIsInOnePlace ==
    \A e \in Events :
        /\ Cardinality(Places(e)) <= 1
        /\ stage[e] = "done" => Cardinality(Places(e)) = 1
        /\ \A i, j \in DOMAIN parked[UserOf[e]] :
            parked[UserOf[e]][i] = e /\ parked[UserOf[e]][j] = e => i = j

\* A reprocess that ends normally leaves nothing behind of what was parked and
\* available when it started, unless a step failed: should the user lose access
\* meanwhile, it parks and receives the same events again and does not end.
ReprocessForwardsAvailable ==
    [][\A u \in Users : RpFinish(u) /\ failures = 0
        => \A e \in owed[u] \ Timed : e \in Accepted]_<<vars, gateVars>>

\* Once the user keeps access, a running reprocess comes to its end instead of
\* parking and receiving the same events again, and all it found is handled,
\* when no step fails.
ReprocessEnds ==
    \A u \in Users : <>[](access[u] /\ failures = 0) =>
        /\ rp[u] # "off" ~> rp[u] = "off"
        /\ \A e \in Events \ Timed :
            [](rp[u] # "off" /\ e \in owed[u] => <>HandledOnce(e))
=============================================================================
