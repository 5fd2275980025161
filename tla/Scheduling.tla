----------------------------- MODULE Scheduling -----------------------------
(***************************************************************************)
(* One-time and recurring tasks: SchedulingService                         *)
(* (src/services/scheduling_service.py), the records it keeps in           *)
(* agent_schedules (src/utils/database.py) and what a worker does with the *)
(* event of a task (ExecutionWorker.handle_single_event).                  *)
(*                                                                         *)
(* A task has a record in the database and an event in the queue.  The     *)
(* event of a recurring task is a link of a chain: the worker that takes   *)
(* it checks that the task is active, computes the next time the cron      *)
(* expression fires, writes it to the record, publishes the next event,    *)
(* and then runs the agent.  Each of these is an await of its own, and the *)
(* user may cancel or update the task between any two of them.             *)
(*                                                                         *)
(* The queue is external here (EventQueue models it): it delivers an event *)
(* when it is due, may deliver it again when the acknowledgement failed,   *)
(* and loses what a crashed worker had in hand.  An event published while  *)
(* the user is over the memory cap is parked (SuspendedEvents).            *)
(***************************************************************************)
EXTENDS Naturals, FiniteSets

CONSTANTS
    Tasks,
    Recurring,      \* the tasks with a cron expression; others run once
    Workers,
    Period,         \* the cron expression fires at the multiples of Period
    Delay,          \* base_time_delay of schedule_next_run (5 seconds)
    MaxSkew,        \* how far a worker's clock may be behind the broker's
    StartOf,        \* start_time of each task; nothing reads its end_time
    Horizon,        \* bound on time
    MaxFaults,      \* bound on failed steps, redeliveries and crashes
    MaxEdits,       \* bound on updates and changes of access
    None

ASSUME TasksAssumption ==
    /\ Recurring \subseteq Tasks
    /\ StartOf \in [Tasks -> Nat]
ASSUME TimeAssumption ==
    /\ Period \in Nat \ {0} /\ Delay \in Nat /\ MaxSkew \in 0..Delay /\ Horizon \in Nat
ASSUME WorkerAssumption ==
    /\ IsFiniteSet(Workers)
    /\ None \notin [id : Nat, task : Tasks, slot : Nat, cmd : Nat]
    /\ None \notin [slot : Nat, cmd : Nat]
ASSUME FaultAssumption == MaxFaults \in Nat /\ MaxEdits \in Nat

VARIABLES
    now,
    active,     \* is_active of each record; FALSE before it exists
    next,       \* next_run of each record
    command,    \* command of each record: how often it was updated
    asked,      \* next_execution of each record, which an update sets and no query reads
    made,       \* how far the creation of each task is
    overCap,    \* the user has no access: scheduled events are parked
    queue,      \* events of the main queue
    parked,     \* events of the suspended queue
    nextId,     \* the events ever published
    pc, ev, plan, \* where each worker is, its event, the slot it computed
    runs,       \* how often the agent ran for each slot of each task
    dups,       \* redelivered events of each task
    cut,        \* tasks of which a step failed or a worker crashed
    cancelled,  \* tasks the user cancelled
    inFlight,   \* events of each task that were verified when it was cancelled
    late,       \* runs of each task after it was cancelled
    faults, edits

taskVars == <<active, next, command, asked, made>>
queueVars == <<overCap, queue, parked, nextId>>
workerVars == <<pc, ev, plan>>
historyVars == <<runs, dups, cut, cancelled, inFlight, late>>
vars == <<now, taskVars, queueVars, workerVars, historyVars, faults, edits>>

Slots == 0..(Horizon + Period + Delay)

\* get_next_run_time_utc: the first time after t at which the expression fires.
CronAfter(t) == (t \div Period + 1) * Period

SpendFault == faults < MaxFaults /\ faults' = faults + 1
SpendEdit == edits < MaxEdits /\ edits' = edits + 1

-----------------------------------------------------------------------------
(* Publishing an event of a task: publish_scheduled_event *)

Event(t, slot, cmd) == [id |-> nextId, task |-> t, slot |-> slot, cmd |-> cmd]

Publish(e) ==
    /\ nextId' = nextId + 1
    /\ IF overCap
         THEN parked' = parked \cup {e} /\ UNCHANGED queue
         ELSE queue' = queue \cup {e} /\ UNCHANGED parked
    /\ UNCHANGED overCap

-----------------------------------------------------------------------------
(* create_future_task and create_recurring_task *)

\* A recurring task first runs when its expression next fires.
FirstSlot(t) == IF t \in Recurring THEN CronAfter(now) ELSE StartOf[t]

CreateRecord(t) ==
    /\ made[t] = "no"
    /\ now <= StartOf[t]
    /\ made' = [made EXCEPT ![t] = "record"]
    /\ active' = [active EXCEPT ![t] = TRUE]
    /\ next' = [next EXCEPT ![t] = FirstSlot(t)]
    /\ asked' = [asked EXCEPT ![t] = StartOf[t]]
    /\ UNCHANGED <<now, command, queueVars, workerVars, historyVars, faults, edits>>

\* Mutated CreateEvent: a time that has passed since is not published.
CreateEventUnlessLate(t) ==
    /\ made[t] = "record"
    /\ made' = [made EXCEPT ![t] = "yes"]
    /\ IF next[t] >= now THEN Publish(Event(t, next[t], 0)) ELSE UNCHANGED queueVars
    /\ UNCHANGED <<now, active, next, command, asked, workerVars, historyVars, faults, edits>>

\* The event carries the time and the command the record was created with.
CreateEvent(t) ==
    /\ made[t] = "record"
    /\ made' = [made EXCEPT ![t] = "yes"]
    /\ Publish(Event(t, next[t], 0))
    /\ UNCHANGED <<now, active, next, command, asked, workerVars, historyVars, faults, edits>>

\* The send fails and is swallowed: the user is told that the task is scheduled.
CreateEventFails(t) ==
    /\ made[t] = "record"
    /\ SpendFault
    /\ made' = [made EXCEPT ![t] = "yes"]
    /\ cut' = cut \cup {t}
    /\ UNCHANGED <<now, active, next, command, asked, queueVars, workerVars,
                   runs, dups, cancelled, inFlight, late, edits>>

-----------------------------------------------------------------------------
(* cancel_task and update_task *)

Verified(t) ==
    {w \in Workers : ev[w] # None /\ ev[w].task = t /\ pc[w] \notin {"idle", "verify"}}

\* The record is deactivated; its event stays in the queue.
Cancel(t) ==
    /\ made[t] = "yes"
    /\ t \notin cancelled
    /\ active' = [active EXCEPT ![t] = FALSE]
    /\ cancelled' = cancelled \cup {t}
    /\ inFlight' = [inFlight EXCEPT ![t] = Cardinality(Verified(t))]
    /\ UNCHANGED <<now, next, command, asked, made, queueVars, workerVars,
                   runs, dups, cut, late, faults, edits>>

\* The new time goes to a field that nothing reads, the new command to the
\* record; the event in the queue stays as it is.
Update(t) ==
    /\ made[t] = "yes"
    /\ active[t]
    /\ SpendEdit
    /\ \/ \E time \in (now + 1)..Horizon : asked' = [asked EXCEPT ![t] = time] /\ UNCHANGED command
       \/ command' = [command EXCEPT ![t] = @ + 1] /\ UNCHANGED asked
    /\ UNCHANGED <<now, active, next, made, queueVars, workerVars, historyVars, faults>>

-----------------------------------------------------------------------------
(* handle_single_event for a scheduled or recurring event *)

\* The queue delivers a due event; without an acknowledgement it stays there.
Deliver(w, e) ==
    /\ pc[w] = "idle"
    /\ e \in queue
    /\ e.slot <= now
    /\ \/ queue' = queue \ {e} /\ UNCHANGED <<dups, faults>>
       \/ SpendFault /\ dups' = [dups EXCEPT ![e.task] = @ + 1] /\ UNCHANGED queue
    /\ ev' = [ev EXCEPT ![w] = e]
    /\ pc' = [pc EXCEPT ![w] = "verify"]
    /\ UNCHANGED <<now, taskVars, overCap, parked, nextId, plan,
                   runs, cut, cancelled, inFlight, late, edits>>

Goto(w, at) == pc' = [pc EXCEPT ![w] = at]
Drop(w) == Goto(w, "idle") /\ ev' = [ev EXCEPT ![w] = None]

\* Mutated Verify: the event is taken as proof that its task is active.
VerifyNothing(w) ==
    /\ pc[w] = "verify"
    /\ Goto(w, IF ev[w].task \in Recurring THEN "load" ELSE "run")
    /\ UNCHANGED <<now, taskVars, queueVars, ev, plan, historyVars, faults, edits>>

\* verify_task_active: the event of an inactive task is dropped.
Verify(w) ==
    /\ pc[w] = "verify"
    /\ IF active[ev[w].task]
         THEN Goto(w, IF ev[w].task \in Recurring THEN "load" ELSE "run") /\ UNCHANGED ev
         ELSE Drop(w)
    /\ UNCHANGED <<now, taskVars, queueVars, plan, historyVars, faults, edits>>

\* Mutated Load: the next time is computed from the worker's clock as it is.
LoadWithoutDelay(w) ==
    /\ pc[w] = "load"
    /\ \E skew \in 0..MaxSkew :
        /\ skew <= now
        /\ plan' = [plan EXCEPT ![w] = [slot |-> CronAfter(now - skew), cmd |-> command[ev[w].task]]]
    /\ Goto(w, "save")
    /\ UNCHANGED <<now, taskVars, queueVars, ev, historyVars, faults, edits>>

\* schedule_next_run reads the task and computes the next time from a clock that
\* may be behind the one by which the broker released the event.
Load(w) ==
    /\ pc[w] = "load"
    /\ \E skew \in 0..MaxSkew :
        /\ skew <= now
        /\ plan' = [plan EXCEPT ![w] =
                [slot |-> CronAfter(now - skew + Delay), cmd |-> command[ev[w].task]]]
    /\ Goto(w, "save")
    /\ UNCHANGED <<now, taskVars, queueVars, ev, historyVars, faults, edits>>

\* update_task_execution
Save(w) ==
    /\ pc[w] = "save"
    /\ next' = [next EXCEPT ![ev[w].task] = plan[w].slot]
    /\ Goto(w, "publish")
    /\ UNCHANGED <<now, active, command, asked, made, queueVars, ev, plan, historyVars, faults, edits>>

\* Mutated PublishNext: the event that was handled is published once more.
PublishSame(w) ==
    /\ pc[w] = "publish"
    /\ Publish([ev[w] EXCEPT !.id = nextId])
    /\ Goto(w, "run")
    /\ UNCHANGED <<now, taskVars, ev, plan, historyVars, faults, edits>>

PublishNext(w) ==
    /\ pc[w] = "publish"
    /\ Publish(Event(ev[w].task, plan[w].slot, plan[w].cmd))
    /\ Goto(w, "run")
    /\ UNCHANGED <<now, taskVars, ev, plan, historyVars, faults, edits>>

\* Mutated NextRunFails: the event is handled again from the beginning.
NextRunRetried(w) ==
    /\ pc[w] \in {"load", "save", "publish"}
    /\ SpendFault
    /\ Goto(w, "load")
    /\ queue' = queue \cup {[ev[w] EXCEPT !.id = nextId]}
    /\ nextId' = nextId + 1
    /\ UNCHANGED <<now, taskVars, overCap, parked, ev, plan, historyVars, edits>>

\* schedule_next_run raises, or its send fails: the chain ends, the run goes on.
NextRunFails(w) ==
    /\ pc[w] \in {"load", "save", "publish"}
    /\ SpendFault
    /\ Goto(w, "run")
    /\ cut' = cut \cup {ev[w].task}
    /\ UNCHANGED <<now, taskVars, queueVars, ev, plan,
                   runs, dups, cancelled, inFlight, late, edits>>

\* The agent runs; the task may have been cancelled since it was verified.
Run(w) == LET t == ev[w].task IN
    /\ pc[w] = "run"
    /\ runs' = [runs EXCEPT ![t][ev[w].slot] = @ + 1]
    /\ late' = IF t \in cancelled THEN [late EXCEPT ![t] = @ + 1] ELSE late
    /\ Drop(w)
    /\ UNCHANGED <<now, taskVars, queueVars, plan, dups, cut, cancelled, inFlight, faults, edits>>

\* The worker dies with its event, which was acknowledged when it was received.
Crash(w) ==
    /\ pc[w] # "idle"
    /\ SpendFault
    /\ cut' = cut \cup {ev[w].task}
    /\ Drop(w)
    /\ UNCHANGED <<now, taskVars, queueVars, plan, runs, dups, cancelled, inFlight, late, edits>>

-----------------------------------------------------------------------------

Tick ==
    /\ now < Horizon
    /\ now' = now + 1
    /\ UNCHANGED <<taskVars, queueVars, workerVars, historyVars, faults, edits>>

AccessChange ==
    /\ SpendEdit
    /\ overCap' = ~overCap
    /\ UNCHANGED <<now, taskVars, queue, parked, nextId, workerVars, historyVars, faults>>

\* A reprocess receives a parked event only once it is due, and publishes it.
Reprocess(e) ==
    /\ e \in parked
    /\ e.slot <= now
    /\ ~overCap
    /\ parked' = parked \ {e}
    /\ queue' = queue \cup {e}
    /\ UNCHANGED <<now, taskVars, overCap, nextId, workerVars, historyVars, faults, edits>>

Init ==
    /\ now = 0
    /\ active = [t \in Tasks |-> FALSE]
    /\ next = [t \in Tasks |-> 0]
    /\ command = [t \in Tasks |-> 0]
    /\ asked = [t \in Tasks |-> 0]
    /\ made = [t \in Tasks |-> "no"]
    /\ overCap = FALSE
    /\ queue = {} /\ parked = {} /\ nextId = 0
    /\ pc = [w \in Workers |-> "idle"]
    /\ ev = [w \in Workers |-> None]
    /\ plan = [w \in Workers |-> None]
    /\ runs = [t \in Tasks |-> [s \in Slots |-> 0]]
    /\ dups = [t \in Tasks |-> 0]
    /\ cut = {} /\ cancelled = {}
    /\ inFlight = [t \in Tasks |-> 0]
    /\ late = [t \in Tasks |-> 0]
    /\ faults = 0 /\ edits = 0

WorkerStep(w) ==
    \/ \E e \in queue : Deliver(w, e)
    \/ Verify(w) \/ Load(w) \/ Save(w) \/ PublishNext(w) \/ Run(w)

Next ==
    \/ Tick \/ AccessChange
    \/ \E t \in Tasks :
        CreateRecord(t) \/ CreateEvent(t) \/ CreateEventFails(t) \/ Cancel(t) \/ Update(t)
    \/ \E e \in parked : Reprocess(e)
    \/ \E w \in Workers : WorkerStep(w) \/ NextRunFails(w) \/ Crash(w)

Spec == Init /\ [][Next]_vars

\* Time passes, workers go on, and a creation that was begun is finished.
FairSpec ==
    /\ Spec
    /\ WF_vars(Tick)
    /\ \A t \in Tasks : WF_vars(CreateEvent(t))
    /\ \A w \in Workers : WF_vars(WorkerStep(w))

-----------------------------------------------------------------------------
(* Properties *)

TaskEvents ==
    [id : Nat, task : Tasks, slot : Nat, cmd : Nat]

\* The values of the variables.
TypeOK ==
    /\ now \in 0..Horizon
    /\ active \in [Tasks -> BOOLEAN]
    /\ next \in [Tasks -> Nat] /\ command \in [Tasks -> Nat] /\ asked \in [Tasks -> Nat]
    /\ made \in [Tasks -> {"no", "record", "yes"}]
    /\ overCap \in BOOLEAN
    /\ queue \subseteq TaskEvents /\ parked \subseteq TaskEvents
    /\ nextId \in Nat
    /\ pc \in [Workers -> {"idle", "verify", "load", "save", "publish", "run"}]
    /\ ev \in [Workers -> TaskEvents \cup {None}]
    /\ plan \in [Workers -> [slot : Nat, cmd : Nat] \cup {None}]
    /\ cut \subseteq Tasks /\ cancelled \subseteq Tasks
    /\ dups \in [Tasks -> Nat] /\ late \in [Tasks -> Nat] /\ inFlight \in [Tasks -> Nat]

\* The links of a task's chain: its events, and the workers about to publish
\* the next one.
Waiting(t) == {e \in queue \cup parked : e.task = t}
Linking(t) == {w \in Workers : ev[w] # None /\ ev[w].task = t /\ pc[w] \notin {"idle", "run"}}

\* A task never has more events than one for each time it was delivered without
\* an acknowledgement: cancelling, updating, parking, reprocessing and crashes
\* do not fork a chain, but every redelivery does.
ChainsAreNotForked ==
    \A t \in Tasks : Cardinality(Waiting(t)) + Cardinality(Linking(t)) <= 1 + dups[t]

\* The chain of an active recurring task goes on unless one of its steps failed.
ChainSurvives ==
    \A t \in Recurring :
        made[t] = "yes" /\ active[t] /\ t \notin cut => Waiting(t) # {} \/ Linking(t) # {}

\* A recurring task goes on as one chain of events.
ChainIsWhole == ChainsAreNotForked /\ ChainSurvives

\* What the user is shown is what will happen: between two runs, next_run of an
\* active recurring task is the time of its one event.
NextRunIsQueued ==
    \A t \in Recurring :
        /\ made[t] = "yes" /\ active[t] /\ t \notin cut /\ dups[t] = 0
        /\ Linking(t) = {}
        => \E e \in Waiting(t) : e.slot = next[t]

\* A task runs at most once for each time it was due and each redelivery, also
\* when the worker's clock is behind the broker's.
SlotRunOnce ==
    \A t \in Tasks : \A s \in Slots : runs[t][s] <= 1 + dups[t]

\* After a task was cancelled only the events already past the check still run.
CancelStopsAllButInFlight ==
    \A t \in Tasks : late[t] <= inFlight[t]

\* Events are numbered, and each is in one queue.
EventsOK ==
    /\ IsFiniteSet(queue) /\ IsFiniteSet(parked)
    /\ queue \cap parked = {}
    /\ \A e \in queue \cup parked : e.id < nextId

\* What a worker at each step has, and a task at each step of its creation.
StepsOK ==
    /\ \A w \in Workers :
        /\ pc[w] # "idle" => ev[w] # None
        /\ pc[w] \in {"save", "publish"} => plan[w] # None
    /\ \A t \in Tasks : made[t] # "yes" => Waiting(t) = {} /\ Linking(t) = {}

\* A cancelled task stays inactive, and its events that passed the check run once.
CancelOK ==
    /\ \A t \in cancelled :
        /\ made[t] = "yes" /\ ~active[t]
        /\ late[t] + Cardinality(Verified(t)) <= inFlight[t]
    /\ \A t \in Tasks \ cancelled : late[t] = 0

\* The inductive invariant of the proofs.
ChainInv == TypeOK /\ EventsOK /\ StepsOK /\ CancelOK /\ ChainsAreNotForked /\ ChainSurvives

\* A task that is created, and neither cancelled nor parked nor cut by a
\* failure, eventually runs.
CreatedRuns ==
    \A t \in Tasks :
        made[t] # "no" ~> (\E s \in Slots : runs[t][s] > 0) \/ t \in cancelled \cup cut \/ Waiting(t) \cap parked # {}
=============================================================================
