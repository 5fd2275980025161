----------------------------- MODULE EventQueue -----------------------------
(***************************************************************************)
(* The main event queue of the system: an Azure Service Bus queue whose    *)
(* messages are grouped in sessions, the consumer that drains it           *)
(* (AzureEventQueue.consume, src/core/event_queue.py) and the worker loop   *)
(* that handles each group it yields (ExecutionWorker.run and              *)
(* handle_grouped_events, src/workers/execution_worker.py).  Ten replicas  *)
(* of the worker run at once.                                              *)
(*                                                                         *)
(* A worker accepts the next available session, collects its messages,     *)
(* acknowledging each one as it goes, and only then yields the group and   *)
(* handles it, still holding the session lock and never renewing it.       *)
(*                                                                         *)
(* The broker is external code: a session has at most one lock owner, the  *)
(* messages of a session are received in the order of their sequence       *)
(* numbers, a received message stays in the queue until it is completed,   *)
(* and a session lock may run out at any time.  Not modelled: the broker's *)
(* maximum delivery count, the fallback for a queue without sessions, and  *)
(* the logging context.                                                    *)
(***************************************************************************)
EXTENDS Naturals, Sequences, FiniteSets, Functions

CONSTANTS
    Events,         \* the events that are ever published
    Sessions,       \* session identifiers, {source}_{user_id}
    Workers,        \* the replicas of the execution worker
    SessionOf,      \* the session of each event
    ChatSessions,   \* sessions of whatsapp, telegram and imessage
    Forwarded,      \* events whose metadata says they are forwarded messages
    MaxBatch,       \* messages in one receive (10 in the code)
    Limit,          \* bound on each kind of fault
    NoWorker, NoSession

FaultKinds == {"error", "expiry", "crash"}

ASSUME EventsAssumption ==
    /\ IsFiniteSet(Events)
    /\ SessionOf \in [Events -> Sessions]
    /\ ChatSessions \subseteq Sessions
    /\ Forwarded \subseteq Events
ASSUME BatchAssumption == MaxBatch \in Nat \ {0}
ASSUME LimitAssumption == Limit \in [FaultKinds -> Nat]
ASSUME NoneAssumption == NoWorker \notin Workers /\ NoSession \notin Sessions

VARIABLES
    seqno,      \* broker's sequence number of each accepted event, 0 before
    active,     \* accepted events that were not completed yet
    lock,       \* the worker that owns each session's lock
    pc,         \* where each worker is in consume() or run()
    sess,       \* the session each worker accepted
    batch,      \* messages of the last receive that are not settled yet
    got,        \* the list "messages" of consume(), in order
    first,      \* first_message_received of consume()
    handled,    \* per session, the events handled so far, in order
    nacked,     \* events kept in "messages" whose complete_message failed
    spent       \* faults so far, of each kind

brokerVars == <<seqno, active>>
workerVars == <<pc, sess, batch, got, first>>
vars == <<brokerVars, lock, workerVars, handled, nacked, spent>>

-----------------------------------------------------------------------------
(* The broker *)

Accepted == {e \in Events : seqno[e] > 0}

\* Sequence numbers only grow: the next one is above all the others.
NextSeqno == Cardinality(Accepted) + 1

\* Mutated Enqueue: the message can be sent again after its first delivery.
EnqueueAgain(e) ==
    /\ seqno' = [seqno EXCEPT ![e] = NextSeqno]
    /\ active' = active \cup {e}

\* A message becomes available for delivery.
Enqueue(e) ==
    /\ seqno[e] = 0
    /\ seqno' = [seqno EXCEPT ![e] = NextSeqno]
    /\ active' = active \cup {e}

Pending(s) == {e \in active : SessionOf[e] = s}

\* What one receive may return: the oldest messages of the session, in order.
Batches(s) ==
    {B \in SUBSET Pending(s) :
        /\ B # {}
        /\ Cardinality(B) <= MaxBatch
        /\ \A e \in B, f \in Pending(s) \ B : seqno[e] < seqno[f]}

Holds(w) == lock[sess[w]] = w

Spend(kind) ==
    /\ spent[kind] < Limit[kind]
    /\ spent' = [spent EXCEPT ![kind] = @ + 1]

\* A call to the broker fails: always once the lock is lost, else now and then.
BrokerError(w) == IF Holds(w) THEN Spend("error") ELSE UNCHANGED spent

-----------------------------------------------------------------------------
(* consume(): collecting the messages of a session *)

\* Mutated Oldest: the messages of a batch are gone through in any order.
AnyOf(B) == B

Oldest(B) == {e \in B : \A f \in B : seqno[e] <= seqno[f]}

\* The session receiver is closed: its lock and what it had not settled go back.
Release(w) ==
    /\ lock' = [s \in Sessions |-> IF lock[s] = w THEN NoWorker ELSE lock[s]]
    /\ pc' = [pc EXCEPT ![w] = "accept"]
    /\ sess' = [sess EXCEPT ![w] = NoSession]
    /\ first' = [first EXCEPT ![w] = FALSE]

\* Mutated LeaveLoop: the group is yielded after the session receiver is closed.
LeaveLoopUnlocked(w, msgs) ==
    /\ got' = [got EXCEPT ![w] = msgs]
    /\ batch' = [batch EXCEPT ![w] = {}]
    /\ lock' = [lock EXCEPT ![sess[w]] = IF @ = w THEN NoWorker ELSE @]
    /\ pc' = [pc EXCEPT ![w] = IF msgs # <<>> THEN "handle" ELSE "accept"]
    /\ sess' = [sess EXCEPT ![w] = IF msgs # <<>> THEN @ ELSE NoSession]
    /\ first' = [first EXCEPT ![w] = FALSE]

\* The collecting loop is left with msgs: yield them, or try the next session.
LeaveLoop(w, msgs) ==
    /\ got' = [got EXCEPT ![w] = msgs]
    /\ batch' = [batch EXCEPT ![w] = {}]
    /\ IF msgs # <<>>
         THEN pc' = [pc EXCEPT ![w] = "handle"] /\ UNCHANGED <<lock, sess, first>>
         ELSE Release(w)

Accept(w) == \E s \in Sessions :
    /\ pc[w] = "accept"
    /\ lock[s] = NoWorker
    /\ Pending(s) # {}
    /\ lock' = [lock EXCEPT ![s] = w]
    /\ sess' = [sess EXCEPT ![w] = s]
    /\ pc' = [pc EXCEPT ![w] = "collect"]
    /\ UNCHANGED <<brokerVars, batch, got, first, handled, nacked, spent>>

Receive(w) ==
    /\ pc[w] = "collect"
    /\ Holds(w)
    /\ \E B \in Batches(sess[w]) : batch' = [batch EXCEPT ![w] = B]
    /\ pc' = [pc EXCEPT ![w] = "settle"]
    /\ UNCHANGED <<brokerVars, lock, sess, got, first, handled, nacked, spent>>

AllForwarded(w) == got[w] # <<>> /\ Range(got[w]) \subseteq Forwarded

\* Mutated ReceiveEmpty: an empty receive is repeated.
ReceiveEmptyAgain(w) ==
    /\ pc[w] = "collect"
    /\ Holds(w)
    /\ Pending(sess[w]) = {}
    /\ UNCHANGED vars

\* Nothing came in time.  A chain of forwarded messages gets one longer wait.
ReceiveEmpty(w) ==
    /\ pc[w] = "collect"
    /\ Holds(w)
    /\ Pending(sess[w]) = {}
    /\ IF first[w] /\ AllForwarded(w)
         THEN /\ pc' = [pc EXCEPT ![w] = "final"]
              /\ UNCHANGED <<lock, sess, batch, got, first>>
         ELSE LeaveLoop(w, got[w])
    /\ UNCHANGED <<brokerVars, handled, nacked, spent>>

\* dict(msg) raises for every message of the final receive, so each one is
\* abandoned and the main loop goes on.
FinalReceive(w) ==
    /\ pc[w] = "final"
    /\ Holds(w)
    /\ Pending(sess[w]) # {}
    /\ pc' = [pc EXCEPT ![w] = "collect"]
    /\ UNCHANGED <<brokerVars, lock, sess, batch, got, first, handled, nacked, spent>>

FinalEmpty(w) ==
    /\ pc[w] = "final"
    /\ Holds(w)
    /\ Pending(sess[w]) = {}
    /\ LeaveLoop(w, got[w])
    /\ UNCHANGED <<brokerVars, handled, nacked, spent>>

\* receive_messages raises: "Error receiving message batch".
ReceiveError(w) ==
    /\ pc[w] \in {"collect", "final"}
    /\ BrokerError(w)
    /\ LeaveLoop(w, got[w])
    /\ UNCHANGED <<brokerVars, handled, nacked>>

-----------------------------------------------------------------------------
(* consume(): a message is appended to the group, then completed *)

\* The batch goes on with its next message, or the loop receives again.
NextMessage(w, e) ==
    /\ batch' = [batch EXCEPT ![w] = @ \ {e}]
    /\ got' = [got EXCEPT ![w] = Append(@, e)]
    /\ pc' = IF batch[w] = {e} THEN [pc EXCEPT ![w] = "collect"] ELSE pc
    /\ UNCHANGED <<lock, sess>>

\* Mutated Complete: the message is grouped and not completed.
CompleteForgotten(w) == \E e \in Oldest(batch[w]) :
    /\ pc[w] = "settle"
    /\ Holds(w)
    /\ first' = [first EXCEPT ![w] = TRUE]
    /\ NextMessage(w, e)
    /\ UNCHANGED <<brokerVars, handled, nacked, spent>>

Complete(w) == \E e \in Oldest(batch[w]) :
    /\ pc[w] = "settle"
    /\ Holds(w)
    /\ active' = active \ {e}
    /\ first' = [first EXCEPT ![w] = TRUE]
    /\ NextMessage(w, e)
    /\ UNCHANGED <<seqno, handled, nacked, spent>>

\* complete_message raises, abandon_message works: the message stays in the
\* group and becomes available again.
Abandon(w) == \E e \in Oldest(batch[w]) :
    /\ pc[w] = "settle"
    /\ Holds(w)
    /\ Spend("error")
    /\ nacked' = nacked \cup {e}
    /\ NextMessage(w, e)
    /\ UNCHANGED <<brokerVars, first, handled>>

\* Both calls raise.  With the lock still held the completion may have reached
\* the broker although its answer did not.
SettleError(w) == \E e \in Oldest(batch[w]) :
    /\ pc[w] = "settle"
    /\ BrokerError(w)
    /\ \/ Holds(w) /\ active' = active \ {e} /\ UNCHANGED nacked
       \/ active' = active /\ nacked' = nacked \cup {e}
    /\ LeaveLoop(w, Append(got[w], e))
    /\ UNCHANGED <<seqno, handled>>

-----------------------------------------------------------------------------
(* ExecutionWorker: handling a group.  Exceptions are logged, never raised. *)

\* Chat messages are combined in one event; others are handled one by one.
TurnOf(w) == IF sess[w] \in ChatSessions THEN got[w] ELSE <<Head(got[w])>>
\* Mutated RestOf: of a group that is not chat, only the first event is handled.
RestOfFirstOnly(w) == <<>>

RestOf(w) == IF sess[w] \in ChatSessions THEN <<>> ELSE Tail(got[w])

Handle(w) ==
    /\ pc[w] = "handle"
    /\ handled' = [handled EXCEPT ![sess[w]] = @ \o TurnOf(w)]
    /\ got' = [got EXCEPT ![w] = RestOf(w)]
    /\ IF RestOf(w) = <<>> THEN Release(w) ELSE UNCHANGED <<lock, pc, sess, first>>
    /\ UNCHANGED <<brokerVars, batch, nacked, spent>>

-----------------------------------------------------------------------------
(* Faults *)

\* The lock of a session runs out under a worker that still uses it.
LockExpire(w) ==
    /\ pc[w] # "accept"
    /\ Holds(w)
    /\ Spend("expiry")
    /\ lock' = [lock EXCEPT ![sess[w]] = NoWorker]
    /\ UNCHANGED <<brokerVars, workerVars, handled, nacked>>

\* The worker's process dies and is started again.
Crash(w) ==
    /\ pc[w] # "accept"
    /\ Spend("crash")
    /\ Release(w)
    /\ got' = [got EXCEPT ![w] = <<>>]
    /\ batch' = [batch EXCEPT ![w] = {}]
    /\ UNCHANGED <<brokerVars, handled, nacked>>

-----------------------------------------------------------------------------

Init ==
    /\ seqno = [e \in Events |-> 0]
    /\ active = {}
    /\ lock = [s \in Sessions |-> NoWorker]
    /\ pc = [w \in Workers |-> "accept"]
    /\ sess = [w \in Workers |-> NoSession]
    /\ batch = [w \in Workers |-> {}]
    /\ got = [w \in Workers |-> <<>>]
    /\ first = [w \in Workers |-> FALSE]
    /\ handled = [s \in Sessions |-> <<>>]
    /\ nacked = {}
    /\ spent = [k \in FaultKinds |-> 0]

Publish(e) ==
    /\ Enqueue(e)
    /\ UNCHANGED <<lock, workerVars, handled, nacked, spent>>

Step(w) ==
    \/ Accept(w) \/ Receive(w) \/ ReceiveEmpty(w) \/ FinalReceive(w)
    \/ FinalEmpty(w) \/ Complete(w) \/ Handle(w)

Fault(w) ==
    \/ ReceiveError(w) \/ Abandon(w) \/ SettleError(w)
    \/ LockExpire(w) \/ Crash(w)

ConsumerNext == \E w \in Workers : Step(w) \/ Fault(w)

Next == (\E e \in Events : Publish(e)) \/ ConsumerNext

Spec == Init /\ [][Next]_vars

\* Without its lock a receive or a settlement is bound to fail.
Doomed(w) == (ReceiveError(w) \/ SettleError(w)) /\ ~Holds(w)

\* A replica keeps running: none of its enabled steps waits forever, and a call
\* that is bound to fail comes back too.
WorkerFairness(w) == WF_vars(Step(w)) /\ WF_vars(Doomed(w))

FairSpec == Spec /\ \A w \in Workers : WorkerFairness(w)

-----------------------------------------------------------------------------
(* Properties *)

\* The values of the variables, and what a worker's position says of them.
TypeOK ==
    /\ seqno \in [Events -> Nat]
    /\ active \subseteq Accepted
    /\ lock \in [Sessions -> Workers \cup {NoWorker}]
    /\ pc \in [Workers -> {"accept", "collect", "settle", "final", "handle"}]
    /\ sess \in [Workers -> Sessions \cup {NoSession}]
    /\ batch \in [Workers -> SUBSET Events]
    /\ got \in [Workers -> Seq(Events)]
    /\ first \in [Workers -> BOOLEAN]
    /\ handled \in [Sessions -> Seq(Events)]
    /\ nacked \subseteq Events
    /\ spent \in [FaultKinds -> Nat]

Carried(e) == \E w \in Workers : e \in Range(got[w])
HandledOnce(e) == e \in Range(handled[SessionOf[e]])

\* An accepted event that is nowhere any more and was never handled.
Vanished == {e \in Accepted : ~(e \in active \/ Carried(e) \/ HandledOnce(e))}

\* Although messages are acknowledged before they are handled, an event the
\* broker accepted is dropped only when a worker crashes: whatever calls to the
\* broker fail and whatever locks run out, it is queued, carried or handled.
OnlyACrashLosesEvents == spent["crash"] = 0 => Vanished = {}

\* Two workers are inside the same session only after a lock ran out: without
\* that, a user never has two agent turns running on the same channel.
SessionsAreSerial ==
    spent["expiry"] = 0 =>
        \A v, w \in Workers :
            v # w /\ pc[v] # "accept" /\ pc[w] # "accept" => sess[v] # sess[w]

\* Unless a lock ran out, the events of a session are first handled in the
\* order in which the broker accepted them, whatever was redelivered.
FirstHandledInOrder ==
    spent["expiry"] = 0 =>
        \A s \in Sessions : \A j \in DOMAIN handled[s] :
            (\A i \in 1..(j - 1) : handled[s][i] # handled[s][j]) =>
                \A i \in 1..(j - 1) : seqno[handled[s][i]] < seqno[handled[s][j]]

\* An event whose acknowledgement never failed is handled at most once, also
\* when locks run out or workers crash while it is in flight.
AtMostOnceUnlessNacked ==
    \A s \in Sessions : \A i, j \in DOMAIN handled[s] :
        i # j /\ handled[s][i] = handled[s][j] => handled[s][i] \in nacked

\* A group mixes no sessions: the combined chat event, which takes its user and
\* conversation from the first message, never speaks for another user's message.
GroupsStayInTheirSession ==
    \A w \in Workers : \A e \in Range(got[w]) : SessionOf[e] = sess[w]

\* What ties a worker to its session, its lock and its messages.
WorkersOK == \A w \in Workers :
    /\ pc[w] = "accept" => sess[w] = NoSession /\ got[w] = <<>>
    /\ pc[w] # "accept" => sess[w] \in Sessions
    /\ pc[w] = "handle" => got[w] # <<>>
    /\ pc[w] \in {"accept", "handle"} => batch[w] = {}
    /\ \A e \in batch[w] : SessionOf[e] = sess[w]
LocksOK ==
    /\ \A s \in Sessions, w \in Workers : lock[s] = w => sess[w] = s
    /\ spent["expiry"] = 0 => \A w \in Workers : pc[w] # "accept" => Holds(w)

\* The inductive invariant of the proofs: a session cannot change hands under a
\* worker, and every message a worker carries is one of its session.
IndInv ==
    /\ TypeOK
    /\ WorkersOK
    /\ LocksOK
    /\ GroupsStayInTheirSession
    /\ OnlyACrashLosesEvents

\* A worker that lost its lock may still have received what another one
\* completed and took down with it: such an event can yet come back.
Lost == {e \in Vanished : \A w \in Workers : e \notin batch[w]}

\* The queue implements EventDelivery: seen from outside, an accepted event is
\* pending until it is handled or goes down with a crashed worker, and whatever
\* is redelivered, neither is ever undone.
Delivery == INSTANCE EventDelivery WITH
    pending <- {e \in Accepted : ~HandledOnce(e)} \ Lost,
    delivered <- {e \in Events : HandledOnce(e)},
    lost <- Lost
ImplementsDelivery == Delivery!Spec

\* Every accepted event is eventually handled, or lost to a crash.
EventuallyHandled == \A e \in Events : e \in Accepted ~> HandledOnce(e) \/ e \in Lost

=============================================================================
