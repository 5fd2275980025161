-------------------------- MODULE SchedulingProofs --------------------------
(***************************************************************************)
(* Proofs about Scheduling, for every set of tasks, every finite set of    *)
(* workers, every period and every number of faults and edits.  ChainInv   *)
(* is inductive: the links of a chain are counted by Waiting and Linking,  *)
(* and each action moves, adds or removes at most one of them.             *)
(***************************************************************************)
EXTENDS Scheduling, FiniteSetTheorems, TLAPS

-----------------------------------------------------------------------------
(* Counting *)

\* The links and the verified events of a task are finite sets.
LEMMA Finite ==
    ASSUME EventsOK, NEW t
    PROVE  /\ IsFiniteSet(Waiting(t)) /\ Cardinality(Waiting(t)) \in Nat
           /\ IsFiniteSet(Linking(t)) /\ Cardinality(Linking(t)) \in Nat
           /\ IsFiniteSet(Verified(t)) /\ Cardinality(Verified(t)) \in Nat
<1>1. IsFiniteSet(queue \cup parked)
  BY FS_Union DEF EventsOK
<1>2. IsFiniteSet(Waiting(t))
  BY <1>1, FS_Subset DEF Waiting
<1>3. IsFiniteSet(Linking(t))
  BY WorkerAssumption, FS_Subset DEF Linking
<1>4. IsFiniteSet(Verified(t))
  BY WorkerAssumption, FS_Subset DEF Verified
<1> QED
  BY <1>2, <1>3, <1>4, FS_CardinalityType

\* Adding an element adds at most one, removing a member takes one away, and a
\* subset has no more elements.
LEMMA CountAdd ==
    ASSUME NEW S, IsFiniteSet(S), NEW x
    PROVE  /\ Cardinality(S \cup {x}) \in Nat
           /\ Cardinality(S \cup {x}) <= Cardinality(S) + 1
<1>1. IsFiniteSet(S \cup {x}) /\ Cardinality(S) \in Nat
  BY FS_AddElement, FS_CardinalityType
<1>2. \/ Cardinality(S \cup {x}) = Cardinality(S)
      \/ Cardinality(S \cup {x}) = Cardinality(S) + 1
  BY FS_AddElement
<1> QED
  BY <1>1, <1>2

LEMMA CountRemove ==
    ASSUME NEW S, IsFiniteSet(S), NEW x \in S
    PROVE  /\ Cardinality(S \ {x}) \in Nat
           /\ Cardinality(S \ {x}) + 1 = Cardinality(S)
<1>1. IsFiniteSet(S \ {x}) /\ Cardinality(S \ {x}) = Cardinality(S) - 1
  BY FS_RemoveElement
<1> QED
  BY <1>1, FS_CardinalityType

LEMMA CountSubset ==
    ASSUME NEW S, IsFiniteSet(S), NEW T, T \subseteq S
    PROVE  /\ IsFiniteSet(T) /\ Cardinality(T) \in Nat
           /\ Cardinality(T) <= Cardinality(S)
BY FS_Subset, FS_CardinalityType

\* A cron expression fires at a time.
LEMMA CronIsTime == ASSUME NEW t \in Nat PROVE CronAfter(t) \in Nat
<1>1. t \div Period \in Nat
  BY TimeAssumption
<1>2. \A m, n \in Nat : (m + 1) * n \in Nat
  OBVIOUS
<1> QED
  BY <1>1, <1>2, TimeAssumption DEF CronAfter

\* A function changed at a point within its range keeps its type.
LEMMA Changed ==
    ASSUME NEW S, NEW T, NEW f \in [S -> T], NEW x, NEW y \in T
    PROVE  [f EXCEPT ![x] = y] \in [S -> T]
OBVIOUS

\* A function of which one value grows.
LEMMA Incremented ==
    ASSUME NEW S, NEW f \in [S -> Nat], NEW x
    PROVE  /\ [f EXCEPT ![x] = f[x] + 1] \in [S -> Nat]
           /\ \A y \in S : [f EXCEPT ![x] = f[x] + 1][y] = f[y] + (IF y = x THEN 1 ELSE 0)
<1> DEFINE g == [f EXCEPT ![x] = f[x] + 1]
<1>1. \A y \in S : g[y] = IF y = x THEN f[x] + 1 ELSE f[y]
  OBVIOUS
<1>2. g = [y \in S |-> g[y]]
  OBVIOUS
<1>3. \A y \in S : f[y] \in Nat /\ g[y] = f[y] + (IF y = x THEN 1 ELSE 0)
  BY <1>1
<1> HIDE DEF g
<1>4. g \in [S -> Nat]
  BY <1>2, <1>3
<1> QED
  BY <1>3, <1>4 DEF g

-----------------------------------------------------------------------------

LEMMA ChainInit == Init => ChainInv
<1> SUFFICES ASSUME Init PROVE ChainInv
  OBVIOUS
<1>1. TypeOK
  <2>1. now \in 0..Horizon /\ nextId \in Nat
    BY TimeAssumption DEF Init
  <2>8. overCap \in BOOLEAN
    BY Zenon DEF Init
  <2>7. active \in [Tasks -> BOOLEAN]
    <3>1. active = [t \in Tasks |-> FALSE]
      BY Zenon DEF Init
    <3> QED
      BY <3>1, Zenon
  <2>2. /\ made \in [Tasks -> {"no", "record", "yes"}]
        /\ next \in [Tasks -> Nat] /\ command \in [Tasks -> Nat] /\ asked \in [Tasks -> Nat]
        /\ dups \in [Tasks -> Nat] /\ late \in [Tasks -> Nat] /\ inFlight \in [Tasks -> Nat]
    BY DEF Init
  <2>3. pc \in [Workers -> {"idle", "verify", "load", "save", "publish", "run"}]
    BY DEF Init
  <2>5. ev \in [Workers -> TaskEvents \cup {None}]
    BY DEF Init
  <2>6. plan \in [Workers -> [slot : Nat, cmd : Nat] \cup {None}]
    BY DEF Init
  <2>4. /\ queue \subseteq TaskEvents /\ parked \subseteq TaskEvents
        /\ cut \subseteq Tasks /\ cancelled \subseteq Tasks
    BY DEF Init
  <2> QED
    BY <2>1, <2>2, <2>3, <2>4, <2>5, <2>6, <2>7, <2>8 DEF TypeOK
<1>2. EventsOK
  BY FS_EmptySet DEF Init, EventsOK
<1>3. \A t \in Tasks : Waiting(t) = {} /\ Linking(t) = {}
  BY DEF Init, Waiting, Linking
<1>4. StepsOK /\ ChainSurvives
  BY <1>3, TasksAssumption DEF Init, StepsOK, ChainSurvives
<1>5. CancelOK
  <2>1. cancelled = {} /\ \A t \in Tasks : late[t] = 0
    BY DEF Init
  <2> QED
    BY <2>1 DEF CancelOK
<1>6. ChainsAreNotForked
  <2>1. \A t \in Tasks : dups[t] = 0
    BY DEF Init
  <2>2. Cardinality({}) = 0
    BY FS_EmptySet
  <2>3. \A t \in Tasks : Cardinality(Waiting(t)) = 0 /\ Cardinality(Linking(t)) = 0
    BY <1>3, <2>2
  <2> QED
    BY <2>1, <2>3 DEF ChainsAreNotForked
<1> QED
  BY <1>1, <1>2, <1>4, <1>5, <1>6 DEF ChainInv

-----------------------------------------------------------------------------
(* What the parts of a step do to the links *)

\* A worker that moves joins or leaves the links, and the verified events, of a
\* task; the other workers stay where they are.
LEMMA WorkerMoves ==
    ASSUME NEW w \in Workers,
           \A v \in Workers \ {w} : pc'[v] = pc[v] /\ ev'[v] = ev[v]
    PROVE  \A t :
           /\ Linking(t)' = IF ev'[w] # None /\ ev'[w].task = t /\ pc'[w] \notin {"idle", "run"}
                              THEN Linking(t) \cup {w} ELSE Linking(t) \ {w}
           /\ Verified(t)' = IF ev'[w] # None /\ ev'[w].task = t /\ pc'[w] \notin {"idle", "verify"}
                              THEN Verified(t) \cup {w} ELSE Verified(t) \ {w}
BY DEF Linking, Verified

\* An event of a task is one of its kind.
LEMMA EventIsTyped ==
    ASSUME TypeOK, NEW t \in Tasks, NEW slot \in Nat, NEW cmd \in Nat
    PROVE  /\ Event(t, slot, cmd) \in TaskEvents
           /\ Event(t, slot, cmd).id = nextId /\ Event(t, slot, cmd).task = t
           /\ Event(t, slot, cmd).slot = slot
BY DEF TypeOK, Event, TaskEvents

\* Publishing adds an event with a new number to one of the queues.
LEMMA PublishAdds ==
    ASSUME TypeOK, EventsOK, NEW e \in TaskEvents, e.id = nextId, Publish(e)
    PROVE  /\ EventsOK'
           /\ queue' \subseteq TaskEvents /\ parked' \subseteq TaskEvents /\ nextId' \in Nat
           /\ \A u \in Tasks : Waiting(u)' = IF u = e.task THEN Waiting(u) \cup {e} ELSE Waiting(u)
<1>1. nextId \in Nat /\ nextId' = nextId + 1 /\ queue \subseteq TaskEvents /\ parked \subseteq TaskEvents
  BY DEF TypeOK, Publish
<1>2. \/ parked' = parked \cup {e} /\ queue' = queue
      \/ queue' = queue \cup {e} /\ parked' = parked
  BY DEF Publish
<1>3. \A f \in queue \cup parked : f.id \in Nat /\ f.id < nextId
  BY <1>1 DEF EventsOK, TaskEvents
<1>4. e \notin queue \cup parked
  BY <1>1, <1>3
<1>5. queue' \cap parked' = {}
  BY <1>2, <1>4 DEF EventsOK
<1>6. IsFiniteSet(queue') /\ IsFiniteSet(parked')
  BY <1>2, FS_AddElement DEF EventsOK
<1>7. \A f \in queue' \cup parked' : f.id < nextId'
  BY <1>1, <1>2, <1>3
<1>8. queue' \cup parked' = (queue \cup parked) \cup {e}
  BY <1>2
<1>9. \A u \in Tasks : Waiting(u)' = IF u = e.task THEN Waiting(u) \cup {e} ELSE Waiting(u)
  BY <1>8 DEF Waiting
<1> QED
  BY <1>1, <1>2, <1>5, <1>6, <1>7, <1>9 DEF EventsOK

-----------------------------------------------------------------------------
(* The steps of the user and of time *)

\* Time, access and updates touch no link.
LEMMA QuietKeeps ==
    ASSUME ChainInv, Tick \/ AccessChange \/ (\E t \in Tasks : Update(t))
    PROVE  ChainInv'
<1> USE DEF ChainInv, taskVars, queueVars, workerVars, historyVars
<1>1. UNCHANGED <<active, made, queue, parked, nextId, pc, ev, plan, cut, cancelled, dups, late, inFlight>>
  BY DEF Tick, AccessChange, Update
<1>2. TypeOK'
  <2>1. CASE Tick
    <3>1. now' \in 0..Horizon /\ UNCHANGED <<next, command, asked>> /\ overCap' = overCap
      BY <2>1, TimeAssumption DEF Tick, TypeOK
    <3> QED
      BY <1>1, <3>1 DEF TypeOK
  <2>2. CASE AccessChange
    <3>1. UNCHANGED <<now, next, command, asked>> /\ overCap' \in BOOLEAN
      BY <2>2 DEF AccessChange
    <3> QED
      BY <1>1, <3>1 DEF TypeOK
  <2>3. ASSUME NEW t \in Tasks, Update(t) PROVE TypeOK'
    <3>1. UNCHANGED <<now, next>> /\ overCap' = overCap
      BY <2>3 DEF Update
    <3>2. command' \in [Tasks -> Nat] /\ asked' \in [Tasks -> Nat]
      BY <2>3, TimeAssumption DEF Update, TypeOK
    <3> QED
      BY <1>1, <3>1, <3>2 DEF TypeOK
  <2> QED
    BY <2>1, <2>2, <2>3
<1>3. \A u : Waiting(u)' = Waiting(u) /\ Linking(u)' = Linking(u) /\ Verified(u)' = Verified(u)
  BY <1>1 DEF Waiting, Linking, Verified
<1> QED
  BY <1>1, <1>2, <1>3 DEF EventsOK, StepsOK, CancelOK, ChainsAreNotForked, ChainSurvives

\* A record without an event is not a chain yet.
LEMMA CreateRecordKeeps ==
    ASSUME ChainInv, NEW t \in Tasks, CreateRecord(t)
    PROVE  ChainInv'
<1> USE DEF ChainInv, taskVars, queueVars, workerVars, historyVars
<1>1. /\ made[t] = "no" /\ made' = [made EXCEPT ![t] = "record"]
      /\ active' = [active EXCEPT ![t] = TRUE]
      /\ UNCHANGED <<now, command, queue, parked, nextId, pc, ev, plan,
                     cut, cancelled, dups, late, inFlight>>
      /\ overCap' = overCap
  BY DEF CreateRecord
<1>2. FirstSlot(t) \in Nat /\ StartOf[t] \in Nat
  BY CronIsTime, TasksAssumption, TimeAssumption DEF FirstSlot, TypeOK
<1>3. TypeOK'
  <2>1. active' \in [Tasks -> BOOLEAN]
    BY <1>1, Changed DEF TypeOK
  <2>2. next' \in [Tasks -> Nat] /\ asked' \in [Tasks -> Nat]
    BY <1>2 DEF CreateRecord, TypeOK
  <2>3. made' \in [Tasks -> {"no", "record", "yes"}]
    BY <1>1 DEF TypeOK
  <2> QED
    BY <1>1, <2>1, <2>2, <2>3 DEF TypeOK
<1>4. \A u : Waiting(u)' = Waiting(u) /\ Linking(u)' = Linking(u) /\ Verified(u)' = Verified(u)
  BY <1>1 DEF Waiting, Linking, Verified
<1>5. made'[t] = "record" /\ t \notin cancelled
      /\ \A u \in Tasks \ {t} : made'[u] = made[u] /\ active'[u] = active[u]
  BY <1>1 DEF TypeOK, CancelOK
<1>6. EventsOK' /\ ChainsAreNotForked'
  BY <1>1, <1>4 DEF EventsOK, ChainsAreNotForked
<1>7. StepsOK'
  BY <1>1, <1>4, <1>5 DEF StepsOK
<1>8. CancelOK'
  BY <1>1, <1>4, <1>5 DEF CancelOK, TypeOK
<1>9. ChainSurvives'
  BY <1>1, <1>4, <1>5, TasksAssumption DEF ChainSurvives
<1> QED
  BY <1>3, <1>6, <1>7, <1>8, <1>9

\* The first event makes a chain of one link.
LEMMA CreateEventKeeps ==
    ASSUME ChainInv, NEW t \in Tasks, CreateEvent(t)
    PROVE  ChainInv'
<1> USE DEF ChainInv, taskVars, queueVars, workerVars, historyVars
<1> DEFINE e == Event(t, next[t], 0)
<1>1. /\ made[t] = "record" /\ made' = [made EXCEPT ![t] = "yes"] /\ Publish(e)
      /\ active' = active
      /\ UNCHANGED <<now, next, command, asked, pc, ev, plan, cut, cancelled, dups, late, inFlight>>
  BY DEF CreateEvent
<1>2. e \in TaskEvents /\ e.id = nextId /\ e.task = t
  BY EventIsTyped DEF TypeOK
<1> HIDE DEF e
<1>3. /\ EventsOK'
      /\ queue' \subseteq TaskEvents /\ parked' \subseteq TaskEvents /\ nextId' \in Nat
      /\ \A u \in Tasks : Waiting(u)' = IF u = t THEN Waiting(u) \cup {e} ELSE Waiting(u)
  BY <1>1, <1>2, PublishAdds
<1>4. TypeOK'
  <2>1. overCap' = overCap /\ made' \in [Tasks -> {"no", "record", "yes"}]
    BY <1>1 DEF Publish, TypeOK
  <2> QED
    BY <1>1, <1>3, <2>1 DEF TypeOK
<1>5. \A u : Linking(u)' = Linking(u) /\ Verified(u)' = Verified(u)
  BY <1>1 DEF Linking, Verified
<1>6. Waiting(t) = {} /\ Linking(t) = {} /\ made'[t] = "yes" /\ t \notin cancelled
      /\ \A u \in Tasks \ {t} : made'[u] = made[u]
  BY <1>1 DEF StepsOK, CancelOK, TypeOK
<1>7. ChainsAreNotForked'
  <2>2. Waiting(t)' = {} \cup {e} /\ Linking(t)' = {}
    BY <1>3, <1>5, <1>6
  <2>3. IsFiniteSet({}) /\ Cardinality({}) = 0
    BY FS_EmptySet
  <2>4. Cardinality({} \cup {e}) \in Nat /\ Cardinality({} \cup {e}) <= 1
    <3> HIDE DEF ChainInv
    <3>1. Cardinality({} \cup {e}) \in Nat /\ Cardinality({} \cup {e}) <= Cardinality({}) + 1
      BY <2>3, CountAdd
    <3> QED
      BY <2>3, <3>1
  <2>1. Cardinality(Waiting(t)') <= 1 /\ Cardinality(Waiting(t)') \in Nat /\ Cardinality(Linking(t)') = 0
    BY <2>2, <2>3, <2>4
  <2> QED
    BY <1>1, <1>3, <1>5, <2>1 DEF ChainsAreNotForked, TypeOK
<1>8. StepsOK' /\ CancelOK'
  BY <1>1, <1>3, <1>5, <1>6 DEF StepsOK, CancelOK, TypeOK
<1>9. ChainSurvives'
  BY <1>1, <1>3, <1>5, <1>6, TasksAssumption DEF ChainSurvives
<1> QED
  BY <1>3, <1>4, <1>7, <1>8, <1>9

\* A failed send is what cut records.
LEMMA CreateEventFailsKeeps ==
    ASSUME ChainInv, NEW t \in Tasks, CreateEventFails(t)
    PROVE  ChainInv'
<1> USE DEF ChainInv, taskVars, queueVars, workerVars, historyVars
<1>1. /\ made[t] = "record" /\ made' = [made EXCEPT ![t] = "yes"] /\ cut' = cut \cup {t}
      /\ active' = active /\ overCap' = overCap
      /\ UNCHANGED <<now, next, command, asked, queue, parked, nextId, pc, ev, plan,
                     cancelled, dups, late, inFlight>>
  BY DEF CreateEventFails
<1>2. TypeOK'
  BY <1>1 DEF TypeOK
<1>3. \A u : Waiting(u)' = Waiting(u) /\ Linking(u)' = Linking(u) /\ Verified(u)' = Verified(u)
  BY <1>1 DEF Waiting, Linking, Verified
<1>4. made'[t] = "yes" /\ t \notin cancelled /\ \A u \in Tasks \ {t} : made'[u] = made[u]
  BY <1>1 DEF CancelOK, TypeOK
<1> QED
  BY <1>1, <1>2, <1>3, <1>4, TasksAssumption
  DEF EventsOK, StepsOK, CancelOK, ChainsAreNotForked, ChainSurvives, TypeOK

\* Cancelling counts what has passed the check; nothing else passes it any more.
LEMMA CancelKeeps ==
    ASSUME ChainInv, NEW t \in Tasks, Cancel(t)
    PROVE  ChainInv'
<1> USE DEF ChainInv, taskVars, queueVars, workerVars, historyVars
<1>1. /\ made[t] = "yes" /\ t \notin cancelled /\ cancelled' = cancelled \cup {t}
      /\ active' = [active EXCEPT ![t] = FALSE]
      /\ inFlight' = [inFlight EXCEPT ![t] = Cardinality(Verified(t))]
      /\ overCap' = overCap
      /\ UNCHANGED <<now, next, command, asked, made, queue, parked, nextId, pc, ev, plan,
                     cut, dups, late>>
  BY DEF Cancel
<1>2. Cardinality(Verified(t)) \in Nat
  BY Finite
<1>3. TypeOK'
  <2>1. active' \in [Tasks -> BOOLEAN]
    BY <1>1, Changed DEF TypeOK
  <2>2. inFlight' \in [Tasks -> Nat]
    BY <1>1, <1>2 DEF TypeOK
  <2> QED
    BY <1>1, <2>1, <2>2 DEF TypeOK
<1>4. \A u : Waiting(u)' = Waiting(u) /\ Linking(u)' = Linking(u) /\ Verified(u)' = Verified(u)
  BY <1>1 DEF Waiting, Linking, Verified
<1>5. /\ ~active'[t] /\ inFlight'[t] = Cardinality(Verified(t)) /\ late[t] = 0
      /\ \A u \in Tasks \ {t} : active'[u] = active[u] /\ inFlight'[u] = inFlight[u]
  BY <1>1 DEF TypeOK, CancelOK
<1>6. EventsOK' /\ StepsOK' /\ ChainsAreNotForked'
  BY <1>1, <1>4 DEF EventsOK, StepsOK, ChainsAreNotForked
<1>7. CancelOK'
  <2>1. \A u \in cancelled' :
          /\ made'[u] = "yes" /\ ~active'[u]
          /\ late'[u] + Cardinality(Verified(u)') <= inFlight'[u]
    BY <1>1, <1>2, <1>4, <1>5 DEF CancelOK, TypeOK
  <2>2. \A u \in Tasks \ cancelled' : late'[u] = 0
    BY <1>1 DEF CancelOK
  <2> QED
    BY <2>1, <2>2, <1>4 DEF CancelOK
<1>8. ChainSurvives'
  BY <1>1, <1>4, <1>5, TasksAssumption DEF ChainSurvives
<1> QED
  BY <1>3, <1>6, <1>7, <1>8
-----------------------------------------------------------------------------
(* The steps of a worker *)

\* The queue hands over an event: a link that waited is now being processed.
LEMMA DeliverKeeps ==
    ASSUME ChainInv, NEW w \in Workers, NEW e \in queue, Deliver(w, e)
    PROVE  ChainInv'
<1> USE DEF ChainInv, taskVars, queueVars, workerVars, historyVars
<1> DEFINE t == e.task
<1>1. /\ pc[w] = "idle" /\ pc' = [pc EXCEPT ![w] = "verify"] /\ ev' = [ev EXCEPT ![w] = e]
      /\ \/ queue' = queue \ {e} /\ dups' = dups
         \/ queue' = queue /\ dups' = [dups EXCEPT ![t] = @ + 1]
      /\ active' = active /\ overCap' = overCap
      /\ UNCHANGED <<now, next, command, asked, made, parked, nextId, plan,
                     cut, cancelled, late, inFlight>>
  BY DEF Deliver
<1>2. e \in TaskEvents /\ t \in Tasks /\ e # None
  BY WorkerAssumption DEF TypeOK, TaskEvents
<1>3. TypeOK'
  <2>1. queue' \subseteq TaskEvents /\ dups' \in [Tasks -> Nat]
    BY <1>1, <1>2 DEF TypeOK
  <2>2. pc' \in [Workers -> {"idle", "verify", "load", "save", "publish", "run"}]
    BY <1>1 DEF TypeOK
  <2>3. ev' \in [Workers -> TaskEvents \cup {None}]
    BY <1>1, <1>2 DEF TypeOK
  <2> QED
    BY <1>1, <2>1, <2>2, <2>3 DEF TypeOK
<1>4. /\ pc'[w] = "verify" /\ ev'[w] = e
      /\ \A v \in Workers \ {w} : pc'[v] = pc[v] /\ ev'[v] = ev[v]
  BY <1>1 DEF TypeOK
<1>5. \A u : w \notin Linking(u) /\ w \notin Verified(u)
  BY <1>1 DEF Linking, Verified
<1>6. /\ Linking(t)' = Linking(t) \cup {w}
      /\ \A u : (u # t => Linking(u)' = Linking(u)) /\ Verified(u)' = Verified(u)
  BY <1>2, <1>4, <1>5, WorkerMoves
<1>7. e \in Waiting(t)
  BY DEF Waiting
<1>8. /\ \A u : u # t => Waiting(u)' = Waiting(u)
      /\ Waiting(t)' = IF queue' = queue THEN Waiting(t) ELSE Waiting(t) \ {e}
  BY <1>1 DEF Waiting, EventsOK
<1>9. EventsOK'
  BY <1>1, FS_Subset DEF EventsOK
<1>10. StepsOK'
  <2>1. made[t] = "yes"
    BY <1>2, <1>7 DEF StepsOK
  <2> QED
    BY <1>1, <1>2, <1>4, <1>6, <1>8, <2>1 DEF StepsOK
<1>11. CancelOK'
  BY <1>1, <1>6 DEF CancelOK
<1>12. ChainsAreNotForked'
  <2>1. /\ Cardinality(Linking(t)') \in Nat
        /\ Cardinality(Linking(t)') <= Cardinality(Linking(t)) + 1
    BY <1>6, Finite, CountAdd
  <2>2. /\ Cardinality(Waiting(t) \ {e}) \in Nat
        /\ Cardinality(Waiting(t) \ {e}) + 1 = Cardinality(Waiting(t))
    BY <1>7, Finite, CountRemove
  <2>3. Cardinality(Waiting(t)) + Cardinality(Linking(t)) <= 1 + dups[t]
        /\ Cardinality(Waiting(t)) \in Nat /\ Cardinality(Linking(t)) \in Nat /\ dups[t] \in Nat
    BY <1>2, Finite DEF ChainsAreNotForked, TypeOK
  <2>4. Cardinality(Waiting(t)') + Cardinality(Linking(t)') <= 1 + dups'[t]
    <3>1. CASE queue' = queue \ {e} /\ dups' = dups
      <4>1. Waiting(t)' = Waiting(t) \ {e}
        BY <1>8, <3>1
      <4> QED
        BY <2>1, <2>2, <2>3, <3>1, <4>1
    <3>2. CASE queue' = queue /\ dups' = [dups EXCEPT ![t] = @ + 1]
      <4>1. Waiting(t)' = Waiting(t) /\ dups'[t] = dups[t] + 1
        BY <1>2, <1>8, <3>2 DEF TypeOK
      <4> QED
        BY <2>1, <2>3, <4>1
    <3> QED
      BY <1>1, <3>1, <3>2
  <2>5. \A u \in Tasks \ {t} : dups'[u] = dups[u]
    BY <1>1 DEF TypeOK
  <2> QED
    BY <1>6, <1>8, <2>4, <2>5 DEF ChainsAreNotForked
<1>13. ChainSurvives'
  BY <1>1, <1>6, <1>8 DEF ChainSurvives
<1> QED
  BY <1>3, <1>9, <1>10, <1>11, <1>12, <1>13

\* A step that leaves the events and the records alone, and takes no link from
\* the chain of an active task without cutting it, keeps the chains.
LEMMA FewerLinks ==
    ASSUME ChainInv, TypeOK',
           UNCHANGED <<queue, parked, nextId, dups, made>>, cut \subseteq cut',
           active' = active,
           \A u : Linking(u)' \subseteq Linking(u),
           \A u \in Recurring : active[u] /\ u \notin cut' => Linking(u)' = Linking(u),
           \A v \in Workers :
                /\ pc'[v] # "idle" => ev'[v] # None
                /\ pc'[v] \in {"save", "publish"} => plan'[v] # None
    PROVE  EventsOK' /\ StepsOK' /\ ChainsAreNotForked' /\ ChainSurvives'
<1> USE DEF ChainInv
<1>1. \A u : Waiting(u)' = Waiting(u)
  BY DEF Waiting
<1>2. EventsOK'
  BY DEF EventsOK
<1>3. StepsOK'
  BY <1>1 DEF StepsOK
<1>4. ChainsAreNotForked'
  <2>1. \A u \in Tasks :
          /\ Cardinality(Linking(u)') \in Nat /\ Cardinality(Linking(u)') <= Cardinality(Linking(u))
          /\ Cardinality(Linking(u)) \in Nat /\ Cardinality(Waiting(u)) \in Nat
    BY Finite, CountSubset
  <2> QED
    BY <1>1, <2>1 DEF ChainsAreNotForked, TypeOK
<1>5. ChainSurvives'
  BY <1>1 DEF ChainSurvives
<1> QED
  BY <1>2, <1>3, <1>4, <1>5

\* No event of a cancelled task passes the check: what has passed does not grow.
LEMMA FewerVerified ==
    ASSUME ChainInv, UNCHANGED <<made, cancelled, late, inFlight>>, active' = active,
           \A u \in cancelled : Verified(u)' \subseteq Verified(u)
    PROVE  CancelOK'
<1> USE DEF ChainInv
<1>1. \A u \in cancelled :
        /\ Cardinality(Verified(u)') \in Nat /\ Cardinality(Verified(u)') <= Cardinality(Verified(u))
        /\ Cardinality(Verified(u)) \in Nat
  BY Finite, CountSubset
<1> QED
  BY <1>1 DEF CancelOK, TypeOK

\* Only the event of an active task becomes a verified one.
LEMMA VerifyKeeps ==
    ASSUME ChainInv, NEW w \in Workers, Verify(w)
    PROVE  ChainInv'
<1> USE DEF ChainInv, taskVars, queueVars, workerVars, historyVars
<1> DEFINE t == ev[w].task
<1>1. /\ pc[w] = "verify" /\ active' = active /\ overCap' = overCap
      /\ UNCHANGED <<now, next, command, asked, made, queue, parked, nextId, plan,
                     dups, cut, cancelled, late, inFlight>>
  BY DEF Verify
<1>2. ev[w] # None /\ ev[w] \in TaskEvents /\ t \in Tasks
  BY <1>1 DEF StepsOK, TypeOK, TaskEvents
<1>3. \/ /\ active[t] /\ ev' = ev
         /\ pc' = [pc EXCEPT ![w] = IF t \in Recurring THEN "load" ELSE "run"]
      \/ ~active[t] /\ ev' = [ev EXCEPT ![w] = None] /\ pc' = [pc EXCEPT ![w] = "idle"]
  BY DEF Verify, Goto, Drop
<1>4. TypeOK'
  BY <1>1, <1>3 DEF TypeOK
<1>5. \A v \in Workers \ {w} : pc'[v] = pc[v] /\ ev'[v] = ev[v]
  BY <1>3 DEF TypeOK
<1>6. /\ pc'[w] = IF active[t] THEN (IF t \in Recurring THEN "load" ELSE "run") ELSE "idle"
      /\ active[t] => ev'[w] = ev[w]
      /\ ~active[t] => ev'[w] = None
  BY <1>3 DEF TypeOK
<1>7. w \in Linking(t) /\ \A u : u # t => w \notin Linking(u) /\ w \notin Verified(u)
  BY <1>1, <1>2 DEF Linking, Verified
<1>14. ev'[w] \in {ev[w], None}
  BY <1>6
<1>8. \A u : Linking(u)' \subseteq Linking(u) /\ (u # t => Linking(u)' = Linking(u))
  <2> SUFFICES ASSUME NEW u
               PROVE  Linking(u)' \subseteq Linking(u) /\ (u # t => Linking(u)' = Linking(u))
    OBVIOUS
  <2>1. CASE u = t
    <3>1. w \in Linking(u)
      BY <1>7, <2>1
    <3> QED
      BY <1>5, <2>1, <3>1, WorkerMoves
  <2>2. CASE u # t
    <3>1. ~(ev'[w] # None /\ ev'[w].task = u)
      BY <1>14, <2>2
    <3>2. Linking(u)' = Linking(u) \ {w}
      BY <1>5, <3>1, WorkerMoves
    <3> QED
      BY <1>7, <2>2, <3>2
  <2> QED
    BY <2>1, <2>2
<1>9. \A u \in Recurring : active[u] => Linking(u)' = Linking(u)
  <2> SUFFICES ASSUME NEW u \in Recurring, active[u] PROVE Linking(u)' = Linking(u)
    OBVIOUS
  <2>1. CASE u = t
    <3>1. active[t]
      BY <2>1, Zenon
    <3>2. pc'[w] = "load" /\ ev'[w] = ev[w]
      BY <1>6, <2>1, <3>1
    <3>3. w \in Linking(u) /\ ev'[w].task = u /\ ev'[w] # None
      BY <1>2, <1>7, <2>1, <3>2
    <3>4. Linking(u)' = Linking(u) \cup {w}
      BY <1>5, <3>2, <3>3, WorkerMoves
    <3> QED
      BY <3>3, <3>4
  <2>2. CASE u # t
    BY <1>8, <2>2
  <2> QED
    BY <2>1, <2>2
<1>10. \A u \in cancelled : Verified(u)' \subseteq Verified(u)
  <2> SUFFICES ASSUME NEW u \in cancelled PROVE Verified(u)' \subseteq Verified(u)
    OBVIOUS
  <2>1. ~active[u]
    BY DEF CancelOK
  <2>2. CASE u = t
    BY <1>5, <1>6, <2>1, <2>2, WorkerMoves
  <2>3. CASE u # t
    BY <1>5, <1>6, <1>7, <2>3, WorkerMoves
  <2> QED
    BY <2>2, <2>3
<1>11. \A v \in Workers :
        /\ pc'[v] # "idle" => ev'[v] # None
        /\ pc'[v] \in {"save", "publish"} => plan'[v] # None
  BY <1>1, <1>2, <1>5, <1>6 DEF StepsOK
<1> HIDE DEF ChainInv
<1>12. EventsOK' /\ StepsOK' /\ ChainsAreNotForked' /\ ChainSurvives'
  BY <1>1, <1>4, <1>8, <1>9, <1>11, FewerLinks
<1>13. CancelOK'
  BY <1>1, <1>10, FewerVerified
<1> QED
  BY <1>4, <1>12, <1>13 DEF ChainInv

\* Computing and saving the next time keeps the link.
LEMMA LoadSaveKeeps ==
    ASSUME ChainInv, NEW w \in Workers, Load(w) \/ Save(w)
    PROVE  ChainInv'
<1> USE DEF ChainInv, taskVars, queueVars, workerVars, historyVars
<1>1. /\ active' = active /\ overCap' = overCap
      /\ UNCHANGED <<now, command, asked, made, queue, parked, nextId, ev,
                     dups, cut, cancelled, late, inFlight>>
  BY DEF Load, Save
<1>2. /\ pc[w] \in {"load", "save"}
      /\ \/ pc' = [pc EXCEPT ![w] = "save"]
         \/ pc[w] = "save" /\ pc' = [pc EXCEPT ![w] = "publish"] /\ plan' = plan
  BY DEF Load, Save, Goto
<1>3. ev[w] # None /\ ev[w].task \in Tasks
  BY <1>2 DEF StepsOK, TypeOK, TaskEvents
<1>4. /\ next' \in [Tasks -> Nat] /\ plan' \in [Workers -> [slot : Nat, cmd : Nat] \cup {None}]
      /\ \A v \in Workers \ {w} : plan'[v] = plan[v]
      /\ plan'[w] # None
  <2>1. CASE Load(w)
    <3>1. PICK skew \in 0..MaxSkew :
            /\ skew <= now
            /\ plan' = [plan EXCEPT ![w] =
                 [slot |-> CronAfter(now - skew + Delay), cmd |-> command[ev[w].task]]]
      BY <2>1 DEF Load
    <3>2. now - skew + Delay \in Nat
      BY <3>1, TimeAssumption DEF TypeOK
    <3>3. [slot |-> CronAfter(now - skew + Delay), cmd |-> command[ev[w].task]] \in [slot : Nat, cmd : Nat]
      BY <1>3, <3>2, CronIsTime DEF TypeOK
    <3>4. next' = next
      BY <2>1 DEF Load
    <3> QED
      BY <3>1, <3>3, <3>4, WorkerAssumption DEF TypeOK
  <2>2. CASE Save(w)
    <3>1. plan[w] # None /\ pc[w] = "save"
      BY <2>2 DEF StepsOK, Save
    <3>2. plan[w] \in [slot : Nat, cmd : Nat]
      BY <3>1 DEF TypeOK
    <3>3. plan[w].slot \in Nat
      BY <3>2
    <3>4. next' = [next EXCEPT ![ev[w].task] = plan[w].slot] /\ plan' = plan
      BY <2>2 DEF Save
    <3> QED
      BY <3>1, <3>3, <3>4 DEF TypeOK
  <2> QED
    BY <2>1, <2>2
<1>5. TypeOK'
  <2>1. pc' \in [Workers -> {"idle", "verify", "load", "save", "publish", "run"}]
    BY <1>2 DEF TypeOK
  <2> QED
    BY <1>1, <1>4, <2>1 DEF TypeOK
<1>6. pc'[w] \in {"save", "publish"} /\ \A v \in Workers \ {w} : pc'[v] = pc[v]
  BY <1>2 DEF TypeOK
<1>7. \A u : Linking(u)' = Linking(u) /\ Verified(u)' = Verified(u)
  BY <1>1, <1>2, <1>6 DEF Linking, Verified
<1>8. \A v \in Workers :
        /\ pc'[v] # "idle" => ev'[v] # None
        /\ pc'[v] \in {"save", "publish"} => plan'[v] # None
  BY <1>1, <1>3, <1>4, <1>6 DEF StepsOK
<1> HIDE DEF ChainInv
<1>9. EventsOK' /\ StepsOK' /\ ChainsAreNotForked' /\ ChainSurvives'
  BY <1>1, <1>5, <1>7, <1>8, FewerLinks
<1>10. CancelOK'
  BY <1>1, <1>7, FewerVerified
<1> QED
  BY <1>5, <1>9, <1>10 DEF ChainInv

\* Publishing turns the worker's link into a waiting event.
LEMMA PublishNextKeeps ==
    ASSUME ChainInv, NEW w \in Workers, PublishNext(w)
    PROVE  ChainInv'
<1> USE DEF ChainInv, taskVars, queueVars, workerVars, historyVars
<1> DEFINE t == ev[w].task
           e == Event(ev[w].task, plan[w].slot, plan[w].cmd)
<1>1. /\ pc[w] = "publish" /\ pc' = [pc EXCEPT ![w] = "run"] /\ Publish(e) /\ active' = active
      /\ UNCHANGED <<now, next, command, asked, made, ev, plan, dups, cut, cancelled, late, inFlight>>
  BY DEF PublishNext, Goto
<1>2. ev[w] # None /\ t \in Tasks /\ plan[w].slot \in Nat /\ plan[w].cmd \in Nat
  <2>1. ev[w] \in TaskEvents /\ ev[w] # None /\ plan[w] # None
    BY <1>1 DEF StepsOK, TypeOK
  <2>2. plan[w] \in [slot : Nat, cmd : Nat]
    BY <2>1 DEF TypeOK
  <2> QED
    BY <2>1, <2>2 DEF TaskEvents
<1>3. e \in TaskEvents /\ e.id = nextId /\ e.task = t
  BY <1>2, EventIsTyped
<1> HIDE DEF e
<1>4. /\ EventsOK'
      /\ queue' \subseteq TaskEvents /\ parked' \subseteq TaskEvents /\ nextId' \in Nat
      /\ \A u \in Tasks : Waiting(u)' = IF u = t THEN Waiting(u) \cup {e} ELSE Waiting(u)
  BY <1>1, <1>3, PublishAdds
<1>5. TypeOK'
  <2>1. overCap' = overCap
    BY <1>1 DEF Publish
  <2>2. pc' \in [Workers -> {"idle", "verify", "load", "save", "publish", "run"}]
    BY <1>1 DEF TypeOK
  <2> QED
    BY <1>1, <1>4, <2>1, <2>2 DEF TypeOK
<1>6. pc'[w] = "run" /\ \A v \in Workers \ {w} : pc'[v] = pc[v]
  BY <1>1 DEF TypeOK
<1>7. /\ w \in Linking(t) /\ Linking(t)' = Linking(t) \ {w}
      /\ \A u : (u # t => Linking(u)' = Linking(u)) /\ Verified(u)' = Verified(u)
  BY <1>1, <1>2, <1>6 DEF Linking, Verified
<1>8. StepsOK'
  <2>1. made[t] = "yes"
    BY <1>2, <1>7 DEF StepsOK
  <2> QED
    BY <1>1, <1>2, <1>4, <1>6, <1>7, <2>1 DEF StepsOK
<1>9. ChainsAreNotForked'
  <2>1. /\ Cardinality(Linking(t) \ {w}) \in Nat
        /\ Cardinality(Linking(t) \ {w}) + 1 = Cardinality(Linking(t))
    BY <1>7, Finite, CountRemove
  <2>2. /\ Cardinality(Waiting(t) \cup {e}) \in Nat
        /\ Cardinality(Waiting(t) \cup {e}) <= Cardinality(Waiting(t)) + 1
    BY Finite, CountAdd
  <2>3. Cardinality(Waiting(t)) + Cardinality(Linking(t)) <= 1 + dups[t]
        /\ Cardinality(Waiting(t)) \in Nat /\ Cardinality(Linking(t)) \in Nat /\ dups[t] \in Nat
    BY <1>2, Finite DEF ChainsAreNotForked, TypeOK
  <2>4. Cardinality(Waiting(t)') + Cardinality(Linking(t)') <= 1 + dups'[t]
    <3>1. Waiting(t)' = Waiting(t) \cup {e} /\ Linking(t)' = Linking(t) \ {w} /\ dups'[t] = dups[t]
      BY <1>1, <1>2, <1>4, <1>7
    <3> HIDE DEF ChainInv
    <3> QED
      BY <2>1, <2>2, <2>3, <3>1
  <2> QED
    BY <1>1, <1>4, <1>7, <2>4 DEF ChainsAreNotForked
<1>10. ChainSurvives'
  BY <1>1, <1>4, <1>7, TasksAssumption DEF ChainSurvives
<1>11. CancelOK'
  BY <1>1, <1>7 DEF CancelOK
<1> QED
  BY <1>4, <1>5, <1>8, <1>9, <1>10, <1>11

\* A failed step takes the link away and is what cut records.
LEMMA NextRunFailsKeeps ==
    ASSUME ChainInv, NEW w \in Workers, NextRunFails(w)
    PROVE  ChainInv'
<1> USE DEF ChainInv, taskVars, queueVars, workerVars, historyVars
<1> DEFINE t == ev[w].task
<1>1. /\ pc[w] \in {"load", "save", "publish"} /\ pc' = [pc EXCEPT ![w] = "run"]
      /\ cut' = cut \cup {t} /\ active' = active /\ overCap' = overCap
      /\ UNCHANGED <<now, next, command, asked, made, queue, parked, nextId, ev, plan,
                     dups, cancelled, late, inFlight>>
  BY DEF NextRunFails, Goto
<1>2. ev[w] # None /\ t \in Tasks
  BY <1>1 DEF StepsOK, TypeOK, TaskEvents
<1>3. TypeOK'
  BY <1>1, <1>2 DEF TypeOK
<1>4. pc'[w] = "run" /\ \A v \in Workers \ {w} : pc'[v] = pc[v]
  BY <1>1 DEF TypeOK
<1>5. \A u : /\ Linking(u)' \subseteq Linking(u) /\ Verified(u)' = Verified(u)
             /\ u # t => Linking(u)' = Linking(u)
  BY <1>1, <1>4 DEF Linking, Verified
<1>6. \A v \in Workers :
        /\ pc'[v] # "idle" => ev'[v] # None
        /\ pc'[v] \in {"save", "publish"} => plan'[v] # None
  BY <1>1, <1>2, <1>4 DEF StepsOK
<1>9. \A u \in Recurring : active[u] /\ u \notin cut' => Linking(u)' = Linking(u)
  BY <1>1, <1>5
<1> HIDE DEF ChainInv
<1>7. EventsOK' /\ StepsOK' /\ ChainsAreNotForked' /\ ChainSurvives'
  BY <1>1, <1>3, <1>5, <1>6, <1>9, FewerLinks
<1>8. CancelOK'
  BY <1>1, <1>5, FewerVerified
<1> QED
  BY <1>3, <1>7, <1>8 DEF ChainInv

\* A crash takes the link and the verified event of the worker away.
LEMMA CrashKeeps ==
    ASSUME ChainInv, NEW w \in Workers, Crash(w)
    PROVE  ChainInv'
<1> USE DEF ChainInv, taskVars, queueVars, workerVars, historyVars
<1> DEFINE t == ev[w].task
<1>1. /\ pc[w] # "idle" /\ pc' = [pc EXCEPT ![w] = "idle"] /\ ev' = [ev EXCEPT ![w] = None]
      /\ cut' = cut \cup {t} /\ active' = active /\ overCap' = overCap
      /\ UNCHANGED <<now, next, command, asked, made, queue, parked, nextId, plan,
                     dups, cancelled, late, inFlight>>
  BY DEF Crash, Drop, Goto
<1>2. ev[w] # None /\ t \in Tasks
  BY <1>1 DEF StepsOK, TypeOK, TaskEvents
<1>3. TypeOK'
  BY <1>1, <1>2 DEF TypeOK
<1>4. /\ pc'[w] = "idle" /\ ev'[w] = None
      /\ \A v \in Workers \ {w} : pc'[v] = pc[v] /\ ev'[v] = ev[v]
  BY <1>1 DEF TypeOK
<1>5. \A u : /\ Linking(u)' \subseteq Linking(u) /\ Verified(u)' \subseteq Verified(u)
             /\ u # t => Linking(u)' = Linking(u)
  BY <1>4 DEF Linking, Verified
<1>6. \A v \in Workers :
        /\ pc'[v] # "idle" => ev'[v] # None
        /\ pc'[v] \in {"save", "publish"} => plan'[v] # None
  BY <1>1, <1>4 DEF StepsOK
<1>9. \A u \in Recurring : active[u] /\ u \notin cut' => Linking(u)' = Linking(u)
  BY <1>1, <1>5
<1> HIDE DEF ChainInv
<1>7. EventsOK' /\ StepsOK' /\ ChainsAreNotForked' /\ ChainSurvives'
  BY <1>1, <1>3, <1>5, <1>6, <1>9, FewerLinks
<1>8. CancelOK'
  BY <1>1, <1>5, FewerVerified
<1> QED
  BY <1>3, <1>7, <1>8 DEF ChainInv

\* A run uses up a verified event: what is counted as late was in flight.
LEMMA RunKeeps ==
    ASSUME ChainInv, NEW w \in Workers, Run(w)
    PROVE  ChainInv'
<1> USE DEF ChainInv, taskVars, queueVars, workerVars, historyVars
<1>0. pc[w] = "run" /\ ev[w] # None /\ ev[w].task \in Tasks
  BY DEF Run, StepsOK, TypeOK, TaskEvents
<1>10. PICK t \in Tasks : t = ev[w].task
  BY <1>0
<1>1. /\ pc[w] = "run" /\ pc' = [pc EXCEPT ![w] = "idle"] /\ ev' = [ev EXCEPT ![w] = None]
      /\ late' = IF t \in cancelled THEN [late EXCEPT ![t] = @ + 1] ELSE late
      /\ active' = active /\ overCap' = overCap
      /\ UNCHANGED <<now, next, command, asked, made, queue, parked, nextId, plan,
                     dups, cut, cancelled, inFlight>>
  BY <1>10 DEF Run, Drop, Goto
<1>2. ev[w] # None /\ t \in Tasks
  BY <1>0
<1>3. TypeOK'
  <2>1. late' \in [Tasks -> Nat]
    BY <1>1, <1>2 DEF TypeOK
  <2> QED
    BY <1>1, <2>1 DEF TypeOK
<1>4. /\ pc'[w] = "idle" /\ ev'[w] = None
      /\ \A v \in Workers \ {w} : pc'[v] = pc[v] /\ ev'[v] = ev[v]
  BY <1>1 DEF TypeOK
<1>5. /\ \A u : Linking(u)' = Linking(u) /\ (u # t => Verified(u)' = Verified(u))
      /\ w \in Verified(t) /\ Verified(t)' = Verified(t) \ {w}
  BY <1>1, <1>2, <1>4, <1>10 DEF Linking, Verified
<1>6. \A v \in Workers :
        /\ pc'[v] # "idle" => ev'[v] # None
        /\ pc'[v] \in {"save", "publish"} => plan'[v] # None
  BY <1>1, <1>4 DEF StepsOK
<1>7. CancelOK'
  <2>1. /\ Cardinality(Verified(t)') \in Nat
        /\ Cardinality(Verified(t)') + 1 = Cardinality(Verified(t))
    BY <1>5, Finite, CountRemove
  <2>2. \A u \in Tasks : u # t => late'[u] = late[u]
    BY <1>1 DEF TypeOK
  <2>3. late'[t] = IF t \in cancelled THEN late[t] + 1 ELSE late[t]
    BY <1>1, <1>2 DEF TypeOK
  <2>4. late[t] \in Nat /\ inFlight[t] \in Nat /\ cancelled \subseteq Tasks
    BY <1>2 DEF TypeOK
  <2>5. ASSUME NEW u \in cancelled
        PROVE  late'[u] + Cardinality(Verified(u)') <= inFlight[u]
    <3>1. late[u] + Cardinality(Verified(u)) <= inFlight[u]
      BY DEF CancelOK
    <3>2. CASE u = t
      BY <2>1, <2>3, <2>4, <3>1, <3>2
    <3>3. CASE u # t
      BY <1>5, <2>2, <2>4, <3>1, <3>3
    <3> QED
      BY <3>2, <3>3
  <2>6. \A u \in Tasks \ cancelled : late'[u] = 0
    BY <2>2, <2>3 DEF CancelOK
  <2>7. \A u \in cancelled : made'[u] = "yes" /\ ~active'[u]
    BY <1>1 DEF CancelOK
  <2> QED
    BY <1>1, <2>5, <2>6, <2>7 DEF CancelOK
<1> HIDE DEF ChainInv
<1>8. EventsOK' /\ StepsOK' /\ ChainsAreNotForked' /\ ChainSurvives'
  BY <1>1, <1>3, <1>5, <1>6, FewerLinks
<1> QED
  BY <1>3, <1>7, <1>8 DEF ChainInv

\* Reprocessing moves a waiting event from one queue to the other.
LEMMA ReprocessKeeps ==
    ASSUME ChainInv, NEW e \in parked, Reprocess(e)
    PROVE  ChainInv'
<1> USE DEF ChainInv, taskVars, queueVars, workerVars, historyVars
<1>1. /\ parked' = parked \ {e} /\ queue' = queue \cup {e}
      /\ active' = active /\ overCap' = overCap
      /\ UNCHANGED <<now, next, command, asked, made, nextId, pc, ev, plan,
                     dups, cut, cancelled, late, inFlight>>
  BY DEF Reprocess
<1>2. TypeOK'
  <2>1. queue' \subseteq TaskEvents /\ parked' \subseteq TaskEvents
    BY <1>1 DEF TypeOK
  <2> QED
    BY <1>1, <2>1 DEF TypeOK
<1>3. queue' \cup parked' = queue \cup parked
  BY <1>1
<1>4. \A u : Waiting(u)' = Waiting(u) /\ Linking(u)' = Linking(u) /\ Verified(u)' = Verified(u)
  BY <1>1, <1>3 DEF Waiting, Linking, Verified
<1>5. EventsOK'
  BY <1>1, <1>3, FS_AddElement, FS_Subset DEF EventsOK
<1> QED
  BY <1>1, <1>2, <1>4, <1>5 DEF StepsOK, CancelOK, ChainsAreNotForked, ChainSurvives

-----------------------------------------------------------------------------
(* The theorems *)

\* No step of the user, of time, of a worker or of a failure breaks the
\* invariant of the chains.
THEOREM ChainInvHolds == Spec => []ChainInv
<1>1. Init => ChainInv
  BY ChainInit
<1>2. ChainInv /\ [Next]_vars => ChainInv'
  <2> SUFFICES ASSUME ChainInv, [Next]_vars PROVE ChainInv'
    OBVIOUS
  <2>1. CASE Tick \/ AccessChange
    BY <2>1, QuietKeeps
  <2>2. ASSUME NEW t \in Tasks,
               CreateRecord(t) \/ CreateEvent(t) \/ CreateEventFails(t) \/ Cancel(t) \/ Update(t)
        PROVE  ChainInv'
    BY <2>2, CreateRecordKeeps, CreateEventKeeps, CreateEventFailsKeeps, CancelKeeps, QuietKeeps
  <2>3. ASSUME NEW e \in parked, Reprocess(e) PROVE ChainInv'
    BY <2>3, ReprocessKeeps
  <2>4. ASSUME NEW w \in Workers, WorkerStep(w) PROVE ChainInv'
    BY <2>4, DeliverKeeps, VerifyKeeps, LoadSaveKeeps, PublishNextKeeps, RunKeeps DEF WorkerStep
  <2>5. ASSUME NEW w \in Workers, NextRunFails(w) \/ Crash(w) PROVE ChainInv'
    BY <2>5, NextRunFailsKeeps, CrashKeeps
  <2>6. CASE UNCHANGED vars
    <3>1. /\ active' = active /\ overCap' = overCap
          /\ UNCHANGED <<now, next, command, asked, made, queue, parked, nextId, pc, ev, plan,
                         dups, cut, cancelled, late, inFlight>>
      BY <2>6 DEF vars, taskVars, queueVars, workerVars, historyVars
    <3>2. \A u : Waiting(u)' = Waiting(u) /\ Linking(u)' = Linking(u) /\ Verified(u)' = Verified(u)
      BY <3>1 DEF Waiting, Linking, Verified
    <3> QED
      BY <3>1, <3>2 DEF ChainInv, TypeOK, EventsOK, StepsOK, CancelOK, ChainsAreNotForked, ChainSurvives
  <2> QED
    BY <2>1, <2>2, <2>3, <2>4, <2>5, <2>6 DEF Next
<1> QED
  BY <1>1, <1>2, PTL DEF Spec

\* The variables of the scheduler keep their types.
THEOREM SchedulingTypes == Spec => []TypeOK
<1>1. ChainInv => TypeOK
  BY DEF ChainInv
<1> QED
  BY <1>1, ChainInvHolds, PTL

\* Only a redelivery can fork the chain of a task: no cancellation, update,
\* parking, reprocessing, failure or crash makes a second event of it.
THEOREM NoForks == Spec => []ChainsAreNotForked
<1>1. ChainInv => ChainsAreNotForked
  BY DEF ChainInv
<1> QED
  BY <1>1, ChainInvHolds, PTL

\* An active recurring task always has a next event, or a worker about to
\* publish it, unless one of its own steps failed or its worker crashed.
THEOREM ChainsSurvive == Spec => []ChainSurvives
<1>1. ChainInv => ChainSurvives
  BY DEF ChainInv
<1> QED
  BY <1>1, ChainInvHolds, PTL

\* Both: without a redelivery and a failing step of its own, the chain of a task
\* has one link at a time and does not end.
THEOREM ChainsAreWhole == Spec => []ChainIsWhole
<1>1. ChainInv => ChainIsWhole
  BY DEF ChainInv, ChainIsWhole
<1> QED
  BY <1>1, ChainInvHolds, PTL

\* After the user cancels a task, no more runs of it happen than events of it
\* had passed verify_task_active at that moment.
THEOREM CancelStops == Spec => []CancelStopsAllButInFlight
<1>1. ChainInv => CancelStopsAllButInFlight
  <2> SUFFICES ASSUME ChainInv, NEW t \in Tasks PROVE late[t] <= inFlight[t]
    BY DEF CancelStopsAllButInFlight
  <2>1. late[t] \in Nat /\ inFlight[t] \in Nat /\ Cardinality(Verified(t)) \in Nat
    BY Finite DEF ChainInv, TypeOK
  <2>2. CASE t \in cancelled
    BY <2>1, <2>2 DEF ChainInv, CancelOK
  <2>3. CASE t \notin cancelled
    BY <2>1, <2>3 DEF ChainInv, CancelOK
  <2> QED
    BY <2>2, <2>3
<1> QED
  BY <1>1, ChainInvHolds, PTL
-----------------------------------------------------------------------------
(* The time a task shows: the event of a task that was not disturbed, and  *)
(* the one about to be published, have the slot of its next_run.           *)

NextOK ==
    \A t \in Recurring : t \notin cut /\ dups[t] = 0 =>
        /\ \A e \in Waiting(t) : e.slot = next[t]
        /\ \A w \in Linking(t) : pc[w] = "publish" => plan[w].slot = next[t]

\* A task that was not disturbed has one link.
LEMMA OneLink ==
    ASSUME ChainInv, NEW t \in Tasks, dups[t] = 0, NEW w \in Linking(t)
    PROVE  Waiting(t) = {} /\ \A v \in Linking(t) : v = w
<1> USE DEF ChainInv
<1>1. /\ IsFiniteSet(Waiting(t)) /\ Cardinality(Waiting(t)) \in Nat
      /\ IsFiniteSet(Linking(t)) /\ Cardinality(Linking(t)) \in Nat
      /\ Cardinality(Waiting(t)) + Cardinality(Linking(t)) <= 1
  BY Finite DEF ChainsAreNotForked, TypeOK
<1>2. Cardinality(Linking(t) \ {w}) \in Nat /\ Cardinality(Linking(t) \ {w}) + 1 = Cardinality(Linking(t))
  BY <1>1, CountRemove
<1>3. Cardinality(Waiting(t)) = 0 /\ Cardinality(Linking(t) \ {w}) = 0
  BY <1>1, <1>2
<1>4. IsFiniteSet(Linking(t) \ {w})
  BY <1>1, FS_Subset
<1> QED
  BY <1>1, <1>3, <1>4, FS_EmptySet

\* No step changes the time of a chain without its event.
LEMMA NextKeeps ==
    ASSUME ChainInv, NextOK, [Next]_vars
    PROVE  NextOK'
<1> USE DEF taskVars, queueVars, workerVars, historyVars
<1> SUFFICES ASSUME NEW t \in Recurring, t \notin cut', dups'[t] = 0
             PROVE  /\ \A e \in Waiting(t)' : e.slot = next'[t]
                    /\ \A w \in Linking(t)' : pc'[w] = "publish" => plan'[w].slot = next'[t]
  BY DEF NextOK
<1>0. t \in Tasks /\ TypeOK /\ EventsOK /\ StepsOK
  BY TasksAssumption DEF ChainInv
<1> DEFINE Good == /\ \A e \in Waiting(t) : e.slot = next[t]
                   /\ \A w \in Linking(t) : pc[w] = "publish" => plan[w].slot = next[t]
<1>1. t \notin cut /\ dups[t] = 0 => Good
  BY DEF NextOK
<1>2. CASE UNCHANGED <<next, pc, ev, plan, dups>> /\ Waiting(t)' = Waiting(t) /\ cut \subseteq cut'
  BY <1>1, <1>2 DEF Linking
<1>3. CASE Tick \/ AccessChange \/ (\E u \in Tasks : Update(u) \/ Cancel(u) \/ CreateEventFails(u))
  BY <1>2, <1>3 DEF Tick, AccessChange, Update, Cancel, CreateEventFails, Waiting
<1>4. ASSUME NEW e \in parked, Reprocess(e)
      PROVE  Good'
  BY <1>2, <1>4 DEF Reprocess, Waiting
<1>5. ASSUME NEW u \in Tasks, CreateRecord(u)
      PROVE  Good'
  <2>1. /\ made[u] = "no" /\ next' = [next EXCEPT ![u] = FirstSlot(u)]
        /\ UNCHANGED <<pc, ev, plan, dups, cut, queue, parked>>
    BY <1>5 DEF CreateRecord
  <2>2. Waiting(t)' = Waiting(t) /\ Linking(t)' = Linking(t)
    BY <2>1 DEF Waiting, Linking
  <2>3. CASE u = t
    BY <2>1, <2>2, <2>3, <1>0 DEF StepsOK
  <2>4. CASE u # t
    BY <2>1, <2>2, <2>4, <1>1, <1>0 DEF TypeOK
  <2> QED
    BY <2>3, <2>4
<1>6. ASSUME NEW u \in Tasks, CreateEvent(u)
      PROVE  Good'
  <2> DEFINE e == Event(u, next[u], 0)
  <2>1. /\ made[u] = "record" /\ Publish(e)
        /\ UNCHANGED <<next, pc, ev, plan, dups, cut>>
    BY <1>6 DEF CreateEvent
  <2>5. next[u] \in Nat
    BY <1>0 DEF TypeOK
  <2>2. e \in TaskEvents /\ e.id = nextId /\ e.task = u /\ e.slot = next[u]
    BY <1>0, <2>5, EventIsTyped
  <2> HIDE DEF e
  <2>3. Waiting(t)' = IF t = u THEN Waiting(t) \cup {e} ELSE Waiting(t)
    BY <2>1, <2>2, <1>0, PublishAdds
  <2>4. Linking(t)' = Linking(t) /\ (t = u => Waiting(t) = {} /\ Linking(t) = {})
    BY <2>1, <1>0 DEF Linking, StepsOK
  <2> QED
    BY <2>1, <2>2, <2>3, <2>4, <1>1
<1>7. ASSUME NEW w \in Workers,
             /\ Waiting(t)' \subseteq Waiting(t) /\ UNCHANGED next /\ pc'[w] # "publish"
             /\ dups[t] = 0 /\ cut \subseteq cut'
             /\ \A v \in Workers \ {w} : pc'[v] = pc[v] /\ ev'[v] = ev[v] /\ plan'[v] = plan[v]
      PROVE  Good'
  <2>1. \A v \in Linking(t)' : pc'[v] = "publish" => v \in Linking(t) /\ v # w
    BY <1>7 DEF Linking
  <2> QED
    BY <2>1, <1>1, <1>7 DEF Linking
<1>8. ASSUME NEW w \in Workers, NEW e \in queue, Deliver(w, e)
      PROVE  Good'
  <2>1. /\ queue' \subseteq queue /\ UNCHANGED <<parked, next, plan, cut>>
        /\ ev' = [ev EXCEPT ![w] = e] /\ pc' = [pc EXCEPT ![w] = "verify"]
        /\ dups' = dups \/ dups' = [dups EXCEPT ![e.task] = @ + 1]
    BY <1>8 DEF Deliver
  <2>2. dups[t] = 0
    BY <2>1, <1>0 DEF TypeOK
  <2>3. Waiting(t)' \subseteq Waiting(t)
    BY <2>1 DEF Waiting
  <2>4. pc'[w] # "publish" /\ \A v \in Workers \ {w} : pc'[v] = pc[v] /\ ev'[v] = ev[v] /\ plan'[v] = plan[v]
    BY <2>1, <1>0 DEF TypeOK
  <2> QED
    BY <2>1, <2>2, <2>3, <2>4, <1>7
<1>9. ASSUME NEW w \in Workers, Verify(w) \/ Load(w) \/ Run(w) \/ NextRunFails(w) \/ Crash(w)
      PROVE  Good'
  <2>1. /\ UNCHANGED <<queue, parked, next, dups>> /\ cut \subseteq cut'
        /\ \A v \in Workers \ {w} : pc'[v] = pc[v] /\ ev'[v] = ev[v] /\ plan'[v] = plan[v]
        /\ pc'[w] \in {"idle", "load", "save", "run"}
    BY <1>9, <1>0 DEF Verify, Load, Run, NextRunFails, Crash, Goto, Drop, TypeOK
  <2>2. Waiting(t)' = Waiting(t)
    BY <2>1 DEF Waiting
  <2> QED
    BY <2>1, <2>2, <1>7
<1>10. ASSUME NEW w \in Workers, Save(w)
       PROVE  Good'
  <2>1. /\ pc[w] = "save" /\ next' = [next EXCEPT ![ev[w].task] = plan[w].slot]
        /\ pc' = [pc EXCEPT ![w] = "publish"]
        /\ UNCHANGED <<ev, plan, queue, parked, dups, cut>>
    BY <1>10 DEF Save, Goto
  <2>2. Waiting(t)' = Waiting(t) /\ Linking(t)' = Linking(t)
    BY <2>1, <1>0 DEF Waiting, Linking, TypeOK
  <2>3. CASE w \in Linking(t)
    <3>1. Waiting(t) = {} /\ \A v \in Linking(t) : v = w
      BY <2>1, <2>3, <1>0, OneLink
    <3>2. next'[t] = plan[w].slot
      BY <2>1, <2>3, <1>0 DEF Linking, TypeOK
    <3> QED
      BY <2>1, <2>2, <3>1, <3>2
  <2>4. CASE w \notin Linking(t)
    <3>1. ev[w] # None /\ ev[w].task # t
      BY <2>1, <2>4, <1>0 DEF Linking, StepsOK
    <3>2. next'[t] = next[t] /\ \A v \in Linking(t) : v # w /\ pc'[v] = pc[v]
      BY <2>1, <2>4, <3>1, <1>0 DEF TypeOK
    <3> QED
      BY <2>1, <2>2, <3>2, <1>1
  <2> QED
    BY <2>3, <2>4
<1>11. ASSUME NEW w \in Workers, PublishNext(w)
       PROVE  Good'
  <2> DEFINE e == Event(ev[w].task, plan[w].slot, plan[w].cmd)
  <2>1. /\ pc[w] = "publish" /\ Publish(e) /\ pc' = [pc EXCEPT ![w] = "run"]
        /\ UNCHANGED <<next, ev, plan, dups, cut>>
    BY <1>11 DEF PublishNext, Goto
  <2>2. ev[w] # None /\ ev[w].task \in Tasks /\ plan[w].slot \in Nat /\ plan[w].cmd \in Nat
    BY <2>1, <1>0 DEF StepsOK, TypeOK, TaskEvents
  <2>3. e \in TaskEvents /\ e.id = nextId /\ e.task = ev[w].task /\ e.slot = plan[w].slot
    BY <2>2, <1>0, EventIsTyped
  <2> HIDE DEF e
  <2>4. Waiting(t)' = IF t = ev[w].task THEN Waiting(t) \cup {e} ELSE Waiting(t)
    BY <2>1, <2>3, <1>0, PublishAdds
  <2>5. \A v \in Linking(t)' : v \in Linking(t) /\ pc'[v] = pc[v]
    BY <2>1, <1>0 DEF Linking, TypeOK
  <2>6. t = ev[w].task => w \in Linking(t)
    BY <2>1, <2>2 DEF Linking
  <2> QED
    BY <2>1, <2>3, <2>4, <2>5, <2>6, <1>1
<1>12. CASE UNCHANGED vars
  BY <1>2, <1>12 DEF vars, Waiting
<1> QED
  BY <1>3, <1>4, <1>5, <1>6, <1>8, <1>9, <1>10, <1>11, <1>12 DEF Next, WorkerStep

\* What the user is shown is what will happen: between two runs, next_run of an
\* active recurring task is the time of its event.
THEOREM ShownTimeIsQueued == Spec => []NextRunIsQueued
<1>1. Init => NextOK
  BY DEF Init, NextOK, Waiting, Linking
<1>2. ChainInv /\ NextOK /\ [Next]_vars => NextOK'
  BY NextKeeps
<1>3. ChainInv /\ NextOK => NextRunIsQueued
  <2> SUFFICES ASSUME ChainInv, NextOK, NEW t \in Recurring,
                      made[t] = "yes", active[t], t \notin cut, dups[t] = 0, Linking(t) = {}
               PROVE  \E e \in Waiting(t) : e.slot = next[t]
    BY DEF NextRunIsQueued
  <2>1. Waiting(t) # {}
    BY DEF ChainInv, ChainSurvives
  <2> QED
    BY <2>1 DEF NextOK
<1> QED
  BY <1>1, <1>2, <1>3, ChainInvHolds, PTL DEF Spec
-----------------------------------------------------------------------------
(* How often a slot runs: what ran, what may still come to it, and what is *)
(* about to run is counted in dups, but for once.  A link never leads back *)
(* to the slot it came from, as the time planned is later.                 *)

Soon(t, s) == {e \in Waiting(t) : e.slot <= s}
Ready(t, s) == {w \in Linking(t) : ev[w].slot <= s}
Running(t, s) ==
    {w \in Workers : pc[w] = "run" /\ ev[w] # None /\ ev[w].task = t /\ ev[w].slot = s}

\* Events are handled when they are due; the time planned is after them.
TimesOK ==
    \A w \in Workers :
        /\ pc[w] # "idle" => ev[w].slot <= now
        /\ pc[w] \in {"save", "publish"} => plan[w].slot > ev[w].slot

\* Nothing runs of a task that is not yet created.
RunsOK ==
    /\ runs \in [Tasks -> [Slots -> Nat]]
    /\ \A t \in Tasks : made[t] # "yes" =>
          /\ \A s \in Slots : runs[t][s] = 0
          /\ \A w \in Workers : pc[w] # "idle" => ev[w].task # t

Counted(t, s) ==
    runs[t][s] + Cardinality(Soon(t, s)) + Cardinality(Ready(t, s))
        + Cardinality(Running(t, s)) <= 1 + dups[t]

SlotOK == \A t \in Tasks, s \in Slots : Counted(t, s)
SlotInv == TimesOK /\ RunsOK /\ SlotOK

\* The cron expression next fires later.
LEMMA CronIsLater == ASSUME NEW t \in Nat PROVE CronAfter(t) > t
<1>1. \A p \in Nat : p > 0 => t < (t \div p + 1) * p
  BY Z3
<1> QED
  BY <1>1, TimeAssumption, CronIsTime DEF CronAfter

\* Sets that differ in one element at most.
LEMMA Moved ==
    ASSUME NEW S, NEW T, NEW x, IsFiniteSet(S), \A y : y # x => (y \in S <=> y \in T)
    PROVE  /\ IsFiniteSet(T) /\ Cardinality(S) \in Nat /\ Cardinality(T) \in Nat
           /\ Cardinality(T) = Cardinality(S) + (IF x \in T THEN 1 ELSE 0)
                                              - (IF x \in S THEN 1 ELSE 0)
<1>1. IsFiniteSet(S \ {x}) /\ T \subseteq S \cup {x} /\ IsFiniteSet(S \cup {x})
  BY FS_Subset, FS_AddElement
<1>2. IsFiniteSet(T)
  BY <1>1, FS_Subset
<1>3. S \ {x} = T \ {x}
  OBVIOUS
<1> DEFINE n == Cardinality(S \ {x})
<1>4. Cardinality(S) = n + (IF x \in S THEN 1 ELSE 0)
  <2>1. CASE x \in S
    BY <2>1, CountRemove
  <2>2. CASE x \notin S
    <3>1. S \ {x} = S
      BY <2>2
    <3>2. n = Cardinality(S) /\ Cardinality(S) \in Nat
      BY <3>1, FS_CardinalityType
    <3> HIDE DEF n
    <3> QED
      BY <2>2, <3>2
  <2> QED
    BY <2>1, <2>2
<1>5. Cardinality(T) = n + (IF x \in T THEN 1 ELSE 0)
  <2>1. CASE x \in T
    BY <1>2, <1>3, <2>1, CountRemove
  <2>2. CASE x \notin T
    <3>1. T \ {x} = T /\ Cardinality(T) \in Nat
      BY <1>2, <2>2, FS_CardinalityType
    <3> QED
      BY <1>3, <2>2, <3>1
  <2> QED
    BY <2>1, <2>2
<1>6. n \in Nat
  BY <1>1, FS_CardinalityType
<1> HIDE DEF n
<1> QED
  BY <1>2, <1>4, <1>5, <1>6

\* What is counted is finite.
LEMMA CountedIsFinite ==
    ASSUME EventsOK, NEW t, NEW s
    PROVE  /\ IsFiniteSet(Soon(t, s)) /\ Cardinality(Soon(t, s)) \in Nat
           /\ IsFiniteSet(Ready(t, s)) /\ Cardinality(Ready(t, s)) \in Nat
           /\ IsFiniteSet(Running(t, s)) /\ Cardinality(Running(t, s)) \in Nat
<1>1. Soon(t, s) \subseteq Waiting(t) /\ Ready(t, s) \subseteq Linking(t) /\ Running(t, s) \subseteq Workers
  BY DEF Soon, Ready, Running
<1> QED
  BY <1>1, Finite, FS_Subset, FS_CardinalityType, WorkerAssumption

\* The step of a worker moves that worker.
LEMMA WorkerMovesCounts ==
    ASSUME EventsOK, NEW t, NEW s, NEW w \in Workers,
           \A v \in Workers \ {w} : pc'[v] = pc[v] /\ ev'[v] = ev[v]
    PROVE  /\ Cardinality(Ready(t, s)') = Cardinality(Ready(t, s))
                + (IF w \in Ready(t, s)' THEN 1 ELSE 0) - (IF w \in Ready(t, s) THEN 1 ELSE 0)
           /\ Cardinality(Running(t, s)') = Cardinality(Running(t, s))
                + (IF w \in Running(t, s)' THEN 1 ELSE 0) - (IF w \in Running(t, s) THEN 1 ELSE 0)
           /\ Cardinality(Ready(t, s)') \in Nat /\ Cardinality(Running(t, s)') \in Nat
<1>1. \A v : v # w => (v \in Ready(t, s) <=> v \in Ready(t, s)')
  BY DEF Ready, Linking
<1>2. \A v : v # w => (v \in Running(t, s) <=> v \in Running(t, s)')
  BY DEF Running
<1>3. IsFiniteSet(Ready(t, s)) /\ IsFiniteSet(Running(t, s))
  BY CountedIsFinite
<1>4. /\ Cardinality(Ready(t, s)') = Cardinality(Ready(t, s))
           + (IF w \in Ready(t, s)' THEN 1 ELSE 0) - (IF w \in Ready(t, s) THEN 1 ELSE 0)
      /\ Cardinality(Ready(t, s)') \in Nat
  BY <1>1, <1>3, Moved
<1>5. /\ Cardinality(Running(t, s)') = Cardinality(Running(t, s))
           + (IF w \in Running(t, s)' THEN 1 ELSE 0) - (IF w \in Running(t, s) THEN 1 ELSE 0)
      /\ Cardinality(Running(t, s)') \in Nat
  BY <1>2, <1>3, Moved
<1> QED
  BY <1>4, <1>5

\* A step that moves no worker and no event, but for new tasks.
LEMMA SlotQuiet ==
    ASSUME SlotInv, UNCHANGED <<pc, ev, plan, runs, dups>>, now' >= now, now \in Nat, now' \in Nat,
           TypeOK, StepsOK,
           \A t \in Tasks : Waiting(t)' = Waiting(t),
           \A t \in Tasks : made[t] = "yes" => made'[t] = "yes"
    PROVE  SlotInv'
<1>1. \A w \in Workers : pc[w] # "idle" => ev[w].slot \in Nat
  BY DEF TypeOK, StepsOK, TaskEvents
<1>2. TimesOK'
  BY <1>1 DEF SlotInv, TimesOK
<1>3. RunsOK'
  BY DEF SlotInv, RunsOK, Slots
<1>4. \A t \in Tasks, s \in Slots :
        Soon(t, s)' = Soon(t, s) /\ Ready(t, s)' = Ready(t, s) /\ Running(t, s)' = Running(t, s)
  BY DEF Soon, Ready, Running, Linking
<1>5. SlotOK'
  BY <1>4 DEF SlotInv, SlotOK, Counted, Slots
<1> QED
  BY <1>2, <1>3, <1>5 DEF SlotInv

\* The first event of a task is its only link, and nothing of it ran.
LEMMA SlotCreateEvent ==
    ASSUME ChainInv, ChainInv', SlotInv, NEW u \in Tasks, CreateEvent(u)
    PROVE  SlotInv'
<1> USE DEF taskVars, queueVars, workerVars, historyVars
<1> DEFINE e == Event(u, next[u], 0)
<1>0. TypeOK /\ EventsOK /\ StepsOK /\ TimesOK /\ RunsOK /\ SlotOK
  BY DEF ChainInv, SlotInv
<1>1. /\ made[u] = "record" /\ made' = [made EXCEPT ![u] = "yes"] /\ Publish(e)
      /\ UNCHANGED <<now, pc, ev, plan, runs, dups>>
  BY DEF CreateEvent
<1>2. next[u] \in Nat
  BY <1>0 DEF TypeOK
<1>3. e \in TaskEvents /\ e.id = nextId /\ e.task = u
  BY <1>0, <1>2, EventIsTyped
<1> HIDE DEF e
<1>4. \A t \in Tasks : Waiting(t)' = IF t = u THEN Waiting(t) \cup {e} ELSE Waiting(t)
  BY <1>0, <1>1, <1>3, PublishAdds
<1>5. TimesOK'
  BY <1>0, <1>1 DEF TimesOK
<1>6. RunsOK'
  BY <1>0, <1>1 DEF RunsOK, TypeOK, Slots
<1>7. ASSUME NEW t \in Tasks, NEW s \in Slots PROVE Counted(t, s)'
  <2>1. Ready(t, s)' = Ready(t, s) /\ Running(t, s)' = Running(t, s)
    BY <1>1 DEF Ready, Running, Linking
  <2>2. CASE t # u
    <3>1. Soon(t, s)' = Soon(t, s)
      BY <1>4, <2>2 DEF Soon
    <3> QED
      BY <1>0, <1>1, <2>1, <3>1 DEF SlotOK, Counted
  <2>3. CASE t = u
    <3>1. Soon(t, s) = {} /\ Ready(t, s) = {} /\ Running(t, s) = {} /\ runs[t][s] = 0
      BY <1>0, <1>1, <2>3 DEF StepsOK, RunsOK, Soon, Ready, Running
    <3>2. Soon(t, s)' \subseteq {e} /\ Cardinality({}) = 0
      BY <1>4, <2>3, <3>1, FS_EmptySet DEF Soon
    <3>3. IsFiniteSet({}) /\ {e} = {} \cup {e}
      BY FS_EmptySet
    <3>4. IsFiniteSet({e}) /\ Cardinality({e}) <= 1 /\ Cardinality({e}) \in Nat
      BY <3>2, <3>3, CountAdd, FS_AddElement
    <3>5. Cardinality(Soon(t, s)') \in Nat /\ Cardinality(Soon(t, s)') <= 1
      BY <3>2, <3>4, CountSubset
    <3>6. dups[t] \in Nat
      BY <1>0 DEF TypeOK
    <3> QED
      BY <1>1, <2>1, <3>1, <3>2, <3>5, <3>6 DEF Counted
  <2> QED
    BY <2>2, <2>3
<1> QED
  BY <1>5, <1>6, <1>7 DEF SlotInv, SlotOK, Slots

\* Delivering takes an event of the queue, or is counted in dups.
LEMMA SlotDeliver ==
    ASSUME ChainInv, ChainInv', SlotInv, NEW w \in Workers, NEW e \in queue, Deliver(w, e)
    PROVE  SlotInv'
<1> USE DEF taskVars, queueVars, workerVars, historyVars
<1>0. TypeOK /\ EventsOK /\ StepsOK /\ TimesOK /\ RunsOK /\ SlotOK /\ TypeOK' /\ EventsOK'
  BY DEF ChainInv, SlotInv
<1>1. /\ pc[w] = "idle" /\ e.slot <= now /\ ev' = [ev EXCEPT ![w] = e]
      /\ pc' = [pc EXCEPT ![w] = "verify"]
      /\ UNCHANGED <<now, made, plan, runs, parked>>
      /\ \/ queue' = queue \ {e} /\ dups' = dups
         \/ queue' = queue /\ dups' = [dups EXCEPT ![e.task] = @ + 1]
  BY DEF Deliver
<1>2. /\ ev'[w] = e /\ pc'[w] = "verify" /\ e \in TaskEvents
      /\ \A v \in Workers \ {w} : pc'[v] = pc[v] /\ ev'[v] = ev[v]
  BY <1>0, <1>1 DEF TypeOK
<1>3. made[e.task] = "yes" /\ e.task \in Tasks /\ e.slot \in Nat
  BY <1>0, <1>2 DEF StepsOK, Waiting, TaskEvents
<1>4. TimesOK'
  BY <1>0, <1>1, <1>2 DEF TimesOK
<1>5. RunsOK'
  BY <1>0, <1>1, <1>2, <1>3 DEF RunsOK, Slots
<1>6. ASSUME NEW t \in Tasks, NEW s \in Slots PROVE Counted(t, s)'
  <2>1. /\ runs[t][s] \in Nat /\ dups[t] \in Nat
        /\ Cardinality(Soon(t, s)) \in Nat
        /\ Cardinality(Ready(t, s)) \in Nat /\ Cardinality(Running(t, s)) \in Nat
        /\ IsFiniteSet(Soon(t, s)) /\ Counted(t, s)
    BY <1>0, CountedIsFinite DEF TypeOK, RunsOK, SlotOK
  <2>2. /\ w \notin Ready(t, s) /\ w \notin Running(t, s) /\ w \notin Running(t, s)'
        /\ w \in Ready(t, s)' => e.task = t /\ e.slot <= s
    BY <1>1, <1>2 DEF Ready, Running, Linking
  <2>3. /\ Cardinality(Ready(t, s)') = Cardinality(Ready(t, s)) + (IF w \in Ready(t, s)' THEN 1 ELSE 0)
        /\ Cardinality(Running(t, s)') = Cardinality(Running(t, s))
    BY <1>0, <1>2, <2>1, <2>2, WorkerMovesCounts
  <2>4. CASE queue' = queue \ {e} /\ dups' = dups
    <3>1. e \notin parked
      BY <1>0 DEF EventsOK
    <3>2. Soon(t, s)' = Soon(t, s) \ {e}
      BY <1>1, <2>4, <3>1 DEF Soon, Waiting
    <3>3. CASE e \in Soon(t, s)
      <4>1. /\ Cardinality(Soon(t, s)') \in Nat
            /\ Cardinality(Soon(t, s)') + 1 = Cardinality(Soon(t, s))
        BY <2>1, <3>2, <3>3, CountRemove
      <4> QED
        BY <1>1, <2>1, <2>3, <2>4, <4>1 DEF Counted
    <3>4. CASE e \notin Soon(t, s)
      <4>1. w \notin Ready(t, s)' /\ Soon(t, s)' = Soon(t, s)
        BY <2>2, <3>2, <3>4 DEF Soon, Waiting
      <4> QED
        BY <1>1, <2>1, <2>3, <2>4, <4>1 DEF Counted
    <3> QED
      BY <3>3, <3>4
  <2>5. CASE queue' = queue /\ dups' = [dups EXCEPT ![e.task] = @ + 1]
    <3>1. Soon(t, s)' = Soon(t, s)
      BY <1>1, <2>5 DEF Soon, Waiting
    <3>2. dups'[t] = dups[t] + (IF t = e.task THEN 1 ELSE 0)
      BY <1>0, <1>3, <2>5 DEF TypeOK
    <3> QED
      BY <1>1, <2>1, <2>2, <2>3, <3>1, <3>2 DEF Counted
  <2> QED
    BY <1>1, <2>4, <2>5
<1> QED
  BY <1>4, <1>5, <1>6 DEF SlotInv, SlotOK, Slots

\* The steps of a worker between an event and its run: of its links it drops
\* some, and a run comes of a link to that slot.
LEMMA SlotWorker ==
    ASSUME ChainInv, ChainInv', SlotInv, NEW w \in Workers,
           UNCHANGED <<now, made, queue, parked, runs, dups>>,
           \A v \in Workers \ {w} : pc'[v] = pc[v] /\ ev'[v] = ev[v] /\ plan'[v] = plan[v],
           pc[w] \notin {"idle", "run"} \/ pc'[w] = "idle",
           pc'[w] # "idle" => ev'[w] = ev[w],
           pc'[w] \in {"save", "publish"} => plan'[w].slot > ev[w].slot
    PROVE  SlotInv'
<1>0. TypeOK /\ EventsOK /\ StepsOK /\ TimesOK /\ RunsOK /\ SlotOK /\ TypeOK' /\ EventsOK'
  BY DEF ChainInv, SlotInv
<1>1. TimesOK'
  BY <1>0 DEF TimesOK, TypeOK
<1>2. RunsOK'
  <2>1. ASSUME NEW v \in Workers, pc'[v] # "idle" PROVE pc[v] # "idle" /\ ev'[v] = ev[v]
    BY <2>1
  <2> QED
    BY <1>0, <2>1 DEF RunsOK, Slots
<1>3. ASSUME NEW t \in Tasks, NEW s \in Slots PROVE Counted(t, s)'
  <2>1. /\ runs[t][s] \in Nat /\ dups[t] \in Nat
        /\ Cardinality(Soon(t, s)) \in Nat
        /\ Cardinality(Ready(t, s)) \in Nat /\ Cardinality(Running(t, s)) \in Nat
        /\ Counted(t, s) /\ s \in Nat
    BY <1>0, CountedIsFinite, TimeAssumption DEF TypeOK, RunsOK, SlotOK, Slots
  <2>2. Soon(t, s)' = Soon(t, s)
    BY DEF Soon, Waiting
  <2>3. /\ w \in Ready(t, s)' => w \in Ready(t, s) /\ w \notin Running(t, s)'
        /\ w \in Running(t, s)' => w \in Ready(t, s)
    <3>1. CASE pc'[w] = "idle"
      BY <3>1 DEF Ready, Running, Linking
    <3>2. CASE pc'[w] # "idle"
      BY <3>2, <2>1 DEF Ready, Running, Linking
    <3> QED
      BY <3>1, <3>2
  <2>4. /\ Cardinality(Ready(t, s)') = Cardinality(Ready(t, s))
             + (IF w \in Ready(t, s)' THEN 1 ELSE 0) - (IF w \in Ready(t, s) THEN 1 ELSE 0)
        /\ Cardinality(Running(t, s)') = Cardinality(Running(t, s))
             + (IF w \in Running(t, s)' THEN 1 ELSE 0) - (IF w \in Running(t, s) THEN 1 ELSE 0)
    BY <1>0, WorkerMovesCounts
  <2> QED
    BY <2>1, <2>2, <2>3, <2>4 DEF Counted
<1> QED
  BY <1>1, <1>2, <1>3 DEF SlotInv, SlotOK, Slots

\* The next event is of a later slot.
LEMMA SlotPublishNext ==
    ASSUME ChainInv, ChainInv', SlotInv, NEW w \in Workers, PublishNext(w)
    PROVE  SlotInv'
<1> USE DEF taskVars, queueVars, workerVars, historyVars
<1> DEFINE e == Event(ev[w].task, plan[w].slot, plan[w].cmd)
<1>0. TypeOK /\ EventsOK /\ StepsOK /\ TimesOK /\ RunsOK /\ SlotOK /\ TypeOK' /\ EventsOK'
  BY DEF ChainInv, SlotInv
<1>1. /\ pc[w] = "publish" /\ Publish(e) /\ pc' = [pc EXCEPT ![w] = "run"]
      /\ UNCHANGED <<now, made, ev, plan, runs, dups>>
  BY DEF PublishNext, Goto
<1>2. /\ ev[w] # None /\ ev[w].task \in Tasks /\ ev[w].slot \in Nat
      /\ plan[w].slot \in Nat /\ plan[w].cmd \in Nat
  BY <1>0, <1>1 DEF StepsOK, TypeOK, TaskEvents
<1>3. /\ e \in TaskEvents /\ e.id = nextId /\ e.task = ev[w].task /\ e.slot = plan[w].slot
  BY <1>0, <1>2, EventIsTyped
<1> HIDE DEF e
<1>4. \A t \in Tasks : Waiting(t)' = IF t = ev[w].task THEN Waiting(t) \cup {e} ELSE Waiting(t)
  BY <1>0, <1>1, <1>3, PublishAdds
<1>5. /\ pc'[w] = "run" /\ \A v \in Workers \ {w} : pc'[v] = pc[v] /\ ev'[v] = ev[v]
      /\ e.slot > ev[w].slot
  BY <1>0, <1>1, <1>3 DEF TypeOK, TimesOK
<1>6. TimesOK'
  BY <1>0, <1>1, <1>5 DEF TimesOK
<1>7. RunsOK'
  BY <1>0, <1>1, <1>5 DEF RunsOK, Slots
<1>8. ASSUME NEW t \in Tasks, NEW s \in Slots PROVE Counted(t, s)'
  <2>1. /\ runs[t][s] \in Nat /\ dups[t] \in Nat
        /\ Cardinality(Soon(t, s)) \in Nat /\ IsFiniteSet(Soon(t, s))
        /\ Cardinality(Ready(t, s)) \in Nat /\ Cardinality(Running(t, s)) \in Nat
        /\ Counted(t, s) /\ s \in Nat
    BY <1>0, CountedIsFinite, TimeAssumption DEF TypeOK, RunsOK, SlotOK, Slots
  <2>2. /\ w \notin Ready(t, s)' /\ w \notin Running(t, s)
        /\ w \in Ready(t, s) <=> ev[w].task = t /\ ev[w].slot <= s
        /\ w \in Running(t, s)' <=> ev[w].task = t /\ ev[w].slot = s
    BY <1>1, <1>2, <1>5 DEF Ready, Running, Linking
  <2>3. /\ Cardinality(Ready(t, s)') = Cardinality(Ready(t, s))
             + (IF w \in Ready(t, s)' THEN 1 ELSE 0) - (IF w \in Ready(t, s) THEN 1 ELSE 0)
        /\ Cardinality(Running(t, s)') = Cardinality(Running(t, s))
             + (IF w \in Running(t, s)' THEN 1 ELSE 0) - (IF w \in Running(t, s) THEN 1 ELSE 0)
    BY <1>0, <1>5, WorkerMovesCounts
  <2>4. CASE ev[w].task = t /\ e.slot <= s
    <3>1. Soon(t, s)' = Soon(t, s) \cup {e}
      BY <1>4, <2>4 DEF Soon
    <3>2. Cardinality(Soon(t, s)') \in Nat /\ Cardinality(Soon(t, s)') <= Cardinality(Soon(t, s)) + 1
      BY <2>1, <3>1, CountAdd
    <3>3. ev[w].slot < s
      BY <1>2, <1>3, <1>5, <2>1, <2>4
    <3> QED
      BY <1>1, <1>2, <2>1, <2>2, <2>3, <2>4, <3>2, <3>3 DEF Counted
  <2>5. CASE ~(ev[w].task = t /\ e.slot <= s)
    <3>1. Soon(t, s)' = Soon(t, s)
      BY <1>3, <1>4, <2>5 DEF Soon
    <3> QED
      BY <1>1, <1>2, <2>1, <2>2, <2>3, <3>1 DEF Counted
  <2> QED
    BY <2>4, <2>5
<1> QED
  BY <1>6, <1>7, <1>8 DEF SlotInv, SlotOK, Slots

\* A run is counted where it was about to happen.
LEMMA SlotRun ==
    ASSUME ChainInv, ChainInv', SlotInv, NEW w \in Workers, Run(w)
    PROVE  SlotInv'
<1> USE DEF taskVars, queueVars, workerVars, historyVars
<1>0. TypeOK /\ EventsOK /\ StepsOK /\ TimesOK /\ RunsOK /\ SlotOK /\ TypeOK' /\ EventsOK'
  BY DEF ChainInv, SlotInv
<1>1. /\ pc[w] = "run" /\ runs' = [runs EXCEPT ![ev[w].task][ev[w].slot] = @ + 1]
      /\ pc' = [pc EXCEPT ![w] = "idle"] /\ ev' = [ev EXCEPT ![w] = None]
      /\ UNCHANGED <<now, made, queue, parked, plan, dups>>
  BY DEF Run, Drop, Goto
<1>2. ev[w] # None /\ ev[w].task \in Tasks /\ made[ev[w].task] = "yes"
  BY <1>0, <1>1 DEF StepsOK, TypeOK, TaskEvents, RunsOK
<1>3. pc'[w] = "idle" /\ \A v \in Workers \ {w} : pc'[v] = pc[v] /\ ev'[v] = ev[v]
  BY <1>0, <1>1 DEF TypeOK
<1>4. TimesOK'
  BY <1>0, <1>1, <1>3 DEF TimesOK
<1>5. /\ runs' \in [Tasks -> [Slots -> Nat]]
      /\ \A t \in Tasks, s \in Slots :
            runs'[t][s] = runs[t][s] + (IF t = ev[w].task /\ s = ev[w].slot THEN 1 ELSE 0)
  <2> DEFINE u == ev[w].task
             f == [runs[u] EXCEPT ![ev[w].slot] = runs[u][ev[w].slot] + 1]
  <2>1. runs \in [Tasks -> [Slots -> Nat]] /\ runs[u] \in [Slots -> Nat] /\ u \in Tasks
    BY <1>0, <1>2 DEF RunsOK
  <2>2. runs' = [runs EXCEPT ![u] = f]
    BY <1>1
  <2>3. /\ f \in [Slots -> Nat]
        /\ \A s \in Slots : f[s] = runs[u][s] + (IF s = ev[w].slot THEN 1 ELSE 0)
    BY <2>1, Incremented
  <2> HIDE DEF f
  <2> QED
    BY <2>1, <2>2, <2>3
<1>6. RunsOK'
  BY <1>0, <1>1, <1>2, <1>3, <1>5 DEF RunsOK, Slots
<1>7. ASSUME NEW t \in Tasks, NEW s \in Slots PROVE Counted(t, s)'
  <2>1. /\ runs[t][s] \in Nat /\ dups[t] \in Nat
        /\ Cardinality(Soon(t, s)) \in Nat
        /\ Cardinality(Ready(t, s)) \in Nat /\ Cardinality(Running(t, s)) \in Nat
        /\ Counted(t, s)
    BY <1>0, CountedIsFinite DEF TypeOK, RunsOK, SlotOK
  <2>2. Soon(t, s)' = Soon(t, s)
    BY <1>1 DEF Soon, Waiting
  <2>3. /\ w \notin Ready(t, s)' /\ w \notin Ready(t, s) /\ w \notin Running(t, s)'
        /\ t = ev[w].task /\ s = ev[w].slot => w \in Running(t, s)
    BY <1>1, <1>2, <1>3 DEF Ready, Running, Linking
  <2>4. /\ Cardinality(Ready(t, s)') = Cardinality(Ready(t, s))
        /\ Cardinality(Running(t, s)') = Cardinality(Running(t, s)) - (IF w \in Running(t, s) THEN 1 ELSE 0)
    BY <1>0, <1>3, <2>1, <2>3, WorkerMovesCounts
  <2> QED
    BY <1>1, <1>5, <2>1, <2>2, <2>3, <2>4 DEF Counted
<1> QED
  BY <1>4, <1>6, <1>7 DEF SlotInv, SlotOK, Slots

\* Every step keeps the count.
LEMMA SlotKeeps ==
    ASSUME ChainInv, ChainInv', SlotInv, [Next]_vars
    PROVE  SlotInv'
<1> USE DEF taskVars, queueVars, workerVars, historyVars
<1>0. /\ TypeOK /\ EventsOK /\ StepsOK /\ TimesOK /\ now \in Nat /\ now' \in Nat
  BY TimeAssumption DEF ChainInv, SlotInv, TypeOK
<1>1. CASE Tick \/ AccessChange \/ (\E t \in Tasks : Update(t) \/ Cancel(t)) \/ UNCHANGED vars
  <2>1. /\ UNCHANGED <<pc, ev, plan, runs, dups, queue, parked, made>> /\ now' >= now
    BY <1>0, <1>1 DEF Tick, AccessChange, Update, Cancel, vars
  <2>2. \A t \in Tasks : Waiting(t)' = Waiting(t)
    BY <2>1 DEF Waiting
  <2> QED
    BY <1>0, <2>1, <2>2, SlotQuiet
<1>2. ASSUME NEW t \in Tasks, CreateRecord(t) \/ CreateEventFails(t)
      PROVE  SlotInv'
  <2>1. /\ UNCHANGED <<now, pc, ev, plan, runs, dups, queue, parked>> /\ now' >= now
        /\ \A u \in Tasks : made[u] = "yes" => made'[u] = "yes"
    BY <1>0, <1>2 DEF CreateRecord, CreateEventFails, TypeOK
  <2>2. \A u \in Tasks : Waiting(u)' = Waiting(u)
    BY <2>1 DEF Waiting
  <2> QED
    BY <1>0, <2>1, <2>2, SlotQuiet
<1>3. ASSUME NEW e \in parked, Reprocess(e)
      PROVE  SlotInv'
  <2>1. /\ UNCHANGED <<now, pc, ev, plan, runs, dups, made>> /\ now' >= now
        /\ queue' \cup parked' = queue \cup parked
    BY <1>0, <1>3 DEF Reprocess
  <2>2. \A u \in Tasks : Waiting(u)' = Waiting(u)
    BY <2>1 DEF Waiting
  <2> QED
    BY <1>0, <2>1, <2>2, SlotQuiet
<1>4. ASSUME NEW w \in Workers, Verify(w) \/ Save(w) \/ NextRunFails(w) \/ Crash(w)
      PROVE  SlotInv'
  <2>1. /\ UNCHANGED <<now, made, queue, parked, runs, dups, plan>>
        /\ \A v \in Workers \ {w} : pc'[v] = pc[v] /\ ev'[v] = ev[v] /\ plan'[v] = plan[v]
        /\ pc[w] \notin {"idle", "run"} \/ pc'[w] = "idle"
        /\ pc'[w] # "idle" => ev'[w] = ev[w]
        /\ pc'[w] \in {"save", "publish"} => pc[w] = "save"
    BY <1>0, <1>4 DEF Verify, Save, NextRunFails, Crash, Goto, Drop, TypeOK
  <2>2. pc'[w] \in {"save", "publish"} => plan'[w].slot > ev[w].slot
    BY <1>0, <2>1 DEF TimesOK
  <2> QED
    BY <2>1, <2>2, SlotWorker
<1>5. ASSUME NEW w \in Workers, Load(w)
      PROVE  SlotInv'
  <2>1. PICK skew \in 0..MaxSkew :
          /\ skew <= now
          /\ plan' = [plan EXCEPT ![w] =
                [slot |-> CronAfter(now - skew + Delay), cmd |-> command[ev[w].task]]]
    BY <1>5 DEF Load
  <2>2. now - skew + Delay \in Nat /\ now - skew + Delay >= now
    BY <1>0, <2>1, TimeAssumption
  <2>3. CronAfter(now - skew + Delay) > now - skew + Delay /\ CronAfter(now - skew + Delay) \in Nat
    BY <2>2, CronIsLater, CronIsTime
  <2>4. /\ pc[w] = "load" /\ pc' = [pc EXCEPT ![w] = "save"]
        /\ UNCHANGED <<now, made, queue, parked, runs, dups, ev>>
    BY <1>5 DEF Load, Goto
  <2>5. /\ \A v \in Workers \ {w} : pc'[v] = pc[v] /\ ev'[v] = ev[v] /\ plan'[v] = plan[v]
        /\ plan'[w].slot = CronAfter(now - skew + Delay)
    BY <1>0, <2>1, <2>4 DEF TypeOK
  <2>6. ev[w].slot \in Nat /\ ev[w].slot <= now
    BY <1>0, <2>4 DEF TimesOK, StepsOK, TypeOK, TaskEvents
  <2>7. plan'[w].slot > ev[w].slot
    BY <1>0, <2>2, <2>3, <2>5, <2>6
  <2> QED
    BY <2>4, <2>5, <2>7, SlotWorker
<1> QED
  BY <1>1, <1>2, <1>3, <1>4, <1>5, SlotCreateEvent, SlotDeliver, SlotPublishNext, SlotRun
  DEF Next, WorkerStep

\* A task runs at most once for each time it was due and each redelivery, also
\* when the worker's clock is behind the broker's.
THEOREM SlotsRunOnce == Spec => []SlotRunOnce
<1>1. Init => SlotInv
  <2> SUFFICES ASSUME Init PROVE SlotInv
    OBVIOUS
  <2>1. TimesOK /\ RunsOK
    BY DEF Init, TimesOK, RunsOK
  <2>2. \A t \in Tasks, s \in Slots : Soon(t, s) = {} /\ Ready(t, s) = {} /\ Running(t, s) = {}
    BY DEF Init, Soon, Ready, Running, Waiting, Linking
  <2>3. Cardinality({}) = 0
    BY FS_EmptySet
  <2>5. \A t \in Tasks : dups[t] = 0
    BY DEF Init
  <2>6. \A t \in Tasks, s \in Slots : runs[t][s] = 0
    BY DEF Init
  <2>4. SlotOK
    BY <2>2, <2>3, <2>5, <2>6 DEF SlotOK, Counted
  <2> QED
    BY <2>1, <2>4 DEF SlotInv
<1>2. ChainInv /\ ChainInv' /\ SlotInv /\ [Next]_vars => SlotInv'
  BY SlotKeeps
<1>3. ChainInv /\ SlotInv => SlotRunOnce
  <2> SUFFICES ASSUME ChainInv, SlotInv, NEW t \in Tasks, NEW s \in Slots
               PROVE  runs[t][s] <= 1 + dups[t]
    BY DEF SlotRunOnce
  <2>1. /\ runs[t][s] \in Nat /\ dups[t] \in Nat /\ Counted(t, s)
        /\ Cardinality(Soon(t, s)) \in Nat /\ Cardinality(Ready(t, s)) \in Nat
        /\ Cardinality(Running(t, s)) \in Nat
    BY CountedIsFinite DEF ChainInv, TypeOK, SlotInv, RunsOK, SlotOK
  <2> QED
    BY <2>1 DEF Counted
<1> QED
  BY <1>1, <1>2, <1>3, ChainInvHolds, PTL DEF Spec
=============================================================================
