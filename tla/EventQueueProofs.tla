-------------------------- MODULE EventQueueProofs --------------------------
(***************************************************************************)
(* Proofs about EventQueue, for every set of events, sessions and workers  *)
(* and every bound on the faults.  All of them rest on the inductive       *)
(* invariant IndInv (IndInit, IndStep).  On top of it, KnownOK gives the   *)
(* refinement of EventDelivery, OnceInv that events are handled at most    *)
(* once, and OrderInv that they are first handled in order.                *)
(*                                                                         *)
(* The last part is about SuspendedEvents: publishing, parking and         *)
(* reprocessing, however they interleave, use the main queue only as       *)
(* EventQueue says, so that what is proved of it holds of the composition; *)
(* and the invariant GateInv says in which place of the two queues each    *)
(* event rests, and what a reprocess has still to forward.                 *)
(***************************************************************************)
EXTENDS SuspendedEvents, FiniteSetTheorems, SequenceTheorems, TLAPS

-----------------------------------------------------------------------------
(* Sequences *)

LEMMA RangeOfAppend ==
    ASSUME NEW S, NEW q \in Seq(S), NEW e \in S
    PROVE  Append(q, e) \in Seq(S) /\ Range(Append(q, e)) = Range(q) \cup {e}
<1>1. Append(q, e) \in Seq(S)
  OBVIOUS
<1>2. \A i \in 1..Len(q) : Append(q, e)[i] = q[i]
  OBVIOUS
<1>3. Append(q, e)[Len(q) + 1] = e /\ Len(Append(q, e)) = Len(q) + 1 /\ Len(q) \in Nat
  OBVIOUS
<1>4. DOMAIN q = 1..Len(q) /\ DOMAIN Append(q, e) = 1..(Len(q) + 1)
  OBVIOUS
<1>5. 1..(Len(q) + 1) = 1..Len(q) \cup {Len(q) + 1}
  BY <1>3
<1> QED
  BY <1>1, <1>2, <1>3, <1>4, <1>5 DEF Range

LEMMA RangeOfConcat ==
    ASSUME NEW S, NEW q \in Seq(S), NEW r \in Seq(S)
    PROVE  q \o r \in Seq(S) /\ Range(q \o r) = Range(q) \cup Range(r)
  BY ConcatProperties, RangeConcatenation

LEMMA RangeOfTail ==
    ASSUME NEW S, NEW q \in Seq(S), q # <<>>
    PROVE  /\ Head(q) \in S /\ Tail(q) \in Seq(S)
           /\ Range(q) = {Head(q)} \cup Range(Tail(q))
<1> DEFINE n == Len(q)
<1>1. Head(q) \in S /\ Tail(q) \in Seq(S) /\ n \in Nat /\ n > 0 /\ Head(q) = q[1]
  OBVIOUS
<1>2. Len(Tail(q)) = n - 1 /\ \A i \in 1..(n - 1) : Tail(q)[i] = q[i + 1]
  OBVIOUS
<1>3. DOMAIN q = 1..n /\ DOMAIN Tail(q) = 1..(n - 1)
  BY <1>1, <1>2
<1> HIDE DEF n
<1>4. \A i \in 1..n : i = 1 \/ \E j \in 1..(n - 1) : i = j + 1
  <2> TAKE i \in 1..n
  <2>1. CASE i # 1
    <3>1. i - 1 \in 1..(n - 1) /\ i = (i - 1) + 1
      BY <2>1, <1>1
    <3> QED
      BY <3>1
  <2> QED
    BY <2>1
<1>5. 1 \in 1..n /\ \A j \in 1..(n - 1) : j + 1 \in 1..n
  BY <1>1
<1>6. Range(q) \subseteq {Head(q)} \cup Range(Tail(q))
  <2> SUFFICES ASSUME NEW i \in 1..n
               PROVE  q[i] \in {Head(q)} \cup Range(Tail(q))
    BY <1>3 DEF Range
  <2>1. CASE i = 1
    BY <2>1, <1>1
  <2>2. CASE \E j \in 1..(n - 1) : i = j + 1
    BY <2>2, <1>2, <1>3 DEF Range
  <2> QED
    BY <2>1, <2>2, <1>4
<1>7. {Head(q)} \cup Range(Tail(q)) \subseteq Range(q)
  BY <1>1, <1>2, <1>3, <1>5 DEF Range
<1> QED
  BY <1>1, <1>6, <1>7

LEMMA RangeOfEmpty == Range(<<>>) = {}
  BY DEF Range

LEMMA RangeOfOne == ASSUME NEW S, NEW e \in S PROVE <<e>> \in Seq(S) /\ Range(<<e>>) = {e}
  BY DEF Range

\* What Handle appends and what it keeps make up the group.
LEMMA TurnAndRest ==
    ASSUME TypeOK, NEW w \in Workers, got[w] # <<>>
    PROVE  /\ TurnOf(w) \in Seq(Events) /\ RestOf(w) \in Seq(Events)
           /\ Range(got[w]) = Range(TurnOf(w)) \cup Range(RestOf(w))
<1>1. got[w] \in Seq(Events)
  BY DEF TypeOK
<1>2. CASE sess[w] \in ChatSessions
  BY <1>1, <1>2, RangeOfEmpty DEF TurnOf, RestOf
<1>3. CASE sess[w] \notin ChatSessions
  BY <1>1, <1>3, RangeOfTail, RangeOfOne DEF TurnOf, RestOf
<1> QED
  BY <1>2, <1>3

LEMMA NextSeqnoType == TypeOK => NextSeqno \in Nat /\ NextSeqno > 0
<1>1. IsFiniteSet(Accepted)
  BY EventsAssumption, FS_Subset DEF Accepted
<1> QED
  BY <1>1, FS_CardinalityType DEF NextSeqno

-----------------------------------------------------------------------------
(* The part of the invariant that the workers' own variables make up *)

WorkerTypeOK ==
    /\ lock \in [Sessions -> Workers \cup {NoWorker}]
    /\ pc \in [Workers -> {"accept", "collect", "settle", "final", "handle"}]
    /\ sess \in [Workers -> Sessions \cup {NoSession}]
    /\ batch \in [Workers -> SUBSET Events]
    /\ got \in [Workers -> Seq(Events)]
    /\ first \in [Workers -> BOOLEAN]

RestTypeOK ==
    /\ seqno \in [Events -> Nat]
    /\ active \subseteq Accepted
    /\ handled \in [Sessions -> Seq(Events)]
    /\ nacked \subseteq Events
    /\ spent \in [FaultKinds -> Nat]

OwnersOK == \A s \in Sessions, w \in Workers : lock[s] = w => sess[w] = s
AllHold == \A w \in Workers : pc[w] # "accept" => Holds(w)

WorkerPart == WorkerTypeOK /\ WorkersOK /\ OwnersOK /\ GroupsStayInTheirSession

Kept == \A e \in Accepted : e \in active \/ Carried(e) \/ HandledOnce(e)

LEMMA Parts ==
    IndInv <=> /\ WorkerPart
               /\ RestTypeOK
               /\ spent["expiry"] = 0 => AllHold
               /\ spent["crash"] = 0 => Kept
<1>1. TypeOK <=> WorkerTypeOK /\ RestTypeOK
  BY DEF TypeOK, WorkerTypeOK, RestTypeOK
<1>2. LocksOK <=> OwnersOK /\ (spent["expiry"] = 0 => AllHold)
  BY DEF LocksOK, OwnersOK, AllHold
<1>3. Vanished = {} <=> Kept
  BY DEF Vanished, Kept
<1> QED
  BY <1>1, <1>2, <1>3 DEF IndInv, WorkerPart, OnlyACrashLosesEvents

\* The primed form of the same split.
LEMMA PartsNext ==
    IndInv' <=> /\ WorkerPart'
                /\ RestTypeOK'
                /\ (spent["expiry"] = 0 => AllHold)'
                /\ (spent["crash"] = 0 => Kept)'
<1>1. TypeOK' <=> WorkerTypeOK' /\ RestTypeOK'
  BY DEF TypeOK, WorkerTypeOK, RestTypeOK
<1>2. LocksOK' <=> OwnersOK' /\ (spent["expiry"] = 0 => AllHold)'
  BY DEF LocksOK, OwnersOK, AllHold
<1>3. (Vanished = {})' <=> Kept'
  BY DEF Vanished, Kept
<1> QED
  BY <1>1, <1>2, <1>3 DEF IndInv, WorkerPart, OnlyACrashLosesEvents

\* Closing the session receiver with nothing in hand.
LEMMA ReleaseKeeps ==
    ASSUME WorkerPart, NEW w \in Workers, Release(w),
           got' = [got EXCEPT ![w] = <<>>], batch' = [batch EXCEPT ![w] = {}]
    PROVE  WorkerPart' /\ (AllHold => AllHold')
<1> USE DEF WorkerPart, WorkerTypeOK
<1>1. WorkerTypeOK'
  BY DEF Release
<1>2. WorkersOK'
  BY RangeOfEmpty DEF Release, WorkersOK
<1>3. OwnersOK'
  BY NoneAssumption DEF Release, OwnersOK
<1>4. GroupsStayInTheirSession'
  BY RangeOfEmpty DEF Release, GroupsStayInTheirSession
<1>5. AllHold => AllHold'
  BY DEF Release, AllHold, Holds, WorkersOK
<1> QED
  BY <1>1, <1>2, <1>3, <1>4, <1>5

\* Leaving the collecting loop with at least what was collected.
LEMMA LeaveLoopKeeps ==
    ASSUME WorkerPart, NEW w \in Workers, pc[w] # "accept",
           NEW msgs \in Seq(Events), LeaveLoop(w, msgs),
           \A e \in Range(msgs) : SessionOf[e] = sess[w]
    PROVE  WorkerPart' /\ (AllHold => AllHold')
<1> USE DEF WorkerPart
<1>1. CASE msgs = <<>>
  BY <1>1, ReleaseKeeps DEF LeaveLoop
<1>2. CASE msgs # <<>>
  <2>0. /\ got' = [got EXCEPT ![w] = msgs] /\ batch' = [batch EXCEPT ![w] = {}]
        /\ pc' = [pc EXCEPT ![w] = "handle"] /\ UNCHANGED <<lock, sess, first>>
    BY <1>2 DEF LeaveLoop
  <2>1. WorkerTypeOK'
    BY <2>0 DEF WorkerTypeOK
  <2>2. WorkersOK'
    BY <2>0, <1>2 DEF WorkersOK, WorkerTypeOK
  <2>3. OwnersOK'
    BY <2>0 DEF OwnersOK
  <2>4. GroupsStayInTheirSession'
    BY <2>0 DEF GroupsStayInTheirSession, WorkerTypeOK
  <2>5. AllHold => AllHold'
    BY <2>0 DEF AllHold, Holds, WorkerTypeOK
  <2> QED
    BY <2>1, <2>2, <2>3, <2>4, <2>5
<1> QED
  BY <1>1, <1>2

\* What a worker carries it still carries, or it is in the longer group.
LEMMA LeaveLoopCarries ==
    ASSUME WorkerPart, NEW w \in Workers, NEW msgs \in Seq(Events), LeaveLoop(w, msgs),
           Range(got[w]) \subseteq Range(msgs)
    PROVE  /\ \A e \in Events : Carried(e) => Carried(e)'
           /\ \A e \in Range(msgs) : Carried(e)'
<1>1. got' = [got EXCEPT ![w] = msgs] /\ got \in [Workers -> Seq(Events)]
  BY DEF LeaveLoop, WorkerPart, WorkerTypeOK
<1> QED
  BY <1>1 DEF Carried

-----------------------------------------------------------------------------
(* Every action preserves the invariant *)

LEMMA IndInit == Init => IndInv
<1> SUFFICES ASSUME Init PROVE IndInv
  OBVIOUS
<1> USE DEF Init
<1>1. WorkerPart
  BY RangeOfEmpty, NoneAssumption
     DEF WorkerPart, WorkerTypeOK, WorkersOK, OwnersOK, GroupsStayInTheirSession
<1>2. RestTypeOK
  BY DEF RestTypeOK, Accepted, FaultKinds
<1>3. AllHold /\ Kept
  BY DEF AllHold, Kept, Accepted
<1> QED
  BY <1>1, <1>2, <1>3, Parts

LEMMA PublishInd == ASSUME IndInv, NEW e \in Events, Publish(e) PROVE IndInv'
<1> USE DEF Publish, Enqueue
<1>0. WorkerPart /\ RestTypeOK /\ TypeOK
  BY Parts DEF IndInv
<1>1. WorkerPart'
  BY <1>0 DEF WorkerPart, WorkerTypeOK, WorkersOK, OwnersOK, GroupsStayInTheirSession, workerVars
<1>2. Accepted' = Accepted \cup {e}
  BY <1>0, NextSeqnoType DEF Accepted, RestTypeOK
<1>3. RestTypeOK'
  BY <1>0, <1>2, NextSeqnoType DEF RestTypeOK
<1>4. (spent["expiry"] = 0 => AllHold)'
  BY Parts DEF AllHold, Holds, workerVars
<1>5. (spent["crash"] = 0 => Kept)'
  BY Parts, <1>2 DEF Kept, Carried, HandledOnce, workerVars
<1> QED
  BY <1>1, <1>3, <1>4, <1>5, PartsNext

LEMMA AcceptInd == ASSUME IndInv, NEW w \in Workers, Accept(w) PROVE IndInv'
<1>0. WorkerPart /\ RestTypeOK
  BY Parts
<1> PICK s \in Sessions :
      /\ pc[w] = "accept" /\ lock[s] = NoWorker
      /\ lock' = [lock EXCEPT ![s] = w]
      /\ sess' = [sess EXCEPT ![w] = s]
      /\ pc' = [pc EXCEPT ![w] = "collect"]
      /\ UNCHANGED <<brokerVars, batch, got, first, handled, nacked, spent>>
  BY DEF Accept
<1> USE DEF WorkerPart, WorkerTypeOK
<1>1. WorkerTypeOK'
  BY <1>0
<1>2. WorkersOK'
  BY <1>0 DEF WorkersOK
<1>3. OwnersOK'
  BY <1>0, NoneAssumption DEF OwnersOK, WorkersOK
<1>4. GroupsStayInTheirSession'
  BY <1>0, RangeOfEmpty DEF GroupsStayInTheirSession, WorkersOK
<1>5. RestTypeOK'
  BY <1>0 DEF RestTypeOK, Accepted, brokerVars
<1>6. (spent["expiry"] = 0 => AllHold)'
  BY <1>0, Parts, NoneAssumption DEF AllHold, Holds, WorkersOK
<1>7. (spent["crash"] = 0 => Kept)'
  BY Parts DEF Kept, Accepted, Carried, HandledOnce, brokerVars
<1> QED
  BY <1>1, <1>2, <1>3, <1>4, <1>5, <1>6, <1>7, PartsNext

LEMMA ReceiveInd == ASSUME IndInv, NEW w \in Workers, Receive(w) PROVE IndInv'
<1>0. WorkerPart /\ RestTypeOK
  BY Parts
<1> PICK B \in SUBSET Pending(sess[w]) : batch' = [batch EXCEPT ![w] = B]
  BY DEF Receive, Batches
<1>1. B \subseteq Events /\ \A e \in B : SessionOf[e] = sess[w]
  BY <1>0 DEF Pending, RestTypeOK, Accepted
<1>2. /\ pc[w] = "collect" /\ pc' = [pc EXCEPT ![w] = "settle"]
      /\ UNCHANGED <<brokerVars, lock, sess, got, first, handled, nacked, spent>>
  BY DEF Receive
<1>3. WorkerPart'
  BY <1>0, <1>1, <1>2
     DEF WorkerPart, WorkerTypeOK, WorkersOK, OwnersOK, GroupsStayInTheirSession
<1>4. RestTypeOK'
  BY <1>0, <1>2 DEF RestTypeOK, Accepted, brokerVars
<1>5. (spent["expiry"] = 0 => AllHold)'
  BY <1>0, <1>2, Parts DEF AllHold, Holds, WorkerPart, WorkerTypeOK
<1>6. (spent["crash"] = 0 => Kept)'
  BY <1>2, Parts DEF Kept, Accepted, Carried, HandledOnce, brokerVars
<1> QED
  BY <1>3, <1>4, <1>5, <1>6, PartsNext

\* A step that leaves the loop with the group as it is, and touches no queue.
LEMMA LeaveWithGroupInd ==
    ASSUME IndInv, NEW w \in Workers, pc[w] # "accept", LeaveLoop(w, got[w]),
           UNCHANGED <<brokerVars, handled, nacked>>,
           spent' \in [FaultKinds -> Nat],
           spent["expiry"] = spent'["expiry"], spent["crash"] = spent'["crash"]
    PROVE  IndInv'
<1>0. WorkerPart /\ RestTypeOK
  BY Parts
<1>1. got[w] \in Seq(Events) /\ \A e \in Range(got[w]) : SessionOf[e] = sess[w]
  BY <1>0 DEF WorkerPart, WorkerTypeOK, GroupsStayInTheirSession
<1>2. WorkerPart' /\ (AllHold => AllHold')
  BY <1>0, <1>1, LeaveLoopKeeps
<1>3. \A e \in Events : Carried(e) => Carried(e)'
  BY <1>0, <1>1, LeaveLoopCarries
<1>4. RestTypeOK'
  BY <1>0 DEF RestTypeOK, Accepted, brokerVars
<1>5. Kept => Kept'
  BY <1>3 DEF Kept, Accepted, HandledOnce, brokerVars
<1> QED
  BY <1>2, <1>4, <1>5, Parts, PartsNext

LEMMA ReceiveEmptyInd == ASSUME IndInv, NEW w \in Workers, ReceiveEmpty(w) PROVE IndInv'
<1>0. WorkerPart /\ RestTypeOK /\ UNCHANGED <<brokerVars, handled, nacked, spent>>
      /\ pc[w] = "collect"
  BY Parts DEF ReceiveEmpty
<1>1. CASE first[w] /\ AllForwarded(w)
  <2>1. pc' = [pc EXCEPT ![w] = "final"] /\ UNCHANGED <<lock, sess, batch, got, first>>
    BY <1>1 DEF ReceiveEmpty
  <2>2. WorkerPart'
    BY <1>0, <2>1
       DEF WorkerPart, WorkerTypeOK, WorkersOK, OwnersOK, GroupsStayInTheirSession
  <2>3. RestTypeOK'
    BY <1>0 DEF RestTypeOK, Accepted, brokerVars
  <2>4. (spent["expiry"] = 0 => AllHold)'
    BY <1>0, <2>1, Parts DEF AllHold, Holds, WorkerPart, WorkerTypeOK
  <2>5. (spent["crash"] = 0 => Kept)'
    BY <1>0, <2>1, Parts DEF Kept, Accepted, Carried, HandledOnce, brokerVars
  <2> QED
    BY <2>2, <2>3, <2>4, <2>5, PartsNext
<1>2. CASE ~(first[w] /\ AllForwarded(w))
  <2>1. LeaveLoop(w, got[w])
    BY <1>2 DEF ReceiveEmpty
  <2> QED
    BY <1>0, <2>1, LeaveWithGroupInd DEF RestTypeOK
<1> QED
  BY <1>1, <1>2

LEMMA FinalReceiveInd == ASSUME IndInv, NEW w \in Workers, FinalReceive(w) PROVE IndInv'
<1>0. /\ WorkerPart /\ RestTypeOK /\ pc[w] = "final"
      /\ pc' = [pc EXCEPT ![w] = "collect"]
      /\ UNCHANGED <<brokerVars, lock, sess, batch, got, first, handled, nacked, spent>>
  BY Parts DEF FinalReceive
<1>1. WorkerPart'
  BY <1>0 DEF WorkerPart, WorkerTypeOK, WorkersOK, OwnersOK, GroupsStayInTheirSession
<1>2. RestTypeOK'
  BY <1>0 DEF RestTypeOK, Accepted, brokerVars
<1>3. (spent["expiry"] = 0 => AllHold)'
  BY <1>0, Parts DEF AllHold, Holds, WorkerPart, WorkerTypeOK
<1>4. (spent["crash"] = 0 => Kept)'
  BY <1>0, Parts DEF Kept, Accepted, Carried, HandledOnce, brokerVars
<1> QED
  BY <1>1, <1>2, <1>3, <1>4, PartsNext

LEMMA FinalEmptyInd == ASSUME IndInv, NEW w \in Workers, FinalEmpty(w) PROVE IndInv'
<1>1. pc[w] # "accept" /\ LeaveLoop(w, got[w]) /\ UNCHANGED <<brokerVars, handled, nacked, spent>>
  BY DEF FinalEmpty
<1> QED
  BY <1>1, Parts, LeaveWithGroupInd DEF RestTypeOK

\* A fault of one kind leaves the counts of the other kinds alone.
LEMMA SpendType ==
    ASSUME RestTypeOK, NEW k \in FaultKinds, Spend(k)
    PROVE  /\ spent' \in [FaultKinds -> Nat] /\ spent'[k] # 0
           /\ \A j \in FaultKinds \ {k} : spent'[j] = spent[j]
  BY DEF RestTypeOK, Spend, FaultKinds

LEMMA BrokerErrorType ==
    ASSUME RestTypeOK, NEW w \in Workers, BrokerError(w)
    PROVE  /\ spent' \in [FaultKinds -> Nat]
           /\ spent["expiry"] = spent'["expiry"] /\ spent["crash"] = spent'["crash"]
<1>1. CASE Holds(w)
  BY <1>1, SpendType DEF BrokerError, FaultKinds
<1>2. CASE ~Holds(w)
  BY <1>2 DEF BrokerError, RestTypeOK
<1> QED
  BY <1>1, <1>2

LEMMA ReceiveErrorInd == ASSUME IndInv, NEW w \in Workers, ReceiveError(w) PROVE IndInv'
<1>1. /\ pc[w] # "accept" /\ BrokerError(w) /\ LeaveLoop(w, got[w])
      /\ UNCHANGED <<brokerVars, handled, nacked>>
  BY DEF ReceiveError
<1> QED
  BY <1>1, Parts, BrokerErrorType, LeaveWithGroupInd

\* The message at hand of a settling worker.
LEMMA SettledMessage ==
    ASSUME IndInv, NEW w \in Workers, pc[w] = "settle", NEW e \in Oldest(batch[w])
    PROVE  /\ e \in Events /\ e \in batch[w] /\ SessionOf[e] = sess[w]
           /\ Append(got[w], e) \in Seq(Events)
           /\ Range(Append(got[w], e)) = Range(got[w]) \cup {e}
           /\ \A f \in Range(Append(got[w], e)) : SessionOf[f] = sess[w]
<1>1. WorkerPart
  BY Parts
<1>2. e \in Events /\ e \in batch[w] /\ SessionOf[e] = sess[w] /\ got[w] \in Seq(Events)
  BY <1>1 DEF Oldest, WorkerPart, WorkerTypeOK, WorkersOK
<1> QED
  BY <1>1, <1>2, RangeOfAppend DEF WorkerPart, GroupsStayInTheirSession

\* A step that goes on with the batch, whether or not the message left the queue.
LEMMA NextMessageInd ==
    ASSUME IndInv, NEW w \in Workers, pc[w] = "settle", NEW e \in Oldest(batch[w]),
           NextMessage(w, e), UNCHANGED <<seqno, handled>>,
           first' \in [Workers -> BOOLEAN],
           active' \subseteq active, active \ {e} \subseteq active',
           nacked' \subseteq Events,
           spent' \in [FaultKinds -> Nat],
           spent["expiry"] = spent'["expiry"], spent["crash"] = spent'["crash"]
    PROVE  IndInv'
<1>0. WorkerPart /\ RestTypeOK
  BY Parts
<1>1. /\ batch' = [batch EXCEPT ![w] = @ \ {e}]
      /\ got' = [got EXCEPT ![w] = Append(@, e)]
      /\ pc' = pc \/ pc' = [pc EXCEPT ![w] = "collect"]
      /\ UNCHANGED <<lock, sess>>
  BY DEF NextMessage
<1>2. WorkerTypeOK'
  BY <1>0, <1>1, SettledMessage DEF WorkerPart, WorkerTypeOK
<1>3. WorkersOK'
  BY <1>0, <1>1 DEF WorkerPart, WorkerTypeOK, WorkersOK
<1>4. OwnersOK'
  BY <1>0, <1>1 DEF WorkerPart, OwnersOK
<1>5. GroupsStayInTheirSession'
  BY <1>0, <1>1, SettledMessage DEF WorkerPart, WorkerTypeOK, GroupsStayInTheirSession
<1>6. RestTypeOK'
  BY <1>0 DEF RestTypeOK, Accepted
<1>7. AllHold => AllHold'
  BY <1>0, <1>1 DEF AllHold, Holds, WorkerPart, WorkerTypeOK
<1>8. /\ \A f \in Events : Carried(f) => Carried(f)'
      /\ Carried(e)'
  <2>1. /\ Range(got'[w]) = Range(got[w]) \cup {e}
        /\ \A v \in Workers \ {w} : got'[v] = got[v]
    BY <1>0, <1>1, SettledMessage DEF WorkerPart, WorkerTypeOK
  <2> QED
    BY <2>1 DEF Carried
<1>9. Kept => Kept'
  BY <1>8 DEF Kept, Accepted, HandledOnce
<1> QED
  BY <1>2, <1>3, <1>4, <1>5, <1>6, <1>7, <1>9, Parts, PartsNext DEF WorkerPart

LEMMA CompleteInd == ASSUME IndInv, NEW w \in Workers, Complete(w) PROVE IndInv'
<1>1. PICK e \in Oldest(batch[w]) :
        /\ pc[w] = "settle" /\ NextMessage(w, e)
        /\ active' = active \ {e} /\ first' = [first EXCEPT ![w] = TRUE]
        /\ UNCHANGED <<seqno, handled, nacked, spent>>
  BY DEF Complete
<1>2. first' \in [Workers -> BOOLEAN] /\ nacked \subseteq Events /\ spent \in [FaultKinds -> Nat]
  BY <1>1, Parts DEF WorkerPart, WorkerTypeOK, RestTypeOK
<1> QED
  BY <1>1, <1>2, NextMessageInd

LEMMA AbandonInd == ASSUME IndInv, NEW w \in Workers, Abandon(w) PROVE IndInv'
<1>1. PICK e \in Oldest(batch[w]) :
        /\ pc[w] = "settle" /\ NextMessage(w, e) /\ Spend("error")
        /\ nacked' = nacked \cup {e} /\ UNCHANGED <<seqno, active, first, handled>>
  BY DEF Abandon, brokerVars
<1>2. RestTypeOK /\ first \in [Workers -> BOOLEAN]
  BY Parts DEF WorkerPart, WorkerTypeOK
<1>3. /\ spent' \in [FaultKinds -> Nat]
      /\ spent["expiry"] = spent'["expiry"] /\ spent["crash"] = spent'["crash"]
  BY <1>1, <1>2, SpendType DEF FaultKinds
<1>4. nacked' \subseteq Events
  BY <1>1, <1>2, SettledMessage DEF RestTypeOK
<1> QED
  BY <1>1, <1>2, <1>3, <1>4, NextMessageInd

LEMMA SettleErrorInd == ASSUME IndInv, NEW w \in Workers, SettleError(w) PROVE IndInv'
<1>0. WorkerPart /\ RestTypeOK
  BY Parts
<1>1. PICK e \in Oldest(batch[w]) :
        /\ pc[w] = "settle" /\ BrokerError(w) /\ LeaveLoop(w, Append(got[w], e))
        /\ active' \subseteq active /\ active \ {e} \subseteq active'
        /\ nacked' \subseteq nacked \cup {e}
        /\ UNCHANGED <<seqno, handled>>
  BY DEF SettleError
<1>2. /\ e \in Events /\ Append(got[w], e) \in Seq(Events)
      /\ Range(Append(got[w], e)) = Range(got[w]) \cup {e}
      /\ \A f \in Range(Append(got[w], e)) : SessionOf[f] = sess[w]
  BY <1>1, SettledMessage
<1>3. WorkerPart' /\ (AllHold => AllHold')
  BY <1>0, <1>1, <1>2, LeaveLoopKeeps
<1>4. /\ spent' \in [FaultKinds -> Nat]
      /\ spent["expiry"] = spent'["expiry"] /\ spent["crash"] = spent'["crash"]
  BY <1>0, <1>1, BrokerErrorType
<1>5. RestTypeOK'
  BY <1>0, <1>1, <1>2, <1>4 DEF RestTypeOK, Accepted
<1>6. Range(got[w]) \subseteq Range(Append(got[w], e)) /\ e \in Range(Append(got[w], e))
  BY <1>2
<1>7. /\ \A f \in Events : Carried(f) => Carried(f)'
      /\ Carried(e)'
  <2>1. PICK msgs \in Seq(Events) :
          msgs = Append(got[w], e) /\ LeaveLoop(w, msgs) /\ Range(got[w]) \subseteq Range(msgs)
    BY <1>1, <1>2, <1>6
  <2>2. \A f \in Events : Carried(f) => Carried(f)'
    BY <1>0, <2>1, LeaveLoopCarries
  <2>3. \A f \in Range(msgs) : Carried(f)'
    BY <1>0, <2>1, LeaveLoopCarries
  <2> QED
    BY <1>6, <2>1, <2>2, <2>3
<1>8. Kept => Kept'
  BY <1>1, <1>7 DEF Kept, Accepted, HandledOnce
<1> QED
  BY <1>3, <1>4, <1>5, <1>8, Parts, PartsNext

LEMMA HandleInd == ASSUME IndInv, NEW w \in Workers, Handle(w) PROVE IndInv'
<1>0. WorkerPart /\ RestTypeOK /\ TypeOK
  BY Parts DEF IndInv
<1>1. /\ pc[w] = "handle"
      /\ handled' = [handled EXCEPT ![sess[w]] = @ \o TurnOf(w)]
      /\ got' = [got EXCEPT ![w] = RestOf(w)]
      /\ UNCHANGED <<brokerVars, batch, nacked, spent>>
  BY DEF Handle
<1>2. got[w] # <<>> /\ sess[w] \in Sessions /\ batch[w] = {} /\ got[w] \in Seq(Events)
  BY <1>0, <1>1 DEF WorkerPart, WorkersOK, WorkerTypeOK
<1>3. /\ TurnOf(w) \in Seq(Events) /\ RestOf(w) \in Seq(Events)
      /\ Range(got[w]) = Range(TurnOf(w)) \cup Range(RestOf(w))
  BY <1>0, <1>2, TurnAndRest
<1>4. WorkerPart' /\ (AllHold => AllHold')
  <2>1. CASE RestOf(w) = <<>>
    <3>1. batch' = [batch EXCEPT ![w] = {}]
      BY <1>0, <1>1, <1>2 DEF WorkerPart, WorkerTypeOK
    <3>2. Release(w) /\ got' = [got EXCEPT ![w] = <<>>]
      BY <1>1, <2>1 DEF Handle
    <3> QED
      BY <1>0, <3>1, <3>2, ReleaseKeeps
  <2>2. CASE RestOf(w) # <<>>
    <3>1. UNCHANGED <<lock, pc, sess, first, batch>>
      BY <1>1, <2>2 DEF Handle
    <3>2. WorkerTypeOK'
      BY <1>0, <1>1, <1>3, <3>1 DEF WorkerPart, WorkerTypeOK
    <3>3. WorkersOK' /\ OwnersOK'
      BY <1>0, <1>1, <2>2, <3>1 DEF WorkerPart, WorkerTypeOK, WorkersOK, OwnersOK
    <3>4. GroupsStayInTheirSession'
      BY <1>0, <1>1, <1>3, <3>1 DEF WorkerPart, WorkerTypeOK, GroupsStayInTheirSession
    <3>5. AllHold => AllHold'
      BY <3>1 DEF AllHold, Holds
    <3> QED
      BY <3>2, <3>3, <3>4, <3>5 DEF WorkerPart
  <2> QED
    BY <2>1, <2>2
<1>5. /\ handled' \in [Sessions -> Seq(Events)]
      /\ \A s \in Sessions : Range(handled[s]) \subseteq Range(handled'[s])
      /\ Range(TurnOf(w)) \subseteq Range(handled'[sess[w]])
  <2>1. handled \in [Sessions -> Seq(Events)] /\ handled[sess[w]] \in Seq(Events)
    BY <1>0, <1>2 DEF RestTypeOK
  <2>2. /\ handled[sess[w]] \o TurnOf(w) \in Seq(Events)
        /\ Range(handled[sess[w]] \o TurnOf(w)) = Range(handled[sess[w]]) \cup Range(TurnOf(w))
    BY <1>3, <2>1, RangeOfConcat
  <2> QED
    BY <1>1, <1>2, <2>1, <2>2
<1>6. RestTypeOK'
  BY <1>0, <1>1, <1>5 DEF RestTypeOK, Accepted, brokerVars
<1>7. \A e \in Events : Carried(e) => Carried(e)' \/ HandledOnce(e)'
  <2> SUFFICES ASSUME NEW e \in Events, NEW v \in Workers, e \in Range(got[v])
               PROVE  Carried(e)' \/ HandledOnce(e)'
    BY DEF Carried
  <2>1. CASE v # w
    BY <1>0, <1>1, <2>1 DEF Carried, WorkerPart, WorkerTypeOK
  <2>2. CASE v = w /\ e \in Range(RestOf(w))
    BY <1>0, <1>1, <2>2 DEF Carried, WorkerPart, WorkerTypeOK
  <2>3. CASE v = w /\ e \in Range(TurnOf(w))
    <3>1. SessionOf[e] = sess[w]
      BY <1>0, <2>3 DEF WorkerPart, GroupsStayInTheirSession
    <3> QED
      BY <1>5, <2>3, <3>1 DEF HandledOnce
  <2> QED
    BY <1>3, <2>1, <2>2, <2>3
<1>8. \A e \in Events : HandledOnce(e) => HandledOnce(e)'
  BY <1>5, EventsAssumption DEF HandledOnce
<1>9. Kept => Kept'
  BY <1>1, <1>7, <1>8 DEF Kept, Accepted, brokerVars
<1> QED
  BY <1>1, <1>4, <1>6, <1>9, Parts, PartsNext

LEMMA LockExpireInd == ASSUME IndInv, NEW w \in Workers, LockExpire(w) PROVE IndInv'
<1>0. /\ WorkerPart /\ RestTypeOK /\ Spend("expiry")
      /\ lock' = [lock EXCEPT ![sess[w]] = NoWorker]
      /\ UNCHANGED <<brokerVars, workerVars, handled, nacked>>
  BY Parts DEF LockExpire
<1>1. /\ spent' \in [FaultKinds -> Nat] /\ spent'["expiry"] # 0
      /\ spent'["crash"] = spent["crash"]
  BY <1>0, SpendType DEF FaultKinds
<1>2. WorkerPart'
  BY <1>0, NoneAssumption
     DEF WorkerPart, WorkerTypeOK, WorkersOK, OwnersOK, GroupsStayInTheirSession, workerVars
<1>3. RestTypeOK'
  BY <1>0, <1>1 DEF RestTypeOK, Accepted, brokerVars
<1>4. Kept => Kept'
  BY <1>0 DEF Kept, Accepted, Carried, HandledOnce, brokerVars, workerVars
<1> QED
  BY <1>1, <1>2, <1>3, <1>4, Parts, PartsNext

LEMMA CrashInd == ASSUME IndInv, NEW w \in Workers, Crash(w) PROVE IndInv'
<1>0. /\ WorkerPart /\ RestTypeOK /\ Spend("crash") /\ Release(w)
      /\ got' = [got EXCEPT ![w] = <<>>] /\ batch' = [batch EXCEPT ![w] = {}]
      /\ UNCHANGED <<brokerVars, handled, nacked>>
  BY Parts DEF Crash
<1>1. /\ spent' \in [FaultKinds -> Nat] /\ spent'["crash"] # 0
      /\ spent'["expiry"] = spent["expiry"]
  BY <1>0, SpendType DEF FaultKinds
<1>2. WorkerPart' /\ (AllHold => AllHold')
  BY <1>0, ReleaseKeeps
<1>3. RestTypeOK'
  BY <1>0, <1>1 DEF RestTypeOK, Accepted, brokerVars
<1> QED
  BY <1>1, <1>2, <1>3, Parts, PartsNext

LEMMA IndStep == IndInv /\ [Next]_vars => IndInv'
<1> SUFFICES ASSUME IndInv, [Next]_vars PROVE IndInv'
  OBVIOUS
<1>1. CASE \E e \in Events : Publish(e)
  BY <1>1, PublishInd
<1>2. ASSUME NEW w \in Workers, Step(w) PROVE IndInv'
  BY <1>2, AcceptInd, ReceiveInd, ReceiveEmptyInd, FinalReceiveInd, FinalEmptyInd,
     CompleteInd, HandleInd DEF Step
<1>3. ASSUME NEW w \in Workers, Fault(w) PROVE IndInv'
  BY <1>3, ReceiveErrorInd, AbandonInd, SettleErrorInd, LockExpireInd, CrashInd DEF Fault
<1>4. CASE UNCHANGED vars
  BY <1>4 DEF vars, brokerVars, workerVars, IndInv, TypeOK, Accepted, WorkersOK, LocksOK, Holds,
     GroupsStayInTheirSession, OnlyACrashLosesEvents, Vanished, Carried, HandledOnce
<1> QED
  BY <1>1, <1>2, <1>3, <1>4 DEF Next, ConsumerNext

-----------------------------------------------------------------------------
(* The theorems *)

\* The inductive invariant holds of every behaviour of the queue.
THEOREM IndInvHolds == Spec => []IndInv
<1>1. Init => IndInv
  BY IndInit
<1>2. IndInv /\ [Next]_vars => IndInv'
  BY IndStep
<1> QED
  BY <1>1, <1>2, PTL DEF Spec

\* Type correctness.
THEOREM TypeCorrect == Spec => []TypeOK
<1>1. IndInv => TypeOK
  BY DEF IndInv
<1> QED
  BY <1>1, IndInvHolds, PTL

\* Acknowledging messages before they are handled loses none of them unless a
\* worker crashes, for any number of workers and sessions and whatever calls to
\* the broker fail and whatever locks run out in consume().
THEOREM NothingVanishes == Spec => []OnlyACrashLosesEvents
<1>1. IndInv => OnlyACrashLosesEvents
  BY DEF IndInv
<1> QED
  BY <1>1, IndInvHolds, PTL

\* consume() never mixes two sessions in the group it yields.
THEOREM GroupsArePure == Spec => []GroupsStayInTheirSession
<1>1. IndInv => GroupsStayInTheirSession
  BY DEF IndInv
<1> QED
  BY <1>1, IndInvHolds, PTL

\* Two workers share a session only after its lock ran out under one of them.
THEOREM SerialSessions == Spec => []SessionsAreSerial
<1>1. IndInv => SessionsAreSerial
  <2> SUFFICES ASSUME IndInv, spent["expiry"] = 0, NEW v \in Workers, NEW w \in Workers,
                      v # w, pc[v] # "accept", pc[w] # "accept", sess[v] = sess[w]
               PROVE  FALSE
    BY DEF SessionsAreSerial
  <2>1. Holds(v) /\ Holds(w)
    BY DEF IndInv, LocksOK
  <2> QED
    BY <2>1 DEF Holds
<1> QED
  BY <1>1, IndInvHolds, PTL

-----------------------------------------------------------------------------
(* The refinement of EventDelivery *)

\* What workers hold and what was handled was accepted by the broker first.
KnownOK ==
    /\ \A w \in Workers : batch[w] \cup Range(got[w]) \subseteq Accepted
    /\ \A s \in Sessions : Range(handled[s]) \subseteq Accepted

\* What the steps of the consumer other than Handle do to the messages: they
\* take them from the queue into a batch, from a batch into a group, or drop them.
Passes ==
    /\ UNCHANGED <<seqno, handled>>
    /\ active' \subseteq active
    /\ \A w \in Workers : Range(got'[w]) \subseteq Range(got[w]) \cup batch[w]
    /\ \A w \in Workers : batch'[w] \subseteq batch[w] \cup active

LEMMA LeaveLoopPasses ==
    ASSUME WorkerTypeOK, NEW w \in Workers, NEW msgs \in Seq(Events), LeaveLoop(w, msgs),
           Range(msgs) \subseteq Range(got[w]) \cup batch[w],
           UNCHANGED <<seqno, handled>>, active' \subseteq active
    PROVE  Passes
  BY DEF LeaveLoop, WorkerTypeOK, Passes

LEMMA NextMessagePasses ==
    ASSUME IndInv, NEW w \in Workers, pc[w] = "settle", NEW e \in Oldest(batch[w]),
           NextMessage(w, e), UNCHANGED <<seqno, handled>>, active' \subseteq active
    PROVE  Passes
<1>1. /\ WorkerTypeOK /\ e \in batch[w]
      /\ Range(Append(got[w], e)) = Range(got[w]) \cup {e}
  BY Parts, SettledMessage DEF WorkerPart
<1> QED
  BY <1>1 DEF NextMessage, WorkerTypeOK, Passes

LEMMA ConsumerPasses ==
    ASSUME IndInv, NEW w \in Workers, Step(w) \/ Fault(w), ~Handle(w)
    PROVE  Passes
<1>0. WorkerTypeOK /\ RestTypeOK /\ got[w] \in Seq(Events)
  BY Parts DEF WorkerPart, WorkerTypeOK
<1> USE DEF brokerVars, workerVars
<1>1. CASE Accept(w) \/ FinalReceive(w) \/ LockExpire(w)
  BY <1>0, <1>1 DEF Accept, FinalReceive, LockExpire, Passes
<1>2. CASE Receive(w)
  <2>1. PICK B \in SUBSET Pending(sess[w]) : batch' = [batch EXCEPT ![w] = B]
    BY <1>2 DEF Receive, Batches
  <2> QED
    BY <1>0, <1>2, <2>1 DEF Receive, WorkerTypeOK, Pending, Passes
<1>3. CASE ReceiveEmpty(w) \/ FinalEmpty(w) \/ ReceiveError(w)
  <2>1. /\ UNCHANGED <<seqno, active, handled>>
        /\ LeaveLoop(w, got[w]) \/ UNCHANGED <<batch, got>>
    BY <1>3 DEF ReceiveEmpty, FinalEmpty, ReceiveError
  <2>2. CASE LeaveLoop(w, got[w])
    BY <1>0, <2>1, <2>2, LeaveLoopPasses
  <2> QED
    BY <2>1, <2>2 DEF Passes
<1>4. CASE Complete(w)
  BY <1>4, NextMessagePasses DEF Complete
<1>5. CASE Abandon(w)
  BY <1>5, NextMessagePasses DEF Abandon
<1>6. CASE SettleError(w)
  <2>1. PICK e \in Oldest(batch[w]) :
          /\ pc[w] = "settle" /\ LeaveLoop(w, Append(got[w], e))
          /\ active' \subseteq active /\ UNCHANGED <<seqno, handled>>
    BY <1>6 DEF SettleError
  <2>2. /\ e \in batch[w] /\ Append(got[w], e) \in Seq(Events)
        /\ Range(Append(got[w], e)) = Range(got[w]) \cup {e}
    BY <2>1, SettledMessage
  <2>3. PICK msgs \in Seq(Events) :
          LeaveLoop(w, msgs) /\ Range(msgs) \subseteq Range(got[w]) \cup batch[w]
    BY <2>1, <2>2
  <2> QED
    BY <1>0, <2>1, <2>3, LeaveLoopPasses
<1>7. CASE Crash(w)
  BY <1>0, <1>7, RangeOfEmpty DEF Crash, WorkerTypeOK, Passes
<1> QED
  BY <1>1, <1>2, <1>3, <1>4, <1>5, <1>6, <1>7 DEF Step, Fault

\* Handle moves a turn out of the group of one worker.
LEMMA HandleMoves ==
    ASSUME IndInv, NEW w \in Workers, Handle(w)
    PROVE  /\ UNCHANGED <<seqno, active, batch>>
           /\ Range(got[w]) = Range(TurnOf(w)) \cup Range(got'[w])
           /\ \A v \in Workers \ {w} : got'[v] = got[v]
           /\ sess[w] \in Sessions
           /\ Range(handled'[sess[w]]) = Range(handled[sess[w]]) \cup Range(TurnOf(w))
           /\ \A s \in Sessions \ {sess[w]} : handled'[s] = handled[s]
           /\ \A e \in Range(TurnOf(w)) : SessionOf[e] = sess[w]
<1>1. /\ pc[w] = "handle"
      /\ handled' = [handled EXCEPT ![sess[w]] = @ \o TurnOf(w)]
      /\ got' = [got EXCEPT ![w] = RestOf(w)]
      /\ UNCHANGED <<brokerVars, batch, nacked, spent>>
  BY DEF Handle
<1>2. /\ TypeOK /\ got \in [Workers -> Seq(Events)] /\ handled \in [Sessions -> Seq(Events)]
      /\ got[w] # <<>> /\ sess[w] \in Sessions
      /\ \A e \in Range(got[w]) : SessionOf[e] = sess[w]
  BY <1>1 DEF IndInv, TypeOK, WorkersOK, GroupsStayInTheirSession
<1>3. /\ TurnOf(w) \in Seq(Events)
      /\ Range(got[w]) = Range(TurnOf(w)) \cup Range(RestOf(w))
  BY <1>2, TurnAndRest
<1>4. Range(handled[sess[w]] \o TurnOf(w)) = Range(handled[sess[w]]) \cup Range(TurnOf(w))
  BY <1>2, <1>3, RangeOfConcat
<1> QED
  BY <1>1, <1>2, <1>3, <1>4 DEF brokerVars

LEMMA KnownInit == Init => KnownOK
  BY RangeOfEmpty DEF Init, KnownOK

LEMMA KnownStep == IndInv /\ KnownOK /\ [Next]_vars => KnownOK'
<1> SUFFICES ASSUME IndInv, KnownOK, [Next]_vars PROVE KnownOK'
  OBVIOUS
<1>1. ASSUME NEW e \in Events, Publish(e) PROVE KnownOK'
  <2>1. Accepted \subseteq Accepted' /\ UNCHANGED <<batch, got, handled>>
    BY <1>1, NextSeqnoType DEF Publish, Enqueue, Accepted, IndInv, TypeOK, workerVars
  <2> QED
    BY <2>1 DEF KnownOK
<1>2. ASSUME Passes PROVE KnownOK'
  <2>1. Accepted' = Accepted /\ active \subseteq Accepted
    BY <1>2 DEF Passes, Accepted, IndInv, TypeOK
  <2> QED
    BY <1>2, <2>1 DEF Passes, KnownOK
<1>3. ASSUME NEW w \in Workers, Handle(w) PROVE KnownOK'
  <2>1. Accepted' = Accepted
    BY <1>3, HandleMoves DEF Accepted
  <2>2. ASSUME NEW v \in Workers PROVE (batch[v] \cup Range(got[v]) \subseteq Accepted)'
    BY <1>3, <2>1, HandleMoves DEF KnownOK
  <2>3. ASSUME NEW s \in Sessions PROVE (Range(handled[s]) \subseteq Accepted)'
    BY <1>3, <2>1, HandleMoves DEF KnownOK
  <2> QED
    BY <2>2, <2>3 DEF KnownOK
<1>4. CASE UNCHANGED vars
  BY <1>4 DEF vars, brokerVars, workerVars, KnownOK, Accepted
<1> QED
  BY <1>1, <1>2, <1>3, <1>4, ConsumerPasses DEF Next, ConsumerNext

\* The variables of EventDelivery, as ImplementsDelivery maps them.
Delivered == {e \in Events : HandledOnce(e)}
Awaited == {e \in Accepted : ~HandledOnce(e)} \ Lost

LEMMA LostMeans ==
    ASSUME NEW e
    PROVE  e \in Lost <=> /\ e \in Accepted /\ e \notin active /\ ~HandledOnce(e)
                          /\ \A w \in Workers : e \notin batch[w] \cup Range(got[w])
  BY DEF Lost, Vanished, Carried

LEMMA LostMeansNext ==
    ASSUME NEW CONSTANT e
    PROVE  (e \in Lost)' <=> /\ (e \in Accepted)' /\ e \notin active' /\ ~HandledOnce(e)'
                             /\ \A w \in Workers : e \notin batch'[w] \cup Range(got'[w])
  BY DEF Lost, Vanished, Carried

\* A step of that kind loses some events, or none.
LEMMA PassesLose ==
    ASSUME IndInv, Passes
    PROVE  /\ Awaited' \subseteq Awaited
           /\ Lost' = Lost \cup (Awaited \ Awaited')
           /\ Delivered' = Delivered
<1>1. Accepted' = Accepted /\ Delivered' = Delivered /\ \A e : HandledOnce(e)' = HandledOnce(e)
  BY DEF Passes, Accepted, Delivered, HandledOnce
<1>2. Lost \subseteq Lost'
  BY <1>1, LostMeans, LostMeansNext DEF Passes
<1>3. Lost' \subseteq {e \in Accepted : ~HandledOnce(e)}
  BY <1>1, LostMeansNext
<1> QED
  BY <1>1, <1>2, <1>3 DEF Awaited

\* A publish offers an event, which no other part of the system knows yet.
LEMMA PublishOffers ==
    ASSUME IndInv, KnownOK, NEW e \in Events, Publish(e)
    PROVE  /\ e \notin Awaited \cup Delivered \cup Lost
           /\ Awaited' = Awaited \cup {e}
           /\ Delivered' = Delivered /\ Lost' = Lost
<1>1. /\ Accepted' = Accepted \cup {e} /\ e \notin Accepted
      /\ active' = active \cup {e} /\ UNCHANGED <<batch, got, handled>>
  BY NextSeqnoType DEF Publish, Enqueue, Accepted, IndInv, TypeOK, workerVars
<1>2. ~HandledOnce(e) /\ \A f : HandledOnce(f)' = HandledOnce(f)
  BY <1>1, EventsAssumption DEF KnownOK, HandledOnce
<1>3. Lost' = Lost /\ e \notin Lost
  BY <1>1, <1>2, LostMeans, LostMeansNext
<1>4. Delivered' = Delivered /\ e \notin Delivered
  BY <1>2 DEF Delivered
<1> QED
  BY <1>1, <1>2, <1>3, <1>4 DEF Awaited

\* Handling a turn delivers what of it was not handled before.
LEMMA HandleDelivers ==
    ASSUME IndInv, KnownOK, NEW w \in Workers, Handle(w)
    PROVE  /\ Awaited' \subseteq Awaited
           /\ Delivered' = Delivered \cup (Awaited \ Awaited')
           /\ Lost' = Lost
<1> DEFINE Turn == Range(TurnOf(w))
<1>1. /\ Accepted' = Accepted /\ active' = active /\ batch' = batch
      /\ Turn \subseteq Range(got[w])
      /\ \A v \in Workers : Range(got'[v]) \subseteq Range(got[v])
      /\ \A v \in Workers : Range(got[v]) \subseteq Range(got'[v]) \cup Turn
  BY HandleMoves DEF Accepted
<1>2. Turn \subseteq Accepted /\ Accepted \subseteq Events
  BY <1>1 DEF KnownOK, Accepted
<1>3. \A e \in Events : HandledOnce(e)' <=> HandledOnce(e) \/ e \in Turn
  <2> SUFFICES ASSUME NEW e \in Events
               PROVE  HandledOnce(e)' <=> HandledOnce(e) \/ e \in Turn
    OBVIOUS
  <2>1. CASE SessionOf[e] = sess[w]
    BY <2>1, HandleMoves DEF HandledOnce
  <2>2. CASE SessionOf[e] # sess[w]
    BY <2>2, HandleMoves, EventsAssumption DEF HandledOnce
  <2> QED
    BY <2>1, <2>2
<1>4. Turn \cap Lost = {}
  BY <1>1, LostMeans
<1> HIDE DEF Turn
<1>5. ASSUME NEW CONSTANT e PROVE (e \in Lost)' <=> e \in Lost
  BY <1>1, <1>2, <1>3, LostMeans, LostMeansNext
<1>6. Lost' = Lost
  BY <1>5
<1>7. Delivered' = Delivered \cup Turn
  BY <1>2, <1>3 DEF Delivered
<1>8. Awaited' = Awaited \ Turn
  BY <1>1, <1>2, <1>3, <1>6 DEF Awaited
<1>9. Turn \subseteq Delivered \cup Awaited
  BY <1>2, <1>4 DEF Delivered, Awaited
<1> QED
  BY <1>6, <1>7, <1>8, <1>9

LEMMA RefinesInit == Init => Delivery!Init
<1> SUFFICES ASSUME Init PROVE Delivery!Init
  OBVIOUS
<1>1. Accepted = {} /\ Lost = {}
  BY DEF Init, Accepted, Lost, Vanished
<1>2. \A e \in Events : ~HandledOnce(e)
  BY EventsAssumption, RangeOfEmpty DEF Init, HandledOnce
<1> QED
  BY <1>1, <1>2 DEF Delivery!Init

LEMMA RefinesStep ==
    IndInv /\ KnownOK /\ [Next]_vars => [Delivery!Next]_Delivery!vars
<1> SUFFICES ASSUME IndInv, KnownOK, [Next]_vars PROVE [Delivery!Next]_Delivery!vars
  OBVIOUS
<1> USE DEF Delivery!Next, Delivery!Gone, Awaited, Delivered
<1>1. ASSUME NEW e \in Events, Publish(e) PROVE Delivery!Next
  BY <1>1, PublishOffers DEF Delivery!Offer
<1>2. ASSUME Passes PROVE Delivery!Next
  BY <1>2, PassesLose DEF Delivery!Lose
<1>3. ASSUME NEW w \in Workers, Handle(w) PROVE Delivery!Next
  BY <1>3, HandleDelivers DEF Delivery!Deliver
<1>4. CASE UNCHANGED vars
  BY <1>4 DEF vars, brokerVars, workerVars, Delivery!vars, Accepted, Lost, Vanished, Carried,
     HandledOnce
<1> QED
  BY <1>1, <1>2, <1>3, <1>4, ConsumerPasses DEF Next, ConsumerNext

\* Seen from outside the queue is EventDelivery: whatever is redelivered and
\* whoever crashes, an accepted event is awaited, then delivered or lost, and
\* neither is undone.
THEOREM QueueImplementsDelivery == Spec => ImplementsDelivery
<1>1. Init => IndInv /\ KnownOK /\ Delivery!Init
  BY IndInit, KnownInit, RefinesInit
<1>2. IndInv /\ KnownOK /\ [Next]_vars => IndInv' /\ KnownOK'
  BY IndStep, KnownStep
<1>3. IndInv /\ KnownOK /\ [Next]_vars => [Delivery!Next]_Delivery!vars
  BY RefinesStep
<1> QED
  BY <1>1, <1>2, <1>3, PTL DEF Spec, ImplementsDelivery, Delivery!Spec

-----------------------------------------------------------------------------
(* Handled at most once                                                    *)

\* An event occurs at most once in a sequence.
Single(q, e) == \A i, j \in DOMAIN q : q[i] = e /\ q[j] = e => i = j

LEMMA SingleInAppend ==
    ASSUME NEW S, NEW q \in Seq(S), NEW e \in S, NEW f,
           Single(q, f), f = e => f \notin Range(q)
    PROVE  Single(Append(q, e), f)
<1>1. /\ Len(q) \in Nat /\ DOMAIN q = 1..Len(q)
      /\ DOMAIN Append(q, e) = 1..(Len(q) + 1)
      /\ \A i \in 1..Len(q) : Append(q, e)[i] = q[i]
      /\ Append(q, e)[Len(q) + 1] = e
  OBVIOUS
<1>2. 1..(Len(q) + 1) = 1..Len(q) \cup {Len(q) + 1}
  BY <1>1
<1> QED
  BY <1>1, <1>2 DEF Single, Range

LEMMA SingleInConcat ==
    ASSUME NEW S, NEW q \in Seq(S), NEW r \in Seq(S), NEW f,
           Single(q, f), Single(r, f), f \notin Range(q) \cap Range(r)
    PROVE  Single(q \o r, f)
<1> DEFINE m == Len(q)
           n == Len(r)
<1>1. /\ m \in Nat /\ n \in Nat /\ DOMAIN q = 1..m /\ DOMAIN r = 1..n
      /\ DOMAIN (q \o r) = 1..(m + n)
  OBVIOUS
<1>2. /\ \A i \in 1..m : (q \o r)[i] = q[i]
      /\ \A i \in 1..n : (q \o r)[m + i] = r[i]
  OBVIOUS
<1> HIDE DEF m, n
<1>3. \A i \in 1..(m + n) : i \in 1..m \/ (i - m \in 1..n /\ (q \o r)[i] = r[i - m])
  <2> TAKE i \in 1..(m + n)
  <2>1. CASE i > m
    <3>1. i - m \in 1..n /\ i = m + (i - m)
      BY <2>1, <1>1
    <3> QED
      BY <3>1, <1>2
  <2> QED
    BY <2>1, <1>1
<1> SUFFICES ASSUME NEW i \in 1..(m + n), NEW j \in 1..(m + n),
                    (q \o r)[i] = f, (q \o r)[j] = f
             PROVE  i = j
  BY <1>1 DEF Single
<1>4. CASE i \in 1..m /\ j \in 1..m
  BY <1>1, <1>2, <1>4 DEF Single
<1>5. CASE i \notin 1..m /\ j \notin 1..m
  <2>1. i - m = j - m
    BY <1>1, <1>3, <1>5 DEF Single
  <2> QED
    BY <1>1, <2>1
<1>6. CASE i \in 1..m /\ j \notin 1..m
  BY <1>1, <1>2, <1>3, <1>6 DEF Range
<1>7. CASE i \notin 1..m /\ j \in 1..m
  BY <1>1, <1>2, <1>3, <1>7 DEF Range
<1> QED
  BY <1>4, <1>5, <1>6, <1>7

LEMMA SingleInTail ==
    ASSUME NEW S, NEW q \in Seq(S), q # <<>>, NEW f, Single(q, f)
    PROVE  Single(Tail(q), f) /\ f \notin {Head(q)} \cap Range(Tail(q))
<1> DEFINE n == Len(q)
<1>1. /\ n \in Nat /\ n > 0 /\ Head(q) = q[1] /\ DOMAIN q = 1..n
      /\ DOMAIN Tail(q) = 1..(n - 1)
      /\ \A i \in 1..(n - 1) : Tail(q)[i] = q[i + 1]
  OBVIOUS
<1> HIDE DEF n
<1>2. 1 \in 1..n /\ \A i \in 1..(n - 1) : i + 1 \in 1..n /\ i + 1 # 1
  BY <1>1
<1>3. Single(Tail(q), f)
  <2> SUFFICES ASSUME NEW i \in 1..(n - 1), NEW j \in 1..(n - 1),
                      Tail(q)[i] = f, Tail(q)[j] = f
               PROVE  i = j
    BY <1>1 DEF Single
  <2>1. i + 1 = j + 1
    BY <1>1, <1>2 DEF Single
  <2> QED
    BY <2>1
<1>4. f \notin {Head(q)} \cap Range(Tail(q))
  BY <1>1, <1>2 DEF Single, Range
<1> QED
  BY <1>3, <1>4

LEMMA SingleInOne == ASSUME NEW e, NEW f PROVE Single(<<e>>, f) /\ Single(<<>>, f)
  BY DEF Single

LEMMA TurnAndRestSingle ==
    ASSUME TypeOK, NEW w \in Workers, got[w] # <<>>, NEW f, Single(got[w], f)
    PROVE  /\ Single(TurnOf(w), f) /\ Single(RestOf(w), f)
           /\ f \notin Range(TurnOf(w)) \cap Range(RestOf(w))
<1>1. got[w] \in Seq(Events)
  BY DEF TypeOK
<1>2. CASE sess[w] \in ChatSessions
  BY <1>1, <1>2, RangeOfEmpty, SingleInOne DEF TurnOf, RestOf
<1>3. CASE sess[w] \notin ChatSessions
  BY <1>1, <1>3, RangeOfTail, RangeOfOne, SingleInOne, SingleInTail DEF TurnOf, RestOf
<1> QED
  BY <1>2, <1>3

\* Where an event is: in the queue, in the group of one worker, or handled.
AtOnePlace(e) ==
    /\ \A w \in Workers : e \in Range(got[w]) =>
          e \notin active /\ \A v \in Workers \ {w} : e \notin Range(got[v])
    /\ \A s \in Sessions : e \in Range(handled[s]) =>
          e \notin active /\ \A w \in Workers : e \notin Range(got[w])
    /\ \A w \in Workers : Single(got[w], e)
    /\ \A s \in Sessions : Single(handled[s], e)

\* An event of which every acknowledgement reached the broker has one place, and
\* what a worker has received and can still acknowledge is in the queue.
OnceInv ==
    /\ \A e \in Events \ nacked : AtOnePlace(e)
    /\ \A w \in Workers : pc[w] # "accept" /\ Holds(w) => batch[w] \subseteq active

LEMMA OnceInit == Init => OnceInv
<1> SUFFICES ASSUME Init PROVE OnceInv
  OBVIOUS
<1>1. ASSUME NEW e \in Events PROVE AtOnePlace(e)
  BY RangeOfEmpty, SingleInOne DEF Init, AtOnePlace
<1>2. \A w \in Workers : pc[w] = "accept"
  BY DEF Init
<1> QED
  BY <1>1, <1>2 DEF OnceInv

\* Groups are kept or dropped, and nothing else moves.
LEMMA DroppedGroupsOnce ==
    ASSUME OnceInv, UNCHANGED <<handled, nacked, active>>,
           \A w \in Workers : got'[w] = got[w] \/ got'[w] = <<>>
    PROVE  \A e \in Events \ nacked' : AtOnePlace(e)'
<1> SUFFICES ASSUME NEW CONSTANT e \in Events, e \notin nacked PROVE AtOnePlace(e)'
  OBVIOUS
<1>1. AtOnePlace(e)
  BY DEF OnceInv
<1>2. \A w \in Workers : /\ e \in Range(got'[w]) => e \in Range(got[w])
                         /\ Single(got'[w], e)
  BY <1>1, RangeOfEmpty, SingleInOne DEF AtOnePlace
<1> QED
  BY <1>1, <1>2 DEF AtOnePlace

\* A message joins the group of the worker that received it: either it leaves
\* the queue, or its acknowledgement counts as failed.
LEMMA SettledOnce ==
    ASSUME IndInv, OnceInv, NEW w \in Workers, pc[w] = "settle",
           NEW e \in Oldest(batch[w]),
           got' = [got EXCEPT ![w] = Append(got[w], e)],
           handled' = handled, active' \subseteq active, nacked \subseteq nacked',
           (e \in active /\ e \notin active') \/ e \in nacked'
    PROVE  \A f \in Events \ nacked' : AtOnePlace(f)'
<1>1. /\ e \in Events /\ got[w] \in Seq(Events) /\ got \in [Workers -> Seq(Events)]
      /\ Range(Append(got[w], e)) = Range(got[w]) \cup {e}
  BY SettledMessage DEF IndInv, TypeOK
<1>2. /\ got'[w] = Append(got[w], e) /\ \A v \in Workers \ {w} : got'[v] = got[v]
      /\ Range(got'[w]) = Range(got[w]) \cup {e}
  BY <1>1
<1> SUFFICES ASSUME NEW CONSTANT f \in Events, f \notin nacked' PROVE AtOnePlace(f)'
  OBVIOUS
<1>3. AtOnePlace(f)
  BY DEF OnceInv
<1>4. CASE f # e
  <2>1. Single(got'[w], f)
    BY <1>1, <1>2, <1>3, <1>4, SingleInAppend DEF AtOnePlace
  <2> QED
    BY <1>2, <1>3, <1>4, <2>1 DEF AtOnePlace
<1>5. CASE f = e
  <2>1. e \in active /\ e \notin active'
    BY <1>5
  <2>2. /\ \A v \in Workers : e \notin Range(got[v])
        /\ \A s \in Sessions : e \notin Range(handled[s])
    BY <1>3, <1>5, <2>1 DEF AtOnePlace
  <2>3. Single(got'[w], e)
    BY <1>1, <1>2, <1>3, <1>5, <2>2, SingleInAppend DEF AtOnePlace
  <2> QED
    BY <1>2, <1>3, <1>5, <2>1, <2>2, <2>3 DEF AtOnePlace
<1> QED
  BY <1>4, <1>5

\* Nobody else takes from the queue what a worker received under its lock.
LEMMA BatchesStay ==
    ASSUME IndInv, OnceInv, NEW w \in Workers,
           \A v \in Workers \ {w} :
              /\ pc'[v] = pc[v] /\ sess'[v] = sess[v] /\ batch'[v] = batch[v]
              /\ pc[v] # "accept" /\ lock'[sess[v]] = v => lock[sess[v]] = v,
           \A f \in active \ active' : Holds(w) /\ SessionOf[f] = sess[w],
           pc'[w] = "accept" \/ batch'[w] \subseteq active' \/ lock'[sess'[w]] # w
    PROVE  (\A v \in Workers : pc[v] # "accept" /\ Holds(v) => batch[v] \subseteq active)'
<1> SUFFICES ASSUME NEW v \in Workers, pc'[v] # "accept", lock'[sess'[v]] = v
             PROVE  batch'[v] \subseteq active'
  BY DEF Holds
<1>1. CASE v = w
  BY <1>1
<1>2. CASE v # w
  <2>1. pc[v] # "accept" /\ Holds(v) /\ batch'[v] = batch[v]
    BY <1>2 DEF Holds
  <2>2. batch[v] \subseteq active /\ \A f \in batch[v] : SessionOf[f] = sess[v]
    BY <2>1 DEF OnceInv, IndInv, WorkersOK
  <2>3. Holds(w) => sess[v] # sess[w]
    BY <1>2, <2>1 DEF Holds
  <2> QED
    BY <2>1, <2>2, <2>3
<1> QED
  BY <1>1, <1>2

\* The collecting loop is left: what was received is no longer at hand.
LEMMA LeaveLoopStays ==
    ASSUME IndInv, OnceInv, NEW w \in Workers, pc[w] # "accept",
           NEW msgs \in Seq(Events), LeaveLoop(w, msgs),
           \A f \in active \ active' : Holds(w) /\ SessionOf[f] = sess[w]
    PROVE  /\ (\A v \in Workers : pc[v] # "accept" /\ Holds(v) => batch[v] \subseteq active)'
           /\ got' = [got EXCEPT ![w] = msgs]
<1>1. WorkerTypeOK /\ WorkersOK
  BY Parts DEF WorkerPart
<1>2. /\ got' = [got EXCEPT ![w] = msgs] /\ batch' = [batch EXCEPT ![w] = {}]
      /\ \/ Release(w)
         \/ pc' = [pc EXCEPT ![w] = "handle"] /\ UNCHANGED <<lock, sess>>
  BY DEF LeaveLoop
<1>3. /\ batch'[w] = {}
      /\ \A v \in Workers \ {w} :
              /\ pc'[v] = pc[v] /\ sess'[v] = sess[v] /\ batch'[v] = batch[v]
              /\ pc[v] # "accept" /\ lock'[sess[v]] = v => lock[sess[v]] = v
  BY <1>1, <1>2, NoneAssumption DEF Release, WorkerTypeOK, WorkersOK
<1> QED
  BY <1>2, <1>3, BatchesStay

LEMMA OnceStep == IndInv /\ KnownOK /\ OnceInv /\ [Next]_vars => OnceInv'
<1> SUFFICES ASSUME IndInv, KnownOK, OnceInv, [Next]_vars PROVE OnceInv'
  OBVIOUS
<1> DEFINE Live == \A v \in Workers : pc[v] # "accept" /\ Holds(v) => batch[v] \subseteq active
           Once == \A e \in Events \ nacked : AtOnePlace(e)
<1>0. WorkerTypeOK /\ WorkersOK /\ OnceInv' = (Once' /\ Live')
  BY Parts DEF WorkerPart, OnceInv
<1> USE DEF brokerVars, workerVars
<1>1. ASSUME NEW e \in Events, Publish(e) PROVE OnceInv'
  <2>1. /\ e \notin Accepted /\ active' = active \cup {e}
        /\ UNCHANGED <<lock, pc, sess, batch, got, handled, nacked>>
    BY <1>1 DEF Publish, Enqueue, Accepted
  <2>2. Live'
    BY <2>1 DEF OnceInv, Holds
  <2>3. ASSUME NEW CONSTANT f \in Events, f \notin nacked PROVE AtOnePlace(f)'
    <3>1. AtOnePlace(f)
      BY <2>3 DEF OnceInv
    <3>2. /\ \A w \in Workers : e \notin Range(got[w])
          /\ \A s \in Sessions : e \notin Range(handled[s])
      BY <2>1 DEF KnownOK
    <3> QED
      BY <2>1, <3>1, <3>2 DEF AtOnePlace
  <2> QED
    BY <1>0, <2>1, <2>2, <2>3
<1>2. ASSUME NEW w \in Workers, Accept(w) PROVE OnceInv'
  <2>1. PICK s \in Sessions :
          /\ pc[w] = "accept" /\ lock[s] = NoWorker
          /\ lock' = [lock EXCEPT ![s] = w] /\ sess' = [sess EXCEPT ![w] = s]
          /\ pc' = [pc EXCEPT ![w] = "collect"]
          /\ UNCHANGED <<active, batch, got, handled, nacked>>
    BY <1>2 DEF Accept
  <2>2. Once'
    BY <2>1, DroppedGroupsOnce
  <2>3. /\ batch'[w] = {}
        /\ \A v \in Workers \ {w} :
              /\ pc'[v] = pc[v] /\ sess'[v] = sess[v] /\ batch'[v] = batch[v]
              /\ pc[v] # "accept" /\ lock'[sess[v]] = v => lock[sess[v]] = v
    BY <1>0, <2>1 DEF WorkerTypeOK, WorkersOK
  <2>4. Live'
    BY <2>1, <2>3, BatchesStay
  <2> QED
    BY <1>0, <2>2, <2>4
<1>3. ASSUME NEW w \in Workers, Receive(w) PROVE OnceInv'
  <2>1. PICK B \in SUBSET Pending(sess[w]) : batch' = [batch EXCEPT ![w] = B]
    BY <1>3 DEF Receive, Batches
  <2>2. B \subseteq active
    BY DEF Pending
  <2>3. Live'
    BY <1>0, <1>3, <2>1, <2>2, BatchesStay DEF Receive, WorkerTypeOK
  <2>4. Once'
    BY <1>3, DroppedGroupsOnce DEF Receive
  <2> QED
    BY <1>0, <2>3, <2>4
<1>4. ASSUME NEW w \in Workers, ReceiveEmpty(w) \/ FinalEmpty(w) \/ ReceiveError(w) PROVE OnceInv'
  <2>1. /\ pc[w] \in {"collect", "final"} /\ UNCHANGED <<active, handled, nacked>>
        /\ \/ LeaveLoop(w, got[w])
           \/ pc' = [pc EXCEPT ![w] = "final"] /\ UNCHANGED <<lock, sess, batch, got>>
    BY <1>4 DEF ReceiveEmpty, FinalEmpty, ReceiveError
  <2>2. CASE LeaveLoop(w, got[w])
    <3>1. PICK msgs \in Seq(Events) : msgs = got[w]
      BY <1>0 DEF WorkerTypeOK
    <3>2. Live' /\ got' = [got EXCEPT ![w] = got[w]]
      BY <2>1, <2>2, <3>1, LeaveLoopStays
    <3>3. Once'
      BY <1>0, <2>1, <3>2, DroppedGroupsOnce DEF WorkerTypeOK
    <3> QED
      BY <1>0, <3>2, <3>3
  <2>3. CASE pc' = [pc EXCEPT ![w] = "final"] /\ UNCHANGED <<lock, sess, batch, got>>
    <3>1. Once'
      BY <2>1, <2>3, DroppedGroupsOnce
    <3>2. Live'
      BY <1>0, <2>1, <2>3 DEF OnceInv, Holds, WorkerTypeOK
    <3> QED
      BY <1>0, <3>1, <3>2
  <2> QED
    BY <2>1, <2>2, <2>3
<1>5. ASSUME NEW w \in Workers, FinalReceive(w) PROVE OnceInv'
  <2>1. Once'
    BY <1>5, DroppedGroupsOnce DEF FinalReceive
  <2>2. Live'
    BY <1>0, <1>5 DEF FinalReceive, OnceInv, Holds, WorkerTypeOK
  <2> QED
    BY <1>0, <2>1, <2>2
<1>6. ASSUME NEW w \in Workers, Complete(w) \/ Abandon(w) PROVE OnceInv'
  <2>1. PICK e \in Oldest(batch[w]) :
          /\ pc[w] = "settle" /\ Holds(w) /\ NextMessage(w, e) /\ handled' = handled
          /\ \/ active' = active \ {e} /\ nacked' = nacked
             \/ active' = active /\ nacked' = nacked \cup {e}
    BY <1>6 DEF Complete, Abandon
  <2>2. e \in active /\ e \in batch[w] /\ SessionOf[e] = sess[w] /\ batch[w] \subseteq active
    BY <2>1, SettledMessage DEF OnceInv
  <2>3. Once'
    BY <2>1, <2>2, SettledOnce DEF NextMessage
  <2>4. /\ batch'[w] = batch[w] \ {e} /\ UNCHANGED <<lock, sess>>
        /\ \A v \in Workers \ {w} : pc'[v] = pc[v] /\ batch'[v] = batch[v]
    BY <1>0, <2>1 DEF NextMessage, WorkerTypeOK
  <2>5. Live'
    BY <2>1, <2>2, <2>4, BatchesStay
  <2> QED
    BY <1>0, <2>3, <2>5
<1>7. ASSUME NEW w \in Workers, SettleError(w) PROVE OnceInv'
  <2>1. PICK e \in Oldest(batch[w]) :
          /\ pc[w] = "settle" /\ LeaveLoop(w, Append(got[w], e)) /\ handled' = handled
          /\ \/ Holds(w) /\ active' = active \ {e} /\ nacked' = nacked
             \/ active' = active /\ nacked' = nacked \cup {e}
    BY <1>7 DEF SettleError
  <2>2. SessionOf[e] = sess[w] /\ Append(got[w], e) \in Seq(Events) /\ e \in batch[w]
    BY <2>1, SettledMessage
  <2>3. PICK msgs \in Seq(Events) : msgs = Append(got[w], e) /\ LeaveLoop(w, msgs)
    BY <2>1, <2>2
  <2>4. Live' /\ got' = [got EXCEPT ![w] = Append(got[w], e)]
    BY <2>1, <2>2, <2>3, LeaveLoopStays
  <2>5. Holds(w) => e \in active
    BY <2>1, <2>2 DEF OnceInv
  <2>6. Once'
    BY <2>1, <2>4, <2>5, SettledOnce
  <2> QED
    BY <1>0, <2>4, <2>6
<1>8. ASSUME NEW w \in Workers, Handle(w) PROVE OnceInv'
  <2>1. /\ pc[w] = "handle" /\ got' = [got EXCEPT ![w] = RestOf(w)]
        /\ handled' = [handled EXCEPT ![sess[w]] = @ \o TurnOf(w)]
        /\ UNCHANGED <<active, batch, nacked>>
        /\ Release(w) \/ UNCHANGED <<lock, pc, sess>>
    BY <1>8 DEF Handle
  <2>2. /\ TypeOK /\ got[w] # <<>> /\ batch[w] = {} /\ sess[w] \in Sessions
        /\ handled \in [Sessions -> Seq(Events)] /\ got \in [Workers -> Seq(Events)]
    BY <2>1 DEF IndInv, TypeOK, WorkersOK
  <2>3. \A v \in Workers \ {w} :
              /\ pc'[v] = pc[v] /\ sess'[v] = sess[v] /\ batch'[v] = batch[v]
              /\ pc[v] # "accept" /\ lock'[sess[v]] = v => lock[sess[v]] = v
    BY <1>0, <2>1, NoneAssumption DEF Release, WorkerTypeOK, WorkersOK
  <2>4. Live'
    BY <2>1, <2>2, <2>3, BatchesStay
  <2>5. ASSUME NEW CONSTANT e \in Events, e \notin nacked PROVE AtOnePlace(e)'
    <3>1. AtOnePlace(e)
      BY <2>5 DEF OnceInv
    <3>2. /\ TurnOf(w) \in Seq(Events)
          /\ Range(got[w]) = Range(TurnOf(w)) \cup Range(RestOf(w))
          /\ Single(TurnOf(w), e) /\ Single(RestOf(w), e)
          /\ e \notin Range(TurnOf(w)) \cap Range(RestOf(w))
      BY <2>2, <3>1, TurnAndRest, TurnAndRestSingle DEF AtOnePlace
    <3>3. /\ Range(handled[sess[w]] \o TurnOf(w)) = Range(handled[sess[w]]) \cup Range(TurnOf(w))
          /\ Single(handled[sess[w]] \o TurnOf(w), e)
      BY <2>2, <3>1, <3>2, RangeOfConcat, SingleInConcat DEF AtOnePlace
    <3>4. /\ got'[w] = RestOf(w) /\ \A v \in Workers \ {w} : got'[v] = got[v]
          /\ handled'[sess[w]] = handled[sess[w]] \o TurnOf(w)
          /\ \A s \in Sessions \ {sess[w]} : handled'[s] = handled[s]
      BY <2>1, <2>2
    <3>5. \A v \in Workers : e \in Range(got'[v]) =>
             /\ e \in Range(got[v])
             /\ e \notin active' /\ \A u \in Workers \ {v} : e \notin Range(got'[u])
      BY <2>1, <3>1, <3>2, <3>4 DEF AtOnePlace
    <3>6. \A s \in Sessions : e \in Range(handled'[s]) =>
             e \notin active' /\ \A v \in Workers : e \notin Range(got'[v])
      <4>1. CASE e \in Range(TurnOf(w))
        BY <2>1, <3>1, <3>2, <3>4, <4>1 DEF AtOnePlace
      <4>2. CASE e \notin Range(TurnOf(w))
        <5>1. \A s \in Sessions : e \in Range(handled'[s]) => e \in Range(handled[s])
          BY <3>3, <3>4, <4>2
        <5> QED
          BY <2>1, <3>1, <3>5, <5>1 DEF AtOnePlace
      <4> QED
        BY <4>1, <4>2
    <3>7. /\ \A v \in Workers : Single(got'[v], e)
          /\ \A s \in Sessions : Single(handled'[s], e)
      BY <3>1, <3>2, <3>3, <3>4 DEF AtOnePlace
    <3> QED
      BY <3>5, <3>6, <3>7 DEF AtOnePlace
  <2> QED
    BY <1>0, <2>1, <2>4, <2>5
<1>9. ASSUME NEW w \in Workers, LockExpire(w) PROVE OnceInv'
  <2>1. /\ lock' = [lock EXCEPT ![sess[w]] = NoWorker]
        /\ UNCHANGED <<active, pc, sess, batch, got, handled, nacked>>
    BY <1>9 DEF LockExpire
  <2>2. Live'
    BY <1>0, <2>1, NoneAssumption DEF OnceInv, Holds, WorkerTypeOK, WorkersOK
  <2>3. Once'
    BY <2>1, DroppedGroupsOnce
  <2> QED
    BY <1>0, <2>2, <2>3
<1>10. ASSUME NEW w \in Workers, Crash(w) PROVE OnceInv'
  <2>1. /\ Release(w) /\ got' = [got EXCEPT ![w] = <<>>] /\ batch' = [batch EXCEPT ![w] = {}]
        /\ UNCHANGED <<active, handled, nacked>>
    BY <1>10 DEF Crash
  <2>2. /\ pc'[w] = "accept"
        /\ \A v \in Workers \ {w} :
              /\ pc'[v] = pc[v] /\ sess'[v] = sess[v] /\ batch'[v] = batch[v]
              /\ pc[v] # "accept" /\ lock'[sess[v]] = v => lock[sess[v]] = v
    BY <1>0, <2>1, NoneAssumption DEF Release, WorkerTypeOK, WorkersOK
  <2>3. Live'
    BY <2>1, <2>2, BatchesStay
  <2>4. Once'
    BY <1>0, <2>1, DroppedGroupsOnce DEF WorkerTypeOK
  <2> QED
    BY <1>0, <2>3, <2>4
<1>11. CASE UNCHANGED vars
  BY <1>11 DEF vars, OnceInv, AtOnePlace, Holds
<1> HIDE DEF Live, Once
<1> QED
  BY <1>1, <1>2, <1>3, <1>4, <1>5, <1>6, <1>7, <1>8, <1>9, <1>10, <1>11
     DEF Next, ConsumerNext, Step, Fault

\* An event is handled twice only if complete_message failed for it, whatever
\* locks run out and workers crash while the event is in their hands.
THEOREM HandledAtMostOnce == Spec => []AtMostOnceUnlessNacked
<1>1. Init => IndInv /\ KnownOK /\ OnceInv
  BY IndInit, KnownInit, OnceInit
<1>2. IndInv /\ KnownOK /\ OnceInv /\ [Next]_vars => IndInv' /\ KnownOK' /\ OnceInv'
  BY IndStep, KnownStep, OnceStep
<1>3. IndInv /\ OnceInv => AtMostOnceUnlessNacked
  <2> SUFFICES ASSUME IndInv, OnceInv, NEW s \in Sessions,
                      NEW i \in DOMAIN handled[s], NEW j \in DOMAIN handled[s],
                      i # j, handled[s][i] = handled[s][j], handled[s][i] \notin nacked
               PROVE  FALSE
    BY DEF AtMostOnceUnlessNacked
  <2>1. handled[s][i] \in Events
    BY DEF IndInv, TypeOK
  <2> QED
    BY <2>1 DEF OnceInv, AtOnePlace, Single
<1> QED
  BY <1>1, <1>2, <1>3, PTL DEF Spec

-----------------------------------------------------------------------------
(* First handled in order                                                  *)

\* Numbered by f, e comes after all of S.
After(f, e, S) == \A x \in S : f[x] < f[e]

\* What is not in the sequence up to some place comes after all that is.
InOrder(f, q) ==
    \A j \in DOMAIN q : \A i \in 1..(j - 1) :
        (\A k \in 1..i : q[k] # q[j]) => f[q[i]] < f[q[j]]

LEMMA InOrderAppend ==
    ASSUME NEW S, NEW q \in Seq(S), NEW e \in S, NEW f, InOrder(f, q),
           e \in Range(q) \/ After(f, e, Range(q))
    PROVE  InOrder(f, Append(q, e))
<1> DEFINE n == Len(q)
           r == Append(q, e)
<1>1. /\ n \in Nat /\ DOMAIN q = 1..n /\ DOMAIN r = 1..(n + 1)
      /\ \A i \in 1..n : r[i] = q[i]
      /\ r[n + 1] = e
  OBVIOUS
<1> HIDE DEF n, r
<1> SUFFICES ASSUME NEW j \in 1..(n + 1), NEW i \in 1..(j - 1), \A k \in 1..i : r[k] # r[j]
             PROVE  f[r[i]] < f[r[j]]
  BY <1>1 DEF InOrder, r
<1>2. i \in 1..n /\ \A k \in 1..i : k \in 1..n /\ r[k] = q[k]
  BY <1>1
<1>3. CASE j \in 1..n
  BY <1>1, <1>2, <1>3 DEF InOrder
<1>4. CASE j \notin 1..n
  <2>1. r[j] = e
    BY <1>1, <1>4
  <2>2. CASE e \in Range(q)
    <3>1. PICK k \in 1..n : q[k] = e
      BY <1>1, <2>2 DEF Range
    <3>2. k \notin 1..i
      BY <1>2, <2>1, <3>1
    <3>3. i \in 1..(k - 1)
      BY <1>1, <1>2, <3>2
    <3>4. \A l \in 1..i : q[l] # q[k]
      BY <1>2, <2>1, <3>1
    <3> QED
      BY <1>1, <1>2, <2>1, <3>1, <3>3, <3>4 DEF InOrder
  <2>3. CASE After(f, e, Range(q))
    BY <1>1, <1>2, <2>1, <2>3 DEF After, Range
  <2> QED
    BY <2>2, <2>3
<1> QED
  BY <1>3, <1>4

\* What an order says of a beginning of the sequence.
LEMMA InOrderPrefix ==
    ASSUME NEW S, NEW q \in Seq(S), NEW r \in Seq(S), NEW f, InOrder(f, q \o r)
    PROVE  /\ InOrder(f, q)
           /\ \A e \in Range(r) \ Range(q) : After(f, e, Range(q))
<1> DEFINE m == Len(q)
           n == Len(r)
           t == q \o r
<1>1. /\ m \in Nat /\ n \in Nat /\ DOMAIN q = 1..m /\ DOMAIN r = 1..n
      /\ DOMAIN t = 1..(m + n)
  OBVIOUS
<1>2. /\ \A i \in 1..m : t[i] = q[i]
      /\ \A i \in 1..n : t[m + i] = r[i]
  OBVIOUS
<1>3. InOrder(f, t)
  OBVIOUS
<1> HIDE DEF m, n, t
<1>4. InOrder(f, q)
  <2> SUFFICES ASSUME NEW j \in 1..m, NEW i \in 1..(j - 1), \A k \in 1..i : q[k] # q[j]
               PROVE  f[q[i]] < f[q[j]]
    BY <1>1 DEF InOrder
  <2>1. j \in DOMAIN t /\ i \in 1..m /\ \A k \in 1..i : k \in 1..m
    BY <1>1
  <2>2. \A k \in 1..i : t[k] # t[j]
    BY <1>2, <2>1
  <2> QED
    BY <1>2, <1>3, <2>1, <2>2 DEF InOrder
<1>5. ASSUME NEW e \in Range(r), e \notin Range(q) PROVE After(f, e, Range(q))
  <2>1. PICK j \in 1..n : r[j] = e
    BY <1>1 DEF Range
  <2>2. m + j \in DOMAIN t /\ t[m + j] = e
    BY <1>1, <1>2, <2>1
  <2> SUFFICES ASSUME NEW i \in 1..m PROVE f[q[i]] < f[e]
    BY <1>1 DEF After, Range
  <2>3. i \in 1..((m + j) - 1) /\ \A k \in 1..i : k \in 1..m
    BY <1>1
  <2>4. \A k \in 1..i : t[k] # t[m + j]
    BY <1>1, <1>2, <1>5, <2>2, <2>3 DEF Range
  <2> QED
    BY <1>2, <1>3, <2>2, <2>3, <2>4 DEF InOrder
<1> QED
  BY <1>4, <1>5

\* The order of a sequence depends on the numbers of its members only.
LEMMA InOrderSame ==
    ASSUME NEW S, NEW q \in Seq(S), NEW f, NEW g, InOrder(f, q),
           \A x \in Range(q) : g[x] = f[x]
    PROVE  InOrder(g, q)
<1>1. DOMAIN q = 1..Len(q) /\ Len(q) \in Nat
  OBVIOUS
<1>2. \A j \in DOMAIN q : \A i \in 1..(j - 1) : i \in DOMAIN q
  BY <1>1
<1> QED
  BY <1>2 DEF InOrder, Range

\* Moving a message from a sequence's tail to its front part changes no order.
LEMMA Regroup ==
    ASSUME NEW S, NEW q \in Seq(S), NEW r \in Seq(S), NEW e \in S
    PROVE  q \o Append(r, e) = Append(q \o r, e)
<1>1. Append(r, e) = r \o <<e>> /\ <<e>> \in Seq(S) /\ q \o r \in Seq(S)
  BY AppendIsConcat
<1>2. Append(q \o r, e) = (q \o r) \o <<e>>
  BY <1>1, AppendIsConcat
<1> QED
  BY <1>1, <1>2, ConcatAssociative

LEMMA TurnThenRest ==
    ASSUME TypeOK, NEW w \in Workers, got[w] # <<>>
    PROVE  TurnOf(w) \o RestOf(w) = got[w]
<1> DEFINE q == got[w]
<1>1. q \in Seq(Events) /\ q # <<>>
  BY DEF TypeOK
<1>2. CASE sess[w] \in ChatSessions
  BY <1>1, <1>2, ConcatEmptySeq DEF TurnOf, RestOf
<1>3. CASE sess[w] \notin ChatSessions
  <2> HIDE DEF q
  <2>1. /\ <<Head(q)>> \in Seq(Events) /\ Tail(q) \in Seq(Events)
        /\ Len(<<Head(q)>>) = 1 /\ <<Head(q)>>[1] = q[1]
        /\ Len(q) \in Nat /\ Len(q) > 0 /\ Len(Tail(q)) = Len(q) - 1
        /\ \A i \in 1..(Len(q) - 1) : Tail(q)[i] = q[i + 1]
    BY <1>1
  <2>2. /\ <<Head(q)>> \o Tail(q) \in Seq(Events)
        /\ Len(<<Head(q)>> \o Tail(q)) = Len(q)
    BY <2>1, ConcatProperties
  <2>3. \A i \in 1..Len(q) : (<<Head(q)>> \o Tail(q))[i] = q[i]
    <3> TAKE i \in 1..Len(q)
    <3>1. (<<Head(q)>> \o Tail(q))[i] = IF i <= 1 THEN <<Head(q)>>[i] ELSE Tail(q)[i - 1]
      BY <2>1, ConcatProperties
    <3>2. CASE i = 1
      BY <2>1, <3>1, <3>2
    <3>3. CASE i # 1
      <4>1. i - 1 \in 1..(Len(q) - 1) /\ (i - 1) + 1 = i
        BY <2>1, <3>3
      <4> QED
        BY <2>1, <3>1, <4>1
    <3> QED
      BY <3>2, <3>3
  <2>4. <<Head(q)>> \o Tail(q) = q
    BY <1>1, <2>2, <2>3, SeqEqual
  <2> QED
    BY <1>3, <2>4 DEF TurnOf, RestOf, q
<1> QED
  BY <1>2, <1>3

\* What its session has handled and what a worker carries on with.
Seen(w) == Range(handled[sess[w]]) \cup Range(got[w])

\* The broker numbers events apart, and below the number it gives next.
NumbersOK ==
    \A e \in Accepted : /\ seqno[e] < NextSeqno
                        /\ \A f \in Accepted \ {e} : seqno[f] # seqno[e]

\* In a session: what was handled is in order, and all that is queued and was
\* never handled comes after it.
SessionInOrder(s) ==
    /\ InOrder(seqno, handled[s])
    /\ \A e \in Pending(s) \ Range(handled[s]) : After(seqno, e, Range(handled[s]))

\* The same with what the session's worker carries; and what the worker has
\* still to settle comes before the rest of the queue, redelivered events aside.
WorkerInOrder(w) ==
    /\ InOrder(seqno, handled[sess[w]] \o got[w])
    /\ \A e \in Pending(sess[w]) \ Seen(w) : After(seqno, e, Seen(w))
    /\ \A e \in Pending(sess[w]) \ (Seen(w) \cup batch[w]) : After(seqno, e, batch[w])

AllInOrder ==
    /\ \A s \in Sessions : SessionInOrder(s)
    /\ \A w \in Workers : pc[w] # "accept" => WorkerInOrder(w)

OrderInv == NumbersOK /\ (spent["expiry"] = 0 => AllInOrder)

LEMMA OrderInit == Init => OrderInv
<1> SUFFICES ASSUME Init PROVE OrderInv
  OBVIOUS
<1>1. NumbersOK
  BY DEF Init, NumbersOK, Accepted
<1>2. \A s \in Sessions : InOrder(seqno, handled[s]) /\ Pending(s) = {}
  BY DEF Init, InOrder, Pending
<1>3. AllInOrder
  BY <1>2 DEF Init, AllInOrder, SessionInOrder
<1> QED
  BY <1>1, <1>3 DEF OrderInv

\* A new event gets the highest number.
LEMMA PublishNumbers ==
    ASSUME TypeOK, NumbersOK, NEW e \in Events, Publish(e)
    PROVE  /\ NumbersOK' /\ e \notin Accepted
           /\ \A f \in Accepted : seqno'[f] = seqno[f]
           /\ After(seqno', e, Accepted)
<1>1. /\ e \notin Accepted /\ seqno' = [seqno EXCEPT ![e] = NextSeqno]
      /\ seqno \in [Events -> Nat] /\ NextSeqno \in Nat /\ NextSeqno > 0
  BY NextSeqnoType DEF Publish, Enqueue, Accepted, TypeOK
<1>2. Accepted' = Accepted \cup {e} /\ Accepted \subseteq Events
  BY <1>1 DEF Accepted
<1>3. seqno'[e] = NextSeqno /\ \A f \in Accepted : seqno'[f] = seqno[f] /\ seqno[f] \in Nat
  BY <1>1, <1>2
<1>4. NextSeqno' = NextSeqno + 1
  <2>1. IsFiniteSet(Accepted)
    BY <1>2, EventsAssumption, FS_Subset
  <2>2. Cardinality(Accepted \cup {e}) = Cardinality(Accepted) + 1
    BY <1>1, <2>1, FS_AddElement
  <2> QED
    BY <1>2, <2>2 DEF NextSeqno
<1>5. NumbersOK'
  BY <1>1, <1>2, <1>3, <1>4 DEF NumbersOK
<1>6. After(seqno', e, Accepted)
  BY <1>3 DEF NumbersOK, After
<1> QED
  BY <1>1, <1>3, <1>5, <1>6

LEMMA PublishInOrder ==
    ASSUME IndInv, KnownOK, NumbersOK, AllInOrder, NEW e \in Events, Publish(e)
    PROVE  AllInOrder'
<1>1. /\ e \notin Accepted
      /\ \A f \in Accepted : seqno'[f] = seqno[f]
      /\ After(seqno', e, Accepted)
  BY PublishNumbers DEF IndInv
<1>2. /\ \A s : Pending(s)' \subseteq Pending(s) \cup {e}
      /\ UNCHANGED <<pc, sess, batch, got, handled>>
      /\ \A s : Pending(s) \subseteq Accepted
  BY DEF Publish, Enqueue, Pending, workerVars, IndInv, TypeOK
<1>3. ASSUME NEW S \in SUBSET Accepted, NEW f \in Accepted \cup {e},
             f \in Accepted => After(seqno, f, S)
      PROVE  After(seqno', f, S)
  BY <1>1, <1>3 DEF After
<1>4. \A s \in Sessions : Range(handled[s]) \subseteq Accepted /\ handled[s] \in Seq(Events)
  BY DEF KnownOK, IndInv, TypeOK
<1>5. ASSUME NEW s \in Sessions PROVE SessionInOrder(s)'
  <2>1. InOrder(seqno', handled[s])
    BY <1>1, <1>4, InOrderSame DEF AllInOrder, SessionInOrder
  <2>2. ASSUME NEW f \in Pending(s)', f \notin Range(handled[s])
        PROVE  After(seqno', f, Range(handled[s]))
    <3>1. f \in Pending(s) \cup {e} /\ (f \in Accepted => f \in Pending(s))
      BY <1>1, <1>2, <2>2
    <3>2. Range(handled[s]) \in SUBSET Accepted /\ f \in Accepted \cup {e}
      BY <1>2, <1>4, <3>1
    <3>3. f \in Accepted => After(seqno, f, Range(handled[s]))
      BY <2>2, <3>1 DEF AllInOrder, SessionInOrder
    <3> QED
      BY <1>3, <3>2, <3>3
  <2> QED
    BY <1>2, <2>1, <2>2 DEF SessionInOrder
<1>6. ASSUME NEW w \in Workers, pc[w] # "accept" PROVE WorkerInOrder(w)'
  <2>1. /\ WorkerInOrder(w) /\ sess[w] \in Sessions
        /\ got[w] \in Seq(Events) /\ batch[w] \subseteq Accepted /\ Range(got[w]) \subseteq Accepted
    BY <1>6 DEF AllInOrder, IndInv, WorkersOK, TypeOK, KnownOK
  <2>2. /\ Range(handled[sess[w]] \o got[w]) = Seen(w)
        /\ handled[sess[w]] \o got[w] \in Seq(Events)
        /\ Seen(w) \subseteq Accepted
    BY <1>4, <2>1, RangeOfConcat DEF Seen
  <2>3. InOrder(seqno', handled[sess[w]] \o got[w])
    BY <1>1, <2>1, <2>2, InOrderSame DEF WorkerInOrder
  <2>4. Seen(w)' = Seen(w)
    BY <1>2 DEF Seen
  <2>5. ASSUME NEW f \in Pending(sess[w])'
        PROVE  f \in Accepted \cup {e} /\ (f \in Accepted => f \in Pending(sess[w]))
    BY <1>1, <1>2, <2>5
  <2>6. ASSUME NEW f \in Pending(sess[w])', f \notin Seen(w)
        PROVE  After(seqno', f, Seen(w))
    <3>1. f \in Accepted => After(seqno, f, Seen(w))
      BY <2>1, <2>5, <2>6 DEF WorkerInOrder
    <3> QED
      BY <1>3, <2>2, <2>5, <2>6, <3>1
  <2>7. ASSUME NEW f \in Pending(sess[w])', f \notin Seen(w) \cup batch[w]
        PROVE  After(seqno', f, batch[w])
    <3>1. f \in Accepted => After(seqno, f, batch[w])
      BY <2>1, <2>5, <2>7 DEF WorkerInOrder
    <3> QED
      BY <1>3, <2>1, <2>5, <2>7, <3>1
  <2> QED
    BY <1>2, <2>3, <2>4, <2>6, <2>7 DEF WorkerInOrder
<1> QED
  BY <1>2, <1>5, <1>6 DEF AllInOrder

\* What a session has handled does not change, and its queue only shrinks.
LEMMA SessionStays ==
    ASSUME NEW s, SessionInOrder(s), seqno' = seqno, active' \subseteq active,
           handled'[s] = handled[s]
    PROVE  SessionInOrder(s)'
<1>1. Pending(s)' \subseteq Pending(s)
  BY DEF Pending
<1> QED
  BY <1>1 DEF SessionInOrder

LEMMA WorkerStays ==
    ASSUME NEW w \in Workers, WorkerInOrder(w), seqno' = seqno, active' \subseteq active,
           handled'[sess[w]] = handled[sess[w]], sess'[w] = sess[w], got'[w] = got[w],
           batch'[w] = batch[w] \/ batch'[w] = {}
    PROVE  WorkerInOrder(w)'
<1>1. Pending(sess[w])' \subseteq Pending(sess[w]) /\ Seen(w)' = Seen(w)
  BY DEF Pending, Seen
<1> QED
  BY <1>1 DEF WorkerInOrder, After

\* Every worker keeps what it has, or leaves its session.
LEMMA KeptInOrder ==
    ASSUME AllInOrder, UNCHANGED <<seqno, active, handled>>,
           \A w \in Workers : pc'[w] # "accept" =>
               /\ pc[w] # "accept" /\ sess'[w] = sess[w] /\ got'[w] = got[w]
               /\ batch'[w] = batch[w] \/ batch'[w] = {}
    PROVE  AllInOrder'
<1>1. \A s \in Sessions : SessionInOrder(s)'
  BY SessionStays DEF AllInOrder
<1>2. \A w \in Workers : pc'[w] # "accept" => WorkerInOrder(w)'
  BY WorkerStays DEF AllInOrder
<1> QED
  BY <1>1, <1>2 DEF AllInOrder

LEMMA AcceptInOrder ==
    ASSUME IndInv, AllInOrder, NEW w \in Workers, Accept(w)
    PROVE  AllInOrder'
<1>1. PICK s \in Sessions :
        /\ pc[w] = "accept" /\ sess' = [sess EXCEPT ![w] = s]
        /\ pc' = [pc EXCEPT ![w] = "collect"]
        /\ UNCHANGED <<seqno, active, batch, got, handled>>
  BY DEF Accept, brokerVars
<1>2. /\ got[w] = <<>> /\ batch[w] = {} /\ handled[s] \in Seq(Events)
      /\ sess \in [Workers -> Sessions \cup {NoSession}]
      /\ pc \in [Workers -> {"accept", "collect", "settle", "final", "handle"}]
  BY <1>1 DEF IndInv, WorkersOK, TypeOK
<1>3. /\ sess'[w] = s /\ \A v \in Workers \ {w} : sess'[v] = sess[v] /\ pc'[v] = pc[v]
  BY <1>1, <1>2
<1>4. \A t \in Sessions : SessionInOrder(t)'
  BY <1>1, SessionStays DEF AllInOrder
<1>5. WorkerInOrder(w)'
  <2>1. handled[s] \o <<>> = handled[s]
    BY <1>2, ConcatEmptySeq
  <2>2. Seen(w)' = Range(handled[s])
    BY <1>1, <1>2, <1>3, RangeOfEmpty DEF Seen
  <2>3. SessionInOrder(s)'
    BY <1>4
  <2> QED
    BY <1>1, <1>2, <1>3, <2>1, <2>2, <2>3 DEF WorkerInOrder, SessionInOrder, After
<1>6. ASSUME NEW v \in Workers \ {w}, pc'[v] # "accept" PROVE WorkerInOrder(v)'
  BY <1>1, <1>3, <1>6, WorkerStays DEF AllInOrder
<1> QED
  BY <1>4, <1>5, <1>6 DEF AllInOrder

LEMMA ReceiveInOrder ==
    ASSUME IndInv, AllInOrder, NEW w \in Workers, Receive(w)
    PROVE  AllInOrder'
<1>1. PICK B \in Batches(sess[w]) : batch' = [batch EXCEPT ![w] = B]
  BY DEF Receive
<1>2. /\ pc[w] = "collect" /\ pc' = [pc EXCEPT ![w] = "settle"]
      /\ UNCHANGED <<seqno, active, sess, got, handled>>
  BY DEF Receive, brokerVars
<1>3. /\ batch'[w] = B
      /\ \A v \in Workers \ {w} : pc'[v] = pc[v] /\ batch'[v] = batch[v]
  BY <1>1, <1>2 DEF IndInv, TypeOK
<1>4. \A s \in Sessions : SessionInOrder(s)'
  BY <1>2, SessionStays DEF AllInOrder
<1>5. WorkerInOrder(w)'
  <2>1. WorkerInOrder(w) /\ Pending(sess[w])' = Pending(sess[w]) /\ Seen(w)' = Seen(w)
    BY <1>2 DEF AllInOrder, Pending, Seen
  <2>2. \A e \in Pending(sess[w]) \ B : After(seqno, e, B)
    BY DEF Batches, After
  <2> QED
    BY <1>2, <1>3, <2>1, <2>2 DEF WorkerInOrder
<1>6. ASSUME NEW v \in Workers \ {w}, pc'[v] # "accept" PROVE WorkerInOrder(v)'
  BY <1>2, <1>3, <1>6, WorkerStays DEF AllInOrder
<1> QED
  BY <1>4, <1>5, <1>6 DEF AllInOrder

\* The oldest message at hand joins the group, whatever became of its completion.
LEMMA SettledInOrder ==
    ASSUME IndInv, OnceInv, AllHold, NumbersOK, AllInOrder,
           NEW w \in Workers, pc[w] = "settle", NEW e \in Oldest(batch[w]),
           got' = [got EXCEPT ![w] = Append(got[w], e)],
           UNCHANGED <<seqno, sess, handled>>, active' \subseteq active,
           batch'[w] \subseteq batch[w] \ {e},
           batch'[w] = batch[w] \ {e} \/ batch'[w] = {},
           \A v \in Workers \ {w} : pc'[v] = pc[v] /\ batch'[v] = batch[v]
    PROVE  AllInOrder'
<1> DEFINE s == sess[w]
           q == handled[s] \o got[w]
<1>1. /\ s \in Sessions /\ got[w] \in Seq(Events) /\ handled[s] \in Seq(Events)
      /\ seqno \in [Events -> Nat] /\ got \in [Workers -> Seq(Events)]
  BY DEF IndInv, TypeOK, WorkersOK
<1>2. /\ e \in batch[w] /\ e \in Events /\ SessionOf[e] = s
      /\ Range(Append(got[w], e)) = Range(got[w]) \cup {e}
  BY SettledMessage
<1>3. batch[w] \subseteq active /\ active \subseteq Accepted /\ Accepted \subseteq Events
  BY DEF AllHold, OnceInv, IndInv, TypeOK, Accepted
<1>4. e \in Pending(s) /\ \A f \in batch[w] : f \in Pending(s)
  BY <1>2, <1>3 DEF Pending, IndInv, WorkersOK
<1>5. /\ got'[w] = Append(got[w], e) /\ \A v \in Workers \ {w} : got'[v] = got[v]
      /\ Seen(w)' = Seen(w) \cup {e}
  BY <1>1, <1>2 DEF Seen
<1>6. /\ q \in Seq(Events) /\ Range(q) = Seen(w)
      /\ handled[s] \o Append(got[w], e) = Append(q, e)
  <2>1. PICK h \in Seq(Events), g \in Seq(Events) : h = handled[s] /\ g = got[w]
    BY <1>1
  <2>2. /\ h \o g \in Seq(Events) /\ Range(h \o g) = Range(h) \cup Range(g)
        /\ h \o Append(g, e) = Append(h \o g, e)
    BY <1>2, RangeOfConcat, Regroup
  <2> QED
    BY <2>1, <2>2 DEF Seen
<1>7. WorkerInOrder(w)
  BY DEF AllInOrder
<1>8. InOrder(seqno, Append(q, e))
  BY <1>2, <1>4, <1>6, <1>7, InOrderAppend DEF WorkerInOrder
<1>9. Pending(s)' \subseteq Pending(s)
  BY DEF Pending
<1>10. ASSUME NEW f \in Pending(s)', f \notin Seen(w) \cup {e}
       PROVE  seqno[e] < seqno[f]
  <2>1. CASE f \in batch[w]
    <3>1. seqno[e] <= seqno[f] /\ f \in Accepted /\ e \in Accepted
      BY <1>2, <1>3, <2>1 DEF Oldest
    <3>2. seqno[e] # seqno[f]
      BY <1>10, <3>1 DEF NumbersOK
    <3>3. seqno[e] \in Nat /\ seqno[f] \in Nat
      BY <1>1, <1>3, <3>1
    <3> QED
      BY <3>1, <3>2, <3>3
  <2>2. CASE f \notin batch[w]
    BY <1>2, <1>7, <1>9, <1>10, <2>2 DEF WorkerInOrder, After
  <2> QED
    BY <2>1, <2>2
<1>11. ASSUME NEW f \in Pending(s)', f \notin Seen(w) \cup {e}
       PROVE  After(seqno, f, Seen(w) \cup {e})
  BY <1>7, <1>9, <1>10, <1>11 DEF WorkerInOrder, After
<1>12. ASSUME NEW f \in Pending(s)', f \notin Seen(w) \cup {e}, f \notin batch'[w]
       PROVE  After(seqno, f, batch'[w])
  BY <1>7, <1>9, <1>12 DEF WorkerInOrder, After
<1>13. WorkerInOrder(w)'
  BY <1>5, <1>6, <1>8, <1>11, <1>12 DEF WorkerInOrder
<1>14. \A t \in Sessions : SessionInOrder(t)'
  BY SessionStays DEF AllInOrder
<1>15. ASSUME NEW v \in Workers \ {w}, pc'[v] # "accept" PROVE WorkerInOrder(v)'
  BY <1>5, <1>15, WorkerStays DEF AllInOrder
<1> QED
  BY <1>13, <1>14, <1>15 DEF AllInOrder

LEMMA HandleInOrder ==
    ASSUME IndInv, AllHold, AllInOrder, NEW w \in Workers, Handle(w)
    PROVE  AllInOrder'
<1> DEFINE s == sess[w]
<1>1. /\ pc[w] = "handle" /\ got' = [got EXCEPT ![w] = RestOf(w)]
      /\ handled' = [handled EXCEPT ![s] = @ \o TurnOf(w)]
      /\ UNCHANGED <<seqno, active, batch>>
      /\ \/ Release(w)
         \/ UNCHANGED <<pc, sess>>
  BY DEF Handle, brokerVars
<1>2. /\ TypeOK /\ got[w] # <<>> /\ s \in Sessions /\ handled[s] \in Seq(Events)
      /\ got \in [Workers -> Seq(Events)] /\ handled \in [Sessions -> Seq(Events)]
      /\ pc \in [Workers -> {"accept", "collect", "settle", "final", "handle"}]
      /\ sess \in [Workers -> Sessions \cup {NoSession}]
  BY <1>1 DEF IndInv, TypeOK, WorkersOK
<1>3. /\ TurnOf(w) \in Seq(Events) /\ RestOf(w) \in Seq(Events)
      /\ TurnOf(w) \o RestOf(w) = got[w]
  BY <1>2, TurnAndRest, TurnThenRest
<1>4. /\ handled'[s] = handled[s] \o TurnOf(w) /\ handled'[s] \in Seq(Events)
      /\ got'[w] = RestOf(w) /\ \A v \in Workers \ {w} : got'[v] = got[v]
      /\ \A t \in Sessions \ {s} : handled'[t] = handled[t]
  BY <1>1, <1>2, <1>3
<1>5. /\ handled'[s] \o RestOf(w) = handled[s] \o got[w]
      /\ Range(handled'[s]) \cup Range(RestOf(w)) = Seen(w)
  <2>1. PICK h \in Seq(Events), t \in Seq(Events), r \in Seq(Events) :
          h = handled[s] /\ t = TurnOf(w) /\ r = RestOf(w)
    BY <1>2, <1>3
  <2>2. /\ (h \o t) \o r = h \o (t \o r)
        /\ Range(h \o t) = Range(h) \cup Range(t)
        /\ Range(t \o r) = Range(t) \cup Range(r)
    BY ConcatAssociative, RangeOfConcat
  <2>3. got[w] = t \o r /\ handled'[s] = h \o t
    BY <1>3, <1>4, <2>1
  <2> QED
    BY <2>1, <2>2, <2>3 DEF Seen
<1>7. WorkerInOrder(w) /\ \A t : Pending(t)' = Pending(t)
  BY <1>1 DEF AllInOrder, Pending
<1>8. /\ InOrder(seqno, handled'[s])
      /\ \A e \in Range(RestOf(w)) \ Range(handled'[s]) : After(seqno, e, Range(handled'[s]))
  <2>1. PICK p \in Seq(Events) : p = handled'[s]
    BY <1>4
  <2>2. InOrder(seqno, p \o RestOf(w))
    BY <1>5, <1>7, <2>1 DEF WorkerInOrder
  <2> QED
    BY <1>3, <2>1, <2>2, InOrderPrefix
<1>9. ASSUME NEW CONSTANT t \in Sessions, t = s PROVE SessionInOrder(t)'
  <2>1. ASSUME NEW e \in Pending(t), e \notin Range(handled'[t])
        PROVE  After(seqno, e, Range(handled'[t]))
    <3>1. CASE e \in Range(RestOf(w))
      BY <1>8, <1>9, <2>1, <3>1
    <3>2. CASE e \notin Range(RestOf(w))
      BY <1>5, <1>7, <1>9, <2>1, <3>2 DEF WorkerInOrder, After
    <3> QED
      BY <3>1, <3>2
  <2>2. seqno' = seqno /\ Pending(t)' = Pending(t)
    BY <1>1, <1>7
  <2> QED
    BY <1>8, <1>9, <2>1, <2>2 DEF SessionInOrder
<1>10. \A t \in Sessions : SessionInOrder(t)'
  BY <1>1, <1>4, <1>9, SessionStays DEF AllInOrder
<1>11. ASSUME pc'[w] # "accept" PROVE WorkerInOrder(w)'
  <2>1. sess'[w] = s
    BY <1>1, <1>2, <1>11 DEF Release
  <2>2. Seen(w)' = Seen(w)
    BY <1>4, <1>5, <2>1 DEF Seen
  <2> QED
    BY <1>1, <1>4, <1>5, <1>7, <2>1, <2>2 DEF WorkerInOrder
<1>12. ASSUME NEW v \in Workers \ {w}, pc'[v] # "accept" PROVE WorkerInOrder(v)'
  <2>1. pc'[v] = pc[v] /\ sess'[v] = sess[v]
    BY <1>1, <1>2 DEF Release
  <2>2. sess[v] \in Sessions /\ sess[v] # s
    BY <1>1, <1>12, <2>1 DEF AllHold, Holds, IndInv, WorkersOK
  <2> QED
    BY <1>1, <1>4, <1>12, <2>1, <2>2, WorkerStays DEF AllInOrder
<1> QED
  BY <1>10, <1>11, <1>12 DEF AllInOrder

LEMMA OrderStep ==
    IndInv /\ KnownOK /\ OnceInv /\ OrderInv /\ [Next]_vars => OrderInv'
<1> SUFFICES ASSUME IndInv, KnownOK, OnceInv, OrderInv, [Next]_vars PROVE OrderInv'
  OBVIOUS
<1> USE DEF brokerVars, workerVars
<1>0. WorkerTypeOK /\ WorkersOK /\ RestTypeOK /\ (spent["expiry"] = 0 => AllHold)
  BY Parts DEF WorkerPart
<1>1. ASSUME seqno' = seqno PROVE NumbersOK'
  BY <1>1 DEF OrderInv, NumbersOK, Accepted, NextSeqno
<1>2. ASSUME NEW e \in Events, Publish(e) PROVE OrderInv'
  BY <1>2, PublishNumbers, PublishInOrder DEF OrderInv, Publish, IndInv
<1>3. ASSUME NEW w \in Workers, Accept(w) \/ Receive(w) \/ Handle(w) PROVE OrderInv'
  BY <1>0, <1>1, <1>3, AcceptInOrder, ReceiveInOrder, HandleInOrder
     DEF OrderInv, Accept, Receive, Handle
<1>4. ASSUME NEW w \in Workers, ReceiveEmpty(w) \/ FinalEmpty(w) \/ ReceiveError(w) PROVE OrderInv'
  <2>1. /\ pc[w] # "accept" /\ UNCHANGED <<seqno, active, handled>>
        /\ \/ LeaveLoop(w, got[w])
           \/ pc' = [pc EXCEPT ![w] = "final"] /\ UNCHANGED <<sess, batch, got>>
        /\ spent' = spent \/ BrokerError(w)
    BY <1>4 DEF ReceiveEmpty, FinalEmpty, ReceiveError
  <2>2. spent'["expiry"] = spent["expiry"]
    BY <1>0, <2>1, BrokerErrorType
  <2>3. \A v \in Workers : pc'[v] # "accept" =>
               /\ pc[v] # "accept" /\ sess'[v] = sess[v] /\ got'[v] = got[v]
               /\ batch'[v] = batch[v] \/ batch'[v] = {}
    BY <1>0, <2>1 DEF LeaveLoop, Release, WorkerTypeOK
  <2> QED
    BY <1>1, <2>1, <2>2, <2>3, KeptInOrder DEF OrderInv
<1>5. ASSUME NEW w \in Workers, FinalReceive(w) PROVE OrderInv'
  <2>1. /\ UNCHANGED <<seqno, active, handled, spent>>
        /\ \A v \in Workers : pc'[v] # "accept" =>
               /\ pc[v] # "accept" /\ sess'[v] = sess[v] /\ got'[v] = got[v]
               /\ batch'[v] = batch[v]
    BY <1>0, <1>5 DEF FinalReceive, WorkerTypeOK
  <2> QED
    BY <1>1, <2>1, KeptInOrder DEF OrderInv
<1>6. ASSUME NEW w \in Workers, Complete(w) \/ Abandon(w) PROVE OrderInv'
  <2>1. PICK e \in Oldest(batch[w]) :
          /\ pc[w] = "settle" /\ NextMessage(w, e) /\ UNCHANGED <<seqno, handled>>
          /\ active' \subseteq active
          /\ spent' = spent \/ Spend("error")
    BY <1>6 DEF Complete, Abandon
  <2>2. spent'["expiry"] = spent["expiry"]
    BY <1>0, <2>1, SpendType DEF FaultKinds
  <2>3. /\ got' = [got EXCEPT ![w] = Append(got[w], e)] /\ UNCHANGED sess
        /\ batch'[w] = batch[w] \ {e}
        /\ \A v \in Workers \ {w} : pc'[v] = pc[v] /\ batch'[v] = batch[v]
    BY <1>0, <2>1 DEF NextMessage, WorkerTypeOK
  <2> QED
    BY <1>0, <1>1, <2>1, <2>2, <2>3, SettledInOrder DEF OrderInv
<1>7. ASSUME NEW w \in Workers, SettleError(w) PROVE OrderInv'
  <2>1. PICK e \in Oldest(batch[w]) :
          /\ pc[w] = "settle" /\ LeaveLoop(w, Append(got[w], e)) /\ UNCHANGED <<seqno, handled>>
          /\ active' \subseteq active /\ BrokerError(w)
    BY <1>7 DEF SettleError
  <2>2. spent'["expiry"] = spent["expiry"]
    BY <1>0, <2>1, BrokerErrorType
  <2>3. Append(got[w], e) # <<>>
    BY <2>1, SettledMessage, RangeOfEmpty
  <2>4. /\ got' = [got EXCEPT ![w] = Append(got[w], e)] /\ UNCHANGED sess
        /\ batch'[w] = {}
        /\ \A v \in Workers \ {w} : pc'[v] = pc[v] /\ batch'[v] = batch[v]
    BY <1>0, <2>1, <2>3 DEF LeaveLoop, WorkerTypeOK
  <2> QED
    BY <1>0, <1>1, <2>1, <2>2, <2>4, SettledInOrder DEF OrderInv
<1>8. ASSUME NEW w \in Workers, LockExpire(w) PROVE OrderInv'
  <2>1. spent'["expiry"] # 0 /\ seqno' = seqno
    BY <1>0, <1>8, SpendType DEF LockExpire, FaultKinds
  <2> QED
    BY <1>1, <2>1 DEF OrderInv
<1>9. ASSUME NEW w \in Workers, Crash(w) PROVE OrderInv'
  <2>1. spent'["expiry"] = spent["expiry"] /\ UNCHANGED <<seqno, active, handled>>
    BY <1>0, <1>9, SpendType DEF Crash, FaultKinds
  <2>2. \A v \in Workers : pc'[v] # "accept" =>
               /\ pc[v] # "accept" /\ sess'[v] = sess[v] /\ got'[v] = got[v]
               /\ batch'[v] = batch[v]
    BY <1>0, <1>9 DEF Crash, Release, WorkerTypeOK
  <2> QED
    BY <1>1, <2>1, <2>2, KeptInOrder DEF OrderInv
<1>10. CASE UNCHANGED vars
  BY <1>10 DEF vars, OrderInv, NumbersOK, Accepted, NextSeqno, AllInOrder, SessionInOrder,
     WorkerInOrder, Seen, Pending
<1> QED
  BY <1>2, <1>3, <1>4, <1>5, <1>6, <1>7, <1>8, <1>9, <1>10
     DEF Next, ConsumerNext, Step, Fault

\* Unless a lock ran out, the events of a session are first handled in the order
\* in which the broker accepted them, whatever is redelivered in between.
THEOREM HandledInOrder == Spec => []FirstHandledInOrder
<1>1. Init => IndInv /\ KnownOK /\ OnceInv /\ OrderInv
  BY IndInit, KnownInit, OnceInit, OrderInit
<1>2. /\ IndInv /\ KnownOK /\ OnceInv /\ OrderInv /\ [Next]_vars
      => IndInv' /\ KnownOK' /\ OnceInv' /\ OrderInv'
  BY IndStep, KnownStep, OnceStep, OrderStep
<1>3. IndInv /\ OrderInv => FirstHandledInOrder
  <2> SUFFICES ASSUME IndInv, OrderInv, spent["expiry"] = 0, NEW s \in Sessions,
                      NEW j \in DOMAIN handled[s],
                      \A i \in 1..(j - 1) : handled[s][i] # handled[s][j],
                      NEW i \in 1..(j - 1)
               PROVE  seqno[handled[s][i]] < seqno[handled[s][j]]
    BY DEF FirstHandledInOrder
  <2>1. handled[s] \in Seq(Events)
    BY DEF IndInv, TypeOK
  <2>2. j \in Nat /\ \A k \in 1..i : k \in 1..(j - 1)
    BY <2>1
  <2> QED
    BY <2>2 DEF OrderInv, AllInOrder, SessionInOrder, InOrder
<1> QED
  BY <1>1, <1>2, <1>3, PTL DEF Spec

-----------------------------------------------------------------------------
(* The composition with publishing, the suspended queue and reprocessing   *)

\* Every step of publishing and reprocessing is a publish of the main queue, or
\* leaves the main queue alone.
LEMMA GateStepIsPublish ==
    GateStep /\ UNCHANGED restVars => (\E e \in Events : Publish(e)) \/ UNCHANGED vars
<1> SUFFICES ASSUME GateStep, UNCHANGED restVars
             PROVE  (\E e \in Events : Publish(e)) \/ UNCHANGED vars
  OBVIOUS
<1>1. /\ \A e \in Events : Enqueue(e) => Publish(e)
      /\ UNCHANGED brokerVars => UNCHANGED vars
  BY DEF restVars, vars, Publish
<1>2. ASSUME NEW e \in Events, PublishCall(e)
      PROVE  Enqueue(e) \/ UNCHANGED brokerVars
  BY <1>2 DEF PublishCall, Check, Send, Park, Reply
<1>3. ASSUME NEW e \in Events, SendFails(e) \/ FireTimer(e) \/ BecomeDue(e)
      PROVE  Enqueue(e) \/ UNCHANGED brokerVars
  BY <1>3 DEF SendFails, FireTimer, BecomeDue
<1>4. ASSUME NEW u \in Users, AccessChange(u) \/ RpStart(u) \/ RpStep(u)
      PROVE  UNCHANGED brokerVars
  BY <1>4 DEF AccessChange, RpStart, RpStep, RpReceive, RpFinish, RpComplete, RpNext
<1>5. ASSUME NEW u \in Users, RpSettleError(u) \/ RpDies(u)
      PROVE  UNCHANGED brokerVars
  BY <1>5 DEF RpSettleError, RpDies
<1> QED
  BY <1>1, <1>2, <1>3, <1>4, <1>5 DEF GateStep

\* The composed system implements the main queue's specification.
THEOREM GateImplementsQueue == GateSpec => Spec
<1>1. GateInit => Init
  BY DEF GateInit
<1>2. [GateNext]_<<vars, gateVars>> => [Next]_vars
  BY GateStepIsPublish DEF GateNext, Next
<1> QED
  BY <1>1, <1>2, PTL DEF GateSpec, Spec

\* So also with publishing failures, changes of access and reprocessing, an
\* event the main queue accepted is dropped only when a worker crashes.
THEOREM GateLosesNothing == GateSpec => []OnlyACrashLosesEvents
  BY GateImplementsQueue, NothingVanishes, PTL

\* And two workers share a session only after its lock ran out.
THEOREM GateSerial == GateSpec => []SessionsAreSerial
  BY GateImplementsQueue, SerialSessions, PTL

\* And the composed system keeps the promise of EventDelivery.
THEOREM GateDelivers == GateSpec => ImplementsDelivery
  BY GateImplementsQueue, QueueImplementsDelivery, PTL
-----------------------------------------------------------------------------
(* Sequences without repetition *)

Distinct(q) == \A i, j \in DOMAIN q : q[i] = q[j] => i = j

LEMMA RemoveFirstOfDistinct ==
    ASSUME NEW S, NEW q \in Seq(S), Distinct(q), NEW e \in Range(q)
    PROVE  LET r == RemoveFirst(q, e)
           IN  r \in Seq(S) /\ Distinct(r) /\ Range(r) = Range(q) \ {e}
<1>1. PICK k \in 1..Len(q) : q[k] = e
  BY DEF Range
<1>2. /\ Len(q) \in Nat /\ DOMAIN q = 1..Len(q)
      /\ \A i \in 1..Len(q) : q[i] \in S /\ (q[i] = e => i = k)
  BY <1>1 DEF Distinct
<1>3. SelectInSeq(q, LAMBDA v : v = e) = k
  <2>1. {i \in 1..Len(q) : q[i] = e} = {k}
    BY <1>1, <1>2
  <2>2. Min({k}) = k
    BY <1>1, <1>2 DEF Min
  <2> QED
    BY <2>1, <2>2 DEF SelectInSeq
<1> DEFINE r == RemoveAt(q, k)
           From(i) == IF i < k THEN i ELSE i + 1
<1>4. RemoveFirst(q, e) = r
  BY <1>1, <1>3 DEF RemoveFirst
<1>5. /\ r \in Seq(S) /\ Len(r) = Len(q) - 1
      /\ \A i \in 1..Len(r) : r[i] = q[From(i)]
  <2> DEFINE a == SubSeq(q, 1, k - 1)
             b == SubSeq(q, k + 1, Len(q))
  <2>1. /\ a \in Seq(S) /\ Len(a) = k - 1
        /\ \A i \in 1..(k - 1) : a[i] = q[i]
    BY <1>2, SubSeqProperties
  <2>2. /\ b \in Seq(S) /\ Len(b) = Len(q) - k
        /\ \A i \in 1..(Len(q) - k) : b[i] = q[k + i]
    <3>1. /\ k + 1 \in Int /\ Len(q) \in Int /\ Len(q) - (k + 1) + 1 = Len(q) - k
          /\ \A i \in (k + 1)..Len(q) : q[i] \in S
      BY <1>2
    <3>2. /\ b \in Seq(S)
          /\ Len(b) = IF k + 1 <= Len(q) THEN Len(q) - (k + 1) + 1 ELSE 0
          /\ \A i \in 1..(Len(q) - (k + 1) + 1) : b[i] = q[(k + 1) + i - 1]
      BY <3>1, SubSeqProperties
    <3>3. \A i \in 1..(Len(q) - k) : (k + 1) + i - 1 = k + i
      BY <1>2
    <3> HIDE DEF b
    <3>4. Len(b) = Len(q) - k
      <4>1. Len(q) \in Nat /\ k \in 1..Len(q)
        BY <1>2
      <4>2. CASE k + 1 <= Len(q)
        BY <3>1, <3>2, <4>2
      <4>3. CASE ~(k + 1 <= Len(q))
        <5>1. Len(q) - k = 0
          BY <4>1, <4>3
        <5> QED
          BY <3>2, <4>3, <5>1
      <4> QED
        BY <4>2, <4>3
    <3>5. ASSUME NEW i \in 1..(Len(q) - k) PROVE b[i] = q[k + i]
      BY <3>1, <3>2, <3>3
    <3> QED
      BY <3>2, <3>4, <3>5
  <2>3. r = a \o b
    BY DEF RemoveAt
  <2> HIDE DEF a, b, r
  <2>4. /\ r \in Seq(S) /\ Len(r) = Len(a) + Len(b)
        /\ \A i \in 1..Len(a) + Len(b) : r[i] = IF i <= Len(a) THEN a[i] ELSE b[i - Len(a)]
    BY <2>1, <2>2, <2>3, ConcatProperties
  <2>5. ASSUME NEW i \in 1..Len(r) PROVE r[i] = q[From(i)]
    <3>1. i \in 1..(Len(q) - 1) /\ r[i] = IF i <= k - 1 THEN a[i] ELSE b[i - (k - 1)]
      BY <1>2, <2>1, <2>2, <2>4
    <3>2. CASE i < k
      BY <1>2, <2>1, <3>1, <3>2
    <3>3. CASE ~(i < k)
      <4>1. i - (k - 1) \in 1..(Len(q) - k) /\ k + (i - (k - 1)) = i + 1
        BY <1>2, <3>1, <3>3
      <4>2. b[i - (k - 1)] = q[k + (i - (k - 1))]
        BY <2>2, <4>1
      <4> QED
        BY <1>2, <3>1, <3>3, <4>1, <4>2
    <3> QED
      BY <3>2, <3>3
  <2> QED
    BY <1>2, <2>1, <2>2, <2>4, <2>5
<1> HIDE DEF r
<1>6. DOMAIN r = 1..(Len(q) - 1)
  BY <1>5
<1>7. \A i \in 1..(Len(q) - 1) : From(i) \in 1..Len(q) /\ From(i) # k
  BY <1>2
<1>8. Distinct(r)
  <2> SUFFICES ASSUME NEW i \in 1..(Len(q) - 1), NEW j \in 1..(Len(q) - 1), r[i] = r[j]
               PROVE  i = j
    BY <1>6 DEF Distinct
  <2>1. From(i) = From(j)
    BY <1>2, <1>5, <1>6, <1>7 DEF Distinct
  <2> QED
    BY <1>2, <2>1
<1>9. Range(r) \subseteq Range(q) \ {e}
  BY <1>1, <1>2, <1>5, <1>6, <1>7 DEF Range, Distinct
<1>10. ASSUME NEW f \in Range(q) \ {e} PROVE f \in Range(r)
  <2>1. PICK i \in 1..Len(q) : q[i] = f /\ i # k
    BY <1>1, <1>2 DEF Range
  <2>2. CASE i < k
    <3>1. i \in 1..(Len(q) - 1) /\ From(i) = i
      BY <1>2, <2>2
    <3> QED
      BY <1>5, <1>6, <2>1, <3>1 DEF Range
  <2>3. CASE ~(i < k)
    <3>1. i - 1 \in 1..(Len(q) - 1) /\ From(i - 1) = i
      BY <1>2, <2>1, <2>3
    <3> QED
      BY <1>5, <1>6, <2>1, <3>1 DEF Range
  <2> QED
    BY <2>2, <2>3
<1> QED
  BY <1>4, <1>5, <1>8, <1>9, <1>10

LEMMA AppendOfDistinct ==
    ASSUME NEW S, NEW q \in Seq(S), Distinct(q), NEW e \in S, e \notin Range(q)
    PROVE  Distinct(Append(q, e))
<1>1. /\ Len(q) \in Nat /\ DOMAIN q = 1..Len(q) /\ DOMAIN Append(q, e) = 1..(Len(q) + 1)
      /\ \A i \in 1..Len(q) : Append(q, e)[i] = q[i] /\ q[i] # e
      /\ Append(q, e)[Len(q) + 1] = e
  BY DEF Range
<1> QED
  BY <1>1 DEF Distinct

LEMMA TailOfDistinct ==
    ASSUME NEW S, NEW q \in Seq(S), Distinct(q), q # <<>>
    PROVE  Distinct(Tail(q)) /\ Head(q) \notin Range(Tail(q))
<1>1. /\ Len(q) \in Nat \ {0} /\ DOMAIN q = 1..Len(q) /\ DOMAIN Tail(q) = 1..(Len(q) - 1)
      /\ Head(q) = q[1]
  OBVIOUS
<1>2. \A i \in 1..(Len(q) - 1) : Tail(q)[i] = q[i + 1] /\ i + 1 \in 1..Len(q) /\ i + 1 # 1
  BY <1>1
<1>3. Distinct(Tail(q))
  BY <1>1, <1>2 DEF Distinct
<1>4. Head(q) \notin Range(Tail(q))
  <2> SUFFICES ASSUME NEW i \in 1..(Len(q) - 1), Tail(q)[i] = q[1] PROVE FALSE
    BY <1>1 DEF Range
  <2> QED
    BY <1>1, <1>2 DEF Distinct
<1> QED
  BY <1>3, <1>4

LEMMA EmptyIsDistinct == Distinct(<<>>)
  BY DEF Distinct

-----------------------------------------------------------------------------
(* Where a published event rests, and what a reprocess forwards *)

Stages == {"new", "again", "send", "park", "reply", "done"}
Rests(e) == stage[e] \in {"reply", "done"}

GateTypes ==
    /\ stage \in [Events -> Stages]
    /\ parked \in [Users -> Seq(Events)] /\ todo \in [Users -> Seq(Events)]
    /\ rp \in [Users -> {"off", "receive", "settle", "publish"}]
    /\ owed \in [Users -> SUBSET Events]
    /\ timers \subseteq Timed /\ dropped \subseteq Events
    /\ failures \in Nat

\* The session of a user holds each event at most once, and none of another user.
ParkedOK == \A u \in Users :
    Distinct(parked[u]) /\ \A e \in Range(parked[u]) : UserOf[e] = u

\* What a batch still holds is parked; its head no more once it was completed.
TodoOK == \A u \in Users :
    /\ todo[u] = <<>> <=> rp[u] \in {"off", "receive"}
    /\ Distinct(todo[u])
    /\ rp[u] = "settle" => Range(todo[u]) \subseteq Range(parked[u])
    /\ rp[u] = "publish" =>
        /\ stage[Head(todo[u])] # "new"
        /\ Range(Tail(todo[u])) \subseteq Range(parked[u])

\* An event rests in one place from the moment its send returned.
PlacesOK == \A e \in Events :
    /\ Rests(e) <=> e \in Accepted \/ e \in timers \/ IsParked(e) \/ e \in dropped
    /\ e \in Accepted => e \notin timers /\ ~IsParked(e) /\ e \notin dropped
    /\ e \in timers => ~IsParked(e) /\ e \notin dropped
    /\ IsParked(e) => e \notin dropped

\* Of what a task found when it started, all but the event it publishes rests.
OwedOK ==
    /\ failures = 0 => dropped = {}
    /\ \A u \in Users : rp[u] # "off" => \A e \in owed[u] :
        UserOf[e] = u /\ (Rests(e) \/ (rp[u] = "publish" /\ e = Head(todo[u])))

GateInv == GateTypes /\ ParkedOK /\ TodoOK /\ PlacesOK /\ OwedOK

LEMMA EnqueueAccepts ==
    ASSUME TypeOK, NEW e \in Events, Enqueue(e)
    PROVE  e \notin Accepted /\ Accepted' = Accepted \cup {e}
<1>1. NextSeqno \in Nat /\ NextSeqno > 0
  BY NextSeqnoType
<1>2. seqno \in [Events -> Nat] /\ seqno[e] = 0 /\ seqno' = [seqno EXCEPT ![e] = NextSeqno]
  BY DEF TypeOK, Enqueue
<1> QED
  BY <1>1, <1>2 DEF Accepted

LEMMA ConsumerAcceptsNone == ConsumerNext => UNCHANGED seqno
<1> SUFFICES ASSUME NEW w \in Workers, Step(w) \/ Fault(w) PROVE UNCHANGED seqno
  BY DEF ConsumerNext
<1> USE DEF brokerVars
<1>1. Step(w) => UNCHANGED seqno
  BY DEF Step, Accept, Receive, ReceiveEmpty, FinalReceive, FinalEmpty, Complete, Handle
<1>2. Fault(w) => UNCHANGED seqno
  BY DEF Fault, ReceiveError, Abandon, SettleError, LockExpire, Crash
<1> QED
  BY <1>1, <1>2

LEMMA GateInvInit == GateInit => GateInv
<1> SUFFICES ASSUME GateInit PROVE GateInv
  OBVIOUS
<1>1. Accepted = {}
  BY DEF GateInit, Init, Accepted
<1>2. /\ stage = [e \in Events |-> "new"] /\ timers = {} /\ dropped = {} /\ failures = 0
      /\ parked = [u \in Users |-> <<>>] /\ todo = [u \in Users |-> <<>>]
      /\ rp = [u \in Users |-> "off"] /\ owed = [u \in Users |-> {}]
  BY DEF GateInit
<1>3. GateTypes
  BY <1>2 DEF GateTypes, Stages
<1>4. ParkedOK /\ TodoOK
  BY <1>2, EmptyIsDistinct, RangeOfEmpty DEF ParkedOK, TodoOK
<1>5. PlacesOK
  BY <1>1, <1>2, RangeOfEmpty, UsersAssumption DEF PlacesOK, Rests, IsParked
<1>6. OwedOK
  BY <1>2 DEF OwedOK
<1> QED
  BY <1>3, <1>4, <1>5, <1>6 DEF GateInv

\* Steps that touch neither an event's stage nor a place it rests in.
LEMMA QuietStep ==
    ASSUME GateInv,
           UNCHANGED <<seqno, stage, timers, parked, taskVars, dropped, failures>>
    PROVE  GateInv'
  BY DEF GateInv, GateTypes, ParkedOK, TodoOK, PlacesOK, OwedOK, IsParked, Rests, Accepted,
     taskVars

\* The steps of a publish call that move its event to no other place.
LEMMA StageStep ==
    ASSUME GateInv, NEW e \in Events, NEW x \in Stages \ {"new"},
           stage' = [stage EXCEPT ![e] = x], Rests(e) <=> x \in {"reply", "done"},
           UNCHANGED <<seqno, timers, parked, taskVars, dropped, failures>>
    PROVE  GateInv'
<1> USE DEF taskVars
<1>1. /\ \A f \in Events : (Rests(f) <=> Rests(f)') /\ (stage'[f] = "new" => stage[f] = "new")
      /\ stage' \in [Events -> Stages]
  BY DEF GateInv, GateTypes, Rests
<1>2. GateTypes'
  BY <1>1 DEF GateInv, GateTypes
<1>3. ParkedOK'
  BY DEF GateInv, ParkedOK
<1>4. TodoOK'
  <2> SUFFICES ASSUME NEW u \in Users, rp[u] = "publish" PROVE stage'[Head(todo[u])] # "new"
    BY DEF GateInv, TodoOK
  <2>1. Head(todo[u]) \in Events
    BY RangeOfTail DEF GateInv, GateTypes, TodoOK
  <2> QED
    BY <1>1, <2>1 DEF GateInv, TodoOK
<1>5. PlacesOK'
  BY <1>1 DEF GateInv, PlacesOK, IsParked, Accepted
<1>6. OwedOK'
  BY <1>1 DEF GateInv, GateTypes, OwedOK
<1> QED
  BY <1>2, <1>3, <1>4, <1>5, <1>6 DEF GateInv

\* The facts of the invariant on one task and one event.
LEMMA OfTask ==
    ASSUME GateInv, NEW u \in Users, todo[u] # <<>>
    PROVE  /\ rp[u] \in {"settle", "publish"}
           /\ todo[u] \in Seq(Events) /\ Distinct(todo[u])
           /\ Head(todo[u]) \in Events /\ Tail(todo[u]) \in Seq(Events)
           /\ Distinct(Tail(todo[u])) /\ Head(todo[u]) \notin Range(Tail(todo[u]))
           /\ Range(todo[u]) = {Head(todo[u])} \cup Range(Tail(todo[u]))
           /\ Range(Tail(todo[u])) \subseteq Range(parked[u])
  BY RangeOfTail, TailOfDistinct DEF GateInv, GateTypes, TodoOK

\* The steps that put an event that rests nowhere in a place and let its call go on.
LEMMA RestStep ==
    ASSUME GateInv, NEW e \in Events, ~Rests(e),
           NEW x \in {"reply", "done"}, stage' = [stage EXCEPT ![e] = x],
           NEW p \in {"accepted", "timer", "parked", "dropped"}, p = "timer" => e \in Timed,
           timers' \subseteq Timed, dropped' \subseteq Events,
           \A f \in Events :
             /\ f \in Accepted' <=> f \in Accepted \/ (f = e /\ p = "accepted")
             /\ f \in timers' <=> f \in timers \/ (f = e /\ p = "timer")
             /\ f \in dropped' <=> f \in dropped \/ (f = e /\ p = "dropped"),
           \/ p = "parked" /\ parked' = [parked EXCEPT ![UserOf[e]] = Append(@, e)]
           \/ p # "parked" /\ UNCHANGED parked,
           failures' \in Nat, failures' = 0 => failures = 0 /\ p # "dropped",
           UNCHANGED taskVars
    PROVE  GateInv'
<1> USE DEF taskVars
<1>1. /\ \A f \in Events : Rests(f)' <=> Rests(f) \/ f = e
      /\ \A f \in Events : stage'[f] = "new" => stage[f] = "new"
      /\ stage' \in [Events -> Stages]
  BY DEF GateInv, GateTypes, Rests, Stages
<1>2. e \notin Accepted /\ e \notin timers /\ ~IsParked(e) /\ e \notin dropped
  BY DEF GateInv, PlacesOK
<1>3. /\ UserOf[e] \in Users /\ parked \in [Users -> Seq(Events)]
      /\ Append(parked[UserOf[e]], e) \in Seq(Events)
      /\ Range(Append(parked[UserOf[e]], e)) = Range(parked[UserOf[e]]) \cup {e}
      /\ Distinct(Append(parked[UserOf[e]], e))
  <2>1. UserOf[e] \in Users /\ parked \in [Users -> Seq(Events)]
    BY UsersAssumption DEF GateInv, GateTypes
  <2>2. Distinct(parked[UserOf[e]]) /\ e \notin Range(parked[UserOf[e]])
    BY <1>2, <2>1 DEF GateInv, ParkedOK, IsParked
  <2> QED
    BY <2>1, <2>2, RangeOfAppend, AppendOfDistinct
<1>4. \A u \in Users :
        /\ parked'[u] \in Seq(Events) /\ Distinct(parked'[u])
        /\ Range(parked[u]) \subseteq Range(parked'[u])
        /\ \A f \in Range(parked'[u]) :
             f \in Range(parked[u]) \/ (f = e /\ u = UserOf[e] /\ p = "parked")
  <2> TAKE u \in Users
  <2>1. parked[u] \in Seq(Events) /\ Distinct(parked[u])
    BY <1>3 DEF GateInv, ParkedOK
  <2>2. CASE p = "parked" /\ u = UserOf[e]
    <3>1. parked'[u] = Append(parked[u], e)
      BY <1>3, <2>2
    <3> QED
      BY <1>3, <2>2, <3>1
  <2>3. CASE ~(p = "parked" /\ u = UserOf[e])
    <3>1. parked'[u] = parked[u]
      BY <1>3, <2>3
    <3> QED
      BY <2>1, <3>1
  <2> QED
    BY <2>2, <2>3
<1>4a. p = "parked" => e \in Range(parked'[UserOf[e]])
  BY <1>3
<1>5. GateTypes'
  BY <1>1, <1>3 DEF GateInv, GateTypes
<1>6. ParkedOK'
  BY <1>4 DEF GateInv, ParkedOK
<1>7. TodoOK'
  <2> SUFFICES ASSUME NEW u \in Users
               PROVE  /\ rp[u] = "settle" => Range(todo[u]) \subseteq Range(parked'[u])
                      /\ rp[u] = "publish" =>
                          /\ stage'[Head(todo[u])] # "new"
                          /\ Range(Tail(todo[u])) \subseteq Range(parked'[u])
    BY DEF GateInv, TodoOK
  <2>1. rp[u] = "publish" => Head(todo[u]) \in Events /\ stage'[Head(todo[u])] # "new"
    <3> SUFFICES ASSUME rp[u] = "publish"
                 PROVE  Head(todo[u]) \in Events /\ stage'[Head(todo[u])] # "new"
      OBVIOUS
    <3>1. todo[u] # <<>> /\ stage[Head(todo[u])] # "new"
      BY DEF GateInv, TodoOK
    <3> QED
      BY <1>1, <3>1, OfTask
  <2>2. Range(parked[u]) \subseteq Range(parked'[u])
    BY <1>4
  <2> QED
    BY <2>1, <2>2 DEF GateInv, TodoOK
<1>8. \A f \in Events : IsParked(f)' <=> IsParked(f) \/ (f = e /\ p = "parked")
  <2> SUFFICES ASSUME NEW f \in Events
               PROVE  f \in Range(parked'[UserOf[f]])
                        <=> f \in Range(parked[UserOf[f]]) \/ (f = e /\ p = "parked")
    BY DEF IsParked
  <2>1. UserOf[f] \in Users
    BY UsersAssumption
  <2> QED
    BY <1>4, <1>4a, <2>1
<1>9. PlacesOK'
  <2> SUFFICES ASSUME NEW f \in Events
               PROVE  /\ Rests(f)' <=> f \in Accepted' \/ f \in timers' \/ IsParked(f)' \/ f \in dropped'
                      /\ f \in Accepted' => f \notin timers' /\ ~IsParked(f)' /\ f \notin dropped'
                      /\ f \in timers' => ~IsParked(f)' /\ f \notin dropped'
                      /\ IsParked(f)' => f \notin dropped'
    BY DEF PlacesOK
  <2>2. CASE f = e
    BY <1>1, <1>2, <1>8, <2>2
  <2>3. CASE f # e
    BY <1>1, <1>8, <2>3 DEF GateInv, PlacesOK
  <2> QED
    BY <2>2, <2>3
<1>10. OwedOK'
  BY <1>1 DEF GateInv, GateTypes, OwedOK
<1> QED
  BY <1>5, <1>6, <1>7, <1>9, <1>10 DEF GateInv

LEMMA CheckGate == ASSUME GateInv, NEW e \in Events, Check(e) \/ Reply(e) PROVE GateInv'
<1>1. UNCHANGED <<seqno, timers, parked, taskVars, dropped, failures>>
  BY DEF Check, Reply, brokerVars
<1>2. stage \in [Events -> Stages]
  BY DEF GateInv, GateTypes
<1>3. CASE Check(e)
  <2>1. PICK x \in {"send", "park"} : stage' = [stage EXCEPT ![e] = x] /\ ~Rests(e)
    BY <1>3 DEF Check, Rests
  <2> QED
    BY <1>1, <2>1, StageStep DEF Stages
<1>4. CASE Reply(e)
  <2>1. stage' = [stage EXCEPT ![e] = "done"] /\ Rests(e)
    BY <1>4 DEF Reply, At, Rests
  <2> QED
    BY <1>1, <2>1, StageStep DEF Stages
<1> QED
  BY <1>3, <1>4

LEMMA SendGate == ASSUME TypeOK, GateInv, NEW e \in Events, Send(e) PROVE GateInv'
<1>1. /\ ~Rests(e) /\ stage' = [stage EXCEPT ![e] = "done"]
      /\ UNCHANGED <<parked, taskVars, dropped, failures>>
  BY DEF Send, At, Rests
<1>2. timers \subseteq Timed /\ dropped \subseteq Events /\ failures \in Nat
  BY DEF GateInv, GateTypes
<1>3. CASE e \in Timed \ due
  <2>1. timers' = timers \cup {e} /\ Accepted' = Accepted
    BY <1>3 DEF Send, brokerVars, Accepted
  <2> QED
    BY <1>1, <1>2, <1>3, <2>1, RestStep
<1>4. CASE e \notin Timed \ due
  <2>1. timers' = timers /\ Accepted' = Accepted \cup {e}
    BY <1>4, EnqueueAccepts DEF Send
  <2> QED
    BY <1>1, <1>2, <2>1, RestStep
<1> QED
  BY <1>3, <1>4

LEMMA ParkGate == ASSUME GateInv, NEW e \in Events, Park(e) PROVE GateInv'
<1>1. /\ ~Rests(e) /\ stage' = [stage EXCEPT ![e] = "reply"]
      /\ UNCHANGED <<timers, taskVars, dropped, failures>> /\ Accepted' = Accepted
      /\ parked' = [parked EXCEPT ![UserOf[e]] = Append(@, e)]
  BY DEF Park, At, Rests, brokerVars, Accepted
<1>2. timers \subseteq Timed /\ dropped \subseteq Events /\ failures \in Nat
  BY DEF GateInv, GateTypes
<1> QED
  BY <1>1, <1>2, RestStep

LEMMA SendFailsGate == ASSUME GateInv, NEW e \in Events, SendFails(e) PROVE GateInv'
<1>1. PICK x \in {"reply", "done"} : stage' = [stage EXCEPT ![e] = x] /\ ~Rests(e)
  BY DEF SendFails, At, Rests
<1>2. /\ UNCHANGED <<timers, parked, taskVars>> /\ Accepted' = Accepted
      /\ dropped' = dropped \cup {e} /\ failures' = failures + 1
  BY DEF SendFails, SpendFailure, brokerVars, Accepted
<1>3. timers \subseteq Timed /\ dropped' \subseteq Events /\ failures' \in Nat \ {0}
  BY <1>2 DEF GateInv, GateTypes
<1> QED
  BY <1>1, <1>2, <1>3, RestStep

LEMMA FireTimerGate == ASSUME TypeOK, GateInv, NEW e \in Events, FireTimer(e) PROVE GateInv'
<1>1. /\ e \in timers /\ timers' = timers \ {e} /\ Accepted' = Accepted \cup {e}
      /\ UNCHANGED <<stage, parked, taskVars, dropped, failures>>
  BY EnqueueAccepts DEF FireTimer
<1>2. GateTypes' /\ ParkedOK' /\ TodoOK' /\ OwedOK'
  BY <1>1 DEF GateInv, GateTypes, ParkedOK, TodoOK, OwedOK, Rests, taskVars
<1>3. PlacesOK'
  BY <1>1 DEF GateInv, PlacesOK, IsParked, Rests
<1> QED
  BY <1>2, <1>3 DEF GateInv

-----------------------------------------------------------------------------
(* The background task of /reprocess *)

LEMMA RpStartGate ==
    ASSUME GateInv, NEW u \in Users, RpStart(u) \/ RpFinish(u) PROVE GateInv'
<1>1. /\ UNCHANGED <<stage, timers, parked, todo, dropped, failures>> /\ Accepted' = Accepted
      /\ \/ rp' = [rp EXCEPT ![u] = "receive"] /\ rp[u] = "off"
            /\ owed' = [owed EXCEPT ![u] = Range(parked[u])]
         \/ rp' = [rp EXCEPT ![u] = "off"] /\ rp[u] = "receive" /\ owed' = owed
  BY DEF RpStart, RpFinish, brokerVars, Accepted
<1>2. Range(parked[u]) \subseteq Events
  BY DEF GateInv, GateTypes, Range
<1>3. /\ rp' \in [Users -> {"off", "receive", "settle", "publish"}]
      /\ owed' \in [Users -> SUBSET Events]
      /\ \A v \in Users : rp[v] # rp'[v] => v = u
      /\ \A v \in Users \ {u} : owed'[v] = owed[v]
  BY <1>1, <1>2 DEF GateInv, GateTypes
<1>4. GateTypes'
  BY <1>1, <1>3 DEF GateInv, GateTypes
<1>5. ParkedOK' /\ PlacesOK'
  BY <1>1 DEF GateInv, ParkedOK, PlacesOK, Rests, IsParked
<1>6. TodoOK'
  BY <1>1, <1>3 DEF GateInv, GateTypes, TodoOK
<1>7. OwedOK'
  <2>1. \A e \in Range(parked[u]) : UserOf[e] = u /\ Rests(e)
    BY <1>2 DEF GateInv, ParkedOK, PlacesOK, IsParked
  <2> SUFFICES ASSUME NEW v \in Users, rp'[v] # "off", NEW e \in owed'[v]
               PROVE  UserOf[e] = v /\ (Rests(e) \/ (rp'[v] = "publish" /\ e = Head(todo[v])))
    BY <1>1 DEF GateInv, OwedOK, Rests
  <2>2. CASE v = u
    BY <1>1, <2>1, <2>2 DEF GateInv, GateTypes
  <2>3. CASE v # u
    BY <1>1, <1>3, <2>3 DEF GateInv, OwedOK
  <2> QED
    BY <2>2, <2>3
<1> QED
  BY <1>4, <1>5, <1>6, <1>7 DEF GateInv

\* A batch is made of parked messages, and of each once.
LEMMA BatchOfParked ==
    ASSUME GateInv, NEW u \in Users, RpReceive(u)
    PROVE  \E q \in Seq(Events) :
             /\ todo' = [todo EXCEPT ![u] = q] /\ q # <<>>
             /\ Distinct(q) /\ Range(q) \subseteq Range(parked[u])
<1>1. /\ parked[u] \in Seq(Events) /\ Len(parked[u]) \in Nat /\ Distinct(parked[u])
      /\ DOMAIN parked[u] = 1..Len(parked[u])
  BY DEF GateInv, GateTypes, ParkedOK
<1>2. PICK n \in 1..MaxBatch : \E at \in [1..n -> Visible(u)] :
        /\ \A k \in 1..n, i \in Visible(u) : i < at[k] <=> \E j \in 1..(k - 1) : at[j] = i
        /\ todo' = [todo EXCEPT ![u] = [k \in 1..n |-> parked[u][at[k]]]]
  BY DEF RpReceive
<1>3. PICK at \in [1..n -> Visible(u)] :
        /\ \A k \in 1..n, i \in Visible(u) : i < at[k] <=> \E j \in 1..(k - 1) : at[j] = i
        /\ todo' = [todo EXCEPT ![u] = [k \in 1..n |-> parked[u][at[k]]]]
  BY <1>2
<1>4. n \in Nat \ {0} /\ \A k \in 1..n : at[k] \in 1..Len(parked[u])
  BY <1>1, BatchAssumption DEF Visible
<1> DEFINE q == [k \in 1..n |-> parked[u][at[k]]]
<1>5. /\ q \in Seq(Events) /\ DOMAIN q = 1..n /\ \A k \in 1..n : q[k] = parked[u][at[k]]
  BY <1>1, <1>4
<1>6. q # <<>>
  BY <1>4, <1>5
<1>7. ASSUME NEW i \in 1..n, NEW k \in 1..n, i < k PROVE at[i] < at[k]
  <2>1. i \in 1..(k - 1) /\ at[i] \in Visible(u)
    BY <1>4, <1>7
  <2> QED
    BY <1>3, <2>1
<1>8. Distinct(q)
  <2> SUFFICES ASSUME NEW i \in 1..n, NEW k \in 1..n, q[i] = q[k] PROVE i = k
    BY <1>5 DEF Distinct
  <2>1. at[i] = at[k]
    BY <1>1, <1>4, <1>5 DEF Distinct
  <2> QED
    BY <1>4, <1>7, <2>1
<1>9. Range(q) \subseteq Range(parked[u])
  BY <1>1, <1>4, <1>5 DEF Range
<1> QED
  BY <1>3, <1>5, <1>6, <1>8, <1>9

\* The steps of a task that only change its batch and its position.
LEMMA TaskStep ==
    ASSUME GateInv, NEW u \in Users, NEW q \in Seq(Events),
           NEW x \in {"off", "receive", "settle"},
           todo' = [todo EXCEPT ![u] = q], rp' = [rp EXCEPT ![u] = x],
           q = <<>> <=> x \in {"off", "receive"},
           Distinct(q), Range(q) \subseteq Range(parked[u]),
           x = "off" \/ rp[u] \in {"receive", "settle"}
             \/ (rp[u] = "publish" /\ Rests(Head(todo[u]))),
           failures' \in Nat, failures' = 0 => failures = 0,
           UNCHANGED <<seqno, stage, timers, parked, owed, dropped>>
    PROVE  GateInv'
<1>1. GateTypes'
  BY DEF GateInv, GateTypes
<1>2. ParkedOK' /\ PlacesOK'
  BY DEF GateInv, ParkedOK, PlacesOK, Rests, IsParked, Accepted
<1>3. \A v \in Users : /\ rp'[v] = IF v = u THEN x ELSE rp[v]
                       /\ todo'[v] = IF v = u THEN q ELSE todo[v]
  BY DEF GateInv, GateTypes
<1>4. TodoOK'
  <2> SUFFICES ASSUME NEW v \in Users
               PROVE  /\ todo'[v] = <<>> <=> rp'[v] \in {"off", "receive"}
                      /\ Distinct(todo'[v])
                      /\ rp'[v] = "settle" => Range(todo'[v]) \subseteq Range(parked[v])
                      /\ rp'[v] = "publish" =>
                          /\ stage[Head(todo'[v])] # "new"
                          /\ Range(Tail(todo'[v])) \subseteq Range(parked[v])
    BY DEF TodoOK
  <2>1. CASE v = u
    BY <1>3, <2>1
  <2>2. CASE v # u
    BY <1>3, <2>2 DEF GateInv, TodoOK
  <2> QED
    BY <2>1, <2>2
<1>5. OwedOK'
  <2> SUFFICES ASSUME NEW v \in Users, rp'[v] # "off", NEW e \in owed[v]
               PROVE  UserOf[e] = v /\ (Rests(e) \/ (rp'[v] = "publish" /\ e = Head(todo'[v])))
    BY DEF GateInv, OwedOK, Rests
  <2>1. CASE v = u
    BY <1>3, <2>1 DEF GateInv, OwedOK
  <2>2. CASE v # u
    BY <1>3, <2>2 DEF GateInv, OwedOK
  <2> QED
    BY <2>1, <2>2
<1> QED
  BY <1>1, <1>2, <1>4, <1>5 DEF GateInv

LEMMA RpReceiveGate == ASSUME GateInv, NEW u \in Users, RpReceive(u) PROVE GateInv'
<1>1. PICK q \in Seq(Events) :
        /\ todo' = [todo EXCEPT ![u] = q] /\ q # <<>>
        /\ Distinct(q) /\ Range(q) \subseteq Range(parked[u])
  BY BatchOfParked
<1>2. /\ rp[u] = "receive" /\ rp' = [rp EXCEPT ![u] = "settle"]
      /\ UNCHANGED <<seqno, stage, timers, parked, owed, dropped, failures>> /\ failures \in Nat
  BY DEF RpReceive, brokerVars, GateInv, GateTypes
<1> QED
  BY <1>1, <1>2, TaskStep

\* The batch goes on with its next message, or there is none left.
LEMMA RpAdvanceGate ==
    ASSUME GateInv, NEW u \in Users, RpAdvance(u),
           rp[u] = "settle" \/ (rp[u] = "publish" /\ Rests(Head(todo[u]))),
           failures' \in Nat, failures' = 0 => failures = 0,
           UNCHANGED <<seqno, stage, timers, parked, owed, dropped>>
    PROVE  GateInv'
<1>1. todo[u] # <<>> /\ todo[u] \in Seq(Events)
  BY DEF GateInv, GateTypes, TodoOK
<1>2. Tail(todo[u]) = <<>> <=> Len(todo[u]) = 1
  <2>1. /\ Tail(todo[u]) \in Seq(Events) /\ Len(todo[u]) \in Nat
        /\ Len(Tail(todo[u])) = Len(todo[u]) - 1
    BY <1>1
  <2>2. Tail(todo[u]) = <<>> <=> Len(Tail(todo[u])) = 0
    BY <2>1, EmptySeq
  <2> QED
    BY <2>1, <2>2
<1>3. PICK x \in {"off", "receive", "settle"} :
        /\ rp' = [rp EXCEPT ![u] = x] /\ x # "off"
        /\ Tail(todo[u]) = <<>> <=> x = "receive"
  BY <1>2 DEF RpAdvance
<1>4. /\ todo' = [todo EXCEPT ![u] = Tail(todo[u])]
      /\ Tail(todo[u]) \in Seq(Events) /\ Distinct(Tail(todo[u]))
      /\ Range(Tail(todo[u])) \subseteq Range(parked[u])
  BY <1>1, OfTask DEF RpAdvance
<1> QED
  BY <1>3, <1>4, TaskStep

LEMMA RpStopGate ==
    ASSUME GateInv, NEW u \in Users, RpStop(u),
           failures' \in Nat, failures' = 0 => failures = 0,
           UNCHANGED <<seqno, stage, timers, parked, owed, dropped>>
    PROVE  GateInv'
<1>1. <<>> \in Seq(Events) /\ Distinct(<<>>) /\ Range(<<>>) = {}
  BY EmptyIsDistinct, RangeOfEmpty
<1>2. rp' = [rp EXCEPT ![u] = "off"] /\ todo' = [todo EXCEPT ![u] = <<>>]
  BY DEF RpStop
<1> QED
  BY <1>1, <1>2, TaskStep

LEMMA RpNextGate == ASSUME GateInv, NEW u \in Users, RpNext(u) PROVE GateInv'
  BY RpAdvanceGate DEF RpNext, Rests, brokerVars, GateInv, GateTypes

\* What completing the message at the head of a batch does.
LEMMA UnparkTakesOut ==
    ASSUME GateInv, NEW u \in Users, rp[u] = "settle", Unpark(u)
    PROVE  LET e == Head(todo[u]) IN
           /\ e \in Events /\ UserOf[e] = u /\ IsParked(e) /\ Rests(e)
           /\ parked' \in [Users -> Seq(Events)] /\ Distinct(parked'[u])
           /\ Range(parked'[u]) = Range(parked[u]) \ {e}
           /\ \A v \in Users \ {u} : parked'[v] = parked[v]
           /\ Range(Tail(todo[u])) \subseteq Range(parked'[u])
<1> DEFINE e == Head(todo[u])
<1>1. /\ todo[u] # <<>> /\ e \in Events /\ e \in Range(parked[u])
      /\ Range(Tail(todo[u])) \subseteq Range(parked[u]) \ {e}
  <2>1. todo[u] # <<>> /\ Range(todo[u]) \subseteq Range(parked[u])
    BY DEF GateInv, TodoOK
  <2> QED
    BY <2>1, OfTask
<1>2. /\ parked \in [Users -> Seq(Events)] /\ Distinct(parked[u]) /\ UserOf[e] = u
  BY <1>1 DEF GateInv, GateTypes, ParkedOK
<1>3. /\ RemoveFirst(parked[u], e) \in Seq(Events) /\ Distinct(RemoveFirst(parked[u], e))
      /\ Range(RemoveFirst(parked[u], e)) = Range(parked[u]) \ {e}
  BY <1>1, <1>2, RemoveFirstOfDistinct
<1>4. /\ parked' \in [Users -> Seq(Events)] /\ parked'[u] = RemoveFirst(parked[u], e)
      /\ \A v \in Users \ {u} : parked'[v] = parked[v]
  BY <1>2, <1>3 DEF Unpark
<1>5. IsParked(e) /\ Rests(e)
  BY <1>1, <1>2 DEF GateInv, PlacesOK, IsParked
<1> QED
  BY <1>1, <1>2, <1>3, <1>4, <1>5

LEMMA RpCompleteGate == ASSUME GateInv, NEW u \in Users, RpComplete(u) PROVE GateInv'
<1>0. PICK e \in Events : e = Head(todo[u])
  BY UnparkTakesOut DEF RpComplete
<1>1. /\ rp[u] = "settle" /\ rp' = [rp EXCEPT ![u] = "publish"]
      /\ stage' = [stage EXCEPT ![e] = "again"] /\ Accepted' = Accepted
      /\ UNCHANGED <<timers, todo, owed, dropped, failures>>
  BY <1>0 DEF RpComplete, brokerVars, Accepted
<1>2. /\ e \in Events /\ UserOf[e] = u /\ IsParked(e) /\ Rests(e)
      /\ parked' \in [Users -> Seq(Events)] /\ Distinct(parked'[u])
      /\ Range(parked'[u]) = Range(parked[u]) \ {e}
      /\ \A v \in Users \ {u} : parked'[v] = parked[v]
      /\ Range(Tail(todo[u])) \subseteq Range(parked'[u])
  BY <1>0, <1>1, UnparkTakesOut DEF RpComplete
<1>3. /\ \A f \in Events \ {e} : stage'[f] = stage[f]
      /\ stage'[e] = "again" /\ stage' \in [Events -> Stages]
      /\ rp' \in [Users -> {"off", "receive", "settle", "publish"}] /\ rp'[u] = "publish"
      /\ \A v \in Users \ {u} : rp'[v] = rp[v]
  BY <1>1, <1>2 DEF GateInv, GateTypes, Stages
<1>4. GateTypes'
  BY <1>1, <1>2, <1>3 DEF GateInv, GateTypes
<1>5. ParkedOK'
  BY <1>2 DEF GateInv, ParkedOK
<1>6. TodoOK'
  <2> SUFFICES ASSUME NEW v \in Users
               PROVE  /\ todo[v] = <<>> <=> rp'[v] \in {"off", "receive"}
                      /\ Distinct(todo[v])
                      /\ rp'[v] = "settle" => Range(todo[v]) \subseteq Range(parked'[v])
                      /\ rp'[v] = "publish" =>
                          /\ stage'[Head(todo[v])] # "new"
                          /\ Range(Tail(todo[v])) \subseteq Range(parked'[v])
    BY <1>1 DEF TodoOK
  <2>1. CASE v = u
    BY <1>1, <1>2, <1>3, <2>1, <1>0 DEF GateInv, TodoOK
  <2>2. CASE v # u
    <3>1. rp[v] = "publish" => Head(todo[v]) \in Events
      BY OfTask DEF GateInv, TodoOK
    <3> QED
      BY <1>2, <1>3, <2>2, <3>1 DEF GateInv, TodoOK
  <2> QED
    BY <2>1, <2>2
<1>7. /\ ~IsParked(e)' /\ ~Rests(e)'
      /\ \A f \in Events \ {e} : (IsParked(f)' <=> IsParked(f)) /\ (Rests(f)' <=> Rests(f))
  <2>1. \A f \in Events : UserOf[f] \in Users
    BY UsersAssumption
  <2>2. ~Rests(e)' /\ \A f \in Events \ {e} : Rests(f)' <=> Rests(f)
    BY <1>3 DEF Rests
  <2>3. e \notin Range(parked'[UserOf[e]])
    BY <1>2
  <2>4. \A f \in Events \ {e} :
          f \in Range(parked'[UserOf[f]]) <=> f \in Range(parked[UserOf[f]])
    <3> TAKE f \in Events \ {e}
    <3>1. CASE UserOf[f] = u
      BY <1>2, <3>1
    <3>2. CASE UserOf[f] # u
      BY <1>2, <2>1, <3>2
    <3> QED
      BY <3>1, <3>2
  <2> QED
    BY <2>2, <2>3, <2>4 DEF IsParked
<1>8. PlacesOK'
  <2>1. e \notin Accepted /\ e \notin timers /\ e \notin dropped
    BY <1>2 DEF GateInv, PlacesOK
  <2> SUFFICES ASSUME NEW f \in Events
               PROVE  /\ Rests(f)' <=> f \in Accepted \/ f \in timers \/ IsParked(f)' \/ f \in dropped
                      /\ f \in Accepted => f \notin timers /\ ~IsParked(f)' /\ f \notin dropped
                      /\ f \in timers => ~IsParked(f)' /\ f \notin dropped
                      /\ IsParked(f)' => f \notin dropped
    BY <1>1 DEF PlacesOK
  <2>2. CASE f = e
    BY <1>7, <2>1, <2>2
  <2>3. CASE f # e
    BY <1>7, <2>3 DEF GateInv, PlacesOK
  <2> QED
    BY <2>2, <2>3
<1>9. OwedOK'
  <2> SUFFICES ASSUME NEW v \in Users, rp'[v] # "off", NEW f \in owed[v]
               PROVE  UserOf[f] = v /\ (Rests(f)' \/ (rp'[v] = "publish" /\ f = Head(todo[v])))
    BY <1>1 DEF GateInv, OwedOK
  <2>1. f \in Events /\ rp[v] # "off"
    BY <1>1, <1>3 DEF GateInv, GateTypes
  <2>2. UserOf[f] = v /\ (Rests(f) \/ (rp[v] = "publish" /\ f = Head(todo[v])))
    BY <2>1 DEF GateInv, OwedOK
  <2>3. CASE v = u
    <3>1. Rests(f) /\ rp'[v] = "publish"
      BY <1>1, <1>3, <2>2, <2>3
    <3>2. f = e \/ Rests(f)'
      BY <1>7, <2>1, <3>1
    <3> QED
      BY <2>2, <2>3, <3>1, <3>2, <1>0
  <2>4. CASE v # u
    <3>1. f # e
      BY <1>2, <2>2, <2>4
    <3> QED
      BY <1>3, <1>7, <2>1, <2>2, <2>4, <3>1
  <2> QED
    BY <2>3, <2>4
<1> QED
  BY <1>4, <1>5, <1>6, <1>8, <1>9 DEF GateInv

\* The completion reached the broker, its answer did not, and the task ends.
LEMMA LostCompletionGate ==
    ASSUME GateInv, NEW u \in Users, rp[u] = "settle", RpStop(u), Unpark(u),
           dropped' = dropped \cup {Head(todo[u])}, failures' = failures + 1,
           UNCHANGED <<seqno, stage, timers, owed>>
    PROVE  GateInv'
<1>0. PICK e \in Events : e = Head(todo[u])
  BY UnparkTakesOut DEF RpComplete
<1>1. /\ rp' = [rp EXCEPT ![u] = "off"] /\ todo' = [todo EXCEPT ![u] = <<>>]
      /\ Accepted' = Accepted
  BY DEF RpStop, Accepted
<1>2. /\ e \in Events /\ UserOf[e] = u /\ IsParked(e) /\ Rests(e)
      /\ parked' \in [Users -> Seq(Events)] /\ Distinct(parked'[u])
      /\ Range(parked'[u]) = Range(parked[u]) \ {e}
      /\ \A v \in Users \ {u} : parked'[v] = parked[v]
  BY <1>0, UnparkTakesOut
<1>3. dropped' = dropped \cup {e}
  BY <1>0
<1>4. failures' \in Nat \ {0}
  BY DEF GateInv, GateTypes
<1>5. GateTypes'
  <2>1. dropped' \subseteq Events /\ parked' \in [Users -> Seq(Events)] /\ failures' \in Nat
    BY <1>2, <1>3, <1>4 DEF GateInv, GateTypes
  <2>2. /\ rp' \in [Users -> {"off", "receive", "settle", "publish"}]
        /\ todo' \in [Users -> Seq(Events)]
    BY <1>1 DEF GateInv, GateTypes
  <2> QED
    BY <2>1, <2>2 DEF GateInv, GateTypes
<1>6. ParkedOK'
  BY <1>2 DEF GateInv, ParkedOK
<1>7. \A v \in Users : /\ rp'[v] = IF v = u THEN "off" ELSE rp[v]
                       /\ todo'[v] = IF v = u THEN <<>> ELSE todo[v]
  BY <1>1 DEF GateInv, GateTypes
<1>8. TodoOK'
  BY <1>2, <1>7, EmptyIsDistinct DEF GateInv, TodoOK
<1>9. ~IsParked(e)' /\ \A f \in Events \ {e} : IsParked(f)' <=> IsParked(f)
  <2>1. \A f \in Events : UserOf[f] \in Users
    BY UsersAssumption
  <2>2. e \notin Range(parked'[UserOf[e]])
    BY <1>2
  <2>3. \A f \in Events \ {e} :
          f \in Range(parked'[UserOf[f]]) <=> f \in Range(parked[UserOf[f]])
    <3> TAKE f \in Events \ {e}
    <3>1. CASE UserOf[f] = u
      BY <1>2, <3>1
    <3>2. CASE UserOf[f] # u
      BY <1>2, <2>1, <3>2
    <3> QED
      BY <3>1, <3>2
  <2> QED
    BY <2>2, <2>3 DEF IsParked
<1>10. PlacesOK'
  <2>1. e \notin Accepted /\ e \notin timers
    BY <1>2 DEF GateInv, PlacesOK
  <2> SUFFICES ASSUME NEW f \in Events
               PROVE  /\ Rests(f) <=> f \in Accepted \/ f \in timers \/ IsParked(f)' \/ f \in dropped'
                      /\ f \in Accepted => f \notin timers /\ ~IsParked(f)' /\ f \notin dropped'
                      /\ f \in timers => ~IsParked(f)' /\ f \notin dropped'
                      /\ IsParked(f)' => f \notin dropped'
    BY <1>1 DEF PlacesOK, Rests
  <2>2. CASE f = e
    BY <1>2, <1>3, <1>9, <2>1, <2>2
  <2>3. CASE f # e
    BY <1>3, <1>9, <2>3 DEF GateInv, PlacesOK
  <2> QED
    BY <2>2, <2>3
<1>11. OwedOK'
  BY <1>4, <1>7 DEF GateInv, OwedOK, Rests
<1> QED
  BY <1>5, <1>6, <1>8, <1>10, <1>11 DEF GateInv

LEMMA RpSettleErrorGate == ASSUME GateInv, NEW u \in Users, RpSettleError(u) PROVE GateInv'
<1>1. /\ rp[u] = "settle" /\ UNCHANGED <<seqno, stage, timers, owed>>
      /\ failures' = failures + 1 /\ failures' \in Nat \ {0}
  BY DEF RpSettleError, SpendFailure, brokerVars, GateInv, GateTypes
<1>2. CASE RpAdvance(u) /\ UNCHANGED <<parked, dropped>>
  BY <1>1, <1>2, RpAdvanceGate
<1>3. CASE RpStop(u) /\ UNCHANGED <<parked, dropped>>
  BY <1>1, <1>3, RpStopGate
<1>4. CASE RpStop(u) /\ Unpark(u) /\ dropped' = dropped \cup {Head(todo[u])}
  BY <1>1, <1>4, LostCompletionGate
<1> QED
  BY <1>2, <1>3, <1>4 DEF RpSettleError

\* What dies with a task is the event it was publishing, wherever that rests.
LEMMA RpDiesGate == ASSUME GateInv, NEW u \in Users, RpDies(u) PROVE GateInv'
<1> DEFINE cut == IF rp[u] = "publish" THEN {Head(todo[u])} ELSE {}
           gone == {e \in cut : stage[e] \in {"again", "send", "park"}}
<1>1. /\ rp' = [rp EXCEPT ![u] = "off"] /\ todo' = [todo EXCEPT ![u] = <<>>]
      /\ stage' = [e \in Events |-> IF e \in cut THEN "done" ELSE stage[e]]
      /\ dropped' = dropped \cup gone /\ failures' = failures + 1
      /\ Accepted' = Accepted /\ UNCHANGED <<timers, parked, owed>>
  BY DEF RpDies, RpStop, SpendFailure, brokerVars, Accepted
<1>2. /\ cut \subseteq Events /\ \A e \in cut : stage[e] \in Stages \ {"new"}
      /\ \A e \in Events : e \in gone <=> e \in cut /\ ~Rests(e)
  <2>1. rp[u] = "publish" =>
          Head(todo[u]) \in Events /\ stage[Head(todo[u])] \in Stages \ {"new"}
    <3> SUFFICES ASSUME rp[u] = "publish"
                 PROVE  Head(todo[u]) \in Events /\ stage[Head(todo[u])] \in Stages \ {"new"}
      OBVIOUS
    <3>1. todo[u] # <<>> /\ stage[Head(todo[u])] # "new"
      BY DEF GateInv, TodoOK
    <3> QED
      BY <3>1, OfTask DEF GateInv, GateTypes
  <2> QED
    BY <2>1 DEF Rests, Stages
<1> HIDE DEF cut, gone
<1>3. failures' \in Nat \ {0} /\ gone \subseteq Events
  BY <1>1, <1>2 DEF GateInv, GateTypes, gone
<1>4. GateTypes'
  BY <1>1, <1>2, <1>3 DEF GateInv, GateTypes, Stages
<1>5. ParkedOK'
  BY <1>1 DEF GateInv, ParkedOK
<1>6. \A v \in Users : /\ rp'[v] = IF v = u THEN "off" ELSE rp[v]
                       /\ todo'[v] = IF v = u THEN <<>> ELSE todo[v]
  BY <1>1 DEF GateInv, GateTypes
<1>7. \A e \in Events : /\ Rests(e)' <=> Rests(e) \/ e \in cut
                        /\ stage'[e] = "new" => stage[e] = "new"
  BY <1>1, <1>2 DEF Rests
<1>8. TodoOK'
  <2> SUFFICES ASSUME NEW v \in Users, v # u
               PROVE  rp[v] = "publish" => stage'[Head(todo[v])] # "new"
    <3>1. Distinct(todo'[u]) /\ todo'[u] = <<>> /\ rp'[u] = "off"
      BY <1>6, EmptyIsDistinct
    <3>2. \A v \in Users \ {u} : todo'[v] = todo[v] /\ rp'[v] = rp[v]
      BY <1>6
    <3> QED
      BY <1>1, <3>1, <3>2 DEF GateInv, TodoOK
  <2>1. rp[v] = "publish" => todo[v] # <<>> /\ stage[Head(todo[v])] # "new"
    BY DEF GateInv, TodoOK
  <2> QED
    BY <1>7, <2>1, OfTask
<1>9. PlacesOK'
  <2> SUFFICES ASSUME NEW e \in Events
               PROVE  /\ Rests(e)' <=> e \in Accepted \/ e \in timers \/ IsParked(e) \/ e \in dropped'
                      /\ e \in Accepted => e \notin timers /\ ~IsParked(e) /\ e \notin dropped'
                      /\ e \in timers => ~IsParked(e) /\ e \notin dropped'
                      /\ IsParked(e) => e \notin dropped'
    BY <1>1 DEF GateInv, PlacesOK, IsParked
  <2>1. e \in dropped' <=> e \in dropped \/ (e \in cut /\ ~Rests(e))
    BY <1>1, <1>2
  <2> QED
    BY <1>7, <2>1 DEF GateInv, PlacesOK
<1>10. OwedOK'
  <2> SUFFICES ASSUME NEW v \in Users, v # u, rp[v] # "off", NEW e \in owed[v]
               PROVE  UserOf[e] = v /\ (Rests(e)' \/ (rp[v] = "publish" /\ e = Head(todo[v])))
    BY <1>1, <1>3, <1>6 DEF OwedOK
  <2>1. e \in Events
    BY DEF GateInv, GateTypes
  <2> QED
    BY <1>7, <2>1 DEF GateInv, OwedOK
<1> QED
  BY <1>4, <1>5, <1>8, <1>9, <1>10 DEF GateInv

LEMMA GateInvStep == TypeOK /\ GateInv /\ [GateNext]_<<vars, gateVars>> => GateInv'
<1> SUFFICES ASSUME TypeOK, GateInv, [GateNext]_<<vars, gateVars>> PROVE GateInv'
  OBVIOUS
<1>1. ASSUME NEW e \in Events, PublishCall(e) \/ SendFails(e) \/ FireTimer(e) \/ BecomeDue(e)
      PROVE  GateInv'
  <2>1. BecomeDue(e) => GateInv'
    BY QuietStep DEF BecomeDue, brokerVars
  <2> QED
    BY <1>1, <2>1, CheckGate, SendGate, ParkGate, SendFailsGate, FireTimerGate DEF PublishCall
<1>2. ASSUME NEW u \in Users,
             AccessChange(u) \/ RpStart(u) \/ RpStep(u) \/ RpSettleError(u) \/ RpDies(u)
      PROVE  GateInv'
  <2>1. AccessChange(u) => GateInv'
    BY QuietStep DEF AccessChange, brokerVars
  <2> QED
    BY <1>2, <2>1, RpStartGate, RpReceiveGate, RpCompleteGate, RpNextGate, RpSettleErrorGate,
       RpDiesGate DEF RpStep
<1>3. CASE ConsumerNext /\ UNCHANGED gateVars
  BY <1>3, ConsumerAcceptsNone, QuietStep DEF gateVars, taskVars
<1>4. CASE UNCHANGED <<vars, gateVars>>
  BY <1>4, QuietStep DEF vars, brokerVars, gateVars, taskVars
<1> QED
  BY <1>1, <1>2, <1>3, <1>4 DEF GateNext, GateStep

LEMMA GateInvHolds == GateSpec => []GateInv
<1>1. GateSpec => []TypeOK
  BY GateImplementsQueue, TypeCorrect, PTL
<1> QED
  BY <1>1, GateInvInit, GateInvStep, PTL DEF GateSpec

LEMMA OnePlace ==
    ASSUME GateInv, NEW e \in Events
    PROVE  /\ Cardinality(Places(e)) <= 1
           /\ Rests(e) => Cardinality(Places(e)) = 1
<1>1. /\ Rests(e) <=> e \in Accepted \/ e \in timers \/ IsParked(e) \/ e \in dropped
      /\ e \in Accepted => e \notin timers /\ ~IsParked(e) /\ e \notin dropped
      /\ e \in timers => ~IsParked(e) /\ e \notin dropped
      /\ IsParked(e) => e \notin dropped
  BY DEF GateInv, PlacesOK
<1>2. Places(e) = {} \/ \E p \in {"accepted", "timer", "parked", "dropped"} : Places(e) = {p}
  BY <1>1 DEF Places
<1>3. Rests(e) => Places(e) # {}
  BY <1>1 DEF Places
<1>4. Cardinality({}) = 0 /\ \A p : Cardinality({p}) = 1
  BY FS_EmptySet, FS_Singleton
<1>5. CASE Places(e) = {}
  BY <1>3, <1>4, <1>5
<1>6. ASSUME NEW p, Places(e) = {p} PROVE Cardinality(Places(e)) = 1
  BY <1>4, <1>6
<1> QED
  BY <1>2, <1>5, <1>6

\* However often an event is parked and taken out again, for any number of users
\* and wherever a send, a settlement or a process fails, the publish call that
\* returned has left it in one place of the two queues, or its send failed.
THEOREM PublishedRests == GateSpec => []PublishedIsInOnePlace
<1>1. GateInv => PublishedIsInOnePlace
  <2> SUFFICES ASSUME GateInv, NEW e \in Events
               PROVE  /\ Cardinality(Places(e)) <= 1
                      /\ stage[e] = "done" => Cardinality(Places(e)) = 1
                      /\ \A i, j \in DOMAIN parked[UserOf[e]] :
                          parked[UserOf[e]][i] = e /\ parked[UserOf[e]][j] = e => i = j
    BY DEF PublishedIsInOnePlace
  <2>1. UserOf[e] \in Users /\ Distinct(parked[UserOf[e]])
    BY UsersAssumption DEF GateInv, ParkedOK
  <2> QED
    BY <2>1, OnePlace DEF Rests, Distinct
<1> QED
  BY <1>1, GateInvHolds, PTL

\* A reprocess that ends normally has forwarded all it found available when it
\* started, for any batch size and however the tasks of other users interleave,
\* as long as no step failed and the user still has access.
THEOREM ReprocessForwards == GateSpec => ReprocessForwardsAvailable
<1>1. ASSUME GateInv, NEW u \in Users, RpFinish(u), failures = 0, NEW e \in owed[u] \ Timed
      PROVE  e \in Accepted
  <2>1. /\ rp[u] = "receive" /\ Visible(u) = {} /\ e \in Events
        /\ UserOf[e] = u /\ Rests(e) /\ e \notin dropped /\ e \notin timers
    BY <1>1 DEF RpFinish, GateInv, GateTypes, OwedOK
  <2>2. ~IsParked(e)
    BY <1>1, <2>1 DEF Visible, Range, IsParked
  <2>3. Rests(e) <=> e \in Accepted \/ e \in timers \/ IsParked(e) \/ e \in dropped
    BY <1>1, <2>1 DEF GateInv, PlacesOK
  <2> QED
    BY <2>1, <2>2, <2>3
<1>2. GateInv /\ [GateNext]_<<vars, gateVars>> =>
        [\A u \in Users : RpFinish(u) /\ failures = 0
           => \A e \in owed[u] \ Timed : e \in Accepted]_<<vars, gateVars>>
  BY <1>1
<1> QED
  BY <1>2, GateInvHolds, PTL DEF GateSpec, ReprocessForwardsAvailable
=============================================================================
