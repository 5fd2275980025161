------------------------ MODULE ConversationsProofs ------------------------
(***************************************************************************)
(* Proofs about Conversations, for every number of conversations and       *)
(* messages, every finite set of handlers and of consolidators and all     *)
(* limits: ConsolidationInv is inductive, so what is marked as             *)
(* consolidated was sent or refused, however the handlers and the          *)
(* consolidators interleave.  Two counting arguments follow: how often a   *)
(* message is sent, and how many conversations are active.                 *)
(***************************************************************************)
EXTENDS Conversations, FiniteSetTheorems, TLAPS

\* How many consolidators have a message is a number.
LEMMA HandlingIsCounted ==
    ASSUME NEW m PROVE Cardinality(Handling(m)) \in Nat
<1>1. Handling(m) \subseteq Consolidators
  BY DEF Handling
<1>2. IsFiniteSet(Handling(m))
  BY <1>1, ProcessAssumption, FS_Subset
<1> QED
  BY <1>2, FS_CardinalityType

\* A stamp of the clock is a value of an activity.
LEMMA ActivityGrows ==
    ASSUME NEW k \in Nat, NEW f \in [Convs -> 0..k], NEW c
    PROVE  [f EXCEPT ![c] = k + 1] \in [Convs -> 0..(k + 1)] /\ k + 1 \in Nat
<1>1. 0..k \subseteq 0..(k + 1) /\ k + 1 \in 0..(k + 1) /\ k + 1 \in Nat
  OBVIOUS
<1>2. f \in [Convs -> 0..(k + 1)]
  BY <1>1
<1>3. [f EXCEPT ![c] = k + 1] \in [Convs -> 0..(k + 1)]
  BY <1>1, <1>2
<1> QED
  BY <1>1, <1>3

\* Initially nothing was sent or marked.
LEMMA ConsolidationInit == Init => ConsolidationInv
BY DEF Init, ConsolidationInv, TypeOK, ConsolidatedWasSent, DocumentsAreUploaded, Convs, Msgs

\* The steps of the handlers change no part of the invariant but the types.
LEMMA HandlerKeeps ==
    ASSUME ConsolidationInv, NEW h \in Handlers,
           \/ \E p \in Platforms \cup {Web} : Arrive(h, p)
           \/ OpenWeb(h)
           \/ \E c \in Convs : Continue(h, c)
           \/ HandlerStep(h) \/ HandlerFails(h)
    PROVE  ConsolidationInv'
<1> USE DEF ConsolidationInv, ConsolidatedWasSent, DocumentsAreUploaded,
        convVars, msgVars, handlerVars, consolidatorVars, praxosVars
<1>0. TypeOK
  OBVIOUS
<1>1. UNCHANGED <<consolidated, sourced, consolidatorVars, praxosVars>>
  BY DEF HandlerStep, HandlerFails, Arrive, OpenWeb, Continue, Find, Check, Mark, Create, Insert, Bump
<1>2. TypeOK'
  <2>1. ASSUME NEW p \in Platforms \cup {Web}, Arrive(h, p) PROVE TypeOK'
    BY <2>1, <1>0 DEF TypeOK, Arrive
  <2>2. CASE OpenWeb(h)
    BY <2>2, <1>0 DEF TypeOK, OpenWeb
  <2>3. ASSUME NEW c \in Convs, Continue(h, c) PROVE TypeOK'
    BY <2>3, <1>0 DEF TypeOK, Continue
  <2>4. CASE Find(h)
    BY <2>4, <1>0 DEF TypeOK, Find, With
  <2>5. CASE Check(h)
    BY <2>5, <1>0 DEF TypeOK, Check
  <2>6. CASE Mark(h)
    BY <2>6, <1>0 DEF TypeOK, Mark
  <2>7. CASE Create(h)
    <3>1. clock' = clock + 1 /\ clock \in Nat /\ activity \in [Convs -> 0..clock]
      BY <2>7, <1>0 DEF TypeOK, Create
    <3>2. PICK c \in Convs :
            /\ status' = [status EXCEPT ![c] = "active"]
            /\ platform' = [platform EXCEPT ![c] = hplat[h]]
            /\ activity' = [activity EXCEPT ![c] = clock + 1]
            /\ hconv' = [hconv EXCEPT ![h] = c]
      BY <2>7 DEF Create
    <3>3. activity' \in [Convs -> 0..clock'] /\ clock' \in Nat
      BY <3>1, <3>2, ActivityGrows
    <3> QED
      BY <2>7, <3>2, <3>3, <1>0 DEF TypeOK, Create
  <2>8. CASE Insert(h)
    BY <2>8, <1>0 DEF TypeOK, Insert
  <2>9. CASE Bump(h)
    <3>1. clock' = clock + 1 /\ clock \in Nat /\ activity \in [Convs -> 0..clock]
      BY <2>9, <1>0 DEF TypeOK, Bump
    <3>2. activity' = [activity EXCEPT ![hconv[h]] = clock + 1]
      BY <2>9 DEF Bump
    <3>3. activity' \in [Convs -> 0..clock'] /\ clock' \in Nat
      BY <3>1, <3>2, ActivityGrows
    <3> QED
      BY <2>9, <3>3, <1>0 DEF TypeOK, Bump
  <2>10. CASE HandlerFails(h)
    BY <2>10, <1>0 DEF TypeOK, HandlerFails
  <2> QED
    BY <2>1, <2>2, <2>3, <2>4, <2>5, <2>6, <2>7, <2>8, <2>9, <2>10 DEF HandlerStep
<1> QED
  BY <1>1, <1>2

\* The steps of a consolidator: what it has read it sends, and what it has sent
\* it marks.
LEMMA ConsolidatorKeeps ==
    ASSUME ConsolidationInv, NEW w \in Consolidators,
           ConsolidatorStep(w) \/ ConsolidatorFails(w)
    PROVE  ConsolidationInv'
<1> USE DEF ConsolidationInv, ConsolidatedWasSent, DocumentsAreUploaded,
        convVars, msgVars, handlerVars, consolidatorVars, praxosVars
<1>0. TypeOK
  OBVIOUS
<1>1. CASE Poll(w)
  <2>1. TypeOK'
    BY <1>1, <1>0 DEF TypeOK, Poll, Least, With
  <2> QED
    BY <1>1, <1>0, <2>1 DEF TypeOK, Poll
<1>2. ASSUME NEW c \in Convs, Read(w, c) PROVE ConsolidationInv'
  <2> DEFINE oldest == Least(Unconsolidated(c), MsgLimit, [m \in Msgs |-> m])
  <2>1. oldest \subseteq Msgs
    BY DEF Least, Unconsolidated
  <2>2. CASE oldest = {}
    <3>1. UNCHANGED <<cpc, conv, batch, marks, docs, unsourced, again>>
          /\ todo' = [todo EXCEPT ![w] = @ \ {c}]
      BY <1>2, <2>2 DEF Read
    <3>2. TypeOK'
      BY <1>2, <1>0, <3>1 DEF TypeOK, Read
    <3> QED
      BY <1>2, <1>0, <3>1, <3>2 DEF TypeOK, Read
  <2>3. CASE oldest # {}
    <3>1. /\ cpc[w] = "next"
          /\ cpc' = [cpc EXCEPT ![w] = IF docs'[w] = {} THEN "docs" ELSE "user"]
          /\ conv' = [conv EXCEPT ![w] = c]
          /\ batch' = [batch EXCEPT ![w] = oldest]
          /\ todo' = [todo EXCEPT ![w] = @ \ {c}]
          /\ UNCHANGED <<convVars, inConv, consolidated, sourced, handlerVars, sends,
                         uploads, refused>>
      BY <1>2, <2>3 DEF Read
    <3>2. PICK S \in SUBSET oldest, T \in SUBSET (Msgs \cap WithDoc) :
            /\ marks' = [marks EXCEPT ![w] = S]
            /\ docs' = [docs EXCEPT ![w] = T]
            /\ unsourced \subseteq unsourced' /\ unsourced' \subseteq Msgs
            /\ (S \cap WithDoc) \ T \subseteq sourced \cup unsourced'
      <4>1. CASE /\ marks' = [marks EXCEPT ![w] = oldest]
                 /\ docs' = [docs EXCEPT ![w] = Waiting(oldest)]
                 /\ UNCHANGED unsourced
        <5> HIDE DEF oldest
        <5>1. oldest \in SUBSET oldest /\ Waiting(oldest) \in SUBSET (Msgs \cap WithDoc)
          BY <2>1 DEF Waiting
        <5>2. (oldest \cap WithDoc) \ Waiting(oldest) \subseteq sourced \cup unsourced'
          BY DEF Waiting
        <5>3. unsourced \subseteq unsourced' /\ unsourced' \subseteq Msgs
          BY <4>1, <1>0 DEF TypeOK
        <5> QED
          BY <4>1, <5>1, <5>2, <5>3
      <4>2. ASSUME NEW k \in oldest,
                   marks' = [marks EXCEPT ![w] = {m \in oldest : m <= k}],
                   docs' = [docs EXCEPT ![w] = Waiting({m \in oldest : m < k})],
                   unsourced' = unsourced \cup Waiting({k})
            PROVE  \E S \in SUBSET oldest, T \in SUBSET (Msgs \cap WithDoc) :
                    /\ marks' = [marks EXCEPT ![w] = S]
                    /\ docs' = [docs EXCEPT ![w] = T]
                    /\ unsourced \subseteq unsourced' /\ unsourced' \subseteq Msgs
                    /\ (S \cap WithDoc) \ T \subseteq sourced \cup unsourced'
        <5> DEFINE S == {m \in oldest : m <= k}
                   T == Waiting({m \in oldest : m < k})
        <5> HIDE DEF oldest
        <5>1. S \in SUBSET oldest /\ T \in SUBSET (Msgs \cap WithDoc)
          BY <2>1 DEF Waiting
        <5>2. unsourced \subseteq unsourced' /\ unsourced' \subseteq Msgs
          BY <4>2, <2>1, <1>0 DEF Waiting, TypeOK
        <5>3. \A m \in S : m = k \/ m < k
          BY <2>1 DEF Msgs
        <5>4. (S \cap WithDoc) \ T \subseteq sourced \cup unsourced'
          BY <4>2, <5>3 DEF Waiting
        <5> QED
          BY <4>2, <5>1, <5>2, <5>4
      <4> QED
        BY <1>2, <2>3, <4>1, <4>2 DEF Read
    <3>3. again' \in [Msgs -> Nat]
      <4>1. CASE again' = [m \in Msgs |-> again[m]
                            + IF m \in oldest THEN Cardinality(Handling(m)) ELSE 0]
        BY <4>1, <1>0, HandlingIsCounted DEF TypeOK
      <4>2. ASSUME NEW k \in oldest,
                   again' = [m \in Msgs |-> again[m]
                            + (IF m \in oldest THEN Cardinality(Handling(m)) ELSE 0)
                            + IF m \in oldest /\ k < m THEN 1 ELSE 0]
            PROVE  again' \in [Msgs -> Nat]
        <5> HIDE DEF oldest
        <5> QED
          BY <4>2, <1>0, HandlingIsCounted DEF TypeOK
      <4> QED
        BY <1>2, <2>3, <4>1, <4>2 DEF Read
    <3> HIDE DEF oldest
    <3>4. TypeOK'
      BY <1>0, <2>1, <3>1, <3>2, <3>3 DEF TypeOK
    <3>5. ConsolidatedWasSent' /\ DocumentsAreUploaded'
      BY <3>1, <3>2
    <3>6. ASSUME NEW v \in Consolidators, cpc'[v] \in {"user", "docs", "mark"}
          PROVE  /\ marks'[v] \subseteq batch'[v]
                 /\ (marks'[v] \cap WithDoc) \ docs'[v] \subseteq sourced' \cup unsourced'
      <4>1. CASE v = w
        BY <1>0, <3>1, <3>2, <4>1 DEF TypeOK
      <4>2. CASE v # w
        BY <1>0, <3>1, <3>2, <3>6, <4>2 DEF TypeOK
      <4> QED
        BY <4>1, <4>2
    <3>7. ASSUME NEW v \in Consolidators, cpc'[v] = "mark"
          PROVE  docs'[v] = {} /\ \A m \in batch'[v] : sends'[m] > 0 \/ m \in refused'
      BY <1>0, <3>1, <3>2, <3>7 DEF TypeOK
    <3> QED
      BY <3>4, <3>5, <3>6, <3>7
  <2> QED
    BY <2>2, <2>3
<1>8. CASE FindUser(w)
  <2>1. TypeOK'
    BY <1>8, <1>0 DEF TypeOK, FindUser
  <2>2. /\ cpc[w] = "user" /\ cpc' = [cpc EXCEPT ![w] = "docs"]
        /\ UNCHANGED <<batch, marks, consolidated, sourced, sends, refused>>
        /\ unsourced \subseteq unsourced'
        /\ \A v \in Consolidators \ {w} : docs'[v] = docs[v]
        /\ docs[w] \subseteq docs'[w] \cup unsourced'
    BY <1>8, <1>0 DEF FindUser, TypeOK
  <2>3. ASSUME NEW v \in Consolidators, cpc'[v] \in {"user", "docs", "mark"}
        PROVE  /\ marks'[v] \subseteq batch'[v]
               /\ (marks'[v] \cap WithDoc) \ docs'[v] \subseteq sourced' \cup unsourced'
    BY <1>0, <2>2, <2>3 DEF TypeOK
  <2>4. ASSUME NEW v \in Consolidators, cpc'[v] = "mark"
        PROVE  docs'[v] = {} /\ \A m \in batch'[v] : sends'[m] > 0 \/ m \in refused'
    BY <1>0, <2>2, <2>4 DEF TypeOK
  <2> QED
    BY <2>1, <2>2, <2>3, <2>4
<1>3. ASSUME NEW d \in Msgs, Upload(w, d) PROVE ConsolidationInv'
  <2>1. /\ cpc[w] = "docs" /\ d \in docs[w]
        /\ docs' = [docs EXCEPT ![w] = @ \ {d}]
        /\ UNCHANGED <<cpc, batch, marks, consolidated, sends, refused>>
        /\ sourced \subseteq sourced' /\ unsourced \subseteq unsourced'
        /\ d \in sourced' \cup unsourced'
    BY <1>3 DEF Upload
  <2>2. TypeOK'
    BY <1>3, <1>0 DEF TypeOK, Upload
  <2> QED
    BY <1>0, <2>1, <2>2 DEF TypeOK
<1>4. CASE Send(w)
  <2>1. /\ cpc[w] = "docs" /\ docs[w] = {}
        /\ cpc' = [cpc EXCEPT ![w] = "mark"]
        /\ UNCHANGED <<batch, marks, docs, consolidated, sourced, unsourced>>
    BY <1>4 DEF Send
  <2>2. /\ sends' \in [Msgs -> Nat]
        /\ refused \subseteq refused' /\ refused' \subseteq Msgs
        /\ \A m \in Msgs : sends'[m] >= sends[m]
        /\ \A m \in batch[w] : sends'[m] > 0 \/ m \in refused'
    BY <1>4, <1>0 DEF TypeOK, Send
  <2>3. TypeOK'
    BY <1>4, <1>0, <2>1, <2>2 DEF TypeOK, Send
  <2>4. ConsolidatedWasSent'
    BY <1>0, <2>1, <2>2 DEF TypeOK
  <2>5. ASSUME NEW v \in Consolidators, cpc'[v] = "mark"
        PROVE  docs'[v] = {} /\ \A m \in batch'[v] : sends'[m] > 0 \/ m \in refused'
    BY <1>0, <2>1, <2>2, <2>5 DEF TypeOK
  <2>6. ASSUME NEW v \in Consolidators, cpc'[v] \in {"user", "docs", "mark"}
        PROVE  /\ marks'[v] \subseteq batch'[v]
               /\ (marks'[v] \cap WithDoc) \ docs'[v] \subseteq sourced' \cup unsourced'
    BY <1>0, <2>1, <2>6 DEF TypeOK
  <2> QED
    BY <2>1, <2>3, <2>4, <2>5, <2>6
<1>5. CASE MarkConsolidated(w)
  <2>1. TypeOK'
    BY <1>5, <1>0 DEF TypeOK, MarkConsolidated
  <2>2. /\ cpc[w] = "mark" /\ cpc' = [cpc EXCEPT ![w] = "next"]
        /\ consolidated' = consolidated \cup marks[w]
        /\ UNCHANGED <<batch, marks, docs, sends, refused, sourced, unsourced>>
    BY <1>5 DEF MarkConsolidated
  <2> QED
    BY <1>0, <2>1, <2>2 DEF TypeOK
<1>6. CASE PassEnds(w)
  <2>1. TypeOK'
    BY <1>6, <1>0 DEF TypeOK, PassEnds
  <2> QED
    BY <1>6, <1>0, <2>1 DEF TypeOK, PassEnds
<1>7. CASE ConsolidatorFails(w)
  <2>1. TypeOK'
    BY <1>7, <1>0 DEF TypeOK, ConsolidatorFails
  <2>2. \A v \in Consolidators : cpc'[v] \in {"user", "docs", "mark"} => cpc'[v] = cpc[v]
    BY <1>7, <1>0 DEF TypeOK, ConsolidatorFails
  <2> QED
    BY <1>7, <2>1, <2>2 DEF ConsolidatorFails
<1> QED
  BY <1>1, <1>2, <1>3, <1>4, <1>5, <1>6, <1>7, <1>8 DEF ConsolidatorStep

-----------------------------------------------------------------------------

\* The invariant of consolidation holds in every reachable state.
THEOREM ConsolidationInvHolds == Spec => []ConsolidationInv
<1>1. Init => ConsolidationInv
  BY ConsolidationInit
<1>2. ConsolidationInv /\ [Next]_vars => ConsolidationInv'
  <2> SUFFICES ASSUME ConsolidationInv, [Next]_vars PROVE ConsolidationInv'
    OBVIOUS
  <2>1. CASE Next
    BY <2>1, HandlerKeeps, ConsolidatorKeeps DEF Next
  <2>2. CASE UNCHANGED vars
    BY <2>2 DEF vars, ConsolidationInv, TypeOK, ConsolidatedWasSent, DocumentsAreUploaded,
        convVars, msgVars, handlerVars, consolidatorVars, praxosVars
  <2> QED
    BY <2>1, <2>2
<1> QED
  BY <1>1, <1>2, PTL DEF Spec

\* The variables have their types.
THEOREM ConversationTypes == Spec => []TypeOK
<1>1. ConsolidationInv => TypeOK
  BY DEF ConsolidationInv
<1> QED
  BY <1>1, ConsolidationInvHolds, PTL

\* Marking as consolidated never runs ahead of sending: no message added during
\* a consolidation is marked with the others.
THEOREM MarkedWasSent == Spec => []ConsolidatedWasSent
<1>1. ConsolidationInv => ConsolidatedWasSent
  BY DEF ConsolidationInv
<1> QED
  BY <1>1, ConsolidationInvHolds, PTL

\* A message is not consolidated while its document waits to be uploaded.
THEOREM MarkedHasDocuments == Spec => []DocumentsAreUploaded
<1>1. ConsolidationInv => DocumentsAreUploaded
  BY DEF ConsolidationInv
<1> QED
  BY <1>1, ConsolidationInvHolds, PTL
-----------------------------------------------------------------------------
(* How often a message is sent: what was sent, what is about to be, and    *)
(* what is sent without being marked is counted in again, but for the one  *)
(* time that is due.                                                       *)

Sending(m) == {w \in Consolidators : cpc[w] \in {"user", "docs"} /\ m \in batch[w]}
Unmarked(m) == {w \in Handling(m) : m \notin marks[w]}
Due(m) == IF Handling(m) # {} \/ m \in consolidated THEN 1 ELSE 0
SentInv ==
    /\ TypeOK
    /\ \A m \in Msgs :
        sends[m] + Cardinality(Sending(m)) + Cardinality(Unmarked(m)) <= again[m] + Due(m)

\* One more element in a finite set.
LEMMA OneMore ==
    ASSUME NEW S, NEW T, NEW x, IsFiniteSet(S), x \notin S, T = S \cup {x}
    PROVE  IsFiniteSet(T) /\ Cardinality(T) = Cardinality(S) + 1 /\ Cardinality(S) \in Nat
BY FS_AddElement, FS_CardinalityType

\* Two sets that differ in one element at most.
LEMMA OneDiffers ==
    ASSUME NEW S, NEW T, NEW x, IsFiniteSet(S), IsFiniteSet(T), S \ {x} = T \ {x}
    PROVE  /\ Cardinality(S) \in Nat /\ Cardinality(T) \in Nat
           /\ Cardinality(T) + (IF x \in S THEN 1 ELSE 0)
                = Cardinality(S) + (IF x \in T THEN 1 ELSE 0)
<1>0. Cardinality(S) \in Nat /\ Cardinality(T) \in Nat
  BY FS_CardinalityType
<1>1. CASE x \in S /\ x \notin T
  <2>1. S = T \cup {x}
    BY <1>1
  <2> QED
    BY <1>0, <1>1, <2>1, OneMore
<1>2. CASE x \notin S /\ x \in T
  <2>1. T = S \cup {x}
    BY <1>2
  <2> QED
    BY <1>0, <1>2, <2>1, OneMore
<1>3. CASE (x \in S) = (x \in T)
  <2>1. S = T
    BY <1>3
  <2> QED
    BY <1>0, <2>1
<1> QED
  BY <1>1, <1>2, <1>3

\* The consolidators that have a message are finitely many.
LEMMA SendingIsFinite ==
    ASSUME NEW m
    PROVE  /\ IsFiniteSet(Sending(m)) /\ Cardinality(Sending(m)) \in Nat
           /\ IsFiniteSet(Unmarked(m)) /\ Cardinality(Unmarked(m)) \in Nat
           /\ IsFiniteSet(Handling(m)) /\ Cardinality(Handling(m)) \in Nat
           /\ Handling(m) # {} => Cardinality(Handling(m)) >= 1
<1>1. /\ Sending(m) \subseteq Consolidators /\ Handling(m) \subseteq Consolidators
      /\ Unmarked(m) \subseteq Consolidators
  BY DEF Sending, Handling, Unmarked
<1>2. IsFiniteSet(Sending(m)) /\ IsFiniteSet(Handling(m)) /\ IsFiniteSet(Unmarked(m))
  BY <1>1, ProcessAssumption, FS_Subset
<1>3. Cardinality(Handling(m)) \in Nat /\ (Cardinality(Handling(m)) = 0 <=> Handling(m) = {})
  BY <1>2, FS_CardinalityType, FS_EmptySet
<1> QED
  BY <1>2, <1>3, FS_CardinalityType

\* The same after a step.
LEMMA SendingStaysFinite ==
    ASSUME NEW m PROVE IsFiniteSet(Sending(m)') /\ IsFiniteSet(Unmarked(m)')
<1>1. Sending(m)' \subseteq Consolidators /\ Unmarked(m)' \subseteq Consolidators
  BY DEF Sending, Handling, Unmarked
<1> QED
  BY <1>1, ProcessAssumption, FS_Subset

\* A step of a consolidator keeps the count.
LEMMA ConsolidatorCounts ==
    ASSUME SentInv, TypeOK', NEW w \in Consolidators, NEW m \in Msgs,
           ConsolidatorStep(w) \/ ConsolidatorFails(w)
    PROVE  sends'[m] + Cardinality(Sending(m)') + Cardinality(Unmarked(m)')
                <= again'[m] + Due(m)'
<1> DEFINE In(v, S) == IF v \in S THEN 1 ELSE 0
<1>0. /\ TypeOK /\ sends[m] \in Nat /\ again[m] \in Nat
      /\ sends'[m] \in Nat /\ again'[m] \in Nat
      /\ sends[m] + Cardinality(Sending(m)) + Cardinality(Unmarked(m)) <= again[m] + Due(m)
      /\ Due(m) \in {0, 1} /\ Due(m)' \in {0, 1}
  BY DEF SentInv, TypeOK, Due
<1>1. \A v \in Consolidators \ {w} :
        cpc'[v] = cpc[v] /\ batch'[v] = batch[v] /\ marks'[v] = marks[v]
  <2>0. /\ cpc \in [Consolidators -> {"idle", "next", "user", "docs", "mark"}]
        /\ batch \in [Consolidators -> SUBSET Msgs] /\ marks \in [Consolidators -> SUBSET Msgs]
    BY <1>0 DEF TypeOK
  <2>1. ASSUME NEW c \in Convs, Read(w, c), NEW v \in Consolidators \ {w}
        PROVE  cpc'[v] = cpc[v] /\ batch'[v] = batch[v] /\ marks'[v] = marks[v]
    <3> DEFINE oldest == Least(Unconsolidated(c), MsgLimit, [n \in Msgs |-> n])
    <3>1. CASE oldest = {}
      BY <2>1, <3>1 DEF Read
    <3>2. CASE oldest # {}
      <4>1. /\ cpc' = [cpc EXCEPT ![w] = IF docs'[w] = {} THEN "docs" ELSE "user"]
            /\ batch' = [batch EXCEPT ![w] = oldest]
        BY <2>1, <3>2 DEF Read
      <4>2. \/ marks' = [marks EXCEPT ![w] = oldest]
            \/ \E k \in oldest : marks' = [marks EXCEPT ![w] = {n \in oldest : n <= k}]
        BY <2>1, <3>2 DEF Read
      <4> HIDE DEF oldest
      <4>3. marks'[v] = marks[v]
        BY <2>0, <4>2
      <4> QED
        BY <2>0, <4>1, <4>3
    <3> QED
      BY <3>1, <3>2
  <2>2. ASSUME \/ Poll(w) \/ FindUser(w) \/ Send(w) \/ MarkConsolidated(w) \/ PassEnds(w)
               \/ ConsolidatorFails(w) \/ \E d \in Msgs : Upload(w, d)
        PROVE  UNCHANGED <<batch, marks>> /\ \A v \in Consolidators \ {w} : cpc'[v] = cpc[v]
    BY <2>0, <2>2 DEF Poll, FindUser, Upload, Send, MarkConsolidated, PassEnds, ConsolidatorFails
  <2> QED
    BY <2>1, <2>2 DEF ConsolidatorStep
<1>2. /\ Sending(m) \ {w} = Sending(m)' \ {w}
      /\ Unmarked(m) \ {w} = Unmarked(m)' \ {w}
      /\ Handling(m) \ {w} = Handling(m)' \ {w}
  BY <1>1 DEF Sending, Unmarked, Handling
<1>3. /\ Cardinality(Sending(m)) \in Nat /\ Cardinality(Sending(m)') \in Nat
      /\ Cardinality(Sending(m)') + In(w, Sending(m))
            = Cardinality(Sending(m)) + In(w, Sending(m)')
  BY <1>2, SendingIsFinite, SendingStaysFinite, OneDiffers
<1>4. /\ Cardinality(Unmarked(m)) \in Nat /\ Cardinality(Unmarked(m)') \in Nat
      /\ Cardinality(Unmarked(m)') + In(w, Unmarked(m))
            = Cardinality(Unmarked(m)) + In(w, Unmarked(m)')
  BY <1>2, SendingIsFinite, SendingStaysFinite, OneDiffers
\* It is enough to look at this consolidator.
<1>5. ASSUME sends'[m] + In(w, Sending(m)') + In(w, Unmarked(m)') + again[m] + Due(m)
                <= sends[m] + In(w, Sending(m)) + In(w, Unmarked(m)) + again'[m] + Due(m)'
      PROVE  sends'[m] + Cardinality(Sending(m)') + Cardinality(Unmarked(m)')
                <= again'[m] + Due(m)'
  <2>1. In(w, Sending(m)) \in {0, 1} /\ In(w, Sending(m)') \in {0, 1}
    OBVIOUS
  <2>2. In(w, Unmarked(m)) \in {0, 1} /\ In(w, Unmarked(m)') \in {0, 1}
    OBVIOUS
  <2> HIDE DEF In
  <2> QED
    BY <1>0, <1>3, <1>4, <1>5, <2>1, <2>2
<1>6. \/ w \in Handling(m) /\ w \notin Handling(m)' /\ m \notin consolidated'
      \/ Due(m) <= Due(m)'
      \/ m \in consolidated /\ m \notin consolidated'
  BY <1>0, <1>2 DEF Due
<1>7. CASE Poll(w) \/ PassEnds(w) \/ FindUser(w) \/ \E d \in Msgs : Upload(w, d)
  <2>1. /\ (cpc'[w] \in {"user", "docs"}) = (cpc[w] \in {"user", "docs"})
        /\ (cpc'[w] \in {"idle", "next"}) = (cpc[w] \in {"idle", "next"})
        /\ UNCHANGED <<batch, marks, consolidated, sends, again>>
    BY <1>7, <1>0 DEF TypeOK, Poll, PassEnds, FindUser, Upload, msgVars, praxosVars
  <2>2. /\ (w \in Sending(m)') = (w \in Sending(m))
        /\ (w \in Handling(m)') = (w \in Handling(m))
        /\ (w \in Unmarked(m)') = (w \in Unmarked(m))
    BY <2>1 DEF Sending, Handling, Unmarked
  <2> QED
    BY <2>1, <2>2, <1>0, <1>5, <1>6
<1>8. ASSUME NEW c \in Convs, Read(w, c)
      PROVE  sends'[m] + Cardinality(Sending(m)') + Cardinality(Unmarked(m)')
                <= again'[m] + Due(m)'
  <2> DEFINE oldest == Least(Unconsolidated(c), MsgLimit, [n \in Msgs |-> n])
  <2>1. cpc[w] = "next" /\ UNCHANGED <<sends, consolidated>>
    BY <1>8 DEF Read, msgVars
  <2>2. w \notin Sending(m) /\ w \notin Handling(m) /\ w \notin Unmarked(m)
    BY <2>1 DEF Sending, Handling, Unmarked
  <2>3. CASE oldest = {}
    <3>1. UNCHANGED <<cpc, batch, marks, again>>
      BY <1>8, <2>3 DEF Read
    <3>2. w \notin Sending(m)' /\ w \notin Unmarked(m)'
      BY <2>1, <3>1 DEF Sending, Handling, Unmarked
    <3> QED
      BY <2>1, <2>2, <3>1, <3>2, <1>0, <1>5, <1>6
  <2>4. CASE oldest # {}
    <3>1. /\ cpc' = [cpc EXCEPT ![w] = IF docs'[w] = {} THEN "docs" ELSE "user"]
          /\ batch' = [batch EXCEPT ![w] = oldest]
      BY <1>8, <2>4 DEF Read
    <3>2. /\ cpc'[w] \in {"user", "docs"} /\ batch'[w] = oldest
      BY <3>1, <1>0 DEF TypeOK
    <3>3. again'[m] = again[m] + (IF m \in oldest THEN Cardinality(Handling(m)) ELSE 0)
                        + (IF m \in oldest /\ m \notin marks'[w] THEN 1 ELSE 0)
      <4>1. CASE /\ marks' = [marks EXCEPT ![w] = oldest]
                 /\ again' = [n \in Msgs |->
                        again[n] + IF n \in oldest THEN Cardinality(Handling(n)) ELSE 0]
        BY <4>1, <1>0, SendingIsFinite DEF TypeOK
      <4>2. ASSUME NEW k \in oldest,
                   marks' = [marks EXCEPT ![w] = {n \in oldest : n <= k}],
                   again' = [n \in Msgs |->
                        again[n] + (IF n \in oldest THEN Cardinality(Handling(n)) ELSE 0)
                            + IF n \in oldest /\ k < n THEN 1 ELSE 0]
            PROVE  again'[m] = again[m] + (IF m \in oldest THEN Cardinality(Handling(m)) ELSE 0)
                        + (IF m \in oldest /\ m \notin marks'[w] THEN 1 ELSE 0)
        <5>1. k \in Nat /\ m \in Nat
          BY DEF Least, Unconsolidated, Msgs
        <5>2. marks'[w] = {n \in oldest : n <= k}
          BY <4>2, <1>0 DEF TypeOK
        <5> HIDE DEF oldest
        <5>3. (m \in oldest /\ m \notin marks'[w]) <=> (m \in oldest /\ k < m)
          BY <5>1, <5>2
        <5> QED
          BY <4>2, <5>3
      <4> QED
        BY <1>8, <2>4, <4>1, <4>2 DEF Read
    <3>4. Cardinality(Handling(m)) \in Nat /\ (Handling(m) # {} => Cardinality(Handling(m)) >= 1)
      BY SendingIsFinite
    <3>5. CASE m \notin oldest
      <4> HIDE DEF oldest
      <4>1. w \notin Sending(m)' /\ w \notin Handling(m)' /\ w \notin Unmarked(m)'
        BY <3>2, <3>5 DEF Sending, Handling, Unmarked
      <4>2. again'[m] = again[m]
        BY <3>3, <3>5, <1>0
      <4> QED
        BY <2>1, <2>2, <4>1, <4>2, <1>0, <1>5, <1>6
    <3>6. CASE m \in oldest
      <4>1. m \notin consolidated
        BY <3>6 DEF Least, Unconsolidated
      <4> HIDE DEF oldest
      <4>2. w \in Sending(m)' /\ w \in Handling(m)' /\ (w \in Unmarked(m)' <=> m \notin marks'[w])
        BY <3>2, <3>6 DEF Sending, Handling, Unmarked
      <4>3. Due(m)' = 1 /\ Due(m) <= Cardinality(Handling(m))
        BY <3>4, <4>1, <4>2 DEF Due
      <4> QED
        BY <2>1, <2>2, <3>3, <3>4, <3>6, <4>2, <4>3, <1>0, <1>5
    <3> QED
      BY <3>5, <3>6
  <2> QED
    BY <2>3, <2>4
<1>9. CASE Send(w)
  <2>1. /\ cpc[w] = "docs" /\ cpc'[w] = "mark"
        /\ UNCHANGED <<batch, marks, consolidated, again>>
        /\ sends'[m] \in {sends[m], sends[m] + IF m \in batch[w] THEN 1 ELSE 0}
    BY <1>9, <1>0 DEF Send, msgVars, TypeOK
  <2>2. /\ (w \in Handling(m)') = (w \in Handling(m))
        /\ (w \in Unmarked(m)') = (w \in Unmarked(m))
        /\ (w \in Sending(m)) = (m \in batch[w]) /\ w \notin Sending(m)'
    BY <2>1 DEF Handling, Unmarked, Sending
  <2> QED
    BY <2>1, <2>2, <1>0, <1>5, <1>6
<1>10. CASE MarkConsolidated(w)
  <2>1. /\ cpc[w] = "mark" /\ cpc'[w] = "next"
        /\ consolidated' = consolidated \cup marks[w]
        /\ UNCHANGED <<batch, marks, sends, again>>
    BY <1>10, <1>0 DEF MarkConsolidated, praxosVars, TypeOK
  <2>2. /\ w \notin Sending(m) /\ w \notin Sending(m)' /\ w \notin Unmarked(m)'
        /\ w \in Handling(m) => m \in consolidated' \/ w \in Unmarked(m)
    BY <2>1 DEF Sending, Handling, Unmarked
  <2>3. Due(m) <= Due(m)' \/ w \in Unmarked(m)
    BY <2>1, <2>2, <1>6
  <2> QED
    BY <2>1, <2>2, <2>3, <1>0, <1>5
<1>11. CASE ConsolidatorFails(w)
  <2>1. /\ UNCHANGED <<batch, marks, sends, consolidated>>
        /\ again'[m] = again[m] + IF cpc[w] = "mark" /\ m \in batch[w] THEN 1 ELSE 0
        /\ cpc'[w] \in {"idle", "next"}
        /\ cpc[w] \in {"next", "user", "docs", "mark"}
    BY <1>11, <1>0 DEF ConsolidatorFails, msgVars, TypeOK
  <2>2. w \notin Sending(m)' /\ w \notin Unmarked(m)'
    BY <2>1 DEF Sending, Handling, Unmarked
  <2>3. \/ w \notin Handling(m)
        \/ w \in Sending(m)
        \/ cpc[w] = "mark" /\ m \in batch[w]
    BY <2>1 DEF Sending, Handling
  <2> QED
    BY <2>1, <2>2, <2>3, <1>0, <1>5, <1>6
<1> QED
  BY <1>7, <1>8, <1>9, <1>10, <1>11 DEF ConsolidatorStep

\* Handlers send nothing.
LEMMA HandlersSendNothing ==
    ASSUME NEW h \in Handlers,
           \/ \E p \in Platforms \cup {Web} : Arrive(h, p)
           \/ OpenWeb(h)
           \/ \E c \in Convs : Continue(h, c)
           \/ HandlerStep(h) \/ HandlerFails(h)
    PROVE  UNCHANGED <<consolidated, consolidatorVars, praxosVars>>
BY DEF HandlerStep, HandlerFails, Arrive, OpenWeb, Continue, Find, Check, Mark, Create, Insert,
       Bump, convVars, msgVars

\* Praxos gets a message again only from a consolidator that read it while another
\* had it, after a failure between sending and marking, or because a file's row
\* before it could not be read.
THEOREM MessagesAreSentOnce == Spec => []SentOnceUnlessOverlapped
<1>1. Init => SentInv
  <2> SUFFICES ASSUME Init, NEW m \in Msgs
               PROVE  sends[m] + Cardinality(Sending(m)) + Cardinality(Unmarked(m))
                        <= again[m] + Due(m)
    BY ConsolidationInit DEF SentInv, ConsolidationInv
  <2>1. Sending(m) = {} /\ Handling(m) = {} /\ Unmarked(m) = {} /\ m \notin consolidated
    BY DEF Init, Sending, Handling, Unmarked
  <2>2. Cardinality(Sending(m)) = 0 /\ Cardinality(Unmarked(m)) = 0
    BY <2>1, FS_EmptySet
  <2> QED
    BY <2>1, <2>2 DEF Init, Due
<1>2. SentInv /\ TypeOK' /\ [Next]_vars => SentInv'
  <2> SUFFICES ASSUME SentInv, TypeOK', [Next]_vars, NEW m \in Msgs
               PROVE  sends'[m] + Cardinality(Sending(m)') + Cardinality(Unmarked(m)')
                        <= again'[m] + Due(m)'
    BY DEF SentInv, Msgs
  <2>1. ASSUME NEW w \in Consolidators, ConsolidatorStep(w) \/ ConsolidatorFails(w)
        PROVE  sends'[m] + Cardinality(Sending(m)') + Cardinality(Unmarked(m)')
                        <= again'[m] + Due(m)'
    BY <2>1, ConsolidatorCounts
  <2>2. CASE UNCHANGED <<consolidated, consolidatorVars, praxosVars>>
    <3>1. UNCHANGED <<consolidated, cpc, batch, marks, sends, again>>
      BY <2>2 DEF consolidatorVars, praxosVars
    <3>2. /\ Sending(m)' = Sending(m) /\ Handling(m)' = Handling(m)
          /\ Unmarked(m)' = Unmarked(m)
      BY <3>1 DEF Sending, Handling, Unmarked
    <3>3. Due(m)' = Due(m)
      BY <3>1, <3>2 DEF Due
    <3> QED
      BY <3>1, <3>2, <3>3 DEF SentInv
  <2>3. UNCHANGED vars => UNCHANGED <<consolidated, consolidatorVars, praxosVars>>
    BY DEF vars, msgVars
  <2> QED
    BY <2>1, <2>2, <2>3, HandlersSendNothing DEF Next
<1>3. SentInv => SentOnceUnlessOverlapped
  <2> SUFFICES ASSUME SentInv, NEW m \in Msgs PROVE sends[m] <= 1 + again[m]
    BY DEF SentOnceUnlessOverlapped
  <2> QED
    BY SendingIsFinite DEF SentInv, TypeOK, Due
<1> QED
  BY <1>1, <1>2, <1>3, ConversationTypes, PTL DEF Spec
-----------------------------------------------------------------------------
(* How many conversations are active: while handlers decide, each of them  *)
(* may add one, but for the one that is about to make the conversation it  *)
(* found ready.                                                            *)

\* A handler has an active conversation that it may make ready.
Replacing == \E h \in Handlers : hpc[h] \in {"check", "mark"} /\ hconv[h] \in With("active")

ActiveInv ==
    IF Deciding = {} THEN Cardinality(With("active")) <= 1 + interference
    ELSE Cardinality(With("active")) + Cardinality(Deciding)
            <= 1 + interference + (IF Replacing THEN 1 ELSE 0)

\* The sets that are counted are finite.
LEMMA CountedAreFinite ==
    /\ IsFiniteSet(With("active")) /\ Cardinality(With("active")) \in Nat
    /\ IsFiniteSet(Deciding) /\ Cardinality(Deciding) \in Nat
    /\ Cardinality(Deciding) = 0 <=> Deciding = {}
<1>1. IsFiniteSet(Convs) /\ With("active") \subseteq Convs /\ Deciding \subseteq Handlers
  BY BoundAssumption, FS_Interval DEF Convs, With, Deciding
<1>2. IsFiniteSet(With("active")) /\ IsFiniteSet(Deciding)
  BY <1>1, ProcessAssumption, FS_Subset
<1> QED
  BY <1>2, FS_CardinalityType, FS_EmptySet

\* A handler that stops deciding takes at most the conversation it had with it.
LEMMA DecidedCounts ==
    ASSUME TypeOK, ActiveInv, interference \in Nat, NEW h \in Deciding,
           UNCHANGED <<status, hconv, interference>>,
           NEW at \in {"idle", "insert"}, hpc' = [hpc EXCEPT ![h] = at]
    PROVE  ActiveInv'
<1>1. With("active")' = With("active")
  BY DEF With
<1>2. Deciding = Deciding' \cup {h} /\ h \notin Deciding'
  BY DEF Deciding, TypeOK
<1>3. IsFiniteSet(Deciding')
  BY <1>2, CountedAreFinite, FS_Subset
<1>4. Cardinality(Deciding) = Cardinality(Deciding') + 1 /\ Cardinality(Deciding') \in Nat
  BY <1>2, <1>3, OneMore
<1>5. Deciding' = {} => Cardinality(Deciding') = 0
  BY FS_EmptySet
<1>6. Deciding # {}
  OBVIOUS
<1> QED
  BY <1>1, <1>4, <1>5, <1>6, CountedAreFinite DEF ActiveInv

\* A step of a handler keeps the count.
LEMMA HandlerCounts ==
    ASSUME TypeOK, ActiveInv, interference \in Nat, NEW h \in Handlers,
           \/ \E p \in Platforms \cup {Web} : Arrive(h, p)
           \/ OpenWeb(h)
           \/ \E c \in Convs : Continue(h, c)
           \/ HandlerStep(h) \/ HandlerFails(h)
    PROVE  ActiveInv' /\ interference' \in Nat
<1> USE DEF convVars, handlerVars
<1>0. hpc \in [Handlers -> {"idle", "find", "check", "mark", "create", "insert", "bump"}]
  BY DEF TypeOK
<1>1. CASE UNCHANGED <<status, interference>> /\
           \E from, to \in {"idle", "find", "insert", "bump"} :
               hpc[h] = from /\ hpc' = [hpc EXCEPT ![h] = to]
               /\ \A g \in Handlers \ {h} : hconv'[g] = hconv[g]
  <2>1. With("active")' = With("active") /\ Deciding' = Deciding
    BY <1>1, <1>0 DEF With, Deciding
  <2>2. Replacing' = Replacing
    BY <1>1, <1>0, <2>1 DEF Replacing
  <2> QED
    BY <1>1, <2>1, <2>2 DEF ActiveInv
<1>2. CASE OpenWeb(h) \/ Find(h)
  <2>1. /\ UNCHANGED status /\ hpc[h] \in {"idle", "find"}
        /\ \A g \in Handlers \ {h} : hpc'[g] = hpc[g] /\ hconv'[g] = hconv[g]
        /\ interference' = interference + (IF OpenWeb(h) \/ Deciding # {} THEN 1 ELSE 0)
        /\ hpc'[h] \in {"check", "create"}
    <3>1. CASE OpenWeb(h)
      BY <3>1, <1>0 DEF OpenWeb
    <3>2. CASE Find(h)
      <4>1. ~OpenWeb(h)
        BY <3>2 DEF Find, OpenWeb
      <4>2. /\ hpc[h] = "find" /\ UNCHANGED status
            /\ interference' = interference + IF Deciding = {} THEN 0 ELSE 1
        BY <3>2 DEF Find
      <4>3. /\ \A g \in Handlers \ {h} : hpc'[g] = hpc[g] /\ hconv'[g] = hconv[g]
            /\ hpc'[h] \in {"check", "create"}
        <5>1. CASE With("active") = {}
          BY <3>2, <5>1, <1>0 DEF Find
        <5>2. CASE With("active") # {}
          BY <3>2, <5>2, <1>0 DEF Find, TypeOK
        <5> QED
          BY <5>1, <5>2
      <4> QED
        BY <4>1, <4>2, <4>3
    <3> QED
      BY <1>2, <3>1, <3>2
  <2>2. With("active")' = With("active")
    BY <2>1 DEF With
  <2>3. Deciding' = Deciding \cup {h} /\ h \notin Deciding
    BY <2>1 DEF Deciding
  <2>4. Cardinality(Deciding') = Cardinality(Deciding) + 1 /\ Deciding' # {}
    BY <2>3, CountedAreFinite, OneMore
  <2>5. Replacing => Replacing'
    BY <2>1, <2>2 DEF Replacing
  <2>6. Find(h) /\ With("active") # {} => Replacing'
    <3> SUFFICES ASSUME Find(h), With("active") # {} PROVE Replacing'
      OBVIOUS
    <3>1. PICK c \in With("active") :
            hconv' = [hconv EXCEPT ![h] = c] /\ hpc' = [hpc EXCEPT ![h] = "check"]
      BY DEF Find
    <3>2. hconv'[h] = c /\ hpc'[h] = "check"
      BY <3>1 DEF TypeOK
    <3> QED
      BY <2>2, <3>2 DEF Replacing
  <2>7. With("active") = {} => Cardinality(With("active")) = 0
    BY FS_EmptySet
  <2>8. CASE Deciding # {}
    BY <2>1, <2>2, <2>4, <2>5, <2>8, CountedAreFinite DEF ActiveInv
  <2>9. CASE Deciding = {}
    BY <1>2, <2>1, <2>2, <2>4, <2>6, <2>7, <2>9, CountedAreFinite DEF ActiveInv
  <2> QED
    BY <2>1, <2>8, <2>9
<1>3. CASE Check(h)
  <2>1. PICK expired \in BOOLEAN :
          hpc' = [hpc EXCEPT ![h] =
            IF ~expired /\ platform[hconv[h]] = hplat[h] THEN "insert" ELSE "mark"]
    BY <1>3 DEF Check
  <2>2. hpc[h] = "check" /\ UNCHANGED <<status, hconv, interference>>
    BY <1>3 DEF Check
  <2>3. CASE hpc' = [hpc EXCEPT ![h] = "insert"]
    BY <2>2, <2>3, DecidedCounts DEF Deciding
  <2>4. CASE hpc' = [hpc EXCEPT ![h] = "mark"]
    <3>1. With("active")' = With("active") /\ Deciding' = Deciding
      BY <2>2, <2>4, <1>0 DEF With, Deciding
    <3>2. Replacing' = Replacing
      BY <2>2, <2>4, <1>0, <3>1 DEF Replacing
    <3> QED
      BY <2>2, <3>1, <3>2 DEF ActiveInv
  <2> QED
    BY <2>1, <2>2, <2>3, <2>4
<1>4. CASE Mark(h)
  <2>1. /\ hpc[h] = "mark" /\ hpc' = [hpc EXCEPT ![h] = "create"]
        /\ status' = [status EXCEPT ![hconv[h]] = "ready"]
        /\ UNCHANGED <<hconv, interference>>
    BY <1>4 DEF Mark
  <2>2. Deciding' = Deciding /\ Deciding # {}
    BY <2>1, <1>0 DEF Deciding
  <2>3. CASE hconv[h] \in With("active")
    <3>1. With("active") = With("active")' \cup {hconv[h]} /\ hconv[h] \notin With("active")'
      BY <2>1, <2>3 DEF With, TypeOK
    <3>2. IsFiniteSet(With("active")')
      BY <3>1, CountedAreFinite, FS_Subset
    <3>3. /\ Cardinality(With("active")) = Cardinality(With("active")') + 1
          /\ Cardinality(With("active")') \in Nat
      BY <3>1, <3>2, OneMore
    <3> QED
      BY <2>1, <2>2, <3>3, CountedAreFinite DEF ActiveInv
  <2>4. CASE hconv[h] \notin With("active")
    <3>1. With("active")' = With("active")
      BY <2>1, <2>4 DEF With, TypeOK
    <3>2. Replacing => Replacing'
      BY <2>1, <2>4, <3>1, <1>0 DEF Replacing
    <3> QED
      BY <2>1, <2>2, <3>1, <3>2, CountedAreFinite DEF ActiveInv
  <2> QED
    BY <2>1, <2>3, <2>4
<1>5. CASE Create(h)
  <2>1. PICK c \in Convs : /\ status[c] = None
                           /\ status' = [status EXCEPT ![c] = "active"]
                           /\ hconv' = [hconv EXCEPT ![h] = c]
    BY <1>5 DEF Create
  <2>2. hpc[h] = "create" /\ hpc' = [hpc EXCEPT ![h] = "insert"] /\ UNCHANGED interference
    BY <1>5 DEF Create
  <2>3. With("active")' = With("active") \cup {c} /\ c \notin With("active")
    BY <2>1, NoneAssumption DEF With, TypeOK
  <2>4. Cardinality(With("active")') = Cardinality(With("active")) + 1
    BY <2>3, CountedAreFinite, OneMore
  <2>5. Deciding = Deciding' \cup {h} /\ h \notin Deciding'
    BY <2>2, <1>0 DEF Deciding
  <2>6. IsFiniteSet(Deciding')
    BY <2>5, CountedAreFinite, FS_Subset
  <2>7. Cardinality(Deciding) = Cardinality(Deciding') + 1 /\ Cardinality(Deciding') \in Nat
    BY <2>5, <2>6, OneMore
  <2>8. Replacing => Replacing' /\ Deciding' # {}
    <3> SUFFICES ASSUME NEW g \in Handlers, hpc[g] \in {"check", "mark"},
                        hconv[g] \in With("active")
                 PROVE  Replacing' /\ Deciding' # {}
      BY DEF Replacing
    <3>1. g # h /\ hpc'[g] = hpc[g] /\ hconv'[g] = hconv[g]
      BY <2>1, <2>2, <1>0 DEF TypeOK
    <3> QED
      BY <2>3, <3>1 DEF Replacing, Deciding
  <2>9. Deciding # {} /\ (Deciding' = {} => Cardinality(Deciding') = 0)
    BY <2>5, FS_EmptySet
  <2> QED
    BY <2>2, <2>4, <2>7, <2>8, <2>9, CountedAreFinite DEF ActiveInv
<1>6. CASE HandlerFails(h)
  <2>1. hpc[h] # "idle" /\ hpc' = [hpc EXCEPT ![h] = "idle"] /\ UNCHANGED <<status, hconv, interference>>
    BY <1>6 DEF HandlerFails
  <2>2. CASE h \in Deciding
    BY <2>1, <2>2, DecidedCounts
  <2>3. CASE h \notin Deciding
    BY <2>1, <2>3, <1>0, <1>1 DEF Deciding
  <2> QED
    BY <2>1, <2>2, <2>3
<1>7. ASSUME NEW p \in Platforms \cup {Web}, Arrive(h, p) PROVE ActiveInv' /\ interference' \in Nat
  BY <1>7, <1>1 DEF Arrive
<1>8. ASSUME NEW c \in Convs, Continue(h, c) PROVE ActiveInv' /\ interference' \in Nat
  <2>1. /\ hpc[h] = "idle" /\ hpc' = [hpc EXCEPT ![h] = "insert"]
        /\ hconv' = [hconv EXCEPT ![h] = c]
        /\ UNCHANGED <<status, interference>>
    BY <1>8 DEF Continue
  <2>2. \A g \in Handlers \ {h} : hconv'[g] = hconv[g]
    BY <2>1 DEF TypeOK
  <2> QED
    BY <2>1, <2>2, <1>1
<1>9. CASE Insert(h)
  BY <1>9, <1>1 DEF Insert
<1>10. CASE Bump(h)
  <2>1. /\ hpc[h] = "bump" /\ UNCHANGED <<status, hconv, interference>>
        /\ \E at \in {"idle", "insert"} : hpc' = [hpc EXCEPT ![h] = at]
    BY <1>10 DEF Bump
  <2> QED
    BY <2>1, <1>1
<1> QED
  BY <1>2, <1>3, <1>4, <1>5, <1>6, <1>7, <1>8, <1>9, <1>10 DEF HandlerStep

\* Consolidators change no conversation.
LEMMA ConsolidatorsChangeNoConversation ==
    ASSUME NEW w \in Consolidators, ConsolidatorStep(w) \/ ConsolidatorFails(w)
    PROVE  UNCHANGED <<status, hpc, hconv, interference>>
BY DEF ConsolidatorStep, ConsolidatorFails, Poll, Read, FindUser, Upload, Send, MarkConsolidated, PassEnds,
       FindUser, convVars, handlerVars

\* A conversation stays active beside another only because the web opened one or
\* two handlers decided at once.
THEOREM FewAreActive == Spec => []ActiveConversationsExplained
<1> DEFINE CountInv == ActiveInv /\ interference \in Nat
<1>1. Init => CountInv
  <2> SUFFICES ASSUME Init PROVE CountInv
    OBVIOUS
  <2>1. With("active") = {} /\ Deciding = {} /\ interference = 0
    BY NoneAssumption DEF Init, With, Deciding
  <2> QED
    BY <2>1, FS_EmptySet DEF ActiveInv
<1>2. TypeOK /\ CountInv /\ [Next]_vars => CountInv'
  <2> SUFFICES ASSUME TypeOK, CountInv, [Next]_vars PROVE CountInv'
    OBVIOUS
  <2>1. CASE UNCHANGED <<status, hpc, hconv, interference>>
    <3>1. With("active")' = With("active") /\ Deciding' = Deciding /\ Replacing' = Replacing
      BY <2>1 DEF With, Deciding, Replacing
    <3> QED
      BY <2>1, <3>1 DEF ActiveInv
  <2>2. UNCHANGED vars => UNCHANGED <<status, hpc, hconv, interference>>
    BY DEF vars, convVars, handlerVars
  <2> QED
    BY <2>1, <2>2, HandlerCounts, ConsolidatorsChangeNoConversation DEF Next
<1>3. CountInv => ActiveConversationsExplained
  <2> SUFFICES ASSUME CountInv PROVE Cardinality(With("active")) <= 1 + interference
    BY DEF ActiveConversationsExplained
  <2>1. Deciding # {} => Cardinality(Deciding) >= 1
    BY CountedAreFinite
  <2> QED
    BY <2>1, CountedAreFinite DEF ActiveInv
<1> HIDE DEF CountInv
<1> QED
  BY <1>1, <1>2, <1>3, ConversationTypes, PTL DEF Spec
=============================================================================
