-------------------------- MODULE AgentTurnProofs --------------------------
(***************************************************************************)
(* Proofs about AgentTurn, for whatever the model may answer and every     *)
(* bound: what get_conversation_history keeps of a log is paired, whatever *)
(* the log is; the retries of a run are bounded; the variables of a turn   *)
(* keep their types; silence is explained and an unbroken turn is answered *)
(* in one way, from the invariant TurnInv; the history is valid at any     *)
(* time, from HistoryInv; and a turn that browser results resume has those *)
(* of all tasks, from TaskInv.                                             *)
(***************************************************************************)
EXTENDS AgentTurn, SequenceTheorems, FiniteSetTheorems, TLAPS

\* A history has no result without its call and no call without its result:
\* what get_conversation_history keeps of any log, however a turn left it.
THEOREM HistoryIsPaired ==
    ASSUME NEW l, NEW i \in Kept(l)
    PROVE  /\ l[i].kind = "result" =>
                \E j \in Recent(l) : l[i].answers \in ValidCalls(l, j)
           /\ \A c \in ValidCalls(l, i) :
                \E j \in Kept(l) : l[j].kind = "result" /\ l[j].answers = c
<1>1. ASSUME l[i].kind = "result"
      PROVE  \E j \in Recent(l) : l[i].answers \in ValidCalls(l, j)
  <2>1. l[i].answers \in Answered(l)
    BY <1>1 DEF Kept
  <2>2. PICK j \in Recent(l) : l[i].answers \in l[j].calls
    BY <2>1 DEF Answered, Made
  <2> QED
    BY <2>1, <2>2 DEF ValidCalls
<1>2. ASSUME NEW c \in ValidCalls(l, i)
      PROVE  \E j \in Kept(l) : l[j].kind = "result" /\ l[j].answers = c
  <2>1. c \in Answered(l)
    BY <1>2 DEF ValidCalls
  <2>2. PICK j \in Recent(l) : l[j].kind = "result" /\ l[j].answers = c
    BY <2>1 DEF Answered
  <2> QED
    BY <2>1, <2>2 DEF Kept
<1> QED
  BY <1>1, <1>2

-----------------------------------------------------------------------------
\* RetriesAreBounded needs the counter to be a number, and to start a run at
\* zero.
RetryInv == iters \in Nat /\ RetriesAreBounded

LEMMA RouterBounds ==
    ASSUME RetryInv, Router
    PROVE  RetryInv'
<1> USE LimitAssumption
<1>1. pc = "router" /\ iters \in Nat /\ iters <= MaxToolIters
  BY DEF Router, RetryInv, RetriesAreBounded
<1>2. CASE LoadMedia \/ RoutePhrase \/ RouteFinalReply \/ RouteResult \/ RouteAnswer
  <2>1. iters' = iters
    BY <1>2 DEF LoadMedia, RoutePhrase, RouteFinalReply, RouteResult, RouteAnswer, Goto
  <2> QED
    BY <1>1, <2>1 DEF RetryInv, RetriesAreBounded
<1>3. CASE RouteError
  <2>1. \/ pc' = "finalize" /\ iters' = iters
        \/ iters < MaxToolIters /\ iters' = iters + 1
    BY <1>3 DEF RouteError, Goto, CanRetry
  <2> QED
    BY <1>1, <2>1 DEF RetryInv, RetriesAreBounded
<1>4. CASE Nudge
  <2>1. /\ iters' = iters + 1
        /\ pc' = IF iters + 1 > MaxToolIters THEN "finalize" ELSE "agent"
    BY <1>4 DEF Nudge, Goto
  <2> QED
    BY <1>1, <2>1 DEF RetryInv, RetriesAreBounded
<1> QED
  BY <1>2, <1>3, <1>4 DEF Router

\* A run that breaks off, or is over, starts the next one at zero.
LEMMA BreakOffBounds ==
    ASSUME NEW seen, BreakOff(seen)
    PROVE  RetryInv'
  BY LimitAssumption DEF BreakOff, EndTurn, RetryInv, RetriesAreBounded

LEMMA EndTurnBounds ==
    ASSUME NEW how, NEW seen, EndTurn(how, seen)
    PROVE  RetryInv'
  BY LimitAssumption DEF EndTurn, RetryInv, RetriesAreBounded

LEMMA StartBounds ==
    ASSUME NEW src, NEW wants, NEW l, Start(src, wants, l)
    PROVE  RetryInv'
  BY LimitAssumption DEF Start, RetryInv, RetriesAreBounded

\* However errors, nudges, repeated runs and cancellations are mixed, the
\* model is given at most MAX_TOOL_ITERS retries and nudges in a run.
THEOREM RetriesBounded == Spec => []RetriesAreBounded
<1>1. Init => RetryInv
  BY LimitAssumption DEF Init, RetryInv, RetriesAreBounded
<1>2. RetryInv /\ [Next]_vars => RetryInv'
  <2> SUFFICES ASSUME RetryInv, [Next]_vars
               PROVE  RetryInv'
    OBVIOUS
  <2> USE LimitAssumption DEF RetryInv, RetriesAreBounded
  <2>1. CASE UserTurn
    BY <2>1, StartBounds DEF UserTurn
  <2>2. CASE NoAgentTurn
    BY <2>2 DEF NoAgentTurn, runVars
  <2>3. CASE Agent
    BY <2>3 DEF Agent
  <2>4. CASE Router
    BY <2>4, RouterBounds
  <2>5. CASE Act
    <3>1. (\E seen : BreakOff(seen)) \/ (pc = "action" /\ iters' = iters)
      BY <2>5 DEF Act
    <3> QED
      BY <3>1, BreakOffBounds
  <2>6. CASE Finalize
    BY <2>6 DEF Finalize
  <2>7. CASE GraphFails
    BY <2>7, BreakOffBounds DEF GraphFails
  <2>8. CASE Save
    BY <2>8 DEF Save, runVars
  <2>9. CASE SaveFinal
    BY <2>9 DEF SaveFinal
  <2>10. CASE RunFails
    BY <2>10, EndTurnBounds DEF RunFails
  <2>11. CASE Respond
    BY <2>11, EndTurnBounds DEF Respond
  <2>12. CASE \E how \in {"cancelled", "crashed"} : Cut(how)
    BY <2>12, EndTurnBounds DEF Cut
  <2>13. CASE BrowserStep
    <3>1. PICK id \in tasks : ResultUnknown(id) \/ ResultWaits(id) \/ ResultResumes(id)
      BY <2>13 DEF BrowserStep
    <3>2. CASE ResultUnknown(id) \/ ResultWaits(id)
      BY <3>2 DEF ResultUnknown, ResultWaits, runVars
    <3>3. CASE ResultResumes(id)
      BY <3>3, StartBounds DEF ResultResumes
    <3> QED
      BY <3>1, <3>2, <3>3
  <2>14. CASE UNCHANGED vars
    BY <2>14 DEF vars, runVars
  <2> QED
    BY <2>1, <2>2, <2>3, <2>4, <2>5, <2>6, <2>7, <2>8, <2>9, <2>10, <2>11, <2>12, <2>13, <2>14
    DEF Next, TurnStep
<1>3. RetryInv => RetriesAreBounded
  BY DEF RetryInv
<1> QED
  BY <1>1, <1>2, <1>3, PTL DEF Spec
-----------------------------------------------------------------------------
(* Types *)

LEMMA MessageKinds ==
    /\ \A m \in Messages : /\ m.kind \in {"ai", "tool", "note"}
                           /\ m.kind = "ai" => m.text \in Texts /\ m.calls \in CallSeqs
                           /\ m.kind = "tool" => m.id \in Nat
    /\ Note \in Messages /\ Note.kind = "note"
  BY DEF Messages, Note

\* Messages are only added to those of a run.
LEMMA Extended ==
    ASSUME msgs \in Seq(Messages), NEW r \in Seq(Messages), msgs' = msgs \o r
    PROVE  /\ msgs' \in Seq(Messages)
           /\ \A i \in DOMAIN msgs : i \in DOMAIN msgs' /\ msgs'[i] = msgs[i]
           /\ \A i \in DOMAIN msgs' :
                 (\E j \in DOMAIN msgs : msgs'[i] = msgs[j]) \/ (\E j \in DOMAIN r : msgs'[i] = r[j])
           /\ RepliesCalled \subseteq RepliesCalled'
           /\ msgs # <<>> => msgs' # <<>>
<1> DEFINE m == Len(msgs)
           n == Len(r)
<1>1. /\ m \in Nat /\ n \in Nat /\ DOMAIN msgs = 1..m /\ DOMAIN r = 1..n
      /\ msgs' \in Seq(Messages) /\ Len(msgs') = m + n /\ DOMAIN msgs' = 1..(m + n)
      /\ msgs # <<>> <=> m > 0
      /\ msgs' # <<>> <=> m + n > 0
  OBVIOUS
<1>2. /\ \A i \in 1..m : msgs'[i] = msgs[i]
      /\ \A i \in 1..n : msgs'[m + i] = r[i]
  OBVIOUS
<1> HIDE DEF m, n
<1>3. \A i \in 1..m : i \in 1..(m + n)
  BY <1>1
<1>4. \A i \in 1..(m + n) : i \in 1..m \/ \E j \in 1..n : i = m + j
  <2> TAKE i \in 1..(m + n)
  <2>1. CASE i > m
    <3>1. i - m \in 1..n /\ i = m + (i - m)
      BY <2>1, <1>1
    <3> QED
      BY <3>1
  <2> QED
    BY <2>1, <1>1
<1>5. \A i \in 1..(m + n) : (\E j \in 1..m : msgs'[i] = msgs[j]) \/ (\E j \in 1..n : msgs'[i] = r[j])
  BY <1>2, <1>4
<1>6. NewCalls \subseteq NewCalls'
  BY <1>1, <1>2, <1>3 DEF NewCalls, CallsOf
<1>7. RepliesCalled \subseteq RepliesCalled'
  BY <1>6 DEF RepliesCalled
<1> QED
  BY <1>1, <1>2, <1>3, <1>5, <1>7

LEMMA FunctionIsSeq ==
    ASSUME NEW S, NEW n \in Nat, NEW f \in [1..n -> S]
    PROVE  f \in Seq(S)
<1>1. f \in UNION {[1..k -> S] : k \in Nat}
  OBVIOUS
<1> QED
  BY <1>1, SeqDef, Zenon

LEMMA NewIdsType ==
    ASSUME nextId \in Nat \ {0}, NEW calls \in Seq(Tools)
    PROVE  WithIds(calls) \in CallSeqs
<1>1. DOMAIN calls = 1..Len(calls) /\ Len(calls) \in Nat /\ \A k \in 1..Len(calls) : calls[k] \in Tools
  OBVIOUS
<1>2. \A k \in 1..Len(calls) : nextId + k - 1 \in Nat
  BY <1>1
<1>3. WithIds(calls) \in [1..Len(calls) -> [id : Nat, tool : Tools]]
  BY <1>1, <1>2 DEF WithIds
<1> QED
  BY <1>1, <1>3, FunctionIsSeq DEF CallSeqs

\* The message the agent node adds.
LEMMA AgentAdds ==
    ASSUME TypeOK, Agent
    PROVE  \E a \in Answers :
             /\ a.text \in Texts /\ Len(a.calls) \in Nat
             /\ AIMessage(a.text, WithIds(a.calls)) \in Messages
             /\ msgs' = msgs \o <<AIMessage(a.text, WithIds(a.calls))>>
             /\ <<AIMessage(a.text, WithIds(a.calls))>> \in Seq(Messages)
             /\ nextId' = nextId + Len(a.calls)
             /\ told' = told \cup Streamed(a.text)
<1>1. PICK a \in Answers :
        /\ msgs' = Append(msgs, AIMessage(a.text, WithIds(a.calls)))
        /\ nextId' = nextId + Len(a.calls)
        /\ told' = told \cup Streamed(a.text)
  BY DEF Agent
<1>2. a.text \in Texts /\ a.calls \in Seq(Tools) /\ Len(a.calls) \in Nat
  BY AnswersAssumption
<1>3. AIMessage(a.text, WithIds(a.calls)) \in Messages
  BY <1>2, NewIdsType DEF TypeOK, AIMessage, Messages
<1>4. PICK m \in Messages : m = AIMessage(a.text, WithIds(a.calls))
  BY <1>3
<1>5. Append(msgs, m) = msgs \o <<m>> /\ <<m>> \in Seq(Messages)
  BY DEF TypeOK
<1> QED
  BY <1>1, <1>2, <1>3, <1>4, <1>5

\* The last message of a run that is at a node behind the agent.
LEMMA LastIsMessage ==
    ASSUME msgs \in Seq(Messages), msgs # <<>>
    PROVE  /\ Len(msgs) \in DOMAIN msgs /\ LastOf(msgs) = msgs[Len(msgs)]
           /\ LastOf(msgs) \in Messages
<1>1. Len(msgs) \in Nat /\ Len(msgs) > 0 /\ DOMAIN msgs = 1..Len(msgs)
  OBVIOUS
<1>2. Len(msgs) \in 1..Len(msgs)
  BY <1>1
<1> QED
  BY <1>1, <1>2 DEF LastOf

\* What follows from where the run is.
PlaceOK ==
    /\ pc \in {"router", "action", "finalize"} => msgs # <<>>
    /\ pc = "action" => LastOf(msgs).kind = "ai"

LEMMA ActCalls ==
    ASSUME TypeOK, PlaceOK, pc = "action"
    PROVE  /\ LastOf(msgs).calls \in CallSeqs
           /\ \A k \in DOMAIN LastOf(msgs).calls :
                 /\ LastOf(msgs).calls[k] \in NewCalls
                 /\ LastOf(msgs).calls[k].id \in Nat
                 /\ LastOf(msgs).calls[k].tool \in Tools
<1>1. /\ Len(msgs) \in DOMAIN msgs /\ LastOf(msgs) = msgs[Len(msgs)]
      /\ LastOf(msgs) \in Messages /\ LastOf(msgs).kind = "ai"
  BY LastIsMessage DEF TypeOK, PlaceOK
<1>2. LastOf(msgs).calls \in CallSeqs
  BY <1>1, MessageKinds
<1>3. \A k \in DOMAIN LastOf(msgs).calls : LastOf(msgs).calls[k] \in CallsOf(msgs[Len(msgs)])
  BY <1>1 DEF CallsOf
<1>4. \A k \in DOMAIN LastOf(msgs).calls : LastOf(msgs).calls[k] \in NewCalls
  BY <1>1, <1>3 DEF NewCalls
<1>5. ASSUME NEW q \in CallSeqs, NEW k \in DOMAIN q PROVE q[k].id \in Nat /\ q[k].tool \in Tools
  <2>1. q[k] \in [id : Nat, tool : Tools]
    BY <1>5, LenProperties, ElementOfSeq DEF CallSeqs
  <2> QED
    BY <2>1
<1> QED
  BY <1>2, <1>4, <1>5

\* What executing the calls of the last message does.
ActGoesOn(seen) == \E r \in Seq(Messages) :
    /\ \A i \in DOMAIN r : r[i].kind = "tool"
    /\ msgs' = msgs \o r /\ told' = told \cup seen
    /\ pc' = "router" /\ steps' = steps + 1
    /\ UNCHANGED <<turnVars, mode, iters, loaded, final, saved, ended, called, broken>>

LEMMA ActDoes ==
    ASSUME TypeOK, PlaceOK, Act
    PROVE  /\ pc = "action" /\ steps < RecursionLimit
           /\ UNCHANGED <<arrived, nextId>> /\ (SpendFault \/ faults' = faults)
           /\ files' \subseteq Nat /\ tasks \subseteq tasks' /\ tasks' \subseteq Nat
           /\ \E seen \in SUBSET {"reply"} :
                 /\ seen # {} => RepliesCalled # {}
                 /\ BreakOff(seen) \/ ActGoesOn(seen)
<1> DEFINE calls == LastOf(msgs).calls
           Done(f, tool) == {calls[k].id : k \in
                {j \in DOMAIN calls : calls[j].tool = tool /\ f[j] \notin Raised}}
<1>1. PICK f \in [DOMAIN calls -> Outs] :
        /\ SpendFault \/ faults' = faults
        /\ files' = files \cup Done(f, "attach")
        /\ tasks' = tasks \cup {id \in Done(f, "browse") :
                        \E k \in DOMAIN calls : calls[k].id = id /\ f[k] = "ok"}
        /\ LET seen == IF Done(f, "reply") # {} THEN {"reply"} ELSE {} IN
           \/ BreakOff(seen)
           \/ /\ \A k \in DOMAIN calls : f[k] # "raise"
              /\ msgs' = msgs \o [k \in DOMAIN calls |-> ToolMessage(calls[k], f[k])]
              /\ told' = told \cup seen
              /\ pc' = "router" /\ steps' = steps + 1
              /\ UNCHANGED <<turnVars, mode, iters, loaded, final, saved, ended, called, broken>>
  BY DEF Act, Outs
<1>2. /\ calls \in CallSeqs
      /\ \A k \in DOMAIN calls : /\ calls[k] \in NewCalls
                                 /\ calls[k].id \in Nat /\ calls[k].tool \in Tools
  BY ActCalls DEF Act
<1>3. pc = "action" /\ steps < RecursionLimit /\ UNCHANGED <<arrived, nextId>>
  BY DEF Act
<1> HIDE DEF calls
<1>4. /\ files' \subseteq Nat /\ tasks \subseteq tasks' /\ tasks' \subseteq Nat
  BY <1>1, <1>2 DEF TypeOK
<1>5. Done(f, "reply") # {} => RepliesCalled # {}
  BY <1>2 DEF RepliesCalled
<1> HIDE DEF Done
<1>6. PICK seen \in SUBSET {"reply"} :
        /\ seen # {} => RepliesCalled # {}
        /\ \/ BreakOff(seen)
           \/ /\ \A k \in DOMAIN calls : f[k] # "raise"
              /\ msgs' = msgs \o [k \in DOMAIN calls |-> ToolMessage(calls[k], f[k])]
              /\ told' = told \cup seen
              /\ pc' = "router" /\ steps' = steps + 1
              /\ UNCHANGED <<turnVars, mode, iters, loaded, final, saved, ended, called, broken>>
  <2>1. CASE Done(f, "reply") # {}
    BY <1>1, <1>5, <2>1
  <2>2. CASE Done(f, "reply") = {}
    BY <1>1, <2>2
  <2> QED
    BY <2>1, <2>2
<1>7. CASE ~BreakOff(seen)
  <2> DEFINE r == [k \in DOMAIN calls |-> ToolMessage(calls[k], f[k])]
  <2>1. \A k \in DOMAIN calls : r[k] \in Messages /\ r[k].kind = "tool"
    BY <1>2, <1>6, <1>7 DEF ToolMessage, Messages
  <2>2. Len(calls) \in Nat /\ DOMAIN calls = 1..Len(calls)
    BY <1>2, LenProperties DEF CallSeqs
  <2>3. r \in [1..Len(calls) -> Messages]
    BY <2>1, <2>2
  <2>4. r \in Seq(Messages) /\ DOMAIN r = DOMAIN calls
    BY <2>2, <2>3, FunctionIsSeq
  <2> HIDE DEF r
  <2>5. msgs' = msgs \o r
    BY <1>6, <1>7 DEF r
  <2>6. ActGoesOn(seen)
    BY <1>6, <1>7, <2>1, <2>4, <2>5 DEF ActGoesOn
  <2> QED
    BY <1>1, <1>3, <1>4, <1>6, <2>6
<1> QED
  BY <1>1, <1>3, <1>4, <1>6, <1>7

\* What a routing decision does.
LEMMA RouterDoes ==
    ASSUME TypeOK, PlaceOK, Router
    PROVE  /\ pc = "router" /\ steps < RecursionLimit /\ steps' = steps + 1
           /\ pc' \in {"agent", "action", "finalize"}
           /\ iters' \in Nat /\ loaded' \subseteq Nat
           /\ \E notes \in {<<>>, <<Note>>} :
                 /\ msgs' = msgs \o notes
                 /\ pc' = "action" => notes = <<>> /\ LastOf(msgs).kind = "ai"
           /\ UNCHANGED <<turnVars, mode, outVars, taskVars, broken, nextId, faults>>
<1>1. /\ pc = "router" /\ steps < RecursionLimit /\ steps' = steps + 1
      /\ iters \in Nat /\ loaded \subseteq Nat
      /\ UNCHANGED <<turnVars, mode, outVars, taskVars, broken, nextId, faults>>
  BY DEF Router, TypeOK
<1> USE DEF Goto
<1>2. CASE LoadMedia
  <2>1. NewMedia \subseteq Nat
    <3>1. \A i \in DOMAIN msgs : msgs[i] \in Messages
      BY DEF TypeOK
    <3> QED
      BY <3>1, MessageKinds DEF NewMedia
  <2> QED
    BY <1>1, <1>2, <2>1 DEF LoadMedia
<1>3. CASE RoutePhrase \/ RouteAnswer
  BY <1>1, <1>3 DEF RoutePhrase, RouteAnswer, LastIsAnswer
<1>4. CASE RouteFinalReply \/ RouteResult
  BY <1>1, <1>4 DEF RouteFinalReply, RouteResult
<1>5. CASE RouteError
  BY <1>1, <1>5 DEF RouteError
<1>6. CASE Nudge
  BY <1>1, <1>6 DEF Nudge
<1> QED
  BY <1>2, <1>3, <1>4, <1>5, <1>6 DEF Router

LEMMA NotesAreMessages == <<>> \in Seq(Messages) /\ <<Note>> \in Seq(Messages)
<1>1. Note \in Messages
  BY MessageKinds
<1> QED
  BY <1>1

-----------------------------------------------------------------------------
(* The types are kept *)

CountsOK ==
    /\ turn \in 0..MaxTurns /\ (pc # "idle" => turn > 0)
    /\ iters \in Nat /\ steps \in 0..RecursionLimit /\ saved \in Nat
    /\ loaded \subseteq Nat /\ files \subseteq Nat
    /\ broken \subseteq 1..turn /\ tasks \subseteq Nat /\ arrived \subseteq tasks
    /\ nextId \in Nat \ {0} /\ faults \in 0..MaxFaults

WordsOK ==
    /\ source \in {"chat", "websocket", "browser"} /\ expect \in BOOLEAN
    /\ inherited \in BOOLEAN /\ called \in BOOLEAN
    /\ pc \in {"agent", "router", "action", "finalize", "idle", "save", "respond"}
    /\ mode \in {"stream", "batch"} /\ final \in {"empty", "text", "streamed"}
    /\ told \subseteq {"asked", "reply", "stream", "text", "files", "error", "sorry"}
    /\ ended \in {"none", "running", "passive", "asked", "completed", "failed", "cancelled", "crashed"}

LEMMA TypeParts == TypeOK <=> CountsOK /\ WordsOK /\ msgs \in Seq(Messages)
  BY DEF TypeOK, CountsOK, WordsOK, Nodes, Sources

LEMMA TypePartsNext == TypeOK' <=> CountsOK' /\ WordsOK' /\ msgs' \in Seq(Messages)
  BY DEF TypeOK, CountsOK, WordsOK, Nodes, Sources

\* A step that leaves the counters as a step of a run may leave them.
LEMMA CountsStay ==
    ASSUME CountsOK, UNCHANGED turn, pc # "idle" \/ pc' = "idle",
           iters' \in Nat, steps' \in {0, steps} \/ (steps < RecursionLimit /\ steps' = steps + 1),
           saved' \in Nat, loaded' \subseteq Nat, files' \subseteq Nat,
           broken' = broken \/ (broken' = broken \cup {turn} /\ pc # "idle"),
           tasks' \subseteq Nat, arrived' \subseteq tasks',
           nextId' \in Nat \ {0}, SpendFault \/ faults' = faults
    PROVE  CountsOK'
<1>1. turn \in 0..MaxTurns /\ (pc # "idle" => turn > 0) /\ (pc' # "idle" => turn > 0)
  BY DEF CountsOK
<1>2. steps' \in 0..RecursionLimit
  <2>1. RecursionLimit \in Nat /\ steps \in 0..RecursionLimit
    BY LimitAssumption DEF CountsOK
  <2>2. CASE steps' = 0
    BY <2>1, <2>2
  <2>3. CASE steps' = steps
    BY <2>1, <2>3
  <2>4. CASE steps < RecursionLimit /\ steps' = steps + 1
    BY <2>1, <2>4
  <2> QED
    BY <2>2, <2>3, <2>4
<1>3. broken' \subseteq 1..turn
  <2>1. broken \subseteq 1..turn
    BY DEF CountsOK
  <2>2. turn \in Nat /\ (pc # "idle" => turn \in 1..turn)
    BY <1>1, LimitAssumption
  <2> QED
    BY <2>1, <2>2
<1>4. faults' \in 0..MaxFaults
  BY LimitAssumption DEF CountsOK, SpendFault
<1> QED
  BY <1>1, <1>2, <1>3, <1>4 DEF CountsOK

LEMMA TypesInit == Init => TypeOK /\ PlaceOK
<1> SUFFICES ASSUME Init PROVE TypeOK /\ PlaceOK
  OBVIOUS
<1>1. CountsOK
  BY LimitAssumption DEF Init, CountsOK
<1>2. WordsOK
  BY DEF Init, WordsOK
<1>3. msgs \in Seq(Messages)
  BY DEF Init
<1>4. PlaceOK
  BY DEF Init, PlaceOK
<1> QED
  BY <1>1, <1>2, <1>3, <1>4, TypeParts

LEMMA StartKeeps ==
    ASSUME TypeOK, NEW src \in Sources \cup {"browser"}, NEW wants \in BOOLEAN, NEW l,
           Start(src, wants, l), tasks' = tasks, arrived' \subseteq tasks,
           UNCHANGED <<broken, nextId, faults>>
    PROVE  TypeOK' /\ PlaceOK'
<1>0. CountsOK /\ WordsOK
  BY TypeParts
<1>1. CountsOK'
  BY <1>0, LimitAssumption DEF Start, CountsOK
<1>2. WordsOK'
  BY <1>0 DEF Start, WordsOK, RepliesIn, Sources
<1>3. msgs' \in Seq(Messages) /\ PlaceOK'
  BY DEF Start, PlaceOK
<1> QED
  BY <1>1, <1>2, <1>3, TypePartsNext

LEMMA EndTurnKeeps ==
    ASSUME TypeOK, pc # "idle",
           NEW how \in {"completed", "failed", "cancelled", "crashed"},
           NEW seen \in SUBSET {"reply", "text", "files", "sorry"}, EndTurn(how, seen),
           files' \subseteq Nat, tasks' \subseteq Nat, arrived' \subseteq tasks',
           broken' = broken \/ broken' = broken \cup {turn}, nextId' = nextId,
           SpendFault \/ faults' = faults
    PROVE  TypeOK' /\ PlaceOK'
<1>0. CountsOK /\ WordsOK
  BY TypeParts
<1>1. CountsOK'
  <2>1. /\ UNCHANGED turn /\ iters' = 0 /\ steps' = 0 /\ saved' = 0 /\ loaded' = {}
    BY DEF EndTurn
  <2>2. nextId' \in Nat \ {0}
    BY <1>0 DEF CountsOK
  <2> QED
    BY <1>0, <2>1, <2>2, CountsStay
<1>2. WordsOK'
  BY <1>0 DEF EndTurn, WordsOK
<1>3. msgs' \in Seq(Messages) /\ PlaceOK'
  BY DEF EndTurn, PlaceOK
<1> QED
  BY <1>1, <1>2, <1>3, TypePartsNext

LEMMA BreakOffKeeps ==
    ASSUME TypeOK, pc # "idle", NEW seen \in SUBSET {"reply"}, BreakOff(seen),
           files' \subseteq Nat, tasks' \subseteq Nat, arrived' \subseteq tasks',
           nextId' = nextId, SpendFault \/ faults' = faults
    PROVE  TypeOK' /\ PlaceOK'
<1>1. CASE EndTurn("failed", seen \cup {"sorry"})
  <2>1. broken' = broken \cup {turn}
    BY DEF BreakOff
  <2>2. PICK all \in SUBSET {"reply", "text", "files", "sorry"} : EndTurn("failed", all)
    BY <1>1
  <2> QED
    BY <2>1, <2>2, EndTurnKeeps
<1>2. CASE ~EndTurn("failed", seen \cup {"sorry"})
  <2>0. CountsOK /\ WordsOK
    BY TypeParts
  <2>1. /\ UNCHANGED <<turn, source, expect, inherited, loaded, final, saved, ended, called>>
        /\ broken' = broken \cup {turn} /\ iters' = 0 /\ steps' = 0
        /\ pc' = "agent" /\ mode' = "batch" /\ msgs' = <<>>
        /\ told' = told \cup seen \cup (IF source = "websocket" THEN {"error"} ELSE {})
    BY <1>2 DEF BreakOff, turnVars
  <2>2. loaded \subseteq Nat /\ saved \in Nat /\ nextId \in Nat \ {0}
    BY <2>0 DEF CountsOK
  <2>4. CountsOK'
    BY <2>0, <2>1, <2>2, CountsStay
  <2>5. told' \subseteq {"asked", "reply", "stream", "text", "files", "error", "sorry"}
    BY <2>0, <2>1 DEF WordsOK
  <2>6. WordsOK'
    <3>1. /\ expect' \in BOOLEAN /\ inherited' \in BOOLEAN /\ called' \in BOOLEAN
      BY <2>0, <2>1 DEF WordsOK
    <3>2. /\ source' \in {"chat", "websocket", "browser"}
          /\ pc' \in {"agent", "router", "action", "finalize", "idle", "save", "respond"}
          /\ mode' \in {"stream", "batch"} /\ final' \in {"empty", "text", "streamed"}
          /\ ended' \in {"none", "running", "passive", "asked", "completed",
                         "failed", "cancelled", "crashed"}
      BY <2>0, <2>1 DEF WordsOK
    <3> QED
      BY <2>5, <3>1, <3>2 DEF WordsOK
  <2>3. msgs' \in Seq(Messages) /\ PlaceOK'
    BY <2>1 DEF PlaceOK
  <2> QED
    BY <2>3, <2>4, <2>6, TypePartsNext
<1> QED
  BY <1>1, <1>2

LEMMA TypesStep == TypeOK /\ PlaceOK /\ [Next]_vars => TypeOK' /\ PlaceOK'
<1> SUFFICES ASSUME TypeOK, PlaceOK, [Next]_vars PROVE TypeOK' /\ PlaceOK'
  OBVIOUS
<1>0. CountsOK /\ WordsOK /\ msgs \in Seq(Messages)
  BY TypeParts
<1> USE DEF runVars, turnVars, outVars, taskVars
<1>1. CASE UserTurn
  <2>1. PICK r \in Requests : Start(r.source, r.expect, log)
    BY <1>1 DEF UserTurn
  <2>2. r.source \in Sources \cup {"browser"} /\ r.expect \in BOOLEAN
    BY RequestsAssumption
  <2>3. tasks' = tasks /\ arrived' \subseteq tasks /\ UNCHANGED <<broken, nextId, faults>>
    BY <1>0, <1>1 DEF UserTurn, CountsOK
  <2> QED
    BY <2>1, <2>2, <2>3, StartKeeps
<1>2. CASE NoAgentTurn
  <2>1. CountsOK'
    BY <1>0, <1>2, LimitAssumption DEF NoAgentTurn, CountsOK
  <2>2. WordsOK'
    BY <1>0, <1>2 DEF NoAgentTurn, WordsOK
  <2>3. msgs' \in Seq(Messages) /\ PlaceOK'
    BY <1>0, <1>2 DEF NoAgentTurn, PlaceOK
  <2> QED
    BY <2>1, <2>2, <2>3, TypePartsNext
<1>3. CASE Agent
  <2>1. PICK m \in Messages, n \in Nat, word \in SUBSET {"stream"} :
          /\ msgs' = msgs \o <<m>> /\ <<m>> \in Seq(Messages)
          /\ nextId' = nextId + n /\ told' = told \cup word
    BY <1>3, AgentAdds DEF Streamed
  <2>2. msgs' \in Seq(Messages) /\ msgs' # <<>>
    BY <1>0, <2>1
  <2>3. CountsOK'
    <3>1. /\ pc = "agent" /\ steps < RecursionLimit /\ steps' = steps + 1
          /\ UNCHANGED <<turn, iters, saved, loaded, files, broken, tasks, arrived, faults>>
      BY <1>3 DEF Agent
    <3>2. nextId' \in Nat \ {0}
      BY <1>0, <2>1 DEF CountsOK
    <3>3. /\ iters \in Nat /\ saved \in Nat /\ loaded \subseteq Nat /\ files \subseteq Nat
          /\ tasks \subseteq Nat /\ arrived \subseteq tasks
      BY <1>0 DEF CountsOK
    <3> QED
      BY <1>0, <3>1, <3>2, <3>3, CountsStay
  <2>4. WordsOK'
    BY <1>0, <1>3, <2>1 DEF Agent, WordsOK
  <2>5. PlaceOK'
    BY <1>3, <2>2 DEF Agent, PlaceOK
  <2> QED
    BY <2>2, <2>3, <2>4, <2>5, TypePartsNext
<1>4. CASE Router
  <2>1. PICK notes \in {<<>>, <<Note>>} :
          /\ msgs' = msgs \o notes
          /\ pc' = "action" => notes = <<>> /\ LastOf(msgs).kind = "ai"
    BY <1>4, RouterDoes
  <2>2. notes \in Seq(Messages) /\ pc = "router"
    BY <1>4, <2>1, NotesAreMessages, RouterDoes
  <2>3. msgs' \in Seq(Messages) /\ msgs' # <<>>
    BY <1>0, <2>1, <2>2, Extended DEF PlaceOK
  <2>4. notes = <<>> => msgs' = msgs
    BY <1>0, <2>1, ConcatEmptySeq
  <2>5. PlaceOK'
    BY <2>1, <2>3, <2>4 DEF PlaceOK, LastOf
  <2>6. CountsOK'
    <3>1. /\ pc = "router" /\ steps < RecursionLimit /\ steps' = steps + 1
          /\ iters' \in Nat /\ loaded' \subseteq Nat
          /\ UNCHANGED <<turn, saved, files, broken, tasks, arrived, nextId, faults>>
      BY <1>4, RouterDoes
    <3>2. /\ saved \in Nat /\ files \subseteq Nat /\ nextId \in Nat \ {0}
          /\ tasks \subseteq Nat /\ arrived \subseteq tasks
      BY <1>0 DEF CountsOK
    <3> QED
      BY <1>0, <3>1, <3>2, CountsStay
  <2>7. WordsOK'
    <3>1. /\ UNCHANGED <<source, expect, inherited, called, mode, final, told, ended>>
          /\ pc' \in {"agent", "action", "finalize"}
      BY <1>4, RouterDoes
    <3> QED
      BY <1>0, <3>1 DEF WordsOK
  <2> QED
    BY <2>3, <2>5, <2>6, <2>7, TypePartsNext
<1>5. CASE Act
  <2>1. PICK seen \in SUBSET {"reply"} : BreakOff(seen) \/ ActGoesOn(seen)
    BY <1>5, ActDoes
  <2>2. /\ pc = "action" /\ steps < RecursionLimit /\ UNCHANGED <<arrived, nextId>>
        /\ files' \subseteq Nat /\ tasks' \subseteq Nat /\ arrived' \subseteq tasks'
        /\ SpendFault \/ faults' = faults
    BY <1>0, <1>5, ActDoes DEF CountsOK
  <2>3. CASE BreakOff(seen)
    BY <2>2, <2>3, BreakOffKeeps
  <2>4. CASE ActGoesOn(seen)
    <3>1. PICK r \in Seq(Messages) : msgs' = msgs \o r
      BY <2>4 DEF ActGoesOn
    <3>2. msgs' \in Seq(Messages) /\ msgs' # <<>>
      BY <1>0, <2>2, <3>1, Extended DEF PlaceOK
    <3>3. CountsOK'
      <4>1. steps' = steps + 1 /\ UNCHANGED <<turn, iters, saved, loaded, broken>>
        BY <2>4 DEF ActGoesOn
      <4>2. iters \in Nat /\ saved \in Nat /\ loaded \subseteq Nat /\ nextId \in Nat \ {0}
        BY <1>0 DEF CountsOK
      <4> QED
        BY <1>0, <2>2, <4>1, <4>2, CountsStay
    <3>4. WordsOK'
      BY <1>0, <2>4 DEF ActGoesOn, WordsOK
    <3>5. PlaceOK'
      BY <2>4, <3>2 DEF ActGoesOn, PlaceOK
    <3> QED
      BY <3>2, <3>3, <3>4, <3>5, TypePartsNext
  <2> QED
    BY <2>1, <2>3, <2>4
<1>6. CASE Finalize
  <2>1. CountsOK'
    <3>1. /\ pc = "finalize" /\ steps < RecursionLimit /\ steps' = steps + 1 /\ saved' = 0
          /\ UNCHANGED <<turn, iters, loaded, files, broken, tasks, arrived, nextId, faults>>
      BY <1>6 DEF Finalize
    <3>2. /\ iters \in Nat /\ loaded \subseteq Nat /\ files \subseteq Nat
          /\ nextId \in Nat \ {0} /\ tasks \subseteq Nat /\ arrived \subseteq tasks
      BY <1>0 DEF CountsOK
    <3> QED
      BY <1>0, <3>1, <3>2, CountsStay
  <2>2. WordsOK'
    BY <1>0, <1>6 DEF Finalize, WordsOK
  <2>3. msgs' \in Seq(Messages) /\ PlaceOK'
    BY <1>0, <1>6 DEF Finalize, PlaceOK
  <2> QED
    BY <2>1, <2>2, <2>3, TypePartsNext
<1>7. CASE GraphFails
  <2>1. /\ pc # "idle" /\ BreakOff({}) /\ files' = files /\ UNCHANGED <<tasks, arrived, nextId>>
        /\ SpendFault \/ faults' = faults
    BY <1>7 DEF GraphFails, Nodes
  <2> QED
    BY <1>0, <2>1, BreakOffKeeps DEF CountsOK
<1>8. CASE Save \/ SaveFinal
  <2>1. CountsOK'
    <3>1. /\ pc = "save" /\ saved' \in {saved, saved + 1}
          /\ UNCHANGED <<turn, iters, steps, loaded, files, broken, tasks, arrived, nextId>>
          /\ SpendFault \/ faults' = faults
      BY <1>8 DEF Save, SaveFinal
    <3>2. /\ iters \in Nat /\ saved \in Nat /\ loaded \subseteq Nat /\ files \subseteq Nat
          /\ nextId \in Nat \ {0} /\ tasks \subseteq Nat /\ arrived \subseteq tasks
      BY <1>0 DEF CountsOK
    <3> QED
      BY <1>0, <3>1, <3>2, CountsStay
  <2>2. WordsOK'
    <3>1. /\ UNCHANGED <<source, expect, inherited, called, mode, final, told, ended>>
          /\ pc' \in {"save", "respond"}
      BY <1>8 DEF Save, SaveFinal
    <3> QED
      BY <1>0, <3>1 DEF WordsOK
  <2>3. msgs' \in Seq(Messages) /\ PlaceOK'
    BY <1>0, <1>8 DEF Save, SaveFinal, PlaceOK
  <2> QED
    BY <2>1, <2>2, <2>3, TypePartsNext
<1>9. CASE RunFails
  <2>1. PICK seen \in SUBSET {"reply", "text", "files", "sorry"} : EndTurn("failed", seen)
    BY <1>9 DEF RunFails
  <2> QED
    BY <1>0, <1>9, <2>1, EndTurnKeeps DEF RunFails, CountsOK
<1>10. CASE Respond
  <2>1. PICK seen \in SUBSET {"reply", "text", "files", "sorry"} : EndTurn("completed", seen)
    BY <1>10 DEF Respond
  <2> QED
    BY <1>0, <1>10, <2>1, EndTurnKeeps DEF Respond, CountsOK
<1>11. ASSUME NEW how \in {"cancelled", "crashed"}, Cut(how) PROVE TypeOK' /\ PlaceOK'
  <2>1. EndTurn(how, {}) /\ pc # "idle" /\ broken' = broken \cup {turn} /\ SpendFault
        /\ UNCHANGED <<files, tasks, arrived, nextId>>
    BY <1>11 DEF Cut
  <2> QED
    BY <1>0, <2>1, EndTurnKeeps DEF CountsOK
<1>12. CASE BrowserStep
  <2>1. PICK id \in tasks : ResultUnknown(id) \/ ResultWaits(id) \/ ResultResumes(id)
    BY <1>12 DEF BrowserStep
  <2>2. tasks' = tasks /\ arrived' \subseteq tasks /\ UNCHANGED <<broken, nextId, faults>>
    BY <1>0, <2>1 DEF ResultUnknown, ResultWaits, ResultResumes, Result, CountsOK
  <2>3. CASE ResultUnknown(id) \/ ResultWaits(id)
    <3>1. UNCHANGED <<turnVars, runVars, outVars, loaded>>
      BY <2>3 DEF ResultUnknown, ResultWaits
    <3>2. CountsOK' /\ WordsOK' /\ msgs' \in Seq(Messages) /\ PlaceOK'
      BY <1>0, <2>2, <3>1 DEF CountsOK, WordsOK, PlaceOK
    <3> QED
      BY <3>2, TypePartsNext
  <2>4. CASE ResultResumes(id)
    <3>1. PICK wants \in BOOLEAN : Start("browser", wants, WithResult(id))
      BY <2>4 DEF ResultResumes
    <3> QED
      BY <2>2, <3>1, StartKeeps
  <2> QED
    BY <2>1, <2>3, <2>4
<1>13. CASE UNCHANGED vars
  BY <1>13 DEF vars, TypeOK, PlaceOK, LastOf
<1> QED
  BY <1>1, <1>2, <1>3, <1>4, <1>5, <1>6, <1>7, <1>8, <1>9, <1>10, <1>11, <1>12, <1>13
  DEF Next, TurnStep

\* The variables of a turn and its run have their types, whatever the model
\* answers and the tools return.
THEOREM TurnTypes == Spec => []TypeOK
<1>1. Init => TypeOK /\ PlaceOK
  BY TypesInit
<1>2. TypeOK /\ PlaceOK /\ [Next]_vars => TypeOK' /\ PlaceOK'
  BY TypesStep
<1> QED
  BY <1>1, <1>2, PTL DEF Spec

-----------------------------------------------------------------------------
(* Silence, and being answered twice *)

\* What SilenceIsExplained rests on: a response is empty only if a reply tool
\* was called, and counts as streamed only if something was; text of a run on
\* the web is seen, or the error that made the graph run again.
ToldOnTheWeb ==
    source = "websocket" /\ pc # "idle" =>
        /\ mode = "batch" => told # {}
        /\ \A i \in DOMAIN msgs : msgs[i].kind = "ai" /\ msgs[i].text # "none" => told # {}

SilentOK ==
    /\ SilenceIsExplained /\ ToldOnTheWeb
    /\ pc \in {"save", "respond"} =>
         /\ final = "empty" => RepliedByTool
         /\ final = "streamed" => told # {}

\* What AnsweredOneWay rests on: before the end of a run that was not broken
\* off only a reply tool has answered, and then the response has no text.
Final == {"asked", "reply", "text", "sorry"}

OneWayOK ==
    /\ AnsweredOneWay
    /\ pc # "idle" /\ turn \notin broken =>
         /\ told \cap Final \subseteq {"reply"}
         /\ "reply" \in told => RepliesCalled # {}
    /\ pc \in {"save", "respond"} /\ final = "text" => ~RepliedByTool

TurnInv == TypeOK /\ PlaceOK /\ SilentOK /\ OneWayOK

LEMMA NoneAnswered == Cardinality({}) <= 1 /\ \A x : Cardinality({x}) <= 1
  BY FS_EmptySet, FS_Singleton

LEMMA AtMostOne ==
    ASSUME NEW S, NEW x, S \subseteq {x}
    PROVE  Cardinality(S) <= 1
<1>1. S = {} \/ S = {x}
  OBVIOUS
<1> QED
  BY <1>1, NoneAnswered

\* A turn begins with nothing told, nothing said and nothing decided.
LEMMA StartTells ==
    ASSUME TurnInv, NEW src, NEW wants, NEW l, Start(src, wants, l), broken' = broken
    PROVE  SilentOK' /\ OneWayOK'
<1>1. /\ pc' = "agent" /\ mode' = "stream" /\ msgs' = <<>> /\ told' = {}
      /\ turn' = turn + 1 /\ ended' = "running"
  BY DEF Start
<1>2. DOMAIN msgs' = {}
  BY <1>1
<1> QED
  BY <1>1, <1>2 DEF SilentOK, ToldOnTheWeb, SilenceIsExplained, Ended, OneWayOK, AnsweredOneWay

\* A turn that does not run to its end is explained by the end it took.
LEMMA BrokenEndTells ==
    ASSUME TurnInv, NEW how \in {"failed", "cancelled", "crashed"}, NEW seen,
           EndTurn(how, seen), broken' = broken \cup {turn}
    PROVE  SilentOK' /\ OneWayOK'
<1>1. pc' = "idle" /\ ended' # "completed" /\ turn' = turn /\ turn \in broken'
  BY DEF EndTurn
<1> QED
  BY <1>1 DEF SilentOK, ToldOnTheWeb, SilenceIsExplained, Ended, OneWayOK, AnsweredOneWay

LEMMA BreakOffTells ==
    ASSUME TurnInv, NEW seen, BreakOff(seen)
    PROVE  SilentOK' /\ OneWayOK'
<1>0. broken' = broken \cup {turn}
  BY DEF BreakOff
<1>1. CASE EndTurn("failed", seen \cup {"sorry"})
  BY <1>0, <1>1, BrokenEndTells
<1>2. CASE ~EndTurn("failed", seen \cup {"sorry"})
  <2>1. /\ UNCHANGED <<turn, source>> /\ pc' = "agent" /\ msgs' = <<>>
        /\ source = "websocket" => "error" \in told'
    BY <1>2 DEF BreakOff, turnVars
  <2>2. DOMAIN msgs' = {} /\ turn' \in broken'
    BY <1>0, <2>1
  <2> QED
    BY <2>1, <2>2
    DEF SilentOK, ToldOnTheWeb, SilenceIsExplained, Ended, OneWayOK, AnsweredOneWay
<1> QED
  BY <1>1, <1>2

\* A node that goes on with the run: what was said so far is still there, and
\* what is new was seen or says nothing.
LEMMA GoesOn ==
    ASSUME TurnInv, NEW r \in Seq(Messages), msgs' = msgs \o r,
           pc \in Nodes, pc' \in Nodes, UNCHANGED <<turn, source, mode, broken>>,
           NEW seen, told' = told \cup seen, seen \subseteq {"reply", "stream"},
           "reply" \in seen => RepliesCalled # {},
           source = "websocket" /\ mode = "stream" =>
               \A i \in DOMAIN r : r[i].kind = "ai" /\ r[i].text # "none" => seen # {}
    PROVE  SilentOK' /\ OneWayOK'
<1>1. /\ \A i \in DOMAIN msgs' :
           (\E j \in DOMAIN msgs : msgs'[i] = msgs[j]) \/ (\E j \in DOMAIN r : msgs'[i] = r[j])
      /\ RepliesCalled \subseteq RepliesCalled'
  BY Extended DEF TurnInv, TypeOK
<1>2. pc # "idle" /\ pc' # "idle" /\ pc' \notin {"save", "respond"}
  BY DEF Nodes
<1>3. mode \in {"stream", "batch"}
  BY DEF TurnInv, TypeOK
<1>4. ToldOnTheWeb'
  <2>1. CASE source = "websocket" /\ mode = "stream"
    <3>1. ASSUME NEW i \in DOMAIN msgs', msgs'[i].kind = "ai", msgs'[i].text # "none"
          PROVE  told' # {}
      <4>1. CASE \E j \in DOMAIN msgs : msgs'[i] = msgs[j]
        BY <1>2, <2>1, <3>1, <4>1 DEF TurnInv, SilentOK, ToldOnTheWeb
      <4>2. CASE \E j \in DOMAIN r : msgs'[i] = r[j]
        BY <2>1, <3>1, <4>2
      <4> QED
        BY <1>1, <3>1, <4>1, <4>2
    <3> QED
      BY <2>1, <3>1 DEF ToldOnTheWeb
  <2>2. CASE source = "websocket" /\ mode = "batch"
    <3>1. told # {}
      BY <1>2, <2>2 DEF TurnInv, SilentOK, ToldOnTheWeb
    <3> QED
      BY <3>1 DEF ToldOnTheWeb
  <2> QED
    BY <1>3, <2>1, <2>2 DEF ToldOnTheWeb
<1>5. SilentOK'
  BY <1>2, <1>4 DEF SilentOK, SilenceIsExplained, Ended
<1>6. OneWayOK'
  BY <1>1, <1>2 DEF TurnInv, OneWayOK, AnsweredOneWay, Final
<1> QED
  BY <1>5, <1>6

LEMMA FinalizeTells ==
    ASSUME TurnInv, Finalize
    PROVE  SilentOK' /\ OneWayOK'
<1>1. /\ pc = "finalize" /\ pc' = "save"
      /\ UNCHANGED <<turn, source, inherited, mode, msgs, told, broken>>
      /\ final' = IF RepliedByTool THEN "empty"
                  ELSE IF AlreadyStreamed THEN "streamed" ELSE "text"
  BY DEF Finalize, turnVars
<1>2. RepliedByTool' = RepliedByTool /\ RepliesCalled' = RepliesCalled
  BY <1>1 DEF RepliedByTool, RepliesCalled, NewCalls
<1>3. AlreadyStreamed => told # {}
  <2>1. Len(msgs) \in DOMAIN msgs /\ LastOf(msgs) = msgs[Len(msgs)]
    BY <1>1, LastIsMessage DEF TurnInv, TypeOK, PlaceOK
  <2> QED
    BY <1>1, <2>1 DEF AlreadyStreamed, TurnInv, SilentOK, ToldOnTheWeb
<1>4. ToldOnTheWeb'
  BY <1>1 DEF TurnInv, SilentOK, ToldOnTheWeb
<1>5. SilentOK'
  BY <1>1, <1>2, <1>3, <1>4 DEF SilentOK, SilenceIsExplained, Ended
<1>6. OneWayOK'
  BY <1>1, <1>2 DEF TurnInv, OneWayOK, AnsweredOneWay
<1> QED
  BY <1>5, <1>6

LEMMA RespondTells ==
    ASSUME TurnInv, Respond
    PROVE  SilentOK' /\ OneWayOK'
<1> DEFINE seen == (IF final = "text" THEN {"text"} ELSE {})
                     \cup (IF final # "empty" /\ files # {} THEN {"files"} ELSE {})
<1>1. /\ pc = "respond" /\ pc' = "idle" /\ told' = told \cup seen
      /\ called' = (RepliesCalled # {})
      /\ UNCHANGED <<turn, inherited, broken>>
  BY DEF Respond, EndTurn
<1>2. final \in {"empty", "text", "streamed"}
  BY DEF TurnInv, TypeOK
<1>3. told' = {} => inherited' \/ called'
  BY <1>1, <1>2 DEF TurnInv, SilentOK, RepliedByTool
<1>4. turn \notin broken => told' \cap Final \subseteq {"reply"} \/ told' \cap Final \subseteq {"text"}
  BY <1>1, <1>2 DEF TurnInv, OneWayOK, Final, RepliedByTool
<1>5. turn \notin broken => Cardinality(told' \cap Final) <= 1
  BY <1>4, AtMostOne
<1>6. SilentOK'
  BY <1>1, <1>3 DEF SilentOK, ToldOnTheWeb, SilenceIsExplained
<1>7. OneWayOK'
  BY <1>1, <1>5 DEF OneWayOK, AnsweredOneWay, Final
<1> QED
  BY <1>6, <1>7

\* Nothing the user sees, and nothing it rests on, changes.
LEMMA QuietStep ==
    ASSUME TurnInv, UNCHANGED <<turn, source, inherited, mode, msgs, final, told, ended, called, broken>>,
           pc' = pc \/ (pc = "save" /\ pc' = "respond")
    PROVE  SilentOK' /\ OneWayOK'
<1>1. RepliedByTool' = RepliedByTool /\ RepliesCalled' = RepliesCalled
  BY DEF RepliedByTool, RepliesCalled, NewCalls
<1>2. SilentOK'
  BY <1>1 DEF TurnInv, SilentOK, ToldOnTheWeb, SilenceIsExplained, Ended
<1>3. OneWayOK'
  BY <1>1 DEF TurnInv, OneWayOK, AnsweredOneWay
<1> QED
  BY <1>2, <1>3

LEMMA TurnInvInit == Init => TurnInv
<1> SUFFICES ASSUME Init PROVE TurnInv
  OBVIOUS
<1>1. told = {} /\ pc = "idle" /\ ended = "none"
  BY DEF Init
<1>2. SilentOK
  BY <1>1 DEF SilentOK, ToldOnTheWeb, SilenceIsExplained, Ended
<1>3. OneWayOK
  BY <1>1, NoneAnswered DEF OneWayOK, AnsweredOneWay
<1> QED
  BY <1>2, <1>3, TypesInit DEF TurnInv

LEMMA TellsStep == TurnInv /\ [Next]_vars => SilentOK' /\ OneWayOK'
<1> SUFFICES ASSUME TurnInv, [Next]_vars PROVE SilentOK' /\ OneWayOK'
  OBVIOUS
<1>0. TypeOK /\ PlaceOK
  BY DEF TurnInv
<1>1. CASE UserTurn
  BY <1>1, StartTells DEF UserTurn
<1>2. CASE NoAgentTurn
  <2>1. /\ pc = "idle" /\ pc' = "idle" /\ ended' # "completed" /\ told' \subseteq {"asked"}
    BY <1>2 DEF NoAgentTurn, runVars
  <2>2. Cardinality(told' \cap Final) <= 1
    BY <2>1, AtMostOne
  <2>3. SilentOK'
    BY <2>1 DEF SilentOK, ToldOnTheWeb, SilenceIsExplained, Ended
  <2>4. OneWayOK'
    BY <2>1, <2>2 DEF OneWayOK, AnsweredOneWay, Final
  <2> QED
    BY <2>3, <2>4
<1>3. CASE Agent
  <2>1. PICK a \in Answers :
          /\ AIMessage(a.text, WithIds(a.calls)) \in Messages
          /\ msgs' = msgs \o <<AIMessage(a.text, WithIds(a.calls))>>
          /\ <<AIMessage(a.text, WithIds(a.calls))>> \in Seq(Messages)
          /\ told' = told \cup Streamed(a.text)
    BY <1>0, <1>3, AgentAdds
  <2>2. PICK m \in Messages : m = AIMessage(a.text, WithIds(a.calls))
    BY <2>1
  <2>3. DOMAIN <<m>> = {1} /\ <<m>>[1] = m /\ m.text = a.text
    BY <2>2 DEF AIMessage
  <2>4. source = "websocket" /\ mode = "stream" =>
           \A i \in DOMAIN <<m>> : <<m>>[i].kind = "ai" /\ <<m>>[i].text # "none" =>
              Streamed(a.text) # {}
    BY <2>3 DEF Streamed
  <2>5. Streamed(a.text) \subseteq {"stream"}
    BY DEF Streamed
  <2>6. pc \in Nodes /\ pc' \in Nodes /\ UNCHANGED <<turn, source, mode, broken>>
    BY <1>3 DEF Agent, Nodes, turnVars
  <2> QED
    BY <2>1, <2>2, <2>4, <2>5, <2>6, GoesOn
<1>4. CASE Router
  <2>1. PICK notes \in {<<>>, <<Note>>} : msgs' = msgs \o notes
    BY <1>0, <1>4, RouterDoes
  <2>2. \A i \in DOMAIN notes : notes[i].kind = "note"
    BY MessageKinds
  <2>3. /\ pc \in Nodes /\ pc' \in Nodes /\ UNCHANGED <<turn, source, mode, broken>>
        /\ told' = told \cup {}
    BY <1>0, <1>4, RouterDoes DEF Nodes, turnVars, outVars
  <2>4. notes \in Seq(Messages)
    BY NotesAreMessages
  <2>5. \A i \in DOMAIN notes : ~(notes[i].kind = "ai" /\ notes[i].text # "none")
    BY <2>2
  <2> QED
    BY <2>1, <2>3, <2>4, <2>5, GoesOn
<1>5. CASE Act
  <2>1. PICK seen \in SUBSET {"reply"} :
          /\ seen # {} => RepliesCalled # {}
          /\ BreakOff(seen) \/ ActGoesOn(seen)
    BY <1>0, <1>5, ActDoes
  <2>2. CASE BreakOff(seen)
    BY <2>2, BreakOffTells
  <2>3. CASE ActGoesOn(seen)
    <3>1. PICK r \in Seq(Messages) :
            (\A i \in DOMAIN r : r[i].kind = "tool") /\ msgs' = msgs \o r
      BY <2>3 DEF ActGoesOn
    <3>2. /\ pc \in Nodes /\ pc' \in Nodes /\ told' = told \cup seen
          /\ UNCHANGED <<turn, source, mode, broken>>
      BY <1>5, <2>3 DEF Act, ActGoesOn, Nodes, turnVars
    <3>3. \A i \in DOMAIN r : ~(r[i].kind = "ai" /\ r[i].text # "none")
      BY <3>1
    <3> QED
      BY <2>1, <3>1, <3>2, <3>3, GoesOn
  <2> QED
    BY <2>1, <2>2, <2>3
<1>6. CASE Finalize
  BY <1>6, FinalizeTells
<1>7. CASE GraphFails
  BY <1>7, BreakOffTells DEF GraphFails
<1>8. CASE Save \/ SaveFinal
  <2>1. /\ UNCHANGED <<turn, source, inherited, mode, msgs, final, told, ended, called, broken>>
        /\ pc' = pc \/ (pc = "save" /\ pc' = "respond")
    BY <1>8 DEF Save, SaveFinal, turnVars, runVars, outVars
  <2> QED
    BY <2>1, QuietStep
<1>9. CASE RunFails
  BY <1>9, BrokenEndTells DEF RunFails
<1>10. CASE Respond
  BY <1>10, RespondTells
<1>11. ASSUME NEW how \in {"cancelled", "crashed"}, Cut(how) PROVE SilentOK' /\ OneWayOK'
  BY <1>11, BrokenEndTells DEF Cut
<1>12. CASE BrowserStep
  <2>1. PICK id \in tasks : ResultUnknown(id) \/ ResultWaits(id) \/ ResultResumes(id)
    BY <1>12 DEF BrowserStep
  <2>2. CASE ResultUnknown(id) \/ ResultWaits(id)
    <3>1. UNCHANGED <<turn, source, inherited, mode, msgs, final, told, ended, called, broken, pc>>
      BY <2>2 DEF ResultUnknown, ResultWaits, turnVars, runVars, outVars
    <3> QED
      BY <3>1, QuietStep
  <2>3. CASE ResultResumes(id)
    BY <2>3, StartTells DEF ResultResumes
  <2> QED
    BY <2>1, <2>2, <2>3
<1>13. CASE UNCHANGED vars
  <2>1. UNCHANGED <<turn, source, inherited, mode, msgs, final, told, ended, called, broken, pc>>
    BY <1>13 DEF vars, turnVars, runVars, outVars
  <2> QED
    BY <2>1, QuietStep
<1> QED
  BY <1>1, <1>2, <1>3, <1>4, <1>5, <1>6, <1>7, <1>8, <1>9, <1>10, <1>11, <1>12, <1>13
  DEF Next, TurnStep

LEMMA TurnInvStep == TurnInv /\ [Next]_vars => TurnInv'
  BY TypesStep, TellsStep DEF TurnInv

\* No turn runs to its end in silence unless a reply tool was called, in it or
\* in the history it started from, whatever the model answers and wherever a
\* run breaks off, is repeated or is cancelled.
THEOREM SilenceExplained == Spec => []SilenceIsExplained
<1>1. TurnInv => SilenceIsExplained
  BY DEF TurnInv, SilentOK
<1> QED
  BY <1>1, TurnInvInit, TurnInvStep, PTL DEF Spec

\* A turn whose run was not broken off is answered in one way.
THEOREM AnsweredOnce == Spec => []AnsweredOneWay
<1>1. TurnInv => AnsweredOneWay
  BY DEF TurnInv, OneWayOK
<1> QED
  BY <1>1, TurnInvInit, TurnInvStep, PTL DEF Spec

-----------------------------------------------------------------------------
(* The history a turn leaves                                               *)

Records ==
    [kind : {"user", "text", "file", "result", "calls"}, calls : SUBSET Nat,
     replies : SUBSET Nat, answers : Nat \cup {NoCall}, task : {"none", "requested", "success"}]

IdsOf(m) == {c.id : c \in CallsOf(m)}

\* The messages of the log are of this conversation: only messages with calls
\* have some, and every id was given out.
LogOK ==
    /\ log \in Seq(Records)
    /\ \A i \in DOMAIN log :
         /\ log[i].calls # {} => log[i].kind = "calls"
         /\ \A c \in log[i].calls : c < nextId
         /\ log[i].answers # NoCall => log[i].answers < nextId

\* A result stands behind the message with its call, with only results between.
PairsOK ==
    \A i, j \in DOMAIN log :
        log[j].kind = "result" /\ log[j].answers \in log[i].calls =>
            i < j /\ \A k \in DOMAIN log : i < k /\ k < j => log[k].kind = "result"

\* So it does in a run, whose messages have calls of their own.
RunOK ==
    /\ \A p \in DOMAIN msgs : \A c \in IdsOf(msgs[p]) : c < nextId
    /\ \A p, q \in DOMAIN msgs : p # q => IdsOf(msgs[p]) \cap IdsOf(msgs[q]) = {}
    /\ \A q \in DOMAIN msgs : msgs[q].kind = "tool" =>
         /\ \E p \in DOMAIN msgs :
              /\ p < q /\ [id |-> msgs[q].id, tool |-> msgs[q].tool] \in CallsOf(msgs[p])
              /\ \A k \in DOMAIN msgs : p < k /\ k < q => msgs[k].kind = "tool"
         /\ msgs[q].outcome = "final" => msgs[q].tool = "reply"

\* The log knows nothing of the calls of messages that are not saved yet.
UnsavedOK ==
    \A p \in DOMAIN msgs, i \in DOMAIN log : p > saved =>
        IdsOf(msgs[p]) \cap log[i].calls = {} /\ log[i].answers \notin IdsOf(msgs[p])

\* While results are saved, nothing else is behind the message with their calls.
SavingOK ==
    \A q \in DOMAIN msgs, i \in DOMAIN log :
        q > saved /\ msgs[q].kind = "tool" /\ msgs[q].id \in log[i].calls =>
            \A k \in DOMAIN log : i < k => log[k].kind = "result"

SavedOK ==
    /\ pc \notin {"save", "respond"} => saved = 0
    /\ pc = "idle" => msgs = <<>>
    /\ pc = "respond" => saved = Len(msgs)
    /\ saved <= Len(msgs)

HistoryInv == LogOK /\ PairsOK /\ RunOK /\ UnsavedOK /\ SavingOK /\ SavedOK

LEMMA StoredIsRecord ==
    ASSUME NEW kind \in {"user", "text", "file", "result", "calls"},
           NEW calls \in SUBSET [id : Nat, tool : Tools],
           NEW id \in Nat \cup {NoCall}, NEW task \in {"none", "requested", "success"}
    PROVE  LET r == Stored(kind, calls, id, task) IN
           /\ r \in Records /\ r.kind = kind /\ r.answers = id /\ r.task = task
           /\ r.calls = {c.id : c \in calls} /\ calls = {} => r.calls = {}
BY DEF Stored, Records

\* A record without a word about calls.
Quiet(r) == r \in Records /\ r.calls = {} /\ r.answers = NoCall

LEMMA PlainRecords ==
    /\ Quiet(UserText) /\ UserText.kind = "user"
    /\ Quiet(BotText) /\ BotText.kind = "text"
    /\ Quiet(FileRecord) /\ FileRecord.kind = "file"
    /\ \A tool \in Tools, id \in Nat \cup {NoCall} : LET r == ResultOf(tool, id) IN
         /\ r \in Records /\ r.kind = "result" /\ r.answers = id /\ r.calls = {}
         /\ tool = "browse" => r.task = "requested"
<1>1. ASSUME NEW kind \in {"user", "text", "file", "result"}, NEW id \in Nat \cup {NoCall},
             NEW task \in {"none", "requested"}
      PROVE  Stored(kind, {}, id, task) =
               [kind |-> kind, calls |-> {}, replies |-> {}, answers |-> id, task |-> task]
  <2>1. {c.id : c \in {}} = {} /\ {c.id : c \in {d \in {} : d.tool = "reply"}} = {}
    OBVIOUS
  <2> QED
    BY <2>1 DEF Stored
<1>2. ASSUME NEW kind \in {"user", "text", "file"}
      PROVE  Quiet(Stored(kind, {}, NoCall, "none")) /\ Stored(kind, {}, NoCall, "none").kind = kind
  <2>1. Stored(kind, {}, NoCall, "none") =
          [kind |-> kind, calls |-> {}, replies |-> {}, answers |-> NoCall, task |-> "none"]
    BY <1>1, <1>2
  <2> QED
    BY <2>1 DEF Quiet, Records
<1>3. ASSUME NEW task \in {"none", "requested"}, NEW id \in Nat \cup {NoCall}
      PROVE  LET r == Stored("result", {}, id, task) IN
             /\ r \in Records /\ r.kind = "result" /\ r.answers = id /\ r.calls = {}
             /\ r.task = task
  <2>1. Stored("result", {}, id, task) =
          [kind |-> "result", calls |-> {}, replies |-> {}, answers |-> id, task |-> task]
    BY <1>1, <1>3
  <2> QED
    BY <2>1 DEF Records
<1>4. ASSUME NEW tool \in Tools, NEW id \in Nat \cup {NoCall}
      PROVE  LET r == ResultOf(tool, id) IN
             /\ r \in Records /\ r.kind = "result" /\ r.answers = id /\ r.calls = {}
             /\ tool = "browse" => r.task = "requested"
  BY <1>3 DEF ResultOf
<1> QED
  BY <1>2, <1>4 DEF UserText, BotText, FileRecord

\* What a log is when records are added to it.
LEMMA Grown ==
    ASSUME NEW l \in Seq(Records), NEW r \in Seq(Records), NEW m, m = l \o r
    PROVE  /\ m \in Seq(Records) /\ DOMAIN l \subseteq DOMAIN m
           /\ \A i \in DOMAIN l : m[i] = l[i]
           /\ \A i \in DOMAIN m : i \in DOMAIN l \/ \E k \in DOMAIN r : m[i] = r[k]
           /\ \A i \in DOMAIN l, j \in DOMAIN m : j \notin DOMAIN l => i < j
           /\ DOMAIN l \subseteq Nat /\ DOMAIN m \subseteq Nat
           /\ \A i, j \in DOMAIN m : i < j /\ j \in DOMAIN l => i \in DOMAIN l
<1> DEFINE a == Len(l)
           b == Len(r)
<1>1. /\ a \in Nat /\ b \in Nat /\ DOMAIN l = 1..a /\ DOMAIN r = 1..b
      /\ m \in Seq(Records) /\ DOMAIN m = 1..(a + b)
      /\ \A i \in 1..a : m[i] = l[i]
      /\ \A k \in 1..b : m[a + k] = r[k]
  OBVIOUS
<1> HIDE DEF a, b
<1>2. \A i \in 1..(a + b) : i \in 1..a \/ (i - a \in 1..b /\ i = a + (i - a))
  BY <1>1
<1>3. \A i \in 1..(a + b) : i \in 1..a \/ \E k \in 1..b : m[i] = r[k]
  BY <1>1, <1>2
<1>4. /\ 1..a \subseteq 1..(a + b) /\ 1..a \subseteq Nat /\ 1..(a + b) \subseteq Nat
      /\ \A i \in 1..a, j \in 1..(a + b) : j \notin 1..a => i < j
      /\ \A i, j \in 1..(a + b) : i < j /\ j \in 1..a => i \in 1..a
  BY <1>1
<1> QED
  BY <1>1, <1>3, <1>4

\* Records that say nothing of calls leave the log in order.
LEMMA QuietKeeps ==
    ASSUME LogOK, PairsOK, nextId \in Nat, nextId' \in Nat, nextId <= nextId',
           NEW r \in Seq(Records), \A k \in DOMAIN r : Quiet(r[k]), log' = log \o r
    PROVE  /\ LogOK' /\ PairsOK'
           /\ DOMAIN log \subseteq DOMAIN log' /\ \A i \in DOMAIN log : log'[i] = log[i]
           /\ \A i \in DOMAIN log' : i \in DOMAIN log \/ Quiet(log'[i])
<1>1. log \in Seq(Records)
  BY DEF LogOK
<1>2. /\ log' \in Seq(Records) /\ DOMAIN log \subseteq DOMAIN log'
      /\ \A i \in DOMAIN log : log'[i] = log[i]
      /\ \A i \in DOMAIN log' : i \in DOMAIN log \/ Quiet(log'[i])
      /\ \A i, j \in DOMAIN log' : i < j /\ j \in DOMAIN log => i \in DOMAIN log
  BY <1>1, Grown
<1>3. \A i \in DOMAIN log : log[i] \in Records
  BY <1>1
<1>4. LogOK'
  <2>1. ASSUME NEW i \in DOMAIN log'
        PROVE  /\ log'[i].calls # {} => log'[i].kind = "calls"
               /\ \A c \in log'[i].calls : c < nextId'
               /\ log'[i].answers # NoCall => log'[i].answers < nextId'
    <3>1. CASE i \in DOMAIN log
      <4>1. log[i].calls \subseteq Nat /\ log[i].answers \in Nat \cup {NoCall}
        BY <1>3, <3>1 DEF Records
      <4>2. \A c \in log[i].calls : c \in Nat /\ c < nextId
        BY <3>1, <4>1 DEF LogOK
      <4> QED
        BY <1>2, <3>1, <4>1, <4>2 DEF LogOK
    <3>2. CASE i \notin DOMAIN log
      BY <1>2, <3>2 DEF Quiet
    <3> QED
      BY <3>1, <3>2
  <2> QED
    BY <1>2, <2>1 DEF LogOK
<1>5. PairsOK'
  <2>1. ASSUME NEW i \in DOMAIN log', NEW j \in DOMAIN log',
               log'[j].kind = "result", log'[j].answers \in log'[i].calls
        PROVE  i \in DOMAIN log /\ j \in DOMAIN log
    <3>1. i \in DOMAIN log
      BY <1>2, <2>1 DEF Quiet
    <3>2. log'[i].calls \subseteq Nat
      BY <1>2, <1>3, <3>1 DEF Records
    <3> QED
      BY <1>2, <2>1, <3>1, <3>2, NoCallAssumption DEF Quiet
  <2>2. ASSUME NEW i \in DOMAIN log', NEW j \in DOMAIN log',
               log'[j].kind = "result", log'[j].answers \in log'[i].calls
        PROVE  i < j /\ \A k \in DOMAIN log' : i < k /\ k < j => log'[k].kind = "result"
    <3>1. i \in DOMAIN log /\ j \in DOMAIN log
      BY <2>1, <2>2
    <3>2. i < j /\ \A k \in DOMAIN log : i < k /\ k < j => log[k].kind = "result"
      BY <1>2, <2>2, <3>1 DEF PairsOK
    <3> QED
      BY <1>2, <3>1, <3>2
  <2> QED
    BY <2>2 DEF PairsOK
<1> QED
  BY <1>2, <1>4, <1>5

\* So does the mark of a result that came.
LEMMA MarkKeeps ==
    ASSUME LogOK, PairsOK, NEW id \in Nat
    PROVE  LET l == WithResult(id) IN
           /\ l \in Seq(Records) /\ DOMAIN l = DOMAIN log
           /\ \A i \in DOMAIN log : /\ l[i].kind = log[i].kind /\ l[i].calls = log[i].calls
                                    /\ l[i].answers = log[i].answers
                                    /\ log[i].answers # id => l[i] = log[i]
<1>1. log \in Seq(Records) /\ DOMAIN log = 1..Len(log) /\ Len(log) \in Nat
  BY DEF LogOK
<1>2. PICK l : l = WithResult(id)
  OBVIOUS
<1>3. DOMAIN l = DOMAIN log
  BY <1>2 DEF WithResult
<1>4. ASSUME NEW i \in DOMAIN log
      PROVE  /\ l[i] \in Records /\ l[i].kind = log[i].kind /\ l[i].calls = log[i].calls
             /\ l[i].answers = log[i].answers
             /\ log[i].answers # id => l[i] = log[i]
  <2>1. log[i] \in Records
    BY <1>1
  <2>2. l[i] = IF i \in Holding(id) THEN [log[i] EXCEPT !.task = "success"] ELSE log[i]
    BY <1>2 DEF WithResult
  <2> QED
    BY <2>1, <2>2 DEF Records, Holding
<1>5. l \in [1..Len(log) -> Records]
  BY <1>1, <1>2, <1>3, <1>4 DEF WithResult
<1>6. l \in Seq(Records)
  BY <1>1, <1>5, FunctionIsSeq
<1> QED
  BY <1>2, <1>3, <1>4, <1>6

LEMMA IdsAreNumbers ==
    ASSUME NEW m \in Messages
    PROVE  /\ IdsOf(m) \subseteq Nat /\ CallsOf(m) \subseteq [id : Nat, tool : Tools]
           /\ m.kind # "ai" => CallsOf(m) = {} /\ IdsOf(m) = {}
<1>1. CASE m.kind = "ai"
  <2>1. m.calls \in Seq([id : Nat, tool : Tools])
    BY <1>1, MessageKinds DEF CallSeqs
  <2>2. \A k \in DOMAIN m.calls : m.calls[k] \in [id : Nat, tool : Tools]
    BY <2>1, LenProperties, ElementOfSeq
  <2>3. CallsOf(m) \subseteq [id : Nat, tool : Tools]
    BY <1>1, <2>2 DEF CallsOf
  <2> QED
    BY <1>1, <2>3 DEF IdsOf
<1>2. CASE m.kind # "ai"
  BY <1>2 DEF CallsOf, IdsOf
<1> QED
  BY <1>1, <1>2

\* A run without messages is in order.
LEMMA NoRunIsOK ==
    ASSUME msgs' = <<>>
    PROVE  RunOK' /\ UnsavedOK' /\ SavingOK'
BY DEF RunOK, UnsavedOK, SavingOK

\* The messages a node adds to a run leave it in order, if their calls are new
\* and their results answer calls of the message before them.
LEMMA RunGrows ==
    ASSUME LogOK, RunOK, UnsavedOK, saved = 0, saved' = 0, nextId \in Nat, nextId' \in Nat,
           nextId <= nextId', msgs \in Seq(Messages), msgs' \in Seq(Messages),
           DOMAIN msgs \subseteq DOMAIN msgs', \A p \in DOMAIN msgs : msgs'[p] = msgs[p],
           \A p \in DOMAIN msgs, k \in DOMAIN msgs' : k < p => k \in DOMAIN msgs,
           \A p \in DOMAIN msgs' \ DOMAIN msgs : \A c \in IdsOf(msgs'[p]) :
               nextId <= c /\ c < nextId',
           \A p, q \in DOMAIN msgs' \ DOMAIN msgs : p # q => IdsOf(msgs'[p]) = {},
           \A q \in DOMAIN msgs' \ DOMAIN msgs : msgs'[q].kind = "tool" =>
               /\ \E p \in DOMAIN msgs' :
                    /\ p < q /\ [id |-> msgs'[q].id, tool |-> msgs'[q].tool] \in CallsOf(msgs'[p])
                    /\ \A k \in DOMAIN msgs' : p < k /\ k < q => msgs'[k].kind = "tool"
               /\ msgs'[q].outcome = "final" => msgs'[q].tool = "reply",
           DOMAIN log \subseteq DOMAIN log', \A i \in DOMAIN log : log'[i] = log[i],
           \A i \in DOMAIN log' : i \in DOMAIN log \/ Quiet(log'[i])
    PROVE  RunOK' /\ UnsavedOK' /\ SavingOK'
<1>1. \A p \in DOMAIN msgs' : IdsOf(msgs'[p]) \subseteq Nat /\ p \in Nat /\ p > 0
  <2>1. ASSUME NEW p \in DOMAIN msgs' PROVE msgs'[p] \in Messages /\ p \in Nat /\ p > 0
    BY <2>1
  <2> QED
    BY <2>1, IdsAreNumbers
<1>2. \A p \in DOMAIN msgs, c \in Nat : c \in IdsOf(msgs[p]) => c < nextId
  BY DEF RunOK
<1>3. \A p \in DOMAIN msgs' : \A c \in IdsOf(msgs'[p]) : c < nextId'
  <2> TAKE p \in DOMAIN msgs'
  <2> TAKE c \in IdsOf(msgs'[p])
  <2>1. c \in Nat
    BY <1>1
  <2>2. CASE p \in DOMAIN msgs
    BY <1>2, <2>1, <2>2
  <2>3. CASE p \notin DOMAIN msgs
    BY <2>3
  <2> QED
    BY <2>2, <2>3
<1>4. \A p, q \in DOMAIN msgs' : p # q => IdsOf(msgs'[p]) \cap IdsOf(msgs'[q]) = {}
  <2> SUFFICES ASSUME NEW p \in DOMAIN msgs', NEW q \in DOMAIN msgs', p # q,
                      NEW c \in Nat, c \in IdsOf(msgs'[p]), c \in IdsOf(msgs'[q])
               PROVE  FALSE
    BY <1>1
  <2>1. CASE p \in DOMAIN msgs /\ q \in DOMAIN msgs
    BY <2>1 DEF RunOK
  <2>2. CASE p \in DOMAIN msgs /\ q \notin DOMAIN msgs
    BY <1>2, <2>2
  <2>3. CASE p \notin DOMAIN msgs /\ q \in DOMAIN msgs
    BY <1>2, <2>3
  <2>4. CASE p \notin DOMAIN msgs /\ q \notin DOMAIN msgs
    BY <2>4
  <2> QED
    BY <2>1, <2>2, <2>3, <2>4
<1>5. \A q \in DOMAIN msgs' : msgs'[q].kind = "tool" =>
        /\ \E p \in DOMAIN msgs' :
             /\ p < q /\ [id |-> msgs'[q].id, tool |-> msgs'[q].tool] \in CallsOf(msgs'[p])
             /\ \A k \in DOMAIN msgs' : p < k /\ k < q => msgs'[k].kind = "tool"
        /\ msgs'[q].outcome = "final" => msgs'[q].tool = "reply"
  <2> TAKE q \in DOMAIN msgs'
  <2>1. CASE q \in DOMAIN msgs /\ msgs[q].kind = "tool"
    <3>1. PICK p \in DOMAIN msgs :
            /\ p < q /\ [id |-> msgs[q].id, tool |-> msgs[q].tool] \in CallsOf(msgs[p])
            /\ \A k \in DOMAIN msgs : p < k /\ k < q => msgs[k].kind = "tool"
      BY <2>1 DEF RunOK
    <3>2. \A k \in DOMAIN msgs' : p < k /\ k < q => msgs'[k].kind = "tool"
      BY <2>1, <3>1
    <3>3. msgs[q].outcome = "final" => msgs[q].tool = "reply"
      BY <2>1 DEF RunOK
    <3> QED
      BY <2>1, <3>1, <3>2, <3>3
  <2> QED
    BY <2>1
<1>6. RunOK'
  BY <1>3, <1>4, <1>5 DEF RunOK
<1>7. UnsavedOK'
  <2> SUFFICES ASSUME NEW p \in DOMAIN msgs', NEW i \in DOMAIN log'
               PROVE  /\ IdsOf(msgs'[p]) \cap log'[i].calls = {}
                      /\ log'[i].answers \notin IdsOf(msgs'[p])
    BY DEF UnsavedOK
  <2>1. CASE i \notin DOMAIN log
    BY <1>1, <2>1, NoCallAssumption DEF Quiet
  <2>2. CASE i \in DOMAIN log /\ p \in DOMAIN msgs
    BY <1>1, <2>2 DEF UnsavedOK
  <2>3. CASE i \in DOMAIN log /\ p \notin DOMAIN msgs
    <3>1. \A c \in Nat : c \in log[i].calls \/ c = log[i].answers => c < nextId
      BY <2>3, NoCallAssumption DEF LogOK
    <3> QED
      BY <1>1, <2>3, <3>1
  <2> QED
    BY <2>1, <2>2, <2>3
<1>8. SavingOK'
  <2> SUFFICES ASSUME NEW q \in DOMAIN msgs', NEW i \in DOMAIN log', msgs'[q].kind = "tool",
                      msgs'[q].id \in log'[i].calls
               PROVE  FALSE
    BY DEF SavingOK
  <2>1. PICK p \in DOMAIN msgs' : msgs'[q].id \in IdsOf(msgs'[p])
    <3>1. PICK p \in DOMAIN msgs' :
            [id |-> msgs'[q].id, tool |-> msgs'[q].tool] \in CallsOf(msgs'[p])
      BY <1>5
    <3>2. \A c \in CallsOf(msgs'[p]) : c.id \in IdsOf(msgs'[p])
      BY DEF IdsOf
    <3> QED
      BY <3>1, <3>2
  <2> QED
    BY <1>1, <1>7, <2>1 DEF UnsavedOK
<1> QED
  BY <1>6, <1>7, <1>8

\* A message stays where it is in a run.
LEMMA Longer ==
    ASSUME msgs \in Seq(Messages), NEW r \in Seq(Messages), msgs' = msgs \o r
    PROVE  /\ msgs' \in Seq(Messages) /\ DOMAIN msgs \subseteq DOMAIN msgs'
           /\ \A p \in DOMAIN msgs : msgs'[p] = msgs[p]
           /\ \A p \in DOMAIN msgs, k \in DOMAIN msgs' : k < p => k \in DOMAIN msgs
           /\ \A q \in DOMAIN msgs' \ DOMAIN msgs :
                /\ q \in Nat /\ q > Len(msgs) /\ q - Len(msgs) \in DOMAIN r
                /\ msgs'[q] = r[q - Len(msgs)]
           /\ Len(msgs) \in Nat /\ DOMAIN msgs = 1..Len(msgs) /\ DOMAIN msgs' \subseteq Nat
<1> DEFINE a == Len(msgs)
           b == Len(r)
<1>1. /\ a \in Nat /\ b \in Nat /\ DOMAIN msgs = 1..a /\ DOMAIN r = 1..b
      /\ msgs' \in Seq(Messages) /\ DOMAIN msgs' = 1..(a + b)
      /\ \A i \in 1..a : msgs'[i] = msgs[i]
      /\ \A k \in 1..b : msgs'[a + k] = r[k]
  OBVIOUS
<1> HIDE DEF a, b
<1>2. \A i \in 1..(a + b) : i \notin 1..a => i - a \in 1..b /\ i = a + (i - a) /\ i > a
  BY <1>1
<1>3. \A i \in 1..(a + b) : i \notin 1..a => msgs'[i] = r[i - a]
  BY <1>1, <1>2
<1>4. 1..a \subseteq 1..(a + b) /\ 1..(a + b) \subseteq Nat /\ \A p \in 1..a, k \in 1..(a + b) : k < p => k \in 1..a
  BY <1>1
<1> QED
  BY <1>1, <1>2, <1>3, <1>4 DEF a

\* What a step may do besides: records without calls, no run, no saving.
StepsAside == \E r \in Seq(Records) : (\A k \in DOMAIN r : Quiet(r[k])) /\ log' = log \o r

LEMMA NothingAside == LogOK /\ UNCHANGED log => StepsAside
<1> SUFFICES ASSUME LogOK, UNCHANGED log
             PROVE  StepsAside
  OBVIOUS
<1>1. <<>> \in Seq(Records) /\ log' = log \o <<>> /\ \A k \in DOMAIN <<>> : FALSE
  BY DEF LogOK
<1> QED
  BY <1>1 DEF StepsAside

LEMMA OneAside ==
    ASSUME LogOK, NEW m, Quiet(m), log' = Append(log, m)
    PROVE  StepsAside
<1>1. m \in Records
  BY DEF Quiet
<1>2. <<m>> \in Seq(Records) /\ log' = log \o <<m>> /\ \A k \in DOMAIN <<m>> : <<m>>[k] = m
  BY <1>1 DEF LogOK
<1> QED
  BY <1>2 DEF StepsAside

\* A step that ends or begins a run.
LEMMA NoRunKeeps ==
    ASSUME TypeOK, TypeOK', HistoryInv, nextId <= nextId', StepsAside,
           msgs' = <<>>, saved' = 0, pc' # "respond"
    PROVE  HistoryInv'
<1>1. LogOK' /\ PairsOK'
  BY QuietKeeps DEF HistoryInv, StepsAside, TypeOK
<1>2. SavedOK'
  BY DEF SavedOK
<1> QED
  BY <1>1, <1>2, NoRunIsOK DEF HistoryInv

LEMMA EndTurnHistory ==
    ASSUME TypeOK, TypeOK', HistoryInv, UNCHANGED <<log, nextId>>,
           NEW how, NEW seen, EndTurn(how, seen)
    PROVE  HistoryInv'
<1>1. StepsAside
  BY NothingAside DEF HistoryInv
<1> QED
  BY <1>1, NoRunKeeps DEF EndTurn, TypeOK

LEMMA BreakOffHistory ==
    ASSUME TypeOK, TypeOK', HistoryInv, StepsAside, pc \in Nodes, nextId' = nextId,
           NEW seen, BreakOff(seen)
    PROVE  HistoryInv'
<1>1. msgs' = <<>> /\ saved' = 0 /\ pc' \in {"agent", "idle"}
  BY DEF BreakOff, EndTurn, HistoryInv, SavedOK, Nodes
<1> QED
  BY <1>1, NoRunKeeps DEF TypeOK

LEMMA StartHistory ==
    ASSUME TypeOK, TypeOK', HistoryInv, nextId' = nextId,
           NEW src, NEW wants, Start(src, wants, log)
    PROVE  HistoryInv'
<1>1. StepsAside
  BY OneAside, NothingAside, PlainRecords DEF Start, HistoryInv
<1> QED
  BY <1>1, NoRunKeeps DEF Start, TypeOK

\* The agent node: its calls get new ids.
LEMMA AgentHistory ==
    ASSUME TypeOK, TypeOK', PlaceOK, HistoryInv, Agent
    PROVE  HistoryInv'
<1>1. PICK a \in Answers :
        /\ a.text \in Texts /\ Len(a.calls) \in Nat
        /\ AIMessage(a.text, WithIds(a.calls)) \in Messages
        /\ msgs' = msgs \o <<AIMessage(a.text, WithIds(a.calls))>>
        /\ <<AIMessage(a.text, WithIds(a.calls))>> \in Seq(Messages)
        /\ nextId' = nextId + Len(a.calls)
  BY AgentAdds
<1>2. a.calls \in Seq(Tools) /\ DOMAIN a.calls = 1..Len(a.calls)
  BY AnswersAssumption
<1>3. PICK m \in Messages : m = AIMessage(a.text, WithIds(a.calls))
  BY <1>1
<1>4. msgs' = msgs \o <<m>> /\ <<m>> \in Seq(Messages) /\ DOMAIN <<m>> = {1} /\ <<m>>[1] = m
  BY <1>1, <1>3
<1>5. nextId \in Nat /\ nextId' \in Nat /\ nextId <= nextId' /\ msgs \in Seq(Messages)
  BY <1>1 DEF TypeOK
<1>6. \A c \in IdsOf(m) : nextId <= c /\ c < nextId'
  <2>1. m.kind = "ai" /\ m.calls = WithIds(a.calls)
    BY <1>3 DEF AIMessage
  <2>2. \A k \in DOMAIN m.calls : k \in 1..Len(a.calls) /\ m.calls[k].id = nextId + k - 1
    BY <1>2, <2>1 DEF WithIds
  <2>3. \A c \in IdsOf(m) : \E k \in DOMAIN m.calls : c = m.calls[k].id
    BY <2>1 DEF IdsOf, CallsOf
  <2>4. \A k \in 1..Len(a.calls) : nextId <= nextId + k - 1 /\ nextId + k - 1 < nextId'
    BY <1>1, <1>5
  <2> QED
    BY <2>2, <2>3, <2>4
<1>7. \A q \in DOMAIN msgs' \ DOMAIN msgs : q = Len(msgs) + 1 /\ msgs'[q] = m
  <2> TAKE q \in DOMAIN msgs' \ DOMAIN msgs
  <2>1. q \in Nat /\ Len(msgs) \in Nat /\ q - Len(msgs) \in {1} /\ msgs'[q] = <<m>>[q - Len(msgs)]
    BY <1>4, <1>5, Longer
  <2> QED
    BY <1>4, <2>1
<1>8. m.kind = "ai"
  BY <1>3 DEF AIMessage
<1>9. saved = 0 /\ saved' = 0 /\ UNCHANGED log /\ pc = "agent" /\ pc' = "router"
  BY DEF Agent, HistoryInv, SavedOK
<1>10. RunOK' /\ UnsavedOK' /\ SavingOK'
  BY <1>4, <1>5, <1>6, <1>7, <1>8, <1>9, Longer, RunGrows DEF HistoryInv
<1>11. LogOK' /\ PairsOK'
  BY <1>5, <1>9, NothingAside, QuietKeeps DEF HistoryInv, StepsAside
<1>12. SavedOK'
  BY <1>9, Longer, <1>4, <1>5, LenProperties DEF SavedOK
<1> QED
  BY <1>10, <1>11, <1>12 DEF HistoryInv

\* A note brings no calls.
LEMMA NotesHistory ==
    ASSUME TypeOK, TypeOK', HistoryInv, NEW notes \in {<<>>, <<Note>>}, msgs' = msgs \o notes,
           UNCHANGED <<log, saved, nextId>>, pc \in Nodes, pc' \in Nodes
    PROVE  HistoryInv'
<1>1. notes \in Seq(Messages) /\ \A k \in DOMAIN notes : notes[k] = Note
  <2>1. CASE notes = <<>>
    BY <2>1, NotesAreMessages
  <2>2. CASE notes = <<Note>>
    BY <2>2, NotesAreMessages
  <2> QED
    BY <2>1, <2>2
<1>2. /\ msgs \in Seq(Messages) /\ nextId \in Nat /\ nextId' = nextId
      /\ saved = 0 /\ saved' = 0
  BY DEF TypeOK, HistoryInv, SavedOK, Nodes
<1>3. Note.kind = "note" /\ IdsOf(Note) = {}
  BY MessageKinds, IdsAreNumbers
<1>4. \A q \in DOMAIN msgs' \ DOMAIN msgs : msgs'[q] = Note
  BY <1>1, <1>2, Longer
<1>5. RunOK' /\ UnsavedOK' /\ SavingOK'
  BY <1>1, <1>2, <1>3, <1>4, Longer, RunGrows DEF HistoryInv
<1>6. LogOK' /\ PairsOK'
  <2>1. StepsAside /\ LogOK /\ PairsOK
    BY NothingAside DEF HistoryInv
  <2>2. nextId' \in Nat /\ nextId <= nextId'
    BY <1>2
  <2> QED
    BY <1>2, <2>1, <2>2, QuietKeeps DEF StepsAside
<1>7. SavedOK'
  BY <1>1, <1>2, Longer, LenProperties DEF SavedOK, Nodes
<1> QED
  BY <1>5, <1>6, <1>7 DEF HistoryInv

\* The action node: results behind the message with their calls.
LEMMA ActHistory ==
    ASSUME TypeOK, TypeOK', PlaceOK, HistoryInv, Act
    PROVE  HistoryInv'
<1> DEFINE calls == LastOf(msgs).calls
           Record(f, stored, k) == WrittenByTool(calls[k], f[k], stored)
<1>1. PICK f \in [DOMAIN calls -> Outs], stored \in BOOLEAN :
        /\ \A k \in DOMAIN calls : f[k] \in Outcomes(calls[k].tool)
        /\ \E order \in SetToSeqs({k \in DOMAIN calls : Record(f, stored, k) # Nothing}) :
             log' = log \o [n \in DOMAIN order |-> Record(f, stored, order[n])]
        /\ \/ \E seen : BreakOff(seen)
           \/ /\ \A k \in DOMAIN calls : f[k] # "raise"
              /\ msgs' = msgs \o [k \in DOMAIN calls |-> ToolMessage(calls[k], f[k])]
              /\ pc' = "router" /\ saved' = saved
  BY DEF Act, Outs
<1>2. /\ calls \in CallSeqs
      /\ \A k \in DOMAIN calls : calls[k].id \in Nat /\ calls[k].tool \in Tools
      /\ \A k \in DOMAIN calls : calls[k] = [id |-> calls[k].id, tool |-> calls[k].tool]
  <2>1. calls \in CallSeqs
    BY ActCalls DEF Act
  <2>2. \A q \in CallSeqs : \A k \in DOMAIN q : q[k] \in [id : Nat, tool : Tools]
    BY LenProperties, ElementOfSeq DEF CallSeqs
  <2> QED
    BY <2>1, <2>2
<1>3. /\ Len(msgs) \in DOMAIN msgs /\ LastOf(msgs) = msgs[Len(msgs)] /\ msgs[Len(msgs)].kind = "ai"
      /\ \A k \in DOMAIN calls : calls[k] \in CallsOf(msgs[Len(msgs)])
  <2>1. /\ Len(msgs) \in DOMAIN msgs /\ LastOf(msgs) = msgs[Len(msgs)] /\ LastOf(msgs).kind = "ai"
    BY LastIsMessage DEF TypeOK, PlaceOK, Act
  <2> QED
    BY <2>1 DEF CallsOf
<1>4. pc = "action" /\ saved = 0 /\ nextId' = nextId /\ nextId \in Nat /\ msgs \in Seq(Messages)
  BY DEF Act, HistoryInv, SavedOK, TypeOK
<1>5. Len(calls) \in Nat /\ DOMAIN calls = 1..Len(calls)
  BY <1>2, LenProperties DEF CallSeqs
<1> HIDE DEF calls
<1>6. StepsAside
  <2>1. PICK order \in SetToSeqs({k \in DOMAIN calls : Record(f, stored, k) # Nothing}) :
          log' = log \o [n \in DOMAIN order |-> Record(f, stored, order[n])]
    BY <1>1
  <2>2. PICK n \in Nat : DOMAIN order = 1..n
    <3>1. IsFiniteSet(DOMAIN calls)
      BY <1>5, FS_Interval
    <3>2. Cardinality({k \in DOMAIN calls : Record(f, stored, k) # Nothing}) \in Nat
      BY <3>1, FS_Subset, FS_CardinalityType
    <3> QED
      BY <3>2 DEF SetToSeqs
  <2>3. \A j \in DOMAIN order : /\ order[j] \in DOMAIN calls
                                /\ Record(f, stored, order[j]) # Nothing
    BY DEF SetToSeqs
  <2>4. ASSUME NEW k \in DOMAIN calls, Record(f, stored, k) # Nothing
        PROVE  Quiet(Record(f, stored, k))
    BY <1>2, <2>4, PlainRecords DEF WrittenByTool, Quiet
  <2>5. PICK r : r = [j \in DOMAIN order |-> Record(f, stored, order[j])]
    OBVIOUS
  <2>6. \A j \in DOMAIN order : Quiet(r[j])
    BY <2>3, <2>4, <2>5
  <2>7. r \in [1..n -> Records]
    BY <2>2, <2>5, <2>6 DEF Quiet
  <2> QED
    BY <2>1, <2>2, <2>5, <2>6, <2>7, FunctionIsSeq DEF StepsAside
<1>7. CASE \E seen : BreakOff(seen)
  BY <1>4, <1>6, <1>7, BreakOffHistory DEF Nodes
<1>8. CASE ~\E seen : BreakOff(seen)
  <2>1. PICK r : r = [k \in DOMAIN calls |-> ToolMessage(calls[k], f[k])]
    OBVIOUS
  <2>2. /\ \A k \in DOMAIN calls : f[k] # "raise"
        /\ msgs' = msgs \o r /\ pc' = "router" /\ saved' = 0
    BY <1>1, <1>4, <1>8, <2>1
  <2>3. \A k \in DOMAIN calls :
          /\ r[k] \in Messages /\ r[k].kind = "tool" /\ r[k].id = calls[k].id
          /\ r[k].tool = calls[k].tool /\ r[k].outcome = f[k]
    BY <1>1, <1>2, <2>1, <2>2 DEF ToolMessage, Messages
  <2>4. r \in Seq(Messages) /\ DOMAIN r = DOMAIN calls
    <3>1. r \in [1..Len(calls) -> Messages]
      BY <1>5, <2>1, <2>3
    <3> QED
      BY <1>5, <3>1, FunctionIsSeq
  <2>5. \A q \in DOMAIN msgs' \ DOMAIN msgs :
          /\ q \in Nat /\ q > Len(msgs) /\ q - Len(msgs) \in DOMAIN calls
          /\ msgs'[q] = r[q - Len(msgs)]
    BY <1>4, <2>2, <2>4, Longer
  <2>6. Len(msgs) \in DOMAIN msgs' /\ msgs'[Len(msgs)] = msgs[Len(msgs)] /\ Len(msgs) \in Nat
    BY <1>3, <1>4, <2>2, <2>4, Longer
  <2>7. \A q \in DOMAIN msgs' \ DOMAIN msgs :
          /\ msgs'[q].kind = "tool" /\ msgs'[q] \in Messages
          /\ [id |-> msgs'[q].id, tool |-> msgs'[q].tool] \in CallsOf(msgs[Len(msgs)])
          /\ msgs'[q].outcome \in Outcomes(msgs'[q].tool) /\ msgs'[q].tool \in Tools
    BY <1>1, <1>2, <1>3, <2>3, <2>5
  <2>8. \A q \in DOMAIN msgs' \ DOMAIN msgs : IdsOf(msgs'[q]) = {}
    BY <2>7, IdsAreNumbers
  <2>9. \A q \in DOMAIN msgs' \ DOMAIN msgs : msgs'[q].outcome = "final" => msgs'[q].tool = "reply"
    BY <2>7 DEF Outcomes, Tools
  <2>10. \A q \in DOMAIN msgs' \ DOMAIN msgs :
           \A k \in DOMAIN msgs' : Len(msgs) < k /\ k < q => msgs'[k].kind = "tool"
    <3>1. \A k \in DOMAIN msgs' : Len(msgs) < k => k \notin DOMAIN msgs
      BY <1>4, <2>2, <2>4, Longer
    <3> QED
      BY <2>7, <3>1
  <2>11. \A q \in DOMAIN msgs' \ DOMAIN msgs :
           \E p \in DOMAIN msgs' :
             /\ p < q /\ [id |-> msgs'[q].id, tool |-> msgs'[q].tool] \in CallsOf(msgs'[p])
             /\ \A k \in DOMAIN msgs' : p < k /\ k < q => msgs'[k].kind = "tool"
    BY <2>5, <2>6, <2>7, <2>10
  <2>12. /\ LogOK' /\ PairsOK'
         /\ DOMAIN log \subseteq DOMAIN log' /\ \A i \in DOMAIN log : log'[i] = log[i]
         /\ \A i \in DOMAIN log' : i \in DOMAIN log \/ Quiet(log'[i])
    BY <1>4, <1>6, QuietKeeps DEF HistoryInv, StepsAside
  <2>13. RunOK' /\ UnsavedOK' /\ SavingOK'
    <3>1. \A p \in DOMAIN msgs' \ DOMAIN msgs : \A c \in IdsOf(msgs'[p]) :
            nextId <= c /\ c < nextId'
      BY <2>8
    <3>2. /\ msgs' \in Seq(Messages)
          /\ DOMAIN msgs \subseteq DOMAIN msgs' /\ \A p \in DOMAIN msgs : msgs'[p] = msgs[p]
          /\ \A p \in DOMAIN msgs, k \in DOMAIN msgs' : k < p => k \in DOMAIN msgs
      BY <1>4, <2>2, <2>4, Longer
    <3>3. LogOK /\ RunOK /\ UnsavedOK
      BY DEF HistoryInv
    <3>4. nextId' \in Nat /\ nextId <= nextId'
      BY <1>4
    <3> QED
      BY <1>4, <2>2, <2>8, <2>9, <2>11, <2>12, <3>1, <3>2, <3>3, <3>4, RunGrows
  <2>14. SavedOK'
    BY <2>2, <2>4, Longer, <1>4, LenProperties DEF SavedOK
  <2> QED
    BY <2>12, <2>13, <2>14 DEF HistoryInv
<1> QED
  BY <1>7, <1>8

\* What update_history stores of a message of the run.
LEMMA StoredAsWhat ==
    ASSUME TypeOK, HistoryInv, NEW i \in DOMAIN msgs, StoredAs(i) # Nothing
    PROVE  /\ StoredAs(i) \in Records
           /\ \/ Quiet(StoredAs(i)) /\ StoredAs(i).kind # "result" /\ msgs[i].kind = "ai"
              \/ /\ StoredAs(i).kind = "calls" /\ StoredAs(i).answers = NoCall
                 /\ StoredAs(i).calls = IdsOf(msgs[i]) /\ msgs[i].kind = "ai"
              \/ /\ msgs[i].kind = "tool" /\ StoredAs(i).kind = "result"
                 /\ StoredAs(i).calls = {} /\ StoredAs(i).answers = msgs[i].id
<1> DEFINE m == msgs[i]
<1>1. m \in Messages
  BY DEF TypeOK
<1>2. CASE m.kind = "ai" /\ m.calls # <<>> /\ ~(i = Len(msgs) /\ final # "empty")
  <2>1. StoredAs(i) = Stored("calls", CallsOf(m), NoCall, "none")
    BY <1>2 DEF StoredAs
  <2>2. CallsOf(m) \in SUBSET [id : Nat, tool : Tools]
    BY <1>1, IdsAreNumbers
  <2> QED
    <3>1. PICK cs \in SUBSET [id : Nat, tool : Tools] : cs = CallsOf(m)
      BY <2>2
    <3>2. LET r == Stored("calls", cs, NoCall, "none") IN
          r \in Records /\ r.kind = "calls" /\ r.answers = NoCall /\ r.calls = {c.id : c \in cs}
      <4>1. {c.id : c \in cs} \subseteq Nat /\ {c.id : c \in {d \in cs : d.tool = "reply"}} \subseteq Nat
        OBVIOUS
      <4> QED
        BY <4>1 DEF Stored, Records
    <3> QED
      BY <1>2, <2>1, <3>1, <3>2 DEF IdsOf
<1>3. CASE m.kind = "ai" /\ m.calls = <<>> /\ m.text # "none" /\ ~(i = Len(msgs) /\ final # "empty")
  <2>1. StoredAs(i) = BotText
    BY <1>3 DEF StoredAs
  <2> QED
    BY <1>3, <2>1, PlainRecords DEF Quiet
<1>4. CASE m.kind = "tool" /\ ~(i = Len(msgs) /\ final # "empty")
  <2>1. StoredAs(i) = ResultOf(m.tool, m.id)
    BY <1>4 DEF StoredAs
  <2>2. m.tool \in Tools /\ m.id \in Nat
    BY <1>1, <1>4 DEF Messages, Note
  <2> QED
    BY <1>4, <2>1, <2>2, PlainRecords
<1>5. \/ m.kind = "ai" /\ m.calls # <<>> /\ ~(i = Len(msgs) /\ final # "empty")
      \/ m.kind = "ai" /\ m.calls = <<>> /\ m.text # "none" /\ ~(i = Len(msgs) /\ final # "empty")
      \/ m.kind = "tool" /\ ~(i = Len(msgs) /\ final # "empty")
  BY DEF StoredAs
<1> QED
  BY <1>2, <1>3, <1>4, <1>5

\* A message of the run is saved: its calls are new to the log, and its result
\* comes directly behind its calls and the other results.
LEMMA SaveHistory ==
    ASSUME TypeOK, TypeOK', HistoryInv, Save
    PROVE  HistoryInv'
<1> USE DEF HistoryInv
<1>1. /\ pc = "save" /\ saved < Len(msgs) /\ saved \in Nat /\ saved' = saved + 1
      /\ msgs' = msgs /\ pc' = pc /\ nextId' = nextId /\ nextId \in Nat
      /\ msgs \in Seq(Messages) /\ Len(msgs) \in Nat /\ DOMAIN msgs = 1..Len(msgs)
      /\ saved' \in DOMAIN msgs
  BY DEF Save, runVars, TypeOK
<1>2. PICK s : s = saved'
  OBVIOUS
<1>3. s \in DOMAIN msgs /\ s = saved + 1 /\ \A p \in DOMAIN msgs : p \in Nat /\ (p > s => p > saved)
  BY <1>1, <1>2
<1>4. RunOK' /\ SavedOK'
  <2>1. RunOK'
    BY <1>1 DEF RunOK
  <2> QED
    BY <1>1, <2>1 DEF SavedOK
<1>5. CASE UNCHANGED log
  <2>1. LogOK' /\ PairsOK'
    BY <1>1, <1>5 DEF LogOK, PairsOK
  <2>2. UnsavedOK' /\ SavingOK'
    BY <1>1, <1>2, <1>3, <1>5 DEF UnsavedOK, SavingOK
  <2> QED
    BY <1>4, <2>1, <2>2
<1>6. CASE log' # log
  <2>1. PICK m : m = StoredAs(s) /\ m # Nothing /\ log' = Append(log, m)
    BY <1>2, <1>6 DEF Save
  <2>2. /\ m \in Records
        /\ \/ Quiet(m) /\ m.kind # "result" /\ msgs[s].kind = "ai"
           \/ m.kind = "calls" /\ m.answers = NoCall /\ m.calls = IdsOf(msgs[s]) /\ msgs[s].kind = "ai"
           \/ /\ msgs[s].kind = "tool" /\ m.kind = "result" /\ m.calls = {}
              /\ m.answers = msgs[s].id
    BY <1>3, <2>1, StoredAsWhat
  <2>3. log \in Seq(Records)
    BY DEF LogOK
  <2>4. PICK n \in Nat : n = Len(log) + 1 /\ DOMAIN log = 1..(n - 1)
    BY <2>3
  <2>5. /\ log' \in Seq(Records) /\ DOMAIN log' = 1..n
        /\ log'[n] = m /\ \A i \in DOMAIN log : log'[i] = log[i]
    BY <2>1, <2>2, <2>3, <2>4
  <2>6. \A i \in DOMAIN log' : i \in DOMAIN log \/ i = n
    BY <2>4, <2>5
  <2>7. n \notin DOMAIN log /\ \A i \in DOMAIN log : i \in Nat /\ i < n
    BY <2>4
  <2>8. \A i \in DOMAIN log : log[i] \in Records
    BY <2>3
  <2>9. \A p \in DOMAIN msgs : IdsOf(msgs[p]) \subseteq Nat
    <3>1. \A p \in DOMAIN msgs : msgs[p] \in Messages
      BY <1>1
    <3> QED
      BY <3>1, IdsAreNumbers
  \* The message whose calls a result answers.
  <2>10. \A q \in DOMAIN msgs : msgs[q].kind = "tool" =>
           \E p \in DOMAIN msgs : /\ p < q /\ msgs[q].id \in IdsOf(msgs[p])
                                  /\ \A k \in DOMAIN msgs : p < k /\ k < q => msgs[k].kind = "tool"
    <3> TAKE q \in DOMAIN msgs
    <3> HAVE msgs[q].kind = "tool"
    <3>1. PICK p \in DOMAIN msgs :
            /\ p < q /\ [id |-> msgs[q].id, tool |-> msgs[q].tool] \in CallsOf(msgs[p])
            /\ \A k \in DOMAIN msgs : p < k /\ k < q => msgs[k].kind = "tool"
      BY DEF RunOK
    <3>2. \A c \in CallsOf(msgs[p]) : c.id \in IdsOf(msgs[p])
      BY DEF IdsOf
    <3> QED
      BY <3>1, <3>2
  \* A result behind the saved message that is not of one of its calls is of a
  \* message behind it, unless the saved one is a result too.
  <2>11. \A q \in DOMAIN msgs : msgs[q].kind = "tool" /\ q > s /\ msgs[s].kind # "tool" =>
           \E p \in DOMAIN msgs : p >= s /\ msgs[q].id \in IdsOf(msgs[p])
    BY <1>3, <2>10
  <2>12. msgs[s].kind = "tool" => \E p \in DOMAIN msgs : p < s /\ msgs[s].id \in IdsOf(msgs[p])
    BY <1>3, <2>10
  <2>13. \A i \in DOMAIN log : log'[n].kind = "result" /\ m.answers \in log[i].calls =>
           \A k \in DOMAIN log : i < k => log[k].kind = "result"
    <3> TAKE i \in DOMAIN log
    <3> HAVE log'[n].kind = "result" /\ m.answers \in log[i].calls
    <3>1. msgs[s].kind = "tool" /\ m.answers = msgs[s].id /\ s > saved
      BY <1>1, <1>3, <2>2, <2>5
    <3> QED
      BY <1>3, <3>1 DEF SavingOK
  <2>14. LogOK'
    <3>1. /\ m.calls # {} => m.kind = "calls"
          /\ \A c \in m.calls : c < nextId
          /\ m.answers # NoCall => m.answers < nextId
      BY <1>3, <2>2, <2>12 DEF Quiet, RunOK
    <3> QED
      BY <1>1, <2>5, <2>6, <3>1 DEF LogOK
  <2>15. PairsOK'
    <3> SUFFICES ASSUME NEW i \in DOMAIN log', NEW j \in DOMAIN log',
                        log'[j].kind = "result", log'[j].answers \in log'[i].calls
                 PROVE  i < j /\ \A k \in DOMAIN log' : i < k /\ k < j => log'[k].kind = "result"
      BY DEF PairsOK
    <3>1. CASE i \in DOMAIN log /\ j \in DOMAIN log
      <4>1. i < j /\ \A k \in DOMAIN log : i < k /\ k < j => log[k].kind = "result"
        BY <2>5, <3>1 DEF PairsOK
      <4>2. \A k \in DOMAIN log' : k < j => k \in DOMAIN log
        BY <2>4, <2>5, <3>1
      <4> QED
        BY <2>5, <4>1, <4>2
    <3>2. CASE i \in DOMAIN log /\ j = n
      <4>1. \A k \in DOMAIN log : i < k => log[k].kind = "result"
        BY <2>5, <2>13, <3>2
      <4>2. \A k \in DOMAIN log' : k < n => k \in DOMAIN log
        BY <2>4, <2>5
      <4> QED
        BY <2>5, <2>7, <3>2, <4>1, <4>2
    <3>3. CASE i = n /\ j \in DOMAIN log
      <4>1. m.calls = IdsOf(msgs[s]) \/ m.calls = {}
        BY <2>2 DEF Quiet
      <4>2. log[j].answers \notin IdsOf(msgs[s])
        BY <1>1, <1>3, <3>3 DEF UnsavedOK
      <4> QED
        BY <2>5, <3>3, <4>1, <4>2
    <3>4. CASE i = n /\ j = n
      <4>1. m.kind = "result" => m.calls = {}
        BY <2>2
      <4> QED
        BY <2>5, <3>4, <4>1
    <3> QED
      BY <2>6, <3>1, <3>2, <3>3, <3>4
  <2>16. UnsavedOK'
    <3> SUFFICES ASSUME NEW p \in DOMAIN msgs, NEW i \in DOMAIN log', p > s
                 PROVE  /\ IdsOf(msgs[p]) \cap log'[i].calls = {}
                        /\ log'[i].answers \notin IdsOf(msgs[p])
      BY <1>1, <1>2 DEF UnsavedOK
    <3>1. CASE i \in DOMAIN log
      BY <1>3, <2>5, <3>1 DEF UnsavedOK
    <3>2. CASE i = n
      <4>1. \A q \in DOMAIN msgs : q <= s => IdsOf(msgs[p]) \cap IdsOf(msgs[q]) = {}
        BY <1>3 DEF RunOK
      <4>2. IdsOf(msgs[p]) \cap IdsOf(msgs[s]) = {}
        BY <1>3, <4>1
      <4>3. msgs[s].kind = "tool" => msgs[s].id \notin IdsOf(msgs[p])
        BY <1>3, <2>12, <4>1
      <4>4. NoCall \notin IdsOf(msgs[p])
        BY <2>9, NoCallAssumption
      <4> QED
        BY <2>2, <2>5, <3>2, <4>2, <4>3, <4>4 DEF Quiet
    <3> QED
      BY <2>6, <3>1, <3>2
  <2>17. SavingOK'
    <3> SUFFICES ASSUME NEW q \in DOMAIN msgs, NEW i \in DOMAIN log', q > s,
                        msgs[q].kind = "tool", msgs[q].id \in log'[i].calls,
                        NEW k \in DOMAIN log', i < k
                 PROVE  log'[k].kind = "result"
      BY <1>1, <1>2 DEF SavingOK
    <3>1. i \in DOMAIN log
      BY <2>4, <2>5
    <3>2. CASE k \in DOMAIN log
      BY <1>3, <2>5, <3>1, <3>2 DEF SavingOK
    <3>3. CASE k = n /\ msgs[s].kind = "tool"
      <4>1. m.kind = "result"
        BY <2>2, <3>3
      <4> QED
        BY <2>5, <3>3, <4>1
    <3>4. CASE k = n /\ msgs[s].kind # "tool"
      <4>1. PICK p \in DOMAIN msgs : p >= s /\ msgs[q].id \in IdsOf(msgs[p])
        BY <2>11, <3>4
      <4>2. p > saved
        BY <1>1, <1>3, <4>1
      <4> QED
        BY <2>5, <3>1, <4>1, <4>2 DEF UnsavedOK
    <3> QED
      BY <2>6, <3>2, <3>3, <3>4
  <2> QED
    BY <1>4, <2>14, <2>15, <2>16, <2>17
<1> QED
  BY <1>5, <1>6

\* The final response and the records of files.
LEMMA SaveFinalAside == LogOK /\ SaveFinal => StepsAside
<1> SUFFICES ASSUME LogOK, SaveFinal
             PROVE  StepsAside
  OBVIOUS
<1>1. PICK n \in 0..Cardinality(files), head \in {<<>>, <<BotText>>} :
        log' = (log \o head) \o [k \in 1..n |-> FileRecord]
  BY DEF SaveFinal
<1>2. PICK tail : tail = [k \in 1..n |-> FileRecord]
  OBVIOUS
<1>3. n \in Nat
  OBVIOUS
<1>4. head \in Seq(Records) /\ \A k \in DOMAIN head : Quiet(head[k])
  <2>1. CASE head = <<>>
    BY <2>1
  <2>2. CASE head = <<BotText>>
    BY <2>2, PlainRecords DEF Quiet
  <2> QED
    BY <2>1, <2>2
<1>5. tail \in Seq(Records) /\ \A k \in DOMAIN tail : Quiet(tail[k])
  <2>1. tail \in [1..n -> Records]
    BY <1>2, PlainRecords DEF Quiet
  <2> QED
    BY <1>2, <1>3, <2>1, PlainRecords, FunctionIsSeq
<1>6. PICK r : r = head \o tail
  OBVIOUS
<1>7. r \in Seq(Records) /\ log' = log \o r
  <2>1. log \in Seq(Records) /\ head \in Seq(Records) /\ tail \in Seq(Records)
    BY <1>4, <1>5 DEF LogOK
  <2>2. head \o tail \in Seq(Records)
    BY <2>1
  <2>3. (log \o head) \o tail = log \o (head \o tail)
    BY <2>1, ConcatAssociative
  <2> QED
    BY <1>1, <1>2, <1>6, <2>2, <2>3
<1>8. \A k \in DOMAIN r : Quiet(r[k])
  BY <1>4, <1>5, <1>6, Grown
<1> QED
  BY <1>7, <1>8 DEF StepsAside

LEMMA SaveFinalHistory ==
    ASSUME TypeOK, TypeOK', HistoryInv, SaveFinal
    PROVE  HistoryInv'
<1>1. nextId' = nextId /\ nextId \in Nat /\ pc = "save" /\ pc' = "respond"
      /\ UNCHANGED <<msgs, saved>> /\ saved = Len(msgs) /\ saved \in Nat
  BY DEF SaveFinal, outVars, TypeOK
<1>2. LogOK' /\ PairsOK'
  BY <1>1, SaveFinalAside, QuietKeeps DEF HistoryInv, StepsAside
<1>3. \A q \in DOMAIN msgs : ~(q > saved)
  BY <1>1 DEF TypeOK
<1>4. RunOK' /\ UnsavedOK' /\ SavingOK' /\ SavedOK'
  BY <1>1, <1>3 DEF HistoryInv, RunOK, UnsavedOK, SavingOK, SavedOK
<1> QED
  BY <1>2, <1>4 DEF HistoryInv

\* A result that came changes neither calls nor their answers.
LEMMA MarkHistory ==
    ASSUME TypeOK, HistoryInv, NEW id \in Nat, log' = WithResult(id), nextId' = nextId,
           msgs' = <<>>, saved' = 0, pc' # "respond"
    PROVE  HistoryInv'
<1>1. /\ log' \in Seq(Records) /\ DOMAIN log' = DOMAIN log
      /\ \A i \in DOMAIN log : /\ log'[i].kind = log[i].kind /\ log'[i].calls = log[i].calls
                               /\ log'[i].answers = log[i].answers
  BY MarkKeeps DEF HistoryInv
<1>2. LogOK'
  BY <1>1 DEF HistoryInv, LogOK
<1>3. PairsOK'
  BY <1>1 DEF HistoryInv, PairsOK
<1>4. SavedOK'
  BY DEF SavedOK
<1> QED
  BY <1>2, <1>3, <1>4, NoRunIsOK DEF HistoryInv

LEMMA HistoryStep == TypeOK /\ PlaceOK /\ HistoryInv /\ [Next]_vars => HistoryInv'
<1> SUFFICES ASSUME TypeOK, PlaceOK, HistoryInv, [Next]_vars
             PROVE  HistoryInv'
  OBVIOUS
<1>0. TypeOK' /\ nextId \in Nat /\ tasks \subseteq Nat /\ (pc = "idle" => msgs = <<>> /\ saved = 0)
  BY TypesStep DEF TypeOK, HistoryInv, SavedOK
<1>1. CASE UserTurn
  BY <1>0, <1>1, StartHistory DEF UserTurn
<1>2. CASE NoAgentTurn
  <2>1. StepsAside
    BY <1>2, OneAside, PlainRecords DEF NoAgentTurn, HistoryInv
  <2>2. msgs' = <<>> /\ saved' = 0 /\ pc' = "idle" /\ nextId' = nextId
    BY <1>0, <1>2 DEF NoAgentTurn, runVars
  <2> QED
    BY <1>0, <2>1, <2>2, NoRunKeeps
<1>3. CASE Agent
  BY <1>0, <1>3, AgentHistory
<1>4. CASE Router
  <2>1. /\ pc = "router" /\ pc' \in Nodes
        /\ \E notes \in {<<>>, <<Note>>} : msgs' = msgs \o notes
    BY <1>4, RouterDoes DEF Nodes
  <2>2. UNCHANGED <<log, saved, nextId>>
    BY <1>4 DEF Router, outVars
  <2> QED
    BY <1>0, <2>1, <2>2, NotesHistory DEF Nodes
<1>5. CASE Act
  BY <1>0, <1>5, ActHistory
<1>6. CASE Finalize
  <2>1. LogOK' /\ PairsOK' /\ RunOK'
    BY <1>6 DEF Finalize, HistoryInv, LogOK, PairsOK, RunOK
  <2>2. saved = 0 /\ saved' = 0 /\ UNCHANGED <<log, msgs>> /\ pc' = "save" /\ msgs \in Seq(Messages)
    BY <1>6 DEF Finalize, HistoryInv, SavedOK, TypeOK
  <2>3. UnsavedOK' /\ SavingOK'
    BY <2>2 DEF HistoryInv, UnsavedOK, SavingOK
  <2>4. SavedOK'
    BY <2>2, LenProperties DEF SavedOK
  <2> QED
    BY <2>1, <2>3, <2>4 DEF HistoryInv
<1>7. CASE GraphFails
  <2>1. StepsAside
    BY <1>7, NothingAside DEF GraphFails, HistoryInv
  <2> QED
    BY <1>0, <1>7, <2>1, BreakOffHistory DEF GraphFails
<1>8. CASE Save
  BY <1>0, <1>8, SaveHistory
<1>9. CASE SaveFinal
  BY <1>0, <1>9, SaveFinalHistory
<1>10. CASE RunFails \/ Respond \/ \E how \in {"cancelled", "crashed"} : Cut(how)
  <2>1. UNCHANGED <<log, nextId>> /\ \E how, seen : EndTurn(how, seen)
    BY <1>10 DEF RunFails, Respond, Cut
  <2> QED
    BY <1>0, <2>1, EndTurnHistory
<1>11. CASE BrowserStep
  <2>1. PICK id \in tasks : ResultUnknown(id) \/ ResultWaits(id) \/ ResultResumes(id)
    BY <1>11 DEF BrowserStep
  <2>2. CASE ResultUnknown(id)
    <3>1. StepsAside
      BY <2>2, NothingAside DEF ResultUnknown, HistoryInv
    <3> QED
      BY <1>0, <2>2, <3>1, NoRunKeeps DEF ResultUnknown, Result, runVars, outVars
  <2>3. CASE ResultWaits(id)
    BY <1>0, <2>3, MarkHistory DEF ResultWaits, Result, runVars, outVars
  <2>4. CASE ResultResumes(id)
    BY <1>0, <2>4, MarkHistory DEF ResultResumes, Start
  <2> QED
    BY <2>1, <2>2, <2>3, <2>4
<1>12. CASE UNCHANGED vars
  BY <1>12 DEF vars, runVars, outVars, HistoryInv, LogOK, PairsOK, RunOK, UnsavedOK, SavingOK, SavedOK
<1> QED
  BY <1>1, <1>2, <1>3, <1>4, <1>5, <1>6, <1>7, <1>8, <1>9, <1>10, <1>11, <1>12
  DEF Next, TurnStep

LEMMA HistoryInvariant == Spec => [](TypeOK /\ PlaceOK /\ HistoryInv)
<1>1. Init => TypeOK /\ PlaceOK /\ HistoryInv
  <2> SUFFICES ASSUME Init PROVE HistoryInv
    BY TypesInit
  <2>1. log = <<>> /\ msgs = <<>> /\ saved = 0 /\ pc = "idle"
    BY DEF Init
  <2> QED
    BY <2>1 DEF HistoryInv, LogOK, PairsOK, RunOK, UnsavedOK, SavingOK, SavedOK
<1>2. TypeOK /\ PlaceOK /\ HistoryInv /\ [Next]_vars => (TypeOK /\ PlaceOK /\ HistoryInv)'
  BY TypesStep, HistoryStep
<1> QED
  BY <1>1, <1>2, PTL DEF Spec

\* What get_conversation_history makes of the log is at any time a history the
\* model accepts: however the model answers and the tools end, through messages
\* that could not be stored, runs that broke off, cancellations and crashes, and
\* wherever the window cuts the log.
THEOREM HistoryStaysValid == Spec => []HistoryIsValid
<1>1. LogOK /\ PairsOK => HistoryIsValid
  <2> SUFFICES ASSUME LogOK, PairsOK, NEW i \in Kept(log)
               PROVE  /\ log[i].kind = "result" =>
                           \E j \in Kept(log) :
                              log[i].answers \in ValidCalls(log, j) /\ Follows(j, i)
                      /\ \A c \in ValidCalls(log, i) :
                           \E j \in Kept(log) :
                              log[j].kind = "result" /\ log[j].answers = c /\ Follows(i, j)
    BY DEF HistoryIsValid
  <2>1. i \in DOMAIN log /\ \A j \in Kept(log) : j \in DOMAIN log
    BY DEF Kept, Recent
  <2>2. ASSUME log[i].kind = "result"
        PROVE  \E j \in Kept(log) : log[i].answers \in ValidCalls(log, j) /\ Follows(j, i)
    <3>1. PICK j \in Recent(log) : log[i].answers \in ValidCalls(log, j)
      BY <2>2, HistoryIsPaired
    <3>2. j \in DOMAIN log /\ log[i].answers \in log[j].calls
      BY <3>1 DEF Recent, ValidCalls
    <3>3. log[j].kind = "calls"
      BY <3>2 DEF LogOK
    <3>4. j \in Kept(log)
      BY <3>1, <3>3 DEF Kept
    <3>5. Follows(j, i)
      BY <2>1, <2>2, <3>2 DEF Follows, PairsOK
    <3> QED
      BY <3>1, <3>4, <3>5
  <2>3. ASSUME NEW c \in ValidCalls(log, i)
        PROVE  \E j \in Kept(log) :
                  log[j].kind = "result" /\ log[j].answers = c /\ Follows(i, j)
    <3>1. PICK j \in Kept(log) : log[j].kind = "result" /\ log[j].answers = c
      BY HistoryIsPaired
    <3>2. Follows(i, j)
      BY <2>1, <3>1 DEF Follows, PairsOK, ValidCalls
    <3> QED
      BY <3>1, <3>2
  <2> QED
    BY <2>2, <2>3
<1> QED
  BY <1>1, HistoryInvariant, PTL DEF HistoryInv

-----------------------------------------------------------------------------
(* The results of browser tasks                                            *)

\* A record of the callback that nothing will ever mark.
StillRequested == \E i \in DOMAIN log : log[i].task = "requested" /\ log[i].answers = NoCall

\* The message of the call of a task, in the log and in the run.
AskedFor(t) ==
    \E i \in DOMAIN log :
        log[i].kind = "result" /\ log[i].answers = t /\ log[i].task = "requested"
ToBeSaved(t) ==
    \E q \in DOMAIN msgs :
        q > saved /\ msgs[q].kind = "tool" /\ msgs[q].id = t /\ msgs[q].tool = "browse"

\* Without a fault the callback has stored the task; with one either it has or
\* update_history will store, or has stored, the message of its call.
TasksOK ==
    broken = {} =>
        /\ faults = 0 /\ tasks # {} => StillRequested
        /\ faults < 2 => StillRequested \/ \A t \in tasks :
                             t \in arrived \/ AskedFor(t) \/ ToBeSaved(t)

\* A result is the last message of a run only if a reply tool was called, and
\* then there is no final response that would be stored in its place.
FinalOK ==
    /\ pc = "finalize" /\ LastOf(msgs).kind = "tool" => RepliesCalled # {}
    /\ pc = "save" /\ msgs # <<>> /\ final # "empty" => LastOf(msgs).kind # "tool"

TaskInv == TasksOK /\ FinalOK /\ ResumesWithAllResults

\* Every member of a finite set is in each of its sequences.
LEMMA AllInOrder ==
    ASSUME NEW S, IsFiniteSet(S), NEW order \in SetToSeqs(S), NEW x \in S
    PROVE  \E n \in DOMAIN order : order[n] = x
<1>1. Cardinality(S) \in Nat
  BY FS_CardinalityType
<1>2. order \in Injection(1..Cardinality(S), S)
  BY DEF SetToSeqs, Injection, IsInjective
<1>3. IsFiniteSet(1..Cardinality(S)) /\ Cardinality(1..Cardinality(S)) = Cardinality(S)
  BY <1>1, FS_Interval
<1>4. order \in Surjection(1..Cardinality(S), S)
  BY <1>2, <1>3, FS_Injection
<1>5. DOMAIN order = 1..Cardinality(S)
  BY DEF SetToSeqs
<1> QED
  BY <1>4, <1>5 DEF Surjection

LEMMA AddedAreThere ==
    ASSUME NEW l \in Seq(Records), NEW r \in Seq(Records), NEW k \in DOMAIN r
    PROVE  \E i \in DOMAIN (l \o r) : (l \o r)[i] = r[k]
<1>1. /\ Len(l) \in Nat /\ Len(r) \in Nat /\ k \in 1..Len(r)
      /\ DOMAIN (l \o r) = 1..(Len(l) + Len(r)) /\ (l \o r)[Len(l) + k] = r[k]
  OBVIOUS
<1>2. Len(l) + k \in 1..(Len(l) + Len(r))
  BY <1>1
<1> QED
  BY <1>1, <1>2

\* Records that are only added take nothing back.
LEMMA RecordsStay ==
    ASSUME LogOK, StepsAside
    PROVE  /\ \A i \in DOMAIN log : i \in DOMAIN log' /\ log'[i] = log[i]
           /\ StillRequested => StillRequested'
           /\ \A t : AskedFor(t) => AskedFor(t)'
<1>1. \A i \in DOMAIN log : i \in DOMAIN log' /\ log'[i] = log[i]
  BY Grown DEF StepsAside, LogOK
<1> QED
  BY <1>1 DEF StillRequested, AskedFor

\* A step that takes no message of a task out of the run without storing it.
LEMMA TasksStay ==
    ASSUME TypeOK, TasksOK, broken \subseteq broken', faults' \in Nat, faults <= faults',
           tasks' = tasks, arrived \subseteq arrived',
           StillRequested => StillRequested',
           \A t \in tasks : AskedFor(t) => AskedFor(t)' \/ t \in arrived',
           broken' = {} /\ faults' < 2 /\ ~StillRequested =>
               \A t \in tasks : ToBeSaved(t) => ToBeSaved(t)' \/ AskedFor(t)'
    PROVE  TasksOK'
<1>1. faults \in Nat
  BY DEF TypeOK
<1> QED
  BY <1>1 DEF TasksOK

\* The turn in which a run breaks off is no longer unbroken.
LEMMA BrokenTasks ==
    ASSUME broken' # {}, pc' \notin {"finalize", "save"}
    PROVE  TaskInv'
BY DEF TaskInv, TasksOK, FinalOK, ResumesWithAllResults

LEMMA ActTasks ==
    ASSUME TypeOK, TypeOK', PlaceOK, HistoryInv, TaskInv, Act
    PROVE  TaskInv'
<1> DEFINE calls == LastOf(msgs).calls
           Record(f, stored, k) == WrittenByTool(calls[k], f[k], stored)
           Done(f, tool) == {calls[k].id : k \in
                {j \in DOMAIN calls : calls[j].tool = tool /\ f[j] \notin Raised}}
<1>1. PICK f \in [DOMAIN calls -> Outs], stored \in BOOLEAN :
        /\ \A k \in DOMAIN calls : f[k] \in Outcomes(calls[k].tool)
        /\ IF stored /\ \A k \in DOMAIN calls : f[k] \notin Raised
           THEN UNCHANGED faults ELSE SpendFault
        /\ \E order \in SetToSeqs({k \in DOMAIN calls : Record(f, stored, k) # Nothing}) :
             log' = log \o [n \in DOMAIN order |-> Record(f, stored, order[n])]
        /\ tasks' = tasks \cup {id \in Done(f, "browse") :
                        \E k \in DOMAIN calls : calls[k].id = id /\ f[k] = "ok"}
        /\ \/ \E seen : BreakOff(seen)
           \/ /\ \A k \in DOMAIN calls : f[k] # "raise"
              /\ msgs' = msgs \o [k \in DOMAIN calls |-> ToolMessage(calls[k], f[k])]
              /\ pc' = "router" /\ saved' = saved /\ broken' = broken
  BY DEF Act, Outs
<1>2. CASE \E seen : BreakOff(seen)
  <2>1. turn \in broken' /\ pc' \notin {"finalize", "save"}
    BY <1>2 DEF BreakOff, EndTurn
  <2> QED
    BY <2>1, BrokenTasks
<1>3. CASE ~\E seen : BreakOff(seen)
  <2>1. PICK r : r = [k \in DOMAIN calls |-> ToolMessage(calls[k], f[k])]
    OBVIOUS
  <2>2. msgs' = msgs \o r /\ pc' = "router" /\ saved = 0 /\ saved' = 0 /\ broken' = broken
    BY <1>1, <1>3, <2>1 DEF Act, HistoryInv, SavedOK
  <2>3. /\ calls \in CallSeqs /\ Len(calls) \in Nat /\ DOMAIN calls = 1..Len(calls)
        /\ \A k \in DOMAIN calls : calls[k].id \in Nat /\ calls[k].tool \in Tools
    BY ActCalls, LenProperties DEF Act, CallSeqs
  <2>4. msgs \in Seq(Messages) /\ Len(msgs) \in Nat /\ DOMAIN msgs = 1..Len(msgs) /\ arrived' = arrived
    BY DEF TypeOK, Act
  <2>5. faults \in Nat /\ (faults' = faults \/ faults' = faults + 1)
    BY <1>1 DEF TypeOK, SpendFault
  <2> HIDE DEF calls
  <2>6. \A k \in DOMAIN calls : /\ r[k].kind = "tool" /\ r[k].id = calls[k].id
                                /\ r[k].tool = calls[k].tool
    BY <2>1 DEF ToolMessage
  <2>7. DOMAIN r = 1..Len(calls)
    BY <2>1, <2>3
  <2>8. r \in Seq(Messages)
    <3>1. \A k \in DOMAIN calls : r[k] \in Messages
      BY <1>1, <1>3, <2>1, <2>3 DEF ToolMessage, Messages
    <3>2. r \in [1..Len(calls) -> Messages]
      BY <2>1, <2>3, <3>1
    <3> QED
      BY <2>3, <3>2, FunctionIsSeq
  \* The message of every call is to be saved.
  <2>9. ASSUME NEW k \in DOMAIN calls, calls[k].tool = "browse", NEW t, t = calls[k].id
        PROVE  ToBeSaved(t)'
    <3>1. k \in 1..Len(r) /\ Len(r) \in Nat
      BY <2>3, <2>7, <2>8
    <3>2. PICK q \in Nat : q = Len(msgs) + k
      BY <2>4, <3>1
    <3>3. q \in DOMAIN msgs' /\ msgs'[q] = r[k] /\ q > 0
      BY <2>2, <2>4, <2>8, <3>1, <3>2
    <3> QED
      BY <2>2, <2>6, <2>9, <3>3 DEF ToBeSaved
  <2>10. \A t \in tasks' \ tasks : ToBeSaved(t)' /\
           \E k \in DOMAIN calls : calls[k].tool = "browse" /\ f[k] \notin Raised
    <3> TAKE t \in tasks' \ tasks
    <3>1. t \in Done(f, "browse")
      BY <1>1
    <3>2. PICK k \in DOMAIN calls : calls[k].tool = "browse" /\ f[k] \notin Raised /\ t = calls[k].id
      BY <3>1
    <3> QED
      BY <2>9, <3>2
  <2>11. \A t : ToBeSaved(t) => ToBeSaved(t)'
    <3>1. \A q \in DOMAIN msgs : q \in DOMAIN msgs' /\ msgs'[q] = msgs[q]
      BY <2>2, <2>4, <2>8, Longer
    <3> QED
      BY <2>2, <3>1 DEF ToBeSaved
  \* Records without calls are added, and one for every browser task when the
  \* callback does not fail.
  <2>12. PICK order \in SetToSeqs({k \in DOMAIN calls : Record(f, stored, k) # Nothing}) :
           log' = log \o [n \in DOMAIN order |-> Record(f, stored, order[n])]
    BY <1>1
  <2>13. PICK s : s = [n \in DOMAIN order |-> Record(f, stored, order[n])]
    OBVIOUS
  <2>14. IsFiniteSet({k \in DOMAIN calls : Record(f, stored, k) # Nothing})
    <3>1. IsFiniteSet(DOMAIN calls)
      BY <2>3, FS_Interval
    <3> QED
      BY <3>1, FS_Subset
  <2>15. s \in Seq(Records) /\ \A n \in DOMAIN s : Quiet(s[n])
    <3>1. PICK n \in Nat : DOMAIN order = 1..n
      BY <2>14, FS_CardinalityType DEF SetToSeqs
    <3>2. \A j \in DOMAIN order : order[j] \in DOMAIN calls /\ Record(f, stored, order[j]) # Nothing
      BY DEF SetToSeqs
    <3>3. ASSUME NEW k \in DOMAIN calls, Record(f, stored, k) # Nothing
          PROVE  Quiet(Record(f, stored, k))
      BY <2>3, <3>3, PlainRecords DEF WrittenByTool, Quiet
    <3>4. \A j \in DOMAIN order : Quiet(s[j])
      BY <2>13, <3>2, <3>3
    <3>5. s \in [1..n -> Records]
      BY <2>13, <3>1, <3>4 DEF Quiet
    <3> QED
      BY <2>13, <3>4, <3>5, FunctionIsSeq
  <2>16. StepsAside
    BY <2>12, <2>13, <2>15 DEF StepsAside
  <2>17. /\ StillRequested => StillRequested'
         /\ \A t : AskedFor(t) => AskedFor(t)'
    BY <2>16, RecordsStay DEF HistoryInv
  <2>18. faults' = faults /\ tasks' \ tasks # {} => StillRequested'
    <3> HAVE faults' = faults /\ tasks' \ tasks # {}
    <3>1. PICK k \in DOMAIN calls : calls[k].tool = "browse" /\ f[k] \notin Raised
      BY <2>10
    <3>2. stored
      BY <1>1, <2>5 DEF SpendFault
    <3>3. Record(f, stored, k) = ResultOf("browse", NoCall)
      BY <3>1, <3>2 DEF WrittenByTool
    <3>4. /\ ResultOf("browse", NoCall).task = "requested"
          /\ ResultOf("browse", NoCall).answers = NoCall
          /\ ResultOf("browse", NoCall).kind = "result"
      BY PlainRecords DEF Tools
    <3>5. Nothing.kind = "nothing"
      BY DEF Nothing, Stored
    <3>6. PICK n \in DOMAIN order : order[n] = k
      BY <2>14, <3>3, <3>4, <3>5, AllInOrder
    <3>7. n \in DOMAIN s /\ s[n] = ResultOf("browse", NoCall)
      BY <2>13, <3>3, <3>6
    <3>8. \E i \in DOMAIN log' : log'[i] = s[n]
      <4>1. log \in Seq(Records) /\ log' = log \o s
        BY <2>12, <2>13 DEF HistoryInv, LogOK
      <4> QED
        BY <2>15, <3>7, <4>1, AddedAreThere
    <3> QED
      BY <3>4, <3>7, <3>8 DEF StillRequested
  <2>19. TasksOK'
    <3> SUFFICES ASSUME broken = {}
                 PROVE  /\ faults' = 0 /\ tasks' # {} => StillRequested'
                        /\ faults' < 2 => StillRequested' \/ \A t \in tasks' :
                              t \in arrived' \/ AskedFor(t)' \/ ToBeSaved(t)'
      BY <2>2 DEF TasksOK
    <3>1. /\ faults = 0 /\ tasks # {} => StillRequested
          /\ faults < 2 => StillRequested \/ \A t \in tasks :
                               t \in arrived \/ AskedFor(t) \/ ToBeSaved(t)
      BY DEF TaskInv, TasksOK
    <3>2. faults' = 0 /\ tasks' # {} => StillRequested'
      <4> HAVE faults' = 0 /\ tasks' # {}
      <4>1. faults = 0 /\ faults' = faults
        BY <2>5
      <4>2. tasks # {} \/ tasks' \ tasks # {}
        OBVIOUS
      <4> QED
        BY <2>17, <2>18, <3>1, <4>1, <4>2
    <3>3. ASSUME faults' < 2, ~StillRequested', NEW t \in tasks'
          PROVE  t \in arrived' \/ AskedFor(t)' \/ ToBeSaved(t)'
      <4>1. faults < 2
        BY <2>5, <3>3
      <4> QED
        BY <2>4, <2>10, <2>11, <2>17, <3>1, <3>3, <4>1
    <3> QED
      BY <3>2, <3>3
  <2>20. FinalOK' /\ ResumesWithAllResults'
    BY <2>2 DEF FinalOK, ResumesWithAllResults
  <2> QED
    BY <2>19, <2>20 DEF TaskInv
<1> QED
  BY <1>2, <1>3

\* A message saved is in the log; one that is not costs a fault.
LEMMA SaveTasks ==
    ASSUME TypeOK, TypeOK', HistoryInv, TaskInv, Save
    PROVE  TaskInv'
<1>1. /\ pc = "save" /\ pc' = "save" /\ saved < Len(msgs) /\ saved \in Nat /\ saved' = saved + 1
      /\ UNCHANGED <<msgs, final, tasks, arrived, broken>> /\ faults \in Nat
      /\ msgs \in Seq(Messages) /\ Len(msgs) \in Nat /\ DOMAIN msgs = 1..Len(msgs)
      /\ saved' \in DOMAIN msgs /\ log \in Seq(Records)
  BY DEF Save, runVars, taskVars, TypeOK, HistoryInv, LogOK
<1>2. FinalOK' /\ ResumesWithAllResults'
  BY <1>1 DEF TaskInv, FinalOK, ResumesWithAllResults
<1>3. CASE UNCHANGED log /\ SpendFault
  <2>1. StillRequested' <=> StillRequested
    BY <1>3 DEF StillRequested
  <2>2. \A t : AskedFor(t)' <=> AskedFor(t)
    BY <1>3 DEF AskedFor
  <2>3. faults' = faults + 1
    BY <1>3 DEF SpendFault
  <2>4. TasksOK'
    BY <1>1, <2>1, <2>2, <2>3 DEF TaskInv, TasksOK
  <2> QED
    BY <1>2, <2>4 DEF TaskInv
<1>4. CASE ~(UNCHANGED log /\ SpendFault)
  <2>1. /\ log' = IF StoredAs(saved') = Nothing THEN log ELSE Append(log, StoredAs(saved'))
        /\ faults' = faults
    BY <1>4 DEF Save
  <2>2. PICK s : s = saved' /\ s \in DOMAIN msgs
    BY <1>1
  <2>3. StoredAs(s) # Nothing => StoredAs(s) \in Records
    BY <2>2, StoredAsWhat
  <2>4. \A i \in DOMAIN log : i \in DOMAIN log' /\ log'[i] = log[i]
    BY <1>1, <2>1, <2>2, <2>3
  <2>5. /\ StillRequested => StillRequested'
        /\ \A t : AskedFor(t) => AskedFor(t)'
    BY <2>4 DEF StillRequested, AskedFor
  <2>6. ASSUME NEW t \in tasks, ToBeSaved(t)
        PROVE  ToBeSaved(t)' \/ AskedFor(t)'
    <3>1. PICK q \in DOMAIN msgs :
            q > saved /\ msgs[q].kind = "tool" /\ msgs[q].id = t /\ msgs[q].tool = "browse"
      BY <2>6 DEF ToBeSaved
    <3>2. CASE q > s
      BY <1>1, <2>2, <3>1, <3>2 DEF ToBeSaved
    <3>3. CASE q = s
      <4>1. ~(s = Len(msgs) /\ final # "empty")
        BY <1>1, <3>1, <3>3 DEF TaskInv, FinalOK, LastOf
      <4>2. StoredAs(s) = ResultOf("browse", t)
        BY <3>1, <3>3, <4>1 DEF StoredAs
      <4>3. t \in Nat
        BY DEF TypeOK
      <4>4. LET m == ResultOf("browse", t) IN
            m \in Records /\ m.kind = "result" /\ m.answers = t /\ m.task = "requested"
        BY <4>3, PlainRecords DEF Tools
      <4>5. Nothing.kind = "nothing"
        BY DEF Nothing, Stored
      <4>6. log' = Append(log, ResultOf("browse", t))
        BY <2>1, <2>2, <4>2, <4>4, <4>5
      <4>7. Len(log) + 1 \in DOMAIN log' /\ log'[Len(log) + 1] = ResultOf("browse", t)
        BY <1>1, <4>4, <4>6
      <4> QED
        BY <4>4, <4>7 DEF AskedFor
    <3> QED
      BY <1>1, <2>2, <3>1, <3>2, <3>3
  <2>7. TasksOK'
    BY <1>1, <2>1, <2>5, <2>6, TasksStay DEF TaskInv
  <2> QED
    BY <1>2, <2>7 DEF TaskInv
<1> QED
  BY <1>3, <1>4

\* Where a run goes when it is over, and with which message.
LEMMA RouterTasks ==
    ASSUME TypeOK, TypeOK', PlaceOK, HistoryInv, TaskInv, Router
    PROVE  TaskInv'
<1>1. /\ pc = "router" /\ pc' \in {"agent", "action", "finalize"} /\ msgs # <<>>
      /\ msgs \in Seq(Messages) /\ saved = 0 /\ saved' = 0
      /\ UNCHANGED <<log, source, taskVars, broken, faults>> /\ faults \in Nat
  BY RouterDoes DEF PlaceOK, TypeOK, HistoryInv, SavedOK, Router, outVars, turnVars
<1>2. PICK notes \in Seq(Messages) : msgs' = msgs \o notes /\ (notes = <<>> \/ notes = <<Note>>)
  BY RouterDoes, NotesAreMessages
<1>3. /\ DOMAIN msgs \subseteq DOMAIN msgs' /\ \A p \in DOMAIN msgs : msgs'[p] = msgs[p]
      /\ RepliesCalled \subseteq RepliesCalled' /\ msgs' # <<>>
  BY <1>1, <1>2, Longer, Extended
<1>4. \A t : ToBeSaved(t) => ToBeSaved(t)'
  BY <1>1, <1>3 DEF ToBeSaved
<1>5. TasksOK'
  <2>1. /\ StillRequested => StillRequested'
        /\ \A t : AskedFor(t) => AskedFor(t)'
    BY <1>1 DEF StillRequested, AskedFor
  <2> QED
    BY <1>1, <1>4, <2>1, TasksStay DEF TaskInv, taskVars
<1>6. ResumesWithAllResults'
  BY <1>3 DEF ResumesWithAllResults
<1>7. ASSUME pc' = "finalize", LastOf(msgs').kind = "tool"
      PROVE  RepliesCalled # {}
  <2>1. notes # <<Note>>
    <3> SUFFICES ASSUME notes = <<Note>> PROVE FALSE
      OBVIOUS
    <3>1. Note \in Messages /\ Note.kind = "note"
      BY MessageKinds
    <3>2. PICK m \in Messages : m = Note
      BY <3>1
    <3>3. msgs' = msgs \o <<m>> /\ <<m>> \in Seq(Messages)
      BY <1>2, <3>2
    <3>4. LastOf(msgs') = m
      BY <1>1, <3>3 DEF LastOf
    <3> QED
      BY <1>7, <3>1, <3>2, <3>4
  <2>2. notes = <<>> /\ msgs' = msgs
    BY <1>1, <1>2, <2>1
  <2>3. LastOf(msgs).kind = "tool" /\ msgs' # msgs \o <<Note>>
    <3>1. msgs \o <<Note>> # msgs
      <4>1. PICK m \in Messages : m = Note
        BY MessageKinds
      <4>2. Len(msgs \o <<m>>) = Len(msgs) + 1 /\ Len(msgs) \in Nat
        BY <1>1
      <4> QED
        BY <4>1, <4>2
    <3> QED
      BY <1>7, <2>2, <3>1
  <2>4. LastOf(msgs).outcome = "final"
    BY <1>7, <2>3 DEF Router, LoadMedia, RoutePhrase, RouteFinalReply, RouteError, RouteResult,
                      Nudge, RouteAnswer, Goto, LastIsAnswer, Stalled, LastResultIs
  <2>5. Len(msgs) \in DOMAIN msgs /\ LastOf(msgs) = msgs[Len(msgs)]
    BY <1>1, LastIsMessage
  <2>6. PICK p \in DOMAIN msgs :
          [id |-> LastOf(msgs).id, tool |-> LastOf(msgs).tool] \in CallsOf(msgs[p])
    BY <2>3, <2>5 DEF HistoryInv, RunOK
  <2>7. LastOf(msgs).tool = "reply"
    BY <2>3, <2>4, <2>5 DEF HistoryInv, RunOK
  <2>8. [id |-> LastOf(msgs).id, tool |-> "reply"] \in NewCalls
    BY <2>6, <2>7 DEF NewCalls
  <2> QED
    BY <2>8 DEF RepliesCalled
<1>8. FinalOK'
  BY <1>1, <1>3, <1>7 DEF FinalOK
<1> QED
  BY <1>5, <1>6, <1>8 DEF TaskInv

\* A result is noted, and resumes the agent when nothing is requested any more:
\* then the message of every other task has been marked by its result.
LEMMA ResultTasks ==
    ASSUME TypeOK, TypeOK', HistoryInv, TaskInv, NEW id \in tasks,
           ResultWaits(id) \/ ResultResumes(id)
    PROVE  TaskInv'
<1>1. /\ pc = "idle" /\ msgs = <<>> /\ msgs' = <<>> /\ log' = WithResult(id)
      /\ tasks' = tasks /\ arrived' = arrived \cup {id} /\ broken' = broken /\ faults' = faults
      /\ id \in Nat /\ faults \in Nat /\ pc' \in {"idle", "agent"}
  BY DEF ResultWaits, ResultResumes, Result, Start, TypeOK, HistoryInv, SavedOK, runVars
<1>2. /\ DOMAIN log' = DOMAIN log
      /\ \A i \in DOMAIN log : log[i].answers # id => log'[i] = log[i]
  BY <1>1, MarkKeeps DEF HistoryInv
<1>3. StillRequested => StillRequested'
  BY <1>1, <1>2, NoCallAssumption DEF StillRequested
<1>4. \A t : AskedFor(t) => AskedFor(t)' \/ t \in arrived'
  BY <1>1, <1>2 DEF AskedFor
<1>5. \A t : ~ToBeSaved(t)
  BY <1>1 DEF ToBeSaved
<1>6. TasksOK'
  BY <1>1, <1>3, <1>4, <1>5, TasksStay DEF TaskInv
<1>7. FinalOK'
  BY <1>1 DEF FinalOK
<1>8. ResumesWithAllResults'
  <2> SUFFICES ASSUME pc' = "agent", broken' = {}, faults' < 2
               PROVE  tasks' = arrived'
    BY DEF ResumesWithAllResults
  <2>1. Requested(WithResult(id)) = {}
    BY DEF ResultWaits, ResultResumes, Result, runVars
  <2>2. \A i \in DOMAIN log' : log'[i].task # "requested"
    BY <1>1, <2>1 DEF Requested
  <2>3. ~StillRequested' /\ \A t : ~AskedFor(t)'
    BY <2>2 DEF StillRequested, AskedFor
  <2>4. \A t : ~ToBeSaved(t)'
    BY <1>1 DEF ToBeSaved
  <2>5. \A t \in tasks' : t \in arrived'
    BY <1>6, <2>3, <2>4 DEF TasksOK
  <2> QED
    BY <2>5 DEF TypeOK
<1> QED
  BY <1>6, <1>7, <1>8 DEF TaskInv

\* A step of a turn without a run.
LEMMA QuietTasks ==
    ASSUME TypeOK, HistoryInv, TaskInv, StepsAside, tasks' = tasks, arrived \subseteq arrived',
           broken' = broken, faults' = faults, \A t : ~ToBeSaved(t),
           pc' \notin {"finalize", "save"},
           source' # "browser" \/ pc' # "agent"
    PROVE  TaskInv'
<1>1. TasksOK'
  BY RecordsStay, TasksStay DEF TaskInv, HistoryInv, TypeOK
<1>2. FinalOK' /\ ResumesWithAllResults'
  BY DEF FinalOK, ResumesWithAllResults
<1> QED
  BY <1>1, <1>2 DEF TaskInv

LEMMA TaskStep == TypeOK /\ PlaceOK /\ HistoryInv /\ TaskInv /\ [Next]_vars => TaskInv'
<1> SUFFICES ASSUME TypeOK, PlaceOK, HistoryInv, TaskInv, [Next]_vars
             PROVE  TaskInv'
  OBVIOUS
<1>0. TypeOK'
  BY TypesStep
<1>1. pc = "idle" => \A t : ~ToBeSaved(t)
  BY DEF HistoryInv, SavedOK, ToBeSaved
<1>2. CASE UserTurn
  <2>1. StepsAside /\ source' # "browser" /\ pc = "idle" /\ pc' = "agent"
    <3>1. PICK r \in Requests : Start(r.source, r.expect, log)
      BY <1>2 DEF UserTurn
    <3>2. r.source \in Sources
      BY RequestsAssumption
    <3> QED
      BY <3>1, <3>2, OneAside, PlainRecords DEF Start, Sources, HistoryInv
  <2> QED
    BY <1>1, <1>2, <2>1, QuietTasks DEF UserTurn, taskVars
<1>3. CASE NoAgentTurn
  <2>1. StepsAside /\ pc = "idle" /\ pc' = "idle"
    BY <1>3, OneAside, PlainRecords DEF NoAgentTurn, runVars, HistoryInv
  <2> QED
    BY <1>1, <1>3, <2>1, QuietTasks DEF NoAgentTurn, taskVars
<1>4. CASE Agent
  <2>1. /\ pc' = "router" /\ UNCHANGED <<log, tasks, arrived, broken, faults, saved>>
        /\ faults \in Nat /\ msgs \in Seq(Messages)
    BY <1>4 DEF Agent, taskVars, TypeOK
  <2>2. PICK r \in Seq(Messages) : msgs' = msgs \o r
    BY <1>4, AgentAdds
  <2>3. \A t : ToBeSaved(t) => ToBeSaved(t)'
    BY <2>1, <2>2, Longer DEF ToBeSaved
  <2>4. /\ StillRequested => StillRequested'
        /\ \A t : AskedFor(t) => AskedFor(t)'
    BY <2>1 DEF StillRequested, AskedFor
  <2>5. TasksOK'
    BY <2>1, <2>3, <2>4, TasksStay DEF TaskInv
  <2> QED
    BY <2>1, <2>5 DEF TaskInv, FinalOK, ResumesWithAllResults
<1>5. CASE Router
  BY <1>0, <1>5, RouterTasks
<1>6. CASE Act
  BY <1>0, <1>6, ActTasks
<1>7. CASE Finalize
  <2>1. /\ pc = "finalize" /\ pc' = "save" /\ saved = 0 /\ saved' = 0
        /\ UNCHANGED <<log, msgs, tasks, arrived, broken, faults>> /\ faults \in Nat
    BY <1>7 DEF Finalize, taskVars, TypeOK, HistoryInv, SavedOK
  <2>2. /\ StillRequested => StillRequested'
        /\ \A t : (AskedFor(t) => AskedFor(t)') /\ (ToBeSaved(t) => ToBeSaved(t)')
    BY <2>1 DEF StillRequested, AskedFor, ToBeSaved
  <2>3. TasksOK'
    BY <2>1, <2>2, TasksStay DEF TaskInv
  <2>4. FinalOK'
    BY <1>7, <2>1 DEF TaskInv, FinalOK, Finalize, RepliedByTool
  <2> QED
    BY <2>1, <2>3, <2>4 DEF TaskInv, ResumesWithAllResults
<1>8. CASE GraphFails \/ RunFails \/ \E how \in {"cancelled", "crashed"} : Cut(how)
  <2>1. broken' = broken \cup {turn} /\ pc' \in {"agent", "idle"}
    BY <1>8 DEF GraphFails, BreakOff, RunFails, Cut, EndTurn
  <2> QED
    BY <2>1, BrokenTasks
<1>9. CASE Save
  BY <1>0, <1>9, SaveTasks
<1>10. CASE SaveFinal
  <2>1. StepsAside
    BY <1>10, SaveFinalAside DEF HistoryInv
  <2>2. \A t : ~ToBeSaved(t)
    <3>1. \A q \in DOMAIN msgs : ~(q > saved)
      BY <1>10 DEF SaveFinal, TypeOK
    <3> QED
      BY <3>1 DEF ToBeSaved
  <2> QED
    BY <1>10, <2>1, <2>2, QuietTasks DEF SaveFinal, taskVars
<1>11. CASE Respond
  <2>1. pc = "respond" /\ pc' = "idle" /\ StepsAside
    BY <1>11, NothingAside DEF Respond, EndTurn, HistoryInv
  <2>2. \A t : ~ToBeSaved(t)
    <3>1. \A q \in DOMAIN msgs : ~(q > saved)
      BY <2>1 DEF HistoryInv, SavedOK, TypeOK
    <3> QED
      BY <3>1 DEF ToBeSaved
  <2> QED
    BY <1>11, <2>1, <2>2, QuietTasks DEF Respond, taskVars
<1>12. CASE BrowserStep
  <2>1. PICK id \in tasks : ResultUnknown(id) \/ ResultWaits(id) \/ ResultResumes(id)
    BY <1>12 DEF BrowserStep
  <2>2. CASE ResultUnknown(id)
    <3>1. pc = "idle" /\ pc' = "idle" /\ StepsAside
      BY <2>2, NothingAside DEF ResultUnknown, Result, runVars, HistoryInv
    <3> QED
      BY <1>1, <2>2, <3>1, QuietTasks DEF ResultUnknown, Result
  <2> QED
    BY <1>0, <2>1, <2>2, ResultTasks
<1>13. CASE UNCHANGED vars
  BY <1>13 DEF vars, runVars, outVars, turnVars, taskVars, TaskInv, TasksOK, FinalOK,
               ResumesWithAllResults, StillRequested, AskedFor, ToBeSaved, RepliesCalled, NewCalls
<1> QED
  BY <1>2, <1>3, <1>4, <1>5, <1>6, <1>7, <1>8, <1>9, <1>10, <1>11, <1>12, <1>13
  DEF Next, TurnStep

\* A turn that browser results resume has the results of all tasks: for any
\* number of tasks, calls and turns and in whatever order the results come.
THEOREM ResultsComeTogether == Spec => []ResumesWithAllResults
<1>1. Init => TaskInv
  <2> SUFFICES ASSUME Init PROVE TaskInv
    OBVIOUS
  <2>1. tasks = {} /\ pc = "idle"
    BY DEF Init
  <2> QED
    BY <2>1 DEF TaskInv, TasksOK, FinalOK, ResumesWithAllResults
<1>2. TypeOK /\ PlaceOK /\ HistoryInv /\ TaskInv /\ [Next]_vars => TaskInv'
  BY TaskStep
<1>3. TaskInv => ResumesWithAllResults
  BY DEF TaskInv
<1> QED
  BY <1>1, <1>2, <1>3, HistoryInvariant, PTL DEF Spec
=============================================================================
