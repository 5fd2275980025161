---------------------- MODULE ConversationMediaProofs ----------------------
(***************************************************************************)
(* Proofs about ConversationMedia: what is received and what is sent is    *)
(* kept, and only an event handled twice makes a history impossible to     *)
(* load, for any events, files, window and tools and without the bounds.   *)
(***************************************************************************)
EXTENDS ConversationMedia, SequenceTheorems, TLAPS

-----------------------------------------------------------------------------
(* The inductive invariant *)

\* The files that have a row, and those a conversation need not have one of.
Kept == {r.file : r \in rows}
Shown == unrecorded \cup failed \cup Kept

\* An identified row is of a file of an event that was handled, or of one that
\* a tool created.
RowsOK == \A r \in rows : r.id =>
    /\ r.file \in EventFiles \cup created
    /\ \A e \in Events : r.file \in Range(FilesOf[e]) => handled[e] > 0

\* While an event is handled for the first time, the files it has still to
\* record have no row.
FirstTimeOK ==
    /\ event # NoEvent => handled[event] > 0
    /\ phase \in {"history", "input"} /\ handled[event] = 1 =>
         \A r \in rows : \A i \in next..Len(FilesOf[event]) :
            r.id => r.file # FilesOf[event][i]

\* How far the run has come with the files of its event.
ProgressOK ==
    /\ phase = "history" => next = 1 /\ todo \subseteq Kept
    /\ phase = "input" =>
         /\ todo \subseteq Range(FilesOf[event])
         /\ Range(FilesOf[event]) \subseteq todo \cup built \cup failed
         /\ \A i \in 1..Len(FilesOf[event]) :
              i < next => FilesOf[event][i] \in failed \cup Kept
    /\ phase \in {"agent", "flush"} => Range(FilesOf[event]) \subseteq failed \cup Kept

\* What is on the bus has a row, or is one of the files being recorded, or was
\* put there by a tool that records nothing.
BusOK ==
    \A f \in Range(bus) : f \in Shown \/ (phase = "input" /\ f \in Range(FilesOf[event]))

Inv ==
    /\ TypeOK
    /\ RowsOK /\ FirstTimeOK /\ ProgressOK /\ BusOK
    /\ HistoryBrokenOnlyByRedelivery /\ ReceivedFilesAreKept /\ DeliveredFilesAreShown

-----------------------------------------------------------------------------
(* Facts about the files and the rows *)

\* The files of an event are documents, and those of one event only.
LEMMA FilesOfEvents ==
    ASSUME NEW e \in Events
    PROVE  /\ Len(FilesOf[e]) \in Nat
           /\ Range(FilesOf[e]) = {FilesOf[e][i] : i \in 1..Len(FilesOf[e])}
           /\ Range(FilesOf[e]) \subseteq EventFiles
           /\ \A i, j \in 1..Len(FilesOf[e]) : FilesOf[e][i] = FilesOf[e][j] => i = j
<1>1. FilesOf[e] \in Seq(EventFiles)
  BY FilesAssumption
<1>2. DOMAIN FilesOf[e] = 1..Len(FilesOf[e]) /\ Len(FilesOf[e]) \in Nat
  BY <1>1
<1> QED
  BY <1>1, <1>2, DocumentsAssumption DEF Range, EventFiles, IsInjective

\* A file appended to the bus is on it, with those that were.
LEMMA RangeAppend ==
    ASSUME NEW s \in Seq(Documents), NEW f \in Documents
    PROVE  /\ Append(s, f) \in Seq(Documents)
           /\ Range(Append(s, f)) = Range(s) \cup {f}
<1>1. /\ DOMAIN s = 1..Len(s) /\ DOMAIN Append(s, f) = 1..(Len(s) + 1) /\ Len(s) \in Nat
      /\ \A i \in 1..Len(s) : Append(s, f)[i] = s[i]
      /\ Append(s, f)[Len(s) + 1] = f
  OBVIOUS
<1> QED
  BY <1>1 DEF Range

LEMMA RangeEmpty == Range(<<>>) = {}
BY DEF Range

\* What a row adds to the files that are kept.
LEMMA RowAdds == \A row : rows' = rows \cup {row} => Kept' = Kept \cup {row.file}
<1>1. \A g : g \in Kept' <=> \E r \in rows' : r.file = g
  BY DEF Kept
<1>2. \A g : g \in Kept <=> \E r \in rows : r.file = g
  BY DEF Kept
<1> QED
  BY <1>1, <1>2

\* Where the run is with its event.
LEMMA EventOfRun ==
    TypeOK /\ phase # "idle" => event \in Events
BY DEF TypeOK

-----------------------------------------------------------------------------
(* Every step keeps it *)

LEMMA InvInitially == Init => Inv
<1> SUFFICES ASSUME Init PROVE Inv
  OBVIOUS
<1>1. TypeOK
  BY FilesAssumption DEF Init, TypeOK
<1>2. RowsOK /\ ProgressOK /\ HistoryBrokenOnlyByRedelivery /\ DeliveredFilesAreShown
  BY DEF Init, RowsOK, ProgressOK, HistoryBrokenOnlyByRedelivery, DeliveredFilesAreShown
<1>3. FirstTimeOK /\ ReceivedFilesAreKept
  BY DEF Init, FirstTimeOK, ReceivedFilesAreKept
<1>4. BusOK
  BY RangeEmpty DEF Init, BusOK
<1> QED
  BY <1>1, <1>2, <1>3, <1>4 DEF Inv

\* The files of an event handled for the first time have no row yet.
LEMMA BeginKeeps ==
    ASSUME Inv, NEW e \in Events, Begin(e)
    PROVE  Inv'
<1>0. /\ TypeOK /\ phase = "idle" /\ event = NoEvent /\ e # NoEvent
      /\ phase' = "history" /\ event' = e /\ next' = 1 /\ todo' = HistoryFiles
      /\ handled' = [handled EXCEPT ![e] = @ + 1] /\ handled \in [Events -> Nat]
      /\ UNCHANGED <<rows, stored, bus, unrecorded, failed, crashed, refused, delivered, created>>
  BY FilesAssumption DEF Inv, TypeOK, Begin, conversationVars
<1>1. HistoryFiles \subseteq Kept /\ HistoryFiles \subseteq Documents
  <2>1. EventFiles \cup created \subseteq Documents
    BY <1>0 DEF TypeOK, Documents
  <2> QED
    BY <2>1 DEF Inv, RowsOK, HistoryFiles, InHistory, Kept
<1>2. \A d \in Events : handled'[d] \in Nat /\ handled'[d] >= handled[d]
  BY <1>0
<1>3. TypeOK'
  BY <1>0, <1>1 DEF TypeOK, Begin
<1>4. Kept' = Kept /\ Shown' = Shown /\ HandledAgain \subseteq HandledAgain'
  BY <1>0, <1>2 DEF Kept, Shown, HandledAgain
<1>5. RowsOK'
  BY <1>0, <1>2 DEF Inv, RowsOK
<1>6. FirstTimeOK'
  <2>1. handled'[e] = handled[e] + 1 /\ handled[e] \in Nat
    BY <1>0
  <2>2. ASSUME handled[e] = 0, NEW r \in rows, NEW i \in 1..Len(FilesOf[e])
        PROVE  r.id => r.file # FilesOf[e][i]
    BY <2>2, FilesOfEvents DEF Inv, RowsOK
  <2> QED
    BY <1>0, <2>1, <2>2 DEF FirstTimeOK
<1>7. ProgressOK'
  BY <1>0, <1>1, <1>4 DEF ProgressOK
<1>8. BusOK'
  BY <1>0, <1>4 DEF Inv, BusOK
<1>9. HistoryBrokenOnlyByRedelivery'
  BY <1>0, <1>4 DEF Inv, HistoryBrokenOnlyByRedelivery
<1>10. ReceivedFilesAreKept'
  <2>1. \A d \in Events : d # e => handled'[d] = handled[d]
    BY <1>0
  <2>2. HandledAgain # {} => HandledAgain' # {}
    BY <1>4
  <2>3. ASSUME NEW d \in Events, d # e, handled[d] > 0
        PROVE  \/ \A f \in Range(FilesOf[d]) : f \in failed \/ \E r \in rows : r.file = f
               \/ d \in crashed
               \/ d \in refused /\ HandledAgain # {}
    BY <1>0, <2>3, FilesAssumption DEF Inv, ReceivedFilesAreKept
  <2> QED
    BY <1>0, <2>1, <2>2, <2>3 DEF ReceivedFilesAreKept
<1>11. DeliveredFilesAreShown'
  BY <1>0 DEF Inv, DeliveredFilesAreShown
<1> QED
  BY <1>3, <1>5, <1>6, <1>7, <1>8, <1>9, <1>10, <1>11 DEF Inv

\* A download that ends leaves its file on the bus or not, and a failed one of
\* a file of the event among the failures.
LEMMA FetchKeeps ==
    ASSUME Inv, NEW f \in Documents, Fetch(f)
    PROVE  Inv'
<1>0. /\ TypeOK /\ phase \in {"history", "input"} /\ f \in todo /\ todo' = todo \ {f}
      /\ event \in Events
      /\ UNCHANGED <<rows, stored, phase, event, next, unrecorded, handled, crashed, refused,
                     delivered, created>>
  BY EventOfRun DEF Inv, Fetch, conversationVars
<1>1. /\ bus' \in Seq(Documents)
      /\ Range(bus') \subseteq Range(bus) \cup {f}
  BY <1>0, RangeAppend DEF Fetch, AddMedia, TypeOK
<1>2. /\ built \subseteq built' /\ built' \subseteq Documents
      /\ failed \subseteq failed' /\ failed' \subseteq Files
      /\ phase = "input" => f \in built' \cup failed'
      /\ faults' \in Nat
  BY <1>0 DEF Fetch, TypeOK, Spend, Files
<1>3. TypeOK'
  BY <1>0, <1>1, <1>2 DEF TypeOK, Fetch
<1>4. Kept' = Kept /\ Shown \subseteq Shown'
  BY <1>0, <1>2 DEF Kept, Shown
<1>5. RowsOK' /\ FirstTimeOK' /\ HistoryBrokenOnlyByRedelivery'
  BY <1>0 DEF Inv, RowsOK, FirstTimeOK, HistoryBrokenOnlyByRedelivery, HandledAgain
<1>6. ProgressOK'
  BY <1>0, <1>2, <1>4 DEF Inv, ProgressOK
<1>7. BusOK'
  <2>1. f \in Shown \/ (phase = "input" /\ f \in Range(FilesOf[event]))
    BY <1>0 DEF Inv, ProgressOK, Shown
  <2> QED
    BY <1>0, <1>1, <1>4, <2>1 DEF Inv, BusOK
<1>8. ReceivedFilesAreKept'
  BY <1>0, <1>2 DEF Inv, ReceivedFilesAreKept, HandledAgain
<1>9. DeliveredFilesAreShown'
  BY <1>0, <1>2 DEF Inv, DeliveredFilesAreShown
<1> QED
  BY <1>3, <1>5, <1>6, <1>7, <1>8, <1>9 DEF Inv

\* A run that stops leaves the files of its event recorded or failed, or its
\* event among those that crashed or were refused; what it leaves on the bus is
\* shown, or was a failure.
LEMMA StopKeeps ==
    ASSUME Inv, phase # "idle", Stop,
           TypeOK', RowsOK', HistoryBrokenOnlyByRedelivery',
           UNCHANGED <<unrecorded, handled, delivered>>,
           rows \subseteq rows', failed \subseteq failed',
           crashed \subseteq crashed', refused \subseteq refused',
           bus' = <<>> \/ bus' = bus,
           phase = "input" => bus' = <<>> \/ Range(FilesOf[event]) \subseteq failed' \cup Kept',
           \/ Range(FilesOf[event]) \subseteq failed' \cup Kept'
           \/ event \in crashed'
           \/ event \in refused' /\ HandledAgain # {}
    PROVE  Inv'
<1>0. /\ TypeOK /\ event \in Events
      /\ phase' = "idle" /\ event' = NoEvent
  BY EventOfRun DEF Inv, Stop
<1>1. Kept \subseteq Kept' /\ Shown \subseteq Shown' /\ HandledAgain' = HandledAgain
  <2>1. \A g : g \in Kept' <=> \E r \in rows' : r.file = g
    BY DEF Kept
  <2>2. \A g : g \in Kept <=> \E r \in rows : r.file = g
    BY DEF Kept
  <2> QED
    BY <2>1, <2>2 DEF Shown, HandledAgain
<1>2. DeliveredFilesAreShown'
  BY DEF Inv, DeliveredFilesAreShown
<1>3. FirstTimeOK' /\ ProgressOK'
  BY <1>0 DEF FirstTimeOK, ProgressOK
<1>4. BusOK'
  <2>1. CASE bus' = <<>>
    BY <2>1, RangeEmpty DEF BusOK
  <2>2. CASE bus' = bus /\ phase # "input"
    BY <1>1, <2>2 DEF Inv, BusOK
  <2>3. CASE bus' = bus /\ Range(FilesOf[event]) \subseteq failed' \cup Kept'
    <3>1. Range(FilesOf[event]) \subseteq Shown'
      BY <2>3 DEF Shown
    <3> QED
      BY <1>1, <2>3, <3>1 DEF Inv, BusOK
  <2> QED
    BY <2>1, <2>2, <2>3
<1>5. ReceivedFilesAreKept'
  <2> SUFFICES ASSUME NEW e \in Events, handled[e] > 0
               PROVE  \/ \A f \in Range(FilesOf[e]) : f \in failed' \/ \E r \in rows' : r.file = f
                      \/ e \in crashed'
                      \/ e \in refused' /\ HandledAgain # {}
    BY <1>1 DEF ReceivedFilesAreKept
  <2>1. CASE e # event
    BY <2>1 DEF Inv, ReceivedFilesAreKept
  <2>2. CASE e = event /\ Range(FilesOf[event]) \subseteq failed' \cup Kept'
    BY <2>2 DEF Kept
  <2>3. CASE e = event /\ ~(Range(FilesOf[event]) \subseteq failed' \cup Kept')
    BY <2>3
  <2> QED
    BY <2>1, <2>2, <2>3
<1> QED
  BY <1>2, <1>3, <1>4, <1>5 DEF Inv

\* A run that stops leaves its variables well formed.
LEMMA StopTypes ==
    ASSUME TypeOK, Stop, bus' = <<>> \/ bus' = bus, faults' \in Nat, stored' \in Nat,
           rows' \subseteq [at : Nat, file : Files, id : BOOLEAN], failed' \subseteq Files,
           crashed' \subseteq Events, refused' \subseteq Events,
           UNCHANGED <<created, unrecorded, handled, delivered>>
    PROVE  TypeOK'
<1>1. bus' \in Seq(Documents) /\ attached' \in Seq(Files)
  <2>1. bus \in Seq(Documents) /\ attached' = <<>>
    BY DEF TypeOK, Stop
  <2>2. \A S : <<>> \in Seq(S)
    OBVIOUS
  <2> QED
    BY <2>1, <2>2
<1>2. /\ phase' \in {"idle", "history", "input", "agent", "flush"}
      /\ event' \in Events \cup {NoEvent} /\ (event' = NoEvent <=> phase' = "idle")
      /\ todo' \subseteq Documents /\ built' \subseteq Documents
      /\ next' \in Nat \ {0} /\ tools' \in Nat
  BY DEF TypeOK, Stop
<1>3. /\ created' \subseteq Fresh /\ unrecorded' \subseteq Documents
      /\ handled' \in [Events -> Nat] /\ delivered' \subseteq Files
  BY DEF TypeOK
<1> QED
  BY <1>1, <1>2, <1>3 DEF TypeOK

\* A run may also end without touching the rows, its bus emptied or not.
LEMMA EndRunKeeps ==
    ASSUME Inv, phase # "idle", Stop, bus' = <<>> \/ bus' = bus, faults' \in Nat,
           UNCHANGED <<rows, stored, created, unrecorded, handled, failed, delivered>>,
           crashed \subseteq crashed', crashed' \subseteq Events,
           refused \subseteq refused', refused' \subseteq Events,
           phase = "input" => bus' = <<>>,
           \/ phase \in {"agent", "flush"}
           \/ event \in crashed'
           \/ event \in refused' /\ HandledAgain # {}
    PROVE  Inv'
<1>0. TypeOK
  BY DEF Inv
<1>1. TypeOK'
  BY <1>0, StopTypes DEF TypeOK
<1>2. RowsOK' /\ HistoryBrokenOnlyByRedelivery' /\ Kept' = Kept
  BY DEF Inv, RowsOK, HistoryBrokenOnlyByRedelivery, HandledAgain, Kept
<1>3. phase \in {"agent", "flush"} => Range(FilesOf[event]) \subseteq failed' \cup Kept'
  BY <1>2 DEF Inv, ProgressOK
<1> QED
  BY <1>1, <1>2, <1>3, StopKeeps

LEMMA EndRunOutcomes == TypeOK /\ EndRun => Stop /\ (bus' = <<>> \/ bus' = bus) /\ faults' \in Nat
BY DEF EndRun, Spend, TypeOK

LEMMA HistoryFailsKeeps == Inv /\ HistoryFails => Inv'
<1> SUFFICES ASSUME Inv, HistoryFails PROVE Inv'
  OBVIOUS
<1>1. HandledAgain # {}
  BY DEF Inv, HistoryFails, Repeated, InHistory, HistoryBrokenOnlyByRedelivery
<1>2. event \in Events /\ phase = "history" /\ TypeOK
  BY EventOfRun DEF Inv, HistoryFails
<1> QED
  BY <1>1, <1>2, EndRunKeeps, EndRunOutcomes DEF HistoryFails, TypeOK, conversationVars

LEMMA BreakKeeps == Inv /\ Break => Inv'
<1> SUFFICES ASSUME Inv, Break PROVE Inv'
  OBVIOUS
<1>1. TypeOK /\ phase = "agent"
  BY DEF Inv, Break
<1> QED
  BY <1>1, EndRunKeeps, EndRunOutcomes DEF Break, TypeOK, conversationVars

LEMMA EndKeeps == Inv /\ End => Inv'
<1> SUFFICES ASSUME Inv, End PROVE Inv'
  OBVIOUS
<1>1. TypeOK /\ phase = "flush"
  BY DEF Inv, End
<1> QED
  BY <1>1, EndRunKeeps, EndRunOutcomes DEF End, TypeOK, conversationVars

LEMMA CrashKeeps == Inv /\ Crash => Inv'
<1> SUFFICES ASSUME Inv, Crash PROVE Inv'
  OBVIOUS
<1>1. event \in Events /\ phase # "idle" /\ TypeOK /\ faults' \in Nat
  BY EventOfRun DEF Inv, Crash, Spend, TypeOK
<1> QED
  BY <1>1, EndRunKeeps DEF Crash, TypeOK, conversationVars

\* The row of the next file of the event: nobody else's file is the same
\* document, and a second row of it is made only when the event comes again.
LEMMA RowOfEvent ==
    ASSUME Inv, phase = "input", next \in 1..Len(FilesOf[event]),
           AddRow(FilesOf[event][next], TRUE), UNCHANGED <<created, handled>>
    PROVE  /\ RowsOK' /\ HistoryBrokenOnlyByRedelivery'
           /\ rows' \subseteq [at : Nat, file : Files, id : BOOLEAN] /\ rows \subseteq rows'
           /\ \A r \in rows' : r \in rows \/ r.file = FilesOf[event][next]
           /\ Kept' = Kept \cup {FilesOf[event][next]}
<1> DEFINE f == FilesOf[event][next]
<1> DEFINE row == MediaRow(stored + 1, f, TRUE)
<1>0. /\ TypeOK /\ event \in Events /\ handled[event] \in Nat /\ handled[event] > 0
      /\ next \in Nat /\ Len(FilesOf[event]) \in Nat
  BY EventOfRun, FilesOfEvents, FilesAssumption DEF Inv, TypeOK, FirstTimeOK
<1>1. f \in Range(FilesOf[event]) /\ f \in EventFiles /\ f \in Files
  BY <1>0, FilesOfEvents DEF Documents, Files
<1>2. rows' = rows \cup {row} /\ stored + 1 \in Nat
  <2>1. rows' = rows \cup {row}
    BY Zenon DEF AddRow
  <2> QED
    BY <1>0, <2>1 DEF TypeOK
<1>3. row.file = f /\ row.id = TRUE /\ row \in [at : Nat, file : Files, id : BOOLEAN]
  BY <1>1, <1>2 DEF MediaRow
<1> HIDE DEF row
<1>4. Kept' = Kept \cup {f}
  BY <1>2, <1>3, RowAdds
<1>5. RowsOK'
  <2>1. \A e \in Events : f \in Range(FilesOf[e]) => handled[e] > 0
    BY <1>0, <1>1, DocumentsAssumption
  <2> QED
    BY <1>1, <1>2, <1>3, <2>1 DEF Inv, RowsOK
<1>6. HistoryBrokenOnlyByRedelivery'
  <2>1. handled[event] = 1 => \A r \in rows : r.id => r.file # f
    BY <1>0 DEF Inv, FirstTimeOK
  <2>2. handled[event] = 1 \/ event \in HandledAgain
    BY <1>0 DEF HandledAgain
  <2>3. HandledAgain' = HandledAgain
    BY DEF HandledAgain
  <2> QED
    BY <1>0, <1>1, <1>2, <1>3, <2>1, <2>2, <2>3 DEF Inv, HistoryBrokenOnlyByRedelivery
<1>7. rows' \subseteq [at : Nat, file : Files, id : BOOLEAN]
  BY <1>0, <1>2, <1>3 DEF TypeOK
<1> QED
  BY <1>2, <1>3, <1>4, <1>5, <1>6, <1>7

\* A failed write while the event is recorded: what is not recorded yet is lost,
\* and no more than that.
LEMMA InputFailsKeeps == Inv /\ InputFails => Inv'
<1> SUFFICES ASSUME Inv, InputFails PROVE Inv'
  OBVIOUS
<1> DEFINE lost == {FilesOf[event][i] : i \in next..Len(FilesOf[event])}
<1>0. /\ TypeOK /\ event \in Events /\ phase \in {"history", "input"} /\ Stop
      /\ failed' = failed \cup lost /\ faults' \in Nat /\ next \in Nat \ {0}
      /\ bus' = <<>> \/ bus' = bus
      /\ UNCHANGED <<created, unrecorded, handled, crashed, refused, delivered>>
  BY EventOfRun DEF Inv, InputFails, Spend, TypeOK
<1>1. lost \subseteq Range(FilesOf[event]) /\ lost \subseteq Files
  <2>1. \A i \in next..Len(FilesOf[event]) : i \in 1..Len(FilesOf[event])
    BY <1>0, FilesOfEvents
  <2>2. lost \subseteq Range(FilesOf[event])
    BY <1>0, <2>1, FilesOfEvents
  <2> QED
    BY <1>0, <2>2, FilesOfEvents DEF Documents, Files
<1>2. Range(FilesOf[event]) \subseteq lost \cup failed \cup Kept
  <2>1. ASSUME NEW i \in 1..Len(FilesOf[event])
        PROVE  FilesOf[event][i] \in lost \cup failed \cup Kept
    <3>1. CASE i >= next
      BY <1>0, <3>1, FilesOfEvents
    <3>2. CASE i < next
      BY <1>0, <3>2, FilesOfEvents DEF Inv, ProgressOK
    <3> QED
      BY <1>0, <3>1, <3>2, FilesOfEvents
  <2>2. Range(FilesOf[event]) = {FilesOf[event][i] : i \in 1..Len(FilesOf[event])}
    BY <1>0, FilesOfEvents
  <2> HIDE DEF lost
  <2> QED
    BY <2>1, <2>2
<1> HIDE DEF lost
<1>3. /\ RowsOK' /\ HistoryBrokenOnlyByRedelivery' /\ rows \subseteq rows' /\ Kept \subseteq Kept'
      /\ rows' \subseteq [at : Nat, file : Files, id : BOOLEAN] /\ stored' \in Nat
  <2>1. CASE UNCHANGED rows /\ stored' \in stored..stored + 1
    <3>1. Kept' = Kept /\ HandledAgain' = HandledAgain
      BY <1>0, <2>1 DEF Kept, HandledAgain
    <3>2. stored' \in Nat /\ rows' \subseteq [at : Nat, file : Files, id : BOOLEAN]
      BY <1>0, <2>1 DEF TypeOK
    <3> QED
      BY <1>0, <2>1, <3>1, <3>2 DEF Inv, RowsOK, HistoryBrokenOnlyByRedelivery
  <2>2. CASE /\ phase = "input" /\ next \in 1..Len(FilesOf[event])
             /\ AddRow(FilesOf[event][next], TRUE)
             /\ stored' \in stored + 1..stored + RowsOf(FilesOf[event][next])
    <3>1. stored' \in Nat
      BY <1>0, <2>2 DEF RowsOf, TypeOK
    <3> QED
      BY <1>0, <2>2, <3>1, RowOfEvent
  <2>3. phase = "input" /\ next <= Len(FilesOf[event]) => next \in 1..Len(FilesOf[event])
    BY <1>0, FilesOfEvents
  <2>4. stored \in stored..stored + 1
    BY <1>0 DEF TypeOK
  <2> QED
    BY <2>1, <2>2, <2>3, <2>4 DEF InputFails, conversationVars
<1>4. TypeOK'
  BY <1>0, <1>1, <1>3, StopTypes DEF TypeOK
<1>5. Range(FilesOf[event]) \subseteq failed' \cup Kept'
  BY <1>0, <1>2, <1>3
<1> QED
  BY <1>0, <1>3, <1>4, <1>5, StopKeeps

\* The text of the event is stored; its files are fetched next.
LEMMA HistoryLoadsKeeps == Inv /\ HistoryLoads => Inv'
<1> SUFFICES ASSUME Inv, HistoryLoads PROVE Inv'
  OBVIOUS
<1>0. /\ TypeOK /\ event \in Events /\ phase = "history" /\ phase' = "input" /\ next = 1
      /\ todo' = Range(FilesOf[event]) /\ built' = {} /\ stored' = stored + 1
      /\ UNCHANGED <<rows, bus, event, next, attached, tools, created, unrecorded, handled,
                     failed, crashed, refused, delivered, faults>>
  BY EventOfRun DEF Inv, HistoryLoads, ghostVars, ProgressOK
<1>1. Range(FilesOf[event]) \subseteq Documents
  BY <1>0, FilesOfEvents DEF Documents
<1>2. TypeOK'
  BY <1>0, <1>1 DEF TypeOK
<1>3. Kept' = Kept /\ Shown' = Shown
  BY <1>0 DEF Kept, Shown
<1>4. RowsOK' /\ HistoryBrokenOnlyByRedelivery' /\ DeliveredFilesAreShown'
  BY <1>0 DEF Inv, RowsOK, HistoryBrokenOnlyByRedelivery, DeliveredFilesAreShown, HandledAgain
<1>5. FirstTimeOK'
  BY <1>0 DEF Inv, FirstTimeOK
<1>6. ProgressOK'
  BY <1>0 DEF ProgressOK
<1>7. BusOK'
  BY <1>0, <1>3 DEF Inv, BusOK
<1>8. ReceivedFilesAreKept'
  BY <1>0 DEF Inv, ReceivedFilesAreKept, HandledAgain
<1> QED
  BY <1>2, <1>4, <1>5, <1>6, <1>7, <1>8 DEF Inv

\* The next file of the event is recorded, or was among the failures; nobody
\* else's file is the same document.
LEMMA RecordNextKeeps == Inv /\ RecordNext => Inv'
<1> SUFFICES ASSUME Inv, RecordNext PROVE Inv'
  OBVIOUS
<1> DEFINE f == FilesOf[event][next]
<1>0. /\ TypeOK /\ event \in Events /\ phase = "input" /\ todo = {} /\ next' = next + 1
      /\ next \in 1..Len(FilesOf[event]) /\ next \in Nat /\ Len(FilesOf[event]) \in Nat
      /\ handled[event] \in Nat /\ handled[event] > 0
      /\ UNCHANGED <<bus, phase, event, todo, built, attached, tools, created, unrecorded,
                     handled, failed, crashed, refused, delivered, faults>>
  BY EventOfRun, FilesOfEvents, FilesAssumption DEF Inv, RecordNext, ghostVars, TypeOK, FirstTimeOK
<1>1. /\ f \in Range(FilesOf[event]) /\ f \in EventFiles /\ f \in Documents /\ f \in Files
      /\ Range(FilesOf[event]) \subseteq built \cup failed
  BY <1>0, FilesOfEvents DEF Inv, ProgressOK, Documents, Files
<1>2. CASE f \in built
  <2>0. AddRow(f, TRUE) /\ (stored' = stored + 1 \/ stored' = stored + 2)
    BY <1>2 DEF RecordNext, Record, RowsOf
  <2>1. /\ RowsOK' /\ HistoryBrokenOnlyByRedelivery' /\ rows \subseteq rows'
        /\ rows' \subseteq [at : Nat, file : Files, id : BOOLEAN]
        /\ \A r \in rows' : r \in rows \/ r.file = f
        /\ Kept' = Kept \cup {f}
    BY <1>0, <2>0, RowOfEvent
  <2>2. stored' \in Nat
    BY <1>0, <2>0 DEF TypeOK
  <2> HIDE DEF f
  <2>4. TypeOK'
    BY <1>0, <2>1, <2>2 DEF TypeOK
  <2>6. FirstTimeOK'
    <3>1. \A i \in next + 1..Len(FilesOf[event]) :
            i \in next..Len(FilesOf[event]) /\ f # FilesOf[event][i]
      BY <1>0, FilesOfEvents DEF f
    <3>2. ASSUME handled[event] = 1, NEW r \in rows', NEW i \in next + 1..Len(FilesOf[event])
          PROVE  r.id => r.file # FilesOf[event][i]
      BY <1>0, <2>1, <3>1, <3>2 DEF Inv, FirstTimeOK
    <3> QED
      BY <1>0, <3>2 DEF FirstTimeOK
  <2>7. ProgressOK'
    <3>1. \A i \in 1..Len(FilesOf[event]) : i < next + 1 => i < next \/ FilesOf[event][i] = f
      BY <1>0 DEF f
    <3> QED
      BY <1>0, <2>1, <3>1 DEF Inv, ProgressOK
  <2>8. BusOK'
    BY <1>0, <2>1 DEF Inv, BusOK, Shown
  <2>10. ReceivedFilesAreKept' /\ DeliveredFilesAreShown'
    BY <1>0, <2>1 DEF Inv, ReceivedFilesAreKept, DeliveredFilesAreShown, HandledAgain
  <2> QED
    BY <2>1, <2>4, <2>6, <2>7, <2>8, <2>10 DEF Inv
<1>3. CASE f \notin built
  <2>1. UNCHANGED <<rows, stored>> /\ f \in failed
    BY <1>1, <1>3 DEF RecordNext, conversationVars
  <2>2. TypeOK'
    BY <1>0, <2>1 DEF TypeOK
  <2>3. Kept' = Kept
    BY <2>1 DEF Kept
  <2>4. RowsOK' /\ HistoryBrokenOnlyByRedelivery' /\ ReceivedFilesAreKept' /\ DeliveredFilesAreShown'
    BY <1>0, <2>1 DEF Inv, RowsOK, HistoryBrokenOnlyByRedelivery, ReceivedFilesAreKept,
         DeliveredFilesAreShown, HandledAgain
  <2>5. FirstTimeOK'
    BY <1>0, <2>1 DEF Inv, FirstTimeOK
  <2>6. ProgressOK'
    <3>1. \A i \in 1..Len(FilesOf[event]) : i < next + 1 => i < next \/ i = next
      BY <1>0
    <3> QED
      BY <1>0, <2>1, <2>3, <3>1 DEF Inv, ProgressOK
  <2>7. BusOK'
    BY <1>0, <2>3 DEF Inv, BusOK, Shown
  <2> QED
    BY <2>2, <2>4, <2>5, <2>6, <2>7 DEF Inv
<1> QED
  BY <1>2, <1>3

\* All files of the event are recorded or failed.
LEMMA InputRecordedKeeps == Inv /\ InputRecorded => Inv'
<1> SUFFICES ASSUME Inv, InputRecorded PROVE Inv'
  OBVIOUS
<1>0. /\ TypeOK /\ event \in Events /\ phase = "input" /\ phase' = "agent" /\ next \in Nat
      /\ next > Len(FilesOf[event])
      /\ UNCHANGED <<rows, stored, bus, event, todo, built, next, attached, tools, created,
                     unrecorded, handled, failed, crashed, refused, delivered, faults>>
  BY EventOfRun DEF Inv, InputRecorded, conversationVars, ghostVars, TypeOK
<1>1. Range(FilesOf[event]) \subseteq failed \cup Kept
  BY <1>0, FilesOfEvents DEF Inv, ProgressOK
<1>2. Kept' = Kept /\ Shown' = Shown
  BY <1>0 DEF Kept, Shown
<1>3. TypeOK'
  BY <1>0 DEF TypeOK
<1>4. RowsOK' /\ HistoryBrokenOnlyByRedelivery' /\ ReceivedFilesAreKept' /\ DeliveredFilesAreShown'
  BY <1>0 DEF Inv, RowsOK, HistoryBrokenOnlyByRedelivery, ReceivedFilesAreKept,
       DeliveredFilesAreShown, HandledAgain
<1>5. FirstTimeOK' /\ ProgressOK'
  BY <1>0, <1>1, <1>2 DEF Inv, FirstTimeOK, ProgressOK
<1>6. BusOK'
  BY <1>0, <1>1, <1>2 DEF Inv, BusOK, Shown
<1> QED
  BY <1>3, <1>4, <1>5, <1>6 DEF Inv

\* What a tool or the end of a run may do to the files: add one row, of a new
\* document if it is identified, and show what it puts on the bus or sends.
Late ==
    /\ phase \in {"agent", "flush"} /\ phase' \in {"agent", "flush"}
    /\ UNCHANGED <<event, handled, crashed, refused>>
    /\ rows \subseteq rows' /\ unrecorded \subseteq unrecorded' /\ failed \subseteq failed'
    /\ created \subseteq created'
    /\ \A r \in rows' : r \in rows \/ (r.id => r.file \in created' \ created)
    /\ \A r, s \in rows' : r \in rows \/ s \in rows \/ r = s
    /\ Range(bus') \subseteq Range(bus) \cup Shown'
    /\ delivered' \subseteq delivered \cup Shown'

LEMMA LateKeeps == Inv /\ Late /\ TypeOK' => Inv'
<1> SUFFICES ASSUME Inv, Late, TypeOK' PROVE Inv'
  OBVIOUS
<1>0. /\ TypeOK /\ event \in Events /\ phase \in {"agent", "flush"}
      /\ phase' \in {"agent", "flush"} /\ event' = event /\ handled' = handled
      /\ crashed' = crashed /\ refused' = refused /\ created' \subseteq Fresh
  BY EventOfRun DEF Inv, Late, TypeOK
<1>1. HandledAgain' = HandledAgain
  BY <1>0 DEF HandledAgain
<1>2. Kept \subseteq Kept' /\ Shown \subseteq Shown'
  <2>1. \A g : g \in Kept' <=> \E r \in rows' : r.file = g
    BY DEF Kept
  <2>2. \A g : g \in Kept <=> \E r \in rows : r.file = g
    BY DEF Kept
  <2>3. Kept \subseteq Kept'
    BY <2>1, <2>2 DEF Late
  <2> QED
    BY <2>3 DEF Late, Shown
<1>3. created' \cap EventFiles = {}
  BY <1>0, DocumentsAssumption
<1>4. RowsOK'
  <2>1. \A e \in Events : Range(FilesOf[e]) \subseteq EventFiles
    BY FilesOfEvents
  <2> SUFFICES ASSUME NEW r \in rows'
               PROVE  r.id => /\ r.file \in EventFiles \cup created'
                              /\ \A e \in Events : r.file \in Range(FilesOf[e]) => handled[e] > 0
    BY <1>0 DEF RowsOK
  <2>2. CASE r \in rows
    BY <2>2 DEF Inv, RowsOK, Late
  <2>3. CASE r \notin rows
    BY <1>3, <2>1, <2>3 DEF Late
  <2> QED
    BY <2>2, <2>3
<1>5. FirstTimeOK'
  BY <1>0 DEF Inv, FirstTimeOK
<1>6. ProgressOK'
  BY <1>0, <1>2 DEF Inv, ProgressOK, Late
<1>7. BusOK'
  BY <1>0, <1>2 DEF Inv, BusOK, Late
<1>8. HistoryBrokenOnlyByRedelivery'
  <2> SUFFICES ASSUME NEW r \in rows', NEW s \in rows', r # s, r.id, s.id, r.file = s.file
               PROVE  \E e \in HandledAgain : r.file \in Range(FilesOf[e])
    BY <1>1 DEF HistoryBrokenOnlyByRedelivery
  <2>1. CASE r \in rows /\ s \in rows
    BY <2>1 DEF Inv, HistoryBrokenOnlyByRedelivery
  <2>2. CASE r \in rows /\ s \notin rows
    BY <1>3, <2>2 DEF Inv, RowsOK, Late
  <2>3. CASE r \notin rows /\ s \in rows
    BY <1>3, <2>3 DEF Inv, RowsOK, Late
  <2> QED
    BY <2>1, <2>2, <2>3 DEF Late
<1>9. ReceivedFilesAreKept'
  BY <1>0, <1>1 DEF Inv, ReceivedFilesAreKept, Late
<1>10. DeliveredFilesAreShown'
  <2>1. \A f \in Shown' : f \in unrecorded' \cup failed' \/ \E r \in rows' : r.file = f
    BY DEF Shown, Kept
  <2>2. delivered \subseteq Shown
    BY DEF Inv, DeliveredFilesAreShown, Shown, Kept
  <2> QED
    BY <1>2, <2>1, <2>2 DEF DeliveredFilesAreShown, Late
<1> QED
  BY <1>4, <1>5, <1>6, <1>7, <1>8, <1>9, <1>10 DEF Inv

LEMMA SayKeeps == Inv /\ Say => Inv'
<1> SUFFICES ASSUME Inv, Say PROVE Inv'
  OBVIOUS
<1>1. TypeOK'
  BY DEF Inv, TypeOK, Say, Tool
<1>2. Late
  BY DEF Late, Say, Tool
<1> QED
  BY <1>1, <1>2, LateKeeps

\* A new document of a tool or of the answer: with its row, or its failure.
Recorded(f) ==
    /\ NewDocument(f)
    /\ \/ AddRow(f, TRUE) /\ stored' = stored + 1 /\ UNCHANGED <<failed, faults>>
       \/ RecordFails(f)

LEMMA RecordedOutcomes ==
    ASSUME Inv, NEW f \in Fresh, Recorded(f)
    PROVE  /\ f \in Files /\ f \in Documents
           /\ rows' \subseteq [at : Nat, file : Files, id : BOOLEAN] /\ stored' \in Nat
           /\ failed' \subseteq Files /\ faults' \in Nat /\ created' \subseteq Fresh
           /\ rows \subseteq rows' /\ failed \subseteq failed' /\ created \subseteq created'
           /\ \A r \in rows' : r \in rows \/ (r.id => r.file \in created' \ created)
           /\ \A r, s \in rows' : r \in rows \/ s \in rows \/ r = s
           /\ f \in Shown'
<1> DEFINE row == MediaRow(stored + 1, f, TRUE)
<1>0. /\ TypeOK /\ f \in Fresh \ created /\ created' = created \cup {f}
      /\ f \in Files /\ f \in Documents
  BY DEF Inv, Recorded, NewDocument, Files, Documents
<1>1. row.file = f /\ row.id = TRUE /\ row \in [at : Nat, file : Files, id : BOOLEAN]
  BY <1>0 DEF MediaRow, TypeOK
<1>2. /\ rows' = rows \/ rows' = rows \cup {row}
      /\ stored' = stored + 1 \/ stored' = stored + 2
      /\ \/ rows' = rows \cup {row} /\ failed' = failed /\ faults' = faults
         \/ failed' = failed \cup {f} /\ faults' = faults + 1
  BY Zenon DEF Recorded, RecordFails, Spend, AddRow
<1> HIDE DEF row
<1>3. /\ rows' \subseteq [at : Nat, file : Files, id : BOOLEAN] /\ stored' \in Nat
      /\ failed' \subseteq Files /\ faults' \in Nat /\ created' \subseteq Fresh
  BY <1>0, <1>1, <1>2 DEF TypeOK
<1>4. f \in Shown'
  <2>1. CASE rows' = rows \cup {row}
    BY <1>1, <2>1 DEF Shown, Kept
  <2>2. CASE failed' = failed \cup {f}
    BY <2>2 DEF Shown
  <2> QED
    BY <1>2, <2>1, <2>2
<1> QED
  BY <1>0, <1>1, <1>2, <1>3, <1>4

LEMMA GenerateKeeps ==
    ASSUME Inv, NEW f \in Documents, Generate(f)
    PROVE  Inv'
<1>0. /\ TypeOK /\ f \in Fresh /\ phase = "agent" /\ phase' = "agent" /\ tools' = tools + 1
      /\ bus' = Append(bus, f) \/ bus' = bus
      /\ UNCHANGED <<event, todo, built, next, handled, crashed, refused, delivered,
                     attached, unrecorded>>
  BY DEF Inv, Generate, Tool, NewDocument, AddMedia
<1>1. Recorded(f)
  BY DEF Generate, Recorded
<1>2. bus' \in Seq(Documents) /\ Range(bus') \subseteq Range(bus) \cup {f}
  BY <1>0, RangeAppend DEF TypeOK
<1>3. TypeOK'
  BY <1>0, <1>1, <1>2, RecordedOutcomes DEF TypeOK
<1>4. Late
  BY <1>0, <1>1, <1>2, RecordedOutcomes DEF Late
<1> QED
  BY <1>3, <1>4, LateKeeps

LEMMA RetrieveKeeps ==
    ASSUME Inv, NEW f \in Documents, Retrieve(f)
    PROVE  Inv'
<1>0. /\ TypeOK /\ phase = "agent" /\ phase' = "agent" /\ bus' = Append(bus, f)
      /\ unrecorded' = unrecorded \cup {f} /\ tools' = tools + 1
      /\ stored' \in Nat /\ faults' \in Nat
      /\ UNCHANGED <<rows, event, todo, built, next, handled, crashed, refused, delivered,
                     attached, created, failed>>
  BY DEF Inv, Retrieve, Tool, AddMedia, Spend, TypeOK
<1>1. bus' \in Seq(Documents) /\ Range(bus') = Range(bus) \cup {f}
  BY <1>0, RangeAppend DEF TypeOK
<1>2. TypeOK'
  BY <1>0, <1>1 DEF TypeOK
<1>3. Late
  BY <1>0, <1>1 DEF Late, Shown
<1> QED
  BY <1>2, <1>3, LateKeeps

LEMMA ExtractKeeps ==
    ASSUME Inv, NEW f \in Documents, Extract(f)
    PROVE  Inv'
<1>0. /\ TypeOK /\ phase = "agent" /\ phase' = "agent" /\ bus' = Append(bus, f)
      /\ unrecorded' = unrecorded \cup {f} /\ tools' = tools + 1
      /\ f \in Fresh \ created /\ created' = created \cup {f}
      /\ UNCHANGED <<rows, stored, event, todo, built, next, handled, crashed, refused,
                     delivered, attached, failed, faults>>
  BY DEF Inv, Extract, Receive, NewDocument, Tool, AddMedia, conversationVars
<1>1. bus' \in Seq(Documents) /\ Range(bus') = Range(bus) \cup {f}
  BY <1>0, RangeAppend DEF TypeOK
<1>2. TypeOK'
  BY <1>0, <1>1 DEF TypeOK
<1>3. Late
  BY <1>0, <1>1 DEF Late, Shown
<1> QED
  BY <1>2, <1>3, LateKeeps

LEMMA AttachKeeps ==
    ASSUME Inv, NEW f \in Files, Attach(f)
    PROVE  Inv'
<1>1. TypeOK'
  BY DEF Inv, TypeOK, Attach, Tool, conversationVars
<1>2. Late
  BY DEF Late, Attach, Tool, conversationVars
<1> QED
  BY <1>1, <1>2, LateKeeps

\* The answer is text, or a new document that is recorded and sent.
LEMMA FinishKeeps == Inv /\ Finish => Inv'
<1> SUFFICES ASSUME Inv, Finish PROVE Inv'
  OBVIOUS
<1>0. /\ TypeOK /\ phase = "agent" /\ phase' = "flush"
      /\ UNCHANGED <<bus, event, todo, built, next, attached, tools, unrecorded, handled,
                     crashed, refused>>
  BY DEF Inv, Finish
<1>1. CASE UNCHANGED <<conversationVars, created, delivered, failed, faults>>
  <2>1. TypeOK'
    BY <1>0, <1>1 DEF TypeOK, conversationVars
  <2>2. Late
    BY <1>0, <1>1 DEF Late, conversationVars
  <2> QED
    BY <2>1, <2>2, LateKeeps
<1>2. ASSUME NEW f \in Fresh, Recorded(f), delivered' = delivered \cup {f}
      PROVE  Inv'
  <2>1. TypeOK'
    BY <1>0, <1>2, RecordedOutcomes DEF TypeOK
  <2>2. Late
    BY <1>0, <1>2, RecordedOutcomes DEF Late
  <2> QED
    BY <2>1, <2>2, LateKeeps
<1> QED
  BY <1>1, <1>2 DEF Finish, Recorded

\* An attachment on the bus is shown already; another gets a row without an
\* identifier, or its row fails.
LEMMA FlushKeeps == Inv /\ Flush => Inv'
<1> SUFFICES ASSUME Inv, Flush PROVE Inv'
  OBVIOUS
<1> DEFINE f == Head(attached)
<1>0. /\ TypeOK /\ phase = "flush" /\ phase' = "flush" /\ attached' = Tail(attached)
      /\ delivered' = delivered \cup {f} /\ attached # <<>>
      /\ UNCHANGED <<bus, event, todo, built, next, tools, created, unrecorded, handled,
                     crashed, refused>>
  BY DEF Inv, Flush
<1>1. f \in Files /\ attached' \in Seq(Files)
  BY <1>0, HeadTailProperties DEF TypeOK
<1>2. CASE Persisted(f) /\ UNCHANGED <<conversationVars, failed, faults>>
  <2>0. Kept' = Kept
    BY <1>2 DEF Kept, conversationVars
  <2>1. f \in Shown'
    BY <1>0, <1>2, <2>0 DEF Inv, BusOK, Persisted, Shown
  <2>2. TypeOK'
    BY <1>0, <1>1, <1>2 DEF TypeOK, conversationVars
  <2>3. Late
    BY <1>0, <1>2, <2>1 DEF Late, conversationVars
  <2> QED
    BY <2>2, <2>3, LateKeeps
<1>3. CASE /\ AddRow(f, FALSE) /\ stored' = stored + 1
           /\ \/ UNCHANGED <<failed, faults>>
              \/ Spend /\ failed' = failed \cup {f}
  <2> DEFINE row == MediaRow(stored + 1, f, FALSE)
  <2>1. row.file = f /\ row.id = FALSE /\ row \in [at : Nat, file : Files, id : BOOLEAN]
    BY <1>0, <1>1 DEF MediaRow, TypeOK
  <2>2. rows' = rows \cup {row}
    BY <1>3, Zenon DEF AddRow
  <2>20. failed \subseteq failed' /\ failed' \subseteq failed \cup {f} /\ faults' \in Nat
    BY <1>0, <1>3 DEF Spend, TypeOK
  <2> HIDE DEF row, f
  <2>3. TypeOK'
    <3>0. /\ rows \subseteq [at : Nat, file : Files, id : BOOLEAN] /\ stored \in Nat
          /\ stored' = stored + 1
      BY <1>0, <1>3 DEF TypeOK
    <3>1. rows' \subseteq [at : Nat, file : Files, id : BOOLEAN] /\ stored' \in Nat
      BY <2>1, <2>2, <3>0
    <3>2. delivered' \subseteq Files /\ failed' \subseteq Files
      BY <1>0, <1>1, <2>20 DEF TypeOK
    <3> QED
      BY <1>0, <1>1, <2>20, <3>1, <3>2 DEF TypeOK
  <2>4. f \in Shown'
    BY <2>1, <2>2 DEF Shown, Kept
  <2>5. Late
    BY <1>0, <2>1, <2>2, <2>20, <2>4 DEF Late
  <2> QED
    BY <2>3, <2>5, LateKeeps
<1>4. CASE Spend /\ failed' = failed \cup {f} /\ UNCHANGED conversationVars
  <2>1. TypeOK'
    BY <1>0, <1>1, <1>4 DEF TypeOK, Spend, conversationVars
  <2>2. f \in Shown'
    BY <1>4 DEF Shown
  <2>3. Late
    <3> HIDE DEF f
    <3> QED
      BY <1>0, <1>4, <2>2 DEF Late, conversationVars
  <2> QED
    BY <2>1, <2>3, LateKeeps
<1> QED
  BY <1>2, <1>3, <1>4 DEF Flush

LEMMA StutterKeeps == Inv /\ UNCHANGED vars => Inv'
BY DEF vars, conversationVars, runVars, ghostVars, Inv, TypeOK, RowsOK, FirstTimeOK, ProgressOK,
   BusOK, HistoryBrokenOnlyByRedelivery, ReceivedFilesAreKept, DeliveredFilesAreShown,
   HandledAgain, Shown, Kept

LEMMA StepKeeps == Inv /\ [Next]_vars => Inv'
<1> SUFFICES ASSUME Inv, [Next]_vars PROVE Inv'
  OBVIOUS
<1>1. CASE Run
  BY <1>1, BeginKeeps, FetchKeeps, HistoryFailsKeeps, HistoryLoadsKeeps, RecordNextKeeps,
     InputRecordedKeeps, InputFailsKeeps, BreakKeeps, SayKeeps, GenerateKeeps, RetrieveKeeps, ExtractKeeps, AttachKeeps,
     FinishKeeps, FlushKeeps, EndKeeps DEF Run
<1>2. CASE Crash
  BY <1>2, CrashKeeps
<1>3. CASE UNCHANGED vars
  BY <1>3, StutterKeeps
<1> QED
  BY <1>1, <1>2, <1>3 DEF Next

LEMMA InvHolds == Spec => []Inv
BY InvInitially, StepKeeps, PTL DEF Spec

-----------------------------------------------------------------------------
(* Theorems *)

\* The rows, the bus and the state of the run are well formed; a run has an
\* event exactly while it is not idle.
THEOREM MediaTypes == Spec => []TypeOK
<1>1. Inv => TypeOK
  BY DEF Inv
<1> QED
  BY <1>1, InvHolds, PTL

\* Two identified rows of one document exist only when an event with that file
\* was handled twice: only then can a history become impossible to load.
THEOREM OnlyRedeliveryBreaksHistory == Spec => []HistoryBrokenOnlyByRedelivery
<1>1. Inv => HistoryBrokenOnlyByRedelivery
  BY DEF Inv
<1> QED
  BY <1>1, InvHolds, PTL

\* The files of an event that was handled have a row, unless a fetch or a write
\* of the recording failed, the worker died or the run was turned away because
\* of the history.
THEOREM ReceivedFilesStay == Spec => []ReceivedFilesAreKept
<1>1. Inv => ReceivedFilesAreKept
  BY DEF Inv
<1> QED
  BY <1>1, InvHolds, PTL

\* What was sent with an answer has a row, unless a tool put it on the bus
\* without recording it or its row failed.
THEOREM DeliveredFilesStay == Spec => []DeliveredFilesAreShown
<1>1. Inv => DeliveredFilesAreShown
  BY DEF Inv
<1> QED
  BY <1>1, InvHolds, PTL

\* Both: no file of the conversation is missing in its history for another reason.
THEOREM NoFileIsLost == Spec => []FilesAreKept
<1>1. Inv => FilesAreKept
  BY DEF Inv, FilesAreKept
<1> QED
  BY <1>1, InvHolds, PTL

=============================================================================
