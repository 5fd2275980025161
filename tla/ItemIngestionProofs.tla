------------------------- MODULE ItemIngestionProofs -------------------------
(***************************************************************************)
(* Proofs about ItemIngestion, for any services, tasks, changes, objects,  *)
(* page size and any number of deliveries and faults: nothing is lost      *)
(* behind the checkpoint, and nothing is evaluated again without a reason. *)
(*                                                                         *)
(* A task's plan is always a tail of its handler's, and the tails are few: *)
(* WhatIsLeft says once what the step at the head of a plan leaves to do.  *)
(* On it rest the types and what a task holds at each point of its plan    *)
(* (Base), and for each step a lemma that says what it does to its task    *)
(* (ReadMoves to DeliverMoves).  The two properties then have an invariant *)
(* each, kept by every step in terms of those lemmas: Position, what lies  *)
(* behind the checkpoint and behind what a task read, and Once, which has  *)
(* a part for each kind of service.                                        *)
(***************************************************************************)
EXTENDS ItemIngestion, SequenceTheorems, FiniteSetTheorems, WellFoundedInduction, TLAPS

-----------------------------------------------------------------------------
(* What is left of a plan *)

\* The plans of the handlers that store what they fetch, and of the others.
StoringTails ==
    {<<"read", "fetch", "write", "dedupe", "insert", "collect", "evaluate">>,
     <<"fetch", "write", "dedupe", "insert", "collect", "evaluate">>,
     <<"write", "dedupe", "insert", "collect", "evaluate">>,
     <<"dedupe", "insert", "collect", "evaluate">>,
     <<"insert", "collect", "evaluate">>,
     <<"collect", "evaluate">>,
     <<"evaluate">>, <<>>}
OneDriveTails ==
    {<<"read", "fetch", "evaluate", "write">>, <<"fetch", "evaluate", "write">>,
     <<"evaluate", "write">>, <<"write">>, <<>>}
AirtableTails ==
    {<<"read", "fetch", "write", "evaluate">>, <<"fetch", "write", "evaluate">>,
     <<"write", "evaluate">>, <<"evaluate">>, <<>>}
OutlookTails ==
    {<<"dedupe", "dedupe", "insert", "evaluate">>, <<"dedupe", "insert", "evaluate">>,
     <<"insert", "evaluate">>, <<"evaluate">>, <<>>}
OtherTails == {<<"evaluate">>, <<>>}

Storing == {"gmail", "google_calendar", "google_drive", "dropbox"}
Others == {"microsoft_calendar", "trello", "notion", "hubspot"}

PlansOK ==
    /\ service \in Storing \cup Others \cup {"onedrive", "airtable", "outlook"}
    /\ \A t \in Tasks :
        /\ service \in Storing => plan[t] \in StoringTails
        /\ service = "onedrive" => plan[t] \in OneDriveTails
        /\ service = "airtable" => plan[t] \in AirtableTails
        /\ service = "outlook" => plan[t] \in OutlookTails
        /\ service \in Others => plan[t] \in OtherTails

-----------------------------------------------------------------------------
(* Behind the checkpoint *)

\* A change that no step can lose any more: it was evaluated or given up, or a
\* task that is past the look-up of the documents holds it.
Safe(c) ==
    \/ times[c] > 0 \/ c \in skipped
    \/ \E t \in Tasks : c \in batch[t] /\ ~Ahead(t, "write") /\ ~Ahead(t, "dedupe")

\* A change that is safe, whose object is, or that a task holds for good.
Covered(c) ==
    \/ Safe(c) \/ objectOf[c] \in elsewhere
    \/ Stores /\ \E d \in Changes : objectOf[d] = objectOf[c] /\ Safe(d)
    \/ \E t \in Tasks : c \in batch[t] /\ ~Ahead(t, "write")

CoveredTo(n) == n # None => \A c \in 1..n : Covered(c)

\* An object has a document of another user, or a change of it is safe.
StoredOK ==
    Stores => \A o \in stored : o \in elsewhere \/ \E c \in Changes : objectOf[c] = o /\ Safe(c)

\* What a task read and what it will write, and when.
PositionOK(t) ==
    /\ seen[t] # None => Ahead(t, "write")
    /\ next[t] # None => Ahead(t, "write") /\ ~Ahead(t, "fetch")
    /\ ~Busy(t) \/ Ahead(t, "fetch") => batch[t] = {}
    /\ Ahead(t, "fetch") => took[t] = {}
    /\ service = "onedrive" /\ Doing(t, "write") => batch[t] = {}
PositionsOK == \A t \in Tasks : PositionOK(t)

\* From the checkpoint it read to the one it will write a task has everything,
\* or it has nothing and the writing step gives all of it up.
FetchedOK(t) == next[t] # None => \A c \in 1..next[t] :
    \/ seen[t] # None /\ c <= seen[t]
    \/ c \in batch[t]
    \/ Covered(c)
    \/ Doing(t, "write") /\ Ahead(t, "evaluate") /\ batch[t] = {}

Position ==
    /\ ~Polls => checkpoint = None
    /\ Polls => /\ CoveredTo(checkpoint)
                /\ \A t \in Tasks : CoveredTo(seen[t]) /\ FetchedOK(t)
                /\ StoredOK

-----------------------------------------------------------------------------
(* Evaluated again *)

\* Without documents: what was fetched is behind the checkpoint, or a task that
\* has not written its own yet took it.
Known(c) ==
    \/ checkpoint # None /\ c <= checkpoint
    \/ \E t \in Tasks : c \in took[t] /\ Busy(t)


LEMMA RangeOfTuples ==
    /\ Range(<<>>) = {}
    /\ \A a : Range(<<a>>) = {a} /\ Head(<<a>>) = a /\ Tail(<<a>>) = <<>>
    /\ \A a, b : Range(<<a, b>>) = {a, b} /\ Head(<<a, b>>) = a /\ Tail(<<a, b>>) = <<b>>
    /\ \A a, b, c : /\ Range(<<a, b, c>>) = {a, b, c}
                    /\ Head(<<a, b, c>>) = a /\ Tail(<<a, b, c>>) = <<b, c>>
    /\ \A a, b, c, d : /\ Range(<<a, b, c, d>>) = {a, b, c, d}
                       /\ Head(<<a, b, c, d>>) = a /\ Tail(<<a, b, c, d>>) = <<b, c, d>>
    /\ \A a, b, c, d, e :
        /\ Range(<<a, b, c, d, e>>) = {a, b, c, d, e}
        /\ Head(<<a, b, c, d, e>>) = a /\ Tail(<<a, b, c, d, e>>) = <<b, c, d, e>>
    /\ \A a, b, c, d, e, f :
        /\ Range(<<a, b, c, d, e, f>>) = {a, b, c, d, e, f}
        /\ Head(<<a, b, c, d, e, f>>) = a /\ Tail(<<a, b, c, d, e, f>>) = <<b, c, d, e, f>>
    /\ \A a, b, c, d, e, f, g :
        /\ Range(<<a, b, c, d, e, f, g>>) = {a, b, c, d, e, f, g}
        /\ Head(<<a, b, c, d, e, f, g>>) = a
        /\ Tail(<<a, b, c, d, e, f, g>>) = <<b, c, d, e, f, g>>
  BY DEF Range

LEMMA HandlersPlans ==
    /\ \A s \in Storing : PlanOf[s] = GmailPlan
    /\ PlanOf["onedrive"] = OneDrivePlan /\ PlanOf["airtable"] = AirtablePlan
    /\ PlanOf["outlook"] = OutlookPlan
    /\ \A s \in Others : PlanOf[s] = TrelloPlan
    /\ DOMAIN PlanOf = Storing \cup Others \cup {"onedrive", "airtable", "outlook"}
  BY DEF PlanOf, Storing, Others, GmailPlan, GoogleCalendarPlan, GoogleDrivePlan, DropboxPlan,
     TrelloPlan, MicrosoftCalendarPlan, NotionPlan, HubSpotPlan

\* Which services poll, and which store what they find.
LEMMA Kinds ==
    ASSUME service \in Storing \cup Others \cup {"onedrive", "airtable", "outlook"}
    PROVE  /\ Polls <=> service \in Storing \cup {"onedrive", "airtable"}
           /\ Stores <=> service \in Storing \cup {"outlook"}
<1>1. /\ Range(GmailPlan) = Steps
      /\ Range(OneDrivePlan) = {"read", "fetch", "evaluate", "write"}
      /\ Range(AirtablePlan) = {"read", "fetch", "write", "evaluate"}
      /\ Range(OutlookPlan) = {"dedupe", "insert", "evaluate"}
      /\ Range(TrelloPlan) = {"evaluate"}
  BY RangeOfTuples
     DEF GmailPlan, OneDrivePlan, AirtablePlan, OutlookPlan, TrelloPlan, Steps
<1>2. CASE service \in Storing
  BY <1>1, <1>2, HandlersPlans DEF Polls, Stores, Steps
<1>3. CASE service = "onedrive"
  BY <1>1, <1>3, HandlersPlans DEF Polls, Stores, Storing
<1>4. CASE service = "airtable"
  BY <1>1, <1>4, HandlersPlans DEF Polls, Stores, Storing
<1>5. CASE service = "outlook"
  BY <1>1, <1>5, HandlersPlans DEF Polls, Stores, Storing
<1>6. CASE service \in Others
  BY <1>1, <1>6, HandlersPlans DEF Polls, Stores, Storing, Others
<1> QED
  BY <1>2, <1>3, <1>4, <1>5, <1>6

\* What the step at the head of a plan leaves to do.
LEMMA StoringTable ==
    ASSUME NEW p \in StoringTails, p # <<>>
    PROVE  LET A == Range(Tail(p)) IN
           /\ Tail(p) \in StoringTails /\ Head(p) \in Steps
           /\ \A x : x \in Range(p) <=> x = Head(p) \/ x \in A
           /\ Head(p) = "read" =>
                "fetch" \in A /\ "write" \in A /\ "read" \notin A /\ Head(Tail(p)) = "fetch"
           /\ Head(p) = "fetch" =>
                /\ "write" \in A /\ "dedupe" \in A /\ "evaluate" \in A
                /\ "read" \notin A /\ "fetch" \notin A /\ Head(Tail(p)) = "write"
           /\ Head(p) = "write" => "dedupe" \in A /\ Head(Tail(p)) = "dedupe"
           /\ Head(p) \notin {"read", "fetch"} => A \cap {"read", "fetch", "write"} = {}
           /\ Head(p) \notin {"read", "fetch", "write"} => "dedupe" \notin A
           /\ Head(p) = "dedupe" => Tail(p) # <<>> /\ Head(Tail(p)) = "insert"
           /\ Head(p) = "insert" => Tail(p) # <<>> /\ Head(Tail(p)) = "collect"
           /\ Head(p) = "collect" => Tail(p) # <<>> /\ Head(Tail(p)) = "evaluate"
           /\ Head(p) = "evaluate" => Tail(p) = <<>>
<1> DEFINE P0 == <<"read", "fetch", "write", "dedupe", "insert", "collect", "evaluate">>
           P1 == <<"fetch", "write", "dedupe", "insert", "collect", "evaluate">>
           P2 == <<"write", "dedupe", "insert", "collect", "evaluate">>
           P3 == <<"dedupe", "insert", "collect", "evaluate">>
           P4 == <<"insert", "collect", "evaluate">>
           P5 == <<"collect", "evaluate">>
           P6 == <<"evaluate">>
           P7 == <<>>
<1>1. p \in {P0, P1, P2, P3, P4, P5, P6} /\ {P0, P1, P2, P3, P4, P5, P6, P7} \subseteq StoringTails
  BY DEF StoringTails
<1>2. /\ Head(P0) = "read" /\ Tail(P0) = P1
      /\ Range(P0) = {"read", "fetch", "write", "dedupe", "insert", "collect", "evaluate"}
      /\ Head(P1) = "fetch" /\ Tail(P1) = P2
      /\ Range(P1) = {"fetch", "write", "dedupe", "insert", "collect", "evaluate"}
      /\ Head(P2) = "write" /\ Tail(P2) = P3
      /\ Range(P2) = {"write", "dedupe", "insert", "collect", "evaluate"}
      /\ Head(P3) = "dedupe" /\ Tail(P3) = P4
      /\ Range(P3) = {"dedupe", "insert", "collect", "evaluate"}
      /\ Head(P4) = "insert" /\ Tail(P4) = P5
      /\ Range(P4) = {"insert", "collect", "evaluate"}
      /\ Head(P5) = "collect" /\ Tail(P5) = P6 /\ Range(P5) = {"collect", "evaluate"}
      /\ Head(P6) = "evaluate" /\ Tail(P6) = P7 /\ Range(P6) = {"evaluate"}
      /\ P7 = <<>> /\ Range(P7) = {}
  BY RangeOfTuples
<1> HIDE DEF P0, P1, P2, P3, P4, P5, P6, P7
<1>3. CASE p = P0
  <2>1. \A x : x \in Range(p) <=> x = Head(p) \/ x \in Range(Tail(p))
    BY <1>1, <1>2, <1>3
  <2>2. Tail(p) \in StoringTails /\ Head(p) = "read" /\ Head(p) \in Steps
    BY <1>1, <1>2, <1>3 DEF Steps
  <2>3. Tail(p) # <<>> /\ Head(Tail(p)) = "fetch"
    BY <1>1, <1>2, <1>3
  <2>4. /\ "fetch" \in Range(Tail(p))
        /\ "write" \in Range(Tail(p))
        /\ "read" \notin Range(Tail(p))
    BY <1>1, <1>2, <1>3
  <2> QED
    BY <2>1, <2>2, <2>3, <2>4
<1>4. CASE p = P1
  <2>1. \A x : x \in Range(p) <=> x = Head(p) \/ x \in Range(Tail(p))
    BY <1>1, <1>2, <1>4
  <2>2. Tail(p) \in StoringTails /\ Head(p) = "fetch" /\ Head(p) \in Steps
    BY <1>1, <1>2, <1>4 DEF Steps
  <2>3. Tail(p) # <<>> /\ Head(Tail(p)) = "write"
    BY <1>1, <1>2, <1>4
  <2>4. /\ "write" \in Range(Tail(p))
        /\ "dedupe" \in Range(Tail(p))
        /\ "evaluate" \in Range(Tail(p))
        /\ "read" \notin Range(Tail(p))
        /\ "fetch" \notin Range(Tail(p))
    BY <1>1, <1>2, <1>4
  <2> QED
    BY <2>1, <2>2, <2>3, <2>4
<1>5. CASE p = P2
  <2>1. \A x : x \in Range(p) <=> x = Head(p) \/ x \in Range(Tail(p))
    BY <1>1, <1>2, <1>5
  <2>2. Tail(p) \in StoringTails /\ Head(p) = "write" /\ Head(p) \in Steps
    BY <1>1, <1>2, <1>5 DEF Steps
  <2>3. Tail(p) # <<>> /\ Head(Tail(p)) = "dedupe"
    BY <1>1, <1>2, <1>5
  <2>4. /\ "dedupe" \in Range(Tail(p))
        /\ "read" \notin Range(Tail(p))
        /\ "fetch" \notin Range(Tail(p))
        /\ "write" \notin Range(Tail(p))
    BY <1>1, <1>2, <1>5
  <2> QED
    BY <2>1, <2>2, <2>3, <2>4
<1>6. CASE p = P3
  <2>1. \A x : x \in Range(p) <=> x = Head(p) \/ x \in Range(Tail(p))
    BY <1>1, <1>2, <1>6
  <2>2. Tail(p) \in StoringTails /\ Head(p) = "dedupe" /\ Head(p) \in Steps
    BY <1>1, <1>2, <1>6 DEF Steps
  <2>3. Tail(p) # <<>> /\ Head(Tail(p)) = "insert"
    BY <1>1, <1>2, <1>6
  <2>4. /\ "read" \notin Range(Tail(p))
        /\ "fetch" \notin Range(Tail(p))
        /\ "write" \notin Range(Tail(p))
        /\ "dedupe" \notin Range(Tail(p))
    BY <1>1, <1>2, <1>6
  <2> QED
    BY <2>1, <2>2, <2>3, <2>4
<1>7. CASE p = P4
  <2>1. \A x : x \in Range(p) <=> x = Head(p) \/ x \in Range(Tail(p))
    BY <1>1, <1>2, <1>7
  <2>2. Tail(p) \in StoringTails /\ Head(p) = "insert" /\ Head(p) \in Steps
    BY <1>1, <1>2, <1>7 DEF Steps
  <2>3. Tail(p) # <<>> /\ Head(Tail(p)) = "collect"
    BY <1>1, <1>2, <1>7
  <2>4. /\ "read" \notin Range(Tail(p))
        /\ "fetch" \notin Range(Tail(p))
        /\ "write" \notin Range(Tail(p))
        /\ "dedupe" \notin Range(Tail(p))
    BY <1>1, <1>2, <1>7
  <2> QED
    BY <2>1, <2>2, <2>3, <2>4
<1>8. CASE p = P5
  <2>1. \A x : x \in Range(p) <=> x = Head(p) \/ x \in Range(Tail(p))
    BY <1>1, <1>2, <1>8
  <2>2. Tail(p) \in StoringTails /\ Head(p) = "collect" /\ Head(p) \in Steps
    BY <1>1, <1>2, <1>8 DEF Steps
  <2>3. Tail(p) # <<>> /\ Head(Tail(p)) = "evaluate"
    BY <1>1, <1>2, <1>8
  <2>4. /\ "read" \notin Range(Tail(p))
        /\ "fetch" \notin Range(Tail(p))
        /\ "write" \notin Range(Tail(p))
        /\ "dedupe" \notin Range(Tail(p))
    BY <1>1, <1>2, <1>8
  <2> QED
    BY <2>1, <2>2, <2>3, <2>4
<1>9. CASE p = P6
  <2>1. \A x : x \in Range(p) <=> x = Head(p) \/ x \in Range(Tail(p))
    BY <1>1, <1>2, <1>9
  <2>2. Tail(p) \in StoringTails /\ Head(p) = "evaluate" /\ Head(p) \in Steps
    BY <1>1, <1>2, <1>9 DEF Steps
  <2>3. Tail(p) = <<>>
    BY <1>1, <1>2, <1>9
  <2>4. /\ "read" \notin Range(Tail(p))
        /\ "fetch" \notin Range(Tail(p))
        /\ "write" \notin Range(Tail(p))
        /\ "dedupe" \notin Range(Tail(p))
    BY <1>1, <1>2, <1>9
  <2> QED
    BY <2>1, <2>2, <2>3, <2>4
<1> QED
  BY <1>1, <1>3, <1>4, <1>5, <1>6, <1>7, <1>8, <1>9

LEMMA OneDriveTable ==
    ASSUME NEW p \in OneDriveTails, p # <<>>
    PROVE  LET A == Range(Tail(p)) IN
           /\ Tail(p) \in OneDriveTails /\ Head(p) \in Steps
           /\ \A x : x \in Range(p) <=> x = Head(p) \/ x \in A
           /\ Head(p) = "read" \/ Head(p) = "fetch" \/ Head(p) = "evaluate" \/ Head(p) = "write"
           /\ "dedupe" \notin Range(p)
           /\ Head(p) = "read" =>
                Tail(p) # <<>> /\ Head(Tail(p)) = "fetch" /\ "fetch" \in A /\ "write" \in A /\ "read" \notin A
           /\ Head(p) = "fetch" =>
                Tail(p) # <<>> /\ Head(Tail(p)) = "evaluate" /\ "write" \in A /\ "read" \notin A /\ "fetch" \notin A
           /\ Head(p) = "evaluate" =>
                Tail(p) # <<>> /\ Head(Tail(p)) = "write" /\ "write" \in A /\ "read" \notin A /\ "fetch" \notin A
           /\ Head(p) = "write" =>
                Tail(p) = <<>> /\ "read" \notin A /\ "fetch" \notin A /\ "write" \notin A
<1> DEFINE P0 == <<"read", "fetch", "evaluate", "write">>
           P1 == <<"fetch", "evaluate", "write">>
           P2 == <<"evaluate", "write">>
           P3 == <<"write">>
           P4 == <<>>
<1>1. p \in {P0, P1, P2, P3} /\ {P0, P1, P2, P3, P4} \subseteq OneDriveTails
  BY DEF OneDriveTails
<1>2. /\ Head(P0) = "read" /\ Tail(P0) = P1
      /\ Range(P0) = {"read", "fetch", "evaluate", "write"}
      /\ Head(P1) = "fetch" /\ Tail(P1) = P2 /\ Range(P1) = {"fetch", "evaluate", "write"}
      /\ Head(P2) = "evaluate" /\ Tail(P2) = P3 /\ Range(P2) = {"evaluate", "write"}
      /\ Head(P3) = "write" /\ Tail(P3) = P4 /\ Range(P3) = {"write"}
      /\ P4 = <<>> /\ Range(P4) = {}
  BY RangeOfTuples
<1> HIDE DEF P0, P1, P2, P3, P4
<1>3. CASE p = P0
  <2>1. \A x : x \in Range(p) <=> x = Head(p) \/ x \in Range(Tail(p))
    BY <1>1, <1>2, <1>3
  <2>2. Tail(p) \in OneDriveTails /\ Head(p) = "read" /\ Head(p) \in Steps
    BY <1>1, <1>2, <1>3 DEF Steps
  <2>3. Tail(p) # <<>> /\ Head(Tail(p)) = "fetch"
    BY <1>1, <1>2, <1>3
  <2>4. /\ "fetch" \in Range(Tail(p))
        /\ "write" \in Range(Tail(p))
        /\ "read" \notin Range(Tail(p))
    BY <1>1, <1>2, <1>3
  <2>5. "dedupe" \notin Range(p)
    BY <1>1, <1>2, <1>3
  <2> QED
    BY <2>1, <2>2, <2>3, <2>4, <2>5
<1>4. CASE p = P1
  <2>1. \A x : x \in Range(p) <=> x = Head(p) \/ x \in Range(Tail(p))
    BY <1>1, <1>2, <1>4
  <2>2. Tail(p) \in OneDriveTails /\ Head(p) = "fetch" /\ Head(p) \in Steps
    BY <1>1, <1>2, <1>4 DEF Steps
  <2>3. Tail(p) # <<>> /\ Head(Tail(p)) = "evaluate"
    BY <1>1, <1>2, <1>4
  <2>4. /\ "write" \in Range(Tail(p))
        /\ "read" \notin Range(Tail(p))
        /\ "fetch" \notin Range(Tail(p))
    BY <1>1, <1>2, <1>4
  <2>5. "dedupe" \notin Range(p)
    BY <1>1, <1>2, <1>4
  <2> QED
    BY <2>1, <2>2, <2>3, <2>4, <2>5
<1>5. CASE p = P2
  <2>1. \A x : x \in Range(p) <=> x = Head(p) \/ x \in Range(Tail(p))
    BY <1>1, <1>2, <1>5
  <2>2. Tail(p) \in OneDriveTails /\ Head(p) = "evaluate" /\ Head(p) \in Steps
    BY <1>1, <1>2, <1>5 DEF Steps
  <2>3. Tail(p) # <<>> /\ Head(Tail(p)) = "write"
    BY <1>1, <1>2, <1>5
  <2>4. /\ "write" \in Range(Tail(p))
        /\ "read" \notin Range(Tail(p))
        /\ "fetch" \notin Range(Tail(p))
    BY <1>1, <1>2, <1>5
  <2>5. "dedupe" \notin Range(p)
    BY <1>1, <1>2, <1>5
  <2> QED
    BY <2>1, <2>2, <2>3, <2>4, <2>5
<1>6. CASE p = P3
  <2>1. \A x : x \in Range(p) <=> x = Head(p) \/ x \in Range(Tail(p))
    BY <1>1, <1>2, <1>6
  <2>2. Tail(p) \in OneDriveTails /\ Head(p) = "write" /\ Head(p) \in Steps
    BY <1>1, <1>2, <1>6 DEF Steps
  <2>3. Tail(p) = <<>>
    BY <1>1, <1>2, <1>6
  <2>4. /\ "read" \notin Range(Tail(p))
        /\ "fetch" \notin Range(Tail(p))
        /\ "write" \notin Range(Tail(p))
    BY <1>1, <1>2, <1>6
  <2>5. "dedupe" \notin Range(p)
    BY <1>1, <1>2, <1>6
  <2> QED
    BY <2>1, <2>2, <2>3, <2>4, <2>5
<1> QED
  BY <1>1, <1>3, <1>4, <1>5, <1>6

LEMMA AirtableTable ==
    ASSUME NEW p \in AirtableTails, p # <<>>
    PROVE  LET A == Range(Tail(p)) IN
           /\ Tail(p) \in AirtableTails /\ Head(p) \in Steps
           /\ \A x : x \in Range(p) <=> x = Head(p) \/ x \in A
           /\ Head(p) = "read" \/ Head(p) = "fetch" \/ Head(p) = "write" \/ Head(p) = "evaluate"
           /\ "dedupe" \notin Range(p)
           /\ Head(p) = "read" =>
                Tail(p) # <<>> /\ Head(Tail(p)) = "fetch" /\ "fetch" \in A /\ "write" \in A /\ "read" \notin A
           /\ Head(p) = "fetch" =>
                Tail(p) # <<>> /\ Head(Tail(p)) = "write" /\ "write" \in A /\ "read" \notin A /\ "fetch" \notin A
           /\ Head(p) = "write" =>
                Tail(p) # <<>> /\ Head(Tail(p)) = "evaluate" /\ "read" \notin A /\ "fetch" \notin A /\ "write" \notin A
           /\ Head(p) = "evaluate" =>
                Tail(p) = <<>> /\ "read" \notin A /\ "fetch" \notin A /\ "write" \notin A
<1> DEFINE P0 == <<"read", "fetch", "write", "evaluate">>
           P1 == <<"fetch", "write", "evaluate">>
           P2 == <<"write", "evaluate">>
           P3 == <<"evaluate">>
           P4 == <<>>
<1>1. p \in {P0, P1, P2, P3} /\ {P0, P1, P2, P3, P4} \subseteq AirtableTails
  BY DEF AirtableTails
<1>2. /\ Head(P0) = "read" /\ Tail(P0) = P1
      /\ Range(P0) = {"read", "fetch", "write", "evaluate"}
      /\ Head(P1) = "fetch" /\ Tail(P1) = P2 /\ Range(P1) = {"fetch", "write", "evaluate"}
      /\ Head(P2) = "write" /\ Tail(P2) = P3 /\ Range(P2) = {"write", "evaluate"}
      /\ Head(P3) = "evaluate" /\ Tail(P3) = P4 /\ Range(P3) = {"evaluate"}
      /\ P4 = <<>> /\ Range(P4) = {}
  BY RangeOfTuples
<1> HIDE DEF P0, P1, P2, P3, P4
<1>3. CASE p = P0
  <2>1. \A x : x \in Range(p) <=> x = Head(p) \/ x \in Range(Tail(p))
    BY <1>1, <1>2, <1>3
  <2>2. Tail(p) \in AirtableTails /\ Head(p) = "read" /\ Head(p) \in Steps
    BY <1>1, <1>2, <1>3 DEF Steps
  <2>3. Tail(p) # <<>> /\ Head(Tail(p)) = "fetch"
    BY <1>1, <1>2, <1>3
  <2>4. /\ "fetch" \in Range(Tail(p))
        /\ "write" \in Range(Tail(p))
        /\ "read" \notin Range(Tail(p))
    BY <1>1, <1>2, <1>3
  <2>5. "dedupe" \notin Range(p)
    BY <1>1, <1>2, <1>3
  <2> QED
    BY <2>1, <2>2, <2>3, <2>4, <2>5
<1>4. CASE p = P1
  <2>1. \A x : x \in Range(p) <=> x = Head(p) \/ x \in Range(Tail(p))
    BY <1>1, <1>2, <1>4
  <2>2. Tail(p) \in AirtableTails /\ Head(p) = "fetch" /\ Head(p) \in Steps
    BY <1>1, <1>2, <1>4 DEF Steps
  <2>3. Tail(p) # <<>> /\ Head(Tail(p)) = "write"
    BY <1>1, <1>2, <1>4
  <2>4. /\ "write" \in Range(Tail(p))
        /\ "read" \notin Range(Tail(p))
        /\ "fetch" \notin Range(Tail(p))
    BY <1>1, <1>2, <1>4
  <2>5. "dedupe" \notin Range(p)
    BY <1>1, <1>2, <1>4
  <2> QED
    BY <2>1, <2>2, <2>3, <2>4, <2>5
<1>5. CASE p = P2
  <2>1. \A x : x \in Range(p) <=> x = Head(p) \/ x \in Range(Tail(p))
    BY <1>1, <1>2, <1>5
  <2>2. Tail(p) \in AirtableTails /\ Head(p) = "write" /\ Head(p) \in Steps
    BY <1>1, <1>2, <1>5 DEF Steps
  <2>3. Tail(p) # <<>> /\ Head(Tail(p)) = "evaluate"
    BY <1>1, <1>2, <1>5
  <2>4. /\ "read" \notin Range(Tail(p))
        /\ "fetch" \notin Range(Tail(p))
        /\ "write" \notin Range(Tail(p))
    BY <1>1, <1>2, <1>5
  <2>5. "dedupe" \notin Range(p)
    BY <1>1, <1>2, <1>5
  <2> QED
    BY <2>1, <2>2, <2>3, <2>4, <2>5
<1>6. CASE p = P3
  <2>1. \A x : x \in Range(p) <=> x = Head(p) \/ x \in Range(Tail(p))
    BY <1>1, <1>2, <1>6
  <2>2. Tail(p) \in AirtableTails /\ Head(p) = "evaluate" /\ Head(p) \in Steps
    BY <1>1, <1>2, <1>6 DEF Steps
  <2>3. Tail(p) = <<>>
    BY <1>1, <1>2, <1>6
  <2>4. /\ "read" \notin Range(Tail(p))
        /\ "fetch" \notin Range(Tail(p))
        /\ "write" \notin Range(Tail(p))
    BY <1>1, <1>2, <1>6
  <2>5. "dedupe" \notin Range(p)
    BY <1>1, <1>2, <1>6
  <2> QED
    BY <2>1, <2>2, <2>3, <2>4, <2>5
<1> QED
  BY <1>1, <1>3, <1>4, <1>5, <1>6

LEMMA OutlookTable ==
    ASSUME NEW p \in OutlookTails, p # <<>>
    PROVE  LET A == Range(Tail(p)) IN
           /\ Tail(p) \in OutlookTails /\ Head(p) \in Steps
           /\ \A x : x \in Range(p) <=> x = Head(p) \/ x \in A
           /\ Head(p) = "dedupe" \/ Head(p) = "insert" \/ Head(p) = "evaluate"
           /\ "read" \notin Range(p) /\ "fetch" \notin Range(p) /\ "write" \notin Range(p) /\ "collect" \notin Range(p)
           /\ Head(p) = "dedupe" =>
                \/ Tail(p) # <<>> /\ Head(Tail(p)) = "dedupe" /\ "dedupe" \in A
                \/ Tail(p) # <<>> /\ Head(Tail(p)) = "insert" /\ "dedupe" \notin A
           /\ Head(p) = "insert" =>
                Tail(p) # <<>> /\ Head(Tail(p)) = "evaluate" /\ "dedupe" \notin A
           /\ Head(p) = "evaluate" => Tail(p) = <<>> /\ "dedupe" \notin A
<1> DEFINE P0 == <<"dedupe", "dedupe", "insert", "evaluate">>
           P1 == <<"dedupe", "insert", "evaluate">>
           P2 == <<"insert", "evaluate">>
           P3 == <<"evaluate">>
           P4 == <<>>
<1>1. p \in {P0, P1, P2, P3} /\ {P0, P1, P2, P3, P4} \subseteq OutlookTails
  BY DEF OutlookTails
<1>2. /\ Head(P0) = "dedupe" /\ Tail(P0) = P1
      /\ Range(P0) = {"dedupe", "dedupe", "insert", "evaluate"}
      /\ Head(P1) = "dedupe" /\ Tail(P1) = P2
      /\ Range(P1) = {"dedupe", "insert", "evaluate"}
      /\ Head(P2) = "insert" /\ Tail(P2) = P3 /\ Range(P2) = {"insert", "evaluate"}
      /\ Head(P3) = "evaluate" /\ Tail(P3) = P4 /\ Range(P3) = {"evaluate"}
      /\ P4 = <<>> /\ Range(P4) = {}
  BY RangeOfTuples
<1> HIDE DEF P0, P1, P2, P3, P4
<1>3. CASE p = P0
  <2>1. \A x : x \in Range(p) <=> x = Head(p) \/ x \in Range(Tail(p))
    BY <1>1, <1>2, <1>3
  <2>2. Tail(p) \in OutlookTails /\ Head(p) = "dedupe" /\ Head(p) \in Steps
    BY <1>1, <1>2, <1>3 DEF Steps
  <2>3. Tail(p) # <<>> /\ Head(Tail(p)) = "dedupe"
    BY <1>1, <1>2, <1>3
  <2>4. /\ "dedupe" \in Range(Tail(p))
    BY <1>1, <1>2, <1>3
  <2>5. "read" \notin Range(p) /\ "fetch" \notin Range(p) /\ "write" \notin Range(p) /\ "collect" \notin Range(p)
    BY <1>1, <1>2, <1>3
  <2> QED
    BY <2>1, <2>2, <2>3, <2>4, <2>5
<1>4. CASE p = P1
  <2>1. \A x : x \in Range(p) <=> x = Head(p) \/ x \in Range(Tail(p))
    BY <1>1, <1>2, <1>4
  <2>2. Tail(p) \in OutlookTails /\ Head(p) = "dedupe" /\ Head(p) \in Steps
    BY <1>1, <1>2, <1>4 DEF Steps
  <2>3. Tail(p) # <<>> /\ Head(Tail(p)) = "insert"
    BY <1>1, <1>2, <1>4
  <2>4. "dedupe" \notin Range(Tail(p))
    BY <1>1, <1>2, <1>4
  <2>5. "read" \notin Range(p) /\ "fetch" \notin Range(p) /\ "write" \notin Range(p) /\ "collect" \notin Range(p)
    BY <1>1, <1>2, <1>4
  <2> QED
    BY <2>1, <2>2, <2>3, <2>4, <2>5
<1>5. CASE p = P2
  <2>1. \A x : x \in Range(p) <=> x = Head(p) \/ x \in Range(Tail(p))
    BY <1>1, <1>2, <1>5
  <2>2. Tail(p) \in OutlookTails /\ Head(p) = "insert" /\ Head(p) \in Steps
    BY <1>1, <1>2, <1>5 DEF Steps
  <2>3. Tail(p) # <<>> /\ Head(Tail(p)) = "evaluate"
    BY <1>1, <1>2, <1>5
  <2>4. "dedupe" \notin Range(Tail(p))
    BY <1>1, <1>2, <1>5
  <2>5. "read" \notin Range(p) /\ "fetch" \notin Range(p) /\ "write" \notin Range(p) /\ "collect" \notin Range(p)
    BY <1>1, <1>2, <1>5
  <2> QED
    BY <2>1, <2>2, <2>3, <2>4, <2>5
<1>6. CASE p = P3
  <2>1. \A x : x \in Range(p) <=> x = Head(p) \/ x \in Range(Tail(p))
    BY <1>1, <1>2, <1>6
  <2>2. Tail(p) \in OutlookTails /\ Head(p) = "evaluate" /\ Head(p) \in Steps
    BY <1>1, <1>2, <1>6 DEF Steps
  <2>3. Tail(p) = <<>>
    BY <1>1, <1>2, <1>6
  <2>4. "dedupe" \notin Range(Tail(p))
    BY <1>1, <1>2, <1>6
  <2>5. "read" \notin Range(p) /\ "fetch" \notin Range(p) /\ "write" \notin Range(p) /\ "collect" \notin Range(p)
    BY <1>1, <1>2, <1>6
  <2> QED
    BY <2>1, <2>2, <2>3, <2>4, <2>5
<1> QED
  BY <1>1, <1>3, <1>4, <1>5, <1>6

LEMMA OtherTable ==
    ASSUME NEW p \in OtherTails, p # <<>>
    PROVE  /\ Tail(p) = <<>> /\ Head(p) = "evaluate" /\ Head(p) \in Steps
           /\ \A x : x \in Range(p) <=> x = "evaluate"
<1>1. p = <<"evaluate">>
  BY DEF OtherTails
<1>2. Range(p) = {"evaluate"} /\ Head(p) = "evaluate" /\ Tail(p) = <<>>
  BY <1>1, RangeOfTuples
<1> QED
  BY <1>2 DEF Steps

\* What a task has still to do after the step at the head of its plan.
LEMMA WhatIsLeft ==
    ASSUME PlansOK, NEW t \in Tasks, Busy(t)
    PROVE  LET h == Head(plan[t])  r == Tail(plan[t])  A == Range(r) IN
           /\ h \in Steps /\ \A x : Ahead(t, x) <=> x = h \/ x \in A
           /\ h = "read" => /\ Polls /\ r # <<>> /\ Head(r) = "fetch"
                            /\ "fetch" \in A /\ "write" \in A /\ "read" \notin A
           /\ h = "fetch" => /\ Polls /\ r # <<>> /\ "write" \in A
                             /\ "fetch" \notin A /\ "read" \notin A
                             /\ Stores => /\ Head(r) = "write"
                                          /\ "evaluate" \in A /\ "dedupe" \in A
                             /\ service = "onedrive" => Head(r) = "evaluate"
           /\ h = "write" => /\ Polls
                             /\ "write" \notin A /\ "fetch" \notin A /\ "read" \notin A
                             /\ Stores => r # <<>> /\ Head(r) = "dedupe" /\ "dedupe" \in A
                             /\ service = "onedrive" => r = <<>>
           /\ h = "dedupe" => /\ Stores /\ r # <<>>
                              /\ "write" \notin A /\ "fetch" \notin A /\ "read" \notin A
                              /\ \/ Head(r) = "insert" /\ "dedupe" \notin A
                                 \/ Head(r) = "dedupe" /\ "dedupe" \in A
           /\ h \in {"insert", "collect"} =>
                /\ Stores /\ r # <<>>
                /\ "write" \notin A /\ "fetch" \notin A /\ "read" \notin A /\ "dedupe" \notin A
                /\ "collect" \in A => Head(r) = "collect"
                /\ h = "collect" => Head(r) = "evaluate"
           /\ h = "evaluate" =>
                /\ "fetch" \notin A /\ "read" \notin A /\ "dedupe" \notin A
                /\ \/ r = <<>>
                   \/ service = "onedrive" /\ r # <<>> /\ Head(r) = "write" /\ "write" \in A
                /\ Stores => r = <<>>
           /\ Stores /\ "write" \in Range(plan[t]) => "dedupe" \in Range(plan[t])
           /\ ~Stores => "dedupe" \notin Range(plan[t])
           /\ ~Polls => /\ "read" \notin Range(plan[t])
                        /\ "fetch" \notin Range(plan[t]) /\ "write" \notin Range(plan[t])
<1>0. plan[t] # <<>> /\ Range(<<>>) = {}
  BY RangeOfTuples DEF Busy
<1>1. CASE service \in Storing
  <2>1. Polls /\ Stores /\ service # "onedrive"
    BY <1>1, Kinds DEF Storing
  <2>2. plan[t] \in StoringTails
    BY <1>1 DEF PlansOK
  <2> QED
    BY <1>0, <2>1, <2>2, StoringTable DEF Ahead
<1>2. CASE service = "onedrive"
  <2>1. Polls /\ ~Stores
    BY <1>2, Kinds DEF Storing
  <2>2. plan[t] \in OneDriveTails
    BY <1>2 DEF PlansOK
  <2> QED
    BY <1>0, <1>2, <2>1, <2>2, OneDriveTable DEF Ahead
<1>3. CASE service = "airtable"
  <2>1. Polls /\ ~Stores
    BY <1>3, Kinds DEF Storing
  <2>2. plan[t] \in AirtableTails
    BY <1>3 DEF PlansOK
  <2> QED
    BY <1>0, <1>3, <2>1, <2>2, AirtableTable DEF Ahead
<1>4. CASE service = "outlook"
  <2>1. ~Polls /\ Stores
    BY <1>4, Kinds DEF Storing
  <2>2. plan[t] \in OutlookTails
    BY <1>4 DEF PlansOK
  <2> QED
    BY <1>0, <1>4, <2>1, <2>2, OutlookTable DEF Ahead
<1>5. CASE service \in Others
  <2>1. ~Polls /\ ~Stores /\ service # "onedrive"
    BY <1>5, Kinds DEF Storing, Others
  <2>2. plan[t] \in OtherTails
    BY <1>5 DEF PlansOK
  <2> QED
    BY <1>0, <2>1, <2>2, OtherTable DEF Ahead, Steps
<1> QED
  BY <1>1, <1>2, <1>3, <1>4, <1>5 DEF PlansOK

-----------------------------------------------------------------------------
(* Types, plans and positions *)

Base == TypeOK /\ PlansOK /\ PositionsOK

LEMMA GoOnMoves ==
    ASSUME plan \in [Tasks -> Seq(Steps)], batch \in [Tasks -> SUBSET Changes], PlansOK,
           NEW t \in Tasks, Busy(t), NEW items \in SUBSET Changes, GoOn(t, items),
           UNCHANGED service
    PROVE  LET r == Tail(plan[t]) IN
           /\ plan' \in [Tasks -> Seq(Steps)] /\ PlansOK'
           /\ batch' \in [Tasks -> SUBSET Changes] /\ batch'[t] = items
           /\ \A u \in Tasks \ {t} : plan'[u] = plan[u] /\ batch'[u] = batch[u]
           /\ \/ plan'[t] = r
              \/ /\ plan'[t] = <<>> /\ items = {}
                 /\ "fetch" \notin Range(r) /\ "write" \notin Range(r)
<1> DEFINE r == Tail(plan[t])
<1>1. plan[t] \in Seq(Steps) /\ plan[t] # <<>>
  BY DEF Busy
<1>2. r \in Seq(Steps) /\ <<>> \in Seq(Steps)
  BY <1>1
<1>3. PICK q \in {r, <<>>} :
        /\ plan' = [plan EXCEPT ![t] = q]
        /\ q = r \/ (items = {} /\ "fetch" \notin Range(r) /\ "write" \notin Range(r))
  BY DEF GoOn
<1>4. batch' = [batch EXCEPT ![t] = items]
  BY DEF GoOn
<1>5. /\ service \in Storing => r \in StoringTails /\ <<>> \in StoringTails
      /\ service = "onedrive" => r \in OneDriveTails /\ <<>> \in OneDriveTails
      /\ service = "airtable" => r \in AirtableTails /\ <<>> \in AirtableTails
      /\ service = "outlook" => r \in OutlookTails /\ <<>> \in OutlookTails
      /\ service \in Others => r \in OtherTails /\ <<>> \in OtherTails
  <2>1. service \in Storing => r \in StoringTails
    BY <1>1, StoringTable DEF PlansOK
  <2>2. service = "onedrive" => r \in OneDriveTails
    BY <1>1, OneDriveTable DEF PlansOK
  <2>3. service = "airtable" => r \in AirtableTails
    BY <1>1, AirtableTable DEF PlansOK
  <2>4. service = "outlook" => r \in OutlookTails
    BY <1>1, OutlookTable DEF PlansOK
  <2>5. service \in Others => r = <<>>
    BY <1>1, OtherTable DEF PlansOK
  <2> QED
    BY <2>1, <2>2, <2>3, <2>4, <2>5
       DEF StoringTails, OneDriveTails, AirtableTails, OutlookTails, OtherTails
<1> HIDE DEF r
<1>6. plan' \in [Tasks -> Seq(Steps)] /\ plan'[t] = q
  BY <1>2, <1>3
<1>7. \A u \in Tasks \ {t} : plan'[u] = plan[u]
  BY <1>3
<1>8. PlansOK'
  <2> SUFFICES ASSUME NEW u \in Tasks
               PROVE  /\ service \in Storing => plan'[u] \in StoringTails
                      /\ service = "onedrive" => plan'[u] \in OneDriveTails
                      /\ service = "airtable" => plan'[u] \in AirtableTails
                      /\ service = "outlook" => plan'[u] \in OutlookTails
                      /\ service \in Others => plan'[u] \in OtherTails
    BY DEF PlansOK
  <2>1. CASE u = t
    BY <1>3, <1>5, <1>6, <2>1
  <2>2. CASE u # t
    BY <1>7, <2>2 DEF PlansOK
  <2> QED
    BY <2>1, <2>2
<1> QED
  BY <1>3, <1>4, <1>6, <1>7, <1>8 DEF r

\* A task that ends early.
LEMMA StopMoves ==
    ASSUME plan \in [Tasks -> Seq(Steps)], PlansOK, NEW t \in Tasks,
           plan' = [plan EXCEPT ![t] = <<>>], UNCHANGED service
    PROVE  /\ plan' \in [Tasks -> Seq(Steps)] /\ PlansOK' /\ plan'[t] = <<>>
           /\ \A u \in Tasks \ {t} : plan'[u] = plan[u]
<1>1. <<>> \in Seq(Steps)
  OBVIOUS
<1> QED
  BY <1>1 DEF PlansOK, StoringTails, OneDriveTails, AirtableTails, OutlookTails, OtherTails

\* A task that begins.
LEMMA BeginMoves ==
    ASSUME plan \in [Tasks -> Seq(Steps)], PlansOK, NEW t \in Tasks,
           plan' = [plan EXCEPT ![t] = PlanOf[service]], UNCHANGED service
    PROVE  /\ plan' \in [Tasks -> Seq(Steps)] /\ PlansOK' /\ plan'[t] = PlanOf[service]
           /\ plan'[t] # <<>>
           /\ \A u \in Tasks \ {t} : plan'[u] = plan[u]
<1> DEFINE p == PlanOf[service]
<1>1. /\ service \in Storing => p \in StoringTails
      /\ service = "onedrive" => p \in OneDriveTails
      /\ service = "airtable" => p \in AirtableTails
      /\ service = "outlook" => p \in OutlookTails
      /\ service \in Others => p \in OtherTails
  BY HandlersPlans DEF StoringTails, OneDriveTails, AirtableTails, OutlookTails, OtherTails,
     GmailPlan, OneDrivePlan, AirtablePlan, OutlookPlan, TrelloPlan
<1>2. p \in Seq(Steps) /\ p # <<>>
  <2>1. GmailPlan \in Seq(Steps) /\ GmailPlan # <<>>
    BY DEF GmailPlan, Steps
  <2>2. OneDrivePlan \in Seq(Steps) /\ OneDrivePlan # <<>>
    BY DEF OneDrivePlan, Steps
  <2>3. AirtablePlan \in Seq(Steps) /\ AirtablePlan # <<>>
    BY DEF AirtablePlan, Steps
  <2>4. OutlookPlan \in Seq(Steps) /\ OutlookPlan # <<>>
    BY DEF OutlookPlan, Steps
  <2>5. TrelloPlan \in Seq(Steps) /\ TrelloPlan # <<>>
    BY DEF TrelloPlan, Steps
  <2> QED
    BY <2>1, <2>2, <2>3, <2>4, <2>5, HandlersPlans DEF PlansOK
<1> HIDE DEF p
<1>3. /\ plan' \in [Tasks -> Seq(Steps)] /\ plan'[t] = p
      /\ \A u \in Tasks \ {t} : plan'[u] = plan[u]
  BY <1>2 DEF p
<1>4. PlansOK'
  <2> SUFFICES ASSUME NEW u \in Tasks
               PROVE  /\ service \in Storing => plan'[u] \in StoringTails
                      /\ service = "onedrive" => plan'[u] \in OneDriveTails
                      /\ service = "airtable" => plan'[u] \in AirtableTails
                      /\ service = "outlook" => plan'[u] \in OutlookTails
                      /\ service \in Others => plan'[u] \in OtherTails
    BY DEF PlansOK
  <2>1. CASE u = t
    BY <1>1, <1>3, <2>1
  <2>2. CASE u # t
    BY <1>3, <2>2 DEF PlansOK
  <2> QED
    BY <2>1, <2>2
<1> QED
  BY <1>2, <1>3, <1>4 DEF p

LEMMA MinOfTwo ==
    ASSUME NEW a \in Nat, NEW b \in Nat PROVE Min({a, b}) = IF a <= b THEN a ELSE b
  BY DEF Min

\* What a fetch returns lies between the position it was asked for and the one it
\* gives back, unless it returns nothing; and then only a service that stores
\* gives a position back.
LEMMA ResultsFacts ==
    ASSUME TypeOK, PlansOK, Polls, NEW from \in 0..newest \cup {None}
    PROVE  LET r == Results(from) IN
           /\ r.items \in SUBSET (1..newest) /\ r.next \in 0..newest \cup {None}
           /\ r.next # None => \A c \in r.items : c <= r.next
           /\ r.next # None =>
                \/ Stores /\ r.items = {}
                \/ \A c \in 1..r.next : (from # None /\ c <= from) \/ c \in r.items
<1> DEFINE r == Results(from)
           Good(x) == /\ x.items \in SUBSET (1..newest) /\ x.next \in 0..newest \cup {None}
                      /\ x.next # None => \A c \in x.items : c <= x.next
                      /\ x.next # None =>
                           \/ Stores /\ x.items = {}
                           \/ \A c \in 1..x.next : (from # None /\ c <= from) \/ c \in x.items
<1> SUFFICES Good(r)
  OBVIOUS
<1>1. /\ newest \in 0..MaxChanges /\ MaxChanges \in Nat /\ PageSize \in Nat \ {0} /\ None \notin Nat
      /\ horizon \in 0..newest
  BY IngestionAssumption DEF TypeOK
<1>2. /\ \A n \in 0..newest : Later(n) = {c \in 1..newest : n < c}
      /\ \A n \in 0..newest : Page(n) = {c \in 1..newest : n < c /\ c <= n + PageSize}
  BY <1>1 DEF Later, Page, Changes
<1>3. \A I, n : Result(I, n).items = I /\ Result(I, n).next = n
  BY DEF Result
<1>4. Good(Nothing)
  BY <1>3 DEF Nothing
<1>5. Stores => Good(Result({}, newest)) /\ Good(Result({}, None))
  BY <1>1, <1>3
<1>6. ASSUME from # None PROVE Good(Result(Later(from), newest))
  BY <1>1, <1>2, <1>3, <1>6
<1>7. Good(Result(Later(0), newest))
  BY <1>1, <1>2, <1>3
<1>8. CASE service = "gmail"
  <2>1. Stores
    BY <1>8, Kinds DEF Storing
  <2>2. Results(from) = GmailResult(from)
    BY <1>8 DEF Results
  <2> HIDE DEF Good
  <2> QED
    <3>1. CASE from = None
      BY <1>5, <2>1, <2>2, <3>1 DEF GmailResult
    <3>2. CASE from # None /\ (Expired(from) \/ Later(from) = {})
      BY <1>4, <2>2, <3>2 DEF GmailResult
    <3>3. CASE from # None /\ ~(Expired(from) \/ Later(from) = {})
      BY <1>6, <2>2, <3>3 DEF GmailResult
    <3> QED
      BY <3>1, <3>2, <3>3
<1>9. CASE service = "google_calendar"
  <2>1. Stores
    BY <1>9, Kinds DEF Storing
  <2>2. Results(from) = GoogleCalendarResult(from)
    BY <1>9 DEF Results
  <2>3. ASSUME from # None
        PROVE  Good(Result(Page(from), IF OnePage(from) THEN newest ELSE None))
    <3>1. CASE OnePage(from)
      BY <1>1, <1>6, <2>3, <3>1 DEF OnePage
    <3>2. CASE ~OnePage(from)
      BY <1>1, <1>2, <1>3, <2>3, <3>2
    <3> QED
      BY <3>1, <3>2
  <2>4. Good(Result({}, IF OnePage(0) THEN newest ELSE None))
    BY <1>1, <1>3, <2>1
  <2> HIDE DEF Good
  <2> QED
    <3>1. CASE from = None
      BY <2>2, <2>4, <3>1 DEF GoogleCalendarResult
    <3>2. CASE from # None /\ Expired(from)
      BY <1>4, <2>2, <3>2 DEF GoogleCalendarResult
    <3>3. CASE from # None /\ ~Expired(from)
      BY <2>2, <2>3, <3>3 DEF GoogleCalendarResult
    <3> QED
      BY <3>1, <3>2, <3>3
<1>10. CASE service = "google_drive"
  <2>1. Stores
    BY <1>10, Kinds DEF Storing
  <2>2. Results(from) = GoogleDriveResult(from)
    BY <1>10 DEF Results
  <2> HIDE DEF Good
  <2> QED
    <3>1. CASE from = None \/ Expired(from)
      BY <1>5, <2>1, <2>2, <3>1 DEF GoogleDriveResult
    <3>2. CASE ~(from = None \/ Expired(from))
      BY <1>6, <2>2, <3>2 DEF GoogleDriveResult
    <3> QED
      BY <3>1, <3>2
<1>11. CASE service = "dropbox"
  <2>1. Stores
    BY <1>11, Kinds DEF Storing
  <2>2. Results(from) = DropboxResult(from)
    BY <1>11 DEF Results
  <2>3. Good(Result({}, Min({newest, PageSize})))
    BY <1>1, <1>3, <2>1, MinOfTwo
  <2>4. ASSUME from # None
        PROVE  Good(Result(Page(from), Min({newest, from + PageSize})))
    <3>1. Min({newest, from + PageSize})
            = IF newest <= from + PageSize THEN newest ELSE from + PageSize
      BY <1>1, <2>4, MinOfTwo
    <3>2. from \in 0..newest /\ from \in Nat /\ from + PageSize \in Nat
      BY <1>1, <2>4
    <3> DEFINE m == Min({newest, from + PageSize})
    <3>3. m \in 0..newest /\ m <= from + PageSize /\ (m = newest \/ m = from + PageSize)
      BY <1>1, <3>1, <3>2
    <3>4. Page(from) = {c \in 1..newest : from < c /\ c <= from + PageSize}
      BY <1>2, <3>2
    <3> HIDE DEF m
    <3>5. Page(from) \subseteq 1..newest /\ \A c \in Page(from) : c <= m
      BY <1>1, <3>2, <3>3, <3>4
    <3>6. \A c \in 1..m : c <= from \/ c \in Page(from)
      BY <1>1, <3>2, <3>3, <3>4
    <3>7. Result(Page(from), m).items = Page(from) /\ Result(Page(from), m).next = m
      BY <1>3
    <3> QED
      BY <2>4, <3>3, <3>5, <3>6, <3>7 DEF m
  <2> HIDE DEF Good
  <2> QED
    <3>1. CASE from = None
      BY <2>2, <2>3, <3>1 DEF DropboxResult
    <3>2. CASE from # None /\ Expired(from)
      BY <1>4, <2>2, <3>2 DEF DropboxResult
    <3>3. CASE from # None /\ ~Expired(from)
      BY <2>2, <2>4, <3>3 DEF DropboxResult
    <3> QED
      BY <3>1, <3>2, <3>3
<1>12. CASE service = "onedrive"
  <2>1. Results(from) = OneDriveResult(from)
    BY <1>12 DEF Results
  <2> HIDE DEF Good
  <2> QED
    <3>1. CASE from = None
      BY <1>7, <2>1, <3>1 DEF OneDriveResult
    <3>2. CASE from # None /\ Expired(from)
      BY <1>4, <2>1, <3>2 DEF OneDriveResult
    <3>3. CASE from # None /\ ~Expired(from)
      BY <1>6, <2>1, <3>3 DEF OneDriveResult
    <3> QED
      BY <3>1, <3>2, <3>3
<1>13. CASE service = "airtable"
  <2>1. Results(from) = AirtableResult(from)
    BY <1>13 DEF Results
  <2> HIDE DEF Good
  <2> QED
    <3>1. CASE from = None
      BY <1>7, <2>1, <3>1 DEF AirtableResult
    <3>2. CASE from # None
      BY <1>6, <2>1, <3>2 DEF AirtableResult
    <3> QED
      BY <3>1, <3>2
<1>14. service \in {"gmail", "google_calendar", "google_drive", "dropbox", "onedrive", "airtable"}
  BY Kinds DEF PlansOK, Storing
<1> QED
  BY <1>8, <1>9, <1>10, <1>11, <1>12, <1>13, <1>14

LEMMA BaseInit == Init => Base
<1> SUFFICES ASSUME Init PROVE Base
  OBVIOUS
<1>1. <<>> \in Seq(Steps) /\ Range(<<>>) = {}
  BY RangeOfTuples
<1>2. TypeOK
  BY <1>1, IngestionAssumption DEF Init, TypeOK, Changes
<1>3. PlansOK
  BY ServicesAssumption, HandlersPlans
     DEF Init, PlansOK, StoringTails, OneDriveTails, AirtableTails, OutlookTails, OtherTails
<1>4. PositionsOK
  BY <1>1 DEF Init, PositionsOK, PositionOK, Busy, Ahead, Doing
<1> QED
  BY <1>2, <1>3, <1>4 DEF Base

\* What a task that holds nothing of its plan can be, and what the bounds are.
LEMMA Facts ==
    ASSUME Base
    PROVE  /\ newest \in 0..MaxChanges /\ MaxChanges \in Nat /\ None \notin Nat
           /\ 1..newest \subseteq Changes
           /\ plan \in [Tasks -> Seq(Steps)] /\ batch \in [Tasks -> SUBSET (1..newest)]
           /\ batch \in [Tasks -> SUBSET Changes] /\ took \in [Tasks -> SUBSET (1..newest)]
           /\ seen \in [Tasks -> 0..newest \cup {None}]
           /\ next \in [Tasks -> 0..newest \cup {None}]
           /\ Range(<<>>) = {}
           /\ \A t \in Tasks : \A x : Ahead(t, x) \/ Doing(t, x) => Busy(t)
           /\ \A t \in Tasks : \A x : Doing(t, x) => Ahead(t, x)
<1>1. newest \in 0..MaxChanges /\ MaxChanges \in Nat /\ None \notin Nat
  BY IngestionAssumption DEF Base, TypeOK
<1>2. 1..newest \subseteq Changes
  BY <1>1 DEF Changes
<1>3. Range(<<>>) = {}
  BY RangeOfTuples
<1>4. \A t \in Tasks : \A x : Ahead(t, x) \/ Doing(t, x) => Busy(t)
  BY <1>3 DEF Ahead, Doing, Busy
<1>5. \A t \in Tasks : \A x : Doing(t, x) => Ahead(t, x)
  BY WhatIsLeft DEF Base, Doing
<1> QED
  BY <1>1, <1>2, <1>3, <1>4, <1>5 DEF Base, TypeOK

\* The steps that leave the tasks alone.
LEMMA ServiceBase ==
    ASSUME Base, Change \/ Expire \/ (\E o \in Shared : StoredElsewhere(o)) \/ UNCHANGED vars
    PROVE  Base'
<1> USE DEF serviceVars, taskVars, historyVars, vars
<1>1. /\ newest \in 0..MaxChanges /\ MaxChanges \in Nat
      /\ UNCHANGED <<service, objectOf, checkpoint, plan, seen, batch, took, next, times,
                     deliveries, skipped, again>>
  BY IngestionAssumption DEF Base, TypeOK, Change, Expire, StoredElsewhere
<1>2. newest' \in 0..MaxChanges /\ newest <= newest' /\ horizon' \in 0..newest'
  BY <1>1 DEF Base, TypeOK, Change, Expire, StoredElsewhere
<1>3. stored' \subseteq Objects /\ elsewhere' \subseteq stored' \cap Shared
  BY IngestionAssumption DEF Base, TypeOK, Change, Expire, StoredElsewhere
<1>4. 0..newest \subseteq 0..newest' /\ 1..newest \subseteq 1..newest'
  BY <1>1, <1>2
<1>5. /\ seen \in [Tasks -> 0..newest' \cup {None}] /\ next \in [Tasks -> 0..newest' \cup {None}]
      /\ batch \in [Tasks -> SUBSET (1..newest')] /\ took \in [Tasks -> SUBSET (1..newest')]
  BY <1>4 DEF Base, TypeOK
<1>6. TypeOK'
  BY <1>1, <1>2, <1>3, <1>4, <1>5 DEF Base, TypeOK
<1>7. PlansOK' /\ PositionsOK'
  BY <1>1 DEF Base, PlansOK, PositionsOK, PositionOK, Busy, Doing, Ahead
<1> QED
  BY <1>6, <1>7 DEF Base

\* The position of a task no step touches.
LEMMA OthersKeep ==
    ASSUME Base, NEW t \in Tasks, UNCHANGED service,
           \A u \in Tasks \ {t} :
             /\ plan'[u] = plan[u] /\ batch'[u] = batch[u] /\ seen'[u] = seen[u]
             /\ next'[u] = next[u] /\ took'[u] = took[u],
           PositionOK(t)'
    PROVE  PositionsOK'
<1> SUFFICES ASSUME NEW u \in Tasks, u # t PROVE PositionOK(u)'
  BY DEF PositionsOK
<1> QED
  BY DEF Base, PositionsOK, PositionOK, Busy, Doing, Ahead

LEMMA NotifyBase == ASSUME Base, NEW t \in Tasks, Notify(t) PROVE Base'
<1> USE DEF serviceVars, historyVars
<1>1. /\ ~Busy(t) /\ plan' = [plan EXCEPT ![t] = PlanOf[service]] /\ took' = [took EXCEPT ![t] = {}]
      /\ UNCHANGED <<service, objectOf, newest, horizon, checkpoint, stored, elsewhere, seen,
                     batch, next, times, deliveries, skipped, again>>
  BY DEF Notify
<1>2. /\ plan' \in [Tasks -> Seq(Steps)] /\ PlansOK' /\ plan'[t] # <<>>
      /\ \A u \in Tasks \ {t} : plan'[u] = plan[u]
  BY <1>1, BeginMoves DEF Base, TypeOK
<1>3. TypeOK'
  BY <1>1, <1>2 DEF Base, TypeOK
<1>4. took'[t] = {} /\ \A u \in Tasks \ {t} : took'[u] = took[u]
  BY <1>1, Facts
<1>5. batch[t] = {} /\ seen[t] = None /\ next[t] = None
  BY <1>1, Facts DEF Base, PositionsOK, PositionOK
<1>6. PositionOK(t)'
  BY <1>1, <1>4, <1>5 DEF PositionOK
<1> QED
  BY <1>1, <1>2, <1>3, <1>4, <1>6, OthersKeep DEF Base

LEMMA DeliverBase ==
    ASSUME Base, NEW t \in Tasks, NEW c \in Changes, Deliver(t, c) PROVE Base'
<1> USE DEF serviceVars, historyVars
<1>1. /\ ~Busy(t) /\ plan' = [plan EXCEPT ![t] = PlanOf[service]]
      /\ batch' = [batch EXCEPT ![t] = {c}] /\ c <= newest /\ ~Polls
      /\ deliveries[c] < MaxDeliveries /\ deliveries' = [deliveries EXCEPT ![c] = @ + 1]
      /\ UNCHANGED <<service, objectOf, newest, horizon, checkpoint, stored, elsewhere, seen,
                     took, next, times, skipped, again>>
  BY DEF Deliver
<1>2. /\ plan' \in [Tasks -> Seq(Steps)] /\ PlansOK' /\ plan'[t] # <<>>
      /\ \A u \in Tasks \ {t} : plan'[u] = plan[u]
  BY <1>1, BeginMoves DEF Base, TypeOK
<1>3. /\ batch' \in [Tasks -> SUBSET (1..newest)] /\ batch'[t] = {c}
      /\ \A u \in Tasks \ {t} : batch'[u] = batch[u]
  BY <1>1, Facts DEF Changes
<1>4. deliveries' \in [Changes -> 0..MaxDeliveries]
  BY <1>1, IngestionAssumption DEF Base, TypeOK
<1>5. TypeOK'
  BY <1>1, <1>2, <1>3, <1>4 DEF Base, TypeOK
<1>6. seen[t] = None /\ next[t] = None
  BY <1>1, Facts DEF Base, PositionsOK, PositionOK
<1>7. PositionOK(t)'
  <2>1. ~Polls' /\ service # "onedrive"
    BY <1>1, Kinds DEF Polls, Base, PlansOK
  <2>2. plan'[t] = PlanOf[service]
    BY <1>1, BeginMoves DEF Base, TypeOK
  <2>3. Busy(t)' /\ ~Ahead(t, "fetch")'
    BY <1>1, <1>2, <2>2 DEF Busy, Ahead, Polls
  <2> QED
    BY <1>1, <1>6, <2>1, <2>3 DEF PositionOK
<1> QED
  BY <1>1, <1>2, <1>3, <1>5, <1>7, OthersKeep DEF Base

\* A step of a task that goes on with its plan.
LEMMA GoOnBase ==
    ASSUME Base, NEW t \in Tasks, Busy(t), NEW items \in SUBSET (1..newest), GoOn(t, items),
           UNCHANGED <<service, objectOf, newest, horizon, elsewhere, deliveries>>,
           checkpoint' \in 0..newest \cup {None},
           stored' \subseteq Objects, stored \subseteq stored', times' \in [Changes -> Nat],
           skipped' \subseteq 1..newest, again' \subseteq Changes,
           seen' \in [Tasks -> 0..newest \cup {None}], next' \in [Tasks -> 0..newest \cup {None}],
           took' \in [Tasks -> SUBSET (1..newest)],
           \A u \in Tasks \ {t} :
             seen'[u] = seen[u] /\ next'[u] = next[u] /\ took'[u] = took[u],
           PositionOK(t)'
    PROVE  Base'
<1>1. items \in SUBSET Changes
  BY Facts
<1>2. /\ plan' \in [Tasks -> Seq(Steps)] /\ PlansOK' /\ batch'[t] = items
      /\ \A u \in Tasks \ {t} : plan'[u] = plan[u] /\ batch'[u] = batch[u]
  BY <1>1, Facts, GoOnMoves DEF Base
<1>3. batch' \in [Tasks -> SUBSET (1..newest)]
  BY Facts DEF GoOn
<1>4. TypeOK'
  BY <1>2, <1>3 DEF Base, TypeOK
<1> QED
  BY <1>2, <1>4, OthersKeep DEF Base

LEMMA ReadBase == ASSUME Base, NEW t \in Tasks, Read(t) PROVE Base'
<1> USE DEF serviceVars, historyVars
<1>1. /\ Doing(t, "read") /\ Busy(t) /\ seen' = [seen EXCEPT ![t] = checkpoint] /\ GoOn(t, {})
      /\ UNCHANGED <<service, objectOf, newest, horizon, checkpoint, stored, elsewhere,
                     took, next, times, deliveries, skipped, again>>
  BY DEF Read, Doing
<1>2. /\ plan'[t] = Tail(plan[t]) /\ batch'[t] = {}
      /\ "fetch" \in Range(plan'[t]) /\ "write" \in Range(plan'[t])
      /\ plan'[t] # <<>> /\ Head(plan'[t]) = "fetch"
  <2>1. LET q == Tail(plan[t]) IN
        /\ "fetch" \in Range(q) /\ "write" \in Range(q) /\ q # <<>> /\ Head(q) = "fetch"
    BY <1>1, WhatIsLeft DEF Base, Doing
  <2>2. plan'[t] = Tail(plan[t]) /\ batch'[t] = {}
    BY <1>1, <2>1, Facts, GoOnMoves DEF Base
  <2> QED
    BY <2>1, <2>2
<1>3. /\ took[t] = {} /\ next[t] = None
  BY <1>1, Facts, WhatIsLeft DEF Base, PositionsOK, PositionOK, Doing
<1>4. PositionOK(t)'
  BY <1>1, <1>2, <1>3 DEF PositionOK, Busy, Ahead, Doing
<1>5. /\ seen' \in [Tasks -> 0..newest \cup {None}]
      /\ \A u \in Tasks \ {t} : seen'[u] = seen[u]
  BY <1>1, Facts DEF Base, TypeOK
<1> QED
  BY <1>1, <1>4, <1>5, GoOnBase DEF Base, TypeOK

LEMMA TakeBase ==
    ASSUME Base, NEW t \in Tasks, Doing(t, "fetch"), NEW r, Take(t, r),
           r.items \in SUBSET (1..newest), r.next \in 0..newest \cup {None},
           skipped' \subseteq 1..newest
    PROVE  Base'
<1> USE DEF serviceVars
<1>1. /\ Busy(t) /\ next' = [next EXCEPT ![t] = r.next] /\ GoOn(t, r.items)
      /\ UNCHANGED <<service, objectOf, newest, horizon, checkpoint, stored, elsewhere,
                     seen, times, deliveries>>
  BY DEF Take, Doing
<1>2. r.items \in SUBSET Changes
  BY Facts
<1>3. /\ plan'[t] = Tail(plan[t]) /\ batch'[t] = r.items
      /\ "fetch" \notin Range(plan'[t]) /\ "write" \in Range(plan'[t])
      /\ plan'[t] # <<>> /\ (service = "onedrive" => Head(plan'[t]) = "evaluate")
  <2>1. LET q == Tail(plan[t]) IN
        /\ "fetch" \notin Range(q) /\ "write" \in Range(q) /\ q # <<>>
        /\ service = "onedrive" => Head(q) = "evaluate"
    BY <1>1, WhatIsLeft DEF Base, Doing
  <2>2. plan'[t] = Tail(plan[t]) /\ batch'[t] = r.items
    BY <1>1, <1>2, <2>1, Facts, GoOnMoves DEF Base
  <2> QED
    BY <2>1, <2>2
<1>4. PositionOK(t)'
  BY <1>1, <1>3 DEF PositionOK, Busy, Ahead, Doing
<1>5. PICK T \in {{}, r.items} : took' = [took EXCEPT ![t] = T]
  BY DEF Take
<1>6. /\ next' \in [Tasks -> 0..newest \cup {None}] /\ took' \in [Tasks -> SUBSET (1..newest)]
      /\ \A u \in Tasks \ {t} : next'[u] = next[u] /\ took'[u] = took[u]
  BY <1>1, <1>5, Facts
<1>7. again' \subseteq Changes
  BY <1>2 DEF Take, Overlap, Base, TypeOK
<1> QED
  BY <1>1, <1>4, <1>6, <1>7, GoOnBase DEF Base, TypeOK

LEMMA FetchBase == ASSUME Base, NEW t \in Tasks, Fetch(t) \/ FetchError(t) PROVE Base'
<1> DEFINE r == Results(seen[t])
<1>1. Doing(t, "fetch")
  BY DEF Fetch, FetchError
<1>2. Polls /\ seen[t] \in 0..newest \cup {None}
  BY <1>1, Facts, WhatIsLeft DEF Base, Doing
<1>3. r.items \in SUBSET (1..newest) /\ r.next \in 0..newest \cup {None}
  BY <1>2, ResultsFacts DEF Base
<1>4. \A I, n : Result(I, n).items = I /\ Result(I, n).next = n
  BY DEF Result
<1>5. skipped \subseteq 1..newest
  BY DEF Base, TypeOK
<1> HIDE DEF r
<1>6. CASE Fetch(t)
  <2>1. Take(t, r) /\ skipped' = skipped
    BY <1>6 DEF Fetch, r
  <2> QED
    BY <1>1, <1>3, <1>5, <2>1, TakeBase
<1>7. CASE FetchError(t)
  <2>1. CASE Take(t, Nothing) /\ UNCHANGED skipped
    BY <1>1, <1>4, <1>5, <2>1, TakeBase DEF Nothing
  <2>2. ASSUME NEW n \in Changes, Take(t, Result({c \in r.items : c < n}, None)), UNCHANGED skipped
        PROVE  Base'
    <3>1. {c \in r.items : c < n} \in SUBSET (1..newest)
      BY <1>3
    <3> QED
      BY <1>1, <1>4, <1>5, <2>2, <3>1, TakeBase
  <2>3. ASSUME NEW c \in r.items, Take(t, Result(r.items \ {c}, r.next)), skipped' = skipped \cup {c}
        PROVE  Base'
    BY <1>1, <1>3, <1>4, <1>5, <2>3, TakeBase
  <2> QED
    BY <1>7, <2>1, <2>2, <2>3 DEF FetchError, r
<1> QED
  BY <1>6, <1>7

LEMMA WriteBase == ASSUME Base, NEW t \in Tasks, Write(t) PROVE Base'
<1> USE DEF serviceVars
<1>1. /\ Doing(t, "write") /\ Busy(t) /\ GoOn(t, batch[t]) /\ Forget(t)
      /\ UNCHANGED <<service, objectOf, newest, horizon, stored, elsewhere, took, times,
                     deliveries>>
  BY DEF Write, Doing
<1>2. /\ checkpoint' \in 0..newest \cup {None}
      /\ again' \subseteq Changes /\ skipped' \subseteq 1..newest
  <2>1. took[t] \subseteq Changes /\ next[t] \in 0..newest \cup {None}
    BY Facts
  <2>2. Gap(t) \subseteq 1..newest
    BY Facts DEF Gap, Later, Changes
  <2>3. CASE next[t] = None
    BY <2>1, <2>3 DEF Write, Base, TypeOK
  <2>4. CASE next[t] # None
    BY <2>1, <2>2, <2>4 DEF Write, Base, TypeOK
  <2> QED
    BY <2>3, <2>4
<1>3. /\ seen' \in [Tasks -> 0..newest \cup {None}] /\ next' \in [Tasks -> 0..newest \cup {None}]
      /\ seen'[t] = None /\ next'[t] = None
      /\ \A u \in Tasks \ {t} : seen'[u] = seen[u] /\ next'[u] = next[u]
  BY <1>1, Facts DEF Forget
<1>4. LET q == Tail(plan[t]) IN
      /\ "fetch" \notin Range(q) /\ "write" \notin Range(q)
      /\ service = "onedrive" => q = <<>>
  BY <1>1, WhatIsLeft DEF Base, Doing
<1>5. /\ batch'[t] = batch[t]
      /\ plan'[t] = Tail(plan[t]) \/ (plan'[t] = <<>> /\ batch[t] = {})
  BY <1>1, Facts, GoOnMoves DEF Base
<1>6. "fetch" \notin Range(plan'[t]) /\ (service = "onedrive" => plan'[t] = <<>>)
  BY <1>4, <1>5, Facts
<1>7. service = "onedrive" => batch[t] = {}
  BY <1>1 DEF Base, PositionsOK, PositionOK
<1>8. ~Busy(t)' => batch[t] = {}
  <2>1. SUFFICES ASSUME Tail(plan[t]) = <<>> PROVE batch[t] = {}
    BY <1>5 DEF Busy
  <2>2. ~Stores
    BY <1>1, <2>1, WhatIsLeft DEF Base, Doing
  <2>3. service = "airtable" => Tail(plan[t]) # <<>>
    BY <1>1, AirtableTable DEF Base, PlansOK, Doing, Busy
  <2>4. Polls /\ service \in Storing \cup Others \cup {"onedrive", "airtable", "outlook"}
    BY <1>1, WhatIsLeft DEF Base, Doing, PlansOK
  <2> QED
    BY <1>7, <2>1, <2>2, <2>3, <2>4, Kinds DEF Storing, Others
<1>9. PositionOK(t)'
  BY <1>1, <1>3, <1>5, <1>6, <1>7, <1>8 DEF PositionOK, Ahead, Doing, Busy
<1> QED
  BY <1>1, <1>2, <1>3, <1>9, Facts, GoOnBase DEF Base, TypeOK

\* The steps after the position is written, and the evaluation.
LEMMA LateBase ==
    ASSUME Base, NEW t \in Tasks, Busy(t), ~Ahead(t, "fetch"), ~Doing(t, "write"),
           Head(plan[t]) = "evaluate" \/ Tail(plan[t]) # <<>>,
           NEW items \in SUBSET batch[t], GoOn(t, items),
           Doing(t, "evaluate") => items = {},
           UNCHANGED <<service, objectOf, newest, horizon, checkpoint, elsewhere, deliveries,
                       seen, next, took>>,
           stored' \subseteq Objects, stored \subseteq stored', times' \in [Changes -> Nat],
           skipped' \subseteq 1..newest, again' \subseteq Changes
    PROVE  Base'
<1>1. items \in SUBSET (1..newest) /\ items \in SUBSET Changes
  BY Facts
<1>2. /\ \A x : Ahead(t, x) <=> x = Head(plan[t]) \/ x \in Range(Tail(plan[t]))
  BY WhatIsLeft DEF Base
<1>3. "fetch" \notin Range(Tail(plan[t]))
  BY <1>2
<1>4. /\ batch'[t] = items
      /\ \/ plan'[t] = Tail(plan[t])
         \/ plan'[t] = <<>> /\ items = {} /\ "write" \notin Range(Tail(plan[t]))
  BY <1>1, Facts, GoOnMoves DEF Base
<1>5. "fetch" \notin Range(plan'[t])
  BY <1>3, <1>4, Facts
<1>6. ~Busy(t)' => items = {}
  BY <1>4 DEF Busy, Doing
<1>7. Ahead(t, "write") => Ahead(t, "write")'
  BY <1>2, <1>4 DEF Ahead, Doing
<1>8. service = "onedrive" => items = {}
  <2>1. SUFFICES ASSUME service = "onedrive" PROVE items = {}
    OBVIOUS
  <2>2. plan[t] \in OneDriveTails /\ plan[t] # <<>>
    BY <2>1 DEF Base, PlansOK, Busy
  <2>3. Head(plan[t]) = "evaluate"
    BY <2>2, OneDriveTable DEF Ahead, Doing, Busy
  <2> QED
    BY <2>3 DEF Doing
<1>9. PositionOK(t)'
  BY <1>4, <1>5, <1>6, <1>7, <1>8 DEF PositionOK, Ahead, Doing, Busy, Base, PositionsOK
<1> QED
  BY <1>1, <1>9, GoOnBase DEF Base, TypeOK

\* What a step late in a plan is sure of.
LEMMA LateFacts ==
    ASSUME Base, NEW t \in Tasks,
           NEW h \in {"dedupe", "insert", "collect", "evaluate"}, Doing(t, h)
    PROVE  /\ Busy(t) /\ ~Ahead(t, "fetch") /\ ~Doing(t, "write")
           /\ Head(plan[t]) = "evaluate" \/ Tail(plan[t]) # <<>>
           /\ h # "evaluate" => ~Ahead(t, "write") /\ ~Doing(t, "evaluate") /\ Stores
<1>1. Busy(t) /\ Head(plan[t]) = h
  BY DEF Doing
<1> QED
  BY <1>1, WhatIsLeft DEF Doing, Base

LEMMA DedupeBase == ASSUME Base, NEW t \in Tasks, Dedupe(t) PROVE Base'
<1> USE DEF serviceVars
<1>1. /\ Doing(t, "dedupe") /\ GoOn(t, Kept(t)) /\ Kept(t) \in SUBSET batch[t]
      /\ again' \subseteq Changes /\ UNCHANGED <<stored, times, skipped>>
  BY DEF Dedupe, Kept, Base, TypeOK
<1> QED
  BY <1>1, LateFacts, LateBase DEF Base, TypeOK, Dedupe

LEMMA InsertBase == ASSUME Base, NEW t \in Tasks, Insert(t) PROVE Base'
<1> USE DEF serviceVars, historyVars
<1>1. Doing(t, "insert") /\ GoOn(t, batch[t]) /\ UNCHANGED <<times, skipped, again>>
  BY DEF Insert
<1>2. \A c \in batch[t] : objectOf[c] \in Objects
  BY Facts, IngestionAssumption DEF Base, TypeOK
<1>3. stored' \subseteq Objects /\ stored \subseteq stored'
  BY <1>2 DEF Insert, Base, TypeOK
<1> QED
  BY <1>1, <1>3, LateFacts, LateBase DEF Base, TypeOK, Insert

LEMMA CollectBase == ASSUME Base, NEW t \in Tasks, Collect(t) PROVE Base'
<1> USE DEF serviceVars
<1> DEFINE found == {c \in batch[t] : objectOf[c] \in stored}
<1>1. /\ Doing(t, "collect") /\ GoOn(t, found) /\ found \in SUBSET batch[t]
      /\ skipped' = skipped \cup (batch[t] \ found) /\ UNCHANGED <<stored, times, again>>
  BY DEF Collect
<1>2. skipped' \subseteq 1..newest
  BY <1>1, Facts DEF Base, TypeOK
<1> QED
  BY <1>1, <1>2, LateFacts, LateBase DEF Base, TypeOK, Collect

LEMMA NothingBase == ASSUME Base, NEW t \in Tasks, NothingToEvaluate(t) PROVE Base'
<1> USE DEF serviceVars, historyVars
<1>1. Doing(t, "evaluate") /\ GoOn(t, {})
  BY DEF NothingToEvaluate
<1> QED
  BY <1>1, LateFacts, LateBase DEF Base, TypeOK, NothingToEvaluate

LEMMA PassBase ==
    ASSUME Base, NEW t \in Tasks, NEW c \in Changes, Evaluate(t, c) \/ EvaluateError(t, c)
    PROVE  Base'
<1> USE DEF serviceVars
<1>1. /\ Doing(t, "evaluate") /\ c \in batch[t]
      /\ \/ batch[t] = {c} /\ GoOn(t, {})
         \/ batch[t] # {c} /\ batch' = [batch EXCEPT ![t] = @ \ {c}] /\ UNCHANGED plan
      /\ UNCHANGED <<service, objectOf, newest, horizon, checkpoint, stored, elsewhere,
                     seen, next, took, deliveries, again>>
  BY DEF Pass, Evaluate, EvaluateError
<1>2. times' \in [Changes -> Nat] /\ skipped' \subseteq 1..newest
  <2>1. skipped' = skipped \/ skipped' = skipped \cup {c}
    BY DEF Evaluate, EvaluateError
  <2>2. times' = times \/ times' = [times EXCEPT ![c] = @ + 1]
    BY DEF Evaluate, EvaluateError
  <2>3. c \in 1..newest /\ times \in [Changes -> Nat] /\ skipped \subseteq 1..newest
    BY <1>1, Facts DEF Base, TypeOK
  <2>4. times[c] + 1 \in Nat
    BY <2>3
  <2>5. times' \in [Changes -> Nat]
    BY <2>2, <2>3, <2>4
  <2> QED
    BY <2>1, <2>3, <2>5
<1>3. CASE batch[t] = {c} /\ GoOn(t, {})
  BY <1>1, <1>2, <1>3, LateFacts, LateBase DEF Base, TypeOK
<1>4. CASE batch[t] # {c} /\ batch' = [batch EXCEPT ![t] = @ \ {c}] /\ UNCHANGED plan
  <2>1. /\ batch' \in [Tasks -> SUBSET (1..newest)] /\ batch'[t] \subseteq batch[t]
        /\ \A u \in Tasks \ {t} : batch'[u] = batch[u]
    BY <1>4, Facts
  <2>2. TypeOK'
    BY <1>1, <1>2, <1>4, <2>1 DEF Base, TypeOK
  <2>3. PlansOK'
    BY <1>1, <1>4 DEF Base, PlansOK
  <2>4. PositionOK(t)'
    BY <1>1, <1>4, <2>1 DEF PositionOK, Ahead, Doing, Busy, Base, PositionsOK
  <2> QED
    BY <1>1, <1>4, <2>1, <2>2, <2>3, <2>4, OthersKeep DEF Base
<1> QED
  BY <1>1, <1>3, <1>4

LEMMA StopBase == ASSUME Base, NEW t \in Tasks, Fails(t) \/ FetchRaises(t) PROVE Base'
<1> USE DEF serviceVars
<1>1. /\ plan' = [plan EXCEPT ![t] = <<>>] /\ batch' = [batch EXCEPT ![t] = {}]
      /\ Forget(t)
      /\ UNCHANGED <<service, objectOf, newest, horizon, checkpoint, stored, elsewhere,
                     took, times, deliveries>>
  BY DEF Fails, FetchRaises, Stop
<1>2. /\ plan' \in [Tasks -> Seq(Steps)] /\ PlansOK' /\ plan'[t] = <<>>
      /\ \A u \in Tasks \ {t} : plan'[u] = plan[u]
  BY <1>1, StopMoves, Facts DEF Base
<1>3. /\ seen' \in [Tasks -> 0..newest \cup {None}] /\ next' \in [Tasks -> 0..newest \cup {None}]
      /\ batch' \in [Tasks -> SUBSET (1..newest)]
      /\ seen'[t] = None /\ next'[t] = None /\ batch'[t] = {}
      /\ \A u \in Tasks \ {t} : seen'[u] = seen[u] /\ next'[u] = next[u] /\ batch'[u] = batch[u]
  BY <1>1, Facts DEF Forget
<1>4. again' \subseteq Changes /\ skipped' \subseteq 1..newest
  BY <1>1, Facts DEF Fails, FetchRaises, Stop, Base, TypeOK
<1>5. TypeOK'
  BY <1>1, <1>2, <1>3, <1>4 DEF Base, TypeOK
<1>6. PositionOK(t)'
  BY <1>1, <1>2, <1>3, Facts DEF PositionOK, Busy, Ahead, Doing
<1> QED
  BY <1>1, <1>2, <1>3, <1>5, <1>6, Facts, OthersKeep DEF Base

LEMMA BaseStep == ASSUME Base, [Next]_vars PROVE Base'
<1>1. CASE Change \/ Expire \/ (\E o \in Shared : StoredElsewhere(o)) \/ UNCHANGED vars
  BY <1>1, ServiceBase
<1>2. ASSUME NEW t \in Tasks, Notify(t) PROVE Base'
  BY <1>2, NotifyBase
<1>3. ASSUME NEW t \in Tasks, TaskStep(t) PROVE Base'
  <2>1. CASE Read(t)
    BY <2>1, ReadBase
  <2>2. CASE Fetch(t)
    BY <2>2, FetchBase
  <2>3. CASE FetchRaises(t)
    BY <2>3, StopBase
  <2>4. CASE Write(t)
    BY <2>4, WriteBase
  <2>5. CASE Dedupe(t)
    BY <2>5, DedupeBase
  <2>6. CASE Insert(t)
    BY <2>6, InsertBase
  <2>7. CASE Collect(t)
    BY <2>7, CollectBase
  <2>8. CASE NothingToEvaluate(t)
    BY <2>8, NothingBase
  <2>9. ASSUME NEW c \in Changes, Evaluate(t, c) PROVE Base'
    BY <2>9, PassBase
  <2> QED
    BY <1>3, <2>1, <2>2, <2>3, <2>4, <2>5, <2>6, <2>7, <2>8, <2>9 DEF TaskStep
<1>4. ASSUME NEW t \in Tasks, FetchError(t) PROVE Base'
  BY <1>4, FetchBase
<1>5. ASSUME NEW t \in Tasks, Fails(t) PROVE Base'
  BY <1>5, StopBase
<1>6. ASSUME NEW t \in Tasks, NEW c \in Changes, Deliver(t, c) \/ EvaluateError(t, c) PROVE Base'
  BY <1>6, DeliverBase, PassBase
<1> QED
  BY <1>1, <1>2, <1>3, <1>4, <1>5, <1>6 DEF Next

\* No task, in any order of the steps and after any error, reads or writes a
\* position or holds a change that is not there, and what it has still to do is
\* the end of its handler's plan.
THEOREM IngestionTypes == Spec => [](TypeOK /\ PlansOK)
<1>1. Init => Base
  BY BaseInit
<1>2. Base /\ [Next]_vars => Base'
  BY BaseStep
<1>3. Base => TypeOK /\ PlansOK
  BY DEF Base
<1> QED
  BY <1>1, <1>2, <1>3, PTL DEF Spec

-----------------------------------------------------------------------------
(* What each step does to its task, and leaves of the others *)

Same(t) == \A u \in Tasks \ {t} :
    /\ plan'[u] = plan[u] /\ batch'[u] = batch[u] /\ took'[u] = took[u]
    /\ seen'[u] = seen[u] /\ next'[u] = next[u]
World == UNCHANGED <<service, objectOf>>

\* The services and the changes' objects, which no step changes.
LEMMA Fixed ==
    ASSUME World
    PROVE  /\ Polls' <=> Polls
           /\ Stores' <=> Stores
           /\ objectOf' = objectOf
  BY DEF World, Polls, Stores

LEMMA ReadMoves ==
    ASSUME Base, NEW t \in Tasks, Read(t)
    PROVE  /\ World /\ Same(t)
           /\ UNCHANGED <<checkpoint, stored, elsewhere, times, deliveries, skipped, again>>
           /\ Polls /\ Busy(t) /\ Ahead(t, "write") /\ Ahead(t, "fetch") /\ batch[t] = {}
           /\ Busy(t)' /\ Ahead(t, "write")' /\ Ahead(t, "fetch")' /\ batch'[t] = {}
           /\ seen'[t] = checkpoint /\ next'[t] = next[t] /\ took'[t] = took[t]
<1> USE DEF serviceVars, historyVars
<1>1. /\ Doing(t, "read") /\ Busy(t) /\ seen' = [seen EXCEPT ![t] = checkpoint] /\ GoOn(t, {})
      /\ UNCHANGED <<service, objectOf, newest, checkpoint, stored, elsewhere,
                     took, next, times, deliveries, skipped, again>>
  BY DEF Read, Doing
<1>2. LET q == Tail(plan[t]) IN
      /\ "fetch" \in Range(q) /\ "write" \in Range(q) /\ q # <<>> /\ Polls
      /\ Ahead(t, "write") /\ Ahead(t, "fetch")
  BY <1>1, WhatIsLeft DEF Base, Doing
<1>3. /\ plan'[t] = Tail(plan[t]) /\ batch'[t] = {}
      /\ \A u \in Tasks \ {t} : plan'[u] = plan[u] /\ batch'[u] = batch[u]
  BY <1>1, <1>2, Facts, GoOnMoves DEF Base
<1>4. batch[t] = {}
  BY <1>2 DEF Base, PositionsOK, PositionOK
<1>5. seen'[t] = checkpoint /\ \A u \in Tasks \ {t} : seen'[u] = seen[u]
  BY <1>1, Facts
<1> QED
  BY <1>1, <1>2, <1>3, <1>4, <1>5 DEF World, Same, Ahead, Busy

LEMMA TakeMoves ==
    ASSUME Base, NEW t \in Tasks, Doing(t, "fetch"), NEW r, Take(t, r),
           r.items \in SUBSET (1..newest), r.next \in 0..newest \cup {None}
    PROVE  /\ World /\ Same(t)
           /\ UNCHANGED <<checkpoint, stored, elsewhere, times, deliveries>>
           /\ Polls /\ Busy(t) /\ Ahead(t, "write") /\ Ahead(t, "fetch") /\ batch[t] = {}
           /\ took[t] = {}
           /\ Busy(t)' /\ Ahead(t, "write")' /\ ~Ahead(t, "fetch")' /\ batch'[t] = r.items
           /\ Stores => Doing(t, "write")' /\ Ahead(t, "evaluate")' /\ Ahead(t, "dedupe")'
           /\ seen'[t] = seen[t] /\ next'[t] = r.next
           /\ took'[t] = IF Stores THEN {} ELSE r.items
           /\ again' = again \cup Overlap(t, r.items)
<1> USE DEF serviceVars
<1>1. /\ Busy(t) /\ next' = [next EXCEPT ![t] = r.next] /\ GoOn(t, r.items)
      /\ took' = [took EXCEPT ![t] = IF Stores THEN {} ELSE r.items]
      /\ UNCHANGED <<service, objectOf, newest, checkpoint, stored, elsewhere,
                     seen, times, deliveries>>
      /\ again' = again \cup Overlap(t, r.items)
  BY DEF Take, Doing
<1>2. r.items \in SUBSET Changes
  BY Facts
<1>3. LET q == Tail(plan[t]) IN
      /\ "fetch" \notin Range(q) /\ "write" \in Range(q) /\ q # <<>> /\ Polls
      /\ Ahead(t, "write") /\ Ahead(t, "fetch")
      /\ Stores => Head(q) = "write" /\ "evaluate" \in Range(q) /\ "dedupe" \in Range(q)
  BY <1>1, WhatIsLeft DEF Base, Doing
<1>4. /\ plan'[t] = Tail(plan[t]) /\ batch'[t] = r.items
      /\ \A u \in Tasks \ {t} : plan'[u] = plan[u] /\ batch'[u] = batch[u]
  BY <1>1, <1>2, <1>3, Facts, GoOnMoves DEF Base
<1>5. batch[t] = {} /\ took[t] = {}
  BY <1>3 DEF Base, PositionsOK, PositionOK
<1>6. /\ next'[t] = r.next /\ \A u \in Tasks \ {t} : next'[u] = next[u]
  BY <1>1, Facts
<1>7. /\ took'[t] = IF Stores THEN {} ELSE r.items
      /\ \A u \in Tasks \ {t} : took'[u] = took[u]
  BY <1>1, Facts
<1>8. Stores => Doing(t, "write")' /\ Ahead(t, "evaluate")' /\ Ahead(t, "dedupe")'
  BY <1>3, <1>4 DEF Doing, Busy, Ahead
<1>9. Busy(t)' /\ Ahead(t, "write")' /\ ~Ahead(t, "fetch")'
  BY <1>3, <1>4 DEF Doing, Busy, Ahead
<1> QED
  BY <1>1, <1>3, <1>4, <1>5, <1>6, <1>7, <1>8, <1>9 DEF World, Same

LEMMA WriteMoves ==
    ASSUME Base, NEW t \in Tasks, Write(t)
    PROVE  /\ World /\ Same(t)
           /\ UNCHANGED <<stored, elsewhere, times, deliveries>>
           /\ Polls /\ Busy(t) /\ Doing(t, "write") /\ Ahead(t, "write") /\ ~Ahead(t, "fetch")
           /\ ~Ahead(t, "write")' /\ batch'[t] = batch[t]
           /\ batch[t] # {} => Busy(t)' /\ (Stores => Ahead(t, "dedupe")')
           /\ seen'[t] = None /\ next'[t] = None /\ took'[t] = took[t]
           /\ \/ /\ next[t] = None /\ checkpoint' = checkpoint /\ skipped' = skipped
                 /\ again' = again \cup took[t]
              \/ /\ next[t] # None /\ checkpoint' = next[t]
                 /\ again' = again \cup
                      {c \in Changes : next[t] < c /\ checkpoint # None /\ c <= checkpoint}
                 /\ skipped' = skipped \cup
                      {c \in Gap(t) : c <= next[t] /\ (seen[t] = None \/ c > seen[t])}
<1> USE DEF serviceVars
<1>1. /\ Doing(t, "write") /\ Busy(t) /\ GoOn(t, batch[t]) /\ Forget(t)
      /\ UNCHANGED <<service, objectOf, newest, stored, elsewhere, took, times, deliveries>>
  BY DEF Write, Doing
<1>2. LET q == Tail(plan[t]) IN
      /\ Polls /\ Ahead(t, "write") /\ "write" \notin Range(q)
      /\ Stores => q # <<>> /\ "dedupe" \in Range(q)
      /\ service = "onedrive" => q = <<>>
  BY <1>1, WhatIsLeft DEF Base, Doing
<1>3. ~Ahead(t, "fetch")
  BY <1>1, WhatIsLeft DEF Base, Doing
<1>4. /\ batch'[t] = batch[t]
      /\ plan'[t] = Tail(plan[t]) \/ (plan'[t] = <<>> /\ batch[t] = {})
      /\ \A u \in Tasks \ {t} : plan'[u] = plan[u] /\ batch'[u] = batch[u]
  BY <1>1, Facts, GoOnMoves DEF Base
<1>5. seen'[t] = None /\ next'[t] = None
  BY <1>1, Facts DEF Forget
<1>6. \A u \in Tasks \ {t} : seen'[u] = seen[u] /\ next'[u] = next[u]
  BY <1>1, Facts DEF Forget
<1>7. ~Ahead(t, "write")'
  BY <1>2, <1>4, Facts DEF Ahead
<1>8. batch[t] # {} => Busy(t)' /\ (Stores => Ahead(t, "dedupe")')
  <2>1. batch'[t] # {} => Busy(t)'
    BY WriteBase DEF Base, PositionsOK, PositionOK
  <2> QED
    BY <1>2, <1>4, <2>1 DEF Ahead
<1> QED
  BY <1>1, <1>2, <1>3, <1>4, <1>5, <1>6, <1>7, <1>8 DEF World, Same, Write

\* The steps after the position is written, and OneDrive's evaluation before it.
LEMMA LateMoves ==
    ASSUME Base, NEW t \in Tasks,
           NEW h \in {"dedupe", "insert", "collect", "evaluate"}, Doing(t, h),
           NEW items \in SUBSET batch[t], GoOn(t, items), UNCHANGED service
    PROVE  /\ \A u \in Tasks \ {t} : plan'[u] = plan[u] /\ batch'[u] = batch[u]
           /\ batch'[t] = items /\ ~Ahead(t, "fetch") /\ ~Ahead(t, "fetch")'
           /\ Ahead(t, "write") <=> Ahead(t, "write")'
           /\ Ahead(t, "dedupe") <=> h = "dedupe"
           /\ ~Ahead(t, "dedupe") => ~Ahead(t, "dedupe")'
           /\ Polls => ~Ahead(t, "dedupe")'
           /\ h # "evaluate" => Stores /\ ~Ahead(t, "write") /\ (items # {} => Busy(t)')
           /\ h = "dedupe" => ~Doing(t, "evaluate")'
           /\ h = "insert" => ~Ahead(t, "collect") \/ ~Doing(t, "evaluate")'
           /\ h = "evaluate" => ~Doing(t, "evaluate")'
<1> DEFINE q == Tail(plan[t])
<1>1. Busy(t) /\ Head(plan[t]) = h
  BY DEF Doing
<1>2. \A x : Ahead(t, x) <=> x = h \/ x \in Range(q)
  BY <1>1, WhatIsLeft DEF Base
<1>3. "fetch" \notin Range(q)
  BY <1>1, WhatIsLeft DEF Base
<1>4. "dedupe" \in Range(q) => h = "dedupe"
  BY <1>1, WhatIsLeft DEF Base
<1>5. h # "evaluate" => Stores /\ "write" \notin Range(q) /\ q # <<>>
  BY <1>1, WhatIsLeft DEF Base
<1>6. h = "insert" /\ "collect" \in Range(q) => Head(q) = "collect"
  BY <1>1, WhatIsLeft DEF Base
<1>7. h = "dedupe" => Head(q) = "insert" \/ Head(q) = "dedupe"
  BY <1>1, WhatIsLeft DEF Base
<1>8. h = "evaluate" => q = <<>> \/ Head(q) = "write"
  BY <1>1, WhatIsLeft DEF Base
<1>9. Polls => "dedupe" \notin Range(q)
  <2>1. CASE service \in Storing
    BY <1>1, <2>1, StoringTable DEF Base, PlansOK, Busy
  <2>2. CASE ~Stores
    BY <1>1, <1>2, <2>2, WhatIsLeft DEF Base, Ahead
  <2> QED
    BY <2>1, <2>2, Kinds DEF Base, PlansOK
<1>10. items \in SUBSET Changes
  BY Facts
<1>11. /\ \A u \in Tasks \ {t} : plan'[u] = plan[u] /\ batch'[u] = batch[u]
       /\ batch'[t] = items
       /\ plan'[t] = q \/ (plan'[t] = <<>> /\ items = {} /\ "write" \notin Range(q))
  BY <1>1, <1>10, Facts, GoOnMoves DEF Base
<1> HIDE DEF q
<1>12. Range(<<>>) = {}
  BY Facts
<1>13. \A x : Ahead(t, x)' => x \in Range(q)
  BY <1>11, <1>12 DEF Ahead
<1>14. "write" \in Range(q) => Ahead(t, "write")'
  BY <1>11, <1>12 DEF Ahead
<1>15. Doing(t, "evaluate")' => q # <<>> /\ Head(q) = "evaluate"
  BY <1>11 DEF Doing, Busy
<1>16. q # <<>> /\ items # {} => Busy(t)'
  BY <1>11 DEF Busy
<1>17. h # "evaluate" => Stores /\ ~Ahead(t, "write") /\ (items # {} => Busy(t)')
  BY <1>2, <1>5, <1>16
<1>18. Ahead(t, "write") <=> Ahead(t, "write")'
  BY <1>2, <1>13, <1>14
<1>19. /\ Ahead(t, "dedupe") <=> h = "dedupe"
       /\ ~Ahead(t, "dedupe") => ~Ahead(t, "dedupe")'
       /\ Polls => ~Ahead(t, "dedupe")'
  BY <1>2, <1>4, <1>9, <1>13
<1>20. ~Ahead(t, "fetch") /\ ~Ahead(t, "fetch")'
  BY <1>2, <1>3, <1>13
<1>21. /\ h = "dedupe" => ~Doing(t, "evaluate")'
       /\ h = "insert" => ~Ahead(t, "collect") \/ ~Doing(t, "evaluate")'
       /\ h = "evaluate" => ~Doing(t, "evaluate")'
  BY <1>2, <1>6, <1>7, <1>8, <1>15
<1> QED
  BY <1>11, <1>17, <1>18, <1>19, <1>20, <1>21

Quiet(t) == seen'[t] = seen[t] /\ next'[t] = next[t] /\ took'[t] = took[t]

LEMMA DedupeMoves ==
    ASSUME Base, NEW t \in Tasks, Dedupe(t)
    PROVE  /\ World /\ Same(t) /\ Quiet(t)
           /\ UNCHANGED <<checkpoint, stored, elsewhere, times, deliveries, skipped>>
           /\ Busy(t) /\ Stores /\ ~Ahead(t, "fetch") /\ ~Ahead(t, "fetch")'
           /\ ~Ahead(t, "write") /\ ~Ahead(t, "write")' /\ Ahead(t, "dedupe")
           /\ Polls => ~Ahead(t, "dedupe")'
           /\ batch'[t] = Kept(t) /\ Kept(t) \subseteq batch[t]
           /\ Kept(t) # {} => Busy(t)'
           /\ ~Doing(t, "evaluate")'
           /\ again' = again \cup {c \in Changes : \E d \in Kept(t), u \in Tasks \ {t} :
                /\ objectOf[c] = objectOf[d]
                /\ Doing(u, "insert") \/ Doing(u, "collect")
                /\ \E e \in batch[u] : objectOf[e] = objectOf[d]}
<1> USE DEF serviceVars
<1>1. Doing(t, "dedupe") /\ GoOn(t, Kept(t)) /\ Kept(t) \in SUBSET batch[t] /\ Busy(t)
  BY DEF Dedupe, Kept, Doing
<1>2. /\ UNCHANGED <<service, objectOf, newest, checkpoint, stored, elsewhere, seen, next, took,
                     times, deliveries, skipped>>
  BY DEF Dedupe
<1> QED
  BY <1>1, <1>2, LateMoves DEF Same, World, Quiet, Dedupe

LEMMA InsertMoves ==
    ASSUME Base, NEW t \in Tasks, Insert(t)
    PROVE  /\ World /\ Same(t) /\ Quiet(t)
           /\ UNCHANGED <<checkpoint, elsewhere, times, deliveries, skipped, again>>
           /\ Busy(t) /\ Doing(t, "insert") /\ Stores
           /\ ~Ahead(t, "fetch") /\ ~Ahead(t, "fetch")'
           /\ ~Ahead(t, "write") /\ ~Ahead(t, "write")'
           /\ ~Ahead(t, "dedupe") /\ ~Ahead(t, "dedupe")'
           /\ batch'[t] = batch[t]
           /\ batch[t] # {} => Busy(t)'
           /\ stored \subseteq stored'
           /\ \A o \in stored' : o \in stored \/ \E c \in batch[t] : objectOf[c] = o
           /\ Doing(t, "evaluate")' => \A c \in batch[t] : objectOf[c] \in stored'
<1> USE DEF serviceVars, historyVars
<1>1. Doing(t, "insert") /\ GoOn(t, batch[t]) /\ Busy(t)
  BY DEF Insert, Doing
<1>2. /\ UNCHANGED <<service, objectOf, newest, checkpoint, elsewhere, seen, next, took,
                     times, deliveries, skipped, again>>
  BY DEF Insert
<1>3. /\ stored \subseteq stored'
      /\ \A o \in stored' : o \in stored \/ \E c \in batch[t] : objectOf[c] = o
      /\ ~Ahead(t, "collect") => \A c \in batch[t] : objectOf[c] \in stored'
  BY DEF Insert
<1> QED
  BY <1>1, <1>2, <1>3, LateMoves DEF Same, World, Quiet

LEMMA CollectMoves ==
    ASSUME Base, NEW t \in Tasks, Collect(t)
    PROVE  /\ World /\ Same(t) /\ Quiet(t)
           /\ UNCHANGED <<checkpoint, stored, elsewhere, times, deliveries, again>>
           /\ Busy(t) /\ Doing(t, "collect") /\ Stores
           /\ ~Ahead(t, "fetch") /\ ~Ahead(t, "fetch")'
           /\ ~Ahead(t, "write") /\ ~Ahead(t, "write")'
           /\ ~Ahead(t, "dedupe") /\ ~Ahead(t, "dedupe")'
           /\ batch'[t] = {c \in batch[t] : objectOf[c] \in stored}
           /\ batch'[t] # {} => Busy(t)'
           /\ skipped \subseteq skipped'
           /\ \A c \in batch[t] : c \in batch'[t] \/ c \in skipped'
<1> USE DEF serviceVars
<1> DEFINE found == {c \in batch[t] : objectOf[c] \in stored}
<1>1. Doing(t, "collect") /\ GoOn(t, found) /\ Busy(t) /\ found \in SUBSET batch[t]
  BY DEF Collect, Doing
<1>2. /\ UNCHANGED <<service, objectOf, newest, checkpoint, stored, elsewhere, seen, next, took,
                     times, deliveries, again>>
      /\ skipped' = skipped \cup (batch[t] \ found)
  BY DEF Collect
<1> QED
  BY <1>1, <1>2, LateMoves DEF Same, World, Quiet

\* One change is evaluated or given up, or there was none.
LEMMA EvaluateMoves ==
    ASSUME Base, NEW t \in Tasks,
           NothingToEvaluate(t) \/ \E c \in Changes : Evaluate(t, c) \/ EvaluateError(t, c)
    PROVE  /\ World /\ Same(t) /\ Quiet(t)
           /\ UNCHANGED <<checkpoint, stored, elsewhere, deliveries, again>>
           /\ Busy(t) /\ Doing(t, "evaluate") /\ ~Ahead(t, "fetch") /\ ~Ahead(t, "fetch")'
           /\ Ahead(t, "write") <=> Ahead(t, "write")'
           /\ ~Ahead(t, "dedupe") /\ ~Ahead(t, "dedupe")'
           /\ Ahead(t, "write") \/ batch'[t] # {} => Busy(t)'
           /\ \/ batch[t] = {} /\ batch'[t] = {} /\ UNCHANGED <<times, skipped>>
              \/ \E c \in batch[t] :
                  /\ c \in Changes /\ batch'[t] = batch[t] \ {c}
                  /\ \/ times' = [times EXCEPT ![c] = @ + 1] /\ skipped' = skipped
                     \/ skipped' = skipped \cup {c} /\ times' = times
<1> USE DEF serviceVars
<1>1. CASE NothingToEvaluate(t)
  <2>1. /\ Doing(t, "evaluate") /\ GoOn(t, {}) /\ Busy(t) /\ batch[t] = {}
        /\ UNCHANGED <<service, objectOf, newest, checkpoint, stored, elsewhere, seen, next, took,
                       times, deliveries, skipped, again>>
    BY <1>1 DEF NothingToEvaluate, Doing, historyVars
  <2>2. Ahead(t, "write") => Busy(t)'
    BY <2>1, LateMoves, NothingBase, <1>1, Facts DEF Base, Busy, Ahead
  <2> QED
    BY <2>1, <2>2, LateMoves DEF Same, World, Quiet
<1>2. ASSUME NEW c \in Changes, Evaluate(t, c) \/ EvaluateError(t, c)
      PROVE  /\ World /\ Same(t) /\ Quiet(t)
             /\ UNCHANGED <<checkpoint, stored, elsewhere, deliveries, again>>
             /\ Busy(t) /\ Doing(t, "evaluate") /\ ~Ahead(t, "fetch") /\ ~Ahead(t, "fetch")'
             /\ Ahead(t, "write") <=> Ahead(t, "write")'
             /\ ~Ahead(t, "dedupe") /\ ~Ahead(t, "dedupe")'
             /\ Ahead(t, "write") \/ batch'[t] # {} => Busy(t)'
             /\ c \in batch[t] /\ batch'[t] = batch[t] \ {c}
             /\ \/ times' = [times EXCEPT ![c] = @ + 1] /\ skipped' = skipped
                \/ skipped' = skipped \cup {c} /\ times' = times
  <2>1. /\ Doing(t, "evaluate") /\ c \in batch[t] /\ Busy(t)
        /\ \/ batch[t] = {c} /\ GoOn(t, {})
           \/ batch[t] # {c} /\ batch' = [batch EXCEPT ![t] = @ \ {c}] /\ UNCHANGED plan
        /\ UNCHANGED <<service, objectOf, newest, checkpoint, stored, elsewhere,
                       seen, next, took, deliveries, again>>
    BY <1>2 DEF Pass, Evaluate, EvaluateError, Doing
  <2>2. \/ times' = [times EXCEPT ![c] = @ + 1] /\ skipped' = skipped
        \/ skipped' = skipped \cup {c} /\ times' = times
    BY <1>2 DEF Evaluate, EvaluateError
  <2>3. CASE batch[t] = {c} /\ GoOn(t, {})
    <3>1. Ahead(t, "write") => Busy(t)'
      BY <2>1, <2>3, LateMoves, PassBase, <1>2, Facts DEF Base, Busy, Ahead
    <3> QED
      BY <2>1, <2>2, <2>3, <3>1, LateMoves DEF Same, World, Quiet
  <2>4. CASE batch[t] # {c} /\ batch' = [batch EXCEPT ![t] = @ \ {c}] /\ UNCHANGED plan
    <3>1. /\ batch'[t] = batch[t] \ {c}
          /\ \A u \in Tasks \ {t} : plan'[u] = plan[u] /\ batch'[u] = batch[u]
      BY <2>4, Facts
    <3>2. ~Ahead(t, "fetch") /\ ~Ahead(t, "dedupe")
      BY <2>1, WhatIsLeft DEF Base, Doing
    <3> QED
      BY <2>1, <2>2, <2>4, <3>1, <3>2 DEF Same, World, Quiet, Ahead, Busy
  <2> QED
    BY <2>1, <2>3, <2>4
<1> QED
  BY <1>1, <1>2

LEMMA StopTaskMoves ==
    ASSUME Base, NEW t \in Tasks, Fails(t) \/ FetchRaises(t)
    PROVE  /\ World /\ Same(t)
           /\ UNCHANGED <<checkpoint, stored, elsewhere, times, deliveries>>
           /\ Busy(t) /\ ~Busy(t)' /\ batch'[t] = {} /\ ~Ahead(t, "fetch")'
           /\ seen'[t] = None /\ next'[t] = None /\ took'[t] = took[t]
           /\ \/ Ahead(t, "write") /\ again' = again \cup took[t] /\ skipped' = skipped
              \/ ~Ahead(t, "write") /\ skipped' = skipped \cup batch[t] /\ again' = again
<1> USE DEF serviceVars
<1>1. /\ plan' = [plan EXCEPT ![t] = <<>>] /\ batch' = [batch EXCEPT ![t] = {}]
      /\ Forget(t) /\ Busy(t)
      /\ UNCHANGED <<service, objectOf, newest, checkpoint, stored, elsewhere,
                     took, times, deliveries>>
      /\ \/ Ahead(t, "write") /\ again' = again \cup took[t] /\ skipped' = skipped
         \/ ~Ahead(t, "write") /\ skipped' = skipped \cup batch[t] /\ again' = again
  BY DEF Fails, FetchRaises, Stop, Doing
<1>2. plan'[t] = <<>> /\ \A u \in Tasks \ {t} : plan'[u] = plan[u]
  BY <1>1, Facts
<1>3. /\ seen'[t] = None /\ next'[t] = None /\ batch'[t] = {}
      /\ \A u \in Tasks \ {t} : seen'[u] = seen[u] /\ next'[u] = next[u] /\ batch'[u] = batch[u]
  BY <1>1, Facts DEF Forget
<1>4. ~Ahead(t, "fetch")' /\ ~Busy(t)'
  BY <1>2, Facts DEF Ahead, Busy
<1> QED
  BY <1>1, <1>2, <1>3, <1>4 DEF World, Same

LEMMA NotifyMoves ==
    ASSUME Base, NEW t \in Tasks, Notify(t)
    PROVE  /\ World /\ Same(t)
           /\ UNCHANGED <<checkpoint, stored, elsewhere, times, deliveries, skipped, again>>
           /\ Polls /\ ~Busy(t) /\ Busy(t)' /\ Ahead(t, "fetch")' /\ batch[t] = {} /\ batch'[t] = {}
           /\ Ahead(t, "write")'
           /\ seen[t] = None /\ next[t] = None /\ took'[t] = {}
           /\ seen'[t] = None /\ next'[t] = None
<1> USE DEF serviceVars, historyVars
<1>1. /\ ~Busy(t) /\ plan' = [plan EXCEPT ![t] = PlanOf[service]] /\ took' = [took EXCEPT ![t] = {}]
      /\ UNCHANGED <<service, objectOf, newest, checkpoint, stored, elsewhere, seen,
                     batch, next, times, deliveries, skipped, again>> /\ Polls
  BY DEF Notify
<1>2. /\ plan'[t] = PlanOf[service] /\ plan'[t] # <<>>
      /\ \A u \in Tasks \ {t} : plan'[u] = plan[u]
  BY <1>1, BeginMoves DEF Base, TypeOK
<1>3. took'[t] = {} /\ \A u \in Tasks \ {t} : took'[u] = took[u]
  BY <1>1, Facts
<1>4. batch[t] = {} /\ seen[t] = None /\ next[t] = None
  BY <1>1, Facts DEF Base, PositionsOK, PositionOK
<1>5. Ahead(t, "fetch")' /\ Ahead(t, "write")'
  <2>1. service \in Storing \cup {"onedrive", "airtable"}
    BY <1>1, Kinds DEF Base, PlansOK
  <2>2. "write" \in Range(PlanOf[service])
    <3>1. "write" \in Range(GmailPlan)
      BY RangeOfTuples DEF GmailPlan
    <3>2. "write" \in Range(OneDrivePlan)
      BY RangeOfTuples DEF OneDrivePlan
    <3>3. "write" \in Range(AirtablePlan)
      BY RangeOfTuples DEF AirtablePlan
    <3> QED
      BY <2>1, <3>1, <3>2, <3>3, HandlersPlans
  <2> QED
    BY <1>1, <1>2, <2>2 DEF Ahead, Polls
<1> QED
  BY <1>1, <1>2, <1>3, <1>4, <1>5 DEF World, Same, Busy

LEMMA DeliverMoves ==
    ASSUME Base, NEW t \in Tasks, NEW c \in Changes, Deliver(t, c)
    PROVE  /\ World /\ Same(t) /\ Quiet(t)
           /\ UNCHANGED <<checkpoint, stored, elsewhere, times, skipped, again>>
           /\ ~Polls /\ ~Busy(t) /\ batch[t] = {} /\ batch'[t] = {c}
           /\ seen[t] = None /\ next[t] = None
           /\ Stores => Ahead(t, "dedupe")'
           /\ deliveries' = [deliveries EXCEPT ![c] = @ + 1]
<1> USE DEF serviceVars, historyVars
<1>1. /\ ~Busy(t) /\ plan' = [plan EXCEPT ![t] = PlanOf[service]]
      /\ batch' = [batch EXCEPT ![t] = {c}] /\ ~Polls
      /\ deliveries' = [deliveries EXCEPT ![c] = @ + 1]
      /\ UNCHANGED <<service, objectOf, newest, checkpoint, stored, elsewhere, seen,
                     took, next, times, skipped, again>>
  BY DEF Deliver
<1>2. /\ plan'[t] = PlanOf[service]
      /\ \A u \in Tasks \ {t} : plan'[u] = plan[u]
  BY <1>1, BeginMoves DEF Base, TypeOK
<1>3. batch'[t] = {c} /\ \A u \in Tasks \ {t} : batch'[u] = batch[u]
  BY <1>1, Facts
<1>4. batch[t] = {} /\ seen[t] = None /\ next[t] = None
  BY <1>1, Facts DEF Base, PositionsOK, PositionOK
<1>5. Stores => Ahead(t, "dedupe")'
  <2>1. Stores => service = "outlook"
    BY <1>1, Kinds DEF Base, PlansOK
  <2>2. "dedupe" \in Range(OutlookPlan)
    BY RangeOfTuples DEF OutlookPlan
  <2> QED
    BY <1>2, <2>1, <2>2, HandlersPlans DEF Ahead
<1> QED
  BY <1>1, <1>2, <1>3, <1>4, <1>5 DEF World, Same, Quiet

-----------------------------------------------------------------------------
(* Behind the checkpoint: what is safe stays safe *)

Grows == /\ \A c \in Changes : times[c] > 0 => times'[c] > 0
         /\ skipped \subseteq skipped' /\ elsewhere \subseteq elsewhere'

\* What a task that is past the look-up holds, it still holds or has settled.
KeepsSafe(t) ==
    ~Ahead(t, "write") /\ ~Ahead(t, "dedupe") => \A c \in batch[t] :
        \/ times'[c] > 0 \/ c \in skipped'
        \/ c \in batch'[t] /\ ~Ahead(t, "write")' /\ ~Ahead(t, "dedupe")'

LEMMA SafeStays ==
    ASSUME Base, World, Grows, NEW t \in Tasks, Same(t), KeepsSafe(t), NEW c \in Changes, Safe(c)
    PROVE  Safe(c)'
<1>1. CASE times[c] > 0 \/ c \in skipped
  BY <1>1 DEF Safe, Grows
<1>2. ASSUME NEW u \in Tasks, c \in batch[u], ~Ahead(u, "write"), ~Ahead(u, "dedupe")
      PROVE  Safe(c)'
  <2>1. CASE u = t
    BY <1>2, <2>1 DEF Safe, KeepsSafe
  <2>2. CASE u # t
    BY <1>2, <2>2 DEF Safe, Same, Ahead
  <2> QED
    BY <2>1, <2>2
<1> QED
  BY <1>1, <1>2 DEF Safe

\* What a task that wrote its position holds, it still holds or it is safe, or
\* has its object.
KeepsCovered(t) ==
    ~Ahead(t, "write") => \A c \in batch[t] :
        \/ c \in batch'[t] /\ ~Ahead(t, "write")'
        \/ Covered(c)'

LEMMA CoveredStays ==
    ASSUME Base, World, Grows, NEW t \in Tasks, Same(t), KeepsSafe(t), KeepsCovered(t),
           NEW c \in Changes, Covered(c)
    PROVE  Covered(c)'
<1>1. CASE Safe(c) \/ objectOf[c] \in elsewhere
  BY <1>1, SafeStays DEF Covered, Grows, World
<1>2. ASSUME Stores, NEW d \in Changes, objectOf[d] = objectOf[c], Safe(d)
      PROVE  Covered(c)'
  <2>1. Safe(d)' /\ Stores' /\ objectOf' = objectOf
    BY <1>2, SafeStays, Fixed
  <2> QED
    BY <1>2, <2>1 DEF Covered
<1>3. ASSUME NEW u \in Tasks, c \in batch[u], ~Ahead(u, "write")
      PROVE  Covered(c)'
  <2>1. CASE u = t
    BY <1>3, <2>1 DEF Covered, KeepsCovered
  <2>2. CASE u # t
    BY <1>3, <2>2 DEF Covered, Same, Ahead
  <2> QED
    BY <2>1, <2>2
<1> QED
  BY <1>1, <1>2, <1>3 DEF Covered

LEMMA LeastNat ==
    ASSUME NEW T \in SUBSET Nat, T # {}
    PROVE  \E n \in T : \A m \in T : n <= m
<1> DEFINE R == {ss \in Nat \X Nat : ss[1] < ss[2]}
<1>1. IsWellFoundedOn(R, Nat)
  BY NatLessThanWellFounded DEF OpToRel
<1>2. \E x \in T : \A y \in T : ~(<<y, x>> \in R)
  <2> HIDE DEF R
  <2> QED
    BY <1>1, WFMin, Zenon
<1>3. PICK x \in T : \A y \in T : ~(<<y, x>> \in R)
  BY <1>2
<1>4. ASSUME NEW y \in T PROVE x <= y
  <2>1. x \in Nat /\ y \in Nat
    OBVIOUS
  <2>2. y < x => <<y, x>> \in R
    BY <2>1
  <2> HIDE DEF R
  <2> QED
    BY <1>3, <2>1, <2>2
<1> QED
  BY <1>4

\* Every change of a batch has, among those about its object, a first one.
LEMMA FirstOfObject ==
    ASSUME NEW B \in SUBSET Changes, NEW c \in B
    PROVE  \E d \in B : /\ objectOf[d] = objectOf[c]
                        /\ \A e \in B : e < d => objectOf[e] # objectOf[d]
<1> DEFINE S == {d \in B : objectOf[d] = objectOf[c]}
<1>1. MaxChanges \in Nat
  BY IngestionAssumption
<1>2. \A e \in Changes : e \in Nat
  BY <1>1 DEF Changes
<1>3. S \in SUBSET Nat /\ c \in S
  BY <1>2
<1>4. PICK d \in S : \A e \in S : d <= e
  BY <1>3, LeastNat
<1> QED
  BY <1>2, <1>4

\* A change the look-up drops is covered: its object has a document, or another
\* change of it is kept.
LEMMA DroppedIsCovered ==
    ASSUME Base, StoredOK, NEW t \in Tasks, Dedupe(t), Polls, NEW c \in batch[t], c \notin Kept(t)
    PROVE  Covered(c)'
<1>1. /\ World /\ Same(t) /\ Quiet(t) /\ Stores
      /\ UNCHANGED <<elsewhere, times, skipped>>
      /\ ~Ahead(t, "write")' /\ ~Ahead(t, "dedupe")' /\ Ahead(t, "dedupe")
      /\ batch'[t] = Kept(t)
  BY DedupeMoves
<1>2. batch[t] \in SUBSET Changes /\ c \in Changes /\ Kept(t) \subseteq batch[t]
  BY Facts DEF Kept
<1>3. Stores' /\ objectOf' = objectOf
  BY <1>1, Fixed
<1>4. CASE objectOf[c] \in stored
  <2>1. CASE objectOf[c] \in elsewhere
    BY <1>1, <1>3, <2>1 DEF Covered
  <2>2. ASSUME NEW d \in Changes, objectOf[d] = objectOf[c], Safe(d) PROVE Covered(c)'
    <3>1. Grows /\ KeepsSafe(t)
      BY <1>1 DEF Grows, KeepsSafe
    <3>2. Safe(d)'
      BY <1>1, <2>2, <3>1, SafeStays
    <3> QED
      BY <1>3, <2>2, <3>2 DEF Covered
  <2> QED
    BY <1>1, <1>4, <2>1, <2>2 DEF StoredOK
<1>5. CASE objectOf[c] \notin stored
  <2>1. PICK d \in batch[t] : /\ objectOf[d] = objectOf[c]
                              /\ \A e \in batch[t] : e < d => objectOf[e] # objectOf[d]
    BY <1>2, FirstOfObject
  <2>2. d \in Kept(t) /\ d \in Changes
    BY <1>2, <1>5, <2>1 DEF Kept
  <2>3. Safe(d)'
    BY <1>1, <2>2 DEF Safe
  <2> QED
    BY <1>3, <2>1, <2>2, <2>3 DEF Covered
<1> QED
  BY <1>4, <1>5

-----------------------------------------------------------------------------
(* Behind the checkpoint: every step keeps it *)

\* What a task's step has to establish itself.
LEMMA PositionFrame ==
    ASSUME Base, Position, Polls, World, Grows, NEW t \in Tasks, Same(t),
           KeepsSafe(t), KeepsCovered(t),
           checkpoint' = checkpoint \/ CoveredTo(checkpoint)',
           seen'[t] \in {seen[t], checkpoint, None},
           \A o \in stored' : o \in stored \/ \E c \in Changes : objectOf[c] = o /\ Safe(c)',
           FetchedOK(t)'
    PROVE  Position'
<1>1. Polls' /\ (Stores' <=> Stores) /\ objectOf' = objectOf
  BY Fixed
<1>2. \A c \in Changes : Covered(c) => Covered(c)'
  BY CoveredStays
<1>3. \A c \in Changes : Safe(c) => Safe(c)'
  BY SafeStays
<1>4. /\ checkpoint # None => 1..checkpoint \subseteq Changes
      /\ \A u \in Tasks : seen[u] # None => 1..seen[u] \subseteq Changes
      /\ \A u \in Tasks : next[u] # None => 1..next[u] \subseteq Changes
  <2>1. \A n \in 0..newest : 1..n \subseteq Changes
    BY Facts DEF Changes
  <2> QED
    BY <2>1, Facts DEF Base, TypeOK
<1>5. \A n : CoveredTo(n) /\ (n # None => 1..n \subseteq Changes) =>
                (n # None => \A c \in 1..n : Covered(c)')
  BY <1>2 DEF CoveredTo
<1>6. CoveredTo(checkpoint)'
  BY <1>4, <1>5 DEF Position, CoveredTo
<1>7. ASSUME NEW u \in Tasks PROVE CoveredTo(seen[u])'
  <2>1. seen'[u] \in {seen[u], checkpoint, None}
    BY DEF Same
  <2> QED
    BY <1>4, <1>5, <2>1 DEF Position, CoveredTo
<1>8. ASSUME NEW u \in Tasks, u # t PROVE FetchedOK(u)'
  <2>1. /\ seen'[u] = seen[u] /\ next'[u] = next[u] /\ batch'[u] = batch[u] /\ plan'[u] = plan[u]
    BY <1>8 DEF Same
  <2>2. FetchedOK(u)
    BY DEF Position
  <2> QED
    BY <1>2, <1>4, <2>1, <2>2 DEF FetchedOK, Doing, Busy, Ahead
<1>9. StoredOK'
  <2> SUFFICES ASSUME Stores, NEW o \in stored'
               PROVE  o \in elsewhere' \/ \E c \in Changes : objectOf[c] = o /\ Safe(c)'
    BY <1>1 DEF StoredOK
  <2>1. CASE o \in stored
    BY <1>3, <2>1 DEF Position, StoredOK, Grows
  <2>2. CASE o \notin stored
    BY <2>2
  <2> QED
    BY <2>1, <2>2
<1> QED
  BY <1>1, <1>6, <1>7, <1>8, <1>9 DEF Position

LEMMA NotifyPosition == ASSUME Base, Position, NEW t \in Tasks, Notify(t) PROVE Position'
<1> USE NotifyMoves
<1>1. Grows /\ KeepsSafe(t) /\ KeepsCovered(t) /\ FetchedOK(t)'
  BY DEF Grows, KeepsSafe, KeepsCovered, FetchedOK
<1> QED
  BY <1>1, PositionFrame

LEMMA ReadPosition == ASSUME Base, Position, NEW t \in Tasks, Read(t) PROVE Position'
<1> USE ReadMoves
<1>1. Grows /\ KeepsSafe(t) /\ KeepsCovered(t)
  BY DEF Grows, KeepsSafe, KeepsCovered
<1>2. next'[t] = None
  BY DEF Base, PositionsOK, PositionOK
<1> QED
  BY <1>1, <1>2, PositionFrame DEF FetchedOK

LEMMA TakePosition ==
    ASSUME Base, Position, NEW t \in Tasks, Doing(t, "fetch"), NEW r, Take(t, r),
           r.items \in SUBSET (1..newest), r.next \in 0..newest \cup {None},
           skipped \subseteq skipped',
           r.next # None =>
             \/ Stores /\ r.items = {}
             \/ \A c \in 1..r.next : \/ seen[t] # None /\ c <= seen[t]
                                     \/ c \in r.items \/ c \in skipped'
    PROVE  Position'
<1> USE TakeMoves
<1>1. Grows /\ KeepsSafe(t) /\ KeepsCovered(t)
  BY DEF Grows, KeepsSafe, KeepsCovered
<1>2. FetchedOK(t)'
  BY DEF FetchedOK, Covered, Safe
<1> QED
  BY <1>1, <1>2, PositionFrame

LEMMA FetchPosition ==
    ASSUME Base, Position, NEW t \in Tasks, Fetch(t) \/ FetchError(t) PROVE Position'
<1> DEFINE r == Results(seen[t])
<1>1. Doing(t, "fetch")
  BY DEF Fetch, FetchError
<1>2. Polls /\ seen[t] \in 0..newest \cup {None}
  BY <1>1, Facts, WhatIsLeft DEF Base, Doing
<1>3. /\ r.items \in SUBSET (1..newest) /\ r.next \in 0..newest \cup {None}
      /\ r.next # None =>
           \/ Stores /\ r.items = {}
           \/ \A c \in 1..r.next : (seen[t] # None /\ c <= seen[t]) \/ c \in r.items
  BY <1>2, ResultsFacts DEF Base
<1>4. \A I, n : Result(I, n).items = I /\ Result(I, n).next = n
  BY DEF Result
<1> HIDE DEF r
<1>5. CASE Fetch(t)
  <2>1. Take(t, r) /\ skipped' = skipped
    BY <1>5 DEF Fetch, r
  <2> QED
    BY <1>1, <1>3, <2>1, TakePosition
<1>6. CASE FetchError(t)
  <2>1. CASE Take(t, Nothing) /\ UNCHANGED skipped
    BY <1>1, <1>4, <2>1, TakePosition DEF Nothing
  <2>2. ASSUME NEW n \in Changes, Take(t, Result({c \in r.items : c < n}, None)), UNCHANGED skipped
        PROVE  Position'
    <3>1. {c \in r.items : c < n} \in SUBSET (1..newest)
      BY <1>3
    <3> QED
      BY <1>1, <1>4, <2>2, <3>1, TakePosition
  <2>3. ASSUME NEW c \in r.items, Take(t, Result(r.items \ {c}, r.next)), skipped' = skipped \cup {c}
        PROVE  Position'
    <3> DEFINE q == Result(r.items \ {c}, r.next)
    <3>1. q.items = r.items \ {c} /\ q.next = r.next
      BY <1>4
    <3>2. q.items \in SUBSET (1..newest) /\ q.next \in 0..newest \cup {None}
      BY <1>3, <3>1
    <3>3. q.next # None =>
             \/ Stores /\ q.items = {}
             \/ \A d \in 1..q.next : \/ seen[t] # None /\ d <= seen[t]
                                     \/ d \in q.items \/ d \in skipped'
      BY <1>3, <2>3, <3>1
    <3> HIDE DEF q
    <3>4. Take(t, q)
      BY <2>3 DEF q
    <3> QED
      BY <1>1, <2>3, <3>2, <3>3, <3>4, TakePosition
  <2> QED
    BY <1>6, <2>1, <2>2, <2>3 DEF FetchError, r
<1> QED
  BY <1>5, <1>6

LEMMA WritePosition == ASSUME Base, Position, NEW t \in Tasks, Write(t) PROVE Position'
<1> USE WriteMoves
<1>1. Grows /\ KeepsSafe(t) /\ KeepsCovered(t)
  BY DEF Grows, KeepsSafe, KeepsCovered
<1>2. FetchedOK(t)'
  BY DEF FetchedOK
<1>3. checkpoint' = checkpoint \/ CoveredTo(checkpoint)'
  <2> SUFFICES ASSUME next[t] # None, checkpoint' = next[t], NEW c \in 1..next[t]
               PROVE  Covered(c)'
    BY DEF CoveredTo
  <2>1. next[t] \in 0..newest /\ c \in 1..newest /\ c \in Changes
    BY Facts
  <2>2. CASE Covered(c)
    BY <1>1, <2>1, <2>2, CoveredStays
  <2>3. CASE seen[t] # None /\ c <= seen[t]
    <3>1. seen[t] \in 0..newest /\ c \in 1..seen[t]
      BY <2>1, <2>3, Facts
    <3> QED
      BY <2>2, <2>3, <3>1 DEF Position, CoveredTo
  <2>4. CASE c \in batch[t]
    BY <2>4 DEF Covered
  <2>5. CASE /\ Ahead(t, "evaluate") /\ batch[t] = {} /\ ~(seen[t] # None /\ c <= seen[t])
    <3>1. c \in Gap(t)
      BY <2>1, <2>5, Facts DEF Gap, Later
    <3>2. seen[t] = None \/ c > seen[t]
      BY <2>1, <2>5, Facts
    <3>3. c \in skipped'
      BY <2>1, <3>1, <3>2
    <3> QED
      BY <3>3 DEF Covered, Safe
  <2> QED
    BY <2>2, <2>3, <2>4, <2>5 DEF Position, FetchedOK
<1> QED
  BY <1>1, <1>2, <1>3, PositionFrame

LEMMA DedupePosition == ASSUME Base, Position, Polls, NEW t \in Tasks, Dedupe(t) PROVE Position'
<1> USE DedupeMoves
<1>1. Grows /\ KeepsSafe(t)
  BY DEF Grows, KeepsSafe
<1>2. KeepsCovered(t)
  BY DroppedIsCovered DEF KeepsCovered, Position
<1>3. next'[t] = None
  BY DEF Base, PositionsOK, PositionOK, Quiet
<1> QED
  BY <1>1, <1>2, <1>3, PositionFrame DEF FetchedOK, Quiet

LEMMA InsertPosition == ASSUME Base, Position, Polls, NEW t \in Tasks, Insert(t) PROVE Position'
<1> USE InsertMoves
<1>1. Grows /\ KeepsSafe(t)
  BY DEF Grows, KeepsSafe
<1>2. KeepsCovered(t)
  BY DEF KeepsCovered
<1>3. next'[t] = None
  BY DEF Base, PositionsOK, PositionOK, Quiet
<1>4. \A c \in batch[t] : c \in Changes /\ Safe(c)'
  BY Facts DEF Safe
<1> QED
  BY <1>1, <1>2, <1>3, <1>4, PositionFrame DEF FetchedOK, Quiet

LEMMA CollectPosition == ASSUME Base, Position, Polls, NEW t \in Tasks, Collect(t) PROVE Position'
<1> USE CollectMoves
<1>1. Grows /\ KeepsSafe(t)
  BY DEF Grows, KeepsSafe
<1>2. KeepsCovered(t)
  BY DEF KeepsCovered, Covered, Safe
<1>3. next'[t] = None
  BY DEF Base, PositionsOK, PositionOK, Quiet
<1> QED
  BY <1>1, <1>2, <1>3, PositionFrame DEF FetchedOK, Quiet

LEMMA StopPosition ==
    ASSUME Base, Position, Polls, NEW t \in Tasks, Fails(t) \/ FetchRaises(t) PROVE Position'
<1> USE StopTaskMoves
<1>1. Grows /\ KeepsSafe(t)
  BY DEF Grows, KeepsSafe
<1>2. KeepsCovered(t)
  BY DEF KeepsCovered, Covered, Safe
<1> QED
  BY <1>1, <1>2, PositionFrame DEF FetchedOK

LEMMA EvaluatePosition ==
    ASSUME Base, Position, Polls, NEW t \in Tasks,
           NothingToEvaluate(t) \/ \E c \in Changes : Evaluate(t, c) \/ EvaluateError(t, c)
    PROVE  Position'
<1> USE EvaluateMoves
<1>1. times \in [Changes -> Nat] /\ batch[t] \in SUBSET Changes
  BY Facts DEF Base, TypeOK
<1>2. /\ \A c \in Changes : times[c] > 0 => times'[c] > 0
      /\ skipped \subseteq skipped'
      /\ \A c \in batch[t] : c \in batch'[t] \/ times'[c] > 0 \/ c \in skipped'
  <2>1. CASE batch[t] = {} /\ batch'[t] = {} /\ UNCHANGED <<times, skipped>>
    BY <2>1
  <2>2. ASSUME NEW c \in batch[t], c \in Changes, batch'[t] = batch[t] \ {c},
               times' = [times EXCEPT ![c] = @ + 1], skipped' = skipped
        PROVE  /\ \A d \in Changes : times[d] > 0 => times'[d] > 0
               /\ \A d \in batch[t] : d \in batch'[t] \/ times'[d] > 0
    <3>1. times'[c] = times[c] + 1 /\ times[c] \in Nat
      BY <1>1, <2>2
    <3>2. \A d \in Changes : d # c => times'[d] = times[d]
      BY <1>1, <2>2
    <3> QED
      BY <2>2, <3>1, <3>2
  <2>3. ASSUME NEW c \in batch[t], batch'[t] = batch[t] \ {c},
               times' = times, skipped' = skipped \cup {c}
        PROVE  /\ \A d \in Changes : times[d] > 0 => times'[d] > 0
               /\ skipped \subseteq skipped'
               /\ \A d \in batch[t] : d \in batch'[t] \/ d \in skipped'
    BY <2>3
  <2> QED
    BY <2>1, <2>2, <2>3
<1>3. Grows /\ KeepsSafe(t)
  BY <1>2 DEF Grows, KeepsSafe
<1>4. KeepsCovered(t)
  BY <1>2 DEF KeepsCovered, Covered, Safe
<1>5. FetchedOK(t)'
  <2>1. \A c \in Changes : Covered(c) => Covered(c)'
    BY <1>3, <1>4, CoveredStays
  <2>2. FetchedOK(t) /\ ~Doing(t, "write") /\ UNCHANGED <<next[t], seen[t]>>
    BY DEF Position, Doing, Quiet
  <2>3. next[t] # None => 1..next[t] \subseteq Changes
    BY Facts DEF Changes
  <2> QED
    BY <1>2, <2>1, <2>2, <2>3 DEF FetchedOK, Covered, Safe
<1> QED
  BY <1>3, <1>4, <1>5, PositionFrame DEF Quiet

\* The service and the other users.
LEMMA ServiceMoves ==
    ASSUME Change \/ Expire \/ (\E o \in Shared : StoredElsewhere(o)) \/ UNCHANGED vars
    PROVE  /\ World
           /\ UNCHANGED <<checkpoint, plan, seen, batch, took, next, times, deliveries,
                          skipped, again>>
           /\ stored \subseteq stored' /\ elsewhere \subseteq elsewhere'
           /\ \A o \in stored' : o \in stored \/ o \in elsewhere'
  BY DEF Change, Expire, StoredElsewhere, World, vars, serviceVars, taskVars, historyVars

LEMMA ServicePosition ==
    ASSUME Base, Position,
           Change \/ Expire \/ (\E o \in Shared : StoredElsewhere(o)) \/ UNCHANGED vars
    PROVE  Position'
<1> USE ServiceMoves
<1>1. (Polls' <=> Polls) /\ (Stores' <=> Stores) /\ objectOf' = objectOf
  BY Fixed
<1>2. \A c : Safe(c) => Safe(c)'
  BY DEF Safe, Ahead
<1>3. \A c : Covered(c) => Covered(c)'
  BY <1>1, <1>2 DEF Covered, Ahead
<1>4. \A n : CoveredTo(n) => (n # None => \A c \in 1..n : Covered(c)')
  BY <1>3 DEF CoveredTo
<1>5. CoveredTo(checkpoint) => CoveredTo(checkpoint)'
  BY <1>4 DEF CoveredTo
<1>6. \A t \in Tasks : CoveredTo(seen[t]) => CoveredTo(seen[t])'
  BY <1>4 DEF CoveredTo
<1>7. \A t \in Tasks : FetchedOK(t) => FetchedOK(t)'
  BY <1>3 DEF FetchedOK, Doing, Busy, Ahead
<1>8. StoredOK => StoredOK'
  BY <1>1, <1>2 DEF StoredOK
<1> QED
  BY <1>1, <1>5, <1>6, <1>7, <1>8 DEF Position

LEMMA PositionInit == Init => Position
  BY DEF Init, Position, CoveredTo, FetchedOK, StoredOK

\* A step of one task.
TaskAction(t) ==
    \/ Notify(t) \/ TaskStep(t) \/ FetchError(t) \/ Fails(t)
    \/ \E c \in Changes : Deliver(t, c) \/ EvaluateError(t, c)

LEMMA Actions ==
    ASSUME [Next]_vars
    PROVE  \/ Change \/ Expire \/ (\E o \in Shared : StoredElsewhere(o)) \/ UNCHANGED vars
           \/ \E t \in Tasks : TaskAction(t)
  BY DEF Next, TaskAction

LEMMA PositionStep == ASSUME Base, Position, [Next]_vars PROVE Position'
<1>1. CASE Change \/ Expire \/ (\E o \in Shared : StoredElsewhere(o)) \/ UNCHANGED vars
  BY <1>1, ServicePosition
<1>2. ASSUME NEW t \in Tasks, TaskAction(t), Polls PROVE Position'
  <2>1. CASE Notify(t)
    BY <2>1, NotifyPosition
  <2>2. CASE Read(t)
    BY <2>2, ReadPosition
  <2>3. CASE Fetch(t) \/ FetchError(t)
    BY <2>3, FetchPosition
  <2>4. CASE Write(t)
    BY <2>4, WritePosition
  <2>5. CASE Dedupe(t)
    BY <1>2, <2>5, DedupePosition
  <2>6. CASE Insert(t)
    BY <1>2, <2>6, InsertPosition
  <2>7. CASE Collect(t)
    BY <1>2, <2>7, CollectPosition
  <2>8. CASE NothingToEvaluate(t) \/ \E c \in Changes : Evaluate(t, c) \/ EvaluateError(t, c)
    BY <1>2, <2>8, EvaluatePosition
  <2>9. CASE Fails(t) \/ FetchRaises(t)
    BY <1>2, <2>9, StopPosition
  <2>10. ~(\E c \in Changes : Deliver(t, c))
    BY <1>2 DEF Deliver
  <2> QED
    BY <1>2, <2>1, <2>2, <2>3, <2>4, <2>5, <2>6, <2>7, <2>8, <2>9, <2>10
       DEF TaskAction, TaskStep
<1>3. ASSUME NEW t \in Tasks, TaskAction(t), ~Polls PROVE Position'
  <2>1. World /\ UNCHANGED checkpoint
    <3>1. CASE Notify(t)
      BY <1>3, <3>1 DEF Notify
    <3>2. CASE Read(t)
      BY <3>2, ReadMoves
    <3>3. CASE Fetch(t) \/ FetchError(t)
      BY <1>3, <3>3, WhatIsLeft DEF Fetch, FetchError, Doing, Base
    <3>4. CASE Write(t)
      BY <1>3, <3>4, WriteMoves
    <3>5. CASE Dedupe(t)
      BY <3>5, DedupeMoves
    <3>6. CASE Insert(t)
      BY <3>6, InsertMoves
    <3>7. CASE Collect(t)
      BY <3>7, CollectMoves
    <3>8. CASE NothingToEvaluate(t) \/ \E c \in Changes : Evaluate(t, c) \/ EvaluateError(t, c)
      BY <3>8, EvaluateMoves
    <3>9. CASE Fails(t) \/ FetchRaises(t)
      BY <3>9, StopTaskMoves
    <3>10. CASE \E c \in Changes : Deliver(t, c)
      BY <3>10, DeliverMoves
    <3> QED
      BY <1>3, <3>1, <3>2, <3>3, <3>4, <3>5, <3>6, <3>7, <3>8, <3>9, <3>10
         DEF TaskAction, TaskStep
  <2> QED
    BY <1>3, <2>1, Fixed DEF Position
<1> QED
  BY <1>1, <1>2, <1>3, Actions

\* However the tasks of several notifications overtake one another, move the
\* stored position back, find an object stored by another task or end early, a
\* change the position has passed is evaluated, given up at one of the named
\* places, or in the hands of a task.
THEOREM NothingIsLostBehindTheCheckpoint == Spec => []BehindTheCheckpoint
<1>1. Init => Base /\ Position
  BY BaseInit, PositionInit
<1>2. Base /\ Position /\ [Next]_vars => Base' /\ Position'
  BY BaseStep, PositionStep
<1>3. Base /\ Position => BehindTheCheckpoint
  <2> SUFFICES ASSUME Base, Position, checkpoint # None, NEW c \in 1..checkpoint
               PROVE  Settled(c) \/ InHand(c)
    BY DEF BehindTheCheckpoint
  <2>1. Covered(c)
    BY DEF Position, CoveredTo
  <2>2. \A d : Safe(d) => times[d] > 0 \/ d \in skipped \/ InHand(d)
    BY DEF Safe, InHand
  <2> QED
    BY <2>1, <2>2 DEF Covered, Settled, InHand
<1> QED
  BY <1>1, <1>2, <1>3, PTL DEF Spec

-----------------------------------------------------------------------------
(* Evaluated again: without documents *)

\* What a task's step leaves of the others, in the terms of FetchedOnce.
TookOK(t) ==
    /\ batch[t] \subseteq took[t]
    /\ next[t] # None => \A c \in took[t] : c <= next[t]
    /\ Busy(t) /\ ~Ahead(t, "write") =>
        \A c \in took[t] \ again : checkpoint # None /\ c <= checkpoint
OnceOK(c) ==
    /\ times[c] <= 1
    /\ times[c] = 1 => ~InHand(c) /\ Known(c)
    /\ \A t, u \in Tasks : c \in batch[t] /\ c \in batch[u] => t = u
FetchedOnce ==
    Polls /\ ~Stores => (\A t \in Tasks : TookOK(t)) /\ (\A c \in Changes \ again : OnceOK(c))

\* The checkpoint and the counts are left alone, and what was known still is.
LEMMA FetchedFrame ==
    ASSUME Base, FetchedOnce, Polls, ~Stores, World, NEW t \in Tasks, Same(t),
           UNCHANGED <<checkpoint, times>>, again \subseteq again',
           batch'[t] \subseteq batch[t], TookOK(t)',
           \A c \in took[t] \ again' :
              Busy(t) => (c \in took'[t] /\ Busy(t)') \/ (checkpoint # None /\ c <= checkpoint)
    PROVE  FetchedOnce'
<1>1. \A u \in Tasks : batch'[u] \subseteq batch[u]
  BY DEF Same
<1>2. ASSUME NEW u \in Tasks, u # t PROVE TookOK(u)'
  BY <1>2 DEF TookOK, FetchedOnce, Same, Busy, Ahead
<1>3. ASSUME NEW c \in Changes \ again' PROVE OnceOK(c)'
  <2>1. OnceOK(c)
    BY <1>3 DEF FetchedOnce
  <2>2. Known(c) => Known(c)'
    BY <1>3 DEF Known, Same, Busy
  <2> QED
    BY <1>1, <2>1, <2>2 DEF OnceOK, InHand
<1> QED
  BY <1>2, <1>3 DEF FetchedOnce

LEMMA NotifyFetched == ASSUME Base, FetchedOnce, ~Stores, NEW t \in Tasks, Notify(t) PROVE FetchedOnce'
<1> USE NotifyMoves
<1>1. TookOK(t)'
  BY DEF TookOK
<1> QED
  BY <1>1, FetchedFrame

LEMMA ReadFetched == ASSUME Base, FetchedOnce, ~Stores, NEW t \in Tasks, Read(t) PROVE FetchedOnce'
<1> USE ReadMoves
<1>1. next[t] = None
  BY DEF Base, PositionsOK, PositionOK
<1>2. TookOK(t)'
  BY <1>1 DEF TookOK
<1> QED
  BY <1>2, FetchedFrame

LEMMA StopFetched ==
    ASSUME Base, FetchedOnce, Polls, ~Stores, NEW t \in Tasks, Fails(t) \/ FetchRaises(t)
    PROVE  FetchedOnce'
<1> USE StopTaskMoves
<1>1. TookOK(t)'
  BY DEF TookOK
<1>2. \A c \in took[t] \ again' : checkpoint # None /\ c <= checkpoint
  BY DEF FetchedOnce, TookOK
<1> QED
  BY <1>1, <1>2, FetchedFrame

LEMMA TakeFetched ==
    ASSUME Base, FetchedOnce, ~Stores, NEW t \in Tasks, Doing(t, "fetch"), NEW r, Take(t, r),
           r.items \in SUBSET (1..newest), r.next \in 0..newest \cup {None},
           r.next # None => \A c \in r.items : c <= r.next
    PROVE  FetchedOnce'
<1> USE TakeMoves
<1>1. /\ again' = again \cup Overlap(t, r.items) /\ took'[t] = r.items /\ batch'[t] = r.items
      /\ World /\ Same(t) /\ UNCHANGED <<checkpoint, times>> /\ Polls
      /\ took[t] = {} /\ batch[t] = {} /\ Busy(t)' /\ Ahead(t, "write")'
  OBVIOUS
<1>2. TookOK(t)'
  BY DEF TookOK
<1>3. ASSUME NEW u \in Tasks, u # t PROVE TookOK(u)'
  BY <1>1, <1>3 DEF TookOK, FetchedOnce, Same, Busy, Ahead
<1>4. ASSUME NEW c \in Changes \ again' PROVE OnceOK(c)'
  <2>1. OnceOK(c)
    BY <1>1, <1>4 DEF FetchedOnce
  <2>2. Known(c) => Known(c)'
    BY <1>1 DEF Known, Same, Busy
  <2>3. c \in r.items => ~Known(c)
    BY <1>1, <1>4 DEF Known, Overlap
  <2>4. \A u \in Tasks : c \in batch[u] => c \in took[u] /\ Busy(u)
    BY <1>1 DEF FetchedOnce, TookOK, Base, PositionsOK, PositionOK
  <2>5. c \in r.items => ~InHand(c) /\ times[c] # 1
    BY <2>1, <2>3, <2>4 DEF InHand, Known, OnceOK
  <2>6. \A u \in Tasks \ {t} : batch'[u] = batch[u]
    BY <1>1 DEF Same
  <2> QED
    BY <1>1, <2>1, <2>2, <2>5, <2>6 DEF OnceOK, InHand
<1> QED
  BY <1>1, <1>2, <1>3, <1>4 DEF FetchedOnce

LEMMA FetchFetched ==
    ASSUME Base, FetchedOnce, ~Stores, NEW t \in Tasks, Fetch(t) \/ FetchError(t)
    PROVE  FetchedOnce'
<1> DEFINE r == Results(seen[t])
<1>1. Doing(t, "fetch")
  BY DEF Fetch, FetchError
<1>2. Polls /\ seen[t] \in 0..newest \cup {None}
  BY <1>1, Facts, WhatIsLeft DEF Base, Doing
<1>3. /\ r.items \in SUBSET (1..newest) /\ r.next \in 0..newest \cup {None}
      /\ r.next # None => \A c \in r.items : c <= r.next
  BY <1>2, ResultsFacts DEF Base
<1>4. \A I, n : Result(I, n).items = I /\ Result(I, n).next = n
  BY DEF Result
<1> HIDE DEF r
<1>5. CASE Fetch(t)
  BY <1>1, <1>3, <1>5, TakeFetched DEF Fetch, r
<1>6. CASE FetchError(t)
  <2>1. CASE Take(t, Nothing)
    BY <1>1, <1>4, <2>1, TakeFetched DEF Nothing
  <2>2. ASSUME NEW n \in Changes, Take(t, Result({c \in r.items : c < n}, None))
        PROVE  FetchedOnce'
    <3>1. {c \in r.items : c < n} \in SUBSET (1..newest)
      BY <1>3
    <3> QED
      BY <1>1, <1>4, <2>2, <3>1, TakeFetched
  <2>3. service # "gmail"
    BY Kinds DEF Base, PlansOK, Storing
  <2> QED
    BY <1>6, <2>1, <2>2, <2>3 DEF FetchError, r
<1> QED
  BY <1>5, <1>6

LEMMA WriteFetched == ASSUME Base, FetchedOnce, ~Stores, NEW t \in Tasks, Write(t) PROVE FetchedOnce'
<1> USE WriteMoves
<1>1. /\ World /\ Same(t) /\ UNCHANGED times /\ batch'[t] = batch[t] /\ took'[t] = took[t]
      /\ ~Ahead(t, "write")' /\ next'[t] = None /\ Polls /\ Busy(t)
  OBVIOUS
<1>2. /\ next \in [Tasks -> 0..newest \cup {None}] /\ took \in [Tasks -> SUBSET (1..newest)]
      /\ 1..newest \subseteq Changes /\ newest \in Nat /\ None \notin Nat
  BY Facts
<1>3. again \subseteq again' /\ again' \subseteq Changes
  BY <1>2, WriteBase DEF Base, TypeOK
<1>4. \A c \in Changes \ again' :
        (checkpoint # None /\ c <= checkpoint) => checkpoint' # None /\ c <= checkpoint'
  <2>1. CASE next[t] = None
    BY <2>1
  <2>2. CASE next[t] # None
    <3>1. next[t] \in Nat /\ \A c \in Changes : c \in Nat
      BY <1>2, <2>2, IngestionAssumption DEF Changes
    <3> QED
      BY <1>2, <2>2, <3>1
  <2> QED
    BY <2>1, <2>2
<1>5. \A c \in took[t] \ again' : checkpoint' # None /\ c <= checkpoint'
  <2>1. CASE next[t] = None
    BY <2>1
  <2>2. CASE next[t] # None
    BY <2>2 DEF FetchedOnce, TookOK
  <2> QED
    BY <2>1, <2>2
<1>6. TookOK(t)'
  BY <1>1, <1>5 DEF TookOK, FetchedOnce
<1>7. ASSUME NEW u \in Tasks, u # t PROVE TookOK(u)'
  <2>1. TookOK(u) /\ took[u] \subseteq Changes
    BY <1>1, <1>2 DEF FetchedOnce
  <2>2. /\ batch'[u] = batch[u] /\ took'[u] = took[u] /\ next'[u] = next[u]
        /\ Busy(u)' = Busy(u) /\ Ahead(u, "write")' = Ahead(u, "write")
    BY <1>1, <1>7 DEF Same, Busy, Ahead
  <2> QED
    BY <1>3, <1>4, <2>1, <2>2 DEF TookOK
<1>8. ASSUME NEW c \in Changes \ again' PROVE OnceOK(c)'
  <2>1. OnceOK(c)
    BY <1>1, <1>3, <1>8 DEF FetchedOnce
  <2>2. Known(c) => Known(c)'
    BY <1>1, <1>4, <1>5, <1>8 DEF Known, Same, Busy
  <2>3. \A u \in Tasks : batch'[u] = batch[u]
    BY <1>1 DEF Same
  <2> QED
    BY <1>1, <2>1, <2>2, <2>3 DEF OnceOK, InHand
<1> QED
  BY <1>6, <1>7, <1>8 DEF FetchedOnce

LEMMA EvaluateFetched ==
    ASSUME Base, FetchedOnce, Polls, ~Stores, NEW t \in Tasks,
           NothingToEvaluate(t) \/ \E c \in Changes : Evaluate(t, c) \/ EvaluateError(t, c)
    PROVE  FetchedOnce'
<1> USE EvaluateMoves
<1>1. /\ World /\ Same(t) /\ UNCHANGED <<checkpoint, again>>
      /\ took'[t] = took[t] /\ next'[t] = next[t] /\ Busy(t)
      /\ Ahead(t, "write") <=> Ahead(t, "write")'
      /\ Ahead(t, "write") => Busy(t)'
      /\ batch'[t] \subseteq batch[t]
  BY DEF Quiet
<1>2. TookOK(t) /\ \A c \in Changes \ again : OnceOK(c)
  BY DEF FetchedOnce
<1>3. TookOK(t)'
  BY <1>1, <1>2 DEF TookOK
<1>4. \A c \in took[t] \ again' : Busy(t)' \/ (checkpoint # None /\ c <= checkpoint)
  BY <1>1, <1>2 DEF TookOK
<1>5. \A c \in Changes \ again : Known(c) => Known(c)'
  BY <1>1, <1>4 DEF Known, Same, Busy
<1>6. CASE UNCHANGED times
  BY <1>1, <1>3, <1>4, <1>6, FetchedFrame
<1>7. ASSUME NEW c \in batch[t], c \in Changes, batch'[t] = batch[t] \ {c},
             times' = [times EXCEPT ![c] = @ + 1]
      PROVE  FetchedOnce'
  <2>1. times \in [Changes -> Nat]
    BY DEF Base, TypeOK
  <2>2. times'[c] = times[c] + 1 /\ \A d \in Changes \ {c} : times'[d] = times[d]
    BY <1>7, <2>1
  <2>3. ASSUME NEW d \in Changes \ again' PROVE OnceOK(d)'
    <3>1. OnceOK(d) /\ (Known(d) => Known(d)')
      BY <1>1, <1>2, <1>5
    <3>2. \A u \in Tasks : batch'[u] \subseteq batch[u]
      BY <1>1 DEF Same
    <3>3. CASE d = c
      <4>1. times'[c] = 1
        BY <1>7, <2>1, <2>2, <3>1, <3>3 DEF OnceOK, InHand
      <4>2. ~InHand(c)'
        BY <1>7, <3>1, <3>2, <3>3 DEF OnceOK, InHand
      <4>3. Known(c)'
        BY <1>1, <1>2, <1>4, <1>7, <3>3 DEF Known, TookOK
      <4> QED
        BY <3>1, <3>2, <3>3, <4>1, <4>2, <4>3 DEF OnceOK
    <3>4. CASE d # c
      BY <2>2, <3>1, <3>2, <3>4 DEF OnceOK, InHand
    <3> QED
      BY <3>3, <3>4
  <2>4. ASSUME NEW u \in Tasks, u # t PROVE TookOK(u)'
    BY <1>1, <2>4 DEF TookOK, FetchedOnce, Same, Busy, Ahead
  <2> QED
    BY <1>3, <2>3, <2>4 DEF FetchedOnce
<1> QED
  BY <1>6, <1>7

-----------------------------------------------------------------------------
(* Evaluated again: with documents *)

\* A task past the look-up has a change of the object in its batch.
Past(t, o) == ~Ahead(t, "dedupe") /\ \E c \in batch[t] : objectOf[c] = o

\* It has it alone, no change of it was evaluated, and it is stored before the
\* evaluation; an object whose change was evaluated is stored.
PastOK(t, o) == Past(t, o) =>
    /\ \A d, e \in batch[t] : objectOf[d] = o /\ objectOf[e] = o => d = e
    /\ \A d \in Changes : objectOf[d] = o => times[d] = 0
    /\ Doing(t, "evaluate") => o \in stored
CountOK(o) == \A d \in Changes : objectOf[d] = o =>
    /\ times[d] <= 1
    /\ times[d] = 1 => o \in stored
    /\ \A e \in Changes : objectOf[e] = o /\ times[d] = 1 /\ times[e] = 1 => d = e
ObjectOK(o) ==
    /\ CountOK(o)
    /\ \A t \in Tasks : PastOK(t, o) /\ \A u \in Tasks : Past(t, o) /\ Past(u, o) => t = u
StoredOnce == Stores => \A c \in Changes \ again : ObjectOK(objectOf[c])

\* Steps that count nothing and by which no task gets past the look-up.
LEMMA StoredFrame ==
    ASSUME Base, StoredOnce, World, NEW t \in Tasks, Same(t), UNCHANGED times,
           stored \subseteq stored', again \subseteq again',
           \/ Ahead(t, "dedupe")' \/ batch'[t] = {}
           \/ /\ ~Ahead(t, "dedupe") /\ batch'[t] \subseteq batch[t]
              /\ Doing(t, "evaluate")' => \A c \in batch'[t] : objectOf[c] \in stored'
    PROVE  StoredOnce'
<1> SUFFICES ASSUME Stores, NEW c \in Changes \ again' PROVE ObjectOK(objectOf[c])'
  BY Fixed DEF StoredOnce
<1>0. PICK o : o = objectOf[c]
  OBVIOUS
<1>1. objectOf' = objectOf /\ ObjectOK(o)
  BY <1>0, Fixed DEF StoredOnce
<1>2. \A u \in Tasks : Past(u, o)' => Past(u, o)
  BY <1>1 DEF Past, Same, Ahead
<1>3. CountOK(o)'
  BY <1>1 DEF ObjectOK, CountOK
<1>4. ASSUME NEW u \in Tasks, Past(u, o)' PROVE PastOK(u, o)'
  <2>1. Past(u, o) /\ PastOK(u, o)
    BY <1>1, <1>2, <1>4 DEF ObjectOK
  <2>2. CASE u = t
    BY <1>1, <1>4, <2>1, <2>2 DEF Past, PastOK
  <2>3. CASE u # t
    BY <1>1, <1>4, <2>1, <2>3 DEF PastOK, Same, Doing, Busy
  <2> QED
    BY <2>2, <2>3
<1>5. \A u \in Tasks : PastOK(u, o)'
  BY <1>4 DEF PastOK
<1> QED
  BY <1>0, <1>1, <1>2, <1>3, <1>5 DEF ObjectOK

LEMMA NotifyStored == ASSUME Base, StoredOnce, NEW t \in Tasks, Notify(t) PROVE StoredOnce'
  BY NotifyMoves, StoredFrame

LEMMA DeliverStored ==
    ASSUME Base, StoredOnce, Stores, NEW t \in Tasks, NEW c \in Changes, Deliver(t, c)
    PROVE  StoredOnce'
  BY DeliverMoves, StoredFrame

LEMMA ReadStored == ASSUME Base, StoredOnce, NEW t \in Tasks, Read(t) PROVE StoredOnce'
  BY ReadMoves, StoredFrame

LEMMA StopStored ==
    ASSUME Base, StoredOnce, NEW t \in Tasks, Fails(t) \/ FetchRaises(t) PROVE StoredOnce'
  BY StopTaskMoves, StoredFrame

LEMMA TakeStored ==
    ASSUME Base, StoredOnce, Stores, NEW t \in Tasks, Doing(t, "fetch"), NEW r, Take(t, r),
           r.items \in SUBSET (1..newest), r.next \in 0..newest \cup {None}
    PROVE  StoredOnce'
<1> USE TakeMoves
<1>1. /\ World /\ Same(t) /\ UNCHANGED <<stored, times>> /\ again \subseteq again'
      /\ Ahead(t, "dedupe")'
  OBVIOUS
<1> QED
  BY <1>1, StoredFrame

LEMMA FetchStored ==
    ASSUME Base, StoredOnce, Stores, NEW t \in Tasks, Fetch(t) \/ FetchError(t)
    PROVE  StoredOnce'
<1> DEFINE r == Results(seen[t])
<1>1. Doing(t, "fetch")
  BY DEF Fetch, FetchError
<1>2. Polls /\ seen[t] \in 0..newest \cup {None}
  BY <1>1, Facts, WhatIsLeft DEF Base, Doing
<1>3. r.items \in SUBSET (1..newest) /\ r.next \in 0..newest \cup {None}
  BY <1>2, ResultsFacts DEF Base
<1>4. \A I, n : Result(I, n).items = I /\ Result(I, n).next = n
  BY DEF Result
<1> HIDE DEF r
<1>5. CASE Fetch(t)
  BY <1>1, <1>3, <1>5, TakeStored DEF Fetch, r
<1>6. CASE FetchError(t)
  <2>1. CASE Take(t, Nothing)
    BY <1>1, <1>4, <2>1, TakeStored DEF Nothing
  <2>2. ASSUME NEW n \in Changes, Take(t, Result({c \in r.items : c < n}, None))
        PROVE  StoredOnce'
    <3>1. {c \in r.items : c < n} \in SUBSET (1..newest)
      BY <1>3
    <3> QED
      BY <1>1, <1>4, <2>2, <3>1, TakeStored
  <2>3. ASSUME NEW c \in r.items, Take(t, Result(r.items \ {c}, r.next))
        PROVE  StoredOnce'
    <3>1. r.items \ {c} \in SUBSET (1..newest)
      BY <1>3
    <3> QED
      BY <1>1, <1>3, <1>4, <2>3, <3>1, TakeStored
  <2> QED
    BY <1>6, <2>1, <2>2, <2>3 DEF FetchError, r
<1> QED
  BY <1>5, <1>6

LEMMA WriteStored == ASSUME Base, StoredOnce, Stores, NEW t \in Tasks, Write(t) PROVE StoredOnce'
<1> USE WriteMoves
<1>1. /\ World /\ Same(t) /\ UNCHANGED <<stored, times>> /\ again \subseteq again'
      /\ Ahead(t, "dedupe")' \/ batch'[t] = {}
  OBVIOUS
<1> QED
  BY <1>1, StoredFrame

LEMMA InsertStored == ASSUME Base, StoredOnce, NEW t \in Tasks, Insert(t) PROVE StoredOnce'
<1> USE InsertMoves
<1>1. /\ World /\ Same(t) /\ UNCHANGED <<times, again>> /\ stored \subseteq stored'
      /\ ~Ahead(t, "dedupe") /\ batch'[t] \subseteq batch[t]
      /\ Doing(t, "evaluate")' => \A c \in batch'[t] : objectOf[c] \in stored'
  OBVIOUS
<1> QED
  BY <1>1, StoredFrame

LEMMA CollectStored == ASSUME Base, StoredOnce, NEW t \in Tasks, Collect(t) PROVE StoredOnce'
<1> USE CollectMoves
<1>1. /\ World /\ Same(t) /\ UNCHANGED <<times, again, stored>>
      /\ ~Ahead(t, "dedupe") /\ batch'[t] \subseteq batch[t]
      /\ \A c \in batch'[t] : objectOf[c] \in stored'
  OBVIOUS
<1> QED
  BY <1>1, StoredFrame

\* With documents, a task past the look-up inserts, collects or evaluates.
LEMMA PastLookUp ==
    ASSUME Base, Stores, NEW t \in Tasks, Busy(t), ~Ahead(t, "dedupe")
    PROVE  Doing(t, "insert") \/ Doing(t, "collect") \/ Doing(t, "evaluate")
<1>1. Head(plan[t]) \in Steps /\ \A x : x = Head(plan[t]) => Ahead(t, x)
  BY WhatIsLeft DEF Base
<1>2. ~Ahead(t, "write")
  BY WhatIsLeft DEF Base, Ahead
<1>3. Head(plan[t]) # "read"
  BY <1>2, WhatIsLeft DEF Base
<1>4. Head(plan[t]) # "fetch"
  BY <1>2, WhatIsLeft DEF Base
<1> QED
  BY <1>1, <1>2, <1>3, <1>4 DEF Doing, Steps

LEMMA DedupeStored == ASSUME Base, StoredOnce, NEW t \in Tasks, Dedupe(t) PROVE StoredOnce'
<1> USE DedupeMoves
<1>1. /\ World /\ Same(t) /\ UNCHANGED <<times, stored>> /\ again \subseteq again'
      /\ batch'[t] = Kept(t) /\ ~Doing(t, "evaluate")' /\ Stores /\ objectOf' = objectOf
  BY Fixed
<1> SUFFICES ASSUME NEW c \in Changes \ again' PROVE ObjectOK(objectOf[c])'
  BY <1>1, Fixed DEF StoredOnce
<1>0. PICK o : o = objectOf[c]
  OBVIOUS
<1>2. ObjectOK(o)
  BY <1>0, <1>1 DEF StoredOnce
<1>3. CountOK(o)'
  BY <1>1, <1>2 DEF ObjectOK, CountOK
<1>4. \A u \in Tasks \ {t} : Past(u, o)' <=> Past(u, o)
  BY <1>1 DEF Past, Same, Ahead
<1>5. \A u \in Tasks \ {t} : PastOK(u, o)'
  BY <1>1, <1>2, <1>4 DEF ObjectOK, PastOK, Same, Doing, Busy
<1>6. ASSUME Past(t, o)'
      PROVE  /\ o \notin stored
             /\ \A d, e \in Kept(t) : objectOf[d] = o /\ objectOf[e] = o => d = e
             /\ \A u \in Tasks \ {t} : ~Past(u, o)
  <2>1. PICK d \in Kept(t) : objectOf[d] = o
    BY <1>1, <1>6 DEF Past
  <2>2. o \notin stored
    BY <2>1 DEF Kept
  <2>3. \A e \in Kept(t) : e \in Nat
    BY Facts, IngestionAssumption DEF Kept, Changes
  <2>4. \A f, e \in Kept(t) : objectOf[f] = o /\ objectOf[e] = o => f = e
    BY <2>3 DEF Kept
  <2>5. ASSUME NEW u \in Tasks \ {t}, Past(u, o) PROVE FALSE
    <3>1. PICK e \in batch[u] : objectOf[e] = o
      BY <2>5 DEF Past
    <3>2. Busy(u)
      BY <3>1 DEF Base, PositionsOK, PositionOK
    <3>3. ~Doing(u, "evaluate")
      BY <1>2, <2>2, <2>5 DEF ObjectOK, PastOK
    <3>4. Doing(u, "insert") \/ Doing(u, "collect")
      BY <1>1, <2>5, <3>2, <3>3, PastLookUp DEF Past
    <3>5. c \in again'
      BY <1>0, <1>1, <2>1, <3>1, <3>4
    <3> QED
      BY <3>5
  <2> QED
    BY <2>2, <2>4, <2>5
<1>7. PastOK(t, o)'
  <2>1. SUFFICES ASSUME Past(t, o)' PROVE PastOK(t, o)'
    BY DEF PastOK
  <2>2. \A d \in Changes : objectOf[d] = o => times[d] = 0
    <3>1. times \in [Changes -> Nat]
      BY DEF Base, TypeOK
    <3> QED
      BY <1>2, <1>6, <2>1, <3>1 DEF ObjectOK, CountOK
  <2> QED
    BY <1>1, <1>6, <2>1, <2>2 DEF PastOK
<1>8. \A u, v \in Tasks : Past(u, o)' /\ Past(v, o)' => u = v
  BY <1>2, <1>4, <1>6 DEF ObjectOK
<1> QED
  BY <1>0, <1>1, <1>3, <1>5, <1>7, <1>8 DEF ObjectOK

LEMMA EvaluateStored ==
    ASSUME Base, StoredOnce, Stores, NEW t \in Tasks,
           NothingToEvaluate(t) \/ \E c \in Changes : Evaluate(t, c) \/ EvaluateError(t, c)
    PROVE  StoredOnce'
<1> USE EvaluateMoves
<1>1. /\ World /\ Same(t) /\ UNCHANGED <<stored, again>> /\ batch'[t] \subseteq batch[t]
      /\ ~Ahead(t, "dedupe") /\ ~Ahead(t, "dedupe")' /\ Doing(t, "evaluate")
  OBVIOUS
<1>2. \A c \in batch[t] : c \notin again => objectOf[c] \in stored
  BY <1>1, Facts DEF StoredOnce, ObjectOK, PastOK, Past
<1>3. objectOf' = objectOf
  BY <1>1, Fixed
<1> SUFFICES ASSUME NEW c \in Changes \ again' PROVE ObjectOK(objectOf[c])'
  BY <1>1, Fixed DEF StoredOnce
<1>0. PICK o : o = objectOf[c]
  OBVIOUS
<1>4. ObjectOK(o)
  BY <1>0, <1>1 DEF StoredOnce
<1>5. \A u \in Tasks : Past(u, o)' => Past(u, o)
  BY <1>1, <1>3 DEF Past, Same, Ahead
<1> SUFFICES ObjectOK(o)'
  BY <1>0, <1>3
<1>6. CASE UNCHANGED times
  <2>1. CountOK(o)'
    BY <1>1, <1>3, <1>4, <1>6 DEF ObjectOK, CountOK
  <2>2. ASSUME NEW u \in Tasks, Past(u, o)' PROVE PastOK(u, o)'
    <3>1. Past(u, o) /\ PastOK(u, o)
      BY <1>4, <1>5, <2>2 DEF ObjectOK
    <3>2. CASE u = t
      BY <1>1, <1>3, <1>6, <3>1, <3>2 DEF PastOK
    <3>3. CASE u # t
      BY <1>1, <1>3, <1>6, <3>1, <3>3 DEF PastOK, Same, Doing, Busy
    <3> QED
      BY <3>2, <3>3
  <2> QED
    BY <1>3, <1>4, <1>5, <2>1, <2>2 DEF ObjectOK, PastOK
<1>7. ASSUME NEW b \in batch[t], b \in Changes, batch'[t] = batch[t] \ {b},
             times' = [times EXCEPT ![b] = @ + 1]
      PROVE  ObjectOK(o)'
  <2>1. times \in [Changes -> Nat]
    BY DEF Base, TypeOK
  <2>2. times'[b] = times[b] + 1 /\ \A d \in Changes \ {b} : times'[d] = times[d]
    BY <1>7, <2>1
  <2>3. CASE objectOf[b] # o
    <3>1. \A d \in Changes : objectOf[d] = o => times'[d] = times[d]
      BY <2>2, <2>3
    <3>2. CountOK(o)'
      BY <1>1, <1>3, <1>4, <3>1 DEF ObjectOK, CountOK
    <3>3. ASSUME NEW u \in Tasks, Past(u, o)' PROVE PastOK(u, o)'
      <4>1. Past(u, o) /\ PastOK(u, o)
        BY <1>4, <1>5, <3>3 DEF ObjectOK
      <4>2. CASE u = t
        BY <1>1, <1>3, <3>1, <4>1, <4>2 DEF PastOK
      <4>3. CASE u # t
        BY <1>1, <1>3, <3>1, <4>1, <4>3 DEF PastOK, Same, Doing, Busy
      <4> QED
        BY <4>2, <4>3
    <3> QED
      BY <1>3, <1>4, <1>5, <3>2, <3>3 DEF ObjectOK, PastOK
  <2>4. CASE objectOf[b] = o
    <3>1. Past(t, o) /\ PastOK(t, o)
      BY <1>1, <1>4, <1>7, <2>4 DEF Past, ObjectOK
    <3>2. /\ \A d \in Changes : objectOf[d] = o => times[d] = 0
          /\ o \in stored
          /\ \A d \in batch[t] : objectOf[d] = o => d = b
      BY <1>1, <1>7, <2>4, <3>1 DEF PastOK
    <3>3. ~Past(t, o)'
      BY <1>3, <1>7, <3>2 DEF Past
    <3>4. \A u \in Tasks : ~Past(u, o)'
      BY <1>4, <1>5, <3>1, <3>3 DEF ObjectOK
    <3>5. CountOK(o)'
      BY <1>1, <1>3, <2>2, <3>2 DEF CountOK
    <3> QED
      BY <3>4, <3>5 DEF ObjectOK, PastOK
  <2> QED
    BY <2>3, <2>4
<1> QED
  BY <1>6, <1>7

-----------------------------------------------------------------------------
(* Evaluated again: nothing stored and nothing fetched *)

\* An evaluation for each delivery, done or still to come.
Holders(c) == {t \in Tasks : c \in batch[t]}
CountedOK(c) == IsFiniteSet(Holders(c)) /\ times[c] + Cardinality(Holders(c)) <= deliveries[c]
DeliveredOnce == ~Polls /\ ~Stores => \A c \in Changes : CountedOK(c)

LEMMA HoldersOfOthers ==
    ASSUME Base, NEW t \in Tasks, Same(t), NEW c \in Changes
    PROVE  /\ c \in batch[t] /\ c \in batch'[t] => Holders(c)' = Holders(c)
           /\ c \notin batch[t] /\ c \notin batch'[t] => Holders(c)' = Holders(c)
           /\ c \in batch[t] /\ c \notin batch'[t] => Holders(c)' = Holders(c) \ {t}
           /\ c \notin batch[t] /\ c \in batch'[t] => Holders(c)' = Holders(c) \cup {t}
           /\ t \in Holders(c) <=> c \in batch[t]
  BY DEF Same, Holders

LEMMA DeliverCounted ==
    ASSUME Base, DeliveredOnce, ~Stores, NEW t \in Tasks, NEW b \in Changes, Deliver(t, b)
    PROVE  DeliveredOnce'
<1> USE DeliverMoves
<1>1. times \in [Changes -> Nat] /\ deliveries \in [Changes -> Nat]
  BY DEF Base, TypeOK
<1> SUFFICES ASSUME NEW c \in Changes PROVE CountedOK(c)'
  BY DEF DeliveredOnce
<1>2. CountedOK(c)
  BY DEF DeliveredOnce
<1>3. CASE c = b
  <2>1. Holders(c)' = Holders(c) \cup {t} /\ t \notin Holders(c)
    BY <1>3, HoldersOfOthers
  <2>2. /\ IsFiniteSet(Holders(c) \cup {t})
        /\ Cardinality(Holders(c) \cup {t}) = Cardinality(Holders(c)) + 1
    BY <1>2, <2>1, FS_AddElement DEF CountedOK
  <2>3. Cardinality(Holders(c)) \in Nat
    BY <1>2, FS_CardinalityType DEF CountedOK
  <2>4. deliveries'[c] = deliveries[c] + 1 /\ times'[c] = times[c]
    BY <1>1, <1>3
  <2> QED
    BY <1>1, <1>2, <2>1, <2>2, <2>3, <2>4 DEF CountedOK
<1>4. CASE c # b
  <2>1. Holders(c)' = Holders(c)
    BY <1>4, HoldersOfOthers
  <2>2. deliveries'[c] = deliveries[c] /\ times'[c] = times[c]
    BY <1>1, <1>4
  <2> QED
    BY <1>2, <2>1, <2>2 DEF CountedOK
<1> QED
  BY <1>3, <1>4

\* A task that gives changes up.
LEMMA DropCounted ==
    ASSUME Base, NEW t \in Tasks, Same(t), batch'[t] \subseteq batch[t], NEW c \in Changes,
           CountedOK(c), UNCHANGED <<times, deliveries>>
    PROVE  CountedOK(c)'
<1>1. times[c] \in Nat /\ deliveries[c] \in Nat
  BY DEF Base, TypeOK
<1>2. Holders(c)' = Holders(c) \/ (Holders(c)' = Holders(c) \ {t} /\ t \in Holders(c))
  BY HoldersOfOthers
<1>3. CASE Holders(c)' = Holders(c)
  BY <1>3 DEF CountedOK
<1>4. CASE Holders(c)' = Holders(c) \ {t} /\ t \in Holders(c)
  <2>1. /\ IsFiniteSet(Holders(c) \ {t})
        /\ Cardinality(Holders(c) \ {t}) = Cardinality(Holders(c)) - 1
    BY <1>4, FS_RemoveElement DEF CountedOK
  <2>2. Cardinality(Holders(c)) \in Nat
    BY FS_CardinalityType DEF CountedOK
  <2> QED
    BY <1>1, <1>4, <2>1, <2>2 DEF CountedOK
<1> QED
  BY <1>2, <1>3, <1>4

LEMMA StopCounted ==
    ASSUME Base, DeliveredOnce, NEW t \in Tasks, Fails(t) \/ FetchRaises(t) PROVE DeliveredOnce'
<1> USE StopTaskMoves
<1>1. World /\ Same(t) /\ batch'[t] \subseteq batch[t] /\ UNCHANGED <<times, deliveries>>
  OBVIOUS
<1> QED
  BY <1>1, DropCounted, Fixed DEF DeliveredOnce

LEMMA EvaluateCounted ==
    ASSUME Base, DeliveredOnce, ~Polls, ~Stores, NEW t \in Tasks,
           NothingToEvaluate(t) \/ \E c \in Changes : Evaluate(t, c) \/ EvaluateError(t, c)
    PROVE  DeliveredOnce'
<1> USE EvaluateMoves
<1>1. World /\ Same(t) /\ batch'[t] \subseteq batch[t] /\ UNCHANGED deliveries
  OBVIOUS
<1>2. times \in [Changes -> Nat] /\ deliveries \in [Changes -> Nat]
  BY DEF Base, TypeOK
<1> SUFFICES ASSUME NEW c \in Changes PROVE CountedOK(c)'
  BY DEF DeliveredOnce
<1>3. CountedOK(c)
  BY DEF DeliveredOnce
<1>4. CASE UNCHANGED times
  BY <1>1, <1>3, <1>4, DropCounted
<1>5. ASSUME NEW b \in batch[t], b \in Changes, batch'[t] = batch[t] \ {b},
             times' = [times EXCEPT ![b] = @ + 1]
      PROVE  CountedOK(c)'
  <2>1. CASE c = b
    <3>1. Holders(c)' = Holders(c) \ {t} /\ t \in Holders(c)
      BY <1>1, <1>5, <2>1, HoldersOfOthers
    <3>2. /\ IsFiniteSet(Holders(c) \ {t})
          /\ Cardinality(Holders(c) \ {t}) = Cardinality(Holders(c)) - 1
      BY <1>3, <3>1, FS_RemoveElement DEF CountedOK
    <3>3. Cardinality(Holders(c)) \in Nat
      BY <1>3, FS_CardinalityType DEF CountedOK
    <3>4. times'[c] = times[c] + 1 /\ deliveries'[c] = deliveries[c]
      BY <1>1, <1>2, <1>5, <2>1
    <3> QED
      BY <1>2, <1>3, <3>1, <3>2, <3>3, <3>4 DEF CountedOK
  <2>2. CASE c # b
    <3>1. Holders(c)' = Holders(c)
      BY <1>1, <1>5, <2>2, HoldersOfOthers
    <3>2. times'[c] = times[c] /\ deliveries'[c] = deliveries[c]
      BY <1>1, <1>2, <1>5, <2>2
    <3> QED
      BY <1>3, <3>1, <3>2 DEF CountedOK
  <2> QED
    BY <2>1, <2>2
<1> QED
  BY <1>4, <1>5

-----------------------------------------------------------------------------
(* Evaluated again with a reason *)

Once == FetchedOnce /\ StoredOnce /\ DeliveredOnce

LEMMA OnceInit == Init => Once
<1> SUFFICES ASSUME Init PROVE Once
  OBVIOUS
<1>1. Range(<<>>) = {}
  BY RangeOfTuples
<1>2. FetchedOnce
  BY DEF Init, FetchedOnce, TookOK, OnceOK, Busy
<1>3. StoredOnce
  BY DEF Init, StoredOnce, ObjectOK, CountOK, PastOK, Past
<1>4. DeliveredOnce
  <2>1. \A c \in Changes : Holders(c) = {} /\ times[c] = 0 /\ deliveries[c] = 0
    BY DEF Init, Holders
  <2> QED
    BY <2>1, FS_EmptySet DEF DeliveredOnce, CountedOK
<1> QED
  BY <1>2, <1>3, <1>4 DEF Once

LEMMA ServiceOnce ==
    ASSUME Base, Once, Change \/ Expire \/ (\E o \in Shared : StoredElsewhere(o)) \/ UNCHANGED vars
    PROVE  Once'
<1> USE ServiceMoves
<1>1. (Polls' <=> Polls) /\ (Stores' <=> Stores) /\ objectOf' = objectOf
  BY Fixed
<1>2. FetchedOnce'
  BY <1>1 DEF Once, FetchedOnce, TookOK, OnceOK, InHand, Known, Busy, Ahead
<1>3. \A o : ObjectOK(o) => ObjectOK(o)'
  BY <1>1 DEF ObjectOK, CountOK, PastOK, Past, Doing, Busy, Ahead
<1>4. StoredOnce'
  BY <1>1, <1>3 DEF Once, StoredOnce
<1>5. DeliveredOnce'
  BY <1>1 DEF Once, DeliveredOnce, CountedOK, Holders
<1> QED
  BY <1>2, <1>4, <1>5 DEF Once

LEMMA OnceStep == ASSUME Base, Once, [Next]_vars PROVE Once'
<1>1. CASE Change \/ Expire \/ (\E o \in Shared : StoredElsewhere(o)) \/ UNCHANGED vars
  BY <1>1, ServiceOnce
<1>2. ASSUME NEW t \in Tasks, TaskAction(t) PROVE Once'
  <2>0. World
    <3>1. ASSUME Fetch(t) \/ FetchError(t) PROVE World
      BY <3>1 DEF Fetch, FetchError, Take, World, serviceVars
    <3> QED
      BY <1>2, <3>1, NotifyMoves, ReadMoves, WriteMoves, DedupeMoves, InsertMoves, CollectMoves,
         EvaluateMoves, StopTaskMoves, DeliverMoves DEF TaskAction, TaskStep
  <2>1. (Polls' <=> Polls) /\ (Stores' <=> Stores)
    BY <2>0, Fixed
  <2>2. CASE Stores
    <3>1. StoredOnce'
      BY <1>2, <2>2, NotifyStored, ReadStored, FetchStored, WriteStored, DedupeStored,
         InsertStored, CollectStored, EvaluateStored, StopStored, DeliverStored
         DEF Once, TaskAction, TaskStep
    <3> QED
      BY <2>1, <2>2, <3>1 DEF Once, FetchedOnce, DeliveredOnce
  <2>3. CASE ~Stores /\ Polls
    <3>1. ~(Dedupe(t) \/ Insert(t) \/ Collect(t))
      BY <2>3, DedupeMoves, InsertMoves, CollectMoves
    <3>2. \A c \in Changes : ~Deliver(t, c)
      BY <2>3 DEF Deliver
    <3>3. FetchedOnce'
      BY <1>2, <2>3, <3>1, <3>2, NotifyFetched, ReadFetched, FetchFetched, WriteFetched,
         EvaluateFetched, StopFetched DEF Once, TaskAction, TaskStep
    <3> QED
      BY <2>1, <2>3, <3>3 DEF Once, StoredOnce, DeliveredOnce
  <2>4. CASE ~Stores /\ ~Polls
    <3>1. ~(Dedupe(t) \/ Insert(t) \/ Collect(t))
      BY <2>4, DedupeMoves, InsertMoves, CollectMoves
    <3>2. ~(Notify(t) \/ Read(t) \/ Write(t))
      BY <2>4, NotifyMoves, ReadMoves, WriteMoves
    <3>3. ~(Fetch(t) \/ FetchError(t))
      BY <2>4, WhatIsLeft DEF Fetch, FetchError, Doing, Base
    <3>4. DeliveredOnce'
      BY <1>2, <2>4, <3>1, <3>2, <3>3, DeliverCounted, EvaluateCounted, StopCounted
         DEF Once, TaskAction, TaskStep
    <3> QED
      BY <2>1, <2>4, <3>4 DEF Once, StoredOnce, FetchedOnce
  <2> QED
    BY <2>2, <2>3, <2>4
<1> QED
  BY <1>1, <1>2, Actions

\* An object that is stored is evaluated once, however often it is notified,
\* fetched or changed, unless two tasks were storing it at the same time;
\* without documents a change is evaluated again only for one of the reasons the
\* steps name, or as often as it was delivered.
THEOREM EvaluatedOnce == Spec => []EvaluatedAgainWithReason
<1>1. Init => Base /\ Once
  BY BaseInit, OnceInit
<1>2. Base /\ Once /\ [Next]_vars => Base' /\ Once'
  BY BaseStep, OnceStep
<1>3. Base /\ Once => EvaluatedAgainWithReason
  <2> SUFFICES ASSUME Base, Once, NEW c \in Changes, NEW d \in Changes
               PROVE  CASE Stores -> objectOf[c] = objectOf[d] /\ c \notin again =>
                                /\ times[c] <= 1
                                /\ c # d => times[c] = 0 \/ times[d] = 0
                        [] Polls /\ ~Stores -> times[c] <= 1 \/ c \in again
                        [] OTHER -> times[c] <= deliveries[c]
    BY DEF EvaluatedAgainWithReason
  <2>1. times \in [Changes -> Nat] /\ deliveries \in [Changes -> Nat]
    BY DEF Base, TypeOK
  <2>2. CASE Stores
    BY <2>1, <2>2 DEF Once, StoredOnce, ObjectOK, CountOK
  <2>3. CASE Polls /\ ~Stores
    BY <2>3 DEF Once, FetchedOnce, OnceOK
  <2>4. CASE ~Polls /\ ~Stores
    <3>1. IsFiniteSet(Holders(c)) /\ times[c] + Cardinality(Holders(c)) <= deliveries[c]
      BY <2>4 DEF Once, DeliveredOnce, CountedOK
    <3>2. Cardinality(Holders(c)) \in Nat
      BY <3>1, FS_CardinalityType
    <3> QED
      BY <2>1, <2>4, <3>1, <3>2
  <2> QED
    BY <2>2, <2>3, <2>4
<1> QED
  BY <1>1, <1>2, <1>3, PTL DEF Spec
=============================================================================
