----------------------------- MODULE ToolCalls -----------------------------
(***************************************************************************)
(* The calls of the tools of connected accounts that a model asks for in   *)
(* one turn, and asks for again when they report an error.                 *)
(*                                                                         *)
(* The graph's ToolNode starts the calls of a turn in their order and      *)
(* gathers them; a call lets another one run where it awaits something.    *)
(* The clients of Google and Dropbox make their requests in the event loop *)
(* without awaiting, so such a call keeps the others out until it ends,    *)
(* stores a file or waits for threads that read.  Every tool catches what  *)
(* is raised under it and reports an error.  A request may fail without an *)
(* effect, or take effect and lose its answer.                             *)
(*                                                                         *)
(* One label stands for those the calls of Gmail name.                     *)
(***************************************************************************)
EXTENDS ToolCatalogue, Naturals, SequencesExt

CONSTANTS
    Turns,      \* the tools a model may ask for together, in their order
    MaxTries,   \* times it asks for a call
    MaxItems    \* items of a call that is made for each of several

ASSUME ToolsAssumption ==
    Turns \subseteq Seq(DOMAIN ToolPlans) /\ MaxTries \in Nat \ {0} /\ MaxItems \in Nat

Options == {"may", "each"}

VARIABLES
    call,       \* the calls of the turn
    connected,  \* accounts the user has connected
    label,      \* the label exists
    collided    \* calls that were refused a label, since it exists

toolVars == <<call, connected, label, collided>>

\* made counts what the service did, step by step; lost are the steps of which
\* the call was not told.  The last four speak of one try: nothing was read, a
\* request failed and the result does not show it, the result shows a refusal.
NewCall(tool, named) ==
    [tool |-> tool, named |-> named, plan |-> ToolPlans[tool], at |-> 1, status |-> "asked",
     tries |-> 1, made |-> <<>>, lost |-> {},
     found |-> FALSE, nothing |-> FALSE, hidden |-> FALSE, told |-> FALSE]

ToolsInit == call = <<>> /\ connected = 1 /\ label = FALSE /\ collided = {}

-----------------------------------------------------------------------------
(* A turn asks for tools, with arguments.                                  *)

AskTools(turn) ==
    /\ call = <<>>
    /\ \E named \in [DOMAIN turn -> BOOLEAN] :
            call' = [c \in DOMAIN turn |-> NewCall(turn[c], named[c])]
    /\ connected' \in {1, 2} /\ label' \in BOOLEAN
    /\ UNCHANGED collided

Choice(c) == SelectInSeq(call[c].plan, LAMBDA step : step[1] \in Options)

\* The steps of s, n times over.
Copies(s, n) == [i \in 1 .. n * Len(s) |-> s[1 + ((i - 1) % Len(s))]]

\* The arguments decide about steps that may be left out or repeated.
Choose(c, n) ==
    /\ Choice(c) > 0
    /\ LET plan == call[c].plan
           k == Choice(c)
       IN  /\ plan[k][1] = "may" => n <= 1
           /\ plan[k][1] = "each" => n > 0
           /\ call' = [call EXCEPT ![c].plan =
                    SubSeq(plan, 1, k - 1) \o Copies(plan[k][2], n) \o SubSeq(plan, k + 1, Len(plan))]
    /\ UNCHANGED <<connected, label, collided>>

\* The calls, with other values of some fields of c.
Changed(c, changes) ==
    [call EXCEPT ![c] =
        [f \in DOMAIN call[c] |-> IF f \in DOMAIN changes THEN changes[f] ELSE call[c][f]]]

Ended(c) == call[c].status \in {"success", "error"}
AtEnd(c) == call[c].at > Len(call[c].plan)
Kind(c) == call[c].plan[call[c].at][1]

\* Mutated Holds: the clients await the request that creates a label.
HoldsNotToMake(c) ==
    /\ call[c].status = "running" /\ call[c].tool \in DOMAIN BlockingTools
    /\ AtEnd(c) \/ Kind(c) \notin {"store", "gather", "make"}

\* A call that keeps the thread.
Holds(c) ==
    /\ call[c].status = "running" /\ call[c].tool \in DOMAIN BlockingTools
    /\ AtEnd(c) \/ Kind(c) \notin {"store", "gather"}

Free(c) == \A d \in DOMAIN call \ {c} : ~Holds(d)

StartCall(c) ==
    /\ call[c].status = "asked" /\ Free(c)
    /\ \A d \in DOMAIN call : Choice(d) = 0 /\ (d < c => call[d].status # "asked")
    /\ call' = Changed(c,
            [status |-> "running", at |-> 1,
             made |-> IF call[c].tries = 1 THEN [i \in DOMAIN call[c].plan |-> 0]
                      ELSE call[c].made,
             found |-> FALSE, nothing |-> FALSE, hidden |-> FALSE, told |-> FALSE])
    /\ UNCHANGED <<connected, label, collided>>

\* The model asks again for some of the calls that failed.
Repeat(again) ==
    /\ again # {}
    /\ \A c \in DOMAIN call : Ended(c)
    /\ \A c \in again : call[c].status = "error" /\ call[c].tries < MaxTries
    /\ \E named \in [again -> BOOLEAN] :
            call' = [c \in DOMAIN call |->
                IF c \notin again THEN call[c]
                ELSE [call[c] EXCEPT !.status = "asked", !.tries = @ + 1,
                                      !.named = named[c]]]
    /\ UNCHANGED <<connected, label, collided>>

-----------------------------------------------------------------------------
(* One step of a call.                                                     *)

Goes(c, changes) == call' = [Changed(c, changes) EXCEPT ![c].at = @ + 1]
GoesOn(c) == Goes(c, <<>>)
Ends(c, changes) == call' = Changed(c, changes)
Raises(c) == Ends(c, [status |-> "error"])

\* An account whose permissions do not suffice is refused, too.
PickAccount(c) ==
    /\ Kind(c) \in {"pick", "default"}
    /\ \/ (connected = 1 \/ (Kind(c) = "pick" /\ call[c].named)) /\ GoesOn(c)
       \/ Raises(c)
    /\ UNCHANGED <<label, collided>>

ReadService(c) ==
    /\ Kind(c) = "read"
    /\ Raises(c) \/ \E empty \in BOOLEAN : Goes(c, [nothing |-> empty])
    /\ UNCHANGED <<label, collided>>

\* The clients catch the errors of the services' own kind, not all that may be raised.
LookUp(c) ==
    /\ Kind(c) = "look"
    /\ \/ Raises(c)
       \/ \E empty \in BOOLEAN : Goes(c, [nothing |-> empty])
       \/ Goes(c, [nothing |-> TRUE, hidden |-> TRUE])
    /\ UNCHANGED <<label, collided>>

SkipItems(c) ==
    /\ Kind(c) \in {"skip", "gather"}
    /\ \/ Raises(c) \/ GoesOn(c)
       \/ /\ ~call[c].nothing
          /\ \E all \in BOOLEAN : Goes(c, [nothing |-> all, hidden |-> TRUE])
    /\ UNCHANGED <<label, collided>>

Changes == {"add", "set", "once", "count", "slip", "store"}

Applied(c) ==
    [call[c].made EXCEPT ![call[c].at] = IF Kind(c) \in {"add", "store"} THEN @ + 1 ELSE 1]

LostToo(c) == call[c].lost \union {call[c].at}

ChangeService(c) ==
    /\ Kind(c) \in Changes
    /\ LET accepted == ~(Kind(c) = "once" /\ call[c].made[call[c].at] > 0)
       IN  \/ accepted /\ Goes(c, [made |-> Applied(c)])
           \/ /\ accepted /\ Kind(c) # "count"
              /\ Ends(c, [status |-> "error", made |-> Applied(c), lost |-> LostToo(c)])
           \/ /\ accepted /\ Kind(c) = "count"
              /\ Goes(c, [told |-> TRUE, made |-> Applied(c), lost |-> LostToo(c)])
           \/ Kind(c) # "count" /\ Raises(c)
           \/ Kind(c) = "count" /\ Goes(c, [told |-> TRUE])
           \/ Kind(c) = "slip" /\ Goes(c, [hidden |-> TRUE])
    /\ UNCHANGED <<label, collided>>

FindLabel(c) ==
    /\ Kind(c) = "find"
    /\ Raises(c) \/ Goes(c, [found |-> label])
    /\ UNCHANGED <<label, collided>>

MakeLabel(c) ==
    /\ Kind(c) = "make"
    /\ \/ call[c].found /\ GoesOn(c) /\ UNCHANGED <<label, collided>>
       \/ /\ ~call[c].found /\ label
          /\ collided' = collided \union {c} /\ Raises(c) /\ UNCHANGED label
       \/ /\ ~call[c].found /\ ~label
          /\ \E made \in BOOLEAN, answered \in BOOLEAN :
                /\ label' = made
                /\ answered => made
                /\ IF answered THEN Goes(c, [found |-> TRUE]) ELSE Raises(c)
          /\ UNCHANGED collided

\* What was looked for is missing: the call returns, or raises.
Missing(c) ==
    /\ Kind(c) \in {"known", "any", "lacks"}
    /\ CASE Kind(c) = "lacks" -> Raises(c)
         [] Kind(c) = "known" /\ call[c].found -> GoesOn(c)
         [] Kind(c) = "any" /\ ~call[c].nothing -> GoesOn(c)
         [] OTHER -> Ends(c, [status |-> "success", told |-> TRUE])
    /\ UNCHANGED <<label, collided>>

ReturnResult(c) ==
    /\ AtEnd(c)
    /\ Ends(c, [status |-> "success"])
    /\ UNCHANGED <<label, collided>>

Step(c) ==
    /\ call[c].status = "running" /\ Free(c)
    /\ UNCHANGED connected
    /\ \/ ReturnResult(c)
       \/ ~AtEnd(c) /\ \/ PickAccount(c) \/ ReadService(c) \/ LookUp(c) \/ SkipItems(c)
                       \/ ChangeService(c) \/ FindLabel(c) \/ MakeLabel(c) \/ Missing(c)

ToolsNext ==
    \/ \E turn \in Turns : AskTools(turn)
    \/ \E c \in DOMAIN call : StartCall(c) \/ Step(c) \/ \E n \in 0 .. MaxItems : Choose(c, n)
    \/ \E again \in SUBSET DOMAIN call : Repeat(again)

ToolsSpec == ToolsInit /\ [][ToolsNext]_toolVars

-----------------------------------------------------------------------------
(* Properties.                                                             *)

\* These tools report a success although a request of theirs failed: what was to be
\* found is empty then or lacks items, which is what the emails of a sender are
\* chosen by, folders are named by and an event has its time zone from; or a change
\* was throttled to the end.
Silent == {
    "search_google_email", "get_google_emails_from_sender", "find_google_contact_email",
    "get_frequent_google_senders", "move_google_emails_by_sender",
    "categorize_google_emails_by_sender", "search_google_sheet", "create_calendar_event",
    "list_dropbox_files", "search_dropbox_files",
    "fetch_outlook_calendar_events", "get_outlook_emails_from_sender",
    "find_outlook_contact_email", "get_frequent_outlook_senders", "search_outlook_emails",
    "get_outlook_email_content", "list_outlook_folders", "create_outlook_rule",
    "mark_outlook_email_read", "categorize_outlook_email", "move_outlook_email",
    "move_outlook_emails_by_sender", "categorize_outlook_emails_by_sender"}

\* These have made a change before a request that may fail.
Several == {
    "send_google_email", "retrieve_google_email_attachment", "create_trello_checklist"}

\* A plan with all that its optional and repeated steps are made of.
Inside(plans) ==
    UNION {{plan[i][2] : i \in {j \in DOMAIN plan : plan[j][1] \in Options}} : plan \in plans}
PlansOf(tool) ==
    LET plan == {ToolPlans[tool]}
    IN  plan \union Inside(plan) \union Inside(Inside(plan))

Does(plan, kinds) == {i \in DOMAIN plan : plan[i][1] \in kinds}

\* A label is created after it was looked for, without a step between that awaits
\* or that the arguments may leave out.
LooksBeforeItMakes(plan) ==
    \A j \in Does(plan, {"make"}) : \E i \in Does(plan, {"find"}) :
        i < j /\ (i + 1 .. j) \cap Does(plan, Options \union {"store", "gather"}) = {}

\* What is made again by each request is the last that may raise.
NothingRaisesAfter(plan) ==
    \A i \in Does(plan, {"add", "store"}) :
        (i + 1 .. Len(plan)) \subseteq Does(plan, {"count", "known", "any"})

\* What the catalogue says of every tool.  These are facts about ToolPlans and
\* restrict nothing: TLC evaluates them for each tool.
ASSUME PlansAssumption ==
    \A tool \in DOMAIN ToolPlans :
        /\ Inside(PlansOf(tool)) \subseteq PlansOf(tool)
        /\ \A plan \in PlansOf(tool) :
            /\ plan \in Seq(ToSet(plan))
            /\ tool \notin Silent => Does(plan, {"look", "skip", "gather", "slip"}) = {}
            /\ Does(plan, {"make"}) # {} => tool \in DOMAIN BlockingTools
            /\ LooksBeforeItMakes(plan)
        /\ tool \notin Several =>
            /\ NothingRaisesAfter(ToolPlans[tool])
            /\ \A plan \in Inside(PlansOf(tool)) : Does(plan, {"add", "store"}) = {}

ChangesMade(c) ==
    \A i \in DOMAIN call[c].plan :
        /\ call[c].plan[i][1] \in Changes => call[c].made[i] > 0
        /\ call[c].plan[i][1] = "make" => label

\* A success means that every change was made and no request failed, or says what
\* was refused or not found, except for the tools that are known to hide it.
SuccessIsComplete ==
    \A c \in DOMAIN call : call[c].status = "success" =>
        call[c].tool \in Silent \/ (~call[c].hidden /\ (call[c].told \/ ChangesMade(c)))

\* To ask again for a call that reported an error makes a change a second time only
\* if the answer to it was lost, except for the tools of several changes.
RepeatsAreSafe ==
    \A c \in DOMAIN call : \A i \in DOMAIN call[c].made :
        call[c].made[i] > 1 => i \in call[c].lost \/ call[c].tool \in Several

\* Finding a label and creating it are two requests: no other call of the turn
\* creates it in between.
LabelsDoNotCollide == collided = {}

\* What a tool reports is what it did, so that the model may go by it.
OutcomesAreTrue == SuccessIsComplete /\ RepeatsAreSafe /\ LabelsDoNotCollide
=============================================================================
