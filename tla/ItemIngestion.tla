---------------------------- MODULE ItemIngestion ----------------------------
(***************************************************************************)
(* How changes at the user's services (mail, files, calendars, tables,     *)
(* boards, pages) reach the evaluation of the user's triggers: the webhook *)
(* handlers under src/ingress/webhook_handlers, the checkpoints kept by    *)
(* IntegrationService and the deduplicating inserts of DatabaseManager.    *)
(*                                                                         *)
(* The service numbers its changes.  A notification is acknowledged        *)
(* whatever happens, so no service ever sends one again because of an      *)
(* error, and the tasks of several notifications interleave at their       *)
(* awaits.  Most services notify without saying what changed: the task     *)
(* reads the stored checkpoint, fetches what is newer, writes the new      *)
(* checkpoint, stores the items that are not stored yet and evaluates      *)
(* them.  The handlers differ in the steps and in their order, which is    *)
(* the plan of a service, and in what their client makes of an expired     *)
(* checkpoint, of a long list and of an error.  The others name or carry   *)
(* the change in the notification.                                         *)
(*                                                                         *)
(* One account of one service, and what another user's account of it       *)
(* stores.  An evaluation stands for eval_event, the look-up of the        *)
(* triggers that fired and the publish of their events, one after the      *)
(* other for each change of the batch; Outlook's handler stops at          *)
(* eval_event and publishes nothing.  Left out: signatures and handshakes, *)
(* the look-up of the user, and what is in an item.                        *)
(***************************************************************************)
EXTENDS Naturals, Sequences, Functions, FiniteSetsExt

CONSTANTS
    Services,       \* the services considered
    Tasks,          \* notifications in process at a time
    MaxChanges,     \* bound on the changes at the service
    Objects,        \* messages, files and events
    ObjectMaps,     \* what the changes may be about, see objectOf
    Shared,         \* the objects another user has too
    PageSize,       \* changes in one page of a listing
    MaxDeliveries,  \* bound on the notifications of one change
    MaxFaults,      \* bound on errors, crashes and expiries
    None

Changes == 1..MaxChanges
Steps == {"read", "fetch", "write", "dedupe", "insert", "collect", "evaluate"}

ASSUME IngestionAssumption ==
    /\ MaxChanges \in Nat /\ MaxDeliveries \in Nat /\ MaxFaults \in Nat
    /\ PageSize \in Nat \ {0}
    /\ ObjectMaps \subseteq [Changes -> Objects]
    /\ Shared \subseteq Objects
    /\ None \notin Nat

VARIABLES
    service,        \* the service
    objectOf,       \* the object each of its changes is about
    newest,         \* the number of its latest change
    horizon,        \* a checkpoint below this has expired
    checkpoint,     \* the stored position, None before the first notification
    stored,         \* the objects that have a document
    elsewhere,      \* those another user's handler stored
    plan,           \* the steps each task still has to do
    seen,           \* the checkpoint a task read
    batch,          \* the changes it holds
    took,           \* the changes it fetched, where nothing is stored
    next,           \* the checkpoint it will write
    times,          \* how often each change was evaluated
    deliveries,     \* how often a notification carried it
    skipped,        \* changes passed over by a first sync, an expiry or a fault
    again,          \* changes with a reason to be evaluated again
    faults

serviceVars == <<service, objectOf, newest, horizon>>
taskVars == <<plan, seen, batch, took, next>>
historyVars == <<times, deliveries, skipped, again>>
vars == <<serviceVars, checkpoint, stored, elsewhere, taskVars, historyVars, faults>>

-----------------------------------------------------------------------------
(* The handlers: the steps of each, in their order *)

GmailPlan == <<"read", "fetch", "write", "dedupe", "insert", "collect", "evaluate">>
GoogleCalendarPlan == <<"read", "fetch", "write", "dedupe", "insert", "collect", "evaluate">>
GoogleDrivePlan == <<"read", "fetch", "write", "dedupe", "insert", "collect", "evaluate">>
DropboxPlan == <<"read", "fetch", "write", "dedupe", "insert", "collect", "evaluate">>

\* Nothing is stored, and the cursor is written last.
OneDrivePlan == <<"read", "fetch", "evaluate", "write">>

\* Nothing is stored, and the cursor is written first.
AirtablePlan == <<"read", "fetch", "write", "evaluate">>

\* The message is looked for before it is fetched and before it is inserted.
OutlookPlan == <<"dedupe", "dedupe", "insert", "evaluate">>

MicrosoftCalendarPlan == <<"evaluate">>
TrelloPlan == <<"evaluate">>
NotionPlan == <<"evaluate">>
HubSpotPlan == <<"evaluate">>

PlanOf ==
    [gmail |-> GmailPlan, google_calendar |-> GoogleCalendarPlan,
     google_drive |-> GoogleDrivePlan, dropbox |-> DropboxPlan,
     onedrive |-> OneDrivePlan, airtable |-> AirtablePlan, outlook |-> OutlookPlan,
     microsoft_calendar |-> MicrosoftCalendarPlan, trello |-> TrelloPlan,
     notion |-> NotionPlan, hubspot |-> HubSpotPlan]

ASSUME ServicesAssumption == Services \subseteq DOMAIN PlanOf

Polls == "fetch" \in Range(PlanOf[service])
Stores == "insert" \in Range(PlanOf[service])

Busy(t) == plan[t] # <<>>
Doing(t, step) == Busy(t) /\ Head(plan[t]) = step
Ahead(t, step) == step \in Range(plan[t])

SpendFault == faults < MaxFaults /\ faults' = faults + 1

\* The task goes on with its batch; a handler returns once it has nothing to
\* store or to evaluate.
GoOn(t, items) ==
    LET rest == Tail(plan[t]) IN
    /\ batch' = [batch EXCEPT ![t] = items]
    /\ plan' = [plan EXCEPT ![t] =
        IF items = {} /\ Range(rest) \cap {"fetch", "write"} = {} THEN <<>> ELSE rest]

-----------------------------------------------------------------------------
(* The service *)

Change ==
    /\ newest < MaxChanges
    /\ newest' = newest + 1
    /\ UNCHANGED <<service, objectOf, horizon, checkpoint, stored, elsewhere, taskVars, historyVars, faults>>

\* The history before now is dropped: older checkpoints are not accepted.
Expire ==
    /\ Polls
    /\ horizon < newest
    /\ SpendFault
    /\ horizon' = newest
    /\ UNCHANGED <<service, objectOf, newest, checkpoint, stored, elsewhere, taskVars, historyVars>>

\* The handler of another user has stored the object: insert_or_reject_items
\* looks for the platform and the identifier only, and a file or an event has
\* the same one for everybody it is shared with.
StoredElsewhere(o) ==
    /\ service \in {"google_calendar", "google_drive"}
    /\ o \in Shared \ stored
    /\ stored' = stored \cup {o}
    /\ elsewhere' = elsewhere \cup {o}
    /\ UNCHANGED <<serviceVars, checkpoint, taskVars, historyVars, faults>>

Later(from) == {c \in Changes : from < c /\ c <= newest}
Page(from) == {c \in Later(from) : c <= from + PageSize}
OnePage(from) == Later(from) = Page(from)
Expired(from) == from < horizon

Result(items, position) == [items |-> items, next |-> position]
Nothing == Result({}, None)

\* get_changed_message_ids_since; without a checkpoint getProfile.
GmailResult(from) ==
    IF from = None THEN Result({}, newest)
    ELSE IF Expired(from) \/ Later(from) = {} THEN Nothing
    ELSE Result(Later(from), newest)

\* Only the last page has a sync token, and only the first page is asked for.
GoogleCalendarResult(from) ==
    IF from = None THEN Result({}, IF OnePage(0) THEN newest ELSE None)
    ELSE IF Expired(from) THEN Nothing
    ELSE Result(Page(from), IF OnePage(from) THEN newest ELSE None)

\* Mutated GoogleDriveResult: an expired page token is kept.
GoogleDriveResultKept(from) ==
    IF from = None THEN Result({}, newest)
    ELSE IF Expired(from) THEN Nothing ELSE Result(Later(from), newest)

\* An expired page token is replaced by a fresh one.
GoogleDriveResult(from) ==
    IF from = None \/ Expired(from) THEN Result({}, newest) ELSE Result(Later(from), newest)

\* Every page has a cursor, and one page is asked for.
DropboxResult(from) ==
    IF from = None THEN Result({}, Min({newest, PageSize}))
    ELSE IF Expired(from) THEN Nothing
    ELSE Result(Page(from), Min({newest, from + PageSize}))

\* Without a delta link everything there is counts as changed.
OneDriveResult(from) ==
    IF from = None THEN Result(Later(0), newest)
    ELSE IF Expired(from) THEN Nothing
    ELSE Result(Later(from), newest)

AirtableResult(from) ==
    LET start == IF from = None THEN 0 ELSE from IN Result(Later(start), newest)

Results(from) ==
    CASE service = "gmail" -> GmailResult(from)
      [] service = "google_calendar" -> GoogleCalendarResult(from)
      [] service = "google_drive" -> GoogleDriveResult(from)
      [] service = "dropbox" -> DropboxResult(from)
      [] service = "onedrive" -> OneDriveResult(from)
      [] OTHER -> AirtableResult(from)

\* The clients that raise instead of returning an empty list.
Raises(from) == service = "airtable" /\ from # None /\ Expired(from)

-----------------------------------------------------------------------------
(* The steps of a task *)

\* A notification that says only that something changed.
Notify(t) ==
    /\ Polls
    /\ ~Busy(t)
    /\ plan' = [plan EXCEPT ![t] = PlanOf[service]]
    /\ took' = [took EXCEPT ![t] = {}]
    /\ UNCHANGED <<serviceVars, checkpoint, stored, seen, batch, next, historyVars, faults, elsewhere>>

\* A notification of a change; it may be delivered again.
Deliver(t, c) ==
    /\ ~Polls
    /\ ~Busy(t)
    /\ c <= newest
    /\ deliveries[c] < MaxDeliveries
    /\ deliveries' = [deliveries EXCEPT ![c] = @ + 1]
    /\ plan' = [plan EXCEPT ![t] = PlanOf[service]]
    /\ batch' = [batch EXCEPT ![t] = {c}]
    /\ UNCHANGED <<serviceVars, checkpoint, stored, seen, took, next, times, skipped, again, faults, elsewhere>>

Read(t) ==
    /\ Doing(t, "read")
    /\ seen' = [seen EXCEPT ![t] = checkpoint]
    /\ GoOn(t, {})
    /\ UNCHANGED <<serviceVars, checkpoint, stored, took, next, historyVars, faults, elsewhere>>

\* Without a record of what was processed, a change is evaluated again when the
\* checkpoint read is out of date, or another task that has fetched it too has
\* not written its own.
Overlap(t, items) ==
    IF Stores THEN {}
    ELSE {c \in items :
        \/ checkpoint # None /\ c <= checkpoint
        \/ \E u \in Tasks \ {t} : Busy(u) /\ c \in took[u]}

Take(t, r) ==
    /\ next' = [next EXCEPT ![t] = r.next]
    /\ took' = [took EXCEPT ![t] = IF Stores THEN {} ELSE r.items]
    /\ GoOn(t, r.items)
    /\ again' = again \cup Overlap(t, r.items)
    /\ UNCHANGED <<serviceVars, checkpoint, stored, seen, times, deliveries, elsewhere>>

Fetch(t) ==
    /\ Doing(t, "fetch")
    /\ ~Raises(seen[t])
    /\ Take(t, Results(seen[t]))
    /\ UNCHANGED <<skipped, faults>>

\* An error the client turns into an empty list, in OneDrive's into the pages it
\* has, or one of a single message, which is left out.
FetchError(t) ==
    LET all == Results(seen[t]).items IN
    /\ Doing(t, "fetch")
    /\ SpendFault
    /\ \/ /\ service \in {"gmail", "google_calendar", "dropbox"}
          /\ Take(t, Nothing) /\ UNCHANGED skipped
       \/ /\ service = "onedrive"
          /\ \E n \in Changes :
              Take(t, Result({c \in all : c < n}, None)) /\ UNCHANGED skipped
       \/ /\ service = "gmail"
          /\ \E c \in all :
              /\ Take(t, Result(all \ {c}, Results(seen[t]).next))
              /\ skipped' = skipped \cup {c}

Forget(t) == seen' = [seen EXCEPT ![t] = None] /\ next' = [next EXCEPT ![t] = None]

\* What a first sync, or one after an expiry, leaves out.
Gap(t) == IF Ahead(t, "evaluate") /\ batch[t] = {} THEN Later(0) ELSE {}

\* Mutated Write: the position is that of the service when it is written.
WriteNewest(t) ==
    /\ Doing(t, "write")
    /\ checkpoint' = IF next[t] = None THEN checkpoint ELSE newest
    /\ GoOn(t, batch[t])
    /\ Forget(t)
    /\ UNCHANGED <<serviceVars, stored, took, historyVars, faults, elsewhere>>

\* Two tasks write in any order: an older checkpoint may replace a newer one.
Write(t) ==
    /\ Doing(t, "write")
    /\ IF next[t] = None
         THEN /\ again' = again \cup took[t]
              /\ UNCHANGED <<checkpoint, skipped>>
         ELSE /\ checkpoint' = next[t]
              /\ again' = again \cup {c \in Changes : next[t] < c /\ checkpoint # None /\ c <= checkpoint}
              /\ skipped' = skipped \cup {c \in Gap(t) : c <= next[t] /\ (seen[t] = None \/ c > seen[t])}
    /\ GoOn(t, batch[t])
    /\ Forget(t)
    /\ UNCHANGED <<serviceVars, stored, took, times, deliveries, faults, elsewhere>>

\* Mutated Dedupe: what is stored is stored and evaluated again.
DedupeNot(t) ==
    /\ Doing(t, "dedupe")
    /\ GoOn(t, batch[t])
    /\ UNCHANGED <<serviceVars, checkpoint, stored, seen, took, next, historyVars, faults, elsewhere>>

\* Of each object one change is kept, if the object has no document yet.
Kept(t) ==
    {c \in batch[t] :
        /\ objectOf[c] \notin stored
        /\ \A d \in batch[t] : d < c => objectOf[d] # objectOf[c]}

\* Another task may be about to store the same object, or to find it stored.
Dedupe(t) ==
    /\ Doing(t, "dedupe")
    /\ GoOn(t, Kept(t))
    /\ again' = again \cup {c \in Changes : \E d \in Kept(t), u \in Tasks \ {t} :
        /\ objectOf[c] = objectOf[d]
        /\ Doing(u, "insert") \/ Doing(u, "collect")
        /\ \E e \in batch[u] : objectOf[e] = objectOf[d]}
    /\ UNCHANGED <<serviceVars, checkpoint, stored, seen, took, next, times, deliveries, skipped, faults, elsewhere>>

\* bulk_write without order: what fails is logged.
Insert(t) ==
    /\ Doing(t, "insert")
    /\ \/ stored' = stored \cup {objectOf[c] : c \in batch[t]} /\ UNCHANGED faults
       \/ /\ SpendFault
          /\ Ahead(t, "collect")
          /\ \E c \in batch[t] : stored' = stored \cup {objectOf[d] : d \in batch[t] \ {c}}
    /\ GoOn(t, batch[t])
    /\ UNCHANGED <<serviceVars, checkpoint, seen, took, next, historyVars, elsewhere>>

\* The documents of the objects it tried to store, whoever stored them.
Collect(t) ==
    LET found == {c \in batch[t] : objectOf[c] \in stored} IN
    /\ Doing(t, "collect")
    /\ GoOn(t, found)
    /\ skipped' = skipped \cup (batch[t] \ found)
    /\ UNCHANGED <<serviceVars, checkpoint, stored, seen, took, next, times, deliveries, again, faults, elsewhere>>

\* The next change of the batch is done with.
Pass(t, c) ==
    /\ Doing(t, "evaluate")
    /\ c \in batch[t]
    /\ \A d \in batch[t] : c <= d
    /\ IF batch[t] = {c} THEN GoOn(t, {})
       ELSE batch' = [batch EXCEPT ![t] = @ \ {c}] /\ UNCHANGED plan
    /\ UNCHANGED <<serviceVars, checkpoint, stored, seen, took, next, deliveries, again, elsewhere>>

Evaluate(t, c) ==
    /\ Pass(t, c)
    /\ times' = [times EXCEPT ![c] = @ + 1]
    /\ UNCHANGED <<skipped, faults>>

\* eval_event returns an error, or OneDrive's handler catches one.
EvaluateError(t, c) ==
    /\ Pass(t, c)
    /\ SpendFault
    /\ skipped' = skipped \cup {c}
    /\ UNCHANGED times

NothingToEvaluate(t) ==
    /\ Doing(t, "evaluate")
    /\ batch[t] = {}
    /\ GoOn(t, {})
    /\ UNCHANGED <<serviceVars, checkpoint, stored, seen, took, next, historyVars, faults, elsewhere>>

\* The task ends early; what it holds comes back only if its checkpoint was not
\* written and nothing was notified by name.
Stop(t) ==
    /\ plan' = [plan EXCEPT ![t] = <<>>]
    /\ batch' = [batch EXCEPT ![t] = {}]
    /\ IF Ahead(t, "write")
         THEN again' = again \cup took[t] /\ UNCHANGED skipped
         ELSE skipped' = skipped \cup batch[t] /\ UNCHANGED again
    /\ Forget(t)
    /\ UNCHANGED <<serviceVars, checkpoint, stored, took, times, deliveries, elsewhere>>

\* An await raises or the process dies.
Fails(t) == Busy(t) /\ SpendFault /\ Stop(t)

\* The client raises on an expired cursor.
FetchRaises(t) == Doing(t, "fetch") /\ Raises(seen[t]) /\ Stop(t) /\ UNCHANGED faults

-----------------------------------------------------------------------------

Init ==
    /\ service \in Services
    /\ objectOf \in ObjectMaps
    /\ newest = 0 /\ horizon = 0
    /\ checkpoint = None
    /\ stored = {} /\ elsewhere = {}
    /\ plan = [t \in Tasks |-> <<>>]
    /\ seen = [t \in Tasks |-> None]
    /\ batch = [t \in Tasks |-> {}]
    /\ took = [t \in Tasks |-> {}]
    /\ next = [t \in Tasks |-> None]
    /\ times = [c \in Changes |-> 0]
    /\ deliveries = [c \in Changes |-> 0]
    /\ skipped = {} /\ again = {}
    /\ faults = 0

TaskStep(t) ==
    \/ Read(t) \/ Fetch(t) \/ FetchRaises(t) \/ Write(t)
    \/ Dedupe(t) \/ Insert(t) \/ Collect(t) \/ NothingToEvaluate(t)
    \/ \E c \in Changes : Evaluate(t, c)

Next ==
    \/ Change \/ Expire
    \/ \E o \in Shared : StoredElsewhere(o)
    \/ \E t \in Tasks :
        \/ Notify(t) \/ TaskStep(t) \/ FetchError(t) \/ Fails(t)
        \/ \E c \in Changes : Deliver(t, c) \/ EvaluateError(t, c)

Spec == Init /\ [][Next]_vars

\* Tasks run to their end, and the account goes on being notified.
FairSpec == Spec /\ \A t \in Tasks : WF_vars(TaskStep(t)) /\ WF_vars(Notify(t))

-----------------------------------------------------------------------------
(* Properties *)

\* The values of the variables.
TypeOK ==
    /\ service \in Services
    /\ newest \in 0..MaxChanges /\ horizon \in 0..newest
    /\ checkpoint \in 0..newest \cup {None}
    /\ plan \in [Tasks -> Seq(Steps)]
    /\ seen \in [Tasks -> 0..newest \cup {None}]
    /\ next \in [Tasks -> 0..newest \cup {None}]
    /\ batch \in [Tasks -> SUBSET (1..newest)] /\ took \in [Tasks -> SUBSET (1..newest)]
    /\ times \in [Changes -> Nat] /\ deliveries \in [Changes -> 0..MaxDeliveries]
    /\ skipped \subseteq 1..newest /\ again \subseteq Changes
    /\ objectOf \in ObjectMaps
    /\ stored \subseteq Objects /\ elsewhere \subseteq stored \cap Shared

InHand(c) == \E t \in Tasks : c \in batch[t]

\* A change that was evaluated or given up, or one of an object that was.
Settled(c) ==
    \/ times[c] > 0 \/ c \in skipped \/ objectOf[c] \in elsewhere
    \/ Stores /\ \E d \in Changes :
        objectOf[d] = objectOf[c] /\ (times[d] > 0 \/ d \in skipped \/ InHand(d))

\* Nothing is lost behind the checkpoint: however tasks overtake one another,
\* move the checkpoint back or find an object stored by another, a change the
\* checkpoint has passed is evaluated or in the hands of a task.  Only a first
\* sync, an expiry of Google Drive's token, a document of another user, or a
\* fault at one of the named places gives one up.
BehindTheCheckpoint ==
    checkpoint # None => \A c \in 1..checkpoint : Settled(c) \/ InHand(c)

\* An object that is stored is evaluated once, however often it is notified,
\* fetched or changed, unless two tasks were storing it at the same time.
\* Without documents a change is evaluated again only for one of the reasons
\* of Overlap, Write and Stop, or as often as it was delivered.
EvaluatedAgainWithReason ==
    \A c, d \in Changes :
        CASE Stores ->
                objectOf[c] = objectOf[d] /\ c \notin again =>
                    /\ times[c] <= 1
                    /\ c # d => times[c] = 0 \/ times[d] = 0
          [] Polls /\ ~Stores -> times[c] <= 1 \/ c \in again
          [] OTHER -> times[c] <= deliveries[c]

\* What the handlers log of an item they pass over: "already processed,
\* skipping".  A change behind the checkpoint is about an object that a task of
\* this user has evaluated or holds, or one of the gaps is to blame.
PassedOverIsProcessed ==
    checkpoint # None =>
        \A c \in 1..checkpoint : \E d \in Changes :
            objectOf[d] = objectOf[c] /\ (times[d] > 0 \/ d \in skipped \/ InHand(d))

\* The checkpoint is not accepted any more and the handler keeps it, or the
\* changes of the calendar do not fit in a page and no token comes with them.
Stuck ==
    \/ service # "google_drive" /\ checkpoint # None /\ Expired(checkpoint)
    \/ service = "google_calendar" /\ ~OnePage(IF checkpoint = None THEN 0 ELSE checkpoint)

\* As long as the account is notified, every change is settled in the end, also
\* after errors and over several pages, unless the account is stuck.
ChangesAreSettled ==
    \A c \in Changes : Polls /\ c <= newest ~> Settled(c) \/ Stuck
=============================================================================
