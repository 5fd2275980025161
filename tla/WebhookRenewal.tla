--------------------------- MODULE WebhookRenewal ---------------------------
(***************************************************************************)
(* The renewal of webhooks (src/services/webhook_renewal.py): the watches  *)
(* the providers keep for the accounts of users run out, and once an hour  *)
(* a pass over the records of the integrations renews every watch whose    *)
(* record says that it has less than Threshold hours left.                 *)
(*                                                                         *)
(* A pass looks at the records as they were when it began, and renews one  *)
(* watch after the other: it gets a token (ProviderTokens), calls the      *)
(* provider and writes the new expiry to the record.  Gmail, Drive,        *)
(* Calendar and Microsoft have a field for each service; the watches of an *)
(* Airtable account are one array, which is written back whole, with the   *)
(* other watches as they were when the pass began.  Airtable's token is    *)
(* taken from the record without a refresh.                                *)
(*                                                                         *)
(* The watches are made by another program when an account is connected    *)
(* (AddWatch, external).  Passes do not overlap (max_instances=1) and one  *)
(* takes less than an hour; when the process is down one is left out.      *)
(* Records without an expiry, which are never renewed, are not modelled.   *)
(***************************************************************************)
EXTENDS ProviderTokens

CONSTANTS
    Watches,        \* the watches of the users' accounts
    AccountOf,      \* the account of each watch
    Airtable,       \* accounts whose watches are one array
    Reissued,       \* watches renewed by making a new one (Google)
    Initial,        \* watches that exist at the start
    Threshold,      \* RENEW_WHEN_LESS_THAN, in passes (24 in the code)
    Ttl,            \* hours a watch is granted for
    Renewer,        \* the process of the API
    NoWatch

ASSUME WatchesAssumption ==
    /\ AccountOf \in [Watches -> Accounts]
    /\ Airtable \subseteq Accounts
    /\ Reissued \subseteq {w \in Watches : AccountOf[w] \notin Airtable}
    /\ Initial \subseteq Watches /\ NoWatch \notin Watches
    /\ Renewer \in Users
\* "Each must stay under the provider's cap": what is asked for is granted.
ASSUME TtlAssumption ==
    Threshold \in Nat \ {0} /\ Ttl \in Nat /\ Ttl > Threshold

VARIABLES
    expires,    \* hour at which the provider ends each watch, 0 before it is made
    recorded,   \* what the record says of it, 0 when it is not on record
    passAt,     \* the next hour that has no pass yet
    seen,       \* the records as the pass found them
    due,        \* watches the pass has still to renew
    current,    \* the watch being renewed
    called,     \* whether its provider has renewed it
    fails,      \* renewals of each watch that failed in a row
    dropped     \* watches that a write of the array took from the record

passVars == <<passAt, seen, due, current, called>>
watchVars == <<expires, recorded, passVars, fails, dropped>>
renewalVars == <<tokenVars, watchVars>>

-----------------------------------------------------------------------------
(* A pass *)

\* Mutated ExpiresSoon: the comparison is strict.
ExpiresSooner(r, w) == r[w] > 0 /\ r[w] < now + Threshold

\* _expires_soon
ExpiresSoon(r, w) == r[w] > 0 /\ r[w] <= now + Threshold

\* _expiring_services, of all records.
Expiring == {w \in Watches : ExpiresSoon(recorded, w)}

BeginPass ==
    /\ passAt = now
    /\ due = {} /\ current = NoWatch /\ use[Renewer].step = "idle"
    /\ passAt' = now + 1
    /\ seen' = recorded
    /\ due' = Expiring
    /\ UNCHANGED <<tokenVars, expires, recorded, current, called, fails, dropped>>

\* _renew: for Google and Microsoft the token is refreshed when it has run out.
BeginRenewal(w) ==
    /\ current = NoWatch /\ w \in due
    /\ Obtain(Renewer, AccountOf[w], AccountOf[w] \notin Airtable)
    /\ current' = w /\ called' = FALSE
    /\ due' = due \ {w}
    /\ UNCHANGED <<expires, recorded, passAt, seen, fails, dropped>>

RenewerToken ==
    /\ Refresh(Renewer) \/ Store(Renewer)
    /\ UNCHANGED watchVars

\* Whether the provider can renew w: a watch that has ended is gone, unless
\* renewing makes a new one.
Renewable(w) ==
    /\ use[Renewer].till > now
    /\ expires[w] >= now \/ w \in Reissued

Renewed ==
    /\ current' = NoWatch /\ called' = FALSE
    /\ use' = [use EXCEPT ![Renewer] = Idle]
    /\ UNCHANGED <<now, record, last, lost>>

\* The call to the provider.
Call ==
    /\ current # NoWatch /\ use[Renewer].step = "have" /\ ~called
    /\ \/ /\ Renewable(current)
          /\ expires' = [expires EXCEPT ![current] = now + Ttl]
          /\ fails' = [fails EXCEPT ![current] = 0]
          /\ called' = TRUE
          /\ UNCHANGED <<tokenVars, current>>
       \/ /\ IF Renewable(current) THEN Fail ELSE UNCHANGED failures
          /\ fails' = [fails EXCEPT ![current] = @ + 1]
          /\ Renewed
          /\ UNCHANGED expires
    /\ UNCHANGED <<recorded, passAt, seen, due, dropped>>

\* The records once w is written: its field, or the array it was read in.
NewRecord(w) ==
    [v \in Watches |->
        IF v = w THEN now + Ttl
        ELSE IF AccountOf[w] \in Airtable /\ AccountOf[v] = AccountOf[w]
             THEN seen[v] ELSE recorded[v]]

\* update_integration, which may fail: the watch is renewed and its record old.
Write ==
    /\ called
    /\ \/ /\ recorded' = NewRecord(current)
          /\ dropped' = dropped \cup {v \in Watches : recorded[v] > 0 /\ recorded'[v] = 0}
          /\ UNCHANGED failures
       \/ Fail /\ UNCHANGED <<recorded, dropped>>
    /\ Renewed
    /\ UNCHANGED <<expires, passAt, seen, due, fails>>

-----------------------------------------------------------------------------
(* Everything else *)

\* The process dies: the watches it had still to renew are not renewed now.
RenewerDies ==
    /\ current # NoWatch \/ due # {}
    /\ Fail
    /\ use' = [use EXCEPT ![Renewer] = Idle]
    /\ lost' = lost \cup LostBy(Renewer)
    /\ fails' = [w \in Watches |->
         fails[w] + (IF w \in due \/ (w = current /\ ~called) THEN 1 ELSE 0)]
    /\ due' = {} /\ current' = NoWatch /\ called' = FALSE
    /\ UNCHANGED <<now, record, last, expires, recorded, passAt, seen, dropped>>

\* The process is down in this hour.
NoPass ==
    /\ passAt = now
    /\ Fail
    /\ passAt' = now + 1
    /\ fails' = [w \in Watches |-> fails[w] + (IF w \in Expiring THEN 1 ELSE 0)]
    /\ UNCHANGED <<now, record, last, use, lost, expires, recorded, seen, due, current,
                   called, dropped>>

\* An account is connected, or one more of its resources is watched.
AddWatch(w) ==
    /\ expires[w] = 0
    /\ expires' = [expires EXCEPT ![w] = now + Ttl]
    /\ recorded' = [recorded EXCEPT ![w] = now + Ttl]
    /\ UNCHANGED <<tokenVars, passVars, fails, dropped>>

\* What the pass of the hour saw is forgotten with it.
Tick ==
    /\ now < MaxTime
    /\ passAt > now /\ due = {} /\ current = NoWatch
    /\ now' = now + 1
    /\ seen' = [w \in Watches |-> 0]
    /\ UNCHANGED <<record, last, use, lost, failures, expires, recorded, passAt, due,
                   current, called, fails, dropped>>

-----------------------------------------------------------------------------

RenewalInit ==
    /\ TokensInit
    /\ expires = [w \in Watches |-> IF w \in Initial THEN Ttl ELSE 0]
    /\ recorded = expires
    /\ passAt = 0 /\ seen = [w \in Watches |-> 0]
    /\ due = {} /\ current = NoWatch /\ called = FALSE
    /\ fails = [w \in Watches |-> 0] /\ dropped = {}

Agents == Users \ {Renewer}

RenewalNext ==
    \/ \E u \in Agents : (Agent(u) \/ AgentDone(u) \/ AgentDies(u)) /\ UNCHANGED watchVars
    \/ BeginPass
    \/ \E w \in Watches : BeginRenewal(w)
    \/ RenewerToken \/ Call \/ Write
    \/ RenewerDies \/ NoPass
    \/ \E w \in Watches : AddWatch(w)
    \/ Tick

RenewalSpec == RenewalInit /\ [][RenewalNext]_renewalVars

-----------------------------------------------------------------------------
(* Properties *)

RenewalTypeOK ==
    /\ TokensTypeOK
    /\ expires \in [Watches -> Nat] /\ recorded \in [Watches -> Nat]
    /\ passAt \in Nat /\ seen \in [Watches -> Nat]
    /\ due \subseteq Watches /\ current \in Watches \cup {NoWatch}
    /\ called \in BOOLEAN
    /\ fails \in [Watches -> Nat]
    /\ dropped \subseteq Watches

Lapsed(w) == expires[w] > 0 /\ expires[w] < now

\* A watch runs out only after its renewal failed in every one of the passes in
\* which it was due, or once an array written back has taken it from the record:
\* a pass over old records, an array that undoes the renewal of its other
\* watches, a lost write and a token refreshed by somebody else do no more than
\* renew a watch once too often.
LapsedOnlyAfterFailures ==
    \A w \in Watches : Lapsed(w) => fails[w] > Threshold \/ w \in dropped

\* "Per-user webhook subscriptions issued by Google (Gmail/Drive/Calendar),
\* Microsoft Graph, and Airtable carry hard TTL caps and must be re-issued
\* before they expire." (webhook_renewal.py:4): without faults, no watch on
\* record runs out.
RenewedBeforeTheyExpire ==
    failures = 0 => \A w \in Watches : Lapsed(w) => w \in dropped

=============================================================================
