--------------------------- MODULE ProviderTokens ---------------------------
(***************************************************************************)
(* The access to the accounts users have connected: the record of an       *)
(* account's tokens (integration_tokens, src/services/                     *)
(* integration_service.py) and its refresh by whoever needs it: the tools  *)
(* of an agent run, in any worker, and the renewal of webhooks, in the     *)
(* process of the API (WebhookRenewal).                                    *)
(*                                                                         *)
(* A user reads the record and, when the access token has run out, asks    *)
(* the provider for a new one with the refresh token it has read, and then *)
(* writes what it got over the record; nothing keeps two users from doing  *)
(* so at once, and an error of the write is logged and forgotten.          *)
(*                                                                         *)
(* The providers are external: each refresh of a Rotating account returns  *)
(* a new refresh token and ends the one before.  Time is counted in the    *)
(* hours between two renewal passes; the margin of five minutes in which   *)
(* a token counts as expired is less than that.  After a failed refresh    *)
(* some clients go on with the old token and some give up: either way the  *)
(* call that needed the token fails, and both are the old token here.      *)
(***************************************************************************)
EXTENDS Naturals, FiniteSets

CONSTANTS
    Accounts,       \* the accounts with a record of tokens
    Users,          \* what asks for tokens
    Rotating,       \* accounts whose refresh token changes at each refresh
    TokenLife,      \* hours an access token is good for
    MaxTime,        \* bound: hours
    MaxFailures,    \* bound: failed calls, failed writes and deaths
    NoAccount

ASSUME TokensAssumption ==
    /\ Rotating \subseteq Accounts /\ NoAccount \notin Accounts
    /\ TokenLife \in Nat \ {0} /\ MaxTime \in Nat /\ MaxFailures \in Nat

VARIABLES
    now,        \* the hour
    record,     \* the stored tokens: serial number of the refresh token, and
                \* the hour at which the access token runs out
    last,       \* the serial number the provider gave out last
    use,        \* what each user is doing, and the tokens it has
    lost,       \* accounts with a refresh that was never written
    failures    \* failed calls, failed writes and deaths so far

tokenVars == <<now, record, last, use, lost, failures>>

Tokens == [serial : Nat, till : Nat]
Idle == [step |-> "idle", account |-> NoAccount, serial |-> 0, till |-> 0]

Fail == failures < MaxFailures /\ failures' = failures + 1

-----------------------------------------------------------------------------

\* get_integration_token, and the check of those who refresh: is it expired?
Obtain(u, a, refreshing) ==
    /\ use[u].step = "idle"
    /\ use' = [use EXCEPT ![u] =
         [step |-> IF refreshing /\ record[a].till <= now THEN "refresh" ELSE "have",
          account |-> a, serial |-> record[a].serial, till |-> record[a].till]]
    /\ UNCHANGED <<now, record, last, lost, failures>>

\* The provider accepts the refresh token, or does not, or cannot be reached.
Refresh(u) ==
    LET a == use[u].account
        serial == IF a \in Rotating THEN last[a] + 1 ELSE last[a] IN
    /\ use[u].step = "refresh"
    /\ \/ /\ use[u].serial = last[a]
          /\ last' = [last EXCEPT ![a] = serial]
          /\ use' = [use EXCEPT ![u].step = "store", ![u].serial = serial,
                                ![u].till = now + TokenLife]
          /\ UNCHANGED failures
       \/ /\ use[u].serial # last[a]
          /\ use' = [use EXCEPT ![u].step = "have"]
          /\ UNCHANGED <<last, failures>>
       \/ /\ use[u].serial = last[a] /\ Fail
          /\ use' = [use EXCEPT ![u].step = "have"]
          /\ UNCHANGED last
    /\ UNCHANGED <<now, record, lost>>

\* Mutated Store: only the access token and its expiry are written.
StoreAccessOnly(u) ==
    LET a == use[u].account IN
    /\ use[u].step = "store"
    /\ record' = [record EXCEPT ![a].till = use[u].till]
    /\ use' = [use EXCEPT ![u].step = "have"]
    /\ UNCHANGED <<now, last, lost, failures>>

\* update_integration_token_and_refresh_token: an error is not passed on.
Store(u) ==
    LET a == use[u].account IN
    /\ use[u].step = "store"
    /\ use' = [use EXCEPT ![u].step = "have"]
    /\ \/ /\ record' = [record EXCEPT ![a] = [serial |-> use[u].serial, till |-> use[u].till]]
          /\ UNCHANGED <<lost, failures>>
       \/ Fail /\ lost' = lost \cup {a} /\ UNCHANGED record
    /\ UNCHANGED <<now, last>>

\* What died with a process: a refresh that was not written yet.
LostBy(u) == IF use[u].step = "store" THEN {use[u].account} ELSE {}

-----------------------------------------------------------------------------
(* The tools of a run *)

Agent(u) ==
    \/ \E a \in Accounts : Obtain(u, a, TRUE)
    \/ Refresh(u)
    \/ Store(u)

AgentDone(u) ==
    /\ use[u].step = "have"
    /\ use' = [use EXCEPT ![u] = Idle]
    /\ UNCHANGED <<now, record, last, lost, failures>>

AgentDies(u) ==
    /\ use[u].step # "idle"
    /\ Fail
    /\ use' = [use EXCEPT ![u] = Idle]
    /\ lost' = lost \cup LostBy(u)
    /\ UNCHANGED <<now, record, last>>

TokensInit ==
    /\ now = 0
    /\ record = [a \in Accounts |-> [serial |-> 0, till |-> TokenLife]]
    /\ last = [a \in Accounts |-> 0]
    /\ use = [u \in Users |-> Idle]
    /\ lost = {} /\ failures = 0

-----------------------------------------------------------------------------

TokensTypeOK ==
    /\ now \in Nat /\ failures \in Nat
    /\ record \in [Accounts -> Tokens]
    /\ last \in [Accounts -> Nat]
    /\ use \in [Users -> [step : {"idle", "refresh", "store", "have"},
                          account : Accounts \cup {NoAccount},
                          serial : Nat, till : Nat]]
    /\ \A u \in Users : use[u].step # "idle" => use[u].account \in Accounts
    /\ lost \subseteq Accounts

\* However many users refresh an account at once, and in whatever order they
\* write what they got, the record has the refresh token the provider accepts,
\* or one user is about to write it; unless that write failed or never came.
RefreshTokenIsKept ==
    \A a \in Accounts : record[a].serial # last[a] =>
        \/ \E u \in Users : /\ use[u].step = "store" /\ use[u].account = a
                            /\ use[u].serial = last[a]
        \/ a \in lost

=============================================================================
