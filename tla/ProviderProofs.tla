--------------------------- MODULE ProviderProofs ---------------------------
(***************************************************************************)
(* Proofs about what is kept with providers. ProviderTokens and            *)
(* WebhookRenewal: refresh tokens are kept and no watch runs out before    *)
(* its renewal failed often enough, for any number of accounts, users and  *)
(* watches and without the bounds.  GraphBatch: no call is forgotten and   *)
(* each reports what was done for it, for any number of calls.  ToolCalls: *)
(* a tool reports what it did, for any turns, repeats and items.           *)
(***************************************************************************)
EXTENDS WebhookRenewal, GraphBatch, ToolCalls, WellFoundedInduction, TLAPS

-----------------------------------------------------------------------------
(* Tokens *)

\* Nobody has a refresh token newer than the last one given out, and without
\* rotation there is only one.
SerialsOK ==
    \A a \in Accounts : record[a].serial <= last[a] /\ (a \notin Rotating => last[a] = 0)

\* A user that is about to write a new refresh token is the only one that has
\* it: nobody else can have refreshed the account since.
UsersOK ==
    \A u \in Users : LET a == use[u].account IN use[u].step # "idle" =>
        /\ use[u].serial <= last[a]
        /\ use[u].step = "store" /\ a \in Rotating =>
             /\ use[u].serial = last[a] /\ record[a].serial < last[a]
             /\ \A v \in Users \ {u} :
                  use[v].step # "idle" /\ use[v].account = a => use[v].serial < last[a]

TokenInv == TokensTypeOK /\ SerialsOK /\ UsersOK /\ RefreshTokenIsKept

\* What a failure does to the count leaves it a number.
LEMMA FailCounts == TokensTypeOK /\ Fail => failures' \in Nat
BY DEF TokensTypeOK, Fail

\* get_integration_token keeps the tokens in order.
LEMMA ObtainKeeps ==
    ASSUME TokenInv, NEW u \in Users, NEW a \in Accounts, NEW refreshing \in BOOLEAN,
           Obtain(u, a, refreshing)
    PROVE  TokenInv'
<1> USE DEF TokenInv, Obtain
<1>1. PICK s \in {"refresh", "have"} : use' = [use EXCEPT ![u] =
        [step |-> s, account |-> a, serial |-> record[a].serial, till |-> record[a].till]]
  OBVIOUS
<1>2. record[a].serial \in Nat /\ record[a].till \in Nat
  BY DEF TokensTypeOK, Tokens
<1>3. TokensTypeOK'
  BY <1>1, <1>2 DEF TokensTypeOK
<1>4. SerialsOK'
  BY DEF SerialsOK
<1>5. UsersOK'
  BY <1>1, <1>2 DEF UsersOK, SerialsOK, TokensTypeOK
<1>6. RefreshTokenIsKept'
  BY <1>1 DEF RefreshTokenIsKept, TokensTypeOK
<1> QED
  BY <1>3, <1>4, <1>5, <1>6

\* Only the refresh token given out last is accepted: a user that refreshes
\* becomes the only one with the new one.
LEMMA RefreshKeeps ==
    ASSUME TokenInv, NEW u \in Users, Refresh(u)
    PROVE  TokenInv'
<1> DEFINE a == use[u].account
<1>0. use[u].step = "refresh" /\ a \in Accounts /\ last[a] \in Nat /\ TokenLife \in Nat /\ now \in Nat
  BY TokensAssumption DEF TokenInv, Refresh, TokensTypeOK
<1>1. CASE UNCHANGED last /\ use' = [use EXCEPT ![u].step = "have"]
  <2>1. failures' \in Nat
    BY <1>1, FailCounts DEF Refresh, TokenInv, TokensTypeOK
  <2>2. UNCHANGED <<now, record, lost, last>>
    BY <1>1 DEF Refresh
  <2>3. TokensTypeOK'
    BY <1>0, <1>1, <2>1, <2>2 DEF TokenInv, TokensTypeOK
  <2>4. SerialsOK' /\ UsersOK'
    BY <1>0, <1>1, <2>2 DEF TokenInv, SerialsOK, UsersOK, TokensTypeOK
  <2>5. RefreshTokenIsKept'
    BY <1>0, <1>1, <2>2 DEF TokenInv, RefreshTokenIsKept, TokensTypeOK
  <2> QED
    BY <2>3, <2>4, <2>5 DEF TokenInv
<1>2. CASE a \notin Rotating /\ use[u].serial = last[a] /\ last' = last
           /\ use' = [use EXCEPT ![u].step = "store", ![u].serial = last[a], ![u].till = now + TokenLife]
           /\ UNCHANGED failures
  <2>1. UNCHANGED <<now, record, lost, last>>
    BY <1>2 DEF Refresh
  <2>2. /\ use'[u] = [step |-> "store", account |-> a, serial |-> last[a], till |-> now + TokenLife]
        /\ \A v \in Users \ {u} : use'[v] = use[v]
    BY <1>0, <1>2 DEF TokenInv, TokensTypeOK
  <2>3. TokensTypeOK'
    <3>1. use' \in [Users -> [step : {"idle", "refresh", "store", "have"},
                             account : Accounts \cup {NoAccount}, serial : Nat, till : Nat]]
      BY <1>0, <1>2, <2>2 DEF TokenInv, TokensTypeOK
    <3> QED
      BY <1>0, <1>2, <2>1, <2>2, <3>1 DEF TokenInv, TokensTypeOK
  <2>4. SerialsOK'
    BY <2>1 DEF TokenInv, SerialsOK
  <2>5. UsersOK'
    <3>1. UsersOK /\ a \notin Rotating
      BY <1>2 DEF TokenInv
    <3>2. last' = last /\ record' = record
      BY <2>1
    <3> QED
      BY <1>0, <2>2, <3>1, <3>2 DEF UsersOK
  <2>6. RefreshTokenIsKept'
    BY <1>0, <1>2, <2>1 DEF TokenInv, RefreshTokenIsKept, TokensTypeOK
  <2> QED
    BY <2>3, <2>4, <2>5, <2>6 DEF TokenInv
<1>3. CASE a \in Rotating /\ use[u].serial = last[a] /\ last' = [last EXCEPT ![a] = last[a] + 1]
           /\ use' = [use EXCEPT ![u].step = "store", ![u].serial = last[a] + 1, ![u].till = now + TokenLife]
           /\ UNCHANGED failures
  <2>1. UNCHANGED <<now, record, lost>>
    BY DEF Refresh
  <2>2. TokensTypeOK'
    BY <1>0, <1>3, <2>1 DEF TokenInv, TokensTypeOK
  <2>3. SerialsOK'
    BY <1>0, <1>3, <2>1 DEF TokenInv, SerialsOK, TokensTypeOK, Tokens
  <2>4. \A v \in Users \ {u} : use[v].account = a /\ use[v].step # "idle" =>
          use[v].step # "store" /\ use[v].serial <= last[a] /\ use[v].serial \in Nat
    BY <1>0, <1>3 DEF TokenInv, UsersOK, TokensTypeOK
  <2>5. UsersOK'
    <3> SUFFICES ASSUME NEW w \in Users, use'[w].step # "idle"
                 PROVE  /\ use'[w].serial <= last'[use'[w].account]
                        /\ use'[w].step = "store" /\ use'[w].account \in Rotating =>
                             /\ use'[w].serial = last'[use'[w].account]
                             /\ record'[use'[w].account].serial < last'[use'[w].account]
                             /\ \A v \in Users \ {w} :
                                  use'[v].step # "idle" /\ use'[v].account = use'[w].account
                                    => use'[v].serial < last'[use'[w].account]
      BY DEF UsersOK
    <3>1. CASE w = u
      <4>1. use'[w].account = a /\ use'[w].serial = last[a] + 1 /\ last'[a] = last[a] + 1
        BY <1>0, <1>3, <3>1 DEF TokenInv, TokensTypeOK
      <4>2. record'[a].serial < last'[a]
        BY <1>0, <2>1, <4>1 DEF TokenInv, SerialsOK, TokensTypeOK, Tokens
      <4>3. \A v \in Users \ {u} :
              use'[v].step # "idle" /\ use'[v].account = a => use'[v].serial < last'[a]
        BY <1>0, <1>3, <2>4, <4>1 DEF TokenInv, TokensTypeOK
      <4> QED
        BY <3>1, <4>1, <4>2, <4>3, <1>0
    <3>2. CASE w # u /\ use[w].account = a
      <4>1. use'[w] = use[w] /\ use'[w].step # "store" /\ last'[a] = last[a] + 1
        BY <1>0, <1>3, <2>4, <3>2 DEF TokenInv, TokensTypeOK
      <4> QED
        BY <1>0, <2>4, <3>2, <4>1
    <3>3. CASE w # u /\ use[w].account # a
      <4>1. /\ use'[w] = use[w] /\ last'[use[w].account] = last[use[w].account]
            /\ \A v \in Users : use'[v].account = use[v].account
            /\ \A v \in Users \ {u} : use'[v] = use[v]
        BY <1>0, <1>3, <3>3 DEF TokenInv, TokensTypeOK
      <4> QED
        BY <2>1, <3>3, <4>1 DEF TokenInv, UsersOK
    <3> QED
      BY <3>1, <3>2, <3>3
  <2>6. RefreshTokenIsKept'
    <3> SUFFICES ASSUME NEW b \in Accounts, record'[b].serial # last'[b]
                 PROVE  (\E v \in Users : /\ use'[v].step = "store" /\ use'[v].account = b
                                          /\ use'[v].serial = last'[b])
                        \/ b \in lost'
      BY DEF RefreshTokenIsKept
    <3>1. CASE b = a
      BY <1>0, <1>3, <3>1 DEF TokenInv, TokensTypeOK
    <3>2. CASE b # a
      <4>1. last'[b] = last[b] /\ \A v \in Users \ {u} : use'[v] = use[v]
        BY <1>0, <1>3, <3>2 DEF TokenInv, TokensTypeOK
      <4> QED
        BY <1>0, <2>1, <3>2, <4>1 DEF TokenInv, RefreshTokenIsKept
    <3> QED
      BY <3>1, <3>2
  <2> QED
    BY <2>2, <2>3, <2>5, <2>6 DEF TokenInv
<1>4. (UNCHANGED last /\ use' = [use EXCEPT ![u].step = "have"])
      \/ (use[u].serial = last[a] /\ UNCHANGED failures
          /\ \/ a \notin Rotating /\ last' = [last EXCEPT ![a] = last[a]]
                /\ use' = [use EXCEPT ![u].step = "store", ![u].serial = last[a], ![u].till = now + TokenLife]
             \/ a \in Rotating /\ last' = [last EXCEPT ![a] = last[a] + 1]
                /\ use' = [use EXCEPT ![u].step = "store", ![u].serial = last[a] + 1, ![u].till = now + TokenLife])
  BY DEF Refresh
<1>5. [last EXCEPT ![a] = last[a]] = last
  BY DEF TokenInv, TokensTypeOK
<1> QED
  BY <1>1, <1>2, <1>3, <1>4, <1>5

\* update_integration_token_and_refresh_token.
LEMMA StoreKeeps ==
    ASSUME TokenInv, NEW u \in Users, Store(u)
    PROVE  TokenInv'
<1> DEFINE a == use[u].account
<1>0. /\ use[u].step = "store" /\ a \in Accounts
      /\ use' = [use EXCEPT ![u].step = "have"] /\ UNCHANGED <<now, last>>
  BY DEF TokenInv, Store, TokensTypeOK
<1>1. \A v \in Users \ {u} : use[v].step = "store" /\ use[v].account = a => a \notin Rotating
  BY <1>0 DEF TokenInv, UsersOK, TokensTypeOK
<1>2. /\ use'[u].step = "have" /\ use'[u].account = a /\ use'[u].serial = use[u].serial
      /\ \A v \in Users \ {u} : use'[v] = use[v]
  BY <1>0 DEF TokenInv, TokensTypeOK
<1>3. CASE record' = [record EXCEPT ![a] = [serial |-> use[u].serial, till |-> use[u].till]]
           /\ UNCHANGED <<lost, failures>>
  <2>1. record'[a].serial = use[u].serial /\ \A b \in Accounts \ {a} : record'[b] = record[b]
    BY <1>0, <1>3 DEF TokenInv, TokensTypeOK
  <2>2. use[u].serial = last[a]
    <3>1. a \in Rotating \/ (use[u].serial <= last[a] /\ last[a] = 0 /\ use[u].serial \in Nat)
      BY <1>0 DEF TokenInv, UsersOK, SerialsOK, TokensTypeOK
    <3> QED
      BY <1>0, <3>1 DEF TokenInv, UsersOK
  <2>3. TokensTypeOK'
    BY <1>0, <1>3 DEF TokenInv, TokensTypeOK, Tokens
  <2>4. SerialsOK'
    BY <1>0, <2>1, <2>2 DEF TokenInv, SerialsOK, TokensTypeOK
  <2>5. UsersOK'
    BY <1>0, <1>1, <1>2, <2>1 DEF TokenInv, UsersOK, TokensTypeOK
  <2>6. RefreshTokenIsKept'
    BY <1>0, <1>2, <1>3, <2>1, <2>2 DEF TokenInv, RefreshTokenIsKept
  <2> QED
    BY <2>3, <2>4, <2>5, <2>6 DEF TokenInv
<1>4. CASE Fail /\ lost' = lost \cup {a} /\ UNCHANGED record
  <2>1. failures' \in Nat
    BY <1>4, FailCounts DEF TokenInv
  <2>2. TokensTypeOK'
    BY <1>0, <1>4, <2>1 DEF TokenInv, TokensTypeOK
  <2>3. SerialsOK' /\ UsersOK'
    BY <1>0, <1>2, <1>4 DEF TokenInv, SerialsOK, UsersOK, TokensTypeOK
  <2>4. RefreshTokenIsKept'
    BY <1>0, <1>2, <1>4 DEF TokenInv, RefreshTokenIsKept
  <2> QED
    BY <2>2, <2>3, <2>4 DEF TokenInv
<1> QED
  BY <1>0, <1>3, <1>4 DEF Store

\* A user that is done, or dies, leaves the tokens as they are; what it had not
\* written is lost.
LEMMA ReleaseKeeps ==
    ASSUME TokenInv, NEW u \in Users,
           use' = [use EXCEPT ![u] = Idle], lost' = lost \cup LostBy(u),
           UNCHANGED <<now, record, last>>, failures' \in Nat
    PROVE  TokenInv'
<1>1. use'[u] = Idle /\ \A v \in Users \ {u} : use'[v] = use[v]
  BY DEF TokenInv, TokensTypeOK
<1>2. Idle.step = "idle" /\ Idle \in [step : {"idle", "refresh", "store", "have"},
                             account : Accounts \cup {NoAccount}, serial : Nat, till : Nat]
  BY DEF Idle
<1>3. LostBy(u) \subseteq Accounts
  BY DEF TokenInv, TokensTypeOK, LostBy
<1>4. TokensTypeOK'
  BY <1>1, <1>2, <1>3 DEF TokenInv, TokensTypeOK
<1>5. SerialsOK' /\ UsersOK'
  BY <1>1, <1>2 DEF TokenInv, SerialsOK, UsersOK
<1>6. RefreshTokenIsKept'
  BY <1>1, <1>2 DEF TokenInv, RefreshTokenIsKept, LostBy
<1> QED
  BY <1>4, <1>5, <1>6 DEF TokenInv

\* Other steps.
LEMMA TokensUnchanged ==
    ASSUME TokenInv, now' \in Nat, failures' \in Nat, UNCHANGED <<record, last, use, lost>>
    PROVE  TokenInv'
BY DEF TokenInv, TokensTypeOK, SerialsOK, UsersOK, RefreshTokenIsKept

-----------------------------------------------------------------------------
(* Passes *)

\* A watch is renewed within its hour, with the token of its renewal in hand.
PassOK ==
    /\ passAt \in {now, now + 1}
    /\ passAt = now => due = {} /\ current = NoWatch
    /\ called => /\ current # NoWatch /\ expires[current] = now + Ttl
                 /\ use[Renewer].step = "have"
    /\ \A w \in Watches : w \in due \/ w = current => expires[w] > 0

\* No record promises more than the provider, also not an older one written back.
RecordsOK ==
    \A w \in Watches :
        /\ recorded[w] <= expires[w] /\ seen[w] <= expires[w] /\ expires[w] <= now + Ttl
        /\ expires[w] > 0 /\ w \notin dropped => recorded[w] > 0

\* The pass of this hour has dealt with w.
PassedBy(w) == passAt > now /\ w \notin due /\ (current = w => called)

Passes(w) == IF PassedBy(w) THEN 1 ELSE 0

\* One failed renewal for every pass since w had Threshold hours left.
FailsOK ==
    \A w \in Watches : expires[w] > 0 /\ w \notin dropped =>
        fails[w] + expires[w] >= now + Threshold + Passes(w)

RenewalInv == RenewalTypeOK /\ TokenInv /\ PassOK /\ RecordsOK /\ FailsOK

LEMMA RenewalInitially == RenewalInit => RenewalInv
<1> SUFFICES ASSUME RenewalInit PROVE RenewalInv
  OBVIOUS
<1> USE TokensAssumption, WatchesAssumption, TtlAssumption DEF RenewalInit, TokensInit
<1>1. TokensTypeOK
  BY DEF TokensTypeOK, Tokens, Idle
<1>2. SerialsOK /\ UsersOK /\ RefreshTokenIsKept
  BY DEF SerialsOK, UsersOK, RefreshTokenIsKept, Idle
<1>3. RenewalTypeOK
  BY <1>1 DEF RenewalTypeOK
<1>4. PassOK /\ RecordsOK
  BY DEF PassOK, RecordsOK
<1>5. FailsOK
  BY DEF FailsOK, Passes, PassedBy
<1> QED
  BY <1>1, <1>2, <1>3, <1>4, <1>5 DEF RenewalInv, TokenInv

\* A step of an agent's tools touches only the tokens.
LEMMA AgentStepKeeps ==
    ASSUME RenewalInv, NEW u \in Agents, Agent(u) \/ AgentDone(u) \/ AgentDies(u),
           UNCHANGED watchVars
    PROVE  RenewalInv'
<1>0. u \in Users /\ u # Renewer /\ TokenInv /\ TokensTypeOK
  BY DEF Agents, RenewalInv, TokenInv
<1>1. TokenInv' /\ now' = now /\ use'[Renewer] = use[Renewer]
  <2>1. CASE Agent(u)
    <3>1. TokenInv'
      BY <1>0, <2>1, ObtainKeeps, RefreshKeeps, StoreKeeps DEF Agent
    <3>2. now' = now /\ use'[Renewer] = use[Renewer]
      BY <1>0, <2>1, WatchesAssumption DEF Agent, Obtain, Refresh, Store, TokensTypeOK
    <3> QED
      BY <3>1, <3>2
  <2>2. CASE AgentDone(u)
    <3>1. lost' = lost \cup LostBy(u) /\ failures' \in Nat
      BY <1>0, <2>2 DEF AgentDone, LostBy, TokensTypeOK
    <3>2. use' = [use EXCEPT ![u] = Idle] /\ UNCHANGED <<now, record, last>>
      BY <2>2 DEF AgentDone
    <3> QED
      BY <1>0, <3>1, <3>2, ReleaseKeeps, WatchesAssumption DEF TokensTypeOK
  <2>3. CASE AgentDies(u)
    <3>1. use' = [use EXCEPT ![u] = Idle] /\ UNCHANGED <<now, record, last>>
          /\ lost' = lost \cup LostBy(u) /\ failures' \in Nat
      BY <1>0, <2>3, FailCounts DEF AgentDies
    <3> QED
      BY <1>0, <3>1, ReleaseKeeps, WatchesAssumption DEF TokensTypeOK
  <2> QED
    BY <2>1, <2>2, <2>3
<1>2. RenewalTypeOK'
  BY <1>1 DEF RenewalInv, RenewalTypeOK, TokenInv, watchVars, passVars
<1>3. PassOK' /\ RecordsOK' /\ FailsOK'
  BY <1>1 DEF RenewalInv, PassOK, RecordsOK, FailsOK, Passes, PassedBy, watchVars, passVars
<1> QED
  BY <1>1, <1>2, <1>3 DEF RenewalInv

\* A watch that is not due has more than Threshold hours left, on record and so
\* with its provider.
LEMMA BeginPassKeeps == RenewalInv /\ BeginPass => RenewalInv'
<1> SUFFICES ASSUME RenewalInv, BeginPass PROVE RenewalInv'
  OBVIOUS
<1>0. TokensTypeOK /\ RenewalTypeOK /\ now \in Nat
  BY DEF RenewalInv, RenewalTypeOK, TokensTypeOK
<1>1. TokenInv'
  BY <1>0, TokensUnchanged DEF RenewalInv, BeginPass, tokenVars, TokensTypeOK
<1>2. RenewalTypeOK'
  BY <1>0, <1>1 DEF RenewalTypeOK, BeginPass, TokenInv, Expiring
<1>3. PassOK'
  <2>1. \A w \in Expiring : expires[w] > 0
    BY <1>0 DEF RenewalInv, RecordsOK, RenewalTypeOK, Expiring, ExpiresSoon
  <2> QED
    BY <1>0, <2>1, WatchesAssumption DEF RenewalInv, PassOK, BeginPass, tokenVars
<1>4. RecordsOK'
  BY DEF RenewalInv, RecordsOK, BeginPass, tokenVars
<1>5. FailsOK'
  <2> SUFFICES ASSUME NEW w \in Watches, expires[w] > 0, w \notin dropped
               PROVE  fails[w] + expires[w] >= now + Threshold + Passes(w)'
    BY DEF FailsOK, BeginPass, tokenVars
  <2>1. /\ fails[w] \in Nat /\ expires[w] \in Nat /\ recorded[w] \in Nat /\ Threshold \in Nat
        /\ recorded[w] > 0 /\ recorded[w] <= expires[w]
    BY <1>0, TtlAssumption DEF RenewalInv, RenewalTypeOK, RecordsOK
  <2>2. CASE w \in Expiring
    <3>1. w \in due' /\ Passes(w)' = 0
      BY <2>2 DEF BeginPass, Passes, PassedBy
    <3>2. ~PassedBy(w)
      BY <1>0 DEF PassedBy, BeginPass
    <3> QED
      BY <3>1, <3>2 DEF RenewalInv, FailsOK, Passes
  <2>3. CASE w \notin Expiring
    <3>1. recorded[w] > now + Threshold
      BY <1>0, <2>1, <2>3 DEF Expiring, ExpiresSoon
    <3>2. Passes(w)' \in {0, 1}
      BY DEF Passes
    <3> QED
      BY <1>0, <2>1, <3>1, <3>2
  <2> QED
    BY <2>2, <2>3
<1> QED
  BY <1>1, <1>2, <1>3, <1>4, <1>5 DEF RenewalInv

LEMMA BeginRenewalKeeps ==
    ASSUME RenewalInv, NEW w \in Watches, BeginRenewal(w)
    PROVE  RenewalInv'
<1>0. TokensTypeOK /\ RenewalTypeOK /\ AccountOf[w] \in Accounts /\ w # NoWatch
  BY WatchesAssumption DEF RenewalInv, RenewalTypeOK
<1>1. TokenInv' /\ now' = now
  BY <1>0, ObtainKeeps, WatchesAssumption DEF RenewalInv, BeginRenewal, Obtain
<1>2. passAt > now
  BY <1>0 DEF RenewalInv, PassOK, BeginRenewal, RenewalTypeOK, TokensTypeOK
<1>3. RenewalTypeOK'
  BY <1>0, <1>1 DEF RenewalTypeOK, BeginRenewal, TokenInv
<1>4. PassOK'
  BY <1>0, <1>1, <1>2 DEF RenewalInv, PassOK, BeginRenewal, RenewalTypeOK, TokensTypeOK
<1>5. RecordsOK'
  BY <1>1 DEF RenewalInv, RecordsOK, BeginRenewal
<1>6. \A v \in Watches : Passes(v)' = Passes(v)
  BY <1>0, <1>1, WatchesAssumption DEF Passes, PassedBy, BeginRenewal
<1>7. FailsOK'
  BY <1>1, <1>6 DEF RenewalInv, FailsOK, BeginRenewal
<1> QED
  BY <1>1, <1>3, <1>4, <1>5, <1>7 DEF RenewalInv

LEMMA RenewerTokenKeeps == RenewalInv /\ RenewerToken => RenewalInv'
<1> SUFFICES ASSUME RenewalInv, RenewerToken PROVE RenewalInv'
  OBVIOUS
<1>0. TokensTypeOK /\ Renewer \in Users
  BY WatchesAssumption DEF RenewalInv, TokenInv
<1>1. TokenInv' /\ now' = now
  BY <1>0, RefreshKeeps, StoreKeeps DEF RenewalInv, RenewerToken, Refresh, Store
<1>2. ~called
  BY <1>0 DEF RenewalInv, PassOK, RenewerToken, Refresh, Store
<1>3. RenewalTypeOK'
  BY <1>1 DEF RenewalInv, RenewalTypeOK, TokenInv, RenewerToken, watchVars, passVars
<1>4. PassOK' /\ RecordsOK' /\ FailsOK'
  BY <1>1, <1>2 DEF RenewalInv, PassOK, RecordsOK, FailsOK, Passes, PassedBy, RenewerToken,
       watchVars, passVars
<1> QED
  BY <1>1, <1>3, <1>4 DEF RenewalInv

\* A renewal ends: the token is given back.
LEMMA RenewedKeeps ==
    ASSUME RenewalInv, use[Renewer].step = "have", Renewed, failures' \in Nat
    PROVE  TokenInv'
<1>1. lost' = lost \cup LostBy(Renewer) /\ use' = [use EXCEPT ![Renewer] = Idle]
      /\ UNCHANGED <<now, record, last>>
  BY DEF LostBy, Renewed
<1> QED
  BY <1>1, ReleaseKeeps, WatchesAssumption DEF RenewalInv

LEMMA CallKeeps == RenewalInv /\ Call => RenewalInv'
<1> SUFFICES ASSUME RenewalInv, Call PROVE RenewalInv'
  OBVIOUS
<1>0. /\ TokensTypeOK /\ RenewalTypeOK /\ TokenInv
      /\ current \in Watches /\ use[Renewer].step = "have" /\ ~called
      /\ now \in Nat /\ Ttl \in Nat /\ Threshold \in Nat /\ Ttl > Threshold
      /\ passAt = now + 1 /\ current # NoWatch
  BY WatchesAssumption, TtlAssumption
     DEF RenewalInv, TokenInv, RenewalTypeOK, PassOK, Call, TokensTypeOK
<1>1. CASE /\ expires' = [expires EXCEPT ![current] = now + Ttl]
           /\ fails' = [fails EXCEPT ![current] = 0]
           /\ called' = TRUE /\ UNCHANGED <<tokenVars, current>>
  <2>1. UNCHANGED <<recorded, passAt, seen, due, dropped, current, now, use>>
    BY <1>1 DEF Call, tokenVars
  <2>2. TokenInv'
    BY <1>0, <1>1, TokensUnchanged DEF tokenVars, TokensTypeOK
  <2>3. RenewalTypeOK'
    BY <1>0, <1>1, <2>1, <2>2 DEF RenewalTypeOK, TokenInv
  <2>4. PassOK'
    BY <1>0, <1>1, <2>1 DEF RenewalInv, RenewalTypeOK, PassOK
  <2>5. \A w \in Watches : expires[w] <= expires'[w] /\ expires'[w] <= now + Ttl
    BY <1>0, <1>1 DEF RenewalInv, RecordsOK, RenewalTypeOK
  <2>6. RecordsOK'
    <3> SUFFICES ASSUME NEW w \in Watches
                 PROVE  /\ recorded[w] <= expires'[w] /\ seen[w] <= expires'[w]
                        /\ expires'[w] <= now + Ttl
                        /\ expires'[w] > 0 /\ w \notin dropped => recorded[w] > 0
      BY <2>1 DEF RecordsOK
    <3>1. /\ recorded[w] \in Nat /\ seen[w] \in Nat /\ expires[w] \in Nat /\ expires'[w] \in Nat
          /\ recorded[w] <= expires[w] /\ seen[w] <= expires[w]
      BY <1>0, <2>3 DEF RenewalInv, RecordsOK, RenewalTypeOK
    <3>2. expires'[w] > 0 => expires[w] > 0
      BY <1>0, <1>1 DEF RenewalInv, RenewalTypeOK, PassOK, RecordsOK
    <3> QED
      BY <2>5, <3>1, <3>2 DEF RenewalInv, RecordsOK
  <2>7. FailsOK'
    <3> SUFFICES ASSUME NEW w \in Watches, expires'[w] > 0, w \notin dropped
                 PROVE  fails'[w] + expires'[w] >= now + Threshold + Passes(w)'
      BY <2>1 DEF FailsOK
    <3>1. CASE w = current
      <4>1. fails'[w] = 0 /\ expires'[w] = now + Ttl /\ Passes(w)' \in {0, 1}
        BY <1>0, <1>1, <3>1 DEF RenewalTypeOK, Passes
      <4> QED
        BY <1>0, <4>1
    <3>2. CASE w # current
      <4>1. fails'[w] = fails[w] /\ expires'[w] = expires[w] /\ Passes(w)' = Passes(w)
        BY <1>1, <2>1, <3>2, <1>0 DEF RenewalTypeOK, Passes, PassedBy
      <4> QED
        BY <4>1 DEF RenewalInv, FailsOK
    <3> QED
      BY <3>1, <3>2
  <2> QED
    BY <2>2, <2>3, <2>4, <2>6, <2>7 DEF RenewalInv
<1>2. CASE /\ IF Renewable(current) THEN Fail ELSE UNCHANGED failures
           /\ fails' = [fails EXCEPT ![current] = @ + 1]
           /\ Renewed /\ UNCHANGED expires
  <2>1. /\ UNCHANGED <<recorded, passAt, seen, due, dropped, expires, now>>
        /\ current' = NoWatch /\ called' = FALSE
    BY <1>2 DEF Call, Renewed
  <2>2. TokenInv'
    BY <1>0, <1>2, RenewedKeeps, FailCounts DEF TokensTypeOK
  <2>3. RenewalTypeOK'
    <3>1. fails' \in [Watches -> Nat]
      BY <1>0, <1>2 DEF RenewalTypeOK
    <3> QED
      BY <1>0, <2>1, <2>2, <3>1 DEF RenewalTypeOK, TokenInv
  <2>4. PassOK' /\ RecordsOK'
    <3>1. PassOK'
      BY <1>0, <2>1, WatchesAssumption DEF RenewalInv, PassOK
    <3> QED
      BY <2>1, <3>1 DEF RenewalInv, RecordsOK
  <2>5. FailsOK'
    <3> SUFFICES ASSUME NEW w \in Watches, expires[w] > 0, w \notin dropped
                 PROVE  fails'[w] + expires[w] >= now + Threshold + Passes(w)'
      BY <2>1 DEF FailsOK
    <3>1. fails[w] \in Nat /\ expires[w] \in Nat
          /\ fails[w] + expires[w] >= now + Threshold + Passes(w)
      BY <1>0 DEF RenewalInv, FailsOK, RenewalTypeOK
    <3>2. CASE w = current
      <4>1. fails'[w] = fails[w] + 1 /\ Passes(w) = 0 /\ Passes(w)' \in {0, 1}
        BY <1>0, <1>2, <3>2 DEF RenewalTypeOK, Passes, PassedBy
      <4> QED
        BY <1>0, <3>1, <4>1
    <3>3. CASE w # current
      <4>1. fails'[w] = fails[w] /\ Passes(w)' = Passes(w)
        BY <1>0, <1>2, <2>1, <3>3, WatchesAssumption DEF RenewalTypeOK, Passes, PassedBy
      <4> QED
        BY <3>1, <4>1
    <3> QED
      BY <3>2, <3>3
  <2> QED
    BY <2>2, <2>3, <2>4, <2>5 DEF RenewalInv
<1> QED
  BY <1>1, <1>2 DEF Call

LEMMA WriteKeeps == RenewalInv /\ Write => RenewalInv'
<1> SUFFICES ASSUME RenewalInv, Write PROVE RenewalInv'
  OBVIOUS
<1>0. /\ TokensTypeOK /\ RenewalTypeOK /\ TokenInv /\ called
      /\ current \in Watches /\ use[Renewer].step = "have" /\ expires[current] = now + Ttl
      /\ now \in Nat /\ Ttl \in Nat /\ Threshold \in Nat /\ Ttl > Threshold
      /\ passAt = now + 1 /\ current # NoWatch
  BY WatchesAssumption, TtlAssumption
     DEF RenewalInv, TokenInv, RenewalTypeOK, PassOK, Write, TokensTypeOK
<1>1. /\ UNCHANGED <<expires, passAt, seen, due, fails, now>>
      /\ current' = NoWatch /\ called' = FALSE /\ dropped \subseteq dropped'
      /\ dropped' \subseteq Watches
  BY <1>0 DEF Write, Renewed, RenewalTypeOK
<1>2. failures' \in Nat
  BY <1>0, FailCounts DEF Write, TokensTypeOK
<1>3. TokenInv'
  BY <1>0, <1>2, RenewedKeeps DEF Write
<1>4. /\ recorded' \in [Watches -> Nat]
      /\ \A w \in Watches : recorded'[w] <= expires[w]
      /\ \A w \in Watches : recorded[w] > 0 /\ w \notin dropped' => recorded'[w] > 0
  <2>1. CASE UNCHANGED <<recorded, dropped>>
    BY <2>1, <1>0 DEF RenewalInv, RecordsOK, RenewalTypeOK
  <2>2. CASE /\ recorded' = NewRecord(current)
             /\ dropped' = dropped \cup {v \in Watches : recorded[v] > 0 /\ recorded'[v] = 0}
    <3>1. recorded' \in [Watches -> Nat]
      BY <1>0, <2>2 DEF NewRecord, RenewalTypeOK
    <3>2. \A w \in Watches : recorded'[w] \in {recorded[w], seen[w]} \/ (w = current /\ recorded'[w] = now + Ttl)
      BY <2>2 DEF NewRecord
    <3>3. \A w \in Watches : recorded'[w] <= expires[w]
      BY <1>0, <3>2 DEF RenewalInv, RecordsOK
    <3>4. \A w \in Watches : recorded[w] > 0 /\ w \notin dropped' => recorded'[w] > 0
      BY <2>2, <3>1
    <3> QED
      BY <3>1, <3>3, <3>4
  <2> QED
    BY <2>1, <2>2 DEF Write
<1>5. RenewalTypeOK'
  BY <1>0, <1>1, <1>3, <1>4 DEF RenewalTypeOK, TokenInv
<1>6. PassOK'
  BY <1>0, <1>1, WatchesAssumption DEF RenewalInv, PassOK
<1>7. RecordsOK'
  BY <1>1, <1>4 DEF RenewalInv, RecordsOK
<1>8. \A w \in Watches : Passes(w)' = Passes(w)
  BY <1>0, <1>1, WatchesAssumption DEF Passes, PassedBy
<1>9. FailsOK'
  BY <1>1, <1>8 DEF RenewalInv, FailsOK
<1> QED
  BY <1>3, <1>5, <1>6, <1>7, <1>9 DEF RenewalInv

\* The process dies: every watch it had still to renew counts one more failure.
LEMMA RenewerDiesKeeps == RenewalInv /\ RenewerDies => RenewalInv'
<1> SUFFICES ASSUME RenewalInv, RenewerDies PROVE RenewalInv'
  OBVIOUS
<1>0. /\ TokensTypeOK /\ RenewalTypeOK /\ TokenInv
      /\ now \in Nat /\ Threshold \in Nat /\ passAt = now + 1
  BY TtlAssumption DEF RenewalInv, TokenInv, RenewalTypeOK, PassOK, RenewerDies, TokensTypeOK
<1>1. /\ UNCHANGED <<now, expires, recorded, passAt, seen, dropped>>
      /\ due' = {} /\ current' = NoWatch /\ called' = FALSE
  BY DEF RenewerDies
<1>2. TokenInv'
  BY <1>0, FailCounts, ReleaseKeeps, WatchesAssumption DEF RenewerDies
<1>3. RenewalTypeOK'
  <2>1. fails' \in [Watches -> Nat]
    BY <1>0 DEF RenewalTypeOK, RenewerDies
  <2> QED
    BY <1>0, <1>1, <1>2, <2>1 DEF RenewalTypeOK, TokenInv
<1>4. PassOK' /\ RecordsOK'
  <2>1. PassOK'
    BY <1>0, <1>1, WatchesAssumption DEF PassOK
  <2> QED
    BY <1>1, <2>1 DEF RenewalInv, RecordsOK
<1>5. FailsOK'
  <2> SUFFICES ASSUME NEW w \in Watches, expires[w] > 0, w \notin dropped
               PROVE  fails'[w] + expires[w] >= now + Threshold + Passes(w)'
    BY <1>1 DEF FailsOK
  <2>1. fails[w] \in Nat /\ expires[w] \in Nat
        /\ fails[w] + expires[w] >= now + Threshold + Passes(w)
    BY <1>0 DEF RenewalInv, FailsOK, RenewalTypeOK
  <2>2. CASE w \in due \/ (w = current /\ ~called)
    <3>1. fails'[w] = fails[w] + 1 /\ Passes(w) = 0 /\ Passes(w)' \in {0, 1}
      BY <2>2 DEF RenewerDies, Passes, PassedBy
    <3> QED
      BY <1>0, <2>1, <3>1
  <2>3. CASE ~(w \in due \/ (w = current /\ ~called))
    <3>1. fails'[w] = fails[w]
      BY <1>0, <2>1, <2>3 DEF RenewerDies
    <3>2. Passes(w) = 1 /\ Passes(w)' \in {0, 1}
      BY <1>0, <2>3 DEF Passes, PassedBy
    <3> QED
      BY <1>0, <2>1, <3>1, <3>2
  <2> QED
    BY <2>2, <2>3
<1> QED
  BY <1>2, <1>3, <1>4, <1>5 DEF RenewalInv

LEMMA NoPassKeeps == RenewalInv /\ NoPass => RenewalInv'
<1> SUFFICES ASSUME RenewalInv, NoPass PROVE RenewalInv'
  OBVIOUS
<1>0. /\ TokensTypeOK /\ RenewalTypeOK /\ TokenInv
      /\ now \in Nat /\ Threshold \in Nat /\ passAt = now /\ passAt' = now + 1
      /\ due = {} /\ current = NoWatch
  BY TtlAssumption DEF RenewalInv, TokenInv, RenewalTypeOK, PassOK, NoPass, TokensTypeOK
<1>1. UNCHANGED <<now, record, last, use, lost, expires, recorded, seen, due, current, called, dropped>>
  BY DEF NoPass
<1>2. TokenInv'
  BY <1>0, <1>1, FailCounts, TokensUnchanged DEF NoPass
<1>3. RenewalTypeOK'
  BY <1>0, <1>1, <1>2 DEF RenewalTypeOK, TokenInv, NoPass
<1>4. PassOK' /\ RecordsOK'
  BY <1>0, <1>1 DEF RenewalInv, PassOK, RecordsOK
<1>5. FailsOK'
  <2> SUFFICES ASSUME NEW w \in Watches, expires[w] > 0, w \notin dropped
               PROVE  fails'[w] + expires[w] >= now + Threshold + Passes(w)'
    BY <1>1 DEF FailsOK
  <2>1. /\ fails[w] \in Nat /\ expires[w] \in Nat /\ recorded[w] \in Nat
        /\ recorded[w] > 0 /\ recorded[w] <= expires[w]
        /\ fails[w] + expires[w] >= now + Threshold + Passes(w)
    BY <1>0 DEF RenewalInv, FailsOK, RecordsOK, RenewalTypeOK
  <2>2. Passes(w) = 0 /\ Passes(w)' \in {0, 1}
    BY <1>0 DEF Passes, PassedBy
  <2>3. fails'[w] = fails[w] + (IF w \in Expiring THEN 1 ELSE 0)
    BY DEF NoPass
  <2>4. w \in Expiring \/ recorded[w] > now + Threshold
    BY <1>0, <2>1 DEF Expiring, ExpiresSoon
  <2> QED
    BY <1>0, <2>1, <2>2, <2>3, <2>4
<1> QED
  BY <1>2, <1>3, <1>4, <1>5 DEF RenewalInv

LEMMA AddWatchKeeps ==
    ASSUME RenewalInv, NEW w \in Watches, AddWatch(w)
    PROVE  RenewalInv'
<1>0. /\ TokensTypeOK /\ RenewalTypeOK /\ TokenInv
      /\ now \in Nat /\ Threshold \in Nat /\ Ttl \in Nat /\ Ttl > Threshold
  BY TtlAssumption DEF RenewalInv, TokenInv, TokensTypeOK
<1>1. UNCHANGED <<tokenVars, now, use, passAt, seen, due, current, called, fails, dropped>>
  BY DEF AddWatch, passVars, tokenVars
<1>2. TokenInv'
  BY <1>0, <1>1, TokensUnchanged DEF tokenVars, TokensTypeOK
<1>3. RenewalTypeOK'
  BY <1>0, <1>1, <1>2 DEF RenewalTypeOK, TokenInv, AddWatch
<1>4. PassOK'
  <2>1. called => current # w
    BY <1>0 DEF RenewalInv, PassOK, AddWatch
  <2>2. called => expires'[current] = expires[current]
    BY <1>0, <2>1 DEF AddWatch, RenewalTypeOK, RenewalInv, PassOK
  <2> QED
    BY <1>0, <1>1, <2>2 DEF RenewalInv, PassOK, AddWatch, RenewalTypeOK
<1>5. RecordsOK'
  BY <1>0, <1>1 DEF RenewalInv, RecordsOK, AddWatch, RenewalTypeOK
<1>6. FailsOK'
  <2> SUFFICES ASSUME NEW v \in Watches, expires'[v] > 0, v \notin dropped
               PROVE  fails[v] + expires'[v] >= now + Threshold + Passes(v)'
    BY <1>1 DEF FailsOK
  <2>1. fails[v] \in Nat /\ Passes(v)' = Passes(v) /\ Passes(v) \in {0, 1}
    BY <1>0, <1>1 DEF RenewalTypeOK, Passes, PassedBy
  <2>2. CASE v = w
    BY <1>0, <2>1, <2>2 DEF AddWatch, RenewalTypeOK
  <2>3. CASE v # w
    BY <1>0, <2>1, <2>3 DEF AddWatch, RenewalTypeOK, RenewalInv, FailsOK
  <2> QED
    BY <2>2, <2>3
<1> QED
  BY <1>2, <1>3, <1>4, <1>5, <1>6 DEF RenewalInv

\* An hour ends when its pass has dealt with every watch.
LEMMA TickKeeps == RenewalInv /\ Tick => RenewalInv'
<1> SUFFICES ASSUME RenewalInv, Tick PROVE RenewalInv'
  OBVIOUS
<1>0. /\ TokensTypeOK /\ RenewalTypeOK /\ TokenInv
      /\ now \in Nat /\ Threshold \in Nat /\ Ttl \in Nat
      /\ passAt = now + 1 /\ due = {} /\ current = NoWatch /\ ~called
  BY TtlAssumption DEF RenewalInv, TokenInv, RenewalTypeOK, PassOK, Tick, TokensTypeOK
<1>1. /\ UNCHANGED <<record, last, use, lost, failures, expires, recorded, passAt, due,
                     current, called, fails, dropped>>
      /\ now' = now + 1 /\ seen' = [w \in Watches |-> 0]
  BY DEF Tick
<1>2. TokenInv'
  BY <1>0, <1>1, TokensUnchanged DEF TokensTypeOK
<1>3. RenewalTypeOK'
  BY <1>0, <1>1, <1>2 DEF RenewalTypeOK, TokenInv
<1>4. PassOK'
  BY <1>0, <1>1, WatchesAssumption DEF RenewalInv, PassOK
<1>5. RecordsOK'
  BY <1>0, <1>1 DEF RenewalInv, RecordsOK, RenewalTypeOK
<1>6. \A w \in Watches : Passes(w) = 1 /\ Passes(w)' = 0
  BY <1>0, <1>1, WatchesAssumption DEF Passes, PassedBy
<1>7. FailsOK'
  BY <1>0, <1>1, <1>6 DEF RenewalInv, FailsOK, RenewalTypeOK
<1> QED
  BY <1>2, <1>3, <1>4, <1>5, <1>7 DEF RenewalInv

LEMMA RenewalStepKeeps == RenewalInv /\ [RenewalNext]_renewalVars => RenewalInv'
<1> SUFFICES ASSUME RenewalInv, [RenewalNext]_renewalVars PROVE RenewalInv'
  OBVIOUS
<1>1. CASE UNCHANGED renewalVars
  BY <1>1 DEF renewalVars, tokenVars, watchVars, passVars, RenewalInv, RenewalTypeOK, TokenInv,
       TokensTypeOK, SerialsOK, UsersOK, RefreshTokenIsKept, PassOK, RecordsOK, FailsOK, Passes,
       PassedBy
<1>2. CASE RenewalNext
  BY <1>2, AgentStepKeeps, BeginPassKeeps, BeginRenewalKeeps, RenewerTokenKeeps, CallKeeps,
     WriteKeeps, RenewerDiesKeeps, NoPassKeeps, AddWatchKeeps, TickKeeps DEF RenewalNext
<1> QED
  BY <1>1, <1>2

LEMMA RenewalInvariant == RenewalSpec => []RenewalInv
BY RenewalInitially, RenewalStepKeeps, PTL DEF RenewalSpec

-----------------------------------------------------------------------------
(* Theorems *)

\* The records of tokens and watches, and the state of every user and pass, are
\* well formed.
THEOREM RenewalTypes == RenewalSpec => []RenewalTypeOK
<1>1. RenewalInv => RenewalTypeOK
  BY DEF RenewalInv
<1> QED
  BY <1>1, RenewalInvariant, PTL

\* However many users refresh an account's tokens at once, the refresh token the
\* provider accepts is on record, or about to be written by one user, unless that
\* write failed or its writer died.
THEOREM RefreshTokensAreKept == RenewalSpec => []RefreshTokenIsKept
<1>1. RenewalInv => RefreshTokenIsKept
  BY DEF RenewalInv, TokenInv
<1> QED
  BY <1>1, RenewalInvariant, PTL

\* A watch runs out only when its renewal failed in more than Threshold passes,
\* or an array written back took it from the record.
THEOREM WatchesLapseOnlyByFailures == RenewalSpec => []LapsedOnlyAfterFailures
<1>1. RenewalInv => LapsedOnlyAfterFailures
  <2> SUFFICES ASSUME RenewalInv, NEW w \in Watches, Lapsed(w), w \notin dropped
               PROVE  fails[w] > Threshold
    BY DEF LapsedOnlyAfterFailures
  <2>1. fails[w] \in Nat /\ expires[w] \in Nat /\ now \in Nat /\ Threshold \in Nat
        /\ Passes(w) \in {0, 1}
    BY TtlAssumption DEF RenewalInv, RenewalTypeOK, TokensTypeOK, Passes
  <2>2. fails[w] + expires[w] >= now + Threshold + Passes(w)
    BY DEF RenewalInv, FailsOK, Lapsed
  <2> QED
    BY <2>1, <2>2 DEF Lapsed
<1> QED
  BY <1>1, RenewalInvariant, PTL

-----------------------------------------------------------------------------
(* Batches: the requests that are waited for are held, each at one place.  *)

Waits(r) == doing[r] = "waiting" /\ future[r] = "pending"

HeldOK ==
    /\ \A r \in Requests :
         Waits(r) <=> \/ \E i \in DOMAIN waiting : waiting[i] = r
                      \/ \E i \in left : taken[i] = r
    /\ \A i, j \in DOMAIN waiting : waiting[i] = waiting[j] => i = j
    /\ \A i, j \in left : taken[i] = taken[j] => i = j
    /\ \A i \in DOMAIN waiting, j \in left : waiting[i] # taken[j]
    /\ waiting # <<>> \/ left # {} => busy
    /\ Len(taken) <= BatchSize

\* A call that may ask again has a try left, and no more was applied for a call
\* than it had answers for.
TriesOK ==
    \A r \in Requests :
        /\ doing[r] \in {"idle", "waiting", "retrying"} => attempt[r] < Attempts
        /\ applied[r] <= attempt[r] + IF doing[r] = "waiting" /\ future[r] # "pending"
                                      THEN 1 ELSE 0

\* What was applied with its answer told is what the call has been told, or has
\* reported.
ToldOK ==
    \A r \in Requests :
        /\ future[r] = "applied" => applied[r] > 0
        /\ doing[r] = "idle" => applied[r] = 0
        /\ applied[r] > 0 /\ r \notin unanswered =>
             applied[r] = 1 /\ future[r] = "applied" /\ doing[r] \in {"waiting", "done"}
        /\ doing[r] = "done" =>
             future[r] = "applied" \/ (r \notin Bulk /\ future[r] = "throttled")

BatchInv == BatchTypeOK /\ HeldOK /\ TriesOK /\ ToldOK

LEMMA MinOfTwo ==
    ASSUME NEW a \in Nat, NEW b \in Nat
    PROVE  Min({a, b}) \in {a, b} /\ Min({a, b}) <= a /\ Min({a, b}) <= b
<1>1. \E x \in {a, b} : \A y \in {a, b} : x <= y
  OBVIOUS
<1> QED
  BY <1>1 DEF Min

\* The two ways to say where the requests are.
LEMMA HeldTwoWays ==
    ASSUME waiting \in Seq(Requests), taken \in Seq(Requests), left \subseteq DOMAIN taken
    PROVE  HeldOK <=> WaitingIsHeld
<1>1. \A p : p \in Held <=> \/ \E i \in DOMAIN waiting : p = <<"waiting", i>>
                            \/ \E i \in left : p = <<"taken", i>>
  BY DEF Held
<1>2. \A i : RequestAt(<<"waiting", i>>) = waiting[i] /\ RequestAt(<<"taken", i>>) = taken[i]
  BY DEF RequestAt
<1>3. \A r : (\E p \in Held : RequestAt(p) = r) <=>
               \/ \E i \in DOMAIN waiting : waiting[i] = r
               \/ \E i \in left : taken[i] = r
  <2> TAKE r
  <2>1. ASSUME NEW p \in Held, RequestAt(p) = r
        PROVE  \/ \E i \in DOMAIN waiting : waiting[i] = r
               \/ \E i \in left : taken[i] = r
    BY <1>1, <1>2, <2>1
  <2>2. ASSUME NEW i \in DOMAIN waiting, waiting[i] = r
        PROVE  \E p \in Held : RequestAt(p) = r
    <3>1. <<"waiting", i>> \in Held
      BY <1>1
    <3> QED
      BY <1>2, <2>2, <3>1
  <2>3. ASSUME NEW i \in left, taken[i] = r
        PROVE  \E p \in Held : RequestAt(p) = r
    <3>1. <<"taken", i>> \in Held
      BY <1>1
    <3> QED
      BY <1>2, <2>3, <3>1
  <2> QED
    BY <2>1, <2>2, <2>3
<1>4. (\A p, q \in Held : RequestAt(p) = RequestAt(q) => p = q) <=>
        /\ \A i, j \in DOMAIN waiting : waiting[i] = waiting[j] => i = j
        /\ \A i, j \in left : taken[i] = taken[j] => i = j
        /\ \A i \in DOMAIN waiting, j \in left : waiting[i] # taken[j]
  <2>1. ASSUME \A p, q \in Held : RequestAt(p) = RequestAt(q) => p = q
        PROVE  /\ \A i, j \in DOMAIN waiting : waiting[i] = waiting[j] => i = j
               /\ \A i, j \in left : taken[i] = taken[j] => i = j
               /\ \A i \in DOMAIN waiting, j \in left : waiting[i] # taken[j]
    <3>1. \A i \in DOMAIN waiting : <<"waiting", i>> \in Held
      BY <1>1
    <3>2. \A i \in left : <<"taken", i>> \in Held
      BY <1>1
    <3>3. \A i, j : /\ <<"waiting", i>> = <<"waiting", j>> => i = j
                    /\ <<"taken", i>> = <<"taken", j>> => i = j
                    /\ <<"waiting", i>> # <<"taken", j>>
      OBVIOUS
    <3> QED
      BY <1>2, <2>1, <3>1, <3>2, <3>3
  <2>2. ASSUME /\ \A i, j \in DOMAIN waiting : waiting[i] = waiting[j] => i = j
               /\ \A i, j \in left : taken[i] = taken[j] => i = j
               /\ \A i \in DOMAIN waiting, j \in left : waiting[i] # taken[j],
               NEW p \in Held, NEW q \in Held, RequestAt(p) = RequestAt(q)
        PROVE  p = q
    BY <1>1, <1>2, <2>2
  <2> QED
    BY <2>1, <2>2
<1>5. Held # {} <=> waiting # <<>> \/ left # {}
  <2>1. waiting # <<>> <=> \E i : i \in DOMAIN waiting
    <3>1. waiting # <<>> => 1 \in DOMAIN waiting
      OBVIOUS
    <3>2. \A i : i \in DOMAIN waiting => waiting # <<>>
      OBVIOUS
    <3> QED
      BY <3>1, <3>2
  <2> QED
    BY <1>1, <2>1
<1>6. \A i, j \in Chunk : TokenOf[taken[i]] = TokenOf[taken[j]]
  BY DEF Chunk
<1> QED
  BY <1>3, <1>4, <1>5, <1>6 DEF HeldOK, WaitingIsHeld, Waits

LEMMA BatchInitially == BatchInit => BatchInv
<1> SUFFICES ASSUME BatchInit
             PROVE  BatchInv
  OBVIOUS
<1> USE DEF BatchInit
<1>1. BatchTypeOK
  <2>1. /\ waiting \in Seq(Requests) /\ taken \in Seq(Requests) /\ left \subseteq DOMAIN taken
        /\ unanswered \subseteq Requests
    OBVIOUS
  <2>2. throttled \in 0 .. Attempts - 1 /\ 0 \in 0 .. Attempts
    BY BatchAssumption
  <2>3. doing \in [Requests -> Doings] /\ future \in [Requests -> Statuses \union {"pending", "error"}]
    BY DEF Doings
  <2> QED
    BY <2>1, <2>2, <2>3 DEF BatchTypeOK
<1>2. HeldOK
  <2>1. DOMAIN waiting = {} /\ Len(taken) = 0 /\ \A r \in Requests : ~Waits(r)
    BY DEF Waits
  <2> QED
    BY <2>1, BatchAssumption DEF HeldOK
<1>3. TriesOK /\ ToldOK
  BY BatchAssumption DEF TriesOK, ToldOK
<1> QED
  BY <1>1, <1>2, <1>3 DEF BatchInv

\* A call puts its request at the end of the queue.
LEMMA PutKeeps ==
    ASSUME BatchInv, NEW r \in Requests, Put(r)
    PROVE  BatchInv'
<1> USE DEF Put, BatchInv
<1>1. BatchTypeOK'
  BY DEF BatchTypeOK, Statuses, Doings
<1>2. TriesOK'
  BY DEF TriesOK, BatchTypeOK
<1>3. ToldOK'
  BY DEF ToldOK, BatchTypeOK
<1>4. HeldOK'
  <2>1. /\ DOMAIN waiting' = 1 .. Len(waiting) + 1 /\ DOMAIN waiting = 1 .. Len(waiting)
        /\ waiting'[Len(waiting) + 1] = r
        /\ \A i \in DOMAIN waiting : waiting'[i] = waiting[i]
        /\ Len(waiting) \in Nat
    BY DEF BatchTypeOK
  <2>2. ~Waits(r) /\ Waits(r)' /\ \A q \in Requests \ {r} : Waits(q)' <=> Waits(q)
    BY DEF Waits, BatchTypeOK
  <2>3. (\A i \in DOMAIN waiting : waiting[i] # r) /\ \A i \in left : taken[i] # r
    BY <2>2 DEF HeldOK
  <2>4. \A q \in Requests :
          (\E i \in DOMAIN waiting' : waiting'[i] = q) <=>
            q = r \/ \E i \in DOMAIN waiting : waiting[i] = q
    BY <2>1
  <2>5. \A q \in Requests :
          Waits(q)' <=> \/ \E i \in DOMAIN waiting' : waiting'[i] = q
                        \/ \E i \in left' : taken'[i] = q
    BY <2>2, <2>4 DEF HeldOK
  <2>6. \A i, j \in DOMAIN waiting' : waiting'[i] = waiting'[j] => i = j
    BY <2>1, <2>3 DEF HeldOK
  <2>7. \A i \in DOMAIN waiting', j \in left' : waiting'[i] # taken'[j]
    BY <2>1, <2>3 DEF HeldOK
  <2> QED
    BY <2>5, <2>6, <2>7 DEF HeldOK
<1> QED
  BY <1>1, <1>2, <1>3, <1>4

\* A call takes its answer: one that tries again has a try left.
LEMMA ResumeKeeps ==
    ASSUME BatchInv, NEW r \in Requests, Resume(r)
    PROVE  BatchInv'
<1> USE DEF BatchInv
<1>1. attempt[r] \in Nat /\ attempt[r] + 1 <= Attempts /\ Attempts \in Nat \ {0}
  BY BatchAssumption DEF Resume, TriesOK, BatchTypeOK
<1>2. PICK d \in {"retrying", "done", "failed"} :
        /\ doing' = [doing EXCEPT ![r] = d]
        /\ d = "retrying" => attempt[r] + 1 # Attempts /\ future[r] # "applied"
        /\ d = "done" => future[r] = "applied" \/ (r \notin Bulk /\ future[r] = "throttled")
        /\ d = "failed" => future[r] # "applied"
  BY DEF Resume, TriesAgain, LastTry, Outcome
<1>3. BatchTypeOK'
  BY <1>1, <1>2 DEF BatchTypeOK, Resume, Doings
<1>4. HeldOK'
  <2>1. \A q \in Requests : Waits(q)' <=> Waits(q)
    BY <1>2 DEF Waits, Resume, BatchTypeOK
  <2>2. UNCHANGED <<waiting, taken, left, busy>>
    BY DEF Resume
  <2> QED
    BY <2>1, <2>2 DEF HeldOK
<1>5. TriesOK'
  BY <1>1, <1>2 DEF TriesOK, Resume, BatchTypeOK
<1>6. ToldOK'
  BY <1>2 DEF ToldOK, Resume, BatchTypeOK
<1> QED
  BY <1>3, <1>4, <1>5, <1>6

\* The worker takes the requests at the front, and all of them.
LEMMA CollectKeeps == BatchInv /\ Collect => BatchInv'
<1> SUFFICES ASSUME BatchInv, Collect
             PROVE  BatchInv'
  OBVIOUS
<1> USE DEF BatchInv
<1>1. PICK n : /\ n = Min({BatchSize, Len(waiting)})
               /\ taken' = SubSeq(waiting, 1, n)
               /\ left' = 1 .. n
               /\ waiting' = SubSeq(waiting, n + 1, Len(waiting))
  BY DEF Collect
<1>2. n \in Nat /\ n <= BatchSize /\ n <= Len(waiting) /\ Len(waiting) \in Nat /\ BatchSize \in Nat
  <2>1. Len(waiting) \in Nat /\ BatchSize \in Nat
    BY BatchAssumption DEF BatchTypeOK
  <2> QED
    BY <1>1, <2>1, MinOfTwo
<1>3. /\ taken' \in Seq(Requests) /\ Len(taken') = n /\ DOMAIN taken' = 1 .. n
      /\ \A i \in 1 .. n : taken'[i] = waiting[i]
  <2>1. waiting \in Seq(Requests) /\ taken' = SubSeq(waiting, 1, n)
    BY <1>1 DEF BatchTypeOK
  <2> QED
    BY <1>2, <2>1
<1>4. /\ waiting' \in Seq(Requests) /\ DOMAIN waiting' = 1 .. (Len(waiting) - n)
      /\ \A i \in 1 .. (Len(waiting) - n) : waiting'[i] = waiting[i + n]
  <2>1. waiting \in Seq(Requests) /\ waiting' = SubSeq(waiting, n + 1, Len(waiting))
    BY <1>1 DEF BatchTypeOK
  <2> QED
    BY <1>2, <2>1
<1>5. BatchTypeOK'
  BY <1>1, <1>3, <1>4 DEF BatchTypeOK, Collect
<1>6. TriesOK' /\ ToldOK'
  BY DEF TriesOK, ToldOK, Collect
<1>7. HeldOK'
  <2>1. DOMAIN waiting = 1 .. Len(waiting) /\ left = {} /\ left' = 1 .. n
    BY <1>1 DEF BatchTypeOK, Collect
  <2>2. \A q : (\E i \in DOMAIN waiting : waiting[i] = q) <=>
                 \/ \E i \in DOMAIN waiting' : waiting'[i] = q
                 \/ \E i \in left' : taken'[i] = q
    <3>1. ASSUME NEW i \in 1 .. Len(waiting)
          PROVE  \/ i - n \in DOMAIN waiting' /\ waiting'[i - n] = waiting[i]
                 \/ i \in left' /\ taken'[i] = waiting[i]
      BY <1>2, <1>3, <1>4, <2>1
    <3>2. \A i \in DOMAIN waiting' : i + n \in DOMAIN waiting
      BY <1>2, <1>4, <2>1
    <3>3. \A i \in left' : i \in DOMAIN waiting
      BY <1>2, <2>1
    <3> QED
      BY <1>3, <1>4, <2>1, <3>1, <3>2, <3>3
  <2>3. \A q \in Requests : Waits(q)' <=> Waits(q)
    BY DEF Waits, Collect
  <2>4. \A i, j \in DOMAIN waiting' : waiting'[i] = waiting'[j] => i = j
    <3>1. \A i \in DOMAIN waiting' : i + n \in DOMAIN waiting /\ waiting'[i] = waiting[i + n]
      BY <1>2, <1>4, <2>1
    <3>2. \A i, j \in DOMAIN waiting' : waiting'[i] = waiting'[j] => i + n = j + n
      BY <3>1 DEF HeldOK
    <3> QED
      BY <1>2, <1>4, <3>2
  <2>5. \A i, j \in left' : taken'[i] = taken'[j] => i = j
    BY <1>2, <1>3, <2>1 DEF HeldOK
  <2>6. \A i \in DOMAIN waiting', j \in left' : waiting'[i] # taken'[j]
    <3>1. ASSUME NEW i \in DOMAIN waiting', NEW j \in left'
          PROVE  /\ i + n \in DOMAIN waiting /\ waiting'[i] = waiting[i + n]
                 /\ j \in DOMAIN waiting /\ taken'[j] = waiting[j] /\ i + n # j
      BY <1>2, <1>3, <1>4, <2>1
    <3> QED
      BY <3>1 DEF HeldOK
  <2>7. busy' /\ Len(taken') <= BatchSize
    BY <1>2, <1>3 DEF Collect
  <2>8. \A q \in Requests : Waits(q) <=> \E i \in DOMAIN waiting : waiting[i] = q
    BY <2>1 DEF HeldOK
  <2>9. \A q \in Requests :
          Waits(q)' <=> \/ \E i \in DOMAIN waiting' : waiting'[i] = q
                        \/ \E i \in left' : taken'[i] = q
    BY <2>2, <2>3, <2>8
  <2> QED
    BY <2>4, <2>5, <2>6, <2>7, <2>9 DEF HeldOK
<1> QED
  BY <1>5, <1>6, <1>7

LEMMA ThrottledKeeps == BatchInv /\ Throttled => BatchInv'
<1> SUFFICES ASSUME BatchInv, Throttled
             PROVE  BatchInv'
  OBVIOUS
<1> USE DEF BatchInv, Throttled
<1>1. BatchTypeOK'
  BY BatchAssumption DEF BatchTypeOK
<1>2. HeldOK' /\ TriesOK' /\ ToldOK'
  BY DEF HeldOK, TriesOK, ToldOK, Waits
<1> QED
  BY <1>1, <1>2

\* The provider applies the requests at the places in is and the calls are
\* answered, with a success exactly those that were applied and are told.
LEMMA AnswersKeep ==
    ASSUME BatchInv, NEW is \in SUBSET Chunk, NEW silent \in SUBSET is, NEW answer,
           \A i \in Chunk : /\ answer[i] \in Statuses \union {"error"}
                            /\ answer[i] = "applied" <=> i \in is \ silent,
           Applies(is, silent), AnswerAll(answer)
    PROVE  BatchInv'
<1> USE DEF BatchInv
<1>1. /\ Chunk \subseteq left /\ left \subseteq DOMAIN taken /\ taken \in Seq(Requests)
      /\ \A i \in Chunk : taken[i] \in Requests
  BY DEF Chunk, BatchTypeOK
<1>2. \A i \in Chunk : (CHOOSE j \in Chunk : taken[j] = taken[i]) = i
  BY <1>1 DEF HeldOK
<1>3. \A i \in Chunk : future'[taken[i]] = answer[i]
  BY <1>1, <1>2 DEF AnswerAll, Of
<1>4. \A r \in Requests : r \in Of(Chunk) \/ future'[r] = future[r]
  BY DEF AnswerAll
<1>5. \A r \in Requests : r \in Of(Chunk) <=> \E i \in Chunk : taken[i] = r
  BY DEF Of
<1>6. \A i \in Chunk : /\ i \in is => applied'[taken[i]] = applied[taken[i]] + 1
                       /\ i \notin is => applied'[taken[i]] = applied[taken[i]]
  BY <1>1 DEF Applies, Of, HeldOK
<1>7. \A r \in Requests : r \in Of(Chunk) \/ applied'[r] = applied[r]
  BY <1>5 DEF Applies, Of
<1>8. unanswered \subseteq unanswered' /\ \A i \in silent : taken[i] \in unanswered'
  BY DEF Applies, Of
<1>9. \A i \in Chunk : LET r == taken[i] IN
        /\ doing[r] = "waiting" /\ future[r] = "pending" /\ attempt[r] < Attempts
        /\ applied[r] \in Nat /\ applied[r] <= attempt[r]
        /\ r \in unanswered \/ applied[r] = 0
  <2> SUFFICES ASSUME NEW i \in Chunk, NEW r \in Requests, r = taken[i]
               PROVE  /\ doing[r] = "waiting" /\ future[r] = "pending" /\ attempt[r] < Attempts
                      /\ applied[r] \in Nat /\ applied[r] <= attempt[r]
                      /\ r \in unanswered \/ applied[r] = 0
    BY <1>1
  <2>1. doing[r] = "waiting" /\ future[r] = "pending"
    BY <1>1 DEF HeldOK, Waits
  <2>2. applied[r] \in Nat /\ attempt[r] \in Nat
    BY DEF BatchTypeOK
  <2>3. attempt[r] < Attempts /\ applied[r] <= attempt[r]
    BY <2>1, <2>2 DEF TriesOK
  <2>4. r \in unanswered \/ applied[r] = 0
    BY <2>1, <2>2 DEF ToldOK
  <2> QED
    BY <2>1, <2>2, <2>3, <2>4
<1>10. UNCHANGED <<waiting, taken, busy, doing, attempt>> /\ left' = left \ Chunk /\ throttled' = 0
  BY DEF AnswerAll
<1>11. BatchTypeOK'
  <2>1. unanswered' \subseteq Requests
    BY <1>1 DEF Applies, Of, BatchTypeOK
  <2>2. \A r \in Requests : future'[r] \in Statuses \union {"pending", "error"}
    <3>1. \A i \in Chunk : future'[taken[i]] \in Statuses \union {"error"}
      BY <1>3
    <3> QED
      <4>1. \A r \in Requests : future[r] \in Statuses \union {"pending", "error"}
        BY DEF BatchTypeOK
      <4> QED
        BY <1>4, <1>5, <3>1, <4>1
  <2>3. \A r \in Requests : applied'[r] \in 0 .. Attempts
    <3>1. \A r \in Requests : applied[r] \in 0 .. Attempts /\ attempt[r] \in Nat
      BY DEF BatchTypeOK
    <3>2. \A i \in Chunk : applied'[taken[i]] \in 0 .. Attempts
      BY <1>1, <1>6, <1>9, <3>1, BatchAssumption
    <3> QED
      BY <1>5, <1>7, <3>1, <3>2
  <2>4. future' \in [Requests -> Statuses \union {"pending", "error"}]
    BY <2>2 DEF AnswerAll
  <2>5. applied' \in [Requests -> 0 .. Attempts]
    BY <2>3 DEF Applies
  <2> QED
    BY <1>10, <2>1, <2>4, <2>5, BatchAssumption DEF BatchTypeOK
<1>12. HeldOK'
  <2>1. \A i \in Chunk : future'[taken[i]] # "pending"
    BY <1>3 DEF Statuses
  <2>2. \A r \in Requests : Waits(r)' <=> Waits(r) /\ r \notin Of(Chunk)
    BY <1>4, <1>5, <1>10, <2>1 DEF Waits
  <2>3. \A r \in Requests : (\E i \in left' : taken[i] = r) <=>
                              r \notin Of(Chunk) /\ \E i \in left : taken[i] = r
    BY <1>1, <1>5, <1>10 DEF HeldOK
  <2>4. \A r \in Requests : r \in Of(Chunk) => \A i \in DOMAIN waiting : waiting[i] # r
    BY <1>1, <1>5 DEF HeldOK
  <2>5. \A r \in Requests :
          Waits(r)' <=> \/ \E i \in DOMAIN waiting' : waiting'[i] = r
                        \/ \E i \in left' : taken'[i] = r
    BY <1>10, <2>2, <2>3, <2>4 DEF HeldOK
  <2> QED
    BY <1>10, <2>5 DEF HeldOK
<1>13. TriesOK'
  <2>1. \A r \in Requests : attempt[r] \in Nat /\ applied[r] \in Nat
    BY DEF BatchTypeOK
  <2>2. ASSUME NEW i \in Chunk
        PROVE  future'[taken[i]] # "pending" /\ applied'[taken[i]] <= attempt[taken[i]] + 1
    BY <1>1, <1>3, <1>6, <1>9, <2>1 DEF Statuses
  <2> QED
    BY <1>4, <1>5, <1>7, <1>9, <1>10, <2>1, <2>2 DEF TriesOK
<1>14. ToldOK'
  <2>1. ASSUME NEW i \in Chunk
        PROVE  LET r == taken[i] IN
               /\ future'[r] = "applied" => applied'[r] > 0
               /\ applied'[r] > 0 /\ r \notin unanswered' =>
                    applied'[r] = 1 /\ future'[r] = "applied"
    BY <1>3, <1>6, <1>8, <1>9
  <2> QED
    BY <1>4, <1>5, <1>7, <1>8, <1>9, <1>10, <2>1 DEF ToldOK
<1> QED
  BY <1>11, <1>12, <1>13, <1>14

\* A number that comes up once is found by it, wherever its response stands.
LEMMA ByNumber ==
    ASSUME NEW told, NEW order \in SetToSeqs(told), NEW status, NEW responses,
           responses = [k \in DOMAIN order |-> [id |-> order[k], status |-> status[order[k]]]],
           NEW i
    PROVE  Numbered(responses, i) = IF i \in ToSet(order) THEN status[i] ELSE "error"
<1> DEFINE of == {k \in DOMAIN responses : responses[k].id = i}
<1>1. \A j, k \in DOMAIN order : order[j] = order[k] => j = k
  BY DEF SetToSeqs
<1>2. DOMAIN order = 1 .. Cardinality(told)
  BY DEF SetToSeqs
<1>3. \A k : k \in of <=> k \in DOMAIN order /\ order[k] = i
  OBVIOUS
<1>4. CASE i \notin ToSet(order)
  <2>1. of = {}
    BY <1>3, <1>4 DEF ToSet
  <2> QED
    BY <1>4, <2>1 DEF Numbered
<1>5. CASE i \in ToSet(order)
  <2>1. PICK k \in DOMAIN order : order[k] = i
    BY <1>5 DEF ToSet
  <2>2. of = {k}
    BY <1>1, <1>3, <2>1
  <2>3. k \in Int
    BY <1>2, <2>1
  <2>4. Max(of) = k
    BY <2>2, <2>3 DEF Max
  <2>5. responses[k].status = status[i]
    BY <2>1
  <2> QED
    BY <1>5, <2>2, <2>4, <2>5 DEF Numbered
<1> QED
  BY <1>4, <1>5

\* In whatever order the responses come, and whichever are missing, every call
\* has the answer of its own request.
LEMMA AnsweredKeeps ==
    ASSUME BatchInv, NEW told \in SUBSET Chunk, NEW status \in [Chunk -> Statuses],
           NEW order \in SetToSeqs(told), Answered(status, order)
    PROVE  BatchInv'
<1>1. PICK responses :
        responses = [k \in DOMAIN order |-> [id |-> order[k], status |-> status[order[k]]]]
  OBVIOUS
<1>2. PICK done : done = {i \in Chunk : status[i] = "applied"}
  OBVIOUS
<1>3. PICK answer : answer = [i \in Chunk |-> Numbered(responses, i)]
  OBVIOUS
<1>4. Applies(done, done \ ToSet(order)) /\ AnswerAll(answer)
  BY <1>1, <1>2, <1>3 DEF Answered
<1>5. \A i : Numbered(responses, i) = IF i \in ToSet(order) THEN status[i] ELSE "error"
  BY <1>1, ByNumber
<1>6. \A i \in Chunk : /\ answer[i] \in Statuses \union {"error"}
                       /\ answer[i] = "applied" <=> i \in done \ (done \ ToSet(order))
  <2> TAKE i \in Chunk
  <2>1. answer[i] = IF i \in ToSet(order) THEN status[i] ELSE "error"
    BY <1>3, <1>5
  <2>2. status[i] \in Statuses
    OBVIOUS
  <2> QED
    BY <1>2, <2>1, <2>2
<1>7. done \in SUBSET Chunk /\ done \ ToSet(order) \in SUBSET done
  BY <1>2
<1> QED
  BY <1>4, <1>6, <1>7, AnswersKeep

LEMMA BatchFailsKeeps ==
    ASSUME BatchInv, NEW is \in SUBSET Chunk, BatchFails(is)
    PROVE  BatchInv'
<1>1. PICK answer : answer = [i \in Chunk |-> "error"]
  OBVIOUS
<1>2. Applies(is, is) /\ AnswerAll(answer)
  BY <1>1 DEF BatchFails
<1>3. \A i \in Chunk : /\ answer[i] \in Statuses \union {"error"}
                       /\ answer[i] = "applied" <=> i \in is \ is
  BY <1>1
<1> QED
  BY <1>2, <1>3, AnswersKeep

LEMMA BatchStepKeeps == BatchInv /\ [BatchNext]_batchVars => BatchInv'
<1> SUFFICES ASSUME BatchInv, [BatchNext]_batchVars
             PROVE  BatchInv'
  OBVIOUS
<1>1. CASE \E r \in Requests : Put(r) \/ Resume(r)
  BY <1>1, PutKeeps, ResumeKeeps
<1>2. CASE Collect \/ Throttled
  BY <1>2, CollectKeeps, ThrottledKeeps
<1>3. CASE \E told \in SUBSET Chunk :
             \E status \in [Chunk -> Statuses], order \in SetToSeqs(told) :
                Answered(status, order)
  BY <1>3, AnsweredKeeps
<1>4. CASE \E is \in SUBSET Chunk : BatchFails(is)
  BY <1>4, BatchFailsKeeps
<1>5. CASE UNCHANGED batchVars
  BY <1>5 DEF batchVars, BatchInv, BatchTypeOK, HeldOK, TriesOK, ToldOK, Waits
<1> QED
  BY <1>1, <1>2, <1>3, <1>4, <1>5 DEF BatchNext

LEMMA BatchInvariant == BatchSpec => []BatchInv
<1>1. BatchInit => BatchInv
  BY BatchInitially
<1>2. BatchInv /\ [BatchNext]_batchVars => BatchInv'
  BY BatchStepKeeps
<1> QED
  BY <1>1, <1>2, PTL DEF BatchSpec

\* The types of GraphBatchQueue, with the bounds: a call is tried at most
\* Attempts times, and its change is applied at most once for each.
THEOREM BatchTypes == BatchSpec => []BatchTypeOK
<1>1. BatchInv => BatchTypeOK
  BY DEF BatchInv
<1> QED
  BY <1>1, BatchInvariant, PTL

\* A call of graph_client.py waits only for a request that the queue or the
\* worker has, once, and a worker runs as long as there is one: for any number
\* of calls, tokens and tries and any size of the batches.
THEOREM NoCallIsForgotten == BatchSpec => []WaitingIsHeld
<1>1. BatchInv => WaitingIsHeld
  BY HeldTwoWays DEF BatchInv, BatchTypeOK
<1> QED
  BY <1>1, BatchInvariant, PTL

\* What mark_email_read, move_email and the rest report is what was done with
\* their own email, whichever answers of a batch are missing and in any order.
THEOREM CallsReportTheirOwn == BatchSpec => []ReportsAreTrue
<1>1. BatchInv => ReportsAreTrue
  <2> SUFFICES ASSUME BatchInv, NEW r \in Requests
               PROVE  /\ doing[r] = "done" =>
                           applied[r] > 0 \/ (r \notin Bulk /\ future[r] = "throttled")
                      /\ (doing[r] = "failed" /\ applied[r] > 0) \/ applied[r] > 1 =>
                           r \in unanswered
    BY DEF ReportsAreTrue
  <2>1. applied[r] \in Nat
    BY DEF BatchInv, BatchTypeOK
  <2> QED
    BY <2>1 DEF BatchInv, ToldOK
<1> QED
  BY <1>1, BatchInvariant, PTL

-----------------------------------------------------------------------------
(* The calls of a turn: what a plan keeps when the arguments are known, and *)
(* what holds of a call between its requests.                               *)

Fields == {"tool", "named", "plan", "at", "status", "tries", "made", "lost", "found",
           "nothing", "hidden", "told"}
Runs(c) == call[c].status = "running"

\* A plan of the tool as its arguments have left it.
Sound(tool, plan) ==
    /\ plan \in Seq(ToSet(plan))
    /\ \A k \in Does(plan, Options) : plan[k][2] \in Inside(PlansOf(tool))
    /\ tool \notin Silent => Does(plan, {"look", "skip", "gather", "slip"}) = {}
    /\ Does(plan, {"make"}) # {} => tool \in DOMAIN BlockingTools
    /\ LooksBeforeItMakes(plan)
    /\ tool \notin Several => NothingRaisesAfter(plan)

CallTypeOK(c) ==
    /\ DOMAIN call[c] = Fields
    /\ call[c].tool \in DOMAIN ToolPlans
    /\ call[c].at \in Nat \ {0}
    /\ call[c].status \in {"asked", "running", "success", "error"}
    /\ call[c].tries \in Nat \ {0}
    /\ call[c].found \in BOOLEAN /\ call[c].nothing \in BOOLEAN
    /\ call[c].hidden \in BOOLEAN /\ call[c].told \in BOOLEAN
    /\ Sound(call[c].tool, call[c].plan)
    /\ IF call[c].status = "asked" /\ call[c].tries = 1 THEN call[c].made = <<>>
       ELSE /\ Does(call[c].plan, Options) = {}
            /\ call[c].made \in [DOMAIN call[c].plan -> Nat]

ToolsTypeOK == label \in BOOLEAN /\ \A c \in DOMAIN call : CallTypeOK(c)

\* A change that is made again by each request was not made, or its answer was
\* lost, or the call is past it; nothing after it raises.
RepeatOK(c) ==
    call[c].tool \notin Several => \A i \in DOMAIN call[c].made :
        \/ call[c].made[i] = 0
        \/ call[c].made[i] = 1 /\ call[c].plan[i][1] \notin {"add", "store"}
        \/ i \in call[c].lost
        \/ call[c].made[i] = 1 /\ (call[c].status = "success" \/ (Runs(c) /\ i < call[c].at))

\* A call has made the changes it is past, unless it says what was not made.
ReportOK(c) ==
    /\ Runs(c) /\ call[c].found => label
    /\ call[c].tool \notin Silent /\ (Runs(c) \/ call[c].status = "success") =>
        /\ ~call[c].hidden
        /\ call[c].told \/ \A i \in DOMAIN call[c].plan :
             (Runs(c) => i < call[c].at) =>
                /\ call[c].plan[i][1] \in Changes => call[c].made[i] > 0
                /\ call[c].plan[i][1] = "make" => label

\* Between the look-up of the labels and the creation of one: the call keeps the
\* others out, so what it found is so.
Looked(c) ==
    \E i \in Does(call[c].plan, {"find"}), j \in Does(call[c].plan, {"make"}) :
        /\ i < call[c].at /\ call[c].at <= j
        /\ (i + 1 .. j) \cap Does(call[c].plan, {"store", "gather"}) = {}
LabelOK(c) == Runs(c) /\ Looked(c) => (label => call[c].found)

ToolsInv ==
    /\ ToolsTypeOK
    /\ \A c \in DOMAIN call : RepeatOK(c) /\ ReportOK(c) /\ LabelOK(c)
    /\ collided = {}

\* What a step of a call leaves: the others, and its own fields but for the changes.
Becomes(c, changes, at) ==
    /\ DOMAIN call' = DOMAIN call
    /\ \A d \in DOMAIN call \ {c} : call'[d] = call[d]
    /\ DOMAIN call'[c] = Fields
    /\ call'[c].at = at
    /\ \A f \in Fields \ {"at"} :
         call'[c][f] = IF f \in DOMAIN changes THEN changes[f] ELSE call[c][f]

LEMMA GoesMeans ==
    ASSUME NEW c \in DOMAIN call, CallTypeOK(c),
           NEW changes, DOMAIN changes \subseteq Fields \ {"at"}, Goes(c, changes)
    PROVE  Becomes(c, changes, call[c].at + 1)
<1>1. DOMAIN call[c] = Fields /\ "at" \in Fields
  BY DEF CallTypeOK, Fields
<1>2. PICK new : new = [f \in Fields |-> IF f \in DOMAIN changes THEN changes[f] ELSE call[c][f]]
  OBVIOUS
<1>3. Changed(c, changes) = [call EXCEPT ![c] = new]
  BY <1>1, <1>2 DEF Changed
<1>4. DOMAIN call' = DOMAIN call /\ call'[c] = [new EXCEPT !.at = @ + 1]
      /\ \A d \in DOMAIN call \ {c} : call'[d] = call[d]
  BY <1>3 DEF Goes
<1>5. new.at = call[c].at
  BY <1>1, <1>2
<1> QED
  BY <1>1, <1>2, <1>4, <1>5 DEF Becomes

LEMMA EndsMeans ==
    ASSUME NEW c \in DOMAIN call, CallTypeOK(c),
           NEW changes, DOMAIN changes \subseteq Fields \ {"at"}, Ends(c, changes)
    PROVE  Becomes(c, changes, call[c].at)
<1>1. DOMAIN call[c] = Fields /\ "at" \in Fields
  BY DEF CallTypeOK, Fields
<1> QED
  BY <1>1 DEF Becomes, Ends, Changed

-----------------------------------------------------------------------------
(* The arguments leave a sound plan sound.                                 *)

LEMMA SameRemainder ==
    ASSUME NEW n \in Nat \ {0}, NEW a \in Int, NEW b \in Int,
           NEW r \in 0 .. n - 1, NEW s \in 0 .. n - 1, (n * a) + r = (n * b) + s
    PROVE  r = s
<1>1. n * (a - b) = (n * a) - (n * b)
  OBVIOUS
<1>2. PICK d \in Int : d = a - b
  OBVIOUS
<1>3. n * d = s - r
  BY <1>1, <1>2
<1>4. d = 0
  <2>1. CASE d >= 1
    <3>1. n * d >= n
      BY <2>1
    <3> QED
      BY <3>1, <1>3
  <2>2. CASE d <= -1
    <3>1. n * d <= -n
      BY <2>2
    <3> QED
      BY <3>1, <1>3
  <2> QED
    BY <2>1, <2>2, <1>2
<1> QED
  BY <1>3, <1>4

LEMMA BackInTheRound ==
    ASSUME NEW n \in Nat \ {0}, NEW x \in Nat, NEW back \in Nat, back <= x % n
    PROVE  x - back \in Nat /\ (x - back) % n = (x % n) - back
<1>0. \A z \in Nat : /\ z \div n \in Int /\ z % n \in 0 .. n - 1
                     /\ z = (n * (z \div n)) + (z % n) /\ z \div n >= 0
  OBVIOUS
<1>1. PICK a \in Int, r \in 0 .. n - 1 : a >= 0 /\ r = x % n /\ x = (n * a) + r
  BY <1>0
<1>2. n * a \in Int /\ n * a >= 0
  BY <1>1
<1>3. x - back \in Nat
  BY <1>1, <1>2
<1>4. PICK y \in Nat : y = x - back
  BY <1>3
<1>5. PICK b \in Int, s \in 0 .. n - 1 : s = y % n /\ y = (n * b) + s
  BY <1>0
<1>6. r - back \in 0 .. n - 1 /\ (n * a) + (r - back) = (n * b) + s
  BY <1>1, <1>2, <1>4, <1>5
<1>7. r - back = s
  BY <1>6, SameRemainder
<1> QED
  BY <1>1, <1>4, <1>5, <1>7

LEMMA FullRounds ==
    ASSUME NEW n \in Nat, NEW m \in Nat
    PROVE  n * m \in Nat /\ \A i \in 1 .. n * m : m > 0 /\ (i - 1) % m \in 0 .. m - 1
OBVIOUS

\* What is at each place of a plan when its step k, or s, is made n times.
Spread(plan, k, s, n) ==
    SubSeq(plan, 1, k - 1) \o Copies(s, n) \o SubSeq(plan, k + 1, Len(plan))

InPlace(new, plan, s, k, m) ==
    \A i \in DOMAIN new :
        /\ i < k => i \in DOMAIN plan /\ new[i] = plan[i]
        /\ k <= i /\ i < k + m =>
            /\ Len(s) > 0 /\ i - k \in Nat /\ (i - k) % Len(s) \in 0 .. Len(s) - 1
            /\ new[i] = s[1 + ((i - k) % Len(s))]
        /\ i >= k + m => i - m + 1 \in k + 1 .. Len(plan) /\ new[i] = plan[i - m + 1]

LEMMA Joined ==
    ASSUME NEW S, NEW a \in Seq(S), NEW b \in Seq(S)
    PROVE  /\ a \o b \in Seq(S) /\ Len(a \o b) = Len(a) + Len(b)
           /\ Len(a) \in Nat /\ Len(b) \in Nat /\ DOMAIN (a \o b) = 1 .. Len(a) + Len(b)
           /\ \A i \in 1 .. Len(a) : (a \o b)[i] = a[i]
           /\ \A i \in Len(a) + 1 .. Len(a) + Len(b) : (a \o b)[i] = b[i - Len(a)]
OBVIOUS

LEMMA Between ==
    ASSUME NEW S, NEW a \in Seq(S), NEW m \in Nat \ {0}, NEW n \in Nat, n <= Len(a), m <= n + 1
    PROVE  /\ SubSeq(a, m, n) \in Seq(S) /\ Len(SubSeq(a, m, n)) = n + 1 - m
           /\ \A i \in 1 .. n + 1 - m : SubSeq(a, m, n)[i] = a[m + i - 1]
OBVIOUS

\* Where the places up to the end of the inserted part, and those behind it, lie.
LEMMA PlacesBefore ==
    ASSUME NEW k \in Nat, NEW m \in Nat, 1 <= k
    PROVE  \A i \in 1 .. k - 1 + m : (i < k => i \in 1 .. k - 1)
                /\ (i >= k => i \in (k - 1) + 1 .. (k - 1) + m)
OBVIOUS

LEMMA PlacesBehind ==
    ASSUME NEW k \in Nat, NEW m \in Nat, NEW l \in Nat, 1 <= k, k <= l
    PROVE  /\ \A i \in 1 .. l - 1 + m : (i < k + m => i \in 1 .. k - 1 + m)
                /\ (i >= k + m => i \in (k - 1 + m) + 1 .. (k - 1 + m) + (l - k))
           /\ (k - 1 + m) + (l - k) = l - 1 + m
OBVIOUS

LEMMA SpreadPlaces ==
    ASSUME NEW plan, plan \in Seq(ToSet(plan)), NEW s, s \in Seq(ToSet(s)),
           NEW k \in DOMAIN plan, NEW n \in Nat,
           NEW new, new = Spread(plan, k, s, n), NEW m, m = n * Len(s)
    PROVE  /\ m \in Nat /\ k \in Nat /\ k >= 1 /\ k <= Len(plan)
           /\ Len(plan) \in Nat /\ DOMAIN plan = 1 .. Len(plan)
           /\ Len(s) \in Nat /\ DOMAIN s = 1 .. Len(s)
           /\ DOMAIN new = 1 .. Len(plan) - 1 + m /\ Len(new) = Len(plan) - 1 + m
           /\ new \in Seq(ToSet(new))
           /\ InPlace(new, plan, s, k, m)
<1> DEFINE S == ToSet(plan) \cup ToSet(s)
<1>1. /\ Len(plan) \in Nat /\ DOMAIN plan = 1 .. Len(plan) /\ k \in 1 .. Len(plan)
      /\ Len(s) \in Nat /\ DOMAIN s = 1 .. Len(s)
      /\ \A i \in DOMAIN plan : plan[i] \in S
      /\ \A i \in DOMAIN s : s[i] \in S
  BY DEF ToSet
<1>2. plan \in Seq(S) /\ s \in Seq(S)
  BY <1>1
<1>3. m \in Nat /\ \A i \in 1 .. m : Len(s) > 0 /\ (i - 1) % Len(s) \in 0 .. Len(s) - 1
  BY <1>1, FullRounds
<1>4. PICK a : a = SubSeq(plan, 1, k - 1)
  OBVIOUS
<1>5. a \in Seq(S) /\ Len(a) = k - 1 /\ \A i \in 1 .. k - 1 : a[i] = plan[i]
  <2>1. k - 1 \in Nat /\ k - 1 <= Len(plan) /\ 1 <= (k - 1) + 1
    BY <1>1
  <2>2. a \in Seq(S) /\ Len(a) = (k - 1) + 1 - 1 /\ \A i \in 1 .. (k - 1) + 1 - 1 : a[i] = plan[1 + i - 1]
    BY <2>1, <1>2, <1>4, Between
  <2> QED
    BY <2>2, <1>1
<1>6. PICK b : b = Copies(s, n)
  OBVIOUS
<1>7. \A i \in 1 .. m : 1 + ((i - 1) % Len(s)) \in DOMAIN s
  BY <1>1, <1>3
<1>8. b = [i \in 1 .. m |-> s[1 + ((i - 1) % Len(s))]]
  BY <1>6 DEF Copies
<1>9. b \in Seq(S) /\ Len(b) = m
  BY <1>1, <1>3, <1>7, <1>8
<1>10. PICK c : c = SubSeq(plan, k + 1, Len(plan))
  OBVIOUS
<1>11. c \in Seq(S) /\ Len(c) = Len(plan) - k /\ \A i \in 1 .. Len(plan) - k : c[i] = plan[k + i]
  <2>1. /\ k + 1 \in Nat \ {0} /\ k + 1 <= Len(plan) + 1
        /\ Len(plan) + 1 - (k + 1) = Len(plan) - k
    BY <1>1
  <2>4. PICK x \in Nat \ {0}, y \in Nat : x = k + 1 /\ y = Len(plan)
    BY <2>1, <1>1
  <2>5. y <= Len(plan) /\ x <= y + 1 /\ y + 1 - x = Len(plan) - k /\ c = SubSeq(plan, x, y)
    BY <2>1, <2>4, <1>10
  <2>6. /\ SubSeq(plan, x, y) \in Seq(S) /\ Len(SubSeq(plan, x, y)) = y + 1 - x
        /\ \A i \in 1 .. y + 1 - x : SubSeq(plan, x, y)[i] = plan[x + i - 1]
    BY <2>5, <1>2, Between
  <2>2. c \in Seq(S) /\ Len(c) = Len(plan) - k
        /\ \A i \in 1 .. Len(plan) - k : c[i] = plan[(k + 1) + i - 1]
    BY <2>4, <2>5, <2>6
  <2>3. \A i \in 1 .. Len(plan) - k : (k + 1) + i - 1 = k + i
    BY <1>1
  <2> QED
    BY <2>2, <2>3
<1>12. new = a \o b \o c
  BY <1>4, <1>6, <1>10 DEF Spread
<1>13. PICK ab : ab = a \o b
  OBVIOUS
<1>18. k \in Nat /\ m \in Nat /\ Len(plan) \in Nat /\ 1 <= k /\ k <= Len(plan)
  BY <1>1, <1>3
<1>14. /\ ab \in Seq(S) /\ Len(ab) = k - 1 + m
       /\ \A i \in 1 .. k - 1 + m :
            /\ i < k => ab[i] = plan[i]
            /\ i >= k => ab[i] = b[i - (k - 1)]
  <2>1. /\ ab \in Seq(S) /\ Len(ab) = k - 1 + m
        /\ \A i \in 1 .. k - 1 : ab[i] = a[i]
        /\ \A i \in (k - 1) + 1 .. (k - 1) + m : ab[i] = b[i - (k - 1)]
    <3>1. /\ a \o b \in Seq(S) /\ Len(a \o b) = Len(a) + Len(b)
          /\ \A i \in 1 .. Len(a) : (a \o b)[i] = a[i]
          /\ \A i \in Len(a) + 1 .. Len(a) + Len(b) : (a \o b)[i] = b[i - Len(a)]
      <4>1. a \in Seq(S) /\ b \in Seq(S)
        BY <1>5, <1>9
      <4> QED
        BY ONLY <4>1, Joined, Zenon
    <3> QED
      BY <3>1, <1>5, <1>9, <1>13
  <2>2. \A i \in 1 .. k - 1 : ab[i] = plan[i]
    BY <2>1, <1>5
  <2>3. \A i \in 1 .. k - 1 + m : (i < k => i \in 1 .. k - 1)
            /\ (i >= k => i \in (k - 1) + 1 .. (k - 1) + m)
    BY ONLY <1>18, PlacesBefore, Zenon
  <2> QED
    BY <2>1, <2>2, <2>3
<1>15. /\ new \in Seq(S) /\ Len(new) = Len(plan) - 1 + m
       /\ \A i \in 1 .. Len(plan) - 1 + m :
            /\ i < k + m => new[i] = ab[i]
            /\ i >= k + m => new[i] = c[i - (k - 1 + m)]
  <2>1. /\ new \in Seq(S) /\ Len(new) = (k - 1 + m) + (Len(plan) - k)
        /\ \A i \in 1 .. k - 1 + m : new[i] = ab[i]
        /\ \A i \in (k - 1 + m) + 1 .. (k - 1 + m) + (Len(plan) - k) : new[i] = c[i - (k - 1 + m)]
    <3>1. /\ ab \o c \in Seq(S) /\ Len(ab \o c) = Len(ab) + Len(c)
          /\ \A i \in 1 .. Len(ab) : (ab \o c)[i] = ab[i]
          /\ \A i \in Len(ab) + 1 .. Len(ab) + Len(c) : (ab \o c)[i] = c[i - Len(ab)]
      <4>1. ab \in Seq(S) /\ c \in Seq(S)
        BY <1>11, <1>14
      <4> QED
        BY ONLY <4>1, Joined, Zenon
    <3>2. new = ab \o c
      BY <1>12, <1>13
    <3> QED
      BY <3>1, <3>2, <1>11, <1>14
  <2>2. \A i \in 1 .. Len(plan) - 1 + m : (i < k + m => i \in 1 .. k - 1 + m)
            /\ (i >= k + m => i \in (k - 1 + m) + 1 .. (k - 1 + m) + (Len(plan) - k))
    BY ONLY <1>18, PlacesBehind, Zenon
  <2>3. (k - 1 + m) + (Len(plan) - k) = Len(plan) - 1 + m
    BY ONLY <1>18, PlacesBehind, Zenon
  <2> QED
    BY <2>1, <2>2, <2>3
<1>16. DOMAIN new = 1 .. Len(plan) - 1 + m /\ new \in Seq(ToSet(new))
  <2>1. DOMAIN new = 1 .. Len(new) /\ \A i \in DOMAIN new : new[i] \in ToSet(new)
    BY <1>15 DEF ToSet
  <2> QED
    BY <2>1, <1>15
<1>17. ASSUME NEW i \in DOMAIN new
       PROVE  /\ i < k => i \in DOMAIN plan /\ new[i] = plan[i]
              /\ k <= i /\ i < k + m =>
                  /\ Len(s) > 0 /\ i - k \in Nat /\ (i - k) % Len(s) \in 0 .. Len(s) - 1
                  /\ new[i] = s[1 + ((i - k) % Len(s))]
              /\ i >= k + m => i - m + 1 \in k + 1 .. Len(plan) /\ new[i] = plan[i - m + 1]
  <2>0. i \in 1 .. Len(plan) - 1 + m
    BY <1>16
  <2>1. CASE i < k
    <3>1. i < k + m /\ i \in 1 .. k - 1 + m /\ i \in 1 .. Len(plan) /\ ~(k <= i) /\ ~(i >= k + m)
      BY <2>0, <2>1, <1>1, <1>3
    <3>2. new[i] = ab[i] /\ ab[i] = plan[i]
      BY <3>1, <2>0, <2>1, <1>14, <1>15
    <3> QED
      BY <3>1, <3>2, <2>1, <1>1
  <2>2. CASE k <= i /\ i < k + m
    <3>1. PICK j \in 1 .. m : j = i - k + 1
      BY <2>2, <1>1, <1>3, <1>16
    <3>2. new[i] = b[j] /\ j - 1 = i - k
      <4>1. i \in 1 .. k - 1 + m /\ i >= k /\ i < k + m /\ i - (k - 1) = j /\ j - 1 = i - k
        BY <3>1, <2>0, <2>2, <1>18
      <4>2. new[i] = ab[i] /\ ab[i] = b[i - (k - 1)]
        BY <4>1, <2>0, <1>14, <1>15
      <4> QED
        BY <4>1, <4>2
    <3>3. b[j] = s[1 + ((j - 1) % Len(s))] /\ Len(s) > 0 /\ (j - 1) % Len(s) \in 0 .. Len(s) - 1
      BY <1>3, <1>8
    <3>4. ~(i < k) /\ ~(i >= k + m) /\ i - k \in Nat
      BY <2>0, <2>2, <1>1, <1>3
    <3>5. /\ Len(s) > 0 /\ (i - k) % Len(s) \in 0 .. Len(s) - 1
          /\ new[i] = s[1 + ((i - k) % Len(s))]
      BY <3>2, <3>3
    <3> QED
      BY <3>4, <3>5
  <2>3. CASE i >= k + m
    <3>1. /\ ~(i < k) /\ ~(i < k + m) /\ i - m + 1 \in k + 1 .. Len(plan)
          /\ i - (k - 1 + m) \in 1 .. Len(plan) - k /\ k + (i - (k - 1 + m)) = i - m + 1
      <4>1. i \in Int /\ i <= Len(plan) - 1 + m
        BY <2>0, <1>18
      <4>2. ~(i < k) /\ ~(i < k + m)
        BY <4>1, <2>3, <1>18
      <4>3. i - m + 1 \in k + 1 .. Len(plan)
        BY <4>1, <2>3, <1>18
      <4>4. i - (k - 1 + m) \in 1 .. Len(plan) - k
        BY <4>1, <2>3, <1>18
      <4>5. k + (i - (k - 1 + m)) = i - m + 1
        BY <4>1, <1>18
      <4> QED
        BY <4>2, <4>3, <4>4, <4>5
    <3>2. new[i] = c[i - (k - 1 + m)] /\ c[i - (k - 1 + m)] = plan[k + (i - (k - 1 + m))]
      BY <3>1, <2>0, <2>3, <1>11, <1>15
    <3> QED
      BY <3>1, <3>2
  <2> QED
    BY <2>1, <2>2, <2>3, <1>1, <1>3, <1>16
<1> QED
  BY <1>1, <1>3, <1>15, <1>16, <1>17 DEF InPlace

\* A plan of N - 1 + m steps: those of a plan of N around k, and between them
\* steps of s, of which at[i] is at i, in their order.
Woven(new, plan, s, k, m, N, at) ==
    /\ N \in Nat /\ m \in Nat /\ k \in 1 .. N
    /\ DOMAIN plan = 1 .. N /\ DOMAIN new = 1 .. N - 1 + m
    /\ \A i \in 1 .. k - 1 : new[i] = plan[i]
    /\ \A i \in k .. k + m - 1 :
         /\ at[i] \in Nat \ {0} /\ at[i] \in DOMAIN s /\ new[i] = s[at[i]]
         /\ \A b \in 0 .. at[i] - 1 : k <= i - b /\ at[i - b] = at[i] - b
    /\ \A i \in k + m .. N - 1 + m : new[i] = plan[i - m + 1]

LEMMA SpreadIsWoven ==
    ASSUME NEW plan, plan \in Seq(ToSet(plan)), NEW s, s \in Seq(ToSet(s)),
           NEW k \in DOMAIN plan, NEW n \in Nat,
           NEW new, new = Spread(plan, k, s, n)
    PROVE  \E m, at : Woven(new, plan, s, k, m, Len(plan), at)
<1>1. PICK m : m = n * Len(s)
  OBVIOUS
<1>2. /\ m \in Nat /\ k \in Nat /\ k >= 1 /\ k <= Len(plan)
      /\ Len(plan) \in Nat /\ DOMAIN plan = 1 .. Len(plan)
      /\ Len(s) \in Nat /\ DOMAIN s = 1 .. Len(s)
      /\ DOMAIN new = 1 .. Len(plan) - 1 + m
  BY <1>1, SpreadPlaces
<1>3. InPlace(new, plan, s, k, m)
  BY <1>1, SpreadPlaces
<1>4. PICK at : at = [i \in Int |-> 1 + ((i - k) % Len(s))]
  OBVIOUS
<1>5. PICK N \in Nat, L \in Nat : N = Len(plan) /\ L = Len(s)
  BY <1>2
<1>6. ASSUME NEW i \in 1 .. k - 1 PROVE new[i] = plan[i]
  <2>1. i \in 1 .. N - 1 + m /\ i < k
    BY <1>2, <1>5
  <2> QED
    BY <2>1, <1>2, <1>3, <1>5 DEF InPlace
<1>7. ASSUME NEW i \in k + m .. N - 1 + m PROVE new[i] = plan[i - m + 1]
  <2>1. i \in 1 .. N - 1 + m /\ i >= k + m
    BY <1>2, <1>5
  <2> QED
    BY <2>1, <1>2, <1>3, <1>5 DEF InPlace
<1>8. ASSUME NEW i \in k .. k + m - 1
      PROVE  /\ at[i] \in Nat \ {0} /\ at[i] \in DOMAIN s /\ new[i] = s[at[i]]
             /\ \A b \in 0 .. at[i] - 1 : k <= i - b /\ at[i - b] = at[i] - b
  <2>1. i \in 1 .. N - 1 + m /\ k <= i /\ i < k + m /\ i \in Int
    BY <1>2, <1>5
  <2>2. /\ L > 0 /\ i - k \in Nat /\ (i - k) % L \in 0 .. L - 1
        /\ new[i] = s[1 + ((i - k) % L)]
    BY <2>1, <1>2, <1>3, <1>5 DEF InPlace
  <2>3. at[i] = 1 + ((i - k) % L)
    BY <2>1, <1>4, <1>5
  <2>4. at[i] \in Nat \ {0} /\ at[i] \in 1 .. L
    BY <2>2, <2>3
  <2>5. ASSUME NEW b \in 0 .. at[i] - 1 PROVE k <= i - b /\ at[i - b] = at[i] - b
    <3>1. PICK x \in Nat : x = i - k
      BY <2>2
    <3>2. b \in Nat /\ b <= x % L /\ L \in Nat \ {0} /\ at[i] = 1 + (x % L)
      BY <3>1, <2>2, <2>3, <2>4
    <3>3. x - b \in Nat /\ (x - b) % L = (x % L) - b
      BY <3>1, <3>2, BackInTheRound
    <3>4. i - b \in Int /\ (i - b) - k = x - b
      BY <3>1, <3>2, <2>1, <1>2
    <3>5. at[i - b] = 1 + ((x - b) % L)
      BY <3>4, <1>4, <1>5
    <3>6. x % L \in Int
      BY <2>2, <3>1
    <3>7. at[i - b] = at[i] - b
      BY <3>2, <3>3, <3>5, <3>6
    <3>8. k <= i - b
      BY <3>1, <3>2, <3>3, <2>1, <1>2
    <3> QED
      BY <3>7, <3>8
  <2> QED
    BY <2>2, <2>3, <2>4, <2>5, <1>2, <1>5
<1>9. Woven(new, plan, s, k, m, N, at)
  BY <1>2, <1>5, <1>6, <1>7, <1>8 DEF Woven
<1> QED
  BY <1>9, <1>5

\* What no step of plan but k and no step of s does, the new one does not.
LEMMA WovenDoes ==
    ASSUME NEW new, NEW plan, NEW s, NEW k, NEW m, NEW N, NEW at,
           Woven(new, plan, s, k, m, N, at), NEW i \in DOMAIN new
    PROVE  \/ \E j \in DOMAIN plan : new[i] = plan[j]
           \/ \E j \in DOMAIN s : new[i] = s[j]
<1>1. i \in 1 .. N - 1 + m /\ N \in Nat /\ m \in Nat /\ k \in 1 .. N /\ DOMAIN plan = 1 .. N
  BY DEF Woven
<1>2. CASE i \in 1 .. k - 1
  <2>1. new[i] = plan[i] /\ i \in 1 .. N
    BY <1>1, <1>2 DEF Woven
  <2> QED
    BY <2>1, <1>1
<1>3. CASE i \in k .. k + m - 1
  BY <1>3 DEF Woven
<1>4. CASE i \in k + m .. N - 1 + m
  <2>1. new[i] = plan[i - m + 1] /\ i - m + 1 \in 1 .. N
    BY <1>1, <1>4 DEF Woven
  <2> QED
    BY <2>1, <1>1
<1>5. i \in 1 .. k - 1 \/ i \in k .. k + m - 1 \/ i \in k + m .. N - 1 + m
  BY <1>1
<1> QED
  BY <1>2, <1>3, <1>4, <1>5

LEMMA WovenRaises ==
    ASSUME NEW new, NEW plan, NEW s, NEW k, NEW m, NEW N, NEW at,
           Woven(new, plan, s, k, m, N, at), N = Len(plan), Len(new) = N - 1 + m,
           plan[k][1] \in Options, NothingRaisesAfter(plan), Does(s, {"add", "store"}) = {}
    PROVE  NothingRaisesAfter(new)
<1> SUFFICES ASSUME NEW i \in Does(new, {"add", "store"}), NEW j \in i + 1 .. N - 1 + m
             PROVE  j \in Does(new, {"count", "known", "any"})
  BY DEF NothingRaisesAfter
<1>1. /\ N \in Nat /\ m \in Nat /\ k \in 1 .. N /\ DOMAIN plan = 1 .. N
      /\ i \in 1 .. N - 1 + m /\ DOMAIN new = 1 .. N - 1 + m
  BY DEF Woven, Does
<1>2. new[i][1] \in {"add", "store"}
  BY DEF Does
<1>3. j \in 1 .. N - 1 + m /\ i < j
  BY <1>1
<1>4. \A x \in 1 .. N, y \in 1 .. N : plan[x][1] \in {"add", "store"} /\ x < y =>
        plan[y][1] \in {"count", "known", "any"}
  <2> SUFFICES ASSUME NEW x \in 1 .. N, NEW y \in 1 .. N, plan[x][1] \in {"add", "store"}, x < y
               PROVE  plan[y][1] \in {"count", "known", "any"}
    OBVIOUS
  <2>1. x \in Does(plan, {"add", "store"}) /\ y \in x + 1 .. N
    BY <1>1 DEF Does
  <2> QED
    BY <2>1 DEF NothingRaisesAfter, Does
<1>5. CASE i \in 1 .. k - 1
  <2>1. plan[i][1] \in {"add", "store"} /\ i \in 1 .. N /\ i < k
    BY <1>1, <1>2, <1>5 DEF Woven
  <2>2. plan[k][1] \in {"count", "known", "any"}
    BY <2>1, <1>1, <1>4
  <2> QED
    BY <2>2 DEF Options
<1>6. CASE i \in k .. k + m - 1
  BY <1>2, <1>6 DEF Woven, Does
<1>7. CASE i \in k + m .. N - 1 + m
  <2>1. /\ i - m + 1 \in 1 .. N /\ j - m + 1 \in 1 .. N /\ i - m + 1 < j - m + 1
        /\ j \in k + m .. N - 1 + m
    BY <1>1, <1>3, <1>7
  <2>2. new[i] = plan[i - m + 1] /\ new[j] = plan[j - m + 1]
    BY <2>1, <1>7 DEF Woven
  <2>3. plan[j - m + 1][1] \in {"count", "known", "any"}
    BY <2>1, <2>2, <1>2, <1>4
  <2> QED
    BY <2>2, <2>3, <1>1, <1>3 DEF Does
<1>8. i \in 1 .. k - 1 \/ i \in k .. k + m - 1 \/ i \in k + m .. N - 1 + m
  BY <1>1
<1> QED
  BY <1>5, <1>6, <1>7, <1>8

\* A label is looked for at f and created at q.
Finds(plan, f, q) ==
    /\ f \in DOMAIN plan /\ plan[f][1] = "find" /\ f < q
    /\ \A t \in f + 1 .. q : plan[t][1] \notin Options \cup {"store", "gather"}

LEMMA LooksAt ==
    ASSUME NEW plan, NEW n \in Nat, DOMAIN plan = 1 .. n
    PROVE  LooksBeforeItMakes(plan) <=>
             \A q \in 1 .. n : plan[q][1] = "make" => \E f \in 1 .. n : Finds(plan, f, q)
<1>1. ASSUME LooksBeforeItMakes(plan), NEW q \in 1 .. n, plan[q][1] = "make"
      PROVE  \E f \in 1 .. n : Finds(plan, f, q)
  <2>1. PICK f \in Does(plan, {"find"}) :
            f < q /\ (f + 1 .. q) \cap Does(plan, Options \cup {"store", "gather"}) = {}
    BY <1>1 DEF LooksBeforeItMakes, Does
  <2>2. f \in 1 .. n /\ plan[f][1] = "find"
    BY DEF Does
  <2>3. \A t \in f + 1 .. q : t \in 1 .. n
    BY <2>2
  <2> QED
    BY <2>1, <2>2, <2>3 DEF Finds, Does
<1>2. ASSUME \A q \in 1 .. n : plan[q][1] = "make" => \E f \in 1 .. n : Finds(plan, f, q)
      PROVE  LooksBeforeItMakes(plan)
  <2> SUFFICES ASSUME NEW q \in Does(plan, {"make"})
               PROVE  \E f \in Does(plan, {"find"}) :
                        f < q /\ (f + 1 .. q) \cap Does(plan, Options \cup {"store", "gather"}) = {}
    BY DEF LooksBeforeItMakes
  <2>1. q \in 1 .. n /\ plan[q][1] = "make"
    BY DEF Does
  <2>2. PICK f \in 1 .. n : Finds(plan, f, q)
    BY <1>2, <2>1
  <2> QED
    BY <2>2 DEF Finds, Does
<1> QED
  BY <1>1, <1>2

LEMMA WovenLooks ==
    ASSUME NEW new, NEW plan, NEW s, NEW k, NEW m, NEW N, NEW at,
           Woven(new, plan, s, k, m, N, at), NEW L \in Nat, DOMAIN s = 1 .. L,
           plan[k][1] \in Options, LooksBeforeItMakes(plan), LooksBeforeItMakes(s)
    PROVE  LooksBeforeItMakes(new)
<1>1. /\ N \in Nat /\ m \in Nat /\ k \in 1 .. N /\ DOMAIN plan = 1 .. N
      /\ DOMAIN new = 1 .. N - 1 + m
  BY DEF Woven
<1>2. N - 1 + m \in Nat
  BY <1>1
<1> SUFFICES ASSUME NEW j \in 1 .. N - 1 + m, new[j][1] = "make"
             PROVE  \E i \in 1 .. N - 1 + m : Finds(new, i, j)
  BY <1>1, <1>2, LooksAt
<1>3. \A q \in 1 .. N : plan[q][1] = "make" => \E f \in 1 .. N : Finds(plan, f, q)
  BY <1>1, LooksAt
<1>4. \A q \in 1 .. L : s[q][1] = "make" => \E f \in 1 .. L : Finds(s, f, q)
  BY LooksAt
<1>5. CASE j \in 1 .. k - 1
  <2>1. new[j] = plan[j] /\ j \in 1 .. N
    BY <1>1, <1>5 DEF Woven
  <2>2. PICK f \in 1 .. N : Finds(plan, f, j)
    BY <2>1, <1>3
  <2>3. f < j /\ f \in 1 .. k - 1 /\ f \in 1 .. N - 1 + m /\ \A t \in f + 1 .. j : t \in 1 .. k - 1
    BY <2>2, <1>1, <1>5 DEF Finds
  <2>4. \A t \in 1 .. k - 1 : new[t] = plan[t]
    BY DEF Woven
  <2>5. Finds(new, f, j)
    BY <2>2, <2>3, <2>4, <1>1 DEF Finds
  <2> QED
    BY <2>3, <2>5
<1>6. CASE j \in k .. k + m - 1
  <2>1. /\ at[j] \in Nat \ {0} /\ at[j] \in 1 .. L /\ new[j] = s[at[j]]
        /\ \A b \in 0 .. at[j] - 1 : k <= j - b /\ at[j - b] = at[j] - b
    BY <1>6 DEF Woven
  <2>2. PICK q \in 1 .. L : q = at[j]
    BY <2>1
  <2>3. PICK f \in 1 .. L : Finds(s, f, q)
    BY <2>1, <2>2, <1>4
  <2>4. f < q
    BY <2>3 DEF Finds
  <2>5. ASSUME NEW b \in 0 .. q - 1
        PROVE  j - b \in 1 .. N - 1 + m /\ new[j - b] = s[q - b]
    <3>1. k <= j - b /\ at[j - b] = q - b
      BY <2>1, <2>2
    <3>2. j - b \in k .. k + m - 1
      BY <3>1, <1>1, <1>6
    <3>3. new[j - b] = s[at[j - b]]
      BY <3>2 DEF Woven
    <3> QED
      BY <3>1, <3>2, <3>3, <1>1
  <2>6. PICK i : i = j - (q - f)
    OBVIOUS
  <2>7. q - f \in 0 .. q - 1 /\ q - (q - f) = f /\ i < j /\ i \in Int
    BY <2>4, <2>6, <1>6, <1>1
  <2>8. i \in 1 .. N - 1 + m /\ new[i] = s[f]
    BY <2>5, <2>6, <2>7
  <2>9. ASSUME NEW t \in i + 1 .. j PROVE new[t][1] \notin Options \cup {"store", "gather"}
    <3>1. PICK b \in 0 .. q - 1 : b = j - t
      BY <2>4, <2>6, <2>7, <1>6, <1>1
    <3>2. j - b = t /\ q - b \in f + 1 .. q
      BY <3>1, <2>4, <2>6, <2>7, <1>6, <1>1
    <3>3. new[t] = s[q - b]
      BY <3>1, <3>2, <2>5
    <3> QED
      BY <3>2, <3>3, <2>3 DEF Finds
  <2>10. Finds(new, i, j)
    BY <2>3, <2>7, <2>8, <2>9, <1>1 DEF Finds
  <2> QED
    BY <2>8, <2>10
<1>7. CASE j \in k + m .. N - 1 + m
  <2>1. PICK q \in 1 .. N : q = j - m + 1 /\ q > k
    BY <1>1, <1>7
  <2>2. new[j] = plan[q]
    BY <2>1, <1>7 DEF Woven
  <2>3. PICK f \in 1 .. N : Finds(plan, f, q)
    BY <2>2, <1>3
  <2>4. f < q /\ f # k
    BY <2>3 DEF Finds, Options
  <2>5. ~(f < k)
    <3>1. SUFFICES ASSUME f < k PROVE FALSE
      OBVIOUS
    <3>2. k \in f + 1 .. q
      BY <3>1, <2>1, <1>1
    <3> QED
      BY <3>2, <2>3 DEF Finds
  <2>6. PICK i \in 1 .. N - 1 + m : i = f + m - 1 /\ i < j /\ i >= k + m
    BY <2>1, <2>4, <2>5, <1>1, <1>7
  <2>7. ASSUME NEW t \in i .. j PROVE new[t] = plan[t - m + 1] /\ t - m + 1 \in f .. q
    <3>0. t \in Int /\ i <= t /\ t <= j /\ i \in Int /\ j \in Int
      BY <2>6, <1>1, <1>7
    <3>1. t \in k + m .. N - 1 + m
      BY <3>0, <2>6, <1>1, <1>7
    <3>2. t - m + 1 \in f .. q
      BY <3>0, <2>1, <2>6, <1>1
    <3> QED
      BY <3>1, <3>2 DEF Woven
  <2>8. new[i] = plan[f]
    <3>1. i \in i .. j /\ i - m + 1 = f
      BY <2>6, <1>1, <1>7
    <3> QED
      BY <3>1, <2>7
  <2>9. ASSUME NEW t \in i + 1 .. j PROVE new[t][1] \notin Options \cup {"store", "gather"}
    <3>1. t \in Int /\ i + 1 <= t /\ t <= j /\ i \in Int /\ j \in Int
      BY <2>6, <1>1, <1>7
    <3>2. t \in i .. j
      BY <3>1
    <3>3. t - m + 1 \in f + 1 .. q
      BY <3>1, <2>1, <2>6, <1>1
    <3> QED
      BY <3>2, <3>3, <2>7, <2>3 DEF Finds
  <2>10. Finds(new, i, j)
    BY <2>3, <2>6, <2>8, <2>9, <1>1 DEF Finds
  <2> QED
    BY <2>6, <2>10
<1>8. j \in 1 .. k - 1 \/ j \in k .. k + m - 1 \/ j \in k + m .. N - 1 + m
  BY <1>1
<1> QED
  BY <1>5, <1>6, <1>7, <1>8

LEMMA SpreadIsSound ==
    ASSUME NEW tool \in DOMAIN ToolPlans, NEW plan, Sound(tool, plan),
           NEW k \in Does(plan, Options), NEW n \in Nat,
           NEW new, new = Spread(plan, k, plan[k][2], n)
    PROVE  Sound(tool, new)
<1>1. PICK s : s = plan[k][2]
  OBVIOUS
<1>2. k \in DOMAIN plan /\ plan[k][1] \in Options /\ s \in Inside(PlansOf(tool))
  BY <1>1 DEF Sound, Does
<1>3. s \in PlansOf(tool)
  BY <1>2, PlansAssumption
<1>4. plan \in Seq(ToSet(plan)) /\ s \in Seq(ToSet(s))
  BY <1>3, PlansAssumption DEF Sound
<1>5. PICK m, at : Woven(new, plan, s, k, m, Len(plan), at)
  BY <1>1, <1>2, <1>4, SpreadIsWoven
<1>6. PICK p : p = n * Len(s)
  OBVIOUS
<1>7. new \in Seq(ToSet(new))
  <2>1. new = Spread(plan, k, s, n)
    BY <1>1
  <2> QED
    BY <2>1, <1>2, <1>4, <1>6, SpreadPlaces
<1>8. Len(new) \in Nat /\ DOMAIN new = 1 .. Len(new)
  BY <1>7
<1>9. Len(plan) - 1 + m \in Nat /\ DOMAIN new = 1 .. Len(plan) - 1 + m
  BY <1>5 DEF Woven
<1>10. Len(new) = Len(plan) - 1 + m
  <2>1. PICK x \in Nat, y \in Nat : x = Len(new) /\ y = Len(plan) - 1 + m
    BY <1>8, <1>9
  <2>2. 1 .. x = 1 .. y
    BY <2>1, <1>8, <1>9
  <2>3. x \in 1 .. x \/ x = 0
    OBVIOUS
  <2>4. y \in 1 .. y \/ y = 0
    OBVIOUS
  <2>5. (x \in 1 .. y \/ x = 0) /\ (y \in 1 .. x \/ y = 0)
    BY <2>2, <2>3, <2>4
  <2>6. x = y
    BY <2>5
  <2> QED
    BY <2>1, <2>6
<1>11. \A i \in DOMAIN new :
         \/ \E j \in DOMAIN plan : new[i] = plan[j]
         \/ \E j \in DOMAIN s : new[i] = s[j]
  BY <1>5, WovenDoes
<1>12. \A i \in Does(new, Options) : new[i][2] \in Inside(PlansOf(tool))
  <2> SUFFICES ASSUME NEW i \in Does(new, Options) PROVE new[i][2] \in Inside(PlansOf(tool))
    OBVIOUS
  <2>1. i \in DOMAIN new /\ new[i][1] \in Options
    BY DEF Does
  <2>2. CASE \E j \in DOMAIN plan : new[i] = plan[j]
    BY <2>1, <2>2 DEF Sound, Does
  <2>3. CASE \E j \in DOMAIN s : new[i] = s[j]
    BY <2>1, <2>3, <1>3 DEF Inside
  <2> QED
    BY <2>1, <2>2, <2>3, <1>11
<1>13. ASSUME NEW kinds, Does(plan, kinds) = {}, Does(s, kinds) = {}
       PROVE  Does(new, kinds) = {}
  BY <1>11, <1>13 DEF Does
<1>14. tool \notin Silent => Does(new, {"look", "skip", "gather", "slip"}) = {}
  BY <1>13, <1>3, PlansAssumption DEF Sound
<1>15. Does(new, {"make"}) # {} => tool \in DOMAIN BlockingTools
  BY <1>13, <1>3, PlansAssumption DEF Sound
<1>16. tool \notin Several => NothingRaisesAfter(new)
  BY <1>2, <1>5, <1>10, WovenRaises, PlansAssumption DEF Sound
<1>17. LooksBeforeItMakes(new)
  <2>1. LooksBeforeItMakes(plan) /\ LooksBeforeItMakes(s)
    BY <1>3, PlansAssumption DEF Sound
  <2>2. PICK L \in Nat : DOMAIN s = 1 .. L
    BY <1>4
  <2> QED
    BY <2>1, <2>2, <1>2, <1>5, WovenLooks
<1> QED
  BY <1>7, <1>12, <1>14, <1>15, <1>16, <1>17 DEF Sound

LEMMA WholeIsSound ==
    ASSUME NEW tool \in DOMAIN ToolPlans
    PROVE  Sound(tool, ToolPlans[tool])
<1>1. ToolPlans[tool] \in PlansOf(tool)
  BY DEF PlansOf
<1>2. \A k \in Does(ToolPlans[tool], Options) : ToolPlans[tool][k][2] \in Inside(PlansOf(tool))
  BY <1>1 DEF Inside, Does
<1> QED
  BY <1>1, <1>2, PlansAssumption DEF Sound

-----------------------------------------------------------------------------
(* The steps                                                               *)

LEMMA ToolsInvInit == ToolsInit => ToolsInv
<1> SUFFICES ASSUME ToolsInit PROVE ToolsInv
  OBVIOUS
<1>1. DOMAIN call = {}
  BY DEF ToolsInit
<1> QED
  BY <1>1 DEF ToolsInit, ToolsInv, ToolsTypeOK

LEMMA AskKeeps ==
    ASSUME ToolsInv, NEW turn \in Turns, AskTools(turn)
    PROVE  ToolsInv'
<1>1. PICK named \in [DOMAIN turn -> BOOLEAN] :
        call' = [c \in DOMAIN turn |-> NewCall(turn[c], named[c])]
  BY DEF AskTools
<1>2. turn \in Seq(DOMAIN ToolPlans)
  BY ToolsAssumption
<1>3. label' \in BOOLEAN /\ collided' = {}
  BY DEF AskTools, ToolsInv
<1>4. ASSUME NEW c \in DOMAIN call'
      PROVE  CallTypeOK(c)' /\ RepeatOK(c)' /\ ReportOK(c)' /\ LabelOK(c)'
  <2>1. c \in DOMAIN turn /\ call'[c] = NewCall(turn[c], named[c]) /\ turn[c] \in DOMAIN ToolPlans
    BY <1>1, <1>2, <1>4
  <2>2. Sound(turn[c], ToolPlans[turn[c]])
    BY <2>1, WholeIsSound
  <2>3. /\ DOMAIN call'[c] = Fields
        /\ call'[c].tool = turn[c] /\ call'[c].plan = ToolPlans[turn[c]]
        /\ call'[c].at = 1 /\ call'[c].status = "asked" /\ call'[c].tries = 1
        /\ call'[c].made = <<>> /\ call'[c].found = FALSE /\ call'[c].nothing = FALSE
        /\ call'[c].hidden = FALSE /\ call'[c].told = FALSE
    BY <2>1 DEF NewCall, Fields
  <2>4. CallTypeOK(c)'
    <3>1. Sound(call'[c].tool, call'[c].plan)
      BY <2>2, <2>3
    <3> QED
      <4>1. IF call'[c].status = "asked" /\ call'[c].tries = 1 THEN call'[c].made = <<>>
            ELSE /\ Does(call'[c].plan, Options) = {}
                 /\ call'[c].made \in [DOMAIN call'[c].plan -> Nat]
        BY <2>3
      <4>2. /\ call'[c].tool \in DOMAIN ToolPlans
            /\ call'[c].at \in Nat \ {0}
            /\ call'[c].status \in {"asked", "running", "success", "error"}
            /\ call'[c].tries \in Nat \ {0}
        BY <2>1, <2>3
      <4>3. /\ call'[c].found \in BOOLEAN /\ call'[c].nothing \in BOOLEAN
            /\ call'[c].hidden \in BOOLEAN /\ call'[c].told \in BOOLEAN
        BY <2>3
      <4> QED
        BY <2>3, <3>1, <4>1, <4>2, <4>3 DEF CallTypeOK
  <2>5. RepeatOK(c)' /\ ReportOK(c)' /\ LabelOK(c)'
    BY <2>3 DEF RepeatOK, ReportOK, LabelOK, Runs
  <2> QED
    BY <2>4, <2>5
<1> QED
  BY <1>3, <1>4 DEF ToolsInv, ToolsTypeOK

\* The other calls do not notice, when the labels only grow and what was looked up stays so.
LEMMA OthersKeep ==
    ASSUME ToolsInv, NEW d \in DOMAIN call, call'[d] = call[d],
           label' \in BOOLEAN, label => label', Runs(d) /\ Looked(d) => label' = label
    PROVE  CallTypeOK(d)' /\ RepeatOK(d)' /\ ReportOK(d)' /\ LabelOK(d)'
<1>1. CallTypeOK(d) /\ RepeatOK(d) /\ ReportOK(d) /\ LabelOK(d)
  BY DEF ToolsInv, ToolsTypeOK
<1>2. CallTypeOK(d)'
  BY <1>1 DEF CallTypeOK
<1>3. RepeatOK(d)'
  BY <1>1 DEF RepeatOK, Runs
<1>4. ReportOK(d)'
  BY <1>1 DEF ReportOK, Runs
<1>5. LabelOK(d)'
  <2>1. Looked(d)' <=> Looked(d)
    BY DEF Looked
  <2>2. Runs(d)' <=> Runs(d)
    BY DEF Runs
  <2> QED
    BY <1>1, <2>1, <2>2 DEF LabelOK
<1> QED
  BY <1>2, <1>3, <1>4, <1>5

\* A step of one call.
LEMMA OneCall ==
    ASSUME ToolsInv, NEW c \in DOMAIN call, DOMAIN call' = DOMAIN call,
           \A d \in DOMAIN call \ {c} : call'[d] = call[d],
           label' \in BOOLEAN, label => label', collided' = {},
           \A d \in DOMAIN call \ {c} : Runs(d) /\ Looked(d) => label' = label,
           CallTypeOK(c)', RepeatOK(c)', ReportOK(c)', LabelOK(c)'
    PROVE  ToolsInv'
<1>1. ASSUME NEW d \in DOMAIN call, d # c
      PROVE  CallTypeOK(d)' /\ RepeatOK(d)' /\ ReportOK(d)' /\ LabelOK(d)'
  BY <1>1, OthersKeep
<1> QED
  BY <1>1 DEF ToolsInv, ToolsTypeOK

\* Of natural numbers there is a least.
LEMMA LeastPlace ==
    ASSUME NEW T \in SUBSET Nat, T # {}
    PROVE  \E n \in T : \A m \in T : n <= m
<1> DEFINE R == {ss \in Nat \X Nat : ss[1] < ss[2]}
<1>1. IsWellFoundedOn(R, Nat)
  BY NatLessThanWellFounded DEF OpToRel
<1>2. \E x \in T : \A y \in T : ~(<<y, x>> \in R)
  <2> HIDE DEF R
  <2> QED
    BY <1>1, WFMin, Zenon
<1>3. PICK x \in T : \A y \in T : ~(<<y, x>> \in R)
  BY <1>2
<1>4. ASSUME NEW y \in T PROVE x <= y
  <2>1. x \in Nat /\ y \in Nat
    OBVIOUS
  <2>2. y < x => <<y, x>> \in R
    BY <2>1
  <2> HIDE DEF R
  <2> QED
    BY <1>3, <2>1, <2>2
<1> QED
  BY <1>4

\* The place of the choice of a plan is its first.
LEMMA ChoiceIsFirst ==
    ASSUME NEW c \in DOMAIN call, CallTypeOK(c)
    PROVE  /\ Choice(c) = 0 <=> Does(call[c].plan, Options) = {}
           /\ Choice(c) > 0 => Choice(c) \in Does(call[c].plan, Options)
<1> DEFINE I == {i \in 1 .. Len(call[c].plan) : call[c].plan[i][1] \in Options}
<1>1. Len(call[c].plan) \in Nat /\ DOMAIN call[c].plan = 1 .. Len(call[c].plan)
  BY DEF CallTypeOK, Sound
<1>2. I = Does(call[c].plan, Options)
  BY <1>1 DEF Does
<1>3. CASE I = {}
  <2>1. Choice(c) = 0
    BY <1>3 DEF Choice, SelectInSeq
  <2> QED
    BY <2>1, <1>2, <1>3
<1>4. CASE I # {}
  <2>1. I \subseteq Nat
    BY <1>1
  <2>2. \E i \in I : \A j \in I : i <= j
    BY <2>1, <1>4, LeastPlace
  <2>3. Choice(c) = CHOOSE i \in I : \A j \in I : i <= j
    BY <1>4 DEF Choice, SelectInSeq, Min
  <2>4. Choice(c) \in I
    BY <2>2, <2>3
  <2> QED
    BY <2>4, <1>1, <1>2
<1> QED
  BY <1>3, <1>4

LEMMA ChooseKeeps ==
    ASSUME ToolsInv, NEW c \in DOMAIN call, NEW n \in 0 .. MaxItems, Choose(c, n)
    PROVE  ToolsInv'
<1>1. CallTypeOK(c) /\ n \in Nat
  BY ToolsAssumption DEF ToolsInv, ToolsTypeOK
<1>2. PICK k, plan : k = Choice(c) /\ plan = call[c].plan
  OBVIOUS
<1>3. k \in Does(plan, Options)
  BY <1>1, <1>2, ChoiceIsFirst DEF Choose
<1>4. call[c].status = "asked" /\ call[c].tries = 1 /\ call[c].made = <<>>
  BY <1>1, <1>2, <1>3 DEF CallTypeOK
<1>5. PICK new : new = Spread(plan, k, plan[k][2], n)
  OBVIOUS
<1>6. call' = [call EXCEPT ![c].plan = new]
  BY <1>2, <1>5 DEF Choose, Spread
<1>7. Sound(call[c].tool, new)
  BY <1>1, <1>2, <1>3, <1>5, SpreadIsSound DEF CallTypeOK
<1>8. DOMAIN call' = DOMAIN call /\ call'[c] = [call[c] EXCEPT !.plan = new]
      /\ \A d \in DOMAIN call \ {c} : call'[d] = call[d]
  BY <1>6
<1>9. /\ DOMAIN call'[c] = Fields /\ call'[c].plan = new
      /\ \A f \in Fields \ {"plan"} : call'[c][f] = call[c][f]
  BY <1>1, <1>8 DEF CallTypeOK, Fields
<1>10. label' = label /\ label \in BOOLEAN /\ collided' = {}
  BY DEF Choose, ToolsInv, ToolsTypeOK
<1>11. CallTypeOK(c)'
  BY <1>1, <1>4, <1>7, <1>9 DEF CallTypeOK, Fields
<1>12. call'[c].made = <<>> /\ call'[c].status = "asked"
  BY <1>4, <1>9 DEF Fields
<1>13. RepeatOK(c)' /\ ReportOK(c)' /\ LabelOK(c)'
  BY <1>12 DEF RepeatOK, ReportOK, LabelOK, Runs
<1> QED
  BY <1>8, <1>10, <1>11, <1>13, OneCall

LEMMA StartKeeps ==
    ASSUME ToolsInv, NEW c \in DOMAIN call, StartCall(c)
    PROVE  ToolsInv'
<1>1. CallTypeOK(c) /\ RepeatOK(c)
  BY DEF ToolsInv, ToolsTypeOK
<1>2. call[c].status = "asked" /\ Does(call[c].plan, Options) = {}
  BY <1>1, ChoiceIsFirst DEF StartCall
<1>3. PICK made : made = IF call[c].tries = 1 THEN [i \in DOMAIN call[c].plan |-> 0]
                         ELSE call[c].made
  OBVIOUS
<1>4. /\ DOMAIN call' = DOMAIN call /\ \A d \in DOMAIN call \ {c} : call'[d] = call[d]
      /\ DOMAIN call'[c] = Fields
      /\ call'[c].status = "running" /\ call'[c].at = 1 /\ call'[c].made = made
      /\ call'[c].found = FALSE /\ call'[c].nothing = FALSE
      /\ call'[c].hidden = FALSE /\ call'[c].told = FALSE
      /\ call'[c].tool = call[c].tool /\ call'[c].plan = call[c].plan
      /\ call'[c].tries = call[c].tries /\ call'[c].lost = call[c].lost
  BY <1>1, <1>3 DEF StartCall, Changed, CallTypeOK, Fields
<1>5. label' = label /\ label \in BOOLEAN /\ collided' = {}
  BY DEF StartCall, ToolsInv, ToolsTypeOK
<1>6. made \in [DOMAIN call[c].plan -> Nat]
  BY <1>1, <1>2, <1>3 DEF CallTypeOK
<1>7. CallTypeOK(c)'
  <2>1. IF call'[c].status = "asked" /\ call'[c].tries = 1 THEN call'[c].made = <<>>
        ELSE /\ Does(call'[c].plan, Options) = {}
             /\ call'[c].made \in [DOMAIN call'[c].plan -> Nat]
    BY <1>2, <1>4, <1>6
  <2>2. Sound(call'[c].tool, call'[c].plan)
    BY <1>1, <1>4 DEF CallTypeOK
  <2>3. /\ call'[c].tool \in DOMAIN ToolPlans
        /\ call'[c].at \in Nat \ {0}
        /\ call'[c].status \in {"asked", "running", "success", "error"}
        /\ call'[c].tries \in Nat \ {0}
    BY <1>1, <1>4 DEF CallTypeOK
  <2>4. /\ call'[c].found \in BOOLEAN /\ call'[c].nothing \in BOOLEAN
        /\ call'[c].hidden \in BOOLEAN /\ call'[c].told \in BOOLEAN
    BY <1>4
  <2> QED
    BY <1>4, <2>1, <2>2, <2>3, <2>4 DEF CallTypeOK
<1>8. RepeatOK(c)'
  <2>1. CASE call[c].tries = 1
    BY <2>1, <1>3, <1>4 DEF RepeatOK
  <2>2. CASE call[c].tries # 1
    BY <2>2, <1>1, <1>2, <1>3, <1>4 DEF RepeatOK, Runs
  <2> QED
    BY <2>1, <2>2
<1>9. \A i \in DOMAIN call[c].plan : i \in Nat /\ ~(i < 1)
  BY <1>1 DEF CallTypeOK, Sound
<1>10. ReportOK(c)'
  BY <1>4, <1>9 DEF ReportOK, Runs
<1>11. LabelOK(c)'
  BY <1>4, <1>9 DEF LabelOK, Looked, Does
<1> QED
  BY <1>4, <1>5, <1>7, <1>8, <1>10, <1>11, OneCall

LEMMA RepeatKeeps ==
    ASSUME ToolsInv, NEW again \in SUBSET DOMAIN call, Repeat(again)
    PROVE  ToolsInv'
<1>1. PICK named \in [again -> BOOLEAN] :
        call' = [c \in DOMAIN call |->
            IF c \notin again THEN call[c]
            ELSE [call[c] EXCEPT !.status = "asked", !.tries = @ + 1, !.named = named[c]]]
  BY DEF Repeat
<1>2. label' = label /\ label \in BOOLEAN /\ collided' = {}
  BY DEF Repeat, ToolsInv, ToolsTypeOK
<1>3. ASSUME NEW c \in DOMAIN call
      PROVE  CallTypeOK(c)' /\ RepeatOK(c)' /\ ReportOK(c)' /\ LabelOK(c)'
  <2>1. CallTypeOK(c) /\ RepeatOK(c)
    BY DEF ToolsInv, ToolsTypeOK
  <2>2. CASE c \notin again
    BY <1>1, <1>2, <2>2, OthersKeep
  <2>3. CASE c \in again
    <3>1. call[c].status = "error"
      BY <2>3 DEF Repeat
    <3>2. call'[c] = [call[c] EXCEPT !.status = "asked", !.tries = @ + 1, !.named = named[c]]
      BY <1>1, <2>3
    <3>3. /\ DOMAIN call'[c] = Fields
          /\ call'[c].status = "asked" /\ call'[c].tries = call[c].tries + 1
          /\ \A f \in Fields \ {"status", "tries", "named"} : call'[c][f] = call[c][f]
      BY <2>1, <3>2 DEF CallTypeOK, Fields
    <3>4. call'[c].tries \in Nat \ {0} /\ call'[c].tries # 1
      BY <2>1, <3>3 DEF CallTypeOK
    <3>5. CallTypeOK(c)'
      BY <2>1, <3>1, <3>3, <3>4 DEF CallTypeOK, Fields
    <3>6. RepeatOK(c)'
      BY <2>1, <3>1, <3>3 DEF RepeatOK, Runs, Fields
    <3>7. ReportOK(c)' /\ LabelOK(c)'
      BY <3>3 DEF ReportOK, LabelOK, Runs
    <3> QED
      BY <3>5, <3>6, <3>7
  <2> QED
    BY <2>2, <2>3
<1>4. DOMAIN call' = DOMAIN call
  BY <1>1
<1> QED
  BY <1>2, <1>3, <1>4 DEF ToolsInv, ToolsTypeOK

\* What a step of a call may change: not its tool, its plan or the times it was asked for.
Steppable == {"status", "made", "lost", "found", "nothing", "hidden", "told"}

Fitting(c, changes) ==
    /\ DOMAIN changes \subseteq Steppable
    /\ "status" \in DOMAIN changes => changes["status"] \in {"success", "error"}
    /\ "made" \in DOMAIN changes => changes["made"] \in [DOMAIN call[c].plan -> Nat]
    /\ \A f \in DOMAIN changes \cap {"found", "nothing", "hidden", "told"} : changes[f] \in BOOLEAN

LEMMA StepTypes ==
    ASSUME NEW c \in DOMAIN call, CallTypeOK(c), Runs(c), NEW changes, Fitting(c, changes),
           NEW at \in Nat \ {0}, Becomes(c, changes, at)
    PROVE  CallTypeOK(c)'
<1>1. /\ call'[c].tool = call[c].tool /\ call'[c].plan = call[c].plan
      /\ call'[c].tries = call[c].tries /\ call'[c].at = at /\ DOMAIN call'[c] = Fields
  BY DEF Fitting, Becomes, Fields, Steppable
<1>2. /\ call'[c].status = IF "status" \in DOMAIN changes THEN changes["status"] ELSE call[c].status
      /\ call'[c].made = IF "made" \in DOMAIN changes THEN changes["made"] ELSE call[c].made
  BY DEF Becomes, Fields
<1>3. \A f \in {"found", "nothing", "hidden", "told"} :
        call'[c][f] = IF f \in DOMAIN changes THEN changes[f] ELSE call[c][f]
  BY DEF Becomes, Fields
<1>4. /\ call[c].status = "running" /\ Does(call[c].plan, Options) = {}
      /\ call[c].made \in [DOMAIN call[c].plan -> Nat]
  BY DEF CallTypeOK, Runs
<1>5. /\ call'[c].status \in {"running", "success", "error"}
      /\ call'[c].made \in [DOMAIN call[c].plan -> Nat]
  BY <1>2, <1>4 DEF Fitting
<1>6. IF call'[c].status = "asked" /\ call'[c].tries = 1 THEN call'[c].made = <<>>
      ELSE /\ Does(call'[c].plan, Options) = {}
           /\ call'[c].made \in [DOMAIN call'[c].plan -> Nat]
  BY <1>1, <1>4, <1>5
<1>7. Sound(call'[c].tool, call'[c].plan)
  BY <1>1 DEF CallTypeOK
<1>8. \A f \in {"found", "nothing", "hidden", "told"} : call[c][f] \in BOOLEAN
  BY DEF CallTypeOK
<1>9. /\ call'[c].found \in BOOLEAN /\ call'[c].nothing \in BOOLEAN
      /\ call'[c].hidden \in BOOLEAN /\ call'[c].told \in BOOLEAN
  BY <1>3, <1>8 DEF Fitting
<1>10. /\ call'[c].tool \in DOMAIN ToolPlans /\ call'[c].tries \in Nat \ {0}
       /\ call'[c].at \in Nat \ {0}
       /\ call'[c].status \in {"asked", "running", "success", "error"}
  BY <1>1, <1>5 DEF CallTypeOK
<1> QED
  BY <1>1, <1>6, <1>7, <1>9, <1>10 DEF CallTypeOK

\* The step a call is at.
LEMMA AtStep ==
    ASSUME NEW c \in DOMAIN call, CallTypeOK(c), Runs(c), ~AtEnd(c)
    PROVE  /\ call[c].at \in DOMAIN call[c].plan /\ Kind(c) \notin Options
           /\ DOMAIN call[c].made = DOMAIN call[c].plan
           /\ \A i \in DOMAIN call[c].plan : i \in Nat /\ call[c].made[i] \in Nat
<1>1. Len(call[c].plan) \in Nat /\ DOMAIN call[c].plan = 1 .. Len(call[c].plan)
  BY DEF CallTypeOK, Sound
<1>2. Does(call[c].plan, Options) = {} /\ call[c].made \in [DOMAIN call[c].plan -> Nat]
  BY DEF CallTypeOK, Runs
<1>3. call[c].at \in DOMAIN call[c].plan
  BY <1>1 DEF CallTypeOK, AtEnd
<1>4. Kind(c) \notin Options
  BY <1>2, <1>3 DEF Does, Kind
<1> QED
  BY <1>1, <1>2, <1>3, <1>4

\* While a call steps, no other is between looking for the label and creating it.
LEMMA NobodyLooked ==
    ASSUME ToolsInv, NEW c \in DOMAIN call, Free(c)
    PROVE  \A d \in DOMAIN call \ {c} : ~(Runs(d) /\ Looked(d))
<1> SUFFICES ASSUME NEW d \in DOMAIN call \ {c}, Runs(d), Looked(d) PROVE FALSE
  OBVIOUS
<1>1. CallTypeOK(d) /\ ~Holds(d)
  BY DEF ToolsInv, ToolsTypeOK, Free
<1>2. PICK i \in Does(call[d].plan, {"find"}), j \in Does(call[d].plan, {"make"}) :
        /\ i < call[d].at /\ call[d].at <= j
        /\ (i + 1 .. j) \cap Does(call[d].plan, {"store", "gather"}) = {}
  BY DEF Looked
<1>3. call[d].tool \in DOMAIN BlockingTools
  BY <1>1, <1>2 DEF CallTypeOK, Sound
<1>4. i \in Nat /\ j \in Nat /\ call[d].at \in Nat
  BY <1>1 DEF CallTypeOK, Sound, Does
<1>5. call[d].at \in i + 1 .. j
  BY <1>2, <1>4
<1>6. AtEnd(d) \/ call[d].at \in DOMAIN call[d].plan
  BY <1>1, AtStep
<1>7. AtEnd(d) \/ Kind(d) \notin {"store", "gather"}
  BY <1>2, <1>5, <1>6 DEF Does, Kind
<1> QED
  BY <1>1, <1>3, <1>7 DEF Holds, Runs

\* Only what the results are about may be refused after a change that is made again.
LEMMA RaisesEarly ==
    ASSUME NEW c \in DOMAIN call, CallTypeOK(c), Runs(c), ~AtEnd(c),
           call[c].tool \notin Several, Kind(c) \notin {"count", "known", "any"},
           NEW i \in Does(call[c].plan, {"add", "store"})
    PROVE  call[c].at <= i
<1>1. NothingRaisesAfter(call[c].plan) /\ i \in Nat /\ call[c].at \in Nat
  BY DEF CallTypeOK, Sound, Does
<1>2. Len(call[c].plan) \in Nat /\ DOMAIN call[c].plan = 1 .. Len(call[c].plan)
  BY DEF CallTypeOK, Sound
<1>3. call[c].at \in DOMAIN call[c].plan
  BY AtStep
<1>4. CASE i < call[c].at
  <2>1. call[c].at \in i + 1 .. Len(call[c].plan)
    BY <1>1, <1>2, <1>3, <1>4
  <2>2. call[c].at \in Does(call[c].plan, {"count", "known", "any"})
    BY <1>1, <2>1 DEF NothingRaisesAfter
  <2> QED
    BY <2>2 DEF Does, Kind
<1> QED
  BY <1>1, <1>4

\* A call that raises.
LEMMA RaisesKeeps ==
    ASSUME ToolsInv, NEW c \in DOMAIN call, Runs(c), Free(c), ~AtEnd(c),
           Kind(c) \notin {"count", "known", "any"}, Raises(c),
           label' \in BOOLEAN, label => label', collided' = {}
    PROVE  ToolsInv'
<1>1. CallTypeOK(c) /\ RepeatOK(c)
  BY DEF ToolsInv, ToolsTypeOK
<1>2. PICK changes : changes = [status |-> "error"]
  OBVIOUS
<1>3. DOMAIN changes = {"status"} /\ changes["status"] = "error"
  BY <1>2
<1>4. Becomes(c, changes, call[c].at)
  <2>1. Ends(c, changes) /\ DOMAIN changes \subseteq Fields \ {"at"}
    BY <1>2, <1>3 DEF Raises, Fields
  <2> QED
    BY <1>1, <2>1, EndsMeans
<1>5. CallTypeOK(c)'
  <2>1. Fitting(c, changes)
    BY <1>3 DEF Fitting, Steppable
  <2> QED
    BY <1>1, <1>4, <2>1, StepTypes DEF CallTypeOK
<1>6. /\ call'[c].status = "error" /\ call'[c].at = call[c].at
      /\ call'[c].tool = call[c].tool /\ call'[c].plan = call[c].plan
      /\ call'[c].made = call[c].made /\ call'[c].lost = call[c].lost
  BY <1>3, <1>4 DEF Becomes, Fields
<1>7. RepeatOK(c)'
  <2> SUFFICES ASSUME call[c].tool \notin Several, NEW i \in DOMAIN call[c].made
               PROVE  \/ call[c].made[i] = 0
                      \/ call[c].made[i] = 1 /\ call[c].plan[i][1] \notin {"add", "store"}
                      \/ i \in call[c].lost
    BY <1>6 DEF RepeatOK
  <2>1. i \in DOMAIN call[c].plan /\ i \in Nat /\ call[c].at \in Nat
    BY <1>1, AtStep DEF CallTypeOK
  <2>2. call[c].plan[i][1] \in {"add", "store"} => call[c].at <= i
    BY <1>1, <2>1, RaisesEarly DEF Does
  <2>3. call[c].plan[i][1] \in {"add", "store"} => ~(i < call[c].at)
    BY <2>1, <2>2
  <2>4. call[c].status = "running"
    BY DEF Runs
  <2> QED
    BY <1>1, <2>3, <2>4 DEF RepeatOK
<1>8. ReportOK(c)' /\ LabelOK(c)'
  BY <1>6 DEF ReportOK, LabelOK, Runs
<1>9. \A d \in DOMAIN call \ {c} : Runs(d) /\ Looked(d) => label' = label
  BY NobodyLooked
<1>10. DOMAIN call' = DOMAIN call /\ \A d \in DOMAIN call \ {c} : call'[d] = call[d]
  BY <1>4 DEF Becomes
<1> QED
  BY <1>5, <1>7, <1>8, <1>9, <1>10, OneCall

\* A call that loses the answer to a change.
LEMMA LosesKeeps ==
    ASSUME ToolsInv, NEW c \in DOMAIN call, Runs(c), Free(c), ~AtEnd(c),
           Kind(c) \in Changes \ {"count"},
           Ends(c, [status |-> "error", made |-> Applied(c), lost |-> LostToo(c)]),
           label' = label, collided' = {}
    PROVE  ToolsInv'
<1>1. CallTypeOK(c) /\ RepeatOK(c)
  BY DEF ToolsInv, ToolsTypeOK
<1>2. PICK made, gone, changes :
        /\ made = Applied(c) /\ gone = LostToo(c)
        /\ changes = [status |-> "error", made |-> made, lost |-> gone]
  OBVIOUS
<1>3. /\ DOMAIN changes = {"status", "made", "lost"} /\ changes["status"] = "error"
      /\ changes["made"] = made /\ changes["lost"] = gone
  BY <1>2
<1>4. Becomes(c, changes, call[c].at)
  <2>1. Ends(c, changes) /\ DOMAIN changes \subseteq Fields \ {"at"}
    BY <1>2, <1>3 DEF Fields
  <2> QED
    BY <1>1, <2>1, EndsMeans
<1>5. /\ call[c].at \in DOMAIN call[c].plan
      /\ \A i \in DOMAIN call[c].plan : i \in Nat /\ call[c].made[i] \in Nat
      /\ call[c].made \in [DOMAIN call[c].plan -> Nat]
  BY <1>1, AtStep DEF CallTypeOK, Runs
<1>6. /\ made \in [DOMAIN call[c].plan -> Nat]
      /\ \A i \in DOMAIN call[c].plan \ {call[c].at} : made[i] = call[c].made[i]
  BY <1>2, <1>5 DEF Applied
<1>7. CallTypeOK(c)'
  <2>1. Fitting(c, changes)
    BY <1>3, <1>6 DEF Fitting, Steppable
  <2> QED
    BY <1>1, <1>4, <2>1, StepTypes DEF CallTypeOK
<1>8. /\ call'[c].status = "error" /\ call'[c].tool = call[c].tool /\ call'[c].plan = call[c].plan
      /\ call'[c].made = made /\ call'[c].lost = gone
  BY <1>3, <1>4 DEF Becomes, Fields
<1>9. RepeatOK(c)'
  <2> SUFFICES ASSUME call[c].tool \notin Several, NEW i \in DOMAIN call[c].plan
               PROVE  \/ made[i] = 0
                      \/ made[i] = 1 /\ call[c].plan[i][1] \notin {"add", "store"}
                      \/ i \in gone
    BY <1>6, <1>8 DEF RepeatOK
  <2>1. CASE i = call[c].at
    BY <1>2, <2>1 DEF LostToo
  <2>2. CASE i # call[c].at
    <3>1. i \in DOMAIN call[c].made /\ made[i] = call[c].made[i]
      BY <1>5, <1>6, <2>2
    <3>2. i \in call[c].lost => i \in gone
      BY <1>2 DEF LostToo
    <3>3. i \in Nat /\ call[c].at \in Nat
      BY <1>5
    <3>4. call[c].plan[i][1] \in {"add", "store"} => call[c].at <= i
      BY <1>1, RaisesEarly DEF Does, Changes
    <3>5. call[c].plan[i][1] \in {"add", "store"} => ~(i < call[c].at)
      BY <3>3, <3>4
    <3>6. call[c].status = "running"
      BY DEF Runs
    <3> QED
      BY <1>1, <3>1, <3>2, <3>5, <3>6 DEF RepeatOK
  <2> QED
    BY <2>1, <2>2
<1>10. ReportOK(c)' /\ LabelOK(c)'
  BY <1>8 DEF ReportOK, LabelOK, Runs
<1>11. DOMAIN call' = DOMAIN call /\ \A d \in DOMAIN call \ {c} : call'[d] = call[d]
  BY <1>4 DEF Becomes
<1>12. label' \in BOOLEAN
  BY DEF ToolsInv, ToolsTypeOK
<1> QED
  BY <1>7, <1>9, <1>10, <1>11, <1>12, OneCall

\* A call that returns its result, or says what is missing.
LEMMA SucceedsKeeps ==
    ASSUME ToolsInv, NEW c \in DOMAIN call, Runs(c), NEW changes,
           \/ AtEnd(c) /\ changes = [status |-> "success"]
           \/ changes = [status |-> "success", told |-> TRUE],
           Ends(c, changes), label' = label, collided' = {}
    PROVE  ToolsInv'
<1>1. CallTypeOK(c) /\ RepeatOK(c) /\ ReportOK(c)
  BY DEF ToolsInv, ToolsTypeOK
<1>2. /\ DOMAIN changes \subseteq {"status", "told"} /\ "status" \in DOMAIN changes
      /\ changes["status"] = "success"
      /\ "told" \in DOMAIN changes => changes["told"] = TRUE
      /\ AtEnd(c) \/ "told" \in DOMAIN changes
  OBVIOUS
<1>3. Becomes(c, changes, call[c].at)
  <2>1. DOMAIN changes \subseteq Fields \ {"at"}
    BY <1>2 DEF Fields
  <2> QED
    BY <1>1, <2>1, EndsMeans
<1>4. CallTypeOK(c)'
  <2>1. Fitting(c, changes)
    BY <1>2 DEF Fitting, Steppable
  <2> QED
    BY <1>1, <1>3, <2>1, StepTypes DEF CallTypeOK
<1>5. /\ call'[c].status = "success" /\ call'[c].at = call[c].at
      /\ call'[c].tool = call[c].tool /\ call'[c].plan = call[c].plan
      /\ call'[c].made = call[c].made /\ call'[c].lost = call[c].lost
      /\ call'[c].hidden = call[c].hidden
      /\ call'[c].told = IF "told" \in DOMAIN changes THEN TRUE ELSE call[c].told
  BY <1>2, <1>3 DEF Becomes, Fields
<1>6. RepeatOK(c)'
  BY <1>1, <1>5 DEF RepeatOK
<1>7. AtEnd(c) => \A i \in DOMAIN call[c].plan : i < call[c].at
  <2>1. /\ Len(call[c].plan) \in Nat /\ DOMAIN call[c].plan = 1 .. Len(call[c].plan)
        /\ call[c].at \in Nat
    BY <1>1 DEF CallTypeOK, Sound
  <2> QED
    BY <2>1 DEF AtEnd
<1>8. ReportOK(c)'
  BY <1>1, <1>2, <1>5, <1>7 DEF ReportOK, Runs
<1>9. LabelOK(c)'
  BY <1>5 DEF LabelOK, Runs
<1>10. DOMAIN call' = DOMAIN call /\ \A d \in DOMAIN call \ {c} : call'[d] = call[d]
  BY <1>3 DEF Becomes
<1>11. label' \in BOOLEAN
  BY DEF ToolsInv, ToolsTypeOK
<1> QED
  BY <1>4, <1>6, <1>8, <1>9, <1>10, <1>11, OneCall

\* What a call that goes on knows of the label.
KnowsLabel(c) ==
    IF Kind(c) = "find" THEN call'[c].found = label'
    ELSE call'[c].found \/ (label' = label /\ call'[c].found = call[c].found)

LEMMA LabelKept ==
    ASSUME ToolsInv, NEW c \in DOMAIN call, Runs(c), ~AtEnd(c), label' \in BOOLEAN,
           call'[c].plan = call[c].plan, call'[c].at = call[c].at + 1, KnowsLabel(c)
    PROVE  LabelOK(c)'
<1>1. CallTypeOK(c) /\ LabelOK(c)
  BY DEF ToolsInv, ToolsTypeOK
<1> SUFFICES ASSUME Looked(c)', label' PROVE call'[c].found
  BY DEF LabelOK
<1>2. PICK i \in Does(call[c].plan, {"find"}), j \in Does(call[c].plan, {"make"}) :
        /\ i < call[c].at + 1 /\ call[c].at + 1 <= j
        /\ (i + 1 .. j) \cap Does(call[c].plan, {"store", "gather"}) = {}
  BY DEF Looked
<1>3. i \in Nat /\ j \in Nat /\ call[c].at \in Nat
  BY <1>1 DEF CallTypeOK, Sound, Does
<1>4. CASE Kind(c) = "find"
  BY <1>4 DEF KnowsLabel
<1>5. CASE Kind(c) # "find"
  <2>1. i # call[c].at
    BY <1>5 DEF Does, Kind
  <2>2. i < call[c].at /\ call[c].at <= j
    BY <1>2, <1>3, <2>1
  <2>3. Looked(c)
    BY <1>2, <2>2 DEF Looked
  <2>4. label => call[c].found
    BY <1>1, <2>3 DEF LabelOK
  <2> QED
    BY <1>5, <2>4 DEF KnowsLabel
<1> QED
  BY <1>4, <1>5

\* A call that goes on, without a change it is told of.
LEMMA GoesKeeps ==
    ASSUME ToolsInv, NEW c \in DOMAIN call, Runs(c), Free(c), ~AtEnd(c), NEW changes,
           DOMAIN changes \subseteq {"found", "nothing", "hidden", "told"},
           \A f \in DOMAIN changes : changes[f] \in BOOLEAN,
           "told" \in DOMAIN changes => changes["told"] = TRUE,
           "hidden" \in DOMAIN changes => Kind(c) \in {"look", "skip", "gather", "slip"},
           Kind(c) \in Changes => "told" \in DOMAIN changes \/ Kind(c) = "slip",
           Goes(c, changes),
           label' \in BOOLEAN, label => label', collided' = {},
           call'[c].found => label', KnowsLabel(c), Kind(c) = "make" => label'
    PROVE  ToolsInv'
<1>1. CallTypeOK(c) /\ RepeatOK(c) /\ ReportOK(c)
  BY DEF ToolsInv, ToolsTypeOK
<1>2. Becomes(c, changes, call[c].at + 1)
  <2>1. DOMAIN changes \subseteq Fields \ {"at"}
    BY DEF Fields
  <2> QED
    BY <1>1, <2>1, GoesMeans
<1>3. call[c].at \in Nat \ {0} /\ call[c].at + 1 \in Nat \ {0}
  BY <1>1 DEF CallTypeOK
<1>4. CallTypeOK(c)'
  <2>1. Fitting(c, changes)
    BY DEF Fitting, Steppable
  <2> QED
    BY <1>1, <1>2, <1>3, <2>1, StepTypes
<1>5. /\ call'[c].status = "running" /\ call'[c].at = call[c].at + 1
      /\ call'[c].tool = call[c].tool /\ call'[c].plan = call[c].plan
      /\ call'[c].made = call[c].made /\ call'[c].lost = call[c].lost
      /\ call'[c].told = IF "told" \in DOMAIN changes THEN TRUE ELSE call[c].told
      /\ "hidden" \notin DOMAIN changes => call'[c].hidden = call[c].hidden
  BY <1>2 DEF Becomes, Fields, Runs
<1>6. /\ call[c].at \in DOMAIN call[c].plan
      /\ DOMAIN call[c].made = DOMAIN call[c].plan
      /\ \A i \in DOMAIN call[c].plan : i \in Nat
  BY <1>1, AtStep
<1>7. \A i \in DOMAIN call[c].plan :
        i < call[c].at + 1 <=> i < call[c].at \/ i = call[c].at
  BY <1>3, <1>6
<1>8. RepeatOK(c)'
  BY <1>1, <1>5, <1>6, <1>7 DEF RepeatOK, Runs
<1>9. ReportOK(c)'
  <2>1. call[c].tool \notin Silent => Kind(c) \notin {"look", "skip", "gather", "slip"}
    BY <1>1, <1>6 DEF CallTypeOK, Sound, Does, Kind
  <2>2. call[c].tool \notin Silent =>
          ~call[c].hidden /\ (call[c].told \/ \A i \in DOMAIN call[c].plan : i < call[c].at =>
                /\ call[c].plan[i][1] \in Changes => call[c].made[i] > 0
                /\ call[c].plan[i][1] = "make" => label)
    BY <1>1 DEF ReportOK, Runs
  <2>3. call[c].tool \notin Silent => ~call'[c].hidden
    BY <1>5, <2>1, <2>2
  <2>4. call[c].tool \notin Silent =>
          call'[c].told \/ \A i \in DOMAIN call[c].plan : i < call[c].at + 1 =>
                /\ call[c].plan[i][1] \in Changes => call[c].made[i] > 0
                /\ call[c].plan[i][1] = "make" => label'
    <3> SUFFICES ASSUME call[c].tool \notin Silent, ~call'[c].told,
                        NEW i \in DOMAIN call[c].plan, i < call[c].at + 1
                 PROVE  /\ call[c].plan[i][1] \in Changes => call[c].made[i] > 0
                        /\ call[c].plan[i][1] = "make" => label'
      OBVIOUS
    <3>1. ~call[c].told /\ "told" \notin DOMAIN changes
      BY <1>5
    <3>2. CASE i = call[c].at
      BY <2>1, <3>1, <3>2 DEF Kind
    <3>3. CASE i < call[c].at
      BY <2>2, <3>1, <3>3
    <3> QED
      BY <1>7, <3>2, <3>3
  <2> QED
    BY <1>5, <2>3, <2>4 DEF ReportOK, Runs
<1>10. LabelOK(c)'
  BY <1>5, LabelKept
<1>11. \A d \in DOMAIN call \ {c} : Runs(d) /\ Looked(d) => label' = label
  BY NobodyLooked
<1>12. DOMAIN call' = DOMAIN call /\ \A d \in DOMAIN call \ {c} : call'[d] = call[d]
  BY <1>2 DEF Becomes
<1> QED
  BY <1>4, <1>8, <1>9, <1>10, <1>11, <1>12, OneCall

\* A call that goes on after a change.
LEMMA MakesKeeps ==
    ASSUME ToolsInv, NEW c \in DOMAIN call, Runs(c), Free(c), ~AtEnd(c), Kind(c) \in Changes,
           NEW changes,
           \/ changes = [made |-> Applied(c)]
           \/ changes = [told |-> TRUE, made |-> Applied(c), lost |-> LostToo(c)],
           Goes(c, changes), label' = label, collided' = {}
    PROVE  ToolsInv'
<1>1. CallTypeOK(c) /\ RepeatOK(c) /\ ReportOK(c)
  BY DEF ToolsInv, ToolsTypeOK
<1>2. PICK made : made = Applied(c)
  OBVIOUS
<1>3. /\ DOMAIN changes \subseteq {"told", "made", "lost"} /\ "made" \in DOMAIN changes
      /\ changes["made"] = made
      /\ "told" \in DOMAIN changes => changes["told"] = TRUE
      /\ "lost" \in DOMAIN changes => changes["lost"] = LostToo(c)
  <2>1. CASE changes = [made |-> Applied(c)]
    BY <1>2, <2>1
  <2>2. CASE changes = [told |-> TRUE, made |-> Applied(c), lost |-> LostToo(c)]
    BY <1>2, <2>2
  <2> QED
    BY <2>1, <2>2
<1>4. Becomes(c, changes, call[c].at + 1)
  <2>1. DOMAIN changes \subseteq Fields \ {"at"}
    BY <1>3 DEF Fields
  <2> QED
    BY <1>1, <2>1, GoesMeans
<1>5. call[c].at \in Nat \ {0} /\ call[c].at + 1 \in Nat \ {0}
  BY <1>1 DEF CallTypeOK
<1>6. /\ call[c].at \in DOMAIN call[c].plan
      /\ \A i \in DOMAIN call[c].plan : i \in Nat /\ call[c].made[i] \in Nat
      /\ call[c].made \in [DOMAIN call[c].plan -> Nat]
  BY <1>1, AtStep DEF CallTypeOK, Runs
<1>7. /\ made \in [DOMAIN call[c].plan -> Nat]
      /\ \A i \in DOMAIN call[c].plan \ {call[c].at} : made[i] = call[c].made[i]
      /\ made[call[c].at] > 0
      /\ Kind(c) \in {"add", "store"} => made[call[c].at] = call[c].made[call[c].at] + 1
      /\ Kind(c) \notin {"add", "store"} => made[call[c].at] = 1
  BY <1>2, <1>6 DEF Applied
<1>8. CallTypeOK(c)'
  <2>1. Fitting(c, changes)
    BY <1>3, <1>7 DEF Fitting, Steppable
  <2> QED
    BY <1>1, <1>4, <1>5, <2>1, StepTypes
<1>9. /\ call'[c].status = "running" /\ call'[c].at = call[c].at + 1
      /\ call'[c].tool = call[c].tool /\ call'[c].plan = call[c].plan
      /\ call'[c].made = made
      /\ call'[c].found = call[c].found /\ call'[c].hidden = call[c].hidden
      /\ call'[c].told = IF "told" \in DOMAIN changes THEN TRUE ELSE call[c].told
      /\ call'[c].lost = IF "lost" \in DOMAIN changes THEN LostToo(c) ELSE call[c].lost
  BY <1>3, <1>4 DEF Becomes, Fields, Runs
<1>10. \A i \in DOMAIN call[c].plan :
        i < call[c].at + 1 <=> i < call[c].at \/ i = call[c].at
  BY <1>5, <1>6
<1>11. RepeatOK(c)'
  <2> SUFFICES ASSUME call[c].tool \notin Several, NEW i \in DOMAIN call[c].plan
               PROVE  \/ made[i] = 0
                      \/ made[i] = 1 /\ call[c].plan[i][1] \notin {"add", "store"}
                      \/ i \in call[c].lost
                      \/ made[i] = 1 /\ i < call[c].at + 1
    BY <1>7, <1>9 DEF RepeatOK, Runs, LostToo
  <2>1. \/ call[c].made[i] = 0
        \/ call[c].made[i] = 1 /\ call[c].plan[i][1] \notin {"add", "store"}
        \/ i \in call[c].lost
        \/ call[c].made[i] = 1 /\ i < call[c].at
    BY <1>1, <1>6 DEF RepeatOK, Runs
  <2>2. CASE i = call[c].at
    <3>1. ~(i < call[c].at)
      BY <1>5, <2>2
    <3>2. CASE Kind(c) \in {"add", "store"}
      <4>1. made[i] = call[c].made[i] + 1 /\ call[c].plan[i][1] \in {"add", "store"}
        BY <1>7, <2>2, <3>2 DEF Kind
      <4>2. call[c].made[i] = 0 \/ i \in call[c].lost
        BY <2>1, <3>1, <4>1
      <4>3. call[c].made[i] = 0 => made[i] = 1
        BY <4>1
      <4> QED
        BY <1>10, <2>2, <4>2, <4>3
    <3>3. CASE Kind(c) \notin {"add", "store"}
      BY <1>7, <2>2, <3>3 DEF Kind
    <3> QED
      BY <3>2, <3>3
  <2>3. CASE i # call[c].at
    BY <1>7, <1>10, <2>1, <2>3
  <2> QED
    BY <2>2, <2>3
<1>12. ReportOK(c)'
  <2>1. call[c].tool \notin Silent =>
          ~call[c].hidden /\ (call[c].told \/ \A i \in DOMAIN call[c].plan : i < call[c].at =>
                /\ call[c].plan[i][1] \in Changes => call[c].made[i] > 0
                /\ call[c].plan[i][1] = "make" => label)
    BY <1>1 DEF ReportOK, Runs
  <2>2. call[c].tool \notin Silent =>
          call'[c].told \/ \A i \in DOMAIN call[c].plan : i < call[c].at + 1 =>
                /\ call[c].plan[i][1] \in Changes => made[i] > 0
                /\ call[c].plan[i][1] = "make" => label
    <3> SUFFICES ASSUME call[c].tool \notin Silent, ~call'[c].told,
                        NEW i \in DOMAIN call[c].plan, i < call[c].at + 1
                 PROVE  /\ call[c].plan[i][1] \in Changes => made[i] > 0
                        /\ call[c].plan[i][1] = "make" => label
      OBVIOUS
    <3>1. ~call[c].told
      BY <1>9
    <3>2. CASE i = call[c].at
      BY <1>7, <3>2 DEF Kind, Changes
    <3>3. CASE i < call[c].at /\ i # call[c].at
      BY <1>7, <2>1, <3>1, <3>3
    <3> QED
      BY <1>10, <3>2, <3>3
  <2>3. call[c].found => label
    BY <1>1 DEF ReportOK, Runs
  <2> QED
    BY <1>9, <2>1, <2>2, <2>3 DEF ReportOK, Runs
<1>13. LabelOK(c)'
  <2>1. KnowsLabel(c) /\ label' \in BOOLEAN
    BY <1>9 DEF KnowsLabel, Changes, ToolsInv, ToolsTypeOK
  <2> QED
    BY <1>9, <2>1, LabelKept
<1>14. DOMAIN call' = DOMAIN call /\ \A d \in DOMAIN call \ {c} : call'[d] = call[d]
  BY <1>4 DEF Becomes
<1>15. label' \in BOOLEAN
  BY DEF ToolsInv, ToolsTypeOK
<1> QED
  BY <1>8, <1>11, <1>12, <1>13, <1>14, <1>15, OneCall

\* A call that goes on knows of the label what it knew.
LEMMA GoesOnKeeps ==
    ASSUME ToolsInv, NEW c \in DOMAIN call, Runs(c), Free(c), ~AtEnd(c), NEW changes,
           DOMAIN changes \subseteq {"nothing", "hidden", "told"},
           \A f \in DOMAIN changes : changes[f] \in BOOLEAN,
           "told" \in DOMAIN changes => changes["told"] = TRUE,
           "hidden" \in DOMAIN changes => Kind(c) \in {"look", "skip", "gather", "slip"},
           Kind(c) \in Changes => "told" \in DOMAIN changes \/ Kind(c) = "slip",
           Goes(c, changes),
           Kind(c) # "find", Kind(c) = "make" => label,
           label' = label, collided' = {}
    PROVE  ToolsInv'
<1>1. CallTypeOK(c) /\ ReportOK(c) /\ label \in BOOLEAN
  BY DEF ToolsInv, ToolsTypeOK
<1>2. Becomes(c, changes, call[c].at + 1)
  BY <1>1, GoesMeans DEF Fields
<1>3. call'[c].found = call[c].found
  BY <1>2 DEF Becomes, Fields
<1>4. call[c].found => label
  BY <1>1 DEF ReportOK
<1>5. DOMAIN changes \subseteq {"found", "nothing", "hidden", "told"}
  OBVIOUS
<1> QED
  BY <1>1, <1>3, <1>4, <1>5, GoesKeeps DEF KnowsLabel

LEMMA ReadsKeep ==
    ASSUME ToolsInv, NEW c \in DOMAIN call, Runs(c), Free(c), ~AtEnd(c),
           PickAccount(c) \/ ReadService(c) \/ LookUp(c) \/ SkipItems(c)
    PROVE  ToolsInv'
<1>1. label' = label /\ label \in BOOLEAN /\ collided' = {}
  BY DEF PickAccount, ReadService, LookUp, SkipItems, ToolsInv, ToolsTypeOK
<1>2. Kind(c) \in {"pick", "default", "read", "look", "skip", "gather"}
  BY DEF PickAccount, ReadService, LookUp, SkipItems
<1>3. Kind(c) \notin Changes /\ Kind(c) \notin {"count", "known", "any", "find", "make"}
  BY <1>2 DEF Changes
<1>4. CASE Raises(c)
  BY <1>1, <1>3, <1>4, RaisesKeeps
<1>5. CASE GoesOn(c)
  <2>1. PICK changes : changes = <<>>
    OBVIOUS
  <2>2. DOMAIN changes = {} /\ Goes(c, changes)
    BY <1>5, <2>1 DEF GoesOn
  <2> QED
    BY <1>1, <1>3, <2>2, GoesOnKeeps
<1>6. CASE \E empty \in BOOLEAN : Goes(c, [nothing |-> empty])
  <2>1. PICK empty \in BOOLEAN : Goes(c, [nothing |-> empty])
    BY <1>6
  <2>2. PICK changes : changes = [nothing |-> empty] /\ Goes(c, changes)
    BY <2>1
  <2>3. DOMAIN changes = {"nothing"} /\ changes["nothing"] = empty
    BY <2>2
  <2> QED
    BY <1>1, <1>3, <2>2, <2>3, GoesOnKeeps
<1>7. CASE Kind(c) \in {"look", "skip", "gather"}
           /\ \E all \in BOOLEAN : Goes(c, [nothing |-> all, hidden |-> TRUE])
  <2>1. PICK all \in BOOLEAN : Goes(c, [nothing |-> all, hidden |-> TRUE])
    BY <1>7
  <2>2. PICK changes : changes = [nothing |-> all, hidden |-> TRUE] /\ Goes(c, changes)
    BY <2>1
  <2>3. DOMAIN changes = {"nothing", "hidden"} /\ changes["nothing"] = all /\ changes["hidden"] = TRUE
    BY <2>2
  <2>4. Kind(c) \in {"look", "skip", "gather", "slip"}
    BY <1>7
  <2> QED
    BY <1>1, <1>3, <2>2, <2>3, <2>4, GoesOnKeeps
<1> QED
  BY <1>4, <1>5, <1>6, <1>7 DEF PickAccount, ReadService, LookUp, SkipItems

LEMMA ChangeKeeps ==
    ASSUME ToolsInv, NEW c \in DOMAIN call, Runs(c), Free(c), ~AtEnd(c), ChangeService(c)
    PROVE  ToolsInv'
<1>1. label' = label /\ label \in BOOLEAN /\ collided' = {} /\ Kind(c) \in Changes
  BY DEF ChangeService, ToolsInv, ToolsTypeOK
<1>2. Kind(c) \notin {"known", "any", "find", "make"}
  BY <1>1 DEF Changes
<1>3. CASE Goes(c, [made |-> Applied(c)])
  <2>1. PICK changes : changes = [made |-> Applied(c)]
    OBVIOUS
  <2> QED
    BY <1>1, <1>3, <2>1, MakesKeeps
<1>4. CASE Kind(c) # "count"
           /\ Ends(c, [status |-> "error", made |-> Applied(c), lost |-> LostToo(c)])
  BY <1>1, <1>4, LosesKeeps
<1>5. CASE Goes(c, [told |-> TRUE, made |-> Applied(c), lost |-> LostToo(c)])
  <2>1. PICK changes : changes = [told |-> TRUE, made |-> Applied(c), lost |-> LostToo(c)]
    OBVIOUS
  <2> QED
    BY <1>1, <1>5, <2>1, MakesKeeps
<1>6. CASE Kind(c) # "count" /\ Raises(c)
  BY <1>1, <1>2, <1>6, RaisesKeeps
<1>7. CASE Goes(c, [told |-> TRUE])
  <2>1. PICK changes : changes = [told |-> TRUE]
    OBVIOUS
  <2>2. DOMAIN changes = {"told"} /\ changes["told"] = TRUE
    BY <2>1
  <2> QED
    BY <1>1, <1>2, <1>7, <2>1, <2>2, GoesOnKeeps
<1>8. CASE Kind(c) = "slip" /\ Goes(c, [hidden |-> TRUE])
  <2>1. PICK changes : changes = [hidden |-> TRUE]
    OBVIOUS
  <2>2. DOMAIN changes = {"hidden"} /\ changes["hidden"] = TRUE
    BY <2>1
  <2> QED
    BY <1>1, <1>2, <1>8, <2>1, <2>2, GoesOnKeeps
<1> QED
  BY <1>3, <1>4, <1>5, <1>6, <1>7, <1>8 DEF ChangeService

LEMMA FindKeeps ==
    ASSUME ToolsInv, NEW c \in DOMAIN call, Runs(c), Free(c), ~AtEnd(c), FindLabel(c)
    PROVE  ToolsInv'
<1>1. label' = label /\ label \in BOOLEAN /\ collided' = {} /\ Kind(c) = "find" /\ CallTypeOK(c)
  BY DEF FindLabel, ToolsInv, ToolsTypeOK
<1>2. CASE Raises(c)
  BY <1>1, <1>2, RaisesKeeps
<1>3. CASE Goes(c, [found |-> label])
  <2>1. PICK changes : changes = [found |-> label]
    OBVIOUS
  <2>2. DOMAIN changes = {"found"} /\ changes["found"] = label /\ Goes(c, changes)
    BY <1>3, <2>1
  <2>3. Becomes(c, changes, call[c].at + 1)
    BY <1>1, <2>2, GoesMeans DEF Fields
  <2>4. call'[c].found = label
    BY <2>2, <2>3 DEF Becomes, Fields
  <2>5. KnowsLabel(c) /\ Kind(c) \notin Changes
    BY <1>1, <2>4 DEF KnowsLabel, Changes
  <2>6. DOMAIN changes \subseteq {"found", "nothing", "hidden", "told"}
    BY <2>2
  <2> QED
    BY <1>1, <2>2, <2>4, <2>5, <2>6, GoesKeeps
<1> QED
  BY <1>2, <1>3 DEF FindLabel

\* A label that the call did not find is not there when the call creates it.
LEMMA NotThere ==
    ASSUME ToolsInv, NEW c \in DOMAIN call, Runs(c), ~AtEnd(c), Kind(c) = "make"
    PROVE  label => call[c].found
<1>1. CallTypeOK(c) /\ LabelOK(c)
  BY DEF ToolsInv, ToolsTypeOK
<1>2. call[c].at \in Does(call[c].plan, {"make"}) /\ call[c].at \in Nat
  BY <1>1, AtStep DEF Does, Kind
<1>3. PICK i \in Does(call[c].plan, {"find"}) :
        i < call[c].at /\ (i + 1 .. call[c].at) \cap Does(call[c].plan, Options \union {"store", "gather"}) = {}
  BY <1>1, <1>2 DEF CallTypeOK, Sound, LooksBeforeItMakes
<1>4. Does(call[c].plan, {"store", "gather"}) \subseteq Does(call[c].plan, Options \union {"store", "gather"})
  BY DEF Does
<1>5. (i + 1 .. call[c].at) \cap Does(call[c].plan, {"store", "gather"}) = {}
  BY <1>3, <1>4
<1>6. Looked(c)
  <2>1. call[c].at <= call[c].at
    BY <1>2
  <2> QED
    BY <1>2, <1>3, <1>5, <2>1 DEF Looked
<1> QED
  BY <1>1, <1>6 DEF LabelOK

LEMMA MakeKeeps ==
    ASSUME ToolsInv, NEW c \in DOMAIN call, Runs(c), Free(c), ~AtEnd(c), MakeLabel(c)
    PROVE  ToolsInv'
<1>1. /\ label \in BOOLEAN /\ collided = {} /\ Kind(c) = "make" /\ CallTypeOK(c) /\ ReportOK(c)
      /\ label => call[c].found
  BY NotThere DEF MakeLabel, ToolsInv, ToolsTypeOK
<1>2. Kind(c) \notin Changes /\ Kind(c) \notin {"count", "known", "any", "find", "look", "skip", "gather", "slip"}
  BY <1>1 DEF Changes
<1>3. CASE call[c].found /\ GoesOn(c) /\ UNCHANGED <<label, collided>>
  <2>1. PICK changes : changes = <<>>
    OBVIOUS
  <2>2. DOMAIN changes = {} /\ Goes(c, changes)
    BY <1>3, <2>1 DEF GoesOn
  <2>3. label
    BY <1>1, <1>3 DEF ReportOK
  <2> QED
    BY <1>1, <1>2, <1>3, <2>2, <2>3, GoesOnKeeps
<1>4. CASE ~call[c].found /\ ~label /\ UNCHANGED collided
           /\ label' \in BOOLEAN /\ Raises(c)
  BY <1>1, <1>2, <1>4, RaisesKeeps
<1>5. CASE ~call[c].found /\ ~label /\ UNCHANGED collided
           /\ label' = TRUE /\ Goes(c, [found |-> TRUE])
  <2>1. PICK changes : changes = [found |-> TRUE]
    OBVIOUS
  <2>2. DOMAIN changes = {"found"} /\ changes["found"] = TRUE /\ Goes(c, changes)
    BY <1>5, <2>1
  <2>3. Becomes(c, changes, call[c].at + 1)
    BY <1>1, <2>2, GoesMeans DEF Fields
  <2>4. call'[c].found = TRUE
    BY <2>2, <2>3 DEF Becomes, Fields
  <2>5. KnowsLabel(c)
    BY <1>1, <2>4 DEF KnowsLabel
  <2>6. DOMAIN changes \subseteq {"found", "nothing", "hidden", "told"}
    BY <2>2
  <2> QED
    BY <1>1, <1>2, <1>5, <2>2, <2>4, <2>5, <2>6, GoesKeeps
<1> QED
  BY <1>1, <1>3, <1>4, <1>5 DEF MakeLabel

LEMMA MissingKeeps ==
    ASSUME ToolsInv, NEW c \in DOMAIN call, Runs(c), Free(c), ~AtEnd(c), Missing(c)
    PROVE  ToolsInv'
<1>1. label' = label /\ label \in BOOLEAN /\ collided' = {} /\ Kind(c) \in {"known", "any", "lacks"}
  BY DEF Missing, ToolsInv, ToolsTypeOK
<1>2. Kind(c) \notin Changes /\ Kind(c) \notin {"find", "make", "look", "skip", "gather", "slip"}
  BY <1>1 DEF Changes
<1>3. CASE Kind(c) = "lacks"
  <2>1. Raises(c) /\ Kind(c) \notin {"count", "known", "any"}
    BY <1>3 DEF Missing
  <2> QED
    BY <1>1, <2>1, RaisesKeeps
<1>4. CASE Kind(c) # "lacks" /\ GoesOn(c)
  <2>1. PICK changes : changes = <<>>
    OBVIOUS
  <2>2. DOMAIN changes = {} /\ Goes(c, changes)
    BY <1>4, <2>1 DEF GoesOn
  <2> QED
    BY <1>1, <1>2, <2>2, GoesOnKeeps
<1>5. CASE Kind(c) # "lacks" /\ Ends(c, [status |-> "success", told |-> TRUE])
  BY <1>1, <1>5, SucceedsKeeps
<1>6. Kind(c) # "lacks" => GoesOn(c) \/ Ends(c, [status |-> "success", told |-> TRUE])
  <2>1. Kind(c) = "known" => Kind(c) # "any" /\ Kind(c) # "lacks"
    OBVIOUS
  <2> QED
    BY <2>1 DEF Missing
<1> QED
  BY <1>3, <1>4, <1>5, <1>6

LEMMA ReturnKeeps ==
    ASSUME ToolsInv, NEW c \in DOMAIN call, Runs(c), ReturnResult(c)
    PROVE  ToolsInv'
<1>1. label' = label /\ collided' = {} /\ AtEnd(c) /\ Ends(c, [status |-> "success"])
  BY DEF ReturnResult, ToolsInv
<1> QED
  BY <1>1, SucceedsKeeps

LEMMA ToolsInvNext ==
    ASSUME ToolsInv, [ToolsNext]_toolVars
    PROVE  ToolsInv'
<1>1. CASE UNCHANGED toolVars
  <2>1. call' = call /\ label' = label /\ label \in BOOLEAN /\ collided' = {}
    BY <1>1 DEF toolVars, ToolsInv, ToolsTypeOK
  <2>2. \A c \in DOMAIN call : CallTypeOK(c)' /\ RepeatOK(c)' /\ ReportOK(c)' /\ LabelOK(c)'
    BY <2>1, OthersKeep
  <2> QED
    BY <2>1, <2>2 DEF ToolsInv, ToolsTypeOK
<1>2. CASE \E turn \in Turns : AskTools(turn)
  BY <1>2, AskKeeps
<1>3. CASE \E c \in DOMAIN call : StartCall(c)
  BY <1>3, StartKeeps
<1>4. CASE \E c \in DOMAIN call : Step(c)
  <2> SUFFICES ASSUME NEW c \in DOMAIN call, Step(c) PROVE ToolsInv'
    BY <1>4
  <2>1. Runs(c) /\ Free(c)
    BY DEF Step, Runs
  <2>2. CASE ReturnResult(c)
    BY <2>1, <2>2, ReturnKeeps
  <2>3. CASE ~AtEnd(c) /\ (PickAccount(c) \/ ReadService(c) \/ LookUp(c) \/ SkipItems(c))
    BY <2>1, <2>3, ReadsKeep
  <2>4. CASE ~AtEnd(c) /\ ChangeService(c)
    BY <2>1, <2>4, ChangeKeeps
  <2>5. CASE ~AtEnd(c) /\ FindLabel(c)
    BY <2>1, <2>5, FindKeeps
  <2>6. CASE ~AtEnd(c) /\ MakeLabel(c)
    BY <2>1, <2>6, MakeKeeps
  <2>7. CASE ~AtEnd(c) /\ Missing(c)
    BY <2>1, <2>7, MissingKeeps
  <2> QED
    BY <2>2, <2>3, <2>4, <2>5, <2>6, <2>7 DEF Step
<1>5. CASE \E c \in DOMAIN call : \E n \in 0 .. MaxItems : Choose(c, n)
  BY <1>5, ChooseKeeps
<1>6. CASE \E again \in SUBSET DOMAIN call : Repeat(again)
  BY <1>6, RepeatKeeps
<1> QED
  BY <1>1, <1>2, <1>3, <1>4, <1>5, <1>6 DEF ToolsNext

\* A call is of a tool of the catalogue and its plan is what its arguments left of
\* the tool's: the clients' methods in their order.
THEOREM ToolTypes == ToolsSpec => []ToolsTypeOK
<1>1. ToolsInit => ToolsInv
  BY ToolsInvInit
<1>2. ToolsInv /\ [ToolsNext]_toolVars => ToolsInv'
  BY ToolsInvNext
<1>3. ToolsInv => ToolsTypeOK
  BY DEF ToolsInv
<1> QED
  BY <1>1, <1>2, <1>3, PTL DEF ToolsSpec

LEMMA InvIsTrue == ASSUME ToolsInv PROVE OutcomesAreTrue
<1>1. ASSUME NEW c \in DOMAIN call
      PROVE  CallTypeOK(c) /\ RepeatOK(c) /\ ReportOK(c)
  BY DEF ToolsInv, ToolsTypeOK
<1>2. SuccessIsComplete
  <2> SUFFICES ASSUME NEW c \in DOMAIN call, call[c].status = "success",
                      call[c].tool \notin Silent
               PROVE  ~call[c].hidden /\ (call[c].told \/ ChangesMade(c))
    BY DEF SuccessIsComplete
  <2> QED
    BY <1>1 DEF ReportOK, Runs, ChangesMade
<1>3. RepeatsAreSafe
  <2> SUFFICES ASSUME NEW c \in DOMAIN call, NEW i \in DOMAIN call[c].made, call[c].made[i] > 1,
                      call[c].tool \notin Several
               PROVE  i \in call[c].lost
    BY DEF RepeatsAreSafe
  <2>1. call[c].made[i] # 0 /\ call[c].made[i] # 1
    OBVIOUS
  <2> QED
    BY <1>1, <2>1 DEF RepeatOK
<1> QED
  BY <1>2, <1>3 DEF OutcomesAreTrue, LabelsDoNotCollide, ToolsInv

\* Whatever calls of tools run together, however often they are asked for again and
\* whichever requests fail: a success is complete unless the tool hides it, a repeated
\* call makes a change twice only if its answer was lost, and no two calls of a turn
\* create a label.
THEOREM ToolsReportWhatTheyDid == ToolsSpec => []OutcomesAreTrue
<1>1. ToolsInit => ToolsInv
  BY ToolsInvInit
<1>2. ToolsInv /\ [ToolsNext]_toolVars => ToolsInv'
  BY ToolsInvNext
<1>3. ToolsInv => OutcomesAreTrue
  BY InvIsTrue
<1> QED
  BY <1>1, <1>2, <1>3, PTL DEF ToolsSpec
=============================================================================
