------------------------------ MODULE QuoteToken ------------------------------
(***************************************************************************)
(* The credentials that candle and live snapshot requests share: the OAuth *)
(* access token (TastytradeOAuthClient, oauth-client.ts), the DXLink quote *)
(* token bought with it (TastytradeDxlinkTokenClient) and the one recovery *)
(* around a snapshot whose token is refused (withDxlinkAuthRecovery,       *)
(* dxlink.ts).  There is no single flight: requests that find no token     *)
(* each fetch one, and the last answer wins the cache.                     *)
(*                                                                         *)
(* JavaScript runs to completion, so that everything from one awaited      *)
(* answer to the next call that goes out is one action.  UntilExpiry,      *)
(* KeptAccess and KeptQuote are faulty variants of the definition after    *)
(* them, for testing the properties.                                       *)
(***************************************************************************)
EXTENDS Integers, FiniteSets

CONSTANTS
  Requests,      \* calls of withDxlinkAuthRecovery, each runs once
  Rest,          \* a REST client's call that needs an access token only
  Null,          \* null, and undefined
  AccessTTL,     \* expires_in
  AccessSkew,    \* the 60 s of getAccessToken
  QuoteTTLs,     \* lifetimes of the quote tokens the provider issues
  QuoteSkew,     \* QUOTE_TOKEN_EXPIRY_SKEW_MS
  Timeout,       \* axios timeout of one HTTP call
  MaxRetries,    \* retries of one getQuoteToken: 2 in the code
  MaxTime        \* bound: the clock

ASSUME TimeAssumption ==
  /\ AccessTTL \in Nat /\ AccessSkew \in Nat /\ QuoteSkew \in Nat
  /\ QuoteTTLs \subseteq Nat /\ Timeout \in Nat \ {0} /\ MaxTime \in Nat
  /\ Timeout < AccessTTL /\ MaxRetries \in Nat

Askers == Requests \cup {Rest}
Rounds == {0, 1}        \* retryCount
Attempts == 0..MaxRetries

\* Tokens are trusted until one time and expire at another.
AccessTokens == [until : Nat, dies : Nat, after : SUBSET Requests]
QuoteTokens ==
  [until : Int, dies : Nat, after : SUBSET Requests, bought : Requests \X Rounds]
Calls == [at : Nat, after : SUBSET Requests]

ASSUME NullAssumption ==
  Rest \notin Requests /\ Null \notin AccessTokens \cup QuoteTokens \cup Calls

VARIABLES
  now,         \* the clock
  access,      \* accessToken and expiresAt
  quote,       \* quoteToken and quoteTokenExpiresAt
  pc,          \* per asker: control state, or the status it ended with
  round,       \* per request: retryCount
  attempt,     \* per request: attempt of its getQuoteToken
  renewed,     \* per request: accessTokenRefreshAttempted
  asked,       \* per asker: the HTTP call in flight: when it was sent, and
               \* which requests had been refused by then (history)
  bearer,      \* per request: the access token of its GET
  held,        \* per request: the quote token of its operation
  refused      \* history: request -> the quote token it was refused with

caches == <<access, quote>>
local == <<attempt, renewed, asked, bearer>>
vars == <<now, caches, pc, round, local, held, refused>>

Refused == {r \in Requests : refused[r] # Null}

Init ==
  /\ now = 0 /\ access = Null /\ quote = Null
  /\ pc = [a \in Askers |-> "idle"]
  /\ round = [r \in Requests |-> 0]
  /\ attempt = [r \in Requests |-> 0]
  /\ renewed = [r \in Requests |-> FALSE]
  /\ asked = [a \in Askers |-> Null]
  /\ bearer = [r \in Requests |-> Null]
  /\ held = [r \in Requests |-> Null]
  /\ refused = [r \in Requests |-> Null]

Goto(a, state) == pc' = [pc EXCEPT ![a] = state]
Send(a, after) == asked' = [asked EXCEPT ![a] = [at |-> now, after |-> after]]

\* getQuoteToken returns or throws: its locals are gone.
Leave(r, state) ==
  /\ Goto(r, state)
  /\ attempt' = [attempt EXCEPT ![r] = 0]
  /\ renewed' = [renewed EXCEPT ![r] = FALSE]
  /\ asked' = [asked EXCEPT ![r] = Null]
  /\ bearer' = [bearer EXCEPT ![r] = Null]

-----------------------------------------------------------------------------
(* getAccessToken                                                          *)

AccessFresh(token) == token # Null /\ now < token.until - AccessSkew

\* The token a POST brings: issued at some time since it was sent, and trusted
\* from the time it was sent.
AccessIssued(a, issue) ==
  [until |-> asked[a].at + AccessTTL, dies |-> issue + AccessTTL,
   after |-> asked[a].after]

\* Both ways to the GET of one attempt: with the cached access token, or after
\* a POST for one.
AskWith(r, token, after) ==
  /\ IF AccessFresh(token)
     THEN Goto(r, "get") /\ bearer' = [bearer EXCEPT ![r] = token]
     ELSE Goto(r, "post") /\ bearer' = [bearer EXCEPT ![r] = Null]
  /\ Send(r, after)

AccessArrives(r) ==
  /\ pc[r] = "post"
  /\ \E issue \in asked[r].at..now :
       /\ access' = AccessIssued(r, issue)
       /\ bearer' = [bearer EXCEPT ![r] = AccessIssued(r, issue)]
  /\ Goto(r, "get")
  /\ Send(r, Refused)
  /\ UNCHANGED <<now, quote, round, attempt, renewed, held, refused>>

\* The REST client, which needs nothing but the access token.
RestAsks ==
  /\ pc[Rest] = "idle" /\ ~AccessFresh(access)
  /\ Goto(Rest, "orphan") /\ Send(Rest, Refused)
  /\ UNCHANGED <<now, caches, round, attempt, renewed, bearer, held, refused>>

RestHears ==
  /\ pc[Rest] = "orphan"
  /\ \/ \E issue \in asked[Rest].at..now : access' = AccessIssued(Rest, issue)
     \/ UNCHANGED access
  /\ Goto(Rest, "idle")
  /\ asked' = [asked EXCEPT ![Rest] = Null]
  /\ UNCHANGED <<now, quote, round, attempt, renewed, bearer, held, refused>>

-----------------------------------------------------------------------------
(* getQuoteToken                                                           *)

UntilExpiry(token) == token # Null /\ now < token.dies
QuoteFresh(token) == token # Null /\ now < token.until

Begin(r) ==
  /\ pc[r] = "idle"
  /\ IF QuoteFresh(quote)
     THEN /\ held' = [held EXCEPT ![r] = quote]
          /\ Goto(r, "operation")
          /\ UNCHANGED <<asked, bearer>>
     ELSE AskWith(r, access, Refused) /\ UNCHANGED held
  /\ UNCHANGED <<now, caches, round, attempt, renewed, refused>>

\* A quote token is good until a minute before it expires; a provider that
\* issues one about to expire has failed.
QuoteIssued(r, ttl) ==
  [until |-> now + ttl - QuoteSkew, dies |-> now + ttl, after |-> asked[r].after,
   bought |-> <<r, round[r]>>]

QuoteArrives(r) ==
  /\ pc[r] = "get"
  /\ \E ttl \in QuoteTTLs :
       /\ QuoteFresh(QuoteIssued(r, ttl))
       /\ quote' = QuoteIssued(r, ttl)
       /\ held' = [held EXCEPT ![r] = QuoteIssued(r, ttl)]
  /\ Leave(r, "operation")
  /\ UNCHANGED <<now, access, round, refused>>

\* getQuoteToken throws: after a refusal the recovery has failed.
Failure(r) == IF round[r] = 0 THEN "ERROR" ELSE "FAILED"

\* A 401 or 403, of the GET or of the POST, is worth one new access token ...
RenewAccess(r) ==
  /\ pc[r] \in {"post", "get"} /\ ~renewed[r]
  /\ access' = Null
  /\ IF attempt[r] < MaxRetries
     THEN /\ attempt' = [attempt EXCEPT ![r] = @ + 1]
          /\ renewed' = [renewed EXCEPT ![r] = TRUE]
          /\ AskWith(r, Null, Refused)
     ELSE Leave(r, Failure(r))
  /\ UNCHANGED <<now, quote, round, held, refused>>

\* ... a network error, 429 or 5xx is retried after a pause ...
Backoff(r) ==
  /\ pc[r] \in {"post", "get"} /\ attempt[r] < MaxRetries
  /\ Goto(r, "backoff")
  /\ asked' = [asked EXCEPT ![r] = Null]
  /\ bearer' = [bearer EXCEPT ![r] = Null]
  /\ UNCHANGED <<now, caches, round, attempt, renewed, held, refused>>

Wake(r) ==
  /\ pc[r] = "backoff"
  /\ attempt' = [attempt EXCEPT ![r] = @ + 1]
  /\ AskWith(r, access, Refused)
  /\ UNCHANGED <<now, caches, round, renewed, held, refused>>

\* ... and anything else is thrown, retryable errors of the last attempt too.
\* The abort signal cancels a GET or a pause ...
Throw(r) ==
  /\ pc[r] \in {"post", "get", "backoff"}
  /\ Leave(r, Failure(r))
  /\ UNCHANGED <<now, caches, round, held, refused>>

\* ... but a POST runs on, and still fills the cache or empties it.
AbortPost(r) ==
  /\ pc[r] = "post"
  /\ Goto(r, "orphan")
  /\ UNCHANGED <<now, caches, round, local, held, refused>>

OrphanHears(r) ==
  /\ pc[r] = "orphan"
  /\ \E issue \in asked[r].at..now : access' = AccessIssued(r, issue)
  /\ Leave(r, Failure(r))
  /\ UNCHANGED <<now, quote, round, held, refused>>

OrphanRenews(r) ==
  /\ pc[r] = "orphan" /\ ~renewed[r]
  /\ access' = Null
  /\ IF attempt[r] < MaxRetries
     THEN /\ attempt' = [attempt EXCEPT ![r] = @ + 1]
          /\ renewed' = [renewed EXCEPT ![r] = TRUE]
          /\ Send(r, Refused)
          /\ UNCHANGED <<pc, bearer>>
     ELSE Leave(r, Failure(r))
  /\ UNCHANGED <<now, quote, round, held, refused>>

-----------------------------------------------------------------------------
(* withDxlinkAuthRecovery                                                  *)

\* The operation succeeds, breaks, is aborted, or is refused for a second time.
Finish(r) ==
  /\ pc[r] = "operation"
  /\ \/ Goto(r, IF round[r] = 0 THEN "CONFIRMED" ELSE "REFRESHED")
     \/ Goto(r, "ERROR")
     \/ round[r] = 1 /\ Goto(r, "FAILED")
  /\ held' = [held EXCEPT ![r] = Null]
  /\ UNCHANGED <<now, caches, round, local, refused>>

\* invalidateQuoteToken empties both caches, whatever they hold by now, the
\* forced refresh then the quote token again ...
KeptAccess == access' = access /\ quote' = Null
KeptQuote == access' = Null /\ quote' = quote
Invalidate == access' = Null /\ quote' = Null

\* ... and asks at once.
Recover(r) ==
  /\ pc[r] = "operation" /\ round[r] = 0
  /\ refused' = [refused EXCEPT ![r] = held[r]]
  /\ Invalidate
  /\ round' = [round EXCEPT ![r] = 1]
  /\ AskWith(r, access', Refused \cup {r})
  /\ held' = [held EXCEPT ![r] = Null]
  /\ UNCHANGED <<now, attempt, renewed>>

\* HTTP calls time out.
Tick ==
  /\ now < MaxTime
  /\ \A a \in Askers : asked[a] # Null => now < asked[a].at + Timeout
  /\ now' = now + 1
  /\ UNCHANGED <<caches, pc, round, local, held, refused>>

Fetch(r) ==
  \/ AccessArrives(r) \/ QuoteArrives(r) \/ RenewAccess(r) \/ Backoff(r) \/ Wake(r)
  \/ Throw(r) \/ AbortPost(r) \/ OrphanHears(r) \/ OrphanRenews(r)

Next ==
  \/ Tick \/ RestAsks \/ RestHears
  \/ \E r \in Requests : Begin(r) \/ Fetch(r) \/ Finish(r) \/ Recover(r)

Spec == Init /\ [][Next]_vars

-----------------------------------------------------------------------------
TypeOK ==
  /\ now \in 0..MaxTime
  /\ access \in AccessTokens \cup {Null} /\ quote \in QuoteTokens \cup {Null}
  /\ pc \in [Askers -> {"idle", "post", "get", "backoff", "operation", "orphan",
                       "CONFIRMED", "REFRESHED", "FAILED", "ERROR"}]
  /\ round \in [Requests -> Rounds] /\ attempt \in [Requests -> Attempts]
  /\ renewed \in [Requests -> BOOLEAN]
  /\ asked \in [Askers -> Calls \cup {Null}]
  /\ bearer \in [Requests -> AccessTokens \cup {Null}]
  /\ held \in [Requests -> QuoteTokens \cup {Null}]
  /\ refused \in [Requests -> QuoteTokens \cup {Null}]

\* After a refusal the request reacquires its credentials: it asks with an
\* access token asked for after the refusal, and the quote token of the second
\* round was asked for after it too, whatever other requests put into the
\* caches meanwhile ("invalidates both the cached quote token and cached OAuth
\* access token, reacquires credentials"); and the quote token that was refused
\* is handed to nobody any more, although others fetch and store all the time.
Reacquired ==
  \A r \in Refused :
    /\ pc[r] = "get" /\ attempt[r] = 0 => r \in bearer[r].after
    /\ pc[r] = "operation" => r \in held[r].after
    /\ quote # refused[r]

\* A snapshot starts with a quote token that has its safety margin left, and a
\* GET goes out with an access token that has not expired, however long the
\* HTTP calls took ("does not reuse a token indefinitely").
TokensAlive ==
  [][\A r \in Requests :
       /\ pc[r] # "operation" /\ pc'[r] = "operation" => held'[r].dies - now > QuoteSkew
       /\ pc[r] # "get" /\ pc'[r] = "get" => bearer'[r].dies > now]_vars

=============================================================================
