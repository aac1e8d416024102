-------------------------- MODULE TokenAndStudyProofs --------------------------
(***************************************************************************)
(* Proofs about two modules, each of them on its own.                      *)
(*                                                                         *)
(* QuoteToken, for any number of requests, any lifetimes and margins, any  *)
(* number of retries, and a timeout below the lifetime of an access token. *)
(* Reacquired is not inductive.  IInv adds that every call in flight is    *)
(* within its timeout, that a request has been refused just when it is in  *)
(* its second round, that a refused request asks with calls that know of   *)
(* the refusal, and that a request buys at most one quote token per round. *)
(*                                                                         *)
(* ReplayStudy, for any studies, observations, answers, chains and plans   *)
(* that the schemas let through.  StudyInv says where every piece comes    *)
(* from: every request was handed in for its place and passed the checks,  *)
(* every record is the simulation of the requests of its entry and of its  *)
(* horizon under the profile of its scenario, and the chain is the result  *)
(* for a plan of the study.  Each safety property is then a fact about the *)
(* functions of the evidence, the execution and the reconstruction, at     *)
(* what StudyInv says was handed in.                                       *)
(***************************************************************************)
EXTENDS QuoteToken, ReplayStudy, FiniteSetTheorems, WellFoundedInduction, TLAPS

-----------------------------------------------------------------------------
(* The tokens of the requests (QuoteToken).                                 *)

\* The control states after which a round buys no quote token any more.
Served == {"operation", "CONFIRMED", "REFRESHED", "FAILED", "ERROR"}

\* Whoever waits for an answer has a call in flight, within its timeout.
Flights ==
  /\ pc[Rest] \in {"idle", "orphan"}
  /\ pc[Rest] = "orphan" => asked[Rest] # Null
  /\ \A r \in Requests : pc[r] \in {"post", "get", "orphan"} => asked[r] # Null
  /\ \A a \in Askers :
       asked[a] # Null => asked[a].at <= now /\ now <= asked[a].at + Timeout

\* Nobody trusts a token for longer than it lives.
Lifetimes ==
  /\ access # Null => access.until <= access.dies
  /\ quote # Null => quote.until = quote.dies - QuoteSkew

\* What a request has in each control state.
Control ==
  \A r \in Requests :
    /\ round[r] = 1 <=> r \in Refused
    /\ pc[r] = "idle" => round[r] = 0
    /\ pc[r] \in {"idle", "operation"} => attempt[r] = 0
    /\ pc[r] = "operation" => held[r] # Null
    /\ pc[r] = "get" => bearer[r] # Null
    /\ pc[r] = "backoff" => attempt[r] < MaxRetries

\* A refused request waits for answers to calls made after its refusal.
Renewal ==
  \A r \in Refused :
    /\ pc[r] \in {"post", "get"} => r \in asked[r].after
    /\ pc[r] = "get" /\ attempt[r] = 0 => r \in bearer[r].after
    /\ pc[r] = "operation" => r \in held[r].after

\* The round that bought a token is over, or has been served.
Spent(token) ==
  token # Null =>
    /\ token.bought[2] <= round[token.bought[1]]
    /\ token.bought[2] = round[token.bought[1]] => pc[token.bought[1]] \in Served

Bought ==
  /\ Spent(quote)
  /\ \A r \in Requests : Spent(held[r]) /\ Spent(refused[r])

\* The cache holds no refused token.
Retired == \A r \in Refused : quote # refused[r]

IInv ==
  TypeOK /\ Flights /\ Lifetimes /\ Control /\ Renewal /\ Bought /\ Retired

LEMMA ConstantTypes ==
  /\ AccessTTL \in Nat /\ AccessSkew \in Nat /\ QuoteSkew \in Nat
  /\ QuoteTTLs \subseteq Nat /\ Timeout \in Nat /\ MaxTime \in Nat
  /\ MaxRetries \in Nat /\ Timeout < AccessTTL
  BY TimeAssumption

LEMMA NullIsNoToken ==
  /\ Rest \notin Requests
  /\ Null \notin AccessTokens /\ Null \notin QuoteTokens /\ Null \notin Calls
  BY NullAssumption

-----------------------------------------------------------------------------
(* The tokens that answers bring, and what the two ways on from a call do. *)

LEMMA NextAttempt ==
  ASSUME TypeOK, NEW r \in Requests, attempt[r] < MaxRetries
  PROVE  attempt[r] + 1 \in Attempts \ {0}
  BY ConstantTypes DEF TypeOK, Attempts

Locals ==
  /\ pc \in [Askers -> {"idle", "post", "get", "backoff", "operation", "orphan",
                       "CONFIRMED", "REFRESHED", "FAILED", "ERROR"}]
  /\ attempt \in [Requests -> Attempts] /\ renewed \in [Requests -> BOOLEAN]
  /\ asked \in [Askers -> Calls \cup {Null}]
  /\ bearer \in [Requests -> AccessTokens \cup {Null}]

LEMMA Leaves ==
  ASSUME TypeOK, NEW r \in Requests, Leave(r, Failure(r))
  PROVE  Locals'
<1>1. renewed' \in [Requests -> BOOLEAN]
  BY DEF TypeOK, Leave
<1>2. attempt' \in [Requests -> Attempts]
  BY ConstantTypes DEF TypeOK, Leave, Attempts
<1> QED
  BY <1>1, <1>2 DEF TypeOK, Leave, Goto, Failure, Locals

\* A request that renews its access token has another attempt.
LEMMA Renews ==
  ASSUME TypeOK, NEW r \in Requests, attempt[r] < MaxRetries,
         attempt' = [attempt EXCEPT ![r] = @ + 1],
         renewed' = [renewed EXCEPT ![r] = TRUE]
  PROVE  /\ attempt' \in [Requests -> Attempts] /\ attempt'[r] # 0
         /\ renewed' \in [Requests -> BOOLEAN]
<1>1. attempt[r] + 1 \in Attempts \ {0}
  BY NextAttempt
<1>2. renewed' \in [Requests -> BOOLEAN]
  BY DEF TypeOK
<1> QED BY <1>1, <1>2 DEF TypeOK

\* A token is alive when its answer arrives, and never trusted for longer than
\* it lives.
Alive(token, a) ==
  /\ token \in AccessTokens /\ token # Null
  /\ token.until <= token.dies /\ token.dies > now
  /\ token.after = asked[a].after

LEMMA AccessAlive ==
  ASSUME TypeOK, Flights, NEW a \in Askers, asked[a] # Null,
         NEW issue \in asked[a].at..now
  PROVE  Alive(AccessIssued(a, issue), a)
<1>1. asked[a] \in Calls /\ now \in Nat /\ now <= asked[a].at + Timeout
  BY DEF TypeOK, Flights
<1>2. asked[a].at \in Nat /\ asked[a].after \in SUBSET Requests
  BY <1>1 DEF Calls
<1>3. issue \in Nat /\ asked[a].at <= issue
  BY <1>1, <1>2
<1>4. AccessIssued(a, issue) \in AccessTokens
  BY <1>2, <1>3, ConstantTypes DEF AccessIssued, AccessTokens
<1> QED
  BY <1>1, <1>2, <1>3, <1>4, ConstantTypes, NullIsNoToken DEF AccessIssued,
     Alive

\* A quote token has its margin, and knows the round that bought it.
New(token, r) ==
  /\ token \in QuoteTokens /\ token # Null
  /\ token.until = token.dies - QuoteSkew
  /\ token.after = asked[r].after
  /\ token.bought = <<r, round[r]>>

LEMMA QuoteNew ==
  ASSUME TypeOK, NEW r \in Requests, asked[r] # Null, NEW ttl \in QuoteTTLs
  PROVE  New(QuoteIssued(r, ttl), r)
<1>1. asked[r] \in Calls /\ now \in Nat /\ ttl \in Nat /\ round[r] \in Rounds
  BY ConstantTypes DEF TypeOK, Askers
<1>2. QuoteIssued(r, ttl) \in QuoteTokens
  BY <1>1, ConstantTypes DEF QuoteIssued, QuoteTokens, Calls
<1> QED
  BY <1>1, <1>2, ConstantTypes, NullIsNoToken DEF QuoteIssued, New

\* A request that asks has sent its call, with a token that lives or for one.
Asked(r, token, after) ==
  /\ after \in SUBSET Requests
  /\ asked' = [asked EXCEPT ![r] = [at |-> now, after |-> after]]
  /\ [at |-> now, after |-> after] \in Calls
  /\ [at |-> now, after |-> after] # Null
  /\ \/ /\ pc' = [pc EXCEPT ![r] = "get"]
        /\ bearer' = [bearer EXCEPT ![r] = token]
        /\ token # Null /\ token.until > now
     \/ pc' = [pc EXCEPT ![r] = "post"] /\ bearer' = [bearer EXCEPT ![r] = Null]

LEMMA Asks ==
  ASSUME TypeOK, NEW r \in Requests, NEW after \in SUBSET Requests,
         NEW token \in AccessTokens \cup {Null}, AskWith(r, token, after)
  PROVE  Asked(r, token, after)
<1>1. asked' = [asked EXCEPT ![r] = [at |-> now, after |-> after]]
  BY DEF AskWith, Send
<1>2. [at |-> now, after |-> after] \in Calls
  BY DEF Calls, TypeOK
<1>3. [at |-> now, after |-> after] # Null
  BY <1>2, NullIsNoToken
<1>4. AccessFresh(token) => token # Null /\ token.until > now
  BY ConstantTypes DEF AccessFresh, TypeOK, AccessTokens
<1> QED BY <1>1, <1>2, <1>3, <1>4 DEF AskWith, Goto, Asked

\* The clock stops for a call at its timeout.
LEMMA TickKeeps ==
  ASSUME IInv, Tick
  PROVE  IInv'
<1>0. TypeOK /\ Flights /\ Lifetimes /\ Control /\ Renewal /\ Bought /\ Retired
  BY DEF IInv
<1>1. TypeOK'
  BY <1>0, ConstantTypes DEF TypeOK, Tick, caches, local
<1>2. Flights'
  BY <1>0, ConstantTypes DEF Flights, Tick, local, TypeOK, Calls
<1>3. Lifetimes'
  BY <1>0 DEF Lifetimes, Tick, caches
<1>4. Control'
  BY <1>0 DEF Control, Tick, local, Refused
<1>5. Renewal'
  BY <1>0 DEF Renewal, Tick, local, Refused
<1>6. Bought'
  BY <1>0 DEF Bought, Tick, caches, Spent
<1>7. Retired'
  BY <1>0 DEF Retired, Tick, caches, Refused
<1> QED BY <1>1, <1>2, <1>3, <1>4, <1>5, <1>6, <1>7 DEF IInv

LEMMA RestAsksKeeps ==
  ASSUME IInv, RestAsks
  PROVE  IInv'
<1>0. TypeOK /\ Flights /\ Lifetimes /\ Control /\ Renewal /\ Bought /\ Retired
  BY DEF IInv
<1>1. TypeOK'
  BY <1>0 DEF TypeOK, RestAsks, Goto, Send, caches, Askers, Refused, Calls
<1>2. Flights'
  BY <1>0, ConstantTypes, NullIsNoToken DEF Flights, RestAsks, Goto, Send,
     TypeOK, Refused, Calls
<1>3. Lifetimes'
  BY <1>0 DEF Lifetimes, RestAsks, caches
<1>4. Control'
  BY <1>0 DEF Control, RestAsks, Goto, Refused
<1>5. Renewal'
  BY <1>0 DEF Renewal, RestAsks, Goto, Send, Refused
<1>6. Bought'
  BY <1>0 DEF Bought, RestAsks, Goto, caches, Spent, Served
<1>7. Retired'
  BY <1>0 DEF Retired, RestAsks, caches, Refused
<1> QED BY <1>1, <1>2, <1>3, <1>4, <1>5, <1>6, <1>7 DEF IInv

\* A token of the REST client, or none.
LEMMA RestHearsKeeps ==
  ASSUME IInv, RestHears
  PROVE  IInv'
<1>0. TypeOK /\ Flights /\ Lifetimes /\ Control /\ Renewal /\ Bought /\ Retired
  BY DEF IInv
<1>a. asked[Rest] # Null /\ Rest \in Askers
  BY <1>0 DEF RestHears, Flights, Askers
<1>b. UNCHANGED access \/ \E token : Alive(token, Rest) /\ access' = token
  BY <1>0, <1>a, AccessAlive DEF RestHears
<1>c. access' \in AccessTokens \cup {Null} /\ (access' # Null => access'.until <= access'.dies)
  BY <1>0, <1>b DEF Alive, Lifetimes, TypeOK
<1>1. TypeOK'
  BY <1>0, <1>c DEF TypeOK, RestHears, Goto
<1>2. Flights'
  BY <1>0, <1>c DEF Flights, RestHears, Goto, TypeOK
<1>3. Lifetimes'
  BY <1>0, <1>c DEF Lifetimes, RestHears
<1>4. Control'
  BY <1>0, <1>c, NullIsNoToken DEF Control, RestHears, Goto, Refused
<1>5. Renewal'
  BY <1>0, <1>c DEF Renewal, RestHears, Goto, Refused
<1>6. Bought'
  BY <1>0, <1>c DEF Bought, RestHears, Goto, Spent, Served
<1>7. Retired'
  BY <1>0, <1>c DEF Retired, RestHears, Refused
<1> QED BY <1>1, <1>2, <1>3, <1>4, <1>5, <1>6, <1>7 DEF IInv

\* A request starts with the cached quote token, or asks.
LEMMA BeginKeeps ==
  ASSUME IInv, NEW r \in Requests, Begin(r)
  PROVE  IInv'
<1>0. TypeOK /\ Flights /\ Lifetimes /\ Control /\ Renewal /\ Bought /\ Retired
  BY DEF IInv
<1>1. CASE ~QuoteFresh(quote)
  <2>a. Asked(r, access, Refused)
    BY <1>0, <1>1, Asks DEF Begin, TypeOK, Refused
  <2>1. TypeOK'
    BY <1>0, <1>1, <2>a, ConstantTypes DEF TypeOK, Begin, Asked, caches,
       Flights, Askers
  <2>2. Flights'
    BY <1>0, <1>1, <2>a, ConstantTypes, NullIsNoToken DEF Flights, Begin,
       Asked, TypeOK, Askers
  <2>3. Lifetimes'
    BY <1>0, <1>1, <2>a DEF Lifetimes, Begin, caches
  <2>4. Control'
    BY <1>0, <1>1, <2>a DEF Control, Begin, Asked, TypeOK, Askers, Refused
  <2>5. Renewal'
    BY <1>0, <1>1, <2>a DEF Renewal, Begin, Asked, TypeOK, Control, Askers,
       Refused
  <2>6. Bought'
    BY <1>0, <1>1, <2>a DEF Bought, Begin, Asked, caches, TypeOK, Spent,
       Served, QuoteTokens, Askers
  <2>7. Retired'
    BY <1>0, <1>1, <2>a DEF Retired, Begin, caches, Refused
  <2> QED BY <2>1, <2>2, <2>3, <2>4, <2>5, <2>6, <2>7 DEF IInv
<1>2. CASE QuoteFresh(quote)
  <2>1. TypeOK'
    BY <1>0, <1>2 DEF TypeOK, Begin, Goto, caches
  <2>2. Flights'
    BY <1>0, <1>2, NullIsNoToken DEF Flights, Begin, Goto, TypeOK, Askers
  <2>3. Lifetimes'
    BY <1>0, <1>2 DEF Lifetimes, Begin, caches
  <2>4. Control'
    BY <1>0, <1>2 DEF Control, Begin, QuoteFresh, Goto, TypeOK, Askers, Refused
  <2>5. Renewal'
    BY <1>0, <1>2 DEF Renewal, Begin, Goto, TypeOK, Control, Askers, Refused
  <2>6. Bought'
    BY <1>0, <1>2 DEF Bought, Begin, QuoteFresh, Goto, caches, TypeOK, Spent,
       Served, QuoteTokens, Askers
  <2>7. Retired'
    BY <1>0, <1>2 DEF Retired, Begin, caches, Refused
  <2> QED BY <2>1, <2>2, <2>3, <2>4, <2>5, <2>6, <2>7 DEF IInv
<1> QED BY <1>1, <1>2

\* The GET goes out with the token that the request's own POST brought.
LEMMA AccessArrivesKeeps ==
  ASSUME IInv, NEW r \in Requests, AccessArrives(r)
  PROVE  IInv'
<1>0. TypeOK /\ Flights /\ Lifetimes /\ Control /\ Renewal /\ Bought /\ Retired
  BY DEF IInv
<1>a. asked[r] # Null /\ r \in Askers
  BY <1>0 DEF AccessArrives, Flights, Askers
<1>b. PICK token : Alive(token, r) /\ access' = token /\ bearer' = [bearer EXCEPT ![r] = token]
  BY <1>0, <1>a, AccessAlive DEF AccessArrives
<1>1. TypeOK'
  BY <1>0, <1>b DEF TypeOK, AccessArrives, Alive, Goto, Send, Askers, Refused,
     Calls
<1>2. Flights'
  BY <1>0, <1>b, ConstantTypes, NullIsNoToken DEF Flights, AccessArrives, Goto,
     Send, TypeOK, Refused, Calls
<1>3. Lifetimes'
  BY <1>0, <1>b DEF Lifetimes, AccessArrives, Alive
<1>4. Control'
  BY <1>0, <1>b DEF Control, AccessArrives, Alive, Goto, TypeOK, Refused
<1>5. Renewal'
  BY <1>0, <1>b DEF Renewal, AccessArrives, Alive, Goto, Send, TypeOK, Refused
<1>6. Bought'
  BY <1>0, <1>b DEF Bought, AccessArrives, Goto, Spent, Served
<1>7. Retired'
  BY <1>0, <1>b DEF Retired, AccessArrives, Refused
<1> QED BY <1>1, <1>2, <1>3, <1>4, <1>5, <1>6, <1>7 DEF IInv

\* The quote token is the first of its request and round.
LEMMA QuoteArrivesKeeps ==
  ASSUME IInv, NEW r \in Requests, QuoteArrives(r)
  PROVE  IInv'
<1>0. TypeOK /\ Flights /\ Lifetimes /\ Control /\ Renewal /\ Bought /\ Retired
  BY DEF IInv
<1>a. asked[r] # Null
  BY <1>0 DEF QuoteArrives, Flights
<1>b. PICK token : /\ New(token, r) /\ quote' = token
                  /\ held' = [held EXCEPT ![r] = token]
  BY <1>0, <1>a, QuoteNew DEF QuoteArrives
<1>1. TypeOK'
  BY <1>0, <1>b, ConstantTypes DEF TypeOK, QuoteArrives, New, Goto, Leave,
     Askers, Attempts
<1>2. Flights'
  BY <1>0, <1>b DEF Flights, QuoteArrives, Goto, Leave, TypeOK
<1>3. Lifetimes'
  BY <1>0, <1>b DEF Lifetimes, QuoteArrives, New
<1>4. Control'
  BY <1>0, <1>b DEF Control, QuoteArrives, New, Goto, Leave, TypeOK, Askers,
     Refused
<1>5. Renewal'
  BY <1>0, <1>b DEF Renewal, QuoteArrives, New, Goto, Leave, TypeOK, Askers,
     Refused
<1>6. Bought'
  BY <1>0, <1>b DEF Bought, QuoteArrives, New, Goto, Leave, TypeOK, Spent,
     Served, Rounds, Askers
<1>7. Retired'
  BY <1>0, <1>b DEF Retired, QuoteArrives, New, Bought, Spent, Served, Refused
<1> QED BY <1>1, <1>2, <1>3, <1>4, <1>5, <1>6, <1>7 DEF IInv

LEMMA RenewAccessKeeps ==
  ASSUME IInv, NEW r \in Requests, RenewAccess(r)
  PROVE  IInv'
<1>0. TypeOK /\ Flights /\ Lifetimes /\ Control /\ Renewal /\ Bought /\ Retired
  BY DEF IInv
<1>1. CASE attempt[r] < MaxRetries
  <2>a. Asked(r, Null, Refused)
    BY <1>0, <1>1, Asks DEF RenewAccess, Refused
  <2>b. /\ attempt' \in [Requests -> Attempts] /\ attempt'[r] # 0
        /\ renewed' \in [Requests -> BOOLEAN]
        /\ attempt' = [attempt EXCEPT ![r] = attempt'[r]]
        /\ access' = Null /\ pc[r] \in {"post", "get"}
        /\ UNCHANGED <<now, quote, round, held, refused>>
    BY <1>0, <1>1, Renews DEF RenewAccess
  <2>1. TypeOK'
    BY <1>0, <2>a, <2>b, ConstantTypes DEF TypeOK, Asked
  <2>2. Flights'
    BY <1>0, <2>a, <2>b, ConstantTypes DEF Flights, Asked, TypeOK, Askers
  <2>3. Lifetimes'
    BY <1>0, <2>a, <2>b DEF Lifetimes
  <2>4. Control'
    BY <1>0, <2>a, <2>b DEF Control, Asked, TypeOK, Askers, Refused
  <2>5. Renewal'
    BY <1>0, <2>a, <2>b DEF Renewal, Asked, TypeOK, Askers, Refused
  <2>6. Bought'
    BY <1>0, <2>a, <2>b, NullIsNoToken DEF Bought, Asked, TypeOK, Spent,
       Served, QuoteTokens, Askers
  <2>7. Retired'
    BY <1>0, <2>a, <2>b DEF Retired, Refused
  <2> QED BY <2>1, <2>2, <2>3, <2>4, <2>5, <2>6, <2>7 DEF IInv
<1>2. CASE ~(attempt[r] < MaxRetries)
  <2>a. Locals'
    BY <1>0, <1>2, Leaves DEF RenewAccess
  <2>b. /\ Leave(r, Failure(r)) /\ access' = Null
        /\ UNCHANGED <<now, quote, round, held, refused>>
    BY <1>2 DEF RenewAccess
  <2>1. TypeOK'
    BY <1>0, <2>a, <2>b DEF TypeOK, Locals
  <2>2. Flights'
    BY <1>0, <2>a, <2>b, NullIsNoToken DEF Flights, Goto, Leave, Failure,
       TypeOK
  <2>3. Lifetimes'
    BY <1>0, <2>a, <2>b DEF Lifetimes
  <2>4. Control'
    BY <1>0, <2>a, <2>b DEF Control, Goto, Leave, Failure, TypeOK, Askers,
       Refused
  <2>5. Renewal'
    BY <1>0, <2>a, <2>b DEF Renewal, Goto, Leave, Failure, TypeOK, Askers,
       Refused
  <2>6. Bought'
    BY <1>0, <2>a, <2>b DEF Bought, Goto, Leave, Failure, Spent, Served
  <2>7. Retired'
    BY <1>0, <2>a, <2>b DEF Retired, Refused
  <2> QED BY <2>1, <2>2, <2>3, <2>4, <2>5, <2>6, <2>7 DEF IInv
<1> QED BY <1>1, <1>2

LEMMA BackoffKeeps ==
  ASSUME IInv, NEW r \in Requests, Backoff(r)
  PROVE  IInv'
<1>0. TypeOK /\ Flights /\ Lifetimes /\ Control /\ Renewal /\ Bought /\ Retired
  BY DEF IInv
<1>1. TypeOK'
  BY <1>0 DEF TypeOK, Backoff, Goto, caches
<1>2. Flights'
  BY <1>0 DEF Flights, Backoff, Goto, TypeOK
<1>3. Lifetimes'
  BY <1>0 DEF Lifetimes, Backoff, caches
<1>4. Control'
  BY <1>0 DEF Control, Backoff, Goto, TypeOK, Askers, Refused
<1>5. Renewal'
  BY <1>0 DEF Renewal, Backoff, Goto, TypeOK, Askers, Refused
<1>6. Bought'
  BY <1>0 DEF Bought, Backoff, Goto, caches, Spent, Served
<1>7. Retired'
  BY <1>0 DEF Retired, Backoff, caches, Refused
<1> QED BY <1>1, <1>2, <1>3, <1>4, <1>5, <1>6, <1>7 DEF IInv

LEMMA WakeKeeps ==
  ASSUME IInv, NEW r \in Requests, Wake(r)
  PROVE  IInv'
<1>0. TypeOK /\ Flights /\ Lifetimes /\ Control /\ Renewal /\ Bought /\ Retired
  BY DEF IInv
<1>a. Asked(r, access, Refused)
  BY <1>0, Asks DEF Wake, TypeOK, Refused
<1>b. attempt[r] + 1 \in Attempts \ {0}
  BY <1>0, NextAttempt DEF Wake, Control
<1>1. TypeOK'
  BY <1>0, <1>a, <1>b DEF TypeOK, Wake, Asked, caches, Askers
<1>2. Flights'
  BY <1>0, <1>a, <1>b, ConstantTypes DEF Flights, Wake, Asked, TypeOK, Askers
<1>3. Lifetimes'
  BY <1>0, <1>a, <1>b DEF Lifetimes, Wake, caches
<1>4. Control'
  BY <1>0, <1>a, <1>b DEF Control, Wake, Asked, TypeOK, Askers, Refused
<1>5. Renewal'
  BY <1>0, <1>a, <1>b DEF Renewal, Wake, Asked, TypeOK, Askers, Refused
<1>6. Bought'
  BY <1>0, <1>a, <1>b DEF Bought, Wake, Asked, caches, TypeOK, Spent, Served,
     QuoteTokens, Askers
<1>7. Retired'
  BY <1>0, <1>a, <1>b DEF Retired, Wake, caches, Refused
<1> QED BY <1>1, <1>2, <1>3, <1>4, <1>5, <1>6, <1>7 DEF IInv

LEMMA ThrowKeeps ==
  ASSUME IInv, NEW r \in Requests, Throw(r)
  PROVE  IInv'
<1>0. TypeOK /\ Flights /\ Lifetimes /\ Control /\ Renewal /\ Bought /\ Retired
  BY DEF IInv
<1>1. TypeOK'
  BY <1>0, ConstantTypes DEF TypeOK, Throw, Goto, Leave, Failure, caches,
     Askers, Attempts
<1>2. Flights'
  BY <1>0 DEF Flights, Throw, Goto, Leave, Failure, TypeOK
<1>3. Lifetimes'
  BY <1>0 DEF Lifetimes, Throw, caches
<1>4. Control'
  BY <1>0 DEF Control, Throw, Goto, Leave, Failure, TypeOK, Askers, Refused
<1>5. Renewal'
  BY <1>0 DEF Renewal, Throw, Goto, Leave, Failure, TypeOK, Askers, Refused
<1>6. Bought'
  BY <1>0 DEF Bought, Throw, Goto, Leave, caches, Spent, Served
<1>7. Retired'
  BY <1>0 DEF Retired, Throw, caches, Refused
<1> QED BY <1>1, <1>2, <1>3, <1>4, <1>5, <1>6, <1>7 DEF IInv

LEMMA AbortPostKeeps ==
  ASSUME IInv, NEW r \in Requests, AbortPost(r)
  PROVE  IInv'
<1>0. TypeOK /\ Flights /\ Lifetimes /\ Control /\ Renewal /\ Bought /\ Retired
  BY DEF IInv
<1>1. TypeOK'
  BY <1>0 DEF TypeOK, AbortPost, Goto, caches, local
<1>2. Flights'
  BY <1>0 DEF Flights, AbortPost, Goto, local
<1>3. Lifetimes'
  BY <1>0 DEF Lifetimes, AbortPost, caches
<1>4. Control'
  BY <1>0 DEF Control, AbortPost, Goto, local, Refused
<1>5. Renewal'
  BY <1>0 DEF Renewal, AbortPost, Goto, local, Refused
<1>6. Bought'
  BY <1>0 DEF Bought, AbortPost, Goto, caches, Spent, Served
<1>7. Retired'
  BY <1>0 DEF Retired, AbortPost, caches, Refused
<1> QED BY <1>1, <1>2, <1>3, <1>4, <1>5, <1>6, <1>7 DEF IInv

LEMMA OrphanHearsKeeps ==
  ASSUME IInv, NEW r \in Requests, OrphanHears(r)
  PROVE  IInv'
<1>0. TypeOK /\ Flights /\ Lifetimes /\ Control /\ Renewal /\ Bought /\ Retired
  BY DEF IInv
<1>a. asked[r] # Null /\ r \in Askers
  BY <1>0 DEF OrphanHears, Flights, Askers
<1>b. PICK token : Alive(token, r) /\ access' = token
  BY <1>0, <1>a, AccessAlive DEF OrphanHears
<1>1. TypeOK'
  BY <1>0, <1>b, ConstantTypes DEF TypeOK, OrphanHears, Alive, Goto, Leave,
     Failure, Askers, Attempts
<1>2. Flights'
  BY <1>0, <1>b, NullIsNoToken DEF Flights, OrphanHears, Goto, Leave, Failure,
     TypeOK
<1>3. Lifetimes'
  BY <1>0, <1>b DEF Lifetimes, OrphanHears, Alive
<1>4. Control'
  BY <1>0, <1>b DEF Control, OrphanHears, Goto, Leave, Failure, Refused
<1>5. Renewal'
  BY <1>0, <1>b DEF Renewal, OrphanHears, Goto, Leave, Failure, Refused
<1>6. Bought'
  BY <1>0, <1>b DEF Bought, OrphanHears, Goto, Leave, Spent, Served
<1>7. Retired'
  BY <1>0, <1>b DEF Retired, OrphanHears, Refused
<1> QED BY <1>1, <1>2, <1>3, <1>4, <1>5, <1>6, <1>7 DEF IInv

LEMMA OrphanRenewsKeeps ==
  ASSUME IInv, NEW r \in Requests, OrphanRenews(r)
  PROVE  IInv'
<1>0. TypeOK /\ Flights /\ Lifetimes /\ Control /\ Renewal /\ Bought /\ Retired
  BY DEF IInv
<1>1. CASE attempt[r] < MaxRetries
  <2>a. /\ attempt' \in [Requests -> Attempts] /\ attempt'[r] # 0
        /\ renewed' \in [Requests -> BOOLEAN]
        /\ attempt' = [attempt EXCEPT ![r] = attempt'[r]]
        /\ access' = Null /\ Send(r, Refused) /\ pc[r] = "orphan"
        /\ UNCHANGED <<now, quote, round, held, refused, pc, bearer>>
    BY <1>0, <1>1, Renews DEF OrphanRenews
  <2>1. TypeOK'
    BY <1>0, <2>a DEF TypeOK, Send, Askers, Refused, Calls
  <2>2. Flights'
    BY <1>0, <2>a, ConstantTypes, NullIsNoToken DEF Flights, Send, TypeOK,
       Refused, Calls
  <2>3. Lifetimes'
    BY <1>0, <2>a DEF Lifetimes
  <2>4. Control'
    BY <1>0, <2>a DEF Control, Refused
  <2>5. Renewal'
    BY <1>0, <2>a DEF Renewal, Send, Refused
  <2>6. Bought'
    BY <1>0, <2>a DEF Bought, Spent
  <2>7. Retired'
    BY <1>0, <2>a DEF Retired, Refused
  <2> QED BY <2>1, <2>2, <2>3, <2>4, <2>5, <2>6, <2>7 DEF IInv
<1>2. CASE ~(attempt[r] < MaxRetries)
  <2>a. Locals'
    BY <1>0, <1>2, Leaves DEF OrphanRenews
  <2>b. /\ Leave(r, Failure(r)) /\ access' = Null
        /\ UNCHANGED <<now, quote, round, held, refused>>
    BY <1>2 DEF OrphanRenews
  <2>1. TypeOK'
    BY <1>0, <2>a, <2>b DEF TypeOK, Locals
  <2>2. Flights'
    BY <1>0, <2>a, <2>b, NullIsNoToken DEF Flights, Goto, Leave, Failure,
       TypeOK
  <2>3. Lifetimes'
    BY <1>0, <2>a, <2>b DEF Lifetimes
  <2>4. Control'
    BY <1>0, <2>a, <2>b DEF Control, Goto, Leave, Failure, TypeOK, Askers,
       Refused
  <2>5. Renewal'
    BY <1>0, <2>a, <2>b DEF Renewal, Goto, Leave, Failure, TypeOK, Askers,
       Refused
  <2>6. Bought'
    BY <1>0, <2>a, <2>b DEF Bought, Goto, Leave, Failure, Spent, Served
  <2>7. Retired'
    BY <1>0, <2>a, <2>b DEF Retired, Refused
  <2> QED BY <2>1, <2>2, <2>3, <2>4, <2>5, <2>6, <2>7 DEF IInv
<1> QED BY <1>1, <1>2

LEMMA FinishKeeps ==
  ASSUME IInv, NEW r \in Requests, Finish(r)
  PROVE  IInv'
<1>0. TypeOK /\ Flights /\ Lifetimes /\ Control /\ Renewal /\ Bought /\ Retired
  BY DEF IInv
<1>1. TypeOK'
  BY <1>0 DEF TypeOK, Finish, Goto, caches, local
<1>2. Flights'
  BY <1>0 DEF Flights, Finish, Goto, local, TypeOK, Askers
<1>3. Lifetimes'
  BY <1>0 DEF Lifetimes, Finish, caches
<1>4. Control'
  BY <1>0 DEF Control, Finish, Goto, local, TypeOK, Askers, Refused
<1>5. Renewal'
  BY <1>0 DEF Renewal, Finish, Goto, local, TypeOK, Askers, Refused
<1>6. Bought'
  BY <1>0 DEF Bought, Finish, Goto, caches, TypeOK, Spent, Served, QuoteTokens,
     Askers
<1>7. Retired'
  BY <1>0 DEF Retired, Finish, caches, Refused
<1> QED BY <1>1, <1>2, <1>3, <1>4, <1>5, <1>6, <1>7 DEF IInv

\* The refused token leaves the cache, and what is asked for next follows.
LEMMA RecoverKeeps ==
  ASSUME IInv, NEW r \in Requests, Recover(r)
  PROVE  IInv'
<1>0. TypeOK /\ Flights /\ Lifetimes /\ Control /\ Renewal /\ Bought /\ Retired
  BY DEF IInv
<1>a. Asked(r, Null, Refused \cup {r})
  BY <1>0, Asks DEF Recover, Refused, Invalidate
<1>1. TypeOK'
  BY <1>0, <1>a, ConstantTypes DEF TypeOK, Recover, Asked, Invalidate, Rounds
<1>2. Flights'
  BY <1>0, <1>a, ConstantTypes DEF Flights, Recover, Asked, TypeOK, Askers
<1>3. Lifetimes'
  BY <1>0, <1>a DEF Lifetimes, Recover, Invalidate
<1>4. Control'
  BY <1>0, <1>a DEF Control, Recover, Asked, TypeOK, Askers, Refused
<1>5. Renewal'
  BY <1>0, <1>a DEF Renewal, Recover, Asked, TypeOK, Askers, Refused
<1>6. Bought'
  BY <1>0, <1>a, ConstantTypes, NullIsNoToken DEF Bought, Recover, Asked,
     Invalidate, TypeOK, Spent, QuoteTokens, Rounds, Askers
<1>7. Retired'
  BY <1>0, <1>a DEF Retired, Recover, Invalidate, Refused
<1> QED BY <1>1, <1>2, <1>3, <1>4, <1>5, <1>6, <1>7 DEF IInv

-----------------------------------------------------------------------------
(* The theorems.                                                           *)

LEMMA InitEstablishes == Init => IInv
<1> SUFFICES ASSUME Init PROVE IInv
  OBVIOUS
<1>0. Refused = {}
  BY DEF Init, Refused
<1>1. TypeOK
  BY ConstantTypes DEF Init, TypeOK, Rounds, Attempts
<1>2. Flights /\ Lifetimes
  BY DEF Init, Flights, Lifetimes, Askers
<1>3. Control /\ Renewal /\ Retired
  BY <1>0 DEF Init, Control, Renewal, Retired, Askers
<1>4. Bought
  BY DEF Init, Bought, Spent
<1> QED BY <1>1, <1>2, <1>3, <1>4 DEF IInv

LEMMA NextKeeps == IInv /\ [Next]_vars => IInv'
<1> SUFFICES ASSUME IInv, [Next]_vars PROVE IInv'
  OBVIOUS
<1>1. CASE Tick
  BY <1>1, TickKeeps
<1>2. CASE RestAsks \/ RestHears
  BY <1>2, RestAsksKeeps, RestHearsKeeps
<1>3. CASE \E r \in Requests : Begin(r) \/ Finish(r) \/ Recover(r)
  BY <1>3, BeginKeeps, FinishKeeps, RecoverKeeps
<1>4. CASE \E r \in Requests : Fetch(r)
  <2>1. PICK r \in Requests : Fetch(r)
    BY <1>4
  <2>2. CASE AccessArrives(r) \/ QuoteArrives(r)
    BY <2>2, AccessArrivesKeeps, QuoteArrivesKeeps
  <2>3. CASE RenewAccess(r) \/ Backoff(r) \/ Wake(r)
    BY <2>3, RenewAccessKeeps, BackoffKeeps, WakeKeeps
  <2>4. CASE Throw(r) \/ AbortPost(r)
    BY <2>4, ThrowKeeps, AbortPostKeeps
  <2>5. CASE OrphanHears(r) \/ OrphanRenews(r)
    BY <2>5, OrphanHearsKeeps, OrphanRenewsKeeps
  <2> QED BY <2>1, <2>2, <2>3, <2>4, <2>5 DEF Fetch
<1>5. CASE UNCHANGED vars
  BY <1>5 DEF vars, caches, local, IInv, TypeOK, Flights, Lifetimes, Control,
     Renewal, Bought, Spent, Retired, Refused
<1> QED BY <1>1, <1>2, <1>3, <1>4, <1>5 DEF Next

LEMMA Invariance == Spec => []IInv
  BY InitEstablishes, NextKeeps, PTL DEF Spec

\* Every variable keeps to its type, for any number of requests and retries.
THEOREM TypeCorrect == Spec => []TypeOK
<1>1. IInv => TypeOK
  BY DEF IInv
<1> QED BY <1>1, Invariance, PTL

\* withDxlinkAuthRecovery: after a refusal a request asks with an access token
\* that it asked for since, goes on with a quote token that it asked for since,
\* and the refused token is in no cache any more, however the requests
\* interleave and whatever their late answers bring.
THEOREM RefusedReacquire == Spec => []Reacquired
<1>1. IInv => Reacquired
  BY DEF IInv, Renewal, Retired, Reacquired
<1> QED BY <1>1, Invariance, PTL

\* getQuoteToken: an operation starts with a quote token whose margin is left,
\* and a GET goes out with an access token that lives.
THEOREM TokensLive == Spec => TokensAlive
<1>1. ASSUME IInv, [Next]_vars
      PROVE  [\A r \in Requests :
                /\ pc[r] # "operation" /\ pc'[r] = "operation"
                     => held'[r].dies - now > QuoteSkew
                /\ pc[r] # "get" /\ pc'[r] = "get" => bearer'[r].dies > now]_vars
  <2> SUFFICES ASSUME Next, NEW r \in Requests
               PROVE  /\ pc[r] # "operation" /\ pc'[r] = "operation"
                           => held'[r].dies - now > QuoteSkew
                      /\ pc[r] # "get" /\ pc'[r] = "get" => bearer'[r].dies > now
    BY <1>1
  <2>1. TypeOK /\ Flights /\ Lifetimes /\ r \in Askers
    BY <1>1 DEF IInv, Askers
  <2>2. CASE Tick \/ RestAsks \/ RestHears
    BY <2>1, <2>2 DEF TypeOK, Tick, RestAsks, RestHears, Goto
  <2>3. ASSUME NEW q \in Requests, pc' = [pc EXCEPT ![q] = pc'[q]],
               pc'[q] = "operation" => pc[q] = "operation"
                                       \/ held'[q].dies - now > QuoteSkew,
               pc'[q] = "get" => pc[q] = "get" \/ bearer'[q].dies > now
        PROVE  /\ pc[r] # "operation" /\ pc'[r] = "operation"
                    => held'[r].dies - now > QuoteSkew
               /\ pc[r] # "get" /\ pc'[r] = "get" => bearer'[r].dies > now
    BY <2>1, <2>3 DEF TypeOK
  <2>4. ASSUME NEW q \in Requests, Begin(q) \/ Fetch(q) \/ Finish(q) \/ Recover(q)
        PROVE  /\ pc' = [pc EXCEPT ![q] = pc'[q]]
               /\ pc'[q] = "operation" => pc[q] = "operation"
                                          \/ held'[q].dies - now > QuoteSkew
               /\ pc'[q] = "get" => pc[q] = "get" \/ bearer'[q].dies > now
    <3>0. q \in Askers /\ now \in Nat
      BY <2>1 DEF Askers, TypeOK
    <3>1. ASSUME NEW token \in {access, Null}, NEW after \in SUBSET Requests,
                 AskWith(q, token, after)
          PROVE  /\ pc' = [pc EXCEPT ![q] = pc'[q]] /\ pc'[q] # "operation"
                 /\ pc'[q] = "get" => bearer'[q].dies > now
      <4>1. token \in AccessTokens \cup {Null} /\ Asked(q, token, after)
        BY <2>1, <3>1, Asks DEF TypeOK
      <4>2. token # Null => token.dies >= token.until /\ token \in AccessTokens
        BY <2>1, <3>1, <4>1 DEF Lifetimes
      <4> QED BY <2>1, <3>0, <4>1, <4>2 DEF Asked, TypeOK, AccessTokens
    <3>2. CASE Begin(q)
      <4>1. CASE QuoteFresh(quote)
        BY <2>1, <3>0, <3>2, <4>1, ConstantTypes DEF Begin, QuoteFresh, Goto,
           TypeOK, Lifetimes, QuoteTokens
      <4>2. CASE ~QuoteFresh(quote)
        BY <3>1, <3>2, <4>2 DEF Begin, Refused
      <4> QED BY <4>1, <4>2
    <3>3. CASE Finish(q) \/ Throw(q) \/ AbortPost(q) \/ Backoff(q) \/ OrphanHears(q)
      BY <2>1, <3>0, <3>3 DEF Finish, Throw, AbortPost, Backoff, OrphanHears,
         Leave, Failure, Goto, TypeOK
    <3>4. CASE Recover(q)
      BY <3>1, <3>4 DEF Recover, Invalidate, Refused
    <3>5. CASE RenewAccess(q)
      <4>1. CASE attempt[q] < MaxRetries
        BY <3>1, <3>5, <4>1 DEF RenewAccess, Refused
      <4>2. CASE ~(attempt[q] < MaxRetries)
        BY <2>1, <3>0, <3>5, <4>2 DEF RenewAccess, Leave, Failure, Goto, TypeOK
      <4> QED BY <4>1, <4>2
    <3>6. CASE Wake(q)
      BY <3>1, <3>6 DEF Wake, Refused
    <3>7. CASE OrphanRenews(q)
      BY <2>1, <3>0, <3>7 DEF OrphanRenews, Leave, Failure, Goto, TypeOK
    <3>8. CASE AccessArrives(q)
      <4>1. asked[q] # Null
        BY <2>1, <3>8 DEF AccessArrives, Flights
      <4>2. PICK token : Alive(token, q) /\ bearer' = [bearer EXCEPT ![q] = token]
        BY <2>1, <3>0, <3>8, <4>1, AccessAlive DEF AccessArrives
      <4> QED
        BY <2>1, <3>0, <3>8, <4>2 DEF AccessArrives, Alive, Goto, TypeOK
    <3>9. CASE QuoteArrives(q)
      <4>1. PICK ttl \in QuoteTTLs :
                   /\ QuoteFresh(QuoteIssued(q, ttl))
                   /\ held' = [held EXCEPT ![q] = QuoteIssued(q, ttl)]
        BY <3>9 DEF QuoteArrives
      <4>2. held'[q].dies - now > QuoteSkew
        BY <2>1, <3>0, <4>1, ConstantTypes DEF QuoteFresh, QuoteIssued, TypeOK
      <4> QED
        BY <2>1, <3>0, <3>9, <4>2 DEF QuoteArrives, Leave, Goto
    <3> QED BY <2>4, <3>2, <3>3, <3>4, <3>5, <3>6, <3>7, <3>8, <3>9 DEF Fetch
  <2> QED BY <2>2, <2>3, <2>4 DEF Next
<1>2. IInv /\ [Next]_vars => [\A r \in Requests :
        /\ pc[r] # "operation" /\ pc'[r] = "operation"
             => held'[r].dies - now > QuoteSkew
        /\ pc[r] # "get" /\ pc'[r] = "get" => bearer'[r].dies > now]_vars
  BY <1>1
<1> QED BY <1>2, Invariance, PTL DEF Spec, TokensAlive

-----------------------------------------------------------------------------
(* Least elements of finite sets.                                           *)

\* Numbers of which there is one have a least one.
LEMMA LeastNumber ==
  ASSUME NEW T \in SUBSET Nat, T # {}
  PROVE  \E n \in T : \A m \in T : n <= m
<1>1. PICK n \in T : \A m \in T : ~(<<m, n>> \in OpToRel(<, Nat))
  BY NatLessThanWellFounded, WFMin
<1>2. \A m \in T : ~(m < n)
  BY <1>1, Zenon DEF OpToRel
<1> QED BY <1>2

\* A finite set has an element at which a number is least.
LEMMA LeastBy ==
  ASSUME NEW S, IsFiniteSet(S), S # {}, NEW f, \A x \in S : f[x] \in Int
  PROVE  \E x \in S : \A y \in S : f[x] <= f[y]
<1> DEFINE Bad(X) == X # {} /\ \A x \in X : \E y \in X : f[y] < f[x]
           T == {n \in Nat : \E X \in SUBSET S : Bad(X) /\ Cardinality(X) = n}
<1>1. SUFFICES ASSUME Bad(S) PROVE FALSE
  OBVIOUS
<1>2. Cardinality(S) \in T
  BY <1>1, FS_CardinalityType
<1>3. PICK n \in T : \A m \in T : n <= m
  <2> HIDE DEF T
  <2> QED BY <1>2, LeastNumber DEF T
<1>4. PICK X \in SUBSET S : Bad(X) /\ Cardinality(X) = n
  OBVIOUS
<1>5. PICK x \in X : TRUE
  BY <1>4
<1>6. IsFiniteSet(X) /\ Cardinality(X) \in Nat
  BY FS_Subset, FS_CardinalityType
<1>7. IsFiniteSet(X \ {x}) /\ Cardinality(X \ {x}) = n - 1
  BY <1>4, <1>5, <1>6, FS_RemoveElement
<1>8. Bad(X \ {x})
  <2>1. PICK y \in X : f[y] < f[x]
    BY <1>4, <1>5
  <2>2. y # x
    BY <2>1, <1>5
  <2>3. \A z \in X \ {x} : \E w \in X \ {x} : f[w] < f[z]
    <3> TAKE z \in X \ {x}
    <3>1. PICK w \in X : f[w] < f[z]
      BY <1>4
    <3>2. CASE w # x
      BY <3>1, <3>2
    <3>3. CASE w = x
      <4>1. f[y] < f[z]
        BY <2>1, <3>1, <3>3, <1>5
      <4> QED BY <4>1, <2>2
    <3> QED BY <3>2, <3>3
  <2> QED BY <2>2, <2>3
<1>9. n - 1 \in T
  BY <1>7, <1>8, <1>6, <1>4, FS_CardinalityType
<1> QED BY <1>3, <1>9

LEMMA MinFact ==
  ASSUME NEW S \in SUBSET Int, IsFiniteSet(S), S # {}
  PROVE  /\ Min(S) \in S
         /\ \A y \in S : Min(S) <= y
<1> DEFINE f == [x \in S |-> x]
<1>1. \A x \in S : f[x] \in Int
  OBVIOUS
<1>2. PICK x \in S : \A y \in S : f[x] <= f[y]
  <2> HIDE DEF f
  <2> QED BY <1>1, LeastBy
<1>3. \A y \in S : x <= y
  BY <1>2
<1> QED BY <1>3 DEF Min

LEMMA MaxFact ==
  ASSUME NEW S \in SUBSET Int, IsFiniteSet(S), S # {}
  PROVE  /\ Max(S) \in S
         /\ \A y \in S : Max(S) >= y
<1> DEFINE f == [x \in S |-> -x]
<1>1. \A x \in S : f[x] \in Int
  OBVIOUS
<1>2. PICK x \in S : \A y \in S : f[x] <= f[y]
  <2> HIDE DEF f
  <2> QED BY <1>1, LeastBy
<1>3. \A y \in S : x >= y
  BY <1>2
<1> QED BY <1>3 DEF Max

First(a, b) ==
  /\ ~(b[1] < a[1])
  /\ b[1] = a[1] => ~(b[2] < a[2])
  /\ b[1] = a[1] /\ b[2] = a[2] => ~(b[3] < a[3])
  /\ b[1] = a[1] /\ b[2] = a[2] /\ b[3] = a[3] => ~(b[4] < a[4])

\* A finite set has an element that is first by four numbers in turn.
LEMMA FirstOfFour ==
  ASSUME NEW keys, IsFiniteSet(DOMAIN keys), DOMAIN keys # {},
         \A x \in DOMAIN keys : \A i \in 1..4 : keys[x][i] \in Int
  PROVE  \E x \in DOMAIN keys : \A y \in DOMAIN keys : First(keys[x], keys[y])
<1> DEFINE S == DOMAIN keys
           f == [x \in S |-> keys[x][1]]
           g == [x \in S |-> keys[x][2]]
           h == [x \in S |-> keys[x][3]]
           k == [x \in S |-> keys[x][4]]
           Least(T, e) == {x \in T : \A y \in T : e[x] <= e[y]}
<1>0. \A x \in S : f[x] \in Int /\ g[x] \in Int /\ h[x] \in Int /\ k[x] \in Int
  OBVIOUS
<1>1. ASSUME NEW T \in SUBSET S, T # {}, NEW e, \A x \in S : e[x] \in Int
      PROVE  Least(T, e) # {} /\ Least(T, e) \in SUBSET S /\ Least(T, e) \subseteq T
  <2>1. \E x \in T : \A y \in T : e[x] <= e[y]
    <3> HIDE DEF S
    <3> QED BY <1>1, FS_Subset, LeastBy DEF S
  <2> QED BY <2>1
<1> DEFINE A == Least(S, f)
           B == Least(A, g)
           C == Least(B, h)
           D == Least(C, k)
<1>2. A # {} /\ A \in SUBSET S
  <2> HIDE DEF S, f, Least
  <2> QED BY <1>0, <1>1 DEF S
<1>3. B # {} /\ B \in SUBSET S /\ B \subseteq A
  <2> HIDE DEF A, Least, S, g
  <2> QED BY <1>0, <1>1, <1>2
<1>4. C # {} /\ C \in SUBSET S /\ C \subseteq B
  <2> HIDE DEF A, B, Least, S, h
  <2> QED BY <1>0, <1>1, <1>3
<1>5. D # {} /\ D \in SUBSET S /\ D \subseteq C
  <2> HIDE DEF A, B, C, Least, S, k
  <2> QED BY <1>0, <1>1, <1>4
<1>6. PICK x \in D : TRUE
  BY <1>5
<1>7. x \in A /\ x \in B /\ x \in C /\ x \in S
  <2> HIDE DEF A, B, C, D
  <2> QED BY <1>2, <1>3, <1>4, <1>5, <1>6
<1>8. \A y \in S : f[x] <= f[y]
  BY <1>7 DEF A
<1>9. \A y \in A : g[x] <= g[y]
  <2> HIDE DEF A
  <2> QED BY <1>7
<1>10. \A y \in B : h[x] <= h[y]
  <2> HIDE DEF B
  <2> QED BY <1>7
<1>11. \A y \in C : k[x] <= k[y]
  <2> HIDE DEF C
  <2> QED BY <1>6
<1>12. ASSUME NEW y \in S, f[y] = f[x] PROVE y \in A
  <2>1. \A z \in S : f[y] <= f[z]
    BY <1>8, <1>12
  <2> QED BY <2>1
<1>13. ASSUME NEW y \in A, g[y] = g[x] PROVE y \in B
  <2> HIDE DEF A
  <2>1. \A z \in A : g[y] <= g[z]
    BY <1>9, <1>13
  <2> QED BY <2>1
<1>14. ASSUME NEW y \in B, h[y] = h[x] PROVE y \in C
  <2> HIDE DEF B
  <2>1. \A z \in B : h[y] <= h[z]
    BY <1>10, <1>14
  <2> QED BY <2>1
<1> HIDE DEF A, B, C, D, Least, f, g, h, k
<1>15. ASSUME NEW y \in S
       PROVE  /\ ~(f[y] < f[x])
              /\ f[y] = f[x] => ~(g[y] < g[x])
              /\ f[y] = f[x] /\ g[y] = g[x] => ~(h[y] < h[x])
              /\ f[y] = f[x] /\ g[y] = g[x] /\ h[y] = h[x] => ~(k[y] < k[x])
  <2>1. ~(f[y] < f[x])
    BY <1>0, <1>7, <1>8
  <2>2. ASSUME f[y] = f[x] PROVE ~(g[y] < g[x])
    BY <1>0, <1>7, <1>9, <1>12, <2>2
  <2>3. ASSUME f[y] = f[x], g[y] = g[x] PROVE ~(h[y] < h[x])
    <3>1. y \in B
      BY <1>12, <1>13, <2>3
    <3> QED BY <1>0, <1>7, <1>10, <3>1
  <2>4. ASSUME f[y] = f[x], g[y] = g[x], h[y] = h[x] PROVE ~(k[y] < k[x])
    <3>1. y \in C
      BY <1>12, <1>13, <1>14, <2>4
    <3> QED BY <1>0, <1>7, <1>11, <3>1
  <2> QED BY <2>1, <2>2, <2>3, <2>4
<1>16. \A y \in S : First(keys[x], keys[y])
  BY <1>7, <1>15 DEF First, f, g, h, k
<1> QED BY <1>7, <1>16

-----------------------------------------------------------------------------
(* Sums and divisions.                                                      *)

\* The sum of the values of two legs, or of four, is a number.
LEMMA SumIsInt ==
  ASSUME NEW n \in {2, 4}, NEW values \in [1..n -> Int]
  PROVE  SumOf(values) \in Int
<1> DEFINE Adds(f) == f = [k \in 0..n |-> IF k = 0 THEN 0 ELSE f[k - 1] + values[k]]
           upTo == CHOOSE f : Adds(f)
<1>1. Len(values) = n
  OBVIOUS
<1>2. SumOf(values) = upTo[n]
  BY <1>1 DEF SumOf
<1>3. \E f : Adds(f)
  <2> DEFINE sum == [k \in 0..n |->
                IF k = 0 THEN 0 ELSE IF k = 1 THEN values[1]
                ELSE IF k = 2 THEN values[1] + values[2]
                ELSE IF k = 3 THEN values[1] + values[2] + values[3]
                ELSE values[1] + values[2] + values[3] + values[4]]
  <2>1. \A k \in 0..n : sum[k] = IF k = 0 THEN 0 ELSE sum[k - 1] + values[k]
    OBVIOUS
  <2>2. Adds(sum)
    BY <2>1
  <2> HIDE DEF sum, Adds
  <2> QED BY <2>2
<1>4. Adds(upTo)
  <2> HIDE DEF Adds
  <2> QED BY <1>3
<1>5. \A k \in 0..n : upTo[k] = IF k = 0 THEN 0 ELSE upTo[k - 1] + values[k]
  <2> HIDE DEF upTo
  <2> QED BY <1>4
<1> HIDE DEF upTo
<1>6. upTo[0] \in Int /\ upTo[1] \in Int /\ upTo[2] \in Int
  BY <1>5
<1>7. CASE n = 2
  BY <1>2, <1>6, <1>7
<1>8. CASE n = 4
  <2>1. upTo[3] \in Int
    BY <1>5, <1>6, <1>8
  <2>2. upTo[4] \in Int
    BY <1>5, <2>1, <1>8
  <2> QED BY <1>2, <2>2, <1>8
<1> QED BY <1>7, <1>8

LEMMA DivisionFact ==
  ASSUME NEW size \in Nat, NEW m \in Nat \ {0}
  PROVE  /\ size \div m \in Nat
         /\ m * (size \div m) <= size
         /\ size < m * (size \div m) + m
  OBVIOUS

LEMMA ProductKeepsOrder ==
  ASSUME NEW a \in Int, NEW b \in Int, NEW m \in Nat, a <= b
  PROVE  a * m <= b * m
  OBVIOUS

\* As many packages as the size of a leg allows.
LEMMA UnitsFact ==
  ASSUME NEW size \in Nat, NEW m \in Nat \ {0}, NEW n \in Int
  PROVE  (size \div m >= n) <=> (size >= n * m)
<1> DEFINE d == size \div m
<1>1. d \in Nat /\ m * d <= size /\ size < m * d + m
  BY DivisionFact
<1> HIDE DEF d
<1>2. ASSUME d >= n PROVE size >= n * m
  <2>1. n * m <= d * m
    BY <1>1, <1>2, ProductKeepsOrder
  <2>2. d * m = m * d
    BY <1>1
  <2> QED BY <1>1, <2>1, <2>2
<1>3. ASSUME d < n PROVE ~(size >= n * m)
  <2>1. (d + 1) * m <= n * m
    BY <1>1, <1>3, ProductKeepsOrder
  <2>2. (d + 1) * m = m * d + m
    BY <1>1
  <2>3. n * m \in Int
    OBVIOUS
  <2> QED BY <1>1, <2>1, <2>2, <2>3
<1>4. (d >= n) <=> (size >= n * m)
  BY <1>1, <1>2, <1>3
<1> QED BY <1>4 DEF d

\* Rounding is adverse: up for an entry, down for an exit.
LEMMA RoundedIsAdverse ==
  ASSUME NEW x \in Int, NEW tick \in Nat \ {0}
  PROVE  /\ Rounded(x, tick, "ENTRY") >= x
         /\ Rounded(x, tick, "EXIT") <= x
<1>1. \A y \in Int : Floor(y, tick) \in Int /\ Floor(y, tick) <= y
  <2> SUFFICES ASSUME NEW y \in Int PROVE (y \div tick) * tick \in Int /\ (y \div tick) * tick <= y
    BY DEF Floor
  <2>1. y \div tick \in Int /\ tick * (y \div tick) <= y
    OBVIOUS
  <2> QED BY <2>1
<1>2. Floor(-x, tick) \in Int /\ Floor(-x, tick) <= -x
  BY <1>1
<1> QED BY <1>1, <1>2 DEF Rounded, Ceiling

-----------------------------------------------------------------------------
(* Joined functions: the first of the two decides.                          *)

LEMMA JoinedFact ==
  ASSUME NEW f, NEW g, NEW x
  PROVE  /\ x \in DOMAIN f => Joined(f, g)[x] = f[x]
         /\ x \notin DOMAIN f /\ x \in DOMAIN g => Joined(f, g)[x] = g[x]
  BY DEF Joined

LEMMA JoinedDomain ==
  ASSUME NEW f, NEW g
  PROVE  DOMAIN Joined(f, g) = (DOMAIN f) \cup DOMAIN g
  BY DEF Joined

-----------------------------------------------------------------------------
(* What a usable observation shows.                                         *)

LegQuotes(o, legs, policy) ==
  [i \in DOMAIN legs |-> IF o.legs[i] = None THEN MissingLegQuote(legs[i])
                         ELSE LegQuote(o.legs[i], legs[i], o.at, policy)]
FrameReasons(quotes, policy) ==
  Flag(Cardinality(Cohorts(quotes)) > 1, "MIXED_QUOTE_COHORT")
  \cup Flag(Skewed(quotes, policy), "TEMPORAL_SKEW_EXCEEDED")

LEMMA ObservationFact ==
  ASSUME NEW o, NEW legs, NEW policy
  PROVE  LET quotes == LegQuotes(o, legs, policy)
         IN  /\ Observation(o, legs, policy).synthetic =
                  SyntheticPackageQuote(quotes, Cohorts(quotes), FrameReasons(quotes, policy))
             /\ Observation(o, legs, policy).native =
                  IF o.native = None THEN None
                  ELSE NativePackageQuote(o.native, o.at, policy, Cohorts(quotes))
             /\ Observation(o, legs, policy).at = o.at
  BY DEF Observation, LegQuotes, FrameReasons

\* A quote without a reason was known at the instant.
LEMMA TimingFact ==
  ASSUME NEW q, IsQuote(q), NEW at \in Int, NEW maxAge, QuoteTimingReasons(q, at, maxAge) = {}
  PROVE  /\ q.sourceAt <= at /\ q.availableAt <= at /\ at <= q.retrievedAt
         /\ q.barEnd # None => q.barEnd <= at
<1>1. q.sourceAt \in Int /\ q.availableAt \in Int /\ q.retrievedAt \in Int
  BY DEF QuoteTimingReasons, QuoteTimes, IsQuote
<1>2. q.barEnd \in Int \cup {None}
  BY DEF IsQuote
<1>3. /\ Flag(q.sourceAt > at, "FUTURE_SOURCE_TIMESTAMP") = {}
      /\ Flag(q.availableAt > at, "FUTURE_AVAILABLE_AT") = {}
      /\ Flag(OutOfOrder(q, at), "INVALID_TIMESTAMP_ORDER") = {}
      /\ q.barEnd # None => Flag(q.barEnd > at, "INCOMPLETE_BAR") = {}
  BY <1>1, PriceAssumption DEF QuoteTimingReasons, QuoteTimes
<1>4. /\ ~(q.sourceAt > at) /\ ~(q.availableAt > at) /\ ~OutOfOrder(q, at)
      /\ q.barEnd # None => ~(q.barEnd > at)
  BY <1>3, Zenon DEF Flag
<1> QED BY <1>1, <1>2, <1>4 DEF OutOfOrder

\* Normalising keeps the fields of a quote and adds its reasons to its flaws.
LEMMA LegQuoteFact ==
  ASSUME NEW q, IsQuote(q), NEW leg, NEW at, NEW policy
  PROVE  LET normal == LegQuote(q, leg, at, policy)
         IN  /\ normal.bid = q.bid /\ normal.ask = q.ask
             /\ normal.bidSize = q.bidSize /\ normal.askSize = q.askSize
             /\ normal.cohort = q.cohort /\ normal.sourceAt = q.sourceAt
             /\ normal.quantity = leg.quantity
             /\ normal.flaws = q.flaws \cup QuoteTimingReasons(q, at, policy.maxAge)
                  \cup Flag(~Priced(q), "MISSING_LEG_QUOTE")
                  \cup Flag(Priced(q) /\ q.bid > q.ask, "CROSSED_LEG_QUOTE")
                  \cup Flag(~Sized(q), "MISSING_LEG_SIZE")
<1> DEFINE marked == [q EXCEPT !.flaws =
              @ \cup QuoteTimingReasons(q, at, policy.maxAge)
                \cup Flag(~Priced(q), "MISSING_LEG_QUOTE")
                \cup Flag(Priced(q) /\ q.bid > q.ask, "CROSSED_LEG_QUOTE")
                \cup Flag(~Sized(q), "MISSING_LEG_SIZE")]
           quantity == [quantity |-> leg.quantity]
<1>1. DOMAIN marked = QuoteFields
  BY DEF IsQuote
<1>2. DOMAIN quantity = {"quantity"} /\ quantity["quantity"] = leg.quantity
  OBVIOUS
<1>3. LegQuote(q, leg, at, policy) = Joined(marked, quantity)
  BY DEF LegQuote
<1>4. \A field \in QuoteFields : Joined(marked, quantity)[field] = marked[field]
  BY <1>1, JoinedFact
<1>5. Joined(marked, quantity)["quantity"] = leg.quantity
  BY <1>1, <1>2, JoinedFact DEF QuoteFields
<1>6. \A field \in QuoteFields \ {"flaws"} : marked[field] = q[field]
  BY <1>1
<1>7. marked["flaws"] = q.flaws \cup QuoteTimingReasons(q, at, policy.maxAge)
                  \cup Flag(~Priced(q), "MISSING_LEG_QUOTE")
                  \cup Flag(Priced(q) /\ q.bid > q.ask, "CROSSED_LEG_QUOTE")
                  \cup Flag(~Sized(q), "MISSING_LEG_SIZE")
  BY <1>1 DEF QuoteFields, IsQuote
<1> HIDE DEF marked, quantity
<1> QED BY <1>3, <1>4, <1>5, <1>6, <1>7 DEF QuoteFields

LEMMA MissingQuoteFact ==
  ASSUME NEW leg
  PROVE  MissingLegQuote(leg).flaws # {}
<1>1. NoQuote["flaws"] = {"MISSING_LEG_QUOTE", "MISSING_LEG_SIZE"} /\ "flaws" \in DOMAIN NoQuote
  BY DEF NoQuote
<1>2. Joined(NoQuote, [quantity |-> leg.quantity])["flaws"] = NoQuote["flaws"]
  BY <1>1, JoinedFact
<1> QED BY <1>1, <1>2 DEF MissingLegQuote

\* A package is usable when there is no reason against it.
LEMMA UsableReasons ==
  ASSUME NEW quotes, NEW cohorts, NEW frame,
         SyntheticPackageQuote(quotes, cohorts, frame).usable
  PROVE  /\ UNION {quotes[i].flaws : i \in DOMAIN quotes} = {}
         /\ frame = {}
         /\ PackageSize(quotes, "BID") # None /\ PackageSize(quotes, "ASK") # None
<1>1. /\ UNION {quotes[i].flaws : i \in DOMAIN quotes} = {}
      /\ frame = {}
      /\ Flag(None \in {PackageSize(quotes, "BID"), PackageSize(quotes, "ASK")},
              "INSUFFICIENT_PACKAGE_SIZE") = {}
  BY DEF SyntheticPackageQuote
<1>2. None \notin {PackageSize(quotes, "BID"), PackageSize(quotes, "ASK")}
  BY <1>1, Zenon DEF Flag
<1> QED BY <1>1, <1>2

LEMMA SyntheticFact ==
  ASSUME NEW quotes, NEW cohorts, NEW frame
  PROVE  LET package == SyntheticPackageQuote(quotes, cohorts, frame)
         IN  /\ package.bid = PackagePrice(quotes, "BID")
             /\ package.ask = PackagePrice(quotes, "ASK")
             /\ package.bidSize = PackageSize(quotes, "BID")
             /\ package.askSize = PackageSize(quotes, "ASK")
             /\ package.signed
  BY DEF SyntheticPackageQuote

\* The legs of a usable package are all there, each of them known and priced.
LEMMA UsableLegs ==
  ASSUME NEW legs, NEW o, IsObservation(o, legs), NEW policy,
         Observation(o, legs, policy).synthetic.usable
  PROVE  \A i \in DOMAIN legs :
           /\ o.legs[i] # None /\ IsQuote(o.legs[i])
           /\ QuoteTimingReasons(o.legs[i], o.at, policy.maxAge) = {}
           /\ Priced(o.legs[i]) /\ Sized(o.legs[i])
           /\ LegQuotes(o, legs, policy)[i] = LegQuote(o.legs[i], legs[i], o.at, policy)
<1> DEFINE quotes == LegQuotes(o, legs, policy)
<1>1. DOMAIN quotes = DOMAIN legs
  BY DEF LegQuotes
<1>2. \A i \in DOMAIN legs : quotes[i].flaws = {}
  <2>1. SyntheticPackageQuote(quotes, Cohorts(quotes), FrameReasons(quotes, policy)).usable
    BY ObservationFact
  <2>2. UNION {quotes[i].flaws : i \in DOMAIN quotes} = {}
    BY <2>1, UsableReasons
  <2> QED BY <1>1, <2>2
<1> SUFFICES ASSUME NEW i \in DOMAIN legs
             PROVE  /\ o.legs[i] # None /\ IsQuote(o.legs[i])
                    /\ QuoteTimingReasons(o.legs[i], o.at, policy.maxAge) = {}
                    /\ Priced(o.legs[i]) /\ Sized(o.legs[i])
                    /\ quotes[i] = LegQuote(o.legs[i], legs[i], o.at, policy)
  OBVIOUS
<1>3. o.legs[i] # None
  BY <1>2, MissingQuoteFact DEF LegQuotes
<1>4. IsQuote(o.legs[i])
  BY <1>3 DEF IsObservation
<1>5. quotes[i] = LegQuote(o.legs[i], legs[i], o.at, policy)
  BY <1>3 DEF LegQuotes
<1>6. LegQuote(o.legs[i], legs[i], o.at, policy).flaws = {}
  BY <1>2, <1>5
<1>7. /\ QuoteTimingReasons(o.legs[i], o.at, policy.maxAge) = {}
      /\ Flag(~Priced(o.legs[i]), "MISSING_LEG_QUOTE") = {}
      /\ Flag(~Sized(o.legs[i]), "MISSING_LEG_SIZE") = {}
  BY <1>4, <1>6, LegQuoteFact
<1>8. Priced(o.legs[i]) /\ Sized(o.legs[i])
  BY <1>7, Zenon DEF Flag
<1> QED BY <1>3, <1>4, <1>5, <1>7, <1>8

\* The legs of a valid inventory: two or four, each with a quantity.
IsPackage(legs) ==
  /\ \E n \in {2, 4} : DOMAIN legs = 1..n
  /\ \A i \in DOMAIN legs : legs[i].quantity \in Int \ {0}

LEMMA PackageFinite ==
  ASSUME NEW legs, IsPackage(legs)
  PROVE  IsFiniteSet(DOMAIN legs) /\ 1 \in DOMAIN legs
<1>1. PICK n \in {2, 4} : DOMAIN legs = 1..n
  BY DEF IsPackage
<1>2. IsFiniteSet(1..n)
  BY FS_Interval
<1> QED BY <1>1, <1>2

LEMMA ImageFinite ==
  ASSUME NEW S, IsFiniteSet(S), NEW f
  PROVE  IsFiniteSet({f[x] : x \in S})
<1> DEFINE g == [x \in S |-> f[x]]
           T == {f[x] : x \in S}
<1>1. g \in Surjection(S, T)
  BY DEF Surjection
<1> QED BY <1>1, FS_Surjection

\* All the legs of a usable package come from one source.
LEMMA OneCohort ==
  ASSUME NEW legs, IsPackage(legs), NEW o, IsObservation(o, legs), NEW policy,
         Observation(o, legs, policy).synthetic.usable
  PROVE  Cardinality({o.legs[i].cohort : i \in DOMAIN legs}) = 1
<1> DEFINE quotes == LegQuotes(o, legs, policy)
           shown == {o.legs[i].cohort : i \in DOMAIN legs}
           f == [i \in DOMAIN legs |-> o.legs[i].cohort]
<1>1. SyntheticPackageQuote(quotes, Cohorts(quotes), FrameReasons(quotes, policy)).usable
  BY ObservationFact
<1>2. FrameReasons(quotes, policy) = {}
  BY <1>1, UsableReasons
<1>3. ~(Cardinality(Cohorts(quotes)) > 1)
  BY <1>2, Zenon DEF FrameReasons, Flag
<1>4. DOMAIN quotes = DOMAIN legs
  BY DEF LegQuotes
<1>5. \A i \in DOMAIN legs : quotes[i].cohort = o.legs[i].cohort /\ o.legs[i].cohort # None
  <2> TAKE i \in DOMAIN legs
  <2>1. quotes[i] = LegQuote(o.legs[i], legs[i], o.at, policy) /\ IsQuote(o.legs[i])
    BY UsableLegs
  <2> QED BY <2>1, LegQuoteFact DEF IsQuote
<1>6. Cohorts(quotes) = shown
  BY <1>4, <1>5 DEF Cohorts
<1>7. shown = {f[i] : i \in DOMAIN legs}
  OBVIOUS
<1>8. IsFiniteSet(shown)
  <2> HIDE DEF f, shown
  <2> QED BY <1>7, PackageFinite, ImageFinite
<1>9. shown # {}
  BY PackageFinite
<1> HIDE DEF shown, quotes
<1>10. Cardinality(shown) \in Nat /\ Cardinality(shown) # 0
  BY <1>8, <1>9, FS_CardinalityType, FS_EmptySet
<1>11. Cardinality(shown) = 1
  BY <1>3, <1>6, <1>10
<1> QED BY <1>11 DEF shown

\* Which side of a leg the package takes.
LEMMA SidesTaken ==
  ASSUME NEW legs, NEW i \in DOMAIN legs, legs[i].quantity \in Int, NEW q,
         q.quantity = legs[i].quantity
  PROVE  /\ TakesBid(q, "ASK") <=> LegSide(legs[i], "ENTRY") = "bid"
         /\ TakesBid(q, "BID") <=> LegSide(legs[i], "EXIT") = "bid"
         /\ LegSide(legs[i], "ENTRY") \in {"bid", "ask"} /\ LegSide(legs[i], "EXIT") \in {"bid", "ask"}
<1>1. CASE legs[i].quantity > 0
  BY <1>1 DEF TakesBid, LegSide
<1>2. CASE ~(legs[i].quantity > 0)
  BY <1>2 DEF TakesBid, LegSide
<1> QED BY <1>1, <1>2

\* The price of a usable package is that of the legs on show.
LEMMA PackagePriceFact ==
  ASSUME NEW legs, IsPackage(legs), NEW o, IsObservation(o, legs), NEW policy,
         Observation(o, legs, policy).synthetic.usable
  PROVE  LET package == Observation(o, legs, policy).synthetic
         IN  /\ package.ask = ShownPrice(o, legs, "ENTRY") /\ package.ask \in Int
             /\ package.bid = ShownPrice(o, legs, "EXIT") /\ package.bid \in Int
<1> DEFINE quotes == LegQuotes(o, legs, policy)
           cash(side) == [i \in DOMAIN quotes |-> Cash(quotes[i], side)]
           paid(side) == [i \in DOMAIN legs |-> legs[i].quantity * o.legs[i][LegSide(legs[i], side)]]
<1>1. /\ Observation(o, legs, policy).synthetic.ask = PackagePrice(quotes, "ASK")
      /\ Observation(o, legs, policy).synthetic.bid = PackagePrice(quotes, "BID")
  BY ObservationFact, SyntheticFact
<1>2. DOMAIN quotes = DOMAIN legs
  BY DEF LegQuotes
<1>3. ASSUME NEW i \in DOMAIN legs
      PROVE  /\ Priced(quotes[i])
             /\ legs[i].quantity \in Int
             /\ o.legs[i].bid \in Int /\ o.legs[i].ask \in Int
             /\ Cash(quotes[i], "ASK") = legs[i].quantity * o.legs[i][LegSide(legs[i], "ENTRY")]
             /\ Cash(quotes[i], "BID") = legs[i].quantity * o.legs[i][LegSide(legs[i], "EXIT")]
  <2>1. quotes[i] = LegQuote(o.legs[i], legs[i], o.at, policy) /\ IsQuote(o.legs[i])
        /\ Priced(o.legs[i])
    BY UsableLegs
  <2> HIDE DEF quotes
  <2>2. /\ quotes[i].bid = o.legs[i].bid /\ quotes[i].ask = o.legs[i].ask
        /\ quotes[i].quantity = legs[i].quantity
    BY <2>1, LegQuoteFact
  <2>3. o.legs[i]["bid"] \in Int /\ o.legs[i]["ask"] \in Int
    BY <2>1 DEF IsQuote, Priced
  <2>4. legs[i].quantity \in Int
    BY DEF IsPackage
  <2>5. Priced(quotes[i])
    BY <2>1, <2>2 DEF Priced
  <2>6. Cash(quotes[i], "ASK") = legs[i].quantity * o.legs[i][LegSide(legs[i], "ENTRY")]
    <3>1. CASE LegSide(legs[i], "ENTRY") = "bid"
      BY <3>1, <2>2, <2>4, SidesTaken DEF Cash
    <3>2. CASE LegSide(legs[i], "ENTRY") = "ask"
      BY <3>2, <2>2, <2>4, SidesTaken DEF Cash
    <3> QED BY <3>1, <3>2, <2>4, <2>2, SidesTaken
  <2>7. Cash(quotes[i], "BID") = legs[i].quantity * o.legs[i][LegSide(legs[i], "EXIT")]
    <3>1. CASE LegSide(legs[i], "EXIT") = "bid"
      BY <3>1, <2>2, <2>4, SidesTaken DEF Cash
    <3>2. CASE LegSide(legs[i], "EXIT") = "ask"
      BY <3>2, <2>2, <2>4, SidesTaken DEF Cash
    <3> QED BY <3>1, <3>2, <2>4, <2>2, SidesTaken
  <2> QED BY <2>3, <2>4, <2>5, <2>6, <2>7
<1>4. cash("ASK") = paid("ENTRY") /\ cash("BID") = paid("EXIT")
  BY <1>2, <1>3
<1>5. /\ PackagePrice(quotes, "ASK") = SumOf(cash("ASK"))
      /\ PackagePrice(quotes, "BID") = SumOf(cash("BID"))
  BY <1>2, <1>3 DEF PackagePrice
<1>6. /\ ShownPrice(o, legs, "ENTRY") = SumOf(paid("ENTRY"))
      /\ ShownPrice(o, legs, "EXIT") = SumOf(paid("EXIT"))
  BY DEF ShownPrice
<1>7. \A side \in {"ENTRY", "EXIT"} : SumOf(paid(side)) \in Int
  <2> TAKE side \in {"ENTRY", "EXIT"}
  <2>1. \A i \in DOMAIN legs : legs[i].quantity * o.legs[i][LegSide(legs[i], side)] \in Int
    <3> TAKE i \in DOMAIN legs
    <3>1. o.legs[i]["bid"] \in Int /\ o.legs[i]["ask"] \in Int /\ legs[i].quantity \in Int
      BY <1>3
    <3>2. LegSide(legs[i], side) \in {"bid", "ask"}
      BY DEF LegSide
    <3> QED BY <3>1, <3>2
  <2>2. PICK n \in {2, 4} : DOMAIN legs = 1..n
    BY DEF IsPackage
  <2>3. paid(side) \in [1..n -> Int]
    BY <2>1, <2>2
  <2> HIDE DEF paid
  <2> QED BY <2>3, SumIsInt
<1> HIDE DEF quotes, cash, paid
<1> QED BY <1>1, <1>4, <1>5, <1>6, <1>7

\* The side of the package that an order takes.
Takes(moment) == IF moment = "ENTRY" THEN "ASK" ELSE "BID"

LEMMA LegUnits ==
  ASSUME NEW legs, IsPackage(legs), NEW o, IsObservation(o, legs), NEW policy,
         Observation(o, legs, policy).synthetic.usable,
         NEW moment \in {"ENTRY", "EXIT"}, NEW i \in DOMAIN legs
  PROVE  LET units == Units(LegQuotes(o, legs, policy)[i], Takes(moment))
         IN  /\ units \in Nat
             /\ \A n \in Int : units >= n <=>
                  o.legs[i][SizeSide(legs[i], moment)] >= n * Magnitude(legs[i].quantity)
<1> DEFINE quoted == LegQuotes(o, legs, policy)[i]
           size == o.legs[i][SizeSide(legs[i], moment)]
           m == Magnitude(legs[i].quantity)
<1>1. quoted = LegQuote(o.legs[i], legs[i], o.at, policy) /\ IsQuote(o.legs[i]) /\ Sized(o.legs[i])
  BY UsableLegs
<1>2. o.legs[i]["bidSize"] \in Nat /\ o.legs[i]["askSize"] \in Nat
      /\ o.legs[i].bidSize # None /\ o.legs[i].askSize # None
  BY <1>1 DEF IsQuote, Sized
<1>3. legs[i].quantity \in Int \ {0}
  BY DEF IsPackage
<1>4. m \in Nat \ {0}
  BY <1>3 DEF Magnitude
<1>5. /\ quoted.bidSize = o.legs[i]["bidSize"] /\ quoted.askSize = o.legs[i]["askSize"]
      /\ quoted.quantity = legs[i].quantity
  <2> HIDE DEF quoted
  <2> QED BY <1>1, LegQuoteFact
<1>6. size \in Nat /\ Units(quoted, Takes(moment)) = size \div m
  <2>0. quoted.bidSize # None /\ quoted.askSize # None
    BY <1>2, <1>5
  <2> HIDE DEF quoted
  <2>1. TakesBid(quoted, Takes(moment)) <=> LegSide(legs[i], moment) = "bid"
    BY <1>3, <1>5, SidesTaken DEF Takes
  <2>2. LegSide(legs[i], moment) \in {"bid", "ask"}
    BY DEF LegSide
  <2>3. CASE LegSide(legs[i], moment) = "bid"
    <3>1. SizeSide(legs[i], moment) = "bidSize"
      BY <2>3 DEF SizeSide
    <3> QED BY <1>2, <1>5, <2>0, <2>1, <2>3, <3>1 DEF Units
  <2>4. CASE LegSide(legs[i], moment) = "ask"
    <3>1. SizeSide(legs[i], moment) = "askSize"
      BY <2>4 DEF SizeSide
    <3> QED BY <1>2, <1>5, <2>0, <2>1, <2>4, <3>1 DEF Units
  <2> QED BY <2>2, <2>3, <2>4
<1>7. \A n \in Int : size \div m >= n <=> size >= n * m
  <2> HIDE DEF size, m
  <2> QED BY <1>4, <1>6, UnitsFact
<1>8. size \div m \in Nat
  <2> HIDE DEF size, m
  <2> QED BY <1>4, <1>6, DivisionFact
<1> HIDE DEF quoted
<1> QED BY <1>6, <1>7, <1>8 DEF quoted

\* The size of a usable package is one that every leg shows, and the largest.
LEMMA PackageSizeFact ==
  ASSUME NEW legs, IsPackage(legs), NEW o, IsObservation(o, legs), NEW policy,
         Observation(o, legs, policy).synthetic.usable, NEW moment \in {"ENTRY", "EXIT"}
  PROVE  LET package == Observation(o, legs, policy).synthetic
             size == IF moment = "ENTRY" THEN package.askSize ELSE package.bidSize
         IN  /\ size # None /\ size \in Nat
             /\ \A n \in Int : size >= n <=> ShownSize(o, legs, moment, n)
<1> DEFINE package == Observation(o, legs, policy).synthetic
           size == IF moment = "ENTRY" THEN package.askSize ELSE package.bidSize
           quotes == LegQuotes(o, legs, policy)
           units == [i \in DOMAIN legs |-> Units(quotes[i], Takes(moment))]
           S == {Units(quotes[i], Takes(moment)) : i \in DOMAIN quotes}
<1>1. package = SyntheticPackageQuote(quotes, Cohorts(quotes), FrameReasons(quotes, policy))
  BY ObservationFact
<1>2. size = PackageSize(quotes, Takes(moment)) /\ size # None
  <2> HIDE DEF quotes
  <2> QED BY <1>1, SyntheticFact, UsableReasons DEF Takes
<1>3. DOMAIN quotes = DOMAIN legs
  BY DEF LegQuotes
<1>4. S = {units[i] : i \in DOMAIN legs}
  <2> HIDE DEF quotes
  <2> QED BY <1>3
<1>5. \A i \in DOMAIN legs : units[i] \in Nat
  BY LegUnits
<1>6. IsFiniteSet(S) /\ S # {} /\ S \in SUBSET Int
  <2> HIDE DEF units, S
  <2> QED BY <1>4, <1>5, PackageFinite, ImageFinite
<1>7. Min(S) \in S /\ \A y \in S : Min(S) <= y
  <2> HIDE DEF S
  <2> QED BY <1>6, MinFact
<1>8. size = Min(S)
  <2> HIDE DEF size
  <2> QED BY <1>2 DEF PackageSize
<1>9. ASSUME NEW n \in Int PROVE size >= n <=> ShownSize(o, legs, moment, n)
  <2>1. Min(S) >= n <=> \A i \in DOMAIN legs : units[i] >= n
    <3> DEFINE least == Min(S)
    <3>1. least \in Int /\ \A i \in DOMAIN legs : least <= units[i]
      <4> HIDE DEF S, units
      <4> QED BY <1>4, <1>6, <1>7
    <3>2. PICK i \in DOMAIN legs : least = units[i]
      <4> HIDE DEF S, units
      <4> QED BY <1>4, <1>7
    <3> HIDE DEF least, units
    <3>3. least >= n <=> \A j \in DOMAIN legs : units[j] >= n
      BY <1>5, <3>1, <3>2
    <3> QED BY <3>3 DEF least
  <2>2. \A i \in DOMAIN legs : units[i] >= n <=>
          o.legs[i][SizeSide(legs[i], moment)] >= n * Magnitude(legs[i].quantity)
    BY LegUnits
  <2> HIDE DEF units, S, size
  <2> QED BY <1>8, <2>1, <2>2 DEF ShownSize
<1>10. Min(S) \in Nat
  <2> HIDE DEF S, units
  <2> QED BY <1>4, <1>5, <1>7
<1> HIDE DEF size
<1> QED BY <1>2, <1>8, <1>9, <1>10 DEF size

-----------------------------------------------------------------------------
(* The evidence of a request, by instant.                                   *)

TypedRequest(r) ==
  /\ r.expected \in Seq(Int) /\ IsPackage(r.legs)
  /\ \A o \in ToSet(r.observations) : IsObservation(o, r.legs)
  /\ {o.at : o \in ToSet(r.observations)} \subseteq ToSet(r.expected)

LEMMA ExpectedFact ==
  ASSUME NEW s \in Seq(Int)
  PROVE  ToSet(s) \in SUBSET Int /\ IsFiniteSet(ToSet(s))
<1>1. ToSet(s) = {s[i] : i \in 1..Len(s)} /\ Len(s) \in Nat /\ \A i \in 1..Len(s) : s[i] \in Int
  BY DEF ToSet
<1>2. IsFiniteSet(1..Len(s))
  BY <1>1, FS_Interval
<1>3. IsFiniteSet({s[i] : i \in 1..Len(s)})
  BY <1>2, ImageFinite
<1> QED BY <1>1, <1>3

LEMMA EvidenceFact ==
  ASSUME NEW r, TypedRequest(r)
  PROVE  LET evidence == Evidence(r)
             seen == DOMAIN evidence.observations
         IN  /\ seen = {o.at : o \in ToSet(r.observations)}
             /\ seen \in SUBSET Int /\ IsFiniteSet(seen)
             /\ evidence.expected = ToSet(r.expected) /\ evidence.inventory = r.legs
             /\ \A t \in seen :
                  LET o == ObservedAt(r, t)
                  IN  /\ o \in ToSet(r.observations) /\ o.at = t /\ IsObservation(o, r.legs)
                      /\ evidence.observations[t] = Observation(o, r.legs, r.policy)
<1> DEFINE times == {o.at : o \in ToSet(r.observations)}
           observations == [t \in times |-> Observation(ObservedAt(r, t), r.legs, r.policy)]
<1>1. Evidence(r) = EvidenceOf(r, observations)
  BY DEF Evidence
<1>2. /\ Evidence(r).observations = observations
      /\ Evidence(r).expected = ToSet(r.expected) /\ Evidence(r).inventory = r.legs
  <2> HIDE DEF observations
  <2> QED BY <1>1 DEF EvidenceOf
<1>3. DOMAIN observations = times
  OBVIOUS
<1>4. times \in SUBSET Int /\ IsFiniteSet(times)
  BY ExpectedFact, FS_Subset DEF TypedRequest
<1>5. \A t \in times : observations[t] = Observation(ObservedAt(r, t), r.legs, r.policy)
  OBVIOUS
<1>6. \A t \in times : ObservedAt(r, t) \in ToSet(r.observations) /\ ObservedAt(r, t).at = t
  BY DEF ObservedAt
<1>7. \A t \in times : IsObservation(ObservedAt(r, t), r.legs)
  BY <1>6 DEF TypedRequest
<1> HIDE DEF observations
<1> QED BY <1>2, <1>3, <1>4, <1>5, <1>6, <1>7

-----------------------------------------------------------------------------
(* The point of an instant.                                                 *)

KnownAt(q, at) ==
  /\ q.sourceAt <= at /\ q.availableAt <= at /\ at <= q.retrievedAt
  /\ q.barEnd # None => q.barEnd <= at

\* A profile that trades on quotes has a point where its quote is usable.
LEMMA PointFact ==
  ASSUME NEW o, NEW p, p.model \in QuoteModels, PointOf(o, p) # None
  PROVE  LET q == SourceQuote(o, p)
         IN  /\ q # None /\ q.usable /\ Priced(q)
             /\ PointOf(o, p).bid = q.bid /\ PointOf(o, p).ask = q.ask
             /\ PointOf(o, p).bidSize = q.bidSize /\ PointOf(o, p).askSize = q.askSize
<1>1. p.model # "REFERENCE_COST"
  BY DEF QuoteModels
<1>2. SourceQuote(o, p) # None /\ SourceQuote(o, p).usable /\ Priced(SourceQuote(o, p))
      /\ PointOf(o, p) = QuotePoint(o, SourceQuote(o, p))
  BY <1>1 DEF PointOf
<1> QED BY <1>2 DEF QuotePoint

\* What such a point was made of was known at its instant.
LEMMA PointIsKnown ==
  ASSUME NEW legs, NEW o, IsObservation(o, legs), NEW policy, NEW p, p.model \in QuoteModels,
         PointOf(Observation(o, legs, policy), p) # None
  PROVE  IF p.quoteSource = "NATIVE_PACKAGE" THEN KnownAt(o.native, o.at)
         ELSE \A q \in ToSet(o.legs) : KnownAt(q, o.at)
<1> DEFINE normal == Observation(o, legs, policy)
           quotes == LegQuotes(o, legs, policy)
<1>0. o.at \in Int
  BY DEF IsObservation
<1>1. SourceQuote(normal, p) # None /\ SourceQuote(normal, p).usable
  BY PointFact
<1>2. CASE p.quoteSource = "NATIVE_PACKAGE"
  <2>1. normal.native # None /\ normal.native.usable
    BY <1>1, <1>2 DEF SourceQuote
  <2>2. /\ o.native # None
        /\ NativePackageQuote(o.native, o.at, policy, Cohorts(quotes)).usable
    BY <2>1, ObservationFact
  <2>3. QuoteTimingReasons(o.native, o.at, policy.maxAge) = {}
    BY <2>2 DEF NativePackageQuote
  <2>4. IsQuote(o.native)
    BY <2>2 DEF IsObservation
  <2> QED BY <1>0, <1>2, <2>3, <2>4, TimingFact DEF KnownAt
<1>3. CASE p.quoteSource # "NATIVE_PACKAGE"
  <2>1. normal.synthetic.usable
    BY <1>1, <1>3 DEF SourceQuote
  <2>2. \A i \in DOMAIN legs : KnownAt(o.legs[i], o.at)
    BY <1>0, <2>1, UsableLegs, TimingFact DEF KnownAt
  <2>3. DOMAIN o.legs = DOMAIN legs
    BY DEF IsObservation
  <2> QED BY <1>3, <2>2, <2>3 DEF ToSet
<1> QED BY <1>2, <1>3

-----------------------------------------------------------------------------
(* What a phase comes to.                                                   *)

LEMMA FillsAreInstants ==
  ASSUME NEW r, TypedRequest(r), NEW window, window.evidence = Evidence(r),
         NEW side, NEW p, NEW quantity, NEW notBefore
  PROVE  /\ FillsAt(side, window, p, quantity, notBefore) \in SUBSET Int
         /\ IsFiniteSet(FillsAt(side, window, p, quantity, notBefore))
<1>1. FillsAt(side, window, p, quantity, notBefore) \subseteq DOMAIN window.evidence.observations
  BY DEF FillsAt, BigAt, Eligible, SelectedPoints
<1> QED BY <1>1, EvidenceFact, FS_Subset

LEMMA FilledPhase ==
  ASSUME NEW r, TypedRequest(r), NEW window, window.evidence = Evidence(r),
         window.evidence # None,
         NEW side, NEW p, NEW quantity, NEW notBefore,
         Filled(EvaluatePhase(side, window, p, quantity, notBefore))
  PROVE  LET filled == EvaluatePhase(side, window, p, quantity, notBefore)
         IN  /\ filled.at \in FillsAt(side, window, p, quantity, notBefore)
             /\ filled.price = ModeledPrice(PointOf(window.evidence.observations[filled.at], p),
                                            p, side, window.limit)
<1> DEFINE fills == FillsAt(side, window, p, quantity, notBefore)
           filled == EvaluatePhase(side, window, p, quantity, notBefore)
<1>1. fills # {}
  BY DEF EvaluatePhase, Filled, Unfilled
<1>2. /\ filled.at = Min(fills)
      /\ filled.price = ModeledPrice(PointOf(window.evidence.observations[Min(fills)], p),
                                     p, side, window.limit)
  BY <1>1 DEF EvaluatePhase
<1>3. Min(fills) \in fills
  <2>1. fills \in SUBSET Int /\ IsFiniteSet(fills)
    BY FillsAreInstants
  <2> HIDE DEF fills
  <2> QED BY <1>1, <2>1, MinFact
<1> QED BY <1>2, <1>3

\* An order that can fill does so at the first instant of all.
LEMMA FirstFill ==
  ASSUME NEW window, window.evidence # None,
         NEW side, NEW p, NEW quantity, NEW notBefore,
         FillsAt(side, window, p, quantity, notBefore) # {}
  PROVE  LET filled == EvaluatePhase(side, window, p, quantity, notBefore)
         IN  /\ Filled(filled) /\ filled.at = Min(FillsAt(side, window, p, quantity, notBefore))
             /\ filled.price = ModeledPrice(PointOf(window.evidence.observations[filled.at], p),
                                            p, side, window.limit)
  BY DEF EvaluatePhase, Filled

LEMMA UnfilledPhase ==
  ASSUME NEW window, NEW side, NEW p, NEW quantity, NEW notBefore,
         EvaluatePhase(side, window, p, quantity, notBefore).status = "NO_FILL_UNDER_MODEL"
  PROVE  /\ window.evidence # None
         /\ FillsAt(side, window, p, quantity, notBefore) = {}
         /\ \A t \in window.evidence.expected :
              t >= EligibleAfter(window, p, notBefore) => t \in Eligible(window, p, notBefore)
<1>1. window.evidence # None
  BY DEF EvaluatePhase, Unfilled
<1>2. FillsAt(side, window, p, quantity, notBefore) = {}
  BY <1>1 DEF EvaluatePhase
<1>3. Coverage(window, p, notBefore) = "COMPLETE"
  BY <1>1, <1>2 DEF EvaluatePhase, Unfilled
<1>4. {t \in window.evidence.expected : t >= EligibleAfter(window, p, notBefore)}
        \subseteq Eligible(window, p, notBefore)
  BY <1>3 DEF Coverage
<1> QED BY <1>1, <1>2, <1>4

-----------------------------------------------------------------------------
(* The points of the quotes of the legs.                                    *)

LegProfile(p) ==
  /\ p.model \in QuoteModels /\ p.quoteSource # "NATIVE_PACKAGE"
  /\ p.minSize \in Int /\ p.tick \in Nat \ {0}

LEMMA LegPoint ==
  ASSUME NEW r, TypedRequest(r), NEW p, LegProfile(p),
         NEW t \in SelectedPoints(Evidence(r), p)
  PROVE  LET o == ObservedAt(r, t)
             package == Observation(o, r.legs, r.policy).synthetic
             point == PointOf(Evidence(r).observations[t], p)
         IN  /\ o \in ToSet(r.observations) /\ o.at = t /\ IsObservation(o, r.legs)
             /\ package.usable
             /\ point.bid = package.bid /\ point.ask = package.ask
             /\ point.bidSize = package.bidSize /\ point.askSize = package.askSize
<1> DEFINE o == ObservedAt(r, t)
           normal == Observation(o, r.legs, r.policy)
<1>1. t \in DOMAIN Evidence(r).observations /\ PointOf(Evidence(r).observations[t], p) # None
  BY DEF SelectedPoints
<1>2. /\ o \in ToSet(r.observations) /\ o.at = t /\ IsObservation(o, r.legs)
      /\ Evidence(r).observations[t] = normal
  BY <1>1, EvidenceFact
<1>3. SourceQuote(normal, p) = normal.synthetic
  BY DEF SourceQuote, LegProfile
<1>4. PointOf(normal, p) # None /\ p.model \in QuoteModels
  BY <1>1, <1>2 DEF LegProfile
<1> HIDE DEF o, normal
<1>5. /\ normal.synthetic.usable
      /\ PointOf(normal, p).bid = normal.synthetic.bid
      /\ PointOf(normal, p).ask = normal.synthetic.ask
      /\ PointOf(normal, p).bidSize = normal.synthetic.bidSize
      /\ PointOf(normal, p).askSize = normal.synthetic.askSize
  BY <1>3, <1>4, PointFact
<1> QED BY <1>2, <1>5 DEF o, normal

\* A point is big enough where every leg shows the size.
LEMMA BigFact ==
  ASSUME NEW r, TypedRequest(r), NEW p, LegProfile(p), NEW side \in {"ENTRY", "EXIT"},
         NEW quantity \in Int, NEW t \in SelectedPoints(Evidence(r), p)
  PROVE  BigEnough(PointOf(Evidence(r).observations[t], p), p, side, quantity) <=>
           ShownSize(ObservedAt(r, t), r.legs, side, Larger(quantity, p.minSize))
<1> DEFINE o == ObservedAt(r, t)
           point == PointOf(Evidence(r).observations[t], p)
           package == Observation(o, r.legs, r.policy).synthetic
           size == IF side = "ENTRY" THEN package.askSize ELSE package.bidSize
           least == Larger(quantity, p.minSize)
<1>1. /\ IsObservation(o, r.legs) /\ package.usable
      /\ point.bidSize = package.bidSize /\ point.askSize = package.askSize
  BY LegPoint
<1>2. least \in Int
  BY DEF Larger, LegProfile
<1>3. IsPackage(r.legs)
  BY DEF TypedRequest
<1>4. size # None /\ (size >= least <=> ShownSize(o, r.legs, side, least))
  <2> HIDE DEF o, least
  <2> QED BY <1>1, <1>2, <1>3, PackageSizeFact
<1>5. p.model # "REFERENCE_COST"
  BY DEF LegProfile, QuoteModels
<1>6. size = IF side = "ENTRY" THEN point.askSize ELSE point.bidSize
  <2> HIDE DEF point, package
  <2> QED BY <1>1
<1>7. BigEnough(point, p, side, quantity) <=> size # None /\ size >= least
  <2> HIDE DEF point, size
  <2> QED BY <1>5, <1>6 DEF BigEnough
<1> HIDE DEF size, point, o, least
<1>8. BigEnough(point, p, side, quantity) <=> ShownSize(o, r.legs, side, least)
  BY <1>4, <1>7
<1> QED BY <1>8 DEF o, point, least

\* The price of a crossing order is that of the legs on show, rounded.
LEMMA CrossingFact ==
  ASSUME NEW r, TypedRequest(r), NEW p, LegProfile(p), p.model = "QUOTE_CROSS",
         NEW side \in {"ENTRY", "EXIT"}, NEW limit,
         NEW t \in SelectedPoints(Evidence(r), p)
  PROVE  LET point == PointOf(Evidence(r).observations[t], p)
             price == ShownPrice(ObservedAt(r, t), r.legs, side)
         IN  /\ price \in Int
             /\ ModeledPrice(point, p, side, limit) = Rounded(price, p.tick, side)
             /\ Trigger(point, p, side, limit) = Rounded(price, p.tick, side)
<1> DEFINE o == ObservedAt(r, t)
           point == PointOf(Evidence(r).observations[t], p)
           package == Observation(o, r.legs, r.policy).synthetic
<1>1. /\ IsObservation(o, r.legs) /\ package.usable
      /\ point.bid = package.bid /\ point.ask = package.ask
  BY LegPoint
<1>2. IsPackage(r.legs)
  BY DEF TypedRequest
<1>3. /\ package.ask = ShownPrice(o, r.legs, "ENTRY") /\ package.ask \in Int
      /\ package.bid = ShownPrice(o, r.legs, "EXIT") /\ package.bid \in Int
  <2> HIDE DEF o
  <2> QED BY <1>1, <1>2, PackagePriceFact
<1> HIDE DEF o, point, package
<1>4. Adverse(point, side) = ShownPrice(o, r.legs, side) /\ ShownPrice(o, r.legs, side) \in Int
  BY <1>1, <1>3 DEF Adverse
<1>5. ModeledPrice(point, p, side, limit) = Rounded(Adverse(point, side), p.tick, side)
  BY DEF ModeledPrice
<1>6. Trigger(point, p, side, limit) = ModeledPrice(point, p, side, limit)
  BY DEF Trigger
<1> QED BY <1>4, <1>5, <1>6 DEF o, point

\* What an order fills on could be traded.
LEMMA FillFact ==
  ASSUME NEW r, TypedRequest(r), NEW window, window.evidence = Evidence(r),
         NEW p, LegProfile(p), NEW side \in {"ENTRY", "EXIT"}, NEW quantity \in Int,
         NEW notBefore, NEW t \in FillsAt(side, window, p, quantity, notBefore)
  PROVE  LET o == ObservedAt(r, t)
             point == PointOf(Evidence(r).observations[t], p)
             price == ShownPrice(o, r.legs, side)
         IN  /\ ShownSize(o, r.legs, side, quantity)
             /\ Cardinality({o.legs[i].cohort : i \in DOMAIN r.legs}) = 1
             /\ p.model = "QUOTE_CROSS" =>
                  IF side = "ENTRY" THEN ModeledPrice(point, p, side, window.limit) >= price
                  ELSE ModeledPrice(point, p, side, window.limit) <= price
<1> DEFINE o == ObservedAt(r, t)
           point == PointOf(Evidence(r).observations[t], p)
           price == ShownPrice(o, r.legs, side)
           package == Observation(o, r.legs, r.policy).synthetic
           size == IF side = "ENTRY" THEN package.askSize ELSE package.bidSize
           least == Larger(quantity, p.minSize)
<1>1. t \in SelectedPoints(Evidence(r), p) /\ BigEnough(point, p, side, quantity)
  BY DEF FillsAt, BigAt, Eligible
<1>2. IsObservation(o, r.legs) /\ package.usable
  BY <1>1, LegPoint
<1>3. IsPackage(r.legs)
  BY DEF TypedRequest
<1>4. ShownSize(o, r.legs, side, least)
  BY <1>1, BigFact
<1>5. least \in Int /\ quantity <= least
  BY DEF Larger, LegProfile
<1>6. size \in Nat /\ \A n \in Int : size >= n <=> ShownSize(o, r.legs, side, n)
  <2> HIDE DEF o
  <2> QED BY <1>2, <1>3, PackageSizeFact
<1>7. ShownSize(o, r.legs, side, quantity)
  <2> HIDE DEF size, o, least
  <2>1. size >= least
    BY <1>4, <1>5, <1>6
  <2>2. size >= quantity
    BY <1>5, <1>6, <2>1
  <2> QED BY <1>6, <2>2
<1>8. Cardinality({o.legs[i].cohort : i \in DOMAIN r.legs}) = 1
  <2> HIDE DEF o
  <2> QED BY <1>2, <1>3, OneCohort
<1>9. ASSUME p.model = "QUOTE_CROSS"
      PROVE  IF side = "ENTRY" THEN ModeledPrice(point, p, side, window.limit) >= price
             ELSE ModeledPrice(point, p, side, window.limit) <= price
  <2>1. price \in Int /\ ModeledPrice(point, p, side, window.limit) = Rounded(price, p.tick, side)
    BY <1>1, <1>9, CrossingFact
  <2>2. p.tick \in Nat \ {0}
    BY DEF LegProfile
  <2> HIDE DEF price, point
  <2> QED BY <2>1, <2>2, RoundedIsAdverse
<1> HIDE DEF o, point, price
<1>10. /\ ShownSize(o, r.legs, side, quantity)
       /\ Cardinality({o.legs[i].cohort : i \in DOMAIN r.legs}) = 1
       /\ p.model = "QUOTE_CROSS" =>
            IF side = "ENTRY" THEN ModeledPrice(point, p, side, window.limit) >= price
            ELSE ModeledPrice(point, p, side, window.limit) <= price
  BY <1>7, <1>8, <1>9
<1> QED BY <1>10 DEF o, point, price

\* Where an order could fill and does not, the legs are on show, and crossing
\* them misses the limit or the size.
LEMMA NoFillFact ==
  ASSUME NEW r, TypedRequest(r), NEW window, window.evidence = Evidence(r),
         NEW p, LegProfile(p), NEW side \in {"ENTRY", "EXIT"}, NEW quantity \in Int,
         NEW notBefore, FillsAt(side, window, p, quantity, notBefore) = {},
         NEW t \in Eligible(window, p, notBefore)
  PROVE  LET o == ObservedAt(r, t)
         IN  /\ o \in ToSet(r.observations) /\ o.at = t
             /\ None \notin ToSet(o.legs)
             /\ p.model = "QUOTE_CROSS"
                /\ ShownSize(o, r.legs, side, Larger(quantity, p.minSize))
                => ~ReachesLimit(Rounded(ShownPrice(o, r.legs, side), p.tick, side),
                                 window.limit, side)
<1> DEFINE o == ObservedAt(r, t)
           point == PointOf(Evidence(r).observations[t], p)
<1>1. t \in SelectedPoints(Evidence(r), p)
  BY DEF Eligible
<1>2. /\ o \in ToSet(r.observations) /\ o.at = t /\ IsObservation(o, r.legs)
      /\ Observation(o, r.legs, r.policy).synthetic.usable
  BY <1>1, LegPoint
<1>3. None \notin ToSet(o.legs)
  <2>1. \A i \in DOMAIN r.legs : o.legs[i] # None
    <3> HIDE DEF o
    <3> QED BY <1>2, UsableLegs
  <2>2. DOMAIN o.legs = DOMAIN r.legs
    BY <1>2 DEF IsObservation
  <2> QED BY <2>1, <2>2 DEF ToSet
<1>4. ASSUME p.model = "QUOTE_CROSS",
             ShownSize(o, r.legs, side, Larger(quantity, p.minSize))
      PROVE  ~ReachesLimit(Rounded(ShownPrice(o, r.legs, side), p.tick, side),
                           window.limit, side)
  <2>1. BigEnough(point, p, side, quantity)
    BY <1>1, <1>4, BigFact
  <2>2. t \in BigAt(side, window, p, quantity, notBefore)
    BY <2>1 DEF BigAt
  <2>3. ~ReachesLimit(Trigger(point, p, side, window.limit), window.limit, side)
    BY <2>2 DEF FillsAt
  <2>4. Trigger(point, p, side, window.limit) = Rounded(ShownPrice(o, r.legs, side), p.tick, side)
    BY <1>1, <1>4, CrossingFact
  <2> HIDE DEF point, o
  <2> QED BY <2>3, <2>4
<1> HIDE DEF o
<1> QED BY <1>2, <1>3, <1>4 DEF o

-----------------------------------------------------------------------------
(* The prices that profiles pay at one point.                               *)

\* The price rounded up is the least multiple of the tick that is no lower.
LEMMA CeilingFact ==
  ASSUME NEW x \in Int, NEW tick \in Nat \ {0}
  PROVE  \E k \in Int : /\ Ceiling(x, tick) = k * tick /\ k * tick >= x
                        /\ \A j \in Int : j * tick >= x => k <= j
<1> DEFINE d == (-x) \div tick
           k == -d
<1>1. d \in Int /\ tick * d <= -x /\ -x < tick * d + tick
  OBVIOUS
<1>2. Ceiling(x, tick) = -(d * tick)
  BY DEF Ceiling, Floor
<1> HIDE DEF d
<1>3. k \in Int /\ -(d * tick) = k * tick /\ k * tick >= x /\ k * tick < x + tick
  <2>1. d * tick = tick * d /\ d * tick \in Int
    BY <1>1
  <2>2. k * tick = -(d * tick)
    BY <1>1
  <2> HIDE DEF k
  <2> QED BY <1>1, <2>1, <2>2 DEF k
<1> HIDE DEF k
<1>4. ASSUME NEW j \in Int, j * tick >= x PROVE k <= j
  <2>1. ASSUME j + 1 <= k PROVE FALSE
    <3>1. (j + 1) * tick <= k * tick
      BY <1>3, <2>1, ProductKeepsOrder
    <3>2. (j + 1) * tick = j * tick + tick /\ j * tick \in Int /\ k * tick \in Int
      BY <1>3
    <3> QED BY <1>3, <1>4, <3>1, <3>2
  <2> QED BY <1>3, <2>1
<1> QED BY <1>2, <1>3, <1>4

LEMMA WholeQuotient ==
  ASSUME NEW a \in Int, NEW u \in Nat \ {0}
  PROVE  (a * u) \div u = a
<1> DEFINE d == (a * u) \div u
<1>1. a * u \in Int
  OBVIOUS
<1>2. d \in Int /\ u * d <= a * u /\ a * u < u * d + u
  BY <1>1
<1> HIDE DEF d
<1>3. u * d = d * u /\ d * u \in Int /\ (d + 1) * u = d * u + u
  BY <1>2
<1>4. ASSUME a + 1 <= d PROVE FALSE
  <2>1. (a + 1) * u <= d * u
    BY <1>2, <1>4, ProductKeepsOrder
  <2>2. (a + 1) * u = a * u + u
    OBVIOUS
  <2> QED BY <1>1, <1>2, <1>3, <2>1, <2>2
<1>5. ASSUME d + 1 <= a PROVE FALSE
  <2>1. (d + 1) * u <= a * u
    BY <1>2, <1>5, ProductKeepsOrder
  <2> QED BY <1>1, <1>2, <1>3, <2>1
<1>6. d = a
  BY <1>2, <1>4, <1>5
<1> QED BY <1>6 DEF d

\* A price between the midpoint and the ask, in units of 2 * Whole, comes to
\* the least multiple of the tick that is no lower.
LEMMA UnitPrice ==
  ASSUME NEW x \in Int, NEW tick \in Nat \ {0}, NEW unit \in Nat \ {0}
  PROVE  \E k \in Int :
           /\ Ceiling(x, unit * tick) \div unit = k * tick /\ k * (unit * tick) >= x
           /\ \A j \in Int : j * (unit * tick) >= x => k <= j
<1>1. unit * tick \in Nat \ {0}
  OBVIOUS
<1> DEFINE T == unit * tick
<1>2. PICK k \in Int : /\ Ceiling(x, T) = k * T /\ k * T >= x
                       /\ \A j \in Int : j * T >= x => k <= j
  <2> HIDE DEF T
  <2> QED BY <1>1, CeilingFact DEF T
<1>3. k * T = (k * tick) * unit /\ k * tick \in Int
  OBVIOUS
<1>4. ((k * tick) * unit) \div unit = k * tick
  BY <1>3, WholeQuotient
<1>5. Ceiling(x, T) \div unit = k * tick
  <2> HIDE DEF T
  <2> QED BY <1>2, <1>3, <1>4
<1> QED BY <1>2, <1>5

\* A profile on quotes, with what it has by its type; the most optimistic one
\* pays the midpoint.
QuoteProfile(p) ==
  /\ ValidProfile(p) /\ p.model \in QuoteModels
  /\ {p.latency, p.minSize, p.cost} \subseteq Int /\ p.tick \in Nat \ {0}
PaysMidpoint(p) ==
  p.model = "QUOTE_PRICE_IMPROVEMENT" /\ p.fraction = 0 /\ p.cost = 0

\* 2 * Whole times the midpoint.
MidpointUnits(point) == Whole * (point.bid + point.ask)

LEMMA MidpointFact ==
  ASSUME NEW point, point.bid \in Int, point.ask \in Int, point.bid <= point.ask
  PROVE  /\ MidpointUnits(point) \in Int
         /\ MidpointUnits(point) <= point.ask * (2 * Whole)
         /\ \A n \in Nat : MidpointUnits(point) + (point.ask - point.bid) * n >= MidpointUnits(point)
<1> DEFINE both == point.bid + point.ask
           spread == point.ask - point.bid
<1>1. Whole \in Nat
  BY WholeAssumption
<1>2. both \in Int /\ both <= 2 * point.ask /\ spread \in Nat
  OBVIOUS
<1>3. both * Whole <= (2 * point.ask) * Whole
  BY <1>1, <1>2, ProductKeepsOrder
<1>4. both * Whole = Whole * both /\ (2 * point.ask) * Whole = point.ask * (2 * Whole)
  BY <1>1, <1>2
<1>5. Whole * both \in Int
  BY <1>1, <1>2
<1> HIDE DEF both, spread
<1>6. \A n \in Nat : spread * n \in Nat
  BY <1>2
<1>7. \A n \in Nat : Whole * both + spread * n >= Whole * both
  BY <1>5, <1>6
<1> QED BY <1>3, <1>4, <1>5, <1>7 DEF MidpointUnits, both, spread

LEMMA MidpointPrice ==
  ASSUME NEW p, QuoteProfile(p), PaysMidpoint(p), NEW limit,
         NEW point, point.bid \in Int, point.ask \in Int, point.bid <= point.ask
  PROVE  LET price == ModeledPrice(point, p, "ENTRY", limit)
         IN  /\ price \in Int /\ Trigger(point, p, "ENTRY", limit) = price
             /\ \A j \in Int : j * ((2 * Whole) * p.tick) >= MidpointUnits(point)
                                 => price <= j * p.tick
<1> DEFINE price == ModeledPrice(point, p, "ENTRY", limit)
           unit == 2 * Whole
           paid == Interpolated(point, p, "ENTRY") + Sign("ENTRY") * unit * p.cost
<1>1. /\ p.model = "QUOTE_PRICE_IMPROVEMENT" /\ p.fraction = 0 /\ p.cost = 0
      /\ p.tick \in Nat \ {0}
  BY DEF PaysMidpoint, QuoteProfile
<1>2. Trigger(point, p, "ENTRY", limit) = price
  BY <1>1 DEF Trigger
<1>3. price = Ceiling(paid, unit * p.tick) \div unit
  BY <1>1 DEF ModeledPrice, Rounded
<1>4. unit \in Nat \ {0}
  BY WholeAssumption
<1>5. MidpointUnits(point) \in Int
  BY MidpointFact
<1>6. paid = MidpointUnits(point)
  <2>1. (point.ask - point.bid) * 0 = 0
    OBVIOUS
  <2> QED BY <1>1, <1>4, <1>5, <2>1 DEF Interpolated, Sign, MidpointUnits
<1> HIDE DEF unit, paid, price
<1>7. PICK k \in Int :
        /\ price = k * p.tick
        /\ \A j \in Int : j * (unit * p.tick) >= MidpointUnits(point) => k <= j
  BY <1>1, <1>3, <1>4, <1>5, <1>6, UnitPrice
<1>8. \A j \in Int : j * (unit * p.tick) >= MidpointUnits(point) => price <= j * p.tick
  BY <1>1, <1>7, ProductKeepsOrder
<1>9. price \in Int
  BY <1>1, <1>7
<1> QED BY <1>2, <1>8, <1>9 DEF price, unit

\* Whatever another profile pays where its order fills is a multiple of the
\* tick that is no lower than the midpoint.
LEMMA OtherPrice ==
  ASSUME NEW q, QuoteProfile(q), NEW limit \in Int, TickAligned(limit, q.tick),
         NEW point, point.bid \in Int, point.ask \in Int, point.bid <= point.ask,
         ReachesLimit(Trigger(point, q, "ENTRY", limit), limit, "ENTRY")
  PROVE  \E j \in Int :
           /\ ModeledPrice(point, q, "ENTRY", limit) = j * q.tick
           /\ j * q.tick <= limit
           /\ j * ((2 * Whole) * q.tick) >= MidpointUnits(point)
<1> DEFINE price == ModeledPrice(point, q, "ENTRY", limit)
           unit == 2 * Whole
<1>1. q.tick \in Nat \ {0} /\ unit \in Nat \ {0}
  BY WholeAssumption DEF QuoteProfile
<1>2. /\ MidpointUnits(point) \in Int /\ MidpointUnits(point) <= point.ask * unit
      /\ \A n \in Nat : MidpointUnits(point) + (point.ask - point.bid) * n >= MidpointUnits(point)
  BY MidpointFact
<1> HIDE DEF unit
\* What is no lower than the ask is no lower than the midpoint.
<1>3. ASSUME NEW j \in Int, j * q.tick >= point.ask
      PROVE  j * (unit * q.tick) >= MidpointUnits(point)
  <2>1. j * q.tick \in Int /\ j * (unit * q.tick) = (j * q.tick) * unit
    BY <1>1
  <2>2. point.ask * unit <= (j * q.tick) * unit
    <3> DEFINE multiple == j * q.tick
    <3> HIDE DEF multiple
    <3>1. multiple \in Int /\ point.ask <= multiple
      BY <1>3, <2>1 DEF multiple
    <3>2. point.ask * unit <= multiple * unit
      BY <1>1, <3>1, ProductKeepsOrder
    <3> QED BY <3>2 DEF multiple
  <2>3. point.ask * unit \in Int /\ j * (unit * q.tick) \in Int
    BY <1>1
  <2> QED BY <1>2, <2>1, <2>2, <2>3
<1>4. CASE q.model = "QUOTE_LIMIT_TOUCH"
  <2>1. price = limit /\ point.ask <= limit
    BY <1>4 DEF ModeledPrice, Trigger, Adverse, ReachesLimit
  <2>2. PICK j \in Int : limit = j * q.tick
    <3>1. limit \div q.tick \in Int /\ (limit \div q.tick) * q.tick = limit
      BY <1>1 DEF TickAligned, Floor
    <3> QED BY <3>1
  <2> QED BY <1>3, <2>1, <2>2 DEF unit
<1>5. CASE q.model = "QUOTE_CROSS"
  <2>1. price = Ceiling(point.ask, q.tick) /\ price <= limit
    BY <1>5 DEF ModeledPrice, Trigger, Adverse, ReachesLimit, Rounded
  <2>2. PICK j \in Int : Ceiling(point.ask, q.tick) = j * q.tick /\ j * q.tick >= point.ask
    BY <1>1, CeilingFact
  <2> HIDE DEF price
  <2>3. price = j * q.tick /\ j * q.tick <= limit
    BY <2>1, <2>2
  <2> QED BY <1>3, <2>2, <2>3 DEF price, unit
<1>6. CASE q.model = "QUOTE_PRICE_IMPROVEMENT"
  <2> DEFINE paid == Interpolated(point, q, "ENTRY") + Sign("ENTRY") * unit * q.cost
  <2>1. price = Ceiling(paid, unit * q.tick) \div unit /\ price <= limit
    BY <1>6 DEF ModeledPrice, Trigger, ReachesLimit, Rounded, unit
  <2>2. q.fraction \in Nat /\ q.cost \in Nat
    BY <1>6, WholeAssumption DEF QuoteProfile, ValidProfile
  <2>3. paid \in Int /\ paid >= MidpointUnits(point)
    <3> DEFINE between == (point.ask - point.bid) * q.fraction
               charge == unit * q.cost
    <3>1. between \in Int /\ MidpointUnits(point) + between >= MidpointUnits(point)
      BY <1>2, <2>2
    <3>2. charge \in Nat
      BY <1>1, <2>2
    <3>3. paid = MidpointUnits(point) + between + charge
      <4>1. Sign("ENTRY") = 1
        BY DEF Sign
      <4>2. Interpolated(point, q, "ENTRY") = MidpointUnits(point) + between
        <5>1. 1 * (point.ask - point.bid) = point.ask - point.bid
          OBVIOUS
        <5> QED BY <4>1, <5>1 DEF Interpolated, MidpointUnits
      <4>3. Sign("ENTRY") * unit * q.cost = charge
        BY <1>1, <2>2, <4>1
      <4> HIDE DEF between, charge
      <4> QED BY <4>2, <4>3
    <3> HIDE DEF between, charge, paid
    <3> QED BY <1>2, <3>1, <3>2, <3>3
  <2> HIDE DEF paid, price
  <2>4. PICK j \in Int : /\ Ceiling(paid, unit * q.tick) \div unit = j * q.tick
                         /\ j * (unit * q.tick) >= paid
    BY <1>1, <2>3, UnitPrice
  <2>5. j * (unit * q.tick) >= MidpointUnits(point)
    <3>1. j * (unit * q.tick) \in Int
      BY <1>1
    <3> QED BY <1>2, <2>3, <2>4, <3>1
  <2> QED BY <2>1, <2>4, <2>5 DEF price, unit
<1> QED BY <1>4, <1>5, <1>6 DEF QuoteProfile, QuoteModels

\* Where another order fills, the midpoint reaches the limit, for no more.
LEMMA MidpointIsBest ==
  ASSUME NEW p, QuoteProfile(p), PaysMidpoint(p), NEW q, QuoteProfile(q), p.tick = q.tick,
         NEW limit \in Int, TickAligned(limit, q.tick),
         NEW point, point.bid \in Int, point.ask \in Int, point.bid <= point.ask,
         ReachesLimit(Trigger(point, q, "ENTRY", limit), limit, "ENTRY")
  PROVE  /\ ReachesLimit(Trigger(point, p, "ENTRY", limit), limit, "ENTRY")
         /\ ModeledPrice(point, p, "ENTRY", limit) <= ModeledPrice(point, q, "ENTRY", limit)
<1> DEFINE price == ModeledPrice(point, p, "ENTRY", limit)
<1>1. PICK j \in Int :
        /\ ModeledPrice(point, q, "ENTRY", limit) = j * q.tick /\ j * q.tick <= limit
        /\ j * ((2 * Whole) * q.tick) >= MidpointUnits(point)
  BY OtherPrice
<1>2. price \in Int /\ Trigger(point, p, "ENTRY", limit) = price /\ price <= j * q.tick
  BY <1>1, MidpointPrice
<1>3. j * q.tick \in Int
  BY <1>1 DEF QuoteProfile
<1> HIDE DEF price
<1>4. price <= limit
  BY <1>1, <1>2, <1>3
<1>5. /\ ReachesLimit(Trigger(point, p, "ENTRY", limit), limit, "ENTRY")
      /\ price <= ModeledPrice(point, q, "ENTRY", limit)
  BY <1>1, <1>2, <1>4 DEF ReachesLimit
<1> QED BY <1>5 DEF price

-----------------------------------------------------------------------------
(* The optimistic profile and another one on the same evidence.             *)

\* The prices of a point are a bid and an ask that do not cross, and its sizes
\* are numbers.
LEMMA PointPrices ==
  ASSUME NEW legs, IsPackage(legs), NEW o, IsObservation(o, legs), NEW policy,
         NEW p, p.model \in QuoteModels, PointOf(Observation(o, legs, policy), p) # None
  PROVE  LET point == PointOf(Observation(o, legs, policy), p)
         IN  /\ point.bid \in Int /\ point.ask \in Int /\ point.bid <= point.ask
             /\ point.askSize \in Nat \cup {None}
<1> DEFINE normal == Observation(o, legs, policy)
           quotes == LegQuotes(o, legs, policy)
           point == PointOf(normal, p)
<1>1. /\ SourceQuote(normal, p) # None /\ SourceQuote(normal, p).usable
      /\ Priced(SourceQuote(normal, p))
      /\ point.bid = SourceQuote(normal, p).bid /\ point.ask = SourceQuote(normal, p).ask
      /\ point.askSize = SourceQuote(normal, p).askSize
  BY PointFact
<1> HIDE DEF point
<1>2. CASE p.quoteSource = "NATIVE_PACKAGE"
  <2> DEFINE q == o.native
             package == NativePackageQuote(q, o.at, policy, Cohorts(quotes))
             signed == "UNCLEAR_PRICE_SEMANTICS" \notin q.flaws
  <2>1. q # None /\ SourceQuote(normal, p) = package
    BY <1>1, <1>2, ObservationFact DEF SourceQuote
  <2>2. IsQuote(q)
    BY <2>1 DEF IsObservation
  <2>3. package.usable /\ Priced(package)
    BY <1>1, <2>1
  <2>4. /\ package.bid = IF signed THEN q.bid ELSE None
        /\ package.askSize = q.askSize
        /\ package.ask = IF signed THEN q.ask ELSE None
        /\ package.usable => Flag(Priced(q) /\ q.bid > q.ask, "CROSSED_NATIVE_PACKAGE_QUOTE") = {}
    BY DEF NativePackageQuote
  <2> HIDE DEF package, normal, signed
  <2>5. package.bid = q.bid /\ package.ask = q.ask /\ Priced(q)
    BY <2>3, <2>4 DEF Priced
  <2>6. ~(q.bid > q.ask)
    BY <2>3, <2>4, <2>5, Zenon DEF Flag
  <2>7. q.bid \in Int /\ q.ask \in Int
    BY <2>2, <2>5 DEF IsQuote, Priced
  <2>8. point.bid = q.bid /\ point.ask = q.ask /\ point.askSize = q.askSize
    BY <1>1, <2>1, <2>4, <2>5
  <2>9. q.askSize \in Nat \cup {None}
    BY <2>2 DEF IsQuote
  <2> HIDE DEF q
  <2> QED BY <2>6, <2>7, <2>8, <2>9 DEF point, normal
<1>3. CASE p.quoteSource # "NATIVE_PACKAGE"
  <2> DEFINE package == SyntheticPackageQuote(quotes, Cohorts(quotes), FrameReasons(quotes, policy))
  <2>1. SourceQuote(normal, p) = normal.synthetic /\ normal.synthetic = package
    BY <1>3, ObservationFact DEF SourceQuote
  <2>2. normal.synthetic.bid \in Int /\ normal.synthetic.ask \in Int
    BY <1>1, <2>1, PackagePriceFact
  <2>3. package.usable =>
          Flag(package.bid # None /\ package.ask # None /\ package.bid > package.ask,
               "CROSSED_SYNTHETIC_PACKAGE_QUOTE") = {}
    <3> HIDE DEF quotes
    <3> QED BY DEF SyntheticPackageQuote
  <2> HIDE DEF package, normal
  <2>4. ~(package.bid > package.ask)
    <3>1. package.usable /\ package.bid # None /\ package.ask # None
      BY <1>1, <2>1 DEF Priced
    <3> QED BY <2>3, <3>1, Zenon DEF Flag
  <2>5. /\ point.bid = package.bid /\ point.ask = package.ask
        /\ package.bid \in Int /\ package.ask \in Int
    BY <1>1, <2>1, <2>2
  <2>6. point.askSize \in Nat
    <3>1. normal.synthetic.usable /\ "ENTRY" \in {"ENTRY", "EXIT"}
      BY <1>1, <2>1
    <3>2. normal.synthetic.askSize \in Nat
      BY <3>1, PackageSizeFact DEF normal
    <3> QED BY <1>1, <2>1, <3>2
  <2> QED BY <2>4, <2>5, <2>6 DEF point, normal
<1> QED BY <1>2, <1>3

\* Profiles on the same quotes see the same points.
LEMMA SamePoint ==
  ASSUME NEW p, p.model \in QuoteModels, NEW q, q.model \in QuoteModels,
         p.quoteSource = q.quoteSource, NEW o
  PROVE  PointOf(o, p) = PointOf(o, q)
<1>1. p.model # "REFERENCE_COST" /\ q.model # "REFERENCE_COST"
  BY DEF QuoteModels
<1>2. SourceQuote(o, p) = SourceQuote(o, q)
  BY DEF SourceQuote
<1> QED BY <1>1, <1>2 DEF PointOf

\* A profile that waits no longer and asks for no more size, and pays the
\* midpoint, fills wherever another one does, for no more.
LEMMA BetterFill ==
  ASSUME NEW r, TypedRequest(r),
         NEW v, v.evidence = Evidence(r), NEW w, w.evidence = Evidence(r),
         v.start = w.start, v.start \in Int, v.limit = w.limit, v.limit \in Int,
         NEW p, QuoteProfile(p), PaysMidpoint(p), NEW q, QuoteProfile(q),
         p.quoteSource = q.quoteSource, p.tick = q.tick,
         p.latency <= q.latency, p.minSize <= q.minSize,
         TickAligned(w.limit, q.tick), NEW quantity \in Int,
         NEW t \in FillsAt("ENTRY", w, q, quantity, w.start)
  PROVE  LET point == PointOf(Evidence(r).observations[t], p)
         IN  /\ t \in FillsAt("ENTRY", v, p, quantity, v.start)
             /\ point = PointOf(Evidence(r).observations[t], q)
             /\ ModeledPrice(point, p, "ENTRY", v.limit) <= ModeledPrice(point, q, "ENTRY", w.limit)
<1> DEFINE seen == Evidence(r).observations[t]
           point == PointOf(seen, p)
           o == ObservedAt(r, t)
<1>1. /\ p.model \in QuoteModels /\ q.model \in QuoteModels
      /\ p.latency \in Int /\ q.latency \in Int /\ p.minSize \in Int /\ q.minSize \in Int
  BY DEF QuoteProfile
<1>2. point = PointOf(seen, q)
  BY <1>1, SamePoint
<1>3. /\ t \in DOMAIN Evidence(r).observations /\ PointOf(seen, q) # None
      /\ t >= EligibleAfter(w, q, w.start)
      /\ BigEnough(PointOf(seen, q), q, "ENTRY", quantity)
      /\ ReachesLimit(Trigger(PointOf(seen, q), q, "ENTRY", w.limit), w.limit, "ENTRY")
  BY DEF FillsAt, BigAt, Eligible, SelectedPoints
<1>4. /\ IsObservation(o, r.legs) /\ seen = Observation(o, r.legs, r.policy) /\ t \in Int
  BY <1>3, EvidenceFact
<1>5. /\ point.bid \in Int /\ point.ask \in Int /\ point.bid <= point.ask
      /\ point.askSize \in Nat \cup {None}
  <2>1. IsPackage(r.legs) /\ PointOf(seen, p) # None
    BY <1>2, <1>3 DEF TypedRequest
  <2> HIDE DEF o, seen
  <2> QED BY <1>1, <1>4, <2>1, PointPrices
<1> HIDE DEF seen, o
<1>6. t >= EligibleAfter(v, p, v.start)
  BY <1>1, <1>3, <1>4 DEF EligibleAfter, Larger
<1>7. BigEnough(point, p, "ENTRY", quantity)
  <2>1. p.model # "REFERENCE_COST" /\ q.model # "REFERENCE_COST"
    BY <1>1 DEF QuoteModels
  <2> DEFINE size == point.askSize
  <2>2. size # None /\ size >= Larger(quantity, q.minSize)
    BY <1>2, <1>3, <2>1 DEF BigEnough
  <2>3. size \in Nat
    BY <1>5, <2>2
  <2> HIDE DEF size, point
  <2>4. size >= Larger(quantity, p.minSize)
    BY <1>1, <2>2, <2>3 DEF Larger
  <2> QED BY <2>2, <2>4 DEF BigEnough, size
<1> HIDE DEF point
<1>8. /\ ReachesLimit(Trigger(point, p, "ENTRY", v.limit), v.limit, "ENTRY")
      /\ ModeledPrice(point, p, "ENTRY", v.limit) <= ModeledPrice(point, q, "ENTRY", v.limit)
  BY <1>2, <1>3, <1>5, MidpointIsBest
<1>9. t \in FillsAt("ENTRY", v, p, quantity, v.start)
  BY <1>2, <1>3, <1>6, <1>7, <1>8 DEF FillsAt, BigAt, Eligible, SelectedPoints, point, seen
<1> QED BY <1>2, <1>8, <1>9 DEF point, seen

-----------------------------------------------------------------------------
(* The inductive invariant of a study.                                      *)

ById(set, id) == The(set, LAMBDA x : x.id = id)

LEMMA ByIdFact ==
  ASSUME NEW set, NEW id, id \in {x.id : x \in set}
  PROVE  ById(set, id) \in set /\ ById(set, id).id = id
  BY DEF ById, The

Recording == {"RECORDS", "REPORTED", "REFUSED"}

AvailableOf(frozen) == {c \in frozen.candidates : c.status = "AVAILABLE"}
Available(frozen) == {c.id : c \in AvailableOf(frozen)}

\* What a record of a simulation rests on, with what was frozen and handed in.
Sound(r, frozen, handed) ==
  r.simulation # None =>
    LET in == r.simulation.input
        c  == ById(AvailableOf(frozen), r.candidate)
        s  == ById(frozen.scenarios, r.scenario)
    IN  /\ c \in frozen.candidates /\ c.id = r.candidate /\ s \in frozen.scenarios
        /\ r.candidate \in Available(frozen) /\ r.horizon \in DOMAIN HorizonDays
        /\ ValidSimulation(in) /\ r.simulation = Simulate(in)
        /\ in.profile = s.profile /\ in.quantity = Frame.shared.quantity
        /\ {in.entry.start, in.exit.start, in.exit.end} \subseteq Int
        /\ in.entry.start = Window(c, "ENTRY").start /\ in.entry.limit = Window(c, "ENTRY").limit
        /\ s.role # "REFERENCE" =>
             /\ in.entry.evidence = Normalized(handed[<<r.candidate, "ENTRY">>])
             /\ in.exit.evidence = Normalized(handed[<<r.candidate, r.horizon>>])

\* A request that was handed in was for its place, and valid.
HandedIn(request, p, frozen) ==
  LET c == ById(AvailableOf(frozen), p[1])
  IN  /\ \E observed \in Observations(frozen, c, p[2]) : request = EvidenceRequest(c, p[2], observed)
      /\ ValidEvidenceRequest(request)

PlacesOf(frozen) == Available(frozen) \X DOMAIN HorizonDays

\* A horizon is the result of what was answered for its place.
FromAnswer(h, p, given, frozen) ==
  LET c  == ById(AvailableOf(frozen), p[1])
      at == Checkpoint(Sessions, c, p[2])
  IN  /\ given \in Answers(frozen, c, p[2])
      /\ h = HorizonResult(c, p[2], at, PackageAtCheckpoint(c.legs, given, at, PackageProfile),
                           frozen.fallback)

\* The request for the horizons of a study is valid.
ValidFor(frozen) ==
  /\ ValidTradingCalendar(Sessions)
  /\ ValidHorizonCandidates(AvailableOf(frozen), Sessions, DOMAIN HorizonDays)
  /\ ValidFallback(frozen.fallback,
                   {Checkpoint(Sessions, ById(AvailableOf(frozen), p[1]), p[2]) :
                      p \in PlacesOf(frozen)},
                   AvailableOf(frozen))

\* What was reconstructed is the result for a plan and an answer to it.
FromPlan(frozen, done) ==
  \/ \E plan \in CandidatePlans(frozen) : \E given \in ChainAnswers(plan) :
       done = [kind |-> "CANDIDATES", plan |-> plan, given |-> given,
               result |-> Reconstruct(plan, given)]
  \/ \E plan \in UniversePlans(frozen) : \E given \in ChainAnswers(plan) :
       done = [kind |-> "UNIVERSE", plan |-> plan, given |-> given,
               result |-> IF ValidUniverse(plan) THEN Universe(plan, given)
                          ELSE Thrown("INVALID_REQUEST")]

\* The requests of the places so far are those that were handed in.
RequestsKept ==
  /\ \A p \in PlacesOf(study) \cap DOMAIN requests :
       requests[p] = None \/ HandedIn(requests[p], p, study)
  /\ phase \in Recording => DOMAIN requests = PlacesOf(study)

\* The records are written when every request is in, and rest on them.
RecordsKept ==
  /\ \A r \in records : Sound(r, study, requests)
  /\ phase \notin Recording => records = {}

\* The horizons are those of a valid request, one for every place that was
\* answered, and as long as they are asked for a place is left.
HorizonsKept ==
  /\ \A h \in horizons : \E p \in PlacesOf(study) \cap DOMAIN answers :
       FromAnswer(h, p, answers[p], study)
  /\ horizons # {} => ValidFor(study)
  /\ phase = "FROZEN" => DOMAIN answers = {}
  /\ phase = "HORIZONS" => /\ ValidFor(study) /\ DOMAIN answers \subseteq PlacesOf(study)
                          /\ PlacesOf(study) \ DOMAIN answers # {}

\* Every horizon, request, record and chain rests on what was handed in for it.
StudyInv ==
  /\ study \in Studies
  /\ HorizonsKept /\ RequestsKept /\ RecordsKept
  /\ chain = None \/ FromPlan(study, chain)

LEMMA CandidateIsById ==
  \A id : CandidateOf(id) = ById(AvailableOf(study), id)
  BY DEF CandidateOf, Frozen, AvailableOf, ById, The

LEMMA PlacesAreThoseOf == Places = PlacesOf(study)
  BY DEF Places, PlacesOf, Frozen, Available, AvailableOf

\* The next place is one of those that are left.
LEMMA NextPlaceFact ==
  ASSUME study \in Studies, NEW done, Places \ done # {}
  PROVE  NextPlace(done) \in Places \ done
<1> DEFINE left == Places \ done
           keys == [p \in left |-> <<p[1], HorizonDays[p[2]], 0, 0>>]
<1>1. IsFiniteSet(left)
  <2>1. IsFiniteSet(Frozen)
    BY PackageAssumption, FS_Subset DEF Frozen
  <2>2. IsFiniteSet({c.id : c \in Frozen})
    <3> DEFINE name == [c \in Frozen |-> c.id]
    <3>1. name \in Surjection(Frozen, {c.id : c \in Frozen})
      BY DEF Surjection
    <3> QED BY <2>1, <3>1, FS_Surjection
  <2>3. IsFiniteSet(DOMAIN HorizonDays)
    <3>1. DOMAIN HorizonDays = {"ENTRY", "OUTCOME_3_TRADING_DAYS", "OUTCOME_5_TRADING_DAYS"}
      BY DEF HorizonDays
    <3>2. \A a, b, c, S : S = {a, b, c} => IsFiniteSet(S)
      <4> TAKE a, b, c, S
      <4>1. IsFiniteSet({a})
        BY FS_Singleton
      <4>2. IsFiniteSet({a} \cup {b}) /\ {a} \cup {b} = {a, b}
        BY <4>1, FS_AddElement
      <4>3. IsFiniteSet({a, b} \cup {c}) /\ {a, b} \cup {c} = {a, b, c}
        BY <4>2, FS_AddElement
      <4> QED BY <4>1, <4>2, <4>3
    <3> QED BY <3>1, <3>2
  <2>4. IsFiniteSet(Places)
    BY <2>2, <2>3, FS_Product DEF Places
  <2> QED BY <2>4, FS_Subset
<1>2. \A p \in left : p = <<p[1], p[2]>> /\ p[1] \in Int /\ p[2] \in DOMAIN HorizonDays
  BY PackageAssumption DEF Places, Frozen
<1>3. /\ \A h \in DOMAIN HorizonDays : HorizonDays[h] \in Int
      /\ \A h, k \in DOMAIN HorizonDays : HorizonDays[h] = HorizonDays[k] => h = k
  BY DEF HorizonDays
<1>4. \A p \in left : keys[p] = <<p[1], HorizonDays[p[2]], 0, 0>>
  OBVIOUS
<1>5. DOMAIN keys = left
  OBVIOUS
<1> HIDE DEF left, keys
<1>6. \A p \in left : \A i \in 1..4 : keys[p][i] \in Int
  BY <1>2, <1>3, <1>4
<1>7. PICK p \in left : \A q \in left : First(keys[p], keys[q])
  BY <1>1, <1>5, <1>6, FirstOfFour DEF left
<1>8. ASSUME NEW q \in left, q # p PROVE Earlier(p, q)
  <2>1. ~(q[1] < p[1]) /\ (q[1] = p[1] => ~(HorizonDays[q[2]] < HorizonDays[p[2]]))
    BY <1>4, <1>7 DEF First
  <2>2. HorizonDays[q[2]] = HorizonDays[p[2]] => q[2] = p[2]
    BY <1>2, <1>3
  <2>3. q[1] # p[1] \/ q[2] # p[2]
    BY <1>2, <1>8
  <2>4. HorizonDays[q[2]] \in Int /\ HorizonDays[p[2]] \in Int /\ q[1] \in Int /\ p[1] \in Int
    BY <1>2, <1>3
  <2> QED BY <2>1, <2>2, <2>3, <2>4 DEF Earlier
<1>9. \A q \in Places \ (done \cup {p}) : Earlier(p, q)
  BY <1>8 DEF left
<1> QED BY <1>7, <1>9 DEF NextPlace, left

LEMMA ValidIsForStudy == ValidHorizonsRequest <=> ValidFor(study)
<1>1. \A p : At(p) = Checkpoint(Sessions, ById(AvailableOf(study), p[1]), p[2])
  BY CandidateIsById DEF At
<1>2. Dates = {Checkpoint(Sessions, ById(AvailableOf(study), p[1]), p[2]) : p \in PlacesOf(study)}
  BY <1>1, PlacesAreThoseOf DEF Dates
<1>3. Frozen = AvailableOf(study)
  BY DEF Frozen, AvailableOf
<1> QED BY <1>2, <1>3 DEF ValidHorizonsRequest, ValidFor

LEMMA StudyBegins == StudyInit => StudyInv
<1> SUFFICES ASSUME StudyInit PROVE StudyInv
  OBVIOUS
<1>1. /\ phase = "FROZEN" /\ requests = <<>> /\ records = {} /\ chain = None /\ study \in Studies
      /\ answers = <<>> /\ horizons = {}
  BY DEF StudyInit
<1>2. DOMAIN requests = {} /\ DOMAIN answers = {}
  BY <1>1
<1>3. HorizonsKept
  BY <1>1, <1>2 DEF HorizonsKept
<1> QED BY <1>1, <1>2, <1>3 DEF StudyInv, RequestsKept, RecordsKept, Recording

\* A step that does not ask for a horizon keeps them.
LEMMA HorizonsUntouched ==
  ASSUME StudyInv, study' = study, answers' = answers, horizons' = horizons,
         phase' = phase \/ phase' \notin {"FROZEN", "HORIZONS"}
  PROVE  HorizonsKept'
<1>1. HorizonsKept
  BY DEF StudyInv
<1> QED BY <1>1 DEF HorizonsKept

\* A step that leaves the study, the requests and the records alone keeps the
\* invariant, as long as it keeps the horizons and neither begins nor ends the
\* recording.
LEMMA Untouched ==
  ASSUME StudyInv, study' = study, requests' = requests, records' = records, HorizonsKept',
         phase' \in Recording <=> phase \in Recording,
         chain' = chain \/ FromPlan(study, chain')
  PROVE  StudyInv'
<1>1. study' \in Studies
  BY DEF StudyInv
<1>2. RequestsKept'
  BY DEF StudyInv, RequestsKept
<1>3. RecordsKept'
  BY DEF StudyInv, RecordsKept
<1>4. (chain = None \/ FromPlan(study, chain))'
  BY DEF StudyInv
<1> QED BY <1>1, <1>2, <1>3, <1>4 DEF StudyInv

\* The first call begins with a place to ask for.
LEMMA RequestHorizonsKeeps ==
  ASSUME StudyInv, RequestHorizons
  PROVE  HorizonsKept'
<1>1. /\ phase = "FROZEN" /\ study' = study /\ answers' = answers /\ horizons' = horizons
      /\ phase' = IF ValidHorizonsRequest THEN "HORIZONS" ELSE "FAILED"
  BY DEF RequestHorizons
<1>2. HorizonsKept /\ DOMAIN answers = {}
  BY <1>1 DEF StudyInv, HorizonsKept
<1>3. CASE ValidHorizonsRequest
  <2>1. ValidFor(study) /\ AvailableOf(study) # {}
    BY <1>3, ValidIsForStudy DEF ValidFor, ValidHorizonCandidates
  <2>2. "ENTRY" \in DOMAIN HorizonDays
    BY DEF HorizonDays
  <2>3. PICK c \in AvailableOf(study) : TRUE
    BY <2>1
  <2>4. <<c.id, "ENTRY">> \in PlacesOf(study)
    BY <2>2 DEF PlacesOf, Available
  <2> QED BY <1>1, <1>2, <1>3, <2>1, <2>4 DEF HorizonsKept
<1>4. CASE ~ValidHorizonsRequest
  BY <1>1, <1>4, HorizonsUntouched
<1> QED BY <1>3, <1>4

\* Every next answer is for a place that had none.
LEMMA PackageCheckpointKeeps ==
  ASSUME StudyInv, PackageCheckpoint
  PROVE  HorizonsKept'
<1> DEFINE p == NextPlace(DOMAIN answers)
           c == CandidateOf(p[1])
<1>1. PICK given \in Answers(study, c, p[2]) :
        LET package == PackageAtCheckpoint(c.legs, given, At(p), PackageProfile)
        IN  IF Rethrown(package, study.mode)
            THEN phase' = "FAILED" /\ UNCHANGED <<answers, horizons, result>>
            ELSE Keep(p, given, package)
  BY DEF PackageCheckpoint
<1> DEFINE package == PackageAtCheckpoint(c.legs, given, At(p), PackageProfile)
           h == HorizonResult(c, p[2], At(p), package, study.fallback)
           g == [q \in {p} |-> given]
<1>2. phase = "HORIZONS" /\ study' = study
  BY DEF PackageCheckpoint
<1>3. /\ study \in Studies /\ HorizonsKept /\ ValidFor(study)
      /\ DOMAIN answers \subseteq Places /\ Places \ DOMAIN answers # {}
  BY <1>2, PlacesAreThoseOf DEF StudyInv, HorizonsKept
<1>4. p \in Places /\ p \notin DOMAIN answers
  BY <1>3, NextPlaceFact
<1>5. CASE Rethrown(package, study.mode)
  <2>1. phase' = "FAILED" /\ answers' = answers /\ horizons' = horizons
    BY <1>1, <1>5
  <2> QED BY <1>2, <2>1, HorizonsUntouched
<1>6. CASE ~Rethrown(package, study.mode)
  <2>1. Keep(p, given, package)
    BY <1>1, <1>6
  <2>2. /\ answers' = Joined(answers, g) /\ horizons' = horizons \cup {h}
        /\ IF DOMAIN answers \cup {p} = Places THEN phase' = "EVIDENCE" ELSE phase' = phase
    <3> HIDE DEF p, package
    <3> QED BY <2>1 DEF Keep
  <2>3. DOMAIN g = {p} /\ g[p] = given
    OBVIOUS
  <2>4. FromAnswer(h, p, given, study)
    <3>1. c = ById(AvailableOf(study), p[1]) /\ At(p) = Checkpoint(Sessions, c, p[2])
      BY CandidateIsById DEF At
    <3> HIDE DEF p, c
    <3> QED BY <1>1, <3>1 DEF FromAnswer
  <2> HIDE DEF p, c, package, h, g
  <2>5. DOMAIN answers' = DOMAIN answers \cup {p}
    BY <2>2, <2>3, JoinedDomain
  <2>6. answers'[p] = given /\ \A q \in DOMAIN answers : answers'[q] = answers[q]
    BY <1>4, <2>2, <2>3, JoinedFact
  <2>7. \A k \in horizons' : \E q \in PlacesOf(study) \cap DOMAIN answers' :
          FromAnswer(k, q, answers'[q], study)
    <3> TAKE k \in horizons'
    <3>1. CASE k = h
      BY <1>4, <2>4, <2>5, <2>6, <3>1, PlacesAreThoseOf
    <3>2. CASE k \in horizons
      <4>1. PICK q \in PlacesOf(study) \cap DOMAIN answers : FromAnswer(k, q, answers[q], study)
        BY <1>3, <3>2 DEF HorizonsKept
      <4> QED BY <2>5, <2>6, <4>1
    <3> QED BY <2>2, <3>1, <3>2
  <2>8. phase' = "HORIZONS" => /\ DOMAIN answers' \subseteq PlacesOf(study)
                               /\ PlacesOf(study) \ DOMAIN answers' # {}
    BY <1>2, <1>3, <1>4, <2>2, <2>5, PlacesAreThoseOf
  <2>9. phase' # "FROZEN"
    BY <1>2, <2>2
  <2> QED BY <1>2, <1>3, <2>7, <2>8, <2>9 DEF HorizonsKept
<1> QED BY <1>5, <1>6

LEMMA NormalizeEvidenceKeeps ==
  ASSUME StudyInv, NormalizeEvidence
  PROVE  StudyInv'
<1> DEFINE p == NextPlace(DOMAIN requests)
           c == CandidateOf(p[1])
<1>1. PICK observed \in Observations(study, c, p[2]) :
        LET request == EvidenceRequest(c, p[2], observed)
        IN  /\ requests' = Joined(requests,
                 [q \in {p} |-> IF ValidEvidenceRequest(request) THEN request ELSE None])
            /\ phase' = IF DOMAIN requests \cup {p} = Places THEN "RECORDS" ELSE phase
  BY DEF NormalizeEvidence
<1> DEFINE request == EvidenceRequest(c, p[2], observed)
           kept == IF ValidEvidenceRequest(request) THEN request ELSE None
           g == [q \in {p} |-> kept]
<1>2. /\ phase = "EVIDENCE" /\ study' = study /\ records' = records /\ chain' = chain
      /\ phase' \in {"RECORDS", "EVIDENCE"}
  BY <1>1 DEF NormalizeEvidence
<1>3. requests' = Joined(requests, g) /\ DOMAIN g = {p} /\ g[p] = kept
  BY <1>1
<1>4. records = {}
  BY <1>2 DEF StudyInv, RecordsKept, Recording
<1>5. c = ById(AvailableOf(study), p[1])
  BY CandidateIsById
<1>6. kept = None \/ HandedIn(kept, p, study)
  BY <1>5 DEF HandedIn
<1>7. DOMAIN requests' = (DOMAIN requests) \cup {p}
  <2> HIDE DEF g, p
  <2> QED BY <1>3, JoinedDomain
<1>8. \A q \in PlacesOf(study) \cap DOMAIN requests' :
        requests'[q] = None \/ HandedIn(requests'[q], q, study)
  <2> HIDE DEF kept, g, p
  <2> TAKE q \in PlacesOf(study) \cap DOMAIN requests'
  <2>1. CASE q \in DOMAIN requests
    <3>1. requests'[q] = requests[q]
      BY <2>1, <1>3, JoinedFact
    <3>2. requests[q] = None \/ HandedIn(requests[q], q, study)
      BY <2>1 DEF StudyInv, RequestsKept
    <3> QED BY <3>1, <3>2
  <2>2. CASE q \notin DOMAIN requests
    <3>1. q = p
      BY <2>2, <1>7
    <3>2. requests'[q] = kept
      BY <2>2, <3>1, <1>3, JoinedFact
    <3> QED BY <3>1, <3>2, <1>6
  <2> QED BY <2>1, <2>2
<1>9. phase' \in Recording => DOMAIN requests' = PlacesOf(study)
  <2> HIDE DEF p
  <2> QED BY <1>1, <1>2, <1>7, PlacesAreThoseOf DEF Recording
<1>10. RequestsKept'
  BY <1>2, <1>8, <1>9 DEF RequestsKept
<1>11. RecordsKept'
  BY <1>2, <1>4 DEF RecordsKept
<1>12. HorizonsKept'
  <2>1. answers' = answers /\ horizons' = horizons
    BY DEF NormalizeEvidence
  <2> QED BY <1>2, <2>1, HorizonsUntouched
<1> QED BY <1>2, <1>10, <1>11, <1>12 DEF StudyInv

RoleOf(policies, role) == The(policies, LAMBDA p : p.role = role)

\* What is accepted is decided by the frozen policies alone.
LEMMA AcceptedByPolicies ==
  ASSUME NEW in, NEW policies, in.policies = policies
  PROVE  AcceptedUnion(in) = AcceptedUnion([policies |-> policies])
<1>1. \A x : /\ Baseline(x) = RoleOf(x.policies, "BASELINE")
             /\ Research(x) = RoleOf(x.policies, "RESEARCH")
  BY DEF Baseline, Research, RoleOf, The
<1>2. [policies |-> policies].policies = policies
  OBVIOUS
<1> QED BY <1>1, <1>2 DEF AcceptedUnion

LEMMA ReplayInputFact ==
  /\ ReplayInput.policies = study.policies /\ ReplayInput.scenarios = study.scenarios
  /\ ReplayInput.horizons = Frame.report.horizons
<1> DEFINE g == [candidates |-> study.candidates, policies |-> study.policies,
                 scenarios |-> study.scenarios, records |-> records]
<1>1. ReplayInput = Joined(Frame.report, g)
  BY DEF ReplayInput
<1>2. /\ DOMAIN g = {"candidates", "policies", "scenarios", "records"}
      /\ g["policies"] = study.policies /\ g["scenarios"] = study.scenarios
  OBVIOUS
<1>3. /\ "policies" \notin DOMAIN Frame.report /\ "scenarios" \notin DOMAIN Frame.report
      /\ "horizons" \in DOMAIN Frame.report
  BY FrameAssumption
<1> HIDE DEF g
<1>4. /\ Joined(Frame.report, g)["policies"] = study.policies
      /\ Joined(Frame.report, g)["scenarios"] = study.scenarios
      /\ Joined(Frame.report, g)["horizons"] = Frame.report["horizons"]
  BY <1>2, <1>3, JoinedFact
<1> QED BY <1>1, <1>4

\* The fields of what is handed to the simulation.
LEMMA SimulationInputFact ==
  ASSUME NEW c, NEW s, NEW h, NEW entry, NEW exit
  PROVE  LET in == SimulationInput(c, s, h, entry, exit)
         IN  /\ in.profile = s.profile /\ in.quantity = Frame.shared.quantity
             /\ in.entry = entry /\ in.exit = exit
<1> DEFINE g == [candidate |-> c.id, fingerprint |-> c.fingerprint, days |-> h.days,
                 profile |-> s.profile, cohort |-> s.source, fees |-> s.fees,
                 entry |-> entry, exit |-> exit, exitAt |-> ExitOf(c, h.id),
                 manifests |-> UNION {e.manifests : e \in {entry.evidence, exit.evidence} \ {None}}]
<1>1. SimulationInput(c, s, h, entry, exit) = Joined(Frame.shared, g)
  BY DEF SimulationInput
<1>2. {"profile", "entry", "exit"} \subseteq DOMAIN g
  OBVIOUS
<1>3. g["profile"] = s.profile /\ g["entry"] = entry /\ g["exit"] = exit
  OBVIOUS
<1>4. /\ "profile" \notin DOMAIN Frame.shared /\ "entry" \notin DOMAIN Frame.shared
      /\ "exit" \notin DOMAIN Frame.shared /\ "quantity" \in DOMAIN Frame.shared
  BY FrameAssumption
<1> HIDE DEF g
<1>5. /\ Joined(Frame.shared, g)["profile"] = s.profile
      /\ Joined(Frame.shared, g)["entry"] = entry /\ Joined(Frame.shared, g)["exit"] = exit
      /\ Joined(Frame.shared, g)["quantity"] = Frame.shared["quantity"]
  BY <1>2, <1>3, <1>4, JoinedFact
<1> QED BY <1>1, <1>5

LEMMA RecordFact ==
  ASSUME NEW c, NEW s, NEW h
  PROVE  LET r  == RecordFor(c, s, h)
             in == SimulationInput(c, s, h, Placed(s, c, "ENTRY"), Placed(s, c, h.id))
         IN  /\ r.candidate = c.id /\ r.scenario = s.id /\ r.horizon = h.id
             /\ r.simulation # None =>
                  /\ ValidSimulation(in) /\ r.simulation = Simulate(in)
                  /\ r.simulation.input = in
<1> DEFINE in == SimulationInput(c, s, h, Placed(s, c, "ENTRY"), Placed(s, c, h.id))
<1>1. RecordFor(c, s, h) = RecordOf(c, s, h, in)
  BY DEF RecordFor
<1> HIDE DEF in
<1>2. Simulate(in).input = in
  BY DEF Simulate, Entry, SimulationOf
<1>3. LET r == RecordOf(c, s, h, in)
      IN  /\ r.candidate = c.id /\ r.scenario = s.id /\ r.horizon = h.id
          /\ r.simulation # None => ValidSimulation(in) /\ r.simulation = Simulate(in)
  BY DEF RecordOf
<1> QED BY <1>1, <1>2, <1>3 DEF in

\* The record of an accepted cell rests on what was handed in for its places.
LEMMA RecordIsSound ==
  ASSUME study \in Studies, NEW cell \in Cells(ReplayInput)
  PROVE  Sound(RecordFor(ById(AvailableOf(study), cell[1]), ById(study.scenarios, cell[2]),
                         ById(Frame.report.horizons, cell[3])), study, requests)
<1> DEFINE c == ById(AvailableOf(study), cell[1])
           s == ById(study.scenarios, cell[2])
           h == ById(Frame.report.horizons, cell[3])
           r == RecordFor(c, s, h)
           in == SimulationInput(c, s, h, Placed(s, c, "ENTRY"), Placed(s, c, h.id))
<1>1. /\ cell[1] \in AcceptedUnion([policies |-> study.policies])
      /\ cell[2] \in {x.id : x \in study.scenarios}
      /\ cell[3] \in {x.id : x \in Frame.report.horizons}
  BY ReplayInputFact, AcceptedByPolicies DEF Cells
<1>2. cell[1] \in Available(study)
  BY <1>1, StudyAssumption DEF Available, AvailableOf
<1>3. c \in study.candidates /\ c.id = cell[1]
  BY <1>2, ByIdFact DEF Available, AvailableOf
<1>4. s \in study.scenarios /\ s.id = cell[2]
  BY <1>1, ByIdFact
<1>5. h \in Frame.report.horizons /\ h.id = cell[3]
  BY <1>1, ByIdFact
<1>6. h.id \in DOMAIN HorizonDays
  <2> HIDE DEF h
  <2> QED BY <1>5, FrameAssumption
<1>7. SUFFICES ASSUME r.simulation # None PROVE Sound(r, study, requests)
  BY DEF Sound
<1>8. /\ r.candidate = c.id /\ r.scenario = s.id /\ r.horizon = h.id
      /\ ValidSimulation(in) /\ r.simulation = Simulate(in) /\ r.simulation.input = in
  <2> HIDE DEF c, s, h
  <2> QED BY <1>7, RecordFact
<1>9. /\ in.profile = s.profile /\ in.quantity = Frame.shared.quantity
      /\ in.entry = Placed(s, c, "ENTRY") /\ in.exit = Placed(s, c, h.id)
  <2> HIDE DEF c, s, h
  <2> QED BY SimulationInputFact
<1>10. ASSUME s.role # "REFERENCE"
       PROVE  \A k : Placed(s, c, k).evidence = Normalized(requests[<<c.id, k>>])
  <2> HIDE DEF c, s, h
  <2> QED BY <1>10 DEF Placed, EvidenceFor
<1>11. c = ById(AvailableOf(study), r.candidate) /\ s = ById(study.scenarios, r.scenario)
  BY <1>3, <1>4, <1>8
<1>12. /\ {in.entry.start, in.exit.start, in.exit.end} \subseteq Int
       /\ in.entry.start = Window(c, "ENTRY").start /\ in.entry.limit = Window(c, "ENTRY").limit
  <2> HIDE DEF c, s, h, in
  <2>1. \A k : /\ Placed(s, c, k).start = Window(c, k).start
               /\ Placed(s, c, k).end = Window(c, k).end
               /\ Placed(s, c, k).limit = Window(c, k).limit
    BY DEF Placed
  <2>2. \A k \in DOMAIN HorizonDays : IsWindow(Window(c, k))
    BY <1>3, EvidenceAssumption
  <2>3. "ENTRY" \in DOMAIN HorizonDays
    BY DEF HorizonDays
  <2> QED BY <1>6, <1>9, <2>1, <2>2, <2>3 DEF IsWindow
<1> HIDE DEF c, s, h, in, r
<1> QED BY <1>2, <1>3, <1>4, <1>6, <1>8, <1>9, <1>10, <1>11, <1>12 DEF Sound

LEMMA SimulateCellKeeps ==
  ASSUME StudyInv, SimulateCell
  PROVE  StudyInv'
<1> DEFINE cell == Following(Unrecorded)
           record == RecordFor(ById(AvailableOf(study), cell[1]), ById(study.scenarios, cell[2]),
                               ById(Frame.report.horizons, cell[3]))
<1>1. /\ phase = "RECORDS" /\ phase' = phase /\ study' = study /\ requests' = requests
      /\ chain' = chain /\ Unrecorded # {}
      /\ records' = records \cup
           {RecordFor(CandidateOf(cell[1]), The(study.scenarios, LAMBDA s : s.id = cell[2]),
                      The(Frame.report.horizons, LAMBDA h : h.id = cell[3]))}
  BY DEF SimulateCell
<1>2. records' = records \cup {record}
  <2> HIDE DEF cell
  <2>1. /\ The(study.scenarios, LAMBDA s : s.id = cell[2]) = ById(study.scenarios, cell[2])
        /\ The(Frame.report.horizons, LAMBDA h : h.id = cell[3])
             = ById(Frame.report.horizons, cell[3])
    BY DEF ById
  <2> QED BY <1>1, <2>1, CandidateIsById
<1>3. cell \in Cells(ReplayInput)
  <2>1. \E x \in Unrecorded : TRUE
    BY <1>1
  <2>2. cell \in Unrecorded
    BY <2>1 DEF Following
  <2> HIDE DEF cell
  <2> QED BY <2>2 DEF Unrecorded
<1>4. Sound(record, study, requests)
  <2> HIDE DEF cell
  <2> QED BY <1>3, RecordIsSound DEF StudyInv
<1>5. RequestsKept'
  BY <1>1 DEF StudyInv, RequestsKept
<1>6. RecordsKept'
  <2> HIDE DEF record
  <2>1. \A r \in records' : Sound(r, study, requests)
    BY <1>2, <1>4 DEF StudyInv, RecordsKept
  <2> QED BY <1>1, <2>1 DEF RecordsKept, Recording
<1>7. HorizonsKept'
  <2>1. answers' = answers /\ horizons' = horizons
    BY DEF SimulateCell
  <2> QED BY <1>1, <2>1, HorizonsUntouched
<1> QED BY <1>1, <1>5, <1>6, <1>7 DEF StudyInv

\* The steps that leave what the invariant is about alone, but for the chain.
LEMMA OtherStepsKeep ==
  ASSUME StudyInv,
         \/ RequestHorizons \/ PackageCheckpoint \/ BuildReport \/ VerifyPath
         \/ ReconstructCandidates \/ ReconstructUniverse \/ UNCHANGED studyVars
  PROVE  StudyInv'
<1>1. CASE RequestHorizons
  <2>1. phase \notin Recording /\ phase' \notin Recording
    BY <1>1 DEF RequestHorizons, Recording
  <2> QED BY <1>1, <2>1, RequestHorizonsKeeps, Untouched DEF RequestHorizons
<1>2. CASE PackageCheckpoint
  <2>1. phase' \in {"FAILED", "EVIDENCE", phase}
    BY <1>2, Zenon DEF PackageCheckpoint, Keep
  <2>2. phase \notin Recording /\ phase' \notin Recording
    BY <1>2, <2>1 DEF PackageCheckpoint, Recording
  <2>3. study' = study /\ requests' = requests /\ records' = records /\ chain' = chain
    BY <1>2 DEF PackageCheckpoint
  <2> QED BY <1>2, <2>2, <2>3, PackageCheckpointKeeps, Untouched
<1>3. CASE BuildReport
  <2>1. phase = "RECORDS" /\ phase' \in {"REPORTED", "REFUSED"}
    BY <1>3 DEF BuildReport
  <2>2. phase \in Recording /\ phase' \in Recording
    BY <2>1 DEF Recording
  <2>3. HorizonsKept'
    BY <1>3, HorizonsUntouched DEF BuildReport
  <2> QED BY <1>3, <2>2, <2>3, Untouched DEF BuildReport
<1>4. CASE VerifyPath
  <2>1. phase \notin Recording /\ phase' \notin Recording
    BY <1>4 DEF VerifyPath, Recording
  <2>3. HorizonsKept'
    BY <1>4, HorizonsUntouched DEF VerifyPath
  <2> QED BY <1>4, <2>1, <2>3, Untouched DEF VerifyPath
<1>5. CASE ReconstructCandidates
  <2>1. phase \notin Recording /\ phase' \notin Recording
    BY <1>5 DEF ReconstructCandidates, Recording
  <2>2. FromPlan(study, chain')
    BY <1>5 DEF ReconstructCandidates, FromPlan
  <2>3. HorizonsKept'
    BY <1>5, HorizonsUntouched DEF ReconstructCandidates
  <2> QED BY <1>5, <2>1, <2>2, <2>3, Untouched DEF ReconstructCandidates
<1>6. CASE ReconstructUniverse
  <2>1. phase \notin Recording /\ phase' \notin Recording
    BY <1>6 DEF ReconstructUniverse, Recording
  <2>2. FromPlan(study, chain')
    BY <1>6 DEF ReconstructUniverse, FromPlan
  <2>3. HorizonsKept'
    BY <1>6, HorizonsUntouched DEF ReconstructUniverse
  <2> QED BY <1>6, <2>1, <2>2, <2>3, Untouched DEF ReconstructUniverse
<1>7. CASE UNCHANGED studyVars
  <2>1. /\ phase' = phase /\ study' = study /\ requests' = requests
        /\ records' = records /\ chain' = chain /\ answers' = answers /\ horizons' = horizons
    BY <1>7 DEF studyVars
  <2> QED BY <2>1, HorizonsUntouched, Untouched
<1> QED BY <1>1, <1>2, <1>3, <1>4, <1>5, <1>6, <1>7

LEMMA StudyStep ==
  ASSUME StudyInv, [StudyNext]_studyVars
  PROVE  StudyInv'
<1>1. CASE NormalizeEvidence
  BY <1>1, NormalizeEvidenceKeeps
<1>2. CASE SimulateCell
  BY <1>2, SimulateCellKeeps
<1>3. CASE \/ RequestHorizons \/ PackageCheckpoint \/ BuildReport \/ VerifyPath
           \/ ReconstructCandidates \/ ReconstructUniverse \/ UNCHANGED studyVars
  BY <1>3, OtherStepsKeep
<1> QED BY <1>1, <1>2, <1>3 DEF StudyNext

\* Whatever the study records rests on evidence that was handed in, for its own
\* candidate and horizon, and that the request's checks let through
\* (normalizeEvidence, simulateCell, reconstructHistoricalCandidates).
THEOREM StudyInvHolds == StudySpec => []StudyInv
<1>1. StudyInit => StudyInv
  BY StudyBegins
<1>2. StudyInv /\ [StudyNext]_studyVars => StudyInv'
  BY StudyStep
<1> QED BY <1>1, <1>2, PTL DEF StudySpec

-----------------------------------------------------------------------------
(* The orders of a record and the requests they met.                        *)

LEMMA HandedInIsTyped ==
  ASSUME NEW frozen \in Studies, NEW p, p[2] \in DOMAIN HorizonDays,
         ById(AvailableOf(frozen), p[1]) \in frozen.candidates,
         NEW request, HandedIn(request, p, frozen)
  PROVE  LET c == ById(AvailableOf(frozen), p[1])
         IN  /\ TypedRequest(request) /\ request.legs = c.legs
             /\ request.expected = Window(c, p[2]).expected
<1> DEFINE c == ById(AvailableOf(frozen), p[1])
<1>1. PICK observed \in Observations(frozen, c, p[2]) : request = EvidenceRequest(c, p[2], observed)
  BY DEF HandedIn
<1>2. ValidEvidenceRequest(request)
  BY DEF HandedIn
<1>3. /\ request.legs = c.legs /\ request.expected = Window(c, p[2]).expected
      /\ request.observations = observed
  BY <1>1 DEF EvidenceRequest
<1> HIDE DEF c
<1>4. c \in frozen.candidates
  BY DEF c
<1>5. request.expected \in Seq(Int)
  BY <1>3, <1>4, EvidenceAssumption DEF IsWindow
<1>6. \A o \in ToSet(request.observations) : IsObservation(o, request.legs)
  <2>1. \A i \in DOMAIN observed : IsObservation(observed[i], c.legs)
    BY <1>1, <1>4, EvidenceAssumption DEF c
  <2> QED BY <1>3, <2>1 DEF ToSet
<1>7. {o.at : o \in ToSet(request.observations)} \subseteq ToSet(request.expected)
  <2> DEFINE times == [i \in DOMAIN request.observations |-> request.observations[i].at]
  <2>1. ToSet(times) \subseteq ToSet(request.expected)
    BY <1>2 DEF ValidEvidenceRequest
  <2>2. \A i \in DOMAIN request.observations : request.observations[i].at \in ToSet(times)
    BY DEF ToSet
  <2> HIDE DEF times
  <2> QED BY <2>1, <2>2 DEF ToSet
<1>8. IsPackage(request.legs)
  <2>1. /\ Len(request.legs) = LegCount(request.family)
        /\ \A i \in DOMAIN request.legs : request.legs[i].quantity # 0
    BY <1>2 DEF ValidEvidenceRequest, ValidInventory, ValidLegs
  <2>2. Len(request.legs) \in {2, 4}
    BY <2>1 DEF LegCount
  <2>3. IsSequence(c.legs) /\ \A i \in DOMAIN c.legs : c.legs[i].quantity \in Int
    BY <1>4, StudyAssumption
  <2>4. DOMAIN c.legs = 1..Len(c.legs)
    BY <2>3 DEF IsSequence
  <2> QED BY <1>3, <2>1, <2>2, <2>3, <2>4 DEF IsPackage
<1> QED BY <1>3, <1>5, <1>6, <1>7, <1>8 DEF TypedRequest, c

\* What was handed in for the places of a record.
LEMMA RequestAt ==
  ASSUME StudyInv, NEW p \in PlacesOf(study), p \in DOMAIN requests, requests[p] # None
  PROVE  /\ TypedRequest(requests[p])
         /\ requests[p].legs = CandidateOf(p[1]).legs
         /\ requests[p].expected = Window(CandidateOf(p[1]), p[2]).expected
<1>1. HandedIn(requests[p], p, study) /\ study \in Studies
  BY DEF StudyInv, RequestsKept
<1>2. p[2] \in DOMAIN HorizonDays /\ p[1] \in {x.id : x \in AvailableOf(study)}
  BY DEF PlacesOf, Available
<1>3. ById(AvailableOf(study), p[1]) \in study.candidates
  BY <1>2, ByIdFact DEF AvailableOf
<1> QED BY <1>1, <1>2, <1>3, HandedInIsTyped, CandidateIsById

\* A profile that was accepted, as far as it matters.
LEMMA RecordProfile ==
  ASSUME StudyInv, NEW r \in SimulatedRecords
  PROVE  LET in == r.simulation.input
             p  == ScenarioOf(r).profile
         IN  /\ in.profile = p /\ in.quantity \in Int /\ in.entry.evidence # None
             /\ p.latency \in Nat /\ p.minSize \in Int /\ p.tick \in Nat \ {0}
             /\ {in.entry.start, in.exit.start, in.exitAt} \subseteq Int
             /\ in.exit.start <= in.exitAt
             /\ r.simulation = Simulate(in)
<1> DEFINE in == r.simulation.input
           s  == ById(study.scenarios, r.scenario)
<1>1. Sound(r, study, requests) /\ r.simulation # None /\ study \in Studies
  BY DEF StudyInv, RecordsKept, SimulatedRecords
<1>2. /\ s \in study.scenarios /\ ValidSimulation(in) /\ r.simulation = Simulate(in)
      /\ in.profile = s.profile /\ in.quantity = Frame.shared.quantity
      /\ {in.entry.start, in.exit.start, in.exit.end} \subseteq Int
  BY <1>1 DEF Sound
<1>3. ScenarioOf(r) = s
  BY DEF ScenarioOf, ById
<1> HIDE DEF in, s
<1>4. /\ ValidProfile(in.profile) /\ in.entry.evidence # None
      /\ in.exitAt \in in.exit.start..in.exit.end
  BY <1>2 DEF ValidSimulation
<1>5. {s.profile.latency, s.profile.minSize, s.profile.tick} \subseteq Int
  BY <1>1, <1>2, StudyAssumption
<1>6. s.profile.latency >= 0 /\ s.profile.tick > 0
  BY <1>2, <1>4 DEF ValidProfile
<1>7. in.exitAt \in Int /\ in.exit.start <= in.exitAt
  BY <1>2, <1>4
<1> QED BY <1>2, <1>3, <1>4, <1>5, <1>6, <1>7, FrameAssumption DEF in

Assessed(status) == status \in {"SIMULATED_FILLED", "NO_FILL_UNDER_MODEL"}

\* An order that was assessed was evaluated on the request of its place.
LEMMA OrderFact ==
  ASSUME StudyInv, NEW r \in SimulatedRecords, OnQuotes(r), NEW order \in Orders(r),
         Assessed(order.phase.status)
  PROVE  LET request == requests[order.place]
             p == ScenarioOf(r).profile
         IN  /\ TypedRequest(request) /\ order.window.evidence = Evidence(request)
             /\ order.window.evidence # None
             /\ request.legs = r.simulation.input.entry.evidence.inventory
             /\ request.expected = Window(CandidateOf(r.candidate), order.place[2]).expected
             /\ order.side \in {"ENTRY", "EXIT"}
             /\ \E notBefore :
                  /\ order.phase = EvaluatePhase(order.side, order.window, p,
                                                 r.simulation.input.quantity, notBefore)
                  /\ \A t \in Int : t >= order.after + p.latency =>
                       t >= EligibleAfter(order.window, p, notBefore)
<1> DEFINE in == r.simulation.input
           p  == ScenarioOf(r).profile
           request == requests[order.place]
           entry == EvaluatePhase("ENTRY", in.entry, in.profile, in.quantity, in.entry.start)
           exit  == EvaluatePhase("EXIT", in.exit, in.profile, in.quantity, in.exitAt)
<1>1. /\ in.profile = p /\ in.entry.evidence # None /\ p.latency \in Nat
      /\ in.entry.start \in Int /\ in.exit.start \in Int /\ in.exitAt \in Int
      /\ in.exit.start <= in.exitAt /\ r.simulation = Simulate(in)
  BY RecordProfile
<1>2. Sound(r, study, requests) /\ r.simulation # None
  BY DEF StudyInv, RecordsKept, SimulatedRecords
<1>3. /\ r.candidate \in Available(study) /\ r.horizon \in DOMAIN HorizonDays
      /\ in.entry.evidence = Normalized(requests[<<r.candidate, "ENTRY">>])
      /\ in.exit.evidence = Normalized(requests[<<r.candidate, r.horizon>>])
  <2>1. ById(study.scenarios, r.scenario).role # "REFERENCE"
    BY DEF OnQuotes, ScenarioOf, ById
  <2> QED BY <1>2, <2>1 DEF Sound
<1>4. /\ <<r.candidate, "ENTRY">> \in PlacesOf(study) /\ <<r.candidate, r.horizon>> \in PlacesOf(study)
      /\ DOMAIN requests = PlacesOf(study)
  <2>1. "ENTRY" \in DOMAIN HorizonDays
    BY DEF HorizonDays
  <2>2. DOMAIN requests = PlacesOf(study)
    BY DEF StudyInv, RequestsKept, RecordsKept, SimulatedRecords
  <2> QED BY <1>3, <2>1, <2>2 DEF PlacesOf
<1>5. /\ r.simulation.entry = entry
      /\ r.simulation.exit = IF Filled(entry) THEN exit ELSE NotEvaluated
  <2> HIDE DEF in
  <2> QED BY <1>1 DEF Simulate, Entry, SimulationOf, Exit
<1>6. \/ /\ order.phase = entry /\ order.window = in.entry /\ order.side = "ENTRY"
         /\ order.place = <<r.candidate, "ENTRY">> /\ order.after = in.entry.start
      \/ /\ order.phase = exit /\ order.window = in.exit /\ order.side = "EXIT"
         /\ order.place = <<r.candidate, r.horizon>> /\ order.after = in.exitAt
  <2> HIDE DEF entry, exit
  <2>1. ~Assessed(NotEvaluated.status)
    BY DEF NotEvaluated, Unfilled, Assessed
  <2> QED BY <1>5, <2>1 DEF Orders
<1>7. order.window.evidence # None
  <2>1. EvaluatePhase("EXIT", in.exit, in.profile, in.quantity, in.exitAt) = exit
    OBVIOUS
  <2>2. Assessed(exit.status) => in.exit.evidence # None
    <3> HIDE DEF in
    <3> QED BY DEF EvaluatePhase, Unfilled, Assessed
  <2> HIDE DEF entry, exit, in
  <2> QED BY <1>1, <1>6, <2>2
<1>8. order.window.evidence = Normalized(request) /\ order.place \in PlacesOf(study)
      /\ order.place[1] = r.candidate
  <2> HIDE DEF in, entry, exit
  <2> QED BY <1>3, <1>4, <1>6
<1>9. request # None /\ order.window.evidence = Evidence(request)
  <2> HIDE DEF request
  <2> QED BY <1>7, <1>8 DEF Normalized
<1>10. /\ TypedRequest(request) /\ request.legs = CandidateOf(r.candidate).legs
       /\ request.expected = Window(CandidateOf(r.candidate), order.place[2]).expected
  BY <1>4, <1>8, <1>9, RequestAt
<1>11. in.entry.evidence.inventory = CandidateOf(r.candidate).legs
  <2> DEFINE place == <<r.candidate, "ENTRY">>
  <2>1. place \in PlacesOf(study) /\ place \in DOMAIN requests /\ place[1] = r.candidate
    BY <1>4
  <2>2. requests[place] # None /\ in.entry.evidence = Evidence(requests[place])
    BY <1>1, <1>3 DEF Normalized
  <2> HIDE DEF place, in
  <2>3. TypedRequest(requests[place]) /\ requests[place].legs = CandidateOf(r.candidate).legs
    BY <2>1, <2>2, RequestAt
  <2> QED BY <2>2, <2>3, EvidenceFact
<1>12. \E notBefore :
         /\ order.phase = EvaluatePhase(order.side, order.window, p, in.quantity, notBefore)
         /\ \A t \in Int : t >= order.after + p.latency =>
              t >= EligibleAfter(order.window, p, notBefore)
  <2> HIDE DEF in, p
  <2>1. CASE order.side = "ENTRY"
    <3>1. /\ order.phase = EvaluatePhase("ENTRY", in.entry, p, in.quantity, in.entry.start)
          /\ order.window = in.entry /\ order.after = in.entry.start
      BY <1>1, <1>6, <2>1
    <3>2. \A t \in Int : t >= in.entry.start + p.latency =>
              t >= EligibleAfter(in.entry, p, in.entry.start)
      BY <1>1 DEF EligibleAfter, Larger
    <3> QED BY <2>1, <3>1, <3>2
  <2>2. CASE order.side = "EXIT"
    <3>1. /\ order.phase = EvaluatePhase("EXIT", in.exit, p, in.quantity, in.exitAt)
          /\ order.window = in.exit /\ order.after = in.exitAt
      BY <1>1, <1>6, <2>2
    <3>2. \A t \in Int : t >= in.exitAt + p.latency =>
              t >= EligibleAfter(in.exit, p, in.exitAt)
      BY <1>1 DEF EligibleAfter, Larger
    <3> QED BY <2>2, <3>1, <3>2
  <2> QED BY <1>6, <2>1, <2>2
<1>13. order.side \in {"ENTRY", "EXIT"}
  BY <1>6
<1> HIDE DEF in, entry, exit, p, request
<1> QED BY <1>7, <1>9, <1>10, <1>11, <1>12, <1>13 DEF in, p, request

-----------------------------------------------------------------------------
(* The properties of the orders.                                            *)

\* What the source showed at an instant is what the evidence took for it.
LEMMA ShownIsObserved ==
  \A place, t : ShownAt(place, t) = ObservedAt(requests[place], t)
  BY DEF ShownAt, ObservedAt

LEMMA LegProfileOf ==
  ASSUME StudyInv, NEW r \in SimulatedRecords, OnLegs(r)
  PROVE  LegProfile(ScenarioOf(r).profile)
  BY RecordProfile DEF OnLegs, OnQuotes, LegProfile

LEMMA StudyImpliesExecutable ==
  ASSUME StudyInv
  PROVE  FillsExecutable
<1> SUFFICES ASSUME NEW r \in SimulatedRecords, OnLegs(r), NEW order \in Orders(r),
                    Filled(order.phase)
             PROVE  LET o    == ShownAt(order.place, order.phase.at)
                        legs == r.simulation.input.entry.evidence.inventory
                        price == ShownPrice(o, legs, order.side)
                    IN  /\ ShownSize(o, legs, order.side, r.simulation.input.quantity)
                        /\ Cardinality({o.legs[i].cohort : i \in DOMAIN legs}) = 1
                        /\ Crossing(r) =>
                             IF order.side = "ENTRY" THEN order.phase.price >= price
                             ELSE order.phase.price <= price
  BY DEF FillsExecutable
<1> DEFINE request == requests[order.place]
           p == ScenarioOf(r).profile
           legs == r.simulation.input.entry.evidence.inventory
           quantity == r.simulation.input.quantity
           window == order.window
           side == order.side
           at == order.phase.at
           point == PointOf(Evidence(request).observations[at], p)
<1>1. OnQuotes(r) /\ Assessed(order.phase.status)
  BY DEF OnLegs, Filled, Assessed
<1>2. /\ TypedRequest(request) /\ window.evidence = Evidence(request) /\ window.evidence # None
      /\ request.legs = legs /\ side \in {"ENTRY", "EXIT"}
  BY <1>1, OrderFact
<1>3. PICK notBefore : order.phase = EvaluatePhase(side, window, p, quantity, notBefore)
  BY <1>1, OrderFact
<1>4. LegProfile(p) /\ quantity \in Int
  BY LegProfileOf, RecordProfile
<1>5. /\ at \in FillsAt(side, window, p, quantity, notBefore)
      /\ order.phase.price = ModeledPrice(point, p, side, window.limit)
  <2> HIDE DEF request, p, quantity, window, side
  <2> QED BY <1>2, <1>3, FilledPhase
<1>6. LET o == ObservedAt(request, at)
          price == ShownPrice(o, request.legs, side)
      IN  /\ ShownSize(o, request.legs, side, quantity)
          /\ Cardinality({o.legs[i].cohort : i \in DOMAIN request.legs}) = 1
          /\ p.model = "QUOTE_CROSS" =>
               IF side = "ENTRY" THEN ModeledPrice(point, p, side, window.limit) >= price
               ELSE ModeledPrice(point, p, side, window.limit) <= price
  <2> HIDE DEF request, p, quantity, window, side, at
  <2> QED BY <1>2, <1>4, <1>5, FillFact
<1>7. Crossing(r) <=> p.model = "QUOTE_CROSS"
  BY DEF Crossing
<1>8. ShownAt(order.place, at) = ObservedAt(request, at)
  BY ShownIsObserved
<1> HIDE DEF p, quantity, window, side, at, point, legs
<1>9. LET o    == ShownAt(order.place, at)
          price == ShownPrice(o, legs, side)
      IN  /\ ShownSize(o, legs, side, quantity)
          /\ Cardinality({o.legs[i].cohort : i \in DOMAIN legs}) = 1
          /\ Crossing(r) =>
               IF side = "ENTRY" THEN order.phase.price >= price
               ELSE order.phase.price <= price
  BY <1>2, <1>5, <1>6, <1>7, <1>8
<1> QED BY <1>9 DEF legs, quantity, side, at

LEMMA StudyImpliesNoFill ==
  ASSUME StudyInv
  PROVE  NoFillProved
<1> SUFFICES ASSUME NEW r \in SimulatedRecords, OnLegs(r), NEW order \in Orders(r),
                    order.phase.status = "NO_FILL_UNDER_MODEL",
                    NEW t \in ToSet(Window(CandidateOf(r.candidate), order.place[2]).expected),
                    t >= order.after + ScenarioOf(r).profile.latency
             PROVE  /\ Shown(order.place, t) # {}
                    /\ LET o    == ShownAt(order.place, t)
                           legs == r.simulation.input.entry.evidence.inventory
                       IN  /\ None \notin ToSet(o.legs)
                           /\ Crossing(r)
                              /\ ShownSize(o, legs, order.side,
                                           Larger(r.simulation.input.quantity,
                                                  ScenarioOf(r).profile.minSize))
                              => ~ReachesLimit(Rounded(ShownPrice(o, legs, order.side),
                                                       ScenarioOf(r).profile.tick, order.side),
                                               order.window.limit, order.side)
  BY DEF NoFillProved
<1> DEFINE request == requests[order.place]
           p == ScenarioOf(r).profile
           legs == r.simulation.input.entry.evidence.inventory
           quantity == r.simulation.input.quantity
           window == order.window
           side == order.side
           o == ObservedAt(request, t)
<1>1. OnQuotes(r) /\ Assessed(order.phase.status)
  BY DEF OnLegs, Assessed
<1>2. /\ TypedRequest(request) /\ window.evidence = Evidence(request) /\ window.evidence # None
      /\ request.legs = legs /\ side \in {"ENTRY", "EXIT"}
      /\ request.expected = Window(CandidateOf(r.candidate), order.place[2]).expected
  BY <1>1, OrderFact
<1>3. PICK notBefore :
        /\ order.phase = EvaluatePhase(side, window, p, quantity, notBefore)
        /\ \A u \in Int : u >= order.after + p.latency => u >= EligibleAfter(window, p, notBefore)
  BY <1>1, OrderFact
<1>4. LegProfile(p) /\ quantity \in Int
  BY LegProfileOf, RecordProfile
<1>5. t \in Int /\ t \in ToSet(request.expected)
  <2> HIDE DEF request
  <2> QED BY <1>2, ExpectedFact DEF TypedRequest
<1>6. t >= EligibleAfter(window, p, notBefore)
  BY <1>3, <1>5
<1>7. /\ FillsAt(side, window, p, quantity, notBefore) = {}
      /\ \A u \in window.evidence.expected :
           u >= EligibleAfter(window, p, notBefore) => u \in Eligible(window, p, notBefore)
  <2> HIDE DEF request, p, quantity, window, side
  <2> QED BY <1>3, UnfilledPhase
<1>8. t \in Eligible(window, p, notBefore)
  <2> HIDE DEF request, p, quantity, window, side
  <2>1. t \in window.evidence.expected
    BY <1>2, <1>5, EvidenceFact
  <2> QED BY <1>6, <1>7, <2>1
<1>9. /\ o \in ToSet(request.observations) /\ o.at = t
      /\ None \notin ToSet(o.legs)
      /\ p.model = "QUOTE_CROSS"
         /\ ShownSize(o, request.legs, side, Larger(quantity, p.minSize))
         => ~ReachesLimit(Rounded(ShownPrice(o, request.legs, side), p.tick, side),
                          window.limit, side)
  <2> HIDE DEF request, p, quantity, window, side
  <2> QED BY <1>2, <1>4, <1>7, <1>8, NoFillFact
<1>10. Crossing(r) <=> p.model = "QUOTE_CROSS"
  BY DEF Crossing
<1>11. ShownAt(order.place, t) = o
  BY ShownIsObserved
<1>12. Shown(order.place, t) # {}
  <2> HIDE DEF o
  <2> QED BY <1>9 DEF Shown
<1> HIDE DEF o, p, quantity, window, side, legs
<1>13. /\ None \notin ToSet(o.legs)
       /\ Crossing(r) /\ ShownSize(o, legs, side, Larger(quantity, p.minSize))
          => ~ReachesLimit(Rounded(ShownPrice(o, legs, side), p.tick, side), window.limit, side)
  BY <1>2, <1>9, <1>10
<1> QED BY <1>11, <1>12, <1>13 DEF legs, quantity, p, side, window

\* The entry of a record was evaluated on the request of its place, in the
\* window of its candidate.
LEMMA EntryFact ==
  ASSUME StudyInv, NEW r \in SimulatedRecords, OnQuotes(r)
  PROVE  LET in == r.simulation.input
             p  == ScenarioOf(r).profile
             request == requests[<<r.candidate, "ENTRY">>]
             window == Window(CandidateOf(r.candidate), "ENTRY")
         IN  /\ TypedRequest(request) /\ in.entry.evidence = Evidence(request)
             /\ in.entry.evidence # None
             /\ r.simulation.entry =
                  EvaluatePhase("ENTRY", in.entry, p, Frame.shared.quantity, in.entry.start)
             /\ in.entry.start = window.start /\ in.entry.limit = window.limit
             /\ window.start \in Int /\ window.limit \in Int
             /\ TickAligned(window.limit, p.tick) /\ QuoteProfile(p)
<1> DEFINE in == r.simulation.input
           c  == CandidateOf(r.candidate)
           s  == ScenarioOf(r)
           place == <<r.candidate, "ENTRY">>
           request == requests[place]
           window == Window(c, "ENTRY")
<1>1. Sound(r, study, requests) /\ r.simulation # None /\ study \in Studies
  BY DEF StudyInv, RecordsKept, SimulatedRecords
<1>2. c = ById(AvailableOf(study), r.candidate) /\ s = ById(study.scenarios, r.scenario)
  BY CandidateIsById DEF ScenarioOf, ById
<1>3. /\ c \in study.candidates /\ s \in study.scenarios /\ r.candidate \in Available(study)
      /\ ValidSimulation(in) /\ r.simulation = Simulate(in)
      /\ in.profile = s.profile /\ in.quantity = Frame.shared.quantity
      /\ in.entry.start = window.start /\ in.entry.limit = window.limit
      /\ s.role # "REFERENCE" => in.entry.evidence = Normalized(request)
  <2> HIDE DEF in, c, s
  <2> QED BY <1>1, <1>2 DEF Sound, in
<1>4. s.role # "REFERENCE" /\ s.profile.model \in QuoteModels
  BY DEF OnQuotes
<1> HIDE DEF in, c, s
<1>5. /\ ValidProfile(in.profile) /\ in.entry.evidence # None
      /\ TickAligned(in.entry.limit, in.profile.tick)
  BY <1>3 DEF ValidSimulation, ValidWindow
<1>6. QuoteProfile(s.profile)
  <2>1. {s.profile.latency, s.profile.minSize, s.profile.tick, s.profile.cost} \subseteq Int
    BY <1>1, <1>3, StudyAssumption
  <2>2. s.profile.tick > 0
    BY <1>3, <1>5 DEF ValidProfile
  <2> QED BY <1>3, <1>4, <1>5, <2>1, <2>2 DEF QuoteProfile
<1>7. "ENTRY" \in DOMAIN HorizonDays
  BY DEF HorizonDays
<1>8. window.start \in Int /\ window.limit \in Int
  <2>1. IsWindow(window)
    BY <1>1, <1>3, <1>7, EvidenceAssumption
  <2> QED BY <2>1 DEF IsWindow
<1>9. place \in PlacesOf(study) /\ place \in DOMAIN requests
  <2>1. DOMAIN requests = PlacesOf(study)
    BY DEF StudyInv, RequestsKept, RecordsKept, SimulatedRecords
  <2> QED BY <1>3, <1>7, <2>1 DEF PlacesOf
<1>10. request # None /\ in.entry.evidence = Evidence(request)
  <2> HIDE DEF request
  <2> QED BY <1>3, <1>4, <1>5 DEF Normalized
<1>11. TypedRequest(request)
  <2> HIDE DEF place
  <2> QED BY <1>9, <1>10, RequestAt
<1>12. r.simulation.entry =
         EvaluatePhase("ENTRY", in.entry, in.profile, in.quantity, in.entry.start)
  BY <1>3 DEF Simulate, Entry, SimulationOf
<1> HIDE DEF request, window
<1> QED BY <1>3, <1>5, <1>6, <1>8, <1>10, <1>11, <1>12 DEF in, s, c, place, request, window

LEMMA StudyImpliesBest ==
  ASSUME StudyInv
  PROVE  OptimisticIsBest
<1> SUFFICES ASSUME NEW r \in SimulatedRecords, NEW k \in SimulatedRecords,
                    ScenarioOf(r).role = "OPTIMISTIC", OnQuotes(k),
                    Comparable(ScenarioOf(r), ScenarioOf(k)), r.candidate = k.candidate,
                    Filled(k.simulation.entry)
             PROVE  LET best == r.simulation.entry
                        other == k.simulation.entry
                    IN  /\ Filled(best) /\ best.at <= other.at
                        /\ best.at = other.at => best.price <= other.price
  BY DEF OptimisticIsBest
<1> DEFINE p == ScenarioOf(r).profile
           q == ScenarioOf(k).profile
           v == r.simulation.input.entry
           w == k.simulation.input.entry
           request == requests[<<r.candidate, "ENTRY">>]
           quantity == Frame.shared.quantity
           best == r.simulation.entry
           other == k.simulation.entry
<1>1. /\ p.quoteSource = q.quoteSource /\ p.tick = q.tick
      /\ p.latency <= q.latency /\ p.minSize <= q.minSize /\ PaysMidpoint(p)
  BY DEF Comparable, ValidScenario, PaysMidpoint, ModelOf
<1>2. OnQuotes(r)
  BY <1>1 DEF OnQuotes, PaysMidpoint, QuoteModels
<1>3. /\ TypedRequest(request) /\ v.evidence = Evidence(request) /\ v.evidence # None
      /\ best = EvaluatePhase("ENTRY", v, p, quantity, v.start)
      /\ QuoteProfile(p) /\ v.start \in Int /\ v.limit \in Int
  BY <1>2, EntryFact
<1>4. /\ w.evidence = Evidence(request) /\ w.evidence # None
      /\ other = EvaluatePhase("ENTRY", w, q, quantity, w.start)
      /\ QuoteProfile(q) /\ TickAligned(w.limit, q.tick)
  BY EntryFact
<1>5. v.start = w.start /\ v.limit = w.limit
  BY <1>2, EntryFact
<1>6. quantity \in Int
  BY FrameAssumption
<1> DEFINE price(t) == ModeledPrice(PointOf(Evidence(request).observations[t], p), p, "ENTRY", v.limit)
           fills == FillsAt("ENTRY", v, p, quantity, v.start)
<1>7. Filled(other)
  OBVIOUS
<1> HIDE DEF p, q, v, w, request, quantity, best, other
<1>8. /\ other.at \in FillsAt("ENTRY", w, q, quantity, w.start)
      /\ other.price = ModeledPrice(PointOf(Evidence(request).observations[other.at], q),
                                    q, "ENTRY", w.limit)
  BY <1>3, <1>4, <1>7, FilledPhase
<1>9. other.at \in fills /\ price(other.at) <= other.price
  BY <1>1, <1>3, <1>4, <1>5, <1>6, <1>8, BetterFill
<1>10. /\ Filled(best) /\ best.at = Min(fills)
       /\ best.price = price(best.at)
  BY <1>3, <1>9, FirstFill
<1>11. Min(fills) <= other.at
  <2>1. fills \in SUBSET Int /\ IsFiniteSet(fills)
    BY <1>3, FillsAreInstants
  <2> HIDE DEF fills
  <2> QED BY <1>9, <2>1, MinFact
<1> HIDE DEF price, fills
<1>12. /\ Filled(best) /\ best.at <= other.at
       /\ best.at = other.at => best.price <= other.price
  BY <1>9, <1>10, <1>11
<1> QED BY <1>12 DEF best, other

\* What an order on quotes fills on was known at the instant of the fill.
LEMMA FillsAreKnown ==
  ASSUME StudyInv, NEW r \in SimulatedRecords, OnQuotes(r), NEW order \in Orders(r),
         Filled(order.phase)
  PROVE  LET o == ShownAt(order.place, order.phase.at)
             used == IF OnLegs(r) THEN ToSet(o.legs) ELSE {o.native}
         IN  \A q \in used : KnownAt(q, o.at)
<1> DEFINE request == requests[order.place]
           p == ScenarioOf(r).profile
           quantity == r.simulation.input.quantity
           window == order.window
           side == order.side
           at == order.phase.at
           o == ObservedAt(request, at)
<1>1. Assessed(order.phase.status)
  BY DEF Filled, Assessed
<1>2. TypedRequest(request) /\ window.evidence = Evidence(request) /\ window.evidence # None
  BY <1>1, OrderFact
<1>3. PICK notBefore : order.phase = EvaluatePhase(side, window, p, quantity, notBefore)
  BY <1>1, OrderFact
<1>4. at \in FillsAt(side, window, p, quantity, notBefore)
  <2> HIDE DEF request, p, quantity, window, side
  <2> QED BY <1>2, <1>3, FilledPhase
<1>5. /\ at \in DOMAIN Evidence(request).observations
      /\ PointOf(Evidence(request).observations[at], p) # None
  <2> HIDE DEF request, p, quantity, window, side, at
  <2> QED BY <1>2, <1>4 DEF FillsAt, BigAt, Eligible, SelectedPoints
<1>6. /\ IsObservation(o, request.legs)
      /\ Evidence(request).observations[at] = Observation(o, request.legs, request.policy)
  <2> HIDE DEF request, at
  <2> QED BY <1>2, <1>5, EvidenceFact
<1>7. IF p.quoteSource = "NATIVE_PACKAGE" THEN KnownAt(o.native, o.at)
      ELSE \A q \in ToSet(o.legs) : KnownAt(q, o.at)
  <2>1. p.model \in QuoteModels
    BY DEF OnQuotes
  <2> HIDE DEF request, p, o, at
  <2> QED BY <1>5, <1>6, <2>1, PointIsKnown
<1>8. OnLegs(r) <=> p.quoteSource # "NATIVE_PACKAGE"
  BY DEF OnLegs
<1>9. ShownAt(order.place, at) = o
  BY ShownIsObserved
<1> HIDE DEF o, p
<1>10. \A q \in (IF OnLegs(r) THEN ToSet(o.legs) ELSE {o.native}) : KnownAt(q, o.at)
  BY <1>7, <1>8
<1> QED BY <1>9, <1>10

-----------------------------------------------------------------------------
(* The first of finitely many keys.                                         *)

LEMMA FirstByThree ==
  ASSUME NEW keys, IsFiniteSet(DOMAIN keys), DOMAIN keys # {},
         \A x \in DOMAIN keys : \E a, b, c \in Int : keys[x] = <<a, b, c>>
  PROVE  FirstBy(keys) \in DOMAIN keys
<1> DEFINE wide == [x \in DOMAIN keys |-> <<keys[x][1], keys[x][2], keys[x][3], 0>>]
<1>1. \A x \in DOMAIN keys : DOMAIN keys[x] = 1..3 /\ \A i \in 1..4 : wide[x][i] \in Int
  OBVIOUS
<1>2. PICK x \in DOMAIN keys : \A y \in DOMAIN keys : First(wide[x], wide[y])
  <2>1. DOMAIN wide = DOMAIN keys
    OBVIOUS
  <2> HIDE DEF wide
  <2> QED BY <1>1, <2>1, FirstOfFour
<1>3. \A y \in DOMAIN keys : ~Precedes(keys[y], keys[x])
  <2> SUFFICES ASSUME NEW y \in DOMAIN keys, NEW i \in DOMAIN keys[y], keys[y][i] < keys[x][i],
                      \A j \in 1..(i - 1) : keys[y][j] = keys[x][j]
               PROVE  FALSE
    BY DEF Precedes
  <2>1. i \in 1..3
    BY <1>1
  <2>2. \A j \in 1..3 : wide[x][j] = keys[x][j] /\ wide[y][j] = keys[y][j]
    OBVIOUS
  <2> HIDE DEF wide
  <2>4. CASE i = 1
    BY <1>2, <2>2, <2>4 DEF First
  <2>5. CASE i = 2
    <3>1. keys[y][1] = keys[x][1]
      BY <2>5
    <3> QED BY <1>2, <2>2, <2>5, <3>1 DEF First
  <2>6. CASE i = 3
    <3>1. keys[y][1] = keys[x][1] /\ keys[y][2] = keys[x][2]
      BY <2>6
    <3> QED BY <1>2, <2>2, <2>6, <3>1 DEF First
  <2> QED BY <2>1, <2>4, <2>5, <2>6
<1> QED BY <1>3 DEF FirstBy

LEMMA FirstByFour ==
  ASSUME NEW keys, IsFiniteSet(DOMAIN keys), DOMAIN keys # {},
         \A x \in DOMAIN keys : \E a, b, c, d \in Int : keys[x] = <<a, b, c, d>>
  PROVE  FirstBy(keys) \in DOMAIN keys
<1>1. \A x \in DOMAIN keys : DOMAIN keys[x] = 1..4 /\ \A i \in 1..4 : keys[x][i] \in Int
  OBVIOUS
<1>2. PICK x \in DOMAIN keys : \A y \in DOMAIN keys : First(keys[x], keys[y])
  BY <1>1, FirstOfFour
<1>3. \A y \in DOMAIN keys : ~Precedes(keys[y], keys[x])
  <2> SUFFICES ASSUME NEW y \in DOMAIN keys, NEW i \in DOMAIN keys[y], keys[y][i] < keys[x][i],
                      \A j \in 1..(i - 1) : keys[y][j] = keys[x][j]
               PROVE  FALSE
    BY DEF Precedes
  <2>1. i \in 1..4
    BY <1>1
  <2>2. CASE i = 1
    BY <1>2, <2>2 DEF First
  <2>3. CASE i = 2
    <3>1. keys[y][1] = keys[x][1]
      BY <2>3
    <3> QED BY <1>2, <2>3, <3>1 DEF First
  <2>4. CASE i = 3
    <3>1. keys[y][1] = keys[x][1] /\ keys[y][2] = keys[x][2]
      BY <2>4
    <3> QED BY <1>2, <2>4, <3>1 DEF First
  <2>5. CASE i = 4
    <3>1. keys[y][1] = keys[x][1] /\ keys[y][2] = keys[x][2] /\ keys[y][3] = keys[x][3]
      BY <2>5
    <3> QED BY <1>2, <2>5, <3>1 DEF First
  <2> QED BY <2>1, <2>2, <2>3, <2>4, <2>5
<1> QED BY <1>3 DEF FirstBy

-----------------------------------------------------------------------------
(* What is seen of a contract was known.                                    *)

IsCandle(candle) ==
  candle.availableAt \in Int /\ candle.close \in Int /\ candle.iv \in Nat \cup {None}

LEMMA ObservedIsKnown ==
  ASSUME IsPlan(chain.plan), NEW shown, IsChainResult(shown),
         CompleteObservation(shown, chain.plan.at, chain.plan.maxAge) # None
  PROVE  LET candle == CompleteObservation(shown, chain.plan.at, chain.plan.maxAge)
         IN  candle \in KnownCandles(shown) /\ IsCandle(candle)
<1> DEFINE at == chain.plan.at
           maxAge == chain.plan.maxAge
           candles == shown.candles
           eligible == {i \in DOMAIN candles :
                          /\ Usable(candles[i], at) /\ candles[i].close > 0
                          /\ at - candles[i].availableAt <= maxAge}
           Latest_(i) == \A j \in eligible :
                           \/ candles[j].availableAt < candles[i].availableAt
                           \/ candles[j].availableAt = candles[i].availableAt /\ i <= j
           chosen == CHOOSE i \in eligible : Latest_(i)
<1>1. /\ IsWhole(shown) /\ shown.covered /\ eligible # {}
      /\ CompleteObservation(shown, at, maxAge) = candles[chosen]
  BY DEF CompleteObservation
<1>2. DOMAIN candles = 1..Len(candles) /\ Len(candles) \in Nat
  BY DEF IsChainResult, IsSequence
<1>3. \A i \in DOMAIN candles : /\ candles[i].availableAt \in Int /\ candles[i].close \in Int
                                /\ candles[i].iv \in Nat \cup {None}
                                /\ candles[i].end <= candles[i].availableAt
  BY DEF IsChainResult
<1>4. eligible \in SUBSET Int /\ IsFiniteSet(eligible)
  <2>1. eligible \subseteq 1..Len(candles)
    BY <1>2
  <2>2. IsFiniteSet(1..Len(candles))
    <3>1. \A n \in Nat : IsFiniteSet(1..n)
      BY FS_Interval
    <3> HIDE DEF candles
    <3> QED BY <1>2, <3>1, Zenon
  <2> HIDE DEF eligible
  <2>3. eligible \in SUBSET (1..Len(candles))
    BY <2>1
  <2>4. IsFiniteSet(eligible)
    BY <2>2, <2>3, FS_Subset
  <2>5. eligible \in SUBSET Int
    BY <1>2, <2>1
  <2> QED BY <2>4, <2>5
<1>5. \E i \in eligible : Latest_(i)
  <2> DEFINE keys == [i \in eligible |-> <<-candles[i].availableAt, i, 0, 0>>]
  <2>1. DOMAIN keys = eligible /\ \A i \in eligible : \A k \in 1..4 : keys[i][k] \in Int
    BY <1>2, <1>3
  <2>2. PICK i \in eligible : \A j \in eligible : First(keys[i], keys[j])
    <3> HIDE DEF keys, eligible
    <3> QED BY <1>1, <1>4, <2>1, FirstOfFour
  <2>3. Latest_(i)
    <3> SUFFICES ASSUME NEW j \in eligible
                 PROVE  \/ candles[j].availableAt < candles[i].availableAt
                        \/ candles[j].availableAt = candles[i].availableAt /\ i <= j
      OBVIOUS
    <3>1. i \in DOMAIN candles /\ j \in DOMAIN candles
      OBVIOUS
    <3>2. i \in Int /\ j \in Int
      BY <1>2, <3>1
    <3>3. ~(-candles[j].availableAt < -candles[i].availableAt)
          /\ (-candles[j].availableAt = -candles[i].availableAt => ~(j < i))
      BY <2>2 DEF First
    <3> HIDE DEF eligible
    <3> QED BY <1>3, <3>1, <3>2, <3>3
  <2> HIDE DEF Latest_, eligible
  <2> QED BY <2>3
<1>6. chosen \in eligible
  <2> HIDE DEF Latest_, eligible
  <2> QED BY <1>5
<1> HIDE DEF chosen
<1>7. chosen \in DOMAIN candles /\ candles[chosen] \in ToSet(candles)
  BY <1>6 DEF ToSet
<1>8. /\ candles[chosen].aligned /\ candles[chosen].availableAt <= at
      /\ at - candles[chosen].availableAt <= maxAge
  BY <1>6 DEF Usable
<1>9. candles[chosen] \in KnownCandles(shown)
  BY <1>1, <1>3, <1>7, <1>8 DEF KnownCandles, IsWhole
<1>10. IsCandle(candles[chosen])
  BY <1>3, <1>7 DEF IsCandle
<1> QED BY <1>1, <1>9, <1>10

\* What is seen of the contracts that were answered.
SeenKnown(observed) ==
  /\ IsFiniteSet(DOMAIN observed) /\ DOMAIN observed \subseteq DOMAIN chain.given.results
  /\ \A c \in DOMAIN observed :
       /\ observed[c] \in KnownCandles(chain.given.results[c]) /\ IsCandle(observed[c])
       /\ c.strike \in Int /\ c.expiration \in Int

LEMMA SeenIsKnown ==
  ASSUME IsPlan(chain.plan), IsChain(chain.given),
         NEW contracts \in SUBSET DOMAIN chain.given.results
  PROVE  SeenKnown(SeenContracts(contracts, chain.given, chain.plan))
<1> DEFINE shown(c) ==
             CompleteObservation(chain.given.results[c], chain.plan.at, chain.plan.maxAge)
           observed == SeenContracts(contracts, chain.given, chain.plan)
<1>1. observed = [c \in {c \in contracts : shown(c) # None} |-> shown(c)]
  BY DEF SeenContracts
<1>2. DOMAIN observed \subseteq DOMAIN chain.given.results
  BY <1>1
<1>3. IsFiniteSet(DOMAIN observed)
  <2>1. IsFiniteSet(DOMAIN chain.given.results)
    BY DEF IsChain
  <2>2. DOMAIN observed \in SUBSET DOMAIN chain.given.results
    BY <1>2
  <2> QED BY <2>1, <2>2, FS_Subset
<1>4. ASSUME NEW c \in DOMAIN observed
      PROVE  /\ observed[c] \in KnownCandles(chain.given.results[c]) /\ IsCandle(observed[c])
             /\ c.strike \in Int /\ c.expiration \in Int
  <2>1. observed[c] = shown(c) /\ shown(c) # None /\ c \in DOMAIN chain.given.results
    BY <1>1
  <2>2. IsContract(c) /\ IsChainResult(chain.given.results[c])
    BY <2>1 DEF IsChain
  <2> HIDE DEF observed
  <2> QED BY <2>1, <2>2, ObservedIsKnown DEF IsContract
<1> HIDE DEF observed
<1> QED BY <1>2, <1>3, <1>4 DEF SeenKnown, observed

LEMMA PairFact ==
  ASSUME NEW a \in Int, NEW b \in Int
  PROVE  /\ Min({a, b}) = IF a <= b THEN a ELSE b
         /\ Max({a, b}) = IF a <= b THEN b ELSE a
<1>1. IsFiniteSet({a, b})
  <2>1. IsFiniteSet({a})
    BY FS_Singleton
  <2>2. IsFiniteSet({a} \cup {b})
    BY <2>1, FS_AddElement
  <2>3. {a} \cup {b} = {a, b}
    OBVIOUS
  <2> QED BY <2>2, <2>3
<1>2. /\ Min({a, b}) \in {a, b} /\ \A y \in {a, b} : Min({a, b}) <= y
      /\ Max({a, b}) \in {a, b} /\ \A y \in {a, b} : Max({a, b}) >= y
  BY <1>1, MinFact, MaxFact
<1> QED BY <1>2

ContractAt(day, side, strike) == [expiration |-> day, side |-> side, strike |-> strike]
TimesOf(observed, day, k) ==
  {candle.availableAt : candle \in {observed[c] : c \in Contracts({day}, Sides, {k})}}

\* A strike with parity has a call and a put that were seen, within the skew.
LEMMA ParityFact ==
  ASSUME NEW observed, SeenKnown(observed), NEW day, NEW skew \in Int,
         NEW k \in ParityStrikes(observed, day, skew)
  PROVE  LET call == ContractAt(day, "CALL", k)
             put  == ContractAt(day, "PUT", k)
         IN  /\ call \in DOMAIN observed /\ put \in DOMAIN observed /\ k \in Int
             /\ IsCandle(observed[call]) /\ IsCandle(observed[put])
             /\ Max({observed[call].availableAt, observed[put].availableAt})
                  <= Min({observed[call].availableAt, observed[put].availableAt}) + skew
             /\ Min(TimesOf(observed, day, k)) \in Int
<1> DEFINE call == ContractAt(day, "CALL", k)
           put  == ContractAt(day, "PUT", k)
<1>1. /\ call \in DOMAIN observed /\ put \in DOMAIN observed
      /\ Magnitude(observed[call].availableAt - observed[put].availableAt) <= skew
  BY DEF ParityStrikes, ContractAt
<1>2. call.strike = k
  BY DEF ContractAt
<1>3. Contracts({day}, Sides, {k}) = {call, put}
  BY DEF Contracts, Sides, ContractAt
<1> HIDE DEF call, put
<1>4. k \in Int /\ IsCandle(observed[call]) /\ IsCandle(observed[put])
  BY <1>1, <1>2 DEF SeenKnown
<1>5. TimesOf(observed, day, k) = {observed[call].availableAt, observed[put].availableAt}
  BY <1>3 DEF TimesOf
<1>6. observed[call].availableAt \in Int /\ observed[put].availableAt \in Int
  BY <1>4 DEF IsCandle
<1>7. Min(TimesOf(observed, day, k)) \in Int
  <2> DEFINE a == observed[call].availableAt
             b == observed[put].availableAt
  <2>1. a \in Int /\ b \in Int /\ TimesOf(observed, day, k) = {a, b}
    BY <1>5, <1>6
  <2> HIDE DEF a, b
  <2> QED BY <2>1, PairFact
<1>8. Max({observed[call].availableAt, observed[put].availableAt})
        <= Min({observed[call].availableAt, observed[put].availableAt}) + skew
  BY <1>1, <1>6, PairFact DEF Magnitude
<1> QED BY <1>1, <1>4, <1>7, <1>8 DEF call, put

\* A forward from parity is one that was known.
LEMMA ForwardIsKnown ==
  ASSUME IsPlan(chain.plan), NEW observed, SeenKnown(observed), NEW day, NEW price \in Int,
         Forward(observed, day, price, chain.plan) # None
  PROVE  LET forward == Forward(observed, day, price, chain.plan)
         IN  forward.value \in Int /\ ForwardKnown(forward, day)
<1> DEFINE skew == chain.plan.skew
           strikes == ParityStrikes(observed, day, skew)
           times(k) == TimesOf(observed, day, k)
           keys == [k \in strikes |-> <<-Min(times(k)), Magnitude(k - price), k>>]
           best == FirstBy(keys)
           call == ContractAt(day, "CALL", best)
           put  == ContractAt(day, "PUT", best)
           forward == Forward(observed, day, price, chain.plan)
<1>0. skew \in Int
  BY DEF IsPlan
<1>1. /\ strikes # {}
      /\ forward = [value |-> best + observed[call].close - observed[put].close,
                    at |-> Max(times(best)), basis |-> "PUT_CALL_PARITY"]
  BY DEF Forward, ContractAt, TimesOf
<1>2. forward.value = best + observed[call].close - observed[put].close
      /\ forward.basis = "PUT_CALL_PARITY"
  <2> HIDE DEF best, call, put, forward
  <2> QED BY <1>1
<1>3. DOMAIN keys = strikes /\ \A k \in strikes : \E a, b, d \in Int : keys[k] = <<a, b, d>>
  <2>1. ASSUME NEW k \in strikes PROVE \E a, b, d \in Int : keys[k] = <<a, b, d>>
    <3>1. k \in ParityStrikes(observed, day, skew)
      OBVIOUS
    <3>2. k \in Int /\ Min(times(k)) \in Int
      <4> HIDE DEF skew, strikes, keys, best, call, put, forward
      <4> QED BY <1>0, <3>1, ParityFact
    <3>3. Magnitude(k - price) \in Int
      BY <3>2 DEF Magnitude
    <3>4. keys[k] = <<-Min(times(k)), Magnitude(k - price), k>>
      OBVIOUS
    <3> HIDE DEF times, keys
    <3> QED BY <3>2, <3>3, <3>4
  <2> QED BY <2>1
<1>4. IsFiniteSet(strikes)
  <2>1. strikes \in SUBSET {c.strike : c \in DOMAIN observed}
    BY DEF ParityStrikes
  <2>2. IsFiniteSet({c.strike : c \in DOMAIN observed})
    <3> DEFINE f == [c \in DOMAIN observed |-> c.strike]
    <3>1. IsFiniteSet(DOMAIN observed)
      BY DEF SeenKnown
    <3>2. {c.strike : c \in DOMAIN observed} = {f[c] : c \in DOMAIN observed}
      OBVIOUS
    <3> HIDE DEF f
    <3> QED BY <3>1, <3>2, ImageFinite
  <2> HIDE DEF strikes
  <2> QED BY <2>1, <2>2, FS_Subset
<1>5. best \in strikes
  <2> HIDE DEF keys, strikes
  <2> QED BY <1>1, <1>3, <1>4, FirstByThree
<1>6. /\ call \in DOMAIN observed /\ put \in DOMAIN observed /\ best \in Int
      /\ IsCandle(observed[call]) /\ IsCandle(observed[put])
      /\ Max({observed[call].availableAt, observed[put].availableAt})
           <= Min({observed[call].availableAt, observed[put].availableAt}) + skew
  <2> HIDE DEF best
  <2> QED BY <1>0, <1>5, ParityFact
<1>7. forward.value \in Int
  <2> HIDE DEF forward, best, call, put
  <2> QED BY <1>2, <1>6 DEF IsCandle
<1>8. /\ call \in DOMAIN chain.given.results /\ put \in DOMAIN chain.given.results
      /\ observed[call] \in KnownCandles(chain.given.results[call])
      /\ observed[put] \in KnownCandles(chain.given.results[put])
  <2> HIDE DEF best, call, put
  <2> QED BY <1>6 DEF SeenKnown
<1>9. best \in {c.strike : c \in DOMAIN chain.given.results}
  <2> HIDE DEF best
  <2>1. call.strike = best
    BY DEF ContractAt
  <2> QED BY <1>8, <2>1
<1> HIDE DEF best, forward
<1>10. ForwardKnown(forward, day)
  BY <1>2, <1>6, <1>8, <1>9 DEF ForwardKnown, ContractAt
<1> QED BY <1>7, <1>10 DEF forward

\* A delta that there is has a forward, and is a number.
LEMMA DeltaFact ==
  ASSUME NEW c, c.strike \in Int, NEW candle, IsCandle(candle), NEW forward,
         forward # None => forward.value \in Int,
         HistoricalDelta(c, candle, forward) # None
  PROVE  forward # None /\ HistoricalDelta(c, candle, forward) \in Int
<1>1. /\ forward # None /\ candle.iv \notin {None, 0}
      /\ HistoricalDelta(c, candle, forward)
           = CallDelta(forward.value, c.strike, candle.iv) - (IF c.side = "CALL" THEN 0 ELSE 100)
  BY DEF HistoricalDelta
<1>2. candle.iv \in Nat \ {0} /\ forward.value \in Int
  BY <1>1 DEF IsCandle
<1>3. ASSUME NEW x \in Int, NEW n \in Nat \ {0} PROVE x \div n \in Int
  OBVIOUS
<1>4. CallDelta(forward.value, c.strike, candle.iv) \in Int
  <2> DEFINE moved == 50 * (forward.value - c.strike)
  <2>1. moved \in Int
    BY <1>2
  <2> HIDE DEF moved
  <2>2. moved \div candle.iv \in Int
    BY <1>2, <1>3, <2>1
  <2> QED BY <2>2 DEF CallDelta, moved
<1> QED BY <1>1, <1>4

IsKnown(x) ==
  /\ x.price \in Closes(chain.given.results[x.contract])
  /\ x.underlying \in Closes(chain.given.underlying.result)
  /\ x.delta # None => ForwardKnown(x.forward, x.contract.expiration)

\* What is chosen for an item was seen, and its delta is from a known forward.
LEMMA CandidateIsKnown ==
  ASSUME IsPlan(chain.plan), NEW observed, SeenKnown(observed),
         NEW underlying \in KnownCandles(chain.given.underlying.result), IsCandle(underlying),
         NEW item, IsItem(item), item.method \in {"DELTA", "PERCENTAGE_OTM"},
         CandidateFor(item, chain.plan, underlying, observed) # None
  PROVE  IsKnown(CandidateFor(item, chain.plan, underlying, observed))
<1> DEFINE plan == chain.plan
           price == underlying.close
           eligible == EligibleContracts(item, plan, underlying) \cap DOMAIN observed
           forward(c) == Forward(observed, c.expiration, price, plan)
           delta(c) == HistoricalDelta(c, observed[c], forward(c))
           score(c) == SelectorScore(item, c, delta(c), price)
           scored == {c \in eligible : score(c) # None}
           keys == [c \in scored |->
                      <<score(c), -observed[c].availableAt,
                        Magnitude(c.expiration - plan.session - item.dte), c.strike>>]
           best == FirstBy(keys)
           built == BuildCandidate(best, observed[best], delta(best), forward(best), underlying)
<1>1. scored # {} /\ CandidateFor(item, plan, underlying, observed) = built
  BY DEF CandidateFor
<1>2. price \in Int /\ plan.session \in Int /\ item.value \in Int /\ item.dte \in Int
  BY DEF IsCandle, IsPlan, IsItem
<1>3. ASSUME NEW c \in DOMAIN observed
      PROVE  /\ observed[c] \in KnownCandles(chain.given.results[c]) /\ IsCandle(observed[c])
             /\ c.strike \in Int /\ c.expiration \in Int
             /\ forward(c) # None =>
                  forward(c).value \in Int /\ ForwardKnown(forward(c), c.expiration)
             /\ delta(c) # None => forward(c) # None /\ delta(c) \in Int
  <2>1. /\ observed[c] \in KnownCandles(chain.given.results[c]) /\ IsCandle(observed[c])
        /\ c.strike \in Int /\ c.expiration \in Int
    BY DEF SeenKnown
  <2>2. ASSUME forward(c) # None
        PROVE  forward(c).value \in Int /\ ForwardKnown(forward(c), c.expiration)
    BY <1>2, <2>2, ForwardIsKnown
  <2> HIDE DEF forward
  <2>3. delta(c) # None => forward(c) # None /\ delta(c) \in Int
    BY <2>1, <2>2, DeltaFact
  <2> QED BY <2>1, <2>2, <2>3
<1>4. ASSUME NEW c \in scored
      PROVE  /\ c \in DOMAIN observed /\ score(c) \in Int
  <2>1. c \in DOMAIN observed /\ score(c) # None
    OBVIOUS
  <2>2. delta(c) # None => delta(c) \in Int
    BY <1>3, <2>1
  <2>3. c.strike \in Int
    BY <1>3, <2>1
  <2>4. score(c) \in Int
    <3> DEFINE d == delta(c)
    <3>0. SelectorScore(item, c, d, price) # None
      BY <2>1
    <3>1. d # None => d \in Int
      BY <2>2
    <3> HIDE DEF d, price
    <3>2. CASE item.method = "DELTA"
      <4>1. d # None /\ SelectorScore(item, c, d, price) = Magnitude(Magnitude(d) - item.value)
        BY <3>0, <3>2 DEF SelectorScore
      <4> QED BY <1>2, <3>1, <4>1 DEF Magnitude, d
    <3>3. CASE item.method = "PERCENTAGE_OTM"
      <4> DEFINE percent == IF c.side = "CALL" THEN 100 + item.value ELSE 100 - item.value
      <4>1. SelectorScore(item, c, d, price) = Magnitude(100 * c.strike - price * percent)
        BY <3>3 DEF SelectorScore
      <4>2. percent \in Int
        BY <1>2
      <4> HIDE DEF percent
      <4>3. 100 * c.strike - price * percent \in Int
        BY <1>2, <2>3, <4>2
      <4>4. Magnitude(100 * c.strike - price * percent) \in Int
        BY <4>3 DEF Magnitude
      <4> QED BY <4>1, <4>4 DEF d
    <3> QED BY <3>2, <3>3
  <2> QED BY <2>1, <2>4
<1>5. DOMAIN keys = scored /\ \A c \in scored : \E a, b, d, e \in Int : keys[c] = <<a, b, d, e>>
  <2>1. ASSUME NEW c \in scored PROVE \E a, b, d, e \in Int : keys[c] = <<a, b, d, e>>
    <3>1. /\ score(c) \in Int /\ c.strike \in Int /\ -observed[c].availableAt \in Int
          /\ c.expiration \in Int
      BY <1>3, <1>4 DEF IsCandle
    <3>2. Magnitude(c.expiration - plan.session - item.dte) \in Int
      BY <1>2, <3>1 DEF Magnitude
    <3>3. keys[c] = <<score(c), -observed[c].availableAt,
                      Magnitude(c.expiration - plan.session - item.dte), c.strike>>
      OBVIOUS
    <3> HIDE DEF keys, score, plan
    <3> QED BY <3>1, <3>2, <3>3
  <2> QED BY <2>1
<1>6. IsFiniteSet(scored)
  <2>1. IsFiniteSet(DOMAIN observed) /\ scored \in SUBSET DOMAIN observed
    BY DEF SeenKnown
  <2> HIDE DEF scored
  <2> QED BY <2>1, FS_Subset
<1>7. best \in scored
  <2> HIDE DEF keys, scored
  <2> QED BY <1>1, <1>5, <1>6, FirstByFour
<1> HIDE DEF best, keys, scored, forward, delta, eligible, score
<1>8. best \in DOMAIN observed
  BY <1>4, <1>7
<1>9. /\ built.contract = best /\ built.price = observed[best].close
      /\ built.delta = delta(best) /\ built.forward = forward(best)
      /\ built.underlying = underlying.close
  BY DEF BuildCandidate
<1> HIDE DEF built
<1>10. /\ built.price \in Closes(chain.given.results[best])
       /\ built.underlying \in Closes(chain.given.underlying.result)
  BY <1>3, <1>8, <1>9 DEF Closes
<1>11. built.delta # None => ForwardKnown(built.forward, best.expiration)
  BY <1>3, <1>8, <1>9
<1>12. IsKnown(built)
  BY <1>9, <1>10, <1>11 DEF IsKnown
<1> QED BY <1>1, <1>12

\* The candle of the underlying, where there is one, was known.
LEMMA UnderlyingIsKnown ==
  ASSUME IsPlan(chain.plan), IsChain(chain.given), chain.given.underlying.kind = "RESULT",
         CompleteObservation(chain.given.underlying.result, chain.plan.at, chain.plan.maxAge) # None
  PROVE  LET underlying == CompleteObservation(chain.given.underlying.result, chain.plan.at,
                                               chain.plan.maxAge)
         IN  underlying \in KnownCandles(chain.given.underlying.result) /\ IsCandle(underlying)
<1>1. IsChainResult(chain.given.underlying.result)
  BY DEF IsChain
<1> QED BY <1>1, ObservedIsKnown

LEMMA ReconstructIsKnown ==
  ASSUME IsPlan(chain.plan), IsChain(chain.given),
         \A i \in DOMAIN chain.plan.items : IsItem(chain.plan.items[i]),
         Answered(FetchedForItems, chain.plan, chain.given),
         Reconstruct(chain.plan, chain.given).status # "THROWN",
         NEW x \in ToSet(Reconstruct(chain.plan, chain.given).candidates), x # None
  PROVE  IsKnown(x)
<1> DEFINE plan == chain.plan
           given == chain.given
           underlying == CompleteObservation(given.underlying.result, plan.at, plan.maxAge)
           fetched == FetchedForItems(plan, underlying)
           observed == SeenContracts(fetched, given, plan)
           candidates == [i \in DOMAIN plan.items |->
              IF i \in Supported(plan)
              THEN CandidateFor(plan.items[i], plan, underlying, observed) ELSE None]
           done == Reconstruct(plan, given)
<1>1. \/ given.underlying.kind # "RESULT" /\ done = Thrown(given.underlying.kind)
      \/ /\ given.underlying.kind = "RESULT" /\ underlying = None
         /\ done = [status |-> "RETURNED", candidates |-> [i \in DOMAIN plan.items |-> None]]
      \/ \E error : done = Thrown(error)
      \/ /\ given.underlying.kind = "RESULT" /\ underlying # None
         /\ done = [status |-> "RETURNED", candidates |-> candidates]
  <2> HIDE DEF observed, candidates, plan, given
  <2> QED BY Zenon DEF Reconstruct, observed, candidates
<1>2. \A error : Thrown(error).status = "THROWN"
  BY DEF Thrown
<1>3. /\ given.underlying.kind = "RESULT" /\ underlying # None
      /\ done.candidates = candidates
  <2>1. done.status # "THROWN" /\ x \in ToSet(done.candidates)
    OBVIOUS
  <2>2. CASE done = [status |-> "RETURNED", candidates |-> [i \in DOMAIN plan.items |-> None]]
    <3>1. done.candidates = [i \in DOMAIN plan.items |-> None]
      <4> HIDE DEF done, plan
      <4> QED BY <2>2
    <3>2. x = None
      <4> HIDE DEF done
      <4> QED BY <2>1, <3>1 DEF ToSet
    <3> QED BY <3>2
  <2> HIDE DEF done, candidates, plan, given, underlying
  <2> QED BY <1>1, <1>2, <2>1, <2>2
<1>4. PICK i \in DOMAIN plan.items :
        i \in Supported(plan) /\ x = CandidateFor(plan.items[i], plan, underlying, observed)
  <2>1. x \in ToSet(candidates)
    <3> HIDE DEF candidates
    <3> QED BY <1>3
  <2> HIDE DEF observed, underlying, plan
  <2> QED BY <2>1 DEF ToSet
<1>5. SeenKnown(observed)
  <2>1. fetched \subseteq DOMAIN given.results
    BY <1>3 DEF Answered
  <2> HIDE DEF fetched
  <2> QED BY <2>1, SeenIsKnown
<1>6. underlying \in KnownCandles(given.underlying.result) /\ IsCandle(underlying)
  BY <1>3, UnderlyingIsKnown
<1>7. plan.items[i].method \in {"DELTA", "PERCENTAGE_OTM"} /\ IsItem(plan.items[i])
  BY <1>4 DEF Supported
<1> HIDE DEF observed, underlying
<1> QED BY <1>4, <1>5, <1>6, <1>7, CandidateIsKnown

\* A contract of a universe was seen, and its delta is from a known forward.
LEMMA UniverseIsKnown ==
  ASSUME IsPlan(chain.plan), IsChain(chain.given),
         Answered(FetchedForUniverse, chain.plan, chain.given),
         Universe(chain.plan, chain.given).status # "THROWN",
         NEW x \in Universe(chain.plan, chain.given).contracts
  PROVE  IsKnown(x)
<1> DEFINE plan == chain.plan
           given == chain.given
           underlying == CompleteObservation(given.underlying.result, plan.at, plan.maxAge)
           fetched == FetchedForUniverse(plan, underlying)
           batch(c) == BatchOf(plan, fetched, c)
           failed == DOMAIN given.faults \cap 1..BatchCount(fetched)
           handed == {c \in fetched : batch(c) \notin failed}
           observed == SeenContracts(handed, given, plan)
           forward(day) ==
             UniverseDeltaForward(Forward(observed, day, underlying.close, plan), underlying)
           done == Universe(plan, given)
<1>1. /\ given.underlying.kind = "RESULT" /\ underlying # None
      /\ done = UniverseAround(plan, given, underlying)
  <2>1. \A status, errors : EmptyUniverse(plan, status, errors).contracts = {}
    BY DEF EmptyUniverse, UniverseResult
  <2>2. \A error : Thrown(error).status = "THROWN"
    BY DEF Thrown
  <2> QED BY <2>1, <2>2 DEF Universe
<1>2. x \in {UniverseContract(c, observed[c], plan, underlying, forward(c.expiration)) :
               c \in Requested(plan) \cap DOMAIN observed}
  <2> DEFINE contracts == {UniverseContract(c, observed[c], plan, underlying,
                                            forward(c.expiration)) :
                             c \in Requested(plan) \cap DOMAIN observed}
  <2>1. \/ \E error : done = Thrown(error)
        \/ \E errors, status : done = UniverseResult(plan, contracts, errors, status)
    <3> HIDE DEF underlying, done
    <3> QED BY <1>1 DEF UniverseAround
  <2>2. \A error : Thrown(error).status = "THROWN"
    BY DEF Thrown
  <2>3. \A errors, status : UniverseResult(plan, contracts, errors, status).contracts = contracts
    BY DEF UniverseResult
  <2>4. done.status # "THROWN" /\ x \in done.contracts
    OBVIOUS
  <2> HIDE DEF contracts, done, plan
  <2>5. x \in contracts
    BY <2>1, <2>2, <2>3, <2>4
  <2> QED BY <2>5 DEF contracts, plan
<1>3. PICK c \in DOMAIN observed :
        x = UniverseContract(c, observed[c], plan, underlying, forward(c.expiration))
  BY <1>2
<1>4. SeenKnown(observed)
  <2>1. fetched \subseteq DOMAIN given.results
    BY <1>1 DEF Answered
  <2>2. handed \in SUBSET DOMAIN given.results
    BY <2>1
  <2> HIDE DEF handed
  <2> QED BY <2>2, SeenIsKnown
<1>5. underlying \in KnownCandles(given.underlying.result) /\ IsCandle(underlying)
  BY <1>1, UnderlyingIsKnown
<1> HIDE DEF observed, underlying
<1>6. /\ observed[c] \in KnownCandles(given.results[c]) /\ IsCandle(observed[c])
      /\ c.strike \in Int
  BY <1>4 DEF SeenKnown
<1>7. /\ forward(c.expiration) # None => forward(c.expiration).value \in Int
      /\ forward(c.expiration) # None => ForwardKnown(forward(c.expiration), c.expiration)
  <2> DEFINE parity == Forward(observed, c.expiration, underlying.close, plan)
  <2>1. underlying.close \in Int
    BY <1>5 DEF IsCandle
  <2>2. CASE parity # None
    <3>1. parity.value \in Int /\ ForwardKnown(parity, c.expiration)
      BY <1>4, <2>1, <2>2, ForwardIsKnown
    <3>2. forward(c.expiration) = parity
      BY <2>2 DEF UniverseDeltaForward
    <3> QED BY <3>1, <3>2
  <2>3. CASE parity = None
    <3> DEFINE spot == [value |-> underlying.close, at |-> underlying.availableAt,
                        basis |-> "SPOT_FORWARD_ZERO_CARRY"]
    <3>1. forward(c.expiration) = spot
      BY <2>3 DEF UniverseDeltaForward
    <3>2. spot.value = underlying.close /\ spot.basis # "PUT_CALL_PARITY"
      OBVIOUS
    <3>3. underlying.close \in Closes(given.underlying.result)
      BY <1>5 DEF Closes
    <3> HIDE DEF spot, forward
    <3>4. ForwardKnown(spot, c.expiration)
      BY <3>2, <3>3 DEF ForwardKnown
    <3> QED BY <2>1, <3>1, <3>2, <3>4
  <2> QED BY <2>2, <2>3
<1> DEFINE ahead == forward(c.expiration)
           delta == HistoricalDelta(c, observed[c], ahead)
<1>8. /\ x.contract = c /\ x.price = observed[c].close /\ x.delta = delta
      /\ x.forward = ahead /\ x.underlying = underlying.close
  <2> HIDE DEF ahead
  <2> QED BY <1>3 DEF UniverseContract, ahead
<1> HIDE DEF forward
<1>9. delta # None => ahead # None
  <2> HIDE DEF ahead
  <2> QED BY <1>6, <1>7, DeltaFact DEF ahead
<1> HIDE DEF ahead, delta
<1>10. /\ x.price \in Closes(chain.given.results[c])
       /\ x.underlying \in Closes(chain.given.underlying.result)
  BY <1>5, <1>6, <1>8 DEF Closes
<1> QED BY <1>7, <1>8, <1>9, <1>10 DEF IsKnown, ahead

\* What is reconstructed was known at the instant of the plan.
LEMMA ReconstructedIsKnown ==
  ASSUME StudyInv, NEW x \in Reconstructed
  PROVE  IsKnown(x)
<1>1. /\ chain # None /\ chain.result.status # "THROWN" /\ study \in Studies
      /\ FromPlan(study, chain)
      /\ x \in IF chain.kind = "UNIVERSE" THEN chain.result.contracts
               ELSE ToSet(chain.result.candidates) \ {None}
  BY DEF StudyInv, Reconstructed
<1>2. CASE \E plan \in CandidatePlans(study) : \E given \in ChainAnswers(plan) :
             chain = [kind |-> "CANDIDATES", plan |-> plan, given |-> given,
                      result |-> Reconstruct(plan, given)]
  <2>1. /\ chain.plan \in CandidatePlans(study) /\ chain.given \in ChainAnswers(chain.plan)
        /\ chain.kind = "CANDIDATES" /\ chain.result = Reconstruct(chain.plan, chain.given)
    BY <1>2
  <2>2. /\ IsPlan(chain.plan) /\ \A i \in DOMAIN chain.plan.items : IsItem(chain.plan.items[i])
        /\ IsChain(chain.given) /\ Answered(FetchedForItems, chain.plan, chain.given)
    BY <1>1, <2>1, ChainAssumption
  <2>3. x \in ToSet(Reconstruct(chain.plan, chain.given).candidates) /\ x # None
        /\ Reconstruct(chain.plan, chain.given).status # "THROWN"
    BY <1>1, <2>1
  <2> QED BY <2>2, <2>3, ReconstructIsKnown
<1>3. CASE \E plan \in UniversePlans(study) : \E given \in ChainAnswers(plan) :
             chain = [kind |-> "UNIVERSE", plan |-> plan, given |-> given,
                      result |-> IF ValidUniverse(plan) THEN Universe(plan, given)
                                 ELSE Thrown("INVALID_REQUEST")]
  <2>1. /\ chain.plan \in UniversePlans(study) /\ chain.given \in ChainAnswers(chain.plan)
        /\ chain.kind = "UNIVERSE"
        /\ chain.result = IF ValidUniverse(chain.plan) THEN Universe(chain.plan, chain.given)
                          ELSE Thrown("INVALID_REQUEST")
    BY <1>3
  <2>2. ValidUniverse(chain.plan) /\ chain.result = Universe(chain.plan, chain.given)
    BY <1>1, <2>1 DEF Thrown
  <2>3. /\ IsPlan(chain.plan) /\ IsChain(chain.given)
        /\ Answered(FetchedForUniverse, chain.plan, chain.given)
    BY <1>1, <2>1, <2>2, ChainAssumption
  <2>4. x \in Universe(chain.plan, chain.given).contracts
        /\ Universe(chain.plan, chain.given).status # "THROWN"
    BY <1>1, <2>1, <2>2
  <2> QED BY <2>3, <2>4, UniverseIsKnown
<1> QED BY <1>1, <1>2, <1>3 DEF FromPlan

LEMMA StudyImpliesNoLookahead ==
  ASSUME StudyInv
  PROVE  NoLookahead
<1>1. ASSUME NEW x \in Reconstructed
      PROVE  /\ x.price \in Closes(chain.given.results[x.contract])
             /\ x.underlying \in Closes(chain.given.underlying.result)
             /\ x.delta # None => ForwardKnown(x.forward, x.contract.expiration)
  BY ReconstructedIsKnown DEF IsKnown
<1>2. ASSUME NEW r \in SimulatedRecords, OnQuotes(r), NEW order \in Orders(r),
             Filled(order.phase)
      PROVE  LET o == ShownAt(order.place, order.phase.at)
                 used == IF OnLegs(r) THEN ToSet(o.legs) ELSE {o.native}
             IN  \A q \in used : KnownAt(q, o.at)
  BY <1>2, FillsAreKnown
<1> QED BY <1>1, <1>2 DEF NoLookahead, KnownAt

-----------------------------------------------------------------------------
(* The candles of a leg and the value of a horizon.                         *)

\* What a leg is observed on is an eligible candle, if there is one.
LEMMA CandleAtFact ==
  ASSUME NEW taken, NEW from, IsResult(taken, from), NEW at \in Int
  PROVE  LET known == {candle \in ToSet(taken.candles) : candle.aligned /\ candle.availableAt <= at}
             chosen == CandleAt(taken, at, from)
         IN  (known # {} /\ chosen \in known) \/ (known = {} /\ chosen = None)
<1> DEFINE candles == taken.candles
           eligible == {i \in DOMAIN candles : candles[i].start >= from /\ Usable(candles[i], at)}
           known == {candle \in ToSet(candles) : candle.aligned /\ candle.availableAt <= at}
           keys == [i \in eligible |-> <<-candles[i].availableAt, -i, 0, 0>>]
<1>1. taken # None /\ candles \in Seq(ToSet(candles))
  BY DEF IsResult, IsSequence
<1>2. \A i \in DOMAIN candles : candles[i].availableAt \in Int /\ candles[i].start >= from
  BY DEF IsResult
<1>3. known = {candles[i] : i \in eligible}
  BY <1>2 DEF ToSet, Usable
<1>4. CandleAt(taken, at, from) =
        IF eligible = {} THEN None
        ELSE candles[CHOOSE j \in eligible : \A i \in eligible : LaterCandle(candles, i, j)]
  BY <1>1 DEF CandleAt
<1>5. ASSUME eligible # {}
      PROVE  \E j \in eligible : \A i \in eligible : LaterCandle(candles, i, j)
  <2>1. eligible \in SUBSET (1..Len(candles)) /\ Len(candles) \in Nat
    BY <1>1
  <2>0. \A i \in eligible : keys[i] = <<-candles[i].availableAt, -i, 0, 0>> /\ i \in DOMAIN candles
    OBVIOUS
  <2> HIDE DEF eligible, candles
  <2>2. IsFiniteSet(eligible) /\ eligible \in SUBSET Int
    <3>1. IsFiniteSet(1..Len(candles))
      BY <2>1, FS_Interval
    <3>2. IsFiniteSet(eligible)
      BY <2>1, <3>1, FS_Subset
    <3> QED BY <2>1, <3>2
  <2>3. \A i \in eligible : /\ candles[i].availableAt \in Int /\ i \in Int
                            /\ keys[i] = <<-candles[i].availableAt, -i, 0, 0>>
    BY <1>2, <2>0, <2>2
  <2>4. DOMAIN keys = eligible
    OBVIOUS
  <2> HIDE DEF keys, candles
  <2>5. \A i \in eligible : \A k \in 1..4 : keys[i][k] \in Int
    BY <2>3
  <2>6. PICK j \in eligible : \A i \in eligible : First(keys[j], keys[i])
    BY <1>5, <2>2, <2>4, <2>5, FirstOfFour
  <2>7. ASSUME NEW i \in eligible PROVE LaterCandle(candles, i, j)
    <3>1. /\ ~(-candles[i].availableAt < -candles[j].availableAt)
          /\ -candles[i].availableAt = -candles[j].availableAt => ~(-i < -j)
      BY <2>3, <2>6 DEF First
    <3> QED BY <2>3, <3>1 DEF LaterCandle
  <2> QED BY <2>7
<1> DEFINE j == CHOOSE j \in eligible : \A i \in eligible : LaterCandle(candles, i, j)
<1>6. eligible # {} => j \in eligible
  <2> HIDE DEF eligible
  <2> QED BY <1>5
<1> HIDE DEF eligible, candles, j
<1> QED BY <1>3, <1>4, <1>6 DEF j, candles

\* The resolution that is selected is the first whole batch.
LEMMA SelectedFact ==
  ASSUME NEW at, NEW given, IsAnswer(given, at)
  PROVE  \/ Selected(given) = None /\ WholeBatches(given) = {}
         \/ /\ Selected(given) # None /\ Selected(given) \in DOMAIN given
            /\ given[Selected(given)].kind \in {"PROVIDER_ERROR", "CACHE_ERROR"}
         \/ /\ Selected(given) # None /\ Selected(given) \in WholeBatches(given)
            /\ Selected(given) = Min(WholeBatches(given))
            /\ given[Selected(given)].kind = "BATCH"
<1> DEFINE D == DecisiveAttempts(given)
           W == WholeBatches(given)
<1>0. \A i \in D : given[i].kind \in {"PROVIDER_ERROR", "CACHE_ERROR", "BATCH"}
  BY DEF DecisiveAttempts, Decisive
<1>1. D \in SUBSET DOMAIN given /\ W = {i \in D : given[i].kind = "BATCH"}
  BY DEF DecisiveAttempts, Decisive, SnapshotFailed, WholeBatches, IsWhole, IsAnswer, IsResult
<1>2. D \in SUBSET Int /\ IsFiniteSet(D)
  <2>1. given \in Seq(ToSet(given))
    BY DEF IsAnswer, IsSequence
  <2>2. DOMAIN given = 1..Len(given) /\ Len(given) \in Nat
    BY <2>1
  <2>3. IsFiniteSet(1..Len(given))
    BY <2>2, FS_Interval
  <2> HIDE DEF D
  <2>4. IsFiniteSet(D)
    BY <1>1, <2>2, <2>3, FS_Subset
  <2> QED BY <1>1, <2>2, <2>4
<1>3. Selected(given) = IF D = {} THEN None ELSE Min(D)
  BY DEF Selected
<1> HIDE DEF D, W
<1>4. CASE D = {}
  BY <1>1, <1>3, <1>4 DEF W
<1>5. CASE D # {}
  <2>1. Min(D) \in D /\ \A y \in D : Min(D) <= y
    BY <1>2, <1>5, MinFact
  <2>2. Selected(given) = Min(D) /\ Selected(given) # None
    BY <1>2, <1>3, <1>5, <2>1, PriceAssumption
  <2>3. CASE given[Min(D)].kind = "BATCH"
    <3>1. W \in SUBSET Int /\ IsFiniteSet(W) /\ Min(D) \in W /\ W \subseteq D
      BY <1>1, <1>2, <2>1, <2>3, FS_Subset
    <3>2. Min(W) \in W /\ \A y \in W : Min(W) <= y
      BY <3>1, MinFact
    <3>3. Min(W) = Min(D)
      <4>1. Min(W) <= Min(D) /\ Min(D) <= Min(W)
        BY <2>1, <3>1, <3>2
      <4>2. Min(W) \in Int /\ Min(D) \in Int
        BY <1>2, <2>1, <3>1, <3>2
      <4> QED BY <4>1, <4>2
    <3> QED BY <2>2, <2>3, <3>1, <3>3 DEF W
  <2> QED BY <1>0, <1>1, <2>1, <2>2, <2>3
<1> QED BY <1>4, <1>5

\* The candles of a leg in the results of a batch.
CandlesIn(results, leg, at) ==
  {candle \in ToSet(results[Symbol(leg)].candles) :
     /\ candle.aligned /\ candle.end <= candle.availableAt /\ candle.availableAt <= at
     /\ at - candle.availableAt <= PackageProfile.maxAge}

\* What the code makes of a result that lets a leg be modelled.
LEMMA ModelableFact ==
  ASSUME NEW taken, NEW candle, NEW fresh, NEW misaligned,
         LegFailureReason(taken, candle, fresh, misaligned) \in ModelableReasons
  PROVE  /\ taken # None /\ taken.reasons \subseteq CoverageReasons
         /\ ~(candle = None /\ misaligned) /\ fresh \notin {"STALE", "FRESH"}
<1> DEFINE reason == LegFailureReason(taken, candle, fresh, misaligned)
           failed == taken = None \/ taken.reasons \ CoverageReasons # {} \/ taken.truncated
<1>1. ASSUME failed
      PROVE  reason = "PROVIDER_ERROR"
  BY <1>1 DEF LegFailureReason
<1>2. ~failed
  BY <1>1 DEF ModelableReasons
<1>3. ASSUME candle = None /\ misaligned
      PROVE  reason = "ALIGNMENT_MISMATCH"
  BY <1>2, <1>3 DEF LegFailureReason
<1>4. ASSUME fresh \in {"STALE", "FRESH"}, ~(candle = None /\ misaligned)
      PROVE  reason \in {"STALE_OBSERVATION", None}
  BY <1>2, <1>4 DEF LegFailureReason
<1> HIDE DEF reason
<1>5. reason \in ModelableReasons
  BY DEF reason
<1> QED BY <1>2, <1>3, <1>4, <1>5, PriceAssumption DEF ModelableReasons

\* A leg without a reason is observed on a candle of its own, and one that may
\* be modelled had none, not even one too old or misaligned.
LEMMA LegFact ==
  ASSUME NEW results, NEW leg, NEW at \in Int, NEW from,
         \A symbol \in DOMAIN results :
           IsResult(results[symbol], from) /\ IsWhole(results[symbol])
  PROVE  LET taken == ResultOf(results, leg)
             seen == ObservedLeg(leg, taken, CandleAt(taken, at, from), at,
                                 PackageProfile.maxAge, Misaligned(taken, from))
         IN  /\ seen.reason = None =>
                  /\ seen.freshness = "FRESH"
                  /\ \E candle \in CandlesIn(results, leg, at) :
                       candle.close = seen.value /\ candle.availableAt = seen.availableAt
                       /\ candle.availableAt \in Int
             /\ seen.reason \in ModelableReasons =>
                  /\ taken # None /\ taken.reasons \subseteq CoverageReasons
                  /\ \A candle \in ToSet(taken.candles) : candle.availableAt > at
<1> DEFINE taken == ResultOf(results, leg)
           chosen == CandleAt(taken, at, from)
           fresh == Freshness(taken, chosen, at, PackageProfile.maxAge)
           seen == ObservedLeg(leg, taken, chosen, at, PackageProfile.maxAge,
                               Misaligned(taken, from))
<1>1. /\ seen.freshness = fresh
      /\ seen.reason = LegFailureReason(taken, chosen, fresh, Misaligned(taken, from))
      /\ chosen # None => seen.value = chosen.close /\ seen.availableAt = chosen.availableAt
  BY DEF ObservedLeg
<1> HIDE DEF seen
<1>2. CASE Symbol(leg) \notin DOMAIN results
  <2>1. taken = None
    BY <1>2 DEF ResultOf
  <2>2. seen.reason = "PROVIDER_ERROR"
    BY <1>1, <2>1 DEF LegFailureReason
  <2> QED BY <2>2, PriceAssumption DEF ModelableReasons, seen
<1>3. CASE Symbol(leg) \in DOMAIN results
  <2>1. taken = results[Symbol(leg)] /\ IsResult(taken, from) /\ IsWhole(taken)
    BY <1>3 DEF ResultOf
  <2> HIDE DEF taken, chosen, fresh
  <2> DEFINE known == {candle \in ToSet(taken.candles) :
                         candle.aligned /\ candle.availableAt <= at}
  <2>2. (known # {} /\ chosen \in known) \/ (known = {} /\ chosen = None)
    BY <2>1, CandleAtFact DEF chosen
  <2>3. \A candle \in ToSet(taken.candles) :
          /\ {candle.end, candle.availableAt} \subseteq Int /\ candle.end <= candle.availableAt
          /\ candle # None
    BY <2>1 DEF IsResult, ToSet
  <2>4. CandlesIn(results, leg, at) =
          {candle \in known : at - candle.availableAt <= PackageProfile.maxAge}
    BY <2>1, <2>3 DEF CandlesIn
  <2>5. fresh = IF chosen = None \/ chosen.availableAt > at THEN "MISSING"
                ELSE IF at - chosen.availableAt > PackageProfile.maxAge THEN "STALE" ELSE "FRESH"
    BY <2>1 DEF Freshness, fresh
  <2>6. ASSUME seen.reason = None
        PROVE  fresh = "FRESH"
    BY <1>1, <2>5, <2>6, PriceAssumption DEF LegFailureReason, ModelableReasons
  <2>7. ASSUME seen.reason \in ModelableReasons
        PROVE  /\ taken # None /\ taken.reasons \subseteq CoverageReasons
               /\ fresh = "MISSING" /\ ~(chosen = None /\ Misaligned(taken, from))
    BY <1>1, <2>5, <2>7, ModelableFact
  <2>8. fresh = "FRESH" =>
          /\ chosen # None /\ chosen \in CandlesIn(results, leg, at)
          /\ chosen.availableAt \in Int
    BY <2>2, <2>3, <2>4, <2>5, PackageAssumption
  <2>9. ASSUME fresh = "MISSING", ~(chosen = None /\ Misaligned(taken, from))
        PROVE  \A candle \in ToSet(taken.candles) : candle.availableAt > at
    <3>1. chosen = None /\ known = {}
      BY <2>2, <2>3, <2>5, <2>9
    <3>2. \A i \in DOMAIN taken.candles : taken.candles[i].aligned
      BY <2>1, <2>9, <3>1 DEF Misaligned, IsResult
    <3>3. \A candle \in ToSet(taken.candles) : candle.aligned
      BY <3>2 DEF ToSet
    <3> QED BY <2>3, <3>1, <3>3
  <2> QED BY <1>1, <2>6, <2>7, <2>8, <2>9 DEF taken, chosen, fresh, seen
<1> QED BY <1>2, <1>3

\* What a package says of its legs.
LEMMA PackageFact ==
  ASSUME NEW legs, NEW at \in Int, NEW given, IsAnswer(given, at),
         PackageAtCheckpoint(legs, given, at, PackageProfile).status
           \notin {"PROVIDER_ERROR", "CACHE_ERROR"}
  PROVE  LET package == PackageAtCheckpoint(legs, given, at, PackageProfile)
         IN  /\ DOMAIN package.legs = DOMAIN legs
             /\ \A i \in DOMAIN legs :
                  LET seen == package.legs[i]
                  IN  /\ seen.leg = legs[i]
                      /\ seen.reason = None /\ seen.value # None =>
                           /\ seen.freshness = "FRESH"
                           /\ \E candle \in Candles(given, legs[i], at) :
                                /\ candle.close = seen.value
                                /\ candle.availableAt = seen.availableAt
                                /\ candle.availableAt \in Int
                      /\ seen.reason \in ModelableReasons => NothingSeen(given, legs[i], at)
             /\ (\E i \in DOMAIN legs : TRUE)
                /\ (\A i \in DOMAIN legs : package.legs[i].freshness = "FRESH")
                /\ "ALIGNMENT_MISMATCH" \notin package.reasons
                => ~(SkewOf(package.legs) > PackageProfile.maxSkew)
<1> DEFINE s == Selected(given)
           package == PackageAtCheckpoint(legs, given, at, PackageProfile)
<1>1. package = IF s = None THEN NoPackage(legs, DiagnosticResults(given))
                ELSE IF given[s].kind # "BATCH" THEN [status |-> given[s].kind]
                ELSE PackageFrom(legs, given[s].results, at, PackageProfile.intervals[s],
                                 PackageProfile)
  BY DEF PackageAtCheckpoint
<1> HIDE DEF package
<1>2. CASE s = None /\ WholeBatches(given) = {}
  <2> DEFINE seen(i) == ObservedLeg(legs[i], ResultOf(DiagnosticResults(given), legs[i]), None,
                                    0, 0, FALSE)
  <2>1. package.legs = [i \in DOMAIN legs |-> seen(i)]
    BY <1>1, <1>2 DEF NoPackage
  <2>2. \A i : seen(i).leg = legs[i] /\ seen(i).value = None /\ seen(i).freshness = "MISSING"
    BY DEF ObservedLeg, Freshness
  <2>3. \A i : seen(i).reason \in ModelableReasons => NothingSeen(given, legs[i], at)
    <3> DEFINE taken(i) == ResultOf(DiagnosticResults(given), legs[i])
    <3>1. \A i : \E candle, fresh : seen(i).reason = LegFailureReason(taken(i), candle, fresh, FALSE)
      BY DEF ObservedLeg
    <3> HIDE DEF seen, taken
    <3>2. \A i : seen(i).reason \in ModelableReasons =>
            taken(i) # None /\ taken(i).reasons \subseteq CoverageReasons
      BY <3>1, ModelableFact
    <3>3. \A i : AnswerFor(given, legs[i]) = taken(i)
      BY <1>2 DEF AnswerFor, taken
    <3> QED BY <1>2, <3>2, <3>3 DEF NothingSeen
  <2> HIDE DEF seen
  <2> QED BY <2>1, <2>2, <2>3 DEF package
<1>3. CASE s # None /\ s \in DOMAIN given /\ given[s].kind \in {"PROVIDER_ERROR", "CACHE_ERROR"}
  <2>1. package.status = given[s].kind
    BY <1>1, <1>3
  <2> QED BY <1>3, <2>1 DEF package
<1>4. CASE /\ s # None /\ s \in WholeBatches(given) /\ s = Min(WholeBatches(given))
           /\ given[s].kind = "BATCH"
  <2> DEFINE results == given[s].results
             from == at - Lookback(PackageProfile.maxAge, PackageProfile.intervals[s])
             seen(i) == ObservedLeg(legs[i], ResultOf(results, legs[i]),
                                    CandleAt(ResultOf(results, legs[i]), at, from), at,
                                    PackageProfile.maxAge,
                                    Misaligned(ResultOf(results, legs[i]), from))
             aligned == Alignment(package.legs, PackageProfile.maxSkew)
  <2>1. /\ package.legs = [i \in DOMAIN legs |-> seen(i)]
        /\ Flag(aligned = "MISALIGNED", "ALIGNMENT_MISMATCH") \subseteq package.reasons
    BY <1>1, <1>4 DEF PackageFrom
  <2>2. \A symbol \in DOMAIN results :
          IsResult(results[symbol], from) /\ IsWhole(results[symbol])
    BY <1>4 DEF IsAnswer, WholeBatches
  <2>3. \A i : Candles(given, legs[i], at) = CandlesIn(results, legs[i], at)
    BY <1>4 DEF Candles, CandlesIn, FirstWhole
  <2>7. \A i : AnswerFor(given, legs[i]) = ResultOf(results, legs[i])
    BY <1>4 DEF AnswerFor, FirstWhole
  <2>4. \A i : seen(i).leg = legs[i]
    BY DEF ObservedLeg
  <2> HIDE DEF results, from
  <2>5. \A i : /\ seen(i).reason = None =>
                   /\ seen(i).freshness = "FRESH"
                   /\ \E candle \in CandlesIn(results, legs[i], at) :
                        candle.close = seen(i).value /\ candle.availableAt = seen(i).availableAt
                        /\ candle.availableAt \in Int
               /\ seen(i).reason \in ModelableReasons =>
                    LET taken == ResultOf(results, legs[i])
                    IN  /\ taken # None /\ taken.reasons \subseteq CoverageReasons
                        /\ \A candle \in ToSet(taken.candles) : candle.availableAt > at
    BY <2>2, LegFact
  <2>8. \A i : seen(i).reason \in ModelableReasons => NothingSeen(given, legs[i], at)
    <3> HIDE DEF seen
    <3> QED BY <2>5, <2>7 DEF NothingSeen
  <2> HIDE DEF seen
  <2>6. ASSUME \A i \in DOMAIN legs : package.legs[i].freshness = "FRESH",
               "ALIGNMENT_MISMATCH" \notin package.reasons
        PROVE  ~(SkewOf(package.legs) > PackageProfile.maxSkew)
    <3>1. aligned # "MISALIGNED"
      BY <2>1, <2>6, Zenon DEF Flag
    <3>2. DOMAIN package.legs = DOMAIN legs
      BY <2>1
    <3> QED BY <2>6, <3>1, <3>2 DEF Alignment
  <2> QED BY <2>1, <2>3, <2>4, <2>5, <2>6, <2>8 DEF package
<1> QED BY <1>2, <1>3, <1>4, SelectedFact

\* A leg that has a value is observed without a reason, or modelled for want of
\* a candle on inputs of its checkpoint.
LEMMA ValueLegFact ==
  ASSUME NEW seen, NEW horizon, NEW fallback,
         ValueLeg(seen, horizon, fallback).source # "UNAVAILABLE"
  PROVE  LET leg == ValueLeg(seen, horizon, fallback)
             inputs == fallback.checkpoints[horizon.at]
         IN  /\ ~NotModelable(horizon)
             /\ \/ /\ leg.source = "OBSERVED" /\ leg.value = seen.value
                   /\ seen.reason = None /\ seen.value # None
                \/ /\ leg.source = "MODELED" /\ seen.reason \in ModelableReasons
                   /\ horizon.at \in DOMAIN fallback.checkpoints
                   /\ Symbol(seen.leg) \in DOMAIN inputs.legs
                   /\ leg.inputs = {inputs.underlying, inputs.legs[Symbol(seen.leg)]}
<1>1. \A reason : UnavailableValuationLeg(reason).source = "UNAVAILABLE"
  BY DEF UnavailableValuationLeg, ValuationLeg
<1>2. ~NotModelable(horizon)
  BY <1>1 DEF ValueLeg
<1>3. CASE seen.reason = None /\ seen.value # None
  <2>1. ValueLeg(seen, horizon, fallback) = ObservedValuationLeg(seen)
    BY <1>2, <1>3 DEF ValueLeg
  <2> QED BY <1>2, <1>3, <2>1 DEF ObservedValuationLeg, ValuationLeg
<1>4. CASE ~(seen.reason = None /\ seen.value # None)
  <2> DEFINE inputs == fallback.checkpoints[horizon.at]
             leg == ModeledValuationLeg(seen, horizon.at, inputs, fallback)
  <2>1. /\ seen.reason \in ModelableReasons /\ horizon.at \in DOMAIN fallback.checkpoints
        /\ ValueLeg(seen, horizon, fallback) = leg
    BY <1>1, <1>2, <1>4 DEF ValueLeg
  <2>2. /\ leg.source = "MODELED" /\ Symbol(seen.leg) \in DOMAIN inputs.legs
        /\ leg.inputs = {inputs.underlying, inputs.legs[Symbol(seen.leg)]}
    BY <1>1, <2>1 DEF ModeledValuationLeg, ValuationLeg
  <2> QED BY <1>2, <2>1, <2>2
<1> QED BY <1>3, <1>4

LEMMA HorizonFact ==
  ASSUME NEW c, NEW id, NEW at, NEW package, NEW fallback
  PROVE  LET horizon == Horizon(c, id, at, package)
             h == HorizonResult(c, id, at, package, fallback)
         IN  /\ h.candidate = c.id /\ h.id = id /\ h.at = at
             /\ h.valuation = IF fallback = None THEN None ELSE Valuation(c, horizon, fallback)
             /\ horizon.at = at
             /\ ~NotModelable(horizon) =>
                  /\ package.status \notin {"PROVIDER_ERROR", "CACHE_ERROR"}
                  /\ horizon.legs = package.legs
                  /\ package.reasons \subseteq ModelableReasons
<1> DEFINE horizon == Horizon(c, id, at, package)
           value == IF fallback = None THEN None ELSE Valuation(c, horizon, fallback)
           tail == [valuation |-> value]
<1>1. HorizonResult(c, id, at, package, fallback) = Joined(horizon, tail)
  BY DEF HorizonResult
<1>2. /\ DOMAIN horizon = {"candidate", "family", "id", "at", "status", "reasons", "legs"}
      /\ horizon["candidate"] = c.id /\ horizon["id"] = id /\ horizon["at"] = at
  BY DEF Horizon
<1>3. DOMAIN tail = {"valuation"} /\ tail["valuation"] = value
  OBVIOUS
<1>4. ~NotModelable(horizon) =>
        /\ package.status \notin {"PROVIDER_ERROR", "CACHE_ERROR"}
        /\ horizon.legs = package.legs
        /\ package.reasons \subseteq ModelableReasons
  BY DEF Horizon, NotModelable
<1> HIDE DEF horizon, tail, value
<1>5. /\ Joined(horizon, tail)["candidate"] = c.id /\ Joined(horizon, tail)["id"] = id
      /\ Joined(horizon, tail)["at"] = at /\ Joined(horizon, tail)["valuation"] = value
  BY <1>2, <1>3, JoinedFact
<1> QED BY <1>1, <1>2, <1>4, <1>5 DEF horizon, value

\* What ValuationsHonest says of the value of one horizon.
Honest(h, given, legs) ==
  LET known == [i \in DOMAIN legs |-> Candles(given, legs[i], h.at)]
      backs == [i \in DOMAIN legs |->
                  {candle \in known[i] : candle.close = h.valuation.legs[i].value}]
  IN  /\ \A i \in DOMAIN legs :
           IF h.valuation.legs[i].source = "OBSERVED" THEN backs[i] # {}
           ELSE /\ NothingSeen(given, legs[i], h.at)
                /\ \A input \in h.valuation.legs[i].inputs : input.availableAt <= h.at
      /\ h.valuation.basis = "EXACT_PACKAGE_REFERENCE" => WithinSkew(backs)

LEMMA ValuationFact ==
  ASSUME NEW c, NEW horizon, NEW fallback, Valuation(c, horizon, fallback).status = "AVAILABLE"
  PROVE  LET value == Valuation(c, horizon, fallback)
         IN  /\ \A i \in DOMAIN c.legs :
                  /\ value.legs[i] = ValueLeg(horizon.legs[i], horizon, fallback)
                  /\ value.legs[i].source # "UNAVAILABLE"
             /\ value.basis = "EXACT_PACKAGE_REFERENCE" =>
                  /\ \E i \in DOMAIN c.legs : TRUE
                  /\ \A i \in DOMAIN c.legs : value.legs[i].source = "OBSERVED"
<1> DEFINE legs == [i \in DOMAIN c.legs |-> ValueLeg(horizon.legs[i], horizon, fallback)]
           value == Valuation(c, horizon, fallback)
<1>1. ~\E i \in DOMAIN legs : legs[i].source = "UNAVAILABLE"
  <2>1. NoValuation(legs).status = "NOT_AVAILABLE"
    BY DEF NoValuation
  <2> HIDE DEF legs
  <2> QED BY <2>1 DEF Valuation, legs
<1>2. value.legs = legs /\ value.basis = Basis(legs)
  <2> HIDE DEF legs
  <2> QED BY <1>1 DEF Valuation, legs
<1> HIDE DEF value
<1>3. Basis(legs) = "EXACT_PACKAGE_REFERENCE" =>
        {legs[i].source : i \in DOMAIN legs} = {"OBSERVED"}
  BY DEF Basis
<1> QED BY <1>1, <1>2, <1>3 DEF value

\* Candles within the skew of the legs they are the observations of.
LEMMA PickedFact ==
  ASSUME NEW legs, IsSequence(legs), \E i \in DOMAIN legs : TRUE,
         NEW seen, DOMAIN seen = DOMAIN legs, NEW backs, DOMAIN backs = DOMAIN legs,
         \A i \in DOMAIN legs : \E candle \in backs[i] :
           candle.availableAt = seen[i].availableAt /\ candle.availableAt \in Int,
         ~(SkewOf(seen) > PackageProfile.maxSkew)
  PROVE  WithinSkew(backs)
<1> DEFINE fits(i, candle) == /\ candle \in backs[i]
                              /\ candle.availableAt = seen[i].availableAt
                              /\ candle.availableAt \in Int
           picked == [i \in DOMAIN legs |-> CHOOSE candle : fits(i, candle)]
           times == {seen[i].availableAt : i \in DOMAIN seen}
<1>1. \A i \in DOMAIN legs : fits(i, picked[i])
  OBVIOUS
<1>2. DOMAIN picked = DOMAIN legs
  OBVIOUS
<1>3. picked \in [DOMAIN legs -> UNION {backs[i] : i \in DOMAIN legs}]
  <2> HIDE DEF picked
  <2>1. \A i \in DOMAIN legs : picked[i] \in UNION {backs[k] : k \in DOMAIN legs}
    BY <1>1
  <2>2. picked = [i \in DOMAIN legs |-> picked[i]]
    BY DEF picked
  <2> QED BY <2>1, <2>2
<1> HIDE DEF picked
<1>4. {picked[i].availableAt : i \in DOMAIN legs} = times
  BY <1>1
<1>5. times \in SUBSET Int /\ times # {}
  BY <1>1
<1>6. IsFiniteSet(times)
  <2>1. DOMAIN legs = 1..Len(legs) /\ Len(legs) \in Nat
    BY DEF IsSequence
  <2>2. IsFiniteSet(DOMAIN legs)
    <3>1. IsFiniteSet(1..Len(legs))
      BY <2>1, FS_Interval
    <3> QED BY <2>1, <3>1
  <2> DEFINE at == [i \in DOMAIN legs |-> seen[i].availableAt]
  <2>3. at \in Surjection(DOMAIN legs, times)
    BY DEF Surjection
  <2> HIDE DEF at, times
  <2> QED BY <2>2, <2>3, FS_Surjection
<1>7. SkewOf(seen) = Max(times) - Min(times)
  BY DEF SkewOf
<1> HIDE DEF times
<1>8. Max(times) \in Int /\ Min(times) \in Int
  BY <1>5, <1>6, MinFact, MaxFact
<1>9. Max(times) - Min(times) <= PackageProfile.maxSkew
  BY <1>7, <1>8, PackageAssumption
<1> QED BY <1>1, <1>3, <1>4, <1>9 DEF WithinSkew

LEMMA ValuationIsHonest ==
  ASSUME NEW c, IsSequence(c.legs), NEW id, NEW at \in Int, NEW given, IsAnswer(given, at),
         NEW fallback, NEW dates, NEW candidates, ValidFallback(fallback, dates, candidates),
         NEW h, h = HorizonResult(c, id, at, PackageAtCheckpoint(c.legs, given, at, PackageProfile),
                                  fallback),
         h.valuation # None, h.valuation.status = "AVAILABLE"
  PROVE  Honest(h, given, c.legs)
<1> DEFINE package == PackageAtCheckpoint(c.legs, given, at, PackageProfile)
           horizon == Horizon(c, id, at, package)
           value == Valuation(c, horizon, fallback)
           legs == c.legs
           backs == [i \in DOMAIN legs |-> {candle \in Candles(given, legs[i], at) :
                                             candle.close = value.legs[i].value}]
<1>1. /\ fallback # None /\ h.at = at /\ h.valuation = value /\ horizon.at = at
      /\ ~NotModelable(horizon) =>
           /\ package.status \notin {"PROVIDER_ERROR", "CACHE_ERROR"}
           /\ horizon.legs = package.legs
           /\ package.reasons \subseteq ModelableReasons
  <2>1. h = HorizonResult(c, id, at, package, fallback)
    OBVIOUS
  <2> HIDE DEF package
  <2>2. /\ h.at = at
        /\ h.valuation = IF fallback = None THEN None ELSE Valuation(c, horizon, fallback)
        /\ horizon.at = at
        /\ ~NotModelable(horizon) =>
             /\ package.status \notin {"PROVIDER_ERROR", "CACHE_ERROR"}
             /\ horizon.legs = package.legs
             /\ package.reasons \subseteq ModelableReasons
    BY <2>1, HorizonFact
  <2> HIDE DEF horizon
  <2> QED BY <2>2 DEF value
<1> HIDE DEF horizon, value
<1>2. /\ \A i \in DOMAIN legs :
           /\ value.legs[i] = ValueLeg(horizon.legs[i], horizon, fallback)
           /\ value.legs[i].source # "UNAVAILABLE"
      /\ value.basis = "EXACT_PACKAGE_REFERENCE" =>
           /\ \E i \in DOMAIN legs : TRUE
           /\ \A i \in DOMAIN legs : value.legs[i].source = "OBSERVED"
  BY <1>1, ValuationFact DEF value
<1> HIDE DEF package
<1>3. ASSUME \E i \in DOMAIN legs : TRUE
      PROVE  /\ ~NotModelable(horizon) /\ horizon.legs = package.legs
             /\ package.status \notin {"PROVIDER_ERROR", "CACHE_ERROR"}
             /\ package.reasons \subseteq ModelableReasons
  BY <1>1, <1>2, <1>3, ValueLegFact
<1>4. ASSUME \E i \in DOMAIN legs : TRUE
      PROVE  /\ DOMAIN package.legs = DOMAIN legs
             /\ \A i \in DOMAIN legs :
                  LET seen == package.legs[i]
                  IN  /\ seen.leg = legs[i]
                      /\ seen.reason = None /\ seen.value # None =>
                           /\ seen.freshness = "FRESH"
                           /\ \E candle \in Candles(given, legs[i], at) :
                                /\ candle.close = seen.value
                                /\ candle.availableAt = seen.availableAt
                                /\ candle.availableAt \in Int
                      /\ seen.reason \in ModelableReasons => NothingSeen(given, legs[i], at)
             /\ (\A i \in DOMAIN legs : package.legs[i].freshness = "FRESH")
                /\ "ALIGNMENT_MISMATCH" \notin package.reasons
                => ~(SkewOf(package.legs) > PackageProfile.maxSkew)
  BY <1>3, <1>4, PackageFact DEF package
<1>5. ASSUME NEW i \in DOMAIN legs
      PROVE  LET seen == package.legs[i]
                 inputs == fallback.checkpoints[at]
                 leg == value.legs[i]
             IN  \/ /\ leg.source = "OBSERVED" /\ leg.value = seen.value
                    /\ seen.reason = None /\ seen.value # None
                 \/ /\ leg.source = "MODELED" /\ seen.reason \in ModelableReasons
                    /\ at \in DOMAIN fallback.checkpoints
                    /\ Symbol(seen.leg) \in DOMAIN inputs.legs
                    /\ leg.inputs = {inputs.underlying, inputs.legs[Symbol(seen.leg)]}
  BY <1>1, <1>2, <1>3, <1>5, ValueLegFact
<1>6. ASSUME NEW i \in DOMAIN legs, value.legs[i].source = "OBSERVED"
      PROVE  /\ package.legs[i].freshness = "FRESH"
             /\ \E candle \in backs[i] :
                  /\ candle.availableAt = package.legs[i].availableAt
                  /\ candle.availableAt \in Int
  BY <1>4, <1>5, <1>6
<1>7. ASSUME NEW i \in DOMAIN legs, value.legs[i].source # "OBSERVED"
      PROVE  /\ NothingSeen(given, legs[i], at)
             /\ \A input \in value.legs[i].inputs : input.availableAt <= at
  <2>1. NothingSeen(given, legs[i], at)
    BY <1>4, <1>5, <1>7
  <2>2. \A input \in value.legs[i].inputs : ValidModelSource(input, at, fallback.maxAge)
    <3> DEFINE inputs == fallback.checkpoints[at]
               symbol == Symbol(package.legs[i].leg)
    <3>1. /\ at \in DOMAIN fallback.checkpoints /\ symbol \in DOMAIN inputs.legs
          /\ value.legs[i].inputs = {inputs.underlying, inputs.legs[symbol]}
      BY <1>5, <1>7
    <3>2. /\ ValidModelSource(inputs.underlying, at, fallback.maxAge)
          /\ ValidModelSource(inputs.legs[symbol], at, fallback.maxAge)
      BY <1>1, <3>1 DEF ValidFallback
    <3> QED BY <3>1, <3>2
  <2> QED BY <2>1, <2>2 DEF ValidModelSource
<1>8. ASSUME value.basis = "EXACT_PACKAGE_REFERENCE"
      PROVE  WithinSkew(backs)
  <2>1. (\E i \in DOMAIN legs : TRUE) /\ \A i \in DOMAIN legs : value.legs[i].source = "OBSERVED"
    BY <1>2, <1>8
  <2>2. "ALIGNMENT_MISMATCH" \notin package.reasons
    BY <1>3, <2>1 DEF ModelableReasons
  <2>3. ~(SkewOf(package.legs) > PackageProfile.maxSkew)
    BY <1>4, <1>6, <2>1, <2>2
  <2>4. DOMAIN package.legs = DOMAIN legs
    BY <1>4, <2>1
  <2>7. DOMAIN backs = DOMAIN legs
    OBVIOUS
  <2> HIDE DEF backs
  <2>5. \A i \in DOMAIN legs : \E candle \in backs[i] :
          candle.availableAt = package.legs[i].availableAt /\ candle.availableAt \in Int
    BY <1>6, <2>1
  <2> HIDE DEF legs
  <2>6. IsSequence(legs)
    BY DEF legs
  <2> QED BY <2>1, <2>3, <2>4, <2>5, <2>6, <2>7, PickedFact
<1> DEFINE known == [i \in DOMAIN legs |-> Candles(given, legs[i], h.at)]
<1>9. backs = [i \in DOMAIN legs |->
                 {candle \in known[i] : candle.close = h.valuation.legs[i].value}]
  BY <1>1
<1>10. \A i \in DOMAIN legs :
         IF h.valuation.legs[i].source = "OBSERVED" THEN backs[i] # {}
         ELSE /\ NothingSeen(given, legs[i], h.at)
              /\ \A input \in h.valuation.legs[i].inputs : input.availableAt <= h.at
  BY <1>1, <1>6, <1>7
<1>11. h.valuation.basis = "EXACT_PACKAGE_REFERENCE" => WithinSkew(backs)
  <2> HIDE DEF backs
  <2> QED BY <1>1, <1>8
<1> HIDE DEF backs
<1> QED BY <1>9, <1>10, <1>11 DEF Honest

\* A place of a valid request has an instant on the calendar.
LEMMA CheckpointFact ==
  ASSUME ValidHorizonsRequest, NEW c \in Frozen, NEW id \in DOMAIN HorizonDays
  PROVE  SessionIndex(Sessions, c, id) \in DOMAIN Sessions /\ Checkpoint(Sessions, c, id) \in Int
<1> DEFINE I == {i \in 1..Len(Sessions) : Sessions[i] = c.date}
<1>1. c.date \in ToSet(Sessions) /\ SessionIndex(Sessions, c, id) <= Len(Sessions)
  BY DEF ValidHorizonsRequest, ValidHorizonCandidates
<1>2. Sessions \in Seq(Int) /\ Len(Sessions) \in Nat
  BY PackageAssumption
<1>3. I # {}
  BY <1>1, <1>2 DEF ToSet
<1>4. EntryIndex(Sessions, c) = Min(I)
  BY <1>3 DEF EntryIndex, SelectInSeq
<1>5. I \in SUBSET Int /\ IsFiniteSet(I)
  <2>1. IsFiniteSet(1..Len(Sessions))
    BY <1>2, FS_Interval
  <2>2. IsFiniteSet(I)
    BY <2>1, FS_Subset
  <2> QED BY <2>2
<1>6. Min(I) \in I
  BY <1>3, <1>5, MinFact
<1>7. HorizonDays[id] \in Nat
  BY DEF HorizonDays
<1>8. SessionIndex(Sessions, c, id) \in DOMAIN Sessions
  BY <1>1, <1>2, <1>4, <1>6, <1>7 DEF SessionIndex
<1> QED BY <1>2, <1>8 DEF Checkpoint

LEMMA StudyImpliesHonest ==
  ASSUME StudyInv
  PROVE  ValuationsHonest
<1>1. SUFFICES ASSUME NEW h \in horizons, h.valuation # None, h.valuation.status = "AVAILABLE"
               PROVE  Honest(h, answers[<<h.candidate, h.id>>], CandidateOf(h.candidate).legs)
  BY DEF ValuationsHonest, Honest
<1>2. PICK p \in PlacesOf(study) \cap DOMAIN answers : FromAnswer(h, p, answers[p], study)
  BY DEF StudyInv, HorizonsKept
<1>3. study \in Studies /\ ValidHorizonsRequest
  BY ValidIsForStudy DEF StudyInv, HorizonsKept
<1> DEFINE c == ById(AvailableOf(study), p[1])
           given == answers[p]
           at == Checkpoint(Sessions, c, p[2])
<1>4. /\ given \in Answers(study, c, p[2])
      /\ h = HorizonResult(c, p[2], at, PackageAtCheckpoint(c.legs, given, at, PackageProfile),
                           study.fallback)
  BY <1>2 DEF FromAnswer
<1>5. p = <<p[1], p[2]>> /\ p[1] \in Available(study) /\ p[2] \in DOMAIN HorizonDays
  BY DEF PlacesOf
<1>6. c \in AvailableOf(study) /\ c.id = p[1]
  BY <1>5, ByIdFact DEF Available
<1> HIDE DEF c
<1>7. c \in study.candidates /\ c \in Frozen /\ CandidateOf(p[1]) = c
  BY <1>6, CandidateIsById DEF AvailableOf, Frozen, c
<1>8. SessionIndex(Sessions, c, p[2]) \in DOMAIN Sessions /\ at \in Int
  BY <1>3, <1>5, <1>7, CheckpointFact
<1>9. IsSequence(c.legs) /\ IsAnswer(given, at)
  BY <1>3, <1>4, <1>5, <1>7, <1>8, StudyAssumption, PackageAssumption
<1>10. ValidFallback(study.fallback, Dates, Frozen)
  BY <1>3 DEF ValidHorizonsRequest
<1>11. h.candidate = p[1] /\ h.id = p[2]
  BY <1>4, <1>6, HorizonFact
<1>12. Honest(h, given, c.legs)
  <2> HIDE DEF at, given
  <2> QED BY <1>1, <1>4, <1>8, <1>9, <1>10, ValuationIsHonest
<1> QED BY <1>5, <1>7, <1>11, <1>12

\* No order fills on a quote that could not be known at the instant of the
\* fill, and nothing is reconstructed from a candle that could not be known at
\* the instant of the plan (quoteTimingReasons, completeObservation).
THEOREM NoLookaheadHolds == StudySpec => []NoLookahead
<1>1. StudyInv => NoLookahead
  BY StudyImpliesNoLookahead
<1> QED BY <1>1, StudyInvHolds, PTL

\* An order that fills on the quotes of the legs could have traded at them
\* (syntheticPackageQuote, evaluatePhase).
THEOREM FillsExecutableHolds == StudySpec => []FillsExecutable
<1>1. StudyInv => FillsExecutable
  BY StudyImpliesExecutable
<1> QED BY <1>1, StudyInvHolds, PTL

\* "No fill" is proved by what was shown at every expected instant
\* (evaluatePhase).
THEOREM NoFillIsProved == StudySpec => []NoFillProved
<1>1. StudyInv => NoFillProved
  BY StudyImpliesNoFill
<1> QED BY <1>1, StudyInvHolds, PTL

\* Where a comparable scenario enters, the optimistic one enters, no later,
\* and at the same instant for no more (evaluatePhase, modeledPrice).
THEOREM OptimisticIsTheBest == StudySpec => []OptimisticIsBest
<1>1. StudyInv => OptimisticIsBest
  BY StudyImpliesBest
<1> QED BY <1>1, StudyInvHolds, PTL

\* The value of a package at a horizon rests on candles that were over, fresh
\* and within the skew, or on a model where there was none
\* (getHistoricalOptionPackageAtCheckpoint, valueLeg).
THEOREM ValuationsAreHonest == StudySpec => []ValuationsHonest
<1>1. StudyInv => ValuationsHonest
  BY StudyImpliesHonest
<1> QED BY <1>1, StudyInvHolds, PTL

=============================================================================
