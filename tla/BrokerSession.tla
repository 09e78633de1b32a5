----------------------------- MODULE BrokerSession -----------------------------
(***************************************************************************)
(* lib/tradelocker.js: the broker session of one serverless instance.  Its *)
(* concurrent calls share one cached token and one login in flight.        *)
(*                                                                         *)
(* A tick is 30 seconds.  What runs between two awaits is one step; the    *)
(* broker checks a token when it answers.                                  *)
(***************************************************************************)
EXTENDS Integers, FiniteSets, Sequences

CONSTANTS Callers,       \* concurrent tlFetch calls
          Lifetimes,     \* of the tokens that say when they end, in ticks
          LastTick,      \* how long the instance is watched
          Mishaps        \* how many tokens are revoked and calls fail

ASSUME LifetimesAssumption == Lifetimes \subseteq Nat \ {0}
ASSUME LastTickAssumption == LastTick \in Nat /\ Mishaps \in Nat

VARIABLES clock,
          tokens,        \* the logins asked for so far, each with its token
          session,       \* brokerSession: which token, and until when it is used
          flight,        \* loginFlight: the login that is awaited, or 0
          call,          \* the tlFetch each caller is in
          mishaps

sessionVars == <<clock, tokens, session, flight, call, mishaps>>

Methods == {"GET", "POST"}
NoSession == [token |-> 0, until |-> 0]
NoCall == [at |-> "idle", method |-> "GET", token |-> 0, sent |-> 0, sends |-> 0]

\* 30 seconds, 60 seconds and 300 seconds in ticks, and the ticks that a call of
\* at most 18 seconds can be answered after.
Margin == 1
UnknownLife == 2
LongestLife == 10
Timeout == 1

Smaller(a, b) == IF a < b THEN a ELSE b
Larger(a, b) == IF a > b THEN a ELSE b

\* Variant of sessionExpiry: a token is used up to its last second.
WithoutMargin(life, known) == clock + Smaller(LongestLife, IF known THEN life ELSE UnknownLife)

sessionExpiry(life, known) ==
  clock + Smaller(LongestLife, IF known THEN Larger(0, life - Margin) ELSE UnknownLife)

Good(t) == ~tokens[t].revoked /\ clock < tokens[t].ends
Cached == session.token # 0 /\ session.until > clock
Waiting(c) == call[c].at \in {"login", "relogin"}
Requested(c) == call[c].at \in {"request", "resend"}

\* A login that is asked for; since when matters only as long as it is awaited.
Pending == [state |-> "asked", since |-> clock, life |-> 0, ends |-> 0, known |-> FALSE, revoked |-> FALSE]

\* The call gets its token and sends its request.
Send(record, token) ==
  [at |-> IF record.at = "relogin" THEN "resend" ELSE "request", method |-> record.method,
   token |-> token, sent |-> clock, sends |-> record.sends + 1]

\* Variant of JoinOrAsk: every call that needs a token asks for one of its own.
AlwaysAsk == FALSE

\* login joins the login in flight before it asks for one.
JoinOrAsk == flight # 0

\* login, where the cache does not answer: join the flight or start one.  Who joins
\* a login that has failed fails with it.
Await(c, record) ==
  IF JoinOrAsk
  THEN /\ call' = [call EXCEPT ![c] = IF tokens[flight].state = "failed" THEN NoCall
                                      ELSE [record EXCEPT !.token = flight]]
       /\ UNCHANGED <<tokens, flight>>
  ELSE /\ call' = [call EXCEPT ![c] = [record EXCEPT !.token = Len(tokens) + 1]]
       /\ tokens' = Append(tokens, Pending)
       /\ flight' = Len(tokens) + 1

\* tlFetch begins.
Start(c, method) ==
  LET begun == [NoCall EXCEPT !.method = method, !.at = "login"]
  IN /\ call[c].at = "idle"
     /\ IF Cached
        THEN call' = [call EXCEPT ![c] = Send(begun, session.token)] /\ UNCHANGED <<tokens, flight>>
        ELSE Await(c, begun)
     /\ UNCHANGED <<clock, session, mishaps>>

\* The broker grants a token: the session takes it, and every call that awaits
\* this login sends its request with it.
LoginGranted(l, life, known) ==
  /\ tokens[l].state = "asked"
  /\ tokens' = [tokens EXCEPT ![l].state = "granted", ![l].life = life, ![l].ends = clock + life,
                            ![l].known = known, ![l].since = 0]
  /\ session' = [token |-> l, until |-> sessionExpiry(life, known)]
  /\ flight' = IF flight = l THEN 0 ELSE flight
  /\ call' = [c \in Callers |-> IF Waiting(c) /\ call[c].token = l THEN Send(call[c], l) ELSE call[c]]
  /\ UNCHANGED <<clock, mishaps>>

\* Variant of Cleared: a login that fails stays in flight.
KeptFlight(l) == flight

Cleared(l) == IF flight = l THEN 0 ELSE flight

\* The login is refused, times out or answers nonsense: so do the calls.
LoginFails(l) ==
  /\ tokens[l].state = "asked"
  /\ mishaps < Mishaps
  /\ mishaps' = mishaps + 1
  /\ tokens' = [tokens EXCEPT ![l].state = "failed", ![l].since = 0]
  /\ flight' = Cleared(l)
  /\ call' = [c \in Callers |-> IF Waiting(c) /\ call[c].token = l THEN NoCall ELSE call[c]]
  /\ UNCHANGED <<clock, session>>

\* The broker accepts the token: the call returns.
Answered(c) ==
  /\ Requested(c)
  /\ Good(call[c].token)
  /\ call' = [call EXCEPT ![c] = NoCall]
  /\ UNCHANGED <<clock, tokens, session, flight, mishaps>>

\* Variant of Retries: the order is sent again as well.
RetriesAll(c) == call[c].at = "request"

\* Only a read is sent again, and once.
Retries(c) == call[c].at = "request" /\ call[c].method = "GET"

\* 401: the first one drops the session if it is the one refused, and a forced login
\* drops it in any case unless a login is in flight.  A read that is refused again
\* fails, and leaves the token it was refused in the session.
Refused(c) ==
  LET own == call[c].at = "request" /\ session.token = call[c].token
      forced == Retries(c) /\ ~JoinOrAsk
  IN /\ Requested(c)
     /\ ~Good(call[c].token)
     /\ session' = IF forced \/ own THEN NoSession ELSE session
     /\ IF Retries(c)
        THEN Await(c, [call[c] EXCEPT !.at = "relogin"])
        ELSE call' = [call EXCEPT ![c] = NoCall] /\ UNCHANGED <<tokens, flight>>
     /\ UNCHANGED <<clock, mishaps>>

\* The call times out or answers with another error.
CallFails(c) ==
  /\ Requested(c)
  /\ mishaps < Mishaps
  /\ mishaps' = mishaps + 1
  /\ call' = [call EXCEPT ![c] = NoCall]
  /\ UNCHANGED <<clock, tokens, session, flight>>

\* The broker withdraws a token, for a login elsewhere or at its own discretion.
Revoke(t) ==
  /\ tokens[t].state = "granted" /\ ~tokens[t].revoked
  /\ mishaps < Mishaps
  /\ mishaps' = mishaps + 1
  /\ tokens' = [tokens EXCEPT ![t].revoked = TRUE]
  /\ UNCHANGED <<clock, session, flight, call>>

\* Time passes; nobody waits longer than the 18 seconds of AbortSignal.timeout.
Tick ==
  /\ clock < LastTick
  /\ \A c \in Callers : Requested(c) => clock < call[c].sent + Timeout
  /\ \A l \in DOMAIN tokens : tokens[l].state = "asked" => clock < tokens[l].since + Timeout
  /\ clock' = clock + 1
  /\ UNCHANGED <<tokens, session, flight, call, mishaps>>

SessionInit ==
  /\ clock = 0
  /\ tokens = <<>>
  /\ session = NoSession
  /\ flight = 0
  /\ call = [c \in Callers |-> NoCall]
  /\ mishaps = 0

BrokerAnswers ==
  \/ \E l \in DOMAIN tokens : \E life \in Lifetimes, known \in BOOLEAN : LoginGranted(l, life, known)
  \/ \E c \in Callers : Answered(c) \/ Refused(c)

SessionNext ==
  \/ BrokerAnswers
  \/ \E c \in Callers : \E method \in Methods : Start(c, method)
  \/ \E c \in Callers : CallFails(c)
  \/ \E l \in DOMAIN tokens : LoginFails(l) \/ Revoke(l)
  \/ Tick

SessionSpec == SessionInit /\ [][SessionNext]_sessionVars

SessionFairness ==
  /\ WF_sessionVars(BrokerAnswers)
  /\ \A c \in Callers : WF_sessionVars(\E method \in Methods : Start(c, method))

(***************************************************************************)
(* Properties.                                                             *)
(***************************************************************************)

\* The session and the calls name tokens that were asked for.
SessionTypeOK ==
  LET Asked == 0..Len(tokens)
  IN /\ clock \in 0..LastTick
     /\ mishaps \in 0..Mishaps
     /\ flight \in Asked
     /\ session.token \in Asked /\ session.until \in 0..(LastTick + LongestLife)
     /\ session.token # 0 => tokens[session.token].state = "granted"
     /\ \A c \in Callers :
          /\ call[c].at \in {"idle", "login", "request", "relogin", "resend"}
          /\ call[c].token \in Asked /\ call[c].sent \in 0..clock
          /\ (Waiting(c) => tokens[call[c].token].state = "asked")
          /\ (Requested(c) => tokens[call[c].token].state = "granted")

\* However many calls need a token at once, and whichever of them were refused
\* theirs, the instance has one login at the broker; and a token that says when it
\* ends, and was granted for longer than a call may take, does not run out under a
\* call, even one answered at the last moment of its timeout after the token came
\* from the cache (tradelocker.js:20-58).
OneLoginThatLasts ==
  /\ Cardinality({l \in DOMAIN tokens : tokens[l].state = "asked"}) <= 1
  /\ \A c \in Callers : Requested(c) =>
       LET t == tokens[call[c].token]
       IN t.known /\ t.life > Timeout => clock < t.ends

\* Whatever tokens are refused, one call sends at most one order.
OrderSentOnce == \A c \in Callers : call[c].method = "POST" => call[c].sends <= 1

\* One login at a time is asked for and its token outlives the calls it is given to; a call
\* that places an order is sent once, whatever is answered (tradelocker.js:12-92).
OneLoginOneOrder == OneLoginThatLasts /\ OrderSentOnce

\* While calls keep coming and the broker answers, some call goes out under a token
\* that is good: no failed login stays in flight, and no refused token in the cache.
ServiceRecovers ==
  (\E c \in Callers : call[c].at # "idle") ~> (\E c \in Callers : Requested(c) /\ Good(call[c].token))
================================================================================
