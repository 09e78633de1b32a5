--------------------------- MODULE Services_proofs -----------------------------
(***************************************************************************)
(* Proofs about services that share no state: the broker session, the dry  *)
(* run of a scalp entry, and the trade journal.                            *)
(***************************************************************************)
EXTENDS MCServices, SequenceTheorems, FiniteSetTheorems, WellFoundedInduction, TLAPS

--------------------------------------------------------------------------------
(***************************************************************************)
(* The broker session, for any number of callers, any lives of the tokens  *)
(* and any number of mishaps.  A login that is asked for is the one in     *)
(* flight (OneFlight); a token is taken from the cache only while it has a *)
(* call's time left (SessionOK), which the call then lives off (CallOK).   *)
(***************************************************************************)

Token == [state : {"asked", "granted", "failed"}, since : Nat, life : Nat, ends : Nat,
          known : BOOLEAN, revoked : BOOLEAN]
Call == [at : {"idle", "login", "request", "relogin", "resend"}, method : Methods,
         token : Nat, sent : Nat, sends : Nat]

Typed ==
  /\ clock \in Nat
  /\ tokens \in Seq(Token)
  /\ session \in [token : 0..Len(tokens), until : Int]
  /\ flight \in 0..Len(tokens)
  /\ call \in [Callers -> Call]
  /\ mishaps \in Nat

\* The login in flight is the only one that is asked for.
OneFlight ==
  /\ \A l \in DOMAIN tokens : tokens[l].state = "asked" => flight = l
  /\ flight # 0 => tokens[flight].state = "asked"

\* The cache has a token that was granted, and uses it no longer than the margin before
\* its end, or not any more.
UsedInTime(until, token, now) == token.known => until <= token.ends - Margin \/ until <= now

SessionOK ==
  session.token # 0 =>
    /\ tokens[session.token].state = "granted"
    /\ UsedInTime(session.until, tokens[session.token], clock)

\* A call that waits has a login that is asked for; a call that is out has a token that was
\* granted, and whose end, where it is known and not too near, is after the call's timeout.
CallOK(c) ==
  LET t == tokens[call[c].token]
  IN /\ Waiting(c) => call[c].token \in DOMAIN tokens /\ t.state = "asked"
     /\ Requested(c) =>
          /\ call[c].token \in DOMAIN tokens /\ t.state = "granted"
          /\ clock <= call[c].sent + Timeout
          /\ t.known /\ t.life > Timeout => call[c].sent + Timeout < t.ends
     /\ call[c].method = "POST" => call[c].at \notin {"relogin", "resend"}
     /\ call[c].at = "login" => call[c].sends = 0
     /\ call[c].at = "request" => call[c].sends = 1
     /\ call[c].at = "idle" => call[c].sends = 0

SessionInv == Typed /\ OneFlight /\ SessionOK /\ \A c \in Callers : CallOK(c)

\* Records of the two kinds, and what they consist of.
LEMMA Records ==
  /\ NoCall \in Call /\ NoCall.at = "idle" /\ NoCall.sends = 0
  /\ \A method \in Methods : [NoCall EXCEPT !.method = method, !.at = "login"] \in Call
  /\ \A record \in Call, n \in Nat : [record EXCEPT !.token = n] \in Call
  /\ clock \in Nat => Pending \in Token /\ Pending.state = "asked"
  BY DEF Call, NoCall, Methods, Token, Pending

LEMMA CallParts ==
  ASSUME NEW record \in Call
  PROVE  /\ record.at \in {"idle", "login", "request", "relogin", "resend"}
         /\ record.method \in Methods /\ record.token \in Nat /\ record.sent \in Nat /\ record.sends \in Nat
         /\ record = [at |-> record.at, method |-> record.method, token |-> record.token,
                      sent |-> record.sent, sends |-> record.sends]
  BY DEF Call

LEMMA TokenParts ==
  ASSUME tokens \in Seq(Token), NEW l \in DOMAIN tokens
  PROVE  /\ tokens[l] \in Token
         /\ tokens[l].state \in {"asked", "granted", "failed"} /\ tokens[l].ends \in Nat /\ tokens[l].life \in Nat
<1>1. tokens[l] \in Token
  OBVIOUS
<1> QED BY <1>1 DEF Token

LEMMA SendParts ==
  ASSUME NEW record \in Call, record.at \in {"login", "relogin"}, NEW token \in Nat, clock \in Nat
  PROVE  /\ Send(record, token) \in Call
         /\ Send(record, token).at = IF record.at = "relogin" THEN "resend" ELSE "request"
         /\ Send(record, token).token = token /\ Send(record, token).sent = clock
         /\ Send(record, token).sends = record.sends + 1 /\ Send(record, token).method = record.method
  BY DEF Send, Call

\* The initial state: nobody has asked for anything.
LEMMA InitHolds == SessionInit => SessionInv
<1> SUFFICES ASSUME SessionInit PROVE SessionInv
  OBVIOUS
<1>1. /\ clock = 0 /\ flight = 0 /\ mishaps = 0 /\ tokens = <<>> /\ Len(tokens) = 0
      /\ \A c \in Callers : call[c] = NoCall
  BY DEF SessionInit
<1>2. session \in [token : 0..0, until : Int] /\ session.token = 0
  BY DEF SessionInit, NoSession
<1>3. call \in [Callers -> Call]
  BY Records DEF SessionInit
<1>4. Typed
  BY <1>1, <1>2, <1>3 DEF Typed
<1>5. OneFlight /\ SessionOK
  BY <1>1, <1>2 DEF OneFlight, SessionOK
<1>6. \A c \in Callers : CallOK(c)
  BY <1>1, Records DEF CallOK, Waiting, Requested
<1> QED BY <1>4, <1>5, <1>6 DEF SessionInv

\* What is said of a call stays as long as the call, the clock and the tokens do.
LEMMA OthersKeep ==
  ASSUME NEW d \in Callers, CallOK(d), call'[d] = call[d], clock' = clock,
         \A l \in DOMAIN tokens : l \in DOMAIN tokens' /\ tokens'[l] = tokens[l]
  PROVE  CallOK(d)'
  BY DEF CallOK, Waiting, Requested

\* A call that awaits a token joins the login in flight or asks for one, whether or not it
\* has dropped the session.
LEMMA AwaitKeeps ==
  ASSUME SessionInv, NEW c \in Callers, NEW record \in Call, Await(c, record),
         \/ record.at = "login" /\ record.sends = 0
         \/ record.at = "relogin" /\ record.method = "GET",
         session' = session \/ session' = NoSession, UNCHANGED <<clock, mishaps>>
  PROVE  SessionInv'
<1> USE DEF SessionInv
<1>n. /\ NoSession \in [token : 0..Len(tokens), until : Int] /\ NoSession.token = 0
      /\ session \in [token : 0..Len(tokens), until : Int] /\ Len(tokens) \in Nat
  BY DEF NoSession, Typed
<1>r. /\ \A n \in Nat : [record EXCEPT !.token = n] \in Call
      /\ \A n \in Nat : /\ [record EXCEPT !.token = n].token = n /\ [record EXCEPT !.token = n].at = record.at
                       /\ [record EXCEPT !.token = n].method = record.method
                       /\ [record EXCEPT !.token = n].sends = record.sends
  BY Records, CallParts
<1>1. CASE JoinOrAsk
  <2>1. flight # 0 /\ flight \in DOMAIN tokens /\ tokens[flight].state = "asked"
    BY <1>1 DEF JoinOrAsk, OneFlight, Typed
  <2>2. UNCHANGED <<tokens, flight>> /\ call' = [call EXCEPT ![c] = [record EXCEPT !.token = flight]]
    BY <1>1, <2>1 DEF Await
  <2>3. Typed'
    BY <2>2, <1>n, <1>r DEF Typed
  <2>4. OneFlight' /\ SessionOK'
    BY <2>2, <1>n DEF OneFlight, SessionOK
  <2>5. CallOK(c)'
    BY <2>1, <2>2, <1>r DEF CallOK, Waiting, Requested, Typed
  <2>6. ASSUME NEW d \in Callers, d # c PROVE CallOK(d)'
    BY <2>2, <2>6, OthersKeep DEF Typed
  <2> QED BY <2>3, <2>4, <2>5, <2>6
<1>2. CASE ~ JoinOrAsk
  <2> DEFINE n == Len(tokens) + 1
  <2>1. flight = 0 /\ \A l \in DOMAIN tokens : tokens[l].state # "asked"
    BY <1>2 DEF JoinOrAsk, OneFlight, Typed
  <2>2. /\ call' = [call EXCEPT ![c] = [record EXCEPT !.token = n]]
        /\ tokens' = Append(tokens, Pending) /\ flight' = n
    BY <1>2 DEF Await
  <2>3. Pending \in Token /\ Pending.state = "asked"
    BY Records DEF Typed
  <2>4. /\ Len(tokens') = n /\ tokens'[n] = Pending
        /\ \A l \in DOMAIN tokens : l \in DOMAIN tokens' /\ tokens'[l] = tokens[l]
        /\ DOMAIN tokens' = 1..n
    BY <2>2, <2>3 DEF Typed
  <2>5. Typed'
    BY <2>2, <2>3, <2>4, <1>n, <1>r DEF Typed
  <2>6. OneFlight'
    BY <2>1, <2>2, <2>3, <2>4 DEF OneFlight, Typed
  <2>7. SessionOK'
    BY <2>4, <1>n DEF SessionOK
  <2>8. CallOK(c)'
    BY <2>2, <2>3, <2>4, <1>n, <1>r DEF CallOK, Waiting, Requested, Typed
  <2>9. ASSUME NEW d \in Callers, d # c PROVE CallOK(d)'
    BY <2>2, <2>4, <2>9, OthersKeep DEF Typed
  <2> QED BY <2>5, <2>6, <2>7, <2>8, <2>9
<1> QED BY <1>1, <1>2

\* A call that begins takes the cached token or awaits one.
LEMMA StartKeeps ==
  ASSUME SessionInv, NEW c \in Callers, NEW method \in Methods, Start(c, method)
  PROVE  SessionInv'
<1> DEFINE begun == [NoCall EXCEPT !.method = method, !.at = "login"]
<1>1. begun \in Call /\ begun.at = "login" /\ begun.sends = 0
  BY Records DEF NoCall
<1> HIDE DEF begun
<1>2. CASE Cached
  <2> USE DEF SessionInv
  <2>1. /\ UNCHANGED <<tokens, flight, clock, session, mishaps>>
        /\ call' = [call EXCEPT ![c] = Send(begun, session.token)]
    BY <1>2 DEF Start, begun
  <2>2. session.token \in Nat /\ clock \in Nat
    BY DEF Typed
  <2>3. /\ Send(begun, session.token) \in Call /\ Send(begun, session.token).at = "request"
        /\ Send(begun, session.token).token = session.token /\ Send(begun, session.token).sent = clock
        /\ Send(begun, session.token).sends = 1
    BY <1>1, <2>2, SendParts
  <2>4. Typed' /\ OneFlight' /\ SessionOK'
    BY <2>1, <2>3 DEF Typed, OneFlight, SessionOK
  <2>5. CallOK(c)'
    <3>1. /\ session.token \in DOMAIN tokens /\ session.until > clock
          /\ tokens[session.token].state = "granted"
          /\ tokens[session.token].known => session.until <= tokens[session.token].ends - Margin
      BY <1>2 DEF Cached, SessionOK, UsedInTime, Typed, Margin
    <3>2. tokens[session.token].ends \in Nat
      BY <3>1, TokenParts DEF Typed
    <3>3. call'[c] = Send(begun, session.token)
      BY <2>1 DEF Typed
    <3>4. session.until \in Int
      BY DEF Typed
    <3> QED BY <2>1, <2>2, <2>3, <3>1, <3>2, <3>3, <3>4 DEF CallOK, Waiting, Requested, Margin, Timeout
  <2>6. ASSUME NEW d \in Callers, d # c PROVE CallOK(d)'
    BY <2>1, <2>6, OthersKeep DEF Typed
  <2> QED BY <2>4, <2>5, <2>6
<1>3. CASE ~ Cached
  <2>1. Await(c, begun) /\ UNCHANGED <<clock, session, mishaps>>
    BY <1>3 DEF Start, begun
  <2> QED BY <1>1, <2>1, AwaitKeeps
<1> QED BY <1>2, <1>3

\* sessionExpiry leaves the margin, or nothing.
LEMMA UsedUntilMargin ==
  ASSUME NEW token, NEW life \in Nat, NEW known \in BOOLEAN, clock \in Nat,
         token.known = known, token.ends = clock + life
  PROVE  UsedInTime(sessionExpiry(life, known), token, clock)
<1>1. CASE known
  <2>1. sessionExpiry(life, known) = clock + Smaller(LongestLife, Larger(0, life - Margin))
    BY <1>1 DEF sessionExpiry
  <2>2. sessionExpiry(life, known) <= (clock + life) - Margin \/ sessionExpiry(life, known) <= clock
    BY <2>1 DEF Smaller, Larger, Margin, LongestLife
  <2>3. token.ends - Margin = (clock + life) - Margin
    BY Zenon
  <2> QED BY <2>2, <2>3, Zenon DEF UsedInTime
<1>2. CASE ~ known
  BY <1>2, Zenon DEF UsedInTime
<1> QED BY <1>1, <1>2

\* The granted token has its whole life before it, and whoever waited for it sends.
LEMMA LoginGrantedKeeps ==
  ASSUME SessionInv, NEW l \in DOMAIN tokens, NEW life \in Lifetimes, NEW known \in BOOLEAN,
         LoginGranted(l, life, known)
  PROVE  SessionInv'
<1> USE DEF SessionInv
<1>1. /\ life \in Nat /\ clock \in Nat /\ clock' = clock /\ mishaps' = mishaps /\ l \in Nat /\ l # 0
      /\ tokens[l].state = "asked" /\ flight = l /\ flight' = 0
  BY LifetimesAssumption DEF LoginGranted, Typed, OneFlight
<1> DEFINE granted == [tokens[l] EXCEPT !.state = "granted", !.life = life, !.ends = clock + life, !.known = known,
                                          !.since = 0]
<1>2. /\ granted \in Token /\ granted.state = "granted" /\ granted.life = life /\ granted.ends = clock + life
      /\ granted.known = known
  <2>1. tokens[l] \in Token /\ clock + life \in Nat
    BY <1>1 DEF Typed
  <2>2. granted.state = "granted" /\ granted.life = life /\ granted.known = known
    BY <2>1 DEF Token
  <2>3. granted.ends = clock + life
    BY <2>1 DEF Token
  <2>4. granted \in Token
    BY <1>1, <2>1 DEF Token
  <2> QED BY <2>2, <2>3, <2>4
<1>3. tokens' = [tokens EXCEPT ![l] = granted]
  BY DEF LoginGranted
<1> HIDE DEF granted
<1>4. /\ tokens' \in Seq(Token) /\ Len(tokens') = Len(tokens) /\ tokens'[l] = granted
      /\ \A k \in DOMAIN tokens : k \in DOMAIN tokens' /\ (k # l => tokens'[k] = tokens[k])
      /\ DOMAIN tokens' = DOMAIN tokens
  BY <1>2, <1>3 DEF Typed
<1>5. /\ session' = [token |-> l, until |-> sessionExpiry(life, known)]
      /\ sessionExpiry(life, known) \in Int
  BY <1>1 DEF LoginGranted, sessionExpiry, Smaller, Larger, Margin, UnknownLife, LongestLife
<1>6. \A c \in Callers : call'[c] = IF Waiting(c) /\ call[c].token = l THEN Send(call[c], l) ELSE call[c]
  BY DEF LoginGranted
<1>7. ASSUME NEW c \in Callers
      PROVE  call'[c] \in Call /\ CallOK(c)'
  <2>0. call[c] \in Call
    BY DEF Typed
  <2>1. CASE Waiting(c) /\ call[c].token = l
    <3>1. /\ call'[c] = Send(call[c], l) /\ Send(call[c], l) \in Call
          /\ Send(call[c], l).at = (IF call[c].at = "relogin" THEN "resend" ELSE "request")
          /\ Send(call[c], l).token = l /\ Send(call[c], l).sent = clock
          /\ Send(call[c], l).sends = call[c].sends + 1 /\ Send(call[c], l).method = call[c].method
      BY <1>1, <1>6, <2>0, <2>1, SendParts DEF Waiting
    <3> QED BY <1>1, <1>2, <1>4, <2>1, <3>1 DEF CallOK, Waiting, Requested, Timeout
  <2>2. CASE ~ (Waiting(c) /\ call[c].token = l)
    <3>1. call'[c] = call[c]
      BY <1>6, <2>2
    <3> QED BY <1>1, <1>4, <2>0, <2>2, <3>1 DEF CallOK, Waiting, Requested
  <2> QED BY <2>1, <2>2
<1>8. Typed'
  <2>1. call' = [c \in Callers |-> call'[c]]
    BY DEF LoginGranted
  <2> QED BY <1>1, <1>4, <1>5, <1>7, <2>1 DEF Typed
<1>9. OneFlight'
  BY <1>1, <1>2, <1>4 DEF OneFlight
<1>10. SessionOK'
  <2>1. session'.token = l /\ session'.until = sessionExpiry(life, known)
    BY <1>5
  <2>2. UsedInTime(sessionExpiry(life, known), granted, clock)
    BY <1>1, <1>2, UsedUntilMargin
  <2> QED BY <1>1, <1>2, <1>4, <2>1, <2>2 DEF SessionOK
<1> QED BY <1>7, <1>8, <1>9, <1>10

\* A login that fails is in flight no longer, and nobody waits for it.
LEMMA LoginFailsKeeps ==
  ASSUME SessionInv, NEW l \in DOMAIN tokens, LoginFails(l)
  PROVE  SessionInv'
<1> USE DEF SessionInv
<1>1. /\ UNCHANGED <<clock, session>> /\ mishaps' = mishaps + 1 /\ l \in Nat /\ l # 0
      /\ tokens[l].state = "asked" /\ flight = l /\ flight' = 0
  BY DEF LoginFails, Cleared, Typed, OneFlight
<1> DEFINE refused == [tokens[l] EXCEPT !.state = "failed", !.since = 0]
<1>2. refused \in Token /\ refused.state = "failed"
  <2>1. tokens[l] \in Token
    BY DEF Typed
  <2> QED BY <2>1 DEF Token
<1>3. tokens' = [tokens EXCEPT ![l] = refused]
  BY DEF LoginFails
<1> HIDE DEF refused
<1>4. /\ tokens' \in Seq(Token) /\ Len(tokens') = Len(tokens) /\ tokens'[l] = refused
      /\ \A k \in DOMAIN tokens : k \in DOMAIN tokens' /\ (k # l => tokens'[k] = tokens[k])
      /\ DOMAIN tokens' = DOMAIN tokens
  BY <1>2, <1>3 DEF Typed
<1>5. \A c \in Callers : call'[c] = IF Waiting(c) /\ call[c].token = l THEN NoCall ELSE call[c]
  BY DEF LoginFails
<1>6. ASSUME NEW c \in Callers
      PROVE  call'[c] \in Call /\ CallOK(c)'
  <2>1. CASE Waiting(c) /\ call[c].token = l
    BY <1>1, <1>5, <2>1, Records DEF CallOK, Waiting, Requested
  <2>2. CASE ~ (Waiting(c) /\ call[c].token = l)
    <3>1. call'[c] = call[c] /\ call[c] \in Call
      BY <1>5, <2>2 DEF Typed
    <3> QED BY <1>1, <1>4, <2>2, <3>1 DEF CallOK, Waiting, Requested
  <2> QED BY <2>1, <2>2
<1>7. Typed'
  <2>1. call' = [c \in Callers |-> call'[c]]
    BY DEF LoginFails
  <2> QED BY <1>1, <1>4, <1>6, <2>1 DEF Typed
<1>8. OneFlight'
  BY <1>1, <1>2, <1>4 DEF OneFlight
<1>9. SessionOK'
  BY <1>1, <1>4 DEF SessionOK, Typed
<1> QED BY <1>6, <1>7, <1>8, <1>9

\* A call that returns, by whatever answer, asks for nothing any more.
LEMMA ReturnKeeps ==
  ASSUME SessionInv, NEW c \in Callers, call' = [call EXCEPT ![c] = NoCall],
         session' = session \/ session' = NoSession, mishaps' \in Nat, UNCHANGED <<clock, tokens, flight>>
  PROVE  SessionInv'
<1> USE DEF SessionInv
<1>1. NoSession \in [token : 0..Len(tokens), until : Int] /\ NoSession.token = 0
  BY DEF NoSession, Typed
<1>2. Typed'
  BY <1>1, Records DEF Typed
<1>3. OneFlight' /\ SessionOK'
  BY <1>1 DEF OneFlight, SessionOK
<1>4. ASSUME NEW d \in Callers PROVE CallOK(d)'
  <2>1. CASE d = c
    BY <2>1, Records DEF CallOK, Waiting, Requested, Typed
  <2>2. CASE d # c
    BY <2>2, OthersKeep DEF Typed
  <2> QED BY <2>1, <2>2
<1> QED BY <1>2, <1>3, <1>4

\* A refused call returns, or a read begins its one retry.
LEMMA RefusedKeeps ==
  ASSUME SessionInv, NEW c \in Callers, Refused(c)
  PROVE  SessionInv'
<1>1. (session' = session \/ session' = NoSession) /\ UNCHANGED <<clock, mishaps>> /\ mishaps \in Nat
  BY DEF Refused, SessionInv, Typed
<1>2. CASE Retries(c)
  <2> DEFINE again == [call[c] EXCEPT !.at = "relogin"]
  <2>1. call[c] \in Call /\ call[c].method = "GET"
    BY <1>2 DEF Retries, SessionInv, Typed
  <2>2. again \in Call /\ again.at = "relogin" /\ again.method = "GET"
    BY <2>1 DEF Call
  <2>3. Await(c, again)
    BY <1>2 DEF Refused
  <2> HIDE DEF again
  <2> QED BY <1>1, <2>2, <2>3, AwaitKeeps
<1>3. CASE ~ Retries(c)
  <2>1. call' = [call EXCEPT ![c] = NoCall] /\ UNCHANGED <<tokens, flight>>
    BY <1>3 DEF Refused
  <2> QED BY <1>1, <2>1, ReturnKeeps
<1> QED BY <1>2, <1>3

\* A token that the broker withdraws keeps its end.
LEMMA RevokeKeeps ==
  ASSUME SessionInv, NEW t \in DOMAIN tokens, Revoke(t)
  PROVE  SessionInv'
<1> USE DEF SessionInv
<1> DEFINE revoked == [tokens[t] EXCEPT !.revoked = TRUE]
<1>1. /\ revoked \in Token /\ revoked.state = tokens[t].state /\ revoked.known = tokens[t].known
      /\ revoked.ends = tokens[t].ends /\ revoked.life = tokens[t].life
  <2>1. tokens[t] \in Token
    BY DEF Typed
  <2> QED BY <2>1 DEF Token
<1>2. UNCHANGED <<clock, session, flight, call>> /\ mishaps' = mishaps + 1 /\ tokens' = [tokens EXCEPT ![t] = revoked]
  BY DEF Revoke
<1> HIDE DEF revoked
<1>3. /\ tokens' \in Seq(Token) /\ Len(tokens') = Len(tokens) /\ DOMAIN tokens' = DOMAIN tokens
      /\ \A k \in DOMAIN tokens : /\ tokens'[k].state = tokens[k].state /\ tokens'[k].known = tokens[k].known
                                  /\ tokens'[k].ends = tokens[k].ends /\ tokens'[k].life = tokens[k].life
  BY <1>1, <1>2 DEF Typed
<1>4. Typed'
  BY <1>2, <1>3 DEF Typed
<1>5. OneFlight' /\ SessionOK'
  <2>1. OneFlight'
    BY <1>2, <1>3 DEF OneFlight, Typed
  <2>2. \A k \in DOMAIN tokens, until \in Int :
          UsedInTime(until, tokens[k], clock) => UsedInTime(until, tokens'[k], clock)
    BY <1>3, Zenon DEF UsedInTime
  <2> QED BY <1>2, <1>3, <2>1, <2>2 DEF SessionOK, Typed
<1>6. ASSUME NEW c \in Callers PROVE CallOK(c)'
  BY <1>2, <1>3 DEF CallOK, Waiting, Requested
<1> QED BY <1>4, <1>5, <1>6

\* Time does not pass the timeout of a call that is out.
LEMMA TickKeeps ==
  ASSUME SessionInv, Tick
  PROVE  SessionInv'
<1> USE DEF SessionInv
<1>1. UNCHANGED <<tokens, session, flight, call, mishaps>> /\ clock' = clock + 1 /\ clock \in Nat
  BY DEF Tick, Typed
<1>2. Typed' /\ OneFlight'
  BY <1>1 DEF Typed, OneFlight
<1>3. SessionOK'
  <2>1. session.until \in Int
    BY DEF Typed
  <2>2. \A token : UsedInTime(session.until, token, clock) => UsedInTime(session.until, token, clock + 1)
    BY <1>1, <2>1 DEF UsedInTime
  <2> QED BY <1>1, <2>2 DEF SessionOK
<1>4. ASSUME NEW c \in Callers PROVE CallOK(c)'
  <2>1. call[c] \in Call /\ (Requested(c) => clock < call[c].sent + Timeout)
    BY DEF Typed, Tick
  <2>2. call[c].sent \in Nat
    BY <2>1, CallParts
  <2> QED BY <1>1, <2>1, <2>2 DEF CallOK, Waiting, Requested, Timeout
<1> QED BY <1>2, <1>3, <1>4

LEMMA SessionStep ==
  ASSUME SessionInv, [SessionNext]_sessionVars
  PROVE  SessionInv'
<1>1. CASE BrokerAnswers
  <2>1. ASSUME NEW c \in Callers, Answered(c) PROVE SessionInv'
    BY <2>1, ReturnKeeps DEF Answered, SessionInv, Typed
  <2> QED BY <1>1, <2>1, LoginGrantedKeeps, RefusedKeeps DEF BrokerAnswers
<1>2. ASSUME NEW c \in Callers, CallFails(c) PROVE SessionInv'
  <2>1. /\ call' = [call EXCEPT ![c] = NoCall] /\ UNCHANGED <<clock, tokens, session, flight>>
        /\ mishaps' = mishaps + 1 /\ mishaps \in Nat
    BY <1>2 DEF CallFails, SessionInv, Typed
  <2>2. mishaps' \in Nat
    BY <2>1
  <2> QED BY <1>2, <2>1, <2>2, ReturnKeeps
<1>3. CASE UNCHANGED sessionVars
  BY <1>3 DEF sessionVars, SessionInv, Typed, OneFlight, SessionOK, CallOK, Waiting, Requested
<1> QED BY <1>1, <1>2, <1>3, StartKeeps, LoginFailsKeeps, RevokeKeeps, TickKeeps DEF SessionNext

\* What the invariant says of logins, of tokens and of orders.
LEMMA InvPromises ==
  ASSUME SessionInv
  PROVE  OneLoginOneOrder
<1> USE DEF SessionInv
<1>1. Cardinality({l \in DOMAIN tokens : tokens[l].state = "asked"}) <= 1
  <2> DEFINE asked == {l \in DOMAIN tokens : tokens[l].state = "asked"}
  <2>1. asked \subseteq {flight}
    BY DEF OneFlight
  <2>2. asked = {} \/ asked = {flight}
    BY <2>1
  <2>3. Cardinality({}) = 0 /\ Cardinality({flight}) = 1
    BY FS_EmptySet, FS_Singleton
  <2> QED BY <2>2, <2>3
<1>2. ASSUME NEW c \in Callers, Requested(c), tokens[call[c].token].known, tokens[call[c].token].life > Timeout
      PROVE  clock < tokens[call[c].token].ends
  <2>1. call[c] \in Call /\ call[c].token \in DOMAIN tokens /\ clock \in Nat
    BY <1>2 DEF CallOK, Typed
  <2>2. call[c].sent \in Nat /\ tokens[call[c].token].ends \in Nat
    BY <2>1, CallParts, TokenParts DEF Typed
  <2> QED BY <1>2, <2>1, <2>2 DEF CallOK, Timeout
<1>3. ASSUME NEW c \in Callers, call[c].method = "POST"
      PROVE  call[c].sends <= 1
  <2>1. call[c] \in Call
    BY DEF Typed
  <2> QED BY <1>3, <2>1, CallParts DEF CallOK
<1> QED BY <1>1, <1>2, <1>3 DEF OneLoginOneOrder, OneLoginThatLasts, OrderSentOnce

\* However many calls meet expired, revoked or refused tokens, and though a token that
\* was refused twice stays in the session: one login at a time, no known
\* token that runs out under a call, and no order sent twice (tradelocker.js:12-92).
THEOREM SessionKept == SessionSpec => []OneLoginOneOrder
<1>1. SessionInv /\ [SessionNext]_sessionVars => SessionInv'
  BY SessionStep
<1>2. SessionInv => OneLoginOneOrder
  BY InvPromises
<1> QED BY InitHolds, <1>1, <1>2, PTL DEF SessionSpec

\* What is bounded: the clock, the mishaps, how long a token is used, and when a call was sent.
SessionWithin ==
  /\ clock <= LastTick /\ mishaps <= Mishaps
  /\ session.until \in Nat /\ session.until <= clock + LongestLife
  /\ \A c \in Callers : call[c].sent <= clock /\ (call[c].at = "idle" => call[c].token = 0)

\* A call returns, goes on, or stays as it is.
Proceeds(record) == record.at # "idle" /\ record.sent <= clock
CallProceeds(c) == call'[c] = call[c] \/ call'[c] = NoCall \/ Proceeds(call'[c])

LEMMA RecordsProceed ==
  ASSUME NEW record \in Call, record.at # "idle", clock \in Nat
  PROVE  /\ \A n \in Nat : record.sent <= clock => Proceeds([record EXCEPT !.token = n])
         /\ \A n \in Nat : Proceeds(Send(record, n))
<1>1. ASSUME NEW n \in Nat, record.sent <= clock PROVE Proceeds([record EXCEPT !.token = n])
  BY <1>1 DEF Proceeds, Call
<1>2. ASSUME NEW n \in Nat PROVE Proceeds(Send(record, n))
  <2>1. Send(record, n).sent = clock /\ Send(record, n).at # "idle"
    BY DEF Send
  <2> QED BY <2>1 DEF Proceeds
<1> QED BY <1>1, <1>2

\* One call changes.
LEMMA OneCallProceeds ==
  ASSUME SessionInv, NEW c \in Callers, NEW record,
         call' = [call EXCEPT ![c] = record], record = NoCall \/ Proceeds(record)
  PROVE  \A d \in Callers : CallProceeds(d)
<1>1. DOMAIN call = Callers
  BY DEF SessionInv, Typed
<1>2. call'[c] = record
  BY <1>1
<1>3. ASSUME NEW d \in Callers, d # c PROVE call'[d] = call[d]
  BY <1>1, <1>3
<1> QED BY <1>2, <1>3 DEF CallProceeds

LEMMA AwaitProceeds ==
  ASSUME SessionInv, NEW c \in Callers, NEW record \in Call, record.at # "idle", record.sent <= clock,
         Await(c, record)
  PROVE  \A d \in Callers : CallProceeds(d)
<1>1. clock \in Nat /\ flight \in Nat /\ Len(tokens) + 1 \in Nat
  BY LenProperties DEF SessionInv, Typed
<1>2. Proceeds([record EXCEPT !.token = flight]) /\ Proceeds([record EXCEPT !.token = Len(tokens) + 1])
  BY <1>1, RecordsProceed
<1>3. PICK next : call' = [call EXCEPT ![c] = next] /\ (next = NoCall \/ Proceeds(next))
  <2>1. CASE JoinOrAsk
    BY <1>2, <2>1, Zenon DEF Await
  <2>2. CASE ~JoinOrAsk
    BY <1>2, <2>2, Zenon DEF Await
  <2> QED BY <2>1, <2>2
<1> QED BY <1>3, OneCallProceeds

\* What is under way stays within its bounds.
LEMMA SessionWithinStep ==
  ASSUME SessionInv, SessionWithin, [SessionNext]_sessionVars
  PROVE  SessionWithin'
<1>1. /\ clock \in Nat /\ mishaps \in Nat /\ LastTick \in Nat /\ Mishaps \in Nat
      /\ \A c \in Callers : call[c] \in Call /\ call[c].sent \in Nat
  BY LastTickAssumption, CallParts DEF SessionInv, Typed
<1>2. /\ mishaps' = mishaps \/ (mishaps < Mishaps /\ mishaps' = mishaps + 1)
      /\ clock' = clock \/ (clock < LastTick /\ clock' = clock + 1)
  <2>1. CASE UNCHANGED sessionVars
    BY <2>1, Zenon DEF sessionVars
  <2>2. ASSUME NEW l, NEW life, NEW known, LoginGranted(l, life, known)
        PROVE  mishaps' = mishaps /\ clock' = clock
    BY <2>2 DEF LoginGranted
  <2>3. ASSUME NEW c, Answered(c) \/ Refused(c) PROVE mishaps' = mishaps /\ clock' = clock
    BY <2>3, Zenon DEF Answered, Refused
  <2>4. ASSUME NEW c, NEW method, Start(c, method) PROVE mishaps' = mishaps /\ clock' = clock
    BY <2>4, Zenon DEF Start
  <2>5. ASSUME NEW c, CallFails(c) \/ LoginFails(c) \/ Revoke(c)
        PROVE  mishaps < Mishaps /\ mishaps' = mishaps + 1 /\ clock' = clock
    BY <2>5, Zenon DEF CallFails, LoginFails, Revoke
  <2>6. ASSUME Tick PROVE mishaps' = mishaps /\ clock < LastTick /\ clock' = clock + 1
    BY <2>6, Zenon DEF Tick
  <2> QED BY <2>1, <2>2, <2>3, <2>4, <2>5, <2>6, Zenon DEF SessionNext, BrokerAnswers
<1>3. session' = session \/ session' = NoSession \/ (session'.until \in Nat /\ session'.until <= clock + LongestLife)
  <2>1. CASE UNCHANGED sessionVars
    BY <2>1, Zenon DEF sessionVars
  <2>2. ASSUME NEW l, NEW life \in Lifetimes, NEW known \in BOOLEAN, LoginGranted(l, life, known)
        PROVE  session'.until \in Nat /\ session'.until <= clock + LongestLife
    <3>1. life \in Nat
      BY LifetimesAssumption
    <3>2. session'.until = sessionExpiry(life, known)
      BY <2>2 DEF LoginGranted
    <3> QED BY <1>1, <3>1, <3>2 DEF sessionExpiry, Smaller, Larger, LongestLife, UnknownLife, Margin
  <2>3. ASSUME NEW c, Answered(c) \/ Refused(c) \/ CallFails(c) \/ LoginFails(c) \/ Revoke(c)
        PROVE  session' = session \/ session' = NoSession
    BY <2>3, Zenon DEF Answered, Refused, CallFails, LoginFails, Revoke
  <2>4. ASSUME NEW c, NEW method, Start(c, method) PROVE session' = session
    BY <2>4, Zenon DEF Start
  <2>5. ASSUME Tick PROVE session' = session
    BY <2>5, Zenon DEF Tick
  <2> QED BY <2>1, <2>2, <2>3, <2>4, <2>5, Zenon DEF SessionNext, BrokerAnswers
<1>4. ASSUME NEW d \in Callers PROVE CallProceeds(d)
  <2>1. CASE UNCHANGED sessionVars
    BY <2>1, Zenon DEF sessionVars, CallProceeds
  <2>2. ASSUME NEW l \in DOMAIN tokens, NEW life, NEW known, LoginGranted(l, life, known)
        PROVE  CallProceeds(d)
    <3>1. call'[d] = IF Waiting(d) /\ call[d].token = l THEN Send(call[d], l) ELSE call[d]
      BY <2>2 DEF LoginGranted
    <3>2. Waiting(d) => call[d].at # "idle"
      BY DEF Waiting
    <3>3. l \in Nat
      BY LenProperties DEF SessionInv, Typed
    <3> QED BY <1>1, <3>1, <3>2, <3>3, RecordsProceed DEF CallProceeds
  <2>3. ASSUME NEW l, LoginFails(l) PROVE CallProceeds(d)
    <3>1. call'[d] = IF Waiting(d) /\ call[d].token = l THEN NoCall ELSE call[d]
      BY <2>3 DEF LoginFails
    <3> QED BY <3>1 DEF CallProceeds
  <2>4. ASSUME NEW c \in Callers, Answered(c) \/ CallFails(c) PROVE CallProceeds(d)
    <3>1. call' = [call EXCEPT ![c] = NoCall]
      BY <2>4, Zenon DEF Answered, CallFails
    <3> QED BY <3>1, OneCallProceeds
  <2>5. ASSUME NEW c \in Callers, Refused(c) PROVE CallProceeds(d)
    <3>1. CASE Retries(c)
      <4> DEFINE record == [call[c] EXCEPT !.at = "relogin"]
      <4>1. Await(c, record)
        BY <2>5, <3>1 DEF Refused
      <4>2. record \in Call /\ record.at # "idle" /\ record.sent <= clock
        BY <1>1 DEF Call, SessionWithin
      <4> QED BY <4>1, <4>2, AwaitProceeds
    <3>2. CASE ~Retries(c)
      <4>1. call' = [call EXCEPT ![c] = NoCall]
        BY <2>5, <3>2 DEF Refused
      <4> QED BY <4>1, OneCallProceeds
    <3> QED BY <3>1, <3>2
  <2>6. ASSUME NEW c \in Callers, NEW method \in Methods, Start(c, method) PROVE CallProceeds(d)
    <3> DEFINE begun == [NoCall EXCEPT !.method = method, !.at = "login"]
    <3>1. begun \in Call /\ begun.at = "login" /\ begun.sent <= clock
      <4>1. begun.at = "login" /\ begun.sent = 0
        BY DEF NoCall
      <4>2. begun \in Call
        BY Records
      <4> QED BY <1>1, <4>1, <4>2
    <3>2. session.token \in Nat
      BY DEF SessionInv, Typed
    <3>3. CASE Cached
      <4>1. call' = [call EXCEPT ![c] = Send(begun, session.token)]
        BY <2>6, <3>3 DEF Start
      <4>2. Proceeds(Send(begun, session.token))
        BY <1>1, <3>1, <3>2, RecordsProceed
      <4> QED BY <4>1, <4>2, OneCallProceeds
    <3>4. CASE ~Cached
      <4>1. Await(c, begun)
        BY <2>6, <3>4 DEF Start
      <4> QED BY <3>1, <4>1, AwaitProceeds
    <3> QED BY <3>3, <3>4
  <2>7. ASSUME NEW l, Revoke(l) \/ Tick PROVE CallProceeds(d)
    BY <2>7, Zenon DEF Revoke, Tick, CallProceeds
  <2> QED BY <2>1, <2>2, <2>3, <2>4, <2>5, <2>6, <2>7, Zenon DEF SessionNext, BrokerAnswers
<1>5. clock' \in Nat /\ clock <= clock' /\ clock' <= LastTick /\ mishaps' <= Mishaps
  BY <1>1, <1>2 DEF SessionWithin
<1>6. session'.until \in Nat /\ session'.until <= clock' + LongestLife
  <2>1. NoSession.until = 0
    BY DEF NoSession
  <2> QED BY <1>1, <1>3, <1>5, <2>1 DEF SessionWithin, LongestLife
<1>7. ASSUME NEW d \in Callers
      PROVE  call'[d].sent <= clock' /\ (call'[d].at = "idle" => call'[d].token = 0)
  <2>1. NoCall.sent = 0 /\ NoCall.token = 0
    BY DEF NoCall
  <2>2. call'[d] \in Call /\ call'[d].sent \in Nat
    BY SessionStep, CallParts DEF SessionInv, Typed
  <2> QED BY <1>1, <1>4, <1>5, <2>1, <2>2 DEF CallProceeds, Proceeds, SessionWithin
<1> QED BY <1>5, <1>6, <1>7 DEF SessionWithin

LEMMA SessionTyped == SessionSpec => []SessionTypeOK
<1>1. SessionInit => SessionWithin
  <2> SUFFICES ASSUME SessionInit PROVE SessionWithin
    OBVIOUS
  <2>1. clock = 0 /\ mishaps = 0 /\ session.until = 0
    BY DEF SessionInit, NoSession
  <2>2. ASSUME NEW c \in Callers PROVE call[c].sent = 0 /\ call[c].token = 0
    BY DEF SessionInit, NoCall
  <2> QED BY <2>1, <2>2, LastTickAssumption DEF SessionWithin, LongestLife
<1>2. SessionInv /\ SessionWithin => SessionTypeOK
  <2> SUFFICES ASSUME SessionInv, SessionWithin PROVE SessionTypeOK
    OBVIOUS
  <2>1. Len(tokens) \in Nat /\ DOMAIN tokens = 1..Len(tokens)
    BY LenProperties DEF SessionInv, Typed
  <2>2. clock \in 0..LastTick /\ mishaps \in 0..Mishaps /\ flight \in 0..Len(tokens)
    BY LastTickAssumption DEF SessionInv, Typed, SessionWithin
  <2>3. session.token \in 0..Len(tokens) /\ session.until \in 0..(LastTick + LongestLife)
    BY LastTickAssumption DEF SessionInv, Typed, SessionWithin, LongestLife
  <2>4. session.token # 0 => tokens[session.token].state = "granted"
    BY DEF SessionInv, SessionOK
  <2>5. ASSUME NEW c \in Callers
        PROVE  /\ call[c].at \in {"idle", "login", "request", "relogin", "resend"}
               /\ call[c].token \in 0..Len(tokens) /\ call[c].sent \in 0..clock
               /\ Waiting(c) => tokens[call[c].token].state = "asked"
               /\ Requested(c) => tokens[call[c].token].state = "granted"
    <3>1. call[c] \in Call /\ CallOK(c) /\ clock \in Nat
      BY DEF SessionInv, Typed
    <3>2. call[c].at \in {"idle", "login", "request", "relogin", "resend"} /\ call[c].sent \in Nat
      BY <3>1, CallParts
    <3>3. call[c].at = "idle" \/ Waiting(c) \/ Requested(c)
      BY <3>2 DEF Waiting, Requested
    <3>4. call[c].token = 0 \/ call[c].token \in DOMAIN tokens
      BY <3>1, <3>3 DEF CallOK, SessionWithin
    <3>5. call[c].token \in 0..Len(tokens) /\ call[c].sent \in 0..clock
      BY <2>1, <3>1, <3>2, <3>4 DEF SessionWithin
    <3> QED BY <3>1, <3>2, <3>5 DEF CallOK
  <2> QED BY <2>2, <2>3, <2>4, <2>5 DEF SessionTypeOK
<1>3. SessionInv /\ [SessionNext]_sessionVars => SessionInv'
  BY SessionStep
<1>4. SessionInv /\ SessionWithin /\ [SessionNext]_sessionVars => SessionWithin'
  BY SessionWithinStep
<1> QED BY InitHolds, <1>1, <1>2, <1>3, <1>4, PTL DEF SessionSpec

--------------------------------------------------------------------------------
(***************************************************************************)
(* The dry run, for any number of tries and faults.  Only the request that *)
(* inserted the row works on it, so the row can be no further and no less  *)
(* far than the statement that request is at (StepOK); and the rows of a   *)
(* dry run are the eleven places on the two ways through the states        *)
(* (PlaceOK).                                                              *)
(***************************************************************************)

E0 == <<>>
E1 == <<"SIGNAL_CREATED">>
E2 == <<"SIGNAL_CREATED", "SIGNAL_VALIDATED">>
E3 == <<"SIGNAL_CREATED", "SIGNAL_VALIDATED", "RISK_APPROVED">>
EComplete == <<"SIGNAL_CREATED", "SIGNAL_VALIDATED", "RISK_APPROVED", "DRY_RUN_COMPLETE">>
ERejected == <<"SIGNAL_CREATED", "SIGNAL_VALIDATED", "RISK_REJECTED">>

Events == {E0, E1, E2, E3, EComplete, ERejected}

\* The row's state, what is on record, and how often its preview was stored.
At(state, events, snapshots) == row.state = state /\ row.events = events /\ row.snapshots = snapshots

PlaceOK ==
  \/ row = NoRow
  \/ At("SIGNAL_CREATED", E0, 0) \/ At("SIGNAL_CREATED", E1, 0)
  \/ At("SIGNAL_VALIDATED", E1, 0) \/ At("SIGNAL_VALIDATED", E2, 0) \/ At("SIGNAL_VALIDATED", E2, 1)
  \/ At("RISK_APPROVED", E2, 1) \/ At("RISK_APPROVED", E3, 1)
  \/ At("DRY_RUN_COMPLETE", E3, 1) \/ At("DRY_RUN_COMPLETE", EComplete, 1)
  \/ At("RISK_REJECTED", E2, 1) \/ At("RISK_REJECTED", ERejected, 1)

\* What a request that works on the row finds there.
Unlogged ==
  \/ At("SIGNAL_CREATED", E0, 0) \/ At("SIGNAL_VALIDATED", E1, 0) \/ At("RISK_APPROVED", E2, 1)
  \/ At("DRY_RUN_COMPLETE", E3, 1) \/ At("RISK_REJECTED", E2, 1)

Working == {"event", "validate", "preview", "approve", "reject", "complete", "answer"}

StepOK(a) ==
  /\ route[a].at \in {"idle", "scan", "insert"} => row.owner # a
  /\ route[a].at \in Working => row.owner = a
  /\ route[a].at = "event" => Unlogged
  /\ route[a].at = "validate" => At("SIGNAL_CREATED", E1, 0)
  /\ route[a].at = "preview" => At("SIGNAL_VALIDATED", E2, 0)
  /\ route[a].at \in {"approve", "reject"} => At("SIGNAL_VALIDATED", E2, 1)
  /\ route[a].at = "complete" => At("RISK_APPROVED", E3, 1)
  /\ route[a].at = "answer" => At("DRY_RUN_COMPLETE", EComplete, 1) \/ At("RISK_REJECTED", ERejected, 1)

\* An answer that tells of the end is given at the end, and nothing comes after it.
AnswerOK(a) ==
  /\ route[a].answer = "DRY_RUN_COMPLETE" => At("DRY_RUN_COMPLETE", EComplete, 1)
  /\ route[a].answer = "RISK_REJECTED" => At("RISK_REJECTED", ERejected, 1)
  /\ route[a].answer # "FAILED"

\* The self-test's preview is always good.
SelfTestOK ==
  job = "selftest" => row.state # "RISK_REJECTED" /\ \A a \in Requests : route[a].at # "reject"

Step == {"idle", "scan", "insert", "done"} \cup Working
Status == {"none", "500", "429", "NO_FRESH_ENTRY", "BLOCKED", "IDEMPOTENT_REPLAY", "FAILED"} \cup States

Rows == [state : States \cup {"NONE"}, owner : {0} \cup Requests, events : Events, snapshots : Nat]

RunTyped ==
  /\ route \in [Requests -> [at : Step, answer : Status]]
  /\ row \in Rows
  /\ row = NoRow <=> row.owner = 0

PathInv == RunTyped /\ PlaceOK /\ SelfTestOK /\ \A a \in Requests : StepOK(a) /\ AnswerOK(a)

(***************************************************************************)
(* The two ways through the states.                                        *)
(***************************************************************************)
LEMMA TheRoutes == Route(TRUE) = EComplete /\ Route(FALSE) = ERejected
  BY DEF Route, EComplete, ERejected

LEMMA Sequences ==
  /\ \A e \in Events : e \in Seq(States)
  /\ Len(E0) = 0 /\ Len(E1) = 1 /\ Len(E2) = 2 /\ Len(E3) = 3 /\ Len(EComplete) = 4 /\ Len(ERejected) = 3
  BY DEF Events, E0, E1, E2, E3, EComplete, ERejected, States, EvaluationStates, TerminalStates

\* A sequence that agrees with another as far as it goes is a prefix of it.
LEMMA Prefix ==
  ASSUME NEW s \in Seq(States), NEW t \in Seq(States), Len(t) <= Len(s), \A i \in 1..Len(t) : s[i] = t[i]
  PROVE  SubSeq(s, 1, Len(t)) = t
<1>1. Len(t) \in Nat /\ Len(s) \in Nat /\ \A i \in 1..Len(t) : s[i] \in States
  BY ElementOfSeq
<1>2. /\ SubSeq(s, 1, Len(t)) \in Seq(States)
      /\ Len(SubSeq(s, 1, Len(t))) = IF 1 <= Len(t) THEN Len(t) - 1 + 1 ELSE 0
      /\ \A i \in 1..(Len(t) - 1 + 1) : SubSeq(s, 1, Len(t))[i] = s[1 + i - 1]
  BY <1>1, SubSeqProperties
<1>3. Len(SubSeq(s, 1, Len(t))) = Len(t)
  BY <1>1, <1>2
<1>4. \A i \in 1..Len(t) : SubSeq(s, 1, Len(t))[i] = t[i]
  BY <1>1, <1>2
<1> QED BY <1>2, <1>3, <1>4, SeqEqual

LEMMA PrefixesOfEnds ==
  /\ SubSeq(EComplete, 1, 0) = E0 /\ SubSeq(EComplete, 1, 1) = E1 /\ SubSeq(EComplete, 1, 2) = E2
  /\ SubSeq(EComplete, 1, 3) = E3 /\ SubSeq(EComplete, 1, 4) = EComplete
  /\ SubSeq(ERejected, 1, 2) = E2 /\ SubSeq(ERejected, 1, 3) = ERejected
  /\ SubSeq(E1, 1, 0) = E0 /\ SubSeq(E2, 1, 1) = E1 /\ SubSeq(E3, 1, 2) = E2
<1>1. ASSUME NEW s \in Events, NEW t \in Events, Len(t) <= Len(s), \A i \in 1..Len(t) : s[i] = t[i]
      PROVE  SubSeq(s, 1, Len(t)) = t
  BY <1>1, Sequences, Prefix
<1>2. /\ \A e \in Events : \A i \in 1..0 : e[i] = E0[i]
      /\ EComplete[1] = E1[1] /\ E2[1] = E1[1]
      /\ \A i \in 1..2 : EComplete[i] = E2[i] /\ ERejected[i] = E2[i] /\ E3[i] = E2[i]
      /\ \A i \in 1..3 : EComplete[i] = E3[i]
  BY DEF E1, E2, E3, EComplete, ERejected
<1>3. E0 \in Events /\ E1 \in Events /\ E2 \in Events /\ E3 \in Events /\ EComplete \in Events /\ ERejected \in Events
  BY DEF Events
<1>4. SubSeq(EComplete, 1, 0) = E0 /\ SubSeq(E1, 1, 0) = E0
  BY <1>1, <1>2, <1>3, Sequences
<1>5. SubSeq(EComplete, 1, 1) = E1 /\ SubSeq(E2, 1, 1) = E1
  BY <1>1, <1>2, <1>3, Sequences
<1>6. SubSeq(EComplete, 1, 2) = E2 /\ SubSeq(ERejected, 1, 2) = E2 /\ SubSeq(E3, 1, 2) = E2
  BY <1>1, <1>2, <1>3, Sequences
<1>7. SubSeq(EComplete, 1, 3) = E3
  BY <1>1, <1>2, <1>3, Sequences
<1>8. SubSeq(EComplete, 1, 4) = EComplete
  BY <1>1, <1>3, Sequences
<1>9. SubSeq(ERejected, 1, 3) = ERejected
  BY <1>1, <1>3, Sequences
<1> QED BY <1>4, <1>5, <1>6, <1>7, <1>8, <1>9

LEMMA ThePrefixes == Events \subseteq Prefixes
<1>1. ASSUME NEW n \in 0..4 PROVE SubSeq(EComplete, 1, n) \in Prefixes
  <2>1. Len(Route(TRUE)) = 4
    BY Sequences, TheRoutes
  <2>2. SubSeq(Route(TRUE), 1, n) \in {SubSeq(Route(TRUE), 1, m) : m \in 0..Len(Route(TRUE))}
    BY <2>1
  <2>3. SubSeq(Route(TRUE), 1, n) \in Prefixes
    BY <2>2 DEF Prefixes
  <2> QED BY <2>3, TheRoutes
<1>2. SubSeq(ERejected, 1, 3) \in Prefixes
  <2>1. Len(Route(FALSE)) = 3
    BY Sequences, TheRoutes
  <2>2. \A n \in Nat : n = 3 => n \in 0..n
    OBVIOUS
  <2>3. PICK n \in 0..Len(Route(FALSE)) : n = 3
    BY <2>1, <2>2, Zenon
  <2>4. SubSeq(Route(FALSE), 1, 3) \in {SubSeq(Route(FALSE), 1, m) : m \in 0..Len(Route(FALSE))}
    BY <2>3
  <2>5. SubSeq(Route(FALSE), 1, 3) \in Prefixes
    BY <2>4 DEF Prefixes
  <2> QED BY <2>5, TheRoutes
<1>3. /\ SubSeq(EComplete, 1, 0) \in Prefixes /\ SubSeq(EComplete, 1, 1) \in Prefixes
      /\ SubSeq(EComplete, 1, 2) \in Prefixes /\ SubSeq(EComplete, 1, 3) \in Prefixes
      /\ SubSeq(EComplete, 1, 4) \in Prefixes
  BY <1>1
<1> QED BY <1>2, <1>3, PrefixesOfEnds DEF Events

LEMMA Appended ==
  /\ Append(E0, "SIGNAL_CREATED") = E1 /\ Append(E1, "SIGNAL_VALIDATED") = E2
  /\ Append(E2, "RISK_APPROVED") = E3 /\ Append(E3, "DRY_RUN_COMPLETE") = EComplete
  /\ Append(E2, "RISK_REJECTED") = ERejected
<1>1. ASSUME NEW e \in Events, NEW state \in States, NEW f \in Events, Len(f) = Len(e) + 1,
             \A i \in 1..Len(e) : f[i] = e[i], f[Len(e) + 1] = state
      PROVE  Append(e, state) = f
  <2>1. /\ e \in Seq(States) /\ f \in Seq(States) /\ Append(e, state) \in Seq(States)
        /\ Len(Append(e, state)) = Len(e) + 1 /\ Len(e) \in Nat
        /\ \A i \in 1..Len(e) : Append(e, state)[i] = e[i]
        /\ Append(e, state)[Len(e) + 1] = state
    BY Sequences, AppendProperties
  <2>2. \A i \in 1..Len(f) : Append(e, state)[i] = f[i]
    BY <1>1, <2>1
  <2> QED BY <1>1, <2>1, <2>2, SeqEqual
<1>2. E0 \in Events /\ E1 \in Events /\ E2 \in Events /\ E3 \in Events /\ EComplete \in Events /\ ERejected \in Events
  BY DEF Events
<1>3. {"SIGNAL_CREATED", "SIGNAL_VALIDATED", "RISK_APPROVED", "DRY_RUN_COMPLETE", "RISK_REJECTED"} \subseteq States
  BY DEF States, EvaluationStates, TerminalStates
<1>4. /\ E1[1] = "SIGNAL_CREATED" /\ E2[1] = E1[1] /\ E2[2] = "SIGNAL_VALIDATED"
      /\ E3[3] = "RISK_APPROVED" /\ EComplete[4] = "DRY_RUN_COMPLETE" /\ ERejected[3] = "RISK_REJECTED"
      /\ \A i \in 1..2 : ERejected[i] = E2[i] /\ E3[i] = E2[i]
      /\ \A i \in 1..3 : EComplete[i] = E3[i]
  BY DEF E1, E2, E3, EComplete, ERejected
<1>5. Append(E0, "SIGNAL_CREATED") = E1
  <2>1. Len(E1) = Len(E0) + 1 /\ Len(E0) + 1 = 1 /\ 1..Len(E0) = 1..0
    BY Sequences
  <2>2. \A i \in 1..Len(E0) : E1[i] = E0[i]
    BY <1>4, <2>1
  <2>3. E1[Len(E0) + 1] = "SIGNAL_CREATED"
    BY <1>4, <2>1
  <2> QED BY <1>1, <1>2, <1>3, <2>1, <2>2, <2>3
<1>6. Append(E1, "SIGNAL_VALIDATED") = E2
  <2>1. Len(E2) = Len(E1) + 1 /\ Len(E1) + 1 = 2 /\ 1..Len(E1) = 1..1
    BY Sequences
  <2>2. \A i \in 1..Len(E1) : E2[i] = E1[i]
    BY <1>4, <2>1
  <2>3. E2[Len(E1) + 1] = "SIGNAL_VALIDATED"
    BY <1>4, <2>1
  <2> QED BY <1>1, <1>2, <1>3, <2>1, <2>2, <2>3
<1>7. Append(E2, "RISK_APPROVED") = E3
  <2>1. Len(E3) = Len(E2) + 1 /\ Len(E2) + 1 = 3 /\ 1..Len(E2) = 1..2
    BY Sequences
  <2>2. \A i \in 1..Len(E2) : E3[i] = E2[i]
    BY <1>4, <2>1
  <2>3. E3[Len(E2) + 1] = "RISK_APPROVED"
    BY <1>4, <2>1
  <2> QED BY <1>1, <1>2, <1>3, <2>1, <2>2, <2>3
<1>8. Append(E3, "DRY_RUN_COMPLETE") = EComplete
  <2>1. Len(EComplete) = Len(E3) + 1 /\ Len(E3) + 1 = 4 /\ 1..Len(E3) = 1..3
    BY Sequences
  <2>2. \A i \in 1..Len(E3) : EComplete[i] = E3[i]
    BY <1>4, <2>1
  <2>3. EComplete[Len(E3) + 1] = "DRY_RUN_COMPLETE"
    BY <1>4, <2>1
  <2> QED BY <1>1, <1>2, <1>3, <2>1, <2>2, <2>3
<1>9. Append(E2, "RISK_REJECTED") = ERejected
  <2>1. Len(ERejected) = Len(E2) + 1 /\ Len(E2) + 1 = 3 /\ 1..Len(E2) = 1..2
    BY Sequences
  <2>2. \A i \in 1..Len(E2) : ERejected[i] = E2[i]
    BY <1>4, <2>1
  <2>3. ERejected[Len(E2) + 1] = "RISK_REJECTED"
    BY <1>4, <2>1
  <2> QED BY <1>1, <1>2, <1>3, <2>1, <2>2, <2>3
<1> QED BY <1>5, <1>6, <1>7, <1>8, <1>9

LEMMA Ends ==
  /\ E1[Len(E1)] = "SIGNAL_CREATED" /\ SubSeq(E1, 1, Len(E1) - 1) = E0
  /\ E2[Len(E2)] = "SIGNAL_VALIDATED" /\ SubSeq(E2, 1, Len(E2) - 1) = E1
  /\ E3[Len(E3)] = "RISK_APPROVED" /\ SubSeq(E3, 1, Len(E3) - 1) = E2
  /\ EComplete[Len(EComplete)] = "DRY_RUN_COMPLETE" /\ SubSeq(EComplete, 1, Len(EComplete) - 1) = E3
  /\ ERejected[Len(ERejected)] = "RISK_REJECTED" /\ SubSeq(ERejected, 1, Len(ERejected) - 1) = E2
<1>1. /\ Len(E1) - 1 = 0 /\ Len(E2) - 1 = 1 /\ Len(E3) - 1 = 2 /\ Len(EComplete) - 1 = 3
      /\ Len(ERejected) - 1 = 2
  BY Sequences
<1>2. /\ E1[1] = "SIGNAL_CREATED" /\ E2[2] = "SIGNAL_VALIDATED" /\ E3[3] = "RISK_APPROVED"
      /\ EComplete[4] = "DRY_RUN_COMPLETE" /\ ERejected[3] = "RISK_REJECTED"
  BY DEF E1, E2, E3, EComplete, ERejected
<1> QED BY <1>1, <1>2, Sequences, PrefixesOfEnds

LEMMA Different == E3 # EComplete /\ E2 # ERejected /\ E0 = <<>>
  BY Sequences DEF E0

(***************************************************************************)
(* Steps.                                                                  *)
(***************************************************************************)
LEMMA Asked == Requests \subseteq Nat \ {0}
  BY MaxTriesAssumption DEF Requests

LEMMA Goes ==
  ASSUME RunTyped, NEW a \in Requests, NEW step \in Step, Go(a, step)
  PROVE  /\ route' \in [Requests -> [at : Step, answer : Status]]
         /\ route'[a].at = step /\ route'[a].answer = route[a].answer
         /\ \A b \in Requests : b # a => route'[b] = route[b]
  BY DEF RunTyped, Go

LEMMA Answers ==
  ASSUME RunTyped, NEW a \in Requests, NEW status \in Status, Answer(a, status)
  PROVE  /\ route' \in [Requests -> [at : Step, answer : Status]]
         /\ route'[a].at = "done" /\ route'[a].answer = status
         /\ \A b \in Requests : b # a => route'[b] = route[b]
  BY DEF RunTyped, Answer, Step

\* While one request works on the row, no other does, and nobody has told of the end.
LEMMA Alone ==
  ASSUME PathInv, NEW a \in Requests, route[a].at \in Working
  PROVE  /\ row.owner = a /\ row # NoRow
         /\ \A b \in Requests : b # a => route[b].at \notin Working
         /\ route[a].at # "answer" =>
              \A b \in Requests : route[b].answer \notin {"DRY_RUN_COMPLETE", "RISK_REJECTED", "FAILED"}
<1>1. row.owner = a /\ \A b \in Requests : b # a => route[b].at \notin Working
  BY DEF PathInv, StepOK
<1>2. row # NoRow
  BY <1>1, Asked DEF PathInv, RunTyped
<1>3. ASSUME route[a].at # "answer"
      PROVE  ~At("DRY_RUN_COMPLETE", EComplete, 1) /\ ~At("RISK_REJECTED", ERejected, 1)
  BY <1>3, Different DEF PathInv, StepOK, Working, Unlogged, At
<1>4. \A b \in Requests : AnswerOK(b)
  BY DEF PathInv
<1> QED BY <1>1, <1>2, <1>3, <1>4 DEF AnswerOK

\* A request that is answered without a word about the end, and leaves the row.
LEMMA AnswersOnly ==
  ASSUME PathInv, NEW a \in Requests, route[a].at \notin {"idle", "done"},
         NEW status \in {"none", "500", "429", "NO_FRESH_ENTRY", "BLOCKED", "IDEMPOTENT_REPLAY"},
         Answer(a, status), row' = row, job' = job
  PROVE  PathInv'
<1>1. status \in Status /\ RunTyped
  BY DEF Status, PathInv
<1>2. /\ route' \in [Requests -> [at : Step, answer : Status]]
      /\ route'[a].at = "done" /\ route'[a].answer = status
      /\ \A b \in Requests : b # a => route'[b] = route[b]
  BY <1>1, Answers
<1>3. RunTyped' /\ PlaceOK'
  BY <1>2 DEF PathInv, RunTyped, PlaceOK, At
<1>4. SelfTestOK'
  BY <1>2 DEF PathInv, SelfTestOK
<1>5. StepOK(a)' /\ AnswerOK(a)'
  BY <1>2 DEF StepOK, AnswerOK, Working
<1>6. ASSUME NEW b \in Requests, b # a PROVE StepOK(b)' /\ AnswerOK(b)'
  <2>1. route'[b] = route[b] /\ StepOK(b) /\ AnswerOK(b)
    BY <1>2, <1>6 DEF PathInv
  <2> QED BY <2>1 DEF StepOK, AnswerOK, Unlogged, At
<1> QED BY <1>3, <1>4, <1>5, <1>6 DEF PathInv

\* A request that goes on without touching the row.
LEMMA GoesOn ==
  ASSUME PathInv, NEW a \in Requests, route[a].at \in {"idle", "scan"},
         NEW step \in {"scan", "insert"}, Go(a, step), row' = row, job' = job
  PROVE  PathInv'
<1>1. step \in Step /\ RunTyped
  BY DEF Step, PathInv
<1>2. /\ route' \in [Requests -> [at : Step, answer : Status]]
      /\ route'[a].at = step /\ route'[a].answer = route[a].answer
      /\ \A b \in Requests : b # a => route'[b] = route[b]
  BY <1>1, Goes
<1>3. RunTyped' /\ PlaceOK'
  BY <1>2 DEF PathInv, RunTyped, PlaceOK, At
<1>4. SelfTestOK'
  BY <1>2 DEF PathInv, SelfTestOK
<1>5. StepOK(a)' /\ AnswerOK(a)'
  BY <1>2 DEF PathInv, StepOK, AnswerOK, Working, At
<1>6. ASSUME NEW b \in Requests, b # a PROVE StepOK(b)' /\ AnswerOK(b)'
  <2>1. route'[b] = route[b] /\ StepOK(b) /\ AnswerOK(b)
    BY <1>2, <1>6 DEF PathInv
  <2> QED BY <2>1 DEF StepOK, AnswerOK, Unlogged, At
<1> QED BY <1>3, <1>4, <1>5, <1>6 DEF PathInv

\* The owner's statement: what it does to the row is all that is left to show.
LEMMA OwnerMoves ==
  ASSUME PathInv, NEW a \in Requests, route[a].at \in Working \ {"answer"},
         NEW step \in Working, Go(a, step),
         row' \in Rows, row'.owner = row.owner, row' # NoRow, PlaceOK', SelfTestOK', StepOK(a)'
  PROVE  PathInv'
<1>1. step \in Step /\ RunTyped
  BY DEF Step, PathInv
<1>2. /\ route' \in [Requests -> [at : Step, answer : Status]]
      /\ route'[a].at = step /\ route'[a].answer = route[a].answer
      /\ \A b \in Requests : b # a => route'[b] = route[b]
  BY <1>1, Goes
<1>3. /\ row.owner = a
      /\ \A b \in Requests : b # a => route[b].at \notin Working
      /\ \A b \in Requests : route[b].answer \notin {"DRY_RUN_COMPLETE", "RISK_REJECTED", "FAILED"}
  BY Alone
<1>4. RunTyped'
  BY <1>2, <1>3, Asked DEF RunTyped
<1>5. AnswerOK(a)'
  BY <1>2, <1>3 DEF AnswerOK
<1>6. ASSUME NEW b \in Requests, b # a PROVE StepOK(b)' /\ AnswerOK(b)'
  <2>1. route'[b] = route[b]
    BY <1>2, <1>6
  <2>2. AnswerOK(b)'
    BY <1>3, <2>1 DEF AnswerOK
  <2>3. route'[b].at \notin Working /\ row'.owner # b
    BY <1>3, <1>6, <2>1
  <2> QED BY <2>2, <2>3 DEF StepOK, Working
<1> QED BY <1>4, <1>5, <1>6 DEF PathInv

LEMMA OwnerTransitions ==
  ASSUME PathInv, NEW a \in Requests, NEW from \in {"validate", "approve", "reject", "complete"},
         NEW next \in States, Transition(a, from, next), job = "selftest" => next # "RISK_REJECTED",
         \/ next = "SIGNAL_VALIDATED" /\ from = "validate"
         \/ next = "RISK_APPROVED" /\ from = "approve"
         \/ next = "RISK_REJECTED" /\ from = "reject"
         \/ next = "DRY_RUN_COMPLETE" /\ from = "complete"
  PROVE  PathInv'
<1>1. route[a].at = from /\ from \in Working \ {"answer"} /\ job' = job
  BY DEF Transition, Working
<1>2. CASE <<row.state, next>> \in Allowed
  <2>1. row' = [row EXCEPT !.state = next] /\ Go(a, "event") /\ row \in Rows /\ "event" \in Working
    BY <1>2 DEF Transition, PathInv, RunTyped, Working
  <2>2. /\ row' \in Rows /\ row'.state = next /\ row'.owner = row.owner
        /\ row'.events = row.events /\ row'.snapshots = row.snapshots
    BY <2>1 DEF Rows
  <2>3. row' # NoRow
    BY <2>2 DEF NoRow, States, EvaluationStates, TerminalStates
  <2>4. StepOK(a)
    BY DEF PathInv
  <2>5. Unlogged' /\ PlaceOK'
    BY <1>1, <2>2, <2>4 DEF StepOK, Unlogged, PlaceOK, At
  <2>6. /\ route'[a].at = "event"
        /\ \A b \in Requests : b # a => route'[b] = route[b]
    BY <2>1, Goes DEF PathInv, Step
  <2>7. SelfTestOK'
    BY <1>1, <2>2, <2>6 DEF SelfTestOK, PathInv
  <2>8. row.owner = a
    BY <1>1, Alone
  <2>9. StepOK(a)'
    BY <2>2, <2>5, <2>6, <2>8 DEF StepOK
  <2> QED BY <1>1, <2>1, <2>2, <2>3, <2>5, <2>7, <2>9, OwnerMoves
<1>3. CASE ~(<<row.state, next>> \in Allowed)
  BY <1>1, <1>3, AnswersOnly DEF Transition, Working
<1> QED BY <1>2, <1>3

LEMMA Scans ==
  ASSUME PathInv, NEW a \in Requests, NEW blocked \in BOOLEAN, Scan(a, blocked)
  PROVE  PathInv'
<1>1. route[a].at = "scan" /\ row' = row /\ job' = job
  BY DEF Scan
<1>2. Go(a, "insert") \/ Answer(a, "NO_FRESH_ENTRY") \/ Answer(a, "BLOCKED")
  BY DEF Scan
<1>3. CASE Go(a, "insert")
  BY <1>1, <1>3, GoesOn
<1>4. CASE Answer(a, "NO_FRESH_ENTRY")
  BY <1>1, <1>4, AnswersOnly
<1>5. CASE Answer(a, "BLOCKED")
  BY <1>1, <1>5, AnswersOnly
<1> QED BY <1>2, <1>3, <1>4, <1>5

\* Only the request whose INSERT made the row goes on with it.
LEMMA Creates ==
  ASSUME tracked, PathInv, NEW a \in Requests, Create(a)
  PROVE  PathInv'
<1>1. route[a].at = "insert" /\ job' = job /\ row.owner # a
  BY DEF Create, PathInv, StepOK
<1>2. CASE row # NoRow
  <2>1. row' = row /\ \E status \in {"IDEMPOTENT_REPLAY", "500"} : Answer(a, status)
    BY <1>1, <1>2 DEF Create, Claim
  <2> QED BY <1>1, <2>1, AnswersOnly
<1>3. CASE row = NoRow
  <2>1. row' = [NoRow EXCEPT !.state = "SIGNAL_CREATED", !.owner = a]
    BY <1>3 DEF Create, Claim
  <2>2. /\ row'.state = "SIGNAL_CREATED" /\ row'.owner = a /\ row'.events = E0 /\ row'.snapshots = 0
        /\ row' \in Rows /\ a # 0
    BY <2>1, Asked DEF NoRow, E0, Rows, Events, States, EvaluationStates
  <2>3. Go(a, "event") /\ "event" \in Step /\ RunTyped
    BY <2>2 DEF Create, Step, Working, PathInv
  <2>4. /\ route' \in [Requests -> [at : Step, answer : Status]]
        /\ route'[a].at = "event" /\ route'[a].answer = route[a].answer
        /\ \A b \in Requests : b # a => route'[b] = route[b]
    BY <2>3, Goes
  <2>5. RunTyped'
    BY <2>2, <2>4 DEF RunTyped, NoRow
  <2>6. PlaceOK' /\ Unlogged'
    BY <2>2 DEF PlaceOK, Unlogged, At
  <2>7. SelfTestOK'
    BY <1>1, <2>2, <2>4 DEF PathInv, SelfTestOK
  <2>8. row.state = "NONE" /\ row.owner = 0
    BY <1>3 DEF NoRow
  <2>9. \A b \in Requests : route[b].answer \notin {"DRY_RUN_COMPLETE", "RISK_REJECTED", "FAILED"}
    BY <2>8 DEF PathInv, AnswerOK, At
  <2>10. StepOK(a)' /\ AnswerOK(a)'
    BY <2>2, <2>4, <2>6, <2>9 DEF StepOK, AnswerOK
  <2>11. ASSUME NEW b \in Requests, b # a PROVE StepOK(b)' /\ AnswerOK(b)'
    <3>1. route'[b] = route[b] /\ StepOK(b) /\ b # 0
      BY <2>4, <2>11, Asked DEF PathInv
    <3>2. route[b].at \notin Working
      BY <2>8, <3>1 DEF StepOK
    <3> QED BY <2>2, <2>9, <2>11, <3>1, <3>2 DEF StepOK, AnswerOK, Working
  <2> QED BY <2>5, <2>6, <2>7, <2>10, <2>11 DEF PathInv
<1> QED BY <1>2, <1>3

LEMMA Recorded ==
  ASSUME PathInv, NEW a \in Requests, Event(a)
  PROVE  PathInv'
<1>1. route[a].at = "event" /\ route[a].at \in Working \ {"answer"} /\ job' = job /\ Unlogged /\ row.owner = a
  BY DEF Event, Working, PathInv, StepOK
<1>2. row \in Rows /\ SelfTestOK /\ RunTyped
  BY DEF PathInv, RunTyped
<1>3. row' = [row EXCEPT !.events = Append(row.events, row.state)] /\ Go(a, NextStep(row.state))
  BY DEF Event
<1>4. /\ row'.state = row.state /\ row'.owner = row.owner /\ row'.snapshots = row.snapshots
      /\ row'.events = Append(row.events, row.state)
  BY <1>2, <1>3 DEF Rows
<1>5. \/ row.state = "SIGNAL_CREATED" /\ NextStep(row.state) = "validate" /\ At("SIGNAL_CREATED", E1, 0)'
      \/ row.state = "SIGNAL_VALIDATED" /\ NextStep(row.state) = "preview" /\ At("SIGNAL_VALIDATED", E2, 0)'
      \/ row.state = "RISK_APPROVED" /\ NextStep(row.state) = "complete" /\ At("RISK_APPROVED", E3, 1)'
      \/ /\ row.state \in {"DRY_RUN_COMPLETE", "RISK_REJECTED"} /\ NextStep(row.state) = "answer"
         /\ At("DRY_RUN_COMPLETE", EComplete, 1)' \/ At("RISK_REJECTED", ERejected, 1)'
  BY <1>1, <1>4, Appended DEF Unlogged, At, NextStep
<1>6. NextStep(row.state) \in {"validate", "preview", "complete", "answer"} /\ row'.events \in Events
  BY <1>5 DEF Events, At
<1>7. row' \in Rows
  BY <1>2, <1>3, <1>6, <1>4 DEF Rows
<1>8. NextStep(row.state) \in Working /\ NextStep(row.state) \in Step
  BY <1>6 DEF Working, Step
<1>9. /\ route'[a].at = NextStep(row.state)
      /\ \A b \in Requests : b # a => route'[b] = route[b]
  BY <1>2, <1>3, <1>8, Goes
<1>10. PlaceOK' /\ row' # NoRow
  BY <1>4, <1>5 DEF PlaceOK, At, NoRow
<1>11. SelfTestOK'
  BY <1>1, <1>2, <1>4, <1>6, <1>9 DEF SelfTestOK
<1>12. StepOK(a)'
  BY <1>1, <1>4, <1>5, <1>9 DEF StepOK
<1> QED BY <1>1, <1>3, <1>4, <1>7, <1>8, <1>10, <1>11, <1>12, OwnerMoves

LEMMA Previews ==
  ASSUME tracked, PathInv, NEW a \in Requests, Preview(a)
  PROVE  PathInv'
<1>1. /\ route[a].at = "preview" /\ route[a].at \in Working \ {"answer"} /\ job' = job
      /\ At("SIGNAL_VALIDATED", E2, 0) /\ row.owner = a
  BY DEF Preview, Working, PathInv, StepOK
<1>2. row \in Rows /\ SelfTestOK /\ RunTyped
  BY DEF PathInv, RunTyped
<1>3. row' = [row EXCEPT !.snapshots = row.snapshots + 1]
  BY DEF Preview
<1>4. /\ row'.state = "SIGNAL_VALIDATED" /\ row'.owner = row.owner /\ row'.snapshots = 1 /\ row'.events = E2
      /\ row' \in Rows
  BY <1>1, <1>2, <1>3 DEF Rows, At
<1>5. PICK step \in {"approve", "reject"} : Go(a, step) /\ (job = "selftest" => step # "reject")
  BY DEF Preview
<1>6. step \in Working /\ step \in Step
  BY DEF Working, Step
<1>7. /\ route'[a].at = step
      /\ \A b \in Requests : b # a => route'[b] = route[b]
  BY <1>2, <1>5, <1>6, Goes
<1>8. PlaceOK' /\ row' # NoRow
  BY <1>4 DEF PlaceOK, At, NoRow
<1>9. SelfTestOK'
  BY <1>1, <1>2, <1>4, <1>5, <1>7 DEF SelfTestOK
<1>10. StepOK(a)'
  BY <1>1, <1>4, <1>7 DEF StepOK, At
<1> QED BY <1>1, <1>4, <1>5, <1>6, <1>8, <1>9, <1>10, OwnerMoves

\* The answer that tells of the end is read off the row at its end.
LEMMA Finishes ==
  ASSUME PathInv, NEW a \in Requests, Finish(a)
  PROVE  PathInv'
<1>1. /\ route[a].at = "answer" /\ job' = job /\ row' = row /\ RunTyped
      /\ At("DRY_RUN_COMPLETE", EComplete, 1) \/ At("RISK_REJECTED", ERejected, 1)
  BY DEF Finish, PathInv, StepOK
<1>2. row # NoRow
  BY <1>1, Alone DEF Working
<1>3. ASSUME job = "selftest" PROVE SelfTestHolds(a)
  <2>1. At("DRY_RUN_COMPLETE", EComplete, 1)
    BY <1>1, <1>3 DEF PathInv, SelfTestOK, At
  <2>2. Claim(ByHand + 1) = row
    BY <1>2 DEF Claim
  <2>3. row.events = Route(TRUE)
    BY <2>1, TheRoutes, Zenon DEF At
  <2>4. row.state = "DRY_RUN_COMPLETE" /\ row.snapshots >= 1
    BY <2>1 DEF At
  <2> QED BY <2>2, <2>3, <2>4, Zenon DEF SelfTestHolds
<1>4. Answer(a, row.state)
  BY <1>3 DEF Finish
<1>5. row.state \in Status /\ row.state \in {"DRY_RUN_COMPLETE", "RISK_REJECTED"}
  BY <1>1 DEF At, Status, States, EvaluationStates, TerminalStates
<1>6. /\ route' \in [Requests -> [at : Step, answer : Status]]
      /\ route'[a].at = "done" /\ route'[a].answer = row.state
      /\ \A b \in Requests : b # a => route'[b] = route[b]
  BY <1>1, <1>4, <1>5, Answers
<1>7. RunTyped' /\ PlaceOK'
  BY <1>1, <1>6 DEF PathInv, RunTyped, PlaceOK, At
<1>8. SelfTestOK'
  BY <1>1, <1>6 DEF PathInv, SelfTestOK
<1>9. StepOK(a)'
  BY <1>6 DEF StepOK, Working
<1>10. AnswerOK(a)'
  BY <1>1, <1>5, <1>6 DEF AnswerOK, At
<1>11. ASSUME NEW b \in Requests, b # a PROVE StepOK(b)' /\ AnswerOK(b)'
  <2>1. route'[b] = route[b] /\ StepOK(b) /\ AnswerOK(b)
    BY <1>6, <1>11 DEF PathInv
  <2> QED BY <1>1, <2>1 DEF StepOK, AnswerOK, Unlogged, At
<1> QED BY <1>7, <1>8, <1>9, <1>10, <1>11 DEF PathInv

LEMMA Fails ==
  ASSUME PathInv, NEW a \in Requests, RouteFails(a)
  PROVE  PathInv'
<1>1. PICK status \in {"500", "429", "none"} : Answer(a, status)
  BY DEF RouteFails
<1>2. route[a].at \notin {"idle", "done"} /\ row' = row /\ job' = job
  BY DEF RouteFails
<1> QED BY <1>1, <1>2, AnswersOnly

LEMMA StepKeepsRow ==
  ASSUME PathInv, route' = route, row' = row, job' = job
  PROVE  PathInv'
  BY DEF PathInv, RunTyped, PlaceOK, SelfTestOK, StepOK, AnswerOK, Unlogged, At

LEMMA PathStep == tracked /\ PathInv /\ [DryRunNext]_dryRunVars => PathInv'
<1> SUFFICES ASSUME tracked, PathInv, [DryRunNext]_dryRunVars PROVE PathInv'
  OBVIOUS
<1>1. CASE CronAsks
  <2>1. Ask(tries + 1) /\ row' = row /\ job' = job
    BY <1>1 DEF CronAsks
  <2>2. CASE tries + 1 \in Requests
    BY <2>1, <2>2, GoesOn DEF Ask
  <2>3. CASE tries + 1 \notin Requests
    <3>1. route' = route
      BY <2>1, <2>3 DEF Ask, Go, PathInv, RunTyped
    <3> QED BY <2>1, <3>1, StepKeepsRow
  <2> QED BY <2>2, <2>3
<1>2. CASE CronReads \/ CronGivesUp \/ CronIsCut \/ BarCompletes
  <2>1. route' = route /\ row' = row /\ job' = job
    BY <1>2 DEF CronReads, CronGivesUp, CronIsCut, BarCompletes
  <2> QED BY <2>1, StepKeepsRow
<1>3. CASE HandAsks
  <2>1. ByHand \in Requests
    BY MaxTriesAssumption DEF ByHand, Requests
  <2>2. route[ByHand].at = "idle" /\ Go(ByHand, "scan") /\ row' = row /\ job' = job
    BY <1>3 DEF HandAsks, Ask
  <2> QED BY <2>1, <2>2, GoesOn
<1>4. ASSUME NEW a \in Requests, RouteStep(a) PROVE PathInv'
  <2>1. ASSUME NEW blocked \in BOOLEAN, Scan(a, blocked) PROVE PathInv'
    BY <2>1, Scans
  <2>2. CASE Create(a)
    BY <2>2, Creates
  <2>3. CASE Event(a)
    BY <2>3, Recorded
  <2>4. CASE Preview(a)
    BY <2>4, Previews
  <2>5. CASE Finish(a)
    BY <2>5, Finishes
  <2>6. {"SIGNAL_VALIDATED", "RISK_APPROVED", "RISK_REJECTED", "DRY_RUN_COMPLETE"} \subseteq States
    BY DEF States, EvaluationStates, TerminalStates
  <2>7. CASE Validate(a)
    BY <2>6, <2>7, OwnerTransitions DEF Validate
  <2>8. CASE Approve(a)
    BY <2>6, <2>8, OwnerTransitions DEF Approve
  <2>9. CASE Reject(a)
    <3>1. Transition(a, "reject", "RISK_REJECTED") /\ job # "selftest"
      BY <2>9 DEF Reject, Transition, PathInv, SelfTestOK
    <3> QED BY <2>6, <3>1, OwnerTransitions
  <2>10. CASE Complete(a)
    BY <2>6, <2>10, OwnerTransitions DEF Complete
  <2> QED BY <1>4, <2>1, <2>2, <2>3, <2>4, <2>5, <2>7, <2>8, <2>9, <2>10 DEF RouteStep
<1>5. ASSUME NEW a \in Requests, RouteFails(a) PROVE PathInv'
  BY <1>5, Fails
<1>6. CASE UNCHANGED dryRunVars
  BY <1>6, StepKeepsRow DEF dryRunVars
<1> QED BY <1>1, <1>2, <1>3, <1>4, <1>5, <1>6 DEF DryRunNext, CronStep

LEMMA PathInit == DryRunInit => PathInv
<1> SUFFICES ASSUME DryRunInit PROVE PathInv
  OBVIOUS
<1>1. row = NoRow /\ \A a \in Requests : route[a] = NotAsked
  BY DEF DryRunInit
<1>2. RunTyped
  <2>1. NotAsked \in [at : Step, answer : Status]
    BY DEF NotAsked, Step, Status
  <2>2. NoRow \in Rows
    BY DEF NoRow, Rows, Events, E0
  <2> QED BY <1>1, <2>1, <2>2 DEF RunTyped, DryRunInit, NoRow
<1>3. \A a \in Requests : StepOK(a) /\ AnswerOK(a)
  BY <1>1, Asked DEF StepOK, AnswerOK, NotAsked, NoRow, Working
<1>4. PlaceOK /\ SelfTestOK
  BY <1>1 DEF PlaceOK, SelfTestOK, NotAsked, NoRow
<1> QED BY <1>2, <1>3, <1>4 DEF PathInv

LEMMA PathShows == tracked /\ PathInv => HistoryIsPath
<1> SUFFICES ASSUME tracked, PathInv PROVE HistoryIsPath
  OBVIOUS
<1>1. \A a \in Requests : StepOK(a) /\ AnswerOK(a)
  BY DEF PathInv
<1>2. row.events \in Prefixes
  BY ThePrefixes DEF PathInv, RunTyped, Rows
<1>3. E0 \in Prefixes /\ E1 \in Prefixes /\ E2 \in Prefixes /\ E3 \in Prefixes
      /\ EComplete \in Prefixes /\ ERejected \in Prefixes
  BY ThePrefixes DEF Events
<1>4. E1 # <<>> /\ E2 # <<>> /\ E3 # <<>> /\ EComplete # <<>> /\ ERejected # <<>>
  BY Sequences DEF E0
<1>5. ASSUME row # NoRow
      PROVE  \E path \in Prefixes : /\ path # <<>> /\ row.state = path[Len(path)]
                                    /\ row.events \in {path, SubSeq(path, 1, Len(path) - 1)}
  <2>1. PlaceOK
    BY DEF PathInv
  <2>2. CASE row.state = "SIGNAL_CREATED" /\ row.events \in {E0, E1}
    BY <1>3, <1>4, <2>2, Ends
  <2>3. CASE row.state = "SIGNAL_VALIDATED" /\ row.events \in {E1, E2}
    BY <1>3, <1>4, <2>3, Ends
  <2>4. CASE row.state = "RISK_APPROVED" /\ row.events \in {E2, E3}
    BY <1>3, <1>4, <2>4, Ends
  <2>5. CASE row.state = "DRY_RUN_COMPLETE" /\ row.events \in {E3, EComplete}
    BY <1>3, <1>4, <2>5, Ends
  <2>6. CASE row.state = "RISK_REJECTED" /\ row.events \in {E2, ERejected}
    BY <1>3, <1>4, <2>6, Ends
  <2> QED BY <1>5, <2>1, <2>2, <2>3, <2>4, <2>5, <2>6 DEF PlaceOK, At
<1>6. ASSUME NEW a \in Requests, route[a].answer \in {"DRY_RUN_COMPLETE", "RISK_REJECTED"}
      PROVE  row.events = Route(route[a].answer = "DRY_RUN_COMPLETE") /\ row.snapshots = 1
  <2>1. CASE route[a].answer = "DRY_RUN_COMPLETE"
    <3>1. At("DRY_RUN_COMPLETE", EComplete, 1)
      BY <1>1, <2>1 DEF AnswerOK
    <3> QED BY <2>1, <3>1 DEF At, Route, EComplete
  <2>2. CASE route[a].answer = "RISK_REJECTED"
    <3>1. At("RISK_REJECTED", ERejected, 1)
      BY <1>1, <2>2 DEF AnswerOK
    <3> QED BY <2>2, <3>1 DEF At, Route, ERejected
  <2> QED BY <1>6, <2>1, <2>2
<1>7. \A a \in Requests : (route[a].at \in Working => row.owner = a) /\ route[a].answer # "FAILED"
  BY <1>1 DEF StepOK, AnswerOK
<1> QED BY <1>2, <1>5, <1>6, <1>7 DEF HistoryIsPath, Writes, Working

(***************************************************************************)
(* Without a database: no request comes to a statement that writes.        *)
(***************************************************************************)
Light(a) == route[a].at \in {"idle", "scan", "insert", "preview", "done"} /\ route[a].answer # "FAILED"

UntrackedInv == RunTyped /\ row = NoRow /\ job # "selftest" /\ \A a \in Requests : Light(a)

LEMMA UntrackedMoves ==
  ASSUME UntrackedInv, NEW a \in Requests, row' = row, job' = job,
         \/ \E step \in {"scan", "insert", "preview"} : Go(a, step)
         \/ \E status \in Status \ {"FAILED"} : Answer(a, status)
  PROVE  UntrackedInv'
<1>1. RunTyped
  BY DEF UntrackedInv
<1>2. /\ route' \in [Requests -> [at : Step, answer : Status]]
      /\ Light(a)'
      /\ \A b \in Requests : b # a => route'[b] = route[b]
  <2>1. CASE \E step \in {"scan", "insert", "preview"} : Go(a, step)
    <3>1. PICK step \in {"scan", "insert", "preview"} : Go(a, step)
      BY <2>1
    <3>2. step \in Step
      BY DEF Step, Working
    <3>3. Light(a)
      BY DEF UntrackedInv
    <3> QED BY <1>1, <3>1, <3>2, <3>3, Goes DEF Light
  <2>2. CASE \E status \in Status \ {"FAILED"} : Answer(a, status)
    BY <1>1, <2>2, Answers DEF Light
  <2> QED BY <2>1, <2>2
<1>3. RunTyped'
  BY <1>1, <1>2 DEF RunTyped
<1>4. ASSUME NEW b \in Requests PROVE Light(b)'
  BY <1>2 DEF UntrackedInv, Light
<1> QED BY <1>3, <1>4 DEF UntrackedInv

LEMMA UntrackedStep ==
  ASSUME ~tracked, UntrackedInv, [DryRunNext]_dryRunVars
  PROVE  UntrackedInv'
<1>1. ASSUME route' = route, row' = row, job' = job PROVE UntrackedInv'
  BY <1>1 DEF UntrackedInv, RunTyped, Light
<1>2. CASE CronAsks
  <2>1. Ask(tries + 1) /\ row' = row /\ job' = job
    BY <1>2 DEF CronAsks
  <2>2. CASE tries + 1 \in Requests
    BY <2>1, <2>2, UntrackedMoves DEF Ask
  <2>3. CASE tries + 1 \notin Requests
    <3>1. route' = route
      BY <2>1, <2>3 DEF Ask, Go, UntrackedInv, RunTyped
    <3> QED BY <1>1, <2>1, <3>1
  <2> QED BY <2>2, <2>3
<1>3. CASE CronReads \/ CronGivesUp \/ CronIsCut \/ BarCompletes
  <2>1. route' = route /\ row' = row /\ job' = job
    BY <1>3 DEF CronReads, CronGivesUp, CronIsCut, BarCompletes
  <2> QED BY <1>1, <2>1
<1>4. CASE HandAsks
  <2>1. ByHand \in Requests
    BY MaxTriesAssumption DEF ByHand, Requests
  <2>2. Go(ByHand, "scan") /\ row' = row /\ job' = job
    BY <1>4 DEF HandAsks, Ask
  <2> QED BY <2>1, <2>2, UntrackedMoves
<1>5. ASSUME NEW a \in Requests, RouteStep(a) PROVE UntrackedInv'
  <2>1. ASSUME NEW blocked \in BOOLEAN, Scan(a, blocked) PROVE UntrackedInv'
    <3>1. row' = row /\ job' = job /\ (Go(a, "insert") \/ Answer(a, "NO_FRESH_ENTRY") \/ Answer(a, "BLOCKED"))
      BY <2>1 DEF Scan
    <3>2. {"NO_FRESH_ENTRY", "BLOCKED"} \subseteq Status \ {"FAILED"}
      BY DEF Status
    <3> QED BY <3>1, <3>2, UntrackedMoves
  <2>2. CASE Create(a)
    <3>1. Go(a, "preview") /\ row' = row /\ job' = job
      BY <2>2 DEF Create
    <3> QED BY <3>1, UntrackedMoves
  <2>3. CASE Preview(a)
    <3>1. row' = row /\ job' = job /\ \E ok \in BOOLEAN : Answer(a, Verdict(ok))
      BY <2>3, Zenon DEF Preview
    <3>2. \A ok \in BOOLEAN : Verdict(ok) \in Status \ {"FAILED"}
      BY DEF Verdict, Status, States, EvaluationStates, TerminalStates
    <3> QED BY <3>1, <3>2, UntrackedMoves
  <2>4. ~Event(a) /\ ~Validate(a) /\ ~Approve(a) /\ ~Reject(a) /\ ~Complete(a) /\ ~Finish(a)
    BY DEF UntrackedInv, Light, Event, Validate, Approve, Reject, Complete, Finish, Transition
  <2> QED BY <1>5, <2>1, <2>2, <2>3, <2>4 DEF RouteStep
<1>6. ASSUME NEW a \in Requests, RouteFails(a) PROVE UntrackedInv'
  <2>1. row' = row /\ job' = job /\ \E status \in {"500", "429", "none"} : Answer(a, status)
    BY <1>6 DEF RouteFails
  <2>2. {"500", "429", "none"} \subseteq Status \ {"FAILED"}
    BY DEF Status
  <2> QED BY <2>1, <2>2, UntrackedMoves
<1>7. CASE UNCHANGED dryRunVars
  BY <1>1, <1>7 DEF dryRunVars
<1> QED BY <1>2, <1>3, <1>4, <1>5, <1>6, <1>7 DEF DryRunNext, CronStep

LEMMA UntrackedShows == ~tracked /\ UntrackedInv => HistoryIsPath
<1> SUFFICES ASSUME ~tracked, UntrackedInv PROVE HistoryIsPath
  OBVIOUS
<1>1. row = NoRow /\ row.events = E0
  BY DEF UntrackedInv, NoRow, E0
<1>2. row.events \in Prefixes
  BY <1>1, ThePrefixes DEF Events
<1>3. \A a \in Requests : ~Writes(a) /\ route[a].answer # "FAILED"
  BY DEF UntrackedInv, Light, Writes
<1> QED BY <1>1, <1>2, <1>3, Zenon DEF HistoryIsPath

RunInv == IF tracked THEN PathInv ELSE UntrackedInv

LEMMA RunStep == RunInv /\ [DryRunNext]_dryRunVars => RunInv'
<1> SUFFICES ASSUME RunInv, [DryRunNext]_dryRunVars PROVE RunInv'
  OBVIOUS
<1>1. tracked' = tracked
  BY Zenon DEF DryRunNext, dryRunVars, CronStep, CronAsks, CronReads, CronGivesUp, CronIsCut, HandAsks,
     BarCompletes, RouteFails, RouteStep, Scan, Create, Event, Validate, Preview, Approve, Reject, Complete,
     Finish, Transition
<1>2. CASE tracked
  BY <1>1, <1>2, PathStep DEF RunInv
<1>3. CASE ~tracked
  BY <1>1, <1>3, UntrackedStep DEF RunInv
<1> QED BY <1>2, <1>3

LEMMA RunInit == DryRunInit => RunInv
<1> SUFFICES ASSUME DryRunInit PROVE RunInv
  OBVIOUS
<1>1. PathInv
  BY PathInit
<1>2. ASSUME ~tracked PROVE UntrackedInv
  <2>1. row = NoRow /\ job # "selftest" /\ \A a \in Requests : route[a] = NotAsked
    BY <1>2 DEF DryRunInit
  <2>2. RunTyped
    BY <1>1 DEF PathInv
  <2> QED BY <2>1, <2>2 DEF UntrackedInv, Light, NotAsked
<1> QED BY <1>1, <1>2 DEF RunInv

\* However often an entry is tried, whichever tries are cut off, and though a try
\* the cron gave up on runs beside the next: its history is a path to one of the
\* ends; an answer that tells of the end is given when the path is on record, or
\* where nothing is recorded at all, for there is no database (tradeState.js:199-201,
\* scalp-dry-run/route.js:118-196).
THEOREM EntryTakesOnePath == DryRunSpec => []HistoryIsPath
<1>1. DryRunSpec => []RunInv
  BY RunInit, RunStep, PTL DEF DryRunSpec
<1>2. RunInv => HistoryIsPath
  BY PathShows, UntrackedShows DEF RunInv
<1> QED BY <1>1, <1>2, PTL

\* The cron asks MaxTries times at most.
TriesOK ==
  /\ tries \in Nat /\ tries <= MaxTries
  /\ cron \in [at : {"ready", "waiting", "ended", "cut"}, timedOut : BOOLEAN] /\ tracked \in BOOLEAN
  /\ cron.at = "ready" => tries < MaxTries
  /\ routeFaults \in Nat /\ routeFaults <= RouteFaults

LEMMA TriesStep ==
  ASSUME TriesOK, [DryRunNext]_dryRunVars
  PROVE  TriesOK'
<1>1. MaxTries \in Nat \ {0} /\ RouteFaults \in Nat
  BY MaxTriesAssumption
<1>2. CASE UNCHANGED dryRunVars
  BY <1>2, Zenon DEF dryRunVars, TriesOK
<1>3. CASE CronAsks
  <2>1. tries < MaxTries /\ tries' = tries + 1 /\ UNCHANGED <<routeFaults, tracked>>
    BY <1>3, Zenon DEF CronAsks, TriesOK
  <2>2. cron' = [cron EXCEPT !.at = "waiting"]
    BY <1>3, Zenon DEF CronAsks
  <2> QED BY <1>1, <2>1, <2>2 DEF TriesOK
<1>4. CASE CronReads \/ CronGivesUp \/ CronIsCut
  <2>1. tries' = tries /\ routeFaults' = routeFaults /\ tracked' = tracked
    BY <1>4, Zenon DEF CronReads, CronGivesUp, CronIsCut
  <2>2. CASE CronReads
    <3> DEFINE retry == route[tries].answer \in {"500", "429"} /\ Again(tries)
    <3>1. cron' = [cron EXCEPT !.at = IF retry THEN "ready" ELSE "ended"]
      BY <2>2, Zenon DEF CronReads
    <3>2. retry => tries < MaxTries
      BY DEF Again
    <3> HIDE DEF retry
    <3> QED BY <2>1, <3>1, <3>2 DEF TriesOK
  <2>3. CASE CronGivesUp
    <3>1. cron' = [at |-> IF Again(tries) THEN "ready" ELSE "ended", timedOut |-> TRUE]
      BY <2>3, Zenon DEF CronGivesUp
    <3> QED BY <2>1, <3>1 DEF TriesOK, Again
  <2>4. CASE CronIsCut
    <3>1. cron' = [cron EXCEPT !.at = "cut"]
      BY <2>4, Zenon DEF CronIsCut
    <3> QED BY <2>1, <3>1 DEF TriesOK
  <2> QED BY <1>4, <2>2, <2>3, <2>4
<1>5. CASE \E a \in Requests : RouteFails(a)
  <2>1. UNCHANGED <<tries, cron, tracked>> /\ routeFaults < RouteFaults /\ routeFaults' = routeFaults + 1
    BY <1>5, Zenon DEF RouteFails
  <2> QED BY <1>1, <2>1 DEF TriesOK
<1>6. CASE HandAsks \/ BarCompletes \/ \E a \in Requests : RouteStep(a)
  <2>1. UNCHANGED <<tries, cron, routeFaults, tracked>>
    BY <1>6, Zenon DEF HandAsks, BarCompletes, RouteStep, Scan, Create, Event, Validate, Preview, Approve,
                       Reject, Complete, Finish, Transition
  <2> QED BY <2>1, Zenon DEF TriesOK
<1> QED BY <1>2, <1>3, <1>4, <1>5, <1>6, Zenon DEF DryRunNext, CronStep

LEMMA DryRunTyped == DryRunSpec => []DryRunTypeOK
<1>1. DryRunInit => TriesOK
  <2> SUFFICES ASSUME DryRunInit PROVE TriesOK
    OBVIOUS
  <2>1. tries = 0 /\ cron = [at |-> "ready", timedOut |-> FALSE] /\ routeFaults = 0 /\ tracked \in BOOLEAN
    BY Zenon DEF DryRunInit
  <2> QED BY <2>1, MaxTriesAssumption DEF TriesOK
<1>2. RunInv /\ TriesOK => DryRunTypeOK
  <2> SUFFICES ASSUME RunInv, TriesOK PROVE DryRunTypeOK
    OBVIOUS
  <2>t. RunTyped /\ (row = NoRow \/ PlaceOK)
    BY DEF RunInv, PathInv, UntrackedInv
  <2>1. row.state \in {"NONE", "SIGNAL_CREATED", "SIGNAL_VALIDATED", "RISK_APPROVED", "RISK_REJECTED", "DRY_RUN_COMPLETE"}
    <3>1. NoRow.state = "NONE"
      BY DEF NoRow
    <3> QED BY <2>t, <3>1 DEF PlaceOK, At
  <2>2. row.owner \in {0} \cup Requests
    BY <2>t DEF RunTyped, Rows
  <2>3. ASSUME NEW a \in Requests
        PROVE  route[a].at \in {"idle", "scan", "insert", "event", "validate", "preview", "approve", "reject",
                                "complete", "answer", "done"}
    <3>1. route[a].at \in Step
      BY <2>t DEF RunTyped
    <3> QED BY <3>1 DEF Step, Working
  <2>4. /\ tries \in 0..MaxTries /\ routeFaults \in 0..RouteFaults
        /\ cron.at \in {"ready", "waiting", "ended", "cut"} /\ tracked \in BOOLEAN /\ cron.timedOut \in BOOLEAN
    BY MaxTriesAssumption DEF TriesOK
  <2> QED BY <2>1, <2>2, <2>3, <2>4, Zenon DEF DryRunTypeOK
<1>3. TriesOK /\ [DryRunNext]_dryRunVars => TriesOK'
  BY TriesStep
<1>4. DryRunSpec => []RunInv
  BY RunInit, RunStep, PTL DEF DryRunSpec
<1> QED BY <1>1, <1>2, <1>3, <1>4, PTL DEF DryRunSpec

--------------------------------------------------------------------------------
(***************************************************************************)
(* The trade journal, for any tabs, entries and sizes of batches and       *)
(* pages. What an upload has not sent yet is in its batches (Uploading);   *)
(* what a load has passed it has received, unless it came since the load   *)
(* began (Loading): the numbers of rows only grow, so that nothing that    *)
(* comes later is below the cursor.                                        *)
(***************************************************************************)
(***************************************************************************)
(* The n-th of some numbers.                                               *)
(***************************************************************************)
Place(S, x) == Cardinality({y \in S : y <= x})

LEMMA PlaceBounds ==
  ASSUME NEW S \in SUBSET Int, IsFiniteSet(S), NEW x \in S
  PROVE  Place(S, x) \in 1..Cardinality(S)
<1> DEFINE T == {y \in S : y <= x}
<1>1. T \in SUBSET S /\ x \in T
  OBVIOUS
<1> HIDE DEF T
<1>2. IsFiniteSet(T) /\ Cardinality(T) <= Cardinality(S) /\ Cardinality(T) # 0
  BY <1>1, FS_Subset, FS_EmptySet
<1>3. Cardinality(T) \in Nat /\ Cardinality(S) \in Nat
  BY <1>2, FS_CardinalityType
<1>4. Place(S, x) = Cardinality(T)
  BY DEF Place, T
<1>5. QED
  BY <1>2, <1>3, <1>4

LEMMA PlaceRises ==
  ASSUME NEW S \in SUBSET Int, IsFiniteSet(S), NEW x \in S, NEW z \in S, x < z
  PROVE  Place(S, x) < Place(S, z)
<1> DEFINE T == {y \in S : y <= x}
           U == {y \in S : y <= z}
<1>1. T \in SUBSET U /\ U \in SUBSET S /\ T # U
  <2>1. x \in Int /\ z \in Int /\ z \in U /\ z \notin T
    OBVIOUS
  <2>2. \A y \in Int : y <= x => y <= z
    BY <2>1
  <2>3. QED
    BY <2>1, <2>2
<1> HIDE DEF T, U
<1>2. IsFiniteSet(U)
  BY <1>1, FS_Subset
<1>3. IsFiniteSet(T) /\ Cardinality(T) <= Cardinality(U) /\ Cardinality(T) # Cardinality(U)
  BY <1>1, <1>2, FS_Subset
<1>4. Cardinality(T) \in Nat /\ Cardinality(U) \in Nat
  BY <1>2, <1>3, FS_CardinalityType
<1>5. Place(S, x) = Cardinality(T) /\ Place(S, z) = Cardinality(U)
  BY DEF Place, T, U
<1>6. QED
  BY <1>3, <1>4, <1>5

LEMMA PlaceIsOne ==
  ASSUME NEW S \in SUBSET Int, IsFiniteSet(S), NEW x \in S, NEW z \in S, Place(S, x) = Place(S, z)
  PROVE  x = z
<1>1. Place(S, x) \in Int /\ Place(S, z) \in Int
  BY PlaceBounds, FS_CardinalityType
<1>2. ~ (x < z) /\ ~ (z < x)
  BY <1>1, PlaceRises
<1>3. x \in Int /\ z \in Int
  OBVIOUS
<1>4. QED
  BY <1>2, <1>3

\* Every place is somebody's.
LEMMA PlaceTaken ==
  ASSUME NEW S \in SUBSET Int, IsFiniteSet(S), NEW n \in 1..Cardinality(S)
  PROVE  \E x \in S : Place(S, x) = n
<1> DEFINE N == Cardinality(S)
           f == [x \in S |-> Place(S, x)]
<1>1. N \in Nat
  BY FS_CardinalityType
<1>2. f \in Injection(S, 1..N)
  <2>1. f \in [S -> 1..N]
    BY PlaceBounds
  <2>2. \A a, b \in S : f[a] = f[b] => a = b
    BY PlaceIsOne
  <2>3. QED
    BY <2>1, <2>2 DEF Injection, IsInjective
<1>3. IsFiniteSet(1..N) /\ Cardinality(1..N) = N
  BY <1>1, FS_Interval
<1> HIDE DEF N, f
<1>4. f \in Surjection(S, 1..N)
  <2>1. Cardinality(S) = Cardinality(1..N)
    BY <1>3 DEF N
  <2>2. QED
    BY <1>2, <1>3, <2>1, FS_Injection
<1>5. PICK x \in S : f[x] = n
  BY <1>4 DEF Surjection, N
<1>6. QED
  BY <1>5 DEF f

LEMMA NthFits ==
  ASSUME NEW S \in SUBSET Int, IsFiniteSet(S), NEW n \in 1..Cardinality(S)
  PROVE  Nth(S, n) \in S /\ Place(S, Nth(S, n)) = n
<1>1. \E x \in S : Cardinality({y \in S : y <= x}) = n
  BY PlaceTaken DEF Place
<1>2. QED
  BY <1>1 DEF Nth, Place

LEMMA NthFinds ==
  ASSUME NEW S \in SUBSET Int, IsFiniteSet(S), NEW x \in S
  PROVE  Place(S, x) \in 1..Cardinality(S) /\ Nth(S, Place(S, x)) = x
<1>1. Place(S, x) \in 1..Cardinality(S)
  BY PlaceBounds
<1> DEFINE z == Nth(S, Place(S, x))
<1>2. z \in S /\ Place(S, z) = Place(S, x)
  BY <1>1, NthFits
<1> HIDE DEF z
<1>3. z = x
  BY <1>2, PlaceIsOne
<1>4. QED
  BY <1>1, <1>3 DEF z

LEMMA NthRises ==
  ASSUME NEW S \in SUBSET Int, IsFiniteSet(S), NEW m \in 1..Cardinality(S), NEW n \in 1..Cardinality(S), m < n
  PROVE  Nth(S, m) < Nth(S, n)
<1> DEFINE a == Nth(S, m)
           b == Nth(S, n)
<1>1. a \in S /\ b \in S /\ Place(S, a) = m /\ Place(S, b) = n
  BY NthFits
<1>2. a \in Int /\ b \in Int
  BY <1>1
<1> HIDE DEF a, b
<1>3. ~ (b < a)
  <2>1. SUFFICES ASSUME b < a PROVE FALSE
    OBVIOUS
  <2>2. Place(S, b) < Place(S, a)
    BY <1>1, <2>1, PlaceRises
  <2>3. QED
    BY <1>1, <2>2
<1>4. a # b
  BY <1>1
<1>5. QED
  BY <1>2, <1>3, <1>4 DEF a, b

(***************************************************************************)
(* Parts of a sequence of records.                                         *)
(***************************************************************************)
LEMMA AtPlacesIs ==
  ASSUME NEW R, NEW records \in Seq(R), NEW S \in SUBSET (1..Len(records))
  PROVE  LET p == AtPlaces(records, S)
         IN  /\ p \in Seq(R) /\ IsFiniteSet(S) /\ Len(p) = Cardinality(S) /\ Len(p) \in Nat
             /\ \A n \in 1..Len(p) : Nth(S, n) \in S /\ p[n] = records[Nth(S, n)]
             /\ \A k \in S : \E n \in 1..Len(p) : p[n] = records[k]
             /\ \A m, n \in 1..Len(p) : Nth(S, m) = Nth(S, n) => m = n
             /\ \A m, n \in 1..Len(p) : m < n => Nth(S, m) < Nth(S, n)
<1> DEFINE p == AtPlaces(records, S)
           N == Cardinality(S)
<1>1. IsFiniteSet(S) /\ S \in SUBSET Int
  <2>1. Len(records) \in Nat
    BY LenProperties
  <2>2. IsFiniteSet(1..Len(records))
    BY <2>1, FS_Interval
  <2>3. IsFiniteSet(S)
    BY <2>2, FS_Subset
  <2>4. S \in SUBSET Int
    BY <2>1
  <2>5. QED
    BY <2>3, <2>4
<1>2. N \in Nat
  BY <1>1, FS_CardinalityType
<1>3. \A n \in 1..N : Nth(S, n) \in S /\ Place(S, Nth(S, n)) = n
  BY <1>1, NthFits
<1>4. \A n \in 1..N : records[Nth(S, n)] \in R
  BY <1>3, ElementOfSeq
<1>5. p = [n \in 1..N |-> records[Nth(S, n)]]
  BY DEF AtPlaces
<1>6. \A k \in S : Place(S, k) \in 1..N /\ Nth(S, Place(S, k)) = k
  BY <1>1, NthFinds
<1> HIDE DEF p, N
<1>7. p \in Seq(R) /\ Len(p) = N
  BY <1>2, <1>4, <1>5
<1>8. \A n \in 1..N : p[n] = records[Nth(S, n)]
  BY <1>5
<1>9. \A k \in S : \E n \in 1..N : p[n] = records[k]
  BY <1>6, <1>8
<1>10. \A m, n \in 1..N : Nth(S, m) = Nth(S, n) => m = n
  BY <1>3
<1>11. \A m, n \in 1..N : m < n => Nth(S, m) < Nth(S, n)
  BY <1>1, NthRises DEF N
<1>12. QED
  BY <1>1, <1>2, <1>3, <1>7, <1>8, <1>9, <1>10, <1>11 DEF p, N

LEMMA PartIs ==
  ASSUME NEW R, NEW s \in Seq(R), NEW a \in Nat, NEW b \in Nat, a >= 1, a <= b + 1, b <= Len(s)
  PROVE  /\ SubSeq(s, a, b) \in Seq(R) /\ Len(SubSeq(s, a, b)) = b + 1 - a
         /\ \A i \in 1..(b + 1 - a) : SubSeq(s, a, b)[i] = s[a + i - 1] /\ a + i - 1 \in 1..Len(s)
<1>1. Len(s) \in Nat
  BY LenProperties
<1>2. \A i \in a..b : s[i] \in R
  <2>1. \A i \in a..b : i \in 1..Len(s)
    BY <1>1
  <2>2. QED
    BY <2>1, ElementOfSeq
<1>3. /\ SubSeq(s, a, b) \in Seq(R) /\ Len(SubSeq(s, a, b)) = IF a <= b THEN b - a + 1 ELSE 0
      /\ \A i \in 1..(b - a + 1) : SubSeq(s, a, b)[i] = s[a + i - 1]
  BY <1>2, SubSeqProperties
<1>4. /\ b - a + 1 = b + 1 - a /\ (IF a <= b THEN b - a + 1 ELSE 0) = b + 1 - a
      /\ \A i \in 1..(b + 1 - a) : a + i - 1 \in 1..Len(s)
  BY <1>1
<1>5. QED
  BY <1>3, <1>4

LEMMA UniqueParts ==
  ASSUME NEW R, NEW s \in Seq(R), NEW p \in Seq(R), Unique(s),
         NEW f \in [1..Len(p) -> 1..Len(s)], \A n \in 1..Len(p) : p[n] = s[f[n]],
         \A m, n \in 1..Len(p) : f[m] = f[n] => m = n
  PROVE  Unique(p)
<1>1. DOMAIN p = 1..Len(p) /\ DOMAIN s = 1..Len(s)
  BY LenProperties
<1>2. ASSUME NEW m \in 1..Len(p), NEW n \in 1..Len(p), p[m].trade = p[n].trade PROVE m = n
  <2>1. s[f[m]].trade = s[f[n]].trade
    BY <1>2
  <2>2. f[m] = f[n]
    BY <1>1, <2>1 DEF Unique
  <2>3. QED
    BY <2>2
<1>3. QED
  BY <1>1, <1>2 DEF Unique

LEMMA AtPlacesUnique ==
  ASSUME NEW R, NEW records \in Seq(R), NEW S \in SUBSET (1..Len(records)), Unique(records)
  PROVE  Unique(AtPlaces(records, S))
<1> DEFINE p == AtPlaces(records, S)
           f == [n \in 1..Len(p) |-> Nth(S, n)]
<1>1. /\ p \in Seq(R)
      /\ \A n \in 1..Len(p) : Nth(S, n) \in S /\ p[n] = records[Nth(S, n)]
      /\ \A m, n \in 1..Len(p) : Nth(S, m) = Nth(S, n) => m = n
  BY AtPlacesIs
<1> HIDE DEF p
<1>2. f \in [1..Len(p) -> 1..Len(records)]
  BY <1>1
<1>3. \A n \in 1..Len(p) : p[n] = records[f[n]]
  BY <1>1
<1>4. \A m, n \in 1..Len(p) : f[m] = f[n] => m = n
  BY <1>1
<1>5. p \in Seq(R)
  BY <1>1
<1> HIDE DEF f
<1>6. Unique(p)
  BY <1>2, <1>3, <1>4, <1>5, UniqueParts
<1>7. QED
  BY <1>6 DEF p

LEMMA PartUnique ==
  ASSUME NEW R, NEW s \in Seq(R), NEW a \in Nat, NEW b \in Nat, a >= 1, a <= b + 1, b <= Len(s), Unique(s)
  PROVE  Unique(SubSeq(s, a, b))
<1> DEFINE p == SubSeq(s, a, b)
           f == [n \in 1..Len(p) |-> a + n - 1]
<1>1. /\ p \in Seq(R) /\ Len(p) = b + 1 - a
      /\ \A i \in 1..(b + 1 - a) : p[i] = s[a + i - 1] /\ a + i - 1 \in 1..Len(s)
  BY PartIs
<1> HIDE DEF p
<1>2. f \in [1..Len(p) -> 1..Len(s)]
  BY <1>1
<1>3. \A n \in 1..Len(p) : p[n] = s[f[n]]
  BY <1>1
<1>4. \A m, n \in 1..Len(p) : f[m] = f[n] => m = n
  BY <1>1
<1>5. p \in Seq(R)
  BY <1>1
<1> HIDE DEF f
<1>6. Unique(p)
  BY <1>2, <1>3, <1>4, <1>5, UniqueParts
<1>7. QED
  BY <1>6 DEF p

LEMMA TradesAre ==
  ASSUME NEW R, NEW s \in Seq(R)
  PROVE  TradesOf(s) = {s[n].trade : n \in 1..Len(s)} /\ DOMAIN s = 1..Len(s) /\ Len(s) \in Nat
  BY LenProperties DEF TradesOf

(***************************************************************************)
(* The merge.                                                              *)
(***************************************************************************)
\* The trades of what does not go beyond the limit are all kept.
LEMMA KeptIs ==
  ASSUME NEW R, NEW records \in Seq(R), Unique(records)
  PROVE  /\ Kept(records) \in Seq(R) /\ Unique(Kept(records)) /\ Len(Kept(records)) <= MaxKept
         /\ Kept(records) = records \/ Len(Kept(records)) = MaxKept
<1> DEFINE N == Len(records)
           n == Lesser(N, MaxKept)
           a == N - n + 1
<1>1. N \in Nat /\ MaxKept \in Nat
  BY LenProperties, JournalAssumption
<1>2. n \in Nat /\ n <= N /\ n <= MaxKept /\ (n = N \/ n = MaxKept)
  BY <1>1 DEF Lesser
<1> HIDE DEF n, N
<1>3. a \in Nat /\ a >= 1 /\ a <= N + 1 /\ N + 1 - a = n
  BY <1>1, <1>2
<1> HIDE DEF a
<1>4. SubSeq(records, a, N) \in Seq(R) /\ Len(SubSeq(records, a, N)) = n /\ Unique(SubSeq(records, a, N))
  BY <1>1, <1>3, PartIs, PartUnique DEF N
<1>5. Kept(records) = SubSeq(records, a, N)
  BY DEF Kept, a, n, N
<1>6. n = N => SubSeq(records, a, N) = records
  <2>1. n = N => a = 1
    BY <1>1 DEF a
  <2>2. QED
    BY <2>1, SubSeqFull DEF N
<1>7. QED
  BY <1>2, <1>4, <1>5, <1>6

\* The trades that were not there, where they come first.
News(records, more) ==
  {n \in DOMAIN more : /\ more[n].trade \notin TradesOf(records)
                       /\ \A k \in 1..(n - 1) : more[k].trade # more[n].trade}

LEMMA NewsBring ==
  ASSUME NEW R, NEW records \in Seq(R), NEW more \in Seq(R), NEW n \in 1..Len(more),
         more[n].trade \notin TradesOf(records)
  PROVE  \E m \in News(records, more) : more[m].trade = more[n].trade
<1> DEFINE S == {m \in 1..Len(more) : more[m].trade = more[n].trade}
           m == Nth(S, 1)
<1>1. Len(more) \in Nat /\ DOMAIN more = 1..Len(more)
  BY LenProperties
<1>2. S \in SUBSET Int /\ S \in SUBSET (1..Len(more)) /\ n \in S
  BY <1>1
<1> HIDE DEF S
<1>3. IsFiniteSet(S)
  <2>1. IsFiniteSet(1..Len(more))
    BY <1>1, FS_Interval
  <2>2. QED
    BY <1>2, <2>1, FS_Subset
<1>4. 1 \in 1..Cardinality(S)
  <2>1. Place(S, n) \in 1..Cardinality(S) /\ Cardinality(S) \in Nat
    BY <1>2, <1>3, PlaceBounds, FS_CardinalityType
  <2>2. QED
    BY <2>1
<1>5. m \in S /\ Place(S, m) = 1
  BY <1>2, <1>3, <1>4, NthFits
<1> HIDE DEF m
<1>6. ASSUME NEW k \in 1..(m - 1), more[k].trade = more[m].trade PROVE FALSE
  <2>1. m \in 1..Len(more)
    BY <1>2, <1>5
  <2>2. k \in S /\ k < m
    BY <1>1, <1>5, <1>6, <2>1 DEF S
  <2>3. Place(S, k) < Place(S, m) /\ Place(S, k) \in 1..Cardinality(S)
    BY <1>2, <1>3, <1>5, <2>2, PlaceRises, PlaceBounds
  <2>4. QED
    BY <1>5, <2>3
<1>7. m \in News(records, more) /\ more[m].trade = more[n].trade
  <2>1. m \in 1..Len(more) /\ more[m].trade = more[n].trade
    BY <1>5 DEF S
  <2>2. QED
    BY <1>1, <1>6, <2>1 DEF News
<1>8. QED
  BY <1>7

LEMMA NewsUnique ==
  ASSUME NEW R, NEW records \in Seq(R), NEW more \in Seq(R)
  PROVE  \A m, n \in News(records, more) : more[m].trade = more[n].trade => m = n
<1>1. Len(more) \in Nat /\ DOMAIN more = 1..Len(more)
  BY LenProperties
<1>2. ASSUME NEW m \in News(records, more), NEW n \in News(records, more), m < n
      PROVE  more[m].trade # more[n].trade
  <2>1. m \in 1..Len(more) /\ n \in 1..Len(more)
    BY <1>1 DEF News
  <2>2. m \in 1..(n - 1)
    BY <1>1, <1>2, <2>1
  <2>3. QED
    BY <2>2 DEF News
<1>3. ASSUME NEW m \in News(records, more), NEW n \in News(records, more), more[m].trade = more[n].trade
      PROVE  m = n
  <2>1. m \in Int /\ n \in Int
    BY <1>1 DEF News
  <2>2. ~ (m < n) /\ ~ (n < m)
    BY <1>2, <1>3
  <2>3. QED
    BY <2>1, <2>2
<1>4. QED
  BY <1>3

LEMMA MergeKeeps ==
  ASSUME NEW R, NEW records \in Seq(R), NEW more \in Seq(R), Unique(records)
  PROVE  LET m == Merge(records, more)
         IN  /\ m \in Seq(R) /\ Unique(m) /\ Len(m) <= MaxKept
             /\ \/ TradesOf(records) \cup TradesOf(more) \subseteq TradesOf(m)
                \/ Len(m) = MaxKept
<1> DEFINE S == News(records, more)
           p == AtPlaces(more, S)
           a == records \o p
           N == Len(records)
<1>1. /\ TradesOf(records) = {records[n].trade : n \in 1..N} /\ DOMAIN records = 1..N /\ N \in Nat
      /\ TradesOf(more) = {more[n].trade : n \in 1..Len(more)} /\ DOMAIN more = 1..Len(more)
  BY TradesAre
<1>2. S \in SUBSET (1..Len(more))
  BY <1>1 DEF News
<1>3. Merge(records, more) = Kept(a)
  BY DEF Merge, News
<1>4. /\ p \in Seq(R) /\ Len(p) \in Nat
      /\ \A n \in 1..Len(p) : Nth(S, n) \in S /\ p[n] = more[Nth(S, n)]
      /\ \A k \in S : \E n \in 1..Len(p) : p[n] = more[k]
      /\ \A m, n \in 1..Len(p) : Nth(S, m) = Nth(S, n) => m = n
  <2> HIDE DEF S
  <2>1. QED
    BY <1>2, AtPlacesIs
<1> HIDE DEF p
<1>5. a \in Seq(R) /\ Len(a) = N + Len(p)
  BY <1>4, ConcatProperties
<1>6. /\ \A i \in 1..N : a[i] = records[i]
      /\ \A i \in (N + 1)..(N + Len(p)) : a[i] = p[i - N] /\ i - N \in 1..Len(p)
  BY <1>1, <1>4, ConcatProperties
<1>7. DOMAIN a = 1..(N + Len(p))
  BY <1>5, LenProperties
<1> HIDE DEF a
<1>8. \A n \in 1..Len(p) : p[n].trade \notin TradesOf(records)
  BY <1>4 DEF News
<1>9. \A m, n \in 1..Len(p) : p[m].trade = p[n].trade => m = n
  <2>1. \A m, n \in S : more[m].trade = more[n].trade => m = n
    BY NewsUnique
  <2> HIDE DEF S
  <2>2. SUFFICES ASSUME NEW m \in 1..Len(p), NEW n \in 1..Len(p), p[m].trade = p[n].trade PROVE m = n
    OBVIOUS
  <2>3. Nth(S, m) \in S /\ Nth(S, n) \in S /\ more[Nth(S, m)].trade = more[Nth(S, n)].trade
    BY <1>4, <2>2
  <2>4. Nth(S, m) = Nth(S, n)
    BY <2>1, <2>3
  <2>5. QED
    BY <1>4, <2>4
<1>10. Unique(a)
  <2>1. SUFFICES ASSUME NEW i \in 1..(N + Len(p)), NEW j \in 1..(N + Len(p)), a[i].trade = a[j].trade PROVE i = j
    BY <1>7 DEF Unique
  <2>2. CASE i <= N /\ j <= N
    <3>1. i \in 1..N /\ j \in 1..N
      BY <1>1, <1>4, <2>2
    <3>2. records[i].trade = records[j].trade
      BY <1>6, <2>1, <3>1
    <3>3. QED
      BY <1>1, <3>1, <3>2 DEF Unique
  <2>3. CASE i > N /\ j > N
    <3>1. i \in (N + 1)..(N + Len(p)) /\ j \in (N + 1)..(N + Len(p))
      BY <1>1, <1>4, <2>3
    <3>2. i - N \in 1..Len(p) /\ j - N \in 1..Len(p) /\ a[i] = p[i - N] /\ a[j] = p[j - N]
      BY <1>6, <3>1
    <3>3. i - N = j - N
      BY <1>9, <2>1, <3>2
    <3>4. QED
      BY <1>1, <1>4, <3>3
  <2>4. ASSUME NEW k \in 1..N, NEW l \in (N + 1)..(N + Len(p)) PROVE a[k].trade # a[l].trade
    <3>1. a[k].trade \in TradesOf(records)
      BY <1>1, <1>6
    <3>2. a[l].trade \notin TradesOf(records)
      BY <1>6, <1>8
    <3>3. QED
      BY <3>1, <3>2
  <2>5. CASE i <= N /\ j > N
    <3>1. i \in 1..N /\ j \in (N + 1)..(N + Len(p))
      BY <1>1, <1>4, <2>5
    <3>2. QED
      BY <2>1, <2>4, <3>1
  <2>6. CASE i > N /\ j <= N
    <3>1. j \in 1..N /\ i \in (N + 1)..(N + Len(p))
      BY <1>1, <1>4, <2>6
    <3>2. QED
      BY <2>1, <2>4, <3>1
  <2>7. QED
    BY <1>1, <1>4, <2>2, <2>3, <2>5, <2>6
<1>11. TradesOf(records) \cup TradesOf(more) \subseteq TradesOf(a)
  <2>1. TradesOf(a) = {a[n].trade : n \in 1..(N + Len(p))}
    BY <1>7 DEF TradesOf
  <2>2. ASSUME NEW n \in 1..N PROVE records[n].trade \in TradesOf(a)
    <3>1. n \in 1..(N + Len(p)) /\ a[n] = records[n]
      BY <1>1, <1>4, <1>6
    <3>2. QED
      BY <2>1, <3>1
  <2>3. ASSUME NEW n \in 1..Len(p) PROVE p[n].trade \in TradesOf(a)
    <3>1. n + N \in (N + 1)..(N + Len(p)) /\ n + N \in 1..(N + Len(p)) /\ (n + N) - N = n
      BY <1>1, <1>4
    <3>2. a[n + N] = p[n]
      BY <1>6, <3>1
    <3>3. QED
      BY <2>1, <3>1, <3>2
  <2>4. ASSUME NEW n \in 1..Len(more), more[n].trade \notin TradesOf(records)
        PROVE  more[n].trade \in TradesOf(a)
    <3>1. PICK m \in S : more[m].trade = more[n].trade
      BY <2>4, NewsBring
    <3>2. PICK k \in 1..Len(p) : p[k] = more[m]
      BY <1>4
    <3>3. QED
      BY <2>3, <3>1, <3>2
  <2>5. TradesOf(records) \subseteq TradesOf(a)
    BY <1>1, <2>2
  <2>6. TradesOf(more) \subseteq TradesOf(a)
    BY <1>1, <2>4, <2>5
  <2>7. QED
    BY <2>5, <2>6
<1>12. /\ Kept(a) \in Seq(R) /\ Unique(Kept(a)) /\ Len(Kept(a)) <= MaxKept
       /\ Kept(a) = a \/ Len(Kept(a)) = MaxKept
  BY <1>5, <1>10, KeptIs
<1>13. QED
  BY <1>3, <1>11, <1>12

(***************************************************************************)
(* The batches of an upload.                                               *)
(***************************************************************************)
Sources == {"csv", "manual"}

Cut(s) ==
  [n \in 1..((Len(s) + BatchSize - 1) \div BatchSize) |->
     SubSeq(s, (n - 1) * BatchSize + 1, Lesser(n * BatchSize, Len(s)))]

\* Where the batch of a place begins and ends.
LEMMA CutBounds ==
  ASSUME NEW L \in Nat, NEW b \in Nat \ {0}, NEW n \in 1..((L + b - 1) \div b)
  PROVE  /\ (n - 1) * b \in Nat /\ n * b \in Nat /\ (n - 1) * b <= n * b /\ (n - 1) * b < L
         /\ n * b = (n - 1) * b + b
<1> DEFINE q == (L + b - 1) \div b
<1>1. q \in Int /\ q * b <= L + b - 1
  BY Z3
<1> HIDE DEF q
<1>2. n \in Nat /\ n >= 1 /\ n <= q
  BY <1>1 DEF q
<1>3. n * b <= q * b
  BY <1>1, <1>2, Z3
<1>4. n * b = (n - 1) * b + b
  BY <1>2, Z3
<1>5. (n - 1) * b \in Nat /\ n * b \in Nat
  BY <1>2, Z3
<1>6. QED
  BY <1>1, <1>3, <1>4, <1>5

\* The batch of a place.
LEMMA CutTaken ==
  ASSUME NEW L \in Nat, NEW b \in Nat \ {0}, NEW i \in 1..L
  PROVE  \E n \in 1..((L + b - 1) \div b) : (n - 1) * b < i /\ i <= n * b
<1> DEFINE q == (i - 1) \div b
           Q == (L + b - 1) \div b
<1>1. q \in Int /\ q * b <= i - 1 /\ i - 1 < q * b + b /\ q >= 0
  BY Z3
<1>2. Q \in Int /\ L + b - 1 < Q * b + b
  BY Z3
<1> HIDE DEF q, Q
<1>3. (q + 1) * b = q * b + b
  BY <1>1, Z3
<1>4. q + 1 <= Q
  <2>1. SUFFICES ASSUME Q <= q PROVE FALSE
    BY <1>1, <1>2
  <2>2. Q * b <= q * b
    BY <1>1, <1>2, <2>1, Z3
  <2>3. i \in Int /\ i <= L /\ Q * b \in Int /\ q * b \in Int
    BY <1>1, <1>2
  <2>4. QED
    BY <1>1, <1>2, <2>2, <2>3
<1>5. q + 1 \in 1..Q /\ (q + 1) - 1 = q
  BY <1>1, <1>2, <1>4
<1>6. ((q + 1) - 1) * b < i /\ i <= (q + 1) * b
  <2>1. i \in Int /\ q * b \in Int
    BY <1>1
  <2>2. QED
    BY <1>1, <1>3, <1>5, <2>1
<1>7. QED
  BY <1>5, <1>6 DEF Q

LEMMA CutIs ==
  ASSUME NEW R, NEW s \in Seq(R), Unique(s)
  PROVE  /\ Cut(s) \in Seq(Seq(R))
         /\ \A n \in 1..Len(Cut(s)) : Unique(Cut(s)[n])
         /\ \A i \in 1..Len(s) : \E n \in 1..Len(Cut(s)) : s[i].trade \in TradesOf(Cut(s)[n])
<1> DEFINE b == BatchSize
           L == Len(s)
           Q == (L + b - 1) \div b
           From(n) == (n - 1) * b + 1
           To(n) == Lesser(n * b, L)
<1>1. b \in Nat \ {0} /\ L \in Nat
  BY JournalAssumption, LenProperties
<1>2. Q \in Nat
  BY <1>1, Z3
<1>3. ASSUME NEW n \in 1..Q
      PROVE  /\ From(n) \in Nat /\ To(n) \in Nat /\ From(n) >= 1 /\ From(n) <= To(n) + 1 /\ To(n) <= L
             /\ To(n) = n * b \/ To(n) = L
  <2> DEFINE x == (n - 1) * b
             y == n * b
  <2>1. x \in Nat /\ y \in Nat /\ x <= y /\ x < L
    BY <1>1, CutBounds
  <2> HIDE DEF x, y
  <2>2. /\ x + 1 \in Nat /\ Lesser(y, L) \in Nat /\ x + 1 >= 1 /\ x + 1 <= Lesser(y, L) + 1 /\ Lesser(y, L) <= L
        /\ Lesser(y, L) = y \/ Lesser(y, L) = L
    BY <1>1, <2>1 DEF Lesser
  <2>3. QED
    BY <2>2 DEF x, y
<1>4. Cut(s) = [n \in 1..Q |-> SubSeq(s, From(n), To(n))]
  BY DEF Cut
<1> HIDE DEF b, L, Q, From, To
<1>5. ASSUME NEW n \in 1..Q
      PROVE  /\ SubSeq(s, From(n), To(n)) \in Seq(R) /\ Unique(SubSeq(s, From(n), To(n)))
             /\ Len(SubSeq(s, From(n), To(n))) = To(n) + 1 - From(n)
             /\ \A i \in 1..(To(n) + 1 - From(n)) : SubSeq(s, From(n), To(n))[i] = s[From(n) + i - 1]
  BY <1>3, PartIs, PartUnique DEF L
<1>6. Cut(s) \in Seq(Seq(R)) /\ Len(Cut(s)) = Q
  BY <1>2, <1>4, <1>5
<1>7. \A n \in 1..Q : Cut(s)[n] = SubSeq(s, From(n), To(n))
  BY <1>4
<1>8. ASSUME NEW i \in 1..L PROVE \E n \in 1..Q : s[i].trade \in TradesOf(Cut(s)[n])
  <2>1. PICK n \in 1..Q : (n - 1) * b < i /\ i <= n * b
    BY <1>1, CutTaken DEF Q
  <2> DEFINE p == SubSeq(s, From(n), To(n))
             k == i + 1 - From(n)
  <2>2. From(n) \in Nat /\ To(n) \in Nat /\ From(n) <= i /\ i <= To(n)
    <3>1. From(n) \in Nat /\ To(n) \in Nat /\ (To(n) = n * b \/ To(n) = L) /\ From(n) = (n - 1) * b + 1
      BY <1>3 DEF From
    <3>2. (n - 1) * b \in Int /\ i \in Int /\ i <= L
      BY <1>1
    <3>3. From(n) <= i
      BY <2>1, <3>1, <3>2
    <3>4. QED
      BY <2>1, <3>1, <3>2, <3>3
  <2>3. k \in 1..(To(n) + 1 - From(n)) /\ From(n) + k - 1 = i
    BY <1>1, <2>2
  <2>4. p[k] = s[From(n) + k - 1] /\ p \in Seq(R) /\ Len(p) = To(n) + 1 - From(n)
    BY <1>5, <2>3
  <2> HIDE DEF p, k
  <2>5. p[k].trade \in TradesOf(p)
    BY <2>3, <2>4, TradesAre
  <2>6. p[k].trade = s[i].trade
    BY <2>3, <2>4
  <2>7. QED
    BY <1>7, <2>5, <2>6 DEF p
<1>9. QED
  BY <1>5, <1>6, <1>7, <1>8 DEF L

JournalTrades == {e.trade : e \in UNION {Entries[t] : t \in Tabs}}
Entered == [trade : JournalTrades, source : Sources]
JournalRows == [id : Nat, trade : JournalTrades, source : Sources]

LEMMA BatchesAre ==
  ASSUME NEW records \in Seq(Entered), Unique(records)
  PROVE  /\ Batches(records) \in Seq(Seq(Entered))
         /\ \A n \in 1..Len(Batches(records)) : Unique(Batches(records)[n])
         /\ \A i \in 1..Len(records) :
              \E n \in 1..Len(Batches(records)) : records[i].trade \in TradesOf(Batches(records)[n])
<1> DEFINE Of(source) == {n \in DOMAIN records : records[n].source = source}
           C(source) == Cut(AtPlaces(records, Of(source)))
<1>1. Len(records) \in Nat /\ DOMAIN records = 1..Len(records)
  BY LenProperties
<1>2. ASSUME NEW source
      PROVE  /\ C(source) \in Seq(Seq(Entered)) /\ \A n \in 1..Len(C(source)) : Unique(C(source)[n])
             /\ \A i \in Of(source) : \E n \in 1..Len(C(source)) : records[i].trade \in TradesOf(C(source)[n])
  <2> DEFINE S == Of(source)
             p == AtPlaces(records, S)
  <2>1. S \in SUBSET (1..Len(records))
    BY <1>1
  <2> HIDE DEF S
  <2>2. p \in Seq(Entered)
    BY <2>1, AtPlacesIs
  <2>3. \A k \in S : \E n \in 1..Len(p) : p[n] = records[k]
    BY <2>1, AtPlacesIs
  <2>4. Unique(p)
    BY <2>1, AtPlacesUnique
  <2> HIDE DEF p
  <2>5. /\ Cut(p) \in Seq(Seq(Entered)) /\ \A n \in 1..Len(Cut(p)) : Unique(Cut(p)[n])
        /\ \A i \in 1..Len(p) : \E n \in 1..Len(Cut(p)) : p[i].trade \in TradesOf(Cut(p)[n])
    BY <2>2, <2>4, CutIs
  <2>6. \A i \in S : \E n \in 1..Len(Cut(p)) : records[i].trade \in TradesOf(Cut(p)[n])
    BY <2>3, <2>5
  <2>7. QED
    BY <2>5, <2>6 DEF p, S
<1>3. Batches(records) = C("csv") \o C("manual")
  BY Zenon DEF Batches, Cut
<1>4. ASSUME NEW i \in 1..Len(records) PROVE i \in Of("csv") \/ i \in Of("manual")
  <2>1. records[i] \in Entered
    BY ElementOfSeq
  <2>2. records[i].source \in Sources
    BY <2>1 DEF Entered
  <2>3. QED
    BY <1>1, <2>2, Zenon DEF Sources
<1> HIDE DEF C, Of
<1> DEFINE c == C("csv")
           m == C("manual")
<1>5. c \in Seq(Seq(Entered)) /\ m \in Seq(Seq(Entered))
  BY <1>2, Zenon
<1>6. \A n \in 1..Len(c) : Unique(c[n])
  BY <1>2, Zenon
<1>7. \A n \in 1..Len(m) : Unique(m[n])
  BY <1>2, Zenon
<1>8. \A i \in 1..Len(records) : \/ \E n \in 1..Len(c) : records[i].trade \in TradesOf(c[n])
                                 \/ \E n \in 1..Len(m) : records[i].trade \in TradesOf(m[n])
  BY <1>2, <1>4, Zenon
<1> HIDE DEF c, m
<1>9. Len(c) \in Nat /\ Len(m) \in Nat
  BY <1>5, LenProperties
<1>10. /\ c \o m \in Seq(Seq(Entered)) /\ Len(c \o m) = Len(c) + Len(m)
       /\ \A n \in 1..(Len(c) + Len(m)) : (c \o m)[n] = IF n <= Len(c) THEN c[n] ELSE m[n - Len(c)]
  BY <1>5, ConcatProperties
<1>11. \A n \in 1..(Len(c) + Len(m)) : Unique((c \o m)[n])
  <2>1. ASSUME NEW n \in 1..(Len(c) + Len(m)) PROVE Unique((c \o m)[n])
    <3>1. CASE n <= Len(c)
      BY <1>6, <1>9, <1>10, <3>1
    <3>2. CASE n > Len(c)
      <4>1. n - Len(c) \in 1..Len(m) /\ (c \o m)[n] = m[n - Len(c)]
        BY <1>9, <1>10, <3>2
      <4>2. QED
        BY <1>7, <4>1
    <3>3. QED
      BY <1>9, <3>1, <3>2
  <2>2. QED
    BY <2>1
<1>12. \A n \in 1..Len(c) : n \in 1..(Len(c) + Len(m)) /\ (c \o m)[n] = c[n]
  BY <1>9, <1>10
<1>13. \A n \in 1..Len(m) : \E k \in 1..(Len(c) + Len(m)) : (c \o m)[k] = m[n]
  <2>1. ASSUME NEW n \in 1..Len(m) PROVE \E k \in 1..(Len(c) + Len(m)) : (c \o m)[k] = m[n]
    <3>1. Len(c) + n \in 1..(Len(c) + Len(m)) /\ ~ (Len(c) + n <= Len(c)) /\ (Len(c) + n) - Len(c) = n
      BY <1>9
    <3>2. (c \o m)[Len(c) + n] = m[n]
      BY <1>10, <3>1
    <3>3. QED
      BY <3>1, <3>2
  <2>2. QED
    BY <2>1
<1>14. ASSUME NEW i \in 1..Len(records)
       PROVE  \E n \in 1..(Len(c) + Len(m)) : records[i].trade \in TradesOf((c \o m)[n])
  BY <1>8, <1>12, <1>13, Zenon
<1>15. Batches(records) = c \o m
  BY <1>3 DEF c, m
<1>16. QED
  BY <1>10, <1>11, <1>14, <1>15, Zenon

(***************************************************************************)
(* The cloud.                                                              *)
(***************************************************************************)
CloudOK(c, last) ==
  /\ c \in SUBSET JournalRows /\ IsFiniteSet(c)
  /\ last \in Nat /\ last <= LastRow
  /\ \A r \in c : r.id \in 1..last
  /\ \A a, b \in c : a.id = b.id \/ a.trade = b.trade => a = b

\* The transaction of a batch adds rows of its own with numbers of their own.
LEMMA CommitAdds ==
  ASSUME CloudOK(cloud, lastRow), NEW batch \in Seq(Entered), Unique(batch), Commit(batch)
  PROVE  /\ CloudOK(cloud', lastRow') /\ lastRow <= lastRow' /\ cloud \subseteq cloud'
         /\ TradesOf(batch) \subseteq {stored.trade : stored \in cloud'}
         /\ \A r \in cloud' \ cloud : r.id > lastRow
<1> DEFINE new == Inserted(batch)
           Row(n) == [id |-> lastRow + Place(new, n), trade |-> batch[n].trade, source |-> batch[n].source]
           more == {Row(n) : n \in new}
           N == Cardinality(new)
<1>1. Len(batch) \in Nat /\ DOMAIN batch = 1..Len(batch)
  BY LenProperties
<1>2. new \in SUBSET (1..Len(batch)) /\ new \in SUBSET Int
  BY <1>1 DEF Inserted
<1>3. IsFiniteSet(new)
  <2>1. IsFiniteSet(1..Len(batch))
    BY <1>1, FS_Interval
  <2> HIDE DEF new
  <2>2. QED
    BY <1>2, <2>1, FS_Subset
<1>4. N \in Nat
  BY <1>3, FS_CardinalityType
<1>5. cloud' = cloud \cup more /\ lastRow' = lastRow + N /\ lastRow' <= LastRow
  BY DEF Commit, Place
<1>6. \A n \in new : batch[n].trade \notin CloudTrades
  BY DEF Inserted
<1>7. \A n \in 1..Len(batch) : n \in new \/ batch[n].trade \in CloudTrades
  BY <1>1 DEF Inserted
<1> HIDE DEF new
<1>8. \A n \in new : Place(new, n) \in 1..N
  BY <1>2, <1>3, PlaceBounds
<1>9. lastRow \in Nat /\ cloud \in SUBSET JournalRows /\ IsFiniteSet(cloud) /\ \A r \in cloud : r.id \in 1..lastRow
  BY DEF CloudOK
<1>10. \A n \in new : batch[n] \in Entered
  BY <1>2, ElementOfSeq
<1>11. ASSUME NEW n \in new
       PROVE  /\ Row(n) \in JournalRows /\ Row(n).trade = batch[n].trade /\ Row(n).id = lastRow + Place(new, n)
              /\ Row(n).id > lastRow /\ Row(n).id \in 1..(lastRow + N)
  <2>1. lastRow + Place(new, n) \in Nat /\ lastRow + Place(new, n) > lastRow
        /\ lastRow + Place(new, n) \in 1..(lastRow + N)
    BY <1>4, <1>8, <1>9
  <2>2. batch[n].trade \in JournalTrades /\ batch[n].source \in Sources
    BY <1>10 DEF Entered
  <2>3. QED
    BY <2>1, <2>2 DEF JournalRows
<1> HIDE DEF Row
<1>12. IsFiniteSet(more)
  <2> DEFINE f == [n \in new |-> Row(n)]
  <2>1. f \in Surjection(new, more)
    BY DEF Surjection
  <2> HIDE DEF f, more
  <2>2. QED
    BY <1>3, <2>1, FS_Surjection
<1>13. \A r \in more : \E n \in new : r = Row(n)
  OBVIOUS
<1>14. ASSUME NEW m \in new, NEW n \in new, Row(m).id = Row(n).id \/ Row(m).trade = Row(n).trade
       PROVE  m = n
  <2>1. CASE Row(m).id = Row(n).id
    <3>1. Place(new, m) = Place(new, n)
      BY <1>4, <1>8, <1>9, <1>11, <2>1
    <3>2. QED
      BY <1>2, <1>3, <3>1, PlaceIsOne
  <2>2. CASE Row(m).trade = Row(n).trade
    <3>1. batch[m].trade = batch[n].trade
      BY <1>11, <2>2
    <3>2. QED
      BY <1>1, <1>2, <3>1 DEF Unique
  <2>3. QED
    BY <1>14, <2>1, <2>2
<1>15. ASSUME NEW r \in cloud, NEW n \in new PROVE r.id # Row(n).id /\ r.trade # Row(n).trade
  <2>1. r.id \in Int /\ r.id <= lastRow
    BY <1>9
  <2>2. r.trade \in CloudTrades
    BY DEF CloudTrades
  <2>3. Row(n).id > lastRow /\ Row(n).id \in Int
    BY <1>11
  <2>4. r.id # Row(n).id
    BY <1>9, <2>1, <2>3
  <2>5. r.trade # Row(n).trade
    BY <1>6, <1>11, <2>2
  <2>6. QED
    BY <2>4, <2>5
<1> HIDE DEF more
<1>16. ASSUME NEW a \in cloud', NEW b \in cloud', a.id = b.id \/ a.trade = b.trade PROVE a = b
  <2>1. CASE a \in cloud /\ b \in cloud
    BY <1>16, <2>1 DEF CloudOK
  <2>2. CASE a \in more /\ b \in more
    BY <1>13, <1>14, <1>16, <2>2
  <2>3. CASE a \in cloud /\ b \in more
    BY <1>13, <1>15, <1>16, <2>3
  <2>4. CASE a \in more /\ b \in cloud
    BY <1>13, <1>15, <1>16, <2>4
  <2>5. QED
    BY <1>5, <2>1, <2>2, <2>3, <2>4
<1>17. \A r \in more : r \in JournalRows /\ r.id > lastRow /\ r.id \in 1..(lastRow + N)
  BY <1>11, <1>13
<1>18. \A r \in cloud : r.id \in 1..(lastRow + N)
  BY <1>4, <1>9
<1>19. cloud' \in SUBSET JournalRows /\ IsFiniteSet(cloud')
  <2>1. IsFiniteSet(cloud \cup more)
    BY <1>9, <1>12, FS_Union
  <2>2. QED
    BY <1>5, <1>9, <1>17, <2>1
<1>20. lastRow' \in Nat /\ lastRow <= lastRow'
  BY <1>4, <1>5, <1>9
<1>21. CloudOK(cloud', lastRow')
  BY <1>5, <1>16, <1>17, <1>18, <1>19, <1>20 DEF CloudOK
<1>22. ASSUME NEW n \in 1..Len(batch) PROVE batch[n].trade \in {stored.trade : stored \in cloud'}
  <2>1. CASE n \in new
    <3>1. Row(n) \in more
      BY <2>1 DEF more
    <3>2. QED
      BY <1>5, <1>11, <2>1, <3>1
  <2>2. CASE batch[n].trade \in CloudTrades
    BY <1>5, <2>2 DEF CloudTrades
  <2>3. QED
    BY <1>7, <2>1, <2>2
<1>23. TradesOf(batch) \subseteq {stored.trade : stored \in cloud'}
  BY <1>1, <1>22 DEF TradesOf
<1>24. QED
  BY <1>5, <1>17, <1>20, <1>21, <1>23

\* What a page finds below its cursor: the newest rows, all of them if there are fewer than
\* were asked for.
LEMMA BelowFinds ==
  ASSUME CloudOK(cloud, lastRow), NEW cursor \in Int, NEW n \in Nat
  PROVE  LET found == Below(cursor, n)
         IN  /\ found \in Seq(JournalRows) /\ Len(found) \in Nat /\ Len(found) <= n
             /\ \A r \in cloud : r.id < cursor =>
                  /\ Len(found) < n => \E j \in 1..Len(found) : found[j] = r
                  /\ \A k \in 1..Len(found) : r.id >= found[k].id => \E j \in 1..k : found[j] = r
<1> DEFINE here == {r \in cloud : r.id < cursor}
           ids == {stored.id : stored \in here}
           M == Cardinality(ids)
           L == Lesser(n, M)
           RowOf(id) == CHOOSE stored \in cloud : stored.id = id
           found == Below(cursor, n)
<1>1. cloud \in SUBSET JournalRows /\ IsFiniteSet(cloud) /\ \A a, b \in cloud : a.id = b.id => a = b
  BY DEF CloudOK
<1>2. \A r \in cloud : r.id \in Nat
  BY <1>1 DEF JournalRows
<1>3. ids \in SUBSET Int /\ \A r \in cloud : r.id < cursor => r.id \in ids
  BY <1>2
<1>4. \A id \in ids : \E r \in cloud : r.id = id /\ r.id < cursor
  OBVIOUS
<1>5. IsFiniteSet(ids)
  <2> DEFINE f == [stored \in here |-> stored.id]
  <2>1. IsFiniteSet(here)
    BY <1>1, FS_Subset
  <2>2. f \in Surjection(here, ids)
    BY DEF Surjection
  <2> HIDE DEF f, here, ids
  <2>3. QED
    BY <2>1, <2>2, FS_Surjection
<1>6. \A r \in cloud : RowOf(r.id) = r
  BY <1>1
<1>7. \A id \in ids : RowOf(id) \in cloud /\ RowOf(id).id = id
  BY <1>4
<1>8. found = [k \in 1..L |-> RowOf(Nth(ids, M + 1 - k))]
  BY DEF Below
<1> HIDE DEF here, ids, RowOf, found
<1>9. M \in Nat
  BY <1>5, FS_CardinalityType
<1>10. L \in Nat /\ L <= n /\ L <= M /\ (L < n => L = M)
  BY <1>9 DEF Lesser
<1> HIDE DEF M, L
<1>11. ASSUME NEW k \in 1..L
       PROVE  /\ M + 1 - k \in 1..M /\ Nth(ids, M + 1 - k) \in ids
              /\ Place(ids, Nth(ids, M + 1 - k)) = M + 1 - k
  <2>1. M + 1 - k \in 1..M
    BY <1>9, <1>10
  <2>2. QED
    BY <1>3, <1>5, <2>1, NthFits DEF M
<1>12. found \in Seq(JournalRows) /\ Len(found) = L
  <2>1. \A k \in 1..L : RowOf(Nth(ids, M + 1 - k)) \in JournalRows
    BY <1>1, <1>7, <1>11
  <2>2. QED
    BY <1>8, <1>10, <2>1
<1>13. \A k \in 1..L : found[k] = RowOf(Nth(ids, M + 1 - k))
  BY <1>8
<1>14. ASSUME NEW r \in cloud, r.id < cursor
       PROVE  /\ L < n => \E j \in 1..L : found[j] = r
              /\ \A k \in 1..L : r.id >= found[k].id => \E j \in 1..k : found[j] = r
  <2> DEFINE p == Place(ids, r.id)
             j == M + 1 - p
  <2>1. r.id \in ids /\ r.id \in Int
    BY <1>3, <1>14
  <2>2. p \in 1..M /\ Nth(ids, p) = r.id
    BY <1>3, <1>5, <2>1, NthFinds DEF M
  <2> HIDE DEF p
  <2>3. j \in 1..M /\ M + 1 - j = p
    BY <1>9, <2>2
  <2>4. j \in 1..L => found[j] = r
    BY <1>6, <1>13, <2>2, <2>3
  <2>5. L < n => \E i \in 1..L : found[i] = r
    BY <1>10, <2>3, <2>4
  <2>6. ASSUME NEW k \in 1..L, r.id >= found[k].id PROVE \E i \in 1..k : found[i] = r
    <3> DEFINE x == Nth(ids, M + 1 - k)
    <3>1. x \in ids /\ Place(ids, x) = M + 1 - k
      BY <1>11
    <3>2. found[k].id = x
      BY <1>7, <1>13, <3>1
    <3> HIDE DEF x
    <3>3. x \in Int /\ x <= r.id
      BY <1>3, <2>6, <3>1, <3>2
    <3>4. M + 1 - k <= p
      <4>1. CASE x = r.id
        BY <1>9, <3>1, <4>1 DEF p
      <4>2. CASE x < r.id
        <5>1. Place(ids, x) < Place(ids, r.id)
          BY <1>3, <1>5, <2>1, <3>1, <4>2, PlaceRises
        <5>2. QED
          BY <1>9, <2>2, <3>1, <5>1 DEF p
      <4>3. QED
        BY <2>1, <3>3, <4>1, <4>2
    <3>5. j \in 1..k /\ j \in 1..L
      BY <1>9, <1>10, <2>2, <2>3, <3>4
    <3>6. QED
      BY <2>4, <3>5
  <2>7. QED
    BY <2>5, <2>6
<1>15. QED
  BY <1>10, <1>12, <1>14 DEF found

(***************************************************************************)
(* The invariant.                                                          *)
(***************************************************************************)
TradesIn(c) == {stored.trade : stored \in c}

Works ==
  [doing : {"nothing", "upload", "load"}, batches : Seq(Seq(Entered)), received : Seq(JournalRows),
   cursor : Int, pages : Int, before : SUBSET (JournalTrades \cup JournalRows), wiped : BOOLEAN]

\* What an upload was given is in the cloud, or in a batch it has still to send.
Uploading(w, c) ==
  w.doing = "upload" =>
    /\ \A n \in 1..Len(w.batches) : Unique(w.batches[n])
    /\ w.wiped \/ \A x \in w.before : \/ x \in TradesIn(c)
                                      \/ \E n \in 1..Len(w.batches) : x \in TradesOf(w.batches[n])

\* What a load has passed it has received, unless it came since the load began.
Loading(w, c, last) ==
  w.doing = "load" =>
    /\ \A r \in w.before : r \in JournalRows /\ r.id <= last
    /\ \A r \in w.before \cap c : r.id < w.cursor \/ \E n \in 1..Len(w.received) : w.received[n] = r

WorkOK(w, c, last) == w \in Works /\ Uploading(w, c) /\ Loading(w, c, last)

RowsOK(s) == s \in Seq(Entered) /\ Unique(s) /\ Len(s) <= MaxKept

JournalInv ==
  /\ DOMAIN rows = Tabs /\ rows = [t \in Tabs |-> rows[t]]
  /\ DOMAIN busy = Tabs /\ busy = [t \in Tabs |-> busy[t]]
  /\ CloudOK(cloud, lastRow)
  /\ \A t \in Tabs : RowsOK(rows[t]) /\ WorkOK(busy[t], cloud, lastRow)

LEMMA NotBusyOK ==
  ASSUME NEW c, NEW last
  PROVE  WorkOK(NotBusy, c, last)
<1>1. NotBusy \in Works
  <2>1. LastRow + 1 \in Int
    BY JournalAssumption
  <2>2. <<>> \in Seq(Seq(Entered)) /\ <<>> \in Seq(JournalRows)
    BY EmptySeq
  <2>3. {} \in SUBSET (JournalTrades \cup JournalRows) /\ 0 \in Int
    OBVIOUS
  <2>4. QED
    BY <2>1, <2>2, <2>3, Zenon DEF NotBusy, Works
<1>2. NotBusy.doing = "nothing"
  BY DEF NotBusy
<1>3. Uploading(NotBusy, c) /\ Loading(NotBusy, c, last)
  BY <1>2 DEF Uploading, Loading
<1>4. QED
  BY <1>1, <1>3 DEF WorkOK

LEMMA NoRowsOK == RowsOK(<<>>)
<1>1. <<>> \in Seq(Entered) /\ Len(<<>>) = 0 /\ DOMAIN <<>> = 1..0
  BY EmptySeq
<1>2. QED
  BY <1>1, JournalAssumption DEF RowsOK, Unique

LEMMA OneTabMoves ==
  ASSUME JournalInv, NEW t \in Tabs, NEW s, NEW w, RowsOK(s), WorkOK(w, cloud, lastRow),
         rows' = [rows EXCEPT ![t] = s], busy' = [busy EXCEPT ![t] = w],
         cloud' = cloud, lastRow' = lastRow
  PROVE  JournalInv'
<1>1. /\ DOMAIN rows' = Tabs /\ rows' = [u \in Tabs |-> rows'[u]]
      /\ DOMAIN busy' = Tabs /\ busy' = [u \in Tabs |-> busy'[u]]
  BY DEF JournalInv
<1>2. \A u \in Tabs : rows'[u] = (IF u = t THEN s ELSE rows[u]) /\ busy'[u] = (IF u = t THEN w ELSE busy[u])
  BY DEF JournalInv
<1>3. \A u \in Tabs : RowsOK(rows'[u]) /\ WorkOK(busy'[u], cloud, lastRow)
  BY <1>2 DEF JournalInv
<1>4. CloudOK(cloud, lastRow)
  BY DEF JournalInv
<1>5. QED
  BY <1>1, <1>3, <1>4 DEF JournalInv

LEMMA Untouched ==
  ASSUME JournalInv, NEW t \in Tabs
  PROVE  rows = [rows EXCEPT ![t] = rows[t]] /\ busy = [busy EXCEPT ![t] = busy[t]]
  BY DEF JournalInv

LEMMA JournalBegins == JournalInit => JournalInv
<1> SUFFICES ASSUME JournalInit PROVE JournalInv
  OBVIOUS
<1>1. rows = [t \in Tabs |-> <<>>] /\ busy = [t \in Tabs |-> NotBusy] /\ cloud = {} /\ lastRow = 0
  BY DEF JournalInit
<1>2. CloudOK({}, 0)
  BY FS_EmptySet, JournalAssumption DEF CloudOK
<1>3. \A t \in Tabs : RowsOK(rows[t]) /\ WorkOK(busy[t], cloud, lastRow)
  BY <1>1, NoRowsOK, NotBusyOK
<1>4. QED
  BY <1>1, <1>2, <1>3 DEF JournalInv

(***************************************************************************)
(* The actions.                                                            *)
(***************************************************************************)
LEMMA AddTradeKeeps ==
  ASSUME JournalInv, NEW t \in Tabs, NEW entry \in Entries[t], AddTrade(t, entry)
  PROVE  JournalInv'
<1> DEFINE s == Merge(rows[t], <<entry>>)
<1>1. entry \in Entered
  <2>1. entry \in [trade : {entry.trade}, source : Sources]
    BY JournalAssumption DEF Sources
  <2>2. entry.trade \in JournalTrades
    BY DEF JournalTrades
  <2> HIDE DEF s
  <2>3. QED
    BY <2>1, <2>2 DEF Entered
<1>2. RowsOK(rows[t]) /\ WorkOK(busy[t], cloud, lastRow)
  BY DEF JournalInv
<1>3. RowsOK(s)
  <2>1. <<entry>> \in Seq(Entered)
    BY <1>1
  <2>2. QED
    BY <1>2, <2>1, MergeKeeps DEF RowsOK
<1>4. /\ rows' = [rows EXCEPT ![t] = s] /\ busy' = [busy EXCEPT ![t] = busy[t]]
      /\ cloud' = cloud /\ lastRow' = lastRow
  BY Untouched DEF AddTrade
<1> HIDE DEF s
<1>5. QED
  BY <1>2, <1>3, <1>4, OneTabMoves

\* A step that ends the work of a tab, or leaves it as it is.
LEMMA StopKeeps ==
  ASSUME JournalInv, NEW t \in Tabs, UNCHANGED <<cloud, lastRow>>,
         UNCHANGED rows \/ rows' = [rows EXCEPT ![t] = <<>>],
         UNCHANGED busy \/ busy' = [busy EXCEPT ![t] = NotBusy]
  PROVE  JournalInv'
<1>1. PICK s : RowsOK(s) /\ rows' = [rows EXCEPT ![t] = s]
  BY NoRowsOK, Untouched DEF JournalInv
<1>2. PICK w : WorkOK(w, cloud, lastRow) /\ busy' = [busy EXCEPT ![t] = w]
  BY NotBusyOK, Untouched DEF JournalInv
<1>3. QED
  BY <1>1, <1>2, OneTabMoves

LEMMA UploadKeeps ==
  ASSUME JournalInv, NEW t \in Tabs, Upload(t)
  PROVE  JournalInv'
<1> DEFINE bs == Batches(rows[t])
           given == TradesOf(rows[t])
           w == [NotBusy EXCEPT !.doing = "upload", !.batches = bs, !.before = given]
<1>1. RowsOK(rows[t])
  BY DEF JournalInv
<1>2. rows[t] \in Seq(Entered) /\ Unique(rows[t])
  BY <1>1 DEF RowsOK
<1>3. /\ bs \in Seq(Seq(Entered)) /\ \A n \in 1..Len(bs) : Unique(bs[n])
      /\ \A i \in 1..Len(rows[t]) : \E n \in 1..Len(bs) : rows[t][i].trade \in TradesOf(bs[n])
  BY <1>2, BatchesAre
<1>4. given = {rows[t][i].trade : i \in 1..Len(rows[t])}
  BY <1>2, TradesAre
<1>5. given \in SUBSET (JournalTrades \cup JournalRows)
  <2>1. \A i \in 1..Len(rows[t]) : rows[t][i] \in Entered
    BY <1>2, ElementOfSeq
  <2>2. QED
    BY <1>4, <2>1 DEF Entered
<1>6. \A x \in given : \E n \in 1..Len(bs) : x \in TradesOf(bs[n])
  BY <1>3, <1>4
<1> HIDE DEF bs, given
<1>7. w.doing = "upload" /\ w.batches = bs /\ w.before = given
  BY DEF NotBusy
<1>8. NotBusy \in Works
  BY NotBusyOK DEF WorkOK
<1>9. w \in Works
  BY <1>3, <1>5, <1>8 DEF Works
<1>10. rows' = [rows EXCEPT ![t] = rows[t]] /\ busy' = [busy EXCEPT ![t] = w] /\ cloud' = cloud /\ lastRow' = lastRow
  BY Untouched DEF Upload, bs, given
<1> HIDE DEF w
<1>11. Uploading(w, cloud)
  BY <1>3, <1>6, <1>7 DEF Uploading
<1>12. Loading(w, cloud, lastRow)
  BY <1>7 DEF Loading
<1>13. QED
  BY <1>1, <1>9, <1>10, <1>11, <1>12, OneTabMoves DEF WorkOK

LEMMA LoadKeeps ==
  ASSUME JournalInv, NEW t \in Tabs, Load(t)
  PROVE  JournalInv'
<1> DEFINE w == [NotBusy EXCEPT !.doing = "load", !.before = cloud]
<1>1. RowsOK(rows[t]) /\ CloudOK(cloud, lastRow)
  BY DEF JournalInv
<1>2. w.doing = "load" /\ w.before = cloud /\ w.cursor = LastRow + 1
  BY DEF NotBusy
<1>3. cloud \in SUBSET JournalRows /\ lastRow \in Nat /\ lastRow <= LastRow /\ \A r \in cloud : r.id \in 1..lastRow
  BY <1>1 DEF CloudOK
<1>4. w \in Works
  <2>1. NotBusy \in Works
    BY NotBusyOK DEF WorkOK
  <2>2. QED
    BY <1>3, <2>1 DEF Works
<1>5. rows' = [rows EXCEPT ![t] = rows[t]] /\ busy' = [busy EXCEPT ![t] = w] /\ cloud' = cloud /\ lastRow' = lastRow
  BY Untouched DEF Load
<1> HIDE DEF w
<1>6. \A r \in cloud : r \in JournalRows /\ r.id <= lastRow /\ r.id < w.cursor
  BY <1>2, <1>3, JournalAssumption
<1>7. Uploading(w, cloud)
  BY <1>2 DEF Uploading
<1>8. Loading(w, cloud, lastRow)
  BY <1>2, <1>6 DEF Loading
<1>9. QED
  BY <1>1, <1>4, <1>5, <1>7, <1>8, OneTabMoves DEF WorkOK

LEMMA WorkFields ==
  ASSUME NEW w \in Works
  PROVE  /\ w.batches \in Seq(Seq(Entered)) /\ w.received \in Seq(JournalRows) /\ w.cursor \in Int
         /\ w.pages \in Int /\ w.before \in SUBSET (JournalTrades \cup JournalRows) /\ w.wiped \in BOOLEAN
  BY DEF Works

\* What a tab has received and what it finds, as it keeps them.
LEMMA ReceivedIs ==
  ASSUME JournalInv, NEW t \in Tabs
  PROVE  LET got == busy[t].received
             found == Found(t)
             n == Lesser(PageSize, Len(found))
             all == Received(t)
         IN  /\ all \in Seq(JournalRows) /\ n \in Nat /\ n <= PageSize /\ n <= Len(found) /\ Len(found) \in Nat
             /\ Len(found) <= PageSize => n = Len(found)
             /\ Len(found) > PageSize => n = PageSize
             /\ \A k \in 1..Len(got) : \E j \in 1..Len(all) : all[j] = got[k]
             /\ \A k \in 1..n : \E j \in 1..Len(all) : all[j] = found[k]
<1> DEFINE got == busy[t].received
           found == Found(t)
           n == Lesser(PageSize, Len(found))
           page == SubSeq(found, 1, n)
<1>1. CloudOK(cloud, lastRow) /\ busy[t] \in Works
  BY DEF JournalInv, WorkOK
<1>2. got \in Seq(JournalRows) /\ busy[t].cursor \in Int
  BY <1>1, WorkFields
<1>3. PageSize \in Nat /\ PageSize + 1 \in Nat
  BY JournalAssumption
<1>4. found \in Seq(JournalRows) /\ Len(found) \in Nat
  BY <1>1, <1>2, <1>3, BelowFinds DEF Found
<1>5. Received(t) = got \o page
  BY DEF Received
<1> HIDE DEF got, found
<1>6. /\ n \in Nat /\ n <= PageSize /\ n <= Len(found)
      /\ Len(found) <= PageSize => n = Len(found)
      /\ Len(found) > PageSize => n = PageSize
  BY <1>3, <1>4 DEF Lesser
<1> HIDE DEF n
<1>7. page \in Seq(JournalRows) /\ Len(page) = n /\ \A k \in 1..n : page[k] = found[k]
  <2>1. 1 \in Nat /\ 1 <= n + 1 /\ n + 1 - 1 = n /\ \A k \in 1..n : 1 + k - 1 = k
    BY <1>6
  <2>2. /\ SubSeq(found, 1, n) \in Seq(JournalRows) /\ Len(SubSeq(found, 1, n)) = n + 1 - 1
        /\ \A k \in 1..(n + 1 - 1) : SubSeq(found, 1, n)[k] = found[1 + k - 1]
    BY <1>4, <1>6, <2>1, PartIs
  <2>3. QED
    BY <2>1, <2>2
<1> HIDE DEF page
<1>8. Len(got) \in Nat
  BY <1>2, LenProperties
<1>9. /\ got \o page \in Seq(JournalRows) /\ Len(got \o page) = Len(got) + n
      /\ \A i \in 1..(Len(got) + n) : (got \o page)[i] = IF i <= Len(got) THEN got[i] ELSE page[i - Len(got)]
  BY <1>2, <1>7, ConcatProperties
<1>10. \A k \in 1..Len(got) : k \in 1..(Len(got) + n) /\ (got \o page)[k] = got[k]
  BY <1>6, <1>8, <1>9
<1>11. ASSUME NEW k \in 1..n PROVE Len(got) + k \in 1..(Len(got) + n) /\ (got \o page)[Len(got) + k] = found[k]
  <2>1. Len(got) + k \in 1..(Len(got) + n) /\ ~ (Len(got) + k <= Len(got)) /\ (Len(got) + k) - Len(got) = k
    BY <1>6, <1>8
  <2>2. QED
    BY <1>7, <1>9, <2>1
<1>12. QED
  BY <1>4, <1>5, <1>6, <1>9, <1>10, <1>11 DEF n, got, found

LEMMA ReadPageKeeps ==
  ASSUME JournalInv, NEW t \in Tabs, ReadPage(t)
  PROVE  JournalInv'
<1> DEFINE v == busy[t]
           found == Found(t)
           all == Received(t)
           w == [v EXCEPT !.received = all, !.pages = v.pages + 1, !.cursor = NextCursor(found)]
<1>1. RowsOK(rows[t]) /\ CloudOK(cloud, lastRow) /\ WorkOK(v, cloud, lastRow)
  BY DEF JournalInv
<1>2. v \in Works /\ Loading(v, cloud, lastRow)
  BY <1>1 DEF WorkOK
<1>3. /\ v.received \in Seq(JournalRows) /\ v.cursor \in Int /\ v.pages \in Int
  BY <1>2, WorkFields
<1>4. v.doing = "load" /\ Len(found) > PageSize
  BY DEF ReadPage
<1>5. rows' = [rows EXCEPT ![t] = rows[t]] /\ cloud' = cloud /\ lastRow' = lastRow
  BY Untouched DEF ReadPage
<1>6. busy' = [busy EXCEPT ![t] = NotBusy] \/ busy' = [busy EXCEPT ![t] = w]
  <2>1. busy' = [busy EXCEPT ![t] = IF v.pages + 1 = MaxPages THEN NotBusy ELSE w]
    BY DEF ReadPage
  <2> HIDE DEF v, w
  <2>2. QED
    BY <2>1
<1>7. PageSize \in Nat \ {0} /\ PageSize + 1 \in Nat
  BY JournalAssumption
<1>8. /\ all \in Seq(JournalRows) /\ Len(found) \in Nat
      /\ \A k \in 1..Len(v.received) : \E j \in 1..Len(all) : all[j] = v.received[k]
      /\ \A k \in 1..PageSize : \E j \in 1..Len(all) : all[j] = found[k]
  BY <1>4, ReceivedIs
<1>9. /\ found \in Seq(JournalRows)
      /\ \A r \in cloud : r.id < v.cursor =>
           \A k \in 1..Len(found) : r.id >= found[k].id => \E j \in 1..k : found[j] = r
  <2> DEFINE cursor == v.cursor
             most == PageSize + 1
             below == Below(cursor, most)
  <2>1. found = below
    BY DEF Found
  <2>2. cursor \in Int /\ most \in Nat
    BY <1>3, <1>7
  <2> HIDE DEF cursor, most
  <2>3. below \in Seq(JournalRows)
    BY <1>1, <2>2, BelowFinds
  <2>4. \A r \in cloud : r.id < cursor =>
          \A k \in 1..Len(below) : r.id >= below[k].id => \E j \in 1..k : below[j] = r
    BY <1>1, <2>2, BelowFinds
  <2> HIDE DEF below, found
  <2>5. QED
    BY <2>1, <2>3, <2>4 DEF cursor
<1>10. PageSize \in 1..Len(found) /\ NextCursor(found) = found[PageSize].id
  BY <1>4, <1>7, <1>8 DEF NextCursor
<1>11. NextCursor(found) \in Nat
  <2>1. found[PageSize] \in JournalRows
    BY <1>9, <1>10, ElementOfSeq
  <2>2. QED
    BY <1>10, <2>1 DEF JournalRows
<1>12. w \in Works
  <2>1. v.pages + 1 \in Int /\ NextCursor(found) \in Int /\ all \in Seq(JournalRows)
    BY <1>3, <1>8, <1>11
  <2> DEFINE c == NextCursor(found)
             p == v.pages + 1
  <2>2. c \in Int /\ p \in Int /\ all \in Seq(JournalRows) /\ v \in Works
    BY <1>2, <2>1
  <2>3. w = [v EXCEPT !.received = all, !.pages = p, !.cursor = c]
    OBVIOUS
  <2> HIDE DEF c, p, v, all, found, w
  <2>4. QED
    BY <2>2, <2>3 DEF Works
<1>13. /\ w.doing = "load" /\ w.received = all /\ w.cursor = NextCursor(found) /\ w.before = v.before
  BY <1>2, <1>4 DEF Works
<1> HIDE DEF w, v, all, found
<1>14. /\ \A r \in v.before : r \in JournalRows /\ r.id <= lastRow
       /\ \A r \in v.before \cap cloud : r.id < v.cursor \/ \E n \in 1..Len(v.received) : v.received[n] = r
  BY <1>2, <1>4 DEF Loading
<1>15. ASSUME NEW r \in v.before \cap cloud PROVE r.id < NextCursor(found) \/ \E n \in 1..Len(all) : all[n] = r
  <2>1. CASE \E n \in 1..Len(v.received) : v.received[n] = r
    BY <1>8, <2>1
  <2>2. CASE r.id < v.cursor /\ r.id >= found[PageSize].id
    <3>1. PICK j \in 1..PageSize : found[j] = r
      BY <1>9, <1>10, <2>2
    <3>2. QED
      BY <1>8, <3>1
  <2>3. r.id \in Nat
    BY <1>14 DEF JournalRows
  <2>4. QED
    BY <1>10, <1>11, <1>14, <2>1, <2>2, <2>3
<1>16. Loading(w, cloud, lastRow)
  BY <1>13, <1>14, <1>15 DEF Loading
<1>17. Uploading(w, cloud)
  BY <1>13 DEF Uploading
<1>18. WorkOK(w, cloud, lastRow)
  BY <1>12, <1>16, <1>17 DEF WorkOK
<1>19. QED
  BY <1>1, <1>5, <1>6, <1>18, NotBusyOK, OneTabMoves

\* What a load that comes to its end leaves in the tab.
LEMMA LastPageBrings ==
  ASSUME JournalInv, NEW t \in Tabs, LastPage(t)
  PROVE  /\ RowsOK(rows'[t]) /\ rows' = [rows EXCEPT ![t] = rows'[t]]
         /\ \/ TradesOf(rows[t]) \cup TradesIn(busy[t].before \cap cloud) \subseteq TradesOf(rows'[t])
            \/ Len(rows'[t]) = MaxKept
<1> DEFINE v == busy[t]
           found == Found(t)
           all == Received(t)
           more == [n \in DOMAIN all |-> [trade |-> all[n].trade, source |-> all[n].source]]
           s == Merge(rows[t], more)
<1>1. RowsOK(rows[t]) /\ CloudOK(cloud, lastRow) /\ WorkOK(v, cloud, lastRow) /\ DOMAIN rows = Tabs
  BY DEF JournalInv
<1>2. v \in Works /\ Loading(v, cloud, lastRow) /\ v.doing = "load"
  BY <1>1 DEF WorkOK, LastPage
<1>3. /\ v.received \in Seq(JournalRows) /\ v.cursor \in Int
  BY <1>2, WorkFields
<1>4. Len(found) <= PageSize
  BY DEF LastPage
<1>5. PageSize \in Nat \ {0} /\ PageSize + 1 \in Nat
  BY JournalAssumption
<1>6. /\ all \in Seq(JournalRows) /\ Len(found) \in Nat
      /\ \A k \in 1..Len(v.received) : \E j \in 1..Len(all) : all[j] = v.received[k]
      /\ \A k \in 1..Len(found) : \E j \in 1..Len(all) : all[j] = found[k]
  BY <1>4, ReceivedIs
<1>7. /\ found \in Seq(JournalRows)
      /\ \A r \in cloud : r.id < v.cursor =>
           (Len(found) < PageSize + 1 => \E j \in 1..Len(found) : found[j] = r)
  <2>1. found = Below(v.cursor, PageSize + 1)
    BY DEF Found
  <2>2. CloudOK(cloud, lastRow) /\ v.cursor \in Int /\ PageSize + 1 \in Nat
    BY <1>1, <1>3, <1>5
  <2> HIDE DEF found, v, all, more, s
  <2>3. QED
    BY <2>1, <2>2, BelowFinds
<1>8. rows' = [rows EXCEPT ![t] = s] /\ rows'[t] = s
  BY <1>1 DEF LastPage
<1> HIDE DEF found, all, v
<1>9. DOMAIN all = 1..Len(all) /\ Len(all) \in Nat
  BY <1>6, LenProperties
<1>10. \A n \in 1..Len(all) : all[n].trade \in JournalTrades /\ all[n].source \in Sources
  <2>1. \A n \in 1..Len(all) : all[n] \in JournalRows
    BY <1>6, ElementOfSeq
  <2>2. QED
    BY <2>1 DEF JournalRows
<1>11. more \in Seq(Entered) /\ Len(more) = Len(all)
  <2>1. \A n \in 1..Len(all) : [trade |-> all[n].trade, source |-> all[n].source] \in Entered
    BY <1>10 DEF Entered
  <2>2. more = [n \in 1..Len(all) |-> [trade |-> all[n].trade, source |-> all[n].source]]
    BY <1>9
  <2>3. QED
    BY <1>9, <2>1, <2>2
<1>12. \A n \in 1..Len(all) : more[n].trade = all[n].trade
  BY <1>9
<1> HIDE DEF more
<1>13. \A n \in 1..Len(all) : all[n].trade \in TradesOf(more)
  BY <1>11, <1>12, TradesAre
<1>14. /\ s \in Seq(Entered) /\ Unique(s) /\ Len(s) <= MaxKept
       /\ TradesOf(rows[t]) \cup TradesOf(more) \subseteq TradesOf(s) \/ Len(s) = MaxKept
  BY <1>1, <1>11, MergeKeeps DEF RowsOK
<1>15. ASSUME NEW r \in v.before \cap cloud PROVE r.trade \in TradesOf(more)
  <2>1. r.id < v.cursor \/ \E n \in 1..Len(v.received) : v.received[n] = r
    BY <1>2 DEF Loading
  <2>2. CASE \E n \in 1..Len(v.received) : v.received[n] = r
    BY <1>6, <1>13, <2>2
  <2>3. CASE r.id < v.cursor
    <3>1. Len(found) < PageSize + 1
      BY <1>4, <1>5, <1>6
    <3>2. PICK j \in 1..Len(found) : found[j] = r
      BY <1>7, <2>3, <3>1
    <3>3. QED
      BY <1>6, <1>13, <3>2
  <2>4. QED
    BY <2>1, <2>2, <2>3
<1>16. TradesIn(v.before \cap cloud) \subseteq TradesOf(more)
  BY <1>15 DEF TradesIn
<1> HIDE DEF s
<1>17. QED
  BY <1>8, <1>14, <1>16 DEF RowsOK, v

LEMMA LastPageKeeps ==
  ASSUME JournalInv, NEW t \in Tabs, LastPage(t)
  PROVE  JournalInv'
<1>1. RowsOK(rows'[t]) /\ rows' = [rows EXCEPT ![t] = rows'[t]]
  BY LastPageBrings
<1>2. busy' = [busy EXCEPT ![t] = NotBusy] /\ cloud' = cloud /\ lastRow' = lastRow
  BY DEF LastPage
<1>3. QED
  BY <1>1, <1>2, NotBusyOK, OneTabMoves

LEMMA SendBatchKeeps ==
  ASSUME JournalInv, NEW t \in Tabs, SendBatch(t)
  PROVE  JournalInv'
<1> DEFINE v == busy[t]
           batch == Head(v.batches)
           w == [v EXCEPT !.batches = Tail(v.batches)]
<1>1. /\ DOMAIN rows = Tabs /\ DOMAIN busy = Tabs /\ rows = [u \in Tabs |-> rows[u]]
      /\ CloudOK(cloud, lastRow) /\ \A u \in Tabs : RowsOK(rows[u]) /\ WorkOK(busy[u], cloud, lastRow)
  BY DEF JournalInv
<1>2. v.doing = "upload" /\ v.batches # <<>> /\ Commit(batch) /\ UNCHANGED rows
  BY DEF SendBatch
<1>3. busy' = [busy EXCEPT ![t] = w] \/ busy' = [busy EXCEPT ![t] = NotBusy]
  BY DEF SendBatch, Stops
<1>4. v \in Works /\ Uploading(v, cloud)
  BY <1>1 DEF WorkOK
<1>5. v.batches \in Seq(Seq(Entered))
  BY <1>4, WorkFields
<1>6. /\ batch \in Seq(Entered) /\ Tail(v.batches) \in Seq(Seq(Entered))
      /\ Len(Tail(v.batches)) = Len(v.batches) - 1 /\ Len(v.batches) \in Nat
      /\ \A n \in 1..Len(Tail(v.batches)) : Tail(v.batches)[n] = v.batches[n + 1]
  BY <1>2, <1>5, HeadTailProperties, LenProperties
<1>7. batch = v.batches[1] /\ 1 \in 1..Len(v.batches)
  BY <1>2, <1>5
<1>8. /\ \A n \in 1..Len(v.batches) : Unique(v.batches[n])
      /\ v.wiped \/ \A x \in v.before : \/ x \in TradesIn(cloud)
                                        \/ \E n \in 1..Len(v.batches) : x \in TradesOf(v.batches[n])
  BY <1>2, <1>4 DEF Uploading
<1>9. Unique(batch)
  BY <1>7, <1>8
<1>10. w \in Works
  BY <1>4, <1>6 DEF Works
<1>11. w.doing = "upload" /\ w.batches = Tail(v.batches) /\ w.before = v.before /\ w.wiped = v.wiped
  BY <1>2, <1>4 DEF Works
<1> HIDE DEF v, w, batch
<1>12. /\ CloudOK(cloud', lastRow') /\ lastRow <= lastRow' /\ cloud \subseteq cloud'
       /\ TradesOf(batch) \subseteq TradesIn(cloud')
       /\ \A r \in cloud' \ cloud : r.id > lastRow
  BY <1>1, <1>2, <1>6, <1>9, CommitAdds DEF TradesIn
<1>13. TradesIn(cloud) \subseteq TradesIn(cloud') /\ lastRow \in Int /\ lastRow' \in Int
  BY <1>1, <1>12 DEF TradesIn, CloudOK
<1>14. ASSUME NEW u \in Tabs PROVE WorkOK(busy[u], cloud', lastRow')
  <2>1. busy[u] \in Works /\ Uploading(busy[u], cloud) /\ Loading(busy[u], cloud, lastRow)
    BY <1>1 DEF WorkOK
  <2>2. Uploading(busy[u], cloud')
    BY <1>13, <2>1 DEF Uploading
  <2>3. ASSUME busy[u].doing = "load" PROVE Loading(busy[u], cloud', lastRow')
    <3>1. /\ \A r \in busy[u].before : r \in JournalRows /\ r.id <= lastRow
          /\ \A r \in busy[u].before \cap cloud :
               r.id < busy[u].cursor \/ \E n \in 1..Len(busy[u].received) : busy[u].received[n] = r
      BY <2>1, <2>3 DEF Loading
    <3>2. \A r \in busy[u].before : r.id \in Int
      BY <3>1 DEF JournalRows
    <3>3. \A r \in busy[u].before : r.id <= lastRow'
      BY <1>12, <1>13, <3>1, <3>2
    <3>4. busy[u].before \cap cloud' \subseteq cloud
      BY <1>12, <1>13, <3>1, <3>2
    <3>5. QED
      BY <3>1, <3>3, <3>4 DEF Loading
  <2>4. QED
    BY <2>1, <2>2, <2>3 DEF WorkOK, Loading
<1>15. Uploading(w, cloud')
  <2>1. \A n \in 1..Len(w.batches) : Unique(w.batches[n])
    <3>1. \A n \in 1..Len(Tail(v.batches)) : n + 1 \in 1..Len(v.batches)
      BY <1>6
    <3>2. QED
      BY <1>6, <1>8, <1>11, <3>1
  <2>2. ASSUME NEW x \in v.before, NEW n \in 1..Len(v.batches), x \in TradesOf(v.batches[n])
        PROVE  x \in TradesIn(cloud') \/ \E k \in 1..Len(w.batches) : x \in TradesOf(w.batches[k])
    <3>1. CASE n = 1
      BY <1>7, <1>12, <2>2, <3>1
    <3>2. CASE n # 1
      <4>1. n - 1 \in 1..Len(Tail(v.batches)) /\ (n - 1) + 1 = n
        BY <1>6, <3>2
      <4>2. Tail(v.batches)[n - 1] = v.batches[n]
        BY <1>6, <4>1
      <4>3. QED
        BY <1>11, <2>2, <4>1, <4>2
    <3>3. QED
      BY <3>1, <3>2
  <2>3. w.wiped \/ \A x \in w.before : \/ x \in TradesIn(cloud')
                                       \/ \E n \in 1..Len(w.batches) : x \in TradesOf(w.batches[n])
    BY <1>8, <1>11, <1>13, <2>2
  <2>4. QED
    BY <2>1, <2>3 DEF Uploading
<1>16. WorkOK(w, cloud', lastRow')
  BY <1>10, <1>11, <1>15 DEF WorkOK, Loading
<1>17. PICK z : busy' = [busy EXCEPT ![t] = z] /\ WorkOK(z, cloud', lastRow')
  BY <1>3, <1>16, NotBusyOK
<1>18. DOMAIN busy' = Tabs /\ busy' = [u \in Tabs |-> busy'[u]] /\ \A u \in Tabs : busy'[u] = IF u = t THEN z ELSE busy[u]
  BY <1>1, <1>17
<1>19. \A u \in Tabs : WorkOK(busy'[u], cloud', lastRow')
  BY <1>14, <1>17, <1>18
<1>20. QED
  BY <1>1, <1>2, <1>12, <1>18, <1>19 DEF JournalInv

LEMMA DeleteCloudKeeps ==
  ASSUME JournalInv, NEW t \in Tabs, DeleteCloud(t)
  PROVE  JournalInv'
<1>1. /\ DOMAIN rows = Tabs /\ rows = [u \in Tabs |-> rows[u]]
      /\ CloudOK(cloud, lastRow) /\ \A u \in Tabs : RowsOK(rows[u]) /\ WorkOK(busy[u], cloud, lastRow)
  BY DEF JournalInv
<1>2. UNCHANGED <<rows, lastRow>> /\ cloud' = {}
  BY DEF DeleteCloud
<1>3. busy' = [u \in Tabs |-> [busy[u] EXCEPT !.wiped = busy[u].wiped \/ busy[u] # NotBusy]]
  BY DEF DeleteCloud
<1>4. CloudOK(cloud', lastRow')
  BY <1>1, <1>2, FS_EmptySet DEF CloudOK
<1>5. ASSUME NEW u \in Tabs PROVE WorkOK(busy'[u], cloud', lastRow')
  <2> DEFINE v == busy[u]
             wiped == v.wiped \/ v # NotBusy
             w == [v EXCEPT !.wiped = wiped]
  <2>1. v \in Works /\ Loading(v, cloud, lastRow) /\ Uploading(v, cloud)
    BY <1>1 DEF WorkOK
  <2>2. busy'[u] = w
    BY <1>3
  <2>3. wiped \in BOOLEAN
    BY Zenon
  <2>4. v.doing = "upload" => wiped
    <3>1. NotBusy.doing = "nothing"
      BY DEF NotBusy
    <3>2. QED
      BY <3>1
  <2> HIDE DEF v, wiped
  <2>5. w \in Works
    BY <2>1, <2>3 DEF Works
  <2>6. w.doing = v.doing /\ w.batches = v.batches /\ w.before = v.before /\ w.received = v.received
        /\ w.cursor = v.cursor
    BY <2>1 DEF Works
  <2>7. w.wiped = wiped
    BY <2>1, Zenon DEF Works
  <2> HIDE DEF w
  <2>8. Uploading(w, cloud')
    BY <2>1, <2>4, <2>6, <2>7 DEF Uploading
  <2>9. Loading(w, cloud', lastRow')
    BY <1>2, <2>1, <2>6 DEF Loading
  <2>10. QED
    BY <2>2, <2>5, <2>8, <2>9 DEF WorkOK
<1>6. DOMAIN busy' = Tabs /\ busy' = [u \in Tabs |-> busy'[u]]
  BY <1>3
<1>7. QED
  BY <1>1, <1>2, <1>4, <1>5, <1>6 DEF JournalInv

LEMMA JournalStep == JournalInv /\ [JournalNext]_journalVars => JournalInv'
<1> SUFFICES ASSUME JournalInv, [JournalNext]_journalVars PROVE JournalInv'
  OBVIOUS
<1>1. CASE UNCHANGED journalVars
  BY <1>1, Zenon DEF journalVars, JournalInv
<1>2. CASE JournalNext
  <2>1. PICK t \in Tabs :
          \/ \E entry \in Entries[t] : AddTrade(t, entry)
          \/ LeavePage(t) \/ SignIn(t) \/ TokenExpires(t) \/ SignOut(t)
          \/ Upload(t) \/ SendBatch(t) \/ UploadDone(t)
          \/ Load(t) \/ ReadPage(t) \/ LastPage(t) \/ RequestFails(t) \/ DeleteCloud(t)
    BY <1>2, Zenon DEF JournalNext
  <2>2. CASE \E entry \in Entries[t] : AddTrade(t, entry)
    BY <2>2, AddTradeKeeps
  <2>3. CASE LeavePage(t)
    BY <2>3, StopKeeps DEF LeavePage
  <2>4. CASE SignIn(t)
    BY <2>4, StopKeeps DEF SignIn
  <2>5. CASE TokenExpires(t)
    BY <2>5, StopKeeps DEF TokenExpires
  <2>6. CASE SignOut(t)
    BY <2>6, StopKeeps DEF SignOut
  <2>7. CASE UploadDone(t)
    BY <2>7, StopKeeps DEF UploadDone
  <2>8. CASE RequestFails(t)
    BY <2>8, StopKeeps DEF RequestFails, Stops
  <2>9. QED
    BY <2>1, <2>2, <2>3, <2>4, <2>5, <2>6, <2>7, <2>8, UploadKeeps, SendBatchKeeps, LoadKeeps,
       ReadPageKeeps, LastPageKeeps, DeleteCloudKeeps
<1>3. QED
  BY <1>1, <1>2

\* Whatever tabs, retries and lost answers interleave, for any sizes of a batch and a page and
\* any number of tabs: an upload that reports success has all its records in the cloud unless
\* it was deleted meanwhile, a load that succeeds has all rows in the tab that were there before
\* and after it, and no trade is kept twice (XMICloudSync.jsx:51-97, xmiCloudStore.mjs:37-54).
THEOREM JournalsStayAgreed == JournalSpec => JournalsAgree
<1> DEFINE Agrees ==
      /\ OneOfEach'
      /\ \A t \in Tabs :
           /\ UploadDone(t) => busy[t].wiped \/ busy[t].before \subseteq CloudTrades
           /\ LastPage(t) =>
                \/ TradesOf(rows[t]) \cup {stored.trade : stored \in busy[t].before \cap cloud}
                     \subseteq TradesOf(rows'[t])
                \/ Len(rows'[t]) = MaxKept
<1>1. JournalInv /\ [JournalNext]_journalVars => JournalInv'
  BY JournalStep
<1>2. JournalInv => OneOfEach
  BY DEF JournalInv, OneOfEach, CloudOK, RowsOK
<1>3. ASSUME JournalInv, NEW t \in Tabs, UploadDone(t)
      PROVE  busy[t].wiped \/ busy[t].before \subseteq CloudTrades
  <2>1. Uploading(busy[t], cloud) /\ busy[t].doing = "upload" /\ busy[t].batches = <<>>
    BY <1>3 DEF JournalInv, WorkOK, UploadDone
  <2>2. Len(busy[t].batches) = 0
    BY <2>1
  <2>3. busy[t].wiped \/ \A x \in busy[t].before : x \in TradesIn(cloud)
    BY <2>1, <2>2 DEF Uploading
  <2>4. QED
    BY <2>3 DEF TradesIn, CloudTrades
<1>4. ASSUME JournalInv, NEW t \in Tabs, LastPage(t)
      PROVE  \/ TradesOf(rows[t]) \cup {stored.trade : stored \in busy[t].before \cap cloud} \subseteq TradesOf(rows'[t])
             \/ Len(rows'[t]) = MaxKept
  BY <1>4, LastPageBrings DEF TradesIn
<1>5. JournalInv /\ JournalInv' => Agrees
  <2>1. JournalInv' => OneOfEach'
    BY <1>2 DEF JournalInv, OneOfEach, CloudOK, RowsOK
  <2>2. QED
    BY <1>3, <1>4, <2>1
<1>6. JournalInv /\ [JournalNext]_journalVars => [Agrees]_journalVars
  BY <1>1, <1>5
<1>7. JournalSpec => [][Agrees]_journalVars
  BY <1>1, <1>6, JournalBegins, PTL DEF JournalSpec
<1>8. QED
  BY <1>7, PTL DEF JournalsAgree

SignedIn == {"signed in", "expired", "signed out"}

AccountOK == account \in [Tabs -> SignedIn] /\ upsets \in Nat /\ upsets <= Upsets

\* A step changes the account of one tab at most, and counts an upset at most.
LEMMA AccountStep ==
  ASSUME JournalNext
  PROVE  /\ \/ account' = account
            \/ \E t \in Tabs, a \in SignedIn : account' = [account EXCEPT ![t] = a]
            \/ \E t \in Tabs : account' = [account EXCEPT ![t] = account[t]]
         /\ upsets' = upsets \/ (upsets < Upsets /\ upsets' = upsets + 1)
<1>1. PICK t \in Tabs :
        \/ \E entry \in Entries[t] : AddTrade(t, entry)
        \/ LeavePage(t) \/ SignIn(t) \/ TokenExpires(t) \/ SignOut(t)
        \/ Upload(t) \/ SendBatch(t) \/ UploadDone(t)
        \/ Load(t) \/ ReadPage(t) \/ LastPage(t) \/ RequestFails(t) \/ DeleteCloud(t)
  BY Zenon DEF JournalNext
<1>2. {"signed in", "expired", "signed out"} \subseteq SignedIn
  BY DEF SignedIn
<1>3. CASE \/ \E entry \in Entries[t] : AddTrade(t, entry)
           \/ Upload(t) \/ UploadDone(t) \/ Load(t) \/ ReadPage(t) \/ LastPage(t) \/ DeleteCloud(t)
  <2>1. account' = account
    BY <1>3, Zenon DEF AddTrade, Upload, UploadDone, Load, ReadPage, LastPage, DeleteCloud
  <2>2. upsets' = upsets \/ Upset
    BY <1>3, Zenon DEF AddTrade, Upload, UploadDone, Load, ReadPage, LastPage, DeleteCloud
  <2>3. QED
    BY <2>1, <2>2, Zenon DEF Upset
<1>4. CASE LeavePage(t) \/ SignIn(t) \/ TokenExpires(t) \/ SignOut(t)
  <2>1. \E a \in SignedIn : account' = [account EXCEPT ![t] = a]
    BY <1>2, <1>4, Zenon DEF LeavePage, SignIn, TokenExpires, SignOut
  <2>2. upsets' = upsets \/ Upset
    BY <1>4, Zenon DEF LeavePage, SignIn, TokenExpires, SignOut
  <2>3. QED
    BY <2>1, <2>2, Zenon DEF Upset
<1>5. CASE SendBatch(t) \/ RequestFails(t)
  <2>1. \/ account' = account
        \/ account' = [account EXCEPT ![t] = IF account[t] = "expired" THEN "signed out" ELSE account[t]]
    BY <1>5, Zenon DEF SendBatch, RequestFails, Stops
  <2>2. \/ account' = account
        \/ account' = [account EXCEPT ![t] = "signed out"]
        \/ account' = [account EXCEPT ![t] = account[t]]
    BY <2>1, Zenon
  <2>3. upsets' = upsets \/ Upset
    BY <1>5, Zenon DEF SendBatch, RequestFails
  <2>4. QED
    BY <1>1, <1>2, <2>2, <2>3, Zenon DEF Upset
<1>6. QED
  BY <1>1, <1>3, <1>4, <1>5

LEMMA AccountKept == AccountOK /\ [JournalNext]_journalVars => AccountOK'
<1> SUFFICES ASSUME AccountOK, [JournalNext]_journalVars PROVE AccountOK'
  OBVIOUS
<1>1. CASE UNCHANGED journalVars
  BY <1>1, Zenon DEF journalVars, AccountOK
<1>2. CASE JournalNext
  <2>1. account' \in [Tabs -> SignedIn]
    BY <1>2, AccountStep DEF AccountOK
  <2>2. upsets' = upsets \/ (upsets < Upsets /\ upsets' = upsets + 1)
    BY <1>2, AccountStep
  <2>3. upsets' \in Nat /\ upsets' <= Upsets
    BY <2>2, JournalAssumption DEF AccountOK
  <2>4. QED
    BY <2>1, <2>3 DEF AccountOK
<1>3. QED
  BY <1>1, <1>2

LEMMA JournalTyped == JournalSpec => []JournalTypeOK
<1>1. JournalInit => AccountOK
  <2>1. "signed in" \in SignedIn
    BY DEF SignedIn
  <2>2. 0 \in Nat /\ 0 <= Upsets
    BY JournalAssumption
  <2>3. ASSUME JournalInit PROVE account = [t \in Tabs |-> "signed in"] /\ upsets = 0
    BY <2>3, Zenon DEF JournalInit
  <2>4. ASSUME JournalInit PROVE account \in [Tabs -> SignedIn]
    BY <2>1, <2>3, <2>4
  <2>5. QED
    BY <2>2, <2>3, <2>4 DEF AccountOK
<1>2. JournalInv /\ AccountOK => JournalTypeOK
  <2> SUFFICES ASSUME JournalInv, AccountOK PROVE JournalTypeOK
    OBVIOUS
  <2>1. ASSUME NEW t \in Tabs PROVE Len(rows[t]) <= MaxKept
    BY DEF JournalInv, RowsOK
  <2>2. ASSUME NEW t \in Tabs PROVE account[t] \in {"signed in", "expired", "signed out"}
    BY DEF AccountOK, SignedIn
  <2>3. ASSUME NEW t \in Tabs PROVE busy[t].doing \in {"nothing", "upload", "load"}
    <3>1. busy[t] \in Works
      BY DEF JournalInv, WorkOK
    <3>2. QED
      BY <3>1 DEF Works
  <2>4. lastRow \in 0..LastRow
    BY JournalAssumption DEF JournalInv, CloudOK
  <2>5. upsets \in 0..Upsets
    BY JournalAssumption DEF AccountOK
  <2>6. QED
    BY <2>1, <2>2, <2>3, <2>4, <2>5 DEF JournalTypeOK
<1>3. QED
  BY <1>1, <1>2, JournalBegins, JournalStep, AccountKept, PTL DEF JournalSpec

--------------------------------------------------------------------------------
(***************************************************************************)
(* The services together, as they are checked: each behaviour is one of a  *)
(* service that nobody else's steps touch.                                 *)
(***************************************************************************)
LEMMA EachService ==
  /\ Spec => SessionSpec
  /\ Spec => DryRunSpec
  /\ Spec => JournalSpec
<1>1. Init => SessionInit /\ DryRunInit /\ JournalInit
  BY DEF Init
<1>2. [Next]_vars => [SessionNext]_sessionVars
  BY Zenon DEF Next, vars, Session, DryRun, Journal
<1>3. [Next]_vars => [DryRunNext]_dryRunVars
  BY Zenon DEF Next, vars, Session, DryRun, Journal
<1>4. [Next]_vars => [JournalNext]_journalVars
  BY Zenon DEF Next, vars, Session, DryRun, Journal
<1> QED BY <1>1, <1>2, <1>3, <1>4, PTL DEF Spec, SessionSpec, DryRunSpec, JournalSpec

\* The types of the three services, for any callers, tries, tabs and bounds: the clock and the
\* tokens of the broker session, the row and the tries of the dry run, and the records of a tab
\* (tradelocker.js:12-92, scalp-dry-run/route.js:14-110, XMICoachPanel.jsx:33-40).
THEOREM ServicesTypeCorrect == Spec => []TypeOK
<1>1. TypeOK <=> SessionTypeOK /\ DryRunTypeOK /\ JournalTypeOK
  BY DEF TypeOK
<1> QED BY <1>1, EachService, SessionTyped, DryRunTyped, JournalTyped, PTL

================================================================================
