--------------------- MODULE TradeGatewayPromise_proofs ---------------------
(***************************************************************************)
(* What the gateway promises: rows follow the transition table; where      *)
(* every instance has the database the gateway implements OrderPromise;    *)
(* and rows and events tell what became of a trade.                        *)
(***************************************************************************)
EXTENDS TradeGateway_proofs

(***************************************************************************)
(* One request acts at a time.  What it may do to control, rows and keys.  *)
(***************************************************************************)
Common(p) ==
  \/ ReadState(p) \/ CasState(p) \/ LogTransition(p) \/ SkipTracking(p) \/ ReadList(p)
  \/ RecordErrorOnly(p) \/ ReadFails(p) \/ QueryFails(p) \/ Crash(p)
Acts(p) ==
  \/ Common(p)
  \/ p \in Orders /\ OrderStep(p)
  \/ p \in Verifiers /\ VerifierStep(p)
  \/ p \in Closers /\ CloserStep(p)

LEMMA StepActs ==
  ASSUME [Next]_vars
  PROVE  \/ UNCHANGED <<runs, control, request>> /\ (BrokerMoves \/ UNCHANGED broker)
         \/ \E q \in Procs : Acts(q)
<1>1. CASE UNCHANGED vars
  BY <1>1 DEF vars, db
<1>2. CASE BrokerMoves
  BY <1>2 DEF BrokerMoves, db
<1>3. ASSUME NEW p \in Procs, Transition(p) \/ SkipTracking(p) \/ ReadList(p) \/ RecordErrorOnly(p)
                              \/ ReadFails(p) \/ QueryFails(p) \/ Crash(p)
      PROVE  Acts(p)
  BY <1>3 DEF Transition, Acts, Common
<1>4. ASSUME NEW r \in Orders, OrderStep(r) PROVE r \in Procs /\ Acts(r)
  BY <1>4 DEF Acts, Procs
<1>5. ASSUME NEW v \in Verifiers, VerifierStep(v) PROVE v \in Procs /\ Acts(v)
  BY <1>5 DEF Acts, Procs
<1>6. ASSUME NEW c \in Closers, CloserStep(c) PROVE c \in Procs /\ Acts(c)
  BY <1>6 DEF Acts, Procs
<1> QED
  BY <1>1, <1>2, <1>3, <1>4, <1>5, <1>6 DEF Next, NextOf

Moves(q) == (\E s, c : Goto(q, s, c)) \/ UNCHANGED <<pc, ph, cur, seen>>

LEMMA AcknowledgeMoves == \A q, s, c : Acknowledge(q, s, c) => Moves(q)
  BY Zenon DEF Acknowledge, Moves

LEMMA OrderStepMoves == ASSUME NEW r, OrderStep(r) PROVE Moves(r)
<1>1. CASE Arrive(r)
  BY <1>1, Zenon DEF Arrive, Moves
<1>2. CASE CreateTradeRun(r)
  BY <1>2, AcknowledgeMoves DEF CreateTradeRun, Moves
<1>3. CASE LogCreated(r) \/ UpdateFromPreview(r) \/ UpdateBrokerResponse(r)
  BY <1>3, AcknowledgeMoves, Zenon DEF LogCreated, UpdateFromPreview, UpdateBrokerResponse
<1>4. CASE EvaluateRisk(r) \/ PostOrder(r) \/ BrokerAnswers(r)
  BY <1>4, Zenon DEF EvaluateRisk, PostOrder, BrokerAnswers, Moves
<1>5. CASE DecideFirst(r) \/ DecideFinal(r)
  BY <1>5, Zenon DEF DecideFirst, DecideFinal, Moves
<1> QED
  BY <1>1, <1>2, <1>3, <1>4, <1>5 DEF OrderStep

LEMMA OtherStepMoves == ASSUME NEW p, VerifierStep(p) \/ CloserStep(p) PROVE Moves(p)
<1>1. CASE AskVerification(p) \/ MatchRows(p)
  BY <1>1, Zenon DEF AskVerification, MatchRows, Moves
<1>2. CASE StoreVerification(p) \/ LogVerification(p) \/ LogClose(p) \/ StoreClose(p)
  BY <1>2, AcknowledgeMoves, Zenon DEF StoreVerification, LogVerification, LogClose, StoreClose
<1>3. CASE AskClose(p)
  BY <1>3, Zenon DEF AskClose, Moves
<1>4. CASE DeletePosition(p) \/ DeleteAnswers(p)
  BY <1>4, Zenon DEF DeletePosition, DeleteAnswers, Moves
<1> QED
  BY <1>1, <1>2, <1>3, <1>4 DEF VerifierStep, CloserStep

LEMMA ActsMoves == ASSUME NEW p, Acts(p) PROVE ReadState(p) \/ CasState(p) \/ ReadList(p) \/ Moves(p)
<1>1. CASE LogTransition(p) \/ RecordErrorOnly(p)
  BY <1>1, AcknowledgeMoves, Zenon DEF LogTransition, RecordErrorOnly
<1>2. CASE SkipTracking(p) \/ QueryFails(p) \/ Crash(p)
  BY <1>2, Zenon DEF SkipTracking, QueryFails, Crash, Moves
<1>3. CASE ReadFails(p)
  <2>1. Goto(p, OnThrow(p), NoState) \/ UNCHANGED <<pc, ph, cur, seen>>
    BY <1>3 DEF ReadFails
  <2> QED
    BY <2>1, Zenon DEF Moves
<1> QED
  BY <1>1, <1>2, <1>3, OrderStepMoves, OtherStepMoves DEF Acts, Common

LEMMA GotoAt ==
  ASSUME TypeInv, NEW q \in Procs, NEW s, NEW c, Goto(q, s, c)
  PROVE  /\ pc'[q] = s /\ ph'[q] = "read" /\ cur'[q] = c
         /\ seen'[q] = seen[q] \/ seen'[q] = [l \in Lists |-> {}]
         /\ \A p \in Procs \ {q} : /\ pc'[p] = pc[p] /\ ph'[p] = ph[p] /\ cur'[p] = cur[p]
                                   /\ seen'[p] = seen[p]
  BY DEF Goto, TypeInv, ControlOK

(* The others stay where they are.                                           *)
LEMMA OthersStay ==
  ASSUME TypeInv, NEW q \in Procs, Acts(q), NEW p \in Procs \ {q}
  PROVE  pc'[p] = pc[p] /\ ph'[p] = ph[p] /\ cur'[p] = cur[p] /\ seen'[p] = seen[p]
<1>1. CASE Moves(q)
  BY <1>1, GotoAt DEF Moves
<1>2. CASE ReadList(q)
  BY <1>2 DEF ReadList, TypeInv, ControlOK
<1>3. CASE ReadState(q)
  <2>1. \/ Goto(q, OnThrow(q), NoState)
        \/ /\ ph' = [ph EXCEPT ![q] = ph'[q]] /\ cur' = [cur EXCEPT ![q] = cur'[q]]
           /\ UNCHANGED <<pc, seen>>
    BY <1>3 DEF ReadState, TypeInv, ControlOK
  <2> QED
    BY <2>1, GotoAt DEF TypeInv, ControlOK
<1>4. CASE CasState(q)
  <2>1. \/ Goto(q, OnThrow(q), NoState)
        \/ ph' = [ph EXCEPT ![q] = "log"] /\ UNCHANGED <<pc, cur, seen>>
    BY <1>4 DEF CasState
  <2> QED
    BY <2>1, GotoAt DEF TypeInv, ControlOK
<1> QED
  BY <1>1, <1>2, <1>3, <1>4, ActsMoves

(* The state of a row changes only when it is inserted and where a transition    *)
(* finds it as it was read.                                                      *)
Same == \A k \in Keys : runs'[k].state = runs[k].state

LEMMA OrderStepRows ==
  ASSUME TypeInv, NEW r \in Orders, OrderStep(r), ~ CreateTradeRun(r)
  PROVE  Same
<1>1. CASE UNCHANGED runs
  BY <1>1 DEF Same
<1>2. CASE UpdateFromPreview(r) \/ UpdateBrokerResponse(r)
  <2>1. key[r] \in Keys
    BY <1>2 DEF UpdateFromPreview, UpdateBrokerResponse, Tracked, TypeInv, DataOK, Procs
  <2> QED
    BY <1>2, <2>1 DEF UpdateFromPreview, UpdateBrokerResponse, Same, TypeInv, DataOK, Row
<1> QED
  BY <1>1, <1>2 DEF OrderStep, Arrive, LogCreated, EvaluateRisk, DecideFirst, DecideFinal, PostOrder,
     BrokerAnswers, db

LEMMA OtherStepRows == ASSUME TypeInv, NEW p, VerifierStep(p) \/ CloserStep(p) PROVE Same
<1>1. CASE VerifierStep(p)
  BY <1>1 DEF VerifierStep, AskVerification, MatchRows, StoreVerification, LogVerification, db,
     TypeInv, DataOK, Row, Same
<1>2. CASE CloserStep(p)
  BY <1>2 DEF CloserStep, AskClose, LogClose, DeletePosition, DeleteAnswers, StoreClose, db,
     TypeInv, DataOK, Row, Same
<1> QED
  BY <1>1, <1>2

LEMMA ActsRows ==
  ASSUME TypeInv, NEW p, Acts(p)
  PROVE  Same \/ CasState(p) \/ (p \in Orders /\ CreateTradeRun(p))
<1>1. CASE UNCHANGED runs
  BY <1>1 DEF Same
<1>2. CASE RecordErrorOnly(p)
  BY <1>2 DEF RecordErrorOnly, Same, TypeInv, DataOK, Row
<1> QED
  BY <1>1, <1>2, OrderStepRows, OtherStepRows DEF Acts, Common, ReadState, LogTransition,
     SkipTracking, ReadList, ReadFails, QueryFails, Crash, db

(* What an update or an insert does to the states of the rows.               *)
LEMMA CasStateRows ==
  ASSUME TypeInv, NEW p \in Procs, CasState(p)
  PROVE  /\ ph[p] = "cas" /\ pc[p] \in TransitionSteps /\ Tracked(p) /\ key[p] \in Keys
         /\ \/ Same
            \/ /\ runs[key[p]].state = cur[p] /\ runs'[key[p]].state = TargetOf[pc[p]]
               /\ \A k \in Keys \ {key[p]} : runs'[k].state = runs[k].state
<1>1. ph[p] = "cas" /\ pc[p] \in TransitionSteps /\ Tracked(p) /\ key[p] \in Keys
  BY DEF CasState, TypeInv, KeysOK, DataOK, Tracked
<1>2. CASE UNCHANGED runs
  BY <1>1, <1>2 DEF Same
<1>3. CASE /\ StillCurrent(p)
           /\ runs' = [runs EXCEPT ![key[p]].state = TargetOf[pc[p]],
                                   ![key[p]].error = @ \/ pc[p] = "unknown"]
  BY <1>1, <1>3 DEF StillCurrent, TypeInv, DataOK, Row
<1> QED
  BY <1>1, <1>2, <1>3 DEF CasState

LEMMA CreateTradeRunRows ==
  ASSUME TypeInv, NEW r \in Orders, CreateTradeRun(r)
  PROVE  /\ pc[r] = "insert" /\ key[r] \in Keys
         /\ \/ Same
            \/ /\ NoRun(key[r]) /\ runs'[key[r]].state = "SIGNAL_CREATED"
               /\ \A k \in Keys \ {key[r]} : runs'[k].state = runs[k].state
<1>1. pc[r] = "insert" /\ key[r] \in Keys
  BY DEF CreateTradeRun, TypeInv, KeysOK
<1>2. CASE UNCHANGED runs
  BY <1>1, <1>2 DEF Same
<1>3. CASE /\ NoRun(key[r])
           /\ runs' = [runs EXCEPT ![key[r]] = [NoRow EXCEPT !.state = "SIGNAL_CREATED",
                                                            !.dryRun = ~ env[r].live]]
  BY <1>1, <1>3 DEF NoRow, TypeInv, DataOK
<1> QED
  BY <1>1, <1>2, <1>3 DEF CreateTradeRun, Inserts

(* A request keeps its key and its environment, but where it starts.         *)
Starts(p) == (p \in Orders /\ Arrive(p)) \/ (p \in Verifiers /\ AskVerification(p))
               \/ (p \in Closers /\ AskClose(p))

LEMMA ActsKeys ==
  ASSUME TypeInv, NEW q \in Procs, Acts(q)
  PROVE  /\ \A p \in Procs \ {q} : key'[p] = key[p] /\ env'[p] = env[p]
         /\ Starts(q) \/ (key'[q] = key[q] /\ env'[q] = env[q] /\ pc[q] # "idle")
         /\ UNCHANGED broker \/ (q \in Orders /\ PostOrder(q))
<1>1. CASE Common(q)
  <2>1. UNCHANGED <<broker, key, env>>
    BY <1>1 DEF Common, ReadState, CasState, LogTransition, SkipTracking, ReadList, RecordErrorOnly,
       ReadFails, QueryFails, Crash, db, request
  <2>2. pc[q] # "idle"
    BY <1>1 DEF Common, ReadState, CasState, LogTransition, SkipTracking, ReadList, RecordErrorOnly,
       ReadFails, QueryFails, Crash, InDb, TypeInv, KeysOK, TransitionSteps, TargetOf, StoreSteps,
       CloseLogSteps, ReadSteps
  <2> QED
    BY <2>1, <2>2
<1>2. CASE q \in Orders /\ OrderStep(q)
  BY <1>2 DEF OrderStep, Arrive, CreateTradeRun, LogCreated, EvaluateRisk, UpdateFromPreview,
     DecideFirst, DecideFinal, PostOrder, BrokerAnswers, UpdateBrokerResponse, request, Starts,
     TypeInv, DataOK
<1>3. CASE q \in Verifiers /\ VerifierStep(q)
  BY <1>3 DEF VerifierStep, AskVerification, MatchRows, StoreVerification, LogVerification, request,
     Starts, TypeInv, DataOK
<1>4. CASE q \in Closers /\ CloserStep(q)
  BY <1>4 DEF CloserStep, AskClose, LogClose, DeletePosition, DeleteAnswers, StoreClose, request,
     CloseLogSteps, Starts, TypeInv, DataOK
<1> QED
  BY <1>1, <1>2, <1>3, <1>4 DEF Acts

(***************************************************************************)
(* TransitionsAllowed: a request at its update has decided on an edge of   *)
(* the table, and the update finds the row as it was read.                 *)
(***************************************************************************)
CasOK == \A p \in Procs : ph[p] = "cas" => <<cur[p], TargetOf[pc[p]]>> \in Allowed

LEMMA ActsCas ==
  ASSUME TypeInv, NEW q \in Procs, Acts(q),
         ph[q] = "cas" => <<cur[q], TargetOf[pc[q]]>> \in Allowed
  PROVE  ph'[q] = "cas" => <<cur'[q], TargetOf[pc'[q]]>> \in Allowed
<1>1. CASE Moves(q)
  BY <1>1, GotoAt DEF Moves
<1>2. CASE ReadList(q)
  BY <1>2 DEF ReadList
<1>3. CASE ReadState(q)
  <2>1. \/ Goto(q, OnThrow(q), NoState)
        \/ ph'[q] = "log"
        \/ cur'[q] = runs[key[q]].state /\ pc'[q] = pc[q]
             /\ <<runs[key[q]].state, TargetOf[pc[q]]>> \in Allowed
    BY <1>3 DEF ReadState, TypeInv, ControlOK
  <2> QED
    BY <2>1, GotoAt
<1>4. CASE CasState(q)
  <2>1. Goto(q, OnThrow(q), NoState) \/ ph' = [ph EXCEPT ![q] = "log"]
    BY <1>4 DEF CasState
  <2> QED
    BY <2>1, GotoAt DEF TypeInv, ControlOK
<1> QED
  BY <1>1, <1>2, <1>3, <1>4, ActsMoves

LEMMA StepCas == ASSUME TypeInv, CasOK, [Next]_vars PROVE CasOK'
<1>1. CASE UNCHANGED control
  BY <1>1 DEF control, CasOK
<1>2. ASSUME NEW q \in Procs, Acts(q) PROVE CasOK'
  <2>1. ph'[q] = "cas" => <<cur'[q], TargetOf[pc'[q]]>> \in Allowed
    BY <1>2, ActsCas DEF CasOK
  <2>2. ASSUME NEW p \in Procs \ {q}, ph'[p] = "cas"
        PROVE  <<cur'[p], TargetOf[pc'[p]]>> \in Allowed
    <3>1. pc'[p] = pc[p] /\ ph'[p] = ph[p] /\ cur'[p] = cur[p]
      BY <1>2, OthersStay
    <3> QED
      BY <2>2, <3>1 DEF CasOK
  <2> QED
    BY <2>1, <2>2 DEF CasOK
<1> QED
  BY <1>1, <1>2, StepActs

\* Concurrent requests move a row only along ALLOWED_TRANSITIONS of tradeState.js.
THEOREM OnTheTable == Spec => TransitionsAllowed
<1> DEFINE Moved == \A k \in Keys : ~ NoRun(k) /\ runs[k].state # runs'[k].state =>
                       <<runs[k].state, runs'[k].state>> \in Allowed
<1>1. Init => CasOK
  BY DEF Init, CasOK
<1>2. TypeInv /\ CasOK /\ [Next]_vars => CasOK'
  BY StepCas
<1>3. TypeInv /\ CasOK /\ [Next]_vars => [Moved]_runs
  <2> SUFFICES ASSUME TypeInv, CasOK, [Next]_vars PROVE Moved
    OBVIOUS
  <2>1. CASE Same \/ UNCHANGED runs
    BY <2>1 DEF Same
  <2>2. ASSUME NEW p \in Procs, CasState(p) PROVE Moved
    BY <2>2, CasStateRows DEF CasOK, Same
  <2>3. ASSUME NEW r \in Orders, CreateTradeRun(r) PROVE Moved
    BY <2>3, CreateTradeRunRows DEF Same, NoRun
  <2> QED
    BY <2>1, <2>2, <2>3, StepActs, ActsRows
<1> QED
  BY <1>1, <1>2, <1>3, TypeInvariant, PTL DEF Spec, TransitionsAllowed

(***************************************************************************)
(* KeepsPromise.  The state of a row is the decision about its key, so a   *)
(* commitment must stand: whoever moves a row from an execution state      *)
(* keeps it among them.  An order request that refuses its row has not     *)
(* sent, so no verifier and no closer, which act only on keys with an      *)
(* order at the broker, can have moved that row before.                    *)
(***************************************************************************)
Backed(k) == \E r \in Orders : key[r] = k /\ Sent(r)

SeenOK == \A p \in Procs : \A l \in Lists : \A r \in seen[p][l] : r \in Orders /\ Sent(r)
BackedOK ==
  /\ \A v \in Verifiers : pc[v] \in TransitionSteps => Backed(key[v])
  /\ \A c \in Closers : Tracked(c) /\ pc[c] # "idle" => Backed(key[c])
QuietOK == \A r \in Orders : Owner(r) /\ ~ Committed(r) => runs[key[r]].state \notin ExecutionStates

PromiseInv == SafeInv /\ CasOK /\ SeenOK /\ BackedOK /\ QuietOK

(* What was sent stays sent, for the same key; only PostOrder sends.         *)
LEMMA SentStable ==
  ASSUME TypeInv, [Next]_vars, NEW r \in Orders
  PROVE  /\ Sent(r) => Sent(r)' /\ key'[r] = key[r]
         /\ Sent(r)' => Sent(r) \/ PostOrder(r)
<1>1. CASE UNCHANGED request /\ (BrokerMoves \/ UNCHANGED broker)
  BY <1>1 DEF BrokerMoves, request, Sent, TypeInv, DataOK
<1>2. ASSUME NEW q \in Procs, Acts(q)
      PROVE  /\ Sent(r) => Sent(r)' /\ key'[r] = key[r]
             /\ Sent(r)' => Sent(r) \/ PostOrder(r)
  <2>1. /\ q # r => key'[r] = key[r]
        /\ Starts(q) \/ (key'[q] = key[q] /\ env'[q] = env[q] /\ pc[q] # "idle")
        /\ UNCHANGED broker \/ (q \in Orders /\ PostOrder(q))
    BY <1>2, ActsKeys DEF Procs
  <2>2. Sent(r) => pc[r] # "idle"
    BY DEF TypeInv, KeysOK, Sent
  <2>3. q = r /\ Starts(q) => pc[r] = "idle"
    BY RequestsDistinct DEF Starts, Arrive
  <2>4. PostOrder(q) /\ q \in Orders => broker' = [broker EXCEPT ![q] = "wire"]
    BY DEF PostOrder
  <2> QED
    BY <2>1, <2>2, <2>3, <2>4 DEF Sent, TypeInv, DataOK
<1> QED
  BY <1>1, <1>2, StepActs

LEMMA BackedStable == ASSUME TypeInv, [Next]_vars, NEW k, Backed(k) PROVE Backed(k)'
  BY SentStable DEF Backed

(* Whoever reads a list of the broker sees orders that were sent.            *)
LEMMA ReadListSeen ==
  ASSUME TypeInv, SeenOK, NEW q \in Procs, ReadList(q), NEW l \in Lists, NEW r \in seen'[q][l]
  PROVE  r \in Orders /\ Sent(r)
<1>1. PICK m \in todo[q] : seen' = [seen EXCEPT ![q][m] = {o \in Orders : broker[o] \in Holds(m)}]
  BY DEF ReadList
<1>2. m \in Lists
  BY DEF TypeInv, ControlOK
<1>3. \/ seen'[q][l] = seen[q][l]
      \/ l = m /\ seen'[q][l] = {o \in Orders : broker[o] \in Holds(m)}
  BY <1>1, <1>2 DEF TypeInv, ControlOK
<1>4. "none" \notin Holds(m)
  BY <1>2 DEF Holds, Lists
<1> QED
  BY <1>3, <1>4 DEF SeenOK, Sent

LEMMA ActsSeen ==
  ASSUME TypeInv, SeenOK, NEW q \in Procs, Acts(q), NEW l \in Lists, NEW r \in seen'[q][l]
  PROVE  r \in Orders /\ Sent(r)
<1>1. CASE Moves(q)
  <2>1. seen'[q] = seen[q] \/ seen'[q] = [m \in Lists |-> {}]
    BY <1>1, GotoAt DEF Moves
  <2> QED
    BY <2>1 DEF SeenOK
<1>2. CASE ReadList(q)
  BY <1>2, ReadListSeen
<1>3. CASE ReadState(q) \/ CasState(q)
  <2>1. UNCHANGED seen \/ Goto(q, OnThrow(q), NoState)
    BY <1>3 DEF ReadState, CasState
  <2>2. seen'[q] = seen[q] \/ seen'[q] = [m \in Lists |-> {}]
    BY <2>1, GotoAt
  <2> QED
    BY <2>2 DEF SeenOK
<1> QED
  BY <1>1, <1>2, <1>3, ActsMoves

LEMMA StepSeen == ASSUME TypeInv, SeenOK, [Next]_vars PROVE SeenOK'
<1>1. ASSUME NEW p \in Procs, NEW l \in Lists, NEW r \in seen'[p][l]
      PROVE  r \in Orders /\ Sent(r)
  <2>1. CASE UNCHANGED control
    BY <1>1, <2>1 DEF control, SeenOK
  <2>2. ASSUME NEW q \in Procs, Acts(q) PROVE r \in Orders /\ Sent(r)
    <3>1. CASE q = p
      BY <1>1, <2>2, <3>1, ActsSeen
    <3>2. CASE q # p
      <4>1. seen'[p] = seen[p]
        BY <2>2, <3>2, OthersStay
      <4> QED
        BY <1>1, <4>1 DEF SeenOK
    <3> QED
      BY <3>1, <3>2
  <2> QED
    BY <2>1, <2>2, StepActs
<1> QED
  BY <1>1, SentStable DEF SeenOK

(* A verifier asks for a transition only when it has found the order at the  *)
(* broker.                                                                   *)
LEMMA AfterBacked ==
  ASSUME TypeInv, SeenOK, NEW v \in Verifiers, After(v) \in TransitionSteps,
         pc[v] \in VerifySteps \ {"vStore"}
  PROVE  Backed(key[v])
<1>1. v \in Procs
  BY DEF Procs
<1>2. \A s : Advance(v, s) # "idle" => \E l \in Lists : \E r \in seen[v][l] : key[r] = key[v]
  BY DEF Advance, Lists
<1>3. \E s : After(v) = Advance(v, s)
  BY DEF After, VerifySteps
<1>4. "idle" \notin TransitionSteps
  BY DEF TransitionSteps, TargetOf
<1> QED
  BY <1>1, <1>2, <1>3, <1>4 DEF SeenOK, Backed

LEMMA VerifierNext ==
  ASSUME TypeInv, NEW v \in Verifiers, Acts(v)
  PROVE  \/ pc'[v] = pc[v]
         \/ pc'[v] \in {"idle", "vRead", "vStore", "vLog"}
         \/ pc'[v] = After(v) /\ pc[v] \in VerifySteps \ {"vStore"}
<1>0. v \in Procs /\ v \notin Orders /\ v \notin Closers /\ pc[v] \in VerifierSteps
  BY StepsDisjoint, RequestsDistinct DEF Procs, TypeInv, ControlOK
<1>1. OnThrow(v) = "idle"
  BY <1>0 DEF OnThrow, VerifierSteps, VerifySteps
<1>2. ASSUME NEW s, NEW c, Goto(v, s, c) PROVE pc'[v] = s
  BY <1>0, <1>2, GotoAt
<1>3. ASSUME NEW s, NEW c, Acknowledge(v, s, c) PROVE pc'[v] \in {s, "idle"}
  BY <1>1, <1>2, <1>3 DEF Acknowledge
<1>4. CASE LogTransition(v) \/ LogVerification(v)
  <2>1. pc[v] \in VerifySteps \ {"vStore"}
    BY <1>0, <1>4 DEF LogTransition, LogVerification, TypeInv, KeysOK, VerifierSteps, VerifySteps,
       TransitionSteps, TargetOf
  <2>2. Acknowledge(v, After(v), NoState)
    BY <1>4 DEF LogTransition, LogVerification
  <2> QED
    BY <1>3, <2>1, <2>2
<1>5. CASE SkipTracking(v) \/ RecordErrorOnly(v)
  BY <1>0, <1>5, NoKeyAssumption DEF SkipTracking, RecordErrorOnly, Tracked, TypeInv, KeysOK, VerifierSteps,
     VerifySteps, TransitionSteps, TargetOf, StoreSteps
<1>6. CASE ReadState(v) \/ CasState(v) \/ ReadList(v) \/ ReadFails(v)
  <2>1. UNCHANGED pc \/ Goto(v, OnThrow(v), NoState)
    BY <1>6 DEF ReadState, CasState, ReadList, ReadFails
  <2> QED
    BY <1>1, <1>2, <2>1
<1>7. CASE QueryFails(v) \/ Crash(v)
  <2>1. Goto(v, "idle", NoState)
    BY <1>0, <1>1, <1>7 DEF QueryFails, Crash
  <2> QED
    BY <1>2, <2>1
<1>8. CASE AskVerification(v) \/ MatchRows(v)
  <2>1. \E s \in {"idle", "vRead", "vStore"} : Goto(v, s, NoState)
    BY <1>8 DEF AskVerification, MatchRows
  <2> QED
    BY <1>2, <2>1
<1>9. CASE StoreVerification(v)
  BY <1>3, <1>9 DEF StoreVerification
<1> QED
  BY <1>0, <1>4, <1>5, <1>6, <1>7, <1>8, <1>9 DEF Acts, Common, VerifierStep

LEMMA StepBacked == ASSUME TypeInv, SeenOK, BackedOK, [Next]_vars PROVE BackedOK'
<1>1. ASSUME NEW v \in Verifiers, pc'[v] \in TransitionSteps PROVE Backed(key'[v])
  <2>0. v \in Procs
    BY DEF Procs
  <2>1. CASE pc'[v] = pc[v] /\ key'[v] = key[v]
    BY <1>1, <2>1 DEF BackedOK
  <2>2. ASSUME NEW q \in Procs \ {v}, Acts(q) PROVE pc'[v] = pc[v] /\ key'[v] = key[v]
    BY <2>0, <2>2, OthersStay, ActsKeys
  <2>3. CASE Acts(v)
    <3>1. \/ pc'[v] = pc[v] /\ pc[v] # "idle"
          \/ pc'[v] = After(v) /\ pc[v] \in VerifySteps \ {"vStore"}
      BY <1>1, <2>3, VerifierNext DEF TransitionSteps, TargetOf
    <3>2. ~ Starts(v)
      BY <3>1, RequestsDistinct DEF Starts, AskVerification, VerifySteps
    <3>3. key'[v] = key[v]
      BY <2>0, <2>3, <3>2, ActsKeys
    <3> QED
      BY <1>1, <3>1, <3>3, AfterBacked DEF BackedOK
  <2>4. CASE UNCHANGED <<control, request>>
    BY <2>1, <2>4 DEF control, request
  <2> QED
    BY <2>1, <2>2, <2>3, <2>4, StepActs
<1>2. ASSUME NEW c \in Closers, Tracked(c)', pc'[c] # "idle" PROVE Backed(key'[c])
  <2>0. c \in Procs
    BY DEF Procs
  <2>1. CASE key'[c] = key[c] /\ env'[c] = env[c] /\ pc[c] # "idle"
    BY <1>2, <2>1 DEF BackedOK, Tracked
  <2>2. ASSUME NEW q \in Procs \ {c}, Acts(q)
        PROVE  key'[c] = key[c] /\ env'[c] = env[c] /\ pc[c] # "idle"
    BY <1>2, <2>0, <2>2, OthersStay, ActsKeys
  <2>3. CASE Acts(c) /\ ~ Starts(c)
    BY <2>0, <2>1, <2>3, ActsKeys
  <2>4. CASE AskClose(c)
    <3>1. PICK o \in Orders : broker[o] \in {"open", "final"} /\ key'[c] \in {key[o], NoKey}
      BY <2>0, <2>4 DEF AskClose, TypeInv, DataOK
    <3> QED
      BY <1>2, <3>1 DEF Backed, Sent, Tracked
  <2>5. CASE UNCHANGED <<control, request>>
    BY <1>2, <2>1, <2>5 DEF control, request
  <2> QED
    BY <2>1, <2>2, <2>3, <2>4, <2>5, StepActs, RequestsDistinct DEF Starts
<1> QED
  BY <1>1, <1>2, BackedStable DEF BackedOK

(* An order request that is committed stays so while it owns its row.        *)
LEMMA OrderNext ==
  ASSUME SafeInv, NEW r \in Orders, Acts(r), ~ Arrive(r), ~ CreateTradeRun(r)
  PROVE  pc'[r] \in OwnSteps => /\ pc[r] \in OwnSteps
                                /\ pc[r] \in Sending => pc'[r] \in Sending
                                /\ pc[r] = "submit" => pc'[r] = "post" \/ ReadState(r) \/ CasState(r)
<1>0. r \in Procs /\ r \notin Verifiers /\ r \notin Closers /\ pc[r] \in OrderSteps /\ TypeInv
  BY OrderAt, RequestsDistinct DEF SafeInv
<1> DEFINE Goal == pc'[r] \in OwnSteps => /\ pc[r] \in OwnSteps
                                          /\ pc[r] \in Sending => pc'[r] \in Sending
                                          /\ pc[r] = "submit" => pc'[r] = "post" \/ ReadState(r) \/ CasState(r)
<1>1. ASSUME NEW s, NEW c, Goto(r, s, c) PROVE pc'[r] = s
  BY <1>0, <1>1, GotoAt
<1>2. CASE pc'[r] = pc[r] /\ (pc[r] = "submit" => ReadState(r) \/ CasState(r))
  BY <1>2
<1>3. CASE pc'[r] = OnThrow(r)
  BY <1>0, <1>3 DEF OnThrow, Marked, OwnSteps, OrderSteps, Sending
<1>4. CASE pc'[r] = After(r) /\ pc[r] \in TransitionSteps \cup (StoreSteps \ {"insert"})
  BY <1>0, <1>4 DEF After, Marked, OwnSteps, OrderSteps, Sending, TransitionSteps, TargetOf, StoreSteps,
     VerifySteps
<1>5. CASE LogTransition(r) \/ RecordErrorOnly(r) \/ LogCreated(r) \/ UpdateFromPreview(r)
             \/ UpdateBrokerResponse(r)
  <2>1. Acknowledge(r, After(r), NoState) /\ pc[r] \in TransitionSteps \cup (StoreSteps \ {"insert"})
    BY <1>0, <1>5 DEF LogTransition, RecordErrorOnly, LogCreated, UpdateFromPreview,
       UpdateBrokerResponse, TypeInv, KeysOK, StoreSteps
  <2> QED
    BY <1>1, <1>3, <1>4, <2>1 DEF Acknowledge
<1>6. CASE SkipTracking(r)
  BY <1>1, <1>4, <1>6 DEF SkipTracking
<1>7. CASE ReadState(r) \/ CasState(r) \/ ReadList(r) \/ ReadFails(r) \/ QueryFails(r)
  <2>1. UNCHANGED pc \/ Goto(r, OnThrow(r), NoState)
    BY <1>7 DEF ReadState, CasState, ReadList, ReadFails, QueryFails
  <2>2. UNCHANGED pc /\ pc[r] = "submit" => ReadState(r) \/ CasState(r)
            \/ pc'[r] = OnThrow(r)
    BY <1>0, <1>1, <1>7 DEF ReadList, ReadFails, QueryFails, TypeInv, KeysOK, ReadSteps
  <2> QED
    BY <1>1, <1>2, <1>3, <2>1, <2>2
<1>8. CASE Crash(r)
  <2>1. pc'[r] = "crashed"
    BY <1>1, <1>8 DEF Crash
  <2> QED
    BY <2>1 DEF OwnSteps
<1>9. CASE EvaluateRisk(r) \/ DecideFirst(r) \/ DecideFinal(r)
  <2>1. pc[r] \in {"preview", "dup1", "dup2"}
    BY <1>9 DEF EvaluateRisk, DecideFirst, DecideFinal
  <2> QED
    BY <2>1 DEF OwnSteps, OrderSteps, Sending
<1>10. CASE PostOrder(r) \/ BrokerAnswers(r)
  <2>1. pc[r] \in {"post", "await"} /\ pc'[r] \in {"await", "store", "unknown"}
    BY <1>1, <1>10 DEF PostOrder, BrokerAnswers
  <2> QED
    BY <2>1 DEF OwnSteps, OrderSteps, Sending
<1> QED
  BY <1>0, <1>5, <1>6, <1>7, <1>8, <1>9, <1>10 DEF Acts, Common, OrderStep

LEMMA OwnerNext ==
  ASSUME SafeInv, [Next]_vars, NEW r \in Orders, Owner(r)'
  PROVE  \/ CreateTradeRun(r)
         \/ /\ Owner(r) /\ key'[r] = key[r] /\ (Committed(r) => Committed(r)')
<1>0. r \in Procs /\ TypeInv
  BY DEF Procs, SafeInv
<1>1. CASE UNCHANGED <<control, request>>
  BY <1>0, <1>1, SentStable, StepSets DEF control, request, Owner, Committed, Intended, PostOrder
<1>2. ASSUME NEW q \in Procs \ {r}, Acts(q)
      PROVE  Owner(r) /\ key'[r] = key[r] /\ (Committed(r) => Committed(r)')
  <2>1. pc'[r] = pc[r] /\ ph'[r] = ph[r] /\ key'[r] = key[r] /\ env'[r] = env[r]
    BY <1>0, <1>2, OthersStay, ActsKeys
  <2>2. Sent(r)' => Sent(r) \/ pc[r] = "post"
    BY <1>0, SentStable DEF PostOrder
  <2> QED
    BY <1>0, <2>1, <2>2, SentStable, StepSets DEF Owner, Committed, Intended
<1>3. CASE Acts(r) /\ ~ Arrive(r) /\ ~ CreateTradeRun(r)
  <2>1. ~ Starts(r)
    BY <1>3, RequestsDistinct DEF Starts
  <2>2. key'[r] = key[r] /\ env'[r] = env[r]
    BY <1>0, <1>3, <2>1, ActsKeys
  <2>3. Sent(r)' => Sent(r) \/ pc[r] = "post"
    BY <1>0, SentStable DEF PostOrder
  <2>4. Owner(r)
    BY <1>0, <1>3, <2>2, <2>3, OrderNext, StepSets DEF Owner
  <2>5. ASSUME Intended(r), ~ Sent(r)' PROVE Intended(r)'
    <3>1. pc'[r] \in OwnSteps
      BY <2>5 DEF Owner
    <3>2. CASE pc[r] \in Sending
      BY <1>3, <3>1, <3>2, OrderNext DEF Intended
    <3>3. CASE pc[r] = "submit" /\ ph[r] = "log"
      BY <1>3, <3>1, <3>3, OrderNext, StepSets DEF Intended, ReadState, CasState
    <3> QED
      BY <2>5, <3>2, <3>3 DEF Intended
  <2> QED
    BY <1>0, <2>2, <2>4, <2>5, SentStable DEF Committed
<1>4. ~ Arrive(r)
  <2> SUFFICES ASSUME Arrive(r) PROVE FALSE
    OBVIOUS
  <2>1. PICK e \in Envs : /\ env' = [env EXCEPT ![r] = e]
                          /\ Goto(r, IF e.db THEN "insert" ELSE "preview", NoState)
    BY DEF Arrive
  <2>2. pc'[r] = (IF e.db THEN "insert" ELSE "preview") /\ env'[r] = e
    BY <1>0, <2>1, GotoAt DEF TypeInv, DataOK
  <2>3. ~ Sent(r)'
    BY <1>0, SentStable DEF Arrive, PostOrder, Sent, TypeInv, KeysOK
  <2> QED
    BY <2>2, <2>3 DEF Owner, OwnSteps
<1> QED
  BY <1>1, <1>2, <1>3, <1>4, StepActs

AllTracked == \A e \in Envs : e.db

(* Where every instance has the database, whoever sent for a key owns its row. *)
LEMMA SenderOwns ==
  ASSUME AllTracked, SafeInv, NEW r \in Orders, Sent(r)
  PROVE  Owner(r) /\ Committed(r)
  BY DEF AllTracked, SafeInv, ClearOK, TypeInv, KeysOK, Sent, Owner, Committed

(* The state an update moves a row to, by who moves it.                      *)
LEMMA UpdateBy ==
  ASSUME AllTracked, PromiseInv, NEW p \in Procs, CasState(p)
  PROVE  /\ p \in Orders => /\ Owner(p)
                            /\ TargetOf[pc[p]] \in ExecutionStates => pc[p] = "submit" \/ Committed(p)
                            /\ Committed(p) => TargetOf[pc[p]] \in ExecutionStates
         /\ p \notin Orders => /\ TargetOf[pc[p]] \in ExecutionStates
                               /\ Backed(key[p])
<1>1. pc[p] \in TransitionSteps /\ Tracked(p) /\ ph[p] = "cas"
  BY CasStateRows DEF PromiseInv, SafeInv
<1>2. CASE p \in Orders
  <2>1. pc[p] \in OrderSteps
    BY <1>2, OrderAt DEF PromiseInv
  <2>2. Owner(p)
    BY <1>1, <2>1 DEF Owner, OwnSteps, OrderSteps, TransitionSteps, TargetOf, Tracked
  <2>3. Committed(p) <=> pc[p] \in {"accept", "unknown"}
    <3>1. Sent(p) => pc[p] \notin Unsent
      BY <1>2 DEF PromiseInv, SafeInv, ClearOK
    <3> QED
      BY <1>1, <2>1, <3>1 DEF Committed, Intended, Sending, Unsent, OrderSteps, TransitionSteps, TargetOf
  <2> QED
    BY <1>1, <1>2, <2>1, <2>2, <2>3 DEF OrderSteps, TransitionSteps, TargetOf, ExecutionStates
<1>3. CASE p \notin Orders
  <2>1. TargetOf[pc[p]] \in ExecutionStates
    BY <1>1, <1>3, TargetsOfOthers DEF PromiseInv
  <2>2. pc[p] # "idle"
    BY <1>1 DEF TransitionSteps, TargetOf
  <2>3. Backed(key[p])
    BY <1>1, <1>3, <2>2 DEF PromiseInv, BackedOK, Procs
  <2> QED
    BY <1>3, <2>1, <2>3
<1> QED
  BY <1>2, <1>3

LEMMA StepQuiet == ASSUME AllTracked, PromiseInv, [Next]_vars PROVE QuietOK'
<1>0. TypeInv /\ SafeInv
  BY DEF PromiseInv, SafeInv
<1> SUFFICES ASSUME NEW r \in Orders, Owner(r)', ~ Committed(r)'
             PROVE  runs'[key'[r]].state \notin ExecutionStates
  BY DEF QuietOK
<1>1. CASE CreateTradeRun(r)
  <2>1. pc[r] = "insert" /\ key'[r] = key[r]
    BY <1>1 DEF CreateTradeRun, request
  <2>2. runs'[key[r]].state = "SIGNAL_CREATED"
    <3>1. CASE Goto(r, "done", NoState)
      <4>1. pc'[r] = "done"
        BY <1>0, <3>1, OrderAt, GotoAt
      <4>2. ~ Sent(r)'
        BY <1>0, <1>1, <2>1 DEF CreateTradeRun, SafeInv, ClearOK, Unsent, Sent
      <4> QED
        BY <4>1, <4>2 DEF Owner, OwnSteps
    <3>2. CASE runs' = [runs EXCEPT ![key[r]] = [NoRow EXCEPT !.state = "SIGNAL_CREATED",
                                                             !.dryRun = ~ env[r].live]]
      BY <1>0, <1>1, <3>2, CreateTradeRunRows DEF NoRow, TypeInv, DataOK
    <3> QED
      BY <1>1, <3>1, <3>2 DEF CreateTradeRun
  <2> QED
    BY <2>1, <2>2 DEF ExecutionStates
<1>2. CASE ~ CreateTradeRun(r)
  <2>1. Owner(r) /\ key'[r] = key[r] /\ ~ Committed(r)
    BY <1>0, <1>2, OwnerNext
  <2>2. /\ key[r] \in Keys /\ runs[key[r]].state \notin ExecutionStates
        /\ runs[key[r]].state # NoState
    BY <1>0, <2>1, OwnerKey DEF PromiseInv, QuietOK
  <2>3. CASE Same \/ UNCHANGED runs
    BY <2>1, <2>2, <2>3 DEF Same
  <2>4. ASSUME NEW q \in Orders, CreateTradeRun(q), ~ Same PROVE runs'[key[r]].state = runs[key[r]].state
    BY <1>0, <2>2, <2>4, CreateTradeRunRows DEF NoRun
  <2>5. ASSUME NEW p \in Procs, CasState(p), ~ Same, key[p] = key[r]
        PROVE  TargetOf[pc[p]] \notin ExecutionStates
    <3>1. SUFFICES ASSUME TargetOf[pc[p]] \in ExecutionStates PROVE FALSE
      OBVIOUS
    <3>2. CASE p \in Orders
      <4>1. p = r
        BY <1>0, <2>1, <2>5, <3>2, UpdateBy DEF SafeInv, OneOwner
      <4>2. pc[r] = "submit"
        BY <2>1, <2>5, <3>1, <3>2, <4>1, UpdateBy
      <4>3. (pc'[r] = "submit" /\ ph'[r] = "log") \/ pc'[r] = "failed"
        <5>1. r \in Procs
          BY DEF Procs
        <5>2. \/ Goto(r, OnThrow(r), NoState)
              \/ ph' = [ph EXCEPT ![r] = "log"] /\ UNCHANGED pc
          BY <2>5, <4>1 DEF CasState
        <5>3. OnThrow(r) = "failed"
          BY <4>2 DEF OnThrow
        <5> QED
          BY <1>0, <4>2, <5>1, <5>2, <5>3, GotoAt DEF TypeInv, ControlOK
      <4>4. ~ Sent(r)'
        BY <1>0, <2>5, <4>1, <4>2 DEF CasState, SafeInv, ClearOK, Unsent, Sent
      <4> QED
        BY <4>3, <4>4 DEF Owner, OwnSteps, Committed, Intended
    <3>3. CASE p \notin Orders
      <4>1. PICK s \in Orders : key[s] = key[r] /\ Sent(s)
        BY <2>5, <3>3, UpdateBy DEF Backed
      <4>2. s = r /\ Committed(s)
        BY <1>0, <2>1, <4>1, SenderOwns DEF SafeInv, OneOwner
      <4> QED
        BY <2>1, <4>2
    <3> QED
      BY <3>2, <3>3
  <2>6. ASSUME NEW p \in Procs, CasState(p), ~ Same PROVE runs'[key[r]].state \notin ExecutionStates
    BY <1>0, <2>2, <2>5, <2>6, CasStateRows
  <2> QED
    BY <1>0, <2>1, <2>2, <2>3, <2>4, <2>6, StepActs, ActsRows
<1> QED
  BY <1>1, <1>2

LEMMA PromiseInit == Init => PromiseInv
<1> SUFFICES ASSUME Init PROVE PromiseInv
  OBVIOUS
<1>1. \A r \in Orders : ~ Owner(r)
  BY DEF Init, Procs, Owner, OwnSteps, Sent
<1>2. CasOK /\ SeenOK
  BY DEF Init, CasOK, SeenOK
<1>3. BackedOK
  BY DEF Init, BackedOK, Procs, TransitionSteps, TargetOf
<1> QED
  BY <1>1, <1>2, <1>3, InitSafe DEF PromiseInv, QuietOK

LEMMA PromiseStep == ASSUME AllTracked, PromiseInv, [Next]_vars PROVE PromiseInv'
<1>1. TypeInv /\ SafeInv
  BY DEF PromiseInv, SafeInv
<1> QED
  BY <1>1, StepSafe, StepCas, StepSeen, StepBacked, StepQuiet DEF PromiseInv

(***************************************************************************)
(* The steps of the gateway, seen through the refinement mapping.          *)
(***************************************************************************)
Fate == [k \in Keys |-> FateOf(runs[k].state)]
SentFor == [k \in Keys |-> Posted(k)]

LEMMA FateAtStart == FateOf(NoState) = "unseen" /\ FateOf("SIGNAL_CREATED") = "evaluating"
<1>1. ASSUME NEW s, s = "NO_STATE" PROVE FateOf(s) = "unseen"
  BY <1>1 DEF FateOf, NoState, EvaluationStates, ExecutionStates
<1>2. ASSUME NEW s, s = "SIGNAL_CREATED" PROVE FateOf(s) = "evaluating"
  BY <1>2 DEF FateOf, NoState, EvaluationStates, ExecutionStates
<1> QED
  BY <1>1, <1>2 DEF NoState

LEMMA SentForSame ==
  ASSUME TypeInv, [Next]_vars, NEW k \in Keys, \A r \in Orders : key'[r] = k => ~ (PostOrder(r) /\ ~ Sent(r))
  PROVE  Posted(k)' = Posted(k)
<1>1. \A r \in Orders : key[r] = k /\ Sent(r) <=> key'[r] = k /\ Sent(r)'
  BY SentStable
<1> QED
  BY <1>1 DEF Posted, Sent

(* An update decides about its key at most once, and a commitment stands.    *)
LEMMA UpdateDecides ==
  ASSUME AllTracked, PromiseInv, NEW p \in Procs, CasState(p), runs[key[p]].state = cur[p]
  PROVE  \/ FateOf(TargetOf[pc[p]]) = FateOf(runs[key[p]].state)
         \/ /\ FateOf(runs[key[p]].state) = "evaluating"
            /\ FateOf(TargetOf[pc[p]]) \in {"refused", "committed"}
<1> DEFINE s == runs[key[p]].state
           t == TargetOf[pc[p]]
<1>1. <<s, t>> \in Allowed
  BY CasStateRows DEF PromiseInv, SafeInv, CasOK
<1>2. s \in ExecutionStates => t \in ExecutionStates
  <2> SUFFICES ASSUME s \in ExecutionStates PROVE t \in ExecutionStates
    OBVIOUS
  <2>1. CASE p \in Orders
    <3>1. Committed(p)
      BY <2>1, UpdateBy DEF PromiseInv, QuietOK
    <3> QED
      BY <2>1, <3>1, UpdateBy
  <2> QED
    BY <2>1, UpdateBy
<1> HIDE DEF s, t
<1>3. s \in EvaluationStates \cup ExecutionStates /\ t \in States
  BY <1>1 DEF Allowed, States, EvaluationStates, TerminalStates, ExecutionStates
<1>4. FateOf(s) = IF s \in EvaluationStates THEN "evaluating" ELSE "committed"
  BY <1>3 DEF FateOf, NoState, EvaluationStates, ExecutionStates
<1>5. FateOf(t) \in {"evaluating", "committed", "refused"}
      /\ (t \in ExecutionStates => FateOf(t) = "committed")
  BY <1>3 DEF FateOf, NoState, States, EvaluationStates, TerminalStates, ExecutionStates
<1> QED
  BY <1>2, <1>3, <1>4, <1>5 DEF s, t

LEMMA FateMoves ==
  ASSUME AllTracked, PromiseInv, [Next]_vars, Fate' # Fate
  PROVE  /\ \E k \in Keys, from, to \in {"unseen", "evaluating", "refused", "committed"} :
              /\ <<from, to>> \in {<<"unseen", "evaluating">>, <<"evaluating", "refused">>,
                                   <<"evaluating", "committed">>}
              /\ Fate[k] = from /\ Fate' = [Fate EXCEPT ![k] = to]
         /\ \A r \in Orders : ~ PostOrder(r)
<1>0. TypeInv
  BY DEF PromiseInv, SafeInv
<1>1. ~ Same
  BY DEF Same, Fate
<1>2. \A r \in Orders : ~ PostOrder(r)
  BY <1>1 DEF PostOrder, db, Same
<1>3. ASSUME NEW k \in Keys, \A j \in Keys \ {k} : runs'[j].state = runs[j].state
      PROVE  Fate' = [Fate EXCEPT ![k] = FateOf(runs'[k].state)]
  BY <1>3 DEF Fate
<1>4. ASSUME NEW r \in Orders, CreateTradeRun(r)
      PROVE  \E k \in Keys : Fate[k] = "unseen" /\ Fate' = [Fate EXCEPT ![k] = "evaluating"]
  <2>1. /\ key[r] \in Keys /\ runs[key[r]].state = NoState
        /\ runs'[key[r]].state = "SIGNAL_CREATED"
        /\ \A j \in Keys \ {key[r]} : runs'[j].state = runs[j].state
    BY <1>0, <1>1, <1>4, CreateTradeRunRows DEF NoRun
  <2>2. FateOf(NoState) = "unseen" /\ FateOf("SIGNAL_CREATED") = "evaluating"
    BY FateAtStart
  <2>3. Fate' = [Fate EXCEPT ![key[r]] = "evaluating"]
    BY <1>3, <2>1, <2>2
  <2>4. Fate[key[r]] = "unseen"
    BY <2>1, <2>2 DEF Fate
  <2> QED
    BY <2>1, <2>3, <2>4
<1>5. ASSUME NEW p \in Procs, CasState(p)
      PROVE  \E k \in Keys : \E to \in {"refused", "committed"} :
               Fate[k] = "evaluating" /\ Fate' = [Fate EXCEPT ![k] = to]
  <2>1. /\ key[p] \in Keys /\ runs[key[p]].state = cur[p] /\ runs'[key[p]].state = TargetOf[pc[p]]
        /\ \A j \in Keys \ {key[p]} : runs'[j].state = runs[j].state
    BY <1>0, <1>1, <1>5, CasStateRows
  <2>2. Fate' = [Fate EXCEPT ![key[p]] = FateOf(TargetOf[pc[p]])]
    BY <1>3, <2>1
  <2>3. Fate[key[p]] = FateOf(runs[key[p]].state)
    BY <2>1 DEF Fate
  <2>4. FateOf(TargetOf[pc[p]]) # FateOf(runs[key[p]].state)
    BY <2>1, <2>2, <2>3 DEF Fate
  <2> QED
    BY <1>5, <2>1, <2>2, <2>3, <2>4, UpdateDecides
<1>6. \/ \E p \in Procs : CasState(p)
      \/ \E r \in Orders : CreateTradeRun(r)
  BY <1>0, <1>1, StepActs, ActsRows DEF Same
<1> QED
  BY <1>2, <1>4, <1>5, <1>6

LEMMA SendMoves ==
  ASSUME AllTracked, PromiseInv, [Next]_vars, NEW r \in Orders, PostOrder(r)
  PROVE  /\ key[r] \in Keys /\ Fate[key[r]] = "committed" /\ SentFor[key[r]] = {}
         /\ SentFor' = [SentFor EXCEPT ![key[r]] = {r}]
<1>0. TypeInv /\ SafeInv
  BY DEF PromiseInv, SafeInv
<1>1. pc[r] = "post" /\ UNCHANGED key /\ broker' = [broker EXCEPT ![r] = "wire"]
  BY DEF PostOrder, request
<1>2. Owner(r) /\ Committed(r) /\ ~ Sent(r)
  BY <1>0, <1>1, StepSets DEF AllTracked, SafeInv, ClearOK, Owner, Committed, Intended, Unsent
<1>3. key[r] \in Keys /\ runs[key[r]].state \in ExecutionStates
  BY <1>0, <1>2, OwnerKey DEF SafeInv, RowOK
<1>4. FateOf(runs[key[r]].state) = "committed"
  BY <1>3 DEF FateOf, NoState, EvaluationStates, ExecutionStates
<1>5. Posted(key[r]) = {}
  BY <1>0, <1>2, SenderOwns DEF SafeInv, OneOwner, Posted, Sent
<1>6. \A q \in Orders : Sent(q)' <=> Sent(q) \/ q = r
  BY <1>0, <1>1 DEF TypeInv, DataOK, Sent
<1>7. \A k \in Keys : Posted(k)' = IF k = key[r] THEN {r} ELSE Posted(k)
  BY <1>1, <1>2, <1>5, <1>6 DEF Posted, Sent
<1> QED
  BY <1>3, <1>4, <1>5, <1>7 DEF Fate, SentFor

LEMMA MappedStep ==
  ASSUME AllTracked, PromiseInv, [Next]_vars
  PROVE  Promise!Next \/ UNCHANGED <<Fate, SentFor>>
<1>0. TypeInv
  BY DEF PromiseInv, SafeInv
<1>1. CASE Fate' # Fate
  <2>1. SentFor' = SentFor
    BY <1>0, <1>1, FateMoves, SentForSame DEF SentFor
  <2>2. PICK k \in Keys, from, to \in {"unseen", "evaluating", "refused", "committed"} :
          /\ <<from, to>> \in {<<"unseen", "evaluating">>, <<"evaluating", "refused">>,
                               <<"evaluating", "committed">>}
          /\ Fate[k] = from /\ Fate' = [Fate EXCEPT ![k] = to]
    BY <1>1, FateMoves
  <2>3. Promise!Register(k) \/ Promise!Refuse(k) \/ Promise!Commit(k)
    BY <2>1, <2>2 DEF Promise!Register, Promise!Refuse, Promise!Commit, Promise!Decide, Fate, SentFor
  <2> QED
    BY <2>3 DEF Promise!Next
<1>2. CASE \E r \in Orders : PostOrder(r)
  <2>1. PICK r \in Orders : PostOrder(r)
    BY <1>2
  <2>2. Fate' = Fate
    BY <2>1 DEF PostOrder, db, Fate
  <2>3. Promise!Send(key[r], r) /\ key[r] \in Keys
    BY <2>1, <2>2, SendMoves DEF Promise!Send, Fate, SentFor
  <2> QED
    BY <2>1, <2>3 DEF Promise!Next
<1>3. CASE Fate' = Fate /\ ~ \E r \in Orders : PostOrder(r)
  BY <1>0, <1>3, SentForSame DEF SentFor
<1> QED
  BY <1>1, <1>2, <1>3

\* Where every instance has the database, the gateway implements OrderPromise: a key is
\* registered, refused or committed once and for good, and sent at most once, after.
THEOREM PromiseKept == ASSUME AllTracked PROVE Spec => KeepsPromise
<1>1. Init => PromiseInv
  BY PromiseInit
<1>2. PromiseInv /\ [Next]_vars => PromiseInv'
  BY PromiseStep
<1>3. Init => Promise!Init
  <2> SUFFICES ASSUME Init PROVE Promise!Init
    OBVIOUS
  <2>1. \A k \in Keys : runs[k].state = NoState /\ Posted(k) = {}
    BY DEF Init, NoRow, Posted
  <2> QED
    BY <2>1, FateAtStart DEF Promise!Init
<1>4. PromiseInv /\ [Next]_vars
        => [Promise!Next]_<<[k \in Keys |-> FateOf(runs[k].state)], [k \in Keys |-> Posted(k)]>>
  BY MappedStep DEF Fate, SentFor
<1> QED
  BY <1>1, <1>2, <1>3, <1>4, PTL DEF Spec, KeepsPromise, Promise!Spec

--------------------------------------------------------------------------------
(***************************************************************************)
(* What a row and its events tell about a trade, and the repeated orders   *)
(* the broker's lists alone stop: the properties of TradeGateway that hold *)
(* while no fault has cut a request off.                                   *)
(***************************************************************************)

(***************************************************************************)
(* FailureOnRecord.  A request reports a failed broker call only after     *)
(* markTradeError: its transition reached EXECUTION_UNKNOWN, or found the  *)
(* row there, or was refused and the fallback stored the error.  A row in  *)
(* EXECUTION_UNKNOWN carries the error whoever brought it there, and no    *)
(* write takes an error back.                                              *)
(***************************************************************************)
Failing(r) == pc[r] = "unsure" \/ (pc[r] = "unknown" /\ ph[r] = "log")

BlankRowsOK == \A k \in Keys : NoRun(k) => ~ runs[k].error
UnknownRowsOK == \A k \in Keys : runs[k].state = "EXECUTION_UNKNOWN" => runs[k].error
FailingOK == \A r \in Orders : Failing(r) /\ env[r].db /\ faults = 0 => runs[key[r]].error

ErrorsOK == BlankRowsOK /\ UnknownRowsOK /\ FailingOK

\* What a step may do to the state and the error of a row.
KeepsRow(k) == runs'[k].state = runs[k].state /\ runs'[k].error = runs[k].error
MarksRow(k) == ~ NoRun(k) /\ runs'[k].state = runs[k].state /\ runs'[k].error
OpensRow(k) == NoRun(k) /\ runs'[k].state = "SIGNAL_CREATED" /\ ~ runs'[k].error
MovesRow(p, k) ==
  /\ key[p] = k /\ pc[p] \in TransitionSteps /\ runs'[k].state = TargetOf[pc[p]]
  /\ runs'[k].error = (runs[k].error \/ pc[p] = "unknown")

LEMMA OnlyUnknown ==
  \A s \in TransitionSteps : /\ TargetOf[s] = "EXECUTION_UNKNOWN" <=> s = "unknown"
                             /\ TargetOf[s] # NoState
  BY DEF TransitionSteps, TargetOf, NoState

LEMMA OrderStepRow ==
  ASSUME TypeInv, NEW r \in Orders, OrderStep(r), NEW k \in Keys
  PROVE  KeepsRow(k) \/ (OpensRow(k) /\ CreateTradeRun(r) /\ key[r] = k)
<1>1. CASE UNCHANGED runs
  BY <1>1 DEF KeepsRow
<1>2. CASE UpdateFromPreview(r) \/ UpdateBrokerResponse(r)
  <2>1. key[r] \in Keys
    BY <1>2 DEF UpdateFromPreview, UpdateBrokerResponse, Tracked, TypeInv, DataOK, Procs
  <2> QED
    BY <1>2, <2>1 DEF UpdateFromPreview, UpdateBrokerResponse, KeepsRow, TypeInv, DataOK, Row
<1>3. CASE CreateTradeRun(r)
  <2>1. key[r] \in Keys
    BY <1>3 DEF CreateTradeRun, TypeInv, KeysOK
  <2>2. CASE /\ NoRun(key[r])
             /\ runs' = [runs EXCEPT ![key[r]] = [NoRow EXCEPT !.state = "SIGNAL_CREATED",
                                                              !.dryRun = ~ env[r].live]]
    <3>1. k # key[r] => runs'[k] = runs[k]
      BY <2>1, <2>2 DEF TypeInv, DataOK
    <3>2. runs'[key[r]].state = "SIGNAL_CREATED" /\ ~ runs'[key[r]].error
      BY <2>1, <2>2 DEF NoRow, TypeInv, DataOK
    <3> QED
      BY <1>3, <2>1, <2>2, <3>1, <3>2 DEF KeepsRow, OpensRow
  <2> QED
    BY <1>1, <1>3, <2>2 DEF CreateTradeRun, Inserts
<1> QED
  BY <1>1, <1>2, <1>3 DEF OrderStep, Arrive, LogCreated, EvaluateRisk, DecideFirst, DecideFinal, PostOrder,
     BrokerAnswers, db

LEMMA OtherStepRow ==
  ASSUME TypeInv, NEW p, VerifierStep(p) \/ CloserStep(p), NEW k \in Keys
  PROVE  KeepsRow(k)
<1>1. CASE VerifierStep(p)
  BY <1>1 DEF VerifierStep, AskVerification, MatchRows, StoreVerification, LogVerification, db,
     TypeInv, DataOK, Row, KeepsRow
<1>2. CASE CloserStep(p)
  BY <1>2 DEF CloserStep, AskClose, LogClose, DeletePosition, DeleteAnswers, StoreClose, db,
     TypeInv, DataOK, Row, KeepsRow
<1> QED
  BY <1>1, <1>2

LEMMA CasStateRow ==
  ASSUME TypeInv, NEW p \in Procs, CasState(p), NEW k \in Keys
  PROVE  KeepsRow(k) \/ MovesRow(p, k)
<1>1. pc[p] \in TransitionSteps /\ key[p] \in Keys
  BY CasStateRows
<1>2. CASE UNCHANGED runs
  BY <1>2 DEF KeepsRow
<1>3. CASE runs' = [runs EXCEPT ![key[p]].state = TargetOf[pc[p]],
                                ![key[p]].error = @ \/ pc[p] = "unknown"]
  <2>1. k # key[p] => runs'[k] = runs[k]
    BY <1>1, <1>3 DEF TypeInv, DataOK
  <2>2. CASE k = key[p]
    <3>1. runs'[k].state = TargetOf[pc[p]]
      BY <1>1, <1>3, <2>2 DEF TypeInv, DataOK, Row
    <3>2. runs'[k].error = (runs[k].error \/ pc[p] = "unknown")
      BY <1>1, <1>3, <2>2 DEF TypeInv, DataOK, Row
    <3> QED
      BY <1>1, <2>2, <3>1, <3>2 DEF MovesRow
  <2> QED
    BY <2>1, <2>2 DEF KeepsRow
<1> QED
  BY <1>2, <1>3 DEF CasState

LEMMA ActsRow ==
  ASSUME TypeInv, NEW p \in Procs, Acts(p), NEW k \in Keys
  PROVE  \/ KeepsRow(k)
         \/ MarksRow(k)
         \/ OpensRow(k) /\ p \in Orders /\ CreateTradeRun(p) /\ key[p] = k
         \/ MovesRow(p, k) /\ CasState(p)
<1>1. CASE UNCHANGED runs
  BY <1>1 DEF KeepsRow
<1>2. CASE RecordErrorOnly(p)
  <2>1. key[p] \in Keys /\ ~ NoRun(key[p])
    BY <1>2 DEF RecordErrorOnly, Tracked, TypeInv, DataOK, RowsOK, RowSteps, AllSteps, OrderSteps
  <2> QED
    BY <1>2, <2>1 DEF RecordErrorOnly, KeepsRow, MarksRow, TypeInv, DataOK, Row
<1> QED
  BY <1>1, <1>2, OrderStepRow, OtherStepRow, CasStateRow DEF Acts, Common, ReadState, LogTransition,
     SkipTracking, ReadList, ReadFails, QueryFails, Crash, db

(* No write takes an error back: the only one that clears it fills a blank row. *)
LEMMA ErrorsStep ==
  ASSUME TypeInv, BlankRowsOK, UnknownRowsOK, [Next]_vars
  PROVE  BlankRowsOK' /\ UnknownRowsOK' /\ \A k \in Keys : runs[k].error => runs'[k].error
<1> SUFFICES ASSUME NEW k \in Keys
             PROVE  /\ runs'[k].state = NoState => ~ runs'[k].error
                    /\ runs'[k].state = "EXECUTION_UNKNOWN" => runs'[k].error
                    /\ runs[k].error => runs'[k].error
  BY DEF BlankRowsOK, UnknownRowsOK, NoRun
<1>1. CASE KeepsRow(k)
  BY <1>1 DEF KeepsRow, BlankRowsOK, UnknownRowsOK, NoRun
<1>2. CASE MarksRow(k)
  BY <1>2 DEF MarksRow, NoRun
<1>3. CASE OpensRow(k)
  BY <1>3 DEF OpensRow, BlankRowsOK, NoState
<1>4. ASSUME NEW p, MovesRow(p, k) PROVE /\ runs'[k].state # NoState
                                         /\ runs'[k].state = "EXECUTION_UNKNOWN" => runs'[k].error
                                         /\ runs[k].error => runs'[k].error
  <2>1. pc[p] \in TransitionSteps /\ runs'[k].state = TargetOf[pc[p]]
        /\ runs'[k].error = (runs[k].error \/ pc[p] = "unknown")
    BY <1>4 DEF MovesRow
  <2>2. runs'[k].state # NoState /\ (runs'[k].state = "EXECUTION_UNKNOWN" => pc[p] = "unknown")
    BY <2>1, OnlyUnknown
  <2> QED
    BY <2>1, <2>2, Zenon
<1>5. CASE UNCHANGED runs
  BY <1>1, <1>5 DEF KeepsRow
<1> QED
  BY <1>1, <1>2, <1>3, <1>4, <1>5, StepActs, ActsRow

(***************************************************************************)
(* While there are no faults every write is acknowledged.                  *)
(***************************************************************************)
LEMMA FaultsStay ==
  ASSUME TypeInv, [Next]_vars, faults' = 0
  PROVE  faults = 0
<1> USE LimitsAssumption
<1>0. faults \in Nat
  BY DEF TypeInv, DataOK
<1>1. faults' = faults \/ faults' = faults + 1
  <2>1. CASE UNCHANGED vars \/ BrokerMoves
    BY <2>1 DEF vars, BrokerMoves
  <2>2. ASSUME NEW p, NEW s, NEW c, Acknowledge(p, s, c) PROVE faults' = faults \/ faults' = faults + 1
    BY <2>2 DEF Acknowledge
  <2>3. ASSUME NEW p, Transition(p) \/ SkipTracking(p) \/ ReadList(p) \/ RecordErrorOnly(p)
               \/ ReadFails(p) \/ QueryFails(p) \/ Crash(p)
        PROVE  faults' = faults \/ faults' = faults + 1
    BY <2>2, <2>3 DEF Transition, ReadState, CasState, LogTransition, SkipTracking, ReadList,
       RecordErrorOnly, ReadFails, QueryFails, Crash
  <2>4. ASSUME NEW r, OrderStep(r) PROVE faults' = faults \/ faults' = faults + 1
    BY <2>2, <2>4 DEF OrderStep, Arrive, CreateTradeRun, LogCreated, EvaluateRisk, UpdateFromPreview,
       DecideFirst, DecideFinal, PostOrder, BrokerAnswers, UpdateBrokerResponse
  <2>5. ASSUME NEW p, VerifierStep(p) \/ CloserStep(p) PROVE faults' = faults \/ faults' = faults + 1
    BY <2>2, <2>5 DEF VerifierStep, AskVerification, MatchRows, StoreVerification, LogVerification,
       CloserStep, AskClose, LogClose, DeletePosition, DeleteAnswers, StoreClose
  <2> QED
    BY <2>1, <2>3, <2>4, <2>5 DEF Next, NextOf
<1> QED
  BY <1>0, <1>1

LEMMA Acknowledged ==
  ASSUME TypeInv, faults' = 0, NEW p, NEW s, NEW c, Acknowledge(p, s, c)
  PROVE  Goto(p, s, c)
  BY LimitsAssumption DEF Acknowledge, TypeInv, DataOK

LEMMA NoFault ==
  ASSUME TypeInv, faults' = 0, NEW p
  PROVE  ~ ReadFails(p) /\ ~ QueryFails(p) /\ ~ Crash(p)
  BY LimitsAssumption DEF ReadFails, QueryFails, Crash, TypeInv, DataOK

(* How a request comes to report a failure.                                  *)
LEMMA FailingComes ==
  ASSUME SafeInv, UnknownRowsOK, NEW r \in Orders, Acts(r), Failing(r)', env[r].db, faults' = 0
  PROVE  (Failing(r) /\ pc[r] # "idle") \/ runs'[key[r]].error
<1>0. /\ TypeInv /\ r \in Procs /\ pc[r] \in OrderSteps /\ r \notin Verifiers /\ r \notin Closers
      /\ pc[r] # "idle" => key[r] \in Keys /\ Tracked(r)
  BY OrderAt, RequestsDistinct DEF SafeInv
<1>1. ASSUME NEW s, NEW c, Goto(r, s, c) PROVE pc'[r] = s /\ s = "unsure"
  BY <1>0, <1>1, GotoAt DEF Failing
<1>2. OnThrow(r) = "unsure" => pc[r] = "fallback"
  BY <1>0 DEF OnThrow, Marked
<1>3. CASE LogTransition(r)
  <2>1. After(r) = "unsure" /\ pc[r] \in TransitionSteps /\ ph[r] = "log"
    BY <1>0, <1>1, <1>3, Acknowledged DEF LogTransition, TypeInv, KeysOK
  <2>2. pc[r] = "unknown"
    BY <1>0, <2>1 DEF After, OrderSteps, TransitionSteps, TargetOf, VerifySteps
  <2> QED
    BY <2>1, <2>2 DEF Failing
<1>4. CASE SkipTracking(r)
  <2>1. pc[r] # "idle" /\ ~ Tracked(r)
    BY <1>4 DEF SkipTracking, TransitionSteps, TargetOf, StoreSteps
  <2> QED
    BY <1>0, <2>1
<1>5. CASE ReadList(r)
  BY <1>5 DEF ReadList, Failing
<1>6. CASE RecordErrorOnly(r)
  <2>1. key[r] \in Keys
    BY <1>0, <1>6 DEF RecordErrorOnly
  <2> QED
    BY <1>0, <1>6, <2>1 DEF RecordErrorOnly, TypeInv, DataOK, Row
<1>7. CASE ReadState(r)
  <2>1. ~ Goto(r, OnThrow(r), NoState)
    BY <1>1, <1>2, <1>7 DEF ReadState, TransitionSteps, TargetOf
  <2>2. /\ UNCHANGED <<runs, pc>> /\ key[r] \in Keys
        /\ runs[key[r]].state = TargetOf[pc[r]] \/ ph'[r] = "cas"
    BY <1>0, <1>7, <2>1 DEF ReadState, db, TypeInv, ControlOK, TransitionSteps, TargetOf
  <2>3. Failing(r) \/ runs[key[r]].state = "EXECUTION_UNKNOWN"
    BY <2>2 DEF Failing, TargetOf
  <2>4. pc[r] # "idle"
    BY <1>7 DEF ReadState, TransitionSteps, TargetOf
  <2> QED
    BY <2>2, <2>3, <2>4 DEF UnknownRowsOK
<1>8. CASE CasState(r)
  <2>1. pc[r] \in TransitionSteps /\ key[r] \in Keys
    BY <1>0, <1>8, CasStateRows
  <2>2. ~ Goto(r, OnThrow(r), NoState)
    BY <1>1, <1>2, <2>1 DEF TransitionSteps, TargetOf
  <2>3. UNCHANGED pc /\ runs' = [runs EXCEPT ![key[r]].state = TargetOf[pc[r]],
                                             ![key[r]].error = @ \/ pc[r] = "unknown"]
    BY <1>8, <2>2 DEF CasState
  <2>4. pc[r] = "unknown"
    BY <2>1, <2>3 DEF Failing, TransitionSteps, TargetOf
  <2>5. runs'[key[r]].error = (runs[key[r]].error \/ pc[r] = "unknown")
    BY <1>0, <2>1, <2>3 DEF TypeInv, DataOK, Row
  <2> QED
    BY <2>4, <2>5, Zenon
<1>9. CASE OrderStep(r)
  <2>1. CASE LogCreated(r) \/ UpdateFromPreview(r) \/ UpdateBrokerResponse(r) \/ CreateTradeRun(r)
    <3>1. \E s \in {After(r), "created", "done"} : Goto(r, s, NoState)
      BY <1>0, <2>1, Acknowledged DEF LogCreated, UpdateFromPreview, UpdateBrokerResponse,
         CreateTradeRun
    <3>2. pc[r] \in {"insert", "created", "recordPass", "recordFail", "store"}
      BY <2>1 DEF LogCreated, UpdateFromPreview, UpdateBrokerResponse, CreateTradeRun
    <3>3. pc[r] # "insert" => After(r) # "unsure"
      BY <3>2 DEF After, VerifySteps
    <3>4. pc[r] = "insert" => \E s \in {"created", "done"} : Goto(r, s, NoState)
      BY <1>0, <2>1, Acknowledged DEF LogCreated, UpdateFromPreview, UpdateBrokerResponse,
         CreateTradeRun
    <3> QED
      BY <1>1, <3>1, <3>3, <3>4
  <2>2. CASE Arrive(r)
    BY <1>1, <2>2 DEF Arrive
  <2>3. CASE EvaluateRisk(r) \/ DecideFirst(r) \/ DecideFinal(r) \/ PostOrder(r) \/ BrokerAnswers(r)
    BY <1>1, <2>3 DEF EvaluateRisk, DecideFirst, DecideFinal, PostOrder, BrokerAnswers
  <2> QED
    BY <1>9, <2>1, <2>2, <2>3 DEF OrderStep
<1> QED
  BY <1>0, <1>3, <1>4, <1>5, <1>6, <1>7, <1>8, <1>9, NoFault DEF Acts, Common

LEMMA FailingStep ==
  ASSUME SafeInv, ErrorsOK, [Next]_vars
  PROVE  FailingOK'
<1> SUFFICES ASSUME NEW r \in Orders, Failing(r)', env'[r].db, faults' = 0
             PROVE  runs'[key'[r]].error
  BY DEF FailingOK
<1>0. TypeInv /\ r \in Procs /\ faults = 0 /\ BlankRowsOK /\ UnknownRowsOK
  BY FaultsStay DEF SafeInv, Procs, ErrorsOK
<1>1. \A k \in Keys : runs[k].error => runs'[k].error
  BY <1>0, ErrorsStep
<1>2. CASE Failing(r) /\ pc[r] # "idle" /\ key'[r] = key[r] /\ env'[r] = env[r]
  BY <1>0, <1>1, <1>2, OrderAt DEF ErrorsOK, FailingOK
<1>3. ~ Starts(r)
  <2>1. Arrive(r) => ~ Failing(r)'
    <3> SUFFICES ASSUME Arrive(r) PROVE ~ Failing(r)'
      OBVIOUS
    <3>1. PICK s \in {"insert", "preview"} : Goto(r, s, NoState)
      BY DEF Arrive
    <3> QED
      BY <1>0, <3>1, GotoAt DEF Failing
  <2> QED
    BY <2>1, RequestsDistinct DEF Starts
<1>4. ASSUME NEW q \in Procs, Acts(q) PROVE key'[r] = key[r] /\ env'[r] = env[r]
  BY <1>0, <1>3, <1>4, ActsKeys
<1>5. CASE Acts(r)
  BY <1>0, <1>2, <1>4, <1>5, FailingComes
<1>6. ASSUME NEW q \in Procs \ {r}, Acts(q) PROVE Failing(r) /\ pc[r] # "idle"
  BY <1>0, <1>6, OthersStay DEF Failing
<1>7. CASE UNCHANGED <<control, request>>
  BY <1>2, <1>7 DEF control, request, Failing
<1> QED
  BY <1>2, <1>4, <1>5, <1>6, <1>7, StepActs

(***************************************************************************)
(* HistoryExplainsState.  Between a write of the state and its event the   *)
(* writer is still there to append it: a request in the log phase of a     *)
(* transition to the state, or the one that has inserted the row.          *)
(***************************************************************************)
Writer(p, k) ==
  /\ key[p] = k
  /\ \/ ph[p] = "log" /\ TargetOf[pc[p]] = runs[k].state
     \/ pc[p] = "created" /\ env[p].db /\ runs[k].state = "SIGNAL_CREATED"

Told(k) == runs[k].state \in logged[k] \/ \E p \in Procs : Writer(p, k)

EventsOK == \A k \in Keys : ~ NoRun(k) /\ faults = 0 => Told(k)

LEMMA LogGrows ==
  ASSUME TypeInv, NEW k \in Keys, NEW s, Log(k, s)
  PROVE  s \in logged'[k] /\ \A j \in Keys : logged[j] \subseteq logged'[j]
  BY DEF Log, TypeInv, DataOK

(* Every event stays.                                                        *)
LEMMA EventsStay ==
  ASSUME TypeInv, [Next]_vars, NEW k \in Keys
  PROVE  logged[k] \subseteq logged'[k]
<1>1. CASE UNCHANGED logged
  BY <1>1
<1>2. ASSUME NEW j, NEW s, Log(j, s) PROVE logged[k] \subseteq logged'[k]
  <2>1. CASE j \in Keys
    BY <1>2, <2>1, LogGrows
  <2>2. CASE j \notin Keys
    <3>1. logged' = logged
      BY <1>2, <2>2 DEF Log, TypeInv, DataOK
    <3> QED
      BY <3>1
  <2> QED
    BY <2>1, <2>2
<1>3. CASE UNCHANGED vars \/ BrokerMoves
  BY <1>1, <1>3 DEF vars, BrokerMoves, db
<1>4. ASSUME NEW p, Transition(p) \/ SkipTracking(p) \/ ReadList(p) \/ RecordErrorOnly(p)
                      \/ ReadFails(p) \/ QueryFails(p) \/ Crash(p)
      PROVE  logged[k] \subseteq logged'[k]
  BY <1>1, <1>2, <1>4 DEF Transition, ReadState, CasState, LogTransition, SkipTracking, ReadList,
     RecordErrorOnly, ReadFails, QueryFails, Crash, db
<1>5. ASSUME NEW r, OrderStep(r) PROVE logged[k] \subseteq logged'[k]
  BY <1>1, <1>2, <1>5 DEF OrderStep, Arrive, CreateTradeRun, LogCreated, EvaluateRisk,
     UpdateFromPreview, DecideFirst, DecideFinal, PostOrder, BrokerAnswers, UpdateBrokerResponse, db
<1>6. ASSUME NEW p, VerifierStep(p) \/ CloserStep(p) PROVE logged[k] \subseteq logged'[k]
  BY <1>1, <1>2, <1>6 DEF VerifierStep, AskVerification, MatchRows, StoreVerification,
     LogVerification, CloserStep, AskClose, LogClose, DeletePosition, DeleteAnswers, StoreClose, db
<1> QED
  BY <1>3, <1>4, <1>5, <1>6 DEF Next, NextOf

(* A writer can only append its event, while there are no faults.            *)
LEMMA WriterLogs ==
  ASSUME SafeInv, NEW p \in Procs, Acts(p), NEW k \in Keys, Writer(p, k), faults' = 0
  PROVE  runs[k].state \in logged'[k] /\ UNCHANGED runs
<1>0. TypeInv /\ (pc[p] = "created" => p \in Orders /\ Tracked(p))
  <2>1. pc[p] = "created" => p \in Orders
    BY StepsDisjoint DEF SafeInv, TypeInv, ControlOK, Procs, VerifierSteps, VerifySteps, CloserSteps,
       CloseLogSteps
  <2>2. pc[p] = "created" => env[p].db
    BY DEF SafeInv, TypeInv, KeysOK, TransitionSteps, TargetOf, Writer
  <2> QED
    BY <2>1, <2>2, OrderAt DEF SafeInv
<1>1. CASE ph[p] = "log"
  <2>1. pc[p] \in TransitionSteps /\ Tracked(p) /\ todo[p] = {}
    BY <1>0, <1>1 DEF TypeInv, KeysOK, TransitionSteps, TargetOf, ReadSteps
  <2>2. LogTransition(p)
    <3>1. ~ ReadState(p) /\ ~ CasState(p)
      BY <1>1 DEF ReadState, CasState
    <3>2. ~ SkipTracking(p) /\ ~ ReadList(p) /\ ~ RecordErrorOnly(p)
      BY <2>1 DEF SkipTracking, ReadList, RecordErrorOnly, TransitionSteps, TargetOf
    <3>3. ~ OrderStep(p)
      BY <2>1 DEF OrderStep, Arrive, CreateTradeRun, LogCreated, EvaluateRisk, UpdateFromPreview,
         DecideFirst, DecideFinal, PostOrder, BrokerAnswers, UpdateBrokerResponse, TransitionSteps,
         TargetOf
    <3>4. ~ VerifierStep(p)
      BY <2>1 DEF VerifierStep, AskVerification, MatchRows, StoreVerification, LogVerification,
         TransitionSteps, TargetOf
    <3>5. ~ CloserStep(p)
      BY <2>1 DEF CloserStep, AskClose, LogClose, DeletePosition, DeleteAnswers, StoreClose,
         CloseLogSteps, TransitionSteps, TargetOf
    <3> QED
      BY <1>0, <3>1, <3>2, <3>3, <3>4, <3>5, NoFault DEF Acts, Common
  <2>3. Log(k, TargetOf[pc[p]]) /\ UNCHANGED runs
    BY <2>2 DEF LogTransition, Writer
  <2>4. runs[k].state = TargetOf[pc[p]]
    BY <1>1, <2>1 DEF Writer, TransitionSteps, TargetOf
  <2> QED
    BY <1>0, <2>3, <2>4, LogGrows
<1>2. CASE pc[p] = "created" /\ runs[k].state = "SIGNAL_CREATED"
  <2>1. p \in Orders /\ Tracked(p) /\ todo[p] = {} /\ ph[p] = "read"
        /\ p \notin Verifiers /\ p \notin Closers
    BY <1>0, <1>2, RequestsDistinct DEF TypeInv, KeysOK, ControlOK, TransitionSteps, TargetOf, ReadSteps
  <2>2. LogCreated(p)
    <3>1. ~ ReadState(p) /\ ~ CasState(p) /\ ~ LogTransition(p)
      BY <1>2, <2>1 DEF ReadState, CasState, LogTransition, TransitionSteps, TargetOf
    <3>2. ~ SkipTracking(p) /\ ~ ReadList(p) /\ ~ RecordErrorOnly(p)
      BY <1>2, <2>1 DEF SkipTracking, ReadList, RecordErrorOnly
    <3>3. OrderStep(p) => LogCreated(p)
      BY <1>2 DEF OrderStep, Arrive, CreateTradeRun, EvaluateRisk, UpdateFromPreview,
         DecideFirst, DecideFinal, PostOrder, BrokerAnswers, UpdateBrokerResponse
    <3> QED
      BY <1>0, <2>1, <3>1, <3>2, <3>3, NoFault DEF Acts, Common
  <2>3. Log(k, "SIGNAL_CREATED") /\ UNCHANGED runs
    BY <2>2 DEF LogCreated, Writer
  <2> QED
    BY <1>0, <1>2, <2>3, LogGrows
<1> QED
  BY <1>1, <1>2 DEF Writer

(* The request that writes a state becomes its writer.                       *)
LEMMA MovesTold ==
  ASSUME TypeInv, NEW p \in Procs, NEW k \in Keys, MovesRow(p, k), CasState(p), faults' = 0,
         ~ KeepsRow(k)
  PROVE  Writer(p, k)'
<1>1. runs' # runs
  BY DEF KeepsRow
<1>2. ph' = [ph EXCEPT ![p] = "log"] /\ UNCHANGED <<pc, key>>
  BY <1>1, LimitsAssumption DEF CasState, request, TypeInv, DataOK
<1>3. ph'[p] = "log" /\ pc'[p] = pc[p] /\ key'[p] = k
  BY <1>2 DEF TypeInv, ControlOK, MovesRow
<1> QED
  BY <1>3 DEF MovesRow, Writer

LEMMA OpensTold ==
  ASSUME TypeInv, NEW r \in Orders, NEW k \in Keys, OpensRow(k), CreateTradeRun(r), key[r] = k,
         faults' = 0
  PROVE  Writer(r, k)'
<1>0. r \in Procs /\ env[r].db
  BY DEF Procs, CreateTradeRun, TypeInv, KeysOK
<1>1. Goto(r, "created", NoState) /\ UNCHANGED <<key, env>>
  <2>1. NoRun(key[r])
    BY DEF OpensRow
  <2> QED
    BY <2>1, Acknowledged DEF CreateTradeRun, Inserts, request
<1>2. pc'[r] = "created" /\ key'[r] = k /\ env'[r].db
  BY <1>0, <1>1, GotoAt
<1> QED
  BY <1>2 DEF OpensRow, Writer

LEMMA EventsStep ==
  ASSUME SafeInv, EventsOK, [Next]_vars
  PROVE  EventsOK'
<1> SUFFICES ASSUME NEW k \in Keys, runs'[k].state # NoState, faults' = 0
             PROVE  Told(k)'
  BY DEF EventsOK, NoRun
<1>0. TypeInv /\ faults = 0 /\ logged[k] \subseteq logged'[k]
  BY FaultsStay, EventsStay DEF SafeInv
<1>1. ASSUME NEW p \in Procs, pc'[p] = pc[p], ph'[p] = ph[p], key'[p] = key[p], env'[p] = env[p],
             runs'[k].state = runs[k].state, Writer(p, k)
      PROVE  Told(k)'
  BY <1>1 DEF Told, Writer
<1>2. CASE runs[k].state \in logged[k] /\ runs'[k].state = runs[k].state
  BY <1>0, <1>2 DEF Told
<1>3. CASE UNCHANGED <<runs, control, request>>
  <2>1. Told(k)
    BY <1>0, <1>3 DEF EventsOK, NoRun
  <2> QED
    BY <1>1, <1>2, <1>3, <2>1 DEF Told, control, request
<1>4. ASSUME NEW q \in Procs, Acts(q) PROVE Told(k)'
  <2>1. CASE runs'[k].state = runs[k].state
    <3>1. Told(k)
      BY <1>0, <2>1 DEF EventsOK, NoRun
    <3>2. ASSUME NEW p \in Procs, Writer(p, k) PROVE Told(k)'
      <4>1. CASE p = q
        BY <1>0, <1>4, <2>1, <3>2, <4>1, WriterLogs DEF Told
      <4>2. CASE p # q
        BY <1>0, <1>1, <1>4, <2>1, <3>2, <4>2, OthersStay, ActsKeys
      <4> QED
        BY <4>1, <4>2
    <3> QED
      BY <1>2, <2>1, <3>1, <3>2 DEF Told
  <2>2. CASE OpensRow(k) /\ q \in Orders /\ CreateTradeRun(q) /\ key[q] = k
    BY <1>0, <1>4, <2>2, OpensTold DEF Told
  <2>3. CASE MovesRow(q, k) /\ CasState(q) /\ ~ KeepsRow(k)
    BY <1>0, <1>4, <2>3, MovesTold DEF Told
  <2> QED
    BY <1>0, <1>4, <2>1, <2>2, <2>3, ActsRow DEF KeepsRow, MarksRow
<1> QED
  BY <1>3, <1>4, StepActs

LEMMA RecordInit == Init => ErrorsOK /\ EventsOK
  BY DEF Init, ErrorsOK, BlankRowsOK, UnknownRowsOK, FailingOK, Failing, EventsOK, NoRun, NoRow, NoEnv,
     NoState, Procs

LEMMA RecordStep ==
  ASSUME SafeInv, ErrorsOK, EventsOK, [Next]_vars
  PROVE  ErrorsOK' /\ EventsOK'
  BY ErrorsStep, FailingStep, EventsStep DEF ErrorsOK, SafeInv

\* A row tells its story: once nobody is between an update and its event, its state is
\* among the events of the row, and a request that reports a failed broker call has left
\* the error there, whoever moved the row meanwhile.
THEOREM StoryTold == Spec => []RowTellsItsStory
<1>1. Init => SafeInv /\ ErrorsOK /\ EventsOK
  BY InitSafe, RecordInit
<1>2. SafeInv /\ ErrorsOK /\ EventsOK /\ [Next]_vars => SafeInv' /\ ErrorsOK' /\ EventsOK'
  BY StepSafe, RecordStep
<1>3. SafeInv /\ ErrorsOK /\ EventsOK => RowTellsItsStory
  <2>1. ErrorsOK => FailureOnRecord
    BY DEF ErrorsOK, FailingOK, Failing, FailureOnRecord
  <2>2. EventsOK => HistoryExplainsState
    BY DEF EventsOK, Told, Writer, HistoryExplainsState
  <2> QED
    BY <2>1, <2>2 DEF RowTellsItsStory
<1> QED
  BY <1>1, <1>2, <1>3, PTL DEF Spec

(***************************************************************************)
(* KnownOrderNotRepeated.  An order that was at the broker when a request  *)
(* with its key arrived witnesses the repetition.  It only moves forward   *)
(* from list to list: if the first check did not find it among the         *)
(* pending orders it was no longer pending, and from then on the history   *)
(* shows it, so that the second check, which reads the history after that, *)
(* finds it.                                                               *)
(***************************************************************************)
Witness(r, o) ==
  /\ o # r /\ key[o] = key[r] /\ Visible(o)
  /\ pc[r] = "dup1" /\ "orders" \notin todo[r] /\ broker[o] = "pending" => o \in seen[r]["orders"]
  /\ pc[r] = "dup2" => /\ broker[o] \in {"open", "final"}
                       /\ "history" \notin todo[r] => o \in seen[r]["history"]

Known(r) == known[r] /\ faults = 0
KnownOK ==
  \A r \in Orders : Known(r) => /\ ~ Sent(r) /\ pc[r] \notin {"submit", "post"}
                                /\ \E o \in Orders : Witness(r, o)

(* A visible order stays visible and never becomes pending again.            *)
LEMMA VisibleStays ==
  ASSUME SafeInv, [Next]_vars, NEW o \in Orders, Visible(o)
  PROVE  /\ Visible(o)' /\ key'[o] = key[o]
         /\ broker'[o] = "pending" => broker[o] = "pending"
         /\ broker[o] \in {"open", "final"} => broker'[o] \in {"open", "final"}
         /\ UNCHANGED <<control, request>> \/ broker'[o] = broker[o]
<1>0. TypeInv /\ Sent(o)
  BY DEF SafeInv, Visible, Sent
<1>1. key'[o] = key[o]
  BY <1>0, SentStable
<1>2. CASE UNCHANGED broker
  BY <1>1, <1>2 DEF Visible
<1>3. CASE BrokerMoves
  <2>1. UNCHANGED <<control, request>>
    BY <1>3 DEF BrokerMoves
  <2>2. PICK r \in Orders :
          \/ broker[r] = "wire" /\ \E s \in {"lost", "pending"} : broker' = [broker EXCEPT ![r] = s]
          \/ broker[r] = "pending" /\ \E s \in {"open", "final"} : broker' = [broker EXCEPT ![r] = s]
          \/ broker[r] = "open" /\ broker' = [broker EXCEPT ![r] = "final"]
    BY <1>3 DEF BrokerMoves
  <2>3. /\ Visible(o)'
        /\ broker'[o] = "pending" => broker[o] = "pending"
        /\ broker[o] \in {"open", "final"} => broker'[o] \in {"open", "final"}
    BY <1>0, <2>2 DEF Visible, TypeInv, DataOK
  <2> QED
    BY <1>1, <2>1, <2>3
<1>4. ASSUME NEW q \in Orders, PostOrder(q) PROVE broker'[o] = broker[o]
  <2>1. q # o
    BY <1>0, <1>4 DEF PostOrder, SafeInv, ClearOK, Unsent
  <2> QED
    BY <1>0, <1>4, <2>1 DEF PostOrder, TypeInv, DataOK
<1>5. ASSUME NEW q \in Procs, Acts(q) PROVE broker'[o] = broker[o]
  BY <1>0, <1>4, <1>5, ActsKeys
<1>6. broker'[o] = broker[o] => Visible(o)'
  BY DEF Visible
<1> QED
  BY <1>1, <1>2, <1>3, <1>5, <1>6, StepActs

(* What a request has still to read is its own.                              *)
LEMMA TodoStays ==
  ASSUME TypeInv, NEW q \in Procs, Acts(q), NEW p \in Procs \ {q}
  PROVE  todo'[p] = todo[p]
<1>1. ASSUME NEW s, NEW c, Goto(q, s, c) PROVE todo'[p] = todo[p]
  BY <1>1 DEF Goto, TypeInv, ControlOK
<1>2. ASSUME NEW s, NEW c, Acknowledge(q, s, c) PROVE todo'[p] = todo[p]
  BY <1>1, <1>2 DEF Acknowledge
<1>3. CASE ReadList(q) \/ ReadFails(q)
  <2>1. (\E l : todo' = [todo EXCEPT ![q] = @ \ {l}]) \/ Goto(q, OnThrow(q), NoState)
    BY <1>3 DEF ReadList, ReadFails
  <2> QED
    BY <1>1, <2>1 DEF TypeInv, ControlOK
<1>4. CASE ReadState(q) \/ CasState(q)
  <2>1. UNCHANGED todo \/ Goto(q, OnThrow(q), NoState)
    BY <1>4 DEF ReadState, CasState
  <2> QED
    BY <1>1, <2>1
<1>5. CASE LogTransition(q) \/ SkipTracking(q) \/ RecordErrorOnly(q) \/ QueryFails(q) \/ Crash(q)
  BY <1>1, <1>2, <1>5 DEF LogTransition, SkipTracking, RecordErrorOnly, QueryFails, Crash
<1>6. CASE OrderStep(q)
  BY <1>1, <1>2, <1>6 DEF OrderStep, Arrive, CreateTradeRun, LogCreated, EvaluateRisk,
     UpdateFromPreview, DecideFirst, DecideFinal, PostOrder, BrokerAnswers, UpdateBrokerResponse
<1>7. CASE VerifierStep(q)
  BY <1>1, <1>2, <1>7 DEF VerifierStep, AskVerification, MatchRows, StoreVerification, LogVerification
<1>8. CASE CloserStep(q)
  <2>1. AskClose(q) => \E s, c : Goto(q, s, c)
    BY Zenon DEF AskClose
  <2> QED
    BY <1>1, <1>2, <1>8, <2>1 DEF CloserStep, LogClose, DeletePosition, DeleteAnswers, StoreClose
<1> QED
  BY <1>3, <1>4, <1>5, <1>6, <1>7, <1>8 DEF Acts, Common

(* Where an order request goes on, as far as the duplicate checks care.      *)
LEMMA CheckNext ==
  ASSUME SafeInv, NEW r \in Orders, Acts(r), faults' = 0, ~ Arrive(r),
         pc[r] \notin {"submit", "post"}
  PROVE  \/ UNCHANGED <<pc, todo, seen>>
         \/ ReadList(r)
         \/ \E s : Goto(r, s, NoState) /\ s \notin {"dup2", "submit", "post"}
         \/ pc[r] = "dup1" /\ todo[r] = {} /\ ~ Duplicate(r) /\ Goto(r, "dup2", NoState)
         \/ pc[r] = "dup2" /\ todo[r] = {} /\ ~ Duplicate(r) /\ Goto(r, "submit", NoState)
<1>0. TypeInv /\ r \in Procs /\ pc[r] \in OrderSteps /\ r \notin Verifiers /\ r \notin Closers
  BY OrderAt, RequestsDistinct DEF SafeInv
<1> DEFINE Elsewhere(s) == s \notin {"dup2", "submit", "post"}
<1>1. Elsewhere(OnThrow(r))
  BY DEF OnThrow, Marked
<1>2. pc[r] \in TransitionSteps \cup (StoreSteps \ {"insert"}) => Elsewhere(After(r))
  BY <1>0 DEF After, Marked, OrderSteps, TransitionSteps, TargetOf, StoreSteps, VerifySteps
<1>3. CASE LogTransition(r) \/ RecordErrorOnly(r) \/ LogCreated(r) \/ UpdateFromPreview(r)
             \/ UpdateBrokerResponse(r)
  <2>1. Acknowledge(r, After(r), NoState) /\ pc[r] \in TransitionSteps \cup (StoreSteps \ {"insert"})
    BY <1>0, <1>3 DEF LogTransition, RecordErrorOnly, LogCreated, UpdateFromPreview,
       UpdateBrokerResponse, TypeInv, KeysOK, StoreSteps
  <2> QED
    BY <1>0, <1>2, <2>1, Acknowledged
<1>4. CASE SkipTracking(r)
  BY <1>2, <1>4 DEF SkipTracking
<1>5. CASE ReadState(r) \/ CasState(r)
  <2>1. UNCHANGED <<pc, todo, seen>> \/ Goto(r, OnThrow(r), NoState)
    BY <1>5 DEF ReadState, CasState
  <2> QED
    BY <1>1, <2>1
<1>6. CASE CreateTradeRun(r)
  <2>1. Goto(r, "created", NoState) \/ Goto(r, "done", NoState)
    BY <1>0, <1>6, Acknowledged DEF CreateTradeRun
  <2> QED
    BY <2>1
<1>7. CASE EvaluateRisk(r) \/ BrokerAnswers(r)
  <2>1. \E s \in {"recordPass", "recordFail", "store", "unknown"} : Goto(r, s, NoState)
    BY <1>7 DEF EvaluateRisk, BrokerAnswers
  <2> QED
    BY <2>1
<1>8. CASE DecideFirst(r)
  <2>1. \/ \E s \in {"blocked", "dryRun"} : Goto(r, s, NoState)
        \/ ~ Duplicate(r) /\ Goto(r, "dup2", NoState)
    BY <1>8 DEF DecideFirst
  <2> QED
    BY <1>8, <2>1 DEF DecideFirst
<1>9. CASE DecideFinal(r)
  <2>1. Goto(r, "blocked", NoState) \/ (~ Duplicate(r) /\ Goto(r, "submit", NoState))
    BY <1>9 DEF DecideFinal
  <2> QED
    BY <1>9, <2>1 DEF DecideFinal
<1> QED
  BY <1>0, <1>3, <1>4, <1>5, <1>6, <1>7, <1>8, <1>9, NoFault DEF Acts, Common, OrderStep, PostOrder

(* A list the request reads now shows the order if it is on it.              *)
LEMMA ReadShows ==
  ASSUME TypeInv, NEW r \in Procs, ReadList(r), NEW l \in Lists, l \notin todo'[r], NEW o \in Orders
  PROVE  \/ l \notin todo[r] /\ seen'[r][l] = seen[r][l]
         \/ broker[o] \in Holds(l) => o \in seen'[r][l]
<1>1. PICK m \in todo[r] : /\ todo' = [todo EXCEPT ![r] = @ \ {m}]
                           /\ seen' = [seen EXCEPT ![r][m] = {q \in Orders : broker[q] \in Holds(m)}]
  BY DEF ReadList
<1>2. m \in Lists
  BY DEF TypeInv, ControlOK
<1>3. CASE l = m
  BY <1>1, <1>2, <1>3 DEF TypeInv, ControlOK
<1>4. CASE l # m
  <2>1. l \notin todo[r]
    BY <1>1, <1>4 DEF TypeInv, ControlOK
  <2>2. seen'[r][l] = seen[r][l]
    BY <1>1, <1>2, <1>4 DEF TypeInv, ControlOK
  <2> QED
    BY <2>1, <2>2
<1> QED
  BY <1>3, <1>4

LEMMA GotoReads ==
  ASSUME TypeInv, NEW r \in Procs, NEW s, NEW c, Goto(r, s, c)
  PROVE  pc'[r] = s /\ (s \in ReadSteps => todo'[r] = Lists)
  BY DEF Goto, TypeInv, ControlOK

(* The witness of a repetition survives every step of the request itself.    *)
LEMMA WitnessOwnStep ==
  ASSUME SafeInv, NEW r \in Orders, Acts(r), faults' = 0, ~ Arrive(r), [Next]_vars,
         pc[r] \notin {"submit", "post"}, NEW o \in Orders, Witness(r, o)
  PROVE  pc'[r] \notin {"submit", "post"} /\ Witness(r, o)'
<1>0. TypeInv /\ r \in Procs /\ UNCHANGED broker
  <2>1. UNCHANGED broker \/ PostOrder(r)
    BY ActsKeys DEF SafeInv, Procs
  <2> QED
    BY <2>1 DEF SafeInv, Procs, PostOrder
<1>1. key'[r] = key[r] /\ key'[o] = key[o] /\ Visible(o)' /\ Visible(o) /\ o # r
  <2>1. ~ Starts(r)
    BY RequestsDistinct DEF Starts
  <2> QED
    BY <1>0, <2>1, ActsKeys, VisibleStays DEF Witness
<1>2. ASSUME pc'[r] = pc[r],
             \A l \in Lists : l \notin todo'[r] =>
               \/ l \notin todo[r] /\ seen'[r][l] = seen[r][l]
               \/ broker[o] \in Holds(l) => o \in seen'[r][l]
      PROVE  Witness(r, o)'
  <2>1. Holds("orders") = {"pending"} /\ Holds("history") = {"open", "final"}
    BY DEF Holds
  <2> QED
    BY <1>0, <1>1, <1>2, <2>1 DEF Witness, Lists
<1>3. CASE UNCHANGED <<pc, todo, seen>>
  BY <1>2, <1>3
<1>4. CASE ReadList(r)
  <2>1. pc'[r] = pc[r]
    BY <1>4 DEF ReadList
  <2> QED
    BY <1>0, <1>2, <1>4, <2>1, ReadShows
<1>5. ASSUME NEW s, Goto(r, s, NoState), s \notin {"dup2", "submit", "post"}
      PROVE  pc'[r] \notin {"submit", "post"} /\ Witness(r, o)'
  BY <1>0, <1>1, <1>5, GotoReads DEF Witness, Lists, ReadSteps
<1>6. CASE pc[r] = "dup1" /\ todo[r] = {} /\ ~ Duplicate(r) /\ Goto(r, "dup2", NoState)
  <2>1. o \notin seen[r]["orders"]
    BY <1>6, <1>1 DEF Duplicate, Lists, Witness
  <2>2. broker[o] \in {"open", "final"}
    BY <1>6, <1>1, <2>1 DEF Witness, Visible
  <2> QED
    BY <1>0, <1>1, <1>6, <2>2, GotoReads DEF Witness, Lists, ReadSteps
<1>7. ~ (pc[r] = "dup2" /\ todo[r] = {} /\ ~ Duplicate(r))
  BY DEF Duplicate, Lists, Witness
<1> QED
  BY <1>2, <1>3, <1>4, <1>5, <1>6, <1>7, CheckNext

(* A request that arrives while such an order is visible has its witness.    *)
LEMMA WitnessComes ==
  ASSUME SafeInv, [Next]_vars, NEW r \in Orders, Arrive(r), known'[r]
  PROVE  pc'[r] \notin {"submit", "post"} /\ \E o \in Orders : Witness(r, o)'
<1>0. TypeInv /\ r \in Procs /\ ~ Sent(r) /\ UNCHANGED broker
  BY DEF SafeInv, Procs, Arrive, TypeInv, KeysOK, Sent
<1>1. PICK k \in Keys :
        /\ key' = [key EXCEPT ![r] = k]
        /\ known' = [known EXCEPT ![r] = \E o \in Orders : key[o] = k /\ Visible(o)]
        /\ \E s \in {"insert", "preview"} : Goto(r, s, NoState)
  BY DEF Arrive
<1>2. PICK o \in Orders : key[o] = k /\ Visible(o)
  <2>1. known'[r] = (\E o \in Orders : key[o] = k /\ Visible(o))
    BY <1>1 DEF SafeInv, TypeInv, DataOK
  <2> QED
    BY <2>1, Zenon
<1>3. o # r /\ key'[o] = k /\ key'[r] = k /\ Visible(o)'
  BY <1>0, <1>1, <1>2 DEF Visible, Sent, TypeInv, DataOK, Procs
<1>4. pc'[r] \in {"insert", "preview"}
  BY <1>0, <1>1, GotoReads
<1> QED
  BY <1>3, <1>4 DEF Witness

LEMMA KnownStays ==
  ASSUME TypeInv, [Next]_vars, NEW r \in Orders, ~ Arrive(r)
  PROVE  known'[r] = known[r]
<1>1. CASE UNCHANGED known
  BY <1>1
<1>2. ASSUME NEW q \in Orders, Arrive(q) PROVE known'[r] = known[r]
  BY <1>2 DEF Arrive, TypeInv, DataOK
<1>3. CASE UNCHANGED vars \/ BrokerMoves
  BY <1>3 DEF vars, BrokerMoves, request
<1>4. ASSUME NEW p, Transition(p) \/ SkipTracking(p) \/ ReadList(p) \/ RecordErrorOnly(p)
                      \/ ReadFails(p) \/ QueryFails(p) \/ Crash(p)
      PROVE  UNCHANGED known
  BY <1>4 DEF Transition, ReadState, CasState, LogTransition, SkipTracking, ReadList,
     RecordErrorOnly, ReadFails, QueryFails, Crash, request
<1>5. ASSUME NEW q \in Orders, OrderStep(q) PROVE UNCHANGED known \/ Arrive(q)
  BY <1>5 DEF OrderStep, CreateTradeRun, LogCreated, EvaluateRisk,
     UpdateFromPreview, DecideFirst, DecideFinal, PostOrder, BrokerAnswers, UpdateBrokerResponse, request
<1>6. ASSUME NEW p, VerifierStep(p) \/ CloserStep(p) PROVE UNCHANGED known
  BY <1>6 DEF VerifierStep, AskVerification, MatchRows, StoreVerification,
     LogVerification, CloserStep, AskClose, LogClose, DeletePosition, DeleteAnswers, StoreClose, request
<1> QED
  BY <1>2, <1>3, <1>4, <1>5, <1>6 DEF Next, NextOf

LEMMA KnownStep ==
  ASSUME SafeInv, KnownOK, [Next]_vars
  PROVE  KnownOK'
<1> SUFFICES ASSUME NEW r \in Orders, Known(r)'
             PROVE  /\ ~ Sent(r)' /\ pc'[r] \notin {"submit", "post"}
                    /\ \E o \in Orders : Witness(r, o)'
  BY DEF KnownOK
<1>0. TypeInv /\ r \in Procs /\ faults = 0 /\ faults' = 0
  BY FaultsStay DEF SafeInv, Procs, Known
<1>1. Sent(r)' => Sent(r) \/ PostOrder(r)
  BY <1>0, SentStable
<1>2. CASE Arrive(r)
  <2>1. ~ Sent(r) /\ ~ PostOrder(r) /\ known'[r]
    BY <1>0, <1>2 DEF Arrive, PostOrder, TypeInv, KeysOK, Sent, Known
  <2> QED
    BY <1>1, <1>2, <2>1, WitnessComes
<1>3. CASE ~ Arrive(r)
  <2>1. Known(r)
    BY <1>0, <1>3, KnownStays DEF Known
  <2>2. PICK o \in Orders : Witness(r, o)
    BY <2>1 DEF KnownOK
  <2>3. ~ Sent(r)' /\ pc[r] \notin {"submit", "post"}
    BY <1>1, <2>1 DEF KnownOK, PostOrder
  <2>4. ASSUME Acts(r) PROVE pc'[r] \notin {"submit", "post"} /\ Witness(r, o)'
    BY <1>0, <1>3, <2>2, <2>3, <2>4, WitnessOwnStep
  <2>5. ASSUME pc'[r] = pc[r], todo'[r] = todo[r], seen'[r] = seen[r], key'[r] = key[r]
        PROVE  Witness(r, o)'
    <3>1. Visible(o)
      BY <2>2 DEF Witness
    <3> QED
      BY <2>2, <2>5, <3>1, VisibleStays DEF Witness
  <2>6. ASSUME NEW q \in Procs \ {r}, Acts(q) PROVE Witness(r, o)' /\ pc'[r] = pc[r]
    BY <1>0, <2>5, <2>6, OthersStay, TodoStays, ActsKeys
  <2>7. ASSUME UNCHANGED <<control, request>> PROVE Witness(r, o)' /\ pc'[r] = pc[r]
    BY <2>5, <2>7 DEF control, request
  <2>8. pc'[r] \notin {"submit", "post"} /\ Witness(r, o)'
    BY <2>3, <2>4, <2>6, <2>7, StepActs
  <2> QED
    BY <2>3, <2>8
<1> QED
  BY <1>2, <1>3

\* While no broker read fails, the broker lists alone stop a repetition: a request whose
\* key had an order at the broker when it arrived is not sent, with or without a
\* database, although the order moves from list to list while they are read.
THEOREM KnownNotRepeated == Spec => []KnownOrderNotRepeated
<1>1. Init => SafeInv /\ KnownOK
  <2>1. Init => KnownOK
    BY DEF Init, KnownOK, Known
  <2> QED
    BY <2>1, InitSafe
<1>2. SafeInv /\ KnownOK /\ [Next]_vars => SafeInv' /\ KnownOK'
  BY StepSafe, KnownStep
<1>3. KnownOK => KnownOrderNotRepeated
  BY DEF KnownOK, Known, Sent, KnownOrderNotRepeated
<1> QED
  BY <1>1, <1>2, <1>3, PTL DEF Spec
================================================================================
