------------------------ MODULE TradeGateway_proofs ------------------------
(***************************************************************************)
(* Theorems about TradeGateway for every number of requests, keys and      *)
(* faults: type correctness first, then what the database buys.            *)
(***************************************************************************)
EXTENDS TradeGateway, TLAPS

AllSteps == UNION {OrderSteps, VerifierSteps, CloserSteps}

\* The control part of TypeOK: what Goto and the transition phases write.
ControlOK ==
  /\ pc \in [Procs -> AllSteps]
  /\ \A p \in Procs : pc[p] \in StepsOf(p)
  /\ ph \in [Procs -> {"read", "cas", "log"}]
  /\ cur \in [Procs -> States \cup {NoState}]
  /\ todo \in [Procs -> SUBSET Lists]
  /\ seen \in [Procs -> [Lists -> SUBSET Orders]]

DataOK ==
  /\ runs \in [Keys -> Row]
  /\ logged \in [Keys -> SUBSET States]
  /\ broker \in [Orders -> Stages]
  /\ key \in [Procs -> Keys \cup {NoKey}]
  /\ env \in [Procs -> Environment]
  /\ known \in [Orders -> BOOLEAN]
  /\ faults \in 0..MaxFaults

\* TypeOK is its data and its control part.
LEMMA TypeSplit == TypeOK <=> ControlOK /\ DataOK
  BY DEF TypeOK, ControlOK, DataOK, AllSteps

\* Jumping to a statement of one's own handler keeps the control part.
LEMMA GotoControl ==
  ASSUME ControlOK, NEW p \in Procs, NEW s \in StepsOf(p), NEW c \in States \cup {NoState},
         Goto(p, s, c)
  PROVE  ControlOK'
<1>1. s \in AllSteps
  BY DEF StepsOf, AllSteps, Procs
<1>2. pc' \in [Procs -> AllSteps] /\ \A q \in Procs : pc'[q] \in StepsOf(q)
  BY <1>1 DEF ControlOK, Goto
<1>3. ph' \in [Procs -> {"read", "cas", "log"}] /\ cur' \in [Procs -> States \cup {NoState}]
  BY DEF ControlOK, Goto
<1>4. todo' \in [Procs -> SUBSET Lists]
  BY DEF ControlOK, Goto
<1>5. seen' \in [Procs -> [Lists -> SUBSET Orders]]
  BY DEF ControlOK, Goto
<1> QED
  BY <1>2, <1>3, <1>4, <1>5 DEF ControlOK, StepsOf

\* The requests of one kind only execute statements of their handler.
LEMMA StepsDisjoint ==
  ASSUME NEW p \in Procs
  PROVE  /\ p \in Orders => StepsOf(p) = OrderSteps
         /\ p \in Verifiers => StepsOf(p) = VerifierSteps
         /\ p \in Closers => StepsOf(p) = CloserSteps
  BY RequestsDistinct DEF StepsOf, Procs

\* Verification goes on with a statement of verification.
LEMMA AdvanceType ==
  ASSUME NEW p, NEW s
  PROVE  Advance(p, s) \in VerifierSteps
  BY DEF Advance, VerifierSteps, VerifySteps

\* The statement after a tracking statement belongs to the same handler.
LEMMA AfterType ==
  ASSUME ControlOK, NEW p \in Procs,
         pc[p] \in TransitionSteps \cup (StoreSteps \ {"insert"}) \cup CloseLogSteps \cup {"vLog"}
  PROVE  After(p) \in StepsOf(p)
<1>1. CASE p \in Orders
  <2>1. StepsOf(p) = OrderSteps /\ pc[p] \in OrderSteps
    BY <1>1, StepsDisjoint DEF ControlOK
  <2> QED
    BY <1>1, <2>1 DEF After, OrderSteps, Marked, TransitionSteps, TargetOf, StoreSteps, VerifySteps,
       CloseLogSteps
<1>2. CASE p \in Verifiers
  <2>1. StepsOf(p) = VerifierSteps /\ pc[p] \in VerifierSteps
    BY <1>2, StepsDisjoint DEF ControlOK
  <2>2. pc[p] \in {"vLog", "vSubmit", "vAccept", "vFill", "vOpen"}
    BY <2>1 DEF VerifierSteps, VerifySteps, TransitionSteps, TargetOf, StoreSteps, CloseLogSteps
  <2> QED
    BY <2>1, <2>2, AdvanceType DEF After, VerifySteps
<1>3. CASE p \in Closers
  <2>1. StepsOf(p) = CloserSteps /\ pc[p] \in CloserSteps
    BY <1>3, StepsDisjoint DEF ControlOK
  <2>2. p \notin Orders
    BY <1>3, RequestsDistinct
  <2> QED
    BY <2>1, <2>2 DEF After, CloserSteps, Marked, TransitionSteps, TargetOf, StoreSteps, VerifySteps,
       CloseLogSteps
<1> QED
  BY <1>1, <1>2, <1>3 DEF Procs

\* A statement that throws leads to a statement of the same handler.
LEMMA OnThrowType ==
  ASSUME ControlOK, NEW p \in Procs
  PROVE  OnThrow(p) \in StepsOf(p)
<1>1. CASE p \in Orders
  BY <1>1, StepsDisjoint DEF ControlOK, OnThrow, Marked, OrderSteps, CloserSteps
<1>2. CASE p \in Verifiers
  <2>1. StepsOf(p) = VerifierSteps /\ pc[p] \in VerifierSteps /\ p \notin Orders
    BY <1>2, StepsDisjoint, RequestsDistinct DEF ControlOK
  <2> QED
    BY <2>1 DEF OnThrow, VerifierSteps, VerifySteps
<1>3. CASE p \in Closers
  <2>1. StepsOf(p) = CloserSteps /\ pc[p] \in CloserSteps /\ p \notin Orders
    BY <1>3, StepsDisjoint, RequestsDistinct DEF ControlOK
  <2> QED
    BY <2>1 DEF OnThrow, CloserSteps, Marked, CloseLogSteps
<1> QED
  BY <1>1, <1>2, <1>3 DEF Procs

\* The state a transition asks for is a state of the table.
LEMMA TargetType ==
  ASSUME NEW s \in TransitionSteps
  PROVE  TargetOf[s] \in States
  BY DEF TransitionSteps, TargetOf, States, EvaluationStates, TerminalStates, ExecutionStates

(***************************************************************************)
(* TypeOK is not inductive: a transition writes TargetOf[pc[p]] into the   *)
(* row key[p], and a log entry names the state p has read.  TypeInv adds   *)
(* which requests track a row, that the row exists, and that what they     *)
(* read of it was a state.                                                 *)
(***************************************************************************)
Cursor == {"vLog"} \cup CloseLogSteps
CloseRowSteps == CloseLogSteps \cup {"cStore", "cRequest"}
RowSteps == AllSteps \ {"idle", "insert", "vRead", "done", "failed", "unsure", "crashed"}

KeysOK ==
  /\ \A r \in Orders : broker[r] # "none" => pc[r] # "idle"
  /\ \A p \in Orders \cup Verifiers : pc[p] # "idle" => key[p] \in Keys
  /\ \A v \in Verifiers : pc[v] # "idle" => env[v].db
  /\ \A p \in Orders : pc[p] = "insert" => env[p].db
  /\ \A c \in Closers : pc[c] \in CloseRowSteps => Tracked(c)
  /\ \A p \in Procs : ph[p] # "read" => pc[p] \in TransitionSteps /\ Tracked(p)
  /\ \A p \in Procs : todo[p] # {} => pc[p] \in ReadSteps

RowsOK ==
  /\ \A k \in Keys : runs[k].ids # {} => ~ NoRun(k)
  /\ \A p \in Procs : Tracked(p) /\ pc[p] \in RowSteps => ~ NoRun(key[p])
  /\ \A p \in Procs : pc[p] \in Cursor => cur[p] \in States

TypeInv == ControlOK /\ DataOK /\ KeysOK /\ RowsOK

\* What a write to the rows may do without disturbing RowsOK.
RowsGrow ==
  \A k \in Keys : /\ ~ NoRun(k) => ~ NoRun(k)'
                  /\ runs'[k].ids # {} => ~ NoRun(k)'

\* A request that goes on with a statement whose row exists keeps TypeInv.
LEMMA GotoTyped ==
  ASSUME TypeInv, NEW p \in Procs, NEW s \in StepsOf(p), NEW c \in States \cup {NoState},
         Goto(p, s, c), DataOK', RowsGrow, UNCHANGED <<key, env>>,
         pc[p] # "idle",
         p \in Orders => s \notin {"idle", "insert"},
         \A r \in Orders : broker'[r] # "none" => broker[r] # "none" \/ r = p,
         s \in RowSteps /\ Tracked(p) => ~ NoRun(key[p])',
         s \in Cursor => c \in States,
         s \in CloseRowSteps => Tracked(p)
  PROVE  TypeInv'
<1>1. ControlOK'
  BY GotoControl DEF TypeInv
<1>2. /\ pc'[p] = s /\ ph'[p] = "read" /\ cur'[p] = c
      /\ \A q \in Procs \ {p} : pc'[q] = pc[q] /\ ph'[q] = ph[q] /\ cur'[q] = cur[q]
  BY DEF Goto, TypeInv, ControlOK
<1>3. KeysOK'
  <2>1. /\ \A r \in Orders : broker'[r] # "none" => pc'[r] # "idle"
        /\ \A q \in Orders : pc'[q] = "insert" => env'[q].db
    BY <1>2 DEF TypeInv, KeysOK, Procs
  <2>2. /\ \A q \in Orders \cup Verifiers : pc'[q] # "idle" => key'[q] \in Keys
        /\ \A v \in Verifiers : pc'[v] # "idle" => env'[v].db
    BY <1>2 DEF TypeInv, KeysOK, Procs
  <2>3. /\ \A d \in Closers : pc'[d] \in CloseRowSteps => Tracked(d)'
        /\ \A q \in Procs : ph'[q] # "read" => pc'[q] \in TransitionSteps /\ Tracked(q)'
    BY <1>2 DEF TypeInv, KeysOK, Procs, Tracked
  <2>4. \A q \in Procs : todo'[q] # {} => pc'[q] \in ReadSteps
    BY <1>2 DEF TypeInv, ControlOK, KeysOK, Goto
  <2> QED
    BY <2>1, <2>2, <2>3, <2>4 DEF KeysOK, CloseRowSteps, CloseLogSteps, TransitionSteps, TargetOf,
       ReadSteps
<1>4. RowsOK'
  <2>1. \A k \in Keys : runs'[k].ids # {} => ~ NoRun(k)'
    BY DEF RowsGrow
  <2>2. \A q \in Procs : Tracked(q)' /\ pc'[q] \in RowSteps => ~ NoRun(key[q])'
    <3>1. SUFFICES ASSUME NEW q \in Procs, Tracked(q), pc'[q] \in RowSteps
                   PROVE  ~ NoRun(key[q])'
      BY DEF Tracked
    <3>2. key[q] \in Keys
      BY <3>1 DEF Tracked, TypeInv, DataOK
    <3> QED
      BY <1>2, <3>1, <3>2 DEF TypeInv, RowsOK, RowsGrow, NoRun
  <2>3. \A q \in Procs : pc'[q] \in Cursor => cur'[q] \in States
    BY <1>2 DEF TypeInv, RowsOK
  <2> QED
    BY <2>1, <2>2, <2>3 DEF RowsOK, NoRun, Cursor, RowSteps, AllSteps, States
<1> QED
  BY <1>1, <1>3, <1>4 DEF TypeInv

\* No statement that follows a tracking call or an error reads a stale cursor.
LEMMA NextStatement ==
  ASSUME TypeInv, NEW p \in Procs, pc[p] # "idle"
  PROVE  /\ OnThrow(p) \notin Cursor \cup CloseRowSteps
         /\ p \in Orders => OnThrow(p) \notin {"idle", "insert"}
         /\ OnThrow(p) \in RowSteps => pc[p] \in RowSteps
  <1>1. pc[p] \in AllSteps
    BY DEF TypeInv, ControlOK
  <1>2. p \in Orders => pc[p] \in OrderSteps
    BY StepsDisjoint DEF TypeInv, ControlOK
  <1> QED
    BY <1>1, <1>2 DEF OnThrow, Marked, Cursor, CloseRowSteps, CloseLogSteps, RowSteps, AllSteps,
       OrderSteps

LEMMA AfterStatement ==
  ASSUME TypeInv, NEW p \in Procs,
         pc[p] \in TransitionSteps \cup (StoreSteps \ {"insert"}) \cup CloseLogSteps \cup {"vLog"}
  PROVE  /\ After(p) \notin Cursor \cup CloseRowSteps
         /\ p \in Orders => After(p) \notin {"idle", "insert"}
         /\ pc[p] \in RowSteps
         /\ pc[p] # "idle"
  <1>1. pc[p] \in AllSteps
    BY DEF TypeInv, ControlOK
  <1>2. p \in Orders => pc[p] \in OrderSteps
    BY StepsDisjoint DEF TypeInv, ControlOK
  <1>3. \A s : Advance(p, s) \in VerifierSteps \ {"vLog", "vStore"}
    BY DEF Advance, VerifierSteps, VerifySteps
  <1>4. pc[p] \in RowSteps /\ pc[p] # "idle"
    BY <1>1 DEF RowSteps, TransitionSteps, TargetOf, StoreSteps, CloseLogSteps
  <1>5. CASE pc[p] \in VerifySteps
    <2>1. After(p) \in VerifierSteps \ {"vLog", "vStore"}
      BY <1>3, <1>5 DEF After, VerifySteps, TransitionSteps, TargetOf, StoreSteps, CloseLogSteps
    <2>2. p \notin Orders
      BY <1>2, <1>5 DEF OrderSteps, VerifySteps
    <2> QED
      BY <1>4, <2>1, <2>2 DEF Cursor, CloseRowSteps, CloseLogSteps, VerifierSteps, VerifySteps
  <1>6. CASE pc[p] \notin VerifySteps
    BY <1>2, <1>4, <1>6 DEF After, Marked, Cursor, CloseRowSteps, CloseLogSteps, VerifySteps,
       TransitionSteps, TargetOf, StoreSteps, OrderSteps
  <1> QED
    BY <1>5, <1>6

(***************************************************************************)
(* Each kind of step keeps TypeInv.                                        *)
(***************************************************************************)
LEMMA TypeInit == Init => TypeInv
<1>1. SUFFICES ASSUME Init
               PROVE  TypeInv
  OBVIOUS
<1>2. \A p \in Procs : "idle" \in StepsOf(p)
  BY StepsDisjoint DEF Procs, OrderSteps, VerifierSteps, CloserSteps
<1>3. ControlOK
  BY <1>1, <1>2 DEF Init, ControlOK, AllSteps, OrderSteps
<1>4. DataOK
  <2>1. NoRow \in Row /\ NoEnv \in Environment
    BY DEF NoRow, Row, NoEnv, Environment, KillSwitch
  <2> QED
    BY <1>1, <2>1, LimitsAssumption DEF Init, DataOK, Stages
<1>5. \A p \in Procs : pc[p] = "idle" /\ ph[p] = "read"
  BY <1>1 DEF Init
<1>6. \A k \in Keys : runs[k].ids = {}
  BY <1>1 DEF Init, NoRow
<1>7. KeysOK
  BY <1>1, <1>5 DEF Init, KeysOK, Procs, CloseRowSteps, CloseLogSteps
<1>8. RowsOK
  BY <1>5, <1>6 DEF RowsOK, Cursor, CloseLogSteps, RowSteps
<1> QED
  BY <1>3, <1>4, <1>7, <1>8 DEF TypeInv

\* Lists a handler waits for and has received.
LEMMA ReadListTyped ==
  ASSUME TypeInv, NEW p \in Procs, ReadList(p)
  PROVE  TypeInv'
<1>1. PICK l \in todo[p] :
        /\ todo' = [todo EXCEPT ![p] = @ \ {l}]
        /\ seen' = [seen EXCEPT ![p][l] = {r \in Orders : broker[r] \in Holds(l)}]
        /\ UNCHANGED <<db, broker, pc, ph, cur, request, faults>>
  BY DEF ReadList
<1>2. l \in Lists /\ todo' \in [Procs -> SUBSET Lists]
  BY <1>1 DEF TypeInv, ControlOK
<1>3. seen' \in [Procs -> [Lists -> SUBSET Orders]]
  <2> DEFINE S == {r \in Orders : broker[r] \in Holds(l)}
  <2>1. S \in SUBSET Orders
    OBVIOUS
  <2> HIDE DEF S
  <2>2. seen' = [seen EXCEPT ![p] = [seen[p] EXCEPT ![l] = S]]
    BY <1>1, <1>2 DEF S, TypeInv, ControlOK
  <2>3. [seen[p] EXCEPT ![l] = S] \in [Lists -> SUBSET Orders]
    BY <1>2, <2>1 DEF TypeInv, ControlOK
  <2> QED
    BY <2>2, <2>3 DEF TypeInv, ControlOK
<1>4. ControlOK'
  BY <1>1, <1>2, <1>3 DEF TypeInv, ControlOK, StepsOf
<1> QED
  BY <1>1, <1>2, <1>4 DEF TypeInv, ControlOK, DataOK, KeysOK, RowsOK, db, request, Tracked, NoRun

\* A throw, wherever it comes from, only moves its request.
LEMMA ThrowTyped ==
  ASSUME TypeInv, NEW p \in Procs, pc[p] # "idle", Goto(p, OnThrow(p), NoState),
         DataOK', RowsGrow, UNCHANGED <<key, env, broker>>
  PROVE  TypeInv'
<1>1. OnThrow(p) \in StepsOf(p)
  BY OnThrowType DEF TypeInv
<1>2. OnThrow(p) \in RowSteps /\ Tracked(p) => ~ NoRun(key[p])'
  <2>1. SUFFICES ASSUME OnThrow(p) \in RowSteps, Tracked(p)
                 PROVE  ~ NoRun(key[p])'
    OBVIOUS
  <2>2. key[p] \in Keys /\ ~ NoRun(key[p])
    BY <2>1, NextStatement DEF TypeInv, RowsOK, DataOK, Tracked
  <2> QED
    BY <2>2 DEF RowsGrow, NoRun
<1> QED
  BY <1>1, <1>2, NextStatement, GotoTyped

\* A write and its acknowledgement, given the statement that follows it.
LEMMA AcknowledgeTyped ==
  ASSUME TypeInv, NEW p \in Procs, NEW s \in StepsOf(p), NEW c \in States \cup {NoState},
         Acknowledge(p, s, c), pc[p] # "idle",
         runs' \in [Keys -> Row], logged' \in [Keys -> SUBSET States],
         RowsGrow, UNCHANGED <<key, env, known, broker>>,
         p \in Orders => s \notin {"idle", "insert"},
         s \in RowSteps /\ Tracked(p) => ~ NoRun(key[p])',
         s \in Cursor => c \in States,
         s \in CloseRowSteps => Tracked(p)
  PROVE  TypeInv'
<1>1. DataOK'
  BY LimitsAssumption DEF TypeInv, DataOK, Acknowledge
<1>2. CASE Goto(p, s, c)
  BY <1>1, <1>2, GotoTyped
<1>3. CASE Goto(p, OnThrow(p), NoState)
  BY <1>1, <1>3, ThrowTyped
<1> QED
  BY <1>2, <1>3 DEF Acknowledge

\* A tracking call that returns goes on to the statement after it.
LEMMA AckAfterTyped ==
  ASSUME TypeInv, NEW p \in Procs, Acknowledge(p, After(p), NoState), Tracked(p),
         pc[p] \in TransitionSteps \cup (StoreSteps \ {"insert"}) \cup CloseLogSteps \cup {"vLog"},
         runs' \in [Keys -> Row], logged' \in [Keys -> SUBSET States],
         RowsGrow, UNCHANGED <<key, env, known, broker>>
  PROVE  TypeInv'
<1>1. After(p) \in StepsOf(p)
  BY AfterType DEF TypeInv
<1>2. key[p] \in Keys /\ ~ NoRun(key[p])
  BY AfterStatement DEF TypeInv, RowsOK, DataOK, Tracked
<1>3. ~ NoRun(key[p])'
  BY <1>2 DEF RowsGrow, NoRun
<1> QED
  BY <1>1, <1>3, AfterStatement, AcknowledgeTyped

LEMMA RowsUnchanged == UNCHANGED runs /\ TypeInv => RowsGrow
  BY DEF RowsGrow, NoRun, TypeInv, RowsOK

\* Rewriting one row, to a row with a state, only adds rows.
LEMMA RowWritten ==
  ASSUME TypeInv, NEW k \in Keys, NEW row \in Row, row.state # NoState,
         runs' = [runs EXCEPT ![k] = row]
  PROVE  runs' \in [Keys -> Row] /\ RowsGrow /\ ~ NoRun(k)'
  BY DEF TypeInv, DataOK, RowsOK, RowsGrow, NoRun

\* A tracked statement of a running handler finds its row.
LEMMA TrackedRow ==
  ASSUME TypeInv, NEW p \in Procs, Tracked(p), pc[p] \in RowSteps
  PROVE  key[p] \in Keys /\ runs[key[p]] \in Row /\ runs[key[p]].state \in States
  BY DEF TypeInv, DataOK, RowsOK, Tracked, NoRun, Row

LEMMA ReadStateTyped ==
  ASSUME TypeInv, NEW p \in Procs, ReadState(p)
  PROVE  TypeInv'
<1>1. /\ pc[p] \in TransitionSteps /\ ph[p] = "read" /\ Tracked(p)
      /\ UNCHANGED <<runs, logged, broker, key, env, known, faults>>
  BY DEF ReadState, db, request
<1>2. pc[p] \in RowSteps /\ pc[p] # "idle"
  BY <1>1, AfterStatement
<1>3. key[p] \in Keys /\ runs[key[p]].state \in States
  BY <1>1, <1>2, TrackedRow
<1>4. CASE Goto(p, OnThrow(p), NoState)
  <2>1. DataOK' /\ RowsGrow
    BY <1>1, RowsUnchanged DEF TypeInv, DataOK
  <2> QED
    BY <1>1, <1>2, <1>4, <2>1, ThrowTyped
<1>5. ASSUME NEW f \in {"cas", "log"}, ph' = [ph EXCEPT ![p] = f],
             cur' = [cur EXCEPT ![p] = runs[key[p]].state], UNCHANGED <<pc, todo, seen>>
      PROVE  TypeInv'
  <2>1. ControlOK'
    BY <1>3, <1>5 DEF TypeInv, ControlOK, StepsOf
  <2>2. KeysOK'
    BY <1>1, <1>5 DEF TypeInv, ControlOK, KeysOK, Tracked
  <2>3. RowsOK'
    BY <1>1, <1>3, <1>5 DEF TypeInv, ControlOK, RowsOK, Tracked, NoRun
  <2> QED
    BY <1>1, <2>1, <2>2, <2>3 DEF TypeInv, DataOK
<1> QED
  BY <1>4, <1>5 DEF ReadState

LEMMA CasStateTyped ==
  ASSUME TypeInv, NEW p \in Procs, CasState(p)
  PROVE  TypeInv'
<1>1. pc[p] \in TransitionSteps /\ Tracked(p) /\ ph[p] = "cas"
  BY DEF CasState, TypeInv, KeysOK
<1>2. pc[p] \in RowSteps /\ pc[p] # "idle"
  BY <1>1, AfterStatement
<1>3. key[p] \in Keys /\ runs[key[p]] \in Row
  BY <1>1, <1>2, TrackedRow
<1>4. UNCHANGED <<logged, broker, key, env, known>>
  BY DEF CasState, request
<1>5. CASE /\ runs' = [runs EXCEPT ![key[p]].state = TargetOf[pc[p]],
                                   ![key[p]].error = @ \/ pc[p] = "unknown"]
           /\ \/ /\ ph' = [ph EXCEPT ![p] = "log"]
                 /\ UNCHANGED <<pc, cur, todo, seen, faults>>
              \/ /\ faults < MaxFaults
                 /\ faults' = faults + 1
                 /\ Goto(p, OnThrow(p), NoState)
  <2> DEFINE row == [runs[key[p]] EXCEPT !.state = TargetOf[pc[p]],
                                         !.error = @ \/ pc[p] = "unknown"]
  <2>1. row \in Row /\ row.state # NoState
    BY <1>1, <1>3, TargetType DEF Row, States, EvaluationStates, TerminalStates, ExecutionStates,
       NoState
  <2>2. runs' = [runs EXCEPT ![key[p]] = row]
    BY <1>3, <1>5 DEF TypeInv, DataOK, Row
  <2> HIDE DEF row
  <2>3. runs' \in [Keys -> Row] /\ RowsGrow
    BY <1>3, <2>1, <2>2, RowWritten
  <2>4. DataOK'
    BY <1>4, <1>5, <2>3, LimitsAssumption DEF TypeInv, DataOK
  <2>5. CASE ph' = [ph EXCEPT ![p] = "log"] /\ UNCHANGED <<pc, cur, todo, seen, faults>>
    <3>1. ControlOK'
      BY <2>5 DEF TypeInv, ControlOK, StepsOf
    <3>2. KeysOK'
      BY <1>1, <1>4, <2>5 DEF TypeInv, ControlOK, KeysOK, Tracked
    <3>3. RowsOK'
      BY <1>4, <2>3, <2>5 DEF TypeInv, DataOK, RowsOK, RowsGrow, Tracked, NoRun
    <3> QED
      BY <2>4, <3>1, <3>2, <3>3 DEF TypeInv
  <2>6. CASE Goto(p, OnThrow(p), NoState)
    BY <1>2, <1>4, <2>3, <2>4, <2>6, ThrowTyped
  <2> QED
    BY <1>5, <2>5, <2>6
<1>6. CASE Goto(p, OnThrow(p), NoState) /\ UNCHANGED <<runs, faults>>
  <2>1. DataOK' /\ RowsGrow
    BY <1>4, <1>6, RowsUnchanged DEF TypeInv, DataOK
  <2> QED
    BY <1>2, <1>4, <1>6, <2>1, ThrowTyped
<1> QED
  BY <1>5, <1>6 DEF CasState

\* Appending an event of a state.
LEMMA LogTyped ==
  ASSUME TypeInv, NEW k \in Keys, NEW s \in States, Log(k, s)
  PROVE  logged' \in [Keys -> SUBSET States]
  BY DEF TypeInv, DataOK, Log

LEMMA LogTransitionTyped ==
  ASSUME TypeInv, NEW p \in Procs, LogTransition(p)
  PROVE  TypeInv'
<1>1. pc[p] \in TransitionSteps /\ Tracked(p) /\ key[p] \in Keys
  BY DEF LogTransition, TypeInv, KeysOK, DataOK, Tracked
<1>2. logged' \in [Keys -> SUBSET States]
  BY <1>1, TargetType, LogTyped DEF LogTransition
<1>3. Acknowledge(p, After(p), NoState) /\ UNCHANGED <<runs, key, env, known, broker>>
  BY DEF LogTransition, request
<1> QED
  BY <1>1, <1>2, <1>3, AckAfterTyped, RowsUnchanged DEF TypeInv, DataOK

LEMMA SkipTrackingTyped ==
  ASSUME TypeInv, NEW p \in Procs, SkipTracking(p)
  PROVE  TypeInv'
<1>1. /\ ~ Tracked(p) /\ pc[p] \in TransitionSteps \cup (StoreSteps \ {"insert"})
      /\ Goto(p, After(p), NoState)
      /\ UNCHANGED <<runs, logged, broker, key, env, known, faults>>
  BY DEF SkipTracking, db, request
<1>2. After(p) \in StepsOf(p)
  BY <1>1, AfterType DEF TypeInv
<1>3. DataOK' /\ RowsGrow
  BY <1>1, RowsUnchanged DEF TypeInv, DataOK
<1> QED
  BY <1>1, <1>2, <1>3, AfterStatement, GotoTyped

LEMMA ReadFailsTyped ==
  ASSUME TypeInv, NEW p \in Procs, ReadFails(p)
  PROVE  TypeInv'
<1>0. pc[p] # "idle"
  BY DEF ReadFails, TypeInv, KeysOK, ReadSteps
<1>1. /\ faults < MaxFaults /\ faults' = faults + 1
      /\ UNCHANGED <<runs, logged, broker, key, env, known>>
  BY DEF ReadFails, db, request
<1>2. DataOK' /\ RowsGrow
  BY <1>1, LimitsAssumption, RowsUnchanged DEF TypeInv, DataOK
<1>3. CASE Goto(p, OnThrow(p), NoState)
  BY <1>0, <1>1, <1>2, <1>3, ThrowTyped
<1>4. ASSUME NEW l \in todo[p], todo' = [todo EXCEPT ![p] = @ \ {l}], UNCHANGED <<pc, ph, cur, seen>>
      PROVE  TypeInv'
  <2>1. ControlOK'
    BY <1>4 DEF TypeInv, ControlOK, StepsOf
  <2> QED
    BY <1>1, <1>2, <1>4, <2>1 DEF TypeInv, ControlOK, KeysOK, RowsOK, Tracked, NoRun
<1> QED
  BY <1>3, <1>4 DEF ReadFails

LEMMA RecordErrorOnlyTyped ==
  ASSUME TypeInv, NEW p \in Procs, RecordErrorOnly(p)
  PROVE  TypeInv'
<1>1. pc[p] = "fallback" /\ Tracked(p) /\ pc[p] \in StoreSteps \ {"insert"}
  BY DEF RecordErrorOnly, StoreSteps
<1>2. key[p] \in Keys /\ runs[key[p]] \in Row /\ runs[key[p]].state \in States
  BY <1>1, TrackedRow, AfterStatement
<1> DEFINE row == [runs[key[p]] EXCEPT !.error = TRUE]
<1>3. row \in Row /\ row.state # NoState
  BY <1>2 DEF Row, States, EvaluationStates, TerminalStates, ExecutionStates, NoState
<1>4. runs' = [runs EXCEPT ![key[p]] = row]
  BY <1>2 DEF RecordErrorOnly, TypeInv, DataOK, Row
<1> HIDE DEF row
<1>5. runs' \in [Keys -> Row] /\ RowsGrow
  BY <1>2, <1>3, <1>4, RowWritten
<1>6. Acknowledge(p, After(p), NoState) /\ UNCHANGED <<logged, key, env, known, broker>>
  BY DEF RecordErrorOnly, request
<1> QED
  BY <1>1, <1>5, <1>6, AckAfterTyped DEF TypeInv, DataOK

\* A step of a handler that touches neither rows nor events, to another statement.
LEMMA LocalTyped ==
  ASSUME TypeInv, NEW p \in Procs, NEW s \in StepsOf(p), NEW c \in States \cup {NoState},
         Goto(p, s, c), UNCHANGED <<runs, logged, broker, key, env, known, faults>>,
         pc[p] # "idle",
         p \in Orders => s \notin {"idle", "insert"},
         s \in RowSteps /\ Tracked(p) => ~ NoRun(key[p]),
         s \notin Cursor,
         s \in CloseRowSteps => Tracked(p)
  PROVE  TypeInv'
<1>1. DataOK' /\ RowsGrow
  BY RowsUnchanged DEF TypeInv, DataOK
<1>2. ~ NoRun(key[p]) => ~ NoRun(key[p])'
  BY DEF NoRun
<1> QED
  BY <1>1, <1>2, GotoTyped

LEMMA ArriveTyped ==
  ASSUME TypeInv, NEW r \in Orders, Arrive(r)
  PROVE  TypeInv'
<1>1. PICK k \in Keys, e \in Envs :
        /\ key' = [key EXCEPT ![r] = k]
        /\ env' = [env EXCEPT ![r] = e]
        /\ known' = [known EXCEPT ![r] = \E o \in Orders : key[o] = k /\ Visible(o)]
        /\ Goto(r, IF e.db THEN "insert" ELSE "preview", NoState)
  BY DEF Arrive
<1>2. pc[r] = "idle" /\ UNCHANGED <<runs, logged, broker, faults>> /\ r \in Procs
  BY DEF Arrive, db, Procs
<1> DEFINE s == IF e.db THEN "insert" ELSE "preview"
<1>3. s \in StepsOf(r) /\ Goto(r, s, NoState) /\ r \notin Verifiers \cup Closers
  BY <1>1, StepsDisjoint, RequestsDistinct, <1>2 DEF OrderSteps
<1>4. ControlOK'
  BY <1>2, <1>3, GotoControl DEF TypeInv
<1>5. DataOK'
  <2>1. e \in Environment
    BY EnvsAssumption
  <2>2. (\E o \in Orders : key[o] = k /\ Visible(o)) \in BOOLEAN
    OBVIOUS
  <2> QED
    BY <1>1, <1>2, <2>1, <2>2 DEF TypeInv, DataOK
<1>6. /\ pc'[r] = s /\ ph'[r] = "read" /\ key'[r] = k /\ env'[r] = e
      /\ todo'[r] = IF s \in ReadSteps THEN Lists ELSE {}
      /\ \A q \in Procs \ {r} : /\ pc'[q] = pc[q] /\ ph'[q] = ph[q] /\ cur'[q] = cur[q]
                                /\ key'[q] = key[q] /\ env'[q] = env[q] /\ todo'[q] = todo[q]
  BY <1>1, <1>2, <1>3 DEF Goto, TypeInv, ControlOK, DataOK
<1> HIDE DEF s
<1>7. KeysOK'
  <2>1. s = IF e.db THEN "insert" ELSE "preview"
    BY DEF s
  <2>2. \A q \in Procs : todo'[q] # {} => pc'[q] \in ReadSteps
    BY <1>6 DEF TypeInv, KeysOK
  <2>3. /\ \A q \in Orders : broker'[q] # "none" => pc'[q] # "idle"
        /\ \A q \in Orders \cup Verifiers : pc'[q] # "idle" => key'[q] \in Keys
        /\ \A q \in Orders : pc'[q] = "insert" => env'[q].db
    BY <1>2, <1>6, <2>1 DEF TypeInv, KeysOK, Procs
  <2>4. /\ \A v \in Verifiers : pc'[v] # "idle" => env'[v].db
        /\ \A d \in Closers : pc'[d] \in CloseRowSteps => Tracked(d)'
        /\ \A q \in Procs : ph'[q] # "read" => pc'[q] \in TransitionSteps /\ Tracked(q)'
    BY <1>3, <1>6 DEF TypeInv, KeysOK, Procs, Tracked
  <2> QED
    BY <2>2, <2>3, <2>4 DEF KeysOK, CloseRowSteps, CloseLogSteps, TransitionSteps, TargetOf, ReadSteps
<1>8. RowsOK'
  <2>1. s \notin Cursor /\ (s \in RowSteps => ~ e.db)
    BY DEF s, Cursor, CloseLogSteps, RowSteps
  <2> QED
    BY <1>2, <1>6, <2>1 DEF TypeInv, RowsOK, Tracked, NoRun, Cursor, CloseLogSteps, RowSteps, AllSteps
<1> QED
  BY <1>4, <1>5, <1>7, <1>8 DEF TypeInv

LEMMA CreateTradeRunTyped ==
  ASSUME TypeInv, NEW r \in Orders, CreateTradeRun(r)
  PROVE  TypeInv'
<1>1. /\ r \in Procs /\ pc[r] = "insert" /\ key[r] \in Keys
      /\ UNCHANGED <<logged, broker, key, env, known>>
  BY DEF CreateTradeRun, Procs, request, TypeInv, KeysOK
<1>2. {"created", "done"} \subseteq StepsOf(r)
  BY <1>1, StepsDisjoint DEF OrderSteps
<1>3. CASE /\ runs' = [runs EXCEPT ![key[r]] = [NoRow EXCEPT !.state = "SIGNAL_CREATED",
                                                            !.dryRun = ~ env[r].live]]
           /\ Acknowledge(r, "created", NoState)
  <2> DEFINE row == [NoRow EXCEPT !.state = "SIGNAL_CREATED", !.dryRun = ~ env[r].live]
  <2>1. row \in Row /\ row.state # NoState
    BY <1>1 DEF NoRow, Row, States, EvaluationStates, NoState
  <2> HIDE DEF row
  <2>2. runs' \in [Keys -> Row] /\ RowsGrow /\ ~ NoRun(key[r])'
    <3>1. runs' = [runs EXCEPT ![key[r]] = row]
      BY <1>3 DEF row
    <3>2. runs' \in [Keys -> Row] /\ RowsGrow
      BY <1>1, <2>1, <3>1, RowWritten
    <3>3. runs'[key[r]] = row /\ key'[r] = key[r]
      BY <1>1, <3>1 DEF TypeInv, DataOK
    <3> QED
      BY <2>1, <3>2, <3>3 DEF NoRun
  <2> QED
    BY <1>1, <1>2, <1>3, <2>2, AcknowledgeTyped DEF Cursor, CloseLogSteps, CloseRowSteps, TypeInv, DataOK
<1>4. CASE Goto(r, "done", NoState) /\ UNCHANGED <<runs, faults>>
  BY <1>1, <1>2, <1>4, LocalTyped DEF Cursor, CloseLogSteps, CloseRowSteps, RowSteps
<1> QED
  BY <1>3, <1>4 DEF CreateTradeRun

LEMMA LogCreatedTyped ==
  ASSUME TypeInv, NEW r \in Orders, LogCreated(r)
  PROVE  TypeInv'
<1>1. /\ r \in Procs /\ Tracked(r) /\ pc[r] \in StoreSteps \ {"insert"} /\ key[r] \in Keys
      /\ Log(key[r], "SIGNAL_CREATED") /\ Acknowledge(r, After(r), NoState)
      /\ UNCHANGED <<runs, broker, key, env, known>>
  BY DEF LogCreated, Procs, StoreSteps, request, TypeInv, DataOK, Tracked
<1>2. logged' \in [Keys -> SUBSET States]
  BY <1>1, LogTyped DEF States, EvaluationStates
<1> QED
  BY <1>1, <1>2, AckAfterTyped, RowsUnchanged DEF TypeInv, DataOK

\* The statements that only decide where an order request goes on.
LEMMA DecideTyped ==
  ASSUME TypeInv, NEW r \in Orders,
         pc[r] \in RowSteps, NEW s \in OrderSteps, s \notin {"idle", "insert"},
         Goto(r, s, NoState), UNCHANGED <<runs, logged, broker, key, env, known, faults>>
  PROVE  TypeInv'
<1>1. r \in Procs /\ s \in StepsOf(r)
  BY StepsDisjoint DEF Procs
<1>2. Tracked(r) => ~ NoRun(key[r])
  BY <1>1 DEF TypeInv, RowsOK
<1>3. s \notin Cursor \cup CloseRowSteps /\ pc[r] # "idle"
  BY DEF OrderSteps, Cursor, CloseRowSteps, CloseLogSteps, RowSteps
<1> QED
  BY <1>1, <1>2, <1>3, LocalTyped

LEMMA OrderStepTyped ==
  ASSUME TypeInv, NEW r \in Orders, OrderStep(r)
  PROVE  TypeInv'
<1>0. r \in Procs
  BY DEF Procs
<1>1. CASE EvaluateRisk(r)
  <2>1. pc[r] \in RowSteps /\ UNCHANGED <<runs, logged, broker, key, env, known, faults>>
    BY <1>1 DEF EvaluateRisk, db, request, RowSteps, AllSteps, OrderSteps
  <2>2. Goto(r, "recordPass", NoState) \/ Goto(r, "recordFail", NoState)
    BY <1>1 DEF EvaluateRisk
  <2> QED
    BY <2>1, <2>2, DecideTyped DEF OrderSteps
<1>2. CASE DecideFirst(r)
  <2>1. pc[r] \in RowSteps /\ UNCHANGED <<runs, logged, broker, key, env, known, faults>>
    BY <1>2 DEF DecideFirst, db, request, RowSteps, AllSteps, OrderSteps
  <2>2. \E s \in {"blocked", "dryRun", "dup2"} : Goto(r, s, NoState)
    BY <1>2 DEF DecideFirst
  <2> QED
    BY <2>1, <2>2, DecideTyped DEF OrderSteps
<1>3. CASE DecideFinal(r)
  <2>1. pc[r] \in RowSteps /\ UNCHANGED <<runs, logged, broker, key, env, known, faults>>
    BY <1>3 DEF DecideFinal, db, request, RowSteps, AllSteps, OrderSteps
  <2>2. \E s \in {"blocked", "submit"} : Goto(r, s, NoState)
    BY <1>3 DEF DecideFinal
  <2> QED
    BY <2>1, <2>2, DecideTyped DEF OrderSteps
<1>4. CASE BrokerAnswers(r)
  <2>1. pc[r] \in RowSteps /\ UNCHANGED <<runs, logged, broker, key, env, known, faults>>
    BY <1>4 DEF BrokerAnswers, db, request, RowSteps, AllSteps, OrderSteps
  <2>2. \E s \in {"store", "unknown"} : Goto(r, s, NoState)
    BY <1>4 DEF BrokerAnswers
  <2> QED
    BY <2>1, <2>2, DecideTyped DEF OrderSteps
<1>5. CASE PostOrder(r)
  <2>1. /\ pc[r] = "post" /\ broker' = [broker EXCEPT ![r] = "wire"] /\ Goto(r, "await", NoState)
        /\ UNCHANGED <<runs, logged, key, env, known, faults>>
    BY <1>5 DEF PostOrder, db, request
  <2>2. "await" \in StepsOf(r) /\ pc[r] \in RowSteps
    BY <1>0, <2>1, StepsDisjoint DEF OrderSteps, RowSteps, AllSteps
  <2>3. DataOK' /\ RowsGrow
    BY <2>1, RowsUnchanged DEF TypeInv, DataOK, Stages
  <2>4. Tracked(r) => ~ NoRun(key[r])'
    BY <1>0, <2>1, <2>2 DEF TypeInv, RowsOK, NoRun
  <2> QED
    BY <1>0, <2>1, <2>2, <2>3, <2>4, GotoTyped DEF TypeInv, DataOK, Cursor, CloseRowSteps, CloseLogSteps
<1>6. CASE UpdateFromPreview(r)
  <2>1. /\ pc[r] \in StoreSteps \ {"insert"} /\ Tracked(r) /\ Acknowledge(r, After(r), NoState)
        /\ UNCHANGED <<logged, broker, key, env, known>>
    BY <1>6 DEF UpdateFromPreview, StoreSteps, request
  <2>2. key[r] \in Keys /\ runs[key[r]] \in Row /\ runs[key[r]].state \in States
    BY <1>0, <2>1, TrackedRow, AfterStatement
  <2> DEFINE row == [runs[key[r]] EXCEPT !.preview = TRUE]
  <2>3. row \in Row /\ row.state # NoState
    BY <2>2 DEF Row, States, EvaluationStates, TerminalStates, ExecutionStates, NoState
  <2>4. runs' = [runs EXCEPT ![key[r]] = row]
    BY <1>6, <2>2 DEF UpdateFromPreview, TypeInv, DataOK, Row
  <2> HIDE DEF row
  <2>5. runs' \in [Keys -> Row] /\ RowsGrow
    BY <2>2, <2>3, <2>4, RowWritten
  <2> QED
    BY <1>0, <2>1, <2>5, AckAfterTyped DEF TypeInv, DataOK
<1>7. CASE UpdateBrokerResponse(r)
  <2>1. /\ pc[r] \in StoreSteps \ {"insert"} /\ Tracked(r) /\ Acknowledge(r, After(r), NoState)
        /\ UNCHANGED <<logged, broker, key, env, known>>
    BY <1>7 DEF UpdateBrokerResponse, StoreSteps, request
  <2>2. key[r] \in Keys /\ runs[key[r]] \in Row /\ runs[key[r]].state \in States
    BY <1>0, <2>1, TrackedRow, AfterStatement
  <2> DEFINE row == [runs[key[r]] EXCEPT !.ids = @ \cup {"order"}]
  <2>3. row \in Row /\ row.state # NoState
    BY <2>2 DEF Row, States, EvaluationStates, TerminalStates, ExecutionStates, NoState
  <2>4. runs' = [runs EXCEPT ![key[r]] = row]
    BY <1>7, <2>2 DEF UpdateBrokerResponse, TypeInv, DataOK, Row
  <2> HIDE DEF row
  <2>5. runs' \in [Keys -> Row] /\ RowsGrow
    BY <2>2, <2>3, <2>4, RowWritten
  <2> QED
    BY <1>0, <2>1, <2>5, AckAfterTyped DEF TypeInv, DataOK
<1> QED
  BY <1>1, <1>2, <1>3, <1>4, <1>5, <1>6, <1>7, ArriveTyped, CreateTradeRunTyped, LogCreatedTyped
     DEF OrderStep

LEMMA VerifierStepTyped ==
  ASSUME TypeInv, NEW v \in Verifiers, VerifierStep(v)
  PROVE  TypeInv'
<1>0. v \in Procs /\ v \notin Orders /\ v \notin Closers /\ StepsOf(v) = VerifierSteps
  BY StepsDisjoint, RequestsDistinct DEF Procs
<1>1. CASE AskVerification(v)
  <2>1. PICK k \in Keys, e \in Envs : /\ e.db
                                      /\ key' = [key EXCEPT ![v] = k]
                                      /\ env' = [env EXCEPT ![v] = e]
    BY <1>1 DEF AskVerification
  <2>2. Goto(v, "vRead", NoState) /\ UNCHANGED <<runs, logged, broker, known, faults>>
    BY <1>1 DEF AskVerification, db
  <2>3. ControlOK'
    BY <1>0, <2>2, GotoControl DEF TypeInv, VerifierSteps
  <2>4. DataOK'
    BY <1>0, <2>1, <2>2, EnvsAssumption DEF TypeInv, DataOK
  <2>5. /\ pc'[v] = "vRead" /\ ph'[v] = "read" /\ key'[v] = k /\ env'[v] = e
        /\ \A q \in Procs \ {v} : /\ pc'[q] = pc[q] /\ ph'[q] = ph[q] /\ cur'[q] = cur[q]
                                  /\ key'[q] = key[q] /\ env'[q] = env[q] /\ todo'[q] = todo[q]
    BY <1>0, <2>1, <2>2 DEF Goto, TypeInv, ControlOK, DataOK
  <2>6. KeysOK'
    <3>1. /\ \A q \in Orders : broker'[q] # "none" => pc'[q] # "idle"
          /\ \A q \in Orders \cup Verifiers : pc'[q] # "idle" => key'[q] \in Keys
          /\ \A q \in Orders : pc'[q] = "insert" => env'[q].db
      BY <1>0, <2>2, <2>5 DEF TypeInv, KeysOK, Procs
    <3>2. /\ \A q \in Verifiers : pc'[q] # "idle" => env'[q].db
          /\ \A d \in Closers : pc'[d] \in CloseRowSteps => Tracked(d)'
          /\ \A q \in Procs : ph'[q] # "read" => pc'[q] \in TransitionSteps /\ Tracked(q)'
      BY <1>0, <2>1, <2>5 DEF TypeInv, KeysOK, Procs, Tracked
    <3>3. \A q \in Procs : todo'[q] # {} => pc'[q] \in ReadSteps
      BY <2>5 DEF TypeInv, KeysOK, ReadSteps
    <3> QED
      BY <3>1, <3>2, <3>3 DEF KeysOK, CloseRowSteps, CloseLogSteps, TransitionSteps, TargetOf, ReadSteps
  <2>7. RowsOK'
    BY <2>2, <2>5 DEF TypeInv, RowsOK, Tracked, NoRun, Cursor, CloseLogSteps, RowSteps, AllSteps
  <2> QED
    BY <2>3, <2>4, <2>6, <2>7 DEF TypeInv
<1>2. CASE MatchRows(v)
  <2>1. /\ pc[v] = "vRead" /\ Goto(v, IF NoRun(key[v]) THEN "idle" ELSE "vStore", NoState)
        /\ UNCHANGED <<runs, logged, broker, key, env, known, faults>>
    BY <1>2 DEF MatchRows, db, request
  <2> DEFINE s == IF NoRun(key[v]) THEN "idle" ELSE "vStore"
  <2>2. s \in StepsOf(v) /\ s \notin Cursor \cup CloseRowSteps /\ (s \in RowSteps => ~ NoRun(key[v]))
    BY <1>0 DEF VerifierSteps, VerifySteps, Cursor, CloseRowSteps, CloseLogSteps, RowSteps
  <2> HIDE DEF s
  <2>3. Goto(v, s, NoState)
    BY <2>1 DEF s
  <2> QED
    BY <1>0, <2>1, <2>2, <2>3, LocalTyped
<1>3. CASE StoreVerification(v)
  <2>1. /\ pc[v] = "vStore" /\ Acknowledge(v, "vLog", runs[key[v]].state)
        /\ UNCHANGED <<logged, broker, key, env, known>>
    BY <1>3 DEF StoreVerification, request
  <2>2. Tracked(v) /\ pc[v] \in RowSteps
    BY <1>0, <2>1, NoKeyAssumption DEF TypeInv, KeysOK, Tracked, RowSteps, AllSteps, VerifierSteps,
       VerifySteps
  <2>3. key[v] \in Keys /\ runs[key[v]] \in Row /\ runs[key[v]].state \in States
    BY <1>0, <2>2, TrackedRow
  <2> DEFINE Found(l) == \E r \in seen[v][l] : key[r] = key[v]
             more == {i \in {"order"} : Found("orders") \/ Found("history")}
                       \cup {i \in {"position"} : Found("positions") \/ Found("history")}
             row == [runs[key[v]] EXCEPT !.ids = @ \cup more]
  <2>4. more \in SUBSET {"order", "position"}
    OBVIOUS
  <2>5. runs' = [runs EXCEPT ![key[v]].ids = @ \cup more]
    BY <1>3 DEF StoreVerification
  <2> HIDE DEF more
  <2>6. row \in Row /\ row.state # NoState
    BY <2>3, <2>4 DEF Row, States, EvaluationStates, TerminalStates, ExecutionStates, NoState
  <2>7. runs' = [runs EXCEPT ![key[v]] = row]
    BY <2>3, <2>5 DEF TypeInv, DataOK, Row
  <2> HIDE DEF row
  <2>8. runs' \in [Keys -> Row] /\ RowsGrow /\ ~ NoRun(key[v])'
    BY <2>1, <2>3, <2>6, <2>7, RowWritten DEF NoRun
  <2> QED
    BY <1>0, <2>1, <2>2, <2>3, <2>8, AcknowledgeTyped DEF VerifierSteps, VerifySteps, CloseRowSteps,
       CloseLogSteps, TypeInv, DataOK
<1>4. CASE LogVerification(v)
  <2>1. /\ pc[v] = "vLog" /\ Log(key[v], cur[v]) /\ Acknowledge(v, After(v), NoState)
        /\ UNCHANGED <<runs, broker, key, env, known>>
    BY <1>4 DEF LogVerification, request
  <2>2. Tracked(v) /\ key[v] \in Keys /\ cur[v] \in States
    BY <1>0, <2>1, NoKeyAssumption DEF TypeInv, KeysOK, RowsOK, Tracked, Cursor
  <2>3. logged' \in [Keys -> SUBSET States]
    BY <2>1, <2>2, LogTyped
  <2> QED
    BY <1>0, <2>1, <2>2, <2>3, AckAfterTyped, RowsUnchanged DEF TypeInv, DataOK
<1> QED
  BY <1>1, <1>2, <1>3, <1>4 DEF VerifierStep

\* Where a close request starts: untracked, or on the row whose position id was stored.
LEMMA AskCloseTyped ==
  ASSUME TypeInv, NEW c \in Closers, NEW o \in Orders, NEW e \in Envs, NEW k,
         NEW s \in {"cDry", "idle", "cRequest", "cPartial", "cDelete"},
         NEW st \in States \cup {NoState},
         broker[o] \in {"open", "final"},
         env' = [env EXCEPT ![c] = e],
         key' = [key EXCEPT ![c] = k],
         Goto(c, s, st),
         UNCHANGED <<runs, logged, broker, known>>,
         faults' \in 0..MaxFaults,
         \/ k = NoKey /\ s \in {"idle", "cDelete"}
         \/ /\ k = key[o] /\ e.db /\ "position" \in runs[k].ids
            /\ s \in {"cDry", "cRequest", "cPartial"} /\ st = runs[k].state
  PROVE  TypeInv'
<1>0. c \in Procs /\ c \notin Orders /\ c \notin Verifiers /\ StepsOf(c) = CloserSteps
  BY StepsDisjoint, RequestsDistinct DEF Procs
<1>2. e \in Environment /\ key[o] \in Keys /\ s \in StepsOf(c)
  BY <1>0, EnvsAssumption DEF TypeInv, KeysOK, CloserSteps, CloseLogSteps
<1>3. ControlOK'
  BY <1>0, <1>2, GotoControl DEF TypeInv
<1>4. DataOK'
  BY <1>0, <1>2 DEF TypeInv, DataOK
<1>5. /\ pc'[c] = s /\ ph'[c] = "read" /\ cur'[c] = st /\ key'[c] = k /\ env'[c] = e
      /\ todo'[c] = {}
      /\ \A q \in Procs \ {c} : /\ pc'[q] = pc[q] /\ ph'[q] = ph[q] /\ cur'[q] = cur[q]
                                /\ key'[q] = key[q] /\ env'[q] = env[q] /\ todo'[q] = todo[q]
  BY <1>0, <1>2 DEF Goto, ReadSteps, TypeInv, ControlOK, DataOK
<1>6. \/ k = NoKey /\ s \notin CloseRowSteps \cup Cursor
      \/ Tracked(c)' /\ k \in Keys /\ ~ NoRun(k) /\ st \in States
  BY <1>2, <1>5, NoKeyAssumption DEF TypeInv, RowsOK, DataOK, Row, NoRun, Tracked, CloseRowSteps,
     CloseLogSteps, Cursor
<1>7. KeysOK'
  <2>1. /\ \A q \in Orders : broker'[q] # "none" => pc'[q] # "idle"
        /\ \A q \in Orders \cup Verifiers : pc'[q] # "idle" => key'[q] \in Keys
        /\ \A q \in Orders : pc'[q] = "insert" => env'[q].db
        /\ \A q \in Verifiers : pc'[q] # "idle" => env'[q].db
    BY <1>0, <1>5 DEF TypeInv, KeysOK, Procs
  <2>2. /\ \A d \in Closers : pc'[d] \in CloseRowSteps => Tracked(d)'
        /\ \A q \in Procs : ph'[q] # "read" => pc'[q] \in TransitionSteps /\ Tracked(q)'
        /\ \A q \in Procs : todo'[q] # {} => pc'[q] \in ReadSteps
    BY <1>0, <1>5, <1>6 DEF TypeInv, KeysOK, Procs, Tracked
  <2> QED
    BY <2>1, <2>2 DEF KeysOK, CloseRowSteps, CloseLogSteps, TransitionSteps, TargetOf, ReadSteps
<1>8. RowsOK'
  <2>1. \A k2 \in Keys : runs'[k2].ids # {} => ~ NoRun(k2)'
    BY DEF TypeInv, RowsOK, NoRun
  <2>2. \A q \in Procs : Tracked(q)' /\ pc'[q] \in RowSteps => ~ NoRun(key[q])'
    BY <1>5, <1>6 DEF TypeInv, RowsOK, Tracked, NoRun
  <2>3. \A q \in Procs : pc'[q] \in Cursor => cur'[q] \in States
    BY <1>5, <1>6 DEF TypeInv, RowsOK
  <2> QED
    BY <2>1, <2>2, <2>3 DEF RowsOK, NoRun, Cursor, RowSteps, AllSteps, States
<1> QED
  BY <1>3, <1>4, <1>7, <1>8 DEF TypeInv

LEMMA CloserStepTyped ==
  ASSUME TypeInv, NEW c \in Closers, CloserStep(c)
  PROVE  TypeInv'
<1>0. c \in Procs /\ c \notin Orders /\ c \notin Verifiers /\ StepsOf(c) = CloserSteps
  BY StepsDisjoint, RequestsDistinct DEF Procs
<1>1. CASE AskClose(c)
  <2>1. PICK o \in Orders, e \in Envs :
          /\ broker[o] \in {"open", "final"}
          /\ env' = [env EXCEPT ![c] = e]
          /\ LET tracked == e.db /\ "position" \in runs[key[o]].ids
                 first(t) == IF ~ e.live THEN IF t THEN {"cDry"} ELSE {"idle"}
                             ELSE IF t THEN {"cRequest", "cPartial"} ELSE {"cDelete"}
             IN  \/ /\ key' = [key EXCEPT ![c] = IF tracked THEN key[o] ELSE NoKey]
                    /\ \E s \in first(tracked) : Goto(c, s, runs[key[o]].state)
                    /\ UNCHANGED faults
                 \/ /\ e.db /\ faults < MaxFaults
                    /\ faults' = faults + 1
                    /\ key' = [key EXCEPT ![c] = NoKey]
                    /\ \E s \in first(FALSE) : Goto(c, s, NoState)
    BY <1>1 DEF AskClose
  <2>2. runs[key[o]].state \in States \cup {NoState}
    BY <2>1 DEF TypeInv, DataOK, KeysOK, Row
  <2>3. UNCHANGED <<runs, logged, broker, known>> /\ faults' \in 0..MaxFaults
    BY <1>1, <2>1, LimitsAssumption DEF AskClose, db, TypeInv, DataOK
  <2> DEFINE tracked == e.db /\ "position" \in runs[key[o]].ids
  <2> DEFINE Starts == {"cDry", "idle", "cRequest", "cPartial", "cDelete"}
  <2>4. ASSUME tracked, key' = [key EXCEPT ![c] = key[o]],
               NEW s \in {"cDry", "cRequest", "cPartial"}, Goto(c, s, runs[key[o]].state)
        PROVE  TypeInv'
    <3>1. s \in Starts /\ e.db /\ "position" \in runs[key[o]].ids
      BY <2>4
    <3> HIDE DEF tracked, Starts
    <3> DEFINE k == key[o]
               st == runs[k].state
    <3>2. /\ env' = [env EXCEPT ![c] = e] /\ broker[o] \in {"open", "final"}
          /\ key' = [key EXCEPT ![c] = k] /\ Goto(c, s, st)
          /\ k = key[o] /\ e.db /\ "position" \in runs[k].ids /\ st = runs[k].state
          /\ st \in States \cup {NoState}
      BY <2>1, <2>2, <2>4, <3>1
    <3> HIDE DEF k, st
    <3> QED
      BY <2>3, <3>1, <3>2, AskCloseTyped DEF Starts
  <2>5. ASSUME key' = [key EXCEPT ![c] = NoKey], NEW s \in {"idle", "cDelete"},
               NEW st \in States \cup {NoState}, Goto(c, s, st)
        PROVE  TypeInv'
    <3>1. s \in Starts
      BY <2>5
    <3>2. env' = [env EXCEPT ![c] = e] /\ broker[o] \in {"open", "final"}
      BY <2>1
    <3> HIDE DEF tracked, Starts
    <3> QED
      BY <2>3, <2>5, <3>1, <3>2, AskCloseTyped DEF Starts
  <2>6. CASE tracked
    BY <2>1, <2>2, <2>4, <2>5, <2>6
  <2>7. CASE ~ tracked
    BY <2>1, <2>2, <2>5, <2>7
  <2> QED
    BY <2>6, <2>7
<1>2. CASE LogClose(c)
  <2>1. /\ pc[c] \in CloseLogSteps /\ Log(key[c], cur[c]) /\ Acknowledge(c, After(c), NoState)
        /\ UNCHANGED <<runs, broker, key, env, known>>
    BY <1>2 DEF LogClose, request
  <2>2. Tracked(c) /\ key[c] \in Keys /\ cur[c] \in States
    BY <1>0, <2>1 DEF TypeInv, DataOK, KeysOK, RowsOK, Tracked, Cursor, CloseRowSteps
  <2>3. logged' \in [Keys -> SUBSET States]
    BY <2>1, <2>2, LogTyped
  <2> QED
    BY <1>0, <2>1, <2>2, <2>3, AckAfterTyped, RowsUnchanged DEF TypeInv, DataOK
<1>3. CASE DeletePosition(c)
  <2>1. /\ pc[c] = "cDelete" /\ Goto(c, "cAwait", NoState)
        /\ UNCHANGED <<runs, logged, broker, key, env, known, faults>>
    BY <1>3 DEF DeletePosition, db, request
  <2>2. "cAwait" \in StepsOf(c) /\ pc[c] \in RowSteps
    BY <1>0, <2>1 DEF CloserSteps, RowSteps, AllSteps
  <2> QED
    BY <1>0, <2>1, <2>2, LocalTyped DEF TypeInv, RowsOK, Cursor, CloseRowSteps, CloseLogSteps
<1>4. CASE DeleteAnswers(c)
  <2>1. PICK s \in IF Tracked(c) THEN {"cStore", "unknown"} ELSE {"idle"} : Goto(c, s, NoState)
    BY <1>4 DEF DeleteAnswers
  <2>2. /\ pc[c] = "cAwait" /\ UNCHANGED <<runs, logged, broker, key, env, known, faults>>
    BY <1>4 DEF DeleteAnswers, db, request
  <2>3. s \in StepsOf(c) /\ pc[c] \in RowSteps
    BY <1>0, <2>1, <2>2 DEF CloserSteps, RowSteps, AllSteps
  <2>4. s \notin Cursor /\ (s \in CloseRowSteps => Tracked(c))
    BY <2>1 DEF Cursor, CloseRowSteps, CloseLogSteps
  <2> QED
    BY <1>0, <2>1, <2>2, <2>3, <2>4, LocalTyped DEF TypeInv, RowsOK
<1>5. CASE StoreClose(c)
  <2>1. /\ pc[c] = "cStore" /\ Acknowledge(c, "cLog", runs[key[c]].state)
        /\ UNCHANGED <<logged, broker, key, env, known>>
    BY <1>5 DEF StoreClose, request
  <2>2. Tracked(c) /\ pc[c] \in RowSteps
    BY <1>0, <2>1 DEF TypeInv, KeysOK, CloseRowSteps, RowSteps, AllSteps, CloserSteps
  <2>3. key[c] \in Keys /\ runs[key[c]] \in Row /\ runs[key[c]].state \in States
    BY <1>0, <2>2, TrackedRow
  <2> DEFINE row == [runs[key[c]] EXCEPT !.ids = @ \cup {"position"}]
  <2>4. row \in Row /\ row.state # NoState
    BY <2>3 DEF Row, States, EvaluationStates, TerminalStates, ExecutionStates, NoState
  <2>5. runs' = [runs EXCEPT ![key[c]] = row]
    BY <1>5, <2>3 DEF StoreClose, TypeInv, DataOK, Row
  <2> HIDE DEF row
  <2>6. runs' \in [Keys -> Row] /\ RowsGrow /\ ~ NoRun(key[c])'
    BY <2>1, <2>3, <2>4, <2>5, RowWritten DEF NoRun
  <2> QED
    BY <1>0, <2>1, <2>2, <2>3, <2>6, AcknowledgeTyped DEF CloserSteps, CloseLogSteps, TypeInv, DataOK
<1> QED
  BY <1>1, <1>2, <1>3, <1>4, <1>5 DEF CloserStep

LEMMA FaultTyped ==
  ASSUME TypeInv, NEW p \in Procs, QueryFails(p) \/ Crash(p)
  PROVE  TypeInv'
<1>1. /\ faults < MaxFaults /\ faults' = faults + 1 /\ pc[p] # "idle"
      /\ UNCHANGED <<runs, logged, broker, key, env, known>>
  BY DEF QueryFails, Crash, InDb, db, request, TransitionSteps, TargetOf, StoreSteps, CloseLogSteps
<1>2. DataOK' /\ RowsGrow
  BY <1>1, LimitsAssumption, RowsUnchanged DEF TypeInv, DataOK
<1>3. CASE QueryFails(p)
  BY <1>1, <1>2, <1>3, ThrowTyped DEF QueryFails
<1>4. CASE Crash(p)
  <2>1. PICK s \in {"crashed", "idle"} : Goto(p, s, NoState) /\ (p \in Orders <=> s = "crashed")
    BY <1>4 DEF Crash
  <2>2. s \in StepsOf(p) /\ s \notin Cursor \cup CloseRowSteps \cup RowSteps
    BY <2>1, StepsDisjoint DEF Procs, OrderSteps, VerifierSteps, CloserSteps, Cursor, CloseLogSteps,
       CloseRowSteps, RowSteps
  <2> QED
    BY <1>1, <1>2, <2>1, <2>2, GotoTyped
<1> QED
  BY <1>3, <1>4

LEMMA BrokerMovesTyped ==
  ASSUME TypeInv, BrokerMoves
  PROVE  TypeInv'
<1>1. PICK r \in Orders, s \in Stages : broker[r] # "none" /\ broker' = [broker EXCEPT ![r] = s]
  BY DEF BrokerMoves, Stages
<1>2. UNCHANGED <<runs, logged, pc, ph, cur, todo, seen, key, env, known, faults>>
  BY DEF BrokerMoves, db, control, request
<1>3. ControlOK' /\ RowsOK'
  BY <1>2 DEF TypeInv, ControlOK, RowsOK, StepsOf, NoRun, Tracked
<1>4. DataOK' /\ KeysOK'
  BY <1>1, <1>2 DEF TypeInv, DataOK, KeysOK, Tracked
<1> QED
  BY <1>3, <1>4 DEF TypeInv

LEMMA TypeStep == TypeInv /\ [Next]_vars => TypeInv'
<1>1. SUFFICES ASSUME TypeInv, [Next]_vars
               PROVE  TypeInv'
  OBVIOUS
<1>2. CASE UNCHANGED vars
  BY <1>1, <1>2 DEF vars, db, control, request, TypeInv, ControlOK, DataOK, KeysOK, RowsOK, StepsOf,
     NoRun, Tracked
<1>3. ASSUME NEW p \in Procs,
             Transition(p) \/ SkipTracking(p) \/ ReadList(p) \/ RecordErrorOnly(p)
      PROVE  TypeInv'
  BY <1>1, <1>3, ReadStateTyped, CasStateTyped, LogTransitionTyped, SkipTrackingTyped,
     ReadListTyped, RecordErrorOnlyTyped DEF Transition
<1>4. ASSUME NEW p \in Procs, ReadFails(p) \/ QueryFails(p) \/ Crash(p)
      PROVE  TypeInv'
  BY <1>1, <1>4, ReadFailsTyped, FaultTyped
<1> QED
  BY <1>1, <1>2, <1>3, <1>4, OrderStepTyped, VerifierStepTyped, CloserStepTyped, BrokerMovesTyped
     DEF Next, NextOf

\* TypeInv holds in every state the gateway can reach.
THEOREM TypeInvariant == Spec => []TypeInv
  BY TypeInit, TypeStep, PTL DEF Spec

\* Every variable keeps its shape and every request stays in its own handler, for any
\* number of requests, keys, environments and faults.
THEOREM TypeCorrect == Spec => []TypeOK
<1>1. TypeInv => TypeOK
  BY TypeSplit DEF TypeInv
<1> QED
  BY <1>1, TypeInvariant, PTL

-----------------------------------------------------------------------------
(***************************************************************************)
(* What the database buys: the safety properties of TradeGateway, for any  *)
(* number of requests, keys, environments and faults.                      *)
(***************************************************************************)

(* The statements of an order request: before the order leaves, from its sending  *)
(* to the end of the handler, and those only a request executes that was stored   *)
(* the preview, or found the instance live.                                       *)
Unsent == {"idle", "insert", "created", "validate", "preview", "recordPass", "recordFail",
           "refuse", "approve", "dup1", "blocked", "dryRun", "dup2", "submit", "post"}
Sending == {"post", "await", "store", "accept", "unknown", "fallback"}
Vetted == {"approve", "dup1", "blocked", "dryRun", "dup2", "submit"} \cup Sending
Cleared == {"dup2", "submit"} \cup Sending
OwnSteps == OrderSteps \ {"idle", "insert", "done", "failed", "unsure", "crashed"}

Sent(r) == broker[r] # "none"

(* A request owns the row it inserted while its handler runs, and for ever once its *)
(* order was sent.                                                                  *)
Owner(r) == env[r].db /\ (pc[r] \in OwnSteps \/ Sent(r))
Intended(r) == (pc[r] = "submit" /\ ph[r] = "log") \/ pc[r] \in Sending
Committed(r) == Intended(r) \/ Sent(r)

RowOK(r) == Owner(r) =>
  /\ runs[key[r]].state # NoState
  /\ runs[key[r]].dryRun <=> ~ env[r].live
  /\ pc[r] \in Vetted \/ Sent(r) => runs[key[r]].preview
  /\ Committed(r) => runs[key[r]].state \in ExecutionStates

ClearOK(r) ==
  /\ pc[r] \in Unsent => ~ Sent(r)
  /\ pc[r] \in Cleared \/ Sent(r) => env[r].live /\ env[r].kill = "off"
  /\ pc[r] # "idle" => env[r] \in Envs

OneOwner == \A r, s \in Orders : Owner(r) /\ Owner(s) /\ key[r] = key[s] => r = s

SafeInv == TypeInv /\ OneOwner /\ \A r \in Orders : RowOK(r) /\ ClearOK(r)

(***************************************************************************)
(* A step of p keeps SafeInv if it keeps what the owners rely on of their  *)
(* rows, and leads p to no statement p may not execute.                    *)
(***************************************************************************)
Kept(r) ==
  /\ runs'[key[r]].state # NoState
  /\ runs'[key[r]].dryRun = runs[key[r]].dryRun
  /\ runs[key[r]].preview => runs'[key[r]].preview
  /\ Committed(r) /\ runs[key[r]].state \in ExecutionStates
       => runs'[key[r]].state \in ExecutionStates

Forward(p) ==
  /\ pc'[p] \in OwnSteps => pc[p] \in OwnSteps
  /\ pc'[p] # "idle" => pc[p] # "idle"
  /\ pc'[p] \in Vetted => pc[p] \in Vetted \/ (env[p].db => runs'[key[p]].preview)
  /\ Intended(p)' => Intended(p) \/ (env[p].db => runs'[key[p]].state \in ExecutionStates)
  /\ pc'[p] \in Unsent => pc[p] \in Unsent
  /\ pc'[p] \in Cleared => pc[p] \in Cleared \/ (env[p].live /\ env[p].kill = "off")

LEMMA StepSets ==
  /\ Sending \subseteq OwnSteps /\ Vetted \subseteq OwnSteps /\ Cleared \subseteq OwnSteps
  /\ "submit" \in OwnSteps \cap Vetted \cap Cleared
  /\ "post" \in Sending \cap Vetted \cap Cleared
  /\ "await" \notin Unsent
  BY DEF Sending, Vetted, Cleared, OwnSteps, OrderSteps, Unsent

LEMMA MoveSafe ==
  ASSUME SafeInv, TypeInv', NEW p \in Procs,
         \A r \in Orders : key'[r] = key[r] /\ env'[r] = env[r],
         \A r \in Orders : Sent(r)' => Sent(r) \/ (r = p /\ pc[p] = "post" /\ pc'[p] = "await"),
         \A r \in Orders \ {p} : pc'[r] = pc[r] /\ ph'[r] = ph[r],
         \A r \in Orders : Owner(r) => Kept(r),
         p \in Orders => Forward(p)
  PROVE  SafeInv'
<1>1. ASSUME NEW r \in Orders, Owner(r)' PROVE Owner(r)
  BY <1>1, StepSets DEF Owner, Forward
<1>2. OneOwner'
  BY <1>1 DEF SafeInv, OneOwner
<1>3. ASSUME NEW r \in Orders PROVE RowOK(r)'
  <2> SUFFICES ASSUME Owner(r)'
               PROVE  /\ runs'[key[r]].state # NoState
                      /\ runs'[key[r]].dryRun <=> ~ env[r].live
                      /\ pc'[r] \in Vetted \/ Sent(r)' => runs'[key[r]].preview
                      /\ Committed(r)' => runs'[key[r]].state \in ExecutionStates
    BY DEF RowOK
  <2>1. Owner(r) /\ Kept(r) /\ env[r].db /\ RowOK(r)
    BY <1>1 DEF SafeInv, Owner
  <2>2. pc'[r] \in Vetted \/ Sent(r)' => runs'[key[r]].preview
    BY <2>1, StepSets DEF Forward, RowOK, Kept
  <2>3. Committed(r)' => runs'[key[r]].state \in ExecutionStates
    <3>1. CASE r = p
      BY <2>1, <3>1, StepSets DEF Forward, RowOK, Kept, Committed, Intended
    <3>2. CASE r # p
      BY <2>1, <3>2 DEF RowOK, Kept, Committed, Intended
    <3> QED
      BY <3>1, <3>2
  <2> QED
    BY <2>1, <2>2, <2>3 DEF RowOK, Kept
<1>4. ASSUME NEW r \in Orders PROVE ClearOK(r)'
  <2>1. ClearOK(r)
    BY DEF SafeInv
  <2>2. CASE r = p
    BY <2>1, <2>2, StepSets DEF ClearOK, Forward
  <2>3. CASE r # p
    BY <2>1, <2>3 DEF ClearOK
  <2> QED
    BY <2>2, <2>3
<1> QED
  BY <1>2, <1>3, <1>4 DEF SafeInv

(* What of a step the rows do not feel.                                     *)
LEMMA OwnerKey ==
  ASSUME SafeInv, NEW r \in Orders, Owner(r)
  PROVE  r \in Procs /\ key[r] \in Keys /\ runs[key[r]] \in Row /\ runs[key[r]].state # NoState
<1>1. pc[r] # "idle"
  BY DEF Owner, OwnSteps, Sent, SafeInv, TypeInv, KeysOK
<1>2. key[r] \in Keys /\ r \in Procs
  BY <1>1 DEF SafeInv, TypeInv, KeysOK, Procs
<1> QED
  BY <1>2 DEF SafeInv, RowOK, TypeInv, DataOK

LEMMA FieldsKept ==
  ASSUME SafeInv,
         \A k \in Keys : /\ runs'[k].state = runs[k].state
                         /\ runs'[k].dryRun = runs[k].dryRun
                         /\ runs[k].preview => runs'[k].preview
  PROVE  \A r \in Orders : Owner(r) => Kept(r)
  BY OwnerKey DEF Kept

LEMMA RowsSame == ASSUME SafeInv, UNCHANGED runs PROVE \A r \in Orders : Owner(r) => Kept(r)
  BY FieldsKept

LEMMA GotoMoves ==
  ASSUME SafeInv, NEW p \in Procs, NEW s, NEW c, Goto(p, s, c)
  PROVE  /\ pc'[p] = s /\ ph'[p] = "read"
         /\ \A q \in Procs \ {p} : pc'[q] = pc[q] /\ ph'[q] = ph[q]
         /\ \A r \in Orders \ {p} : pc'[r] = pc[r] /\ ph'[r] = ph[r]
  BY DEF Goto, SafeInv, TypeInv, ControlOK, Procs

(* The statements of an order request, one after the other.                 *)
LEMMA OrderAt ==
  ASSUME SafeInv, NEW r \in Orders
  PROVE  /\ r \in Procs /\ pc[r] \in OrderSteps
         /\ pc[r] # "idle" => key[r] \in Keys /\ (Tracked(r) <=> env[r].db)
  BY StepsDisjoint, NoKeyAssumption DEF SafeInv, TypeInv, ControlOK, KeysOK, Tracked, Procs

LEMMA ThrowForward ==
  ASSUME SafeInv, NEW p \in Orders, pc[p] # "idle", Goto(p, OnThrow(p), NoState)
  PROVE  Forward(p)
<1>1. pc[p] \in OrderSteps /\ p \in Procs
  BY OrderAt
<1>2. \/ pc[p] = "unknown" /\ OnThrow(p) = "fallback"
      \/ OnThrow(p) \in {"unsure", "done", "failed"}
  BY <1>1 DEF OnThrow, Marked, OrderSteps
<1>3. pc'[p] = OnThrow(p)
  BY <1>1, GotoMoves
<1> QED
  BY <1>2, <1>3 DEF Forward, Intended, OwnSteps, Vetted, Sending, Unsent, Cleared, OrderSteps

LEMMA AfterForward ==
  ASSUME SafeInv, NEW p \in Orders, pc[p] \in TransitionSteps \cup (StoreSteps \ {"insert"}),
         Goto(p, After(p), NoState),
         pc[p] = "recordPass" /\ env[p].db => runs'[key[p]].preview,
         pc[p] = "submit" /\ env[p].db => ph[p] = "log"
  PROVE  Forward(p)
<1>1. pc[p] \in OrderSteps /\ p \in Procs
  BY OrderAt
<1>2. pc'[p] = After(p) /\ ph'[p] = "read"
  BY <1>1, GotoMoves
<1>3. pc[p] = "submit" => Intended(p) \/ ~ env[p].db
  BY DEF Intended
<1>4. \/ After(p) \in {"done", "unsure"}
      \/ <<pc[p], After(p)>> \in
           {<<"created", "validate">>, <<"validate", "preview">>, <<"recordFail", "refuse">>,
            <<"approve", "dup1">>, <<"store", "accept">>, <<"submit", "post">>,
            <<"recordPass", "approve">>}
  BY <1>1 DEF After, Marked, OrderSteps, TransitionSteps, TargetOf, StoreSteps, VerifySteps
<1>5. /\ pc'[p] \in OwnSteps => pc[p] \in OwnSteps
      /\ pc'[p] # "idle" => pc[p] # "idle"
      /\ pc'[p] \in Unsent => pc[p] \in Unsent
      /\ pc'[p] \in Cleared => pc[p] \in Cleared
      /\ pc'[p] \in Vetted => pc[p] \in Vetted \cup {"recordPass"}
      /\ pc'[p] \in Sending => pc[p] \in Sending \cup {"submit"}
  BY <1>1, <1>2, <1>4 DEF OwnSteps, Vetted, Sending, Unsent, Cleared, OrderSteps, TransitionSteps,
     TargetOf, StoreSteps
<1>6. Intended(p)' => Intended(p) \/ ~ env[p].db
  BY <1>2, <1>3, <1>5 DEF Intended
<1> QED
  BY <1>5, <1>6 DEF Forward

(***************************************************************************)
(* Steps with a Goto, by their kind.                                       *)
(***************************************************************************)
LEMMA GotoSafe ==
  ASSUME SafeInv, TypeInv', NEW p \in Procs, NEW s, NEW c, Goto(p, s, c),
         \A r \in Orders : key'[r] = key[r] /\ env'[r] = env[r] /\ broker'[r] = broker[r],
         \A r \in Orders : Owner(r) => Kept(r),
         p \in Orders => Forward(p)
  PROVE  SafeInv'
<1>1. \A r \in Orders : Sent(r)' => Sent(r)
  BY DEF Sent
<1> QED
  BY <1>1, GotoMoves, MoveSafe

LEMMA AckSafe ==
  ASSUME SafeInv, TypeInv', NEW p \in Procs, pc[p] # "idle",
         pc[p] \in TransitionSteps \cup (StoreSteps \ {"insert"}) \/ p \notin Orders,
         Acknowledge(p, After(p), NoState), UNCHANGED <<key, env, broker>>,
         \A r \in Orders : Owner(r) => Kept(r),
         p \in Orders /\ pc[p] = "recordPass" => runs'[key[p]].preview,
         p \in Orders /\ pc[p] = "submit" => ph[p] = "log"
  PROVE  SafeInv'
<1>1. CASE Goto(p, After(p), NoState)
  <2>1. p \in Orders => Forward(p)
    BY <1>1, AfterForward
  <2> QED
    BY <1>1, <2>1, GotoSafe
<1>2. CASE Goto(p, OnThrow(p), NoState)
  <2>1. p \in Orders => Forward(p)
    BY <1>2, ThrowForward
  <2> QED
    BY <1>2, <2>1, GotoSafe
<1> QED
  BY <1>1, <1>2 DEF Acknowledge

(* A request that goes on with another of its statements, without a write.   *)
LEMMA DecideSafe ==
  ASSUME SafeInv, TypeInv', NEW r \in Orders, NEW s, Goto(r, s, NoState),
         UNCHANGED <<runs, broker, key, env>>,
         \/ s \in {"done", "failed", "unsure", "crashed"} /\ pc[r] # "idle"
         \/ pc[r] = "preview" /\ s \in {"recordPass", "recordFail"}
         \/ pc[r] = "dup1" /\ s \in {"blocked", "dryRun"}
         \/ pc[r] = "dup1" /\ s = "dup2" /\ env[r].live /\ env[r].kill = "off"
         \/ pc[r] = "dup2" /\ s \in {"blocked", "submit"}
         \/ pc[r] = "await" /\ s \in {"store", "unknown"}
  PROVE  SafeInv'
<1>1. r \in Procs
  BY OrderAt
<1>2. pc'[r] = s /\ ph'[r] = "read"
  BY <1>1, GotoMoves
<1>3. Forward(r)
  BY <1>2 DEF Forward, Intended, OwnSteps, Vetted, Sending, Unsent, Cleared, OrderSteps
<1> QED
  BY <1>1, <1>3, RowsSame, GotoSafe

(***************************************************************************)
(* One lemma per group of actions.                                         *)
(***************************************************************************)
LEMMA InitSafe == Init => SafeInv
<1> SUFFICES ASSUME Init PROVE SafeInv
  OBVIOUS
<1>1. \A r \in Orders : pc[r] = "idle" /\ ~ Sent(r)
  BY DEF Init, Sent, Procs
<1>2. \A r \in Orders : ~ Owner(r)
  BY <1>1 DEF Owner, OwnSteps
<1>3. \A r \in Orders : RowOK(r) /\ ClearOK(r)
  BY <1>1, <1>2 DEF RowOK, ClearOK, Cleared, Sending
<1> QED
  BY <1>2, <1>3, TypeInit DEF SafeInv, OneOwner

LEMMA ReadStateSafe == ASSUME SafeInv, TypeInv', NEW p \in Procs, ReadState(p) PROVE SafeInv'
<1>1. /\ UNCHANGED <<runs, broker, key, env>>
      /\ pc[p] \in TransitionSteps /\ pc[p] # "idle" /\ Tracked(p)
  BY DEF ReadState, db, request, TransitionSteps, TargetOf
<1>2. CASE Goto(p, OnThrow(p), NoState)
  <2>1. p \in Orders => Forward(p)
    BY <1>1, <1>2, ThrowForward
  <2> QED
    BY <1>1, <1>2, <2>1, RowsSame, GotoSafe
<1>3. ASSUME NEW f \in {"cas", "log"}, ph' = [ph EXCEPT ![p] = f], UNCHANGED pc,
             f = "log" => runs[key[p]].state = TargetOf[pc[p]]
      PROVE  SafeInv'
  <2>1. \A q \in Procs \ {p} : ph'[q] = ph[q]
    BY <1>3 DEF SafeInv, TypeInv, ControlOK
  <2>2. ph'[p] = f
    BY <1>3 DEF SafeInv, TypeInv, ControlOK
  <2>3. Forward(p)
    BY <1>1, <1>3, <2>2 DEF Forward, Intended, TargetOf, ExecutionStates
  <2>4. \A r \in Orders : Sent(r)' => Sent(r)
    BY <1>1 DEF Sent
  <2> QED
    BY <1>1, <1>3, <2>1, <2>3, <2>4, RowsSame, MoveSafe DEF Procs
<1> QED
  BY <1>2, <1>3 DEF ReadState

(* What a transition of a row means for the request that owns it.            *)
LEMMA TargetsOfOthers ==
  ASSUME SafeInv, NEW p \in Procs \ Orders, pc[p] \in TransitionSteps
  PROVE  TargetOf[pc[p]] \in ExecutionStates
<1>1. pc[p] \in VerifierSteps \cup CloserSteps
  BY StepsDisjoint DEF SafeInv, TypeInv, ControlOK, Procs
<1> QED
  BY <1>1 DEF VerifierSteps, VerifySteps, CloserSteps, CloseLogSteps, TransitionSteps, TargetOf,
     ExecutionStates

LEMMA TransitionKept ==
  ASSUME SafeInv, NEW p \in Procs, ph[p] = "cas",
         runs' = [runs EXCEPT ![key[p]].state = TargetOf[pc[p]],
                              ![key[p]].error = @ \/ pc[p] = "unknown"]
  PROVE  /\ \A r \in Orders : Owner(r) => Kept(r)
         /\ runs'[key[p]].state = TargetOf[pc[p]]
<1>1. pc[p] \in TransitionSteps /\ Tracked(p) /\ key[p] \in Keys /\ TargetOf[pc[p]] # NoState
  BY TargetType DEF SafeInv, TypeInv, KeysOK, DataOK, Tracked, NoState, States, EvaluationStates,
     TerminalStates, ExecutionStates
<1>2. \A k \in Keys : /\ runs'[k].dryRun = runs[k].dryRun
                      /\ runs'[k].preview = runs[k].preview
                      /\ runs'[k].state = IF k = key[p] THEN TargetOf[pc[p]] ELSE runs[k].state
  BY <1>1 DEF SafeInv, TypeInv, DataOK, Row
<1>3. ASSUME NEW r \in Orders, Owner(r), Committed(r), key[r] = key[p]
      PROVE  TargetOf[pc[p]] \in ExecutionStates
  <2>1. CASE p \in Orders
    <3>1. Owner(p)
      BY <1>1, <2>1, OrderAt DEF Owner, OwnSteps, OrderSteps, TransitionSteps, TargetOf, Tracked
    <3>2. r = p
      BY <1>3, <2>1, <3>1 DEF SafeInv, OneOwner
    <3>3. pc[p] \in Sending \/ pc[p] \notin Unsent
      BY <1>3, <3>2 DEF Committed, Intended, SafeInv, ClearOK
    <3>4. pc[p] \in {"accept", "unknown"}
      BY <1>1, <2>1, <3>3, OrderAt DEF Sending, Unsent, OrderSteps, TransitionSteps, TargetOf
    <3> QED
      BY <3>4 DEF TargetOf, ExecutionStates
  <2>2. CASE p \notin Orders
    BY <1>1, <2>2, TargetsOfOthers
  <2> QED
    BY <2>1, <2>2
<1> QED
  BY <1>1, <1>2, <1>3, OwnerKey DEF Kept

LEMMA CasStateSafe == ASSUME SafeInv, TypeInv', NEW p \in Procs, CasState(p) PROVE SafeInv'
<1>1. ph[p] = "cas" /\ pc[p] \in TransitionSteps /\ pc[p] # "idle"
      /\ UNCHANGED <<broker, key, env>>
  BY DEF CasState, request, SafeInv, TypeInv, KeysOK, TransitionSteps, TargetOf
<1>2. ASSUME Goto(p, OnThrow(p), NoState), \A r \in Orders : Owner(r) => Kept(r)
      PROVE  SafeInv'
  <2>1. p \in Orders => Forward(p)
    BY <1>1, <1>2, ThrowForward
  <2> QED
    BY <1>1, <1>2, <2>1, GotoSafe
<1>3. CASE UNCHANGED runs /\ Goto(p, OnThrow(p), NoState)
  BY <1>2, <1>3, RowsSame
<1>4. CASE runs' = [runs EXCEPT ![key[p]].state = TargetOf[pc[p]],
                                ![key[p]].error = @ \/ pc[p] = "unknown"]
  <2>1. /\ \A r \in Orders : Owner(r) => Kept(r)
        /\ runs'[key[p]].state = TargetOf[pc[p]]
    BY <1>1, <1>4, TransitionKept
  <2>2. CASE ph' = [ph EXCEPT ![p] = "log"] /\ UNCHANGED pc
    <3>1. \A q \in Procs \ {p} : ph'[q] = ph[q]
      BY <2>2 DEF SafeInv, TypeInv, ControlOK
    <3>2. Forward(p)
      BY <2>1, <2>2 DEF Forward, Intended, TargetOf, ExecutionStates
    <3>3. \A r \in Orders : Sent(r)' => Sent(r)
      BY <1>1 DEF Sent
    <3> QED
      BY <1>1, <2>1, <2>2, <3>1, <3>2, <3>3, MoveSafe DEF Procs
  <2>3. CASE Goto(p, OnThrow(p), NoState)
    BY <1>2, <2>1, <2>3
  <2> QED
    BY <1>4, <2>2, <2>3 DEF CasState
<1> QED
  BY <1>3, <1>4 DEF CasState

LEMMA TrackingSafe ==
  ASSUME SafeInv, TypeInv', NEW p \in Procs, LogTransition(p) \/ SkipTracking(p)
  PROVE  SafeInv'
<1>1. UNCHANGED <<runs, broker, key, env>>
  BY DEF LogTransition, SkipTracking, db, request
<1>2. CASE LogTransition(p)
  <2>1. /\ ph[p] = "log" /\ Acknowledge(p, After(p), NoState) /\ pc[p] \in TransitionSteps
        /\ pc[p] # "idle" /\ pc[p] # "recordPass"
    BY <1>2 DEF LogTransition, SafeInv, TypeInv, KeysOK, TransitionSteps, TargetOf
  <2> QED
    BY <1>1, <2>1, RowsSame, AckSafe
<1>3. CASE SkipTracking(p)
  <2>1. /\ ~ Tracked(p) /\ Goto(p, After(p), NoState) /\ pc[p] # "idle"
        /\ pc[p] \in TransitionSteps \cup (StoreSteps \ {"insert"})
    BY <1>3 DEF SkipTracking, TransitionSteps, TargetOf, StoreSteps
  <2>2. p \in Orders => ~ env[p].db
    BY <2>1, OrderAt
  <2>3. p \in Orders => Forward(p)
    BY <2>1, <2>2, AfterForward
  <2> QED
    BY <1>1, <2>1, <2>3, RowsSame, GotoSafe
<1> QED
  BY <1>2, <1>3

LEMMA ReadSafe ==
  ASSUME SafeInv, TypeInv', NEW p \in Procs, ReadList(p) \/ ReadFails(p)
  PROVE  SafeInv'
<1>1. UNCHANGED <<runs, broker, key, env>> /\ pc[p] # "idle"
  BY DEF ReadList, ReadFails, db, request, SafeInv, TypeInv, KeysOK, ReadSteps
<1>2. CASE UNCHANGED <<pc, ph>>
  <2>1. Forward(p)
    BY <1>2 DEF Forward, Intended
  <2>2. \A r \in Orders : Sent(r)' => Sent(r)
    BY <1>1 DEF Sent
  <2> QED
    BY <1>1, <1>2, <2>1, <2>2, RowsSame, MoveSafe
<1>3. CASE Goto(p, OnThrow(p), NoState)
  <2>1. p \in Orders => Forward(p)
    BY <1>1, <1>3, ThrowForward
  <2> QED
    BY <1>1, <1>3, <2>1, RowsSame, GotoSafe
<1> QED
  BY <1>2, <1>3 DEF ReadList, ReadFails

LEMMA FaultSafe ==
  ASSUME SafeInv, TypeInv', NEW p \in Procs, QueryFails(p) \/ Crash(p)
  PROVE  SafeInv'
<1>1. UNCHANGED <<runs, broker, key, env>> /\ pc[p] # "idle"
  BY DEF QueryFails, Crash, InDb, db, request, TransitionSteps, TargetOf, StoreSteps, CloseLogSteps
<1>2. CASE QueryFails(p)
  <2>1. Goto(p, OnThrow(p), NoState)
    BY <1>2 DEF QueryFails
  <2>2. p \in Orders => Forward(p)
    BY <1>1, <2>1, ThrowForward
  <2> QED
    BY <1>1, <2>1, <2>2, RowsSame, GotoSafe
<1>3. CASE Crash(p) /\ p \in Orders
  BY <1>1, <1>3, DecideSafe DEF Crash
<1>4. CASE Crash(p) /\ p \notin Orders
  BY <1>1, <1>4, RowsSame, GotoSafe DEF Crash
<1> QED
  BY <1>2, <1>3, <1>4

LEMMA RecordErrorSafe ==
  ASSUME SafeInv, TypeInv', NEW p \in Procs, RecordErrorOnly(p)
  PROVE  SafeInv'
<1>1. /\ pc[p] = "fallback" /\ key[p] \in Keys /\ Acknowledge(p, After(p), NoState)
      /\ UNCHANGED <<broker, key, env>> /\ runs' = [runs EXCEPT ![key[p]].error = TRUE]
  BY DEF RecordErrorOnly, request, Tracked, SafeInv, TypeInv, DataOK
<1>2. \A k \in Keys : /\ runs'[k].state = runs[k].state /\ runs'[k].dryRun = runs[k].dryRun
                      /\ runs'[k].preview = runs[k].preview
  BY <1>1 DEF SafeInv, TypeInv, DataOK, Row
<1> QED
  BY <1>1, <1>2, FieldsKept, AckSafe DEF StoreSteps

(* A request that arrives owns nothing yet, and shares no row with an owner. *)
LEMMA ArriveSafe == ASSUME SafeInv, TypeInv', NEW r \in Orders, Arrive(r) PROVE SafeInv'
<1>1. PICK k \in Keys, e \in Envs :
        /\ key' = [key EXCEPT ![r] = k] /\ env' = [env EXCEPT ![r] = e]
        /\ Goto(r, IF e.db THEN "insert" ELSE "preview", NoState)
  BY DEF Arrive
<1>2. pc[r] = "idle" /\ UNCHANGED <<runs, broker>> /\ r \in Procs
  BY DEF Arrive, db, Procs
<1> DEFINE s == IF e.db THEN "insert" ELSE "preview"
<1>3. Goto(r, s, NoState) /\ s \in {"insert", "preview"} /\ (s = "preview" => ~ e.db)
  BY <1>1
<1> HIDE DEF s
<1>4. /\ pc'[r] = s /\ ph'[r] = "read" /\ env'[r] = e
      /\ \A q \in Orders \ {r} : pc'[q] = pc[q] /\ ph'[q] = ph[q]
  BY <1>1, <1>2, <1>3, GotoMoves DEF SafeInv, TypeInv, DataOK
<1>5. \A q \in Orders \ {r} : key'[q] = key[q] /\ env'[q] = env[q]
  BY <1>1 DEF SafeInv, TypeInv, DataOK, Procs
<1>6. ~ Sent(r) /\ ~ Sent(r)'
  BY <1>2 DEF Sent, SafeInv, TypeInv, KeysOK
<1>7. ~ Owner(r)'
  BY <1>3, <1>4, <1>6 DEF Owner, OwnSteps
<1>8. \A q \in Orders \ {r} : (Owner(q)' <=> Owner(q)) /\ (Committed(q)' <=> Committed(q))
                              /\ (Sent(q)' <=> Sent(q))
  BY <1>2, <1>4, <1>5 DEF Owner, Committed, Intended, Sent
<1>9. OneOwner'
  BY <1>5, <1>7, <1>8 DEF SafeInv, OneOwner
<1>10. \A q \in Orders : RowOK(q)'
  BY <1>2, <1>4, <1>5, <1>7, <1>8 DEF SafeInv, RowOK
<1>11. \A q \in Orders : ClearOK(q)'
  <2>1. ClearOK(r)'
    BY <1>3, <1>4, <1>6 DEF ClearOK, Cleared, Sending
  <2> QED
    BY <1>4, <1>5, <1>8, <2>1 DEF SafeInv, ClearOK
<1> QED
  BY <1>9, <1>10, <1>11 DEF SafeInv

(* The insert that wins makes its request the owner: nobody owns a row that is not *)
(* there.  The others leave.                                                       *)
LEMMA CreateTradeRunSafe ==
  ASSUME SafeInv, TypeInv', NEW r \in Orders, CreateTradeRun(r)
  PROVE  SafeInv'
<1>1. /\ r \in Procs /\ pc[r] = "insert" /\ key[r] \in Keys /\ env[r].db
      /\ UNCHANGED <<broker, key, env>>
  BY DEF CreateTradeRun, Procs, request, SafeInv, TypeInv, KeysOK
<1>2. CASE Goto(r, "done", NoState) /\ UNCHANGED <<runs, faults>>
  BY <1>1, <1>2, DecideSafe
<1>3. CASE /\ NoRun(key[r])
           /\ runs' = [runs EXCEPT ![key[r]] = [NoRow EXCEPT !.state = "SIGNAL_CREATED",
                                                            !.dryRun = ~ env[r].live]]
           /\ Acknowledge(r, "created", NoState)
  <2>1. PICK s \in {"created", "failed"} : Goto(r, s, NoState)
    BY <1>1, <1>3 DEF Acknowledge, OnThrow
  <2>2. pc'[r] = s /\ \A q \in Orders \ {r} : pc'[q] = pc[q] /\ ph'[q] = ph[q]
    BY <1>1, <2>1, GotoMoves
  <2>3. /\ runs'[key[r]].state = "SIGNAL_CREATED"
        /\ runs'[key[r]].dryRun = ~ env[r].live
        /\ \A k \in Keys \ {key[r]} : runs'[k] = runs[k]
    BY <1>1, <1>3 DEF NoRow, SafeInv, TypeInv, DataOK
  <2>4. ~ Sent(r)
    BY <1>1 DEF SafeInv, ClearOK, Unsent
  <2>5. \A q \in Orders \ {r} : Owner(q) => key[q] \in Keys \ {key[r]}
    BY <1>3, OwnerKey DEF NoRun
  <2>6. \A q \in Orders \ {r} : (Owner(q)' <=> Owner(q)) /\ (Committed(q)' <=> Committed(q))
    BY <1>1, <2>2 DEF Owner, Committed, Intended, Sent
  <2>7. OneOwner'
    BY <1>1, <2>5, <2>6 DEF SafeInv, OneOwner
  <2>8. RowOK(r)' /\ ~ Committed(r)'
    BY <1>1, <2>2, <2>3, <2>4 DEF RowOK, Committed, Intended, Sent, Sending, Vetted, NoState
  <2>9. \A q \in Orders : RowOK(q)'
    BY <1>1, <2>2, <2>3, <2>5, <2>6, <2>8 DEF SafeInv, RowOK, Sent
  <2>10. \A q \in Orders : ClearOK(q)'
    BY <1>1, <2>2, <2>4 DEF SafeInv, ClearOK, Cleared, Sending, Sent, Unsent
  <2> QED
    BY <2>7, <2>9, <2>10 DEF SafeInv
<1> QED
  BY <1>2, <1>3 DEF CreateTradeRun, Inserts

LEMMA OrderStepSafe == ASSUME SafeInv, TypeInv', NEW r \in Orders, OrderStep(r) PROVE SafeInv'
<1>0. r \in Procs
  BY DEF Procs
<1>1. CASE EvaluateRisk(r) \/ DecideFinal(r) \/ BrokerAnswers(r)
  <2>1. UNCHANGED <<runs, broker, key, env>>
    BY <1>1 DEF EvaluateRisk, DecideFinal, BrokerAnswers, db, request
  <2> QED
    BY <1>1, <2>1, DecideSafe DEF EvaluateRisk, DecideFinal, BrokerAnswers
<1>2. CASE DecideFirst(r)
  <2>1. UNCHANGED <<runs, broker, key, env>> /\ pc[r] = "dup1"
    BY <1>2 DEF DecideFirst, db, request
  <2>2. env[r] \in Environment
    BY <1>0 DEF SafeInv, TypeInv, DataOK
  <2>3. \/ Goto(r, "blocked", NoState)
        \/ Goto(r, "dryRun", NoState)
        \/ Goto(r, "dup2", NoState) /\ env[r].live /\ env[r].kill = "off"
    BY <1>2, <2>2 DEF DecideFirst, KillSwitchEnabled, Environment
  <2> QED
    BY <2>1, <2>3, DecideSafe
<1>3. CASE PostOrder(r)
  <2>1. /\ pc[r] = "post" /\ broker' = [broker EXCEPT ![r] = "wire"] /\ Goto(r, "await", NoState)
        /\ UNCHANGED <<runs, key, env>>
    BY <1>3 DEF PostOrder, db, request
  <2>2. pc'[r] = "await" /\ \A q \in Orders \ {r} : pc'[q] = pc[q] /\ ph'[q] = ph[q]
    BY <1>0, <2>1, GotoMoves
  <2>3. \A q \in Orders : Sent(q)' => Sent(q) \/ q = r
    BY <2>1 DEF Sent, SafeInv, TypeInv, DataOK
  <2>4. Forward(r)
    BY <2>1, <2>2 DEF Forward, Intended, OwnSteps, Vetted, Sending, Unsent, Cleared, OrderSteps
  <2> QED
    BY <1>0, <2>1, <2>2, <2>3, <2>4, RowsSame, MoveSafe
<1>4. CASE LogCreated(r)
  <2>1. /\ pc[r] = "created" /\ Acknowledge(r, After(r), NoState)
        /\ UNCHANGED <<runs, broker, key, env>>
    BY <1>4 DEF LogCreated, request
  <2> QED
    BY <1>0, <2>1, RowsSame, AckSafe DEF StoreSteps
<1>5. CASE UpdateFromPreview(r) \/ UpdateBrokerResponse(r)
  <2>1. /\ pc[r] \in {"recordPass", "recordFail", "store"} /\ key[r] \in Keys
        /\ Acknowledge(r, After(r), NoState) /\ UNCHANGED <<broker, key, env>>
    BY <1>0, <1>5 DEF UpdateFromPreview, UpdateBrokerResponse, request, Tracked, SafeInv, TypeInv, DataOK
  <2>2. \A k \in Keys : /\ runs'[k].state = runs[k].state /\ runs'[k].dryRun = runs[k].dryRun
                        /\ runs[k].preview => runs'[k].preview
    BY <1>5, <2>1 DEF UpdateFromPreview, UpdateBrokerResponse, SafeInv, TypeInv, DataOK, Row
  <2>3. pc[r] = "recordPass" => runs'[key[r]].preview
    BY <1>5, <2>1 DEF UpdateFromPreview, UpdateBrokerResponse, SafeInv, TypeInv, DataOK, Row
  <2> QED
    BY <1>0, <2>1, <2>2, <2>3, FieldsKept, AckSafe DEF StoreSteps
<1> QED
  BY <1>1, <1>2, <1>3, <1>4, <1>5, ArriveSafe, CreateTradeRunSafe DEF OrderStep

(* Verifiers and closers touch none of the columns the owners rely on.       *)
LEMMA OtherStepSafe ==
  ASSUME SafeInv, TypeInv', NEW p,
         (p \in Verifiers /\ VerifierStep(p)) \/ (p \in Closers /\ CloserStep(p))
  PROVE  SafeInv'
<1>0. p \in Procs /\ p \notin Orders
  BY RequestsDistinct DEF Procs
<1>1. UNCHANGED broker /\ \A r \in Orders : key'[r] = key[r] /\ env'[r] = env[r]
  BY <1>0 DEF VerifierStep, AskVerification, MatchRows, StoreVerification, LogVerification,
     CloserStep, AskClose, LogClose, DeletePosition, DeleteAnswers, StoreClose, db, request,
     SafeInv, TypeInv, DataOK, Procs
<1>2. \E s, c : Goto(p, s, c)
  <2>1. \A s, c : Acknowledge(p, s, c) => \E t, d : Goto(p, t, d)
    BY DEF Acknowledge
  <2>2. CASE p \in Verifiers /\ VerifierStep(p)
    BY <2>1, <2>2 DEF VerifierStep, AskVerification, MatchRows, StoreVerification, LogVerification
  <2>3. CASE p \in Closers /\ CloserStep(p)
    <3>1. AskClose(p) => \E s, c : Goto(p, s, c)
      BY Zenon DEF AskClose
    <3>2. LogClose(p) \/ StoreClose(p) => \E s, c : Goto(p, s, c)
      BY <2>1, Zenon DEF LogClose, StoreClose
    <3>3. DeletePosition(p) \/ DeleteAnswers(p) => \E s, c : Goto(p, s, c)
      BY Zenon DEF DeletePosition, DeleteAnswers
    <3> QED
      BY <2>3, <3>1, <3>2, <3>3 DEF CloserStep
  <2> QED
    BY <2>2, <2>3
<1>3. \A k \in Keys : /\ runs'[k].state = runs[k].state /\ runs'[k].dryRun = runs[k].dryRun
                      /\ runs'[k].preview = runs[k].preview
  <2>1. CASE p \in Verifiers
    BY <2>1, RequestsDistinct DEF VerifierStep, AskVerification, MatchRows, StoreVerification,
       LogVerification, db, SafeInv, TypeInv, DataOK, Row
  <2>2. CASE p \in Closers
    BY <2>2, RequestsDistinct DEF CloserStep, AskClose, LogClose, DeletePosition, DeleteAnswers,
       StoreClose, db, SafeInv, TypeInv, DataOK, Row
  <2> QED
    BY <2>1, <2>2
<1> QED
  BY <1>0, <1>1, <1>2, <1>3, FieldsKept, GotoSafe

LEMMA BrokerMovesSafe == ASSUME SafeInv, TypeInv', BrokerMoves PROVE SafeInv'
<1>1. UNCHANGED <<runs, pc, ph, key, env>>
  BY DEF BrokerMoves, db, control, request
<1>2. \A r \in Orders : Sent(r)' <=> Sent(r)
  BY DEF BrokerMoves, Sent, SafeInv, TypeInv, DataOK
<1> QED
  BY <1>1, <1>2 DEF SafeInv, OneOwner, RowOK, ClearOK, Owner, Committed, Intended

LEMMA StepSafe == SafeInv /\ [Next]_vars => SafeInv'
<1> SUFFICES ASSUME SafeInv, [Next]_vars PROVE SafeInv'
  OBVIOUS
<1>1. TypeInv'
  BY TypeStep DEF SafeInv
<1>2. CASE Next
  <2>1. ASSUME NEW p \in Procs, Transition(p) \/ SkipTracking(p) \/ ReadList(p) \/ ReadFails(p)
                                \/ RecordErrorOnly(p) \/ QueryFails(p) \/ Crash(p)
        PROVE  SafeInv'
    BY <1>1, <2>1, ReadStateSafe, CasStateSafe, TrackingSafe, ReadSafe, FaultSafe, RecordErrorSafe
       DEF Transition
  <2>2. ASSUME NEW r \in Orders, OrderStep(r) PROVE SafeInv'
    BY <1>1, <2>2, OrderStepSafe
  <2>3. ASSUME NEW v \in Verifiers, VerifierStep(v) PROVE SafeInv'
    BY <1>1, <2>3, OtherStepSafe
  <2>4. ASSUME NEW c \in Closers, CloserStep(c) PROVE SafeInv'
    BY <1>1, <2>4, OtherStepSafe
  <2>5. CASE BrokerMoves
    BY <1>1, <2>5, BrokerMovesSafe
  <2> QED
    BY <1>2, <2>1, <2>2, <2>3, <2>4, <2>5 DEF Next, NextOf
<1>3. CASE UNCHANGED vars
  BY <1>1, <1>3 DEF vars, db, control, request, SafeInv, OneOwner, RowOK, ClearOK, Owner, Sent,
     Committed, Intended
<1> QED
  BY <1>2, <1>3

\* SafeInv holds in every state the gateway can reach.
THEOREM SafetyInvariant == Spec => []SafeInv
  BY InitSafe, StepSafe, PTL DEF Spec

\* The instances that have the database send at most one order for an idempotency
\* key: whoever sent one owns the row of the key, and a row has one owner.
THEOREM SentOnce == Spec => []OncePerKey
<1>1. SafeInv => OncePerKey
  BY DEF SafeInv, OneOwner, OncePerKey, Posted, Owner, Sent
<1> QED
  BY <1>1, SafetyInvariant, PTL

\* An order at the broker has a durable row that is past ORDER_SUBMITTED, is no dry
\* run and keeps its risk preview, in environments of every kind and through faults.
THEOREM WrittenAhead == Spec => []WriteAhead
<1>1. SafeInv => WriteAhead
  BY DEF SafeInv, WriteAhead, RowOK, ClearOK, Owner, Committed, Sent
<1> QED
  BY <1>1, SafetyInvariant, PTL

\* No order leaves an instance that is not live or whose kill switch is not "false".
THEOREM GuardsKept == Spec => []GuardsHold
<1>1. SafeInv => GuardsHold
  BY DEF SafeInv, GuardsHold, ClearOK, Sent
<1> QED
  BY <1>1, SafetyInvariant, PTL
=============================================================================
