---------------------------- MODULE TradeGateway ----------------------------
(***************************************************************************)
(* The order path of the gateway: concurrent POST requests to              *)
(* api/tradelocker/order and api/tradelocker/close-position, GET requests  *)
(* to api/tradelocker/verify-trade, the rows of trade_runs and             *)
(* trade_events they share (lib/tradeState.js), the duplicate and exposure *)
(* checks (lib/tradeGuard.js, lib/risk.js) and the broker they call.       *)
(*                                                                         *)
(* Every await of a handler is a step: between two of them any other       *)
(* request, the broker, a database error or the death of the serverless    *)
(* instance may come.  An idempotency key stands for the strategyId the    *)
(* code derives from it (makeStrategyId is a hash, taken as injective).    *)
(***************************************************************************)
EXTENDS TradeStates, Integers, FiniteSets

CONSTANTS
  Orders,      \* order requests: each is one POST, posted to the broker at most once
  Verifiers,   \* clients that poll verify-trade
  Closers,     \* clients that ask to close a position
  Keys,        \* idempotency keys
  NoKey,       \* no key: a request that tracks no row
  Envs,        \* process environments of the instances that serve requests
  MaxOpen,     \* MAX_OPEN_POSITIONS
  MaxPending,  \* MAX_PENDING_ORDERS
  MaxDaily,    \* MAX_DAILY_TRADES
  MaxFaults    \* bound on database errors, failed broker reads and crashes

KillSwitch == {"on", "off", "garbled"}  \* "true" or unset; "false"; anything else
Environment == [live : BOOLEAN, kill : KillSwitch, db : BOOLEAN]

ASSUME RequestsDistinct ==
  /\ Orders \cap Verifiers = {}
  /\ Orders \cap Closers = {}
  /\ Verifiers \cap Closers = {}
ASSUME NoKeyAssumption == NoKey \notin Keys
ASSUME EnvsAssumption == Envs \subseteq Environment
ASSUME LimitsAssumption ==
  MaxOpen \in Nat /\ MaxPending \in Nat /\ MaxDaily \in Nat /\ MaxFaults \in Nat

Procs == Orders \cup Verifiers \cup Closers

NoState == "NO_STATE"
NoEnv == [live |-> FALSE, kill |-> "on", db |-> FALSE]

\* A row of trade_runs, reduced to the columns that later requests act on.
Row == [state : States \cup {NoState}, dryRun : BOOLEAN, preview : BOOLEAN,
        ids : SUBSET {"order", "position"}, error : BOOLEAN]
NoRow == [state |-> NoState, dryRun |-> TRUE, preview |-> FALSE, ids |-> {}, error |-> FALSE]

Stages == {"none", "wire", "lost", "pending", "open", "final"}
Lists == {"orders", "positions", "history"}

VARIABLES
  runs,    \* runs[k]: the trade_runs row of key k
  logged,  \* logged[k]: the states the trade_events rows of k name as to_state
  broker,  \* broker[r]: what became of the order of request r
  pc,      \* pc[p]: the statement request p is about to execute
  ph,      \* ph[p]: where p is inside transitionTradeState
  cur,     \* cur[p]: the row state p has read
  todo,    \* todo[p]: broker lists p has asked for and not received
  seen,    \* seen[p][l]: the orders list l held when p read it
  key,     \* key[p]: the key of the row p tracks, NoKey if none
  env,     \* env[p]: the environment of the instance that serves p
  known,   \* history: the key of p was visible at the broker when p arrived
  faults   \* faults so far, at most MaxFaults

db == <<runs, logged>>
control == <<pc, ph, cur, todo, seen>>
request == <<key, env, known>>
vars == <<db, broker, control, request, faults>>

NoRun(k) == runs[k].state = NoState
Tracked(p) == env[p].db /\ key[p] # NoKey

(***************************************************************************)
(* Control.  TargetOf names the state each transitionTradeState call asks  *)
(* for; Next and OnThrow say where the handler goes when a statement       *)
(* returns and when it throws.                                             *)
(***************************************************************************)
TargetOf ==
  [validate |-> "SIGNAL_VALIDATED", refuse |-> "RISK_REJECTED", approve |-> "RISK_APPROVED",
   blocked |-> "ORDER_REJECTED", dryRun |-> "DRY_RUN_COMPLETE", submit |-> "ORDER_SUBMITTED",
   accept |-> "ORDER_ACCEPTED", unknown |-> "EXECUTION_UNKNOWN",
   vSubmit |-> "ORDER_SUBMITTED", vAccept |-> "ORDER_ACCEPTED", vFill |-> "ORDER_FILLED",
   vOpen |-> "POSITION_OPEN", cRequest |-> "CLOSE_REQUESTED"]

TransitionSteps == DOMAIN TargetOf
StoreSteps == {"insert", "created", "recordPass", "recordFail", "store", "fallback"}
ReadSteps == {"preview", "dup1", "dup2", "vRead"}
VerifySteps == {"vStore", "vLog", "vSubmit", "vAccept", "vFill", "vOpen"}
CloseLogSteps == {"cDry", "cPartial", "cLog"}
OrderSteps ==
  {"idle", "insert", "created", "validate", "preview", "recordPass", "recordFail", "refuse",
   "approve", "dup1", "blocked", "dryRun", "dup2", "submit", "post", "await", "store",
   "accept", "unknown", "fallback", "done", "failed", "unsure", "crashed"}
VerifierSteps == {"idle", "vRead"} \cup VerifySteps
CloserSteps == {"idle", "cRequest", "cDelete", "cAwait", "cStore", "unknown", "fallback"}
                 \cup CloseLogSteps
StepsOf(p) == CASE p \in Orders -> OrderSteps
                [] p \in Verifiers -> VerifierSteps
                [] p \in Closers -> CloserSteps

\* Variant of Openable: an unknown execution is not resolved by a verification.
OpenableIfKnown == {"ORDER_FILLED", "PARTIAL_FILL", "POSITION_MISMATCH"}

\* The states advanceToPositionOpen moves to POSITION_OPEN.
Openable == {"ORDER_FILLED", "PARTIAL_FILL", "EXECUTION_UNKNOWN", "POSITION_MISMATCH"}

\* advanceToAccepted and advanceToPositionOpen: the next call for a row in
\* state s, given what the verification found.
Advance(p, s) ==
  LET Found(l) == \E r \in seen[p][l] : key[r] = key[p]
  IN  CASE s = "RISK_APPROVED" /\ (Found("orders") \/ Found("positions")) -> "vSubmit"
        [] s = "ORDER_SUBMITTED" /\ (Found("orders") \/ Found("positions")) -> "vAccept"
        [] s = "ORDER_ACCEPTED" /\ Found("positions") -> "vFill"
        [] s \in Openable /\ Found("positions") -> "vOpen"
        [] OTHER -> "idle"

\* Variant of Marked: the close route taken for the order route.
MarkedAsOrder(p) == "unsure"

\* Where markTradeError returns to: the order route rethrows the broker's error.
Marked(p) == IF p \in Orders THEN "unsure" ELSE "idle"

After(p) ==
  CASE pc[p] = "created" -> "validate"
    [] pc[p] = "validate" -> "preview"
    [] pc[p] = "recordPass" -> "approve"
    [] pc[p] = "recordFail" -> "refuse"
    [] pc[p] = "approve" -> "dup1"
    [] pc[p] = "submit" -> "post"
    [] pc[p] = "store" -> "accept"
    [] pc[p] \in {"refuse", "blocked", "dryRun", "accept"} -> "done"
    [] pc[p] \in {"unknown", "fallback"} -> Marked(p)
    [] pc[p] = "vLog" -> Advance(p, cur[p])
    [] pc[p] \in VerifySteps \ {"vStore", "vLog"} -> Advance(p, TargetOf[pc[p]])
    [] pc[p] \in {"cRequest", "cPartial"} -> "cDelete"
    [] pc[p] \in {"cDry", "cLog"} -> "idle"

OnThrow(p) ==
  CASE pc[p] = "unknown" -> "fallback"
    [] pc[p] = "fallback" -> Marked(p)
    [] pc[p] \in {"store", "accept"} -> "done"      \* trackingWarning
    [] pc[p] \in {"cRequest", "cPartial"} -> "cDelete"
    [] OTHER -> IF p \in Orders THEN "failed" ELSE "idle"

\* p goes on with statement s; the rows a verification matched stay in its scope.
Goto(p, s, c) ==
  /\ pc' = [pc EXCEPT ![p] = s]
  /\ ph' = [ph EXCEPT ![p] = "read"]
  /\ cur' = [cur EXCEPT ![p] = c]
  /\ todo' = [todo EXCEPT ![p] = IF s \in ReadSteps THEN Lists ELSE {}]
  /\ seen' = [seen EXCEPT ![p] = IF s \in VerifySteps THEN @ ELSE [l \in Lists |-> {}]]

\* A write took effect: its acknowledgement arrives, or is lost and the call throws.
Acknowledge(p, s, c) ==
  \/ (Goto(p, s, c) /\ UNCHANGED faults)
  \/ /\ faults < MaxFaults
     /\ faults' = faults + 1
     /\ Goto(p, OnThrow(p), NoState)

Log(k, s) == logged' = [logged EXCEPT ![k] = @ \cup {s}]

(***************************************************************************)
(* transitionTradeState: read the row, update it where the state is still  *)
(* the one read, append the event.                                         *)
(***************************************************************************)
ReadState(p) ==
  /\ pc[p] \in TransitionSteps /\ ph[p] = "read" /\ Tracked(p)
  /\ LET s == runs[key[p]].state
         to == TargetOf[pc[p]]
         Enter(f) == /\ ph' = [ph EXCEPT ![p] = f]
                     /\ cur' = [cur EXCEPT ![p] = s]
                     /\ UNCHANGED <<pc, todo, seen>>
     IN  \/ s = to /\ Enter("log")
         \/ s # to /\ <<s, to>> \in Allowed /\ Enter("cas")
         \/ s # to /\ <<s, to>> \notin Allowed /\ Goto(p, OnThrow(p), NoState)
  /\ UNCHANGED <<db, broker, request, faults>>

\* Variant of StillCurrent: the update forgets "and state = $5".
AnyState(p) == TRUE

\* The condition of the update: where id = $1 and state = $5.
StillCurrent(p) == runs[key[p]].state = cur[p]

CasState(p) ==
  LET k == key[p]
  IN  /\ ph[p] = "cas"
      /\ \/ /\ StillCurrent(p)
            /\ runs' = [runs EXCEPT ![k].state = TargetOf[pc[p]],
                                    ![k].error = @ \/ pc[p] = "unknown"]
            /\ \/ /\ ph' = [ph EXCEPT ![p] = "log"]
                  /\ UNCHANGED <<pc, cur, todo, seen, faults>>
               \/ /\ faults < MaxFaults
                  /\ faults' = faults + 1
                  /\ Goto(p, OnThrow(p), NoState)
         \/ /\ ~ StillCurrent(p)
            /\ Goto(p, OnThrow(p), NoState)
            /\ UNCHANGED <<runs, faults>>
      /\ UNCHANGED <<logged, broker, request>>

\* Variant of LogTransition: the event names the state the row came from.
LogFromState(p) ==
  /\ ph[p] = "log"
  /\ Log(key[p], cur[p])
  /\ Acknowledge(p, After(p), NoState)
  /\ UNCHANGED <<runs, broker, request>>

LogTransition(p) ==
  /\ ph[p] = "log"
  /\ Log(key[p], TargetOf[pc[p]])
  /\ Acknowledge(p, After(p), NoState)
  /\ UNCHANGED <<runs, broker, request>>

\* Without a database there is no trackedTrade and every tracking call is skipped.
SkipTracking(p) ==
  /\ ~ Tracked(p)
  /\ pc[p] \in TransitionSteps \cup (StoreSteps \ {"insert"})
  /\ Goto(p, After(p), NoState)
  /\ UNCHANGED <<db, broker, request, faults>>

(***************************************************************************)
(* Reads of the broker.  A Promise.all reads its lists one by one in any   *)
(* order while the broker moves on; buildRiskPreview asks for the day's    *)
(* history after the other two.                                            *)
(***************************************************************************)
Holds(l) == CASE l = "orders" -> {"pending"}
              [] l = "positions" -> {"open"}
              [] l = "history" -> {"open", "final"}
Visible(r) == broker[r] \in {"pending", "open", "final"}

ReadList(p) ==
  \E l \in todo[p] :
    /\ pc[p] = "preview" /\ l = "history" => todo[p] = {l}
    /\ todo' = [todo EXCEPT ![p] = @ \ {l}]
    /\ seen' = [seen EXCEPT ![p][l] = {r \in Orders : broker[r] \in Holds(l)}]
    /\ UNCHANGED <<db, broker, pc, ph, cur, request, faults>>

\* A failed read rejects the whole Promise.all, except where the code catches
\* it: the duplicate check and the daily history go on with an empty list.
ReadFails(p) ==
  \E l \in todo[p] :
    /\ faults < MaxFaults
    /\ faults' = faults + 1
    /\ pc[p] = "preview" /\ l = "history" => todo[p] = {l}
    /\ IF pc[p] \in {"dup1", "dup2"} \/ (pc[p] = "preview" /\ l = "history")
       THEN todo' = [todo EXCEPT ![p] = @ \ {l}] /\ UNCHANGED <<pc, ph, cur, seen>>
       ELSE Goto(p, OnThrow(p), NoState)
    /\ UNCHANGED <<db, broker, request>>

(***************************************************************************)
(* POST api/tradelocker/order                                              *)
(***************************************************************************)
Arrive(r) ==
  /\ pc[r] = "idle"
  /\ \E k \in Keys, e \in Envs :
       /\ key' = [key EXCEPT ![r] = k]
       /\ env' = [env EXCEPT ![r] = e]
       /\ known' = [known EXCEPT ![r] = \E o \in Orders : key[o] = k /\ Visible(o)]
       /\ Goto(r, IF e.db THEN "insert" ELSE "preview", NoState)
  /\ UNCHANGED <<db, broker, faults>>

\* Variant of Inserts: the unique key is missing.
InsertsAlways(k) == TRUE

\* on conflict (idempotency_key) do nothing.
Inserts(k) == NoRun(k)

\* insert ... on conflict (idempotency_key) do nothing; a row that exists already
\* answers 409, or throws when its fingerprint differs.
CreateTradeRun(r) ==
  LET k == key[r]
  IN  /\ pc[r] = "insert"
      /\ IF Inserts(k)
         THEN /\ runs' = [runs EXCEPT ![k] = [NoRow EXCEPT !.state = "SIGNAL_CREATED",
                                                          !.dryRun = ~ env[r].live]]
              /\ Acknowledge(r, "created", NoState)
         ELSE /\ Goto(r, "done", NoState)
              /\ UNCHANGED <<runs, faults>>
      /\ UNCHANGED <<logged, broker, request>>

LogCreated(r) ==
  /\ pc[r] = "created" /\ Tracked(r)
  /\ Log(key[r], "SIGNAL_CREATED")
  /\ Acknowledge(r, After(r), NoState)
  /\ UNCHANGED <<runs, broker, request>>

\* buildRiskPreview: the exposure checks over the lists just read, the kill switch
\* as boolEnv parses it, which a 2M dry run may pass where trading is disabled, and every
\* other check as a free verdict.
EvaluateRisk(r) ==
  /\ pc[r] = "preview" /\ todo[r] = {}
  /\ \/ /\ Cardinality(seen[r]["positions"]) < MaxOpen
        /\ Cardinality(seen[r]["orders"]) < MaxPending
        /\ Cardinality(seen[r]["history"]) < MaxDaily
        /\ env[r].kill # "on" \/ ~ env[r].live
        /\ Goto(r, "recordPass", NoState)
     \/ Goto(r, "recordFail", NoState)
  /\ UNCHANGED <<db, broker, request, faults>>

UpdateFromPreview(r) ==
  /\ pc[r] \in {"recordPass", "recordFail"} /\ Tracked(r)
  /\ runs' = [runs EXCEPT ![key[r]].preview = TRUE]
  /\ Acknowledge(r, After(r), NoState)
  /\ UNCHANGED <<logged, broker, request>>

Duplicate(r) == \E l \in Lists : \E o \in seen[r][l] : key[o] = key[r]

\* Variant of KillSwitchEnabled: the switch as risk.js parses it.
KillSwitchOn(r) == env[r].kill = "on"

\* killSwitchEnabled: anything but "false" blocks.
KillSwitchEnabled(r) == env[r].kill # "off"

\* Variant of DecideFirst: the final duplicate check is skipped.
DecideOnce(r) ==
  /\ pc[r] = "dup1" /\ todo[r] = {}
  /\ Goto(r, IF Duplicate(r) THEN "blocked"
             ELSE IF ~ env[r].live THEN "dryRun"
             ELSE IF KillSwitchEnabled(r) THEN "blocked" ELSE "submit", NoState)
  /\ UNCHANGED <<db, broker, request, faults>>

DecideFirst(r) ==
  /\ pc[r] = "dup1" /\ todo[r] = {}
  /\ Goto(r, IF Duplicate(r) THEN "blocked"
             ELSE IF ~ env[r].live THEN "dryRun"
             ELSE IF KillSwitchEnabled(r) THEN "blocked" ELSE "dup2", NoState)
  /\ UNCHANGED <<db, broker, request, faults>>

\* Variant of DecideFinal: the order is sent before ORDER_SUBMITTED is stored.
DecideAndSend(r) ==
  /\ pc[r] = "dup2" /\ todo[r] = {}
  /\ Goto(r, IF Duplicate(r) THEN "blocked" ELSE "post", NoState)
  /\ UNCHANGED <<db, broker, request, faults>>

DecideFinal(r) ==
  /\ pc[r] = "dup2" /\ todo[r] = {}
  /\ Goto(r, IF Duplicate(r) THEN "blocked" ELSE "submit", NoState)
  /\ UNCHANGED <<db, broker, request, faults>>

\* tlFetch never replays a POST.
PostOrder(r) ==
  /\ pc[r] = "post"
  /\ broker' = [broker EXCEPT ![r] = "wire"]
  /\ Goto(r, "await", NoState)
  /\ UNCHANGED <<db, request, faults>>

\* A 2xx answer comes only from a broker that took the order; an error, a timeout
\* or a broken body may come whatever the broker did or will still do.
BrokerAnswers(r) ==
  /\ pc[r] = "await"
  /\ \/ Visible(r) /\ Goto(r, "store", NoState)
     \/ Goto(r, "unknown", NoState)
  /\ UNCHANGED <<db, broker, request, faults>>

UpdateBrokerResponse(r) ==
  /\ pc[r] = "store" /\ Tracked(r)
  /\ runs' = [runs EXCEPT ![key[r]].ids = @ \cup {"order"}]
  /\ Acknowledge(r, After(r), NoState)
  /\ UNCHANGED <<logged, broker, request>>

\* Variant of RecordErrorOnly: a refused transition ends markTradeError.
ForgetError(p) ==
  /\ pc[p] = "fallback" /\ Tracked(p)
  /\ Goto(p, After(p), NoState)
  /\ UNCHANGED <<db, broker, request, faults>>

\* markTradeError when its transition threw: keep the state, record the error.
RecordErrorOnly(p) ==
  /\ pc[p] = "fallback" /\ Tracked(p)
  /\ runs' = [runs EXCEPT ![key[p]].error = TRUE]
  /\ Acknowledge(p, After(p), NoState)
  /\ UNCHANGED <<logged, broker, request>>

(***************************************************************************)
(* GET api/tradelocker/verify-trade?strategyId=...                         *)
(* A query by order or position id reaches the same row once that id is    *)
(* recorded, and matches a subset of the rows a strategyId matches.        *)
(***************************************************************************)
AskVerification(v) ==
  /\ pc[v] = "idle"
  /\ \E k \in Keys, e \in Envs :
       /\ e.db
       /\ key' = [key EXCEPT ![v] = k]
       /\ env' = [env EXCEPT ![v] = e]
  /\ Goto(v, "vRead", NoState)
  /\ UNCHANGED <<db, broker, known, faults>>

MatchRows(v) ==
  /\ pc[v] = "vRead" /\ todo[v] = {}
  /\ Goto(v, IF NoRun(key[v]) THEN "idle" ELSE "vStore", NoState)
  /\ UNCHANGED <<db, broker, request, faults>>

\* syncTradeFromVerification: store the ids, keep the state the update returns.
StoreVerification(v) ==
  LET k == key[v]
      Found(l) == \E r \in seen[v][l] : key[r] = k
  IN  /\ pc[v] = "vStore"
      /\ runs' = [runs EXCEPT ![k].ids = @
           \cup {i \in {"order"} : Found("orders") \/ Found("history")}
           \cup {i \in {"position"} : Found("positions") \/ Found("history")}]
      /\ Acknowledge(v, "vLog", runs[k].state)
      /\ UNCHANGED <<logged, broker, request>>

\* The event names the state just read as both from_state and to_state.
LogVerification(v) ==
  /\ pc[v] = "vLog"
  /\ Log(key[v], cur[v])
  /\ Acknowledge(v, After(v), NoState)
  /\ UNCHANGED <<runs, broker, request>>

(***************************************************************************)
(* POST api/tradelocker/close-position.  The row is tracked only if its    *)
(* position id was recorded; otherwise, or when the lookup fails, the      *)
(* position is closed untracked.                                           *)
(***************************************************************************)
AskClose(c) ==
  /\ pc[c] = "idle"
  /\ \E o \in Orders, e \in Envs :
       /\ broker[o] \in {"open", "final"} /\ e.kill = "off"
       /\ env' = [env EXCEPT ![c] = e]
       /\ LET tracked == e.db /\ "position" \in runs[key[o]].ids
              first(t) == IF ~ e.live THEN IF t THEN {"cDry"} ELSE {"idle"}
                          ELSE IF t THEN {"cRequest", "cPartial"} ELSE {"cDelete"}
          IN  \/ /\ key' = [key EXCEPT ![c] = IF tracked THEN key[o] ELSE NoKey]
                 /\ \E s \in first(tracked) : Goto(c, s, runs[key[o]].state)
                 /\ UNCHANGED faults
              \/ /\ e.db /\ faults < MaxFaults
                 /\ faults' = faults + 1
                 /\ key' = [key EXCEPT ![c] = NoKey]
                 /\ \E s \in first(FALSE) : Goto(c, s, NoState)
  /\ UNCHANGED <<db, broker, known>>

LogClose(c) ==
  /\ pc[c] \in CloseLogSteps
  /\ Log(key[c], cur[c])
  /\ Acknowledge(c, After(c), NoState)
  /\ UNCHANGED <<runs, broker, request>>

\* What the DELETE does to the position is a step of the broker.
DeletePosition(c) ==
  /\ pc[c] = "cDelete"
  /\ Goto(c, "cAwait", NoState)
  /\ UNCHANGED <<db, broker, request, faults>>

DeleteAnswers(c) ==
  /\ pc[c] = "cAwait"
  /\ \E s \in IF Tracked(c) THEN {"cStore", "unknown"} ELSE {"idle"} : Goto(c, s, NoState)
  /\ UNCHANGED <<db, broker, request, faults>>

StoreClose(c) ==
  /\ pc[c] = "cStore"
  /\ runs' = [runs EXCEPT ![key[c]].ids = @ \cup {"position"}]
  /\ Acknowledge(c, "cLog", runs[key[c]].state)
  /\ UNCHANGED <<logged, broker, request>>

(***************************************************************************)
(* Faults and the broker.                                                  *)
(***************************************************************************)
InDb(p) ==
  /\ Tracked(p)
  /\ pc[p] \in TransitionSteps \cup StoreSteps \cup CloseLogSteps \cup {"vStore", "vLog", "cStore"}

\* A statement fails before it takes effect.
QueryFails(p) ==
  /\ InDb(p)
  /\ faults < MaxFaults
  /\ faults' = faults + 1
  /\ Goto(p, OnThrow(p), NoState)
  /\ UNCHANGED <<db, broker, request>>

\* The instance dies or the client's connection is cut by the platform.
Crash(p) ==
  /\ pc[p] \notin {"idle", "done", "failed", "unsure", "crashed"}
  /\ faults < MaxFaults
  /\ faults' = faults + 1
  /\ Goto(p, IF p \in Orders THEN "crashed" ELSE "idle", NoState)
  /\ UNCHANGED <<db, broker, request>>

BrokerMoves ==
  \E r \in Orders :
    /\ \/ broker[r] = "wire" /\ \E s \in {"lost", "pending"} : broker' = [broker EXCEPT ![r] = s]
       \/ broker[r] = "pending" /\ \E s \in {"open", "final"} : broker' = [broker EXCEPT ![r] = s]
       \/ broker[r] = "open" /\ broker' = [broker EXCEPT ![r] = "final"]
    /\ UNCHANGED <<db, control, request, faults>>

Init ==
  /\ runs = [k \in Keys |-> NoRow]
  /\ logged = [k \in Keys |-> {}]
  /\ broker = [r \in Orders |-> "none"]
  /\ pc = [p \in Procs |-> "idle"]
  /\ ph = [p \in Procs |-> "read"]
  /\ cur = [p \in Procs |-> NoState]
  /\ todo = [p \in Procs |-> {}]
  /\ seen = [p \in Procs |-> [l \in Lists |-> {}]]
  /\ key = [p \in Procs |-> NoKey]
  /\ env = [p \in Procs |-> NoEnv]
  /\ known = [r \in Orders |-> FALSE]
  /\ faults = 0

Transition(p) == ReadState(p) \/ CasState(p) \/ LogTransition(p)

OrderStep(r) ==
  \/ Arrive(r) \/ CreateTradeRun(r) \/ LogCreated(r) \/ EvaluateRisk(r) \/ UpdateFromPreview(r)
  \/ DecideFirst(r) \/ DecideFinal(r) \/ PostOrder(r) \/ BrokerAnswers(r)
  \/ UpdateBrokerResponse(r)

VerifierStep(v) ==
  \/ AskVerification(v) \/ MatchRows(v) \/ StoreVerification(v) \/ LogVerification(v)

CloserStep(c) ==
  \/ AskClose(c) \/ LogClose(c) \/ DeletePosition(c) \/ DeleteAnswers(c) \/ StoreClose(c)

\* A step of one of the requests of P, or of the broker.
NextOf(P) ==
  \/ \E p \in P : Transition(p) \/ SkipTracking(p) \/ ReadList(p) \/ RecordErrorOnly(p)
  \/ \E r \in P \cap Orders : OrderStep(r)
  \/ \E v \in P \cap Verifiers : VerifierStep(v)
  \/ \E c \in P \cap Closers : CloserStep(c)
  \/ \E p \in P : ReadFails(p) \/ QueryFails(p) \/ Crash(p)
  \/ BrokerMoves

Next == NextOf(Procs)

Spec == Init /\ [][Next]_vars

(***************************************************************************)
(* Properties                                                              *)
(***************************************************************************)
Posted(k) == {r \in Orders : key[r] = k /\ broker[r] # "none"}
OpenFor(k) == \E r \in Orders : key[r] = k /\ broker[r] = "open"

\* Every variable keeps its shape, and every request is at a statement of its handler.
TypeOK ==
  /\ runs \in [Keys -> Row]
  /\ logged \in [Keys -> SUBSET States]
  /\ broker \in [Orders -> Stages]
  /\ pc \in [Procs -> UNION {OrderSteps, VerifierSteps, CloserSteps}]
  /\ \A p \in Procs : pc[p] \in StepsOf(p)
  /\ ph \in [Procs -> {"read", "cas", "log"}]
  /\ cur \in [Procs -> States \cup {NoState}]
  /\ todo \in [Procs -> SUBSET Lists]
  /\ seen \in [Procs -> [Lists -> SUBSET Orders]]
  /\ key \in [Procs -> Keys \cup {NoKey}]
  /\ env \in [Procs -> Environment]
  /\ known \in [Orders -> BOOLEAN]
  /\ faults \in 0..MaxFaults

\* However requests, retries, crashes and lost acknowledgements interleave, the
\* instances that have the database send at most one order per idempotency key
\* (route.js:53-75).
OncePerKey == \A k \in Keys : \A r, s \in {q \in Posted(k) : env[q].db} : r = s

\* Intent is durable before the order leaves: whatever is at the broker has a row
\* that is past ORDER_SUBMITTED, is not a dry run and keeps the risk preview that
\* approved it, also after a crash (route.js:253-280).
WriteAhead ==
  \A r \in Orders : broker[r] # "none" /\ env[r].db =>
    /\ runs[key[r]].state \in ExecutionStates
    /\ ~ runs[key[r]].dryRun
    /\ runs[key[r]].preview

\* No order leaves an instance that is in dry-run mode or whose kill switch is not
\* exactly "false", although the risk preview lets a garbled switch pass.
GuardsHold == \A r \in Orders : broker[r] # "none" => env[r].live /\ env[r].kill = "off"

\* Concurrent requests for one row never take it off the transition table: a
\* transition decided on a state that is no longer the row's is refused.
TransitionsAllowed ==
  [][\A k \in Keys : ~ NoRun(k) /\ runs[k].state # runs'[k].state =>
       <<runs[k].state, runs'[k].state>> \in Allowed]_runs

\* A request that reports a failed broker call left the error on its row, even when
\* a verification moved the row under it and the transition was refused.
FailureOnRecord ==
  \A r \in Orders : pc[r] = "unsure" /\ env[r].db /\ faults = 0 => runs[key[r]].error

\* The event history explains every row: once no writer is between its update and
\* its event, and no fault cut one off, the state of the row has been logged.
HistoryExplainsState ==
  \A k \in Keys :
    /\ ~ NoRun(k) /\ faults = 0
    /\ \A p \in Procs : key[p] = k => ph[p] # "log" /\ pc[p] # "created"
    => runs[k].state \in logged[k]

\* A row tells its story: once nobody is between its update and its event its state has
\* been logged, and a broker call that failed left its error, whoever moved the row
\* meanwhile (tradeState.js:385-432, 560-612).
RowTellsItsStory == HistoryExplainsState /\ FailureOnRecord

\* Without any database the broker lists alone stop a repeated order: if an order
\* with the same key was visible at the broker when the request arrived, the request
\* is not sent, although the order may move from list to list while they are read.
KnownOrderNotRepeated == \A r \in Orders : known[r] /\ faults = 0 => broker[r] = "none"

\* The gateway keeps the promise of OrderPromise where every instance has the
\* database: a row's state is the durable decision about its key.
FateOf(s) == CASE s = NoState -> "unseen"
               [] s \in EvaluationStates -> "evaluating"
               [] s \in ExecutionStates -> "committed"
               [] OTHER -> "refused"

Promise == INSTANCE OrderPromise WITH
  Requests <- Orders,
  fate <- [k \in Keys |-> FateOf(runs[k].state)],
  sent <- [k \in Keys |-> Posted(k)]

\* Register, refuse or commit, and only then send, at most once: every step of every
\* handler maps to a step of OrderPromise or to a stutter.
KeepsPromise == Promise!Spec

\* Exposure as README states it ("maximum open positions").
OpenPositionsBounded == Cardinality({r \in Orders : broker[r] = "open"}) <= MaxOpen

(***************************************************************************)
(* Liveness.  The verifiers are clients that keep polling; the code has no *)
(* job of its own that verifies a trade.  The broker settles what it got.  *)
(***************************************************************************)
VerifierActs(v) == VerifierStep(v) \/ Transition(v) \/ ReadList(v)

FairSpec == Spec /\ \A v \in Verifiers : WF_vars(VerifierActs(v))

\* A position the broker keeps open is recorded by verification, whatever happened
\* to the request that opened it: no crash, timeout or lost write strands the row
\* before POSITION_OPEN.  CLOSE_REQUESTED is left to the close route.
OpenPositionRecorded ==
  \A k \in Keys :
    OpenFor(k) ~> (~ OpenFor(k) \/ runs[k].state \in {"POSITION_OPEN", "CLOSE_REQUESTED"})

\* README's lifecycle: POSITION_CLOSED, then RECONCILED, end every executed trade.
ClosedPositionRecorded ==
  \A k \in Keys :
    (\E r \in Orders : key[r] = k /\ broker[r] = "final" /\ runs[k].state = "POSITION_OPEN")
      ~> runs[k].state \in {"POSITION_CLOSED", "RECONCILED"}
=============================================================================
