------------------------------ MODULE ShadowLedger ------------------------------
(***************************************************************************)
(* The shadow scanners: requests that look at the completed candles, write *)
(* their verdict into signal_observations (lib/db.js) and keep a ledger of *)
(* virtual trades (lib/shadowVirtualTrades.js).  Every statement of a scan *)
(* is a step of its own.  The cron's scans are a quarter of an hour apart  *)
(* and cut off after two minutes, but a scan asked for by hand may overlap *)
(* the cron's.                                                             *)
(*                                                                         *)
(* Time is counted in candles.  What a candle does is drawn when it prints:*)
(* it may open beyond the stop, touch the stop first or the target only,   *)
(* do neither, or be missing at the broker.  Prices are left out, so it    *)
(* does the same to every trade that is on.                                *)
(***************************************************************************)
EXTENDS Integers, FiniteSets, Sequences

CONSTANTS Kinds,         \* the routes that are looked at
          Effects,       \* what a candle may do
          Horizon,       \* how many candles print
          Extras         \* how often a scan is asked for by hand, or one is cut off

ASSUME KindsAssumption == Kinds \subseteq {"m15", "v2", "soft", "structure", "breakout"}
ASSUME EffectsAssumption == Effects \subseteq {"missing", "gap", "quiet", "stop", "target"}
ASSUME HorizonAssumption == Horizon \in Nat /\ Extras \in Nat

VARIABLES kind,          \* the route, and with it the strategy, of this behaviour
          market,        \* what each candle printed so far does to a trade
          obs,           \* signal_observations: the row of each candle
          trades,        \* shadow_virtual_trades: the row of each signal time
          scan,          \* the request being served for the cron and by hand
          handScans, ledgerFaults  \* how many so far

ledgerVars == <<kind, market, obs, trades, scan, handScans, ledgerFaults>>

Scans == {"cron", "hand"}
Times == 1..Horizon
NoTrade == [state |-> "NONE", entered |-> 0, last |-> 0, outcome |-> "NONE"]
NewTrade == [NoTrade EXCEPT !.state = "PENDING_ENTRY"]
NoObservation == [by |-> "nobody", fresh |-> FALSE]
Idle == [at |-> "idle", candle |-> 0, asOf |-> 0, want |-> FALSE, rows |-> <<>>]

Least(S) == CHOOSE t \in S : \A u \in S : t <= u
Greatest(S) == CHOOSE t \in S : \A u \in S : t >= u

(***************************************************************************)
(* evaluateVirtualTradeCandles: a pending trade is entered at the open of  *)
(* the candle after its signal and at no other; an open one ends at the    *)
(* first candle that touches its stop or its target, the stop first.       *)
(***************************************************************************)
Printed(from, to) == {t \in from..to : market[t] # "missing"}
Decisive(t) == market[t] \in {"gap", "stop", "target"}

Follow(row, candles) ==
  LET ends == {t \in candles : t > row.last /\ Decisive(t)}
  IN IF ends # {}
     THEN [row EXCEPT !.state = "CLOSED", !.last = Least(ends),
             !.outcome = IF market[Least(ends)] = "target" THEN "TARGET" ELSE "STOP"]
     ELSE [row EXCEPT !.last = Greatest({row.last} \cup candles)]

\* Variant of Enter: a trade whose entry candle is missing waits for it.
EnterWaits(s, row, candles) ==
  LET later == {t \in candles : t > s}
  IN CASE s + 1 \notin later -> row
       [] s + 1 \in later /\ market[s + 1] = "gap" ->
            [row EXCEPT !.state = "SKIPPED", !.outcome = "ENTRY_GAP_INVALIDATED",
                        !.entered = s + 1, !.last = s + 1]
       [] OTHER -> Follow([row EXCEPT !.state = "OPEN", !.entered = s + 1], later)

Enter(s, row, candles) ==
  LET later == {t \in candles : t > s}
  IN CASE later = {} -> row
       [] later # {} /\ Least(later) > s + 1 ->
            [row EXCEPT !.state = "SKIPPED", !.outcome = "MISSING_ENTRY_BAR"]
       [] later # {} /\ Least(later) = s + 1 /\ market[s + 1] = "gap" ->
            [row EXCEPT !.state = "SKIPPED", !.outcome = "ENTRY_GAP_INVALIDATED",
                        !.entered = s + 1, !.last = s + 1]
       [] OTHER -> Follow([row EXCEPT !.state = "OPEN", !.entered = s + 1], later)

Evaluate(s, row, candles) ==
  IF row.state = "PENDING_ENTRY" THEN Enter(s, row, candles) ELSE Follow(row, candles)

(***************************************************************************)
(* The statements on the two tables.                                       *)
(***************************************************************************)
Active == {s \in Times : trades[s].state \in {"PENDING_ENTRY", "OPEN"}}

\* Variant of Saved: the upsert without its WHERE clause.
SavedAlways(s, row) == [obs EXCEPT ![s] = row]

Saved(s, row) ==
  IF obs[s].fresh /\ ~row.fresh THEN obs ELSE [obs EXCEPT ![s] = row]

\* Where the candles of one reconciliation begin: behind the last one that the
\* trade which is furthest behind has been through.
Behind(s) == IF trades[s].state = "PENDING_ENTRY" THEN s + 1 ELSE trades[s].last + 1

\* Variant of From: from the trade that is furthest ahead.
FromLatest(active) == Greatest({Behind(s) : s \in active})

From(active) == Least({Behind(s) : s \in active})

(***************************************************************************)
(* A scan.                                                                 *)
(***************************************************************************)
\* Variant of V2Route: the row that scanForexSignal stores is left as it is.
V2RouteRaw == <<"raw", "active", "capture">>

\* Variant of SoftRoute: the trade is captured before the verdict is stored.
SoftRouteCaptures == <<"active", "capture", "record">>

\* What the routes await, in their order.  "raw" is the verdict that scanForexSignal
\* stores itself, "record" the route's own, "active" the reconciliation.
M15Route == <<"raw">>
V2Route == <<"raw", "record", "active", "capture">>
SoftRoute == <<"active", "record", "capture">>
StructureRoute == <<"record">>
BreakoutRoute == <<"record">>

Route ==
  CASE kind = "m15" -> M15Route [] kind = "v2" -> V2Route [] kind = "soft" -> SoftRoute
    [] kind = "structure" -> StructureRoute [] OTHER -> BreakoutRoute

After(step) ==
  LET n == CHOOSE i \in DOMAIN Route : Route[i] = step
  IN IF n = Len(Route) THEN "idle" ELSE Route[n + 1]

Hourly == kind \in {"structure", "breakout"}
HasFreshness == kind = "soft" \/ Hourly
KeepsTrades == kind \in {"v2", "soft"}

Move(p, step) ==
  scan' = [scan EXCEPT ![p] = IF step = "idle" THEN Idle ELSE [@ EXCEPT !.at = step]]

\* A candle completes, or the broker has none for its time.  No scan outlives the
\* candle in which it began and the next one.
Publish(effect) ==
  /\ Len(market) < Horizon
  /\ \A p \in Scans : scan[p].at # "idle" => scan[p].asOf = Len(market)
  /\ market' = Append(market, effect)
  /\ UNCHANGED <<kind, obs, trades, scan, handScans, ledgerFaults>>

\* An hour has four candles in the code and two here.
HourCandles == 2

\* Variant of SignalBars: the candle that is still open counts as well.
OpenBarToo(asOf) == 1..(asOf + 1)

\* The candles a signal can be about: every one that the broker has, or for the
\* hourly strategies (completedH1) the last one of an hour that is complete.
SignalBars(asOf) ==
  IF ~Hourly THEN Printed(1, asOf)
  ELSE {t \in 1..asOf : t % HourCandles = 0 /\ (t - HourCandles + 1)..t \subseteq Printed(1, asOf)}

\* A scan begins: its candle is the latest, its time the clock's.  It wants a
\* trade if its verdict is SIGNAL_READY within the risk budget; a verdict reached
\* outside the entry window of its candle is not, and the live spread makes the
\* verdicts of two scans of one candle differ.
BeginScan(p, want) ==
  LET asOf == Len(market)
      candle == Greatest(SignalBars(asOf))
  IN /\ scan[p].at = "idle"
     /\ SignalBars(asOf) # {}
     /\ want => KeepsTrades /\ (HasFreshness => candle = asOf)
     /\ scan' = [scan EXCEPT ![p] = [at |-> Route[1], candle |-> candle, asOf |-> asOf,
                                     want |-> want, rows |-> <<>>]]
     /\ p = "hand" => handScans + ledgerFaults < Extras
     /\ handScans' = IF p = "hand" THEN handScans + 1 ELSE handScans
     /\ UNCHANGED <<kind, market, obs, trades, ledgerFaults>>

\* scanForexSignal stores its own verdict before its caller has seen it.
RecordRaw(p) ==
  /\ scan[p].at = "raw"
  /\ obs' = Saved(scan[p].candle, [by |-> "raw", fresh |-> FALSE])
  /\ Move(p, After("raw"))
  /\ UNCHANGED <<kind, market, trades, handScans, ledgerFaults>>

\* The route stores the verdict it answers with.
Record(p) ==
  LET fresh == HasFreshness /\ scan[p].candle = scan[p].asOf
  IN /\ scan[p].at = "record"
     /\ obs' = Saved(scan[p].candle, [by |-> "route", fresh |-> fresh])
     /\ Move(p, After("record"))
     /\ UNCHANGED <<kind, market, trades, handScans, ledgerFaults>>

\* The one candle behind the trades is all there is to read.
OneToRead(p) == Active # {} /\ scan[p].candle = From(Active)

\* reconcileVirtualTrades reads the active trades and evaluates each of them on
\* the candles of one request.  There may be nothing to do.
ReadActive(p) ==
  LET candles == Printed(From(Active), scan[p].candle)
      work == Active # {} /\ scan[p].candle >= From(Active)
  IN /\ scan[p].at = "active" /\ ~OneToRead(p)
     /\ scan' = [scan EXCEPT ![p].at = IF work THEN "update" ELSE After("active"),
                      ![p].rows = IF work THEN [s \in Active |-> Evaluate(s, trades[s], candles)] ELSE <<>>]
     /\ UNCHANGED <<kind, market, obs, trades, handScans, ledgerFaults>>

\* fetchTradeLockerHistory refuses the empty span of one candle, and the scan ends.
SpanRefused(p) ==
  /\ scan[p].at = "active" /\ OneToRead(p)
  /\ Move(p, "idle")
  /\ UNCHANGED <<kind, market, obs, trades, handScans, ledgerFaults>>

\* One UPDATE per trade, written over whatever the row holds by now.
Update(p) ==
  LET rows == scan[p].rows
      s == Least(DOMAIN rows)
      rest == [u \in DOMAIN rows \ {s} |-> rows[u]]
  IN /\ scan[p].at = "update"
     /\ trades' = [trades EXCEPT ![s] = rows[s]]
     /\ scan' = [scan EXCEPT ![p].rows = rest,
                             ![p].at = IF DOMAIN rest = {} THEN After("active") ELSE "update"]
     /\ UNCHANGED <<kind, market, obs, handScans, ledgerFaults>>

\* captureVirtualSignal looks for an active trade ...
FindActive(p) ==
  /\ scan[p].at = "capture"
  /\ Move(p, IF scan[p].want /\ Active = {} THEN "insert" ELSE "idle")
  /\ UNCHANGED <<kind, market, obs, trades, handScans, ledgerFaults>>

\* ... and inserts its own unless its signal time is there already.
Insert(p) ==
  LET s == scan[p].candle
  IN /\ scan[p].at = "insert"
     /\ trades' = [trades EXCEPT ![s] = IF @ = NoTrade THEN NewTrade ELSE @]
     /\ Move(p, "idle")
     /\ UNCHANGED <<kind, market, obs, handScans, ledgerFaults>>

\* A statement or a broker call throws, or the instance is cut off: nothing of
\* the rest of the handler runs.
ScanFails(p) ==
  /\ scan[p].at # "idle"
  /\ handScans + ledgerFaults < Extras
  /\ ledgerFaults' = ledgerFaults + 1
  /\ Move(p, "idle")
  /\ UNCHANGED <<kind, market, obs, trades, handScans>>

LedgerInit ==
  /\ kind \in Kinds
  /\ market = <<>>
  /\ obs = [s \in Times |-> NoObservation]
  /\ trades = [s \in Times |-> NoTrade]
  /\ scan = [p \in Scans |-> Idle]
  /\ handScans = 0
  /\ ledgerFaults = 0

ScanStep(p) ==
  \/ RecordRaw(p)
  \/ Record(p)
  \/ ReadActive(p)
  \/ SpanRefused(p)
  \/ Update(p)
  \/ FindActive(p)
  \/ Insert(p)

ScanBegins(p) == \E want \in BOOLEAN : BeginScan(p, want)

LedgerNext ==
  \/ \E effect \in Effects : Publish(effect)
  \/ \E p \in Scans : ScanBegins(p) \/ ScanStep(p) \/ ScanFails(p)

LedgerSpec == LedgerInit /\ [][LedgerNext]_ledgerVars

LedgerFairness ==
  WF_ledgerVars(ScanBegins("cron")) /\ \A p \in Scans : WF_ledgerVars(ScanStep(p))

(***************************************************************************)
(* Properties.                                                             *)
(***************************************************************************)
LedgerStates == {"NONE", "PENDING_ENTRY", "OPEN", "CLOSED", "SKIPPED"}
LedgerOutcomes == {"NONE", "STOP", "TARGET", "MISSING_ENTRY_BAR", "ENTRY_GAP_INVALIDATED"}
TradeRow == [state : LedgerStates, entered : 0..Horizon, last : 0..Horizon, outcome : LedgerOutcomes]
ScanSteps == {"idle", "raw", "record", "active", "update", "capture", "insert"}

\* The tables and the requests hold what their columns and locals can.
LedgerTypeOK ==
  /\ kind \in Kinds
  /\ market \in Seq(Effects) /\ Len(market) <= Horizon
  /\ trades \in [Times -> TradeRow]
  /\ \A s \in Times : obs[s] \in [by : {"nobody", "raw", "route"}, fresh : BOOLEAN]
  /\ \A p \in Scans :
       /\ scan[p].at \in ScanSteps
       /\ {scan[p].candle, scan[p].asOf} \subseteq 0..Len(market)
       /\ DOMAIN scan[p].rows \subseteq Times
       /\ \A s \in DOMAIN scan[p].rows : scan[p].rows[s] \in TradeRow
  /\ handScans \in Nat /\ ledgerFaults \in Nat /\ handScans + ledgerFaults <= Extras

\* Whatever scans overlap and wherever they are cut off, a row of the ledger is
\* always what one uninterrupted look at all the candles up to some past moment
\* gives: none is skipped and no entry or exit is invented.  (An UPDATE computed
\* from an old copy may still put a row back to an earlier moment.)
RowIsEvaluation ==
  \A s \in Times : trades[s] # NoTrade =>
    \E t \in 0..Len(market) : trades[s] = Evaluate(s, NewTrade, Printed(s + 1, t))

\* The observation on record is the one that must stay, whatever scans overlap: that of
\* a captured soft-regime signal says that it was seen in its entry window, and no later
\* scan of the same candle takes that back (db.js); and when no scan of the V2 strategy is
\* running and none was cut off, it is the verdict with the V2 gate applied, though each
\* scan stores the verdict without it first.
RightVerdictStays ==
  /\ \A s \in Times : kind = "soft" /\ trades[s] # NoTrade => obs[s].fresh
  /\ kind = "v2" /\ ledgerFaults = 0 /\ (\A p \in Scans : scan[p].at = "idle")
       => \A s \in Times : obs[s].by # "raw"

\* A trade that the candles have decided does not stay active once a later candle has
\* come: while scans keep coming, a row that an old copy brought back is settled again,
\* though a scan that has one candle to read settles nothing
\* (shadowVirtualTrades.js:153-194, marketData.js:139-141).
DecidedTradesEnd ==
  \A s \in 1..(Horizon - 2) :
    (s \in Active /\ \E t, u \in Printed(s + 1, Len(market)) : t < u /\ Decisive(t)) ~> (s \notin Active)
================================================================================
