-------------------------------- MODULE Backtest --------------------------------
(***************************************************************************)
(* The replay engine (runBacktest of lib/backtest.js) as the validations   *)
(* run it (lib/forexValidation.js, lib/usdchfResearch.js): candles before  *)
(* the period only warm the indicators up.  A decision is judged by the    *)
(* guards on its own candle and filled at the next one's open.  One step   *)
(* is one iteration of the loop over the candles.                          *)
(*                                                                         *)
(* The strategy, what a fill is worth and whether its levels and its size  *)
(* are acceptable are drawn; a trade is its two candles and its result.    *)
(***************************************************************************)
EXTENDS Integers, Sequences, FiniteSets

CONSTANTS DayLength, WeekLength,     \* in candles, with nothing missing
          Steps,                     \* from one candle's time to the next one's
          FirstTime, LastTime,       \* of the first candle; bound on the last one's
          PeriodStart,               \* the first time at which the strategy is heard
          StartingBalance,
          Results,                   \* what a trade can bring
          maxDailyTrades, dailyLossPercent, weeklyLossPercent,
          stopAfterLosses, cooldownBars,
          HigherLength               \* candles in one of the higher timeframe

ASSUME TimesAssumption ==
  /\ {DayLength, WeekLength, HigherLength} \subseteq Nat \ {0}
  /\ Steps \subseteq Nat \ {0} /\ {FirstTime, LastTime, PeriodStart} \subseteq Nat

ASSUME GuardsAssumption ==
  /\ {maxDailyTrades, dailyLossPercent, weeklyLossPercent, stopAfterLosses} \subseteq Nat \ {0}
  /\ cooldownBars \in Nat \ {0} /\ StartingBalance \in Nat \ {0} /\ Results \subseteq Int

VARIABLES time,        \* of the last candle
          bar,         \* of the last candle
          open,        \* the open position: the bar and the time of its entry
          pending,     \* whether a decision waits for the next open
          trades,      \* the finished trades
          skips,       \* why the last decision was skipped
          bucket,      \* the higher candle that is being gathered, by its start
          higher,      \* the last completed one
          ended        \* the data is over

backtestVars == <<time, bar, open, pending, trades, skips, bucket, higher, ended>>

NoTime == -1
NoEntry == [entryIndex |-> -1, entryTime |-> -1]
\* utcDayKey and utcWeekKey, by the length of the period.
Key(length, t) == t \div length

(***************************************************************************)
(* evaluateTradeGuard.  Trades count for the day and week they began in.   *)
(***************************************************************************)
Total(numbers) ==
  LET upTo[k \in 0..Len(numbers)] == IF k = 0 THEN 0 ELSE upTo[k - 1] + numbers[k]
  IN  upTo[Len(numbers)]

Pnl(ts, S) == Total([k \in 1..Len(ts) |-> IF k \in S THEN ts[k].pnl ELSE 0])

\* The trades that began in the period of t, by their places.
Of(length, ts, t) == {k \in 1..Len(ts) : Key(length, ts[k].entryTime) = Key(length, t)}

\* startingEquityForPeriod: up to the first trade of the period.
EquityBefore(length, ts, t) ==
  StartingBalance + Pnl(ts, {k \in 1..Len(ts) : \A j \in 1..k : j \notin Of(length, ts, t)})

LossReached(length, percent, ts, t) ==
  /\ EquityBefore(length, ts, t) > 0
  /\ 100 * Pnl(ts, Of(length, ts, t)) <= -(percent * EquityBefore(length, ts, t))

consecutiveLossesToday(ts, t) ==
  Cardinality({k \in 1..Len(ts) : \A j \in k..Len(ts) : j \in Of(DayLength, ts, t) /\ ts[j].pnl < 0})

\* Variant of DailyTradesReached: one trade too many.
DailyTradesExceeded(ts, t) == Cardinality(Of(DayLength, ts, t)) > maxDailyTrades

DailyTradesReached(ts, t) == Cardinality(Of(DayLength, ts, t)) >= maxDailyTrades

\* The reasons why a decision on the candle i of time t is skipped.
evaluateTradeGuard(ts, i, t) ==
  {r \in {"MAX_DAILY_TRADES"} : DailyTradesReached(ts, t)} \cup
  {r \in {"DAILY_LOSS_LIMIT"} : LossReached(DayLength, dailyLossPercent, ts, t)} \cup
  {r \in {"WEEKLY_LOSS_LIMIT"} : LossReached(WeekLength, weeklyLossPercent, ts, t)} \cup
  {r \in {"CONSECUTIVE_LOSS_LIMIT"} : consecutiveLossesToday(ts, t) >= stopAfterLosses} \cup
  {r \in {"POST_TRADE_COOLDOWN"} : ts # <<>> /\ i - ts[Len(ts)].exitIndex <= cooldownBars}

(***************************************************************************)
(* One candle.                                                             *)
(***************************************************************************)
Trade(p, i, pnl) ==
  [entryIndex |-> p.entryIndex, entryTime |-> p.entryTime, exitIndex |-> i, pnl |-> pnl]

EquityAfter(ts) == StartingBalance + Pnl(ts, 1..Len(ts))

\* createPosition for the decision of the candle before: its levels or its size may be
\* refused, and its size is where nothing is left; it is not kept for another candle.
Filled(i, t, accepted) ==
  IF pending /\ open = NoEntry /\ accepted /\ EquityAfter(trades) > 0 THEN [entryIndex |-> i, entryTime |-> t] ELSE open

\* createCompletedTimeframeAggregator: a higher candle is complete when the first
\* candle of another one comes.
bucketStart(t) == (t \div HigherLength) * HigherLength
Aggregate(t) ==
  /\ bucket' = bucketStart(t)
  /\ higher' = IF bucket \notin {NoTime, bucketStart(t)} THEN bucket ELSE higher

\* The strategy answers HOLD before the period.
Decisions(t) == IF t < PeriodStart THEN {"HOLD"} ELSE {"HOLD", "ENTER"}

\* The strategy's decision, once the candle has done what it does to position p.
Decide(p, ts, i, t, decision) ==
  \E reasons \in {IF decision = "HOLD" \/ p # NoEntry THEN {} ELSE evaluateTradeGuard(ts, i, t)} :
    /\ pending' = (decision # "HOLD" /\ p = NoEntry /\ reasons = {})
    /\ skips' = reasons

ReplayCandle(t, accepted, exits, decision) ==
  /\ ~ended
  /\ time' = t /\ bar' = bar + 1
  /\ \E p \in {Filled(bar + 1, t, accepted)} :
       IF p = NoEntry \/ exits = {}
       THEN /\ open' = p /\ UNCHANGED trades
            /\ Decide(p, trades, bar + 1, t, decision)
       ELSE \E pnl \in exits : \E ts \in {Append(trades, Trade(p, bar + 1, pnl))} :
            /\ open' = NoEntry /\ trades' = ts
            /\ Decide(NoEntry, ts, bar + 1, t, decision)
  /\ Aggregate(t)
  /\ UNCHANGED ended

\* END_OF_DATA: an open position is closed at the last candle, a decision is dropped.
EndOfData ==
  /\ ~ended /\ bar >= 1 /\ ended' = TRUE
  /\ IF open = NoEntry THEN UNCHANGED trades
     ELSE \E pnl \in Results : trades' = Append(trades, Trade(open, bar, pnl))
  /\ open' = NoEntry /\ pending' = FALSE
  /\ UNCHANGED <<time, bar, skips, bucket, higher>>

BacktestInit ==
  /\ time = NoTime /\ bar = -1 /\ open = NoEntry /\ pending = FALSE
  /\ trades = <<>> /\ skips = {} /\ bucket = NoTime /\ higher = NoTime /\ ended = FALSE

BacktestNext ==
  \/ \E t \in IF time = NoTime THEN {FirstTime} ELSE {time + s : s \in Steps} :
       /\ t <= LastTime
       /\ \E accepted \in BOOLEAN, decision \in Decisions(t) :
          \E exits \in {{}} \cup {{r} : r \in Results} : ReplayCandle(t, accepted, exits, decision)
  \/ EndOfData

BacktestSpec == BacktestInit /\ [][BacktestNext]_backtestVars

(***************************************************************************)
(* Properties.                                                             *)
(***************************************************************************)
BacktestTypeOK ==
  /\ time \in {NoTime} \cup FirstTime..LastTime /\ bar \in -1..LastTime
  /\ \A k \in 1..Len(trades) : trades[k].pnl \in Results /\ trades[k].entryIndex <= trades[k].exitIndex
  /\ pending => open = NoEntry
  /\ higher # NoTime => higher + HigherLength <= bucket

Entries == trades \o (IF open = NoEntry THEN <<>> ELSE <<Trade(open, bar, 0)>>)

\* The trades before e, the last of their day and week, leave room for it.
KeepsLimits(before, e) ==
  LET places == 1..Len(before)
      today == Of(DayLength, before, e.entryTime)
      thisWeek == Of(WeekLength, before, e.entryTime)
      Lost(S, percent) ==
        -100 * Pnl(before, S) >= percent * (StartingBalance + Pnl(before, places \ S))
  IN /\ e.entryTime > PeriodStart
     /\ Cardinality(today) < maxDailyTrades
     /\ ~Lost(today, dailyLossPercent) /\ ~Lost(thisWeek, weeklyLossPercent)
     /\ ~ \E j \in today : Len(before) - j + 1 >= stopAfterLosses /\ \A n \in j..Len(before) : before[n].pnl < 0
     /\ before # <<>> => e.entryIndex - before[Len(before)].exitIndex > cooldownBars + 1

\* Every trade keeps the limits of the day and the week it is entered in, and comes after
\* the warm-up, although the guards were asked a candle before, when it may have been
\* another day: no trade comes after its day's number, losses or losing streak have
\* reached a limit, or sooner after another trade than the cooldown (backtest.js:220-333).
EntriesKeepLimits ==
  \A k \in 1..Len(Entries) : KeepsLimits(SubSeq(Entries, 1, k - 1), Entries[k])
================================================================================
