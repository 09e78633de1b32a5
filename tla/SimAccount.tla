------------------------------- MODULE SimAccount -------------------------------
(***************************************************************************)
(* The simulated account of one strategy replayed over a dataset           *)
(* (lib/xmi-sim/execution.mjs): a confirmed signal is filled at the next   *)
(* candle's open, the position pays costs and financing and ends at its    *)
(* stop, its target, after its time, against a signal, or because the      *)
(* account has lost too much, which also pauses the account.  One step is  *)
(* one call of processBar.                                                 *)
(*                                                                         *)
(* Money and prices are integers in one unit, for a pair quoted in the     *)
(* account's currency.  How many units the risk budget and the margin      *)
(* allow (sizePosition) is drawn, and so are the nights between candles.   *)
(***************************************************************************)
EXTENDS Integers

CONSTANTS Bars,              \* candles: [open, high, low, close]
          LastBarIndex,      \* bound on the candles of a dataset
          InitialBalance,
          AskOver, BidUnder, \* quoteOffset: what buying and selling cost against the candle
          Slip, Fee, Rate,   \* slippage; commission and a night's financing, per unit
          LossDenominator,   \* the account pauses at a drawdown of 1/LossDenominator
          MarginOf,          \* margin of one unit, after the liquidation ratio
          StopDistance, TargetDistance, MaxHold,
          RiskRules          \* [partialAt, breakeven, trailing], 0 for none

ASSUME MoneyAssumption ==
  /\ {InitialBalance, AskOver, BidUnder, Slip, Fee, Rate, MarginOf, MaxHold} \subseteq Nat
  /\ {LossDenominator, StopDistance, TargetDistance} \subseteq Nat \ {0}
  /\ RiskRules \subseteq [partialAt : Nat, breakeven : Nat, trailing : Nat]

ASSUME BarsAssumption ==
  /\ Bars \subseteq [open : Int, high : Int, low : Int, close : Int]
  /\ \A b \in Bars : /\ b.low <= b.open /\ b.low <= b.close
                     /\ b.open <= b.high /\ b.close <= b.high

VARIABLES account,           \* balance, peakEquity, drawdown, position, pending, trades, status
          rules,             \* the strategy version's risk rules
          candle             \* how many candles were processed; None once replay is finished

accountVars == <<account, rules, candle>>

Finished == -1
Signals == {-1, 0, 1}        \* SHORT, no signal, LONG
Flat == [sign |-> 0, entry |-> 0, stop |-> 0, target |-> 0, units |-> 0, held |-> 0,
         gross |-> 0, costs |-> 0, partialDone |-> FALSE]
Lower(a, b) == IF a < b THEN a ELSE b
Higher(a, b) == IF a > b THEN a ELSE b
\* The better of two stops for a position on this side.
Tighter(sign, a, b) == IF sign = 1 THEN Higher(a, b) ELSE Lower(a, b)

createAccount ==
  [balance |-> InitialBalance, peak |-> InitialBalance, breached |-> FALSE, position |-> Flat,
   pending |-> 0, net |-> 0, trades |-> 0, status |-> "ACTIVE"]

(***************************************************************************)
(* The account's parts of a candle, each a function of the account.        *)
(***************************************************************************)
quoteOffset(side) == IF side > 0 THEN AskOver ELSE -BidUnder

\* What the position's units bring when they are sold at this price of the candle.
Equity(a, reference) ==
  LET p == a.position
      executable == reference + quoteOffset(-p.sign) - p.sign * Slip
  IN IF p.sign = 0 THEN a.balance
     ELSE a.balance + (executable - p.entry) * p.sign * p.units - p.units * Fee

\* mark: maxDrawdown is a maximum, so a breach of the limit stays one.
mark(a, reference) ==
  LET equity == Equity(a, reference)
      peak == Higher(a.peak, equity)
  IN [a EXCEPT !.peak = peak, !.breached = @ \/ LossDenominator * (peak - equity) >= peak]

opened(a, open, units) ==
  LET sign == a.pending
      fill == open + quoteOffset(sign) + sign * Slip
  IN IF units = 0 THEN [a EXCEPT !.pending = 0]                       \* ORDER_REJECTED
     ELSE [a EXCEPT !.pending = 0, !.balance = @ - units * Fee,
             !.position = [Flat EXCEPT !.sign = sign, !.entry = fill, !.units = units,
                             !.stop = fill - sign * StopDistance,
                             !.target = fill + sign * TargetDistance, !.costs = units * Fee]]

\* Variant of financing: the charge is not one of the position's costs.
financingUnbooked(a, nights) ==
  [a EXCEPT !.balance = @ - nights * Rate * a.position.units]

financing(a, nights) ==
  LET charge == nights * Rate * a.position.units
  IN [a EXCEPT !.balance = @ - charge, !.position.costs = @ + charge]

closeUnits(a, price, units) ==
  LET p == a.position
      gross == (price - p.entry) * p.sign * units
      q == [p EXCEPT !.gross = @ + gross, !.costs = @ + units * Fee, !.units = @ - units,
                     !.partialDone = TRUE]
      paid == [a EXCEPT !.balance = @ + gross - units * Fee]
  IN IF q.units > 0 THEN [paid EXCEPT !.position = q]
     ELSE [paid EXCEPT !.position = Flat, !.net = @ + q.gross - q.costs, !.trades = @ + 1]

closeAll(a, price) == closeUnits(a, price, a.position.units)
Paused(a) == [a EXCEPT !.status = "PAUSED"]

\* Variant of TooMuchLost: the drawdown is left to the end of the candle.
OnlyMarginLost(a, reference) == Equity(a, reference) <= a.position.units * MarginOf

\* MARGIN_LIQUIDATION or HARD_DRAWDOWN_PAUSE.
TooMuchLost(a, reference) ==
  a.breached \/ Equity(a, reference) <= a.position.units * MarginOf

\* At the end of a candle that it survives the position may be halved, and its stop may
\* be moved for the candles to come.
Managed(a, close) ==
  LET p == a.position
      price == close + quoteOffset(-p.sign)
      favorable == (price - p.entry) * p.sign
      half == p.units \div 2
      b == IF /\ rules.partialAt > 0 /\ ~p.partialDone
              /\ favorable >= StopDistance * rules.partialAt /\ half > 0
           THEN closeUnits(a, price - p.sign * Slip, half) ELSE a
      even == IF rules.breakeven > 0 /\ favorable >= StopDistance * rules.breakeven
              THEN Tighter(p.sign, p.stop, p.entry) ELSE p.stop
      trailed == IF rules.trailing > 0
                 THEN Tighter(p.sign, even, price - p.sign * rules.trailing) ELSE even
  IN [b EXCEPT !.position.stop = trailed]

(***************************************************************************)
(* processBar for an open position.                                        *)
(***************************************************************************)
Held(a, bar, nights) == LET b == financing(a, nights) IN [b EXCEPT !.position.held = @ + 1]

\* Whether this side of the candle reaches the stop, or the target.
StopHit(p, bar) ==
  IF p.sign = 1 THEN bar.low + quoteOffset(-1) <= p.stop ELSE bar.high + quoteOffset(1) >= p.stop
TargetHit(p, bar) ==
  IF p.sign = 1 THEN bar.high + quoteOffset(-1) >= p.target ELSE bar.low + quoteOffset(1) <= p.target

\* The worst price of the candle that the position sees: its stop, unless a gap passes it.
Adverse(p, bar) ==
  LET offset == quoteOffset(-p.sign)
  IN IF StopHit(p, bar) THEN (IF p.sign = 1 THEN Lower(p.stop, bar.open + offset)
                                            ELSE Higher(p.stop, bar.open + offset))
     ELSE IF p.sign = 1 THEN bar.low + offset ELSE bar.high + offset

\* The account after the candle has done to its position what it does; m is the account
\* marked at the worst price.
Worked(m, bar, signal) ==
  LET p == m.position
      adverse == Adverse(p, bar)
      offset == quoteOffset(-p.sign)
      close == bar.close + offset - p.sign * Slip
  IN IF ~StopHit(p, bar) /\ TooMuchLost(m, adverse - offset)
     THEN Paused(closeAll(m, adverse - p.sign * Slip))
     ELSE IF StopHit(p, bar) THEN closeAll(m, adverse - p.sign * Slip)
     ELSE IF TargetHit(p, bar) THEN closeAll(m, p.target)
     ELSE IF p.held >= MaxHold \/ signal \notin {0, p.sign} THEN closeAll(m, close)
     ELSE Managed(m, bar.close)

WithPosition(a, bar, signal, nights) ==
  LET h == Held(a, bar, nights)
  IN Worked(mark(h, Adverse(h.position, bar) - quoteOffset(-h.position.sign)), bar, signal)

(***************************************************************************)
(* processBar and finishReplay.                                            *)
(***************************************************************************)
\* The last statements: the mark at the close, the pause, and the signal's order.
acceptSignal(a, signal) ==
  IF signal # 0 /\ a.status = "ACTIVE" /\ a.position = Flat /\ a.pending = 0
  THEN [a EXCEPT !.pending = signal] ELSE a

Closed(a, bar, signal) ==
  LET m == mark(a, bar.close)
      b == IF m.breached THEN [Paused(m) EXCEPT !.pending = 0] ELSE m
  IN acceptSignal(b, signal)

processBar(bar, signal, units, nights) ==
  /\ candle \in 0..(LastBarIndex - 1)
  /\ candle' = candle + 1
  /\ account' =
       IF account.status # "ACTIVE" THEN account
       ELSE LET a == IF account.pending = 0 THEN account ELSE opened(account, bar.open, units)
                b == IF a.position = Flat THEN a ELSE WithPosition(a, bar, signal, nights)
            IN Closed(b, bar, signal)
  /\ UNCHANGED rules

finishReplay(bar) ==
  /\ candle # Finished /\ candle' = Finished
  /\ LET p == account.position
         price == bar.close + quoteOffset(-p.sign) - p.sign * Slip
     IN account' = mark([(IF p = Flat THEN account ELSE closeAll(account, price))
                           EXCEPT !.pending = 0], bar.close)
  /\ UNCHANGED rules

AccountInit ==
  /\ account = createAccount
  /\ rules \in RiskRules
  /\ candle = 0

AccountNext ==
  \/ \E bar \in Bars, signal \in Signals, nights \in {0, 1, 3} :
       \E units \in IF account.pending = 0 THEN {0} ELSE 0..2 :
         /\ account.position = Flat /\ units = 0 => nights = 0
         /\ processBar(bar, signal, units, nights)
  \/ \E bar \in Bars : finishReplay(bar)

AccountSpec == AccountInit /\ [][AccountNext]_accountVars

(***************************************************************************)
(* Properties.                                                             *)
(***************************************************************************)
AccountTypeOK ==
  /\ candle \in Finished..LastBarIndex /\ rules \in RiskRules
  /\ account.status \in {"ACTIVE", "PAUSED"} /\ account.pending \in Signals
  /\ account.position = Flat \/ (account.position.sign \in {-1, 1} /\ account.position.units > 0)
  /\ account.pending # 0 => account.position = Flat

\* The balance is the initial one and the results of the trades, and while a position is
\* open what it has cost and brought so far, although every fee, financing, part and
\* exit is booked to the balance and to the position on its own (reconcile).
AccountReconciles ==
  account.balance = InitialBalance + account.net + account.position.gross - account.position.costs

\* A paused account takes no candle any more, so it has neither a position, which
\* nothing would close, nor an order: the drawdown at the close cannot be the first to
\* reach the limit while a position is open.
PausedIsFlat == account.status = "PAUSED" => account.position = Flat /\ account.pending = 0

\* The money of a simulated account adds up, and a pause leaves nothing open that no later
\* candle would close (execution.mjs:92-139).
AccountSound == AccountReconciles /\ PausedIsFlat
================================================================================
