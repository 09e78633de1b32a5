----------------------------- MODULE RiskPreview -----------------------------
(***************************************************************************)
(* buildRiskPreview (src/lib/risk.js): the checks an order passes before   *)
(* it is sent.  The preview asks the broker for the instrument, the quote, *)
(* the last candle, the account and the day's orders, one await after the  *)
(* other, and adds a failure for each check that does not hold; whatever   *)
(* an answer lacks is missing, and each check says itself what a missing   *)
(* value means.  The order is approved if nothing failed.                  *)
(*                                                                         *)
(* A value that may be missing is a set of at most one element.  A field   *)
(* that is there but null or empty is Null, and counts as 0; an answer     *)
(* without the list that is looked for counts as an empty one.  Prices are *)
(* in pips, lots in thousandths, money in units of the account's currency. *)
(***************************************************************************)
EXTENDS Integers, Sequences, FiniteSetsExt

CONSTANTS
  Wishes,          \* what clients ask for
  Settings,        \* the environment variables of the deployments
  Instruments,     \* what the broker may know of an instrument
  Quotes,          \* ... of its quote
  Ages,            \* ... of the age of its last candle, in minutes
  Books,           \* ... of the account: positions, pending orders (how many), figures
  Directories,     \* ... of the accounts of this login
  Counts,          \* ... of the orders of the day (how many)
  Null,            \* a field without a value
  AccountId,       \* TRADELOCKER_ACCOUNT_ID
  PipsPerPrice,    \* a price of 1 in pips
  MaxLots, MaxUnits, MaxSpread, MaxAge, MaxOpenPositions, MaxPendingOrders, MaxDailyTrades,
  MaxRiskPercent   \* LIVE_TEST_MAX_RISK_PERCENT

\* An account that this login may trade is among its accounts (the broker's promise).
ASSUME DirectoriesAssumption ==
  \A directory \in Directories : \A list \in directory :
    list = <<>> \/ \E n \in 1..Len(list) : list[n].id = AccountId

\* A value that may be missing.
Maybe(value) == value \subseteq Int /\ \A x, y \in value : x = y

\* What a field of an answer holds.
MaybeNull(field) == field \subseteq Int \cup {Null} /\ \A x, y \in field : x = y

\* Whatever clients, the broker and the environment say is a number, or missing; a client's
\* price that is not positive counts as missing in every check, and is written so.
ASSUME PreviewAssumption ==
  /\ Null \notin Int
  /\ \A w \in Wishes :
       /\ \A v \in {w.lots, w.qty, w.entry, w.level, w.stop, w.target} : Maybe(v)
       /\ \A v \in {w.entry, w.level, w.stop, w.target} : \A price \in v : price > 0
  /\ \A s \in Settings :
       /\ {s.kill, s.trading, s.strictQuote, s.staleGuard, s.strictStale, s.strictRisk,
           s.strictLoss, s.needsExits} \subseteq BOOLEAN
       /\ {s.maxStop, s.maxRisk, s.maxDailyLoss, s.equityOverride} \subseteq Int
  /\ \A i \in Instruments : {i.grain, i.min, i.max, i.step} \subseteq Int
  /\ \A q \in Quotes : MaybeNull(q.bid) /\ MaybeNull(q.ask)
  /\ \A age \in Ages : age.fails \in BOOLEAN /\ Maybe(age.minutes)
  /\ \A book \in Books : /\ Maybe(book.positions) /\ Maybe(book.orders)
                         /\ \A v \in {book.equity, book.balance, book.pnl} : MaybeNull(v)
  /\ \A directory \in Directories : \A list \in directory :
       /\ Len(list) \in Nat
       /\ \A n \in 1..Len(list) :
            \A v \in {list[n].equity, list[n].balance, list[n].pnl} : MaybeNull(v)
  /\ {PipsPerPrice, MaxLots, MaxUnits, MaxSpread, MaxAge, MaxOpenPositions, MaxPendingOrders,
      MaxDailyTrades, MaxRiskPercent} \subseteq Int

VARIABLES at, wish, setting, heard, failed, order

previewVars == <<at, wish, setting, heard, failed, order>>

The(value) == CHOOSE v \in value : TRUE
OrElse(value, other) == IF value # {} THEN value ELSE other

\* Number(v), of a field that is there.
AsNumber(field) == {IF v = Null THEN 0 ELSE v : v \in field}

\* deepFindArray(answer).length: what is not listed is not there.
Listed(count) == IF count = {} THEN 0 ELSE The(count)

Distance(a, b) == IF a > b THEN a - b ELSE b - a

\* A failed check, by its name.
Fail(name, bad) == IF bad THEN {name} ELSE {}

NoOrder == [units |-> 0]

\* What has not been asked for yet.
Unasked == <<>>

\* The checks that ask nobody.
StaticChecks(w, s) ==
  Fail("kill_switch", s.kill /\ ~(w.dry /\ ~s.trading))
    \cup Fail("allowed_symbol", w.symbol \notin s.symbols)
    \cup Fail("side", w.side \notin {"buy", "sell"})
    \cup Fail("order_type", w.type \notin {"market", "limit", "stop"})
    \cup Fail("validity", w.validity # (IF w.type = "market" THEN "IOC" ELSE "GTC"))

\* The quantity in lots, as a fraction, and in units: each as given, or from the other.
Lots(w, i) ==
  IF w.lots # {} THEN {<<The(w.lots), 1>>}
  ELSE {<<qty, i.grain>> : qty \in IF i.grain > 0 THEN w.qty ELSE {}}
Units(w, i) == OrElse(w.qty, {lots * i.grain : lots \in IF i.grain > 0 THEN w.lots ELSE {}})

\* What the broker does not say of lots limits nothing.
QuantityChecks(w, i) ==
  Fail("quantity", ~(\E l \in Lots(w, i), u \in Units(w, i) : l[1] > 0 /\ u > 0))
    \cup Fail("broker_min_lot", \E l \in Lots(w, i) : i.min > 0 /\ l[1] < i.min * l[2])
    \cup Fail("broker_max_lot", \E l \in Lots(w, i) : i.max > 0 /\ l[1] > i.max * l[2])
    \cup Fail("lot_step", \E l \in Lots(w, i) : i.step > 0 /\ l[1] % (i.step * l[2]) # 0)
    \cup Fail("max_lots_per_trade", \E l \in Lots(w, i) : l[1] > MaxLots * l[2])
    \cup Fail("max_order_units", \E u \in Units(w, i) : u > MaxUnits)

\* The client's own entry price, else a positive price of the quote, or the price the order
\* waits for.
Entry(w, q) ==
  IF w.entry # {} THEN w.entry
  ELSE CASE w.type = "market" ->
              {price \in AsNumber(IF w.side = "buy" THEN q.ask ELSE q.bid) : price > 0}
         [] w.type \in {"limit", "stop"} -> w.level
         [] OTHER -> {}

\* As it is read: of a quote without values it is 0, and may be below 0.
QuoteSpread(q) == {ask - bid : ask \in AsNumber(q.ask), bid \in AsNumber(q.bid)}

\* How far prices are from the entry.
Apart(w, q, prices) == {Distance(e, x) : e \in Entry(w, q), x \in prices}

\* a lies beyond b in the direction of side; there is none in an unknown direction.
IsBeyond(side, a, b) ==
  \/ side = "buy" /\ a > b
  \/ side = "sell" /\ a < b

\* Spread, entry, stop, target, reward for the risk, and the spread as a part of the stop.
PriceChecks(w, s, q) ==
  LET stops == Apart(w, q, w.stop)
      rewards == Apart(w, q, w.target)
  IN  Fail("quote_available", s.strictQuote /\ QuoteSpread(q) = {})
        \cup Fail("max_spread", \E x \in QuoteSpread(q) : x > MaxSpread)
        \cup Fail("entry_price", Entry(w, q) = {})
        \cup Fail("stop_loss_required", s.needsExits /\ w.stop = {})
        \cup Fail("take_profit_required", s.needsExits /\ w.target = {})
        \cup Fail("stop_loss_direction",
                  \E e \in Entry(w, q), x \in w.stop : ~IsBeyond(w.side, e, x))
        \cup Fail("take_profit_direction",
                  \E e \in Entry(w, q), x \in w.target : ~IsBeyond(w.side, x, e))
        \cup Fail("min_risk_reward",
                  \E d \in stops, r \in rewards : d > 0 /\ r > 0 /\ 2 * r < 3 * d)
        \cup Fail("max_spread_as_stop_fraction",
                  \E x \in QuoteSpread(q), d \in stops : d > 0 /\ 5 * x > d)
        \cup Fail("max_stop_pips", s.maxStop > 0 /\ \E d \in stops : d > s.maxStop)

\* Variant of FreshnessChecks: a history without a candle is as good as a fresh one.
FreshnessIfKnown(s, age) ==
  IF ~s.staleGuard THEN {}
  ELSE Fail("market_data_freshness",
            IF age.fails THEN s.strictStale ELSE \E m \in age.minutes : m > MaxAge)

\* A history call that fails is not a history without a candle.
FreshnessChecks(s, age) ==
  IF ~s.staleGuard THEN {}
  ELSE Fail("market_data_freshness",
            IF age.fails THEN s.strictStale
            ELSE age.minutes = {} \/ \E m \in age.minutes : m > MaxAge)

\* deepFindNumber: the first account that has the figure, whichever it is.
FirstFound(directory, figure) ==
  UNION {LET shown == {n \in 1..Len(list) : list[n][figure] # {}}
         IN  IF shown = {} THEN {} ELSE list[Min(shown)][figure] : list \in directory}

\* readAccountMetrics: the figure of the account's own table, else of the accounts' list.
Metric(book, directory, figure) ==
  AsNumber(OrElse(book[figure], FirstFound(directory, figure)))

\* The equity, else the balance, else what the environment says of it.
EquityOf(s, book, directory) ==
  OrElse(OrElse(Metric(book, directory, "equity"), Metric(book, directory, "balance")),
         {m \in {s.equityOverride} : m > 0})

\* The account of the configured id, else the first of the list.
ConnectedIds(directory) ==
  UNION {IF list = <<>> THEN {}
         ELSE IF \E n \in 1..Len(list) : list[n].id = AccountId THEN {AccountId}
         ELSE {list[1].id} : list \in directory}

\* Variant of Loss: not converted to the account's currency.
LossInQuote(w, i, q) ==
  {<<u * Distance(e, x), PipsPerPrice>> :
     u \in {v \in Units(w, i) : v > 0}, e \in Entry(w, q),
     x \in IF i.accountIn \in {"quoting", "base"} THEN w.stop ELSE {}}

\* The loss at the stop as a fraction; in a third currency it is not known.
Loss(w, i, q) ==
  {<<u * Distance(e, x), IF i.accountIn = "quoting" THEN PipsPerPrice ELSE e>> :
     u \in {v \in Units(w, i) : v > 0}, e \in Entry(w, q),
     x \in IF i.accountIn \in {"quoting", "base"} THEN w.stop ELSE {}}

AccountChecks(w, s, i, q, book, directory, today) ==
  LET loss == Loss(w, i, q)
      equity == {m \in EquityOf(s, book, directory) : m > 0}
      pnl == Metric(book, directory, "pnl")
  IN  Fail("account_id_lock", ConnectedIds(directory) # {s.expectedId})
        \cup Fail("max_open_positions", Listed(book.positions) >= MaxOpenPositions)
        \cup Fail("max_pending_orders", Listed(book.orders) >= MaxPendingOrders)
        \cup Fail("max_daily_trades", Listed(today) >= MaxDailyTrades)
        \cup Fail("max_risk_percent",
                  IF loss = {} \/ equity = {} THEN s.strictRisk
                  ELSE \E l \in loss, m \in equity : 100 * l[1] > MaxRiskPercent * m * l[2])
        \cup Fail("max_risk_amount",
                  s.maxRisk > 0 /\ \E l \in loss : l[1] > s.maxRisk * l[2])
        \cup Fail("daily_loss_limit",
                  s.maxDailyLoss > 0
                    /\ IF pnl = {} THEN s.strictLoss ELSE The(pnl) <= 0 - s.maxDailyLoss)

PreviewInit ==
  /\ at = "instrument" /\ order = NoOrder
  /\ heard = [instrument |-> Unasked, quote |-> Unasked, age |-> Unasked, book |-> Unasked,
              directory |-> Unasked]
  /\ wish \in Wishes /\ setting \in Settings
  /\ failed = StaticChecks(wish, setting)

ReadInstrument ==
  /\ at = "instrument" /\ at' = "quote"
  /\ \E i \in Instruments :
       /\ heard' = [heard EXCEPT !.instrument = i]
       /\ failed' = failed \cup QuantityChecks(wish, i)
  /\ UNCHANGED <<wish, setting, order>>

ReadQuote ==
  /\ at = "quote" /\ at' = "freshness"
  /\ \E q \in Quotes :
       /\ heard' = [heard EXCEPT !.quote = q]
       /\ failed' = failed \cup PriceChecks(wish, setting, q)
  /\ UNCHANGED <<wish, setting, order>>

ReadFreshness ==
  /\ at = "freshness" /\ at' = "account"
  /\ \E age \in Ages :
       /\ ~setting.staleGuard => age.fails
       /\ heard' = [heard EXCEPT !.age = age]
       /\ failed' = failed \cup FreshnessChecks(setting, age)
  /\ UNCHANGED <<wish, setting, order>>

\* Positions, pending orders and figures are asked for at once; a list of accounts that
\* cannot be had is none.
ReadAccount ==
  /\ at = "account" /\ at' = "today"
  /\ \E book \in Books, directory \in Directories :
       heard' = [heard EXCEPT !.book = book, !.directory = directory]
  /\ UNCHANGED <<wish, setting, failed, order>>

\* The order that would be sent: the units, whatever the lots were.
OrderOf(w, i) ==
  [units |-> IF Units(w, i) = {} THEN 0 ELSE The(Units(w, i)),
   instrument |-> w.instrument, side |-> w.side, type |-> w.type,
   level |-> IF w.type = "market" THEN {} ELSE w.level, stop |-> w.stop, target |-> w.target]

\* The day's orders are the last answer; when it cannot be had, none is counted.
ReadToday ==
  /\ at = "today"
  /\ \E today \in Counts :
       failed' = failed \cup AccountChecks(wish, setting, heard.instrument, heard.quote,
                                           heard.book, heard.directory, today)
  /\ at' = IF failed' = {} THEN "approved" ELSE "rejected"
  /\ order' = OrderOf(wish, heard.instrument)
  /\ UNCHANGED <<wish, setting, heard>>

\* A call without which there is no preview fails.
ReadThrows ==
  /\ at \in {"instrument", "quote", "account"} /\ at' = "thrown"
  /\ UNCHANGED <<wish, setting, heard, failed, order>>

PreviewNext ==
  \/ ReadInstrument \/ ReadQuote \/ ReadFreshness \/ ReadAccount \/ ReadToday \/ ReadThrows

PreviewSpec == PreviewInit /\ [][PreviewNext]_previewVars

-----------------------------------------------------------------------------
PreviewTypeOK ==
  /\ at \in {"instrument", "quote", "freshness", "account", "today",
             "approved", "rejected", "thrown"}
  /\ wish \in Wishes /\ setting \in Settings
  /\ at \notin {"instrument", "thrown"} =>
       heard.instrument \in Instruments /\ (at # "quote" => heard.quote \in Quotes)
  /\ at \in {"today", "approved", "rejected"} =>
       heard.age \in Ages /\ heard.book \in Books /\ heard.directory \in Directories
  /\ failed \subseteq STRING
  /\ order.units \in Int

\* A deployment that takes nothing unknown for granted: the defaults of the code.
Strict(s) == s.strictQuote /\ s.staleGuard /\ s.strictStale /\ s.strictRisk /\ s.needsExits

\* The money an order makes, in parts of Denominator, if it leaves at a price.
Denominator(e) == IF heard.instrument.accountIn = "quoting" THEN PipsPerPrice ELSE e
Result(e, exit) ==
  order.units * (IF order.side = "buy" THEN exit - e ELSE e - exit)

\* Under the default settings an approved order, as it is sent, has a stop and a target
\* around its entry; wherever between them it is left, it loses no more than the cap allows
\* of the equity the preview found (the account's, its balance, or the environment's), and
\* at its target it makes half as much again as it may lose.  The spread, as it is read, is
\* small beside the stop, the market was known to be open, the account listed fewer
\* positions and orders than it may have, and the units make whole steps unless the client
\* named both lots and units (risk.js:324-645).  A quote without values and an answer
\* without a list pass as a spread of 0 and an empty account.
ApprovedOrderIsCovered ==
  at = "approved" /\ Strict(setting) =>
    /\ \E e \in Entry(wish, heard.quote), stop \in order.stop, target \in order.target,
          m \in EquityOf(setting, heard.book, heard.directory) :
         LET lower == IF order.side = "buy" THEN stop ELSE target
             upper == IF order.side = "buy" THEN target ELSE stop
         IN  /\ lower < e /\ e < upper /\ m > 0
             /\ \A exit \in lower..upper :
                  100 * Result(e, exit) >= -(MaxRiskPercent * m * Denominator(e))
             /\ 2 * Result(e, target) >= -3 * Result(e, stop)
             /\ \E x \in QuoteSpread(heard.quote) : x <= MaxSpread /\ 5 * x <= Distance(e, stop)
    /\ ~heard.age.fails /\ \E m \in heard.age.minutes : m <= MaxAge
    /\ Listed(heard.book.positions) < MaxOpenPositions
    /\ Listed(heard.book.orders) < MaxPendingOrders
    /\ order.units \in 1..MaxUnits
    /\ heard.instrument.step > 0 /\ (wish.lots = {} \/ wish.qty = {}) =>
         order.units % (heard.instrument.step * heard.instrument.grain) = 0
==============================================================================
