----------------------------- MODULE Tools_proofs ------------------------------
(***************************************************************************)
(* Proofs about tools that share no state: the risk preview, the replay of *)
(* a strategy, and the drawing studio of the charts.                       *)
(***************************************************************************)
EXTENDS RiskPreview, Backtest, DrawingStudio, SequenceTheorems, FiniteSetTheorems, WellFoundedInduction, TLAPS

--------------------------------------------------------------------------------
(***************************************************************************)
(* The risk preview, for whatever numbers clients, the broker and the      *)
(* environment may give, and whatever is missing of them.  The failures of *)
(* an answer stay (Heard), so that an approved order is one of which no    *)
(* check failed: the rest is arithmetic.                                   *)
(***************************************************************************)

AnswerNames == {"instrument", "quote", "age", "book", "directory"}

Later(a) ==
  CASE a = "instrument" -> {"quote", "freshness", "account", "today", "approved", "rejected"}
    [] a = "quote" -> {"freshness", "account", "today", "approved", "rejected"}
    [] a = "age" -> {"account", "today", "approved", "rejected"}
    [] OTHER -> {"today", "approved", "rejected"}

\* What was answered, and that the checks of it that failed are remembered.
HeardInstrument ==
  heard.instrument \in Instruments /\ QuantityChecks(wish, heard.instrument) \subseteq failed
HeardQuote ==
  heard.quote \in Quotes /\ PriceChecks(wish, setting, heard.quote) \subseteq failed
HeardAge ==
  heard.age \in Ages /\ FreshnessChecks(setting, heard.age) \subseteq failed
HeardBook == heard.book \in Books /\ heard.directory \in Directories

Approved ==
  /\ failed = {} /\ order = OrderOf(wish, heard.instrument)
  /\ \E today \in Counts :
       AccountChecks(wish, setting, heard.instrument, heard.quote, heard.book,
                     heard.directory, today) = {}

PreviewInv ==
  /\ at \in {"instrument", "quote", "freshness", "account", "today",
             "approved", "rejected", "thrown"}
  /\ wish \in Wishes /\ setting \in Settings /\ DOMAIN heard = AnswerNames
  /\ StaticChecks(wish, setting) \subseteq failed
  /\ at \in Later("instrument") => HeardInstrument
  /\ at \in Later("quote") => HeardQuote
  /\ at \in Later("age") => HeardAge
  /\ at \in Later("book") => HeardBook
  /\ at = "approved" => Approved
  /\ order.units \in Int

\* The units of a wish are a number, if any, and no more than one.
LEMMA UnitsAreNumbers ==
  ASSUME NEW w \in Wishes, NEW i \in Instruments
  PROVE  Maybe(Units(w, i))
<1>1. Maybe(w.qty) /\ Maybe(w.lots) /\ i.grain \in Int  BY PreviewAssumption
<1>2. CASE w.qty # {}
  BY <1>1, <1>2 DEF Units, OrElse
<1>3. CASE w.qty = {}
  <2>1. Units(w, i) = {lots * i.grain : lots \in IF i.grain > 0 THEN w.lots ELSE {}}
    BY <1>3 DEF Units, OrElse
  <2>2. QED  BY <1>1, <2>1 DEF Maybe
<1>4. QED  BY <1>2, <1>3

LEMMA TheOne ==
  ASSUME NEW value, Maybe(value), NEW v \in value
  PROVE  The(value) = v /\ v \in Int
BY DEF Maybe, The

\* The order is for the units of the wish.
LEMMA OrderUnits ==
  ASSUME NEW w \in Wishes, NEW i \in Instruments
  PROVE  OrderOf(w, i).units \in Int /\ \A u \in Units(w, i) : OrderOf(w, i).units = u
<1>1. Maybe(Units(w, i))  BY UnitsAreNumbers
<1>2. CASE Units(w, i) = {}  BY <1>2 DEF OrderOf
<1>3. CASE Units(w, i) # {}
  <2>1. PICK u \in Units(w, i) : TRUE  BY <1>3
  <2>2. \A v \in Units(w, i) : The(Units(w, i)) = v /\ v \in Int  BY <1>1, TheOne
  <2>3. OrderOf(w, i).units = The(Units(w, i))  BY <1>3 DEF OrderOf
  <2>4. QED  BY <2>1, <2>2, <2>3
<1>4. QED  BY <1>2, <1>3

LEMMA PreviewBegins == PreviewInit => PreviewInv
BY DEF PreviewInit, PreviewInv, Later, AnswerNames, NoOrder

LEMMA PreviewKept == PreviewInv /\ [PreviewNext]_previewVars => PreviewInv'
<1> SUFFICES ASSUME PreviewInv, [PreviewNext]_previewVars  PROVE PreviewInv'
  OBVIOUS
<1> USE DEF Later
<1>1. CASE ReadInstrument
  <2>1. PICK i \in Instruments : /\ heard' = [heard EXCEPT !.instrument = i]
                                 /\ failed' = failed \cup QuantityChecks(wish, i)
    BY <1>1 DEF ReadInstrument
  <2>2. heard'.instrument = i /\ DOMAIN heard' = AnswerNames
    BY <2>1 DEF PreviewInv, AnswerNames
  <2>3. HeardInstrument'
    BY <1>1, <2>1, <2>2 DEF ReadInstrument, HeardInstrument
  <2>4. QED  BY <1>1, <2>1, <2>2, <2>3 DEF ReadInstrument, PreviewInv
<1>2. CASE ReadQuote
  <2>1. PICK q \in Quotes : /\ heard' = [heard EXCEPT !.quote = q]
                            /\ failed' = failed \cup PriceChecks(wish, setting, q)
    BY <1>2 DEF ReadQuote
  <2>2. /\ heard'.quote = q /\ DOMAIN heard' = AnswerNames
        /\ heard'.instrument = heard.instrument
    BY <2>1 DEF PreviewInv, AnswerNames
  <2>3. HeardInstrument' /\ HeardQuote'
    BY <1>2, <2>1, <2>2 DEF ReadQuote, HeardInstrument, HeardQuote, PreviewInv
  <2>4. QED  BY <1>2, <2>1, <2>2, <2>3 DEF ReadQuote, PreviewInv
<1>3. CASE ReadFreshness
  <2>1. PICK age \in Ages : /\ heard' = [heard EXCEPT !.age = age]
                            /\ failed' = failed \cup FreshnessChecks(setting, age)
    BY <1>3 DEF ReadFreshness
  <2>2. /\ heard'.age = age /\ DOMAIN heard' = AnswerNames
        /\ heard'.instrument = heard.instrument /\ heard'.quote = heard.quote
    BY <2>1 DEF PreviewInv, AnswerNames
  <2>3. HeardInstrument' /\ HeardQuote' /\ HeardAge'
    BY <1>3, <2>1, <2>2
       DEF ReadFreshness, HeardInstrument, HeardQuote, HeardAge, PreviewInv
  <2>4. QED  BY <1>3, <2>1, <2>2, <2>3 DEF ReadFreshness, PreviewInv
<1>4. CASE ReadAccount
  <2>1. PICK book \in Books, directory \in Directories :
          heard' = [heard EXCEPT !.book = book, !.directory = directory]
    BY <1>4 DEF ReadAccount
  <2>2. /\ heard'.book = book /\ heard'.directory = directory /\ DOMAIN heard' = AnswerNames
        /\ heard'.instrument = heard.instrument /\ heard'.quote = heard.quote
        /\ heard'.age = heard.age
    BY <2>1 DEF PreviewInv, AnswerNames
  <2>3. HeardInstrument' /\ HeardQuote' /\ HeardAge' /\ HeardBook'
    BY <1>4, <2>1, <2>2
       DEF ReadAccount, HeardInstrument, HeardQuote, HeardAge, HeardBook, PreviewInv
  <2>4. QED  BY <1>4, <2>1, <2>2, <2>3 DEF ReadAccount, PreviewInv
<1>5. CASE ReadToday
  <2>1. PICK today \in Counts :
          failed' = failed \cup AccountChecks(wish, setting, heard.instrument, heard.quote,
                                              heard.book, heard.directory, today)
    BY <1>5 DEF ReadToday
  <2>2. HeardInstrument' /\ HeardQuote' /\ HeardAge' /\ HeardBook'
    BY <1>5, <2>1
       DEF ReadToday, HeardInstrument, HeardQuote, HeardAge, HeardBook, PreviewInv
  <2>3. order'.units \in Int
    BY <1>5, OrderUnits DEF ReadToday, HeardInstrument, PreviewInv
  <2>4. at' \in {"approved", "rejected"}  BY <1>5 DEF ReadToday
  <2>5. at' = "approved" => Approved'
    BY <1>5, <2>1 DEF ReadToday, Approved
  <2>6. QED  BY <1>5, <2>1, <2>2, <2>3, <2>4, <2>5 DEF ReadToday, PreviewInv
<1>6. CASE ReadThrows
  BY <1>6 DEF ReadThrows, PreviewInv
<1>7. CASE UNCHANGED previewVars
  BY <1>7 DEF previewVars, PreviewInv, HeardInstrument, HeardQuote, HeardAge, HeardBook, Approved
<1>8. QED  BY <1>1, <1>2, <1>3, <1>4, <1>5, <1>6, <1>7 DEF PreviewNext

LEMMA PreviewInvariant == PreviewSpec => []PreviewInv
BY PreviewBegins, PreviewKept, PTL DEF PreviewSpec
--------------------------------------------------------------------------------
\* What it means that no check of an answer failed.
LEMMA Passed ==
  ASSUME NEW n, NEW b, Fail(n, b) = {}
  PROVE  ~b
BY DEF Fail

LEMMA StaticPassed ==
  ASSUME NEW w, NEW s, StaticChecks(w, s) = {}
  PROVE  w.side \in {"buy", "sell"} /\ w.type \in {"market", "limit", "stop"}
<1>1. /\ Fail("side", w.side \notin {"buy", "sell"}) = {}
      /\ Fail("order_type", w.type \notin {"market", "limit", "stop"}) = {}
  BY DEF StaticChecks
<1>2. QED  BY <1>1, Passed

LEMMA QuantityPassed ==
  ASSUME NEW w, NEW i, QuantityChecks(w, i) = {}
  PROVE  /\ \E l \in Lots(w, i), u \in Units(w, i) : l[1] > 0 /\ u > 0
         /\ ~ \E l \in Lots(w, i) : i.step > 0 /\ l[1] % (i.step * l[2]) # 0
         /\ ~ \E u \in Units(w, i) : u > MaxUnits
<1>1. /\ Fail("quantity", ~(\E l \in Lots(w, i), u \in Units(w, i) : l[1] > 0 /\ u > 0)) = {}
      /\ Fail("lot_step", \E l \in Lots(w, i) : i.step > 0 /\ l[1] % (i.step * l[2]) # 0) = {}
      /\ Fail("max_order_units", \E u \in Units(w, i) : u > MaxUnits) = {}
  BY DEF QuantityChecks
<1>2. QED  BY <1>1, Passed

LEMMA PricePassed ==
  ASSUME NEW w, NEW s, NEW q, PriceChecks(w, s, q) = {}, s.strictQuote, s.needsExits
  PROVE  /\ QuoteSpread(q) # {} /\ ~ \E x \in QuoteSpread(q) : x > MaxSpread
         /\ Entry(w, q) # {} /\ w.stop # {} /\ w.target # {}
         /\ \A e \in Entry(w, q), x \in w.stop : IsBeyond(w.side, e, x)
         /\ \A e \in Entry(w, q), x \in w.target : IsBeyond(w.side, x, e)
         /\ \A e \in Entry(w, q), x \in w.stop, y \in w.target :
              ~(Distance(e, x) > 0 /\ Distance(e, y) > 0 /\ 2 * Distance(e, y) < 3 * Distance(e, x))
         /\ \A x \in QuoteSpread(q), e \in Entry(w, q), y \in w.stop :
              ~(Distance(e, y) > 0 /\ 5 * x > Distance(e, y))
<1> DEFINE stops == Apart(w, q, w.stop)
           rewards == Apart(w, q, w.target)
<1>1. /\ Fail("quote_available", s.strictQuote /\ QuoteSpread(q) = {}) = {}
      /\ Fail("max_spread", \E x \in QuoteSpread(q) : x > MaxSpread) = {}
      /\ Fail("entry_price", Entry(w, q) = {}) = {}
      /\ Fail("stop_loss_required", s.needsExits /\ w.stop = {}) = {}
      /\ Fail("take_profit_required", s.needsExits /\ w.target = {}) = {}
      /\ Fail("stop_loss_direction",
              \E e \in Entry(w, q), x \in w.stop : ~IsBeyond(w.side, e, x)) = {}
      /\ Fail("take_profit_direction",
              \E e \in Entry(w, q), x \in w.target : ~IsBeyond(w.side, x, e)) = {}
      /\ Fail("min_risk_reward",
              \E d \in stops, r \in rewards : d > 0 /\ r > 0 /\ 2 * r < 3 * d) = {}
      /\ Fail("max_spread_as_stop_fraction",
              \E x \in QuoteSpread(q), d \in stops : d > 0 /\ 5 * x > d) = {}
  BY DEF PriceChecks
<1> HIDE DEF stops, rewards
<1>2. /\ QuoteSpread(q) # {} /\ ~ \E x \in QuoteSpread(q) : x > MaxSpread
      /\ Entry(w, q) # {} /\ w.stop # {} /\ w.target # {}
      /\ \A e \in Entry(w, q), x \in w.stop : IsBeyond(w.side, e, x)
      /\ \A e \in Entry(w, q), x \in w.target : IsBeyond(w.side, x, e)
      /\ ~ \E d \in stops, r \in rewards : d > 0 /\ r > 0 /\ 2 * r < 3 * d
      /\ ~ \E x \in QuoteSpread(q), d \in stops : d > 0 /\ 5 * x > d
  BY <1>1, Passed
<1>3. ASSUME NEW e \in Entry(w, q), NEW x \in w.stop, NEW y \in w.target
      PROVE  Distance(e, x) \in stops /\ Distance(e, y) \in rewards
  BY DEF stops, rewards, Apart
<1>4. QED  BY <1>2, <1>3

LEMMA FreshPassed ==
  ASSUME NEW s, NEW age, FreshnessChecks(s, age) = {}, s.staleGuard, s.strictStale
  PROVE  ~age.fails /\ age.minutes # {} /\ ~ \E m \in age.minutes : m > MaxAge
<1> DEFINE stale == IF age.fails THEN s.strictStale
                    ELSE age.minutes = {} \/ \E m \in age.minutes : m > MaxAge
<1>1. Fail("market_data_freshness", stale) = {}  BY DEF FreshnessChecks
<1>2. ~stale
  <2> HIDE DEF stale
  <2>1. QED  BY <1>1, Passed
<1>3. QED  BY <1>2

LEMMA AccountPassed ==
  ASSUME NEW w, NEW s, NEW i, NEW q, NEW book, NEW directory, NEW today,
         AccountChecks(w, s, i, q, book, directory, today) = {}, s.strictRisk
  PROVE  /\ ~(Listed(book.positions) >= MaxOpenPositions)
         /\ ~(Listed(book.orders) >= MaxPendingOrders)
         /\ Loss(w, i, q) # {}
         /\ \E m \in EquityOf(s, book, directory) :
              m > 0 /\ \A l \in Loss(w, i, q) : ~(100 * l[1] > MaxRiskPercent * m * l[2])
<1> DEFINE equity == {m \in EquityOf(s, book, directory) : m > 0}
           risky == IF Loss(w, i, q) = {} \/ equity = {} THEN s.strictRisk
                    ELSE \E l \in Loss(w, i, q), m \in equity :
                           100 * l[1] > MaxRiskPercent * m * l[2]
<1>1. /\ Fail("max_open_positions", Listed(book.positions) >= MaxOpenPositions) = {}
      /\ Fail("max_pending_orders", Listed(book.orders) >= MaxPendingOrders) = {}
      /\ Fail("max_risk_percent", risky) = {}
  BY DEF AccountChecks
<1>2. /\ ~(Listed(book.positions) >= MaxOpenPositions)
      /\ ~(Listed(book.orders) >= MaxPendingOrders) /\ ~risky
  <2> HIDE DEF risky
  <2>1. QED  BY <1>1, Passed
<1>3. Loss(w, i, q) # {} /\ equity # {}
      /\ ~ \E l \in Loss(w, i, q), m \in equity : 100 * l[1] > MaxRiskPercent * m * l[2]
  <2> HIDE DEF equity
  <2>1. QED  BY <1>2
<1>4. QED  BY <1>2, <1>3, Zenon
--------------------------------------------------------------------------------
\* What is read of a field is a number, and of a list how many it has.
LEMMA ReadNumbers ==
  ASSUME NEW field, field \subseteq Int \cup {Null}
  PROVE  AsNumber(field) \subseteq Int
BY DEF AsNumber

LEMMA ListedNumber ==
  ASSUME NEW count, Maybe(count)
  PROVE  Listed(count) \in Int
BY TheOne DEF Listed

\* Prices, spreads and figures are numbers.
LEMMA QuoteNumbers ==
  ASSUME NEW q \in Quotes
  PROVE  AsNumber(q.ask) \subseteq Int /\ AsNumber(q.bid) \subseteq Int
BY PreviewAssumption, ReadNumbers DEF MaybeNull

LEMMA EntryNumbers ==
  ASSUME NEW w \in Wishes, NEW q \in Quotes
  PROVE  Entry(w, q) \subseteq Int
<1>1. w.entry \subseteq Int /\ w.level \subseteq Int
  BY PreviewAssumption DEF Maybe
<1>2. AsNumber(IF w.side = "buy" THEN q.ask ELSE q.bid) \subseteq Int  BY QuoteNumbers
<1>3. QED  BY <1>1, <1>2 DEF Entry

LEMMA SpreadNumbers ==
  ASSUME NEW q \in Quotes
  PROVE  QuoteSpread(q) \subseteq Int
BY QuoteNumbers DEF QuoteSpread

\* The first of some places is one of them.
LEMMA MinIsOne ==
  ASSUME NEW n \in Nat, NEW S \in SUBSET (1..n), S # {}
  PROVE  Min(S) \in S
<1> DEFINE R == OpToRel(<, Nat)
<1>1. \A x, y \in Nat : <<x, y>> \in R <=> x < y  BY DEF OpToRel
<1>2. PICK x \in S : \A y \in S : ~ (<<y, x>> \in R)
  <2> HIDE DEF R
  <2>1. IsWellFoundedOn(R, Nat)  BY NatLessThanWellFounded DEF R
  <2>2. S \subseteq Nat  OBVIOUS
  <2>3. QED  BY <2>1, <2>2, WFMin
<1> HIDE DEF R
<1>3. \A y \in S : x <= y
  <2>1. S \subseteq Nat  OBVIOUS
  <2>2. \A y \in S : y \in Nat /\ x \in Nat /\ ~ (y < x)  BY <1>1, <1>2, <2>1
  <2>3. QED  BY <2>2
<1>4. QED  BY <1>3 DEF Min

LEMMA FoundNumbers ==
  ASSUME NEW directory \in Directories, NEW figure \in {"equity", "balance"}
  PROVE  FirstFound(directory, figure) \subseteq Int \cup {Null}
<1>1. ASSUME NEW list \in directory
      PROVE  LET shown == {n \in 1..Len(list) : list[n][figure] # {}}
             IN  (IF shown = {} THEN {} ELSE list[Min(shown)][figure])
                   \subseteq Int \cup {Null}
  <2> DEFINE shown == {n \in 1..Len(list) : list[n][figure] # {}}
  <2>1. Len(list) \in Nat  BY PreviewAssumption
  <2>2. \A n \in 1..Len(list) : list[n][figure] \subseteq Int \cup {Null}
    <3>1. \A n \in 1..Len(list) : MaybeNull(list[n].equity) /\ MaybeNull(list[n].balance)
      BY PreviewAssumption
    <3>2. QED  BY <3>1 DEF MaybeNull
  <2>3. shown # {} => Min(shown) \in 1..Len(list)
    <3>1. shown \in SUBSET (1..Len(list))  OBVIOUS
    <3> HIDE DEF shown
    <3>2. QED  BY <2>1, <3>1, MinIsOne
  <2> HIDE DEF shown
  <2>4. (IF shown = {} THEN {} ELSE list[Min(shown)][figure]) \subseteq Int \cup {Null}
    BY <2>2, <2>3
  <2>5. QED  BY <2>4 DEF shown
<1>2. QED  BY <1>1 DEF FirstFound

LEMMA EquityNumbers ==
  ASSUME NEW s \in Settings, NEW book \in Books, NEW directory \in Directories
  PROVE  EquityOf(s, book, directory) \subseteq Int
<1>1. book["equity"] \subseteq Int \cup {Null} /\ book["balance"] \subseteq Int \cup {Null}
  BY PreviewAssumption DEF MaybeNull
<1>2. OrElse(book["equity"], FirstFound(directory, "equity")) \subseteq Int \cup {Null}
  BY <1>1, FoundNumbers DEF OrElse
<1>3. OrElse(book["balance"], FirstFound(directory, "balance")) \subseteq Int \cup {Null}
  BY <1>1, FoundNumbers DEF OrElse
<1>4. /\ Metric(book, directory, "equity") \subseteq Int
      /\ Metric(book, directory, "balance") \subseteq Int
  BY <1>2, <1>3, ReadNumbers DEF Metric
<1>5. s.equityOverride \in Int  BY PreviewAssumption
<1>6. QED  BY <1>4, <1>5 DEF EquityOf, OrElse

--------------------------------------------------------------------------------
\* Products of whole numbers.
LEMMA Grows ==
  ASSUME NEW u \in Int, NEW a \in Int, NEW b \in Int, u > 0, a <= b
  PROVE  u * a <= u * b
<1>1. u * (b - a) >= 0  OBVIOUS
<1>2. u * (b - a) = u * b - u * a  OBVIOUS
<1>3. u * a \in Int /\ u * b \in Int  OBVIOUS
<1>4. ASSUME NEW x \in Int, NEW y \in Int, y - x >= 0  PROVE x <= y
  BY <1>4
<1>5. QED  BY <1>1, <1>2, <1>3, <1>4

\* What is lost between stop and target is at most what is lost at the stop, and what is
\* made at the target at least half as much again.
LEMMA Between ==
  ASSUME NEW u \in Int, u > 0, NEW d \in Int, NEW r \in Int, NEW g \in Int, NEW cap \in Int,
         g >= -d, 2 * r >= 3 * d, 100 * (u * d) <= cap
  PROVE  100 * (u * g) >= -cap /\ 2 * (u * r) >= 3 * (u * d)
<1>1. u * (-d) <= u * g  BY Grows
<1>2. u * (3 * d) <= u * (2 * r)  BY Grows
<1>3. u * (-d) = -(u * d) /\ u * (3 * d) = 3 * (u * d) /\ u * (2 * r) = 2 * (u * r)
  OBVIOUS
<1>4. u * d \in Int /\ u * g \in Int /\ u * r \in Int  OBVIOUS
<1>5. ASSUME NEW x \in Int, NEW y \in Int, -x <= y, 100 * x <= cap
      PROVE  100 * y >= -cap
  BY <1>5
<1>6. QED  BY <1>1, <1>2, <1>3, <1>4, <1>5

\* Whole steps of lots are whole steps of units.
LEMMA PreviewSteps ==
  ASSUME NEW a \in Int, NEW step \in Int, NEW grain \in Int, step > 0, grain > 0,
         a % step = 0
  PROVE  (a * grain) % (step * grain) = 0
<1> DEFINE k == a \div step
           b == step * grain
<1>1. k \in Int /\ b \in Int /\ b > 0  OBVIOUS
<1>2. a = step * k  OBVIOUS
<1>3. a * grain = b * k
  <2>1. (step * k) * grain = (step * grain) * k  BY <1>1
  <2>2. QED  BY <1>2, <2>1
<1> HIDE DEF k, b
<1>4. (b * k) % b = 0  BY <1>1
<1>5. QED  BY <1>3, <1>4 DEF b

\* The units make whole steps, unless both lots and units were named.
LEMMA WholeSteps ==
  ASSUME NEW w \in Wishes, NEW i \in Instruments, NEW u \in Units(w, i),
         ~ \E l \in Lots(w, i) : i.step > 0 /\ l[1] % (i.step * l[2]) # 0,
         i.step > 0, w.lots = {} \/ w.qty = {}, Lots(w, i) # {}
  PROVE  u % (i.step * i.grain) = 0
<1>1. Maybe(w.qty) /\ Maybe(w.lots) /\ i.grain \in Int /\ i.step \in Int
  BY PreviewAssumption
<1>2. CASE w.lots = {}
  <2>1. u \in w.qty
    <3>1. {lots * i.grain : lots \in IF i.grain > 0 THEN w.lots ELSE {}} = {}  BY <1>2
    <3>2. QED  BY <3>1 DEF Units, OrElse
  <2>2. i.grain > 0 /\ <<u, i.grain>> \in Lots(w, i)
    BY <1>2, <2>1 DEF Lots
  <2>3. QED  BY <2>2
<1>3. CASE w.lots # {} /\ w.qty = {}
  <2>1. PICK a \in w.lots : u = a * i.grain /\ i.grain > 0
    BY <1>3 DEF Units, OrElse
  <2>2. The(w.lots) = a /\ a \in Int  BY <1>1, TheOne
  <2>3. <<a, 1>> \in Lots(w, i)  BY <1>3, <2>2 DEF Lots
  <2>4. a % (i.step * 1) = 0  BY <2>3
  <2>5. a % i.step = 0  BY <1>1, <2>4
  <2>6. QED  BY <1>1, <2>1, <2>2, <2>5, PreviewSteps
<1>4. QED  BY <1>2, <1>3
--------------------------------------------------------------------------------
\* The loss and the gain of the order that was approved.
LEMMA LossAndGain ==
  ASSUME PreviewInv, at = "approved",
         NEW e \in Int, NEW stop \in Int, NEW target \in Int, NEW cap \in Int,
         IsBeyond(wish.side, e, stop), IsBeyond(wish.side, target, e),
         wish.side \in {"buy", "sell"}, order.units > 0,
         2 * Distance(e, target) >= 3 * Distance(e, stop),
         100 * (order.units * Distance(e, stop)) <= cap
  PROVE  LET lower == IF order.side = "buy" THEN stop ELSE target
             upper == IF order.side = "buy" THEN target ELSE stop
         IN  /\ lower < e /\ e < upper
             /\ \A exit \in lower..upper : 100 * Result(e, exit) >= -cap
             /\ 2 * Result(e, target) >= -3 * Result(e, stop)
<1> DEFINE u == order.units
           d == Distance(e, stop)
           r == Distance(e, target)
<1>1. u \in Int /\ d \in Int /\ r \in Int  BY DEF PreviewInv, Distance
<1>2. order.side = wish.side  BY DEF PreviewInv, Approved, OrderOf
<1>3. CASE order.side = "buy"
  <2>1. stop < e /\ e < target /\ d = e - stop /\ r = target - e
    BY <1>2, <1>3 DEF IsBeyond, Distance
  <2>2. ASSUME NEW exit \in stop..target
        PROVE  100 * Result(e, exit) >= -cap
    <3>1. exit - e \in Int /\ exit - e >= -d  BY <2>1
    <3>2. Result(e, exit) = u * (exit - e)  BY <1>3 DEF Result
    <3> HIDE DEF u, d, r
    <3>3. QED  BY <1>1, <3>1, <3>2, Between DEF u, d, r
  <2>3. Result(e, target) = u * r /\ Result(e, stop) = -(u * d)
    <3>1. target - e = r /\ stop - e = -d  BY <2>1
    <3>2. Result(e, target) = u * r /\ Result(e, stop) = u * (-d)
      BY <1>3, <3>1 DEF Result
    <3> HIDE DEF u, d, r
    <3>3. u * (-d) = -(u * d)  BY <1>1
    <3>4. QED  BY <3>2, <3>3
  <2>4. 2 * (u * r) >= 3 * (u * d)
    <3>1. d >= -d  BY <2>1
    <3> HIDE DEF u, d, r
    <3>2. QED  BY <1>1, <3>1, Between DEF u, d, r
  <2>5. 2 * Result(e, target) >= -3 * Result(e, stop)
    <3>1. ASSUME NEW a \in Int, NEW b \in Int, 2 * a >= 3 * b  PROVE 2 * a >= -3 * (-b)
      BY <3>1
    <3> HIDE DEF u, d, r
    <3>2. u * r \in Int /\ u * d \in Int  BY <1>1
    <3>3. QED  BY <2>3, <2>4, <3>1, <3>2
  <2>6. QED  BY <1>3, <2>1, <2>2, <2>5
<1>4. CASE order.side = "sell"
  <2>1. target < e /\ e < stop /\ d = stop - e /\ r = e - target
    BY <1>2, <1>4 DEF IsBeyond, Distance
  <2>2. ASSUME NEW exit \in target..stop
        PROVE  100 * Result(e, exit) >= -cap
    <3>1. e - exit \in Int /\ e - exit >= -d  BY <2>1
    <3>2. Result(e, exit) = u * (e - exit)  BY <1>4 DEF Result
    <3> HIDE DEF u, d, r
    <3>3. QED  BY <1>1, <3>1, <3>2, Between DEF u, d, r
  <2>3. Result(e, target) = u * r /\ Result(e, stop) = -(u * d)
    <3>1. e - target = r /\ e - stop = -d  BY <2>1
    <3>2. Result(e, target) = u * r /\ Result(e, stop) = u * (-d)
      BY <1>4, <3>1 DEF Result
    <3> HIDE DEF u, d, r
    <3>3. u * (-d) = -(u * d)  BY <1>1
    <3>4. QED  BY <3>2, <3>3
  <2>4. 2 * (u * r) >= 3 * (u * d)
    <3>1. d >= -d  BY <2>1
    <3> HIDE DEF u, d, r
    <3>2. QED  BY <1>1, <3>1, Between DEF u, d, r
  <2>5. 2 * Result(e, target) >= -3 * Result(e, stop)
    <3>1. ASSUME NEW a \in Int, NEW b \in Int, 2 * a >= 3 * b  PROVE 2 * a >= -3 * (-b)
      BY <3>1
    <3> HIDE DEF u, d, r
    <3>2. u * r \in Int /\ u * d \in Int  BY <1>1
    <3>3. QED  BY <2>3, <2>4, <3>1, <3>2
  <2>6. QED  BY <1>4, <2>1, <2>2, <2>5
<1>5. QED  BY <1>2, <1>3, <1>4

LEMMA CoveredWhenApproved == PreviewInv => ApprovedOrderIsCovered
<1> SUFFICES ASSUME PreviewInv, at = "approved", Strict(setting)
             PROVE  ApprovedOrderIsCovered
  BY DEF ApprovedOrderIsCovered
<1> DEFINE i == heard.instrument
           q == heard.quote
           book == heard.book
           directory == heard.directory
           age == heard.age
<1>1. /\ i \in Instruments /\ q \in Quotes /\ book \in Books /\ directory \in Directories
      /\ age \in Ages /\ wish \in Wishes
      /\ setting \in Settings
  BY DEF PreviewInv, Later, HeardInstrument, HeardQuote, HeardAge, HeardBook
<1>2. /\ StaticChecks(wish, setting) = {} /\ QuantityChecks(wish, i) = {}
      /\ PriceChecks(wish, setting, q) = {} /\ FreshnessChecks(setting, age) = {}
      /\ order = OrderOf(wish, i)
  BY DEF PreviewInv, Later, HeardInstrument, HeardQuote, HeardAge, Approved
<1>3. PICK today : AccountChecks(wish, setting, i, q, book, directory, today) = {}
  BY DEF PreviewInv, Approved
<1>4. /\ setting.strictQuote /\ setting.staleGuard /\ setting.strictStale
      /\ setting.strictRisk /\ setting.needsExits
  BY DEF Strict
<1> HIDE DEF i, q, book, directory, age
<1>5. wish.side \in {"buy", "sell"}  BY <1>2, StaticPassed
<1>6. /\ Lots(wish, i) # {} /\ \E u \in Units(wish, i) : u > 0
      /\ ~ \E l \in Lots(wish, i) : i.step > 0 /\ l[1] % (i.step * l[2]) # 0
      /\ ~ \E u \in Units(wish, i) : u > MaxUnits
  BY <1>2, QuantityPassed
<1>7. PICK u \in Units(wish, i) : u > 0  BY <1>6
<1>8. order.units = u /\ u \in Int /\ MaxUnits \in Int
  BY <1>1, <1>2, <1>7, OrderUnits, PreviewAssumption
<1>9. order.stop = wish.stop /\ order.target = wish.target /\ order.side = wish.side
  BY <1>2 DEF OrderOf
<1>10. order.units \in 1..MaxUnits  BY <1>6, <1>7, <1>8
<1>11. i.step > 0 /\ (wish.lots = {} \/ wish.qty = {}) => order.units % (i.step * i.grain) = 0
  BY <1>1, <1>6, <1>7, <1>8, WholeSteps
<1>12. ~age.fails /\ \E m \in age.minutes : m <= MaxAge
  <2>1. ~age.fails /\ age.minutes # {} /\ ~ \E m \in age.minutes : m > MaxAge
    BY <1>2, <1>4, FreshPassed
  <2>2. age.minutes \subseteq Int /\ MaxAge \in Int
    BY <1>1, PreviewAssumption DEF Maybe
  <2>3. QED  BY <2>1, <2>2
<1>13. /\ ~(Listed(book.positions) >= MaxOpenPositions)
       /\ ~(Listed(book.orders) >= MaxPendingOrders)
       /\ Loss(wish, i, q) # {}
       /\ \E m \in EquityOf(setting, book, directory) :
            m > 0 /\ \A l \in Loss(wish, i, q) : ~(100 * l[1] > MaxRiskPercent * m * l[2])
  BY <1>3, <1>4, AccountPassed
<1>14. Listed(book.positions) < MaxOpenPositions /\ Listed(book.orders) < MaxPendingOrders
  <2>1. Listed(book.positions) \in Int /\ Listed(book.orders) \in Int
    BY <1>1, PreviewAssumption, ListedNumber
  <2>2. MaxOpenPositions \in Int /\ MaxPendingOrders \in Int  BY PreviewAssumption
  <2>3. QED  BY <1>13, <2>1, <2>2
<1>15. PICK m \in EquityOf(setting, book, directory) :
         m > 0 /\ \A l \in Loss(wish, i, q) : ~(100 * l[1] > MaxRiskPercent * m * l[2])
  BY <1>13
<1>16. /\ QuoteSpread(q) # {} /\ ~ \E x \in QuoteSpread(q) : x > MaxSpread
       /\ Entry(wish, q) # {} /\ wish.stop # {} /\ wish.target # {}
       /\ \A e \in Entry(wish, q), x \in wish.stop : IsBeyond(wish.side, e, x)
       /\ \A e \in Entry(wish, q), x \in wish.target : IsBeyond(wish.side, x, e)
       /\ \A e \in Entry(wish, q), x \in wish.stop, y \in wish.target :
            ~(Distance(e, x) > 0 /\ Distance(e, y) > 0
                /\ 2 * Distance(e, y) < 3 * Distance(e, x))
       /\ \A x \in QuoteSpread(q), e \in Entry(wish, q), y \in wish.stop :
            ~(Distance(e, y) > 0 /\ 5 * x > Distance(e, y))
  BY <1>2, <1>4, PricePassed
<1>17. PICK e \in Entry(wish, q), stop \in wish.stop, target \in wish.target,
            x \in QuoteSpread(q) : TRUE
  BY <1>16
<1>18. /\ e \in Int /\ stop \in Int /\ target \in Int /\ x \in Int /\ m \in Int
       /\ MaxSpread \in Int /\ MaxRiskPercent \in Int /\ PipsPerPrice \in Int
  <2>1. wish.stop \subseteq Int /\ wish.target \subseteq Int
    BY <1>1, PreviewAssumption DEF Maybe
  <2>2. e \in Int /\ x \in Int /\ m \in Int
    BY <1>1, <1>15, <1>17, EntryNumbers, SpreadNumbers, EquityNumbers
  <2>3. QED  BY <1>17, <2>1, <2>2, PreviewAssumption
<1>19. IsBeyond(wish.side, e, stop) /\ IsBeyond(wish.side, target, e)
  BY <1>16, <1>17
<1>20. /\ Distance(e, stop) > 0 /\ Distance(e, target) > 0
       /\ Distance(e, stop) \in Int /\ Distance(e, target) \in Int
  BY <1>18, <1>19 DEF IsBeyond, Distance
<1>21. 2 * Distance(e, target) >= 3 * Distance(e, stop)
  BY <1>16, <1>17, <1>20
<1>22. x <= MaxSpread /\ 5 * x <= Distance(e, stop)
  BY <1>16, <1>17, <1>18, <1>20
<1> DEFINE cap == MaxRiskPercent * m * Denominator(e)
<1>23. Denominator(e) \in Int /\ cap \in Int
  <2>1. Denominator(e) \in Int  BY <1>18 DEF Denominator
  <2>2. QED  BY <1>18, <2>1
<1>24. 100 * (order.units * Distance(e, stop)) <= cap
  <2>1. i.accountIn \in {"quoting", "base"}  BY <1>13 DEF Loss
  <2>2. <<u * Distance(e, stop), Denominator(e)>> \in Loss(wish, i, q)
    BY <1>7, <1>17, <2>1 DEF Loss, Denominator, i
  <2>3. ~(100 * (u * Distance(e, stop)) > cap)  BY <1>15, <2>2
  <2>4. u * Distance(e, stop) \in Int  BY <1>8, <1>20
  <2> HIDE DEF cap
  <2>5. QED  BY <1>8, <1>23, <2>3, <2>4
<1>25. LET lower == IF order.side = "buy" THEN stop ELSE target
           upper == IF order.side = "buy" THEN target ELSE stop
       IN  /\ lower < e /\ e < upper
           /\ \A exit \in lower..upper : 100 * Result(e, exit) >= -cap
           /\ 2 * Result(e, target) >= -3 * Result(e, stop)
  <2> HIDE DEF cap
  <2>1. order.units > 0  BY <1>7, <1>8
  <2>2. QED  BY <1>5, <1>18, <1>19, <1>21, <1>23, <1>24, <2>1, LossAndGain
<1>26. \E e_1 \in Entry(wish, heard.quote), stop_1 \in order.stop, target_1 \in order.target,
          m_1 \in EquityOf(setting, heard.book, heard.directory) :
         LET lower == IF order.side = "buy" THEN stop_1 ELSE target_1
             upper == IF order.side = "buy" THEN target_1 ELSE stop_1
         IN  /\ lower < e_1 /\ e_1 < upper /\ m_1 > 0
             /\ \A exit \in lower..upper :
                  100 * Result(e_1, exit) >= -(MaxRiskPercent * m_1 * Denominator(e_1))
             /\ 2 * Result(e_1, target_1) >= -3 * Result(e_1, stop_1)
             /\ \E y \in QuoteSpread(heard.quote) :
                  y <= MaxSpread /\ 5 * y <= Distance(e_1, stop_1)
  <2>1. stop \in order.stop /\ target \in order.target /\ e \in Entry(wish, heard.quote)
        /\ m \in EquityOf(setting, heard.book, heard.directory) /\ m > 0
    BY <1>9, <1>15, <1>17 DEF q, book, directory
  <2>2. \E y \in QuoteSpread(heard.quote) : y <= MaxSpread /\ 5 * y <= Distance(e, stop)
    BY <1>17, <1>22 DEF q
  <2>3. QED  BY <1>25, <2>1, <2>2, Zenon
<1>27. QED
  BY <1>10, <1>11, <1>12, <1>14, <1>26, Zenon DEF ApprovedOrderIsCovered, i, age, book

\* An approved order, as it is sent, has its stop and target around its entry and loses no
\* more than the cap allows of the equity the preview found, whatever the broker leaves
\* unsaid or empty: the checks of each answer are remembered until the last, and none of
\* them failed (risk.js:324-645).
THEOREM ApprovalCovers == PreviewSpec => []ApprovedOrderIsCovered
BY PreviewInvariant, CoveredWhenApproved, PTL

--------------------------------------------------------------------------------
(***************************************************************************)
(* The replay, for any limits and candles and whatever trades bring. The   *)
(* places of the trades of a day are the last ones (they are Ascending),   *)
(* so that what the guards found a candle before holds of the day of the   *)
(* fill as well: it is the same day, with the same trades, or a new one,   *)
(* with none (Solvent says that there was equity to lose). Totals of       *)
(* results are taken apart by induction over prefix sums.                  *)
(***************************************************************************)

(***************************************************************************)
(* Induction: a set that holds 0 and the successor of what it holds.       *)
(***************************************************************************)
LEMMA Inductive ==
  ASSUME NEW S, 0 \in S, \A n \in Nat : n \in S => n + 1 \in S
  PROVE  Nat \subseteq S
<1> SUFFICES ASSUME Nat \ S # {} PROVE FALSE
  OBVIOUS
<1> DEFINE D == Nat \ S
           R == OpToRel(<, Nat)
<1>1. \A x, y \in Nat : <<x, y>> \in R <=> x < y
  BY DEF OpToRel
<1>2. PICK x \in D : \A y \in D : ~ (<<y, x>> \in R)
  <2>1. IsWellFoundedOn(R, Nat)
    BY NatLessThanWellFounded
  <2>2. D \subseteq Nat /\ D # {}
    OBVIOUS
  <2> HIDE DEF R, D
  <2>3. QED
    BY <2>1, <2>2, WFMin
<1> HIDE DEF R
<1>3. x \in Nat /\ x # 0 /\ x \notin S
  OBVIOUS
<1>4. x - 1 \in Nat /\ x - 1 < x /\ (x - 1) + 1 = x
  BY <1>3
<1>5. x - 1 \in S
  BY <1>1, <1>2, <1>3, <1>4
<1>6. QED
  BY <1>3, <1>4, <1>5

(***************************************************************************)
(* The total of some numbers.                                              *)
(***************************************************************************)
\* f adds up the first n numbers, one after another.
Adds(f, n, numbers) == f = [k \in 0..n |-> IF k = 0 THEN 0 ELSE f[k - 1] + numbers[k]]

Numbers(numbers, n) == numbers \in [1..n -> Int]

LEMMA AddsStep ==
  ASSUME NEW n \in Nat, NEW numbers, NEW f, Adds(f, n, numbers)
  PROVE  f[0] = 0 /\ \A k \in 1..n : f[k] = f[k - 1] + numbers[k]
<1>1. \A k \in 0..n : f[k] = IF k = 0 THEN 0 ELSE f[k - 1] + numbers[k]
  BY DEF Adds
<1>2. 0 \in 0..n /\ \A k \in 1..n : k \in 0..n /\ k # 0
  OBVIOUS
<1>3. QED
  BY <1>1, <1>2

LEMMA SumExists ==
  ASSUME NEW N \in Nat, NEW numbers, Numbers(numbers, N), NEW n \in 0..N
  PROVE  \E f \in [0..n -> Int] : Adds(f, n, numbers)
<1> DEFINE S == {m \in Nat : m <= N => \E f \in [0..m -> Int] : Adds(f, m, numbers)}
<1>1. 0 \in S
  <2> DEFINE f == [k \in 0..0 |-> 0]
  <2>1. f \in [0..0 -> Int]
    OBVIOUS
  <2>2. f = [k \in 0..0 |-> IF k = 0 THEN 0 ELSE f[k - 1] + numbers[k]]
    OBVIOUS
  <2>3. Adds(f, 0, numbers)
    BY <2>2 DEF Adds
  <2> HIDE DEF f
  <2>4. QED
    BY <2>1, <2>3
<1>2. ASSUME NEW m \in Nat, m \in S PROVE m + 1 \in S
  <2>1. SUFFICES ASSUME m + 1 <= N PROVE \E f \in [0..(m + 1) -> Int] : Adds(f, m + 1, numbers)
    OBVIOUS
  <2>2. m <= N
    BY <2>1
  <2>3. PICK f \in [0..m -> Int] : Adds(f, m, numbers)
    BY <1>2, <2>2
  <2> DEFINE g == [k \in 0..(m + 1) |-> IF k = m + 1 THEN f[m] + numbers[m + 1] ELSE f[k]]
  <2>4. f[m] \in Int /\ numbers[m + 1] \in Int
    BY <2>1 DEF Numbers
  <2>5. g \in [0..(m + 1) -> Int]
    BY <2>4
  <2>6. f[0] = 0 /\ \A k \in 1..m : f[k] = f[k - 1] + numbers[k]
    BY <2>3, AddsStep
  <2>7. ASSUME NEW k \in 0..(m + 1) PROVE g[k] = IF k = 0 THEN 0 ELSE g[k - 1] + numbers[k]
    <3>1. CASE k = 0
      BY <2>6, <3>1
    <3>2. CASE k \in 1..m
      <4>1. k - 1 \in 0..m /\ k - 1 # m + 1 /\ k # m + 1 /\ k # 0 /\ k - 1 \in 0..(m + 1)
        BY <3>2
      <4>2. g[k] = f[k] /\ g[k - 1] = f[k - 1]
        BY <4>1
      <4>3. QED
        BY <2>6, <3>2, <4>1, <4>2
    <3>3. CASE k = m + 1
      <4>1. k - 1 = m /\ m # m + 1 /\ k # 0 /\ m \in 0..(m + 1)
        BY <3>3
      <4>2. g[m] = f[m] /\ g[m + 1] = f[m] + numbers[m + 1]
        BY <4>1
      <4>3. QED
        BY <3>3, <4>1, <4>2
    <3>4. QED
      BY <3>1, <3>2, <3>3
  <2>8. g = [k \in 0..(m + 1) |-> g[k]]
    OBVIOUS
  <2> HIDE DEF g
  <2>9. Adds(g, m + 1, numbers)
    BY <2>7, <2>8 DEF Adds
  <2>10. QED
    BY <2>5, <2>9
<1>3. Nat \subseteq S
  <2> HIDE DEF S
  <2>1. QED
    BY <1>1, <1>2, Inductive
<1>4. QED
  BY <1>3

LEMMA TotalAdds ==
  ASSUME NEW N \in Nat, NEW numbers, Numbers(numbers, N)
  PROVE  \E f : Adds(f, N, numbers) /\ Total(numbers) = f[N]
<1>1. Len(numbers) = N
  BY DEF Numbers
<1> DEFINE upTo == CHOOSE f : f = [k \in 0..N |-> IF k = 0 THEN 0 ELSE f[k - 1] + numbers[k]]
<1>2. \E f : f = [k \in 0..N |-> IF k = 0 THEN 0 ELSE f[k - 1] + numbers[k]]
  <2>1. N \in 0..N
    OBVIOUS
  <2>2. \E f \in [0..N -> Int] : Adds(f, N, numbers)
    BY <2>1, SumExists
  <2>3. QED
    BY <2>2 DEF Adds
<1>3. upTo = [k \in 0..N |-> IF k = 0 THEN 0 ELSE upTo[k - 1] + numbers[k]]
  BY <1>2
<1>4. Total(numbers) = upTo[N]
  BY <1>1 DEF Total
<1> HIDE DEF upTo
<1>5. QED
  BY <1>3, <1>4 DEF Adds

\* Two functions that add up the same numbers, as far as they are the same.
LEMMA SameSums ==
  ASSUME NEW n \in Nat, NEW N \in Nat, NEW M \in Nat, n <= N, n <= M,
         NEW a, Numbers(a, N), NEW b, Numbers(b, M), \A k \in 1..n : a[k] = b[k],
         NEW f, NEW g, Adds(f, N, a), Adds(g, M, b)
  PROVE  f[n] = g[n] /\ f[n] \in Int
<1>a. f[0] = 0 /\ \A k \in 1..N : f[k] = f[k - 1] + a[k]
  BY AddsStep
<1>b. g[0] = 0 /\ \A k \in 1..M : g[k] = g[k - 1] + b[k]
  BY AddsStep
<1>0. /\ f[0] = 0 /\ \A k \in 1..N : f[k] = f[k - 1] + a[k]
      /\ g[0] = 0 /\ \A k \in 1..M : g[k] = g[k - 1] + b[k]
  BY <1>a, <1>b
<1> DEFINE S == {m \in Nat : m <= n => f[m] = g[m] /\ f[m] \in Int}
<1>1. 0 \in S
  BY <1>0
<1>2. ASSUME NEW m \in Nat, m \in S PROVE m + 1 \in S
  <2>1. SUFFICES ASSUME m + 1 <= n PROVE f[m + 1] = g[m + 1] /\ f[m + 1] \in Int
    OBVIOUS
  <2>2. m <= n /\ m + 1 \in 1..n /\ m + 1 \in 1..N /\ m + 1 \in 1..M /\ (m + 1) - 1 = m
    BY <2>1
  <2>3. f[m + 1] = f[m] + a[m + 1] /\ g[m + 1] = g[m] + b[m + 1]
    BY <1>0, <2>2
  <2>4. f[m] = g[m] /\ f[m] \in Int /\ a[m + 1] = b[m + 1] /\ a[m + 1] \in Int
    BY <1>2, <2>2 DEF Numbers
  <2>5. QED
    BY <2>3, <2>4
<1>3. Nat \subseteq S
  <2> HIDE DEF S
  <2>1. QED
    BY <1>1, <1>2, Inductive
<1>4. QED
  BY <1>3

\* The numbers after the first n are zero.
LEMMA NothingMore ==
  ASSUME NEW n \in Nat, NEW N \in Nat, n <= N, NEW a, Numbers(a, N),
         \A k \in (n + 1)..N : a[k] = 0, NEW f, Adds(f, N, a)
  PROVE  f[N] = f[n]
<1>0. f[0] = 0 /\ \A k \in 1..N : f[k] = f[k - 1] + a[k]
  BY AddsStep
<1>1. f[n] \in Int
  BY SameSums
<1> DEFINE S == {m \in Nat : n + m <= N => f[n + m] = f[n]}
<1>2. 0 \in S
  OBVIOUS
<1>3. ASSUME NEW m \in Nat, m \in S PROVE m + 1 \in S
  <2>1. SUFFICES ASSUME n + (m + 1) <= N PROVE f[n + (m + 1)] = f[n]
    OBVIOUS
  <2> DEFINE k == n + (m + 1)
  <2>2. k \in 1..N /\ k \in (n + 1)..N /\ k - 1 = n + m /\ n + m <= N
    BY <2>1
  <2> HIDE DEF k
  <2>3. f[k] = f[n + m] + a[k] /\ a[k] = 0 /\ f[n + m] = f[n]
    BY <1>0, <1>3, <2>2
  <2>4. QED
    BY <1>1, <2>3 DEF k
<1>4. Nat \subseteq S
  <2> HIDE DEF S
  <2>1. QED
    BY <1>2, <1>3, Inductive
<1>5. N - n \in Nat /\ n + (N - n) = N
  OBVIOUS
<1>6. n + (N - n) <= N => f[n + (N - n)] = f[n]
  BY <1>4, <1>5
<1>7. QED
  BY <1>5, <1>6

Trades == [entryIndex : Int, entryTime : Nat, exitIndex : Int, pnl : Int]

LEMMA PnlNumbers ==
  ASSUME NEW ts \in Seq(Trades), NEW S
  PROVE  LET v == [k \in 1..Len(ts) |-> IF k \in S THEN ts[k].pnl ELSE 0]
         IN  Numbers(v, Len(ts)) /\ Pnl(ts, S) = Total(v) /\ Len(ts) \in Nat
<1>1. \A k \in 1..Len(ts) : ts[k] \in Trades
  BY ElementOfSeq
<1>2. \A k \in 1..Len(ts) : ts[k].pnl \in Int
  BY <1>1 DEF Trades
<1>3. QED
  BY <1>2 DEF Pnl, Numbers

LEMMA PnlIsInt ==
  ASSUME NEW ts \in Seq(Trades), NEW S
  PROVE  Pnl(ts, S) \in Int
<1> DEFINE v == [k \in 1..Len(ts) |-> IF k \in S THEN ts[k].pnl ELSE 0]
<1>1. Numbers(v, Len(ts)) /\ Pnl(ts, S) = Total(v) /\ Len(ts) \in Nat
  BY PnlNumbers
<1> HIDE DEF v
<1>2. PICK f : Adds(f, Len(ts), v) /\ Total(v) = f[Len(ts)]
  BY <1>1, TotalAdds
<1>3. f[Len(ts)] \in Int
  BY <1>1, <1>2, SameSums
<1>4. QED
  BY <1>1, <1>2, <1>3

\* What the first n trades brought, counted with or without those that came after.
LEMMA PnlOfPrefix ==
  ASSUME NEW ts \in Seq(Trades), NEW n \in 0..Len(ts), NEW us \in Seq(Trades), Len(us) = n,
         \A k \in 1..n : us[k] = ts[k], NEW S \in SUBSET (1..n)
  PROVE  Pnl(ts, S) = Pnl(us, S)
<1> DEFINE v == [k \in 1..Len(ts) |-> IF k \in S THEN ts[k].pnl ELSE 0]
           w == [k \in 1..Len(us) |-> IF k \in S THEN us[k].pnl ELSE 0]
           N == Len(ts)
<1>1. Numbers(v, N) /\ Pnl(ts, S) = Total(v) /\ N \in Nat
  BY PnlNumbers
<1>2. Numbers(w, n) /\ Pnl(us, S) = Total(w) /\ n \in Nat
  BY PnlNumbers
<1>3. \A k \in 1..n : v[k] = w[k]
  <2>1. \A k \in 1..n : k \in 1..Len(ts)
    BY <1>1
  <2>2. QED
    BY <2>1
<1>4. \A k \in (n + 1)..N : v[k] = 0
  <2>1. \A k \in (n + 1)..N : k \in 1..N /\ k \notin S
    BY <1>1, <1>2
  <2>2. QED
    BY <2>1
<1> HIDE DEF v, w
<1>5. PICK f : Adds(f, N, v) /\ Total(v) = f[N]
  BY <1>1, TotalAdds
<1>6. PICK g : Adds(g, n, w) /\ Total(w) = g[n]
  BY <1>2, TotalAdds
<1>7. n <= N
  BY <1>1
<1> HIDE DEF N
<1>8. f[N] = f[n]
  BY <1>1, <1>2, <1>4, <1>5, <1>7, NothingMore
<1>9. f[n] = g[n]
  <2>1. n <= n /\ Adds(f, N, v) /\ Adds(g, n, w)
    BY <1>2, <1>5, <1>6
  <2>2. QED
    BY <1>1, <1>2, <1>3, <1>7, <2>1, SameSums
<1>10. QED
  BY <1>1, <1>2, <1>5, <1>6, <1>8, <1>9

LEMMA PnlOfEmpty ==
  ASSUME NEW us \in Seq(Trades), Len(us) = 0, NEW S
  PROVE  Pnl(us, S) = 0
<1> DEFINE v == [k \in 1..Len(us) |-> IF k \in S THEN us[k].pnl ELSE 0]
<1>1. Numbers(v, Len(us)) /\ Pnl(us, S) = Total(v)
  BY PnlNumbers
<1> HIDE DEF v
<1>2. Numbers(v, 0)
  BY <1>1
<1>3. PICK f : Adds(f, 0, v) /\ Total(v) = f[0]
  BY <1>2, TotalAdds
<1>4. f[0] = 0
  BY <1>3, AddsStep
<1>5. QED
  BY <1>1, <1>3, <1>4

LEMMA PnlOfNone ==
  ASSUME NEW ts \in Seq(Trades)
  PROVE  Pnl(ts, {}) = 0
<1> DEFINE us == SubSeq(ts, 1, 0)
<1>1. us = <<>> /\ us \in Seq(Trades) /\ Len(us) = 0 /\ 0 \in 0..Len(ts)
  BY SubSeqEmpty, EmptySeq
<1> HIDE DEF us
<1>2. Pnl(ts, {}) = Pnl(us, {})
  <2>1. {} \in SUBSET (1..0) /\ \A k \in 1..0 : us[k] = ts[k]
    OBVIOUS
  <2>2. QED
    BY <1>1, <2>1, PnlOfPrefix
<1>3. QED
  BY <1>1, <1>2, PnlOfEmpty

(***************************************************************************)
(* Days and weeks.                                                         *)
(***************************************************************************)
LEMMA LeastPlace ==
  ASSUME NEW S \in SUBSET Nat, S # {}
  PROVE  \E m \in S : \A k \in S : m <= k
<1> DEFINE R == OpToRel(<, Nat)
<1>1. \A x, y \in Nat : <<x, y>> \in R <=> x < y
  BY DEF OpToRel
<1>2. PICK m \in S : \A k \in S : ~ (<<k, m>> \in R)
  <2>1. IsWellFoundedOn(R, Nat)
    BY NatLessThanWellFounded
  <2> HIDE DEF R
  <2>2. QED
    BY <2>1, WFMin
<1> HIDE DEF R
<1>3. \A k \in S : k \in Nat /\ m \in Nat /\ ~ (k < m)
  BY <1>1, <1>2
<1>4. \A k \in S : m <= k
  BY <1>3
<1>5. QED
  BY <1>4

LEMMA KeysAscend ==
  ASSUME NEW length \in Nat \ {0}, NEW a \in Nat, NEW b \in Nat, a <= b
  PROVE  Key(length, a) \in Int /\ Key(length, b) \in Int /\ Key(length, a) <= Key(length, b)
<1> DEFINE q == a \div length
           r == b \div length
<1>1. q \in Int /\ r \in Int /\ length * q <= a /\ b < length * r + length
  BY Z3
<1> HIDE DEF q, r
<1>2. ASSUME q > r PROVE FALSE
  <2>1. q >= r + 1
    BY <1>1, <1>2
  <2>2. length * q >= length * (r + 1)
    BY <1>1, <2>1, Z3
  <2>3. length * (r + 1) = length * r + length
    BY <1>1, Z3
  <2>4. length * q \in Int /\ length * r \in Int
    BY <1>1
  <2>5. QED
    BY <1>1, <2>2, <2>3, <2>4
<1>3. q <= r
  BY <1>1, <1>2
<1>4. QED
  BY <1>1, <1>3 DEF q, r, Key

\* The trades were entered one after another, none later than t.
Ascending(ts, t) ==
  \A k \in 1..Len(ts) : /\ ts[k].entryTime <= t
                       /\ \A j \in 1..k : ts[j].entryTime <= ts[k].entryTime

\* There was something left whenever a trade was entered.
Solvent(ts) == \A n \in 0..(Len(ts) - 1) : EquityAfter(SubSeq(ts, 1, n)) > 0

LEMMA TradeTimes ==
  ASSUME NEW ts \in Seq(Trades), NEW k \in 1..Len(ts)
  PROVE  ts[k] \in Trades /\ ts[k].entryTime \in Nat /\ Len(ts) \in Nat
<1>1. ts[k] \in Trades
  BY ElementOfSeq
<1>2. QED
  BY <1>1 DEF Trades

\* On another day than that of t1 nothing was entered before t2.
LEMMA NextPeriod ==
  ASSUME NEW length \in Nat \ {0}, NEW ts \in Seq(Trades), NEW t1 \in Nat, NEW t2 \in Nat, t1 <= t2,
         Ascending(ts, t1)
  PROVE  \/ Of(length, ts, t2) = Of(length, ts, t1)
         \/ Of(length, ts, t2) = {}
<1>1. CASE Key(length, t2) = Key(length, t1)
  BY <1>1 DEF Of
<1>2. CASE Key(length, t2) # Key(length, t1)
  <2>1. ASSUME NEW k \in 1..Len(ts) PROVE Key(length, ts[k].entryTime) # Key(length, t2)
    <3>1. ts[k].entryTime \in Nat /\ ts[k].entryTime <= t1
      BY TradeTimes DEF Ascending
    <3>2. /\ Key(length, ts[k].entryTime) \in Int /\ Key(length, t1) \in Int /\ Key(length, t2) \in Int
          /\ Key(length, ts[k].entryTime) <= Key(length, t1) /\ Key(length, t1) <= Key(length, t2)
      BY <3>1, KeysAscend
    <3>3. QED
      BY <1>2, <3>2
  <2>2. QED
    BY <2>1 DEF Of
<1>3. QED
  BY <1>1, <1>2

\* The trades of the period that t1 is in are the last ones.
LEMMA PeriodIsASuffix ==
  ASSUME NEW length \in Nat \ {0}, NEW ts \in Seq(Trades), NEW t \in Nat, Ascending(ts, t),
         NEW j \in Of(length, ts, t), NEW k \in j..Len(ts)
  PROVE  k \in Of(length, ts, t)
<1>1. j \in 1..Len(ts) /\ k \in 1..Len(ts) /\ j \in 1..k /\ Key(length, ts[j].entryTime) = Key(length, t)
  BY DEF Of
<1>2. ts[j].entryTime \in Nat /\ ts[k].entryTime \in Nat
  BY <1>1, TradeTimes
<1>3. ts[j].entryTime <= ts[k].entryTime /\ ts[k].entryTime <= t
  BY <1>1 DEF Ascending
<1>4. /\ Key(length, ts[j].entryTime) \in Int /\ Key(length, ts[k].entryTime) \in Int
      /\ Key(length, ts[j].entryTime) <= Key(length, ts[k].entryTime)
  BY <1>2, <1>3, KeysAscend
<1>5. /\ Key(length, t) \in Int /\ Key(length, ts[k].entryTime) <= Key(length, t)
  BY <1>2, <1>3, KeysAscend
<1>6. Key(length, ts[k].entryTime) = Key(length, t)
  BY <1>1, <1>4, <1>5
<1>7. QED
  BY <1>1, <1>6 DEF Of

LEMMA PrefixOf ==
  ASSUME NEW S, NEW s \in Seq(S), NEW n \in 0..Len(s)
  PROVE  /\ SubSeq(s, 1, n) \in Seq(S) /\ Len(SubSeq(s, 1, n)) = n
         /\ \A i \in 1..n : SubSeq(s, 1, n)[i] = s[i]
<1>1. n \in Nat /\ \A i \in 1..n : s[i] \in S
  <2>1. Len(s) \in Nat
    OBVIOUS
  <2>2. \A i \in 1..n : i \in 1..Len(s)
    BY <2>1
  <2>3. QED
    BY <2>1, <2>2, ElementOfSeq
<1>2. SubSeq(s, 1, n) \in Seq(S) /\ Len(SubSeq(s, 1, n)) = (IF 1 <= n THEN n - 1 + 1 ELSE 0)
      /\ \A i \in 1..(n - 1 + 1) : SubSeq(s, 1, n)[i] = s[1 + i - 1]
  BY <1>1, SubSeqProperties
<1>3. n - 1 + 1 = n /\ (IF 1 <= n THEN n - 1 + 1 ELSE 0) = n /\ \A i \in 1..n : 1 + i - 1 = i
  BY <1>1
<1>4. QED
  BY <1>2, <1>3

\* What was there before the period was something.
LEMMA PeriodBegins ==
  ASSUME NEW length \in Nat \ {0}, NEW ts \in Seq(Trades), NEW t \in Nat, Ascending(ts, t),
         Solvent(ts), EquityAfter(ts) > 0
  PROVE  LET S == Of(length, ts, t)
         IN  /\ EquityBefore(length, ts, t) = StartingBalance + Pnl(ts, (1..Len(ts)) \ S)
             /\ EquityBefore(length, ts, t) > 0
<1> DEFINE S == Of(length, ts, t)
           N == Len(ts)
<1>1. {k \in 1..N : \A j \in 1..k : j \notin S} = (1..N) \ S
  <2>1. N \in Nat
    OBVIOUS
  <2>2. ASSUME NEW k \in 1..N, k \notin S, NEW j \in 1..k PROVE j \notin S
    <3>1. k \in j..N
      BY <2>1
    <3>2. QED
      BY <2>2, <3>1, PeriodIsASuffix
  <2>3. \A k \in 1..N : k \in 1..k
    BY <2>1
  <2> HIDE DEF S, N
  <2>4. QED
    BY <2>2, <2>3
<1>2. EquityBefore(length, ts, t) = StartingBalance + Pnl(ts, (1..N) \ S)
  BY <1>1 DEF EquityBefore
<1>3. CASE S = {}
  <2>1. (1..N) \ S = 1..N
    BY <1>3
  <2>2. QED
    BY <1>2, <2>1 DEF EquityAfter
<1>4. CASE S # {}
  <2>1. S \in SUBSET Nat
    BY DEF Of
  <2>2. PICK m \in S : \A k \in S : m <= k
    BY <1>4, <2>1, LeastPlace
  <2>3. m \in 1..N /\ N \in Nat
    BY DEF Of
  <2>4. (1..N) \ S = 1..(m - 1)
    <3>1. ASSUME NEW k \in 1..N PROVE k \notin S <=> k < m
      <4>1. CASE k < m
        BY <2>2, <2>3, <4>1
      <4>2. CASE ~ (k < m)
        <5>1. k \in m..N
          BY <2>3, <4>2
        <5>2. QED
          BY <4>2, <5>1, PeriodIsASuffix
      <4>3. QED
        BY <4>1, <4>2
    <3> HIDE DEF S, N
    <3>2. \A k : k \in 1..(m - 1) <=> (k \in 1..N /\ k < m)
      BY <2>3
    <3>3. QED
      BY <3>1, <3>2
  <2> DEFINE n == m - 1
             us == SubSeq(ts, 1, n)
  <2>5. n \in 0..N /\ n \in 0..(N - 1)
    BY <2>3
  <2>6. us \in Seq(Trades) /\ Len(us) = n /\ \A i \in 1..n : us[i] = ts[i]
    BY <2>5, PrefixOf
  <2>7. EquityAfter(us) > 0
    BY <2>5 DEF Solvent
  <2> HIDE DEF n, us
  <2>8. Pnl(ts, 1..n) = Pnl(us, 1..n)
    <3>1. 1..n \in SUBSET (1..n)
      OBVIOUS
    <3>2. QED
      BY <2>5, <2>6, <3>1, PnlOfPrefix
  <2>9. EquityAfter(us) = StartingBalance + Pnl(us, 1..n)
    BY <2>6 DEF EquityAfter
  <2>10. QED
    BY <1>2, <2>4, <2>7, <2>8, <2>9 DEF n
<1>5. QED
  BY <1>2, <1>3, <1>4

(***************************************************************************)
(* A decision that the guards let pass, filled at the next candle.         *)
(***************************************************************************)
Lengths == {DayLength, WeekLength}

LEMMA LengthsTyped == \A length \in Lengths : length \in Nat \ {0}
  BY TimesAssumption DEF Lengths

LEMMA GuardsPassed ==
  ASSUME NEW ts, NEW i, NEW t, evaluateTradeGuard(ts, i, t) = {}
  PROVE  /\ ~DailyTradesReached(ts, t)
         /\ ~LossReached(DayLength, dailyLossPercent, ts, t)
         /\ ~LossReached(WeekLength, weeklyLossPercent, ts, t)
         /\ ~ (consecutiveLossesToday(ts, t) >= stopAfterLosses)
         /\ ~ (ts # <<>> /\ i - ts[Len(ts)].exitIndex <= cooldownBars)
  BY Zenon DEF evaluateTradeGuard

LEMMA LimitKept ==
  ASSUME NEW length \in Lengths, NEW percent \in Nat \ {0}, NEW ts \in Seq(Trades),
         NEW t1 \in Nat, NEW t2 \in Nat, t1 <= t2, Ascending(ts, t1), Solvent(ts), EquityAfter(ts) > 0,
         ~LossReached(length, percent, ts, t1)
  PROVE  LET S == Of(length, ts, t2)
         IN  ~ (-100 * Pnl(ts, S) >= percent * (StartingBalance + Pnl(ts, (1..Len(ts)) \ S)))
<1> DEFINE S == Of(length, ts, t2)
           lost == Pnl(ts, S)
           rest == Pnl(ts, (1..Len(ts)) \ S)
<1>1. lost \in Int /\ rest \in Int /\ StartingBalance \in Int /\ length \in Nat \ {0}
  BY PnlIsInt, GuardsAssumption, LengthsTyped
<1>2. CASE Of(length, ts, t2) = Of(length, ts, t1)
  <2>1. /\ EquityBefore(length, ts, t1) = StartingBalance + rest /\ EquityBefore(length, ts, t1) > 0
    BY <1>1, <1>2, PeriodBegins
  <2>2. ~ (100 * lost <= -(percent * (StartingBalance + rest)))
    BY <1>2, <2>1 DEF LossReached
  <2> HIDE DEF lost, rest, S
  <2> DEFINE limit == percent * (StartingBalance + rest)
  <2>3. limit \in Int
    BY <1>1
  <2>4. ~ (100 * lost <= -limit)
    BY <2>2
  <2> HIDE DEF limit
  <2>5. ~ (-100 * lost >= limit)
    BY <1>1, <2>3, <2>4
  <2>6. QED
    BY <2>5 DEF limit, lost, rest, S
<1>3. CASE S = {}
  <2>1. lost = 0
    BY <1>3, PnlOfNone
  <2>2. StartingBalance + rest > 0
    <3>1. (1..Len(ts)) \ S = 1..Len(ts)
      BY <1>3
    <3>2. QED
      BY <3>1 DEF EquityAfter
  <2> HIDE DEF lost, rest, S
  <2> DEFINE equity == StartingBalance + rest
  <2>3. equity \in Int /\ equity > 0
    BY <1>1, <2>2
  <2> HIDE DEF equity
  <2>4. percent * equity > 0
    BY <2>3, Z3
  <2>5. ~ (-100 * lost >= percent * equity)
    BY <2>1, <2>4, <2>3
  <2>6. QED
    BY <2>5 DEF equity, lost, rest, S
<1>4. QED
  BY <1>1, <1>2, <1>3, NextPeriod

LEMMA NumberKept ==
  ASSUME NEW ts \in Seq(Trades), NEW t1 \in Nat, NEW t2 \in Nat, t1 <= t2, Ascending(ts, t1),
         ~DailyTradesReached(ts, t1)
  PROVE  Cardinality(Of(DayLength, ts, t2)) < maxDailyTrades
<1>1. maxDailyTrades \in Nat \ {0} /\ DayLength \in Nat \ {0}
  BY GuardsAssumption, TimesAssumption
<1>2. IsFiniteSet(Of(DayLength, ts, t1))
  <2>1. Len(ts) \in Nat /\ Of(DayLength, ts, t1) \subseteq 1..Len(ts)
    BY DEF Of
  <2>2. IsFiniteSet(1..Len(ts))
    BY <2>1, FS_Interval
  <2>3. QED
    BY <2>1, <2>2, FS_Subset
<1>3. Cardinality(Of(DayLength, ts, t1)) \in Nat
  BY <1>2, FS_CardinalityType
<1>4. Cardinality(Of(DayLength, ts, t1)) < maxDailyTrades
  BY <1>1, <1>3 DEF DailyTradesReached
<1>5. CASE Of(DayLength, ts, t2) = {}
  BY <1>1, <1>5, FS_EmptySet
<1>6. QED
  BY <1>1, <1>4, <1>5, NextPeriod

LEMMA StreakKept ==
  ASSUME NEW ts \in Seq(Trades), NEW t1 \in Nat, NEW t2 \in Nat, t1 <= t2, Ascending(ts, t1),
         ~ (consecutiveLossesToday(ts, t1) >= stopAfterLosses),
         NEW j \in Of(DayLength, ts, t2), \A n \in j..Len(ts) : ts[n].pnl < 0
  PROVE  ~ (Len(ts) - j + 1 >= stopAfterLosses)
<1> DEFINE N == Len(ts)
           streak == {k \in 1..N : \A i \in k..N : i \in Of(DayLength, ts, t1) /\ ts[i].pnl < 0}
<1>1. N \in Nat /\ DayLength \in Nat \ {0} /\ stopAfterLosses \in Nat
  BY GuardsAssumption, TimesAssumption
<1>2. j \in Of(DayLength, ts, t1) /\ j \in 1..N
  <2>1. Of(DayLength, ts, t2) = Of(DayLength, ts, t1)
    BY <1>1, NextPeriod
  <2>2. QED
    BY <2>1 DEF Of
<1>3. j..N \subseteq streak
  <2>1. ASSUME NEW k \in j..N, NEW i \in k..N
        PROVE  i \in Of(DayLength, ts, t1) /\ ts[i].pnl < 0
    <3>1. i \in j..N
      BY <1>1, <1>2
    <3>2. QED
      BY <1>1, <1>2, <3>1, PeriodIsASuffix
  <2>2. j..N \subseteq 1..N
    BY <1>1, <1>2
  <2>3. QED
    BY <2>1, <2>2
<1>4. consecutiveLossesToday(ts, t1) = Cardinality(streak)
  BY DEF consecutiveLossesToday
<1>5. IsFiniteSet(streak)
  <2>1. streak \in SUBSET (1..N)
    OBVIOUS
  <2> HIDE DEF streak, N
  <2>2. IsFiniteSet(1..N)
    BY <1>1, FS_Interval
  <2>3. QED
    BY <2>1, <2>2, FS_Subset
<1> HIDE DEF streak, N
<1>6. Cardinality(j..N) = N - j + 1
  BY <1>1, <1>2, FS_Interval
<1>7. Cardinality(j..N) <= Cardinality(streak) /\ Cardinality(streak) \in Nat
  BY <1>3, <1>5, FS_Subset, FS_CardinalityType
<1>8. ~ (N - j + 1 >= stopAfterLosses)
  BY <1>1, <1>2, <1>4, <1>6, <1>7
<1>9. QED
  BY <1>8 DEF N

LEMMA FillKeepsLimits ==
  ASSUME NEW ts \in Seq(Trades), NEW i \in Int, NEW t1 \in Nat, NEW t2 \in Nat, t1 < t2, t1 >= PeriodStart,
         Ascending(ts, t1), Solvent(ts), EquityAfter(ts) > 0, evaluateTradeGuard(ts, i, t1) = {},
         NEW e \in Trades, e.entryTime = t2, e.entryIndex = i + 1
  PROVE  KeepsLimits(ts, e)
<1>1. t1 <= t2 /\ PeriodStart \in Nat /\ cooldownBars \in Nat /\ dailyLossPercent \in Nat \ {0}
      /\ weeklyLossPercent \in Nat \ {0}
  BY GuardsAssumption, TimesAssumption
<1>2. t2 > PeriodStart
  BY <1>1
<1>3. Cardinality(Of(DayLength, ts, t2)) < maxDailyTrades
  BY <1>1, GuardsPassed, NumberKept
<1>4. /\ ~LossReached(DayLength, dailyLossPercent, ts, t1) /\ ~LossReached(WeekLength, weeklyLossPercent, ts, t1)
      /\ DayLength \in Lengths /\ WeekLength \in Lengths
  BY GuardsPassed DEF Lengths
<1>5. LET S == Of(DayLength, ts, t2)
      IN  ~ (-100 * Pnl(ts, S) >= dailyLossPercent * (StartingBalance + Pnl(ts, (1..Len(ts)) \ S)))
  BY <1>1, <1>4, LimitKept
<1>6. LET S == Of(WeekLength, ts, t2)
      IN  ~ (-100 * Pnl(ts, S) >= weeklyLossPercent * (StartingBalance + Pnl(ts, (1..Len(ts)) \ S)))
  BY <1>1, <1>4, LimitKept
<1>7. ~ \E j \in Of(DayLength, ts, t2) :
         Len(ts) - j + 1 >= stopAfterLosses /\ \A n \in j..Len(ts) : ts[n].pnl < 0
  <2>1. ~ (consecutiveLossesToday(ts, t1) >= stopAfterLosses)
    BY GuardsPassed
  <2>2. QED
    BY <1>1, <2>1, StreakKept
<1>8. ts # <<>> => (i + 1) - ts[Len(ts)].exitIndex > cooldownBars + 1
  <2> SUFFICES ASSUME ts # <<>> PROVE (i + 1) - ts[Len(ts)].exitIndex > cooldownBars + 1
    OBVIOUS
  <2>1. ~ (i - ts[Len(ts)].exitIndex <= cooldownBars)
    BY GuardsPassed
  <2>2. ts[Len(ts)] \in Trades
    <3>1. Len(ts) \in 1..Len(ts)
      OBVIOUS
    <3>2. QED
      BY <3>1, ElementOfSeq
  <2>3. ts[Len(ts)].exitIndex \in Int
    BY <2>2 DEF Trades
  <2>4. QED
    BY <1>1, <2>1, <2>3
<1>9. QED
  BY <1>2, <1>3, <1>5, <1>6, <1>7, <1>8, Zenon DEF KeepsLimits

(***************************************************************************)
(* The entries, in the order of their times.                               *)
(***************************************************************************)
Limited(es) == \A k \in 1..Len(es) : KeepsLimits(SubSeq(es, 1, k - 1), es[k])

Sound(es, t) == es \in Seq(Trades) /\ Ascending(es, t) /\ Solvent(es) /\ Limited(es)

LEMMA PrefixOfAppend ==
  ASSUME NEW S, NEW s \in Seq(S), NEW e \in S, NEW n \in 0..Len(s)
  PROVE  SubSeq(Append(s, e), 1, n) = SubSeq(s, 1, n)
<1> DEFINE a == Append(s, e)
<1>1. a \in Seq(S) /\ Len(a) = Len(s) + 1 /\ (\A i \in 1..Len(s) : a[i] = s[i]) /\ Len(s) \in Nat
  BY AppendProperties
<1> HIDE DEF a
<1>2. n \in 0..Len(a) /\ \A i \in 1..n : i \in 1..Len(s)
  BY <1>1
<1>3. /\ SubSeq(a, 1, n) \in Seq(S) /\ Len(SubSeq(a, 1, n)) = n /\ \A i \in 1..n : SubSeq(a, 1, n)[i] = a[i]
  BY <1>1, <1>2, PrefixOf
<1>4. /\ SubSeq(s, 1, n) \in Seq(S) /\ Len(SubSeq(s, 1, n)) = n /\ \A i \in 1..n : SubSeq(s, 1, n)[i] = s[i]
  BY PrefixOf
<1>5. SubSeq(a, 1, n) = SubSeq(s, 1, n)
  <2>1. \A i \in 1..n : SubSeq(a, 1, n)[i] = SubSeq(s, 1, n)[i]
    BY <1>1, <1>2, <1>3, <1>4
  <2>2. QED
    BY <1>3, <1>4, <2>1, SeqEqual
<1>6. QED
  BY <1>5 DEF a

LEMMA LimitedAppend ==
  ASSUME NEW ts \in Seq(Trades), NEW e \in Trades
  PROVE  Limited(Append(ts, e)) <=> (Limited(ts) /\ KeepsLimits(ts, e))
<1> DEFINE N == Len(ts)
           es == Append(ts, e)
<1>1. /\ N \in Nat /\ Len(es) = N + 1 /\ es[N + 1] = e /\ \A k \in 1..N : es[k] = ts[k]
  BY AppendProperties
<1>2. \A n \in 0..N : SubSeq(es, 1, n) = SubSeq(ts, 1, n)
  BY PrefixOfAppend
<1>3. SubSeq(ts, 1, N) = ts
  <2>1. N \in 0..N
    BY <1>1
  <2>2. Len(SubSeq(ts, 1, N)) = N /\ SubSeq(ts, 1, N) \in Seq(Trades) /\ \A i \in 1..N : SubSeq(ts, 1, N)[i] = ts[i]
    BY <2>1, PrefixOf
  <2>3. QED
    BY <2>2, SeqEqual
<1> HIDE DEF es
<1>4. KeepsLimits(SubSeq(es, 1, (N + 1) - 1), es[N + 1]) <=> KeepsLimits(ts, e)
  <2>1. (N + 1) - 1 = N /\ N \in 0..N
    BY <1>1
  <2>2. SubSeq(es, 1, (N + 1) - 1) = ts
    BY <1>2, <1>3, <2>1
  <2>3. QED
    BY <1>1, <2>2
<1>5. ASSUME NEW k \in 1..N
      PROVE  KeepsLimits(SubSeq(es, 1, k - 1), es[k]) <=> KeepsLimits(SubSeq(ts, 1, k - 1), ts[k])
  <2>1. k - 1 \in 0..N
    BY <1>1
  <2>2. SubSeq(es, 1, k - 1) = SubSeq(ts, 1, k - 1) /\ es[k] = ts[k]
    BY <1>1, <1>2, <2>1
  <2>3. QED
    BY <2>2
<1>6. Limited(es) <=> /\ \A k \in 1..N : KeepsLimits(SubSeq(es, 1, k - 1), es[k])
                      /\ KeepsLimits(SubSeq(es, 1, (N + 1) - 1), es[N + 1])
  <2>1. \A k : k \in 1..Len(es) <=> (k \in 1..N \/ k = N + 1)
    BY <1>1
  <2> HIDE DEF N
  <2>2. QED
    BY <2>1, Zenon DEF Limited
<1>7. Limited(ts) <=> \A k \in 1..N : KeepsLimits(SubSeq(ts, 1, k - 1), ts[k])
  BY Zenon DEF Limited
<1>8. QED
  BY <1>4, <1>5, <1>6, <1>7, Zenon DEF es

LEMMA SolventAppend ==
  ASSUME NEW ts \in Seq(Trades), NEW e \in Trades
  PROVE  Solvent(Append(ts, e)) <=> (Solvent(ts) /\ EquityAfter(ts) > 0)
<1> DEFINE N == Len(ts)
           es == Append(ts, e)
<1>1. N \in Nat /\ Len(es) = N + 1
  BY AppendProperties
<1>2. \A n \in 0..N : SubSeq(es, 1, n) = SubSeq(ts, 1, n)
  BY PrefixOfAppend
<1>3. SubSeq(ts, 1, N) = ts
  <2>1. N \in 0..N
    BY <1>1
  <2>2. Len(SubSeq(ts, 1, N)) = N /\ SubSeq(ts, 1, N) \in Seq(Trades) /\ \A i \in 1..N : SubSeq(ts, 1, N)[i] = ts[i]
    BY <2>1, PrefixOf
  <2>3. QED
    BY <2>2, SeqEqual
<1>4. \A n : n \in 0..(Len(es) - 1) <=> (n \in 0..(N - 1) \/ n = N)
  BY <1>1
<1>5. \A n \in 0..(N - 1) : n \in 0..N
  BY <1>1
<1>6. N \in 0..N
  BY <1>1
<1>7. SubSeq(es, 1, N) = ts
  BY <1>2, <1>3, <1>6
<1> HIDE DEF es, N
<1>8. Solvent(es) <=> ((\A n \in 0..(N - 1) : EquityAfter(SubSeq(es, 1, n)) > 0) /\ EquityAfter(SubSeq(es, 1, N)) > 0)
  BY <1>4, Zenon DEF Solvent
<1>9. (\A n \in 0..(N - 1) : EquityAfter(SubSeq(es, 1, n)) > 0) <=> Solvent(ts)
  BY <1>2, <1>5, Zenon DEF Solvent, N
<1>10. QED
  BY <1>7, <1>8, <1>9, Zenon DEF es

LEMMA AscendingAppend ==
  ASSUME NEW ts \in Seq(Trades), NEW e \in Trades, NEW t1 \in Int, NEW t2 \in Int, t1 <= t2, Ascending(ts, t1),
         t1 <= e.entryTime, e.entryTime <= t2
  PROVE  Ascending(Append(ts, e), t2)
<1> DEFINE N == Len(ts)
           es == Append(ts, e)
<1>1. /\ N \in Nat /\ Len(es) = N + 1 /\ es[N + 1] = e /\ \A k \in 1..N : es[k] = ts[k]
  BY AppendProperties
<1> HIDE DEF es
<1>2. e.entryTime \in Int /\ \A k \in 1..N : ts[k].entryTime \in Int
  <2>1. e.entryTime \in Int
    BY DEF Trades
  <2>2. \A k \in 1..Len(ts) : ts[k].entryTime \in Nat
    BY TradeTimes
  <2>3. QED
    BY <2>1, <2>2
<1>3. \A k \in 1..N : ts[k].entryTime <= t1 /\ \A j \in 1..k : ts[j].entryTime <= ts[k].entryTime
  BY DEF Ascending
<1> HIDE DEF N
<1>4. ASSUME NEW k \in 1..Len(es)
      PROVE  es[k].entryTime <= t2 /\ \A j \in 1..k : es[j].entryTime <= es[k].entryTime
  <2>1. CASE k \in 1..N
    <3>1. \A j \in 1..k : j \in 1..N
      BY <1>1, <2>1
    <3>2. es[k] = ts[k] /\ \A j \in 1..k : es[j] = ts[j]
      BY <1>1, <2>1, <3>1
    <3>3. QED
      BY <1>2, <1>3, <2>1, <3>2
  <2>2. CASE k = N + 1
    <3>1. ASSUME NEW j \in 1..k PROVE es[j].entryTime <= e.entryTime
      <4>1. CASE j \in 1..N
        BY <1>1, <1>2, <1>3, <4>1
      <4>2. CASE j = N + 1
        BY <1>1, <1>2, <4>2
      <4>3. QED
        BY <1>1, <2>2, <4>1, <4>2
    <3>2. QED
      BY <1>1, <2>2, <3>1
  <2>3. QED
    BY <1>1, <2>1, <2>2
<1>5. QED
  BY <1>4 DEF Ascending, es

LEMMA AscendingFront ==
  ASSUME NEW ts \in Seq(Trades), NEW e \in Trades, NEW t, Ascending(Append(ts, e), t)
  PROVE  Ascending(ts, t) /\ e.entryTime <= t /\ \A k \in 1..Len(ts) : ts[k].entryTime <= e.entryTime
<1> DEFINE N == Len(ts)
           es == Append(ts, e)
<1>1. /\ N \in Nat /\ Len(es) = N + 1 /\ es[N + 1] = e /\ \A k \in 1..N : es[k] = ts[k]
  BY AppendProperties
<1> HIDE DEF es
<1>2. /\ N + 1 \in 1..Len(es)
      /\ \A k \in 1..N : k \in 1..(N + 1) /\ k \in 1..Len(es) /\ \A j \in 1..k : j \in 1..N
  BY <1>1
<1> HIDE DEF N
<1>3. \A k \in 1..Len(es) : es[k].entryTime <= t /\ \A j \in 1..k : es[j].entryTime <= es[k].entryTime
  BY DEF Ascending, es
<1>4. e.entryTime <= t
  BY <1>1, <1>2, <1>3
<1>5. \A k \in 1..N : ts[k].entryTime <= e.entryTime
  BY <1>1, <1>2, <1>3
<1>6. \A k \in 1..N : ts[k].entryTime <= t /\ \A j \in 1..k : ts[j].entryTime <= ts[k].entryTime
  BY <1>1, <1>2, <1>3
<1>7. QED
  BY <1>4, <1>5, <1>6 DEF Ascending, N

LEMMA SoundLater ==
  ASSUME NEW es, NEW t1 \in Int, NEW t2 \in Int, t1 <= t2, Sound(es, t1)
  PROVE  Sound(es, t2)
<1>1. es \in Seq(Trades) /\ Ascending(es, t1) /\ Solvent(es) /\ Limited(es)
  BY DEF Sound
<1>2. \A k \in 1..Len(es) : es[k].entryTime \in Nat
  BY <1>1, TradeTimes
<1>3. Ascending(es, t2)
  BY <1>1, <1>2 DEF Ascending
<1>4. QED
  BY <1>1, <1>3 DEF Sound

\* What becomes of the last entry does not matter.
LEMMA SoundWhateverComes ==
  ASSUME NEW ts \in Seq(Trades), NEW e \in Trades, NEW f \in Trades, NEW t1 \in Int, NEW t2 \in Int, t1 <= t2,
         Sound(Append(ts, e), t1), f.entryTime = e.entryTime, f.entryIndex = e.entryIndex
  PROVE  Sound(Append(ts, f), t2)
<1>1. Ascending(Append(ts, e), t1) /\ Solvent(Append(ts, e)) /\ Limited(Append(ts, e))
  BY DEF Sound
<1>2. Limited(ts) /\ KeepsLimits(ts, e) /\ Solvent(ts) /\ EquityAfter(ts) > 0
  BY <1>1, LimitedAppend, SolventAppend
<1>3. KeepsLimits(ts, f)
  BY <1>2, Zenon DEF KeepsLimits
<1>4. Limited(Append(ts, f)) /\ Solvent(Append(ts, f))
  BY <1>2, <1>3, LimitedAppend, SolventAppend
<1>5. Ascending(Append(ts, f), t2)
  <2>1. Ascending(ts, t1) /\ e.entryTime <= t1 /\ \A k \in 1..Len(ts) : ts[k].entryTime <= e.entryTime
    BY <1>1, AscendingFront
  <2>2. e.entryTime \in Int
    BY DEF Trades
  <2>3. Ascending(ts, e.entryTime)
    BY <2>1 DEF Ascending
  <2>4. e.entryTime <= t2 /\ e.entryTime <= f.entryTime /\ f.entryTime <= t2
    BY <2>1, <2>2
  <2>5. QED
    BY <2>2, <2>3, <2>4, AscendingAppend
<1>6. QED
  BY <1>4, <1>5, AppendProperties DEF Sound

LEMMA SoundFilled ==
  ASSUME NEW ts, NEW i \in Int, NEW t1 \in Nat, NEW t2 \in Nat, t1 < t2, t1 >= PeriodStart,
         Sound(ts, t1), EquityAfter(ts) > 0, evaluateTradeGuard(ts, i, t1) = {},
         NEW e \in Trades, e.entryTime = t2, e.entryIndex = i + 1
  PROVE  Sound(Append(ts, e), t2)
<1>1. ts \in Seq(Trades) /\ Ascending(ts, t1) /\ Solvent(ts) /\ Limited(ts)
  BY DEF Sound
<1>2. KeepsLimits(ts, e)
  BY <1>1, FillKeepsLimits
<1>3. Limited(Append(ts, e)) /\ Solvent(Append(ts, e))
  BY <1>1, <1>2, LimitedAppend, SolventAppend
<1>4. Ascending(Append(ts, e), t2)
  <2>1. t1 <= t2 /\ t1 <= e.entryTime /\ e.entryTime <= t2
    OBVIOUS
  <2>2. QED
    BY <1>1, <2>1, AscendingAppend
<1>5. QED
  BY <1>1, <1>3, <1>4, AppendProperties DEF Sound

(***************************************************************************)
(* The replay.                                                             *)
(***************************************************************************)
Positions == [entryIndex : Int, entryTime : Nat]

BacktestInv ==
  /\ trades \in Seq(Trades) /\ open \in {NoEntry} \cup Positions
  /\ bar \in Int /\ pending \in BOOLEAN
  /\ time \in {NoTime} \cup Nat
  /\ time = NoTime => open = NoEntry /\ ~pending
  /\ pending => time >= PeriodStart /\ evaluateTradeGuard(trades, bar, time) = {} /\ open = NoEntry
  /\ Sound(Entries, time)

LEMMA EntriesAre ==
  ASSUME NEW ts \in Seq(Trades), NEW p, NEW i \in Int, p \in {NoEntry} \cup Positions
  PROVE  /\ p = NoEntry => ts \o (IF p = NoEntry THEN <<>> ELSE <<Trade(p, i, 0)>>) = ts
         /\ p # NoEntry => /\ Trade(p, i, 0) \in Trades
                          /\ ts \o (IF p = NoEntry THEN <<>> ELSE <<Trade(p, i, 0)>>) = Append(ts, Trade(p, i, 0))
<1>1. CASE p = NoEntry
  BY <1>1, ConcatEmptySeq
<1>2. CASE p # NoEntry
  <2>1. Trade(p, i, 0) \in Trades
    BY <1>2 DEF Positions, Trade, Trades
  <2>2. QED
    BY <1>2, <2>1, AppendIsConcat
<1>3. QED
  BY <1>1, <1>2

LEMMA TradeTyped ==
  ASSUME NEW p \in Positions, NEW i \in Int, NEW pnl \in Int
  PROVE  /\ Trade(p, i, pnl) \in Trades
         /\ Trade(p, i, pnl).entryTime = p.entryTime /\ Trade(p, i, pnl).entryIndex = p.entryIndex
  BY DEF Positions, Trade, Trades

\* The position after the open of the candle of time t, and its entry.
LEMMA PositionHeld ==
  ASSUME BacktestInv, NEW t \in Nat, time = NoTime \/ time < t, NEW accepted, NEW p, p = Filled(bar + 1, t, accepted)
  PROVE  \/ p = NoEntry /\ open = NoEntry /\ Sound(trades, t)
         \/ /\ p \in Positions
            /\ \A pnl \in Int : Sound(Append(trades, Trade(p, bar + 1, pnl)), t)
<1>1. /\ trades \in Seq(Trades) /\ open \in {NoEntry} \cup Positions /\ bar \in Int /\ bar + 1 \in Int
      /\ time \in Int /\ time <= t
  BY DEF BacktestInv, NoTime
<1>2. Sound(Entries, t)
  BY <1>1, SoundLater DEF BacktestInv
<1>3. CASE open # NoEntry
  <2>1. p = open /\ open \in Positions
    BY <1>1, <1>3 DEF Filled
  <2>2. Sound(Append(trades, Trade(open, bar, 0)), t)
    BY <1>1, <1>2, <1>3, EntriesAre DEF Entries
  <2>3. ASSUME NEW pnl \in Int PROVE Sound(Append(trades, Trade(open, bar + 1, pnl)), t)
    <3>1. /\ Trade(open, bar, 0) \in Trades /\ Trade(open, bar + 1, pnl) \in Trades
          /\ Trade(open, bar + 1, pnl).entryTime = Trade(open, bar, 0).entryTime
          /\ Trade(open, bar + 1, pnl).entryIndex = Trade(open, bar, 0).entryIndex
      BY <1>1, <2>1, TradeTyped
    <3>2. t \in Int /\ t <= t
      OBVIOUS
    <3>3. QED
      BY <1>1, <2>2, <3>1, <3>2, SoundWhateverComes
  <2>4. QED
    BY <2>1, <2>3
<1>4. CASE open = NoEntry
  <2>1. Sound(trades, t) /\ Sound(trades, time)
    BY <1>1, <1>2, <1>4, EntriesAre DEF Entries, BacktestInv
  <2>2. CASE p = NoEntry
    BY <1>4, <2>1, <2>2
  <2>3. CASE p # NoEntry
    <3>1. pending /\ EquityAfter(trades) > 0 /\ p = [entryIndex |-> bar + 1, entryTime |-> t]
      BY <1>4, <2>3 DEF Filled
    <3>2. /\ time \in Nat /\ time < t /\ time >= PeriodStart /\ evaluateTradeGuard(trades, bar, time) = {}
      BY <1>1, <3>1 DEF BacktestInv
    <3>3. p \in Positions /\ p.entryTime = t /\ p.entryIndex = bar + 1
      BY <1>1, <3>1 DEF Positions
    <3>4. ASSUME NEW pnl \in Int PROVE Sound(Append(trades, Trade(p, bar + 1, pnl)), t)
      <4>1. /\ Trade(p, bar + 1, pnl) \in Trades
            /\ Trade(p, bar + 1, pnl).entryTime = t /\ Trade(p, bar + 1, pnl).entryIndex = bar + 1
        BY <1>1, <3>3, TradeTyped
      <4>2. QED
        BY <1>1, <2>1, <3>1, <3>2, <4>1, SoundFilled
    <3>5. QED
      BY <3>3, <3>4
  <2>4. QED
    BY <2>2, <2>3
<1>5. QED
  BY <1>3, <1>4

LEMMA DecidesByTheGuards ==
  ASSUME NEW p, NEW ts, NEW i, NEW t \in Nat, NEW decision \in Decisions(t), Decide(p, ts, i, t, decision)
  PROVE  /\ pending' \in BOOLEAN
         /\ pending' => p = NoEntry /\ t >= PeriodStart /\ evaluateTradeGuard(ts, i, t) = {}
<1>1. /\ pending' \in BOOLEAN
      /\ pending' => p = NoEntry /\ decision # "HOLD" /\ evaluateTradeGuard(ts, i, t) = {}
  BY Zenon DEF Decide
<1>2. decision # "HOLD" => ~ (t < PeriodStart)
  BY Zenon DEF Decisions
<1>3. PeriodStart \in Nat
  BY TimesAssumption
<1>4. ~ (t < PeriodStart) => t >= PeriodStart
  BY <1>3
<1>5. QED
  BY <1>1, <1>2, <1>4, Zenon

LEMMA ReplayKeeps ==
  ASSUME BacktestInv, NEW t \in Nat, time = NoTime \/ time < t, NEW accepted, NEW exits \in SUBSET Int,
         NEW decision \in Decisions(t), ReplayCandle(t, accepted, exits, decision)
  PROVE  BacktestInv'
<1>1. PICK p : /\ p = Filled(bar + 1, t, accepted)
               /\ IF p = NoEntry \/ exits = {}
                  THEN /\ open' = p /\ trades' = trades
                       /\ Decide(p, trades, bar + 1, t, decision)
                  ELSE \E pnl \in exits : \E ts \in {Append(trades, Trade(p, bar + 1, pnl))} :
                         /\ open' = NoEntry /\ trades' = ts
                         /\ Decide(NoEntry, ts, bar + 1, t, decision)
  BY Zenon DEF ReplayCandle
<1>2. time' = t /\ bar' = bar + 1 /\ bar' \in Int /\ trades \in Seq(Trades) /\ bar + 1 \in Int
  BY DEF ReplayCandle, BacktestInv
<1>3. \/ p = NoEntry /\ open = NoEntry /\ Sound(trades, t)
      \/ /\ p \in Positions
         /\ \A pnl \in Int : Sound(Append(trades, Trade(p, bar + 1, pnl)), t)
  BY <1>1, PositionHeld
<1>4. ASSUME trades' \in Seq(Trades), open' \in {NoEntry} \cup Positions, Sound(Entries', t),
             Decide(open', trades', bar + 1, t, decision)
      PROVE  BacktestInv'
  <2>1. /\ pending' \in BOOLEAN
        /\ pending' => open' = NoEntry /\ t >= PeriodStart /\ evaluateTradeGuard(trades', bar + 1, t) = {}
    BY <1>4, DecidesByTheGuards
  <2>2. time' # NoTime /\ time' \in Nat
    BY <1>2 DEF NoTime
  <2>3. evaluateTradeGuard(trades, bar, time)' = evaluateTradeGuard(trades', bar + 1, t)
    BY <1>2, Zenon DEF evaluateTradeGuard
  <2>4. QED
    BY <1>2, <1>4, <2>1, <2>2, <2>3 DEF BacktestInv
<1>5. CASE p = NoEntry \/ exits = {}
  <2>1. open' = p /\ trades' = trades /\ Decide(open', trades', bar + 1, t, decision)
    BY <1>1, <1>5
  <2>2. Entries' = trades \o (IF p = NoEntry THEN <<>> ELSE <<Trade(p, bar + 1, 0)>>)
    BY <1>2, <2>1 DEF Entries
  <2>3. p \in {NoEntry} \cup Positions
    BY <1>3
  <2>4. Sound(Entries', t)
    <3>1. CASE p = NoEntry
      <4>1. NoEntry \notin Positions
        BY DEF NoEntry, Positions
      <4>2. QED
        BY <1>2, <1>3, <2>2, <2>3, <3>1, <4>1, EntriesAre
    <3>2. CASE p # NoEntry
      <4>1. Entries' = Append(trades, Trade(p, bar + 1, 0))
        BY <1>2, <2>2, <2>3, <3>2, EntriesAre
      <4>2. \A pnl \in Int : Sound(Append(trades, Trade(p, bar + 1, pnl)), t)
        BY <1>3, <3>2
      <4>3. Sound(Append(trades, Trade(p, bar + 1, 0)), t)
        BY <4>2
      <4>4. QED
        BY <4>1, <4>3, Zenon
    <3>3. QED
      BY <3>1, <3>2
  <2>5. QED
    BY <1>2, <1>4, <2>1, <2>3, <2>4
<1>6. CASE ~ (p = NoEntry \/ exits = {})
  <2>1. PICK pnl \in exits : /\ open' = NoEntry /\ trades' = Append(trades, Trade(p, bar + 1, pnl))
                            /\ Decide(NoEntry, Append(trades, Trade(p, bar + 1, pnl)), bar + 1, t, decision)
    BY <1>1, <1>6, Zenon
  <2>2. p \in Positions /\ Sound(trades', t)
    BY <1>3, <1>6, <2>1
  <2>3. trades' \in Seq(Trades)
    BY <2>2 DEF Sound
  <2>4. Entries' = trades'
    BY <1>2, <2>1, <2>3, ConcatEmptySeq DEF Entries
  <2>5. QED
    BY <1>4, <2>1, <2>2, <2>3, <2>4
<1>7. QED
  BY <1>5, <1>6

LEMMA EndKeeps ==
  ASSUME BacktestInv, EndOfData
  PROVE  BacktestInv'
<1>1. /\ open' = NoEntry /\ pending' = FALSE /\ time' = time /\ bar' = bar
  BY DEF EndOfData
<1>2. trades \in Seq(Trades) /\ bar \in Int /\ open \in {NoEntry} \cup Positions /\ Sound(Entries, time)
      /\ time \in {NoTime} \cup Nat
  BY DEF BacktestInv
<1>3. Sound(trades', time)
  <2>1. CASE open = NoEntry
    <3>1. trades' = trades
      BY <2>1 DEF EndOfData
    <3>2. QED
      BY <1>2, <2>1, <3>1, EntriesAre DEF Entries
  <2>2. CASE open # NoEntry
    <3>1. PICK pnl \in Results : trades' = Append(trades, Trade(open, bar, pnl))
      BY <2>2 DEF EndOfData
    <3>2. open \in Positions /\ pnl \in Int
      BY <1>2, <2>2, GuardsAssumption
    <3>3. Sound(Append(trades, Trade(open, bar, 0)), time)
      BY <1>2, <2>2, EntriesAre DEF Entries
    <3>4. /\ Trade(open, bar, 0) \in Trades /\ Trade(open, bar, pnl) \in Trades
          /\ Trade(open, bar, pnl).entryTime = Trade(open, bar, 0).entryTime
          /\ Trade(open, bar, pnl).entryIndex = Trade(open, bar, 0).entryIndex
      BY <1>2, <3>2, TradeTyped
    <3>5. time \in Int /\ time <= time
      BY <1>2 DEF NoTime
    <3>6. QED
      BY <1>2, <3>1, <3>3, <3>4, <3>5, SoundWhateverComes
  <2>3. QED
    BY <2>1, <2>2
<1>4. trades' \in Seq(Trades)
  BY <1>3 DEF Sound
<1>5. Entries' = trades'
  BY <1>1, <1>4, ConcatEmptySeq DEF Entries
<1>6. QED
  BY <1>1, <1>2, <1>3, <1>4, <1>5 DEF BacktestInv

LEMMA BacktestStep ==
  ASSUME BacktestInv, [BacktestNext]_backtestVars
  PROVE  BacktestInv'
<1>1. CASE \E t \in IF time = NoTime THEN {FirstTime} ELSE {time + s : s \in Steps} :
             /\ t <= LastTime
             /\ \E accepted \in BOOLEAN, decision \in Decisions(t) :
                \E exits \in {{}} \cup {{r} : r \in Results} : ReplayCandle(t, accepted, exits, decision)
  <2>1. PICK t \in IF time = NoTime THEN {FirstTime} ELSE {time + s : s \in Steps} :
             \E accepted \in BOOLEAN, decision \in Decisions(t) :
                \E exits \in {{}} \cup {{r} : r \in Results} : ReplayCandle(t, accepted, exits, decision)
    BY <1>1, Zenon
  <2>2. t \in Nat /\ (time = NoTime \/ time < t)
    <3>1. time \in {NoTime} \cup Nat
      BY DEF BacktestInv
    <3>2. CASE time = NoTime
      BY <2>1, <3>2, TimesAssumption
    <3>3. CASE time # NoTime
      <4>1. PICK s \in Steps : t = time + s
        BY <2>1, <3>3
      <4>2. s \in Nat \ {0} /\ time \in Nat
        BY <3>1, <3>3, TimesAssumption
      <4>3. QED
        BY <4>1, <4>2
    <3>4. QED
      BY <3>2, <3>3
  <2>3. PICK accepted \in BOOLEAN, decision \in Decisions(t), exits \in {{}} \cup {{r} : r \in Results} :
             ReplayCandle(t, accepted, exits, decision)
    BY <2>1, Zenon
  <2>4. exits \in SUBSET Int
    BY GuardsAssumption
  <2>5. QED
    BY <2>2, <2>3, <2>4, ReplayKeeps
<1>2. CASE EndOfData
  BY <1>2, EndKeeps
<1>3. CASE UNCHANGED backtestVars
  <2>1. /\ time' = time /\ bar' = bar /\ open' = open /\ pending' = pending /\ trades' = trades
    BY <1>3 DEF backtestVars
  <2>2. Entries' = Entries /\ evaluateTradeGuard(trades, bar, time)' = evaluateTradeGuard(trades, bar, time)
    BY <2>1, Zenon DEF Entries, evaluateTradeGuard
  <2>3. QED
    BY <2>1, <2>2 DEF BacktestInv
<1>4. QED
  BY <1>1, <1>2, <1>3, Zenon DEF BacktestNext

LEMMA BacktestBegins == BacktestInit => BacktestInv
<1> SUFFICES ASSUME BacktestInit PROVE BacktestInv
  OBVIOUS
<1>1. /\ time = NoTime /\ bar = -1 /\ open = NoEntry /\ pending = FALSE /\ trades = <<>>
  BY DEF BacktestInit
<1>2. trades \in Seq(Trades) /\ Len(trades) = 0
  BY <1>1
<1>3. Entries = trades
  BY <1>1, <1>2, ConcatEmptySeq DEF Entries
<1>4. Sound(trades, time)
  <2>1. 1..Len(trades) = {} /\ 0..(Len(trades) - 1) = {}
    BY <1>2
  <2>2. QED
    BY <1>2, <2>1 DEF Sound, Ascending, Solvent, Limited
<1>5. Sound(Entries, time)
  BY <1>3, <1>4
<1>6. bar \in Int /\ pending \in BOOLEAN /\ open \in {NoEntry} \cup Positions /\ time \in {NoTime} \cup Nat
  <2>1. bar \in Int /\ pending \in BOOLEAN
    <3>1. bar = -1
      BY Zenon DEF BacktestInit
    <3>2. pending = FALSE
      BY Zenon DEF BacktestInit
    <3>3. bar \in Int
      BY <3>1, SMT
    <3>4. pending \in BOOLEAN
      BY <3>2, Zenon
    <3>5. QED
      BY <3>3, <3>4, Zenon
  <2>2. open \in {NoEntry} \cup Positions /\ time \in {NoTime} \cup Nat
    BY <1>1, Zenon
  <2>3. QED
    BY <2>1, <2>2, Zenon
<1>7. QED
  BY <1>1, <1>2, <1>5, <1>6, Zenon DEF BacktestInv

\* Every trade keeps the limits of the day and the week it is entered in, although the guards
\* were asked a candle before, for any limits, any candles and whatever the trades bring
\* (backtest.js:220-333 and 673-808).
THEOREM LimitsAreKept == BacktestSpec => []EntriesKeepLimits
<1>1. BacktestInv /\ [BacktestNext]_backtestVars => BacktestInv'
  BY BacktestStep
<1>2. BacktestInv => EntriesKeepLimits
  BY DEF BacktestInv, Sound, Limited, EntriesKeepLimits
<1>3. QED
  BY <1>1, <1>2, BacktestBegins, PTL DEF BacktestSpec

--------------------------------------------------------------------------------
(***************************************************************************)
(* The drawing studio, for any drawings, tools and length of the undo      *)
(* stack. Every collection that is shown, stored or kept for an undo has   *)
(* one drawing of an id (Collections), so that an edit of a drawing leaves *)
(* the others as they are, and what an undo brings back is what was there. *)
(***************************************************************************)

Drawing == [id : Nat, shape : Shapes]
Collections == {c \in Seq(Drawing) : Valid(c)}
Drags == [kind : {"none", "edit", "freehand"}, id : Nat, preview : SUBSET Drawing]

BookInv ==
  /\ drawings \in Collections /\ stored \in Collections
  /\ past \in Seq(Collections) /\ future \in Seq(Collections)
  /\ selected \in Ids(drawings) \cup {NoId}
  /\ ~private => stored = drawings

LayerInv ==
  /\ layer \in [mode : Tools, pending : 0..MaxPoints, drag : Drags]
  /\ lastId \in 0..LastId

StudioInv == BookInv /\ LayerInv

\* What a step does to the timeline and to the storage.
Reversible ==
  /\ \/ Timeline' = Timeline
     \/ /\ Timeline' = Newest(UndoLimit, Append(past, drawings)) \o <<drawings'>>
        /\ \/ drawings' \in Foreign \cup {<<>>}
           \/ \E id \in Ids(drawings) \cup Ids(drawings') :
                Without(drawings', id) = Without(drawings, id)
     \/ Timeline' = <<stored>> /\ layer' = Idle
  /\ ~private => stored' = drawings'

(***************************************************************************)
(* Sequences as stacks.                                                    *)
(***************************************************************************)
LEMMA TopAndRest ==
  ASSUME NEW S, NEW s \in Seq(S), s # <<>>
  PROVE  Rest(s) \in Seq(S) /\ Top(s) \in S /\ Rest(s) \o <<Top(s)>> = s /\ Append(Rest(s), Top(s)) = s
<1>1. Len(s) \in Nat /\ Len(s) > 0
  OBVIOUS
<1>2. Rest(s) \in Seq(S) /\ Len(Rest(s)) = Len(s) - 1 /\ \A n \in 1..(Len(s) - 1) : Rest(s)[n] = s[n]
  <2>1. \A i \in 1..(Len(s) - 1) : s[i] \in S
    BY <1>1, ElementOfSeq
  <2> DEFINE m == Len(s) - 1
  <2>2. m \in Nat /\ (\A i \in 1..m : s[i] \in S) /\ Rest(s) = SubSeq(s, 1, m)
    BY <1>1, <2>1 DEF Rest
  <2> HIDE DEF m
  <2>3. Rest(s) \in Seq(S) /\ Len(Rest(s)) = m /\ \A n \in 1..m : Rest(s)[n] = s[n]
    BY <2>2, SubSeqProperties
  <2>4. QED
    BY <2>3 DEF m
<1>3. Top(s) \in S
  BY <1>1, ElementOfSeq DEF Top
<1>4. Append(Rest(s), Top(s)) = s
  <2> DEFINE t == Append(Rest(s), Top(s))
  <2>1. t \in Seq(S) /\ Len(t) = Len(s)
    BY <1>1, <1>2, <1>3, AppendProperties
  <2>2. ASSUME NEW n \in 1..Len(t) PROVE t[n] = s[n]
    BY <1>1, <1>2, <1>3, <2>1, <2>2, AppendProperties DEF Top
  <2> HIDE DEF t
  <2>3. t = s
    BY <2>1, <2>2, SeqEqual
  <2>4. QED
    BY <2>3 DEF t
<1>5. QED
  BY <1>2, <1>3, <1>4, AppendIsConcat

LEMMA TurnedSeq ==
  ASSUME NEW S, NEW s \in Seq(S)
  PROVE  Turned(s) \in Seq(S) /\ Len(Turned(s)) = Len(s)
<1>1. Len(s) \in Nat
  OBVIOUS
<1>2. \A n \in 1..Len(s) : s[Len(s) + 1 - n] \in S
  BY <1>1, ElementOfSeq
<1>3. QED
  BY <1>1, <1>2, IsASeq DEF Turned

LEMMA TurnedAppend ==
  ASSUME NEW S, NEW s \in Seq(S), NEW e \in S
  PROVE  Turned(Append(s, e)) = <<e>> \o Turned(s)
<1> DEFINE a == Turned(Append(s, e))
           b == <<e>> \o Turned(s)
<1>1. Append(s, e) \in Seq(S) /\ Len(Append(s, e)) = Len(s) + 1 /\ Len(s) \in Nat
  BY AppendProperties
<1>2. a \in Seq(S) /\ Len(a) = Len(s) + 1
  BY <1>1, TurnedSeq
<1>3. b \in Seq(S) /\ Len(b) = Len(s) + 1
      /\ \A n \in 1..(Len(s) + 1) : b[n] = IF n = 1 THEN e ELSE Turned(s)[n - 1]
  <2>1. <<e>> \in Seq(S) /\ Len(<<e>>) = 1 /\ <<e>>[1] = e
    OBVIOUS
  <2>2. QED
    BY <1>1, <2>1, TurnedSeq, ConcatProperties
<1>4. ASSUME NEW n \in 1..Len(a) PROVE a[n] = b[n]
  <2>1. n \in 1..(Len(s) + 1)
    BY <1>2
  <2>2. a[n] = Append(s, e)[Len(s) + 2 - n]
    BY <1>1, <2>1 DEF Turned
  <2>3. CASE n = 1
    BY <1>1, <1>3, <2>1, <2>2, <2>3, AppendProperties
  <2>4. CASE n # 1
    <3>1. Len(s) + 2 - n \in 1..Len(s)
      BY <1>1, <2>1, <2>4
    <3>2. Append(s, e)[Len(s) + 2 - n] = s[Len(s) + 2 - n]
      BY <3>1, AppendProperties
    <3>3. Turned(s)[n - 1] = s[Len(s) + 1 - (n - 1)]
      BY <1>1, <2>1, <2>4 DEF Turned
    <3>4. Len(s) + 1 - (n - 1) = Len(s) + 2 - n
      BY <1>1, <2>1
    <3>5. QED
      BY <1>3, <2>1, <2>2, <2>4, <3>2, <3>3, <3>4
  <2>5. QED
    BY <2>3, <2>4
<1> HIDE DEF a, b
<1>5. a = b
  BY <1>2, <1>3, <1>4, SeqEqual
<1>6. QED
  BY <1>5 DEF a, b

LEMMA NewestOfSeq ==
  ASSUME NEW S, NEW s \in Seq(S)
  PROVE  Newest(UndoLimit, s) \in Seq(S)
<1>1. Len(s) \in Nat /\ UndoLimit \in Nat
  BY DrawingsAssumption
<1> DEFINE from == Len(s) - (IF Len(s) < UndoLimit THEN Len(s) ELSE UndoLimit) + 1
<1>2. from \in 1..(Len(s) + 1)
  <2>1. ASSUME NEW k \in Nat, NEW u \in Nat PROVE k - (IF k < u THEN k ELSE u) + 1 \in 1..(k + 1)
    OBVIOUS
  <2>2. QED
    BY <1>1, <2>1
<1> HIDE DEF from
<1>3. SubSeq(s, from, Len(s)) \in Seq(S)
  <2>1. from \in Int /\ Len(s) \in Int /\ \A i \in from..Len(s) : s[i] \in S
    BY <1>1, <1>2, ElementOfSeq
  <2>2. QED
    BY <2>1, SubSeqProperties
<1>4. QED
  BY <1>3 DEF from, Newest

(***************************************************************************)
(* The collection without one of its drawings.                             *)
(***************************************************************************)
LEMMA WithoutPlace ==
  ASSUME NEW c \in Collections, NEW place \in 1..Len(c)
  PROVE  LET w == Without(c, c[place].id)
         IN  /\ w \in Seq(Drawing) /\ Len(w) = Len(c) - 1
             /\ \A n \in 1..(Len(c) - 1) : w[n] = IF n < place THEN c[n] ELSE c[n + 1]
<1> DEFINE k == Len(c)
           id == c[place].id
           a == SubSeq(c, 1, place - 1)
           b == SubSeq(c, place + 1, k)
<1>1. c \in Seq(Drawing) /\ k \in Nat /\ DOMAIN c = 1..k /\ place \in 1..k
      /\ \A m, n \in 1..k : c[m].id = c[n].id => m = n
  BY DEF Collections, Valid
<1>2. (CHOOSE n \in DOMAIN c : c[n].id = id) = place /\ id \in Ids(c)
  BY <1>1 DEF Ids
<1>3. Without(c, id) = a \o b
  BY <1>2 DEF Without
<1>4. \A n \in 1..k : c[n] \in Drawing
  BY <1>1, ElementOfSeq
<1> HIDE DEF k
<1>5. a \in Seq(Drawing) /\ Len(a) = place - 1 /\ \A n \in 1..(place - 1) : a[n] = c[n]
  <2>1. place - 1 \in Int /\ 1 <= place /\ \A i \in 1..(place - 1) : c[i] \in Drawing
    BY <1>1, <1>4
  <2> DEFINE q == place - 1
  <2>2. q \in Nat /\ \A i \in 1..q : c[i] \in Drawing
    BY <1>1, <2>1
  <2> HIDE DEF q
  <2>3. SubSeq(c, 1, q) \in Seq(Drawing) /\ Len(SubSeq(c, 1, q)) = q /\ \A n \in 1..q : SubSeq(c, 1, q)[n] = c[n]
    BY <2>2, SubSeqProperties
  <2>4. QED
    BY <2>3 DEF q
<1>6. b \in Seq(Drawing) /\ Len(b) = k - place /\ \A n \in 1..(k - place) : b[n] = c[n + place]
  <2> DEFINE q == place + 1
  <2>1. q \in Int /\ k \in Int /\ q <= k + 1 /\ (\A i \in q..k : c[i] \in Drawing) /\ q = place + 1
        /\ (IF q <= k THEN k - q + 1 ELSE 0) = k - place /\ k - q + 1 = k - place
    BY <1>1, <1>4
  <2> HIDE DEF q
  <2>2. SubSeq(c, q, k) \in Seq(Drawing) /\ Len(SubSeq(c, q, k)) = k - place
        /\ \A n \in 1..(k - place) : SubSeq(c, q, k)[n] = c[q + n - 1]
    BY <2>1, SubSeqProperties
  <2>3. \A n \in 1..(k - place) : q + n - 1 = n + place
    BY <1>1, <2>1
  <2>4. QED
    BY <2>2, <2>3 DEF q
<1> HIDE DEF a, b
<1>7. /\ a \o b \in Seq(Drawing) /\ Len(a \o b) = (place - 1) + (k - place)
      /\ \A n \in 1..((place - 1) + (k - place)) : (a \o b)[n] = IF n <= place - 1 THEN a[n] ELSE b[n - (place - 1)]
  BY <1>5, <1>6, ConcatProperties
<1>8. (place - 1) + (k - place) = k - 1
  BY <1>1
<1>9. ASSUME NEW n \in 1..(k - 1)
      PROVE  (a \o b)[n] = IF n < place THEN c[n] ELSE c[n + 1]
  <2>1. CASE n < place
    BY <1>1, <1>5, <1>7, <1>8, <2>1
  <2>2. CASE ~ (n < place)
    <3>1. n - (place - 1) \in 1..(k - place) /\ ~ (n <= place - 1) /\ (n - (place - 1)) + place = n + 1
      BY <1>1, <2>2
    <3>2. QED
      BY <1>6, <1>7, <1>8, <2>2, <3>1
  <2>3. QED
    BY <2>1, <2>2
<1>10. QED
  BY <1>3, <1>7, <1>8, <1>9 DEF k

LEMMA WithoutIsValid ==
  ASSUME NEW c \in Collections, NEW id
  PROVE  /\ Without(c, id) \in Collections /\ id \notin Ids(Without(c, id))
         /\ Without(Without(c, id), id) = Without(c, id)
<1>1. CASE id \notin Ids(c)
  BY <1>1 DEF Without
<1>2. CASE id \in Ids(c)
  <2>1. PICK place \in DOMAIN c : c[place].id = id
    BY <1>2 DEF Ids
  <2> DEFINE k == Len(c)
             w == Without(c, id)
  <2>2. c \in Seq(Drawing) /\ k \in Nat /\ DOMAIN c = 1..k /\ place \in 1..k /\ k <= MaxDrawings
        /\ NoId \notin Ids(c) /\ \A m, n \in 1..k : c[m].id = c[n].id => m = n
    BY DEF Collections, Valid
  <2>3. w \in Seq(Drawing) /\ Len(w) = k - 1 /\ \A n \in 1..(k - 1) : w[n] = IF n < place THEN c[n] ELSE c[n + 1]
    BY <2>1, <2>2, WithoutPlace
  <2> HIDE DEF k, w
  <2>4. DOMAIN w = 1..(k - 1) /\ Len(w) <= MaxDrawings
    BY <2>2, <2>3, DrawingsAssumption
  <2>5. \A n \in 1..(k - 1) : \E m \in 1..k : w[n] = c[m] /\ m # place /\ m = (IF n < place THEN n ELSE n + 1)
    BY <2>2, <2>3
  <2>6. id \notin Ids(w) /\ NoId \notin Ids(w)
    <3>1. \A m \in 1..k : m # place => c[m].id # id
      BY <2>1, <2>2
    <3>2. \A m \in 1..k : c[m].id # NoId
      BY <2>2 DEF Ids
    <3>3. \A n \in 1..(k - 1) : w[n].id # id /\ w[n].id # NoId
      BY <2>5, <3>1, <3>2
    <3>4. QED
      BY <2>4, <3>3 DEF Ids
  <2>7. ASSUME NEW m \in DOMAIN w, NEW n \in DOMAIN w, w[m].id = w[n].id
        PROVE  m = n
    BY <2>2, <2>4, <2>5, <2>7
  <2>8. w \in Collections
    BY <2>3, <2>4, <2>6, <2>7 DEF Collections, Valid
  <2>9. Without(w, id) = w
    BY <2>6 DEF Without
  <2>10. QED
    BY <2>6, <2>8, <2>9 DEF w
<1>3. QED
  BY <1>1, <1>2

(***************************************************************************)
(* The collection with a drawing saved.                                    *)
(***************************************************************************)
LEMMA WithPlace ==
  ASSUME NEW d \in Drawing, drawings \in Collections
  PROVE  LET k == Len(drawings)
         IN  \/ \E place \in 1..k : /\ drawings[place].id = d.id /\ d.id \in Ids(drawings)
                                    /\ With(d) = [n \in 1..k |-> IF n = place THEN d ELSE drawings[n]]
             \/ /\ d.id \notin Ids(drawings)
                /\ With(d) = [n \in 1..(k + 1) |-> IF n = k + 1 THEN d ELSE drawings[n]]
<1> DEFINE k == Len(drawings)
           places == {n \in DOMAIN drawings : drawings[n].id = d.id}
<1>1. k \in Nat /\ DOMAIN drawings = 1..k
      /\ \A m, n \in 1..k : drawings[m].id = drawings[n].id => m = n
  BY DEF Collections, Valid
<1>2. With(d) = [n \in DOMAIN drawings \cup (IF places = {} THEN {k + 1} ELSE {}) |->
                   IF n \in places \/ n > k THEN d ELSE drawings[n]]
  BY DEF With
<1> HIDE DEF k
<1>3. CASE places = {}
  <2>1. d.id \notin Ids(drawings)
    BY <1>3 DEF Ids
  <2>2. DOMAIN drawings \cup {k + 1} = 1..(k + 1)
    BY <1>1
  <2>3. With(d) = [n \in 1..(k + 1) |-> IF n > k THEN d ELSE drawings[n]]
    BY <1>2, <1>3, <2>2
  <2>4. \A n \in 1..(k + 1) : n > k <=> n = k + 1
    BY <1>1
  <2>5. With(d) = [n \in 1..(k + 1) |-> IF n = k + 1 THEN d ELSE drawings[n]]
    BY <2>3, <2>4
  <2>6. QED
    BY <2>1, <2>5 DEF k
<1>4. CASE places # {}
  <2>1. PICK place \in places : TRUE
    BY <1>4
  <2>2. place \in 1..k /\ drawings[place].id = d.id /\ d.id \in Ids(drawings)
    BY <1>1, <2>1 DEF Ids
  <2>3. \A n \in 1..k : (n \in places \/ n > k) <=> n = place
    BY <1>1, <2>1, <2>2
  <2>4. With(d) = [n \in 1..k |-> IF n \in places \/ n > k THEN d ELSE drawings[n]]
    BY <1>1, <1>2, <1>4
  <2> HIDE DEF places
  <2>5. With(d) = [n \in 1..k |-> IF n = place THEN d ELSE drawings[n]]
    BY <2>3, <2>4
  <2>6. QED
    BY <2>2, <2>5 DEF k
<1>5. QED
  BY <1>3, <1>4

LEMMA SavingOne ==
  ASSUME NEW d \in Drawing, drawings \in Collections
  PROVE  /\ With(d) \in Seq(Drawing) /\ d.id \in Ids(With(d))
         /\ Valid(With(d)) => Without(With(d), d.id) = Without(drawings, d.id)
<1> DEFINE k == Len(drawings)
           w == With(d)
<1>1. k \in Nat /\ (\A n \in 1..k : drawings[n] \in Drawing) /\ drawings \in Seq(Drawing)
  BY ElementOfSeq DEF Collections
<1>2. CASE \E place \in 1..k : /\ drawings[place].id = d.id /\ d.id \in Ids(drawings)
                             /\ With(d) = [n \in 1..k |-> IF n = place THEN d ELSE drawings[n]]
  <2>1. PICK place \in 1..k : /\ drawings[place].id = d.id
                             /\ With(d) = [n \in 1..k |-> IF n = place THEN d ELSE drawings[n]]
    BY <1>2
  <2> HIDE DEF k
  <2>2. w \in Seq(Drawing) /\ Len(w) = k /\ DOMAIN w = 1..k /\ w[place] = d
        /\ \A n \in 1..k : n # place => w[n] = drawings[n]
    <3>1. \A n \in 1..k : (IF n = place THEN d ELSE drawings[n]) \in Drawing
      BY <1>1
    <3>2. w \in Seq(Drawing)
      BY <1>1, <2>1, <3>1, IsASeq
    <3>3. QED
      BY <1>1, <2>1, <3>2
  <2>3. d.id \in Ids(w)
    BY <2>2 DEF Ids
  <2>4. ASSUME Valid(w) PROVE Without(w, d.id) = Without(drawings, d.id)
    <3> DEFINE a == Without(w, d.id)
               b == Without(drawings, d.id)
    <3>1. w \in Collections
      BY <2>2, <2>4 DEF Collections
    <3> HIDE DEF w
    <3>2. a \in Seq(Drawing) /\ Len(a) = k - 1 /\ \A n \in 1..(k - 1) : a[n] = IF n < place THEN w[n] ELSE w[n + 1]
      BY <2>2, <3>1, WithoutPlace
    <3>3. b \in Seq(Drawing) /\ Len(b) = k - 1
          /\ \A n \in 1..(k - 1) : b[n] = IF n < place THEN drawings[n] ELSE drawings[n + 1]
      BY <2>1, WithoutPlace DEF k
    <3> HIDE DEF a, b
    <3>4. ASSUME NEW n \in 1..(k - 1) PROVE a[n] = b[n]
      <4>1. n \in 1..k /\ n + 1 \in 1..k /\ (n < place => n # place) /\ (~ (n < place) => n + 1 # place)
        BY <1>1
      <4>2. QED
        BY <2>2, <3>2, <3>3, <4>1
    <3>5. a = b
      BY <3>2, <3>3, <3>4, SeqEqual
    <3>6. QED
      BY <3>5 DEF a, b
  <2>5. QED
    BY <2>2, <2>3, <2>4
<1>3. CASE /\ d.id \notin Ids(drawings)
           /\ With(d) = [n \in 1..(k + 1) |-> IF n = k + 1 THEN d ELSE drawings[n]]
  <2> HIDE DEF k
  <2>1. w = [n \in 1..(k + 1) |-> IF n = k + 1 THEN d ELSE drawings[n]]
    BY <1>3
  <2>2. k + 1 \in Nat /\ k + 1 \in 1..(k + 1) /\ \A n \in 1..(k + 1) : n # k + 1 <=> n \in 1..k
    BY <1>1
  <2> HIDE DEF w
  <2>3. w \in Seq(Drawing) /\ Len(w) = k + 1 /\ DOMAIN w = 1..(k + 1) /\ w[k + 1] = d
        /\ \A n \in 1..k : w[n] = drawings[n]
    <3>1. \A n \in 1..(k + 1) : (IF n = k + 1 THEN d ELSE drawings[n]) \in Drawing
      BY <1>1, <2>2
    <3>2. w \in Seq(Drawing)
      BY <2>1, <2>2, <3>1, IsASeq
    <3>3. \A n \in 1..k : n \in 1..(k + 1) /\ n # k + 1
      BY <1>1
    <3>4. QED
      BY <2>1, <2>2, <3>2, <3>3
  <2>4. d.id \in Ids(w)
    BY <2>2, <2>3 DEF Ids
  <2>5. ASSUME Valid(w) PROVE Without(w, d.id) = Without(drawings, d.id)
    <3> DEFINE a == Without(w, d.id)
    <3>1. w \in Collections
      BY <2>3, <2>5 DEF Collections
    <3>2. a \in Seq(Drawing) /\ Len(a) = (k + 1) - 1
          /\ \A n \in 1..((k + 1) - 1) : a[n] = IF n < k + 1 THEN w[n] ELSE w[n + 1]
      <4>1. k + 1 \in 1..Len(w) /\ w[k + 1].id = d.id
        BY <2>2, <2>3
      <4> DEFINE q == k + 1
      <4>2. q \in 1..Len(w) /\ w[q].id = d.id /\ Len(w) = q
        BY <2>3, <4>1
      <4> HIDE DEF q
      <4>3. /\ Without(w, w[q].id) \in Seq(Drawing) /\ Len(Without(w, w[q].id)) = Len(w) - 1
            /\ \A n \in 1..(Len(w) - 1) : Without(w, w[q].id)[n] = IF n < q THEN w[n] ELSE w[n + 1]
        BY <3>1, <4>2, WithoutPlace
      <4>4. QED
        BY <4>2, <4>3 DEF q
    <3> HIDE DEF a
    <3>3. (k + 1) - 1 = k /\ \A n \in 1..k : n < k + 1
      BY <1>1
    <3>4. \A n \in 1..Len(a) : a[n] = drawings[n]
      BY <2>3, <3>2, <3>3
    <3>5. Len(a) = Len(drawings)
      BY <3>2, <3>3 DEF k
    <3>6. a = drawings
      BY <1>1, <3>2, <3>4, <3>5, SeqEqual
    <3>7. Without(drawings, d.id) = drawings
      BY <1>3 DEF Without
    <3>8. QED
      BY <3>6, <3>7 DEF a
  <2>6. QED
    BY <2>3, <2>4, <2>5 DEF w
<1>4. QED
  BY <1>2, <1>3, WithPlace

(***************************************************************************)
(* The timeline.                                                           *)
(***************************************************************************)
LEMMA StudioTypes ==
  ASSUME StudioInv
  PROVE  /\ drawings \in Collections /\ past \in Seq(Collections) /\ future \in Seq(Collections)
         /\ <<drawings>> \in Seq(Collections) /\ Turned(future) \in Seq(Collections)
  BY TurnedSeq DEF StudioInv, BookInv

LEMMA EndOfTimeline ==
  ASSUME NEW p \in Seq(Collections), NEW d \in Collections
  PROVE  p \o <<d>> \o Turned(<<>>) = p \o <<d>>
<1>1. Turned(<<>>) = <<>>
  BY DEF Turned
<1>2. p \o <<d>> \in Seq(Collections)
  OBVIOUS
<1>3. QED
  BY <1>1, <1>2, ConcatEmptySeq

\* What is on top of the past goes to the future, and the timeline is the same.
LEMMA Moving ==
  ASSUME NEW p \in Seq(Collections), NEW d \in Collections, NEW f \in Seq(Collections), p # <<>>
  PROVE  Rest(p) \o <<Top(p)>> \o Turned(Append(f, d)) = p \o <<d>> \o Turned(f)
<1>1. Rest(p) \o <<Top(p)>> = p
  BY TopAndRest
<1>2. Turned(Append(f, d)) = <<d>> \o Turned(f)
  BY TurnedAppend
<1>3. Turned(f) \in Seq(Collections) /\ <<d>> \in Seq(Collections)
  BY TurnedSeq
<1>4. p \o (<<d>> \o Turned(f)) = p \o <<d>> \o Turned(f)
  BY <1>3, ConcatAssociative
<1>5. QED
  BY <1>1, <1>2, <1>4

(***************************************************************************)
(* The steps.                                                              *)
(***************************************************************************)
LEMMA SaveStateIsAnEdit ==
  ASSUME BookInv, NEW next \in Seq(Drawing), NEW id \in Ids(next) \cup {NoId}, SaveState(next, id),
         \/ next \in Foreign \cup {<<>>}
         \/ \E i \in Ids(drawings) \cup Ids(next) : Without(next, i) = Without(drawings, i)
  PROVE  BookInv' /\ Reversible
<1>1. /\ next \in Collections /\ drawings' = next /\ selected' = id
      /\ past' = Newest(UndoLimit, Append(past, drawings)) /\ future' = <<>>
      /\ stored' = (IF private THEN stored ELSE drawings') /\ private' = private
  BY DEF SaveState, Store, Collections
<1>2. past' \in Seq(Collections)
  BY <1>1, AppendProperties, NewestOfSeq DEF BookInv
<1>3. BookInv'
  BY <1>1, <1>2 DEF BookInv
<1>4. Timeline' = past' \o <<next>> \o Turned(<<>>)
  BY <1>1 DEF Timeline
<1>5. Timeline' = Newest(UndoLimit, Append(past, drawings)) \o <<drawings'>>
  BY <1>1, <1>2, <1>4, EndOfTimeline
<1>6. QED
  BY <1>1, <1>3, <1>5 DEF Reversible

LEMMA KeepsChangesNothing ==
  ASSUME BookInv, Keeps
  PROVE  BookInv' /\ Reversible
<1>1. /\ drawings' = drawings /\ selected' = selected /\ past' = past /\ future' = future
      /\ stored' = stored /\ private' = private
  BY DEF Keeps
<1>2. BookInv'
  BY <1>1 DEF BookInv
<1>3. Timeline' = Timeline
  BY <1>1 DEF Timeline
<1>4. QED
  BY <1>1, <1>2, <1>3 DEF Reversible, BookInv

LEMMA SelectingChangesNothing ==
  ASSUME BookInv, UNCHANGED <<drawings, past, future, stored, private>>,
         selected' \in Ids(drawings) \cup {NoId}
  PROVE  BookInv' /\ Reversible
<1>1. Timeline' = Timeline
  BY DEF Timeline
<1>2. QED
  BY <1>1 DEF Reversible, BookInv

LEMMA SavingIsAnEdit ==
  ASSUME BookInv, NEW d \in Drawing, SavesOrShows(d)
  PROVE  BookInv' /\ Reversible
<1>1. CASE Valid(With(d))
  <2>1. SaveState(With(d), d.id)
    BY <1>1 DEF SavesOrShows, Saves
  <2>2. drawings \in Collections
    BY DEF BookInv
  <2>3. /\ With(d) \in Seq(Drawing) /\ d.id \in Ids(With(d))
        /\ Without(With(d), d.id) = Without(drawings, d.id)
    BY <1>1, <2>2, SavingOne
  <2>4. QED
    BY <2>1, <2>3, SaveStateIsAnEdit
<1>2. CASE ~Valid(With(d))
  BY <1>2, KeepsChangesNothing DEF SavesOrShows
<1>3. QED
  BY <1>1, <1>2

LEMMA CommitIsAnEdit ==
  ASSUME StudioInv, Commit
  PROVE  BookInv' /\ Reversible /\ lastId' \in 0..LastId
<1>1. PICK shape \in Shapes : SavesOrShows([id |-> lastId + 1, shape |-> shape])
  BY DEF Commit
<1>2. lastId' = lastId + 1 /\ lastId < LastId /\ lastId \in 0..LastId
  BY DEF Commit, StudioInv, LayerInv
<1>3. lastId' \in 0..LastId /\ lastId + 1 \in Nat
  BY <1>2, DrawingsAssumption
<1>4. [id |-> lastId + 1, shape |-> shape] \in Drawing
  BY <1>3 DEF Drawing
<1>5. QED
  BY <1>1, <1>3, <1>4, SavingIsAnEdit DEF StudioInv

LEMMA DeleteIsAnEdit ==
  ASSUME BookInv, DeleteDrawing
  PROVE  BookInv' /\ Reversible
<1>1. selected \in Ids(drawings) /\ drawings \in Collections
  BY DEF BookInv, DeleteDrawing
<1>2. Without(drawings, selected) \in Seq(Drawing)
      /\ Without(Without(drawings, selected), selected) = Without(drawings, selected)
  BY <1>1, WithoutIsValid DEF Collections
<1>3. SaveState(Without(drawings, selected), NoId)
  BY DEF DeleteDrawing
<1>4. QED
  BY <1>1, <1>2, <1>3, SaveStateIsAnEdit

LEMMA ReplaceIsAnEdit ==
  ASSUME BookInv, NEW collection \in Foreign \cup {<<>>}, Replace(collection)
  PROVE  BookInv' /\ Reversible
<1>1. collection \in Seq(Drawing)
  <2>1. CASE collection \in Foreign
    BY <2>1, DrawingsAssumption DEF Drawing
  <2>2. CASE collection = <<>>
    BY <2>2, EmptySeq
  <2>3. QED
    BY <2>1, <2>2
<1>2. SaveState(collection, NoId)
  BY DEF Replace
<1>3. QED
  BY <1>1, <1>2, SaveStateIsAnEdit

LEMMA UndoMoves ==
  ASSUME BookInv, UndoDrawing
  PROVE  BookInv' /\ Reversible
<1>1. /\ past \in Seq(Collections) /\ past # <<>> /\ drawings \in Collections /\ future \in Seq(Collections)
      /\ future' = Append(future, drawings) /\ drawings' = Top(past) /\ past' = Rest(past)
      /\ selected' = NoId /\ stored' = (IF private THEN stored ELSE drawings') /\ private' = private
  BY DEF BookInv, UndoDrawing, Store
<1>2. Rest(past) \in Seq(Collections) /\ Top(past) \in Collections /\ Append(future, drawings) \in Seq(Collections)
  BY <1>1, TopAndRest, AppendProperties
<1>3. BookInv'
  BY <1>1, <1>2 DEF BookInv
<1>4. Timeline' = Rest(past) \o <<Top(past)>> \o Turned(Append(future, drawings))
  BY <1>1 DEF Timeline
<1>5. Timeline' = Timeline
  BY <1>1, <1>4, Moving DEF Timeline
<1>6. QED
  BY <1>1, <1>3, <1>5 DEF Reversible

LEMMA RedoMoves ==
  ASSUME BookInv, RedoDrawing
  PROVE  BookInv' /\ Reversible
<1>1. /\ past \in Seq(Collections) /\ future # <<>> /\ drawings \in Collections /\ future \in Seq(Collections)
      /\ past' = Append(past, drawings) /\ drawings' = Top(future) /\ future' = Rest(future)
      /\ selected' = NoId /\ stored' = (IF private THEN stored ELSE drawings') /\ private' = private
  BY DEF BookInv, RedoDrawing, Store
<1>2. /\ Rest(future) \in Seq(Collections) /\ Top(future) \in Collections /\ Append(past, drawings) \in Seq(Collections)
      /\ Append(Rest(future), Top(future)) = future /\ Append(past, drawings) # <<>>
  <2>1. Append(past, drawings) \in Seq(Collections) /\ Append(past, drawings) # <<>>
    BY <1>1, AppendProperties
  <2>2. /\ Rest(future) \in Seq(Collections) /\ Top(future) \in Collections
        /\ Append(Rest(future), Top(future)) = future
    BY <1>1, TopAndRest
  <2>3. QED
    BY <2>1, <2>2
<1>3. BookInv'
  BY <1>1, <1>2 DEF BookInv
<1>4. Timeline' = Append(past, drawings) \o <<Top(future)>> \o Turned(Rest(future))
  BY <1>1 DEF Timeline
<1>5. Append(past, drawings) \o <<Top(future)>> \o Turned(Rest(future))
        = Rest(Append(past, drawings)) \o <<Top(Append(past, drawings))>> \o Turned(Append(Rest(future), Top(future)))
  BY <1>1, <1>2, Moving
<1>6. Rest(Append(past, drawings)) = past /\ Top(Append(past, drawings)) = drawings
  <2> DEFINE q == Append(past, drawings)
  <2>1. q \in Seq(Collections) /\ q # <<>> /\ Append(Rest(q), Top(q)) = q /\ Rest(q) \in Seq(Collections) /\ Top(q) \in Collections
    BY <1>2, TopAndRest
  <2>2. QED
    BY <1>1, <2>1, AppendInjective
<1>7. Timeline' = Timeline
  BY <1>2, <1>4, <1>5, <1>6 DEF Timeline
<1>8. QED
  BY <1>1, <1>3, <1>7 DEF Reversible

LEMMA ReloadStartsAnew ==
  ASSUME BookInv, Reload
  PROVE  BookInv' /\ Reversible
<1>1. /\ drawings' = stored /\ selected' = NoId /\ past' = <<>> /\ future' = <<>> /\ layer' = Idle
      /\ stored' = stored /\ private' = private /\ stored \in Collections
  BY DEF Reload, BookInv
<1>2. BookInv'
  BY <1>1 DEF BookInv
<1>3. Timeline' = <<>> \o <<stored>> \o Turned(<<>>)
  BY <1>1 DEF Timeline
<1>4. <<>> \o <<stored>> = <<stored>> /\ <<>> \in Seq(Collections)
  <2>1. <<stored>> \in Seq(Collections)
    BY <1>1
  <2>2. QED
    BY <2>1, ConcatEmptySeq, EmptySeq
<1>5. Timeline' = <<stored>>
  BY <1>1, <1>3, <1>4, EndOfTimeline
<1>6. QED
  BY <1>1, <1>2, <1>5 DEF Reversible

LEMMA LayerTyped ==
  ASSUME LayerInv
  PROVE  /\ layer.mode \in Tools /\ layer.pending \in 0..MaxPoints /\ layer.drag \in Drags
         /\ layer.drag.preview \subseteq Drawing /\ MaxPoints \in Nat /\ MaxPoints >= 1
         /\ 0 \in 0..MaxPoints /\ 1 \in 0..MaxPoints
<1>1. layer.mode \in Tools /\ layer.pending \in 0..MaxPoints /\ layer.drag \in Drags
  BY DEF LayerInv
<1>2. layer.drag.preview \subseteq Drawing
  BY <1>1 DEF Drags
<1>3. MaxPoints \in Nat /\ MaxPoints >= 1 /\ 0 \in 0..MaxPoints /\ 1 \in 0..MaxPoints
  BY DrawingsAssumption
<1>4. QED
  BY <1>1, <1>2, <1>3

LEMMA RecordChange ==
  ASSUME NEW A, NEW B, NEW D, NEW r \in [mode : A, pending : B, drag : D], NEW a \in A, NEW b \in B, NEW d \in D
  PROVE  /\ [r EXCEPT !.mode = a, !.pending = b] \in [mode : A, pending : B, drag : D]
         /\ [r EXCEPT !.pending = b, !.drag = d] \in [mode : A, pending : B, drag : D]
  OBVIOUS

LEMMA NoDragTyped == NoDrag \in Drags /\ [NoDrag EXCEPT !.kind = "freehand"] \in Drags
  BY DEF NoDrag, Drags, NoId

LEMMA IdleTyped == Idle \in [mode : Tools, pending : 0..MaxPoints, drag : Drags]
  BY NoDragTyped, DrawingsAssumption DEF Idle, Tools

LEMMA IdsOfDrawings ==
  ASSUME BookInv, NEW id \in Ids(drawings) \cup {NoId}
  PROVE  id \in Nat
<1>1. drawings \in Seq(Drawing)
  BY DEF BookInv, Collections
<1>2. \A n \in DOMAIN drawings : drawings[n].id \in Nat
  <2>1. \A n \in DOMAIN drawings : drawings[n] \in Drawing
    BY <1>1, ElementOfSeq
  <2>2. QED
    BY <2>1 DEF Drawing
<1>3. QED
  BY <1>2 DEF Ids, NoId

LEMMA SelectDrawToolKeeps ==
  ASSUME StudioInv, NEW tool \in Tools \ {"none"}, SelectDrawTool(tool)
  PROVE  StudioInv' /\ Reversible
<1> DEFINE mode == IF layer.mode = tool THEN "none" ELSE tool
<1>1. layer' = [layer EXCEPT !.mode = mode, !.pending = 0] /\ lastId' = lastId
      /\ UNCHANGED <<drawings, past, future, stored, private>>
  BY DEF SelectDrawTool
<1>2. mode \in Tools
  BY DEF Tools
<1>3. selected' \in Ids(drawings) \cup {NoId}
  BY DEF SelectDrawTool, StudioInv, BookInv
<1> HIDE DEF mode
<1>4. LayerInv'
  BY <1>1, <1>2, LayerTyped, RecordChange DEF StudioInv, LayerInv
<1>5. QED
  BY <1>1, <1>3, <1>4, SelectingChangesNothing DEF StudioInv

LEMMA ChooseDrawingKeeps ==
  ASSUME StudioInv, NEW id \in Ids(drawings), ChooseDrawing(id)
  PROVE  StudioInv' /\ Reversible
<1>1. layer' = [layer EXCEPT !.mode = "edit", !.pending = 0] /\ lastId' = lastId /\ selected' = id
      /\ UNCHANGED <<drawings, past, future, stored, private>>
  BY DEF ChooseDrawing
<1>2. "edit" \in Tools
  BY DEF Tools
<1>3. LayerInv'
  BY <1>1, <1>2, LayerTyped, RecordChange DEF StudioInv, LayerInv
<1>4. QED
  BY <1>1, <1>3, SelectingChangesNothing DEF StudioInv

LEMMA EscapeKeeps ==
  ASSUME StudioInv, Escape
  PROVE  StudioInv' /\ Reversible
<1>1. Keeps /\ lastId' = lastId
      /\ layer' = [layer EXCEPT !.mode = "none", !.pending = IF layer.mode = "none" THEN layer.pending ELSE 0]
  BY DEF Escape
<1>2. "none" \in Tools
  BY DEF Tools
<1>3. LayerInv'
  BY <1>1, <1>2, LayerTyped, RecordChange DEF StudioInv, LayerInv
<1>4. QED
  BY <1>1, <1>3, KeepsChangesNothing DEF StudioInv

LEMMA HoldKeeps ==
  ASSUME StudioInv, NEW id \in Ids(drawings) \cup {NoId}, Hold(id)
  PROVE  StudioInv' /\ Reversible
<1> DEFINE held == [kind |-> "edit", id |-> id, preview |-> {}]
<1>1. /\ layer' = (IF id = NoId THEN layer ELSE [layer EXCEPT !.drag = held])
      /\ lastId' = lastId /\ selected' = id /\ UNCHANGED <<drawings, past, future, stored, private>>
  BY DEF Hold
<1>2. held \in Drags
  BY IdsOfDrawings DEF StudioInv, Drags
<1> HIDE DEF held
<1>3. LayerInv'
  BY <1>1, <1>2 DEF StudioInv, LayerInv
<1>4. QED
  BY <1>1, <1>3, SelectingChangesNothing DEF StudioInv

LEMMA StartFreehandKeeps ==
  ASSUME StudioInv, StartFreehand
  PROVE  StudioInv' /\ Reversible
<1> DEFINE held == [NoDrag EXCEPT !.kind = "freehand"]
<1>1. Keeps /\ lastId' = lastId /\ layer' = [layer EXCEPT !.pending = 1, !.drag = held]
  BY DEF StartFreehand
<1>2. held \in Drags
  BY NoDragTyped
<1> HIDE DEF held
<1>3. LayerInv'
  BY <1>1, <1>2, LayerTyped, RecordChange DEF StudioInv, LayerInv
<1>4. QED
  BY <1>1, <1>3, KeepsChangesNothing DEF StudioInv

LEMMA OneClick == ASSUME NEW p \in Nat, NEW q \in {1, 2}, p + 1 < q PROVE p + 1 = 1
  OBVIOUS

LEMMA ClickKeeps ==
  ASSUME StudioInv, Click
  PROVE  StudioInv' /\ Reversible
<1>1. layer.pending \in 0..MaxPoints /\ MaxPoints \in Nat /\ MaxPoints >= 1
  BY LayerTyped DEF StudioInv
<1>2. layer.mode \in DOMAIN Clicks /\ Clicks[layer.mode] \in {1, 2}
  BY DEF Click, Clicks
<1>3. CASE layer.pending + 1 < Clicks[layer.mode]
  <2>1. Keeps /\ lastId' = lastId /\ layer' = [layer EXCEPT !.pending = layer.pending + 1]
    BY <1>3 DEF Click
  <2>2. layer.pending + 1 \in 0..MaxPoints
    <3>1. layer.pending \in Nat
      BY <1>1
    <3>2. layer.pending + 1 = 1
      BY <1>2, <1>3, <3>1, OneClick
    <3>3. QED
      BY <1>1, <3>2
  <2>3. LayerInv'
    BY <2>1, <2>2 DEF StudioInv, LayerInv
  <2>4. QED
    BY <2>1, <2>3, KeepsChangesNothing DEF StudioInv
<1>4. CASE ~ (layer.pending + 1 < Clicks[layer.mode])
  <2>1. layer' = [layer EXCEPT !.pending = 0] /\ (Commit \/ (lastId' = lastId /\ Keeps))
    BY <1>4 DEF Click
  <2>2. BookInv' /\ Reversible /\ lastId' \in 0..LastId
    BY <2>1, CommitIsAnEdit, KeepsChangesNothing DEF StudioInv, LayerInv
  <2>3. LayerInv'
    BY <1>1, <2>1, <2>2 DEF StudioInv, LayerInv
  <2>4. QED
    BY <2>2, <2>3 DEF StudioInv
<1>5. QED
  BY <1>3, <1>4

LEMMA DragKeeps ==
  ASSUME StudioInv, NEW shape \in Shapes, Drag(shape)
  PROVE  StudioInv' /\ Reversible
<1>1. Keeps /\ lastId' = lastId
  BY DEF Drag
<1>2. CASE layer.pending \in 1..(MaxPoints - 1) /\ layer' = [layer EXCEPT !.pending = layer.pending + 1]
  <2>1. layer.pending + 1 \in 0..MaxPoints
    BY <1>2, DrawingsAssumption
  <2>2. LayerInv'
    BY <1>1, <1>2, <2>1 DEF StudioInv, LayerInv
  <2>3. QED
    BY <1>1, <2>2, KeepsChangesNothing DEF StudioInv
<1>3. CASE LET id == IF layer.drag.id \in Ids(drawings) THEN layer.drag.id ELSE NoId
           IN  layer' = [layer EXCEPT !.drag.preview = {[id |-> id, shape |-> shape]}]
  <2> DEFINE id == IF layer.drag.id \in Ids(drawings) THEN layer.drag.id ELSE NoId
             held == [layer.drag EXCEPT !.preview = {[id |-> id, shape |-> shape]}]
  <2>1. id \in Nat
    BY IdsOfDrawings DEF StudioInv
  <2>2. layer.drag \in Drags
    BY LayerTyped DEF StudioInv
  <2>3. layer' = [layer EXCEPT !.drag = held]
    BY <1>3 DEF StudioInv, LayerInv
  <2> HIDE DEF id
  <2>4. held \in Drags
    BY <2>1, <2>2 DEF Drags, Drawing
  <2> HIDE DEF held
  <2>5. LayerInv'
    BY <1>1, <2>3, <2>4 DEF StudioInv, LayerInv
  <2>6. QED
    BY <1>1, <2>5, KeepsChangesNothing DEF StudioInv
<1>4. QED
  BY <1>2, <1>3 DEF Drag

LEMMA ReleaseKeeps ==
  ASSUME StudioInv, Release
  PROVE  StudioInv' /\ Reversible
<1> DEFINE kept == IF layer.drag.kind = "freehand" THEN 0 ELSE layer.pending
<1>1. layer' = [layer EXCEPT !.drag = NoDrag, !.pending = kept]
  BY DEF Release
<1>2. kept \in 0..MaxPoints
  BY LayerTyped DEF StudioInv
<1> HIDE DEF kept
<1>3. BookInv' /\ Reversible /\ lastId' \in 0..LastId
  <2>1. CASE Commit
    BY <2>1, CommitIsAnEdit
  <2>2. CASE lastId' = lastId /\ Keeps
    BY <2>2, KeepsChangesNothing DEF StudioInv, LayerInv
  <2>3. CASE lastId' = lastId /\ \E d \in layer.drag.preview : SavesOrShows(d)
    <3>1. PICK d \in layer.drag.preview : SavesOrShows(d)
      BY <2>3
    <3>2. d \in Drawing
      BY LayerTyped DEF StudioInv
    <3>3. QED
      BY <2>3, <3>1, <3>2, SavingIsAnEdit DEF StudioInv, LayerInv
  <2>4. QED
    BY <2>1, <2>2, <2>3 DEF Release
<1>4. LayerInv'
  BY <1>1, <1>2, <1>3, NoDragTyped DEF StudioInv, LayerInv
<1>5. QED
  BY <1>3, <1>4 DEF StudioInv

LEMMA RecolorKeeps ==
  ASSUME StudioInv, NEW shape \in Shapes, Recolor(shape)
  PROVE  StudioInv' /\ Reversible
<1>1. SavesOrShows([id |-> selected, shape |-> shape]) /\ UNCHANGED <<layer, lastId>>
  BY DEF Recolor
<1>2. selected \in Nat
  BY IdsOfDrawings DEF StudioInv, BookInv
<1>3. [id |-> selected, shape |-> shape] \in Drawing
  BY <1>2 DEF Drawing
<1>4. LayerInv'
  BY <1>1 DEF StudioInv, LayerInv
<1>5. QED
  BY <1>1, <1>3, <1>4, SavingIsAnEdit DEF StudioInv

LEMMA StudioStep ==
  ASSUME StudioInv, [StudioNext]_studioVars
  PROVE  StudioInv' /\ Reversible
<1>1. CASE \E tool \in Tools \ {"none"} : SelectDrawTool(tool)
  BY <1>1, SelectDrawToolKeeps
<1>2. CASE \E id \in Ids(drawings) : ChooseDrawing(id)
  BY <1>2, ChooseDrawingKeeps
<1>3. CASE Escape
  BY <1>3, EscapeKeeps
<1>4. CASE \E id \in Ids(drawings) \cup {NoId} : Hold(id)
  BY <1>4, HoldKeeps
<1>5. CASE StartFreehand \/ Click \/ Release
  BY <1>5, StartFreehandKeeps, ClickKeeps, ReleaseKeeps
<1>6. CASE \E shape \in Shapes : Drag(shape) \/ Recolor(shape)
  BY <1>6, DragKeeps, RecolorKeeps
<1>7. CASE Duplicates
  <2>1. Commit /\ layer' = layer
    BY <1>7 DEF Duplicates
  <2>2. BookInv' /\ Reversible /\ lastId' \in 0..LastId
    BY <2>1, CommitIsAnEdit
  <2>3. QED
    BY <2>1, <2>2 DEF StudioInv, LayerInv
<1>8. CASE DeleteDrawing
  <2>1. UNCHANGED <<layer, lastId>>
    BY <1>8 DEF DeleteDrawing
  <2>2. QED
    BY <1>8, <2>1, DeleteIsAnEdit DEF StudioInv, LayerInv
<1>9. CASE \E collection \in Foreign \cup {<<>>} : Replace(collection)
  <2>1. UNCHANGED <<layer, lastId>>
    BY <1>9 DEF Replace
  <2>2. QED
    BY <1>9, <2>1, ReplaceIsAnEdit DEF StudioInv, LayerInv
<1>10. CASE UndoDrawing
  <2>1. UNCHANGED <<layer, lastId>>
    BY <1>10 DEF UndoDrawing
  <2>2. QED
    BY <1>10, <2>1, UndoMoves DEF StudioInv, LayerInv
<1>11. CASE RedoDrawing
  <2>1. UNCHANGED <<layer, lastId>>
    BY <1>11 DEF RedoDrawing
  <2>2. QED
    BY <1>11, <2>1, RedoMoves DEF StudioInv, LayerInv
<1>12. CASE Reload
  <2>1. layer' = Idle /\ lastId' = lastId
    BY <1>12 DEF Reload
  <2>2. QED
    BY <1>12, <2>1, ReloadStartsAnew, IdleTyped DEF StudioInv, LayerInv
<1>13. CASE UNCHANGED studioVars
  <2>1. Keeps /\ UNCHANGED <<layer, lastId>>
    BY <1>13 DEF studioVars, Keeps
  <2>2. QED
    BY <2>1, KeepsChangesNothing DEF StudioInv, LayerInv
<1>14. QED
  BY <1>1, <1>2, <1>3, <1>4, <1>5, <1>6, <1>7, <1>8, <1>9, <1>10, <1>11, <1>12, <1>13 DEF StudioNext

LEMMA StudioBegins == StudioInit => StudioInv
<1> SUFFICES ASSUME StudioInit PROVE StudioInv
  OBVIOUS
<1>1. /\ drawings \in Foreign /\ stored = drawings /\ selected = NoId /\ past = <<>> /\ future = <<>>
      /\ layer = Idle /\ lastId = FirstId
  BY DEF StudioInit
<1>2. drawings \in Collections
  BY <1>1, DrawingsAssumption DEF Collections, Drawing
<1>3. BookInv
  BY <1>1, <1>2 DEF BookInv
<1>4. LayerInv
  BY <1>1, IdleTyped, DrawingsAssumption DEF LayerInv
<1>5. QED
  BY <1>3, <1>4 DEF StudioInv

LEMMA StudioInvariant == StudioSpec => []StudioInv
<1>1. StudioInv /\ [StudioNext]_studioVars => StudioInv'
  BY StudioStep
<1>2. QED
  BY <1>1, StudioBegins, PTL DEF StudioSpec

\* No collection that is shown, kept or could be brought back is one that a page would refuse
\* to load, and what is selected exists (xmi2-chart-studio.js:135-173).
THEOREM StudioTypeCorrect == StudioSpec => []StudioTypeOK
<1>1. ASSUME StudioInv PROVE StudioTypeOK
  <2>1. layer.mode \in Tools /\ layer.pending \in 0..MaxPoints /\ lastId \in 0..LastId
        /\ selected \in Ids(drawings) \cup {NoId}
    BY <1>1 DEF StudioInv, LayerInv, BookInv
  <2>2. <<drawings, stored>> \in Seq(Collections) /\ past \in Seq(Collections) /\ future \in Seq(Collections)
    BY <1>1 DEF StudioInv, BookInv
  <2>3. \A s \in Seq(Collections) : \A n \in DOMAIN s : Valid(s[n])
    BY ElementOfSeq DEF Collections
  <2>4. QED
    BY <2>1, <2>2, <2>3 DEF StudioTypeOK
<1>2. QED
  BY <1>1, StudioInvariant, PTL

\* Undo and redo move along the timeline and lose nothing of it, an edit ends it with the new
\* collection, and what is stored is what is shown, for any undo limit, any number of drawings
\* and any files to import (xmi2-chart-studio.js:135-173).
THEOREM EveryEditIsReversible == StudioSpec => EditsAreReversible
<1>1. StudioInv /\ [StudioNext]_studioVars => [Reversible]_studioVars
  BY StudioStep
<1>2. StudioSpec => [][Reversible]_studioVars
  BY <1>1, StudioInvariant, PTL DEF StudioSpec
<1>3. QED
  BY <1>2 DEF EditsAreReversible, Reversible

================================================================================
