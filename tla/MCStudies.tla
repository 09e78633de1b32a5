------------------------------- MODULE MCStudies -------------------------------
(***************************************************************************)
(* The parts that share no state with the gateway, nor with each other,    *)
(* checked in one run: each behaviour is a behaviour of one of them while  *)
(* the others stand still.                                                 *)
(***************************************************************************)
EXTENDS StateDocument, ResearchQuota, ScalpEngine, MarketStructure, SimAccount, Backtest,
  LiveFeed, DrawingStudio, RiskPreview, MarketHistory, TLC

CONSTANTS Studies, c1, c2, c3, c4, k1, k2, k3

ASSUME StudiesAssumption ==
  Studies \subseteq {"document", "quota", "engine", "structure", "account", "backtest",
               "feed", "drawings", "preview", "history"}

VARIABLE study

studiesVars == <<study, vars, quotaVars, engineVars, structureVars, accountVars, backtestVars,
                feedVars, studioVars,
                previewVars, historyVars>>

\* Four concurrent calls of mutate, two tries each: enough for a call to lose its turn
\* twice, and for a fourth to read between the two.
MCCalls == {c1, c2, c3, c4}

MCKeys == {k1, k2, k3}

\* Candles that close at their high or at their low, at three levels.
C(h, u) == [high |-> h, up |-> u]
MCCandles == {C(1, FALSE), C(2, TRUE), C(3, TRUE), C(3, FALSE)}

\* A standstill, a rise to the target, a gap, a turn, and a fall through the stop.
B(o, h, l, c) == [open |-> o, high |-> h, low |-> l, close |-> c]
MCBars == {B(50, 50, 50, 50), B(50, 56, 50, 55), B(55, 63, 54, 62), B(52, 59, 52, 58),
           B(50, 51, 46, 47), B(44, 45, 43, 44)}
MCRules == {[partialAt |-> 1, breakeven |-> 1, trailing |-> 0],
            [partialAt |-> 0, breakeven |-> 0, trailing |-> 3]}

\* Two losses that reach the day's limit or, together, the week's, a profit, and a gap
\* through the stop that leaves nothing.
MCResults == {-9, -4, 5, -100}

\* A market buy of 0.01 lots of USDCHF with the features f instead.
Order(f) ==
  LET plain == [symbol |-> "USDCHF", instrument |-> "USDCHF", side |-> "buy",
                type |-> "market", validity |-> "IOC", lots |-> {10}, qty |-> {},
                entry |-> {}, level |-> {}, stop |-> {7980}, target |-> {8040},
                dry |-> FALSE]
  IN  f @@ plain

MCWishes ==
  {Order(<<>>),
   Order([side |-> "sell", type |-> "limit", validity |-> "GTC", level |-> {8010},
          lots |-> {}, qty |-> {1000}, stop |-> {8034}, target |-> {7970}]),
   Order([qty |-> {550}]),
   Order([lots |-> {}, qty |-> {1550}]),
   Order([entry |-> {7990}, target |-> {8010}]),
   Order([stop |-> {8040}, target |-> {7980}]),
   Order([stop |-> {}, dry |-> TRUE]),
   Order([stop |-> {7900}, target |-> {8200}]),
   Order([instrument |-> "XAUUSD"])}

\* The defaults with the features f instead.
Deployment(f) ==
  LET plain == [kill |-> FALSE, trading |-> TRUE, symbols |-> {"USDCHF"},
                strictQuote |-> TRUE, staleGuard |-> TRUE, strictStale |-> TRUE,
                strictRisk |-> TRUE, strictLoss |-> FALSE, needsExits |-> TRUE,
                maxStop |-> 0, maxRisk |-> 0, maxDailyLoss |-> 0, expectedId |-> 1,
                equityOverride |-> 0]
  IN  f @@ plain

MCSettings ==
  {Deployment(<<>>),
   Deployment([kill |-> TRUE, trading |-> FALSE, maxDailyLoss |-> 3, maxRisk |-> 2,
               equityOverride |-> 100]),
   Deployment([equityOverride |-> 10]),
   Deployment([strictQuote |-> FALSE, staleGuard |-> FALSE, strictRisk |-> FALSE,
               needsExits |-> FALSE, maxStop |-> 50, expectedId |-> 2])}

\* Lots of 100000 units; an account in dollars, or in another currency.
MCInstruments ==
  {[grain |-> 100, min |-> 10, max |-> 100, step |-> 10, accountIn |-> "base"],
   [grain |-> 100, min |-> 10, max |-> 100, step |-> 10, accountIn |-> "quoting"],
   [grain |-> 100, min |-> 10, max |-> 100, step |-> 10, accountIn |-> "third"]}

MCQuotes ==
  {[bid |-> {7999}, ask |-> {8001}], [bid |-> {7995}, ask |-> {8001}],
   [bid |-> {7999}, ask |-> {}], [bid |-> {}, ask |-> {}],
   [bid |-> {Null}, ask |-> {Null}], [bid |-> {7999}, ask |-> {Null}]}

MCAges == {[fails |-> TRUE, minutes |-> {}], [fails |-> FALSE, minutes |-> {}],
           [fails |-> FALSE, minutes |-> {1}], [fails |-> FALSE, minutes |-> {5}]}

Figures(e, b, p) == [equity |-> e, balance |-> b, pnl |-> p]
Book(positions, orders, figures) == [positions |-> positions, orders |-> orders] @@ figures
MCBooks ==
  {Book({0}, {0}, Figures({10}, {9}, {})), Book({0}, {0}, Figures({}, {}, {-3})),
   Book({0}, {}, Figures({}, {9}, {})), Book({1}, {0}, Figures({1000}, {}, {0})),
   Book({}, {1}, Figures({0}, {}, {})), Book({}, {0}, Figures({Null}, {9}, {Null}))}

Account(id, e) == [id |-> id] @@ Figures(e, {}, {})
MCDirectories ==
  {{}, {<<>>}, {<<Account(1, {})>>}, {<<Account(1, {Null})>>},
   {<<Account(2, {1000}), Account(1, {10})>>}}

MCCounts == {{}, {1}, {5}}

\* A collection of drawings that was exported before.
MCForeign == {<<>>, <<[id |-> 1, shape |-> 1]>>}

\* Only one of the studies begins in more than one way, or at all.
StudiesInit ==
  /\ study \in Studies
  /\ Init /\ QuotaInit /\ StructureInit /\ BacktestInit
  /\ EngineInit /\ (study # "engine" => audit)
  /\ AccountInit /\ (study # "account" => rules.partialAt = 1)
  /\ FeedInit /\ pane.symbol \in Forex
  /\ StudioInit /\ drawings = <<>> /\ (study # "drawings" => private)
  /\ PreviewInit /\ (study # "preview" => wish = Order(<<>>) /\ setting = Deployment(<<>>))
  /\ HistoryInit /\ (study # "history" => candles = {} /\ span.from = 1 /\ span.to = 2 /\ span.wanted = 2)

\* All studies but this one stand still.
Only(s) ==
  /\ study = s /\ UNCHANGED study
  /\ s # "document" => UNCHANGED vars
  /\ s # "quota" => UNCHANGED quotaVars
  /\ s # "engine" => UNCHANGED engineVars
  /\ s # "structure" => UNCHANGED structureVars
  /\ s # "account" => UNCHANGED accountVars
  /\ s # "backtest" => UNCHANGED backtestVars
  /\ s # "feed" => UNCHANGED feedVars
  /\ s # "drawings" => UNCHANGED studioVars
  /\ s # "preview" => UNCHANGED previewVars
  /\ s # "history" => UNCHANGED historyVars

StudiesNext ==
  \/ Only("document") /\ Next
  \/ Only("quota") /\ QuotaNext
  \/ Only("engine") /\ OnBar
  \/ Only("structure") /\ NextCandle
  \/ Only("account") /\ AccountNext
  \/ Only("backtest") /\ BacktestNext
  \/ Only("feed") /\ FeedNext
  \/ Only("drawings") /\ StudioNext
  \/ Only("preview") /\ PreviewNext
  \/ Only("history") /\ HistoryNext

StudiesSpec == StudiesInit /\ [][StudiesNext]_studiesVars

\* The variables of the study that runs hold what the code's own can.
StudiesTypeOK ==
  CASE study = "document" -> TypeOK
    [] study = "quota" -> QuotaTypeOK
    [] study = "engine" -> EngineTypeOK
    [] study = "structure" -> StructureTypeOK
    [] study = "account" -> AccountTypeOK
    [] study = "backtest" -> BacktestTypeOK
    [] study = "feed" -> FeedTypeOK
    [] study = "drawings" -> StudioTypeOK
    [] study = "preview" -> PreviewTypeOK
    [] study = "history" -> HistoryTypeOK

================================================================================
