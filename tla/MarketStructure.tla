----------------------------- MODULE MarketStructure -----------------------------
(***************************************************************************)
(* Three readings of the same completed candles: the swing structure of    *)
(* the A2 strategy (buildStructureTimeline and evaluateStructureA2 of      *)
(* lib/structureA2Core.mjs), the annotations of the XMI chart              *)
(* (detectStructure of lib/xmiStructure.mjs) and the channel of the        *)
(* breakout strategy (latestSetup of lib/priceBreakoutShadow.js).  One     *)
(* step is one iteration of their loops over the candles.                  *)
(*                                                                         *)
(* Prices are small integers.  What compares a candle with the candles'    *)
(* usual size (ATR, displacement, quality of a close) is drawn: wide says  *)
(* that the current candle passes such tests.  Annotations that no later   *)
(* candle depends on (gaps, sweeps, blocks, sessions) are left out.        *)
(***************************************************************************)
EXTENDS Integers, Sequences, FiniteSets

CONSTANTS Candles,       \* candles, by their high and whether they close there or at their low
          Spread,        \* the distance from its high to its low
          EntryBars,     \* candles of the entry channel (20)
          ExitBars,      \* candles of the exit channel (10)
          WarmUp         \* candles before the strategies judge one (20)

ASSUME CandlesAssumption == Candles \subseteq [high : Int, up : BOOLEAN] /\ Spread \in Nat \ {0}
ASSUME ChannelsAssumption ==
  /\ {EntryBars, ExitBars} \subseteq 1..WarmUp
  /\ WarmUp \in Nat

VARIABLES recent,        \* the last candles, as many as anything looks back on
          seen,          \* how many candles there were, until nobody asks
          timeline,      \* A2: the latest pivot of each kind
          chart,         \* XMI: the latest pivots and the trend of their breaks
          verdict        \* what the three say of the current candle

structureVars == <<recent, seen, timeline, chart, verdict>>

Kinds == {"HIGH", "LOW"}
LowOf(c) == c.high - Spread
CloseOf(c) == IF c.up THEN c.high ELSE LowOf(c)
Extreme(kind, c) == IF kind = "HIGH" THEN c.high ELSE LowOf(c)
Beyond(kind, a, b) == IF kind = "HIGH" THEN a > b ELSE a < b
Direction(kind) == IF kind = "HIGH" THEN "bull" ELSE "bear"

Around == 5                                 \* pivotLeft, the pivot and pivotRight
Kept == IF EntryBars + 1 > Around THEN EntryBars + 1 ELSE Around
Enough == IF WarmUp > 5 THEN WarmUp ELSE 5
LastN(s, n) == SubSeq(s, Len(s) - n + 1, Len(s))
Pushed(c) == IF Len(recent) < Kept THEN Append(recent, c) ELSE Append(Tail(recent), c)

\* A pivot with its label; beyond is history: a candle has closed beyond it since.
NoPivot == [there |-> FALSE, price |-> 0, label |-> "", broken |-> FALSE, beyond |-> FALSE]
Pivot(p, tag) == [there |-> TRUE, price |-> p, label |-> tag, broken |-> FALSE, beyond |-> FALSE]
NoBreak == [direction |-> "", level |-> 0]

(***************************************************************************)
(* A2.                                                                     *)
(***************************************************************************)
\* isSwingHigh and isSwingLow, for the candle that has two after it.
isSwing(kind, bars) ==
  /\ Len(bars) >= Around
  /\ \E five \in {LastN(bars, Around)} : \A n \in (1..Around) \ {3} :
       Beyond(kind, Extreme(kind, five[3]), Extreme(kind, five[n]))

pivotLabel(kind, price, prior) ==
  CASE ~prior.there -> "FIRST"
    [] prior.there /\ price > prior.price -> IF kind = "HIGH" THEN "HH" ELSE "HL"
    [] prior.there /\ price < prior.price -> IF kind = "HIGH" THEN "LH" ELSE "LL"
    [] OTHER -> "EQ"

trendFrom(line) ==
  CASE line["HIGH"].label = "HH" /\ line["LOW"].label = "HL" -> "BULLISH"
    [] line["HIGH"].label = "LH" /\ line["LOW"].label = "LL" -> "BEARISH"
    [] OTHER -> "NEUTRAL"

eventType(kind, trend) ==
  IF trend = "NEUTRAL" THEN "BREAK"
  ELSE IF (kind = "HIGH") = (trend = "BULLISH") THEN "BOS" ELSE "CHOCH"

NewPivots(line, bars) ==
  [kind \in Kinds |->
     IF isSwing(kind, bars)
     THEN LET p == Extreme(kind, bars[Len(bars) - 2]) IN Pivot(p, pivotLabel(kind, p, line[kind]))
     ELSE line[kind]]

\* Variant of Crosses: a close on the level counts as beyond it already.
CrossesFromBelow(kind, pivot, prior, close) ==
  /\ pivot.there /\ ~pivot.broken
  /\ Beyond(kind, pivot.price, prior) /\ Beyond(kind, close, pivot.price)

\* The close crosses a level that was not broken before.
Crosses(kind, pivot, prior, close) ==
  /\ pivot.there /\ ~pivot.broken
  /\ ~Beyond(kind, prior, pivot.price) /\ Beyond(kind, close, pivot.price)

\* The kind of pivot that a candle breaks; the highs are asked first.
BrokenBy(line, prior, close) ==
  IF Crosses("HIGH", line["HIGH"], prior, close) THEN {"HIGH"}
  ELSE IF Crosses("LOW", line["LOW"], prior, close) THEN {"LOW"} ELSE {}

\* The pivots after a candle that broke these kinds of them.
Marked(line, broke, close) ==
  [kind \in Kinds |-> [line[kind] EXCEPT
     !.broken = @ \/ kind \in broke,
     !.beyond = @ \/ (line[kind].there /\ Beyond(kind, close, line[kind].price))]]

BreakOf(line, broke) ==
  IF broke = {} THEN NoBreak
  ELSE LET kind == CHOOSE k \in broke : k = "HIGH" \/ "HIGH" \notin broke
       IN [direction |-> Direction(kind), level |-> line[kind].price]

(***************************************************************************)
(* The channels.  A2 and the breakout strategy compute them alike.         *)
(***************************************************************************)
\* The close leaves the channel of the n candles before it on this side.
Leaves(kind, bars, n, close) ==
  \A i \in 1..n : Beyond(kind, close, Extreme(kind, bars[Len(bars) - i]))

channelBreakSide(bars, close) ==
  IF Leaves("HIGH", bars, EntryBars, close) THEN "BUY"
  ELSE IF Leaves("LOW", bars, EntryBars, close) THEN "SELL" ELSE ""

\* latestSetup of the breakout strategy: the side, and the exits of open trades.
latestSetup(bars, warm, close) ==
  IF ~warm THEN [side |-> "", exitLong |-> FALSE, exitShort |-> FALSE]
  ELSE [side |-> channelBreakSide(bars, close),
        exitLong |-> Leaves("LOW", bars, ExitBars, close),
        exitShort |-> Leaves("HIGH", bars, ExitBars, close)]

\* evaluateStructureA2: a sale, where the channel and a bearish break of structure
\* agree and the candle is a good one.
a2Side(setup, broke, trend, wide) ==
  IF setup.side = "SELL" /\ broke = {"LOW"} /\ eventType("LOW", trend) = "BOS" /\ wide
  THEN "SELL" ELSE ""

(***************************************************************************)
(* The XMI chart.                                                          *)
(***************************************************************************)
\* Variant of swing: an equal extreme on the left does not disqualify.
swingOrEqual(kind, bars) ==
  /\ Len(bars) >= Around
  /\ \E five \in {LastN(bars, Around)} :
       /\ \A n \in {1, 2} : ~Beyond(kind, Extreme(kind, five[n]), Extreme(kind, five[3]))
       /\ \A n \in {4, 5} : Beyond(kind, Extreme(kind, five[3]), Extreme(kind, five[n]))

swing(kind, bars) ==
  /\ Len(bars) >= Around
  /\ \E five \in {LastN(bars, Around)} : ~ \E n \in (1..Around) \ {3} :
       ~Beyond(kind, Extreme(kind, five[3]), Extreme(kind, five[n]))

\* The chart's names for a pivot leave out that it may equal the one before it.
ChartLabel(kind, price, prior) ==
  IF ~prior.there THEN ""
  ELSE IF price > prior.price THEN (IF kind = "HIGH" THEN "HH" ELSE "HL")
  ELSE (IF kind = "HIGH" THEN "LH" ELSE "LL")

ChartPivots(pivots, bars) ==
  [kind \in Kinds |->
     IF swing(kind, bars)
     THEN LET p == Extreme(kind, bars[Len(bars) - 2]) IN Pivot(p, ChartLabel(kind, p, pivots[kind]))
     ELSE pivots[kind]]

\* What the chart calls a break against the trend of its own breaks, or along it.
concepts(direction, trend, wide) ==
  IF trend \in {"", direction} THEN {"BOS"} ELSE {"CHoCH"} \cup (IF wide THEN {"MSS"} ELSE {})

(***************************************************************************)
(* One candle.                                                             *)
(***************************************************************************)
\* The breaks of the chart: none of the first five candles.  A chart of fewer than eight
\* shows none at all (xmiStructure.mjs:93), and then those of the candles before as well; here
\* each is of the candle that makes it.
ChartBreaks(pivots, prior, close) ==
  IF seen < 5 THEN {} ELSE {kind \in Kinds : Crosses(kind, pivots[kind], prior, close)}

Read(c, bars, line, pivots, broke, chartBroke, setup) ==
  /\ recent' = bars
  /\ seen' = IF seen < Enough THEN seen + 1 ELSE seen
  /\ timeline' = Marked(line, broke, CloseOf(c))
  /\ chart' = [pivots |-> Marked(pivots, chartBroke, CloseOf(c)),
               trend |-> IF chartBroke = {} THEN chart.trend ELSE BreakOf(pivots, chartBroke).direction]
  /\ \E wide \in IF broke \cup chartBroke = {} THEN {FALSE} ELSE BOOLEAN :
       verdict' = [a2 |-> BreakOf(line, broke),
                   setup |-> setup, side |-> a2Side(setup, broke, trendFrom(line), wide),
                   xmi |-> BreakOf(pivots, chartBroke),
                   concepts |-> IF chartBroke = {} THEN {}
                                ELSE concepts(BreakOf(pivots, chartBroke).direction, chart.trend, wide)]

Candle(c) ==
  \E bars \in {Pushed(c)} :
  \E line \in {NewPivots(timeline, bars)}, pivots \in {ChartPivots(chart.pivots, bars)} :
  \E prior \in {CloseOf(bars[IF Len(bars) = 1 THEN 1 ELSE Len(bars) - 1])} :
    Read(c, bars, line, pivots, BrokenBy(line, prior, CloseOf(c)),
         ChartBreaks(pivots, prior, CloseOf(c)), latestSetup(bars, seen >= WarmUp, CloseOf(c)))

NoVerdict == [a2 |-> NoBreak, setup |-> latestSetup(<<>>, FALSE, 0), side |-> "", xmi |-> NoBreak, concepts |-> {}]

StructureInit ==
  /\ recent = <<>> /\ seen = 0
  /\ timeline = [kind \in Kinds |-> NoPivot]
  /\ chart = [pivots |-> [kind \in Kinds |-> NoPivot], trend |-> ""]
  /\ verdict = NoVerdict

NextCandle == \E c \in Candles : Candle(c)

StructureSpec == StructureInit /\ [][NextCandle]_structureVars

(***************************************************************************)
(* Properties.                                                             *)
(***************************************************************************)
\* The candles are kept as far back as anybody looks, and no pivot is unlabelled.
StructureTypeOK ==
  /\ recent \in Seq(Candles) /\ Len(recent) <= Kept
  /\ seen \in 0..Enough /\ Len(recent) >= (IF seen < Kept THEN seen ELSE Kept)
  /\ \A kind \in Kinds : timeline[kind].there = (timeline[kind].label # "")
  /\ chart.trend \in {"", "bull", "bear"}

\* The strategy and the chart were written apart, and they report the same breaks: on
\* the same candle, in the same direction, of the same level.
BreaksAgree == verdict.a2 = verdict.xmi

\* A break is the first close beyond its level since the level's own candle: a level
\* is marked broken exactly when some candle has closed beyond it, in both readings,
\* although each compares no more than two closes and learns of a level late.
FirstCloseBreaks ==
  \A kind \in Kinds : \A pivot \in {timeline[kind], chart.pivots[kind]} : pivot.broken = pivot.beyond

\* Two readers of one market report the same breaks, each the first close beyond its level
\* (structureA2Core.mjs:135-234, xmiStructure.mjs:98-137).
BreaksAreFirstCloses == BreaksAgree /\ FirstCloseBreaks
================================================================================
