------------------------------- MODULE ScalpEngine -------------------------------
(***************************************************************************)
(* The 2M scalp strategy, StrategyEngine of lib/scalpStrategyCore.mjs: a   *)
(* machine fed one completed candle at a time, past its ATR's warm-up.  A  *)
(* sweep of a swing level starts a setup, which has to see a change of     *)
(* character, a pullback, a break of structure, a displacement, a gap and  *)
(* a retest of the gap, each within a number of candles; the retest may    *)
(* open a position, which its stop or its target ends.                     *)
(*                                                                         *)
(* Prices are left out: what a candle does to the levels the machine looks *)
(* at is a set of facts, drawn among those it asks for.  Moments are ages  *)
(* in candles.  An ATR of zero takes fifteen equal candles, by which time  *)
(* every setup has run out: it is left out as well.                        *)
(***************************************************************************)
EXTENDS Integers

CONSTANTS ChochWindow, BosWindow, GapWindow, RetestWindow,  \* 6, 10, 2 and 6 candles
          SweepCooldown, DuplicateWindow,                        \* 3 and 10 candles
          H1Mode,                                           \* what the hourly bias must be
          MaxSweeps                                         \* how many setups are followed

ASSUME WindowsAssumption ==
  /\ {ChochWindow, BosWindow, GapWindow, RetestWindow} \subseteq Nat
  /\ {SweepCooldown, DuplicateWindow, MaxSweeps} \subseteq Nat
  /\ H1Mode \in {"off", "required", "nonOpposite"}

VARIABLES setup,         \* the setup that is followed
          levels,        \* whether a level that each side can sweep is there to be swept
          structure,     \* whether a pivot was seen on each side
          lastSweep,     \* how long ago each side was last swept
          position,      \* the open position
          audit,         \* auditFrom is past: candles count and positions are opened
          funnel,        \* how many setups got how far
          exits,         \* the trades, by how they ended
          straddle       \* a setup was under way when the audit began (history)

engineVars == <<setup, levels, structure, lastSweep, position, audit, funnel, exits, straddle>>

Sides == {"BULL", "BEAR"}
Opposite(side) == IF side = "BULL" THEN "BEAR" ELSE "BULL"
SetupStates == {"", "WAIT_CH", "WAIT_PULLBACK", "WAIT_BOS", "WAIT_DISP2", "WAIT_FVG", "WAIT_RETEST"}
\* The counters of the funnel: sweeps, choch, bos, displacementPass, fvgFound,
\* retestTouch, midpointRetest, geometryPass, h1Pass and tradesOpened.
Stages == 1..10
Exits == {"STOP", "TARGET", "BOTH_STOP_FIRST"}
LongAgo == DuplicateWindow + 1       \* so long ago that nothing asks any more
None == -1

\* The ages of what the setup has seen so far; None is null.
NoSetup == [side |-> "", state |-> "", sweep |-> None, choch |-> None, pullback |-> None,
            first |-> None, disp |-> None, fvg |-> None]
NoPosition == [side |-> "", h1 |-> ""]

(***************************************************************************)
(* The hourly bias.  updateH1Structure compares the last two swing highs   *)
(* and the last two swing lows; there may be too few of them.              *)
(***************************************************************************)
Moves == {"few", "up", "down", "level"}

H1Bias(high, low) ==
  CASE "few" \in {high, low} -> "BUILDING"
    [] high = "up" /\ low = "up" -> "BULL"
    [] high = "down" /\ low = "down" -> "BEAR"
    [] OTHER -> "NEUTRAL"

Biases == {H1Bias(high, low) : high \in Moves, low \in Moves}

h1Passes(side, bias) ==
  \/ H1Mode = "off"
  \/ bias = side
  \/ H1Mode = "nonOpposite" /\ bias = "NEUTRAL"

(***************************************************************************)
(* The setup.  Each operator is one of the handler's stages, in order; a   *)
(* stage may hand on to the next within one candle.                        *)
(***************************************************************************)
Older(n) == IF n = None THEN None ELSE n + 1
Aged(s) == [s EXCEPT !.sweep = Older(@), !.choch = Older(@), !.pullback = Older(@),
                     !.first = Older(@), !.disp = Older(@), !.fvg = Older(@)]

Invalidated(s, f) == IF s # NoSetup /\ "beyond extreme" \in f THEN NoSetup ELSE s

AwaitChoch(s, f) ==
  IF s.state # "WAIT_CH" THEN s
  ELSE IF s.sweep > ChochWindow THEN NoSetup
  ELSE IF "beyond choch" \in f THEN [s EXCEPT !.state = "WAIT_PULLBACK", !.choch = 0] ELSE s

\* Variant of AwaitPullback: without a timeout of its own.
AwaitPullbackLong(s, f) ==
  IF s.state = "WAIT_PULLBACK" /\ "pulled back" \in f THEN [s EXCEPT !.state = "WAIT_BOS", !.pullback = 0] ELSE s

AwaitPullback(s, f) ==
  IF s.state # "WAIT_PULLBACK" THEN s
  ELSE IF s.choch > BosWindow THEN NoSetup
  ELSE IF "pulled back" \in f THEN [s EXCEPT !.state = "WAIT_BOS", !.pullback = 0] ELSE s

\* startDisplacement, for one candle (D1) or, later, for two (D2).
Displaced(s) == [s EXCEPT !.state = "WAIT_FVG", !.disp = 0]

AwaitBos(s, f) ==
  IF s.state # "WAIT_BOS" THEN s
  ELSE IF s.choch > BosWindow THEN NoSetup
  ELSE IF s.pullback = 0 \/ "beyond bos" \notin f THEN s
  ELSE IF "displaced" \in f THEN Displaced(s) ELSE [s EXCEPT !.state = "WAIT_DISP2", !.first = 0]

AwaitSecond(s, f) ==
  IF s.state # "WAIT_DISP2" \/ s.first = 0 THEN s
  ELSE IF s.first = 1 /\ "displaced" \in f THEN Displaced(s) ELSE NoSetup

AwaitGap(s, f) ==
  IF s.state # "WAIT_FVG" THEN s
  ELSE IF s.disp > GapWindow THEN NoSetup
  ELSE IF "gap" \in f THEN [s EXCEPT !.state = "WAIT_RETEST", !.fvg = 0] ELSE s

Touched(s, f) ==
  /\ s.state = "WAIT_RETEST" /\ s.fvg \in 1..RetestWindow
  /\ "through gap" \notin f /\ "touches gap" \in f

\* Variant of AwaitRetest: a gap that was touched is waited for again.
AwaitAnotherRetest(s, f) ==
  IF s.state = "WAIT_RETEST" /\ s.fvg > 0 /\ (s.fvg > RetestWindow \/ "through gap" \in f) THEN NoSetup ELSE s

\* The setup ends here: too late, closed through, or retested with or without a trade.
AwaitRetest(s, f) ==
  IF s.state = "WAIT_RETEST" /\ s.fvg > 0 /\ (s.fvg > RetestWindow \/ {"through gap", "touches gap"} \cap f # {})
  THEN NoSetup ELSE s

\* The setup as it comes to the last stage of this candle.
UntilGap(s, f) ==
  LET valid == Invalidated(s, f)
      choch == AwaitChoch(valid, f)
      pullback == AwaitPullback(choch, f)
      bos == AwaitBos(pullback, f)
      second == AwaitSecond(bos, f)
  IN AwaitGap(second, f)

(***************************************************************************)
(* What bump counts for a setup s that ends the stages as t.               *)
(***************************************************************************)
Rank(state) ==
  CASE state \in {"", "WAIT_CH"} -> 1 [] state \in {"WAIT_PULLBACK", "WAIT_BOS"} -> 2
    [] state = "WAIT_DISP2" -> 3 [] state = "WAIT_FVG" -> 4 [] OTHER -> 5

\* tryOpen's conditions, in their order: whether a retest gets to stage n.
Gets(s, f, bias, n) ==
  /\ Touched(s, f)
  /\ n >= 7 => "reaches middle" \in f
  /\ n >= 8 => "geometry" \in f
  /\ n >= 9 => h1Passes(s.side, bias)

Passed(s, t, f, bias) ==
  {n \in 2..5 : Rank(s.state) < n /\ n <= Rank(t.state)} \cup {n \in 6..10 : Gets(t, f, bias, n)}

(***************************************************************************)
(* Sweeps.  A level is looked at only between setups; it is three candles  *)
(* old by then, since it takes two to tell a pivot.                        *)
(***************************************************************************)
Cooling == \E side \in Sides : lastSweep[side] <= SweepCooldown
Duplicate(side, level) == lastSweep[side] <= DuplicateWindow /\ level[side] = "swept same level"
Swept(side, level) == levels[side] /\ level[side] \in {"swept", "swept same level"}

\* A valid sweep of the side consumes its level; it starts a setup if it is none of
\* these and there is a pivot on the other side to measure the change of character.
Starts(side, level, pivot) ==
  /\ Swept(side, level)
  /\ ~Duplicate(side, level) /\ ~Cooling
  /\ structure[Opposite(side)] \/ pivot[Opposite(side)] # "none"

Consumed(side, level) == Swept(side, level) \/ (levels[side] /\ level[side] = "closed beyond")

NewSetup(side) == [NoSetup EXCEPT !.side = side, !.state = "WAIT_CH", !.sweep = 0]

(***************************************************************************)
(* One candle.                                                             *)
(***************************************************************************)
\* What a candle can do to the setup it meets: each set of facts is one course of
\* the stages, and facts that no stage asks for are not drawn.
SetupFacts ==
  {{}} \cup (IF setup.state = "" THEN {} ELSE {{"beyond extreme"}}) \cup
  CASE setup.state = "" -> {}
    [] setup.state = "WAIT_CH" -> {{"beyond choch"}, {"beyond choch", "pulled back"}}
    [] setup.state = "WAIT_PULLBACK" -> {{"pulled back"}}
    [] setup.state = "WAIT_BOS" ->
         {{"beyond bos"}, {"beyond bos", "displaced"}, {"beyond bos", "displaced", "gap"}}
    [] setup.state = "WAIT_DISP2" -> {{"displaced"}, {"displaced", "gap"}}
    [] setup.state = "WAIT_FVG" -> {{"gap"}}
    [] OTHER -> {{"through gap"}, {"touches gap"}, {"touches gap", "reaches middle"},
                 {"touches gap", "reaches middle", "geometry"}}

SideFacts(side) ==
  {"nothing"} \cup (IF setup = NoSetup /\ levels[side] THEN {"swept", "closed beyond"} ELSE {})
    \cup IF setup = NoSetup /\ levels[side] /\ lastSweep[side] <= DuplicateWindow
         THEN {"swept same level"} ELSE {}

\* Whether the candle two back is a pivot, and one that stands out as a swing level.
PivotFacts(side) ==
  {"none"} \cup (IF structure[side] THEN {} ELSE {"pivot"})
           \cup (IF levels[side] /\ setup # NoSetup THEN {} ELSE {"swing pivot"})

Hits == SUBSET {"stop", "target"}
Outcome(hits) == IF hits = {"stop", "target"} THEN "BOTH_STOP_FIRST"
                 ELSE IF hits = {"stop"} THEN "STOP" ELSE "TARGET"

\* processPositionBar: the position ends when the candle touches its stop or target.
Close(open, hits) ==
  IF hits = {} THEN position' = open /\ UNCHANGED exits
  ELSE position' = NoPosition /\ exits' = [exits EXCEPT ![Outcome(hits)] = @ + 1]

\* The clock of the candle reaches auditFrom.
Audit ==
  /\ audit' \in {audit, TRUE}
  /\ straddle' = IF ~audit /\ audit' THEN setup # NoSetup ELSE straddle

Aging == [side \in Sides |-> IF lastSweep[side] = LongAgo THEN LongAgo ELSE lastSweep[side] + 1]

\* While a position is open nothing else is looked at, not even for pivots.
HoldPosition(hits) ==
  /\ position # NoPosition
  /\ Audit
  /\ Close(position, hits)
  /\ lastSweep' = Aging
  /\ UNCHANGED <<setup, levels, structure, funnel>>

Counted(stages) == [n \in Stages |-> IF n \in stages THEN funnel[n] + 1 ELSE funnel[n]]

\* The side that this candle sweeps, if any; the lows come first.
SweptSide(level, pivot) ==
  IF setup # NoSetup THEN ""                    \* not even when it ends here: sequenceClosed
  ELSE IF Starts("BULL", level, pivot) THEN "BULL"
  ELSE IF Starts("BEAR", level, pivot) THEN "BEAR" ELSE ""

Swings(side, level, pivot, swept) ==
  \/ pivot[side] = "swing pivot"
  \/ levels[side] /\ ~(setup = NoSetup /\ Consumed(side, level) /\ (side = "BEAR" => swept # "BULL"))

\* One candle without a position: s is the setup it meets and t what the stages
\* before the retest make of it.
Follow(s, t, f, level, pivot, bias, swept) ==
  /\ swept # "" => funnel[1] < MaxSweeps
  /\ Audit
  /\ setup' = IF swept # "" THEN NewSetup(swept) ELSE AwaitRetest(t, f)
  /\ structure' = [side \in Sides |-> structure[side] \/ pivot[side] # "none"]
  /\ lastSweep' = [side \in Sides |-> IF side = swept THEN 1 ELSE Aging[side]]
  /\ levels' = [side \in Sides |-> Swings(side, level, pivot, swept)]
  /\ funnel' = IF audit' THEN Counted(Passed(s, t, f, bias) \cup IF swept # "" THEN {1} ELSE {}) ELSE funnel
  /\ IF audit' /\ Gets(t, f, bias, 9)
     THEN \E hits \in Hits : Close([side |-> t.side, h1 |-> bias], hits)
     ELSE UNCHANGED <<position, exits>>

FollowSetup(f, level, pivot, bias) ==
  /\ position = NoPosition
  /\ \E s \in {Aged(setup)} : \E t \in {UntilGap(s, f)} :
       Follow(s, t, f, level, pivot, bias, SweptSide(level, pivot))

EngineInit ==
  /\ setup = NoSetup
  /\ levels = [side \in Sides |-> FALSE]
  /\ structure = [side \in Sides |-> FALSE]
  /\ lastSweep = [side \in Sides |-> LongAgo]
  /\ position = NoPosition
  /\ audit \in BOOLEAN
  /\ funnel = [n \in Stages |-> 0]
  /\ exits = [e \in Exits |-> 0]
  /\ straddle = FALSE

BiasesAsked(f) == IF "geometry" \in f THEN Biases ELSE {"BUILDING"}

OnBar ==
  \/ \E hits \in Hits : HoldPosition(hits)
  \/ \E f \in SetupFacts : \E bias \in BiasesAsked(f) :
       \E low \in SideFacts("BULL"), high \in SideFacts("BEAR") :
       \E pl \in PivotFacts("BULL"), ph \in PivotFacts("BEAR") :
         FollowSetup(f, [BULL |-> low, BEAR |-> high], [BULL |-> pl, BEAR |-> ph], bias)

EngineSpec == EngineInit /\ [][OnBar]_engineVars

(***************************************************************************)
(* Properties.                                                             *)
(***************************************************************************)
\* The setup, the position and the counts have the shape of their fields.
EngineTypeOK ==
  /\ setup.side \in Sides \cup {""} /\ setup.state \in SetupStates
  /\ (setup.state = "") = (setup = NoSetup)
  /\ position = NoPosition \/ (position.side \in Sides /\ position.h1 \in Biases)
  /\ position # NoPosition => setup = NoSetup /\ audit
  /\ \A side \in Sides : lastSweep[side] \in 1..LongAgo

\* Counted from a clean start, no stage of the funnel has more setups than the one
\* before it; one setup under way when the audit began may come on top.  So a sweep
\* makes one trade at most, and every trade that was opened ended once or is open.
FunnelNarrows ==
  /\ \A n \in Stages \ {1} : funnel[n] <= funnel[n - 1] + (IF straddle THEN 1 ELSE 0)
  /\ funnel[10] = exits["STOP"] + exits["TARGET"] + exits["BOTH_STOP_FIRST"]
                     + (IF position = NoPosition THEN 0 ELSE 1)

\* Whatever the candles do, a setup is over a fixed number of candles after its sweep.
SetupInTime ==
  setup.sweep <= ChochWindow + BosWindow + 1 + GapWindow + RetestWindow

\* A sweep makes one trade at most, and its setup ends within a fixed number of candles
\* (scalpStrategyCore.mjs:493-848).
SetupsAccounted == FunnelNarrows /\ SetupInTime
================================================================================
