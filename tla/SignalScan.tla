------------------------------- MODULE SignalScan -------------------------------
(***************************************************************************)
(* How one request turns candles into a verdict: the trend pullback of     *)
(* forexStrategyV1.js ("v1"), the same replay read for the soft H1 regime  *)
(* ("soft"), and the two that read whole hours, structureA2Shadow.js       *)
(* ("structure") and priceBreakoutShadow.js ("breakout"), and the virtual  *)
(* position of scalpShadow.mjs ("scalp").  A scan keeps nothing from the   *)
(* one before: it reads the history again and replays it.                  *)
(*                                                                         *)
(* A slot is a candle of 15 minutes (5 for the scalp), numbered from 1;    *)
(* slot n+1 is running when n have closed.  Prices are left out: a candle  *)
(* says what the rules read from it.  Slots are those of weekdays.         *)
(***************************************************************************)
EXTENDS Integers, FiniteSets, Sequences

CONSTANTS Shapes,        \* what a candle may look like
          Past,          \* the candles from before the first scan
          Slots,         \* how many close
          PerHour,       \* in an hour
          Session,       \* the slots in the hours of entry
          Scheduled,     \* the slots in a blackout of the macro calendar
          Elections,     \* the slots in a blackout that the configuration fixes
          RegimeWarm,    \* how many hours the indicators of the hour need
          Cooldown,      \* shockCooldownBars
          Lookback, SoftLookback,   \* how far back a pullback may lie
          Channel,       \* the hours an hourly setup needs before it
          Spreads,       \* what a quote may show, in pips
          Window,        \* how many slots the history of a scan reaches back
          WarmupFrom, PeriodStart   \* the first slots of the validation and of its period

ASSUME SlotsAssumption ==
  /\ Slots \in Nat /\ PerHour \in Nat \ {0} /\ Cooldown \in Nat /\ Channel \in Nat
  /\ Past \in Seq({Past[i] : i \in DOMAIN Past}) /\ Len(Past) <= Slots
  /\ Lookback \in Nat /\ SoftLookback \in Nat /\ Spreads \subseteq Nat
  /\ Window \in Nat /\ WarmupFrom \in Nat /\ PeriodStart \in Nat /\ RegimeWarm \in Nat

\* seen: the broker has it.  wild: its range or the ATR is a shock.  ema: EMA20 against
\* EMA50.  hist: the sign of the MACD histogram.  zone: it touched the zone between the
\* EMAs.  kept: its close against EMA50, close: against EMA20.  breaks: the high or the
\* low of the candle before, or at the end of an hour of the channel; bos: that is a break
\* of structure of good quality.  stop: the pips to the stop.  scalp: the scalp engine enters or
\* leaves its position.  Those are the same in every replay that has been through a regime's
\* hours, which is many times the memory of the indicators of a candle.  Not so those of the
\* hour, which forget slowly where they began: regime[n] is what they say, stack, adx and di,
\* once the hour of this candle is complete, in a replay that began n candles ago.
ASSUME ShapesAssumption ==
  \A c \in Shapes \cup {Past[i] : i \in DOMAIN Past} :
    /\ {c.seen, c.wild, c.zone, c.bos} \subseteq BOOLEAN /\ c.ema \in {"up", "down"}
    /\ c.rsi \in 0..100 /\ c.hist \in -1..1 /\ {c.kept, c.close} \subseteq {"above", "below"}
    /\ c.breaks \in {"high", "low", "none"} /\ c.stop \in Nat
    /\ c.regime \in Seq({c.regime[n] : n \in DOMAIN c.regime}) /\ c.regime # <<>>
    /\ \A n \in DOMAIN c.regime : /\ c.regime[n].stack \in {"up", "down", "none"}
                                  /\ c.regime[n].adx \in Nat /\ c.regime[n].di \in {"up", "down", "even"}
    /\ c.scalp \in {"enters", "leaves", "none"}

VARIABLES tape,          \* the candles that have closed
          request,       \* the scan under way
          answer         \* what the last one answered

scanVars == <<tape, request, answer>>

Strategies == {"v1", "soft", "structure", "breakout", "scalp"}
Unknown == 99
NoRequest == [kind |-> "none", step |-> "idle", asOf |-> 0, seen |-> {}, spread |-> Unknown,
              risk |-> "within"]
NoAnswer == [kind |-> "none", slot |-> 0, asOf |-> 0, status |-> "NONE", side |-> "NONE",
             spread |-> Unknown]

\* The last and the first of some slots.
Newest(slots) == CHOOSE i \in slots : \A j \in slots : j <= i
Oldest(slots) == CHOOSE i \in slots : \A j \in slots : i <= j

(***************************************************************************)
(* The H1 regime (h1Regime.mjs), of the last hour that a later candle has  *)
(* completed.                                                              *)
(***************************************************************************)
HourOf(i) == (i - 1) \div PerHour
MinimumAdx == 20

NotReady == [strength |-> "NOT_READY", direction |-> "NONE"]

\* What the indicators of the hour say.
classifyH1Regime(c) ==
  IF c.stack = "none" THEN [strength |-> "NEUTRAL", direction |-> "NONE"]
  ELSE [direction |-> IF c.stack = "up" THEN "LONG" ELSE "SHORT",
        strength |-> IF c.adx < MinimumAdx THEN "SOFT"
                     ELSE IF c.di = c.stack THEN "HARD" ELSE "CONFLICT"]

Earlier(rows, i) == {j \in rows : HourOf(j) < HourOf(i)}

\* What the hour of a candle says in a replay of so many candles up to it; from some
\* length on it no longer changes.
Reading(c, length) == c.regime[IF length < Len(c.regime) THEN length ELSE Len(c.regime)]

\* Ready once enough hours are behind, and what it is by where the replay began.
RegimeAt(rows, i) ==
  LET earlier == Earlier(rows, i)
      last == Newest(earlier)
  IN IF earlier = {} \/ Cardinality({HourOf(j) : j \in earlier}) < RegimeWarm THEN NotReady
     ELSE classifyH1Regime(Reading(tape[last], last - Oldest(rows) + 1))

(***************************************************************************)
(* The evaluator of forexStrategyV1.js: what it keeps between candles, and *)
(* its verdict on the last.  The candles whose indicators are not warm are *)
(* those before an H1 regime is ready.                                     *)
(***************************************************************************)
Evaluator == [rows |-> {}, rest |-> 0, status |-> "NONE", side |-> "NONE", blocked |-> FALSE,
              soft |-> "NOT_SOFT_REGIME"]

MaxSpread == [v1 |-> 3, soft |-> 3, structure |-> 2, breakout |-> 3, scalp |-> 2]

\* The V1 scan has the blackouts of the configuration alone, the hourly ones those of the
\* calendar, the soft one both.
Blackout(kind) ==
  CASE kind = "v1" -> Elections [] kind = "soft" -> Elections \cup Scheduled [] OTHER -> Scheduled

isInsideBlackout(kind, i) == i \in Blackout(kind)

\* An unknown spread is no shock, nor too wide.
TooWide(kind, spread) == spread # Unknown /\ spread > MaxSpread[kind]

evaluateMarketShock(i, spread) == tape[i].wild \/ TooWide("v1", spread)

\* Variant of Rest: a shock within a cooldown does not begin it anew.
RestOnce(rest, shock) == IF shock /\ rest = 0 THEN Cooldown ELSE IF rest > 0 THEN rest - 1 ELSE 0

\* shockCooldownRemaining: the candle of the shock is the first of the cooldown.
Rest(rest, shock) == IF shock THEN Cooldown ELSE IF rest > 0 THEN rest - 1 ELSE 0

\* The last n of them.
Recent(rows, n) == {i \in rows : Cardinality({j \in rows : j > i}) < n}

\* Variant of Crossed: the histogram is on the side, whatever it was before.
CrossedNow(rows, i, side) == IF side = "LONG" THEN tape[i].hist > 0 ELSE tape[i].hist < 0

\* The histogram has changed its side with this candle.
Crossed(rows, i, side) ==
  /\ rows # {}
  /\ IF side = "LONG" THEN tape[Newest(rows)].hist <= 0 /\ tape[i].hist > 0
                      ELSE tape[Newest(rows)].hist >= 0 /\ tape[i].hist < 0

\* pullbackLong, pullbackShort: a candle touched the zone and closed on the right side of EMA50.
Pullback(rows, side) ==
  \E j \in Recent(rows, Lookback) :
    tape[j].zone /\ tape[j].kept = IF side = "LONG" THEN "above" ELSE "below"

hadRsiReset(rows, side) ==
  \E j \in Recent(rows, Lookback) : tape[j].rsi \in IF side = "LONG" THEN 40..55 ELSE 45..60

\* The checks of the trend pullback that hold.
checks(rows, i, side) ==
  LET c == tape[i]
      long == side = "LONG"
      holds == [emaTrend |-> c.ema = IF long THEN "up" ELSE "down",
                pullback |-> Pullback(rows, side), rsiReset |-> hadRsiReset(rows, side),
                rsiTrigger |-> IF long THEN c.rsi > 50 ELSE c.rsi < 50,
                macdCross |-> Crossed(rows, i, side),
                previousBarBreak |-> rows # {} /\ c.breaks = IF long THEN "high" ELSE "low"]
  IN {x \in DOMAIN holds : holds[x]}

\* evaluateSoftRegimePullback: how far the recovery from a pullback against a soft
\* regime has come.
SoftStage(regime, rows, i) ==
  LET long == regime.direction = "LONG"
      against(c) == IF long THEN c.ema = "down" /\ c.rsi < 50 /\ c.hist < 0
                            ELSE c.ema = "up" /\ c.rsi > 50 /\ c.hist > 0
  IN CASE regime.strength # "SOFT" -> "NOT_SOFT_REGIME"
       [] ~\E j \in Recent(rows, SoftLookback) : against(tape[j]) -> "WAITING_FOR_PULLBACK"
       [] tape[i].close # (IF long THEN "above" ELSE "below") -> "WAITING_FOR_EMA20"
       [] ~(IF long THEN tape[i].rsi >= 50 ELSE tape[i].rsi <= 50) -> "WAITING_FOR_RSI"
       [] ~Crossed(rows, i, regime.direction) -> "WAITING_FOR_MACD"
       [] OTHER -> "READY"

\* The soft scan runs around the clock.
inSession(kind, i) == kind = "v1" => i \in Session

\* What the state becomes: its own blocks, then the checks.
StatusOf(blocked, strength, passed) ==
  CASE blocked -> "BLOCKED"
    [] ~blocked /\ strength = "HARD" /\ passed = 6 -> "SIGNAL_READY"
    [] ~blocked /\ strength = "HARD" /\ passed \in 3..5 -> "SETUP_FORMING"
    [] OTHER -> "WATCHING"

\* evaluate: one candle.
Evaluated(ev, kind, i, spread) ==
  LET regime == RegimeAt(ev.rows, i)
      shock == evaluateMarketShock(i, spread)
      rest == Rest(ev.rest, shock)
      blocked == \/ ~inSession(kind, i) \/ isInsideBlackout(kind, i) \/ shock \/ rest > 0
                 \/ regime.strength = "NOT_READY"
  IN [rows |-> ev.rows \cup {i}, rest |-> rest, blocked |-> blocked,
      soft |-> SoftStage(regime, ev.rows, i),
      side |-> IF regime.strength \in {"HARD", "SOFT"} THEN regime.direction ELSE "NONE",
      status |-> StatusOf(blocked, regime.strength,
                          Cardinality(checks(ev.rows, i, regime.direction)))]

\* The evaluator after those of the candles 1 to n that are in rows, one by one.
EvaluatedTo(n, kind, rows, spread) ==
  LET after[i \in 0..n] == IF i = 0 THEN Evaluator
                           ELSE IF i \in rows THEN Evaluated(after[i - 1], kind, i, spread)
                           ELSE after[i - 1]
  IN after[n]

\* The history is replayed without a spread; the live one is the last candle's.
Replayed(kind, rows, spread) ==
  Evaluated(EvaluatedTo(Newest(rows) - 1, kind, rows, Unknown), kind, Newest(rows), spread)

SeenIn(from, to) == {i \in from..to : tape[i].seen}

\* What the broker shows to a scan that begins when asOf candles have closed, when it is
\* so many candles late.
WindowStart(asOf) == IF asOf > Window THEN asOf - Window + 1 ELSE 1
History(asOf, late) == SeenIn(WindowStart(asOf), asOf - late)

\* A quote that is too large a part of the stop.
Steep(i, spread) == spread # Unknown /\ 5 * spread > tape[i].stop

\* Variant of Fresh: any candle before the running one will do.
Before(i, asOf) == i <= asOf

\* The candle after i is the running one.
Fresh(i, asOf) == i = asOf

\* The risk of the smallest lot against its ceiling; an unknown one is not refused.
MinLotRisks == {"within", "over", "unknown"}
Over(risk) == risk = "over"

(***************************************************************************)
(* The verdicts, on the history that was read.                        *)
(***************************************************************************)
Answer(r, i, status, side) ==
  [kind |-> r.kind, slot |-> i, asOf |-> r.asOf, status |-> status, side |-> side,
   spread |-> r.spread]

\* scanForexSignal: it does not ask how old the last candle is.
V1Answer(r) ==
  LET ev == Replayed("v1", r.seen, r.spread)
      i == Newest(r.seen)
  IN Answer(r, i, IF ev.status = "SIGNAL_READY" /\ Steep(i, r.spread) THEN "BLOCKED" ELSE ev.status,
            ev.side)

SoftAnswer(r) ==
  LET ev == Replayed("soft", r.seen, r.spread)
      i == Newest(r.seen)
      refused == ~Fresh(i, r.asOf) \/ TooWide("soft", r.spread) \/ Steep(i, r.spread)
                 \/ Over(r.risk)
  IN Answer(r, i, CASE ev.blocked \/ (ev.soft = "READY" /\ refused) -> "BLOCKED"
                    [] ~ev.blocked /\ ev.soft = "READY" /\ ~refused -> "SIGNAL_READY"
                    [] ~ev.blocked /\ ev.soft \in {"WAITING_FOR_EMA20", "WAITING_FOR_RSI",
                                                   "WAITING_FOR_MACD"} -> "SETUP_FORMING"
                    [] OTHER -> "WATCHING", ev.side)

HourSlots(h) == (h * PerHour + 1)..((h + 1) * PerHour)

\* Variant of CompletedHours: an hour with a candle in its last slot.
HoursWithAnEnd(rows) == {h \in 0..(Slots - 1) : (h + 1) * PerHour \in rows}

\* The hours that have all their candles.
CompletedHours(rows) == {h \in 0..(Slots - 1) : HourSlots(h) \subseteq rows}

\* The last slot of the last whole hour, the candle an hourly setup is of.
SetupSlot(rows) == (Newest(CompletedHours(rows)) + 1) * PerHour

\* latestSetup: the close of the hour is beyond the channel of the hours before it.
BreakoutSide(i) ==
  CASE tape[i].breaks = "high" -> "LONG" [] tape[i].breaks = "low" -> "SHORT" [] OTHER -> "NONE"

\* candidateStage: a break downwards that is a break of structure of good quality.
StructureSide(i) == IF tape[i].breaks = "low" /\ tape[i].bos THEN "SHORT" ELSE "NONE"

HasSetup(r) == Cardinality(CompletedHours(r.seen)) > Channel

SideOf(r) ==
  IF ~HasSetup(r) THEN "NONE"
  ELSE IF r.kind = "structure" THEN StructureSide(SetupSlot(r.seen)) ELSE BreakoutSide(SetupSlot(r.seen))

\* What both hourly strategies refuse; the entry is the candle after the signal's.
HourlyRefused(r, i) ==
  \/ ~Fresh(i, r.asOf)
  \/ i + 1 \notin Session
  \/ isInsideBlackout(r.kind, i) \/ isInsideBlackout(r.kind, i + 1)
  \/ TooWide(r.kind, r.spread) \/ Steep(i, r.spread) \/ Over(r.risk)

\* price: the open of the running candle or the quote gives a price of entry.
HourlyStatus(r, price) ==
  CASE SideOf(r) = "NONE" -> "WATCHING"
    [] SideOf(r) # "NONE" /\ (HourlyRefused(r, SetupSlot(r.seen)) \/ ~price) -> "BLOCKED"
    [] OTHER -> "SIGNAL_READY"

StructureAnswer(r, price) ==
  Answer(r, IF HasSetup(r) THEN SetupSlot(r.seen) ELSE 0, HourlyStatus(r, price), SideOf(r))

BreakoutAnswer(r, price) ==
  Answer(r, IF HasSetup(r) THEN SetupSlot(r.seen) ELSE 0, HourlyStatus(r, price), SideOf(r))

\* The candle at which the engine entered the position it still has, 0 if it has none.
ScalpEntry(rows) ==
  LET open == {i \in rows : /\ tape[i].scalp = "enters"
                            /\ \A j \in rows : j > i => tape[j].scalp # "leaves"}
  IN IF open = {} THEN 0 ELSE Oldest(open)

\* Ready is what the dry run goes on with: a position of the last candle by the clock, and
\* no block.  clear: the latest minute of the market is recent, and the structure leaves
\* room for a target of 2R.
ScalpAnswer(r, clear) ==
  LET i == ScalpEntry(r.seen)
      refused == \/ TooWide("scalp", r.spread)
                 \/ r.spread # Unknown /\ 20 * r.spread > 3 * tape[i].stop
                 \/ ~clear
  IN CASE i = 0 -> Answer(r, 0, "WATCHING", "NONE")
       [] i # 0 /\ (~Fresh(i, r.asOf) \/ refused) -> Answer(r, i, "BLOCKED", "LONG")
       [] OTHER -> Answer(r, i, "SIGNAL_READY", "LONG")

(***************************************************************************)
(* A request reads sizing, history, quote and, for the hourly ones, the    *)
(* account and the open of the running candle, one await after the other;  *)
(* a read that fails ends it.                                              *)
(***************************************************************************)
NewCandle ==
  /\ request = NoRequest /\ Len(tape) < Slots
  /\ \E c \in Shapes : tape' = Append(tape, c)
  /\ answer' = NoAnswer /\ UNCHANGED request

\* A scan keeps nothing, so one for each candle is enough.
BeginRequest(kind) ==
  /\ request = NoRequest /\ answer = NoAnswer /\ tape # <<>>
  /\ request' = [NoRequest EXCEPT !.kind = kind, !.step = "history", !.asOf = Len(tape)]
  /\ UNCHANGED <<tape, answer>>

\* The broker may be one candle late.
ReadHistory ==
  /\ request.step = "history"
  /\ \E late \in {0, 1} :
       request' = [request EXCEPT !.seen = History(request.asOf, late), !.step = "quote"]
  /\ UNCHANGED <<tape, answer>>

Answered(a) == answer' = a /\ request' = NoRequest /\ UNCHANGED tape

\* The pullback scans decide when they have the quote; sizing gives the risk.
ReadQuote ==
  /\ request.step = "quote" /\ request.kind \in {"v1", "soft"}
  /\ \E spread \in Spreads \cup {Unknown}, risk \in MinLotRisks :
       LET r == [request EXCEPT !.spread = spread, !.risk = risk]
       IN Answered(CASE r.seen = {} -> NoAnswer
                     [] r.seen # {} /\ r.kind = "v1" -> V1Answer(r)
                     [] OTHER -> SoftAnswer(r))

\* The scalp asks for the quote and for the latest minutes at once.
ReadFreshness ==
  /\ request.step = "quote" /\ request.kind = "scalp"
  /\ \E spread \in Spreads \cup {Unknown}, clear \in BOOLEAN :
       Answered(ScalpAnswer([request EXCEPT !.spread = spread], clear))

\* Quote and account; the equity, and with it the risk, may be unknown.
ReadAccount ==
  /\ request.step = "quote" /\ request.kind \in {"structure", "breakout"}
  /\ \E spread \in Spreads \cup {Unknown}, risk \in MinLotRisks :
       request' = [request EXCEPT !.spread = spread, !.risk = risk, !.step = "open"]
  /\ UNCHANGED <<tape, answer>>

\* entryOpenProxy, and the quote where the running candle has no minute yet.
ReadOpen ==
  /\ request.step = "open"
  /\ \E price \in BOOLEAN :
       Answered(IF request.kind = "structure" THEN StructureAnswer(request, price)
                ELSE BreakoutAnswer(request, price))

ReadThrows == request # NoRequest /\ request' = NoRequest /\ UNCHANGED <<tape, answer>>

ScanInit == tape = Past /\ request = NoRequest /\ answer = NoAnswer

ScanNext ==
  \/ NewCandle \/ ReadHistory \/ ReadQuote \/ ReadFreshness \/ ReadAccount \/ ReadOpen \/ ReadThrows
  \/ \E kind \in Strategies : BeginRequest(kind)

ScanSpec == ScanInit /\ [][ScanNext]_scanVars

(***************************************************************************)
(* The validation (forexValidation.js) runs the same evaluator over the    *)
(* whole period with a fixed spread of two pips and no blackouts but those *)
(* of the configuration, and holds until the period begins.                *)
(***************************************************************************)
CostSpread == 2

\* Variant of Fed: the evaluator is fed from the period's start only.
FedFromStart(i) == i >= PeriodStart

Fed(i) == i >= WarmupFrom

\* The decision of the validation on the last of these candles.
Validated(rows) ==
  LET last == Newest(rows)
  IN IF last < PeriodStart THEN "NONE"
     ELSE EvaluatedTo(last, "v1", {i \in rows : Fed(i)}, CostSpread).status

(***************************************************************************)
(* Properties.                                                             *)
(***************************************************************************)
Ready == answer.status = "SIGNAL_READY"

\* What the scan keeps is what the code's own can be.
ScanTypeOK ==
  /\ \A i \in DOMAIN tape : tape[i] \in Shapes \/ (i <= Len(Past) /\ tape[i] = Past[i])
  /\ Len(tape) \in Len(Past)..Slots
  /\ request.kind \in Strategies \cup {"none"}
  /\ request.step \in {"idle", "history", "quote", "open"}
  /\ request.asOf \in 0..Len(tape) /\ request.seen \subseteq 1..request.asOf
  /\ request.spread \in Spreads \cup {Unknown} /\ request.risk \in MinLotRisks
  /\ answer.status \in {"NONE", "WATCHING", "SETUP_FORMING", "BLOCKED", "SIGNAL_READY"}
  /\ answer.side \in {"LONG", "SHORT", "NONE"} /\ answer.slot \in 0..answer.asOf

\* A ready verdict of a shadow strategy can still be entered when the scan began: its candle,
\* and for the hourly ones its whole hour, is the last that closed, the entry lies in the
\* session and neither candle in a blackout, however late the history was and whichever
\* candle is missing (structureA2Shadow.js:282-311, priceBreakoutShadow.js:275-304,
\* softRegimeShadow.js:141-176, scalpShadow.mjs:232-240).
EntryWindowOpen ==
  Ready /\ answer.kind # "v1" =>
    /\ answer.slot = answer.asOf
    /\ answer.kind = "scalp" => tape[answer.slot].scalp = "enters"
    /\ answer.kind # "scalp" => answer.slot \notin Blackout(answer.kind)
    /\ answer.kind \in {"structure", "breakout"} =>
         /\ answer.slot + 1 \in Session \ Blackout(answer.kind)
         /\ \A i \in 1..answer.slot : HourOf(i) = HourOf(answer.slot) => tape[i].seen

\* A pullback signal keeps its distance, although each scan rebuilds the cooldown and the
\* histogram from the history it reads: none of the last Cooldown candles in its window is a
\* shock, and between two signals of one side the histogram has left that side
\* (forexStrategyV1.js:229-239, 335-349).
SignalSpacing ==
  Ready /\ answer.kind \in {"v1", "soft"} =>
    LET rows == SeenIn(1, answer.slot)
        window == SeenIn(WindowStart(answer.asOf), answer.slot)
        sign == IF answer.side = "LONG" THEN 1 ELSE -1
        before == {j \in rows : j < answer.slot
                     /\ LET ev == Replayed(answer.kind, {i \in rows : i <= j}, Unknown)
                        IN /\ ev.side = answer.side /\ ~ev.blocked
                           /\ IF answer.kind = "v1" THEN ev.status = "SIGNAL_READY"
                              ELSE ev.soft = "READY"}
    IN /\ \A i \in Recent(window, Cooldown) : ~tape[i].wild
       /\ \A j \in before : \E k \in rows : j < k /\ k < answer.slot /\ tape[k].hist * sign <= 0

\* Before the candle of the answer, as the window of the scan and the warm-up of the validation
\* begin there.
Prior(from) == {i \in SeenIn(1, answer.slot - 1) : i >= from}

\* The candles before one are enough for the cooldown and the lookback.
Warm(before) == before # {} /\ Cardinality(before) >= Cooldown /\ Cardinality(before) >= Lookback

BothWarm == Warm(Prior(WindowStart(answer.asOf))) /\ Warm(Prior(WarmupFrom))

\* Both read the same H1 regime.
SameRegime ==
  RegimeAt(Prior(WindowStart(answer.asOf)), answer.slot) = RegimeAt(Prior(WarmupFrom), answer.slot)

\* What was validated is what is scanned, except for the regime: from the start of the period
\* on, a scan whose quote refuses nothing and which reads the H1 regime as the validation did
\* calls a candle a signal exactly if the validation did, although the one replays a window
\* that slides and has no spreads and the other carries its state through the warm-up
\* (forexValidation.js:137-172, forexSignals.js:178-232).  That the regimes are the same
\* nothing in the code sees to: one EMA begins with the window, the other with the warm-up.
ReplayAgrees ==
  (answer.kind = "v1" /\ answer.slot >= PeriodStart /\ ~TooWide("v1", answer.spread)
     /\ ~Steep(answer.slot, answer.spread) /\ SameRegime) =>
    (Ready <=> Validated(SeenIn(1, answer.slot)) = "SIGNAL_READY")
================================================================================
