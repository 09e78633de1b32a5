------------------------------- MODULE LiveFeed -------------------------------
(***************************************************************************)
(* Candles from a vendor to a chart: the server's cache and its shared     *)
(* requests (getMultiProviderSnapshot), the route that guards them, and    *)
(* the refresh loop of one chart (XMILiveChart), with its tab hidden and   *)
(* shown, its pane left, its symbol changed, its session locked and its    *)
(* answers late.                                                           *)
(*                                                                         *)
(* A candle is the number of its period; a vendor's answer is its newest   *)
(* candle, which is still forming unless its period ended before it was    *)
(* read.  Time is in ticks.                                                *)
(***************************************************************************)
EXTENDS Integers, FiniteSetsExt

CONSTANTS
  Symbols, Forex,   \* the symbols, and those that Twelve Data serves
  Period,           \* ticks of a candle
  Bucket,           \* ticks in which a forex answer is kept: at least 5 minutes
  Ttl,              \* ticks for which another answer is kept
  Patience,         \* ticks after which a request is given up, on both sides
  StaleAfter,       \* ticks after which a closed candle is stale
  BaseDelay, HiddenDelay, BackoffCap,
  Interventions,    \* bound on what users, the session, the platform and failures do
  FeedHorizon       \* bound on the time

ASSUME FeedAssumption ==
  /\ Forex \subseteq Symbols
  /\ {Period, Bucket} \subseteq Nat \ {0}
  /\ {Ttl, Patience, StaleAfter, BaseDelay, HiddenDelay, BackoffCap} \subseteq Nat
  /\ {Interventions, FeedHorizon} \subseteq Nat

VARIABLES
  tick,
  kept,       \* cache: the last answer of each symbol, on this instance
  asked,      \* inflight: the request to the vendor that each symbol waits for
  credits,    \* history: the last bucket in which each symbol was asked for, how often in
              \* it, and how many of these requests failed
  unlocked,   \* the session cookie is valid
  pane,       \* what the chart shows, and whether it is built, active, visible and imported
  loop,       \* the refresh loop: running, failures, timer, provider, call, and the
              \* failure that ended it
  late,       \* an answer that a loop which has ended can still receive
  feed,       \* the chart's feed: phase, source, stats, quality
  spent       \* interventions so far

feedVars == <<tick, kept, asked, credits, unlocked, pane, loop, late, feed, spent>>

Nothing == [stage |-> "none"]
NoTimer == -1
NoStats == [symbol |-> "none"]
Unrequested == [bucket |-> -1, sent |-> 0, failed |-> 0]

Phases == {"loading", "ready", "stale", "empty", "historical", "locked",
           "disabled", "error"}
Failed(code) == [stage |-> "failed", code |-> code]

\* What the route may refuse before it looks at the session; only the last of them is for
\* a while.
Refusals == {"FEED_DISABLED", "ORIGIN_DENIED", "FEED_RATE_LIMIT"}

Intervenes == spent < Interventions /\ spent' = spent + 1

-------------------------------------------------------------------------------
(* The server. *)

\* Variant of SameBucket: forex answers age as the others do.
WithinTtl(s) == tick - kept[s].at < Ttl

SameBucket(s) == tick \div Bucket = kept[s].at \div Bucket

Fresh(s) ==
  /\ kept[s] # Nothing
  /\ IF s \in Forex THEN SameBucket(s) ELSE tick - kept[s].at < Ttl

\* An answer from the cache keeps its candles and takes the time of the request.
FromCache(s) ==
  [stage |-> "answered", symbol |-> s, newest |-> kept[s].newest, seen |-> kept[s].seen,
   asOf |-> tick]

\* One more request in a bucket.
OneMore(c, bucket) ==
  IF c.bucket = bucket THEN [c EXCEPT !.sent = @ + 1]
                       ELSE [bucket |-> bucket, sent |-> 1, failed |-> 0]

\* A reader's request passes the route: the pending request of its symbol, or one more.
Joins(s) ==
  IF asked[s] # Nothing THEN UNCHANGED <<asked, credits>>
  ELSE /\ asked' = [asked EXCEPT ![s] = [stage |-> "flying", at |-> tick]]
       /\ credits' = [credits EXCEPT ![s] = OneMore(@, tick \div Bucket)]

\* The chart hears what the request it waits for came to.
Told(s, answer) ==
  loop' = IF loop.call.stage = "waiting" /\ pane.symbol = s
          THEN [loop EXCEPT !.call = answer] ELSE loop

\* The chart's request reaches the route: it is refused, its feed is locked, the cache
\* answers, or it waits for the vendor.
Arrive ==
  /\ loop.call.stage = "sent"
  /\ \/ \E code \in Refusals :
          /\ Intervenes
          /\ loop' = [loop EXCEPT !.call = Failed(code)]
          /\ UNCHANGED <<asked, credits>>
     \/ /\ ~unlocked
        /\ loop' = [loop EXCEPT !.call = Failed("FEED_LOCKED")]
        /\ UNCHANGED <<asked, credits, spent>>
     \/ /\ unlocked /\ Fresh(pane.symbol)
        /\ loop' = [loop EXCEPT !.call = FromCache(pane.symbol)]
        /\ UNCHANGED <<asked, credits, spent>>
     \/ /\ unlocked /\ ~Fresh(pane.symbol)
        /\ Joins(pane.symbol)
        /\ loop' = [loop EXCEPT !.call.stage = "waiting"]
        /\ UNCHANGED spent
  /\ UNCHANGED <<tick, kept, unlocked, pane, late, feed>>

\* Another reader of the instance: a second chart, or another timeframe's candles.
AnotherReads(s) ==
  /\ Intervenes /\ unlocked /\ ~Fresh(s) /\ asked[s] = Nothing
  /\ Joins(s)
  /\ UNCHANGED <<tick, kept, unlocked, pane, loop, late, feed>>

\* The vendor's newest candle, which it may publish a period late.
VendorAnswers(s) ==
  /\ asked[s] # Nothing
  /\ \E newest \in {tick \div Period, tick \div Period - 1} :
       /\ kept' = [kept EXCEPT ![s] = [stage |-> "kept", newest |-> newest, at |-> asked[s].at, seen |-> tick]]
       /\ Told(s, [stage |-> "answered", symbol |-> s, newest |-> newest, seen |-> tick,
                   asOf |-> asked[s].at])
  /\ asked' = [asked EXCEPT ![s] = Nothing]
  /\ UNCHANGED <<tick, credits, unlocked, pane, late, feed, spent>>

\* A request that fails, or whose answer is refused, was sent all the same; nothing is kept.
VendorFails(s) ==
  /\ Intervenes /\ asked[s] # Nothing
  /\ asked' = [asked EXCEPT ![s] = Nothing]
  /\ credits' = [credits EXCEPT ![s].failed = @ + 1]
  /\ Told(s, Failed("UPSTREAM"))
  /\ UNCHANGED <<tick, kept, unlocked, pane, late, feed>>

-------------------------------------------------------------------------------
(* What the pane makes of an answer. *)

\* The newest candle that is closed at the time the answer states.
lastClosed(a) == Min({a.newest, a.asOf \div Period - 1})

quoteState(a) ==
  IF lastClosed(a) < 0 THEN "NO_DATA"
  ELSE IF tick - (lastClosed(a) + 1) * Period > StaleAfter THEN "STALE" ELSE "CURRENT"

phaseOf(a) ==
  CASE quoteState(a) = "CURRENT" -> "ready"
    [] quoteState(a) = "STALE"   -> "stale"
    [] OTHER                     -> "empty"

backoff(failures) == Min({BackoffCap, BaseDelay * 2 ^ Min({failures, 8})})

nextFeedDelay(failures, provider) ==
  IF ~pane.visible THEN Max({HiddenDelay, BaseDelay})
  ELSE IF failures > 0 THEN backoff(failures)
  ELSE IF provider \in Forex THEN (tick \div Bucket + 1) * Bucket - tick
  ELSE Min({BaseDelay, Period - (tick % Period)})

Scheduled(l) == [l EXCEPT !.timer = tick + nextFeedDelay(l.failures, l.provider)]

\* Variant of Mine: an answer is taken whoever asked for it.
Anyones(mine) == TRUE

\* The loop that asked is still running, and so is its chart.
Mine(mine) == mine /\ loop.running /\ pane.built

Succeeds(a) ==
  /\ loop' = Scheduled([loop EXCEPT !.failures = 0, !.provider = a.symbol, !.call = Nothing])
  /\ feed' = [feed EXCEPT !.phase = phaseOf(a), !.stats = a, !.plotted = a.symbol, !.failures = 0]

\* What asking again cannot mend.
Final == {"FEED_LOCKED", "FEED_DISABLED", "ORIGIN_DENIED"}

retryableFeedError(code) == code \notin Final

\* The analysis goes; the plotted candles stay.
WithoutStats(f) == [f EXCEPT !.stats = NoStats]

phaseAfter(code) ==
  CASE code = "FEED_LOCKED"   -> "locked"
    [] code = "FEED_DISABLED" -> "disabled"
    [] OTHER                  -> "error"

Fails(code) ==
  LET again == retryableFeedError(code)
      count == IF again THEN loop.failures + 1 ELSE 0
      failed == [loop EXCEPT !.failures = count, !.call = Nothing]
  IN  /\ loop' = IF again THEN Scheduled(failed) ELSE [failed EXCEPT !.running = FALSE, !.ended = code]
      /\ feed' = [WithoutStats(feed) EXCEPT !.phase = phaseAfter(code), !.failures = count]

Applied(answer) == IF answer.stage = "failed" THEN Fails(answer.code) ELSE Succeeds(answer)

\* A chart that is being rebuilt drops the answer and schedules nothing.
Receive ==
  /\ loop.call.stage \in {"answered", "failed"}
  /\ IF Mine(TRUE) THEN Applied(loop.call)
     ELSE loop' = [loop EXCEPT !.call = Nothing] /\ UNCHANGED feed
  /\ UNCHANGED <<tick, kept, asked, credits, unlocked, pane, late, spent>>

\* The abort of an ended loop comes too late for an answer already read.
ReceiveLate ==
  /\ late # Nothing
  /\ late' = Nothing
  /\ IF Mine(FALSE) THEN Applied(late) ELSE UNCHANGED <<loop, feed>>
  /\ UNCHANGED <<tick, kept, asked, credits, unlocked, pane, spent>>

\* The 15 seconds of a request are over.
RequestExpires ==
  /\ loop.call.stage \in {"sent", "waiting"} /\ tick - loop.call.at >= Patience
  /\ loop' = [loop EXCEPT !.call = Failed("TIMEOUT")]
  /\ UNCHANGED <<tick, kept, asked, credits, unlocked, pane, late, feed, spent>>

-------------------------------------------------------------------------------
(* The loop. *)

Local(c) == c.imported = c.symbol

\* Variant of Hidden: a hidden tab lets its timer go.
HiddenIdle(l) == [l EXCEPT !.timer = NoTimer]

\* A hidden tab does not ask; it looks again later.
Hidden(l) == Scheduled(l)

\* refresh: candles of a file are shown at once and nothing is scheduled after them.
Refreshed(l, f) ==
  IF Local(pane') /\ ~pane'.built THEN loop' = [l EXCEPT !.timer = NoTimer] /\ feed' = f
  ELSE IF Local(pane')
  THEN /\ loop' = [l EXCEPT !.timer = NoTimer, !.failures = 0, !.provider = "none"]
       /\ feed' = [f EXCEPT !.phase = "historical", !.failures = 0,
                            !.stats = [symbol |-> pane'.symbol], !.plotted = pane'.symbol]
  ELSE IF ~pane'.visible THEN loop' = Hidden(l) /\ feed' = f
  ELSE loop' = [l EXCEPT !.timer = NoTimer, !.call = [stage |-> "sent", at |-> tick]] /\ feed' = f

TimerFires ==
  /\ loop.running /\ loop.call = Nothing
  /\ loop.timer # NoTimer /\ loop.timer <= tick
  /\ UNCHANGED pane
  /\ Refreshed(loop, feed)
  /\ UNCHANGED <<tick, kept, asked, credits, unlocked, late, spent>>

FreshLoop == [running |-> TRUE, failures |-> 0, timer |-> NoTimer, provider |-> "none",
              call |-> Nothing, ended |-> "none"]

Drawn(p) == p.built /\ p.active

\* The effect runs again: the old loop ends and its request is aborted.  A chart that is
\* not built, or whose pane is left, is as it was; else the analysis is cleared, and the
\* plotted candles stay only if they are of the same symbol.
Restarted ==
  /\ late' = IF loop.call.stage \in {"answered", "failed"} THEN loop.call ELSE late
  /\ IF Drawn(pane')
     THEN Refreshed(FreshLoop, [phase |-> "loading", stats |-> NoStats, failures |-> 0,
                                plotted |-> IF feed.plotted = pane'.symbol THEN feed.plotted ELSE "none"])
     ELSE loop' = [FreshLoop EXCEPT !.running = FALSE] /\ UNCHANGED feed

Select(s) ==
  /\ Intervenes /\ s # pane.symbol
  /\ pane' = [pane EXCEPT !.symbol = s]
  /\ Restarted
  /\ UNCHANGED <<tick, kept, asked, credits, unlocked>>

Import ==
  /\ Intervenes
  /\ pane' = [pane EXCEPT !.imported = pane.symbol]
  /\ Restarted
  /\ UNCHANGED <<tick, kept, asked, credits, unlocked>>

\* The passphrase is accepted, or the session is closed: the toolbar tells the charts.
Unlock == unlocked' = TRUE
Lock == unlocked' = FALSE

AccessChanges ==
  /\ Intervenes
  /\ Unlock \/ Lock
  /\ UNCHANGED pane
  /\ Restarted
  /\ UNCHANGED <<tick, kept, asked, credits>>

\* The session ends after eight hours, and tells nobody.
Expire ==
  /\ Intervenes /\ unlocked /\ unlocked' = FALSE
  /\ UNCHANGED <<tick, kept, asked, credits, pane, loop, late, feed>>

\* A study is added or removed: the chart is taken down under its loop, then built again.
TakenDown ==
  /\ Intervenes /\ pane.built
  /\ pane' = [pane EXCEPT !.built = FALSE]
  /\ UNCHANGED <<tick, kept, asked, credits, unlocked, loop, late, feed>>

Built ==
  /\ ~pane.built
  /\ pane' = [pane EXCEPT !.built = TRUE]
  /\ Restarted
  /\ UNCHANGED <<tick, kept, asked, credits, unlocked, spent>>

\* Another tab of the workstation, or the pane is collapsed: the loop ends.  The chart
\* stays as it is until the pane is back.
Leave ==
  /\ Intervenes /\ pane.active
  /\ pane' = [pane EXCEPT !.active = FALSE]
  /\ Restarted
  /\ UNCHANGED <<tick, kept, asked, credits, unlocked>>

ComeBack ==
  /\ ~pane.active
  /\ pane' = [pane EXCEPT !.active = TRUE]
  /\ Restarted
  /\ UNCHANGED <<tick, kept, asked, credits, unlocked, spent>>

Hide ==
  /\ Intervenes /\ pane.visible
  /\ pane' = [pane EXCEPT !.visible = FALSE]
  /\ UNCHANGED <<tick, kept, asked, credits, unlocked, loop, late, feed>>

\* A tab that is shown asks at once, unless it is asking.
Show ==
  /\ ~pane.visible
  /\ pane' = [pane EXCEPT !.visible = TRUE]
  /\ loop' = IF loop.running /\ loop.call = Nothing THEN [loop EXCEPT !.timer = tick] ELSE loop
  /\ UNCHANGED <<tick, kept, asked, credits, unlocked, late, feed, spent>>

\* The platform replaces the instance: its maps are empty, its answers are lost.
Recycle ==
  /\ Intervenes
  /\ kept' = [s \in Symbols |-> Nothing] /\ asked' = [s \in Symbols |-> Nothing]
  /\ credits' = [s \in Symbols |-> Unrequested]
  /\ loop' = IF loop.call.stage = "waiting" THEN [loop EXCEPT !.call = Failed("UPSTREAM")] ELSE loop
  /\ UNCHANGED <<tick, unlocked, pane, late, feed>>

\* A vendor that does not answer in time is given up, and a browser gives up its request.
FeedTick ==
  /\ tick < FeedHorizon
  /\ \A s \in Symbols : asked[s] # Nothing => tick - asked[s].at < Patience
  /\ tick' = tick + 1
  /\ UNCHANGED <<kept, asked, credits, unlocked, pane, loop, late, feed, spent>>

FeedInit ==
  /\ tick = 0
  /\ kept = [s \in Symbols |-> Nothing] /\ asked = [s \in Symbols |-> Nothing]
  /\ credits = [s \in Symbols |-> Unrequested]
  /\ unlocked = TRUE
  /\ \E s \in Symbols : pane = [symbol |-> s, built |-> FALSE, active |-> TRUE,
                                  visible |-> TRUE, imported |-> "none"]
  /\ loop = [FreshLoop EXCEPT !.running = FALSE]
  /\ late = Nothing /\ spent = 0
  /\ feed = [phase |-> "loading", stats |-> NoStats, failures |-> 0, plotted |-> "none"]

FeedNext ==
  \/ Arrive \/ Receive \/ ReceiveLate \/ RequestExpires \/ TimerFires
  \/ \E s \in Symbols : AnotherReads(s) \/ VendorAnswers(s) \/ VendorFails(s) \/ Select(s)
  \/ Import \/ Expire \/ TakenDown \/ Built \/ Leave \/ ComeBack \/ Hide \/ Show \/ Recycle
  \/ AccessChanges
  \/ FeedTick

FeedSpec == FeedInit /\ [][FeedNext]_feedVars

-------------------------------------------------------------------------------
(* Properties. *)

\* The values the code can hold: a phase it sets, an answer of a symbol, a loop with at
\* most one timer or one call.
FeedTypeOK ==
  /\ tick \in 0..FeedHorizon /\ unlocked \in BOOLEAN /\ spent \in 0..Interventions
  /\ pane \in [symbol : Symbols, built : BOOLEAN, active : BOOLEAN, visible : BOOLEAN,
              imported : Symbols \cup {"none"}]
  /\ feed.phase \in Phases /\ feed.plotted \in Symbols \cup {"none"}
  /\ loop.call.stage \in {"none", "sent", "waiting", "answered", "failed"}
  /\ loop.running /\ loop.call # Nothing => loop.timer = NoTimer

\* What is analysed and what is drawn in a pane that is looked at is of the symbol the chart
\* shows, whatever answers come late, and nothing is analysed after a failure
\* (XMILiveChart.jsx:283-317).
FeedShowsSelection ==
  Drawn(pane) =>
    /\ feed.stats # NoStats => feed.stats.symbol = pane.symbol /\ feed.failures = 0
    /\ feed.plotted \in {"none", pane.symbol}

\* A built chart in such a pane keeps its feed going: it waits for a timer or for an answer,
\* unless it shows a file or was told what asking again cannot mend (XMILiveChart.jsx:250-325).
LoopGoesOn ==
  Drawn(pane) /\ ~Local(pane) =>
    IF loop.running THEN loop.timer # NoTimer \/ loop.call # Nothing
    ELSE loop.ended \in Final /\ feed.phase = phaseAfter(loop.ended)

\* The chart shows what is selected and keeps asking for it (XMILiveChart.jsx:206-335).
FeedFollowsSelection == FeedShowsSelection /\ LoopGoesOn

\* A forex symbol is asked for once in a bucket of an instance, whoever reads it, and once
\* more only for each of these requests that failed (xmiMultiProvider.mjs:116-142).
AskedAgainOnlyAfterFailure == \A s \in Forex : credits[s].sent <= credits[s].failed + 1

\* "Repainting is prevented for confirmed research observations by excluding unclosed
\* candles" (docs/XMI_ADVANCED_INDICATORS_PREVIEW_20261029.md:15): the candle a ready chart
\* takes for closed was closed when the vendor was read.
ClosedCandlesAreFinal ==
  feed.phase = "ready" => (lastClosed(feed.stats) + 1) * Period <= feed.stats.seen
===============================================================================
