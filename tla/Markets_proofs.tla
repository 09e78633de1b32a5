---------------------------- MODULE Markets_proofs -----------------------------
(***************************************************************************)
(* Proofs about market data and what reads it, which share no state: the   *)
(* live feed, the history that is fetched in pages, the scalp engine, and  *)
(* the structure a chart draws.                                            *)
(***************************************************************************)
EXTENDS LiveFeed, MarketHistory, ScalpEngine, MarketStructure, SequenceTheorems, FiniteSetTheorems, WellFoundedInduction, TLAPS

--------------------------------------------------------------------------------
(***************************************************************************)
(* The live feed, for any selections, buckets and lives of a cached        *)
(* answer.  A call is for the selection it was made for (CallIsMine), and  *)
(* each request of the last bucket in which a symbol was asked for has     *)
(* failed, but the one that is on its way or whose answer is kept          *)
(* (AskedAnew).                                                            *)
(***************************************************************************)

LoopFields == {"running", "failures", "timer", "provider", "call", "ended"}
FeedFields == {"phase", "stats", "failures", "plotted"}

LoopShape(l) ==
  /\ DOMAIN l = LoopFields /\ l.running \in BOOLEAN /\ l.failures \in Nat
  /\ "stage" \in DOMAIN l.call
FeedShape(f) == DOMAIN f = FeedFields

Panes == [symbol : Symbols, built : BOOLEAN, active : BOOLEAN, visible : BOOLEAN,
          imported : Symbols \cup {"none"}]
Flying == [stage : {"flying"}, at : Nat]
CreditCounts == [bucket : Int, sent : Nat, failed : Nat]
KeptAnswers == [stage : {"kept"}, newest : Int, at : Nat, seen : Nat]

FeedTyped ==
  /\ tick \in Nat /\ pane \in Panes
  /\ kept \in [Symbols -> KeptAnswers \cup {Nothing}]
  /\ asked \in [Symbols -> Flying \cup {Nothing}]
  /\ credits \in [Symbols -> CreditCounts]
  /\ LoopShape(loop) /\ FeedShape(feed)

\* The answer that is kept is of the last bucket in which the symbol was asked for.
KeptOfLast(s) == kept[s] # Nothing /\ kept[s].at \div Bucket = credits[s].bucket

\* Of the requests of that bucket all have failed, unless one is on its way or was answered.
AskedAnew(s) ==
  s \in Forex =>
    /\ asked[s] # Nothing => asked[s].at \div Bucket = credits[s].bucket /\ ~KeptOfLast(s)
    /\ credits[s].sent <=
         credits[s].failed + (IF asked[s] # Nothing \/ KeptOfLast(s) THEN 1 ELSE 0)

\* An answer that waits to be received is of the symbol that is shown.
CallIsMine == loop.call.stage = "answered" => loop.call.symbol = pane.symbol

FeedInv ==
  /\ FeedTyped /\ \A s \in Symbols : AskedAnew(s)
  /\ CallIsMine /\ FeedShowsSelection /\ LoopGoesOn

--------------------------------------------------------------------------------
LEMMA PowerOfTwo ==
  ASSUME NEW n \in Nat
  PROVE  2 ^ n \in Nat
<1>1. IsFiniteSet(1..n) /\ Cardinality(1..n) = n  BY FS_Interval
<1>2. IsFiniteSet(SUBSET (1..n)) /\ Cardinality(SUBSET (1..n)) = 2 ^ Cardinality(1..n)
  BY <1>1, FS_SUBSET
<1>3. QED  BY <1>1, <1>2, FS_CardinalityType

LEMMA OneOfTwo ==
  ASSUME NEW a \in Int, NEW b \in Int
  PROVE  Min({a, b}) \in {a, b} /\ Max({a, b}) \in {a, b}
BY DEF Min, Max

\* A refresh is never scheduled for the past.
LEMMA DelayIsNatural ==
  ASSUME FeedTyped, NEW failures \in Nat, NEW provider
  PROVE  nextFeedDelay(failures, provider) \in Nat
<1> DEFINE power == 2 ^ Min({failures, 8})
<1>1. power \in Nat
  <2>1. Min({failures, 8}) \in Nat  BY OneOfTwo
  <2>2. QED  BY <2>1, PowerOfTwo
<1>2. BaseDelay * power \in Nat
  <2> HIDE DEF power
  <2>1. QED  BY <1>1, FeedAssumption
<1>3. backoff(failures) \in Nat
  <2>1. backoff(failures) = Min({BackoffCap, BaseDelay * power})  BY DEF backoff
  <2> HIDE DEF power
  <2>2. QED  BY <1>2, <2>1, OneOfTwo, FeedAssumption
<1>4. Max({HiddenDelay, BaseDelay}) \in Nat
  <2>1. HiddenDelay \in Nat /\ BaseDelay \in Nat  BY FeedAssumption
  <2>2. Max({HiddenDelay, BaseDelay}) \in {HiddenDelay, BaseDelay}  BY <2>1, OneOfTwo
  <2>3. QED  BY <2>1, <2>2
<1>5. (tick \div Bucket + 1) * Bucket - tick \in Nat
  <2>1. tick \in Nat /\ Bucket \in Nat \ {0}  BY FeedAssumption DEF FeedTyped
  <2>2. QED  BY <2>1
<1>6. Min({BaseDelay, Period - (tick % Period)}) \in Nat
  <2>1. tick \in Nat /\ Period \in Nat \ {0}  BY FeedAssumption DEF FeedTyped
  <2>2. Period - (tick % Period) \in Nat  BY <2>1
  <2>3. QED  BY <2>2, OneOfTwo, FeedAssumption
<1>7. QED  BY <1>3, <1>4, <1>5, <1>6 DEF nextFeedDelay

LEMMA ScheduledAhead ==
  ASSUME FeedTyped, NEW l, LoopShape(l)
  PROVE  /\ LoopShape(Scheduled(l)) /\ Scheduled(l).timer # NoTimer
         /\ Scheduled(l).running = l.running /\ Scheduled(l).call = l.call
         /\ Scheduled(l).failures = l.failures
<1> DEFINE delay == nextFeedDelay(l.failures, l.provider)
<1>1. delay \in Nat /\ tick \in Nat  BY DelayIsNatural DEF LoopShape, FeedTyped
<1>2. Scheduled(l) = [l EXCEPT !.timer = tick + delay]  BY DEF Scheduled
<1> HIDE DEF delay
<1>3. tick + delay # NoTimer  BY <1>1 DEF NoTimer
<1>4. QED  BY <1>2, <1>3 DEF LoopShape, LoopFields

--------------------------------------------------------------------------------
(* What the chart shows. *)

\* What the chart's part of a step has to establish.
Shown == LoopShape(loop) /\ FeedShape(feed) /\ CallIsMine /\ FeedShowsSelection /\ LoopGoesOn

\* What a feed shows of a symbol.
ShowsOf(f, symbol) ==
  /\ f.stats # NoStats => f.stats.symbol = symbol /\ f.failures = 0
  /\ f.plotted \in {"none", symbol}

LEMMA RefreshShows ==
  ASSUME FeedTyped, pane' \in Panes, NEW l, LoopShape(l), l.call = Nothing, l.running,
         NEW f, FeedShape(f), Drawn(pane') => ShowsOf(f, pane'.symbol), Refreshed(l, f)
  PROVE  Shown'
<1>1. CASE Local(pane') /\ ~pane'.built
  <2>1. loop' = [l EXCEPT !.timer = NoTimer] /\ feed' = f  BY <1>1 DEF Refreshed
  <2>2. LoopShape(loop') /\ loop'.call = Nothing  BY <2>1 DEF LoopShape, LoopFields
  <2>3. QED
    BY <1>1, <2>1, <2>2 DEF Shown, CallIsMine, Nothing, FeedShowsSelection, LoopGoesOn, Drawn
<1>2. CASE Local(pane') /\ pane'.built
  <2>1. /\ loop' = [l EXCEPT !.timer = NoTimer, !.failures = 0, !.provider = "none"]
        /\ feed' = [f EXCEPT !.phase = "historical", !.failures = 0,
                             !.stats = [symbol |-> pane'.symbol], !.plotted = pane'.symbol]
    BY <1>2 DEF Refreshed
  <2>2. LoopShape(loop') /\ loop'.call = Nothing  BY <2>1 DEF LoopShape, LoopFields
  <2>3. /\ FeedShape(feed') /\ feed'.failures = 0 /\ feed'.stats = [symbol |-> pane'.symbol]
        /\ feed'.plotted = pane'.symbol
    BY <2>1 DEF FeedShape, FeedFields
  <2>4. QED
    BY <1>2, <2>2, <2>3 DEF Shown, CallIsMine, Nothing, FeedShowsSelection, LoopGoesOn
<1>3. CASE ~Local(pane') /\ ~pane'.visible
  <2>1. loop' = Scheduled(l) /\ feed' = f  BY <1>3 DEF Refreshed, Hidden
  <2>2. /\ LoopShape(loop') /\ loop'.call = Nothing /\ loop'.timer # NoTimer /\ loop'.running
    BY <2>1, ScheduledAhead
  <2>3. QED
    BY <1>3, <2>1, <2>2
       DEF Shown, CallIsMine, Nothing, FeedShowsSelection, LoopGoesOn, ShowsOf
<1>4. CASE ~Local(pane') /\ pane'.visible
  <2>1. /\ loop' = [l EXCEPT !.timer = NoTimer, !.call = [stage |-> "sent", at |-> tick]]
        /\ feed' = f
    BY <1>4 DEF Refreshed
  <2>2. LoopShape(loop') /\ loop'.call.stage = "sent" /\ loop'.running
    BY <2>1 DEF LoopShape, LoopFields
  <2>3. loop'.call # Nothing  BY <2>2 DEF Nothing
  <2>4. QED
    BY <1>4, <2>1, <2>2, <2>3
       DEF Shown, CallIsMine, FeedShowsSelection, LoopGoesOn, ShowsOf
<1>5. pane'.built \in BOOLEAN /\ pane'.visible \in BOOLEAN  BY DEF Panes
<1>6. QED  BY <1>1, <1>2, <1>3, <1>4, <1>5

LEMMA RestartShows ==
  ASSUME FeedInv, pane' \in Panes, Restarted
  PROVE  Shown'
<1>1. LoopShape(FreshLoop) /\ FreshLoop.call = Nothing /\ FreshLoop.running
  BY DEF LoopShape, LoopFields, FreshLoop, Nothing
<1>2. CASE Drawn(pane')
  <2> DEFINE f == [phase |-> "loading", stats |-> NoStats, failures |-> 0,
                   plotted |-> IF feed.plotted = pane'.symbol THEN feed.plotted ELSE "none"]
  <2>1. Refreshed(FreshLoop, f)  BY <1>2 DEF Restarted
  <2>2. FeedShape(f) /\ ShowsOf(f, pane'.symbol)
    BY DEF FeedShape, FeedFields, ShowsOf
  <2> HIDE DEF f
  <2>3. QED  BY <1>1, <2>1, <2>2, RefreshShows DEF FeedInv
<1>3. CASE ~Drawn(pane')
  <2>1. loop' = [FreshLoop EXCEPT !.running = FALSE] /\ feed' = feed  BY <1>3 DEF Restarted
  <2>2. LoopShape(loop') /\ loop'.call = Nothing
    BY <2>1 DEF LoopShape, LoopFields, FreshLoop, Nothing
  <2>3. QED
    BY <1>3, <2>1, <2>2
       DEF Shown, CallIsMine, Nothing, FeedShowsSelection, LoopGoesOn, FeedInv, FeedTyped
<1>4. QED  BY <1>2, <1>3

LEMMA AnswerShows ==
  ASSUME FeedInv, NEW answer, Applied(answer), pane' = pane, loop.running,
         answer.stage # "failed" => answer.symbol = pane.symbol
  PROVE  Shown'
<1>1. LoopShape(loop) /\ FeedShape(feed)  BY DEF FeedInv, FeedTyped
<1>2. CASE answer.stage # "failed"
  <2> DEFINE l == [loop EXCEPT !.failures = 0, !.provider = answer.symbol, !.call = Nothing]
  <2>1. LoopShape(l) /\ l.call = Nothing /\ l.running
    BY <1>1 DEF LoopShape, LoopFields, Nothing
  <2>2. /\ loop' = Scheduled(l)
        /\ feed' = [feed EXCEPT !.phase = phaseOf(answer), !.stats = answer,
                                !.plotted = answer.symbol, !.failures = 0]
    BY <1>2 DEF Applied, Succeeds
  <2>3. /\ FeedShape(feed') /\ feed'.stats = answer /\ feed'.plotted = answer.symbol
        /\ feed'.failures = 0
    BY <1>1, <2>2 DEF FeedShape, FeedFields
  <2> HIDE DEF l
  <2>4. LoopShape(loop') /\ loop'.call = Nothing /\ loop'.timer # NoTimer /\ loop'.running
    BY <2>1, <2>2, ScheduledAhead DEF FeedInv
  <2>5. QED
    BY <1>2, <2>3, <2>4
       DEF Shown, CallIsMine, Nothing, FeedShowsSelection, LoopGoesOn
<1>3. CASE answer.stage = "failed"
  <2> DEFINE again == retryableFeedError(answer.code)
             count == IF again THEN loop.failures + 1 ELSE 0
             l == [loop EXCEPT !.failures = count, !.call = Nothing]
  <2>1. LoopShape(l) /\ l.call = Nothing /\ l.running
    <3>1. count \in Nat  BY <1>1 DEF LoopShape
    <3> HIDE DEF count
    <3>2. QED  BY <1>1, <3>1 DEF LoopShape, LoopFields, Nothing
  <2>2. /\ loop' = IF again THEN Scheduled(l)
                 ELSE [l EXCEPT !.running = FALSE, !.ended = answer.code]
        /\ \E n : feed' = [WithoutStats(feed) EXCEPT !.phase = phaseAfter(answer.code),
                                                     !.failures = n]
    BY <1>3 DEF Applied, Fails
  <2>3. /\ FeedShape(feed') /\ feed'.stats = NoStats /\ feed'.plotted = feed.plotted
        /\ feed'.phase = phaseAfter(answer.code)
    BY <1>1, <2>2 DEF FeedShape, FeedFields, WithoutStats
  <2> HIDE DEF l
  <2>4. CASE again
    <3>1. LoopShape(loop') /\ loop'.call = Nothing /\ loop'.timer # NoTimer /\ loop'.running
      BY <2>1, <2>2, <2>4, ScheduledAhead DEF FeedInv
    <3>2. QED
      BY <2>3, <3>1 DEF Shown, CallIsMine, Nothing, FeedShowsSelection, LoopGoesOn, FeedInv
  <2>5. CASE ~again
    <3>1. /\ LoopShape(loop') /\ loop'.call = Nothing /\ ~loop'.running
          /\ loop'.ended = answer.code /\ answer.code \in Final
      BY <2>1, <2>2, <2>5 DEF LoopShape, LoopFields, retryableFeedError
    <3>2. QED
      BY <2>3, <3>1
         DEF Shown, CallIsMine, Nothing, FeedShowsSelection, LoopGoesOn, FeedInv
  <2>6. QED  BY <2>4, <2>5
<1>4. QED  BY <1>2, <1>3

\* A step that changes the call only, from one on its way to another or to an answer.
LEMMA CallShows ==
  ASSUME FeedInv, UNCHANGED <<pane, feed>>, NEW call, call # Nothing,
         loop' = [loop EXCEPT !.call = call], "stage" \in DOMAIN call,
         call.stage = "answered" => call.symbol = pane.symbol
  PROVE  Shown'
<1>1. /\ LoopShape(loop') /\ loop'.call = call /\ loop'.running = loop.running
      /\ loop'.ended = loop.ended
  BY DEF FeedInv, FeedTyped, LoopShape, LoopFields
<1>2. QED
  BY <1>1 DEF Shown, CallIsMine, FeedShowsSelection, LoopGoesOn, FeedInv, FeedTyped

LEMMA FailureIsNoAnswer ==
  \A code : /\ Failed(code) # Nothing /\ "stage" \in DOMAIN Failed(code)
            /\ Failed(code).stage # "answered"
BY DEF Failed, Nothing

LEMMA StaysShown ==
  ASSUME FeedInv, UNCHANGED <<pane, feed, loop>>
  PROVE  Shown'
BY DEF Shown, FeedInv, FeedTyped, CallIsMine, FeedShowsSelection, LoopGoesOn
--------------------------------------------------------------------------------
(* The vendor. *)

\* A request that is made while no fresh answer is kept finds all others of its bucket
\* failed.
LEMMA JoinsAnew ==
  ASSUME FeedInv, NEW s \in Symbols, ~Fresh(s), Joins(s), UNCHANGED kept
  PROVE  /\ asked' \in [Symbols -> Flying \cup {Nothing}]
         /\ credits' \in [Symbols -> CreditCounts]
         /\ \A r \in Symbols : AskedAnew(r)'
<1>1. CASE asked[s] = Nothing
  <2> DEFINE request == [stage |-> "flying", at |-> tick]
             bucket == tick \div Bucket
             counted == OneMore(credits[s], bucket)
  <2>1. /\ tick \in Nat /\ Bucket \in Nat \ {0} /\ request \in Flying /\ request # Nothing
        /\ request.at = tick /\ credits[s] \in CreditCounts
    BY FeedAssumption DEF FeedInv, FeedTyped, Flying, Nothing
  <2>2. bucket \in Int  BY <2>1
  <2>3. asked' = [asked EXCEPT ![s] = request] /\ credits' = [credits EXCEPT ![s] = counted]
    BY <1>1 DEF Joins
  <2>4. /\ counted \in CreditCounts /\ counted.bucket = bucket
        /\ counted.sent = (IF credits[s].bucket = bucket THEN credits[s].sent + 1 ELSE 1)
        /\ counted.failed = (IF credits[s].bucket = bucket THEN credits[s].failed ELSE 0)
    <3> HIDE DEF bucket
    <3>1. QED  BY <2>1, <2>2 DEF OneMore, CreditCounts
  <2>5. s \in Forex => (kept[s] # Nothing => kept[s].at \div Bucket # bucket)
    BY DEF Fresh, SameBucket
  <2>6. s \in Forex => counted.sent <= counted.failed + 1
    <3>1. CASE s \in Forex /\ credits[s].bucket = bucket
      <4>1. ~KeptOfLast(s)  BY <2>5, <3>1 DEF KeptOfLast
      <4>2. credits[s].sent <= credits[s].failed + 0
        BY <1>1, <3>1, <4>1 DEF FeedInv, AskedAnew
      <4> HIDE DEF bucket, counted
      <4>3. QED  BY <2>1, <2>4, <3>1, <4>2 DEF CreditCounts
    <3>2. CASE credits[s].bucket # bucket
      <4> HIDE DEF bucket, counted
      <4>1. QED  BY <2>4, <3>2
    <3>3. QED  BY <3>1, <3>2
  <2>7. bucket = tick \div Bucket  OBVIOUS
  <2> HIDE DEF request, counted, bucket
  <2>8. /\ asked' \in [Symbols -> Flying \cup {Nothing}]
        /\ credits' \in [Symbols -> CreditCounts]
    BY <2>1, <2>3, <2>4 DEF FeedInv, FeedTyped
  <2>9. \A r \in Symbols : /\ asked'[r] = IF r = s THEN request ELSE asked[r]
                           /\ credits'[r] = IF r = s THEN counted ELSE credits[r]
    BY <2>3 DEF FeedInv, FeedTyped
  <2>10. ASSUME NEW r \in Symbols  PROVE AskedAnew(r)'
    <3>1. CASE r = s
      <4>1. asked'[r] = request /\ credits'[r] = counted /\ kept' = kept  BY <2>9, <3>1
      <4>2. s \in Forex => ~KeptOfLast(r)'  BY <2>4, <2>5, <3>1, <4>1 DEF KeptOfLast
      <4>3. QED  BY <2>1, <2>4, <2>6, <2>7, <3>1, <4>1, <4>2 DEF AskedAnew
    <3>2. CASE r # s
      <4>1. asked'[r] = asked[r] /\ credits'[r] = credits[r] /\ kept' = kept  BY <2>9, <3>2
      <4>2. QED  BY <4>1 DEF FeedInv, AskedAnew, KeptOfLast
    <3>3. QED  BY <3>1, <3>2
  <2>11. QED  BY <2>8, <2>10
<1>2. CASE asked[s] # Nothing
  <2>1. asked' = asked /\ credits' = credits  BY <1>2 DEF Joins
  <2>2. QED  BY <2>1 DEF FeedInv, FeedTyped, AskedAnew, KeptOfLast
<1>3. QED  BY <1>1, <1>2

\* The vendor's answer is kept, in the bucket in which it was asked for.
LEMMA AnswerCounted ==
  ASSUME FeedInv, NEW s \in Symbols, VendorAnswers(s)
  PROVE  /\ kept' \in [Symbols -> KeptAnswers \cup {Nothing}]
         /\ asked' \in [Symbols -> Flying \cup {Nothing}]
         /\ \A r \in Symbols : AskedAnew(r)'
<1>1. PICK newest \in {tick \div Period, tick \div Period - 1} :
        kept' = [kept EXCEPT ![s] = [stage |-> "kept", newest |-> newest, at |-> asked[s].at,
                                     seen |-> tick]]
  BY DEF VendorAnswers
<1> DEFINE keeps == [stage |-> "kept", newest |-> newest, at |-> asked[s].at, seen |-> tick]
<1>2. /\ asked[s] \in Flying /\ asked[s] # Nothing /\ tick \in Nat /\ UNCHANGED credits
      /\ asked' = [asked EXCEPT ![s] = Nothing] /\ credits[s] \in CreditCounts
  BY DEF FeedInv, FeedTyped, VendorAnswers
<1>3. asked[s].at \in Nat /\ newest \in Int
  BY <1>2, FeedAssumption DEF Flying
<1>4. keeps \in KeptAnswers /\ keeps # Nothing /\ keeps.at = asked[s].at
  BY <1>2, <1>3 DEF KeptAnswers, Nothing
<1>5. kept' = [kept EXCEPT ![s] = keeps]  BY <1>1
<1> HIDE DEF keeps
<1>6. kept' \in [Symbols -> KeptAnswers \cup {Nothing}]
      /\ asked' \in [Symbols -> Flying \cup {Nothing}]
  BY <1>2, <1>4, <1>5 DEF FeedInv, FeedTyped
<1>7. \A r \in Symbols : /\ kept'[r] = IF r = s THEN keeps ELSE kept[r]
                         /\ asked'[r] = IF r = s THEN Nothing ELSE asked[r]
  BY <1>2, <1>5 DEF FeedInv, FeedTyped
<1>8. ASSUME NEW r \in Symbols  PROVE AskedAnew(r)'
  <2>1. CASE r = s
    <3>1. kept'[r] = keeps /\ asked'[r] = Nothing /\ credits'[r] = credits[s]
      BY <1>2, <1>7, <2>1
    <3>2. s \in Forex => KeptOfLast(r)'
      BY <1>2, <1>4, <3>1 DEF KeptOfLast, FeedInv, AskedAnew
    <3>3. s \in Forex => credits[s].sent <= credits[s].failed + 1
      BY <1>2 DEF FeedInv, AskedAnew
    <3>4. QED  BY <2>1, <3>1, <3>2, <3>3 DEF AskedAnew
  <2>2. CASE r # s
    <3>1. kept'[r] = kept[r] /\ asked'[r] = asked[r] /\ credits'[r] = credits[r]
      BY <1>2, <1>7, <2>2
    <3>2. QED  BY <3>1 DEF FeedInv, AskedAnew, KeptOfLast
  <2>3. QED  BY <2>1, <2>2
<1>9. QED  BY <1>6, <1>8

\* A request that fails is one more that has failed.
LEMMA FailureCounted ==
  ASSUME FeedInv, NEW s \in Symbols, VendorFails(s)
  PROVE  /\ asked' \in [Symbols -> Flying \cup {Nothing}]
         /\ credits' \in [Symbols -> CreditCounts]
         /\ \A r \in Symbols : AskedAnew(r)'
<1> DEFINE counted == [credits[s] EXCEPT !.failed = @ + 1]
<1>1. /\ asked' = [asked EXCEPT ![s] = Nothing] /\ UNCHANGED kept
      /\ credits' = [credits EXCEPT ![s] = counted]
      /\ asked[s] # Nothing /\ credits[s] \in CreditCounts
  BY DEF VendorFails, FeedInv, FeedTyped
<1>2. /\ counted \in CreditCounts /\ counted.bucket = credits[s].bucket
      /\ counted.sent = credits[s].sent /\ counted.failed = credits[s].failed + 1
      /\ counted.sent \in Nat /\ credits[s].failed \in Nat
  BY <1>1 DEF CreditCounts
<1> HIDE DEF counted
<1>3. \A r \in Symbols : /\ credits'[r] = IF r = s THEN counted ELSE credits[r]
                         /\ asked'[r] = IF r = s THEN Nothing ELSE asked[r]
  BY <1>1 DEF FeedInv, FeedTyped
<1>4. /\ asked' \in [Symbols -> Flying \cup {Nothing}]
      /\ credits' \in [Symbols -> CreditCounts]
  BY <1>1, <1>2 DEF FeedInv, FeedTyped
<1>5. ASSUME NEW r \in Symbols  PROVE AskedAnew(r)'
  <2>1. CASE r = s
    <3>1. asked'[r] = Nothing /\ credits'[r] = counted /\ kept' = kept  BY <1>1, <1>3, <2>1
    <3>2. s \in Forex => credits[s].sent <= credits[s].failed + 1 /\ ~KeptOfLast(s)
      BY <1>1 DEF FeedInv, AskedAnew
    <3>3. s \in Forex => ~KeptOfLast(r)'  BY <1>2, <2>1, <3>1, <3>2 DEF KeptOfLast
    <3>4. s \in Forex => counted.sent <= counted.failed + 0  BY <1>2, <3>2
    <3>5. QED  BY <2>1, <3>1, <3>3, <3>4 DEF AskedAnew
  <2>2. CASE r # s
    <3>1. asked'[r] = asked[r] /\ credits'[r] = credits[r] /\ kept' = kept
      BY <1>1, <1>3, <2>2
    <3>2. QED  BY <3>1 DEF FeedInv, AskedAnew, KeptOfLast
  <2>3. QED  BY <2>1, <2>2
<1>6. QED  BY <1>4, <1>5

LEMMA AskedStays ==
  ASSUME FeedInv, UNCHANGED <<kept, asked, credits>>
  PROVE  \A r \in Symbols : AskedAnew(r)'
BY DEF FeedInv, AskedAnew, KeptOfLast

\* The two parts of a step.
LEMMA Parts ==
  ASSUME tick' \in Nat, pane' \in Panes, Shown', \A s \in Symbols : AskedAnew(s)',
         kept' \in [Symbols -> KeptAnswers \cup {Nothing}],
         asked' \in [Symbols -> Flying \cup {Nothing}],
         credits' \in [Symbols -> CreditCounts]
  PROVE  FeedInv'
BY DEF FeedInv, FeedTyped, Shown
--------------------------------------------------------------------------------
LEMMA FeedBegins == FeedInit => FeedInv
<1> SUFFICES ASSUME FeedInit  PROVE FeedInv
  OBVIOUS
<1>1. LoopShape(loop) /\ loop.call = Nothing /\ FeedShape(feed)
  BY DEF FeedInit, LoopShape, LoopFields, FreshLoop, Nothing, FeedShape, FeedFields
<1>2. /\ pane \in Panes /\ ~pane.built /\ tick \in Nat
      /\ kept \in [Symbols -> KeptAnswers \cup {Nothing}]
      /\ asked \in [Symbols -> Flying \cup {Nothing}]
      /\ credits \in [Symbols -> CreditCounts]
  BY DEF FeedInit, Panes, Unrequested, CreditCounts
<1>3. \A s \in Symbols : AskedAnew(s)  BY DEF FeedInit, AskedAnew, KeptOfLast, Unrequested
<1>4. CallIsMine /\ FeedShowsSelection /\ LoopGoesOn
  BY <1>1, <1>2 DEF CallIsMine, Nothing, FeedShowsSelection, LoopGoesOn, Drawn
<1>5. QED  BY <1>1, <1>2, <1>3, <1>4 DEF FeedInv, FeedTyped

LEMMA ArriveKeeps == FeedInv /\ Arrive => FeedInv'
<1> SUFFICES ASSUME FeedInv, Arrive  PROVE FeedInv'
  OBVIOUS
<1>1. UNCHANGED <<tick, kept, pane, feed>> /\ pane.symbol \in Symbols
  BY DEF Arrive, FeedInv, FeedTyped, Panes
<1>2. CASE (\E code : loop' = [loop EXCEPT !.call = Failed(code)]) /\ UNCHANGED <<asked, credits>>
  <2>1. Shown'  BY <1>1, <1>2, FailureIsNoAnswer, CallShows
  <2>2. QED  BY <1>1, <1>2, <2>1, AskedStays, Parts DEF FeedInv, FeedTyped
<1>3. CASE loop' = [loop EXCEPT !.call = FromCache(pane.symbol)] /\ UNCHANGED <<asked, credits>>
  <2>1. /\ FromCache(pane.symbol) # Nothing /\ "stage" \in DOMAIN FromCache(pane.symbol)
        /\ FromCache(pane.symbol).symbol = pane.symbol
    BY DEF FromCache, Nothing
  <2>2. Shown'  BY <1>1, <1>3, <2>1, CallShows
  <2>3. QED  BY <1>1, <1>3, <2>2, AskedStays, Parts DEF FeedInv, FeedTyped
<1>4. CASE ~Fresh(pane.symbol) /\ Joins(pane.symbol)
           /\ loop' = [loop EXCEPT !.call.stage = "waiting"]
  <2> DEFINE call == [loop.call EXCEPT !.stage = "waiting"]
  <2>1. call # Nothing /\ "stage" \in DOMAIN call /\ call.stage = "waiting"
    BY DEF FeedInv, FeedTyped, LoopShape, Nothing
  <2>2. loop' = [loop EXCEPT !.call = call]
    BY <1>4 DEF FeedInv, FeedTyped, LoopShape, LoopFields
  <2> HIDE DEF call
  <2>3. Shown'  BY <1>1, <2>1, <2>2, CallShows
  <2>4. /\ asked' \in [Symbols -> Flying \cup {Nothing}]
        /\ credits' \in [Symbols -> CreditCounts]
        /\ \A r \in Symbols : AskedAnew(r)'
    BY <1>1, <1>4, JoinsAnew
  <2>5. QED  BY <1>1, <2>3, <2>4, Parts DEF FeedInv, FeedTyped
<1>5. QED  BY <1>2, <1>3, <1>4 DEF Arrive

\* What the vendor says reaches the chart that waits for it.
LEMMA ToldShows ==
  ASSUME FeedInv, NEW s \in Symbols, NEW answer, Told(s, answer), UNCHANGED <<pane, feed>>,
         answer # Nothing, "stage" \in DOMAIN answer,
         answer.stage = "answered" => answer.symbol = s
  PROVE  Shown'
<1>1. CASE loop.call.stage = "waiting" /\ pane.symbol = s
  BY <1>1, CallShows DEF Told
<1>2. CASE ~(loop.call.stage = "waiting" /\ pane.symbol = s)
  BY <1>2, StaysShown DEF Told
<1>3. QED  BY <1>1, <1>2

LEMMA VendorKeeps ==
  ASSUME FeedInv, NEW s \in Symbols, VendorAnswers(s) \/ VendorFails(s) \/ AnotherReads(s)
  PROVE  FeedInv'
<1>1. CASE VendorAnswers(s)
  <2>1. PICK newest : Told(s, [stage |-> "answered", symbol |-> s, newest |-> newest,
                               seen |-> tick, asOf |-> asked[s].at])
    BY <1>1 DEF VendorAnswers
  <2>2. UNCHANGED <<tick, credits, pane, feed>>  BY <1>1 DEF VendorAnswers
  <2>3. Shown'  BY <2>1, <2>2, ToldShows DEF Nothing
  <2>4. QED  BY <1>1, <2>2, <2>3, AnswerCounted, Parts DEF FeedInv, FeedTyped
<1>2. CASE VendorFails(s)
  <2>1. Told(s, Failed("UPSTREAM")) /\ UNCHANGED <<tick, kept, pane, feed>>
    BY <1>2 DEF VendorFails
  <2>2. Shown'  BY <2>1, FailureIsNoAnswer, ToldShows
  <2>3. QED  BY <1>2, <2>1, <2>2, FailureCounted, Parts DEF FeedInv, FeedTyped
<1>3. CASE AnotherReads(s)
  <2>1. ~Fresh(s) /\ Joins(s) /\ UNCHANGED <<tick, kept, pane, loop, feed>>
    BY <1>3 DEF AnotherReads
  <2>2. Shown'  BY <2>1, StaysShown
  <2>3. QED  BY <2>1, <2>2, JoinsAnew, Parts DEF FeedInv, FeedTyped
<1>4. QED  BY <1>1, <1>2, <1>3

\* A step of the chart leaves the vendor's side alone.
LEMMA ChartKeeps ==
  ASSUME FeedInv, UNCHANGED <<tick, kept, asked, credits>>, pane' \in Panes, Shown'
  PROVE  FeedInv'
BY AskedStays, Parts DEF FeedInv, FeedTyped

LEMMA ReceiveKeeps == FeedInv /\ (Receive \/ ReceiveLate) => FeedInv'
<1> SUFFICES ASSUME FeedInv, Receive \/ ReceiveLate  PROVE FeedInv'
  OBVIOUS
<1>1. CASE Receive
  <2>1. UNCHANGED <<tick, kept, asked, credits, pane>>  BY <1>1 DEF Receive
  <2>2. Shown'
    <3>1. CASE Mine(TRUE)
      <4>1. Applied(loop.call) /\ loop.running  BY <1>1, <3>1 DEF Receive, Mine
      <4>2. loop.call.stage # "failed" => loop.call.symbol = pane.symbol
        BY <1>1 DEF Receive, FeedInv, CallIsMine
      <4>3. QED  BY <2>1, <4>1, <4>2, AnswerShows
    <3>2. CASE ~Mine(TRUE)
      <4>1. loop' = [loop EXCEPT !.call = Nothing] /\ feed' = feed
        BY <1>1, <3>2 DEF Receive
      <4>2. /\ LoopShape(loop') /\ loop'.call = Nothing /\ loop'.running = loop.running
            /\ loop'.ended = loop.ended
        BY <4>1 DEF FeedInv, FeedTyped, LoopShape, LoopFields, Nothing
      <4>3. ~loop.running \/ ~pane.built  BY <3>2 DEF Mine
      <4>4. QED
        BY <2>1, <4>1, <4>2, <4>3
           DEF Shown, CallIsMine, Nothing, FeedShowsSelection, LoopGoesOn, Drawn, FeedInv,
               FeedTyped
    <3>3. QED  BY <3>1, <3>2
  <2>3. QED  BY <2>1, <2>2, ChartKeeps DEF FeedInv, FeedTyped
<1>2. CASE ReceiveLate
  <2>1. UNCHANGED <<tick, kept, asked, credits, pane, loop, feed>>
    BY <1>2 DEF ReceiveLate, Mine
  <2>2. QED  BY <2>1, StaysShown, ChartKeeps DEF FeedInv, FeedTyped
<1>3. QED  BY <1>1, <1>2

LEMMA LoopKeeps == FeedInv /\ (RequestExpires \/ TimerFires) => FeedInv'
<1> SUFFICES ASSUME FeedInv, RequestExpires \/ TimerFires  PROVE FeedInv'
  OBVIOUS
<1>1. CASE RequestExpires
  <2>1. /\ UNCHANGED <<tick, kept, asked, credits, pane, feed>>
        /\ loop' = [loop EXCEPT !.call = Failed("TIMEOUT")]
    BY <1>1 DEF RequestExpires
  <2>2. Shown'  BY <2>1, FailureIsNoAnswer, CallShows
  <2>3. QED  BY <2>1, <2>2, ChartKeeps DEF FeedInv, FeedTyped
<1>2. CASE TimerFires
  <2>1. /\ UNCHANGED <<tick, kept, asked, credits, pane>>
        /\ loop.running /\ loop.call = Nothing /\ Refreshed(loop, feed)
    BY <1>2 DEF TimerFires
  <2>2. /\ pane' \in Panes /\ LoopShape(loop) /\ FeedShape(feed)
        /\ Drawn(pane') => ShowsOf(feed, pane'.symbol)
    BY <2>1 DEF FeedInv, FeedTyped, FeedShowsSelection, ShowsOf
  <2>3. Shown'  BY <2>1, <2>2, RefreshShows DEF FeedInv
  <2>4. QED  BY <2>1, <2>2, <2>3, ChartKeeps
<1>3. QED  BY <1>1, <1>2

\* The steps after which the effect runs again.
LEMMA RestartKeeps ==
  ASSUME FeedInv, NEW s \in Symbols,
         Select(s) \/ Import \/ AccessChanges \/ Built \/ Leave \/ ComeBack
  PROVE  FeedInv'
<1>1. UNCHANGED <<tick, kept, asked, credits>> /\ Restarted
  BY DEF Select, Import, AccessChanges, Built, Leave, ComeBack
<1>2. pane' \in Panes
  BY DEF Select, Import, AccessChanges, Built, Leave, ComeBack, FeedInv, FeedTyped, Panes
<1>3. QED  BY <1>1, <1>2, RestartShows, ChartKeeps

LEMMA TabKeeps == FeedInv /\ (TakenDown \/ Hide \/ Show) => FeedInv'
<1> SUFFICES ASSUME FeedInv, TakenDown \/ Hide \/ Show  PROVE FeedInv'
  OBVIOUS
<1>1. CASE TakenDown
  <2>1. /\ UNCHANGED <<tick, kept, asked, credits, loop, feed>>
        /\ pane' = [pane EXCEPT !.built = FALSE]
    BY <1>1 DEF TakenDown
  <2>2. pane' \in Panes /\ ~pane'.built /\ pane'.symbol = pane.symbol
    BY <2>1 DEF FeedInv, FeedTyped, Panes
  <2>3. Shown'
    BY <2>1, <2>2
       DEF Shown, CallIsMine, FeedShowsSelection, LoopGoesOn, Drawn, FeedInv, FeedTyped
  <2>4. QED  BY <2>1, <2>2, <2>3, ChartKeeps
<1>2. CASE Hide
  <2>1. /\ UNCHANGED <<tick, kept, asked, credits, loop, feed>>
        /\ pane' = [pane EXCEPT !.visible = FALSE]
    BY <1>2 DEF Hide
  <2>2. /\ pane' \in Panes /\ pane'.built = pane.built /\ pane'.symbol = pane.symbol
        /\ pane'.imported = pane.imported /\ pane'.active = pane.active
    BY <2>1 DEF FeedInv, FeedTyped, Panes
  <2>3. Shown'
    BY <2>1, <2>2
       DEF Shown, CallIsMine, FeedShowsSelection, LoopGoesOn, Local, Drawn, FeedInv,
           FeedTyped
  <2>4. QED  BY <2>1, <2>2, <2>3, ChartKeeps
<1>3. CASE Show
  <2>1. /\ UNCHANGED <<tick, kept, asked, credits, feed>>
        /\ pane' = [pane EXCEPT !.visible = TRUE]
        /\ loop' = IF loop.running /\ loop.call = Nothing THEN [loop EXCEPT !.timer = tick]
                   ELSE loop
    BY <1>3 DEF Show
  <2>2. /\ pane' \in Panes /\ pane'.built = pane.built /\ pane'.symbol = pane.symbol
        /\ pane'.imported = pane.imported /\ pane'.active = pane.active
    BY <2>1 DEF FeedInv, FeedTyped, Panes
  <2>3. /\ LoopShape(loop') /\ loop'.call = loop.call /\ loop'.running = loop.running
        /\ loop'.ended = loop.ended
        /\ loop'.timer = loop.timer \/ loop'.timer # NoTimer
    <3>1. tick # NoTimer  BY DEF NoTimer, FeedInv, FeedTyped
    <3>2. QED  BY <2>1, <3>1 DEF FeedInv, FeedTyped, LoopShape, LoopFields
  <2>4. Shown'
    BY <2>1, <2>2, <2>3
       DEF Shown, CallIsMine, FeedShowsSelection, LoopGoesOn, Local, Drawn, FeedInv,
           FeedTyped
  <2>5. QED  BY <2>1, <2>2, <2>4, ChartKeeps
<1>4. QED  BY <1>1, <1>2, <1>3

LEMMA RecycleKeeps == FeedInv /\ Recycle => FeedInv'
<1> SUFFICES ASSUME FeedInv, Recycle  PROVE FeedInv'
  OBVIOUS
<1>1. UNCHANGED <<tick, pane, feed>>  BY DEF Recycle
<1>2. /\ kept' \in [Symbols -> KeptAnswers \cup {Nothing}]
      /\ asked' \in [Symbols -> Flying \cup {Nothing}]
      /\ credits' \in [Symbols -> CreditCounts]
      /\ \A s \in Symbols : AskedAnew(s)'
  BY DEF Recycle, AskedAnew, KeptOfLast, Unrequested, CreditCounts
<1>3. Shown'
  <2>1. CASE loop.call.stage = "waiting"
    BY <1>1, <2>1, FailureIsNoAnswer, CallShows DEF Recycle
  <2>2. CASE loop.call.stage # "waiting"
    BY <1>1, <2>2, StaysShown DEF Recycle
  <2>3. QED  BY <2>1, <2>2
<1>4. QED  BY <1>1, <1>2, <1>3, Parts DEF FeedInv, FeedTyped

LEMMA FeedKept == FeedInv /\ [FeedNext]_feedVars => FeedInv'
<1> SUFFICES ASSUME FeedInv, [FeedNext]_feedVars  PROVE FeedInv'
  OBVIOUS
<1>1. pane.symbol \in Symbols  BY DEF FeedInv, FeedTyped, Panes
<1>2. CASE Arrive  BY <1>2, ArriveKeeps
<1>3. CASE Receive \/ ReceiveLate  BY <1>3, ReceiveKeeps
<1>4. CASE RequestExpires \/ TimerFires  BY <1>4, LoopKeeps
<1>5. CASE \E s \in Symbols : AnotherReads(s) \/ VendorAnswers(s) \/ VendorFails(s)
  BY <1>5, VendorKeeps
<1>6. CASE (\E s \in Symbols : Select(s)) \/ Import \/ AccessChanges \/ Built
             \/ Leave \/ ComeBack
  BY <1>1, <1>6, RestartKeeps
<1>7. CASE TakenDown \/ Hide \/ Show  BY <1>7, TabKeeps
<1>8. CASE Recycle  BY <1>8, RecycleKeeps
<1>9. CASE Expire
  <2>1. UNCHANGED <<tick, kept, asked, credits, pane, loop, feed>>  BY <1>9 DEF Expire
  <2>2. QED  BY <2>1, StaysShown, ChartKeeps DEF FeedInv, FeedTyped
<1>10. CASE FeedTick
  <2>1. UNCHANGED <<kept, asked, credits, pane, loop, feed>> /\ tick' = tick + 1
    BY <1>10 DEF FeedTick
  <2>2. QED  BY <2>1, StaysShown, AskedStays, Parts DEF FeedInv, FeedTyped
<1>11. CASE UNCHANGED feedVars
  <2>1. UNCHANGED <<tick, kept, asked, credits, pane, loop, feed>>  BY <1>11 DEF feedVars
  <2>2. QED  BY <2>1, StaysShown, ChartKeeps DEF FeedInv, FeedTyped
<1>12. QED
  BY <1>2, <1>3, <1>4, <1>5, <1>6, <1>7, <1>8, <1>9, <1>10, <1>11 DEF FeedNext

LEMMA FeedInvariant == FeedSpec => []FeedInv
BY FeedBegins, FeedKept, PTL DEF FeedSpec

\* What a chart in a pane that is looked at shows is of the symbol it is set to, and a built
\* one goes on asking until it is told what asking again cannot mend, whatever comes late
\* (XMILiveChart.jsx:206-335).
THEOREM FeedFollows == FeedSpec => []FeedFollowsSelection
<1>1. FeedInv => FeedFollowsSelection  BY DEF FeedInv, FeedFollowsSelection
<1>2. QED  BY <1>1, FeedInvariant, PTL

\* A forex symbol is asked for once in a bucket of an instance, and once more only for each
\* of these requests that failed (xmiMultiProvider.mjs:116-142).
THEOREM BucketsKept == FeedSpec => []AskedAgainOnlyAfterFailure
<1>1. FeedInv => AskedAgainOnlyAfterFailure
  <2>1. ASSUME FeedInv, NEW s \in Forex  PROVE credits[s].sent <= credits[s].failed + 1
    <3>1. s \in Symbols /\ credits[s] \in CreditCounts
      BY <2>1, FeedAssumption DEF FeedInv, FeedTyped
    <3>2. AskedAnew(s)  BY <2>1, <3>1 DEF FeedInv
    <3>3. credits[s].sent \in Nat /\ credits[s].failed \in Nat  BY <3>1 DEF CreditCounts
    <3>4. QED  BY <3>2, <3>3 DEF AskedAnew
  <2>2. QED  BY <2>1 DEF AskedAgainOnlyAfterFailure
<1>2. QED  BY <1>1, FeedInvariant, PTL

--------------------------------------------------------------------------------
(***************************************************************************)
(* The history, for any candles the market has, any span and any page.     *)
(* What was fetched is the earliest of what the cursor has passed, up to   *)
(* the number that is wanted, as long as the pages begin on the grid       *)
(* (Regular).                                                              *)
(***************************************************************************)

\* A set of natural numbers has a least, and a bounded one a greatest element.
LEMMA HasLeast ==
  ASSUME NEW S \in SUBSET Nat, S # {}
  PROVE  \E x \in S : \A y \in S : x <= y
<1> DEFINE R == OpToRel(<, Nat)
<1>1. \A x, y \in Nat : <<x, y>> \in R <=> x < y  BY DEF OpToRel
<1>2. PICK x \in S : \A y \in S : ~ (<<y, x>> \in R)
  <2> HIDE DEF R
  <2>1. IsWellFoundedOn(R, Nat)  BY NatLessThanWellFounded DEF R
  <2>2. QED  BY <2>1, WFMin
<1> HIDE DEF R
<1>3. \A y \in S : x <= y
  <2>1. \A y \in S : y \in Nat /\ x \in Nat /\ ~ (y < x)  BY <1>1, <1>2
  <2>2. QED  BY <2>1
<1>4. QED  BY <1>3

LEMMA HasGreatest ==
  ASSUME NEW n \in Nat, NEW S \in SUBSET (0..n), S # {}
  PROVE  \E x \in S : \A y \in S : y <= x
<1> DEFINE D == {n - y : y \in S}
<1>1. D \in SUBSET Nat /\ D # {}
  <2>1. \A y \in S : n - y \in Nat  OBVIOUS
  <2>2. QED  BY <2>1
<1>2. \A y \in S : n - y \in D  OBVIOUS
<1>3. PICK d \in D : \A e \in D : d <= e
  <2> HIDE DEF D
  <2>1. QED  BY <1>1, HasLeast
<1>4. PICK x \in S : d = n - x  BY <1>3
<1> HIDE DEF D
<1>5. \A y \in S : y <= x
  <2>1. \A y \in S : n - x <= n - y  BY <1>2, <1>3, <1>4
  <2>2. QED  BY <2>1
<1>6. QED  BY <1>5

LEMMA Grows ==
  ASSUME NEW u \in Int, NEW a \in Int, NEW b \in Int, u > 0, a <= b
  PROVE  u * a <= u * b
<1>1. u * (b - a) >= 0  OBVIOUS
<1>2. u * (b - a) = u * b - u * a  OBVIOUS
<1>3. u * a \in Int /\ u * b \in Int  OBVIOUS
<1>4. ASSUME NEW x \in Int, NEW y \in Int, y - x >= 0  PROVE x <= y
  BY <1>4
<1>5. QED  BY <1>1, <1>2, <1>3, <1>4

--------------------------------------------------------------------------------
(* The earliest of some times. *)

Times == 1..LastCandle
Below(t, S) == {u \in S : u < t}

LEMMA TimesAreFinite ==
  ASSUME NEW S \in SUBSET Times
  PROVE  IsFiniteSet(S) /\ Cardinality(S) \in Nat
<1>1. IsFiniteSet(Times)  BY FS_Interval, HistoryAssumption DEF Times
<1>2. IsFiniteSet(S)  BY <1>1, FS_Subset
<1>3. QED  BY <1>2, FS_CardinalityType

LEMMA BelowIsFewer ==
  ASSUME NEW S \in SUBSET Times, NEW t
  PROVE  /\ Below(t, S) \in SUBSET Times /\ Below(t, S) \subseteq S
         /\ Cardinality(Below(t, S)) \in Nat /\ Cardinality(Below(t, S)) <= Cardinality(S)
         /\ t \in S => Cardinality(Below(t, S)) < Cardinality(S)
<1>1. Below(t, S) \in SUBSET Times /\ Below(t, S) \in SUBSET S  BY DEF Below
<1>2. /\ IsFiniteSet(S) /\ Cardinality(S) \in Nat
      /\ Cardinality(Below(t, S)) \in Nat
  BY <1>1, TimesAreFinite
<1>3. /\ Cardinality(Below(t, S)) <= Cardinality(S)
      /\ Cardinality(S) = Cardinality(Below(t, S)) => S = Below(t, S)
  BY <1>1, <1>2, FS_Subset
<1>4. t \in S => S # Below(t, S)
  <2>1. t \in S => t \in Int /\ ~(t < t)  BY DEF Times
  <2>2. QED  BY <2>1 DEF Below
<1>5. QED  BY <1>1, <1>2, <1>3, <1>4

LEMMA EarliestIsBelow ==
  ASSUME NEW S, NEW n
  PROVE  Earliest(n, S) = {t \in S : Cardinality(Below(t, S)) < n}
BY DEF Earliest, Below

\* The earliest n are n at most, and all if they are fewer.
LEMMA EarliestCount ==
  ASSUME NEW S \in SUBSET Times, NEW n \in Nat
  PROVE  /\ Earliest(n, S) \in SUBSET S /\ Cardinality(Earliest(n, S)) \in Nat
         /\ Cardinality(Earliest(n, S)) <= n
         /\ Cardinality(Earliest(n, S)) < n => Earliest(n, S) = S
<1> DEFINE E == Earliest(n, S)
<1>1. E = {t \in S : Cardinality(Below(t, S)) < n}  BY EarliestIsBelow
<1> HIDE DEF E
<1>2. E \in SUBSET S /\ E \in SUBSET Times  BY <1>1
<1>3. IsFiniteSet(E) /\ Cardinality(E) \in Nat  BY <1>2, TimesAreFinite
<1>4. Cardinality(E) <= n
  <2>1. CASE E = {}
    <3>1. Cardinality(E) = 0  BY <2>1, FS_EmptySet
    <3>2. QED  BY <3>1
  <2>2. CASE E # {}
    <3>1. E \in SUBSET (0..LastCandle)  BY <1>2, HistoryAssumption DEF Times
    <3>2. PICK g \in E : \A y \in E : y <= g
      BY <2>2, <3>1, HasGreatest, HistoryAssumption
    <3>3. E \in SUBSET (Below(g, S) \cup {g})
      <4>1. ASSUME NEW y \in E, y # g  PROVE y \in Below(g, S)
        <5>1. y \in Int /\ g \in Int /\ y <= g  BY <1>2, <3>2 DEF Times
        <5>2. y < g  BY <4>1, <5>1
        <5>3. QED  BY <1>2, <5>2 DEF Below
      <4>2. QED  BY <4>1
    <3>4. /\ Cardinality(Below(g, S)) \in Nat /\ IsFiniteSet(Below(g, S))
      BY BelowIsFewer, TimesAreFinite
    <3>5. /\ IsFiniteSet(Below(g, S) \cup {g})
          /\ Cardinality(Below(g, S) \cup {g}) <= Cardinality(Below(g, S)) + 1
      BY <3>4, FS_AddElement
    <3>6. Cardinality(Below(g, S) \cup {g}) \in Nat  BY <3>5, FS_CardinalityType
    <3>7. Cardinality(E) <= Cardinality(Below(g, S) \cup {g})  BY <3>3, <3>5, FS_Subset
    <3>8. Cardinality(Below(g, S)) < n  BY <1>1
    <3>9. QED  BY <1>3, <3>4, <3>5, <3>6, <3>7, <3>8
  <2>3. QED  BY <2>1, <2>2
<1>5. ASSUME E # S  PROVE ~(Cardinality(E) < n)
  <2>1. S \ E \in SUBSET Nat /\ S \ E # {}
    <3>1. \A y \in S : y \in Nat  BY DEF Times
    <3>2. \E y \in S : y \notin E  BY <1>2, <1>5
    <3>3. QED  BY <3>1, <3>2
  <2>2. PICK t \in S \ E : \A y \in S \ E : t <= y
    <3> DEFINE D == S \ E
    <3>1. D \in SUBSET Nat /\ D # {}  BY <2>1
    <3> HIDE DEF D
    <3>2. \E x \in D : \A y \in D : x <= y  BY <3>1, HasLeast
    <3>3. QED  BY <3>2 DEF D
  <2>3. Below(t, S) \in SUBSET E
    <3>1. ASSUME NEW y \in S, y < t  PROVE y \in E
      <4>1. y \in Int /\ t \in Int  BY <2>2 DEF Times
      <4>2. ~(t <= y)  BY <3>1, <4>1
      <4>3. QED  BY <2>2, <4>2
    <3>2. QED  BY <3>1 DEF Below
  <2>4. Cardinality(Below(t, S)) <= Cardinality(E)  BY <1>3, <2>3, FS_Subset
  <2>5. ~(Cardinality(Below(t, S)) < n)  BY <1>1, <2>2
  <2>6. Cardinality(Below(t, S)) \in Nat  BY BelowIsFewer
  <2>7. QED  BY <1>3, <2>4, <2>5, <2>6
<1>6. QED  BY <1>2, <1>3, <1>4, <1>5 DEF E

\* Later times come after those there are already.
LEMMA EarliestGrows ==
  ASSUME NEW S \in SUBSET Times, NEW T \in SUBSET Times, NEW n \in Nat,
         \A s \in S, t \in T : s < t, Cardinality(S) < n
  PROVE  Earliest(n, S \cup T) = S \cup Earliest(n - Cardinality(S), T)
<1>1. S \cup T \in SUBSET Times /\ IsFiniteSet(S) /\ Cardinality(S) \in Nat
  BY TimesAreFinite
<1>2. ASSUME NEW s \in S  PROVE Cardinality(Below(s, S \cup T)) < n
  <2>1. Below(s, S \cup T) = Below(s, S)
    <3>1. \A t \in T : t \in Int /\ s \in Int /\ s < t  BY DEF Times
    <3>2. \A t \in T : ~(t < s)  BY <3>1
    <3>3. QED  BY <3>2 DEF Below
  <2>2. Cardinality(Below(s, S)) \in Nat /\ Cardinality(Below(s, S)) < Cardinality(S)
    BY BelowIsFewer
  <2>3. QED  BY <1>1, <2>1, <2>2
<1>3. ASSUME NEW t \in T
      PROVE  Cardinality(Below(t, S \cup T)) < n
               <=> Cardinality(Below(t, T)) < n - Cardinality(S)
  <2>1. Below(t, S \cup T) = S \cup Below(t, T)  BY DEF Below
  <2>2. S \cap Below(t, T) = {}
    <3>1. \A s \in S : s \notin T
      <4>1. \A s \in S : s \in Int /\ ~(s < s)  BY DEF Times
      <4>2. QED  BY <4>1
    <3>2. QED  BY <3>1 DEF Below
  <2>3. IsFiniteSet(Below(t, T)) /\ Cardinality(Below(t, T)) \in Nat
    BY BelowIsFewer, TimesAreFinite
  <2>4. Cardinality(S \cup Below(t, T))
          = Cardinality(S) + Cardinality(Below(t, T)) - Cardinality(S \cap Below(t, T))
    BY <1>1, <2>3, FS_Union
  <2>5. Cardinality(S \cap Below(t, T)) = 0  BY <2>2, FS_EmptySet
  <2>6. Cardinality(Below(t, S \cup T)) = Cardinality(S) + Cardinality(Below(t, T))
    <3> DEFINE many == Cardinality(S)
               few == Cardinality(Below(t, T))
               common == Cardinality(S \cap Below(t, T))
               all == Cardinality(Below(t, S \cup T))
    <3>1. all = many + few - common  BY <2>1, <2>4
    <3>2. many \in Nat /\ few \in Nat /\ common = 0  BY <1>1, <2>3, <2>5
    <3> HIDE DEF many, few, common, all
    <3>3. all = many + few  BY <3>1, <3>2
    <3>4. QED  BY <3>3 DEF many, few, all
  <2>7. QED  BY <1>1, <2>3, <2>6
<1>4. Earliest(n, S \cup T) = {t \in S \cup T : Cardinality(Below(t, S \cup T)) < n}
  BY EarliestIsBelow
<1>5. Earliest(n - Cardinality(S), T)
        = {t \in T : Cardinality(Below(t, T)) < n - Cardinality(S)}
  BY EarliestIsBelow
<1>6. QED  BY <1>2, <1>3, <1>4, <1>5

\* When there are as many as are wanted, later times add nothing.
LEMMA EarliestStays ==
  ASSUME NEW S \in SUBSET Times, NEW T \in SUBSET Times, NEW n \in Nat,
         \A s \in S, t \in T : s < t, ~(Cardinality(Earliest(n, S)) < n)
  PROVE  Earliest(n, S \cup T) = Earliest(n, S)
<1>1. ~(Cardinality(S) < n) /\ IsFiniteSet(S) /\ Cardinality(S) \in Nat
  <2>1. IsFiniteSet(S) /\ Cardinality(S) \in Nat  BY TimesAreFinite
  <2>2. Earliest(n, S) \in SUBSET S /\ Cardinality(Earliest(n, S)) \in Nat
    BY EarliestCount
  <2>3. Cardinality(Earliest(n, S)) <= Cardinality(S)  BY <2>1, <2>2, FS_Subset
  <2>4. QED  BY <2>1, <2>2, <2>3
<1>2. ASSUME NEW s \in S  PROVE Below(s, S \cup T) = Below(s, S)
  <2>1. \A t \in T : t \in Int /\ s \in Int /\ s < t  BY DEF Times
  <2>2. \A t \in T : ~(t < s)  BY <2>1
  <2>3. QED  BY <2>2 DEF Below
<1>3. ASSUME NEW t \in T  PROVE ~(Cardinality(Below(t, S \cup T)) < n)
  <2>1. S \in SUBSET Below(t, S \cup T) /\ S \cup T \in SUBSET Times  BY DEF Below
  <2>2. /\ Below(t, S \cup T) \in SUBSET Times /\ IsFiniteSet(Below(t, S \cup T))
        /\ Cardinality(Below(t, S \cup T)) \in Nat
    BY <2>1, BelowIsFewer, TimesAreFinite
  <2>3. Cardinality(S) <= Cardinality(Below(t, S \cup T))  BY <2>1, <2>2, FS_Subset
  <2>4. QED  BY <1>1, <2>2, <2>3
<1>4. Earliest(n, S \cup T) = {t \in S \cup T : Cardinality(Below(t, S \cup T)) < n}
  BY EarliestIsBelow
<1>5. Earliest(n, S) = {t \in S : Cardinality(Below(t, S)) < n}
  BY EarliestIsBelow
<1>6. QED  BY <1>2, <1>3, <1>4, <1>5
--------------------------------------------------------------------------------
(* The pages. *)

InSpan == {t \in candles : span.from <= t /\ t <= span.to}

\* The candles of the span that the pages so far have asked for.
PassedTimes == {t \in InSpan : t < cursor}

\* Those of them whose page came in a shape the code knows.
ReadTimes == PassedTimes \ unread

Regular == span.from % Resolution = 0 \/ OnePage

HistoryTyped ==
  /\ candles \in SUBSET Times /\ \A t \in candles : t % Resolution = 0
  /\ span \in [from : 1..LastCandle, to : 1..(LastCandle + 1), wanted : Wanted]
  /\ cursor \in Nat

\* A page begins where a candle may, unless there is one page only, or the last is had.
OnGrid == cursor > span.to \/ cursor % Resolution = 0 \/ (OnePage /\ cursor = span.from)

HistoryInv ==
  /\ HistoryTyped
  /\ byTime \in SUBSET InSpan /\ Cardinality(byTime) <= span.wanted
  /\ unread \in SUBSET candles /\ \A t \in unread : t < cursor
  /\ Regular => OnGrid /\ byTime = Earliest(span.wanted, ReadTimes)
  /\ HistoryHasNoHole

LEMMA SpanTyped ==
  ASSUME HistoryTyped
  PROVE  /\ InSpan \in SUBSET Times /\ PassedTimes \in SUBSET Times /\ PassedTimes \in SUBSET InSpan
         /\ span.from \in Nat /\ span.to \in Nat /\ span.wanted \in Nat \ {0}
         /\ Resolution \in Nat \ {0} /\ PerRequest \in Nat \ {0} /\ LastCandle \in Nat
<1>1. InSpan \in SUBSET Times /\ PassedTimes \in SUBSET Times /\ PassedTimes \in SUBSET InSpan
  BY DEF HistoryTyped, InSpan, PassedTimes
<1>2. /\ Resolution \in Nat \ {0} /\ PerRequest \in Nat \ {0} /\ LastCandle \in Nat
      /\ Wanted \subseteq Nat \ {0}
  BY HistoryAssumption
<1>3. span.from \in Nat /\ span.to \in Nat /\ span.wanted \in Nat \ {0}
  <2>1. span.from \in 1..LastCandle /\ span.to \in 1..(LastCandle + 1) /\ span.wanted \in Wanted
    BY DEF HistoryTyped
  <2>2. span.from \in Nat  BY <1>2, <2>1
  <2>3. span.to \in Nat  BY <1>2, <2>1
  <2>4. span.wanted \in Nat \ {0}  BY <1>2, <2>1
  <2>5. QED  BY <2>2, <2>3, <2>4
<1>4. QED  BY <1>1, <1>2, <1>3

\* Between two candles there is at least their resolution.
LEMMA NoCandleBetween ==
  ASSUME NEW r \in Nat \ {0}, NEW a \in Nat, NEW b \in Nat, a % r = 0, b % r = 0, a < b
  PROVE  a + r <= b
<1> DEFINE k == a \div r
           m == b \div r
<1>1. k \in Int /\ m \in Int /\ a = r * k /\ b = r * m  OBVIOUS
<1> HIDE DEF k, m
<1>2. k < m
  <2>1. ASSUME m <= k  PROVE FALSE
    <3>1. r * m <= r * k  BY <1>1, <2>1, Grows
    <3>2. QED  BY <1>1, <3>1
  <2>2. QED  BY <1>1, <2>1
<1>3. r * (k + 1) <= r * m  BY <1>1, <1>2, Grows
<1>4. r * (k + 1) = r * k + r  BY <1>1
<1>5. QED  BY <1>1, <1>3, <1>4

LEMMA GridGoesOn ==
  ASSUME NEW r \in Nat \ {0}, NEW a \in Nat, NEW n \in Nat, a % r = 0
  PROVE  (a + n * r) % r = 0
<1> DEFINE k == a \div r
<1>1. k \in Int /\ a = r * k  OBVIOUS
<1> HIDE DEF k
<1>2. a + n * r = r * (k + n)  BY <1>1
<1>3. (r * (k + n)) % r = 0  BY <1>1
<1>4. QED  BY <1>2, <1>3

\* The end of a page: that of the span, or the last candle but one before the next page.
LEMMA PageEnds ==
  ASSUME HistoryTyped, cursor <= span.to
  PROVE  /\ ChunkTo \in Nat /\ cursor <= ChunkTo /\ ChunkTo <= span.to
         /\ ChunkTo # span.to => /\ ChunkTo = cursor + (PerRequest - 1) * Resolution
                                 /\ ChunkTo < span.to
<1> DEFINE last == cursor + (PerRequest - 1) * Resolution
<1>1. /\ cursor \in Nat /\ span.to \in Nat /\ last \in Nat /\ cursor <= last
  <2>1. PerRequest - 1 \in Nat /\ Resolution \in Nat /\ cursor \in Nat /\ span.to \in Nat
    BY SpanTyped DEF HistoryTyped
  <2>2. (PerRequest - 1) * Resolution \in Nat  BY <2>1
  <2> DEFINE d == (PerRequest - 1) * Resolution
  <2> HIDE DEF d
  <2>3. d \in Nat  BY <2>2 DEF d
  <2>4. cursor + d \in Nat /\ cursor <= cursor + d  BY <2>1, <2>3
  <2>5. QED  BY <2>1, <2>4 DEF d
<1>2. ChunkTo = Min({span.to, last})  BY DEF ChunkTo
<1> HIDE DEF last
<1>3. ChunkTo \in {span.to, last} /\ ChunkTo <= span.to /\ ChunkTo <= last
  BY <1>1, <1>2 DEF Min
<1>4. QED  BY <1>1, <1>3 DEF last

\* A page takes the candles of the span up to the next page, and no other.
LEMMA PageIsComplete ==
  ASSUME HistoryTyped, OnGrid, cursor <= span.to, cursor' = ChunkTo + Resolution,
         UNCHANGED <<candles, span>>
  PROVE  /\ PassedTimes' = PassedTimes \cup {t \in InSpan : cursor <= t /\ t <= ChunkTo}
         /\ OnGrid'
<1>1. /\ ChunkTo \in Nat /\ cursor <= ChunkTo /\ ChunkTo <= span.to
      /\ ChunkTo # span.to => /\ ChunkTo = cursor + (PerRequest - 1) * Resolution
                              /\ ChunkTo < span.to
  BY PageEnds
<1>2. /\ span.to \in Nat /\ span.from \in Nat /\ cursor \in Nat /\ Resolution \in Nat \ {0}
      /\ PerRequest - 1 \in Nat
  BY SpanTyped DEF HistoryTyped
<1>3. ChunkTo # span.to => cursor % Resolution = 0
  <2>1. ASSUME OnePage, cursor = span.from, ChunkTo # span.to  PROVE FALSE
    <3> DEFINE d == (PerRequest - 1) * Resolution
    <3>1. d \in Nat  BY <1>2
    <3>2. span.to - span.from <= d /\ ChunkTo = cursor + d /\ ChunkTo < span.to
      BY <1>1, <2>1 DEF OnePage
    <3> HIDE DEF d
    <3>3. QED  BY <1>2, <2>1, <3>1, <3>2
  <2>2. QED  BY <1>2, <2>1 DEF OnGrid
<1>4. ChunkTo # span.to => ChunkTo % Resolution = 0
  BY <1>1, <1>2, <1>3, GridGoesOn
<1>5. ASSUME NEW t \in InSpan
      PROVE  t < cursor' <=> t < cursor \/ (cursor <= t /\ t <= ChunkTo)
  <2>1. t \in Nat /\ t % Resolution = 0 /\ t <= span.to
    BY DEF HistoryTyped, InSpan, Times
  <2>2. CASE ChunkTo = span.to  BY <1>1, <1>2, <2>1, <2>2
  <2>3. CASE ChunkTo # span.to
    <3>1. ChunkTo < t => ChunkTo + Resolution <= t
      BY <1>1, <1>2, <1>4, <2>1, <2>3, NoCandleBetween
    <3>2. QED  BY <1>1, <1>2, <2>1, <3>1
  <2>4. QED  BY <2>2, <2>3
<1>6. PassedTimes' = PassedTimes \cup {t \in InSpan : cursor <= t /\ t <= ChunkTo}
  <2>1. InSpan' = InSpan  BY DEF InSpan
  <2>2. PassedTimes' = {t \in InSpan : t < cursor'}  BY <2>1 DEF PassedTimes
  <2>3. QED  BY <1>5, <2>2 DEF PassedTimes
<1>7. OnGrid'
  <2>1. CASE ChunkTo = span.to
    <3>1. cursor' > span'.to  BY <1>1, <1>2, <2>1
    <3>2. QED  BY <3>1 DEF OnGrid
  <2>2. CASE ChunkTo # span.to
    <3>1. (ChunkTo + 1 * Resolution) % Resolution = 0
      BY <1>1, <1>2, <1>4, <2>2, GridGoesOn
    <3>2. cursor' = ChunkTo + 1 * Resolution  BY <1>1, <1>2
    <3>3. QED  BY <3>1, <3>2 DEF OnGrid
  <2>3. QED  BY <2>1, <2>2
<1>8. QED  BY <1>6, <1>7

\* What is taken of an answer is of the span, and no more than is wanted.
LEMMA TakenIsBounded ==
  ASSUME HistoryInv, ~Full, NEW answer
  PROVE  LET more == {t \in answer : span.from <= t /\ t <= span.to} \ byTime
         IN  more \in SUBSET InSpan =>
               /\ Taken(answer) = byTime \cup Earliest(span.wanted - Cardinality(byTime), more)
               /\ Taken(answer) \in SUBSET InSpan
               /\ Cardinality(Taken(answer)) <= span.wanted
<1> DEFINE more == {t \in answer : span.from <= t /\ t <= span.to} \ byTime
           left == span.wanted - Cardinality(byTime)
           E == Earliest(left, more)
<1> SUFFICES ASSUME more \in SUBSET InSpan
             PROVE  /\ Taken(answer) = byTime \cup E
                    /\ Taken(answer) \in SUBSET InSpan
                    /\ Cardinality(Taken(answer)) <= span.wanted
  OBVIOUS
<1>1. Taken(answer) = byTime \cup E  BY DEF Taken
<1>2. /\ InSpan \in SUBSET Times /\ byTime \in SUBSET InSpan /\ span.wanted \in Nat
      /\ Cardinality(byTime) <= span.wanted
  BY SpanTyped DEF HistoryInv
<1>3. IsFiniteSet(byTime) /\ Cardinality(byTime) \in Nat  BY <1>2, TimesAreFinite
<1>4. left \in Nat  BY <1>2, <1>3
<1>5. more \in SUBSET Times /\ more \cap byTime = {}  BY <1>2
<1> HIDE DEF more, left
<1>6. E \in SUBSET more /\ Cardinality(E) \in Nat /\ Cardinality(E) <= left /\ IsFiniteSet(E)
  <2>1. E \in SUBSET more /\ Cardinality(E) \in Nat /\ Cardinality(E) <= left
    BY <1>4, <1>5, EarliestCount
  <2>2. E \in SUBSET Times  BY <1>5, <2>1
  <2>3. QED  BY <2>1, <2>2, TimesAreFinite
<1> HIDE DEF E
<1>7. Cardinality(byTime \cup E) = Cardinality(byTime) + Cardinality(E) - 0
  <2>1. byTime \cap E = {}  BY <1>5, <1>6
  <2>2. Cardinality(byTime \cap E) = 0  BY <2>1, FS_EmptySet
  <2>3. Cardinality(byTime \cup E)
          = Cardinality(byTime) + Cardinality(E) - Cardinality(byTime \cap E)
    BY <1>3, <1>6, FS_Union
  <2>4. QED  BY <2>2, <2>3
<1>8. Cardinality(byTime \cup E) <= span.wanted
  BY <1>2, <1>3, <1>6, <1>7 DEF left
<1>9. byTime \cup E \in SUBSET InSpan  BY <1>2, <1>6
<1>10. QED  BY <1>1, <1>8, <1>9

\* A page on the grid has no candle from before it, nor has the only one.
LEMMA NothingBefore ==
  ASSUME HistoryTyped, OnGrid, cursor <= span.to,
         NEW t \in InSpan, t < cursor, cursor < t + Resolution
  PROVE  FALSE
<1>1. /\ t \in Nat /\ t % Resolution = 0 /\ span.from <= t /\ cursor \in Nat
      /\ Resolution \in Nat \ {0} /\ span.from \in Nat /\ span.to \in Nat
  BY SpanTyped DEF HistoryTyped, InSpan, Times
<1>2. CASE cursor % Resolution = 0
  <2>1. t + Resolution <= cursor  BY <1>1, <1>2, NoCandleBetween
  <2>2. QED  BY <1>1, <2>1
<1>3. CASE cursor = span.from  BY <1>1, <1>3
<1>4. QED  BY <1>1, <1>2, <1>3 DEF OnGrid

\* What a step that fetches a page leaves of the span, and where the next page begins.
LEMMA PageMoves ==
  ASSUME HistoryInv, FetchChunk
  PROVE  /\ cursor <= span.to /\ ~Full /\ cursor' = ChunkTo + Resolution
         /\ UNCHANGED <<candles, span, history>> /\ history = Asking
         /\ HistoryTyped /\ InSpan' = InSpan /\ Regular' = Regular /\ HistoryTyped'
         /\ HistoryHasNoHole'
         /\ cursor \in Nat /\ cursor < cursor' /\ ChunkTo \in Nat /\ ChunkTo < cursor'
<1>1. /\ cursor <= span.to /\ ~Full /\ cursor' = ChunkTo + Resolution
      /\ UNCHANGED <<candles, span, history>> /\ history = Asking
  BY DEF FetchChunk
<1>2. HistoryTyped /\ InSpan' = InSpan /\ Regular' = Regular
  BY <1>1 DEF HistoryInv, InSpan, Regular, OnePage
<1>3. Resolution \in Nat \ {0} /\ ChunkTo \in Nat /\ cursor \in Nat /\ cursor <= ChunkTo
  BY <1>1, <1>2, SpanTyped, PageEnds DEF HistoryTyped
<1>4. cursor' \in Nat /\ cursor < cursor' /\ ChunkTo < cursor'  BY <1>1, <1>3
<1>5. HistoryTyped'  BY <1>1, <1>2, <1>4 DEF HistoryTyped
<1>6. HistoryHasNoHole'  BY <1>1 DEF HistoryHasNoHole, Asking
<1>7. QED  BY <1>1, <1>2, <1>3, <1>4, <1>5, <1>6

LEMMA UnreadKeeps ==
  ASSUME HistoryInv, FetchChunk, unread' = unread \cup Asked, UNCHANGED byTime
  PROVE  HistoryInv'
<1>1. /\ cursor <= span.to /\ cursor' = ChunkTo + Resolution /\ UNCHANGED <<candles, span>>
      /\ HistoryTyped /\ InSpan' = InSpan /\ Regular' = Regular /\ HistoryTyped'
      /\ HistoryHasNoHole' /\ cursor \in Nat /\ cursor < cursor'
      /\ ChunkTo \in Nat /\ ChunkTo < cursor'
  BY PageMoves
<1>2. candles \in SUBSET Nat /\ cursor' \in Nat  BY <1>1 DEF HistoryTyped, Times
<1>3. unread' \in SUBSET candles' /\ \A t \in unread' : t < cursor'
  <2>1. \A t \in unread : t \in candles /\ t < cursor  BY DEF HistoryInv
  <2>2. \A t \in Asked : t \in candles /\ t <= ChunkTo  BY DEF Asked
  <2>3. ASSUME NEW t \in unread'  PROVE t \in candles' /\ t < cursor'
    <3>1. t \in candles /\ (t < cursor \/ t <= ChunkTo)  BY <2>1, <2>2
    <3>2. QED  BY <1>1, <1>2, <3>1
  <2>4. QED  BY <2>3
<1>4. Regular => OnGrid' /\ byTime' = Earliest(span'.wanted, ReadTimes')
  <2> SUFFICES ASSUME Regular  PROVE OnGrid' /\ byTime' = Earliest(span'.wanted, ReadTimes')
    OBVIOUS
  <2> DEFINE page == {t \in InSpan : cursor <= t /\ t <= ChunkTo}
  <2>1. OnGrid /\ byTime = Earliest(span.wanted, ReadTimes)  BY DEF HistoryInv
  <2>2. PassedTimes' = PassedTimes \cup page /\ OnGrid'  BY <1>1, <2>1, PageIsComplete
  <2>3. page \subseteq Asked  BY DEF InSpan, Asked
  <2>4. PassedTimes \cap Asked = {}
    <3>1. \A t \in PassedTimes : t \in Nat /\ t < cursor  BY <1>2 DEF PassedTimes, InSpan
    <3>2. \A t \in Asked : cursor <= t  BY DEF Asked
    <3>3. QED  BY <1>1, <3>1, <3>2
  <2> HIDE DEF page
  <2>5. ReadTimes' = ReadTimes  BY <2>2, <2>3, <2>4 DEF ReadTimes
  <2>6. QED  BY <1>1, <2>1, <2>2, <2>5
<1>5. byTime' \in SUBSET InSpan' /\ Cardinality(byTime') <= span'.wanted
  BY <1>1 DEF HistoryInv
<1>6. QED  BY <1>1, <1>3, <1>4, <1>5 DEF HistoryInv

LEMMA ReadKeeps ==
  ASSUME HistoryInv, FetchChunk, NEW answer \in Answers, byTime' = Taken(answer), UNCHANGED unread
  PROVE  HistoryInv'
<1>2. /\ cursor <= span.to /\ ~Full /\ cursor' = ChunkTo + Resolution /\ UNCHANGED <<candles, span>>
      /\ HistoryTyped /\ InSpan' = InSpan /\ Regular' = Regular /\ HistoryTyped'
      /\ HistoryHasNoHole' /\ cursor \in Nat /\ cursor < cursor'
  BY PageMoves
<1>4. /\ InSpan \in SUBSET Times /\ PassedTimes \in SUBSET Times
      /\ byTime \in SUBSET InSpan /\ span.wanted \in Nat
      /\ Resolution \in Nat \ {0} /\ ChunkTo \in Nat /\ ChunkTo <= span.to
      /\ unread \in SUBSET candles /\ \A t \in unread : t < cursor
  BY <1>2, SpanTyped, PageEnds DEF HistoryInv
<1>5. unread' \in SUBSET candles' /\ \A t \in unread' : t < cursor'
  <2>1. \A t \in unread : t \in Nat /\ t < cursor  BY <1>2, <1>4 DEF HistoryTyped, Times
  <2>2. cursor' \in Nat  BY <1>2 DEF HistoryTyped
  <2>3. QED  BY <1>2, <1>4, <2>1, <2>2
<1> DEFINE more == {t \in answer : span.from <= t /\ t <= span.to} \ byTime
           page == {t \in InSpan : cursor <= t /\ t <= ChunkTo}
<1>6. /\ \A t \in answer : t \in candles
      /\ \A t \in answer : (cursor <= t /\ t <= ChunkTo) \/ (t < cursor /\ cursor < t + Resolution)
      /\ \A t \in candles : cursor <= t /\ t <= ChunkTo => t \in answer
  BY DEF Answers, Asked
<1>7. more \in SUBSET InSpan  BY <1>6 DEF InSpan
<1>8. /\ byTime' = byTime \cup Earliest(span.wanted - Cardinality(byTime), more)
      /\ byTime' \in SUBSET InSpan /\ Cardinality(byTime') <= span.wanted
  BY <1>2, <1>7, TakenIsBounded
<1>9. Regular => OnGrid' /\ byTime' = Earliest(span.wanted, ReadTimes')
  <2> SUFFICES ASSUME Regular  PROVE OnGrid' /\ byTime' = Earliest(span.wanted, ReadTimes')
    OBVIOUS
  <2>1. /\ OnGrid /\ byTime = Earliest(span.wanted, ReadTimes)
        /\ ReadTimes \in SUBSET Times
    BY <1>4 DEF HistoryInv, ReadTimes
  <2>2. Cardinality(byTime) \in Nat /\ Cardinality(byTime) < span.wanted
    <3>1. Cardinality(byTime) \in Nat  BY <1>4, TimesAreFinite
    <3>2. QED  BY <1>2, <1>4, <3>1 DEF Full
  <2>3. byTime = ReadTimes  BY <1>4, <2>1, <2>2, EarliestCount
  <2>4. ReadTimes' = ReadTimes \cup page /\ OnGrid'
    <3>1. PassedTimes' = PassedTimes \cup page /\ OnGrid'  BY <1>2, <2>1, PageIsComplete
    <3>2. page \cap unread = {}
      <4>1. \A t \in page : t \in Nat /\ cursor <= t  BY <1>4 DEF Times
      <4>2. QED  BY <1>2, <1>4, <4>1
    <3> HIDE DEF page
    <3>3. QED  BY <3>1, <3>2 DEF ReadTimes
  <2>5. more = page
    <3>1. ASSUME NEW t \in more  PROVE t \in page
      <4>1. t \in answer /\ t \in InSpan  BY <1>7
      <4>2. ~(t < cursor /\ cursor < t + Resolution)  BY <1>2, <2>1, <4>1, NothingBefore
      <4>3. QED  BY <1>6, <4>1, <4>2
    <3>2. ASSUME NEW t \in page  PROVE t \in more
      <4>1. t \in candles /\ span.from <= t /\ t <= span.to  BY DEF InSpan
      <4>2. t \in answer  BY <1>6, <4>1
      <4>3. t \in Nat /\ ~(t < cursor)  BY <1>2, <1>4 DEF Times
      <4>4. t \notin byTime  BY <2>3, <4>3 DEF ReadTimes, PassedTimes
      <4>5. QED  BY <4>1, <4>2, <4>4
    <3> HIDE DEF more, page
    <3>3. QED  BY <3>1, <3>2
  <2>6. \A s \in ReadTimes, t \in page : s < t
    <3>1. ASSUME NEW s \in ReadTimes, NEW t \in page  PROVE s < t
      <4>1. s \in Nat /\ t \in Nat /\ s < cursor /\ cursor <= t
        BY <1>4, <2>1 DEF Times, ReadTimes, PassedTimes
      <4>2. QED  BY <1>2, <4>1
    <3>2. QED  BY <3>1
  <2>7. page \in SUBSET Times  BY <1>4
  <2> HIDE DEF page
  <2>8. Earliest(span.wanted, ReadTimes \cup page)
          = ReadTimes \cup Earliest(span.wanted - Cardinality(ReadTimes), page)
    BY <1>4, <2>1, <2>2, <2>3, <2>6, <2>7, EarliestGrows
  <2>9. QED  BY <1>8, <2>3, <2>4, <2>5, <2>8
<1>11. QED  BY <1>2, <1>5, <1>8, <1>9 DEF HistoryInv

LEMMA FetchKeeps == HistoryInv /\ FetchChunk => HistoryInv'
<1> SUFFICES ASSUME HistoryInv, FetchChunk  PROVE HistoryInv'
  OBVIOUS
<1>1. \/ \E answer \in Answers : byTime' = Taken(answer) /\ UNCHANGED unread
      \/ unread' = unread \cup Asked /\ UNCHANGED byTime
  BY DEF FetchChunk
<1>2. QED  BY <1>1, ReadKeeps, UnreadKeeps

\* The candles that were had when there were enough, or when the last page was read, are the
\* earliest of those that were read in the span.
LEMMA ReturnKeeps == HistoryInv /\ ReturnHistory => HistoryInv'
<1> SUFFICES ASSUME HistoryInv, ReturnHistory  PROVE HistoryInv'
  OBVIOUS
<1>1. /\ UNCHANGED <<candles, span, cursor, byTime, unread>> /\ (cursor > span.to \/ Full)
      /\ history' = [ends |-> "returned", times |-> byTime,
                     truncated |-> Full /\ cursor <= span.to]
  BY DEF ReturnHistory
<1>2. /\ InSpan \in SUBSET Times /\ PassedTimes \in SUBSET Times /\ PassedTimes \in SUBSET InSpan
      /\ byTime \in SUBSET InSpan /\ span.wanted \in Nat /\ span.to \in Nat
      /\ cursor \in Nat /\ Cardinality(byTime) <= span.wanted
  BY SpanTyped DEF HistoryInv, HistoryTyped
<1>3. Cardinality(byTime) \in Nat  BY <1>2, TimesAreFinite
<1>4. Regular => byTime = Earliest(span.wanted, InSpan \ unread)
  <2> SUFFICES ASSUME Regular  PROVE byTime = Earliest(span.wanted, InSpan \ unread)
    OBVIOUS
  <2>1. byTime = Earliest(span.wanted, ReadTimes)  BY DEF HistoryInv
  <2>2. CASE cursor > span.to
    <3>1. \A t \in InSpan : t \in Nat /\ t <= span.to  BY <1>2 DEF InSpan, Times
    <3>2. \A t \in InSpan : t < cursor  BY <1>2, <2>2, <3>1
    <3>3. PassedTimes = InSpan  BY <3>2 DEF PassedTimes
    <3>4. QED  BY <2>1, <3>3 DEF ReadTimes
  <2>3. CASE Full
    <3> DEFINE rest == (InSpan \ PassedTimes) \ unread
    <3>1. /\ rest \in SUBSET Times /\ ReadTimes \in SUBSET Times
          /\ InSpan \ unread = ReadTimes \cup rest
      BY <1>2 DEF ReadTimes
    <3>2. ASSUME NEW s \in ReadTimes, NEW t \in rest  PROVE s < t
      <4>1. s \in Nat /\ t \in Nat  BY <1>2, <3>1 DEF Times
      <4>2. s < cursor /\ ~(t < cursor)  BY DEF PassedTimes, ReadTimes
      <4>3. QED  BY <1>2, <4>1, <4>2
    <3>3. ~(Cardinality(Earliest(span.wanted, ReadTimes)) < span.wanted)
      BY <1>2, <1>3, <2>1, <2>3 DEF Full
    <3> HIDE DEF rest
    <3>4. Earliest(span.wanted, ReadTimes \cup rest) = Earliest(span.wanted, ReadTimes)
      BY <1>2, <3>1, <3>2, <3>3, EarliestStays
    <3>5. QED  BY <2>1, <3>1, <3>4
  <2>4. QED  BY <1>1, <2>2, <2>3
<1>5. Full => Cardinality(byTime) = span.wanted  BY <1>2, <1>3 DEF Full
<1>6. /\ InSpan' = InSpan /\ PassedTimes' = PassedTimes /\ Regular' = Regular /\ OnGrid' = OnGrid
      /\ HistoryTyped' /\ ReadTimes' = ReadTimes
  BY <1>1 DEF InSpan, PassedTimes, ReadTimes, Regular, OnePage, OnGrid, HistoryInv, HistoryTyped
<1>7. HistoryHasNoHole'
  <2>1. history'.times = byTime /\ (history'.truncated => Full)  BY <1>1
  <2>2. /\ Regular' => history'.times = Earliest(span'.wanted, InSpan' \ unread')
        /\ history'.times \subseteq InSpan'
        /\ history'.truncated => Cardinality(history'.times) = span'.wanted
    BY <1>1, <1>2, <1>4, <1>5, <1>6, <2>1
  <2>3. QED  BY <2>2 DEF HistoryHasNoHole, InSpan, Regular
<1>8. QED  BY <1>1, <1>6, <1>7 DEF HistoryInv

LEMMA HistoryBegins == HistoryInit => HistoryInv
<1> SUFFICES ASSUME HistoryInit  PROVE HistoryInv
  OBVIOUS
<1>1. HistoryTyped  BY HistoryAssumption DEF HistoryInit, HistoryTyped, Times
<1>2. byTime = {} /\ unread = {} /\ cursor = span.from  BY DEF HistoryInit
<1>3. Cardinality(byTime) = 0 /\ span.wanted \in Nat \ {0}
  BY <1>1, <1>2, FS_EmptySet, SpanTyped
<1>4. PassedTimes = {}
  <2>1. \A t \in InSpan : t \in Nat /\ span.from \in Nat /\ span.from <= t
    BY <1>1, SpanTyped DEF InSpan, Times
  <2>2. \A t \in InSpan : ~(t < cursor)  BY <1>2, <2>1
  <2>3. QED  BY <2>2 DEF PassedTimes
<1>5. Earliest(span.wanted, ReadTimes) = {}  BY <1>4 DEF Earliest, ReadTimes
<1>6. Regular => OnGrid  BY <1>2 DEF Regular, OnGrid
<1>7. HistoryHasNoHole  BY DEF HistoryInit, HistoryHasNoHole, Asking
<1>8. Cardinality(byTime) <= span.wanted  BY <1>3
<1>9. QED  BY <1>1, <1>2, <1>5, <1>6, <1>7, <1>8 DEF HistoryInv

LEMMA HistoryKept == HistoryInv /\ [HistoryNext]_historyVars => HistoryInv'
<1> SUFFICES ASSUME HistoryInv, [HistoryNext]_historyVars  PROVE HistoryInv'
  OBVIOUS
<1>1. CASE FetchChunk  BY <1>1, FetchKeeps
<1>2. CASE ReturnHistory  BY <1>2, ReturnKeeps
<1>3. CASE FetchThrows
  <2>1. UNCHANGED <<candles, span, cursor, byTime, unread>> /\ history'.ends = "thrown"
    BY <1>3 DEF FetchThrows, Asking
  <2>2. QED
    BY <2>1 DEF HistoryInv, HistoryTyped, InSpan, PassedTimes, ReadTimes, Regular, OnePage,
                OnGrid, HistoryHasNoHole
<1>4. CASE UNCHANGED historyVars
  BY <1>4 DEF historyVars, HistoryInv, HistoryTyped, InSpan, PassedTimes, ReadTimes, Regular, OnePage,
              OnGrid, HistoryHasNoHole
<1>5. QED  BY <1>1, <1>2, <1>3, <1>4 DEF HistoryNext

\* A history is the earliest candles of its span, without a hole but the pages of an unknown
\* shape, however the pages fall and whatever candles the market has (marketData.js:92-187).
THEOREM NoHoles == HistorySpec => []HistoryHasNoHole
<1>1. HistorySpec => []HistoryInv  BY HistoryBegins, HistoryKept, PTL DEF HistorySpec
<1>2. HistoryInv => HistoryHasNoHole  BY DEF HistoryInv
<1>3. QED  BY <1>1, <1>2, PTL

--------------------------------------------------------------------------------
(***************************************************************************)
(* The scalp engine, for any windows, facts and biases.  A setup has come  *)
(* to its state in time (Fits), the stages of one candle only move it on   *)
(* (Onward), and a setup that a stage has still to count was counted by    *)
(* the one before it (Pending), so that the funnel narrows.                *)
(***************************************************************************)

Setups == [side : Sides \cup {""}, state : SetupStates, sweep : Int, choch : Int,
           pullback : Int, first : Int, disp : Int, fvg : Int]

\* What each state has seen of its setup, and how long after the sweep it can have been.
Seen(s) ==
  /\ s \in Setups
  /\ s.state = "" => s = NoSetup
  /\ s.state \in {"WAIT_PULLBACK", "WAIT_BOS"} =>
       s.choch \in Nat /\ s.sweep <= s.choch + ChochWindow
  /\ s.state = "WAIT_DISP2" => s.first \in Nat /\ s.sweep <= s.first + ChochWindow + BosWindow
  /\ s.state = "WAIT_FVG" => s.disp \in Nat /\ s.sweep <= s.disp + ChochWindow + BosWindow + 1
  /\ s.state = "WAIT_RETEST" =>
       s.fvg \in Nat /\ s.sweep <= s.fvg + ChochWindow + BosWindow + 1 + GapWindow

\* No state waits longer than its window, when the stages of this candle are done up to
\* one: the others have a candle more.
Left(stage, done) == IF stage <= done THEN 0 ELSE 1

InTime(s, done) ==
  /\ s.state = "WAIT_CH" => s.sweep <= ChochWindow + Left(1, done)
  /\ s.state = "WAIT_PULLBACK" => s.choch <= BosWindow + Left(2, done)
  /\ s.state = "WAIT_BOS" => s.choch <= BosWindow + Left(3, done)
  /\ s.state = "WAIT_DISP2" => s.first <= Left(4, done)
  /\ s.state = "WAIT_FVG" => s.disp <= GapWindow + Left(5, done)
  /\ s.state = "WAIT_RETEST" => s.fvg <= RetestWindow + Left(6, done)

Fits(s, done) == Seen(s) /\ InTime(s, done)

\* b comes of a in one candle: it is over, or it is further; what it found of a gap in this
\* candle is new.
Onward(a, b) ==
  \/ b = NoSetup
  \/ /\ a # NoSetup /\ Rank(a.state) <= Rank(b.state)
     /\ b.state = "WAIT_RETEST" /\ b.fvg # 0 => a = b

LEMMA Windows ==
  /\ ChochWindow \in Nat /\ BosWindow \in Nat /\ GapWindow \in Nat /\ RetestWindow \in Nat
BY WindowsAssumption

LEMMA NoSetupFits ==
  /\ NoSetup \in Setups /\ NoSetup.state = "" /\ NoSetup.sweep = -1
  /\ \A done : Fits(NoSetup, done)
<1>1. NoSetup \in Setups /\ NoSetup.state = "" /\ NoSetup.sweep = -1
  BY DEF NoSetup, Setups, SetupStates, None
<1>2. QED  BY <1>1 DEF Fits, Seen, InTime

LEMMA IsSetup ==
  ASSUME NEW s, s.state # ""
  PROVE  s # NoSetup
<1>1. NoSetup.state = ""  BY DEF NoSetup
<1>2. QED  BY <1>1

LEMMA Ranks ==
  /\ Rank("") = 1 /\ Rank("WAIT_CH") = 1 /\ Rank("WAIT_PULLBACK") = 2 /\ Rank("WAIT_BOS") = 2
  /\ Rank("WAIT_DISP2") = 3 /\ Rank("WAIT_FVG") = 4 /\ Rank("WAIT_RETEST") = 5
BY DEF Rank

LEMMA RankRange ==
  ASSUME NEW st
  PROVE  Rank(st) \in 1..5 /\ Rank(st) \in Int
BY DEF Rank

LEMMA NextInTime ==
  ASSUME NEW s, NEW n \in 0..5, InTime(s, n),
         n = 0 /\ s.state = "WAIT_CH" => s.sweep <= ChochWindow,
         n = 1 /\ s.state = "WAIT_PULLBACK" => s.choch <= BosWindow,
         n = 2 /\ s.state = "WAIT_BOS" => s.choch <= BosWindow,
         n = 3 /\ s.state = "WAIT_DISP2" => s.first <= 0,
         n = 4 /\ s.state = "WAIT_FVG" => s.disp <= GapWindow,
         n = 5 /\ s.state = "WAIT_RETEST" => s.fvg <= RetestWindow
  PROVE  InTime(s, n + 1)
<1>1. \A w \in Nat : w + 0 = w  OBVIOUS
<1>2. \A k \in 1..6 : IF k = n + 1 THEN Left(k, n + 1) = 0 ELSE Left(k, n + 1) = Left(k, n)
  BY DEF Left
<1>3. /\ n # 0 => Left(1, n + 1) = Left(1, n)
      /\ n # 1 => Left(2, n + 1) = Left(2, n)
      /\ n # 2 => Left(3, n + 1) = Left(3, n)
      /\ n # 3 => Left(4, n + 1) = Left(4, n)
      /\ n # 4 => Left(5, n + 1) = Left(5, n)
      /\ n # 5 => Left(6, n + 1) = Left(6, n)
  BY <1>2
<1>4. /\ n = 0 => Left(1, n + 1) = 0
      /\ n = 1 => Left(2, n + 1) = 0
      /\ n = 2 => Left(3, n + 1) = 0
      /\ n = 3 => Left(4, n + 1) = 0
      /\ n = 4 => Left(5, n + 1) = 0
      /\ n = 5 => Left(6, n + 1) = 0
  BY <1>2
<1>5. QED  BY <1>1, <1>3, <1>4, Windows DEF InTime

\* The setup that has come to a state of which it has just seen what it starts from.
LEMMA StartsInTime ==
  ASSUME NEW s, NEW done \in 0..6, s.state \notin {"WAIT_CH", "WAIT_BOS"},
         s.state = "WAIT_PULLBACK" => s.choch = 0,
         s.state = "WAIT_DISP2" => s.first = 0,
         s.state = "WAIT_FVG" => s.disp = 0,
         s.state = "WAIT_RETEST" => s.fvg = 0
  PROVE  InTime(s, done)
<1>1. \A k \in 1..6 : Left(k, done) \in {0, 1}  BY DEF Left
<1>2. QED  BY <1>1, Windows DEF InTime

LEMMA SetupFields ==
  ASSUME NEW s \in Setups
  PROVE  /\ s.state \in SetupStates /\ s.sweep \in Int /\ s.choch \in Int
         /\ s.first \in Int /\ s.disp \in Int /\ s.fvg \in Int
BY DEF Setups

\* A setup with another state and one more thing seen.
LEMMA Moved ==
  ASSUME NEW s \in Setups, NEW st \in SetupStates
  PROVE  /\ LET t == [s EXCEPT !.state = st, !.choch = 0]
            IN t \in Setups /\ t.state = st /\ t.choch = 0 /\ t.sweep = s.sweep
         /\ LET t == [s EXCEPT !.state = st, !.pullback = 0]
            IN t \in Setups /\ t.state = st /\ t.choch = s.choch /\ t.sweep = s.sweep
         /\ LET t == [s EXCEPT !.state = st, !.first = 0]
            IN t \in Setups /\ t.state = st /\ t.first = 0 /\ t.sweep = s.sweep
         /\ LET t == [s EXCEPT !.state = st, !.disp = 0]
            IN t \in Setups /\ t.state = st /\ t.disp = 0 /\ t.sweep = s.sweep
         /\ LET t == [s EXCEPT !.state = st, !.fvg = 0]
            IN t \in Setups /\ t.state = st /\ t.fvg = 0 /\ t.sweep = s.sweep
<1>1. PICK z \in Int : z = 0  OBVIOUS
<1>2. /\ LET t == [s EXCEPT !.state = st, !.choch = z]
         IN t \in Setups /\ t.state = st /\ t.choch = z /\ t.sweep = s.sweep
      /\ LET t == [s EXCEPT !.state = st, !.pullback = z]
         IN t \in Setups /\ t.state = st /\ t.choch = s.choch /\ t.sweep = s.sweep
      /\ LET t == [s EXCEPT !.state = st, !.first = z]
         IN t \in Setups /\ t.state = st /\ t.first = z /\ t.sweep = s.sweep
      /\ LET t == [s EXCEPT !.state = st, !.disp = z]
         IN t \in Setups /\ t.state = st /\ t.disp = z /\ t.sweep = s.sweep
      /\ LET t == [s EXCEPT !.state = st, !.fvg = z]
         IN t \in Setups /\ t.state = st /\ t.fvg = z /\ t.sweep = s.sweep
  BY DEF Setups
<1>3. QED  BY <1>1, <1>2

LEMMA OnwardStays ==
  ASSUME NEW s
  PROVE  Onward(s, s) /\ Onward(s, NoSetup)
<1>1. Rank(s.state) <= Rank(s.state)
  <2>1. Rank(s.state) \in Int  BY RankRange
  <2>2. QED  BY <2>1
<1>2. QED  BY <1>1 DEF Onward

LEMMA OnwardOnward ==
  ASSUME NEW a, NEW b, NEW c, Onward(a, b), Onward(b, c)
  PROVE  Onward(a, c)
<1>1. Rank(a.state) \in Int /\ Rank(b.state) \in Int /\ Rank(c.state) \in Int
  BY RankRange
<1>2. Rank(a.state) <= Rank(b.state) /\ Rank(b.state) <= Rank(c.state)
        => Rank(a.state) <= Rank(c.state)
  BY <1>1
<1>3. QED  BY <1>2 DEF Onward

\* A setup that a stage moves on.
LEMMA MovesOn ==
  ASSUME NEW s, NEW t, s # NoSetup, Rank(s.state) <= Rank(t.state),
         t.state = "WAIT_RETEST" => t.fvg = 0
  PROVE  Onward(s, t)
BY DEF Onward

\* A candle older.
LEMMA OlderNumber ==
  ASSUME NEW n \in Int
  PROVE  Older(n) \in Int /\ Older(n) <= n + 1 /\ (n \in Nat => Older(n) = n + 1)
BY DEF Older, None

LEMMA AgedFields ==
  ASSUME NEW s \in Setups
  PROVE  /\ Aged(s) \in Setups /\ Aged(s).state = s.state /\ Aged(s).side = s.side
         /\ Aged(s).sweep = Older(s.sweep) /\ Aged(s).choch = Older(s.choch)
         /\ Aged(s).first = Older(s.first) /\ Aged(s).disp = Older(s.disp)
         /\ Aged(s).fvg = Older(s.fvg)
<1> DEFINE a == Older(s.sweep)
           b == Older(s.choch)
           c == Older(s.pullback)
           d == Older(s.first)
           e == Older(s.disp)
           g == Older(s.fvg)
<1>1. a \in Int /\ b \in Int /\ c \in Int /\ d \in Int /\ e \in Int /\ g \in Int
  <2>1. /\ s.sweep \in Int /\ s.choch \in Int /\ s.pullback \in Int /\ s.first \in Int
        /\ s.disp \in Int /\ s.fvg \in Int
    BY DEF Setups
  <2>2. QED  BY <2>1, OlderNumber
<1>2. Aged(s) = [s EXCEPT !.sweep = a, !.choch = b, !.pullback = c, !.first = d, !.disp = e,
                          !.fvg = g]
  BY DEF Aged
<1> HIDE DEF a, b, c, d, e, g
<1>3. QED  BY <1>1, <1>2 DEF Setups, a, b, d, e, g

LEMMA AgedFits ==
  ASSUME NEW s, Fits(s, 6)
  PROVE  Fits(Aged(s), 0) /\ Aged(s).state = s.state /\ (s = NoSetup => Aged(s) = NoSetup)
         /\ (s # NoSetup => Aged(s) # NoSetup)
<1>1. s \in Setups /\ (s.state = "" => s = NoSetup)  BY DEF Fits, Seen
<1>2. /\ Aged(s) \in Setups /\ Aged(s).state = s.state
      /\ Aged(s).sweep = Older(s.sweep) /\ Aged(s).choch = Older(s.choch)
      /\ Aged(s).first = Older(s.first) /\ Aged(s).disp = Older(s.disp)
      /\ Aged(s).fvg = Older(s.fvg)
  BY <1>1, AgedFields
<1>3. s = NoSetup => Aged(s) = NoSetup
  <2>1. Aged(NoSetup) = NoSetup  BY DEF Aged, NoSetup, Older, None
  <2>2. QED  BY <2>1
<1>4. /\ s.sweep \in Int /\ s.choch \in Int /\ s.first \in Int /\ s.disp \in Int
      /\ s.fvg \in Int
  BY <1>1 DEF Setups
<1>5. Older(s.sweep) \in Int /\ Older(s.sweep) <= s.sweep + 1  BY <1>4, OlderNumber
<1>6. /\ s.choch \in Nat => Older(s.choch) = s.choch + 1
      /\ s.first \in Nat => Older(s.first) = s.first + 1
      /\ s.disp \in Nat => Older(s.disp) = s.disp + 1
      /\ s.fvg \in Nat => Older(s.fvg) = s.fvg + 1
  BY <1>4, OlderNumber
<1> DEFINE t == Aged(s)
<1>7. /\ t \in Setups /\ t.state = s.state /\ t.sweep \in Int /\ t.sweep <= s.sweep + 1
      /\ s.choch \in Nat => t.choch = s.choch + 1
      /\ s.first \in Nat => t.first = s.first + 1
      /\ s.disp \in Nat => t.disp = s.disp + 1
      /\ s.fvg \in Nat => t.fvg = s.fvg + 1
  BY <1>2, <1>5, <1>6
<1> HIDE DEF t
<1>8. t.state = "" => t = NoSetup  BY <1>1, <1>3, <1>7 DEF t
<1>9. Seen(s) /\ InTime(s, 6)  BY DEF Fits
<1>10. Seen(t)
  <2>1. s.state \in {"WAIT_PULLBACK", "WAIT_BOS"} =>
          t.choch \in Nat /\ t.sweep <= t.choch + ChochWindow
    <3>1. ASSUME s.state \in {"WAIT_PULLBACK", "WAIT_BOS"}
          PROVE  s.choch \in Nat /\ t.choch = s.choch + 1 /\ s.sweep <= s.choch + ChochWindow
      BY <3>1, <1>7, <1>9 DEF Seen
    <3>2. QED  BY <1>4, <1>7, <3>1, Windows
  <2>2. s.state = "WAIT_DISP2" => t.first \in Nat /\ t.sweep <= t.first + ChochWindow + BosWindow
    BY <1>4, <1>7, <1>9, Windows DEF Seen
  <2>3. s.state = "WAIT_FVG" => t.disp \in Nat /\ t.sweep <= t.disp + ChochWindow + BosWindow + 1
    BY <1>4, <1>7, <1>9, Windows DEF Seen
  <2>4. s.state = "WAIT_RETEST" =>
          t.fvg \in Nat /\ t.sweep <= t.fvg + ChochWindow + BosWindow + 1 + GapWindow
    <3>1. ASSUME s.state = "WAIT_RETEST"  PROVE s.fvg \in Nat /\ t.fvg = s.fvg + 1
      BY <3>1, <1>7, <1>9 DEF Seen
    <3>2. s.state = "WAIT_RETEST" =>
            s.sweep <= s.fvg + ChochWindow + BosWindow + 1 + GapWindow
      BY <1>9 DEF Seen
    <3>3. QED  BY <1>4, <1>7, <3>1, <3>2, Windows
  <2>5. QED  BY <1>7, <1>8, <2>1, <2>2, <2>3, <2>4 DEF Seen
<1>11. InTime(t, 0)
  <2>1. \A k \in 1..6 : Left(k, 6) = 0 /\ Left(k, 0) = 1  BY DEF Left
  <2>2. /\ Left(1, 6) = 0 /\ Left(2, 6) = 0 /\ Left(3, 6) = 0 /\ Left(4, 6) = 0
        /\ Left(5, 6) = 0 /\ Left(6, 6) = 0 /\ Left(1, 0) = 1 /\ Left(2, 0) = 1
        /\ Left(3, 0) = 1 /\ Left(4, 0) = 1 /\ Left(5, 0) = 1 /\ Left(6, 0) = 1
    BY <2>1
  <2>3. s.state = "WAIT_CH" => t.sweep <= ChochWindow + 1
    BY <1>4, <1>7, <1>9, <2>2, Windows DEF InTime
  <2>4. s.state = "WAIT_PULLBACK" => t.choch <= BosWindow + 1
    BY <1>4, <1>7, <1>9, <2>2, Windows DEF InTime, Seen
  <2>5. s.state = "WAIT_BOS" => t.choch <= BosWindow + 1
    BY <1>4, <1>7, <1>9, <2>2, Windows DEF InTime, Seen
  <2>6. s.state = "WAIT_DISP2" => t.first <= 1
    BY <1>4, <1>7, <1>9, <2>2, Windows DEF InTime, Seen
  <2>7. s.state = "WAIT_FVG" => t.disp <= GapWindow + 1
    BY <1>4, <1>7, <1>9, <2>2, Windows DEF InTime, Seen
  <2>8. s.state = "WAIT_RETEST" => t.fvg <= RetestWindow + 1
    BY <1>4, <1>7, <1>9, <2>2, Windows DEF InTime, Seen
  <2>9. QED  BY <1>7, <2>2, <2>3, <2>4, <2>5, <2>6, <2>7, <2>8 DEF InTime
<1>12. Fits(t, 0)  BY <1>10, <1>11 DEF Fits
<1>13. s # NoSetup => t # NoSetup
  <2>1. NoSetup.state = ""  BY DEF NoSetup
  <2>2. QED  BY <1>1, <1>7, <2>1
<1>14. QED  BY <1>3, <1>7, <1>12, <1>13 DEF t

LEMMA InvalidatedFits ==
  ASSUME NEW s, NEW f, Fits(s, 0)
  PROVE  Fits(Invalidated(s, f), 0) /\ Onward(s, Invalidated(s, f))
BY NoSetupFits, OnwardStays DEF Invalidated

LEMMA ChochFits ==
  ASSUME NEW s, NEW f, Fits(s, 0)
  PROVE  Fits(AwaitChoch(s, f), 1) /\ Onward(s, AwaitChoch(s, f))
<1>1. s \in Setups /\ Seen(s) /\ InTime(s, 0)  BY DEF Fits, Seen
<1>2. /\ s.sweep \in Int /\ s.choch \in Int /\ s.first \in Int /\ s.disp \in Int
      /\ s.fvg \in Int
  BY <1>1, SetupFields
<1>3. CASE AwaitChoch(s, f) = NoSetup  BY <1>3, NoSetupFits, OnwardStays
<1>4. CASE AwaitChoch(s, f) # NoSetup /\ AwaitChoch(s, f) = s
  <2>1. s.state = "WAIT_CH" => s.sweep <= ChochWindow
    <3>1. ~(s.state = "WAIT_CH" /\ s.sweep > ChochWindow)  BY <1>4 DEF AwaitChoch
    <3>2. QED  BY <1>2, <3>1, Windows
  <2>2. InTime(s, 0 + 1)  BY <1>1, <2>1, NextInTime
  <2>3. Fits(s, 1)  BY <1>1, <2>2 DEF Fits
  <2>4. QED  BY <1>4, <2>3, OnwardStays
<1>5. CASE AwaitChoch(s, f) \notin {s, NoSetup}
  <2> DEFINE t == [s EXCEPT !.state = "WAIT_PULLBACK", !.choch = 0]
  <2>1. AwaitChoch(s, f) = t /\ s.state = "WAIT_CH" /\ s.sweep <= ChochWindow
    <3>1. AwaitChoch(s, f) = t /\ s.state = "WAIT_CH" /\ ~(s.sweep > ChochWindow)
      BY <1>5 DEF AwaitChoch
    <3>2. QED  BY <1>2, <3>1, Windows
  <2>2. "WAIT_PULLBACK" \in SetupStates  BY DEF SetupStates
  <2>3. t \in Setups /\ t.state = "WAIT_PULLBACK" /\ t.sweep = s.sweep /\ t.choch = 0
    BY <1>1, <2>2, Moved
  <2> HIDE DEF t
  <2>4. s.sweep <= 0 + ChochWindow
    BY <1>1, <1>2, <2>1, Windows DEF Seen, InTime
  <2>5. Seen(t)  BY <1>2, <2>3, <2>4, Windows DEF Seen
  <2>6. InTime(t, 1)  BY <2>3, StartsInTime
  <2>7. Rank(s.state) = 1 /\ Rank(t.state) = 2  BY <2>1, <2>3, Ranks
  <2>8. s.state # "" /\ Rank(s.state) <= Rank(t.state)
        /\ (t.state = "WAIT_RETEST" => t.fvg = 0)
    BY <2>1, <2>3, <2>7
  <2>9. Onward(s, t)  BY <2>8, IsSetup, MovesOn
  <2>10. QED  BY <2>1, <2>5, <2>6, <2>9 DEF Fits
<1>6. QED  BY <1>3, <1>4, <1>5

LEMMA PullbackFits ==
  ASSUME NEW s, NEW f, Fits(s, 1)
  PROVE  Fits(AwaitPullback(s, f), 2) /\ Onward(s, AwaitPullback(s, f))
<1>1. s \in Setups /\ Seen(s) /\ InTime(s, 1)  BY DEF Fits, Seen
<1>2. /\ s.sweep \in Int /\ s.choch \in Int /\ s.first \in Int /\ s.disp \in Int
      /\ s.fvg \in Int
  BY <1>1, SetupFields
<1>3. CASE AwaitPullback(s, f) = NoSetup  BY <1>3, NoSetupFits, OnwardStays
<1>4. CASE AwaitPullback(s, f) # NoSetup /\ AwaitPullback(s, f) = s
  <2>1. s.state = "WAIT_PULLBACK" => s.choch <= BosWindow
    <3>1. ~(s.state = "WAIT_PULLBACK" /\ s.choch > BosWindow)  BY <1>4 DEF AwaitPullback
    <3>2. QED  BY <1>2, <3>1, Windows
  <2>2. InTime(s, 1 + 1)  BY <1>1, <2>1, NextInTime
  <2>3. Fits(s, 2)  BY <1>1, <2>2 DEF Fits
  <2>4. QED  BY <1>4, <2>3, OnwardStays
<1>5. CASE AwaitPullback(s, f) \notin {s, NoSetup}
  <2> DEFINE t == [s EXCEPT !.state = "WAIT_BOS", !.pullback = 0]
  <2>1. AwaitPullback(s, f) = t /\ s.state = "WAIT_PULLBACK" /\ s.choch <= BosWindow
    <3>1. AwaitPullback(s, f) = t /\ s.state = "WAIT_PULLBACK" /\ ~(s.choch > BosWindow)
      BY <1>5 DEF AwaitPullback
    <3>2. QED  BY <1>2, <3>1, Windows
  <2>2. "WAIT_BOS" \in SetupStates  BY DEF SetupStates
  <2>3. t \in Setups /\ t.state = "WAIT_BOS" /\ t.sweep = s.sweep /\ t.choch = s.choch
    BY <1>1, <2>2, Moved
  <2> HIDE DEF t
  <2>4. s.choch \in Nat /\ s.sweep <= s.choch + ChochWindow
    BY <1>1, <1>2, <2>1, Windows DEF Seen, InTime
  <2>5. Seen(t)  BY <1>2, <2>3, <2>4, Windows DEF Seen
  <2>6. InTime(t, 2)
    <3>1. Left(3, 2) = 1  BY DEF Left
    <3>2. QED  BY <1>2, <2>1, <2>3, <3>1, Windows DEF InTime
  <2>7. Rank(s.state) = 2 /\ Rank(t.state) = 2  BY <2>1, <2>3, Ranks
  <2>8. s.state # "" /\ Rank(s.state) <= Rank(t.state)
        /\ (t.state = "WAIT_RETEST" => t.fvg = 0)
    BY <2>1, <2>3, <2>7
  <2>9. Onward(s, t)  BY <2>8, IsSetup, MovesOn
  <2>10. QED  BY <2>1, <2>5, <2>6, <2>9 DEF Fits
<1>6. QED  BY <1>3, <1>4, <1>5

LEMMA BosFits ==
  ASSUME NEW s, NEW f, Fits(s, 2)
  PROVE  Fits(AwaitBos(s, f), 3) /\ Onward(s, AwaitBos(s, f))
<1>1. s \in Setups /\ Seen(s) /\ InTime(s, 2)  BY DEF Fits, Seen
<1>2. /\ s.sweep \in Int /\ s.choch \in Int /\ s.first \in Int /\ s.disp \in Int
      /\ s.fvg \in Int
  BY <1>1, SetupFields
<1>3. CASE AwaitBos(s, f) = NoSetup  BY <1>3, NoSetupFits, OnwardStays
<1>4. CASE AwaitBos(s, f) # NoSetup /\ AwaitBos(s, f) = s
  <2>1. s.state = "WAIT_BOS" => s.choch <= BosWindow
    <3>1. ~(s.state = "WAIT_BOS" /\ s.choch > BosWindow)  BY <1>4 DEF AwaitBos
    <3>2. QED  BY <1>2, <3>1, Windows
  <2>2. InTime(s, 2 + 1)  BY <1>1, <2>1, NextInTime
  <2>3. Fits(s, 3)  BY <1>1, <2>2 DEF Fits
  <2>4. QED  BY <1>4, <2>3, OnwardStays
<1>5. CASE AwaitBos(s, f) \notin {s, NoSetup}
  <2> DEFINE u == [s EXCEPT !.state = "WAIT_FVG", !.disp = 0]
             v == [s EXCEPT !.state = "WAIT_DISP2", !.first = 0]
  <2>1. AwaitBos(s, f) \in {u, v} /\ s.state = "WAIT_BOS" /\ s.choch <= BosWindow
    <3>1. AwaitBos(s, f) \in {u, v} /\ s.state = "WAIT_BOS" /\ ~(s.choch > BosWindow)
      BY <1>5 DEF AwaitBos, Displaced
    <3>2. QED  BY <1>2, <3>1, Windows
  <2>2. "WAIT_FVG" \in SetupStates /\ "WAIT_DISP2" \in SetupStates  BY DEF SetupStates
  <2>3. u \in Setups /\ u.state = "WAIT_FVG" /\ u.sweep = s.sweep /\ u.disp = 0
    BY <1>1, <2>2, Moved
  <2>4. v \in Setups /\ v.state = "WAIT_DISP2" /\ v.sweep = s.sweep /\ v.first = 0
    BY <1>1, <2>2, Moved
  <2> HIDE DEF u, v
  <2>5. s.sweep <= 0 + ChochWindow + BosWindow
    <3>1. s.choch \in Nat /\ s.sweep <= s.choch + ChochWindow  BY <1>1, <2>1 DEF Seen
    <3>2. QED  BY <1>2, <2>1, <3>1, Windows
  <2>6. Seen(u) /\ Seen(v)
    <3>1. Seen(u)  BY <1>2, <2>3, <2>5, Windows DEF Seen
    <3>2. Seen(v)  BY <1>2, <2>4, <2>5, Windows DEF Seen
    <3>3. QED  BY <3>1, <3>2
  <2>7. InTime(u, 3) /\ InTime(v, 3)  BY <2>3, <2>4, StartsInTime
  <2>8. Rank(s.state) = 2 /\ Rank(u.state) = 4 /\ Rank(v.state) = 3
    BY <2>1, <2>3, <2>4, Ranks
  <2>9. /\ s.state # "" /\ Rank(s.state) <= Rank(u.state) /\ Rank(s.state) <= Rank(v.state)
        /\ u.state # "WAIT_RETEST" /\ v.state # "WAIT_RETEST"
    BY <2>1, <2>3, <2>4, <2>8
  <2>10. Onward(s, u) /\ Onward(s, v)  BY <2>9, IsSetup, MovesOn
  <2>11. QED  BY <2>1, <2>6, <2>7, <2>10 DEF Fits
<1>6. QED  BY <1>3, <1>4, <1>5

LEMMA SecondFits ==
  ASSUME NEW s, NEW f, Fits(s, 3)
  PROVE  Fits(AwaitSecond(s, f), 4) /\ Onward(s, AwaitSecond(s, f))
<1>1. s \in Setups /\ Seen(s) /\ InTime(s, 3)  BY DEF Fits, Seen
<1>2. /\ s.sweep \in Int /\ s.choch \in Int /\ s.first \in Int /\ s.disp \in Int
      /\ s.fvg \in Int
  BY <1>1, SetupFields
<1>3. CASE AwaitSecond(s, f) = NoSetup  BY <1>3, NoSetupFits, OnwardStays
<1>4. CASE AwaitSecond(s, f) # NoSetup /\ AwaitSecond(s, f) = s
  <2>1. s.state = "WAIT_DISP2" => s.first <= 0
    <3>1. ASSUME s.state = "WAIT_DISP2", s.first # 0  PROVE FALSE
      <4>1. AwaitSecond(s, f) = Displaced(s)  BY <1>4, <3>1 DEF AwaitSecond
      <4>2. "WAIT_FVG" \in SetupStates  BY DEF SetupStates
      <4>3. Displaced(s).state = "WAIT_FVG"  BY <1>1, <4>2, Moved DEF Displaced
      <4>4. QED  BY <1>4, <3>1, <4>1, <4>3
    <3>2. QED  BY <3>1
  <2>2. InTime(s, 3 + 1)  BY <1>1, <2>1, NextInTime
  <2>3. Fits(s, 4)  BY <1>1, <2>2 DEF Fits
  <2>4. QED  BY <1>4, <2>3, OnwardStays
<1>5. CASE AwaitSecond(s, f) \notin {s, NoSetup}
  <2> DEFINE t == [s EXCEPT !.state = "WAIT_FVG", !.disp = 0]
  <2>1. AwaitSecond(s, f) = t /\ s.state = "WAIT_DISP2" /\ s.first = 1
    BY <1>2, <1>5, Windows DEF AwaitSecond, Displaced
  <2>2. "WAIT_FVG" \in SetupStates  BY DEF SetupStates
  <2>3. t \in Setups /\ t.state = "WAIT_FVG" /\ t.sweep = s.sweep /\ t.disp = 0
    BY <1>1, <2>2, Moved
  <2> HIDE DEF t
  <2>4. s.sweep <= 1 + ChochWindow + BosWindow
    BY <1>1, <1>2, <2>1, Windows DEF Seen, InTime
  <2>5. Seen(t)  BY <1>2, <2>3, <2>4, Windows DEF Seen
  <2>6. InTime(t, 4)  BY <2>3, StartsInTime
  <2>7. Rank(s.state) = 3 /\ Rank(t.state) = 4  BY <2>1, <2>3, Ranks
  <2>8. s.state # "" /\ Rank(s.state) <= Rank(t.state)
        /\ (t.state = "WAIT_RETEST" => t.fvg = 0)
    BY <2>1, <2>3, <2>7
  <2>9. Onward(s, t)  BY <2>8, IsSetup, MovesOn
  <2>10. QED  BY <2>1, <2>5, <2>6, <2>9 DEF Fits
<1>6. QED  BY <1>3, <1>4, <1>5

LEMMA GapFits ==
  ASSUME NEW s, NEW f, Fits(s, 4)
  PROVE  Fits(AwaitGap(s, f), 5) /\ Onward(s, AwaitGap(s, f))
<1>1. s \in Setups /\ Seen(s) /\ InTime(s, 4)  BY DEF Fits, Seen
<1>2. /\ s.sweep \in Int /\ s.choch \in Int /\ s.first \in Int /\ s.disp \in Int
      /\ s.fvg \in Int
  BY <1>1, SetupFields
<1>3. CASE AwaitGap(s, f) = NoSetup  BY <1>3, NoSetupFits, OnwardStays
<1>4. CASE AwaitGap(s, f) # NoSetup /\ AwaitGap(s, f) = s
  <2>1. s.state = "WAIT_FVG" => s.disp <= GapWindow
    <3>1. ~(s.state = "WAIT_FVG" /\ s.disp > GapWindow)  BY <1>4 DEF AwaitGap
    <3>2. QED  BY <1>2, <3>1, Windows
  <2>2. InTime(s, 4 + 1)  BY <1>1, <2>1, NextInTime
  <2>3. Fits(s, 5)  BY <1>1, <2>2 DEF Fits
  <2>4. QED  BY <1>4, <2>3, OnwardStays
<1>5. CASE AwaitGap(s, f) \notin {s, NoSetup}
  <2> DEFINE t == [s EXCEPT !.state = "WAIT_RETEST", !.fvg = 0]
  <2>1. AwaitGap(s, f) = t /\ s.state = "WAIT_FVG" /\ s.disp <= GapWindow
    <3>1. AwaitGap(s, f) = t /\ s.state = "WAIT_FVG" /\ ~(s.disp > GapWindow)
      BY <1>5 DEF AwaitGap
    <3>2. QED  BY <1>2, <3>1, Windows
  <2>2. "WAIT_RETEST" \in SetupStates  BY DEF SetupStates
  <2>3. t \in Setups /\ t.state = "WAIT_RETEST" /\ t.sweep = s.sweep /\ t.fvg = 0
    BY <1>1, <2>2, Moved
  <2> HIDE DEF t
  <2>4. s.sweep <= 0 + ChochWindow + BosWindow + 1 + GapWindow
    <3>1. s.disp \in Nat /\ s.sweep <= s.disp + ChochWindow + BosWindow + 1
      BY <1>1, <2>1 DEF Seen
    <3>2. QED  BY <1>2, <2>1, <3>1, Windows
  <2>5. Seen(t)  BY <1>2, <2>3, <2>4, Windows DEF Seen
  <2>6. InTime(t, 5)  BY <2>3, StartsInTime
  <2>7. Rank(s.state) = 4 /\ Rank(t.state) = 5  BY <2>1, <2>3, Ranks
  <2>8. s.state # "" /\ Rank(s.state) <= Rank(t.state)
        /\ (t.state = "WAIT_RETEST" => t.fvg = 0)
    BY <2>1, <2>3, <2>7
  <2>9. Onward(s, t)  BY <2>8, IsSetup, MovesOn
  <2>10. QED  BY <2>1, <2>5, <2>6, <2>9 DEF Fits
<1>6. QED  BY <1>3, <1>4, <1>5

LEMMA RetestFits ==
  ASSUME NEW s, NEW f, Fits(s, 5)
  PROVE  Fits(AwaitRetest(s, f), 6) /\ AwaitRetest(s, f) \in {s, NoSetup}
<1>1. s \in Setups /\ Seen(s) /\ InTime(s, 5)  BY DEF Fits, Seen
<1>2. s.fvg \in Int  BY <1>1, SetupFields
<1>3. AwaitRetest(s, f) \in {s, NoSetup}  BY DEF AwaitRetest
<1>4. CASE AwaitRetest(s, f) = NoSetup  BY <1>4, NoSetupFits
<1>5. CASE AwaitRetest(s, f) # NoSetup
  <2>1. s.state = "WAIT_RETEST" => s.fvg <= RetestWindow
    <3>1. ~(s.state = "WAIT_RETEST" /\ s.fvg > 0 /\ s.fvg > RetestWindow)
      BY <1>5 DEF AwaitRetest
    <3>2. QED  BY <1>2, <3>1, Windows
  <2>2. InTime(s, 5 + 1)  BY <1>1, <2>1, NextInTime
  <2>3. Fits(s, 6)  BY <1>1, <2>2 DEF Fits
  <2>4. QED  BY <1>3, <1>5, <2>3
<1>6. QED  BY <1>3, <1>4, <1>5

\* The stages of one candle, one after the other.
LEMMA UntilGapFits ==
  ASSUME NEW s, NEW f, Fits(s, 0)
  PROVE  Fits(UntilGap(s, f), 5) /\ Onward(s, UntilGap(s, f))
<1> DEFINE valid == Invalidated(s, f)
           choch == AwaitChoch(valid, f)
           pullback == AwaitPullback(choch, f)
           bos == AwaitBos(pullback, f)
           second == AwaitSecond(bos, f)
<1>1. UntilGap(s, f) = AwaitGap(second, f)  BY DEF UntilGap
<1>2. Fits(valid, 0) /\ Onward(s, valid)  BY InvalidatedFits
<1> HIDE DEF valid
<1>3. Fits(choch, 1) /\ Onward(valid, choch)  BY <1>2, ChochFits
<1> HIDE DEF choch
<1>4. Fits(pullback, 2) /\ Onward(choch, pullback)  BY <1>3, PullbackFits
<1> HIDE DEF pullback
<1>5. Fits(bos, 3) /\ Onward(pullback, bos)  BY <1>4, BosFits
<1> HIDE DEF bos
<1>6. Fits(second, 4) /\ Onward(bos, second)  BY <1>5, SecondFits
<1> HIDE DEF second
<1>7. Fits(UntilGap(s, f), 5) /\ Onward(second, UntilGap(s, f))  BY <1>1, <1>6, GapFits
<1>8. Onward(s, choch)  BY <1>2, <1>3, OnwardOnward
<1>9. Onward(s, pullback)  BY <1>4, <1>8, OnwardOnward
<1>10. Onward(s, bos)  BY <1>5, <1>9, OnwardOnward
<1>11. Onward(s, second)  BY <1>6, <1>10, OnwardOnward
<1>12. QED  BY <1>7, <1>11, OnwardOnward

--------------------------------------------------------------------------------
\* Whether a setup has still to be counted by stage n: it was counted by the one before.
Waits(s, n) == IF s # NoSetup /\ Rank(s.state) = n - 1 THEN 1 ELSE 0

\* What is counted while the audit runs.
Counts(stages, n) == IF n \in stages THEN 1 ELSE 0
Extra == IF straddle THEN 1 ELSE 0
Open == IF position = NoPosition THEN 0 ELSE 1
Pending(n) == IF audit THEN Waits(setup, n) ELSE 0

EngineTypes ==
  /\ funnel \in [Stages -> Nat] /\ exits \in [Exits -> Nat]
  /\ audit \in BOOLEAN /\ straddle \in BOOLEAN /\ (~audit => ~straddle)

Narrow == \A n \in 2..10 : funnel[n] + Pending(n) <= funnel[n - 1] + Extra

TradesEnd == funnel[10] = exits["STOP"] + exits["TARGET"] + exits["BOTH_STOP_FIRST"] + Open

EngineInvariant ==
  /\ EngineTypes
  /\ Fits(setup, 6)
  /\ position # NoPosition => setup = NoSetup /\ audit
  /\ Narrow
  /\ TradesEnd

\* Every condition of tryOpen is one more than those of the stage before it.
LEMMA GetsDown ==
  ASSUME NEW t, NEW f, NEW bias
  PROVE  /\ \A n \in 7..10 : Gets(t, f, bias, n) => Gets(t, f, bias, n - 1)
         /\ \A n \in 6..10 : Gets(t, f, bias, n) => Touched(t, f)
         /\ Gets(t, f, bias, 10) <=> Gets(t, f, bias, 9)
<1>1. ASSUME NEW n \in 7..10, Gets(t, f, bias, n)  PROVE Gets(t, f, bias, n - 1)
  <2>1. /\ Touched(t, f) /\ "reaches middle" \in f
        /\ (n >= 8 => "geometry" \in f) /\ (n >= 9 => h1Passes(t.side, bias))
    <3>1. n >= 7  BY <1>1
    <3>2. QED  BY <1>1, <3>1, Zenon DEF Gets
  <2>2. (n - 1 >= 8 => n >= 8) /\ (n - 1 >= 9 => n >= 9)  OBVIOUS
  <2>3. QED  BY <2>1, <2>2 DEF Gets
<1>2. \A n \in 6..10 : Gets(t, f, bias, n) => Touched(t, f)  BY DEF Gets
<1>3. 10 >= 7 /\ 10 >= 8 /\ 10 >= 9 /\ 9 >= 7 /\ 9 >= 8 /\ 9 >= 9  OBVIOUS
<1>4. Gets(t, f, bias, 10) <=> Gets(t, f, bias, 9)  BY <1>3, Zenon DEF Gets
<1>5. QED  BY <1>1, <1>2, <1>4

\* A setup that is retested in this candle was waiting for that, and it ends.
LEMMA TouchedEnds ==
  ASSUME NEW s, NEW t, NEW f, Onward(s, t), t \in Setups, Touched(t, f)
  PROVE  t = s /\ s # NoSetup /\ Rank(s.state) = 5 /\ AwaitRetest(t, f) = NoSetup
<1>1. t.state = "WAIT_RETEST" /\ t.fvg > 0 /\ t.fvg # 0 /\ "touches gap" \in f
  <2>1. t.state = "WAIT_RETEST" /\ t.fvg \in 1..RetestWindow /\ "touches gap" \in f
    BY DEF Touched
  <2>2. \A v \in 1..RetestWindow : v \in Int /\ v > 0 /\ v # 0  BY Windows
  <2>3. QED  BY <2>1, <2>2, Zenon
<1>2. t # NoSetup  BY <1>1, IsSetup
<1>3. s # NoSetup /\ s = t  BY <1>1, <1>2 DEF Onward
<1>4. {"through gap", "touches gap"} \cap f # {}  BY <1>1
<1>5. AwaitRetest(t, f) = NoSetup  BY <1>1, <1>4 DEF AwaitRetest
<1>6. QED  BY <1>1, <1>3, <1>5, Ranks

LEMMA CountsWaits ==
  ASSUME NEW stages, NEW s, NEW n
  PROVE  Counts(stages, n) \in {0, 1} /\ Waits(s, n) \in {0, 1}
BY DEF Counts, Waits

LEMMA NoneWaits ==
  ASSUME NEW n
  PROVE  Waits(NoSetup, n) = 0
BY DEF Waits

\* A stage counts a setup that waited for it, or that the stage before it counted just now;
\* and what it counts does not wait for it any more.
LEMMA PassedWaited ==
  ASSUME NEW s, NEW t, NEW f, NEW bias, Onward(s, t), t \in Setups, NEW n \in 2..10,
         n \in Passed(s, t, f, bias)
  PROVE  /\ s # NoSetup
         /\ Waits(AwaitRetest(t, f), n) = 0
         /\ (Waits(s, n) = 1) \/ (n - 1 \in Passed(s, t, f, bias))
<1>1. /\ Rank(s.state) \in 1..5 /\ Rank(t.state) \in 1..5 /\ Rank(NoSetup.state) = 1
      /\ AwaitRetest(t, f) \in {t, NoSetup} /\ Waits(NoSetup, n) = 0
  BY RankRange, Ranks, NoneWaits DEF AwaitRetest, NoSetup
<1>2. CASE n \in 2..5
  <2>1. Rank(s.state) < n /\ n <= Rank(t.state)  BY <1>2 DEF Passed
  <2>2. t # NoSetup
    <3>1. ASSUME t = NoSetup  PROVE FALSE
      <4>1. Rank(t.state) = 1  BY <1>1, <3>1
      <4>2. QED  BY <1>2, <2>1, <4>1
    <3>2. QED  BY <3>1
  <2>3. s # NoSetup  BY <2>2 DEF Onward
  <2>4. Rank(t.state) # n - 1  BY <1>1, <2>1
  <2>5. Waits(t, n) = 0  BY <2>4 DEF Waits
  <2>6. CASE Rank(s.state) = n - 1  BY <1>1, <2>3, <2>5, <2>6 DEF Waits
  <2>7. CASE Rank(s.state) # n - 1
    <3>1. n - 1 \in 2..5 /\ Rank(s.state) < n - 1 /\ n - 1 <= Rank(t.state)
      BY <1>1, <1>2, <2>1, <2>7
    <3>2. n - 1 \in Passed(s, t, f, bias)  BY <3>1 DEF Passed
    <3>3. QED  BY <1>1, <2>3, <2>5, <3>2
  <2>8. QED  BY <2>6, <2>7
<1>3. CASE n \in 6..10
  <2>1. Gets(t, f, bias, n)  BY <1>3 DEF Passed
  <2>2. Touched(t, f)  BY <1>3, <2>1, GetsDown
  <2>3. s # NoSetup /\ Rank(s.state) = 5 /\ AwaitRetest(t, f) = NoSetup
    BY <2>2, TouchedEnds
  <2>4. CASE n = 6
    <3>1. Rank(s.state) = n - 1  BY <2>3, <2>4
    <3>2. QED  BY <1>1, <2>3, <3>1 DEF Waits
  <2>5. CASE n \in 7..10
    <3>1. Gets(t, f, bias, n - 1) /\ n - 1 \in 6..10  BY <2>1, <2>5, GetsDown
    <3>2. n - 1 \in Passed(s, t, f, bias)  BY <3>1 DEF Passed
    <3>3. QED  BY <1>1, <2>3, <3>2
  <2>6. QED  BY <1>3, <2>4, <2>5
<1>4. QED  BY <1>2, <1>3

\* A setup that waits for a stage waited for it before, or was counted just now by the
\* stage before it.
LEMMA WaitsWaited ==
  ASSUME NEW s, NEW t, NEW f, NEW bias, Onward(s, t), t \in Setups, NEW n \in 2..10,
         Waits(AwaitRetest(t, f), n) = 1
  PROVE  s # NoSetup /\ ((Waits(s, n) = 1) \/ (n - 1 \in Passed(s, t, f, bias)))
<1>1. /\ Rank(s.state) \in 1..5 /\ Rank(t.state) \in 1..5
      /\ AwaitRetest(t, f) \in {t, NoSetup} /\ Waits(NoSetup, n) = 0
  BY RankRange, NoneWaits DEF AwaitRetest
<1>2. t # NoSetup /\ Rank(t.state) = n - 1
  <2>1. Waits(t, n) = 1  BY <1>1
  <2>2. QED  BY <2>1 DEF Waits
<1>3. s # NoSetup /\ Rank(s.state) <= Rank(t.state)  BY <1>2 DEF Onward
<1>4. CASE Rank(s.state) = n - 1  BY <1>3, <1>4 DEF Waits
<1>5. CASE Rank(s.state) # n - 1
  <2>1. n - 1 \in 2..5 /\ Rank(s.state) < n - 1 /\ n - 1 <= Rank(t.state)
    BY <1>1, <1>2, <1>3, <1>5
  <2>2. n - 1 \in Passed(s, t, f, bias)  BY <2>1 DEF Passed
  <2>3. QED  BY <1>3, <2>2
<1>6. QED  BY <1>4, <1>5

\* So no stage gets ahead of the one before it, and each counts a setup once.
LEMMA StageKeepsPace ==
  ASSUME NEW s, NEW t, NEW f, NEW bias, Onward(s, t), t \in Setups, NEW n \in 2..10
  PROVE  LET p == Passed(s, t, f, bias)
             r == AwaitRetest(t, f)
         IN  /\ Counts(p, n) + Waits(r, n) <= Counts(p, n - 1) + Waits(s, n)
             /\ Counts(p, n) + Waits(r, n) <= 1
             /\ s = NoSetup => Counts(p, n) + Waits(r, n) = 0
<1> DEFINE p == Passed(s, t, f, bias)
           r == AwaitRetest(t, f)
<1>1. /\ Counts(p, n) \in {0, 1} /\ Counts(p, n - 1) \in {0, 1}
      /\ Waits(r, n) \in {0, 1} /\ Waits(s, n) \in {0, 1}
  BY CountsWaits
<1>2. CASE n \in p
  <2>1. s # NoSetup /\ Waits(r, n) = 0 /\ (Waits(s, n) = 1 \/ Counts(p, n - 1) = 1)
    BY <1>2, PassedWaited DEF Counts
  <2>2. QED  BY <1>1, <2>1
<1>3. CASE n \notin p /\ Waits(r, n) = 1
  <2>1. s # NoSetup /\ (Waits(s, n) = 1 \/ Counts(p, n - 1) = 1)
    BY <1>3, WaitsWaited DEF Counts
  <2>2. Counts(p, n) = 0  BY <1>3 DEF Counts
  <2>3. QED  BY <1>1, <1>3, <2>1, <2>2
<1>4. CASE n \notin p /\ Waits(r, n) # 1
  <2>1. Counts(p, n) = 0 /\ Waits(r, n) = 0  BY <1>1, <1>4 DEF Counts
  <2>2. QED  BY <1>1, <2>1
<1>5. QED  BY <1>2, <1>3, <1>4

--------------------------------------------------------------------------------
LEMMA CountedOnce ==
  ASSUME funnel \in [Stages -> Nat], NEW stages
  PROVE  /\ Counted(stages) \in [Stages -> Nat]
         /\ \A n \in Stages : Counted(stages)[n] = funnel[n] + Counts(stages, n)
<1>1. \A n \in Stages : funnel[n] \in Nat  OBVIOUS
<1>2. Counted(stages) \in [Stages -> Nat]  BY <1>1 DEF Counted
<1>3. ASSUME NEW n \in Stages
      PROVE  Counted(stages)[n] = funnel[n] + Counts(stages, n)
  <2>1. Counted(stages)[n] = IF n \in stages THEN funnel[n] + 1 ELSE funnel[n]
    BY DEF Counted
  <2>2. CASE n \in stages  BY <2>1, <2>2 DEF Counts
  <2>3. CASE n \notin stages  BY <1>1, <2>1, <2>3 DEF Counts
  <2>4. QED  BY <2>2, <2>3
<1>4. QED  BY <1>2, <1>3

\* A position that closes is one more trade of one kind.
LEMMA CloseEnds ==
  ASSUME exits \in [Exits -> Nat], NEW open, open # NoPosition, NEW hits \in Hits,
         Close(open, hits)
  PROVE  /\ exits' \in [Exits -> Nat]
         /\ exits'["STOP"] + exits'["TARGET"] + exits'["BOTH_STOP_FIRST"] + Open'
              = exits["STOP"] + exits["TARGET"] + exits["BOTH_STOP_FIRST"] + 1
<1>1. exits["STOP"] \in Nat /\ exits["TARGET"] \in Nat /\ exits["BOTH_STOP_FIRST"] \in Nat
  BY DEF Exits
<1>2. CASE hits = {}
  <2>1. position' = open /\ exits' = exits  BY <1>2 DEF Close
  <2>2. Open' = 1  BY <2>1 DEF Open
  <2>3. QED  BY <2>1, <2>2
<1>3. CASE hits # {}
  <2>1. PICK e : e = Outcome(hits)  OBVIOUS
  <2>2. e \in Exits  BY <2>1 DEF Outcome, Exits
  <2>3. position' = NoPosition /\ exits' = [exits EXCEPT ![e] = @ + 1]
    BY <1>3, <2>1 DEF Close
  <2>4. Open' = 0  BY <2>3 DEF Open
  <2>5. exits[e] \in Nat /\ exits' \in [Exits -> Nat]  BY <2>2, <2>3
  <2>6. \A x \in Exits : exits'[x] = IF x = e THEN exits[x] + 1 ELSE exits[x]
    BY <2>2, <2>3
  <2>7. "STOP" \in Exits /\ "TARGET" \in Exits /\ "BOTH_STOP_FIRST" \in Exits
    BY DEF Exits
  <2>8. CASE e = "STOP"
    <3>1. /\ exits'["STOP"] = exits["STOP"] + 1 /\ exits'["TARGET"] = exits["TARGET"]
          /\ exits'["BOTH_STOP_FIRST"] = exits["BOTH_STOP_FIRST"]
      BY <2>6, <2>7, <2>8
    <3>2. QED  BY <1>1, <2>4, <2>5, <3>1
  <2>9. CASE e = "TARGET"
    <3>1. /\ exits'["STOP"] = exits["STOP"] /\ exits'["TARGET"] = exits["TARGET"] + 1
          /\ exits'["BOTH_STOP_FIRST"] = exits["BOTH_STOP_FIRST"]
      BY <2>6, <2>7, <2>9
    <3>2. QED  BY <1>1, <2>4, <2>5, <3>1
  <2>10. CASE e = "BOTH_STOP_FIRST"
    <3>1. /\ exits'["STOP"] = exits["STOP"] /\ exits'["TARGET"] = exits["TARGET"]
          /\ exits'["BOTH_STOP_FIRST"] = exits["BOTH_STOP_FIRST"] + 1
      BY <2>6, <2>7, <2>10
    <3>2. QED  BY <1>1, <2>4, <2>5, <3>1
  <2>11. QED  BY <2>2, <2>8, <2>9, <2>10 DEF Exits
<1>4. QED  BY <1>2, <1>3

\* The audit begins at most once, and notes whether it finds a setup.
LEMMA AuditBegins ==
  ASSUME EngineTypes, Audit
  PROVE  /\ audit' \in BOOLEAN /\ straddle' \in BOOLEAN /\ (~audit' => ~straddle')
         /\ audit => audit' /\ Extra' = Extra
         /\ ~audit' => ~audit /\ Extra' = 0
         /\ ~audit /\ audit' => Extra = 0 /\ Extra' = IF setup = NoSetup THEN 0 ELSE 1
BY Zenon DEF EngineTypes, Audit, Extra

LEMMA HoldStep ==
  ASSUME EngineInvariant, NEW hits \in Hits, HoldPosition(hits)
  PROVE  EngineInvariant'
<1>1. /\ position # NoPosition /\ Audit /\ Close(position, hits)
      /\ setup' = setup /\ funnel' = funnel
  BY DEF HoldPosition
<1>2. EngineTypes /\ setup = NoSetup /\ audit /\ Narrow /\ TradesEnd /\ Fits(setup, 6)
  BY <1>1 DEF EngineInvariant
<1>3. /\ exits' \in [Exits -> Nat]
      /\ exits'["STOP"] + exits'["TARGET"] + exits'["BOTH_STOP_FIRST"] + Open'
           = exits["STOP"] + exits["TARGET"] + exits["BOTH_STOP_FIRST"] + 1
  BY <1>1, <1>2, CloseEnds DEF EngineTypes
<1>4. audit' /\ Extra' = Extra /\ EngineTypes'
  BY <1>1, <1>2, <1>3, AuditBegins DEF EngineTypes
<1>5. Fits(setup, 6)' /\ (position # NoPosition => setup = NoSetup /\ audit)'
  BY <1>1, <1>2, <1>4 DEF Fits, Seen, InTime
<1>6. Narrow'
  <2>1. \A n \in 2..10 : Pending(n)' = Pending(n)  BY <1>1, <1>2, <1>4 DEF Pending
  <2>2. QED  BY <1>1, <1>2, <1>4, <2>1 DEF Narrow
<1>7. TradesEnd'
  <2>1. Open = 1  BY <1>1 DEF Open
  <2>2. QED  BY <1>1, <1>2, <1>3, <2>1 DEF TradesEnd
<1>8. QED  BY <1>4, <1>5, <1>6, <1>7 DEF EngineInvariant

LEMMA AgedWaits ==
  ASSUME NEW s, Fits(s, 6), NEW n
  PROVE  Waits(Aged(s), n) = Waits(s, n)
BY AgedFits, Zenon DEF Waits

\* A sweep starts a setup where there was none.
LEMMA SweptWhenNone ==
  ASSUME NEW level, NEW pivot, SweptSide(level, pivot) # ""
  PROVE  setup = NoSetup /\ SweptSide(level, pivot) \in Sides
BY Zenon DEF SweptSide, Sides

LEMMA SweptStarts ==
  ASSUME NEW side \in Sides
  PROVE  /\ Fits(NewSetup(side), 6)
         /\ \A n \in 2..10 : Waits(NewSetup(side), n) = Counts({1}, n - 1)
<1>1. /\ NewSetup(side) \in Setups /\ NewSetup(side).state = "WAIT_CH"
      /\ NewSetup(side).sweep = 0
  <2>1. PICK st \in SetupStates : st = "WAIT_CH"  BY DEF SetupStates
  <2>2. PICK z \in Int : z = 0  OBVIOUS
  <2>3. NewSetup(side) = [NoSetup EXCEPT !.side = side, !.state = st, !.sweep = z]
    BY <2>1, <2>2 DEF NewSetup
  <2>4. NewSetup(side) \in Setups /\ NewSetup(side).state = st /\ NewSetup(side).sweep = z
    BY <2>3, NoSetupFits DEF Setups
  <2>5. QED  BY <2>1, <2>2, <2>4
<1> DEFINE s == NewSetup(side)
<1> HIDE DEF s
<1>2. s \in Setups /\ s.state = "WAIT_CH" /\ s.sweep = 0  BY <1>1 DEF s
<1>3. Seen(s)  BY <1>2 DEF Seen
<1>4. InTime(s, 6)
  <2>1. Left(1, 6) = 0  BY DEF Left
  <2>2. QED  BY <1>2, <2>1, Windows DEF InTime
<1>5. ASSUME NEW n \in 2..10  PROVE Waits(s, n) = Counts({1}, n - 1)
  <2>1. s # NoSetup /\ Rank(s.state) = 1  BY <1>2, IsSetup, Ranks
  <2>2. n - 1 \in {1} <=> 1 = n - 1  OBVIOUS
  <2>3. QED  BY <2>1, <2>2 DEF Waits, Counts
<1>6. QED  BY <1>3, <1>4, <1>5 DEF Fits, s

\* What a candle counts, and the setup that it leaves.
Counting(s, t, f, bias, swept) == Passed(s, t, f, bias) \cup IF swept # "" THEN {1} ELSE {}
LeftOver(t, f, swept) == IF swept # "" THEN NewSetup(swept) ELSE AwaitRetest(t, f)

LEMMA NothingPasses ==
  ASSUME NEW t, NEW f, NEW bias, Onward(NoSetup, t), t \in Setups, NEW n \in 2..10
  PROVE  n \notin Passed(NoSetup, t, f, bias)
BY PassedWaited

KeepsPace(c, r, s) ==
  /\ Fits(r, 6)
  /\ \A n \in 2..10 :
       /\ Counts(c, n) + Waits(r, n) <= Counts(c, n - 1) + Waits(s, n)
       /\ Counts(c, n) + Waits(r, n) <= 1

LEMMA StagesKeepPace ==
  ASSUME NEW s, NEW t, NEW f, NEW bias, Onward(s, t), Fits(t, 5)
  PROVE  KeepsPace(Passed(s, t, f, bias), AwaitRetest(t, f), s)
<1>1. t \in Setups  BY DEF Fits, Seen
<1>2. Fits(AwaitRetest(t, f), 6)  BY RetestFits
<1>3. QED  BY <1>1, <1>2, StageKeepsPace DEF KeepsPace

LEMMA SweepKeepsPace ==
  ASSUME NEW t, NEW f, NEW bias, Onward(NoSetup, t), Fits(t, 5), NEW side \in Sides
  PROVE  KeepsPace(Passed(NoSetup, t, f, bias) \cup {1}, NewSetup(side), NoSetup)
<1> DEFINE c == Passed(NoSetup, t, f, bias) \cup {1}
           r == NewSetup(side)
<1>1. t \in Setups  BY DEF Fits, Seen
<1>2. ASSUME NEW n \in 2..10
      PROVE  /\ Counts(c, n) + Waits(r, n) <= Counts(c, n - 1) + Waits(NoSetup, n)
             /\ Counts(c, n) + Waits(r, n) <= 1
  <2>1. n \notin c  BY <1>1, NothingPasses
  <2>2. Counts(c, n) = 0  BY <2>1 DEF Counts
  <2>3. Waits(r, n) = Counts({1}, n - 1)  BY SweptStarts
  <2>4. Counts({1}, n - 1) = 1 => Counts(c, n - 1) = 1  BY DEF Counts
  <2>5. /\ Counts({1}, n - 1) \in {0, 1} /\ Counts(c, n - 1) \in {0, 1}
        /\ Waits(NoSetup, n) \in {0, 1}
    BY CountsWaits
  <2>6. QED  BY <2>2, <2>3, <2>4, <2>5
<1>3. QED  BY <1>2, SweptStarts DEF KeepsPace

LEMMA CandleKeepsPace ==
  ASSUME NEW s, NEW t, NEW f, NEW bias, NEW swept, Onward(s, t), Fits(t, 5),
         swept # "" => s = NoSetup /\ swept \in Sides
  PROVE  KeepsPace(Counting(s, t, f, bias, swept), LeftOver(t, f, swept), s)
<1>1. CASE swept = ""
  <2>1. Counting(s, t, f, bias, swept) = Passed(s, t, f, bias) \cup {}
        /\ LeftOver(t, f, swept) = AwaitRetest(t, f)
    BY <1>1, Zenon DEF Counting, LeftOver
  <2>2. Passed(s, t, f, bias) \cup {} = Passed(s, t, f, bias)  BY Zenon
  <2>3. QED  BY <2>1, <2>2, StagesKeepPace, Zenon
<1>2. CASE swept # ""
  <2>1. Counting(s, t, f, bias, swept) = Passed(s, t, f, bias) \cup {1}
        /\ LeftOver(t, f, swept) = NewSetup(swept) /\ s = NoSetup /\ swept \in Sides
    BY <1>2, Zenon DEF Counting, LeftOver
  <2>2. Onward(NoSetup, t)  BY <2>1, Zenon
  <2>3. KeepsPace(Passed(NoSetup, t, f, bias) \cup {1}, NewSetup(swept), NoSetup)
    BY <2>1, <2>2, SweepKeepsPace, Zenon
  <2>4. QED  BY <2>1, <2>3, Zenon
<1>3. QED  BY <1>1, <1>2, Zenon

\* What Follow does, by what it reads.
LEMMA FollowDoes ==
  ASSUME NEW s, NEW t, NEW f, NEW level, NEW pivot, NEW bias, NEW swept,
         Follow(s, t, f, level, pivot, bias, swept)
  PROVE  /\ Audit
         /\ setup' = LeftOver(t, f, swept)
         /\ audit' => funnel' = Counted(Counting(s, t, f, bias, swept))
         /\ ~audit' => funnel' = funnel
         /\ audit' /\ Gets(t, f, bias, 9) =>
              \E hits \in Hits : Close([side |-> t.side, h1 |-> bias], hits)
         /\ ~(audit' /\ Gets(t, f, bias, 9)) => position' = position /\ exits' = exits
BY Zenon DEF Follow, LeftOver, Counting

\* What OnBar hands to Follow.
CourseOf(s, t, f, level, pivot, swept) ==
  s = Aged(setup) /\ t = UntilGap(s, f) /\ swept = SweptSide(level, pivot)

\* The candle counts and leaves what the invariant asks for.
LEMMA FollowCounts ==
  ASSUME EngineInvariant,
         NEW s, NEW t, NEW f, NEW level, NEW pivot, NEW bias, NEW swept,
         CourseOf(s, t, f, level, pivot, swept),
         Follow(s, t, f, level, pivot, bias, swept)
  PROVE  /\ Onward(s, t) /\ t \in Setups /\ (swept # "" => s = NoSetup)
         /\ KeepsPace(Counting(s, t, f, bias, swept), setup', setup)
<1>1. /\ Fits(setup, 6) /\ setup' = LeftOver(t, f, swept)
      /\ s = Aged(setup) /\ t = UntilGap(s, f) /\ swept = SweptSide(level, pivot)
  BY FollowDoes, Zenon DEF EngineInvariant, CourseOf
<1>2. Fits(s, 0) /\ (setup = NoSetup => s = NoSetup)  BY <1>1, AgedFits, Zenon
<1>3. Fits(t, 5) /\ Onward(s, t)  BY <1>1, <1>2, UntilGapFits, Zenon
<1>4. swept # "" => s = NoSetup /\ swept \in Sides  BY <1>1, <1>2, SweptWhenNone, Zenon
<1>5. \A n \in 2..10 : Waits(s, n) = Waits(setup, n)  BY <1>1, AgedWaits, Zenon
<1>6. t \in Setups  BY <1>3, Zenon DEF Fits, Seen
<1>7. KeepsPace(Counting(s, t, f, bias, swept), LeftOver(t, f, swept), s)
  BY <1>3, <1>4, CandleKeepsPace, Zenon
<1>8. KeepsPace(Counting(s, t, f, bias, swept), setup', s)  BY <1>1, <1>7, Zenon
<1>9. KeepsPace(Counting(s, t, f, bias, swept), setup', setup)
  BY <1>5, <1>8, Zenon DEF KeepsPace
<1>10. QED  BY <1>3, <1>4, <1>6, <1>9, Zenon

\* With the audit running, or begun by this candle, the funnel stays narrow.
LEMMA NarrowStays ==
  ASSUME EngineTypes, Narrow, Audit, audit', NEW c, funnel' = Counted(c),
         KeepsPace(c, setup', setup)
  PROVE  funnel' \in [Stages -> Nat] /\ Narrow'
<1>1. /\ funnel \in [Stages -> Nat] /\ funnel' \in [Stages -> Nat]
      /\ \A n \in Stages : funnel'[n] = funnel[n] + Counts(c, n)
  BY CountedOnce DEF EngineTypes
<1>2. ASSUME NEW n \in 2..10
      PROVE  funnel'[n] + Pending(n)' <= funnel'[n - 1] + Extra'
  <2>1. n \in Stages /\ n - 1 \in Stages  BY DEF Stages
  <2>2. /\ funnel'[n] = funnel[n] + Counts(c, n) /\ funnel[n] \in Nat
        /\ funnel'[n - 1] = funnel[n - 1] + Counts(c, n - 1) /\ funnel[n - 1] \in Nat
    BY <1>1, <2>1
  <2>3. /\ Counts(c, n) \in {0, 1} /\ Counts(c, n - 1) \in {0, 1}
        /\ Waits(setup', n) \in {0, 1} /\ Waits(setup, n) \in {0, 1}
    BY CountsWaits
  <2>4. /\ Counts(c, n) + Waits(setup', n) <= Counts(c, n - 1) + Waits(setup, n)
        /\ Counts(c, n) + Waits(setup', n) <= 1
    BY DEF KeepsPace
  <2>5. Pending(n)' = Waits(setup', n)  BY DEF Pending, Waits
  <2>6. funnel[n] + Pending(n) <= funnel[n - 1] + Extra  BY DEF Narrow
  <2>7. CASE audit
    <3>1. Extra' = Extra /\ Extra \in {0, 1} /\ Pending(n) = Waits(setup, n)
      BY <2>7, AuditBegins DEF Pending, Extra
    <3>2. QED  BY <2>2, <2>3, <2>4, <2>5, <2>6, <3>1
  <2>8. CASE ~audit
    <3>1. Extra = 0 /\ (Extra' = IF setup = NoSetup THEN 0 ELSE 1) /\ Pending(n) = 0
      BY <2>8, AuditBegins DEF Pending
    <3>2. CASE setup = NoSetup
      <4>1. Waits(setup, n) = 0 /\ Extra' = 0  BY <3>1, <3>2, NoneWaits
      <4>2. QED  BY <2>2, <2>3, <2>4, <2>5, <2>6, <3>1, <4>1
    <3>3. CASE setup # NoSetup
      <4>1. Extra' = 1  BY <3>1, <3>3
      <4>2. QED  BY <2>2, <2>3, <2>4, <2>5, <2>6, <3>1, <4>1
    <3>4. QED  BY <3>2, <3>3
  <2>9. QED  BY <2>7, <2>8
<1>3. QED  BY <1>1, <1>2 DEF Narrow

\* Before the audit nothing is counted.
LEMMA NarrowWaits ==
  ASSUME EngineTypes, Narrow, Audit, ~audit', funnel' = funnel
  PROVE  funnel' \in [Stages -> Nat] /\ Narrow'
<1>1. ~audit /\ Extra' = 0 /\ Extra = 0 /\ funnel \in [Stages -> Nat]
  BY AuditBegins, Zenon DEF EngineTypes, Extra
<1>2. \A n \in 2..10 : Pending(n) = 0 /\ Pending(n)' = 0  BY <1>1, Zenon DEF Pending
<1>3. QED  BY <1>1, <1>2 DEF Narrow

LEMMA TradeOpens ==
  ASSUME EngineTypes, TradesEnd, position = NoPosition, NEW c, funnel' = Counted(c), 10 \in c,
         NEW open, open # NoPosition, NEW hits \in Hits, Close(open, hits)
  PROVE  exits' \in [Exits -> Nat] /\ TradesEnd'
<1>1. Open = 0 /\ funnel \in [Stages -> Nat] /\ exits \in [Exits -> Nat]
  BY DEF Open, EngineTypes
<1>2. exits["STOP"] \in Nat /\ exits["TARGET"] \in Nat /\ exits["BOTH_STOP_FIRST"] \in Nat
  BY <1>1 DEF Exits
<1>3. 10 \in Stages  BY DEF Stages
<1>4. Counts(c, 10) = 1  BY DEF Counts
<1>5. funnel'[10] = funnel[10] + 1 /\ funnel[10] \in Nat  BY <1>1, <1>3, <1>4, CountedOnce
<1>6. /\ exits' \in [Exits -> Nat]
      /\ exits'["STOP"] + exits'["TARGET"] + exits'["BOTH_STOP_FIRST"] + Open'
           = exits["STOP"] + exits["TARGET"] + exits["BOTH_STOP_FIRST"] + 1
  BY <1>1, CloseEnds
<1>7. QED  BY <1>1, <1>2, <1>5, <1>6 DEF TradesEnd

LEMMA NoTrade ==
  ASSUME EngineTypes, TradesEnd, position' = position, exits' = exits,
         funnel'[10] = funnel[10]
  PROVE  exits' \in [Exits -> Nat] /\ TradesEnd'
<1>1. Open' = Open  BY DEF Open
<1>2. QED  BY <1>1 DEF TradesEnd, EngineTypes

\* The last stage of tryOpen is among those counted if the setup gets there.
LEMMA LastStage ==
  ASSUME NEW s, NEW t, NEW f, NEW bias, NEW swept
  PROVE  /\ 10 \in Counting(s, t, f, bias, swept) <=> Gets(t, f, bias, 9)
         /\ Gets(t, f, bias, 9) => Touched(t, f)
         /\ 10 \in Stages
<1>1. 10 \in 6..10 /\ 9 \in 6..10 /\ 10 \notin 2..5 /\ 10 \notin {1} /\ 10 \in Stages
  BY SMT DEF Stages
<1>2. Gets(t, f, bias, 10) <=> Gets(t, f, bias, 9)  BY GetsDown, Zenon
<1>3. 10 \in Passed(s, t, f, bias) <=> Gets(t, f, bias, 9)  BY <1>1, <1>2, Zenon DEF Passed
<1>4. Gets(t, f, bias, 9) => Touched(t, f)  BY <1>1, GetsDown, Zenon
<1>5. QED  BY <1>1, <1>3, <1>4, Zenon DEF Counting

\* A trade is opened exactly when the last stage counts it, and the setup is over then.
LEMMA TradesStay ==
  ASSUME EngineTypes, TradesEnd, position = NoPosition, NEW s, NEW t, NEW f, NEW level,
         NEW pivot, NEW bias, NEW swept, bias # "", Onward(s, t), t \in Setups,
         swept # "" => s = NoSetup,
         Follow(s, t, f, level, pivot, bias, swept)
  PROVE  /\ exits' \in [Exits -> Nat] /\ TradesEnd'
         /\ position' # NoPosition => setup' = NoSetup /\ audit'
<1> DEFINE c == Counting(s, t, f, bias, swept)
<1>1. /\ setup' = LeftOver(t, f, swept)
      /\ audit' => funnel' = Counted(c)
      /\ ~audit' => funnel' = funnel
      /\ audit' /\ Gets(t, f, bias, 9) =>
           \E hits \in Hits : Close([side |-> t.side, h1 |-> bias], hits)
      /\ ~(audit' /\ Gets(t, f, bias, 9)) => position' = position /\ exits' = exits
  BY FollowDoes, Zenon
<1>2. (10 \in c <=> Gets(t, f, bias, 9)) /\ (Gets(t, f, bias, 9) => Touched(t, f)) /\ 10 \in Stages
  BY LastStage, Zenon
<1> HIDE DEF c
<1>3. CASE audit' /\ Gets(t, f, bias, 9)
  <2>1. Touched(t, f)  BY <1>2, <1>3, Zenon
  <2>2. s # NoSetup /\ AwaitRetest(t, f) = NoSetup  BY <2>1, TouchedEnds, Zenon
  <2>3. setup' = NoSetup  BY <1>1, <2>2, Zenon DEF LeftOver
  <2>4. PICK hits \in Hits : Close([side |-> t.side, h1 |-> bias], hits)
    BY <1>1, <1>3, Zenon
  <2>5. PICK open : open = [side |-> t.side, h1 |-> bias]  BY Zenon
  <2>6. open # NoPosition
    <3>1. open.h1 = bias /\ NoPosition.h1 = ""  BY <2>5, Zenon DEF NoPosition
    <3>2. QED  BY <3>1, Zenon
  <2>7. Close(open, hits)  BY <2>4, <2>5, Zenon
  <2>8. exits' \in [Exits -> Nat] /\ TradesEnd'
    BY <1>1, <1>2, <1>3, <2>6, <2>7, TradeOpens, Zenon
  <2>9. QED  BY <1>3, <2>3, <2>8, Zenon
<1>4. CASE ~(audit' /\ Gets(t, f, bias, 9))
  <2>1. funnel'[10] = funnel[10]
    <3>1. CASE audit'
      <4>1. 10 \notin c /\ funnel' = Counted(c)  BY <1>1, <1>2, <1>4, <3>1, Zenon
      <4>2. funnel'[10] = IF 10 \in c THEN funnel[10] + 1 ELSE funnel[10]
        BY <1>2, <4>1, Zenon DEF Counted
      <4>3. QED  BY <4>1, <4>2, Zenon
    <3>2. CASE ~audit'  BY <1>1, <3>2, Zenon
    <3>3. QED  BY <3>1, <3>2, Zenon
  <2>2. QED  BY <1>1, <1>4, <2>1, NoTrade, Zenon
<1>5. QED  BY <1>3, <1>4, Zenon

LEMMA FollowStep ==
  ASSUME EngineInvariant, position = NoPosition,
         NEW s, NEW t, NEW f, NEW level, NEW pivot, NEW bias, NEW swept, bias # "",
         CourseOf(s, t, f, level, pivot, swept),
         Follow(s, t, f, level, pivot, bias, swept)
  PROVE  EngineInvariant'
<1>1. EngineTypes /\ Narrow /\ TradesEnd  BY Zenon DEF EngineInvariant
<1>2. /\ Onward(s, t) /\ t \in Setups /\ (swept # "" => s = NoSetup)
      /\ KeepsPace(Counting(s, t, f, bias, swept), setup', setup)
  BY FollowCounts, Zenon
<1>3. PICK c : c = Counting(s, t, f, bias, swept)  BY Zenon
<1>4. /\ Audit /\ (audit' => funnel' = Counted(c)) /\ (~audit' => funnel' = funnel)
  BY <1>3, FollowDoes, Zenon
<1>5. /\ exits' \in [Exits -> Nat] /\ TradesEnd'
      /\ position' # NoPosition => setup' = NoSetup /\ audit'
  BY <1>1, <1>2, TradesStay, Zenon
<1>6. funnel' \in [Stages -> Nat] /\ Narrow'
  <2>1. CASE audit'  BY <1>1, <1>2, <1>3, <1>4, <2>1, NarrowStays, Zenon
  <2>2. CASE ~audit'  BY <1>1, <1>4, <2>2, NarrowWaits, Zenon
  <2>3. QED  BY <2>1, <2>2, Zenon
<1>7. EngineTypes'  BY <1>1, <1>4, <1>5, <1>6, AuditBegins, Zenon DEF EngineTypes
<1>8. Fits(setup, 6)'
  <2>1. Fits(setup', 6)  BY <1>2, Zenon DEF KeepsPace
  <2>2. QED  BY <2>1 DEF Fits, Seen, InTime, Setups, Left, Sides, SetupStates, NoSetup, None
<1>9. QED  BY <1>5, <1>6, <1>7, <1>8, Zenon DEF EngineInvariant

LEMMA BiasNamed ==
  ASSUME NEW f, NEW bias \in BiasesAsked(f)
  PROVE  bias # ""
<1>1. \A high, low : H1Bias(high, low) # ""  BY Zenon DEF H1Bias
<1>2. ASSUME bias \in Biases  PROVE \E high, low : bias = H1Bias(high, low)
  BY <1>2, SMT DEF Biases
<1>3. bias \in Biases \/ bias = "BUILDING"  BY Zenon DEF BiasesAsked
<1>4. QED  BY <1>1, <1>2, <1>3, Zenon

LEMMA EngineStep ==
  ASSUME EngineInvariant, OnBar
  PROVE  EngineInvariant'
<1>1. CASE \E hits \in Hits : HoldPosition(hits)  BY <1>1, HoldStep, Zenon
<1>2. CASE \E f \in SetupFacts : \E bias \in BiasesAsked(f) :
             \E low \in SideFacts("BULL"), high \in SideFacts("BEAR") :
             \E pl \in PivotFacts("BULL"), ph \in PivotFacts("BEAR") :
               FollowSetup(f, [BULL |-> low, BEAR |-> high], [BULL |-> pl, BEAR |-> ph], bias)
  <2>1. PICK f, bias, level, pivot : bias \in BiasesAsked(f) /\ FollowSetup(f, level, pivot, bias)
    BY <1>2, Zenon
  <2>2. bias # ""  BY <2>1, BiasNamed, Zenon
  <2>3. PICK s, t, swept :
          /\ CourseOf(s, t, f, level, pivot, swept)
          /\ Follow(s, t, f, level, pivot, bias, swept)
    BY <2>1, Zenon DEF FollowSetup, CourseOf
  <2>4. position = NoPosition  BY <2>1, Zenon DEF FollowSetup
  <2>5. QED  BY <2>2, <2>3, <2>4, FollowStep, Zenon
<1>3. QED  BY <1>1, <1>2, Zenon DEF OnBar

LEMMA EngineKeeps ==
  ASSUME EngineInvariant, UNCHANGED engineVars
  PROVE  EngineInvariant'
<1>1. /\ setup' = setup /\ position' = position /\ audit' = audit /\ funnel' = funnel
      /\ exits' = exits /\ straddle' = straddle
  BY DEF engineVars
<1>2. QED
  BY <1>1 DEF EngineInvariant, EngineTypes, Narrow, TradesEnd, Pending, Extra, Open, Waits,
              Fits, Seen, InTime

LEMMA EngineStarts ==
  ASSUME EngineInit
  PROVE  EngineInvariant
<1>1. EngineTypes  BY DEF EngineInit, EngineTypes
<1>2. Fits(setup, 6)  BY NoSetupFits, Zenon DEF EngineInit
<1>3. position = NoPosition /\ straddle = FALSE /\ setup = NoSetup  BY DEF EngineInit
<1>4. Narrow
  <2>1. \A n \in Stages : funnel[n] = 0  BY DEF EngineInit
  <2>2. Extra = 0 /\ \A n : Pending(n) = 0  BY <1>3, NoneWaits, Zenon DEF Extra, Pending
  <2>3. \A n \in 2..10 : n \in Stages /\ n - 1 \in Stages  BY DEF Stages
  <2>4. QED  BY <2>1, <2>2, <2>3 DEF Narrow
<1>5. TradesEnd  BY <1>3 DEF EngineInit, TradesEnd, Open, Stages, Exits
<1>6. QED  BY <1>1, <1>2, <1>3, <1>4, <1>5 DEF EngineInvariant

LEMMA FitsShowsTime ==
  ASSUME Fits(setup, 6)
  PROVE  SetupInTime
<1>1. setup \in Setups /\ Seen(setup) /\ InTime(setup, 6)  BY DEF Fits, Seen
<1>2. setup.state \in SetupStates /\ setup.sweep \in Int  BY <1>1, SetupFields
<1>3. \A k \in 1..6 : Left(k, 6) = 0  BY DEF Left
<1>4. /\ Left(1, 6) = 0 /\ Left(2, 6) = 0 /\ Left(3, 6) = 0 /\ Left(4, 6) = 0
      /\ Left(5, 6) = 0 /\ Left(6, 6) = 0
  BY <1>3
<1>5. CASE setup.state = ""
  <2>1. setup.sweep = -1  BY <1>1, <1>5, NoSetupFits DEF Seen
  <2>2. QED  BY <2>1, Windows DEF SetupInTime
<1>6. CASE setup.state = "WAIT_CH"
  <2>1. setup.sweep <= ChochWindow + 0  BY <1>1, <1>4, <1>6 DEF InTime
  <2>2. QED  BY <1>2, <2>1, Windows DEF SetupInTime
<1>7. CASE setup.state = "WAIT_PULLBACK"
  <2>1. setup.choch \in Nat /\ setup.sweep <= setup.choch + ChochWindow
    BY <1>1, <1>7 DEF Seen
  <2>2. setup.choch <= BosWindow + 0  BY <1>1, <1>4, <1>7 DEF InTime
  <2>3. QED  BY <1>2, <2>1, <2>2, Windows DEF SetupInTime
<1>8. CASE setup.state = "WAIT_BOS"
  <2>1. setup.choch \in Nat /\ setup.sweep <= setup.choch + ChochWindow
    BY <1>1, <1>8 DEF Seen
  <2>2. setup.choch <= BosWindow + 0  BY <1>1, <1>4, <1>8 DEF InTime
  <2>3. QED  BY <1>2, <2>1, <2>2, Windows DEF SetupInTime
<1>9. CASE setup.state = "WAIT_DISP2"
  <2>1. setup.first \in Nat /\ setup.sweep <= setup.first + ChochWindow + BosWindow
    BY <1>1, <1>9 DEF Seen
  <2>2. setup.first <= 0  BY <1>1, <1>4, <1>9 DEF InTime
  <2>3. QED  BY <1>2, <2>1, <2>2, Windows DEF SetupInTime
<1>10. CASE setup.state = "WAIT_FVG"
  <2>1. setup.disp \in Nat /\ setup.sweep <= setup.disp + ChochWindow + BosWindow + 1
    BY <1>1, <1>10 DEF Seen
  <2>2. setup.disp <= GapWindow + 0  BY <1>1, <1>4, <1>10 DEF InTime
  <2>3. QED  BY <1>2, <2>1, <2>2, Windows DEF SetupInTime
<1>11. CASE setup.state = "WAIT_RETEST"
  <2>1. setup.fvg \in Nat /\ setup.sweep <= setup.fvg + ChochWindow + BosWindow + 1 + GapWindow
    BY <1>1, <1>11 DEF Seen
  <2>2. setup.fvg <= RetestWindow + 0  BY <1>1, <1>4, <1>11 DEF InTime
  <2>3. QED  BY <1>2, <2>1, <2>2, Windows DEF SetupInTime
<1>12. QED
  BY <1>2, <1>5, <1>6, <1>7, <1>8, <1>9, <1>10, <1>11 DEF SetupStates

LEMMA FunnelShows ==
  ASSUME EngineInvariant
  PROVE  FunnelNarrows
<1>1. /\ funnel \in [Stages -> Nat] /\ Narrow /\ TradesEnd
  BY DEF EngineInvariant, EngineTypes
<1>2. ASSUME NEW n \in Stages \ {1}
      PROVE  funnel[n] <= funnel[n - 1] + (IF straddle THEN 1 ELSE 0)
  <2>1. n \in 2..10 /\ n - 1 \in Stages  BY DEF Stages
  <2>2. funnel[n] \in Nat /\ funnel[n - 1] \in Nat  BY <1>1, <2>1
  <2>3. funnel[n] + Pending(n) <= funnel[n - 1] + Extra  BY <1>1, <2>1 DEF Narrow
  <2>4. Pending(n) \in {0, 1}  BY CountsWaits DEF Pending
  <2>5. Extra = IF straddle THEN 1 ELSE 0  BY DEF Extra
  <2>6. Extra \in {0, 1}  BY DEF Extra
  <2>7. QED  BY <2>2, <2>3, <2>4, <2>5, <2>6
<1>3. QED  BY <1>1, <1>2 DEF FunnelNarrows, TradesEnd, Open

\* A sweep makes one trade at most, and its setup ends within a fixed number of candles,
\* whatever the windows and the candles are (scalpStrategyCore.mjs:493-848).
THEOREM SetupsStayAccounted == EngineSpec => []SetupsAccounted
<1>1. EngineInit => EngineInvariant  BY EngineStarts
<1>2. EngineInvariant /\ [OnBar]_engineVars => EngineInvariant'
  BY EngineStep, EngineKeeps
<1>3. EngineInvariant => SetupsAccounted
  BY FitsShowsTime, FunnelShows DEF EngineInvariant, SetupsAccounted
<1>4. QED  BY <1>1, <1>2, <1>3, PTL DEF EngineSpec

--------------------------------------------------------------------------------
(***************************************************************************)
(* The market structure, for any candles and channels. The engine and the  *)
(* chart hold pivots that differ in their labels at most (Alike), and a    *)
(* pivot that is not broken is one that the last candle did not close      *)
(* beyond (Judged), so that the next candle that does is the first.        *)
(***************************************************************************)

TagSet == {"", "FIRST", "HH", "HL", "LH", "LL", "EQ"}
TrendSet == {"", "bull", "bear"}
PivotSet == [there : BOOLEAN, price : Int, label : TagSet, broken : BOOLEAN, beyond : BOOLEAN]
Lines == [Kinds -> PivotSet]

\* Two pivots that differ in their label at most.
Alike(a, b) == a.there = b.there /\ a.price = b.price /\ a.broken = b.broken /\ a.beyond = b.beyond

Labelled(p) == p.there = (p.label # "")

\* A pivot of which a candle has closed beyond it exactly if it is broken; if it is not,
\* the last one, which closed at close, has not either.
Judged(kind, p, close) ==
  /\ p.broken = p.beyond /\ (p.broken => p.there)
  /\ (p.there /\ ~p.broken => ~Beyond(kind, close, p.price))

LastClose == CloseOf(recent[Len(recent)])

StructureInv ==
  /\ recent \in Seq(Candles) /\ Len(recent) <= Kept
  /\ seen \in 0..Enough
  /\ IF seen < 5 THEN Len(recent) = seen /\ \A kind \in Kinds : ~timeline[kind].there
     ELSE Len(recent) >= 5
  /\ timeline \in Lines /\ chart \in [pivots : Lines, trend : TrendSet]
  /\ \A kind \in Kinds : /\ Alike(timeline[kind], chart.pivots[kind])
                         /\ Judged(kind, timeline[kind], LastClose)
                         /\ Labelled(timeline[kind])
  /\ Len(recent) >= (IF seen < Kept THEN seen ELSE Kept)
  /\ BreaksAgree

LEMMA Prices ==
  /\ \A c \in Candles : c.high \in Int /\ LowOf(c) \in Int /\ CloseOf(c) \in Int
                        /\ LowOf(c) <= CloseOf(c) /\ CloseOf(c) <= c.high
  /\ Kept \in Nat /\ Kept >= 5 /\ Enough \in Nat /\ Enough >= 5
  BY CandlesAssumption, ChannelsAssumption DEF LowOf, CloseOf, Kept, Enough, Around

LEMMA SwingsAgree ==
  ASSUME NEW kind, NEW bars
  PROVE  isSwing(kind, bars) = swing(kind, bars)
  BY DEF isSwing, swing

LEMMA SwingIsAhead ==
  ASSUME NEW kind \in Kinds, NEW bars \in Seq(Candles), isSwing(kind, bars)
  PROVE  LET n == Len(bars)
             p == Extreme(kind, bars[n - 2])
         IN  /\ n >= 5 /\ p \in Int
             /\ ~Beyond(kind, CloseOf(bars[n]), p) /\ ~Beyond(kind, CloseOf(bars[n - 1]), p)
<1> DEFINE n == Len(bars)
           five == LastN(bars, 5)
<1>1. n \in Nat /\ n >= 5
  BY DEF isSwing, Around
<1>2. five[3] = bars[n - 2] /\ five[4] = bars[n - 1] /\ five[5] = bars[n]
  BY <1>1 DEF LastN
<1>3. bars[n - 2] \in Candles /\ bars[n - 1] \in Candles /\ bars[n] \in Candles
  BY <1>1
<1>4. \A i \in (1..5) \ {3} : Beyond(kind, Extreme(kind, five[3]), Extreme(kind, five[i]))
  BY DEF isSwing, Around
<1> HIDE DEF five
<1>5. /\ Beyond(kind, Extreme(kind, bars[n - 2]), Extreme(kind, bars[n - 1]))
      /\ Beyond(kind, Extreme(kind, bars[n - 2]), Extreme(kind, bars[n]))
  BY <1>2, <1>4
<1>6. QED
  <2> DEFINE a == bars[n - 2]
             b == bars[n - 1]
             d == bars[n]
  <2>1. /\ a \in Candles /\ b \in Candles /\ d \in Candles
        /\ Beyond(kind, Extreme(kind, a), Extreme(kind, b)) /\ Beyond(kind, Extreme(kind, a), Extreme(kind, d))
    BY <1>3, <1>5
  <2> HIDE DEF a, b, d
  <2>2. /\ Extreme(kind, a) \in Int
        /\ ~Beyond(kind, CloseOf(d), Extreme(kind, a)) /\ ~Beyond(kind, CloseOf(b), Extreme(kind, a))
    <3>1. CASE kind = "HIGH"
      BY <2>1, <3>1, Prices DEF Beyond, Extreme
    <3>2. CASE kind = "LOW"
      BY <2>1, <3>2, Prices DEF Beyond, Extreme
    <3>3. QED
      BY <3>1, <3>2 DEF Kinds
  <2>3. QED
    BY <1>1, <2>2 DEF a, b, d

LEMMA Pushing ==
  ASSUME StructureInv, NEW c \in Candles
  PROVE  /\ Pushed(c) \in Seq(Candles) /\ Len(Pushed(c)) <= Kept
         /\ Len(Pushed(c)) = (IF Len(recent) < Kept THEN Len(recent) + 1 ELSE Kept)
         /\ Pushed(c)[Len(Pushed(c))] = c
         /\ Len(recent) > 0 => Pushed(c)[Len(Pushed(c)) - 1] = recent[Len(recent)]
<1>1. recent \in Seq(Candles) /\ Len(recent) <= Kept /\ Kept \in Nat /\ Kept >= 5
  BY Prices DEF StructureInv
<1>2. CASE Len(recent) < Kept
  BY <1>1, <1>2 DEF Pushed
<1>3. CASE ~ (Len(recent) < Kept)
  <2>1. recent # <<>> /\ Len(recent) = Kept
    BY <1>1, <1>3
  <2>2. Tail(recent) \in Seq(Candles) /\ Len(Tail(recent)) = Kept - 1
        /\ \A i \in 1..(Kept - 1) : Tail(recent)[i] = recent[i + 1]
    BY <1>1, <2>1
  <2>3. Pushed(c) = Append(Tail(recent), c)
    BY <1>3 DEF Pushed
  <2>4. Len(Pushed(c)) = Kept /\ Pushed(c)[Kept] = c /\ Pushed(c)[Kept - 1] = Tail(recent)[Kept - 1]
        /\ Pushed(c) \in Seq(Candles)
    BY <1>1, <2>2, <2>3
  <2>5. QED
    BY <1>1, <2>1, <2>2, <2>4
<1>4. QED
  BY <1>2, <1>3

LEMMA Labels ==
  ASSUME NEW kind \in Kinds, NEW p, NEW q
  PROVE  /\ pivotLabel(kind, p, q) \in TagSet /\ pivotLabel(kind, p, q) # ""
         /\ ChartLabel(kind, p, q) \in TagSet
<1>1. pivotLabel(kind, p, q) \in {"FIRST", "HH", "HL", "LH", "LL", "EQ"}
  BY DEF pivotLabel
<1>2. ChartLabel(kind, p, q) \in {"", "HH", "HL", "LH", "LL"}
  BY DEF ChartLabel
<1>3. QED
  BY <1>1, <1>2 DEF TagSet

LEMMA NoPivotTyped ==
  /\ NoPivot \in PivotSet
  /\ NoPivot.there = FALSE /\ NoPivot.broken = FALSE /\ NoPivot.beyond = FALSE /\ NoPivot.label = ""
<1>1. "" \in TagSet
  BY DEF TagSet
<1>2. ASSUME NEW tag \in TagSet
      PROVE  LET m == [there |-> FALSE, price |-> 0, label |-> tag, broken |-> FALSE, beyond |-> FALSE]
             IN  m \in PivotSet /\ m.there = FALSE /\ m.broken = FALSE /\ m.beyond = FALSE /\ m.label = tag
  BY DEF PivotSet
<1>3. QED
  BY <1>1, <1>2, Zenon DEF NoPivot

LEMMA PivotMade ==
  ASSUME NEW p \in Int, NEW tag \in TagSet
  PROVE  /\ Pivot(p, tag) \in PivotSet /\ Pivot(p, tag).there = TRUE /\ Pivot(p, tag).price = p
         /\ Pivot(p, tag).label = tag /\ Pivot(p, tag).broken = FALSE /\ Pivot(p, tag).beyond = FALSE
  BY DEF Pivot, PivotSet

(***************************************************************************)
(* The pivots that a candle is compared with, in both readings: a and b,   *)
(* when k candles came before.                                             *)
(***************************************************************************)
Compared(kind, a, b, prior, close, k) ==
  /\ a \in PivotSet /\ b \in PivotSet /\ Alike(a, b) /\ Labelled(a)
  /\ Judged(kind, a, prior)
  /\ (k < 5 /\ a.there => ~Beyond(kind, close, a.price))
  /\ (k < 4 => ~a.there)

LEMMA NotFewer == ASSUME NEW k \in Int, k >= 4 PROVE ~ (k < 4)
  OBVIOUS

LEMMA FreshPivot ==
  ASSUME NEW kind, NEW p \in Int, NEW prior, NEW close, NEW tag \in TagSet, tag # "",
         NEW other \in TagSet, NEW k \in Int, k >= 4,
         ~Beyond(kind, close, p), ~Beyond(kind, prior, p)
  PROVE  Compared(kind, Pivot(p, tag), Pivot(p, other), prior, close, k)
<1> DEFINE a == Pivot(p, tag)
           b == Pivot(p, other)
<1>0. a \in PivotSet /\ a.there = TRUE /\ a.price = p /\ a.broken = FALSE /\ a.beyond = FALSE
  BY PivotMade
<1>1. b \in PivotSet /\ b.there = TRUE /\ b.price = p /\ b.broken = FALSE /\ b.beyond = FALSE
  BY PivotMade
<1>2. a.label = tag
  BY PivotMade
<1> HIDE DEF a, b
<1>3. Labelled(a)
  BY <1>0, <1>2, Zenon DEF Labelled
<1>4. Alike(a, b) /\ Judged(kind, a, prior)
  BY <1>0, <1>1 DEF Alike, Judged
<1>5. /\ (k < 5 /\ a.there => ~Beyond(kind, close, a.price))
      /\ (k < 4 => ~a.there)
  <2>1. ~ (k < 4)
    BY NotFewer
  <2>2. QED
    BY <1>0, <2>1, Zenon
<1>6. Compared(kind, a, b, prior, close, k)
  BY <1>0, <1>1, <1>3, <1>4, <1>5, Zenon DEF Compared
<1>7. QED
  BY <1>6, Zenon DEF a, b

LEMMA KeptPivot ==
  ASSUME NEW kind, NEW a \in PivotSet, NEW b \in PivotSet, NEW last, NEW prior, NEW close, NEW k \in Int,
         Alike(a, b), Labelled(a), Judged(kind, a, last), k < 5 => ~a.there, a.there => prior = last
  PROVE  Compared(kind, a, b, prior, close, k)
<1>1. a.there \in BOOLEAN /\ a.broken \in BOOLEAN /\ a.beyond \in BOOLEAN
  BY DEF PivotSet
<1>2. Judged(kind, a, prior)
  BY <1>1 DEF Judged
<1>3. k < 4 => ~a.there
  OBVIOUS
<1>4. QED
  BY <1>2, <1>3 DEF Compared

LEMMA PivotsFound ==
  ASSUME StructureInv, NEW c \in Candles, NEW bars, bars = Pushed(c), NEW kind \in Kinds
  PROVE  LET prior == CloseOf(bars[IF Len(bars) = 1 THEN 1 ELSE Len(bars) - 1])
         IN  /\ Compared(kind, NewPivots(timeline, bars)[kind], ChartPivots(chart.pivots, bars)[kind],
                         prior, CloseOf(c), seen)
             /\ prior \in Int
<1> DEFINE n == Len(bars)
           prior == CloseOf(bars[IF n = 1 THEN 1 ELSE n - 1])
<1>1. /\ bars \in Seq(Candles) /\ n \in Nat /\ n > 0 /\ bars[n] = c
      /\ (Len(recent) > 0 => n > 1 /\ bars[n - 1] = recent[Len(recent)])
      /\ (seen < 4 => n < 5)
      /\ Len(recent) \in Nat
  <2>1. /\ recent \in Seq(Candles) /\ Len(recent) <= Kept /\ (seen < 5 => Len(recent) = seen)
        /\ (~ (seen < 5) => Len(recent) >= 5) /\ seen \in 0..Enough
    BY DEF StructureInv
  <2>2. Len(recent) \in Nat
    BY <2>1
  <2>3. /\ bars \in Seq(Candles) /\ bars[n] = c
        /\ n = (IF Len(recent) < Kept THEN Len(recent) + 1 ELSE Kept)
        /\ (Len(recent) > 0 => bars[n - 1] = recent[Len(recent)])
    BY Pushing
  <2> HIDE DEF n
  <2>4. n \in Nat /\ n > 0 /\ (Len(recent) > 0 => n > 1)
    BY <2>1, <2>2, <2>3, Prices
  <2>5. seen < 4 => n < 5
    BY <2>1, <2>2, <2>3, Prices
  <2>6. QED
    BY <2>2, <2>3, <2>4, <2>5
<1>2. prior \in Int
  <2> DEFINE i == IF n = 1 THEN 1 ELSE n - 1
  <2>1. i \in 1..Len(bars)
    <3>1. n \in Nat /\ n > 0
      BY <1>1
    <3> HIDE DEF n
    <3>2. i \in 1..n
      BY <3>1
    <3>3. QED
      BY <3>2 DEF n
  <2> HIDE DEF i
  <2>2. bars[i] \in Candles
    BY <1>1, <2>1, ElementOfSeq
  <2>3. QED
    BY <2>2, Prices DEF i
<1>3. /\ timeline[kind] \in PivotSet /\ chart.pivots[kind] \in PivotSet
      /\ Alike(timeline[kind], chart.pivots[kind]) /\ Judged(kind, timeline[kind], LastClose)
      /\ Labelled(timeline[kind])
      /\ (seen < 5 => ~timeline[kind].there)
      /\ (timeline[kind].there => Len(recent) > 0)
      /\ seen \in Int
  BY <1>1, Prices DEF StructureInv, Lines
<1>4. CASE isSwing(kind, bars)
  <2> DEFINE p == Extreme(kind, bars[n - 2])
  <2>1. n >= 5 /\ p \in Int /\ ~Beyond(kind, CloseOf(bars[n]), p) /\ ~Beyond(kind, CloseOf(bars[n - 1]), p)
    BY <1>1, <1>4, SwingIsAhead
  <2>2. NewPivots(timeline, bars)[kind] = Pivot(p, pivotLabel(kind, p, timeline[kind]))
    BY <1>4 DEF NewPivots
  <2>3. ChartPivots(chart.pivots, bars)[kind] = Pivot(p, ChartLabel(kind, p, chart.pivots[kind]))
    BY <1>4, SwingsAgree DEF ChartPivots
  <2>4. prior = CloseOf(bars[n - 1])
    BY <2>1
  <2>5. seen >= 4
    BY <1>1, <1>3, <2>1
  <2>6. ~Beyond(kind, CloseOf(c), p) /\ ~Beyond(kind, prior, p) /\ p \in Int
    BY <1>1, <2>1, <2>4
  <2>7. pivotLabel(kind, p, timeline[kind]) \in TagSet /\ pivotLabel(kind, p, timeline[kind]) # ""
        /\ ChartLabel(kind, p, chart.pivots[kind]) \in TagSet
    BY Labels
  <2> HIDE DEF n, prior, p
  <2>8. Compared(kind, Pivot(p, pivotLabel(kind, p, timeline[kind])),
                 Pivot(p, ChartLabel(kind, p, chart.pivots[kind])), prior, CloseOf(c), seen)
    BY <1>3, <2>5, <2>6, <2>7, FreshPivot
  <2>9. QED
    BY <1>2, <2>2, <2>3, <2>8 DEF n, prior
<1>5. CASE ~ isSwing(kind, bars)
  <2>1. NewPivots(timeline, bars)[kind] = timeline[kind]
    BY <1>5 DEF NewPivots
  <2>2. ChartPivots(chart.pivots, bars)[kind] = chart.pivots[kind]
    BY <1>5, SwingsAgree DEF ChartPivots
  <2>3. timeline[kind].there => prior = LastClose
    BY <1>1, <1>3 DEF LastClose
  <2> HIDE DEF n, prior
  <2>4. Compared(kind, timeline[kind], chart.pivots[kind], prior, CloseOf(c), seen)
    BY <1>3, <2>3, KeptPivot
  <2>5. QED
    BY <1>2, <2>1, <2>2, <2>4 DEF n, prior
<1>6. QED
  BY <1>4, <1>5

\* What a close breaks: no more than one of the pivots.
LEMMA OneBreak ==
  ASSUME NEW line \in Lines, NEW prior \in Int, NEW close \in Int,
         \A kind \in Kinds : Judged(kind, line[kind], prior)
  PROVE  /\ BrokenBy(line, prior, close) = {kind \in Kinds : Crosses(kind, line[kind], prior, close)}
         /\ \A kind \in Kinds :
              Crosses(kind, line[kind], prior, close)
                <=> (line[kind].there /\ ~line[kind].broken /\ Beyond(kind, close, line[kind].price))
<1>1. /\ line["HIGH"] \in PivotSet /\ line["LOW"] \in PivotSet
      /\ Judged("HIGH", line["HIGH"], prior) /\ Judged("LOW", line["LOW"], prior)
  BY DEF Lines, Kinds
<1>2. line["HIGH"].price \in Int /\ line["LOW"].price \in Int
  BY <1>1 DEF PivotSet
<1>3. ~ (Crosses("HIGH", line["HIGH"], prior, close) /\ Crosses("LOW", line["LOW"], prior, close))
  BY <1>2 DEF Crosses, Beyond
<1>4. BrokenBy(line, prior, close) = {kind \in Kinds : Crosses(kind, line[kind], prior, close)}
  BY <1>3 DEF BrokenBy, Kinds
<1>5. ASSUME NEW kind \in Kinds
      PROVE  Crosses(kind, line[kind], prior, close)
                <=> (line[kind].there /\ ~line[kind].broken /\ Beyond(kind, close, line[kind].price))
  <2>1. line[kind] \in PivotSet /\ Judged(kind, line[kind], prior)
    BY DEF Lines
  <2>2. line[kind].there \in BOOLEAN /\ line[kind].broken \in BOOLEAN
    BY <2>1 DEF PivotSet
  <2>3. QED
    BY <2>1, <2>2 DEF Crosses, Judged
<1>6. QED
  BY <1>4, <1>5

LEMMA MarkedPivots ==
  ASSUME NEW line \in Lines, NEW broke \in SUBSET Kinds, NEW close \in Int, NEW kind \in Kinds
  PROVE  LET m == Marked(line, broke, close)[kind]
         IN  /\ m \in PivotSet /\ m.there = line[kind].there /\ m.price = line[kind].price
             /\ m.label = line[kind].label
             /\ (m.broken <=> (line[kind].broken \/ kind \in broke))
             /\ (m.beyond <=> (line[kind].beyond
                              \/ (line[kind].there /\ Beyond(kind, close, line[kind].price))))
             /\ Marked(line, broke, close) \in [Kinds -> PivotSet]
<1>1. \A k \in Kinds : line[k] \in PivotSet
  BY DEF Lines
<1>2. ASSUME NEW k \in Kinds
      PROVE  LET m == Marked(line, broke, close)[k]
             IN  /\ m \in PivotSet /\ m.there = line[k].there /\ m.price = line[k].price
                 /\ m.label = line[k].label
                 /\ (m.broken <=> (line[k].broken \/ k \in broke))
                 /\ (m.beyond <=> (line[k].beyond
                                  \/ (line[k].there /\ Beyond(k, close, line[k].price))))
  <2> DEFINE b == line[k].broken \/ k \in broke
             y == line[k].beyond \/ (line[k].there /\ Beyond(k, close, line[k].price))
  <2>1. Marked(line, broke, close)[k] = [[line[k] EXCEPT !.broken = b] EXCEPT !.beyond = y]
    BY <1>1 DEF Marked, PivotSet
  <2>2. b \in BOOLEAN /\ y \in BOOLEAN
    OBVIOUS
  <2> HIDE DEF b, y
  <2>3. LET m == Marked(line, broke, close)[k]
        IN  m \in PivotSet /\ m.there = line[k].there /\ m.price = line[k].price
            /\ m.label = line[k].label /\ m.broken = b /\ m.beyond = y
    BY <1>1, <2>1, <2>2 DEF PivotSet
  <2>4. QED
    BY <2>3 DEF b, y
<1>3. Marked(line, broke, close) \in [Kinds -> PivotSet]
  <2>1. Marked(line, broke, close) = [k \in Kinds |-> Marked(line, broke, close)[k]]
    BY DEF Marked
  <2>2. QED
    BY <1>2, <2>1
<1>4. QED
  BY <1>2, <1>3

\* m is what becomes of a.
MarkedAs(kind, a, m, broke, close) ==
  /\ m \in PivotSet /\ m.there = a.there /\ m.price = a.price /\ m.label = a.label
  /\ (m.broken <=> (a.broken \/ kind \in broke))
  /\ (m.beyond <=> (a.beyond \/ (a.there /\ Beyond(kind, close, a.price))))

LEMMA MarkingIs ==
  ASSUME NEW line \in Lines, NEW broke \in SUBSET Kinds, NEW close \in Int, NEW kind \in Kinds
  PROVE  MarkedAs(kind, line[kind], Marked(line, broke, close)[kind], broke, close)
  BY MarkedPivots, Zenon DEF MarkedAs

LEMMA MarkingKeeps ==
  ASSUME NEW kind, NEW a, NEW b, NEW m, NEW n, NEW broke, NEW prior, NEW close, NEW k,
         Compared(kind, a, b, prior, close, k),
         MarkedAs(kind, a, m, broke, close), MarkedAs(kind, b, n, broke, close),
         (kind \in broke) <=> (a.there /\ ~a.broken /\ Beyond(kind, close, a.price))
  PROVE  Alike(m, n) /\ Judged(kind, m, close) /\ Labelled(m) /\ (k < 4 => ~m.there)
<1>1. /\ a \in PivotSet /\ b \in PivotSet /\ m \in PivotSet /\ n \in PivotSet
      /\ Alike(a, b) /\ Labelled(a) /\ Judged(kind, a, prior) /\ (k < 4 => ~a.there)
  BY DEF Compared, MarkedAs
<1>2. \A q \in PivotSet : q.there \in BOOLEAN /\ q.broken \in BOOLEAN /\ q.beyond \in BOOLEAN
  BY DEF PivotSet
<1>3. /\ m.there = a.there /\ m.price = a.price /\ m.label = a.label
      /\ n.there = b.there /\ n.price = b.price
      /\ (m.broken <=> (a.broken \/ kind \in broke)) /\ (n.broken <=> (b.broken \/ kind \in broke))
      /\ (m.beyond <=> (a.beyond \/ (a.there /\ Beyond(kind, close, a.price))))
      /\ (n.beyond <=> (b.beyond \/ (b.there /\ Beyond(kind, close, b.price))))
  BY DEF MarkedAs
<1>4. Alike(m, n)
  BY <1>1, <1>2, <1>3 DEF Alike
<1>5. Judged(kind, m, close)
  BY <1>1, <1>2, <1>3 DEF Judged
<1>6. Labelled(m)
  BY <1>1, <1>3, Zenon DEF Labelled
<1>7. QED
  BY <1>1, <1>3, <1>4, <1>5, <1>6

LEMMA CandleKeeps ==
  ASSUME StructureInv, NEW c \in Candles, Candle(c)
  PROVE  StructureInv'
<1> DEFINE bars == Pushed(c)
           line == NewPivots(timeline, bars)
           pivots == ChartPivots(chart.pivots, bars)
           prior == CloseOf(bars[IF Len(bars) = 1 THEN 1 ELSE Len(bars) - 1])
           close == CloseOf(c)
           broke == BrokenBy(line, prior, close)
           chartBroke == ChartBreaks(pivots, prior, close)
<1>1. Read(c, bars, line, pivots, broke, chartBroke, latestSetup(bars, seen >= WarmUp, close))
  BY DEF Candle
<1>2. \A kind \in Kinds :
         Compared(kind, line[kind], pivots[kind], prior, close, seen) /\ prior \in Int
  BY PivotsFound
<1>3. line \in Lines /\ pivots \in Lines /\ prior \in Int /\ close \in Int
  <2>1. prior \in Int
    BY <1>2 DEF Kinds
  <2>2. close \in Int
    BY Prices
  <2>3. line = [k \in Kinds |-> line[k]] /\ pivots = [k \in Kinds |-> pivots[k]]
    BY DEF NewPivots, ChartPivots
  <2> HIDE DEF line, pivots, prior, close
  <2>4. QED
    BY <1>2, <2>1, <2>2, <2>3 DEF Lines, Compared
<1>4. /\ bars \in Seq(Candles) /\ Len(bars) <= Kept /\ bars[Len(bars)] = c
      /\ Len(bars) = (IF Len(recent) < Kept THEN Len(recent) + 1 ELSE Kept)
  BY Pushing
<1>5. /\ recent' = bars
      /\ seen' = (IF seen < Enough THEN seen + 1 ELSE seen)
      /\ timeline' = Marked(line, broke, close)
      /\ chart' = [pivots |-> Marked(pivots, chartBroke, close),
                   trend |-> IF chartBroke = {} THEN chart.trend ELSE BreakOf(pivots, chartBroke).direction]
      /\ verdict'.a2 = BreakOf(line, broke) /\ verdict'.xmi = BreakOf(pivots, chartBroke)
  BY <1>1 DEF Read
<1>6. LastClose' = close
  BY <1>4, <1>5 DEF LastClose
<1> HIDE DEF bars, line, pivots, prior, close, broke, chartBroke
<1>7. /\ broke = {kind \in Kinds : Crosses(kind, line[kind], prior, close)}
      /\ \A kind \in Kinds :
           Crosses(kind, line[kind], prior, close)
             <=> (line[kind].there /\ ~line[kind].broken /\ Beyond(kind, close, line[kind].price))
  BY <1>2, <1>3, OneBreak DEF broke, Compared
<1>8. chartBroke = broke
  <2>1. \A kind \in Kinds : Crosses(kind, line[kind], prior, close) = Crosses(kind, pivots[kind], prior, close)
    BY <1>2 DEF Alike, Crosses, Compared
  <2>2. CASE seen < 5
    <3>1. chartBroke = {}
      BY <2>2 DEF chartBroke, ChartBreaks
    <3>2. broke = {}
      BY <1>2, <1>7, <2>2 DEF Compared
    <3>3. QED
      BY <3>1, <3>2
  <2>3. CASE ~ (seen < 5)
    <3>1. chartBroke = {kind \in Kinds : Crosses(kind, pivots[kind], prior, close)}
      BY <2>3 DEF chartBroke, ChartBreaks
    <3>2. QED
      BY <1>7, <2>1, <3>1
  <2>4. QED
    BY <2>2, <2>3
<1>9. broke \in SUBSET Kinds
  BY <1>7
<1>10. /\ BreakOf(line, broke) = BreakOf(pivots, broke) /\ (broke # {} => BreakOf(pivots, broke).direction \in TrendSet)
  <2>1. CASE broke = {}
    BY <2>1 DEF BreakOf, NoBreak
  <2>2. CASE broke # {}
    <3> DEFINE kind == CHOOSE k \in broke : k = "HIGH" \/ "HIGH" \notin broke
    <3>1. kind \in Kinds
      BY <1>9, <2>2 DEF Kinds
    <3>2. /\ BreakOf(line, broke) = [direction |-> Direction(kind), level |-> line[kind].price]
          /\ BreakOf(pivots, broke) = [direction |-> Direction(kind), level |-> pivots[kind].price]
      BY <2>2 DEF BreakOf
    <3> HIDE DEF kind
    <3>3. line[kind].price = pivots[kind].price
      BY <1>2, <3>1 DEF Alike, Compared
    <3>4. Direction(kind) \in TrendSet
      BY DEF Direction, TrendSet
    <3>5. QED
      BY <3>2, <3>3, <3>4
  <2>3. QED
    BY <2>1, <2>2
<1>11. ASSUME NEW kind \in Kinds
       PROVE  /\ Alike(timeline'[kind], chart'.pivots[kind])
              /\ Judged(kind, timeline'[kind], close)
              /\ Labelled(timeline'[kind])
              /\ (seen < 4 => ~timeline'[kind].there)
  <2>1. MarkedAs(kind, line[kind], timeline'[kind], broke, close)
        /\ MarkedAs(kind, pivots[kind], chart'.pivots[kind], broke, close)
    <3>1. /\ MarkedAs(kind, line[kind], Marked(line, broke, close)[kind], broke, close)
          /\ MarkedAs(kind, pivots[kind], Marked(pivots, broke, close)[kind], broke, close)
      BY <1>3, <1>9, MarkingIs
    <3>2. timeline' = Marked(line, broke, close) /\ chart'.pivots = Marked(pivots, broke, close)
      BY <1>5, <1>8
    <3>3. QED
      BY <3>1, <3>2, Zenon
  <2>2. (kind \in broke) <=> (line[kind].there /\ ~line[kind].broken /\ Beyond(kind, close, line[kind].price))
    BY <1>7
  <2>3. Compared(kind, line[kind], pivots[kind], prior, close, seen)
    BY <1>2
  <2>4. QED
    BY <2>1, <2>2, <2>3, MarkingKeeps
<1>12. timeline' \in Lines /\ chart' \in [pivots : Lines, trend : TrendSet]
  <2>1. Marked(line, broke, close) \in Lines /\ Marked(pivots, broke, close) \in Lines
    <3>1. \E kind : kind \in Kinds
      BY DEF Kinds
    <3>2. QED
      BY <1>3, <1>9, <3>1, MarkedPivots DEF Lines
  <2>2. chart.trend \in TrendSet
    BY DEF StructureInv
  <2>3. QED
    BY <1>5, <1>8, <1>10, <2>1, <2>2
<1>13. /\ seen' \in 0..Enough
       /\ Len(recent') >= (IF seen' < Kept THEN seen' ELSE Kept)
       /\ IF seen' < 5 THEN Len(recent') = seen' /\ \A kind \in Kinds : ~timeline'[kind].there
          ELSE Len(recent') >= 5
  <2>1. /\ recent \in Seq(Candles) /\ seen \in 0..Enough /\ Len(recent) <= Kept
        /\ seen < 5 => Len(recent) = seen
        /\ ~ (seen < 5) => Len(recent) >= 5
        /\ Len(recent) >= (IF seen < Kept THEN seen ELSE Kept)
    BY DEF StructureInv
  <2>2. Len(recent) \in Nat
    BY <2>1
  <2>3. seen' < 5 => seen < 4
    BY <1>5, <2>1, Prices
  <2>4. seen' \in 0..Enough
    BY <1>5, <2>1, Prices
  <2>5. Len(recent') >= (IF seen' < Kept THEN seen' ELSE Kept)
    BY <1>4, <1>5, <2>1, <2>2, Prices
  <2>6. /\ (seen' < 5 => Len(recent') = seen') /\ (~ (seen' < 5) => Len(recent') >= 5)
    BY <1>4, <1>5, <2>1, <2>2, Prices
  <2>7. seen' < 5 => \A kind \in Kinds : ~timeline'[kind].there
    BY <1>11, <2>3
  <2>8. QED
    BY <2>4, <2>5, <2>6, <2>7
<1>14. BreaksAgree'
  BY <1>5, <1>8, <1>10 DEF BreaksAgree
<1>15. QED
  BY <1>4, <1>5, <1>6, <1>11, <1>12, <1>13, <1>14 DEF StructureInv

THEOREM StructureInvariant == StructureSpec => []StructureInv
<1>1. StructureInit => StructureInv
  <2> SUFFICES ASSUME StructureInit PROVE StructureInv
    OBVIOUS
  <2>2. BreaksAgree
    BY DEF StructureInit, BreaksAgree, NoVerdict
  <2> DEFINE bare == [kind \in Kinds |-> NoPivot]
  <2>3. recent = <<>> /\ seen = 0
    BY Zenon DEF StructureInit
  <2>4. timeline = bare /\ chart = [pivots |-> bare, trend |-> ""]
    BY Zenon DEF StructureInit
  <2>5. "" \in TrendSet
    BY DEF TrendSet
  <2>6. bare \in Lines
    BY NoPivotTyped DEF Lines
  <2>7. timeline \in Lines /\ chart \in [pivots : Lines, trend : TrendSet] /\ chart.pivots = bare
    <3> HIDE DEF bare
    <3>1. \A x \in TrendSet : LET r == [pivots |-> bare, trend |-> x]
                              IN  r \in [pivots : Lines, trend : TrendSet] /\ r.pivots = bare
      BY <2>6
    <3>2. QED
      BY <2>4, <2>5, <2>6, <3>1, Zenon
  <2>8. \A kind \in Kinds : timeline[kind] = NoPivot /\ chart.pivots[kind] = NoPivot
    BY <2>4, <2>7
  <2>9. \A kind \in Kinds : /\ Alike(timeline[kind], chart.pivots[kind])
                            /\ Judged(kind, timeline[kind], LastClose)
                            /\ ~timeline[kind].there
    BY NoPivotTyped, <2>8 DEF Alike, Judged
  <2>10. \A kind \in Kinds : Labelled(timeline[kind])
    BY NoPivotTyped, <2>8, Zenon DEF Labelled
  <2>11. recent \in Seq(Candles) /\ Len(recent) = 0 /\ seen = 0
    BY <2>3
  <2>12. QED
    BY <2>2, <2>7, <2>9, <2>10, <2>11, Prices DEF StructureInv
<1>2. StructureInv /\ [NextCandle]_structureVars => StructureInv'
  <2> SUFFICES ASSUME StructureInv, [NextCandle]_structureVars PROVE StructureInv'
    OBVIOUS
  <2>1. CASE NextCandle
    BY <2>1, CandleKeeps DEF NextCandle
  <2>2. CASE UNCHANGED structureVars
    BY <2>2 DEF structureVars, StructureInv, LastClose, BreaksAgree
  <2>3. QED
    BY <2>1, <2>2
<1>3. QED
  BY <1>1, <1>2, PTL DEF StructureSpec

\* The candles are kept as far back as anybody looks, and no pivot is unlabelled
\* (structureA2Core.mjs:135-234, xmiStructure.mjs:98-137).
THEOREM StructureTypeCorrect == StructureSpec => []StructureTypeOK
<1>1. ASSUME StructureInv PROVE StructureTypeOK
  <2>1. recent \in Seq(Candles) /\ Len(recent) <= Kept /\ seen \in 0..Enough
        /\ Len(recent) >= (IF seen < Kept THEN seen ELSE Kept)
    BY <1>1 DEF StructureInv
  <2>2. \A kind \in Kinds : timeline[kind].there = (timeline[kind].label # "")
    BY <1>1, Zenon DEF StructureInv, Labelled
  <2>3. chart.trend \in TrendSet
    BY <1>1 DEF StructureInv
  <2>4. QED
    BY <2>1, <2>2, <2>3, Zenon DEF StructureTypeOK, TrendSet
<1>2. QED
  BY <1>1, StructureInvariant, PTL

\* The strategy and the chart report the same breaks, each the first close beyond its level,
\* whatever the candles (structureA2Core.mjs:135-234, xmiStructure.mjs:98-137).
THEOREM BreaksAreFirst == StructureSpec => []BreaksAreFirstCloses
<1>1. ASSUME StructureInv PROVE FirstCloseBreaks
  <2>1. ASSUME NEW kind \in Kinds
        PROVE  /\ timeline[kind].broken = timeline[kind].beyond
               /\ chart.pivots[kind].broken = chart.pivots[kind].beyond
    BY <1>1 DEF StructureInv, Alike, Judged
  <2>2. QED
    BY <2>1 DEF FirstCloseBreaks
<1>2. StructureInv => BreaksAreFirstCloses
  BY <1>1 DEF StructureInv, BreaksAreFirstCloses
<1>3. QED
  BY <1>2, StructureInvariant, PTL

================================================================================
