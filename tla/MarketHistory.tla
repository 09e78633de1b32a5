---------------------------- MODULE MarketHistory ----------------------------
(***************************************************************************)
(* fetchTradeLockerHistory (src/lib/marketData.js): a span of candles is   *)
(* asked for in pages, one await each, because the broker answers no more  *)
(* than MAX_BARS_PER_REQUEST at once.  Candles are kept by their time,     *)
(* those of the span only, until there are as many as the caller wants.    *)
(***************************************************************************)
EXTENDS Integers, FiniteSetsExt

CONSTANTS
  Resolution,   \* the time between candles
  PerRequest,   \* MAX_BARS_PER_REQUEST
  LastCandle,   \* the newest candle the broker may have
  Wanted        \* maxBars of the callers, not above HARD_MAX_TOTAL_BARS

ASSUME HistoryAssumption ==
  /\ Resolution \in Nat \ {0} /\ PerRequest \in Nat \ {0}
  /\ LastCandle \in Nat /\ Wanted \subseteq Nat \ {0}

VARIABLES candles, span, cursor, byTime, chunks, history,
          unread   \* history: the candles of pages that came in a shape the code does not know

historyVars == <<candles, span, cursor, byTime, chunks, history, unread>>

Asking == [ends |-> "pending", times |-> {}, truncated |-> FALSE]

\* A market may be closed for any time; candles begin at multiples of the resolution.
HistoryInit ==
  /\ candles \in SUBSET {t \in 1..LastCandle : t % Resolution = 0}
  /\ span \in [from : 1..LastCandle, to : 1..(LastCandle + 1), wanted : Wanted]
  /\ span.from < span.to                     \* "to must be later than from"
  /\ cursor = span.from
  /\ byTime = {} /\ chunks = 0 /\ unread = {}
  /\ history = Asking

Full == Cardinality(byTime) >= span.wanted
ChunkTo == Min({span.to, cursor + (PerRequest - 1) * Resolution})

Asked == {t \in candles : cursor <= t /\ t <= ChunkTo}

\* The broker answers in the order of time; it may add the candle that the span begins in.
Answers ==
  LET before == {t \in candles : t < cursor /\ cursor < t + Resolution}
  IN  {Asked, Asked \cup before}

\* The earliest n of a set of times.
Earliest(n, times) == {t \in times : Cardinality({u \in times : u < t}) < n}

\* Variant of Taken: the candles that are not in the span count as well.
TakenAny(answer) == byTime \cup Earliest(span.wanted - Cardinality(byTime), answer \ byTime)

\* What is kept of an answer: it is read until there are enough.
Taken(answer) ==
  LET inSpan == {t \in answer : span.from <= t /\ t <= span.to}
  IN  byTime \cup Earliest(span.wanted - Cardinality(byTime), inSpan \ byTime)

\* extractBars finds candles in the answer, or takes a shape it does not know for none.
FetchChunk ==
  /\ history = Asking /\ cursor <= span.to /\ ~Full
  /\ \/ \E answer \in Answers : byTime' = Taken(answer) /\ UNCHANGED unread
     \/ unread' = unread \cup Asked /\ UNCHANGED byTime
  /\ chunks' = chunks + 1
  /\ cursor' = ChunkTo + Resolution
  /\ UNCHANGED <<candles, span, history>>

ReturnHistory ==
  /\ history = Asking /\ (cursor > span.to \/ Full)
  /\ history' = [ends |-> "returned", times |-> byTime, truncated |-> Full /\ cursor <= span.to]
  /\ UNCHANGED <<candles, span, cursor, byTime, chunks, unread>>

\* Nothing is kept of the chunks before the one that fails.
FetchThrows ==
  /\ history = Asking /\ cursor <= span.to /\ ~Full
  /\ history' = [Asking EXCEPT !.ends = "thrown"]
  /\ UNCHANGED <<candles, span, cursor, byTime, chunks, unread>>

HistoryNext == FetchChunk \/ ReturnHistory \/ FetchThrows

HistorySpec == HistoryInit /\ [][HistoryNext]_historyVars

-----------------------------------------------------------------------------
HistoryTypeOK ==
  /\ byTime \cup unread \subseteq candles /\ chunks \in 0..LastCandle
  /\ cursor \in 1..(LastCandle + PerRequest * Resolution + 1)
  /\ history.ends \in {"pending", "returned", "thrown"}

OnePage == span.to - span.from <= (PerRequest - 1) * Resolution

\* A history has no candle from outside its span and no hole but the pages that were not
\* read: it is the earliest of the candles that were, all of them unless there are more than
\* were wanted.  A span of several pages must begin with a candle for that, as the studies'
\* spans do: the pages of any other leave a gap that a candle may fall into
\* (marketData.js:92-187).
HistoryHasNoHole ==
  history.ends = "returned" =>
    LET inSpan == {t \in candles : span.from <= t /\ t <= span.to}
    IN  /\ span.from % Resolution = 0 \/ OnePage =>
             history.times = Earliest(span.wanted, inSpan \ unread)
        /\ history.times \subseteq inSpan
        /\ history.truncated => Cardinality(history.times) = span.wanted
==============================================================================
