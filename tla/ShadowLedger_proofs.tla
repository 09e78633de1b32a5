-------------------------- MODULE ShadowLedger_proofs --------------------------

(***************************************************************************)
(* Proofs about ShadowLedger, for any number of candles, of scans by hand  *)
(* and of scans that are cut off, and about SignalScan.                    *)
(*                                                                         *)
(* What a row of the ledger says is what a look at the candles up to some  *)
(* past one gives (Looked).  Going on from such a row, with candles that   *)
(* begin no later than behind the last it has been through, is such a look *)
(* again (Continues); so are the copies that a scan is about to write.     *)
(***************************************************************************)
EXTENDS MCShadowLedger, WellFoundedInduction, FiniteSetTheorems, TLAPS

(***************************************************************************)
(* The least and the greatest of some candles.                             *)
(***************************************************************************)
LEMMA LeastOf ==
  ASSUME NEW S \in SUBSET Nat, S # {}
  PROVE  Least(S) \in S /\ \A u \in S : Least(S) <= u
<1> DEFINE R == OpToRel(<, Nat)
<1>1. \A x, y \in Nat : <<x, y>> \in R <=> x < y
  BY DEF OpToRel
<1>2. PICK x \in S : \A y \in S : ~ (<<y, x>> \in R)
  <2> HIDE DEF R
  <2>1. IsWellFoundedOn(R, Nat)
    BY NatLessThanWellFounded DEF R
  <2> QED
    BY <2>1, WFMin
<1> HIDE DEF R
<1>3. \A u \in S : x <= u
  <2>1. \A u \in S : u \in Nat /\ x \in Nat /\ ~ (u < x)
    BY <1>1, <1>2
  <2> QED
    BY <2>1
<1> QED
  BY <1>3 DEF Least

LEMMA GreatestOf ==
  ASSUME NEW n \in Nat, NEW S \in SUBSET (0..n), S # {}
  PROVE  Greatest(S) \in S /\ \A u \in S : u <= Greatest(S)
<1> DEFINE D == {n - u : u \in S}
<1>1. D \in SUBSET Nat /\ D # {}
  <2>1. \A u \in S : n - u \in Nat
    OBVIOUS
  <2>2. PICK u \in S : TRUE
    OBVIOUS
  <2>3. n - u \in D
    BY <2>2
  <2> QED
    BY <2>1, <2>3
<1>2. Least(D) \in D /\ \A d \in D : Least(D) <= d
  <2> HIDE DEF D
  <2> QED
    BY <1>1, LeastOf
<1>3. PICK x \in S : Least(D) = n - x
  BY <1>2
<1>4. \A u \in S : n - u \in D
  OBVIOUS
<1> HIDE DEF D
<1>5. \A u \in S : u <= x
  BY <1>2, <1>3, <1>4
<1> QED
  BY <1>5 DEF Greatest

(***************************************************************************)
(* A look at the candles up to t, at the trade of signal time s.           *)
(***************************************************************************)
Opened(s) == [NewTrade EXCEPT !.state = "OPEN", !.entered = s + 1]
Look(s, t) == Evaluate(s, NewTrade, Printed(s + 1, t))
Looked(s, row) == \E t \in 0..Len(market) : row = Look(s, t)

MarketOK == market \in Seq(Effects) /\ Len(market) \in 0..Horizon

LEMMA Candles ==
  ASSUME MarketOK, NEW from \in Nat \ {0}, NEW c \in 0..Len(market)
  PROVE  /\ Printed(from, c) \in SUBSET (from..c) /\ Printed(from, c) \in SUBSET Nat
         /\ Printed(from, c) \in SUBSET (0..c)
         /\ \A u \in Nat : u \in Printed(from, c) <=> (from <= u /\ u <= c /\ market[u] # "missing")
  BY DEF MarketOK, Printed

LEMMA Numbers == Horizon \in Nat /\ Times \in SUBSET (Nat \ {0}) /\ \A s \in Times : s <= Horizon
  BY HorizonAssumption DEF Times

\* Which look a look is: none yet, a missing candle of entry, a gap at the entry, or the
\* trade that was entered and followed.
LEMMA LookParts ==
  ASSUME MarketOK, NEW s \in Times, NEW t \in 0..Len(market)
  PROVE  LET K == Printed(s + 1, t) IN
         /\ K = {} => Look(s, t) = NewTrade
         /\ K # {} /\ s + 1 \notin K =>
              Look(s, t) = [NewTrade EXCEPT !.state = "SKIPPED", !.outcome = "MISSING_ENTRY_BAR"]
         /\ s + 1 \in K /\ market[s + 1] = "gap" =>
              Look(s, t) = [NewTrade EXCEPT !.state = "SKIPPED", !.outcome = "ENTRY_GAP_INVALIDATED",
                                            !.entered = s + 1, !.last = s + 1]
         /\ s + 1 \in K /\ market[s + 1] # "gap" => Look(s, t) = Follow(Opened(s), K)
<1> DEFINE K == Printed(s + 1, t)
<1>0. s \in Nat \ {0} /\ K \in SUBSET Nat /\ \A u \in K : u > s
  BY Numbers, Candles
<1>1. {u \in K : u > s} = K
  BY <1>0
<1>2. Look(s, t) = Enter(s, NewTrade, K)
  BY DEF Look, Evaluate, NewTrade, NoTrade
<1>3. K # {} => Least(K) \in K /\ \A u \in K : Least(K) <= u
  BY <1>0, LeastOf
<1> HIDE DEF K
<1>10. K # {} => Least(K) \in Nat /\ Least(K) > s
  BY <1>0, <1>3
<1>4. K # {} /\ s + 1 \notin K => Least(K) > s + 1
  <2>1. K # {} /\ s + 1 \notin K => Least(K) # s + 1
    BY <1>3
  <2> QED
    BY <1>0, <1>10, <2>1
<1>5. s + 1 \in K => Least(K) = s + 1
  <2>1. s + 1 \in K => K # {} /\ Least(K) <= s + 1
    BY <1>3
  <2> QED
    BY <1>0, <1>10, <2>1
<1> DEFINE missing == [NewTrade EXCEPT !.state = "SKIPPED", !.outcome = "MISSING_ENTRY_BAR"]
           gapped == [NewTrade EXCEPT !.state = "SKIPPED", !.outcome = "ENTRY_GAP_INVALIDATED",
                                      !.entered = s + 1, !.last = s + 1]
           followed == Follow(Opened(s), K)
<1>6. Enter(s, NewTrade, K) =
        CASE K = {} -> NewTrade
          [] K # {} /\ Least(K) > s + 1 -> missing
          [] K # {} /\ Least(K) = s + 1 /\ market[s + 1] = "gap" -> gapped
          [] OTHER -> followed
  BY <1>1, Zenon DEF Enter, Opened
<1> HIDE DEF missing, gapped, followed
<1>7. K # {} /\ s + 1 \notin K => Enter(s, NewTrade, K) = missing
  BY <1>0, <1>4, <1>6, <1>10
<1>8. s + 1 \in K /\ market[s + 1] = "gap" => Enter(s, NewTrade, K) = gapped
  <2>1. s + 1 \in K => K # {} /\ ~ (Least(K) > s + 1)
    BY <1>0, <1>5
  <2> QED
    BY <1>5, <1>6, <2>1
<1>9. s + 1 \in K /\ market[s + 1] # "gap" => Enter(s, NewTrade, K) = followed
  <2>1. s + 1 \in K => K # {} /\ ~ (Least(K) > s + 1)
    BY <1>0, <1>5
  <2> QED
    BY <1>5, <1>6, <2>1
<1>11. K = {} => Enter(s, NewTrade, K) = NewTrade
  BY <1>6
<1> QED
  BY <1>2, <1>7, <1>8, <1>9, <1>11 DEF K, missing, gapped, followed

\* Following an entered trade through candles of which the last is the greatest.
LEMMA FollowParts ==
  ASSUME MarketOK, NEW s \in Times, NEW t \in 0..Len(market), s + 1 \in Printed(s + 1, t)
  PROVE  LET K == Printed(s + 1, t)
             ends == {u \in K : Decisive(u)} IN
         /\ ends # {} => /\ Follow(Opened(s), K)
                              = [Opened(s) EXCEPT !.state = "CLOSED", !.last = Least(ends),
                                   !.outcome = IF market[Least(ends)] = "target" THEN "TARGET" ELSE "STOP"]
                         /\ Least(ends) \in K
         /\ ends = {} => /\ Follow(Opened(s), K) = [Opened(s) EXCEPT !.last = Greatest({0} \cup K)]
                         /\ Greatest({0} \cup K) \in K
                         /\ \A u \in K : u <= Greatest({0} \cup K)
<1> DEFINE K == Printed(s + 1, t)
           ends == {u \in K : Decisive(u)}
<1>0. s \in Nat \ {0} /\ t \in Nat /\ K \in SUBSET Nat /\ K \in SUBSET (0..t) /\ \A u \in K : u > 0
  BY Numbers, Candles DEF MarketOK
<1>1. Opened(s).last = 0
  BY DEF Opened, NewTrade, NoTrade
<1>2. {u \in K : u > Opened(s).last /\ Decisive(u)} = ends
  BY <1>0, <1>1
<1>3. ends # {} => Least(ends) \in ends
  BY <1>0, LeastOf
<1>4. {0} \cup K \in SUBSET (0..t) /\ {0} \cup K # {}
  BY <1>0
<1>5. /\ Greatest({0} \cup K) \in {0} \cup K
      /\ \A u \in {0} \cup K : u <= Greatest({0} \cup K)
  <2> HIDE DEF K
  <2> QED
    BY <1>0, <1>4, GreatestOf
<1>6. Greatest({0} \cup K) \in K
  <2>1. s + 1 \in K /\ s + 1 <= Greatest({0} \cup K)
    BY <1>5
  <2>2. Greatest({0} \cup K) # 0
    BY <1>0, <2>1
  <2> QED
    BY <1>5, <2>2
<1> HIDE DEF ends
<1>7. ends # {} => Follow(Opened(s), K)
                     = [Opened(s) EXCEPT !.state = "CLOSED", !.last = Least(ends),
                          !.outcome = IF market[Least(ends)] = "target" THEN "TARGET" ELSE "STOP"]
  BY <1>2 DEF Follow
<1>8. ends = {} => Follow(Opened(s), K) = [Opened(s) EXCEPT !.last = Greatest({0} \cup K)]
  BY <1>1, <1>2 DEF Follow
<1> QED
  BY <1>3, <1>5, <1>6, <1>7, <1>8 DEF ends

\* It has ended if a candle decided it.
LEMMA FollowState ==
  ASSUME MarketOK, NEW s \in Times, NEW t \in 0..Len(market), s + 1 \in Printed(s + 1, t)
  PROVE  Follow(Opened(s), Printed(s + 1, t)).state
           = IF \E u \in Printed(s + 1, t) : Decisive(u) THEN "CLOSED" ELSE "OPEN"
<1> DEFINE K == Printed(s + 1, t)
           ends == {u \in K : Decisive(u)}
           o == IF market[Least(ends)] = "target" THEN "TARGET" ELSE "STOP"
           F == Follow(Opened(s), K)
<1>1. ends # {} => F = [Opened(s) EXCEPT !.state = "CLOSED", !.last = Least(ends), !.outcome = o]
  BY FollowParts
<1>2. ends = {} => F = [Opened(s) EXCEPT !.last = Greatest({0} \cup K)]
  BY FollowParts
<1>3. Opened(s).state = "OPEN" /\ {"state", "last", "outcome"} \subseteq DOMAIN Opened(s)
  BY DEF Opened, NewTrade, NoTrade
<1>4. ends # {} <=> \E u \in K : Decisive(u)
  OBVIOUS
<1> HIDE DEF ends, o, F, K
<1>5. ends # {} => F.state = "CLOSED"
  BY <1>1, <1>3
<1>6. ends = {} => F.state = "OPEN"
  BY <1>2, <1>3
<1> QED
  BY <1>4, <1>5, <1>6 DEF F, K

\* A row that was looked at is that of a trade.
LEMMA LookType ==
  ASSUME MarketOK, NEW s \in Times, NEW t \in 0..Len(market)
  PROVE  Look(s, t) \in TradeRow /\ Look(s, t) # NoTrade
<1> DEFINE K == Printed(s + 1, t)
<1>0. s \in Nat /\ Horizon \in Nat /\ \A u \in K : u \in 0..Horizon
  BY Numbers, Candles DEF MarketOK
<1>1. NewTrade \in TradeRow /\ NewTrade.state = "PENDING_ENTRY" /\ NoTrade.state = "NONE"
  BY <1>0 DEF NewTrade, NoTrade, TradeRow, LedgerStates, LedgerOutcomes
<1>2. CASE K = {}
  BY <1>1, <1>2, LookParts
<1>3. CASE K # {} /\ s + 1 \notin K
  <2>1. Look(s, t) = [NewTrade EXCEPT !.state = "SKIPPED", !.outcome = "MISSING_ENTRY_BAR"]
    BY <1>3, LookParts
  <2> QED
    BY <1>0, <1>1, <2>1 DEF TradeRow, LedgerStates, LedgerOutcomes, NewTrade, NoTrade
<1>4. CASE s + 1 \in K /\ market[s + 1] = "gap"
  <2>1. Look(s, t) = [NewTrade EXCEPT !.state = "SKIPPED", !.outcome = "ENTRY_GAP_INVALIDATED",
                                     !.entered = s + 1, !.last = s + 1]
    BY <1>4, LookParts
  <2>2. s + 1 \in 0..Horizon
    BY <1>0, <1>4
  <2> QED
    BY <1>1, <2>1, <2>2 DEF TradeRow, LedgerStates, LedgerOutcomes, NewTrade, NoTrade
<1>5. CASE s + 1 \in K /\ market[s + 1] # "gap"
  <2> DEFINE ends == {u \in K : Decisive(u)}
  <2>1. Look(s, t) = Follow(Opened(s), K)
    BY <1>5, LookParts
  <2>2. s + 1 \in 0..Horizon
    BY <1>0, <1>5
  <2>3. Opened(s) \in TradeRow /\ Opened(s).state = "OPEN"
    BY <1>1, <2>2 DEF Opened, TradeRow, LedgerStates, LedgerOutcomes, NewTrade, NoTrade
  <2>4. CASE ends # {}
    <3>1. PICK o \in {"TARGET", "STOP"}, l \in K :
            Look(s, t) = [Opened(s) EXCEPT !.state = "CLOSED", !.last = l, !.outcome = o]
      <4> DEFINE l == Least(ends)
                 o == IF market[l] = "target" THEN "TARGET" ELSE "STOP"
      <4>1. l \in K /\ Look(s, t) = [Opened(s) EXCEPT !.state = "CLOSED", !.last = l, !.outcome = o]
        BY <1>5, <2>1, <2>4, FollowParts
      <4>2. o \in {"TARGET", "STOP"}
        OBVIOUS
      <4> HIDE DEF l, o
      <4> QED
        BY <4>1, <4>2
    <3>2. l \in 0..Horizon
      BY <1>0, <3>1
    <3> HIDE DEF K, ends
    <3>3. Look(s, t) \in TradeRow
      BY <2>3, <3>1, <3>2 DEF TradeRow, LedgerStates, LedgerOutcomes
    <3>4. Look(s, t).state # "NONE"
      BY <2>3, <3>1, <3>2 DEF TradeRow
    <3> QED
      BY <1>1, <3>3, <3>4
  <2>5. CASE ends = {}
    <3>1. PICK l \in K : Look(s, t) = [Opened(s) EXCEPT !.last = l]
      <4> DEFINE l == Greatest({0} \cup K)
      <4>1. l \in K /\ Look(s, t) = [Opened(s) EXCEPT !.last = l]
        BY <1>5, <2>1, <2>5, FollowParts
      <4> HIDE DEF l
      <4> QED
        BY <4>1
    <3>2. l \in 0..Horizon
      BY <1>0, <3>1
    <3> HIDE DEF K, ends
    <3>3. Look(s, t) \in TradeRow
      BY <2>3, <3>1, <3>2 DEF TradeRow, LedgerStates, LedgerOutcomes
    <3>4. Look(s, t).state # "NONE"
      BY <2>3, <3>1, <3>2 DEF TradeRow
    <3> QED
      BY <1>1, <3>3, <3>4
  <2> QED
    BY <2>4, <2>5
<1> QED
  BY <1>2, <1>3, <1>4, <1>5

\* The active looks: nothing was printed since the signal, or the trade was entered and none
\* of the candles up to its last decided it.
LEMMA PendingLook ==
  ASSUME MarketOK, NEW s \in Times, NEW t \in 0..Len(market), Look(s, t).state = "PENDING_ENTRY"
  PROVE  Look(s, t) = NewTrade
<1> DEFINE K == Printed(s + 1, t)
<1>1. CASE K = {}
  BY <1>1, LookParts
<1>2. CASE K # {} /\ s + 1 \notin K
  BY <1>2, LookParts DEF NewTrade, NoTrade
<1>3. CASE s + 1 \in K /\ market[s + 1] = "gap"
  BY <1>3, LookParts DEF NewTrade, NoTrade
<1>4. CASE s + 1 \in K /\ market[s + 1] # "gap"
  <2>1. Look(s, t) = Follow(Opened(s), K)
    BY <1>4, LookParts
  <2> QED
    BY <1>4, <2>1, FollowState
<1> QED
  BY <1>1, <1>2, <1>3, <1>4

LEMMA OpenLook ==
  ASSUME MarketOK, NEW s \in Times, NEW t \in 0..Len(market), Look(s, t).state = "OPEN"
  PROVE  LET K == Printed(s + 1, t)
             l == Look(s, t).last IN
         /\ s + 1 \in K /\ market[s + 1] # "gap"
         /\ \A u \in K : ~Decisive(u) /\ u <= l
         /\ l \in K /\ Look(s, t) = [Opened(s) EXCEPT !.last = l]
<1> DEFINE K == Printed(s + 1, t)
           ends == {u \in K : Decisive(u)}
<1>1. K # {}
  BY LookParts DEF NewTrade, NoTrade
<1>2. s + 1 \in K
  BY <1>1, LookParts DEF NewTrade, NoTrade
<1>3. market[s + 1] # "gap"
  BY <1>2, LookParts DEF NewTrade, NoTrade
<1>4. Look(s, t) = Follow(Opened(s), K)
  BY <1>2, <1>3, LookParts
<1>5. Opened(s).state = "OPEN" /\ "state" \in DOMAIN Opened(s) /\ "last" \in DOMAIN Opened(s)
      /\ "outcome" \in DOMAIN Opened(s)
  BY DEF Opened, NewTrade, NoTrade
<1>6. ends = {}
  BY <1>2, <1>4, FollowState
<1>7. /\ Look(s, t) = [Opened(s) EXCEPT !.last = Greatest({0} \cup K)]
      /\ Greatest({0} \cup K) \in K
      /\ \A u \in K : u <= Greatest({0} \cup K)
  BY <1>2, <1>4, <1>6, FollowParts
<1>8. Look(s, t).last = Greatest({0} \cup K)
  BY <1>5, <1>7
<1> QED
  BY <1>2, <1>3, <1>6, <1>7, <1>8

LEMMA PendingContinues ==
  ASSUME MarketOK, NEW s \in Times, NEW c \in 0..Len(market), NEW from \in 1..(s + 1)
  PROVE  Evaluate(s, NewTrade, Printed(from, c)) = Look(s, c)
<1>0. s \in Nat
  BY Numbers
<1>1. {u \in Printed(from, c) : u > s} = {u \in Printed(s + 1, c) : u > s}
  <2>1. \A u \in Nat : u > s => (u \in Printed(from, c) <=> u \in Printed(s + 1, c))
    BY <1>0, Candles
  <2>2. Printed(from, c) \in SUBSET Nat /\ Printed(s + 1, c) \in SUBSET Nat
    BY <1>0, Candles
  <2> QED
    BY <2>1, <2>2
<1>2. NewTrade.state = "PENDING_ENTRY"
  BY DEF NewTrade, NoTrade
<1>3. Enter(s, NewTrade, Printed(from, c)) = Enter(s, NewTrade, Printed(s + 1, c))
  BY <1>1, Zenon DEF Enter
<1> QED
  BY <1>2, <1>3 DEF Look, Evaluate

LEMMA OpenContinues ==
  ASSUME MarketOK, NEW s \in Times, NEW t \in 0..Len(market), Look(s, t).state = "OPEN",
         NEW c \in 0..Len(market), NEW from \in 1..(Look(s, t).last + 1)
  PROVE  Evaluate(s, Look(s, t), Printed(from, c)) \in {Look(s, t), Look(s, c)}
<1> DEFINE row == Look(s, t)
           l == row.last
           K == Printed(s + 1, t)
           C == Printed(from, c)
           J == Printed(s + 1, c)
           ends == {u \in C : u > l /\ Decisive(u)}
           endsJ == {u \in J : Decisive(u)}
<1>0. s \in Nat \ {0} /\ t \in Nat /\ c \in Nat
  BY Numbers DEF MarketOK
<1>1. /\ s + 1 \in K /\ market[s + 1] # "gap" /\ l \in K
      /\ \A u \in K : ~Decisive(u) /\ u <= l
      /\ row = [Opened(s) EXCEPT !.last = l]
  BY OpenLook
<1>2. /\ l \in Nat /\ s + 1 <= l /\ l <= t /\ from \in Nat \ {0}
      /\ market[l] # "missing"
  <2>1. l \in Nat /\ l <= t /\ s + 1 <= l /\ market[l] # "missing"
    BY <1>0, <1>1, Candles
  <2> QED
    BY <2>1
<1>3. /\ C \in SUBSET Nat /\ J \in SUBSET Nat /\ C \in SUBSET (0..c)
      /\ \A u \in Nat : /\ u \in C <=> (from <= u /\ u <= c /\ market[u] # "missing")
                        /\ u \in J <=> (s + 1 <= u /\ u <= c /\ market[u] # "missing")
                        /\ u \in K <=> (s + 1 <= u /\ u <= t /\ market[u] # "missing")
  BY <1>0, <1>2, Candles
<1>4. "state" \in DOMAIN Opened(s) /\ "last" \in DOMAIN Opened(s) /\ "outcome" \in DOMAIN Opened(s)
  BY DEF Opened, NewTrade, NoTrade
<1>5. Evaluate(s, row, C) = Follow(row, C)
  BY DEF Evaluate
<1>6. from <= l + 1
  BY <1>2
<1> HIDE DEF row, l, K, C, J
<1>7. ends = {u \in J : u > l /\ Decisive(u)}
  <2>1. \A u \in Nat : u > l => (u \in C <=> u \in J)
    BY <1>0, <1>2, <1>3, <1>6
  <2> QED
    BY <1>3, <2>1
<1>8. endsJ \in SUBSET {u \in J : u > l /\ Decisive(u)}
  <2>1. \A u \in J : ~ (u > l) => u \in K
    BY <1>0, <1>2, <1>3
  <2> QED
    BY <1>1, <2>1
<1>9. ends = endsJ
  BY <1>7, <1>8
<1>10. c < l \/ (c >= l /\ s + 1 \in J)
  <2>1. c >= l => s + 1 \in J
    BY <1>0, <1>1, <1>2, <1>3
  <2> QED
    BY <1>0, <1>2, <2>1
<1>11. CASE c < l
  <2>1. ends = {} /\ \A u \in C : u < l
    <3>1. \A u \in C : u \in Nat /\ u <= c
      BY <1>3
    <3> QED
      BY <1>0, <1>2, <1>11, <3>1
  <2>2. Greatest({l} \cup C) = l
    <3>1. {l} \cup C \in SUBSET (0..l) /\ {l} \cup C # {}
      BY <1>2, <1>3, <2>1
    <3>2. Greatest({l} \cup C) \in {l} \cup C /\ l <= Greatest({l} \cup C)
      <4> DEFINE S == {l} \cup C
      <4> HIDE DEF S
      <4>1. S \in SUBSET (0..l) /\ S # {} /\ l \in S
        BY <3>1 DEF S
      <4>2. Greatest(S) \in S /\ l <= Greatest(S)
        BY <1>2, <4>1, GreatestOf
      <4> QED
        BY <4>2 DEF S
    <3> DEFINE g == Greatest({l} \cup C)
    <3>3. g = l \/ g < l
      BY <2>1, <3>2
    <3>4. g \in Nat /\ l <= g
      BY <1>2, <1>3, <3>2
    <3> HIDE DEF g
    <3>5. g = l
      BY <1>2, <3>3, <3>4
    <3> QED
      BY <3>5 DEF g
  <2>3. Follow(row, C) = [row EXCEPT !.last = l]
    BY <2>1, <2>2 DEF Follow, l
  <2> QED
    BY <1>1, <1>4, <1>5, <2>3 DEF row, C
<1>12. CASE c >= l /\ s + 1 \in J
  <2>1. Look(s, c) = Follow(Opened(s), J)
    BY <1>1, <1>12, LookParts DEF J
  <2>2. CASE ends # {}
    <3> DEFINE o == IF market[Least(ends)] = "target" THEN "TARGET" ELSE "STOP"
               oJ == IF market[Least(endsJ)] = "target" THEN "TARGET" ELSE "STOP"
    <3>1. Look(s, c) = [Opened(s) EXCEPT !.state = "CLOSED", !.last = Least(endsJ), !.outcome = oJ]
      BY <1>9, <1>12, <2>1, <2>2, FollowParts DEF J
    <3>2. Follow(row, C) = [row EXCEPT !.state = "CLOSED", !.last = Least(ends), !.outcome = o]
      BY <2>2 DEF Follow, l
    <3>3. o = oJ /\ Least(ends) = Least(endsJ)
      BY <1>9
    <3> HIDE DEF ends, endsJ, o, oJ
    <3> QED
      BY <1>1, <1>4, <1>5, <3>1, <3>2, <3>3 DEF row, C
  <2>3. CASE ends = {}
    <3> DEFINE m == Greatest({l} \cup C)
               n == Greatest({0} \cup J)
    <3>1. Look(s, c) = [Opened(s) EXCEPT !.last = n] /\ n \in J /\ \A u \in J : u <= n
      BY <1>9, <1>12, <2>1, <2>3, FollowParts DEF J
    <3>2. Follow(row, C) = [row EXCEPT !.last = m]
      BY <2>3 DEF Follow, l
    <3>3. m \in {l} \cup C /\ \A u \in {l} \cup C : u <= m
      <4> DEFINE S == {l} \cup C
      <4>1. S \in SUBSET (0..c) /\ S # {}
        BY <1>0, <1>2, <1>3, <1>12
      <4> HIDE DEF S
      <4>2. Greatest(S) \in S /\ \A u \in S : u <= Greatest(S)
        BY <1>0, <4>1, GreatestOf
      <4> QED
        BY <4>2 DEF S
    <3> HIDE DEF m, n
    <3>4. l \in J /\ m \in Nat /\ n \in Nat
      BY <1>0, <1>2, <1>3, <1>12, <3>1, <3>3
    <3>5. m <= n
      <4>1. m \in J
        BY <1>0, <1>2, <1>3, <3>3, <3>4
      <4> QED
        BY <3>1, <4>1
    <3>6. n <= m
      <4>1. n = l \/ n \in C
        BY <1>0, <1>2, <1>3, <1>6, <3>1, <3>4
      <4> QED
        BY <3>3, <4>1
    <3>7. m = n
      BY <3>4, <3>5, <3>6
    <3> QED
      BY <1>1, <1>4, <1>5, <3>1, <3>2, <3>7 DEF row, C
  <2> QED
    BY <2>2, <2>3
<1> QED
  BY <1>10, <1>11, <1>12

\* Going on from what was looked at is a look again.
LEMMA Continues ==
  ASSUME MarketOK, NEW s \in Times, NEW row, Looked(s, row), row.state \in {"PENDING_ENTRY", "OPEN"},
         NEW c \in 0..Len(market), NEW from \in Nat \ {0},
         from <= IF row.state = "PENDING_ENTRY" THEN s + 1 ELSE row.last + 1
  PROVE  Looked(s, Evaluate(s, row, Printed(from, c)))
<1>1. PICK t \in 0..Len(market) : row = Look(s, t)
  BY DEF Looked
<1>2. CASE row.state = "PENDING_ENTRY"
  <2>1. row = NewTrade
    BY <1>1, <1>2, PendingLook
  <2>2. from \in 1..(s + 1)
    BY <1>2, Numbers
  <2> QED
    BY <2>1, <2>2, PendingContinues DEF Looked
<1>3. CASE row.state = "OPEN"
  <2>1. row.last \in Nat
    BY <1>1, LookType, Numbers DEF TradeRow
  <2>2. from \in 1..(row.last + 1)
    BY <1>3, <2>1
  <2> QED
    BY <1>1, <1>3, <2>2, OpenContinues DEF Looked
<1> QED
  BY <1>2, <1>3

\* What a look says of its candles, in one formula.
Says(s, t) ==
  LET K == Printed(s + 1, t)
      ends == {u \in K : Decisive(u)} IN
  /\ K = {} => Look(s, t) = NewTrade
  /\ K # {} /\ s + 1 \notin K =>
       Look(s, t) = [NewTrade EXCEPT !.state = "SKIPPED", !.outcome = "MISSING_ENTRY_BAR"]
  /\ s + 1 \in K /\ market[s + 1] = "gap" =>
       Look(s, t) = [NewTrade EXCEPT !.state = "SKIPPED", !.outcome = "ENTRY_GAP_INVALIDATED",
                                     !.entered = s + 1, !.last = s + 1]
  /\ s + 1 \in K /\ market[s + 1] # "gap" /\ ends = {} =>
       Look(s, t) = [Opened(s) EXCEPT !.last = Greatest({0} \cup K)]
  /\ s + 1 \in K /\ market[s + 1] # "gap" /\ ends # {} =>
       /\ Look(s, t) = [Opened(s) EXCEPT !.state = "CLOSED", !.last = Least(ends),
                          !.outcome = IF market[Least(ends)] = "target" THEN "TARGET" ELSE "STOP"]
       /\ Least(ends) \in K

EveryLook == MarketOK => \A s \in Times, t \in 0..Len(market) : Says(s, t)

LEMMA EveryLookSays == EveryLook
<1> SUFFICES ASSUME MarketOK, NEW s \in Times, NEW t \in 0..Len(market) PROVE Says(s, t)
  BY DEF EveryLook
<1> DEFINE K == Printed(s + 1, t)
           ends == {u \in K : Decisive(u)}
<1>1. s + 1 \in K /\ market[s + 1] # "gap" => Look(s, t) = Follow(Opened(s), K)
  BY LookParts
<1>2. s + 1 \in K /\ market[s + 1] # "gap" /\ ends = {} =>
        Look(s, t) = [Opened(s) EXCEPT !.last = Greatest({0} \cup K)]
  BY <1>1, FollowParts
<1>3. s + 1 \in K /\ market[s + 1] # "gap" /\ ends # {} =>
        /\ Look(s, t) = [Opened(s) EXCEPT !.state = "CLOSED", !.last = Least(ends),
                           !.outcome = IF market[Least(ends)] = "target" THEN "TARGET" ELSE "STOP"]
        /\ Least(ends) \in K
  BY <1>1, FollowParts
<1> QED
  BY <1>2, <1>3, LookParts DEF Says

LEMMA EveryNextLookSays == EveryLook'
  BY EveryLookSays, PTL

\* A candle that prints leaves the earlier looks as they are.
LEMMA LooksStay ==
  ASSUME MarketOK, NEW e \in Effects, market' = Append(market, e), Len(market) < Horizon,
         NEW s \in Times, NEW t \in 0..Len(market)
  PROVE  Look(s, t)' = Look(s, t)
<1>0. s \in Nat \ {0} /\ \A u \in Printed(s + 1, t) : u \in 1..Len(market)
  BY Numbers, Candles DEF MarketOK
<1>1. \A u \in 1..Len(market) : market'[u] = market[u]
  BY DEF MarketOK
<1>2. Printed(s + 1, t)' = Printed(s + 1, t)
  BY <1>0, <1>1 DEF Printed, MarketOK
<1>3. MarketOK' /\ t \in 0..Len(market') /\ Len(market) \in Nat
  BY Numbers DEF MarketOK
<1>4. Says(s, t)
  BY EveryLookSays DEF EveryLook
<1>5. Says(s, t)'
  BY <1>3, EveryNextLookSays DEF EveryLook
<1> DEFINE K == Printed(s + 1, t)
           ends == {u \in K : Decisive(u)}
<1>6. \A u \in K : market'[u] = market[u] /\ (Decisive(u)' <=> Decisive(u))
  BY <1>0, <1>1 DEF Decisive
<1>7. {u \in K : Decisive(u)'} = ends
  BY <1>6
<1>8. CASE K = {}
  BY <1>2, <1>4, <1>5, <1>8 DEF Says
<1>9. CASE K # {} /\ s + 1 \notin K
  BY <1>2, <1>4, <1>5, <1>9 DEF Says
<1>10. CASE s + 1 \in K /\ market[s + 1] = "gap"
  BY <1>2, <1>4, <1>5, <1>6, <1>10 DEF Says
<1>11. CASE s + 1 \in K /\ market[s + 1] # "gap" /\ ends = {}
  BY <1>2, <1>4, <1>5, <1>6, <1>7, <1>11 DEF Says
<1>12. CASE s + 1 \in K /\ market[s + 1] # "gap" /\ ends # {}
  <2> DEFINE o == IF market[Least(ends)] = "target" THEN "TARGET" ELSE "STOP"
             p == IF market'[Least(ends)] = "target" THEN "TARGET" ELSE "STOP"
  <2>1. Look(s, t) = [Opened(s) EXCEPT !.state = "CLOSED", !.last = Least(ends), !.outcome = o]
        /\ Least(ends) \in K
    BY <1>4, <1>12 DEF Says
  <2>2. Look(s, t)' = [Opened(s) EXCEPT !.state = "CLOSED", !.last = Least(ends), !.outcome = p]
    BY <1>2, <1>5, <1>6, <1>7, <1>12 DEF Says
  <2>3. o = p
    BY <1>6, <2>1
  <2> HIDE DEF o, p
  <2> QED
    BY <2>1, <2>2, <2>3
<1> QED
  BY <1>8, <1>9, <1>10, <1>11, <1>12

(***************************************************************************)
(* The invariant.                                                          *)
(***************************************************************************)
Copies == UNION {[S -> TradeRow] : S \in SUBSET Times}
Request == [at : ScanSteps, candle : Nat, asOf : Nat, want : BOOLEAN, rows : Copies]
Observation == [by : {"nobody", "raw", "route"}, fresh : BOOLEAN]

Typed ==
  /\ kind \in Kinds /\ MarketOK
  /\ trades \in [Times -> TradeRow] /\ obs \in [Times -> Observation]
  /\ scan \in [Scans -> Request]
  /\ handScans \in Nat /\ ledgerFaults \in Nat /\ handScans + ledgerFaults <= Extras

\* Where a request of the route can be.
Stops ==
  CASE kind = "m15" -> {"raw"}
    [] kind = "v2" -> {"raw", "record", "active", "update", "capture", "insert"}
    [] kind = "soft" -> {"record", "active", "update", "capture", "insert"}
    [] OTHER -> {"record"}

RequestOK(p) ==
  IF scan[p].at = "idle" THEN scan[p] = Idle
  ELSE /\ scan[p].at \in Stops
       /\ scan[p].candle \in 1..scan[p].asOf /\ scan[p].asOf <= Len(market)
       /\ scan[p].at = "update" => DOMAIN scan[p].rows # {}

RowsOK == \A s \in Times : trades[s] # NoTrade => Looked(s, trades[s])

CopiesOK ==
  \A p \in Scans : \A s \in DOMAIN scan[p].rows :
    trades[s] # NoTrade /\ Looked(s, scan[p].rows[s])

LedgerInv == Typed /\ (\A p \in Scans : RequestOK(p)) /\ RowsOK /\ CopiesOK

LEMMA IdleType == Idle \in Request /\ Idle.at = "idle" /\ Idle.candle = 0 /\ Idle.asOf = 0 /\ Idle.rows = <<>>
<1>1. <<>> \in Copies
  BY DEF Copies
<1> QED
  BY <1>1 DEF Idle, Request, ScanSteps

LEMMA RowTypes == NoTrade \in TradeRow /\ NewTrade \in TradeRow /\ NewTrade # NoTrade
  BY Numbers DEF NoTrade, NewTrade, TradeRow, LedgerStates, LedgerOutcomes

LEMMA CopyType ==
  ASSUME NEW r \in Copies
  PROVE  DOMAIN r \in SUBSET Times /\ \A s \in DOMAIN r : r[s] \in TradeRow
  BY DEF Copies

\* What a route awaits after each of its steps.
LEMMA Afters ==
  ASSUME kind \in Kinds
  PROVE  /\ kind = "m15" => Route[1] = "raw" /\ After("raw") = "idle"
         /\ kind = "v2" => /\ Route[1] = "raw" /\ After("raw") = "record"
                           /\ After("record") = "active" /\ After("active") = "capture"
         /\ kind = "soft" => /\ Route[1] = "active" /\ After("active") = "record"
                             /\ After("record") = "capture"
         /\ Hourly => Route[1] = "record" /\ After("record") = "idle"
         /\ kind \in {"m15", "v2", "soft"} \/ Hourly
<1>1. CASE kind = "m15"
  <2>1. Route = <<"raw">>
    BY <1>1 DEF Route, M15Route
  <2>2. (CHOOSE i \in DOMAIN Route : Route[i] = "raw") = 1
    BY <2>1
  <2> QED
    BY <1>1, <2>1, <2>2 DEF After, Hourly
<1>2. CASE kind = "v2"
  <2>1. Route = <<"raw", "record", "active", "capture">>
    BY <1>2 DEF Route, V2Route
  <2>2. /\ (CHOOSE i \in DOMAIN Route : Route[i] = "raw") = 1
        /\ (CHOOSE i \in DOMAIN Route : Route[i] = "record") = 2
        /\ (CHOOSE i \in DOMAIN Route : Route[i] = "active") = 3
    BY <2>1
  <2> QED
    BY <1>2, <2>1, <2>2 DEF After, Hourly
<1>3. CASE kind = "soft"
  <2>1. Route = <<"active", "record", "capture">>
    BY <1>3 DEF Route, SoftRoute
  <2>2. /\ (CHOOSE i \in DOMAIN Route : Route[i] = "active") = 1
        /\ (CHOOSE i \in DOMAIN Route : Route[i] = "record") = 2
    BY <2>1
  <2> QED
    BY <1>3, <2>1, <2>2 DEF After, Hourly
<1>4. CASE Hourly
  <2>1. Route = <<"record">>
    BY <1>4 DEF Route, StructureRoute, BreakoutRoute, Hourly
  <2>2. (CHOOSE i \in DOMAIN Route : Route[i] = "record") = 1
    BY <2>1
  <2> QED
    BY <1>4, <2>1, <2>2 DEF After, Hourly
<1> QED
  BY <1>1, <1>2, <1>3, <1>4, KindsAssumption DEF Hourly

LEMMA Awaited ==
  ASSUME kind \in Kinds
  PROVE  /\ "raw" \in Stops => After("raw") \in {"idle"} \cup Stops
         /\ "record" \in Stops => After("record") \in {"idle"} \cup Stops
         /\ "active" \in Stops => After("active") \in Stops /\ "update" \in Stops
         /\ "update" \in Stops => "active" \in Stops
         /\ "capture" \in Stops => "insert" \in Stops
         /\ Route[1] \in Stops
         /\ \A step \in {"raw", "record", "active"} :
              step \in Stops => After(step) \notin {"update", "insert"}
         /\ Route[1] # "update"
         /\ Stops \in SUBSET (ScanSteps \ {"idle"})
  BY Afters DEF Stops, Hourly, ScanSteps

\* Where the candles stand still, so do the looks at them.
LEMMA LooksSame ==
  ASSUME UNCHANGED market
  PROVE  \A s, t : Look(s, t)' = Look(s, t)
  BY DEF Look, Evaluate, Enter, Follow, Printed, Decisive

\* A request that moves on, or ends.
LEMMA MoveKeeps ==
  ASSUME LedgerInv, NEW p \in Scans, NEW step \in ({"idle"} \cup Stops) \ {"update"},
         scan[p].at # "idle", Move(p, step), UNCHANGED <<kind, market>>
  PROVE  /\ scan' \in [Scans -> Request]
         /\ \A q \in Scans : RequestOK(q)'
         /\ \A q \in Scans : scan'[q].rows = scan[q].rows \/ scan'[q].rows = <<>>
         /\ \A q \in Scans \ {p} : scan'[q] = scan[q]
         /\ scan'[p].at = step
         /\ step # "idle" => scan'[p] = [scan[p] EXCEPT !.at = step]
         /\ step = "idle" => scan'[p] = Idle
<1>1. scan \in [Scans -> Request] /\ kind \in Kinds /\ step \in ScanSteps
  BY Awaited DEF LedgerInv, Typed, ScanSteps
<1>2. /\ \A q \in Scans \ {p} : scan'[q] = scan[q]
      /\ step # "idle" => scan'[p] = [scan[p] EXCEPT !.at = step]
      /\ step = "idle" => scan'[p] = Idle
  BY <1>1 DEF Move
<1>3. step # "idle" => /\ scan'[p].at = step /\ scan'[p].candle = scan[p].candle
                       /\ scan'[p].asOf = scan[p].asOf /\ scan'[p].rows = scan[p].rows
                       /\ scan'[p] \in Request
  <2>1. scan[p] \in Request
    BY <1>1
  <2> QED
    BY <1>1, <1>2, <2>1 DEF Request
<1>4. scan' \in [Scans -> Request]
  <2>1. scan'[p] \in Request
    BY <1>2, <1>3, IdleType
  <2>2. scan' = [scan EXCEPT ![p] = scan'[p]]
    BY <1>1 DEF Move
  <2> QED
    BY <1>1, <2>1, <2>2
<1>5. Stops' = Stops
  BY DEF Stops
<1>6. ASSUME NEW q \in Scans PROVE RequestOK(q)'
  <2>1. CASE q # p
    BY <1>2, <1>5, <2>1 DEF RequestOK, LedgerInv
  <2>2. CASE q = p /\ step = "idle"
    BY <1>2, <2>2, IdleType DEF RequestOK
  <2>3. CASE q = p /\ step # "idle"
    BY <1>3, <1>5, <2>3 DEF RequestOK, LedgerInv
  <2> QED
    BY <2>1, <2>2, <2>3
<1>7. scan'[p].at = step
  BY <1>2, <1>3, IdleType
<1> QED
  BY <1>2, <1>3, <1>4, <1>6, <1>7, IdleType

\* The ledger and the copies of it keep what they say, where a row that changes and a copy
\* that is new are looks, too.
LEMMA LooksKeep ==
  ASSUME LedgerInv, Len(market) <= Len(market'), Len(market') \in Nat,
         \A s \in Times : \A t \in 0..Len(market) : Look(s, t)' = Look(s, t),
         \A s \in Times : \/ trades'[s] = trades[s]
                          \/ trades'[s] # NoTrade /\ Looked(s, trades'[s]),
         \A q \in Scans : \A s \in DOMAIN scan'[q].rows :
           /\ s \in Times
           /\ \/ s \in DOMAIN scan[q].rows /\ scan'[q].rows[s] = scan[q].rows[s]
              \/ trades[s] # NoTrade /\ Looked(s, scan'[q].rows[s])
  PROVE  RowsOK' /\ CopiesOK'
<1>0. Len(market) \in Nat
  BY DEF LedgerInv, Typed, MarketOK
<1>1. \A s \in Times : \A row : Looked(s, row) => \E t \in 0..Len(market') : row = Look(s, t)'
  BY <1>0 DEF Looked
<1>2. ASSUME NEW s \in Times, trades'[s] # NoTrade
      PROVE  \E t \in 0..Len(market') : trades'[s] = Look(s, t)'
  BY <1>1, <1>2 DEF LedgerInv, RowsOK
<1>3. ASSUME NEW q \in Scans, NEW s \in DOMAIN scan'[q].rows
      PROVE  /\ trades'[s] # NoTrade
             /\ \E t \in 0..Len(market') : scan'[q].rows[s] = Look(s, t)'
  <2>1. s \in Times /\ trades[s] # NoTrade /\ Looked(s, scan'[q].rows[s])
    BY <1>3 DEF LedgerInv, CopiesOK
  <2> QED
    BY <1>1, <2>1
<1>4. RowsOK'
  BY <1>2 DEF RowsOK, Looked
<1>5. CopiesOK'
  BY <1>3 DEF CopiesOK, Looked
<1> QED
  BY <1>4, <1>5

LEMMA PublishKeeps ==
  ASSUME LedgerInv, NEW e \in Effects, Publish(e)
  PROVE  LedgerInv'
<1>1. /\ market' = Append(market, e) /\ Len(market) < Horizon /\ MarketOK
      /\ UNCHANGED <<kind, obs, trades, scan, handScans, ledgerFaults>>
  BY DEF Publish, LedgerInv, Typed
<1>2. MarketOK' /\ Len(market') = Len(market) + 1 /\ Len(market) \in Nat
  BY <1>1, Numbers DEF MarketOK
<1>3. Typed'
  BY <1>1, <1>2 DEF LedgerInv, Typed
<1>4. Stops' = Stops
  BY <1>1 DEF Stops
<1>5. ASSUME NEW q \in Scans PROVE RequestOK(q)'
  <2>1. scan[q] \in Request
    BY DEF LedgerInv, Typed
  <2>2. scan[q].asOf \in Nat
    BY <2>1 DEF Request
  <2> QED
    BY <1>1, <1>2, <1>4, <2>2 DEF LedgerInv, RequestOK
<1>6. \A s \in Times : \A t \in 0..Len(market) : Look(s, t)' = Look(s, t)
  BY <1>1, LooksStay
<1>7. \A q \in Scans : DOMAIN scan[q].rows \in SUBSET Times
  <2>1. \A q \in Scans : scan[q].rows \in Copies
    BY DEF LedgerInv, Typed, Request
  <2> QED
    BY <2>1, CopyType
<1>8. RowsOK' /\ CopiesOK'
  BY <1>1, <1>2, <1>6, <1>7, LooksKeep
<1> QED
  BY <1>3, <1>5, <1>8 DEF LedgerInv

\* The candle of a scan is one that has printed.
LEMMA CandleOfScan ==
  ASSUME MarketOK, NEW asOf \in 0..Len(market), SignalBars(asOf) # {}
  PROVE  Greatest(SignalBars(asOf)) \in 1..asOf
<1>1. asOf \in Nat
  BY DEF MarketOK
<1>2. SignalBars(asOf) \in SUBSET (1..asOf)
  BY <1>1, Candles DEF SignalBars
<1>3. SignalBars(asOf) \in SUBSET (0..asOf)
  BY <1>1, <1>2
<1> HIDE DEF SignalBars
<1>4. Greatest(SignalBars(asOf)) \in SignalBars(asOf)
  BY <1>1, <1>3, GreatestOf
<1> QED
  BY <1>2, <1>4

LEMMA BeginKeeps ==
  ASSUME LedgerInv, NEW p \in Scans, NEW want \in BOOLEAN, BeginScan(p, want)
  PROVE  LedgerInv'
<1> DEFINE candle == Greatest(SignalBars(Len(market)))
           r == [at |-> Route[1], candle |-> candle, asOf |-> Len(market), want |-> want,
                 rows |-> <<>>]
<1>0. Len(market) \in Nat /\ MarketOK /\ kind \in Kinds /\ scan \in [Scans -> Request]
  BY DEF LedgerInv, Typed, MarketOK
<1>1. candle \in 1..Len(market)
  BY <1>0, CandleOfScan DEF BeginScan
<1>2. Route[1] \in Stops /\ Route[1] # "update" /\ Route[1] \in ScanSteps /\ Route[1] # "idle"
  BY <1>0, Awaited
<1>3. /\ scan' = [scan EXCEPT ![p] = r]
      /\ handScans' \in Nat /\ handScans' + ledgerFaults <= Extras
      /\ UNCHANGED <<kind, market, obs, trades, ledgerFaults>>
  <2>1. handScans \in Nat /\ ledgerFaults \in Nat /\ handScans + ledgerFaults <= Extras /\ Extras \in Nat
    BY HorizonAssumption DEF LedgerInv, Typed
  <2>2. /\ scan' = [scan EXCEPT ![p] = r]
        /\ p = "hand" => handScans + ledgerFaults < Extras
        /\ handScans' = IF p = "hand" THEN handScans + 1 ELSE handScans
        /\ UNCHANGED <<kind, market, obs, trades, ledgerFaults>>
    BY DEF BeginScan
  <2> QED
    BY <2>1, <2>2
<1> HIDE DEF candle
<1>4. r \in Request
  BY <1>0, <1>1, <1>2, IdleType DEF Request, Idle
<1>5. r.at = Route[1] /\ r.candle = candle /\ r.asOf = Len(market) /\ r.rows = <<>>
  OBVIOUS
<1> HIDE DEF r
<1>6. scan' \in [Scans -> Request] /\ scan'[p] = r /\ \A q \in Scans \ {p} : scan'[q] = scan[q]
  BY <1>0, <1>3, <1>4
<1>7. Typed'
  BY <1>3, <1>6 DEF LedgerInv, Typed, MarketOK
<1>8. Stops' = Stops
  BY <1>3 DEF Stops
<1>9. ASSUME NEW q \in Scans PROVE RequestOK(q)'
  <2>1. CASE q # p
    BY <1>3, <1>6, <1>8, <2>1 DEF LedgerInv, RequestOK
  <2>2. CASE q = p
    BY <1>0, <1>1, <1>2, <1>3, <1>5, <1>6, <1>8, <2>2 DEF RequestOK
  <2> QED
    BY <2>1, <2>2
<1>10. \A q \in Scans : DOMAIN scan[q].rows \in SUBSET Times
  <2>1. \A q \in Scans : scan[q].rows \in Copies
    BY DEF LedgerInv, Typed, Request
  <2> QED
    BY <2>1, CopyType
<1>11. DOMAIN scan'[p].rows = {}
  BY <1>5, <1>6
<1>12. RowsOK' /\ CopiesOK'
  <2>1. \A q \in Scans : \A s \in DOMAIN scan'[q].rows :
          s \in Times /\ s \in DOMAIN scan[q].rows /\ scan'[q].rows[s] = scan[q].rows[s]
    BY <1>6, <1>10, <1>11
  <2> QED
    BY <1>0, <1>3, <2>1, LooksSame, LooksKeep
<1> QED
  BY <1>7, <1>9, <1>12 DEF LedgerInv

\* A step that only moves its request on.
LEMMA MovingKeeps ==
  ASSUME LedgerInv, NEW p \in Scans, NEW step \in ({"idle"} \cup Stops) \ {"update"},
         scan[p].at # "idle", Move(p, step), UNCHANGED <<kind, market>>,
         trades' \in [Times -> TradeRow], obs' \in [Times -> Observation],
         handScans' \in Nat, ledgerFaults' \in Nat, handScans' + ledgerFaults' <= Extras,
         \A s \in Times : trades'[s] = trades[s] \/ (trades'[s] # NoTrade /\ Looked(s, trades'[s]))
  PROVE  LedgerInv'
<1>0. Len(market) \in Nat
  BY DEF LedgerInv, Typed, MarketOK
<1>1. /\ scan' \in [Scans -> Request]
      /\ \A q \in Scans : RequestOK(q)'
      /\ \A q \in Scans : scan'[q].rows = scan[q].rows \/ scan'[q].rows = <<>>
  BY MoveKeeps
<1>2. Typed'
  BY <1>1 DEF LedgerInv, Typed, MarketOK
<1>3. \A q \in Scans : DOMAIN scan[q].rows \in SUBSET Times
  <2>1. \A q \in Scans : scan[q].rows \in Copies
    BY DEF LedgerInv, Typed, Request
  <2> QED
    BY <2>1, CopyType
<1>4. DOMAIN <<>> = {}
  OBVIOUS
<1>5. \A q \in Scans : \A s \in DOMAIN scan'[q].rows :
        s \in Times /\ s \in DOMAIN scan[q].rows /\ scan'[q].rows[s] = scan[q].rows[s]
  BY <1>1, <1>3, <1>4
<1>6. RowsOK' /\ CopiesOK'
  BY <1>0, <1>5, LooksSame, LooksKeep
<1> QED
  BY <1>1, <1>2, <1>6 DEF LedgerInv

LEMMA SavedType ==
  ASSUME Typed, NEW s, NEW row \in Observation
  PROVE  Saved(s, row) \in [Times -> Observation]
  BY DEF Typed, Saved

LEMMA AtStop ==
  ASSUME LedgerInv, NEW p \in Scans, scan[p].at # "idle"
  PROVE  /\ scan[p].at \in Stops /\ scan[p].candle \in Times
         /\ scan[p].candle \in 1..scan[p].asOf /\ scan[p].candle \in 0..Len(market)
         /\ scan[p].asOf \in Nat /\ scan[p].asOf <= Len(market)
<1>1. scan[p].asOf \in Nat /\ Len(market) \in Nat /\ Len(market) <= Horizon /\ Horizon \in Nat
  BY HorizonAssumption DEF LedgerInv, Typed, Request, MarketOK
<1> QED
  BY <1>1 DEF LedgerInv, RequestOK, Times

LEMMA RecordsKeep ==
  ASSUME LedgerInv, NEW p \in Scans, RecordRaw(p) \/ Record(p)
  PROVE  LedgerInv'
<1>0. /\ Typed /\ kind \in Kinds /\ trades \in [Times -> TradeRow]
      /\ handScans \in Nat /\ ledgerFaults \in Nat /\ handScans + ledgerFaults <= Extras
  BY DEF LedgerInv, Typed
<1>1. CASE RecordRaw(p)
  <2>1. /\ scan[p].at = "raw" /\ Move(p, After("raw")) /\ UNCHANGED <<kind, market, trades, handScans, ledgerFaults>>
        /\ obs' = Saved(scan[p].candle, [by |-> "raw", fresh |-> FALSE])
    BY <1>1 DEF RecordRaw
  <2>2. After("raw") \in ({"idle"} \cup Stops) \ {"update"} /\ scan[p].at # "idle"
    BY <1>0, <2>1, AtStop, Awaited
  <2>3. obs' \in [Times -> Observation]
    BY <1>0, <2>1, SavedType DEF Observation
  <2> QED
    BY <1>0, <2>1, <2>2, <2>3, MovingKeeps
<1>2. CASE Record(p)
  <2>1. PICK fresh \in BOOLEAN :
          /\ scan[p].at = "record" /\ Move(p, After("record")) /\ UNCHANGED <<kind, market, trades, handScans, ledgerFaults>>
          /\ obs' = Saved(scan[p].candle, [by |-> "route", fresh |-> fresh])
    BY <1>2 DEF Record, HasFreshness, Hourly
  <2>2. After("record") \in ({"idle"} \cup Stops) \ {"update"} /\ scan[p].at # "idle"
    BY <1>0, <2>1, AtStop, Awaited
  <2>3. obs' \in [Times -> Observation]
    BY <1>0, <2>1, SavedType DEF Observation
  <2> QED
    BY <1>0, <2>1, <2>2, <2>3, MovingKeeps
<1> QED
  BY <1>1, <1>2

LEMMA CapturesKeep ==
  ASSUME LedgerInv, NEW p \in Scans, FindActive(p) \/ Insert(p) \/ SpanRefused(p) \/ ScanFails(p)
  PROVE  LedgerInv'
<1>0. /\ Typed /\ kind \in Kinds /\ trades \in [Times -> TradeRow] /\ obs \in [Times -> Observation]
      /\ handScans \in Nat /\ ledgerFaults \in Nat /\ handScans + ledgerFaults <= Extras
      /\ Extras \in Nat /\ MarketOK
  BY HorizonAssumption DEF LedgerInv, Typed
<1>1. CASE FindActive(p)
  <2>1. PICK step \in {"insert", "idle"} :
          scan[p].at = "capture" /\ Move(p, step) /\ UNCHANGED <<kind, market, obs, trades, handScans, ledgerFaults>>
    BY <1>1 DEF FindActive
  <2>2. step \in ({"idle"} \cup Stops) \ {"update"} /\ scan[p].at # "idle"
    BY <1>0, <2>1, AtStop, Awaited
  <2> QED
    BY <1>0, <2>1, <2>2, MovingKeeps
<1>2. CASE Insert(p)
  <2> DEFINE s == scan[p].candle
  <2>1. /\ scan[p].at = "insert" /\ Move(p, "idle") /\ UNCHANGED <<kind, market, obs, handScans, ledgerFaults>>
        /\ trades' = [trades EXCEPT ![s] = IF @ = NoTrade THEN NewTrade ELSE @]
    BY <1>2 DEF Insert
  <2>2. s \in Times /\ 0 \in 0..Len(market)
    BY <1>0, <2>1, AtStop DEF MarketOK
  <2>3. Looked(s, NewTrade)
    <3>1. Printed(s + 1, 0) = {}
      <4>1. s \in Nat
        BY <2>2, Numbers
      <4>2. (s + 1)..0 = {}
        BY <4>1
      <4> QED
        BY <4>2 DEF Printed
    <3> QED
      BY <1>0, <2>2, <3>1, LookParts DEF Looked
  <2>4. trades' \in [Times -> TradeRow]
    BY <1>0, <2>1, RowTypes
  <2>5. \A u \in Times : trades'[u] = trades[u] \/ (trades'[u] # NoTrade /\ Looked(u, trades'[u]))
    BY <1>0, <2>1, <2>3, RowTypes
  <2> QED
    BY <1>0, <2>1, <2>4, <2>5, MovingKeeps
<1>3. CASE ScanFails(p)
  <2>1. /\ scan[p].at # "idle" /\ Move(p, "idle") /\ UNCHANGED <<kind, market, obs, trades, handScans>>
        /\ handScans + ledgerFaults < Extras /\ ledgerFaults' = ledgerFaults + 1
    BY <1>3 DEF ScanFails
  <2>2. ledgerFaults' \in Nat /\ handScans' + ledgerFaults' <= Extras
    BY <1>0, <2>1
  <2> QED
    BY <1>0, <2>1, <2>2, MovingKeeps
<1>4. CASE SpanRefused(p)
  <2>1. /\ scan[p].at # "idle" /\ Move(p, "idle")
        /\ UNCHANGED <<kind, market, obs, trades, handScans, ledgerFaults>>
    BY <1>4 DEF SpanRefused
  <2> QED
    BY <1>0, <2>1, MovingKeeps
<1> QED
  BY <1>1, <1>2, <1>3, <1>4

\* One reconciliation begins no later than behind the last candle of each active trade.
LEMMA BeginsBehind ==
  ASSUME LedgerInv, Active # {}
  PROVE  From(Active) \in Nat \ {0} /\ \A s \in Active : Behind(s) \in Nat /\ From(Active) <= Behind(s)
<1> DEFINE B == {Behind(s) : s \in Active}
<1>1. \A s \in Active : Behind(s) \in Nat \ {0}
  <2> SUFFICES ASSUME NEW s \in Active PROVE Behind(s) \in Nat \ {0}
    OBVIOUS
  <2>1. s \in Nat /\ trades[s] \in TradeRow
    BY Numbers DEF Active, LedgerInv, Typed
  <2>2. trades[s].last \in Nat
    BY <2>1, Numbers DEF TradeRow
  <2> QED
    BY <2>1, <2>2 DEF Behind
<1>2. B \in SUBSET (Nat \ {0}) /\ B # {}
  BY <1>1
<1>3. Least(B) \in B /\ \A b \in B : Least(B) <= b
  <2> HIDE DEF B
  <2> QED
    BY <1>2, LeastOf
<1> QED
  BY <1>1, <1>2, <1>3 DEF From

LEMMA ReadActiveKeeps ==
  ASSUME LedgerInv, NEW p \in Scans, ReadActive(p)
  PROVE  LedgerInv'
<1> DEFINE candles == Printed(From(Active), scan[p].candle)
           work == Active # {} /\ scan[p].candle >= From(Active)
           copy == [s \in Active |-> Evaluate(s, trades[s], candles)]
           at == IF work THEN "update" ELSE After("active")
           rows == IF work THEN copy ELSE <<>>
<1>0. /\ Typed /\ kind \in Kinds /\ MarketOK /\ Len(market) \in Nat /\ scan \in [Scans -> Request]
      /\ trades \in [Times -> TradeRow]
  BY DEF LedgerInv, Typed, MarketOK
<1>1. /\ scan[p].at = "active" /\ scan' = [scan EXCEPT ![p].at = at, ![p].rows = rows]
      /\ UNCHANGED <<kind, market, obs, trades, handScans, ledgerFaults>>
  BY DEF ReadActive
<1>2. scan[p].at \in Stops /\ scan[p].candle \in 0..Len(market)
  BY <1>1, AtStop
<1>3. at \in Stops /\ at \in ScanSteps /\ at # "idle"
  <2>1. After("active") \in Stops /\ "update" \in Stops /\ Stops \in SUBSET (ScanSteps \ {"idle"})
    BY <1>0, <1>1, <1>2, Awaited
  <2> QED
    BY <2>1
<1>4. ASSUME Active # {}, NEW s \in Active
      PROVE  s \in Times /\ trades[s] # NoTrade /\ Looked(s, copy[s]) /\ copy[s] \in TradeRow
  <2>1. s \in Times /\ trades[s].state \in {"PENDING_ENTRY", "OPEN"} /\ trades[s] # NoTrade
    BY <1>4 DEF Active, NoTrade
  <2>2. Looked(s, trades[s])
    BY <2>1 DEF LedgerInv, RowsOK
  <2>3. From(Active) \in Nat \ {0} /\ From(Active) <= Behind(s)
    BY <1>4, BeginsBehind
  <2>4. Behind(s) = IF trades[s].state = "PENDING_ENTRY" THEN s + 1 ELSE trades[s].last + 1
    BY DEF Behind
  <2>5. Looked(s, Evaluate(s, trades[s], candles))
    BY <1>0, <1>2, <2>1, <2>2, <2>3, <2>4, Continues
  <2>6. copy[s] = Evaluate(s, trades[s], candles)
    BY <1>4
  <2>7. \E t \in 0..Len(market) : copy[s] = Look(s, t)
    BY <2>5, <2>6 DEF Looked
  <2> QED
    BY <1>0, <2>1, <2>5, <2>6, <2>7, LookType
<1>5. copy \in Copies /\ DOMAIN copy = Active
  <2>1. Active \in SUBSET Times
    BY DEF Active
  <2>2. copy \in [Active -> TradeRow]
    BY <1>4
  <2> QED
    BY <2>1, <2>2 DEF Copies
<1>6. <<>> \in Copies /\ DOMAIN <<>> = {}
  BY IdleType DEF Idle, Request
<1> HIDE DEF candles, copy
<1>7. /\ rows \in Copies
      /\ DOMAIN rows \in SUBSET Active
      /\ \A s \in DOMAIN rows : s \in Times /\ trades[s] # NoTrade /\ Looked(s, rows[s])
      /\ at = "update" => DOMAIN rows # {}
  <2>1. at = "update" => work
    <3>1. After("active") # "update"
      BY <1>0, <1>1, <1>2, Awaited
    <3> QED
      BY <3>1
  <2> QED
    BY <1>4, <1>5, <1>6, <2>1
<1> HIDE DEF at, rows
<1>8. /\ scan'[p].at = at /\ scan'[p].candle = scan[p].candle /\ scan'[p].asOf = scan[p].asOf
      /\ scan'[p].rows = rows /\ scan'[p] \in Request
      /\ \A q \in Scans \ {p} : scan'[q] = scan[q]
      /\ scan' \in [Scans -> Request]
  <2> DEFINE r == [scan[p] EXCEPT !.at = at, !.rows = rows]
  <2>1. scan[p] \in Request
    BY <1>0
  <2>2. /\ r \in Request /\ r.at = at /\ r.rows = rows /\ r.candle = scan[p].candle
        /\ r.asOf = scan[p].asOf
    BY <1>3, <1>7, <2>1 DEF Request
  <2>3. scan' = [scan EXCEPT ![p] = r]
    BY <1>0, <1>1
  <2> HIDE DEF r
  <2> QED
    BY <1>0, <2>2, <2>3
<1>9. Typed'
  BY <1>1, <1>8 DEF LedgerInv, Typed, MarketOK
<1>10. Stops' = Stops
  BY <1>1 DEF Stops
<1>11. ASSUME NEW q \in Scans PROVE RequestOK(q)'
  <2>1. CASE q # p
    BY <1>1, <1>8, <1>10, <2>1 DEF LedgerInv, RequestOK
  <2>2. CASE q = p
    BY <1>1, <1>2, <1>3, <1>7, <1>8, <1>10, <2>2, AtStop DEF RequestOK
  <2> QED
    BY <2>1, <2>2
<1>12. \A q \in Scans : DOMAIN scan[q].rows \in SUBSET Times
  <2>1. \A q \in Scans : scan[q].rows \in Copies
    BY <1>0 DEF Request
  <2> QED
    BY <2>1, CopyType
<1>13. RowsOK' /\ CopiesOK'
  <2>1. \A q \in Scans : \A s \in DOMAIN scan'[q].rows :
          /\ s \in Times
          /\ \/ s \in DOMAIN scan[q].rows /\ scan'[q].rows[s] = scan[q].rows[s]
             \/ trades[s] # NoTrade /\ Looked(s, scan'[q].rows[s])
    BY <1>7, <1>8, <1>12
  <2> QED
    BY <1>0, <1>1, <2>1, LooksSame, LooksKeep
<1> QED
  BY <1>9, <1>11, <1>13 DEF LedgerInv

LEMMA UpdateKeeps ==
  ASSUME LedgerInv, NEW p \in Scans, Update(p)
  PROVE  LedgerInv'
<1> DEFINE rows == scan[p].rows
           s == Least(DOMAIN rows)
           rest == [u \in DOMAIN rows \ {s} |-> rows[u]]
           at == IF DOMAIN rest = {} THEN After("active") ELSE "update"
<1>0. /\ Typed /\ kind \in Kinds /\ MarketOK /\ Len(market) \in Nat /\ scan \in [Scans -> Request]
      /\ trades \in [Times -> TradeRow]
  BY DEF LedgerInv, Typed, MarketOK
<1>1. /\ scan[p].at = "update" /\ scan' = [scan EXCEPT ![p].rows = rest, ![p].at = at]
      /\ trades' = [trades EXCEPT ![s] = rows[s]]
      /\ UNCHANGED <<kind, market, obs, handScans, ledgerFaults>>
  BY DEF Update
<1>2. scan[p].at \in Stops /\ rows \in Copies /\ DOMAIN rows # {}
  BY <1>0, <1>1, AtStop DEF LedgerInv, RequestOK, Request
<1>3. at \in Stops /\ at \in ScanSteps /\ at # "idle"
  <2>1. After("active") \in Stops /\ "update" \in Stops /\ Stops \in SUBSET (ScanSteps \ {"idle"})
    BY <1>0, <1>1, <1>2, Awaited
  <2> QED
    BY <2>1
<1>4. DOMAIN rows \in SUBSET Times /\ \A u \in DOMAIN rows : rows[u] \in TradeRow
  BY <1>2, CopyType
<1>5. s \in DOMAIN rows
  <2>1. DOMAIN rows \in SUBSET Nat
    BY <1>4, Numbers
  <2> QED
    BY <1>2, <2>1, LeastOf
<1>6. \A u \in DOMAIN rows : trades[u] # NoTrade /\ Looked(u, rows[u])
  BY DEF LedgerInv, CopiesOK
<1>7. rows[s] # NoTrade
  <2>1. \E t \in 0..Len(market) : rows[s] = Look(s, t)
    BY <1>5, <1>6 DEF Looked
  <2> QED
    BY <1>0, <1>4, <1>5, <2>1, LookType
<1>8. /\ rest \in Copies /\ DOMAIN rest \in SUBSET DOMAIN rows
      /\ \A u \in DOMAIN rest : rest[u] = rows[u]
      /\ at = "update" => DOMAIN rest # {}
  <2>1. DOMAIN rest \in SUBSET Times /\ rest \in [DOMAIN rest -> TradeRow]
    BY <1>4
  <2>2. After("active") # "update"
    BY <1>0, <1>1, <1>2, Awaited
  <2>3. rest \in Copies
    BY <2>1, Zenon DEF Copies
  <2> QED
    BY <2>2, <2>3
<1> HIDE DEF s, rest, at
<1>9. /\ scan'[p].at = at /\ scan'[p].candle = scan[p].candle /\ scan'[p].asOf = scan[p].asOf
      /\ scan'[p].rows = rest /\ scan'[p] \in Request
      /\ \A q \in Scans \ {p} : scan'[q] = scan[q]
      /\ scan' \in [Scans -> Request]
  <2> DEFINE r == [scan[p] EXCEPT !.rows = rest, !.at = at]
  <2>1. scan[p] \in Request
    BY <1>0
  <2>2. /\ r \in Request /\ r.at = at /\ r.rows = rest /\ r.candle = scan[p].candle
        /\ r.asOf = scan[p].asOf
    BY <1>3, <1>8, <2>1 DEF Request
  <2>3. scan' = [scan EXCEPT ![p] = r]
    BY <1>0, <1>1
  <2> HIDE DEF r
  <2> QED
    BY <1>0, <2>2, <2>3
<1>10. trades' \in [Times -> TradeRow]
  BY <1>0, <1>1, <1>4, <1>5
<1>11. Typed'
  BY <1>1, <1>9, <1>10 DEF LedgerInv, Typed, MarketOK
<1>12. Stops' = Stops
  BY <1>1 DEF Stops
<1>13. ASSUME NEW q \in Scans PROVE RequestOK(q)'
  <2>1. CASE q # p
    BY <1>1, <1>9, <1>12, <2>1 DEF LedgerInv, RequestOK
  <2>2. CASE q = p
    BY <1>1, <1>3, <1>8, <1>9, <1>12, <2>2, AtStop DEF RequestOK
  <2> QED
    BY <2>1, <2>2
<1>14. \A q \in Scans : DOMAIN scan[q].rows \in SUBSET Times
  <2>1. \A q \in Scans : scan[q].rows \in Copies
    BY <1>0 DEF Request
  <2> QED
    BY <2>1, CopyType
<1>15. RowsOK' /\ CopiesOK'
  <2>1. \A q \in Scans : \A u \in DOMAIN scan'[q].rows :
          u \in Times /\ u \in DOMAIN scan[q].rows /\ scan'[q].rows[u] = scan[q].rows[u]
    BY <1>8, <1>9, <1>14
  <2>2. \A u \in Times : trades'[u] = trades[u] \/ (trades'[u] # NoTrade /\ Looked(u, trades'[u]))
    BY <1>0, <1>1, <1>5, <1>6, <1>7
  <2> QED
    BY <1>0, <1>1, <2>1, <2>2, LooksSame, LooksKeep
<1> QED
  BY <1>11, <1>13, <1>15 DEF LedgerInv

LEMMA LedgerStarts == LedgerInit => LedgerInv
<1> SUFFICES ASSUME LedgerInit PROVE LedgerInv
  OBVIOUS
<1>1. /\ kind \in Kinds /\ market = <<>> /\ obs = [s \in Times |-> NoObservation]
      /\ trades = [s \in Times |-> NoTrade] /\ scan = [p \in Scans |-> Idle]
      /\ handScans = 0 /\ ledgerFaults = 0
  BY DEF LedgerInit
<1>2. MarketOK
  BY <1>1, Numbers DEF MarketOK
<1>3. NoObservation \in Observation
  BY DEF NoObservation, Observation
<1>4. Typed
  BY <1>1, <1>2, <1>3, RowTypes, IdleType, HorizonAssumption DEF Typed
<1>5. \A p \in Scans : scan[p] = Idle /\ DOMAIN scan[p].rows = {}
  BY <1>1, IdleType
<1>6. \A p \in Scans : RequestOK(p)
  BY <1>5, IdleType DEF RequestOK
<1>7. RowsOK /\ CopiesOK
  BY <1>1, <1>5 DEF RowsOK, CopiesOK
<1> QED
  BY <1>4, <1>6, <1>7 DEF LedgerInv

LEMMA LedgerStays == LedgerInv /\ UNCHANGED ledgerVars => LedgerInv'
<1> SUFFICES ASSUME LedgerInv, UNCHANGED ledgerVars PROVE LedgerInv'
  OBVIOUS
<1>1. UNCHANGED <<kind, market, obs, trades, scan, handScans, ledgerFaults>>
  BY DEF ledgerVars
<1>2. Typed' /\ Len(market) \in Nat
  BY <1>1 DEF LedgerInv, Typed, MarketOK
<1>3. \A q \in Scans : RequestOK(q)'
  BY <1>1 DEF LedgerInv, RequestOK, Stops
<1>4. \A q \in Scans : DOMAIN scan[q].rows \in SUBSET Times
  <2>1. \A q \in Scans : scan[q].rows \in Copies
    BY DEF LedgerInv, Typed, Request
  <2> QED
    BY <2>1, CopyType
<1>5. RowsOK' /\ CopiesOK'
  BY <1>1, <1>2, <1>4, LooksSame, LooksKeep
<1> QED
  BY <1>2, <1>3, <1>5 DEF LedgerInv

LEMMA LedgerStep == LedgerInv /\ [LedgerNext]_ledgerVars => LedgerInv'
<1> SUFFICES ASSUME LedgerInv, [LedgerNext]_ledgerVars PROVE LedgerInv'
  OBVIOUS
<1>1. CASE \E e \in Effects : Publish(e)
  BY <1>1, PublishKeeps
<1>2. ASSUME NEW p \in Scans, ScanBegins(p) PROVE LedgerInv'
  BY <1>2, BeginKeeps DEF ScanBegins
<1>3. ASSUME NEW p \in Scans, ScanStep(p) \/ ScanFails(p) PROVE LedgerInv'
  BY <1>3, RecordsKeep, CapturesKeep, ReadActiveKeeps, UpdateKeeps DEF ScanStep
<1>4. CASE UNCHANGED ledgerVars
  BY <1>4, LedgerStays
<1> QED
  BY <1>1, <1>2, <1>3, <1>4 DEF LedgerNext

\* Every behaviour keeps the invariant.
THEOREM LedgerInvariant == LedgerSpec => []LedgerInv
  BY LedgerStarts, LedgerStep, PTL DEF LedgerSpec

\* The tables and the requests of the shadow scanners (db.js, shadowVirtualTrades.js) hold
\* what their columns and locals can.
THEOREM LedgerTypeCorrect == LedgerSpec => []LedgerTypeOK
<1>1. LedgerInv => LedgerTypeOK
  <2> SUFFICES ASSUME LedgerInv PROVE LedgerTypeOK
    OBVIOUS
  <2>0. Typed /\ MarketOK /\ Len(market) \in Nat
    BY DEF LedgerInv, Typed, MarketOK
  <2>1. kind \in Kinds /\ market \in Seq(Effects) /\ Len(market) <= Horizon
        /\ trades \in [Times -> TradeRow] /\ handScans \in Nat /\ ledgerFaults \in Nat
        /\ handScans + ledgerFaults <= Extras
    BY <2>0, Numbers DEF Typed, MarketOK
  <2>2. \A s \in Times : obs[s] \in [by : {"nobody", "raw", "route"}, fresh : BOOLEAN]
    BY <2>0 DEF Typed, Observation
  <2>3. ASSUME NEW p \in Scans
        PROVE  /\ scan[p].at \in ScanSteps
               /\ {scan[p].candle, scan[p].asOf} \subseteq 0..Len(market)
               /\ DOMAIN scan[p].rows \subseteq Times
               /\ \A s \in DOMAIN scan[p].rows : scan[p].rows[s] \in TradeRow
    <3>1. scan[p].at \in ScanSteps /\ scan[p].rows \in Copies /\ scan[p].asOf \in Nat
      BY <2>0 DEF Typed, Request
    <3>2. {scan[p].candle, scan[p].asOf} \subseteq 0..Len(market)
      <4>1. CASE scan[p].at = "idle"
        <5>1. scan[p].candle = 0 /\ scan[p].asOf = 0
          BY <4>1, IdleType DEF LedgerInv, RequestOK
        <5> QED
          BY <2>0, <5>1
      <4>2. CASE scan[p].at # "idle"
        BY <2>0, <4>2, AtStop
      <4> QED
        BY <4>1, <4>2
    <3> QED
      BY <3>1, <3>2, CopyType
  <2> QED
    BY <2>1, <2>2, <2>3 DEF LedgerTypeOK
<1> QED
  BY <1>1, LedgerInvariant, PTL

\* A row of the ledger is always what one uninterrupted look at all the candles up to some
\* past moment gives, whatever scans overlap and wherever they are cut off
\* (shadowVirtualTrades.js:18-235).
THEOREM RowsAreEvaluations == LedgerSpec => []RowIsEvaluation
<1>1. LedgerInv => RowIsEvaluation
  BY DEF LedgerInv, RowsOK, RowIsEvaluation, Looked, Look
<1> QED
  BY <1>1, LedgerInvariant, PTL

(***************************************************************************)
(* The observation on record.  Of the soft regime: a request that is going *)
(* to insert has stored that it saw its candle in time, which no write     *)
(* takes back.  Of V2: where a verdict is the raw one, a request is about  *)
(* to store the route's.                                                   *)
(***************************************************************************)
SoftOK ==
  kind = "soft" =>
    /\ \A p \in Scans : scan[p].at # "idle" /\ scan[p].want => scan[p].candle = scan[p].asOf
    /\ \A p \in Scans : (scan[p].at = "capture" /\ scan[p].want) \/ scan[p].at = "insert" =>
                          obs[scan[p].candle].fresh
    /\ \A s \in Times : trades[s] # NoTrade => obs[s].fresh

V2OK ==
  kind = "v2" =>
    /\ \A s \in Times : ~obs[s].fresh
    /\ ledgerFaults = 0 => \A s \in Times : obs[s].by = "raw" =>
                             \E p \in Scans : scan[p].at = "record" /\ scan[p].candle = s

VerdictInv == SoftOK /\ V2OK

LEMMA FreshStays ==
  ASSUME Typed, NEW s \in Times, NEW row \in Observation, obs' = Saved(s, row)
  PROVE  /\ \A u \in Times : obs[u].fresh => obs'[u].fresh
         /\ row.fresh => obs'[s].fresh
         /\ ~obs[s].fresh => obs' = [obs EXCEPT ![s] = row]
<1>1. obs \in [Times -> Observation]
  BY DEF Typed
<1>2. CASE obs[s].fresh /\ ~row.fresh
  BY <1>1, <1>2 DEF Saved
<1>3. CASE ~(obs[s].fresh /\ ~row.fresh)
  BY <1>1, <1>3 DEF Saved
<1> QED
  BY <1>2, <1>3

\* What a step of a request leaves of it and of the other.
LEMMA Moved ==
  ASSUME LedgerInv, NEW p \in Scans, NEW step, step # "idle", Move(p, step)
  PROVE  /\ \A q \in Scans \ {p} : scan'[q] = scan[q]
         /\ scan'[p].at = step /\ scan'[p].want = scan[p].want
         /\ scan'[p].candle = scan[p].candle /\ scan'[p].asOf = scan[p].asOf
<1>1. scan \in [Scans -> Request]
  BY DEF LedgerInv, Typed
<1>2. scan' = [scan EXCEPT ![p] = [scan[p] EXCEPT !.at = step]]
  BY <1>1 DEF Move
<1>3. scan[p] \in Request
  BY <1>1
<1> QED
  BY <1>1, <1>2, <1>3 DEF Request

LEMMA Ended ==
  ASSUME LedgerInv, NEW p \in Scans, Move(p, "idle")
  PROVE  scan'[p] = Idle /\ \A q \in Scans \ {p} : scan'[q] = scan[q]
  BY DEF LedgerInv, Typed, Move

LEMMA Reconciled ==
  ASSUME LedgerInv, NEW p \in Scans, ReadActive(p) \/ Update(p)
  PROVE  /\ \A q \in Scans \ {p} : scan'[q] = scan[q]
         /\ scan'[p].at \in {"update", After("active")} /\ scan'[p].want = scan[p].want
         /\ scan'[p].candle = scan[p].candle /\ scan'[p].asOf = scan[p].asOf
         /\ scan[p].at \in {"active", "update"}
         /\ UNCHANGED <<kind, obs, ledgerFaults>>
         /\ \A s \in Times : trades'[s] = trades[s] \/ trades[s] # NoTrade
<1>1. scan \in [Scans -> Request] /\ trades \in [Times -> TradeRow]
  BY DEF LedgerInv, Typed
<1>0. PICK at \in {"update", After("active")} :
        \E rows : scan' = [scan EXCEPT ![p] = [scan[p] EXCEPT !.at = at, !.rows = rows]]
  <2>1. CASE ReadActive(p)
    <3> DEFINE candles == Printed(From(Active), scan[p].candle)
               work == Active # {} /\ scan[p].candle >= From(Active)
               rows == IF work THEN [s \in Active |-> Evaluate(s, trades[s], candles)] ELSE <<>>
               at == IF work THEN "update" ELSE After("active")
    <3>1. scan' = [scan EXCEPT ![p].at = at, ![p].rows = rows]
      BY <2>1 DEF ReadActive
    <3>2. at \in {"update", After("active")}
      OBVIOUS
    <3> HIDE DEF at, rows
    <3>3. scan' = [scan EXCEPT ![p] = [scan[p] EXCEPT !.at = at, !.rows = rows]]
      BY <1>1, <3>1
    <3> QED
      BY <3>2, <3>3
  <2>2. CASE Update(p)
    <3> DEFINE s == Least(DOMAIN scan[p].rows)
               rest == [u \in DOMAIN scan[p].rows \ {s} |-> scan[p].rows[u]]
               at == IF DOMAIN rest = {} THEN After("active") ELSE "update"
    <3>1. scan' = [scan EXCEPT ![p].rows = rest, ![p].at = at]
      BY <2>2 DEF Update
    <3>2. at \in {"update", After("active")}
      OBVIOUS
    <3> HIDE DEF at, rest
    <3>3. [scan[p] EXCEPT !.rows = rest, !.at = at] = [scan[p] EXCEPT !.at = at, !.rows = rest]
      BY <1>1 DEF Request
    <3>4. scan' = [scan EXCEPT ![p] = [scan[p] EXCEPT !.rows = rest, !.at = at]]
      BY <1>1, <3>1
    <3> QED
      BY <3>2, <3>3, <3>4
  <2> QED
    BY <2>1, <2>2
<1>2. PICK rows : scan' = [scan EXCEPT ![p] = [scan[p] EXCEPT !.at = at, !.rows = rows]]
  BY <1>0
<1>3. scan[p] \in Request
  BY <1>1
<1>4. /\ \A q \in Scans \ {p} : scan'[q] = scan[q]
      /\ scan'[p].at = at /\ scan'[p].want = scan[p].want
      /\ scan'[p].candle = scan[p].candle /\ scan'[p].asOf = scan[p].asOf
  BY <1>1, <1>2, <1>3 DEF Request
<1>5. scan[p].at \in {"active", "update"} /\ UNCHANGED <<kind, obs, ledgerFaults>>
  BY DEF ReadActive, Update
<1>6. \A s \in Times : trades'[s] = trades[s] \/ trades[s] # NoTrade
  <2>1. CASE ReadActive(p)
    BY <2>1 DEF ReadActive
  <2>2. CASE Update(p)
    <3> DEFINE r == Least(DOMAIN scan[p].rows)
    <3>1. trades' = [trades EXCEPT ![r] = scan[p].rows[r]] /\ scan[p].at = "update"
      BY <2>2 DEF Update
    <3>2. DOMAIN scan[p].rows # {} /\ scan[p].rows \in Copies
      BY <1>3, <3>1 DEF LedgerInv, RequestOK, Request
    <3>3. DOMAIN scan[p].rows \in SUBSET Nat
      BY <3>2, CopyType, Numbers
    <3>4. r \in DOMAIN scan[p].rows
      BY <3>2, <3>3, LeastOf
    <3>5. trades[r] # NoTrade
      BY <3>4 DEF LedgerInv, CopiesOK
    <3> HIDE DEF r
    <3> QED
      BY <1>1, <3>1, <3>5
  <2> QED
    BY <2>1, <2>2
<1> QED
  BY <1>2, <1>4, <1>5, <1>6

LEMMA SoftKeeps ==
  ASSUME LedgerInv, SoftOK, kind = "soft", [LedgerNext]_ledgerVars
  PROVE  SoftOK'
<1>0. Typed /\ kind \in Kinds /\ \A p \in Scans : scan[p].at # "idle" => scan[p].at \in Stops
  BY DEF LedgerInv, Typed, RequestOK
<1>1. After("active") = "record" /\ After("record") = "capture" /\ "raw" \notin Stops
      /\ Route[1] = "active" /\ HasFreshness
  BY <1>0, Afters DEF Stops, HasFreshness
<1>2. CASE (\E e \in Effects : Publish(e)) \/ UNCHANGED ledgerVars
  <2>1. UNCHANGED <<kind, obs, trades, scan>>
    BY <1>2 DEF Publish, ledgerVars
  <2> QED
    BY <2>1 DEF SoftOK
<1>3. ASSUME NEW p \in Scans, NEW want \in BOOLEAN, BeginScan(p, want) PROVE SoftOK'
  <2> DEFINE r == [at |-> Route[1], candle |-> Greatest(SignalBars(Len(market))),
                   asOf |-> Len(market), want |-> want, rows |-> <<>>]
  <2>1. /\ scan' = [scan EXCEPT ![p] = r] /\ UNCHANGED <<kind, obs, trades>>
        /\ want => r.candle = r.asOf
    BY <1>1, <1>3 DEF BeginScan
  <2>2. r.at = "active" /\ r.want = want
    BY <1>1
  <2> HIDE DEF r
  <2>3. scan'[p] = r /\ \A q \in Scans \ {p} : scan'[q] = scan[q]
    BY <1>0, <2>1 DEF Typed
  <2> QED
    BY <2>1, <2>2, <2>3 DEF SoftOK
<1>4. ASSUME NEW p \in Scans, Record(p) PROVE SoftOK'
  <2> DEFINE fresh == HasFreshness /\ scan[p].candle = scan[p].asOf
             row == [by |-> "route", fresh |-> fresh]
  <2>1. /\ scan[p].at = "record" /\ obs' = Saved(scan[p].candle, row) /\ Move(p, "capture")
        /\ UNCHANGED <<kind, trades>>
    BY <1>1, <1>4 DEF Record
  <2>2. row \in Observation /\ row.fresh = fresh /\ scan[p].candle \in Times
    BY <2>1, AtStop DEF Observation, HasFreshness, Hourly
  <2>3. scan[p].want => fresh
    BY <1>1, <2>1 DEF SoftOK
  <2> HIDE DEF row, fresh
  <2>4. /\ \A u \in Times : obs[u].fresh => obs'[u].fresh
        /\ row.fresh => obs'[scan[p].candle].fresh
    BY <1>0, <2>1, <2>2, FreshStays
  <2>5. /\ \A q \in Scans \ {p} : scan'[q] = scan[q]
        /\ scan'[p].at = "capture" /\ scan'[p].want = scan[p].want
        /\ scan'[p].candle = scan[p].candle /\ scan'[p].asOf = scan[p].asOf
    BY <2>1, Moved
  <2>6. \A q \in Scans : scan[q].at # "idle" => scan[q].candle \in Times
    BY AtStop
  <2>7. \A q \in Scans : scan'[q].at # "idle" /\ scan'[q].want => scan'[q].candle = scan'[q].asOf
    BY <2>1, <2>5 DEF SoftOK
  <2>8. \A q \in Scans : (scan'[q].at = "capture" /\ scan'[q].want) \/ scan'[q].at = "insert" =>
                           obs'[scan'[q].candle].fresh
    <3>1. scan'[p].want => obs'[scan'[p].candle].fresh
      BY <2>2, <2>3, <2>4, <2>5
    <3> QED
      BY <2>4, <2>5, <2>6, <3>1 DEF SoftOK
  <2>9. \A s \in Times : trades'[s] # NoTrade => obs'[s].fresh
    BY <2>1, <2>4 DEF SoftOK
  <2> QED
    BY <2>7, <2>8, <2>9 DEF SoftOK
<1>5. ASSUME NEW p \in Scans, ReadActive(p) \/ Update(p) PROVE SoftOK'
  <2>1. scan'[p].at \in {"update", "record"}
    BY <1>1, <1>5, Reconciled
  <2> QED
    BY <1>5, <2>1, Reconciled DEF SoftOK
<1>6. ASSUME NEW p \in Scans, FindActive(p) PROVE SoftOK'
  <2>1. PICK step \in {"insert", "idle"} :
          /\ scan[p].at = "capture" /\ Move(p, step) /\ UNCHANGED <<kind, obs, trades>>
          /\ step = "insert" => scan[p].want
    BY <1>6 DEF FindActive
  <2>2. CASE step = "idle"
    BY <2>1, <2>2, Ended, IdleType DEF SoftOK
  <2>3. CASE step = "insert"
    BY <2>1, <2>3, Moved DEF SoftOK
  <2> QED
    BY <2>2, <2>3
<1>7. ASSUME NEW p \in Scans, Insert(p) PROVE SoftOK'
  <2>1. /\ scan[p].at = "insert" /\ Move(p, "idle") /\ UNCHANGED <<kind, obs>>
        /\ \A s \in Times \ {scan[p].candle} : trades'[s] = trades[s]
    BY <1>0, <1>7 DEF Insert, Typed
  <2>2. obs[scan[p].candle].fresh
    BY <2>1 DEF SoftOK
  <2> QED
    BY <2>1, <2>2, Ended, IdleType DEF SoftOK
<1>8. ASSUME NEW p \in Scans, ScanFails(p) \/ SpanRefused(p) PROVE SoftOK'
  <2>1. Move(p, "idle") /\ UNCHANGED <<kind, obs, trades>>
    BY <1>8 DEF ScanFails, SpanRefused
  <2> QED
    BY <2>1, Ended, IdleType DEF SoftOK
<1>9. ASSUME NEW p \in Scans PROVE ~RecordRaw(p)
  BY <1>0, <1>1 DEF RecordRaw
<1> QED
  BY <1>2, <1>3, <1>4, <1>5, <1>6, <1>7, <1>8, <1>9 DEF LedgerNext, ScanBegins, ScanStep

LEMMA V2Keeps ==
  ASSUME LedgerInv, V2OK, kind = "v2", [LedgerNext]_ledgerVars
  PROVE  V2OK'
<1>0. Typed /\ kind \in Kinds /\ obs \in [Times -> Observation] /\ ledgerFaults \in Nat
  BY DEF LedgerInv, Typed
<1>1. After("raw") = "record" /\ After("record") = "active" /\ After("active") = "capture"
      /\ Route[1] = "raw" /\ ~HasFreshness
  BY <1>0, Afters DEF HasFreshness, Hourly
<1>2. CASE (\E e \in Effects : Publish(e)) \/ UNCHANGED ledgerVars
  <2>1. UNCHANGED <<kind, obs, scan, ledgerFaults>>
    BY <1>2 DEF Publish, ledgerVars
  <2> QED
    BY <2>1 DEF V2OK
<1>3. ASSUME NEW p \in Scans, NEW want \in BOOLEAN, BeginScan(p, want) PROVE V2OK'
  <2>1. /\ \A q \in Scans \ {p} : scan'[q] = scan[q]
        /\ scan[p].at = "idle" /\ UNCHANGED <<kind, obs, ledgerFaults>>
    BY <1>0, <1>3 DEF BeginScan, Typed
  <2> QED
    BY <2>1 DEF V2OK
<1>4. ASSUME NEW p \in Scans, RecordRaw(p) PROVE V2OK'
  <2> DEFINE row == [by |-> "raw", fresh |-> FALSE]
             s == scan[p].candle
  <2>1. /\ scan[p].at = "raw" /\ obs' = Saved(s, row) /\ Move(p, "record")
        /\ UNCHANGED <<kind, ledgerFaults>>
    BY <1>1, <1>4 DEF RecordRaw
  <2>2. row \in Observation /\ ~row.fresh /\ s \in Times
    BY <2>1, AtStop DEF Observation
  <2>3. ~obs[s].fresh
    BY <2>2 DEF V2OK
  <2>4. obs' = [obs EXCEPT ![s] = row]
    <3> HIDE DEF row, s
    <3> QED
      BY <1>0, <2>1, <2>2, <2>3, FreshStays
  <2>5. /\ \A q \in Scans \ {p} : scan'[q] = scan[q]
        /\ scan'[p].at = "record" /\ scan'[p].candle = s
    BY <2>1, Moved
  <2> QED
    BY <1>0, <2>1, <2>2, <2>4, <2>5 DEF V2OK
<1>5. ASSUME NEW p \in Scans, Record(p) PROVE V2OK'
  <2> DEFINE row == [by |-> "route", fresh |-> FALSE]
             s == scan[p].candle
  <2>1. /\ scan[p].at = "record" /\ obs' = Saved(s, row) /\ Move(p, "active")
        /\ UNCHANGED <<kind, ledgerFaults>>
    BY <1>1, <1>5 DEF Record
  <2>2. row \in Observation /\ ~row.fresh /\ row.by # "raw" /\ s \in Times
    BY <2>1, AtStop DEF Observation
  <2>3. ~obs[s].fresh
    BY <2>2 DEF V2OK
  <2>4. obs' = [obs EXCEPT ![s] = row]
    <3> HIDE DEF row, s
    <3> QED
      BY <1>0, <2>1, <2>2, <2>3, FreshStays
  <2>5. \A q \in Scans \ {p} : scan'[q] = scan[q]
    BY <2>1, Moved
  <2> HIDE DEF row
  <2>6. obs'[s] = row /\ \A u \in Times \ {s} : obs'[u] = obs[u]
    BY <1>0, <2>2, <2>4
  <2> QED
    BY <2>1, <2>2, <2>5, <2>6 DEF V2OK
<1>6. ASSUME NEW p \in Scans, ReadActive(p) \/ Update(p) PROVE V2OK'
  BY <1>6, Reconciled DEF V2OK
<1>7. ASSUME NEW p \in Scans, FindActive(p) PROVE V2OK'
  <2>1. PICK step \in {"insert", "idle"} :
          scan[p].at = "capture" /\ Move(p, step) /\ UNCHANGED <<kind, obs, ledgerFaults>>
    BY <1>7 DEF FindActive
  <2>2. \A q \in Scans \ {p} : scan'[q] = scan[q]
    BY <2>1, Moved, Ended
  <2> QED
    BY <2>1, <2>2 DEF V2OK
<1>8. ASSUME NEW p \in Scans, Insert(p) PROVE V2OK'
  <2>1. scan[p].at = "insert" /\ Move(p, "idle") /\ UNCHANGED <<kind, obs, ledgerFaults>>
    BY <1>8 DEF Insert
  <2> QED
    BY <2>1, Ended DEF V2OK
<1>9. ASSUME NEW p \in Scans, ScanFails(p) PROVE V2OK'
  <2>1. ledgerFaults' # 0 /\ UNCHANGED <<kind, obs>>
    BY <1>0, <1>9 DEF ScanFails
  <2> QED
    BY <2>1 DEF V2OK
<1>10. ASSUME NEW p \in Scans, SpanRefused(p) PROVE V2OK'
  <2>1. scan[p].at = "active" /\ Move(p, "idle") /\ UNCHANGED <<kind, obs, ledgerFaults>>
    BY <1>10 DEF SpanRefused
  <2> QED
    BY <2>1, Ended DEF V2OK
<1> QED
  BY <1>2, <1>3, <1>4, <1>5, <1>6, <1>7, <1>8, <1>9, <1>10 DEF LedgerNext, ScanBegins, ScanStep

LEMMA VerdictStep == LedgerInv /\ VerdictInv /\ [LedgerNext]_ledgerVars => VerdictInv'
<1> SUFFICES ASSUME LedgerInv, VerdictInv, [LedgerNext]_ledgerVars PROVE VerdictInv'
  OBVIOUS
<1>1. kind' = kind
  BY DEF LedgerNext, ledgerVars, Publish, ScanBegins, BeginScan, ScanStep, RecordRaw, Record,
         ReadActive, SpanRefused, Update, FindActive, Insert, ScanFails
<1>2. SoftOK'
  BY <1>1, SoftKeeps DEF VerdictInv, SoftOK
<1>3. V2OK'
  BY <1>1, V2Keeps DEF VerdictInv, V2OK
<1> QED
  BY <1>2, <1>3 DEF VerdictInv

\* The observation on record is the one that must stay: a captured soft-regime signal was seen
\* in its entry window, and where no scan of V2 runs and none was cut off, its verdicts are the
\* gated ones (db.js:122-273).
THEOREM VerdictsStay == LedgerSpec => []RightVerdictStays
<1>1. LedgerInit => VerdictInv
  <2> SUFFICES ASSUME LedgerInit PROVE VerdictInv
    OBVIOUS
  <2>1. /\ \A p \in Scans : scan[p].at = "idle"
        /\ \A s \in Times : trades[s] = NoTrade /\ obs[s].by = "nobody" /\ ~obs[s].fresh
    BY IdleType DEF LedgerInit, NoObservation
  <2> QED
    BY <2>1 DEF VerdictInv, SoftOK, V2OK
<1>2. LedgerInv /\ VerdictInv => RightVerdictStays
  BY DEF VerdictInv, SoftOK, V2OK, RightVerdictStays
<1> QED
  BY <1>1, <1>2, VerdictStep, LedgerInvariant, PTL DEF LedgerSpec

--------------------------------------------------------------------------------

(***************************************************************************)
(* The scans, for any candles, strategies, sessions and blackouts.  What   *)
(* a scan has read had closed when it began (SeenBy), and each answer      *)
(* keeps the window of its entry open (VerdictOK); the evaluator's state   *)
(* before the last candle does not matter for that.                        *)
(***************************************************************************)

LEMMA NewestOf ==
  ASSUME NEW n \in Nat, NEW S \in SUBSET (0..n), S # {}
  PROVE  Newest(S) \in S /\ \A u \in S : u <= Newest(S)
<1>1. Newest(S) = Greatest(S)
  BY DEF Newest, Greatest
<1>2. QED
  BY <1>1, GreatestOf

LEMMA OldestOf ==
  ASSUME NEW S \in SUBSET Nat, S # {}
  PROVE  Oldest(S) \in S
<1>1. Oldest(S) = Least(S)
  BY DEF Oldest, Least
<1>2. QED
  BY <1>1, LeastOf

\* The slots of an hour, by the hour and by the slot.
LEMMA HoursAre ==
  ASSUME NEW h \in Nat
  PROVE  /\ (h + 1) * PerHour \in Nat /\ (h + 1) * PerHour \in HourSlots(h)
         /\ HourOf((h + 1) * PerHour) = h
         /\ \A i \in Nat \ {0} : HourOf(i) = h => i \in HourSlots(h)
<1> DEFINE P == PerHour
<1>1. P \in Nat \ {0}
  BY SlotsAssumption
<1> HIDE DEF P
<1>2. (h + 1) * P = h * P + P /\ h * P \in Nat
  BY <1>1, Z3
<1>3. ((h + 1) * P - 1) \div P = h
  <2>1. \A q \in Int : q * P <= h * P + P - 1 /\ h * P + P - 1 < q * P + P => q = h
    <3> SUFFICES ASSUME NEW q \in Int, q * P <= h * P + P - 1, h * P + P - 1 < q * P + P
                 PROVE  q = h
      OBVIOUS
    <3>1. (q - h) * P = q * P - h * P
      BY <1>1, Z3
    <3>2. q - h >= 1 => (q - h) * P >= P
      BY <1>1, Z3
    <3>3. h - q >= 1 => (h - q) * P >= P
      BY <1>1, Z3
    <3>4. (h - q) * P = h * P - q * P /\ q * P \in Int
      BY <1>1, Z3
    <3>5. QED
      BY <1>1, <1>2, <3>1, <3>2, <3>3, <3>4
  <2> DEFINE a == (h + 1) * P - 1
             q == a \div P
  <2>2. a \in Int /\ a = h * P + P - 1
    BY <1>1, <1>2
  <2> HIDE DEF a
  <2>3. q \in Int /\ q * P <= a /\ a < q * P + P
    BY <1>1, <2>2, Z3
  <2> HIDE DEF q
  <2>4. QED
    BY <2>1, <2>2, <2>3 DEF a, q
<1>4. ASSUME NEW i \in Nat \ {0}, (i - 1) \div P = h PROVE i \in (h * P + 1)..((h + 1) * P)
  <2>1. h * P <= i - 1 /\ i - 1 < h * P + P
    BY <1>1, <1>4, Z3
  <2>2. QED
    BY <1>1, <1>2, <2>1
<1>5. QED
  BY <1>1, <1>2, <1>3, <1>4 DEF HourSlots, HourOf, P

(***************************************************************************)
(* What the tape, a scan and an answer are.                                *)
(***************************************************************************)
ScanCandles == Shapes \cup {Past[i] : i \in DOMAIN Past}

TapeOK ==
  /\ tape \in Seq(ScanCandles) /\ Len(Past) <= Len(tape) /\ Len(tape) <= Slots
  /\ \A i \in 1..Len(tape) : tape[i] \in Shapes \/ (i <= Len(Past) /\ tape[i] = Past[i])

ScanRequest ==
  [kind : Strategies \cup {"none"}, step : {"idle", "history", "quote", "open"}, asOf : Nat,
   seen : SUBSET Nat, spread : Spreads \cup {Unknown}, risk : MinLotRisks]

\* A scan has read candles that had closed when it began, and that the broker has.
SeenBy(r) == r.asOf <= Len(tape) /\ \A i \in r.seen : 1 <= i /\ i <= r.asOf /\ tape[i].seen

AskedOK ==
  /\ request \in ScanRequest /\ SeenBy(request)
  /\ request.step = "open" => request.kind \in {"structure", "breakout"}

WindowOpen(a) ==
  a.status = "SIGNAL_READY" /\ a.kind # "v1" =>
    /\ a.slot = a.asOf
    /\ a.kind = "scalp" => tape[a.slot].scalp = "enters"
    /\ a.kind # "scalp" => a.slot \notin Blackout(a.kind)
    /\ a.kind \in {"structure", "breakout"} =>
         /\ a.slot + 1 \in Session \ Blackout(a.kind)
         /\ \A i \in 1..a.slot : HourOf(i) = HourOf(a.slot) => tape[i].seen

VerdictOK(a) ==
  /\ a.status \in {"NONE", "WATCHING", "SETUP_FORMING", "BLOCKED", "SIGNAL_READY"}
  /\ a.side \in {"LONG", "SHORT", "NONE"}
  /\ a.asOf \in Nat /\ a.slot \in 0..a.asOf
  /\ WindowOpen(a)

ScanInv == TapeOK /\ AskedOK /\ VerdictOK(answer)

LEMMA AnswerIs ==
  ASSUME NEW r, NEW i, NEW status, NEW side
  PROVE  /\ Answer(r, i, status, side).kind = r.kind /\ Answer(r, i, status, side).slot = i
         /\ Answer(r, i, status, side).asOf = r.asOf /\ Answer(r, i, status, side).status = status
         /\ Answer(r, i, status, side).side = side
  BY DEF Answer

LEMMA NoAnswerOK == VerdictOK(NoAnswer)
  BY DEF VerdictOK, WindowOpen, NoAnswer

\* The last candle that was read.
LEMMA LastSeen ==
  ASSUME NEW r \in ScanRequest, SeenBy(r), r.seen # {}
  PROVE  Newest(r.seen) \in r.seen /\ Newest(r.seen) \in 1..r.asOf
<1>1. r.asOf \in Nat /\ r.seen \subseteq 1..r.asOf /\ r.seen \in SUBSET (0..r.asOf)
  BY DEF ScanRequest, SeenBy
<1>2. QED
  BY <1>1, NewestOf

(***************************************************************************)
(* The pullback strategies.                                                *)
(***************************************************************************)
LEMMA EvaluatedIs ==
  ASSUME NEW strategy, NEW rows, NEW spread
  PROVE  LET ev == Replayed(strategy, rows, spread)
         IN  /\ ev.side \in {"LONG", "SHORT", "NONE"}
             /\ ev.status \in {"WATCHING", "SETUP_FORMING", "BLOCKED", "SIGNAL_READY"}
             /\ ~ ev.blocked => Newest(rows) \notin Blackout(strategy)
<1> DEFINE i == Newest(rows)
           e == EvaluatedTo(Newest(rows) - 1, strategy, rows, Unknown)
           regime == RegimeAt(e.rows, i)
           ev == Evaluated(e, strategy, i, spread)
           held == Cardinality(checks(e.rows, i, regime.direction))
           shock == evaluateMarketShock(i, spread)
           rest == Rest(e.rest, shock)
           blocked == \/ ~inSession(strategy, i) \/ isInsideBlackout(strategy, i) \/ shock \/ rest > 0
                      \/ regime.strength = "NOT_READY"
<1>1. Replayed(strategy, rows, spread) = ev
  BY DEF Replayed
<1>2. /\ ev.side = IF regime.strength \in {"HARD", "SOFT"} THEN regime.direction ELSE "NONE"
      /\ ev.status = StatusOf(blocked, regime.strength, held)
      /\ ev.blocked = blocked
  BY Zenon DEF Evaluated
<1>3. regime.direction \in {"LONG", "SHORT", "NONE"}
  BY DEF RegimeAt, NotReady, classifyH1Regime
<1>4. \A b, s, n : StatusOf(b, s, n) \in {"WATCHING", "SETUP_FORMING", "BLOCKED", "SIGNAL_READY"}
  BY DEF StatusOf
<1>5. i \in Blackout(strategy) => blocked
  BY DEF isInsideBlackout
<1> HIDE DEF i, e, regime, ev, held, shock, rest, blocked
<1>6. /\ ev.side \in {"LONG", "SHORT", "NONE"}
      /\ ~ ev.blocked => i \notin Blackout(strategy)
      /\ ev.status \in {"WATCHING", "SETUP_FORMING", "BLOCKED", "SIGNAL_READY"}
  BY <1>2, <1>3, <1>4, <1>5
<1>7. QED
  BY <1>1, <1>6 DEF i

LEMMA V1AnswerOK ==
  ASSUME NEW r \in ScanRequest, SeenBy(r), r.seen # {}, r.kind = "v1"
  PROVE  VerdictOK(V1Answer(r))
<1> DEFINE ev == Replayed("v1", r.seen, r.spread)
           i == Newest(r.seen)
           status == IF ev.status = "SIGNAL_READY" /\ Steep(i, r.spread) THEN "BLOCKED" ELSE ev.status
<1>1. V1Answer(r) = Answer(r, i, status, ev.side)
  BY DEF V1Answer
<1>2. status \in {"WATCHING", "SETUP_FORMING", "BLOCKED", "SIGNAL_READY"} /\ ev.side \in {"LONG", "SHORT", "NONE"}
  BY EvaluatedIs
<1>3. i \in 1..r.asOf /\ r.asOf \in Nat
  BY LastSeen DEF ScanRequest
<1> HIDE DEF ev, i, status
<1>4. QED
  BY <1>1, <1>2, <1>3, AnswerIs DEF VerdictOK, WindowOpen

LEMMA SoftAnswerOK ==
  ASSUME NEW r \in ScanRequest, SeenBy(r), r.seen # {}, r.kind = "soft"
  PROVE  VerdictOK(SoftAnswer(r))
<1> DEFINE ev == Replayed("soft", r.seen, r.spread)
           i == Newest(r.seen)
<1>1. PICK status \in {"WATCHING", "SETUP_FORMING", "BLOCKED", "SIGNAL_READY"} :
        /\ SoftAnswer(r) = Answer(r, i, status, ev.side)
        /\ status = "SIGNAL_READY" => ~ ev.blocked /\ Fresh(i, r.asOf)
  BY DEF SoftAnswer
<1>2. ev.side \in {"LONG", "SHORT", "NONE"} /\ (~ ev.blocked => i \notin Blackout("soft"))
  BY EvaluatedIs
<1>3. i \in 1..r.asOf /\ r.asOf \in Nat
  BY LastSeen DEF ScanRequest
<1> HIDE DEF ev, i
<1>4. QED
  BY <1>1, <1>2, <1>3, AnswerIs DEF VerdictOK, WindowOpen, Fresh

(***************************************************************************)
(* The hourly strategies.                                                  *)
(***************************************************************************)
LEMMA WholeHour ==
  ASSUME NEW r \in ScanRequest, SeenBy(r), HasSetup(r)
  PROVE  LET i == SetupSlot(r.seen)
         IN  /\ i \in 1..r.asOf
             /\ \A k \in 1..i : HourOf(k) = HourOf(i) => tape[k].seen
<1> DEFINE H == CompletedHours(r.seen)
           i == SetupSlot(r.seen)
<1>1. H \in SUBSET (0..Slots) /\ Slots \in Nat
  BY SlotsAssumption DEF CompletedHours
<1>2. H # {}
  <2>1. Cardinality({}) = 0 /\ Channel \in Nat
    BY FS_EmptySet, SlotsAssumption
  <2>2. QED
    BY <2>1 DEF HasSetup
<1>3. PICK h \in H : h = Newest(H)
  <2> HIDE DEF H
  <2>1. QED
    BY <1>1, <1>2, NewestOf
<1>4. h \in Nat /\ HourSlots(h) \subseteq r.seen /\ i = (h + 1) * PerHour
  BY <1>1, <1>3 DEF CompletedHours, SetupSlot
<1> HIDE DEF H, i
<1>5. i \in r.seen /\ HourOf(i) = h
  BY <1>4, HoursAre
<1>6. ASSUME NEW k \in 1..i, HourOf(k) = HourOf(i) PROVE tape[k].seen
  <2>1. k \in Nat \ {0}
    OBVIOUS
  <2>2. k \in HourSlots(h)
    BY <1>4, <1>5, <1>6, <2>1, HoursAre
  <2>3. QED
    BY <1>4, <2>2 DEF SeenBy
<1>7. i \in 1..r.asOf
  <2>1. r.asOf \in Nat /\ i \in Nat /\ 1 <= i /\ i <= r.asOf
    BY <1>5 DEF SeenBy, ScanRequest
  <2>2. QED
    BY <2>1
<1>8. QED
  BY <1>6, <1>7 DEF i

LEMMA HourlyAnswerOK ==
  ASSUME NEW r \in ScanRequest, SeenBy(r), r.kind \in {"structure", "breakout"}, NEW price \in BOOLEAN
  PROVE  VerdictOK(Answer(r, IF HasSetup(r) THEN SetupSlot(r.seen) ELSE 0, HourlyStatus(r, price), SideOf(r)))
<1> DEFINE i == SetupSlot(r.seen)
           slot == IF HasSetup(r) THEN i ELSE 0
           status == HourlyStatus(r, price)
<1>1. SideOf(r) \in {"LONG", "SHORT", "NONE"} /\ (SideOf(r) # "NONE" => HasSetup(r))
  BY DEF SideOf, StructureSide, BreakoutSide
<1>2. /\ status \in {"WATCHING", "BLOCKED", "SIGNAL_READY"}
      /\ status = "SIGNAL_READY" => SideOf(r) # "NONE" /\ ~ HourlyRefused(r, i)
  BY DEF HourlyStatus
<1>3. ~ HourlyRefused(r, i) => i = r.asOf /\ i + 1 \in Session \ Blackout(r.kind) /\ i \notin Blackout(r.kind)
  BY DEF HourlyRefused, Fresh, isInsideBlackout
<1>4. HasSetup(r) => i \in 1..r.asOf /\ \A k \in 1..i : HourOf(k) = HourOf(i) => tape[k].seen
  BY WholeHour
<1>5. r.asOf \in Nat /\ slot \in 0..r.asOf
  BY <1>4 DEF ScanRequest
<1>6. status = "SIGNAL_READY" => slot = i
  BY <1>1, <1>2
<1> HIDE DEF i, slot, status
<1> DEFINE a == Answer(r, slot, status, SideOf(r))
<1>7. a.kind = r.kind /\ a.slot = slot /\ a.asOf = r.asOf /\ a.status = status /\ a.side = SideOf(r)
  BY AnswerIs
<1> HIDE DEF a
<1>8. WindowOpen(a)
  BY <1>1, <1>2, <1>3, <1>4, <1>6, <1>7 DEF WindowOpen
<1>9. VerdictOK(a)
  BY <1>1, <1>2, <1>5, <1>7, <1>8 DEF VerdictOK
<1>10. QED
  BY <1>9 DEF a, slot, status, i

(***************************************************************************)
(* The scalp.                                                              *)
(***************************************************************************)
LEMMA ScalpAnswerOK ==
  ASSUME NEW r \in ScanRequest, SeenBy(r), r.kind = "scalp", NEW clear \in BOOLEAN
  PROVE  VerdictOK(ScalpAnswer(r, clear))
<1> DEFINE i == ScalpEntry(r.seen)
<1>1. i = 0 \/ (i \in r.seen /\ tape[i].scalp = "enters")
  <2> DEFINE open == {k \in r.seen : /\ tape[k].scalp = "enters"
                                     /\ \A j \in r.seen : j > k => tape[j].scalp # "leaves"}
  <2>1. i = IF open = {} THEN 0 ELSE Oldest(open)
    BY DEF ScalpEntry
  <2>2. open \in SUBSET Nat
    BY DEF ScanRequest
  <2>3. open # {} => Oldest(open) \in open
    <3> HIDE DEF open
    <3>1. QED
      BY <2>2, OldestOf
  <2> HIDE DEF i
  <2>4. QED
    BY <2>1, <2>3
<1>2. r.asOf \in Nat /\ i \in 0..r.asOf
  BY <1>1 DEF ScanRequest, SeenBy
<1> HIDE DEF i
<1>3. PICK status \in {"WATCHING", "BLOCKED", "SIGNAL_READY"}, side \in {"LONG", "NONE"} :
        /\ ScalpAnswer(r, clear) = Answer(r, i, status, side)
        /\ status = "SIGNAL_READY" => i # 0 /\ Fresh(i, r.asOf)
  <2>1. CASE i = 0
    BY <2>1 DEF ScalpAnswer, i
  <2>2. CASE i # 0
    BY <2>2 DEF ScalpAnswer, i
  <2>3. QED
    BY <2>1, <2>2
<1>4. QED
  BY <1>1, <1>2, <1>3, AnswerIs DEF VerdictOK, WindowOpen, Fresh

(***************************************************************************)
(* One step.                                                               *)
(***************************************************************************)
LEMMA ScanStarts == ScanInit => ScanInv
<1> SUFFICES ASSUME ScanInit PROVE ScanInv
  OBVIOUS
<1>1. tape = Past /\ request = NoRequest /\ answer = NoAnswer
  BY DEF ScanInit
<1>2. TapeOK
  <2>1. Past \in Seq({Past[i] : i \in DOMAIN Past}) /\ Len(Past) <= Slots /\ Len(Past) \in Nat
    BY SlotsAssumption
  <2>2. Past \in Seq(ScanCandles)
    BY <2>1 DEF ScanCandles
  <2>3. QED
    BY <1>1, <2>1, <2>2 DEF TapeOK
<1>3. AskedOK
  <2>1. NoRequest \in ScanRequest
    BY DEF NoRequest, ScanRequest, MinLotRisks
  <2>2. SeenBy(NoRequest) /\ NoRequest.step # "open"
    BY <1>1, SlotsAssumption DEF NoRequest, SeenBy
  <2>3. QED
    BY <1>1, <2>1, <2>2 DEF AskedOK
<1>4. QED
  BY <1>1, <1>2, <1>3, NoAnswerOK DEF ScanInv

\* A request that is at an end leaves an answer, or none.
LEMMA AnsweredKeeps ==
  ASSUME ScanInv, NEW a, VerdictOK(a), answer' = a, request' = NoRequest, tape' = tape
  PROVE  ScanInv'
<1>1. TapeOK'
  BY DEF ScanInv, TapeOK
<1>2. VerdictOK(answer)'
  BY DEF VerdictOK, WindowOpen
<1>3. AskedOK'
  <2>1. NoRequest \in ScanRequest
    BY DEF NoRequest, ScanRequest, MinLotRisks
  <2>2. NoRequest.asOf = 0 /\ NoRequest.seen = {} /\ NoRequest.step # "open"
    BY DEF NoRequest
  <2>3. 0 <= Len(tape)
    BY DEF ScanInv, TapeOK
  <2>4. QED
    BY <2>1, <2>2, <2>3 DEF AskedOK, SeenBy
<1>4. QED
  BY <1>1, <1>2, <1>3 DEF ScanInv

LEMMA NewCandleKeeps ==
  ASSUME ScanInv, NewCandle
  PROVE  ScanInv'
<1>1. PICK c \in Shapes : tape' = Append(tape, c)
  BY DEF NewCandle
<1>2. request = NoRequest /\ request' = request /\ answer' = NoAnswer /\ Len(tape) < Slots
  BY DEF NewCandle
<1>3. tape \in Seq(ScanCandles) /\ c \in ScanCandles /\ Len(Past) <= Len(tape) /\ Len(tape) \in Nat
      /\ Len(Past) \in Nat /\ Slots \in Nat
  BY SlotsAssumption DEF ScanInv, TapeOK, ScanCandles
<1>4. /\ tape' \in Seq(ScanCandles) /\ Len(tape') = Len(tape) + 1
      /\ \A i \in 1..Len(tape) : tape'[i] = tape[i]
      /\ tape'[Len(tape) + 1] = c
  BY <1>1, <1>3
<1>5. TapeOK'
  <2>1. ASSUME NEW i \in 1..Len(tape') PROVE tape'[i] \in Shapes \/ (i <= Len(Past) /\ tape'[i] = Past[i])
    <3>1. CASE i \in 1..Len(tape)
      BY <1>4, <3>1 DEF ScanInv, TapeOK
    <3>2. CASE i = Len(tape) + 1
      BY <1>4, <3>2
    <3>3. QED
      BY <1>3, <1>4, <3>1, <3>2
  <2>2. QED
    BY <1>2, <1>3, <1>4, <2>1 DEF TapeOK
<1>6. AskedOK'
  <2>1. NoRequest \in ScanRequest
    BY <1>2 DEF ScanInv, AskedOK
  <2>2. NoRequest.asOf = 0 /\ NoRequest.seen = {} /\ NoRequest.step # "open"
    BY DEF NoRequest
  <2>3. QED
    BY <1>2, <1>3, <1>4, <2>1, <2>2 DEF AskedOK, SeenBy
<1>7. VerdictOK(answer)'
  BY <1>2 DEF VerdictOK, WindowOpen, NoAnswer
<1>8. QED
  BY <1>5, <1>6, <1>7 DEF ScanInv

\* A request that goes on, on the same tape.
LEMMA GoesOnKeeps ==
  ASSUME ScanInv, NEW r \in ScanRequest, SeenBy(r), r.step = "open" => r.kind \in {"structure", "breakout"},
         request' = r, tape' = tape, answer' = answer
  PROVE  ScanInv'
<1>1. TapeOK'
  BY DEF ScanInv, TapeOK
<1>2. VerdictOK(answer)'
  BY DEF ScanInv, VerdictOK, WindowOpen
<1>3. AskedOK'
  BY DEF AskedOK, SeenBy
<1>4. QED
  BY <1>1, <1>2, <1>3 DEF ScanInv

LEMMA BeginRequestKeeps ==
  ASSUME ScanInv, NEW strategy \in Strategies, BeginRequest(strategy)
  PROVE  ScanInv'
<1> DEFINE r == [NoRequest EXCEPT !.kind = strategy, !.step = "history", !.asOf = Len(tape)]
<1>1. request' = r /\ tape' = tape /\ answer' = answer
  BY DEF BeginRequest
<1>2. Len(tape) \in Nat
  BY DEF ScanInv, TapeOK
<1>3. r \in ScanRequest /\ r.asOf = Len(tape) /\ r.seen = {} /\ r.step = "history"
  BY <1>2 DEF NoRequest, ScanRequest, MinLotRisks
<1>4. SeenBy(r)
  BY <1>2, <1>3 DEF SeenBy
<1> HIDE DEF r
<1>5. QED
  BY <1>1, <1>3, <1>4, GoesOnKeeps

LEMMA ReadHistoryKeeps ==
  ASSUME ScanInv, ReadHistory
  PROVE  ScanInv'
<1>1. PICK late \in {0, 1} :
        request' = [request EXCEPT !.seen = History(request.asOf, late), !.step = "quote"]
  BY DEF ReadHistory
<1> DEFINE r == [request EXCEPT !.seen = History(request.asOf, late), !.step = "quote"]
<1>2. tape' = tape /\ answer' = answer
  BY DEF ReadHistory
<1>3. request \in ScanRequest /\ request.asOf <= Len(tape) /\ request.asOf \in Nat /\ Window \in Nat
  BY SlotsAssumption DEF ScanInv, AskedOK, SeenBy, ScanRequest
<1>4. \A i \in History(request.asOf, late) : i \in Nat /\ 1 <= i /\ i <= request.asOf /\ tape[i].seen
  BY <1>3 DEF History, SeenIn, WindowStart
<1>5. r \in ScanRequest
  <2>1. History(request.asOf, late) \in SUBSET Nat
    BY <1>4
  <2>2. QED
    BY <1>3, <2>1 DEF ScanRequest
<1>6. r.asOf = request.asOf /\ r.seen = History(request.asOf, late) /\ r.step = "quote"
  BY <1>3 DEF ScanRequest
<1> HIDE DEF r
<1>7. SeenBy(r)
  BY <1>3, <1>4, <1>6 DEF SeenBy
<1>8. QED
  BY <1>1, <1>2, <1>5, <1>6, <1>7, GoesOnKeeps DEF r

\* What quote and sizing add to a request.
LEMMA Quoted ==
  ASSUME AskedOK, NEW spread \in Spreads \cup {Unknown}, NEW risk \in MinLotRisks,
         NEW step \in {"idle", "history", "quote", "open"}
  PROVE  LET r == [request EXCEPT !.spread = spread, !.risk = risk, !.step = step]
             q == [request EXCEPT !.spread = spread, !.risk = risk]
             o == [request EXCEPT !.spread = spread]
         IN  /\ r \in ScanRequest /\ SeenBy(r) /\ r.kind = request.kind /\ r.step = step
             /\ q \in ScanRequest /\ SeenBy(q) /\ q.kind = request.kind
             /\ o \in ScanRequest /\ SeenBy(o) /\ o.kind = request.kind
  BY DEF AskedOK, ScanRequest, SeenBy

LEMMA ReadQuoteKeeps ==
  ASSUME ScanInv, ReadQuote
  PROVE  ScanInv'
<1>1. PICK spread \in Spreads \cup {Unknown}, risk \in MinLotRisks :
        LET r == [request EXCEPT !.spread = spread, !.risk = risk]
        IN  Answered(CASE r.seen = {} -> NoAnswer
                       [] r.seen # {} /\ r.kind = "v1" -> V1Answer(r)
                       [] OTHER -> SoftAnswer(r))
  BY DEF ReadQuote
<1> DEFINE r == [request EXCEPT !.spread = spread, !.risk = risk]
<1>2. r \in ScanRequest /\ SeenBy(r) /\ r.kind \in {"v1", "soft"}
  BY Quoted DEF ScanInv, ReadQuote
<1> HIDE DEF r
<1>3. Answered(CASE r.seen = {} -> NoAnswer
                 [] r.seen # {} /\ r.kind = "v1" -> V1Answer(r)
                 [] OTHER -> SoftAnswer(r))
  BY <1>1 DEF r
<1>4. PICK a : Answered(a) /\ VerdictOK(a)
  <2>1. CASE r.seen = {}
    BY <1>3, <2>1, NoAnswerOK
  <2>2. CASE r.seen # {} /\ r.kind = "v1"
    BY <1>2, <1>3, <2>2, V1AnswerOK
  <2>3. CASE r.seen # {} /\ r.kind = "soft"
    BY <1>2, <1>3, <2>3, SoftAnswerOK
  <2>4. QED
    BY <1>2, <2>1, <2>2, <2>3
<1>5. QED
  BY <1>4, AnsweredKeeps DEF Answered

LEMMA ReadFreshnessKeeps ==
  ASSUME ScanInv, ReadFreshness
  PROVE  ScanInv'
<1>1. PICK spread \in Spreads \cup {Unknown}, clear \in BOOLEAN :
        Answered(ScalpAnswer([request EXCEPT !.spread = spread], clear))
  BY DEF ReadFreshness
<1> DEFINE r == [request EXCEPT !.spread = spread]
<1>2. r \in ScanRequest /\ SeenBy(r) /\ r.kind = "scalp"
  <2>1. \E risk \in MinLotRisks, step \in {"idle", "history", "quote", "open"} : TRUE
    BY DEF MinLotRisks
  <2>2. QED
    BY <2>1, Quoted DEF ScanInv, ReadFreshness
<1> HIDE DEF r
<1>3. VerdictOK(ScalpAnswer(r, clear))
  BY <1>2, ScalpAnswerOK
<1>4. QED
  BY <1>1, <1>3, AnsweredKeeps DEF Answered, r

LEMMA ReadAccountKeeps ==
  ASSUME ScanInv, ReadAccount
  PROVE  ScanInv'
<1>1. PICK spread \in Spreads \cup {Unknown}, risk \in MinLotRisks :
        request' = [request EXCEPT !.spread = spread, !.risk = risk, !.step = "open"]
  BY DEF ReadAccount
<1> DEFINE r == [request EXCEPT !.spread = spread, !.risk = risk, !.step = "open"]
<1>2. tape' = tape /\ answer' = answer /\ request.kind \in {"structure", "breakout"}
  BY DEF ReadAccount
<1>3. r \in ScanRequest /\ SeenBy(r) /\ r.kind = request.kind
  BY Quoted DEF ScanInv
<1> HIDE DEF r
<1>4. QED
  BY <1>1, <1>2, <1>3, GoesOnKeeps DEF r

LEMMA ReadOpenKeeps ==
  ASSUME ScanInv, ReadOpen
  PROVE  ScanInv'
<1>1. PICK price \in BOOLEAN :
        Answered(IF request.kind = "structure" THEN StructureAnswer(request, price)
                 ELSE BreakoutAnswer(request, price))
  BY DEF ReadOpen
<1>2. request \in ScanRequest /\ SeenBy(request) /\ request.kind \in {"structure", "breakout"}
  BY DEF ScanInv, AskedOK, ReadOpen
<1>3. VerdictOK(StructureAnswer(request, price)) /\ VerdictOK(BreakoutAnswer(request, price))
  BY <1>2, HourlyAnswerOK DEF StructureAnswer, BreakoutAnswer
<1>4. QED
  BY <1>1, <1>3, AnsweredKeeps DEF Answered

LEMMA ScanGoesOn == ScanInv /\ [ScanNext]_scanVars => ScanInv'
<1> SUFFICES ASSUME ScanInv, [ScanNext]_scanVars PROVE ScanInv'
  OBVIOUS
<1>1. CASE UNCHANGED scanVars
  BY <1>1, Zenon DEF scanVars, ScanInv, TapeOK, AskedOK, SeenBy, VerdictOK, WindowOpen
<1>2. CASE ReadThrows
  BY <1>2, AnsweredKeeps DEF ReadThrows, ScanInv
<1>3. CASE \E strategy \in Strategies : BeginRequest(strategy)
  BY <1>3, BeginRequestKeeps
<1>4. CASE \/ NewCandle \/ ReadHistory \/ ReadQuote \/ ReadFreshness \/ ReadAccount \/ ReadOpen
  BY <1>4, NewCandleKeeps, ReadHistoryKeeps, ReadQuoteKeeps, ReadFreshnessKeeps, ReadAccountKeeps,
     ReadOpenKeeps, Zenon
<1>5. QED
  BY <1>1, <1>2, <1>3, <1>4, Zenon DEF ScanNext

LEMMA ScansKept == ScanSpec => []ScanInv
  BY ScanStarts, ScanGoesOn, PTL DEF ScanSpec

\* For any candles, sessions, blackouts and spreads, whichever candles the broker lacks and
\* however late it is: what a shadow strategy calls ready can still be entered; its candle, and
\* the whole hour of the hourly ones, had closed and was read, and the entry is in the session
\* and outside blackouts (structureA2Shadow.js:282-311, priceBreakoutShadow.js:275-304,
\* softRegimeShadow.js:141-176, scalpShadow.mjs:232-240).
THEOREM WindowStaysOpen == ScanSpec => []EntryWindowOpen
<1>1. ScanInv => EntryWindowOpen
  BY DEF ScanInv, VerdictOK, WindowOpen, EntryWindowOpen, Ready
<1>2. QED
  BY <1>1, ScansKept, PTL

(***************************************************************************)
(* The replay of a history, for any candles.  After any of them, the       *)
(* evaluator has its rows, and the cooldown that the latest shock among    *)
(* them has left (Remembers).                                              *)
(***************************************************************************)
LEMMA Induction ==
  ASSUME NEW S, 0 \in S, \A n \in Nat : n \in S => n + 1 \in S
  PROVE  Nat \subseteq S
<1> SUFFICES ASSUME Nat \ S # {} PROVE FALSE
  OBVIOUS
<1>1. PICK x \in Nat \ S : \A u \in Nat \ S : x <= u
  BY LeastOf
<1>2. x # 0 /\ x - 1 \in Nat /\ ~ (x <= x - 1) /\ (x - 1) + 1 = x
  OBVIOUS
<1>3. QED
  BY <1>1, <1>2

\* f is the evaluator after each of the candles up to n.
Runs(f, n, strategy, rows, spread) ==
  f = [i \in 0..n |-> IF i = 0 THEN Evaluator
                      ELSE IF i \in rows THEN Evaluated(f[i - 1], strategy, i, spread)
                      ELSE f[i - 1]]

LEMMA RunStep ==
  ASSUME NEW n \in Nat, NEW f, NEW strategy, NEW rows, NEW spread, Runs(f, n, strategy, rows, spread)
  PROVE  /\ f[0] = Evaluator
         /\ \A i \in 1..n : f[i] = IF i \in rows THEN Evaluated(f[i - 1], strategy, i, spread) ELSE f[i - 1]
<1> DEFINE g(i) == IF i = 0 THEN Evaluator
                   ELSE IF i \in rows THEN Evaluated(f[i - 1], strategy, i, spread)
                   ELSE f[i - 1]
<1>1. f = [i \in 0..n |-> g(i)]
  BY DEF Runs
<1>2. \A i \in 0..n : f[i] = g(i)
  <2> HIDE DEF g
  <2> QED BY <1>1
<1>3. 0 \in 0..n /\ \A i \in 1..n : i \in 0..n /\ i # 0
  OBVIOUS
<1>4. QED
  BY <1>2, <1>3

LEMMA RunExists ==
  ASSUME NEW n \in Nat, NEW strategy, NEW rows, NEW spread
  PROVE  \E f : Runs(f, n, strategy, rows, spread)
<1> DEFINE S == {m \in Nat : \E f : Runs(f, m, strategy, rows, spread)}
<1>1. 0 \in S
  <2> DEFINE f == [k \in 0..0 |-> Evaluator]
  <2>1. f = [i \in 0..0 |-> IF i = 0 THEN Evaluator
                            ELSE IF i \in rows THEN Evaluated(f[i - 1], strategy, i, spread)
                            ELSE f[i - 1]]
    OBVIOUS
  <2>2. Runs(f, 0, strategy, rows, spread)
    BY <2>1 DEF Runs
  <2> QED BY <2>2
<1>2. ASSUME NEW m \in Nat, m \in S PROVE m + 1 \in S
  <2>1. PICK f : Runs(f, m, strategy, rows, spread)
    BY <1>2
  <2> DEFINE e == IF m + 1 \in rows THEN Evaluated(f[m], strategy, m + 1, spread) ELSE f[m]
             g == [k \in 0..(m + 1) |-> IF k = m + 1 THEN e ELSE f[k]]
             G(k) == IF k = 0 THEN Evaluator
                     ELSE IF k \in rows THEN Evaluated(g[k - 1], strategy, k, spread)
                     ELSE g[k - 1]
  <2>2. /\ f[0] = Evaluator
        /\ \A i \in 1..m : f[i] = IF i \in rows THEN Evaluated(f[i - 1], strategy, i, spread) ELSE f[i - 1]
    BY <2>1, RunStep
  <2>3. \A k \in 0..(m + 1) : g[k] = IF k = m + 1 THEN e ELSE f[k]
    OBVIOUS
  <2>4. DOMAIN g = 0..(m + 1) /\ g = [k \in 0..(m + 1) |-> g[k]]
    OBVIOUS
  <2> HIDE DEF g
  <2>5. ASSUME NEW k \in 0..(m + 1) PROVE g[k] = G(k)
    <3>1. CASE k = 0
      <4>1. 0 \in 0..(m + 1) /\ 0 # m + 1
        OBVIOUS
      <4>2. g[0] = Evaluator
        BY <2>2, <2>3, <4>1
      <4> QED BY <3>1, <4>2
    <3>2. CASE k \in 1..m
      <4>1. k - 1 \in 0..(m + 1) /\ k - 1 # m + 1 /\ k # m + 1 /\ k # 0
        BY <3>2
      <4>2. g[k] = f[k] /\ g[k - 1] = f[k - 1]
        BY <2>3, <4>1
      <4> QED BY <2>2, <3>2, <4>1, <4>2
    <3>3. CASE k = m + 1
      <4>1. (m + 1) - 1 = m /\ m \in 0..(m + 1) /\ m # m + 1 /\ m + 1 # 0 /\ m + 1 \in 0..(m + 1)
        OBVIOUS
      <4>2. g[m] = f[m] /\ g[m + 1] = e
        BY <2>3, <4>1
      <4> QED BY <3>3, <4>1, <4>2
    <3>4. QED
      BY <3>1, <3>2, <3>3
  <2>6. g = [k \in 0..(m + 1) |-> G(k)]
    <3> HIDE DEF G
    <3> QED BY <2>4, <2>5
  <2>7. Runs(g, m + 1, strategy, rows, spread)
    BY <2>6 DEF Runs
  <2> QED BY <2>7
<1>3. Nat \subseteq S
  <2> HIDE DEF S
  <2> QED BY <1>1, <1>2, Induction
<1>4. QED
  BY <1>3

LEMMA EvaluatedToIs ==
  ASSUME NEW n \in Nat, NEW strategy, NEW rows, NEW spread
  PROVE  \E f : Runs(f, n, strategy, rows, spread) /\ EvaluatedTo(n, strategy, rows, spread) = f[n]
<1> DEFINE after == CHOOSE f : f = [i \in 0..n |-> IF i = 0 THEN Evaluator
                                 ELSE IF i \in rows THEN Evaluated(f[i - 1], strategy, i, spread)
                                 ELSE f[i - 1]]
<1>1. \E f : f = [i \in 0..n |-> IF i = 0 THEN Evaluator
                                 ELSE IF i \in rows THEN Evaluated(f[i - 1], strategy, i, spread)
                                 ELSE f[i - 1]]
  <2>1. PICK f : Runs(f, n, strategy, rows, spread)
    BY RunExists
  <2>2. f = [i \in 0..n |-> IF i = 0 THEN Evaluator
                            ELSE IF i \in rows THEN Evaluated(f[i - 1], strategy, i, spread)
                            ELSE f[i - 1]]
    BY <2>1 DEF Runs
  <2> QED BY <2>2
<1>2. after = [i \in 0..n |-> IF i = 0 THEN Evaluator
                                 ELSE IF i \in rows THEN Evaluated(after[i - 1], strategy, i, spread)
                                 ELSE after[i - 1]]
  BY <1>1
<1>3. EvaluatedTo(n, strategy, rows, spread) = after[n]
  BY DEF EvaluatedTo
<1> HIDE DEF after
<1>4. Runs(after, n, strategy, rows, spread)
  BY <1>2 DEF Runs
<1>5. QED
  BY <1>3, <1>4

(***************************************************************************)
(* The candles after one of some, and the cooldown.                        *)
(***************************************************************************)
Later(rows, w) == {j \in rows : j > w}
UpTo(rows, n) == {j \in rows : j <= n}

LEMMA Counted ==
  ASSUME NEW n \in Nat, NEW rows \in SUBSET (1..n)
  PROVE  /\ IsFiniteSet(rows) /\ Cardinality(rows) \in Nat
         /\ \A w : Cardinality(Later(rows, w)) \in Nat /\ IsFiniteSet(Later(rows, w))
<1>1. IsFiniteSet(1..n)
  BY FS_Interval
<1>2. \A S \in SUBSET (1..n) : IsFiniteSet(S) /\ Cardinality(S) \in Nat
  BY <1>1, FS_Subset, FS_CardinalityType
<1>3. \A w : Later(rows, w) \in SUBSET (1..n)
  BY DEF Later
<1>4. QED
  BY <1>2, <1>3

\* One more candle, after all others.
LEMMA OneLater ==
  ASSUME NEW i \in Nat \ {0}, NEW rows \in SUBSET (1..(i - 1))
  PROVE  LET more == rows \cup {i}
         IN  /\ Cardinality(Later(more, i)) = 0
             /\ \A w \in rows : Cardinality(Later(more, w)) = Cardinality(Later(rows, w)) + 1
<1> DEFINE more == rows \cup {i}
<1>1. ~ (i > i) /\ \A j \in rows : j \in Nat /\ j < i /\ i > j /\ ~ (j > i)
  OBVIOUS
<1>2. Later(more, i) = {}
  BY <1>1 DEF Later
<1>3. ASSUME NEW w \in rows PROVE Cardinality(Later(more, w)) = Cardinality(Later(rows, w)) + 1
  <2>1. Later(more, w) = Later(rows, w) \cup {i} /\ i \notin Later(rows, w)
    BY <1>1 DEF Later
  <2>2. IsFiniteSet(Later(rows, w))
    <3>1. i - 1 \in Nat
      OBVIOUS
    <3> QED BY <3>1, Counted
  <2>3. QED
    BY <2>1, <2>2, FS_AddElement
<1>4. QED
  BY <1>2, <1>3, FS_EmptySet

\* The evaluator has seen these candles, and rests as the shocks among them demand.
Remembers(ev, rows) ==
  /\ ev.rows = rows /\ ev.rest \in Nat
  /\ \A w \in rows : tape[w].wild => ev.rest >= Cooldown - Cardinality(Later(rows, w))
  /\ ev.rest = 0 \/ \E w \in rows : tape[w].wild /\ ev.rest = Cooldown - Cardinality(Later(rows, w))

LEMMA NextRemembers ==
  ASSUME NEW i \in Nat \ {0}, NEW rows \in SUBSET (1..(i - 1)), NEW ev, Remembers(ev, rows),
         NEW strategy, NEW spread, evaluateMarketShock(i, spread) = tape[i].wild, tape[i].wild \in BOOLEAN
  PROVE  Remembers(Evaluated(ev, strategy, i, spread), rows \cup {i})
<1> DEFINE e == Evaluated(ev, strategy, i, spread)
           more == rows \cup {i}
           n(w) == Cardinality(Later(rows, w))
           m(w) == Cardinality(Later(more, w))
<1>1. ev.rows = rows /\ ev.rest \in Nat
  BY DEF Remembers
<1>2. e.rows = more /\ e.rest = Rest(ev.rest, tape[i].wild)
  BY <1>1, Zenon DEF Evaluated
<1>3. m(i) = 0 /\ \A w \in rows : m(w) = n(w) + 1 /\ n(w) \in Nat
  <2>1. i - 1 \in Nat
    OBVIOUS
  <2>2. \A w \in rows : n(w) \in Nat
    BY <2>1, Counted
  <2>3. QED
    BY <2>2, OneLater
<1>4. /\ \A w \in rows : tape[w].wild => ev.rest >= Cooldown - n(w)
      /\ ev.rest = 0 \/ \E w \in rows : tape[w].wild /\ ev.rest = Cooldown - n(w)
  BY DEF Remembers
<1>5. Cooldown \in Nat
  BY SlotsAssumption
<1> SUFFICES Remembers(e, more)
  OBVIOUS
<1> HIDE DEF e, n, m
<1>6. CASE tape[i].wild
  <2>1. e.rest = Cooldown
    BY <1>2, <1>6 DEF Rest
  <2>2. \A w \in more : e.rest >= Cooldown - m(w)
    BY <1>3, <1>5, <2>1
  <2>3. i \in more /\ e.rest = Cooldown - m(i)
    BY <1>3, <1>5, <2>1
  <2>4. QED
    BY <1>2, <1>5, <1>6, <2>1, <2>2, <2>3 DEF Remembers, m
<1>7. CASE ~ tape[i].wild
  <2>1. e.rest = IF ev.rest > 0 THEN ev.rest - 1 ELSE 0
    BY <1>2, <1>7 DEF Rest
  <2>2. e.rest \in Nat
    BY <1>1, <2>1
  <2>3. ASSUME NEW w \in more, tape[w].wild PROVE e.rest >= Cooldown - m(w)
    <3>1. w \in rows
      BY <1>7, <2>3
    <3>2. ev.rest >= Cooldown - n(w) /\ m(w) = n(w) + 1 /\ n(w) \in Nat
      BY <1>3, <1>4, <2>3, <3>1
    <3>3. QED
      BY <1>1, <1>5, <2>1, <3>2
  <2>4. e.rest = 0 \/ \E w \in more : tape[w].wild /\ e.rest = Cooldown - m(w)
    <3>1. CASE ev.rest = 0
      BY <2>1, <3>1
    <3>2. CASE ev.rest # 0
      <4>1. PICK w \in rows : tape[w].wild /\ ev.rest = Cooldown - n(w)
        BY <1>4, <3>2
      <4>2. e.rest = Cooldown - m(w) /\ w \in more
        BY <1>1, <1>3, <1>5, <2>1, <3>2, <4>1
      <4>3. QED
        BY <4>1, <4>2
    <3>3. QED
      BY <3>1, <3>2
  <2>5. QED
    BY <1>2, <2>2, <2>3, <2>4 DEF Remembers, m
<1>8. QED
  BY <1>6, <1>7

LEMMA FirstRemembers == Remembers(Evaluator, {})
  BY DEF Remembers, Evaluator

LEMMA UpToIs ==
  ASSUME NEW L \in Nat, NEW rows \in SUBSET (1..L)
  PROVE  /\ UpTo(rows, 0) = {}
         /\ \A m \in Nat : /\ UpTo(rows, m) \in SUBSET (1..m)
                          /\ UpTo(rows, m + 1) = UpTo(rows, m) \cup (rows \cap {m + 1})
<1>1. \A j \in rows : j \in Nat /\ 1 <= j /\ ~ (j <= 0)
  OBVIOUS
<1>2. UpTo(rows, 0) = {}
  BY <1>1, Zenon DEF UpTo
<1>3. ASSUME NEW m \in Nat, NEW j \in UpTo(rows, m) PROVE j \in 1..m
  <2>1. j \in rows /\ j <= m
    BY <1>3 DEF UpTo
  <2>2. QED
    BY <1>1, <2>1
<1>4. ASSUME NEW m \in Nat PROVE UpTo(rows, m + 1) = UpTo(rows, m) \cup (rows \cap {m + 1})
  <2>1. \A j \in rows : j <= m + 1 <=> j <= m \/ j = m + 1
    BY <1>1
  <2>2. QED
    BY <2>1 DEF UpTo
<1>5. QED
  BY <1>2, <1>3, <1>4

LEMMA RunRemembers ==
  ASSUME NEW L \in Nat, NEW rows \in SUBSET (1..L), NEW strategy, NEW spread,
         \A i \in rows : evaluateMarketShock(i, spread) = tape[i].wild /\ tape[i].wild \in BOOLEAN,
         NEW n \in Nat, NEW f, Runs(f, n, strategy, rows, spread), NEW k \in 0..n
  PROVE  Remembers(f[k], UpTo(rows, k))
<1>1. /\ f[0] = Evaluator
      /\ \A i \in 1..n : f[i] = IF i \in rows THEN Evaluated(f[i - 1], strategy, i, spread) ELSE f[i - 1]
  BY RunStep
<1>2. /\ UpTo(rows, 0) = {}
      /\ \A m \in Nat : /\ UpTo(rows, m) \in SUBSET (1..m)
                       /\ UpTo(rows, m + 1) = UpTo(rows, m) \cup (rows \cap {m + 1})
  BY UpToIs
<1> DEFINE S == {m \in Nat : m <= n => Remembers(f[m], UpTo(rows, m))}
<1>3. 0 \in S
  BY <1>1, <1>2, FirstRemembers
<1>4. ASSUME NEW m \in Nat, m \in S PROVE m + 1 \in S
  <2>1. SUFFICES ASSUME m + 1 <= n PROVE Remembers(f[m + 1], UpTo(rows, m + 1))
    OBVIOUS
  <2>2. m <= n /\ m + 1 \in 1..n /\ (m + 1) - 1 = m /\ m + 1 \in Nat \ {0}
    BY <2>1
  <2>3. Remembers(f[m], UpTo(rows, m))
    BY <1>4, <2>2
  <2>4. UpTo(rows, m) \in SUBSET (1..((m + 1) - 1))
    BY <1>2, <2>2
  <2>5. UpTo(rows, m + 1) = UpTo(rows, m) \cup (rows \cap {m + 1})
    BY <1>2
  <2>6. CASE m + 1 \in rows
    <3>1. UpTo(rows, m + 1) = UpTo(rows, m) \cup {m + 1}
      BY <2>5, <2>6
    <3>2. f[m + 1] = Evaluated(f[m], strategy, m + 1, spread)
      BY <1>1, <2>2, <2>6
    <3>3. Remembers(Evaluated(f[m], strategy, m + 1, spread), UpTo(rows, m) \cup {m + 1})
      BY <2>2, <2>3, <2>4, <2>6, NextRemembers
    <3>4. QED
      BY <3>1, <3>2, <3>3
  <2>7. CASE m + 1 \notin rows
    <3>1. UpTo(rows, m + 1) = UpTo(rows, m)
      BY <2>5, <2>7
    <3>2. f[m + 1] = f[m]
      BY <1>1, <2>2, <2>7
    <3>3. QED
      BY <2>3, <3>1, <3>2
  <2>8. QED
    BY <2>6, <2>7
<1>5. Nat \subseteq S
  <2> HIDE DEF S
  <2> QED BY <1>3, <1>4, Induction
<1>6. k \in Nat /\ k <= n
  OBVIOUS
<1>7. QED
  BY <1>5, <1>6

\* No rest is left exactly if none of the last Cooldown candles was a shock.
LEMMA RestIs ==
  ASSUME NEW L \in Nat, NEW rows \in SUBSET (1..L), NEW ev, Remembers(ev, rows)
  PROVE  ev.rest = 0 <=> \A w \in Recent(rows, Cooldown) : ~tape[w].wild
<1>1. Cooldown \in Nat /\ ev.rest \in Nat /\ \A w : Cardinality(Later(rows, w)) \in Nat
  BY SlotsAssumption, Counted DEF Remembers
<1>2. \A w : w \in Recent(rows, Cooldown) <=> w \in rows /\ Cardinality(Later(rows, w)) < Cooldown
  BY DEF Recent, Later
<1>3. ASSUME ev.rest = 0, NEW w \in Recent(rows, Cooldown), tape[w].wild PROVE FALSE
  <2>1. w \in rows /\ Cardinality(Later(rows, w)) < Cooldown
    BY <1>2, <1>3
  <2>2. ev.rest >= Cooldown - Cardinality(Later(rows, w))
    BY <1>3, <2>1 DEF Remembers
  <2>3. QED
    BY <1>1, <1>3, <2>1, <2>2
<1>4. ASSUME ev.rest # 0, \A w \in Recent(rows, Cooldown) : ~tape[w].wild PROVE FALSE
  <2>1. PICK w \in rows : tape[w].wild /\ ev.rest = Cooldown - Cardinality(Later(rows, w))
    BY <1>4 DEF Remembers
  <2>2. Cardinality(Later(rows, w)) < Cooldown
    BY <1>1, <1>4, <2>1
  <2>3. QED
    BY <1>2, <1>4, <2>1, <2>2
<1>5. QED
  BY <1>3, <1>4

(***************************************************************************)
(* The verdict on candle i, of what was read before it.                    *)
(***************************************************************************)
Barred(strategy, before, i) ==
  \/ ~inSession(strategy, i) \/ isInsideBlackout(strategy, i) \/ tape[i].wild
  \/ \E w \in Recent(before \cup {i}, Cooldown) : tape[w].wild
  \/ RegimeAt(before, i).strength = "NOT_READY"

Held(before, i) == Cardinality(checks(before, i, RegimeAt(before, i).direction))

LEMMA CandlesAre ==
  ASSUME TapeOK, NEW i \in 1..Len(tape)
  PROVE  /\ tape[i].wild \in BOOLEAN /\ tape[i].seen \in BOOLEAN /\ tape[i].hist \in -1..1
<1>1. tape[i] \in ScanCandles
  BY DEF TapeOK
<1>2. QED
  BY <1>1, ShapesAssumption DEF ScanCandles

LEMMA VerdictIs ==
  ASSUME TapeOK, NEW i \in 1..Len(tape), NEW before \in SUBSET (1..(i - 1)), NEW ev, Remembers(ev, before),
         NEW strategy, NEW spread
  PROVE  LET e == Evaluated(ev, strategy, i, spread)
             regime == RegimeAt(before, i)
         IN  /\ e.soft = SoftStage(regime, before, i)
             /\ e.side = IF regime.strength \in {"HARD", "SOFT"} THEN regime.direction ELSE "NONE"
             /\ e.blocked = (TooWide("v1", spread) \/ Barred(strategy, before, i))
             /\ e.status = StatusOf(e.blocked, regime.strength, Held(before, i))
<1> DEFINE e == Evaluated(ev, strategy, i, spread)
           regime == RegimeAt(before, i)
           shock == evaluateMarketShock(i, spread)
           rest == Rest(ev.rest, shock)
           blocked == \/ ~inSession(strategy, i) \/ isInsideBlackout(strategy, i) \/ shock \/ rest > 0
                      \/ regime.strength = "NOT_READY"
<1>1. ev.rows = before /\ ev.rest \in Nat
  BY DEF Remembers
<1>2. /\ e.rest = rest /\ e.blocked = blocked /\ e.soft = SoftStage(regime, before, i)
      /\ e.side = IF regime.strength \in {"HARD", "SOFT"} THEN regime.direction ELSE "NONE"
      /\ e.status = StatusOf(blocked, regime.strength, Held(before, i))
  BY <1>1, Zenon DEF Evaluated, Held
<1>3. Len(tape) \in Nat /\ i \in Nat \ {0} /\ tape[i].wild \in BOOLEAN
  BY CandlesAre DEF TapeOK
<1>4. shock = (tape[i].wild \/ TooWide("v1", spread))
  BY DEF evaluateMarketShock
<1>5. ASSUME ~TooWide("v1", spread) PROVE rest > 0 <=> \E w \in Recent(before \cup {i}, Cooldown) : tape[w].wild
  <2>1. shock = tape[i].wild
    BY <1>3, <1>4, <1>5
  <2>2. Remembers(e, before \cup {i})
    BY <1>3, <2>1, NextRemembers
  <2>3. before \cup {i} \in SUBSET (1..i)
    BY <1>3
  <2>4. e.rest \in Nat
    BY <2>2 DEF Remembers
  <2> HIDE DEF e, rest, shock
  <2>5. e.rest = 0 <=> \A w \in Recent(before \cup {i}, Cooldown) : ~tape[w].wild
    BY <1>3, <2>2, <2>3, RestIs
  <2>6. e.rest = rest
    BY <1>2, Zenon
  <2>7. rest > 0 <=> ~ (e.rest = 0)
    <3> HIDE <1>2, <2>5
    <3>1. QED
      BY <2>4, <2>6
  <2>8. QED
    BY <2>5, <2>7, Zenon
<1>6. blocked = (TooWide("v1", spread) \/ Barred(strategy, before, i))
  <2>1. CASE TooWide("v1", spread)
    BY <1>4, <2>1
  <2>2. CASE ~TooWide("v1", spread)
    <3>1. shock = tape[i].wild
      BY <1>3, <1>4, <2>2
    <3> HIDE DEF shock, rest
    <3>2. QED
      BY <1>5, <2>2, <3>1 DEF Barred
  <2>3. QED
    BY <2>1, <2>2
<1> HIDE DEF e, regime, shock, rest, blocked
<1>7. QED
  BY <1>2, <1>6 DEF e, regime

LEMMA AllButLast ==
  ASSUME NEW L \in Nat, NEW rows \in SUBSET (1..L), NEW i \in rows, \A j \in rows : j <= i
  PROVE  UpTo(rows, i - 1) = rows \ {i}
<1>1. \A j \in rows : j \in Nat /\ (j <= i - 1 <=> j # i)
  OBVIOUS
<1>2. QED
  BY <1>1, Zenon DEF UpTo

\* What a scan replays of a history, and what the validation makes of one.
LEMMA LastReplayed ==
  ASSUME TapeOK, NEW rows \in SUBSET (1..Len(tape)), NEW i \in rows, \A j \in rows : j <= i,
         NEW strategy, NEW spread
  PROVE  LET ev == EvaluatedTo(i - 1, strategy, rows, Unknown)
         IN  Remembers(ev, rows \ {i}) /\ Replayed(strategy, rows, spread) = Evaluated(ev, strategy, i, spread)
<1>1. Len(tape) \in Nat /\ i \in Nat /\ i - 1 \in Nat
  BY DEF TapeOK
<1>2. Newest(rows) = i
  <2>1. rows \in SUBSET (0..Len(tape)) /\ rows # {}
    BY <1>1
  <2>2. Newest(rows) \in rows /\ i <= Newest(rows)
    BY <1>1, <2>1, NewestOf
  <2>3. \A j \in rows : j \in Nat /\ j <= i
    BY <1>1
  <2>4. Newest(rows) \in Nat /\ Newest(rows) <= i
    BY <2>2, <2>3, Zenon
  <2> HIDE <2>3
  <2>5. \A n, m \in Nat : n <= m /\ m <= n => n = m
    OBVIOUS
  <2>6. QED
    BY <1>1, <2>2, <2>4, <2>5, Zenon
<1>3. \A j \in rows : evaluateMarketShock(j, Unknown) = tape[j].wild /\ tape[j].wild \in BOOLEAN
  BY CandlesAre DEF evaluateMarketShock, TooWide
<1>4. Remembers(EvaluatedTo(i - 1, strategy, rows, Unknown), UpTo(rows, i - 1))
  <2>1. PICK f : /\ Runs(f, i - 1, strategy, rows, Unknown)
                 /\ EvaluatedTo(i - 1, strategy, rows, Unknown) = f[i - 1]
    BY <1>1, EvaluatedToIs
  <2>2. i - 1 \in 0..(i - 1)
    BY <1>1
  <2>3. QED
    BY <1>1, <1>3, <2>1, <2>2, RunRemembers
<1>5. UpTo(rows, i - 1) = rows \ {i}
  BY <1>1, AllButLast
<1>6. Replayed(strategy, rows, spread)
        = Evaluated(EvaluatedTo(i - 1, strategy, rows, Unknown), strategy, i, spread)
  BY <1>2 DEF Replayed
<1>7. QED
  BY <1>4, <1>5, <1>6

\* The evaluator after candle i, before which it remembered these.
EvaluatedOn(e, before, strategy, i, spread) ==
  \E ev : Remembers(ev, before) /\ e = Evaluated(ev, strategy, i, spread)

LEMMA LastValidated ==
  ASSUME TapeOK, NEW rows \in SUBSET (1..Len(tape)), NEW i \in rows, \A j \in rows : j <= i,
         NEW strategy, NEW spread, ~TooWide("v1", spread)
  PROVE  EvaluatedOn(EvaluatedTo(i, strategy, rows, spread), rows \ {i}, strategy, i, spread)
<1>1. Len(tape) \in Nat /\ i \in Nat /\ i - 1 \in Nat
  BY DEF TapeOK
<1>2. \A j \in rows : evaluateMarketShock(j, spread) = tape[j].wild /\ tape[j].wild \in BOOLEAN
  BY CandlesAre DEF evaluateMarketShock
<1>3. PICK f : Runs(f, i, strategy, rows, spread) /\ EvaluatedTo(i, strategy, rows, spread) = f[i]
  BY <1>1, EvaluatedToIs
<1>4. f[i] = Evaluated(f[i - 1], strategy, i, spread)
  <2>1. i \in 1..i
    BY <1>1
  <2>2. QED
    BY <1>1, <1>3, <2>1, RunStep
<1>5. i - 1 \in 0..i
  BY <1>1
<1>6. Remembers(f[i - 1], UpTo(rows, i - 1))
  BY <1>1, <1>2, <1>3, <1>5, RunRemembers
<1>7. UpTo(rows, i - 1) = rows \ {i}
  BY <1>1, AllButLast
<1>8. QED
  BY <1>3, <1>4, <1>6, <1>7 DEF EvaluatedOn

(***************************************************************************)
(* What the verdict of a pullback scan means: a signal of v1 is a candle   *)
(* that nothing bars, in a hard regime, with all six checks; one of soft   *)
(* crosses in a soft regime.                                               *)
(***************************************************************************)
AllHold(before, i, side) ==
  /\ tape[i].ema = IF side = "LONG" THEN "up" ELSE "down"
  /\ Pullback(before, side) /\ hadRsiReset(before, side)
  /\ IF side = "LONG" THEN tape[i].rsi > 50 ELSE tape[i].rsi < 50
  /\ Crossed(before, i, side)
  /\ before # {} /\ tape[i].breaks = IF side = "LONG" THEN "high" ELSE "low"

CheckNames == {"emaTrend", "pullback", "rsiReset", "rsiTrigger", "macdCross", "previousBarBreak"}

LEMMA SixHold ==
  ASSUME NEW before, NEW i, NEW side
  PROVE  Cardinality(checks(before, i, side)) = 6 <=> AllHold(before, i, side)
<1> DEFINE c == tape[i]
           long == side = "LONG"
           holds == [emaTrend |-> c.ema = IF long THEN "up" ELSE "down",
                     pullback |-> Pullback(before, side), rsiReset |-> hadRsiReset(before, side),
                     rsiTrigger |-> IF long THEN c.rsi > 50 ELSE c.rsi < 50,
                     macdCross |-> Crossed(before, i, side),
                     previousBarBreak |-> before # {} /\ c.breaks = IF long THEN "high" ELSE "low"]
<1>1. checks(before, i, side) = {x \in CheckNames : holds[x]}
  BY Zenon DEF checks, CheckNames
<1>2. (\A x \in CheckNames : holds[x]) <=> AllHold(before, i, side)
  <2>1. /\ holds["emaTrend"] <=> c.ema = IF long THEN "up" ELSE "down"
        /\ holds["pullback"] <=> Pullback(before, side)
        /\ holds["rsiReset"] <=> hadRsiReset(before, side)
        /\ holds["rsiTrigger"] <=> IF long THEN c.rsi > 50 ELSE c.rsi < 50
        /\ holds["macdCross"] <=> Crossed(before, i, side)
        /\ holds["previousBarBreak"] <=> before # {} /\ c.breaks = IF long THEN "high" ELSE "low"
    BY Zenon
  <2> HIDE DEF holds
  <2>2. QED
    BY <2>1, Zenon DEF AllHold, CheckNames
<1>3. IsFiniteSet(CheckNames) /\ Cardinality(CheckNames) = 6
  <2>1. /\ IsFiniteSet({}) /\ Cardinality({}) = 0
    BY FS_EmptySet
  <2>2. \A S, x : IsFiniteSet(S) /\ x \notin S =>
          IsFiniteSet(S \cup {x}) /\ Cardinality(S \cup {x}) = Cardinality(S) + 1
    BY FS_AddElement
  <2> DEFINE a == {} \cup {"emaTrend"}
             b == a \cup {"pullback"}
             d == b \cup {"rsiReset"}
             e == d \cup {"rsiTrigger"}
             f == e \cup {"macdCross"}
             g == f \cup {"previousBarBreak"}
  <2>3. "emaTrend" \notin {} /\ "pullback" \notin a /\ "rsiReset" \notin b /\ "rsiTrigger" \notin d
        /\ "macdCross" \notin e /\ "previousBarBreak" \notin f /\ CheckNames = g
    BY DEF CheckNames
  <2> HIDE DEF a, b, d, e, f, g
  <2>4. IsFiniteSet(a) /\ Cardinality(a) = 1
    BY <2>1, <2>2, <2>3 DEF a
  <2>5. IsFiniteSet(b) /\ Cardinality(b) = 2
    BY <2>2, <2>3, <2>4 DEF b
  <2>6. IsFiniteSet(d) /\ Cardinality(d) = 3
    BY <2>2, <2>3, <2>5 DEF d
  <2>7. IsFiniteSet(e) /\ Cardinality(e) = 4
    BY <2>2, <2>3, <2>6 DEF e
  <2>8. IsFiniteSet(f) /\ Cardinality(f) = 5
    BY <2>2, <2>3, <2>7 DEF f
  <2>9. QED
    BY <2>2, <2>3, <2>8 DEF g
<1> HIDE DEF holds
<1> DEFINE held == {x \in CheckNames : holds[x]}
<1>4. held \subseteq CheckNames
  OBVIOUS
<1>5. held = CheckNames <=> \A x \in CheckNames : holds[x]
  BY Zenon
<1> HIDE DEF held
<1>6. Cardinality(held) = 6 <=> held = CheckNames
  BY <1>3, <1>4, FS_Subset
<1>7. QED
  BY <1>1, <1>2, <1>5, <1>6 DEF held

LEMMA RegimeIs ==
  ASSUME NEW before, NEW i
  PROVE  LET regime == RegimeAt(before, i)
         IN  /\ regime.direction \in {"LONG", "SHORT", "NONE"}
             /\ regime.strength \in {"HARD", "SOFT"} => regime.direction \in {"LONG", "SHORT"}
  BY DEF RegimeAt, NotReady, classifyH1Regime

\* The signals of an evaluator that remembers.
LEMMA SignalIs ==
  ASSUME TapeOK, NEW i \in 1..Len(tape), NEW before \in SUBSET (1..(i - 1)), NEW ev, Remembers(ev, before),
         NEW strategy, NEW spread
  PROVE  LET e == Evaluated(ev, strategy, i, spread)
             regime == RegimeAt(before, i)
         IN  /\ e.status = "SIGNAL_READY" <=>
                  /\ ~TooWide("v1", spread) /\ ~Barred(strategy, before, i)
                  /\ regime.strength = "HARD" /\ AllHold(before, i, regime.direction)
             /\ e.soft = "READY" => regime.strength = "SOFT" /\ Crossed(before, i, regime.direction)
             /\ regime.strength \in {"HARD", "SOFT"} => e.side = regime.direction
             /\ ~e.blocked => ~Barred(strategy, before, i)
<1> DEFINE e == Evaluated(ev, strategy, i, spread)
           regime == RegimeAt(before, i)
<1>1. /\ e.soft = SoftStage(regime, before, i)
      /\ e.side = IF regime.strength \in {"HARD", "SOFT"} THEN regime.direction ELSE "NONE"
      /\ e.blocked = (TooWide("v1", spread) \/ Barred(strategy, before, i))
      /\ e.status = StatusOf(e.blocked, regime.strength, Held(before, i))
  BY VerdictIs
<1>2. Held(before, i) = 6 <=> AllHold(before, i, regime.direction)
  BY SixHold DEF Held
<1>3. \A b, s, n : StatusOf(b, s, n) = "SIGNAL_READY" <=> ~b /\ s = "HARD" /\ n = 6
  BY DEF StatusOf
<1>4. SoftStage(regime, before, i) = "READY" =>
        regime.strength = "SOFT" /\ Crossed(before, i, regime.direction)
  <2> HIDE DEF regime
  <2>1. QED
    BY DEF SoftStage
<1> HIDE DEF e, regime
<1>5. e.blocked <=> TooWide("v1", spread) \/ Barred(strategy, before, i)
  BY <1>1
<1>6. e.status = "SIGNAL_READY" <=> ~e.blocked /\ regime.strength = "HARD" /\ AllHold(before, i, regime.direction)
  BY <1>1, <1>2, <1>3
<1>7. e.soft = "READY" => regime.strength = "SOFT" /\ Crossed(before, i, regime.direction)
  BY <1>1, <1>4
<1>8. regime.strength \in {"HARD", "SOFT"} => e.side = regime.direction
  BY <1>1
<1>9. QED
  BY <1>5, <1>6, <1>7, <1>8, Zenon DEF e, regime

\* These are the candles that a scan has read, late or not, when asOf had closed.
HasRead(seen, asOf, late) ==
  \A i \in Nat : i \in seen <=> WindowStart(asOf) <= i /\ i <= asOf - late /\ tape[i].seen

\* What answer a says of the last candle of those.
Judges(a, seen) ==
  LET before == seen \ {a.slot}
      regime == RegimeAt(before, a.slot)
  IN  /\ a.kind = "v1" =>
           (a.status = "SIGNAL_READY" <=>
              /\ ~TooWide("v1", a.spread) /\ ~Steep(a.slot, a.spread)
              /\ ~Barred("v1", before, a.slot)
              /\ regime.strength = "HARD" /\ AllHold(before, a.slot, regime.direction))
      /\ a.status = "SIGNAL_READY" =>
           /\ ~Barred(a.kind, before, a.slot)
           /\ a.side = regime.direction /\ a.side \in {"LONG", "SHORT"}
           /\ Crossed(before, a.slot, a.side)

Meant(a) ==
  a.kind \in {"v1", "soft"} =>
    /\ a.asOf \in Nat /\ a.asOf <= Len(tape)
    /\ \E seen \in SUBSET Nat, late \in {0, 1} :
         /\ HasRead(seen, a.asOf, late)
         /\ a.slot \in seen /\ \A j \in seen : j <= a.slot
         /\ Judges(a, seen)

LEMMA MeantStays ==
  ASSUME NEW a, Meant(a), tape' = tape, answer' = a
  PROVE  Meant(answer)'
<1>1. \A seen, n, late : HasRead(seen, n, late) <=> HasRead(seen, n, late)'
  BY DEF HasRead
<1>2. \A before, i : RegimeAt(before, i)' = RegimeAt(before, i)
  BY DEF RegimeAt, Reading
<1>3. \A s, before, i : Barred(s, before, i)' <=> Barred(s, before, i)
  BY <1>2 DEF Barred
<1>4. \A before, i, side : Crossed(before, i, side)' <=> Crossed(before, i, side)
  BY DEF Crossed
<1>5. \A before, i, side : AllHold(before, i, side)' <=> AllHold(before, i, side)
  BY <1>4 DEF AllHold, Pullback, hadRsiReset
<1>6. \A i, s : Steep(i, s)' <=> Steep(i, s)
  BY DEF Steep
<1>7. QED
  BY <1>1, <1>2, <1>3, <1>4, <1>5, <1>6, Zenon DEF Meant, Judges

\* The candles that were read, in the tape.
LEMMA ReadIs ==
  ASSUME TapeOK, NEW asOf \in Nat, asOf <= Len(tape), NEW late \in {0, 1}
  PROVE  /\ History(asOf, late) \in SUBSET (1..Len(tape))
         /\ HasRead(History(asOf, late), asOf, late)
<1>1. WindowStart(asOf) \in Nat /\ 1 <= WindowStart(asOf) /\ Len(tape) \in Nat
  BY SlotsAssumption DEF WindowStart, TapeOK
<1>2. \A i \in Nat : i \in History(asOf, late) <=> WindowStart(asOf) <= i /\ i <= asOf - late /\ tape[i].seen
  BY <1>1 DEF History, SeenIn
<1>3. \A i \in History(asOf, late) : i \in Nat /\ 1 <= i /\ i <= Len(tape)
  BY <1>1 DEF History, SeenIn
<1>4. QED
  BY <1>1, <1>2, <1>3 DEF HasRead

\* The answer of either pullback scan to what it has read.
LEMMA PullbackMeant ==
  ASSUME TapeOK, NEW r \in ScanRequest, SeenBy(r), r.seen # {}, r.kind \in {"v1", "soft"},
         NEW late \in {0, 1}, r.seen = History(r.asOf, late)
  PROVE  Meant(IF r.kind = "v1" THEN V1Answer(r) ELSE SoftAnswer(r))
<1> DEFINE i == Newest(r.seen)
           before == r.seen \ {i}
           e == Replayed(r.kind, r.seen, r.spread)
           regime == RegimeAt(before, i)
           a == IF r.kind = "v1" THEN V1Answer(r) ELSE SoftAnswer(r)
<1>1. r.asOf \in Nat /\ r.asOf <= Len(tape) /\ Len(tape) \in Nat
  BY DEF ScanRequest, SeenBy, TapeOK
<1>2. r.seen \in SUBSET (1..Len(tape)) /\ HasRead(r.seen, r.asOf, late)
  BY <1>1, ReadIs
<1>3. i \in r.seen /\ \A j \in r.seen : j <= i
  <2>1. r.seen \in SUBSET (0..Len(tape))
    BY <1>1, <1>2
  <2>2. QED
    BY <1>1, <2>1, NewestOf
<1>4. PICK ev : Remembers(ev, before) /\ e = Evaluated(ev, r.kind, i, r.spread)
  <2> HIDE DEF i
  <2> DEFINE read == r.seen
  <2>1. read \in SUBSET (1..Len(tape)) /\ i \in read /\ \A j \in read : j <= i
    BY <1>2, <1>3
  <2> HIDE DEF read
  <2>2. LET ev == EvaluatedTo(i - 1, r.kind, read, Unknown)
        IN  Remembers(ev, read \ {i}) /\ Replayed(r.kind, read, r.spread) = Evaluated(ev, r.kind, i, r.spread)
    BY <2>1, LastReplayed
  <2>3. QED
    BY <2>2 DEF read
<1>5. i \in 1..Len(tape) /\ before \in SUBSET (1..(i - 1))
  <2>1. \A j \in r.seen : j \in Nat /\ 1 <= j /\ j <= i
    BY <1>1, <1>2, <1>3
  <2>2. i \in 1..Len(tape) /\ i \in Nat
    BY <1>1, <1>2, <1>3
  <2>3. ASSUME NEW j \in before PROVE j \in 1..(i - 1)
    <3>1. j \in r.seen /\ j # i
      OBVIOUS
    <3>2. j \in Nat /\ 1 <= j /\ j <= i
      BY <2>1, <3>1
    <3> HIDE <1>3, <2>1 DEF i
    <3>3. QED
      BY <2>2, <3>1, <3>2
  <2>4. QED
    BY <2>2, <2>3
<1> HIDE DEF i, before, e
<1>6. /\ e.status = "SIGNAL_READY" <=>
           /\ ~TooWide("v1", r.spread) /\ ~Barred(r.kind, before, i)
           /\ regime.strength = "HARD" /\ AllHold(before, i, regime.direction)
      /\ e.soft = "READY" => regime.strength = "SOFT" /\ Crossed(before, i, regime.direction)
      /\ regime.strength \in {"HARD", "SOFT"} => e.side = regime.direction
      /\ ~e.blocked => ~Barred(r.kind, before, i)
  BY <1>4, <1>5, SignalIs
<1>7. regime.strength \in {"HARD", "SOFT"} => regime.direction \in {"LONG", "SHORT"}
  BY RegimeIs
<1>8. AllHold(before, i, regime.direction) => Crossed(before, i, regime.direction)
  BY DEF AllHold
<1>9. a.kind = r.kind /\ a.slot = i /\ a.asOf = r.asOf /\ a.spread = r.spread /\ a.side = e.side
  BY DEF V1Answer, SoftAnswer, Answer, i, e
<1>10. r.kind = "v1" => (a.status = "SIGNAL_READY" <=> e.status = "SIGNAL_READY" /\ ~Steep(i, r.spread))
  BY DEF V1Answer, Answer, i, e
<1>11. r.kind = "soft" => (a.status = "SIGNAL_READY" => e.soft = "READY" /\ ~e.blocked)
  BY DEF SoftAnswer, Answer, i, e
<1> HIDE DEF a, regime
<1>12. r.kind = "v1" =>
        (a.status = "SIGNAL_READY" <=>
              /\ ~TooWide("v1", r.spread) /\ ~Steep(i, r.spread)
              /\ ~Barred("v1", before, i)
              /\ regime.strength = "HARD" /\ AllHold(before, i, regime.direction))
  BY <1>6, <1>10
<1>13. a.status = "SIGNAL_READY" =>
         /\ ~Barred(r.kind, before, i)
         /\ a.side = regime.direction /\ a.side \in {"LONG", "SHORT"}
         /\ Crossed(before, i, a.side)
  BY <1>6, <1>7, <1>8, <1>9, <1>10, <1>11
<1>14. Judges(a, r.seen)
  BY <1>9, <1>12, <1>13 DEF Judges, before, regime
<1>15. r.seen \in SUBSET Nat
  BY DEF ScanRequest
<1>16. Meant(a)
  BY <1>1, <1>2, <1>3, <1>9, <1>14, <1>15 DEF Meant
<1>17. QED
  BY <1>16 DEF a

(***************************************************************************)
(* No candle closes between a scan and its answer.                         *)
(***************************************************************************)
ReadOK ==
  /\ request = NoRequest \/ answer = NoAnswer
  /\ request.step \in {"quote", "open"} =>
       \E late \in {0, 1} : request.seen = History(request.asOf, late)

MeaningInv == ScanInv /\ ReadOK /\ Meant(answer)

LEMMA NothingMeant == Meant(NoAnswer)
  BY DEF Meant, NoAnswer

LEMMA OtherMeant ==
  ASSUME NEW r, r.kind \notin {"v1", "soft"}
  PROVE  /\ \A i, status, side : Meant(Answer(r, i, status, side))
         /\ \A clear : Meant(ScalpAnswer(r, clear))
         /\ \A price : Meant(StructureAnswer(r, price)) /\ Meant(BreakoutAnswer(r, price))
<1>1. \A i, status, side : Meant(Answer(r, i, status, side))
  BY AnswerIs DEF Meant
<1>2. ASSUME NEW clear PROVE Meant(ScalpAnswer(r, clear))
  <2>1. \E i, status, side : ScalpAnswer(r, clear) = Answer(r, i, status, side)
    BY Zenon DEF ScalpAnswer
  <2>2. QED
    BY <1>1, <2>1
<1>3. QED
  BY <1>1, <1>2 DEF StructureAnswer, BreakoutAnswer

LEMMA IdleReads == NoRequest.step \notin {"quote", "open"}
  BY DEF NoRequest

\* A step that ends a request with an answer that is meant, or goes on with none.
LEMMA EndsMeant ==
  ASSUME ScanInv', NEW a, Meant(a), answer' = a, request' = NoRequest, tape' = tape
  PROVE  MeaningInv'
<1>1. Meant(answer)'
  BY MeantStays
<1>2. ReadOK'
  BY IdleReads DEF ReadOK
<1>3. QED
  BY <1>1, <1>2 DEF MeaningInv

LEMMA HistoryStays ==
  ASSUME tape' = tape, NEW asOf, NEW late
  PROVE  History(asOf, late)' = History(asOf, late)
  BY Zenon DEF History, SeenIn

LEMMA GoesOnMeant ==
  ASSUME ScanInv', answer = NoAnswer, answer' = answer, tape' = tape, NEW r, request' = r,
         r.step \in {"quote", "open"} => \E late \in {0, 1} : r.seen = History(r.asOf, late)
  PROVE  MeaningInv'
<1>1. Meant(answer)'
  BY NothingMeant, MeantStays
<1>2. ReadOK'
  BY HistoryStays DEF ReadOK
<1>3. QED
  BY <1>1, <1>2 DEF MeaningInv

LEMMA QuoteMeant ==
  ASSUME MeaningInv, ScanInv', ReadQuote
  PROVE  MeaningInv'
<1>1. PICK spread \in Spreads \cup {Unknown}, risk \in MinLotRisks :
        LET r == [request EXCEPT !.spread = spread, !.risk = risk]
        IN  Answered(CASE r.seen = {} -> NoAnswer
                       [] r.seen # {} /\ r.kind = "v1" -> V1Answer(r)
                       [] OTHER -> SoftAnswer(r))
  BY DEF ReadQuote
<1> DEFINE r == [request EXCEPT !.spread = spread, !.risk = risk]
<1>2. r \in ScanRequest /\ SeenBy(r) /\ r.kind \in {"v1", "soft"}
  BY Quoted DEF MeaningInv, ScanInv, ReadQuote
<1>3. \E late \in {0, 1} : r.seen = History(r.asOf, late)
  BY DEF MeaningInv, ReadOK, ReadQuote, ScanInv, AskedOK, ScanRequest
<1> HIDE DEF r
<1>4. Answered(CASE r.seen = {} -> NoAnswer
                 [] r.seen # {} /\ r.kind = "v1" -> V1Answer(r)
                 [] OTHER -> SoftAnswer(r))
  BY <1>1 DEF r
<1>5. PICK a : Answered(a) /\ Meant(a)
  <2>1. CASE r.seen = {}
    BY <1>4, <2>1, NothingMeant
  <2>2. CASE r.seen # {}
    <3>1. Meant(IF r.kind = "v1" THEN V1Answer(r) ELSE SoftAnswer(r))
      BY <1>2, <1>3, <2>2, PullbackMeant DEF MeaningInv, ScanInv
    <3>2. Answered(IF r.kind = "v1" THEN V1Answer(r) ELSE SoftAnswer(r))
      BY <1>2, <1>4, <2>2
    <3>3. QED
      BY <3>1, <3>2
  <2>3. QED
    BY <2>1, <2>2
<1>6. QED
  BY <1>5, EndsMeant DEF Answered

LEMMA MeaningStep == MeaningInv /\ [ScanNext]_scanVars => MeaningInv'
<1> SUFFICES ASSUME MeaningInv, [ScanNext]_scanVars PROVE MeaningInv'
  OBVIOUS
<1>1. ScanInv' /\ ScanInv
  BY ScanGoesOn DEF MeaningInv
<1>2. ReadOK /\ Meant(answer) /\ (request # NoRequest => answer = NoAnswer)
  BY DEF MeaningInv, ReadOK
<1>3. CASE UNCHANGED scanVars
  <2>1. tape' = tape /\ answer' = answer /\ request' = request
    BY <1>3 DEF scanVars
  <2>2. Meant(answer)'
    BY <1>2, <2>1, MeantStays
  <2>3. ReadOK'
    BY <1>2, <2>1, HistoryStays DEF ReadOK
  <2>4. QED
    BY <1>1, <2>2, <2>3 DEF MeaningInv
<1>4. CASE NewCandle
  <2>1. answer' = NoAnswer /\ request' = NoRequest
    BY <1>4 DEF NewCandle
  <2>2. Meant(answer)'
    BY <2>1 DEF Meant, NoAnswer
  <2>3. ReadOK'
    BY <2>1, IdleReads DEF ReadOK
  <2>4. QED
    BY <1>1, <2>2, <2>3 DEF MeaningInv
<1>5. CASE \E strategy \in Strategies : BeginRequest(strategy)
  <2>1. PICK strategy \in Strategies : BeginRequest(strategy)
    BY <1>5
  <2> DEFINE r == [NoRequest EXCEPT !.kind = strategy, !.step = "history", !.asOf = Len(tape)]
  <2>2. request' = r /\ tape' = tape /\ answer' = answer /\ answer = NoAnswer
    BY <2>1 DEF BeginRequest
  <2>3. r.step = "history"
    BY DEF NoRequest
  <2> HIDE DEF r
  <2>4. QED
    BY <1>1, <2>2, <2>3, GoesOnMeant
<1>6. CASE ReadHistory
  <2>1. PICK late \in {0, 1} :
          request' = [request EXCEPT !.seen = History(request.asOf, late), !.step = "quote"]
    BY <1>6 DEF ReadHistory
  <2> DEFINE r == [request EXCEPT !.seen = History(request.asOf, late), !.step = "quote"]
  <2>2. tape' = tape /\ answer' = answer /\ request.step = "history"
    BY <1>6 DEF ReadHistory
  <2>3. answer = NoAnswer
    BY <1>2, <2>2 DEF NoRequest
  <2>4. r.seen = History(r.asOf, late)
    BY <1>1 DEF ScanInv, AskedOK, ScanRequest
  <2> HIDE DEF r
  <2>5. QED
    BY <1>1, <2>1, <2>2, <2>3, <2>4, GoesOnMeant DEF r
<1>7. CASE ReadQuote
  BY <1>1, <1>7, QuoteMeant
<1>8. CASE ReadFreshness
  <2>1. PICK spread \in Spreads \cup {Unknown}, clear \in BOOLEAN :
          Answered(ScalpAnswer([request EXCEPT !.spread = spread], clear))
    BY <1>8 DEF ReadFreshness
  <2> DEFINE r == [request EXCEPT !.spread = spread]
  <2>2. r.kind \notin {"v1", "soft"}
    BY <1>1, <1>8 DEF ReadFreshness, ScanInv, AskedOK, ScanRequest
  <2> HIDE DEF r
  <2>3. Meant(ScalpAnswer(r, clear))
    BY <2>2, OtherMeant
  <2>4. QED
    BY <1>1, <2>1, <2>3, EndsMeant DEF Answered, r
<1>9. CASE ReadAccount
  <2>1. PICK spread \in Spreads \cup {Unknown}, risk \in MinLotRisks :
          request' = [request EXCEPT !.spread = spread, !.risk = risk, !.step = "open"]
    BY <1>9 DEF ReadAccount
  <2> DEFINE r == [request EXCEPT !.spread = spread, !.risk = risk, !.step = "open"]
  <2>2. tape' = tape /\ answer' = answer /\ request.step = "quote"
    BY <1>9 DEF ReadAccount
  <2>3. answer = NoAnswer
    BY <1>2, <2>2 DEF NoRequest
  <2>4. \E late \in {0, 1} : r.seen = History(r.asOf, late)
    BY <1>1, <1>2, <2>2 DEF ScanInv, AskedOK, ScanRequest, ReadOK
  <2> HIDE DEF r
  <2>5. QED
    BY <1>1, <2>1, <2>2, <2>3, <2>4, GoesOnMeant DEF r
<1>10. CASE ReadOpen
  <2>1. PICK price \in BOOLEAN :
          Answered(IF request.kind = "structure" THEN StructureAnswer(request, price)
                   ELSE BreakoutAnswer(request, price))
    BY <1>10 DEF ReadOpen
  <2>2. request.kind \notin {"v1", "soft"}
    BY <1>1, <1>10 DEF ReadOpen, ScanInv, AskedOK
  <2>3. Meant(StructureAnswer(request, price)) /\ Meant(BreakoutAnswer(request, price))
    BY <2>2, OtherMeant
  <2>4. QED
    BY <1>1, <2>1, <2>3, EndsMeant DEF Answered
<1>11. CASE ReadThrows
  <2>1. request # NoRequest /\ request' = NoRequest /\ tape' = tape /\ answer' = answer
    BY <1>11 DEF ReadThrows
  <2>2. QED
    BY <1>1, <1>2, <2>1, NothingMeant, EndsMeant
<1>12. QED
  BY <1>3, <1>4, <1>5, <1>6, <1>7, <1>8, <1>9, <1>10, <1>11, Zenon DEF ScanNext

LEMMA MeaningKept == ScanSpec => []MeaningInv
<1>1. ScanInit => MeaningInv
  BY ScanStarts, NothingMeant, IdleReads DEF ScanInit, MeaningInv, ReadOK
<1>2. QED
  BY <1>1, MeaningStep, PTL DEF ScanSpec

(***************************************************************************)
(* Signals keep their distance.                                            *)
(***************************************************************************)
\* The histogram has its sign, or the opposite or none, on a side.
OnSide(i, side) == IF side = "LONG" THEN tape[i].hist > 0 ELSE tape[i].hist < 0

LEMMA CrossedIs ==
  ASSUME NEW before, NEW i, NEW side, Crossed(before, i, side)
  PROVE  /\ before # {} /\ OnSide(i, side)
         /\ IF side = "LONG" THEN tape[Newest(before)].hist <= 0 ELSE tape[Newest(before)].hist >= 0
  BY DEF Crossed, OnSide

\* What the property calls an earlier signal has crossed to its side.
LEMMA EarlierSignal ==
  ASSUME TapeOK, NEW rows \in SUBSET (1..Len(tape)), NEW j \in rows, \A i \in rows : i <= j,
         NEW strategy \in {"v1", "soft"}, NEW side,
         LET ev == Replayed(strategy, rows, Unknown)
         IN  /\ ev.side = side /\ ~ev.blocked
             /\ IF strategy = "v1" THEN ev.status = "SIGNAL_READY" ELSE ev.soft = "READY"
  PROVE  OnSide(j, side)
<1> DEFINE before == rows \ {j}
           ev == EvaluatedTo(j - 1, strategy, rows, Unknown)
           e == Evaluated(ev, strategy, j, Unknown)
           regime == RegimeAt(before, j)
<1>1. Remembers(ev, before) /\ Replayed(strategy, rows, Unknown) = e
  BY LastReplayed
<1>2. j \in 1..Len(tape) /\ before \in SUBSET (1..(j - 1))
  <2>1. Len(tape) \in Nat /\ j \in Nat /\ j \in 1..Len(tape)
    BY DEF TapeOK
  <2>2. ASSUME NEW i \in before PROVE i \in 1..(j - 1)
    <3>1. i \in rows /\ i # j /\ i \in Nat /\ 1 <= i
      BY <2>1
    <3>2. i <= j
      BY <3>1
    <3>3. QED
      BY <2>1, <3>1, <3>2
  <2>3. QED
    BY <2>1, <2>2
<1> HIDE DEF before, ev, e
<1>3. /\ e.status = "SIGNAL_READY" =>
           regime.strength = "HARD" /\ AllHold(before, j, regime.direction)
      /\ e.soft = "READY" => regime.strength = "SOFT" /\ Crossed(before, j, regime.direction)
      /\ regime.strength \in {"HARD", "SOFT"} => e.side = regime.direction
  <2>1. ev = ev /\ Remembers(ev, before)
    BY <1>1
  <2>2. QED
    BY <1>2, <2>1, SignalIs DEF e
<1>4. e.side = side /\ (IF strategy = "v1" THEN e.status = "SIGNAL_READY" ELSE e.soft = "READY")
  BY <1>1
<1> HIDE DEF regime
<1>5. Crossed(before, j, side)
  <2>1. AllHold(before, j, regime.direction) => Crossed(before, j, regime.direction)
    BY DEF AllHold
  <2>2. QED
    BY <1>3, <1>4, <2>1
<1>6. QED
  BY <1>5, CrossedIs

LEMMA Spaced ==
  ASSUME ScanInv, Meant(answer)
  PROVE  SignalSpacing
<1> SUFFICES ASSUME Ready, answer.kind \in {"v1", "soft"} PROVE SignalSpacing
  BY DEF SignalSpacing
<1> DEFINE slot == answer.slot
           side == answer.side
           start == WindowStart(answer.asOf)
           rows == SeenIn(1, slot)
           window == SeenIn(start, slot)
           sign == IF side = "LONG" THEN 1 ELSE -1
           upto(j) == {i \in rows : i <= j}
           before == {j \in rows : j < slot
                        /\ LET ev == Replayed(answer.kind, upto(j), Unknown)
                           IN /\ ev.side = side /\ ~ev.blocked
                              /\ IF answer.kind = "v1" THEN ev.status = "SIGNAL_READY"
                                 ELSE ev.soft = "READY"}
<1>1. SUFFICES /\ \A i \in Recent(window, Cooldown) : ~tape[i].wild
               /\ \A j \in before : \E k \in rows : j < k /\ k < slot /\ tape[k].hist * sign <= 0
  BY Zenon DEF SignalSpacing
<1>2. PICK seen \in SUBSET Nat, late \in {0, 1} :
        /\ HasRead(seen, answer.asOf, late)
        /\ slot \in seen /\ \A j \in seen : j <= slot
        /\ Judges(answer, seen)
  BY DEF Meant
<1>3. TapeOK /\ Len(tape) \in Nat /\ answer.asOf \in Nat /\ answer.asOf <= Len(tape)
  BY DEF Meant, ScanInv, TapeOK
<1>4. start \in Nat /\ 1 <= start
  BY <1>3, SlotsAssumption DEF WindowStart
<1>5. slot \in Nat /\ slot <= Len(tape) /\ start <= slot /\ slot <= answer.asOf - late
  <2>1. slot \in Nat /\ slot \in seen
    BY <1>2
  <2>2. start <= slot /\ slot <= answer.asOf - late
    BY <1>2, <2>1 DEF HasRead
  <2> HIDE DEF slot, start
  <2>3. QED
    BY <1>3, <1>4, <2>1, <2>2
<1>6. seen = window
  <2>1. \A i : i \in window <=> i \in start..slot /\ tape[i].seen
    BY DEF SeenIn
  <2>2. \A i \in Nat : i \in seen <=> start <= i /\ i <= answer.asOf - late /\ tape[i].seen
    BY <1>2 DEF HasRead
  <2> HIDE DEF start, slot, window
  <2>3. ASSUME NEW i \in Nat PROVE i \in seen <=> i \in window
    BY <1>2, <1>3, <1>4, <1>5, <2>1, <2>2
  <2>4. \A i \in window : i \in Nat
    BY <1>4, <1>5, <2>1
  <2>5. QED
    BY <2>3, <2>4
<1>7. \A i : i \in rows <=> i \in 1..slot /\ tape[i].seen
  BY DEF SeenIn
<1>8. /\ ~Barred(answer.kind, seen \ {slot}, slot)
      /\ side \in {"LONG", "SHORT"} /\ Crossed(seen \ {slot}, slot, side)
  BY <1>2 DEF Judges, Ready
<1>9. \A i \in Recent(window, Cooldown) : ~tape[i].wild
  <2>1. (seen \ {slot}) \cup {slot} = window
    BY <1>2, <1>6
  <2>2. QED
    BY <1>8, <2>1 DEF Barred
<1> DEFINE k == Newest(seen \ {slot})
<1>10. k \in seen /\ k # slot /\ (\A j \in seen : j # slot => j <= k) /\ k \in Nat
  <2>1. seen \ {slot} \in SUBSET (0..slot)
    <3>1. \A j \in seen : j \in Nat /\ j <= slot
      BY <1>2
    <3> HIDE DEF slot
    <3>2. QED
      BY <1>5, <3>1
  <2>2. seen \ {slot} # {}
    BY <1>8, CrossedIs
  <2>3. QED
    BY <1>5, <2>1, <2>2, NewestOf
<1>11. k \in rows /\ k < slot /\ start <= k
  <2>1. k <= slot /\ start <= k /\ tape[k].seen
    BY <1>2, <1>10 DEF HasRead
  <2> HIDE DEF k, slot, rows, start
  <2>2. QED
    BY <1>4, <1>5, <1>7, <1>10, <2>1
<1>12. tape[k].hist * sign <= 0 /\ ~OnSide(k, side)
  <2>1. IF side = "LONG" THEN tape[k].hist <= 0 ELSE tape[k].hist >= 0
    BY <1>8, CrossedIs
  <2>2. tape[k].hist \in -1..1
    <3>1. k \in 1..Len(tape)
      BY <1>3, <1>4, <1>5, <1>10, <1>11
    <3>2. QED
      BY <1>3, <3>1, CandlesAre
  <2> HIDE DEF k, side
  <2>3. QED
    BY <1>8, <2>1, <2>2 DEF OnSide
<1>13. ASSUME NEW j \in before PROVE j < k
  <2>1. j \in rows /\ j < slot
    OBVIOUS
  <2>2. OnSide(j, side)
    <3>1. j \in upto(j) /\ \A i \in upto(j) : i <= j
      <4>1. j \in Nat
        BY <1>7, <2>1
      <4>2. QED
        BY <2>1, <4>1
    <3>2. upto(j) \in SUBSET (1..Len(tape))
      BY <1>3, <1>5, <1>7
    <3>3. LET ev == Replayed(answer.kind, upto(j), Unknown)
          IN  /\ ev.side = side /\ ~ev.blocked
              /\ IF answer.kind = "v1" THEN ev.status = "SIGNAL_READY" ELSE ev.soft = "READY"
      OBVIOUS
    <3> HIDE DEF upto, before, side
    <3>4. QED
      BY <1>3, <3>1, <3>2, <3>3, EarlierSignal
  <2>3. j # k
    BY <1>12, <2>2
  <2>4. j \in Nat /\ 1 <= j /\ j <= slot /\ tape[j].seen
    BY <1>5, <1>7, <2>1
  <2>5. j <= k
    <3>1. CASE start <= j
      <4>1. j \in seen
        <5> HIDE DEF start, slot, k, before, rows
        <5>1. j <= answer.asOf - late
          BY <1>2, <1>3, <1>5, <2>4
        <5>2. QED
          BY <1>2, <2>4, <3>1, <5>1 DEF HasRead, start
      <4>2. j # slot
        BY <1>5, <2>1, <2>4
      <4>3. QED
        BY <1>10, <4>1, <4>2
    <3>2. CASE ~ (start <= j)
      BY <1>4, <1>10, <1>11, <2>4, <3>2
    <3>3. QED
      BY <3>1, <3>2
  <2> HIDE DEF k
  <2>6. QED
    BY <1>10, <2>3, <2>4, <2>5
<1> HIDE DEF before, k, rows
<1>14. QED
  BY <1>9, <1>11, <1>12, <1>13

\* For any candles, sessions, windows and cooldowns, however late or full of gaps the histories
\* are: no shock lies among the last Cooldown candles that a pullback signal was read from, and
\* between it and every earlier signal of its side the histogram has left that side, although
\* each scan begins its evaluator anew (forexStrategyV1.js:229-239, 335-349).
THEOREM SignalsKeepDistance == ScanSpec => []SignalSpacing
<1>1. MeaningInv => SignalSpacing
  BY Spaced DEF MeaningInv
<1>2. QED
  BY <1>1, MeaningKept, PTL

(***************************************************************************)
(* Warm replays agree: once there are candles enough in a history, those   *)
(* before it change nothing but the regime.                                *)
(***************************************************************************)
Since(rows, from) == {j \in rows : j >= from}

LEMMA RecentSince ==
  ASSUME NEW n \in Nat, NEW rows \in SUBSET (1..n), NEW from \in Nat, NEW m \in Nat,
         Cardinality(Since(rows, from)) >= m
  PROVE  Recent(Since(rows, from), m) = Recent(rows, m)
<1> DEFINE tail == Since(rows, from)
<1>1. \A j \in rows : j \in Nat
  OBVIOUS
<1>2. tail \in SUBSET (1..n) /\ tail \subseteq rows /\ (\A j : j \in tail <=> j \in rows /\ j >= from)
  BY DEF Since
<1>3. \A S \in SUBSET (1..n) : IsFiniteSet(S) /\ Cardinality(S) \in Nat
  <2>1. IsFiniteSet(1..n)
    BY FS_Interval
  <2>2. QED
    BY <2>1, FS_Subset, FS_CardinalityType
<1>4. \A S, w : w \in Recent(S, m) <=> w \in S /\ Cardinality(Later(S, w)) < m
  BY DEF Recent, Later
<1>5. ASSUME NEW w \in tail PROVE Later(tail, w) = Later(rows, w)
  <2>1. \A j \in rows : j > w => j >= from
    <3>1. w \in Nat /\ w >= from
      BY <1>1, <1>2
    <3> HIDE DEF tail
    <3>2. QED
      BY <1>1, <3>1
  <2> HIDE DEF tail
  <2>2. QED
    BY <1>2, <2>1 DEF Later
<1>6. ASSUME NEW w \in rows, w \notin tail PROVE Cardinality(Later(rows, w)) >= m
  <2>1. w \in Nat /\ ~ (w >= from)
    BY <1>1, <1>2, <1>6
  <2>2. tail \subseteq Later(rows, w)
    <3>1. \A j \in tail : j \in Nat /\ j >= from /\ j \in rows
      BY <1>1, <1>2
    <3> HIDE DEF tail
    <3>2. \A j \in tail : j > w
      BY <2>1, <3>1
    <3>3. QED
      BY <3>1, <3>2 DEF Later
  <2>3. Later(rows, w) \in SUBSET (1..n)
    BY DEF Later
  <2>4. Cardinality(tail) <= Cardinality(Later(rows, w))
    BY <1>3, <2>2, <2>3, FS_Subset
  <2> HIDE DEF tail
  <2>5. Cardinality(tail) \in Nat /\ Cardinality(Later(rows, w)) \in Nat /\ Cardinality(tail) >= m
    BY <1>2, <1>3, <2>3 DEF tail
  <2>6. QED
    BY <2>4, <2>5
<1>7. \A w \in rows : Cardinality(Later(rows, w)) \in Nat
  BY Counted
<1>8. ASSUME NEW w PROVE w \in Recent(tail, m) <=> w \in Recent(rows, m)
  <2> HIDE DEF tail
  <2>1. CASE w \in tail
    BY <1>2, <1>4, <1>5, <2>1
  <2>2. CASE w \notin tail /\ w \in rows
    BY <1>4, <1>6, <1>7, <2>2
  <2>3. CASE w \notin rows
    BY <1>2, <1>4, <2>3
  <2>4. QED
    BY <2>1, <2>2, <2>3
<1>9. QED
  BY <1>8

LEMMA NewestSince ==
  ASSUME NEW n \in Nat, NEW rows \in SUBSET (1..n), NEW from \in Nat, Since(rows, from) # {}
  PROVE  Newest(Since(rows, from)) = Newest(rows)
<1> DEFINE tail == Since(rows, from)
<1>1. rows \in SUBSET (0..n) /\ tail \in SUBSET (0..n) /\ tail # {} /\ rows # {}
  <2>1. tail \subseteq rows
    BY DEF Since
  <2>2. rows \in SUBSET (0..n)
    OBVIOUS
  <2> HIDE DEF tail
  <2>3. QED
    BY <2>1, <2>2 DEF tail
<1>2. \A j : j \in tail <=> j \in rows /\ j >= from
  BY DEF Since
<1>3. \A j \in rows : j \in Nat
  OBVIOUS
<1> HIDE DEF tail
<1>4. Newest(tail) \in tail /\ \A j \in tail : j <= Newest(tail)
  BY <1>1, NewestOf
<1>5. Newest(rows) \in rows /\ \A j \in rows : j <= Newest(rows)
  BY <1>1, NewestOf
<1> DEFINE a == Newest(tail)
           b == Newest(rows)
<1>6. a \in Nat /\ b \in Nat /\ a >= from /\ a <= b
  BY <1>2, <1>3, <1>4, <1>5
<1>7. b >= from
  <2> HIDE DEF a, b
  <2>1. QED
    BY <1>6
<1>8. b <= a
  BY <1>2, <1>4, <1>5, <1>7
<1> HIDE DEF a, b
<1>9. a = b
  BY <1>6, <1>8
<1>10. QED
  BY <1>9 DEF a, b, tail

\* Of a warm part of the candles before one, the shocks and the checks are those of all.
LEMMA WarmSame ==
  ASSUME NEW i \in Nat \ {0}, NEW rows \in SUBSET (1..(i - 1)), NEW from \in Nat,
         Warm(Since(rows, from)), NEW side
  PROVE  /\ Recent(Since(rows, from) \cup {i}, Cooldown) = Recent(rows \cup {i}, Cooldown)
         /\ AllHold(Since(rows, from), i, side) <=> AllHold(rows, i, side)
<1> DEFINE tail == Since(rows, from)
<1>1. Cooldown \in Nat /\ Lookback \in Nat /\ i - 1 \in Nat /\ i \in Nat
  BY SlotsAssumption
<1>2. Cardinality(tail) >= Cooldown /\ Cardinality(tail) >= Lookback /\ tail # {}
  BY DEF Warm
<1>3. tail # {} /\ rows # {}
  BY <1>2 DEF Since
<1>4. Newest(tail) = Newest(rows)
  BY <1>1, <1>3, NewestSince
<1>5. Recent(tail, Lookback) = Recent(rows, Lookback)
  BY <1>1, <1>2, RecentSince
<1>7. Recent(tail \cup {i}, Cooldown) = Recent(rows \cup {i}, Cooldown)
  <2> DEFINE more == rows \cup {i}
  <2>1. i >= from
    <3>1. PICK j \in rows : j >= from
      BY <1>3 DEF Since
    <3>2. j \in Nat /\ j < i
      BY <1>1
    <3>3. QED
      BY <1>1, <3>1, <3>2
  <2>2. Since(more, from) = tail \cup {i}
    BY <2>1 DEF Since
  <2>3. more \in SUBSET (1..i)
    BY <1>1
  <2>4. Cardinality(tail \cup {i}) >= Cooldown
    <3>1. IsFiniteSet(tail) /\ i \notin tail /\ Cardinality(tail) \in Nat
      <4>1. tail \in SUBSET (1..(i - 1))
        BY DEF Since
      <4>2. i \notin 1..(i - 1)
        BY <1>1
      <4> HIDE DEF tail
      <4>3. QED
        BY <1>1, <4>1, <4>2, Counted
    <3> HIDE DEF tail
    <3>2. Cardinality(tail \cup {i}) = Cardinality(tail) + 1
      BY <3>1, FS_AddElement
    <3>3. QED
      BY <1>1, <1>2, <3>1, <3>2
  <2> HIDE DEF more, tail
  <2>5. Recent(Since(more, from), Cooldown) = Recent(more, Cooldown)
    BY <1>1, <2>2, <2>3, <2>4, RecentSince
  <2>6. QED
    BY <2>2, <2>5 DEF more
<1> HIDE DEF tail
<1>10. AllHold(tail, i, side) <=> AllHold(rows, i, side)
  <2>1. Pullback(tail, side) <=> Pullback(rows, side)
    BY <1>5, Zenon DEF Pullback
  <2>2. hadRsiReset(tail, side) <=> hadRsiReset(rows, side)
    BY <1>5, Zenon DEF hadRsiReset
  <2>3. Crossed(tail, i, side) <=> Crossed(rows, i, side)
    BY <1>3, <1>4, Zenon DEF Crossed
  <2>4. QED
    BY <1>3, <2>1, <2>2, <2>3, Zenon DEF AllHold
<1>11. QED
  BY <1>7, <1>10 DEF tail

LEMMA Agreed ==
  ASSUME ScanInv, Meant(answer), BothWarm
  PROVE  ReplayAgrees
<1> DEFINE slot == answer.slot
           start == WindowStart(answer.asOf)
           before == SeenIn(1, slot - 1)
           rows == SeenIn(1, slot)
           fed == {i \in rows : Fed(i)}
<1> SUFFICES ASSUME answer.kind = "v1", slot >= PeriodStart, ~TooWide("v1", answer.spread),
                    ~Steep(slot, answer.spread), SameRegime
             PROVE  Ready <=> Validated(rows) = "SIGNAL_READY"
  BY DEF ReplayAgrees
<1>1. PICK seen \in SUBSET Nat, late \in {0, 1} :
        /\ HasRead(seen, answer.asOf, late)
        /\ slot \in seen /\ \A j \in seen : j <= slot
        /\ Judges(answer, seen)
  BY DEF Meant
<1>2. TapeOK /\ Len(tape) \in Nat /\ answer.asOf \in Nat /\ answer.asOf <= Len(tape)
  BY DEF Meant, ScanInv, TapeOK
<1>3. start \in Nat /\ 1 <= start /\ WarmupFrom \in Nat
  BY <1>2, SlotsAssumption DEF WindowStart
<1>4. slot \in Nat \ {0} /\ slot <= Len(tape) /\ start <= slot /\ slot <= answer.asOf - late /\ tape[slot].seen
  <2>1. slot \in Nat /\ slot \in seen
    BY <1>1
  <2>2. start <= slot /\ slot <= answer.asOf - late /\ tape[slot].seen
    BY <1>1, <2>1 DEF HasRead
  <2> HIDE DEF slot, start
  <2>3. QED
    BY <1>2, <1>3, <2>1, <2>2
<1>5. /\ \A i : i \in before <=> i \in 1..(slot - 1) /\ tape[i].seen
      /\ \A i : i \in rows <=> i \in 1..slot /\ tape[i].seen
  BY DEF SeenIn
<1>6. /\ Warm(Since(before, start)) /\ Warm(Since(before, WarmupFrom))
      /\ RegimeAt(Since(before, start), slot) = RegimeAt(Since(before, WarmupFrom), slot)
  BY DEF BothWarm, SameRegime, Prior, Since
<1>7. \A i \in Nat : i \in seen <=> start <= i /\ i <= answer.asOf - late /\ tape[i].seen
  BY <1>1 DEF HasRead
<1>8. Validated(rows) = LET last == Newest(rows)
                        IN  IF last < PeriodStart THEN "NONE" ELSE EvaluatedTo(last, "v1", fed, CostSpread).status
  BY DEF Validated
<1> HIDE DEF start, before, rows, fed
<1>9. before \in SUBSET (1..(slot - 1)) /\ rows \in SUBSET (1..slot) /\ slot \in rows
  <2> HIDE DEF slot
  <2>1. QED
    BY <1>4, <1>5
<1>10. seen \ {slot} = Since(before, start)
  <2>1. ASSUME NEW i \in Nat PROVE i \in seen /\ i # slot <=> i \in before /\ i >= start
    <3>1. i \in seen => i <= slot
      BY <1>1
    <3> HIDE DEF slot
    <3>2. QED
      BY <1>2, <1>3, <1>4, <1>5, <1>7, <3>1
  <2>2. \A i \in before : i \in Nat
    BY <1>9
  <2>3. QED
    BY <2>1, <2>2 DEF Since
<1>11. rows = before \cup {slot}
  <2>1. ASSUME NEW i PROVE i \in 1..slot <=> i \in 1..(slot - 1) \/ i = slot
    BY <1>4
  <2>2. QED
    BY <1>4, <1>5, <2>1, Zenon
<1>12. slot >= WarmupFrom
  <2>1. PICK i \in before : i >= WarmupFrom
    BY <1>6 DEF Warm, Since
  <2>2. i \in Nat /\ i < slot
    BY <1>4, <1>9
  <2>3. QED
    BY <1>3, <1>4, <2>1, <2>2
<1>13. fed \in SUBSET (1..Len(tape)) /\ slot \in fed /\ (\A j \in fed : j <= slot)
       /\ fed \ {slot} = Since(before, WarmupFrom)
  <2>1. fed = {i \in rows : i >= WarmupFrom}
    BY DEF fed, Fed
  <2>2. slot \notin before
    BY <1>4, <1>9
  <2>3. fed \ {slot} = Since(before, WarmupFrom) /\ slot \in fed
    BY <1>11, <1>12, <2>1, <2>2 DEF Since
  <2>4. \A j \in rows : j \in 1..Len(tape) /\ j <= slot
    <3> HIDE DEF slot
    <3>1. QED
      BY <1>2, <1>4, <1>9
  <2>5. \A j \in fed : j \in rows
    BY <2>1
  <2>6. QED
    BY <2>3, <2>4, <2>5
<1>14. Newest(rows) = slot
  <2>1. rows \in SUBSET (0..slot) /\ rows # {}
    BY <1>4, <1>9
  <2>2. Newest(rows) \in rows /\ slot <= Newest(rows)
    BY <1>4, <1>9, <2>1, NewestOf
  <2>3. Newest(rows) \in Nat /\ Newest(rows) <= slot
    <3>1. \A j \in rows : j \in Nat /\ j <= slot
      BY <1>4, <1>9
    <3>2. QED
      BY <2>2, <3>1, Zenon
  <2> DEFINE n == Newest(rows)
  <2> HIDE DEF n
  <2>4. n \in Nat /\ n <= slot /\ slot <= n
    BY <2>2, <2>3 DEF n
  <2>5. n = slot
    BY <1>4, <2>4
  <2>6. QED
    BY <2>5 DEF n
<1> DEFINE final == EvaluatedTo(slot, "v1", fed, CostSpread)
<1>15. Validated(rows) = final.status
  <2>1. ~ (slot < PeriodStart)
    BY <1>4, SlotsAssumption
  <2> HIDE DEF slot
  <2>2. QED
    BY <1>8, <1>14, <2>1
<1> DEFINE regime(s) == RegimeAt(s, slot)
           signal(s) == /\ ~Barred("v1", s, slot) /\ regime(s).strength = "HARD"
                        /\ AllHold(s, slot, regime(s).direction)
<1>16. Ready <=> signal(Since(before, start))
  <2>1. answer.kind = "v1" =>
           (answer.status = "SIGNAL_READY" <=>
              /\ ~TooWide("v1", answer.spread) /\ ~Steep(slot, answer.spread) /\ signal(seen \ {slot}))
    BY <1>1 DEF Judges
  <2> HIDE DEF signal
  <2>2. QED
    BY <1>10, <2>1 DEF Ready
<1>17. final.status = "SIGNAL_READY" <=> signal(Since(before, WarmupFrom))
  <2>1. ~TooWide("v1", CostSpread)
    BY DEF TooWide, CostSpread, MaxSpread
  <2>2. PICK ev : Remembers(ev, fed \ {slot}) /\ final = Evaluated(ev, "v1", slot, CostSpread)
    <3> HIDE DEF slot
    <3>1. EvaluatedOn(EvaluatedTo(slot, "v1", fed, CostSpread), fed \ {slot}, "v1", slot, CostSpread)
      BY <1>2, <1>13, <2>1, LastValidated
    <3>2. QED
      BY <3>1 DEF final, EvaluatedOn
  <2>3. slot \in 1..Len(tape) /\ Since(before, WarmupFrom) \in SUBSET (1..(slot - 1))
    <3>1. slot \in 1..Len(tape)
      BY <1>2, <1>4
    <3>2. QED
      BY <1>9, <3>1 DEF Since
  <2> DEFINE tail == Since(before, WarmupFrom)
             last == Evaluated(ev, "v1", slot, CostSpread)
  <2>4. Remembers(ev, tail) /\ tail \in SUBSET (1..(slot - 1))
    BY <1>13, <2>2, <2>3
  <2> HIDE DEF final, slot, tail
  <2>5. last.status = "SIGNAL_READY" <=>
          /\ ~TooWide("v1", CostSpread) /\ ~Barred("v1", tail, slot)
          /\ RegimeAt(tail, slot).strength = "HARD" /\ AllHold(tail, slot, RegimeAt(tail, slot).direction)
    BY <1>2, <2>3, <2>4, SignalIs
  <2> HIDE DEF last
  <2>6. QED
    BY <2>1, <2>2, <2>5 DEF last, tail
<1>18. signal(Since(before, start)) <=> signal(Since(before, WarmupFrom))
  <2> DEFINE regime0 == RegimeAt(Since(before, start), slot)
  <2>1. \A from \in {start, WarmupFrom} : from \in Nat /\ Warm(Since(before, from))
    BY <1>3, <1>6
  <2>2. \A from \in {start, WarmupFrom} :
          /\ Recent(Since(before, from) \cup {slot}, Cooldown) = Recent(before \cup {slot}, Cooldown)
          /\ \A side : AllHold(Since(before, from), slot, side) <=> AllHold(before, slot, side)
    BY <1>4, <1>9, <2>1, WarmSame
  <2>3. RegimeAt(Since(before, WarmupFrom), slot) = regime0
    BY <1>6
  <2>4. Barred("v1", Since(before, start), slot) <=> Barred("v1", Since(before, WarmupFrom), slot)
    BY <2>2, <2>3, Zenon DEF Barred
  <2>5. AllHold(Since(before, start), slot, regime0.direction)
          <=> AllHold(Since(before, WarmupFrom), slot, regime0.direction)
    BY <2>2
  <2> HIDE DEF regime0
  <2>6. QED
    BY <2>3, <2>4, <2>5 DEF regime0
<1> HIDE DEF signal, final
<1>19. QED
  BY <1>15, <1>16, <1>17, <1>18

\* For any candles, windows, warm-ups and periods, and however late the history is: once the
\* candles before one are enough for the cooldown and the lookback, both in the window of the
\* scan and in the warm-up of the validation (BothWarm), a scan that reads the same H1 regime
\* as the validation calls it a signal exactly if the validation did, unless its quote refuses
\* it (forexValidation.js:137-172, forexSignals.js:178-262).
THEOREM WarmReplaysAgree == ScanSpec => [](BothWarm => ReplayAgrees)
<1>1. MeaningInv => (BothWarm => ReplayAgrees)
  BY Agreed DEF MeaningInv
<1>2. QED
  BY <1>1, MeaningKept, PTL

(***************************************************************************)
(* The ledger and the scans together, as they are checked.                 *)
(***************************************************************************)
\* The types of the ledger and of the scans, for any candles and strategies.
THEOREM LedgerAndScanTypeCorrect == Spec => []LedgerAndScanTypeOK
<1>1. ScanInv => ScanTypeOK
  <2> SUFFICES ASSUME ScanInv PROVE ScanTypeOK
    OBVIOUS
  <2>1. Len(tape) \in Nat /\ DOMAIN tape = 1..Len(tape) /\ Len(Past) \in Nat /\ Slots \in Nat
    BY SlotsAssumption DEF ScanInv, TapeOK
  <2>2. /\ \A i \in DOMAIN tape : tape[i] \in Shapes \/ (i <= Len(Past) /\ tape[i] = Past[i])
        /\ Len(tape) \in Len(Past)..Slots
    BY <2>1 DEF ScanInv, TapeOK
  <2>3. request \in ScanRequest /\ SeenBy(request) /\ request.asOf \in Nat
    BY DEF ScanInv, AskedOK, ScanRequest
  <2>4. request.asOf \in 0..Len(tape) /\ request.seen \subseteq 1..request.asOf
    BY <2>1, <2>3 DEF SeenBy, ScanRequest
  <2>5. /\ request.kind \in Strategies \cup {"none"} /\ request.step \in {"idle", "history", "quote", "open"}
        /\ request.spread \in Spreads \cup {Unknown} /\ request.risk \in MinLotRisks
    BY <2>3 DEF ScanRequest
  <2>6. QED
    BY <2>2, <2>4, <2>5 DEF ScanInv, VerdictOK, ScanTypeOK
<1>2. LedgerAndScanTypeOK <=> LedgerTypeOK /\ ScanTypeOK
  BY DEF LedgerAndScanTypeOK
<1>3. PartsInit => LedgerInit /\ ScanInit
  BY DEF PartsInit
<1>4. [PartsNext]_<<part, ledgerVars, scanVars>> => [LedgerNext]_ledgerVars
  BY Zenon DEF PartsNext
<1>5. [PartsNext]_<<part, ledgerVars, scanVars>> => [ScanNext]_scanVars
  BY Zenon DEF PartsNext
<1>6. (Spec => LedgerSpec) /\ (Spec => ScanSpec)
  BY <1>3, <1>4, <1>5, PTL DEF Spec, LedgerSpec, ScanSpec
<1>7. QED
  BY <1>1, <1>2, <1>6, LedgerTypeCorrect, ScansKept, PTL

================================================================================
