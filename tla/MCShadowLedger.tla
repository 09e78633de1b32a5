---------------------------- MODULE MCShadowLedger ----------------------------
(***************************************************************************)
(* The shadow ledger for TLC, under the fairness of the cron's schedule,   *)
(* and the scans that give its verdicts.  The two share no state: each     *)
(* behaviour is one of the one or of the other.                            *)
(***************************************************************************)
EXTENDS ShadowLedger, SignalScan

VARIABLE part

\* What an hour may say: a rise that holds, a soft one, a fall that holds.
Hard == [stack |-> "up", adx |-> 25, di |-> "up"]
Soft == [Hard EXCEPT !.adx = 10]
Fall == [Hard EXCEPT !.stack = "down", !.di = "down"]

\* Soft, but a rise that holds in a replay that began five candles ago.
Turns == <<Soft, Soft, Soft, Soft, Hard>>

\* A candle that says nothing, with the features f instead.
Plain == [seen |-> TRUE, wild |-> FALSE, ema |-> "up", rsi |-> 55, hist |-> 0, zone |-> FALSE,
          kept |-> "above", close |-> "above", breaks |-> "none", bos |-> FALSE, stop |-> 12,
          regime |-> <<Hard>>, scalp |-> "none"]
With(f) == [x \in DOMAIN Plain |-> IF x \in DOMAIN f THEN f[x] ELSE Plain[x]]

\* A pullback in a rise, the end of one in a hard and in a turning regime, a shock, a fall that
\* breaks the channel, and a hole in the broker's history.
MCShapes ==
  {With([zone |-> TRUE, rsi |-> 45, hist |-> -1, ema |-> "down", close |-> "below",
         scalp |-> "enters"]),
   With([hist |-> 1, breaks |-> "high"]),
   With([hist |-> 1, breaks |-> "high", regime |-> Turns]),
   With([wild |-> TRUE, scalp |-> "leaves"]),
   With([zone |-> TRUE, rsi |-> 46, hist |-> -1, ema |-> "down", kept |-> "below", close |-> "below",
         breaks |-> "low", bos |-> TRUE, stop |-> 30, regime |-> <<Fall>>]),
   With([seen |-> FALSE])}

\* Two hours in which nothing happened.
MCPast == <<Plain, Plain, Plain, Plain>>

\* What each candle may do.  No trade is entered before the second, and the last is there to be
\* the one after those that decide.
MCEffects ==
  <<{"quiet"}, {"missing", "quiet"}, {"gap", "quiet"}, {"gap", "quiet"}, {"quiet"}>>

MCPrinting == \A t \in DOMAIN market' : market'[t] \in MCEffects[t]

\* Where the scans are looked at, the ledger stands still, of whichever route.
PartsInit ==
  /\ part \in {"ledger", "scan"} /\ LedgerInit /\ ScanInit
  /\ part = "scan" => kind = "v2"

PartsNext ==
  \/ part = "ledger" /\ LedgerNext /\ MCPrinting /\ UNCHANGED <<part, scanVars>>
  \/ part = "scan" /\ ScanNext /\ UNCHANGED <<part, ledgerVars>>

Spec == PartsInit /\ [][PartsNext]_<<part, ledgerVars, scanVars>> /\ LedgerFairness

\* The two keep what the code's own can.
LedgerAndScanTypeOK == LedgerTypeOK /\ ScanTypeOK
================================================================================
