--------------------------- MODULE MCTradeGateway ---------------------------
(***************************************************************************)
(* Instances of TradeGateway for TLC.  A scenario says which requests      *)
(* come, which environments serve them and how many faults may happen, so  *)
(* that one run can ask one question of several small instances.           *)
(***************************************************************************)
EXTENDS TradeGateway

CONSTANTS Scenarios, r1, r2, v1, c1, k1, k2

VARIABLE scenario

LiveEnv == [live |-> TRUE, kill |-> "off", db |-> TRUE]
DryEnv == [LiveEnv EXCEPT !.live = FALSE]
NoDbEnv == [LiveEnv EXCEPT !.db = FALSE]
GarbledEnv == [LiveEnv EXCEPT !.kill = "garbled"]

\* A deployment where instances disagree about the database, the mode and the switch.
Assorted == {LiveEnv, DryEnv, NoDbEnv, GarbledEnv}

Scenario(requests, envs, bound) == [requests |-> requests, envs |-> envs, faults |-> bound]

Named ==
  [race     |-> Scenario({r1, r2, v1}, {LiveEnv, DryEnv}, 1),  \* two orders and a verification
   close    |-> Scenario({r1, v1, c1}, {LiveEnv}, 1),          \* an order, its close and a verification
   twins    |-> Scenario({r1, r2}, Assorted, 1),               \* two orders, unlike instances
   recover  |-> Scenario({r1, v1}, {LiveEnv}, 2),              \* an order, two faults
   exposure |-> Scenario({r1, r2}, {LiveEnv}, 0),
   closed   |-> Scenario({r1, v1, c1}, {LiveEnv}, 0)]

ASSUME ScenariosAssumption == Scenarios \subseteq DOMAIN Named

mcVars == <<vars, scenario>>

Requests == Named[scenario].requests

Within(step) ==
  /\ step /\ UNCHANGED scenario
  /\ \A p \in Requests : env'[p] \in Named[scenario].envs \cup {NoEnv}
  /\ faults' <= Named[scenario].faults

MCInit == Init /\ scenario \in Scenarios
MCNext == Within(NextOf(Requests))
MCSpec == MCInit /\ [][MCNext]_mcVars

\* TradeGateway's FairSpec, for the verifiers that come.
MCFairSpec == MCSpec /\ \A v \in Verifiers : WF_mcVars(v \in Requests /\ Within(VerifierActs(v)))

\* TradeGateway's OpenPositionRecorded, where there is a verifier to poll: a position the
\* broker keeps open is recorded, whatever crash, timeout or lost write hit the request
\* that opened it (tradeState.js:617-712).
RecoveredPositionRecorded == scenario = "recover" => OpenPositionRecorded
=============================================================================
