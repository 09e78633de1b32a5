---------------------------- MODULE TradeStates ----------------------------
(***************************************************************************)
(* The states of a tracked trade and the transition table of              *)
(* lib/tradeState.js.  Nothing here changes state: TradeGateway moves the  *)
(* rows of trade_runs along this table.                                    *)
(***************************************************************************)

\* The lifecycle of an order up to the decision to send it.
EvaluationStates == {"SIGNAL_CREATED", "SIGNAL_VALIDATED", "RISK_APPROVED"}

\* ALLOWED_TRANSITIONS lists no way out of these.
TerminalStates == {"SIGNAL_REJECTED", "RISK_REJECTED", "DRY_RUN_COMPLETE",
                   "ORDER_REJECTED", "RECONCILED"}

\* The states of a trade whose order may have reached the broker.
ExecutionStates ==
  {"ORDER_SUBMITTED", "ORDER_ACCEPTED", "ORDER_TIMEOUT", "PARTIAL_FILL",
   "ORDER_FILLED", "POSITION_OPEN", "POSITION_MANAGED", "CLOSE_REQUESTED",
   "POSITION_CLOSED", "POSITION_MISMATCH", "EXECUTION_UNKNOWN",
   "EMERGENCY_CLOSE"}

States == EvaluationStates \cup TerminalStates \cup ExecutionStates

\* ALLOWED_TRANSITIONS as a relation: <<current, next>>.
Allowed ==
       {"SIGNAL_CREATED"}   \X {"SIGNAL_VALIDATED", "SIGNAL_REJECTED", "RISK_REJECTED"}
  \cup {"SIGNAL_VALIDATED"} \X {"RISK_APPROVED", "RISK_REJECTED", "SIGNAL_REJECTED"}
  \cup {"RISK_APPROVED"}    \X {"DRY_RUN_COMPLETE", "ORDER_SUBMITTED", "ORDER_REJECTED",
                                "EXECUTION_UNKNOWN"}
  \cup {"ORDER_SUBMITTED"}  \X {"ORDER_ACCEPTED", "ORDER_REJECTED", "ORDER_TIMEOUT",
                                "EXECUTION_UNKNOWN"}
  \cup {"ORDER_ACCEPTED"}   \X {"PARTIAL_FILL", "ORDER_FILLED", "ORDER_REJECTED",
                                "EXECUTION_UNKNOWN"}
  \cup {"PARTIAL_FILL"}     \X {"ORDER_FILLED", "POSITION_OPEN", "POSITION_MISMATCH",
                                "EXECUTION_UNKNOWN"}
  \cup {"ORDER_FILLED"}     \X {"POSITION_OPEN", "POSITION_CLOSED", "POSITION_MISMATCH",
                                "RECONCILED"}
  \cup {"POSITION_OPEN", "POSITION_MANAGED"}
                            \X {"POSITION_MANAGED", "CLOSE_REQUESTED", "POSITION_CLOSED",
                                "POSITION_MISMATCH", "EMERGENCY_CLOSE", "EXECUTION_UNKNOWN"}
  \cup {"CLOSE_REQUESTED"}  \X {"POSITION_CLOSED", "POSITION_MISMATCH", "EXECUTION_UNKNOWN"}
  \cup {"POSITION_CLOSED"}  \X {"RECONCILED"}
  \cup {"ORDER_TIMEOUT"}    \X {"EXECUTION_UNKNOWN", "RECONCILED"}
  \cup {"EXECUTION_UNKNOWN"}
                            \X {"ORDER_ACCEPTED", "ORDER_FILLED", "POSITION_OPEN",
                                "POSITION_CLOSED", "POSITION_MISMATCH", "RECONCILED"}
  \cup {"POSITION_MISMATCH"} \X {"POSITION_OPEN", "POSITION_CLOSED", "RECONCILED"}
  \cup {"EMERGENCY_CLOSE"}  \X {"POSITION_CLOSED", "EXECUTION_UNKNOWN", "POSITION_MISMATCH"}
============================================================================
