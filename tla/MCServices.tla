------------------------------ MODULE MCServices ------------------------------
(***************************************************************************)
(* Services that share no state, checked in one run: each behaviour is a   *)
(* behaviour of one of them while the others stand still.                  *)
(***************************************************************************)
EXTENDS BrokerSession, ScalpDryRun, CloudJournal

CONSTANT Services

ASSUME ServicesAssumption == Services \subseteq {"session", "dry run", "journal"}

VARIABLE service

vars == <<service, sessionVars, dryRunVars, journalVars>>

Session(A) == service = "session" /\ A /\ UNCHANGED <<service, dryRunVars, journalVars>>
DryRun(A) == service = "dry run" /\ A /\ UNCHANGED <<service, sessionVars, journalVars>>
Journal(A) == service = "journal" /\ A /\ UNCHANGED <<service, sessionVars, dryRunVars>>

Init ==
  /\ service \in Services
  /\ SessionInit
  /\ DryRunInit /\ (service # "dry run" => job = "cron" /\ tracked)
  /\ JournalInit

Next ==
  \/ Session(SessionNext)
  \/ DryRun(DryRunNext)
  \/ Journal(JournalNext)

Fairness ==
  /\ WF_vars(Session(BrokerAnswers))
  /\ \A c \in Callers : WF_vars(Session(\E method \in Methods : Start(c, method)))

\* The variables of the services hold what the code's own can.
TypeOK == SessionTypeOK /\ DryRunTypeOK /\ JournalTypeOK

\* Two tabs of one owner; trades 1 and 3 come from files.
Entry(trade, source) == [trade |-> trade, source |-> source]
MCEntries == <<{Entry(1, "csv"), Entry(2, "manual")}, {Entry(3, "csv")}>>

Spec == Init /\ [][Next]_vars /\ Fairness
================================================================================
