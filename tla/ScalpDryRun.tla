------------------------------ MODULE ScalpDryRun ------------------------------
(***************************************************************************)
(* The dry run of a 2M scalp entry: the route that drives one entry        *)
(* through the trade states without an order                               *)
(* (app/api/trading/scalp-dry-run), its cron, which asks the route up to   *)
(* three times and gives up waiting after 90 seconds while the route, and  *)
(* the cron itself, may work for 120, and the self-test of the same        *)
(* lifecycle (app/api/trading/dry-run-lifecycle).                          *)
(*                                                                         *)
(* One entry is followed: its symbol and entry time are the idempotency    *)
(* key.  Every statement of the route is a step.                           *)
(***************************************************************************)
EXTENDS Integers, FiniteSets, Sequences, TradeStates

CONSTANTS MaxTries,      \* of the cron for one symbol
          RouteFaults    \* how many steps of a route throw or are cut off

ASSUME MaxTriesAssumption == MaxTries \in Nat \ {0} /\ RouteFaults \in Nat

VARIABLES job,           \* "cron" or "selftest"
          tracked,       \* there is a database to keep trades in
          fresh,         \* the entry bar is the last completed one
          row,           \* the row of trade_runs under the key, and what hangs on it
          route,         \* what each request to the route is doing
          tries,         \* how often the cron has asked
          cron,          \* what the cron is doing, and whether it has timed out
          routeFaults

dryRunVars == <<job, tracked, fresh, row, route, tries, cron, routeFaults>>

Requests == 1..(MaxTries + 1)        \* the last one is asked for by hand
ByHand == MaxTries + 1
NoRow == [state |-> "NONE", owner |-> 0, events |-> <<>>, snapshots |-> 0]
NotAsked == [at |-> "idle", answer |-> "none"]

\* The last state before the answer, and the states on the way there.
Route(ok) ==
  IF ok THEN <<"SIGNAL_CREATED", "SIGNAL_VALIDATED", "RISK_APPROVED", "DRY_RUN_COMPLETE">>
        ELSE <<"SIGNAL_CREATED", "SIGNAL_VALIDATED", "RISK_REJECTED">>
Prefixes == UNION {{SubSeq(Route(ok), 1, n) : n \in 0..Len(Route(ok))} : ok \in BOOLEAN}

Go(a, step) == route' = [route EXCEPT ![a].at = step]
Answer(a, status) == route' = [route EXCEPT ![a] = [at |-> "done", answer |-> status]]

\* A request arrives at the route.
Ask(a) == route[a].at = "idle" /\ Go(a, "scan")

\* The cron's first try, or the self-test, or someone by hand.
CronAsks ==
  /\ job = "cron"
  /\ cron.at = "ready"
  /\ Ask(tries + 1)
  /\ tries' = tries + 1
  /\ cron' = [cron EXCEPT !.at = "waiting"]
  /\ UNCHANGED <<job, tracked, fresh, row, routeFaults>>

HandAsks ==
  /\ Ask(ByHand)
  /\ UNCHANGED <<job, tracked, fresh, row, tries, cron, routeFaults>>

\* scanScalpShadow: an entry is tried only while its bar is the last completed one,
\* and unless it is blocked (by the live spread, say) or without its levels.  The
\* self-test has no signal to wait for.
Scan(a, blocked) ==
  /\ route[a].at = "scan"
  /\ IF job = "selftest" THEN Go(a, "insert")
     ELSE IF ~fresh THEN Answer(a, "NO_FRESH_ENTRY")
     ELSE IF blocked THEN Answer(a, "BLOCKED") ELSE Go(a, "insert")
  /\ UNCHANGED <<job, tracked, fresh, row, tries, cron, routeFaults>>

\* Variant of Claim: ON CONFLICT overwrites the row.
ClaimAgain(a) == [NoRow EXCEPT !.state = "SIGNAL_CREATED", !.owner = a]

\* createTradeRun: INSERT ... ON CONFLICT (idempotency_key) DO NOTHING.
Claim(a) == IF row = NoRow THEN [NoRow EXCEPT !.state = "SIGNAL_CREATED", !.owner = a] ELSE row

\* Where the row is another request's, this one is a replay, or fails because that
\* one asked for a different order.  Without a database there is nothing to claim.
Create(a) ==
  /\ route[a].at = "insert"
  /\ IF ~tracked THEN Go(a, "preview") /\ UNCHANGED row
     ELSE /\ row' = Claim(a)
          /\ IF row'.owner = a THEN Go(a, "event")
             ELSE \E status \in {"IDEMPOTENT_REPLAY", "500"} : Answer(a, status)
  /\ UNCHANGED <<job, tracked, fresh, tries, cron, routeFaults>>

\* recordTradeEvent, after the row itself was changed.
\* Variant of NextStep: the risk preview is skipped.
NextStepSkips(state) ==
  CASE state = "SIGNAL_CREATED" -> "validate" [] state = "SIGNAL_VALIDATED" -> "approve"
    [] state = "RISK_APPROVED" -> "complete" [] OTHER -> "answer"

NextStep(state) ==
  CASE state = "SIGNAL_CREATED" -> "validate" [] state = "SIGNAL_VALIDATED" -> "preview"
    [] state = "RISK_APPROVED" -> "complete" [] OTHER -> "answer"

Event(a) ==
  /\ route[a].at = "event"
  /\ row' = [row EXCEPT !.events = Append(@, row.state)]
  /\ Go(a, NextStep(row.state))
  /\ UNCHANGED <<job, tracked, fresh, tries, cron, routeFaults>>

\* transitionTradeState: a move that the table does not have throws.
Transition(a, from, next) ==
  /\ route[a].at = from
  /\ IF <<row.state, next>> \in Allowed
     THEN row' = [row EXCEPT !.state = next] /\ Go(a, "event")
     ELSE Answer(a, "500") /\ UNCHANGED row
  /\ UNCHANGED <<job, tracked, fresh, tries, cron, routeFaults>>

Validate(a) == Transition(a, "validate", "SIGNAL_VALIDATED")
Complete(a) == Transition(a, "complete", "DRY_RUN_COMPLETE")

Verdict(ok) == IF ok THEN "DRY_RUN_COMPLETE" ELSE "RISK_REJECTED"

\* updateTradeFromPreview stores the preview and an account snapshot; then the
\* verdict of the preview decides.  The self-test's preview is always good.  Where
\* nothing is stored the verdict is the answer.
Preview(a) ==
  /\ route[a].at = "preview"
  /\ \E ok \in BOOLEAN :
       /\ job = "selftest" => ok
       /\ IF tracked THEN Go(a, IF ok THEN "approve" ELSE "reject") ELSE Answer(a, Verdict(ok))
  /\ row' = IF tracked THEN [row EXCEPT !.snapshots = @ + 1] ELSE row
  /\ UNCHANGED <<job, tracked, fresh, tries, cron, routeFaults>>

Approve(a) == Transition(a, "approve", "RISK_APPROVED")
Reject(a) == Transition(a, "reject", "RISK_REJECTED")

\* The self-test creates its trade a second time before it answers, and reads
\* back what is on record.
SelfTestHolds(a) ==
  /\ row.state = "DRY_RUN_COMPLETE"
  /\ row.events = Route(TRUE)
  /\ row.snapshots >= 1
  /\ Claim(ByHand + 1) = row

Finish(a) ==
  /\ route[a].at = "answer"
  /\ Answer(a, IF job = "selftest" /\ ~SelfTestHolds(a) THEN "FAILED" ELSE row.state)
  /\ UNCHANGED <<job, tracked, fresh, row, tries, cron, routeFaults>>

\* A step throws (the route answers 500; 429 stands for any answer that names the
\* rate limit), or the instance is cut off and nobody is answered.
RouteFails(a) ==
  /\ route[a].at \notin {"idle", "done"}
  /\ routeFaults < RouteFaults
  /\ routeFaults' = routeFaults + 1
  /\ \E status \in {"500", "429", "none"} : Answer(a, status)
  /\ UNCHANGED <<job, tracked, fresh, row, tries, cron>>

\* The next bar completes: the entry is not fresh any more.
BarCompletes ==
  /\ fresh
  /\ fresh' = FALSE
  /\ UNCHANGED <<job, tracked, row, route, tries, cron, routeFaults>>

\* Variant of Again: one try too many.
AgainOnceMore(n) == n <= MaxTries

Again(n) == n < MaxTries

\* runOne reads the answer: a failure is asked again, everything else is final.
CronReads ==
  LET answer == route[tries].answer
      retry == answer \in {"500", "429"} /\ Again(tries)
  IN /\ cron.at = "waiting"
     /\ route[tries].at = "done" /\ answer # "none"
     /\ cron' = [cron EXCEPT !.at = IF retry THEN "ready" ELSE "ended"]
     /\ UNCHANGED <<job, tracked, fresh, row, route, tries, routeFaults>>

\* AbortSignal.timeout(90000): the request it gave up on goes on.  The cron's own 120
\* seconds have no room for a second timeout.
CronGivesUp ==
  /\ cron.at = "waiting" /\ ~cron.timedOut
  /\ cron' = [at |-> IF Again(tries) THEN "ready" ELSE "ended", timedOut |-> TRUE]
  /\ UNCHANGED <<job, tracked, fresh, row, route, tries, routeFaults>>

\* The cron's 120 seconds are over, whatever the symbols before this one took of
\* them: it is cut off where it is, and no symbol follows.
CronIsCut ==
  /\ cron.at \in {"ready", "waiting"}
  /\ cron' = [cron EXCEPT !.at = "cut"]
  /\ UNCHANGED <<job, tracked, fresh, row, route, tries, routeFaults>>

DryRunInit ==
  /\ job \in {"cron", "selftest"}
  /\ tracked \in BOOLEAN /\ (job = "selftest" => tracked)
  /\ fresh = TRUE
  /\ row = NoRow
  /\ route = [a \in Requests |-> NotAsked]
  /\ tries = 0
  /\ cron = [at |-> "ready", timedOut |-> FALSE]
  /\ routeFaults = 0

RouteStep(a) ==
  \/ \E blocked \in BOOLEAN : Scan(a, blocked)
  \/ Create(a)
  \/ Event(a)
  \/ Validate(a)
  \/ Preview(a)
  \/ Approve(a)
  \/ Reject(a)
  \/ Complete(a)
  \/ Finish(a)

CronStep == CronAsks \/ CronReads \/ CronGivesUp \/ CronIsCut

DryRunNext ==
  \/ CronStep
  \/ HandAsks
  \/ BarCompletes
  \/ \E a \in Requests : RouteStep(a) \/ RouteFails(a)

DryRunSpec == DryRunInit /\ [][DryRunNext]_dryRunVars

(***************************************************************************)
(* Properties.                                                             *)
(***************************************************************************)

\* The row, the requests and the cron are where their columns and locals can be.
DryRunTypeOK ==
  /\ row.state \in {"NONE", "SIGNAL_CREATED", "SIGNAL_VALIDATED", "RISK_APPROVED", "RISK_REJECTED",
                   "DRY_RUN_COMPLETE"}
  /\ row.owner \in {0} \cup Requests
  /\ tries \in 0..MaxTries
  /\ \A a \in Requests : route[a].at \in
       {"idle", "scan", "insert", "event", "validate", "preview", "approve", "reject",
        "complete", "answer", "done"}
  /\ cron.at \in {"ready", "waiting", "ended", "cut"}
  /\ tracked \in BOOLEAN /\ cron.timedOut \in BOOLEAN
  /\ routeFaults \in 0..RouteFaults

\* The request has the row, or takes itself to have it.
Writes(a) ==
  \/ route[a].at \in {"event", "validate", "approve", "reject", "complete", "answer"}
  \/ route[a].at = "preview" /\ tracked

\* However often the entry is asked for, and though a try that was given up on
\* still runs beside the next, one request alone takes its row through the states;
\* the history of the entry is a path to one of the two ends, without a gap or a
\* repetition, and at most one event behind the row.  Where trades are kept, an answer
\* that the dry run is complete or rejected is given only when the whole path is on
\* record (scalp-dry-run/route.js:118-196, tradeState.js:192-276); without a database
\* it is given with nothing on record, and no request leaves a row.
HistoryIsPath ==
  /\ \A a \in Requests : Writes(a) => row.owner = a
  /\ row.events \in Prefixes
  /\ row # NoRow => \E path \in Prefixes : path # <<>> /\ row.state = path[Len(path)]
                      /\ row.events \in {path, SubSeq(path, 1, Len(path) - 1)}
  /\ \A a \in Requests :
       /\ route[a].answer \in {"DRY_RUN_COMPLETE", "RISK_REJECTED"} /\ tracked
            => row.events = Route(route[a].answer = "DRY_RUN_COMPLETE") /\ row.snapshots = 1
       /\ route[a].answer # "FAILED"
  /\ ~tracked => row = NoRow
================================================================================
