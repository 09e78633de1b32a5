---------------------------- MODULE ResearchJobs ----------------------------
(***************************************************************************)
(* Research jobs (lib/xmi-sim/jobs.mjs).  Every tick of a job takes a      *)
(* lease, does one step outside the document, and stores it where the      *)
(* lease is still its own.  A call of mutate is one step here, as          *)
(* StateDocument shows it to be; a call that is applied may still throw.   *)
(***************************************************************************)
EXTENDS Integers, Sequences, FiniteSets

CONSTANTS
  Jobs,        \* research jobs, by the digest of their input
  Workers,     \* concurrent calls of tickResearch
  None,        \* no lease
  Orphan,      \* a lease whose tick has ended without giving it back
  Versions,    \* candidate configurations of a job
  MaxAttempts, \* 5 in the code
  MaxActive,   \* 3 in the code
  Holdout,     \* Holdout[j]: the points of time of the holdout of j's dataset
  MaxOps,      \* bound on the manager's interventions
  MaxFaults    \* bound on crashes, lost answers and skewed clocks

ASSUME JobsAssumption ==
  /\ Versions \in Nat /\ MaxAttempts \in Nat \ {0} /\ MaxActive \in Nat
  /\ MaxOps \in Nat /\ MaxFaults \in Nat
  /\ None \notin Workers \cup Jobs /\ Orphan \notin Workers /\ None # Orphan
  /\ \A j \in Jobs : Holdout[j] # {}

Active == {"QUEUED", "RUNNING"}
Statuses == Active \cup {"ABSENT", "PAUSED", "FAILED", "COMPLETED", "RETIRED"}
Settable == {"PAUSED", "QUEUED", "RETIRED"}

VARIABLES
  status,     \* status[j]
  cursor,     \* cursor[j]: the next candidate
  trials,     \* trials[j]: the candidates whose trial is stored
  attempts,   \* attempts[j]: failed ticks since the last stored trial
  lease,      \* lease[j]: the tick that holds the job
  paused,     \* the kill switch
  holdouts,   \* the reservations, in order: the jobs that made them
  runs,       \* the completed runs, in order
  pc,         \* pc[w]: the next step of the tick, or "idle"
  at,         \* at[w]: the job of the tick
  copy,       \* copy[w]: the job's cursor and trials as they were claimed
  untouched,  \* untouched[w]: the reservation found no earlier use
  revoked,    \* history: w's lease was taken away after w took it
  ops,        \* interventions so far
  faults      \* faults so far

job == <<status, cursor, trials, attempts, lease>>
tick == <<pc, at, copy, untouched, revoked>>
bounds == <<ops, faults>>
vars == <<job, paused, holdouts, runs, tick, bounds>>

NoCopy == [cursor |-> 0, trials |-> <<>>]

Init ==
  /\ status = [j \in Jobs |-> "ABSENT"]
  /\ cursor = [j \in Jobs |-> 0]
  /\ trials = [j \in Jobs |-> <<>>]
  /\ attempts = [j \in Jobs |-> 0]
  /\ lease = [j \in Jobs |-> None]
  /\ paused = FALSE /\ holdouts = <<>> /\ runs = <<>>
  /\ pc = [w \in Workers |-> "idle"]
  /\ at = [w \in Workers |-> None]
  /\ copy = [w \in Workers |-> NoCopy]
  /\ untouched = [w \in Workers |-> FALSE]
  /\ revoked = [w \in Workers |-> FALSE]
  /\ ops = 0 /\ faults = 0

ActiveJobs == {j \in Jobs : status[j] \in Active}

Fault == faults < MaxFaults /\ faults' = faults + 1
Intervene == ops < MaxOps /\ ops' = ops + 1

(***************************************************************************)
(* The manager                                                             *)
(***************************************************************************)
\* queueResearch; a job that exists already is answered as it is.
Queue(j) ==
  /\ status[j] = "ABSENT" /\ ~ paused
  /\ Cardinality(ActiveJobs) < MaxActive
  /\ status' = [status EXCEPT ![j] = "QUEUED"]
  /\ UNCHANGED <<cursor, trials, attempts, lease, paused, holdouts, runs, tick, bounds>>

\* The leases of the jobs in S are cleared: their ticks, if any, have lost them.
Revoke(S) ==
  /\ lease' = [j \in Jobs |-> IF j \in S THEN None ELSE lease[j]]
  /\ revoked' = [w \in Workers |-> revoked[w] \/ \E j \in S : lease[j] = w]

\* Variant of PauseAll: the leases stay.
PauseOnly ==
  /\ Intervene
  /\ paused' = TRUE
  /\ revoked' = [w \in Workers |-> revoked[w] \/ \E j \in Jobs : lease[j] = w]
  /\ UNCHANGED <<job, holdouts, runs, pc, at, copy, untouched, faults>>

PauseAll ==
  /\ Intervene
  /\ paused' = TRUE
  /\ Revoke(Jobs)
  /\ UNCHANGED <<status, cursor, trials, attempts, holdouts, runs, pc, at, copy, untouched,
                 faults>>

ResumeAll ==
  /\ Intervene
  /\ paused' = FALSE
  /\ UNCHANGED <<job, holdouts, runs, tick, faults>>

\* Variant of Final: a completed job may be queued again.
OnlyRetired == {"RETIRED"}

Final == {"COMPLETED", "RETIRED"}

SetJobStatus(j, s) ==
  /\ Intervene
  /\ status[j] \notin Final \cup {"ABSENT"}
  /\ status' = [status EXCEPT ![j] = s]
  /\ Revoke({j})
  /\ UNCHANGED <<cursor, trials, attempts, paused, holdouts, runs, pc, at, copy, untouched,
                 faults>>

(***************************************************************************)
(* tickResearch                                                            *)
(***************************************************************************)
Goto(w, s) ==
  pc' = [pc EXCEPT ![w] = s] /\ UNCHANGED <<at, copy, untouched, revoked>>

End(w) ==
  /\ pc' = [pc EXCEPT ![w] = "idle"]
  /\ at' = [at EXCEPT ![w] = None]
  /\ copy' = [copy EXCEPT ![w] = NoCopy]
  /\ untouched' = [untouched EXCEPT ![w] = FALSE]
  /\ revoked' = [revoked EXCEPT ![w] = FALSE]

\* Variant of Expired: a lease only ends when it is given back.
Free(j) == lease[j] = None /\ UNCHANGED faults

\* A lease of a tick that still runs expires only where the clocks of two
\* instances differ: it lasts twice as long as a request may run.
Expired(j) ==
  \/ lease[j] \in {None, Orphan} /\ UNCHANGED faults
  \/ lease[j] \in Workers /\ Fault

Claim(w, j) ==
  /\ pc[w] = "idle" /\ ~ paused /\ status[j] \in Active /\ attempts[j] < MaxAttempts
  /\ Expired(j)
  /\ status' = [status EXCEPT ![j] = "RUNNING"]
  /\ lease' = [lease EXCEPT ![j] = w]
  /\ pc' = [pc EXCEPT ![w] = "replay"]
  /\ at' = [at EXCEPT ![w] = j]
  /\ copy' = [copy EXCEPT ![w] = [cursor |-> cursor[j], trials |-> trials[j]]]
  /\ revoked' = [v \in Workers |-> revoked[v] \/ lease[j] = v]
  /\ UNCHANGED <<cursor, trials, attempts, paused, holdouts, runs, untouched, ops>>

\* The answer to the claim is lost: nobody gives the lease back.
ClaimUnanswered(w, j) ==
  /\ pc[w] = "idle" /\ ~ paused /\ status[j] \in Active /\ attempts[j] < MaxAttempts
  /\ lease[j] \in {None, Orphan} /\ Fault
  /\ status' = [status EXCEPT ![j] = "RUNNING"]
  /\ lease' = [lease EXCEPT ![j] = Orphan]
  /\ UNCHANGED <<cursor, trials, attempts, paused, holdouts, runs, tick, ops>>

\* A job that has used its attempts fails at the next tick.
GiveUp(w, j) ==
  /\ pc[w] = "idle" /\ ~ paused /\ status[j] \in Active /\ attempts[j] >= MaxAttempts
  /\ Expired(j)
  /\ status' = [status EXCEPT ![j] = "FAILED"]
  /\ UNCHANGED <<cursor, trials, attempts, lease, paused, holdouts, runs, tick, ops>>

\* replayDataset and trainingTrial; either may throw, a dataset that is blocked
\* in its own way.
Replay(w) ==
  /\ pc[w] = "replay"
  /\ \/ Goto(w, IF copy[w].cursor < Versions THEN "save" ELSE "reserve")
     \/ Goto(w, "release")
     \/ Goto(w, "block")
  /\ UNCHANGED <<job, paused, holdouts, runs, bounds>>

\* Variant of HoldsLease: any tick of a running job may store.
StillRunning(w) == status[at[w]] = "RUNNING" /\ ~ paused

\* The condition under which a tick may store anything.
HoldsLease(w) == lease[at[w]] = w /\ status[at[w]] = "RUNNING" /\ ~ paused

Superseded(w) ==
  /\ pc[w] \in {"save", "reserve", "commit"}
  /\ ~ HoldsLease(w)
  /\ End(w)
  /\ UNCHANGED <<job, paused, holdouts, runs, bounds>>

\* The tick ends when its last write is answered; when the answer is lost it goes
\* to its catch block.
Finish(w) ==
  \/ End(w) /\ UNCHANGED faults
  \/ Goto(w, "release") /\ Fault

Has(s, x) == \E i \in DOMAIN s : s[i] = x

SaveTrial(w) ==
  LET j == at[w]
      v == copy[w].cursor
  IN  /\ pc[w] = "save" /\ HoldsLease(w)
      /\ trials' = [trials EXCEPT ![j] = IF Has(@, v) THEN @ ELSE Append(@, v)]
      /\ cursor' = [cursor EXCEPT ![j] = @ + 1]
      /\ lease' = [lease EXCEPT ![j] = None]
      /\ attempts' = [attempts EXCEPT ![j] = 0]
      /\ Finish(w)
      /\ UNCHANGED <<status, paused, holdouts, runs, ops>>

Overlap(i, j) == Holdout[i] \cap Holdout[j] # {}

\* Variant of Reused: a job's own earlier reservation does not count.
ReusedByAnother(j) ==
  \E i \in DOMAIN holdouts : holdouts[i] # j /\ Overlap(holdouts[i], j)

Reused(j) == \E i \in DOMAIN holdouts : Overlap(holdouts[i], j)

\* The range is reserved before it is evaluated.
Reserve(w) ==
  LET j == at[w]
  IN  /\ pc[w] = "reserve" /\ HoldsLease(w)
      /\ holdouts' = Append(holdouts, j)
      /\ \/ /\ pc' = [pc EXCEPT ![w] = "commit"]
            /\ untouched' = [untouched EXCEPT ![w] = ~ Reused(j)]
            /\ UNCHANGED <<at, copy, revoked, faults>>
         \/ Goto(w, "release") /\ Fault
      /\ UNCHANGED <<job, paused, runs, ops>>

Recorded(j) == \E i \in DOMAIN runs : runs[i].job = j

Commit(w) ==
  LET j == at[w]
      run == [job |-> j, trials |-> copy[w].trials, untouched |-> untouched[w]]
  IN  /\ pc[w] = "commit" /\ HoldsLease(w)
      /\ runs' = IF Recorded(j) THEN runs ELSE Append(runs, run)
      /\ status' = [status EXCEPT ![j] = "COMPLETED"]
      /\ lease' = [lease EXCEPT ![j] = None]
      /\ Finish(w)
      /\ UNCHANGED <<cursor, trials, attempts, paused, holdouts, ops>>

\* A write throws without being applied, or finishResearch before the last one.
Throw(w) ==
  /\ \/ pc[w] = "commit" /\ UNCHANGED faults
     \/ pc[w] \in {"save", "reserve"} /\ Fault
  /\ Goto(w, "release")
  /\ UNCHANGED <<job, paused, holdouts, runs, ops>>

AfterFailure(w) ==
  IF pc[w] = "block" THEN "PAUSED"
  ELSE IF attempts[at[w]] + 1 >= MaxAttempts THEN "FAILED" ELSE "QUEUED"

\* The catch block.
Release(w) ==
  LET j == at[w]
  IN  /\ pc[w] \in {"release", "block"}
      /\ End(w)
      /\ IF lease[j] = w
         THEN \/ /\ lease' = [lease EXCEPT ![j] = None]
                 /\ attempts' = [attempts EXCEPT ![j] = @ + 1]
                 /\ status' = [status EXCEPT ![j] = AfterFailure(w)]
                 /\ UNCHANGED faults
              \/ /\ Fault
                 /\ lease' = [lease EXCEPT ![j] = Orphan]
                 /\ UNCHANGED <<attempts, status>>
         ELSE UNCHANGED <<lease, attempts, status, faults>>
      /\ UNCHANGED <<cursor, trials, paused, holdouts, runs, ops>>

\* The instance dies, or reaches its maximum duration.
Crash(w) ==
  /\ pc[w] # "idle" /\ Fault
  /\ End(w)
  /\ lease' = [j \in Jobs |-> IF lease[j] = w THEN Orphan ELSE lease[j]]
  /\ UNCHANGED <<status, cursor, trials, attempts, paused, holdouts, runs, ops>>

Manage ==
  \/ \E j \in Jobs : Queue(j) \/ \E s \in Settable : SetJobStatus(j, s)
  \/ PauseAll \/ ResumeAll

TickStep(w) ==
  \/ Replay(w) \/ Superseded(w) \/ SaveTrial(w) \/ Reserve(w) \/ Commit(w)
  \/ Throw(w) \/ Release(w)

Begin(j) == \E w \in Workers : Claim(w, j) \/ ClaimUnanswered(w, j) \/ GiveUp(w, j)

Next ==
  \/ Manage
  \/ \E j \in Jobs : Begin(j)
  \/ \E w \in Workers : TickStep(w) \/ Crash(w)

Spec == Init /\ [][Next]_vars

(***************************************************************************)
(* No scheduler is installed: the manager's page ticks each job again and  *)
(* again, and a tick that runs goes on unless it crashes.                  *)
(***************************************************************************)
FairSpec ==
  /\ Spec
  /\ \A w \in Workers : WF_vars(TickStep(w))
  /\ \A j \in Jobs : WF_vars(Begin(j))

(***************************************************************************)
(* Properties                                                              *)
(***************************************************************************)
Steps == {"idle", "replay", "save", "reserve", "commit", "release", "block"}
Copies == [cursor : 0..Versions, trials : Seq(0..(Versions - 1))]
Results == [job : Jobs, trials : Seq(0..(Versions - 1)), untouched : BOOLEAN]

\* Every variable keeps its shape: the cursor stays within the candidates and the
\* attempts within the limit.
TypeOK ==
  /\ status \in [Jobs -> Statuses]
  /\ cursor \in [Jobs -> 0..Versions]
  /\ trials \in [Jobs -> Seq(0..(Versions - 1))]
  /\ attempts \in [Jobs -> 0..MaxAttempts]
  /\ lease \in [Jobs -> Workers \cup {None, Orphan}]
  /\ paused \in BOOLEAN
  /\ holdouts \in Seq(Jobs)
  /\ runs \in Seq(Results)
  /\ pc \in [Workers -> Steps]
  /\ at \in [Workers -> Jobs \cup {None}]
  /\ copy \in [Workers -> Copies]
  /\ untouched \in [Workers -> BOOLEAN]
  /\ revoked \in [Workers -> BOOLEAN]
  /\ \A w \in Workers : pc[w] = "idle" <=> at[w] = None
  /\ ops \in 0..MaxOps /\ faults \in 0..MaxFaults

\* A run reported on an untouched holdout has used it first and once: no earlier
\* reservation overlaps its range, and its job never reserved it again, whatever
\* crashed between the reservation and the run (docs/XMI_SIMULATION_STAGING.md:35).
UntouchedIsFirstUse ==
  \A i \in DOMAIN runs : runs[i].untouched =>
    \E k \in DOMAIN holdouts :
      /\ holdouts[k] = runs[i].job
      /\ \A m \in DOMAIN holdouts \ {k} :
           Overlap(holdouts[m], runs[i].job) => m > k /\ holdouts[m] # runs[i].job

\* Each candidate is tried once, in order, although a tick may crash after its trial
\* is stored or be overtaken by another.
TrialsFollowCursor == \A j \in Jobs : trials[j] = [i \in 1..cursor[j] |-> i - 1]

\* A job is completed by one run, and by a run over all its candidates
\* (docs/XMI_SIMULATION_STAGING.md:43).
OneRunPerJob ==
  \A j \in Jobs :
    LET mine == {i \in DOMAIN runs : runs[i].job = j}
    IN  /\ Cardinality(mine) = IF status[j] = "COMPLETED" THEN 1 ELSE 0
        /\ \A i \in mine : Len(runs[i].trials) = Versions

\* A tick whose lease was cleared by a pause or a status change, or taken over,
\* changes nothing any more, also after the research is resumed.
RevokedTicksAreInert ==
  [][\A w \in Workers :
       revoked[w] /\ pc'[w] # pc[w] /\ pc[w] # "idle" =>
         UNCHANGED <<job, holdouts, runs>>]_vars

\* docs/XMI_SIMULATION_STAGING.md:44: "Current job cap: 40 retained jobs, three
\* queued/running".
ActiveJobsCapped == Cardinality(ActiveJobs) <= MaxActive

\* A job does not stay queued or running for ever while the research is not paused:
\* the failures of its ticks are bounded by the attempts, and no crash, lost answer
\* or intervention leaves a lease that nobody can take over.
JobsEnd == \A j \in Jobs : status[j] \in Active ~> (status[j] \notin Active \/ paused)
=============================================================================
