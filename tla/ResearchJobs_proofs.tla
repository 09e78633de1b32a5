------------------------- MODULE ResearchJobs_proofs -------------------------
(***************************************************************************)
(* The safety properties of ResearchJobs, for any number of jobs, ticks,   *)
(* candidates, interventions and faults.                                   *)
(***************************************************************************)
EXTENDS ResearchJobs, SequenceTheorems, FiniteSetTheorems, TLAPS

(* A tick that holds a lease works on that job, on a current copy of it. *)
LeaseOK == \A j \in Jobs : lease[j] \in Workers =>
  /\ at[lease[j]] = j
  /\ status[j] = "RUNNING" /\ ~ paused
  /\ attempts[j] < MaxAttempts
  /\ copy[lease[j]] = [cursor |-> cursor[j], trials |-> trials[j]]
  /\ ~ revoked[lease[j]]

(* Only a job with candidates left is tried, only one without is evaluated. *)
CopyOK == \A w \in Workers :
  /\ pc[w] = "idle" => ~ revoked[w]
  /\ pc[w] = "save" => copy[w].cursor < Versions
  /\ pc[w] \in {"reserve", "commit"} => copy[w].cursor = Versions

IInv == TypeOK /\ LeaseOK /\ CopyOK /\ TrialsFollowCursor

(***************************************************************************)
(* Types, leases, copies and trials                                        *)
(***************************************************************************)
LEMMA InitInv == Init => IInv
<1> SUFFICES ASSUME Init PROVE IInv
  OBVIOUS
<1> USE JobsAssumption DEF Init
<1>1. TypeOK
  <2>1. /\ NoCopy \in Copies /\ <<>> \in Seq(0..(Versions - 1))
        /\ <<>> \in Seq(Jobs) /\ <<>> \in Seq(Results)
    BY DEF NoCopy, Copies
  <2>2. cursor \in [Jobs -> 0..Versions] /\ attempts \in [Jobs -> 0..MaxAttempts]
    OBVIOUS
  <2>3. /\ status \in [Jobs -> Statuses] /\ lease \in [Jobs -> Workers \cup {None, Orphan}]
        /\ trials \in [Jobs -> Seq(0..(Versions - 1))]
    BY <2>1 DEF Statuses
  <2>4. /\ pc \in [Workers -> Steps] /\ at \in [Workers -> Jobs \cup {None}]
        /\ copy \in [Workers -> Copies] /\ untouched \in [Workers -> BOOLEAN]
        /\ revoked \in [Workers -> BOOLEAN]
        /\ \A w \in Workers : pc[w] = "idle" <=> at[w] = None
    BY <2>1 DEF Steps
  <2>5. paused \in BOOLEAN
    OBVIOUS
  <2>6. holdouts \in Seq(Jobs) /\ runs \in Seq(Results)
    BY <2>1
  <2>7. ops \in 0..MaxOps /\ faults \in 0..MaxFaults
    OBVIOUS
  <2> QED
    BY ONLY <2>2, <2>3, <2>4, <2>5, <2>6, <2>7 DEF TypeOK
<1>2. LeaseOK /\ CopyOK
  BY DEF LeaseOK, CopyOK
<1>3. TrialsFollowCursor
  <2>1. <<>> = [i \in 1..0 |-> i - 1]
    OBVIOUS
  <2> QED
    BY <2>1 DEF TrialsFollowCursor
<1> QED
  BY <1>1, <1>2, <1>3 DEF IInv

(* The statements of a tick that only move it, or end it, keep the shapes. *)
LEMMA MoveTyped ==
  ASSUME NEW w \in Workers, NEW s \in Steps \ {"idle"}, TypeOK, pc[w] # "idle", Goto(w, s)
  PROVE  /\ pc' \in [Workers -> Steps] /\ at' \in [Workers -> Jobs \cup {None}]
         /\ copy' \in [Workers -> Copies] /\ untouched' \in [Workers -> BOOLEAN]
         /\ revoked' \in [Workers -> BOOLEAN]
         /\ \A v \in Workers : pc'[v] = "idle" <=> at'[v] = None
  BY DEF Goto, TypeOK

LEMMA EndTyped ==
  ASSUME NEW w \in Workers, TypeOK, End(w)
  PROVE  /\ pc' \in [Workers -> Steps] /\ at' \in [Workers -> Jobs \cup {None}]
         /\ copy' \in [Workers -> Copies] /\ untouched' \in [Workers -> BOOLEAN]
         /\ revoked' \in [Workers -> BOOLEAN]
         /\ \A v \in Workers : pc'[v] = "idle" <=> at'[v] = None
<1>1. NoCopy \in Copies /\ "idle" \in Steps
  BY JobsAssumption DEF NoCopy, Copies, Steps
<1> QED
  BY <1>1 DEF End, TypeOK

LEMMA BoundsTyped ==
  ASSUME TypeOK, faults' = faults \/ Fault, ops' = ops \/ Intervene
  PROVE  ops' \in 0..MaxOps /\ faults' \in 0..MaxFaults
<1>1. faults' \in 0..MaxFaults
  BY JobsAssumption DEF TypeOK, Fault
<1>2. ops' \in 0..MaxOps
  BY JobsAssumption DEF TypeOK, Intervene
<1> QED
  BY <1>1, <1>2

(* The manager's operations. *)
LEMMA RevokeTyped ==
  ASSUME TypeOK, NEW S \in SUBSET Jobs, Revoke(S)
  PROVE  /\ lease' \in [Jobs -> Workers \cup {None, Orphan}]
         /\ revoked' \in [Workers -> BOOLEAN]
  BY DEF Revoke, TypeOK

LEMMA ManageInv == IInv /\ Manage => IInv'
<1> SUFFICES ASSUME IInv, Manage PROVE IInv'
  OBVIOUS
<1> USE JobsAssumption DEF IInv, job, tick, bounds
<1>1. ASSUME NEW j \in Jobs, Queue(j) PROVE IInv'
  <2>1. TypeOK'
    BY <1>1 DEF Queue, TypeOK, Statuses, Active
  <2>2. LeaseOK'
    BY <1>1 DEF Queue, LeaseOK, TypeOK
  <2>3. CopyOK' /\ TrialsFollowCursor'
    BY <1>1 DEF Queue, CopyOK, TrialsFollowCursor
  <2> QED
    BY <2>1, <2>2, <2>3
<1>2. ASSUME NEW j \in Jobs, NEW s \in Settable, SetJobStatus(j, s) PROVE IInv'
  <2>0. Revoke({j}) /\ status' = [status EXCEPT ![j] = s]
    BY <1>2 DEF SetJobStatus
  <2>1. TypeOK'
    <3>1. status' \in [Jobs -> Statuses]
      BY <2>0 DEF TypeOK, Statuses, Settable, Active
    <3> QED
      BY <1>2, <2>0, <3>1, RevokeTyped, BoundsTyped DEF SetJobStatus, TypeOK
  <2>2. LeaseOK'
    BY <1>2 DEF SetJobStatus, Revoke, LeaseOK, TypeOK
  <2>3. CopyOK' /\ TrialsFollowCursor'
    BY <1>2 DEF SetJobStatus, Revoke, LeaseOK, CopyOK, TrialsFollowCursor, TypeOK
  <2> QED
    BY <2>1, <2>2, <2>3
<1>3. CASE PauseAll
  <2>1. TypeOK'
    BY <1>3, RevokeTyped, BoundsTyped DEF PauseAll, TypeOK
  <2>2. LeaseOK'
    BY <1>3 DEF PauseAll, Revoke, LeaseOK
  <2>3. CopyOK' /\ TrialsFollowCursor'
    BY <1>3 DEF PauseAll, Revoke, LeaseOK, CopyOK, TrialsFollowCursor, TypeOK
  <2> QED
    BY <2>1, <2>2, <2>3
<1>4. CASE ResumeAll
  <2>1. TypeOK'
    BY <1>4, BoundsTyped DEF ResumeAll, TypeOK
  <2> QED
    BY <1>4, <2>1 DEF ResumeAll, LeaseOK, CopyOK, TrialsFollowCursor
<1> QED
  BY <1>1, <1>2, <1>3, <1>4 DEF Manage

(* The beginning of a tick. *)
LEMMA BeginInv == ASSUME IInv, NEW j \in Jobs, Begin(j) PROVE IInv'
<1> USE JobsAssumption DEF IInv, job, tick, bounds
<1>0. faults' = faults \/ Fault
  BY DEF Begin, Claim, ClaimUnanswered, GiveUp, Expired
<1>1. ASSUME NEW w \in Workers, Claim(w, j) PROVE IInv'
  <2>1. /\ status' = [status EXCEPT ![j] = "RUNNING"]
        /\ lease' = [lease EXCEPT ![j] = w]
        /\ pc' = [pc EXCEPT ![w] = "replay"]
        /\ at' = [at EXCEPT ![w] = j]
        /\ copy' = [copy EXCEPT ![w] = [cursor |-> cursor[j], trials |-> trials[j]]]
        /\ revoked' = [v \in Workers |-> revoked[v] \/ lease[j] = v]
        /\ UNCHANGED <<cursor, trials, attempts, paused, holdouts, runs, untouched, ops>>
        /\ pc[w] = "idle" /\ attempts[j] < MaxAttempts /\ ~ paused
    BY <1>1 DEF Claim
  <2>2. TypeOK'
    <3>1. [cursor |-> cursor[j], trials |-> trials[j]] \in Copies
      BY DEF TypeOK, Copies
    <3>2. /\ status' \in [Jobs -> Statuses]
          /\ pc' \in [Workers -> Steps]
          /\ lease' \in [Jobs -> Workers \cup {None, Orphan}]
      BY <2>1 DEF TypeOK, Statuses, Active, Steps
    <3>3. /\ at' \in [Workers -> Jobs \cup {None}]
          /\ copy' \in [Workers -> Copies]
          /\ revoked' \in [Workers -> BOOLEAN]
          /\ \A v \in Workers : pc'[v] = "idle" <=> at'[v] = None
      BY <2>1, <3>1 DEF TypeOK
    <3> QED
      BY <1>0, <2>1, <3>2, <3>3, BoundsTyped DEF TypeOK
  <2>3. LeaseOK'
    <3> SUFFICES ASSUME NEW i \in Jobs, lease'[i] \in Workers
                 PROVE  /\ at'[lease'[i]] = i
                        /\ status'[i] = "RUNNING" /\ ~ paused'
                        /\ attempts'[i] < MaxAttempts
                        /\ copy'[lease'[i]] = [cursor |-> cursor'[i], trials |-> trials'[i]]
                        /\ ~ revoked'[lease'[i]]
      BY DEF LeaseOK
    <3>1. CASE i = j
      <4>1. ~ revoked[w] /\ lease[j] # w
        <5>1. at[w] = None
          BY <2>1 DEF TypeOK
        <5>2. ASSUME lease[j] = w PROVE FALSE
          <6>1. at[w] = j
            BY <5>2 DEF LeaseOK
          <6> QED
            BY <5>1, <6>1
        <5>3. ~ revoked[w]
          BY <2>1 DEF CopyOK
        <5> QED
          BY <5>2, <5>3
      <4> QED
        BY <2>1, <3>1, <4>1 DEF TypeOK
    <3>2. CASE i # j
      <4>1. /\ lease'[i] = lease[i] /\ at[lease[i]] = i /\ lease[i] # w
            /\ lease[i] # lease[j]
        BY <2>1, <3>2 DEF LeaseOK, TypeOK
      <4> QED
        BY <2>1, <3>2, <4>1 DEF LeaseOK, TypeOK
    <3> QED
      BY <3>1, <3>2
  <2>4. CopyOK' /\ TrialsFollowCursor'
    BY <2>1 DEF CopyOK, TrialsFollowCursor, LeaseOK, TypeOK
  <2> QED
    BY <2>2, <2>3, <2>4
<1>2. ASSUME NEW w \in Workers, ClaimUnanswered(w, j) PROVE IInv'
  <2>1. TypeOK'
    BY <1>0, <1>2, BoundsTyped DEF ClaimUnanswered, TypeOK, Statuses, Active
  <2>2. LeaseOK'
    BY <1>2 DEF ClaimUnanswered, LeaseOK, TypeOK
  <2>3. CopyOK' /\ TrialsFollowCursor'
    BY <1>2 DEF ClaimUnanswered, CopyOK, TrialsFollowCursor
  <2> QED
    BY <2>1, <2>2, <2>3
<1>3. ASSUME NEW w \in Workers, GiveUp(w, j) PROVE IInv'
  <2>1. TypeOK'
    BY <1>0, <1>3, BoundsTyped DEF GiveUp, TypeOK, Statuses, Active
  <2>2. LeaseOK'
    BY <1>3 DEF GiveUp, LeaseOK, TypeOK
  <2>3. CopyOK' /\ TrialsFollowCursor'
    BY <1>3 DEF GiveUp, CopyOK, TrialsFollowCursor
  <2> QED
    BY <2>1, <2>2, <2>3
<1> QED
  BY <1>1, <1>2, <1>3 DEF Begin

(* A tick that ends without a lease, or gives it back, leaves the other leases. *)
LEMMA EndKeeps ==
  ASSUME IInv, NEW w \in Workers, End(w)
  PROVE  /\ CopyOK'
         /\ \A j \in Jobs : lease[j] \in Workers \ {w} =>
              /\ at'[lease[j]] = j
              /\ copy'[lease[j]] = [cursor |-> cursor[j], trials |-> trials[j]]
              /\ ~ revoked'[lease[j]]
<1>1. CopyOK'
  BY DEF IInv, TypeOK, CopyOK, End
<1> QED
  BY <1>1 DEF IInv, TypeOK, LeaseOK, End

LEMMA MoveKeeps ==
  ASSUME IInv, NEW w \in Workers, pc[w] # "idle",
         NEW s \in {"save", "reserve", "commit", "release", "block"}, Goto(w, s),
         s = "save" => copy[w].cursor < Versions,
         s \in {"reserve", "commit"} => copy[w].cursor = Versions
  PROVE  CopyOK'
  BY DEF IInv, TypeOK, CopyOK, Goto

LEMMA LeasesKept ==
  ASSUME IInv, NEW w \in Workers, UNCHANGED paused,
         End(w) \/ UNCHANGED <<at, copy, revoked>>,
         \A i \in Jobs : lease'[i] \in Workers =>
           /\ lease'[i] = lease[i] /\ (End(w) => lease[i] # w)
           /\ status'[i] = status[i] /\ attempts'[i] = attempts[i]
           /\ cursor'[i] = cursor[i] /\ trials'[i] = trials[i]
  PROVE  LeaseOK'
<1> SUFFICES ASSUME NEW i \in Jobs, lease'[i] \in Workers
             PROVE  /\ at'[lease'[i]] = i
                    /\ status'[i] = "RUNNING" /\ ~ paused'
                    /\ attempts'[i] < MaxAttempts
                    /\ copy'[lease'[i]] = [cursor |-> cursor'[i], trials |-> trials'[i]]
                    /\ ~ revoked'[lease'[i]]
  BY DEF LeaseOK
<1>1. /\ at'[lease[i]] = i /\ ~ revoked'[lease[i]]
      /\ copy'[lease[i]] = [cursor |-> cursor[i], trials |-> trials[i]]
  <2>1. CASE End(w)
    BY <2>1, EndKeeps
  <2>2. CASE UNCHANGED <<at, copy, revoked>>
    BY <2>2 DEF IInv, LeaseOK
  <2> QED
    BY <2>1, <2>2
<1> QED
  BY <1>1 DEF IInv, LeaseOK

LEMMA HeldBy ==
  ASSUME IInv, NEW w \in Workers, pc[w] \in {"save", "reserve", "commit"}, HoldsLease(w)
  PROVE  /\ at[w] \in Jobs /\ lease[at[w]] = w
         /\ copy[w] = [cursor |-> cursor[at[w]], trials |-> trials[at[w]]]
         /\ attempts[at[w]] < MaxAttempts
         /\ status[at[w]] = "RUNNING"
<1>1. at[w] \in Jobs
  BY DEF IInv, TypeOK
<1> QED
  BY <1>1 DEF IInv, LeaseOK, HoldsLease

LEMMA NextCandidate ==
  ASSUME NEW S, NEW n \in Nat, n \in S, NEW s \in Seq(S), s = [i \in 1..n |-> i - 1]
  PROVE  Append(s, n) = [i \in 1..(n + 1) |-> i - 1]
<1> DEFINE t == Append(s, n)
<1>1. Len(s) \in Nat /\ DOMAIN s = 1..Len(s) /\ DOMAIN s = 1..n
  BY LenProperties
<1>2. Len(s) = n
  BY <1>1
<1>3. /\ t \in Seq(S) /\ Len(t) = n + 1 /\ t[n + 1] = n
      /\ \A i \in 1..n : t[i] = s[i]
  BY <1>2, AppendProperties
<1> HIDE DEF t
<1>4. t = [i \in 1..(n + 1) |-> t[i]]
  BY <1>3, LenProperties
<1>5. \A i \in 1..(n + 1) : t[i] = i - 1
  BY <1>3
<1> QED
  BY <1>4, <1>5 DEF t

LEMMA SaveTrialInv == ASSUME IInv, NEW w \in Workers, SaveTrial(w) PROVE IInv'
<1> DEFINE j == at[w]
<1> DEFINE c == cursor[j]
<1>1. /\ j \in Jobs /\ lease[j] = w /\ pc[w] = "save"
      /\ copy[w].cursor = c /\ c \in Nat /\ c < Versions /\ c + 1 \in 0..Versions
  BY HeldBy, JobsAssumption DEF SaveTrial, IInv, CopyOK, TypeOK
<1>2. trials[j] = [i \in 1..c |-> i - 1] /\ ~ Has(trials[j], c)
  <2>1. trials[j] = [i \in 1..c |-> i - 1]
    BY <1>1 DEF IInv, TrialsFollowCursor
  <2>2. \A i \in DOMAIN trials[j] : i \in 1..c /\ trials[j][i] = i - 1
    BY <2>1
  <2> QED
    BY <1>1, <2>1, <2>2 DEF Has
<1>3. /\ trials' = [trials EXCEPT ![j] = Append(@, c)]
      /\ cursor' = [cursor EXCEPT ![j] = @ + 1]
      /\ lease' = [lease EXCEPT ![j] = None]
      /\ attempts' = [attempts EXCEPT ![j] = 0]
      /\ UNCHANGED <<status, paused, holdouts, runs, ops>>
      /\ (faults' = faults \/ Fault)
      /\ End(w) \/ Goto(w, "release")
  BY <1>1, <1>2 DEF SaveTrial, Finish
<1>4. Append(trials[j], c) = [i \in 1..(c + 1) |-> i - 1]
  <2>1. c \in 0..(Versions - 1) /\ trials[j] \in Seq(0..(Versions - 1))
    BY <1>1, JobsAssumption DEF IInv, TypeOK
  <2> QED
    BY <1>1, <1>2, <2>1, NextCandidate
<1> HIDE DEF j, c
<1>5. TypeOK'
  <2>1. Append(trials[j], c) \in Seq(0..(Versions - 1))
    <3>1. c \in 0..(Versions - 1) /\ trials[j] \in Seq(0..(Versions - 1))
      BY <1>1, JobsAssumption DEF IInv, TypeOK
    <3> QED
      BY <3>1
  <2>2. /\ trials' \in [Jobs -> Seq(0..(Versions - 1))]
        /\ cursor' \in [Jobs -> 0..Versions]
    BY <1>1, <1>3, <2>1 DEF IInv, TypeOK, c
  <2>3. /\ lease' \in [Jobs -> Workers \cup {None, Orphan}]
        /\ attempts' \in [Jobs -> 0..MaxAttempts]
    BY <1>1, <1>3, JobsAssumption DEF IInv, TypeOK
  <2>4. ops' \in 0..MaxOps /\ faults' \in 0..MaxFaults
    BY <1>3, BoundsTyped DEF IInv
  <2>5. /\ pc' \in [Workers -> Steps] /\ at' \in [Workers -> Jobs \cup {None}]
        /\ copy' \in [Workers -> Copies] /\ untouched' \in [Workers -> BOOLEAN]
        /\ revoked' \in [Workers -> BOOLEAN]
        /\ \A v \in Workers : pc'[v] = "idle" <=> at'[v] = None
    BY <1>1, <1>3, EndTyped, MoveTyped DEF IInv, Steps
  <2> QED
    BY <1>3, <2>2, <2>3, <2>4, <2>5 DEF IInv, TypeOK
<1>6. CopyOK'
  BY <1>1, <1>3, EndKeeps, MoveKeeps
<1>7. LeaseOK'
  <2>1. UNCHANGED paused /\ (End(w) \/ UNCHANGED <<at, copy, revoked>>)
    BY <1>3 DEF Goto
  <2>2. ASSUME NEW i \in Jobs, lease'[i] \in Workers
        PROVE  /\ lease'[i] = lease[i] /\ lease[i] # w
               /\ status'[i] = status[i] /\ attempts'[i] = attempts[i]
               /\ cursor'[i] = cursor[i] /\ trials'[i] = trials[i]
    <3>1. i # j /\ lease'[i] = lease[i] /\ lease[i] # w
      BY <1>1, <1>3, <2>2, JobsAssumption DEF IInv, TypeOK, LeaseOK, j
    <3> QED
      BY <1>3, <3>1 DEF IInv, TypeOK
  <2> QED
    BY <2>1, <2>2, LeasesKept
<1>8. TrialsFollowCursor'
  BY <1>1, <1>3, <1>4 DEF IInv, TypeOK, TrialsFollowCursor, c
<1> QED
  BY <1>5, <1>6, <1>7, <1>8 DEF IInv

(* The steps of a tick that leave the jobs as they are. *)
LEMMA ReplayInv == ASSUME IInv, NEW w \in Workers, Replay(w) PROVE IInv'
<1>1. PICK s \in {"save", "reserve", "release", "block"} :
        /\ Goto(w, s)
        /\ s = "save" => copy[w].cursor < Versions
        /\ s = "reserve" => copy[w].cursor = Versions
  <2>1. copy[w].cursor < Versions \/ copy[w].cursor = Versions
    BY JobsAssumption DEF IInv, TypeOK, Copies
  <2> QED
    BY <2>1, JobsAssumption DEF Replay
<1>2. UNCHANGED <<job, paused, holdouts, runs, bounds>> /\ pc[w] # "idle"
  BY DEF Replay
<1>3. TypeOK'
  BY <1>1, <1>2, MoveTyped DEF IInv, TypeOK, Steps, job, bounds
<1>4. CopyOK'
  BY <1>1, <1>2, MoveKeeps
<1>5. LeaseOK'
  <2>1. UNCHANGED <<status, cursor, trials, attempts, lease, paused, at, copy, revoked>>
    BY <1>1, <1>2 DEF Goto, job
  <2> QED
    BY <2>1 DEF IInv, LeaseOK
<1> QED
  BY <1>2, <1>3, <1>4, <1>5 DEF IInv, TrialsFollowCursor, job

LEMMA ThrowInv == ASSUME IInv, NEW w \in Workers, Throw(w) PROVE IInv'
<1>1. /\ Goto(w, "release") /\ pc[w] # "idle" /\ (faults' = faults \/ Fault)
      /\ UNCHANGED <<status, cursor, trials, attempts, lease, paused, holdouts, runs, ops>>
      /\ UNCHANGED <<at, copy, revoked>>
  BY DEF Throw, Goto, job
<1>2. TypeOK'
  <2>1. /\ pc' \in [Workers -> Steps] /\ at' \in [Workers -> Jobs \cup {None}]
        /\ copy' \in [Workers -> Copies] /\ untouched' \in [Workers -> BOOLEAN]
        /\ revoked' \in [Workers -> BOOLEAN]
        /\ \A v \in Workers : pc'[v] = "idle" <=> at'[v] = None
    BY <1>1, MoveTyped DEF IInv, Steps
  <2>2. ops' \in 0..MaxOps /\ faults' \in 0..MaxFaults
    BY <1>1, BoundsTyped DEF IInv
  <2> QED
    BY <1>1, <2>1, <2>2 DEF IInv, TypeOK
<1>3. CopyOK'
  BY <1>1, MoveKeeps
<1>4. LeaseOK' /\ TrialsFollowCursor'
  BY <1>1 DEF IInv, LeaseOK, TrialsFollowCursor
<1> QED
  BY <1>2, <1>3, <1>4 DEF IInv

LEMMA SupersededInv == ASSUME IInv, NEW w \in Workers, Superseded(w) PROVE IInv'
<1>1. End(w) /\ UNCHANGED <<job, paused, holdouts, runs, bounds>>
  BY DEF Superseded
<1>2. TypeOK'
  BY <1>1, EndTyped DEF IInv, TypeOK, job, bounds
<1>3. ASSUME NEW i \in Jobs, lease[i] = w PROVE FALSE
  <2>1. at[w] = i /\ status[i] = "RUNNING" /\ ~ paused
    BY <1>3 DEF IInv, LeaseOK
  <2> QED
    BY <1>3, <2>1 DEF Superseded, HoldsLease
<1>4. CopyOK' /\ LeaseOK'
  BY <1>1, <1>3, EndKeeps, LeasesKept DEF job
<1> QED
  BY <1>1, <1>2, <1>4 DEF IInv, TrialsFollowCursor, job

LEMMA ReserveInv == ASSUME IInv, NEW w \in Workers, Reserve(w) PROVE IInv'
<1>1. /\ at[w] \in Jobs /\ pc[w] = "reserve" /\ copy[w].cursor = Versions
      /\ holdouts' = Append(holdouts, at[w])
      /\ UNCHANGED <<job, at, copy, revoked, paused, runs, ops>>
      /\ (faults' = faults \/ Fault)
  BY HeldBy DEF Reserve, Goto, IInv, CopyOK
<1>2. PICK s \in {"commit", "release"}, b \in BOOLEAN :
        /\ pc' = [pc EXCEPT ![w] = s]
        /\ untouched' = [untouched EXCEPT ![w] = b]
  <2>1. untouched = [untouched EXCEPT ![w] = untouched[w]] /\ untouched[w] \in BOOLEAN
    BY DEF IInv, TypeOK
  <2> QED
    BY <2>1 DEF Reserve, Goto
<1>3. TypeOK'
  <2>1. holdouts' \in Seq(Jobs)
    BY <1>1 DEF IInv, TypeOK
  <2>2. /\ pc' \in [Workers -> Steps] /\ untouched' \in [Workers -> BOOLEAN]
        /\ \A v \in Workers : pc'[v] = "idle" <=> at[v] = None
    BY <1>1, <1>2 DEF IInv, TypeOK, Steps
  <2> QED
    BY <1>1, <2>1, <2>2, BoundsTyped DEF IInv, TypeOK, job
<1>4. CopyOK'
  BY <1>1, <1>2 DEF IInv, TypeOK, CopyOK
<1>5. LeaseOK'
  BY <1>1 DEF IInv, LeaseOK, job
<1> QED
  BY <1>1, <1>3, <1>4, <1>5 DEF IInv, TrialsFollowCursor, job

(* The steps that give the lease back. *)
LEMMA CommitInv == ASSUME IInv, NEW w \in Workers, Commit(w) PROVE IInv'
<1> DEFINE j == at[w]
<1>1. j \in Jobs /\ lease[j] = w /\ pc[w] = "commit"
  BY HeldBy DEF Commit
<1>2. /\ status' = [status EXCEPT ![j] = "COMPLETED"]
      /\ lease' = [lease EXCEPT ![j] = None]
      /\ UNCHANGED <<cursor, trials, attempts, paused, holdouts, ops>>
      /\ (faults' = faults \/ Fault)
      /\ End(w) \/ Goto(w, "release")
  BY DEF Commit, Finish
<1>3. runs' \in Seq(Results)
  <2>1. [job |-> j, trials |-> copy[w].trials, untouched |-> untouched[w]] \in Results
    BY <1>1 DEF IInv, TypeOK, Copies, Results
  <2>2. runs \in Seq(Results)
    BY DEF IInv, TypeOK
  <2> QED
    BY <2>1, <2>2 DEF Commit
<1>4. TypeOK'
  <2>1. /\ status' \in [Jobs -> Statuses]
        /\ lease' \in [Jobs -> Workers \cup {None, Orphan}]
    BY <1>1, <1>2 DEF IInv, TypeOK, Statuses
  <2>2. /\ pc' \in [Workers -> Steps] /\ at' \in [Workers -> Jobs \cup {None}]
        /\ copy' \in [Workers -> Copies] /\ untouched' \in [Workers -> BOOLEAN]
        /\ revoked' \in [Workers -> BOOLEAN]
        /\ \A v \in Workers : pc'[v] = "idle" <=> at'[v] = None
    BY <1>1, <1>2, EndTyped, MoveTyped DEF IInv, Steps
  <2> QED
    BY <1>2, <1>3, <2>1, <2>2, BoundsTyped DEF IInv, TypeOK
<1>5. CopyOK'
  BY <1>1, <1>2, EndKeeps, MoveKeeps
<1>6. LeaseOK'
  <2>1. UNCHANGED paused /\ (End(w) \/ UNCHANGED <<at, copy, revoked>>)
    BY <1>2 DEF Goto
  <2>2. ASSUME NEW i \in Jobs, lease'[i] \in Workers
        PROVE  lease'[i] = lease[i] /\ lease[i] # w /\ status'[i] = status[i]
    BY <1>1, <1>2, <2>2, JobsAssumption DEF IInv, TypeOK, LeaseOK
  <2> QED
    BY <1>2, <2>1, <2>2, LeasesKept
<1> QED
  BY <1>2, <1>4, <1>5, <1>6 DEF IInv, TrialsFollowCursor

LEMMA ReleaseInv == ASSUME IInv, NEW w \in Workers, Release(w) PROVE IInv'
<1> DEFINE j == at[w]
<1>1. /\ j \in Jobs /\ End(w) /\ (faults' = faults \/ Fault)
      /\ UNCHANGED <<cursor, trials, paused, holdouts, runs, ops>>
  BY DEF Release, IInv, TypeOK
<1>2. /\ \A i \in Jobs : lease'[i] \in Workers =>
           lease'[i] = lease[i] /\ lease[i] # w
             /\ status'[i] = status[i] /\ attempts'[i] = attempts[i]
      /\ status' \in [Jobs -> Statuses]
      /\ lease' \in [Jobs -> Workers \cup {None, Orphan}]
      /\ attempts' \in [Jobs -> 0..MaxAttempts]
  <2>1. \A i \in Jobs : lease[i] = w => i = j
    BY DEF IInv, LeaseOK
  <2>2. CASE lease[j] = w
    <3>1. attempts[j] \in Nat /\ attempts[j] + 1 \in 0..MaxAttempts
      <4>1. attempts[j] \in 0..MaxAttempts
        BY <1>1 DEF IInv, TypeOK
      <4>2. attempts[j] < MaxAttempts
        BY <1>1, <2>2 DEF IInv, LeaseOK
      <4> QED
        BY <4>1, <4>2, JobsAssumption
    <3>2. AfterFailure(w) \in Statuses
      BY DEF AfterFailure, Statuses, Active
    <3>3. CASE /\ lease' = [lease EXCEPT ![j] = None]
               /\ attempts' = [attempts EXCEPT ![j] = @ + 1]
               /\ status' = [status EXCEPT ![j] = AfterFailure(w)]
      BY <1>1, <2>1, <3>1, <3>2, <3>3, JobsAssumption DEF IInv, TypeOK
    <3>4. CASE lease' = [lease EXCEPT ![j] = Orphan] /\ UNCHANGED <<attempts, status>>
      BY <1>1, <2>1, <3>4, JobsAssumption DEF IInv, TypeOK
    <3> QED
      BY <2>2, <3>3, <3>4 DEF Release
  <2>3. CASE lease[j] # w
    <3>1. UNCHANGED <<lease, attempts, status>>
      BY <2>3 DEF Release
    <3> QED
      BY <2>1, <2>3, <3>1 DEF IInv, TypeOK
  <2> QED
    BY <2>2, <2>3
<1>3. TypeOK'
  <2>1. /\ pc' \in [Workers -> Steps] /\ at' \in [Workers -> Jobs \cup {None}]
        /\ copy' \in [Workers -> Copies] /\ untouched' \in [Workers -> BOOLEAN]
        /\ revoked' \in [Workers -> BOOLEAN]
        /\ \A v \in Workers : pc'[v] = "idle" <=> at'[v] = None
    BY <1>1, EndTyped DEF IInv
  <2>2. ops' \in 0..MaxOps /\ faults' \in 0..MaxFaults
    BY <1>1, BoundsTyped DEF IInv
  <2> QED
    BY <1>1, <1>2, <2>1, <2>2 DEF IInv, TypeOK
<1>4. CopyOK'
  BY <1>1, EndKeeps
<1>5. LeaseOK'
  <2>1. \A i \in Jobs : cursor'[i] = cursor[i] /\ trials'[i] = trials[i]
    BY <1>1
  <2> QED
    BY <1>1, <1>2, <2>1, LeasesKept
<1> QED
  BY <1>1, <1>3, <1>4, <1>5 DEF IInv, TrialsFollowCursor

LEMMA CrashInv == ASSUME IInv, NEW w \in Workers, Crash(w) PROVE IInv'
<1>1. /\ End(w) /\ Fault
      /\ lease' = [i \in Jobs |-> IF lease[i] = w THEN Orphan ELSE lease[i]]
      /\ UNCHANGED <<status, cursor, trials, attempts, paused, holdouts, runs, ops>>
  BY DEF Crash
<1>2. TypeOK'
  <2>1. lease' \in [Jobs -> Workers \cup {None, Orphan}]
    BY <1>1 DEF IInv, TypeOK
  <2> QED
    BY <1>1, <2>1, EndTyped, BoundsTyped DEF IInv, TypeOK
<1>3. \A i \in Jobs : lease'[i] \in Workers => lease'[i] = lease[i] /\ lease[i] # w
  BY <1>1, JobsAssumption
<1>4. CopyOK' /\ LeaseOK'
  BY <1>1, <1>3, EndKeeps, LeasesKept
<1> QED
  BY <1>1, <1>2, <1>4 DEF IInv, TrialsFollowCursor

LEMMA StutterInv == IInv /\ UNCHANGED vars => IInv'
  BY DEF IInv, TypeOK, LeaseOK, CopyOK, TrialsFollowCursor, vars, job, tick, bounds

LEMMA StepInv == IInv /\ [Next]_vars => IInv'
  BY ManageInv, BeginInv, ReplayInv, SupersededInv, SaveTrialInv, ReserveInv, CommitInv,
     ThrowInv, ReleaseInv, CrashInv, StutterInv DEF Next, TickStep

LEMMA Invariant == Spec => []IInv
  BY InitInv, StepInv, PTL DEF Spec

(* The shape of every variable, for every instance. *)
THEOREM TypeCorrect == Spec => []TypeOK
<1>1. IInv => TypeOK
  BY DEF IInv
<1> QED
  BY <1>1, Invariant, PTL

(* Each candidate is tried once and in order, whatever overtakes or crashes. *)
THEOREM TriedOnce == Spec => []TrialsFollowCursor
<1>1. IInv => TrialsFollowCursor
  BY DEF IInv
<1> QED
  BY <1>1, Invariant, PTL

(***************************************************************************)
(* Reservations and runs                                                   *)
(***************************************************************************)
(* The k-th of the reservations h is j's and the first use of j's range; it is    *)
(* alone when j has made no other.                                                *)
FirstUse(h, j, k) ==
  /\ k \in 1..Len(h) /\ h[k] = j
  /\ \A m \in 1..Len(h) : m # k /\ Overlap(h[m], j) => m > k
Alone(h, j, k) == FirstUse(h, j, k) /\ \A m \in 1..Len(h) : m # k => h[m] # j

(* An evaluation that found the range untouched made its first use, and no other *)
(* tick can have reserved it for the job while this one holds the lease.         *)
ReservedOK == \A w \in Workers : pc[w] = "commit" /\ untouched[w] =>
  \E k \in 1..Len(holdouts) :
      /\ FirstUse(holdouts, at[w], k)
      /\ lease[at[w]] = w => Alone(holdouts, at[w], k)

(* A run is complete, belongs to a completed job, and is the only one of it. *)
RunsOK == \A i \in 1..Len(runs) :
  /\ status[runs[i].job] = "COMPLETED" /\ Len(runs[i].trials) = Versions
  /\ runs[i].untouched => \E k \in 1..Len(holdouts) : Alone(holdouts, runs[i].job, k)
  /\ \A m \in 1..Len(runs) : runs[m].job = runs[i].job => m = i

CompletedOK == \A j \in Jobs :
  status[j] = "COMPLETED" => \E i \in 1..Len(runs) : runs[i].job = j

HInv == IInv /\ ReservedOK /\ RunsOK /\ CompletedOK

LEMMA InitHInv == Init => HInv
<1> SUFFICES ASSUME Init PROVE HInv
  OBVIOUS
<1>1. ReservedOK /\ RunsOK /\ CompletedOK
  BY DEF Init, ReservedOK, RunsOK, CompletedOK
<1> QED
  BY <1>1, InitInv DEF HInv

LEMMA RunTyped ==
  ASSUME IInv, NEW i \in 1..Len(runs)
  PROVE  runs[i] \in Results /\ runs[i].job \in Jobs
<1>1. runs \in Seq(Results)
  BY DEF IInv, TypeOK
<1>2. runs[i] \in Results
  BY <1>1, ElementOfSeq
<1> QED
  BY <1>2 DEF Results

(* Steps that neither reserve nor complete. *)
LEMMA QuietStep ==
  ASSUME HInv, UNCHANGED <<holdouts, runs>>,
         \A j \in Jobs : status'[j] = "COMPLETED" <=> status[j] = "COMPLETED",
         \A w \in Workers : pc'[w] = "commit" =>
           /\ pc[w] = "commit" /\ untouched'[w] = untouched[w] /\ at'[w] = at[w]
           /\ lease'[at[w]] = w => lease[at[w]] = w
  PROVE  ReservedOK' /\ RunsOK' /\ CompletedOK'
<1>1. ReservedOK'
  BY DEF HInv, ReservedOK
<1>2. \A i \in 1..Len(runs) : runs[i].job \in Jobs
  BY RunTyped DEF HInv
<1>3. RunsOK'
  BY <1>2 DEF HInv, RunsOK
<1>4. CompletedOK'
  BY DEF HInv, CompletedOK
<1> QED
  BY <1>1, <1>3, <1>4

LEMMA ManageQuiet == HInv /\ Manage => ReservedOK' /\ RunsOK' /\ CompletedOK'
<1> SUFFICES ASSUME HInv, Manage PROVE ReservedOK' /\ RunsOK' /\ CompletedOK'
  OBVIOUS
<1> DEFINE Calm ==
      /\ UNCHANGED <<holdouts, runs, pc, untouched, at>>
      /\ \A j \in Jobs : status'[j] = "COMPLETED" <=> status[j] = "COMPLETED"
      /\ \A j \in Jobs : lease'[j] \in {lease[j], None}
<1>1. ASSUME NEW j \in Jobs, Queue(j) PROVE Calm
  BY <1>1 DEF Queue, tick, HInv, IInv, TypeOK
<1>2. ASSUME NEW j \in Jobs, NEW s \in Settable, SetJobStatus(j, s) PROVE Calm
  BY <1>2 DEF SetJobStatus, Revoke, HInv, IInv, TypeOK, Settable, Final
<1>3. ASSUME PauseAll PROVE Calm
  BY <1>3 DEF PauseAll, Revoke
<1>4. ASSUME ResumeAll PROVE Calm
  BY <1>4 DEF ResumeAll, job, tick
<1> HIDE DEF Calm
<1>5. Calm
  BY <1>1, <1>2, <1>3, <1>4 DEF Manage
<1>6. \A w \in Workers : pc[w] = "commit" => at[w] \in Jobs /\ w # None
  BY JobsAssumption DEF HInv, IInv, TypeOK
<1>7. \A w \in Workers : pc'[w] = "commit" =>
           /\ pc[w] = "commit" /\ untouched'[w] = untouched[w] /\ at'[w] = at[w]
           /\ lease'[at[w]] = w => lease[at[w]] = w
  BY <1>5, <1>6 DEF Calm
<1> QED
  BY <1>5, <1>7, QuietStep DEF Calm

LEMMA BeginQuiet ==
  ASSUME HInv, NEW j \in Jobs, Begin(j) PROVE ReservedOK' /\ RunsOK' /\ CompletedOK'
<1>1. PICK w \in Workers : Claim(w, j) \/ ClaimUnanswered(w, j) \/ GiveUp(w, j)
  BY DEF Begin
<1>2. UNCHANGED <<holdouts, runs, untouched>> /\ pc[w] = "idle"
  BY <1>1 DEF Claim, ClaimUnanswered, GiveUp, tick
<1>3. \A i \in Jobs : status'[i] = "COMPLETED" <=> status[i] = "COMPLETED"
  BY <1>1 DEF Claim, ClaimUnanswered, GiveUp, Active, HInv, IInv, TypeOK
<1>4. \A i \in Jobs : lease'[i] \in {lease[i], Orphan, w}
  BY <1>1 DEF Claim, ClaimUnanswered, GiveUp, HInv, IInv, TypeOK
<1>5. \A v \in Workers : pc'[v] = "commit" => v # w /\ pc[v] = "commit" /\ at'[v] = at[v]
  BY <1>1, <1>2 DEF Claim, ClaimUnanswered, GiveUp, tick, HInv, IInv, TypeOK
<1>6. \A v \in Workers : pc[v] = "commit" => at[v] \in Jobs /\ v # Orphan
  BY JobsAssumption DEF HInv, IInv, TypeOK
<1>7. \A v \in Workers : pc'[v] = "commit" =>
           /\ pc[v] = "commit" /\ untouched'[v] = untouched[v] /\ at'[v] = at[v]
           /\ lease'[at[v]] = v => lease[at[v]] = v
  BY <1>2, <1>4, <1>5, <1>6
<1> QED
  BY <1>2, <1>3, <1>7, QuietStep

(* A step of w that only moves or ends it. *)
LEMMA TickQuiet ==
  ASSUME HInv, NEW w \in Workers, UNCHANGED <<holdouts, runs>>,
         \A j \in Jobs : status'[j] = "COMPLETED" <=> status[j] = "COMPLETED",
         \A j \in Jobs : lease'[j] \in {lease[j], None, Orphan},
         End(w) \/ \E s \in Steps \ {"commit"} : Goto(w, s)
  PROVE  ReservedOK' /\ RunsOK' /\ CompletedOK'
<1>1. \A v \in Workers : pc'[v] = "commit" =>
        pc[v] = "commit" /\ untouched'[v] = untouched[v] /\ at'[v] = at[v]
  BY DEF End, Goto, HInv, IInv, TypeOK
<1>2. \A v \in Workers : pc[v] = "commit" => at[v] \in Jobs /\ v # Orphan /\ v # None
  BY JobsAssumption DEF HInv, IInv, TypeOK
<1>3. \A v \in Workers : pc'[v] = "commit" =>
           /\ pc[v] = "commit" /\ untouched'[v] = untouched[v] /\ at'[v] = at[v]
           /\ lease'[at[v]] = v => lease[at[v]] = v
  BY <1>1, <1>2
<1> QED
  BY <1>3, QuietStep

LEMMA StepQuiet ==
  ASSUME HInv, NEW w \in Workers,
         Replay(w) \/ Superseded(w) \/ SaveTrial(w) \/ Throw(w) \/ Release(w) \/ Crash(w)
  PROVE  ReservedOK' /\ RunsOK' /\ CompletedOK'
<1> USE DEF job
<1>1. CASE Replay(w)
  <2>1. copy[w].cursor \in 0..Versions
    BY DEF HInv, IInv, TypeOK, Copies
  <2>2. \E s \in Steps \ {"commit"} : Goto(w, s)
    BY <1>1 DEF Replay, Steps
  <2> QED
    BY <1>1, <2>2, TickQuiet DEF Replay
<1>2. CASE Superseded(w)
  BY <1>2, TickQuiet DEF Superseded
<1>3. CASE SaveTrial(w)
  <2>1. \A i \in Jobs : lease'[i] \in {lease[i], None, Orphan}
    BY <1>3 DEF SaveTrial, HInv, IInv, TypeOK
  <2>2. End(w) \/ \E s \in Steps \ {"commit"} : Goto(w, s)
    BY <1>3 DEF SaveTrial, Finish, Steps
  <2> QED
    BY <1>3, <2>1, <2>2, TickQuiet DEF SaveTrial
<1>4. CASE Throw(w)
  <2>1. \E s \in Steps \ {"commit"} : Goto(w, s)
    BY <1>4 DEF Throw, Steps
  <2> QED
    BY <1>4, <2>1, TickQuiet DEF Throw
<1>5. CASE Release(w)
  <2>1. /\ End(w) /\ at[w] \in Jobs
        /\ UNCHANGED <<holdouts, runs>>
        /\ \A i \in Jobs : lease'[i] \in {lease[i], None, Orphan}
    BY <1>5 DEF Release, HInv, IInv, TypeOK
  <2>2. \A i \in Jobs : status'[i] = "COMPLETED" <=> status[i] = "COMPLETED"
    <3>1. CASE status' = status
      BY <3>1
    <3>2. CASE lease[at[w]] = w /\ status' = [status EXCEPT ![at[w]] = AfterFailure(w)]
      <4>1. status[at[w]] = "RUNNING" /\ AfterFailure(w) # "COMPLETED"
        BY <2>1, <3>2 DEF HInv, IInv, LeaseOK, AfterFailure
      <4> QED
        BY <2>1, <3>2, <4>1 DEF HInv, IInv, TypeOK
    <3> QED
      BY <1>5, <3>1, <3>2 DEF Release
  <2> QED
    BY <2>1, <2>2, TickQuiet
<1>6. CASE Crash(w)
  BY <1>6, TickQuiet DEF Crash
<1> QED
  BY <1>1, <1>2, <1>3, <1>4, <1>5, <1>6

(* The reservation of a range that nobody has used is its first use, and the only *)
(* one by its job; earlier first uses stay first.                                 *)
LEMMA ReserveQuiet ==
  ASSUME HInv, NEW w \in Workers, Reserve(w) PROVE ReservedOK' /\ RunsOK' /\ CompletedOK'
<1> DEFINE j == at[w]
<1> DEFINE n == Len(holdouts)
<1>1. /\ j \in Jobs /\ lease[j] = w /\ status[j] = "RUNNING" /\ w # None
      /\ UNCHANGED <<status, lease, at, runs>>
  BY HeldBy, JobsAssumption DEF Reserve, Goto, job, HInv, IInv
<1>2. /\ n \in Nat /\ holdouts \in Seq(Jobs) /\ DOMAIN holdouts = 1..n
      /\ Len(holdouts') = n + 1 /\ holdouts'[n + 1] = j
      /\ \A m \in 1..n : holdouts'[m] = holdouts[m]
  <2>1. holdouts \in Seq(Jobs) /\ holdouts' = Append(holdouts, j)
    BY DEF HInv, IInv, TypeOK, Reserve
  <2> QED
    BY <1>1, <2>1, AppendProperties, LenProperties
<1> HIDE DEF j, n
<1>3. ASSUME NEW i, NEW k \in 1..n, FirstUse(holdouts, i, k) PROVE FirstUse(holdouts', i, k)
  <2>1. k \in 1..(n + 1) /\ holdouts[k] = i
    BY <1>2, <1>3 DEF FirstUse, n
  <2>2. \A m \in 1..n : m # k /\ Overlap(holdouts[m], i) => m > k
    BY <1>3 DEF FirstUse, n
  <2>3. \A m \in 1..(n + 1) : m \in 1..n \/ (m = n + 1 /\ m > k)
    BY <1>2
  <2> QED
    BY <1>2, <2>1, <2>2, <2>3 DEF FirstUse
<1>4. ASSUME NEW i, NEW k \in 1..n, Alone(holdouts, i, k), i # j
      PROVE  Alone(holdouts', i, k)
  <2>1. FirstUse(holdouts', i, k)
    BY <1>3, <1>4 DEF Alone
  <2>2. \A m \in 1..n : m # k => holdouts'[m] # i
    BY <1>2, <1>4 DEF Alone, n
  <2>3. \A m \in 1..(n + 1) : m \in 1..n \/ m = n + 1
    BY <1>2
  <2> QED
    BY <1>2, <1>4, <2>1, <2>2, <2>3 DEF Alone
<1>5. 1..n \subseteq 1..(n + 1) /\ n + 1 \in 1..(n + 1)
  BY <1>2
<1>6. ASSUME ~ Reused(j) PROVE Alone(holdouts', j, n + 1)
  <2>1. \A m \in 1..n : ~ Overlap(holdouts[m], j)
    BY <1>2, <1>6 DEF Reused
  <2>2. Overlap(j, j)
    BY <1>1, JobsAssumption DEF Overlap
  <2>3. \A m \in 1..(n + 1) : m # n + 1 =>
           ~ Overlap(holdouts'[m], j) /\ holdouts'[m] # j
    BY <1>2, <2>1, <2>2
  <2> QED
    BY <1>2, <1>5, <2>3 DEF Alone, FirstUse
<1>7. ReservedOK'
  <2> SUFFICES ASSUME NEW v \in Workers, pc'[v] = "commit", untouched'[v]
               PROVE  \E k \in 1..(n + 1) :
                        /\ FirstUse(holdouts', at[v], k)
                        /\ lease[at[v]] = v => Alone(holdouts', at[v], k)
    BY <1>1, <1>2 DEF ReservedOK
  <2>1. CASE v = w
    <3>1. ~ Reused(j)
      BY <2>1 DEF Reserve, Goto, HInv, IInv, TypeOK, j
    <3> QED
      BY <1>5, <1>6, <2>1, <3>1 DEF Alone, j
  <2>2. CASE v # w
    <3>1. pc[v] = "commit" /\ untouched[v]
      BY <2>2 DEF Reserve, Goto, HInv, IInv, TypeOK
    <3>2. PICK k \in 1..n : /\ FirstUse(holdouts, at[v], k)
                            /\ lease[at[v]] = v => Alone(holdouts, at[v], k)
      BY <3>1 DEF HInv, ReservedOK, n
    <3>3. lease[at[v]] = v => at[v] # j
      BY <1>1, <2>2
    <3> QED
      BY <1>3, <1>4, <1>5, <3>2, <3>3
  <2> QED
    BY <2>1, <2>2
<1>8. RunsOK'
  <2>1. ASSUME NEW i \in 1..Len(runs), runs[i].untouched
        PROVE  \E k \in 1..(n + 1) : Alone(holdouts', runs[i].job, k)
    <3>1. PICK k \in 1..n : Alone(holdouts, runs[i].job, k)
      BY <2>1 DEF HInv, RunsOK, n
    <3>2. runs[i].job # j
      BY <1>1 DEF HInv, RunsOK
    <3> QED
      BY <1>4, <1>5, <3>1, <3>2
  <2> QED
    BY <1>1, <1>2, <2>1 DEF HInv, RunsOK
<1>9. CompletedOK'
  BY <1>1 DEF HInv, CompletedOK
<1> QED
  BY <1>7, <1>8, <1>9

(* The run is complete, the first of its job, and untouched only if the job's one *)
(* reservation was the first use of the range.                                    *)
LEMMA CommitQuiet ==
  ASSUME HInv, NEW w \in Workers, Commit(w) PROVE ReservedOK' /\ RunsOK' /\ CompletedOK'
<1> DEFINE j == at[w]
<1> DEFINE n == Len(runs)
<1> DEFINE run == [job |-> j, trials |-> copy[w].trials, untouched |-> untouched[w]]
<1>1. /\ j \in Jobs /\ lease[j] = w /\ status[j] = "RUNNING" /\ pc[w] = "commit"
      /\ copy[w].cursor = cursor[j] /\ copy[w].trials = trials[j]
  <2>1. pc[w] \in {"save", "reserve", "commit"} /\ HoldsLease(w) /\ pc[w] = "commit" /\ IInv
    BY DEF Commit, HInv
  <2>2. /\ j \in Jobs /\ lease[j] = w /\ status[j] = "RUNNING"
        /\ copy[w] = [cursor |-> cursor[j], trials |-> trials[j]]
    BY <2>1, HeldBy
  <2>3. copy[w].cursor = cursor[j] /\ copy[w].trials = trials[j]
    BY <2>2
  <2> QED
    BY <2>1, <2>2, <2>3
<1>2. Len(copy[w].trials) = Versions
  <2>1. cursor[j] = Versions /\ Versions \in Nat
    BY <1>1, JobsAssumption DEF HInv, IInv, CopyOK
  <2>2. trials[j] = [i \in 1..Versions |-> i - 1] /\ trials[j] \in Seq(0..(Versions - 1))
    BY <1>1, <2>1 DEF HInv, IInv, TypeOK, TrialsFollowCursor
  <2>3. DOMAIN trials[j] = 1..Versions /\ DOMAIN trials[j] = 1..Len(trials[j])
        /\ Len(trials[j]) \in Nat
    BY <2>2, LenProperties
  <2> QED
    BY <1>1, <2>1, <2>3
<1>3. ~ Recorded(j)
  <2>1. runs \in Seq(Results)
    BY DEF HInv, IInv, TypeOK
  <2>2. DOMAIN runs = 1..Len(runs)
    BY <2>1, LenProperties
  <2> QED
    BY <1>1, <2>2 DEF HInv, RunsOK, Recorded
<1>4. /\ n \in Nat /\ runs \in Seq(Results) /\ Len(runs') = n + 1 /\ runs'[n + 1] = run
      /\ \A i \in 1..n : runs'[i] = runs[i] /\ runs[i].job # j
  <2>1. run \in Results /\ runs \in Seq(Results) /\ runs' = Append(runs, run)
    BY <1>1, <1>3 DEF HInv, IInv, TypeOK, Copies, Results, Commit
  <2>2. \A i \in 1..n : runs[i].job # j
    BY <1>1 DEF HInv, RunsOK
  <2> QED
    BY <2>1, <2>2, AppendProperties, LenProperties
<1>5. /\ run.job = j /\ run.untouched = untouched[w] /\ Len(run.trials) = Versions
      /\ UNCHANGED holdouts
  BY <1>2 DEF Commit
<1> HIDE DEF run
<1>6. /\ status' = [status EXCEPT ![j] = "COMPLETED"]
      /\ lease' = [lease EXCEPT ![j] = None]
      /\ (End(w) \/ Goto(w, "release"))
  BY DEF Commit, Finish
<1>7. run.untouched => \E k \in 1..Len(holdouts) : Alone(holdouts, j, k)
  BY <1>1, <1>5 DEF HInv, ReservedOK
<1>8. ReservedOK'
  <2>1. ASSUME NEW v \in Workers, pc'[v] = "commit"
        PROVE  /\ pc[v] = "commit" /\ untouched'[v] = untouched[v] /\ at'[v] = at[v]
               /\ lease'[at[v]] = v => lease[at[v]] = v
    <3>1. pc[v] = "commit" /\ untouched'[v] = untouched[v] /\ at'[v] = at[v]
      BY <1>6, <2>1 DEF End, Goto, HInv, IInv, TypeOK
    <3>2. at[v] \in Jobs /\ v # None
      BY <3>1, JobsAssumption DEF HInv, IInv, TypeOK
    <3>3. lease'[at[v]] \in {lease[at[v]], None}
      BY <1>6, <3>2 DEF HInv, IInv, TypeOK
    <3> QED
      BY <3>1, <3>2, <3>3
  <2> QED
    BY <1>5, <2>1 DEF HInv, ReservedOK
<1> HIDE DEF j, n
<1>9. \A i \in 1..(n + 1) : i \in 1..n \/ i = n + 1
  BY <1>4
<1>10. RunsOK'
  <2>1. ASSUME NEW i \in 1..n
        PROVE  /\ status'[runs[i].job] = "COMPLETED" /\ Len(runs[i].trials) = Versions
               /\ runs[i].untouched => \E k \in 1..Len(holdouts) : Alone(holdouts, runs[i].job, k)
               /\ \A m \in 1..n : runs[m].job = runs[i].job => m = i
    <3>1. status[runs[i].job] = "COMPLETED" /\ runs[i].job \in Jobs
      BY RunTyped DEF HInv, RunsOK, n
    <3> QED
      BY <1>1, <1>6, <3>1 DEF HInv, RunsOK, n, IInv, TypeOK
  <2>2. status'[j] = "COMPLETED"
    BY <1>1, <1>6 DEF HInv, IInv, TypeOK
  <2> QED
    BY <1>4, <1>5, <1>7, <1>9, <2>1, <2>2 DEF RunsOK
<1>11. CompletedOK'
  <2> SUFFICES ASSUME NEW i \in Jobs, status'[i] = "COMPLETED"
               PROVE  \E m \in 1..(n + 1) : runs'[m].job = i
    BY <1>4 DEF CompletedOK
  <2>1. CASE i = j
    BY <1>4, <1>5, <2>1
  <2>2. CASE i # j
    <3>1. status[i] = "COMPLETED"
      BY <1>6, <2>2 DEF HInv, IInv, TypeOK
    <3>2. PICK m \in 1..n : runs[m].job = i
      BY <3>1 DEF HInv, CompletedOK, n
    <3> QED
      BY <1>4, <3>2
  <2> QED
    BY <2>1, <2>2
<1> QED
  BY <1>8, <1>10, <1>11

LEMMA StepHInv == HInv /\ [Next]_vars => HInv'
<1> SUFFICES ASSUME HInv, [Next]_vars PROVE HInv'
  OBVIOUS
<1>1. IInv'
  BY StepInv DEF HInv
<1>2. CASE UNCHANGED vars
  BY <1>1, <1>2 DEF vars, job, tick, HInv, ReservedOK, RunsOK, CompletedOK
<1>3. CASE Next
  BY <1>1, <1>3, ManageQuiet, BeginQuiet, StepQuiet, ReserveQuiet, CommitQuiet
     DEF Next, TickStep, HInv
<1> QED
  BY <1>2, <1>3

LEMMA HoldoutInvariant == Spec => []HInv
  BY InitHInv, StepHInv, PTL DEF Spec

(* A run that reports an untouched holdout has used it first and once, for any     *)
(* crashes, lost answers and lost leases between the reservation and the run.      *)
THEOREM UntouchedFirst == Spec => []UntouchedIsFirstUse
<1>1. HInv => UntouchedIsFirstUse
  <2> SUFFICES ASSUME HInv PROVE UntouchedIsFirstUse
    OBVIOUS
  <2>1. DOMAIN runs = 1..Len(runs) /\ DOMAIN holdouts = 1..Len(holdouts)
    BY LenProperties DEF HInv, IInv, TypeOK
  <2> QED
    BY <2>1 DEF UntouchedIsFirstUse, HInv, RunsOK, Alone, FirstUse
<1> QED
  BY <1>1, HoldoutInvariant, PTL

(* A completed job has exactly one run, over all its candidates, and no other job   *)
(* has any.                                                                        *)
THEOREM OneRun == Spec => []OneRunPerJob
<1>1. HInv => OneRunPerJob
  <2> SUFFICES ASSUME HInv, NEW j \in Jobs
               PROVE  LET mine == {i \in DOMAIN runs : runs[i].job = j}
                      IN  /\ Cardinality(mine) = IF status[j] = "COMPLETED" THEN 1 ELSE 0
                          /\ \A i \in mine : Len(runs[i].trials) = Versions
    BY DEF OneRunPerJob
  <2> DEFINE mine == {i \in DOMAIN runs : runs[i].job = j}
  <2>1. DOMAIN runs = 1..Len(runs)
    BY LenProperties DEF HInv, IInv, TypeOK
  <2>2. \A i \in mine : Len(runs[i].trials) = Versions
    BY <2>1 DEF HInv, RunsOK
  <2>3. CASE status[j] = "COMPLETED"
    <3>1. PICK i \in 1..Len(runs) : runs[i].job = j
      BY <2>3 DEF HInv, CompletedOK
    <3>2. mine = {i}
      BY <2>1, <3>1 DEF HInv, RunsOK
    <3>3. Cardinality(mine) = 1
      BY <3>2, FS_Singleton
    <3> QED
      BY <2>2, <2>3, <3>3
  <2>4. CASE status[j] # "COMPLETED"
    <3>1. mine = {}
      BY <2>1, <2>4 DEF HInv, RunsOK
    <3>2. Cardinality(mine) = 0
      BY <3>1, FS_EmptySet
    <3> QED
      BY <2>2, <2>4, <3>2
  <2> QED
    BY <2>3, <2>4
<1> QED
  BY <1>1, HoldoutInvariant, PTL

(* A tick whose lease was taken away writes nothing any more.                      *)
THEOREM Inert == Spec => RevokedTicksAreInert
<1> DEFINE Step == \A w \in Workers :
      revoked[w] /\ pc'[w] # pc[w] /\ pc[w] # "idle" => UNCHANGED <<job, holdouts, runs>>
<1>1. IInv /\ [Next]_vars => [Step]_vars
  <2> SUFFICES ASSUME IInv, Next, NEW w \in Workers, revoked[w], pc'[w] # pc[w], pc[w] # "idle"
               PROVE  UNCHANGED <<job, holdouts, runs>>
    OBVIOUS
  <2>1. \A i \in Jobs : lease[i] # w
    BY DEF IInv, LeaseOK
  <2>2. ~ Manage
    BY DEF Manage, Queue, SetJobStatus, PauseAll, ResumeAll, tick
  <2>3. \A j \in Jobs : ~ Begin(j)
    BY DEF Begin, Claim, ClaimUnanswered, GiveUp, tick, IInv, TypeOK
  <2>4. ASSUME NEW v \in Workers, TickStep(v) \/ Crash(v) PROVE v = w
    BY <2>4 DEF TickStep, Replay, Superseded, SaveTrial, Reserve, Commit, Throw, Release, Crash,
       Finish, Goto, End, IInv, TypeOK
  <2>5. TickStep(w) \/ Crash(w)
    BY <2>2, <2>3, <2>4 DEF Next
  <2>6. CASE Replay(w) \/ Superseded(w) \/ Throw(w)
    BY <2>6 DEF Replay, Superseded, Throw
  <2>7. CASE SaveTrial(w) \/ Reserve(w) \/ Commit(w)
    BY <2>1, <2>7, HeldBy DEF SaveTrial, Reserve, Commit
  <2>8. CASE Release(w)
    <3>1. at[w] \in Jobs
      BY DEF IInv, TypeOK
    <3> QED
      BY <2>1, <2>8, <3>1 DEF Release, job
  <2>9. CASE Crash(w)
    <3>1. lease' = lease
      BY <2>1, <2>9 DEF Crash, IInv, TypeOK
    <3> QED
      BY <2>9, <3>1 DEF Crash, job
  <2> QED
    BY <2>5, <2>6, <2>7, <2>8, <2>9 DEF TickStep
<1> QED
  BY <1>1, Invariant, PTL DEF Spec, RevokedTicksAreInert
=============================================================================
