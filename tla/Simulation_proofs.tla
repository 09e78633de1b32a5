--------------------------- MODULE Simulation_proofs ---------------------------
(***************************************************************************)
(* Proofs about the parts of the simulation research that share no state:  *)
(* the state document, the quota of the provider, and the account of a     *)
(* simulation.                                                             *)
(***************************************************************************)
EXTENDS StateDocument, ResearchQuota, SimAccount, FiniteSetTheorems, TLAPS

--------------------------------------------------------------------------------
(***************************************************************************)
(* The state document: mutate is atomic, and its retries are lock-free,    *)
(* for any set of calls and any bound on the tries.                        *)
(***************************************************************************)

(* A copy read at the current revision is the current payload. *)
CopyOK == \A c \in Calls : pc[c] = "write" =>
  /\ copy[c].revision <= revision
  /\ copy[c].revision = revision => copy[c].payload = payload

(* Only a call that has ended is in the payload, once. *)
AppliedOK ==
  /\ \A i \in 1..Len(payload) : pc[payload[i]] \in {"ok", "threw"}
  /\ \A c \in Calls : pc[c] = "ok" => \E i \in 1..Len(payload) : payload[i] = c

(* Each lost try is another mutation of the document. *)
TriesOK == \A c \in Calls :
  /\ pc[c] \in {"idle", "read"} => tries[c] <= revision
  /\ pc[c] = "write" => tries[c] <= copy[c].revision
  /\ pc[c] \in {"idle", "read", "write"} => tries[c] < MaxTries
  /\ pc[c] = "busy" => revision >= MaxTries

Inv == TypeOK /\ CopyOK /\ TriesOK

(* The invariant holds at first and every step keeps it. *)
LEMMA InvInit == Init => Inv
<1> SUFFICES ASSUME Init PROVE Inv
  OBVIOUS
<1> USE TriesAssumption DEF Init, NoCopy
<1>1. TypeOK
  BY DEF TypeOK, Document, Outcomes
<1>2. CopyOK /\ TriesOK
  BY DEF CopyOK, TriesOK
<1> QED
  BY <1>1, <1>2 DEF Inv

LEMMA InvStep == Inv /\ [Next]_vars => Inv'
<1> SUFFICES ASSUME Inv, [Next]_vars PROVE Inv'
  OBVIOUS
<1> USE TriesAssumption DEF Inv, TypeOK, Document, Outcomes
<1>1. ASSUME NEW c \in Calls, Begin(c) PROVE Inv'
  BY <1>1 DEF Begin, CopyOK, TriesOK
<1>2. ASSUME NEW c \in Calls, ReadState(c) PROVE Inv'
  <2>1. CASE pc'[c] = "write"
    <3>1. /\ UNCHANGED <<revision, payload, tries, faults>>
          /\ copy' = [copy EXCEPT ![c] = [revision |-> revision, payload |-> payload]]
          /\ pc' = [pc EXCEPT ![c] = "write"]
      BY <1>2, <2>1 DEF ReadState
    <3>2. TypeOK'
      BY <3>1
    <3>3. CopyOK'
      BY <3>1 DEF CopyOK
    <3>4. TriesOK'
      BY <1>2, <3>1 DEF ReadState, TriesOK
    <3> QED
      BY <3>2, <3>3, <3>4
  <2>2. CASE pc'[c] # "write"
    <3>1. /\ UNCHANGED <<revision, payload, copy, tries, faults>>
          /\ pc' = [pc EXCEPT ![c] = "threw"]
      BY <1>2, <2>2 DEF ReadState
    <3> QED
      BY <3>1 DEF CopyOK, TriesOK
  <2> QED
    BY <2>1, <2>2
<1>3. ASSUME NEW c \in Calls, Write(c) PROVE Inv'
  <2>1. CASE Unchanged(c)
    <3>1. copy[c].payload = payload
      BY <1>3, <2>1 DEF Write, Unchanged, CopyOK
    <3>2. /\ payload' = Append(payload, c) /\ revision' = revision + 1
          /\ copy' = copy /\ tries' = tries
          /\ \/ pc' = [pc EXCEPT ![c] = "ok"] /\ faults' = faults
             \/ /\ pc' = [pc EXCEPT ![c] = "threw"]
                /\ faults < MaxFaults /\ faults' = faults + 1
      BY <1>3, <2>1, <3>1 DEF Write
    <3>3. TypeOK'
      <4>1. payload' \in Seq(Calls) /\ revision' \in Nat
        BY <3>2
      <4>2. pc' \in [Calls -> {"idle", "read", "write"} \cup {"ok", "threw", "busy"}]
        BY <3>2
      <4>3. faults' \in 0..MaxFaults
        BY <3>2
      <4> QED
        BY <3>2, <4>1, <4>2, <4>3
    <3>4. CopyOK'
      <4> SUFFICES ASSUME NEW d \in Calls, pc'[d] = "write"
                   PROVE  copy[d].revision < revision'
        <5>1. copy' = copy
          BY <3>2
        <5> QED
          BY <3>3, <5>1 DEF CopyOK
      <4>1. pc[d] = "write"
        BY <3>2
      <4> QED
        BY <3>2, <4>1 DEF CopyOK
    <3>5. TriesOK'
      BY <3>2 DEF TriesOK
    <3> QED
      BY <3>3, <3>4, <3>5
  <2>2. CASE ~ Unchanged(c)
    <3>1. copy[c].revision < revision
      BY <1>3, <2>2 DEF Write, Unchanged, CopyOK
    <3>2. /\ UNCHANGED <<payload, revision, copy, faults>>
          /\ tries' = [tries EXCEPT ![c] = @ + 1]
          /\ pc' = [pc EXCEPT ![c] = IF GivesUp(c) THEN "busy" ELSE "read"]
      BY <1>3, <2>2 DEF Write
    <3>3. tries[c] < MaxTries /\ tries[c] + 1 <= revision
      BY <1>3, <3>1 DEF Write, TriesOK
    <3>4. TypeOK'
      <4>1. pc' \in [Calls -> {"idle", "read", "write"} \cup {"ok", "threw", "busy"}]
        BY <3>2
      <4>2. tries[c] + 1 \in 0..MaxTries
        BY <3>3
      <4>3. tries' \in [Calls -> 0..MaxTries]
        BY <3>2, <4>2
      <4> QED
        BY <3>2, <4>1, <4>3
    <3>5. CopyOK'
      BY <3>2 DEF CopyOK
    <3>6. TriesOK'
      <4> SUFFICES ASSUME NEW d \in Calls
                   PROVE  /\ pc'[d] \in {"idle", "read"} => tries'[d] <= revision'
                          /\ pc'[d] = "write" => tries'[d] <= copy'[d].revision
                          /\ pc'[d] \in {"idle", "read", "write"} => tries'[d] < MaxTries
                          /\ pc'[d] = "busy" => revision' >= MaxTries
        BY DEF TriesOK
      <4>1. CASE d = c
        <5>1. /\ tries'[d] = tries[c] + 1 /\ revision' = revision
              /\ \/ pc'[d] = "busy" /\ tries[c] + 1 = MaxTries
                 \/ pc'[d] = "read" /\ tries[c] + 1 # MaxTries
          BY <3>2, <4>1 DEF GivesUp
        <5>2. tries[c] \in Nat /\ MaxTries \in Nat /\ revision \in Nat
          OBVIOUS
        <5>3. tries'[d] <= revision' /\ (pc'[d] = "read" => tries'[d] < MaxTries)
          BY ONLY <3>3, <5>1, <5>2
        <5>4. pc'[d] = "busy" => revision' >= MaxTries
          BY ONLY <3>3, <5>1, <5>2
        <5> QED
          BY ONLY <5>1, <5>3, <5>4
      <4>2. CASE d # c
        <5>1. UNCHANGED <<pc[d], tries[d], copy[d].revision, revision>>
          BY <3>2, <4>2
        <5> QED
          BY <5>1 DEF TriesOK
      <4> QED
        BY <4>1, <4>2
    <3> QED
      BY <3>4, <3>5, <3>6
  <2> QED
    BY <2>1, <2>2
<1>4. ASSUME NEW c \in Calls, QueryFails(c) PROVE Inv'
  BY <1>4 DEF QueryFails, CopyOK, TriesOK
<1>5. CASE UNCHANGED vars
  BY <1>5 DEF vars, CopyOK, TriesOK
<1> QED
  BY <1>1, <1>2, <1>3, <1>4, <1>5 DEF Next

LEMMA Invariant == Spec => []Inv
<1> QED
  BY InvInit, InvStep, PTL DEF Spec

(* A call of mutate ends busy only when other mutations went through at each *)
(* of its tries.                                                             *)
THEOREM LockFree == Spec => []BusyMeansProgress
<1>1. Inv => BusyMeansProgress
  BY DEF Inv, TriesOK, BusyMeansProgress
<1> QED
  BY <1>1, Invariant, PTL

(* What the payload contains, for the refinement. *)
LEMMA AppliedInit == Init => AppliedOK
  BY DEF Init, AppliedOK

LEMMA AppliedStep == Inv /\ AppliedOK /\ [Next]_vars => AppliedOK'
<1> SUFFICES ASSUME Inv, AppliedOK, [Next]_vars PROVE AppliedOK'
  OBVIOUS
<1> USE DEF Inv, TypeOK, Document, Outcomes
<1>1. ASSUME NEW c \in Calls, Write(c), Unchanged(c) PROVE AppliedOK'
  <2>1. /\ payload' = Append(payload, c)
        /\ pc'[c] \in {"ok", "threw"}
        /\ \A d \in Calls \ {c} : pc'[d] = pc[d]
    BY <1>1 DEF Write, Unchanged, CopyOK
  <2>2. /\ Len(payload) \in Nat /\ Len(payload') = Len(payload) + 1
        /\ payload'[Len(payload) + 1] = c
        /\ \A i \in 1..Len(payload) : payload'[i] = payload[i] /\ payload[i] \in Calls
    BY <2>1
  <2>3. ASSUME NEW i \in 1..Len(payload') PROVE pc'[payload'[i]] \in {"ok", "threw"}
    <3>1. CASE i \in 1..Len(payload)
      <4>1. payload'[i] \in Calls /\ pc[payload'[i]] \in {"ok", "threw"}
        BY <2>2, <3>1 DEF AppliedOK
      <4> QED
        BY <2>1, <4>1
    <3>2. CASE i = Len(payload) + 1
      BY <2>1, <2>2, <3>2
    <3> QED
      BY <2>2, <3>1, <3>2
  <2>4. ASSUME NEW d \in Calls, pc'[d] = "ok"
        PROVE  \E i \in 1..Len(payload') : payload'[i] = d
    <3>1. CASE d = c
      <4>1. Len(payload) + 1 \in 1..Len(payload')
        BY <2>2
      <4> QED
        BY <2>2, <3>1, <4>1
    <3>2. CASE d # c
      <4>1. PICK i \in 1..Len(payload) : payload[i] = d
        BY <2>1, <2>4, <3>2 DEF AppliedOK
      <4>2. i \in 1..Len(payload') /\ payload'[i] = d
        BY ONLY <2>2, <4>1
      <4> QED
        BY <4>2
    <3> QED
      BY <3>1, <3>2
  <2> QED
    BY <2>3, <2>4 DEF AppliedOK
<1>2. ASSUME UNCHANGED payload,
             \A d \in Calls : pc[d] \in {"ok", "threw"} \/ pc'[d] = "ok" => pc'[d] = pc[d]
      PROVE  AppliedOK'
  <2>1. \A i \in 1..Len(payload) : payload[i] \in Calls
    OBVIOUS
  <2> QED
    BY <1>2, <2>1 DEF AppliedOK
<1>3. ASSUME NEW c \in Calls, Write(c), ~ Unchanged(c) PROVE AppliedOK'
  BY <1>2, <1>3 DEF Write
<1>4. ASSUME NEW c \in Calls, Begin(c) \/ ReadState(c) \/ QueryFails(c) PROVE AppliedOK'
  BY <1>2, <1>4 DEF Begin, ReadState, QueryFails
<1>5. CASE UNCHANGED vars
  BY <1>2, <1>5 DEF vars
<1> QED
  BY <1>1, <1>3, <1>4, <1>5 DEF Next

(* mutate implements one atomic application of its function. *)
THEOREM Atomicity == Spec => IsAtomic
<1>1. Init => Atomic!Init
  BY DEF Init, Atomic!Init
<1>2. Inv /\ AppliedOK /\ [Next]_vars
        => [Atomic!Next]_<<payload, {c \in Calls : pc[c] = "ok"}>>
  <2> SUFFICES ASSUME Inv, AppliedOK, [Next]_vars,
                      ~ UNCHANGED <<payload, {c \in Calls : pc[c] = "ok"}>>
               PROVE  Atomic!Next
    OBVIOUS
  <2> USE DEF Inv, TypeOK, Document, Outcomes
  <2>1. PICK c \in Calls : Write(c) /\ Unchanged(c)
    <3>1. ASSUME NEW c \in Calls,
                 \/ Begin(c) \/ ReadState(c) \/ QueryFails(c)
                 \/ Write(c) /\ ~ Unchanged(c)
          PROVE  UNCHANGED <<payload, {d \in Calls : pc[d] = "ok"}>>
      <4>1. UNCHANGED payload /\ \A d \in Calls : pc'[d] = "ok" <=> pc[d] = "ok"
        BY <3>1 DEF Begin, ReadState, QueryFails, Write
      <4> QED
        BY <4>1
    <3>2. CASE UNCHANGED vars
      BY <3>2 DEF vars
    <3> QED
      BY <3>1, <3>2 DEF Next
  <2>2. /\ pc[c] = "write" /\ payload' = Append(payload, c)
        /\ pc'[c] \in {"ok", "threw"}
        /\ \A d \in Calls \ {c} : pc'[d] = pc[d]
    BY <2>1 DEF Write, Unchanged, CopyOK
  <2>3. ~ Atomic!Applied(c)
    <3>1. DOMAIN payload = 1..Len(payload)
      OBVIOUS
    <3> QED
      BY <2>2, <3>1 DEF AppliedOK, Atomic!Applied
  <2>4. {d \in Calls : pc'[d] = "ok"}
          \in {{d \in Calls : pc[d] = "ok"}, {d \in Calls : pc[d] = "ok"} \cup {c}}
    <3>1. CASE pc'[c] = "ok"
      <4>1. \A d \in Calls : pc'[d] = "ok" <=> d = c \/ pc[d] = "ok"
        BY <2>2, <3>1
      <4> QED
        BY <4>1
    <3>2. CASE pc'[c] = "threw"
      <4>1. \A d \in Calls : pc'[d] = "ok" <=> pc[d] = "ok"
        BY <2>2, <3>2
      <4> QED
        BY <4>1
    <3> QED
      BY <2>2, <3>1, <3>2
  <2>5. Atomic!Apply(c)
    BY <2>2, <2>3, <2>4 DEF Atomic!Apply
  <2> QED
    BY <2>5 DEF Atomic!Next
<1> QED
  BY <1>1, <1>2, Invariant, AppliedInit, AppliedStep, InvInit, InvStep, PTL
     DEF Spec, IsAtomic, Atomic!Spec

--------------------------------------------------------------------------------
(***************************************************************************)
(* The quota of the provider, for any limits, durations and keys.          *)
(***************************************************************************)

\* The limits of a day, for every day.
Limits(d) ==
  /\ Cardinality(On(d)) <= DayLimit
  /\ \A r \in On(d) : Cardinality(Within(On(d), r[2], Minute)) <= MinuteLimit
  /\ \A r, s \in On(d) : r[1] = s[1] /\ r[2] < s[2] => s[2] - r[2] >= Cooldown

QuotaTyped ==
  /\ now \in Nat /\ day \in Int /\ used \in Nat
  /\ lastByKey \in [DOMAIN lastByKey -> Int] /\ IsFiniteSet(DOMAIN lastByKey)
  /\ requests \subseteq Keys \X Nat /\ IsFiniteSet(requests)

\* The quota's day has begun, no request is later than that day, and used and lastByKey
\* know of all of its requests.
DayKnown ==
  /\ day * Day <= now
  /\ \A r \in requests : r[2] <= now /\ r[2] < day * Day + Day
  /\ Cardinality(On(day)) <= used
  /\ \A r \in On(day) : r[1] \in DOMAIN lastByKey /\ r[2] <= lastByKey[r[1]]

QuotaInv == QuotaTyped /\ DayKnown /\ \A d \in Nat : Limits(d)

LEMMA DayLength == Day \in Nat /\ Day > 0 /\ Minute \in Nat /\ Cooldown \in Nat /\ Minute <= Cooldown
                   /\ DayLimit \in Nat /\ MinuteLimit \in Nat
  BY QuotaAssumption

LEMMA DayBegins ==
  ASSUME now \in Nat
  PROVE  Today \in Nat /\ Today * Day <= now /\ now < Today * Day + Day
  BY QuotaAssumption DEF Today

LEMMA DaysApart ==
  ASSUME NEW d \in Int, NEW e \in Int, d < e
  PROVE  d * Day + Day <= e * Day
  BY DayLength

LEMMA DayStart == \A d \in Int : d * Day \in Int
  BY DayLength

LEMMA OfDay ==
  ASSUME NEW d, NEW r
  PROVE  r \in On(d) <=> r \in requests /\ d * Day <= r[2] /\ r[2] < d * Day + Day
  BY DEF On, Within

LEMMA OnFinite ==
  ASSUME QuotaTyped, NEW d
  PROVE  /\ On(d) \subseteq requests /\ IsFiniteSet(On(d)) /\ Cardinality(On(d)) \in Nat
         /\ \A t, length : /\ Within(On(d), t, length) \subseteq On(d)
                           /\ IsFiniteSet(Within(On(d), t, length))
                           /\ Cardinality(Within(On(d), t, length)) \in Nat
<1>1. On(d) \subseteq requests
  BY DEF On, Within
<1>2. IsFiniteSet(On(d)) /\ Cardinality(On(d)) \in Nat
  BY <1>1, FS_Subset, FS_CardinalityType DEF QuotaTyped
<1>3. ASSUME NEW t, NEW length
      PROVE  /\ Within(On(d), t, length) \subseteq On(d)
             /\ IsFiniteSet(Within(On(d), t, length))
             /\ Cardinality(Within(On(d), t, length)) \in Nat
  <2>1. Within(On(d), t, length) \subseteq On(d)
    BY DEF Within
  <2> QED
    BY <1>2, <2>1, FS_Subset, FS_CardinalityType
<1> QED
  BY <1>1, <1>2, <1>3

(* What the quota says of today once a stale day is reset.                   *)
LEMMA TodayKnown ==
  ASSUME QuotaInv
  PROVE  /\ Used \in Nat /\ Cardinality(On(Today)) <= Used
         /\ Last \in [DOMAIN Last -> Int] /\ IsFiniteSet(DOMAIN Last)
         /\ \A r \in On(Today) : r[1] \in DOMAIN Last /\ r[2] <= Last[r[1]]
<1>1. QuotaTyped /\ Today \in Nat /\ Today * Day <= now /\ now < Today * Day + Day
  BY DayBegins DEF QuotaInv, QuotaTyped
<1>2. CASE day = Today
  BY <1>1, <1>2 DEF QuotaInv, DayKnown, QuotaTyped, Used, Last
<1>3. CASE day # Today
  <2>1. day < Today
    <3>1. SUFFICES ASSUME Today < day PROVE FALSE
      BY <1>1, <1>3 DEF QuotaTyped
    <3>2. Today * Day + Day <= day * Day
      BY <1>1, <3>1, DaysApart DEF QuotaTyped
    <3>3. day * Day <= now /\ day * Day \in Int /\ Today * Day \in Int
      BY <1>1, DayStart DEF QuotaInv, DayKnown, QuotaTyped
    <3> QED
      BY <1>1, <3>2, <3>3, DayLength DEF QuotaTyped
  <2>2. On(Today) = {}
    <3> SUFFICES ASSUME NEW r \in On(Today) PROVE FALSE
      OBVIOUS
    <3>1. r \in requests /\ Today * Day <= r[2] /\ r[2] \in Nat
      BY <1>1, OfDay DEF QuotaTyped
    <3>2. r[2] < day * Day + Day /\ day * Day + Day <= Today * Day
      BY <1>1, <2>1, <3>1, DaysApart DEF QuotaInv, DayKnown, QuotaTyped
    <3>3. day * Day \in Int /\ Today * Day \in Int
      BY <1>1, DayStart DEF QuotaTyped
    <3> HIDE DEF Today
    <3> QED
      BY <3>1, <3>2, <3>3, DayLength
  <2> QED
    BY <1>3, <2>2, FS_EmptySet DEF Used, Last, NoneToday
<1> QED
  BY <1>2, <1>3

(* A window that is not over has at most one request for each key that was   *)
(* asked for within the last minute: a key pauses longer than that.          *)
LEMMA WindowByKeys ==
  ASSUME QuotaInv, NEW t \in Int, now < t + Minute
  PROVE  Cardinality(Within(On(Today), t, Minute)) <= Cardinality(ThisMinute)
<1> DEFINE W == Within(On(Today), t, Minute)
           f == [r \in W |-> r[1]]
<1>0. QuotaTyped /\ Today \in Nat /\ now \in Nat /\ Minute \in Nat /\ Cooldown \in Nat /\ Minute <= Cooldown
  BY DayBegins, DayLength DEF QuotaInv, QuotaTyped
<1>1. \A r \in W : /\ r \in On(Today) /\ r = <<r[1], r[2]>> /\ r[2] \in Nat
                   /\ t <= r[2] /\ r[2] < t + Minute
  BY <1>0, OnFinite DEF Within, QuotaTyped
<1> HIDE DEF W
<1>2. ASSUME NEW r \in W PROVE r[1] \in ThisMinute
  <2>1. r[1] \in DOMAIN Last /\ r[2] <= Last[r[1]] /\ Last[r[1]] \in Int
    BY <1>1, TodayKnown
  <2>2. now - Last[r[1]] < Minute
    BY <1>0, <1>1, <2>1
  <2> QED
    BY <2>1, <2>2 DEF ThisMinute
<1>3. ASSUME NEW r \in W, NEW s \in W, r[1] = s[1] PROVE r = s
  <2>1. ~ r[2] < s[2] /\ ~ s[2] < r[2]
    <3>1. /\ r[2] < s[2] => s[2] - r[2] >= Cooldown
          /\ s[2] < r[2] => r[2] - s[2] >= Cooldown
      BY <1>0, <1>1, <1>3 DEF QuotaInv, Limits
    <3> QED
      BY <1>0, <1>1, <3>1
  <2> QED
    BY <1>1, <1>3, <2>1
<1>4. f \in Injection(W, ThisMinute)
  BY <1>2, <1>3 DEF Injection, IsInjective
<1>5. IsFiniteSet(ThisMinute)
  <2>1. ThisMinute \in SUBSET DOMAIN Last
    BY DEF ThisMinute
  <2> QED
    BY <2>1, TodayKnown, FS_Subset
<1>6. Cardinality(W) <= Cardinality(ThisMinute)
  BY <1>4, <1>5, FS_Injection
<1> QED
  BY <1>6 DEF W

(* A reservation joins today's requests and no other day's.                  *)
LEMMA Joins ==
  ASSUME QuotaInv, NEW k \in Keys, reserveProviderCredit(k)
  PROVE  /\ On(Today)' = On(Today) \cup {<<k, now>>}
         /\ \A d \in Nat \ {Today} : On(d)' = On(d)
<1>0. QuotaTyped /\ Today \in Nat /\ Today * Day <= now /\ now < Today * Day + Day /\ now \in Nat
  BY DayBegins DEF QuotaInv, QuotaTyped
<1>1. requests' = requests \cup {<<k, now>>} /\ Today' = Today
  BY DEF reserveProviderCredit, Today
<1>2. On(Today)' = On(Today) \cup {<<k, now>>}
  <2>1. <<k, now>>[2] = now
    OBVIOUS
  <2> HIDE DEF Today
  <2> QED
    BY <1>0, <1>1, <2>1 DEF On, Within
<1>3. ASSUME NEW d \in Nat \ {Today} PROVE On(d)' = On(d)
  <2>1. ~ (d * Day <= now /\ now < d * Day + Day)
    <3>1. d < Today => d * Day + Day <= Today * Day
      BY <1>0, DaysApart
    <3>2. Today < d => Today * Day + Day <= d * Day
      BY <1>0, DaysApart
    <3>3. d * Day \in Int /\ Today * Day \in Int
      BY <1>0, DayStart
    <3> HIDE DEF Today
    <3> QED
      BY <1>0, <1>3, <3>1, <3>2, <3>3, DayLength
  <2>2. <<k, now>>[2] = now
    OBVIOUS
  <2> QED
    BY <1>1, <2>1, <2>2 DEF On, Within
<1> QED
  BY <1>2, <1>3

\* Adding an element makes a finite set larger by at most one.
LEMMA AtMostOneMore ==
  ASSUME NEW S, NEW x, IsFiniteSet(S)
  PROVE  /\ IsFiniteSet(S \cup {x})
         /\ Cardinality(S \cup {x}) \in Nat
         /\ Cardinality(S \cup {x}) <= Cardinality(S) + 1
<1>1. Cardinality(S) \in Nat
  BY FS_CardinalityType
<1>2. IsFiniteSet(S \cup {x})
  BY FS_AddElement
<1>3. Cardinality(S \cup {x}) \in Nat
  BY <1>2, FS_CardinalityType
<1>4. CASE x \in S
  <2>1. S \cup {x} = S
    BY <1>4
  <2> QED
    BY <1>1, <1>2, <2>1
<1>5. CASE x \notin S
  <2>1. Cardinality(S \cup {x}) = Cardinality(S) + 1
    BY <1>5, FS_AddElement
  <2> QED
    BY <1>1, <1>2, <1>3, <2>1
<1> QED
  BY <1>4, <1>5

LEMMA ReserveCounts ==
  ASSUME QuotaInv, NEW k \in Keys, reserveProviderCredit(k)
  PROVE  Cardinality(On(Today)') <= Used + 1 /\ Used + 1 <= DayLimit
<1>1. IsFiniteSet(On(Today)) /\ Cardinality(On(Today)) \in Nat
  BY OnFinite DEF QuotaInv
<1>2. Cardinality(On(Today) \cup {<<k, now>>}) <= Cardinality(On(Today)) + 1
      /\ Cardinality(On(Today) \cup {<<k, now>>}) \in Nat
  BY <1>1, AtMostOneMore
<1>5. On(Today)' = On(Today) \cup {<<k, now>>}
  BY Joins
<1>3. Used < DayLimit
  BY DEF reserveProviderCredit, Affordable
<1>4. Used \in Nat /\ Cardinality(On(Today)) <= Used /\ DayLimit \in Nat
  BY TodayKnown, DayLength
<1>6. Cardinality(On(Today)') \in Nat /\ Cardinality(On(Today)') <= Cardinality(On(Today)) + 1
  BY <1>2, <1>5
<1> QED
  BY <1>1, <1>3, <1>4, <1>6

LEMMA ReserveCools ==
  ASSUME QuotaInv, NEW k \in Keys, reserveProviderCredit(k),
         NEW r \in On(Today)', NEW s \in On(Today)', r[1] = s[1], r[2] < s[2]
  PROVE  s[2] - r[2] >= Cooldown
<1> DEFINE n == <<k, now>>
<1>0. QuotaTyped /\ Today \in Nat /\ now \in Nat
  BY DayBegins DEF QuotaInv, QuotaTyped
<1>1. \A q \in On(Today) : q \in requests /\ q[2] \in Nat /\ q[2] <= now
  BY <1>0, OfDay DEF QuotaInv, DayKnown, QuotaTyped
<1>2. n[1] = k /\ n[2] = now
  OBVIOUS
<1> HIDE DEF n
<1>3. r \in On(Today) \cup {n} /\ s \in On(Today) \cup {n}
  BY Joins DEF n
<1>4. r # n
  BY <1>0, <1>1, <1>2, <1>3
<1>5. CASE s # n
  BY <1>0, <1>3, <1>4, <1>5 DEF QuotaInv, Limits
<1>6. CASE s = n
  <2>1. k \in DOMAIN Last /\ r[2] <= Last[k] /\ Last[k] \in Int
    BY <1>2, <1>3, <1>4, <1>6, TodayKnown
  <2>2. now - Last[k] >= Cooldown
    BY <2>1 DEF reserveProviderCredit, CooledDown
  <2>3. r[2] \in Nat
    BY <1>1, <1>3, <1>4
  <2> QED
    BY <1>0, <1>2, <1>6, <2>1, <2>2, <2>3, DayLength
<1> QED
  BY <1>5, <1>6

LEMMA ReserveSpreads ==
  ASSUME QuotaInv, NEW k \in Keys, reserveProviderCredit(k), NEW r \in On(Today)'
  PROVE  Cardinality(Within(On(Today)', r[2], Minute)) <= MinuteLimit
<1> DEFINE n == <<k, now>>
           W == Within(On(Today), r[2], Minute)
           V == Within(On(Today)', r[2], Minute)
<1>0. QuotaTyped /\ Today \in Nat /\ now \in Nat /\ Minute \in Nat /\ MinuteLimit \in Nat
  BY DayBegins, DayLength DEF QuotaInv, QuotaTyped
<1>1. r \in On(Today) \cup {n} /\ r[2] \in Nat
  BY <1>0, Joins, OfDay DEF QuotaTyped
<1>2. IsFiniteSet(W) /\ Cardinality(W) \in Nat
  BY <1>0, OnFinite
<1>3. CASE now < r[2] + Minute
  <2>1. V \in SUBSET (W \cup {n})
    BY Joins DEF Within
  <2>2. Cardinality(V) <= Cardinality(W) + 1
    <3>1. IsFiniteSet(W \cup {n}) /\ Cardinality(W \cup {n}) <= Cardinality(W) + 1
          /\ Cardinality(W \cup {n}) \in Nat
      <4> HIDE DEF W, n
      <4> QED
        BY <1>2, AtMostOneMore
    <3>2. IsFiniteSet(V) /\ Cardinality(V) <= Cardinality(W \cup {n}) /\ Cardinality(V) \in Nat
      BY <2>1, <3>1, FS_Subset, FS_CardinalityType
    <3> HIDE DEF V, W, n
    <3> QED
      BY <1>2, <3>1, <3>2
  <2>3. Cardinality(W) <= Cardinality(ThisMinute)
    BY <1>1, <1>3, WindowByKeys
  <2>4. Cardinality(ThisMinute) < MinuteLimit /\ Cardinality(ThisMinute) \in Nat
    <3>1. ThisMinute \in SUBSET DOMAIN Last
      BY DEF ThisMinute
    <3> QED
      BY <3>1, TodayKnown, FS_Subset, FS_CardinalityType DEF reserveProviderCredit
  <2>5. Cardinality(V) \in Nat
    <3>1. IsFiniteSet(W \cup {n})
      BY <1>2, FS_AddElement
    <3> QED
      BY <2>1, <3>1, FS_Subset, FS_CardinalityType
  <2> HIDE DEF V, W
  <2>6. Cardinality(V) <= MinuteLimit
    BY <1>0, <1>2, <2>2, <2>3, <2>4, <2>5
  <2> QED
    BY <2>6 DEF V
<1>4. CASE ~ (now < r[2] + Minute)
  <2>1. n[2] = now
    OBVIOUS
  <2> HIDE DEF n
  <2>2. V \subseteq W
    BY <1>4, <2>1, Joins DEF Within, n
  <2>3. W \subseteq V
    BY Joins DEF Within
  <2>4. V = W
    BY <2>2, <2>3
  <2>5. r \in On(Today) => Cardinality(W) <= MinuteLimit
    BY <1>0 DEF QuotaInv, Limits
  <2>6. CASE r = n
    <3>1. Minute = 0 /\ r[2] = now
      BY <1>0, <1>4, <2>1, <2>6
    <3>2. W = {}
      <4> SUFFICES ASSUME NEW q \in W PROVE FALSE
        OBVIOUS
      <4>1. now <= q[2] /\ q[2] < now + 0 /\ q[2] \in Nat
        BY <1>0, <3>1, OnFinite DEF Within, QuotaTyped
      <4> QED
        BY <1>0, <4>1
    <3> QED
      BY <1>0, <2>4, <3>2, FS_EmptySet
  <2> HIDE DEF V, W
  <2>7. Cardinality(V) <= MinuteLimit
    BY <1>1, <2>4, <2>5, <2>6 DEF V
  <2> QED
    BY <2>7 DEF V
<1> QED
  BY <1>3, <1>4

LEMMA ReserveKeeps ==
  ASSUME QuotaInv, NEW k \in Keys, reserveProviderCredit(k)
  PROVE  QuotaInv'
<1>0. /\ QuotaTyped /\ Today \in Nat /\ Today * Day <= now /\ now < Today * Day + Day
      /\ now' = now /\ day' = Today /\ used' = Used + 1 /\ Today' = Today
      /\ lastByKey' = [l \in DOMAIN Last \cup {k} |-> IF l = k THEN now ELSE Last[l]]
      /\ requests' = requests \cup {<<k, now>>}
  BY DayBegins DEF QuotaInv, QuotaTyped, reserveProviderCredit, Today
<1>1. QuotaTyped'
  <2>1. IsFiniteSet(requests')
    BY <1>0, FS_AddElement DEF QuotaTyped
  <2>2. IsFiniteSet(DOMAIN lastByKey')
    BY <1>0, TodayKnown, FS_AddElement
  <2>3. lastByKey' \in [DOMAIN lastByKey' -> Int]
    BY <1>0, TodayKnown DEF QuotaTyped
  <2> QED
    BY <1>0, <2>1, <2>2, <2>3, TodayKnown DEF QuotaTyped
<1>2. \A d : On(d)' = {r \in requests' : d * Day <= r[2] /\ r[2] < d * Day + Day}
  BY DEF On, Within
<1>3. DayKnown'
  <2>1. \A r \in requests' : r[2] <= now' /\ r[2] < day' * Day + Day
    <3> SUFFICES ASSUME NEW r \in requests' PROVE r[2] <= now /\ r[2] < Today * Day + Day
      BY <1>0
    <3>1. r[2] \in Nat /\ r[2] <= now
      BY <1>0 DEF QuotaInv, DayKnown, QuotaTyped
    <3>2. now \in Nat /\ Today * Day \in Int
      BY <1>0, DayStart DEF QuotaTyped
    <3> HIDE DEF Today
    <3> QED
      BY <1>0, <3>1, <3>2, DayLength
  <2>2. On(day)' = On(Today)'
    BY <1>0, <1>2
  <2>3. \A r \in On(Today)' : r[1] \in DOMAIN lastByKey' /\ r[2] <= lastByKey'[r[1]]
    <3> SUFFICES ASSUME NEW r \in On(Today) \cup {<<k, now>>}
                 PROVE  r[1] \in DOMAIN lastByKey' /\ r[2] <= lastByKey'[r[1]]
      BY Joins
    <3>1. now \in Nat /\ r[2] <= now
      BY <1>0, OfDay DEF QuotaInv, DayKnown, QuotaTyped
    <3> QED
      BY <1>0, <3>1, TodayKnown
  <2>4. Cardinality(On(Today)') <= used'
    BY <1>0, ReserveCounts
  <2> QED
    BY <1>0, <2>1, <2>2, <2>3, <2>4 DEF DayKnown
<1>4. Limits(Today)'
  <2>1. Cardinality(On(Today)') <= DayLimit
    <3>1. Cardinality(On(Today)') \in Nat
      BY <1>0, Joins, OnFinite, FS_AddElement, FS_CardinalityType
    <3> QED
      BY <3>1, ReserveCounts, TodayKnown, DayLength
  <2> QED
    BY <1>0, <2>1, ReserveCools, ReserveSpreads DEF Limits, Within
<1>5. ASSUME NEW d \in Nat \ {Today} PROVE Limits(d)'
  <2>1. On(d)' = On(d)
    BY <1>5, Joins
  <2> QED
    BY <1>5, <2>1 DEF QuotaInv, Limits, Within
<1>6. \A d \in Nat : Limits(d)'
  <2> SUFFICES ASSUME NEW d \in Nat PROVE Limits(d)'
    OBVIOUS
  <2>1. CASE d = Today
    <3>1. Limits(d)' <=> Limits(Today)'
      BY <1>0, <2>1 DEF Limits, On, Within
    <3> QED
      BY <1>4, <3>1
  <2> QED
    BY <1>5, <2>1
<1> QED
  BY <1>1, <1>3, <1>6 DEF QuotaInv

LEMMA QuotaStarts == QuotaInit => QuotaInv
<1> SUFFICES ASSUME QuotaInit PROVE QuotaInv
  OBVIOUS
<1>1. requests = {} /\ now = 0 /\ day = -1 /\ used = 0 /\ lastByKey = [k \in {} |-> 0]
  BY DEF QuotaInit, NoDay, NoneToday
<1>2. \A d : On(d) = {}
  BY <1>1 DEF On, Within
<1>3. QuotaTyped
  BY <1>1, FS_EmptySet DEF QuotaTyped
<1>4. DayKnown
  BY <1>1, <1>2, FS_EmptySet, DayLength DEF DayKnown
<1>5. \A d \in Nat : Limits(d)
  BY <1>2, FS_EmptySet, DayLength DEF Limits
<1> QED
  BY <1>3, <1>4, <1>5 DEF QuotaInv

LEMMA QuotaStep == QuotaInv /\ [QuotaNext]_quotaVars => QuotaInv'
<1> SUFFICES ASSUME QuotaInv, [QuotaNext]_quotaVars PROVE QuotaInv'
  OBVIOUS
<1>1. CASE UNCHANGED <<day, used, lastByKey, requests>> /\ now' >= now /\ now' \in Nat
  <2>1. \A d : On(d)' = On(d)
    BY <1>1 DEF On, Within
  <2>2. DayKnown'
    <3>1. day * Day \in Int /\ now \in Nat /\ \A r \in requests : r[2] \in Nat
      BY DayStart DEF QuotaInv, QuotaTyped
    <3> QED
      BY <1>1, <2>1, <3>1 DEF QuotaInv, DayKnown
  <2> QED
    BY <1>1, <2>1, <2>2 DEF QuotaInv, QuotaTyped, Limits, Within
<1>2. CASE Tick
  BY <1>1, <1>2 DEF Tick, QuotaInv, QuotaTyped
<1>3. CASE UNCHANGED quotaVars
  BY <1>1, <1>3 DEF quotaVars, QuotaInv, QuotaTyped
<1> QED
  BY <1>2, <1>3, ReserveKeeps DEF QuotaNext

\* Whatever the limits and the durations, within one UTC day the provider is asked at most
\* DayLimit times, at most MinuteLimit times in any minute, and for one key again only
\* after the cooldown, however often a stale day is reset.
THEOREM BudgetsKept == QuotaSpec => []BudgetsOfDay
<1>1. QuotaInv => BudgetsOfDay
  <2> SUFFICES ASSUME QuotaInv PROVE BudgetsOfDay
    OBVIOUS
  <2>1. \A d \in Days : d \in Nat
    BY DEF Days
  <2> QED
    BY <2>1 DEF QuotaInv, Limits, BudgetsOfDay, DailyBudget, MinuteBudgetOfDay, CooldownOfDay
<1> QED
  BY <1>1, QuotaStarts, QuotaStep, PTL DEF QuotaSpec

--------------------------------------------------------------------------------
(***************************************************************************)
(* The account, for any candles, costs, sizes and rules.                   *)
(***************************************************************************)

Position == [sign : Signals, entry : Int, stop : Int, target : Int, units : Nat, held : Nat,
             gross : Int, costs : Int, partialDone : BOOLEAN]
Acct == [balance : Int, peak : Int, breached : BOOLEAN, position : Position,
         pending : Signals, net : Int, trades : Nat, status : {"ACTIVE", "PAUSED"}]

IsOpen(p) == p.sign \in {-1, 1} /\ p.units > 0
Booked(a) == a.balance = (InitialBalance + a.net) + (a.position.gross - a.position.costs)

Sound(a) ==
  /\ a \in Acct
  /\ a.position = Flat \/ IsOpen(a.position)
  /\ a.pending # 0 => a.position = Flat
  /\ Booked(a)

LEMMA Numbers ==
  /\ InitialBalance \in Nat /\ AskOver \in Nat /\ BidUnder \in Nat /\ Slip \in Nat /\ Fee \in Nat
  /\ Rate \in Nat /\ MarginOf \in Nat /\ MaxHold \in Nat
  /\ LossDenominator \in Nat \ {0} /\ StopDistance \in Nat \ {0} /\ TargetDistance \in Nat \ {0}
  /\ \A side \in Int : quoteOffset(side) \in Int
  BY MoneyAssumption DEF quoteOffset

LEMMA BarNumbers ==
  ASSUME NEW bar \in Bars
  PROVE  /\ bar.open \in Int /\ bar.high \in Int /\ bar.low \in Int /\ bar.close \in Int
         /\ bar.low <= bar.close /\ bar.close <= bar.high
  BY BarsAssumption

LEMMA Fields ==
  ASSUME NEW a \in Acct
  PROVE  /\ a.balance \in Int /\ a.peak \in Int /\ a.breached \in BOOLEAN /\ a.position \in Position
         /\ a.pending \in Signals /\ a.net \in Int /\ a.trades \in Nat /\ a.status \in {"ACTIVE", "PAUSED"}
         /\ a.position.sign \in Int /\ a.position.entry \in Int /\ a.position.stop \in Int
         /\ a.position.target \in Int /\ a.position.units \in Nat /\ a.position.held \in Nat
         /\ a.position.gross \in Int /\ a.position.costs \in Int /\ a.position.partialDone \in BOOLEAN
         /\ a.position.sign \in Signals
  BY DEF Acct, Position, Signals

LEMMA FlatPosition ==
  /\ Flat \in Position /\ Flat.sign = 0 /\ Flat.units = 0 /\ Flat.gross = 0 /\ Flat.costs = 0
  /\ ~ IsOpen(Flat)
  BY DEF Flat, Position, Signals, IsOpen

LEMMA Products == \A x, y \in Int : x * y \in Int
  OBVIOUS

LEMMA EquityType ==
  ASSUME NEW a \in Acct, NEW ref \in Int
  PROVE  Equity(a, ref) \in Int
<1>1. quoteOffset(-a.position.sign) \in Int /\ a.position.sign * Slip \in Int
      /\ a.position.units * Fee \in Int
  BY Fields, Numbers, Products
<1> DEFINE ex == ref + quoteOffset(-a.position.sign) - a.position.sign * Slip
<1>2. ex \in Int
  BY <1>1
<1>3. (ex - a.position.entry) * a.position.sign * a.position.units \in Int
  <2>1. ex - a.position.entry \in Int
    BY <1>2, Fields
  <2>2. (ex - a.position.entry) * a.position.sign \in Int
    BY <2>1, Fields, Products
  <2> QED
    BY <2>2, Fields, Products
<1> QED
  BY <1>1, <1>2, <1>3, Fields DEF Equity

(***************************************************************************)
(* The account's parts of a candle keep its money.                         *)
(***************************************************************************)
LEMMA MarkSound ==
  ASSUME NEW a, Sound(a), NEW ref \in Int
  PROVE  /\ Sound(mark(a, ref)) /\ mark(a, ref).position = a.position
         /\ mark(a, ref).status = a.status /\ mark(a, ref).pending = a.pending
         /\ mark(a, ref).balance = a.balance
         /\ mark(a, ref).peak = Higher(a.peak, Equity(a, ref))
         /\ mark(a, ref).breached = (a.breached \/
              LossDenominator * (Higher(a.peak, Equity(a, ref)) - Equity(a, ref))
                >= Higher(a.peak, Equity(a, ref)))
<1>1. a \in Acct /\ Equity(a, ref) \in Int
  BY EquityType DEF Sound
<1>2. Higher(a.peak, Equity(a, ref)) \in Int
  BY <1>1, Fields DEF Higher
<1> DEFINE h == Higher(a.peak, Equity(a, ref))
           b == a.breached \/ LossDenominator * (h - Equity(a, ref)) >= h
<1>3. mark(a, ref) = [a EXCEPT !.peak = h, !.breached = b]
  BY <1>1 DEF mark, Acct
<1>4. b \in BOOLEAN /\ h \in Int
  BY <1>1, <1>2, Fields
<1> HIDE DEF h, b
<1>5. /\ mark(a, ref) \in Acct /\ mark(a, ref).position = a.position
      /\ mark(a, ref).status = a.status /\ mark(a, ref).pending = a.pending
      /\ mark(a, ref).balance = a.balance /\ mark(a, ref).net = a.net
      /\ mark(a, ref).peak = h /\ mark(a, ref).breached = b
  BY <1>1, <1>3, <1>4 DEF Acct
<1>6. Sound(mark(a, ref))
  BY <1>5 DEF Sound, Booked
<1> QED
  BY <1>5, <1>6 DEF h, b

LEMMA OpenedSound ==
  ASSUME NEW a, Sound(a), a.pending # 0, NEW open \in Int, NEW units \in Nat
  PROVE  Sound(opened(a, open, units)) /\ opened(a, open, units).status = a.status
<1>1. a \in Acct /\ a.position = Flat /\ a.pending \in {-1, 1} /\ Booked(a)
  BY Fields DEF Sound, Signals
<1>2. CASE units = 0
  <2>1. opened(a, open, units) = [a EXCEPT !.pending = 0]
    BY <1>2 DEF opened
  <2> QED
    BY <1>1, <2>1 DEF Sound, Acct, Signals, Booked
<1>3. CASE units # 0
  <2> DEFINE fill == open + quoteOffset(a.pending) + a.pending * Slip
             stop == fill - a.pending * StopDistance
             target == fill + a.pending * TargetDistance
             fee == units * Fee
             p == [Flat EXCEPT !.sign = a.pending, !.entry = fill, !.units = units, !.stop = stop,
                               !.target = target, !.costs = fee]
  <2>1. opened(a, open, units) = [a EXCEPT !.pending = 0, !.balance = @ - fee, !.position = p]
    BY <1>3 DEF opened
  <2>2. fill \in Int /\ fee \in Int
    <3>1. quoteOffset(a.pending) \in Int /\ a.pending * Slip \in Int /\ fee \in Int
      BY <1>1, Numbers, Products
    <3> QED
      BY <3>1
  <2>3. stop \in Int /\ target \in Int
    <3>1. a.pending * StopDistance \in Int /\ a.pending * TargetDistance \in Int
      BY <1>1, Numbers, Products
    <3> QED
      BY <2>2, <3>1
  <2> HIDE DEF fill, stop, target, fee
  <2>4. p \in Position /\ IsOpen(p) /\ p.gross = 0 /\ p.costs = fee
    <3>1. Flat \in Position /\ a.pending \in Signals
      BY <1>1, FlatPosition DEF Signals
    <3>2. p \in Position
      BY <1>1, <2>2, <2>3, <3>1 DEF Position
    <3>3. p.sign = a.pending /\ p.units = units /\ p.gross = Flat.gross /\ p.costs = fee
      BY <1>1, <2>2, <2>3, <3>1 DEF Position
    <3> QED
      BY <1>1, <1>3, <3>2, <3>3, FlatPosition DEF IsOpen
  <2> HIDE DEF p
  <2>5. /\ opened(a, open, units) \in Acct /\ opened(a, open, units).position = p
        /\ opened(a, open, units).status = a.status /\ opened(a, open, units).pending = 0
        /\ opened(a, open, units).balance = a.balance - fee /\ opened(a, open, units).net = a.net
    <3>1. 0 \in Signals /\ a.balance - fee \in Int
      BY <1>1, <2>2, Fields DEF Signals
    <3> QED
      BY <1>1, <2>1, <2>4, <3>1 DEF Acct
  <2>6. Booked(opened(a, open, units))
    BY <1>1, <2>2, <2>4, <2>5, FlatPosition, Fields, Numbers DEF Booked
  <2> QED
    BY <2>4, <2>5, <2>6 DEF Sound
<1> QED
  BY <1>2, <1>3

LEMMA HeldSound ==
  ASSUME NEW a, Sound(a), IsOpen(a.position), NEW bar, NEW nights \in Nat
  PROVE  /\ Sound(Held(a, bar, nights)) /\ IsOpen(Held(a, bar, nights).position)
         /\ Held(a, bar, nights).status = a.status /\ Held(a, bar, nights).pending = 0
<1>1. a \in Acct /\ Booked(a) /\ a.pending = 0
  BY FlatPosition DEF Sound
<1> DEFINE charge == nights * Rate * a.position.units
           p == [a.position EXCEPT !.costs = @ + charge, !.held = @ + 1]
<1>2. charge \in Int
  <2>1. nights * Rate \in Int
    BY Numbers, Products
  <2> QED
    BY <1>1, <2>1, Fields, Products
<1>3. Held(a, bar, nights) = [a EXCEPT !.balance = @ - charge, !.position = p]
  <2> DEFINE b == financing(a, nights)
             q == [a.position EXCEPT !.costs = @ + charge]
  <2>1. b = [a EXCEPT !.balance = @ - charge, !.position.costs = @ + charge]
    BY DEF financing
  <2>2. a.position \in Position /\ a.position.costs + charge \in Int
    BY <1>1, <1>2, Fields
  <2> HIDE DEF charge
  <2>3. b = [a EXCEPT !.balance = @ - charge, !.position = q]
    BY <1>1, <1>2, <2>1 DEF Acct
  <2>4. q \in Position /\ p = [q EXCEPT !.held = @ + 1]
    BY <2>2 DEF Position
  <2> HIDE DEF b, q
  <2>5. b \in Acct /\ b.position = q
    <3>1. a.balance - charge \in Int
      BY <1>1, <1>2, Fields
    <3> QED
      BY <1>1, <2>3, <2>4, <3>1 DEF Acct
  <2>6. Held(a, bar, nights) = [b EXCEPT !.position.held = @ + 1]
    BY DEF Held, b
  <2>7. Held(a, bar, nights) = [b EXCEPT !.position = [q EXCEPT !.held = @ + 1]]
    BY <2>5, <2>6 DEF Acct
  <2> HIDE DEF p
  <2> QED
    BY <1>1, <2>3, <2>4, <2>7 DEF Acct
<1> HIDE DEF charge
<1>4. /\ p \in Position /\ IsOpen(p) /\ p.gross = a.position.gross
      /\ p.costs = a.position.costs + charge
  <2>1. a.position \in Position /\ a.position.costs + charge \in Int /\ a.position.held + 1 \in Nat
    BY <1>1, <1>2, Fields
  <2>2. p \in Position
    BY <2>1 DEF Position
  <2> QED
    BY <2>1, <2>2 DEF Position, IsOpen
<1> HIDE DEF p
<1>5. /\ Held(a, bar, nights) \in Acct /\ Held(a, bar, nights).position = p
      /\ Held(a, bar, nights).status = a.status /\ Held(a, bar, nights).pending = 0
      /\ Held(a, bar, nights).balance = a.balance - charge
      /\ Held(a, bar, nights).net = a.net
  <2>1. a.balance - charge \in Int
    BY <1>1, <1>2, Fields
  <2> QED
    BY <1>1, <1>3, <1>4, <2>1 DEF Acct
<1>6. Booked(Held(a, bar, nights))
  BY <1>1, <1>2, <1>4, <1>5, Fields, Numbers DEF Booked
<1> QED
  BY <1>4, <1>5, <1>6 DEF Sound

(* What selling units at a price brings.                                     *)
Gain(p, price, units) == (price - p.entry) * p.sign * units

LEMMA GainType ==
  ASSUME NEW a \in Acct, NEW price \in Int, NEW units \in Nat
  PROVE  Gain(a.position, price, units) \in Int
<1>1. (price - a.position.entry) * a.position.sign \in Int
  BY Fields, Products
<1> QED
  BY <1>1, Products DEF Gain

LEMMA CloseSound ==
  ASSUME NEW a, Sound(a), IsOpen(a.position), NEW price \in Int,
         NEW units \in 1..a.position.units
  PROVE  LET c == closeUnits(a, price, units) IN
         /\ Sound(c) /\ c.status = a.status /\ c.pending = 0
         /\ c.breached = a.breached /\ c.peak = a.peak
         /\ units = a.position.units => c.position = Flat
         /\ units # a.position.units =>
              /\ IsOpen(c.position) /\ c.position.sign = a.position.sign
              /\ c.position.entry = a.position.entry
              /\ c.position.units = a.position.units - units
              /\ c.balance = a.balance + (Gain(a.position, price, units) - units * Fee)
<1> DEFINE gain == Gain(a.position, price, units)
           fee == units * Fee
           p == a.position
           q == [p EXCEPT !.gross = @ + gain, !.costs = @ + fee, !.units = @ - units,
                          !.partialDone = TRUE]
           paid == [a EXCEPT !.balance = @ + gain - fee]
           c == closeUnits(a, price, units)
<1>1. a \in Acct /\ Booked(a) /\ a.pending = 0 /\ p \in Position
  BY FlatPosition, Fields DEF Sound
<1>2. gain \in Int /\ fee \in Int /\ units \in Nat /\ p.units - units \in Nat
      /\ (p.units = units <=> ~ p.units - units > 0)
  <2>1. units \in Nat /\ p.units \in Nat /\ units <= p.units
    BY <1>1, Fields
  <2> QED
    <3>1. gain \in Int
      BY <1>1, <2>1, GainType
    <3>2. fee \in Int
      BY <2>1, Numbers, Products
    <3> HIDE DEF gain, fee, p
    <3> QED
      BY <2>1, <3>1, <3>2
<1>3. c = IF q.units > 0 THEN [paid EXCEPT !.position = q]
          ELSE [paid EXCEPT !.position = Flat, !.net = @ + q.gross - q.costs, !.trades = @ + 1]
  BY DEF closeUnits, Gain
<1> HIDE DEF gain, fee, c
<1>4. p.gross + gain \in Int /\ p.costs + fee \in Int /\ a.balance + (gain - fee) \in Int
  BY <1>1, <1>2, Fields
<1>5. /\ q \in Position /\ q.gross = p.gross + gain /\ q.costs = p.costs + fee
      /\ q.units = p.units - units /\ q.sign = p.sign /\ q.entry = p.entry
  <2> HIDE DEF p
  <2>1. p \in Position /\ p.gross + gain \in Int /\ p.costs + fee \in Int /\ p.units - units \in Nat
    BY <1>1, <1>2, <1>4
  <2> QED
    BY <2>1 DEF Position
<1> HIDE DEF q
<1>6. paid \in Acct /\ paid = [a EXCEPT !.balance = a.balance + (gain - fee)]
  <2>1. a.balance + gain - fee = a.balance + (gain - fee)
    BY <1>1, <1>2, Fields
  <2> QED
    BY <1>1, <1>4, <2>1 DEF Acct
<1>7. /\ paid.position = p /\ paid.balance = a.balance + (gain - fee) /\ paid.net = a.net
      /\ paid.status = a.status /\ paid.pending = 0 /\ paid.breached = a.breached
      /\ paid.peak = a.peak /\ paid.trades \in Nat
  BY <1>1, <1>4, <1>6 DEF Acct
<1> HIDE DEF paid
<1>8. a.balance = (InitialBalance + a.net) + (p.gross - p.costs)
  BY <1>1 DEF Booked
<1>9. CASE units # p.units
  <2>1. c = [paid EXCEPT !.position = q]
    BY <1>2, <1>3, <1>5, <1>9
  <2>2. /\ c \in Acct /\ c.position = q /\ c.balance = paid.balance /\ c.net = paid.net
        /\ c.status = paid.status /\ c.pending = paid.pending /\ c.breached = paid.breached
        /\ c.peak = paid.peak
    BY <1>5, <1>6, <2>1 DEF Acct
  <2>3. IsOpen(q)
    BY <1>2, <1>5, <1>9 DEF IsOpen
  <2>4. Booked(c)
    BY <1>1, <1>2, <1>5, <1>7, <1>8, <2>2, Fields, Numbers DEF Booked
  <2> QED
    BY <1>5, <1>7, <1>9, <2>2, <2>3, <2>4 DEF Sound, c, gain, fee
<1>10. CASE units = p.units
  <2>1. c = [paid EXCEPT !.position = Flat, !.net = @ + q.gross - q.costs, !.trades = @ + 1]
    BY <1>2, <1>3, <1>5, <1>10
  <2>2. paid.net + q.gross - q.costs = paid.net + (q.gross - q.costs)
        /\ paid.net + (q.gross - q.costs) \in Int /\ paid.trades + 1 \in Nat
    BY <1>1, <1>4, <1>5, <1>7, Fields
  <2>3. /\ c \in Acct /\ c.position = Flat /\ c.balance = paid.balance
        /\ c.net = paid.net + (q.gross - q.costs)
        /\ c.status = paid.status /\ c.pending = paid.pending /\ c.breached = paid.breached
        /\ c.peak = paid.peak
    BY <1>6, <2>1, <2>2, FlatPosition DEF Acct
  <2>4. Booked(c)
    BY <1>1, <1>2, <1>5, <1>7, <1>8, <2>3, Fields, FlatPosition, Numbers DEF Booked
  <2> QED
    BY <1>7, <1>10, <2>3, <2>4 DEF Sound, c
<1> QED
  BY <1>9, <1>10

LEMMA CloseAllSound ==
  ASSUME NEW a, Sound(a), IsOpen(a.position), NEW price \in Int
  PROVE  LET c == closeAll(a, price) IN
         Sound(c) /\ c.position = Flat /\ c.pending = 0 /\ c.status = a.status
<1>1. a.position.units \in 1..a.position.units
  BY Fields DEF Sound, IsOpen
<1> QED
  BY <1>1, CloseSound DEF closeAll

LEMMA PausedSound ==
  ASSUME NEW a, Sound(a)
  PROVE  /\ Sound(Paused(a)) /\ Paused(a).position = a.position /\ Paused(a).pending = a.pending
         /\ Paused(a).status = "PAUSED"
  BY DEF Paused, Sound, Acct, Booked

(***************************************************************************)
(* The equity of an open position at a price of the candle.                *)
(***************************************************************************)
Executable(p, reference) == reference + quoteOffset(-p.sign) - p.sign * Slip

LEMMA ExecutableType ==
  ASSUME NEW a \in Acct, NEW ref \in Int
  PROVE  Executable(a.position, ref) \in Int
<1>1. quoteOffset(-a.position.sign) \in Int /\ a.position.sign * Slip \in Int
  BY Fields, Numbers, Products
<1> QED
  BY <1>1 DEF Executable

LEMMA OpenEquity ==
  ASSUME NEW a, Sound(a), IsOpen(a.position), NEW ref \in Int
  PROVE  Equity(a, ref) = a.balance + Gain(a.position, Executable(a.position, ref), a.position.units)
                            - a.position.units * Fee
  BY DEF Equity, Gain, Executable, IsOpen

\* Selling a part brings its share.
LEMMA Shares ==
  ASSUME NEW y \in Int, NEW u \in Int, NEW h \in Int
  PROVE  y * h + y * (u - h) = y * u
  OBVIOUS

LEMMA TighterType == \A sign, x, y \in Int : Tighter(sign, x, y) \in Int
  BY DEF Tighter, Higher, Lower

(* A part is sold at the price the rest is marked at: the equity stays.      *)
LEMMA PartKeepsEquity ==
  ASSUME NEW a, Sound(a), IsOpen(a.position), NEW close \in Int,
         NEW half \in 1..a.position.units, half # a.position.units
  PROVE  LET b == closeUnits(a, Executable(a.position, close), half)
         IN  Equity(b, close) = Equity(a, close)
<1> DEFINE p == a.position
           ex == Executable(p, close)
           b == closeUnits(a, ex, half)
           y == (ex - p.entry) * p.sign
<1>1. a \in Acct /\ ex \in Int /\ half \in Int /\ p.units \in Int /\ a.balance \in Int
  BY ExecutableType, Fields DEF Sound
<1>2. y \in Int
  BY <1>1, Fields, Products
<1>3. /\ Sound(b) /\ IsOpen(b.position) /\ b.position.sign = p.sign /\ b.position.entry = p.entry
      /\ b.position.units = p.units - half
      /\ b.balance = a.balance + (Gain(p, ex, half) - half * Fee)
  BY <1>1, CloseSound
<1>4. Executable(b.position, close) = ex
  BY <1>3 DEF Executable
<1> HIDE DEF b
<1>5. Gain(p, ex, half) = y * half /\ Gain(p, ex, p.units) = y * p.units
      /\ Gain(b.position, ex, b.position.units) = y * (p.units - half)
  BY <1>3 DEF Gain
<1>6. /\ Equity(b, close) = a.balance + (y * half - half * Fee) + y * (p.units - half)
                                - (p.units - half) * Fee
      /\ Equity(a, close) = a.balance + y * p.units - p.units * Fee
  BY <1>3, <1>4, <1>5, OpenEquity
<1> HIDE DEF y, ex, p
<1>7. /\ y * half + y * (p.units - half) = y * p.units
      /\ Fee * half + Fee * (p.units - half) = Fee * p.units
  BY <1>1, <1>2, Shares, Numbers
<1>8. half * Fee = Fee * half /\ (p.units - half) * Fee = Fee * (p.units - half)
      /\ p.units * Fee = Fee * p.units
  BY <1>1, Numbers
<1>9. /\ y * half \in Int /\ y * (p.units - half) \in Int /\ y * p.units \in Int
      /\ Fee * half \in Int /\ Fee * (p.units - half) \in Int /\ Fee * p.units \in Int
  BY <1>1, <1>2, Numbers, Products
<1> QED
  <2> DEFINE A == y * half
             B == y * (p.units - half)
             C == y * p.units
             D == Fee * half
             E == Fee * (p.units - half)
             F == Fee * p.units
  <2>1. /\ Equity(b, close) = a.balance + (A - D) + B - E /\ Equity(a, close) = a.balance + C - F
        /\ A + B = C /\ D + E = F
    BY <1>6, <1>7, <1>8
  <2>2. A \in Int /\ B \in Int /\ C \in Int /\ D \in Int /\ E \in Int /\ F \in Int
    BY <1>9
  <2> HIDE DEF A, B, C, D, E, F
  <2>3. Equity(b, close) = Equity(a, close)
    BY <1>1, <2>1, <2>2
  <2> QED
    BY <2>3 DEF b, ex, p

(* Management may sell half and moves the stop, and nothing else.            *)
LEMMA StopMoved ==
  ASSUME NEW b, Sound(b), IsOpen(b.position), NEW stop \in Int
  PROVE  LET m == [b EXCEPT !.position.stop = stop] IN
         /\ Sound(m) /\ IsOpen(m.position) /\ m.status = b.status /\ m.pending = b.pending
         /\ m.breached = b.breached /\ m.peak = b.peak
         /\ \A ref \in Int : Equity(m, ref) = Equity(b, ref)
<1> DEFINE p == [b.position EXCEPT !.stop = stop]
           m == [b EXCEPT !.position.stop = stop]
<1>1. b \in Acct /\ b.position \in Position
  BY Fields DEF Sound
<1>2. m = [b EXCEPT !.position = p]
  BY <1>1 DEF Acct
<1>3. /\ p \in Position /\ p.sign = b.position.sign /\ p.units = b.position.units
      /\ p.entry = b.position.entry /\ p.gross = b.position.gross /\ p.costs = b.position.costs
  BY <1>1 DEF Position
<1> HIDE DEF p
<1>4. /\ m \in Acct /\ m.position = p /\ m.balance = b.balance /\ m.status = b.status
      /\ m.pending = b.pending /\ m.breached = b.breached /\ m.peak = b.peak /\ m.net = b.net
  BY <1>1, <1>2, <1>3 DEF Acct
<1> HIDE DEF m
<1>5. IsOpen(p)
  BY <1>3 DEF IsOpen
<1>6. b.pending = 0
  BY FlatPosition DEF Sound
<1>7. Sound(m)
  BY <1>3, <1>4, <1>5, <1>6 DEF Sound, Booked
<1>8. \A ref \in Int : Equity(m, ref) = Equity(b, ref)
  BY <1>3, <1>4, <1>7, <1>5, OpenEquity DEF Gain, Executable
<1> QED
  BY <1>4, <1>5, <1>7, <1>8 DEF m

LEMMA ManagedSound ==
  ASSUME rules \in RiskRules, NEW a, Sound(a), IsOpen(a.position), NEW close \in Int
  PROVE  LET m == Managed(a, close) IN
         /\ Sound(m) /\ IsOpen(m.position) /\ m.status = a.status /\ m.pending = 0
         /\ m.breached = a.breached /\ m.peak = a.peak
         /\ Equity(m, close) = Equity(a, close)
<1> DEFINE p == a.position
           price == close + quoteOffset(-p.sign)
           favorable == (price - p.entry) * p.sign
           half == p.units \div 2
           sells == /\ rules.partialAt > 0 /\ ~ p.partialDone
                    /\ favorable >= StopDistance * rules.partialAt /\ half > 0
           b == IF sells THEN closeUnits(a, price - p.sign * Slip, half) ELSE a
           even == IF rules.breakeven > 0 /\ favorable >= StopDistance * rules.breakeven
                   THEN Tighter(p.sign, p.stop, p.entry) ELSE p.stop
           trailed == IF rules.trailing > 0
                      THEN Tighter(p.sign, even, price - p.sign * rules.trailing) ELSE even
<1>1. a \in Acct /\ a.pending = 0 /\ p \in Position /\ rules.trailing \in Nat
  BY FlatPosition, Fields, MoneyAssumption DEF Sound
<1>2. p.sign \in Int /\ p.stop \in Int /\ p.entry \in Int /\ p.units \in Nat /\ price \in Int
      /\ p.sign * Slip \in Int
  <2>1. p.sign \in Int /\ p.stop \in Int /\ p.entry \in Int /\ p.units \in Nat
    BY <1>1, Fields, Numbers
  <2>2. p.sign * Slip \in Int
    BY <2>1, Numbers, Products
  <2>3. price \in Int
    <3>1. quoteOffset(-p.sign) \in Int
      BY <1>1, Fields, Numbers
    <3> QED
      BY <3>1
  <2> HIDE DEF p, price
  <2> QED
    BY <2>1, <2>2, <2>3
<1>3. Managed(a, close) = [b EXCEPT !.position.stop = trailed]
  BY DEF Managed
<1>4. trailed \in Int
  <2>1. p.sign * rules.trailing \in Int
    <3> HIDE DEF p
    <3> QED
      BY <1>1, <1>2, Products
  <2>2. even \in Int
    BY <1>2, TighterType
  <2> HIDE DEF even, price
  <2>3. price - p.sign * rules.trailing \in Int
    BY <1>2, <2>1
  <2> QED
    BY <1>2, <2>2, <2>3, TighterType
<1> HIDE DEF trailed, favorable
<1>5. /\ Sound(b) /\ IsOpen(b.position) /\ b.status = a.status /\ b.pending = 0
      /\ b.breached = a.breached /\ b.peak = a.peak /\ Equity(b, close) = Equity(a, close)
  <2>1. CASE ~ sells
    <3>1. b = a
      BY <2>1
    <3> QED
      BY <1>1, <3>1
  <2>2. CASE sells
    <3>1. half \in 1..p.units /\ half # p.units
      BY <1>2, <2>2
    <3>2. price - p.sign * Slip = Executable(p, close)
      <4>1. quoteOffset(-p.sign) \in Int
        BY <1>2, Numbers
      <4> QED
        BY <1>2, <4>1 DEF Executable
    <3>3. b = closeUnits(a, Executable(p, close), half)
      BY <2>2, <3>2
    <3>4. Executable(p, close) \in Int
      BY <1>1, ExecutableType
    <3> HIDE DEF half, b
    <3> QED
      BY <3>1, <3>3, <3>4, CloseSound, PartKeepsEquity
  <2> QED
    BY <2>1, <2>2
<1> HIDE DEF b
<1> QED
  BY <1>3, <1>4, <1>5, StopMoved

(***************************************************************************)
(* PausedIsFlat.  A candle an open position survives has closed on the     *)
(* better side of its worst price, where the account was not in breach;    *)
(* so the mark at the close does not pause it.                             *)
(***************************************************************************)
LEMMA Monotone ==
  ASSUME NEW x \in Int, NEW y \in Int, NEW u \in Nat, x <= y
  PROVE  x * u <= y * u /\ u * x <= u * y
  OBVIOUS

LEMMA EquityMonotone ==
  ASSUME NEW a, Sound(a), IsOpen(a.position), NEW low \in Int, NEW high \in Int,
         a.position.sign = 1 => low <= high,
         a.position.sign = -1 => high <= low
  PROVE  Equity(a, low) <= Equity(a, high)
<1> DEFINE p == a.position
           x == (Executable(p, low) - p.entry) * p.sign
           y == (Executable(p, high) - p.entry) * p.sign
<1>1. /\ a \in Acct /\ Executable(p, low) \in Int /\ Executable(p, high) \in Int /\ p.entry \in Int
      /\ p.units \in Nat /\ a.balance \in Int /\ p.units * Fee \in Int /\ p.sign \in {-1, 1}
  BY ExecutableType, Fields, Numbers, Products DEF Sound, IsOpen
<1>2. x \in Int /\ y \in Int /\ x <= y
  <2>1. quoteOffset(-p.sign) \in Int /\ p.sign * Slip \in Int
    BY <1>1, Numbers, Products
  <2>2. /\ p.sign = 1 => Executable(p, low) <= Executable(p, high)
        /\ p.sign = -1 => Executable(p, high) <= Executable(p, low)
    BY <2>1 DEF Executable
  <2>3. CASE p.sign = 1
    BY <1>1, <2>2, <2>3
  <2>4. CASE p.sign = -1
    BY <1>1, <2>2, <2>4
  <2> QED
    BY <1>1, <2>3, <2>4
<1>3. x * p.units <= y * p.units /\ x * p.units \in Int /\ y * p.units \in Int
  BY <1>1, <1>2, Monotone, Products
<1>4. /\ Equity(a, low) = a.balance + x * p.units - p.units * Fee
      /\ Equity(a, high) = a.balance + y * p.units - p.units * Fee
  BY OpenEquity DEF Gain
<1> HIDE DEF x, y, p
<1> QED
  BY <1>1, <1>3, <1>4

(* The account m marked without a breach is not in breach at a better price. *)
LEMMA NoLaterBreach ==
  ASSUME NEW L \in Nat \ {0}, NEW peak \in Int, NEW worst \in Int, NEW later \in Int,
         worst <= peak, worst <= later, ~ (L * (peak - worst) >= peak)
  PROVE  ~ (L * (Higher(peak, later) - later) >= Higher(peak, later))
<1>1. L * (peak - worst) \in Int /\ L * (peak - later) \in Int /\ L * (peak - worst) >= L * 0 /\ L * 0 = 0
      /\ L * (peak - later) <= L * (peak - worst)
  BY Monotone
<1>2. peak > 0
  BY <1>1
<1>3. CASE peak > later
  BY <1>1, <1>3 DEF Higher
<1>4. CASE ~ (peak > later)
  BY <1>1, <1>2, <1>4 DEF Higher
<1> QED
  BY <1>3, <1>4

LEMMA Survives ==
  ASSUME rules \in RiskRules, NEW h, Sound(h), IsOpen(h.position), NEW worst \in Int,
         NEW close \in Int,
         h.position.sign = 1 => worst <= close,
         h.position.sign = -1 => close <= worst,
         ~ mark(h, worst).breached
  PROVE  ~ mark(Managed(mark(h, worst), close), close).breached
<1> DEFINE m == mark(h, worst)
           c == Managed(m, close)
<1>1. /\ Sound(m) /\ m.position = h.position /\ m.balance = h.balance /\ h \in Acct
      /\ m.peak = Higher(h.peak, Equity(h, worst))
      /\ ~ (LossDenominator * (m.peak - Equity(h, worst)) >= m.peak) /\ ~ m.breached
  BY MarkSound DEF Sound
<1>2. /\ Sound(c) /\ c.peak = m.peak /\ ~ c.breached /\ Equity(c, close) = Equity(m, close)
  <2>1. IsOpen(m.position)
    BY <1>1
  <2> HIDE DEF m
  <2>2. /\ Sound(c) /\ c.peak = m.peak /\ c.breached = m.breached
        /\ Equity(c, close) = Equity(m, close)
    BY <1>1, <2>1, ManagedSound
  <2> QED
    BY <1>1, <2>2, Zenon
<1>3. Equity(m, close) = Equity(h, close)
  BY <1>1 DEF Equity
<1>4. Equity(h, worst) <= Equity(h, close) /\ Equity(h, worst) \in Int /\ Equity(h, close) \in Int
  BY <1>1, EquityMonotone, EquityType
<1>5. m.peak \in Int /\ Equity(h, worst) <= m.peak
  BY <1>1, <1>4, Fields DEF Higher
<1> HIDE DEF c, m
<1>6. ~ (LossDenominator * (Higher(m.peak, Equity(h, close)) - Equity(h, close))
           >= Higher(m.peak, Equity(h, close)))
  BY <1>1, <1>4, <1>5, NoLaterBreach, Numbers
<1>7. mark(c, close).breached = (c.breached \/
        LossDenominator * (Higher(c.peak, Equity(c, close)) - Equity(c, close))
          >= Higher(c.peak, Equity(c, close)))
  BY <1>2, MarkSound
<1>8. ~ mark(c, close).breached
  BY <1>2, <1>3, <1>6, <1>7, Zenon
<1> QED
  BY <1>8 DEF c, m

LEMMA AdverseType ==
  ASSUME NEW a \in Acct, NEW bar \in Bars
  PROVE  /\ Adverse(a.position, bar) \in Int /\ quoteOffset(-a.position.sign) \in Int
         /\ Adverse(a.position, bar) - quoteOffset(-a.position.sign) \in Int
<1>1. /\ a.position.stop \in Int /\ quoteOffset(-a.position.sign) \in Int
      /\ bar.open \in Int /\ bar.low \in Int /\ bar.high \in Int
  BY Fields, BarNumbers, Numbers
<1>2. Adverse(a.position, bar) \in Int
  BY <1>1 DEF Adverse, Lower, Higher
<1> QED
  BY <1>1, <1>2

LEMMA WorkedEnds ==
  ASSUME rules \in RiskRules, NEW h, Sound(h), IsOpen(h.position), h.status = "ACTIVE",
         NEW bar \in Bars, NEW signal
  PROVE  LET m == mark(h, Adverse(h.position, bar) - quoteOffset(-h.position.sign))
             w == Worked(m, bar, signal)
         IN  /\ Sound(w) /\ w.pending = 0
             /\ w.position = Flat \/ (w.status = "ACTIVE" /\ ~ mark(w, bar.close).breached)
<1> DEFINE adverse == Adverse(h.position, bar)
           offset == quoteOffset(-h.position.sign)
           m == mark(h, adverse - offset)
           w == Worked(m, bar, signal)
           p == h.position
           slipped == adverse - p.sign * Slip
           close == bar.close + offset - p.sign * Slip
<1>1. h \in Acct /\ h.pending = 0
  BY FlatPosition DEF Sound
<1>2. adverse \in Int /\ offset \in Int /\ adverse - offset \in Int /\ bar.close \in Int
      /\ p.sign * Slip \in Int /\ p.target \in Int
  BY <1>1, AdverseType, BarNumbers, Fields, Numbers, Products
<1>3. slipped \in Int /\ close \in Int
  <2> HIDE DEF adverse, offset, p
  <2> QED
    BY <1>2
<1>4. /\ Sound(m) /\ m.position = p /\ IsOpen(m.position) /\ m.status = "ACTIVE" /\ m.pending = 0
      /\ m \in Acct
  BY <1>1, <1>2, MarkSound DEF Sound
<1>5. w = IF ~ StopHit(p, bar) /\ TooMuchLost(m, adverse - offset) THEN Paused(closeAll(m, slipped))
          ELSE IF StopHit(p, bar) THEN closeAll(m, slipped)
          ELSE IF TargetHit(p, bar) THEN closeAll(m, p.target)
          ELSE IF p.held >= MaxHold \/ signal \notin {0, p.sign} THEN closeAll(m, close)
          ELSE Managed(m, bar.close)
  BY <1>4 DEF Worked
<1>6. \A price \in Int : LET c == closeAll(m, price) IN Sound(c) /\ c.position = Flat /\ c.pending = 0
  BY <1>4, CloseAllSound
<1>7. CASE ~ StopHit(p, bar) /\ TooMuchLost(m, adverse - offset)
  <2>1. w = Paused(closeAll(m, slipped))
    BY <1>5, <1>7
  <2> HIDE DEF m, slipped, w
  <2>2. Sound(w) /\ w.position = Flat /\ w.pending = 0
    BY <1>3, <1>6, <2>1, PausedSound
  <2> QED
    BY <2>2 DEF w, m
<1>8. CASE ~ (~ StopHit(p, bar) /\ TooMuchLost(m, adverse - offset)) /\ w # Managed(m, bar.close)
  <2>1. \E price \in Int : w = closeAll(m, price)
    BY <1>2, <1>3, <1>5, <1>8
  <2> HIDE DEF m, w
  <2>2. Sound(w) /\ w.position = Flat /\ w.pending = 0
    BY <1>6, <2>1
  <2> QED
    BY <2>2 DEF w, m
<1>9. CASE ~ StopHit(p, bar) /\ ~ TooMuchLost(m, adverse - offset) /\ w = Managed(m, bar.close)
  <2>1. ~ m.breached
    BY <1>9 DEF TooMuchLost
  <2>2. /\ p.sign = 1 => adverse - offset = bar.low
        /\ p.sign = -1 => adverse - offset = bar.high
    BY <1>2, <1>9, BarNumbers DEF Adverse
  <2>3. /\ p.sign = 1 => adverse - offset <= bar.close
        /\ p.sign = -1 => bar.close <= adverse - offset
    BY <2>2, BarNumbers
  <2> HIDE DEF adverse, offset
  <2>4. ~ mark(Managed(m, bar.close), bar.close).breached
    BY <1>2, <2>1, <2>3, Survives
  <2> HIDE DEF m, w
  <2>5. Sound(w) /\ w.pending = 0 /\ w.status = "ACTIVE"
    BY <1>2, <1>4, <1>9, ManagedSound
  <2>6. ~ mark(w, bar.close).breached
    BY <1>9, <2>4
  <2> QED
    BY <2>5, <2>6 DEF w, m, adverse, offset
<1>10. w # Managed(m, bar.close) \/ (~ StopHit(p, bar) /\ ~ TooMuchLost(m, adverse - offset))
          \/ (StopHit(p, bar) /\ w = closeAll(m, slipped))
          \/ (~ StopHit(p, bar) /\ TooMuchLost(m, adverse - offset))
  BY <1>5
<1>11. CASE StopHit(p, bar) /\ w = closeAll(m, slipped)
  <2> HIDE DEF m, w, slipped
  <2>1. Sound(w) /\ w.position = Flat /\ w.pending = 0
    BY <1>3, <1>6, <1>11
  <2> QED
    BY <2>1 DEF w, m
<1> QED
  BY <1>7, <1>8, <1>9, <1>10, <1>11

LEMMA ClosedSound ==
  ASSUME NEW b, Sound(b), b.pending = 0, NEW bar \in Bars, NEW signal \in Signals,
         b.position = Flat \/ (b.status = "ACTIVE" /\ ~ mark(b, bar.close).breached)
  PROVE  LET c == Closed(b, bar, signal) IN
         Sound(c) /\ (c.status = "PAUSED" => c.position = Flat /\ c.pending = 0)
<1> DEFINE m == mark(b, bar.close)
           d == IF m.breached THEN [Paused(m) EXCEPT !.pending = 0] ELSE m
           c == Closed(b, bar, signal)
<1>1. /\ Sound(m) /\ m.position = b.position /\ m.status = b.status /\ m.pending = 0
  BY BarNumbers, MarkSound
<1>2. /\ Sound(d) /\ d.pending = 0 /\ (d.status = "PAUSED" => d.position = Flat)
  <2>1. CASE m.breached
    <3>1. Sound(Paused(m)) /\ Paused(m).position = Flat
      BY <1>1, <2>1, PausedSound
    <3>2. d = [Paused(m) EXCEPT !.pending = 0]
      BY <2>1
    <3> HIDE DEF m, d
    <3>3. 0 \in Signals
      BY DEF Signals
    <3> QED
      BY <3>1, <3>2, <3>3 DEF Sound, Acct, Booked
  <2>2. CASE ~ m.breached
    <3>1. d = m
      BY <2>2
    <3>2. m.status = "PAUSED" => m.position = Flat
      BY <1>1
    <3> HIDE DEF m, d
    <3> QED
      BY <1>1, <3>1, <3>2
  <2> QED
    BY <2>1, <2>2
<1>3. c = acceptSignal(d, signal)
  BY DEF Closed
<1> HIDE DEF d, c
<1>4. CASE c = d
  BY <1>2, <1>4 DEF c
<1>5. CASE signal # 0 /\ d.status = "ACTIVE" /\ d.position = Flat /\ c = [d EXCEPT !.pending = signal]
  <2>1. Sound(c) /\ c.status = "ACTIVE"
    BY <1>2, <1>5 DEF Sound, Acct, Booked
  <2> QED
    BY <2>1 DEF c
<1> QED
  BY <1>3, <1>4, <1>5 DEF acceptSignal

AccountInv == Sound(account) /\ rules \in RiskRules /\ PausedIsFlat

LEMMA AccountStarts == AccountInit => AccountInv
<1> SUFFICES ASSUME AccountInit PROVE AccountInv
  OBVIOUS
<1>1. account = createAccount /\ rules \in RiskRules
  BY DEF AccountInit
<1>2. createAccount \in Acct
  BY FlatPosition, Numbers DEF createAccount, Acct, Signals
<1>3. /\ createAccount.position = Flat /\ createAccount.pending = 0 /\ createAccount.status = "ACTIVE"
      /\ createAccount.balance = InitialBalance /\ createAccount.net = 0
  BY DEF createAccount
<1>4. Booked(createAccount)
  BY <1>3, FlatPosition, Numbers DEF Booked
<1> QED
  BY <1>1, <1>2, <1>3, <1>4 DEF AccountInv, Sound, PausedIsFlat

LEMMA ProcessSound ==
  ASSUME AccountInv, NEW bar \in Bars, NEW signal \in Signals, NEW units \in Nat, NEW nights \in Nat,
         processBar(bar, signal, units, nights)
  PROVE  AccountInv'
<1>1. rules' \in RiskRules
  BY DEF AccountInv, processBar
<1>2. CASE account.status # "ACTIVE"
  BY <1>1, <1>2 DEF AccountInv, processBar, PausedIsFlat
<1>3. CASE account.status = "ACTIVE"
  <2> DEFINE a == IF account.pending = 0 THEN account ELSE opened(account, bar.open, units)
             b == IF a.position = Flat THEN a ELSE WithPosition(a, bar, signal, nights)
  <2>1. account' = Closed(b, bar, signal)
    BY <1>3 DEF processBar
  <2>2. Sound(a) /\ a.status = "ACTIVE" /\ a.pending = 0
    <3>1. CASE account.pending = 0
      BY <1>3, <3>1 DEF AccountInv
    <3>2. CASE account.pending # 0
      <4>1. a = opened(account, bar.open, units)
        BY <3>2
      <4>2. Sound(account) /\ bar.open \in Int
        BY BarNumbers DEF AccountInv
      <4> HIDE DEF a
      <4>3. Sound(a) /\ a.status = "ACTIVE"
        BY <1>3, <3>2, <4>1, <4>2, OpenedSound
      <4>4. a.pending = 0
        <5>1. account \in Acct
          BY <4>2 DEF Sound
        <5> QED
          BY <4>1, <5>1 DEF opened, Acct
      <4> QED
        BY <4>3, <4>4
    <3> QED
      BY <3>1, <3>2
  <2> HIDE DEF a
  <2>3. /\ Sound(b) /\ b.pending = 0
        /\ b.position = Flat \/ (b.status = "ACTIVE" /\ ~ mark(b, bar.close).breached)
    <3>1. CASE a.position = Flat
      BY <2>2, <3>1
    <3>2. CASE a.position # Flat
      <4> DEFINE h == Held(a, bar, nights)
      <4>1. IsOpen(a.position)
        BY <2>2, <3>2 DEF Sound
      <4>2. Sound(h) /\ IsOpen(h.position) /\ h.status = "ACTIVE"
        BY <2>2, <4>1, HeldSound
      <4>3. b = Worked(mark(h, Adverse(h.position, bar) - quoteOffset(-h.position.sign)), bar, signal)
        BY <3>2 DEF WithPosition
      <4> HIDE DEF h, b
      <4> QED
        BY <4>2, <4>3, WorkedEnds DEF AccountInv
    <3> QED
      BY <3>1, <3>2
  <2> HIDE DEF b
  <2>4. Sound(account') /\ (account'.status = "PAUSED" => account'.position = Flat /\ account'.pending = 0)
    BY <2>1, <2>3, ClosedSound
  <2> QED
    BY <1>1, <2>4 DEF AccountInv, PausedIsFlat, Sound, Booked
<1> QED
  BY <1>2, <1>3

LEMMA FinishSound ==
  ASSUME AccountInv, NEW bar \in Bars, finishReplay(bar)
  PROVE  AccountInv'
<1> DEFINE p == account.position
           price == bar.close + quoteOffset(-p.sign) - p.sign * Slip
           a == IF p = Flat THEN account ELSE closeAll(account, price)
           b == [a EXCEPT !.pending = 0]
<1>1. Sound(account) /\ account \in Acct /\ rules' \in RiskRules /\ account' = mark(b, bar.close)
  BY DEF AccountInv, finishReplay, Sound
<1>2. price \in Int
  <2>1. quoteOffset(-p.sign) \in Int /\ p.sign * Slip \in Int /\ bar.close \in Int
    BY <1>1, Fields, BarNumbers, Numbers, Products
  <2> QED
    BY <2>1
<1> HIDE DEF price
<1>3. Sound(a) /\ a.position = Flat
  BY <1>1, <1>2, CloseAllSound DEF Sound
<1> HIDE DEF a
<1>4. Sound(b) /\ b.position = Flat /\ b.pending = 0
  <2>1. 0 \in Signals
    BY DEF Signals
  <2> QED
    BY <1>3, <2>1 DEF Sound, Acct, Booked
<1> HIDE DEF b
<1>5. Sound(account') /\ account'.position = Flat /\ account'.pending = 0
  BY <1>1, <1>4, MarkSound, BarNumbers
<1> QED
  BY <1>1, <1>5 DEF AccountInv, PausedIsFlat, Sound, Booked

\* Whatever candles come, however many units are bought and whatever the rules, the
\* balance of the account is what its trades and its open position account for, and an
\* account is paused only once nothing is open or ordered.
THEOREM AccountStaysSound == AccountSpec => []AccountSound
<1>1. AccountInv /\ [AccountNext]_accountVars => AccountInv'
  <2> SUFFICES ASSUME AccountInv, [AccountNext]_accountVars PROVE AccountInv'
    OBVIOUS
  <2>1. ASSUME NEW bar \in Bars, NEW signal \in Signals, NEW nights \in {0, 1, 3},
               NEW units \in IF account.pending = 0 THEN {0} ELSE 0..2,
               processBar(bar, signal, units, nights)
        PROVE  AccountInv'
    <3>1. units \in Nat /\ nights \in Nat
      OBVIOUS
    <3> QED
      BY <2>1, <3>1, ProcessSound
  <2>2. CASE UNCHANGED accountVars
    BY <2>2 DEF accountVars, AccountInv, PausedIsFlat, Sound, Booked
  <2> QED
    BY <2>1, <2>2, FinishSound DEF AccountNext
<1>2. AccountInv => AccountSound
  <2> SUFFICES ASSUME AccountInv PROVE AccountReconciles
    BY DEF AccountInv, AccountSound
  <2>1. account \in Acct /\ Booked(account)
    BY DEF AccountInv, Sound
  <2> QED
    BY <2>1, Fields, Numbers DEF Booked, AccountReconciles
<1> QED
  BY <1>1, <1>2, AccountStarts, PTL DEF AccountSpec

================================================================================
