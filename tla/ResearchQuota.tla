---------------------------- MODULE ResearchQuota ----------------------------
(***************************************************************************)
(* The budget of provider requests (reserveProviderCredit): a number of    *)
(* requests per UTC day, a number of distinct keys per rolling minute, and *)
(* a pause between two refreshes of one key.  A call of mutate is one step *)
(* and a request that fails keeps its credit.                              *)
(***************************************************************************)
EXTENDS Integers, FiniteSets

CONSTANTS
  Keys,         \* pairs of symbol and timeframe
  DayLimit,     \* 24 in the code
  MinuteLimit,  \* 4 in the code
  Day,          \* lengths, in one unit of time
  Minute,
  Cooldown,     \* five minutes
  Horizon       \* bound on the clock

ASSUME QuotaAssumption ==
  /\ DayLimit \in Nat /\ MinuteLimit \in Nat /\ Horizon \in Nat
  /\ Day \in Nat \ {0} /\ Minute \in Nat /\ Cooldown \in Nat
  /\ Minute <= Cooldown

VARIABLES
  now,        \* the clock of the instances
  day,        \* quota.day
  used,       \* quota.used
  lastByKey,  \* quota.lastByKey: the keys seen today, with their last time
  requests    \* history: every request, with its time

quotaVars == <<now, day, used, lastByKey, requests>>

NoDay == -1
Today == now \div Day
NoneToday == [k \in {} |-> 0]

QuotaInit ==
  /\ now = 0 /\ day = NoDay /\ used = 0 /\ lastByKey = NoneToday
  /\ requests = {}

\* What the quota is once a stale day has been reset.
Used == IF day = Today THEN used ELSE 0
Last == IF day = Today THEN lastByKey ELSE NoneToday

\* Variant of CooledDown: the wrong one of the two durations.
CooledDownSoon(k) == k \in DOMAIN Last => now - Last[k] >= Minute

CooledDown(k) == k \in DOMAIN Last => now - Last[k] >= Cooldown

\* Variant of ThisMinute: the minute of the clock, not the last one.
ThisClockMinute == {k \in DOMAIN Last : Last[k] \div Minute = now \div Minute}

ThisMinute == {k \in DOMAIN Last : now - Last[k] < Minute}

\* Variant of Affordable: one request too many.
AlmostAffordable == Used <= DayLimit

Affordable == Used < DayLimit

reserveProviderCredit(k) ==
  /\ Affordable /\ CooledDown(k) /\ Cardinality(ThisMinute) < MinuteLimit
  /\ day' = Today
  /\ used' = Used + 1
  /\ lastByKey' = [l \in DOMAIN Last \cup {k} |-> IF l = k THEN now ELSE Last[l]]
  /\ requests' = requests \cup {<<k, now>>}
  /\ UNCHANGED now

Tick ==
  /\ now < Horizon /\ now' = now + 1
  /\ UNCHANGED <<day, used, lastByKey, requests>>

QuotaNext == Tick \/ \E k \in Keys : reserveProviderCredit(k)

QuotaSpec == QuotaInit /\ [][QuotaNext]_quotaVars

(***************************************************************************)
(* Properties                                                              *)
(***************************************************************************)
Within(S, from, length) == {r \in S : from <= r[2] /\ r[2] < from + length}
On(d) == Within(requests, d * Day, Day)
Days == 0..(Horizon \div Day)

\* Every variable keeps its shape.
QuotaTypeOK ==
  /\ now \in 0..Horizon
  /\ day \in {NoDay} \cup Days
  /\ used \in 0..DayLimit
  /\ DOMAIN lastByKey \subseteq Keys
  /\ \A k \in DOMAIN lastByKey : lastByKey[k] \in 0..now
  /\ requests \subseteq Keys \X (0..now)

\* "at most 24 reserved provider requests per UTC day": no sequence of resets
\* (docs/XMI_SIMULATION_STAGING.md:52) lets a day have more.
DailyBudget == \A d \in Days : Cardinality(On(d)) <= DayLimit

\* Counting the distinct keys of the last minute counts its requests, since a key is
\* not refreshed that soon: any rolling minute of one day stays within its limit.
MinuteBudgetOfDay ==
  \A d \in Days : \A r \in On(d) :
    Cardinality(Within(On(d), r[2], Minute)) <= MinuteLimit

\* Two refreshes of a key on one day are a cooldown apart.
CooldownOfDay ==
  \A d \in Days : \A r, s \in On(d) :
    r[1] = s[1] /\ r[2] < s[2] => s[2] - r[2] >= Cooldown

\* docs/XMI_SIMULATION_STAGING.md:52: "one refresh per pair/timeframe per five
\* minutes", at any time of the day.
CooldownAlways ==
  \A r, s \in requests : r[1] = s[1] /\ r[2] < s[2] => s[2] - r[2] >= Cooldown

\* The three limits of the quota, within one UTC day.
BudgetsOfDay == DailyBudget /\ MinuteBudgetOfDay /\ CooldownOfDay
==============================================================================
