---------------------------- MODULE StateDocument ----------------------------
(***************************************************************************)
(* The simulation state is one JSON document with a revision.  mutate      *)
(* reads it, applies a function to the copy, and writes it back where the  *)
(* revision is still the one it read; it tries again when it is not.       *)
(***************************************************************************)
EXTENDS Integers, Sequences

CONSTANTS
  Calls,     \* calls of mutate, each made once
  MaxTries,  \* 8 in the code
  MaxFaults  \* bound on database errors and lost answers

ASSUME TriesAssumption == MaxTries \in Nat \ {0} /\ MaxFaults \in Nat

Outcomes == {"ok", "threw", "busy"}
Document == Seq(Calls)

VARIABLES
  revision,  \* the revision column
  payload,   \* the payload column: the mutations it contains
  pc,        \* pc[c]: "idle", "read", "write" or how the call ended
  copy,      \* copy[c]: the revision and the payload c has read
  tries,     \* tries[c]: conditional updates that found another revision
  faults     \* faults so far

vars == <<revision, payload, pc, copy, tries, faults>>

NoCopy == [revision |-> 0, payload |-> <<>>]

Init ==
  /\ revision = 0 /\ payload = <<>>
  /\ pc = [c \in Calls |-> "idle"]
  /\ copy = [c \in Calls |-> NoCopy]
  /\ tries = [c \in Calls |-> 0]
  /\ faults = 0

Begin(c) ==
  /\ pc[c] = "idle"
  /\ pc' = [pc EXCEPT ![c] = "read"]
  /\ UNCHANGED <<revision, payload, copy, tries, faults>>

\* readState, then the function: it may refuse, and so may the size check.
ReadState(c) ==
  /\ pc[c] = "read"
  /\ \/ /\ copy' = [copy EXCEPT ![c] = [revision |-> revision, payload |-> payload]]
        /\ pc' = [pc EXCEPT ![c] = "write"]
     \/ /\ pc' = [pc EXCEPT ![c] = "threw"]
        /\ UNCHANGED copy
  /\ UNCHANGED <<revision, payload, tries, faults>>

\* Variant of Unchanged: the update forgets "and revision = $3".
Whatever(c) == TRUE

\* The condition of the update.
Unchanged(c) == copy[c].revision = revision

\* Variant of GivesUp: the loop stops one try early.
GivesUpEarly(c) == tries[c] + 2 >= MaxTries

\* Variant of GivesUp: the loop has no bound.
NeverGivesUp(c) == FALSE

\* The bound of the loop, once this try has failed.
GivesUp(c) == tries[c] + 1 = MaxTries

Write(c) ==
  /\ pc[c] = "write"
  /\ IF Unchanged(c)
     THEN /\ payload' = Append(copy[c].payload, c)
          /\ revision' = revision + 1
          /\ \/ pc' = [pc EXCEPT ![c] = "ok"] /\ UNCHANGED faults
             \/ /\ faults < MaxFaults /\ faults' = faults + 1
                /\ pc' = [pc EXCEPT ![c] = "threw"]
          /\ UNCHANGED tries
     ELSE /\ tries' = [tries EXCEPT ![c] = @ + 1]
          /\ pc' = [pc EXCEPT ![c] = IF GivesUp(c) THEN "busy" ELSE "read"]
          /\ UNCHANGED <<revision, payload, faults>>
  /\ UNCHANGED copy

QueryFails(c) ==
  /\ pc[c] \in {"read", "write"}
  /\ faults < MaxFaults /\ faults' = faults + 1
  /\ pc' = [pc EXCEPT ![c] = "threw"]
  /\ UNCHANGED <<revision, payload, copy, tries>>

Next == \E c \in Calls : Begin(c) \/ ReadState(c) \/ Write(c) \/ QueryFails(c)

Spec == Init /\ [][Next]_vars

(***************************************************************************)
(* Properties                                                              *)
(***************************************************************************)
\* Every variable keeps its shape.
TypeOK ==
  /\ revision \in Nat /\ payload \in Document
  /\ pc \in [Calls -> {"idle", "read", "write"} \cup Outcomes]
  /\ copy \in [Calls -> [revision : Nat, payload : Document]]
  /\ tries \in [Calls -> 0..MaxTries]
  /\ faults \in 0..MaxFaults

\* mutate is atomic although it is a read, a function and a write: no concurrent
\* mutation is lost or applied twice, and a returned value means it was applied.
Atomic == INSTANCE AtomicDocument WITH
  document <- payload, returned <- {c \in Calls : pc[c] = "ok"}
IsAtomic == Atomic!Spec

\* A call never ends busy unless that many other mutations went through meanwhile:
\* the retries are lock-free.
BusyMeansProgress == \A c \in Calls : pc[c] = "busy" => revision >= MaxTries
==============================================================================
