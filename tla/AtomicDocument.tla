--------------------------- MODULE AtomicDocument ---------------------------
(***************************************************************************)
(* What the callers of mutate (lib/xmi-sim/store.mjs) rely on: a mutation  *)
(* is applied to the latest document, at once and at most once, and a call *)
(* that returns a value has been applied.                                  *)
(***************************************************************************)
EXTENDS Sequences

CONSTANT Calls

VARIABLES
  document,  \* the mutations the document contains, in the order they were applied
  returned   \* the calls whose value has been returned

Applied(c) == \E i \in DOMAIN document : document[i] = c

Init == document = <<>> /\ returned = {}

Apply(c) ==
  /\ ~ Applied(c)
  /\ document' = Append(document, c)
  /\ returned' \in {returned, returned \cup {c}}

Next == \E c \in Calls : Apply(c)

Spec == Init /\ [][Next]_<<document, returned>>
=============================================================================
