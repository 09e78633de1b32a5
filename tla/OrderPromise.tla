---------------------------- MODULE OrderPromise ----------------------------
(***************************************************************************)
(* What the gateway promises for an idempotency key, whatever requests,    *)
(* crashes and lost answers do: the key is registered before anything      *)
(* else, it is refused or committed once and for good, and at most one     *)
(* order is sent for it, only after the commitment is durable.             *)
(***************************************************************************)
CONSTANTS Keys, Requests

VARIABLES
  fate,  \* fate[k]: what has been decided about key k
  sent   \* sent[k]: the requests that sent an order to the broker for k

Fates == {"unseen", "evaluating", "refused", "committed"}

Init ==
  /\ fate = [k \in Keys |-> "unseen"]
  /\ sent = [k \in Keys |-> {}]

Decide(k, from, to) ==
  /\ fate[k] = from
  /\ fate' = [fate EXCEPT ![k] = to]
  /\ UNCHANGED sent

Register(k) == Decide(k, "unseen", "evaluating")
Refuse(k) == Decide(k, "evaluating", "refused")
Commit(k) == Decide(k, "evaluating", "committed")

Send(k, r) ==
  /\ fate[k] = "committed" /\ sent[k] = {}
  /\ sent' = [sent EXCEPT ![k] = {r}]
  /\ UNCHANGED fate

Next ==
  \E k \in Keys :
    \/ Register(k) \/ Refuse(k) \/ Commit(k)
    \/ \E r \in Requests : Send(k, r)

Spec == Init /\ [][Next]_<<fate, sent>>
=============================================================================
