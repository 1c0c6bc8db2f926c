------------------------------ MODULE Delivery ------------------------------
(***************************************************************************)
(* What the service expects of its job queue, with nothing of how it is    *)
(* obtained: a published job is delivered to a processor at least once     *)
(* before it is settled, at most MaxDeliveries times, and never again once *)
(* it is settled.  (Every job is delivered or settled by BullMQ; the       *)
(* options the service gives it are those of src/queue/index.ts.)          *)
(***************************************************************************)
EXTENDS Naturals

CONSTANTS Jobs, MaxDeliveries

VARIABLES phase,       \* "new", "pending" or "settled", per job
          deliveries   \* how often the job was handed to a processor

vars == <<phase, deliveries>>

Init == /\ phase = [j \in Jobs |-> "new"]
        /\ deliveries = [j \in Jobs |-> 0]

Publish(j) == /\ phase[j] = "new"
              /\ phase' = [phase EXCEPT ![j] = "pending"]
              /\ UNCHANGED deliveries

Deliver(j) == /\ phase[j] = "pending"
              /\ deliveries[j] < MaxDeliveries
              /\ deliveries' = [deliveries EXCEPT ![j] = @ + 1]
              /\ UNCHANGED phase

Settle(j) == /\ phase[j] = "pending"
             /\ deliveries[j] > 0
             /\ phase' = [phase EXCEPT ![j] = "settled"]
             /\ UNCHANGED deliveries

Next == \E j \in Jobs : Publish(j) \/ Deliver(j) \/ Settle(j)

Spec == Init /\ [][Next]_vars

\* Under fair scheduling of the workers a published job is settled.
PendingSettles == \A j \in Jobs : phase[j] = "pending" ~> phase[j] = "settled"
=============================================================================
