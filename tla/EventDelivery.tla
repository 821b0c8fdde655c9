----------------------------- MODULE EventDelivery -----------------------------
(***************************************************************************)
(* What offline synchronisation promises about a learning event, whatever  *)
(* the network does: it is queued once, stored at most once, acknowledged  *)
(* only when it is stored, and then for ever.  An event may also be lost:  *)
(* wrong from the start, or overtaken by the later events of a batch that  *)
(* was stored first; a lost event is never stored.                         *)
(***************************************************************************)
CONSTANT Events
VARIABLE phase

DeliveryInit == phase = [e \in Events |-> "new"]

Create(e) ==
    /\ phase[e] = "new"
    /\ \E outcome \in {"queued", "lost"} : phase' = [phase EXCEPT ![e] = outcome]

Queued == {e \in Events : phase[e] = "queued"}

\* A batch is stored; every event it overtakes is lost.
Store(batch, overtaken) ==
    phase' = [e \in Events |-> CASE e \in batch -> "stored"
                               [] e \in overtaken -> "lost"
                               [] OTHER -> phase[e]]

Acknowledge(e) ==
    /\ phase[e] = "stored"
    /\ phase' = [phase EXCEPT ![e] = "acknowledged"]

DeliveryNext ==
    \/ \E e \in Events : Create(e) \/ Acknowledge(e)
    \/ \E batch \in (SUBSET Queued) \ {{}} :
          \E overtaken \in SUBSET (Queued \ batch) : Store(batch, overtaken)

DeliverySpec == DeliveryInit /\ [][DeliveryNext]_phase
================================================================================
