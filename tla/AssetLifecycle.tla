---------------------------- MODULE AssetLifecycle ----------------------------
(***************************************************************************)
(* What the asset system promises its callers, without threads, slots or   *)
(* jobs: an asset is Unloaded, Pending or Loaded; a request makes it       *)
(* Pending, every Pending asset is settled in the end, and only an unload  *)
(* takes a Loaded asset away.                                              *)
(*                                                                         *)
(* The promise ends with void: two calls met on one asset (Collide), and   *)
(* from then on the stages may be anything.                                *)
(***************************************************************************)
CONSTANT Assets

VARIABLES status, void

Statuses == {"Unloaded", "Pending", "Loaded"}

Init == status = [a \in Assets |-> "Unloaded"] /\ void = FALSE

Move(a, from, to) ==
    /\ ~void /\ UNCHANGED void
    /\ status[a] = from
    /\ status' = [status EXCEPT ![a] = to]

Request(a) == Move(a, "Unloaded", "Pending")

(* A new asset is written down and Loaded at once.                         *)
Create(a) == Move(a, "Unloaded", "Loaded")

Settle(a) == Move(a, "Pending", "Loaded") \/ Move(a, "Pending", "Unloaded")

Unload(a) == Move(a, "Loaded", "Unloaded")

Collide == void' = TRUE /\ status' \in [Assets -> Statuses]

Next == Collide \/ \E a \in Assets : Request(a) \/ Create(a) \/ Settle(a) \/ Unload(a)

Safety == Init /\ [][Next]_<<status, void>>

Spec == Safety /\ \A a \in Assets : WF_<<status, void>>(Settle(a))
=============================================================================
