--------------------------- MODULE LifecycleContract ---------------------------
(***************************************************************************)
(* What the service promises the owner of a Transcode (CONTEXT.md, "Cycle  *)
(* de vie du Transcode", docs/adr/0005), with nothing of how: it goes       *)
(* forward to one end, COMPLETED only once it can be played; its owner is   *)
(* told of that end, and of no other; and from any stage it may be deleted. *)
(***************************************************************************)
VARIABLES
  stage,      \* "new", one of the four statuses, or "deleted"
  playable,   \* all of it is at the serving origin
  told,       \* the payloads queued for the owner's webhook
  withdrawn   \* some DELETE began to destroy it

lvars == <<stage, playable, told, withdrawn>>

LifecycleInit ==
  stage = "new" /\ playable = FALSE /\ told = {} /\ withdrawn = FALSE

Advance(from, to) ==
  stage \in from /\ stage' = to /\ UNCHANGED <<playable, told, withdrawn>>

Deposit == Advance({"new"}, "PENDING")
Begin == Advance({"PENDING"}, "PROCESSING")
Complete == playable /\ ~withdrawn /\ Advance({"PROCESSING"}, "COMPLETED")

(* The listener of a job that failed for good may still be at work while   *)
(* a DELETE, for which no job is left to refuse it, destroys.               *)
Fail == Advance({"PENDING", "PROCESSING"}, "FAILED")

Publish ==
  /\ stage = "PROCESSING" /\ ~withdrawn
  /\ playable' = TRUE
  /\ UNCHANGED <<stage, told, withdrawn>>

(* FAILED may be told of a Transcode that was deleted meanwhile.           *)
Tell ==
  /\ told = {}
  /\ \/ stage = "COMPLETED" /\ told' = {[status |-> "COMPLETED", downloads |-> TRUE]}
     \/ stage \in {"FAILED", "deleted"}
          /\ told' = {[status |-> "FAILED", downloads |-> FALSE]}
  /\ UNCHANGED <<stage, playable, withdrawn>>

Withdraw ==
  /\ stage # "new"
  /\ withdrawn' = TRUE
  /\ playable' \in {playable, FALSE}
  /\ UNCHANGED <<stage, told>>

Delete ==
  /\ withdrawn /\ ~playable
  /\ stage' = "deleted"
  /\ UNCHANGED <<playable, told, withdrawn>>

LifecycleNext ==
  Deposit \/ Begin \/ Publish \/ Complete \/ Fail \/ Tell \/ Withdraw \/ Delete

LifecycleSpec == LifecycleInit /\ [][LifecycleNext]_lvars
===============================================================================
