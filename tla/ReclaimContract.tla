--------------------------- MODULE ReclaimContract ---------------------------
(***************************************************************************)
(* What the deletion of a Transcode promises (docs/adr/0008), with nothing *)
(* of how: it is destroyed only while nobody holds it, and it is forgotten *)
(* only once none of its bytes is left - so bytes without a Transcode to   *)
(* point at them do not exist, whatever fails half-way.                     *)
(***************************************************************************)
VARIABLES
  known,    \* "new": not deposited yet; "kept": it has a row; "forgotten"
  held,     \* some worker is running one of its jobs
  closing,  \* some DELETE is destroying it
  bytes     \* something of it is on the disk or in the bucket

cvars == <<known, held, closing, bytes>>

ContractTypeOK ==
  /\ known \in {"new", "kept", "forgotten"}
  /\ held \in BOOLEAN
  /\ closing \in BOOLEAN
  /\ bytes \in BOOLEAN

ContractInit == known = "new" /\ held = FALSE /\ closing = FALSE /\ bytes = FALSE

(* The Source lands before the row does. *)
Deposit ==
  /\ known = "new"
  /\ known' \in {"new", "kept"}
  /\ bytes' \in BOOLEAN
  /\ UNCHANGED <<held, closing>>

(* A worker takes it, writes or clears bytes, lets go. *)
Work ==
  /\ known = "kept" /\ ~closing
  /\ held' \in BOOLEAN
  /\ bytes' \in (IF held THEN BOOLEAN ELSE {FALSE, bytes})
  /\ UNCHANGED <<known, closing>>

(* A DELETE that found the row before another one removed it may still     *)
(* close a forgotten Transcode; there is nothing left for it to do.         *)
Close ==
  /\ known # "new" /\ ~held
  /\ closing' = TRUE
  /\ UNCHANGED <<known, held, bytes>>

Destroy == closing /\ bytes' = FALSE /\ UNCHANGED <<known, held, closing>>

(* A DELETE that ends without having deleted: another one may follow. *)
GiveUp == closing' = FALSE /\ UNCHANGED <<known, held, bytes>>

Forget ==
  /\ closing /\ ~bytes
  /\ known' = "forgotten"
  /\ closing' \in BOOLEAN
  /\ UNCHANGED <<held, bytes>>

ContractNext == Deposit \/ Work \/ Close \/ Destroy \/ GiveUp \/ Forget

ContractSpec == ContractInit /\ [][ContractNext]_cvars
===============================================================================
