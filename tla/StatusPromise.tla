---------------------------- MODULE StatusPromise ----------------------------
(***************************************************************************)
(* What status monitoring promises, whatever runs around it: the status of *)
(* a device is decided by the series of its samples alone.  A success      *)
(* makes it online; the first failures make it unknown, FLAP_THRESHOLD     *)
(* failures in a row make it offline, and until it is deleted nothing else *)
(* ever changes the status.                                                *)
(***************************************************************************)
EXTENDS Integers

CONSTANT FLAP_THRESHOLD

VARIABLES status, misses, deleted

vars == <<status, misses, deleted>>

Init == status = "unknown" /\ misses = 0 /\ deleted = FALSE

Success ==
  /\ ~deleted
  /\ status' = "online"
  /\ misses' = 0
  /\ UNCHANGED deleted

Failure ==
  /\ ~deleted
  /\ misses' = misses + 1
  /\ status' = IF misses + 1 >= FLAP_THRESHOLD THEN "offline" ELSE "unknown"
  /\ UNCHANGED deleted

Delete == ~deleted /\ deleted' = TRUE /\ UNCHANGED <<status, misses>>

Next == Success \/ Failure \/ Delete

Spec == Init /\ [][Next]_vars

=============================================================================
