---------------------------- MODULE MCScheduler -----------------------------
(* TLC instances of Scheduler.                                             *)
EXTENDS Scheduler, TLC

(* Devices are interchangeable: the loop gathers its checks.               *)
DeviceSymmetry == Permutations(Devices)

=============================================================================
