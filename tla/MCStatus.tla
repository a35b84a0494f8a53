------------------------------ MODULE MCStatus ------------------------------
(* TLC instances of StatusMachine: one device, one or two requests next to *)
(* the check (the theorems hold for any number of them).                   *)
EXTENDS StatusMachine

=============================================================================
