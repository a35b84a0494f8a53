------------------------------- MODULE MCCache -------------------------------
(* TLC instances of SnapshotCache: two devices, edge below core.           *)
EXTENDS SnapshotCache

CONSTANTS core, edge

TwoDevices == {core, edge}
OneDevice == {core}
Chain == [d \in {core, edge} |-> IF d = edge THEN core ELSE NoParent]
NoTopology == [d \in {core} |-> NoParent]

=============================================================================
