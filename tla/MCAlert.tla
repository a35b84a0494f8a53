------------------------------- MODULE MCAlert -------------------------------
(* TLC instances of AlertEngine: a parent with one child.                  *)
EXTENDS AlertEngine

CONSTANTS core, edge   \* edge hangs below core

TwoDevices == {core, edge}
(* The parent goes up and down and is deleted, which aborts cycles; the    *)
(* child is muted and disabled; the service of both fails.                 *)
ChainOps ==
  {"status", "service", "delete"} \X {core} \cup {"service", "silence", "enable"} \X {edge}

(* Nothing but outages of one device.                                      *)
OutageOps == {<<"status", core>>}

Chain == [d \in {core, edge} |-> IF d = edge THEN core ELSE NoParent]

=============================================================================
