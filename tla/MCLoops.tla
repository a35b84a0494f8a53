------------------------------ MODULE MCLoops ------------------------------
(* TLC instance of Loops: two of everything that may overlap.              *)
EXTENDS Loops

CONSTANTS h1, h2, loop, button, alice, bob, pollA, pollB, peekA

TheCrowds ==
  {{"syslog", "restart"}, {"trap"},
   {"discovery", loop, button}, {"discovery", loop, alice, "restart"},
   {"rates", pollA, pollB, "restart"}, {"rates", pollA, peekA},
   {"checks", "restart"}, {"loss", "restart"}, {"explorer"}, {"fanout", "restart"},
   {"watchdog"}}

SweepAlone == {{"discovery", loop}}

Syslog(h, pri) == [protocol |-> "syslog", host |-> h, pri |-> pri, kept |-> TRUE]
Trap(h, version, generic) ==
  [protocol |-> "trap", host |-> h, version |-> version, generic |-> generic, kept |-> TRUE]

TheDatagrams ==
  {Syslog(h1, 2), Syslog(h1, 999), Syslog(h2, 184),
   Trap(h1, 2, 2), Trap(h1, 2, 6), Trap(h2, 1, 6),
   [protocol |-> "trap", host |-> h2, version |-> 1, generic |-> 0, kept |-> FALSE]}

TheTables ==
  {"system"} \cup UNION {UNION {{Sources[c][s][t] : t \in DOMAIN Sources[c][s]} :
                                s \in DOMAIN Sources[c]} : c \in DOMAIN Sources}

(* Devices with nothing but one table, or with all tables but one.         *)
TheAgents ==
  {[t \in TheTables |-> IF t \in {"system", x} THEN "rows" ELSE "none"] : x \in TheTables}
  \cup {[t \in TheTables |-> IF t = x THEN ax ELSE "rows"] :
           x \in TheTables, ax \in {"none", "fails"}}

=============================================================================
