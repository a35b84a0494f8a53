---------------------------- MODULE DeviceChecks ----------------------------
(***************************************************************************)
(* The SNMP and SSH checks of a device: collect_device of both collectors  *)
(* (services/snmp_collector.py, services/ssh_collector.py), run by their   *)
(* poll loops and by the buttons of the gateway.  A check reads the        *)
(* configuration, polls without a session, and writes what it found with   *)
(* a row loaded anew.  The unit of work writes only the columns that       *)
(* differ from what it loaded.                                             *)
(***************************************************************************)
EXTENDS Naturals

CONSTANTS
  Checks,      \* checks that may be under way at the same time
  LoopChecks,  \* those of the poll loop; the others are requests
  Outcomes,    \* what a poll may come to: "ok" and the failures
  Unknown      \* no status yet

ASSUME ChecksAssumption ==
  LoopChecks \subseteq Checks /\ {"ok", "error"} \subseteq Outcomes /\ Unknown \notin Outcomes

VARIABLES
  row,      \* the row of the device
  check     \* where each check is and what it holds

checksVars == <<row, check>>

(* Credentials may be there, be missing, or be refused by the constructor  *)
(* of the session (a protocol of SNMPv3 without its key).                  *)
Rows ==
  [exists: BOOLEAN, polled: BOOLEAN,                    \* ssh_enabled, snmp_enabled
   credentials: {"good", "missing", "refused"},
   status: Outcomes \cup {Unknown},                     \* ..._status
   facts: BOOLEAN,                                      \* ..._facts were stored
   stamp: Outcomes \cup {Unknown},   \* observer: the check that set ..._collected_at
   crossed: BOOLEAN]                 \* observer: that check overlapped another's commit

NoCheck == [pc |-> "idle", outcome |-> Unknown, loaded |-> Unknown, crossed |-> FALSE]

-----------------------------------------------------------------------------
(* Phase 1, after the route's own test of the switch: without credentials  *)
(* an error is written with the row just loaded; a refused session raises, *)
(* and nothing is written.  When the loop and the users begin is open; the *)
(* loop never does while the device is disabled.                           *)
Begin(c) ==
  /\ check[c].pc = "idle"
  /\ row.exists /\ row.polled /\ row.credentials # "refused"
  /\ check' = [check EXCEPT ![c] =
                 IF row.credentials = "good" THEN [NoCheck EXCEPT !.pc = "poll"]
                 ELSE [NoCheck EXCEPT !.pc = "write", !.outcome = "error", !.loaded = row.status]]
  /\ UNCHANGED row

(* Phase 2: a poll comes to an end, by its timeouts if by nothing else.    *)
Poll(c) ==
  /\ check[c].pc = "poll"
  /\ \E outcome \in Outcomes :
       check' = [check EXCEPT ![c].pc = "load", ![c].outcome = outcome]
  /\ UNCHANGED row

(* Phase 3: the row is loaded anew, if there is one still.                 *)
LoadRow(c) ==
  /\ check[c].pc = "load"
  /\ check' = IF row.exists
              THEN [check EXCEPT ![c].pc = "write", ![c].loaded = row.status]
              ELSE [check EXCEPT ![c] = NoCheck]
  /\ UNCHANGED row

Fault_StatusAfter(c) == IF check[c].outcome = "ok" THEN "ok" ELSE row.status

(* The status column is written if the outcome differs from what was       *)
(* loaded; the time of the check always.                                   *)
StatusAfter(c) == IF check[c].outcome # check[c].loaded THEN check[c].outcome ELSE row.status

Write(c) ==
  /\ check[c].pc = "write"
  /\ row.exists
  /\ row' = [row EXCEPT !.status = StatusAfter(c),
                        !.facts = @ \/ check[c].outcome = "ok",
                        !.stamp = check[c].outcome,
                        !.crossed = check[c].crossed]
  /\ check' = [d \in Checks |-> IF d = c THEN NoCheck
                                ELSE [check[d] EXCEPT !.crossed = check[d].pc = "write"]]

(* The row was deleted meanwhile: the update finds nothing and fails.      *)
WriteFails(c) ==
  /\ check[c].pc = "write"
  /\ ~row.exists
  /\ check' = [check EXCEPT ![c] = NoCheck]
  /\ UNCHANGED row

CheckNext(c) == Begin(c) \/ Poll(c) \/ LoadRow(c) \/ Write(c) \/ WriteFails(c)

-----------------------------------------------------------------------------
(* Others configure the device, or delete it.                              *)
Configure ==
  /\ row.exists
  /\ \E polled \in BOOLEAN, credentials \in {"good", "missing", "refused"} :
       row' = [row EXCEPT !.polled = polled, !.credentials = credentials]
  /\ UNCHANGED check

Delete ==
  /\ row.exists
  /\ row' = [row EXCEPT !.exists = FALSE]
  /\ UNCHANGED check

ChecksInit ==
  /\ row = [exists |-> TRUE, polled |-> TRUE, credentials |-> "good", status |-> Unknown,
            facts |-> FALSE, stamp |-> Unknown, crossed |-> FALSE]
  /\ check = [c \in Checks |-> NoCheck]

(* The collector restarts: the checks of its loop are gone.                *)
ChecksRestart ==
  /\ check' = [c \in Checks |-> IF c \in LoopChecks THEN NoCheck ELSE check[c]]
  /\ UNCHANGED row

-----------------------------------------------------------------------------
(* The status is the outcome of the check that set the time beside it,     *)
(* unless another wrote between that check's load and its write; and facts *)
(* come from a check that succeeded.                                       *)
StatusIsNewest ==
  /\ row.crossed \/ row.status = row.stamp
  /\ row.status = "ok" => row.facts

=============================================================================
