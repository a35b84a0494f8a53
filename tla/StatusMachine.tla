---------------------------- MODULE StatusMachine ----------------------------
(***************************************************************************)
(* The online / unknown / offline machine of ONE monitored device: the     *)
(* three phases of _check_one in services/ping_scheduler.py, racing the    *)
(* API requests of api/routes/devices.py that write the same database row, *)
(* failed transactions, collector restarts and the deletion of the device. *)
(* Devices do not interact here, so one device is the general case.        *)
(*                                                                         *)
(* Every writer follows the same pattern: it loads the row into its own    *)
(* session (a copy), changes the copy, and later commits.  PostgreSQL runs *)
(* at READ COMMITTED, and the UPDATE names only the columns whose value    *)
(* differs from the loaded copy: a commit overwrites exactly the columns   *)
(* its writer changed (Flush), whatever others committed in between.       *)
(***************************************************************************)
EXTENDS Integers

CONSTANTS
  FLAP_THRESHOLD,    \* consecutive failed checks that make a device offline
  SIMULATION_MODE,   \* TRUE: the ping loop never probes
  Requests,          \* the concurrent API requests about this device
  Kinds,             \* what those requests ask for
  MaxFailures,       \* bound of the model on consecutive_failures
  MaxLost            \* bound of the model on checks lost to crashes or errors

Status == {"online", "offline", "unknown"}
Events == {"none", "came_online", "went_offline"}
Services == {"none", "ok", "failing"}
AllKinds == {"simulate_online", "simulate_offline", "ack", "enable", "disable",
             "watch", "unwatch", "delete"}

ASSUME ThresholdAssumption == FLAP_THRESHOLD \in Nat \ {0}
ASSUME ModeAssumption == SIMULATION_MODE \in BOOLEAN
ASSUME KindsAssumption == Kinds \subseteq AllKinds
ASSUME BoundAssumption ==
  MaxFailures \in Nat /\ MaxFailures >= FLAP_THRESHOLD /\ MaxLost \in Nat

(***************************************************************************)
(* The columns of a devices row that decide or record its status.          *)
(*   watched   a TCP or HTTP service check is configured                   *)
(*   service   service_ok: None, True or False                             *)
(*   acked     alarm_acked_at is not NULL                                  *)
(***************************************************************************)
Row == [exists: BOOLEAN, enabled: BOOLEAN, watched: BOOLEAN,
        status: Status, failures: Nat, service: Services, acked: BOOLEAN]

VARIABLES
  row,        \* the committed devices row
  misses,     \* ping_history: how many samples have failed since the last
              \* success (counted up to MaxFailures)
  lastEvent,  \* event_logs: the type of the event committed last
  host,       \* the network between collector and device, and the device
  check,      \* the check of this device in flight in the collector
  req,        \* the API requests in flight
  lost        \* how many checks were lost so far

vars == <<row, misses, lastEvent, host, check, req, lost>>

NewRow == [exists |-> TRUE, enabled |-> TRUE, watched |-> FALSE,
           status |-> "unknown", failures |-> 0, service |-> "none",
           acked |-> FALSE]

NoCheck == [pc |-> "idle", watched |-> FALSE, alive |-> FALSE,
            works |-> FALSE, seen |-> NewRow]

NoReq == [pc |-> "idle", kind |-> "ack", seen |-> NewRow]

Checks == [pc: {"idle", "probe", "persist"}, watched: BOOLEAN,
           alive: BOOLEAN, works: BOOLEAN, seen: Row]

Reqs == [pc: {"idle", "loaded"}, kind: AllKinds, seen: Row]

(* A session's UPDATE: of the columns of the row in the database, it       *)
(* replaces those the session changed from what it had loaded.             *)
Column(now, seen, new) == IF new # seen THEN new ELSE now

Fault_WholeRow(seen, new) == [new EXCEPT !.exists = row.exists]

Flush(seen, new) ==
  [exists   |-> row.exists,
   enabled  |-> Column(row.enabled, seen.enabled, new.enabled),
   watched  |-> Column(row.watched, seen.watched, new.watched),
   status   |-> Column(row.status, seen.status, new.status),
   failures |-> Column(row.failures, seen.failures, new.failures),
   service  |-> Column(row.service, seen.service, new.service),
   acked    |-> Column(row.acked, seen.acked, new.acked)]

(* The event a session adds when it changes the status it had loaded; a    *)
(* change to unknown adds none.                                            *)
Fault_EventOnWarning(seen, new) ==
  IF new.status = seen.status THEN lastEvent
  ELSE IF new.status = "online" THEN "came_online" ELSE "went_offline"

NewestEvent(seen, new) ==
  IF new.status = seen.status \/ new.status = "unknown" THEN lastEvent
  ELSE IF new.status = "online" THEN "came_online" ELSE "went_offline"

-----------------------------------------------------------------------------
(* The collector: _check_one                                               *)

(* Phase 3 of a check c, on the row it loaded: failure counter, status,    *)
(* service result, and the acknowledgement that ends with the outage.      *)
(* (Fault_ definitions are the seeded faults of PROJECT.json: plausible    *)
(* mistakes in the definition below them; no specification uses them.)     *)
Fault_NoReset(c) == IF c.alive THEN c.seen.failures ELSE c.seen.failures + 1
Fault_NoCount(c) == IF c.alive THEN 0 ELSE 1

Failures(c) == IF c.alive THEN 0 ELSE c.seen.failures + 1

Fault_OffByOne(c) ==
  IF c.alive THEN "online"
  ELSE IF Failures(c) > FLAP_THRESHOLD THEN "offline" ELSE "unknown"

NextStatus(c) ==
  IF c.alive THEN "online"
  ELSE IF Failures(c) >= FLAP_THRESHOLD THEN "offline" ELSE "unknown"

Fault_KeepService(c) ==
  IF ~c.watched THEN c.seen.service
  ELSE IF c.works THEN "ok" ELSE "failing"

NextService(c) ==
  IF ~c.watched THEN "none" ELSE IF c.works THEN "ok" ELSE "failing"

Fault_KeepAck(c) == c.seen.acked

NextAck(c) == c.seen.acked /\ ~c.alive

Verdict(c) ==
  [c.seen EXCEPT !.failures = Failures(c), !.status = NextStatus(c),
                 !.service = NextService(c), !.acked = NextAck(c)]

(* Phase 1: read the device's configuration, then release the connection.  *)
CheckStart ==
  /\ ~SIMULATION_MODE
  /\ check.pc = "idle"
  /\ row.exists /\ row.enabled
  /\ check' = [NoCheck EXCEPT !.pc = "probe", !.watched = row.watched]
  /\ UNCHANGED <<row, misses, lastEvent, host, req, lost>>

(* Phase 1 finds no device to check.                                       *)
CheckSkip ==
  /\ ~SIMULATION_MODE
  /\ check.pc = "idle"
  /\ ~(row.exists /\ row.enabled)
  /\ UNCHANGED vars

(* Phase 2 ends with an outcome the host allows, and Phase 3 loads the     *)
(* row again, giving up when it is gone or disabled.  An offline device    *)
(* with MaxFailures on record fails no further check of the model.         *)
ProbeDone ==
  /\ check.pc = "probe"
  /\ \E alive \in BOOLEAN, works \in BOOLEAN :
       /\ host = "up" => alive
       /\ host = "down" => ~alive
       /\ alive \/ row.failures < MaxFailures \/ row.status # "offline"
       /\ works => check.watched
       /\ check' = IF row.exists /\ row.enabled
                   THEN [check EXCEPT !.pc = "persist", !.alive = alive,
                                      !.works = works, !.seen = row]
                   ELSE NoCheck
  /\ UNCHANGED <<row, misses, lastEvent, host, req, lost>>

(* Phase 3 commits: the sample, the event and the changed columns, in one  *)
(* transaction.                                                            *)
Fault_CommitToDeleted ==
  /\ check.pc = "persist"
  /\ row' = Flush(check.seen, Verdict(check))
  /\ misses' = IF check.alive THEN 0 ELSE misses + 1
  /\ lastEvent' = NewestEvent(check.seen, Verdict(check))
  /\ check' = NoCheck
  /\ UNCHANGED <<host, req, lost>>

CheckCommit ==
  /\ check.pc = "persist"
  /\ row.exists
  /\ row' = Flush(check.seen, Verdict(check))
  /\ misses' = IF check.alive THEN 0
               ELSE IF misses < MaxFailures THEN misses + 1 ELSE misses
  /\ lastEvent' = NewestEvent(check.seen, Verdict(check))
  /\ check' = NoCheck
  /\ UNCHANGED <<host, req, lost>>

(* The row was deleted after Phase 3 loaded it: the UPDATE matches no row, *)
(* the transaction is rolled back and _run_due logs the exception.         *)
CheckStale ==
  /\ check.pc = "persist"
  /\ ~row.exists
  /\ check' = NoCheck
  /\ UNCHANGED <<row, misses, lastEvent, host, req, lost>>

(* The collector stops, or a statement of the check fails: whatever it had *)
(* not committed is gone, and _run_due goes on with the next check.        *)
CheckLost ==
  /\ check.pc # "idle"
  /\ lost < MaxLost
  /\ lost' = lost + 1
  /\ check' = NoCheck
  /\ UNCHANGED <<row, misses, lastEvent, host, req>>

-----------------------------------------------------------------------------
(* The API: the handlers of devices.py that write these columns            *)

(* A handler loads the row; without a row it answers 404.                  *)
RequestLoad(r) ==
  /\ req[r].pc = "idle"
  /\ row.exists
  /\ \E k \in Kinds :
       req' = [req EXCEPT ![r] = [pc |-> "loaded", kind |-> k, seen |-> row]]
  /\ UNCHANGED <<row, misses, lastEvent, host, check, lost>>

(* What a handler makes of the row it loaded.                              *)
Edit(kind, seen) ==
  CASE kind = "simulate_online" ->
         [seen EXCEPT !.status = "online", !.failures = 0]
    [] kind = "simulate_offline" ->
         [seen EXCEPT !.status = "offline", !.failures = FLAP_THRESHOLD]
    [] kind = "enable"  -> [seen EXCEPT !.enabled = TRUE]
    [] kind = "disable" -> [seen EXCEPT !.enabled = FALSE]
    [] kind = "watch"   -> [seen EXCEPT !.watched = TRUE]
    [] kind = "unwatch" -> [seen EXCEPT !.watched = FALSE]
    [] OTHER -> seen

(* simulate_device_status and update_device commit; only the former        *)
(* changes the status, so only the former adds an event.                   *)
RequestCommit(r) ==
  /\ req[r].pc = "loaded"
  /\ req[r].kind \notin {"ack", "delete"}
  /\ row.exists
  /\ LET new == Edit(req[r].kind, req[r].seen)
     IN  /\ row' = Flush(req[r].seen, new)
         /\ lastEvent' = NewestEvent(req[r].seen, new)
  /\ req' = [req EXCEPT ![r] = NoReq]
  /\ UNCHANGED <<misses, host, check, lost>>

(* ack_device writes a new timestamp, whatever it had loaded.              *)
AckCommit(r) ==
  /\ req[r].pc = "loaded"
  /\ req[r].kind = "ack"
  /\ row.exists
  /\ row' = [row EXCEPT !.acked = TRUE]
  /\ req' = [req EXCEPT ![r] = NoReq]
  /\ UNCHANGED <<misses, lastEvent, host, check, lost>>

(* delete_device; the events go with the row, ping_history has no foreign  *)
(* key and stays.                                                          *)
DeleteCommit(r) ==
  /\ req[r].pc = "loaded"
  /\ req[r].kind = "delete"
  /\ row.exists
  /\ row' = [row EXCEPT !.exists = FALSE]
  /\ lastEvent' = "none"
  /\ req' = [req EXCEPT ![r] = NoReq]
  /\ UNCHANGED <<misses, host, check, lost>>

(* The row was deleted after the handler loaded it: the commit fails.      *)
RequestStale(r) ==
  /\ req[r].pc = "loaded"
  /\ ~row.exists
  /\ req' = [req EXCEPT ![r] = NoReq]
  /\ UNCHANGED <<row, misses, lastEvent, host, check, lost>>

Request(r) ==
  \/ RequestLoad(r)
  \/ RequestCommit(r)
  \/ AckCommit(r)
  \/ DeleteCommit(r)
  \/ RequestStale(r)

-----------------------------------------------------------------------------
(* The monitored host answers every check, none, or some of them.          *)
HostChange ==
  /\ host' \in {"up", "down", "flaky"} \ {host}
  /\ UNCHANGED <<row, misses, lastEvent, check, req, lost>>

Init ==
  /\ row = NewRow
  /\ misses = 0
  /\ lastEvent = "none"
  /\ host \in {"up", "down", "flaky"}
  /\ check = NoCheck
  /\ req = [r \in Requests |-> NoReq]
  /\ lost = 0

Next ==
  \/ CheckStart
  \/ CheckSkip
  \/ ProbeDone
  \/ CheckCommit
  \/ CheckStale
  \/ CheckLost
  \/ HostChange
  \/ \E r \in Requests : Request(r)

Spec == Init /\ [][Next]_vars

(* The scheduler comes back to every enabled device (module Scheduler), a  *)
(* probe ends by its timeout, and a commit returns.  Users and hosts owe   *)
(* nothing.                                                                *)
Fairness == WF_vars(CheckStart) /\ WF_vars(ProbeDone) /\ WF_vars(CheckCommit)

FairSpec == Spec /\ Fairness

-----------------------------------------------------------------------------
TypeOK ==
  /\ row \in Row
  /\ misses \in Nat
  /\ lastEvent \in Events
  /\ host \in {"up", "down", "flaky"}
  /\ check \in Checks
  /\ req \in [Requests -> Reqs]
  /\ lost \in Nat

(* Only the ping loop judges this device: nobody forces its status.        *)
NoSimulation == Kinds \cap {"simulate_online", "simulate_offline"} = {}

(* Status and failure counter never drift apart, whatever columns the      *)
(* overlapping transactions write: a device is online with no failures on  *)
(* record, unknown below the threshold, offline at or above it.            *)
StatusMatchesFailures ==
  /\ row.status = "online"  => row.failures = 0
  /\ row.status = "unknown" => row.failures < FLAP_THRESHOLD
  /\ row.status = "offline" => row.failures >= FLAP_THRESHOLD

(* The counter on the row is the length of the run of failed samples in    *)
(* ping_history: lost checks, disabled spells and concurrent edits of the  *)
(* row never make one count a check the other does not.                    *)
FailuresCountHistory == row.exists => row.failures = misses

(* The newest event tells the state of the device: it is went_offline      *)
(* exactly while the device is offline.  The alert engine dates an outage  *)
(* by that event.                                                          *)
LogAgreesWithStatus ==
  row.exists => (lastEvent = "went_offline" <=> row.status = "offline")

(* No check turns an online device straight into an offline one: a single  *)
(* failed check is a warning (unknown) and never an alarm.                 *)
WarningBeforeAlarm ==
  [][check.pc = "persist" /\ row.status = "online" /\ req' = req
       => row'.status # "offline"]_vars

(* A deleted device is never written to again: neither by the check nor by *)
(* the requests that had loaded its row.                                   *)
DeletedStaysDeleted ==
  [][~row.exists => UNCHANGED <<row, misses, lastEvent>>]_vars

(* An acknowledgement ends with the outage: once the step that brings a    *)
(* device back online is committed, no acknowledgement is left on it.      *)
AckClearedOnRecovery ==
  [][row.status = "offline" /\ row'.status = "online" => ~row'.acked]_vars

(* Once a device stays monitored, with no request about it in flight...    *)
Settled ==
  row.exists /\ row.enabled /\ \A r \in Requests : req[r].pc = "idle"

(* ...an outage that lasts is noticed for good, ...                        *)
OutageDetected ==
  <>[](Settled /\ host = "down") => <>[](row.status = "offline")

(* ...so is a recovery that lasts, and it takes the acknowledgement away,  *)
RecoveryDetected ==
  <>[](Settled /\ host = "up") => <>[](row.status = "online" /\ ~row.acked)

(* ...and no service alarm outlives the service check that raised it.      *)
NoOrphanServiceAlarm ==
  <>[](Settled /\ host = "up" /\ ~row.watched) => <>[](row.service = "none")

-----------------------------------------------------------------------------
(* The abstract specification, its variables read off the detailed one.    *)
Promise == INSTANCE StatusPromise
  WITH status <- row.status, misses <- misses, deleted <- ~row.exists

(* Unless somebody simulates, the status is decided by the samples alone:  *)
(* edits, acknowledgements, lost checks and the window between loading and *)
(* committing a row are invisible to it.                                   *)
ImplementsPromise == Promise!Spec

=============================================================================
