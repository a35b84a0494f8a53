----------------------------- MODULE AlertEngine -----------------------------
(***************************************************************************)
(* The outage alerts of services/alerts.py.  Every cycle _alert_tick loads *)
(* ALL devices at once into one session and walks over these copies; it    *)
(* notifies the channels of one device, commits that device's              *)
(* alert_notified_at, and refreshes that one copy.  Nothing else is read   *)
(* again, however long the channels take, except the date of the outage.   *)
(* Around it the checks (module StatusMachine) and the users keep writing  *)
(* the same rows, devices are deleted, and between the notification and    *)
(* the commit that remembers it the collector may crash or the database    *)
(* refuse the commit, which alert_loop catches and goes on.                *)
(***************************************************************************)
EXTENDS Integers, FiniteSets

CONSTANTS
  Devices,
  NoParent,             \* not a device
  Parent,               \* parent_id of every device, or NoParent
  Critical,             \* the devices marked is_critical
  ALERT_CRITICAL_ONLY,  \* alert about critical devices only
  Ops,                  \* what the world may do in this instance, to which
                        \* device
  MaxFaults             \* bound of the model on crashes and failing calls

AllOps == {"status", "service", "silence", "enable", "delete"}

ASSUME ParentAssumption ==
  /\ IsFiniteSet(Devices)
  /\ NoParent \notin Devices /\ Parent \in [Devices -> Devices \cup {NoParent}]
ASSUME CriticalAssumption ==
  Critical \subseteq Devices /\ ALERT_CRITICAL_ONLY \in BOOLEAN
ASSUME OpsAssumption ==
  Ops \subseteq AllOps \X Devices /\ MaxFaults \in Nat

(***************************************************************************)
(* The columns the engine reads.  An online and an unknown device are both *)
(* "not offline" here; silenced stands for is_muted or a maintenance       *)
(* window that is still open, which the engine treats alike.               *)
(***************************************************************************)
Row == [exists: BOOLEAN, enabled: BOOLEAN, offline: BOOLEAN,
        failing: BOOLEAN, silenced: BOOLEAN, notified: BOOLEAN]

VARIABLES
  row,      \* the committed rows
  outage,   \* age of the newest went_offline event: below or above
            \* ALERT_AFTER_SECONDS
  tick,     \* the cycle in progress
  said,     \* the last notification about each device that went out
  torn,     \* observer: how many notifications about each device went out
            \* and were not remembered, since one was
  repeats,  \* observer: how many of them only repeated the last one
  steady,   \* what has held without a break since the cycle loaded the rows
  faults    \* how often the collector crashed or a call failed

storyVars == <<said, torn, repeats>>

vars == <<row, outage, tick, said, torn, repeats, steady, faults>>

NewRow == [exists |-> TRUE, enabled |-> TRUE, offline |-> FALSE,
           failing |-> FALSE, silenced |-> FALSE, notified |-> FALSE]

Blank == [d \in Devices |-> NewRow]

Idle == [pc |-> "idle", seen |-> Blank, todo |-> {}, cur |-> NoParent,
         kind |-> "recovered"]

Ticks == [pc: {"idle", "walk", "notify", "commit"}, seen: [Devices -> Row],
          todo: SUBSET Devices, cur: Devices \cup {NoParent},
          kind: {"alarm", "recovered"}]

Steady == [down: SUBSET Devices, quiet: SUBSET Devices]

NothingSteady == [down |-> {}, quiet |-> {}]

-----------------------------------------------------------------------------
(* What _alert_tick decides about a device, from the copies it holds.      *)

InAlarm(r) == r.offline \/ r.failing

Recovered(seen, d) == ~InAlarm(seen[d]) /\ seen[d].notified

(* (Fault_ definitions are seeded faults: mistakes in the definition below *)
(* them that runs of PROJECT.json must notice; no specification uses them.)*)
Fault_NoDependency(seen, d) == FALSE

ParentDown(seen, d) ==
  /\ Parent[d] # NoParent
  /\ Parent[d] \in Devices
  /\ seen[Parent[d]].exists
  /\ seen[Parent[d]].offline

Suppressed(seen, d) ==
  \/ seen[d].silenced
  \/ ALERT_CRITICAL_ONLY /\ d \notin Critical
  \/ ParentDown(seen, d)

(* Down long enough?  The date of the outage is read from the database,    *)
(* now; an alarm of the service check alone does not wait.                 *)
Fault_ServiceWaits(seen, d) == outage[d] = "old"

LongEnough(seen, d) == seen[d].offline => outage[d] = "old"

Fault_NoDedup(seen, d) ==
  /\ InAlarm(seen[d])
  /\ ~Suppressed(seen, d)
  /\ LongEnough(seen, d)

Alarming(seen, d) ==
  /\ InAlarm(seen[d])
  /\ ~seen[d].notified
  /\ ~Suppressed(seen, d)
  /\ LongEnough(seen, d)

-----------------------------------------------------------------------------
(* One cycle of the engine                                                 *)

TickStart ==
  /\ tick.pc = "idle"
  /\ tick' = [Idle EXCEPT !.pc = "walk", !.seen = row,
                          !.todo = {d \in Devices : row[d].exists}]
  /\ steady' = [down  |-> {d \in Devices : row[d].exists /\ row[d].offline},
                quiet |-> {d \in Devices : row[d].silenced}]
  /\ UNCHANGED <<row, outage, storyVars, faults>>

(* The next device of the list needs no notification.                      *)
TickSkip(d) ==
  /\ tick.pc = "walk"
  /\ d \in tick.todo
  /\ \/ ~tick.seen[d].enabled
     \/ ~Recovered(tick.seen, d) /\ ~Alarming(tick.seen, d)
  /\ tick' = [tick EXCEPT !.todo = @ \ {d}]
  /\ UNCHANGED <<row, outage, storyVars, steady, faults>>

(* The next device of the list needs one: _notify starts.                  *)
TickNotify(d) ==
  /\ tick.pc = "walk"
  /\ d \in tick.todo
  /\ tick.seen[d].enabled
  /\ \/ /\ Recovered(tick.seen, d)
        /\ tick' = [tick EXCEPT !.pc = "notify", !.cur = d,
                                !.kind = "recovered"]
     \/ /\ Alarming(tick.seen, d)
        /\ tick' = [tick EXCEPT !.pc = "notify", !.cur = d, !.kind = "alarm"]
  /\ UNCHANGED <<row, outage, storyVars, steady, faults>>

(* send_alert hands the message to every channel and returns; it raises    *)
(* nothing, and nobody looks at what it returns.                           *)
Sent ==
  /\ tick.pc = "notify"
  /\ said' = [said EXCEPT ![tick.cur] = tick.kind]
  /\ repeats' = [repeats EXCEPT ![tick.cur] = IF said[tick.cur] = tick.kind THEN @ + 1 ELSE @]
  /\ tick' = [tick EXCEPT !.pc = "commit"]
  /\ UNCHANGED <<row, outage, torn, steady, faults>>

(* alert_notified_at is set or cleared in the database: from now on the    *)
(* notification is remembered.                                             *)
Remember ==
  /\ tick.pc = "commit"
  /\ row[tick.cur].exists
  /\ row' = [row EXCEPT ![tick.cur].notified = (tick.kind = "alarm")]
  /\ torn' = [torn EXCEPT ![tick.cur] = 0]
  /\ repeats' = [repeats EXCEPT ![tick.cur] = 0]
  /\ UNCHANGED <<outage, said>>

(* The commit, after which the copy is refreshed and the snapshot updated. *)
Commit ==
  /\ Remember
  /\ tick' = [tick EXCEPT !.pc = "walk", !.todo = @ \ {tick.cur},
                          !.seen[tick.cur] = row'[tick.cur], !.cur = NoParent]
  /\ UNCHANGED <<steady, faults>>

(* An exception ends the whole cycle, whatever is left of the list.        *)
CycleOver ==
  /\ tick' = Idle
  /\ steady' = NothingSteady

Fails ==
  /\ faults < MaxFaults
  /\ faults' = faults + 1

(* What went out is not remembered, if something had.                      *)
Forgets ==
  /\ torn' = IF tick.pc = "commit" THEN [torn EXCEPT ![tick.cur] = @ + 1] ELSE torn
  /\ UNCHANGED <<row, outage, said, repeats>>

(* The device was deleted meanwhile: the UPDATE matches no row.            *)
Fault_LoopDies ==
  tick.pc = "commit" /\ ~row[tick.cur].exists /\ UNCHANGED vars

CommitStale ==
  /\ tick.pc = "commit"
  /\ ~row[tick.cur].exists
  /\ Forgets
  /\ CycleOver
  /\ UNCHANGED faults

(* The row is there, and the database refuses the commit.                  *)
CommitFails ==
  /\ tick.pc = "commit"
  /\ row[tick.cur].exists
  /\ Fails
  /\ Forgets
  /\ CycleOver

(* The commit succeeds; the refresh after it or the snapshot fails.        *)
RefreshFails ==
  /\ Remember
  /\ Fails
  /\ CycleOver

(* The date of an outage cannot be read.                                   *)
QueryFails ==
  /\ tick.pc = "walk"
  /\ \E d \in tick.todo : tick.seen[d].offline
  /\ Fails
  /\ Forgets
  /\ CycleOver

TickEnd ==
  /\ tick.pc = "walk"
  /\ tick.todo = {}
  /\ CycleOver
  /\ UNCHANGED <<row, outage, storyVars, faults>>

(* The collector stops anywhere and starts again.                          *)
Crash ==
  /\ tick.pc # "idle"
  /\ Fails
  /\ Forgets
  /\ CycleOver

-----------------------------------------------------------------------------
(* The checks and the users                                                *)

(* A check commits an outage, with its went_offline event, or a recovery.  *)
StatusChange(d) ==
  /\ <<"status", d>> \in Ops
  /\ row[d].exists /\ row[d].enabled
  /\ row' = [row EXCEPT ![d].offline = ~@]
  /\ outage' = [outage EXCEPT ![d] = IF row[d].offline THEN @ ELSE "fresh"]
  /\ steady' = [steady EXCEPT !.down = @ \ {d}]
  /\ UNCHANGED <<tick, storyVars, faults>>

(* ALERT_AFTER_SECONDS pass.                                               *)
Age(d) ==
  /\ outage[d] = "fresh"
  /\ outage' = [outage EXCEPT ![d] = "old"]
  /\ UNCHANGED <<row, tick, storyVars, steady, faults>>

ServiceChange(d) ==
  /\ <<"service", d>> \in Ops
  /\ row[d].exists /\ row[d].enabled
  /\ row' = [row EXCEPT ![d].failing = ~@]
  /\ UNCHANGED <<outage, tick, storyVars, steady, faults>>

(* mute_device, maintenance_device, or a maintenance window running out.   *)
Silence(d) ==
  /\ <<"silence", d>> \in Ops
  /\ row[d].exists
  /\ row' = [row EXCEPT ![d].silenced = ~@]
  /\ steady' = [steady EXCEPT !.quiet = @ \ {d}]
  /\ UNCHANGED <<outage, tick, storyVars, faults>>

Enable(d) ==
  /\ <<"enable", d>> \in Ops
  /\ row[d].exists
  /\ row' = [row EXCEPT ![d].enabled = ~@]
  /\ UNCHANGED <<outage, tick, storyVars, steady, faults>>

(* delete_device: the events go with the row.                              *)
Delete(d) ==
  /\ <<"delete", d>> \in Ops
  /\ row[d].exists
  /\ row' = [row EXCEPT ![d].exists = FALSE]
  /\ outage' = [outage EXCEPT ![d] = "none"]
  /\ steady' = [steady EXCEPT !.down = @ \ {d}]
  /\ UNCHANGED <<tick, storyVars, faults>>

-----------------------------------------------------------------------------
Init ==
  /\ row = Blank
  /\ outage = [d \in Devices |-> "none"]
  /\ tick = Idle
  /\ said = [d \in Devices |-> "none"]
  /\ torn = [d \in Devices |-> 0]
  /\ repeats = [d \in Devices |-> 0]
  /\ steady = NothingSteady
  /\ faults = 0

Engine ==
  \/ TickStart
  \/ \E d \in Devices : TickSkip(d) \/ TickNotify(d)
  \/ Sent
  \/ Commit
  \/ CommitStale
  \/ CommitFails
  \/ RefreshFails
  \/ QueryFails
  \/ TickEnd

World ==
  \E d \in Devices : \/ StatusChange(d) \/ Age(d) \/ ServiceChange(d)
                     \/ Silence(d) \/ Enable(d) \/ Delete(d)

Next == Engine \/ World \/ Crash

Spec == Init /\ [][Next]_vars

(* alert_loop comes back every ALERT_CHECK_INTERVAL_SECONDS, every channel *)
(* has a timeout, and time passes.                                         *)
FairSpec == Spec /\ WF_vars(Engine) /\ \A d \in Devices : WF_vars(Age(d))

-----------------------------------------------------------------------------
TypeOK ==
  /\ row \in [Devices -> Row]
  /\ outage \in [Devices -> {"none", "fresh", "old"}]
  /\ tick \in Ticks
  /\ tick.pc \in {"notify", "commit"} => tick.cur \in Devices
  /\ said \in [Devices -> {"none", "alarm", "recovered"}]
  /\ torn \in [Devices -> Nat]
  /\ repeats \in [Devices -> Nat]
  /\ steady \in Steady
  /\ faults \in Nat

(* Between two notifications about a device its story moves on: an alarm   *)
(* is never followed by a second one without a recovery, nor a recovery by *)
(* another, except once for each notification that was not remembered.     *)
RepeatsBounded == \A d \in Devices : repeats[d] <= torn[d]

(* A step that sends an alarm about tick.cur.                              *)
Alerts == tick.pc = "notify" /\ tick'.pc = "commit" /\ tick.kind = "alarm"

(* A cycle alerts about no device that was silenced, and about no child of *)
(* a parent that was offline, all the time since the cycle began.          *)
SuppressionRespected ==
  [][Alerts => /\ tick.cur \notin steady.quiet
               /\ Parent[tick.cur] \notin steady.down]_vars

(* A device in alarm that nothing suppresses.                              *)
Alertable(d) ==
  /\ row[d].exists /\ row[d].enabled
  /\ InAlarm(row[d])
  /\ ~Suppressed(row, d)

(* A lasting outage, or a lasting failure of the service of a device that  *)
(* stays up.  (A failing service on a device that keeps flapping may never *)
(* be reported: each cycle can find the device offline, in an outage that  *)
(* is too young.)                                                          *)
LastingAlarm(d) ==
  <>[](Alertable(d) /\ row[d].offline) \/ <>[](Alertable(d) /\ ~row[d].offline)

LastingRecovery(d) == <>[](row[d].exists /\ row[d].enabled /\ ~InAlarm(row[d]))

(* A lasting alarm ends up reported, whatever happens to other devices and *)
(* cycles, unless the recovery announced before it was not remembered: the *)
(* engine then takes the device for one it has alerted about already.      *)
AlarmReported ==
  \A d \in Devices :
    LastingAlarm(d) =>
      <>[](said[d] = "alarm" \/ (said[d] = "recovered" /\ torn[d] > 0))

(* A lasting recovery ends up announced, unless the alarm before it was    *)
(* not remembered: the engine then knows of nothing to take back.          *)
RecoveryAnnounced ==
  \A d \in Devices :
    LastingRecovery(d) => <>[](said[d] # "alarm" \/ torn[d] > 0)

(* What alerts.py says of itself: it notifies "once per outage (deduped    *)
(* via `alert_notified_at`), with a recovery notification when they come   *)
(* back".  The code does not keep it: see CommitFails.                     *)
OncePerOutage ==
  \A d \in Devices :
    /\ LastingAlarm(d) => <>[](said[d] = "alarm")
    /\ LastingRecovery(d) => <>[](said[d] # "alarm")

=============================================================================
