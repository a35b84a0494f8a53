----------------------------- MODULE Scheduler ------------------------------
(***************************************************************************)
(* The probe scheduler of the collector (ping_loop, _refresh_schedule and  *)
(* _run_due of services/ping_scheduler.py).  One coroutine wakes up every  *)
(* second, brings its schedule in line with the enabled devices, checks    *)
(* all that are due (at most Slots at a time), waits for the LAST of these *)
(* checks, gives each its next date, and stamps the heartbeat by which the *)
(* API and the watchdog judge the collector.  Users enable and disable     *)
(* devices meanwhile, PostgreSQL and Redis fail, the process restarts.     *)
(*                                                                         *)
(* Time is in seconds.  Dates are kept as the time that is left or gone;   *)
(* only sleeping and checking take time.  What a check does is module      *)
(* StatusMachine's, here it takes up to MaxCheck seconds.                  *)
(***************************************************************************)
EXTENDS Integers, FiniteSets

CONSTANTS
  Devices,
  Slots,         \* size of the semaphore _sem
  INTERVAL,      \* PING_INTERVAL_SECONDS
  FAST,          \* PING_FAST_INTERVAL_SECONDS
  WINDOW,        \* PING_VOLATILE_WINDOW_SECONDS
  MaxCheck,      \* the longest check: its timeouts, added up
  MaxFailures,   \* bound of the model on failed cycles
  MaxRestarts    \* bound of the model on restarts of the collector

ASSUME ScheduleAssumption ==
  /\ IsFiniteSet(Devices)
  /\ Slots \in Nat \ {0} /\ FAST \in Nat \ {0} /\ INTERVAL \in Nat
  /\ FAST <= INTERVAL
  /\ WINDOW \in Nat \ {0} /\ MaxCheck \in Nat
  /\ MaxFailures \in Nat /\ MaxRestarts \in Nat

VARIABLES
  enabled,   \* the devices with is_enabled, as committed
  pc,        \* where ping_loop is
  next,      \* _schedule: the time until the next check, or Unscheduled
  volatile,  \* _volatile_until: the time a device is still probed fast
  due,       \* the devices of the round in progress
  waiting,   \* those of them that wait for a slot
  running,   \* those being checked
  elapsed,   \* for how long
  since,     \* the time since the last check of a device began, or since
             \* the device came into the schedule
  beat,      \* the age of the heartbeat
  failures, restarts

vars == <<enabled, pc, next, volatile, due, waiting, running, elapsed, since,
          beat, failures, restarts>>

Unscheduled == -1

Scheduled(d) == next[d] # Unscheduled

Max0(n) == IF n > 0 THEN n ELSE 0

-----------------------------------------------------------------------------
(* The dates that _refresh_schedule gives: a device that is new gets one   *)
(* within the slow interval, one that is disabled loses it.                *)
NewDates(d) ==
  IF d \notin enabled THEN {Unscheduled}
  ELSE IF Scheduled(d) THEN {next[d]}
  ELSE 0 .. INTERVAL - 1

(* _refresh_schedule and the start of _run_due.                            *)
RoundStart ==
  /\ pc = "wake"
  /\ next' \in [Devices -> UNION {NewDates(d) : d \in Devices}]
  /\ \A d \in Devices : next'[d] \in NewDates(d)
  /\ volatile' = [d \in Devices |->
                    IF Scheduled(d) /\ d \notin enabled THEN 0 ELSE volatile[d]]
  /\ due' = {d \in Devices : next'[d] = 0}
  /\ waiting' = due'
  /\ pc' = "round"
  /\ since' = [d \in Devices |-> IF Scheduled(d) THEN since[d] ELSE 0]
  /\ UNCHANGED <<enabled, running, elapsed, beat, failures, restarts>>

(* A check gets a slot of the semaphore.                                   *)
CheckStart(d) ==
  /\ pc = "round"
  /\ d \in waiting
  /\ Cardinality(running) < Slots
  /\ waiting' = waiting \ {d}
  /\ running' = running \cup {d}
  /\ elapsed' = [elapsed EXCEPT ![d] = 0]
  /\ since' = [since EXCEPT ![d] = 0]
  /\ UNCHANGED <<enabled, pc, next, volatile, due, beat, failures, restarts>>

(* It is over, well or not.  When it found the device not online, or its   *)
(* status changed, the device is volatile from now on.                     *)
CheckEnd(d) ==
  /\ d \in running
  /\ running' = running \ {d}
  /\ \E v \in {volatile[d], WINDOW} : volatile' = [volatile EXCEPT ![d] = v]
  /\ elapsed' = [elapsed EXCEPT ![d] = 0]
  /\ UNCHANGED <<enabled, pc, next, due, waiting, since, beat, failures,
                 restarts>>

(* _next_interval *)
Fault_AlwaysSlow(d) == INTERVAL

NextInterval(d) == IF volatile[d] > 0 THEN FAST ELSE INTERVAL

Fault_BeatIfDue ==
  /\ pc = "round"
  /\ waiting = {} /\ running = {}
  /\ next' = [d \in Devices |-> IF d \in due THEN NextInterval(d) ELSE next[d]]
  /\ due' = {}
  /\ pc' = IF due = {} THEN "sleep" ELSE "stamp"
  /\ UNCHANGED <<enabled, volatile, waiting, running, elapsed, since, beat,
                 failures, restarts>>

(* All checks of the round are over: the devices get their next dates.     *)
RoundEnd ==
  /\ pc = "round"
  /\ waiting = {} /\ running = {}
  /\ next' = [d \in Devices |-> IF d \in due THEN NextInterval(d) ELSE next[d]]
  /\ due' = {}
  /\ pc' = "stamp"
  /\ UNCHANGED <<enabled, volatile, waiting, running, elapsed, since, beat,
                 failures, restarts>>

(* set_heartbeat *)
Stamp ==
  /\ pc = "stamp"
  /\ beat' = 0
  /\ pc' = "sleep"
  /\ UNCHANGED <<enabled, next, volatile, due, waiting, running, elapsed, since,
                 failures, restarts>>

Fault_BeatAnyway ==
  /\ pc \in {"wake", "stamp"}
  /\ failures < MaxFailures
  /\ failures' = failures + 1
  /\ pc' = "sleep"
  /\ beat' = 0
  /\ UNCHANGED <<enabled, next, volatile, due, waiting, running, elapsed, since,
                 restarts>>

(* PostgreSQL cannot tell the enabled devices, or Redis cannot take the    *)
(* heartbeat: the exception is logged, and the loop sleeps.                *)
CycleFails ==
  /\ pc \in {"wake", "stamp"}
  /\ failures < MaxFailures
  /\ failures' = failures + 1
  /\ pc' = "sleep"
  /\ UNCHANGED <<enabled, next, volatile, due, waiting, running, elapsed, since,
                 beat, restarts>>

(* The collector restarts: the schedule was in memory.                     *)
Restart ==
  /\ restarts < MaxRestarts
  /\ restarts' = restarts + 1
  /\ pc' = "wake"
  /\ next' = [d \in Devices |-> Unscheduled]
  /\ volatile' = [d \in Devices |-> 0]
  /\ due' = {} /\ waiting' = {} /\ running' = {}
  /\ elapsed' = [d \in Devices |-> 0]
  /\ since' = [d \in Devices |-> 0]
  /\ UNCHANGED <<enabled, beat, failures>>

-----------------------------------------------------------------------------
(* A second passes: while the loop sleeps, or while checks run and nothing *)
(* else can start.                                                         *)
TimePasses ==
  /\ \/ pc = "sleep" /\ pc' = "wake"
     \/ /\ pc = "round" /\ running # {} /\ pc' = "round"
        /\ waiting = {} \/ Cardinality(running) = Slots
  /\ \A d \in running : elapsed[d] < MaxCheck
  /\ elapsed' = [d \in Devices |->
                   IF d \in running THEN elapsed[d] + 1 ELSE elapsed[d]]
  /\ next' = [d \in Devices |-> IF Scheduled(d) THEN Max0(next[d] - 1)
                                ELSE Unscheduled]
  /\ volatile' = [d \in Devices |-> Max0(volatile[d] - 1)]
  /\ since' = [d \in Devices |-> IF Scheduled(d) THEN since[d] + 1 ELSE 0]
  /\ beat' = beat + 1
  /\ UNCHANGED <<enabled, due, waiting, running, failures, restarts>>

(* Users create or enable a device; disable or delete it.                  *)
Toggle(d) ==
  /\ enabled' = IF d \in enabled THEN enabled \ {d} ELSE enabled \cup {d}
  /\ UNCHANGED <<pc, next, volatile, due, waiting, running, elapsed, since,
                 beat, failures, restarts>>

-----------------------------------------------------------------------------
Init ==
  /\ enabled \in SUBSET Devices
  /\ pc = "wake"
  /\ next = [d \in Devices |-> Unscheduled]
  /\ volatile = [d \in Devices |-> 0]
  /\ due = {} /\ waiting = {} /\ running = {}
  /\ elapsed = [d \in Devices |-> 0]
  /\ since = [d \in Devices |-> 0]
  /\ beat = 0 /\ failures = 0 /\ restarts = 0

Next ==
  \/ RoundStart \/ RoundEnd \/ Stamp \/ CycleFails \/ Restart \/ TimePasses
  \/ \E d \in Devices : CheckStart(d) \/ CheckEnd(d) \/ Toggle(d)

Spec == Init /\ [][Next]_vars

-----------------------------------------------------------------------------
(* The longest a round can take.                                           *)
RoundMax ==
  ((Cardinality(Devices) + Slots - 1) \div Slots) * MaxCheck

TypeOK ==
  /\ enabled \subseteq Devices
  /\ pc \in {"wake", "round", "stamp", "sleep"}
  /\ next \in [Devices -> {Unscheduled} \cup 0 .. INTERVAL]
  /\ volatile \in [Devices -> 0 .. WINDOW]
  /\ due \subseteq Devices
  /\ waiting \subseteq due /\ running \subseteq due
  /\ waiting \cap running = {} /\ Cardinality(running) <= Slots
  /\ elapsed \in [Devices -> 0 .. MaxCheck]
  /\ since \in [Devices -> Nat]
  /\ beat \in Nat /\ failures \in 0 .. MaxFailures /\ restarts \in 0 .. MaxRestarts

(* "All healthy" can be told from "the monitor is stuck": the heartbeat is *)
(* never older than one round for every failed cycle or restart and one.   *)
HeartbeatFresh == beat <= (failures + restarts + 1) * (RoundMax + 1)

(* A heartbeat is honest: when it is stamped, every enabled device of the  *)
(* schedule has been checked, or has come into the schedule, within the    *)
(* slow interval, the rest of its own round, and one more round that may   *)
(* have begun just before its date.                                        *)
HeartbeatHonest ==
  \A d \in enabled : Scheduled(d) => since[d] <= beat + INTERVAL + 2 * RoundMax

(* A device whose status is unsettled is checked again after the fast      *)
(* interval, but for the same two rounds.                                  *)
UnsettledIsChecked ==
  \A d \in enabled :
    Scheduled(d) /\ volatile[d] > 0 => since[d] <= beat + FAST + 2 * RoundMax

=============================================================================
