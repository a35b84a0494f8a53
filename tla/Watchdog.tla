------------------------------ MODULE Watchdog ------------------------------
(***************************************************************************)
(* The watchdog on another machine (tools/watchdog.py) and what it asks    *)
(* (healthz of app/main.py): is the API up, and is the collector's         *)
(* heartbeat young?  One thread asks, counts the bad answers in a row,     *)
(* sends its alarm, its all-clear after that, and sleeps; what it knows is *)
(* in memory.  Meanwhile the API comes and goes, the heartbeat is stamped  *)
(* or not (module Scheduler), Redis and the network fail.  Time is in      *)
(* units; asking, sending and sleeping take time.                          *)
(***************************************************************************)
EXTENDS Integers

CONSTANTS
  WATCHDOG_INTERVAL,
  WATCHDOG_FAILURES,
  HTTP_TIMEOUT,
  HEALTHY_LIMIT,   \* limit of healthz: the age of a healthy heartbeat
  MaxAlert         \* the longest alert: the timeouts of its channels, added up

ASSUME WatchdogAssumption ==
  /\ WATCHDOG_INTERVAL \in Nat /\ WATCHDOG_FAILURES \in Nat \ {0}
  /\ HTTP_TIMEOUT \in Nat /\ HEALTHY_LIMIT \in Nat /\ MaxAlert \in Nat

VARIABLES
  serving,       \* the API can be reached
  beatAge,       \* the age of the heartbeat, up to one beyond the limit
  dog,           \* where main is, for how long, and the answer on its way
  consecutive,   \* as far as it matters, up to WATCHDOG_FAILURES
  alarmed,
  blind          \* observer: for how long the network has been unmonitored
                 \* while this watchdog ran

watchdogVars == <<serving, beatAge, dog, consecutive, alarmed, blind>>

Asking == [pc |-> "check", spent |-> 0, answer |-> "none"]
At(place) == [pc |-> place, spent |-> 0, answer |-> "none"]

AtMost(n, bound) == IF n <= bound THEN n ELSE bound

(* The API is down, or the collector does not complete its cycles.         *)
Unmonitored == ~serving \/ beatAge > HEALTHY_LIMIT

Longest(place) ==
  CASE place = "check" -> HTTP_TIMEOUT
    [] place = "sleep" -> WATCHDOG_INTERVAL
    [] OTHER -> MaxAlert

(* From the moment the monitor fails: a good answer was on its way and its *)
(* all-clear is sent first, then come the bad answers and the alarm.       *)
WorstDelay ==
  WATCHDOG_FAILURES * (WATCHDOG_INTERVAL + HTTP_TIMEOUT) + HTTP_TIMEOUT + 2 * MaxAlert

-----------------------------------------------------------------------------
(* healthz, when it gets to answer: without Redis no heartbeat is healthy. *)
Healthz ==
  /\ serving
  /\ dog.pc = "check" /\ dog.answer = "none"
  /\ \E redis \in BOOLEAN :
       dog' = [dog EXCEPT !.answer =
                 IF redis /\ beatAge <= HEALTHY_LIMIT THEN "healthy" ELSE "stale"]
  /\ UNCHANGED <<serving, beatAge, consecutive, alarmed, blind>>

Healthy ==
  /\ dog.pc = "check" /\ dog.answer = "healthy"
  /\ consecutive' = 0
  /\ dog' = At(IF alarmed THEN "resolve" ELSE "sleep")
  /\ UNCHANGED <<serving, beatAge, alarmed, blind>>

Fault_Enough(count) == count > WATCHDOG_FAILURES

Enough(count) == count >= WATCHDOG_FAILURES

(* The answer is bad, unreadable, or does not come.                        *)
Unhealthy ==
  /\ dog.pc = "check"
  /\ consecutive' = AtMost(consecutive + 1, WATCHDOG_FAILURES + 1)
  /\ dog' = At(IF Enough(consecutive + 1) /\ ~alarmed THEN "alarm" ELSE "sleep")
  /\ UNCHANGED <<serving, beatAge, alarmed, blind>>

(* alert has tried all channels; it raises nothing.                        *)
Alerted ==
  /\ dog.pc \in {"alarm", "resolve"}
  /\ alarmed' = (dog.pc = "alarm")
  /\ dog' = At("sleep")
  /\ UNCHANGED <<serving, beatAge, consecutive, blind>>

Slept ==
  /\ dog.pc = "sleep" /\ dog.spent = WATCHDOG_INTERVAL
  /\ dog' = Asking
  /\ UNCHANGED <<serving, beatAge, consecutive, alarmed, blind>>

(* systemd starts the watchdog again: it knows of no alarm.                *)
WatchdogRestart ==
  /\ dog' = Asking
  /\ consecutive' = 0 /\ alarmed' = FALSE
  /\ blind' = 0
  /\ UNCHANGED <<serving, beatAge>>

-----------------------------------------------------------------------------
(* The monitor: the API comes and goes, the collector completes a cycle.   *)
MonitorNext ==
  /\ \/ serving' = ~serving /\ beatAge' = beatAge
     \/ serving' = serving /\ beatAge' = 0
  /\ blind' = IF Unmonitored' THEN blind ELSE 0
  /\ UNCHANGED <<dog, consecutive, alarmed>>

WatchdogTick ==
  /\ dog.spent < Longest(dog.pc)
  /\ dog' = [dog EXCEPT !.spent = @ + 1]
  /\ beatAge' = AtMost(beatAge + 1, HEALTHY_LIMIT + 1)
  /\ blind' = IF Unmonitored THEN AtMost(blind + 1, WorstDelay + 1) ELSE 0
  /\ UNCHANGED <<serving, consecutive, alarmed>>

WatchdogInit ==
  /\ serving = TRUE /\ beatAge = 0
  /\ dog = Asking
  /\ consecutive = 0 /\ alarmed = FALSE
  /\ blind = 0

WatchdogNext ==
  \/ Healthz \/ Healthy \/ Unhealthy \/ Alerted \/ Slept \/ WatchdogRestart
  \/ MonitorNext \/ WatchdogTick

-----------------------------------------------------------------------------
(* A monitor that has been down or stuck without a break is alarmed about  *)
(* in time, whatever answers were on their way when it failed, and however *)
(* outages and recoveries before that were told apart; a watchdog that     *)
(* restarts begins to count again.                                         *)
AlarmInTime == blind > WorstDelay => alarmed

=============================================================================
