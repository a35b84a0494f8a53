------------------------------ MODULE LossCheck ------------------------------
(***************************************************************************)
(* The degraded-link check of services/alerts.py (_loss_tick): a device    *)
(* that still answers, but loses packets, is notified about, and not again *)
(* within a cooldown that is kept in memory.  Each cycle loads the lossy   *)
(* devices, in no particular order, and walks over these copies; the first *)
(* commit that fails ends it.  Time is in units; sending and the rest of   *)
(* the loop, the outage alerts and the sleep, take time.                   *)
(***************************************************************************)
EXTENDS Integers, FiniteSets

CONSTANTS
  Links,           \* the devices that are pinged
  NoLink,          \* not a device
  LOSS_COOLDOWN,   \* ALERT_LOSS_COOLDOWN_MINUTES
  CHECK_INTERVAL,  \* ALERT_CHECK_INTERVAL_SECONDS
  MaxCycle         \* the longest time from one check to the next: the
                   \* interval, and the timeouts of all that is sent between

ASSUME LossAssumption ==
  /\ IsFiniteSet(Links) /\ NoLink \notin Links
  /\ {LOSS_COOLDOWN, CHECK_INTERVAL, MaxCycle} \subseteq Nat
  /\ CHECK_INTERVAL <= MaxCycle

(* What the samples of the window and the row of a device say: lossy, and  *)
(* to be notified about; excused, that is lossy but disabled, silenced,    *)
(* not critical enough or offline; fine otherwise.                         *)
Conditions == {"fine", "lossy", "excused"}

VARIABLES
  condition,
  loss,       \* the cycle: where it is, its copies, the devices left, the one
              \* being notified about
  noticedAt,  \* _loss_notified_at: the age of each entry, or Unnoticed
  sinceNow,   \* the time since `now' of the last cycle
  overdue     \* observer: how long each device has been due for a notice
              \* without a break, while the samples could be read

lossVars == <<condition, loss, noticedAt, sinceNow, overdue>>

Unnoticed == -1

Resting == [pc |-> "sleep", todo |-> {}, cur |-> NoLink,
            seen |-> [d \in Links |-> "fine"]]

-----------------------------------------------------------------------------
LossBegin ==
  /\ loss.pc = "sleep" /\ sinceNow >= CHECK_INTERVAL
  /\ loss' = [Resting EXCEPT !.pc = "walk", !.seen = condition,
                             !.todo = {d \in Links : condition[d] # "fine"}]
  /\ sinceNow' = 0
  /\ UNCHANGED <<condition, noticedAt, overdue>>

(* One of its two queries fails.                                           *)
LossUnread ==
  /\ loss.pc = "sleep" /\ sinceNow >= CHECK_INTERVAL
  /\ sinceNow' = 0
  /\ overdue' = [d \in Links |-> 0]
  /\ UNCHANGED <<condition, loss, noticedAt>>

(* The cooldown, as the cycle sees it from its `now'.                      *)
OnCooldown(d) == noticedAt[d] # Unnoticed /\ noticedAt[d] - sinceNow < LOSS_COOLDOWN

LossSkip(d) ==
  /\ loss.pc = "walk" /\ d \in loss.todo
  /\ loss.seen[d] = "excused" \/ OnCooldown(d)
  /\ loss' = [loss EXCEPT !.todo = @ \ {d}]
  /\ UNCHANGED <<condition, noticedAt, sinceNow, overdue>>

LossNotify(d) ==
  /\ loss.pc = "walk" /\ d \in loss.todo
  /\ loss.seen[d] = "lossy" /\ ~OnCooldown(d)
  /\ loss' = [loss EXCEPT !.pc = "send", !.todo = @ \ {d}, !.cur = d]
  /\ UNCHANGED <<condition, noticedAt, sinceNow, overdue>>

(* _notify returns, whatever became of its channels; the entry is made     *)
(* before the commit.                                                      *)
LossSent ==
  /\ loss.pc = "send"
  /\ noticedAt' = [noticedAt EXCEPT ![loss.cur] = sinceNow]
  /\ overdue' = [overdue EXCEPT ![loss.cur] = 0]
  /\ loss' = [loss EXCEPT !.pc = "commit"]
  /\ UNCHANGED <<condition, sinceNow>>

LossCommitted ==
  /\ loss.pc = "commit"
  /\ loss' = [loss EXCEPT !.pc = "walk", !.cur = NoLink]
  /\ UNCHANGED <<condition, noticedAt, sinceNow, overdue>>

Fault_LossCommitFails ==
  /\ loss.pc = "commit"
  /\ noticedAt' = [noticedAt EXCEPT ![loss.cur] = Unnoticed]
  /\ loss' = Resting
  /\ UNCHANGED <<condition, sinceNow, overdue>>

(* The row of the audit log cannot be written: the exception ends the      *)
(* cycle, whatever is left of the list.                                    *)
LossCommitFails ==
  /\ loss.pc = "commit"
  /\ loss' = Resting
  /\ UNCHANGED <<condition, noticedAt, sinceNow, overdue>>

LossEnd ==
  /\ loss.pc = "walk" /\ loss.todo = {}
  /\ loss' = Resting
  /\ UNCHANGED <<condition, noticedAt, sinceNow, overdue>>

(* The collector starts anew: the cooldowns are gone.                      *)
LossRestart ==
  /\ loss' = Resting
  /\ noticedAt' = [d \in Links |-> Unnoticed]
  /\ sinceNow' = 0
  /\ overdue' = [d \in Links |-> 0]
  /\ UNCHANGED condition

-----------------------------------------------------------------------------
(* Samples come and go, users silence, enable or delete the device.        *)
ConditionChange(d) ==
  /\ \E c \in Conditions : condition' = [condition EXCEPT ![d] = c]
  /\ overdue' = [overdue EXCEPT ![d] = 0]
  /\ UNCHANGED <<loss, noticedAt, sinceNow>>

(* Ages from here on are all alike.                                        *)
Stale == LOSS_COOLDOWN + MaxCycle

Due(d) == condition[d] = "lossy" /\ (noticedAt[d] = Unnoticed \/ noticedAt[d] >= LOSS_COOLDOWN)

(* Time passes while the loop sleeps or sends.                             *)
LossTick ==
  /\ loss.pc \in {"sleep", "send"} /\ sinceNow < MaxCycle
  /\ sinceNow' = sinceNow + 1
  /\ noticedAt' = [d \in Links |-> IF noticedAt[d] \in {Unnoticed, Stale} THEN noticedAt[d]
                                   ELSE noticedAt[d] + 1]
  /\ overdue' = [d \in Links |-> IF Due(d) THEN overdue[d] + 1 ELSE 0]
  /\ UNCHANGED <<condition, loss>>

LossInit ==
  /\ condition = [d \in Links |-> "fine"]
  /\ loss = Resting
  /\ noticedAt = [d \in Links |-> Unnoticed]
  /\ sinceNow = 0
  /\ overdue = [d \in Links |-> 0]

LossNext ==
  \/ LossBegin \/ LossUnread \/ LossSent \/ LossCommitted \/ LossCommitFails \/ LossEnd
  \/ \E d \in Links : LossSkip(d) \/ LossNotify(d) \/ ConditionChange(d)
  \/ LossTick

-----------------------------------------------------------------------------
(* A device that loses packets and is not excused is notified about within *)
(* as many cycles as there are devices, and one, even if every commit      *)
(* fails: each cycle that fails has begun the cooldown of another device.  *)
(* (The cooldown has to outlast these cycles, or the first device would be *)
(* due again before the last had its turn.)                                *)
DegradedInTime ==
  (Cardinality(Links) - 1) * MaxCycle < LOSS_COOLDOWN =>
    \A d \in Links : overdue[d] <= (Cardinality(Links) + 1) * MaxCycle

=============================================================================
