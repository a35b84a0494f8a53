---------------------------- MODULE CounterRates ----------------------------
(***************************************************************************)
(* Traffic rates from interface counters (services/snmp_collector.py,      *)
(* _run_collection).  A poll reads the counters of a device in walks of    *)
(* their own, 64 bits wide or, where those are missing, 32; when all of    *)
(* its walks are back it compares them with the sample the previous poll   *)
(* left in the store, and replaces that.  Checks keep their samples in     *)
(* _last_counters, peeks of the traffic window in _peek_counters: the      *)
(* polls of a kind in one process, the collector or a gateway, share one   *)
(* store and may overlap.  The module is one such process.                 *)
(*                                                                         *)
(* One interface.  Both directions are computed alike: the outgoing one is *)
(* modelled, and of the incoming only that its walk may find no wide       *)
(* counters.  A rate stands as the difference of octets it is made from.   *)
(***************************************************************************)
EXTENDS Integers

CONSTANTS
  Polls,        \* polls that may be under way at the same time
  Peeks,        \* those of them that are peeks
  WideWrap,     \* 2**64
  NarrowWrap,   \* 2**32
  MaxOctets,    \* bound of the model: octets carried
  Nothing       \* no value

ASSUME RatesAssumption ==
  /\ Peeks \subseteq Polls
  /\ {WideWrap, NarrowWrap} \subseteq Nat \ {0} /\ MaxOctets \in Nat

VARIABLES
  carried,    \* octets the interface has carried in all
  booted,     \* what it had carried when the device booted
  store,      \* the samples of _last_counters and _peek_counters
  poll,       \* where each poll is and what it has read
  latest      \* observer: the reading of the newest peek and the newest check

ratesVars == <<carried, booted, store, poll, latest>>

Wrap(wide) == IF wide THEN WideWrap ELSE NarrowWrap

(* A reading: the counter, and what the observer knows of it.              *)
Reading(wide) ==
  [value |-> (carried - booted) % Wrap(wide), true |-> carried, boot |-> booted]

(* `out_octets.get(idx, 0)': a walk that failed counts as a counter of 0.  *)
Value(reading) == IF reading = Nothing THEN 0 ELSE reading.value

NoPoll == [pc |-> "idle", wide |-> TRUE, out |-> Nothing]

Kind(p) == IF p \in Peeks THEN "peek" ELSE "check"

Fault_StoreOf(p) == "last"

StoreOf(p) == IF p \in Peeks THEN "peek" ELSE "last"

-----------------------------------------------------------------------------
(* sysName and the rest come first; then all walks go out together.        *)
PollStart(p) ==
  /\ poll[p].pc = "idle"
  /\ poll' = [poll EXCEPT ![p] = [NoPoll EXCEPT !.pc = "walk"]]
  /\ UNCHANGED <<carried, booted, store, latest>>

(* The walk of the wide counters out returns, with rows or without.        *)
OutReturns(p) ==
  /\ poll[p].pc = "walk"
  /\ \E reading \in {Nothing, Reading(TRUE)} :
       poll' = [poll EXCEPT ![p].pc = "walked", ![p].out = reading]
  /\ UNCHANGED <<carried, booted, store, latest>>

(* A required walk fails, and the poll with it: the store is left alone.   *)
PollFails(p) ==
  /\ poll[p].pc \in {"walk", "walked", "narrow"}
  /\ poll' = [poll EXCEPT ![p] = NoPoll]
  /\ UNCHANGED <<carried, booted, store, latest>>

(* The other walks are back too, whenever that is.  Without wide counters  *)
(* in, the narrow ones are read, and are required.                         *)
Complete(p) ==
  /\ poll[p].pc = "walked"
  /\ poll' \in {[poll EXCEPT ![p].pc = "rate"],
                [poll EXCEPT ![p] = [NoPoll EXCEPT !.pc = "narrow", !.wide = FALSE]]}
  /\ UNCHANGED <<carried, booted, store, latest>>

Narrow(p) ==
  /\ poll[p].pc = "narrow"
  /\ \E reading \in {Nothing, Reading(FALSE)} :
       poll' = [poll EXCEPT ![p].pc = "rate", ![p].out = reading]
  /\ UNCHANGED <<carried, booted, store, latest>>

-----------------------------------------------------------------------------
(* The comparison needs the same width, and a sample less than an hour old *)
(* (an older one gives no rate, and a rate less to be right).              *)
Previous(p) == store[StoreOf(p)]

Comparable(p) ==
  /\ Previous(p) # Nothing
  /\ Previous(p).wide = poll[p].wide

Rates(p) ==
  IF Comparable(p)
  THEN (Value(poll[p].out) - Value(Previous(p).out)) % Wrap(poll[p].wide)
  ELSE Nothing

Sample(p) == [wide |-> poll[p].wide, out |-> poll[p].out]

Rate(p) ==
  /\ poll[p].pc = "rate"
  /\ store' = [store EXCEPT ![StoreOf(p)] = Sample(p)]
  /\ latest' = [latest EXCEPT ![Kind(p)] = poll[p].out]
  /\ poll' = [poll EXCEPT ![p] = NoPoll]
  /\ UNCHANGED <<carried, booted>>

(* Traffic, and a device that reboots.                                     *)
Carry ==
  /\ carried < MaxOctets
  /\ carried' = carried + 1
  /\ UNCHANGED <<booted, store, poll, latest>>

Reboot ==
  /\ booted' = carried
  /\ UNCHANGED <<carried, store, poll, latest>>

(* The counter is about to wrap; or has just started, after a reboot.      *)
RatesInit ==
  /\ carried = 0
  /\ booted = 1 - WideWrap
  /\ store = [s \in {"last", "peek"} |-> Nothing]
  /\ poll = [p \in Polls |-> NoPoll]
  /\ latest = [k \in {"check", "peek"} |-> Nothing]

(* The process restarts with empty stores.                                 *)
RatesRestart ==
  /\ store' = [s \in {"last", "peek"} |-> Nothing]
  /\ poll' = [p \in Polls |-> NoPoll]
  /\ UNCHANGED <<carried, booted, latest>>

PollNext(p) ==
  \/ PollStart(p) \/ OutReturns(p) \/ PollFails(p) \/ Complete(p)
  \/ Narrow(p) \/ Rate(p)

DeviceNext == Carry \/ Reboot

-----------------------------------------------------------------------------
(* Two readings can be compared: both were made, the counter did not start *)
(* anew between them, they were made in this order (polls that overlap may *)
(* finish in another), and it wrapped at most once.                        *)
Sound(now, before, wrap) ==
  /\ now # Nothing /\ before # Nothing
  /\ now.boot = before.boot
  /\ now.true >= before.true
  /\ now.true - before.true < wrap

(* A rate is what was carried since the previous poll of the same kind,    *)
(* peek or check, whatever polls of the other kind came between and        *)
(* whichever counters each of them could read.                             *)
RatesTrue ==
  [][\A p \in Polls :
       LET before == latest[Kind(p)]
       IN  Rate(p) /\ Rates(p) # Nothing /\ Sound(poll[p].out, before, Wrap(poll[p].wide))
           => Rates(p) = poll[p].out.true - before.true]_ratesVars

=============================================================================
