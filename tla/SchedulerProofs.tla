--------------------------- MODULE SchedulerProofs ---------------------------
(***************************************************************************)
(* Proofs about Scheduler, for any number of devices and slots and any     *)
(* intervals: its types, and how old the heartbeat and the last check of a *)
(* device can get.  All of it rests on how long a round takes (Progress),  *)
(* which is known although checks of any length follow each other on the   *)
(* slots in any order.                                                     *)
(***************************************************************************)
EXTENDS Scheduler, FiniteSetTheorems, TLAPS

Disturbances == failures + restarts

(* The checks, over or running, that began within the first k longest      *)
(* checks of a round that has lasted for t.                                *)
Early(t, k) ==
  {d \in due \ waiting : d \in running => t - elapsed[d] <= k * MaxCheck}

(* A slot is never left free while a check waits.  So within the first k   *)
(* longest checks each slot has taken up one more check than that, or all  *)
(* checks have begun.                                                      *)
Progress(t) ==
  \A k \in Nat :
    k * MaxCheck < t =>
      Early(t, k) = due \/ Cardinality(Early(t, k)) >= (k + 1) * Slots

(* The age of the heartbeat, by where the loop is.                         *)
BeatBounded(t) ==
  LET settled == Disturbances * (RoundMax + 1)
  IN  /\ pc = "sleep" => beat <= settled
      /\ pc = "wake" => beat <= settled + 1
      /\ pc \in {"round", "stamp"} => beat <= settled + 1 + t

(* A device that is not due is on time, or becomes overdue in this round,  *)
(* or waits for a round to begin; one that is due waits, or was checked in *)
(* this round.                                                             *)
OnTime(d, t) ==
  LET late == NextInterval(d) + RoundMax
  IN  /\ d \notin due /\ next[d] > 0 => since[d] + next[d] <= late
      /\ d \notin due /\ next[d] = 0 =>
           since[d] <= late + (IF pc \in {"round", "stamp"} THEN t ELSE beat + RoundMax)
      /\ d \in waiting => since[d] <= beat + late + RoundMax
      /\ d \in due \ waiting => since[d] <= t

Pace(t) ==
  /\ pc = "round" => Progress(t)
  /\ BeatBounded(t)
  /\ \A d \in Devices : Scheduled(d) => OnTime(d, t)

(* Nobody is due between rounds, and who is not scheduled is not volatile. *)
Tidy ==
  /\ pc # "round" => due = {}
  /\ \A d \in Devices : ~Scheduled(d) => volatile[d] = 0 /\ d \notin due

(* A round has lasted for t.                                               *)
SchedulerInv == TypeOK /\ Tidy /\ \E t \in 0 .. RoundMax : Pace(t)

-----------------------------------------------------------------------------
LEMMA Division ==
  ASSUME NEW w \in Nat \ {0}, NEW a \in Nat
  PROVE  a % w \in 0 .. w - 1 /\ a \div w \in Nat /\ a % w = a - w * (a \div w)
<1>1. a % w \in 0 .. w - 1 /\ a \div w \in Nat
  OBVIOUS
<1>2. a % w = a - w * (a \div w)
  OBVIOUS
<1> QED
  BY <1>1, <1>2, Zenon

LEMMA Products ==
  ASSUME NEW k \in Nat
  PROVE  /\ k * MaxCheck \in Nat /\ (k + 1) * MaxCheck = k * MaxCheck + MaxCheck
         /\ k * Slots \in Nat /\ (k + 1) * Slots = k * Slots + Slots
         /\ k = 0 => k * MaxCheck = 0 /\ k * Slots = 0
BY ScheduleAssumption

(* The longest round is so many longest checks, and they make room for all *)
(* devices.                                                                *)
LEMMA RoomForAll ==
  \E k \in Nat : RoundMax = k * MaxCheck /\ Cardinality(Devices) <= k * Slots
<1> DEFINE n == Cardinality(Devices)
           a == n + Slots - 1
           k == a \div Slots
<1>1. n \in Nat /\ Slots \in Nat \ {0} /\ a \in Nat
  BY FS_CardinalityType, ScheduleAssumption
<1>2. a % Slots \in 0 .. Slots - 1 /\ k \in Nat /\ a % Slots = a - Slots * k
  BY <1>1, Division
<1>3. RoundMax = k * MaxCheck
  BY DEF RoundMax
<1>4. n <= k * Slots
  <2> DEFINE r == a % Slots
             m == Slots * k
  <2>1. m \in Nat /\ m = k * Slots
    BY <1>1, <1>2
  <2>2. r \in 0 .. Slots - 1 /\ r = a - m
    BY <1>2
  <2>3. a = n + Slots - 1
    OBVIOUS
  <2> HIDE DEF n, a, k, r, m
  <2> QED
    BY <1>1, <2>1, <2>2, <2>3
<1> QED
  BY <1>2, <1>3, <1>4

LEMMA RoundMaxNat == RoundMax \in Nat
BY RoomForAll, Products

LEMMA Intervals ==
  \A d \in Devices : NextInterval(d) \in Nat \ {0} /\ NextInterval(d) <= INTERVAL
BY ScheduleAssumption DEF NextInterval

-----------------------------------------------------------------------------
(* The time a round takes.                                                 *)

LEMMA FiniteSets ==
  ASSUME NEW D \in SUBSET Devices
  PROVE  /\ IsFiniteSet(D) /\ Cardinality(D) \in Nat
         /\ Cardinality(D) <= Cardinality(Devices)
         /\ Cardinality(D) = Cardinality(Devices) => D = Devices
<1>1. IsFiniteSet(Devices)
  BY ScheduleAssumption
<1>2. IsFiniteSet(D) /\ Cardinality(D) <= Cardinality(Devices)
      /\ (Cardinality(Devices) = Cardinality(D) => Devices = D)
  BY <1>1, FS_Subset
<1> QED
  BY <1>2, FS_CardinalityType

LEMMA Larger ==
  ASSUME NEW D \in SUBSET Devices, NEW E \in SUBSET Devices, E \subseteq D
  PROVE  Cardinality(E) <= Cardinality(D)
<1>1. IsFiniteSet(D) /\ E \in SUBSET D
  BY FiniteSets
<1> QED
  BY <1>1, FS_Subset

LEMMA Disjoint ==
  ASSUME NEW D \in SUBSET Devices, NEW E \in SUBSET Devices, D \cap E = {}
  PROVE  Cardinality(D \cup E) = Cardinality(D) + Cardinality(E)
<1>1. IsFiniteSet(D) /\ IsFiniteSet(E) /\ Cardinality(D) \in Nat /\ Cardinality(E) \in Nat
  BY FiniteSets
<1>2. Cardinality(D \cup E) = Cardinality(D) + Cardinality(E) - Cardinality(D \cap E)
  BY <1>1, FS_Union
<1>3. Cardinality(D \cap E) = 0
  BY FS_EmptySet
<1> QED
  BY <1>1, <1>2, <1>3

(* As long as nobody has been checked for the longest time, the early ones *)
(* of a check ago are over, and fill all slots but those that run.         *)
LEMMA EarlyAreOver ==
  ASSUME TypeOK, NEW t \in Nat, NEW k \in Nat, (k + 1) * MaxCheck <= t, Progress(t),
         running # {}, \A d \in running : elapsed[d] < MaxCheck
  PROVE  /\ Early(t, k) \cap running = {}
         /\ Cardinality(Early(t, k)) >= (k + 1) * Slots
<1>1. MaxCheck \in Nat \ {0} /\ k * MaxCheck \in Nat /\ k * MaxCheck + MaxCheck <= t
  <2>1. PICK d \in running : elapsed[d] < MaxCheck
    OBVIOUS
  <2>2. elapsed[d] \in Nat
    BY <2>1 DEF TypeOK
  <2> QED
    BY <2>1, <2>2, Products, ScheduleAssumption
<1>2. ASSUME NEW d \in Early(t, k), d \in running PROVE FALSE
  <2>1. t - elapsed[d] <= k * MaxCheck
    BY <1>2 DEF Early
  <2>2. elapsed[d] \in Nat /\ elapsed[d] < MaxCheck
    BY <1>2 DEF TypeOK
  <2> QED
    BY <1>1, <2>1, <2>2
<1>3. Early(t, k) # due
  BY <1>2 DEF TypeOK
<1>4. k * MaxCheck < t
  BY <1>1
<1> QED
  BY <1>2, <1>3, <1>4 DEF Progress

LEMMA RoundsEnd ==
  ASSUME TypeOK, NEW t \in 0 .. RoundMax, Progress(t),
         running # {}, \A d \in running : elapsed[d] < MaxCheck
  PROVE  t + 1 \in 0 .. RoundMax
<1>1. PICK n \in Nat : RoundMax = n * MaxCheck /\ Cardinality(Devices) <= n * Slots
  BY RoomForAll
<1>2. RoundMax \in Nat /\ t \in Nat
  BY RoundMaxNat
<1> SUFFICES ASSUME t = RoundMax PROVE FALSE
  BY <1>2
<1>3. PICK d \in running : TRUE
  OBVIOUS
<1>4. d \in Devices /\ running \subseteq Devices /\ due \subseteq Devices
  BY <1>3 DEF TypeOK
<1>5. n # 0
  <2>1. Cardinality(Devices) # 0
    BY <1>4, FS_EmptySet, ScheduleAssumption
  <2> QED
    BY <1>1, <2>1, FiniteSets, Products
<1> DEFINE k == n - 1
<1>6. k \in Nat /\ k + 1 = n
  BY <1>5
<1> HIDE DEF k
<1>7. (k + 1) * MaxCheck <= t
  BY <1>1, <1>2, <1>6
<1>8. Early(t, k) \cap running = {} /\ Cardinality(Early(t, k)) >= n * Slots
  BY <1>2, <1>6, <1>7, EarlyAreOver
<1>9. Early(t, k) \in SUBSET Devices
  BY <1>4 DEF Early
<1>10. Cardinality(Early(t, k)) = Cardinality(Devices)
  <2>1. /\ Cardinality(Early(t, k)) \in Nat /\ Cardinality(Devices) \in Nat
        /\ Cardinality(Early(t, k)) <= Cardinality(Devices)
    BY <1>9, FiniteSets
  <2>2. n * Slots \in Nat
    BY Products
  <2> QED
    BY <1>1, <1>8, <2>1, <2>2
<1> QED
  BY <1>3, <1>4, <1>8, <1>9, <1>10, FiniteSets

LEMMA RoundProgresses ==
  ASSUME TypeOK, NEW t \in Nat, Progress(t), running # {},
         \A d \in running : elapsed[d] < MaxCheck,
         waiting = {} \/ Cardinality(running) = Slots,
         elapsed' = [d \in Devices |-> IF d \in running THEN elapsed[d] + 1 ELSE elapsed[d]],
         UNCHANGED <<due, waiting, running>>
  PROVE  Progress(t + 1)'
<1> SUFFICES ASSUME NEW k \in Nat, k * MaxCheck < t + 1
             PROVE  Early(t + 1, k)' = due' \/ Cardinality(Early(t + 1, k)') >= (k + 1) * Slots
  BY DEF Progress
<1>1. k * MaxCheck \in Nat /\ running \subseteq Devices /\ due \subseteq Devices
  BY Products DEF TypeOK
<1>2. ASSUME NEW d \in running
      PROVE  elapsed[d] \in Nat /\ elapsed'[d] = elapsed[d] + 1
  BY <1>1 DEF TypeOK
<1>3. Early(t + 1, k)' = Early(t, k)
  BY <1>1, <1>2 DEF Early
<1>4. CASE k * MaxCheck < t
  BY <1>3, <1>4 DEF Progress
<1>5. CASE k * MaxCheck = t
  <2>1. Early(t, k) = due \ waiting
    BY <1>1, <1>2, <1>5 DEF Early
  <2>2. CASE waiting = {}
    BY <1>3, <2>1, <2>2
  <2>3. CASE Cardinality(running) = Slots
    <3>1. running \subseteq due \ waiting
      BY DEF TypeOK
    <3>2. CASE k = 0
      BY <1>1, <1>3, <2>1, <2>3, <3>1, <3>2, Larger, Products, FiniteSets, ScheduleAssumption
    <3>3. CASE k # 0
      <4> DEFINE j == k - 1
                 E == Early(t, j)
      <4>1. j \in Nat /\ j + 1 = k
        BY <3>3
      <4> HIDE DEF j
      <4>2. E \cap running = {} /\ Cardinality(E) >= k * Slots
        BY <1>5, <4>1, EarlyAreOver
      <4>3. E \subseteq due \ waiting /\ E \in SUBSET Devices
        BY <1>1 DEF Early
      <4> HIDE DEF E
      <4>4. Cardinality(E \cup running) = Cardinality(E) + Slots
        BY <1>1, <2>3, <4>2, <4>3, Disjoint
      <4>5. Cardinality(E \cup running) <= Cardinality(due \ waiting)
        BY <1>1, <3>1, <4>3, Larger
      <4>6. Cardinality(E) \in Nat /\ Cardinality(due \ waiting) \in Nat
        BY <1>1, <4>3, FiniteSets
      <4>7. k * Slots \in Nat /\ (k + 1) * Slots = k * Slots + Slots /\ Slots \in Nat
        BY Products, ScheduleAssumption
      <4>8. Cardinality(due \ waiting) >= (k + 1) * Slots
        BY <4>2, <4>4, <4>5, <4>6, <4>7
      <4> QED
        BY <1>3, <2>1, <4>8
    <3> QED
      BY <3>2, <3>3
  <2> QED
    BY <2>2, <2>3
<1> QED
  BY <1>1, <1>4, <1>5

(* A check that begins or ends takes no other from the early ones.         *)
LEMMA EarlyGrow ==
  ASSUME TypeOK, NEW t \in Nat, Progress(t), due' = due,
         \A k \in Nat : Early(t, k) \subseteq Early(t, k)'
  PROVE  Progress(t)'
<1> SUFFICES ASSUME NEW k \in Nat, k * MaxCheck < t
             PROVE  Early(t, k)' = due' \/ Cardinality(Early(t, k)') >= (k + 1) * Slots
  BY DEF Progress
<1>1. Early(t, k) \subseteq Early(t, k)' /\ Early(t, k)' \subseteq due
  BY DEF Early
<1>2. Early(t, k) \in SUBSET Devices /\ Early(t, k)' \in SUBSET Devices
  BY <1>1 DEF TypeOK
<1>3. Cardinality(Early(t, k)) <= Cardinality(Early(t, k)')
  BY <1>1, <1>2, Larger
<1>4. Early(t, k) = due \/ Cardinality(Early(t, k)) >= (k + 1) * Slots
  BY DEF Progress
<1>5. CASE Early(t, k) = due
  BY <1>1, <1>5
<1>6. CASE Cardinality(Early(t, k)) >= (k + 1) * Slots
  <2>1. Cardinality(Early(t, k)) \in Nat /\ Cardinality(Early(t, k)') \in Nat
    BY <1>2, FiniteSets
  <2>2. (k + 1) * Slots \in Nat
    BY Products, ScheduleAssumption
  <2> QED
    BY <1>3, <1>6, <2>1, <2>2
<1> QED
  BY <1>4, <1>5, <1>6

-----------------------------------------------------------------------------
(* The invariant, action by action.                                        *)

LEMMA Settled ==
  ASSUME NEW n \in Nat
  PROVE  /\ n * (RoundMax + 1) \in Nat
         /\ (n + 1) * (RoundMax + 1) = n * (RoundMax + 1) + RoundMax + 1
BY RoundMaxNat

LEMMA SchedulerInitially == Init => SchedulerInv
<1> SUFFICES ASSUME Init PROVE SchedulerInv
  OBVIOUS
<1>1. TypeOK
  BY FS_EmptySet, ScheduleAssumption DEF Init, TypeOK, Unscheduled
<1>2. Tidy
  BY DEF Init, Tidy
<1>3. Pace(0)
  <2>1. BeatBounded(0)
    BY Settled DEF Init, BeatBounded, Disturbances
  <2>2. \A d \in Devices : ~Scheduled(d)
    BY DEF Init, Scheduled, Unscheduled
  <2> QED
    BY <2>1, <2>2 DEF Pace, Init
<1> QED
  BY <1>1, <1>2, <1>3, RoundMaxNat DEF SchedulerInv

LEMMA RoundStartKeeps == ASSUME SchedulerInv, RoundStart PROVE SchedulerInv'
<1> USE DEF SchedulerInv
<1>1. PICK t \in 0 .. RoundMax : Pace(t)
  OBVIOUS
<1>2. due = {} /\ waiting = {} /\ running = {} /\ pc = "wake"
  BY DEF Tidy, TypeOK, RoundStart
<1>3. /\ next' \in [Devices -> {Unscheduled} \cup 0 .. INTERVAL]
      /\ \A d \in Devices : next'[d] \in NewDates(d)
  <2>1. \A d \in Devices : NewDates(d) \subseteq {Unscheduled} \cup 0 .. INTERVAL
    BY ScheduleAssumption DEF NewDates, TypeOK
  <2> QED
    BY <2>1 DEF RoundStart
<1>4. volatile' \in [Devices -> 0 .. WINDOW] /\ since' \in [Devices -> Nat]
  BY ScheduleAssumption DEF RoundStart, TypeOK
<1>5. due' = {d \in Devices : next'[d] = 0} /\ waiting' = due' /\ pc' = "round"
  BY DEF RoundStart
<1>6. TypeOK'
  BY <1>2, <1>3, <1>4, <1>5 DEF RoundStart, TypeOK
<1>7. Tidy'
  BY <1>3, <1>5 DEF RoundStart, Tidy, Scheduled, NewDates, Unscheduled, TypeOK
<1>8. Pace(0)'
  <2>1. Progress(0)'
    BY Products DEF Progress
  <2>2. BeatBounded(0)'
    BY <1>1, <1>2, <1>5, Settled DEF RoundStart, Pace, BeatBounded, Disturbances, TypeOK
  <2>3. ASSUME NEW d \in Devices, Scheduled(d)' PROVE OnTime(d, 0)'
    <3>1. d \in enabled /\ next'[d] \in 0 .. INTERVAL
      BY <1>3, <2>3 DEF Scheduled, NewDates, Unscheduled
    <3>2. volatile'[d] = volatile[d] /\ NextInterval(d)' = NextInterval(d)
      BY <3>1 DEF RoundStart, NextInterval
    <3>3. NextInterval(d) \in Nat /\ RoundMax \in Nat /\ beat \in Nat /\ beat' = beat
      BY Intervals, RoundMaxNat DEF RoundStart, TypeOK
    <3>4. CASE Scheduled(d)
      <4>1. since'[d] = since[d] /\ next'[d] = next[d] /\ since[d] \in Nat
        BY <1>3, <3>1, <3>4 DEF RoundStart, NewDates, TypeOK
      <4>2. OnTime(d, t)
        BY <1>1, <3>4 DEF Pace
      <4>3. /\ next[d] > 0 => since[d] + next[d] <= NextInterval(d) + RoundMax
            /\ next[d] = 0 => since[d] <= NextInterval(d) + RoundMax + (beat + RoundMax)
        BY <1>2, <4>2 DEF OnTime
      <4> QED
        BY <1>5, <3>1, <3>2, <3>3, <4>1, <4>3 DEF OnTime
    <3>5. CASE ~Scheduled(d)
      <4>1. since'[d] = 0 /\ next'[d] \in 0 .. INTERVAL - 1
        BY <1>3, <3>1, <3>5 DEF RoundStart, NewDates
      <4>2. NextInterval(d) = INTERVAL
        BY <3>5 DEF Tidy, NextInterval
      <4> QED
        BY <1>5, <3>1, <3>2, <3>3, <4>1, <4>2, ScheduleAssumption DEF OnTime
    <3> QED
      BY <3>4, <3>5
  <2> QED
    BY <2>1, <2>2, <2>3 DEF Pace
<1> QED
  BY <1>6, <1>7, <1>8, RoundMaxNat

LEMMA CheckStartKeeps ==
  ASSUME SchedulerInv, NEW c \in Devices, CheckStart(c) PROVE SchedulerInv'
<1> USE DEF SchedulerInv
<1>1. PICK t \in 0 .. RoundMax : Pace(t)
  OBVIOUS
<1>2. c \in due /\ c \in waiting /\ c \notin running /\ due' = due /\ pc = "round" /\ pc' = pc
  BY DEF CheckStart, TypeOK
<1>3. TypeOK'
  <2>1. IsFiniteSet(running) /\ Cardinality(running) \in Nat
    BY FiniteSets DEF TypeOK
  <2>2. Cardinality(running') <= Slots
    <3>1. Cardinality(running \cup {c}) = Cardinality(running) + 1
      BY <1>2, <2>1, FS_AddElement
    <3>2. running' = running \cup {c} /\ Cardinality(running) < Slots
      BY DEF CheckStart
    <3> QED
      BY <2>1, <3>1, <3>2, ScheduleAssumption
  <2> QED
    BY <1>2, <2>2, ScheduleAssumption DEF CheckStart, TypeOK
<1>4. Tidy'
  BY DEF CheckStart, Tidy, Scheduled
<1>5. Pace(t)'
  <2>1. Progress(t)'
    <3>1. t \in Nat /\ Progress(t)
      BY <1>1, <1>2, RoundMaxNat DEF Pace
    <3>2. \A k \in Nat : Early(t, k) \subseteq Early(t, k)'
      BY <1>2 DEF Early, CheckStart, TypeOK
    <3> QED
      BY <1>2, <3>1, <3>2, EarlyGrow
  <2>2. BeatBounded(t)'
    BY <1>1 DEF CheckStart, Pace, BeatBounded, Disturbances
  <2>3. ASSUME NEW d \in Devices, Scheduled(d)' PROVE OnTime(d, t)'
    <3>1. OnTime(d, t)
      BY <1>1, <2>3 DEF Pace, Scheduled, CheckStart
    <3>2. since'[d] = IF d = c THEN 0 ELSE since[d]
      BY DEF CheckStart, TypeOK
    <3>3. waiting' = waiting \ {c} /\ UNCHANGED <<due, next, beat, pc, volatile>>
      BY <1>2 DEF CheckStart
    <3>4. t \in Nat
      BY RoundMaxNat
    <3> QED
      BY <1>2, <3>1, <3>2, <3>3, <3>4 DEF OnTime, NextInterval
  <2> QED
    BY <2>1, <2>2, <2>3 DEF Pace
<1> QED
  BY <1>3, <1>4, <1>5

LEMMA CheckEndKeeps ==
  ASSUME SchedulerInv, NEW c \in Devices, CheckEnd(c) PROVE SchedulerInv'
<1> USE DEF SchedulerInv
<1>1. PICK t \in 0 .. RoundMax : Pace(t)
  OBVIOUS
<1>2. c \in due /\ c \in running /\ c \notin waiting /\ pc = "round"
  BY DEF CheckEnd, TypeOK, Tidy
<1>3. /\ running' = running \ {c}
      /\ UNCHANGED <<enabled, pc, next, due, waiting, since, beat, failures, restarts>>
  BY DEF CheckEnd
<1>4. /\ volatile' \in [Devices -> 0 .. WINDOW]
      /\ \A d \in Devices : d # c => volatile'[d] = volatile[d]
  BY ScheduleAssumption DEF CheckEnd, TypeOK
<1>5. TypeOK'
  <2>1. running \in SUBSET Devices /\ running' \in SUBSET Devices /\ running' \subseteq running
    BY <1>3 DEF TypeOK
  <2>2. Cardinality(running') <= Slots
    BY <2>1, Larger, FiniteSets, ScheduleAssumption DEF TypeOK
  <2>3. elapsed' \in [Devices -> 0 .. MaxCheck]
    BY ScheduleAssumption DEF CheckEnd, TypeOK
  <2> QED
    BY <1>3, <1>4, <2>2, <2>3 DEF TypeOK
<1>6. Tidy'
  BY <1>2, <1>3, <1>4 DEF Tidy, Scheduled
<1>7. Pace(t)'
  <2>1. Progress(t)'
    <3>1. t \in Nat /\ Progress(t)
      BY <1>1, <1>2, RoundMaxNat DEF Pace
    <3>2. \A k \in Nat : Early(t, k) \subseteq Early(t, k)'
      BY <1>3 DEF Early, CheckEnd, TypeOK
    <3> QED
      BY <1>3, <3>1, <3>2, EarlyGrow
  <2>2. BeatBounded(t)'
    BY <1>1, <1>3 DEF Pace, BeatBounded, Disturbances
  <2>3. ASSUME NEW d \in Devices, Scheduled(d)' PROVE OnTime(d, t)'
    <3>1. OnTime(d, t)
      BY <1>1, <1>3, <2>3 DEF Pace, Scheduled
    <3>2. CASE d = c
      BY <1>2, <1>3, <3>1, <3>2 DEF OnTime
    <3>3. CASE d # c
      BY <1>3, <1>4, <3>1, <3>3 DEF OnTime, NextInterval
    <3> QED
      BY <3>2, <3>3
  <2> QED
    BY <2>1, <2>2, <2>3 DEF Pace
<1> QED
  BY <1>5, <1>6, <1>7

LEMMA RoundEndKeeps == ASSUME SchedulerInv, RoundEnd PROVE SchedulerInv'
<1> USE DEF SchedulerInv
<1>1. PICK t \in 0 .. RoundMax : Pace(t)
  OBVIOUS
<1>2. /\ pc = "round" /\ pc' = "stamp" /\ waiting = {} /\ running = {} /\ due' = {}
      /\ UNCHANGED <<enabled, volatile, waiting, running, elapsed, since, beat, failures, restarts>>
  BY DEF RoundEnd
<1>3. \A d \in Devices : next'[d] = IF d \in due THEN NextInterval(d) ELSE next[d]
  BY DEF RoundEnd
<1>4. next' \in [Devices -> {Unscheduled} \cup 0 .. INTERVAL]
  BY Intervals, ScheduleAssumption DEF RoundEnd, TypeOK
<1>5. TypeOK'
  BY <1>2, <1>4 DEF TypeOK
<1>6. Tidy'
  <2>1. \A d \in Devices : Scheduled(d) => Scheduled(d)'
    BY <1>3, Intervals DEF Scheduled, Unscheduled
  <2> QED
    BY <1>2, <2>1 DEF Tidy
<1>7. Pace(t)'
  <2>1. BeatBounded(t)'
    BY <1>1, <1>2 DEF Pace, BeatBounded, Disturbances
  <2>2. ASSUME NEW d \in Devices, Scheduled(d)' PROVE OnTime(d, t)'
    <3>1. Scheduled(d)
      BY <1>3, <2>2 DEF Tidy, Scheduled
    <3>2. OnTime(d, t)
      BY <1>1, <3>1 DEF Pace
    <3>3. /\ NextInterval(d) \in Nat \ {0} /\ NextInterval(d)' = NextInterval(d)
          /\ since[d] \in Nat /\ t \in Nat /\ RoundMax \in Nat /\ t <= RoundMax
      BY <1>2, Intervals, RoundMaxNat DEF NextInterval, TypeOK
    <3>4. CASE d \in due
      BY <1>2, <1>3, <3>2, <3>3, <3>4 DEF OnTime
    <3>5. CASE d \notin due
      BY <1>2, <1>3, <3>2, <3>3, <3>5 DEF OnTime
    <3> QED
      BY <3>4, <3>5
  <2> QED
    BY <1>2, <2>1, <2>2 DEF Pace
<1> QED
  BY <1>5, <1>6, <1>7

LEMMA StampKeeps == ASSUME SchedulerInv, Stamp PROVE SchedulerInv'
<1> USE DEF SchedulerInv
<1>1. PICK t \in 0 .. RoundMax : Pace(t)
  OBVIOUS
<1>2. /\ pc = "stamp" /\ pc' = "sleep" /\ beat' = 0
      /\ UNCHANGED <<enabled, next, volatile, due, waiting, running, elapsed, since,
                     failures, restarts>>
  BY DEF Stamp
<1>3. TypeOK' /\ Tidy'
  BY <1>2 DEF TypeOK, Tidy, Scheduled
<1>4. Pace(t)'
  <2>1. BeatBounded(t)'
    BY <1>2, <1>3, Settled DEF BeatBounded, Disturbances, TypeOK
  <2>2. ASSUME NEW d \in Devices, Scheduled(d)' PROVE OnTime(d, t)'
    <3>1. OnTime(d, t) /\ d \notin due /\ d \notin waiting
      BY <1>1, <1>2, <2>2 DEF Pace, Scheduled, Tidy, TypeOK
    <3>2. /\ NextInterval(d) \in Nat /\ NextInterval(d)' = NextInterval(d)
          /\ since[d] \in Nat /\ t \in Nat /\ RoundMax \in Nat /\ t <= RoundMax
      BY <1>2, Intervals, RoundMaxNat DEF NextInterval, TypeOK
    <3> QED
      BY <1>2, <3>1, <3>2 DEF OnTime
  <2> QED
    BY <1>2, <2>1, <2>2 DEF Pace
<1> QED
  BY <1>3, <1>4

LEMMA CycleFailsKeeps == ASSUME SchedulerInv, CycleFails PROVE SchedulerInv'
<1> USE DEF SchedulerInv
<1>1. PICK t \in 0 .. RoundMax : Pace(t)
  OBVIOUS
<1>2. /\ pc \in {"wake", "stamp"} /\ pc' = "sleep" /\ failures' = failures + 1
      /\ UNCHANGED <<enabled, next, volatile, due, waiting, running, elapsed, since,
                     beat, restarts>>
  BY DEF CycleFails
<1>3. TypeOK' /\ Tidy'
  BY <1>2, ScheduleAssumption DEF CycleFails, TypeOK, Tidy, Scheduled
<1>4. Pace(t)'
  <2>1. BeatBounded(t)'
    <3>1. Disturbances \in Nat /\ Disturbances' = Disturbances + 1
      BY <1>2 DEF Disturbances, TypeOK
    <3>2. BeatBounded(t) /\ t \in Nat /\ t <= RoundMax /\ RoundMax \in Nat /\ beat \in Nat
      BY <1>1, RoundMaxNat DEF Pace, TypeOK
    <3> QED
      BY <1>2, <3>1, <3>2, Settled DEF BeatBounded
  <2>2. ASSUME NEW d \in Devices, Scheduled(d)' PROVE OnTime(d, t)'
    <3>1. OnTime(d, t) /\ d \notin due /\ d \notin waiting
      BY <1>1, <1>2, <2>2 DEF Pace, Scheduled, Tidy, TypeOK
    <3>2. /\ NextInterval(d) \in Nat /\ NextInterval(d)' = NextInterval(d) /\ beat \in Nat
          /\ since[d] \in Nat /\ t \in Nat /\ RoundMax \in Nat /\ t <= RoundMax
      BY <1>2, Intervals, RoundMaxNat DEF NextInterval, TypeOK
    <3> QED
      BY <1>2, <3>1, <3>2 DEF OnTime
  <2> QED
    BY <1>2, <2>1, <2>2 DEF Pace
<1> QED
  BY <1>3, <1>4

LEMMA RestartKeeps == ASSUME SchedulerInv, Restart PROVE SchedulerInv'
<1> USE DEF SchedulerInv
<1>1. PICK t \in 0 .. RoundMax : Pace(t)
  OBVIOUS
<1>2. TypeOK' /\ Tidy'
  BY FS_EmptySet, ScheduleAssumption DEF Restart, TypeOK, Tidy, Unscheduled
<1>3. Pace(t)'
  <2>1. BeatBounded(t)'
    <3>1. Disturbances \in Nat /\ Disturbances' = Disturbances + 1
      BY DEF Restart, Disturbances, TypeOK
    <3>2. BeatBounded(t) /\ t \in Nat /\ t <= RoundMax /\ RoundMax \in Nat /\ beat \in Nat
      BY <1>1, RoundMaxNat DEF Pace, TypeOK
    <3>3. pc' = "wake" /\ beat' = beat /\ pc \in {"wake", "round", "stamp", "sleep"}
      BY DEF Restart, TypeOK
    <3> QED
      BY <3>1, <3>2, <3>3, Settled DEF BeatBounded
  <2>2. pc' = "wake" /\ \A d \in Devices : ~Scheduled(d)'
    BY DEF Restart, Scheduled
  <2> QED
    BY <2>1, <2>2 DEF Pace
<1> QED
  BY <1>2, <1>3

LEMMA TimeKeeps == ASSUME SchedulerInv, TimePasses PROVE SchedulerInv'
<1> USE DEF SchedulerInv
<1>1. PICK t \in 0 .. RoundMax : Pace(t)
  OBVIOUS
<1>2. /\ beat' = beat + 1
      /\ UNCHANGED <<enabled, due, waiting, running, failures, restarts>>
      /\ beat \in Nat /\ t \in Nat /\ RoundMax \in Nat /\ t <= RoundMax
  BY RoundMaxNat DEF TimePasses, TypeOK
<1>3. TypeOK'
  <2>1. elapsed' \in [Devices -> 0 .. MaxCheck]
    BY ScheduleAssumption DEF TimePasses, TypeOK
  <2>2. /\ next' \in [Devices -> {Unscheduled} \cup 0 .. INTERVAL]
        /\ volatile' \in [Devices -> 0 .. WINDOW]
        /\ since' \in [Devices -> Nat]
    BY ScheduleAssumption DEF TimePasses, TypeOK, Max0, Scheduled, Unscheduled
  <2>3. pc' \in {"wake", "round", "stamp", "sleep"}
    BY DEF TimePasses
  <2> QED
    BY <1>2, <2>1, <2>2, <2>3 DEF TypeOK
<1>4. ASSUME NEW d \in Devices
      PROVE  /\ Scheduled(d)' <=> Scheduled(d)
             /\ Scheduled(d) => /\ next[d] \in Nat /\ next'[d] = Max0(next[d] - 1)
                                /\ since[d] \in Nat /\ since'[d] = since[d] + 1
             /\ volatile[d] \in Nat /\ volatile'[d] = Max0(volatile[d] - 1)
             /\ NextInterval(d) \in Nat /\ NextInterval(d)' \in Nat
             /\ NextInterval(d) <= NextInterval(d)'
  <2>1. /\ Scheduled(d)' <=> Scheduled(d)
        /\ Scheduled(d) => /\ next[d] \in Nat /\ next'[d] = Max0(next[d] - 1)
                           /\ since[d] \in Nat /\ since'[d] = since[d] + 1
        /\ volatile[d] \in Nat /\ volatile'[d] = Max0(volatile[d] - 1)
    BY ScheduleAssumption DEF TimePasses, TypeOK, Max0, Scheduled, Unscheduled
  <2> QED
    BY <2>1, ScheduleAssumption DEF NextInterval, Max0
<1>5. Tidy'
  BY <1>2, <1>4 DEF TimePasses, Tidy, Max0
<1>6. CASE pc = "sleep"
  <2>1. pc' = "wake" /\ due = {} /\ waiting = {}
    BY <1>6 DEF TimePasses, Tidy, TypeOK
  <2>2. BeatBounded(t)'
    <3>1. BeatBounded(t) /\ Disturbances' = Disturbances /\ Disturbances \in Nat
      BY <1>1, <1>2 DEF Pace, Disturbances, TypeOK
    <3> QED
      BY <1>2, <1>6, <2>1, <3>1, Settled DEF BeatBounded
  <2>3. ASSUME NEW d \in Devices, Scheduled(d)' PROVE OnTime(d, t)'
    <3>1. OnTime(d, t)
      BY <1>1, <1>4, <2>3 DEF Pace
    <3> QED
      BY <1>2, <1>4, <1>6, <2>1, <2>3, <3>1 DEF OnTime, Max0
  <2>4. Pace(t)'
    BY <2>1, <2>2, <2>3 DEF Pace
  <2> QED
    BY <1>3, <1>5, <2>4
<1>7. CASE pc # "sleep"
  <2>1. /\ pc = "round" /\ pc' = "round" /\ running # {}
        /\ waiting = {} \/ Cardinality(running) = Slots
        /\ \A d \in running : elapsed[d] < MaxCheck
    BY <1>7 DEF TimePasses
  <2>2. Progress(t)
    BY <1>1, <2>1 DEF Pace
  <2>3. t + 1 \in 0 .. RoundMax
    BY <2>1, <2>2, RoundsEnd
  <2>4. Progress(t + 1)'
    BY <1>2, <2>1, <2>2, RoundProgresses DEF TimePasses
  <2>5. BeatBounded(t + 1)'
    <3>1. BeatBounded(t) /\ Disturbances' = Disturbances /\ Disturbances \in Nat
      BY <1>1, <1>2 DEF Pace, Disturbances, TypeOK
    <3> QED
      BY <1>2, <2>1, <3>1, Settled DEF BeatBounded
  <2>6. ASSUME NEW d \in Devices, Scheduled(d)' PROVE OnTime(d, t + 1)'
    <3>1. OnTime(d, t)
      BY <1>1, <1>4, <2>6 DEF Pace
    <3> QED
      BY <1>2, <1>4, <2>1, <2>6, <3>1 DEF OnTime, Max0
  <2> QED
    BY <1>3, <1>5, <2>1, <2>3, <2>4, <2>5, <2>6 DEF Pace
<1> QED
  BY <1>6, <1>7

LEMMA StutterKeeps ==
  ASSUME SchedulerInv,
         UNCHANGED <<pc, next, volatile, due, waiting, running, elapsed, since,
                     beat, failures, restarts>>,
         enabled' \subseteq Devices
  PROVE  SchedulerInv'
<1>1. TypeOK' /\ Tidy'
  BY DEF SchedulerInv, TypeOK, Tidy, Scheduled
<1>2. PICK t \in 0 .. RoundMax : Pace(t)
  BY DEF SchedulerInv
<1>3. Pace(t)'
  BY <1>2 DEF Pace, Progress, Early, BeatBounded, Disturbances, OnTime, NextInterval, Scheduled
<1> QED
  BY <1>1, <1>3 DEF SchedulerInv

LEMMA SchedulerAlways == Spec => []SchedulerInv
<1>1. SchedulerInv /\ [Next]_vars => SchedulerInv'
  <2> SUFFICES ASSUME SchedulerInv, [Next]_vars PROVE SchedulerInv'
    OBVIOUS
  <2>1. ASSUME NEW d \in Devices, Toggle(d) PROVE SchedulerInv'
    BY <2>1, StutterKeeps DEF Toggle, SchedulerInv, TypeOK
  <2>2. CASE UNCHANGED vars
    BY <2>2, StutterKeeps DEF vars, SchedulerInv, TypeOK
  <2> QED
    BY <2>1, <2>2, RoundStartKeeps, RoundEndKeeps, StampKeeps, CycleFailsKeeps, RestartKeeps,
       TimeKeeps, CheckStartKeeps, CheckEndKeeps DEF Next
<1> QED
  BY <1>1, SchedulerInitially, PTL DEF Spec

-----------------------------------------------------------------------------
(* Every reachable state is well typed: no device is checked twice at the  *)
(* same time, and no more at a time than there are slots (_run_due).       *)
THEOREM ScheduleTypeCorrect == Spec => []TypeOK
<1>1. SchedulerInv => TypeOK
  BY DEF SchedulerInv
<1> QED
  BY <1>1, SchedulerAlways, PTL

(* The heartbeat of a collector that works is never older than a round,    *)
(* for any number of devices on any number of slots; a cycle that failed,  *)
(* or a restart, costs another one (ping_loop).                            *)
THEOREM HeartbeatIsFresh == Spec => []HeartbeatFresh
<1>1. ASSUME SchedulerInv PROVE HeartbeatFresh
  <2>1. PICK t \in 0 .. RoundMax : BeatBounded(t)
    BY <1>1 DEF SchedulerInv, Pace
  <2>2. Disturbances \in Nat /\ beat \in Nat /\ pc \in {"wake", "round", "stamp", "sleep"}
    BY <1>1 DEF SchedulerInv, TypeOK, Disturbances
  <2>3. t \in Nat /\ t <= RoundMax /\ RoundMax \in Nat
    BY RoundMaxNat
  <2>4. beat <= (Disturbances + 1) * (RoundMax + 1)
    BY <2>1, <2>2, <2>3, Settled DEF BeatBounded
  <2> QED
    BY <2>4 DEF HeartbeatFresh, Disturbances
<1> QED
  BY <1>1, SchedulerAlways, PTL

(* How long ago a device was checked, by whether it is volatile.           *)
LEMMA CheckedWithin ==
  ASSUME SchedulerInv, NEW d \in Devices, Scheduled(d)
  PROVE  since[d] <= beat + NextInterval(d) + 2 * RoundMax
<1>1. PICK t \in 0 .. RoundMax : OnTime(d, t)
  BY DEF SchedulerInv, Pace
<1>2. /\ t \in Nat /\ t <= RoundMax /\ RoundMax \in Nat /\ beat \in Nat
      /\ NextInterval(d) \in Nat /\ since[d] \in Nat /\ next[d] \in Nat
  BY RoundMaxNat, Intervals DEF SchedulerInv, TypeOK, Scheduled, Unscheduled
<1>3. d \in due \/ d \notin waiting
  BY DEF SchedulerInv, TypeOK
<1> QED
  BY <1>1, <1>2, <1>3 DEF OnTime

(* A fresh heartbeat vouches for the checks: no enabled device waits for   *)
(* longer than the slow interval and two rounds beyond it (_run_due,       *)
(* set_heartbeat).                                                         *)
THEOREM HeartbeatIsHonest == Spec => []HeartbeatHonest
<1>1. ASSUME SchedulerInv PROVE HeartbeatHonest
  <2> SUFFICES ASSUME NEW d \in enabled, Scheduled(d)
               PROVE  since[d] <= beat + INTERVAL + 2 * RoundMax
    BY DEF HeartbeatHonest
  <2>1. d \in Devices /\ beat \in Nat /\ since[d] \in Nat
    BY <1>1 DEF SchedulerInv, TypeOK
  <2> QED
    BY <1>1, <2>1, CheckedWithin, Intervals, RoundMaxNat, ScheduleAssumption
<1> QED
  BY <1>1, SchedulerAlways, PTL

(* A device that is not online, or changed lately, is checked at the fast  *)
(* interval, but for two rounds (_next_interval).                          *)
THEOREM UnsettledAreChecked == Spec => []UnsettledIsChecked
<1>1. ASSUME SchedulerInv PROVE UnsettledIsChecked
  <2> SUFFICES ASSUME NEW d \in enabled, Scheduled(d), volatile[d] > 0
               PROVE  since[d] <= beat + FAST + 2 * RoundMax
    BY DEF UnsettledIsChecked
  <2>1. d \in Devices
    BY <1>1 DEF SchedulerInv, TypeOK
  <2> QED
    BY <1>1, <2>1, CheckedWithin DEF NextInterval
<1> QED
  BY <1>1, SchedulerAlways, PTL

=============================================================================
