------------------------- MODULE StatusMachineProofs -------------------------
(***************************************************************************)
(* Proofs about StatusMachine, for every threshold, every set of requests  *)
(* and every bound.  TLC checks the same properties on small instances     *)
(* (MCStatus).                                                             *)
(***************************************************************************)
EXTENDS StatusMachine, TLAPS

(* A session's UPDATE of a row is a row again.                             *)
LEMMA FlushType ==
  ASSUME row \in Row, NEW seen \in Row, NEW new \in Row
  PROVE  Flush(seen, new) \in Row
  BY DEF Flush, Column, Row

(* Phase 3 makes a row of the row it loaded.                               *)
LEMMA VerdictType ==
  ASSUME NEW c \in Checks
  PROVE  /\ Verdict(c) \in Row
         /\ Failures(c) \in Nat
  <1>1. Failures(c) \in Nat
    BY DEF Failures, Checks, Row
  <1>2. NextStatus(c) \in Status /\ NextService(c) \in Services
    BY DEF NextStatus, NextService, Status, Services
  <1>3. NextAck(c) \in BOOLEAN
    BY DEF NextAck, Checks, Row
  <1>4. Verdict(c) \in Row
    BY <1>1, <1>2, <1>3 DEF Verdict, Checks, Row
  <1> QED BY <1>1, <1>4

(* So does every handler of the API.                                       *)
LEMMA EditType ==
  ASSUME NEW kind \in AllKinds, NEW seen \in Row
  PROVE  Edit(kind, seen) \in Row
  BY ThresholdAssumption DEF Edit, AllKinds, Row, Status

LEMMA EventType ==
  ASSUME lastEvent \in Events, NEW seen \in Row, NEW new \in Row
  PROVE  NewestEvent(seen, new) \in Events
  BY DEF NewestEvent, Events

LEMMA TypeInit == Init => TypeOK
  BY BoundAssumption DEF Init, TypeOK, NewRow, NoCheck, NoReq, Row, Checks,
     Reqs, Status, Services, Events, AllKinds

LEMMA TypeStep == TypeOK /\ [Next]_vars => TypeOK'
<1> SUFFICES ASSUME TypeOK, [Next]_vars PROVE TypeOK'
  OBVIOUS
<1> USE DEF TypeOK
<1>0. NewRow \in Row /\ NoCheck \in Checks /\ NoReq \in Reqs
  BY DEF NewRow, NoCheck, NoReq, Row, Checks, Reqs, Status, Services,
     AllKinds
<1>1. CASE CheckStart
  BY <1>0, <1>1 DEF CheckStart, Checks, Row
<1>2. CASE CheckSkip
  BY <1>2 DEF CheckSkip, vars
<1>3. CASE ProbeDone
  BY <1>0, <1>3 DEF ProbeDone, Checks
<1>4. CASE CheckCommit
  <2>1. check.seen \in Row /\ Verdict(check) \in Row
    BY VerdictType DEF Checks
  <2>2. row' \in Row
    BY <1>4, <2>1, FlushType DEF CheckCommit
  <2>3. lastEvent' \in Events
    BY <1>4, <2>1, EventType DEF CheckCommit
  <2>4. misses' \in Nat
    BY <1>4 DEF CheckCommit
  <2> QED BY <1>0, <1>4, <2>2, <2>3, <2>4 DEF CheckCommit
<1>5. CASE CheckStale
  BY <1>0, <1>5 DEF CheckStale
<1>6. CASE CheckLost
  BY <1>0, <1>6 DEF CheckLost
<1>7. CASE HostChange
  BY <1>7 DEF HostChange
<1>8. ASSUME NEW r \in Requests, Request(r) PROVE TypeOK'
  <2>1. CASE RequestLoad(r)
    BY <2>1, KindsAssumption DEF RequestLoad, Reqs
  <2>2. CASE RequestCommit(r)
    <3> DEFINE new == Edit(req[r].kind, req[r].seen)
    <3>1. req[r].seen \in Row /\ new \in Row
      BY EditType DEF Reqs
    <3>2. row' \in Row
      BY <2>2, <3>1, FlushType DEF RequestCommit
    <3>3. lastEvent' \in Events
      BY <2>2, <3>1, EventType DEF RequestCommit
    <3> QED BY <1>0, <2>2, <3>2, <3>3 DEF RequestCommit
  <2>3. CASE AckCommit(r)
    BY <1>0, <2>3 DEF AckCommit, Row
  <2>4. CASE DeleteCommit(r)
    BY <1>0, <2>4 DEF DeleteCommit, Row, Events
  <2>5. CASE RequestStale(r)
    BY <1>0, <2>5 DEF RequestStale
  <2> QED BY <1>8, <2>1, <2>2, <2>3, <2>4, <2>5 DEF Request
<1>9. CASE UNCHANGED vars
  BY <1>9 DEF vars
<1> QED BY <1>1, <1>2, <1>3, <1>4, <1>5, <1>6, <1>7, <1>8, <1>9 DEF Next

(* Every reachable state is well typed: the columns, the copies of the row *)
(* that checks and requests carry, the sample and event summaries.         *)
THEOREM TypeCorrect == Spec => []TypeOK
  BY TypeInit, TypeStep, PTL DEF Spec

-----------------------------------------------------------------------------
(* Without simulation the check is the only writer of status and failures, *)
(* so the copy it carries from load to commit is still the truth when it   *)
(* commits; that makes the following conjunction inductive.                *)
OnlyChecksJudge ==
  \A r \in Requests : req[r].pc = "loaded" => req[r].kind \in Kinds

SeenIsCurrent ==
  row.exists /\ check.pc = "persist" =>
    /\ check.seen.status = row.status
    /\ check.seen.failures = row.failures
    /\ check.alive \/ row.failures < MaxFailures

CounterInv ==
  /\ TypeOK
  /\ OnlyChecksJudge
  /\ SeenIsCurrent
  /\ StatusMatchesFailures
  /\ FailuresCountHistory
  /\ LogAgreesWithStatus

(* A request that simulates nothing writes neither status nor failures.    *)
LEMMA EditKeepsVerdict ==
  ASSUME TypeOK, OnlyChecksJudge, NoSimulation,
         NEW r \in Requests, RequestCommit(r)
  PROVE  /\ row'.status = row.status
         /\ row'.failures = row.failures
         /\ row'.exists = row.exists
         /\ lastEvent' = lastEvent
  <1> DEFINE k == req[r].kind
             s == req[r].seen
  <1>1. k \in AllKinds /\ s \in Row
    BY DEF TypeOK, Reqs
  <1>2. k \notin {"simulate_online", "simulate_offline"}
    BY DEF NoSimulation, OnlyChecksJudge, RequestCommit
  <1>3. /\ Edit(k, s).status = s.status
        /\ Edit(k, s).failures = s.failures
    BY <1>1, <1>2 DEF Edit, AllKinds, Row
  <1>4. /\ row' = Flush(s, Edit(k, s))
        /\ lastEvent' = NewestEvent(s, Edit(k, s))
    BY DEF RequestCommit
  <1> QED BY <1>3, <1>4 DEF Flush, Column, NewestEvent

(* What the commit of a check leaves on the row, given that nobody else    *)
(* wrote the two columns since it loaded them.                             *)
LEMMA CommitApplies ==
  ASSUME TypeOK, SeenIsCurrent, CheckCommit
  PROVE  /\ row'.exists = row.exists
         /\ row'.failures = Failures(check)
         /\ row'.status = Verdict(check).status
         /\ Failures(check) = IF check.alive THEN 0 ELSE row.failures + 1
  <1>1. check \in Checks /\ check.seen \in Row /\ row \in Row
    BY DEF TypeOK, Checks
  <1>2. /\ check.seen.status = row.status
        /\ check.seen.failures = row.failures
    BY DEF SeenIsCurrent, CheckCommit
  <1>3. Verdict(check).failures = Failures(check)
    BY <1>1 DEF Verdict, Row
  <1>4. row' = Flush(check.seen, Verdict(check))
    BY DEF CheckCommit
  <1>5. /\ row'.exists = row.exists
        /\ row'.failures = Verdict(check).failures
        /\ row'.status = Verdict(check).status
    BY <1>2, <1>4 DEF Flush, Column
  <1>6. Failures(check) = IF check.alive THEN 0 ELSE row.failures + 1
    BY <1>2 DEF Failures
  <1> QED BY <1>3, <1>5, <1>6

(* The status a check arrives at.                                          *)
LEMMA VerdictStatus ==
  ASSUME NEW c \in Checks
  PROVE  Verdict(c).status =
           IF c.alive THEN "online"
           ELSE IF Failures(c) >= FLAP_THRESHOLD THEN "offline" ELSE "unknown"
  BY DEF Verdict, NextStatus, Checks, Row

LEMMA CounterInit == Init => CounterInv
<1> SUFFICES ASSUME Init PROVE CounterInv
  OBVIOUS
<1>1. TypeOK
  BY TypeInit
<1>2. OnlyChecksJudge /\ SeenIsCurrent
  BY DEF Init, OnlyChecksJudge, SeenIsCurrent, NoReq, NoCheck
<1>3. StatusMatchesFailures /\ FailuresCountHistory /\ LogAgreesWithStatus
  BY ThresholdAssumption DEF Init, StatusMatchesFailures,
     FailuresCountHistory, LogAgreesWithStatus, NewRow
<1> QED BY <1>1, <1>2, <1>3 DEF CounterInv

LEMMA CounterStep ==
  ASSUME NoSimulation, CounterInv, [Next]_vars
  PROVE  CounterInv'
<1> USE DEF CounterInv
<1>0. TypeOK'
  BY TypeStep
<1>1. CASE CheckStart
  <2>1. check'.pc = "probe"
    BY <1>1 DEF CheckStart, NoCheck
  <2> QED
    BY <1>0, <1>1, <2>1 DEF CheckStart, OnlyChecksJudge, SeenIsCurrent,
       StatusMatchesFailures, FailuresCountHistory, LogAgreesWithStatus
<1>2. CASE CheckSkip
  BY <1>0, <1>2 DEF CheckSkip, vars, OnlyChecksJudge, SeenIsCurrent,
     StatusMatchesFailures, FailuresCountHistory, LogAgreesWithStatus
<1>3. CASE ProbeDone
  <2>1. row.status # "offline" => row.failures < MaxFailures
    BY ThresholdAssumption, BoundAssumption
       DEF StatusMatchesFailures, TypeOK, Row, Status
  <2>2. SeenIsCurrent'
    BY <1>3, <2>1 DEF ProbeDone, SeenIsCurrent, NoCheck, TypeOK, Checks
  <2> QED
    BY <1>0, <1>3, <2>2 DEF ProbeDone, OnlyChecksJudge,
       StatusMatchesFailures, FailuresCountHistory, LogAgreesWithStatus
<1>4. CASE CheckCommit
  <2>1. /\ row'.exists = row.exists
        /\ row'.failures = Failures(check)
        /\ row'.status = Verdict(check).status
        /\ Failures(check) = IF check.alive THEN 0 ELSE row.failures + 1
    BY <1>4, CommitApplies
  <2>2. Verdict(check).status =
          IF check.alive THEN "online"
          ELSE IF Failures(check) >= FLAP_THRESHOLD THEN "offline"
          ELSE "unknown"
    BY VerdictStatus DEF TypeOK
  <2>3. /\ row.exists
        /\ check.seen.status = row.status
        /\ check.alive \/ row.failures < MaxFailures
    BY <1>4 DEF CheckCommit, SeenIsCurrent
  <2>4. Failures(check) \in Nat
    BY VerdictType DEF TypeOK
  <2>5. StatusMatchesFailures'
    BY <2>1, <2>2, <2>4, ThresholdAssumption DEF StatusMatchesFailures
  <2>6. FailuresCountHistory'
    <3>1. row.failures = misses
      BY <2>3 DEF FailuresCountHistory
    <3>2. misses' = IF check.alive THEN 0 ELSE misses + 1
      BY <1>4, <2>3, <3>1 DEF CheckCommit
    <3> QED BY <2>1, <3>1, <3>2 DEF FailuresCountHistory
  <2>7. LogAgreesWithStatus'
    <3>1. lastEvent = "went_offline" <=> row.status = "offline"
      BY <2>3 DEF LogAgreesWithStatus
    <3>2. lastEvent' = NewestEvent(check.seen, Verdict(check))
      BY <1>4 DEF CheckCommit
    <3>3. row.status = "offline" => Verdict(check).status # "unknown"
      <4>1. row.status = "offline" => row.failures >= FLAP_THRESHOLD
        BY DEF StatusMatchesFailures
      <4> QED BY <2>1, <2>2, <4>1, ThresholdAssumption DEF TypeOK, Row
    <3> QED BY <2>1, <2>2, <2>3, <3>1, <3>2, <3>3
            DEF NewestEvent, LogAgreesWithStatus
  <2>8. OnlyChecksJudge' /\ SeenIsCurrent'
    BY <1>4 DEF CheckCommit, OnlyChecksJudge, SeenIsCurrent, NoCheck
  <2> QED BY <1>0, <2>5, <2>6, <2>7, <2>8
<1>5. CASE CheckStale
  BY <1>0, <1>5 DEF CheckStale, NoCheck, OnlyChecksJudge, SeenIsCurrent,
     StatusMatchesFailures, FailuresCountHistory, LogAgreesWithStatus
<1>6. CASE CheckLost
  BY <1>0, <1>6 DEF CheckLost, NoCheck, OnlyChecksJudge, SeenIsCurrent,
     StatusMatchesFailures, FailuresCountHistory, LogAgreesWithStatus
<1>7. CASE HostChange
  BY <1>0, <1>7 DEF HostChange, OnlyChecksJudge, SeenIsCurrent,
     StatusMatchesFailures, FailuresCountHistory, LogAgreesWithStatus
<1>8. ASSUME NEW r \in Requests, Request(r) PROVE CounterInv'
  <2>1. CASE RequestLoad(r)
    <3>1. OnlyChecksJudge'
      BY <2>1 DEF RequestLoad, OnlyChecksJudge, TypeOK
    <3> QED
      BY <1>0, <2>1, <3>1 DEF RequestLoad, SeenIsCurrent,
         StatusMatchesFailures, FailuresCountHistory, LogAgreesWithStatus
  <2>2. CASE RequestCommit(r)
    <3>1. /\ row'.status = row.status
          /\ row'.failures = row.failures
          /\ row'.exists = row.exists
          /\ lastEvent' = lastEvent
      BY <2>2, EditKeepsVerdict
    <3>2. OnlyChecksJudge'
      BY <2>2 DEF RequestCommit, OnlyChecksJudge, NoReq, TypeOK
    <3> QED
      BY <1>0, <2>2, <3>1, <3>2 DEF RequestCommit, SeenIsCurrent,
         StatusMatchesFailures, FailuresCountHistory, LogAgreesWithStatus
  <2>3. CASE AckCommit(r)
    <3>1. /\ row'.status = row.status
          /\ row'.failures = row.failures
          /\ row'.exists = row.exists
      BY <2>3 DEF AckCommit, TypeOK, Row
    <3>2. OnlyChecksJudge'
      BY <2>3 DEF AckCommit, OnlyChecksJudge, NoReq, TypeOK
    <3> QED
      BY <1>0, <2>3, <3>1, <3>2 DEF AckCommit, SeenIsCurrent,
         StatusMatchesFailures, FailuresCountHistory, LogAgreesWithStatus
  <2>4. CASE DeleteCommit(r)
    <3>1. /\ row'.status = row.status
          /\ row'.failures = row.failures
          /\ ~row'.exists
      BY <2>4 DEF DeleteCommit, TypeOK, Row
    <3>2. OnlyChecksJudge'
      BY <2>4 DEF DeleteCommit, OnlyChecksJudge, NoReq, TypeOK
    <3> QED
      BY <1>0, <2>4, <3>1, <3>2 DEF SeenIsCurrent,
         StatusMatchesFailures, FailuresCountHistory, LogAgreesWithStatus
  <2>5. CASE RequestStale(r)
    <3>1. OnlyChecksJudge'
      BY <2>5 DEF RequestStale, OnlyChecksJudge, NoReq, TypeOK
    <3> QED
      BY <1>0, <2>5, <3>1 DEF RequestStale, SeenIsCurrent,
         StatusMatchesFailures, FailuresCountHistory, LogAgreesWithStatus
  <2> QED BY <1>8, <2>1, <2>2, <2>3, <2>4, <2>5 DEF Request
<1>9. CASE UNCHANGED vars
  BY <1>0, <1>9 DEF vars, OnlyChecksJudge, SeenIsCurrent,
     StatusMatchesFailures, FailuresCountHistory, LogAgreesWithStatus
<1> QED
  BY <1>1, <1>2, <1>3, <1>4, <1>5, <1>6, <1>7, <1>8, <1>9 DEF Next

-----------------------------------------------------------------------------
(* Unless somebody simulates, the copy of a check, the status, the counter *)
(* and the newest event keep agreeing.                                     *)
THEOREM CounterCorrect ==
  ASSUME NoSimulation
  PROVE  Spec => []CounterInv
  BY CounterInit, CounterStep, PTL DEF Spec

(* Status and failure counter agree in every reachable state, however      *)
(* checks, edits, acknowledgements and deletions overlap.                  *)
THEOREM StatusFollowsCounter ==
  ASSUME NoSimulation
  PROVE  Spec => []StatusMatchesFailures
<1>1. CounterInv => StatusMatchesFailures
  BY DEF CounterInv
<1> QED BY <1>1, CounterCorrect, PTL

(* The counter on the row always equals the run of failed samples.         *)
THEOREM CounterFollowsHistory ==
  ASSUME NoSimulation
  PROVE  Spec => []FailuresCountHistory
<1>1. CounterInv => FailuresCountHistory
  BY DEF CounterInv
<1> QED BY <1>1, CounterCorrect, PTL

(* The newest event is went_offline exactly while the device is offline.   *)
THEOREM LogFollowsStatus ==
  ASSUME NoSimulation
  PROVE  Spec => []LogAgreesWithStatus
<1>1. CounterInv => LogAgreesWithStatus
  BY DEF CounterInv
<1> QED BY <1>1, CounterCorrect, PTL

(* With a threshold of at least two, no check takes a device from online   *)
(* straight to offline.                                                    *)
THEOREM WarningComesFirst ==
  ASSUME NoSimulation, FLAP_THRESHOLD >= 2
  PROVE  Spec => WarningBeforeAlarm
<1>1. ASSUME CounterInv, CounterInv', [Next]_vars,
             check.pc = "persist", row.status = "online", req' = req
      PROVE  row'.status # "offline"
  <2>1. CASE CheckCommit
    <3>1. row'.failures = IF check.alive THEN 0 ELSE row.failures + 1
      BY <1>1, <2>1, CommitApplies DEF CounterInv
    <3>2. row.failures = 0
      BY <1>1 DEF CounterInv, StatusMatchesFailures
    <3>3. row'.failures < FLAP_THRESHOLD
      BY <3>1, <3>2, ThresholdAssumption
    <3> QED
      BY <1>1, <3>1, <3>2, <3>3, ThresholdAssumption
         DEF CounterInv, StatusMatchesFailures
  <2>2. CASE ~CheckCommit
    <3>1. ASSUME NEW r \in Requests, Request(r) PROVE FALSE
      <4>1. req[r].pc = "idle" \/ req[r].pc = "loaded"
        BY <1>1 DEF CounterInv, TypeOK, Reqs
      <4>2. req'[r] # req[r]
        BY <1>1, <3>1, <4>1 DEF Request, RequestLoad, RequestCommit, AckCommit,
           DeleteCommit, RequestStale, NoReq, CounterInv, TypeOK
      <4> QED BY <1>1, <4>2
    <3>2. row' = row
      BY <1>1, <2>2, <3>1 DEF Next, CheckStart, CheckSkip, ProbeDone,
         CheckStale, CheckLost, HostChange, vars
    <3> QED BY <1>1, <3>2
  <2> QED BY <2>1, <2>2
<1>2. CounterInv /\ CounterInv' /\ [Next]_vars =>
        [check.pc = "persist" /\ row.status = "online" /\ req' = req
           => row'.status # "offline"]_vars
  BY <1>1
<1> QED BY <1>2, CounterCorrect, PTL DEF Spec, WarningBeforeAlarm

(* No step touches the row, the samples or the events of a deleted device. *)
THEOREM DeletionIsFinal == Spec => DeletedStaysDeleted
<1>1. ASSUME TypeOK, [Next]_vars, ~row.exists
      PROVE  UNCHANGED <<row, misses, lastEvent>>
  <2>1. ASSUME NEW r \in Requests, Request(r)
        PROVE  UNCHANGED <<row, misses, lastEvent>>
    BY <1>1, <2>1 DEF Request, RequestLoad, RequestCommit, AckCommit,
       DeleteCommit, RequestStale
  <2> QED BY <1>1, <2>1 DEF Next, CheckStart, CheckSkip, ProbeDone,
         CheckCommit, CheckStale, CheckLost, HostChange, vars
<1>2. TypeOK /\ [Next]_vars =>
        [~row.exists => UNCHANGED <<row, misses, lastEvent>>]_vars
  BY <1>1
<1> QED BY <1>2, TypeCorrect, PTL DEF Spec, DeletedStaysDeleted

-----------------------------------------------------------------------------
(* What the three liveness properties need of safety.  While a device      *)
(* stays monitored and no request about it is in flight, the only writer   *)
(* left is the check, and a check already under way may still carry what   *)
(* was true before.  Once it does not, what is on the row lasts.           *)
OutageStands ==
  /\ Settled /\ row.status = "offline"
  /\ check.pc = "persist" => ~check.alive

RecoveryStands ==
  /\ Settled /\ row.status = "online" /\ ~row.acked
  /\ check.pc = "persist" => check.alive

ServiceIsQuiet ==
  /\ Settled /\ ~row.watched /\ row.service = "none"
  /\ check.pc # "idle" => ~check.watched

(* The safety halves of OutageDetected, RecoveryDetected and               *)
(* NoOrphanServiceAlarm: no step takes the verdict back while its cause    *)
(* lasts (Phase 3 of _check_one, with its copy of the row).                *)
VerdictsLast ==
  [][/\ OutageStands /\ host = "down" /\ Settled' => OutageStands'
     /\ RecoveryStands /\ host = "up" /\ Settled' => RecoveryStands'
     /\ ServiceIsQuiet /\ Settled' => ServiceIsQuiet']_vars

(* Nobody but the check can move while the device stays settled.           *)
LEMMA SettledSteps ==
  ASSUME TypeOK, [Next]_vars, Settled, Settled'
  PROVE  \/ CheckStart \/ ProbeDone \/ CheckCommit \/ CheckLost \/ HostChange
         \/ UNCHANGED vars
<1>1. ASSUME NEW r \in Requests, Request(r) PROVE FALSE
  BY <1>1 DEF Settled, TypeOK, Request, RequestLoad, RequestCommit, AckCommit,
     DeleteCommit, RequestStale
<1>2. ~CheckStale
  BY DEF Settled, CheckStale
<1> QED BY <1>1, <1>2 DEF Next, CheckSkip

(* The columns a check leaves to its device when it commits.               *)
LEMMA CommitKeeps ==
  ASSUME TypeOK, CheckCommit
  PROVE  /\ row'.watched = row.watched
         /\ ~check.watched /\ row.service = "none" => row'.service = "none"
         /\ check.alive => row'.acked = (row.acked /\ ~check.seen.acked)
         /\ check'.pc = "idle"
<1>1. check.seen \in Row
  BY DEF TypeOK, Checks
<1>2. /\ Verdict(check).watched = check.seen.watched
      /\ Verdict(check).service = NextService(check)
      /\ Verdict(check).acked = NextAck(check)
  BY <1>1 DEF Verdict, Row
<1>3. /\ row' = Flush(check.seen, Verdict(check))
      /\ check' = NoCheck
  BY DEF CheckCommit
<1>4. row'.watched = row.watched
  BY <1>2, <1>3 DEF Flush, Column
<1>5. ~check.watched /\ row.service = "none" => row'.service = "none"
  BY <1>2, <1>3 DEF Flush, Column, NextService
<1>6. check.alive => row'.acked = (row.acked /\ ~check.seen.acked)
  <2>1. row.acked \in BOOLEAN /\ check.seen.acked \in BOOLEAN
    BY <1>1 DEF TypeOK, Row
  <2>2. row'.acked = Column(row.acked, check.seen.acked, NextAck(check))
    BY <1>2, <1>3 DEF Flush
  <2> QED BY <2>1, <2>2 DEF Column, NextAck
<1> QED BY <1>3, <1>4, <1>5, <1>6 DEF NoCheck

LEMMA OutageLasts ==
  ASSUME CounterInv, [Next]_vars, OutageStands, host = "down", Settled'
  PROVE  OutageStands'
<1> USE DEF CounterInv, OutageStands
<1>1. CASE CheckStart
  BY <1>1 DEF CheckStart, NoCheck
<1>2. CASE ProbeDone
  BY <1>2 DEF ProbeDone, NoCheck, TypeOK, Checks
<1>3. CASE CheckCommit
  <2>1. row'.failures = row.failures + 1 /\ row'.status = Verdict(check).status
    BY <1>3, CommitApplies DEF CheckCommit
  <2>2. Failures(check) = row.failures + 1 /\ ~check.alive
    BY <1>3, CommitApplies DEF CheckCommit
  <2>3. row.failures >= FLAP_THRESHOLD /\ row.failures \in Nat
    BY DEF StatusMatchesFailures, TypeOK, Row
  <2>4. row'.status = "offline"
    BY <2>1, <2>2, <2>3, VerdictStatus, ThresholdAssumption DEF TypeOK
  <2> QED BY <1>3, <2>4, CommitKeeps
<1>4. CASE CheckLost
  BY <1>4 DEF CheckLost, NoCheck
<1>5. CASE HostChange \/ UNCHANGED vars
  BY <1>5 DEF HostChange, vars
<1> QED BY <1>1, <1>2, <1>3, <1>4, <1>5, SettledSteps

LEMMA RecoveryLasts ==
  ASSUME CounterInv, [Next]_vars, RecoveryStands, host = "up", Settled'
  PROVE  RecoveryStands'
<1> USE DEF CounterInv, RecoveryStands
<1>1. CASE CheckStart
  BY <1>1 DEF CheckStart, NoCheck
<1>2. CASE ProbeDone
  BY <1>2 DEF ProbeDone, NoCheck, TypeOK, Checks
<1>3. CASE CheckCommit
  <2>1. check.alive /\ row'.status = Verdict(check).status
    BY <1>3, CommitApplies DEF CheckCommit
  <2>2. row'.status = "online"
    BY <2>1, VerdictStatus DEF TypeOK
  <2>3. ~row'.acked
    BY <1>3, <2>1, CommitKeeps
  <2> QED BY <1>3, <2>2, <2>3, CommitKeeps
<1>4. CASE CheckLost
  BY <1>4 DEF CheckLost, NoCheck
<1>5. CASE HostChange \/ UNCHANGED vars
  BY <1>5 DEF HostChange, vars
<1> QED BY <1>1, <1>2, <1>3, <1>4, <1>5, SettledSteps

LEMMA QuietLasts ==
  ASSUME TypeOK, [Next]_vars, ServiceIsQuiet, Settled'
  PROVE  ServiceIsQuiet'
<1> USE DEF ServiceIsQuiet
<1>1. CASE CheckStart
  BY <1>1 DEF CheckStart, NoCheck
<1>2. CASE ProbeDone
  BY <1>2 DEF ProbeDone, NoCheck, TypeOK, Checks
<1>3. CASE CheckCommit
  BY <1>3, CommitKeeps DEF CheckCommit
<1>4. CASE CheckLost
  BY <1>4 DEF CheckLost, NoCheck
<1>5. CASE HostChange \/ UNCHANGED vars
  BY <1>5 DEF HostChange, vars
<1> QED
  BY <1>1, <1>2, <1>3, <1>4, <1>5, SettledSteps DEF ServiceIsQuiet

(* A verdict that stands is never taken back while its cause lasts, for    *)
(* every threshold and any number of requests.                             *)
THEOREM VerdictsStand ==
  ASSUME NoSimulation
  PROVE  Spec => VerdictsLast
<1>1. CounterInv /\ [Next]_vars =>
        [/\ OutageStands /\ host = "down" /\ Settled' => OutageStands'
         /\ RecoveryStands /\ host = "up" /\ Settled' => RecoveryStands'
         /\ ServiceIsQuiet /\ Settled' => ServiceIsQuiet']_vars
  BY OutageLasts, RecoveryLasts, QuietLasts DEF CounterInv
<1> QED BY <1>1, CounterCorrect, PTL DEF Spec, VerdictsLast

-----------------------------------------------------------------------------
(* AckClearedOnRecovery does not hold; this is how little is missing.  An  *)
(* acknowledgement outlives the outage only if it was committed between    *)
(* the moment the recovering check loaded the row and its own commit.      *)
AckSurvivesOnlyItsRace ==
  [][row.status = "offline" /\ row'.status = "online" /\ row'.acked
       => /\ check.pc = "persist" /\ check.alive
          /\ row.acked /\ ~check.seen.acked]_vars

(* The window of one check is all there is to it, for any number of        *)
(* requests in any order.                                                  *)
THEOREM OnlyTheRaceKeepsAck ==
  ASSUME NoSimulation
  PROVE  Spec => AckSurvivesOnlyItsRace
<1>1. ASSUME CounterInv, [Next]_vars,
             row.status = "offline", row'.status = "online", row'.acked
      PROVE  /\ check.pc = "persist" /\ check.alive
             /\ row.acked /\ ~check.seen.acked
  <2>1. CASE CheckCommit
    <3>1. row'.status = Verdict(check).status /\ check \in Checks
      BY <1>1, <2>1, CommitApplies DEF CounterInv, TypeOK
    <3>2. check.alive
      BY <1>1, <3>1, VerdictStatus
    <3> QED
      BY <1>1, <2>1, <3>2, CommitKeeps DEF CounterInv, CheckCommit
  <2>2. ASSUME NEW r \in Requests, Request(r) PROVE row'.status = row.status
    <3>1. CASE RequestCommit(r)
      BY <1>1, <3>1, EditKeepsVerdict DEF CounterInv
    <3>2. CASE AckCommit(r) \/ DeleteCommit(r)
      BY <1>1, <3>2 DEF AckCommit, DeleteCommit, CounterInv, TypeOK, Row
    <3> QED
      BY <2>2, <3>1, <3>2 DEF Request, RequestLoad, RequestStale
  <2>3. CASE ~CheckCommit /\ ~\E r \in Requests : Request(r)
    BY <1>1, <2>3 DEF Next, CheckStart, CheckSkip, ProbeDone, CheckStale,
       CheckLost, HostChange, vars
  <2> QED BY <1>1, <2>1, <2>2, <2>3
<1>2. CounterInv /\ [Next]_vars =>
        [row.status = "offline" /\ row'.status = "online" /\ row'.acked
           => /\ check.pc = "persist" /\ check.alive
              /\ row.acked /\ ~check.seen.acked]_vars
  BY <1>1
<1> QED BY <1>2, CounterCorrect, PTL DEF Spec, AckSurvivesOnlyItsRace

-----------------------------------------------------------------------------
(* What is left of this when somebody does simulate.  Status, counter and  *)
(* newest event agree until a commit that judges does so by a copy whose   *)
(* two columns are not the row's any more: a check, or a simulation, that  *)
(* another judgement has overtaken.                                        *)
Agreed == StatusMatchesFailures /\ LogAgreesWithStatus

Current(seen) == seen.status = row.status /\ seen.failures = row.failures

Simulates(r) == req[r].kind \in {"simulate_online", "simulate_offline"}

OvertakenJudgement ==
  \/ CheckCommit /\ ~Current(check.seen)
  \/ \E r \in Requests : RequestCommit(r) /\ Simulates(r) /\ ~Current(req[r].seen)

DriftNeedsOverlap == [][Agreed => Agreed' \/ OvertakenJudgement]_vars

(* And what has drifted apart does not stay so: any check that nothing     *)
(* overtakes sets status and counter right, whatever they were.            *)
ChecksRepair ==
  [][CheckCommit /\ Current(check.seen) => StatusMatchesFailures']_vars

(* What a check whose copy is current leaves on the row.                   *)
LEMMA CurrentCheck ==
  ASSUME TypeOK, CheckCommit, Current(check.seen)
  PROVE  /\ row'.exists = row.exists
         /\ row'.status = IF check.alive THEN "online"
                          ELSE IF row'.failures >= FLAP_THRESHOLD THEN "offline"
                          ELSE "unknown"
         /\ row'.failures = IF check.alive THEN 0 ELSE row.failures + 1
         /\ lastEvent' = IF row'.status = row.status \/ row'.status = "unknown"
                         THEN lastEvent
                         ELSE IF row'.status = "online" THEN "came_online"
                         ELSE "went_offline"
<1>1. check \in Checks /\ check.seen \in Row
  BY DEF TypeOK, Checks
<1>2. /\ Verdict(check).failures = Failures(check)
      /\ Failures(check) = IF check.alive THEN 0 ELSE row.failures + 1
  BY <1>1 DEF Verdict, Row, Failures, Current
<1>3. /\ row' = Flush(check.seen, Verdict(check))
      /\ lastEvent' = NewestEvent(check.seen, Verdict(check))
  BY DEF CheckCommit
<1>4. /\ row'.exists = row.exists
      /\ row'.failures = Failures(check)
      /\ row'.status = Verdict(check).status
  BY <1>2, <1>3 DEF Flush, Column, Current
<1> QED BY <1>1, <1>2, <1>3, <1>4, VerdictStatus DEF NewestEvent, Current

(* A request commits: it leaves both columns alone, or sets both.          *)
LEMMA SimulationSetsBoth ==
  ASSUME TypeOK, NEW r \in Requests, RequestCommit(r), Current(req[r].seen)
  PROVE  /\ row'.exists = row.exists
         /\ \/ row'.status = row.status /\ row'.failures = row.failures
               /\ lastEvent' = lastEvent
            \/ /\ row'.status = "online" /\ row'.failures = 0
               /\ lastEvent' = IF row.status = "online" THEN lastEvent ELSE "came_online"
            \/ /\ row'.status = "offline" /\ row'.failures = FLAP_THRESHOLD
               /\ lastEvent' = IF row.status = "offline" THEN lastEvent ELSE "went_offline"
<1> DEFINE k == req[r].kind
           s == req[r].seen
<1>1. k \in AllKinds /\ s \in Row
  BY DEF TypeOK, Reqs
<1>2. /\ row' = Flush(s, Edit(k, s))
      /\ lastEvent' = NewestEvent(s, Edit(k, s))
  BY DEF RequestCommit
<1>3. /\ row'.exists = row.exists
      /\ row'.status = Edit(k, s).status /\ row'.failures = Edit(k, s).failures
  BY <1>2 DEF Flush, Column, Current
<1>4. CASE k = "simulate_online"
  <2>1. Edit(k, s).status = "online" /\ Edit(k, s).failures = 0
    BY <1>1, <1>4 DEF Edit, Row
  <2> QED BY <1>2, <1>3, <2>1 DEF NewestEvent, Current
<1>5. CASE k = "simulate_offline"
  <2>1. Edit(k, s).status = "offline" /\ Edit(k, s).failures = FLAP_THRESHOLD
    BY <1>1, <1>5 DEF Edit, Row
  <2> QED BY <1>2, <1>3, <2>1 DEF NewestEvent, Current
<1>6. CASE k \notin {"simulate_online", "simulate_offline"}
  <2>1. Edit(k, s).status = s.status /\ Edit(k, s).failures = s.failures
    BY <1>1, <1>6 DEF Edit, AllKinds, Row
  <2> QED BY <1>2, <1>3, <2>1 DEF NewestEvent, Current
<1> QED BY <1>4, <1>5, <1>6

(* A request that does not simulate leaves them alone however old its copy.*)
LEMMA OthersLeaveBoth ==
  ASSUME TypeOK, NEW r \in Requests, RequestCommit(r), ~Simulates(r)
  PROVE  /\ row'.exists = row.exists
         /\ row'.status = row.status /\ row'.failures = row.failures
         /\ lastEvent' = lastEvent
<1> DEFINE k == req[r].kind
           s == req[r].seen
<1>1. k \in AllKinds /\ s \in Row
  BY DEF TypeOK, Reqs
<1>2. Edit(k, s).status = s.status /\ Edit(k, s).failures = s.failures
  BY <1>1 DEF Edit, AllKinds, Row, Simulates
<1>3. /\ row' = Flush(s, Edit(k, s))
      /\ lastEvent' = NewestEvent(s, Edit(k, s))
  BY DEF RequestCommit
<1> QED BY <1>2, <1>3 DEF Flush, Column, NewestEvent

(* Forced or measured, whatever overlaps: the status and its counter drift *)
(* apart only by a judgement that another one has overtaken.               *)
THEOREM OverlapNeededToDrift == Spec => DriftNeedsOverlap
<1>1. ASSUME TypeOK, [Next]_vars, Agreed, ~OvertakenJudgement
      PROVE  Agreed'
  <2> USE <1>1 DEF Agreed, StatusMatchesFailures, LogAgreesWithStatus
  <2>1. CASE CheckCommit
    <3>1. Current(check.seen)
      BY <2>1 DEF OvertakenJudgement
    <3>2. row.failures \in Nat /\ row.exists
      BY <2>1 DEF TypeOK, Row, CheckCommit
    <3>3. row.status = "offline" => row'.status # "unknown"
      BY <2>1, <3>1, <3>2, CurrentCheck, ThresholdAssumption
    <3> QED BY <2>1, <3>1, <3>2, <3>3, CurrentCheck, ThresholdAssumption
  <2>2. ASSUME NEW r \in Requests, RequestCommit(r) PROVE Agreed'
    <3>1. CASE Simulates(r)
      <4>1. Current(req[r].seen)
        BY <2>2, <3>1 DEF OvertakenJudgement
      <4>2. row.exists /\ (lastEvent = "went_offline" <=> row.status = "offline")
        BY <2>2 DEF RequestCommit
      <4> HIDE DEF Agreed, StatusMatchesFailures, LogAgreesWithStatus
      <4>3. StatusMatchesFailures
        BY DEF Agreed
      <4>4. StatusMatchesFailures'
        BY <2>2, <4>1, <4>3, SimulationSetsBoth, ThresholdAssumption
           DEF StatusMatchesFailures
      <4>5. LogAgreesWithStatus'
        BY <2>2, <4>1, <4>2, SimulationSetsBoth DEF LogAgreesWithStatus
      <4> QED BY <4>4, <4>5 DEF Agreed
    <3>2. CASE ~Simulates(r)
      BY <2>2, <3>2, OthersLeaveBoth
    <3> QED BY <3>1, <3>2
  <2>3. ASSUME NEW r \in Requests, AckCommit(r) PROVE Agreed'
    BY <2>3 DEF AckCommit, TypeOK, Row
  <2>4. ASSUME NEW r \in Requests, DeleteCommit(r) PROVE Agreed'
    BY <2>4 DEF DeleteCommit, TypeOK, Row
  <2>5. ASSUME UNCHANGED <<row, lastEvent>> PROVE Agreed'
    BY <2>5
  <2>6. ASSUME NEW r \in Requests, Request(r) PROVE Agreed'
    <3>1. CASE RequestLoad(r) \/ RequestStale(r)
      <4>1. UNCHANGED <<row, lastEvent>>
        BY <3>1 DEF RequestLoad, RequestStale
      <4> QED BY <2>5, <4>1
    <3> HIDE DEF Agreed, StatusMatchesFailures, LogAgreesWithStatus
    <3> QED BY <2>2, <2>3, <2>4, <2>6, <3>1 DEF Request
  <2>7. CASE CheckStart \/ CheckSkip \/ ProbeDone \/ CheckStale \/ CheckLost
             \/ HostChange \/ UNCHANGED vars
    <3>1. UNCHANGED <<row, lastEvent>>
      BY <2>7, Zenon DEF CheckStart, CheckSkip, ProbeDone, CheckStale,
         CheckLost, HostChange, vars
    <3> QED BY <2>5, <3>1
  <2> HIDE DEF Agreed, StatusMatchesFailures, LogAgreesWithStatus
  <2> QED BY <1>1, <2>1, <2>6, <2>7 DEF Next
<1>2. TypeOK /\ [Next]_vars => [Agreed => Agreed' \/ OvertakenJudgement]_vars
  BY <1>1
<1> QED BY <1>2, TypeCorrect, PTL DEF Spec, DriftNeedsOverlap

(* One check that nothing overtakes is enough to set them right.           *)
THEOREM OneCheckRepairs == Spec => ChecksRepair
<1>1. ASSUME TypeOK, CheckCommit, Current(check.seen)
      PROVE  StatusMatchesFailures'
  <2>1. row.failures \in Nat
    BY <1>1 DEF TypeOK, Row
  <2> QED
    BY <1>1, <2>1, CurrentCheck, ThresholdAssumption DEF StatusMatchesFailures
<1>2. TypeOK => [CheckCommit /\ Current(check.seen) => StatusMatchesFailures']_vars
  BY <1>1
<1> QED BY <1>2, TypeCorrect, PTL DEF Spec, ChecksRepair

-----------------------------------------------------------------------------
(* The refinement: a committed check is a Success or a Failure of the      *)
(* abstract specification, a committed deletion is its Delete, and every   *)
(* other step leaves its variables alone.                                  *)
LEMMA CommitRefines ==
  ASSUME CounterInv, CheckCommit
  PROVE  Promise!Next
<1> USE DEF CounterInv
<1>1. /\ row'.exists = row.exists
      /\ row'.failures = Failures(check)
      /\ row'.status = Verdict(check).status
      /\ Failures(check) = IF check.alive THEN 0 ELSE row.failures + 1
  BY CommitApplies
<1>2. Verdict(check).status =
        IF check.alive THEN "online"
        ELSE IF Failures(check) >= FLAP_THRESHOLD THEN "offline" ELSE "unknown"
  BY VerdictStatus DEF TypeOK
<1>3. /\ row.exists
      /\ row.failures = misses
      /\ check.alive \/ row.failures < MaxFailures
  BY DEF CheckCommit, SeenIsCurrent, FailuresCountHistory
<1>4. misses' = IF check.alive THEN 0 ELSE misses + 1
  BY <1>3 DEF CheckCommit
<1>5. CASE check.alive
  BY <1>1, <1>2, <1>3, <1>4, <1>5 DEF Promise!Next, Promise!Success
<1>6. CASE ~check.alive
  BY <1>1, <1>2, <1>3, <1>4, <1>6 DEF Promise!Next, Promise!Failure
<1> QED BY <1>5, <1>6

LEMMA StepRefines ==
  ASSUME NoSimulation, CounterInv, [Next]_vars
  PROVE  [Promise!Next]_(Promise!vars)
<1> USE DEF CounterInv
<1>1. CASE CheckCommit
  BY <1>1, CommitRefines
<1>2. ASSUME NEW r \in Requests, DeleteCommit(r)
      PROVE  Promise!Next
  BY <1>2 DEF DeleteCommit, TypeOK, Row, Promise!Next, Promise!Delete
<1>3. ASSUME NEW r \in Requests, Request(r), ~DeleteCommit(r)
      PROVE  UNCHANGED Promise!vars
  <2>1. CASE RequestCommit(r)
    BY <2>1, EditKeepsVerdict DEF RequestCommit, Promise!vars
  <2>2. CASE AckCommit(r)
    BY <2>2 DEF AckCommit, TypeOK, Row, Promise!vars
  <2> QED
    BY <1>3, <2>1, <2>2 DEF Request, RequestLoad, RequestStale, Promise!vars
<1>4. ASSUME ~CheckCommit, ~\E r \in Requests : Request(r)
      PROVE  UNCHANGED Promise!vars
  BY <1>4 DEF Next, CheckStart, CheckSkip, ProbeDone, CheckStale, CheckLost,
     HostChange, vars, Promise!vars
<1> QED BY <1>1, <1>2, <1>3, <1>4

(* Without simulation the detailed machine implements its promise: the     *)
(* status is a function of the device's samples and of nothing else.       *)
THEOREM StatusImplementsPromise ==
  ASSUME NoSimulation
  PROVE  Spec => ImplementsPromise
<1>1. Init => Promise!Init
  BY DEF Init, NewRow, Promise!Init
<1>2. CounterInv /\ [Next]_vars => [Promise!Next]_(Promise!vars)
  BY StepRefines
<1> QED BY <1>1, <1>2, CounterCorrect, PTL
        DEF Spec, ImplementsPromise, Promise!Spec

=============================================================================
