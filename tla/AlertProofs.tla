----------------------------- MODULE AlertProofs -----------------------------
(***************************************************************************)
(* Proofs about AlertEngine, for every topology, every set of operations   *)
(* and every number of crashes and failing commits: its types, that        *)
(* notifications repeat only when one was not remembered, that what is     *)
(* suppressed is not alerted about, that what was said lasts as long as it *)
(* is true, and which topologies let every outage be heard.                *)
(***************************************************************************)
EXTENDS AlertEngine, TLAPS

(* What the engine has told about d and what it remembers of it differ.    *)
Forgot(d) == ~(said[d] = "alarm" <=> row[d].notified)

(* The notification about d has gone out and is about to be committed.     *)
Committing(d) == tick.pc = "commit" /\ tick.cur = d

(* Every repeat was paid for by a notification that was not remembered, as *)
(* will be the next one, which a difference that nobody is about to remove *)
(* is bound to become.                                                     *)
Paid ==
  \A d \in Devices :
    /\ repeats[d] <= torn[d]
    /\ Forgot(d) /\ ~Committing(d) => repeats[d] < torn[d]

(* The copies agree with the rows on alert_notified_at, which only the     *)
(* engine writes; the device being notified is on the list, and the kind   *)
(* of its notification follows from what is remembered.                    *)
CopiesRemember ==
  /\ tick.pc = "idle" => tick.todo = {}
  /\ \A d \in tick.todo : tick.seen[d].notified = row[d].notified
  /\ tick.pc \in {"notify", "commit"} =>
       /\ tick.cur \in tick.todo
       /\ row[tick.cur].notified <=> tick.kind = "recovered"
  /\ tick.pc = "commit" => said[tick.cur] = tick.kind

(* What held without a break since the cycle began, the copies say too.    *)
CopiesSteady ==
  /\ \A d \in steady.quiet : tick.seen[d].silenced /\ row[d].silenced
  /\ \A d \in steady.down :
       /\ tick.seen[d].exists /\ tick.seen[d].offline
       /\ row[d].exists /\ row[d].offline

(* An alarm about to be sent is about a device nothing suppresses.         *)
AlarmAllowed ==
  tick.pc = "notify" /\ tick.kind = "alarm" =>
    tick.cur \notin steady.quiet /\ Parent[tick.cur] \notin steady.down

IInv == TypeOK /\ CopiesRemember /\ CopiesSteady /\ AlarmAllowed

CountInv == IInv /\ Paid

-----------------------------------------------------------------------------
LEMMA TypeInit == Init => TypeOK
  BY ParentAssumption DEF Init, TypeOK, Blank, NewRow, Row, Ticks, Steady, Idle, NothingSteady

LEMMA Negated == ASSUME NEW b PROVE (~b) \in BOOLEAN
  BY Zenon

LEMMA RowChanged ==
  ASSUME NEW r \in Row, NEW b \in BOOLEAN
  PROVE  /\ [r EXCEPT !.exists = b] \in Row /\ [r EXCEPT !.enabled = b] \in Row
         /\ [r EXCEPT !.offline = b] \in Row /\ [r EXCEPT !.failing = b] \in Row
         /\ [r EXCEPT !.silenced = b] \in Row /\ [r EXCEPT !.notified = b] \in Row
  BY DEF Row

LEMMA RowReplaced ==
  ASSUME NEW rs \in [Devices -> Row], NEW d \in Devices, NEW r \in Row
  PROVE  [rs EXCEPT ![d] = r] \in [Devices -> Row]
  OBVIOUS

(* The ways in which a cycle ends without having remembered anything.      *)
Stops == CommitStale \/ CommitFails \/ QueryFails \/ TickEnd \/ Crash

LEMMA TypeStep == TypeOK /\ [Next]_vars => TypeOK'
<1> SUFFICES ASSUME TypeOK, [Next]_vars PROVE TypeOK'
  OBVIOUS
<1> USE DEF TypeOK, Ticks, Steady, storyVars
<1>0. Idle \in Ticks /\ Idle.pc = "idle" /\ NothingSteady \in Steady
  BY DEF Row, Idle, Blank, NewRow, NothingSteady
<1>1. CASE TickStart
  <2>1. tick' \in Ticks /\ tick'.pc = "walk"
    BY <1>0, <1>1 DEF TickStart, Idle
  <2> QED BY <1>1, <2>1 DEF TickStart
<1>2. ASSUME NEW d \in Devices, TickSkip(d) PROVE TypeOK'
  BY <1>2 DEF TickSkip
<1>3. ASSUME NEW d \in Devices, TickNotify(d) PROVE TypeOK'
  BY <1>3 DEF TickNotify
<1>4. CASE Sent
  BY <1>4 DEF Sent
<1>5. ASSUME Remember
      PROVE  /\ row' \in [Devices -> Row] /\ torn' \in [Devices -> Nat]
             /\ repeats' \in [Devices -> Nat] /\ UNCHANGED <<outage, said>>
  BY <1>5, RowChanged, RowReplaced DEF Remember
<1>10. CASE Commit
  <2>1. Remember
    BY <1>10 DEF Commit
  <2>2. /\ tick' = [pc |-> "walk", seen |-> [tick.seen EXCEPT ![tick.cur] = row'[tick.cur]],
                    todo |-> tick.todo \ {tick.cur}, cur |-> NoParent, kind |-> tick.kind]
        /\ UNCHANGED <<steady, faults>>
    BY <1>10 DEF Commit
  <2>3. [tick.seen EXCEPT ![tick.cur] = row'[tick.cur]] \in [Devices -> Row]
    BY <1>5, <2>1 DEF Remember
  <2>4. tick' \in Ticks /\ tick'.pc = "walk"
    BY <2>2, <2>3
  <2> QED BY <1>5, <2>1, <2>2, <2>4
<1>11. CASE RefreshFails
  <2>1. Remember /\ tick' = Idle /\ steady' = NothingSteady /\ faults' \in Nat
    BY <1>11 DEF RefreshFails, CycleOver, Fails
  <2> QED BY <1>0, <1>5, <2>1
<1>6. CASE Stops
  <2>1. /\ tick' = Idle /\ steady' = NothingSteady /\ faults' \in Nat
        /\ UNCHANGED <<row, outage, said, repeats>>
        /\ UNCHANGED torn \/ Forgets
    BY <1>6 DEF Stops, CommitStale, CommitFails, QueryFails, TickEnd, Crash, CycleOver, Fails,
                Forgets, storyVars
  <2>2. torn' \in [Devices -> Nat]
    BY <2>1 DEF Forgets
  <2> QED BY <1>0, <2>1, <2>2
<1>7. ASSUME NEW d \in Devices, Age(d) PROVE TypeOK'
  BY <1>7 DEF Age
<1>8. ASSUME NEW d \in Devices,
             StatusChange(d) \/ ServiceChange(d) \/ Silence(d) \/ Enable(d) \/ Delete(d)
      PROVE  TypeOK'
  <2>1. row' \in [Devices -> Row]
    <3>1. CASE StatusChange(d)
      BY <3>1, Negated, RowChanged, RowReplaced, Zenon DEF StatusChange
    <3>2. CASE ServiceChange(d)
      BY <3>2, Negated, RowChanged, RowReplaced, Zenon DEF ServiceChange
    <3>3. CASE Silence(d)
      BY <3>3, Negated, RowChanged, RowReplaced, Zenon DEF Silence
    <3>4. CASE Enable(d)
      BY <3>4, Negated, RowChanged, RowReplaced, Zenon DEF Enable
    <3>5. CASE Delete(d)
      BY <3>5, RowChanged, RowReplaced DEF Delete
    <3> QED BY <1>8, <3>1, <3>2, <3>3, <3>4, <3>5
  <2>2. outage' \in [Devices -> {"none", "fresh", "old"}] /\ steady' \in Steady
    BY <1>8 DEF StatusChange, ServiceChange, Silence, Enable, Delete
  <2>3. UNCHANGED <<tick, storyVars, faults>>
    BY <1>8 DEF StatusChange, ServiceChange, Silence, Enable, Delete
  <2> QED BY <2>1, <2>2, <2>3
<1>9. CASE UNCHANGED vars
  BY <1>9 DEF vars
<1> QED
  BY <1>1, <1>2, <1>3, <1>4, <1>6, <1>7, <1>8, <1>9, <1>10, <1>11
  DEF Next, Engine, World, Stops

(* The engine's state is well-typed, and a notification under way is about *)
(* a device.                                                               *)
THEOREM AlertTypeCorrect == Spec => []TypeOK
  BY TypeInit, TypeStep, PTL DEF Spec

-----------------------------------------------------------------------------
LEMMA InvInit == Init => IInv
<1> SUFFICES ASSUME Init PROVE IInv
  OBVIOUS
<1>1. TypeOK
  BY TypeInit
<1>2. tick.pc = "idle" /\ tick.todo = {} /\ steady.quiet = {} /\ steady.down = {}
  BY DEF Init, Idle, NothingSteady
<1> QED BY <1>1, <1>2 DEF IInv, CopiesRemember, CopiesSteady, AlarmAllowed

(* What a cycle ends with: nothing on the list, nothing steady.            *)
LEMMA IdleStep ==
  ASSUME IInv, TypeOK', tick' = Idle, steady' = NothingSteady
  PROVE  IInv'
<1>1. tick'.pc = "idle" /\ tick'.todo = {} /\ steady'.quiet = {} /\ steady'.down = {}
  BY DEF Idle, NothingSteady
<1> QED BY <1>1 DEF IInv, CopiesRemember, CopiesSteady, AlarmAllowed

(* What the rest of the world does to a row leaves alert_notified_at alone,*)
(* and what it changes is steady no more.                                  *)
LEMMA WorldStep ==
  ASSUME IInv, TypeOK', NEW d \in Devices,
         \/ StatusChange(d) \/ Age(d) \/ ServiceChange(d)
         \/ Silence(d) \/ Enable(d) \/ Delete(d)
  PROVE  /\ IInv'
         /\ UNCHANGED <<tick, storyVars, faults>>
         /\ \A e \in Devices : /\ row'[e].notified = row[e].notified
                               /\ row'[e].exists => row[e].exists
<1>0. /\ row \in [Devices -> Row] /\ steady \in Steady
      /\ CopiesRemember /\ CopiesSteady /\ AlarmAllowed
  BY DEF IInv, TypeOK
<1>1. UNCHANGED <<tick, storyVars, faults>>
  BY DEF StatusChange, Age, ServiceChange, Silence, Enable, Delete
<1>2. /\ \A e \in Devices : /\ row'[e].notified = row[e].notified
                            /\ row'[e].exists => row[e].exists
      /\ steady'.quiet \subseteq steady.quiet
      /\ steady'.down \subseteq steady.down
      /\ \A e \in steady'.quiet : row'[e].silenced = row[e].silenced
      /\ \A e \in steady'.down : /\ row'[e].exists = row[e].exists
                                /\ row'[e].offline = row[e].offline
  <2> USE DEF Row, Steady
  <2>1. CASE StatusChange(d)
    BY <1>0, <2>1 DEF StatusChange
  <2>2. CASE Age(d)
    BY <1>0, <2>2 DEF Age
  <2>3. CASE ServiceChange(d)
    BY <1>0, <2>3 DEF ServiceChange
  <2>4. CASE Silence(d)
    BY <1>0, <2>4 DEF Silence
  <2>5. CASE Enable(d)
    BY <1>0, <2>5 DEF Enable
  <2>6. CASE Delete(d)
    BY <1>0, <2>6 DEF Delete
  <2> QED BY <2>1, <2>2, <2>3, <2>4, <2>5, <2>6
<1>3. /\ tick' = tick /\ said' = said
      /\ steady.down \subseteq Devices /\ steady.quiet \subseteq Devices
  BY <1>0, <1>1 DEF storyVars, Steady
<1>5. CopiesRemember'
  BY <1>0, <1>2, <1>3 DEF CopiesRemember, Ticks, IInv, TypeOK
<1>6. CopiesSteady'
  BY <1>0, <1>2, <1>3 DEF CopiesSteady
<1>7. AlarmAllowed'
  BY <1>0, <1>2, <1>3 DEF AlarmAllowed
<1> QED BY <1>1, <1>2, <1>5, <1>6, <1>7 DEF IInv

LEMMA InvStep == IInv /\ [Next]_vars => IInv'
<1> SUFFICES ASSUME IInv, [Next]_vars PROVE IInv'
  OBVIOUS
<1>0. TypeOK /\ TypeOK'
  BY TypeStep DEF IInv
<1> USE DEF IInv
<1>1. CASE TickStart
  <2>1. /\ tick'.pc = "walk" /\ tick'.seen = row
        /\ tick'.todo = {d \in Devices : row[d].exists}
        /\ steady'.down = {d \in Devices : row[d].exists /\ row[d].offline}
        /\ steady'.quiet = {d \in Devices : row[d].silenced}
        /\ row' = row
    BY <1>1 DEF TickStart, Idle
  <2> QED BY <1>0, <2>1 DEF CopiesRemember, CopiesSteady, AlarmAllowed
<1>2. ASSUME NEW d \in Devices, TickSkip(d) PROVE IInv'
  BY <1>0, <1>2 DEF TickSkip, TypeOK, Ticks, CopiesRemember, CopiesSteady, AlarmAllowed
<1>3. ASSUME NEW d \in Devices, TickNotify(d) PROVE IInv'
  <2>1. /\ tick'.pc = "notify" /\ tick'.cur = d /\ d \in tick.todo
        /\ tick'.seen = tick.seen /\ tick'.todo = tick.todo
        /\ UNCHANGED <<row, said, steady>>
    BY <1>0, <1>3 DEF TickNotify, TypeOK, Ticks, storyVars
  <2>2. \/ tick'.kind = "recovered" /\ Recovered(tick.seen, d)
        \/ tick'.kind = "alarm" /\ Alarming(tick.seen, d)
    BY <1>0, <1>3 DEF TickNotify, TypeOK, Ticks, storyVars
  <2>3. row[d].notified <=> tick'.kind = "recovered"
    BY <2>1, <2>2 DEF CopiesRemember, Recovered, Alarming
  <2>4. CopiesRemember'
    BY <2>1, <2>3 DEF CopiesRemember
  <2>5. CopiesSteady'
    BY <2>1 DEF CopiesSteady
  <2>6. ASSUME tick'.kind = "alarm"
        PROVE  d \notin steady.quiet /\ Parent[d] \notin steady.down
    <3>1. ~Suppressed(tick.seen, d)
      BY <2>2, <2>6 DEF Alarming
    <3>2. d \notin steady.quiet
      BY <3>1 DEF Suppressed, CopiesSteady
    <3>3. Parent[d] \in steady.down => Parent[d] \in Devices /\ Parent[d] # NoParent
      BY <1>0, ParentAssumption DEF TypeOK, Steady
    <3> QED BY <3>1, <3>2, <3>3 DEF Suppressed, ParentDown, CopiesSteady
  <2>7. AlarmAllowed'
    BY <2>1, <2>6 DEF AlarmAllowed
  <2> QED BY <1>0, <2>4, <2>5, <2>7
<1>4. CASE Sent
  <2>1. /\ tick'.pc = "commit" /\ tick'.cur = tick.cur /\ tick'.kind = tick.kind
        /\ tick'.seen = tick.seen /\ tick'.todo = tick.todo
        /\ tick.pc = "notify" /\ said'[tick.cur] = tick.kind
        /\ UNCHANGED <<row, steady>>
    BY <1>0, <1>4 DEF Sent, TypeOK, Ticks
  <2> QED BY <1>0, <2>1 DEF CopiesRemember, CopiesSteady, AlarmAllowed
<1>5. CASE Commit
  <2>1. /\ tick'.pc = "walk" /\ tick'.todo = tick.todo \ {tick.cur}
        /\ tick'.seen = [tick.seen EXCEPT ![tick.cur] = row'[tick.cur]]
        /\ steady' = steady /\ tick.cur \in Devices
        /\ tick.seen \in [Devices -> Row] /\ tick.todo \subseteq Devices
    BY <1>0, <1>5 DEF Commit, Remember, TypeOK, Ticks
  <2>2. \A d \in Devices :
          /\ d # tick.cur => row'[d] = row[d] /\ tick'.seen[d] = tick.seen[d]
          /\ tick'.seen[tick.cur] = row'[tick.cur]
          /\ row'[d].silenced = row[d].silenced
          /\ row'[d].exists = row[d].exists /\ row'[d].offline = row[d].offline
    BY <1>0, <1>5, <2>1 DEF Commit, Remember, TypeOK, Row
  <2>3. CopiesRemember'
    BY <2>1, <2>2 DEF CopiesRemember
  <2>4. steady.quiet \subseteq Devices /\ steady.down \subseteq Devices
    BY <1>0 DEF TypeOK, Steady
  <2>5. CopiesSteady'
    BY <2>1, <2>2, <2>4 DEF CopiesSteady
  <2> QED BY <1>0, <2>1, <2>3, <2>5 DEF AlarmAllowed
<1>6. CASE Stops \/ RefreshFails
  <2>1. tick' = Idle /\ steady' = NothingSteady
    BY <1>6 DEF Stops, CommitStale, CommitFails, QueryFails, TickEnd, Crash, RefreshFails, CycleOver
  <2> QED BY <1>0, <2>1, IdleStep
<1>7. CASE World
  BY <1>0, <1>7, WorldStep DEF World
<1>8. CASE UNCHANGED vars
  BY <1>0, <1>8 DEF vars, CopiesRemember, CopiesSteady, AlarmAllowed
<1> QED
  BY <1>1, <1>2, <1>3, <1>4, <1>5, <1>6, <1>7, <1>8 DEF Next, Engine, Stops

(* A cycle alerts about no device that was silenced, and about no child of *)
(* a parent that was offline, all the time since the cycle loaded its      *)
(* copies.                                                                 *)
THEOREM AlarmsAreAllowed == Spec => SuppressionRespected
<1>1. IInv /\ [Next]_vars =>
        [Alerts => /\ tick.cur \notin steady.quiet
                   /\ Parent[tick.cur] \notin steady.down]_vars
  BY DEF IInv, Alerts, AlarmAllowed
<1> QED BY <1>1, InvInit, InvStep, PTL DEF Spec, SuppressionRespected

-----------------------------------------------------------------------------
LEMMA CountInit == Init => CountInv
  BY InvInit DEF Init, CountInv, Paid, Forgot, Blank, NewRow

(* A step that touches no story and no memory, and commits no notification *)
(* but to lose it, leaves paid what was paid.                              *)
LEMMA NothingNew ==
  ASSUME CountInv, TypeOK', UNCHANGED storyVars,
         \A d \in Devices : row'[d].notified = row[d].notified,
         tick.pc = "commit" => tick' = tick
  PROVE  Paid'
<1> SUFFICES ASSUME NEW d \in Devices
             PROVE  /\ repeats'[d] <= torn'[d]
                    /\ Forgot(d)' /\ ~Committing(d)' => repeats'[d] < torn'[d]
  BY DEF Paid
<1>1. /\ repeats'[d] = repeats[d] /\ torn'[d] = torn[d]
      /\ Forgot(d)' <=> Forgot(d)
  BY DEF storyVars, Forgot
<1>2. ~Committing(d)' => ~Committing(d)
  BY DEF Committing
<1> QED BY <1>1, <1>2 DEF CountInv, Paid

LEMMA CountStep == CountInv /\ [Next]_vars => CountInv'
<1> SUFFICES ASSUME CountInv, [Next]_vars PROVE Paid'
  BY InvStep DEF CountInv
<1>0. TypeOK /\ TypeOK' /\ IInv /\ Paid
  BY TypeStep DEF CountInv, IInv
<1>1. CASE TickStart
  <2>1. UNCHANGED <<row, storyVars>> /\ tick.pc = "idle"
    BY <1>1 DEF TickStart
  <2> QED BY <1>0, <2>1, NothingNew
<1>2. ASSUME NEW d \in Devices, TickSkip(d) \/ TickNotify(d) PROVE Paid'
  <2>1. UNCHANGED <<row, storyVars>> /\ tick.pc = "walk"
    BY <1>2 DEF TickSkip, TickNotify
  <2> QED BY <1>0, <2>1, NothingNew
<1>3. CASE Sent
  <2> SUFFICES ASSUME NEW d \in Devices
               PROVE  /\ repeats'[d] <= torn'[d]
                      /\ Forgot(d)' /\ ~Committing(d)' => repeats'[d] < torn'[d]
    BY DEF Paid
  <2>1. /\ tick'.pc = "commit" /\ tick'.cur = tick.cur /\ tick.pc = "notify"
        /\ said' = [said EXCEPT ![tick.cur] = tick.kind] /\ UNCHANGED <<row, torn>>
        /\ repeats' = [repeats EXCEPT ![tick.cur] =
                         IF said[tick.cur] = tick.kind THEN @ + 1 ELSE @]
        /\ tick.kind \in {"alarm", "recovered"}
    BY <1>0, <1>3 DEF Sent, TypeOK, Ticks
  <2>2. torn[d] \in Nat /\ repeats[d] \in Nat
    BY <1>0 DEF TypeOK
  <2>3. CASE d = tick.cur
    <3>1. said[d] = tick.kind => Forgot(d)
      BY <1>0, <2>1, <2>3 DEF Forgot, IInv, CopiesRemember
    <3>2. ~Committing(d) /\ Committing(d)'
      BY <2>1, <2>3 DEF Committing
    <3>3. repeats'[d] = IF said[d] = tick.kind THEN repeats[d] + 1 ELSE repeats[d]
      BY <1>0, <2>1, <2>3 DEF TypeOK
    <3> QED BY <1>0, <2>1, <2>2, <3>1, <3>2, <3>3 DEF Paid
  <2>4. CASE d # tick.cur
    <3>1. said'[d] = said[d] /\ repeats'[d] = repeats[d] /\ torn'[d] = torn[d]
      BY <1>0, <2>1, <2>4 DEF TypeOK
    <3>2. (Forgot(d)' <=> Forgot(d)) /\ ~Committing(d)
      BY <2>1, <3>1 DEF Forgot, Committing
    <3> QED BY <1>0, <3>1, <3>2 DEF Paid
  <2> QED BY <2>3, <2>4
<1>4. CASE Commit \/ RefreshFails
  <2> SUFFICES ASSUME NEW d \in Devices
               PROVE  /\ repeats'[d] <= torn'[d]
                      /\ Forgot(d)' /\ ~Committing(d)' => repeats'[d] < torn'[d]
    BY DEF Paid
  <2>1. /\ tick.pc = "commit" /\ said' = said
        /\ row' = [row EXCEPT ![tick.cur].notified = (tick.kind = "alarm")]
        /\ torn' = [torn EXCEPT ![tick.cur] = 0]
        /\ repeats' = [repeats EXCEPT ![tick.cur] = 0]
    BY <1>4 DEF Commit, RefreshFails, Remember
  <2>2. CASE d = tick.cur
    <3>1. torn'[d] = 0 /\ repeats'[d] = 0
      BY <1>0, <2>1, <2>2 DEF TypeOK
    <3>2. row'[d].notified <=> tick.kind = "alarm"
      BY <1>0, <2>1, <2>2 DEF TypeOK, Row
    <3>3. said'[d] = tick.kind
      BY <1>0, <2>1, <2>2 DEF IInv, CopiesRemember
    <3>4. ~Forgot(d)'
      BY <3>2, <3>3 DEF Forgot
    <3> QED BY <3>1, <3>4
  <2>3. CASE d # tick.cur
    <3>1. row'[d] = row[d] /\ torn'[d] = torn[d] /\ repeats'[d] = repeats[d]
      BY <1>0, <2>1, <2>3 DEF TypeOK
    <3>2. (Forgot(d)' <=> Forgot(d)) /\ ~Committing(d)
      BY <2>1, <2>3, <3>1 DEF Forgot, Committing
    <3> QED BY <1>0, <3>1, <3>2 DEF Paid
  <2> QED BY <2>2, <2>3
<1>5. CASE TickEnd
  <2>1. UNCHANGED <<row, storyVars>> /\ tick.pc = "walk"
    BY <1>5 DEF TickEnd
  <2> QED BY <1>0, <2>1, NothingNew
<1>6. CASE CommitStale \/ CommitFails \/ QueryFails \/ Crash
  <2> SUFFICES ASSUME NEW d \in Devices
               PROVE  /\ repeats'[d] <= torn'[d]
                      /\ Forgot(d)' /\ ~Committing(d)' => repeats'[d] < torn'[d]
    BY DEF Paid
  <2>1. Forgets
    BY <1>6 DEF CommitStale, CommitFails, QueryFails, Crash
  <2>2. repeats' = repeats /\ (Forgot(d)' <=> Forgot(d))
    BY <2>1 DEF Forgets, Forgot
  <2>3. torn[d] \in Nat /\ repeats[d] \in Nat
    BY <1>0 DEF TypeOK
  <2>4. torn'[d] = IF Committing(d) THEN torn[d] + 1 ELSE torn[d]
    BY <1>0, <2>1 DEF Forgets, Committing, TypeOK
  <2> QED BY <1>0, <2>2, <2>3, <2>4 DEF Paid
<1>7. CASE World
  <2>1. PICK d \in Devices : \/ StatusChange(d) \/ Age(d) \/ ServiceChange(d)
                            \/ Silence(d) \/ Enable(d) \/ Delete(d)
    BY <1>7 DEF World
  <2>2. /\ UNCHANGED <<tick, storyVars, faults>>
        /\ \A e \in Devices : row'[e].notified = row[e].notified
    BY <1>0, <2>1, WorldStep
  <2> QED BY <1>0, <2>2, NothingNew
<1>8. CASE UNCHANGED vars
  BY <1>0, <1>8, NothingNew DEF vars, storyVars
<1> QED
  BY <1>1, <1>2, <1>3, <1>4, <1>5, <1>6, <1>7, <1>8 DEF Next, Engine

(* A notification repeats the last one about its device at most once for   *)
(* each notification that a crash or a failing commit made the engine      *)
(* forget, since it last remembered one.                                   *)
THEOREM RepeatsAreBounded == Spec => []RepeatsBounded
<1>1. CountInv => RepeatsBounded
  BY DEF CountInv, Paid, RepeatsBounded
<1> QED BY <1>1, CountInit, CountStep, PTL DEF Spec

(* The engine's memory is wrong about a device only when it was told of a  *)
(* notification that got lost on the way to the database.                  *)
MemoryHolds ==
  \A d \in Devices : torn[d] = 0 /\ ~Committing(d) => (said[d] = "alarm" <=> row[d].notified)

(* So the exceptions that AlarmReported and RecoveryAnnounced make are for *)
(* what a fault has torn, and for nothing the engine does by itself.       *)
THEOREM MemoryIsTornByFaults == Spec => []MemoryHolds
<1>1. CountInv => MemoryHolds
  BY DEF CountInv, IInv, TypeOK, Paid, Forgot, MemoryHolds
<1> QED BY <1>1, CountInit, CountStep, PTL DEF Spec

-----------------------------------------------------------------------------
(* What AlarmReported and RecoveryAnnounced need of safety.  A cycle works *)
(* on copies, so what it is about to say may be older than what was said;  *)
(* once neither the list nor the notification under way is, it lasts.      *)
AlarmStands(d) ==
  /\ said[d] = "alarm" /\ InAlarm(row[d])
  /\ d \in tick.todo => InAlarm(tick.seen[d])
  /\ tick.pc = "notify" /\ tick.cur = d => tick.kind = "alarm"

RecoveryStands(d) ==
  /\ said[d] # "alarm" /\ ~InAlarm(row[d])
  /\ d \in tick.todo => ~InAlarm(tick.seen[d])
  /\ tick.pc = "notify" /\ tick.cur = d => tick.kind = "recovered"

(* The safety halves of the two: nobody is told of a recovery while the    *)
(* alarm lasts, nor of an alarm while the recovery does, whatever is muted,*)
(* disabled or deleted and wherever the collector crashes.                 *)
NewsLasts ==
  [][\A d \in Devices :
       /\ AlarmStands(d) /\ InAlarm(row[d])' => AlarmStands(d)'
       /\ RecoveryStands(d) /\ ~InAlarm(row[d])' => RecoveryStands(d)']_vars

(* What a step does to the story of one device.                            *)
LEMMA StoryStep ==
  ASSUME IInv, [Next]_vars, NEW d \in Devices
  PROVE  \/ \* what is said, listed and being sent about d stays, or less of it
            /\ said'[d] = said[d]
            /\ d \in tick'.todo => d \in tick.todo /\ tick'.seen[d] = tick.seen[d]
            /\ tick'.pc = "notify" /\ tick'.cur = d =>
                 /\ tick.pc = "notify" /\ tick.cur = d
                 /\ tick'.kind = tick.kind
         \/ \* a new list
            /\ said'[d] = said[d] /\ row' = row
            /\ tick'.pc = "walk" /\ tick'.seen[d] = row[d]
         \/ \* a notification about d begins
            /\ said'[d] = said[d] /\ row' = row /\ tick'.seen = tick.seen
            /\ d \in tick.todo
            /\ IF InAlarm(tick.seen[d]) THEN tick'.kind = "alarm"
                                        ELSE tick'.kind = "recovered"
         \/ \* a notification about d goes out
            /\ tick.pc = "notify" /\ tick.cur = d /\ said'[d] = tick.kind
            /\ tick'.pc = "commit" /\ tick'.seen = tick.seen
            /\ tick'.todo = tick.todo
<1> USE DEF IInv, TypeOK, Ticks, storyVars
<1>1. CASE TickStart
  <2>1. tick'.pc = "walk" /\ tick'.seen = row /\ row' = row /\ said' = said
    BY <1>1 DEF TickStart, Idle
  <2> QED BY <2>1
<1>2. ASSUME NEW e \in Devices, TickSkip(e)
      PROVE  /\ said' = said /\ tick'.todo \subseteq tick.todo
             /\ tick'.seen = tick.seen /\ tick'.pc = "walk"
  BY <1>2 DEF TickSkip
<1>3. ASSUME NEW e \in Devices, TickNotify(e)
      PROVE  /\ said' = said /\ row' = row /\ tick'.seen = tick.seen
             /\ tick'.todo = tick.todo /\ tick'.cur = e /\ e \in tick.todo
             /\ IF InAlarm(tick.seen[e]) THEN tick'.kind = "alarm"
                                         ELSE tick'.kind = "recovered"
  BY <1>3 DEF TickNotify, Recovered, Alarming
<1>4. CASE Sent
  <2>1. /\ tick.pc = "notify" /\ said' = [said EXCEPT ![tick.cur] = tick.kind]
        /\ tick'.pc = "commit" /\ tick'.seen = tick.seen
        /\ tick'.todo = tick.todo /\ tick.cur \in Devices
    BY <1>4 DEF Sent
  <2>2. CASE tick.cur = d
    BY <2>1, <2>2
  <2>3. CASE tick.cur # d
    BY <2>1, <2>3
  <2> QED BY <2>2, <2>3
<1>5. CASE Commit
  <2>1. /\ said' = said /\ tick'.pc = "walk" /\ tick'.todo = tick.todo \ {tick.cur}
        /\ tick'.seen = [tick.seen EXCEPT ![tick.cur] = row'[tick.cur]]
    BY <1>5 DEF Commit, Remember
  <2>2. d # tick.cur => tick'.seen[d] = tick.seen[d]
    BY <2>1
  <2> QED BY <2>1, <2>2
<1>6. CASE Stops \/ RefreshFails
  <2>1. said' = said /\ tick' = Idle
    BY <1>6 DEF Stops, CommitStale, CommitFails, QueryFails, TickEnd, Crash, RefreshFails, CycleOver,
                Forgets, Remember, storyVars
  <2>2. tick'.todo = {} /\ tick'.pc = "idle"
    BY <2>1 DEF Idle
  <2> QED BY <2>1, <2>2
<1>7. CASE World \/ UNCHANGED vars
  <2>1. UNCHANGED <<tick, said>>
    BY <1>7, WorldStep, TypeStep DEF World, vars, storyVars
  <2> QED BY <2>1
<1> QED
  BY <1>1, <1>2, <1>3, <1>4, <1>5, <1>6, <1>7 DEF Next, Engine, Stops

(* A cycle that still carries the opposite is the only way to take news    *)
(* back, for any topology, any operations and any number of faults.        *)
THEOREM NewsStands == Spec => NewsLasts
<1>1. ASSUME IInv, [Next]_vars, NEW d \in Devices
      PROVE  /\ AlarmStands(d) /\ InAlarm(row[d])' => AlarmStands(d)'
             /\ RecoveryStands(d) /\ ~InAlarm(row[d])' => RecoveryStands(d)'
  <2>1. ASSUME AlarmStands(d), InAlarm(row[d])' PROVE AlarmStands(d)'
    BY <1>1, <2>1, StoryStep DEF AlarmStands, InAlarm
  <2>2. ASSUME RecoveryStands(d), ~InAlarm(row[d])' PROVE RecoveryStands(d)'
    BY <1>1, <2>2, StoryStep DEF RecoveryStands, InAlarm
  <2> QED BY <2>1, <2>2
<1>2. IInv /\ [Next]_vars =>
        [\A d \in Devices :
           /\ AlarmStands(d) /\ InAlarm(row[d])' => AlarmStands(d)'
           /\ RecoveryStands(d) /\ ~InAlarm(row[d])' => RecoveryStands(d)']_vars
  BY <1>1
<1> QED BY <1>2, InvInit, InvStep, PTL DEF Spec, NewsLasts

-----------------------------------------------------------------------------
(* Suppression by parents must not silence a whole outage: among the       *)
(* devices a cycle finds offline, one has a parent that is not.            *)
SomeoneIsHeard(seen) ==
  (\E d \in Devices : seen[d].exists /\ seen[d].offline)
    => \E d \in Devices : /\ seen[d].exists /\ seen[d].offline
                          /\ ~ParentDown(seen, d)

(* No devices are each other's parents all around (Acyclic of module       *)
(* DependencyGraph): every group of devices has a member whose parent is   *)
(* not in it.                                                              *)
NoRings ==
  \A group \in SUBSET Devices :
    group # {} => \E d \in group : Parent[d] \notin group

(* That is so in every situation exactly when no devices hang below one    *)
(* another in a ring, which is what _validate_parent of devices.py is      *)
(* there for: the alert engine has no guard of its own.                    *)
THEOREM HeardUnlessRings ==
  NoRings <=> \A seen \in [Devices -> Row] : SomeoneIsHeard(seen)
<1>1. ASSUME NoRings, NEW seen \in [Devices -> Row],
             \E d \in Devices : seen[d].exists /\ seen[d].offline
      PROVE  \E d \in Devices : /\ seen[d].exists /\ seen[d].offline
                                /\ ~ParentDown(seen, d)
  <2> DEFINE down == {d \in Devices : seen[d].exists /\ seen[d].offline}
  <2>1. down # {} /\ down \in SUBSET Devices
    BY <1>1
  <2>2. PICK d \in down : Parent[d] \notin down
    BY <1>1, <2>1 DEF NoRings
  <2>3. ~ParentDown(seen, d)
    BY <2>2 DEF ParentDown
  <2> QED BY <2>2, <2>3
<1>2. ASSUME NEW ring \in SUBSET Devices, ring # {},
             \A d \in ring : Parent[d] \in ring
      PROVE  \E seen \in [Devices -> Row] : ~SomeoneIsHeard(seen)
  <2> DEFINE lost == [NewRow EXCEPT !.offline = TRUE]
             seen == [d \in Devices |-> IF d \in ring THEN lost ELSE NewRow]
  <2>1. /\ lost \in Row /\ lost.exists /\ lost.offline
        /\ NewRow \in Row /\ NewRow.exists /\ ~NewRow.offline
    BY DEF NewRow, Row
  <2> HIDE DEF lost
  <2>2. seen \in [Devices -> Row]
    BY <2>1
  <2>3. \A d \in Devices : seen[d].exists /\ (seen[d].offline <=> d \in ring)
    BY <2>1
  <2> HIDE DEF seen
  <2>4. \A d \in ring : Parent[d] \in Devices /\ Parent[d] # NoParent
    BY <1>2, ParentAssumption
  <2>5. \A d \in ring : ParentDown(seen, d)
    BY <1>2, <2>3, <2>4 DEF ParentDown
  <2>6. ~SomeoneIsHeard(seen)
    BY <1>2, <2>3, <2>5 DEF SomeoneIsHeard
  <2> QED BY <2>2, <2>6
<1> QED BY <1>1, <1>2 DEF NoRings, SomeoneIsHeard

=============================================================================
