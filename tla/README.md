# A model of the network device monitor

TLA+ modules, TLC configurations and TLAPS proofs about the network device
monitoring system in this repository: a FastAPI service with a PostgreSQL
database, a Redis snapshot of the device list, a collector process that probes
the devices, and a browser dashboard.

    tlc -workers 2 -config status_monitor.cfg MCStatus     # any run below
    tlapm StatusMachineProofs.tla                          # any *Proofs module

`PROJECT.json` lists the runs, which definition models which lines of the
source, the faults each property is tested with, the hazards the properties are
aimed at, the findings and the theorems.

## The system

Three kinds of process share PostgreSQL and Redis, with no lock between them.

| process | what it runs |
|---|---|
| API gateway (any number) | request handlers (`app/api/routes`), a Redis subscriber that fans changes out to its WebSockets, the web shell bridge |
| collector (one) | seven loops on one event loop: ping scheduler, SSH poll, SNMP poll, trap and syslog listeners, alert engine, discovery |
| dashboards | a query cache that is filled by refetches and patched by WebSocket frames |

Outside stand the watchdog (`tools/watchdog.py`), which polls `/healthz`, and
the backup script (`ops/`).

### Inventory

State, operations, hard behaviour, and what makes each component correct.

| component | state | operations | hard behaviour | correct when | here |
|---|---|---|---|---|---|
| Status machine, `ping_scheduler._check_one` | `devices.current_status`, `consecutive_failures`, `service_ok`, `alarm_acked_at`; `ping_history`; `event_logs` | read config, probe, load again, commit; simulate, ack, update, delete | handlers commit between the load and the commit of a check; lost checks; deletion | the samples alone decide the status; counter, history and log agree | `StatusMachine` |
| Probe scheduler, `ping_loop` | `_schedule`, `_volatile_until`, `_sem`, heartbeat key | refresh, run due checks, reschedule, stamp | slow checks hold the round; failing cycles; restarts forget the schedule | every enabled device is checked in time, the heartbeat tells the truth | `Scheduler` |
| Alert engine, `_alert_tick` | `alert_notified_at` | load all, decide, notify, commit | copies grow old while channels work; the commit after a notification fails, or the collector stops before it; deletion aborts a cycle | one alarm and one recovery per outage as long as what was sent is remembered, none for what is silenced or below a dead parent | `AlertEngine` |
| Snapshot cache, `state_cache` | `devices:full`, schema stamp | upsert, remove, warm, read | commit and HSET are apart; warm-ups replace the hash; Redis fails or forgets | what is served is what is in the database | `SnapshotCache` |
| Dependencies, `_validate_parent` | `devices.parent_id` | create, update, delete | the walk takes many transactions | no cycle | `DependencyGraph` |
| Fan-out, `ws_manager` | `pending`, sockets | publish, coalesce, flush, reconnect | pub/sub keeps nothing; latest wins; gateways restart | a dashboard that refetches ends with the newest status | `Fanout` |
| Dashboard client | query cache, `lastStatusRef` | frames, refetches, toasts | frame and refetch overtake each other | the list matches the server in the end | `Fanout`, without toasts |
| Listeners (syslog, traps) | buffer, `dropped`, `_alerted_at` | receive, flush, alert | hard cap, failing commits, cooldown eviction | nothing is lost uncounted, no host alerts twice in a cooldown | `Listener` |
| Discovery | `discovered_devices` | sweep, approve, ignore, forget | a sweep lasts minutes; two sweeps at once | no monitored address is proposed, ignored stays ignored, what answers is proposed | `Discovery` |
| Login guard | `_failures`, `_alerted_at` | test, register, clear | awaits between test and count; sliding window | failures in a window are bounded, no block is silent, blocks end | `LoginGuard` |
| Users and roles | users, roles, permissions | CRUD with guards against self lock-out, seed | two managers at once; the seed at every start | there is always an active manager; a role grants what was asked for | `Accounts` |
| Web shell | SSH session, two pumps | open, start the process, pump, end | every way to end it, records that fail | once it is a session it ends with either far end, and tells the audit log of both its ends | `WebShell` |
| SNMP rates | previous counters | poll, peek | wrap, reset, failed walks, overlapping polls | a rate is the traffic between two readings | `CounterRates` |
| SNMP and SSH checks | `snmp_*`, `ssh_*` of `devices` | check, update, delete | checks that overlap each other and updates | the status is that of the newest check | `DeviceChecks` |
| SNMP explorer | one report | walk table by table | tables that raise or are empty, fall-backs, a device that falls silent inside a category | a category is there exactly if the device has it and still told it | `Explorer` |
| Watchdog | `consecutive`, `alarmed` | poll, alarm, resolve | answers on their way, slow channels, restarts | an outage of the monitor is alarmed about in time | `Watchdog` |
| Degraded-link check, `_loss_tick` | `_loss_notified_at` | load, notify, commit | a failed commit ends the cycle; cooldown in memory | a lossy link is noticed in time, even when nothing can be committed | `LossCheck` |
| Backup | dump files | dump, rotate | crash in the middle | `.dump` files are complete, N are kept | not modelled |
| Audit log, queries, links, crypto, configuration, migrations, lab, pages | | | | | not modelled |

### How the components interact

    hosts --probe--> StatusMachine --rows, events--> AlertEngine --> channels
                       ^      |                         ^
      Scheduler--when--+      +--> SnapshotCache        |parent offline
          |                          |  ^               |
          +--> heartbeat             |  +-- API --> DependencyGraph
                 |                   v
                 |               Fanout --> dashboards
                 +--> healthz --> Watchdog --> channels

    hosts --datagrams--> Listener --> log tables, channels
    hosts --SNMP, SSH--> DeviceChecks, CounterRates --> rows, history
    subnets --ping--> Discovery --proposals--> decisions --> devices
    browsers --> LoginGuard, Accounts (who may), WebShell --> devices

The modules are cut where the code has its transactions. A component that only
reads what another one writes gets that other one as an environment that may do
more than the real one: the checks of `StatusMachine` appear in `AlertEngine` as
status changes at any time, in `Scheduler` as durations, and in `SnapshotCache`
as commits. What holds there holds for the real neighbour.

## Modules

### StatusMachine, StatusPromise

One device. `CheckStart`, `ProbeDone`, `CheckCommit` are the three phases of
`_check_one`, `CheckSkip`, `CheckStale` and `CheckLost` its early returns and
failures. A check and a request carry the row they loaded (`seen`), and `Flush`
is what SQLAlchemy's unit of work does on commit: it writes the columns that
differ from the loaded copy, and leaves the rest as others committed it. The
sample, the event and the row commit together. `misses` stands for
`ping_history`, as the length of its run of failures; `lastEvent` for
`event_logs`, as the event committed last (its `created_at` is the database's
time of the insert, taken to follow the order of the commits).

`StatusPromise` is the specification of what monitoring promises: the status is
a function of the samples. `ImplementsPromise` is the refinement.

### AlertEngine

One cycle is `TickStart` (all rows are loaded at once), then for each device in
any order `TickSkip`, or `TickNotify`, `Sent`, `Commit`. `alert_loop` catches
whatever a cycle raises and goes on with the next one, and so every failure is a
way for the cycle to end early: `CommitStale` (the device has been deleted),
`CommitFails` (the row is there and the commit fails: the message is out and
nothing is remembered), `RefreshFails` (remembered, but the refresh or the
snapshot after it fails), `QueryFails` (the date of an outage cannot be read),
`Crash` (the collector stops anywhere). `tick.seen` are the copies: they are never
read again, but the outage's date is. `said` is the last message that went out
about a device, whatever its channels made of it: `send_alert` swallows their
failures and the engine takes the notification for done. `torn` counts the
messages about a device that nothing remembers.

### SnapshotCache

Rows are versions. A writer commits (`Create`, `Write`), reads the row back
(`Refresh`) and puts it into the hash (`Upsert`); a deleter commits and removes;
a reader of a cold snapshot (`ReadCold`), or one whose read of Redis failed
(`ReadFails`), loads all rows (`LoadAll`) and replaces the hash and its stamp in
one transaction (`Warm`). `SilentWrite` is a check that clears an
acknowledgement without a change of status and tells Redis nothing. Any step of
any process may come between.

### DependencyGraph

A request carries the locals of `_validate_parent`. `Climb` is one round of its
loop (one SELECT), `Refuse` and `Accept` its exits, `Commit` and
`CommitNothing` what becomes of the transaction. `solo` is an observer: no link
has been committed by anybody else since the request began.

### Scheduler

`RoundStart` (`_refresh_schedule`, due set), `CheckStart` (a slot of the
semaphore), `CheckEnd`, `RoundEnd` (the `gather` is over, next dates), `Stamp`
(heartbeat), `CycleFails` (the `except`), `Restart`, `TimePasses` (a second
passes while the loop sleeps or while no check can start).

### Accounts, LoginGuard, WebShell, composed in Access

`Accounts` is the admin panel. A request is `Authorize` (the dependency that
loads the author with his role), `Load` (the handler reads, its early returns
are `Passes`) and `Commit` or `CommitFails`; what it writes is the difference
from what it loaded (`Writes`, `GrantsAfter`, `AccountAfter`), and foreign keys
and primary keys may refuse it (`Accepted`). `seed.py`, which runs at every start,
is `SeedLoad` (what the built-in roles lack, and whether the first account is
there), then `SeedCommit` or `SeedFails`; requests come in between. `asked`, `raced` and `disarmed` are observers.

`LoginGuard` is the memory of `login_guard` about one source address, with ages
instead of times: `Admit` or `Refuse` (first test), then after the database has
been asked `Succeed`, or `Fail` and, after the audit record, `Count`.

`WebShell` is one handler per shell: `Open`, `RecordOpen`, `FirstFrame`,
`Connect`, then `StartPumps` or `NoProcess` (the await of the process, which has
no timeout and during which nobody listens to the browser), both pumps with their
ends (`PumpIn`, `PumpOut`, `PumpBreaks`), `Unbridge`, the end of the wait on the
first of them, and `RecordClose`. A record is told (`told`) and may not be kept
(`kept`), since `record_audit_safe` swallows a write that fails. A shell is opened by a user who holds the
permission at that moment; `Accounts` decides who that is.

`Access` puts them in one state space: what a shell needs of the accounts it
reads there. A behaviour has a *crowd*, the actors that run in it: two admin
requests, a request and the seed, a request and a shell, or two logins.

### Loops: the other tasks of the collector and the gateway

Eight modules without a specification of their own, composed in `Loops` as
parts that share the life of their process: a restart empties the memory of all
of them (`ListenerRestart`, `RatesRestart`, ...), except of the watchdog, which
runs elsewhere. Here the crowd names the part, and which of its actors may
overlap; no two parts share data, so no run needs two of them.

* `Listener` is both receivers, whose buffer, flush, cooldown and loop are the
  same code: `Receive`, then along the loop `WakeUp`, `MapLoaded` or `MapFails`,
  `Cut`, `Stored` or `CommitFails`, `NextRow` and `Delivered` for each row,
  `AlertsDone`, `LoopDone`. How a datagram gets its severity differs
  (`ParsedSyslog`, `ParsedTrap`).
* `Discovery` is a sweep in its phases (`SweepStart`, `Probe`, `ReadPending`,
  `SweepCommit`), the decisions about proposals (`GetRow`, then `Approve`,
  `Ignore`, `Forget`), and the inventory they compete with. Rows have identity:
  who holds a row that was deleted and inserted anew holds nothing.
* `CounterRates` is one interface: `PollStart`, `OutReturns`, `Complete`,
  `Narrow` (32-bit fall-back) and `Rate`, for checks and peeks, with counters
  that wrap and devices that reboot.
* `DeviceChecks` is `collect_device` of both collectors: `Begin`, `Poll`,
  `LoadRow`, `Write`, with the columns the unit of work really writes.
* `LossCheck` is `_loss_tick`: `LossBegin` (or `LossUnread`), then for each copy
  `LossSkip`, or `LossNotify`, `LossSent` and `LossCommitted` or
  `LossCommitFails`, which ends the cycle; `overdue` observes how long a device
  has been due. `LossTick` lets time pass while the loop sends or sleeps, up to
  the longest cycle.
* `Explorer` is `inventory_device`, a step for each walk: `RowsRead` goes on in
  the same source, `NothingRead` (no rows, or an error that `_safe_walk` keeps)
  to the next one, `Raised` is an error that `cat` stops at the category. Which
  tables a category is read from is data (`Sources`). The device may fall silent
  between any two walks.
* `Fanout` is a status change from the snapshot over pub/sub, subscriber,
  flusher and sockets to the lists of the browsers, and their refetches, which
  are answered or not.
* `Watchdog` is `main` with `check` and `alert` as time they take, `healthz` as
  the moment it answers, and a monitor that comes and goes.

### Names

Definitions keep the names of the code where they can. A definition that starts
with `Fault_` is a mistake somebody could make in the definition that follows
it; no specification uses it. Each property is tested with one: with the mistake
in place of the definition, TLC finds the property violated.

## Runs

| run | instance | states | shows |
|---|---|---|---|
| `status_monitor` | threshold 2, 3 failures, 2 requests that ack, enable, disable or delete, 1 lost check | 1.0M | counter, history, log and status agree; warning before alarm; nothing is written after a deletion; the promise is kept |
| `status_live` | 1 request at a time that simulates, acks, watches or unwatches, 2 failures | 410k | a lasting outage or recovery is noticed; the ack goes; no orphan service alarm |
| `status_ack_race` | ack only | violation | an ack inside the window survives the recovery |
| `alerts_chain` | parent and child, all operations, 1 fault | 935k | a message repeats only where one was not remembered; suppression respected; a lasting alarm is reported, a lasting recovery announced, unless the message before was not remembered |
| `alerts_forgotten` | parent and child, outages, services, deletions, 1 fault | violation | a failed commit after a recovery notice, and the next outage is never alarmed |
| `cache_overlap` | parent and child, 2 processes, 3 versions, 2 faults | 408k | entries go wrong only by overlap or failure; one undisturbed operation repairs; the snapshot comes back |
| `graph_overlap` | 3 devices, 2 requests | 390k | cycles need an overlap; refusals have a reason; walks end |
| `graph_cycle` | 2 devices, 2 requests | violation | the race that closes a cycle |
| `scheduler_rounds` | 2 devices on 1 slot, intervals 6 and 2, window 7, 3 failed cycles, 1 restart | 792k | age of the heartbeat; a fresh heartbeat vouches for the checks; fast cadence |
| `access_crowds` | 2 users, 3 roles, 2 permissions, 2 commits; 2 requests, or 1 and the seed, or 1 and a shell, or 2 logins | 941k | lock-outs have a cause; roles grant what was asked; the guard bounds failures and lets go; shells end |
| `loops_crowds` | two of everything that may overlap, one part at a time | 406k | no message unaccounted for; alarms paced; drops reported; proposals explained, ignored stays, what answers is proposed; rates true; status newest; inventory complete; dashboards that refetch converge; an outage of the monitor is alarmed about in time, and a lossy link noticed |
| `discovery_doubled` | the loop's sweep alone, two subnets of which one contains the other | violation | an address in two subnets makes every sweep fail |

Why the bounds are enough.

* *Status*: devices are independent; a threshold of 2 is the smallest with a
  warning state; 3 failures reach beyond it; each race needs one request in the
  window of one check, the failed commit of a request needs a second one that
  deletes (and the safety properties are proved for any number).
* *Alerts*: a parent and a child are all that suppression looks at; a fault
  (`MaxFaults`) is a failed commit, refresh or query or a stop of the collector,
  and the history of one repeats. Deletions end cycles without being counted.
* *Cache*: every pair of operations meets on the same device and on its parent.
* *Graph*: three devices have chains of two links and cycles of two and three;
  the general case is proved.
* *Scheduler*: two devices on one slot make a device wait for a whole check of
  another; the interval exceeds a round and the fast interval; the window
  exceeds the interval so that a volatile device is seen fast and slow again.
* *Access* (`MaxCommits` 2): each race is of two requests, one commit in the
  other's window, and both commits count; two users can lock each other out;
  the roles are the manager's, a built-in one that the seed restores and a
  custom one; a guard of 2 failures in 3 seconds with 2 attempts overshoots its
  limit by one. What the requests find is proved for any number of them.
* *Loops*: 4 datagrams (`MaxReceived`) overflow a buffer of 3 while a chunk of 2
  is out; two hosts with one place in the cooldown map evict each other; two
  addresses, two sweeps or a sweep and a decider; counters wrap at 4 and 2 so
  that polls meet zero, one and several wraps (`MaxOctets` 1 is between two
  steps, not in all); one message on its way to the gateway (`MaxInbox`);
  a sweep may be cut short once (`MaxRestarts`: with restarts for ever no sweep
  would end); the watchdog counts to 3 with all durations above zero, and the
  delay it is allowed is exact: one unit less and TLC finds it exceeded. So is
  the delay of the notice about a lossy link, with two devices and a cooldown of
  3 that just outlasts their cycles of 2; with a cooldown of 2 one device can
  starve the other.

`graph_overlap` and `graph_cycle` switch deadlock checking off because every id
may have been created and deleted; `access_crowds`, `loops_crowds` and
`discovery_doubled` because the commits are used up, the datagrams received, the
only report written or the crowd's shells ended. The others never stop.

### Fairness

* `StatusMachine`: the scheduler comes back to every enabled device
  (`UnsettledIsChecked`, `HeartbeatHonest` in `Scheduler`), a probe has a
  timeout, and a commit returns. Requests, hosts and lost checks owe nothing.
* `AlertEngine`: `alert_loop` catches every exception and comes back; each
  channel has a timeout; time passes. Failures owe nothing, and only so many
  happen.
* `SnapshotCache`: what a process has begun goes on (or fails), and dashboards
  poll, so a cold snapshot gets read. No writer has to write.
* `DependencyGraph`: a handler that has begun goes on. Nobody has to begin one.
* `Scheduler` has safety properties only; its bounds are in seconds, and what
  stands in for fairness is that no check exceeds `MaxCheck`.
* `Access`: time passes, and a shell's handler goes on once it has something to
  react to. Nobody has to log in, type, or hang up. In particular the device does
  not owe the process: `ShellEnds` begins with the pumps, or with a connection that
  the device closes. A browser that leaves while the process is awaited is noticed
  only then.
* `Loops`: the receiver's loop goes on, since each of its awaits returns or
  raises; the map of devices is loaded again and again if it is tried again and
  again (strong: a single failure proves nothing, and with a database that fails
  for ever nothing can be reported); the discovery loop sweeps. The gateway and
  the dashboards owe nothing. That refetches are answered again and again is the
  condition of `NewestShown` and not an assumption, because the code does not
  see to it: `refetchInterval` (`Dashboard.tsx:73`) counts 30 seconds from the
  last time the list was touched, every frame touches it, frames about other
  devices too (`setQueryData`, `Dashboard.tsx:147`), and the timer rests while
  the tab is hidden. The watchdog has a
  bound in time units instead, each call being cut off by its timeout, and so has
  the degraded-link check, whose loop comes back after every exception.

## Proofs

`StatusMachineProofs`, for every threshold, request set and bound:

* `TypeCorrect`, `DeletionIsFinal` hold unconditionally.
* `CounterCorrect` and its consequences (`StatusFollowsCounter`,
  `CounterFollowsHistory`, `LogFollowsStatus`, `WarningComesFirst`) assume
  `NoSimulation`: nobody forces a status. The three properties alone are not
  inductive, because a check commits what it computed from an older copy. The
  missing part is `SeenIsCurrent`: between the load and the commit of a check
  nobody else writes status or counter, so its copy of these two columns is
  still the truth. `CounterInv` conjoins the two with the type invariant and
  `OnlyChecksJudge`. Without the
  assumption a simulate request inside a check's window takes the warning step
  away.
* `OverlapNeededToDrift` and `OneCheckRepairs` need no such assumption: also
  while statuses are simulated, status, counter and event agree until a
  judgement is committed that another one has overtaken, and the first check
  that nothing overtakes sets status and counter right again.
* `VerdictsStand`: once the check under way no longer carries what was true
  before, no step takes an outage, a recovery or the end of a service alarm
  back while its cause lasts.
* `OnlyTheRaceKeepsAck`: how little `AckClearedOnRecovery` is missed by. An
  acknowledgement outlives its outage only if it was committed between the load
  and the commit of the recovering check.
* `StatusImplementsPromise`: each step of the machine is a `Success`, `Failure`
  or `Delete` of `StatusPromise`, or a stutter.

`DependencyGraphProofs`, for every set of devices and requests:

* `OverlapNeeded`, `RefusalsAreJustified`, and `SequentialRequestsStayAcyclic`
  (one request at a time never closes a cycle, whatever is deleted meanwhile).
  The argument: `WalkInv` says that while a walk is undisturbed, the devices it
  has seen form a chain from the new parent to the current device that avoids
  the device being updated, except where deletions have cut it. When it is
  accepted, the chain ends at a root or in itself. `LinkKeepsAcyclic` is the
  step about graphs: a group closed under the new links must meet the chain,
  and its part within the chain was closed under the old links already.
  "Acyclic" is stated as "no set of devices has all its parents within itself",
  so no recursion over paths is needed, and the proof needs no induction.
* `GraphTypeCorrect`, and `WalksAreBounded`, which assumes that the set of
  devices is finite: the steps a handler has left (`Rank`, two more than the
  devices its walk has not seen) fall with each of its own steps and never rise
  by anybody else's.

`AlertProofs`, for every topology, set of operations and number of faults:

* `AlertTypeCorrect`; `RepeatsAreBounded`: for each device, the repeats so far,
  and one more if what was said and what is remembered differ, are no more than
  the messages that were not remembered (`CountInv`). It needs that the copies of a
  cycle agree with the rows on `alert_notified_at`, which only the engine writes.
* `MemoryIsTornByFaults`: between cycles, and where nothing was torn, the row
  remembers exactly what was said last. This is what `OncePerOutage` needs and
  a failed commit takes away.
* `AlarmsAreAllowed`: what has held without a break since the cycle loaded its
  copies is in the copies too.
* `NewsStands`: what was said about a device is taken back only by a cycle whose
  copies still say the opposite (`StoryStep` lists what a step can do to the
  story of one device).
* `HeardUnlessRings`: whatever goes offline, some device is left whose alarm its
  parent does not suppress, exactly when no devices hang below one another in a
  ring. This is the link to `DependencyGraph`, whose `Acyclic` is this condition.

`CacheProofs`, for any number of processes and devices: `CacheTypeCorrect`
(only the deletion of a parent takes a row past the bound, once: `Bounded`), and
`ServedIsExact`: an operation that nothing has overlapped holds a copy that is
still the row's, so what it writes into the snapshot is exact.
`SnapshotEmptyForAReason`: a stamped snapshot is empty only while all devices are
being worked on or were disturbed. `SequentialCacheIsExact` says what it would
take for the snapshot to be the database whenever nobody works: one operation at
a time (`OneAtATime`), no write that Redis is not told of, the change of children
by the deletion of their parent included (`EveryWriteTells`), and no fault
(`RedisHolds`). The code guarantees none of them, and TLC finds a wrong entry when
any one is dropped.

`AccessProofs`, for any users, roles, shells and number of requests or attempts at
a time: `AccessTypeCorrect`, `LockoutsHaveACause` and `RolesGrantWhatWasAsked`. `Undisturbed` says what a
request that nothing has overtaken may rely on: its author still holds the role
and the permissions it loaded, and what it is about is as loaded; `KeysHeld`,
which of its rows can be gone when it commits; `Guarded`, which orders got past
the early returns. About the guard, for a finite set of attempts
(`FailuresAreBounded`, `RefusalsDoNotProlong`): `GuardInv` says that the failures
that count and the attempts let in are together below the limit plus the attempts
there can be at once. The failures inside the window are a
filtered sequence, whose definition is recursive; `FirstFresh` says the same by
the place where the window begins, which a proof can reason about.
`ShellsLeaveRecords`: `ShellsInv` relates what a shell has told the audit trail to
how far it is, and what is kept to what was told. A record may be missing; none is
of an end that was not.

`SchedulerProofs`, for any number of devices and slots and any intervals:
`ScheduleTypeCorrect`, `HeartbeatIsFresh`, `HeartbeatIsHonest` and
`UnsettledAreChecked`. All rest on how long a round can take, which is a fact
about checks of any length following each other on the slots in any order.
`Progress` states it without an induction over schedules: no slot is free while
a check waits, so within the first `k` longest checks each slot has taken up
`k + 1` checks, or all checks have begun. This is stated for every `k` and is
inductive as it stands: when the clock passes `k` longest checks, the checks of
the longest check before are over, and those that run now are others
(`EarlyAreOver`). `BeatBounded` and `OnTime` add the age of the heartbeat and of
the last check of each device to the time the round has lasted.

About the parts of `Loops`, whose other parts are shown to leave a part's
variables alone:

* `ListenerProofs`: `MessagesAccounted`, for any cap, chunk and number of hosts;
  `AlarmsArePaced`. For the second, `PaceInv`: an entry in the map is at
  least as old as the host's last alarm and at most `MaxLag` older, and the lag
  of a chunk is *earned*: every `MaxSend` of it belongs to an alarm for another
  host, which is why it never exceeds `MaxLag`.
  `DegradedIsNoticedInTime`, for any number of devices. `LossInv` says that of
  the cycles a due device has waited for, the last `k` have begun the cooldowns
  of `k` others (`TurnsTaken`, for every `k`): each of them noticed a device that
  was not on cooldown before it failed. There are not as many others as that.
  `ReceiverTypes` and `LossTypes` are the types of both.
* `PollProofs`, which extends it: `ProposalsAreExplained` (what a sweep under way will propose, and
  what a decision under way holds, has to be part of the invariant) and
  `IgnoredStaysIgnored`; `RatesAreTrue` (the sample in a store is the newest reading of
  its kind; the rest is arithmetic modulo the width), `StatusIsTheNewest`,
  `InventoryIsComplete` (`Position`: of the source being read all tables so far have
  rows, and no source before it was complete; each category gathered is settled) and
  `AlarmComesInTime`: the time without monitoring is at most what each place in
  the loop has cost since, one interval and timeout for each bad answer counted.
  `DashboardsStayCurrent`: what is under way is under way to somebody
  (`FanoutTyped`), so once all of it is the newest status (`Carried`), no frame,
  refetch or reload brings an older one back.
  `OverlappingNetsBlockSweeps`: a row of an address in two subnets could only come
  from a sweep, and none that wants to insert it commits (`NoDoubledRow`); hence
  every sweep that hears from one is lost as a whole. `LoneSweepsDeliver`: any
  other sweep that no decision and no other sweep crosses (`Alone`) puts exactly
  what it heard on the list. `LoopsTypeCorrect`: `TypeOK` of `Loops`, from the
  types of its parts.

Everything rests on the named assumptions of the modules (`ThresholdAssumption`
and so on), which TLC evaluates on its instances.

No safety property of a run is left to TLC alone. Model-checked only are the
liveness properties, since the prover does not reason about `ENABLED`. What can
be proved about them is what a step may not do:

| liveness, by TLC | its safety half, proved |
|---|---|
| `OutageDetected`, `RecoveryDetected`, `NoOrphanServiceAlarm` | `VerdictsStand` |
| `AlarmReported`, `RecoveryAnnounced` | `NewsStands`, `MemoryIsTornByFaults` |
| `SnapshotComesBack` | `SnapshotEmptyForAReason` |
| `WalkEnds` | `WalksAreBounded` |
| `BlockDrains` | `RefusalsDoNotProlong` |
| `ShellEnds` | `ShellsLeaveRecords` |
| `DropsReported` | `MessagesAccounted` |
| `AliveProposed` (violated by overlapping subnets) | `LoneSweepsDeliver`, `OverlappingNetsBlockSweeps` |
| `NewestShown` | `DashboardsStayCurrent` |

Facts about recursive definitions for all inputs are out of the prover's reach;
the modules avoid recursion.

## Findings

Each violation run is a disagreement between the code and what a comment or
document of the repository says; `PROJECT.json` quotes the line.

1. An acknowledgement between the load and the commit of the check that sees
   the recovery survives the recovery (`status_ack_race`). It takes exactly
   that: `OnlyTheRaceKeepsAck`.
2. Two requests close a dependency cycle (`graph_cycle`). They have to overlap:
   `OverlapNeeded`.
3. When the commit that should remember a notification fails, the notification
   is out and the row says the opposite. `alert_loop` goes on, and if the status
   changes before the next cycle, the next outage is never alarmed, or the
   recovery never announced (`alerts_forgotten`). Where nothing was torn, memory
   and messages agree: `MemoryIsTornByFaults`.
4. An address in two configured subnets makes every sweep fail
   (`discovery_doubled`), as soon as that address answers:
   `OverlappingNetsBlockSweeps`.

Observed while modelling, allowed by the models, and without a run of their own:

* a simulate request between load and commit of a check takes the warning step
  away (`NoSimulation` is the assumption that excludes it);
* the next successful ping clears the acknowledgement of a service alarm;
* a device that is muted during a cycle may still be alerted by it;
* a failed commit after a notification, or a crash before it, repeats the message
  when nothing else changes (`RepeatsBounded` counts these);
* a notification whose channels all failed counts as sent;
* a parent that is disabled while offline goes on suppressing its children;
* a late upsert puts an older row back into the snapshot; a warm-up that loaded
  its rows before a deletion brings the deleted device back; deleting a parent
  leaves its children's entries with the old `parent_id` (`disturbed`);
* a collector that restarts more often than the slow interval stamps fresh
  heartbeats while devices with late offsets are never checked;
* a manager by a custom role can take `manage_users` from that role, and the
  seed restores at every start what a manager took from a built-in role;
* the `ssh` permission is tested once, when a shell opens: a shell outlives its
  withdrawal;
* a check without credentials commits its error without telling the snapshot,
  and one whose SNMPv3 protocol lacks its key raises outside the handler: the
  old status stays;
* a failed walk of outgoing octets counts as 0 and makes two rates wrong; so
  does a reboot, which looks like a wrap;
* the explorer lists `resources` for every device; a device that falls silent is
  reported "ok", with the categories it still told of;
* a device that accepts an SSH connection and then stalls before the process
  exists holds the shell's handler for as long as it keeps the connection, also
  when the browser has left (`ws.py:135`); a device that vanishes without closing
  ends no pump, since there is no keepalive: both ends have to be noticed for
  `ShellEnds`;
* the records of a shell may be missing from the audit log, either or both;
* while frames about any devices come less than 30 seconds apart, or while the
  tab is hidden, no dashboard refetches by itself, and a change whose message was
  lost stays unseen (`NewestShown` says what suffices), although the comment at
  `Dashboard.tsx:71` says that polling "keeps service/maintenance state fresh";
* an enterprise trap of version 2c gets another severity than one of version 1;
* a change of a device's address is, to discovery, a removal and an addition:
  the old address is proposed again;
* one slow socket delays the frames to all sockets after it;
* while the database refuses writes, lossy devices are noticed one a cycle, and
  when there are more of them than cycles in a cooldown, the same ones again
  before the others (`DegradedInTime` says when not);
* a watchdog that restarts during an outage counts from zero, and one that
  restarts after its alarm never sends the all-clear.

## What the models leave out

Wall-clock skew between hosts; PostgreSQL failing after it acknowledged a
commit; more than one collector (the deployment runs one); the contents of
samples, facts and messages; `SIMULATION_MODE`'s idle loop in the scheduler;
changes of `parent_id` within `AlertEngine` and `SnapshotCache` (the topology is
a constant there). `FLAP_THRESHOLD` is a constant: a restart with another
threshold would find counters of the old one. `HTTP_TIMEOUT` of the watchdog
limits each operation on the socket; an answer that trickles in without ever
pausing that long may take longer, which `Watchdog` leaves out. `LoginGuard` is about one
address: addresses share nothing but the dictionary.

Not modelled:

* *Toasts and sounds of the dashboard*: rendering that depends on a map of last
  statuses; only the list is in `Fanout`.
* *Backup and restore*: shell scripts, one process, no state of the monitor but
  the database as a whole. Read, not checked: `ops/db_restore.sh:6` stops the
  API "so nothing writes during the restore", while the collector is a service
  of its own (`docker-compose.yml:133`) that the script leaves running.
* *Audit log, queries (SLA, history, events), device links*: rows that no
  behaviour depends on, read-only aggregations, and pairs under a unique
  constraint.
* *Configuration, secrets, logging, migrations, seeds' sample data, deployment,
  the emulated lab device, web pages*: constants of the modules, pure functions,
  wiring and rendering.

## Plan

Done: `StatusMachine` with `StatusPromise`, `AlertEngine`, `SnapshotCache`,
`DependencyGraph`, `Scheduler`; `Accounts`, `LoginGuard`, `WebShell` in `Access`;
`Listener`, `Discovery`, `CounterRates`, `DeviceChecks`, `LossCheck`, `Explorer`,
`Fanout`, `Watchdog` in `Loops`; proofs about all of them.

Left, in this order:

1. The map of last statuses of the dashboard, in `Fanout`: a toast for each
   change that lasts, none twice.
2. A module that composes `StatusMachine` with `AlertEngine` for one device, so
   that the alarm is related to the samples.
3. `Backup`.

Runs are kept few: modules that need the same kind of instance share one, and a
violation run gives way once a component needs its place and the finding is
stated by a theorem or a passing property.
