-------------------------------- MODULE Loops --------------------------------
(***************************************************************************)
(* The loops beside ping and outage alarms: the receivers, discovery, the  *)
(* checks and polls of the collector, its look at lossy links, the         *)
(* explorer, the subscriber of the gateway and the watchdog outside.  They *)
(* share nothing but the life of their process: a restart takes the memory *)
(* of all of them but the watchdog.  A behaviour has a crowd, the part     *)
(* that runs in it and its actors.                                         *)
(***************************************************************************)
EXTENDS Listener, Discovery, CounterRates, DeviceChecks, LossCheck, Explorer, Fanout, Watchdog

CONSTANTS
  Crowds,       \* bound of the model: which actors run together
  Datagrams,    \* bound of the model: what arrives at the receivers
  MaxRestarts   \* bound of the model: restarts between sweeps

ASSUME DatagramsAssumption == \A d \in Datagrams : d.host \in Hosts

ASSUME RestartsAssumption == MaxRestarts \in Nat

VARIABLES crowd, restarts

vars == <<listenerVars, discoveryVars, ratesVars, checksVars, lossVars, explorerVars,
          fanoutVars, watchdogVars, crowd, restarts>>

Runs(part) == part \in crowd

(* The parts that do not run start alike in all behaviours.                *)
Only(part, choices) == IF Runs(part) THEN choices ELSE {CHOOSE x \in choices : TRUE}

Init ==
  /\ crowd \in Crowds
  /\ restarts = 0
  /\ ListenerInit
  /\ DiscoveryInit(Only("discovery", SUBSET Addresses))
  /\ RatesInit
  /\ ChecksInit
  /\ LossInit
  /\ ExplorerInit(Only("explorer", Agents))
  /\ FanoutInit(Only("fanout", Statuses))
  /\ WatchdogInit

ListenerNext ==
  \/ \E d \in Datagrams : Runs(d.protocol) /\ Receive(d)
  \/ LoopStep \/ MapFails \/ CommitFails \/ ListenerTick

DiscoveryNext ==
  \/ \E s \in Sweepers \cap crowd : SweepStep(s)
  \/ \E d \in Deciders \cap crowd, a \in Addresses : DecisionNext(d, a)
  \/ \E a \in Addresses : AddDevice(a) \/ RemoveDevice(a) \/ Answers(a)

RatesNext ==
  \/ \E p \in Polls \cap crowd : PollNext(p)
  \/ DeviceNext

ChecksNext ==
  \/ \E c \in Checks : CheckNext(c)
  \/ Configure \/ Delete

(* The collector, or the gateway, stops and starts again; not for ever     *)
(* where a sweep has to come to its end.                                   *)
Restart ==
  /\ Runs("restart")
  /\ IF Runs("discovery") THEN restarts < MaxRestarts /\ restarts' = restarts + 1
     ELSE UNCHANGED restarts
  /\ ListenerRestart /\ DiscoveryRestart /\ RatesRestart /\ ChecksRestart /\ LossRestart
  /\ GatewayRestart
  /\ UNCHANGED <<explorerVars, watchdogVars, crowd>>

ListenerPart ==
  /\ ListenerNext
  /\ UNCHANGED <<discoveryVars, ratesVars, checksVars, lossVars, explorerVars, fanoutVars,
                 watchdogVars, crowd, restarts>>

DiscoveryPart ==
  /\ Runs("discovery")
  /\ DiscoveryNext
  /\ UNCHANGED <<listenerVars, ratesVars, checksVars, lossVars, explorerVars, fanoutVars,
                 watchdogVars, crowd, restarts>>

RatesPart ==
  /\ Runs("rates")
  /\ RatesNext
  /\ UNCHANGED <<listenerVars, discoveryVars, checksVars, lossVars, explorerVars, fanoutVars,
                 watchdogVars, crowd, restarts>>

ChecksPart ==
  /\ Runs("checks")
  /\ ChecksNext
  /\ UNCHANGED <<listenerVars, discoveryVars, ratesVars, lossVars, explorerVars, fanoutVars,
                 watchdogVars, crowd, restarts>>

LossPart ==
  /\ Runs("loss")
  /\ LossNext
  /\ UNCHANGED <<listenerVars, discoveryVars, ratesVars, checksVars, explorerVars, fanoutVars,
                 watchdogVars, crowd, restarts>>

ExplorerPart ==
  /\ Runs("explorer")
  /\ ExplorerNext
  /\ UNCHANGED <<listenerVars, discoveryVars, ratesVars, checksVars, lossVars, fanoutVars,
                 watchdogVars, crowd, restarts>>

FanoutPart ==
  /\ Runs("fanout")
  /\ FanoutNext
  /\ UNCHANGED <<listenerVars, discoveryVars, ratesVars, checksVars, lossVars, explorerVars,
                 watchdogVars, crowd, restarts>>

WatchdogPart ==
  /\ Runs("watchdog")
  /\ WatchdogNext
  /\ UNCHANGED <<listenerVars, discoveryVars, ratesVars, checksVars, lossVars, explorerVars,
                 fanoutVars, crowd, restarts>>

Next ==
  \/ ListenerPart \/ DiscoveryPart \/ RatesPart \/ ChecksPart \/ LossPart \/ ExplorerPart
  \/ FanoutPart \/ WatchdogPart \/ Restart

Spec == Init /\ [][Next]_vars

(* What the code does by itself: the receiver's loop goes on (the channels *)
(* have timeouts), and the discovery loop sweeps.  The database answers    *)
(* again and again, as it must for anything to be kept.  Nothing is        *)
(* assumed of the gateway and of the dashboards.                           *)
FairSpec ==
  /\ Spec
  /\ WF_vars(LoopStep /\ ListenerPart) /\ SF_vars(MapLoaded /\ ListenerPart)
  /\ WF_vars(SweepStep(Loop) /\ DiscoveryPart)

-----------------------------------------------------------------------------
(* Well-typed; no chunk is held while the loop sleeps, and no frame is     *)
(* sent to nobody.                                                         *)
TypeOK ==
  /\ crowd \in Crowds
  /\ restarts \in 0 .. MaxRestarts
  /\ buffer \in Seq([host: Hosts, severity: 0 .. 7]) /\ Len(buffer) <= BUFFER_HARD_CAP
  /\ rows \in Seq([host: Hosts, severity: 0 .. 7]) /\ Len(rows) <= CHUNK
  /\ stage \in {"sleep", "map", "flush", "commit", "alert", "send"}
  /\ stage = "sleep" => rows = <<>>
  /\ alertedAt \in [Hosts -> {NotAlerted} \cup 0 .. Saturated]
  /\ lag \in 0 .. MaxLag + MaxSend /\ spent \in 0 .. MaxSend
  /\ monitored \subseteq Addresses /\ up \subseteq Addresses
  /\ proposed \in [Addresses -> {"none", "new", "ignored"}]
  /\ \A s \in Sweepers : sweep[s].held \subseteq sweep[s].hits /\ sweep[s].gone \subseteq sweep[s].held
  /\ carried \in 0 .. MaxOctets
  /\ row \in Rows
  /\ loss.pc \in {"walk", "send", "commit"} \/ loss = Resting
  /\ loss.cur \in (IF loss.pc \in {"send", "commit"} THEN Links \ loss.todo ELSE {NoLink})
  /\ noticedAt \in [Links -> {Unnoticed} \cup 0 .. Stale] /\ sinceNow \in 0 .. MaxCycle
  /\ report \in {"none", "underway", "ok", "failed"}
  /\ shown \in [Browsers -> Statuses]
  /\ batch \in Statuses \cup {Silence} /\ (batch = Silence <=> unsent = {})
  /\ dog.pc \in {"check", "alarm", "resolve", "sleep"} /\ dog.spent \in 0 .. Longest(dog.pc)
  /\ dog.pc = "alarm" => ~alarmed /\ Enough(consecutive)
  /\ dog.pc = "resolve" => alarmed /\ consecutive = 0

=============================================================================
