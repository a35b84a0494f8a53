------------------------------ MODULE Discovery ------------------------------
(***************************************************************************)
(* Auto-discovery (services/discovery.py, api/routes/discovery.py).  A     *)
(* sweep reads the monitored addresses, probes for minutes without a       *)
(* session, and at last writes what answered in one transaction.  The loop *)
(* of the collector and the button of the gateway both sweep, while others *)
(* decide about proposals and change the inventory.  Rows have an          *)
(* identity: whoever holds one that was deleted meanwhile updates nothing, *)
(* which the ORM takes for an error, or deletes nothing, which it does not.*)
(***************************************************************************)
EXTENDS FiniteSets, Naturals

CONSTANTS
  Addresses,
  Nets,       \* _subnets(): the subnets configured, sets of addresses
  MAX_HOSTS,  \* DISCOVERY_MAX_HOSTS_PER_SUBNET
  Sweepers,   \* the loop, and requests to sweep now
  Loop,       \* the loop, in the collector
  Deciders    \* requests about proposals that may run at the same time

ASSUME DiscoveryAssumption ==
  Loop \in Sweepers /\ Nets \subseteq SUBSET Addresses /\ MAX_HOSTS \in Nat

VARIABLES
  up,         \* the addresses that answer
  monitored,  \* the addresses of devices
  proposed,   \* discovered_devices by address
  sweep,      \* where each sweep is, and what it holds
  decision,   \* where each decider is, and the row it holds
  strange     \* observer: addresses that became monitored behind a sweep's
              \* back, or while proposed otherwise than by its approval

discoveryVars == <<up, monitored, proposed, sweep, decision, strange>>

NoSweep == [pc |-> "idle", known |-> {}, hits |-> {}, held |-> {}, gone |-> {}]
NoDecision == [op |-> "none", on |-> {}, gone |-> FALSE]

Proposed == {a \in Addresses : proposed[a] # "none"}

(* A row is deleted: those who hold it hold nothing.                       *)
SweepsWithout(a) ==
  [s \in Sweepers |-> IF a \in sweep[s].held THEN [sweep[s] EXCEPT !.gone = @ \cup {a}]
                      ELSE sweep[s]]

DecisionsWithout(a) ==
  [d \in Deciders |-> [decision[d] EXCEPT !.gone = @ \/ decision[d].on = {a}]]

-----------------------------------------------------------------------------
Fault_SmallNets == {n \in Nets : Cardinality(n) < MAX_HOSTS}

(* run_sweep: subnets beyond the cap are skipped, known addresses too.     *)
SmallNets == {n \in Nets : Cardinality(n) <= MAX_HOSTS}

Fault_Targets(s) == UNION SmallNets

Targets(s) == (UNION SmallNets) \ sweep[s].known

(* An address in two subnets is probed, and written, twice.                *)
Doubled == {a \in Addresses : \E n, m \in SmallNets : n # m /\ a \in n \cap m}

SweepStart(s) ==
  /\ sweep[s].pc = "idle"
  /\ Nets # {}
  /\ sweep' = [sweep EXCEPT ![s] = [NoSweep EXCEPT !.pc = "probe", !.known = monitored]]
  /\ UNCHANGED <<up, monitored, proposed, decision, strange>>

Probe(s) ==
  /\ sweep[s].pc = "probe"
  /\ sweep' = [sweep EXCEPT ![s].pc = "read", ![s].hits = Targets(s) \cap up]
  /\ UNCHANGED <<up, monitored, proposed, decision, strange>>

ReadPending(s) ==
  /\ sweep[s].pc = "read"
  /\ sweep' = [sweep EXCEPT ![s].pc = "commit", ![s].held = Proposed \cap sweep[s].hits]
  /\ UNCHANGED <<up, monitored, proposed, decision, strange>>

(* The commit updates the rows it holds (when and how fast they answered,  *)
(* not their status) and inserts the rest; one failure undoes it all.      *)
NewRows(s) == sweep[s].hits \ sweep[s].held

Fault_SweepStatus(a) == "new"

SweepStatus(a) == proposed[a]

SweepCommit(s) ==
  /\ sweep[s].pc = "commit"
  /\ sweep' = [sweep EXCEPT ![s] = NoSweep]
  /\ IF sweep[s].gone = {} /\ NewRows(s) \cap (Proposed \cup Doubled) = {}
     THEN proposed' = [a \in Addresses |-> IF a \in NewRows(s) THEN "new"
                                           ELSE IF a \in sweep[s].held THEN SweepStatus(a)
                                           ELSE proposed[a]]
     ELSE UNCHANGED proposed
  /\ UNCHANGED <<up, monitored, decision, strange>>

SweepStep(s) == SweepStart(s) \/ Probe(s) \/ ReadPending(s) \/ SweepCommit(s)

-----------------------------------------------------------------------------
(* An address becomes monitored: strange if a sweep under way does not     *)
(* know it, or a proposal stays behind.                                    *)
Unaware(a) == \E s \in Sweepers : sweep[s].pc # "idle" /\ a \notin sweep[s].known

Monitor(a, leaves) ==
  /\ a \notin monitored
  /\ monitored' = monitored \cup {a}
  /\ strange' = IF leaves \/ Unaware(a) THEN strange \cup {a} ELSE strange \ {a}

(* _get_row, at the start of each of the three requests.                   *)
GetRow(d, op, a) ==
  /\ decision[d].op = "none"
  /\ a \in Proposed
  /\ decision' = [decision EXCEPT ![d] = [op |-> op, on |-> {a}, gone |-> FALSE]]
  /\ UNCHANGED <<up, monitored, proposed, sweep, strange>>

Decided(d, op, a) == decision[d].op = op /\ decision[d].on = {a}

(* The row of address a is deleted by d, if it is still there.             *)
DeleteRow(d, a) ==
  IF decision[d].gone
  THEN /\ decision' = [decision EXCEPT ![d] = NoDecision]
       /\ UNCHANGED <<proposed, sweep>>
  ELSE /\ decision' = [DecisionsWithout(a) EXCEPT ![d] = NoDecision]
       /\ proposed' = [proposed EXCEPT ![a] = "none"]
       /\ sweep' = SweepsWithout(a)

(* approve_discovered: the device and the end of the proposal, or a 409.   *)
Approve(d, a) ==
  /\ Decided(d, "approve", a)
  /\ Monitor(a, decision[d].gone /\ a \in Proposed)
  /\ DeleteRow(d, a)
  /\ UNCHANGED up

ApproveConflict(d, a) ==
  /\ Decided(d, "approve", a)
  /\ a \in monitored
  /\ decision' = [decision EXCEPT ![d] = NoDecision]
  /\ UNCHANGED <<up, monitored, proposed, sweep, strange>>

(* ignore_discovered; a row that is gone fails the request.                *)
Ignore(d, a) ==
  /\ Decided(d, "ignore", a)
  /\ decision' = [decision EXCEPT ![d] = NoDecision]
  /\ proposed' = IF decision[d].gone THEN proposed ELSE [proposed EXCEPT ![a] = "ignored"]
  /\ UNCHANGED <<up, monitored, sweep, strange>>

(* delete_discovered.                                                      *)
Forget(d, a) ==
  /\ Decided(d, "forget", a)
  /\ DeleteRow(d, a)
  /\ UNCHANGED <<up, monitored, strange>>

-----------------------------------------------------------------------------
(* create_device and delete_devices of the inventory, and the network.     *)
AddDevice(a) ==
  /\ Monitor(a, a \in Proposed)
  /\ UNCHANGED <<up, proposed, sweep, decision>>

RemoveDevice(a) ==
  /\ a \in monitored
  /\ monitored' = monitored \ {a}
  /\ strange' = strange \ {a}
  /\ UNCHANGED <<up, proposed, sweep, decision>>

Answers(a) ==
  /\ up' = IF a \in up THEN up \ {a} ELSE up \cup {a}
  /\ UNCHANGED <<monitored, proposed, sweep, decision, strange>>

DiscoveryInit(inventories) ==
  /\ up = {}
  /\ monitored \in inventories
  /\ proposed = [a \in Addresses |-> "none"]
  /\ sweep = [s \in Sweepers |-> NoSweep]
  /\ decision = [d \in Deciders |-> NoDecision]
  /\ strange = {}

(* The collector restarts: its sweep is lost, the gateway's goes on.       *)
DiscoveryRestart ==
  /\ sweep' = [sweep EXCEPT ![Loop] = NoSweep]
  /\ UNCHANGED <<up, monitored, proposed, decision, strange>>

DecisionNext(d, a) ==
  \/ \E op \in {"approve", "ignore", "forget"} : GetRow(d, op, a)
  \/ Approve(d, a) \/ ApproveConflict(d, a) \/ Ignore(d, a) \/ Forget(d, a)

-----------------------------------------------------------------------------
(* The list proposes what is not monitored.  An address is both only if it *)
(* became monitored behind the back of a sweep, or while it was proposed   *)
(* otherwise than by the approval of that proposal.                        *)
ProposalsExplained == Proposed \cap monitored \subseteq strange

(* An ignored address is not proposed again as long as its row is kept,    *)
(* whatever sweeps had read of it before it was ignored.                   *)
IgnoredStays ==
  [][\A a \in Addresses : proposed[a] = "ignored" => proposed'[a] # "new"]_discoveryVars

(* An address that answers and is not monitored is proposed, if not before *)
(* then by one of the sweeps to come: sweeps that fail do so because of    *)
(* decisions taken, not for good.                                          *)
AliveProposed ==
  \A a \in UNION {n \in Nets : Cardinality(n) <= MAX_HOSTS} :
    <>[](a \in up \ monitored) => []<>(a \in Proposed)

=============================================================================
