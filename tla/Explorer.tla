------------------------------ MODULE Explorer ------------------------------
(***************************************************************************)
(* The SNMP explorer (services/snmp_collector.py, inventory_device): all   *)
(* categories of a device's MIBs one after the other, each table of them a *)
(* walk of its own.  A table has rows, has none, or fails; a device that   *)
(* falls silent on the way, be it inside a category, fails all tables from *)
(* then on.                                                                *)
(***************************************************************************)
EXTENDS Naturals, Sequences

CONSTANTS
  Tables,     \* the tables and groups of scalars that decide a category
  Agents      \* bound of the model: what devices answer

ASSUME ExplorerAssumption == Agents \subseteq [Tables -> {"rows", "none", "fails"}]

VARIABLES
  agent,      \* what the device holds
  silent,     \* it answers no more
  report,     \* "none", "underway", "ok" or "failed"
  category,   \* the category being gathered
  source,     \* which of its sources is read
  table,      \* and which table of that source
  present,    \* categories_with_data
  told        \* observer: how many of "system" and of the categories were
              \* gathered before the silence

explorerVars == <<agent, silent, report, category, source, table, present, told>>

Categories == <<"storage", "interfaces", "sensors", "vlans", "mac_table", "arp", "routes",
                "qos", "vpn", "wireless", "ups">>

(* What a category is read from: sources in the order they are tried, each *)
(* with the tables that must have rows.  Tables that only add columns are  *)
(* left out.                                                               *)
Sources ==
  [storage |-> << <<"hrStorageDescr", "hrStorageSize">> >>,
   interfaces |-> << <<"ifDescr">> >>,
   sensors |-> << <<"entSensorType", "entSensorValue">>,
                  <<"ciscoTemp">>, <<"ciscoFan">>, <<"ciscoSupply">> >>,
   vlans |-> << <<"dot1qVlan">>, <<"ciscoVlan">> >>,
   mac_table |-> << <<"dot1qFdb">>, <<"dot1dFdb">> >>,
   arp |-> << <<"ipNetToMedia">> >>,
   routes |-> << <<"ipCidrRoute">>, <<"ipRoute">> >>,
   qos |-> << <<"cbQosPolicyMap">>, <<"cbQosClassMap">> >>,
   vpn |-> << <<"ipsecTunnel">> >>,
   wireless |-> << <<"ciscoAp">> >>,
   ups |-> << <<"upsBattery">> >>]

(* The tables that are not read with _safe_walk: an error gets out.        *)
Unsafe == {"hrStorageDescr", "ifDescr"}

Answer(t) == IF silent THEN "fails" ELSE agent[t]

-----------------------------------------------------------------------------
(* _inv_system comes first, and its failure is the report.  _inv_resources *)
(* follows: it has its fallbacks (_vendor_cpu, _vendor_mem), keeps every   *)
(* error to itself and says so when it knows nothing, so that it is always *)
(* there.                                                                  *)
Explore ==
  /\ report = "none"
  /\ IF Answer("system") = "fails"
     THEN report' = "failed" /\ UNCHANGED <<present, told>>
     ELSE report' = "underway" /\ present' = {"system", "resources"} /\ told' = 1
  /\ UNCHANGED <<agent, silent, category, source, table>>

Of(k) == Sources[Categories[k]]

Reads(answers) ==
  /\ report = "underway"
  /\ category <= Len(Categories)
  /\ Answer(Of(category)[source][table]) \in answers
  /\ UNCHANGED <<agent, silent>>

Gathered(names) ==
  /\ present' = present \cup names
  /\ category' = category + 1
  /\ source' = 1 /\ table' = 1
  /\ told' = IF silent THEN told ELSE told + 1

(* A table with rows: on to the next of this source, if there is one.      *)
RowsRead ==
  /\ Reads({"rows"})
  /\ UNCHANGED report
  /\ IF table < Len(Of(category)[source])
     THEN table' = table + 1 /\ UNCHANGED <<category, source, present, told>>
     ELSE Gathered({Categories[category]})

(* No rows, which is also what _safe_walk makes of an error: the next      *)
(* source, or the category is empty.                                       *)
NothingRead ==
  /\ Reads({"none", "fails"})
  /\ Of(category)[source][table] \in Unsafe => Answer(Of(category)[source][table]) = "none"
  /\ UNCHANGED report
  /\ IF source < Len(Of(category))
     THEN source' = source + 1 /\ table' = 1 /\ UNCHANGED <<category, present, told>>
     ELSE Gathered({})

(* An error that gets out of the category: cat keeps it from the others.   *)
Fault_Raised ==
  /\ Reads({"fails"})
  /\ Of(category)[source][table] \in Unsafe
  /\ report' = "failed"
  /\ UNCHANGED <<category, source, table, present, told>>

Raised ==
  /\ Reads({"fails"})
  /\ Of(category)[source][table] \in Unsafe
  /\ UNCHANGED report
  /\ Gathered({})

Report ==
  /\ report = "underway"
  /\ category > Len(Categories)
  /\ report' = "ok"
  /\ UNCHANGED <<agent, silent, category, source, table, present, told>>

GoesSilent ==
  /\ ~silent
  /\ silent' = TRUE
  /\ UNCHANGED <<agent, report, category, source, table, present, told>>

ExplorerNext == Explore \/ RowsRead \/ NothingRead \/ Raised \/ Report \/ GoesSilent

ExplorerInit(agents) ==
  /\ agent \in agents
  /\ silent = FALSE
  /\ report = "none"
  /\ category = 1 /\ source = 1 /\ table = 1
  /\ present = {} /\ told = 0

-----------------------------------------------------------------------------
Filled(k) ==
  \E s \in 1 .. Len(Of(k)) : \A t \in 1 .. Len(Of(k)[s]) : agent[Of(k)[s][t]] = "rows"

(* Every category is gathered best-effort.  A device that tells what       *)
(* system it is gets a report, whatever fails after that; and whatever the *)
(* other tables do, a category is in it exactly when one of its sources is *)
(* complete, if it was gathered before the device fell silent, only then   *)
(* if the silence fell into it, and never if it came after.                *)
InventoryComplete ==
  /\ report = "failed" => told = 0
  /\ report = "ok" =>
       /\ {"system", "resources"} \subseteq present
       /\ \A k \in 1 .. Len(Categories) :
            /\ Categories[k] \in present => k <= told /\ Filled(k)
            /\ k < told /\ Filled(k) => Categories[k] \in present

=============================================================================
