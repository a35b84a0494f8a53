------------------------------ MODULE Listener ------------------------------
(***************************************************************************)
(* The syslog and SNMP trap receivers (services/syslog_listener.py,        *)
(* services/snmp_trap_listener.py).  They differ in how a datagram is      *)
(* read; buffer, flush, alarm cooldown and loop are the same code twice.   *)
(* Datagrams arrive at every await of the loop that writes them.           *)
(***************************************************************************)
EXTENDS Integers, Sequences, FiniteSets

CONSTANTS
  Hosts,            \* source addresses
  BUFFER_HARD_CAP,  \* _BUFFER_HARD_CAP
  CHUNK,            \* 2 * _FLUSH_MAX_ROWS
  ALERTED_MAX,      \* _ALERTED_MAX
  COOLDOWN,         \* ..._ALERT_COOLDOWN_SECONDS
  MAX_SEVERITY,     \* ..._ALERT_MAX_SEVERITY, or -1 when alerting is off
  MaxSend,          \* bound of the channels: how long one alert takes
  MaxReceived       \* bound of the model: messages received

ASSUME ListenerAssumption ==
  /\ {BUFFER_HARD_CAP, CHUNK, COOLDOWN} \subseteq Nat \ {0}
  /\ {ALERTED_MAX, MaxSend, MaxReceived} \subseteq Nat
  /\ MAX_SEVERITY \in -1 .. 7
  /\ IsFiniteSet(Hosts)

VARIABLES
  buffer,     \* buffer
  dropped,    \* dropped[0]
  stage,      \* where the loop is
  rows,       \* rows: the chunk cut from the buffer
  lag,        \* seconds since `now' of _maybe_alert
  spent,      \* seconds the alert under way has taken
  alertedAt,  \* _alerted_at: the age of each host's entry, or NotAlerted
  \* observers
  received, stored, lost, reported,   \* counts of messages
  quiet,      \* seconds since the last alert for each host
  forgotten,  \* hosts whose running cooldown was evicted or died with the process
  heard       \* hosts of the severe rows of the chunk dealt with so far

tally == <<received, stored, lost, reported>>
alarms == <<lag, spent, alertedAt, quiet, forgotten, heard>>
listenerVars == <<buffer, dropped, stage, rows, tally, alarms>>

NotAlerted == -1

-----------------------------------------------------------------------------
(* A syslog datagram carries a priority or none, and a text; a trap one of *)
(* the generic codes.  What is no trap, and an empty text, is not kept.    *)
SyslogSeverity(pri) == IF pri \in 0 .. 191 THEN pri % 8 ELSE 6

(* coldStart, warmStart, linkDown, linkUp, authenticationFailure, egp.     *)
TRAP_NAMES == <<4, 5, 2, 6, 4, 4>>

TrapSeverity(version, generic) ==
  IF generic + 1 \in DOMAIN TRAP_NAMES THEN TRAP_NAMES[generic + 1]
  ELSE IF version = 1 /\ generic = 6 THEN 4 ELSE 5

ParsedSyslog(d) == [host |-> d.host, severity |-> SyslogSeverity(d.pri)]

ParsedTrap(d) == [host |-> d.host, severity |-> TrapSeverity(d.version, d.generic)]

Parsed(d) == IF d.protocol = "syslog" THEN ParsedSyslog(d) ELSE ParsedTrap(d)

(* datagram_received: a full buffer drops the datagram unread.             *)
Receive(d) ==
  /\ received < MaxReceived
  /\ received' = received + 1
  /\ \/ /\ Len(buffer) >= BUFFER_HARD_CAP
        /\ dropped' = dropped + 1
        /\ UNCHANGED buffer
     \/ /\ Len(buffer) < BUFFER_HARD_CAP
        /\ d.kept
        /\ buffer' = Append(buffer, Parsed(d))
        /\ UNCHANGED dropped
  /\ UNCHANGED <<stage, rows, stored, lost, reported, alarms>>

-----------------------------------------------------------------------------
(* The loop wakes up; with an empty buffer it goes back to sleep.  It may  *)
(* have to load the map of the devices' addresses first, which may fail.   *)
GoesTo(from, to) ==
  /\ stage = from
  /\ stage' = to
  /\ UNCHANGED <<buffer, dropped, rows, tally, alarms>>

WakeUp == buffer # <<>> /\ GoesTo("sleep", "map")

MapLoaded == GoesTo("map", "flush")

MapFails == GoesTo("map", "sleep")

Fault_Cut ==
  /\ stage = "flush"
  /\ buffer # <<>>
  /\ rows' = SubSeq(buffer, 1, IF Len(buffer) < CHUNK THEN Len(buffer) ELSE CHUNK)
  /\ buffer' = SubSeq(buffer, CHUNK + 2, Len(buffer))
  /\ stage' = "commit"
  /\ UNCHANGED <<dropped, tally, alarms>>

(* _flush takes a chunk from the buffer and begins to write it.            *)
Cut ==
  /\ stage = "flush"
  /\ buffer # <<>>
  /\ rows' = SubSeq(buffer, 1, IF Len(buffer) < CHUNK THEN Len(buffer) ELSE CHUNK)
  /\ buffer' = SubSeq(buffer, CHUNK + 1, Len(buffer))
  /\ stage' = "commit"
  /\ UNCHANGED <<dropped, tally, alarms>>

(* _prune_alerted at the start of a batch: expired hosts go, and of more   *)
(* than ALERTED_MAX the oldest.                                            *)
Running == {h \in Hosts : alertedAt[h] # NotAlerted /\ alertedAt[h] < COOLDOWN}

Prunings ==
  {keep \in SUBSET Running :
     /\ Cardinality(keep) = IF Cardinality(Running) > ALERTED_MAX THEN ALERTED_MAX
                            ELSE Cardinality(Running)
     /\ \A h \in keep, g \in Running \ keep : alertedAt[h] <= alertedAt[g]}

Stored ==
  /\ stage = "commit"
  /\ stored' = stored + Len(rows)
  /\ \E keep \in Prunings :
       /\ alertedAt' = [h \in Hosts |-> IF h \in keep THEN alertedAt[h] ELSE NotAlerted]
       /\ forgotten' = forgotten \cup (Running \ keep)
  /\ lag' = 0
  /\ stage' = "alert"
  /\ UNCHANGED <<buffer, dropped, rows, received, lost, reported, spent, quiet, heard>>

Fault_CommitFails ==
  /\ stage = "commit"
  /\ lost' = lost + Len(rows)
  /\ stage' = "sleep"
  /\ UNCHANGED <<buffer, dropped, rows, received, stored, reported, alarms>>

(* A failed commit leaves the loop by its handler, without the rows.       *)
CommitFails ==
  /\ stage = "commit"
  /\ lost' = lost + Len(rows)
  /\ rows' = <<>>
  /\ stage' = "sleep"
  /\ UNCHANGED <<buffer, dropped, received, stored, reported, alarms>>

-----------------------------------------------------------------------------
(* _maybe_alert, row by row.  The cooldown counts from `now', the start of *)
(* the batch, and is set before the channels are tried.                    *)
Severe(row) == row.severity <= MAX_SEVERITY

Cooling(h) == alertedAt[h] # NotAlerted /\ alertedAt[h] - lag < COOLDOWN

Fault_NextRow ==
  /\ stage = "alert"
  /\ rows # <<>>
  /\ LET row == Head(rows)
         h == row.host
     IN  /\ heard' = IF Severe(row) THEN heard \cup {h} ELSE heard
         /\ alertedAt' = IF Cooling(h) THEN alertedAt ELSE [alertedAt EXCEPT ![h] = lag]
         /\ \/ /\ Severe(row) /\ ~Cooling(h)
               /\ quiet' = [quiet EXCEPT ![h] = 0]
               /\ forgotten' = forgotten \ {h}
               /\ spent' = 0
               /\ stage' = "send"
            \/ /\ ~Severe(row) \/ Cooling(h)
               /\ UNCHANGED <<stage, quiet, forgotten, spent>>
  /\ rows' = Tail(rows)
  /\ UNCHANGED <<buffer, dropped, tally, lag>>

NextRow ==
  /\ stage = "alert"
  /\ rows # <<>>
  /\ LET row == Head(rows)
         h == row.host
     IN  /\ heard' = IF Severe(row) THEN heard \cup {h} ELSE heard
         /\ \/ /\ Severe(row) /\ ~Cooling(h)
               /\ alertedAt' = [alertedAt EXCEPT ![h] = lag]
               /\ quiet' = [quiet EXCEPT ![h] = 0]
               /\ forgotten' = forgotten \ {h}
               /\ spent' = 0
               /\ stage' = "send"
            \/ /\ ~Severe(row) \/ Cooling(h)
               /\ UNCHANGED <<stage, alertedAt, quiet, forgotten, spent>>
  /\ rows' = Tail(rows)
  /\ UNCHANGED <<buffer, dropped, tally, lag>>

(* notify.send_alert returns, whatever became of its channels.             *)
Delivered == GoesTo("send", "alert")

AlertsDone ==
  /\ stage = "alert"
  /\ rows = <<>>
  /\ heard' = {}
  /\ stage' = "flush"
  /\ UNCHANGED <<buffer, dropped, rows, tally, lag, spent, alertedAt, quiet, forgotten>>

Fault_LoopDone ==
  /\ stage = "flush"
  /\ buffer = <<>>
  /\ stage' = "sleep"
  /\ UNCHANGED <<buffer, dropped, rows, tally, alarms>>

(* Nothing left to flush: what was dropped is reported, and forgotten.     *)
LoopDone ==
  /\ stage = "flush"
  /\ buffer = <<>>
  /\ reported' = reported + dropped
  /\ dropped' = 0
  /\ stage' = "sleep"
  /\ UNCHANGED <<buffer, rows, received, stored, lost, alarms>>

LoopStep == WakeUp \/ MapLoaded \/ Cut \/ Stored \/ NextRow \/ Delivered \/ AlertsDone \/ LoopDone

-----------------------------------------------------------------------------
MaxLag == (Cardinality(Hosts) - 1) * MaxSend

Saturated == COOLDOWN + MaxLag + MaxSend

Aged(age) == IF age \in {NotAlerted, Saturated} THEN age ELSE age + 1

(* A second passes: anywhere but in the middle of a batch, where nothing   *)
(* waits but the sending.  Ages beyond Saturated are all alike.            *)
ListenerTick ==
  /\ \E h \in Hosts : quiet[h] < Saturated
  /\ stage # "alert" /\ (stage = "send" => spent < MaxSend)
  /\ alertedAt' = [h \in Hosts |-> Aged(alertedAt[h])]
  /\ quiet' = [h \in Hosts |-> Aged(quiet[h])]
  /\ lag' = IF stage = "send" THEN lag + 1 ELSE lag
  /\ spent' = IF stage = "send" THEN spent + 1 ELSE spent
  /\ UNCHANGED <<buffer, dropped, stage, rows, tally, forgotten, heard>>

ListenerInit ==
  /\ buffer = <<>> /\ rows = <<>>
  /\ dropped = 0 /\ stage = "sleep"
  /\ lag = 0 /\ spent = 0
  /\ alertedAt = [h \in Hosts |-> NotAlerted]
  /\ received = 0 /\ stored = 0 /\ lost = 0 /\ reported = 0
  /\ quiet = [h \in Hosts |-> Saturated]
  /\ forgotten = {} /\ heard = {}

(* The process dies and starts anew: all of the receiver is in memory.     *)
InHand == IF stage = "commit" THEN Len(rows) ELSE 0

ListenerRestart ==
  /\ lost' = lost + Len(buffer) + dropped + InHand
  /\ buffer' = <<>> /\ rows' = <<>>
  /\ dropped' = 0 /\ stage' = "sleep"
  /\ lag' = 0 /\ spent' = 0
  /\ alertedAt' = [h \in Hosts |-> NotAlerted]
  /\ forgotten' = forgotten \cup {h \in Hosts : quiet[h] < Saturated}
  /\ heard' = {}
  /\ UNCHANGED <<received, stored, reported, quiet>>

-----------------------------------------------------------------------------
(* Every message received is in one place: stored, lost with a chunk or    *)
(* the process, dropped and reported or about to be, in the buffer, or in  *)
(* the chunk being written.                                                *)
Accounted ==
  received = stored + lost + reported + dropped + Len(buffer) + InHand

(* Alerts for a host keep their distance: the cooldown, less the time that *)
(* alerts for the other hosts of the first one's chunk may have taken, for *)
(* the cooldown counts from before them; unless it was forgotten.  And it  *)
(* silences nobody for longer: every host with a severe row had an alert   *)
(* within the cooldown before this chunk, or has it with this chunk.       *)
AlarmsPaced ==
  [][stage = "alert" =>
       /\ \A h \in Hosts :
            stage' = "send" /\ Head(rows).host = h /\ h \notin forgotten
              => quiet[h] + MaxLag >= COOLDOWN
       /\ stage' = "flush" => \A h \in heard : quiet[h] < COOLDOWN + lag]_listenerVars

(* What the full buffer dropped is reported, once the flood has passed;    *)
(* unless messages are lost otherwise, by a failed commit or a crash.  The *)
(* database does not fail for ever.                                        *)
DropsReported == dropped > 0 ~> dropped = 0 \/ lost > 0

=============================================================================
