------------------------------ MODULE WebShell ------------------------------
(***************************************************************************)
(* The web shell: ws_device_shell (api/routes/ws.py) bridges a browser to  *)
(* an SSH session on a device.  The permission is tested once, when the    *)
(* socket opens.  From then on the browser may leave and the device may    *)
(* hang up, or stall, at any time.  The handler has to come to its end,    *)
(* having told the audit trail of the opening and, if it got as far as the *)
(* device, of the closing.  record_audit_safe never raises: a record it    *)
(* cannot write is lost, and the handler goes on.                          *)
(***************************************************************************)
EXTENDS Accounts, Sequences

CONSTANTS
  SSH,      \* the permission ssh
  Shells    \* the shells that may be open at the same time

ASSUME ShellAssumption == SSH \in Perms

VARIABLE
  shell     \* the handlers, with the far ends and what the audit trail says

Ends == {"open", "close"}

NoShell == [pc |-> "none", browser |-> TRUE, device |-> TRUE,
            reached |-> FALSE, done |-> {}, told |-> <<>>, kept |-> {}]

Shell == [pc: {"none", "open", "first", "connect", "process", "bridge", "close", "ended"},
          browser: BOOLEAN, device: BOOLEAN,   \* still there
          reached: BOOLEAN,                    \* the SSH connection was made
          done: SUBSET {"in", "out"},          \* pumps that have finished
          told: {<<>>, <<"open">>, <<"open", "close">>},
                                               \* calls of record_audit_safe
          kept: SUBSET Ends]                   \* records that were committed

(* _auth_ssh, the lookup of the device, and accept.                        *)
Open(s, u) ==
  /\ shell[s].pc = "none"
  /\ Holds(u, SSH)
  /\ shell' = [shell EXCEPT ![s].pc = "open"]

(* record_audit_safe, and on to next.                                      *)
Record(s, end, next) ==
  \E lost \in BOOLEAN :
    shell' = [shell EXCEPT ![s].told = Append(@, end), ![s].pc = next,
                           ![s].kept = IF lost THEN @ ELSE @ \cup {end}]

(* After the record of the opening, a device without SSH settings ends it. *)
RecordOpen(s) ==
  /\ shell[s].pc = "open"
  /\ \E next \in {"first", "ended"} : Record(s, "open", next)

(* The first frame, its absence for three minutes, or a disconnect that is *)
(* swallowed; then a greeting, which cannot be sent to who has left.       *)
FirstFrame(s) ==
  /\ shell[s].pc = "first"
  /\ shell' = [shell EXCEPT ![s].pc = IF shell[s].browser THEN "connect" ELSE "ended"]

(* asyncssh.connect, with its timeout.                                     *)
Connect(s) ==
  /\ shell[s].pc = "connect"
  /\ \/ shell[s].device /\ shell' = [shell EXCEPT ![s].pc = "process", ![s].reached = TRUE]
     \/ shell' = [shell EXCEPT ![s].pc = "ended"]

(* create_process has no timeout and nobody listens to the browser yet: the*)
(* handler waits for the device.  It gets its process, and starts the pumps*)
StartPumps(s) ==
  /\ shell[s].pc = "process"
  /\ shell[s].device
  /\ shell' = [shell EXCEPT ![s].pc = "bridge"]

(* or is refused one, or loses the connection.                             *)
NoProcess(s) ==
  /\ shell[s].pc = "process"
  /\ shell' = [shell EXCEPT ![s].pc = "close"]

PumpDone(s, way) ==
  /\ shell[s].pc = "bridge"
  /\ shell' = [shell EXCEPT ![s].done = @ \cup {way}]

(* ws_to_ssh ends when the browser leaves.                                 *)
PumpIn(s) == ~shell[s].browser /\ PumpDone(s, "in")

(* ssh_to_ws ends at the end of the stream.                                *)
PumpOut(s) == ~shell[s].device /\ PumpDone(s, "out")

(* A pump may break before: ws_to_ssh on a frame it cannot read, ssh_to_ws *)
(* on output for a browser that has left, if there is any.                 *)
PumpBreaks(s) ==
  \/ PumpDone(s, "in")
  \/ ~shell[s].browser /\ PumpDone(s, "out")

(* asyncio.wait(FIRST_COMPLETED): one pump is done, the other one is       *)
(* cancelled, the connection closed.                                       *)
Fault_WaitForBoth(s) ==
  /\ shell[s].pc = "bridge"
  /\ shell[s].done = {"in", "out"}
  /\ shell' = [shell EXCEPT ![s].pc = "close"]

Unbridge(s) ==
  /\ shell[s].pc = "bridge"
  /\ shell[s].done # {}
  /\ shell' = [shell EXCEPT ![s].pc = "close"]

(* finally: the record of the closing.                                     *)
RecordClose(s) ==
  /\ shell[s].pc = "close"
  /\ Record(s, "close", "ended")

(* The far ends.                                                           *)
BrowserLeaves(s) ==
  /\ shell[s].pc \notin {"none", "ended"} /\ shell[s].browser
  /\ shell' = [shell EXCEPT ![s].browser = FALSE]

DeviceHangsUp(s) ==
  /\ shell[s].pc \notin {"none", "ended"} /\ shell[s].device
  /\ shell' = [shell EXCEPT ![s].device = FALSE]

(* What the handler owes: it waits for ever for its far ends only, and for *)
(* the process only as long as the device keeps the connection.            *)
ShellStep(s) ==
  \/ RecordOpen(s) \/ FirstFrame(s) \/ Connect(s)
  \/ ~shell[s].device /\ NoProcess(s)
  \/ PumpIn(s) \/ PumpOut(s) \/ Unbridge(s) \/ RecordClose(s)

=============================================================================
