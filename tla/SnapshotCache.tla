---------------------------- MODULE SnapshotCache ----------------------------
(***************************************************************************)
(* The Redis snapshot of the device list (services/state_cache.py) and     *)
(* everything that keeps it up: the API handlers and collector loops that  *)
(* commit a row, read it back and put it into the hash; the handler that   *)
(* deletes a device; and the readers that find the snapshot cold, or Redis *)
(* out of reach, load all devices from PostgreSQL and replace the hash.    *)
(* These are separate processes and coroutines with no lock between them:  *)
(* each of their steps below is one round trip to PostgreSQL or Redis.     *)
(* Redis commands may fail for good after their retries, and Redis may     *)
(* lose its data.                                                          *)
(***************************************************************************)
EXTENDS Integers, FiniteSets

CONSTANTS
  Devices,
  NoParent,     \* not a device
  Parent,       \* parent_id of every device, or NoParent
  Procs,        \* the handlers and loops running at the same time
  Ops,          \* what they do in this instance
  MaxVersion,   \* bound of the model on commits to one row
  MaxFaults     \* bound of the model on failed commands and lost data

AllOps == {"create", "write", "silent", "delete", "read"}

ASSUME ParentAssumption ==
  NoParent \notin Devices /\ Parent \in [Devices -> Devices \cup {NoParent}]
ASSUME BoundAssumption ==
  Ops \subseteq AllOps /\ MaxVersion \in Nat \ {0} /\ MaxFaults \in Nat

(***************************************************************************)
(* A row is its version: how many commits changed a column of DeviceRead.  *)
(* Before it is created a device has version 0, once deleted Gone; in the  *)
(* hash, 0 stands for no entry.                                            *)
(***************************************************************************)
VARIABLES
  ver,        \* PostgreSQL: the version of every row
  cache,      \* Redis devices:full: the version each entry was made from
  stamped,    \* Redis devices:schema_version has the current value
  proc,       \* the operations in progress
  disturbed,  \* devices whose entry was last written by an operation that
              \* overlapped another one or failed
  faults      \* how often Redis failed

vars == <<ver, cache, stamped, proc, disturbed, faults>>

Versions == 0 .. MaxVersion + 1

Gone == -1

(* The entry of a device whose row has version v.                          *)
Entry(v) == IF v = Gone THEN 0 ELSE v

Exists(d) == ver[d] \notin {0, Gone}

Children(d) == {c \in Devices : Parent[c] = d}

Nothing == [d \in Devices |-> 0]

Entries == [d \in Devices |-> Entry(ver[d])]

Idle == [pc |-> "idle", dev |-> NoParent, about |-> {}, got |-> Nothing,
         solo |-> TRUE]

ProcStates ==
  [pc: {"idle", "refresh", "upsert", "remove", "load", "warm"},
   dev: Devices \cup {NoParent}, about: SUBSET Devices,
   got: [Devices -> Versions], solo: BOOLEAN]

InFlight(d) == \E p \in Procs : d \in proc[p].about

(* Another operation touches the devices ds: those in progress about them  *)
(* do not run alone any more.                                              *)
Overlapped(ds) ==
  [q \in Procs |-> [proc[q] EXCEPT !.solo = @ /\ proc[q].about \cap ds = {}]]

(* Process p starts an operation about the devices ds, having touched the  *)
(* rows of more, and continues at pc.                                      *)
Begin(p, pc, d, ds, more) ==
  proc' = [Overlapped(ds \cup more) EXCEPT
             ![p] = [Idle EXCEPT !.pc = pc, !.dev = d, !.about = ds,
                       !.solo = \A q \in Procs : proc[q].about \cap ds = {}]]

(* Process p is through with its operation.                                *)
End(p) ==
  /\ proc' = [proc EXCEPT ![p] = Idle]
  /\ disturbed' = IF proc[p].solo THEN disturbed \ proc[p].about
                                  ELSE disturbed \cup proc[p].about

-----------------------------------------------------------------------------
(* Writers: commit, refresh, upsert.                                       *)

(* create_device.                                                          *)
Create(p, d) ==
  /\ "create" \in Ops
  /\ proc[p].pc = "idle"
  /\ ver[d] = 0
  /\ ver' = [ver EXCEPT ![d] = 1]
  /\ Begin(p, "refresh", d, {d}, {})
  /\ UNCHANGED <<cache, stamped, disturbed, faults>>

(* The commit of update, ack, mute, maintenance and simulate, of a check   *)
(* that changed a status or service result, of the alert engine and of the *)
(* SSH and SNMP collectors.                                                *)
Write(p, d) ==
  /\ "write" \in Ops
  /\ proc[p].pc = "idle"
  /\ ver[d] \in 1 .. MaxVersion - 1
  /\ ver' = [ver EXCEPT ![d] = @ + 1]
  /\ Begin(p, "refresh", d, {d}, {})
  /\ UNCHANGED <<cache, stamped, disturbed, faults>>

(* A check that changes neither status nor service result commits and is   *)
(* done, even when it has cleared the acknowledgement.                     *)
SilentWrite(p, d) ==
  /\ "silent" \in Ops
  /\ proc[p].pc = "idle"
  /\ ver[d] \in 1 .. MaxVersion - 1
  /\ ver' = [ver EXCEPT ![d] = @ + 1]
  /\ disturbed' = disturbed \cup {d}
  /\ proc' = Overlapped({d})
  /\ UNCHANGED <<cache, stamped, faults>>

(* The row is read back; if it is gone, the handler fails.                 *)
Refresh(p) ==
  /\ proc[p].pc = "refresh"
  /\ IF ~Exists(proc[p].dev)
     THEN End(p)
     ELSE /\ proc' = [proc EXCEPT ![p].pc = "upsert", ![p].got = Entries]
          /\ UNCHANGED disturbed
  /\ UNCHANGED <<ver, cache, stamped, faults>>

Fault_KeepOld(p) ==
  /\ proc[p].pc = "upsert"
  /\ cache' = [cache EXCEPT ![proc[p].dev] =
                 IF @ = 0 THEN proc[p].got[proc[p].dev] ELSE @]
  /\ End(p)
  /\ UNCHANGED <<ver, stamped, faults>>

(* upsert_device.                                                          *)
Upsert(p) ==
  /\ proc[p].pc = "upsert"
  /\ cache' = [cache EXCEPT ![proc[p].dev] = proc[p].got[proc[p].dev]]
  /\ End(p)
  /\ UNCHANGED <<ver, stamped, faults>>

(* delete_device commits; the foreign key sets parent_id of the children   *)
(* to NULL, a change of their rows too.                                    *)
Delete(p, d) ==
  /\ "delete" \in Ops
  /\ proc[p].pc = "idle"
  /\ Exists(d)
  /\ ver' = [c \in Devices |->
               IF c = d THEN Gone
               ELSE IF Parent[c] = d /\ Exists(c) THEN ver[c] + 1
               ELSE ver[c]]
  /\ Begin(p, "remove", d, {d}, Children(d))
  /\ disturbed' = disturbed \cup Children(d)
  /\ UNCHANGED <<cache, stamped, faults>>

(* remove_device.                                                          *)
Remove(p) ==
  /\ proc[p].pc = "remove"
  /\ cache' = [cache EXCEPT ![proc[p].dev] = 0]
  /\ End(p)
  /\ UNCHANGED <<ver, stamped, faults>>

-----------------------------------------------------------------------------
(* Readers: list_devices, and warm_cache_if_cold at start-up.              *)

(* The snapshot is cold: no current stamp, or an empty hash.               *)
Cold == ~stamped \/ cache = Nothing

ReadCold(p) ==
  /\ "read" \in Ops
  /\ proc[p].pc = "idle"
  /\ Cold
  /\ Begin(p, "load", NoParent, Devices, {})
  /\ UNCHANGED <<ver, cache, stamped, disturbed, faults>>

(* Redis cannot be read: the database is, whatever the snapshot holds, and *)
(* the snapshot is replaced if Redis answers again by then.                *)
ReadFails(p) ==
  /\ "read" \in Ops
  /\ proc[p].pc = "idle"
  /\ faults < MaxFaults
  /\ faults' = faults + 1
  /\ Begin(p, "load", NoParent, Devices, {})
  /\ UNCHANGED <<ver, cache, stamped, disturbed>>

(* A warm snapshot is served as it is.                                     *)
ReadWarm(p) ==
  /\ "read" \in Ops
  /\ proc[p].pc = "idle"
  /\ ~Cold
  /\ UNCHANGED vars

LoadAll(p) ==
  /\ proc[p].pc = "load"
  /\ proc' = [proc EXCEPT ![p].pc = "warm", ![p].got = Entries]
  /\ UNCHANGED <<ver, cache, stamped, disturbed, faults>>

Fault_NoStamp(p) ==
  /\ proc[p].pc = "warm"
  /\ cache' = proc[p].got
  /\ End(p)
  /\ UNCHANGED <<ver, stamped, faults>>

(* warm_devices: one transaction deletes the hash, fills it and stamps it. *)
Warm(p) ==
  /\ proc[p].pc = "warm"
  /\ cache' = proc[p].got
  /\ stamped' = TRUE
  /\ End(p)
  /\ UNCHANGED <<ver, faults>>

-----------------------------------------------------------------------------
(* The command of p fails after its retries, or the process dies: what it  *)
(* committed stays committed, what it had to tell Redis is never told.     *)
RedisFails(p) ==
  /\ proc[p].pc # "idle"
  /\ faults < MaxFaults
  /\ faults' = faults + 1
  /\ proc' = [proc EXCEPT ![p] = Idle]
  /\ disturbed' = disturbed \cup proc[p].about
  /\ UNCHANGED <<ver, cache, stamped>>

(* Redis comes back without its data.                                      *)
RedisLosesData ==
  /\ faults < MaxFaults
  /\ faults' = faults + 1
  /\ cache' = Nothing
  /\ stamped' = FALSE
  /\ UNCHANGED <<ver, proc, disturbed>>

-----------------------------------------------------------------------------
Init ==
  /\ ver \in [Devices -> {0, 1}]
  /\ \/ cache = Nothing /\ stamped = FALSE   \* a new Redis
     \/ cache = Entries /\ stamped = TRUE    \* the snapshot of an earlier life
  /\ proc = [p \in Procs |-> Idle]
  /\ disturbed = {}
  /\ faults = 0

Step(p) ==
  \/ \E d \in Devices : \/ Create(p, d) \/ Write(p, d)
                        \/ SilentWrite(p, d) \/ Delete(p, d)
  \/ Refresh(p) \/ Upsert(p) \/ Remove(p)
  \/ ReadCold(p) \/ ReadWarm(p) \/ LoadAll(p) \/ Warm(p)

Next == (\E p \in Procs : Step(p) \/ ReadFails(p) \/ RedisFails(p)) \/ RedisLosesData

Spec == Init /\ [][Next]_vars

(* A read of the dashboard (it polls), and what is in progress goes on.    *)
Progress(p) ==
  Refresh(p) \/ Upsert(p) \/ Remove(p) \/ ReadCold(p) \/ LoadAll(p) \/ Warm(p)

FairSpec == Spec /\ \A p \in Procs : WF_vars(Progress(p))

-----------------------------------------------------------------------------
TypeOK ==
  /\ ver \in [Devices -> Versions \cup {Gone}]
  /\ cache \in [Devices -> Versions]
  /\ stamped \in BOOLEAN
  /\ proc \in [Procs -> ProcStates]
  /\ disturbed \subseteq Devices
  /\ faults \in Nat

(* A snapshot that is served is exact about every device that nobody is    *)
(* working on, unless the entry was last touched by an operation that      *)
(* overlapped another, failed, or touched the row without telling Redis.   *)
(* So one undisturbed write of a device, or one undisturbed warm-up,       *)
(* repairs whatever was wrong before.                                      *)
ExactUnlessDisturbed ==
  ~Cold => \A d \in Devices \ disturbed : ~InFlight(d) => cache[d] = Entries[d]

(* The cache and the database are consistent whenever nothing is going on. *)
(* The code does not promise this; module CacheProofs says what it takes.  *)
QuietCacheExact ==
  ~Cold /\ (\A p \in Procs : proc[p].pc = "idle") =>
    cache = Entries

(* However often Redis loses its data, or an operation fails, the readers  *)
(* that poll bring a snapshot back as long as there is a device to show.   *)
SnapshotComesBack ==
  <>[](\E d \in Devices : Exists(d)) => []<>~Cold

=============================================================================
