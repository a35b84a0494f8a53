----------------------------- MODULE CacheProofs -----------------------------
(***************************************************************************)
(* Proofs about SnapshotCache, for any number of processes and devices:    *)
(* its types, and that a snapshot that is served is exact about every      *)
(* device nobody works on, unless the last operation on it was disturbed;  *)
(* and what has to be ruled out for it to be exact whenever nobody works.  *)
(***************************************************************************)
EXTENDS SnapshotCache, TLAPS

(* Only the deletion of its parent takes a row beyond MaxVersion, once.    *)
Bounded ==
  \A c \in Devices :
    ver[c] = MaxVersion + 1 => Parent[c] \in Devices /\ ver[Parent[c]] = Gone

TypeInv == TypeOK /\ Bounded

(* What an operation is about follows from how far it is.                  *)
Shaped(r) ==
  /\ r.pc = "idle" => r.about = {}
  /\ r.pc \in {"refresh", "upsert", "remove"} =>
       r.dev \in Devices /\ r.about = {r.dev}
  /\ r.pc \in {"load", "warm"} => r.about = Devices

(* Nobody else works on the devices of an operation that runs alone ...    *)
Alone(p) ==
  proc[p].solo =>
    \A q \in Procs \ {p} : proc[q].about \cap proc[p].about = {}

(* ... so what it has read of their rows is still so.                      *)
UpToDate(r) ==
  r.solo =>
    /\ r.pc = "refresh" => Exists(r.dev)
    /\ r.pc = "upsert" => r.got[r.dev] = Entry(ver[r.dev])
    /\ r.pc = "remove" => ver[r.dev] = Gone
    /\ r.pc = "warm" => \A d \in Devices : r.got[d] = Entry(ver[d])

Exact(d) == ~InFlight(d) => cache[d] = Entry(ver[d])

IInv ==
  /\ TypeInv
  /\ \A p \in Procs : Shaped(proc[p]) /\ Alone(p) /\ UpToDate(proc[p])
  /\ stamped => \A d \in Devices \ disturbed : Exact(d)

-----------------------------------------------------------------------------
LEMMA Constants ==
  /\ MaxVersion \in Nat \ {0} /\ Gone = -1 /\ Gone \notin Nat
  /\ Versions \subseteq Nat /\ 0 \in Versions /\ 1 \in Versions
  BY BoundAssumption DEF Versions, Gone

LEMMA EntryType == ASSUME NEW v \in Versions \cup {Gone} PROVE Entry(v) \in Versions
  BY Constants DEF Entry

LEMMA EntriesType ==
  ASSUME TypeOK
  PROVE  Entries \in [Devices -> Versions]
  BY EntryType DEF Entries, TypeOK

LEMMA IdleType == Idle \in ProcStates
  BY Constants DEF Idle, ProcStates, Nothing

LEMMA OverlappedType ==
  ASSUME TypeOK, NEW ds \in SUBSET Devices
  PROVE  Overlapped(ds) \in [Procs -> ProcStates]
<1>1. ASSUME NEW q \in Procs
      PROVE  [proc[q] EXCEPT !.solo = @ /\ proc[q].about \cap ds = {}] \in ProcStates
  BY DEF TypeOK, ProcStates
<1> QED BY <1>1 DEF Overlapped

LEMMA BeginType ==
  ASSUME TypeOK, NEW p \in Procs, NEW pc \in {"refresh", "remove", "load"},
         NEW d \in Devices \cup {NoParent},
         NEW ds \in SUBSET Devices, NEW more \in SUBSET Devices,
         Begin(p, pc, d, ds, more)
  PROVE  proc' \in [Procs -> ProcStates]
<1> DEFINE new == [Idle EXCEPT !.pc = pc, !.dev = d, !.about = ds,
                     !.solo = \A q \in Procs : proc[q].about \cap ds = {}]
<1>1. new \in ProcStates
  BY IdleType DEF ProcStates, Idle
<1>2. Overlapped(ds \cup more) \in [Procs -> ProcStates]
  BY OverlappedType
<1>3. proc' = [Overlapped(ds \cup more) EXCEPT ![p] = new]
  BY DEF Begin
<1> HIDE DEF new
<1> QED BY <1>1, <1>2, <1>3

LEMMA EndType ==
  ASSUME TypeOK, NEW p \in Procs, End(p)
  PROVE  proc' \in [Procs -> ProcStates] /\ disturbed' \subseteq Devices
<1>1. proc' \in [Procs -> ProcStates]
  BY IdleType DEF End, TypeOK
<1>2. proc[p].about \subseteq Devices
  BY DEF TypeOK, ProcStates
<1> QED BY <1>1, <1>2 DEF End, TypeOK

LEMMA RowWritten ==
  ASSUME TypeInv, NEW d \in Devices, NEW v \in 1 .. MaxVersion,
         ver[d] # Gone, ver' = [ver EXCEPT ![d] = v]
  PROVE  ver' \in [Devices -> Versions \cup {Gone}] /\ Bounded'
<1>1. ver' \in [Devices -> Versions \cup {Gone}]
  BY Constants DEF TypeInv, TypeOK, Versions
<1>2. ASSUME NEW c \in Devices, ver'[c] = MaxVersion + 1
      PROVE  Parent[c] \in Devices /\ ver'[Parent[c]] = Gone
  <2>1. c # d /\ ver[c] = MaxVersion + 1
    BY <1>2, Constants DEF TypeInv, TypeOK
  <2>2. Parent[c] \in Devices /\ ver[Parent[c]] = Gone
    BY <2>1 DEF TypeInv, Bounded
  <2> QED BY <2>2 DEF TypeInv, TypeOK
<1> QED BY <1>1, <1>2 DEF Bounded

LEMMA RowDeleted ==
  ASSUME TypeInv, NEW p \in Procs, NEW d \in Devices, Delete(p, d)
  PROVE  ver' \in [Devices -> Versions \cup {Gone}] /\ Bounded'
<1>1. /\ ver' = [c \in Devices |->
                   IF c = d THEN Gone
                   ELSE IF Parent[c] = d /\ Exists(c) THEN ver[c] + 1
                   ELSE ver[c]]
      /\ Exists(d) /\ ver[d] # Gone
  BY DEF Delete, Exists
<1>2. ASSUME NEW c \in Devices, c # d, Parent[c] = d, Exists(c)
      PROVE  ver[c] + 1 \in Versions
  <2>1. ver[c] \in Versions /\ ver[c] # MaxVersion + 1
    BY <1>1, <1>2 DEF TypeInv, TypeOK, Bounded, Exists
  <2> QED BY <2>1, Constants DEF Versions
<1>3. ver' \in [Devices -> Versions \cup {Gone}]
  BY <1>1, <1>2 DEF TypeInv, TypeOK
<1>4. ASSUME NEW c \in Devices, ver'[c] = MaxVersion + 1
      PROVE  Parent[c] \in Devices /\ ver'[Parent[c]] = Gone
  <2>1. c # d
    BY <1>1, <1>4, Constants
  <2>2. CASE Parent[c] = d
    BY <1>1, <2>2
  <2>3. CASE Parent[c] # d
    <3>1. ver[c] = MaxVersion + 1
      BY <1>1, <1>4, <2>1, <2>3
    <3>2. Parent[c] \in Devices /\ ver[Parent[c]] = Gone
      BY <3>1 DEF TypeInv, Bounded
    <3> QED BY <1>1, <3>2 DEF Exists
  <2> QED BY <2>2, <2>3
<1> QED BY <1>3, <1>4 DEF Bounded

LEMMA TypeInit == Init => TypeInv
<1> SUFFICES ASSUME Init PROVE TypeInv
  OBVIOUS
<1>1. ver \in [Devices -> Versions \cup {Gone}] /\ Bounded
  BY Constants DEF Init, Bounded
<1>2. cache \in [Devices -> Versions]
  BY <1>1, EntryType, Constants DEF Init, Entries, Nothing
<1> QED BY <1>1, <1>2, IdleType DEF Init, TypeInv, TypeOK

LEMMA TypeStep == TypeInv /\ [Next]_vars => TypeInv'
<1> SUFFICES ASSUME TypeInv, [Next]_vars PROVE TypeInv'
  OBVIOUS
<1>0. TypeOK /\ Bounded
  BY DEF TypeInv
<1>1. ASSUME NEW p \in Procs, NEW d \in Devices, Create(p, d) \/ Write(p, d)
      PROVE  TypeInv'
  <2>1. /\ ver[d] + 1 \in 1 .. MaxVersion /\ ver[d] # Gone
        /\ ver' = [ver EXCEPT ![d] = ver[d] + 1]
    <3>1. CASE Create(p, d)
      BY <3>1, Constants DEF Create
    <3>2. CASE Write(p, d)
      BY <3>2, Constants DEF Write
    <3> QED BY <1>1, <3>1, <3>2
  <2>2. Begin(p, "refresh", d, {d}, {}) /\ UNCHANGED <<cache, stamped, disturbed, faults>>
    BY <1>1 DEF Create, Write
  <2>3. proc' \in [Procs -> ProcStates]
    BY <1>0, <2>2, BeginType
  <2> QED BY <1>0, <2>1, <2>2, <2>3, RowWritten DEF TypeInv, TypeOK
<1>2. ASSUME NEW p \in Procs, NEW d \in Devices, SilentWrite(p, d) PROVE TypeInv'
  <2>1. /\ ver[d] + 1 \in 1 .. MaxVersion /\ ver[d] # Gone
        /\ ver' = [ver EXCEPT ![d] = ver[d] + 1]
    BY <1>2, Constants DEF SilentWrite
  <2>2. proc' \in [Procs -> ProcStates]
    BY <1>0, <1>2, OverlappedType DEF SilentWrite
  <2> QED BY <1>0, <1>2, <2>1, <2>2, RowWritten DEF SilentWrite, TypeInv, TypeOK
<1>3. ASSUME NEW p \in Procs, NEW d \in Devices, Delete(p, d) PROVE TypeInv'
  <2>1. /\ Begin(p, "remove", d, {d}, Children(d))
        /\ disturbed' = disturbed \cup Children(d)
        /\ UNCHANGED <<cache, stamped, faults>>
    BY <1>3 DEF Delete
  <2>2. Children(d) \subseteq Devices
    BY DEF Children
  <2>3. proc' \in [Procs -> ProcStates]
    BY <1>0, <2>1, <2>2, BeginType
  <2> QED BY <1>0, <1>3, <2>1, <2>2, <2>3, RowDeleted DEF TypeInv, TypeOK
<1>4. ASSUME NEW p \in Procs, Refresh(p) \/ LoadAll(p) PROVE TypeInv'
  <2>1. CASE End(p)
    BY <1>0, <1>4, <2>1, EndType DEF Refresh, LoadAll, TypeInv, TypeOK, Bounded
  <2>2. CASE ~End(p)
    <3>1. PICK pc \in {"upsert", "warm"} :
            proc' = [proc EXCEPT ![p].pc = pc, ![p].got = Entries]
      BY <1>4, <2>2 DEF Refresh, LoadAll
    <3>2. [proc[p] EXCEPT !.pc = pc, !.got = Entries] \in ProcStates
      BY <1>0, EntriesType DEF TypeOK, ProcStates
    <3>3. proc' = [proc EXCEPT ![p] = [proc[p] EXCEPT !.pc = pc, !.got = Entries]]
      BY <3>1
    <3>4. proc' \in [Procs -> ProcStates]
      BY <1>0, <3>2, <3>3 DEF TypeOK
    <3> QED BY <1>0, <1>4, <2>2, <3>4 DEF Refresh, LoadAll, TypeInv, TypeOK, Bounded
  <2> QED BY <2>1, <2>2
<1>5. ASSUME NEW p \in Procs, Upsert(p) \/ Remove(p) \/ Warm(p) PROVE TypeInv'
  <2>1. End(p) /\ UNCHANGED <<ver, faults>> /\ stamped' \in BOOLEAN
    BY <1>0, <1>5 DEF Upsert, Remove, Warm, TypeOK
  <2>2. proc[p].got \in [Devices -> Versions]
    BY <1>0 DEF TypeOK, ProcStates
  <2>3. cache' \in [Devices -> Versions]
    BY <1>0, <1>5, <2>2, Constants DEF Upsert, Remove, Warm, TypeOK
  <2> QED BY <1>0, <2>1, <2>3, EndType DEF TypeInv, TypeOK, Bounded
<1>6. ASSUME NEW p \in Procs, ReadCold(p) \/ ReadFails(p) PROVE TypeInv'
  <2>0. /\ Begin(p, "load", NoParent, Devices, {})
        /\ UNCHANGED <<ver, cache, stamped, disturbed>> /\ faults' \in Nat
    BY <1>0, <1>6 DEF ReadCold, ReadFails, TypeOK
  <2>1. proc' \in [Procs -> ProcStates]
    BY <1>0, <2>0, BeginType
  <2> QED BY <1>0, <2>0, <2>1 DEF TypeInv, TypeOK, Bounded
<1>7. ASSUME NEW p \in Procs, RedisFails(p) PROVE TypeInv'
  <2>1. proc' \in [Procs -> ProcStates]
    BY <1>0, <1>7, IdleType DEF RedisFails, TypeOK
  <2>2. proc[p].about \subseteq Devices
    BY <1>0 DEF TypeOK, ProcStates
  <2> QED BY <1>0, <1>7, <2>1, <2>2 DEF RedisFails, TypeInv, TypeOK, Bounded
<1>8. CASE RedisLosesData
  <2>1. Nothing \in [Devices -> Versions]
    BY Constants DEF Nothing
  <2>2. Bounded'
    BY <1>0, <1>8 DEF RedisLosesData, Bounded
  <2>3. faults' \in Nat
    BY <1>0, <1>8 DEF RedisLosesData, TypeOK
  <2> QED BY <1>0, <1>8, <2>1, <2>2, <2>3 DEF RedisLosesData, TypeInv, TypeOK
<1>9. ASSUME UNCHANGED vars PROVE TypeInv'
  BY <1>0, <1>9 DEF vars, TypeInv, TypeOK, Bounded
<1> QED
  BY <1>1, <1>2, <1>3, <1>4, <1>5, <1>6, <1>7, <1>8, <1>9 DEF Next, Step, ReadWarm

(* The rows, the snapshot and the operations keep their types, whatever    *)
(* overlaps and fails.                                                     *)
THEOREM CacheTypeCorrect == Spec => []TypeOK
<1>1. TypeInv => TypeOK
  BY DEF TypeInv
<1> QED BY <1>1, TypeInit, TypeStep, PTL DEF Spec

-----------------------------------------------------------------------------
(* Every operation is shaped, alone and up to date as its record says.     *)
Sound(p) == Shaped(proc[p]) /\ Alone(p) /\ UpToDate(proc[p])

LEMMA ToldOnce ==
  ASSUME NEW r \in ProcStates, NEW ds, NEW s,
         s = [r EXCEPT !.solo = @ /\ r.about \cap ds = {}]
  PROVE  /\ s.pc = r.pc /\ s.dev = r.dev /\ s.about = r.about /\ s.got = r.got
         /\ s.solo => r.solo /\ r.about \cap ds = {}
<1> DEFINE b == r.solo /\ r.about \cap ds = {}
<1>1. b \in BOOLEAN
  BY Zenon DEF ProcStates
<1>2. s = [r EXCEPT !.solo = b]
  OBVIOUS
<1>3. b => r.solo /\ r.about \cap ds = {}
  OBVIOUS
<1> HIDE DEF b
<1>4. s.solo = b /\ s.pc = r.pc /\ s.dev = r.dev /\ s.about = r.about /\ s.got = r.got
  BY <1>1, <1>2 DEF ProcStates
<1> QED BY <1>3, <1>4

(* A step of p that touches the devices ds tells all operations about them *)
(* that they are not alone; the others have nothing to lose.               *)
LEMMA OthersTold ==
  ASSUME IInv, NEW p \in Procs, NEW ds \in SUBSET Devices,
         \A e \in Devices \ ds : ver'[e] = ver[e],
         \A q \in Procs \ {p} : proc'[q] = Overlapped(ds)[q],
         proc'[p].about \subseteq ds
  PROVE  \A q \in Procs \ {p} : Sound(q)'
<1> SUFFICES ASSUME NEW q \in Procs \ {p} PROVE Sound(q)'
  OBVIOUS
<1>1. \A r \in Procs : proc[r] \in ProcStates
  BY DEF IInv, TypeInv, TypeOK
<1>2. \A r \in Procs \ {p} :
        proc'[r] = [proc[r] EXCEPT !.solo = @ /\ proc[r].about \cap ds = {}]
  BY DEF Overlapped
<1>3. \A r \in Procs \ {p} :
        /\ proc'[r].pc = proc[r].pc /\ proc'[r].dev = proc[r].dev
        /\ proc'[r].about = proc[r].about /\ proc'[r].got = proc[r].got
        /\ proc'[r].solo => proc[r].solo /\ proc[r].about \cap ds = {}
  BY <1>1, <1>2, ToldOnce
<1>4. Shaped(proc[q])'
  BY <1>3 DEF IInv, Shaped
<1>5. Alone(q)'
  BY <1>3 DEF IInv, Alone
<1>6. ASSUME proc'[q].solo PROVE \A e \in proc[q].about : ver'[e] = ver[e]
  BY <1>1, <1>3, <1>6 DEF ProcStates
<1>7. UpToDate(proc[q]) /\ Shaped(proc[q])
  BY DEF IInv
<1>8. UpToDate(proc[q])'
  BY <1>3, <1>6, <1>7 DEF UpToDate, Shaped, Exists
<1> QED BY <1>4, <1>5, <1>8 DEF Sound

(* A step of p that touches no row and is about nothing new changes        *)
(* nothing for the others.                                                 *)
LEMMA OthersKept ==
  ASSUME IInv, NEW p \in Procs, UNCHANGED ver,
         \A q \in Procs \ {p} : proc'[q] = proc[q],
         proc'[p].about \subseteq proc[p].about
  PROVE  \A q \in Procs \ {p} : Sound(q)'
<1> SUFFICES ASSUME NEW q \in Procs \ {p} PROVE Sound(q)'
  OBVIOUS
<1>1. Shaped(proc[q]) /\ Alone(q) /\ UpToDate(proc[q]) /\ proc'[q] = proc[q]
  BY DEF IInv
<1>2. Alone(q)'
  BY <1>1 DEF Alone
<1> QED BY <1>1, <1>2 DEF Sound, Shaped, UpToDate, Exists

LEMMA IdleSound ==
  ASSUME NEW p \in Procs, proc'[p] = Idle
  PROVE  Sound(p)'
  BY DEF Sound, Shaped, Alone, UpToDate, Idle

(* The start of an operation about ds that touches ds and more.            *)
LEMMA BeginSound ==
  ASSUME IInv, NEW p \in Procs, NEW pc \in {"refresh", "remove", "load"},
         NEW d \in Devices \cup {NoParent},
         NEW ds \in SUBSET Devices, NEW more \in SUBSET Devices,
         Begin(p, pc, d, ds, more),
         \A e \in Devices \ (ds \cup more) : ver'[e] = ver[e],
         pc = "load" => ds = Devices,
         pc \in {"refresh", "remove"} => d \in Devices /\ ds = {d},
         pc = "refresh" => ver'[d] \notin {0, Gone},
         pc = "remove" => ver'[d] = Gone
  PROVE  /\ \A q \in Procs : Sound(q)'
         /\ proc'[p].about = ds
         /\ \A q \in Procs \ {p} : proc'[q].about = proc[q].about
<1> DEFINE new == [Idle EXCEPT !.pc = pc, !.dev = d, !.about = ds,
                     !.solo = \A q \in Procs : proc[q].about \cap ds = {}]
<1>0. TypeOK /\ \A r \in Procs : proc[r] \in ProcStates
  BY DEF IInv, TypeInv, TypeOK
<1>1. Overlapped(ds \cup more) \in [Procs -> ProcStates]
  BY <1>0, OverlappedType
<1>2. proc' = [Overlapped(ds \cup more) EXCEPT ![p] = new]
  BY DEF Begin
<1>3. /\ new.pc = pc /\ new.dev = d /\ new.about = ds
      /\ new.solo => \A q \in Procs : proc[q].about \cap ds = {}
  BY DEF Idle
<1> HIDE DEF new
<1>4. proc'[p] = new /\ \A q \in Procs \ {p} : proc'[q] = Overlapped(ds \cup more)[q]
  BY <1>1, <1>2
<1>5. \A q \in Procs \ {p} : proc'[q].about = proc[q].about
  BY <1>0, <1>4, ToldOnce DEF Overlapped
<1>6. \A q \in Procs \ {p} : Sound(q)'
  BY <1>3, <1>4, OthersTold
<1>7. Shaped(proc[p])'
  BY <1>3, <1>4 DEF Shaped
<1>8. Alone(p)'
  BY <1>3, <1>4, <1>5 DEF Alone
<1>9. UpToDate(proc[p])'
  BY <1>3, <1>4 DEF UpToDate, Exists
<1>10. Sound(p)'
  BY <1>7, <1>8, <1>9 DEF Sound
<1> QED BY <1>3, <1>4, <1>5, <1>6, <1>10

(* The snapshot is not written, and nothing in progress ends.              *)
LEMMA ExactKept ==
  ASSUME IInv, UNCHANGED <<cache, stamped>>, disturbed \subseteq disturbed',
         \A q \in Procs : proc[q].about \subseteq proc'[q].about,
         \A e \in Devices : \/ ver'[e] = ver[e] \/ e \in disturbed'
                            \/ \E q \in Procs : e \in proc'[q].about
  PROVE  stamped' => \A d \in Devices \ disturbed' : Exact(d)'
<1> SUFFICES ASSUME stamped', NEW d \in Devices \ disturbed', ~InFlight(d)'
             PROVE  cache'[d] = Entry(ver'[d])
  BY DEF Exact, Entry, Gone
<1>1. ~InFlight(d) /\ ver'[d] = ver[d] /\ d \notin disturbed
  BY DEF InFlight
<1>2. cache[d] = Entry(ver[d])
  BY <1>1 DEF IInv, Exact
<1> QED BY <1>1, <1>2

(* An operation that ends leaves its devices exact or disturbed.           *)
LEMMA ExactLeft ==
  ASSUME IInv, NEW p \in Procs, UNCHANGED ver,
         \A q \in Procs \ {p} : proc'[q] = proc[q],
         disturbed \ proc[p].about \subseteq disturbed',
         stamped' => stamped \/ proc[p].about = Devices,
         \A e \in Devices \ proc[p].about : cache'[e] = cache[e],
         \A e \in proc[p].about : e \in disturbed' \/ cache'[e] = Entry(ver[e])
  PROVE  stamped' => \A d \in Devices \ disturbed' : Exact(d)'
<1> SUFFICES ASSUME stamped', NEW d \in Devices \ disturbed', ~InFlight(d)'
             PROVE  cache'[d] = Entry(ver'[d])
  BY DEF Exact, Entry, Gone
<1>1. CASE d \in proc[p].about
  BY <1>1
<1>2. CASE d \notin proc[p].about
  <2>1. ~InFlight(d) /\ stamped /\ d \notin disturbed
    BY <1>2 DEF InFlight
  <2>2. cache[d] = Entry(ver[d])
    BY <2>1 DEF IInv, Exact
  <2> QED BY <1>2, <2>2
<1> QED BY <1>1, <1>2

LEMMA InvInit == Init => IInv
<1> SUFFICES ASSUME Init PROVE IInv
  OBVIOUS
<1>1. TypeInv
  BY TypeInit
<1>2. \A p \in Procs : proc[p] = Idle
  BY DEF Init
<1>3. \A p \in Procs : Shaped(proc[p]) /\ Alone(p) /\ UpToDate(proc[p])
  BY <1>2 DEF Idle, Shaped, Alone, UpToDate
<1>4. stamped => \A d \in Devices : cache[d] = Entry(ver[d])
  BY DEF Init, Entries
<1> QED BY <1>1, <1>3, <1>4 DEF IInv, Exact

LEMMA InvStep == IInv /\ [Next]_vars => IInv'
<1> SUFFICES ASSUME IInv, [Next]_vars PROVE IInv'
  OBVIOUS
<1>0. TypeInv /\ TypeInv' /\ TypeOK
  BY TypeStep DEF IInv, TypeInv
<1> DEFINE Snapshot == stamped => \A d \in Devices \ disturbed : Exact(d)
<1>i. (\A q \in Procs : Sound(q)') /\ Snapshot' => IInv'
  BY <1>0 DEF IInv, Sound
<1> HIDE DEF Snapshot
<1>1. ASSUME NEW p \in Procs, NEW d \in Devices, Create(p, d) \/ Write(p, d)
      PROVE  IInv'
  <2>1. /\ Begin(p, "refresh", d, {d}, {}) /\ proc[p].pc = "idle"
        /\ UNCHANGED <<cache, stamped, disturbed, faults>>
    BY <1>1 DEF Create, Write
  <2>2. /\ ver'[d] \notin {0, Gone}
        /\ \A e \in Devices \ ({d} \cup {}) : ver'[e] = ver[e]
        /\ {d} \in SUBSET Devices /\ {} \in SUBSET Devices
    BY <1>0, <1>1, Constants DEF Create, Write, TypeOK
  <2>3. /\ \A q \in Procs : Sound(q)'
        /\ proc'[p].about = {d}
        /\ \A q \in Procs \ {p} : proc'[q].about = proc[q].about
    BY <2>1, <2>2, BeginSound
  <2>4. proc[p].about = {}
    BY <2>1 DEF IInv, Shaped
  <2>5. Snapshot'
    BY <2>1, <2>2, <2>3, <2>4, ExactKept DEF Snapshot
  <2> QED BY <1>i, <2>3, <2>5
<1>2. ASSUME NEW p \in Procs, NEW d \in Devices, SilentWrite(p, d) PROVE IInv'
  <2>1. /\ proc[p].pc = "idle" /\ proc' = Overlapped({d})
        /\ disturbed' = disturbed \cup {d} /\ UNCHANGED <<cache, stamped>>
        /\ \A e \in Devices \ {d} : ver'[e] = ver[e]
    BY <1>0, <1>2 DEF SilentWrite, TypeOK
  <2>2. \A q \in Procs : /\ proc'[q].about = proc[q].about
                         /\ proc'[q].pc = proc[q].pc
    <3>1. \A q \in Procs : proc[q] \in ProcStates
      BY <1>0 DEF TypeOK
    <3> QED BY <2>1, <3>1, ToldOnce DEF Overlapped
  <2>3. proc[p].about = {}
    BY <2>1 DEF IInv, Shaped
  <2>4. \A q \in Procs \ {p} : Sound(q)'
    <3>1. {d} \in SUBSET Devices /\ proc'[p].about \subseteq {d}
      BY <2>2, <2>3
    <3> QED BY <2>1, <3>1, OthersTold
  <2>5. Sound(p)'
    BY <2>1, <2>2, <2>3 DEF Sound, Shaped, Alone, UpToDate
  <2>6. Snapshot'
    BY <2>1, <2>2, ExactKept DEF Snapshot
  <2> QED BY <1>i, <2>4, <2>5, <2>6
<1>3. ASSUME NEW p \in Procs, NEW d \in Devices, Delete(p, d) PROVE IInv'
  <2>1. /\ Begin(p, "remove", d, {d}, Children(d)) /\ proc[p].pc = "idle"
        /\ disturbed' = disturbed \cup Children(d)
        /\ UNCHANGED <<cache, stamped>>
    BY <1>3 DEF Delete
  <2>2. /\ ver'[d] = Gone
        /\ \A e \in Devices \ ({d} \cup Children(d)) : ver'[e] = ver[e]
    BY <1>3 DEF Delete, Children
  <2>3. Children(d) \in SUBSET Devices /\ {d} \in SUBSET Devices
    BY DEF Children
  <2>4. /\ \A q \in Procs : Sound(q)'
        /\ proc'[p].about = {d}
        /\ \A q \in Procs \ {p} : proc'[q].about = proc[q].about
    BY <2>1, <2>2, <2>3, BeginSound
  <2>5. proc[p].about = {}
    BY <2>1 DEF IInv, Shaped
  <2>6. Snapshot'
    BY <2>1, <2>2, <2>4, <2>5, ExactKept DEF Snapshot
  <2> QED BY <1>i, <2>4, <2>6
<1>4. ASSUME NEW p \in Procs, ReadCold(p) \/ ReadFails(p) PROVE IInv'
  <2>1. /\ Begin(p, "load", NoParent, Devices, {}) /\ proc[p].pc = "idle"
        /\ UNCHANGED <<ver, cache, stamped, disturbed>>
    BY <1>4 DEF ReadCold, ReadFails
  <2>2. /\ \A q \in Procs : Sound(q)'
        /\ proc'[p].about = Devices
        /\ \A q \in Procs \ {p} : proc'[q].about = proc[q].about
    BY <2>1, BeginSound
  <2>3. proc[p].about = {}
    BY <2>1 DEF IInv, Shaped
  <2>4. Snapshot'
    BY <2>1, <2>2, <2>3, ExactKept DEF Snapshot
  <2> QED BY <1>i, <2>2, <2>4
<1>5. ASSUME NEW p \in Procs, NEW pc \in {"upsert", "warm"},
             proc' = [proc EXCEPT ![p].pc = pc, ![p].got = Entries],
             UNCHANGED <<ver, cache, stamped, disturbed>>,
             pc = "upsert" => proc[p].pc = "refresh",
             pc = "warm" => proc[p].pc = "load"
      PROVE  IInv'
  <2>1. /\ proc'[p].pc = pc /\ proc'[p].got = Entries
        /\ proc'[p].about = proc[p].about /\ proc'[p].dev = proc[p].dev
        /\ proc'[p].solo = proc[p].solo
        /\ \A q \in Procs \ {p} : proc'[q] = proc[q]
    BY <1>0, <1>5 DEF TypeOK, ProcStates
  <2>2. \A q \in Procs \ {p} : Sound(q)'
    BY <1>5, <2>1, OthersKept
  <2>3. Shaped(proc[p]) /\ Alone(p)
    BY DEF IInv
  <2>4. Shaped(proc[p])'
    BY <1>5, <2>1, <2>3 DEF Shaped
  <2>5. Alone(p)'
    BY <2>1, <2>3 DEF Alone
  <2>6. UpToDate(proc[p])'
    <3>1. \A e \in Devices : proc'[p].got[e] = Entry(ver[e])
      BY <2>1 DEF Entries
    <3>2. pc = "upsert" => proc[p].dev \in Devices
      BY <1>5, <2>3 DEF Shaped
    <3> QED BY <1>5, <2>1, <3>1, <3>2 DEF UpToDate, Entry, Gone
  <2>7. Snapshot'
    BY <1>5, <2>1, ExactKept DEF Snapshot
  <2> QED BY <1>i, <2>2, <2>4, <2>5, <2>6, <2>7 DEF Sound
<1>6. ASSUME NEW p \in Procs, UNCHANGED ver, proc' = [proc EXCEPT ![p] = Idle],
             disturbed \ proc[p].about \subseteq disturbed',
             stamped' => stamped \/ proc[p].about = Devices,
             \A e \in Devices \ proc[p].about : cache'[e] = cache[e],
             \A e \in proc[p].about : e \in disturbed' \/ cache'[e] = Entry(ver[e])
      PROVE  IInv'
  <2>1. proc'[p] = Idle /\ \A q \in Procs \ {p} : proc'[q] = proc[q]
    BY <1>0, <1>6 DEF TypeOK
  <2>2. \A q \in Procs \ {p} : Sound(q)'
    BY <1>6, <2>1, OthersKept DEF Idle
  <2>3. Sound(p)'
    BY <2>1, IdleSound
  <2>4. Snapshot'
    BY <1>6, <2>1, ExactLeft DEF Snapshot
  <2> QED BY <1>i, <2>2, <2>3, <2>4
<1>7. ASSUME NEW p \in Procs, Refresh(p) PROVE IInv'
  <2>1. CASE Exists(proc[p].dev)
    BY <1>5, <1>7, <2>1 DEF Refresh
  <2>2. CASE ~Exists(proc[p].dev)
    <3>1. End(p) /\ UNCHANGED <<ver, cache, stamped>> /\ proc[p].pc = "refresh"
      BY <1>7, <2>2 DEF Refresh
    <3>2. ~proc[p].solo
      BY <2>2, <3>1 DEF IInv, UpToDate
    <3> QED BY <1>6, <3>1, <3>2 DEF End
  <2> QED BY <2>1, <2>2
<1>8. ASSUME NEW p \in Procs, LoadAll(p) PROVE IInv'
  BY <1>5, <1>8 DEF LoadAll
<1>9. ASSUME NEW p \in Procs, Upsert(p) \/ Remove(p) PROVE IInv'
  <2>1. /\ End(p) /\ UNCHANGED <<ver, stamped>>
        /\ proc[p].dev \in Devices /\ proc[p].about = {proc[p].dev}
    BY <1>9 DEF Upsert, Remove, IInv, Shaped
  <2>2. /\ proc[p].solo => cache'[proc[p].dev] = Entry(ver[proc[p].dev])
        /\ \A e \in Devices \ {proc[p].dev} : cache'[e] = cache[e]
    <3>1. UpToDate(proc[p])
      BY DEF IInv
    <3>2. CASE Upsert(p)
      BY <1>0, <2>1, <3>1, <3>2 DEF Upsert, UpToDate, TypeOK
    <3>3. CASE Remove(p)
      BY <1>0, <2>1, <3>1, <3>3 DEF Remove, UpToDate, TypeOK, Entry
    <3> QED BY <1>9, <3>2, <3>3
  <2>3. CASE proc[p].solo
    BY <1>6, <2>1, <2>2, <2>3 DEF End
  <2>4. CASE ~proc[p].solo
    BY <1>6, <2>1, <2>2, <2>4 DEF End
  <2> QED BY <2>3, <2>4
<1>10. ASSUME NEW p \in Procs, Warm(p) PROVE IInv'
  <2>1. /\ End(p) /\ UNCHANGED ver /\ cache' = proc[p].got
        /\ proc[p].pc = "warm" /\ proc[p].about = Devices
    BY <1>10 DEF Warm, IInv, Shaped
  <2>2. proc[p].solo => \A e \in Devices : cache'[e] = Entry(ver[e])
    BY <2>1 DEF IInv, UpToDate
  <2>3. CASE proc[p].solo
    BY <1>6, <2>1, <2>2, <2>3 DEF End
  <2>4. CASE ~proc[p].solo
    BY <1>6, <2>1, <2>4 DEF End
  <2> QED BY <2>3, <2>4
<1>11. ASSUME NEW p \in Procs, RedisFails(p) PROVE IInv'
  BY <1>6, <1>11 DEF RedisFails
<1>12. CASE RedisLosesData
  <2>1. ~stamped' /\ UNCHANGED <<ver, proc>>
    BY <1>12 DEF RedisLosesData
  <2>2. \A q \in Procs : Sound(q)'
    BY <2>1 DEF IInv, Sound, Shaped, Alone, UpToDate, Exists
  <2>3. Snapshot'
    BY <2>1 DEF Snapshot
  <2> QED BY <1>i, <2>2, <2>3
<1>13. ASSUME UNCHANGED vars PROVE IInv'
  <2>1. \A q \in Procs : Sound(q)'
    BY <1>13 DEF vars, IInv, Sound, Shaped, Alone, UpToDate, Exists
  <2>2. Snapshot'
    BY <1>13 DEF vars, IInv, Snapshot, Exact, InFlight
  <2> QED BY <1>i, <2>1, <2>2
<1> QED
  BY <1>1, <1>2, <1>3, <1>4, <1>7, <1>8, <1>9, <1>10, <1>11, <1>12, <1>13
     DEF Next, Step, ReadWarm

(* A snapshot that is served shows the committed row of every device that  *)
(* nobody is working on, unless the last operation on that device ran into *)
(* another one, failed, or did not tell Redis.                             *)
THEOREM ServedIsExact == Spec => []ExactUnlessDisturbed
<1>1. IInv => ExactUnlessDisturbed
  BY DEF IInv, ExactUnlessDisturbed, Exact, Cold, Entries
<1> QED BY <1>1, InvInit, InvStep, PTL DEF Spec

-----------------------------------------------------------------------------
(* A snapshot that is stamped and yet empty is taken for a cold one.  It   *)
(* is empty for a reason: every device there is has just been worked on.   *)
EmptyForAReason ==
  stamped /\ cache = Nothing =>
    \A d \in Devices : Exists(d) => d \in disturbed \/ InFlight(d)

(* Without a loss of data, a warm snapshot goes cold only while all its    *)
(* devices are being written, or were by operations that crossed or failed:*)
(* the safety half of SnapshotComesBack.                                   *)
THEOREM SnapshotEmptyForAReason == Spec => []EmptyForAReason
<1>1. IInv => EmptyForAReason
  <2> SUFFICES ASSUME IInv, stamped, cache = Nothing,
                      NEW d \in Devices, Exists(d), d \notin disturbed, ~InFlight(d)
               PROVE  FALSE
    BY DEF EmptyForAReason
  <2>1. cache[d] = Entry(ver[d])
    BY DEF IInv, Exact
  <2>2. Entry(ver[d]) # 0
    BY DEF Exists, Entry
  <2> QED BY <2>1, <2>2 DEF Nothing
<1> QED BY <1>1, InvInit, InvStep, PTL DEF Spec

-----------------------------------------------------------------------------
(* What a snapshot that is never wrong would need: one operation at a      *)
(* time, each of which tells Redis all it did, to a Redis that never fails.*)
OneAtATime == \A p, q \in Procs : p = q
EveryWriteTells ==
  /\ "silent" \notin Ops
  /\ "delete" \in Ops => \A d \in Devices : Children(d) = {}
RedisHolds == MaxFaults = 0

Calm == disturbed = {} /\ \A p \in Procs : proc[p].solo

LEMMA CalmStep ==
  ASSUME OneAtATime, EveryWriteTells, RedisHolds, IInv, Calm, [Next]_vars
  PROVE  Calm'
<1> USE DEF Calm
<1>0. TypeOK /\ Idle.solo /\ ~(faults < MaxFaults)
  BY DEF IInv, TypeInv, TypeOK, Idle, RedisHolds
<1>1. ASSUME NEW p \in Procs, proc[p].pc = "idle", NEW pc, NEW d, NEW ds,
             NEW more, Begin(p, pc, d, ds, more), disturbed' = disturbed
      PROVE  Calm'
  <2> DEFINE new == [Idle EXCEPT !.pc = pc, !.dev = d, !.about = ds,
                       !.solo = \A q \in Procs : proc[q].about \cap ds = {}]
  <2>1. \A q \in Procs : q = p /\ proc[q].about = {}
    BY <1>1 DEF OneAtATime, IInv, Shaped
  <2>2. new.solo
    BY <2>1 DEF Idle
  <2>3. proc' = [Overlapped(ds \cup more) EXCEPT ![p] = new]
    BY <1>1 DEF Begin
  <2> HIDE DEF new
  <2>4. proc'[p] = new
    BY <2>3 DEF Overlapped
  <2> QED BY <1>1, <2>1, <2>2, <2>4
<1>2. ASSUME NEW p \in Procs, End(p) PROVE Calm'
  BY <1>0, <1>2 DEF End, TypeOK
<1>3. ASSUME NEW p \in Procs, NEW d \in Devices, Create(p, d) \/ Write(p, d)
      PROVE  Calm'
  BY <1>1, <1>3 DEF Create, Write
<1>4. ASSUME NEW p \in Procs, NEW d \in Devices, Delete(p, d) PROVE Calm'
  <2>1. Children(d) = {} /\ disturbed' = disturbed
    BY <1>4 DEF Delete, EveryWriteTells
  <2> QED BY <1>1, <1>4, <2>1 DEF Delete
<1>5. ASSUME NEW p \in Procs, Refresh(p) PROVE Calm'
  <2>1. CASE End(p)
    BY <1>2, <2>1
  <2>2. CASE /\ proc' = [proc EXCEPT ![p].pc = "upsert", ![p].got = Entries]
             /\ UNCHANGED disturbed
    BY <1>0, <2>2 DEF TypeOK, ProcStates
  <2> QED BY <1>5, <2>1, <2>2 DEF Refresh
<1>6. ASSUME NEW p \in Procs, Upsert(p) \/ Remove(p) \/ Warm(p) PROVE Calm'
  BY <1>2, <1>6 DEF Upsert, Remove, Warm
<1>7. ASSUME NEW p \in Procs, ReadCold(p) PROVE Calm'
  BY <1>1, <1>7 DEF ReadCold
<1>8. ASSUME NEW p \in Procs, LoadAll(p) PROVE Calm'
  BY <1>0, <1>8 DEF LoadAll, TypeOK, ProcStates
<1>9. ASSUME NEW p \in Procs, NEW d \in Devices, SilentWrite(p, d) PROVE FALSE
  BY <1>9 DEF SilentWrite, EveryWriteTells
<1>10. ASSUME NEW p \in Procs, ReadFails(p) \/ RedisFails(p) PROVE FALSE
  BY <1>0, <1>10 DEF ReadFails, RedisFails
<1>11. ~RedisLosesData
  BY <1>0 DEF RedisLosesData
<1>12. ASSUME UNCHANGED vars PROVE Calm'
  BY <1>12 DEF vars
<1> QED
  BY <1>3, <1>4, <1>5, <1>6, <1>7, <1>8, <1>9, <1>10, <1>11, <1>12
     DEF Next, Step, ReadWarm

(* Then whatever is served between two operations is the database, exactly.*)
(* None of the three can be spared: two writers that cross, a silent       *)
(* write, the deletion of a parent and a failed command each leave an      *)
(* entry that is wrong, until an undisturbed operation repairs it          *)
(* (ServedIsExact).                                                        *)
THEOREM SequentialCacheIsExact ==
  ASSUME OneAtATime, EveryWriteTells, RedisHolds
  PROVE  Spec => []QuietCacheExact
<1>1. Init => Calm
  BY DEF Init, Calm, Idle
<1>2. IInv /\ Calm /\ [Next]_vars => Calm'
  BY CalmStep
<1>3. IInv /\ Calm => QuietCacheExact
  <2> SUFFICES ASSUME IInv, Calm, ~Cold, \A p \in Procs : proc[p].pc = "idle"
               PROVE  cache = Entries
    BY DEF QuietCacheExact
  <2>1. \A d \in Devices : ~InFlight(d)
    BY DEF IInv, Shaped, InFlight
  <2>2. \A d \in Devices : cache[d] = Entry(ver[d])
    BY <2>1 DEF IInv, Calm, Cold, Exact
  <2>3. cache \in [Devices -> Versions]
    BY DEF IInv, TypeInv, TypeOK
  <2> QED BY <2>2, <2>3 DEF Entries
<1> QED BY <1>1, <1>2, <1>3, InvInit, InvStep, PTL DEF Spec

=============================================================================
