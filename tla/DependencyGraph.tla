-------------------------- MODULE DependencyGraph --------------------------
(***************************************************************************)
(* The dependency links of the devices (parent_id) and the handlers that   *)
(* change them (api/routes/devices.py).  create_device and update_device   *)
(* let _validate_parent walk up from the new parent, one SELECT at a time, *)
(* and commit the link afterwards, in a transaction of its own isolation   *)
(* (READ COMMITTED, no locks): any other handler may commit in between.    *)
(* A cycle of links would silence the alarms of every device on it, since  *)
(* the alert engine (module AlertEngine) drops the alarm of a device whose *)
(* parent is offline.                                                      *)
(***************************************************************************)
EXTENDS Integers, FiniteSets

CONSTANTS
  Devices,   \* the device ids that are ever handed out
  NoParent,  \* parent_id = NULL
  Requests   \* the requests in progress at the same time

ASSUME NoParentAssumption == NoParent \notin Devices

VARIABLES
  life,    \* whether a row with this id is not yet there, there, or deleted
  parent,  \* the committed parent_id of every device
  req      \* the requests

vars == <<life, parent, req>>

Alive(d) == life[d] = "alive"

(***************************************************************************)
(* A request: the device it writes (dev), the parent it was asked to set   *)
(* (new), whether that differs from the one it loaded (changes), and the   *)
(* locals of _validate_parent (current, seen).  solo holds while no other  *)
(* request has committed a link since this one began.                      *)
(***************************************************************************)
Idle == [pc |-> "idle", op |-> "update", dev |-> NoParent, new |-> NoParent,
         changes |-> FALSE, current |-> NoParent, seen |-> {}, solo |-> TRUE]

RequestStates ==
  [pc: {"idle", "walk", "commit"}, op: {"create", "update"},
   dev: Devices \cup {NoParent}, new: Devices \cup {NoParent},
   changes: BOOLEAN, current: Devices \cup {NoParent},
   seen: SUBSET Devices, solo: BOOLEAN]

(* A link was committed: the requests in progress are not alone any more.  *)
Disturbed(q) ==
  IF req[q].pc = "idle" THEN Idle ELSE [req[q] EXCEPT !.solo = FALSE]

Finish(r) == req' = [req EXCEPT ![r] = Idle]

Begin(r, op, d, p) ==
  req' = [req EXCEPT ![r] =
    [Idle EXCEPT !.pc = IF p = NoParent THEN "commit" ELSE "walk",
                 !.op = op, !.dev = d, !.new = p, !.changes = p # parent[d],
                 !.current = p]]

-----------------------------------------------------------------------------
(* update_device loads the row; a device named as its own parent is        *)
(* refused at once.                                                        *)
Update(r, d, p) ==
  /\ req[r].pc = "idle"
  /\ Alive(d)
  /\ p # d
  /\ Begin(r, "update", d, p)
  /\ UNCHANGED <<life, parent>>

(* create_device: no row yet, its id is made up when the row is inserted.  *)
Create(r, d, p) ==
  /\ req[r].pc = "idle"
  /\ life[d] = "new"
  /\ \A q \in Requests : req[q].dev # d   \* a fresh id
  /\ p # d
  /\ Begin(r, "create", d, p)
  /\ UNCHANGED <<life, parent>>

(* (Fault_ definitions are seeded faults: mistakes in the definition below *)
(* them that runs of PROJECT.json must notice; no specification uses them.)*)
Fault_NeverBack(q) ==
  q.op = "update" /\ q.current = q.dev /\ q.current = q.new

Fault_OldParent(q) ==
  q.pc = "walk" /\ q.op = "update" /\ q.current \in {q.dev, parent[q.dev]}

(* The walk has come back to the device being updated.                     *)
LeadsBack(q) == q.op = "update" /\ q.current = q.dev

(* The parent to be set is not there.                                      *)
Unknown(q) == q.current = q.new /\ ~Alive(q.current)

Refuse(r) ==
  /\ req[r].pc = "walk"
  /\ \/ LeadsBack(req[r])
     \/ req[r].current \notin req[r].seen /\ Unknown(req[r])
  /\ Finish(r)
  /\ UNCHANGED <<life, parent>>

Fault_NoSeen(r) ==
  /\ req[r].pc = "walk"
  /\ ~LeadsBack(req[r])
  /\ Alive(req[r].current)
  /\ req' = [req EXCEPT ![r].seen = @ \cup {req[r].current},
                        ![r].current = parent[req[r].current],
                        ![r].pc = IF parent[req[r].current] = NoParent
                                  THEN "commit" ELSE "walk"]
  /\ UNCHANGED <<life, parent>>

(* One more ancestor is read; the walk ends at a device without a parent.  *)
Climb(r) ==
  /\ req[r].pc = "walk"
  /\ ~LeadsBack(req[r])
  /\ req[r].current \notin req[r].seen
  /\ Alive(req[r].current)
  /\ req' = [req EXCEPT ![r].seen = @ \cup {req[r].current},
                        ![r].current = parent[req[r].current],
                        ![r].pc = IF parent[req[r].current] = NoParent
                                  THEN "commit" ELSE "walk"]
  /\ UNCHANGED <<life, parent>>

(* The walk gives up at a device it has seen, in a cycle of others, or at  *)
(* an ancestor deleted since: the parent is accepted.                      *)
Accept(r) ==
  /\ req[r].pc = "walk"
  /\ ~LeadsBack(req[r])
  /\ \/ req[r].current \in req[r].seen
     \/ ~Alive(req[r].current) /\ ~Unknown(req[r])
  /\ req' = [req EXCEPT ![r].pc = "commit"]
  /\ UNCHANGED <<life, parent>>

(* The foreign key: a parent that is set exists.                           *)
ForeignKey(p) == p # NoParent => Alive(p)

(* The row is inserted, or parent_id updated if it differs from the one    *)
(* that was loaded.                                                        *)
Commit(r) ==
  /\ req[r].pc = "commit"
  /\ ForeignKey(req[r].new)
  /\ req[r].op = "update" => Alive(req[r].dev) /\ req[r].changes
  /\ life' = [life EXCEPT ![req[r].dev] = "alive"]
  /\ parent' = [parent EXCEPT ![req[r].dev] = req[r].new]
  /\ req' = [q \in Requests |-> IF q = r THEN Idle ELSE Disturbed(q)]

(* Nothing is written: the loaded parent_id was the one to set, the row is *)
(* gone, the foreign key is violated, or the address of the same request   *)
(* cannot be resolved or is taken (422, 409).                              *)
CommitNothing(r) ==
  /\ req[r].pc = "commit"
  /\ Finish(r)
  /\ UNCHANGED <<life, parent>>

(* delete_device: ON DELETE SET NULL for the children.                     *)
Delete(d) ==
  /\ Alive(d)
  /\ life' = [life EXCEPT ![d] = "deleted"]
  /\ parent' = [c \in Devices |->
                  IF c = d \/ parent[c] = d THEN NoParent ELSE parent[c]]
  /\ UNCHANGED req

-----------------------------------------------------------------------------
Init ==
  /\ life = [d \in Devices |-> "new"]
  /\ parent = [d \in Devices |-> NoParent]
  /\ req = [r \in Requests |-> Idle]

Handle(r) == Refuse(r) \/ Climb(r) \/ Accept(r) \/ Commit(r) \/ CommitNothing(r)

Next ==
  \/ \E r \in Requests :
       \/ \E d \in Devices, p \in Devices \cup {NoParent} :
            Update(r, d, p) \/ Create(r, d, p)
       \/ Handle(r)
  \/ \E d \in Devices : Delete(d)

Spec == Init /\ [][Next]_vars

(* A handler that has started runs on.                                     *)
FairSpec == Spec /\ \A r \in Requests : WF_vars(Handle(r))

-----------------------------------------------------------------------------
TypeOK ==
  /\ life \in [Devices -> {"new", "alive", "deleted"}]
  /\ parent \in [Devices -> Devices \cup {NoParent}]
  /\ req \in [Requests -> RequestStates]
  /\ \A r \in Requests : req[r].pc # "idle" => req[r].dev \in Devices
  /\ \A r \in Requests : req[r].pc = "walk" => req[r].current \in Devices

(* No group of devices has all its parents within the group: whichever     *)
(* devices are offline, the parent of one of them is not, and its alarm    *)
(* gets through.                                                           *)
Closed(S, up) == S # {} /\ \A d \in S : up[d] \in S

AcyclicIn(up) == \A S \in SUBSET Devices : ~Closed(S, up)

Acyclic == AcyclicIn(parent)

(* A cycle comes only from a request that overlapped the commit of another *)
(* link: _validate_parent misses nothing it could have seen, and deletions *)
(* in the middle of its walk do no harm.                                   *)
CyclesNeedOverlap ==
  [][Acyclic =>
       \/ Acyclic'
       \/ \E r \in Requests : ~req[r].solo /\ Commit(r)]_vars

(* A request that no other link overlapped is refused as a cycle only if   *)
(* its link would close one, or a device it passed has been deleted since. *)
RefusalsJustified ==
  [][\A r \in Requests :
       /\ req[r].solo /\ LeadsBack(req[r]) /\ Refuse(r)
       /\ \A x \in req[r].seen \cup {req[r].dev} : Alive(x)
       => ~AcyclicIn([parent EXCEPT ![req[r].dev] = req[r].new])]_vars

(* Every request is answered: the walk ends even when it enters a cycle    *)
(* that others closed, and while others keep changing the links.           *)
WalkEnds == \A r \in Requests : req[r].pc # "idle" ~> req[r].pc = "idle"

=============================================================================
