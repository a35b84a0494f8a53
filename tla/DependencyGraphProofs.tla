----------------------- MODULE DependencyGraphProofs -----------------------
(***************************************************************************)
(* Proofs about DependencyGraph, for any set of devices and of requests.   *)
(* The invariant WalkInv says what a walk that nobody disturbed has        *)
(* established: the devices it has seen are a chain that leads from the    *)
(* new parent to the current device and does not contain the device being  *)
(* updated.  A closed group that the new link creates would meet this      *)
(* chain, and its part within the chain would have been closed before.     *)
(* That a walk ends is a matter of counting what it has not seen.          *)
(***************************************************************************)
EXTENDS DependencyGraph, FiniteSetTheorems, TLAPS

(* A parent that is set exists, and so does the child.                     *)
Links ==
  \A d \in Devices : parent[d] # NoParent => Alive(d) /\ Alive(parent[d])

(* What an undisturbed walk knows.                                         *)
Chain(q) ==
  /\ q.dev \notin q.seen
  /\ q.pc = "walk" => q.new # NoParent
  /\ q.new # NoParent => q.new \in q.seen \cup {q.current}
  /\ \A x \in q.seen : parent[x] \in q.seen \cup {q.current, NoParent}
  /\ (\A x \in q.seen : Alive(x)) /\ Alive(q.current) =>
       \A x \in q.seen : parent[x] \in q.seen \cup {q.current}
  /\ q.op = "create" => life[q.dev] = "new" /\ q.current # q.dev
  /\ q.op = "update" => life[q.dev] # "new"
  /\ q.new # q.dev

(* What it knows when the parent is accepted.                              *)
Accepted(q) ==
  /\ q.current # q.dev
  /\ \/ q.current = NoParent
     \/ q.current \in q.seen
     \/ q.current \in Devices /\ parent[q.current] = NoParent

WalkInv ==
  \A r \in Requests :
    req[r].pc # "idle" /\ req[r].solo =>
      Chain(req[r]) /\ (req[r].pc = "commit" => Accepted(req[r]))

IInv == TypeOK /\ Links /\ WalkInv

-----------------------------------------------------------------------------
(* Linking dev below new closes no group of devices, if a chain S of       *)
(* devices from new upwards avoids dev and ends at the root, within itself *)
(* or at a device without a parent: the step from an undisturbed walk to   *)
(* an acyclic graph.                                                       *)
LEMMA LinkKeepsAcyclic ==
  ASSUME NEW up \in [Devices -> Devices \cup {NoParent}],
         NEW dev \in Devices, NEW new \in Devices \cup {NoParent},
         NEW S \in SUBSET Devices, NEW top,
         AcyclicIn(up),
         dev \notin S, dev # top,
         new # NoParent => new \in S \cup {top},
         \A x \in S : up[x] \in S \cup {top, NoParent},
         \/ top = NoParent
         \/ top \in S
         \/ top \in Devices /\ up[top] = NoParent
  PROVE  AcyclicIn([up EXCEPT ![dev] = new])
<1> DEFINE down == [up EXCEPT ![dev] = new]
<1> SUFFICES ASSUME NEW G \in SUBSET Devices, Closed(G, down)
             PROVE  FALSE
  BY DEF AcyclicIn
<1>1. NoParent \notin G
  BY NoParentAssumption
<1>2. \A d \in G : d # dev => up[d] \in G
  BY DEF Closed
<1>3. dev \in G
  <2> SUFFICES ASSUME dev \notin G PROVE FALSE
    OBVIOUS
  <2>1. Closed(G, up)
    BY <1>2 DEF Closed
  <2> QED
    BY <2>1 DEF AcyclicIn
<1>4. new \in G
  BY <1>3 DEF Closed
<1>5. new \in S \cup {top}
  BY <1>4, <1>1
<1>6. top \notin G \/ top \in S
  <2> SUFFICES ASSUME top \in G, top \notin S PROVE FALSE
    OBVIOUS
  <2>1. up[top] = NoParent
    BY <1>1
  <2> QED
    BY <1>1, <1>2, <2>1
<1>7. new \in G \cap S
  BY <1>4, <1>5, <1>6
<1>8. \A d \in G \cap S : up[d] \in G \cap S
  BY <1>1, <1>2, <1>6
<1>9. Closed(G \cap S, up)
  BY <1>7, <1>8 DEF Closed
<1> QED
  BY <1>9 DEF AcyclicIn

(* Removing links closes no group.                                         *)
LEMMA UnlinkKeepsAcyclic ==
  ASSUME NEW up, NEW down, AcyclicIn(up),
         \A d \in Devices : down[d] = NoParent \/ down[d] = up[d]
  PROVE  AcyclicIn(down)
<1> SUFFICES ASSUME NEW G \in SUBSET Devices, Closed(G, down)
             PROVE  FALSE
  BY DEF AcyclicIn
<1>1. \A d \in G : up[d] \in G
  BY NoParentAssumption DEF Closed
<1> QED
  BY <1>1 DEF AcyclicIn, Closed

-----------------------------------------------------------------------------
(* The initial state.                                                      *)
LEMMA InitIInv == Init => IInv
<1> SUFFICES ASSUME Init PROVE IInv
  OBVIOUS
<1>1. TypeOK
  BY DEF Init, TypeOK, RequestStates, Idle
<1>2. Links
  BY DEF Init, Links
<1>3. WalkInv
  BY DEF Init, WalkInv, Idle
<1> QED
  BY <1>1, <1>2, <1>3 DEF IInv

(* What every step of a handler leaves alone: only Commit writes the rows. *)
RowsKept == UNCHANGED <<life, parent>>

(* Type correctness, one step per action.                                  *)
LEMMA TypeStep == TypeOK /\ [Next]_vars => TypeOK'
<1> SUFFICES ASSUME TypeOK, [Next]_vars PROVE TypeOK'
  OBVIOUS
<1> USE DEF TypeOK, RequestStates
<1>1. ASSUME NEW r \in Requests, NEW d \in Devices,
             NEW p \in Devices \cup {NoParent}, Update(r, d, p)
      PROVE  TypeOK'
  BY <1>1 DEF Update, Begin, Idle
<1>2. ASSUME NEW r \in Requests, NEW d \in Devices,
             NEW p \in Devices \cup {NoParent}, Create(r, d, p)
      PROVE  TypeOK'
  BY <1>2 DEF Create, Begin, Idle
<1>3. ASSUME NEW r \in Requests, Refuse(r)
      PROVE  TypeOK'
  BY <1>3 DEF Refuse, Finish, Idle
<1>4. ASSUME NEW r \in Requests, Climb(r)
      PROVE  TypeOK'
  <2> DEFINE q == req[r]
             up == parent[q.current]
             new == [q EXCEPT !.seen = @ \cup {q.current}, !.current = up,
                       !.pc = IF up = NoParent THEN "commit" ELSE "walk"]
  <2>1. q.current \in Devices /\ q.dev \in Devices
    BY <1>4 DEF Climb
  <2>2. up \in Devices \cup {NoParent}
    BY <2>1
  <2>3. new \in RequestStates
    BY <2>1, <2>2
  <2>4. new.dev \in Devices /\ (new.pc = "walk" => new.current \in Devices)
    BY <2>1, <2>2
  <2>5. req' = [req EXCEPT ![r] = new] /\ UNCHANGED <<life, parent>>
    BY <1>4 DEF Climb
  <2> HIDE DEF new
  <2> QED
    BY <2>3, <2>4, <2>5
<1>5. ASSUME NEW r \in Requests, Accept(r)
      PROVE  TypeOK'
  BY <1>5 DEF Accept
<1>6. ASSUME NEW r \in Requests, Commit(r)
      PROVE  TypeOK'
  <2>1. req[r].dev \in Devices /\ req[r].new \in Devices \cup {NoParent}
    BY <1>6 DEF Commit
  <2>2. Idle \in RequestStates /\ Idle.pc = "idle"
    BY DEF Idle
  <2>3. \A q \in Requests :
          /\ Disturbed(q) \in RequestStates
          /\ Disturbed(q).pc # "idle" => Disturbed(q).dev \in Devices
          /\ Disturbed(q).pc = "walk" => Disturbed(q).current \in Devices
    BY <2>2 DEF Disturbed
  <2>4. /\ life' = [life EXCEPT ![req[r].dev] = "alive"]
        /\ parent' = [parent EXCEPT ![req[r].dev] = req[r].new]
        /\ req' = [q \in Requests |-> IF q = r THEN Idle ELSE Disturbed(q)]
    BY <1>6 DEF Commit
  <2> QED
    BY <2>1, <2>2, <2>3, <2>4
<1>7. ASSUME NEW r \in Requests, CommitNothing(r)
      PROVE  TypeOK'
  BY <1>7 DEF CommitNothing, Finish, Idle
<1>8. ASSUME NEW d \in Devices, Delete(d)
      PROVE  TypeOK'
  BY <1>8 DEF Delete
<1>9. CASE UNCHANGED vars
  BY <1>9 DEF vars
<1> QED
  BY <1>1, <1>2, <1>3, <1>4, <1>5, <1>6, <1>7, <1>8, <1>9 DEF Next, Handle

(* The foreign key: links are between devices that exist.                  *)
LEMMA LinksStep == TypeOK /\ Links /\ [Next]_vars => Links'
<1> SUFFICES ASSUME TypeOK, Links, [Next]_vars PROVE Links'
  OBVIOUS
<1> USE DEF TypeOK, Links, Alive
<1>1. CASE RowsKept
  BY <1>1 DEF RowsKept
<1>2. ASSUME NEW r \in Requests, Commit(r)
      PROVE  Links'
  BY <1>2, NoParentAssumption DEF Commit, ForeignKey
<1>3. ASSUME NEW d \in Devices, Delete(d)
      PROVE  Links'
  BY <1>3 DEF Delete
<1> QED
  BY <1>1, <1>2, <1>3
  DEF Next, Handle, vars, RowsKept, Update, Create, Refuse, Climb, Accept,
      CommitNothing

-----------------------------------------------------------------------------
(* What the walk of r knows when nobody disturbed it.                      *)
Knows(r) ==
  req[r].pc # "idle" /\ req[r].solo =>
    Chain(req[r]) /\ (req[r].pc = "commit" => Accepted(req[r]))

(* The requests whose record and whose rows do not change keep what they   *)
(* know; an idle one knows nothing.                                        *)
LEMMA OthersKeepWhatTheyKnow ==
  ASSUME NEW r \in Requests, Knows(r), RowsKept,
         req'[r] = req[r] \/ req'[r].pc = "idle"
  PROVE  Knows(r)'
BY DEF Knows, RowsKept, Chain, Accepted, Alive

(* The record of a request that has just begun.                            *)
Begun(op, d, p) ==
  [pc |-> IF p = NoParent THEN "commit" ELSE "walk", op |-> op, dev |-> d,
   new |-> p, changes |-> p # parent[d], current |-> p, seen |-> {},
   solo |-> TRUE]

LEMMA BeginRecord ==
  ASSUME NEW r \in Requests, NEW d \in Devices,
         NEW p \in Devices \cup {NoParent},
         Update(r, d, p) \/ Create(r, d, p)
  PROVE  \E op \in {"create", "update"} :
           /\ req' = [req EXCEPT ![r] = Begun(op, d, p)]
           /\ p # d /\ UNCHANGED <<life, parent>>
           /\ op = "create" => life[d] = "new"
           /\ op = "update" => life[d] # "new"
BY DEF Update, Create, Begin, Begun, Idle, Alive

(* A request that begins: nothing is seen, the walk is at the new parent.  *)
LEMMA BeginKnows ==
  ASSUME TypeOK, NEW r \in Requests, NEW d \in Devices,
         NEW p \in Devices \cup {NoParent},
         Update(r, d, p) \/ Create(r, d, p)
  PROVE  Knows(r)'
<1>1. PICK op \in {"create", "update"} :
        /\ req' = [req EXCEPT ![r] = Begun(op, d, p)]
        /\ p # d /\ UNCHANGED <<life, parent>>
        /\ op = "create" => life[d] = "new"
        /\ op = "update" => life[d] # "new"
  BY BeginRecord
<1>2. req'[r] = Begun(op, d, p)
  BY <1>1 DEF TypeOK
<1>3. Chain(req[r])'
  BY <1>1, <1>2 DEF Chain, Begun
<1>4. (req[r].pc = "commit" => Accepted(req[r]))'
  BY <1>1, <1>2, NoParentAssumption DEF Accepted, Begun
<1> QED
  BY <1>3, <1>4 DEF Knows

(* One more ancestor: its parent is where the chain goes on.               *)
LEMMA ClimbKnows ==
  ASSUME TypeOK, Links, NEW r \in Requests, Knows(r), Climb(r)
  PROVE  Knows(r)'
<1> DEFINE q == req[r]
           n == req'[r]
           up == parent[q.current]
<1> SUFFICES ASSUME q.solo PROVE (Chain(q) /\ (q.pc = "commit" => Accepted(q)))'
  <2>1. n.solo = q.solo
    BY DEF Climb, TypeOK, RequestStates
  <2> QED
    BY <2>1 DEF Knows
<1>1. /\ q.pc = "walk" /\ ~LeadsBack(q) /\ q.current \in Devices
      /\ q.current \notin q.seen /\ Alive(q.current)
      /\ UNCHANGED <<life, parent>>
  BY DEF Climb, TypeOK
<1>2. /\ n.op = q.op /\ n.dev = q.dev /\ n.new = q.new
      /\ n.seen = q.seen \cup {q.current} /\ n.current = up
      /\ n.pc = IF up = NoParent THEN "commit" ELSE "walk"
      /\ q.op \in {"create", "update"} /\ q.dev \in Devices
      /\ q.seen \subseteq Devices
  BY DEF Climb, TypeOK, RequestStates
<1>3. Chain(q)
  BY <1>1 DEF Knows
<1>4. q.current # q.dev
  BY <1>1, <1>2, <1>3 DEF LeadsBack, Chain, Alive
<1>5. up # NoParent => Alive(up)
  BY <1>1 DEF Links
<1>6. Chain(n)
  <2>1. n.dev \notin n.seen /\ n.new # n.dev /\ n.new # NoParent
    BY <1>1, <1>2, <1>3, <1>4 DEF Chain
  <2>2. n.new # NoParent => n.new \in n.seen \cup {n.current}
    BY <1>2, <1>3 DEF Chain
  <2>3. \A x \in n.seen : parent[x] \in n.seen \cup {n.current, NoParent}
    BY <1>2, <1>3 DEF Chain
  <2>4. ASSUME \A x \in n.seen : Alive(x), NEW x \in n.seen
        PROVE  parent[x] \in n.seen \cup {n.current}
    BY <1>1, <1>2, <1>3, <2>4 DEF Chain
  <2>5. /\ n.op = "create" => life[n.dev] = "new" /\ n.current # n.dev
        /\ n.op = "update" => life[n.dev] # "new"
    BY <1>2, <1>3, <1>5, NoParentAssumption DEF Chain, Alive
  <2> QED
    BY <2>1, <2>2, <2>3, <2>4, <2>5 DEF Chain
<1>7. n.pc = "commit" => Accepted(n)
  BY <1>2, NoParentAssumption DEF Accepted
<1>8. RowsKept
  BY <1>1 DEF RowsKept
<1> QED
  BY <1>6, <1>7, <1>8 DEF Chain, Accepted, RowsKept, Alive

(* Accepting at a device seen before, or gone: the chain is not extended.  *)
LEMMA AcceptKnows ==
  ASSUME TypeOK, Links, NEW r \in Requests, Knows(r), Accept(r)
  PROVE  Knows(r)'
<1> DEFINE q == req[r]
           n == req'[r]
<1> SUFFICES ASSUME q.solo PROVE (Chain(q) /\ Accepted(q))'
  <2>1. n.solo = q.solo
    BY DEF Accept, TypeOK, RequestStates
  <2> QED
    BY <2>1 DEF Knows
<1>1. /\ q.pc = "walk" /\ ~LeadsBack(q) /\ q.current \in Devices
      /\ q.current \in q.seen \/ ~Alive(q.current)
      /\ RowsKept
  BY DEF Accept, TypeOK, RowsKept
<1>2. /\ n.op = q.op /\ n.dev = q.dev /\ n.new = q.new
      /\ n.seen = q.seen /\ n.current = q.current
      /\ q.op \in {"create", "update"} /\ q.dev \in Devices
      /\ q.new \in Devices \cup {NoParent}
  BY DEF Accept, TypeOK, RequestStates
<1>3. Chain(q)
  BY <1>1 DEF Knows
<1>4. Chain(n)
  <2>1. n.pc = "commit"
    BY DEF Accept, TypeOK, RequestStates
  <2> QED
    BY <1>2, <1>3, <2>1 DEF Chain
<1>5. q.current # q.dev
  BY <1>1, <1>2, <1>3 DEF Chain, LeadsBack
<1>6. ~Alive(q.current) => parent[q.current] = NoParent
  BY <1>1 DEF Links
<1>7. Accepted(n)
  BY <1>1, <1>2, <1>5, <1>6 DEF Accepted
<1> QED
  BY <1>1, <1>4, <1>7 DEF Chain, Accepted, RowsKept, Alive

(* A deletion: the chain may be cut, never bent.                           *)
LEMMA DeleteKnows ==
  ASSUME TypeOK, NEW r \in Requests, Knows(r), NEW d \in Devices, Delete(d)
  PROVE  Knows(r)'
<1> DEFINE q == req[r]
<1> SUFFICES ASSUME q.pc # "idle", q.solo
             PROVE  Chain(q)' /\ (q.pc = "commit" => Accepted(q))'
  BY DEF Delete, Knows
<1>1. /\ Chain(q) /\ (q.pc = "commit" => Accepted(q))
      /\ q' = q /\ q.dev \in Devices /\ q.seen \subseteq Devices
      /\ q.current \in Devices \cup {NoParent}
  BY DEF Delete, Knows, TypeOK, RequestStates
<1>2. \A x \in Devices :
        /\ parent'[x] \in {parent[x], NoParent}
        /\ parent[x] # d /\ x # d => parent'[x] = parent[x]
  BY DEF Delete
<1>3. /\ life'[d] = "deleted" /\ life[d] = "alive"
      /\ \A x \in Devices : x # d => life'[x] = life[x]
  BY DEF Delete, TypeOK, Alive
<1>4. Chain(q)'
  <2>1. \A x \in q.seen : parent'[x] \in q.seen \cup {q.current, NoParent}
    BY <1>1, <1>2 DEF Chain
  <2>2. ASSUME \A x \in q.seen : Alive(x)', Alive(q.current)',
               NEW x \in q.seen
        PROVE  parent'[x] \in q.seen \cup {q.current}
    <3>1. d \notin q.seen
      BY <1>3, <2>2 DEF Alive
    <3>2. \A y \in q.seen : Alive(y)
      BY <1>1, <1>3, <2>2, <3>1 DEF Alive
    <3>3. CASE q.current \in Devices
      <4>1. d # q.current
        BY <1>1, <1>3, <2>2 DEF Alive
      <4>2. Alive(q.current)
        BY <1>3, <2>2, <4>1, <3>3, <1>1 DEF Alive
      <4>3. parent[x] \in q.seen \cup {q.current}
        BY <1>1, <3>2, <4>2 DEF Chain
      <4> QED
        BY <1>1, <1>2, <3>1, <4>1, <4>3
    <3>4. CASE q.current = NoParent
      BY <1>1, <2>1, <3>4
    <3> QED
      BY <1>1, <3>3, <3>4
  <2>3. /\ q.op = "create" => life'[q.dev] = "new" /\ q.current # q.dev
        /\ q.op = "update" => life'[q.dev] # "new"
    BY <1>1, <1>3 DEF Chain
  <2> QED
    BY <1>1, <2>1, <2>2, <2>3 DEF Chain
<1>5. (q.pc = "commit" => Accepted(q))'
  BY <1>1, <1>2 DEF Accepted
<1> QED
  BY <1>4, <1>5

(* What undisturbed walks know stays true, one step per action; after the  *)
(* commit of a link nobody else is undisturbed.                            *)
LEMMA WalkStep == TypeOK /\ Links /\ WalkInv /\ [Next]_vars => WalkInv'
<1> SUFFICES ASSUME TypeOK, Links, WalkInv, [Next]_vars, NEW q \in Requests
             PROVE  Knows(q)'
  BY DEF WalkInv, Knows
<1>0. Knows(q)
  BY DEF WalkInv, Knows
<1>1. ASSUME NEW r \in Requests, NEW d \in Devices,
             NEW p \in Devices \cup {NoParent},
             Update(r, d, p) \/ Create(r, d, p)
      PROVE  Knows(q)'
  <2>1. CASE q = r
    BY <1>1, <2>1, BeginKnows
  <2>2. CASE q # r
    <3>1. req'[q] = req[q] /\ RowsKept
      BY <1>1, <2>2 DEF Update, Create, Begin, TypeOK, RowsKept
    <3> QED
      BY <1>0, <3>1, OthersKeepWhatTheyKnow
  <2> QED
    BY <2>1, <2>2
<1>2. ASSUME NEW r \in Requests, Climb(r)
      PROVE  Knows(q)'
  <2>1. CASE q = r
    BY <1>0, <1>2, <2>1, ClimbKnows
  <2>2. CASE q # r
    <3>1. req'[q] = req[q] /\ RowsKept
      BY <1>2, <2>2 DEF Climb, TypeOK, RowsKept
    <3> QED
      BY <1>0, <3>1, OthersKeepWhatTheyKnow
  <2> QED
    BY <2>1, <2>2
<1>3. ASSUME NEW r \in Requests, Accept(r)
      PROVE  Knows(q)'
  <2>1. CASE q = r
    BY <1>0, <1>3, <2>1, AcceptKnows
  <2>2. CASE q # r
    <3>1. req'[q] = req[q] /\ RowsKept
      BY <1>3, <2>2 DEF Accept, TypeOK, RowsKept
    <3> QED
      BY <1>0, <3>1, OthersKeepWhatTheyKnow
  <2> QED
    BY <2>1, <2>2
<1>4. ASSUME NEW r \in Requests, Refuse(r) \/ CommitNothing(r)
      PROVE  Knows(q)'
  <2>1. (req'[q] = req[q] \/ req'[q].pc = "idle") /\ RowsKept
    BY <1>4 DEF Refuse, CommitNothing, Finish, Idle, TypeOK, RowsKept
  <2> QED
    BY <1>0, <2>1, OthersKeepWhatTheyKnow
<1>5. ASSUME NEW r \in Requests, Commit(r)
      PROVE  Knows(q)'
  <2>1. req'[q].pc = "idle" \/ ~req'[q].solo
    BY <1>5 DEF Commit, Disturbed, Idle, TypeOK, RequestStates
  <2> QED
    BY <2>1 DEF Knows
<1>6. ASSUME NEW d \in Devices, Delete(d)
      PROVE  Knows(q)'
  BY <1>0, <1>6, DeleteKnows
<1>7. CASE UNCHANGED vars
  <2>1. req'[q] = req[q] /\ RowsKept
    BY <1>7 DEF vars, RowsKept
  <2> QED
    BY <1>0, <2>1, OthersKeepWhatTheyKnow
<1> QED
  BY <1>1, <1>2, <1>3, <1>4, <1>5, <1>6, <1>7 DEF Next, Handle

-----------------------------------------------------------------------------
LEMMA StepIInv == IInv /\ [Next]_vars => IInv'
BY TypeStep, LinksStep, WalkStep DEF IInv

LEMMA InvariantIInv == Spec => []IInv
BY InitIInv, StepIInv, PTL DEF Spec

(* The state of the links and of every request is well typed, for every    *)
(* set of devices and of requests.                                         *)
THEOREM GraphTypeCorrect == Spec => []TypeOK
<1>1. IInv => TypeOK
  BY DEF IInv
<1> QED
  BY <1>1, InvariantIInv, PTL

(* The commit of an undisturbed request keeps the graph acyclic.           *)
LEMMA SoloCommitKeepsAcyclic ==
  ASSUME IInv, Acyclic, NEW r \in Requests, req[r].solo, Commit(r)
  PROVE  Acyclic'
<1> DEFINE q == req[r]
<1>1. /\ parent \in [Devices -> Devices \cup {NoParent}]
      /\ q.dev \in Devices /\ q.new \in Devices \cup {NoParent}
      /\ q.seen \in SUBSET Devices
  BY DEF IInv, TypeOK, RequestStates, Commit
<1>2. Chain(q) /\ Accepted(q)
  BY DEF IInv, WalkInv, Commit
<1>3. /\ q.dev \notin q.seen /\ q.dev # q.current
      /\ q.new # NoParent => q.new \in q.seen \cup {q.current}
      /\ \A x \in q.seen : parent[x] \in q.seen \cup {q.current, NoParent}
      /\ \/ q.current = NoParent
         \/ q.current \in q.seen
         \/ q.current \in Devices /\ parent[q.current] = NoParent
  BY <1>2 DEF Chain, Accepted
<1>4. AcyclicIn(parent)
  BY DEF Acyclic
<1> HIDE DEF q
<1>5. AcyclicIn([parent EXCEPT ![q.dev] = q.new])
  BY <1>1, <1>3, <1>4, LinkKeepsAcyclic
<1> USE DEF q
<1> QED
  BY <1>5 DEF Commit, Acyclic

(* Every other step keeps it acyclic, too: it writes no link, or removes   *)
(* some.                                                                   *)
LEMMA AcyclicStep ==
  ASSUME IInv, Acyclic, [Next]_vars,
         ~ \E r \in Requests : ~req[r].solo /\ Commit(r)
  PROVE  Acyclic'
<1>1. ASSUME NEW r \in Requests, Commit(r)
      PROVE  Acyclic'
  BY <1>1, SoloCommitKeepsAcyclic
<1>2. ASSUME NEW d \in Devices, Delete(d)
      PROVE  Acyclic'
  BY <1>2, UnlinkKeepsAcyclic DEF Delete, Acyclic
<1>3. CASE UNCHANGED parent
  BY <1>3 DEF Acyclic, AcyclicIn, Closed
<1> QED
  BY <1>1, <1>2, <1>3
  DEF Next, Handle, vars, Update, Create, Refuse, Climb, Accept, CommitNothing

(* _validate_parent misses no cycle it could have seen: a cycle needs a    *)
(* request that overlapped the commit of another link.                     *)
THEOREM OverlapNeeded == Spec => CyclesNeedOverlap
<1>1. IInv /\ [Next]_vars =>
        [Acyclic =>
           \/ Acyclic'
           \/ \E r \in Requests : ~req[r].solo /\ Commit(r)]_vars
  BY AcyclicStep
<1> QED
  BY <1>1, InvariantIInv, PTL DEF Spec, CyclesNeedOverlap

(* An undisturbed request whose walk comes back to its device is refused   *)
(* for a reason: the devices it has seen and its own would be a group that *)
(* is closed under the links.                                              *)
LEMMA RefusalStep ==
  ASSUME IInv, NEW r \in Requests, req[r].solo, LeadsBack(req[r]), Refuse(r),
         \A x \in req[r].seen \cup {req[r].dev} : Alive(x)
  PROVE  ~AcyclicIn([parent EXCEPT ![req[r].dev] = req[r].new])
<1> DEFINE q == req[r]
           G == q.seen \cup {q.dev}
           up == [parent EXCEPT ![q.dev] = q.new]
<1>1. /\ parent \in [Devices -> Devices \cup {NoParent}]
      /\ q.dev \in Devices /\ q.seen \in SUBSET Devices
      /\ q.current = q.dev /\ q.pc = "walk"
  BY DEF IInv, TypeOK, RequestStates, Refuse, LeadsBack
<1>2. Chain(q)
  BY <1>1 DEF IInv, WalkInv
<1>3. \A x \in q.seen : parent[x] \in G
  BY <1>1, <1>2 DEF Chain
<1>4. q.new \in G
  BY <1>1, <1>2 DEF IInv, TypeOK, Chain
<1>5. Closed(G, up)
  BY <1>1, <1>3, <1>4 DEF Closed
<1> QED
  BY <1>1, <1>5 DEF AcyclicIn

(* A cycle error is never a false alarm, unless another link was committed *)
(* or a device deleted during the walk.                                    *)
THEOREM RefusalsAreJustified == Spec => RefusalsJustified
<1>1. IInv =>
        [\A r \in Requests :
           /\ req[r].solo /\ LeadsBack(req[r]) /\ Refuse(r)
           /\ \A x \in req[r].seen \cup {req[r].dev} : Alive(x)
           => ~AcyclicIn([parent EXCEPT ![req[r].dev] = req[r].new])]_vars
  BY RefusalStep
<1> QED
  BY <1>1, InvariantIInv, PTL DEF RefusalsJustified

-----------------------------------------------------------------------------
(* With one request at a time nobody disturbs it, and the graph stays      *)
(* acyclic whatever is deleted meanwhile.                                  *)
OneAtATime == \A q, r \in Requests : q = r

Undisturbed == \A r \in Requests : req[r].solo

LEMMA UndisturbedStep ==
  ASSUME TypeOK, Undisturbed, OneAtATime, [Next]_vars
  PROVE  Undisturbed'
<1> USE DEF TypeOK, RequestStates, Undisturbed, OneAtATime
<1>1. ASSUME NEW r \in Requests, NEW d \in Devices,
             NEW p \in Devices \cup {NoParent},
             Update(r, d, p) \/ Create(r, d, p)
      PROVE  Undisturbed'
  <2>1. PICK op \in {"create", "update"} :
          req' = [req EXCEPT ![r] = Begun(op, d, p)]
    BY <1>1, BeginRecord
  <2>2. Begun(op, d, p).solo
    BY DEF Begun
  <2> QED
    BY <2>1, <2>2
<1>2. ASSUME NEW r \in Requests, Refuse(r) \/ CommitNothing(r)
      PROVE  Undisturbed'
  BY <1>2 DEF Refuse, CommitNothing, Finish, Idle
<1>3. ASSUME NEW r \in Requests, Climb(r) \/ Accept(r)
      PROVE  Undisturbed'
  BY <1>3 DEF Climb, Accept
<1>4. ASSUME NEW r \in Requests, Commit(r)
      PROVE  Undisturbed'
  BY <1>4 DEF Commit, Idle
<1>5. CASE UNCHANGED req
  BY <1>5
<1> QED
  BY <1>1, <1>2, <1>3, <1>4, <1>5 DEF Next, Handle, Delete, vars

(* Links that are set one request after the other never form a cycle.      *)
THEOREM SequentialRequestsStayAcyclic ==
  ASSUME OneAtATime
  PROVE  Spec => []Acyclic
<1>1. Init => Acyclic /\ Undisturbed
  BY NoParentAssumption
  DEF Init, Acyclic, AcyclicIn, Closed, Undisturbed, Idle
<1>2. /\ IInv /\ Acyclic /\ Undisturbed /\ [Next]_vars
      => (Acyclic /\ Undisturbed)'
  BY AcyclicStep, UndisturbedStep DEF IInv, Undisturbed
<1> QED
  BY <1>1, <1>2, InvariantIInv, PTL DEF Spec

-----------------------------------------------------------------------------
(* How many steps of its own a request has left at most: a walk that has   *)
(* not seen n devices can climb n times, then gives up, then commits.      *)
Rank(q) ==
  CASE q.pc = "idle"   -> 0
    [] q.pc = "commit" -> 1
    [] q.pc = "walk"   -> 2 + Cardinality(Devices \ q.seen)

(* The variant behind WalkEnds: every step of a handler uses one up, and   *)
(* nothing that happens to the links around it ever gives it one more.     *)
HandlersProgress ==
  [][\A r \in Requests :
       /\ Handle(r) => Rank(req'[r]) < Rank(req[r])
       /\ req[r].pc # "idle" => Rank(req'[r]) <= Rank(req[r])]_vars

LEMMA RankIsNatural ==
  ASSUME IsFiniteSet(Devices), NEW q \in RequestStates
  PROVE  /\ Rank(q) \in Nat
         /\ Cardinality(Devices \ q.seen) \in Nat
         /\ q.pc # "idle" => Rank(q) >= 1
         /\ q.pc = "walk" => Rank(q) = 2 + Cardinality(Devices \ q.seen)
<1>1. Cardinality(Devices \ q.seen) \in Nat
  BY FS_Subset, FS_CardinalityType
<1>2. q.pc \in {"idle", "walk", "commit"}
  BY DEF RequestStates
<1> QED BY <1>1, <1>2 DEF Rank

LEMMA HandleUsesUp ==
  ASSUME IsFiniteSet(Devices), TypeOK, TypeOK', NEW r \in Requests, Handle(r)
  PROVE  Rank(req'[r]) < Rank(req[r])
<1>0. req[r] \in RequestStates /\ req'[r] \in RequestStates
  BY DEF TypeOK
<1>1. CASE Refuse(r) \/ Commit(r) \/ CommitNothing(r)
  <2>1. req'[r] = Idle /\ req[r].pc # "idle"
    BY <1>1 DEF Refuse, Commit, CommitNothing, Finish, TypeOK
  <2>2. Rank(Idle) = 0
    BY DEF Rank, Idle
  <2>3. Rank(req[r]) >= 1 /\ Rank(req[r]) \in Nat
    BY <1>0, <2>1, RankIsNatural
  <2> QED BY <2>1, <2>2, <2>3
<1>2. CASE Climb(r)
  <2> DEFINE unseen == Devices \ req[r].seen
  <2>1. /\ req[r].pc = "walk" /\ req[r].current \in Devices
        /\ req[r].current \notin req[r].seen
    BY <1>2 DEF Climb, TypeOK
  <2>2. /\ req'[r].pc \in {"walk", "commit"}
        /\ req'[r].seen = req[r].seen \cup {req[r].current}
    BY <1>0, <1>2 DEF Climb, TypeOK, RequestStates
  <2>3. Devices \ req'[r].seen = unseen \ {req[r].current}
    BY <2>2
  <2>4. Cardinality(unseen \ {req[r].current}) = Cardinality(unseen) - 1
    BY <2>1, FS_Subset, FS_RemoveElement
  <2>5. req'[r].pc = "commit" => Rank(req'[r]) = 1
    BY DEF Rank
  <2>6. Rank(req[r]) = 2 + Cardinality(unseen) /\ Cardinality(unseen) \in Nat
    BY <1>0, <2>1, RankIsNatural
  <2>7. req'[r].pc = "walk" => Rank(req'[r]) = 2 + (Cardinality(unseen) - 1)
    BY <1>0, <2>3, <2>4, RankIsNatural
  <2> HIDE DEF unseen
  <2> QED BY <2>2, <2>5, <2>6, <2>7
<1>3. CASE Accept(r)
  <2>1. req[r].pc = "walk" /\ req'[r].pc = "commit"
    BY <1>0, <1>3 DEF Accept, TypeOK, RequestStates
  <2>2. Rank(req'[r]) = 1
    BY <2>1 DEF Rank
  <2>3. /\ Cardinality(Devices \ req[r].seen) \in Nat
        /\ Rank(req[r]) = 2 + Cardinality(Devices \ req[r].seen)
    BY <1>0, <2>1, RankIsNatural
  <2> QED BY <2>2, <2>3
<1> QED BY <1>1, <1>2, <1>3 DEF Handle

LEMMA OthersGiveNothing ==
  ASSUME TypeOK, [Next]_vars, NEW r \in Requests, req[r].pc # "idle", ~Handle(r)
  PROVE  req'[r].pc = req[r].pc /\ req'[r].seen = req[r].seen
<1>1. ASSUME NEW q \in Requests, NEW d \in Devices,
             NEW p \in Devices \cup {NoParent}, Update(q, d, p) \/ Create(q, d, p)
      PROVE  req'[r] = req[r]
  BY <1>1 DEF Update, Create, Begin, TypeOK
<1>2. ASSUME NEW q \in Requests, q # r, Handle(q)
      PROVE  req'[r] = req[r] \/ req'[r] = Disturbed(r)
  BY <1>2 DEF Handle, Refuse, Climb, Accept, Commit, CommitNothing, Finish, TypeOK
<1>3. ASSUME req'[r] = Disturbed(r)
      PROVE  req'[r].pc = req[r].pc /\ req'[r].seen = req[r].seen
  BY <1>3 DEF Disturbed, TypeOK, RequestStates
<1>4. ASSUME NEW d \in Devices, Delete(d) PROVE req' = req
  BY <1>4 DEF Delete
<1> QED BY <1>1, <1>2, <1>3, <1>4 DEF Next, vars

(* A walk is bounded by the number of devices, whatever cycle it enters    *)
(* and however the links change while it walks, for any number of requests.*)
THEOREM WalksAreBounded ==
  ASSUME IsFiniteSet(Devices)
  PROVE  Spec => HandlersProgress
<1>1. ASSUME TypeOK, TypeOK', [Next]_vars, NEW r \in Requests
      PROVE  /\ Handle(r) => Rank(req'[r]) < Rank(req[r])
             /\ req[r].pc # "idle" => Rank(req'[r]) <= Rank(req[r])
  <2>1. Rank(req[r]) \in Nat /\ Rank(req'[r]) \in Nat
    BY <1>1, RankIsNatural DEF TypeOK
  <2>2. CASE Handle(r)
    BY <1>1, <2>1, <2>2, HandleUsesUp
  <2>3. CASE ~Handle(r)
    <3>1. req[r].pc # "idle" => Rank(req'[r]) = Rank(req[r])
      BY <1>1, <2>3, OthersGiveNothing DEF Rank
    <3> QED BY <2>1, <2>3, <3>1
  <2> QED BY <2>2, <2>3
<1>2. TypeOK /\ TypeOK' /\ [Next]_vars =>
        [\A r \in Requests :
           /\ Handle(r) => Rank(req'[r]) < Rank(req[r])
           /\ req[r].pc # "idle" => Rank(req'[r]) <= Rank(req[r])]_vars
  BY <1>1
<1> QED BY <1>2, GraphTypeCorrect, PTL DEF Spec, HandlersProgress

=============================================================================
