------------------------------ MODULE PollProofs ------------------------------
(***************************************************************************)
(* Proofs about who polls: CounterRates, for any polls, any widths of the  *)
(* counters and any traffic, DeviceChecks, for any checks and outcomes,    *)
(* Watchdog, for any intervals, timeouts and counts, Explorer, for any     *)
(* device, Discovery, for any addresses, subnets, sweeps and deciders, and *)
(* Fanout, for any statuses, writers and browsers; and, with what          *)
(* ListenerProofs has of the receivers and the lossy links, about the      *)
(* types of all of Loops.                                                  *)
(***************************************************************************)
EXTENDS ListenerProofs

(* A multiple of w less than w away from 0 is 0.                           *)
LEMMA SmallMultiple ==
  ASSUME NEW w \in Nat \ {0}, NEW k \in Int, w * k < w, -w < w * k
  PROVE  k = 0
<1>1. CASE k >= 1
  <2>1. w * k = w + w * (k - 1) /\ w * (k - 1) >= 0
    BY <1>1
  <2> QED
    BY <2>1
<1>2. CASE k <= -1
  <2>1. w * k = w * (k + 1) - w /\ w * (k + 1) <= 0
    BY <1>2
  <2> QED
    BY <2>1
<1> QED
  BY <1>1, <1>2

(* The remainder is what division leaves.                                 *)
LEMMA Division ==
  ASSUME NEW w \in Nat \ {0}, NEW a \in Int
  PROVE  a % w \in 0 .. w - 1 /\ a \div w \in Int /\ a % w = a - w * (a \div w)
<1>1. a % w \in 0 .. w - 1 /\ a \div w \in Int
  OBVIOUS
<1>2. a % w = a - w * (a \div w)
  OBVIOUS
<1> QED
  BY <1>1, <1>2, Zenon

(* There is no other.                                                      *)
LEMMA RemainderUnique ==
  ASSUME NEW w \in Nat \ {0}, NEW q \in Int, NEW r \in 0 .. w - 1
  PROVE  (w * q + r) % w = r
<1> DEFINE a == w * q + r
<1>0. a \in Int
  OBVIOUS
<1> DEFINE n == a \div w
           m == a % w
<1>1. m \in 0 .. w - 1 /\ n \in Int /\ m = a - w * n
  BY <1>0, Division
<1> HIDE DEF n, m
<1>2. w * (q - n) = m - r
  <2>1. w * (q - n) = w * q - w * n
    BY <1>1
  <2> QED
    BY <1>1, <2>1
<1>3. q - n = 0
  BY <1>1, <1>2, SmallMultiple
<1>4. m = r
  BY <1>1, <1>2, <1>3
<1> QED
  BY <1>4 DEF m

(* What counters modulo w differ by, modulo w, is what they counted.       *)
LEMMA RemainderOfDifference ==
  ASSUME NEW w \in Nat \ {0}, NEW x \in Int, NEW y \in Int, y <= x, x - y < w
  PROVE  ((x % w) - (y % w)) % w = x - y
<1> DEFINE k == (y \div w) - (x \div w)
<1>1. k \in Int /\ (x % w) - (y % w) = w * k + (x - y)
  <2>1. x % w = x - w * (x \div w) /\ x % w \in Int /\ x \div w \in Int
    BY Division
  <2>2. y % w = y - w * (y \div w) /\ y % w \in Int /\ y \div w \in Int
    BY Division
  <2> QED
    BY <2>1, <2>2
<1>2. x - y \in 0 .. w - 1
  OBVIOUS
<1> HIDE DEF k
<1> QED
  BY <1>1, <1>2, RemainderUnique

-----------------------------------------------------------------------------
(* Rates.  What a poll holds is what the counter showed, in the width it   *)
(* notes; and the sample in a store is the newest reading of the polls     *)
(* that use this store, for no other polls do.                             *)
Readings == [value: Int, true: Int, boot: Int]

Shows(reading, wide) ==
  reading # Nothing => reading.value = (reading.true - reading.boot) % Wrap(wide)

RatesType ==
  /\ carried \in Int /\ booted \in Int
  /\ poll \in [Polls -> [pc: {"idle", "walk", "walked", "narrow", "rate"}, wide: BOOLEAN,
                         out: Readings \cup {Nothing}]]
  /\ store \in [{"last", "peek"} -> [wide: BOOLEAN, out: Readings \cup {Nothing}] \cup {Nothing}]
  /\ latest \in [{"check", "peek"} -> Readings \cup {Nothing}]

PollsShow ==
  \A p \in Polls :
    /\ Shows(poll[p].out, poll[p].wide)
    /\ poll[p].pc \in {"walk", "walked"} => poll[p].wide
    /\ poll[p].pc = "narrow" => ~poll[p].wide

StoresNewest ==
  \A p \in Polls :
    store[StoreOf(p)] # Nothing =>
      /\ store[StoreOf(p)].out = latest[Kind(p)]
      /\ Shows(store[StoreOf(p)].out, store[StoreOf(p)].wide)

RatesInv == RatesType /\ PollsShow /\ StoresNewest

LEMMA WrapPositive == \A wide \in BOOLEAN : Wrap(wide) \in Nat \ {0}
BY RatesAssumption DEF Wrap

LEMMA ReadingShows ==
  ASSUME RatesType, NEW wide \in BOOLEAN
  PROVE  Reading(wide) \in Readings /\ Shows(Reading(wide), wide)
<1>1. Wrap(wide) \in Nat \ {0}
  BY WrapPositive
<1>2. carried - booted \in Int /\ carried \in Int /\ booted \in Int
  BY DEF RatesType
<1>3. (carried - booted) % Wrap(wide) \in Int
  BY <1>1, <1>2, Division
<1> QED
  BY <1>2, <1>3 DEF Reading, Readings, Shows

LEMMA InitRatesInv == Init => RatesInv
<1> SUFFICES ASSUME Init PROVE RatesInv
  OBVIOUS
<1>1. RatesInit
  BY DEF Init
<1>2. WideWrap \in Int
  BY RatesAssumption
<1>3. RatesType
  BY <1>1, <1>2 DEF RatesInit, RatesType, NoPoll
<1>4. PollsShow
  BY <1>1 DEF RatesInit, PollsShow, NoPoll, Shows
<1>5. StoresNewest
  BY <1>1 DEF RatesInit, StoresNewest, StoreOf
<1> QED
  BY <1>3, <1>4, <1>5 DEF RatesInv

LEMMA ElsewhereKeepsRatesInv ==
  ASSUME RatesInv, UNCHANGED ratesVars
  PROVE  RatesInv'
BY DEF RatesInv, RatesType, PollsShow, StoresNewest, Shows, ratesVars

(* A step of a poll that leaves store and observer alone.                  *)
LEMMA PollChangeKeepsRatesInv ==
  ASSUME RatesInv, NEW p \in Polls, NEW new, poll' = [poll EXCEPT ![p] = new],
         UNCHANGED <<carried, booted, store, latest>>,
         new \in [pc: {"idle", "walk", "walked", "narrow", "rate"}, wide: BOOLEAN,
                  out: Readings \cup {Nothing}],
         Shows(new.out, new.wide),
         new.pc \in {"walk", "walked"} => new.wide,
         new.pc = "narrow" => ~new.wide
  PROVE  RatesInv'
<1>1. RatesType'
  BY DEF RatesInv, RatesType
<1>2. PollsShow'
  BY DEF RatesInv, RatesType, PollsShow, Shows
<1>3. StoresNewest'
  BY DEF RatesInv, StoresNewest, Shows
<1> QED
  BY <1>1, <1>2, <1>3 DEF RatesInv

LEMMA PollKeepsRatesInv ==
  ASSUME RatesInv, NEW p \in Polls, PollNext(p)
  PROVE  RatesInv'
<1> USE DEF RatesInv
<1> DEFINE PollStates == [pc: {"idle", "walk", "walked", "narrow", "rate"}, wide: BOOLEAN,
                          out: Readings \cup {Nothing}]
<1>0. poll[p] \in PollStates /\ poll \in [Polls -> PollStates]
  BY DEF RatesType
<1>1. CASE PollStart(p)
  <2> DEFINE new == [NoPoll EXCEPT !.pc = "walk"]
  <2>1. poll' = [poll EXCEPT ![p] = new] /\ UNCHANGED <<carried, booted, store, latest>>
    BY <1>1 DEF PollStart
  <2>2. new \in PollStates /\ new.pc = "walk" /\ new.wide /\ Shows(new.out, new.wide)
    BY DEF NoPoll, Shows
  <2> HIDE DEF new
  <2> QED
    BY <2>1, <2>2, PollChangeKeepsRatesInv
<1>2. CASE OutReturns(p)
  <2>1. PICK reading \in {Nothing, Reading(TRUE)} :
          poll' = [poll EXCEPT ![p].pc = "walked", ![p].out = reading]
    BY <1>2 DEF OutReturns
  <2>2. poll[p].pc = "walk" /\ UNCHANGED <<carried, booted, store, latest>>
    BY <1>2 DEF OutReturns
  <2>3. reading \in Readings \cup {Nothing} /\ Shows(reading, TRUE)
    BY ReadingShows DEF Shows
  <2>4. poll[p].wide = TRUE
    BY <1>0, <2>2 DEF PollsShow
  <2> DEFINE new == [poll[p] EXCEPT !.pc = "walked", !.out = reading]
  <2>5. poll' = [poll EXCEPT ![p] = new]
    BY <1>0, <2>1
  <2>6. new \in PollStates /\ new.pc = "walked" /\ new.wide = TRUE /\ new.out = reading
    BY <1>0, <2>3, <2>4
  <2> HIDE DEF new
  <2> QED
    BY <2>2, <2>3, <2>5, <2>6, PollChangeKeepsRatesInv
<1>3. CASE PollFails(p)
  <2>1. poll' = [poll EXCEPT ![p] = NoPoll] /\ UNCHANGED <<carried, booted, store, latest>>
    BY <1>3 DEF PollFails
  <2>2. NoPoll \in PollStates /\ NoPoll.pc = "idle" /\ Shows(NoPoll.out, NoPoll.wide)
    BY DEF NoPoll, Shows
  <2> QED
    BY <2>1, <2>2, PollChangeKeepsRatesInv
<1>4. CASE Complete(p)
  <2>1. poll[p].pc = "walked" /\ UNCHANGED <<carried, booted, store, latest>>
    BY <1>4 DEF Complete
  <2>2. CASE poll' = [poll EXCEPT ![p].pc = "rate"]
    <3> DEFINE new == [poll[p] EXCEPT !.pc = "rate"]
    <3>1. poll' = [poll EXCEPT ![p] = new]
      BY <1>0, <2>2
    <3>2. new \in PollStates /\ new.pc = "rate" /\ Shows(new.out, new.wide)
      BY <1>0 DEF PollsShow
    <3> HIDE DEF new
    <3> QED
      BY <2>1, <3>1, <3>2, PollChangeKeepsRatesInv
  <2>3. CASE poll' = [poll EXCEPT ![p] = [NoPoll EXCEPT !.pc = "narrow", !.wide = FALSE]]
    <3> DEFINE new == [NoPoll EXCEPT !.pc = "narrow", !.wide = FALSE]
    <3>1. new \in PollStates /\ new.pc = "narrow" /\ new.wide = FALSE /\ new.out = Nothing
      BY DEF NoPoll
    <3>2. poll' = [poll EXCEPT ![p] = new]
      BY <2>3
    <3> HIDE DEF new
    <3>3. Shows(new.out, new.wide)
      BY <3>1 DEF Shows
    <3> QED
      BY <2>1, <3>1, <3>2, <3>3, PollChangeKeepsRatesInv
  <2> QED
    BY <1>4, <2>2, <2>3 DEF Complete
<1>5. CASE Narrow(p)
  <2>1. PICK reading \in {Nothing, Reading(FALSE)} :
          poll' = [poll EXCEPT ![p].pc = "rate", ![p].out = reading]
    BY <1>5 DEF Narrow
  <2>2. poll[p].pc = "narrow" /\ UNCHANGED <<carried, booted, store, latest>>
    BY <1>5 DEF Narrow
  <2>3. reading \in Readings \cup {Nothing} /\ Shows(reading, FALSE)
    BY ReadingShows DEF Shows
  <2>4. poll[p].wide = FALSE
    BY <1>0, <2>2 DEF PollsShow
  <2> DEFINE new == [poll[p] EXCEPT !.pc = "rate", !.out = reading]
  <2>5. poll' = [poll EXCEPT ![p] = new]
    BY <1>0, <2>1
  <2>6. new \in PollStates /\ new.pc = "rate" /\ new.wide = FALSE /\ new.out = reading
    BY <1>0, <2>3, <2>4
  <2> HIDE DEF new
  <2> QED
    BY <2>2, <2>3, <2>5, <2>6, PollChangeKeepsRatesInv
<1>6. CASE Rate(p)
  <2>1. /\ store' = [store EXCEPT ![StoreOf(p)] = Sample(p)]
        /\ latest' = [latest EXCEPT ![Kind(p)] = poll[p].out]
        /\ poll' = [poll EXCEPT ![p] = NoPoll]
        /\ UNCHANGED <<carried, booted>>
    BY <1>6 DEF Rate
  <2>2. /\ Sample(p) \in [wide: BOOLEAN, out: Readings \cup {Nothing}]
        /\ Sample(p).out = poll[p].out /\ Sample(p).wide = poll[p].wide
    BY <1>0 DEF Sample
  <2>3. RatesType'
    BY <1>0, <2>1, <2>2 DEF RatesType, NoPoll
  <2>4. PollsShow'
    <3>1. NoPoll.pc = "idle" /\ Shows(NoPoll.out, NoPoll.wide)
      BY DEF NoPoll, Shows
    <3> QED
      BY <1>0, <2>1, <3>1 DEF PollsShow, Shows
  <2>5. StoresNewest'
    <3> SUFFICES ASSUME NEW q \in Polls, store'[StoreOf(q)] # Nothing
                 PROVE  /\ store'[StoreOf(q)].out = latest'[Kind(q)]
                        /\ Shows(store'[StoreOf(q)].out, store'[StoreOf(q)].wide)
      BY DEF StoresNewest, Shows
    <3>1. \A x \in Polls : StoreOf(x) \in {"last", "peek"} /\ Kind(x) \in {"check", "peek"}
      BY DEF StoreOf, Kind
    <3>2. StoreOf(q) = StoreOf(p) <=> Kind(q) = Kind(p)
      BY DEF StoreOf, Kind
    <3>3. CASE StoreOf(q) = StoreOf(p)
      <4>1. store'[StoreOf(q)] = Sample(p) /\ latest'[Kind(q)] = poll[p].out
        BY <2>1, <3>1, <3>2, <3>3 DEF RatesType
      <4> QED
        BY <2>2, <4>1 DEF PollsShow
    <3>4. CASE StoreOf(q) # StoreOf(p)
      <4>1. store'[StoreOf(q)] = store[StoreOf(q)] /\ latest'[Kind(q)] = latest[Kind(q)]
        BY <2>1, <3>1, <3>2, <3>4 DEF RatesType
      <4> QED
        BY <4>1 DEF StoresNewest
    <3> QED
      BY <3>3, <3>4
  <2> QED
    BY <2>3, <2>4, <2>5
<1> QED
  BY <1>1, <1>2, <1>3, <1>4, <1>5, <1>6 DEF PollNext

LEMMA NextKeepsRatesInv == RatesInv /\ [Next]_vars => RatesInv'
<1> SUFFICES ASSUME RatesInv, [Next]_vars PROVE RatesInv'
  OBVIOUS
<1>1. CASE RatesPart
  <2>1. ASSUME NEW p \in Polls, PollNext(p) PROVE RatesInv'
    BY <2>1, PollKeepsRatesInv
  <2>2. CASE DeviceNext
    BY <2>2 DEF DeviceNext, Carry, Reboot, RatesInv, RatesType, PollsShow, StoresNewest, Shows
  <2> QED
    BY <1>1, <2>1, <2>2 DEF RatesPart, RatesNext
<1>2. CASE ListenerPart \/ DiscoveryPart \/ ChecksPart \/ LossPart \/ ExplorerPart
          \/ FanoutPart \/ WatchdogPart
  BY <1>2, ElsewhereKeepsRatesInv
     DEF ListenerPart, DiscoveryPart, ChecksPart, LossPart, ExplorerPart, FanoutPart, WatchdogPart
<1>3. CASE Restart
  <2>1. RatesRestart
    BY <1>3 DEF Restart
  <2>2. RatesType'
    BY <2>1 DEF RatesRestart, RatesInv, RatesType, NoPoll
  <2>3. PollsShow'
    BY <2>1 DEF RatesRestart, PollsShow, NoPoll, Shows
  <2>4. StoresNewest'
    BY <2>1 DEF RatesRestart, StoresNewest, StoreOf
  <2> QED
    BY <2>2, <2>3, <2>4 DEF RatesInv
<1>4. CASE UNCHANGED vars
  BY <1>4, ElsewhereKeepsRatesInv DEF vars
<1> QED
  BY <1>1, <1>2, <1>3, <1>4 DEF Next

(* The difference of two readings of one counter is the traffic between    *)
(* them, wrapped or not.                                                   *)
LEMMA RateIsTrue ==
  ASSUME RatesInv, NEW p \in Polls, Rates(p) # Nothing,
         Sound(poll[p].out, latest[Kind(p)], Wrap(poll[p].wide))
  PROVE  Rates(p) = poll[p].out.true - latest[Kind(p)].true
<1> DEFINE now == poll[p].out
           before == latest[Kind(p)]
           w == Wrap(poll[p].wide)
<1>1. /\ store[StoreOf(p)] # Nothing /\ store[StoreOf(p)].wide = poll[p].wide
      /\ Rates(p) = (Value(poll[p].out) - Value(store[StoreOf(p)].out)) % Wrap(poll[p].wide)
  BY DEF Rates, Comparable, Previous
<1>2. store[StoreOf(p)].out = before /\ Shows(before, poll[p].wide) /\ Shows(now, poll[p].wide)
  BY <1>1 DEF RatesInv, StoresNewest, PollsShow
<1>3. now # Nothing /\ before # Nothing /\ now.boot = before.boot
      /\ now.true >= before.true /\ now.true - before.true < w
  BY DEF Sound
<1>4. now \in Readings /\ before \in Readings /\ w \in Nat \ {0}
  <2>1. now \in Readings \cup {Nothing} /\ poll[p].wide \in BOOLEAN
    BY DEF RatesInv, RatesType
  <2>2. before \in Readings \cup {Nothing}
    BY DEF RatesInv, RatesType, Kind
  <2> QED
    BY <1>3, <2>1, <2>2, WrapPositive
<1> DEFINE x == now.true - now.boot
           y == before.true - now.boot
<1>5. Rates(p) = ((x % w) - (y % w)) % w
  BY <1>1, <1>2, <1>3 DEF Value, Shows
<1>6. x \in Int /\ y \in Int /\ y <= x /\ x - y < w /\ x - y = now.true - before.true
  BY <1>3, <1>4 DEF Readings
<1> HIDE DEF x, y
<1>7. ((x % w) - (y % w)) % w = x - y
  BY <1>4, <1>6, RemainderOfDifference
<1> QED
  BY <1>5, <1>6, <1>7

(* Every rate computed from sound readings is the traffic since the poll   *)
(* of the same kind before, for counters of any width.                     *)
THEOREM RatesAreTrue == Spec => RatesTrue
<1>1. RatesInv /\ [Next]_vars =>
        [\A p \in Polls :
           LET before == latest[Kind(p)]
           IN  Rate(p) /\ Rates(p) # Nothing /\ Sound(poll[p].out, before, Wrap(poll[p].wide))
               => Rates(p) = poll[p].out.true - before.true]_ratesVars
  BY RateIsTrue
<1> QED
  BY <1>1, InitRatesInv, NextKeepsRatesInv, PTL DEF Spec, RatesTrue

-----------------------------------------------------------------------------
(* Checks.  A check about to write that nobody's write overlapped has      *)
(* loaded the status that is still in the row.                             *)
CheckStates ==
  [pc: {"idle", "poll", "load", "write"}, outcome: Outcomes \cup {Unknown},
   loaded: Outcomes \cup {Unknown}, crossed: BOOLEAN]

ChecksType == row \in Rows /\ check \in [Checks -> CheckStates]

LoadedIsCurrent ==
  \A c \in Checks : check[c].pc = "write" /\ ~check[c].crossed => check[c].loaded = row.status

ChecksInv == ChecksType /\ LoadedIsCurrent /\ StatusIsNewest

LEMMA InitChecksInv == Init => ChecksInv
<1> SUFFICES ASSUME Init PROVE ChecksInv
  OBVIOUS
<1>1. ChecksInit
  BY DEF Init
<1>2. ChecksType
  BY <1>1 DEF ChecksInit, ChecksType, Rows, CheckStates, NoCheck
<1>3. LoadedIsCurrent
  BY <1>1 DEF ChecksInit, LoadedIsCurrent, NoCheck
<1>4. StatusIsNewest
  BY <1>1, ChecksAssumption DEF ChecksInit, StatusIsNewest
<1> QED
  BY <1>2, <1>3, <1>4 DEF ChecksInv

LEMMA ElsewhereKeepsChecksInv ==
  ASSUME ChecksInv, UNCHANGED checksVars
  PROVE  ChecksInv'
BY DEF ChecksInv, ChecksType, LoadedIsCurrent, StatusIsNewest, checksVars

LEMMA CheckKeepsChecksInv ==
  ASSUME ChecksInv, NEW c \in Checks, CheckNext(c)
  PROVE  ChecksInv'
<1> USE DEF ChecksInv
<1>0. check[c] \in CheckStates /\ NoCheck \in CheckStates /\ NoCheck.pc = "idle"
  BY DEF ChecksType, CheckStates, NoCheck
<1>1. CASE Begin(c)
  <2>1. UNCHANGED row
    BY <1>1 DEF Begin
  <2>2. CASE check' = [check EXCEPT ![c] = [NoCheck EXCEPT !.pc = "poll"]]
    BY <1>0, <2>1, <2>2 DEF ChecksType, LoadedIsCurrent, StatusIsNewest, CheckStates, NoCheck
  <2>3. CASE check' = [check EXCEPT ![c] =
               [NoCheck EXCEPT !.pc = "write", !.outcome = "error", !.loaded = row.status]]
    <3> DEFINE new == [NoCheck EXCEPT !.pc = "write", !.outcome = "error", !.loaded = row.status]
    <3>1. new \in CheckStates /\ new.loaded = row.status
      BY ChecksAssumption DEF ChecksType, CheckStates, NoCheck, Rows
    <3> HIDE DEF new
    <3>2. check' = [check EXCEPT ![c] = new]
      BY <2>3 DEF new
    <3> QED
      BY <2>1, <3>1, <3>2 DEF ChecksType, LoadedIsCurrent, StatusIsNewest
  <2> QED
    BY <1>1, <2>2, <2>3 DEF Begin
<1>2. CASE Poll(c)
  <2>1. PICK outcome \in Outcomes :
          check' = [check EXCEPT ![c].pc = "load", ![c].outcome = outcome]
    BY <1>2 DEF Poll
  <2>2. UNCHANGED row
    BY <1>2 DEF Poll
  <2> QED
    BY <1>0, <2>1, <2>2 DEF ChecksType, LoadedIsCurrent, StatusIsNewest, CheckStates
<1>3. CASE LoadRow(c)
  <2>1. UNCHANGED row
    BY <1>3 DEF LoadRow
  <2>2. CASE check' = [check EXCEPT ![c].pc = "write", ![c].loaded = row.status]
    BY <1>0, <2>1, <2>2 DEF ChecksType, LoadedIsCurrent, StatusIsNewest, CheckStates, Rows
  <2>3. CASE check' = [check EXCEPT ![c] = NoCheck]
    BY <1>0, <2>1, <2>3 DEF ChecksType, LoadedIsCurrent, StatusIsNewest
  <2> QED
    BY <1>3, <2>2, <2>3 DEF LoadRow
<1>4. CASE Write(c)
  <2>1. /\ check[c].pc = "write"
        /\ row' = [row EXCEPT !.status = StatusAfter(c), !.facts = @ \/ check[c].outcome = "ok",
                              !.stamp = check[c].outcome, !.crossed = check[c].crossed]
        /\ check' = [d \in Checks |-> IF d = c THEN NoCheck
                                      ELSE [check[d] EXCEPT !.crossed = check[d].pc = "write"]]
    BY <1>4 DEF Write
  <2>2. StatusAfter(c) \in Outcomes \cup {Unknown}
    BY <1>0 DEF StatusAfter, ChecksType, CheckStates, Rows
  <2>3. row' \in Rows
    BY <1>0, <2>1, <2>2 DEF ChecksType, CheckStates, Rows
  <2>4. check' \in [Checks -> CheckStates]
    BY <1>0, <2>1 DEF ChecksType, CheckStates
  <2>5. LoadedIsCurrent'
    <3> SUFFICES ASSUME NEW d \in Checks, check'[d].pc = "write", ~check'[d].crossed
                 PROVE  FALSE
      BY DEF LoadedIsCurrent
    <3>1. d # c /\ check'[d] = [check[d] EXCEPT !.crossed = check[d].pc = "write"]
      BY <1>0, <2>1
    <3>2. check[d] \in CheckStates
      BY DEF ChecksType
    <3> QED
      BY <3>1, <3>2 DEF CheckStates
  <2>6. StatusIsNewest'
    <3>1. /\ row'.status = StatusAfter(c) /\ row'.stamp = check[c].outcome
          /\ row'.crossed = check[c].crossed /\ row'.facts = (row.facts \/ check[c].outcome = "ok")
      BY <2>1 DEF ChecksType, Rows
    <3>2. CASE check[c].outcome # check[c].loaded
      BY <3>1, <3>2 DEF StatusAfter, StatusIsNewest
    <3>3. CASE check[c].outcome = check[c].loaded
      <4>1. row'.status = row.status
        BY <3>1, <3>3 DEF StatusAfter
      <4>2. check[c].crossed \/ row.status = check[c].outcome
        BY <2>1, <3>3 DEF LoadedIsCurrent
      <4> QED
        BY <3>1, <4>1, <4>2 DEF StatusIsNewest
    <3> QED
      BY <3>2, <3>3
  <2> QED
    BY <2>3, <2>4, <2>5, <2>6 DEF ChecksType
<1>5. CASE WriteFails(c)
  <2>1. check' = [check EXCEPT ![c] = NoCheck] /\ UNCHANGED row
    BY <1>5 DEF WriteFails
  <2> QED
    BY <1>0, <2>1 DEF ChecksType, LoadedIsCurrent, StatusIsNewest
<1> QED
  BY <1>1, <1>2, <1>3, <1>4, <1>5 DEF CheckNext

LEMMA NextKeepsChecksInv == ChecksInv /\ [Next]_vars => ChecksInv'
<1> SUFFICES ASSUME ChecksInv, [Next]_vars PROVE ChecksInv'
  OBVIOUS
<1>1. CASE ChecksPart
  <2>1. CASE Configure
    <3>1. PICK polled \in BOOLEAN, credentials \in {"good", "missing", "refused"} :
            row' = [row EXCEPT !.polled = polled, !.credentials = credentials]
      BY <2>1 DEF Configure
    <3>2. row' \in Rows /\ row'.status = row.status /\ row'.stamp = row.stamp
          /\ row'.facts = row.facts /\ row'.crossed = row.crossed
      BY <3>1 DEF ChecksInv, ChecksType, Rows
    <3> QED
      BY <2>1, <3>2 DEF Configure, ChecksInv, ChecksType, LoadedIsCurrent, StatusIsNewest
  <2>2. CASE Delete
    <3>1. row' \in Rows /\ row'.status = row.status /\ row'.stamp = row.stamp
          /\ row'.facts = row.facts /\ row'.crossed = row.crossed
      BY <2>2 DEF Delete, ChecksInv, ChecksType, Rows
    <3> QED
      BY <2>2, <3>1 DEF Delete, ChecksInv, ChecksType, LoadedIsCurrent, StatusIsNewest
  <2> QED
    BY <1>1, <2>1, <2>2, CheckKeepsChecksInv DEF ChecksPart, ChecksNext
<1>2. CASE ListenerPart \/ DiscoveryPart \/ RatesPart \/ LossPart \/ ExplorerPart
          \/ FanoutPart \/ WatchdogPart
  BY <1>2, ElsewhereKeepsChecksInv
     DEF ListenerPart, DiscoveryPart, RatesPart, LossPart, ExplorerPart, FanoutPart, WatchdogPart
<1>3. CASE Restart
  <2>1. /\ check' = [c \in Checks |-> IF c \in LoopChecks THEN NoCheck ELSE check[c]]
        /\ UNCHANGED row
    BY <1>3 DEF Restart, ChecksRestart
  <2>2. NoCheck \in CheckStates /\ NoCheck.pc = "idle"
    BY DEF NoCheck, CheckStates
  <2> QED
    BY <2>1, <2>2 DEF ChecksInv, ChecksType, LoadedIsCurrent, StatusIsNewest
<1>4. CASE UNCHANGED vars
  BY <1>4, ElsewhereKeepsChecksInv DEF vars
<1> QED
  BY <1>1, <1>2, <1>3, <1>4 DEF Next

(* The status of a device agrees with the check that dated it, but for     *)
(* checks whose units of work crossed; and a device that is "ok" has facts.*)
THEOREM StatusIsTheNewest == Spec => []StatusIsNewest
<1>1. ChecksInv => StatusIsNewest
  BY DEF ChecksInv
<1> QED
  BY <1>1, InitChecksInv, NextKeepsChecksInv, PTL DEF Spec

-----------------------------------------------------------------------------
(* The watchdog.  Where it stands bounds for how long nobody has known:    *)
(* every bad answer in a row costs one round of asking and sleeping, and a *)
(* good answer can only be as old as the question.                         *)
Round == WATCHDOG_INTERVAL + HTTP_TIMEOUT

WatchdogType ==
  /\ serving \in BOOLEAN /\ beatAge \in Int /\ blind \in Nat /\ alarmed \in BOOLEAN
  /\ consecutive \in Nat
  /\ dog \in [pc: {"check", "alarm", "resolve", "sleep"}, spent: Nat,
              answer: {"none", "healthy", "stale"}]
  /\ dog.spent <= Longest(dog.pc)

(* A good answer, or the all-clear it brings, is all there has been since. *)
GoodNews ==
  /\ ~Unmonitored => blind = 0
  /\ dog.pc = "check" /\ dog.answer = "healthy" => blind <= dog.spent
  /\ dog.pc = "resolve" => consecutive = 0 /\ blind <= HTTP_TIMEOUT + dog.spent

(* No alarm yet: the answers counted, and what comes before the first.     *)
Counted ==
  ~alarmed =>
    LET before == HTTP_TIMEOUT + MaxAlert + consecutive * Round
    IN  CASE dog.pc = "sleep" -> consecutive < WATCHDOG_FAILURES /\ blind <= before + dog.spent
          [] dog.pc = "check" -> /\ consecutive < WATCHDOG_FAILURES
                                 /\ blind <= before + WATCHDOG_INTERVAL + dog.spent
          [] dog.pc = "alarm" -> consecutive = WATCHDOG_FAILURES /\ blind <= before + dog.spent
          [] OTHER -> FALSE

WatchdogInv == WatchdogType /\ GoodNews /\ Counted

LEMMA Rounds ==
  /\ Round \in Nat /\ 0 * Round = 0
  /\ \A c \in Nat : c * Round \in Nat /\ (c + 1) * Round = c * Round + Round
  /\ \A c \in Nat : c < WATCHDOG_FAILURES => c * Round + Round <= WATCHDOG_FAILURES * Round
<1>1. Round \in Nat
  BY WatchdogAssumption DEF Round
<1> HIDE DEF Round
<1>2. ASSUME NEW c \in Nat PROVE c * Round \in Nat /\ (c + 1) * Round = c * Round + Round
  BY <1>1
<1>3. ASSUME NEW c \in Nat, c < WATCHDOG_FAILURES
      PROVE  c * Round + Round <= WATCHDOG_FAILURES * Round
  <2> DEFINE more == WATCHDOG_FAILURES - (c + 1)
  <2>1. more \in Nat /\ WATCHDOG_FAILURES = c + 1 + more
    BY <1>3, WatchdogAssumption
  <2> HIDE DEF more
  <2>2. more * Round \in Nat /\ (c + 1 + more) * Round = c * Round + Round + more * Round
    BY <1>1, <2>1
  <2> QED
    BY <1>1, <1>2, <2>1, <2>2
<1>4. 0 * Round = 0
  BY <1>1
<1> QED
  BY <1>1, <1>2, <1>3, <1>4

LEMMA LongestSteps ==
  /\ Longest("check") = HTTP_TIMEOUT /\ Longest("sleep") = WATCHDOG_INTERVAL
  /\ Longest("alarm") = MaxAlert /\ Longest("resolve") = MaxAlert
BY DEF Longest

LEMMA InitWatchdogInv == Init => WatchdogInv
<1> SUFFICES ASSUME Init PROVE WatchdogInv
  OBVIOUS
<1>1. /\ serving = TRUE /\ beatAge = 0 /\ blind = 0 /\ alarmed = FALSE /\ consecutive = 0
      /\ dog = [pc |-> "check", spent |-> 0, answer |-> "none"]
  BY DEF Init, WatchdogInit, Asking
<1>2. consecutive * Round = 0
  BY <1>1, Rounds
<1>3. /\ HTTP_TIMEOUT \in Nat /\ WATCHDOG_INTERVAL \in Nat /\ MaxAlert \in Nat
      /\ WATCHDOG_FAILURES \in Nat \ {0}
  BY WatchdogAssumption
<1>4. WatchdogType
  <2>1. serving \in BOOLEAN /\ alarmed \in BOOLEAN
    BY <1>1, Zenon
  <2> QED
    BY <1>1, <1>3, <2>1, LongestSteps DEF WatchdogType
<1>5. GoodNews
  BY <1>1 DEF GoodNews
<1>6. Counted
  BY <1>1, <1>2, <1>3 DEF Counted
<1> QED
  BY <1>4, <1>5, <1>6 DEF WatchdogInv

LEMMA WatchdogKeepsInv ==
  ASSUME WatchdogInv, WatchdogNext
  PROVE  WatchdogInv'
<1> USE DEF WatchdogInv
<1>0. /\ HTTP_TIMEOUT \in Nat /\ WATCHDOG_INTERVAL \in Nat /\ MaxAlert \in Nat
      /\ HEALTHY_LIMIT \in Nat /\ WATCHDOG_FAILURES \in Nat \ {0}
  BY WatchdogAssumption
<1>r. Round \in Nat /\ Round = WATCHDOG_INTERVAL + HTTP_TIMEOUT
      /\ consecutive * Round \in Nat /\ (consecutive + 1) * Round = consecutive * Round + Round
      /\ 0 * Round = 0
  <2>1. Round = WATCHDOG_INTERVAL + HTTP_TIMEOUT
    BY DEF Round
  <2> QED
    BY <2>1, Rounds DEF WatchdogType
<1> HIDE DEF Round
<1>1. CASE Healthz
  <2>1. /\ serving /\ dog.pc = "check" /\ UNCHANGED <<serving, beatAge, consecutive, alarmed, blind>>
        /\ dog'.pc = "check" /\ dog'.spent = dog.spent
        /\ dog'.answer = "stale" \/ (dog'.answer = "healthy" /\ beatAge <= HEALTHY_LIMIT)
        /\ dog' \in [pc: {"check", "alarm", "resolve", "sleep"}, spent: Nat,
                     answer: {"none", "healthy", "stale"}]
    <3>1. PICK redis \in BOOLEAN :
            dog' = [dog EXCEPT !.answer =
                      IF redis /\ beatAge <= HEALTHY_LIMIT THEN "healthy" ELSE "stale"]
      BY <1>1 DEF Healthz
    <3>2. serving /\ dog.pc = "check" /\ UNCHANGED <<serving, beatAge, consecutive, alarmed, blind>>
      BY <1>1 DEF Healthz
    <3>3. CASE redis /\ beatAge <= HEALTHY_LIMIT
      <4>1. dog' = [dog EXCEPT !.answer = "healthy"]
        BY <3>1, <3>3
      <4> QED
        BY <3>2, <3>3, <4>1 DEF WatchdogType
    <3>4. CASE ~(redis /\ beatAge <= HEALTHY_LIMIT)
      <4>1. dog' = [dog EXCEPT !.answer = "stale"]
        BY <3>1, <3>4
      <4>2. /\ dog'.pc = dog.pc /\ dog'.spent = dog.spent /\ dog'.answer = "stale"
            /\ dog' \in [pc: {"check", "alarm", "resolve", "sleep"}, spent: Nat,
                         answer: {"none", "healthy", "stale"}]
        BY <4>1 DEF WatchdogType
      <4> QED
        BY <3>2, <4>2
    <3> QED
      BY <3>3, <3>4
  <2>2. WatchdogType'
    BY <2>1 DEF WatchdogType
  <2>3. GoodNews'
    BY <1>0, <2>1 DEF GoodNews, Unmonitored, WatchdogType
  <2>4. Counted'
    BY <2>1 DEF Counted
  <2> QED
    BY <2>2, <2>3, <2>4
<1>2. CASE Healthy
  <2>1. /\ consecutive' = 0 /\ UNCHANGED <<serving, beatAge, alarmed, blind>>
        /\ dog.pc = "check" /\ dog.answer = "healthy"
        /\ dog' = [pc |-> IF alarmed THEN "resolve" ELSE "sleep", spent |-> 0, answer |-> "none"]
    BY <1>2 DEF Healthy, At
  <2>2. blind <= HTTP_TIMEOUT
    BY <1>0, <2>1, LongestSteps DEF GoodNews, WatchdogType
  <2>3. WatchdogType'
    BY <1>0, <2>1, LongestSteps DEF WatchdogType
  <2>4. GoodNews'
    BY <1>0, <2>1, <2>2 DEF GoodNews, Unmonitored, WatchdogType
  <2>5. Counted'
    BY <1>0, <1>r, <2>1, <2>2 DEF Counted, WatchdogType
  <2> QED
    BY <2>3, <2>4, <2>5
<1>3. CASE Unhealthy
  <2>1. /\ consecutive' = AtMost(consecutive + 1, WATCHDOG_FAILURES + 1)
        /\ UNCHANGED <<serving, beatAge, alarmed, blind>> /\ dog.pc = "check"
        /\ dog' = [pc |-> IF consecutive + 1 >= WATCHDOG_FAILURES /\ ~alarmed THEN "alarm" ELSE "sleep",
                   spent |-> 0, answer |-> "none"]
    BY <1>3 DEF Unhealthy, At, Enough
  <2>2. WatchdogType'
    BY <1>0, <2>1, LongestSteps DEF WatchdogType, AtMost
  <2>3. GoodNews'
    BY <2>1 DEF GoodNews, Unmonitored
  <2>4. Counted'
    <3> SUFFICES ASSUME ~alarmed PROVE Counted'
      BY <2>1 DEF Counted
    <3>1. /\ consecutive < WATCHDOG_FAILURES
          /\ blind <= HTTP_TIMEOUT + MaxAlert + consecutive * Round + WATCHDOG_INTERVAL + dog.spent
      BY <2>1 DEF Counted
    <3>2. consecutive' = consecutive + 1 /\ dog.spent <= HTTP_TIMEOUT
      BY <1>0, <2>1, <3>1, LongestSteps DEF AtMost, WatchdogType
    <3>3. blind <= HTTP_TIMEOUT + MaxAlert + consecutive' * Round
      BY <1>0, <1>r, <3>1, <3>2 DEF WatchdogType
    <3>6. blind' = blind /\ alarmed' = alarmed /\ dog'.spent = 0 /\ blind \in Nat
          /\ consecutive' \in Nat /\ consecutive' * Round \in Nat
      <4>1. consecutive' \in Nat
        BY <3>2 DEF WatchdogType
      <4> QED
        BY <2>1, <4>1, Rounds DEF WatchdogType
    <3>7. blind' <= HTTP_TIMEOUT + MaxAlert + consecutive' * Round + dog'.spent
      BY <1>0, <3>3, <3>6
    <3>4. CASE consecutive + 1 >= WATCHDOG_FAILURES
      <4>1. dog'.pc = "alarm" /\ consecutive' = WATCHDOG_FAILURES
        BY <1>0, <2>1, <3>1, <3>2, <3>4 DEF WatchdogType
      <4> QED
        BY <3>7, <4>1 DEF Counted
    <3>5. CASE ~(consecutive + 1 >= WATCHDOG_FAILURES)
      <4>1. dog'.pc = "sleep" /\ consecutive' < WATCHDOG_FAILURES
        BY <1>0, <2>1, <3>2, <3>5 DEF WatchdogType
      <4> QED
        BY <3>7, <4>1 DEF Counted
    <3> QED
      BY <3>4, <3>5
  <2> QED
    BY <2>2, <2>3, <2>4
<1>4. CASE Alerted
  <2>1. /\ dog.pc \in {"alarm", "resolve"} /\ alarmed' = (dog.pc = "alarm")
        /\ dog' = [pc |-> "sleep", spent |-> 0, answer |-> "none"]
        /\ UNCHANGED <<serving, beatAge, consecutive, blind>>
    BY <1>4 DEF Alerted, At
  <2>2. WatchdogType'
    BY <1>0, <2>1, LongestSteps DEF WatchdogType
  <2>3. GoodNews'
    BY <2>1 DEF GoodNews, Unmonitored
  <2>4. CASE dog.pc = "alarm"
    BY <2>1, <2>2, <2>3, <2>4 DEF Counted
  <2>5. CASE dog.pc = "resolve"
    <3>1. consecutive = 0 /\ blind <= HTTP_TIMEOUT + MaxAlert
      BY <1>0, <2>5, LongestSteps DEF GoodNews, WatchdogType
    <3> QED
      BY <1>0, <1>r, <2>1, <2>2, <2>3, <3>1 DEF Counted, WatchdogType
  <2> QED
    BY <2>1, <2>4, <2>5
<1>5. CASE Slept
  <2>1. /\ dog.pc = "sleep" /\ dog.spent = WATCHDOG_INTERVAL
        /\ dog' = [pc |-> "check", spent |-> 0, answer |-> "none"]
        /\ UNCHANGED <<serving, beatAge, consecutive, alarmed, blind>>
    BY <1>5 DEF Slept, Asking
  <2>2. WatchdogType'
    BY <1>0, <2>1, LongestSteps DEF WatchdogType
  <2>3. GoodNews'
    BY <2>1 DEF GoodNews, Unmonitored
  <2>4. Counted'
    BY <1>0, <1>r, <2>1 DEF Counted, WatchdogType
  <2> QED
    BY <2>2, <2>3, <2>4
<1>6. CASE WatchdogRestart
  <2>1. /\ consecutive' = 0 /\ alarmed' = FALSE /\ blind' = 0
        /\ dog' = [pc |-> "check", spent |-> 0, answer |-> "none"]
        /\ UNCHANGED <<serving, beatAge>>
    BY <1>6 DEF WatchdogRestart, Asking
  <2>2. WatchdogType'
    <3>1. alarmed' \in BOOLEAN
      BY <2>1, Zenon
    <3> QED
      BY <1>0, <2>1, <3>1, LongestSteps DEF WatchdogType
  <2>3. GoodNews'
    BY <2>1 DEF GoodNews
  <2>4. Counted'
    BY <1>0, <1>r, <2>1 DEF Counted
  <2> QED
    BY <2>2, <2>3, <2>4
<1>7. CASE MonitorNext
  <2>1. /\ UNCHANGED <<dog, consecutive, alarmed>>
        /\ serving' \in BOOLEAN /\ beatAge' \in Int
        /\ blind' = IF Unmonitored' THEN blind ELSE 0
    <3>1. \/ serving' = ~serving /\ beatAge' = beatAge
          \/ serving' = serving /\ beatAge' = 0
      BY <1>7 DEF MonitorNext
    <3>2. serving' \in BOOLEAN
      BY <3>1, Zenon DEF WatchdogType
    <3>3. beatAge' \in Int
      BY <3>1 DEF WatchdogType
    <3> QED
      BY <1>7, <3>2, <3>3 DEF MonitorNext
  <2>2. blind' \in Nat /\ blind' <= blind /\ (~Unmonitored' => blind' = 0)
    BY <2>1 DEF WatchdogType
  <2>3. WatchdogType'
    BY <2>1, <2>2 DEF WatchdogType
  <2>4. GoodNews'
    BY <1>0, <2>1, <2>2 DEF GoodNews, WatchdogType
  <2>5. Counted'
    BY <1>0, <1>r, <2>1, <2>2 DEF Counted, WatchdogType
  <2> QED
    BY <2>3, <2>4, <2>5
<1>8. CASE WatchdogTick
  <2>1. /\ dog.spent < Longest(dog.pc)
        /\ dog' = [dog EXCEPT !.spent = dog.spent + 1]
        /\ beatAge' = AtMost(beatAge + 1, HEALTHY_LIMIT + 1)
        /\ UNCHANGED <<serving, consecutive, alarmed>>
    BY <1>8 DEF WatchdogTick
  <2>2. WorstDelay \in Nat
    BY <1>0, <1>r, Rounds DEF WorstDelay, Round
  <2>3. /\ blind' \in Nat /\ blind' <= blind + 1
        /\ ~Unmonitored => blind' = 0
    BY <1>8, <2>2 DEF WatchdogTick, AtMost, WatchdogType
  <2>4. /\ dog'.pc = dog.pc /\ dog'.spent = dog.spent + 1 /\ dog'.answer = dog.answer
        /\ dog' \in [pc: {"check", "alarm", "resolve", "sleep"}, spent: Nat,
                     answer: {"none", "healthy", "stale"}]
    BY <2>1 DEF WatchdogType
  <2>5. Longest(dog.pc) \in Nat
    BY <1>0, LongestSteps DEF WatchdogType
  <2>6. WatchdogType'
    BY <1>0, <2>1, <2>3, <2>4, <2>5 DEF WatchdogType, AtMost
  <2>7. ~Unmonitored' => ~Unmonitored
    BY <1>0, <2>1 DEF Unmonitored, AtMost, WatchdogType
  <2>8. GoodNews'
    BY <1>0, <2>1, <2>3, <2>4, <2>7 DEF GoodNews, WatchdogType
  <2>9. Counted'
    BY <1>0, <1>r, <2>1, <2>3, <2>4 DEF Counted, WatchdogType
  <2> QED
    BY <2>6, <2>8, <2>9
<1> QED
  BY <1>1, <1>2, <1>3, <1>4, <1>5, <1>6, <1>7, <1>8 DEF WatchdogNext

LEMMA NextKeepsWatchdogInv == WatchdogInv /\ [Next]_vars => WatchdogInv'
<1> SUFFICES ASSUME WatchdogInv, [Next]_vars PROVE WatchdogInv'
  OBVIOUS
<1>1. CASE WatchdogPart
  BY <1>1, WatchdogKeepsInv DEF WatchdogPart
<1>2. CASE UNCHANGED watchdogVars
  BY <1>2 DEF WatchdogInv, WatchdogType, GoodNews, Counted, Unmonitored, watchdogVars
<1>3. CASE ListenerPart \/ DiscoveryPart \/ RatesPart \/ ChecksPart \/ LossPart \/ ExplorerPart
          \/ FanoutPart
  BY <1>2, <1>3
     DEF ListenerPart, DiscoveryPart, RatesPart, ChecksPart, LossPart, ExplorerPart, FanoutPart
<1>4. CASE Restart \/ UNCHANGED vars
  BY <1>2, <1>4 DEF Restart, vars
<1> QED
  BY <1>1, <1>3, <1>4 DEF Next

(* Nobody is left in the dark: a monitor that is down or stuck is alarmed  *)
(* about within the worst delay, for any intervals, timeouts and counts.   *)
THEOREM AlarmComesInTime == Spec => []AlarmInTime
<1>1. WatchdogInv => AlarmInTime
  <2> SUFFICES ASSUME WatchdogInv, ~alarmed PROVE blind <= WorstDelay
    <3>1. WorstDelay \in Int
      BY WatchdogAssumption, Rounds DEF WorstDelay, Round
    <3> QED
      BY <3>1 DEF AlarmInTime, WatchdogInv, WatchdogType
  <2>0. /\ HTTP_TIMEOUT \in Nat /\ WATCHDOG_INTERVAL \in Nat /\ MaxAlert \in Nat
        /\ WATCHDOG_FAILURES \in Nat \ {0} /\ Round = WATCHDOG_INTERVAL + HTTP_TIMEOUT
    BY WatchdogAssumption DEF Round
  <2> HIDE DEF Round
  <2>1. /\ Round \in Nat /\ consecutive * Round \in Nat /\ WATCHDOG_FAILURES * Round \in Nat
        /\ consecutive < WATCHDOG_FAILURES =>
             consecutive * Round + Round <= WATCHDOG_FAILURES * Round
    BY <2>0, Rounds DEF WatchdogInv, WatchdogType
  <2>2. WorstDelay = WATCHDOG_FAILURES * Round + HTTP_TIMEOUT + 2 * MaxAlert
    BY <2>0 DEF WorstDelay
  <2>3. dog.spent \in Nat /\ dog.spent <= Longest(dog.pc) /\ blind \in Nat
        /\ dog.pc \in {"check", "alarm", "resolve", "sleep"}
    BY DEF WatchdogInv, WatchdogType
  <2>4. CASE dog.pc = "sleep"
    BY <2>0, <2>1, <2>2, <2>3, <2>4, LongestSteps DEF WatchdogInv, Counted
  <2>5. CASE dog.pc = "check"
    BY <2>0, <2>1, <2>2, <2>3, <2>5, LongestSteps DEF WatchdogInv, Counted
  <2>6. CASE dog.pc = "alarm"
    BY <2>0, <2>1, <2>2, <2>3, <2>6, LongestSteps DEF WatchdogInv, Counted
  <2>7. CASE dog.pc = "resolve"
    BY <2>7 DEF WatchdogInv, Counted
  <2> QED
    BY <2>3, <2>4, <2>5, <2>6, <2>7
<1> QED
  BY <1>1, InitWatchdogInv, NextKeepsWatchdogInv, PTL DEF Spec

-----------------------------------------------------------------------------
(* The explorer.  Where the walk is: what it has read of this source has   *)
(* rows, and unless the device is silent, no source before it is complete. *)
Position ==
  /\ source \in 1 .. Len(Of(category))
  /\ table \in 1 .. Len(Of(category)[source])
  /\ \A t \in 1 .. table - 1 : agent[Of(category)[source][t]] = "rows"
  /\ ~silent => \A s \in 1 .. source - 1 :
                  \E t \in 1 .. Len(Of(category)[s]) : agent[Of(category)[s][t]] # "rows"

ExplorerInv ==
  /\ category \in 1 .. Len(Categories) + 1
  /\ told \in 0 .. category
  /\ report \in {"none", "failed"} => told = 0
  /\ report = "none" => category = 1 /\ source = 1 /\ table = 1
  /\ report = "ok" => category = Len(Categories) + 1
  /\ report = "underway" /\ ~silent => told = category
  /\ report \in {"underway", "ok"} =>
       /\ {"system", "resources"} \subseteq present
       /\ \A k \in 1 .. Len(Categories) :
            /\ Categories[k] \in present => k < category /\ k <= told /\ Filled(k)
            /\ k < category /\ k < told /\ Filled(k) => Categories[k] \in present
  /\ report \in {"none", "underway"} /\ category <= Len(Categories) => Position

LEMMA CategoryNames ==
  /\ Len(Categories) = 11
  /\ \A j, k \in 1 .. 11 : Categories[j] = Categories[k] => j = k
  /\ \A k \in 1 .. 11 : Categories[k] \notin {"system", "resources"}
BY DEF Categories

(* No category is without a source, and no source without a table.         *)
LEMMA SourcesShape ==
  \A k \in 1 .. 11 :
    /\ Len(Of(k)) \in Nat \ {0}
    /\ \A s \in 1 .. Len(Of(k)) : Len(Of(k)[s]) \in Nat \ {0}
<1> DEFINE Shaped(sources) ==
      /\ Len(sources) \in Nat \ {0}
      /\ \A s \in 1 .. Len(sources) : Len(sources[s]) \in Nat \ {0}
<1>1. Shaped(Sources["storage"]) /\ Shaped(Sources["interfaces"])
  BY DEF Sources
<1>2. Shaped(Sources["sensors"])
  BY DEF Sources
<1>3. Shaped(Sources["vlans"]) /\ Shaped(Sources["mac_table"])
  BY DEF Sources
<1>4. Shaped(Sources["arp"]) /\ Shaped(Sources["routes"]) /\ Shaped(Sources["qos"])
  BY DEF Sources
<1>5. Shaped(Sources["vpn"]) /\ Shaped(Sources["wireless"]) /\ Shaped(Sources["ups"])
  BY DEF Sources
<1> HIDE DEF Shaped
<1>6. \A k \in 1 .. 11 : Shaped(Of(k))
  BY <1>1, <1>2, <1>3, <1>4, <1>5 DEF Of, Categories
<1> QED
  BY <1>6 DEF Shaped

(* What is not read safely has no other source to fall back to.            *)
LEMMA UnsafeAlone ==
  \A k \in 1 .. 11 : \A s \in 1 .. Len(Of(k)) : \A t \in 1 .. Len(Of(k)[s]) :
    Of(k)[s][t] \in Unsafe => Len(Of(k)) = 1
<1>1. \A k \in 1 .. 2 : Len(Of(k)) = 1
  <2>1. Len(Sources["storage"]) = 1 /\ Len(Sources["interfaces"]) = 1
    BY DEF Sources
  <2>2. \A k \in 1 .. 2 : Categories[k] \in {"storage", "interfaces"}
    BY DEF Categories
  <2> QED
    BY <2>1, <2>2 DEF Of
<1> DEFINE Safe(sources) ==
      \A s \in 1 .. Len(sources) : \A t \in 1 .. Len(sources[s]) : sources[s][t] \notin Unsafe
<1>2. Safe(Sources["sensors"])
  BY DEF Sources, Unsafe
<1>3. Safe(Sources["vlans"]) /\ Safe(Sources["mac_table"]) /\ Safe(Sources["arp"])
  BY DEF Sources, Unsafe
<1>4. Safe(Sources["routes"]) /\ Safe(Sources["qos"])
  BY DEF Sources, Unsafe
<1>5. Safe(Sources["vpn"]) /\ Safe(Sources["wireless"]) /\ Safe(Sources["ups"])
  BY DEF Sources, Unsafe
<1> HIDE DEF Safe
<1>6. \A k \in 3 .. 11 : Safe(Of(k))
  <2>1. \A k \in 3 .. 11 : Categories[k] \in {"sensors", "vlans", "mac_table", "arp", "routes",
                                              "qos", "vpn", "wireless", "ups"}
    BY DEF Categories
  <2> QED
    BY <2>1, <1>2, <1>3, <1>4, <1>5 DEF Of
<1>7. \A k \in 3 .. 11 : \A s \in 1 .. Len(Of(k)) : \A t \in 1 .. Len(Of(k)[s]) :
        Of(k)[s][t] \notin Unsafe
  BY <1>6 DEF Safe
<1> QED
  <2> HIDE DEF Safe
  <2> SUFFICES ASSUME NEW k \in 1 .. 11, NEW s \in 1 .. Len(Of(k)), NEW t \in 1 .. Len(Of(k)[s]),
                      Of(k)[s][t] \in Unsafe
               PROVE  Len(Of(k)) = 1
    OBVIOUS
  <2>1. k \notin 3 .. 11
    BY <1>7
  <2>2. k \in 1 .. 2
    BY <2>1
  <2> QED
    BY <1>1, <2>2

LEMMA InitExplorerInv == Init => ExplorerInv
<1> SUFFICES ASSUME Init PROVE ExplorerInv
  OBVIOUS
<1>1. /\ report = "none" /\ present = {} /\ told = 0
      /\ category = 1 /\ source = 1 /\ table = 1
  BY DEF Init, ExplorerInit
<1>2. Position
  <2>1. Len(Of(1)) \in Nat \ {0} /\ Len(Of(1)[1]) \in Nat \ {0}
    <3>1. Len(Of(1)) \in Nat \ {0} /\ \A s \in 1 .. Len(Of(1)) : Len(Of(1)[s]) \in Nat \ {0}
      BY SourcesShape
    <3> QED
      BY <3>1
  <2> QED
    BY <1>1, <2>1 DEF Position
<1> QED
  BY <1>1, <1>2, CategoryNames DEF ExplorerInv

(* The next category begins with the first table of its first source.      *)
LEMMA GatheredKeepsExplorerInv ==
  ASSUME ExplorerInv, report = "underway", category <= Len(Categories),
         UNCHANGED <<agent, silent, report>>,
         NEW names, Gathered(names),
         \/ names = {} /\ (silent \/ ~Filled(category))
         \/ names = {Categories[category]} /\ ~silent /\ Filled(category)
  PROVE  ExplorerInv'
<1>0. category \in 1 .. 11 /\ told \in 0 .. category /\ Len(Categories) = 11
  BY CategoryNames DEF ExplorerInv
<1>1. /\ category' = category + 1 /\ source' = 1 /\ table' = 1
      /\ present' = present \cup names
      /\ told' = IF silent THEN told ELSE told + 1
  BY DEF Gathered
<1>2. \A k : Of(k)' = Of(k) /\ Filled(k)' = Filled(k) /\ Categories' = Categories
  BY DEF Filled, Of, Sources, Categories
<1>3. ~silent => told = category
  BY DEF ExplorerInv
<1>4. \A k \in 1 .. 11 :
        /\ Categories[k] \in present' => k < category' /\ k <= told' /\ Filled(k)
        /\ k < category' /\ k < told' /\ Filled(k) => Categories[k] \in present'
  <2> SUFFICES ASSUME NEW k \in 1 .. 11
               PROVE  /\ Categories[k] \in present' => k < category' /\ k <= told' /\ Filled(k)
                      /\ k < category' /\ k < told' /\ Filled(k) => Categories[k] \in present'
    OBVIOUS
  <2>1. /\ Categories[k] \in present => k < category /\ k <= told /\ Filled(k)
        /\ k < category /\ k < told /\ Filled(k) => Categories[k] \in present
    BY <1>0 DEF ExplorerInv
  <2>2. Categories[k] \in names => k = category /\ ~silent /\ Filled(k)
    BY <1>0, CategoryNames
  <2>3. Categories[category] \in names \/ silent \/ ~Filled(category)
    OBVIOUS
  <2> QED
    BY <1>0, <1>1, <1>3, <2>1, <2>2, <2>3
<1>5. {"system", "resources"} \subseteq present'
  BY <1>1 DEF ExplorerInv
<1>6. category' <= 11 => Position'
  <2> SUFFICES ASSUME category' <= 11 PROVE Position'
    OBVIOUS
  <2>1. category' \in 1 .. 11
    BY <1>0, <1>1
  <2>2. /\ Len(Of(category')) \in Nat \ {0}
        /\ \A s \in 1 .. Len(Of(category')) : Len(Of(category')[s]) \in Nat \ {0}
    BY <2>1, SourcesShape
  <2>3. Len(Of(category')[1]) \in Nat \ {0}
    BY <2>2
  <2>4. Of(category)' = Of(category')
    BY DEF Of, Sources, Categories
  <2> QED
    BY <1>1, <2>2, <2>3, <2>4 DEF Position
<1> QED
  BY <1>0, <1>1, <1>2, <1>3, <1>4, <1>5, <1>6 DEF ExplorerInv

(* On to another table of the same category.                               *)
LEMMA PositionKeepsExplorerInv ==
  ASSUME ExplorerInv, report = "underway", Position',
         UNCHANGED <<agent, silent, report, category, present, told>>
  PROVE  ExplorerInv'
<1>1. \A k : Filled(k)' = Filled(k) /\ Categories' = Categories
  BY DEF Filled, Of, Sources, Categories
<1> QED
  BY <1>1 DEF ExplorerInv

LEMMA ExplorerKeepsExplorerInv ==
  ASSUME ExplorerInv, ExplorerNext
  PROVE  ExplorerInv'
<1>0. category \in 1 .. 12 /\ told \in 0 .. category /\ Len(Categories) = 11
  BY CategoryNames DEF ExplorerInv
<1>1. \A k : Of(k)' = Of(k) /\ Categories' = Categories
  BY DEF Of, Sources, Categories
<1>2. CASE Explore
  <2>1. /\ report = "none" /\ told = 0 /\ category = 1
        /\ UNCHANGED <<agent, silent, category, source, table>>
        /\ \/ report' = "failed" /\ UNCHANGED <<present, told>>
           \/ report' = "underway" /\ present' = {"system", "resources"} /\ told' = 1
    BY <1>2 DEF Explore, ExplorerInv
  <2>2. Position'
    BY <1>0, <1>1, <2>1 DEF ExplorerInv, Position
  <2>3. \A k \in 1 .. 11 : Categories[k] \notin {"system", "resources"}
    BY CategoryNames
  <2> QED
    BY <1>0, <1>1, <2>1, <2>2, <2>3 DEF ExplorerInv
<1>3. ASSUME RowsRead \/ NothingRead \/ Raised PROVE ExplorerInv'
  <2> DEFINE t == Of(category)[source][table]
  <2>1. /\ report = "underway" /\ category \in 1 .. 11 /\ Position
        /\ UNCHANGED <<agent, silent, report>>
    BY <1>0, <1>3 DEF RowsRead, NothingRead, Raised, Reads, ExplorerInv
  <2>3. /\ source \in 1 .. Len(Of(category)) /\ Len(Of(category)) \in Nat
        /\ table \in 1 .. Len(Of(category)[source]) /\ Len(Of(category)[source]) \in Nat
    BY <2>1, SourcesShape DEF Position
  <2>4. CASE RowsRead
    <3>1. ~silent /\ agent[t] = "rows"
      BY <2>4 DEF RowsRead, Reads, Answer
    <3>2. CASE table < Len(Of(category)[source])
      <4>1. table' = table + 1 /\ UNCHANGED <<category, source, present, told>>
        BY <2>4, <3>2 DEF RowsRead
      <4>2. \A i \in 1 .. table : agent[Of(category)[source][i]] = "rows"
        BY <2>1, <2>3, <3>1 DEF Position
      <4>3. Of(category') = Of(category) /\ Of(category)' = Of(category)
        BY <4>1 DEF Of, Sources, Categories
      <4>4. Position'
        BY <1>1, <2>1, <2>3, <3>2, <4>1, <4>2, <4>3 DEF Position
      <4> QED
        BY <2>1, <4>1, <4>4, PositionKeepsExplorerInv
    <3>3. CASE ~(table < Len(Of(category)[source]))
      <4>1. Gathered({Categories[category]})
        BY <2>4, <3>3 DEF RowsRead
      <4>2. Filled(category)
        BY <2>1, <2>3, <3>1, <3>3 DEF Position, Filled
      <4> QED
        BY <1>0, <2>1, <3>1, <4>1, <4>2, GatheredKeepsExplorerInv
    <3> QED
      BY <3>2, <3>3
  <2>5. CASE NothingRead
    <3>1. silent \/ agent[t] # "rows"
      BY <2>5 DEF NothingRead, Reads, Answer
    <3>2. ~silent => \A s \in 1 .. source : \E i \in 1 .. Len(Of(category)[s]) :
                                               agent[Of(category)[s][i]] # "rows"
      BY <2>1, <2>3, <3>1 DEF Position
    <3>3. CASE source < Len(Of(category))
      <4>1. source' = source + 1 /\ table' = 1 /\ UNCHANGED <<category, present, told>>
        BY <2>5, <3>3 DEF NothingRead
      <4>2. Len(Of(category)[source + 1]) \in Nat \ {0}
        <5>1. source + 1 \in 1 .. Len(Of(category))
          BY <2>3, <3>3
        <5> QED
          BY <2>1, <5>1, SourcesShape
      <4>3. Position'
        <5>1. Of(category') = Of(category) /\ Of(category)' = Of(category)
          BY <4>1 DEF Of, Sources, Categories
        <5>2. source' \in 1 .. Len(Of(category)) /\ table' \in 1 .. Len(Of(category)[source'])
          BY <2>3, <3>3, <4>1, <4>2
        <5>3. 1 .. source' - 1 = 1 .. source /\ 1 .. table' - 1 = {}
          BY <2>3, <4>1
        <5>4. agent' = agent /\ silent' = silent
          BY <2>1
        <5> QED
          BY <3>2, <5>1, <5>2, <5>3, <5>4 DEF Position
      <4> QED
        BY <2>1, <4>1, <4>3, PositionKeepsExplorerInv
    <3>4. CASE ~(source < Len(Of(category)))
      <4>1. Gathered({})
        BY <2>5, <3>4 DEF NothingRead
      <4>2. silent \/ ~Filled(category)
        BY <2>3, <3>2, <3>4 DEF Filled
      <4> QED
        BY <1>0, <2>1, <4>1, <4>2, GatheredKeepsExplorerInv
    <3> QED
      BY <3>3, <3>4
  <2>6. CASE Raised
    <3>1. silent \/ agent[t] = "fails"
      BY <2>6 DEF Raised, Reads, Answer
    <3>2. t \in Unsafe /\ Gathered({})
      BY <2>6 DEF Raised
    <3>3. silent \/ ~Filled(category)
      BY <2>1, <2>3, <3>1, <3>2, UnsafeAlone DEF Filled
    <3> QED
      BY <1>0, <2>1, <3>2, <3>3, GatheredKeepsExplorerInv
  <2> QED
    BY <1>3, <2>4, <2>5, <2>6
<1>4. CASE Report
  <2>1. /\ report = "underway" /\ report' = "ok" /\ category = 12
        /\ UNCHANGED <<agent, silent, category, source, table, present, told>>
    BY <1>0, <1>4 DEF Report
  <2>2. \A k : Filled(k)' = Filled(k)
    BY <1>1, <2>1 DEF Filled
  <2> QED
    BY <1>0, <1>1, <2>1, <2>2 DEF ExplorerInv
<1>5. CASE GoesSilent
  <2>1. /\ silent' = TRUE /\ UNCHANGED <<agent, report, category, source, table, present, told>>
    BY <1>5 DEF GoesSilent
  <2>2. \A k : Filled(k)' = Filled(k)
    BY <1>1, <2>1 DEF Filled
  <2>3. Position => Position'
    BY <1>1, <2>1 DEF Position
  <2> QED
    BY <1>0, <1>1, <2>1, <2>2, <2>3 DEF ExplorerInv
<1> QED
  BY <1>2, <1>3, <1>4, <1>5 DEF ExplorerNext

LEMMA NextKeepsExplorerInv == ExplorerInv /\ [Next]_vars => ExplorerInv'
<1> SUFFICES ASSUME ExplorerInv, [Next]_vars PROVE ExplorerInv'
  OBVIOUS
<1>1. CASE UNCHANGED explorerVars
  BY <1>1 DEF explorerVars, ExplorerInv, Position, Filled, Of, Sources, Categories
<1>2. CASE ExplorerPart
  BY <1>2, ExplorerKeepsExplorerInv DEF ExplorerPart
<1>3. CASE ListenerPart \/ DiscoveryPart \/ RatesPart \/ ChecksPart \/ LossPart
          \/ FanoutPart \/ WatchdogPart
  BY <1>1, <1>3 DEF ListenerPart, DiscoveryPart, RatesPart, ChecksPart, LossPart, FanoutPart, WatchdogPart
<1>4. CASE Restart \/ UNCHANGED vars
  BY <1>1, <1>4 DEF Restart, vars
<1> QED
  BY <1>2, <1>3, <1>4 DEF Next

(* The report holds what the device could tell, for any device: no failing *)
(* table hides another category, no fallback is skipped.                   *)
THEOREM InventoryIsComplete == Spec => []InventoryComplete
<1>1. ExplorerInv => InventoryComplete
  BY CategoryNames DEF ExplorerInv, InventoryComplete
<1> QED
  BY <1>1, InitExplorerInv, NextKeepsExplorerInv, PTL DEF Spec

-----------------------------------------------------------------------------
(* Discovery.  Why an address is proposed and monitored can only be told   *)
(* with what a sweep under way holds: it will propose nothing it knew to   *)
(* be monitored, and what was added behind its back is strange already;    *)
(* and a decision under way holds a proposal that is there, or knows that  *)
(* it is not.                                                              *)

SweepStates ==
  [pc: {"idle", "probe", "read", "commit"}, known: SUBSET Addresses, hits: SUBSET Addresses,
   held: SUBSET Addresses, gone: SUBSET Addresses]

DecisionStates ==
  [op: {"none", "approve", "ignore", "forget"}, on: SUBSET Addresses, gone: BOOLEAN]

DiscoveryType ==
  /\ monitored \subseteq Addresses
  /\ proposed \in [Addresses -> {"none", "new", "ignored"}]
  /\ sweep \in [Sweepers -> SweepStates]
  /\ decision \in [Deciders -> DecisionStates]

(* What a sweep is about to propose, and what it missed.                   *)
SweepsExplained ==
  \A s \in Sweepers :
    /\ sweep[s].hits \cap sweep[s].known = {}
    /\ sweep[s].pc # "idle" => monitored \ sweep[s].known \subseteq strange

(* Decisions hold one proposal.                                            *)
DecisionsHold ==
  \A d \in Deciders :
    /\ \A a, b \in decision[d].on : a = b
    /\ ~decision[d].gone => decision[d].on \subseteq Proposed

DiscoveryInv == DiscoveryType /\ SweepsExplained /\ DecisionsHold /\ ProposalsExplained

-----------------------------------------------------------------------------
LEMMA InitDiscoveryInv == Init => DiscoveryInv
<1> SUFFICES ASSUME Init PROVE DiscoveryInv
  OBVIOUS
<1>1. DiscoveryInit(Only("discovery", SUBSET Addresses))
  BY DEF Init
<1>2. Only("discovery", SUBSET Addresses) \subseteq SUBSET Addresses
  <2>1. (CHOOSE x \in SUBSET Addresses : TRUE) \in SUBSET Addresses
    OBVIOUS
  <2> QED
    BY <2>1 DEF Only
<1>3. /\ monitored \subseteq Addresses
      /\ proposed = [a \in Addresses |-> "none"]
      /\ sweep = [s \in Sweepers |-> NoSweep]
      /\ decision = [d \in Deciders |-> NoDecision]
  BY <1>1, <1>2 DEF DiscoveryInit
<1>4. NoSweep \in SweepStates /\ NoDecision \in DecisionStates
  BY DEF NoSweep, SweepStates, NoDecision, DecisionStates
<1>5. DiscoveryType
  BY <1>3, <1>4 DEF DiscoveryType
<1>6. SweepsExplained
  BY <1>3 DEF SweepsExplained, NoSweep
<1>7. DecisionsHold
  BY <1>3 DEF DecisionsHold, NoDecision
<1>8. ProposalsExplained
  BY <1>3 DEF ProposalsExplained, Proposed
<1> QED
  BY <1>5, <1>6, <1>7, <1>8 DEF DiscoveryInv

LEMMA ElsewhereKeepsDiscoveryInv ==
  ASSUME DiscoveryInv, UNCHANGED discoveryVars
  PROVE  DiscoveryInv'
BY DEF DiscoveryInv, DiscoveryType, SweepsExplained, DecisionsHold, ProposalsExplained, Proposed,
       discoveryVars

-----------------------------------------------------------------------------
(* A sweep's step.                                                         *)
LEMMA SweepKeepsDiscoveryInv ==
  ASSUME DiscoveryInv, NEW s \in Sweepers, SweepStep(s)
  PROVE  DiscoveryInv'
<1> USE DEF DiscoveryInv
<1>1. sweep[s] \in SweepStates /\ NoSweep \in SweepStates
  BY DEF DiscoveryType, NoSweep, SweepStates
<1>2. UNCHANGED <<monitored, decision, strange>>
  BY DEF SweepStep, SweepStart, Probe, ReadPending, SweepCommit
<1>3. CASE SweepStart(s)
  <2>1. UNCHANGED proposed
    BY <1>3 DEF SweepStart
  <2> DEFINE new == [NoSweep EXCEPT !.pc = "probe", !.known = monitored]
  <2>2. sweep' = [sweep EXCEPT ![s] = new]
    BY <1>3 DEF SweepStart
  <2>3. new \in SweepStates /\ new.hits = {} /\ new.known = monitored
    BY <1>1 DEF NoSweep, SweepStates, DiscoveryType
  <2> HIDE DEF new
  <2>4. DiscoveryType'
    BY <1>2, <2>1, <2>2, <2>3 DEF DiscoveryType
  <2>5. SweepsExplained'
    BY <1>2, <2>2, <2>3 DEF SweepsExplained, DiscoveryType
  <2> QED
    BY <1>2, <2>1, <2>4, <2>5 DEF DecisionsHold, ProposalsExplained, Proposed
<1>4. CASE Probe(s)
  <2>1. UNCHANGED proposed
    BY <1>4 DEF Probe
  <2>2. sweep' = [sweep EXCEPT ![s].pc = "read", ![s].hits = Targets(s) \cap up]
    BY <1>4 DEF Probe
  <2>3. /\ Targets(s) \subseteq Addresses
        /\ Targets(s) \cap sweep[s].known = {}
    <3>1. SmallNets \subseteq SUBSET Addresses
      BY DiscoveryAssumption DEF SmallNets
    <3>2. UNION SmallNets \subseteq Addresses
      BY <3>1
    <3> QED
      BY <3>2 DEF Targets
  <2>4. DiscoveryType'
    BY <1>1, <1>2, <2>1, <2>2, <2>3 DEF DiscoveryType, SweepStates
  <2>5. SweepsExplained'
    <3>1. sweep[s].pc # "idle"
      BY <1>4 DEF Probe
    <3> QED
      BY <1>1, <1>2, <2>2, <2>3, <3>1 DEF SweepsExplained, DiscoveryType, SweepStates
  <2> QED
    BY <1>2, <2>1, <2>4, <2>5 DEF DecisionsHold, ProposalsExplained, Proposed
<1>5. CASE ReadPending(s)
  <2>1. UNCHANGED proposed
    BY <1>5 DEF ReadPending
  <2>2. sweep' = [sweep EXCEPT ![s].pc = "commit", ![s].held = Proposed \cap sweep[s].hits]
    BY <1>5 DEF ReadPending
  <2>3. DiscoveryType'
    BY <1>1, <1>2, <2>1, <2>2 DEF DiscoveryType, SweepStates
  <2>4. SweepsExplained'
    <3>1. sweep[s].pc # "idle"
      BY <1>5 DEF ReadPending
    <3> QED
      BY <1>1, <1>2, <2>2, <3>1 DEF SweepsExplained, DiscoveryType, SweepStates
  <2> QED
    BY <1>2, <2>1, <2>3, <2>4 DEF DecisionsHold, ProposalsExplained, Proposed
<1>6. CASE SweepCommit(s)
  <2>1. sweep' = [sweep EXCEPT ![s] = NoSweep] /\ sweep[s].pc = "commit"
    BY <1>6 DEF SweepCommit
  <2>2. /\ proposed' \in [Addresses -> {"none", "new", "ignored"}]
        /\ \A a \in Addresses : a \notin sweep[s].hits => proposed'[a] = proposed[a]
        /\ \A a \in Addresses : proposed[a] # "none" => proposed'[a] = proposed[a]
    <3>1. CASE UNCHANGED proposed
      BY <3>1 DEF DiscoveryType
    <3>2. CASE /\ NewRows(s) \cap (Proposed \cup Doubled) = {}
               /\ proposed' = [a \in Addresses |-> IF a \in NewRows(s) THEN "new"
                                           ELSE IF a \in sweep[s].held THEN SweepStatus(a)
                                           ELSE proposed[a]]
      BY <3>2 DEF DiscoveryType, NewRows, SweepStatus, Proposed
    <3> QED
      BY <1>6, <3>1, <3>2 DEF SweepCommit
  <2>3. DiscoveryType'
    BY <1>1, <1>2, <2>1, <2>2 DEF DiscoveryType
  <2>4. SweepsExplained'
    BY <1>2, <2>1 DEF SweepsExplained, DiscoveryType, NoSweep
  <2>5. DecisionsHold'
    BY <1>2, <2>2 DEF DecisionsHold, Proposed
  <2>6. ProposalsExplained'
    <3>1. sweep[s].hits \cap monitored \subseteq strange
      BY <2>1 DEF SweepsExplained
    <3> QED
      BY <1>2, <2>2, <3>1 DEF ProposalsExplained, Proposed
  <2> QED
    BY <2>3, <2>4, <2>5, <2>6
<1> QED
  BY <1>3, <1>4, <1>5, <1>6 DEF SweepStep

-----------------------------------------------------------------------------
(* The inventory gains an address.                                         *)
LEMMA MonitorKeepsSweepsExplained ==
  ASSUME DiscoveryType, SweepsExplained, NEW a \in Addresses, NEW leaves, Monitor(a, leaves),
         sweep' \in [Sweepers -> SweepStates],
         \A s \in Sweepers : /\ sweep'[s].hits = sweep[s].hits
                             /\ sweep'[s].known = sweep[s].known
                             /\ sweep'[s].pc = sweep[s].pc
  PROVE  SweepsExplained'
<1>1. monitored' = monitored \cup {a}
  BY DEF Monitor
<1>2. CASE leaves \/ Unaware(a)
  <2>1. strange' = strange \cup {a}
    BY <1>2 DEF Monitor
  <2> QED
    BY <1>1, <2>1 DEF SweepsExplained
<1>3. CASE ~(leaves \/ Unaware(a))
  <2>1. strange' = strange \ {a}
    BY <1>3 DEF Monitor
  <2>2. \A s \in Sweepers : sweep[s].pc # "idle" => a \in sweep[s].known
    BY <1>3 DEF Unaware
  <2> QED
    BY <1>1, <2>1, <2>2 DEF SweepsExplained
<1> QED
  BY <1>2, <1>3

(* The row of a proposal goes, and who holds it learns of it.              *)
LEMMA DeleteRowEffect ==
  ASSUME DiscoveryInv, NEW d \in Deciders, NEW a \in Addresses, NEW op, Decided(d, op, a),
         DeleteRow(d, a)
  PROVE  /\ proposed' \in [Addresses -> {"none", "new", "ignored"}]
         /\ proposed' = IF decision[d].gone THEN proposed ELSE [proposed EXCEPT ![a] = "none"]
         /\ sweep' \in [Sweepers -> SweepStates]
         /\ \A s \in Sweepers : /\ sweep'[s].hits = sweep[s].hits
                                /\ sweep'[s].known = sweep[s].known
                                /\ sweep'[s].pc = sweep[s].pc
         /\ decision' \in [Deciders -> DecisionStates]
         /\ DecisionsHold'
<1> USE DEF DiscoveryInv
<1>0. NoDecision \in DecisionStates
  BY DEF NoDecision, DecisionStates
<1>1. CASE decision[d].gone
  <2>1. UNCHANGED <<proposed, sweep>> /\ decision' = [decision EXCEPT ![d] = NoDecision]
    BY <1>1 DEF DeleteRow
  <2>2. DecisionsHold'
    BY <2>1 DEF DecisionsHold, DiscoveryType, NoDecision, Proposed
  <2> QED
    BY <1>0, <1>1, <2>1, <2>2 DEF DiscoveryType
<1>2. CASE ~decision[d].gone
  <2>1. /\ decision' = [DecisionsWithout(a) EXCEPT ![d] = NoDecision]
        /\ proposed' = [proposed EXCEPT ![a] = "none"]
        /\ sweep' = SweepsWithout(a)
    BY <1>2 DEF DeleteRow
  <2>2. /\ sweep' \in [Sweepers -> SweepStates]
        /\ \A s \in Sweepers : /\ sweep'[s].hits = sweep[s].hits
                               /\ sweep'[s].known = sweep[s].known
                               /\ sweep'[s].pc = sweep[s].pc
    BY <2>1 DEF SweepsWithout, DiscoveryType, SweepStates
  <2>3. /\ DecisionsWithout(a) \in [Deciders -> DecisionStates]
        /\ \A e \in Deciders : /\ DecisionsWithout(a)[e].on = decision[e].on
                               /\ DecisionsWithout(a)[e].gone =
                                    (decision[e].gone \/ decision[e].on = {a})
    BY DEF DecisionsWithout, DiscoveryType, DecisionStates
  <2>4. decision' \in [Deciders -> DecisionStates]
    BY <1>0, <2>1, <2>3
  <2>5. DecisionsHold'
    <3> SUFFICES ASSUME NEW e \in Deciders
                 PROVE  /\ \A b, c \in decision'[e].on : b = c
                        /\ ~decision'[e].gone => decision'[e].on \subseteq Proposed'
      BY DEF DecisionsHold
    <3>1. CASE e = d
      BY <2>1, <2>3, <3>1 DEF NoDecision
    <3>2. CASE e # d
      <4>1. decision'[e] = DecisionsWithout(a)[e]
        BY <2>1, <2>3, <3>2
      <4>2. \A b, c \in decision[e].on : b = c
        BY DEF DecisionsHold
      <4>3. ASSUME ~decision'[e].gone PROVE decision'[e].on \subseteq Proposed'
        <5>1. decision[e].on # {a} /\ decision[e].on \subseteq Proposed
          BY <2>3, <4>1, <4>3 DEF DecisionsHold
        <5>2. a \notin decision[e].on
          BY <4>2, <5>1
        <5> QED
          BY <2>1, <2>3, <4>1, <5>1, <5>2 DEF Proposed, DiscoveryType
      <4> QED
        BY <2>3, <4>1, <4>2, <4>3
    <3> QED
      BY <3>1, <3>2
  <2> QED
    BY <1>2, <2>1, <2>2, <2>4, <2>5 DEF DiscoveryType
<1> QED
  BY <1>1, <1>2

-----------------------------------------------------------------------------
(* A decider's step.                                                       *)
LEMMA DecisionKeepsDiscoveryInv ==
  ASSUME DiscoveryInv, NEW d \in Deciders, NEW a \in Addresses, DecisionNext(d, a)
  PROVE  DiscoveryInv'
<1> USE DEF DiscoveryInv
<1>0. NoDecision \in DecisionStates
  BY DEF NoDecision, DecisionStates
<1>1. ASSUME NEW op \in {"approve", "ignore", "forget"}, GetRow(d, op, a) PROVE DiscoveryInv'
  <2> DEFINE new == [op |-> op, on |-> {a}, gone |-> FALSE]
  <2>1. /\ a \in Proposed /\ decision' = [decision EXCEPT ![d] = new]
        /\ UNCHANGED <<monitored, proposed, sweep, strange>>
    BY <1>1 DEF GetRow
  <2>2. new \in DecisionStates /\ new.on = {a}
    BY DEF DecisionStates
  <2> HIDE DEF new
  <2>3. DiscoveryType' /\ DecisionsHold'
    BY <2>1, <2>2 DEF DiscoveryType, DecisionsHold, Proposed
  <2> QED
    BY <2>1, <2>3 DEF SweepsExplained, ProposalsExplained, Proposed
<1>2. CASE Approve(d, a)
  <2>1. /\ Decided(d, "approve", a) /\ DeleteRow(d, a)
        /\ Monitor(a, decision[d].gone /\ a \in Proposed)
    BY <1>2 DEF Approve
  <2>2. /\ proposed' \in [Addresses -> {"none", "new", "ignored"}]
        /\ proposed' = IF decision[d].gone THEN proposed ELSE [proposed EXCEPT ![a] = "none"]
        /\ sweep' \in [Sweepers -> SweepStates]
        /\ \A s \in Sweepers : /\ sweep'[s].hits = sweep[s].hits
                               /\ sweep'[s].known = sweep[s].known
                               /\ sweep'[s].pc = sweep[s].pc
        /\ decision' \in [Deciders -> DecisionStates]
        /\ DecisionsHold'
    BY <2>1, DeleteRowEffect
  <2>3. monitored' = monitored \cup {a}
    BY <2>1 DEF Monitor
  <2>4. DiscoveryType'
    BY <2>2, <2>3 DEF DiscoveryType
  <2>5. SweepsExplained'
    BY <2>1, <2>2, MonitorKeepsSweepsExplained
  <2>6. ProposalsExplained'
    <3>1. \A b \in Proposed' : b \in Proposed /\ (b = a => decision[d].gone)
      BY <2>2 DEF Proposed, DiscoveryType
    <3>2. strange \ {a} \subseteq strange'
      BY <2>1 DEF Monitor
    <3>3. decision[d].gone /\ a \in Proposed => a \in strange'
      BY <2>1 DEF Monitor
    <3> QED
      BY <2>3, <3>1, <3>2, <3>3 DEF ProposalsExplained
  <2> QED
    BY <2>2, <2>4, <2>5, <2>6
<1>3. CASE ApproveConflict(d, a)
  <2>1. /\ decision' = [decision EXCEPT ![d] = NoDecision]
        /\ UNCHANGED <<monitored, proposed, sweep, strange>>
    BY <1>3 DEF ApproveConflict
  <2>2. DiscoveryType' /\ DecisionsHold'
    BY <1>0, <2>1 DEF DiscoveryType, DecisionsHold, Proposed, NoDecision
  <2> QED
    BY <2>1, <2>2 DEF SweepsExplained, ProposalsExplained, Proposed
<1>4. CASE Ignore(d, a)
  <2>1. /\ decision' = [decision EXCEPT ![d] = NoDecision]
        /\ proposed' = IF decision[d].gone THEN proposed ELSE [proposed EXCEPT ![a] = "ignored"]
        /\ UNCHANGED <<monitored, sweep, strange>>
    BY <1>4 DEF Ignore
  <2>2. decision[d].gone \/ a \in Proposed
    BY <1>4 DEF Ignore, Decided, DecisionsHold
  <2>3. proposed' \in [Addresses -> {"none", "new", "ignored"}] /\ Proposed' = Proposed
    BY <2>1, <2>2 DEF DiscoveryType, Proposed
  <2>4. DiscoveryType'
    BY <1>0, <2>1, <2>3 DEF DiscoveryType
  <2>5. DecisionsHold'
    BY <2>1, <2>3 DEF DecisionsHold, NoDecision, DiscoveryType
  <2> QED
    BY <2>1, <2>3, <2>4, <2>5 DEF SweepsExplained, ProposalsExplained
<1>5. CASE Forget(d, a)
  <2>1. /\ Decided(d, "forget", a) /\ DeleteRow(d, a)
        /\ UNCHANGED <<monitored, strange>>
    BY <1>5 DEF Forget
  <2>2. /\ proposed' \in [Addresses -> {"none", "new", "ignored"}]
        /\ proposed' = IF decision[d].gone THEN proposed ELSE [proposed EXCEPT ![a] = "none"]
        /\ sweep' \in [Sweepers -> SweepStates]
        /\ \A s \in Sweepers : /\ sweep'[s].hits = sweep[s].hits
                               /\ sweep'[s].known = sweep[s].known
                               /\ sweep'[s].pc = sweep[s].pc
        /\ decision' \in [Deciders -> DecisionStates]
        /\ DecisionsHold'
    BY <2>1, DeleteRowEffect
  <2>3. DiscoveryType' /\ SweepsExplained'
    BY <2>1, <2>2 DEF DiscoveryType, SweepsExplained
  <2>4. Proposed' \subseteq Proposed
    BY <2>2 DEF Proposed, DiscoveryType
  <2> QED
    BY <2>1, <2>2, <2>3, <2>4 DEF ProposalsExplained
<1> QED
  BY <1>1, <1>2, <1>3, <1>4, <1>5 DEF DecisionNext

(* The inventory and the network.                                          *)
LEMMA OthersKeepDiscoveryInv ==
  ASSUME DiscoveryInv, NEW a \in Addresses, AddDevice(a) \/ RemoveDevice(a) \/ Answers(a)
  PROVE  DiscoveryInv'
<1> USE DEF DiscoveryInv
<1>1. UNCHANGED <<proposed, sweep, decision>>
  BY DEF AddDevice, RemoveDevice, Answers
<1>2. DecisionsHold'
  BY <1>1 DEF DecisionsHold, Proposed
<1>3. CASE AddDevice(a)
  <2>1. Monitor(a, a \in Proposed)
    BY <1>3 DEF AddDevice
  <2>2. DiscoveryType'
    BY <1>1, <2>1 DEF DiscoveryType, Monitor
  <2>3. SweepsExplained'
    BY <1>1, <2>1, MonitorKeepsSweepsExplained DEF DiscoveryType
  <2>4. ProposalsExplained'
    BY <1>1, <2>1 DEF ProposalsExplained, Proposed, Monitor
  <2> QED
    BY <1>2, <2>2, <2>3, <2>4
<1>4. CASE RemoveDevice(a)
  <2>1. monitored' = monitored \ {a} /\ strange' = strange \ {a}
    BY <1>4 DEF RemoveDevice
  <2> QED
    BY <1>1, <1>2, <2>1 DEF DiscoveryType, SweepsExplained, ProposalsExplained, Proposed
<1>5. CASE Answers(a)
  <2>1. UNCHANGED <<monitored, strange>>
    BY <1>5 DEF Answers
  <2> QED
    BY <1>1, <1>2, <2>1 DEF DiscoveryType, SweepsExplained, ProposalsExplained, Proposed
<1> QED
  BY <1>3, <1>4, <1>5

LEMMA RestartKeepsDiscoveryInv ==
  ASSUME DiscoveryInv, DiscoveryRestart
  PROVE  DiscoveryInv'
<1>1. sweep' = [sweep EXCEPT ![Loop] = NoSweep] /\ UNCHANGED <<monitored, proposed, decision, strange>>
  BY DEF DiscoveryRestart
<1>2. NoSweep \in SweepStates /\ NoSweep.pc = "idle" /\ NoSweep.hits = {}
  BY DEF NoSweep, SweepStates
<1> QED
  BY <1>1, <1>2 DEF DiscoveryInv, DiscoveryType, SweepsExplained, DecisionsHold,
                    ProposalsExplained, Proposed

LEMMA NextKeepsDiscoveryInv == DiscoveryInv /\ [Next]_vars => DiscoveryInv'
<1> SUFFICES ASSUME DiscoveryInv, [Next]_vars PROVE DiscoveryInv'
  OBVIOUS
<1>1. CASE DiscoveryPart
  BY <1>1, SweepKeepsDiscoveryInv, DecisionKeepsDiscoveryInv, OthersKeepDiscoveryInv
     DEF DiscoveryPart, DiscoveryNext
<1>2. CASE ListenerPart \/ RatesPart \/ ChecksPart \/ LossPart \/ ExplorerPart
          \/ FanoutPart \/ WatchdogPart
  BY <1>2, ElsewhereKeepsDiscoveryInv
     DEF ListenerPart, RatesPart, ChecksPart, LossPart, ExplorerPart, FanoutPart, WatchdogPart
<1>3. CASE Restart
  BY <1>3, RestartKeepsDiscoveryInv DEF Restart
<1>4. CASE UNCHANGED vars
  BY <1>4, ElsewhereKeepsDiscoveryInv DEF vars
<1> QED
  BY <1>1, <1>2, <1>3, <1>4 DEF Next

(* Whatever sweeps, decisions and changes of the inventory cross: nothing  *)
(* monitored is proposed but what became so behind a sweep's back, or      *)
(* without the approval of its proposal.                                   *)
THEOREM ProposalsAreExplained == Spec => []ProposalsExplained
<1>1. DiscoveryInv => ProposalsExplained
  BY DEF DiscoveryInv
<1> QED
  BY <1>1, InitDiscoveryInv, NextKeepsDiscoveryInv, PTL DEF Spec

-----------------------------------------------------------------------------
(* No step makes an ignored address a new one: a sweep inserts only what   *)
(* has no row when it commits.                                             *)
LEMMA StepKeepsIgnored ==
  ASSUME DiscoveryInv, [Next]_vars, NEW a \in Addresses, proposed[a] = "ignored"
  PROVE  proposed'[a] # "new"
<1> USE DEF DiscoveryInv
<1>1. CASE DiscoveryPart
  <2>1. ASSUME NEW s \in Sweepers, SweepStep(s) PROVE proposed'[a] # "new"
    <3>1. CASE SweepCommit(s)
      <4>1. CASE UNCHANGED proposed
        BY <4>1
      <4>2. CASE /\ NewRows(s) \cap (Proposed \cup Doubled) = {}
                 /\ proposed' = [b \in Addresses |-> IF b \in NewRows(s) THEN "new"
                                             ELSE IF b \in sweep[s].held THEN SweepStatus(b)
                                             ELSE proposed[b]]
        <5>1. a \notin NewRows(s)
          BY <4>2 DEF Proposed
        <5> QED
          BY <4>2, <5>1 DEF SweepStatus
      <4> QED
        BY <3>1, <4>1, <4>2 DEF SweepCommit
    <3>2. CASE SweepStart(s) \/ Probe(s) \/ ReadPending(s)
      BY <3>2 DEF SweepStart, Probe, ReadPending
    <3> QED
      BY <2>1, <3>1, <3>2 DEF SweepStep
  <2>2. ASSUME NEW d \in Deciders, NEW b \in Addresses, DecisionNext(d, b)
        PROVE  proposed'[a] # "new"
    <3>1. ASSUME DeleteRow(d, b) PROVE proposed'[a] # "new"
      BY <3>1 DEF DeleteRow, DiscoveryType
    <3>2. CASE Ignore(d, b)
      BY <3>2 DEF Ignore, DiscoveryType
    <3>3. CASE ApproveConflict(d, b) \/ \E op \in {"approve", "ignore", "forget"} : GetRow(d, op, b)
      BY <3>3 DEF ApproveConflict, GetRow
    <3> QED
      BY <2>2, <3>1, <3>2, <3>3 DEF DecisionNext, Approve, Forget
  <2>3. ASSUME NEW b \in Addresses, AddDevice(b) \/ RemoveDevice(b) \/ Answers(b)
        PROVE  proposed'[a] # "new"
    BY <2>3 DEF AddDevice, RemoveDevice, Answers
  <2> QED
    BY <1>1, <2>1, <2>2, <2>3 DEF DiscoveryPart, DiscoveryNext
<1>2. CASE ListenerPart \/ RatesPart \/ ChecksPart \/ LossPart \/ ExplorerPart
          \/ FanoutPart \/ WatchdogPart
  BY <1>2 DEF ListenerPart, RatesPart, ChecksPart, LossPart, ExplorerPart, FanoutPart, WatchdogPart,
         discoveryVars
<1>3. CASE Restart
  BY <1>3 DEF Restart, DiscoveryRestart
<1>4. CASE UNCHANGED vars
  BY <1>4 DEF vars, discoveryVars
<1> QED
  BY <1>1, <1>2, <1>3, <1>4 DEF Next

(* What was ignored is not proposed anew, whatever sweeps had read before. *)
THEOREM IgnoredStaysIgnored == Spec => IgnoredStays
<1>1. DiscoveryInv /\ [Next]_vars =>
        [\A a \in Addresses : proposed[a] = "ignored" => proposed'[a] # "new"]_discoveryVars
  BY StepKeepsIgnored
<1> QED
  BY <1>1, InitDiscoveryInv, NextKeepsDiscoveryInv, PTL DEF Spec, IgnoredStays

-----------------------------------------------------------------------------
(* An address in two subnets.  Whatever crosses, it never gets a row: the  *)
(* first row of such an address would have to come from a sweep, and no    *)
(* sweep that wants to insert it can commit.                               *)
NoDoubledRow ==
  /\ Proposed \cap Doubled = {}
  /\ \A s \in Sweepers : sweep[s].held \cap Doubled = {}

(* So a sweep that heard from such an address adds nothing at all, not     *)
(* even what it heard from others: run_sweep writes in one transaction.    *)
DoubledBlocks ==
  [][\A s \in Sweepers :
       SweepCommit(s) /\ sweep[s].hits \cap Doubled # {} => proposed' = proposed]_discoveryVars

(* What a step can add to the proposals, and to what sweeps hold of them.  *)
LEMMA RowsComeFromSweeps ==
  ASSUME DiscoveryInv, [Next]_vars
  PROVE  /\ \A a \in Proposed' \ Proposed :
              \E s \in Sweepers \cap crowd : SweepCommit(s) /\ a \in NewRows(s) \ Doubled
         /\ \A s \in Sweepers :
              sweep'[s].held \subseteq sweep[s].held \cup Proposed
<1> USE DEF DiscoveryInv
<1>0. NoSweep.held = {}
  BY DEF NoSweep
<1>1. CASE DiscoveryPart
  <2>1. ASSUME NEW s \in Sweepers \cap crowd, SweepStep(s)
        PROVE  /\ \A a \in Proposed' \ Proposed :
                    SweepCommit(s) /\ a \in NewRows(s) \ Doubled
               /\ \A t \in Sweepers : sweep'[t].held \subseteq sweep[t].held \cup Proposed
    <3>1. CASE SweepCommit(s)
      <4>1. \A t \in Sweepers : sweep'[t].held \subseteq sweep[t].held
        BY <1>0, <3>1 DEF SweepCommit, DiscoveryType
      <4>2. CASE UNCHANGED proposed
        BY <3>1, <4>1, <4>2 DEF Proposed
      <4>3. CASE /\ NewRows(s) \cap (Proposed \cup Doubled) = {}
                 /\ proposed' = [b \in Addresses |-> IF b \in NewRows(s) THEN "new"
                                             ELSE IF b \in sweep[s].held THEN SweepStatus(b)
                                             ELSE proposed[b]]
        <5>1. ASSUME NEW a \in Proposed' \ Proposed PROVE a \in NewRows(s) \ Doubled
          BY <4>3 DEF Proposed, SweepStatus
        <5> QED
          BY <3>1, <4>1, <5>1
      <4> QED
        BY <3>1, <4>2, <4>3 DEF SweepCommit
    <3>2. CASE SweepStart(s) \/ Probe(s) \/ ReadPending(s)
      <4>1. Proposed' = Proposed
        BY <3>2 DEF SweepStart, Probe, ReadPending, Proposed
      <4>2. \A t \in Sweepers \ {s} : sweep'[t] = sweep[t]
        BY <3>2 DEF SweepStart, Probe, ReadPending, DiscoveryType
      <4>3. sweep'[s].held \subseteq sweep[s].held \cup Proposed
        <5>1. CASE SweepStart(s)
          BY <1>0, <5>1 DEF SweepStart, DiscoveryType, NoSweep
        <5>2. CASE Probe(s)
          BY <5>2 DEF Probe, DiscoveryType, SweepStates
        <5>3. CASE ReadPending(s)
          BY <5>3 DEF ReadPending, DiscoveryType, SweepStates
        <5> QED
          BY <3>2, <5>1, <5>2, <5>3
      <4> QED
        BY <4>1, <4>2, <4>3
    <3> QED
      BY <2>1, <3>1, <3>2 DEF SweepStep
  <2>2. ASSUME NEW d \in Deciders, NEW b \in Addresses, DecisionNext(d, b)
        PROVE  /\ Proposed' \subseteq Proposed
               /\ \A t \in Sweepers : sweep'[t].held = sweep[t].held
    <3>1. ASSUME NEW op, Decided(d, op, b), DeleteRow(d, b)
          PROVE  /\ Proposed' \subseteq Proposed
                 /\ \A t \in Sweepers : sweep'[t].held = sweep[t].held
      BY <3>1 DEF DeleteRow, DiscoveryType, SweepsWithout, SweepStates, Proposed
    <3>2. CASE Ignore(d, b)
      <4>1. decision[d].gone \/ b \in Proposed
        BY <3>2 DEF Ignore, Decided, DecisionsHold
      <4> QED
        BY <3>2, <4>1 DEF Ignore, DiscoveryType, Proposed
    <3>3. CASE ApproveConflict(d, b) \/ \E op \in {"approve", "ignore", "forget"} : GetRow(d, op, b)
      BY <3>3 DEF ApproveConflict, GetRow, Proposed
    <3> QED
      BY <2>2, <3>1, <3>2, <3>3 DEF DecisionNext, Approve, Forget
  <2>3. ASSUME NEW b \in Addresses, AddDevice(b) \/ RemoveDevice(b) \/ Answers(b)
        PROVE  Proposed' = Proposed /\ sweep' = sweep
    BY <2>3 DEF AddDevice, RemoveDevice, Answers, Proposed
  <2> QED
    BY <1>1, <2>1, <2>2, <2>3 DEF DiscoveryPart, DiscoveryNext
<1>2. CASE Restart
  BY <1>0, <1>2 DEF Restart, DiscoveryRestart, DiscoveryType, Proposed
<1>3. CASE UNCHANGED discoveryVars
  BY <1>3 DEF discoveryVars, Proposed
<1>4. CASE ListenerPart \/ RatesPart \/ ChecksPart \/ LossPart \/ ExplorerPart
          \/ FanoutPart \/ WatchdogPart \/ UNCHANGED vars
  BY <1>3, <1>4 DEF ListenerPart, RatesPart, ChecksPart, LossPart, ExplorerPart, FanoutPart,
                    WatchdogPart, vars
<1> QED
  BY <1>1, <1>2, <1>4 DEF Next

LEMMA NoDoubledRowAlways == Spec => []NoDoubledRow
<1>1. Init => NoDoubledRow
  BY DEF Init, DiscoveryInit, NoDoubledRow, Proposed, NoSweep
<1>2. DiscoveryInv /\ NoDoubledRow /\ [Next]_vars => NoDoubledRow'
  <2>1. Doubled' = Doubled
    BY DEF Doubled, SmallNets
  <2> QED
    BY <2>1, RowsComeFromSweeps DEF NoDoubledRow
<1> QED
  BY <1>1, <1>2, InitDiscoveryInv, NextKeepsDiscoveryInv, PTL DEF Spec

(* The general case of the run discovery_doubled: as long as one address   *)
(* of two subnets answers, every sweep that hears it is lost, for any      *)
(* subnets, sweeps and decisions.                                          *)
THEOREM OverlappingNetsBlockSweeps == Spec => DoubledBlocks
<1>1. NoDoubledRow =>
        [\A s \in Sweepers :
           SweepCommit(s) /\ sweep[s].hits \cap Doubled # {} => proposed' = proposed]_discoveryVars
  BY DEF NoDoubledRow, SweepCommit, NewRows
<1> QED
  BY <1>1, NoDoubledRowAlways, PTL DEF DoubledBlocks

-----------------------------------------------------------------------------
(* Otherwise a sweep that nobody crosses does what it is for.              *)
Alone == \A c \in Crowds : c \cap Sweepers \subseteq {Loop} /\ c \cap Deciders = {}

(* Nothing it holds has changed behind its back.                           *)
Undisturbed ==
  /\ crowd \in Crowds
  /\ \A s \in Sweepers : sweep[s].gone = {}
  /\ \A s \in Sweepers : sweep[s].pc = "commit" => sweep[s].held = Proposed \cap sweep[s].hits
  /\ \A s \in Sweepers : s # Loop => sweep[s].pc = "idle"

LEMMA AloneStaysUndisturbed ==
  ASSUME Alone, DiscoveryInv, Undisturbed, [Next]_vars
  PROVE  Undisturbed'
<1> USE DEF DiscoveryInv
<1>0. NoSweep.gone = {} /\ NoSweep.pc = "idle"
  BY DEF NoSweep
<1>1. CASE DiscoveryPart
  <2>0. crowd' = crowd
    BY <1>1 DEF DiscoveryPart
  <2>1. ASSUME NEW s \in Sweepers \cap crowd, SweepStep(s) PROVE Undisturbed'
    <3>1. s = Loop
      BY <2>1 DEF Alone, Undisturbed
    <3>2. CASE SweepCommit(s)
      BY <1>0, <2>0, <3>1, <3>2 DEF SweepCommit, DiscoveryType, Undisturbed
    <3>3. CASE SweepStart(s)
      <4>1. /\ sweep' = [sweep EXCEPT ![s] = [NoSweep EXCEPT !.pc = "probe", !.known = monitored]]
            /\ Proposed' = Proposed
        BY <3>3 DEF SweepStart, Proposed
      <4>2. sweep'[s].gone = {} /\ sweep'[s].pc = "probe"
        BY <4>1 DEF DiscoveryType, NoSweep
      <4> QED
        BY <2>0, <3>1, <4>1, <4>2 DEF DiscoveryType, Undisturbed
    <3>4. CASE Probe(s)
      <4>1. sweep'[s].gone = sweep[s].gone /\ sweep'[s].pc = "read" /\ Proposed' = Proposed
        BY <3>4 DEF Probe, DiscoveryType, SweepStates, Proposed
      <4>2. \A t \in Sweepers \ {s} : sweep'[t] = sweep[t]
        BY <3>4 DEF Probe, DiscoveryType
      <4> QED
        BY <2>0, <3>1, <4>1, <4>2 DEF Undisturbed
    <3>5. CASE ReadPending(s)
      <4>1. /\ sweep'[s].gone = sweep[s].gone /\ Proposed' = Proposed
            /\ sweep'[s].held = Proposed \cap sweep'[s].hits
        BY <3>5 DEF ReadPending, DiscoveryType, SweepStates, Proposed
      <4>2. \A t \in Sweepers \ {s} : sweep'[t] = sweep[t]
        BY <3>5 DEF ReadPending, DiscoveryType
      <4> QED
        BY <2>0, <3>1, <4>1, <4>2 DEF Undisturbed
    <3> QED
      BY <2>1, <3>2, <3>3, <3>4, <3>5 DEF SweepStep
  <2>2. Deciders \cap crowd = {}
    BY DEF Alone, Undisturbed
  <2>3. ASSUME NEW b \in Addresses, AddDevice(b) \/ RemoveDevice(b) \/ Answers(b)
        PROVE  Undisturbed'
    BY <2>0, <2>3 DEF AddDevice, RemoveDevice, Answers, Proposed, Undisturbed
  <2> QED
    BY <1>1, <2>1, <2>2, <2>3 DEF DiscoveryPart, DiscoveryNext
<1>2. CASE Restart
  BY <1>0, <1>2 DEF Restart, DiscoveryRestart, DiscoveryType, Proposed, Undisturbed
<1>3. ASSUME UNCHANGED <<discoveryVars, crowd>> PROVE Undisturbed'
  BY <1>3 DEF discoveryVars, Proposed, Undisturbed
<1>4. CASE ListenerPart \/ RatesPart \/ ChecksPart \/ LossPart \/ ExplorerPart
          \/ FanoutPart \/ WatchdogPart \/ UNCHANGED vars
  BY <1>3, <1>4 DEF ListenerPart, RatesPart, ChecksPart, LossPart, ExplorerPart, FanoutPart,
                    WatchdogPart, vars
<1> QED
  BY <1>1, <1>2, <1>4 DEF Next

(* All that answered is on the list when it is done: the safety half of    *)
(* AliveProposed, and why that needs subnets that do not overlap.          *)
SweepsDeliver ==
  [][SweepCommit(Loop) =>
       IF sweep[Loop].hits \cap Doubled = {} THEN Proposed' = Proposed \cup sweep[Loop].hits
       ELSE proposed' = proposed]_discoveryVars

(* A sweep alone proposes exactly what it heard, or nothing when subnets   *)
(* overlap, whatever becomes of the inventory and however often the        *)
(* collector restarts.                                                     *)
THEOREM LoneSweepsDeliver ==
  ASSUME Alone
  PROVE  Spec => SweepsDeliver
<1>1. ASSUME DiscoveryInv, NoDoubledRow, Undisturbed, SweepCommit(Loop)
      PROVE  IF sweep[Loop].hits \cap Doubled = {}
             THEN Proposed' = Proposed \cup sweep[Loop].hits
             ELSE proposed' = proposed
  <2>1. Loop \in Sweepers /\ sweep[Loop] \in SweepStates
    BY <1>1, DiscoveryAssumption DEF DiscoveryInv, DiscoveryType
  <2>2. /\ sweep[Loop].gone = {} /\ sweep[Loop].hits \subseteq Addresses
        /\ NewRows(Loop) = sweep[Loop].hits \ Proposed
    BY <1>1, <2>1 DEF Undisturbed, SweepCommit, NewRows, SweepStates
  <2>3. CASE sweep[Loop].hits \cap Doubled = {}
    <3>1. proposed' = [a \in Addresses |-> IF a \in NewRows(Loop) THEN "new"
                                           ELSE IF a \in sweep[Loop].held THEN SweepStatus(a)
                                           ELSE proposed[a]]
      BY <1>1, <2>2, <2>3 DEF SweepCommit
    <3>2. \A a \in Addresses : a \in Proposed' <=> a \in Proposed \/ a \in NewRows(Loop)
      BY <3>1 DEF Proposed, SweepStatus
    <3> QED
      BY <2>2, <2>3, <3>2 DEF Proposed
  <2>4. CASE sweep[Loop].hits \cap Doubled # {}
    BY <1>1, <2>1, <2>4 DEF NoDoubledRow, SweepCommit, NewRows
  <2> QED
    BY <2>3, <2>4
<1>2. DiscoveryInv /\ NoDoubledRow /\ Undisturbed =>
        [SweepCommit(Loop) =>
           IF sweep[Loop].hits \cap Doubled = {} THEN Proposed' = Proposed \cup sweep[Loop].hits
           ELSE proposed' = proposed]_discoveryVars
  BY <1>1
<1>3. Init => Undisturbed
  BY DEF Init, DiscoveryInit, Undisturbed, NoSweep
<1>4. DiscoveryInv /\ Undisturbed /\ [Next]_vars => Undisturbed'
  BY AloneStaysUndisturbed
<1> QED
  BY <1>2, <1>3, <1>4, InitDiscoveryInv, NextKeepsDiscoveryInv, NoDoubledRowAlways, PTL
     DEF Spec, SweepsDeliver

-----------------------------------------------------------------------------
(* From a status to the dashboards.  A frame is under way exactly while    *)
(* somebody has still to get it, and all that is under way is a status.    *)
FanoutTyped ==
  /\ snapshot \in Statuses
  /\ writer \in [Writers -> Statuses \cup {Silence}]
  /\ inbox \in Seq(Statuses)
  /\ {pending, batch} \subseteq Statuses \cup {Silence}
  /\ batch = Silence <=> unsent = {}
  /\ shown \in [Browsers -> Statuses]
  /\ fetched \in [Browsers -> Statuses \cup {Silence}]

LEMMA InitFanoutTyped == Init => FanoutTyped
<1> SUFFICES ASSUME Init PROVE FanoutTyped
  OBVIOUS
<1>1. FanoutInit(Only("fanout", Statuses))
  BY DEF Init
<1>2. Only("fanout", Statuses) \subseteq Statuses
  <2>1. (CHOOSE st \in Statuses : TRUE) \in Statuses
    BY FanoutAssumption
  <2> QED
    BY <2>1 DEF Only
<1> QED
  BY <1>1, <1>2 DEF FanoutInit, FanoutTyped

(* What every step of the gateway, of writers and of browsers keeps, about *)
(* any set of statuses that takes in what is under way.                    *)
Carried(statuses) ==
  /\ \A w \in Writers : writer[w] \in statuses \cup {Silence}
  /\ inbox \in Seq(statuses)
  /\ {pending, batch} \subseteq statuses \cup {Silence}
  /\ \A b \in Browsers : fetched[b] \in statuses \cup {Silence}

LEMMA FanoutKeepsCarried ==
  ASSUME FanoutTyped, FanoutNext, NEW statuses \in SUBSET Statuses,
         Carried(statuses), snapshot \in statuses, snapshot' \in statuses
  PROVE  Carried(statuses)'
<1> USE DEF Carried
<1>1. ASSUME NEW w \in Writers, NEW st \in Statuses, WriteSnapshot(w, st)
      PROVE  Carried(statuses)'
  BY <1>1 DEF WriteSnapshot, FanoutTyped
<1>2. ASSUME NEW w \in Writers, Publish(w) PROVE Carried(statuses)'
  <2>1. inbox' \in Seq(statuses)
    <3>1. writer[w] \in statuses
      BY <1>2 DEF Publish
    <3> QED
      BY <1>2, <3>1 DEF Publish
  <2> QED
    BY <1>2, <2>1 DEF Publish, FanoutTyped
<1>3. ASSUME NEW w \in Writers, PublishFails(w) PROVE Carried(statuses)'
  BY <1>3 DEF PublishFails, FanoutTyped
<1>4. CASE Listen
  <2>1. Head(inbox) \in statuses /\ Tail(inbox) \in Seq(statuses)
    BY <1>4, HeadTailProperties DEF Listen
  <2> QED
    BY <1>4, <2>1 DEF Listen
<1>5. CASE Drop \/ Resubscribe
  <2>1. inbox' \in Seq(statuses)
    <3>1. <<>> \in Seq(statuses)
      OBVIOUS
    <3> QED
      BY <1>5, <3>1 DEF Drop, Resubscribe
  <2>2. UNCHANGED <<writer, pending, batch, fetched>>
    BY <1>5 DEF Drop, Resubscribe
  <2> QED
    BY <2>1, <2>2
<1>6. CASE Flush
  <2>1. pending' = Silence /\ batch' \in {Silence, pending}
        /\ UNCHANGED <<writer, inbox, fetched>>
    BY <1>6 DEF Flush
  <2> QED
    BY <2>1
<1>7. ASSUME NEW b \in Browsers, Send(b) \/ Connect(b) \/ Disconnect(b)
      PROVE  Carried(statuses)'
  BY <1>7 DEF Send, Connect, Disconnect, Skip
<1>8. ASSUME NEW b \in Browsers, Refetch(b) \/ Refetched(b) \/ RefetchFails(b)
      PROVE  Carried(statuses)'
  BY <1>8 DEF Refetch, Refetched, RefetchFails, FanoutTyped
<1> QED
  BY <1>1, <1>2, <1>3, <1>4, <1>5, <1>6, <1>7, <1>8 DEF FanoutNext

LEMMA FanoutKeepsTyped ==
  ASSUME FanoutTyped, FanoutNext
  PROVE  FanoutTyped'
<1>1. snapshot' \in Statuses
  BY DEF FanoutNext, FanoutTyped, WriteSnapshot, Publish, PublishFails, Listen, Drop, Resubscribe,
         Flush, Send, Connect, Disconnect, Refetch, Refetched, RefetchFails
<1>2. Carried(Statuses)'
  <2>1. Carried(Statuses)
    BY DEF Carried, FanoutTyped
  <2> QED
    BY <1>1, <2>1, FanoutKeepsCarried DEF FanoutTyped
<1>3. (batch = Silence <=> unsent = {})'
  <2>1. CASE Flush
    BY <2>1, FanoutAssumption DEF Flush, FanoutTyped
  <2>2. ASSUME NEW b \in Browsers, Send(b) \/ Disconnect(b)
        PROVE  (batch = Silence <=> unsent = {})'
    <3>1. unsent' = unsent \ {b} /\ batch' = IF unsent' = {} THEN Silence ELSE batch
      BY <2>2 DEF Send, Disconnect, Skip
    <3> QED
      BY <3>1 DEF FanoutTyped
  <2>3. CASE UNCHANGED <<batch, unsent>>
    BY <2>3 DEF FanoutTyped
  <2> QED
    BY <2>1, <2>2, <2>3 DEF FanoutNext, WriteSnapshot, Publish, PublishFails, Listen, Drop,
                            Resubscribe, Connect, Refetch, Refetched, RefetchFails
<1>4. /\ writer' \in [Writers -> Statuses \cup {Silence}]
      /\ fetched' \in [Browsers -> Statuses \cup {Silence}]
      /\ shown' \in [Browsers -> Statuses]
  <2>1. ASSUME NEW b \in Browsers, Send(b) PROVE shown' \in [Browsers -> Statuses]
    <3>1. batch \in Statuses
      BY <2>1 DEF Send, FanoutTyped
    <3> QED
      BY <2>1, <3>1 DEF Send, FanoutTyped
  <2>2. ASSUME NEW b \in Browsers, Refetched(b) PROVE shown' \in [Browsers -> Statuses]
    <3>1. fetched[b] \in Statuses
      BY <2>2 DEF Refetched, FanoutTyped
    <3> QED
      BY <2>2, <3>1 DEF Refetched, FanoutTyped
  <2>3. shown' \in [Browsers -> Statuses]
    <3>1. CASE UNCHANGED shown
      BY <3>1 DEF FanoutTyped
    <3> QED
      BY <2>1, <2>2, <3>1
         DEF FanoutNext, WriteSnapshot, Publish, PublishFails, Listen, Drop, Resubscribe, Flush,
             Connect, Disconnect, Refetch, RefetchFails
  <2>4. DOMAIN writer' = Writers /\ writer' = [w \in Writers |-> writer'[w]]
    BY DEF FanoutNext, FanoutTyped, WriteSnapshot, Publish, PublishFails, Listen, Drop, Resubscribe,
           Flush, Send, Connect, Disconnect, Refetch, Refetched, RefetchFails
  <2>5. DOMAIN fetched' = Browsers /\ fetched' = [b \in Browsers |-> fetched'[b]]
    BY DEF FanoutNext, FanoutTyped, WriteSnapshot, Publish, PublishFails, Listen, Drop, Resubscribe,
           Flush, Send, Connect, Disconnect, Refetch, Refetched, RefetchFails
  <2> QED
    BY <1>2, <2>3, <2>4, <2>5 DEF Carried
<1> QED
  BY <1>1, <1>2, <1>3, <1>4 DEF FanoutTyped, Carried

LEMMA RestartKeepsFanoutTyped == ASSUME FanoutTyped, GatewayRestart PROVE FanoutTyped'
BY DEF FanoutTyped, GatewayRestart

LEMMA FanoutSteps ==
  [Next]_vars => FanoutPart \/ GatewayRestart \/ UNCHANGED fanoutVars
BY DEF Next, vars, ListenerPart, DiscoveryPart, RatesPart, ChecksPart, LossPart, ExplorerPart,
       WatchdogPart, Restart

LEMMA NextKeepsFanoutTyped == FanoutTyped /\ [Next]_vars => FanoutTyped'
<1> SUFFICES ASSUME FanoutTyped, [Next]_vars PROVE FanoutTyped'
  OBVIOUS
<1>1. CASE UNCHANGED fanoutVars
  BY <1>1 DEF FanoutTyped, fanoutVars
<1> QED
  BY <1>1, FanoutSteps, FanoutKeepsTyped, RestartKeepsFanoutTyped DEF FanoutPart

(* Nothing under way is any other status than that of the snapshot.        *)
Settled(st) == snapshot = st /\ Carried({st})

(* The safety half of NewestShown: once all that is under way is the       *)
(* status of the snapshot, whatever connects, drops, refetches or restarts *)
(* after that, no dashboard that shows this status goes back to another    *)
(* one, as long as nobody writes another one.                              *)
NothingOldReturns ==
  [][\A st \in Statuses, b \in Browsers :
       Settled(st) /\ snapshot' = st
         => Settled(st)' /\ (shown[b] = st => shown'[b] = st)]_fanoutVars

(* Frames, refetches and reloads in any order never take a dashboard back  *)
(* from the newest status once nothing older is on its way.                *)
THEOREM DashboardsStayCurrent == Spec => NothingOldReturns
<1>1. ASSUME FanoutTyped, [Next]_vars, NEW st \in Statuses, NEW b \in Browsers,
             Settled(st), snapshot' = st
      PROVE  Settled(st)' /\ (shown[b] = st => shown'[b] = st)
  <2>1. CASE FanoutPart
    <3>1. Carried({st})'
      BY <1>1, <2>1, FanoutKeepsCarried DEF FanoutPart, Settled
    <3>2. FanoutNext /\ batch \in {st, Silence} /\ (unsent # {} => batch = st)
          /\ \A c \in Browsers : fetched[c] \in {st, Silence}
      BY <1>1, <2>1 DEF FanoutPart, Settled, Carried, FanoutTyped
    <3>3. ASSUME NEW c \in Browsers, Send(c) PROVE shown'[b] \in {st, shown[b]}
      BY <1>1, <3>2, <3>3 DEF Send, FanoutTyped
    <3>4. ASSUME NEW c \in Browsers, Refetched(c) PROVE shown'[b] \in {st, shown[b]}
      BY <1>1, <3>2, <3>4 DEF Refetched, FanoutTyped
    <3>5. shown'[b] \in {st, shown[b]}
      BY <3>2, <3>3, <3>4
         DEF FanoutNext, WriteSnapshot, Publish, PublishFails, Listen, Drop, Resubscribe, Flush,
             Connect, Disconnect, Refetch, RefetchFails
    <3> QED
      BY <1>1, <3>1, <3>5 DEF Settled
  <2>2. CASE GatewayRestart
    BY <1>1, <2>2 DEF GatewayRestart, Settled, Carried
  <2>3. CASE UNCHANGED fanoutVars
    BY <1>1, <2>3 DEF fanoutVars, Settled, Carried
  <2> QED
    BY <1>1, <2>1, <2>2, <2>3, FanoutSteps
<1>2. FanoutTyped /\ [Next]_vars =>
        [\A st \in Statuses, b \in Browsers :
           Settled(st) /\ snapshot' = st
             => Settled(st)' /\ (shown[b] = st => shown'[b] = st)]_fanoutVars
  BY <1>1
<1> QED
  BY <1>2, InitFanoutTyped, NextKeepsFanoutTyped, PTL DEF Spec, NothingOldReturns

-----------------------------------------------------------------------------
(* The types of the others that their invariants did not need.             *)
AlarmsTyped ==
  /\ dog.pc = "alarm" => ~alarmed /\ Enough(consecutive)
  /\ dog.pc = "resolve" => alarmed /\ consecutive = 0

SweepsTyped ==
  /\ up \subseteq Addresses
  /\ \A s \in Sweepers : sweep[s].held \subseteq sweep[s].hits /\ sweep[s].gone \subseteq sweep[s].held

RestTyped ==
  /\ crowd \in Crowds
  /\ restarts \in 0 .. MaxRestarts
  /\ carried \in 0 .. MaxOctets
  /\ report \in {"none", "underway", "ok", "failed"}

LEMMA NextKeepsAlarmsTyped ==
  WatchdogInv /\ AlarmsTyped /\ [Next]_vars => AlarmsTyped'
<1> SUFFICES ASSUME WatchdogInv, AlarmsTyped, [Next]_vars PROVE AlarmsTyped'
  OBVIOUS
<1> USE DEF AlarmsTyped
<1>0. consecutive \in Nat /\ WATCHDOG_FAILURES \in Nat \ {0}
      /\ dog \in [pc: {"check", "alarm", "resolve", "sleep"}, spent: Nat,
                  answer: {"none", "healthy", "stale"}]
  BY WatchdogAssumption DEF WatchdogInv, WatchdogType
<1>1. CASE WatchdogPart
  <2>1. CASE Healthz
    BY <1>0, <2>1 DEF Healthz
  <2>2. CASE Healthy
    BY <1>0, <2>2 DEF Healthy, At
  <2>3. CASE Unhealthy
    BY <1>0, <2>3 DEF Unhealthy, At, Enough, AtMost
  <2>4. CASE Alerted \/ Slept \/ WatchdogRestart
    BY <2>4 DEF Alerted, Slept, WatchdogRestart, At, Asking
  <2>5. CASE MonitorNext
    BY <2>5 DEF MonitorNext, Enough
  <2>6. CASE WatchdogTick
    BY <1>0, <2>6 DEF WatchdogTick, Enough
  <2> QED
    BY <1>1, <2>1, <2>2, <2>3, <2>4, <2>5, <2>6 DEF WatchdogPart, WatchdogNext
<1>2. CASE UNCHANGED watchdogVars
  BY <1>2 DEF watchdogVars, Enough
<1>3. CASE ListenerPart \/ DiscoveryPart \/ RatesPart \/ ChecksPart \/ LossPart \/ ExplorerPart
          \/ FanoutPart \/ Restart \/ UNCHANGED vars
  BY <1>2, <1>3 DEF ListenerPart, DiscoveryPart, RatesPart, ChecksPart, LossPart, ExplorerPart,
                    FanoutPart, Restart, vars
<1> QED
  BY <1>1, <1>3 DEF Next

LEMMA NextKeepsSweepsTyped ==
  DiscoveryInv /\ SweepsTyped /\ [Next]_vars => SweepsTyped'
<1> SUFFICES ASSUME DiscoveryInv, SweepsTyped, [Next]_vars PROVE SweepsTyped'
  OBVIOUS
<1> USE DEF SweepsTyped
<1>0. sweep \in [Sweepers -> SweepStates] /\ Loop \in Sweepers
  BY DiscoveryAssumption DEF DiscoveryInv, DiscoveryType
<1>1. ASSUME NEW s \in Sweepers, SweepStep(s) PROVE SweepsTyped'
  <2>1. CASE SweepStart(s)
    BY <1>0, <2>1 DEF SweepStart, NoSweep
  <2>2. CASE Probe(s)
    BY <1>0, <2>2 DEF Probe, SweepStates
  <2>3. CASE ReadPending(s)
    BY <1>0, <2>3 DEF ReadPending, SweepStates
  <2>4. CASE SweepCommit(s)
    BY <1>0, <2>4 DEF SweepCommit, NoSweep
  <2> QED
    BY <1>1, <2>1, <2>2, <2>3, <2>4 DEF SweepStep
<1>2. ASSUME NEW d \in Deciders, NEW a \in Addresses, DecisionNext(d, a) PROVE SweepsTyped'
  <2>1. UNCHANGED up /\ (UNCHANGED sweep \/ sweep' = SweepsWithout(a))
    BY <1>2 DEF DecisionNext, GetRow, Approve, ApproveConflict, Ignore, Forget, DeleteRow
  <2>2. CASE sweep' = SweepsWithout(a)
    BY <1>0, <2>1, <2>2 DEF SweepsWithout, SweepStates
  <2> QED
    BY <2>1, <2>2
<1>3. ASSUME NEW a \in Addresses, AddDevice(a) \/ RemoveDevice(a) \/ Answers(a)
      PROVE  SweepsTyped'
  BY <1>3 DEF AddDevice, RemoveDevice, Answers
<1>4. CASE UNCHANGED discoveryVars
  BY <1>4 DEF discoveryVars
<1>5. CASE Restart
  BY <1>0, <1>5 DEF Restart, DiscoveryRestart, NoSweep
<1>6. CASE ListenerPart \/ RatesPart \/ ChecksPart \/ LossPart \/ ExplorerPart
          \/ FanoutPart \/ WatchdogPart \/ UNCHANGED vars
  BY <1>4, <1>6 DEF ListenerPart, RatesPart, ChecksPart, LossPart, ExplorerPart, FanoutPart,
                    WatchdogPart, vars
<1> QED
  BY <1>1, <1>2, <1>3, <1>5, <1>6 DEF Next, DiscoveryPart, DiscoveryNext

LEMMA NextKeepsRestTyped == RestTyped /\ [Next]_vars => RestTyped'
<1> SUFFICES ASSUME RestTyped, [Next]_vars PROVE RestTyped'
  OBVIOUS
<1>1. UNCHANGED crowd
  BY DEF Next, vars, ListenerPart, DiscoveryPart, RatesPart, ChecksPart, LossPart, ExplorerPart,
         FanoutPart, WatchdogPart, Restart
<1>2. UNCHANGED restarts \/ (restarts < MaxRestarts /\ restarts' = restarts + 1)
  BY DEF Next, vars, ListenerPart, DiscoveryPart, RatesPart, ChecksPart, LossPart, ExplorerPart,
         FanoutPart, WatchdogPart, Restart
<1>3. UNCHANGED carried \/ Carry
  BY DEF Next, vars, ratesVars, ListenerPart, DiscoveryPart, RatesPart, ChecksPart, LossPart,
         ExplorerPart, FanoutPart, WatchdogPart, Restart, RatesRestart, RatesNext, PollNext, PollStart,
         OutReturns, PollFails, Complete, Narrow, Rate, DeviceNext, Reboot
<1>4. report' \in {report, "underway", "ok", "failed"}
  BY DEF Next, vars, explorerVars, ListenerPart, DiscoveryPart, RatesPart, ChecksPart, LossPart,
         ExplorerPart, FanoutPart, WatchdogPart, Restart, ExplorerNext, Explore, RowsRead, NothingRead,
         Raised, Report, GoesSilent
<1> QED
  BY <1>1, <1>2, <1>3, <1>4, RatesAssumption, RestartsAssumption DEF RestTyped, Carry

(* The receivers, the checks and polls, discovery, the explorer, the       *)
(* fan-out and the watchdog keep their types, whatever the others do.      *)
THEOREM LoopsTypeCorrect == Spec => []TypeOK
<1>1. Init => AlarmsTyped /\ SweepsTyped /\ RestTyped
  BY RatesAssumption, RestartsAssumption
     DEF Init, WatchdogInit, DiscoveryInit, RatesInit, ExplorerInit, Asking, NoSweep,
         AlarmsTyped, SweepsTyped, RestTyped
<1>2. ReceiverTyped /\ LossTyped /\ DiscoveryInv /\ ChecksInv /\ WatchdogInv /\ FanoutTyped
        /\ AlarmsTyped /\ SweepsTyped /\ RestTyped => TypeOK
  <2> SUFFICES ASSUME ReceiverTyped, LossTyped, DiscoveryInv, ChecksInv, WatchdogInv, FanoutTyped,
                      AlarmsTyped, SweepsTyped, RestTyped
               PROVE  TypeOK
    OBVIOUS
  <2>1. row \in Rows /\ monitored \subseteq Addresses
        /\ proposed \in [Addresses -> {"none", "new", "ignored"}]
    BY DEF ChecksInv, ChecksType, DiscoveryInv, DiscoveryType
  <2>2. dog.pc \in {"check", "alarm", "resolve", "sleep"} /\ dog.spent \in 0 .. Longest(dog.pc)
    BY WatchdogAssumption, LongestSteps DEF WatchdogInv, WatchdogType
  <2>3. shown \in [Browsers -> Statuses] /\ batch \in Statuses \cup {Silence}
        /\ (batch = Silence <=> unsent = {})
    BY DEF FanoutTyped
  <2>4. /\ buffer \in Seq([host: Hosts, severity: 0 .. 7]) /\ Len(buffer) <= BUFFER_HARD_CAP
        /\ rows \in Seq([host: Hosts, severity: 0 .. 7]) /\ Len(rows) <= CHUNK
        /\ stage \in {"sleep", "map", "flush", "commit", "alert", "send"}
        /\ stage = "sleep" => rows = <<>>
        /\ alertedAt \in [Hosts -> {NotAlerted} \cup 0 .. Saturated]
        /\ lag \in 0 .. MaxLag + MaxSend /\ spent \in 0 .. MaxSend
    BY DEF ReceiverTyped, Entry
  <2> QED
    BY <2>1, <2>2, <2>3, <2>4, Zenon DEF TypeOK, LossTyped, AlarmsTyped, SweepsTyped, RestTyped
<1> QED
  BY <1>1, <1>2, ReceiverTypes, LossTypes,
     InitDiscoveryInv, NextKeepsDiscoveryInv, InitChecksInv, NextKeepsChecksInv,
     InitWatchdogInv, NextKeepsWatchdogInv, InitFanoutTyped, NextKeepsFanoutTyped,
     NextKeepsAlarmsTyped, NextKeepsSweepsTyped, NextKeepsRestTyped, PTL DEF Spec

=============================================================================
