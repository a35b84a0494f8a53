---------------------------- MODULE ListenerProofs ----------------------------
(***************************************************************************)
(* Proofs about who notifies with a cooldown: the accounts of the          *)
(* receivers and the pace of their alarms, for any datagrams, caps,        *)
(* cooldown and number of hosts, and how long a lossy link waits for its   *)
(* notice, for any number of devices.  Accounted is inductive once the     *)
(* counts are numbers and the buffer and the chunk are sequences: all it   *)
(* needs is what cutting a chunk does to the two lengths.  The others need *)
(* invariants of their own, PaceInv and LossInv.  The last section gives   *)
(* the types of both, for module PollProofs, which has those of the rest.  *)
(***************************************************************************)
EXTENDS Loops, SequenceTheorems, FiniteSetTheorems, TLAPS

Messages == {Parsed(d) : d \in Datagrams}

ListenerType ==
  /\ buffer \in Seq(Messages) /\ rows \in Seq(Messages)
  /\ dropped \in Nat
  /\ received \in Nat /\ stored \in Nat /\ lost \in Nat /\ reported \in Nat

ListenerInv == ListenerType /\ Accounted

-----------------------------------------------------------------------------
(* A chunk and the rest are as long as what they were cut from.            *)
LEMMA CutLengths ==
  ASSUME NEW S, NEW s \in Seq(S), NEW chunk \in Nat \ {0},
         NEW n, n = IF Len(s) < chunk THEN Len(s) ELSE chunk
  PROVE  /\ SubSeq(s, 1, n) \in Seq(S)
         /\ SubSeq(s, chunk + 1, Len(s)) \in Seq(S)
         /\ Len(SubSeq(s, 1, n)) + Len(SubSeq(s, chunk + 1, Len(s))) = Len(s)
<1>1. Len(s) \in Nat /\ n \in Nat /\ n <= Len(s) /\ n <= chunk
  OBVIOUS
<1>2. \A i \in 1 .. Len(s) : s[i] \in S
  OBVIOUS
<1>3. /\ SubSeq(s, 1, n) \in Seq(S)
      /\ Len(SubSeq(s, 1, n)) = n
  <2>1. \A i \in 1 .. n : s[i] \in S
    BY <1>1, <1>2
  <2>2. /\ SubSeq(s, 1, n) \in Seq(S)
        /\ Len(SubSeq(s, 1, n)) = IF 1 <= n THEN n - 1 + 1 ELSE 0
    BY <1>1, <2>1, SubSeqProperties
  <2> QED
    BY <1>1, <2>2
<1>4. /\ SubSeq(s, chunk + 1, Len(s)) \in Seq(S)
      /\ Len(SubSeq(s, chunk + 1, Len(s))) = IF chunk + 1 <= Len(s) THEN Len(s) - chunk ELSE 0
  <2>1. \A i \in chunk + 1 .. Len(s) : s[i] \in S
    BY <1>1, <1>2
  <2>2. /\ SubSeq(s, chunk + 1, Len(s)) \in Seq(S)
        /\ Len(SubSeq(s, chunk + 1, Len(s))) =
             IF chunk + 1 <= Len(s) THEN Len(s) - (chunk + 1) + 1 ELSE 0
    BY <1>1, <2>1, SubSeqProperties
  <2> QED
    BY <1>1, <2>2
<1>5. CASE Len(s) < chunk
  <2>1. n = Len(s) /\ ~(chunk + 1 <= Len(s))
    BY <1>1, <1>5
  <2> QED
    BY <1>1, <1>3, <1>4, <2>1
<1>6. CASE ~(Len(s) < chunk)
  <2>1. n = chunk /\ n + (IF chunk + 1 <= Len(s) THEN Len(s) - chunk ELSE 0) = Len(s)
    BY <1>1, <1>6
  <2> QED
    BY <1>3, <1>4, <2>1
<1> QED
  BY <1>5, <1>6

-----------------------------------------------------------------------------
LEMMA InitListenerInv == Init => ListenerInv
<1> SUFFICES ASSUME Init PROVE ListenerInv
  OBVIOUS
<1> QED
  BY DEF Init, ListenerInit, ListenerInv, ListenerType, Accounted, InHand

(* Steps that leave the receivers alone.                                   *)
LEMMA ElsewhereKeepsListenerInv ==
  ASSUME ListenerInv, UNCHANGED listenerVars
  PROVE  ListenerInv'
BY DEF ListenerInv, ListenerType, Accounted, InHand, listenerVars, tally, alarms

(* Steps that do no more than go from one stage to another.                *)
LEMMA GoingKeepsListenerInv ==
  ASSUME ListenerInv, NEW from, NEW to, GoesTo(from, to), from # "commit", to # "commit"
  PROVE  ListenerInv'
BY DEF ListenerInv, ListenerType, Accounted, InHand, GoesTo, tally, alarms

(* One step of the receiver.                                               *)
LEMMA ListenerKeepsListenerInv ==
  ASSUME ListenerInv, ListenerNext
  PROVE  ListenerInv'
<1> USE DEF ListenerInv
<1>1. ASSUME NEW d \in Datagrams, Receive(d) PROVE ListenerInv'
  <2>1. Parsed(d) \in Messages
    BY DEF Messages
  <2>2. /\ received' = received + 1
        /\ UNCHANGED <<stage, rows, stored, lost, reported>>
        /\ InHand' = InHand /\ InHand \in Nat /\ Len(buffer) \in Nat
    BY <1>1 DEF Receive, ListenerType, InHand
  <2>3. CASE dropped' = dropped + 1 /\ UNCHANGED buffer
    BY <2>2, <2>3 DEF ListenerType, Accounted
  <2>4. CASE buffer' = Append(buffer, Parsed(d)) /\ UNCHANGED dropped
    <3>1. buffer' \in Seq(Messages) /\ Len(buffer') = Len(buffer) + 1
      BY <2>1, <2>4 DEF ListenerType
    <3> QED
      BY <2>2, <2>4, <3>1 DEF ListenerType, Accounted
  <2> QED
    BY <1>1, <2>3, <2>4 DEF Receive
<1>2. CASE WakeUp \/ MapLoaded \/ MapFails \/ Delivered
  BY <1>2, GoingKeepsListenerInv DEF WakeUp, MapLoaded, MapFails, Delivered
<1>3. CASE Cut
  <2>1. /\ rows' \in Seq(Messages) /\ buffer' \in Seq(Messages)
        /\ Len(rows') + Len(buffer') = Len(buffer)
    BY <1>3, CutLengths, ListenerAssumption DEF Cut, ListenerType
  <2>2. stage = "flush" /\ stage' = "commit" /\ UNCHANGED <<dropped, tally>>
    BY <1>3 DEF Cut
  <2> QED
    BY <2>1, <2>2 DEF ListenerType, Accounted, InHand, tally
<1>4. CASE Stored
  BY <1>4 DEF Stored, ListenerType, Accounted, InHand
<1>5. CASE CommitFails
  BY <1>5 DEF CommitFails, ListenerType, Accounted, InHand, alarms
<1>6. CASE NextRow
  <2>1. rows' \in Seq(Messages) /\ stage = "alert" /\ stage' # "commit"
    BY <1>6, HeadTailProperties DEF NextRow, ListenerType
  <2>2. UNCHANGED <<buffer, dropped, tally>>
    BY <1>6 DEF NextRow
  <2> QED
    BY <2>1, <2>2 DEF ListenerType, Accounted, InHand, tally
<1>7. CASE AlertsDone
  BY <1>7 DEF AlertsDone, ListenerType, Accounted, InHand, tally
<1>8. CASE LoopDone
  BY <1>8 DEF LoopDone, ListenerType, Accounted, InHand, alarms
<1>9. CASE ListenerTick
  BY <1>9 DEF ListenerTick, ListenerType, Accounted, InHand, tally
<1> QED
  BY <1>1, <1>2, <1>3, <1>4, <1>5, <1>6, <1>7, <1>8, <1>9 DEF ListenerNext, LoopStep

(* A restart empties all there is in memory, and loses it.                 *)
LEMMA RestartKeepsListenerInv ==
  ASSUME ListenerInv, ListenerRestart
  PROVE  ListenerInv'
<1>1. /\ lost' = lost + Len(buffer) + dropped + InHand
      /\ buffer' = <<>> /\ rows' = <<>> /\ dropped' = 0 /\ stage' = "sleep"
      /\ UNCHANGED <<received, stored, reported>>
  BY DEF ListenerRestart
<1>2. Len(buffer) \in Nat /\ Len(rows) \in Nat /\ InHand \in Nat
  BY DEF ListenerInv, ListenerType, InHand
<1>3. lost' \in Nat /\ buffer' \in Seq(Messages) /\ rows' \in Seq(Messages)
  BY <1>1, <1>2 DEF ListenerInv, ListenerType
<1>4. Len(buffer') = 0 /\ InHand' = 0
  BY <1>1 DEF InHand
<1> QED
  BY <1>1, <1>2, <1>3, <1>4 DEF ListenerInv, ListenerType, Accounted

LEMMA NextKeepsListenerInv == ListenerInv /\ [Next]_vars => ListenerInv'
<1> SUFFICES ASSUME ListenerInv, [Next]_vars PROVE ListenerInv'
  OBVIOUS
<1>1. CASE ListenerPart
  BY <1>1, ListenerKeepsListenerInv DEF ListenerPart
<1>2. CASE DiscoveryPart \/ RatesPart \/ ChecksPart \/ LossPart \/ ExplorerPart
          \/ FanoutPart \/ WatchdogPart
  BY <1>2, ElsewhereKeepsListenerInv
     DEF DiscoveryPart, RatesPart, ChecksPart, LossPart, ExplorerPart, FanoutPart, WatchdogPart
<1>3. CASE Restart
  BY <1>3, RestartKeepsListenerInv DEF Restart
<1>4. CASE UNCHANGED vars
  BY <1>4, ElsewhereKeepsListenerInv DEF vars
<1> QED
  BY <1>1, <1>2, <1>3, <1>4 DEF Next

(* Every message received is stored, counted as lost or dropped, or still  *)
(* in the buffer or the chunk: whatever fails, floods or restarts.         *)
THEOREM MessagesAccounted == Spec => []Accounted
<1>1. ListenerInv => Accounted
  BY DEF ListenerInv
<1> QED
  BY <1>1, InitListenerInv, NextKeepsListenerInv, PTL DEF Spec

-----------------------------------------------------------------------------
(* The pace of the alarms.  An entry of the cooldown is as old as the last *)
(* alarm, or older by the lag it was set with; and the lag is what alarms  *)
(* for OTHER hosts have taken, at most one for each, for a host with an    *)
(* entry as young as the batch is cooling.                                 *)
PaceType ==
  /\ rows \in Seq(Messages) /\ buffer \in Seq(Messages)
  /\ alertedAt \in [Hosts -> Int] /\ quiet \in [Hosts -> Int]
  /\ \A h \in Hosts : /\ alertedAt[h] # NotAlerted => alertedAt[h] \in 0 .. Saturated
                      /\ quiet[h] \in 0 .. Saturated
  /\ lag \in Nat /\ spent \in Nat
  /\ heard \subseteq Hosts

EntriesHonest ==
  \A h \in Hosts :
    /\ alertedAt[h] # NotAlerted
         => quiet[h] <= alertedAt[h] /\ alertedAt[h] <= quiet[h] + MaxLag
    /\ alertedAt[h] = NotAlerted /\ h \notin forgotten => quiet[h] + MaxLag >= COOLDOWN

Recent == {h \in Hosts : alertedAt[h] # NotAlerted /\ alertedAt[h] <= lag}

LagEarned ==
  /\ stage = "alert" => lag <= Cardinality(Recent) * MaxSend
  /\ stage = "send" => /\ spent <= MaxSend
                       /\ lag + MaxSend <= Cardinality(Recent) * MaxSend + spent

HeardAlerted ==
  /\ \A h \in heard : quiet[h] < COOLDOWN + lag
  /\ stage \notin {"alert", "send"} => heard = {}

PaceInv == PaceType /\ EntriesHonest /\ LagEarned /\ HeardAlerted

LEMMA HostOfMessage == \A message \in Messages : message.host \in Hosts
BY DatagramsAssumption DEF Messages, Parsed, ParsedSyslog, ParsedTrap

LEMMA Products ==
  ASSUME NEW j \in Nat, NEW k \in Nat, j <= k
  PROVE  /\ j * MaxSend \in Nat /\ k * MaxSend \in Nat
         /\ j * MaxSend <= k * MaxSend
         /\ (j + 1) * MaxSend = j * MaxSend + MaxSend
<1>1. MaxSend \in Nat
  BY ListenerAssumption
<1> DEFINE more == k - j
<1>2. more \in Nat /\ k = j + more
  OBVIOUS
<1> HIDE DEF more
<1>3. more * MaxSend \in Nat /\ j * MaxSend \in Nat /\ (j + more) * MaxSend = j * MaxSend + more * MaxSend
  BY <1>1, <1>2
<1>4. (j + 1) * MaxSend = j * MaxSend + MaxSend
  BY <1>1
<1> QED
  BY <1>1, <1>2, <1>3, <1>4

(* Numbers of the receiver; with a host there is a time to lag.            *)
LEMMA PaceNumbers ==
  /\ COOLDOWN \in Nat \ {0} /\ MaxSend \in Nat
  /\ MaxLag \in Int /\ Saturated = COOLDOWN + MaxLag + MaxSend
  /\ Hosts # {} => MaxLag \in Nat
  /\ \A set \in SUBSET Hosts : IsFiniteSet(set) /\ Cardinality(set) \in Nat
<1>1. COOLDOWN \in Nat \ {0} /\ MaxSend \in Nat
  BY ListenerAssumption
<1>2. \A set \in SUBSET Hosts : IsFiniteSet(set) /\ Cardinality(set) \in Nat
  BY FS_Subset, FS_CardinalityType, ListenerAssumption
<1>3. Cardinality(Hosts) \in Nat
  BY <1>2
<1>4. MaxLag \in Int
  BY <1>1, <1>3 DEF MaxLag
<1>5. ASSUME Hosts # {} PROVE MaxLag \in Nat
  <2>1. Cardinality(Hosts) # 0
    BY <1>5, FS_EmptySet, ListenerAssumption
  <2>2. Cardinality(Hosts) - 1 \in Nat
    BY <1>3, <2>1
  <2> QED
    BY <2>2, Products DEF MaxLag
<1> QED
  BY <1>1, <1>2, <1>4, <1>5 DEF Saturated

(* A host that is not among the recent ones leaves one less for them.      *)
LEMMA LagBounded ==
  ASSUME NEW recent \in SUBSET Hosts, NEW h \in Hosts \ recent, NEW n \in Nat,
         n <= Cardinality(recent) * MaxSend
  PROVE  /\ n <= MaxLag
         /\ Cardinality(recent \cup {h}) = Cardinality(recent) + 1
<1>1. Cardinality(recent \cup {h}) = Cardinality(recent) + 1
  BY PaceNumbers, FS_AddElement
<1>2. Cardinality(recent \cup {h}) <= Cardinality(Hosts)
  BY FS_Subset, ListenerAssumption
<1>3. Cardinality(recent) \in Nat /\ Cardinality(Hosts) - 1 \in Nat
      /\ Cardinality(recent) <= Cardinality(Hosts) - 1
  BY <1>1, <1>2, PaceNumbers
<1>4. Cardinality(recent) * MaxSend <= (Cardinality(Hosts) - 1) * MaxSend
      /\ Cardinality(recent) * MaxSend \in Nat /\ (Cardinality(Hosts) - 1) * MaxSend \in Nat
  BY <1>3, Products
<1> QED
  BY <1>1, <1>4 DEF MaxLag

LEMMA InitPaceInv == Init => PaceInv
<1> SUFFICES ASSUME Init PROVE PaceInv
  OBVIOUS
<1>1. ListenerInit
  BY DEF Init
<1>2. ASSUME NEW h \in Hosts
      PROVE  Saturated \in Nat /\ Saturated + MaxLag >= COOLDOWN
  BY PaceNumbers
<1>3. PaceType
  BY <1>1, <1>2 DEF ListenerInit, PaceType, NotAlerted
<1>4. EntriesHonest
  BY <1>1, <1>2 DEF ListenerInit, EntriesHonest
<1>5. LagEarned /\ HeardAlerted
  BY <1>1 DEF ListenerInit, LagEarned, HeardAlerted
<1> QED
  BY <1>3, <1>4, <1>5 DEF PaceInv

(* Steps that leave the alarms alone, outside a batch or within it.        *)
LEMMA QuietStepKeepsPaceInv ==
  ASSUME PaceInv, UNCHANGED alarms,
         rows' \in Seq(Messages), buffer' \in Seq(Messages),
         \/ stage' = stage
         \/ stage = "send" /\ stage' = "alert"
         \/ stage \notin {"alert", "send"} /\ stage' \notin {"alert", "send"}
  PROVE  PaceInv'
<1>1. PaceType' /\ EntriesHonest' /\ Recent' = Recent /\ HeardAlerted'
  BY DEF PaceInv, PaceType, EntriesHonest, HeardAlerted, Recent, alarms
<1>2. LagEarned'
  <2>1. CASE stage = "send" /\ stage' = "alert"
    <3>1. Cardinality(Recent) \in Nat /\ MaxSend \in Nat
      BY PaceNumbers DEF Recent
    <3>2. Cardinality(Recent) * MaxSend \in Nat
      BY <3>1
    <3> QED
      BY <1>1, <2>1, <3>1, <3>2 DEF PaceInv, PaceType, LagEarned, alarms
  <2>2. CASE stage' = stage
    BY <1>1, <2>2 DEF PaceInv, LagEarned, alarms
  <2>3. CASE stage \notin {"alert", "send"} /\ stage' \notin {"alert", "send"}
    BY <2>3 DEF LagEarned
  <2> QED
    BY <2>1, <2>2, <2>3
<1> QED
  BY <1>1, <1>2 DEF PaceInv

(* A new batch: expired entries go, and what is evicted is noted.          *)
LEMMA StoredKeepsPaceInv ==
  ASSUME PaceInv, Stored
  PROVE  PaceInv'
<1> USE DEF PaceInv
<1>1. PICK keep \in Prunings :
        /\ alertedAt' = [h \in Hosts |-> IF h \in keep THEN alertedAt[h] ELSE NotAlerted]
        /\ forgotten' = forgotten \cup (Running \ keep)
  BY DEF Stored
<1>2. /\ lag' = 0 /\ stage' = "alert" /\ stage = "commit"
      /\ UNCHANGED <<buffer, rows, spent, quiet, heard>>
  BY DEF Stored
<1>3. PaceType'
  BY <1>1, <1>2 DEF PaceType, NotAlerted
<1>4. EntriesHonest'
  <2> SUFFICES ASSUME NEW h \in Hosts
               PROVE  /\ alertedAt'[h] # NotAlerted
                           => quiet[h] <= alertedAt'[h] /\ alertedAt'[h] <= quiet[h] + MaxLag
                      /\ alertedAt'[h] = NotAlerted /\ h \notin forgotten'
                           => quiet[h] + MaxLag >= COOLDOWN
    BY <1>2 DEF EntriesHonest
  <2>1. CASE h \in keep
    <3>1. h \in Running
      BY <2>1 DEF Prunings
    <3> QED
      BY <1>1, <2>1, <3>1 DEF EntriesHonest, Running
  <2>2. CASE h \notin keep
    <3>1. alertedAt'[h] = NotAlerted
      BY <1>1, <2>2
    <3>2. ASSUME h \notin forgotten' PROVE quiet[h] + MaxLag >= COOLDOWN
      <4>1. h \notin forgotten /\ h \notin Running
        BY <1>1, <2>2, <3>2
      <4>2. alertedAt[h] = NotAlerted \/ alertedAt[h] >= COOLDOWN
        BY <4>1, PaceNumbers DEF Running, PaceType
      <4> QED
        BY <4>1, <4>2, PaceNumbers DEF EntriesHonest, PaceType
    <3> QED
      BY <3>1, <3>2
  <2> QED
    BY <2>1, <2>2
<1>5. LagEarned'
  <2>1. Cardinality(Recent') \in Nat
    BY PaceNumbers DEF Recent
  <2>2. Cardinality(Recent') * MaxSend \in Nat
    BY <2>1, Products
  <2> QED
    BY <1>2, <2>2 DEF LagEarned
<1>6. HeardAlerted'
  BY <1>2 DEF HeardAlerted
<1> QED
  BY <1>3, <1>4, <1>5, <1>6

(* A row of the batch: a cooling host stays silent; another one may lag    *)
(* behind what alarms for the rest of the hosts have taken.                *)
LEMMA RowKeepsPaceInv ==
  ASSUME PaceInv, NextRow
  PROVE  PaceInv'
<1> USE DEF PaceInv
<1> DEFINE h == Head(rows).host
<1>1. h \in Hosts /\ rows' \in Seq(Messages) /\ buffer' \in Seq(Messages)
  BY HostOfMessage, HeadTailProperties DEF NextRow, PaceType
<1>2. /\ stage = "alert" /\ lag' = lag
      /\ heard' = IF Severe(Head(rows)) THEN heard \cup {h} ELSE heard
      /\ \/ /\ Severe(Head(rows)) /\ ~Cooling(h)
            /\ alertedAt' = [alertedAt EXCEPT ![h] = lag]
            /\ quiet' = [quiet EXCEPT ![h] = 0]
            /\ forgotten' = forgotten \ {h}
            /\ spent' = 0
            /\ stage' = "send"
         \/ /\ ~Severe(Head(rows)) \/ Cooling(h)
            /\ UNCHANGED <<stage, alertedAt, quiet, forgotten, spent>>
  BY DEF NextRow
<1> HIDE DEF h
<1>3. lag \in Nat /\ lag <= Cardinality(Recent) * MaxSend
  BY <1>2 DEF PaceType, LagEarned
<1>4. heard' \subseteq Hosts
  BY <1>1, <1>2 DEF PaceType
<1>5. CASE Severe(Head(rows)) /\ ~Cooling(h) /\ stage' = "send"
           /\ alertedAt' = [alertedAt EXCEPT ![h] = lag] /\ quiet' = [quiet EXCEPT ![h] = 0]
           /\ forgotten' = forgotten \ {h} /\ spent' = 0
  <2>1. h \notin Recent
    BY <1>1, <1>3, <1>5, PaceNumbers DEF Cooling, Recent, PaceType
  <2>2. /\ lag <= MaxLag
        /\ Cardinality(Recent \cup {h}) = Cardinality(Recent) + 1
    BY <1>1, <1>3, <2>1, LagBounded DEF Recent
  <2>3. lag \in 0 .. Saturated /\ 0 \in 0 .. Saturated /\ lag # NotAlerted /\ MaxLag \in Nat
    BY <1>1, <1>3, <2>2, PaceNumbers DEF NotAlerted
  <2>4. PaceType'
    BY <1>1, <1>2, <1>4, <1>5, <2>3 DEF PaceType
  <2>5. EntriesHonest'
    BY <1>1, <1>5, <2>2, <2>3 DEF EntriesHonest, PaceType
  <2>6. Recent' = Recent \cup {h}
    BY <1>1, <1>2, <1>3, <1>5, <2>3 DEF Recent, PaceType
  <2>7. LagEarned'
    <3>1. Cardinality(Recent) \in Nat
      BY PaceNumbers DEF Recent
    <3>2. (Cardinality(Recent) + 1) * MaxSend = Cardinality(Recent) * MaxSend + MaxSend
          /\ Cardinality(Recent) * MaxSend \in Nat
      BY <3>1, Products
    <3> QED
      BY <1>2, <1>3, <1>5, <2>2, <2>6, <3>2, PaceNumbers DEF LagEarned
  <2>8. HeardAlerted'
    BY <1>1, <1>2, <1>3, <1>5, PaceNumbers DEF HeardAlerted, PaceType
  <2> QED
    BY <2>4, <2>5, <2>7, <2>8
<1>6. CASE (~Severe(Head(rows)) \/ Cooling(h))
           /\ UNCHANGED <<stage, alertedAt, quiet, forgotten, spent>>
  <2>1. PaceType'
    BY <1>1, <1>2, <1>4, <1>6 DEF PaceType
  <2>2. EntriesHonest' /\ Recent' = Recent
    BY <1>2, <1>6 DEF EntriesHonest, Recent
  <2>3. LagEarned'
    BY <1>2, <1>6, <2>2 DEF LagEarned
  <2>4. Cooling(h) => quiet[h] < COOLDOWN + lag
    BY <1>1, <1>3, PaceNumbers DEF Cooling, EntriesHonest, PaceType
  <2>5. HeardAlerted'
    BY <1>1, <1>2, <1>6, <2>4 DEF HeardAlerted
  <2> QED
    BY <2>1, <2>2, <2>3, <2>5
<1> QED
  BY <1>2, <1>5, <1>6

(* A second: entries, silence and, while an alarm goes out, the lag grow   *)
(* together, so that nobody ceases to be recent.                           *)
LEMMA TickKeepsPaceInv ==
  ASSUME PaceInv, ListenerTick
  PROVE  PaceInv'
<1> USE DEF PaceInv
<1>1. /\ stage # "alert" /\ (stage = "send" => spent < MaxSend)
      /\ alertedAt' = [h \in Hosts |-> Aged(alertedAt[h])]
      /\ quiet' = [h \in Hosts |-> Aged(quiet[h])]
      /\ lag' = IF stage = "send" THEN lag + 1 ELSE lag
      /\ spent' = IF stage = "send" THEN spent + 1 ELSE spent
      /\ UNCHANGED <<buffer, stage, rows, forgotten, heard>>
  BY DEF ListenerTick
<1>2. ASSUME NEW h \in Hosts
      PROVE  /\ alertedAt[h] = NotAlerted => alertedAt'[h] = NotAlerted
             /\ alertedAt[h] # NotAlerted =>
                  /\ alertedAt'[h] = IF alertedAt[h] = Saturated THEN Saturated ELSE alertedAt[h] + 1
                  /\ alertedAt'[h] \in 0 .. Saturated
             /\ quiet'[h] = IF quiet[h] = Saturated THEN Saturated ELSE quiet[h] + 1
             /\ quiet'[h] \in 0 .. Saturated
             /\ Saturated \in Int
  <2>1. alertedAt'[h] = Aged(alertedAt[h]) /\ quiet'[h] = Aged(quiet[h])
    BY <1>1
  <2>2. Saturated \in Nat /\ alertedAt[h] \in Int /\ quiet[h] \in 0 .. Saturated
        /\ (alertedAt[h] # NotAlerted => alertedAt[h] \in 0 .. Saturated)
    BY PaceNumbers DEF PaceType
  <2>3. quiet'[h] = (IF quiet[h] = Saturated THEN Saturated ELSE quiet[h] + 1)
        /\ quiet'[h] \in 0 .. Saturated
    BY <2>1, <2>2 DEF Aged, NotAlerted
  <2>4. CASE alertedAt[h] = NotAlerted
    BY <2>1, <2>2, <2>3, <2>4 DEF Aged
  <2>5. CASE alertedAt[h] # NotAlerted
    BY <2>1, <2>2, <2>3, <2>5 DEF Aged
  <2> QED
    BY <2>4, <2>5
<1>3. PaceType'
  <2>1. lag' \in Nat /\ spent' \in Nat
    BY <1>1 DEF PaceType
  <2>2. alertedAt' \in [Hosts -> Int] /\ quiet' \in [Hosts -> Int]
    BY <1>1, <1>2 DEF NotAlerted
  <2> QED
    BY <1>1, <1>2, <2>1, <2>2 DEF PaceType
<1>4. EntriesHonest'
  <2> SUFFICES ASSUME NEW h \in Hosts
               PROVE  /\ alertedAt'[h] # NotAlerted
                           => quiet'[h] <= alertedAt'[h] /\ alertedAt'[h] <= quiet'[h] + MaxLag
                      /\ alertedAt'[h] = NotAlerted /\ h \notin forgotten
                           => quiet'[h] + MaxLag >= COOLDOWN
    BY <1>1 DEF EntriesHonest
  <2>1. MaxLag \in Nat /\ COOLDOWN \in Nat /\ alertedAt[h] \in Int /\ quiet[h] \in Int
        /\ (alertedAt[h] # NotAlerted => alertedAt[h] \in 0 .. Saturated)
        /\ quiet[h] \in 0 .. Saturated
    BY PaceNumbers DEF PaceType
  <2>2. CASE alertedAt[h] = NotAlerted
    BY <1>2, <2>1, <2>2 DEF EntriesHonest
  <2>3. CASE alertedAt[h] # NotAlerted
    <3>1. quiet[h] <= alertedAt[h] /\ alertedAt[h] <= quiet[h] + MaxLag
      BY <2>3 DEF EntriesHonest
    <3>2. alertedAt'[h] # NotAlerted
      BY <1>2, <2>3 DEF NotAlerted
    <3> QED
      BY <1>2, <2>1, <2>3, <3>1, <3>2
  <2> QED
    BY <2>2, <2>3
<1>5. LagEarned'
  <2>1. CASE stage = "send"
    <3>1. Recent \subseteq Recent'
      <4> SUFFICES ASSUME NEW h \in Recent PROVE h \in Recent'
        OBVIOUS
      <4>1. h \in Hosts /\ alertedAt[h] # NotAlerted /\ alertedAt[h] <= lag
        BY DEF Recent
      <4>2. alertedAt[h] \in Int /\ lag \in Int /\ Saturated \in Int
        BY <4>1, PaceNumbers DEF PaceType
      <4>4. /\ alertedAt'[h] = IF alertedAt[h] = Saturated THEN Saturated ELSE alertedAt[h] + 1
            /\ alertedAt'[h] \in 0 .. Saturated
        BY <1>2, <4>1
      <4>3. alertedAt'[h] # NotAlerted /\ alertedAt'[h] <= lag + 1
        BY <4>1, <4>2, <4>4 DEF NotAlerted
      <4> QED
        BY <1>1, <2>1, <4>1, <4>3 DEF Recent
    <3>2. Recent' \in SUBSET Hosts
      BY DEF Recent
    <3>3. Cardinality(Recent) \in Nat /\ Cardinality(Recent') \in Nat
          /\ Cardinality(Recent) <= Cardinality(Recent')
      BY <3>1, <3>2, FS_Subset, PaceNumbers DEF Recent
    <3>4. Cardinality(Recent) * MaxSend \in Nat /\ Cardinality(Recent') * MaxSend \in Nat
          /\ Cardinality(Recent) * MaxSend <= Cardinality(Recent') * MaxSend
      BY <3>3, Products
    <3> QED
      BY <1>1, <2>1, <3>4, PaceNumbers DEF LagEarned, PaceType
  <2>2. CASE stage # "send"
    BY <1>1, <2>2 DEF LagEarned
  <2> QED
    BY <2>1, <2>2
<1>6. HeardAlerted'
  <2>1. CASE stage = "send"
    <3> SUFFICES ASSUME NEW h \in heard PROVE quiet'[h] < COOLDOWN + (lag + 1)
      BY <1>1, <2>1 DEF HeardAlerted
    <3>1. h \in Hosts /\ quiet[h] < COOLDOWN + lag
      BY DEF HeardAlerted, PaceType
    <3>2. COOLDOWN \in Nat /\ lag \in Nat /\ quiet[h] \in 0 .. Saturated
          /\ quiet'[h] = IF quiet[h] = Saturated THEN Saturated ELSE quiet[h] + 1
      BY <1>2, <3>1, PaceNumbers DEF PaceType
    <3> QED
      BY <3>1, <3>2
  <2>2. CASE stage # "send"
    BY <1>1, <2>2 DEF HeardAlerted
  <2> QED
    BY <2>1, <2>2
<1> QED
  BY <1>3, <1>4, <1>5, <1>6

LEMMA ListenerKeepsPaceInv ==
  ASSUME PaceInv, ListenerNext
  PROVE  PaceInv'
<1> USE DEF PaceInv
<1>0. rows \in Seq(Messages) /\ buffer \in Seq(Messages)
  BY DEF PaceType
<1>1. ASSUME NEW d \in Datagrams, Receive(d) PROVE PaceInv'
  <2>1. Parsed(d) \in Messages
    BY DEF Messages
  <2>2. buffer' \in Seq(Messages)
    BY <1>0, <1>1, <2>1 DEF Receive
  <2> QED
    BY <1>0, <1>1, <2>2, QuietStepKeepsPaceInv DEF Receive
<1>2. CASE WakeUp \/ MapLoaded \/ MapFails \/ Delivered
  BY <1>0, <1>2, QuietStepKeepsPaceInv DEF WakeUp, MapLoaded, MapFails, Delivered, GoesTo
<1>3. CASE Cut
  <2>1. rows' \in Seq(Messages) /\ buffer' \in Seq(Messages)
    BY <1>0, <1>3, CutLengths, ListenerAssumption DEF Cut
  <2>2. stage = "flush" /\ stage' = "commit" /\ UNCHANGED alarms
    BY <1>3 DEF Cut
  <2> QED
    BY <2>1, <2>2, QuietStepKeepsPaceInv
<1>4. CASE CommitFails
  <2>1. rows' \in Seq(Messages) /\ buffer' = buffer
    BY <1>4 DEF CommitFails
  <2> QED
    BY <1>0, <1>4, <2>1, QuietStepKeepsPaceInv DEF CommitFails
<1>5. CASE LoopDone
  BY <1>0, <1>5, QuietStepKeepsPaceInv DEF LoopDone
<1>6. CASE AlertsDone
  <2>1. /\ heard' = {} /\ stage' = "flush"
        /\ UNCHANGED <<buffer, rows, lag, spent, alertedAt, quiet, forgotten>>
    BY <1>6 DEF AlertsDone
  <2>2. PaceType' /\ EntriesHonest' /\ HeardAlerted' /\ LagEarned'
    BY <2>1 DEF PaceType, EntriesHonest, HeardAlerted, LagEarned
  <2> QED
    BY <2>2
<1> QED
  BY <1>1, <1>2, <1>3, <1>4, <1>5, <1>6, StoredKeepsPaceInv, RowKeepsPaceInv, TickKeepsPaceInv
     DEF ListenerNext, LoopStep

(* A restart forgets the entries; the observer notes those still running.  *)
LEMMA RestartKeepsPaceInv ==
  ASSUME PaceInv, ListenerRestart
  PROVE  PaceInv'
<1> USE DEF PaceInv
<1>1. /\ buffer' = <<>> /\ rows' = <<>> /\ stage' = "sleep"
      /\ lag' = 0 /\ spent' = 0 /\ heard' = {} /\ quiet' = quiet
      /\ alertedAt' = [h \in Hosts |-> NotAlerted]
      /\ forgotten' = forgotten \cup {h \in Hosts : quiet[h] < Saturated}
  BY DEF ListenerRestart
<1>2. PaceType'
  BY <1>1 DEF PaceType, NotAlerted
<1>3. EntriesHonest'
  <2> SUFFICES ASSUME NEW h \in Hosts, h \notin forgotten'
               PROVE  quiet[h] + MaxLag >= COOLDOWN
    BY <1>1 DEF EntriesHonest
  <2>1. ~(quiet[h] < Saturated)
    BY <1>1
  <2> QED
    BY <2>1, PaceNumbers DEF PaceType
<1>4. LagEarned' /\ HeardAlerted'
  BY <1>1 DEF LagEarned, HeardAlerted
<1> QED
  BY <1>2, <1>3, <1>4

LEMMA NextKeepsPaceInv == PaceInv /\ [Next]_vars => PaceInv'
<1> SUFFICES ASSUME PaceInv, [Next]_vars PROVE PaceInv'
  OBVIOUS
<1>1. CASE ListenerPart
  BY <1>1, ListenerKeepsPaceInv DEF ListenerPart
<1>2. CASE UNCHANGED listenerVars
  BY <1>2 DEF PaceInv, PaceType, EntriesHonest, LagEarned, HeardAlerted, Recent, Running,
              listenerVars, alarms
<1>3. CASE DiscoveryPart \/ RatesPart \/ ChecksPart \/ LossPart \/ ExplorerPart
          \/ FanoutPart \/ WatchdogPart
  BY <1>2, <1>3 DEF DiscoveryPart, RatesPart, ChecksPart, LossPart, ExplorerPart, FanoutPart, WatchdogPart
<1>4. CASE Restart
  BY <1>4, RestartKeepsPaceInv DEF Restart
<1>5. CASE UNCHANGED vars
  BY <1>2, <1>5 DEF vars
<1> QED
  BY <1>1, <1>3, <1>4, <1>5 DEF Next

LEMMA StepPaced ==
  ASSUME PaceInv, [Next]_vars, stage = "alert"
  PROVE  /\ \A h \in Hosts :
              stage' = "send" /\ Head(rows).host = h /\ h \notin forgotten
                => quiet[h] + MaxLag >= COOLDOWN
         /\ stage' = "flush" => \A h \in heard : quiet[h] < COOLDOWN + lag
<1>1. ASSUME NEW h \in Hosts, stage' = "send", Head(rows).host = h, h \notin forgotten
      PROVE  quiet[h] + MaxLag >= COOLDOWN
  <2>1. NextRow
    <3>1. CASE ListenerPart
      BY <1>1, <3>1 DEF ListenerPart, ListenerNext, LoopStep, Receive, WakeUp, MapLoaded, MapFails,
           Cut, Stored, CommitFails, Delivered, AlertsDone, LoopDone, ListenerTick, GoesTo
    <3>2. CASE Restart
      BY <1>1, <3>2 DEF Restart, ListenerRestart
    <3>3. CASE UNCHANGED stage
      BY <1>1, <3>3
    <3> QED
      BY <3>1, <3>2, <3>3 DEF Next, vars, listenerVars, DiscoveryPart, RatesPart, ChecksPart,
           LossPart, ExplorerPart, FanoutPart, WatchdogPart
  <2>2. ~Cooling(h)
    BY <1>1, <2>1 DEF NextRow
  <2>3. alertedAt[h] = NotAlerted \/ alertedAt[h] >= COOLDOWN
    BY <2>2, PaceNumbers DEF Cooling, PaceInv, PaceType
  <2> QED
    BY <1>1, <2>3, PaceNumbers DEF PaceInv, PaceType, EntriesHonest
<1> QED
  BY <1>1 DEF PaceInv, HeardAlerted

(* Alarms keep their distance, and silence nobody for longer than the      *)
(* cooldown, for any number of hosts, any cooldown, and channels of any    *)
(* slowness.                                                               *)
THEOREM AlarmsArePaced == Spec => AlarmsPaced
<1>1. PaceInv /\ [Next]_vars =>
        [stage = "alert" =>
           /\ \A h \in Hosts :
                stage' = "send" /\ Head(rows).host = h /\ h \notin forgotten
                  => quiet[h] + MaxLag >= COOLDOWN
           /\ stage' = "flush" => \A h \in heard : quiet[h] < COOLDOWN + lag]_listenerVars
  BY StepPaced
<1> QED
  BY <1>1, InitPaceInv, NextKeepsPaceInv, PTL DEF Spec, AlarmsPaced

-----------------------------------------------------------------------------
(* Lossy links.  A cycle that fails has begun the cooldown of a device     *)
(* that was not on cooldown; so of the cycles a device has waited for, the *)
(* last k have begun those of k others, as long as no cooldown runs out.   *)

LossType ==
  /\ condition \in [Links -> Conditions]
  /\ loss \in [pc: {"sleep", "walk", "send", "commit"}, todo: SUBSET Links,
               cur: Links \cup {NoLink}, seen: [Links -> Conditions]]
  /\ loss.pc \in {"send", "commit"} => loss.cur \in Links
  /\ noticedAt \in [Links -> {Unnoticed} \cup Nat]
  /\ sinceNow \in Nat /\ sinceNow <= MaxCycle
  /\ overdue \in [Links -> Nat]

(* How long d had been due when the last cycle began.                      *)
Before(d) == overdue[d] - sinceNow

(* The other devices that were noticed in a cycle that began at most the   *)
(* time t before the last one.                                             *)
Within(d, t) ==
  {e \in Links \ {d} : noticedAt[e] # Unnoticed /\ noticedAt[e] - sinceNow <= t}

LongDue(d) ==
  overdue[d] > 0 =>
    /\ condition[d] = "lossy"
    /\ noticedAt[d] \in {Unnoticed, Stale} \/ noticedAt[d] >= LOSS_COOLDOWN + overdue[d]

(* A cycle that found the device due has it on its list, or in hand.       *)
OnTheList(d) ==
  Before(d) > 0 /\ loss.pc # "sleep" =>
    /\ loss.seen[d] = "lossy"
    /\ d \in loss.todo \/ (loss.pc = "send" /\ loss.cur = d)

(* The cycle under way counts from its notice on.                          *)
Noticing == IF loss.pc \in {"sleep", "commit"} THEN 1 ELSE 0

TurnsTaken(d) ==
  \A k \in Nat :
    Before(d) > k * MaxCycle => Cardinality(Within(d, k * MaxCycle)) >= k + Noticing

Outlasts == (Cardinality(Links) - 1) * MaxCycle < LOSS_COOLDOWN

LossInv ==
  /\ LossType
  /\ loss.pc = "send" => ~OnCooldown(loss.cur)
  /\ \A d \in Links : LongDue(d) /\ OnTheList(d) /\ (Outlasts => TurnsTaken(d))

LEMMA LossNumbers ==
  /\ LOSS_COOLDOWN \in Nat /\ CHECK_INTERVAL \in Nat /\ MaxCycle \in Nat
  /\ Stale = LOSS_COOLDOWN + MaxCycle /\ Unnoticed = -1
  /\ \A k \in Nat : k * MaxCycle \in Nat /\ (k + 1) * MaxCycle = k * MaxCycle + MaxCycle
  /\ 0 * MaxCycle = 0
<1>1. LOSS_COOLDOWN \in Nat /\ CHECK_INTERVAL \in Nat /\ MaxCycle \in Nat
  BY LossAssumption
<1> QED
  BY <1>1 DEF Stale, Unnoticed

(* There are as many others as devices, less one.                          *)
LEMMA OthersCounted ==
  ASSUME NEW d \in Links, NEW D \in SUBSET (Links \ {d})
  PROVE  /\ IsFiniteSet(D) /\ Cardinality(D) \in Nat /\ Cardinality(Links) - 1 \in Nat
         /\ Cardinality(D) <= Cardinality(Links) - 1
         /\ Cardinality(D) = Cardinality(Links) - 1 => D = Links \ {d}
<1>1. IsFiniteSet(Links) /\ Cardinality(Links) \in Nat
  BY LossAssumption, FS_CardinalityType
<1>2. IsFiniteSet(Links \ {d}) /\ Cardinality(Links \ {d}) = Cardinality(Links) - 1
  BY <1>1, FS_RemoveElement
<1>3. Cardinality(Links \ {d}) \in Nat
  BY <1>2, FS_CardinalityType
<1>4. IsFiniteSet(D) /\ Cardinality(D) <= Cardinality(Links \ {d})
      /\ (Cardinality(Links \ {d}) = Cardinality(D) => Links \ {d} = D)
  BY <1>2, FS_Subset
<1> QED
  BY <1>2, <1>3, <1>4, FS_CardinalityType

(* What was within the time before a step is within it after.              *)
LEMMA WithinGrows ==
  ASSUME NEW d \in Links, NEW t \in Nat, NEW u \in Nat,
         Within(d, t) \subseteq Within(d, u)'
  PROVE  Cardinality(Within(d, t)) <= Cardinality(Within(d, u)')
<1> DEFINE W == Within(d, u)'
<1>1. W \in SUBSET (Links \ {d}) /\ Within(d, t) \in SUBSET W
  BY DEF Within
<1>2. IsFiniteSet(W)
  BY <1>1, OthersCounted
<1> QED
  BY <1>1, <1>2, FS_Subset

(* Nobody who has been due for long is on cooldown.                        *)
LEMMA DueIsOffCooldown ==
  ASSUME LossType, NEW d \in Links, LongDue(d), Before(d) > 0
  PROVE  ~OnCooldown(d)
BY LossNumbers DEF LossType, LongDue, Before, OnCooldown

(* While the last cycle has noticed nobody, a device it found due has been *)
(* so for less than its cooldown, or it is its turn.                       *)
LEMMA TurnsAreBounded ==
  ASSUME LossType, NEW d \in Links, Outlasts, TurnsTaken(d)
  PROVE  Before(d) > (Cardinality(Links) - 1) * MaxCycle =>
           /\ Noticing = 0
           /\ \A e \in Links \ {d} : OnCooldown(e)
<1> DEFINE n == Cardinality(Links) - 1
           W == Within(d, n * MaxCycle)
<1> SUFFICES ASSUME Before(d) > n * MaxCycle
             PROVE  Noticing = 0 /\ \A e \in Links \ {d} : OnCooldown(e)
  OBVIOUS
<1>1. W \in SUBSET (Links \ {d})
  BY DEF Within
<1>2. n \in Nat /\ Cardinality(W) \in Nat /\ Cardinality(W) <= n
      /\ (Cardinality(W) = n => W = Links \ {d})
  BY <1>1, OthersCounted
<1>3. Cardinality(W) >= n + Noticing
  BY <1>2 DEF TurnsTaken
<1>4. Noticing = 0 /\ Cardinality(W) = n
  BY <1>2, <1>3 DEF Noticing
<1>5. n * MaxCycle < LOSS_COOLDOWN
  BY DEF Outlasts
<1>6. ASSUME NEW e \in Links \ {d} PROVE OnCooldown(e)
  <2>1. e \in W
    BY <1>2, <1>4
  <2>2. noticedAt[e] # Unnoticed /\ noticedAt[e] - sinceNow <= n * MaxCycle
    BY <2>1 DEF Within
  <2>3. noticedAt[e] \in Int /\ sinceNow \in Int /\ n * MaxCycle \in Int
    BY <1>2, LossNumbers DEF LossType
  <2> QED
    BY <1>5, <2>2, <2>3, LossNumbers DEF OnCooldown
<1> QED
  BY <1>4, <1>6

LEMMA InitLossInv == Init => LossInv
<1> SUFFICES ASSUME Init PROVE LossInv
  OBVIOUS
<1>1. LossInit
  BY DEF Init
<1>2. LossType
  BY <1>1, LossNumbers DEF LossInit, LossType, Resting, Conditions
<1>3. \A d \in Links : Before(d) = 0 /\ overdue[d] = 0
  BY <1>1 DEF LossInit, Before
<1>4. \A d \in Links : TurnsTaken(d)
  BY <1>3, LossNumbers DEF TurnsTaken
<1> QED
  BY <1>1, <1>2, <1>3, <1>4 DEF LossInit, LossInv, Resting, LongDue, OnTheList

LEMMA ElsewhereKeepsLossInv ==
  ASSUME LossInv, UNCHANGED lossVars
  PROVE  LossInv'
<1>1. \A d \in Links : Before(d)' = Before(d) /\ \A t \in Nat : Within(d, t)' = Within(d, t)
  BY DEF lossVars, Before, Within
<1>2. Noticing' = Noticing
  BY DEF lossVars, Noticing
<1>3. \A d \in Links : TurnsTaken(d) => TurnsTaken(d)'
  BY <1>1, <1>2, LossNumbers DEF TurnsTaken
<1> QED
  BY <1>1, <1>3 DEF LossInv, lossVars, LossType, LongDue, OnTheList, OnCooldown

(* A step that makes nobody due for longer, and counts no turn as begun.   *)
LEMMA QuietStepKeepsTurns ==
  ASSUME LossType, NEW d \in Links, TurnsTaken(d),
         Before(d)' = Before(d) \/ Before(d)' <= 0,
         Before(d)' > 0 => Noticing' <= Noticing,
         Before(d)' > 0 => \A t \in Nat : Within(d, t) \subseteq Within(d, t)',
         Before(d)' \in Int
  PROVE  TurnsTaken(d)'
<1> SUFFICES ASSUME NEW k \in Nat, Before(d)' > k * MaxCycle
             PROVE  Cardinality(Within(d, k * MaxCycle)') >= k + Noticing'
  BY LossNumbers DEF TurnsTaken
<1>1. k * MaxCycle \in Nat
  BY LossNumbers
<1>2. Before(d)' > 0 /\ Before(d)' = Before(d)
  BY <1>1
<1>3. Cardinality(Within(d, k * MaxCycle)) >= k + Noticing
  BY <1>2 DEF TurnsTaken
<1>4. Cardinality(Within(d, k * MaxCycle)) <= Cardinality(Within(d, k * MaxCycle)')
  BY <1>1, <1>2, WithinGrows
<1>5. /\ Within(d, k * MaxCycle) \in SUBSET (Links \ {d})
      /\ Within(d, k * MaxCycle)' \in SUBSET (Links \ {d})
  BY DEF Within
<1>6. /\ Cardinality(Within(d, k * MaxCycle)) \in Nat
      /\ Cardinality(Within(d, k * MaxCycle)') \in Nat
  BY <1>5, OthersCounted
<1>7. Noticing \in Nat /\ Noticing' \in Nat /\ Noticing' <= Noticing
  BY <1>2 DEF Noticing
<1> QED
  BY <1>3, <1>4, <1>6, <1>7

(* Steps at which neither a clock nor an entry changes.                    *)
LEMMA SameAges ==
  ASSUME UNCHANGED <<noticedAt, sinceNow>>, NEW d \in Links
  PROVE  /\ \A t \in Nat : Within(d, t)' = Within(d, t)
         /\ OnCooldown(d)' = OnCooldown(d)
         /\ overdue'[d] = overdue[d] => Before(d)' = Before(d)
BY DEF Within, OnCooldown, Before

LEMMA BeginKeepsLossInv == ASSUME LossInv, LossBegin PROVE LossInv'
<1> USE DEF LossInv
<1>1. LossType'
  <2>1. loss' = [pc |-> "walk", todo |-> {d \in Links : condition[d] # "fine"},
                 cur |-> NoLink, seen |-> condition]
    BY DEF LossBegin, Resting
  <2>2. {d \in Links : condition[d] # "fine"} \in SUBSET Links
    OBVIOUS
  <2>3. condition \in [Links -> Conditions]
    BY DEF LossType
  <2>4. loss' \in [pc: {"sleep", "walk", "send", "commit"}, todo: SUBSET Links,
                   cur: Links \cup {NoLink}, seen: [Links -> Conditions]]
        /\ loss'.pc = "walk"
    BY <2>1, <2>2, <2>3
  <2>5. sinceNow' \in Nat /\ sinceNow' <= MaxCycle
    BY LossNumbers DEF LossBegin
  <2> QED
    BY <2>4, <2>5 DEF LossType, LossBegin
<1>2. loss'.pc = "walk" /\ Noticing' = 0 /\ Noticing = 1
  BY DEF LossBegin, Resting, Noticing
<1>3. ASSUME NEW d \in Links PROVE LongDue(d)'
  BY <1>3 DEF LossBegin, LongDue
<1>4. ASSUME NEW d \in Links PROVE OnTheList(d)'
  <2>1. loss'.seen = condition /\ loss'.todo = {e \in Links : condition[e] # "fine"}
    BY DEF LossBegin, Resting
  <2>2. overdue'[d] \in Nat /\ sinceNow' = 0
    BY <1>1 DEF LossType, LossBegin
  <2>3. Before(d)' > 0 => overdue[d] > 0
    BY <2>2 DEF Before, LossBegin
  <2>4. Before(d)' > 0 => condition[d] = "lossy"
    BY <1>4, <2>3 DEF LongDue
  <2> QED
    BY <1>4, <2>1, <2>4 DEF OnTheList
<1>5. ASSUME NEW d \in Links, TurnsTaken(d) PROVE TurnsTaken(d)'
  <2> SUFFICES ASSUME NEW k \in Nat, Before(d)' > k * MaxCycle
               PROVE  Cardinality(Within(d, k * MaxCycle)') >= k
    BY <1>2, LossNumbers DEF TurnsTaken
  <2>0. Within(d, k * MaxCycle)' \in SUBSET (Links \ {d})
    BY DEF Within
  <2>1. Cardinality(Within(d, k * MaxCycle)') \in Nat
    BY <2>0, OthersCounted
  <2>2. CASE k = 0
    BY <2>1, <2>2
  <2>3. CASE k # 0
    <3> DEFINE j == k - 1
    <3>1. j \in Nat /\ k = j + 1
      BY <2>3
    <3> HIDE DEF j
    <3>2. j * MaxCycle \in Nat /\ k * MaxCycle = j * MaxCycle + MaxCycle
      BY <3>1, LossNumbers
    <3>3. overdue[d] \in Nat /\ sinceNow \in Nat /\ sinceNow <= MaxCycle /\ MaxCycle \in Nat
          /\ sinceNow' = 0 /\ overdue' = overdue /\ noticedAt' = noticedAt
      BY LossNumbers DEF LossType, LossBegin
    <3>4. Before(d) > j * MaxCycle
      BY <3>2, <3>3 DEF Before
    <3>5. Cardinality(Within(d, j * MaxCycle)) >= j + 1
      BY <1>2, <1>5, <3>1, <3>4 DEF TurnsTaken
    <3>6. Within(d, j * MaxCycle) \subseteq Within(d, k * MaxCycle)'
      <4> SUFFICES ASSUME NEW e \in Within(d, j * MaxCycle)
                   PROVE  e \in Within(d, k * MaxCycle)'
        OBVIOUS
      <4>1. e \in Links \ {d} /\ noticedAt[e] # Unnoticed
            /\ noticedAt[e] - sinceNow <= j * MaxCycle
        BY DEF Within
      <4>2. noticedAt[e] \in Int
        BY <4>1, LossNumbers DEF LossType
      <4>3. noticedAt[e] - 0 <= k * MaxCycle
        BY <3>2, <3>3, <4>1, <4>2
      <4> QED
        BY <3>3, <4>1, <4>3 DEF Within
    <3>7. Cardinality(Within(d, j * MaxCycle)) <= Cardinality(Within(d, k * MaxCycle)')
      BY <3>2, <3>3, <3>6, WithinGrows
    <3>8. Within(d, j * MaxCycle) \in SUBSET (Links \ {d})
      BY DEF Within
    <3>9. Cardinality(Within(d, j * MaxCycle)) \in Nat
      BY <3>8, OthersCounted
    <3> QED
      BY <2>1, <3>1, <3>5, <3>7, <3>9
  <2> QED
    BY <2>2, <2>3
<1> QED
  BY <1>1, <1>2, <1>3, <1>4, <1>5 DEF Outlasts

(* The observers, and the memory at a restart, begin anew.                 *)
LEMMA NobodyDueKeepsLossInv ==
  ASSUME LossInv, LossType', loss'.pc # "send", \A d \in Links : overdue'[d] = 0,
         sinceNow' \in Nat
  PROVE  LossInv'
<1>1. \A d \in Links : Before(d)' <= 0 /\ Before(d)' \in Int
  BY DEF Before
<1>2. ASSUME NEW d \in Links PROVE TurnsTaken(d)'
  <2> SUFFICES ASSUME NEW k \in Nat, Before(d)' > k * MaxCycle PROVE FALSE
    BY LossNumbers DEF TurnsTaken
  <2>1. k * MaxCycle \in Nat
    BY LossNumbers
  <2> QED
    BY <1>1, <2>1
<1> QED
  BY <1>1, <1>2 DEF LossInv, LongDue, OnTheList

LEMMA SkipKeepsLossInv == ASSUME LossInv, NEW s \in Links, LossSkip(s) PROVE LossInv'
<1> USE DEF LossInv
<1>1. LossType' /\ loss.pc = "walk" /\ loss'.pc = "walk"
  BY DEF LossType, LossSkip
<1>2. ASSUME NEW d \in Links PROVE LongDue(d)' /\ OnTheList(d)'
  <2>1. Before(d)' = Before(d) /\ OnCooldown(s)' = OnCooldown(s)
    BY <1>2, SameAges DEF LossSkip
  <2>2. LongDue(d)'
    BY <1>2 DEF LongDue, LossSkip
  <2>3. ASSUME Before(d) > 0 PROVE d # s
    BY <1>1, <1>2, <2>3, DueIsOffCooldown DEF OnTheList, LossSkip
  <2>4. loss'.todo = loss.todo \ {s} /\ loss'.seen = loss.seen
    BY DEF LossSkip, LossType
  <2>5. OnTheList(d)
    BY <1>2
  <2>6. OnTheList(d)'
    BY <1>1, <1>2, <2>1, <2>3, <2>4, <2>5 DEF OnTheList
  <2> QED
    BY <2>2, <2>6
<1>3. ASSUME NEW d \in Links, TurnsTaken(d) PROVE TurnsTaken(d)'
  BY <1>1, <1>3, SameAges, QuietStepKeepsTurns DEF LossSkip, Noticing, LossType, Before
<1> QED
  BY <1>1, <1>2, <1>3 DEF Outlasts

LEMMA NotifyKeepsLossInv == ASSUME LossInv, NEW s \in Links, LossNotify(s) PROVE LossInv'
<1> USE DEF LossInv
<1>1. LossType' /\ loss.pc = "walk" /\ loss'.pc = "send" /\ loss'.cur = s
      /\ loss'.todo = loss.todo \ {s} /\ loss'.seen = loss.seen
  BY DEF LossType, LossNotify
<1>2. ~OnCooldown(loss.cur)'
  BY <1>1, SameAges DEF LossNotify, OnCooldown
<1>3. ASSUME NEW d \in Links PROVE LongDue(d)' /\ OnTheList(d)'
  <2>1. Before(d)' = Before(d)
    BY <1>3, SameAges DEF LossNotify
  <2>2. LongDue(d)'
    BY <1>3 DEF LongDue, LossNotify
  <2>3. OnTheList(d)
    BY <1>3
  <2>4. OnTheList(d)'
    BY <1>1, <1>3, <2>1, <2>3 DEF OnTheList
  <2> QED
    BY <2>2, <2>4
<1>4. ASSUME NEW d \in Links, TurnsTaken(d) PROVE TurnsTaken(d)'
  BY <1>1, <1>4, SameAges, QuietStepKeepsTurns DEF LossNotify, Noticing, LossType, Before
<1> QED
  BY <1>1, <1>2, <1>3, <1>4 DEF Outlasts

(* The one step that begins a turn: the device in hand was not on cooldown *)
(* and is on cooldown now.                                                 *)
LEMMA SentKeepsLossInv == ASSUME LossInv, LossSent PROVE LossInv'
<1> USE DEF LossInv
<1>0. PICK s \in Links : s = loss.cur
  BY DEF LossType, LossSent
<1>1. /\ s \in Links /\ loss.pc = "send" /\ ~OnCooldown(s)
      /\ loss'.pc = "commit" /\ loss'.cur = s /\ loss'.todo = loss.todo /\ loss'.seen = loss.seen
      /\ noticedAt' = [noticedAt EXCEPT ![s] = sinceNow] /\ overdue' = [overdue EXCEPT ![s] = 0]
      /\ sinceNow' = sinceNow /\ condition' = condition
  BY <1>0 DEF LossType, LossSent
<1>2. LossType'
  <2>1. noticedAt' \in [Links -> {Unnoticed} \cup Nat] /\ overdue' \in [Links -> Nat]
    BY <1>1 DEF LossType
  <2>2. loss' = [loss EXCEPT !.pc = "commit"]
    BY DEF LossSent
  <2>3. loss' \in [pc: {"sleep", "walk", "send", "commit"}, todo: SUBSET Links,
                   cur: Links \cup {NoLink}, seen: [Links -> Conditions]]
    BY <2>2 DEF LossType
  <2> QED
    BY <1>1, <2>1, <2>3 DEF LossType
<1>3. Noticing = 0 /\ Noticing' = 1
  BY <1>1 DEF Noticing
<1>4. overdue'[s] = 0 /\ Before(s)' <= 0 /\ Before(s)' \in Int
  BY <1>1 DEF Before, LossType
<1>5. ASSUME NEW d \in Links PROVE LongDue(d)' /\ OnTheList(d)'
  <2>1. CASE d = s
    BY <1>4, <2>1 DEF LongDue, OnTheList, Before
  <2>2. CASE d # s
    <3>1. overdue'[d] = overdue[d] /\ noticedAt'[d] = noticedAt[d] /\ Before(d)' = Before(d)
      BY <1>1, <1>5, <2>2 DEF LossType, Before
    <3>2. LongDue(d) /\ OnTheList(d)
      BY <1>5
    <3>3. LongDue(d)'
      BY <1>1, <3>1, <3>2 DEF LongDue
    <3>4. OnTheList(d)'
      BY <1>0, <1>1, <2>2, <3>1, <3>2 DEF OnTheList
    <3> QED
      BY <3>3, <3>4
  <2> QED
    BY <2>1, <2>2
<1>6. ASSUME NEW d \in Links, Outlasts, TurnsTaken(d) PROVE TurnsTaken(d)'
  <2> SUFFICES ASSUME NEW k \in Nat, Before(d)' > k * MaxCycle
               PROVE  Cardinality(Within(d, k * MaxCycle)') >= k + 1
    BY <1>3, LossNumbers DEF TurnsTaken
  <2> DEFINE n == Cardinality(Links) - 1
             t == k * MaxCycle
             W == Within(d, t)
  <2>1. t \in Nat
    BY LossNumbers
  <2>2. d # s
    BY <1>4, <2>1 DEF Before
  <2>3. Before(d)' = Before(d)
    BY <1>1, <1>6, <2>2 DEF Before, LossType
  <2>4. n \in Nat /\ n * MaxCycle \in Nat /\ Before(d) \in Int
    <3>1. {} \in SUBSET (Links \ {d})
      OBVIOUS
    <3>2. n \in Nat
      BY <1>6, <3>1, OthersCounted
    <3>3. Before(d) \in Int
      BY <1>6 DEF LossType, Before
    <3> QED
      BY <3>2, <3>3, LossNumbers
  <2>5. ~(Before(d) > n * MaxCycle)
    BY <1>1, <1>6, <2>2, TurnsAreBounded
  <2>6. t < LOSS_COOLDOWN
    BY <1>6, <2>1, <2>3, <2>4, <2>5, LossNumbers DEF Outlasts
  <2>7. Cardinality(W) >= k
    BY <1>3, <1>6, <2>3 DEF TurnsTaken
  <2>8. W \in SUBSET (Links \ {d}) /\ W \cup {s} \in SUBSET (Links \ {d})
    BY <1>1, <2>2 DEF Within
  <2>9. s \notin W
    <3>1. noticedAt[s] = Unnoticed \/ noticedAt[s] - sinceNow >= LOSS_COOLDOWN
      <4>1. noticedAt[s] \in Int /\ sinceNow \in Int
        BY <1>1, LossNumbers DEF LossType
      <4>2. LOSS_COOLDOWN \in Int /\ ~OnCooldown(s)
        BY <1>1, LossNumbers
      <4> QED
        BY <4>1, <4>2 DEF OnCooldown
    <3>2. noticedAt[s] \in Int /\ sinceNow \in Int
      BY <1>1, LossNumbers DEF LossType
    <3>3. noticedAt[s] # Unnoticed => ~(noticedAt[s] - sinceNow <= t)
      BY <2>1, <2>6, <3>1, <3>2, LossNumbers
    <3> QED
      BY <3>3 DEF Within
  <2>10. W \cup {s} \subseteq Within(d, t)'
    <3> SUFFICES ASSUME NEW e \in W \cup {s} PROVE e \in Within(d, t)'
      OBVIOUS
    <3>1. e \in Links \ {d}
      BY <2>8
    <3>2. CASE e = s
      <4>1. noticedAt'[s] = sinceNow /\ sinceNow \in Nat
        BY <1>1 DEF LossType
      <4> QED
        BY <1>1, <2>1, <3>1, <3>2, <4>1, LossNumbers DEF Within
    <3>3. CASE e # s
      <4>1. noticedAt'[e] = noticedAt[e]
        BY <1>1, <3>1, <3>3 DEF LossType
      <4> QED
        BY <1>1, <3>1, <3>3, <4>1 DEF Within
    <3> QED
      BY <3>2, <3>3
  <2>11. Cardinality(W \cup {s}) = Cardinality(W) + 1 /\ Cardinality(W) \in Nat
    BY <1>6, <2>8, <2>9, OthersCounted, FS_AddElement
  <2>12. Within(d, t)' \in SUBSET (Links \ {d})
    BY DEF Within
  <2>13. IsFiniteSet(Within(d, t)') /\ Cardinality(Within(d, t)') \in Nat
    BY <1>6, <2>12, OthersCounted
  <2>14. Cardinality(W \cup {s}) <= Cardinality(Within(d, t)')
    BY <2>10, <2>13, FS_Subset
  <2> QED
    BY <2>7, <2>11, <2>13, <2>14
<1> QED
  BY <1>1, <1>2, <1>5, <1>6 DEF Outlasts

(* The cycle goes on after its commit, or ends.                            *)
LEMMA CommitKeepsLossInv ==
  ASSUME LossInv, LossCommitted \/ LossCommitFails \/ LossEnd
  PROVE  LossInv'
<1> USE DEF LossInv
<1>1. LossType' /\ loss'.pc # "send"
  <2>1. CASE LossCommitted
    BY <2>1 DEF LossType, LossCommitted
  <2>2. CASE LossCommitFails \/ LossEnd
    BY <2>2 DEF LossType, LossCommitFails, LossEnd, Resting, Conditions
  <2> QED
    BY <2>1, <2>2
<1>2. UNCHANGED <<condition, noticedAt, sinceNow, overdue>>
  BY DEF LossCommitted, LossCommitFails, LossEnd
<1>3. ASSUME NEW d \in Links
      PROVE  /\ Before(d)' = Before(d) /\ Before(d)' \in Int
             /\ \A t \in Nat : Within(d, t)' = Within(d, t)
             /\ LongDue(d)' /\ OnTheList(d)'
  <2>1. Before(d)' = Before(d) /\ \A t \in Nat : Within(d, t)' = Within(d, t)
    BY <1>2, <1>3, SameAges
  <2>2. LongDue(d)'
    BY <1>2, <1>3 DEF LongDue
  <2>3. OnTheList(d)'
    <3>1. CASE LossCommitted
      <4>1. loss.pc = "commit" /\ loss'.seen = loss.seen /\ loss'.todo = loss.todo
        BY <3>1 DEF LossCommitted, LossType
      <4>2. OnTheList(d)
        BY <1>3
      <4> QED
        BY <2>1, <4>1, <4>2 DEF OnTheList
    <3>2. CASE LossCommitFails \/ LossEnd
      <4>1. loss'.pc = "sleep"
        BY <3>2 DEF LossCommitFails, LossEnd, Resting
      <4> QED
        BY <4>1 DEF OnTheList
    <3> QED
      BY <3>1, <3>2
  <2>5. Before(d)' \in Int
    BY <1>3, <2>1 DEF Before, LossType
  <2> QED
    BY <2>1, <2>2, <2>3, <2>5
<1>4. ASSUME NEW d \in Links PROVE Before(d) > 0 => Noticing' <= Noticing
  <2>1. CASE LossEnd
    BY <1>4, <2>1 DEF LossEnd, OnTheList
  <2>2. CASE LossCommitted \/ LossCommitFails
    <3>1. Noticing = 1
      BY <2>2 DEF LossCommitted, LossCommitFails, Noticing
    <3> QED
      BY <3>1 DEF Noticing
  <2> QED
    BY <2>1, <2>2
<1>5. ASSUME NEW d \in Links, TurnsTaken(d) PROVE TurnsTaken(d)'
  BY <1>3, <1>4, <1>5, QuietStepKeepsTurns
<1> QED
  BY <1>1, <1>3, <1>5 DEF Outlasts

(* Time adds to all ages alike, or they are past every cooldown.           *)
LEMMA TickKeepsLossInv == ASSUME LossInv, LossTick PROVE LossInv'
<1> USE DEF LossInv
<1>1. /\ sinceNow \in Nat /\ sinceNow' = sinceNow + 1 /\ sinceNow + 1 <= MaxCycle
      /\ loss' = loss /\ condition' = condition
  BY LossNumbers DEF LossTick, LossType
<1>2. ASSUME NEW d \in Links
      PROVE  /\ noticedAt[d] \in {Unnoticed} \cup Nat /\ overdue[d] \in Nat
             /\ noticedAt'[d] = IF noticedAt[d] \in {Unnoticed, Stale} THEN noticedAt[d]
                                ELSE noticedAt[d] + 1
             /\ overdue'[d] = IF Due(d) THEN overdue[d] + 1 ELSE 0
  BY <1>2 DEF LossTick, LossType
<1>3. LossType'
  <2>1. \A d \in Links : noticedAt'[d] \in {Unnoticed} \cup Nat /\ overdue'[d] \in Nat
    BY <1>2, LossNumbers
  <2>2. /\ noticedAt' = [d \in Links |-> noticedAt'[d]]
        /\ overdue' = [d \in Links |-> overdue'[d]]
    BY DEF LossTick
  <2>3. noticedAt' \in [Links -> {Unnoticed} \cup Nat] /\ overdue' \in [Links -> Nat]
    BY <2>1, <2>2
  <2> QED
    BY <1>1, <2>3 DEF LossType
<1>4. ASSUME NEW d \in Links
      PROVE  Before(d)' \in Int /\ (Before(d)' = Before(d) \/ Before(d)' <= 0)
  BY <1>1, <1>2, <1>4 DEF Before
<1>5. ASSUME NEW d \in Links PROVE LongDue(d)'
  <2>1. CASE Due(d)
    <3>1. /\ condition[d] = "lossy" /\ overdue'[d] = overdue[d] + 1
          /\ noticedAt[d] = Unnoticed \/ noticedAt[d] >= LOSS_COOLDOWN
      BY <1>2, <1>5, <2>1 DEF Due
    <3>2. noticedAt[d] \in {Unnoticed, Stale} \/ noticedAt[d] >= LOSS_COOLDOWN + overdue[d]
      BY <1>2, <1>5, <3>1, LossNumbers DEF LongDue
    <3>3. noticedAt'[d] \in {Unnoticed, Stale} \/ noticedAt'[d] >= LOSS_COOLDOWN + overdue'[d]
      BY <1>2, <1>5, <3>1, <3>2, LossNumbers
    <3> QED
      BY <1>1, <3>1, <3>3 DEF LongDue
  <2>2. CASE ~Due(d)
    BY <1>2, <1>5, <2>2 DEF LongDue
  <2> QED
    BY <2>1, <2>2
<1>6. ASSUME NEW d \in Links PROVE OnTheList(d)'
  <2>1. OnTheList(d)
    BY <1>6
  <2> QED
    BY <1>1, <1>4, <1>6, <2>1 DEF OnTheList
<1>7. ASSUME NEW e \in Links
      PROVE  /\ noticedAt'[e] = Unnoticed <=> noticedAt[e] = Unnoticed
             /\ noticedAt'[e] - sinceNow' <= noticedAt[e] - sinceNow
             /\ ~OnCooldown(e) => ~OnCooldown(e)'
  BY <1>1, <1>2, <1>7, LossNumbers DEF OnCooldown
<1>8. loss'.pc = "send" => ~OnCooldown(loss.cur)'
  BY <1>1, <1>7 DEF LossType, OnCooldown
<1>9. ASSUME NEW d \in Links, NEW t \in Nat
      PROVE  Within(d, t) \subseteq Within(d, t)'
  <2> SUFFICES ASSUME NEW e \in Within(d, t) PROVE e \in Within(d, t)'
    OBVIOUS
  <2>1. e \in Links \ {d} /\ noticedAt[e] # Unnoticed /\ noticedAt[e] - sinceNow <= t
    BY DEF Within
  <2>2. noticedAt[e] \in Int /\ noticedAt'[e] \in Int /\ sinceNow \in Int /\ sinceNow' \in Int
    BY <1>1, <1>2, <2>1, LossNumbers
  <2>3. noticedAt'[e] # Unnoticed /\ noticedAt'[e] - sinceNow' <= t
    BY <1>7, <2>1, <2>2
  <2> QED
    BY <2>1, <2>3 DEF Within
<1>10. Noticing' = Noticing /\ Noticing \in Nat
  BY <1>1 DEF Noticing
<1>11. ASSUME NEW d \in Links, TurnsTaken(d) PROVE TurnsTaken(d)'
  BY <1>4, <1>9, <1>10, <1>11, QuietStepKeepsTurns
<1> QED
  BY <1>1, <1>3, <1>5, <1>6, <1>8, <1>11 DEF Outlasts

LEMMA ChangeKeepsLossInv ==
  ASSUME LossInv, NEW c \in Links, ConditionChange(c)
  PROVE  LossInv'
<1> USE DEF LossInv
<1>1. /\ \E to \in Conditions : condition' = [condition EXCEPT ![c] = to]
      /\ overdue' = [overdue EXCEPT ![c] = 0]
      /\ loss' = loss /\ noticedAt' = noticedAt /\ sinceNow' = sinceNow
  BY DEF ConditionChange
<1>2. LossType'
  BY <1>1 DEF LossType
<1>3. ASSUME NEW d \in Links
      PROVE  /\ Before(d)' \in Int
             /\ d = c => overdue'[d] = 0 /\ Before(d)' <= 0
             /\ d # c => overdue'[d] = overdue[d] /\ condition'[d] = condition[d]
                         /\ Before(d)' = Before(d)
  BY <1>1, <1>3 DEF LossType, Before
<1>4. ASSUME NEW d \in Links PROVE LongDue(d)' /\ OnTheList(d)'
  <2>1. LongDue(d) /\ OnTheList(d)
    BY <1>4
  <2>2. LongDue(d)'
    BY <1>1, <1>3, <1>4, <2>1 DEF LongDue
  <2>3. OnTheList(d)'
    BY <1>1, <1>3, <1>4, <2>1 DEF OnTheList
  <2> QED
    BY <2>2, <2>3
<1>5. Noticing' = Noticing /\ Noticing \in Nat
  BY <1>1 DEF Noticing
<1>6. ASSUME NEW d \in Links, TurnsTaken(d) PROVE TurnsTaken(d)'
  <2>1. \A t \in Nat : Within(d, t)' = Within(d, t)
    BY <1>1 DEF Within
  <2> QED
    BY <1>3, <1>5, <1>6, <2>1, QuietStepKeepsTurns
<1>7. loss'.pc = "send" => ~OnCooldown(loss.cur)'
  BY <1>1 DEF OnCooldown
<1> QED
  BY <1>1, <1>2, <1>4, <1>6, <1>7 DEF Outlasts

LEMMA LossPartKeepsLossInv == ASSUME LossInv, LossPart PROVE LossInv'
<1>1. CASE LossUnread
  <2>1. LossType' /\ loss'.pc = "sleep" /\ sinceNow' = 0 /\ \A d \in Links : overdue'[d] = 0
    BY <1>1, LossNumbers DEF LossUnread, LossInv, LossType
  <2> QED
    BY <2>1, NobodyDueKeepsLossInv
<1>2. CASE LossBegin \/ LossSent \/ LossTick
  BY <1>2, BeginKeepsLossInv, SentKeepsLossInv, TickKeepsLossInv
<1>3. CASE LossCommitted \/ LossCommitFails \/ LossEnd
  BY <1>3, CommitKeepsLossInv
<1>4. CASE \E d \in Links : LossSkip(d) \/ LossNotify(d) \/ ConditionChange(d)
  BY <1>4, SkipKeepsLossInv, NotifyKeepsLossInv, ChangeKeepsLossInv
<1> QED
  BY <1>1, <1>2, <1>3, <1>4 DEF LossPart, LossNext

LEMMA NextKeepsLossInv == LossInv /\ [Next]_vars => LossInv'
<1> SUFFICES ASSUME LossInv, [Next]_vars PROVE LossInv'
  OBVIOUS
<1>1. CASE ListenerPart \/ DiscoveryPart \/ RatesPart \/ ChecksPart \/ ExplorerPart
          \/ FanoutPart \/ WatchdogPart
  BY <1>1, ElsewhereKeepsLossInv
     DEF ListenerPart, DiscoveryPart, RatesPart, ChecksPart, ExplorerPart, FanoutPart,
         WatchdogPart
<1>2. CASE Restart
  <2>1. LossRestart
    BY <1>2 DEF Restart
  <2>2. loss' = Resting /\ condition' = condition /\ sinceNow' = 0
        /\ noticedAt' = [d \in Links |-> Unnoticed] /\ overdue' = [d \in Links |-> 0]
    BY <2>1 DEF LossRestart
  <2>3. LossType' /\ loss'.pc = "sleep" /\ \A d \in Links : overdue'[d] = 0
    BY <2>2, LossNumbers DEF Resting, LossInv, LossType, Conditions
  <2> QED
    BY <2>2, <2>3, NobodyDueKeepsLossInv
<1>3. CASE UNCHANGED vars
  BY <1>3, ElsewhereKeepsLossInv DEF vars
<1> QED
  BY <1>1, <1>2, <1>3, LossPartKeepsLossInv DEF Next

(* A device that loses packets, and is not excused, is notified about in   *)
(* time, for any number of devices, any interval and any cooldown that     *)
(* outlasts the cycles, even if every commit fails.                        *)
THEOREM DegradedIsNoticedInTime == Spec => []DegradedInTime
<1>1. LossInv => DegradedInTime
  <2> SUFFICES ASSUME LossInv, Outlasts, NEW d \in Links
               PROVE  overdue[d] <= (Cardinality(Links) + 1) * MaxCycle
    BY DEF DegradedInTime, Outlasts
  <2> DEFINE n == Cardinality(Links) - 1
             W == Within(d, (n + 1) * MaxCycle)
  <2>1. W \in SUBSET (Links \ {d})
    BY DEF Within
  <2>2. n \in Nat /\ Cardinality(W) \in Nat /\ Cardinality(W) <= n
    BY <2>1, OthersCounted
  <2>3. Noticing \in Nat
    BY DEF Noticing
  <2>4. ~(Before(d) > (n + 1) * MaxCycle)
    <3> SUFFICES ASSUME Before(d) > (n + 1) * MaxCycle PROVE FALSE
      OBVIOUS
    <3>1. Cardinality(W) >= n + 1 + Noticing
      BY <2>2 DEF LossInv, TurnsTaken
    <3> QED
      BY <2>2, <2>3, <3>1
  <2>5. overdue[d] \in Nat /\ sinceNow \in Nat /\ sinceNow <= MaxCycle
    BY DEF LossInv, LossType
  <2>6. (n + 1) * MaxCycle \in Nat /\ (n + 1 + 1) * MaxCycle = (n + 1) * MaxCycle + MaxCycle
        /\ MaxCycle \in Nat
    BY <2>2, LossNumbers
  <2>7. overdue[d] <= (n + 1 + 1) * MaxCycle
    BY <2>4, <2>5, <2>6 DEF Before
  <2>8. n + 1 + 1 = Cardinality(Links) + 1
    BY LossAssumption, FS_CardinalityType
  <2> QED
    BY <2>7, <2>8
<1> QED
  BY <1>1, InitLossInv, NextKeepsLossInv, PTL DEF Spec


-----------------------------------------------------------------------------
(* The types of both.  How full and how late a receiver gets follows from  *)
(* what has been proved of its alarms; the chunk is empty where none is    *)
(* under way, and a link in hand is on nobody's list any more.             *)
Entry == [host: Hosts, severity: 0 .. 7]

ReceiverFits ==
  /\ stage \in {"sleep", "map", "flush", "commit", "alert", "send"}
  /\ stage \in {"sleep", "map", "flush"} => rows = <<>>
  /\ Len(buffer) <= BUFFER_HARD_CAP /\ Len(rows) <= CHUNK
  /\ lag <= MaxLag + MaxSend /\ spent <= MaxSend

ReceiverTyped ==
  /\ buffer \in Seq(Entry) /\ Len(buffer) <= BUFFER_HARD_CAP
  /\ rows \in Seq(Entry) /\ Len(rows) <= CHUNK
  /\ stage \in {"sleep", "map", "flush", "commit", "alert", "send"}
  /\ stage = "sleep" => rows = <<>>
  /\ alertedAt \in [Hosts -> {NotAlerted} \cup 0 .. Saturated]
  /\ lag \in 0 .. MaxLag + MaxSend /\ spent \in 0 .. MaxSend

(* Whatever a datagram carries is read as one of the eight severities.     *)
LEMMA MessagesAreEntries == Messages \subseteq Entry
<1>1. \A pri : SyslogSeverity(pri) \in 0 .. 7
  BY DEF SyslogSeverity
<1>2. ASSUME NEW version, NEW generic PROVE TrapSeverity(version, generic) \in 0 .. 7
  <2>1. DOMAIN TRAP_NAMES = 1 .. 6 /\ \A k \in 1 .. 6 : TRAP_NAMES[k] \in 0 .. 7
    BY DEF TRAP_NAMES
  <2> QED
    BY <2>1 DEF TrapSeverity
<1> QED
  BY <1>1, <1>2, DatagramsAssumption DEF Messages, Parsed, ParsedSyslog, ParsedTrap, Entry

(* A full chunk is no longer than it may be, nor the buffer it leaves.     *)
LEMMA CutFits ==
  ASSUME NEW S, NEW s \in Seq(S), NEW chunk \in Nat \ {0}
  PROVE  LET first == SubSeq(s, 1, IF Len(s) < chunk THEN Len(s) ELSE chunk)
         IN  Len(first) <= chunk
<1>1. Len(s) \in Nat
  OBVIOUS
<1>2. CASE Len(s) < chunk
  BY <1>1, <1>2
<1>3. CASE ~ (Len(s) < chunk)
  BY <1>1, <1>3
<1> QED
  BY <1>2, <1>3

(* No lag is longer than one alarm for each host takes.                    *)
LEMMA LagFits ==
  ASSUME PaceInv
  PROVE  /\ stage \in {"alert", "send"} => lag <= MaxLag + MaxSend
         /\ MaxLag + MaxSend \in Nat
<1> DEFINE all == Cardinality(Hosts)
<1>1. Recent \in SUBSET Hosts
  BY DEF Recent
<1>2. /\ Cardinality(Recent) \in Nat /\ all \in Nat /\ Cardinality(Recent) <= all
      /\ MaxSend \in Nat
  BY <1>1, PaceNumbers, FS_Subset, ListenerAssumption
<1>3. /\ Cardinality(Recent) * MaxSend <= all * MaxSend
      /\ Cardinality(Recent) * MaxSend \in Nat /\ all * MaxSend \in Nat
  BY <1>2, Products
<1>4. MaxLag + MaxSend = all * MaxSend
  BY <1>2 DEF MaxLag
<1>5. lag \in Nat /\ spent \in Nat
  BY DEF PaceInv, PaceType
<1> QED
  BY <1>2, <1>3, <1>4, <1>5 DEF PaceInv, LagEarned

LEMMA InitReceiverFits == Init => ReceiverFits
<1> SUFFICES ASSUME Init PROVE ReceiverFits
  OBVIOUS
<1>1. PaceInv
  BY InitPaceInv
<1>2. ListenerInit
  BY DEF Init
<1> QED
  BY <1>1, <1>2, LagFits, ListenerAssumption DEF ListenerInit, ReceiverFits

LEMMA ListenerKeepsReceiverFits ==
  ASSUME ListenerInv, PaceInv, PaceInv', ReceiverFits, ListenerNext
  PROVE  ReceiverFits'
<1> USE DEF ReceiverFits
<1>0. /\ BUFFER_HARD_CAP \in Nat \ {0} /\ CHUNK \in Nat \ {0} /\ MaxSend \in Nat
      /\ MaxLag + MaxSend \in Nat
      /\ stage' \in {"alert", "send"} => lag' <= MaxLag + MaxSend
      /\ lag \in Nat /\ spent \in Nat
      /\ buffer \in Seq(Messages) /\ rows \in Seq(Messages)
  <2>1. stage' \in {"alert", "send"} => lag' <= MaxLag + MaxSend
    <3>1. PaceInv' => (stage \in {"alert", "send"} => lag <= MaxLag + MaxSend)'
      BY LagFits, PTL
    <3> QED
      BY <3>1
  <2> QED
    BY <2>1, ListenerAssumption, LagFits DEF ListenerInv, ListenerType, PaceInv, PaceType
<1>1. ASSUME NEW d \in Datagrams, Receive(d) PROVE ReceiverFits'
  <2>1. UNCHANGED <<stage, rows, lag, spent>>
    BY <1>1 DEF Receive, alarms
  <2>2. Len(buffer') <= BUFFER_HARD_CAP
    <3>1. CASE Len(buffer) < BUFFER_HARD_CAP /\ buffer' = Append(buffer, Parsed(d))
      <4>1. Len(buffer') = Len(buffer) + 1 /\ Len(buffer) \in Nat
        BY <1>0, <3>1 DEF Messages
      <4> QED
        BY <1>0, <3>1, <4>1
    <3>2. CASE UNCHANGED buffer
      BY <3>2
    <3> QED
      BY <1>1, <3>1, <3>2 DEF Receive
  <2> QED
    BY <2>1, <2>2
<1>2. CASE WakeUp \/ MapLoaded \/ MapFails \/ Delivered
  BY <1>2 DEF WakeUp, MapLoaded, MapFails, Delivered, GoesTo, alarms
<1>3. CASE Cut
  <2>1. Len(rows') <= CHUNK
    BY <1>0, <1>3, CutFits DEF Cut
  <2>2. Len(buffer') <= Len(buffer) /\ Len(buffer) \in Nat /\ Len(buffer') \in Nat
    <3>1. /\ rows' \in Seq(Messages) /\ buffer' \in Seq(Messages)
          /\ Len(rows') + Len(buffer') = Len(buffer)
      BY <1>0, <1>3, CutLengths DEF Cut
    <3> QED
      BY <1>0, <3>1
  <2>3. stage' = "commit" /\ UNCHANGED <<lag, spent>>
    BY <1>3 DEF Cut, alarms
  <2> QED
    BY <1>0, <2>1, <2>2, <2>3
<1>4. CASE Stored
  BY <1>0, <1>4 DEF Stored
<1>5. CASE CommitFails
  BY <1>0, <1>5 DEF CommitFails, alarms
<1>6. CASE NextRow
  <2>1. rows' = Tail(rows) /\ rows # <<>> /\ UNCHANGED buffer /\ stage' \in {"alert", "send"}
        /\ spent' \in {0, spent} /\ lag' = lag
    BY <1>6 DEF NextRow
  <2>2. Len(rows') = Len(rows) - 1 /\ Len(rows) \in Nat
    BY <1>0, <2>1
  <2> QED
    BY <1>0, <2>1, <2>2
<1>7. CASE AlertsDone
  BY <1>7 DEF AlertsDone
<1>8. CASE LoopDone
  BY <1>8 DEF LoopDone, alarms
<1>9. CASE ListenerTick
  <2>1. UNCHANGED <<buffer, rows, stage>>
    BY <1>9 DEF ListenerTick
  <2>2. spent' <= MaxSend
    BY <1>0, <1>9 DEF ListenerTick
  <2>3. stage # "send" => lag' = lag
    BY <1>9 DEF ListenerTick
  <2> QED
    BY <1>0, <2>1, <2>2, <2>3
<1> QED
  BY <1>1, <1>2, <1>3, <1>4, <1>5, <1>6, <1>7, <1>8, <1>9 DEF ListenerNext, LoopStep

LEMMA NextKeepsReceiverFits ==
  ListenerInv /\ PaceInv /\ PaceInv' /\ ReceiverFits /\ [Next]_vars => ReceiverFits'
<1> SUFFICES ASSUME ListenerInv, PaceInv, PaceInv', ReceiverFits, [Next]_vars
             PROVE  ReceiverFits'
  OBVIOUS
<1>1. CASE ListenerPart
  BY <1>1, ListenerKeepsReceiverFits DEF ListenerPart
<1>2. CASE UNCHANGED listenerVars
  BY <1>2 DEF ReceiverFits, listenerVars, alarms
<1>3. CASE DiscoveryPart \/ RatesPart \/ ChecksPart \/ LossPart \/ ExplorerPart
          \/ FanoutPart \/ WatchdogPart
  BY <1>2, <1>3
     DEF DiscoveryPart, RatesPart, ChecksPart, LossPart, ExplorerPart, FanoutPart, WatchdogPart
<1>4. CASE Restart
  BY <1>4, LagFits, ListenerAssumption DEF Restart, ListenerRestart, ReceiverFits
<1>5. CASE UNCHANGED vars
  BY <1>2, <1>5 DEF vars
<1> QED
  BY <1>1, <1>3, <1>4, <1>5 DEF Next

LEMMA ReceiverTypes == Spec => []ReceiverTyped
<1>1. ListenerInv /\ PaceInv /\ ReceiverFits => ReceiverTyped
  <2> SUFFICES ASSUME ListenerInv, PaceInv, ReceiverFits PROVE ReceiverTyped
    OBVIOUS
  <2>1. buffer \in Seq(Entry) /\ rows \in Seq(Entry)
    BY MessagesAreEntries DEF ListenerInv, ListenerType
  <2>2. alertedAt \in [Hosts -> {NotAlerted} \cup 0 .. Saturated]
    BY DEF PaceInv, PaceType
  <2>3. lag \in 0 .. MaxLag + MaxSend /\ spent \in 0 .. MaxSend
    BY LagFits, ListenerAssumption DEF PaceInv, PaceType, ReceiverFits
  <2> QED
    BY <2>1, <2>2, <2>3 DEF ReceiverFits, ReceiverTyped
<1> QED
  BY <1>1, InitListenerInv, NextKeepsListenerInv, InitPaceInv, NextKeepsPaceInv,
     InitReceiverFits, NextKeepsReceiverFits, PTL DEF Spec

-----------------------------------------------------------------------------
LossPlaces ==
  /\ loss.pc = "sleep" => loss = Resting
  /\ loss.cur \in (IF loss.pc \in {"send", "commit"} THEN Links \ loss.todo ELSE {NoLink})
  /\ \A d \in Links : noticedAt[d] \in {Unnoticed} \cup 0 .. Stale

LossTyped ==
  /\ loss.pc \in {"walk", "send", "commit"} \/ loss = Resting
  /\ loss.cur \in (IF loss.pc \in {"send", "commit"} THEN Links \ loss.todo ELSE {NoLink})
  /\ noticedAt \in [Links -> {Unnoticed} \cup 0 .. Stale] /\ sinceNow \in 0 .. MaxCycle

LEMMA LossPartKeepsLossPlaces ==
  ASSUME LossInv, LossPlaces, LossPart
  PROVE  LossPlaces'
<1> USE DEF LossInv, LossPlaces
<1>0. /\ Resting.pc = "sleep" /\ Resting.cur = NoLink /\ sinceNow \in 0 .. Stale
      /\ Stale \in Nat /\ LossType
  BY LossNumbers DEF Resting, LossType
<1>1. CASE LossBegin
  BY <1>1 DEF LossBegin, Resting
<1>2. CASE LossUnread
  BY <1>2 DEF LossUnread
<1>3. ASSUME NEW d \in Links, LossSkip(d) PROVE LossPlaces'
  BY <1>0, <1>3 DEF LossSkip, LossType
<1>4. ASSUME NEW d \in Links, LossNotify(d) PROVE LossPlaces'
  BY <1>0, <1>4 DEF LossNotify, LossType
<1>5. CASE LossSent
  BY <1>0, <1>5 DEF LossSent, LossType
<1>6. CASE LossCommitted
  BY <1>0, <1>6 DEF LossCommitted, LossType
<1>7. CASE LossCommitFails \/ LossEnd
  BY <1>0, <1>7 DEF LossCommitFails, LossEnd
<1>8. ASSUME NEW d \in Links, ConditionChange(d) PROVE LossPlaces'
  BY <1>8 DEF ConditionChange
<1>9. CASE LossTick
  <2>1. ASSUME NEW d \in Links PROVE noticedAt'[d] \in {Unnoticed} \cup 0 .. Stale
    BY <1>0, <1>9, LossNumbers DEF LossTick
  <2> QED
    BY <1>9, <2>1 DEF LossTick
<1> QED
  BY <1>1, <1>2, <1>3, <1>4, <1>5, <1>6, <1>7, <1>8, <1>9 DEF LossPart, LossNext

LEMMA NextKeepsLossPlaces == LossInv /\ LossPlaces /\ [Next]_vars => LossPlaces'
<1> SUFFICES ASSUME LossInv, LossPlaces, [Next]_vars PROVE LossPlaces'
  OBVIOUS
<1>1. CASE LossPart
  BY <1>1, LossPartKeepsLossPlaces
<1>2. CASE UNCHANGED lossVars
  BY <1>2 DEF LossPlaces, lossVars
<1>3. CASE ListenerPart \/ DiscoveryPart \/ RatesPart \/ ChecksPart \/ ExplorerPart
          \/ FanoutPart \/ WatchdogPart
  BY <1>2, <1>3
     DEF ListenerPart, DiscoveryPart, RatesPart, ChecksPart, ExplorerPart, FanoutPart, WatchdogPart
<1>4. CASE Restart
  BY <1>4 DEF Restart, LossRestart, LossPlaces, Resting
<1>5. CASE UNCHANGED vars
  BY <1>2, <1>5 DEF vars
<1> QED
  BY <1>1, <1>3, <1>4, <1>5 DEF Next

LEMMA LossTypes == Spec => []LossTyped
<1>1. Init => LossPlaces
  BY DEF Init, LossInit, LossPlaces, Resting
<1>2. LossInv /\ LossPlaces => LossTyped
  <2> SUFFICES ASSUME LossInv, LossPlaces PROVE LossTyped
    OBVIOUS
  <2>1. noticedAt \in [Links -> {Unnoticed} \cup 0 .. Stale]
    BY DEF LossInv, LossType, LossPlaces
  <2>2. sinceNow \in 0 .. MaxCycle /\ loss.pc \in {"sleep", "walk", "send", "commit"}
    BY LossNumbers DEF LossInv, LossType
  <2> QED
    BY <2>1, <2>2 DEF LossPlaces, LossTyped
<1> QED
  BY <1>1, <1>2, InitLossInv, NextKeepsLossInv, NextKeepsLossPlaces, PTL DEF Spec

=============================================================================
