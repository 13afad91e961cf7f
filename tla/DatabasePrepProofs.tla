-------------------------- MODULE DatabasePrepProofs --------------------------
(***************************************************************************)
(* What holds of DatabasePrep for any number of orchestrators.             *)
(***************************************************************************)
EXTENDS DatabasePrep, FiniteSetTheorems, TLAPS

USE InstancesAssumption, MaxFaultsAssumption

(* An instance that is about to record a stream holds one. *)
Holding ==
    \A i \in Instances : prep[i] \in {"recheck", "insert"} => id[i] # 0

TypeInv == TypeOK /\ Holding

LEMMA InitType == Init => TypeInv
  BY DEF Init, TypeInv, TypeOK, Holding, Pcs

LEMMA StepType ==
  ASSUME TypeInv, [Next]_vars
  PROVE  TypeInv'
<1> USE DEF TypeInv, TypeOK, Holding, Pcs
<1>1. ASSUME NEW r, Reply(r)
      PROVE  budget' \in 0 .. MaxFaults
  BY <1>1 DEF Reply, Spend
(* The three ways in which prep and id change. *)
<1>2. ASSUME NEW i \in Instances, Rest(i), created' \in Nat, created' >= created
      PROVE  /\ prep' \in [Instances -> Pcs]
             /\ id' \in [Instances -> 0 .. created']
             /\ Holding'
  BY <1>2 DEF Rest
<1>3. ASSUME NEW i \in Instances, NEW r, NEW pc \in Pcs \ {"recheck", "insert"},
             Proceed(i, r, pc), created' = created
      PROVE  /\ prep' \in [Instances -> Pcs]
             /\ id' \in [Instances -> 0 .. created']
             /\ Holding'
  BY <1>2, <1>3 DEF Proceed, Goto
<1>4. ASSUME NEW i \in Instances, NEW pc,
             NEW next \in Pcs \ {"recheck", "insert"}, Query(i, pc, next)
      PROVE  TypeInv'
  BY <1>1, <1>3, <1>4 DEF Query, database
<1>5. ASSUME NEW i \in Instances, Step(i) \/ Crash(i)
      PROVE  TypeInv'
  <2>1. CASE CheckSignals(i)
    BY <1>4, <2>1 DEF CheckSignals
  <2>2. CASE Wipe(i)
    BY <1>1, <1>3, <2>2 DEF Wipe
  <2>3. CASE CreateSignals(i)
    BY <1>1, <1>3, <2>3 DEF CreateSignals, Effective
  <2>4. CASE CheckTable(i)
    BY <1>4, <2>4 DEF CheckTable
  <2>5. CASE CreateTable(i)
    BY <1>1, <1>3, <2>5 DEF CreateTable, Effective
  <2>6. CASE ReadStream(i)
    BY <1>4, <2>6 DEF ReadStream
  <2>7. CASE CreateStream(i)
    BY <1>1, <1>2, <2>7 DEF CreateStream, Effective, Replies
  <2>8. CASE Recheck(i)
    BY <1>1, <1>2, <2>8 DEF Recheck, Goto, database
  <2>9. CASE Insert(i)
    <3>1. id[i] \in 1 .. created
      BY <2>9 DEF Insert
    <3>2. recorded' \subseteq 1 .. created
      BY <2>9, <3>1 DEF Insert
    <3> QED
      BY <1>1, <1>2, <2>9, <3>2 DEF Insert
  <2>10. CASE Crash(i)
    BY <1>2, <2>10 DEF Crash, Spend, database
  <2> QED
    BY <1>5, <2>1, <2>2, <2>3, <2>4, <2>5, <2>6, <2>7, <2>8, <2>9, <2>10
       DEF Step
<1>6. ASSUME NEW t \in Tables, AskSnapshot(t)
      PROVE  TypeInv'
  BY <1>6 DEF AskSnapshot
<1>7. CASE UNCHANGED vars
  BY <1>7 DEF vars, database
<1> QED
  BY <1>5, <1>6, <1>7 DEF Next

(* Every variable keeps its type. *)
THEOREM TypeCorrect == Spec => []TypeOK
  BY InitType, StepType, PTL DEF Spec, TypeInv
-----------------------------------------------------------------------------
(* What an instance knows by the call it has reached: nothing drops a table. *)
Reached ==
    \A i \in Instances :
        /\ prep[i] \notin {"checkSignals", "createSignals"} => signalTable
        /\ prep[i] \in {"read", "createStream", "recheck", "insert"}
              => streamTable

PrepInv == TypeInv /\ RecordedPrepared /\ Reached

LEMMA InitPrepInv == Init => PrepInv
  BY InitType DEF Init, PrepInv, RecordedPrepared, Reached

(* A step that makes instance i reach a call, and drops no table, keeps     *)
(* Reached if it does so for i.                                            *)
LEMMA ReachedKept ==
  ASSUME TypeInv, Reached, NEW i \in Instances, NEW pc,
         prep' = [prep EXCEPT ![i] = pc],
         signalTable => signalTable', streamTable => streamTable',
         pc \notin {"checkSignals", "createSignals"} => signalTable',
         pc \in {"read", "createStream", "recheck", "insert"} => streamTable'
  PROVE  Reached'
  BY DEF TypeInv, TypeOK, Reached

LEMMA StepPrepInv ==
  ASSUME PrepInv, [Next]_vars
  PROVE  PrepInv'
<1>1. TypeInv'
  BY StepType DEF PrepInv
<1> USE DEF PrepInv, RecordedPrepared
<1>2. ASSUME NEW i \in Instances, Step(i) \/ Crash(i)
      PROVE  RecordedPrepared' /\ Reached'
  <2> USE DEF Proceed, Goto, Rest, Effective, Replies
  <2>0. /\ prep[i] \notin {"checkSignals", "createSignals"} => signalTable
        /\ prep[i] \in {"read", "createStream", "recheck", "insert"}
              => streamTable
    BY DEF Reached
  <2>1. CASE CheckSignals(i)
    BY <2>0, <2>1, ReachedKept DEF CheckSignals, Query, database
  <2>2. CASE Wipe(i)
    BY <2>0, <2>2, ReachedKept DEF Wipe
  <2>3. CASE CreateSignals(i)
    BY <2>0, <2>3, ReachedKept DEF CreateSignals
  <2>4. CASE CheckTable(i)
    BY <2>0, <2>4, ReachedKept DEF CheckTable, Query, database
  <2>5. CASE CreateTable(i)
    BY <2>0, <2>5, ReachedKept DEF CreateTable
  <2>6. CASE ReadStream(i)
    BY <2>0, <2>6, ReachedKept DEF ReadStream, Query, database
  <2>7. CASE CreateStream(i)
    BY <2>0, <2>7, ReachedKept DEF CreateStream
  <2>8. CASE Recheck(i)
    BY <2>0, <2>8, ReachedKept DEF Recheck, database
  <2>9. CASE Insert(i)
    BY <2>0, <2>9, ReachedKept DEF Insert
  <2>10. CASE Crash(i)
    BY <2>0, <2>10, ReachedKept DEF Crash, database
  <2> QED
    BY <1>2, <2>1, <2>2, <2>3, <2>4, <2>5, <2>6, <2>7, <2>8, <2>9, <2>10
       DEF Step
<1>3. ASSUME NEW t \in Tables, AskSnapshot(t)
      PROVE  RecordedPrepared' /\ Reached'
  BY <1>3 DEF AskSnapshot, Reached
<1>4. CASE UNCHANGED vars
  BY <1>1, <1>4 DEF vars, database, Reached
<1> QED
  BY <1>1, <1>2, <1>3, <1>4 DEF Next

LEMMA PrepInvariant == Spec => []PrepInv
  BY InitPrepInv, StepPrepInv, PTL DEF Spec

(* Where there is a stream, the tables the loops use are there. *)
THEOREM RecordedIsPrepared == Spec => []RecordedPrepared
  BY PrepInvariant, PTL DEF PrepInv
-----------------------------------------------------------------------------
(* The promise to the other loops is kept, however many orchestrators      *)
(* prepare the same database: each step is one of StreamRegistry's or      *)
(* changes nothing it shows.                                               *)
LEMMA StepImplements ==
  ASSUME PrepInv, [Next]_vars
  PROVE  [Registry!Next]_<<SeenStream, signals>>
<1> USE DEF PrepInv, SeenStream
<1>1. ASSUME NEW i \in Instances, Step(i) \/ Crash(i)
      PROVE  [Registry!Next]_<<SeenStream, signals>>
  <2> USE DEF Registry!Next, database
  <2>1. CASE CheckSignals(i) \/ CheckTable(i) \/ ReadStream(i) \/ Recheck(i)
             \/ Crash(i)
    BY <2>1 DEF CheckSignals, CheckTable, ReadStream, Query, Recheck, Crash
  <2>2. CASE Wipe(i)
    BY <2>2 DEF Wipe, Registry!WipeSignals
  <2>3. CASE CreateSignals(i) \/ CreateStream(i)
    BY <2>3 DEF CreateSignals, CreateStream
  <2>4. CASE CreateTable(i)
    BY <2>4 DEF CreateTable, Registry!CreateTable, RecordedPrepared
  <2>5. CASE Insert(i)
    <3>1. streamTable
      BY <2>5 DEF Insert, Reached
    <3> QED
      BY <2>5, <3>1 DEF Insert, Registry!Record
  <2> QED
    BY <1>1, <2>1, <2>2, <2>3, <2>4, <2>5 DEF Step
<1>2. ASSUME NEW t \in Tables, AskSnapshot(t)
      PROVE  Registry!Next
  BY <1>2 DEF AskSnapshot, RecordedPrepared, Registry!Next, Registry!AskSnapshot
<1>3. CASE UNCHANGED vars
  BY <1>3 DEF vars, database
<1> QED
  BY <1>1, <1>2, <1>3 DEF Next

(* prepare_database implements StreamRegistry. *)
THEOREM PrepImplements == Spec => Implements
<1>1. Init => Registry!Init
  BY DEF Init, Registry!Init, SeenStream
<1> QED
  BY <1>1, PrepInvariant, StepImplements, PTL
     DEF Spec, Implements, Registry!Spec
-----------------------------------------------------------------------------
(* The orchestrators that have looked twice and are about to record.       *)
Pending == {i \in Instances : prep[i] = "insert"}

(* Nobody joins them once a stream is recorded. *)
Few ==
    recorded # {} =>
        Cardinality(recorded) + Cardinality(Pending) <= Cardinality(Instances)

LEMMA PendingFinite ==
  /\ IsFiniteSet(Pending) /\ Cardinality(Pending) \in Nat
  /\ Cardinality(Pending) <= Cardinality(Instances)
  /\ Cardinality(Instances) \in Nat
  BY FS_Subset, FS_CardinalityType DEF Pending

LEMMA RecordedFinite ==
  ASSUME TypeInv
  PROVE  IsFiniteSet(recorded) /\ Cardinality(recorded) \in Nat
<1>1. IsFiniteSet(1 .. created)
  BY FS_Interval DEF TypeInv, TypeOK
<1> QED
  BY <1>1, FS_Subset, FS_CardinalityType DEF TypeInv, TypeOK

(* A step that records nothing and, once there is a stream, lets nobody     *)
(* join.                                                                   *)
LEMMA FewKept ==
  ASSUME TypeInv, Few, recorded' = recorded, recorded # {} => Pending' \subseteq Pending
  PROVE  Few'
<1>1. recorded # {} =>
        Cardinality(Pending') \in Nat /\ Cardinality(Pending') <= Cardinality(Pending)
  BY PendingFinite, FS_Subset, FS_CardinalityType
<1> QED
  BY <1>1, PendingFinite, RecordedFinite DEF Few

LEMMA FewInsert ==
  ASSUME TypeInv, Few, NEW i \in Pending, NEW s,
         recorded' = recorded \cup {s}, Pending' = Pending \ {i}
  PROVE  Few'
<1>1. Cardinality(Pending') = Cardinality(Pending) - 1
  BY PendingFinite, FS_RemoveElement
<1>2. Cardinality(recorded') <= Cardinality(recorded) + 1
  <2>1. Cardinality(recorded \cup {s}) \in {Cardinality(recorded), Cardinality(recorded) + 1}
    BY RecordedFinite, FS_AddElement
  <2> QED
    BY <2>1, RecordedFinite
<1>3. recorded = {} => Cardinality(recorded) = 0
  BY FS_EmptySet
<1>4. Cardinality(recorded') \in Nat
  BY RecordedFinite, FS_AddElement, FS_CardinalityType
<1> QED
  BY <1>1, <1>2, <1>3, <1>4, PendingFinite, RecordedFinite DEF Few

LEMMA StepFew ==
  ASSUME TypeInv, Few, [Next]_vars
  PROVE  Few'
<1>1. prep \in [Instances -> Pcs]
  BY DEF TypeInv, TypeOK
(* All but Recheck go elsewhere than to the insertion. *)
<1>2. ASSUME NEW i \in Instances, NEW pc, pc # "insert",
             prep' = [prep EXCEPT ![i] = pc]
      PROVE  Pending' = Pending \ {i}
  BY <1>1, <1>2 DEF Pending
<1>3. ASSUME NEW i \in Instances, Step(i) \/ Crash(i)
      PROVE  Few'
  <2>1. CASE CheckSignals(i) \/ Wipe(i) \/ CreateSignals(i) \/ CheckTable(i)
             \/ CreateTable(i) \/ ReadStream(i) \/ CreateStream(i) \/ Crash(i)
    <3>1. recorded' = recorded
      BY <2>1 DEF CheckSignals, Wipe, CreateSignals, CheckTable, CreateTable,
         ReadStream, CreateStream, Crash, Query, database
    <3>2. \E pc \in Pcs \ {"insert"} : prep' = [prep EXCEPT ![i] = pc]
      BY <2>1 DEF CheckSignals, Wipe, CreateSignals, CheckTable, CreateTable,
         ReadStream, CreateStream, Crash, Query, Proceed, Goto, Rest, Pcs
    <3> QED
      BY <1>2, <3>1, <3>2, FewKept
  <2>2. CASE Recheck(i)
    <3>1. recorded' = recorded
      BY <2>2 DEF Recheck, database
    <3>2. recorded # {} => prep' = [prep EXCEPT ![i] = "checkSignals"]
      BY <2>2 DEF Recheck, Rest
    <3> QED
      BY <1>2, <3>1, <3>2, FewKept
  <2>3. CASE Insert(i)
    <3>1. i \in Pending /\ Pending' = Pending \ {i}
      BY <1>2, <2>3 DEF Insert, Rest, Pending
    <3>2. recorded' = recorded \/ recorded' = recorded \cup {id[i]}
      BY <2>3 DEF Insert
    <3> QED
      BY <3>1, <3>2, FewKept, FewInsert
  <2> QED
    BY <1>3, <2>1, <2>2, <2>3 DEF Step
<1>4. ASSUME NEW t \in Tables, AskSnapshot(t)
      PROVE  Few'
  BY <1>4, FewKept DEF AskSnapshot, Pending
<1>5. CASE UNCHANGED vars
  BY <1>5, FewKept DEF vars, database, Pending
<1> QED
  BY <1>3, <1>4, <1>5 DEF Next

(* Any number of orchestrators record at most one stream each, and a       *)
(* single one never a second.                                              *)
THEOREM StreamIsOne == Spec => []OneStream
<1>1. Init => TypeInv /\ Few
  BY InitType DEF Init, Few
<1>2. TypeInv /\ Few /\ [Next]_vars => TypeInv' /\ Few'
  BY StepType, StepFew
<1>3. TypeInv /\ Few => OneStream
  <2> SUFFICES ASSUME TypeInv, Few PROVE OneStream
    OBVIOUS
  <2>1. recorded = {} => Cardinality(recorded) = 0
    BY FS_EmptySet
  <2> QED
    BY <2>1, PendingFinite, RecordedFinite DEF Few, OneStream
<1> QED
  BY <1>1, <1>2, <1>3, PTL DEF Spec
-----------------------------------------------------------------------------
(* The orchestrators that may still make a stream without any failure.     *)
Fresh ==
    {i \in Instances :
        /\ prep[i] \notin {"recheck", "insert"}
        /\ recorded = {} \/ prep[i] = "createStream"}

(* What a stream is charged to: a failure, or an orchestrator that is not   *)
(* fresh any more.                                                         *)
Charged ==
    created + Cardinality(Fresh) <= Cardinality(Instances) + (MaxFaults - budget)

LEMMA Counters ==
  ASSUME TypeInv
  PROVE  created \in Nat /\ budget \in Nat /\ MaxFaults \in Nat
  BY DEF TypeInv, TypeOK

LEMMA FreshFinite ==
  /\ IsFiniteSet(Fresh) /\ Cardinality(Fresh) \in Nat
  /\ Cardinality(Fresh) <= Cardinality(Instances)
  /\ Cardinality(Instances) \in Nat
  BY FS_Subset, FS_CardinalityType DEF Fresh

(* A step that makes no stream, or has it paid by a failure. *)
LEMMA ChargeNone ==
  ASSUME TypeInv, Charged, TypeInv', Fresh' \subseteq Fresh,
         created' - created <= budget - budget'
  PROVE  Charged'
<1>1. Cardinality(Fresh') \in Nat /\ Cardinality(Fresh') <= Cardinality(Fresh)
  BY FreshFinite, FS_Subset, FS_CardinalityType
<1>2. created' \in Nat /\ budget' \in Nat
  BY DEF TypeInv, TypeOK
<1> QED
  BY <1>1, <1>2, Counters, FreshFinite DEF Charged

(* A fresh orchestrator makes a stream. *)
LEMMA ChargeFresh ==
  ASSUME TypeInv, Charged, TypeInv', NEW i \in Fresh, Fresh' \subseteq Fresh \ {i},
         created' = created + 1, budget' = budget
  PROVE  Charged'
<1>1. /\ IsFiniteSet(Fresh \ {i})
      /\ Cardinality(Fresh \ {i}) = Cardinality(Fresh) - 1
  BY FreshFinite, FS_RemoveElement
<1>2. Cardinality(Fresh') \in Nat /\ Cardinality(Fresh') <= Cardinality(Fresh \ {i})
  BY <1>1, FS_Subset, FS_CardinalityType
<1> QED
  BY <1>1, <1>2, FreshFinite DEF TypeInv, TypeOK, Charged

(* A failure: the orchestrator may have to make another stream. *)
LEMMA ChargeFault ==
  ASSUME TypeInv, Charged, TypeInv', NEW i, Fresh' \subseteq Fresh \cup {i},
         created' = created, budget' = budget - 1
  PROVE  Charged'
<1>1. /\ IsFiniteSet(Fresh \cup {i})
      /\ Cardinality(Fresh \cup {i}) \in {Cardinality(Fresh), Cardinality(Fresh) + 1}
  BY FreshFinite, FS_AddElement
<1>2. Cardinality(Fresh') \in Nat /\ Cardinality(Fresh') <= Cardinality(Fresh \cup {i})
  BY <1>1, FS_Subset, FS_CardinalityType
<1>3. budget' \in Nat
  BY DEF TypeInv, TypeOK
<1> QED
  BY <1>1, <1>2, <1>3, Counters, FreshFinite DEF Charged

LEMMA StepCharged ==
  ASSUME TypeInv, Charged, [Next]_vars
  PROVE  Charged'
<1>1. TypeInv'
  BY StepType
<1>2. prep \in [Instances -> Pcs] /\ budget \in Nat /\ created \in Nat
  BY DEF TypeInv, TypeOK
(* An orchestrator moves on without having made or lost a stream. *)
<1>3. ASSUME NEW i \in Instances, prep[i] \notin {"createStream", "recheck", "insert"},
             \/ prep' = [prep EXCEPT ![i] = "createStream"] /\ recorded = {}
             \/ \E pc \in Pcs \ {"createStream"} : prep' = [prep EXCEPT ![i] = pc],
             recorded' = recorded
      PROVE  Fresh' \subseteq Fresh
  BY <1>2, <1>3 DEF Fresh
<1>4. ASSUME NEW reply, Reply(reply)
      PROVE  budget - budget' \in Nat
  BY <1>1, <1>2, <1>4 DEF Reply, Spend
<1>5. ASSUME NEW i \in Instances, Rest(i), recorded' = recorded
      PROVE  Fresh' \subseteq Fresh \cup {i}
  BY <1>2, <1>5 DEF Rest, Fresh
<1>6. ASSUME NEW i \in Instances, Step(i) \/ Crash(i)
      PROVE  Charged'
  <2>1. CASE CheckSignals(i) \/ Wipe(i) \/ CreateSignals(i) \/ CheckTable(i)
             \/ CreateTable(i) \/ ReadStream(i)
    <3>1. Fresh' \subseteq Fresh
      BY <1>3, <2>1 DEF CheckSignals, Wipe, CreateSignals, CheckTable,
         CreateTable, ReadStream, Query, Proceed, Goto, Rest, database, Pcs
    <3>2. budget - budget' \in Nat /\ created' = created
      BY <1>4, <2>1 DEF CheckSignals, Wipe, CreateSignals, CheckTable,
         CreateTable, ReadStream, Query, database
    <3> QED
      BY <1>1, <1>2, <3>1, <3>2, ChargeNone
  <2>2. CASE CreateStream(i)
    <3>1. PICK reply \in Replies :
            /\ Reply(reply)
            /\ created' = IF Effective(reply) THEN created + 1 ELSE created
            /\ IF reply = "ok"
               THEN prep' = [prep EXCEPT ![i] = "recheck"]
               ELSE Rest(i)
      BY <2>2 DEF CreateStream
    <3>2. prep[i] = "createStream" /\ recorded' = recorded
      BY <2>2 DEF CreateStream
    <3>3. CASE reply = "ok"
      <4>1. i \in Fresh /\ Fresh' \subseteq Fresh \ {i}
        BY <1>2, <3>1, <3>2, <3>3 DEF Fresh
      <4> QED
        BY <1>1, <3>1, <3>3, <4>1, ChargeFresh DEF Reply, Effective
    <3>4. CASE reply # "ok"
      <4>1. Fresh' \subseteq Fresh
        BY <1>2, <3>1, <3>2, <3>4 DEF Fresh, Rest
      <4>2. budget' = budget - 1 /\ created' - created <= 1
        BY <1>2, <3>1, <3>4 DEF Reply, Spend
      <4> QED
        BY <1>1, <1>2, <4>1, <4>2, ChargeNone
    <3> QED
      BY <3>3, <3>4
  <2>3. CASE Recheck(i)
    <3>1. PICK reply \in {"ok", "error"} :
            /\ Reply(reply)
            /\ IF reply = "ok" /\ recorded = {} THEN Goto(i, "insert") ELSE Rest(i)
      BY <2>3 DEF Recheck
    <3>2. prep[i] = "recheck" /\ recorded' = recorded /\ created' = created
      BY <2>3 DEF Recheck, database
    <3>3. CASE reply = "ok"
      <4>1. Fresh' \subseteq Fresh
        BY <1>2, <3>1, <3>2, <3>3 DEF Fresh, Goto, Rest
      <4> QED
        BY <1>1, <1>2, <3>1, <3>2, <3>3, <4>1, ChargeNone DEF Reply
    <3>4. CASE reply = "error"
      BY <1>1, <1>5, <3>1, <3>2, <3>4, ChargeFault DEF Reply, Spend
    <3> QED
      BY <3>3, <3>4
  <2>4. CASE Insert(i)
    <3>1. PICK reply \in Replies :
            /\ Reply(reply)
            /\ recorded' = IF Effective(reply) THEN recorded \cup {id[i]}
                                              ELSE recorded
      BY <2>4 DEF Insert
    <3>2. prep[i] = "insert" /\ Rest(i) /\ created' = created
      BY <2>4 DEF Insert
    <3>3. CASE Effective(reply)
      <4>1. Fresh' \subseteq Fresh
        BY <1>2, <3>1, <3>2, <3>3 DEF Fresh, Rest
      <4> QED
        BY <1>1, <1>2, <1>4, <3>1, <3>2, <4>1, ChargeNone
    <3>4. CASE ~Effective(reply)
      BY <1>1, <1>5, <3>1, <3>2, <3>4, ChargeFault
         DEF Reply, Spend, Effective
    <3> QED
      BY <3>3, <3>4
  <2>5. CASE Crash(i)
    BY <1>1, <1>5, <2>5, ChargeFault DEF Crash, Spend, database
  <2> QED
    BY <1>6, <2>1, <2>2, <2>3, <2>4, <2>5 DEF Step
<1>7. ASSUME NEW t \in Tables, AskSnapshot(t)
      PROVE  Charged'
  BY <1>7 DEF AskSnapshot, Charged, Fresh
<1>8. CASE UNCHANGED vars
  BY <1>8 DEF vars, database, Charged, Fresh
<1> QED
  BY <1>6, <1>7, <1>8 DEF Next

(* The streams left over never outnumber the failures, and the further     *)
(* orchestrators, for any number of either.                                *)
THEOREM LeaksAreBounded == Spec => []LeaksBounded
<1>1. Init => Charged
  <2> SUFFICES ASSUME Init PROVE Charged
    OBVIOUS
  <2>1. Fresh = Instances
    BY DEF Init, Fresh
  <2> QED
    BY <2>1, FreshFinite DEF Init, Charged
<1>2. TypeInv /\ Charged /\ [Next]_vars => Charged'
  BY StepCharged
<1>3. TypeInv /\ Charged => LeaksBounded
  BY FreshFinite DEF TypeInv, TypeOK, Charged, LeaksBounded
<1>4. Init => TypeInv
  BY InitType
<1>5. TypeInv /\ [Next]_vars => TypeInv'
  BY StepType
<1> QED
  BY <1>1, <1>2, <1>3, <1>4, <1>5, PTL DEF Spec
=============================================================================
