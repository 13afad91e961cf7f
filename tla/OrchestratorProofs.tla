-------------------------- MODULE OrchestratorProofs --------------------------
(***************************************************************************)
(* What holds of Orchestrator for every value of its constants.            *)
(***************************************************************************)
EXTENDS Orchestrator, FiniteSetTheorems, TLAPS

(* A loop that is at work on a table is at work on one that was discovered. *)
SyncBusy == sync.pc \notin {"idle", "loop"} => SyncT \in Tables
CleanBusy == clean.pc \notin {"idle", "loop"} => CleanT \in Tables
CheckBusy == check.pc \notin {"idle", "loop"} => CheckT \in Tables

TypeInv == TypeOK /\ SyncBusy /\ CleanBusy /\ CheckBusy

USE TablesAssumption, RowsAssumption, NoTableAssumption, NoCopyAssumption,
    NoCountAssumption, CommentsAssumption, FaultsAssumption
    DEF cdc
-----------------------------------------------------------------------------
LEMMA InitTypeInv == Init => TypeInv
<1> SUFFICES ASSUME Init PROVE TypeInv
  OBVIOUS
<1>1. WorldTypeOK
  BY DEF Init, WorldInit, WorldTypeOK, Targets
<1>2. SyncTypeOK /\ SyncBusy
  BY DEF Init, SyncInit, SyncAt, SyncTypeOK, SyncBusy, SyncPcs, NoInfo, Infos,
         CommentKinds
<1>3. CleanTypeOK /\ CleanBusy
  BY DEF Init, CleanInit, CleanAt, CleanTypeOK, CleanBusy, CleanPcs, CommentKinds
<1>4. CheckTypeOK /\ CheckBusy
  BY DEF Init, CheckInit, CheckAt, CheckTypeOK, CheckBusy, CheckPcs, CommentKinds
<1> QED
  BY <1>1, <1>2, <1>3, <1>4 DEF TypeInv, TypeOK

(* Spending from the budget, or not, keeps it in its range. *)
LEMMA BudgetType ==
  ASSUME budget \in 0 .. MaxFaults, NEW k,
         Spend(k) \/ UNCHANGED budget
  PROVE  budget' \in 0 .. MaxFaults
  BY DEF Spend

LEMMA DiscoveredType ==
  ASSUME WorldTypeOK
  PROVE  Discovered \subseteq Tables \X CommentKinds
  BY DEF Discovered, WorldTypeOK, CommentKinds

LEMMA DiscoverType ==
  ASSUME WorldTypeOK, NEW found, DiscoverReply(found)
  PROVE  WorldTypeOK'
<1>1. budget' \in 0 .. MaxFaults
  BY BudgetType DEF DiscoverReply, WorldTypeOK
<1>2. listed' \subseteq Tables
  BY DiscoveredType DEF DiscoverReply, WorldTypeOK
<1> QED
  BY <1>1, <1>2 DEF DiscoverReply, WorldTypeOK, connect, copies

(* What an annotation names is a BigQuery table. *)
LEMMA BqTableType ==
  ASSUME NEW info, info[1] \in Tables
  PROVE  BqTable(info) \in Tables \X Targets
  BY DEF BqTable, TargetOf, Targets

(* A step of the environment is typed. *)
LEMMA WorldStepType ==
  ASSUME WorldTypeOK, WorldNext
  PROVE  WorldTypeOK'
<1> USE DEF WorldTypeOK, connect, copies, Spend
<1>8. ASSUME NEW t \in Tables, FailSource(t)
      PROVE  WorldTypeOK'
  BY <1>8 DEF FailSource, Connectors
<1>9. ASSUME NEW n \in Names, FailSink(n)
      PROVE  WorldTypeOK'
  BY <1>9 DEF FailSink, Connectors
<1>1. ASSUME NEW t \in Tables, NEW c \in Comments, SetComment(t, c)
      PROVE  WorldTypeOK'
  BY <1>1 DEF SetComment
<1>2. ASSUME NEW t \in Tables, NEW r \in Rows, AppWrite(t, r)
      PROVE  WorldTypeOK'
  BY <1>2 DEF AppWrite
<1>3. ASSUME NEW t \in Tables, Capture(t)
      PROVE  WorldTypeOK'
  BY <1>3 DEF Capture
<1>4. ASSUME NEW t \in Tables, Deliver(t)
      PROVE  WorldTypeOK'
  BY <1>4 DEF Deliver
<1>5. ASSUME NEW t \in Tables, DropSource(t)
      PROVE  WorldTypeOK'
  BY <1>5 DEF DropSource
<1>6. ASSUME NEW n \in Names, DropSink(n)
      PROVE  WorldTypeOK'
  BY <1>6 DEF DropSink, Targets
<1>7. ASSUME NEW t \in Tables, Expire(t)
      PROVE  WorldTypeOK'
  BY <1>7 DEF Expire
<1> QED
  BY <1>1, <1>2, <1>3, <1>4, <1>5, <1>6, <1>7, <1>8, <1>9 DEF WorldNext

(* The answers of services only touch the budget. *)
LEMMA ReplyType ==
  ASSUME budget \in 0 .. MaxFaults, NEW reply, NEW can,
         Reply(reply) \/ ReplyIf(can, reply)
  PROVE  budget' \in 0 .. MaxFaults
  BY BudgetType DEF Reply, ReplyIf

LEMMA StatusReplyType ==
  ASSUME budget \in 0 .. MaxFaults, NEW which, NEW exists, NEW found,
         StatusReply(which, exists, found)
  PROVE  budget' \in 0 .. MaxFaults
  BY BudgetType DEF StatusReply

(* A step that changes no service. *)
LEMMA SameServicesType ==
  ASSUME WorldTypeOK, UNCHANGED services, budget' \in 0 .. MaxFaults
  PROVE  WorldTypeOK'
  BY DEF WorldTypeOK, services, connect, copies

(* The three calls that take a pipeline down. *)
LEMMA DeleteSourceType ==
  ASSUME WorldTypeOK, NEW t \in Tables, NEW reply, DeleteSource(t, reply)
  PROVE  WorldTypeOK'
<1>1. budget' \in 0 .. MaxFaults
  BY ReplyType DEF DeleteSource, WorldTypeOK
<1> QED
  BY <1>1 DEF DeleteSource, WorldTypeOK, copies

LEMMA RemoveSignalType ==
  ASSUME WorldTypeOK, NEW t \in Tables, NEW reply, RemoveSignal(t, reply)
  PROVE  WorldTypeOK'
<1>1. budget' \in 0 .. MaxFaults
  BY ReplyType DEF RemoveSignal, WorldTypeOK
<1> QED
  BY <1>1 DEF RemoveSignal, SignalsWithout, WorldTypeOK, connect, copies

LEMMA DeleteSinkType ==
  ASSUME WorldTypeOK, NEW t \in Tables, NEW reply, DeleteSink(t, reply)
  PROVE  WorldTypeOK'
<1>1. budget' \in 0 .. MaxFaults
  BY ReplyType DEF DeleteSink, WorldTypeOK
<1>2. failed' \subseteq Connectors /\ UNCHANGED <<stream, listed>>
  BY DEF DeleteSink, WorldTypeOK
<1>3. target' \in [Names -> Targets] /\ sink' \in [Names -> Tables \cup {NoTable}]
  BY DEF DeleteSink, WorldTypeOK, Targets, SinkName
<1> QED
  BY <1>1, <1>2, <1>3 DEF DeleteSink, WorldTypeOK, copies

(* The moves of the sync loop keep its local state typed. *)
SyncLocal == SyncTypeOK /\ SyncBusy

LEMMA GotoType ==
  ASSUME SyncLocal, SyncT \in Tables, NEW pc \in SyncPcs, Goto(pc)
  PROVE  SyncLocal'
  BY DEF SyncLocal, SyncTypeOK, SyncBusy, SyncT, Goto

LEMMA NextTableType ==
  ASSUME SyncLocal, NextTable
  PROVE  SyncLocal'
  BY DEF SyncLocal, SyncTypeOK, SyncBusy, NextTable, SyncAt, SyncPcs, NoInfo,
         Infos, CommentKinds

LEMMA ResetType ==
  ASSUME SyncLocal, SyncT \in Tables, NEW via \in {"source", "sink"}, Reset(via)
  PROVE  SyncLocal'
  BY DEF SyncLocal, SyncTypeOK, SyncBusy, SyncT, Reset, SyncPcs

LEMMA ProceedType ==
  ASSUME SyncLocal, SyncT \in Tables, NEW reply, NEW pc \in SyncPcs,
         NEW via \in {"source", "sink"},
         Proceed(reply, pc) \/ ProceedOrReset(reply, pc, via)
  PROVE  SyncLocal'
  BY GotoType, NextTableType, ResetType DEF Proceed, ProceedOrReset

LEMMA ResetEndType ==
  ASSUME SyncLocal, SyncT \in Tables, ResetEnd(sync)
  PROVE  SyncLocal'
<1>1. CASE sync.via = "source"
  BY <1>1 DEF ResetEnd, SyncLocal, SyncTypeOK, SyncBusy, SyncT, SyncPcs
<1>2. CASE sync.via # "source"
  BY <1>2, NextTableType DEF ResetEnd, NextTable
<1> QED
  BY <1>1, <1>2

(* A step of the sync loop leaves the services typed. *)
LEMMA SyncWorldType ==
  ASSUME WorldTypeOK, SyncTypeOK, SyncBusy, SyncNext
  PROVE  WorldTypeOK'
<1>1. CASE SyncDiscover
  BY <1>1, DiscoverType DEF SyncDiscover
<1>2. CASE SyncEnd
  BY <1>2, SameServicesType DEF SyncEnd, world, WorldTypeOK
<1>3. CASE SyncSkip
  BY <1>3, SameServicesType DEF SyncSkip, world, WorldTypeOK
<1>4. CASE SyncTake
  BY <1>4, SameServicesType DEF SyncTake, world, WorldTypeOK
<1>5. CASE SyncCheckSource
  BY <1>5, StatusReplyType, SameServicesType DEF SyncCheckSource, WorldTypeOK
<1>6. CASE SyncCheckSink
  BY <1>6, StatusReplyType, SameServicesType DEF SyncCheckSink, WorldTypeOK
<1>7. CASE SyncCheckBq
  BY <1>7, BudgetType, SameServicesType DEF SyncCheckBq, ExistsReply,
     WorldTypeOK
<1>8. CASE SyncFetch
  BY <1>8, BudgetType, SameServicesType DEF SyncFetch, WorldTypeOK
<1>9. CASE SyncClear
  <2>1. SyncT \in Tables /\ SyncT[2] \in Names
    BY <1>9 DEF SyncClear, SyncBusy
  <2>2. budget' \in 0 .. MaxFaults
    BY <1>9, ReplyType DEF SyncClear, SqlReply, WorldTypeOK
  <2> QED
    BY <1>9, <2>1, <2>2 DEF SyncClear, SyncTypeOK, SinkName, WorldTypeOK,
       services, connect, copies
<1>10. CASE SyncInsert
  <2>1. SyncT \in Tables /\ SyncT[2] \in Names
    BY <1>10 DEF SyncInsert, SyncBusy
  <2>2. budget' \in 0 .. MaxFaults
    BY <1>10, ReplyType DEF SyncInsert, SqlReply, WorldTypeOK
  <2>3. yb' \in [Tables -> SUBSET Rows]
    BY <1>10, <2>1 DEF SyncInsert, SyncTypeOK, WorldTypeOK
  <2> QED
    BY <1>10, <2>2, <2>3 DEF SyncInsert, WorldTypeOK, connect, copies
<1>11. CASE SyncDataset
  BY <1>11, ReplyType, SameServicesType DEF SyncDataset, WorldTypeOK
<1>12. CASE SyncRowCount
  BY <1>12, ReplyType, SameServicesType DEF SyncRowCount, SqlReply, WorldTypeOK
<1>13. CASE SyncRecount
  BY <1>13, ReplyType, SameServicesType DEF SyncRecount, SqlReply, WorldTypeOK
<1>14. CASE SyncCacheCount
  <2>1. SyncT \in Tables /\ SyncT[2] \in Names
    BY <1>14 DEF SyncCacheCount, SyncBusy
  <2>2. budget' \in 0 .. MaxFaults
    BY <1>14, ReplyType DEF SyncCacheCount, SqlReply, WorldTypeOK
  <2> QED
    BY <1>14, <2>1, <2>2 DEF SyncCacheCount, SyncTypeOK, SinkName, WorldTypeOK,
       services, connect, copies
<1>15. CASE SyncStream
  BY <1>15, ReplyType, SameServicesType DEF SyncStream, WorldTypeOK
<1>16. CASE SyncSignalCount
  BY <1>16, ReplyType, SameServicesType DEF SyncSignalCount, SqlReply,
     WorldTypeOK
<1>17. CASE SyncSignal
  <2>1. SyncT \in Tables /\ SyncT[2] \in Names
    BY <1>17 DEF SyncSignal, SyncBusy
  <2>2. budget' \in 0 .. MaxFaults
    BY <1>17, ReplyType DEF SyncSignal, SqlReply, WorldTypeOK
  <2> QED
    BY <1>17, <2>1, <2>2 DEF SyncSignal, SyncTypeOK, SinkName, WorldTypeOK,
       services, connect, copies
<1>18. CASE SyncPutSource
  <2>1. SyncT \in Tables /\ SyncT[2] \in Names
    BY <1>18 DEF SyncPutSource, SyncBusy
  <2>2. budget' \in 0 .. MaxFaults
    BY <1>18, ReplyType DEF SyncPutSource, SqlReply, WorldTypeOK
  <2> QED
    BY <1>18, <2>1, <2>2 DEF SyncPutSource, SyncTypeOK, SinkName, WorldTypeOK,
       services, connect, copies
<1>19. CASE SyncKeyfile
  BY <1>19, ReplyType, SameServicesType DEF SyncKeyfile, WorldTypeOK
<1>20. CASE SyncSinkDataset
  BY <1>20, ReplyType, SameServicesType DEF SyncSinkDataset, WorldTypeOK
<1>21. CASE SyncPutSink
  <2>1. SyncT \in Tables /\ SyncT[2] \in Names
    BY <1>21 DEF SyncPutSink, SyncBusy
  <2>2. budget' \in 0 .. MaxFaults
    BY <1>21, ReplyType DEF SyncPutSink, SqlReply, WorldTypeOK
  <2>3. sink' \in [Names -> Tables \cup {NoTable}]
    BY <1>21, <2>1 DEF SyncPutSink, SinkName, WorldTypeOK
  <2>4. target' \in [Names -> Targets] /\ failed' \subseteq Connectors
    BY <1>21, <2>1 DEF SyncPutSink, SinkName, TargetOf, Targets, WorldTypeOK
  <2> QED
    BY <1>21, <2>2, <2>3, <2>4 DEF SyncPutSink, WorldTypeOK, copies
<1>22. CASE SyncDelSource
  BY <1>22, DeleteSourceType DEF SyncDelSource, SyncBusy
<1>23. CASE SyncDelSignal
  BY <1>23, RemoveSignalType DEF SyncDelSignal, SyncBusy
<1>24. CASE SyncDelSink
  BY <1>24, DeleteSinkType DEF SyncDelSink, SyncBusy
<1>25. CASE SyncUnsignal
  BY <1>25, RemoveSignalType DEF SyncUnsignal, SyncBusy
<1> QED
  BY <1>1, <1>2, <1>3, <1>4, <1>5, <1>6, <1>7, <1>8, <1>9, <1>10, <1>11, <1>12,
     <1>13, <1>14, <1>15, <1>16, <1>17, <1>18, <1>19, <1>20, <1>21, <1>22,
     <1>23, <1>24, <1>25 DEF SyncNext

(* A step of the sync loop keeps its local state typed. *)
LEMMA SyncLocalType ==
  ASSUME WorldTypeOK, SyncLocal, SyncNext
  PROVE  SyncLocal'
<1> USE DEF SyncPcs
<1>1. CASE SyncDiscover
  BY <1>1, DiscoveredType DEF SyncDiscover, SyncLocal, SyncTypeOK, SyncBusy,
     SyncT, SyncAt, NoInfo,
         Infos, CommentKinds
<1>2. CASE SyncEnd
  BY <1>2 DEF SyncEnd, SyncLocal, SyncTypeOK, SyncBusy, SyncT, SyncAt, NoInfo,
         Infos, CommentKinds
<1>3. CASE SyncSkip
  BY <1>3 DEF SyncSkip, SyncLocal, SyncTypeOK, SyncBusy, SyncT, SyncAt, NoInfo,
         Infos, CommentKinds
<1>4. CASE SyncTake
  BY <1>4 DEF SyncTake, SyncLocal, SyncTypeOK, SyncBusy, SyncT, SyncAt, NoInfo,
         Infos, CommentKinds
<1>5. CASE SyncCheckSource
  <2>1. SyncT \in Tables
    BY <1>5 DEF SyncCheckSource, SyncLocal, SyncBusy
  <2> QED
    BY <1>5, <2>1 DEF SyncCheckSource, NextTable, WorldTypeOK,
       SyncLocal, SyncTypeOK, SyncBusy, SyncT
<1>6. CASE SyncCheckSink
  <2>1. SyncT \in Tables
    BY <1>6 DEF SyncCheckSink, SyncLocal, SyncBusy
  <2>2. PICK found \in SUBSET {"sink"} :
          AfterCheck([sync EXCEPT !.seen = @ \cup found])
    BY <1>6 DEF SyncCheckSink
  <2> DEFINE s == [sync EXCEPT !.seen = @ \cup found]
  <2>3. /\ s \in [pc : SyncPcs, todo : SUBSET (Tables \X CommentKinds),
                  info : Infos, seen : SUBSET {"source", "sink"},
                  data : SUBSET Rows, count : Nat,
                  via : {"loop", "source", "sink"}]
        /\ s.info = sync.info /\ s.todo = sync.todo
    BY DEF SyncLocal, SyncTypeOK
  <2>4. CASE NextTable
    BY <2>4, NextTableType
  <2>5. ASSUME NEW pc \in SyncPcs, sync' = [s EXCEPT !.pc = pc]
        PROVE  SyncLocal'
    <3> HIDE DEF s
    <3> QED
      BY <2>1, <2>3, <2>5 DEF SyncLocal, SyncTypeOK, SyncBusy, SyncT
  <2>6. \/ NextTable
        \/ \E pc \in SyncPcs : sync' = [s EXCEPT !.pc = pc]
    BY <2>2, <2>3 DEF AfterCheck, LoopDecides, ResetDeletes, ResetEnd, NextTable
  <2> QED
    BY <2>4, <2>5, <2>6
<1>7. CASE SyncCheckBq
  <2>1. SyncT \in Tables
    BY <1>7 DEF SyncCheckBq, SyncLocal, SyncBusy
  <2> QED
    BY <1>7, <2>1, GotoType, NextTableType DEF SyncCheckBq
<1>8. CASE SyncFetch
  <2>1. SyncT \in Tables
    BY <1>8 DEF SyncFetch, SyncLocal, SyncBusy
  <2> DEFINE rows == bq[BqTable(sync.info)]
  <2>2. rows # NoCopy => rows \in SUBSET Rows
    BY <2>1, BqTableType DEF WorldTypeOK, SyncT
  <2>3. CASE rows # NoCopy /\ sync' = [sync EXCEPT !.pc = "clear", !.data = rows]
    <3> HIDE DEF rows
    <3> QED
      BY <2>1, <2>2, <2>3 DEF SyncLocal, SyncTypeOK, SyncBusy, SyncT
  <2> QED
    BY <1>8, <2>3, NextTableType DEF SyncFetch
<1>9. CASE SyncClear
  <2>1. SyncT \in Tables
    BY <1>9 DEF SyncClear, SyncLocal, SyncBusy
  <2> QED
    BY <1>9, <2>1, ProceedType, NextTableType DEF SyncClear
<1>10. CASE SyncInsert
  <2>1. SyncT \in Tables
    BY <1>10 DEF SyncInsert, SyncLocal, SyncBusy
  <2> QED
    BY <1>10, <2>1, GotoType, NextTableType, ProceedType DEF SyncInsert
<1>11. CASE SyncDataset
  <2>1. SyncT \in Tables
    BY <1>11 DEF SyncDataset, SyncLocal, SyncBusy
  <2>3. CASE sync' = [sync EXCEPT !.pc = "rowCount", !.data = {}]
    BY <2>1, <2>3 DEF SyncLocal, SyncTypeOK, SyncBusy, SyncT
  <2> QED
    BY <1>11, <2>3, NextTableType DEF SyncDataset
<1>12. CASE SyncRowCount
  <2>1. SyncT \in Tables
    BY <1>12 DEF SyncRowCount, SyncLocal, SyncBusy
  <2> QED
    BY <1>12, <2>1, ProceedType, NextTableType DEF SyncRowCount
<1>13. CASE SyncRecount
  <2>1. SyncT \in Tables
    BY <1>13 DEF SyncRecount, SyncLocal, SyncBusy
  <2>2. Cardinality(yb[SyncT]) \in Nat
    BY <2>1, FS_Subset, FS_CardinalityType DEF WorldTypeOK
  <2>3. CASE sync' = [sync EXCEPT !.pc = "cacheCount", !.count =
     Cardinality(yb[SyncT])]
    BY <2>1, <2>2, <2>3 DEF SyncLocal, SyncTypeOK, SyncBusy, SyncT
  <2> QED
    BY <1>13, <2>3, NextTableType DEF SyncRecount
<1>14. CASE SyncCacheCount
  <2>1. SyncT \in Tables
    BY <1>14 DEF SyncCacheCount, SyncLocal, SyncBusy
  <2>3. CASE sync' = [sync EXCEPT !.pc = "stream", !.count = 0]
    BY <2>1, <2>3 DEF SyncLocal, SyncTypeOK, SyncBusy, SyncT
  <2> QED
    BY <1>14, <2>3, NextTableType DEF SyncCacheCount
<1>15. CASE SyncStream
  <2>1. SyncT \in Tables
    BY <1>15 DEF SyncStream, SyncLocal, SyncBusy
  <2> QED
    BY <1>15, <2>1, ProceedType, NextTableType DEF SyncStream
<1>16. CASE SyncSignalCount
  <2>1. SyncT \in Tables
    BY <1>16 DEF SyncSignalCount, SyncLocal, SyncBusy
  <2> QED
    BY <1>16, <2>1, ProceedType, NextTableType DEF SyncSignalCount
<1>17. CASE SyncSignal
  <2>1. SyncT \in Tables
    BY <1>17 DEF SyncSignal, SyncLocal, SyncBusy
  <2> QED
    BY <1>17, <2>1, ProceedType, NextTableType DEF SyncSignal
<1>18. CASE SyncPutSource
  <2>1. SyncT \in Tables
    BY <1>18 DEF SyncPutSource, SyncLocal, SyncBusy
  <2> QED
    BY <1>18, <2>1, ProceedType, NextTableType DEF SyncPutSource
<1>19. CASE SyncKeyfile
  <2>1. SyncT \in Tables
    BY <1>19 DEF SyncKeyfile, SyncLocal, SyncBusy
  <2> QED
    BY <1>19, <2>1, ProceedType, NextTableType DEF SyncKeyfile
<1>20. CASE SyncSinkDataset
  <2>1. SyncT \in Tables
    BY <1>20 DEF SyncSinkDataset, SyncLocal, SyncBusy
  <2> QED
    BY <1>20, <2>1, ProceedType, NextTableType DEF SyncSinkDataset
<1>21. CASE SyncPutSink
  <2>1. SyncT \in Tables
    BY <1>21 DEF SyncPutSink, SyncLocal, SyncBusy
  <2> QED
    BY <1>21, <2>1, ResetType, NextTableType DEF SyncPutSink
<1>22. CASE SyncDelSource
  <2>1. SyncT \in Tables
    BY <1>22 DEF SyncDelSource, SyncLocal, SyncBusy
  <2> QED
    BY <1>22, <2>1, ProceedType, NextTableType DEF SyncDelSource
<1>23. CASE SyncDelSignal
  <2>1. SyncT \in Tables
    BY <1>23 DEF SyncDelSignal, SyncLocal, SyncBusy
  <2> QED
    BY <1>23, <2>1, GotoType, NextTableType, ResetEndType DEF SyncDelSignal
<1>24. CASE SyncDelSink
  <2>1. SyncT \in Tables
    BY <1>24 DEF SyncDelSink, SyncLocal, SyncBusy
  <2> QED
    BY <1>24, <2>1, GotoType, NextTableType, ResetEndType DEF SyncDelSink
<1>25. CASE SyncUnsignal
  BY <1>25, NextTableType DEF SyncUnsignal
<1> QED
  BY <1>1, <1>2, <1>3, <1>4, <1>5, <1>6, <1>7, <1>8, <1>9, <1>10, <1>11, <1>12,
     <1>13, <1>14, <1>15, <1>16, <1>17, <1>18, <1>19, <1>20, <1>21, <1>22,
     <1>23, <1>24, <1>25 DEF SyncNext

(* The moves of the cleanup loop keep its local state typed. *)
CleanLocal == CleanTypeOK /\ CleanBusy

LEMMA CleanGotoType ==
  ASSUME CleanLocal, CleanT \in Tables, NEW pc \in CleanPcs,
         clean' = [clean EXCEPT !.pc = pc]
  PROVE  CleanLocal'
  BY DEF CleanLocal, CleanTypeOK, CleanBusy, CleanT

LEMMA CleanRestType ==
  ASSUME CleanLocal, CleanNextTable \/ CleanRaise
  PROVE  CleanLocal'
  BY DEF CleanLocal, CleanTypeOK, CleanBusy, CleanNextTable, CleanRaise,
         CleanAt, CleanPcs, CommentKinds

LEMMA CleanProceedType ==
  ASSUME CleanLocal, CleanT \in Tables, NEW reply, NEW pc \in CleanPcs,
         CleanProceed(reply, pc)
  PROVE  CleanLocal'
  BY CleanGotoType, CleanRestType DEF CleanProceed

LEMMA CleanConnectorsType ==
  ASSUME CleanLocal, CleanT \in Tables, CleanConnectors
  PROVE  CleanLocal'
  BY CleanGotoType, CleanRestType DEF CleanConnectors, CleanPcs

(* A step of the cleanup loop leaves the services typed. *)
LEMMA CleanWorldType ==
  ASSUME WorldTypeOK, CleanBusy, CleanNext
  PROVE  WorldTypeOK'
<1>1. CASE CleanDiscover
  BY <1>1, DiscoverType DEF CleanDiscover
<1>2. CASE CleanEnd \/ CleanSkip \/ CleanTake
  BY <1>2, SameServicesType DEF CleanEnd, CleanSkip, CleanTake, world,
     WorldTypeOK
<1>3. CASE CleanCheckSource \/ CleanCheckSink
  BY <1>3, StatusReplyType, SameServicesType
     DEF CleanCheckSource, CleanCheckSink, WorldTypeOK
<1>4. CASE CleanCheckBq
  BY <1>4, BudgetType, SameServicesType DEF CleanCheckBq, ExistsReply,
     WorldTypeOK
<1>5. CASE CleanDelBq
  <2>1. budget' \in 0 .. MaxFaults
    BY <1>5, ReplyType DEF CleanDelBq, WorldTypeOK
  <2> QED
    BY <1>5, <2>1 DEF CleanDelBq, WorldTypeOK, connect
<1>6. CASE CleanDelSource
  BY <1>6, DeleteSourceType DEF CleanDelSource, CleanBusy
<1>7. CASE CleanDelSignal
  BY <1>7, RemoveSignalType DEF CleanDelSignal, CleanBusy
<1>8. CASE CleanDelSink
  BY <1>8, DeleteSinkType DEF CleanDelSink, CleanBusy
<1> QED
  BY <1>1, <1>2, <1>3, <1>4, <1>5, <1>6, <1>7, <1>8 DEF CleanNext

(* A step of the cleanup loop keeps its local state typed. *)
LEMMA CleanLocalType ==
  ASSUME WorldTypeOK, CleanLocal, CleanNext
  PROVE  CleanLocal'
<1> USE DEF CleanPcs
<1>1. CASE CleanDiscover
  BY <1>1, DiscoveredType DEF CleanDiscover, CleanLocal, CleanTypeOK,
     CleanBusy,
     CleanAt, CommentKinds
<1>2. CASE CleanEnd
  BY <1>2, CleanRestType DEF CleanEnd
<1>3. CASE CleanSkip
  BY <1>3 DEF CleanSkip, CleanLocal, CleanTypeOK, CleanBusy, CleanAt,
     CommentKinds
<1>4. CASE CleanTake
  BY <1>4 DEF CleanTake, CleanLocal, CleanTypeOK, CleanBusy, CleanT, CleanAt,
     CommentKinds
<1>5. CASE CleanCheckSource \/ CleanCheckSink
  <2>1. CleanT \in Tables
    BY <1>5 DEF CleanCheckSource, CleanCheckSink, CleanLocal, CleanBusy
  <2>2. PICK pc \in CleanPcs, seen \in SUBSET {"source", "sink"} :
          clean' = [clean EXCEPT !.pc = pc, !.seen = seen]
    <3>1. CASE CleanCheckSource
      BY <3>1 DEF CleanCheckSource
    <3>2. CASE CleanCheckSink
      <4>1. PICK found \in SUBSET {"sink"} :
              clean' = [clean EXCEPT !.pc = "checkBq", !.seen = @ \cup found]
        BY <3>2 DEF CleanCheckSink
      <4>2. clean.seen \cup found \in SUBSET {"source", "sink"}
        BY DEF CleanLocal, CleanTypeOK
      <4> QED
        BY <4>1, <4>2
    <3> QED
      BY <1>5, <3>1, <3>2
  <2> QED
    BY <2>1, <2>2 DEF CleanLocal, CleanTypeOK, CleanBusy, CleanT
<1>6. CASE CleanCheckBq
  <2>1. CleanT \in Tables
    BY <1>6 DEF CleanCheckBq, CleanLocal, CleanBusy
  <2> QED
    BY <1>6, <2>1, CleanGotoType, CleanConnectorsType, CleanRestType
       DEF CleanCheckBq
<1>7. CASE CleanDelBq
  <2>1. CleanT \in Tables
    BY <1>7 DEF CleanDelBq, CleanLocal, CleanBusy
  <2> QED
    BY <1>7, <2>1, CleanRestType, CleanConnectorsType DEF CleanDelBq
<1>8. CASE CleanDelSource
  <2>1. CleanT \in Tables
    BY <1>8 DEF CleanDelSource, CleanLocal, CleanBusy
  <2> QED
    BY <1>8, <2>1, CleanProceedType DEF CleanDelSource
<1>9. CASE CleanDelSignal
  <2>1. CleanT \in Tables
    BY <1>9 DEF CleanDelSignal, CleanLocal, CleanBusy
  <2> QED
    BY <1>9, <2>1, CleanGotoType, CleanRestType DEF CleanDelSignal
<1>10. CASE CleanDelSink
  BY <1>10, CleanRestType DEF CleanDelSink
<1> QED
  BY <1>1, <1>2, <1>3, <1>4, <1>5, <1>6, <1>7, <1>8, <1>9, <1>10 DEF CleanNext

(* The moves of the cache checker keep its local state typed. *)
CheckLocal == CheckTypeOK /\ CheckBusy

LEMMA CheckRestType ==
  ASSUME CheckLocal, CheckNextTable \/ CheckRaise
  PROVE  CheckLocal'
  BY DEF CheckLocal, CheckTypeOK, CheckBusy, CheckNextTable, CheckRaise,
         CheckAt, CheckPcs, CommentKinds

LEMMA CheckProceedType ==
  ASSUME CheckLocal, CheckT \in Tables, NEW reply, NEW pc \in CheckPcs,
         CheckProceed(reply, pc)
  PROVE  CheckLocal'
<1>1. CASE reply = "ok"
  BY <1>1 DEF CheckLocal, CheckTypeOK, CheckBusy, CheckT, CheckProceed
<1>2. CASE reply # "ok"
  BY <1>2, CheckRestType DEF CheckProceed
<1> QED
  BY <1>1, <1>2

(* A step of the cache checker leaves the services typed. *)
LEMMA CheckWorldType ==
  ASSUME WorldTypeOK, CheckBusy, CheckNext
  PROVE  WorldTypeOK'
<1>1. CASE CheckDiscover
  BY <1>1, DiscoverType DEF CheckDiscover
<1>2. CASE CheckEnd
  BY <1>2, SameServicesType DEF CheckEnd, world, WorldTypeOK
<1>3. CASE CheckGet \/ CheckCount
  BY <1>3, ReplyType, SameServicesType DEF CheckGet, CheckCount, WorldTypeOK
<1>4. CASE CheckDelete
  <2>1. budget' \in 0 .. MaxFaults
    BY <1>4, ReplyType DEF CheckDelete, WorldTypeOK
  <2> QED
    BY <1>4, <2>1 DEF CheckDelete, WorldTypeOK, connect, copies
<1>5. CASE CheckUnsignal
  BY <1>5, RemoveSignalType DEF CheckUnsignal, CheckBusy
<1> QED
  BY <1>1, <1>2, <1>3, <1>4, <1>5 DEF CheckNext

(* A step of the cache checker keeps its local state typed. *)
LEMMA CheckLocalType ==
  ASSUME WorldTypeOK, CheckLocal, CheckNext
  PROVE  CheckLocal'
<1>1. CASE CheckDiscover
  BY <1>1, DiscoveredType DEF CheckDiscover, CheckLocal, CheckTypeOK,
     CheckBusy, CheckAt, CheckPcs, CommentKinds
<1>2. CASE CheckEnd
  BY <1>2 DEF CheckEnd, CheckLocal, CheckTypeOK, CheckBusy, CheckAt, CheckPcs,
     CommentKinds
<1>3. CASE CheckGet
  <2>1. PICK info \in check.todo, reply \in {"ok", "error"} :
          \/ CheckRaise
          \/ check' = CheckAt("loop", check.tables, check.todo \ {info})
          \/ /\ cached[info[1]] # NoCount
             /\ check' = [CheckAt("loop", check.tables, check.todo \ {info})
                          EXCEPT !.pc = "count", !.info = info,
                                 !.val = cached[info[1]]]
    BY <1>3 DEF CheckGet
  <2>2. info \in Tables \X CommentKinds /\ info[1] \in Tables
    BY DEF CheckLocal, CheckTypeOK
  <2>3. CASE CheckRaise
    BY <2>3, CheckRestType
  <2>4. CASE check' = CheckAt("loop", check.tables, check.todo \ {info})
    BY <2>4 DEF CheckLocal, CheckTypeOK, CheckBusy, CheckAt, CheckPcs,
       CommentKinds
  <2>5. CASE /\ cached[info[1]] # NoCount
             /\ check' = [CheckAt("loop", check.tables, check.todo \ {info})
                          EXCEPT !.pc = "count", !.info = info,
                                 !.val = cached[info[1]]]
    <3>1. cached[info[1]] \in Nat
      BY <2>2, <2>5 DEF WorldTypeOK
    <3> QED
      BY <2>2, <2>5, <3>1 DEF CheckLocal, CheckTypeOK, CheckBusy, CheckT,
         CheckAt, CheckPcs
  <2> QED
    BY <2>1, <2>3, <2>4, <2>5
<1>4. CASE CheckCount
  <2>1. CheckT \in Tables
    BY <1>4 DEF CheckCount, CheckLocal, CheckBusy
  <2> QED
    BY <1>4, <2>1, CheckProceedType, CheckRestType DEF CheckCount, CheckPcs
<1>5. CASE CheckDelete
  <2>1. CheckT \in Tables
    BY <1>5 DEF CheckDelete, CheckLocal, CheckBusy
  <2> QED
    BY <1>5, <2>1, CheckProceedType DEF CheckDelete, CheckPcs
<1>6. CASE CheckUnsignal
  BY <1>6, CheckRestType DEF CheckUnsignal
<1> QED
  BY <1>1, <1>2, <1>3, <1>4, <1>5, <1>6 DEF CheckNext
-----------------------------------------------------------------------------
(* The type invariant is inductive. *)
LEMMA NextTypeInv == TypeInv /\ [Next]_vars => TypeInv'
<1> SUFFICES ASSUME TypeInv, [Next]_vars PROVE TypeInv'
  OBVIOUS
<1> USE DEF TypeInv, TypeOK
<1>1. sync' = sync => SyncTypeOK' /\ SyncBusy'
  BY DEF SyncTypeOK, SyncBusy, SyncT
<1>2. clean' = clean => CleanTypeOK' /\ CleanBusy'
  BY DEF CleanTypeOK, CleanBusy, CleanT
<1>3. check' = check => CheckTypeOK' /\ CheckBusy'
  BY DEF CheckTypeOK, CheckBusy, CheckT
<1>4. CASE SyncStep
  <2>1. WorldTypeOK' /\ SyncLocal'
    BY <1>4, SyncWorldType, SyncLocalType DEF SyncStep, SyncLocal
  <2> QED
    BY <1>2, <1>3, <1>4, <2>1 DEF SyncStep, SyncLocal
<1>5. CASE CleanStep
  <2>1. WorldTypeOK' /\ CleanLocal'
    BY <1>5, CleanWorldType, CleanLocalType DEF CleanStep, CleanLocal
  <2> QED
    BY <1>1, <1>3, <1>5, <2>1 DEF CleanStep, CleanLocal
<1>6. CASE CheckStep
  <2>1. WorldTypeOK' /\ CheckLocal'
    BY <1>6, CheckWorldType, CheckLocalType DEF CheckStep, CheckLocal
  <2> QED
    BY <1>1, <1>2, <1>6, <2>1 DEF CheckStep, CheckLocal
<1>7. CASE PrepareTable \/ PrepareStream \/ PrepareSignals
  <2>1. WorldTypeOK'
    BY <1>7 DEF PrepareTable, PrepareStream, PrepareSignals, Others, connect,
       copies, Registry!CreateTable, Registry!Record, Registry!WipeSignals,
       WorldTypeOK
  <2>2. UNCHANGED <<sync, clean, check>>
    BY <1>7 DEF PrepareTable, PrepareStream, PrepareSignals, Others, locals
  <2> QED
    BY <1>1, <1>2, <1>3, <2>1, <2>2
<1>8. CASE Restart
  <2>1. WorldTypeOK'
    BY <1>8 DEF Restart, Spend, connect, copies, WorldTypeOK
  <2>2. SyncTypeOK' /\ SyncBusy'
    BY <1>8 DEF Restart, SyncAt, SyncTypeOK, SyncBusy, SyncPcs, NoInfo, Infos,
       CommentKinds
  <2>3. CleanTypeOK' /\ CleanBusy'
    BY <1>8 DEF Restart, CleanAt, CleanTypeOK, CleanBusy, CleanPcs,
       CommentKinds
  <2>4. CheckTypeOK' /\ CheckBusy'
    BY <1>8 DEF Restart, CheckAt, CheckTypeOK, CheckBusy, CheckPcs,
       CommentKinds
  <2> QED
    BY <2>1, <2>2, <2>3, <2>4
<1>9. CASE Environment
  <2>1. WorldTypeOK'
    BY <1>9, WorldStepType DEF Environment
  <2> QED
    BY <1>1, <1>2, <1>3, <1>9, <2>1 DEF Environment, locals
<1>10. CASE UNCHANGED vars
  <2>1. WorldTypeOK'
    BY <1>10 DEF vars, world, services, connect, copies, WorldTypeOK
  <2> QED
    BY <1>1, <1>2, <1>3, <1>10, <2>1 DEF vars, locals
<1> QED
  BY <1>4, <1>5, <1>6, <1>7, <1>8, <1>9, <1>10 DEF Next

LEMMA TypeInvariant == Spec => []TypeInv
  BY InitTypeInv, NextTypeInv, PTL DEF Spec

(* Every variable keeps its type: in particular a loop at work always has a *)
(* table in hand, the rows it fetched are rows, and the count it caches is  *)
(* a number, whatever was dropped, deleted or lost since its discovery.     *)
THEOREM TypeCorrect == Spec => []TypeOK
<1>1. TypeInv => TypeOK
  BY DEF TypeInv
<1> QED
  BY <1>1, TypeInvariant, PTL
-----------------------------------------------------------------------------
(* What the sync loop knows of the connectors of the table in hand, when no   *)
(* status request fails.  Only the loop itself adds connectors, so one it  *)
(* has not seen stays missing until it puts it there, although the cleanup *)
(* and Kafka Connect may remove others meanwhile.                          *)
SourceKnown ==
    /\ sync.pc \in {"checkSink", "checkBq", "fetch", "clear", "insert"}
    /\ "source" \notin sync.seen
    => ~SourceExists(SyncT)

SinkKnown ==
    /\ sync.pc \in {"checkBq", "fetch", "clear", "insert", "delSource", "delSignal"}
    /\ "sink" \notin sync.seen
    => ~SinkExists(SyncT)

BackfillIncomplete ==
    sync.pc \in {"checkBq", "fetch", "clear", "insert"} =>
        "source" \notin sync.seen \/ "sink" \notin sync.seen

SourceDeleted ==
    sync.pc \in {"delSignal", "delSink", "unsignal"} => ~SourceExists(SyncT)

ConnectorInv ==
    /\ SourceKnown /\ SinkKnown /\ BackfillIncomplete
    /\ SourceDeleted /\ ResetComplete

(* Outside these places the invariant says nothing. *)
Watched ==
    {"checkSink", "checkBq", "fetch", "clear", "insert", "delSource", "delSignal",
     "delSink", "unsignal"}

LEMMA Unwatched ==
  ASSUME sync.pc \notin Watched
  PROVE  ConnectorInv
  BY DEF Watched, ConnectorInv, SourceKnown, SinkKnown, BackfillIncomplete,
         SourceDeleted, ResetComplete

(* Connectors only vanish, unless the sync loop is about to put one. *)
ConnectorsVanish ==
    /\ source' \subseteq source
    /\ \A n \in Names : sink[n] = NoTable => sink'[n] = NoTable

LEMMA CleanVanish ==
  ASSUME TypeInv, CleanNext
  PROVE  ConnectorsVanish
<1>1. CASE CleanDelSource
  BY <1>1 DEF CleanDelSource, DeleteSource, ConnectorsVanish
<1>2. CASE CleanDelSink
  BY <1>2 DEF CleanDelSink, DeleteSink, ConnectorsVanish, TypeInv, TypeOK,
     WorldTypeOK
<1>3. CASE ~CleanDelSource /\ ~CleanDelSink
  <2>1. UNCHANGED connect
    BY <1>3 DEF CleanNext, CleanDiscover, CleanEnd, CleanSkip, CleanTake,
       CleanCheckSource, CleanCheckSink, CleanCheckBq, CleanDelBq,
       CleanDelSignal, RemoveSignal, DiscoverReply, world, services
  <2> QED
    BY <2>1 DEF connect, ConnectorsVanish
<1> QED
  BY <1>1, <1>2, <1>3

LEMMA CheckVanish ==
  ASSUME CheckNext
  PROVE  ConnectorsVanish
<1>1. UNCHANGED connect
  BY DEF CheckNext, CheckDiscover, CheckEnd, CheckGet, CheckCount, CheckDelete,
     CheckUnsignal, RemoveSignal, DiscoverReply, world, services
<1> QED
  BY <1>1 DEF connect, ConnectorsVanish

LEMMA WorldVanish ==
  ASSUME TypeInv, WorldNext
  PROVE  ConnectorsVanish
<1>1. ASSUME NEW t \in Tables, DropSource(t) PROVE ConnectorsVanish
  BY <1>1 DEF DropSource, ConnectorsVanish
<1>2. ASSUME NEW n \in Names, DropSink(n) PROVE ConnectorsVanish
  BY <1>2 DEF DropSink, ConnectorsVanish, TypeInv, TypeOK, WorldTypeOK
<1>3. CASE UNCHANGED <<source, sink>>
  BY <1>3 DEF ConnectorsVanish
<1> QED
  BY <1>1, <1>2, <1>3
     DEF WorldNext, FailSource, FailSink, connect, SetComment, AppWrite, Capture, Deliver, Expire

(* A step that leaves the sync loop where it is. *)
LEMMA VanishInv ==
  ASSUME TypeInv, ConnectorInv, ConnectorsVanish, sync' = sync
  PROVE  ConnectorInv'
<1>1. CASE sync.pc \notin Watched
  BY <1>1, Unwatched DEF Watched, ConnectorInv, SourceKnown, SinkKnown,
     BackfillIncomplete, SourceDeleted, ResetComplete
<1>2. CASE sync.pc \in Watched
  <2>1. SyncT \in Tables /\ SyncT[2] \in Names
    BY <1>2 DEF Watched, TypeInv, SyncBusy
  <2>2. /\ ~SourceExists(SyncT) => ~SourceExists(SyncT)'
        /\ ~SinkExists(SyncT) => ~SinkExists(SyncT)'
    BY <2>1 DEF ConnectorsVanish, SourceExists, SinkExists, SinkName, SyncT
  <2> QED
    BY <2>2 DEF ConnectorInv, SourceKnown, SinkKnown, BackfillIncomplete,
       SourceDeleted, ResetComplete
<1> QED
  BY <1>1, <1>2

(* A step of the sync loop into a place the invariant does not watch. *)
LEMMA UnwatchedNext ==
  ASSUME sync'.pc \notin Watched
  PROVE  ConnectorInv'
  BY DEF Watched, ConnectorInv, SourceKnown, SinkKnown, BackfillIncomplete,
     SourceDeleted, ResetComplete

(* A call between the decision to backfill and the insert. *)
LEMMA BackfillStepInv ==
  ASSUME TypeInv, ConnectorInv, UNCHANGED connect,
         sync.pc \in {"checkBq", "fetch", "clear"},
         sync'.pc \in {"fetch", "clear", "insert"},
         sync'.info = sync.info, sync'.seen = sync.seen
  PROVE  ConnectorInv'
  BY DEF connect, SyncT, SourceExists, SinkExists, ConnectorInv, SourceKnown,
     SinkKnown, BackfillIncomplete, SourceDeleted, ResetComplete

(* A table's turn ends in a place the invariant does not watch. *)
LEMMA TurnEnds ==
  ASSUME NextTable
  PROVE  sync'.pc = "loop"
  BY DEF NextTable, SyncAt

LEMMA SyncConnectorInv ==
  ASSUME "status" \notin Faults, TypeInv, ConnectorInv, SyncNext
  PROVE  ConnectorInv'
<1> SUFFICES ASSUME sync'.pc \in Watched PROVE ConnectorInv'
  BY UnwatchedNext
<1> USE DEF TypeInv, TypeOK, SyncTypeOK
<1>1. CASE SyncDiscover \/ SyncEnd \/ SyncSkip \/ SyncTake
  <2>1. CASE SyncDiscover
    BY <2>1 DEF SyncDiscover, SyncAt, Watched
  <2>2. CASE SyncEnd
    BY <2>2 DEF SyncEnd, SyncAt, Watched
  <2>3. CASE SyncSkip
    BY <2>3 DEF SyncSkip, SyncAt, Watched
  <2>4. CASE SyncTake
    BY <2>4 DEF SyncTake, SyncAt, Watched
  <2> QED
    BY <1>1, <2>1, <2>2, <2>3, <2>4
<1>2. CASE SyncCheckSource
  <2>1. /\ UNCHANGED connect
        /\ sync'.pc = "checkSink" /\ sync'.info = sync.info
        /\ "source" \notin sync'.seen => ~SourceExists(SyncT)
    BY <1>2 DEF SyncCheckSource, services, StatusReply, Spend
  <2> QED
    BY <2>1 DEF connect, SyncT, SourceExists, ConnectorInv, SourceKnown,
       SinkKnown, BackfillIncomplete, SourceDeleted, ResetComplete
<1>3. CASE SyncCheckSink
  <2>1. PICK found \in SUBSET {"sink"} :
          /\ StatusReply("sink", SinkExists(SyncT), found)
          /\ AfterCheck([sync EXCEPT !.seen = @ \cup found])
    BY <1>3 DEF SyncCheckSink
  <2> DEFINE s == [sync EXCEPT !.seen = @ \cup found]
  <2>2. /\ s.info = sync.info /\ s.todo = sync.todo
        /\ "source" \notin s.seen => ~SourceExists(SyncT)
        /\ "sink" \notin s.seen => ~SinkExists(SyncT)
    BY <1>3, <2>1 DEF SyncCheckSink, StatusReply, Spend, ConnectorInv,
       SourceKnown
  <2>3. s \in [pc : SyncPcs, todo : SUBSET (Tables \X CommentKinds),
               info : Infos, seen : SUBSET {"source", "sink"},
               data : SUBSET Rows, count : Nat,
               via : {"loop", "source", "sink"}]
    OBVIOUS
  <2>4. UNCHANGED connect
    BY <1>3 DEF SyncCheckSink, services
  <2>5. AfterCheck(s)
    BY <2>1
  <2> HIDE DEF s
  <2>6. CASE s.via = "loop" /\ s.seen # {"source", "sink"}
    <3>1. /\ sync'.pc = "checkBq" /\ sync'.info = s.info /\ sync'.seen = s.seen
          /\ "source" \notin s.seen \/ "sink" \notin s.seen
      BY <2>3, <2>5, <2>6 DEF AfterCheck, LoopDecides, ResetDeletes
    <3> QED
      BY <2>2, <2>4, <3>1 DEF connect, SyncT, SourceExists, SinkExists,
         ConnectorInv, SourceKnown, SinkKnown, BackfillIncomplete,
         SourceDeleted, ResetComplete
  <2>7. CASE s.via = "loop" /\ s.seen = {"source", "sink"}
    BY <2>5, <2>7 DEF AfterCheck, LoopDecides, ResetDeletes, SyncAt, Watched
  <2>8. CASE s.via # "loop" /\ "source" \in s.seen
    <3>1. sync'.pc = "delSource" /\ sync'.info = s.info /\ sync'.seen = s.seen
      BY <2>3, <2>5, <2>8 DEF AfterCheck, LoopDecides, ResetDeletes
    <3> QED
      BY <2>2, <2>4, <3>1 DEF connect, SyncT, SourceExists, SinkExists,
         ConnectorInv, SourceKnown, SinkKnown, BackfillIncomplete,
         SourceDeleted, ResetComplete
  <2>9. CASE s.via # "loop" /\ s.seen = {"sink"}
    <3>1. sync'.pc = "delSink" /\ sync'.info = s.info /\ "source" \notin s.seen
      BY <2>3, <2>5, <2>9 DEF AfterCheck, LoopDecides, ResetDeletes
    <3> QED
      BY <2>2, <2>4, <3>1 DEF connect, SyncT, SourceExists, SinkExists,
         ConnectorInv, SourceKnown, SinkKnown, BackfillIncomplete,
         SourceDeleted, ResetComplete
  <2>10. CASE s.via # "loop" /\ s.seen = {}
    <3>1. ~SourceExists(SyncT) /\ ~SinkExists(SyncT)
      BY <2>2, <2>10
    <3>2. sync'.pc = "unsignal" /\ sync'.info = s.info
      BY <2>3, <2>5, <2>10 DEF AfterCheck, LoopDecides, ResetDeletes, ResetEnd, SyncAt, Watched
    <3> QED
      BY <2>2, <2>4, <3>1, <3>2 DEF connect, SyncT, SourceExists, SinkExists,
         SinkName, ConnectorInv, SourceKnown, SinkKnown, BackfillIncomplete,
         SourceDeleted, ResetComplete
  <2> QED
    BY <2>3, <2>6, <2>7, <2>8, <2>9, <2>10
<1>4. CASE SyncCheckBq
  <2>1. /\ UNCHANGED connect /\ sync'.pc \in {"fetch", "dataset", "loop"}
        /\ sync'.pc = "fetch" => /\ sync'.info = sync.info
                                /\ sync'.seen = sync.seen
    BY <1>4 DEF SyncCheckBq, Goto, NextTable, SyncAt, services
  <2> QED
    BY <1>4, <2>1, BackfillStepInv DEF SyncCheckBq, Watched
<1>5. CASE SyncFetch
  <2>1. /\ UNCHANGED connect /\ sync'.pc \in {"clear", "loop"}
        /\ sync'.pc = "clear" => /\ sync'.info = sync.info
                                /\ sync'.seen = sync.seen
    <3> DEFINE rows == bq[BqTable(sync.info)]
    <3> HIDE DEF rows
    <3>1. UNCHANGED connect
      BY <1>5 DEF SyncFetch, services
    <3>2. CASE NextTable
      BY <3>1, <3>2, TurnEnds
    <3>3. CASE sync' = [sync EXCEPT !.pc = "clear", !.data = rows]
      <4>1. sync \in [pc : SyncPcs, todo : SUBSET (Tables \X CommentKinds),
                     info : Infos, seen : SUBSET {"source", "sink"},
                     data : SUBSET Rows, count : Nat,
                     via : {"loop", "source", "sink"}]
        OBVIOUS
      <4> HIDE DEF TypeInv, TypeOK, SyncTypeOK
      <4> QED
        BY <3>1, <3>3, <4>1
    <3>4. NextTable \/ sync' = [sync EXCEPT !.pc = "clear", !.data = rows]
      <4> HIDE DEF TypeInv, TypeOK, SyncTypeOK
      <4> QED
        BY <1>5 DEF SyncFetch, rows
    <3> QED
      BY <3>2, <3>3, <3>4
  <2> QED
    BY <1>5, <2>1, BackfillStepInv DEF SyncFetch, Watched
<1>6. CASE SyncClear
  <2>1. /\ UNCHANGED connect /\ sync'.pc \in {"insert", "loop"}
        /\ sync'.pc = "insert" => /\ sync'.info = sync.info
                                 /\ sync'.seen = sync.seen
    BY <1>6 DEF SyncClear, Proceed, Goto, NextTable, SyncAt
  <2> QED
    BY <1>6, <2>1, BackfillStepInv DEF SyncClear, Watched
<1>7. CASE SyncInsert \/ SyncDataset \/ SyncRowCount \/ SyncRecount \/ SyncCacheCount
  <2>1. CASE SyncInsert
    BY <2>1 DEF SyncInsert, Proceed, Goto, NextTable, SyncAt, Watched
  <2>2. CASE SyncDataset
    <3>1. NextTable \/ sync' = [sync EXCEPT !.pc = "rowCount", !.data = {}]
      <4> HIDE DEF TypeInv, TypeOK, SyncTypeOK
      <4> QED
        BY <2>2 DEF SyncDataset
    <3>2. sync'.pc \in {"loop", "rowCount"}
      <4>1. CASE NextTable
        BY <4>1, TurnEnds
      <4>2. CASE sync' = [sync EXCEPT !.pc = "rowCount", !.data = {}]
        BY <4>2
      <4> QED
        BY <3>1, <4>1, <4>2
    <3> QED
      BY <3>2 DEF Watched
  <2>3. CASE SyncRowCount
    BY <2>3 DEF SyncRowCount, Proceed, Goto, NextTable, SyncAt, Watched
  <2>4. CASE SyncRecount
    <3>1. NextTable \/ sync' = [sync EXCEPT !.pc = "cacheCount",
                                          !.count = Cardinality(yb[SyncT])]
      <4> HIDE DEF TypeInv, TypeOK, SyncTypeOK
      <4> QED
        BY <2>4 DEF SyncRecount
    <3>2. sync'.pc \in {"loop", "cacheCount"}
      <4>1. CASE NextTable
        BY <4>1, TurnEnds
      <4>2. CASE sync' = [sync EXCEPT !.pc = "cacheCount",
                                          !.count = Cardinality(yb[SyncT])]
        BY <4>2
      <4> QED
        BY <3>1, <4>1, <4>2
    <3> QED
      BY <3>2 DEF Watched
  <2>5. CASE SyncCacheCount
    <3>1. NextTable \/ sync' = [sync EXCEPT !.pc = "stream", !.count = 0]
      <4> HIDE DEF TypeInv, TypeOK, SyncTypeOK
      <4> QED
        BY <2>5 DEF SyncCacheCount
    <3>2. sync'.pc \in {"loop", "stream"}
      <4>1. CASE NextTable
        BY <4>1, TurnEnds
      <4>2. CASE sync' = [sync EXCEPT !.pc = "stream", !.count = 0]
        BY <4>2
      <4> QED
        BY <3>1, <4>1, <4>2
    <3> QED
      BY <3>2 DEF Watched
  <2> QED
    BY <1>7, <2>1, <2>2, <2>3, <2>4, <2>5
<1>8. CASE SyncStream \/ SyncSignalCount \/ SyncSignal \/ SyncPutSource
  <2>1. CASE SyncStream
    BY <2>1 DEF SyncStream, Proceed, ProceedOrReset, Reset, Goto, NextTable,
       SyncAt, Watched
  <2>2. CASE SyncSignalCount
    BY <2>2 DEF SyncSignalCount, Proceed, ProceedOrReset, Reset, Goto,
       NextTable, SyncAt, Watched
  <2>3. CASE SyncSignal
    BY <2>3 DEF SyncSignal, Proceed, ProceedOrReset, Reset, Goto, NextTable,
       SyncAt, Watched
  <2>4. CASE SyncPutSource
    BY <2>4 DEF SyncPutSource, Proceed, ProceedOrReset, Reset, Goto, NextTable,
       SyncAt, Watched
  <2> QED
    BY <1>8, <2>1, <2>2, <2>3, <2>4
<1>9. CASE SyncKeyfile \/ SyncSinkDataset \/ SyncPutSink \/ SyncUnsignal
  <2>1. CASE SyncKeyfile
    BY <2>1 DEF SyncKeyfile, Proceed, ProceedOrReset, Reset, Goto, NextTable,
       SyncAt, Watched
  <2>2. CASE SyncSinkDataset
    BY <2>2 DEF SyncSinkDataset, Proceed, ProceedOrReset, Reset, Goto,
       NextTable, SyncAt, Watched
  <2>3. CASE SyncPutSink
    <3>1. NextTable \/ Reset("sink")
      <4> HIDE DEF TypeInv, TypeOK, SyncTypeOK
      <4> QED
        BY <2>3 DEF SyncPutSink
    <3>2. sync'.pc \in {"loop", "checkSource"}
      <4>1. CASE NextTable
        BY <4>1, TurnEnds
      <4>2. CASE Reset("sink")
        BY <4>2 DEF Reset
      <4> QED
        BY <3>1, <4>1, <4>2
    <3> QED
      BY <3>2 DEF Watched
  <2>4. CASE SyncUnsignal
    BY <2>4 DEF SyncUnsignal, Proceed, ProceedOrReset, Reset, Goto, NextTable,
       SyncAt, Watched
  <2> QED
    BY <1>9, <2>1, <2>2, <2>3, <2>4
<1>10. CASE SyncDelSource
  <2>1. /\ sync'.pc = "delSignal" /\ sync'.info = sync.info /\ sync'.seen = sync.seen
        /\ source' = source \ {SyncT} /\ sink' = sink
    BY <1>10 DEF SyncDelSource, DeleteSource, Effective, Proceed, Goto,
       NextTable, SyncAt, Watched
  <2> QED
    BY <1>10, <2>1 DEF SyncDelSource, SyncT, SourceExists, SinkExists,
       ConnectorInv, SourceKnown, SinkKnown, BackfillIncomplete, SourceDeleted,
       ResetComplete
<1>11. CASE SyncDelSignal
  <2>1. UNCHANGED connect
    BY <1>11 DEF SyncDelSignal, RemoveSignal
  <2>2. CASE "sink" \in sync.seen
    <3>1. sync'.pc = "delSink" /\ sync'.info = sync.info
      BY <1>11, <2>2 DEF SyncDelSignal, Goto, NextTable, SyncAt, Watched
    <3> QED
      BY <1>11, <2>1, <3>1 DEF SyncDelSignal, connect, SyncT, SourceExists,
         ConnectorInv, SourceKnown, SinkKnown, BackfillIncomplete,
         SourceDeleted, ResetComplete
  <2>3. CASE "sink" \notin sync.seen
    <3>1. sync'.pc = "unsignal" /\ sync'.info = sync.info
      BY <1>11, <2>3 DEF SyncDelSignal, ResetEnd, NextTable, SyncAt, Watched
    <3> QED
      BY <1>11, <2>1, <2>3, <3>1 DEF SyncDelSignal, connect, SyncT,
         SourceExists, SinkExists, ConnectorInv, SourceKnown, SinkKnown,
            BackfillIncomplete, SourceDeleted, ResetComplete
  <2> QED
    BY <2>2, <2>3
<1>12. CASE SyncDelSink
  <2>1. /\ sync'.pc = "unsignal" /\ sync'.info = sync.info
        /\ source' = source
        /\ sink' = [sink EXCEPT ![SinkName(SyncT)] = NoTable]
    BY <1>12 DEF SyncDelSink, DeleteSink, Effective, ResetEnd, NextTable,
       SyncAt, Watched
  <2>2. SinkName(SyncT) \in Names
    BY <1>12 DEF SyncDelSink, SyncBusy, SinkName
  <2> QED
    BY <1>12, <2>1, <2>2 DEF SyncDelSink, SyncT, SinkName, WorldTypeOK,
       SourceExists, SinkExists, ConnectorInv, SourceKnown, SinkKnown,
          BackfillIncomplete, SourceDeleted, ResetComplete
<1> QED
  BY <1>1, <1>2, <1>3, <1>4, <1>5, <1>6, <1>7, <1>8, <1>9, <1>10, <1>11, <1>12
     DEF SyncNext

(* The invariant of the connectors is inductive. *)
LEMMA NextConnectorInv ==
  ASSUME "status" \notin Faults, TypeInv, ConnectorInv, [Next]_vars
  PROVE  ConnectorInv'
<1>1. CASE SyncStep
  BY <1>1, SyncConnectorInv DEF SyncStep
<1>2. CASE CleanStep
  BY <1>2, CleanVanish, VanishInv DEF CleanStep
<1>3. CASE CheckStep
  BY <1>3, CheckVanish, VanishInv DEF CheckStep
<1>4. CASE PrepareTable \/ PrepareStream \/ PrepareSignals
  <2>1. UNCHANGED <<source, sink, sync>>
    BY <1>4 DEF PrepareTable, PrepareStream, PrepareSignals, Others, connect,
       locals
  <2> QED
    BY <2>1, VanishInv DEF ConnectorsVanish
<1>5. CASE Restart
  BY <1>5, UnwatchedNext DEF Restart, SyncAt, Watched
<1>6. CASE Environment
  BY <1>6, WorldVanish, VanishInv DEF Environment, locals
<1>7. CASE UNCHANGED vars
  <2>1. UNCHANGED <<source, sink, sync>>
    BY <1>7 DEF vars, world, services, connect, locals
  <2> QED
    BY <2>1, VanishInv DEF ConnectorsVanish
<1> QED
  BY <1>1, <1>2, <1>3, <1>4, <1>5, <1>6, <1>7 DEF Next

LEMMA ConnectorInvariant ==
  ASSUME "status" \notin Faults
  PROVE  Spec => []ConnectorInv
<1>1. Init => ConnectorInv
  BY Unwatched DEF Init, SyncInit, SyncAt, Watched
<1>2. TypeInv /\ ConnectorInv /\ [Next]_vars => ConnectorInv'
  BY NextConnectorInv
<1> QED
  BY <1>1, <1>2, TypeInvariant, PTL DEF Spec

(* Unless a status request fails, the backfill overwrites a table only     *)
(* while its pipeline is down, however the cleanup, the users, crashes and *)
(* any number of other failures interleave with it.                        *)
THEOREM BackfillIsOffline ==
  ASSUME "status" \notin Faults
  PROVE  Spec => []BackfillOffline
<1>1. TypeInv /\ ConnectorInv => BackfillOffline
  BY DEF TypeInv, SyncBusy, BackfillOffline, Live, ConnectorInv, SourceKnown,
         SinkKnown, BackfillIncomplete, SourceExists, SinkExists
<1> QED
  BY <1>1, TypeInvariant, ConnectorInvariant, PTL

(* Unless a status request fails, the handler of a failed source creation  *)
(* reaches its last call only with both connectors gone.                   *)
THEOREM ResetIsComplete ==
  ASSUME "status" \notin Faults
  PROVE  Spec => []ResetComplete
<1>1. ConnectorInv => ResetComplete
  BY DEF ConnectorInv
<1> QED
  BY <1>1, ConnectorInvariant, PTL
=============================================================================
