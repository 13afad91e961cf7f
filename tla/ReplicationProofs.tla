-------------------------- MODULE ReplicationProofs ---------------------------
(***************************************************************************)
(* Orchestrator implements Replication, for every value of the constants,  *)
(* as long as no status request of Kafka Connect fails.                    *)
(***************************************************************************)
EXTENDS OrchestratorProofs

USE TablesAssumption, RowsAssumption, NoTableAssumption, NoCopyAssumption,
    NoCountAssumption, CommentsAssumption, FaultsAssumption
    DEF cdc

(* What the owners of the tables see, apart from the backfill. *)
owned == <<comment, yb, bq>>
abstract == <<comment, yb, bq, LiveTables, Backfill>>

LEMMA AbstractVars == Copying!vars = abstract
  BY DEF Copying!vars, abstract

LEMMA LiveSame ==
  ASSUME UNCHANGED <<source, sink>>
  PROVE  LiveTables' = LiveTables
  BY DEF LiveTables, Live

(* A step that touches neither rows nor connectors: at most it ends the    *)
(* backfill.                                                               *)
LEMMA QuietStep ==
  ASSUME UNCHANGED owned, UNCHANGED connect, Backfill' \in {Backfill, {}}
  PROVE  [Copying!Next]_(Copying!vars)
<1>1. UNCHANGED <<comment, yb, bq, LiveTables>>
  BY LiveSame DEF owned, connect
<1>2. CASE Backfill' = Backfill
  BY <1>1, <1>2 DEF Copying!vars
<1>3. CASE Backfill' = {}
  BY <1>1, <1>3 DEF Copying!Next, Copying!EndBackfill
<1> QED
  BY <1>2, <1>3

(* A step in which connectors only vanish. *)
ConnectorsGo ==
    /\ source' \subseteq source
    /\ \A n \in Names : sink'[n] \in {sink[n], NoTable}

LEMMA LoseStep ==
  ASSUME UNCHANGED owned, ConnectorsGo, Backfill' = Backfill
  PROVE  [Copying!Next]_(Copying!vars)
<1>1. LiveTables' \subseteq LiveTables
  BY DEF ConnectorsGo, LiveTables, Live, SinkName
<1> QED
  BY <1>1 DEF owned, Copying!Next, Copying!LoseLive

LEMMA DeleteSourceGo ==
  ASSUME WorldTypeOK, NEW t \in Tables, NEW reply, DeleteSource(t, reply)
  PROVE  ConnectorsGo /\ UNCHANGED owned
  BY DEF DeleteSource, ConnectorsGo, WorldTypeOK, owned, copies

LEMMA DeleteSinkGo ==
  ASSUME WorldTypeOK, NEW t \in Tables, NEW reply, DeleteSink(t, reply)
  PROVE  ConnectorsGo /\ UNCHANGED owned
  BY DEF DeleteSink, SinkName, ConnectorsGo, WorldTypeOK, owned, copies

LEMMA RemoveSignalGo ==
  ASSUME NEW t, NEW reply, RemoveSignal(t, reply)
  PROVE  UNCHANGED <<owned, connect>>
  BY DEF RemoveSignal, owned, copies

LEMMA DiscoverGo ==
  ASSUME NEW found, DiscoverReply(found)
  PROVE  UNCHANGED <<owned, connect>>
  BY DEF DiscoverReply, owned, copies

LEMMA ServicesSame ==
  ASSUME UNCHANGED services
  PROVE  UNCHANGED <<owned, connect>>
  BY DEF services, owned, copies

LEMMA WorldSame ==
  ASSUME UNCHANGED world
  PROVE  UNCHANGED <<owned, connect>>
  BY ServicesSame DEF world
-----------------------------------------------------------------------------
(* The sync loop outside its backfill does not come into it but by SyncFetch. *)
LEMMA OffBackfill ==
  ASSUME TypeInv, SyncNext, ~SyncFetch, ~SyncClear
  PROVE  Backfill' = {}
<1> SUFFICES sync'.pc \notin {"clear", "insert"}
  BY DEF Backfill
<1> USE DEF TypeInv, TypeOK, SyncTypeOK
<1>1. NextTable => sync'.pc = "loop"
  BY DEF NextTable, SyncAt
<1>2. ASSUME NEW pc, Goto(pc) PROVE sync'.pc = pc
  BY <1>2 DEF Goto
<1>3. ASSUME NEW via, Reset(via) PROVE sync'.pc = "checkSource"
  BY <1>3 DEF Reset
<1>4. /\ \A pc, r : Proceed(r, pc) => sync'.pc \in {pc, "loop"}
      /\ \A pc, r, via :
             ProceedOrReset(r, pc, via) => sync'.pc \in {pc, "checkSource"}
  BY <1>1, <1>2, <1>3 DEF Proceed, ProceedOrReset
<1>5. ResetEnd(sync) => sync'.pc \in {"unsignal", "loop"}
  BY DEF ResetEnd, SyncAt
<1>6. CASE SyncDiscover \/ SyncEnd \/ SyncSkip \/ SyncTake \/ SyncCheckSource
  <2>1. CASE SyncDiscover \/ SyncEnd \/ SyncSkip
    BY <2>1 DEF SyncDiscover, SyncEnd, SyncSkip, SyncAt
  <2>2. CASE SyncTake
    BY <2>2 DEF SyncTake, SyncAt
  <2>3. CASE SyncCheckSource
    BY <2>3 DEF SyncCheckSource
  <2> QED
    BY <1>6, <2>1, <2>2, <2>3
<1>7. CASE SyncCheckSink
  <2>1. PICK found \in SUBSET {"sink"} :
          AfterCheck([sync EXCEPT !.seen = @ \cup found])
    BY <1>7 DEF SyncCheckSink
  <2> DEFINE s == [sync EXCEPT !.seen = @ \cup found]
  <2>2. DOMAIN s = DOMAIN sync /\ "pc" \in DOMAIN s
    OBVIOUS
  <2>3. AfterCheck(s)
    BY <2>1
  <2> HIDE DEF s
  <2>4. ASSUME NEW pc, sync' = [s EXCEPT !.pc = pc] PROVE sync'.pc = pc
    BY <2>2, <2>4
  <2> QED
    BY <2>3, <2>4 DEF AfterCheck, LoopDecides, ResetDeletes, ResetEnd, SyncAt
<1>8. CASE SyncCheckBq
  <2>1. \/ \E found \in SUBSET {"bq"} : Goto(IF found = {} THEN "dataset" ELSE "fetch")
        \/ NextTable
    BY <1>8 DEF SyncCheckBq
  <2> QED
    BY <1>1, <2>1 DEF Goto
<1>9. CASE SyncInsert
  <2>1. Goto("dataset") \/ NextTable \/ \E r : Proceed(r, "dataset")
    BY <1>9 DEF SyncInsert
  <2> QED
    BY <1>1, <1>4, <2>1 DEF Goto
<1>10. CASE SyncDataset
  BY <1>1, <1>10 DEF SyncDataset
<1>11. CASE SyncRowCount
  <2>1. \/ \E r : Proceed(r, "recount")
        \/ \E r : Proceed(r, "stream")
    BY <1>11 DEF SyncRowCount
  <2> QED
    BY <1>4, <2>1
<1>12. CASE SyncRecount \/ SyncCacheCount
  BY <1>1, <1>12 DEF SyncRecount, SyncCacheCount
<1>13. CASE SyncStream
  <2>1. NextTable \/ \E r : Proceed(r, "signalCount")
    BY <1>13 DEF SyncStream
  <2> QED
    BY <1>1, <1>4, <2>1
<1>14. CASE SyncSignalCount
  <2>1. \/ \E r : ProceedOrReset(r, "signal", "source")
        \/ \E r : ProceedOrReset(r, "putSource", "source")
    BY <1>14 DEF SyncSignalCount
  <2> QED
    BY <1>4, <2>1
<1>15. CASE SyncSignal \/ SyncPutSource \/ SyncKeyfile \/ SyncSinkDataset
  <2>1. \/ \E r : ProceedOrReset(r, "putSource", "source")
        \/ \E r : ProceedOrReset(r, "keyfile", "source")
        \/ \E r : Proceed(r, "sinkDataset")
        \/ \E r : ProceedOrReset(r, "putSink", "sink")
    BY <1>15 DEF SyncSignal, SyncPutSource, SyncKeyfile, SyncSinkDataset
  <2> QED
    BY <1>4, <2>1
<1>16. CASE SyncPutSink
  BY <1>1, <1>3, <1>16 DEF SyncPutSink
<1>17. CASE SyncDelSource
  BY <1>4, <1>17 DEF SyncDelSource
<1>18. CASE SyncDelSignal \/ SyncDelSink \/ SyncUnsignal
  BY <1>1, <1>2, <1>5, <1>18 DEF SyncDelSignal, SyncDelSink, SyncUnsignal
<1> QED
  BY <1>6, <1>7, <1>8, <1>9, <1>10, <1>11, <1>12, <1>13, <1>14, <1>15, <1>16,
     <1>17, <1>18 DEF SyncNext

(* The three calls of the backfill. *)
LEMMA FetchStep ==
  ASSUME TypeInv, ConnectorInv, SyncFetch
  PROVE  [Copying!Next]_(Copying!vars)
<1>1. /\ sync.pc = "fetch" /\ SyncT \in Tables
      /\ UNCHANGED <<owned, connect>>
  BY ServicesSame DEF SyncFetch, TypeInv, SyncBusy
<1>2. CASE NextTable
  BY <1>1, <1>2, TurnEnds, QuietStep DEF Backfill
<1> DEFINE g == TargetOf(sync.info[2])
           rows == bq[<<SyncT, g>>]
<1> HIDE DEF rows
<1>3. CASE rows # NoCopy /\ sync' = [sync EXCEPT !.pc = "clear", !.data = rows]
  <2>1. SyncT \notin LiveTables
    BY <1>1 DEF ConnectorInv, BackfillIncomplete, SourceKnown, SinkKnown,
       LiveTables, Live, SourceExists, SinkExists
  <2>2. Backfill = {} /\ Backfill' = {<<SyncT, rows>>}
    BY <1>1, <1>3 DEF Backfill, SyncT, TypeInv, TypeOK, SyncTypeOK
  <2>3. UNCHANGED <<comment, yb, bq, LiveTables>>
    BY <1>1, LiveSame DEF owned, connect
  <2>4. g \in Targets
    BY DEF TargetOf, Targets
  <2>5. Copying!Fetch(SyncT)
    BY <1>3, <2>1, <2>2, <2>3, <2>4 DEF Copying!Fetch, rows
  <2> QED
    BY <1>1, <2>5 DEF Copying!Next
<1>4. \/ NextTable
      \/ rows # NoCopy /\ sync' = [sync EXCEPT !.pc = "clear", !.data = rows]
  BY DEF SyncFetch, rows, BqTable, SyncT
<1> QED
  BY <1>2, <1>3, <1>4

(* While it clears and inserts, the table in hand is not live. *)
LEMMA BackfillNow ==
  ASSUME TypeInv, ConnectorInv, sync.pc \in {"clear", "insert"}
  PROVE  /\ SyncT \in Tables \ LiveTables /\ sync.data \in SUBSET Rows
         /\ Backfill = {<<SyncT, sync.data>>}
  BY DEF TypeInv, TypeOK, SyncTypeOK, SyncBusy, ConnectorInv,
     BackfillIncomplete, SourceKnown, SinkKnown, LiveTables, Live,
     SourceExists, SinkExists, Backfill

LEMMA ClearStep ==
  ASSUME TypeInv, ConnectorInv, SyncClear
  PROVE  [Copying!Next]_(Copying!vars)
<1>1. PICK reply \in Replies :
        /\ SqlReply(SyncT, reply)
        /\ yb' = IF Effective(reply) THEN [yb EXCEPT ![SyncT] = {}] ELSE yb
        /\ Proceed(reply, "insert")
  BY DEF SyncClear
<1>2. /\ SyncT \in Tables \ LiveTables /\ sync.data \in SUBSET Rows
      /\ Backfill = {<<SyncT, sync.data>>}
  BY BackfillNow DEF SyncClear
<1>3. UNCHANGED <<comment, bq, connect>>
  BY DEF SyncClear, copies
<1>4. Backfill' \in {Backfill, {}}
  <2>1. CASE Goto("insert")
    BY <2>1, <1>2 DEF Goto, Backfill, SyncT, TypeInv, TypeOK, SyncTypeOK
  <2>2. CASE NextTable
    BY <2>2, TurnEnds DEF Backfill
  <2> QED
    BY <1>1, <2>1, <2>2 DEF Proceed
<1>5. CASE ~Effective(reply)
  BY <1>1, <1>3, <1>4, <1>5, QuietStep DEF owned
<1>6. CASE Effective(reply)
  <2>1. comment[SyncT] # "gone"
    BY <1>1, <1>6 DEF SqlReply, ReplyIf, Effective
  <2>2. Copying!Clear(SyncT)
    BY <1>1, <1>2, <1>3, <1>4, <1>6, <2>1, LiveSame DEF Copying!Clear, connect
  <2> QED
    BY <1>2, <2>2 DEF Copying!Next
<1> QED
  BY <1>5, <1>6

LEMMA InsertStep ==
  ASSUME TypeInv, ConnectorInv, SyncInsert
  PROVE  [Copying!Next]_(Copying!vars)
<1>1. /\ SyncT \in Tables \ LiveTables /\ sync.data \in SUBSET Rows
      /\ Backfill = {<<SyncT, sync.data>>}
  BY BackfillNow DEF SyncInsert
<1>2. Backfill' = {}
  BY OffBackfill DEF SyncNext, SyncInsert, SyncFetch, SyncClear
<1>3. UNCHANGED <<comment, bq, connect>>
  BY DEF SyncInsert, copies
<1>4. CASE yb' = yb
  BY <1>2, <1>3, <1>4, QuietStep DEF owned
<1>5. CASE yb' # yb
  <2>1. PICK reply \in Replies :
          /\ SqlReply(SyncT, reply) /\ Effective(reply)
          /\ sync.data \cap yb[SyncT] = {}
          /\ yb' = [yb EXCEPT ![SyncT] = @ \cup sync.data]
    BY <1>5 DEF SyncInsert
  <2>2. comment[SyncT] # "gone"
    BY <2>1 DEF SqlReply, ReplyIf, Effective
  <2>3. Copying!Restore(SyncT, sync.data)
    BY <1>1, <1>2, <1>3, <2>1, <2>2, LiveSame DEF Copying!Restore, connect
  <2> QED
    BY <1>1, <2>3 DEF Copying!Next
<1> QED
  BY <1>4, <1>5

(* A PUT brings at most the table in hand to life. *)
LEMMA PutStep ==
  ASSUME TypeInv, SyncPutSource \/ SyncPutSink
  PROVE  [Copying!Next]_(Copying!vars)
<1>1. SyncT \in Tables /\ SinkName(SyncT) \in Names
  BY DEF SyncPutSource, SyncPutSink, TypeInv, SyncBusy, SinkName
<1>2. Backfill = {}
  BY DEF SyncPutSource, SyncPutSink, Backfill
<1>3. Backfill' = {}
  BY OffBackfill DEF SyncNext, SyncPutSource, SyncPutSink, SyncFetch, SyncClear
<1>4. UNCHANGED owned
  BY DEF SyncPutSource, SyncPutSink, owned, copies
<1>5. LiveTables' \subseteq LiveTables \cup {SyncT}
  <2>1. CASE SyncPutSource
    BY <2>1 DEF SyncPutSource, LiveTables, Live
  <2>2. CASE SyncPutSink
    BY <1>1, <2>2 DEF SyncPutSink, LiveTables, Live, TypeInv, TypeOK,
       WorldTypeOK, SinkName
  <2> QED
    BY <2>1, <2>2
<1> QED
  BY <1>1, <1>2, <1>3, <1>4, <1>5 DEF owned, Copying!Next, Copying!GoLive

LEMMA SyncCopies ==
  ASSUME TypeInv, ConnectorInv, SyncNext
  PROVE  [Copying!Next]_(Copying!vars)
<1>1. CASE SyncFetch \/ SyncClear \/ SyncInsert \/ SyncPutSource \/ SyncPutSink
  BY <1>1, FetchStep, ClearStep, InsertStep, PutStep
<1>2. CASE SyncDelSource \/ SyncDelSink
  <2>1. SyncT \in Tables /\ Backfill = {}
    BY <1>2 DEF SyncDelSource, SyncDelSink, TypeInv, SyncBusy, Backfill
  <2>2. Backfill' = {}
    BY <1>2, OffBackfill DEF SyncDelSource, SyncDelSink, SyncFetch, SyncClear
  <2>3. ConnectorsGo /\ UNCHANGED owned
    BY <1>2, <2>1, DeleteSourceGo, DeleteSinkGo
       DEF SyncDelSource, SyncDelSink, TypeInv, TypeOK
  <2> QED
    BY <2>1, <2>2, <2>3, LoseStep
<1>3. CASE ~(SyncFetch \/ SyncClear \/ SyncInsert \/ SyncPutSource \/ SyncPutSink
             \/ SyncDelSource \/ SyncDelSink)
  <2>1. UNCHANGED <<owned, connect>>
    <3>1. CASE SyncDiscover
      BY <3>1, DiscoverGo DEF SyncDiscover
    <3>2. CASE SyncEnd \/ SyncSkip \/ SyncTake
      BY <3>2, WorldSame DEF SyncEnd, SyncSkip, SyncTake
    <3>3. CASE SyncSignal \/ SyncCacheCount
      BY <3>3 DEF SyncSignal, SyncCacheCount, owned, copies
    <3>4. CASE SyncDelSignal \/ SyncUnsignal
      BY <3>4, RemoveSignalGo DEF SyncDelSignal, SyncUnsignal
    <3>5. CASE UNCHANGED services
      BY <3>5, ServicesSame
    <3> QED
      BY <1>3, <3>1, <3>2, <3>3, <3>4, <3>5 DEF SyncNext,
         SyncCheckSource, SyncCheckSink, SyncCheckBq, SyncDataset, SyncRowCount,
         SyncRecount, SyncStream, SyncSignalCount, SyncKeyfile, SyncSinkDataset
  <2>2. Backfill' = {}
    BY <1>3, OffBackfill
  <2> QED
    BY <2>1, <2>2, QuietStep
<1> QED
  BY <1>1, <1>2, <1>3
-----------------------------------------------------------------------------
LEMMA BackfillSame ==
  ASSUME sync' = sync
  PROVE  Backfill' = Backfill
  BY DEF Backfill, SyncT

LEMMA CleanCopies ==
  ASSUME TypeInv, CleanNext, sync' = sync
  PROVE  [Copying!Next]_(Copying!vars)
<1>1. CASE CleanDelSource \/ CleanDelSink
  BY <1>1, BackfillSame, LoseStep, DeleteSourceGo, DeleteSinkGo
     DEF CleanDelSource, CleanDelSink, TypeInv, TypeOK, CleanBusy
<1>2. CASE CleanDelBq
  <2> DEFINE g == TargetOf(clean.info[2])
  <2>1. CleanT \in Tables /\ g \in Targets
    BY <1>2 DEF CleanDelBq, TypeInv, CleanBusy, TargetOf, Targets
  <2>2. bq' \in {bq, [bq EXCEPT ![<<CleanT, g>>] = NoCopy]}
    BY <1>2 DEF CleanDelBq, BqTable, CleanT
  <2>3. UNCHANGED <<comment, yb, LiveTables, Backfill>>
    BY <1>2, LiveSame, BackfillSame DEF CleanDelBq, connect
  <2>4. CASE bq' = bq
    BY <2>3, <2>4 DEF Copying!vars
  <2>5. CASE bq' = [bq EXCEPT ![<<CleanT, g>>] = NoCopy]
    BY <2>1, <2>3, <2>5 DEF Copying!Next, Copying!Feed
  <2> QED
    BY <2>2, <2>4, <2>5
<1>3. CASE ~(CleanDelSource \/ CleanDelSink \/ CleanDelBq)
  <2>1. UNCHANGED <<owned, connect>>
    BY <1>3, WorldSame, ServicesSame, RemoveSignalGo, DiscoverGo DEF CleanNext,
       CleanDiscover, CleanEnd, CleanSkip, CleanTake, CleanCheckSource,
       CleanCheckSink, CleanCheckBq, CleanDelSignal
  <2> QED
    BY <2>1, BackfillSame, QuietStep
<1> QED
  BY <1>1, <1>2, <1>3

LEMMA CheckCopies ==
  ASSUME CheckNext, sync' = sync
  PROVE  [Copying!Next]_(Copying!vars)
<1>1. UNCHANGED <<owned, connect>>
  <2>1. CASE CheckDelete
    BY <2>1 DEF CheckDelete, owned, copies
  <2>2. CASE ~CheckDelete
    BY <2>2, WorldSame, ServicesSame, RemoveSignalGo, DiscoverGo DEF CheckNext,
       CheckDiscover, CheckEnd, CheckGet, CheckCount, CheckUnsignal
  <2> QED
    BY <2>1, <2>2
<1> QED
  BY <1>1, BackfillSame, QuietStep

LEMMA WorldCopies ==
  ASSUME TypeInv, WorldNext, sync' = sync
  PROVE  [Copying!Next]_(Copying!vars)
<1> USE DEF TypeInv, TypeOK, WorldTypeOK
<1>1. Backfill' = Backfill
  BY BackfillSame
<1>2. ASSUME NEW t \in Tables, NEW c \in Comments, SetComment(t, c)
      PROVE  [Copying!Next]_(Copying!vars)
  <2>1. Copying!Comment(t, c)
    BY <1>1, <1>2, LiveSame DEF SetComment, connect, copies, Copying!Comment
  <2> QED
    BY <2>1 DEF Copying!Next
<1>3. ASSUME NEW t \in Tables, NEW r \in Rows, AppWrite(t, r)
      PROVE  [Copying!Next]_(Copying!vars)
  <2>1. Copying!Write(t, r)
    BY <1>1, <1>3, LiveSame DEF AppWrite, connect, copies, Copying!Write
  <2> QED
    BY <2>1 DEF Copying!Next
<1>4. ASSUME NEW t \in Tables, Capture(t) \/ Expire(t)
      PROVE  [Copying!Next]_(Copying!vars)
  BY <1>1, <1>4, QuietStep DEF Capture, Expire, owned, copies
<1>5. ASSUME NEW t \in Tables, Deliver(t)
      PROVE  [Copying!Next]_(Copying!vars)
  <2> DEFINE g == target[SinkName(t)]
             b == <<t, g>>
  <2>1. g \in Targets
    BY DEF SinkName
  <2>2. PICK rows \in SUBSET Rows : bq' = [bq EXCEPT ![b] = rows]
    <3>1. PICK kept \in SUBSET (IF bq[b] = NoCopy THEN {} ELSE bq[b]) :
            bq' = [bq EXCEPT ![b] = topic[t] \cup kept]
      BY <1>5 DEF Deliver
    <3>2. topic[t] \in SUBSET Rows
      BY <1>5 DEF Deliver
    <3>3. kept \in SUBSET Rows
      BY <2>1, <3>1
    <3> QED
      BY <3>1, <3>2, <3>3
  <2>3. Copying!Feed(b, rows)
    BY <1>1, <1>5, <2>2, LiveSame DEF Deliver, connect, Copying!Feed
  <2> QED
    BY <2>1, <2>3 DEF Copying!Next
<1>6. ASSUME NEW t \in Tables, DropSource(t)
      PROVE  [Copying!Next]_(Copying!vars)
  BY <1>1, <1>6, LoseStep DEF DropSource, ConnectorsGo, owned, copies
<1>7. ASSUME NEW n \in Names, DropSink(n)
      PROVE  [Copying!Next]_(Copying!vars)
  BY <1>1, <1>7, LoseStep DEF DropSink, ConnectorsGo, owned, copies
<1>8. ASSUME NEW t \in Tables, FailSource(t)
      PROVE  [Copying!Next]_(Copying!vars)
  BY <1>1, <1>8, LoseStep DEF FailSource, ConnectorsGo, owned, copies
<1>9. ASSUME NEW n \in Names, FailSink(n)
      PROVE  [Copying!Next]_(Copying!vars)
  BY <1>1, <1>9, LoseStep DEF FailSink, ConnectorsGo, owned, copies
<1> QED
  BY <1>2, <1>3, <1>4, <1>5, <1>6, <1>7, <1>8, <1>9 DEF WorldNext

LEMMA NextCopies ==
  ASSUME TypeInv, ConnectorInv, [Next]_vars
  PROVE  [Copying!Next]_(Copying!vars)
<1>1. CASE SyncStep
  BY <1>1, SyncCopies DEF SyncStep
<1>2. CASE CleanStep
  BY <1>2, CleanCopies DEF CleanStep
<1>3. CASE CheckStep
  BY <1>3, CheckCopies DEF CheckStep
<1>4. CASE PrepareTable \/ PrepareStream \/ PrepareSignals
  <2>1. UNCHANGED <<owned, connect, sync>>
    BY <1>4 DEF PrepareTable, PrepareStream, PrepareSignals, Others, owned,
       copies, locals
  <2> QED
    BY <2>1, BackfillSame, QuietStep
<1>5. CASE Restart
  <2>1. UNCHANGED <<owned, connect>> /\ sync'.pc = "idle"
    BY <1>5 DEF Restart, owned, copies, SyncAt
  <2> QED
    BY <2>1, QuietStep DEF Backfill
<1>6. CASE Environment
  BY <1>6, WorldCopies DEF Environment, locals
<1>7. CASE UNCHANGED vars
  <2>1. UNCHANGED <<owned, connect, sync>>
    BY <1>7 DEF vars, world, services, locals, owned, copies
  <2> QED
    BY <2>1, BackfillSame, QuietStep
<1> QED
  BY <1>1, <1>2, <1>3, <1>4, <1>5, <1>6, <1>7 DEF Next

(* Unless a status request fails, the orchestrator implements Replication: *)
(* however its loops, users, crashes and other failures interleave, rows   *)
(* are replaced only offline and only by the rows fetched for the table.   *)
THEOREM Implementation ==
  ASSUME "status" \notin Faults
  PROVE  Spec => Replicates
<1>1. Init => Copying!Init
  <2> SUFFICES ASSUME Init PROVE Copying!Init
    OBVIOUS
  <2>1. LiveTables = {} /\ Backfill = {}
    BY DEF Init, WorldInit, SyncInit, SyncAt, LiveTables, Live, Backfill
  <2> QED
    BY <2>1 DEF Init, WorldInit, Copying!Init
<1>2. TypeInv /\ ConnectorInv /\ [Next]_vars => [Copying!Next]_(Copying!vars)
  BY NextCopies
<1> QED
  BY <1>1, <1>2, TypeInvariant, ConnectorInvariant, PTL
     DEF Spec, Replicates, Copying!Spec
=============================================================================
