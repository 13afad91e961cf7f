----------------------------- MODULE OutcomeProofs -----------------------------
(***************************************************************************)
(* What the loops together do to a table over time, for every value of the *)
(* constants of Orchestrator: a settled table stays settled, a retired one *)
(* retired, the copy a backfill comes from stays, and the loops keep their *)
(* side of what they share with preparation.                               *)
(***************************************************************************)
EXTENDS OrchestratorProofs

USE TablesAssumption, NoTableAssumption, NoCopyAssumption, FaultsAssumption
    DEF cdc

(* Each loop works only on tables whose annotation, as it was discovered,  *)
(* is the loop's business.                                                 *)
SyncWanted == sync.pc \notin {"idle", "loop"} => IsEnabled(sync.info[2])
CleanUnwanted == clean.pc \notin {"idle", "loop"} => ~IsEnabled(clean.info[2])

TurnInv == SyncWanted /\ CleanUnwanted

(* How a loop comes by its tables: it discovers them, between two turns;   *)
(* it takes one of those; and it keeps the one it took.                    *)
SyncRests ==
    /\ sync'.pc \in {"idle", "loop"} /\ sync'.info = NoInfo
    /\ sync'.todo \subseteq sync.todo \cup Discovered

SyncTakes ==
    /\ sync'.pc = "checkSource" /\ sync'.via = "loop"
    /\ sync'.info \in sync.todo /\ IsEnabled(sync'.info[2])
    /\ sync'.todo \subseteq sync.todo

SyncWorks ==
    /\ sync.pc \notin {"idle", "loop"}
    /\ sync'.info = sync.info /\ sync'.todo = sync.todo

CleanRests ==
    /\ clean'.pc \in {"idle", "loop"} /\ clean'.info = <<NoTable, "plain">>
    /\ clean'.todo \subseteq clean.todo \cup Discovered

CleanTakes ==
    /\ clean'.info \in clean.todo /\ ~IsEnabled(clean'.info[2])
    /\ clean'.todo \subseteq clean.todo

CleanWorks ==
    /\ clean.pc \notin {"idle", "loop"}
    /\ clean'.info = clean.info /\ clean'.todo = clean.todo
-----------------------------------------------------------------------------
LEMMA SyncRestMoves ==
  ASSUME NEW todo, NEW pc \in {"idle", "loop"}, sync' = SyncAt(pc, todo),
         todo \subseteq sync.todo \cup Discovered
  PROVE  SyncRests
  BY DEF SyncRests, SyncAt

(* The moves of the sync loop within a table's turn. *)
LEMMA SyncTurnMoves ==
  ASSUME SyncTypeOK, sync.pc \notin {"idle", "loop"}, NEW pc, NEW via, NEW reply,
         \/ Goto(pc) \/ NextTable \/ Reset(via) \/ ResetEnd(sync)
         \/ Proceed(reply, pc) \/ ProceedOrReset(reply, pc, via)
  PROVE  SyncRests \/ SyncWorks
<1>1. CASE Goto(pc)
  BY <1>1 DEF Goto, SyncWorks, SyncTypeOK
<1>2. CASE NextTable
  BY <1>2, SyncRestMoves DEF NextTable
<1>3. CASE Reset(via)
  BY <1>3 DEF Reset, SyncWorks, SyncTypeOK
<1>4. CASE ResetEnd(sync)
  BY <1>4, SyncRestMoves DEF ResetEnd, SyncWorks, SyncTypeOK
<1> QED
  BY <1>1, <1>2, <1>3, <1>4 DEF Proceed, ProceedOrReset

LEMMA SyncMoves ==
  ASSUME SyncTypeOK, SyncNext
  PROVE  SyncRests \/ SyncTakes \/ SyncWorks
<1>1. CASE SyncDiscover
  BY <1>1, SyncRestMoves DEF SyncDiscover
<1>2. CASE SyncEnd
  BY <1>2, SyncRestMoves DEF SyncEnd
<1>3. CASE SyncSkip
  BY <1>3, SyncRestMoves DEF SyncSkip
<1>4. CASE SyncTake
  BY <1>4 DEF SyncTake, SyncTakes, SyncAt, SyncTypeOK
<1>5. CASE SyncCheckSource
  BY <1>5 DEF SyncCheckSource, SyncWorks, SyncTypeOK
<1>6. CASE SyncCheckSink
  <2>1. PICK found \in SUBSET {"sink"} :
          AfterCheck([sync EXCEPT !.seen = @ \cup found])
    BY <1>6 DEF SyncCheckSink
  <2> DEFINE s == [sync EXCEPT !.seen = @ \cup found]
  <2>2. /\ s.info = sync.info /\ s.todo = sync.todo
        /\ \A pc : /\ [s EXCEPT !.pc = pc].info = sync.info
                   /\ [s EXCEPT !.pc = pc].todo = sync.todo
    BY DEF SyncTypeOK
  <2>3. \/ sync' = SyncAt("loop", s.todo)
        \/ \E pc : sync' = [s EXCEPT !.pc = pc]
    <3> HIDE DEF s
    <3> QED
      BY <2>1 DEF s, AfterCheck, LoopDecides, ResetDeletes, ResetEnd
  <2>4. CASE sync' = SyncAt("loop", s.todo)
    BY <2>2, <2>4, SyncRestMoves
  <2>5. CASE \E pc : sync' = [s EXCEPT !.pc = pc]
    BY <1>6, <2>2, <2>5 DEF SyncCheckSink, SyncWorks
  <2> QED
    BY <2>3, <2>4, <2>5
<1>7. CASE SyncCheckBq
  BY <1>7, SyncTurnMoves DEF SyncCheckBq
<1>8. CASE SyncFetch
  BY <1>8, SyncTurnMoves DEF SyncFetch, SyncWorks, SyncTypeOK
<1>9. CASE SyncClear
  BY <1>9, SyncTurnMoves DEF SyncClear
<1>10. CASE SyncInsert
  BY <1>10, SyncTurnMoves DEF SyncInsert
<1>11. CASE SyncDataset \/ SyncRecount \/ SyncCacheCount
  BY <1>11, SyncTurnMoves DEF SyncDataset, SyncRecount, SyncCacheCount,
     SyncWorks, SyncTypeOK
<1>12. CASE SyncRowCount \/ SyncStream
  BY <1>12, SyncTurnMoves DEF SyncRowCount, SyncStream
<1>13. CASE SyncSignalCount \/ SyncSignal \/ SyncPutSource
  BY <1>13, SyncTurnMoves DEF SyncSignalCount, SyncSignal, SyncPutSource
<1>14. CASE SyncKeyfile \/ SyncSinkDataset \/ SyncPutSink
  BY <1>14, SyncTurnMoves DEF SyncKeyfile, SyncSinkDataset, SyncPutSink
<1>15. CASE SyncDelSource
  BY <1>15, SyncTurnMoves DEF SyncDelSource
<1>16. CASE SyncDelSignal \/ SyncDelSink \/ SyncUnsignal
  BY <1>16, SyncTurnMoves DEF SyncDelSignal, SyncDelSink, SyncUnsignal
<1> QED
  BY <1>1, <1>2, <1>3, <1>4, <1>5, <1>6, <1>7, <1>8, <1>9, <1>10, <1>11, <1>12,
     <1>13, <1>14, <1>15, <1>16 DEF SyncNext

LEMMA CleanRestMoves ==
  ASSUME NEW todo, NEW pc \in {"idle", "loop"}, clean' = CleanAt(pc, todo),
         todo \subseteq clean.todo \cup Discovered
  PROVE  CleanRests
  BY DEF CleanRests, CleanAt

LEMMA CleanTurnMoves ==
  ASSUME CleanTypeOK, clean.pc \notin {"idle", "loop"}, NEW pc, NEW reply,
         \/ CleanNextTable \/ CleanRaise \/ CleanConnectors
         \/ clean' = [clean EXCEPT !.pc = pc] \/ CleanProceed(reply, pc)
  PROVE  CleanRests \/ CleanWorks
<1>1. CASE CleanNextTable \/ CleanRaise
  BY <1>1, CleanRestMoves DEF CleanNextTable, CleanRaise
<1>2. ASSUME NEW place, clean' = [clean EXCEPT !.pc = place]
      PROVE  CleanWorks
  BY <1>2 DEF CleanWorks, CleanTypeOK
<1> QED
  BY <1>1, <1>2 DEF CleanConnectors, CleanProceed

LEMMA CleanMoves ==
  ASSUME CleanTypeOK, CleanNext
  PROVE  CleanRests \/ CleanTakes \/ CleanWorks
<1>1. CASE CleanDiscover \/ CleanEnd \/ CleanSkip
  BY <1>1, CleanRestMoves DEF CleanDiscover, CleanEnd, CleanRaise, CleanSkip
<1>2. CASE CleanTake
  BY <1>2 DEF CleanTake, CleanTakes, CleanAt, CleanTypeOK
<1>3. CASE CleanCheckSource \/ CleanCheckSink
  BY <1>3 DEF CleanCheckSource, CleanCheckSink, CleanWorks, CleanTypeOK
<1>4. CASE CleanCheckBq \/ CleanDelBq
  BY <1>4, CleanTurnMoves DEF CleanCheckBq, CleanDelBq
<1>5. CASE CleanDelSource \/ CleanDelSignal \/ CleanDelSink
  BY <1>5, CleanTurnMoves DEF CleanDelSource, CleanDelSignal, CleanDelSink
<1> QED
  BY <1>1, <1>2, <1>3, <1>4, <1>5 DEF CleanNext
-----------------------------------------------------------------------------
LEMMA NextTurnInv ==
  ASSUME TypeInv, TurnInv, [Next]_vars
  PROVE  TurnInv'
<1>1. sync' = sync => SyncWanted'
  BY DEF TurnInv, SyncWanted
<1>2. clean' = clean => CleanUnwanted'
  BY DEF TurnInv, CleanUnwanted
<1>3. CASE SyncStep
  <2>1. SyncRests \/ SyncTakes \/ SyncWorks
    BY <1>3, SyncMoves DEF SyncStep, TypeInv, TypeOK
  <2>2. SyncWanted'
    BY <2>1 DEF SyncRests, SyncTakes, SyncWorks, TurnInv, SyncWanted
  <2> QED
    BY <1>2, <1>3, <2>2 DEF SyncStep, TurnInv
<1>4. CASE CleanStep
  <2>1. CleanRests \/ CleanTakes \/ CleanWorks
    BY <1>4, CleanMoves DEF CleanStep, TypeInv, TypeOK
  <2>2. CleanUnwanted'
    BY <2>1 DEF CleanRests, CleanTakes, CleanWorks, TurnInv, CleanUnwanted
  <2> QED
    BY <1>1, <1>4, <2>2 DEF CleanStep, TurnInv
<1>5. CASE Restart
  BY <1>5 DEF Restart, SyncAt, CleanAt, TurnInv, SyncWanted, CleanUnwanted
<1>6. CASE \/ CheckStep \/ PrepareTable \/ PrepareStream \/ PrepareSignals
           \/ Environment \/ UNCHANGED vars
  <2>1. UNCHANGED <<sync, clean>>
    BY <1>6 DEF CheckStep, PrepareTable, PrepareStream, PrepareSignals, Others,
       Environment, vars, locals
  <2> QED
    BY <1>1, <1>2, <2>1 DEF TurnInv
<1> QED
  BY <1>3, <1>4, <1>5, <1>6 DEF Next

LEMMA TurnInvariant == Spec => []TurnInv
<1>1. Init => TurnInv
  BY DEF Init, SyncInit, SyncAt, CleanInit, CleanAt, TurnInv, SyncWanted,
         CleanUnwanted
<1> QED
  BY <1>1, NextTurnInv, TypeInvariant, PTL DEF Spec
-----------------------------------------------------------------------------
LEMMA HoldsMember ==
  ASSUME NEW infos, NEW t, NEW info \in infos, info[1] = t
  PROVE  info[2] \in Holds(infos, t)
  BY DEF Holds

(* What a scan holds of a table is what it held, or the comment of now.    *)
LEMMA HoldsKept ==
  ASSUME NEW t, NEW infos, NEW later,
         \A info \in later : info \in infos \cup Discovered \/ info[1] # t
  PROVE  Holds(later, t) \subseteq Holds(infos, t) \cup {comment[t]}
<1> SUFFICES ASSUME NEW info \in later, info[1] = t
             PROVE  info[2] \in Holds(infos, t) \cup {comment[t]}
  BY DEF Holds
<1>1. CASE info \in infos
  BY <1>1, HoldsMember
<1>2. CASE info \in Discovered
  BY <1>2 DEF Discovered
<1> QED
  BY <1>1, <1>2
-----------------------------------------------------------------------------
(* A table without namesakes shares its sink with no other table.          *)
LEMMA OwnSink ==
  ASSUME NEW t \in Tables, Namesakes(t) = {}, NEW u \in Tables, u # t
  PROVE  SinkName(u) # SinkName(t)
  BY DEF Namesakes

(* The cleanup does not have a settled table in hand.                      *)
LEMMA SettledNotCleaned ==
  ASSUME TypeInv, TurnInv, NEW t \in Tables, Settled(t),
         clean.pc \notin {"idle", "loop"}
  PROVE  CleanT \in Tables /\ CleanT # t /\ SinkName(CleanT) # SinkName(t)
<1>1. CleanT \in Tables
  BY DEF TypeInv, CleanBusy
<1>2. CleanT # t
  BY HoldsMember DEF Settled, TurnInv, CleanUnwanted, CleanT
<1> QED
  BY <1>1, <1>2, OwnSink DEF Settled

(* Its connectors stay through a step of the cleanup, ...                  *)
LEMMA CleanKeepsLive ==
  ASSUME TypeInv, TurnInv, NEW t \in Tables, Settled(t), CleanNext
  PROVE  Live(t)'
<1> USE DEF TypeInv, TypeOK, WorldTypeOK
<1>1. Live(t)
  BY DEF Settled
<1>2. CASE CleanDelSource
  BY <1>1, <1>2, SettledNotCleaned DEF CleanDelSource, DeleteSource, Live
<1>3. CASE CleanDelSink
  BY <1>1, <1>3, SettledNotCleaned DEF CleanDelSink, DeleteSink, Live, SinkName
<1>4. CASE UNCHANGED connect
  BY <1>1, <1>4 DEF connect, Live
<1> QED
  BY <1>2, <1>3, <1>4 DEF CleanNext, CleanDiscover, CleanEnd, CleanSkip,
     CleanTake, CleanCheckSource, CleanCheckSink, CleanCheckBq, CleanDelBq,
     CleanDelSignal, RemoveSignal, DiscoverReply, world, services

(* ... through a step of the sync loop, which has another table in hand or *)
(* is only asking for the connectors of this one, ...                      *)
LEMMA SyncKeepsLive ==
  ASSUME TypeInv, NEW t \in Tables, Settled(t), SyncNext
  PROVE  Live(t)'
<1> USE DEF TypeInv, TypeOK, WorldTypeOK
<1>1. Live(t)
  BY DEF Settled
<1>2. CASE UNCHANGED connect
  BY <1>1, <1>2 DEF connect, Live
<1>3. CASE SyncPutSource \/ SyncPutSink \/ SyncDelSource \/ SyncDelSink
  <2>1. sync.pc \in {"putSource", "putSink", "delSource", "delSink"}
    BY <1>3 DEF SyncPutSource, SyncPutSink, SyncDelSource, SyncDelSink
  <2>2. SyncT \in Tables /\ SyncT # t /\ SinkName(SyncT) # SinkName(t)
    BY <2>1, OwnSink DEF Settled, SyncBusy
  <2>3. CASE SyncPutSource
    BY <1>1, <2>3 DEF SyncPutSource, Live
  <2>4. CASE SyncPutSink
    BY <1>1, <2>2, <2>4 DEF SyncPutSink, Live, SinkName
  <2>5. CASE SyncDelSource
    BY <1>1, <2>2, <2>5 DEF SyncDelSource, DeleteSource, Live
  <2>6. CASE SyncDelSink
    BY <1>1, <2>2, <2>6 DEF SyncDelSink, DeleteSink, Live, SinkName
  <2> QED
    BY <1>3, <2>3, <2>4, <2>5, <2>6
<1> QED
  BY <1>2, <1>3 DEF SyncNext, SyncDiscover, SyncEnd, SyncSkip, SyncTake,
     SyncCheckSource, SyncCheckSink, SyncCheckBq, SyncFetch, SyncClear,
     SyncInsert, SyncDataset, SyncRowCount, SyncRecount, SyncCacheCount,
     SyncStream, SyncSignalCount, SyncSignal, SyncKeyfile, SyncSinkDataset,
     SyncDelSignal, SyncUnsignal, RemoveSignal, DiscoverReply, world, services

(* ... and of the environment, unless it drops one of them.                *)
LEMMA WorldKeepsLive ==
  ASSUME TypeInv, NEW t \in Tables, Live(t), WorldNext,
         ~DropSource(t), ~DropSink(SinkName(t))
  PROVE  Live(t)'
<1> USE DEF TypeInv, TypeOK, WorldTypeOK
<1>1. ASSUME NEW u \in Tables, DropSource(u) PROVE Live(t)'
  BY <1>1 DEF DropSource, Live
<1>2. ASSUME NEW n \in Names, DropSink(n) PROVE Live(t)'
  <2>1. n # SinkName(t)
    BY <1>2 DEF DropSink
  <2> QED
    BY <1>2, <2>1 DEF DropSink, Live, SinkName
<1>3. CASE UNCHANGED <<source, sink>>
  BY <1>3 DEF Live
<1> QED
  BY <1>1, <1>2, <1>3 DEF WorldNext, SetComment, AppWrite, Capture, Deliver,
     FailSource, FailSink, Expire, connect

(* The status requests of a settled table find both connectors, and its    *)
(* turn is over.                                                           *)
LEMMA SettledTurn ==
  ASSUME TypeInv, NEW t \in Tables, Settled(t), SyncNext, ~StatusFails
  PROVE  sync'.info[1] = t =>
            /\ sync'.via = "loop"
            /\ \/ sync'.pc = "checkSource"
               \/ sync'.pc = "checkSink" /\ "source" \in sync'.seen
<1> SUFFICES ASSUME sync'.info[1] = t
             PROVE  /\ sync'.via = "loop"
                    /\ \/ sync'.pc = "checkSource"
                       \/ sync'.pc = "checkSink" /\ "source" \in sync'.seen
  OBVIOUS
<1> USE DEF TypeInv, TypeOK, SyncTypeOK
<1>1. SyncTakes \/ SyncWorks
  BY SyncMoves DEF SyncRests, NoInfo
<1>2. CASE SyncTakes
  BY <1>2 DEF SyncTakes
<1>3. CASE SyncWorks
  <2>1. /\ SyncT = t /\ sync.via = "loop"
        /\ \/ sync.pc = "checkSource"
           \/ sync.pc = "checkSink" /\ "source" \in sync.seen
    BY <1>3 DEF SyncWorks, SyncT, Settled
  <2>2. /\ SourceExists(t) /\ SinkExists(t)
    BY DEF Settled, Live, SourceExists, SinkExists
  <2>3. budget \in Nat
    BY DEF WorldTypeOK
  <2>4. CASE SyncCheckSource
    <3>1. PICK found \in SUBSET {"source"} :
            /\ StatusReply("source", SourceExists(SyncT), found)
            /\ sync' = [sync EXCEPT !.pc = "checkSink", !.seen = found]
      BY <2>4 DEF SyncCheckSource
    <3>2. UNCHANGED budget
      BY <2>3, <2>4, <3>1 DEF SyncCheckSource, StatusReply, Spend, StatusFails
    <3>3. found = {"source"}
      BY <2>1, <2>2, <2>3, <3>1, <3>2 DEF StatusReply, Spend
    <3> QED
      BY <2>1, <3>1, <3>3
  <2>5. CASE SyncCheckSink
    <3>1. PICK found \in SUBSET {"sink"} :
            /\ StatusReply("sink", SinkExists(SyncT), found)
            /\ AfterCheck([sync EXCEPT !.seen = @ \cup found])
      BY <2>5 DEF SyncCheckSink
    <3>2. UNCHANGED budget
      BY <2>3, <2>5, <3>1 DEF SyncCheckSink, StatusReply, Spend, StatusFails
    <3>3. found = {"sink"}
      BY <2>1, <2>2, <2>3, <3>1, <3>2 DEF StatusReply, Spend
    <3> DEFINE s == [sync EXCEPT !.seen = @ \cup found]
    <3>4. s.seen = {"source", "sink"} /\ s.via = "loop"
      BY <2>1, <2>5, <3>3 DEF SyncCheckSink
    <3>5. AfterCheck(s)
      BY <3>1
    <3> HIDE DEF s
    <3>6. sync'.info = NoInfo
      BY <3>4, <3>5 DEF AfterCheck, LoopDecides, SyncAt
    <3> QED
      BY <3>6 DEF NoInfo
  <2> QED
    BY <2>1, <2>4, <2>5 DEF SyncNext, SyncDiscover, SyncEnd, SyncSkip,
       SyncTake, SyncCheckBq, SyncFetch, SyncClear, SyncInsert, SyncDataset,
       SyncRowCount, SyncRecount, SyncCacheCount, SyncStream, SyncSignalCount,
       SyncSignal, SyncPutSource, SyncKeyfile, SyncSinkDataset, SyncPutSink,
       SyncDelSource, SyncDelSignal, SyncDelSink, SyncUnsignal
<1> QED
  BY <1>1, <1>2, <1>3

(* A settled table stays settled through every step but those that         *)
(* SettledStays names.                                                     *)
LEMMA SettledStep ==
  ASSUME TypeInv, TurnInv, [Next]_vars, NEW t \in Tables, Settled(t),
         IsEnabled(comment'[t]), ~DropSource(t), ~DropSink(SinkName(t)),
         ~StatusFails
  PROVE  Settled(t)'
<1> DEFINE turn == sync.info[1] = t =>
                      /\ sync.via = "loop"
                      /\ \/ sync.pc = "checkSource"
                         \/ sync.pc = "checkSink" /\ "source" \in sync.seen
<1> DEFINE held == Holds(clean.todo \cup {clean.info}, t)
<1>1. /\ IsEnabled(comment[t]) /\ Live(t) /\ turn
      /\ \A c \in held : IsEnabled(c)
  BY DEF Settled, SyncT
<1>2. SUFFICES Live(t)' /\ turn' /\ held' \subseteq held \cup {comment[t]}
  BY <1>1 DEF Settled, Namesakes, SyncT
<1>3. UNCHANGED sync => turn'
  BY <1>1
<1>4. UNCHANGED clean => held' \subseteq held
  BY DEF Holds
<1>5. UNCHANGED connect => Live(t)'
  BY <1>1 DEF connect, Live
<1>6. CASE SyncStep
  <2>1. Live(t)' /\ turn'
    BY <1>6, SyncKeepsLive, SettledTurn DEF SyncStep
  <2> QED
    BY <1>4, <1>6, <2>1 DEF SyncStep
<1>7. CASE CleanStep
  <2>1. CleanRests \/ CleanTakes \/ CleanWorks
    BY <1>7, CleanMoves DEF CleanStep, TypeInv, TypeOK
  <2>2. \A info \in clean'.todo \cup {clean'.info} :
           info \in (clean.todo \cup {clean.info}) \cup Discovered \/ info[1] # t
    BY <2>1 DEF CleanRests, CleanTakes, CleanWorks
  <2>3. held' \subseteq held \cup {comment[t]}
    <3>1. Holds(clean'.todo \cup {clean'.info}, t) \subseteq held \cup {comment[t]}
      BY <2>2, HoldsKept
    <3> QED
      BY <3>1 DEF Holds
  <2>4. Live(t)'
    BY <1>7, CleanKeepsLive DEF CleanStep
  <2> QED
    BY <1>3, <1>7, <2>3, <2>4 DEF CleanStep
<1>8. CASE Restart
  <2>1. turn'
    BY <1>8 DEF Restart, SyncAt, NoInfo
  <2>2. \A info \in clean'.todo \cup {clean'.info} : info[1] # t
    BY <1>8 DEF Restart, CleanAt
  <2>3. held' = {}
    BY <2>2 DEF Holds
  <2> QED
    BY <1>5, <1>8, <2>1, <2>3 DEF Restart
<1>9. CASE Environment
  BY <1>1, <1>3, <1>4, <1>9, WorldKeepsLive DEF Environment, locals
<1>10. CASE CheckStep
  <2>1. UNCHANGED connect
    BY <1>10 DEF CheckStep, CheckNext, CheckDiscover, CheckEnd, CheckGet,
       CheckCount, CheckDelete, CheckUnsignal, RemoveSignal, DiscoverReply,
       world, services
  <2> QED
    BY <1>3, <1>4, <1>5, <1>10, <2>1 DEF CheckStep
<1>11. CASE \/ PrepareTable \/ PrepareStream \/ PrepareSignals
            \/ UNCHANGED vars
  <2>1. UNCHANGED <<connect, sync, clean>>
    BY <1>11 DEF PrepareTable, PrepareStream, PrepareSignals, Others, vars,
       world, services, locals
  <2> QED
    BY <1>3, <1>4, <1>5, <2>1
<1> QED
  BY <1>6, <1>7, <1>8, <1>9, <1>10, <1>11 DEF Next

(* Once both connectors of an enabled table with a name of its own are up, *)
(* no loop touches it again, whatever fails but a status request: only a   *)
(* user's edit or the loss of a connector unsettles it.                    *)
THEOREM SettledForGood == Spec => SettledStays
<1>1. TypeInv /\ TurnInv /\ [Next]_vars =>
         [\A t \in Tables : Settled(t) =>
             \/ Settled(t)'
             \/ ~IsEnabled(comment'[t])
             \/ DropSource(t) \/ DropSink(SinkName(t)) \/ StatusFails]_vars
  BY SettledStep
<1> QED
  BY <1>1, TypeInvariant, TurnInvariant, PTL DEF Spec, SettledStays
-----------------------------------------------------------------------------
(* Of BigQuery the sync loop and the cache checker only read, the cleanup  *)
(* only takes away, and the environment only gives to a table with a sink. *)
LEMMA SyncKeepsBq ==
  ASSUME SyncNext
  PROVE  bq' = bq
  BY DEF SyncNext, SyncDiscover, SyncEnd, SyncSkip, SyncTake, SyncCheckSource,
     SyncCheckSink, SyncCheckBq, SyncFetch, SyncClear, SyncInsert, SyncDataset,
     SyncRowCount, SyncRecount, SyncCacheCount, SyncStream, SyncSignalCount,
     SyncSignal, SyncPutSource, SyncKeyfile, SyncSinkDataset, SyncPutSink,
     SyncDelSource, SyncDelSignal, SyncDelSink, SyncUnsignal, DeleteSource,
     RemoveSignal, DeleteSink, DiscoverReply, world, services, copies

LEMMA CheckKeepsBq ==
  ASSUME CheckNext
  PROVE  bq' = bq
  BY DEF CheckNext, CheckDiscover, CheckEnd, CheckGet, CheckCount, CheckDelete,
     CheckUnsignal, RemoveSignal, DiscoverReply, world, services, copies

LEMMA CleanTakesBq ==
  ASSUME TypeInv, CleanNext, NEW b \in Tables \X Targets
  PROVE  \/ bq'[b] = bq[b]
         \/ bq'[b] = NoCopy /\ clean.pc = "delBq" /\ BqTable(clean.info) = b
<1>1. CASE CleanDelBq
  <2>1. BqTable(clean.info) \in Tables \X Targets
    BY <1>1, BqTableType DEF CleanDelBq, TypeInv, CleanBusy, CleanT
  <2> QED
    BY <1>1, <2>1 DEF CleanDelBq, TypeInv, TypeOK, WorldTypeOK
<1>2. CASE ~CleanDelBq
  BY <1>2 DEF CleanNext, CleanDiscover, CleanEnd, CleanSkip, CleanTake,
     CleanCheckSource, CleanCheckSink, CleanCheckBq, CleanDelSource,
     CleanDelSignal, CleanDelSink, DeleteSource, RemoveSignal, DeleteSink,
     DiscoverReply, world, services, copies
<1> QED
  BY <1>1, <1>2

LEMMA WorldFeedsBq ==
  ASSUME TypeInv, WorldNext, NEW b \in Tables \X Targets, ~SinkExists(b[1])
  PROVE  bq'[b] = bq[b]
<1>1. ASSUME NEW u \in Tables, Deliver(u) PROVE bq'[b] = bq[b]
  <2>1. u # b[1]
    BY <1>1 DEF Deliver, SinkExists
  <2> QED
    BY <1>1, <2>1 DEF Deliver, TypeInv, TypeOK, WorldTypeOK
<1>2. CASE bq' = bq
  BY <1>2
<1> QED
  BY <1>1, <1>2 DEF WorldNext, SetComment, AppWrite, Capture, DropSource,
     DropSink, FailSource, FailSink, Expire, copies
-----------------------------------------------------------------------------
(* What TornDown says of a table that is not enabled. *)
FirstOf(t) == <<t, "first">>
Bare(t) == ~SourceExists(t) /\ ~SinkExists(t) /\ bq[FirstOf(t)] = NoCopy

LEMMA NamesFirst ==
  ASSUME NEW t \in Tables
  PROVE  /\ ~IsEnabled(comment[t]) => BqNamed(t) = FirstOf(t)
         /\ FirstOf(t) \in Tables \X Targets /\ FirstOf(t)[1] = t
  BY DEF IsEnabled, BqNamed, TargetOf, FirstOf, Targets

LEMMA VanishBare ==
  ASSUME NEW t \in Tables, Bare(t), ConnectorsVanish,
         bq'[FirstOf(t)] \in {bq[FirstOf(t)], NoCopy}
  PROVE  Bare(t)'
  BY DEF Bare, FirstOf, ConnectorsVanish, SourceExists, SinkExists, SinkName

(* The sync loop does not have a retired table in hand.                    *)
LEMMA SyncKeepsBare ==
  ASSUME TypeInv, TurnInv, NEW t \in Tables, Retired(t), SyncNext
  PROVE  Bare(t)'
<1> USE DEF TypeInv, TypeOK, WorldTypeOK
<1>1. Bare(t) /\ bq' = bq
  BY SyncKeepsBq, NamesFirst DEF Retired, TornDown, Bare
<1>2. CASE SyncPutSource \/ SyncPutSink
  <2>1. SyncT \in Tables /\ sync.pc \notin {"idle", "loop"}
    BY <1>2 DEF SyncPutSource, SyncPutSink, SyncBusy
  <2>2. SyncT # t
    BY <2>1, HoldsMember DEF Retired, TurnInv, SyncWanted, SyncT
  <2>3. SinkName(SyncT) # SinkName(t)
    BY <2>1, <2>2, OwnSink DEF Retired
  <2>4. CASE SyncPutSource
    BY <1>1, <2>2, <2>4 DEF SyncPutSource, Bare, FirstOf, SourceExists,
       SinkExists
  <2>5. CASE SyncPutSink
    BY <1>1, <2>3, <2>5 DEF SyncPutSink, Bare, FirstOf, SourceExists,
       SinkExists, SinkName
  <2> QED
    BY <1>2, <2>4, <2>5
<1>3. CASE SyncDelSource
  BY <1>1, <1>3, VanishBare DEF SyncDelSource, DeleteSource, ConnectorsVanish
<1>4. CASE SyncDelSink
  BY <1>1, <1>4, VanishBare DEF SyncDelSink, DeleteSink, ConnectorsVanish
<1>5. CASE UNCHANGED connect
  BY <1>1, <1>5, VanishBare DEF connect, ConnectorsVanish
<1> QED
  BY <1>2, <1>3, <1>4, <1>5 DEF SyncNext, SyncDiscover, SyncEnd, SyncSkip,
     SyncTake, SyncCheckSource, SyncCheckSink, SyncCheckBq, SyncFetch,
     SyncClear, SyncInsert, SyncDataset, SyncRowCount, SyncRecount,
     SyncCacheCount, SyncStream, SyncSignalCount, SyncSignal, SyncKeyfile,
     SyncSinkDataset, SyncDelSignal, SyncUnsignal, RemoveSignal, DiscoverReply,
     world, services

LEMMA RetiredStep ==
  ASSUME TypeInv, TurnInv, [Next]_vars, NEW t \in Tables, Retired(t),
         ~IsEnabled(comment'[t])
  PROVE  Retired(t)'
<1> DEFINE held == Holds(sync.todo \cup {sync.info}, t)
<1>1. /\ ~IsEnabled(comment[t]) /\ Bare(t)
      /\ \A c \in held : ~IsEnabled(c)
  BY NamesFirst DEF Retired, TornDown, Bare
<1>2. SUFFICES Bare(t)' /\ held' \subseteq held \cup {comment[t]}
  <2>1. Bare(t)' => TornDown(t)'
    BY DEF IsEnabled, TornDown, Bare, BqNamed, TargetOf, FirstOf
  <2> QED
    BY <1>1, <2>1 DEF Retired, Namesakes
<1>3. UNCHANGED sync => held' \subseteq held
  BY DEF Holds
<1>4. CASE SyncStep
  <2>1. SyncRests \/ SyncTakes \/ SyncWorks
    BY <1>4, SyncMoves DEF SyncStep, TypeInv, TypeOK
  <2>2. \A info \in sync'.todo \cup {sync'.info} :
           info \in (sync.todo \cup {sync.info}) \cup Discovered \/ info[1] # t
    BY <2>1 DEF SyncRests, SyncTakes, SyncWorks, NoInfo
  <2>3. held' \subseteq held \cup {comment[t]}
    <3>1. Holds(sync'.todo \cup {sync'.info}, t) \subseteq held \cup {comment[t]}
      BY <2>2, HoldsKept
    <3> QED
      BY <3>1 DEF Holds
  <2> QED
    BY <1>4, <2>3, SyncKeepsBare DEF SyncStep
<1>5. CASE CleanStep
  BY <1>1, <1>3, <1>5, CleanVanish, CleanTakesBq, NamesFirst, VanishBare
     DEF CleanStep
<1>6. CASE CheckStep
  BY <1>1, <1>3, <1>6, CheckVanish, CheckKeepsBq, VanishBare DEF CheckStep
<1>7. CASE Environment
  <2>1. bq'[FirstOf(t)] = bq[FirstOf(t)]
    BY <1>1, <1>7, WorldFeedsBq, NamesFirst DEF Environment, Bare
  <2> QED
    BY <1>1, <1>3, <1>7, <2>1, WorldVanish, VanishBare DEF Environment, locals
<1>8. UNCHANGED <<connect, copies>> => Bare(t)'
  BY <1>1, VanishBare DEF connect, copies, ConnectorsVanish
<1>9. CASE Restart
  <2>1. \A info \in sync'.todo \cup {sync'.info} : info[1] # t
    BY <1>9 DEF Restart, SyncAt, NoInfo
  <2>2. held' = {}
    BY <2>1 DEF Holds
  <2> QED
    BY <1>8, <1>9, <2>2 DEF Restart
<1>10. CASE \/ PrepareTable \/ PrepareStream \/ PrepareSignals
            \/ UNCHANGED vars
  <2>1. UNCHANGED <<connect, copies, sync>>
    BY <1>10 DEF PrepareTable, PrepareStream, PrepareSignals, Others, vars,
       world, services, locals
  <2> QED
    BY <1>3, <1>8, <2>1
<1> QED
  BY <1>4, <1>5, <1>6, <1>7, <1>9, <1>10 DEF Next

(* Once a table that is not enabled and has a name of its own has neither  *)
(* connectors nor a BigQuery table, and no scan from before is under way,  *)
(* nothing brings them back until a user enables it, whatever fails.       *)
THEOREM RetiredForGood == Spec => RetiredStays
<1>1. TypeInv /\ TurnInv /\ [Next]_vars =>
         [\A t \in Tables : Retired(t) => Retired(t)' \/ IsEnabled(comment'[t])]_vars
  BY RetiredStep
<1> QED
  BY <1>1, TypeInvariant, TurnInvariant, PTL DEF Spec, RetiredStays
-----------------------------------------------------------------------------
(* Unless a status request fails, BigQuery keeps the rows that a backfill  *)
(* has fetched until it has inserted them, but for the sinks it saw and    *)
(* the cleanup of the very table.                                          *)
LEMMA CopyStep ==
  ASSUME TypeInv, ConnectorInv, [Next]_vars, NEW b \in Tables \X Targets,
         sync.pc \in {"clear", "insert"}, BqTable(sync.info) = b,
         "sink" \notin sync.seen,
         ~(clean.pc = "delBq" /\ BqTable(clean.info) = b)
  PROVE  sync.data \cap Copy(b) \subseteq Copy(b)'
<1>1. SUFFICES bq'[b] = bq[b]
  BY DEF Copy
<1>2. ~SinkExists(b[1])
  BY DEF ConnectorInv, SinkKnown, BqTable, SyncT
<1>3. CASE SyncStep \/ CheckStep
  BY <1>3, SyncKeepsBq, CheckKeepsBq DEF SyncStep, CheckStep
<1>4. CASE CleanStep
  BY <1>4, CleanTakesBq DEF CleanStep
<1>5. CASE Environment
  BY <1>2, <1>5, WorldFeedsBq DEF Environment
<1>6. CASE \/ PrepareTable \/ PrepareStream \/ PrepareSignals \/ Restart
           \/ UNCHANGED vars
  BY <1>6 DEF PrepareTable, PrepareStream, PrepareSignals, Others, Restart,
     vars, world, services, copies
<1> QED
  BY <1>3, <1>4, <1>5, <1>6 DEF Next

THEOREM CopyIsHeld ==
  ASSUME "status" \notin Faults
  PROVE  Spec => CopyHeld
<1>1. TypeInv /\ ConnectorInv /\ [Next]_vars =>
         [\A b \in Tables \X Targets :
             /\ sync.pc \in {"clear", "insert"} /\ BqTable(sync.info) = b
             /\ "sink" \notin sync.seen
             /\ ~(clean.pc = "delBq" /\ BqTable(clean.info) = b)
             => sync.data \cap Copy(b) \subseteq Copy(b)']_vars
  BY CopyStep
<1> QED
  BY <1>1, TypeInvariant, ConnectorInvariant, PTL DEF Spec, CopyHeld
-----------------------------------------------------------------------------
(* What is to be removed from the table of signals is never in it.         *)
LEMMA RemovalMisses ==
  ASSUME NEW t
  PROVE  SignalsWithout(t) = signals
  BY DEF SignalsWithout, SignalText, RemovalText

LEMMA RemoveSignalStays ==
  ASSUME NEW t, NEW reply, RemoveSignal(t, reply)
  PROVE  signals' = signals
  BY RemovalMisses DEF RemoveSignal

(* Only SyncSignal changes the table of signals from within a loop.        *)
LEMMA SyncSignalMoves ==
  ASSUME SyncNext
  PROVE  SyncSignal \/ signals' = signals
<1>1. CASE SyncDelSignal \/ SyncUnsignal
  BY <1>1, RemoveSignalStays DEF SyncDelSignal, SyncUnsignal
<1> QED
  BY <1>1 DEF SyncNext, SyncDiscover, SyncEnd, SyncSkip, SyncTake,
     SyncCheckSource, SyncCheckSink, SyncCheckBq, SyncFetch, SyncClear,
     SyncInsert, SyncDataset, SyncRowCount, SyncRecount, SyncCacheCount,
     SyncStream, SyncSignalCount, SyncPutSource, SyncKeyfile,
     SyncSinkDataset, SyncPutSink, SyncDelSource, SyncDelSink, DeleteSource,
     DeleteSink, DiscoverReply, world, services

LEMMA OthersKeepSignals ==
  ASSUME CleanNext \/ CheckNext \/ WorldNext
  PROVE  signals' = signals
<1>1. CASE CleanNext
  BY <1>1, RemoveSignalStays DEF CleanNext, CleanDiscover, CleanEnd,
     CleanSkip, CleanTake, CleanCheckSource, CleanCheckSink, CleanCheckBq,
     CleanDelBq, CleanDelSource, CleanDelSignal, CleanDelSink, DeleteSource,
     DeleteSink, DiscoverReply, world, services
<1>2. CASE CheckNext
  BY <1>2, RemoveSignalStays DEF CheckNext, CheckDiscover, CheckEnd,
     CheckGet, CheckCount, CheckDelete, CheckUnsignal, DiscoverReply, world,
     services
<1>3. CASE WorldNext
  BY <1>3 DEF WorldNext, SetComment, AppWrite, Capture, Deliver, DropSource,
     DropSink, FailSource, FailSink, Expire
<1> QED
  BY <1>1, <1>2, <1>3
-----------------------------------------------------------------------------
(* The sync loop has tables to look at, or one in hand, only if it found   *)
(* the stream recorded when it discovered them; and once recorded a stream *)
(* stays so.                                                               *)
StreamInv ==
    sync.todo # {} \/ sync.pc \notin {"idle", "loop"} => stream = "recorded"

LEMMA CallsKeepStream ==
  ASSUME SyncNext \/ CleanNext \/ CheckNext \/ WorldNext
  PROVE  stream' = stream
<1>1. CASE SyncNext
  BY <1>1 DEF SyncNext, SyncDiscover, SyncEnd, SyncSkip, SyncTake,
     SyncCheckSource, SyncCheckSink, SyncCheckBq, SyncFetch, SyncClear,
     SyncInsert, SyncDataset, SyncRowCount, SyncRecount, SyncCacheCount,
     SyncStream, SyncSignalCount, SyncSignal, SyncPutSource, SyncKeyfile,
     SyncSinkDataset, SyncPutSink, SyncDelSource, SyncDelSignal, SyncDelSink,
     SyncUnsignal, DeleteSource, RemoveSignal, DeleteSink, DiscoverReply,
     world, services
<1>2. CASE CleanNext
  BY <1>2 DEF CleanNext, CleanDiscover, CleanEnd, CleanSkip, CleanTake,
     CleanCheckSource, CleanCheckSink, CleanCheckBq, CleanDelBq,
     CleanDelSource, CleanDelSignal, CleanDelSink, DeleteSource, RemoveSignal,
     DeleteSink, DiscoverReply, world, services
<1>3. CASE CheckNext
  BY <1>3 DEF CheckNext, CheckDiscover, CheckEnd, CheckGet, CheckCount,
     CheckDelete, CheckUnsignal, RemoveSignal, DiscoverReply, world,
     services
<1>4. CASE WorldNext
  BY <1>4 DEF WorldNext, SetComment, AppWrite, Capture, Deliver, DropSource,
     DropSink, FailSource, FailSink, Expire
<1> QED
  BY <1>1, <1>2, <1>3, <1>4

LEMMA NextStreamInv ==
  ASSUME TypeInv, StreamInv, [Next]_vars
  PROVE  StreamInv'
<1>1. stream = "recorded" => stream' = "recorded"
  BY CallsKeepStream DEF Next, SyncStep, CleanStep, CheckStep, PrepareTable,
     PrepareStream, PrepareSignals, Registry!CreateTable, Registry!Record,
     Registry!WipeSignals, Restart, Environment, vars, world, services
<1>2. CASE SyncStep
  <2>1. SyncRests \/ SyncTakes \/ SyncWorks
    BY <1>2, SyncMoves DEF SyncStep, TypeInv, TypeOK
  <2>2. CASE SyncRests
    BY <1>1, <2>2 DEF SyncRests, StreamInv, Discovered
  <2>3. CASE SyncTakes \/ SyncWorks
    BY <1>1, <2>3 DEF SyncTakes, SyncWorks, StreamInv
  <2> QED
    BY <2>1, <2>2, <2>3
<1>3. CASE Restart
  BY <1>3 DEF Restart, SyncAt, StreamInv
<1>4. CASE UNCHANGED sync
  BY <1>1, <1>4 DEF StreamInv
<1> QED
  BY <1>2, <1>3, <1>4 DEF Next, CleanStep, CheckStep, PrepareTable,
     PrepareStream, PrepareSignals, Others, Environment, vars, locals

LEMMA StreamInvariant == Spec => []StreamInv
<1>1. Init => StreamInv
  BY DEF Init, SyncInit, SyncAt, StreamInv
<1> QED
  BY <1>1, NextStreamInv, TypeInvariant, PTL DEF Spec

LEMMA RegistryStep ==
  ASSUME TypeInv, StreamInv, [Next]_vars
  PROVE  [Registry!Next]_<<stream, signals>>
<1>1. CASE SyncStep
  <2>1. SyncNext /\ stream' = stream
    BY <1>1, CallsKeepStream DEF SyncStep
  <2>2. CASE SyncSignal
    <3>1. stream = "recorded" /\ SyncT \in Tables
      BY <2>2 DEF SyncSignal, StreamInv, TypeInv, SyncBusy
    <3>2. signals' \in {signals, signals \cup {SyncT}}
      BY <2>2 DEF SyncSignal
    <3> QED
      BY <2>1, <3>1, <3>2 DEF Registry!Next, Registry!AskSnapshot
  <2> QED
    BY <2>1, <2>2, SyncSignalMoves
<1>2. CASE CleanStep \/ CheckStep \/ Environment
  BY <1>2, CallsKeepStream, OthersKeepSignals
     DEF CleanStep, CheckStep, Environment
<1>3. CASE PrepareTable \/ PrepareStream \/ PrepareSignals
  BY <1>3 DEF PrepareTable, PrepareStream, PrepareSignals, Registry!Next
<1>4. CASE Restart
  BY <1>4 DEF Restart, Registry!Next, Registry!WipeSignals
<1>5. CASE UNCHANGED vars
  BY <1>5 DEF vars, world, services
<1> QED
  BY <1>1, <1>2, <1>3, <1>4, <1>5 DEF Next

(* The loops keep their side of StreamRegistry: whatever fails, they ask   *)
(* for snapshots only of a database whose stream is recorded, and take no  *)
(* signal back.  Together with PrepImplements, which assumes no more of    *)
(* them, preparation and the loops need know of each other only that.      *)
THEOREM RegistryImplementation == Spec => Registers
<1>1. Init => Registry!Init
  BY DEF Init, WorldInit, Registry!Init
<1>2. TypeInv /\ StreamInv /\ [Next]_vars => [Registry!Next]_<<stream, signals>>
  BY RegistryStep
<1> QED
  BY <1>1, <1>2, TypeInvariant, StreamInvariant, PTL
     DEF Spec, Registers, Registry!Spec
=============================================================================
