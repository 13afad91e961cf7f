------------------------------- MODULE SyncLoop -------------------------------
(***************************************************************************)
(* The main scan: one run of _table_sync_loop after another, over the      *)
(* tables of one database.  Every call of a service is a step, because     *)
(* each is a request of its own and the other threads run in between; an   *)
(* exception ends the table's turn and the loop goes on with the next one. *)
(***************************************************************************)
EXTENDS SyncWorld

VARIABLE sync
(* sync.pc    where the thread is: the call it is about to make             *)
(* sync.todo  discovered tables not looked at yet, as <<table, annotation>>  *)
(* sync.info  the table it works on, the same way                           *)
(* sync.seen  the connectors check_connector_exists has reported            *)
(* sync.data  the rows fetched from BigQuery                                *)
(* sync.count the row count read for the cache                              *)
(* sync.via   who called check_connector_exists: the loop itself, or the    *)
(*            reset after a failure to create a source or a sink            *)

SyncPcs ==
    {"idle", "loop", "checkSource", "checkSink", "checkBq", "fetch", "clear",
     "insert", "dataset", "rowCount", "recount", "cacheCount", "stream",
     "signalCount", "signal", "putSource", "keyfile", "sinkDataset", "putSink",
     "delSource", "delSignal", "delSink", "unsignal"}

NoInfo == <<NoTable, "plain">>
Infos == (Tables \cup {NoTable}) \X CommentKinds

SyncTypeOK ==
    sync \in [pc : SyncPcs, todo : SUBSET (Tables \X CommentKinds),
              info : Infos, seen : SUBSET {"source", "sink"},
              data : SUBSET Rows, count : Nat,
              via : {"loop", "source", "sink"}]

(* Before a table, and between two scans: every local is dead. *)
SyncAt(pc, todo) ==
    [pc |-> pc, todo |-> todo, info |-> NoInfo, seen |-> {}, data |-> {},
     count |-> 0, via |-> "loop"]

SyncInit == sync = SyncAt("idle", {})

SyncT == sync.info[1]
Goto(pc) == sync' = [sync EXCEPT !.pc = pc]
NextTable == sync' = SyncAt("loop", sync.todo)

(* Each creation runs in a try whose handler calls reset_connectors. *)
Reset(via) ==
    sync' = [sync EXCEPT !.pc = "checkSource", !.seen = {}, !.via = via]

(* What follows a call that answered "ok", or raised. *)
Proceed(reply, pc) == IF reply = "ok" THEN Goto(pc) ELSE NextTable
ProceedOrReset(reply, pc, via) == IF reply = "ok" THEN Goto(pc) ELSE Reset(via)
-----------------------------------------------------------------------------
(* Discovery.  A missing database_stream table raises and the scan of this *)
(* database is over.                                                       *)
SyncDiscover ==
    /\ sync.pc = "idle"
    /\ stream # "missing"
    /\ \E found \in SUBSET Discovered :
        /\ DiscoverReply(found)
        /\ sync' = SyncAt("loop", found)

SyncEnd ==
    /\ sync.pc = "loop"
    /\ sync.todo = {}
    /\ sync' = SyncAt("idle", {})
    /\ UNCHANGED world

SyncSkip ==
    /\ sync.pc = "loop"
    /\ \E info \in sync.todo :
        /\ ~IsEnabled(info[2])
        /\ sync' = SyncAt("loop", sync.todo \ {info})
    /\ UNCHANGED world

(* As SyncTake would be if it did not look at the annotation. *)
SyncTakeAny ==
    /\ sync.pc = "loop"
    /\ \E info \in sync.todo :
        sync' = [SyncAt("checkSource", sync.todo \ {info})
                    EXCEPT !.info = info]
    /\ UNCHANGED world

SyncTake ==
    /\ sync.pc = "loop"
    /\ \E info \in sync.todo :
        /\ IsEnabled(info[2])
        /\ sync' = [SyncAt("checkSource", sync.todo \ {info})
                       EXCEPT !.info = info]
    /\ UNCHANGED world

(* check_connector_exists. *)
SyncCheckSource ==
    /\ sync.pc = "checkSource"
    /\ \E found \in SUBSET {"source"} :
        /\ StatusReply("source", SourceExists(SyncT), found)
        /\ sync' = [sync EXCEPT !.pc = "checkSink", !.seen = found]
    /\ UNCHANGED services

(* As LoopDecides would be if the loop set a table up without looking at   *)
(* its connectors, and if it took one connector for both.                  *)
LoopDecidesAlways(s) == sync' = [s EXCEPT !.pc = "checkBq"]

LoopDecidesEither(s) ==
    sync' = IF s.seen # {} THEN SyncAt("loop", s.todo)
                           ELSE [s EXCEPT !.pc = "checkBq"]

(* After both requests, the loop does nothing when it saw both connectors  *)
(* and sets the table up from scratch otherwise: its two branches for one  *)
(* missing connector come after a test that covers them.                   *)
LoopDecides(s) ==
    \/ /\ s.seen = {"source", "sink"}
       /\ sync' = SyncAt("loop", s.todo)
    \/ /\ s.seen # {"source", "sink"}
       /\ sync' = [s EXCEPT !.pc = "checkBq"]

ResetEnd(s) ==
    sync' = IF s.via = "source" THEN [s EXCEPT !.pc = "unsignal"]
                                ELSE SyncAt("loop", s.todo)

(* A reset deletes the connectors it saw. *)
ResetDeletes(s) ==
    \/ "source" \in s.seen /\ sync' = [s EXCEPT !.pc = "delSource"]
    \/ s.seen = {"sink"} /\ sync' = [s EXCEPT !.pc = "delSink"]
    \/ s.seen = {} /\ ResetEnd(s)

AfterCheck(s) ==
    \/ s.via = "loop" /\ LoopDecides(s)
    \/ s.via # "loop" /\ ResetDeletes(s)

(* As SyncCheckSink would be if one request stood for both connectors. *)
SyncCheckSinkNone ==
    sync.pc = "checkSink" /\ AfterCheck(sync) /\ UNCHANGED world

SyncCheckSink ==
    /\ sync.pc = "checkSink"
    /\ \E found \in SUBSET {"sink"} :
        /\ StatusReply("sink", SinkExists(SyncT), found)
        /\ AfterCheck([sync EXCEPT !.seen = @ \cup found])
    /\ UNCHANGED services
-----------------------------------------------------------------------------
(* The backfill: overwrite the table with its BigQuery copy, if there is   *)
(* one.  Unlike a failed request, a client that cannot be made raises.     *)
SyncCheckBq ==
    /\ sync.pc = "checkBq"
    /\ \/ \E found \in SUBSET {"bq"} :
            /\ ExistsReply(sync.info, found)
            /\ Goto(IF found = {} THEN "dataset" ELSE "fetch")
       \/ NextTable /\ Spend("error")
    /\ UNCHANGED services

(* The cleanup may have deleted the BigQuery table since: then it raises. *)
SyncFetch ==
    /\ sync.pc = "fetch"
    /\ \/ /\ bq[BqTable(sync.info)] # NoCopy
          /\ sync' = [sync EXCEPT !.pc = "clear",
                                  !.data = bq[BqTable(sync.info)]]
          /\ UNCHANGED budget
       \/ bq[BqTable(sync.info)] = NoCopy /\ NextTable /\ UNCHANGED budget
       \/ NextTable /\ Spend("error")
    /\ UNCHANGED services

(* DELETE every row, in a transaction of its own. *)
SyncClear ==
    /\ sync.pc = "clear"
    /\ \E reply \in Replies :
        /\ SqlReply(SyncT, reply)
        /\ yb' = IF Effective(reply) THEN [yb EXCEPT ![SyncT] = {}] ELSE yb
        /\ Proceed(reply, "insert")
    /\ UNCHANGED <<comment, cdc, signals, connect, copies, cached>>

(* As SyncInsert would be if its exception were swallowed. *)
SyncInsertAnyway ==
    /\ sync.pc = "insert"
    /\ \E reply \in Replies :
        /\ SqlReply(SyncT, reply)
        /\ yb' = IF Effective(reply)
                 THEN [yb EXCEPT ![SyncT] = @ \cup sync.data] ELSE yb
    /\ Goto("dataset")
    /\ UNCHANGED <<comment, cdc, signals, connect, copies, cached>>

(* One transaction for all the rows: a row that is there already makes it  *)
(* fail as a whole.  Nothing is sent when nothing was fetched.             *)
SyncInsert ==
    /\ sync.pc = "insert"
    /\ \/ /\ sync.data = {}
          /\ Goto("dataset")
          /\ UNCHANGED <<yb, budget>>
       \/ /\ sync.data # {}
          /\ sync.data \cap yb[SyncT] = {}
          /\ \E reply \in Replies :
              /\ SqlReply(SyncT, reply)
              /\ yb' = IF Effective(reply)
                       THEN [yb EXCEPT ![SyncT] = @ \cup sync.data] ELSE yb
              /\ Proceed(reply, "dataset")
       \/ /\ sync.data \cap yb[SyncT] # {}
          /\ NextTable
          /\ UNCHANGED <<yb, budget>>
    /\ UNCHANGED <<comment, cdc, signals, connect, copies, cached>>
-----------------------------------------------------------------------------
(* The set-up: dataset, row count for the cache checker, connectors.       *)
SyncDataset ==
    /\ sync.pc = "dataset"
    /\ \E reply \in {"ok", "error"} :
        /\ ReplyIf(HasDataset(sync.info[2]), reply)
        /\ IF reply = "ok"
           THEN sync' = [sync EXCEPT !.pc = "rowCount", !.data = {}]
           ELSE NextTable
    /\ UNCHANGED services

SyncRowCount ==
    /\ sync.pc = "rowCount"
    /\ \E reply \in {"ok", "error"} :
        /\ SqlReply(SyncT, reply)
        /\ Proceed(reply, IF yb[SyncT] # {} THEN "recount" ELSE "stream")
    /\ UNCHANGED services

(* As SyncRecount would be if get_row_count answered None for an error. *)
SyncRecountNone ==
    /\ sync.pc = "recount"
    /\ \E reply \in {"ok", "error"} :
        /\ SqlReply(SyncT, reply)
        /\ sync' = [sync EXCEPT !.pc = "cacheCount",
                                !.count = IF reply = "ok"
                                          THEN Cardinality(yb[SyncT])
                                          ELSE NoCount]
    /\ UNCHANGED services

(* The cached count is that of a second query. *)
SyncRecount ==
    /\ sync.pc = "recount"
    /\ \E reply \in {"ok", "error"} :
        /\ SqlReply(SyncT, reply)
        /\ IF reply = "ok"
           THEN sync' = [sync EXCEPT !.pc = "cacheCount",
                                     !.count = Cardinality(yb[SyncT])]
           ELSE NextTable
    /\ UNCHANGED services

SyncCacheCount ==
    /\ sync.pc = "cacheCount"
    /\ \E reply \in Replies :
        /\ Reply(reply)
        /\ cached' = IF Effective(reply)
                     THEN [cached EXCEPT ![SyncT] = sync.count] ELSE cached
        /\ IF reply = "ok"
           THEN sync' = [sync EXCEPT !.pc = "stream", !.count = 0]
           ELSE NextTable
    /\ UNCHANGED <<comment, cdc, yb, signals, connect, copies>>

(* create_source_connector: the stream is read outside its try. *)
SyncStream ==
    /\ sync.pc = "stream"
    /\ \E reply \in {"ok", "error"} :
        /\ Reply(reply)
        /\ IF stream = "recorded" THEN Proceed(reply, "signalCount")
                                  ELSE NextTable
    /\ UNCHANGED services

SyncSignalCount ==
    /\ sync.pc = "signalCount"
    /\ \E reply \in {"ok", "error"} :
        /\ SqlReply(SyncT, reply)
        /\ ProceedOrReset(reply, IF yb[SyncT] # {} THEN "signal" ELSE "putSource",
                          "source")
    /\ UNCHANGED services

SyncSignal ==
    /\ sync.pc = "signal"
    /\ \E reply \in Replies :
        /\ Reply(reply)
        /\ signals' = IF Effective(reply) THEN signals \cup {SyncT} ELSE signals
        /\ ProceedOrReset(reply, "putSource", "source")
    /\ UNCHANGED <<comment, cdc, yb, connect, copies, cached>>

(* Without a BigQuery table _derive_topic_and_mappings raises before the PUT. *)
SyncPutSource ==
    /\ sync.pc = "putSource"
    /\ \E reply \in Replies :
        /\ ReplyIf(HasTarget(sync.info[2]), reply)
        /\ source' = IF Effective(reply) THEN source \cup {SyncT} ELSE source
        /\ failed' = IF Effective(reply)
                     THEN failed \ {SourceOf(SyncT)} ELSE failed
        /\ ProceedOrReset(reply, "keyfile", "source")
    /\ UNCHANGED <<comment, cdc, yb, signals, sink, target, copies, cached>>

(* create_sink_connector: the key file is read outside its try. *)
SyncKeyfile ==
    /\ sync.pc = "keyfile"
    /\ \E reply \in {"ok", "error"} :
        Reply(reply) /\ Proceed(reply, "sinkDataset")
    /\ UNCHANGED services

SyncSinkDataset ==
    /\ sync.pc = "sinkDataset"
    /\ \E reply \in {"ok", "error"} :
        Reply(reply) /\ ProceedOrReset(reply, "putSink", "sink")
    /\ UNCHANGED services

SyncPutSink ==
    /\ sync.pc = "putSink"
    /\ \E reply \in Replies :
        /\ Reply(reply)
        /\ sink' = IF Effective(reply)
                   THEN [sink EXCEPT ![SinkName(SyncT)] = SyncT] ELSE sink
        /\ target' = IF Effective(reply)
                     THEN [target EXCEPT ![SinkName(SyncT)] =
                               TargetOf(sync.info[2])]
                     ELSE target
        /\ failed' = IF Effective(reply)
                     THEN failed \ {SinkOf(SinkName(SyncT))} ELSE failed
        /\ IF reply = "ok" THEN NextTable ELSE Reset("sink")
    /\ UNCHANGED <<comment, cdc, yb, signals, source, copies, cached>>
-----------------------------------------------------------------------------
(* reset_connectors, in the handler: an exception here replaces the first  *)
(* one and skips the rest.                                                 *)
SyncDelSource ==
    /\ sync.pc = "delSource"
    /\ \E reply \in Replies :
        DeleteSource(SyncT, reply) /\ Proceed(reply, "delSignal")

(* As SyncDelSignal would be if the sink were deleted only in the absence  *)
(* of a source.                                                            *)
SyncDelSignalElse ==
    /\ sync.pc = "delSignal"
    /\ \E reply \in Replies :
        /\ RemoveSignal(SyncT, reply)
        /\ IF reply # "ok" THEN NextTable ELSE ResetEnd(sync)

SyncDelSignal ==
    /\ sync.pc = "delSignal"
    /\ \E reply \in Replies :
        /\ RemoveSignal(SyncT, reply)
        /\ IF reply # "ok" THEN NextTable
           ELSE IF "sink" \in sync.seen THEN Goto("delSink")
           ELSE ResetEnd(sync)

SyncDelSink ==
    /\ sync.pc = "delSink"
    /\ \E reply \in Replies :
        /\ DeleteSink(SyncT, reply)
        /\ IF reply = "ok" THEN ResetEnd(sync) ELSE NextTable

(* The last line of create_source_connector's handler, which then raises. *)
SyncUnsignal ==
    /\ sync.pc = "unsignal"
    /\ \E reply \in Replies : RemoveSignal(SyncT, reply)
    /\ NextTable

SyncNext ==
    \/ SyncDiscover \/ SyncEnd \/ SyncSkip \/ SyncTake
    \/ SyncCheckSource \/ SyncCheckSink
    \/ SyncCheckBq \/ SyncFetch \/ SyncClear \/ SyncInsert
    \/ SyncDataset \/ SyncRowCount \/ SyncRecount \/ SyncCacheCount
    \/ SyncStream \/ SyncSignalCount \/ SyncSignal \/ SyncPutSource
    \/ SyncKeyfile \/ SyncSinkDataset \/ SyncPutSink
    \/ SyncDelSource \/ SyncDelSignal \/ SyncDelSink \/ SyncUnsignal
=============================================================================
