------------------------------ MODULE SyncWorld ------------------------------
(***************************************************************************)
(* One YugabyteDB database of the table-sync orchestrator, with the        *)
(* services its loops call: YugabyteDB itself, Kafka Connect, BigQuery,    *)
(* Redis.  The loops run in threads of one process and share nothing but   *)
(* these services, so this module holds all the shared state; each loop    *)
(* is a module of its own that adds its local state and its actions.       *)
(*                                                                         *)
(* A table is a pair <<schema, name>>, a row is its id (the primary key),  *)
(* and what a loop remembers of a discovered table (TableInfo) is the      *)
(* pair <<table, annotation>>.                                             *)
(***************************************************************************)
EXTENDS Naturals, FiniteSets

CONSTANTS
    Schemas, Names,  \* schema names and table names
    Tables,          \* the tables with an `id` primary key, some may not exist yet
    Database,        \* the name of the database
    Rows,            \* row ids
    Comments,        \* the annotations users give tables in an instance
    Faults,          \* the kinds of disturbance an instance admits
    MaxFaults,       \* and how many of them a behaviour has (a bound)
    NoTable, NoCopy, NoCount

(* What TableAnnotation.from_comment and TableInfo make of a table's comment. *)
(*   gone     there is no such table                                          *)
(*   plain    no usable comment: no annotation, hence no BigQuery target      *)
(*   disabled annotated with a BigQuery target, not enabled                   *)
(*   enabled  annotated with a BigQuery target and enabled                    *)
(*   moved    the same with another BigQuery target                           *)
(*   tableless enabled, "bq" without a dot: a dataset and no table            *)
(*   hintless enabled without "bq": neither                                   *)
CommentKinds == {"gone", "plain", "disabled", "enabled", "moved",
                 "tableless", "hintless"}

IsEnabled(c) == c \in {"enabled", "moved", "tableless", "hintless"}
HasDataset(c) == c \in {"disabled", "enabled", "moved", "tableless"}
HasTarget(c) == c \in {"disabled", "enabled", "moved"}

(* The BigQuery tables a table's comments may name, and the one an         *)
(* annotation does, if it HasTarget.                                       *)
Targets == {"first", "second"}
TargetOf(c) == IF c = "moved" THEN "second" ELSE "first"
BqTable(info) == <<info[1], TargetOf(info[2])>>

(* Disturbances.                                                             *)
(*   status  a status request of Kafka Connect fails                         *)
(*   exists  a get_table request of BigQuery fails                           *)
(*   error   a call raises and has had no effect                             *)
(*   lost    a call takes effect and raises (its answer is lost)             *)
(*   partial discovery drops tables (yb-admin or a catalog query fails)      *)
(*   crash   the process dies and is restarted                               *)
(*   drop    a connector disappears from Kafka Connect                       *)
(*   fail    a connector fails: it is there, but does nothing any more       *)
(*   write   the application inserts or deletes a row                        *)
FaultKinds ==
    {"status", "exists", "error", "lost", "partial", "crash", "drop", "fail",
     "write"}

ASSUME TablesAssumption == Tables \subseteq Schemas \X Names
ASSUME RowsAssumption == IsFiniteSet(Rows)
ASSUME NoTableAssumption == NoTable \notin Tables
ASSUME NoCopyAssumption == \A S \in SUBSET Rows : NoCopy # S
ASSUME NoCountAssumption == NoCount \notin Nat
ASSUME CommentsAssumption == Comments \subseteq CommentKinds
ASSUME FaultsAssumption == Faults \subseteq FaultKinds /\ MaxFaults \in Nat

VARIABLES
    comment,  \* comment[t]: the kind of comment table t carries
    stream,   \* public.database_stream: missing, empty, or with a stream id
    listed,   \* tables that the recorded stream lists
    yb,       \* yb[t]: the rows of table t in YugabyteDB
    signals,  \* tables with a row in public.debezium_signal
    source,   \* tables with a source connector
    sink,     \* sink[n]: the table whose topic the sink named after n consumes
    target,   \* target[n]: the BigQuery target that sink was given
    failed,   \* connectors that are there and have failed
    topic,    \* topic[t]: the rows the topic of t amounts to, NoCopy before any
    bq,       \* bq[<<t, g>>]: the rows of a BigQuery table, NoCopy if there is none
    cached,   \* cached[t]: the row count Redis holds for t, NoCount if none
    budget    \* disturbances still to come

cdc == <<stream, listed>>
connect == <<source, sink, target, failed>>
copies == <<topic, bq>>
services == <<comment, cdc, yb, signals, connect, copies, cached>>
world == <<services, budget>>

(* Connector names: the source is named after schema and table, the sink   *)
(* after the table name alone.                                             *)
SinkName(t) == t[2]
SourceOf(t) == <<"source", t>>
SinkOf(n) == <<"sink", n>>
Connectors == {SourceOf(t) : t \in Tables} \cup {SinkOf(n) : n \in Names}

WorldTypeOK ==
    /\ comment \in [Tables -> CommentKinds]
    /\ stream \in {"missing", "empty", "recorded"}
    /\ listed \subseteq Tables
    /\ yb \in [Tables -> SUBSET Rows]
    /\ signals \subseteq Tables
    /\ source \subseteq Tables
    /\ sink \in [Names -> Tables \cup {NoTable}]
    /\ target \in [Names -> Targets]
    /\ failed \subseteq Connectors
    /\ topic \in [Tables -> {NoCopy} \cup SUBSET Rows]
    /\ bq \in [Tables \X Targets -> {NoCopy} \cup SUBSET Rows]
    /\ cached \in [Tables -> Nat \cup {NoCount}]
    /\ budget \in 0 .. MaxFaults

(* A fresh deployment: no connector yet, any data and any comments.        *)
(* BigQuery tables that no comment ever names are left out.                *)
WorldInit ==
    /\ comment \in [Tables -> Comments]
    /\ stream \in {"missing", "recorded"}
    /\ yb \in [Tables -> SUBSET Rows]
    /\ listed \in SUBSET {t \in Tables : stream = "recorded"}
    /\ \A t \in Tables : comment[t] = "gone" => yb[t] = {} /\ t \notin listed
    /\ signals = {}
    /\ source = {}
    /\ sink = [n \in Names |-> NoTable]
    /\ target = [n \in Names |-> "first"]
    /\ failed = {}
    /\ topic = [t \in Tables |-> NoCopy]
    /\ bq \in [Tables \X Targets -> UNION {{NoCopy}, SUBSET Rows}]
    /\ \A b \in Tables \X Targets :
        (\A c \in Comments : TargetOf(c) # b[2]) => bq[b] = NoCopy
    /\ cached = [t \in Tables |-> NoCount]
    /\ budget = MaxFaults

-----------------------------------------------------------------------------
(* The calls the loops make, as far as they can fail.                      *)

Spend(kind) ==
    /\ kind \in Faults
    /\ budget > 0
    /\ budget' = budget - 1

(* A call of a service: it answers, raises without effect, or takes effect *)
(* and raises.                                                             *)
Replies == {"ok", "error", "lost"}
Effective(reply) == reply # "error"
Reply(reply) ==
    IF reply = "ok" THEN UNCHANGED budget ELSE Spend(reply)

(* A call that raises by itself unless `can` holds. *)
ReplyIf(can, reply) ==
    IF can THEN Reply(reply) ELSE reply = "error" /\ UNCHANGED budget

(* A statement on table t raises when the table is gone. *)
SqlReply(t, reply) == ReplyIf(comment[t] # "gone", reply)

(* One of the two status requests of check_connector_exists.  `found` is   *)
(* {which} if it reported the connector: every failure of the request      *)
(* reads as a missing connector.                                           *)
StatusReply(which, exists, found) ==
    \/ found = {w \in {which} : exists} /\ UNCHANGED budget
    \/ exists /\ found = {} /\ Spend("status")

(* check_table_exists, the same way: `found` is {"bq"} if it said yes. *)
ExistsReply(info, found) ==
    LET exists == HasTarget(info[2]) /\ bq[BqTable(info)] # NoCopy
    IN  \/ found = {w \in {"bq"} : exists} /\ UNCHANGED budget
        \/ exists /\ found = {} /\ Spend("exists")

(* _discover_tables: nothing without a recorded stream.  It asks yb-admin  *)
(* to add the tables that the stream does not list; some join it, or did   *)
(* on their own since, and those it still does not list are left out.  A   *)
(* failure on the way loses the tables not reached yet.                    *)
Discovered ==
    IF stream = "recorded"
    THEN {<<t, comment[t]>> : t \in {u \in Tables : comment[u] # "gone"}}
    ELSE {}

DiscoverReply(found) ==
    /\ \E joined \in SUBSET Discovered :
        listed' = listed \cup {info[1] : info \in joined}
    /\ LET covered == {info \in Discovered : info[1] \in listed'}
       IN  \/ found = covered /\ UNCHANGED budget
           \/ found \subseteq covered /\ found # covered /\ Spend("partial")
    /\ UNCHANGED <<comment, stream, yb, signals, connect, copies, cached>>

SourceExists(t) == t \in source
SinkExists(t) == sink[SinkName(t)] # NoTable

(* A table is live when both connectors exist and the sink reads this      *)
(* table's topic: as much as a status request tells.                       *)
Live(t) == t \in source /\ sink[SinkName(t)] = t

(* The text of a signal's "data-collections": what ->> makes of the JSON   *)
(* array of one "schema.table", brackets and quotes included.  And the     *)
(* text the removal compares it with, "database.table".                    *)
SignalText(t) == <<"[\"", t[1], ".", t[2], "\"]">>
RemovalText(t) == <<Database, ".", t[2]>>

SignalsWithout(t) == {s \in signals : SignalText(s) # RemovalText(t)}

(* The three calls that both loops make to take a pipeline down.  Kafka    *)
(* Connect answers 404 for a connector deleted since, which raises.        *)
DeleteSource(t, reply) ==
    /\ ReplyIf(SourceExists(t), reply)
    /\ source' = IF Effective(reply) THEN source \ {t} ELSE source
    /\ failed' = IF Effective(reply) THEN failed \ {SourceOf(t)} ELSE failed
    /\ UNCHANGED <<comment, cdc, yb, signals, sink, target, copies, cached>>

RemoveSignal(t, reply) ==
    /\ Reply(reply)
    /\ signals' = IF Effective(reply) THEN SignalsWithout(t) ELSE signals
    /\ UNCHANGED <<comment, cdc, yb, connect, copies, cached>>

DeleteSink(t, reply) ==
    /\ ReplyIf(SinkExists(t), reply)
    /\ sink' = IF Effective(reply)
               THEN [sink EXCEPT ![SinkName(t)] = NoTable] ELSE sink
    /\ target' = IF Effective(reply)
                 THEN [target EXCEPT ![SinkName(t)] = "first"] ELSE target
    /\ failed' = IF Effective(reply)
                 THEN failed \ {SinkOf(SinkName(t))} ELSE failed
    /\ UNCHANGED <<comment, cdc, yb, signals, source, copies, cached>>
-----------------------------------------------------------------------------
(* The environment: users, the application, Kafka Connect's workers, Redis.*)

(* A user edits a comment, drops a table or creates it anew, empty and     *)
(* with an id the stream does not list.                                    *)
SetComment(t, c) ==
    /\ c \in Comments \ {comment[t]}
    /\ comment' = [comment EXCEPT ![t] = c]
    /\ yb' = IF c = "gone" THEN [yb EXCEPT ![t] = {}] ELSE yb
    /\ listed' = IF c = "gone" THEN listed \ {t} ELSE listed
    /\ UNCHANGED <<stream, signals, connect, copies, cached, budget>>

(* The application inserts row r, or deletes it. *)
AppWrite(t, r) ==
    /\ comment[t] # "gone"
    /\ yb' = [yb EXCEPT ![t] = IF r \in @ THEN @ \ {r} ELSE @ \cup {r}]
    /\ Spend("write")
    /\ UNCHANGED <<comment, cdc, signals, connect, copies, cached>>

(* The source connector brings its topic up to date with the table. *)
Capture(t) ==
    /\ t \in source
    /\ SourceOf(t) \notin failed
    /\ comment[t] # "gone"
    /\ topic[t] # yb[t]
    /\ topic' = [topic EXCEPT ![t] = yb[t]]
    /\ UNCHANGED <<comment, cdc, yb, signals, connect, bq, cached, budget>>

(* The sink connector applies the topic to the BigQuery table, creating it  *)
(* if need be: the rows of the topic are there, of the others those stay   *)
(* that the topic never mentioned.  It needs no source: topics outlive it. *)
Deliver(t) ==
    /\ sink[SinkName(t)] = t
    /\ SinkOf(SinkName(t)) \notin failed
    /\ topic[t] # NoCopy
    /\ LET b == <<t, target[SinkName(t)]>>
       IN  \E kept \in SUBSET (IF bq[b] = NoCopy THEN {} ELSE bq[b]) :
               bq' = [bq EXCEPT ![b] = topic[t] \cup kept]
    /\ bq' # bq
    /\ UNCHANGED <<comment, cdc, yb, signals, connect, topic, cached, budget>>

(* A connector disappears: removed by hand, or Kafka Connect lost it. *)
DropSource(t) ==
    /\ t \in source
    /\ source' = source \ {t}
    /\ failed' = failed \ {SourceOf(t)}
    /\ Spend("drop")
    /\ UNCHANGED <<comment, cdc, yb, signals, sink, target, copies, cached>>

DropSink(n) ==
    /\ sink[n] # NoTable
    /\ sink' = [sink EXCEPT ![n] = NoTable]
    /\ target' = [target EXCEPT ![n] = "first"]
    /\ failed' = failed \ {SinkOf(n)}
    /\ Spend("drop")
    /\ UNCHANGED <<comment, cdc, yb, signals, source, copies, cached>>

(* A connector, or its task, fails.  Its status request answers 200 still. *)
FailSource(t) ==
    /\ t \in source
    /\ SourceOf(t) \notin failed
    /\ failed' = failed \cup {SourceOf(t)}
    /\ Spend("fail")
    /\ UNCHANGED <<comment, cdc, yb, signals, source, sink, target, copies>>
    /\ UNCHANGED cached

FailSink(n) ==
    /\ sink[n] # NoTable
    /\ SinkOf(n) \notin failed
    /\ failed' = failed \cup {SinkOf(n)}
    /\ Spend("fail")
    /\ UNCHANGED <<comment, cdc, yb, signals, source, sink, target, copies>>
    /\ UNCHANGED cached

(* Redis drops an entry whose time to live has passed. *)
Expire(t) ==
    /\ cached[t] # NoCount
    /\ cached' = [cached EXCEPT ![t] = NoCount]
    /\ UNCHANGED <<comment, cdc, yb, signals, connect, copies, budget>>

WorldNext ==
    \/ \E t \in Tables :
        \/ \E c \in Comments : SetComment(t, c)
        \/ \E r \in Rows : AppWrite(t, r)
        \/ Capture(t)
        \/ Deliver(t)
        \/ DropSource(t) \/ FailSource(t)
        \/ Expire(t)
    \/ \E n \in Names : DropSink(n) \/ FailSink(n)
=============================================================================
