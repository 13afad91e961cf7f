----------------------------- MODULE DatabasePrep -----------------------------
(***************************************************************************)
(* prepare_database, call by call, for one database.  An orchestrator runs *)
(* it again and again, never twice at once for a database; the database    *)
(* itself does not keep several orchestrators (replicas, or the old and    *)
(* the new one of an update) from doing so.                                *)
(***************************************************************************)
EXTENDS Naturals, FiniteSets

CONSTANTS
    Instances,  \* the orchestrators at work
    Tables,     \* tables the sync loop may ask a snapshot of
    MaxFaults   \* how many calls fail and processes die (a bound)

ASSUME InstancesAssumption == IsFiniteSet(Instances)
ASSUME MaxFaultsAssumption == MaxFaults \in Nat

VARIABLES
    signalTable,  \* whether public.debezium_signal exists
    signals,      \* the tables with a row in it
    streamTable,  \* whether public.database_stream exists
    recorded,     \* the stream ids in it
    created,      \* yb-admin has made the streams 1 .. created
    prep,         \* prep[i]: the call instance i is about to make
    id,           \* id[i]: the stream it has made and not recorded, 0 if none
    budget        \* disturbances still to come

database == <<signalTable, signals, streamTable, recorded, created>>
vars == <<database, prep, id, budget>>

Pcs ==
    {"checkSignals", "wipe", "createSignals", "checkTable", "createTable",
     "read", "createStream", "recheck", "insert"}

TypeOK ==
    /\ signalTable \in BOOLEAN
    /\ signals \subseteq Tables
    /\ streamTable \in BOOLEAN
    /\ recorded \subseteq 1 .. created
    /\ created \in Nat
    /\ prep \in [Instances -> Pcs]
    /\ id \in [Instances -> 0 .. created]
    /\ budget \in 0 .. MaxFaults

(* A new database, or one init.sql has made both tables in. *)
Init ==
    /\ signalTable \in BOOLEAN
    /\ signals = {}
    /\ streamTable = signalTable
    /\ recorded = {}
    /\ created = 0
    /\ prep = [i \in Instances |-> "checkSignals"]
    /\ id = [i \in Instances |-> 0]
    /\ budget = MaxFaults

-----------------------------------------------------------------------------
Replies == {"ok", "error", "lost"}
Effective(reply) == reply # "error"
Spend == budget > 0 /\ budget' = budget - 1
Reply(reply) == IF reply = "ok" THEN UNCHANGED budget ELSE Spend

Goto(i, pc) == prep' = [prep EXCEPT ![i] = pc] /\ UNCHANGED id

(* prepare_database returns, or its handler logs what was raised. *)
Rest(i) ==
    /\ prep' = [prep EXCEPT ![i] = "checkSignals"]
    /\ id' = [id EXCEPT ![i] = 0]

Proceed(i, reply, pc) == IF reply = "ok" THEN Goto(i, pc) ELSE Rest(i)

(* A query that tells which call comes next. *)
Query(i, pc, next) ==
    /\ prep[i] = pc
    /\ \E reply \in {"ok", "error"} : Reply(reply) /\ Proceed(i, reply, next)
    /\ UNCHANGED database
-----------------------------------------------------------------------------
(* create_debezium_signal_table. *)
CheckSignals(i) ==
    Query(i, "checkSignals", IF signalTable THEN "wipe" ELSE "createSignals")

Wipe(i) ==
    /\ prep[i] = "wipe"
    /\ \E reply \in Replies :
        /\ Reply(reply)
        /\ signals' = IF Effective(reply) THEN {} ELSE signals
        /\ Proceed(i, reply, "createSignals")
    /\ UNCHANGED <<signalTable, streamTable, recorded, created>>

(* As CreateSignals would be if its exception were logged and passed over. *)
CreateSignalsAnyway(i) ==
    /\ prep[i] = "createSignals"
    /\ \E reply \in Replies :
        /\ Reply(reply)
        /\ signalTable' = (signalTable \/ Effective(reply))
    /\ Goto(i, "checkTable")
    /\ UNCHANGED <<signals, streamTable, recorded, created>>

CreateSignals(i) ==
    /\ prep[i] = "createSignals"
    /\ \E reply \in Replies :
        /\ Reply(reply)
        /\ signalTable' = (signalTable \/ Effective(reply))
        /\ Proceed(i, reply, "checkTable")
    /\ UNCHANGED <<signals, streamTable, recorded, created>>

(* create_stream_table. *)
CheckTable(i) ==
    Query(i, "checkTable", IF streamTable THEN "read" ELSE "createTable")

(* As CreateTable would be with DROP and CREATE instead of IF NOT EXISTS. *)
CreateTableAnew(i) ==
    /\ prep[i] = "createTable"
    /\ \E reply \in Replies :
        /\ Reply(reply)
        /\ streamTable' = (streamTable \/ Effective(reply))
        /\ recorded' = IF Effective(reply) THEN {} ELSE recorded
        /\ Proceed(i, reply, "read")
    /\ UNCHANGED <<signalTable, signals, created>>

CreateTable(i) ==
    /\ prep[i] = "createTable"
    /\ \E reply \in Replies :
        /\ Reply(reply)
        /\ streamTable' = (streamTable \/ Effective(reply))
        /\ Proceed(i, reply, "read")
    /\ UNCHANGED <<signalTable, signals, recorded, created>>

(* As ReadStream would be if preparation did not end where there is a stream. *)
ReadStreamAgain(i) == Query(i, "read", "createStream")

(* As ReadStream would be with its test the wrong way round. *)
ReadStreamInverted(i) ==
    Query(i, "read", IF recorded = {} THEN "checkSignals" ELSE "createStream")

(* Preparation ends here once there is a stream. *)
ReadStream(i) ==
    Query(i, "read", IF recorded # {} THEN "checkSignals" ELSE "createStream")

(* As CreateStream would be if it answered None for an output without an id. *)
CreateStreamNone(i) ==
    /\ prep[i] = "createStream"
    /\ \E reply \in Replies :
        /\ Reply(reply)
        /\ created' = IF Effective(reply) THEN created + 1 ELSE created
        /\ prep' = [prep EXCEPT ![i] = "recheck"]
        /\ id' = [id EXCEPT ![i] = IF reply = "ok" THEN created + 1 ELSE 0]
    /\ UNCHANGED <<signalTable, signals, streamTable, recorded>>

(* create_stream: yb-admin may have made the stream and then time out, or   *)
(* print no id that matches.                                               *)
CreateStream(i) ==
    /\ prep[i] = "createStream"
    /\ \E reply \in Replies :
        /\ Reply(reply)
        /\ created' = IF Effective(reply) THEN created + 1 ELSE created
        /\ IF reply = "ok"
           THEN /\ prep' = [prep EXCEPT ![i] = "recheck"]
                /\ id' = [id EXCEPT ![i] = created + 1]
           ELSE Rest(i)
    /\ UNCHANGED <<signalTable, signals, streamTable, recorded>>

(* insert_into_stream_table looks for a stream again. *)
Recheck(i) ==
    /\ prep[i] = "recheck"
    /\ \E reply \in {"ok", "error"} :
        /\ Reply(reply)
        /\ IF reply = "ok" /\ recorded = {} THEN Goto(i, "insert") ELSE Rest(i)
    /\ UNCHANGED database

(* As Insert would be if a failure were retried with another stream. *)
InsertRetried(i) ==
    /\ prep[i] = "insert"
    /\ \E reply \in Replies :
        /\ Reply(reply)
        /\ recorded' = IF Effective(reply) THEN recorded \cup {id[i]}
                                          ELSE recorded
        /\ IF reply = "ok" THEN Rest(i) /\ UNCHANGED created
           ELSE /\ created' = created + 1
                /\ id' = [id EXCEPT ![i] = created + 1]
                /\ UNCHANGED prep
    /\ UNCHANGED <<signalTable, signals, streamTable>>

Insert(i) ==
    /\ prep[i] = "insert"
    /\ \E reply \in Replies :
        /\ Reply(reply)
        /\ recorded' = IF Effective(reply) THEN recorded \cup {id[i]}
                                          ELSE recorded
    /\ Rest(i)
    /\ UNCHANGED <<signalTable, signals, streamTable, created>>

(* The process dies.  Of the next one, __init__ runs the calls on the       *)
(* signal table, which prepare_database then begins with once more: they    *)
(* change nothing the second time, and the model makes one of the two.      *)
Crash(i) ==
    /\ prep[i] # "checkSignals"
    /\ Spend
    /\ Rest(i)
    /\ UNCHANGED database

(* The sync loop asks for a snapshot of a table; it works on no table before *)
(* a stream is recorded.                                                    *)
AskSnapshot(t) ==
    /\ recorded # {}
    /\ t \notin signals
    /\ signals' = signals \cup {t}
    /\ UNCHANGED <<signalTable, streamTable, recorded, created, prep, id, budget>>

Step(i) ==
    \/ CheckSignals(i) \/ Wipe(i) \/ CreateSignals(i)
    \/ CheckTable(i) \/ CreateTable(i)
    \/ ReadStream(i) \/ CreateStream(i) \/ Recheck(i) \/ Insert(i)

Next ==
    \/ \E i \in Instances : Step(i) \/ Crash(i)
    \/ \E t \in Tables : AskSnapshot(t)

Spec == Init /\ [][Next]_vars

(* Each orchestrator prepares again for ever, and each call returns or     *)
(* raises.                                                                 *)
FairSpec == Spec /\ \A i \in Instances : WF_vars(Step(i))
-----------------------------------------------------------------------------
(* Preparation as the other loops see it: it keeps its promise with any    *)
(* number of orchestrators.                                                *)
SeenStream ==
    IF ~streamTable THEN "missing"
    ELSE IF recorded = {} THEN "empty" ELSE "recorded"

Registry == INSTANCE StreamRegistry WITH stream <- SeenStream
Implements == Registry!Spec

(* Every loop reads the first row of an unordered query, so they agree on  *)
(* the stream only while there is one row.  Each orchestrator records one  *)
(* at most, and a single one hence no second, whatever crashes, time-outs  *)
(* and lost answers come between reading, creating and inserting.          *)
(* (yugabyte_db_manager.py:283-311)                                        *)
OneStream == Cardinality(recorded) <= Cardinality(Instances)

(* Where there is a stream, and hence tables to set up, the tables the     *)
(* loops query and write are there, though each step checks again and any  *)
(* of them may fail.  (table_sync_orchestrator.py:320-327)                 *)
RecordedPrepared == recorded # {} => signalTable /\ streamTable

(* Streams nobody records stay in the database: no more of them are left   *)
(* than calls failed or processes died, and one for each further           *)
(* orchestrator.  (ybadmin_utils.py:57-73)                                 *)
LeaksBounded ==
    created <= Cardinality(Instances) + (MaxFaults - budget)

(* Some stream is recorded in the end, with the failures behind. *)
Prepared == <>[](SeenStream = "recorded")
=============================================================================
