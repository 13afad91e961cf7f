----------------------------- MODULE Orchestrator -----------------------------
(***************************************************************************)
(* The orchestrator of one database: the main scan, the cleanup, the cache *)
(* checker and the preparation interleave over the services, users and the *)
(* application act on the same tables, and the process may die.            *)
(***************************************************************************)
EXTENDS SyncLoop, CleanupLoop, CacheCheckLoop

CONSTANT Loops  \* the loops an instance runs

ASSUME LoopsAssumption == Loops \subseteq {"sync", "clean", "check", "prep"}

Registry == INSTANCE StreamRegistry

locals == <<sync, clean, check>>
vars == <<world, locals>>

TypeOK == WorldTypeOK /\ SyncTypeOK /\ CleanTypeOK /\ CheckTypeOK

Init == WorldInit /\ SyncInit /\ CleanInit /\ CheckInit

SyncStep == "sync" \in Loops /\ SyncNext /\ UNCHANGED <<clean, check>>
CleanStep == "clean" \in Loops /\ CleanNext /\ UNCHANGED <<sync, check>>
CheckStep == "check" \in Loops /\ CheckNext /\ UNCHANGED <<sync, clean>>

Others == <<comment, listed, yb, connect, copies, cached, budget, locals>>

(* As PrepareTable would be if it emptied the table it finds, the way      *)
(* WipeSignals does.                                                       *)
PrepareTableWipes ==
    "prep" \in Loops /\ stream' = "empty" /\ UNCHANGED <<signals, Others>>

PrepareTable == "prep" \in Loops /\ Registry!CreateTable /\ UNCHANGED Others

PrepareStream == "prep" \in Loops /\ Registry!Record /\ UNCHANGED Others
PrepareSignals == "prep" \in Loops /\ Registry!WipeSignals /\ UNCHANGED Others

(* The process dies; its successor empties debezium_signal in __init__ and *)
(* starts its loops from nothing.                                          *)
Restart ==
    /\ Spend("crash")
    /\ sync' = SyncAt("idle", {})
    /\ clean' = CleanAt("idle", {})
    /\ check' = CheckAt("idle", {}, {})
    /\ signals' = {}
    /\ UNCHANGED <<comment, cdc, yb, connect, copies, cached>>

Environment == WorldNext /\ UNCHANGED locals

Next ==
    \/ SyncStep \/ CleanStep \/ CheckStep
    \/ PrepareTable \/ PrepareStream \/ PrepareSignals
    \/ Restart
    \/ Environment

Spec == Init /\ [][Next]_vars

(* The threads run for ever and each call of a service returns or raises.  *)
(* Nothing is asked of users, of the application, of Kafka Connect or of   *)
(* Redis, and disturbances end because the budget does.                    *)
Fairness ==
    /\ WF_vars(SyncStep)
    /\ WF_vars(CleanStep)
    /\ WF_vars(CheckStep)
    /\ WF_vars(PrepareTable)
    /\ WF_vars(PrepareStream)

FairSpec == Spec /\ Fairness
-----------------------------------------------------------------------------
(* The backfill overwrites a table only while its pipeline is down: from   *)
(* the decision to clear it to the insertion of the rows fetched, at least *)
(* one connector is missing, whatever the cleanup and the users do in      *)
(* between.  (table_sync_orchestrator.py:350-355)                          *)
BackfillOffline == sync.pc \in {"clear", "insert"} => ~Live(SyncT)

(* When the handler of create_source_connector comes to its last call, the *)
(* reset has left neither connector behind, even when the PUT took effect  *)
(* before it failed and the cleanup was deleting the same connectors.      *)
(* (kafka_connector.py:222-227)                                            *)
ResetComplete ==
    sync.pc = "unsignal" => ~SourceExists(SyncT) /\ ~SinkExists(SyncT)

(* The loops together keep what Replication promises: rows are replaced by *)
(* a backfill only while the table is not live, and only by what was       *)
(* fetched for it, whatever the cleanup, users, Kafka Connect, failures    *)
(* and crashes do between the calls.                                       *)
(* (table_sync_orchestrator.py:343-387)                                    *)
LiveTables == {t \in Tables : Live(t)}
Backfill ==
    IF sync.pc \in {"clear", "insert"} THEN {<<SyncT, sync.data>>} ELSE {}

Copying == INSTANCE Replication WITH live <- LiveTables, backfill <- Backfill
Replicates == Copying!Spec

(* A table that stays enabled, with whichever target, and that the stream  *)
(* lists gets both its connectors, with the sink on its own topic, and     *)
(* keeps them, whatever failures, crashes and annotations came first.      *)
(* Whether they run, and where the sink writes to, is another matter: see  *)
(* Follows below.  (table_sync_orchestrator.py:343-387)                    *)
EnabledConverges ==
    \A t \in Tables :
        <>[](comment[t] \in {"enabled", "moved"} /\ t \in listed) => <>[]Live(t)

(* A table that stays disabled, while the stream lists it, ends up without *)
(* connectors and without the BigQuery table its comment names for good,   *)
(* although the sync loop may be setting it up from an older annotation    *)
(* and the sink can create the table again.                                *)
(* (table_sync_orchestrator.py:284-310)                                    *)
BqNamed(t) == <<t, TargetOf(comment[t])>>
TornDown(t) == ~SourceExists(t) /\ ~SinkExists(t) /\ bq[BqNamed(t)] = NoCopy

DisabledConverges ==
    \A t \in Tables :
        <>[](comment[t] = "disabled" /\ t \in listed) => <>[]TornDown(t)

(* Once both connectors of an enabled table are up and its set-up has left *)
(* it, no loop touches it again: only a user's edit, a lost connector, or a *)
(* status request that fails can unsettle it.  Annotations read earlier,   *)
(* exceptions, crashes and the turns of other tables do not.               *)
(* (table_sync_orchestrator.py:286-300, 340-350)                           *)
Namesakes(t) == {u \in Tables \ {t} : SinkName(u) = SinkName(t)}
Holds(infos, t) == {info[2] : info \in {i \in infos : i[1] = t}}

Settled(t) ==
    /\ IsEnabled(comment[t]) /\ Live(t) /\ Namesakes(t) = {}
    /\ \A c \in Holds(clean.todo \cup {clean.info}, t) : IsEnabled(c)
    /\ SyncT = t =>
        /\ sync.via = "loop"
        /\ \/ sync.pc = "checkSource"
           \/ sync.pc = "checkSink" /\ "source" \in sync.seen

StatusFails ==
    sync.pc \in {"checkSource", "checkSink"} /\ UNCHANGED services
        /\ budget' # budget

SettledStays ==
    [][\A t \in Tables : Settled(t) =>
           \/ Settled(t)'
           \/ ~IsEnabled(comment'[t])
           \/ DropSource(t) \/ DropSink(SinkName(t)) \/ StatusFails]_vars

(* Once a table that is not enabled has neither connectors nor a BigQuery  *)
(* table, and no scan from before is under way, it stays so until a user   *)
(* enables it, whatever fails.                                             *)
(* (table_sync_orchestrator.py:340-349)                                    *)
Retired(t) ==
    /\ ~IsEnabled(comment[t]) /\ Namesakes(t) = {}
    /\ TornDown(t)
    /\ \A c \in Holds(sync.todo \cup {sync.info}, t) : ~IsEnabled(c)

RetiredStays ==
    [][\A t \in Tables :
           Retired(t) => Retired(t)' \/ IsEnabled(comment'[t])]_vars

(* While the rows a backfill has fetched are on their way into the table   *)
(* BigQuery keeps them, unless the loop saw a sink when it decided to      *)
(* backfill, or the cleanup is deleting the BigQuery table.                *)
(* (table_sync_orchestrator.py:349-355)                                    *)
Copy(b) == IF bq[b] = NoCopy THEN {} ELSE bq[b]

CopyHeld ==
    [][\A b \in Tables \X Targets :
           /\ sync.pc \in {"clear", "insert"} /\ BqTable(sync.info) = b
           /\ "sink" \notin sync.seen
           /\ ~(clean.pc = "delBq" /\ BqTable(clean.info) = b)
           => sync.data \cap Copy(b) \subseteq Copy(b)']_vars

(* The rows a backfill has fetched, and cleared the table for, are in the  *)
(* table in the end even when it fails or crashes before the insert, as    *)
(* the copy in BigQuery is fetched again; unless a user edits the comment, *)
(* the stream no longer lists the table, or a sink left alone replays its  *)
(* topic over that copy.                                                   *)
(* (table_sync_orchestrator.py:351-355)                                    *)
SinkAlone(t) == SinkExists(t) /\ ~SourceExists(t)

BackfillRestores ==
    \A t \in Tables, r \in Rows, c \in {"enabled", "moved"} :
        (sync.pc = "insert" /\ sync.info = <<t, c>> /\ r \in sync.data)
            ~> r \in yb[t] \/ comment[t] # c \/ t \notin listed \/ SinkAlone(t)

(* All the loops, restarts and users keep what StreamRegistry says of the  *)
(* two tables they share with preparation, which counts on it: a snapshot  *)
(* is asked for only of a database whose stream is recorded, whenever the  *)
(* scan began, and a signal goes only when all do.                         *)
(* (table_sync_orchestrator.py:334-343, yugabyte_db_manager.py:129-135,    *)
(* 203-222)                                                                *)
Registers == Registry!Spec

(* A cached count of a table that stays enabled does not outlast BigQuery  *)
(* having as many rows: whatever raises in its rounds, the checker removes *)
(* it.  Only of the tables it goes round, though: a call discovers them    *)
(* once, so the list of the call that goes on, and of those still to come, *)
(* has to have the table, with the BigQuery table it names.                *)
(* (table_sync_orchestrator.py:240-269)                                    *)
CountReached(t) ==
    /\ cached[t] # NoCount
    /\ bq[BqNamed(t)] # NoCopy
    /\ Cardinality(bq[BqNamed(t)]) = cached[t]

Checked(t) ==
    check.pc # "idle" => \E info \in check.tables : BqTable(info) = BqNamed(t)

CountsChecked ==
    \A t \in Tables :
        <>[](comment[t] = "enabled" /\ Checked(t)) => []<>~CountReached(t)
-----------------------------------------------------------------------------
(* What the documentation and the log messages say of the program, and the *)
(* program does not do.                                                    *)

(* "Source connector exists but sink connector missing, creating sink      *)
(* connector": a table with a source connector is not backfilled.          *)
(* (table_sync_orchestrator.py:375)                                        *)
SinkRepaired ==
    sync.pc = "clear" => ~SourceExists(SyncT)

(* "Table annotation disabled or not found, removing any existing setup if *)
(* present": a table that was set up and loses its annotation loses its    *)
(* connectors and the BigQuery table.  (table_sync_orchestrator.py:382)    *)
DepartedConverges ==
    \A t \in Tables :
        <>Live(t) /\ <>[](comment[t] = "plain") =>
            <>[](/\ ~SourceExists(t) /\ ~SinkExists(t)
                 /\ \A g \in Targets : bq[<<t, g>>] = NoCopy)

(* "Config modified: Update pipeline configuration", and for the sync loop *)
(* "verifies connector presence & RUNNING status, restarts failed          *)
(* connectors": the connectors of a table that stays enabled end up        *)
(* running, with the sink on the BigQuery table its comment names.         *)
(* (README.md:403, table_sync_orchestrator.py:16-18)                       *)
Replicated(t) ==
    /\ Live(t)
    /\ {SourceOf(t), SinkOf(SinkName(t))} \cap failed = {}
    /\ target[SinkName(t)] = TargetOf(comment[t])

Follows ==
    \A t \in Tables, c \in {"enabled", "moved"} :
        <>[](comment[t] = c /\ t \in listed) => <>[]Replicated(t)
=============================================================================
