----------------------------- MODULE Replication ------------------------------
(***************************************************************************)
(* What the orchestrator of a database promises those who own the tables.  *)
(* The rows of a table change by the application's writes, by a user who   *)
(* drops the table, and by a backfill: the BigQuery rows are fetched, the  *)
(* table is cleared, these rows and no others are put in.  A backfill      *)
(* works on one table at a time, and never on one that is live, that is    *)
(* whose changes are being replicated to BigQuery.  Tables go live one at  *)
(* a time, with no backfill under way.                                     *)
(***************************************************************************)
CONSTANTS
    Tables, Rows, Comments, NoCopy,
    Targets   \* the BigQuery tables that the comments of a table may name

VARIABLES
    comment,  \* the comment of each table, "gone" for a dropped one
    yb,       \* its rows in YugabyteDB
    bq,       \* its rows in each of its BigQuery tables, NoCopy if there is none
    live,     \* the live tables
    backfill  \* {<<t, rows>>} while the rows fetched for t replace its own

vars == <<comment, yb, bq, live, backfill>>

Init ==
    /\ comment \in [Tables -> Comments]
    /\ yb \in [Tables -> SUBSET Rows]
    /\ bq \in [Tables \X Targets -> {NoCopy} \cup SUBSET Rows]
    /\ live = {}
    /\ backfill = {}

Comment(t, c) ==
    /\ comment' = [comment EXCEPT ![t] = c]
    /\ yb' = IF c = "gone" THEN [yb EXCEPT ![t] = {}] ELSE yb
    /\ UNCHANGED <<bq, live, backfill>>

Write(t, r) ==
    /\ comment[t] # "gone"
    /\ \E rows \in {yb[t] \cup {r}, yb[t] \ {r}} : yb' = [yb EXCEPT ![t] = rows]
    /\ UNCHANGED <<comment, bq, live, backfill>>

Fetch(t) ==
    /\ backfill = {}
    /\ t \notin live
    /\ \E g \in Targets :
        bq[<<t, g>>] # NoCopy /\ backfill' = {<<t, bq[<<t, g>>]>>}
    /\ UNCHANGED <<comment, yb, bq, live>>

(* The backfill goes on or, its answer lost, ends there. *)
Clear(t) ==
    /\ t \notin live
    /\ comment[t] # "gone"
    /\ \E rows \in SUBSET Rows : <<t, rows>> \in backfill
    /\ yb' = [yb EXCEPT ![t] = {}]
    /\ backfill' \in {backfill, {}}
    /\ UNCHANGED <<comment, bq, live>>

Restore(t, rows) ==
    /\ t \notin live
    /\ comment[t] # "gone"
    /\ <<t, rows>> \in backfill
    /\ rows \cap yb[t] = {}
    /\ yb' = [yb EXCEPT ![t] = @ \cup rows]
    /\ backfill' = {}
    /\ UNCHANGED <<comment, bq, live>>

EndBackfill ==
    /\ backfill' = {}
    /\ UNCHANGED <<comment, yb, bq, live>>

(* The table may take over the sink of another one of its name. *)
GoLive(t) ==
    /\ backfill = {}
    /\ live' \subseteq live \cup {t}
    /\ UNCHANGED <<comment, yb, bq, backfill>>

LoseLive ==
    /\ live' \subseteq live
    /\ UNCHANGED <<comment, yb, bq, backfill>>

(* The sink connector feeds the BigQuery table, the cleanup deletes it. *)
Feed(b, rows) ==
    /\ bq' = [bq EXCEPT ![b] = rows]
    /\ UNCHANGED <<comment, yb, live, backfill>>

Next ==
    \/ \E t \in Tables :
        \/ \E c \in Comments : Comment(t, c)
        \/ \E r \in Rows : Write(t, r)
        \/ \E rows \in SUBSET Rows : Restore(t, rows)
        \/ \E g \in Targets, rows \in {NoCopy} \cup SUBSET Rows :
            Feed(<<t, g>>, rows)
        \/ Fetch(t) \/ Clear(t) \/ GoLive(t)
    \/ EndBackfill \/ LoseLive

Spec == Init /\ [][Next]_vars
=============================================================================
