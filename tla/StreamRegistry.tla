---------------------------- MODULE StreamRegistry ----------------------------
(***************************************************************************)
(* What database preparation promises the loops that depend on it: the     *)
(* public.database_stream table of a database is created once, records a   *)
(* stream once, and public.debezium_signal is emptied now and then.  In    *)
(* turn the sync loop asks for a snapshot only once a stream is recorded.  *)
(***************************************************************************)
CONSTANT Tables

VARIABLES
    stream,  \* "missing", "empty" or "recorded", as the loops see it
    signals  \* the tables with a row in debezium_signal

Init ==
    /\ stream \in {"missing", "empty", "recorded"}
    /\ signals \subseteq Tables

CreateTable ==
    /\ stream = "missing"
    /\ stream' = "empty"
    /\ UNCHANGED signals

Record ==
    /\ stream = "empty"
    /\ stream' = "recorded"
    /\ UNCHANGED signals

(* create_debezium_signal_table deletes every row of the table it finds. *)
WipeSignals ==
    /\ signals # {}
    /\ signals' = {}
    /\ UNCHANGED stream

AskSnapshot(t) ==
    /\ stream = "recorded"
    /\ signals' = signals \cup {t}
    /\ UNCHANGED stream

Next ==
    \/ CreateTable \/ Record \/ WipeSignals
    \/ \E t \in Tables : AskSnapshot(t)

Spec == Init /\ [][Next]_<<stream, signals>>
=============================================================================
