------------------------------ MODULE CleanupLoop ------------------------------
(***************************************************************************)
(* The cleanup thread of one database: cleanup_connectors scans the tables *)
(* for ever and takes down the pipeline of those that are not enabled.     *)
(* One try encloses the whole loop, so any exception ends the call with    *)
(* the rest of its scan; the pool then calls it anew.                      *)
(***************************************************************************)
EXTENDS SyncWorld

VARIABLE clean
(* clean.pc, clean.todo, clean.info and clean.seen are as in sync. *)

CleanPcs ==
    {"idle", "loop", "checkSource", "checkSink", "checkBq", "delBq",
     "delSource", "delSignal", "delSink"}

CleanTypeOK ==
    clean \in [pc : CleanPcs, todo : SUBSET (Tables \X CommentKinds),
               info : (Tables \cup {NoTable}) \X CommentKinds,
               seen : SUBSET {"source", "sink"}]

CleanAt(pc, todo) ==
    [pc |-> pc, todo |-> todo, info |-> <<NoTable, "plain">>, seen |-> {}]

CleanInit == clean = CleanAt("idle", {})

CleanT == clean.info[1]
CleanNextTable == clean' = CleanAt("loop", clean.todo)
CleanRaise == clean' = CleanAt("idle", {})

CleanProceed(reply, pc) ==
    IF reply = "ok" THEN clean' = [clean EXCEPT !.pc = pc] ELSE CleanRaise

CleanDiscover ==
    /\ clean.pc = "idle"
    /\ stream # "missing"
    /\ \E found \in SUBSET Discovered :
        /\ DiscoverReply(found)
        /\ clean' = CleanAt("loop", found)

CleanEnd ==
    /\ clean.pc = "loop"
    /\ clean.todo = {}
    /\ CleanRaise
    /\ UNCHANGED world

(* An enabled table: the loop asks for its connectors and does nothing. *)
CleanSkip ==
    /\ clean.pc = "loop"
    /\ \E info \in clean.todo :
        /\ IsEnabled(info[2])
        /\ clean' = CleanAt("loop", clean.todo \ {info})
    /\ UNCHANGED world

(* As CleanTake would be if it did not look at the annotation. *)
CleanTakeAny ==
    /\ clean.pc = "loop"
    /\ \E info \in clean.todo :
        clean' = [CleanAt("checkSource", clean.todo \ {info})
                     EXCEPT !.info = info]
    /\ UNCHANGED world

CleanTake ==
    /\ clean.pc = "loop"
    /\ \E info \in clean.todo :
        /\ ~IsEnabled(info[2])
        /\ clean' = [CleanAt("checkSource", clean.todo \ {info})
                        EXCEPT !.info = info]
    /\ UNCHANGED world

CleanCheckSource ==
    /\ clean.pc = "checkSource"
    /\ \E found \in SUBSET {"source"} :
        /\ StatusReply("source", SourceExists(CleanT), found)
        /\ clean' = [clean EXCEPT !.pc = "checkSink", !.seen = found]
    /\ UNCHANGED services

CleanCheckSink ==
    /\ clean.pc = "checkSink"
    /\ \E found \in SUBSET {"sink"} :
        /\ StatusReply("sink", SinkExists(CleanT), found)
        /\ clean' = [clean EXCEPT !.pc = "checkBq", !.seen = @ \cup found]
    /\ UNCHANGED services

(* As CleanConnectors would be if it asked for both connectors, not either. *)
CleanConnectorsBoth ==
    IF clean.seen = {"source", "sink"}
    THEN clean' = [clean EXCEPT !.pc = "delSource"]
    ELSE CleanNextTable

(* The next connector to delete, of those the status requests reported. *)
CleanConnectors ==
    IF "source" \in clean.seen
    THEN clean' = [clean EXCEPT !.pc = "delSource"]
    ELSE IF "sink" \in clean.seen
    THEN clean' = [clean EXCEPT !.pc = "delSink"]
    ELSE CleanNextTable

(* Without an annotation there is no target to ask for, whatever BigQuery  *)
(* still holds of the table.                                               *)
CleanCheckBq ==
    /\ clean.pc = "checkBq"
    /\ \/ \E found \in SUBSET {"bq"} :
            /\ ExistsReply(clean.info, found)
            /\ IF found = {} THEN CleanConnectors
                             ELSE clean' = [clean EXCEPT !.pc = "delBq"]
       \/ CleanRaise /\ Spend("error")
    /\ UNCHANGED services

CleanDelBq ==
    /\ clean.pc = "delBq"
    /\ \E reply \in Replies :
        /\ ReplyIf(bq[BqTable(clean.info)] # NoCopy, reply)
        /\ bq' = IF Effective(reply)
                 THEN [bq EXCEPT ![BqTable(clean.info)] = NoCopy] ELSE bq
        /\ IF reply = "ok" THEN CleanConnectors ELSE CleanRaise
    /\ UNCHANGED <<comment, cdc, yb, signals, connect, topic, cached>>

CleanDelSource ==
    /\ clean.pc = "delSource"
    /\ \E reply \in Replies :
        DeleteSource(CleanT, reply) /\ CleanProceed(reply, "delSignal")

(* The end of delete_source_cdc_connector. *)
CleanDelSignal ==
    /\ clean.pc = "delSignal"
    /\ \E reply \in Replies :
        /\ RemoveSignal(CleanT, reply)
        /\ IF reply # "ok" THEN CleanRaise
           ELSE IF "sink" \in clean.seen
           THEN clean' = [clean EXCEPT !.pc = "delSink"]
           ELSE CleanNextTable

CleanDelSink ==
    /\ clean.pc = "delSink"
    /\ \E reply \in Replies :
        /\ DeleteSink(CleanT, reply)
        /\ IF reply = "ok" THEN CleanNextTable ELSE CleanRaise

CleanNext ==
    \/ CleanDiscover \/ CleanEnd \/ CleanSkip \/ CleanTake
    \/ CleanCheckSource \/ CleanCheckSink \/ CleanCheckBq \/ CleanDelBq
    \/ CleanDelSource \/ CleanDelSignal \/ CleanDelSink
=============================================================================
