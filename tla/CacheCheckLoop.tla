---------------------------- MODULE CacheCheckLoop ----------------------------
(***************************************************************************)
(* The cache checker of one database: check_cache_counts discovers the     *)
(* tables once and then goes round them for ever, removing the row counts  *)
(* that BigQuery has reached.  Only its rounds are inside the try: any     *)
(* exception ends the call, and the pool then calls it, and discovery,     *)
(* anew.                                                                   *)
(***************************************************************************)
EXTENDS SyncWorld

VARIABLE check
(* check.pc     the call the thread is about to make                        *)
(* check.tables the tables discovered when the call began                   *)
(* check.todo   those not looked at yet in this round                       *)
(* check.info   the table it works on                                       *)
(* check.val    the count Redis answered for it                             *)

CheckPcs == {"idle", "loop", "count", "delete", "unsignal"}

CheckTypeOK ==
    check \in [pc : CheckPcs, tables : SUBSET (Tables \X CommentKinds),
               todo : SUBSET (Tables \X CommentKinds),
               info : (Tables \cup {NoTable}) \X CommentKinds, val : Nat]

(* Between two tables the locals of the loop's body are dead. *)
CheckAt(pc, tables, todo) ==
    [pc |-> pc, tables |-> tables, todo |-> todo,
     info |-> <<NoTable, "plain">>, val |-> 0]

CheckInit == check = CheckAt("idle", {}, {})

CheckT == check.info[1]
CheckNextTable == check' = CheckAt("loop", check.tables, check.todo)
CheckRaise == check' = CheckAt("idle", {}, {})

CheckProceed(reply, pc) ==
    IF reply = "ok" THEN check' = [check EXCEPT !.pc = pc] ELSE CheckRaise

(* Without the stream table discovery raises and the call is over. *)
CheckDiscover ==
    /\ check.pc = "idle"
    /\ stream # "missing"
    /\ \E found \in SUBSET Discovered :
        /\ DiscoverReply(found)
        /\ check' = CheckAt("loop", found, found)

(* As CheckEnd would be if the tables were an iterator, not a list. *)
CheckEndSpent ==
    /\ check.pc = "loop"
    /\ check.todo = {}
    /\ UNCHANGED <<world, check>>

(* The next round is over the same tables. *)
CheckEnd ==
    /\ check.pc = "loop"
    /\ check.todo = {}
    /\ check' = CheckAt("loop", check.tables, check.tables)
    /\ UNCHANGED world

CheckGet ==
    /\ check.pc = "loop"
    /\ \E info \in check.todo, reply \in {"ok", "error"} :
        LET rest == CheckAt("loop", check.tables, check.todo \ {info})
            val == cached[info[1]]
        IN  /\ Reply(reply)
            /\ \/ reply = "error" /\ CheckRaise
               \/ reply = "ok" /\ val = NoCount /\ check' = rest
               \/ /\ reply = "ok" /\ val # NoCount
                  /\ check' = [rest EXCEPT !.pc = "count", !.info = info,
                                           !.val = val]
    /\ UNCHANGED services

(* A table without a BigQuery target or not there yet makes the query raise. *)
CheckCount ==
    /\ check.pc = "count"
    /\ \E reply \in {"ok", "error"} :
        /\ ReplyIf(HasTarget(check.info[2]) /\ bq[BqTable(check.info)] # NoCopy,
                   reply)
        /\ IF reply = "ok" /\ Cardinality(bq[BqTable(check.info)]) # check.val
           THEN CheckNextTable
           ELSE CheckProceed(reply, "delete")
    /\ UNCHANGED services

CheckDelete ==
    /\ check.pc = "delete"
    /\ \E reply \in Replies :
        /\ Reply(reply)
        /\ cached' = IF Effective(reply)
                     THEN [cached EXCEPT ![CheckT] = NoCount] ELSE cached
        /\ CheckProceed(reply, "unsignal")
    /\ UNCHANGED <<comment, cdc, yb, signals, connect, copies>>

CheckUnsignal ==
    /\ check.pc = "unsignal"
    /\ \E reply \in Replies :
        /\ RemoveSignal(CheckT, reply)
        /\ IF reply = "ok" THEN CheckNextTable ELSE CheckRaise

CheckNext ==
    \/ CheckDiscover \/ CheckEnd \/ CheckGet
    \/ CheckCount \/ CheckDelete \/ CheckUnsignal
=============================================================================
