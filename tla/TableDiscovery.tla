---------------------------- MODULE TableDiscovery ----------------------------
(***************************************************************************)
(* _discover_tables, call by call, for a database with a recorded stream:  *)
(* one catalog query names the tables, and then each is asked for its key, *)
(* in the same transaction, and for its coverage by the stream, through    *)
(* yb-admin.  Users drop tables and create them anew meanwhile.            *)
(***************************************************************************)
EXTENDS Naturals, FiniteSets

CONSTANTS
    Tables,    \* table names
    Fit,       \* those whose primary key has an `id` column
    MaxIds,    \* table ids the cluster gives out (a bound)
    MaxFaults  \* how many calls fail (a bound)

ASSUME FitAssumption == Fit \subseteq Tables
ASSUME DiscoveryBounds == MaxIds \in Nat /\ MaxFaults \in Nat

VARIABLES
    id,       \* id[t]: the id of table t, 0 if there is no such table
    made,     \* ids given out are 1 .. made
    covered,  \* the table ids that the stream lists
    scan,     \* the call under way
    found,    \* what the last one answered
    budget    \* failures still to come

(* scan.pc      the call the thread is about to make                        *)
(* scan.rows    tables of the catalog query not looked at yet               *)
(* scan.t, .id  the one it works on, and the id get_table_id gave for it    *)
(* scan.out     the tables to answer                                        *)
(* scan.tx      "aborted" once a statement of the transaction has failed    *)

cluster == <<id, made, covered>>
vars == <<cluster, scan, found, budget>>

ScanPcs == {"idle", "catalog", "rows", "tableId", "info", "validate", "recheck"}

TypeOK ==
    /\ made \in 0 .. MaxIds
    /\ id \in [Tables -> 0 .. made]
    /\ covered \subseteq 1 .. made
    /\ scan \in [pc : ScanPcs, rows : SUBSET Tables, t : SUBSET Fit,
                 id : 0 .. made, out : SUBSET Fit, tx : {"live", "aborted"}]
    /\ found \subseteq Fit
    /\ budget \in 0 .. MaxFaults

Idle == [pc |-> "idle", rows |-> {}, t |-> {}, id |-> 0, out |-> {},
         tx |-> "live"]

Init ==
    /\ id = [t \in Tables |-> 0]
    /\ made = 0
    /\ covered = {}
    /\ scan = Idle
    /\ found = {}
    /\ budget = MaxFaults
-----------------------------------------------------------------------------
Spend == budget > 0 /\ budget' = budget - 1
Reply(reply) == IF reply = "ok" THEN UNCHANGED budget ELSE Spend
Present(t) == id[t] # 0
Existing == {t \in Tables : Present(t)}

(* As Answer would be with one list for all the calls. *)
AnswerKept == scan' = [Idle EXCEPT !.out = scan.out] /\ found' = scan.out

(* The exception ends the loop over the tables, not the call. *)
Answer == scan' = Idle /\ found' = scan.out

Goto(pc) == scan' = [scan EXCEPT !.pc = pc] /\ UNCHANGED found
AtRows(out) ==
    /\ scan' = [scan EXCEPT !.pc = "rows", !.t = {}, !.id = 0, !.out = out]
    /\ UNCHANGED found
Skip == AtRows(scan.out)
Append == AtRows(scan.out \cup scan.t)

(* stream_exists, outside the try: an exception is the caller's. *)
ReadStream ==
    /\ scan.pc = "idle"
    /\ \/ Goto("catalog") /\ UNCHANGED budget
       \/ Spend /\ scan' = Idle /\ found' = {}
    /\ UNCHANGED cluster

(* As ReadCatalog would be if the connection, and the state of its         *)
(* transaction, were kept from one discovery to the next.                  *)
ReadCatalogKept ==
    /\ scan.pc = "catalog"
    /\ scan' = [scan EXCEPT !.pc = "rows", !.rows = Existing,
                            !.tx = IF budget < MaxFaults THEN "aborted" ELSE "live"]
    /\ UNCHANGED <<cluster, found, budget>>

ReadCatalog ==
    /\ scan.pc = "catalog"
    /\ \/ /\ scan' = [scan EXCEPT !.pc = "rows", !.rows = Existing]
          /\ UNCHANGED <<found, budget>>
       \/ Spend /\ Answer
    /\ UNCHANGED cluster

EndRows ==
    /\ scan.pc = "rows"
    /\ scan.rows = {}
    /\ Answer
    /\ UNCHANGED <<cluster, budget>>

(* As CheckKey would be if any key would do. *)
CheckKeyAny ==
    /\ scan.pc = "rows"
    /\ \E t \in scan.rows :
        scan' = [scan EXCEPT !.rows = @ \ {t}, !.pc = "tableId", !.t = {t}]
    /\ UNCHANGED <<cluster, found, budget>>

(* _has_primary_key_with_id_column says no when its query fails, and the   *)
(* query fails for every table once the transaction is aborted.            *)
CheckKey ==
    /\ scan.pc = "rows"
    /\ \E t \in scan.rows :
        LET rest == [scan EXCEPT !.rows = @ \ {t}]
        IN  \/ /\ scan.tx = "live" /\ t \in Fit /\ Present(t)
               /\ scan' = [rest EXCEPT !.pc = "tableId", !.t = {t}]
               /\ UNCHANGED budget
            \/ /\ scan.tx = "aborted" \/ t \notin Fit \/ ~Present(t)
               /\ scan' = rest
               /\ UNCHANGED budget
            \/ /\ scan.tx = "live"
               /\ scan' = [rest EXCEPT !.tx = "aborted"]
               /\ Spend
    /\ UNCHANGED <<cluster, found>>

(* As GetTableId would be if it raised for a table that is not listed.     *)
GetTableIdRaises ==
    /\ scan.pc = "tableId"
    /\ \E t \in scan.t :
        \/ /\ Present(t)
           /\ scan' = [scan EXCEPT !.pc = "info", !.id = id[t]]
           /\ UNCHANGED <<found, budget>>
        \/ ~Present(t) /\ Answer /\ UNCHANGED budget
        \/ Spend /\ Answer
    /\ UNCHANGED cluster

(* verify_table_covered_by_stream.  The first two of its yb-admin calls    *)
(* raise through it, the others are in a try of their own.                 *)
GetTableId ==
    /\ scan.pc = "tableId"
    /\ \E t \in scan.t :
        \/ /\ Present(t)
           /\ scan' = [scan EXCEPT !.pc = "info", !.id = id[t]]
           /\ UNCHANGED <<found, budget>>
        \/ ~Present(t) /\ Skip /\ UNCHANGED budget
        \/ Spend /\ Answer
    /\ UNCHANGED cluster

StreamInfo ==
    /\ scan.pc = "info"
    /\ \/ scan.id \in covered /\ Append /\ UNCHANGED budget
       \/ scan.id \notin covered /\ Goto("validate") /\ UNCHANGED budget
       \/ Spend /\ Answer
    /\ UNCHANGED cluster

(* The stream picks up some of the tables there are, or none: one without  *)
(* dynamic table addition stays as it is.  A time-out may come after.      *)
ValidateAndSync ==
    /\ scan.pc = "validate"
    /\ \E reply \in {"ok", "error", "lost"}, joined \in SUBSET Existing :
        /\ Reply(reply)
        /\ covered' = IF reply = "error" THEN covered
                      ELSE covered \cup {id[t] : t \in joined}
        /\ IF reply = "ok" THEN Goto("recheck") ELSE Skip
    /\ UNCHANGED <<id, made>>

StreamInfoAgain ==
    /\ scan.pc = "recheck"
    /\ \/ scan.id \in covered /\ Append /\ UNCHANGED budget
       \/ scan.id \notin covered /\ Skip /\ UNCHANGED budget
       \/ Spend /\ Skip
    /\ UNCHANGED cluster

ScanStep ==
    \/ ReadStream \/ ReadCatalog \/ EndRows \/ CheckKey
    \/ GetTableId \/ StreamInfo \/ ValidateAndSync \/ StreamInfoAgain
-----------------------------------------------------------------------------
CreateTable(t) ==
    /\ ~Present(t)
    /\ made < MaxIds
    /\ made' = made + 1
    /\ id' = [id EXCEPT ![t] = made + 1]
    /\ UNCHANGED <<covered, scan, found, budget>>

(* The stream may pick a table up on its own. *)
ListTable(t) ==
    /\ Present(t)
    /\ id[t] \notin covered
    /\ covered' = covered \cup {id[t]}
    /\ UNCHANGED <<id, made, scan, found, budget>>

(* The stream lists a dropped table until the cluster gets round to it. *)
DropTable(t) ==
    /\ Present(t)
    /\ id' = [id EXCEPT ![t] = 0]
    /\ UNCHANGED <<made, covered, scan, found, budget>>

Forget(i) ==
    /\ \A t \in Tables : id[t] # i
    /\ covered' = covered \ {i}
    /\ UNCHANGED <<id, made, scan, found, budget>>

Next ==
    \/ ScanStep
    \/ \E t \in Tables : CreateTable(t) \/ ListTable(t) \/ DropTable(t)
    \/ \E i \in covered : Forget(i)

Spec == Init /\ [][Next]_vars

(* The loops discover again and again, and every call returns or raises. *)
FairSpec == Spec /\ WF_vars(ScanStep)
-----------------------------------------------------------------------------
(* A discovery keeps what DiscoveryAnswer promises: unless a call fails,   *)
(* every fit table that the stream lists, when the catalog query names it  *)
(* or from some time on before the call is done with it, is answered if no *)
(* one drops it; and never a table that was not named.  Each is looked at  *)
(* call by call, while others come and go and the stream picks some up.    *)
(* (yugabyte_db_manager.py:141-180)                                        *)
Asking == scan.pc \notin {"idle", "catalog"}
Named == Fit \cap (scan.rows \cup scan.t \cup scan.out)
Listed == {t \in Fit : Present(t) /\ id[t] \in covered}

(* A listed table is owed while it waits for its key check in a            *)
(* transaction that works, while the call is about the table it was then,  *)
(* and when it has passed.                                                 *)
Waits(t) == scan.tx = "live" /\ t \in scan.rows
Passes(t) ==
    /\ t \in scan.t
    /\ scan.pc = "tableId" \/ id[t] = scan.id
Owed == scan.out \cup {t \in Listed : Waits(t) \/ Passes(t)}

FitExisting == Fit \cap Existing
Promise == INSTANCE DiscoveryAnswer
    WITH present <- FitExisting, listed <- Listed,
         asking <- Asking, named <- Named, owed <- Owed
Promised == Promise!Spec

(* A fit table that stays, and that the stream lists, is in every answer   *)
(* in the end, although each failure loses the tables not looked at yet:   *)
(* nothing of one discovery is left to spoil the next.                     *)
(* (yugabyte_db_manager.py:141-180)                                        *)
Rediscovered ==
    \A t \in Fit : <>[](t \in Listed) => <>[](t \in found)

(* A table that stays dropped, though the stream may list its id for ever, *)
(* or that the stream never lists is in no answer in the end.              *)
(* (ybadmin_utils.py:129-171, yugabyte_db_manager.py:141-180)              *)
Undiscovered ==
    \A t \in Fit : <>[](t \notin Listed) => <>[](t \notin found)
=============================================================================
