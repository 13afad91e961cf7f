------------------------- MODULE TableDiscoveryProofs -------------------------
(***************************************************************************)
(* What holds of TableDiscovery for any tables, ids and failures.          *)
(***************************************************************************)
EXTENDS TableDiscovery, TLAPS

USE FitAssumption, DiscoveryBounds

(* The part of the type invariant that a discovery changes. *)
CallOK ==
    /\ scan \in [pc : ScanPcs, rows : SUBSET Tables, t : SUBSET Fit,
                 id : 0 .. made, out : SUBSET Fit, tx : {"live", "aborted"}]
    /\ found \subseteq Fit

ClusterOK ==
    /\ made \in 0 .. MaxIds
    /\ id \in [Tables -> 0 .. made]
    /\ covered \subseteq 1 .. made

LEMMA TypeParts == TypeOK <=> CallOK /\ ClusterOK /\ budget \in 0 .. MaxFaults
  BY DEF TypeOK, CallOK, ClusterOK

LEMMA InitType == Init => TypeOK
<1> SUFFICES ASSUME Init PROVE TypeOK
  OBVIOUS
<1>1. CallOK
  BY DEF Init, Idle, ScanPcs, CallOK
<1>2. ClusterOK /\ budget \in 0 .. MaxFaults
  BY DEF Init, ClusterOK
<1> QED
  BY <1>1, <1>2, TypeParts

(* The ways in which a call ends or goes on. *)
LEMMA MovesType ==
  ASSUME CallOK, ClusterOK, made' = made
  PROVE  /\ Answer => CallOK'
         /\ Skip \/ Append => CallOK'
         /\ \A pc \in ScanPcs : Goto(pc) => CallOK'
<1> USE DEF CallOK, ScanPcs
<1>1. CASE Answer
  BY <1>1 DEF Answer, Idle, ClusterOK
<1>2. ASSUME NEW o \in SUBSET Fit, AtRows(o) PROVE CallOK'
  <2>1. 0 \in 0 .. made'
    BY DEF ClusterOK
  <2>2. /\ scan' = [pc |-> "rows", rows |-> scan.rows, t |-> {}, id |-> 0,
                    out |-> o, tx |-> scan.tx]
        /\ found' = found
    BY <1>2 DEF AtRows
  <2> QED
    BY <2>1, <2>2
<1>3. scan.out \subseteq Fit /\ scan.out \cup scan.t \subseteq Fit
  OBVIOUS
<1>4. ASSUME NEW pc \in ScanPcs, Goto(pc) PROVE CallOK'
  BY <1>4 DEF Goto
<1> QED
  BY <1>1, <1>2, <1>3, <1>4 DEF Skip, Append

LEMMA StepCall ==
  ASSUME CallOK, ClusterOK, ScanStep
  PROVE  CallOK'
<1>1. made' = made
  BY DEF ScanStep, ReadStream, ReadCatalog, EndRows, CheckKey, GetTableId,
         StreamInfo, ValidateAndSync, StreamInfoAgain, cluster
<1>2. CASE ReadStream
  <2>1. CASE Goto("catalog")
    BY <1>1, <2>1, MovesType DEF ScanPcs
  <2>2. CASE scan' = Idle /\ found' = {}
    BY <1>1, <2>2 DEF Idle, ScanPcs, CallOK, ClusterOK
  <2> QED
    BY <1>2, <2>1, <2>2 DEF ReadStream
<1>3. CASE ReadCatalog
  <2>1. CASE Answer
    BY <1>1, <2>1, MovesType
  <2>2. CASE /\ scan' = [scan EXCEPT !.pc = "rows",
                                     !.rows = Existing]
             /\ found' = found
    BY <1>1, <2>2 DEF CallOK, ScanPcs, Existing
  <2> QED
    BY <1>3, <2>1, <2>2 DEF ReadCatalog
<1>4. CASE EndRows
  BY <1>1, <1>4, MovesType DEF EndRows
<1>5. CASE CheckKey
  <2>1. PICK t \in scan.rows :
          \/ t \in Fit /\ scan' = [[scan EXCEPT !.rows = @ \ {t}]
                                       EXCEPT !.pc = "tableId", !.t = {t}]
          \/ scan' = [scan EXCEPT !.rows = @ \ {t}]
          \/ scan' = [[scan EXCEPT !.rows = @ \ {t}] EXCEPT !.tx = "aborted"]
    BY <1>5 DEF CheckKey
  <2>2. found' = found
    BY <1>5 DEF CheckKey
  <2>3. scan.rows \ {t} \in SUBSET Tables
    BY DEF CallOK
  <2>4. CASE t \in Fit /\ scan' = [[scan EXCEPT !.rows = @ \ {t}]
                                       EXCEPT !.pc = "tableId", !.t = {t}]
    BY <1>1, <2>2, <2>3, <2>4 DEF CallOK, ScanPcs
  <2>5. CASE scan' = [scan EXCEPT !.rows = @ \ {t}]
    BY <1>1, <2>2, <2>3, <2>5 DEF CallOK
  <2>6. CASE scan' = [[scan EXCEPT !.rows = @ \ {t}] EXCEPT !.tx = "aborted"]
    BY <1>1, <2>2, <2>3, <2>6 DEF CallOK
  <2> QED
    BY <2>1, <2>4, <2>5, <2>6
<1>6. CASE GetTableId
  <2>1. CASE Skip \/ Answer
    BY <1>1, <2>1, MovesType
  <2>2. ASSUME NEW t \in scan.t, scan' = [scan EXCEPT !.pc = "info", !.id = id[t]],
               found' = found
        PROVE  CallOK'
    <3>1. id[t] \in 0 .. made
      BY FitAssumption DEF CallOK, ClusterOK
    <3> QED
      BY <1>1, <2>2, <3>1 DEF CallOK, ScanPcs
  <2> QED
    BY <1>6, <2>1, <2>2 DEF GetTableId
<1>7. CASE StreamInfo \/ ValidateAndSync \/ StreamInfoAgain
  BY <1>1, <1>7, MovesType DEF StreamInfo, ValidateAndSync, StreamInfoAgain,
     ScanPcs
<1> QED
  BY <1>2, <1>3, <1>4, <1>5, <1>6, <1>7 DEF ScanStep

LEMMA StepCluster ==
  ASSUME CallOK, ClusterOK, budget \in 0 .. MaxFaults, ScanStep
  PROVE  ClusterOK' /\ budget' \in 0 .. MaxFaults
<1>1. \A r : Reply(r) => budget' \in 0 .. MaxFaults
  BY DEF Reply, Spend
<1>2. CASE ValidateAndSync
  <2>1. budget' \in 0 .. MaxFaults
    BY <1>1, <1>2 DEF ValidateAndSync
  <2>2. id' = id /\ made' = made
    BY <1>2 DEF ValidateAndSync
  <2>3. \A t \in Existing : id[t] \in 1 .. made
    BY DEF ClusterOK, Existing, Present
  <2>4. covered' \subseteq 1 .. made
    BY <1>2, <2>3 DEF ValidateAndSync, ClusterOK
  <2> QED
    BY <2>1, <2>2, <2>4 DEF ClusterOK
<1>3. CASE ReadStream \/ ReadCatalog \/ EndRows \/ CheckKey
  <2>1. UNCHANGED cluster /\ (UNCHANGED budget \/ Spend)
    BY <1>3 DEF ReadStream, ReadCatalog, EndRows, CheckKey
  <2> QED
    BY <2>1 DEF cluster, ClusterOK, Spend
<1>4. CASE GetTableId \/ StreamInfo \/ StreamInfoAgain
  <2>1. UNCHANGED cluster /\ (UNCHANGED budget \/ Spend)
    BY <1>4 DEF GetTableId, StreamInfo, StreamInfoAgain
  <2> QED
    BY <2>1 DEF cluster, ClusterOK, Spend
<1> QED
  BY <1>2, <1>3, <1>4 DEF ScanStep

LEMMA NextType == TypeOK /\ [Next]_vars => TypeOK'
<1> SUFFICES ASSUME CallOK, ClusterOK, budget \in 0 .. MaxFaults, [Next]_vars
             PROVE  CallOK' /\ ClusterOK' /\ budget' \in 0 .. MaxFaults
  BY TypeParts DEF TypeOK, CallOK, ClusterOK
<1>1. CASE ScanStep
  BY <1>1, StepCall, StepCluster
<1>2. ASSUME NEW t \in Tables, CreateTable(t)
      PROVE  CallOK' /\ ClusterOK' /\ budget' \in 0 .. MaxFaults
  <2>1. /\ UNCHANGED <<covered, scan, found, budget>>
        /\ made' = made + 1 /\ made' \in 0 .. MaxIds
    BY <1>2 DEF CreateTable, ClusterOK
  <2>2. 0 .. made \subseteq 0 .. made' /\ 1 .. made \subseteq 1 .. made'
    BY <2>1 DEF ClusterOK
  <2>3. id' \in [Tables -> 0 .. made']
    BY <1>2, <2>1, <2>2 DEF CreateTable, ClusterOK
  <2>4. CallOK'
    BY <2>1, <2>2 DEF CallOK
  <2> QED
    BY <2>1, <2>2, <2>3, <2>4 DEF ClusterOK
<1>5. ASSUME NEW t \in Tables, DropTable(t)
      PROVE  CallOK' /\ ClusterOK' /\ budget' \in 0 .. MaxFaults
  <2>1. UNCHANGED <<made, covered, scan, found, budget>>
    BY <1>5 DEF DropTable
  <2>2. id' \in [Tables -> 0 .. made]
    BY <1>5 DEF DropTable, ClusterOK
  <2> QED
    BY <2>1, <2>2 DEF CallOK, ClusterOK
<1>6. ASSUME NEW t \in Tables, ListTable(t)
      PROVE  CallOK' /\ ClusterOK' /\ budget' \in 0 .. MaxFaults
  <2>1. UNCHANGED <<id, made, scan, found, budget>>
    BY <1>6 DEF ListTable
  <2>2. id[t] \in 1 .. made
    BY <1>6 DEF ListTable, Present, ClusterOK
  <2>3. covered' \subseteq 1 .. made
    BY <1>6, <2>2 DEF ListTable, ClusterOK
  <2> QED
    BY <2>1, <2>3 DEF CallOK, ClusterOK
<1>3. ASSUME NEW i \in covered, Forget(i)
      PROVE  CallOK' /\ ClusterOK' /\ budget' \in 0 .. MaxFaults
  <2>1. UNCHANGED <<id, made, scan, found, budget>> /\ covered' \subseteq covered
    BY <1>3 DEF Forget
  <2> QED
    BY <2>1 DEF CallOK, ClusterOK
<1>4. CASE UNCHANGED vars
  BY <1>4 DEF vars, cluster, CallOK, ClusterOK
<1> QED
  BY <1>1, <1>2, <1>3, <1>4, <1>5, <1>6 DEF Next

(* A discovery answers only tables with an `id` key, and its locals keep   *)
(* their types, whatever is dropped, created or fails meanwhile.           *)
THEOREM DiscoveryTypeCorrect == Spec => []TypeOK
  BY InitType, NextType, PTL DEF Spec
-----------------------------------------------------------------------------
(* Where a call stands: nothing is left over from the one before, and it   *)
(* works on one table at a time.                                           *)
Covering == {"tableId", "info", "validate", "recheck"}

CallInv ==
    /\ ~Asking => scan = [Idle EXCEPT !.pc = scan.pc]
    /\ scan.pc = "rows" => scan.t = {}
    /\ scan.pc \in Covering => \E u \in Fit : scan.t = {u}

LEMMA InitCallInv == Init => CallInv
  BY DEF Init, Idle, CallInv, Asking, Covering

(* The moves of a call. *)
LEMMA MovesCall ==
  ASSUME TypeOK
  PROVE  /\ Answer => CallInv' /\ ~Asking'
         /\ Skip \/ Append => CallInv'
<1>1. CASE Answer
  BY <1>1 DEF Answer, Idle, CallInv, Asking, Covering
<1>2. ASSUME NEW o, AtRows(o) PROVE CallInv'
  BY <1>2 DEF AtRows, TypeOK, CallInv, Asking, Covering
<1> QED
  BY <1>1, <1>2 DEF Skip, Append

LEMMA StepCallInv ==
  ASSUME TypeOK, CallInv, ScanStep
  PROVE  CallInv'
<1> USE DEF TypeOK, Covering, Asking
<1>1. CASE ReadStream
  BY <1>1 DEF ReadStream, Goto, Idle, CallInv
<1>2. CASE ReadCatalog
  BY <1>2, MovesCall DEF ReadCatalog, Idle, CallInv
<1>3. CASE EndRows
  BY <1>3, MovesCall DEF EndRows
<1>4. CASE CheckKey
  <2>1. PICK t \in scan.rows :
          \/ t \in Fit /\ scan' = [[scan EXCEPT !.rows = @ \ {t}]
                                       EXCEPT !.pc = "tableId", !.t = {t}]
          \/ scan' = [scan EXCEPT !.rows = @ \ {t}]
          \/ scan' = [[scan EXCEPT !.rows = @ \ {t}] EXCEPT !.tx = "aborted"]
    BY <1>4 DEF CheckKey
  <2>2. scan.pc = "rows"
    BY <1>4 DEF CheckKey
  <2> QED
    BY <2>1, <2>2 DEF CallInv
<1>5. CASE GetTableId
  BY <1>5, MovesCall DEF GetTableId, CallInv
<1>6. CASE StreamInfo
  BY <1>6, MovesCall DEF StreamInfo, Goto, CallInv
<1>7. CASE ValidateAndSync
  BY <1>7, MovesCall DEF ValidateAndSync, Goto, CallInv
<1>8. CASE StreamInfoAgain
  BY <1>8, MovesCall DEF StreamInfoAgain
<1> QED
  BY <1>1, <1>2, <1>3, <1>4, <1>5, <1>6, <1>7, <1>8 DEF ScanStep

LEMMA NextCallInv ==
  ASSUME TypeOK, CallInv, [Next]_vars
  PROVE  CallInv'
<1> USE DEF CallInv, Covering, Asking
<1>1. CASE ScanStep
  BY <1>1, StepCallInv
<1>2. CASE UNCHANGED scan
  BY <1>2
<1> QED
  BY <1>1, <1>2 DEF Next, CreateTable, ListTable, DropTable, Forget, vars

LEMMA CallInvariant == Spec => []CallInv
  BY InitCallInv, NextCallInv, DiscoveryTypeCorrect, PTL DEF Spec
-----------------------------------------------------------------------------
(* The steps of a discovery as steps of its promise.                       *)
Refines == [Promise!Next]_(Promise!vars)

LEMMA NoQuestion ==
  ASSUME NEW pc \in {"idle", "catalog"}, scan = [Idle EXCEPT !.pc = pc]
  PROVE  ~Asking /\ Named = {} /\ Owed = {}
  BY DEF Idle, Asking, Named, Owed, Waits, Passes

LEMMA AnswerEnds ==
  ASSUME Answer
  PROVE  ~Asking' /\ Named' = {} /\ Owed' = {} /\ found' = scan.out
  BY DEF Answer, Idle, Asking, Named, Owed, Waits, Passes

(* The lists of tables, in a step that drops none. *)
LEMMA ListsGrow ==
  ASSUME id' = id, covered \subseteq covered'
  PROVE  FitExisting' = FitExisting /\ Promise!PickUp
  BY FitAssumption DEF FitExisting, Existing, Present, Listed, Promise!PickUp

LEMMA ListsSame ==
  ASSUME UNCHANGED <<id, covered>>
  PROVE  FitExisting' = FitExisting /\ Listed' = Listed /\ Promise!PickUp
  BY ListsGrow DEF Listed, Present

(* Nothing is owed that is not named. *)
LEMMA OwedNamed ==
  ASSUME TypeOK
  PROVE  scan.out \subseteq Owed /\ Owed \subseteq Named
  BY DEF TypeOK, Owed, Named, Waits, Passes, Listed

LEMMA BreaksOff ==
  ASSUME TypeOK, Spend, Answer, UNCHANGED <<id, covered>>
  PROVE  Refines
<1>1. found' \subseteq Named
  BY AnswerEnds DEF TypeOK, Named
<1>2. Promise!BreakOff
  BY <1>1, AnswerEnds, ListsSame DEF Spend, Promise!BreakOff
<1> QED
  BY <1>2 DEF Refines, Promise!Next

(* A table in hand is put with the answer, or passed over. *)
LEMMA RowsNext ==
  ASSUME TypeOK, scan.pc \in Covering, id' = id, covered \subseteq covered',
         NEW out \in SUBSET Fit, AtRows(out)
  PROVE  /\ Asking /\ Asking' /\ found' = found
         /\ Named' = (Fit \cap scan.rows) \cup out
         /\ Owed' = out \cup {t \in Listed' : Waits(t)}
<1>1. scan' = [scan EXCEPT !.pc = "rows", !.t = {}, !.id = 0, !.out = out]
  BY DEF AtRows
<1>2. /\ scan'.pc = "rows" /\ scan'.t = {} /\ scan'.out = out
      /\ scan'.rows = scan.rows /\ scan'.tx = scan.tx
  BY <1>1 DEF TypeOK
<1>3. \A t : Waits(t)' = Waits(t) /\ ~Passes(t)'
  BY <1>2 DEF Waits, Passes
<1> QED
  BY <1>2, <1>3 DEF AtRows, Asking, Covering, Named, Owed

LEMMA Appends ==
  ASSUME TypeOK, CallInv, scan.pc \in Covering, UNCHANGED <<id, covered, budget>>,
         Append
  PROVE  Refines
<1>1. /\ Asking' = Asking /\ found' = found
      /\ Named' = Named
      /\ Owed' = scan.out \cup scan.t \cup {t \in Listed : Waits(t)}
  <2>1. scan.out \cup scan.t \in SUBSET Fit
    BY DEF TypeOK
  <2>2. /\ Asking /\ Asking' /\ found' = found
        /\ Named' = (Fit \cap scan.rows) \cup (scan.out \cup scan.t)
        /\ Owed' = (scan.out \cup scan.t) \cup {t \in Listed : Waits(t)}
    BY <2>1, RowsNext, ListsSame DEF Append
  <2>3. Asking' = Asking
    BY <2>2 DEF Asking
  <2> QED
    BY <2>1, <2>2, <2>3 DEF Named
<1>2. Owed \subseteq Owed' /\ Owed' \subseteq Named'
  BY <1>1 DEF TypeOK, Owed, Named, Waits, Passes, Listed
<1>3. Promise!Look
  BY <1>1, <1>2, ListsSame DEF Promise!Look
<1> QED
  BY <1>3 DEF Refines, Promise!Next

LEMMA Skips ==
  ASSUME TypeOK, CallInv, scan.pc \in Covering, id' = id, Skip,
         \/ Spend /\ covered \subseteq covered'
         \/ /\ UNCHANGED <<covered, budget>>
            /\ \A t \in scan.t : t \in Listed => ~Passes(t)
  PROVE  Refines
<1>1. /\ Asking' = Asking /\ found' = found
      /\ Named' = (Fit \cap scan.rows) \cup scan.out
      /\ Owed' = scan.out \cup {t \in Listed' : Waits(t)}
  <2>1. scan.out \in SUBSET Fit /\ covered \subseteq covered'
    BY DEF TypeOK
  <2>2. /\ Asking /\ Asking' /\ found' = found
        /\ Named' = (Fit \cap scan.rows) \cup scan.out
        /\ Owed' = scan.out \cup {t \in Listed' : Waits(t)}
    BY <2>1, RowsNext DEF Skip
  <2>3. Asking' = Asking
    BY <2>2 DEF Asking
  <2> QED
    BY <2>2, <2>3
<1>2. Named' \subseteq Named /\ Owed' \subseteq Named'
  BY <1>1 DEF Named, Waits, Listed
<1>3. CASE Spend /\ covered \subseteq covered'
  <2>1. Promise!Lose
    BY <1>1, <1>2, <1>3, ListsGrow DEF Spend, Promise!Lose
  <2> QED
    BY <2>1 DEF Refines, Promise!Next
<1>4. CASE /\ UNCHANGED <<covered, budget>>
           /\ \A t \in scan.t : t \in Listed => ~Passes(t)
  <2>1. Owed' = Owed
    BY <1>1, <1>4, ListsSame DEF Owed, Passes
  <2>2. Promise!Look
    BY <1>1, <1>2, <1>4, <2>1, ListsSame DEF Promise!Look
  <2> QED
    BY <2>2 DEF Refines, Promise!Next
<1> QED
  BY <1>3, <1>4

LEMMA ReadsRefine ==
  ASSUME TypeOK, CallInv, ReadStream \/ ReadCatalog
  PROVE  Refines
<1>1. UNCHANGED <<id, covered>> /\ scan = [Idle EXCEPT !.pc = scan.pc] /\ scan.pc \in {"idle", "catalog"}
  BY DEF ReadStream, ReadCatalog, cluster, CallInv, Asking
<1>2. ~Asking /\ Named = {} /\ Owed = {}
  BY <1>1, NoQuestion
<1>3. CASE ReadStream /\ Goto("catalog") /\ UNCHANGED budget
  <2>1. scan' = [Idle EXCEPT !.pc = "catalog"] /\ found' = found
    BY <1>1, <1>3 DEF Goto, Idle
  <2>2. ~Asking' /\ Named' = {} /\ Owed' = {}
    BY <2>1 DEF Idle, Asking, Named, Owed, Waits, Passes
  <2>3. Asking' = Asking
    BY <1>2, <2>2 DEF Asking
  <2> QED
    BY <1>1, <1>2, <1>3, <2>1, <2>2, <2>3, ListsSame DEF Refines, Promise!vars
<1>4. CASE ReadStream /\ Spend /\ scan' = Idle /\ found' = {}
  <2>1. Answer
    BY <1>1, <1>4 DEF Answer, Idle
  <2> QED
    BY <1>1, <1>4, <2>1, BreaksOff
<1>5. CASE Spend /\ Answer
  BY <1>1, <1>5, BreaksOff
<1>6. CASE /\ scan' = [scan EXCEPT !.pc = "rows",
                                   !.rows = Existing]
           /\ UNCHANGED <<found, budget>>
  <2>1. /\ scan'.pc = "rows" /\ scan'.rows = Existing
        /\ scan'.t = {} /\ scan'.out = {} /\ scan'.tx = "live"
    BY <1>1, <1>6 DEF Idle, TypeOK
  <2>2. Asking' = TRUE /\ Named' = FitExisting
    BY <2>1, FitAssumption DEF Asking, Named, FitExisting, Existing
  <2>3. Owed' = Listed
    BY <1>1, <2>1, FitAssumption, ListsSame
       DEF Owed, Waits, Passes, Listed, Existing
  <2>4. Promise!Begin
    BY <1>1, <1>2, <1>6, <2>2, <2>3, ListsSame DEF Promise!Begin
  <2> QED
    BY <2>4 DEF Refines, Promise!Next
<1> QED
  BY <1>3, <1>4, <1>5, <1>6 DEF ReadStream, ReadCatalog

LEMMA EndRefines ==
  ASSUME TypeOK, CallInv, EndRows
  PROVE  Refines
<1>1. Asking /\ scan.t = {} /\ scan.rows = {}
  BY DEF EndRows, CallInv, Asking
<1>2. Named = scan.out /\ Owed = scan.out
  BY <1>1 DEF TypeOK, Named, Owed, Waits, Passes
<1>3. Promise!Answer
  BY <1>1, <1>2, AnswerEnds, ListsSame DEF EndRows, cluster, Promise!Answer
<1> QED
  BY <1>3 DEF Refines, Promise!Next

LEMMA KeyRefines ==
  ASSUME TypeOK, CallInv, CheckKey
  PROVE  Refines
<1>1. /\ scan.pc = "rows" /\ scan.t = {}
      /\ found' = found /\ FitExisting' = FitExisting
      /\ Listed' = Listed /\ Promise!PickUp
  BY ListsSame DEF CheckKey, cluster, CallInv
<1>2. PICK t \in scan.rows :
        LET rest == [scan EXCEPT !.rows = @ \ {t}]
        IN  \/ /\ scan.tx = "live" /\ t \in Fit /\ Present(t)
               /\ scan' = [rest EXCEPT !.pc = "tableId", !.t = {t}]
               /\ UNCHANGED budget
            \/ /\ scan.tx = "aborted" \/ t \notin Fit \/ ~Present(t)
               /\ scan' = rest
               /\ UNCHANGED budget
            \/ /\ scan.tx = "live"
               /\ scan' = [rest EXCEPT !.tx = "aborted"]
               /\ Spend
  BY DEF CheckKey
<1>3. Asking /\ Asking'
  BY <1>1, <1>2 DEF TypeOK, Asking
<1>4. CASE /\ scan.tx = "live" /\ t \in Fit /\ Present(t)
           /\ scan' = [[scan EXCEPT !.rows = @ \ {t}]
                           EXCEPT !.pc = "tableId", !.t = {t}]
           /\ UNCHANGED budget
  <2>1. /\ scan'.rows = scan.rows \ {t} /\ scan'.t = {t} /\ scan'.pc = "tableId"
        /\ scan'.out = scan.out /\ scan'.tx = "live"
    BY <1>4 DEF TypeOK
  <2>2. Named' = Named
    BY <1>1, <2>1 DEF Named
  <2>3. Owed' = Owed
    BY <1>1, <1>4, <2>1 DEF Owed, Waits, Passes, Listed
  <2> QED
    BY <1>1, <1>3, <1>4, <2>2, <2>3 DEF Refines, Promise!vars, Asking
<1>5. CASE /\ scan.tx = "aborted" \/ t \notin Fit \/ ~Present(t)
           /\ scan' = [scan EXCEPT !.rows = @ \ {t}]
           /\ UNCHANGED budget
  <2>1. /\ scan'.rows = scan.rows \ {t} /\ scan'.t = {}
        /\ scan'.out = scan.out /\ scan'.tx = scan.tx
    BY <1>1, <1>5 DEF TypeOK
  <2>2. Named' \subseteq Named
    BY <1>1, <2>1 DEF Named
  <2>3. Owed' = Owed
    BY <1>1, <1>5, <2>1 DEF Owed, Waits, Passes, Listed
  <2>4. Owed' \subseteq Named'
    BY <1>1, <2>1 DEF TypeOK, Owed, Named, Waits, Passes, Listed
  <2>5. Promise!Look
    BY <1>1, <1>3, <1>5, <2>2, <2>3, <2>4 DEF Promise!Look, Asking
  <2> QED
    BY <2>5 DEF Refines, Promise!Next
<1>6. CASE /\ scan' = [[scan EXCEPT !.rows = @ \ {t}] EXCEPT !.tx = "aborted"]
           /\ Spend
  <2>1. /\ scan'.rows = scan.rows \ {t} /\ scan'.t = {}
        /\ scan'.out = scan.out /\ scan'.tx = "aborted"
    BY <1>1, <1>6 DEF TypeOK
  <2>2. Named' \subseteq Named
    BY <1>1, <2>1 DEF Named
  <2>3. Owed' = scan.out
    BY <2>1 DEF Owed, Waits, Passes
  <2>4. Owed' \subseteq Named'
    BY <2>1, <2>3 DEF TypeOK, Named
  <2>5. Promise!Lose
    BY <1>1, <1>3, <1>6, <2>2, <2>4 DEF Promise!Lose, Spend, Asking
  <2> QED
    BY <2>5 DEF Refines, Promise!Next
<1> QED
  BY <1>2, <1>4, <1>5, <1>6

(* A call that goes on about the same table. *)
LEMMA GoesOn ==
  ASSUME TypeOK, scan.pc \in Covering, NEW pc \in Covering \ {"tableId"},
         NEW i, scan' = [scan EXCEPT !.pc = pc, !.id = i],
         IF scan.pc = "tableId" THEN \A t \in scan.t : i = id[t] ELSE i = scan.id,
         UNCHANGED <<id, found, budget>>, covered \subseteq covered'
  PROVE  Refines
<1>1. /\ scan'.rows = scan.rows /\ scan'.t = scan.t /\ scan'.pc = pc
      /\ scan'.out = scan.out /\ scan'.tx = scan.tx /\ scan'.id = i
  BY DEF TypeOK
<1>2. Named' = Named /\ Asking' = Asking
  BY <1>1 DEF Named, Asking, Covering
<1>3. \A t : Waits(t)' = Waits(t) /\ Passes(t)' = Passes(t)
  BY <1>1 DEF Waits, Passes, Covering
<1>4. Owed' = scan.out \cup {t \in Listed' : Waits(t) \/ Passes(t)}
  BY <1>1, <1>3 DEF Owed
<1>5. Owed \subseteq Owed' /\ Owed' \subseteq Named'
  BY <1>2, <1>4, ListsGrow
     DEF TypeOK, Owed, Named, Waits, Passes, Listed, Promise!PickUp
<1>6. Promise!Look
  BY <1>2, <1>5, ListsGrow DEF Promise!Look
<1> QED
  BY <1>6 DEF Refines, Promise!Next

LEMMA TableIdRefines ==
  ASSUME TypeOK, CallInv, GetTableId
  PROVE  Refines
<1>1. scan.pc \in Covering /\ UNCHANGED <<id, covered>>
  BY DEF GetTableId, Covering, cluster
<1>2. PICK u \in Fit : scan.t = {u}
  BY <1>1 DEF CallInv
<1>3. CASE /\ scan' = [scan EXCEPT !.pc = "info", !.id = id[u]]
           /\ UNCHANGED <<found, budget>>
  <2>1. scan.pc = "tableId" /\ "info" \in Covering \ {"tableId"}
    BY DEF GetTableId, Covering
  <2>2. \A t \in scan.t : id[u] = id[t]
    BY <1>2
  <2> QED
    BY <1>1, <1>3, <2>1, <2>2, GoesOn
<1>4. CASE ~Present(u) /\ Skip /\ UNCHANGED budget
  BY <1>1, <1>2, <1>4, Skips DEF Listed
<1>5. CASE Spend /\ Answer
  BY <1>1, <1>5, BreaksOff
<1> QED
  BY <1>2, <1>3, <1>4, <1>5 DEF GetTableId

LEMMA CoverRefines ==
  ASSUME TypeOK, CallInv, StreamInfo \/ ValidateAndSync \/ StreamInfoAgain
  PROVE  Refines
<1>1. scan.pc \in Covering /\ scan.pc # "tableId" /\ id' = id
  BY DEF StreamInfo, ValidateAndSync, StreamInfoAgain, Covering, cluster
<1>2. ASSUME NEW pc \in {"validate", "recheck"}, Goto(pc), UNCHANGED budget,
             covered \subseteq covered'
      PROVE  Refines
  <2>1. scan' = [scan EXCEPT !.pc = pc, !.id = scan.id]
    BY <1>2 DEF Goto, TypeOK
  <2>2. pc \in Covering \ {"tableId"}
    BY DEF Covering
  <2>3. UNCHANGED <<id, found, budget>>
    BY <1>1, <1>2 DEF Goto
  <2> QED
    BY <1>1, <1>2, <2>1, <2>2, <2>3, GoesOn
<1>3. CASE StreamInfo
  BY <1>1, <1>2, <1>3, Appends, BreaksOff DEF StreamInfo, cluster
<1>4. CASE ValidateAndSync
  <2>1. covered \subseteq covered'
    BY <1>4 DEF ValidateAndSync
  <2> QED
    BY <1>1, <1>2, <1>4, <2>1, Skips DEF ValidateAndSync, Reply
<1>5. CASE StreamInfoAgain
  <2>1. scan.id \notin covered => \A t \in scan.t : t \in Listed => ~Passes(t)
    BY <1>5 DEF StreamInfoAgain, Listed, Passes
  <2> QED
    BY <1>1, <1>5, <2>1, Appends, Skips DEF StreamInfoAgain, cluster
<1> QED
  BY <1>3, <1>4, <1>5
-----------------------------------------------------------------------------
(* Users, meanwhile. *)
LEMMA CreateRefines ==
  ASSUME TypeOK, CallInv, NEW t \in Tables, CreateTable(t)
  PROVE  Refines
<1>1. /\ UNCHANGED <<covered, scan, found, budget>>
      /\ ~Present(t) /\ Present(t)' /\ id'[t] \notin covered
      /\ \A u \in Tables \ {t} : id'[u] = id[u]
  BY DEF CreateTable, TypeOK, Present
<1>2. Asking' = Asking /\ Named' = Named
  BY <1>1 DEF Asking, Named
<1>3. Listed' = Listed
  BY <1>1, FitAssumption DEF Listed, Present
<1>4. Owed' = Owed
  BY <1>1, <1>3, FitAssumption DEF Owed, Listed, Present, Waits, Passes
<1>5. CASE t \in Fit
  <2>1. FitExisting' = FitExisting \cup {t}
    BY <1>1, <1>5, FitAssumption DEF FitExisting, Existing, Present
  <2>2. Promise!Create(t)
    BY <1>1, <1>2, <1>3, <1>4, <2>1 DEF Promise!Create, Promise!question
  <2> QED
    BY <1>5, <2>2 DEF Refines, Promise!Next
<1>6. CASE t \notin Fit
  <2>1. FitExisting' = FitExisting
    BY <1>1, <1>6, FitAssumption DEF FitExisting, Existing, Present
  <2> QED
    BY <1>1, <1>2, <1>3, <1>4, <2>1 DEF Refines, Promise!vars
<1> QED
  BY <1>5, <1>6

LEMMA DropRefines ==
  ASSUME TypeOK, CallInv, NEW t \in Tables, DropTable(t)
  PROVE  Refines
<1>1. /\ UNCHANGED <<covered, scan, found, budget>>
      /\ Present(t) /\ ~Present(t)'
      /\ \A u \in Tables \ {t} : id'[u] = id[u]
  BY DEF DropTable, TypeOK, Present
<1>2. Asking' = Asking /\ Named' = Named
  BY <1>1 DEF Asking, Named
<1>3. Listed' = Listed \ {t}
  BY <1>1, FitAssumption DEF Listed, Present
<1>4. Owed \ {t} \subseteq Owed' /\ Owed' \subseteq Owed
  BY <1>1, <1>3, FitAssumption DEF Owed, Listed, Waits, Passes
<1>5. CASE t \in Fit
  <2>1. FitExisting' = FitExisting \ {t}
    BY <1>1, <1>5, FitAssumption DEF FitExisting, Existing, Present
  <2>2. Promise!Drop(t)
    BY <1>1, <1>2, <1>3, <1>4, <2>1 DEF Promise!Drop
  <2> QED
    BY <1>5, <2>2 DEF Refines, Promise!Next
<1>6. CASE t \notin Fit
  <2>1. FitExisting' = FitExisting /\ Listed' = Listed
    BY <1>1, <1>3, <1>6, FitAssumption DEF FitExisting, Existing, Present, Listed
  <2>2. Owed' = Owed
    BY <1>4, <1>6 DEF TypeOK, Owed, Listed
  <2> QED
    BY <1>1, <1>2, <2>1, <2>2 DEF Refines, Promise!vars
<1> QED
  BY <1>5, <1>6

(* The stream picks up a table, or lets go of one that was dropped. *)
LEMMA StreamRefines ==
  ASSUME TypeOK, CallInv, UNCHANGED <<id, scan, found, budget>>,
         Listed \subseteq Listed'
  PROVE  Refines
<1>1. /\ FitExisting' = FitExisting /\ Listed' \subseteq FitExisting
      /\ Asking' = Asking /\ Named' = Named
  BY FitAssumption DEF FitExisting, Existing, Present, Listed, Asking, Named
<1>2. Owed \subseteq Owed' /\ Owed' \subseteq Named'
  BY <1>1 DEF TypeOK, Owed, Named, Listed, Waits, Passes
<1>3. Promise!Look
  BY <1>1, <1>2 DEF Promise!Look, Promise!PickUp
<1> QED
  BY <1>3 DEF Refines, Promise!Next

LEMMA NextRefines ==
  ASSUME TypeOK, CallInv, [Next]_vars
  PROVE  Refines
<1>1. CASE ScanStep
  BY <1>1, ReadsRefine, EndRefines, KeyRefines, TableIdRefines, CoverRefines
     DEF ScanStep
<1>2. CASE \E t \in Tables : CreateTable(t) \/ DropTable(t)
  BY <1>2, CreateRefines, DropRefines
<1>3. ASSUME NEW t \in Tables, ListTable(t) PROVE Refines
  <2>1. Listed \subseteq Listed'
    BY <1>3 DEF ListTable, Listed, Present
  <2> QED
    BY <1>3, <2>1, StreamRefines DEF ListTable
<1>4. ASSUME NEW i \in covered, Forget(i) PROVE Refines
  <2>1. Listed \subseteq Listed'
    BY <1>4, FitAssumption DEF Forget, Listed, Present
  <2> QED
    BY <1>4, <2>1, StreamRefines DEF Forget
<1>5. CASE UNCHANGED vars
  <2>1. UNCHANGED <<id, scan, found, budget>> /\ Listed' = Listed
    BY <1>5 DEF vars, cluster, Listed, Present
  <2> QED
    BY <2>1, StreamRefines
<1> QED
  BY <1>1, <1>2, <1>3, <1>4, <1>5 DEF Next

LEMMA InitRefines == Init => Promise!Init
<1> SUFFICES ASSUME Init PROVE Promise!Init
  OBVIOUS
<1>1. scan = [Idle EXCEPT !.pc = "idle"]
  BY DEF Init, Idle
<1>2. ~Asking /\ Named = {} /\ Owed = {}
  BY <1>1, NoQuestion
<1>3. FitExisting = {} /\ Listed = {}
  BY FitAssumption DEF Init, FitExisting, Existing, Listed, Present
<1> QED
  BY <1>2, <1>3 DEF Init, Promise!Init, Asking

(* For any tables, ids and failures, and whatever the stream picks up, a   *)
(* discovery in which no call fails answers every fit table that the       *)
(* stream lists when the catalog query names it, or before the call is     *)
(* done with it, and that no one drops; and never a table it did not name. *)
THEOREM DiscoveryKeepsPromise == Spec => Promised
<1>1. TypeOK /\ CallInv /\ [Next]_vars => [Promise!Next]_(Promise!vars)
  BY NextRefines DEF Refines
<1> QED
  BY <1>1, InitRefines, DiscoveryTypeCorrect, CallInvariant, PTL
     DEF Spec, Promised, Promise!Spec
=============================================================================
