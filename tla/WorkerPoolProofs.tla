--------------------------- MODULE WorkerPoolProofs ---------------------------
(***************************************************************************)
(* What holds of WorkerPool for any number of databases, workers, faults   *)
(* and interrupts.                                                         *)
(***************************************************************************)
EXTENDS WorkerPool, TLAPS

USE WorkersAssumption, PoolBoundsAssumption, NoneAssumption

(* Between two rounds a pool has nothing to do: leaving the `with` block,  *)
(* by whatever path, has waited for its tasks.                             *)
Between ==
    \A p \in Pools :
        thread[p] \in {"new", "check", "submit", "pause"} => Idle(p)

(* The first interrupt is what makes the main thread drain its round. *)
DrainsLate == thread["scan"] = "drain" => interrupts >= 1

Inv == TypeOK /\ Between /\ DrainsLate /\ Exclusive /\ InterruptDrains

LEMMA ScanIsPool == "scan" \in Pools
  BY DEF Pools

LEMMA InitInv == Init => Inv
<1> SUFFICES ASSUME Init PROVE Inv
  OBVIOUS
<1>1. TypeOK
  <2>1. thread \in [Pools -> ThreadPcs]
    BY DEF Init, ThreadPcs
  <2>2. /\ queued \in [Pools -> SUBSET known]
        /\ working \in [Pools -> [Slots -> known \cup {None}]]
    BY DEF Init
  <2>3. existing \subseteq Databases /\ known \subseteq existing
    BY DEF Init
  <2>4. interrupts \in 0 .. MaxInterrupts /\ budget \in 0 .. MaxFaults
    BY SMT DEF Init
  <2>5. shutdown \in BOOLEAN
    BY Zenon DEF Init
  <2> QED
    BY <2>1, <2>2, <2>3, <2>4, <2>5, Zenon DEF TypeOK
<1>2. \A p \in Pools : Idle(p)
  BY DEF Init, Idle
<1>3. thread["scan"] = "new"
  BY ScanIsPool DEF Init
<1> QED
  BY <1>1, <1>2, <1>3
     DEF Init, Inv, Between, DrainsLate, Exclusive, InterruptDrains
-----------------------------------------------------------------------------
(* A step that touches no task keeps Exclusive, and who is idle. *)
LEMMA TasksSame ==
  ASSUME Inv, UNCHANGED <<queued, working>>
  PROVE  Exclusive' /\ \A p : Idle(p)' <=> Idle(p)
  BY DEF Inv, Exclusive, Idle

(* A thread moves and touches no task.  It comes to rest between rounds    *)
(* only from there, or with nothing left to do; the main thread is stopped *)
(* the same way.                                                           *)
LEMMA WalkInv ==
  ASSUME Inv, NEW p \in Pools, NEW from, NEW to \in ThreadPcs,
         Walk(p, from, to),
         to \in {"new", "check", "submit", "pause", "rest", "stop", "exit"} =>
             \/ Idle(p)
             \/ to = "stop" /\ from = "rest",
         to # "drain"
  PROVE  Inv'
<1> USE DEF Inv, Walk, Move
<1>1. /\ thread[p] = from
      /\ thread' = [thread EXCEPT ![p] = to]
      /\ UNCHANGED <<existing, known, queued, working, shutdown, interrupts, budget>>
      /\ thread \in [Pools -> ThreadPcs]
  BY DEF TypeOK
<1>2. TypeOK'
  BY <1>1 DEF TypeOK
<1>3. Exclusive' /\ \A q : Idle(q)' <=> Idle(q)
  BY <1>1, TasksSame
<1>4. Between'
  BY <1>1, <1>3 DEF Between
<1>5. DrainsLate' /\ InterruptDrains'
  BY <1>1, <1>3, ScanIsPool DEF DrainsLate, InterruptDrains
<1> QED
  BY <1>2, <1>3, <1>4, <1>5

LEMMA StartInv ==
  ASSUME Inv,
         (\E p \in Background : StartThread(p)) \/ StartScan \/ MainFails
  PROVE  Inv'
<1>1. ASSUME NEW p \in Background, StartThread(p)
      PROVE  Inv'
  <2>1. p \in Pools /\ Walk(p, "new", "check")
    BY <1>1, BackgroundAssumption DEF StartThread
  <2>2. Idle(p)
    BY <2>1 DEF Inv, Between, Walk, Move
  <2> QED
    BY <2>1, <2>2, WalkInv DEF ThreadPcs
<1>2. CASE StartScan
  <2>1. Idle("scan")
    BY <1>2, ScanIsPool DEF Inv, Between, StartScan, Walk, Move
  <2> QED
    BY <1>2, <2>1, ScanIsPool, WalkInv DEF StartScan, ThreadPcs
<1>3. CASE MainFails
  <2>1. /\ thread["scan"] \in {"new", "pause"}
        /\ thread' = [thread EXCEPT !["scan"] = "stop"]
        /\ budget > 0 /\ budget' = budget - 1
        /\ UNCHANGED <<existing, known, queued, working, shutdown, interrupts>>
        /\ thread \in [Pools -> ThreadPcs]
    BY <1>3 DEF MainFails, Move, Spend, Inv, TypeOK
  <2>2. Exclusive' /\ \A q : Idle(q)' <=> Idle(q)
    BY <2>1, TasksSame
  <2>3. TypeOK'
    <3>1. thread' \in [Pools -> ThreadPcs]
      BY <2>1 DEF ThreadPcs
    <3>2. budget' \in 0 .. MaxFaults
      BY <2>1 DEF Inv, TypeOK
    <3> QED
      BY <2>1, <3>1, <3>2 DEF Inv, TypeOK
  <2>4. Between' /\ DrainsLate' /\ InterruptDrains'
    BY <2>1, <2>2, ScanIsPool DEF Inv, Between, DrainsLate, InterruptDrains
  <2> QED
    BY <2>2, <2>3, <2>4 DEF Inv
<1> QED
  BY <1>1, <1>2, <1>3

LEMMA ThreadFailsInv ==
  ASSUME Inv, NEW p \in Background, ThreadFails(p)
  PROVE  Inv'
<1>1. /\ thread[p] = "new"
      /\ thread' = [thread EXCEPT ![p] = "over"]
      /\ budget > 0 /\ budget' = budget - 1
      /\ UNCHANGED <<existing, known, queued, working, shutdown, interrupts>>
      /\ thread \in [Pools -> ThreadPcs]
      /\ p \in Pools /\ p # "scan"
  BY BackgroundAssumption DEF ThreadFails, Move, Spend, Inv, TypeOK
<1>2. Exclusive' /\ \A q : Idle(q)' <=> Idle(q)
  BY <1>1, TasksSame
<1>3. TypeOK'
  <2>1. thread' \in [Pools -> ThreadPcs]
    BY <1>1 DEF ThreadPcs
  <2>2. budget' \in 0 .. MaxFaults
    BY <1>1 DEF Inv, TypeOK
  <2> QED
    BY <1>1, <2>1, <2>2 DEF Inv, TypeOK
<1>4. Between' /\ DrainsLate' /\ InterruptDrains'
  BY <1>1, <1>2, ScanIsPool DEF Inv, Between, DrainsLate, InterruptDrains
<1> QED
  BY <1>2, <1>3, <1>4 DEF Inv

LEMMA SubmitInv ==
  ASSUME Inv, NEW p \in Pools, Submit(p)
  PROVE  Inv'
<1>1. PICK part \in SUBSET known :
        /\ UNCHANGED budget \/ Spend("thread")
        /\ queued' = [queued EXCEPT ![p] = part]
  BY DEF Submit
<1>2. /\ thread[p] = "submit"
      /\ thread' = [thread EXCEPT ![p] = "wait"]
      /\ UNCHANGED <<existing, known, working, shutdown, interrupts>>
  BY DEF Submit, Move
<1>3. Idle(p)
  BY <1>2 DEF Inv, Between
<1>4. /\ thread \in [Pools -> ThreadPcs]
      /\ queued \in [Pools -> SUBSET known]
  BY DEF Inv, TypeOK
<1>5. TypeOK'
  <2>1. budget' \in 0 .. MaxFaults
    BY <1>1 DEF Inv, TypeOK, Spend
  <2> QED
    BY <1>1, <1>2, <2>1 DEF Inv, TypeOK, ThreadPcs
<1>6. Exclusive'
  BY <1>1, <1>2, <1>3, <1>4 DEF Inv, Exclusive, Idle
<1>7. Between'
  BY <1>1, <1>2, <1>4 DEF Inv, Between, Idle
<1>8. DrainsLate' /\ InterruptDrains'
  BY <1>1, <1>2, <1>4, ScanIsPool DEF Inv, DrainsLate, InterruptDrains, Idle
<1> QED
  BY <1>5, <1>6, <1>7, <1>8 DEF Inv

LEMMA ThreadInv ==
  ASSUME Inv, NEW p \in Pools, ThreadStep(p)
  PROVE  Inv'
<1> USE DEF ThreadPcs
<1>1. CASE Check(p)
  <2>1. Idle(p)
    BY <1>1 DEF Inv, Between, Check, Walk, Move
  <2> QED
    BY <1>1, <2>1, WalkInv DEF Check
<1>2. CASE Submit(p)
  BY <1>2, SubmitInv
<1>3. CASE SubmitRefused(p)
  <2>1. Idle(p)
    BY <1>3 DEF Inv, Between, SubmitRefused, Walk, Move
  <2> QED
    BY <1>3, <2>1, WalkInv DEF SubmitRefused
<1>4. CASE Join(p)
  BY <1>4, WalkInv DEF Join
<1>5. CASE Wake(p)
  <2>1. Idle(p)
    BY <1>5 DEF Inv, Between, Wake, Walk, Move
  <2> QED
    BY <1>5, <2>1, WalkInv DEF Wake
<1>6. CASE Leave(p)
  BY <1>6, WalkInv DEF Leave
<1> QED
  BY <1>1, <1>2, <1>3, <1>4, <1>5, <1>6 DEF ThreadStep

(* A worker that takes a task leaves the pool busy, as it was. *)
LEMMA TakeInv ==
  ASSUME Inv, NEW p \in Pools, NEW s \in Slots, Take(p, s)
  PROVE  Inv'
<1>1. PICK d \in queued[p] :
        /\ queued' = [queued EXCEPT ![p] = @ \ {d}]
        /\ working' = [working EXCEPT ![p][s] = d]
  BY DEF Take
<1>2. /\ working[p][s] = None
      /\ UNCHANGED <<existing, known, thread, shutdown, interrupts, budget>>
  BY DEF Take
<1>3. /\ queued \in [Pools -> SUBSET known]
      /\ working \in [Pools -> [Slots -> known \cup {None}]]
      /\ d \in known
  BY DEF Inv, TypeOK
<1>4. ~Idle(p)
  BY DEF Idle
<1>5. \A q \in Pools : q # p => Idle(q)' = Idle(q)
  BY <1>1, <1>3 DEF Idle
<1>6. TypeOK'
  BY <1>1, <1>2, <1>3 DEF Inv, TypeOK
<1>7. d # None
  BY <1>3 DEF Inv, TypeOK
<1>8. Exclusive'
  <2> SUFFICES ASSUME NEW q \in Pools, NEW t \in Slots, working'[q][t] # None
               PROVE  /\ working'[q][t] \notin queued'[q]
                      /\ \A r \in Slots \ {t} : working'[q][r] # working'[q][t]
    BY DEF Exclusive
  <2>1. CASE q # p
    BY <1>1, <1>3, <2>1 DEF Inv, Exclusive
  <2>2. CASE q = p /\ t = s
    BY <1>1, <1>2, <1>3, <1>7, <2>2 DEF Inv, Exclusive
  <2>3. CASE q = p /\ t # s
    BY <1>1, <1>2, <1>3, <1>7, <2>3 DEF Inv, Exclusive
  <2> QED
    BY <2>1, <2>2, <2>3
<1>9. Between'
  BY <1>2, <1>4, <1>5 DEF Inv, Between
<1>10. DrainsLate' /\ InterruptDrains'
  BY <1>2, <1>4, <1>5, ScanIsPool DEF Inv, DrainsLate, InterruptDrains
<1> QED
  BY <1>6, <1>8, <1>9, <1>10 DEF Inv

(* A worker that is free again leaves the pool idle if it was. *)
LEMMA FreeInv ==
  ASSUME Inv, NEW p \in Pools, NEW s \in Slots, Free(p, s),
         budget' \in 0 .. MaxFaults
  PROVE  Inv'
<1>1. /\ working' = [working EXCEPT ![p][s] = None]
      /\ UNCHANGED <<existing, known, thread, queued, shutdown, interrupts>>
  BY DEF Free
<1>2. working \in [Pools -> [Slots -> known \cup {None}]]
  BY DEF Inv, TypeOK
<1>3. \A q \in Pools : Idle(q) => Idle(q)'
  BY <1>1, <1>2 DEF Idle
<1>4. TypeOK'
  BY <1>1, <1>2 DEF Inv, TypeOK
<1>5. Exclusive'
  <2>1. \A q \in Pools, t \in Slots :
          working'[q][t] = working[q][t] \/ working'[q][t] = None
    BY <1>1, <1>2
  <2> QED
    BY <1>1, <2>1 DEF Inv, Exclusive
<1>6. Between' /\ DrainsLate' /\ InterruptDrains'
  BY <1>1, <1>3, ScanIsPool DEF Inv, Between, DrainsLate, InterruptDrains
<1> QED
  BY <1>4, <1>5, <1>6 DEF Inv

LEMMA WorkerInv ==
  ASSUME Inv, NEW p \in Pools, NEW s \in Slots,
         Take(p, s) \/ Finish(p, s) \/ Fail(p, s) \/ Refused(p, s)
  PROVE  Inv'
<1>1. CASE Take(p, s)
  BY <1>1, TakeInv
<1>2. CASE Finish(p, s)
  BY <1>2, FreeInv DEF Finish, Inv, TypeOK
<1>3. CASE Fail(p, s)
  BY <1>3, FreeInv DEF Fail, Spend, Inv, TypeOK
<1>4. CASE Refused(p, s)
  BY <1>4, FreeInv DEF Refused, Inv, TypeOK
<1> QED
  BY <1>1, <1>2, <1>3, <1>4

(* An interrupt: the first one to meet a round at work makes it drain. *)
LEMMA InterruptInv ==
  ASSUME Inv, Interrupt
  PROVE  Inv'
<1> DEFINE pc == thread["scan"]
<1>1. /\ interrupts < MaxInterrupts
      /\ interrupts' = interrupts + 1
      /\ pc \in {"new", "check", "submit", "wait", "pause", "drain", "rest", "stop"}
      /\ thread' = [thread EXCEPT !["scan"] = AfterInterrupt[@]]
      /\ UNCHANGED <<existing, known, queued, working, shutdown, budget>>
  BY DEF Interrupt, AfterInterrupt
<1>2. /\ thread \in [Pools -> ThreadPcs]
      /\ interrupts \in Nat
  BY DEF Inv, TypeOK
<1>3. thread'["scan"] = CASE pc = "wait" -> "drain"
                          [] pc \in {"submit", "drain"} -> "rest"
                          [] OTHER -> "stop"
  BY <1>1, <1>2, ScanIsPool DEF AfterInterrupt
<1>4. Exclusive' /\ \A q : Idle(q)' <=> Idle(q)
  BY <1>1, TasksSame
<1>5. thread'["scan"] \in {"drain", "rest", "stop"}
  BY <1>3
<1>6. \A q \in Pools \ {"scan"} : thread'[q] = thread[q]
  BY <1>1, <1>2
<1>7. TypeOK'
  <2>1. thread' \in [Pools -> ThreadPcs]
    BY <1>1, <1>2, <1>5, <1>6 DEF ThreadPcs
  <2> QED
    BY <1>1, <1>2, <2>1 DEF Inv, TypeOK
<1>8. Between'
  BY <1>4, <1>5, <1>6 DEF Inv, Between
<1>9. DrainsLate'
  BY <1>1, <1>2 DEF DrainsLate
<1>10. ASSUME interrupts' <= 1, thread'["scan"] # "drain"
       PROVE  Idle("scan")
  <2>1. interrupts = 0
    BY <1>1, <1>2, <1>10
  <2>2. pc # "wait" /\ pc # "drain"
    BY <1>3, <1>10, <2>1 DEF Inv, DrainsLate
  <2> QED
    BY <1>1, <2>1, <2>2, ScanIsPool DEF Inv, Between, InterruptDrains
<1>11. InterruptDrains'
  BY <1>4, <1>10 DEF InterruptDrains
<1> QED
  BY <1>4, <1>7, <1>8, <1>9, <1>11 DEF Inv

LEMMA DieInv ==
  ASSUME Inv, Exit \/ Kill
  PROVE  Inv'
<1>1. Die /\ interrupts' \in 0 .. MaxInterrupts
  BY DEF Exit, Kill, Inv, TypeOK
<1>2. TypeOK'
  BY <1>1 DEF Die, Inv, TypeOK, ThreadPcs
<1> QED
  BY <1>1, <1>2, ScanIsPool DEF Die, Inv, Between, DrainsLate, Exclusive,
     InterruptDrains

LEMMA MainInv ==
  ASSUME Inv, MainStep
  PROVE  Inv'
<1> USE DEF ThreadPcs
<1>1. CASE StartScan
  BY <1>1, StartInv
<1>2. CASE Drained
  BY <1>2, ScanIsPool, WalkInv DEF Drained
<1>3. CASE Rested
  BY <1>3, ScanIsPool, WalkInv DEF Rested
<1>4. CASE Stop
  <2>1. /\ thread["scan"] = "stop"
        /\ thread' = [thread EXCEPT !["scan"] = "exit"]
        /\ shutdown' = TRUE
        /\ UNCHANGED <<existing, known, queued, working, interrupts, budget>>
        /\ thread \in [Pools -> ThreadPcs]
    BY <1>4 DEF Stop, Move, Inv, TypeOK
  <2>2. Exclusive' /\ \A q : Idle(q)' <=> Idle(q)
    BY <2>1, TasksSame
  <2>3. TypeOK'
    BY <2>1 DEF Inv, TypeOK
  <2> QED
    BY <2>1, <2>2, <2>3, ScanIsPool
       DEF Inv, Between, DrainsLate, InterruptDrains
<1>5. CASE Exit
  BY <1>5, DieInv
<1> QED
  BY <1>1, <1>2, <1>3, <1>4, <1>5 DEF MainStep

LEMMA CreateInv ==
  ASSUME Inv, NEW d \in Databases, CreateDatabase(d)
  PROVE  Inv'
<1>1. /\ existing' = existing \cup {d}
      /\ UNCHANGED <<known, thread, queued, working, shutdown, interrupts, budget>>
  BY DEF CreateDatabase, rounds
<1>2. Exclusive' /\ \A q : Idle(q)' <=> Idle(q)
  BY <1>1, TasksSame
<1>3. TypeOK'
  BY <1>1 DEF Inv, TypeOK
<1> QED
  BY <1>1, <1>2, <1>3 DEF Inv, Between, DrainsLate, InterruptDrains

LEMMA NextInv == Inv /\ [Next]_vars => Inv'
<1> SUFFICES ASSUME Inv, [Next]_vars PROVE Inv'
  OBVIOUS
<1>1. CASE UNCHANGED vars
  <2>1. Exclusive' /\ \A q : Idle(q)' <=> Idle(q)
    BY <1>1, TasksSame DEF vars, rounds
  <2> QED
    BY <1>1, <2>1 DEF vars, rounds, Inv, TypeOK, Between, DrainsLate,
       InterruptDrains
<1> QED
  BY <1>1, StartInv, ThreadFailsInv, ThreadInv, WorkerInv, InterruptInv, DieInv, MainInv,
     CreateInv DEF Next

LEMMA Invariant == Spec => []Inv
  BY InitInv, NextInv, PTL DEF Spec
-----------------------------------------------------------------------------
(* Every thread is where a thread can be, and every task in a pool is one  *)
(* of a database that start() discovered.                                  *)
THEOREM PoolTypeCorrect == Spec => []TypeOK
<1>1. Inv => TypeOK
  BY DEF Inv
<1> QED
  BY <1>1, Invariant, PTL

(* With any number of databases and workers, and however tasks, threads    *)
(* and interrupts interleave, no database is served twice by one pool.     *)
THEOREM ServedOnce == Spec => []Exclusive
<1>1. Inv => Exclusive
  BY DEF Inv
<1> QED
  BY <1>1, Invariant, PTL

(* A single interrupt never stops the main thread with a table half set up. *)
THEOREM InterruptIsClean == Spec => []InterruptDrains
<1>1. Inv => InterruptDrains
  BY DEF Inv
<1> QED
  BY <1>1, Invariant, PTL

(* Only Submit fills a queue, and it does so between two rounds.           *)
LEMMA RoundStep ==
  ASSUME Inv, [Next]_vars, NEW p \in Pools
  PROVE  queued[p]' \subseteq queued[p] \/ Idle(p)
<1> USE DEF Inv, TypeOK
<1>1. ASSUME NEW q \in Pools, ThreadStep(q)
      PROVE  queued[p]' \subseteq queued[p] \/ Idle(p)
  <2>1. CASE Submit(q)
    BY <2>1 DEF Submit, Move, Between
  <2> QED
    BY <1>1, <2>1 DEF ThreadStep, Check, SubmitRefused, Join, Wake, Leave, Walk
<1>2. ASSUME NEW q \in Pools, NEW s \in Slots,
             Take(q, s) \/ Finish(q, s) \/ Fail(q, s) \/ Refused(q, s)
      PROVE  queued[p]' \subseteq queued[p]
  BY <1>2 DEF Take, Finish, Fail, Refused, Free
<1>3. CASE Exit \/ Kill
  BY <1>3 DEF Exit, Kill, Die
<1>4. CASE UNCHANGED queued
  BY <1>4
<1> QED
  BY <1>1, <1>2, <1>3, <1>4 DEF Next, StartThread, ThreadFails, MainFails,
     Interrupt, MainStep, StartScan, Drained, Rested, Stop, CreateDatabase,
     Walk, vars, rounds

(* No round of a pool overlaps the next, with any number of databases and  *)
(* workers, however its rounds are interrupted or raise.                   *)
THEOREM RoundsDoNotOverlap == Spec => RoundsApart
<1>1. Inv /\ [Next]_vars =>
         [\A p \in Pools : queued[p]' \subseteq queued[p] \/ Idle(p)]_vars
  BY RoundStep
<1> QED
  BY <1>1, Invariant, PTL DEF Spec, RoundsApart
=============================================================================
