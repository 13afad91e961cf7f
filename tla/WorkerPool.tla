------------------------------ MODULE WorkerPool ------------------------------
(***************************************************************************)
(* The threads of one orchestrator process.  The main thread and three     *)
(* daemon threads each go round and round: submit one task per database to *)
(* a new ThreadPoolExecutor, leave its `with` block when every task has    *)
(* ended, pause.  An interrupt ends the main thread's rounds; the process  *)
(* exits when the workers, which are no daemon threads, have nothing left. *)
(***************************************************************************)
EXTENDS Naturals, FiniteSets

CONSTANTS
    Databases,      \* the databases the cluster may come to have
    Workers,        \* max_workers of each executor
    Background,     \* the background pools an instance runs
    Faults,         \* what may go wrong: "task", "thread"
    MaxFaults,      \* how often (a bound)
    MaxInterrupts,  \* interrupts of the process (a bound)
    None            \* no database

Pools == {"scan", "prep", "cache", "clean"}
Endless == {"cache", "clean"}  \* their tasks return only when one raised
Slots == 1 .. Workers

ASSUME WorkersAssumption == Workers \in Nat \ {0}
ASSUME BackgroundAssumption == Background \subseteq Pools \ {"scan"}
ASSUME PoolBoundsAssumption == MaxFaults \in Nat /\ MaxInterrupts \in Nat
ASSUME NoneAssumption == None \notin Databases

VARIABLES
    existing,    \* the databases of the cluster
    known,       \* those start() discovered
    thread,      \* thread[p]: where the thread that fills pool p is
    queued,      \* queued[p]: the databases whose tasks wait for a worker
    working,     \* working[p][s]: the database worker s of pool p serves
    shutdown,    \* the event _background_shutdown
    interrupts,  \* interrupts so far
    budget       \* faults still to come

rounds == <<thread, queued, working>>
vars == <<existing, known, rounds, shutdown, interrupts, budget>>

(* "drain" and "rest": wait and pause, after an interrupt. *)
ThreadPcs ==
    {"new", "check", "submit", "wait", "pause", "over",
     "drain", "rest", "stop", "exit"}

TypeOK ==
    /\ existing \subseteq Databases
    /\ known \subseteq existing
    /\ thread \in [Pools -> ThreadPcs]
    /\ queued \in [Pools -> SUBSET known]
    /\ working \in [Pools -> [Slots -> known \cup {None}]]
    /\ shutdown \in BOOLEAN
    /\ interrupts \in 0 .. MaxInterrupts
    /\ budget \in 0 .. MaxFaults

(* start() has discovered the databases. *)
Init ==
    /\ existing \in SUBSET Databases
    /\ known = existing
    /\ thread = [p \in Pools |->
                     IF p \in Background \cup {"scan"} THEN "new" ELSE "over"]
    /\ queued = [p \in Pools |-> {}]
    /\ working = [p \in Pools |-> [s \in Slots |-> None]]
    /\ shutdown = FALSE
    /\ interrupts = 0
    /\ budget = MaxFaults
-----------------------------------------------------------------------------
Idle(p) == queued[p] = {} /\ \A s \in Slots : working[p][s] = None
Serving(p, d) == \E s \in Slots : working[p][s] = d
Stopping == thread["scan"] \in {"drain", "rest", "stop", "exit", "over"}
Spend(kind) == kind \in Faults /\ budget > 0 /\ budget' = budget - 1

Move(p, from, to) ==
    /\ thread[p] = from
    /\ thread' = [thread EXCEPT ![p] = to]

(* A step of a thread that touches no task. *)
Walk(p, from, to) ==
    /\ Move(p, from, to)
    /\ UNCHANGED <<existing, known, queued, working, shutdown, interrupts, budget>>

(* _start_background_tasks starts its threads one after the other, and     *)
(* waits for none of them.                                                 *)
StartedBefore(p) ==
    CASE p = "prep" -> {} [] p = "cache" -> {"prep"} [] p = "clean" -> {"prep", "cache"}

StartThread(p) ==
    /\ thread["scan"] = "new"
    /\ \A q \in StartedBefore(p) : thread[q] # "new"
    /\ Walk(p, "new", "check")

StartScan ==
    /\ \A p \in Pools \ {"scan"} : thread[p] # "new"
    /\ Walk("scan", "new", "check")

(* Even reading the configuration needs threads, as ConfigDict.get looks    *)
(* its key up in an executor.  What a background thread reads first is      *)
(* outside its loop; what the main thread reads after a round, like the     *)
(* start of a background thread, is outside the inner try.                  *)
ThreadFails(p) ==
    /\ thread["scan"] = "new"
    /\ \A q \in StartedBefore(p) : thread[q] # "new"
    /\ Move(p, "new", "over")
    /\ Spend("thread")
    /\ UNCHANGED <<existing, known, queued, working, shutdown, interrupts>>

MainFails ==
    /\ \E from \in {"new", "pause"} : Move("scan", from, "stop")
    /\ Spend("thread")
    /\ UNCHANGED <<existing, known, queued, working, shutdown, interrupts>>

(* Of the main thread nobody sets `running` to False while it looks. *)
Check(p) ==
    /\ p = "scan" \/ ~shutdown
    /\ Walk(p, "check", "submit")

(* As Submit would be with the databases discovered anew for each round. *)
SubmitExisting(p) ==
    /\ Move(p, "submit", "wait")
    /\ queued' = [queued EXCEPT ![p] = existing]
    /\ UNCHANGED <<existing, known, working, shutdown, interrupts, budget>>

(* One task per database.  When a worker cannot be started submit() raises *)
(* with some tasks in the queue; the `with` block waits for those as well. *)
Submit(p) ==
    /\ Move(p, "submit", "wait")
    /\ \E part \in SUBSET known :
        /\ \/ part = known /\ UNCHANGED budget
           \/ part # known /\ Spend("thread")
        /\ queued' = [queued EXCEPT ![p] = part]
    /\ UNCHANGED <<existing, known, working, shutdown, interrupts>>

(* Once the interpreter is ending, submit() raises. *)
SubmitRefused(p) ==
    /\ thread["scan"] = "exit"
    /\ Walk(p, "submit", "pause")

(* As Join would be if the block were left with tasks still running. *)
JoinQueued(p) == queued[p] = {} /\ Walk(p, "wait", "pause")

Join(p) == Idle(p) /\ Walk(p, "wait", "pause")

(* As Wake would be if a round that raised ended a background thread. *)
WakeOver(p) ==
    Walk(p, "pause",
         IF p # "scan" /\ budget < MaxFaults THEN "over" ELSE "check")

(* The pause runs out, or the event cuts it short. *)
Wake(p) == Walk(p, "pause", "check")

Leave(p) == p # "scan" /\ shutdown /\ Walk(p, "check", "over")

ThreadStep(p) ==
    \/ Check(p) \/ Submit(p) \/ SubmitRefused(p) \/ Join(p) \/ Wake(p) \/ Leave(p)
-----------------------------------------------------------------------------
(* The workers.  The order of the databases is pg_database's, that is any. *)
Take(p, s) ==
    /\ working[p][s] = None
    /\ \E d \in queued[p] :
        /\ queued' = [queued EXCEPT ![p] = @ \ {d}]
        /\ working' = [working EXCEPT ![p][s] = d]
    /\ UNCHANGED <<existing, known, thread, shutdown, interrupts, budget>>

Free(p, s) ==
    /\ working[p][s] # None
    /\ working' = [working EXCEPT ![p][s] = None]
    /\ UNCHANGED <<existing, known, thread, queued, shutdown, interrupts>>

(* _table_sync_loop and prepare_database return, or raise. *)
Finish(p, s) == p \notin Endless /\ Free(p, s) /\ UNCHANGED budget

(* cleanup_connectors and check_cache_counts end only on an exception. *)
Fail(p, s) == p \in Endless /\ Free(p, s) /\ Spend("task")

(* As Refused would be if ConfigDict.get needed no executor. *)
RefusedNever(p, s) == FALSE /\ UNCHANGED vars

(* Unless the interpreter is ending: reading their pause raises then. *)
Refused(p, s) ==
    /\ thread["scan"] = "exit"
    /\ p \in Endless
    /\ Free(p, s)
    /\ UNCHANGED budget
-----------------------------------------------------------------------------
(* KeyboardInterrupt in the main thread.  Leaving the `with` block waits   *)
(* for the tasks of the round unless it is interrupted too; the `finally`  *)
(* below it sleeps.  Another one while the interpreter is ending kills the *)
(* workers.                                                                *)
AfterInterrupt ==
    [pc \in {"new", "check", "submit", "wait", "pause", "drain", "rest", "stop"} |->
        CASE pc = "wait" -> "drain"
          [] pc \in {"submit", "drain"} -> "rest"
          [] OTHER -> "stop"]

(* As Interrupt would be if leaving the block did not wait. *)
InterruptAbrupt ==
    /\ interrupts < MaxInterrupts
    /\ interrupts' = interrupts + 1
    /\ thread["scan"] \in DOMAIN AfterInterrupt
    /\ thread' = [thread EXCEPT !["scan"] =
                      IF @ = "wait" THEN "rest" ELSE AfterInterrupt[@]]
    /\ UNCHANGED <<existing, known, queued, working, shutdown, budget>>

Interrupt ==
    /\ interrupts < MaxInterrupts
    /\ interrupts' = interrupts + 1
    /\ thread["scan"] \in DOMAIN AfterInterrupt
    /\ thread' = [thread EXCEPT !["scan"] = AfterInterrupt[@]]
    /\ UNCHANGED <<existing, known, queued, working, shutdown, budget>>

Drained == Idle("scan") /\ Walk("scan", "drain", "rest")
Rested == Walk("scan", "rest", "stop")

(* _stop_background_tasks: all its threads are daemons, it joins none. *)
Stop ==
    /\ Move("scan", "stop", "exit")
    /\ shutdown' = TRUE
    /\ UNCHANGED <<existing, known, queued, working, interrupts, budget>>

(* The interpreter joins the workers, and the daemon threads end with it. *)
Die ==
    /\ thread' = [p \in Pools |-> "over"]
    /\ queued' = [p \in Pools |-> {}]
    /\ working' = [p \in Pools |-> [s \in Slots |-> None]]
    /\ UNCHANGED <<existing, known, shutdown, budget>>

Exit ==
    /\ thread["scan"] = "exit"
    /\ \A p \in Pools : Idle(p)
    /\ Die
    /\ UNCHANGED interrupts

Kill ==
    /\ thread["scan"] = "exit"
    /\ interrupts < MaxInterrupts
    /\ interrupts' = interrupts + 1
    /\ Die

MainStep == StartScan \/ Drained \/ Rested \/ Stop \/ Exit

CreateDatabase(d) ==
    /\ d \notin existing
    /\ existing' = existing \cup {d}
    /\ UNCHANGED <<known, rounds, shutdown, interrupts, budget>>

Next ==
    \/ \E p \in Background : StartThread(p) \/ ThreadFails(p)
    \/ \E p \in Pools : ThreadStep(p)
    \/ \E p \in Pools, s \in Slots :
        Take(p, s) \/ Finish(p, s) \/ Fail(p, s) \/ Refused(p, s)
    \/ MainFails \/ Interrupt \/ Kill \/ MainStep
    \/ \E d \in Databases : CreateDatabase(d)

Spec == Init /\ [][Next]_vars

(* Every thread runs on, and the tasks that are meant to end do.  Nothing  *)
(* interrupts the process, creates a database or fails for certain.        *)
Fairness ==
    /\ WF_vars(MainStep)
    /\ \A p \in Background : WF_vars(StartThread(p))
    /\ \A p \in Pools : WF_vars(ThreadStep(p))
    /\ \A p \in Pools, s \in Slots :
        WF_vars(Take(p, s)) /\ WF_vars(Finish(p, s)) /\ WF_vars(Refused(p, s))

FairSpec == Spec /\ Fairness
-----------------------------------------------------------------------------
(* At no time do two workers of a pool serve the same database, nor does   *)
(* one serve a database that is queued again: the loops of a database are  *)
(* never their own rivals.  (table_sync_orchestrator.py:159-173)           *)
Exclusive ==
    \A p \in Pools, s \in Slots :
        working[p][s] # None =>
            /\ working[p][s] \notin queued[p]
            /\ \A r \in Slots \ {s} : working[p][r] # working[p][s]

(* After a single interrupt the main thread gives up its rounds only when  *)
(* no table is being set up any more.                                      *)
(* (table_sync_orchestrator.py:412-413, 436-445)                           *)
InterruptDrains ==
    interrupts <= 1 /\ thread["scan"] \in {"rest", "stop", "exit"} =>
        Idle("scan")

(* A round begins only when every task of the one before has ended, though *)
(* an interrupt or a worker that cannot be started may cut either short:   *)
(* tasks join a queue only while their pool has none waiting or running.   *)
(* (table_sync_orchestrator.py:411-426)                                    *)
RoundsApart ==
    [][\A p \in Pools : queued[p]' \subseteq queued[p] \/ Idle(p)]_vars

(* With fewer workers than databases, whatever raises, a thread that came  *)
(* to its loop has each database scanned or prepared again and again, until *)
(* the process is stopped.  (table_sync_orchestrator.py:95-110, 405-434)   *)
Looping(p) == thread[p] \in {"check", "submit", "wait", "pause"}

RoundsServe ==
    \A p \in (Background \cup {"scan"}) \ Endless, d \in Databases :
        d \in known => (Looping(p) ~> Serving(p, d) \/ Stopping)

(* The cleanup or the cache checker, should all its calls have raised, is  *)
(* started again for every database once the faults are over.              *)
(* (table_sync_orchestrator.py:122-147, 155-180)                           *)
RoundRestarts ==
    \A p \in Endless \cap Background :
        Looping(p) /\ Idle(p) /\ budget = 0 ~>
            Stopping \/ \A d \in known : d \in queued[p] \/ Serving(p, d)

(* Once it is being stopped the process comes to its end, although no one  *)
(* waits for the tasks that never return, the workers that run them are no *)
(* daemons, and nothing tells them to stop.                                *)
(* (table_sync_orchestrator.py:220-230, 267, 305)                          *)
ProcessEnds == Stopping ~> thread["scan"] = "over"
-----------------------------------------------------------------------------
(* What a comment says of the threads, and the program does not do.        *)

(* "Run connector cleanup continuously in background thread.": it goes on  *)
(* for every database.  (table_sync_orchestrator.py:152)                   *)
CleanupContinues ==
    \A d \in Databases : d \in known => []<>(Serving("clean", d) \/ Stopping)
=============================================================================
