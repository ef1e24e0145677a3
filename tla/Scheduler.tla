------------------------------ MODULE Scheduler ------------------------------
(***************************************************************************)
(* The task scheduler of pkg/scheduler: tasks by name, a heap of due times,*)
(* and a goroutine that at every tick runs what is due with the            *)
(* scheduler's mutex held.                                                 *)
(*                                                                         *)
(* The heap is the set of its entries; which of several entries of the     *)
(* least time it yields is left open (module BinaryHeap has the heap).     *)
(***************************************************************************)
EXTENDS Naturals, FiniteSets

CONSTANTS
    Task,      \* names of tasks
    MaxDefs,   \* bound on the task definitions created
    MaxTime,   \* bound on the clock
    None       \* no definition, nobody

ASSUME SchedulerAssumption == MaxDefs \in Nat /\ MaxTime \in Nat /\ None \notin Nat

Def == 1..MaxDefs   \* TaskDefinition objects, in the order of their creation

VARIABLES
    now,        \* the clock, in ticks
    tasks,      \* s.tasks
    pending,    \* s.pendingJobs: pairs of due time and definition
    name, every,\* of a definition: Name, and interval (0: a timeout)
    used,       \* number of definitions created so far
    cancelled,  \* definitions whose ctx is done
    running,    \* s.running
    done,       \* s.ctx is done
    mutex,      \* holder of s.mutex: None, "tick", or the name of a caller
    executing   \* what executeTask runs: a pair of due time and definition

schedVars == <<tasks, pending, name, every, used, cancelled, running, done>>
tickVars == <<mutex, executing>>
allSchedVars == <<now, schedVars, tickVars>>

Nothing == <<0, None>>

SchedInit ==
    /\ now = 0
    /\ tasks = [n \in Task |-> None]
    /\ pending = {}
    /\ name = [d \in Def |-> None] /\ every = [d \in Def |-> 0]
    /\ used = 0 /\ cancelled = {}
    /\ running = FALSE /\ done = FALSE
    /\ mutex = None /\ executing = Nothing

Tock ==
    /\ now < MaxTime
    /\ now' = now + 1
    /\ UNCHANGED <<schedVars, tickVars>>

-----------------------------------------------------------------------------
(* The interface; each call runs under the mutex. *)

\* s.start: the context is derived from the one before, done or not.
start == running' = TRUE /\ UNCHANGED done

Start ==
    /\ mutex = None /\ ~running
    /\ start
    /\ UNCHANGED <<now, tasks, pending, name, every, used, cancelled, tickVars>>

\* The goroutine sees it at its next tick with a task in the heap.
Stop ==
    /\ mutex = None /\ running
    /\ done' = TRUE
    /\ UNCHANGED <<now, tasks, pending, name, every, used, cancelled, running, tickVars>>

\* Mutant of ScheduleTask: the definition that is replaced stays as it is.
ScheduleTaskOver(n, e, t, overwrite, valid) ==
    /\ IF running THEN UNCHANGED <<running, done>> ELSE start
    /\ \E d \in Def \cap {used + 1} :
          /\ tasks' = [tasks EXCEPT ![n] = d]
          /\ name' = [name EXCEPT ![d] = n]
          /\ every' = [every EXCEPT ![d] = e]
          /\ pending' = pending \cup {<<now + (IF t > 0 THEN t ELSE e), d>>}
          /\ used' = d
    /\ UNCHANGED cancelled

\* ScheduleTask with AutoRun, but for taking the mutex.  An existing task is
\* stopped before the options are validated.
ScheduleTask(n, e, t, overwrite, valid) ==
    LET exists == tasks[n] # None
        stopped == IF exists /\ overwrite THEN cancelled \cup {tasks[n]} ELSE cancelled
    IN /\ IF running THEN UNCHANGED <<running, done>> ELSE start
       /\ cancelled' = stopped
       /\ IF (exists /\ ~overwrite) \/ ~valid
          THEN /\ tasks' = [tasks EXCEPT ![n] = IF overwrite THEN None ELSE @]
               /\ UNCHANGED <<pending, name, every, used>>
          ELSE \E d \in Def \cap {used + 1} :
                  /\ tasks' = [tasks EXCEPT ![n] = d]
                  /\ name' = [name EXCEPT ![d] = n]
                  /\ every' = [every EXCEPT ![d] = e]
                  /\ pending' = pending \cup {<<now + (IF t > 0 THEN t ELSE e), d>>}
                  /\ used' = d

StopTask(n) ==
    /\ mutex = None
    /\ tasks[n] # None
    /\ cancelled' = cancelled \cup {tasks[n]}
    /\ tasks' = [tasks EXCEPT ![n] = None]
    /\ UNCHANGED <<now, pending, name, every, used, running, done, tickVars>>

-----------------------------------------------------------------------------
(* The goroutine *)

\* What Peak may return.
Peak == {p \in pending : \A q \in pending : p[1] <= q[1]}

Tick ==
    /\ running /\ mutex = None
    /\ mutex' = "tick"
    /\ UNCHANGED <<now, schedVars, executing>>

Holding == mutex = "tick" /\ executing = Nothing

\* The goroutine ends.
TickDone ==
    /\ Holding /\ pending # {} /\ done
    /\ running' = FALSE
    /\ mutex' = None
    /\ UNCHANGED <<now, tasks, pending, name, every, used, cancelled, done, executing>>

\* A cancelled definition leaves the heap, and whatever has its name the map.
TickCancelled ==
    /\ Holding
    /\ \E p \in Peak :
          /\ p[2] \in cancelled
          /\ tasks' = [tasks EXCEPT ![name[p[2]]] = None]
          /\ pending' = pending \ {p}
    /\ UNCHANGED <<now, name, every, used, cancelled, running, done, tickVars>>

TickRun ==
    /\ Holding /\ ~done
    /\ \E p \in Peak :
          /\ p[2] \notin cancelled /\ p[1] <= now
          /\ pending' = pending \ {p}
          /\ executing' = p
    /\ UNCHANGED <<now, tasks, name, every, used, cancelled, running, done, mutex>>

\* Mutant of TickRests: the mutex is kept when there is no task.
TickRestsHolding ==
    /\ Holding /\ ~done /\ \E p \in Peak : p[2] \notin cancelled /\ p[1] > now
    /\ mutex' = None
    /\ UNCHANGED <<now, schedVars, executing>>

\* Nothing, or nothing due: the mutex is released until the next tick.
TickRests ==
    /\ Holding
    /\ \/ pending = {}
       \/ ~done /\ \E p \in Peak : p[2] \notin cancelled /\ p[1] > now
    /\ mutex' = None
    /\ UNCHANGED <<now, schedVars, executing>>

\* The deferred part of executeTask, after the task's function.
Executed ==
    LET d == executing[2] IN
    /\ IF every[d] = 0
       THEN /\ cancelled' = cancelled \cup {d}
            /\ tasks' = [tasks EXCEPT ![name[d]] = None]
            /\ UNCHANGED pending
       ELSE /\ pending' = pending \cup {<<executing[1] + every[d], d>>}
            /\ UNCHANGED <<tasks, cancelled>>
    /\ executing' = Nothing
    /\ UNCHANGED <<now, name, every, used, running, done, mutex>>

TickSteps == TickDone \/ TickCancelled \/ TickRun \/ TickRests

-----------------------------------------------------------------------------
(* Properties *)

\* The variables of the scheduler have their types.
SchedTypeOK ==
    /\ now \in 0..MaxTime
    /\ tasks \in [Task -> Def \cup {None}]
    /\ \A p \in pending : p[1] \in Nat /\ p[2] \in 1..used
    /\ name \in [Def -> Task \cup {None}] /\ every \in [Def -> Nat]
    /\ cancelled \subseteq 1..used /\ used \in 0..MaxDefs
    /\ running \in BOOLEAN /\ done \in BOOLEAN
    /\ executing[2] \in Def \cup {None}

\* A task that is listed will run: it is not cancelled, it has the name it is
\* listed under, and it is due exactly once, or is running.  No overwriting, stop
\* or failed call leaves a name in the map that stands for nothing.
ListedTasksRunOnce ==
    \A n \in Task : tasks[n] # None =>
        /\ tasks[n] \notin cancelled /\ name[tasks[n]] = n
        /\ Cardinality({p \in pending \cup {executing} : p[2] = tasks[n]}) = 1

\* A task that will run and is not listed lost its entry to the cleaning up of a
\* cancelled definition of its name: nothing else takes a task out of the map.
UnlistedWereReplaced ==
    \A d \in (1..used) \ cancelled : tasks[name[d]] # d =>
        \E c \in cancelled : c # d /\ name[c] = name[d]

\* The map and the heap agree: what is listed is due once, and what is due and
\* not listed lost its entry to a cancelled definition of its name.  Until then
\* a name stands for one task.  Afterwards it may stand for two: the unlisted one
\* runs on beside the next that is scheduled, with Overwrite or without, against
\* the comment on Overwrite (scheduler.go:26-28).
TaskNamesKept == ListedTasksRunOnce /\ UnlistedWereReplaced
=============================================================================
