----------------------------- MODULE CacheProofs -----------------------------
(***************************************************************************)
(* Proofs about Cache and the Scheduler that it extends, for any names,    *)
(* definitions, buckets, keys, limits and lives of entries.                *)
(*                                                                         *)
(* The two meet only in who holds which mutex, so the invariant has a part *)
(* for the scheduler and one for each bucket.                              *)
(*                                                                         *)
(* Then proofs about BinaryHeap, which both keep their queues in, for      *)
(* every size: that the array is a heap between the operations needs the   *)
(* two loops, each of them a heap but for one place in every round.        *)
(***************************************************************************)
EXTENDS Cache, BinaryHeap, FiniteSetTheorems, SequenceTheorems, WellFoundedInduction, TLAPS

-----------------------------------------------------------------------------
(* The scheduler *)

\* SchedTypeOK, and that a definition that was created has the name of a task.
Scheduled ==
    /\ now \in 0..MaxTime /\ used \in 0..MaxDefs
    /\ tasks \in [Task -> (1..used) \cup {None}]
    /\ pending \subseteq Nat \X (1..used)
    /\ name \in [Def -> Task \cup {None}] /\ every \in [Def -> Nat]
    /\ \A d \in 1..used : name[d] \in Task
    /\ cancelled \subseteq 1..used
    /\ executing \in (Nat \X (1..used)) \cup {Nothing}

Flags == running \in BOOLEAN /\ done \in BOOLEAN

\* A definition is in the heap or running, and once.
Once ==
    /\ executing \notin pending
    /\ \A p, q \in pending \cup {executing} : p[2] = q[2] => p = q

\* What runs holds the mutex, so nobody can cancel it meanwhile.
Live == executing # Nothing => (mutex = "tick" /\ executing[2] \notin cancelled)

\* A listed definition has its name and will run.
Listed ==
    \A n \in Task : tasks[n] # None =>
        /\ tasks[n] \notin cancelled /\ name[tasks[n]] = n
        /\ \E p \in pending \cup {executing} : p[2] = tasks[n]

SInv == Scheduled /\ Flags /\ Once /\ Live /\ Listed /\ UnlistedWereReplaced

LEMMA Defs ==
  ASSUME used \in 0..MaxDefs
  PROVE  1..used \subseteq Def /\ used \in Nat /\ \A d \in 1..used : d # None
  BY SchedulerAssumption DEF Def

LEMMA SchedInitInv == SchedInit => SInv
  <1> SUFFICES ASSUME SchedInit PROVE SInv
    OBVIOUS
  <1>1. Scheduled
    BY SchedulerAssumption DEF SchedInit, Scheduled, Def
  <1>2. Flags
    BY DEF SchedInit, Flags
  <1>3. Once /\ Live /\ Listed /\ UnlistedWereReplaced
    BY SchedulerAssumption DEF SchedInit, Once, Live, Listed, UnlistedWereReplaced
  <1> QED
    BY <1>1, <1>2, <1>3 DEF SInv

\* Steps that leave the tasks alone, among them those that take and release the
\* mutex while nothing runs.
LEMMA TasksKept ==
  ASSUME SInv, UNCHANGED <<tasks, pending, name, every, used, cancelled, executing>>,
         now' \in 0..MaxTime, Flags', mutex' = mutex \/ executing = Nothing
  PROVE  SInv'
  <1>1. Scheduled' /\ Once'
    BY DEF SInv, Scheduled, Once
  <1>2. Live'
    BY DEF SInv, Live
  <1>3. Listed' /\ UnlistedWereReplaced'
    BY DEF SInv, Listed, UnlistedWereReplaced
  <1> QED
    BY <1>1, <1>2, <1>3 DEF SInv

\* A definition is cancelled and leaves the map, or a new one takes its place.
LEMMA ScheduleTaskKeeps ==
  ASSUME SInv, NEW n \in Task, NEW e \in Nat, NEW t \in Nat,
         NEW overwrite \in BOOLEAN, NEW valid \in BOOLEAN,
         mutex = None, ScheduleTask(n, e, t, overwrite, valid), UNCHANGED <<now, tickVars>>
  PROVE  SInv'
  <1>0. /\ executing = Nothing /\ executing' = Nothing /\ mutex' = mutex /\ now' = now
        /\ used \in Nat /\ used \in 0..MaxDefs /\ now \in Nat /\ MaxDefs \in Nat /\ None \notin Nat
        /\ None \notin Task
    BY SchedulerAssumption, CacheAssumption DEF SInv, Live, Scheduled, tickVars
  <1>f. Flags'
    <2>1. running' \in BOOLEAN
      BY DEF ScheduleTask, start, SInv, Flags
    <2>2. done' \in BOOLEAN
      BY DEF ScheduleTask, start, SInv, Flags
    <2> QED
      BY <2>1, <2>2 DEF Flags
  <1>1. PICK S : S = IF tasks[n] # None /\ overwrite THEN cancelled \cup {tasks[n]} ELSE cancelled
    OBVIOUS
  <1>2. /\ cancelled' = S
        /\ \/ /\ (tasks[n] # None /\ ~overwrite) \/ ~valid
              /\ tasks' = [tasks EXCEPT ![n] = IF overwrite THEN None ELSE @]
              /\ UNCHANGED <<pending, name, every, used>>
           \/ /\ ~((tasks[n] # None /\ ~overwrite) \/ ~valid)
              /\ \E d \in Def \cap {used + 1} :
                  /\ tasks' = [tasks EXCEPT ![n] = d]
                  /\ name' = [name EXCEPT ![d] = n]
                  /\ every' = [every EXCEPT ![d] = e]
                  /\ pending' = pending \cup {<<now + (IF t > 0 THEN t ELSE e), d>>}
                  /\ used' = d
    BY <1>1 DEF ScheduleTask
  <1>3. /\ S \subseteq 1..used /\ cancelled \subseteq S
        /\ \A d \in S \ cancelled : d = tasks[n] /\ tasks[n] # None /\ name[tasks[n]] = n
    <2>1. /\ tasks[n] # None => tasks[n] \in 1..used /\ name[tasks[n]] = n
          /\ cancelled \subseteq 1..used
      BY DEF SInv, Scheduled, Listed
    <2> QED
      BY <1>1, <2>1
  <1>4. CASE /\ tasks' = [tasks EXCEPT ![n] = IF overwrite THEN None ELSE @]
             /\ UNCHANGED <<pending, name, every, used>>
    <2>1. Scheduled'
      BY <1>0, <1>2, <1>3, <1>4 DEF SInv, Scheduled
    <2>2. Once' /\ Live'
      BY <1>0, <1>4 DEF SInv, Once, Live
    <2>3. Listed'
      BY <1>0, <1>1, <1>2, <1>3, <1>4 DEF SInv, Scheduled, Listed
    <2>4. UnlistedWereReplaced'
      <3> SUFFICES ASSUME NEW d \in (1..used) \ S, tasks'[name[d]] # d
                   PROVE  \E c \in S : c # d /\ name[c] = name[d]
        BY <1>2, <1>4 DEF UnlistedWereReplaced
      <3>1. CASE tasks[name[d]] # d
        BY <1>3, <3>1 DEF SInv, UnlistedWereReplaced
      <3>2. CASE tasks[name[d]] = d
        <4>1. name[d] \in Task
          BY DEF SInv, Scheduled
        <4>2. name[d] = n /\ overwrite
          BY <1>4, <3>2, <4>1 DEF SInv, Scheduled
        <4>3. d \in S
          BY <1>0, <1>1, <3>2, <4>2
        <4> QED
          BY <4>3
      <3> QED
        BY <3>1, <3>2
    <2> QED
      BY <1>f, <2>1, <2>2, <2>3, <2>4 DEF SInv
  <1>5. CASE /\ ~((tasks[n] # None /\ ~overwrite) \/ ~valid)
             /\ \E d \in Def \cap {used + 1} :
                  /\ tasks' = [tasks EXCEPT ![n] = d]
                  /\ name' = [name EXCEPT ![d] = n]
                  /\ every' = [every EXCEPT ![d] = e]
                  /\ pending' = pending \cup {<<now + (IF t > 0 THEN t ELSE e), d>>}
                  /\ used' = d
    <2>1. PICK w \in Nat, d \in Def \cap {used + 1} :
                  /\ tasks' = [tasks EXCEPT ![n] = d]
                  /\ name' = [name EXCEPT ![d] = n]
                  /\ every' = [every EXCEPT ![d] = e]
                  /\ pending' = pending \cup {<<w, d>>}
                  /\ used' = d
      <3>1. now + (IF t > 0 THEN t ELSE e) \in Nat
        BY <1>0
      <3> QED
        BY <1>5, <3>1
    <2>2. /\ d = used + 1 /\ d \in Def /\ d \notin 1..used /\ 1..d = (1..used) \cup {d} /\ d # None
          /\ d \in 0..MaxDefs
      BY <1>0, <2>1 DEF Def
    <2>3. Scheduled'
      BY <1>0, <1>2, <1>3, <2>1, <2>2 DEF SInv, Scheduled
    <2>4. \A p \in pending : p[2] \in 1..used /\ p[2] # d /\ p[2] # None
      BY <1>0, <2>2 DEF SInv, Scheduled
    <2>5. Once' /\ Live'
      <3>1. <<w, d>> # Nothing /\ Nothing[2] = None /\ <<w, d>>[2] = d
        BY <2>2 DEF Nothing
      <3>2. Nothing \notin pending
        BY <1>0 DEF SInv, Once
      <3>3. Once'
        BY <1>0, <2>1, <2>2, <2>4, <3>1, <3>2 DEF SInv, Once
      <3> QED
        BY <1>0, <3>3 DEF Live
    <2>6. Listed'
      <3> SUFFICES ASSUME NEW m \in Task, tasks'[m] # None
                   PROVE  /\ tasks'[m] \notin S /\ name'[tasks'[m]] = m
                          /\ \E p \in pending' \cup {executing'} : p[2] = tasks'[m]
        BY <1>2 DEF Listed
      <3>1. CASE m = n
        <4>1. tasks'[m] = d /\ name'[d] = n /\ d \notin S /\ <<w, d>> \in pending' /\ <<w, d>>[2] = d
          BY <1>3, <2>1, <2>2, <3>1 DEF SInv, Scheduled
        <4> QED
          BY <3>1, <4>1
      <3>2. CASE m # n
        <4>1. tasks'[m] = tasks[m] /\ tasks[m] \in 1..used
          BY <2>1, <3>2 DEF SInv, Scheduled
        <4>2. tasks[m] \notin cancelled /\ name[tasks[m]] = m
              /\ \E p \in pending \cup {executing} : p[2] = tasks[m]
          BY <4>1 DEF SInv, Listed
        <4>3. tasks[m] \notin S
          BY <1>3, <3>2, <4>2
        <4>4. name'[tasks[m]] = name[tasks[m]]
          BY <2>1, <2>2, <4>1 DEF SInv, Scheduled
        <4> QED
          BY <1>0, <2>1, <4>1, <4>2, <4>3, <4>4
      <3> QED
        BY <3>1, <3>2
    <2>7. UnlistedWereReplaced'
      <3> SUFFICES ASSUME NEW c \in (1..d) \ S, tasks'[name'[c]] # c
                   PROVE  \E x \in S : x # c /\ name'[x] = name'[c]
        BY <1>2, <2>1 DEF UnlistedWereReplaced
      <3>1. c \in 1..used /\ c # d
        BY <2>1, <2>2 DEF SInv, Scheduled
      <3>2. name'[c] = name[c] /\ name[c] \in Task /\ \A x \in 1..used : name'[x] = name[x]
        BY <2>1, <2>2, <3>1 DEF SInv, Scheduled
      <3>3. CASE tasks[name[c]] = c
        <4>1. name[c] = n
          BY <2>1, <3>2, <3>3 DEF SInv, Scheduled
        <4>2. tasks[n] # None /\ overwrite
          BY <1>0, <1>5, <3>1, <3>3, <4>1
        <4>3. c \in S
          BY <1>1, <3>3, <4>1, <4>2
        <4> QED
          BY <4>3
      <3>4. CASE tasks[name[c]] # c
        <4>1. PICK x \in cancelled : x # c /\ name[x] = name[c]
          BY <1>3, <3>1, <3>4 DEF SInv, UnlistedWereReplaced
        <4> QED
          BY <1>3, <3>2, <4>1
      <3> QED
        BY <3>3, <3>4
    <2> QED
      BY <1>f, <2>3, <2>5, <2>6, <2>7 DEF SInv
  <1> QED
    BY <1>2, <1>4, <1>5

LEMMA StopTaskKeeps ==
  ASSUME SInv, NEW n \in Task, StopTask(n)
  PROVE  SInv'
  <1>0. /\ executing = Nothing /\ UNCHANGED <<now, pending, name, every, used, running, done, mutex, executing>>
        /\ tasks[n] \in 1..used /\ tasks[n] # None /\ cancelled' = cancelled \cup {tasks[n]}
        /\ tasks' = [tasks EXCEPT ![n] = None] /\ name[tasks[n]] = n
    BY CacheAssumption DEF StopTask, SInv, Live, Scheduled, Listed, tickVars
  <1>f. Flags'
    BY <1>0 DEF SInv, Flags
  <1>1. Scheduled'
    BY <1>0 DEF SInv, Scheduled
  <1>2. Once' /\ Live'
    BY <1>0 DEF SInv, Once, Live
  <1>3. Listed'
    BY <1>0 DEF SInv, Scheduled, Listed
  <1>4. UnlistedWereReplaced'
    BY <1>0 DEF SInv, Scheduled, UnlistedWereReplaced
  <1> QED
    BY <1>f, <1>1, <1>2, <1>3, <1>4 DEF SInv

\* The entry of a name leaves the map because a definition of that name is
\* cancelled; so a definition that loses its entry here was replaced.
LEMMA EntryLeaves ==
  ASSUME SInv, NEW d \in 1..used, d \in cancelled',
         UNCHANGED <<now, name, every, used, running, done>>,
         \/ cancelled' = cancelled
         \/ cancelled' = cancelled \cup {d} /\ executing[2] = d /\ executing' = Nothing,
         tasks' = [tasks EXCEPT ![name[d]] = None],
         pending' \subseteq pending,
         executing' \in {executing, Nothing},
         executing' # Nothing => mutex' = "tick",
         \A p \in pending \cup {executing} : p[2] # d => p \in pending' \cup {executing'}
  PROVE  SInv'
  <1>0. name[d] \in Task /\ cancelled' \subseteq cancelled \cup {d} /\ cancelled \subseteq cancelled' /\ None \notin Nat
    BY SchedulerAssumption DEF SInv, Scheduled
  <1>f. Flags'
    BY DEF SInv, Flags
  <1>1. Scheduled'
    BY <1>0 DEF SInv, Scheduled
  <1>2. Once'
    <2>1. Nothing \notin pending /\ \A p \in pending : p[2] # Nothing[2]
      BY <1>0 DEF Nothing, SInv, Scheduled
    <2> QED
      BY <2>1 DEF SInv, Once
  <1>3. Live'
    BY <1>0 DEF SInv, Live
  <1>4. Listed'
    <2> SUFFICES ASSUME NEW n \in Task, tasks'[n] # None
                 PROVE  /\ tasks'[n] \notin cancelled' /\ name[tasks'[n]] = n
                        /\ \E p \in pending' \cup {executing'} : p[2] = tasks'[n]
      BY DEF Listed
    <2>1. n # name[d] /\ tasks'[n] = tasks[n]
      BY <1>0 DEF SInv, Scheduled
    <2>2. /\ tasks[n] \notin cancelled /\ name[tasks[n]] = n
          /\ \E p \in pending \cup {executing} : p[2] = tasks[n]
      BY <2>1 DEF SInv, Listed
    <2>3. tasks[n] # d
      BY <2>1, <2>2
    <2> QED
      BY <1>0, <2>1, <2>2, <2>3
  <1>5. UnlistedWereReplaced'
    <2> SUFFICES ASSUME NEW c \in (1..used) \ cancelled', tasks'[name[c]] # c
                 PROVE  \E x \in cancelled' : x # c /\ name[x] = name[c]
      BY DEF UnlistedWereReplaced
    <2>1. CASE tasks[name[c]] # c
      BY <1>0, <2>1 DEF SInv, UnlistedWereReplaced
    <2>2. CASE tasks[name[c]] = c
      <3>1. name[c] = name[d]
        BY <1>0, <2>2 DEF SInv, Scheduled
      <3> QED
        BY <3>1
    <2> QED
      BY <2>1, <2>2
  <1> QED
    BY <1>f, <1>1, <1>2, <1>3, <1>4, <1>5 DEF SInv

LEMMA TickCancelledKeeps ==
  ASSUME SInv, TickCancelled
  PROVE  SInv'
  <1>1. PICK p \in pending :
          /\ p[2] \in cancelled
          /\ tasks' = [tasks EXCEPT ![name[p[2]]] = None]
          /\ pending' = pending \ {p}
    BY DEF TickCancelled, Peak
  <1>2. /\ UNCHANGED <<now, name, every, used, cancelled, running, done, mutex, executing>>
        /\ executing = Nothing
    BY DEF TickCancelled, tickVars, Holding
  <1>3. PICK d \in 1..used : d = p[2]
    BY DEF SInv, Scheduled
  <1>4. \A q \in pending \cup {executing} : q[2] # d => q \in pending' \cup {executing'}
    BY <1>1, <1>2, <1>3
  <1> QED
    BY <1>1, <1>2, <1>3, <1>4, EntryLeaves

LEMMA TickRunKeeps ==
  ASSUME SInv, TickRun
  PROVE  SInv'
  <1>1. PICK p \in pending : p[2] \notin cancelled /\ pending' = pending \ {p} /\ executing' = p
    BY DEF TickRun, Peak
  <1>2. /\ UNCHANGED <<now, tasks, name, every, used, cancelled, running, done, mutex>>
        /\ executing = Nothing /\ mutex = "tick"
    BY DEF TickRun, Holding
  <1>3. p \in Nat \X (1..used) /\ None \notin Nat
    BY SchedulerAssumption DEF SInv, Scheduled
  <1>f. Flags'
    BY <1>2 DEF SInv, Flags
  <1>4. Scheduled'
    BY <1>1, <1>2, <1>3 DEF SInv, Scheduled
  <1>5. Once' /\ Live'
    BY <1>1, <1>2 DEF SInv, Once, Live
  <1>6. Listed'
    <2>1. \A n \in Task : tasks[n] # None => tasks[n] \in Nat
      BY DEF SInv, Scheduled
    <2>2. Nothing[2] = None
      BY DEF Nothing
    <2> QED
      BY <1>1, <1>2, <1>3, <2>1, <2>2 DEF SInv, Listed
  <1>7. UnlistedWereReplaced'
    BY <1>2 DEF SInv, UnlistedWereReplaced
  <1> QED
    BY <1>f, <1>4, <1>5, <1>6, <1>7 DEF SInv

\* A timeout leaves the map and is cancelled; an interval goes back to the heap.
LEMMA ExecutedKeeps ==
  ASSUME SInv, executing # Nothing, Executed
  PROVE  SInv'
  <1>0. /\ executing \in Nat \X (1..used) /\ None \notin Nat /\ mutex = "tick"
        /\ executing[2] \notin cancelled
    BY SchedulerAssumption DEF SInv, Scheduled, Live
  <1>1. PICK d \in 1..used : d = executing[2]
    BY <1>0
  <1>2. /\ executing' = Nothing /\ UNCHANGED <<now, name, every, used, running, done, mutex>>
        /\ \/ /\ cancelled' = cancelled \cup {d}
              /\ tasks' = [tasks EXCEPT ![name[d]] = None]
              /\ UNCHANGED pending
           \/ /\ pending' = pending \cup {<<executing[1] + every[d], d>>}
              /\ UNCHANGED <<tasks, cancelled>>
    BY <1>1 DEF Executed
  <1>3. CASE /\ cancelled' = cancelled \cup {d}
             /\ tasks' = [tasks EXCEPT ![name[d]] = None]
             /\ UNCHANGED pending
    <2>1. \A q \in pending \cup {executing} : q[2] # d => q \in pending' \cup {executing'}
      BY <1>1, <1>3
    <2> QED
      BY <1>1, <1>2, <1>3, <2>1, EntryLeaves
  <1>4. CASE /\ pending' = pending \cup {<<executing[1] + every[d], d>>}
             /\ UNCHANGED <<tasks, cancelled>>
    <2>1. executing[1] + every[d] \in Nat
      BY <1>0, Defs DEF SInv, Scheduled
    <2>2. PICK x : x = <<executing[1] + every[d], d>>
      OBVIOUS
    <2>3. x \in Nat \X (1..used) /\ x[2] = d /\ x # Nothing /\ Nothing[2] = None /\ d # None
      BY <1>0, <2>1, <2>2 DEF Nothing
    <2>4. \A q \in pending : q[2] # d /\ q[2] # None /\ q # Nothing
      BY <1>0, <1>1, <2>3 DEF SInv, Once, Scheduled, Nothing
    <2>f. Flags'
      BY <1>2 DEF SInv, Flags
    <2>5. Scheduled'
      BY <1>2, <1>4, <2>2, <2>3 DEF SInv, Scheduled
    <2>6. Once'
      BY <1>2, <1>4, <2>2, <2>3, <2>4 DEF SInv, Once
    <2>7. Live'
      BY <1>2 DEF Live
    <2>8. Listed'
      BY <1>1, <1>2, <1>4, <2>2, <2>3 DEF SInv, Listed
    <2>9. UnlistedWereReplaced'
      BY <1>2, <1>4 DEF SInv, UnlistedWereReplaced
    <2> QED
      BY <2>f, <2>5, <2>6, <2>7, <2>8, <2>9 DEF SInv
  <1> QED
    BY <1>2, <1>3, <1>4

\* The clock, the ticker and Start and Stop.
LEMMA SchedulerKeeps ==
  ASSUME SInv, Tock \/ Tick \/ TickSteps \/ Start \/ Stop
  PROVE  SInv'
  <1>0. now \in 0..MaxTime /\ MaxTime \in Nat
    BY SchedulerAssumption DEF SInv, Scheduled
  <1>1. CASE Tock
    <2>1. now' \in 0..MaxTime
      BY <1>0, <1>1 DEF Tock
    <2>2. Flags'
      BY <1>1 DEF Tock, schedVars, SInv, Flags
    <2> QED
      BY <1>1, <2>1, <2>2, TasksKept DEF Tock, schedVars, tickVars
  <1>2. CASE Tick
    <2>1. executing = Nothing
      BY <1>2, CacheAssumption DEF Tick, SInv, Live
    <2>2. Flags'
      BY <1>2 DEF Tick, schedVars, SInv, Flags
    <2> QED
      BY <1>0, <1>2, <2>1, <2>2, TasksKept DEF Tick, schedVars
  <1>3. CASE Start \/ Stop
    <2>1. running' \in BOOLEAN
      BY <1>3 DEF Start, Stop, start, SInv, Flags
    <2>2. done' \in BOOLEAN
      BY <1>3 DEF Start, Stop, start, SInv, Flags
    <2> QED
      BY <1>0, <1>3, <2>1, <2>2, TasksKept DEF Start, Stop, start, Flags, tickVars
  <1>4. CASE TickDone
    <2>1. Flags'
      BY <1>4 DEF TickDone, SInv, Flags
    <2> QED
      BY <1>0, <1>4, <2>1, TasksKept DEF TickDone, Holding
  <1>5. CASE TickRests
    <2>1. Flags'
      BY <1>5 DEF TickRests, schedVars, SInv, Flags
    <2> QED
      BY <1>0, <1>5, <2>1, TasksKept DEF TickRests, Holding, schedVars
  <1> QED
    BY <1>1, <1>2, <1>3, <1>4, <1>5, TickCancelledKeeps, TickRunKeeps DEF TickSteps

\* A listed task is due, or running, exactly once.
LEMMA NamesKept ==
  ASSUME SInv
  PROVE  TaskNamesKept
  <1> SUFFICES ASSUME NEW n \in Task, tasks[n] # None
               PROVE  /\ tasks[n] \notin cancelled /\ name[tasks[n]] = n
                      /\ Cardinality({p \in pending \cup {executing} : p[2] = tasks[n]}) = 1
    BY DEF SInv, TaskNamesKept, ListedTasksRunOnce
  <1>1. PICK q \in pending \cup {executing} : q[2] = tasks[n]
    BY DEF SInv, Listed
  <1>2. {p \in pending \cup {executing} : p[2] = tasks[n]} = {q}
    BY <1>1 DEF SInv, Once
  <1> QED
    BY <1>2, FS_Singleton DEF SInv, Listed

-----------------------------------------------------------------------------
(* One bucket: its map it, its queues tq and lq, the expiries x and the keys  *)
(* rw that were deleted or set again.                                         *)

Queue == Seq(Nat \X Entry)
KeysOf(it) == {k \in Key : it[k] # None}

\* EntriesAreQueued, of one bucket.
Covered(it, tq, lq, x) ==
    \A k \in Key : it[k] # None =>
        /\ it[k][1] = k
        /\ x[it[k]] > 0 => \E i \in DOMAIN tq : tq[i][2] = it[k] /\ tq[i][1] = x[it[k]]
        /\ (x[it[k]] = 0 /\ MaxItems > 0) => \E i \in DOMAIN lq : lq[i][2] = it[k]

\* What the queues hold of key k: nothing but what the map has, and at most once.
OfMap(it, q, k) == \A i \in DOMAIN q : q[i][2][1] = k => it[k] = q[i][2]
Single(q, k) == \A i, j \in DOMAIN q : (q[i][2][1] = k /\ q[j][2][1] = k) => i = j
Lacks(q, k) == \A i \in DOMAIN q : q[i][2][1] # k

\* The queues and the map agree on a key that was neither deleted nor set again.
Straight(it, tq, lq, rw) ==
    \A k \in Key \ rw :
        /\ OfMap(it, tq, k) /\ OfMap(it, lq, k)
        /\ Single(tq, k) /\ Single(lq, k)
        /\ Lacks(tq, k) \/ Lacks(lq, k)

Timed(tq) == \A i \in DOMAIN tq : tq[i][1] > 0

Limited(it, rw) ==
    /\ IsFiniteSet(KeysOf(it))
    /\ (MaxItems > 0 /\ rw = {}) => Cardinality(KeysOf(it)) <= MaxItems

Good(it, tq, lq, x, rw) ==
    /\ it \in [Key -> Entry \cup {None}] /\ tq \in Queue /\ lq \in Queue /\ rw \subseteq Key
    /\ Covered(it, tq, lq, x) /\ Straight(it, tq, lq, rw) /\ Timed(tq) /\ Limited(it, rw)

LEMMA QueueTypes ==
  ASSUME NEW q \in Queue, NEW i \in DOMAIN q
  PROVE  /\ i \in 1..Len(q) /\ Len(q) \in Nat /\ q[i] \in Nat \X Entry
         /\ q[i][1] \in Nat /\ q[i][2] \in Entry /\ q[i][2][1] \in Key /\ q[i][2] # None
  <1>1. i \in 1..Len(q) /\ Len(q) \in Nat /\ q[i] \in Nat \X Entry
    BY DEF Queue
  <1>2. q[i][1] \in Nat /\ q[i][2] \in Entry
    BY <1>1
  <1>3. q[i][2][1] \in Key /\ q[i][2] # None
    BY <1>2, CacheAssumption DEF Entry
  <1> QED
    BY <1>1, <1>2, <1>3

\* The new element comes last.
LEMMA Appended ==
  ASSUME NEW q \in Queue, NEW t \in Nat, NEW e \in Entry
  PROVE  /\ Append(q, <<t, e>>) \in Queue
         /\ DOMAIN Append(q, <<t, e>>) = DOMAIN q \cup {Len(q) + 1}
         /\ \A i \in DOMAIN q : Append(q, <<t, e>>)[i] = q[i] /\ i # Len(q) + 1
         /\ Append(q, <<t, e>>)[Len(q) + 1] = <<t, e>>
  <1>1. <<t, e>> \in Nat \X Entry
    OBVIOUS
  <1>2. PICK y \in Nat \X Entry : y = <<t, e>>
    BY <1>1
  <1>3. q \in Seq(Nat \X Entry)
    BY DEF Queue
  <1>4. /\ Append(q, y) \in Seq(Nat \X Entry) /\ Len(Append(q, y)) = Len(q) + 1 /\ Len(q) \in Nat
        /\ \A i \in 1..Len(q) : Append(q, y)[i] = q[i]
        /\ Append(q, y)[Len(q) + 1] = y
    BY <1>3
  <1>5. DOMAIN q = 1..Len(q) /\ DOMAIN Append(q, y) = 1..(Len(q) + 1)
    BY <1>3, <1>4
  <1> QED
    BY <1>2, <1>4, <1>5 DEF Queue

\* Taking element i out keeps the others, and none comes twice.
LEMMA Removed ==
  ASSUME NEW q \in Queue, NEW i \in DOMAIN q
  PROVE  /\ Without(q, i) \in Queue
         /\ \A j \in DOMAIN Without(q, i) : \E m \in DOMAIN q \ {i} : Without(q, i)[j] = q[m]
         /\ \A m \in DOMAIN q \ {i} : \E j \in DOMAIN Without(q, i) : Without(q, i)[j] = q[m]
         /\ \A k \in Key : Single(q, k) => Single(Without(q, i), k)
         /\ \A k \in Key : (Single(q, k) /\ q[i][2][1] = k) => Lacks(Without(q, i), k)
  <1>1. PICK w : w = Without(q, i)
    OBVIOUS
  <1>2. PICK n \in Nat : n = Len(q) - 1
    <2>1. i \in 1..Len(q) /\ Len(q) \in Nat
      BY QueueTypes
    <2>2. Len(q) - 1 \in Nat
      BY <2>1
    <2> QED
      BY <2>2
  <1>3. /\ DOMAIN q = 1..(n + 1) /\ i \in 1..(n + 1) /\ \A j \in 1..(n + 1) : q[j] \in Nat \X Entry
    BY <1>2 DEF Queue
  <1>4. w = [j \in 1..n |-> IF j < i THEN q[j] ELSE q[j + 1]]
    BY <1>1, <1>2 DEF Without
  <1>5. w \in [1..n -> Nat \X Entry] /\ DOMAIN w = 1..n
    BY <1>3, <1>4
  <1>6. w \in Queue
    BY <1>5 DEF Queue
  <1>7. \A j \in 1..n : \E m \in (1..(n + 1)) \ {i} : w[j] = q[m] /\ m = IF j < i THEN j ELSE j + 1
    BY <1>3, <1>4
  <1>8. ASSUME NEW m \in (1..(n + 1)) \ {i} PROVE \E j \in 1..n : w[j] = q[m]
    <2>1. CASE m < i
      BY <1>3, <1>4, <2>1
    <2>2. CASE m > i
      <3>1. m - 1 \in 1..n /\ ~(m - 1 < i) /\ (m - 1) + 1 = m
        BY <1>3, <2>2
      <3> QED
        BY <1>4, <3>1
    <2> QED
      BY <1>3, <2>1, <2>2
  <1>9. ASSUME NEW k \in Key, Single(q, k) PROVE Single(w, k)
    <2> SUFFICES ASSUME NEW a \in 1..n, NEW b \in 1..n, w[a][2][1] = k, w[b][2][1] = k PROVE a = b
      BY <1>5 DEF Single
    <2>1. PICK c \in 1..(n + 1) : w[a] = q[c] /\ c = IF a < i THEN a ELSE a + 1
      BY <1>7
    <2>2. PICK d \in 1..(n + 1) : w[b] = q[d] /\ d = IF b < i THEN b ELSE b + 1
      BY <1>7
    <2>3. c = d
      BY <1>3, <1>9, <2>1, <2>2 DEF Single
    <2> QED
      BY <1>3, <2>1, <2>2, <2>3
  <1>10. ASSUME NEW k \in Key, Single(q, k), q[i][2][1] = k PROVE Lacks(w, k)
    BY <1>3, <1>5, <1>7, <1>10 DEF Single, Lacks
  <1>11. \A j \in 1..n : \E m \in (1..(n + 1)) \ {i} : w[j] = q[m]
    BY <1>7
  <1> QED
    BY <1>1, <1>3, <1>5, <1>6, <1>11, <1>8, <1>9, <1>10, Zenon

\* The expiries x and y agree on the entries of keys K in the map.
SameExpiry(it, K, x, y) == \A k \in K : it[k] # None => y[it[k]] = x[it[k]]

\* Only the expiries of the entries in the map count.
LEMMA ExpiriesOfMap ==
  ASSUME NEW it, NEW tq, NEW lq, NEW x, NEW y, NEW rw, Good(it, tq, lq, x, rw),
         SameExpiry(it, Key, x, y)
  PROVE  Good(it, tq, lq, y, rw)
  BY DEF Good, Covered, SameExpiry

LEMMA KeyDropped ==
  ASSUME NEW it \in [Key -> Entry \cup {None}], NEW k \in Key, IsFiniteSet(KeysOf(it))
  PROVE  /\ KeysOf([it EXCEPT ![k] = None]) = KeysOf(it) \ {k}
         /\ IsFiniteSet(KeysOf(it) \ {k})
         /\ Cardinality(KeysOf(it)) \in Nat
         /\ Cardinality(KeysOf(it) \ {k}) =
              IF k \in KeysOf(it) THEN Cardinality(KeysOf(it)) - 1 ELSE Cardinality(KeysOf(it))
  <1>1. KeysOf([it EXCEPT ![k] = None]) = KeysOf(it) \ {k}
    BY DEF KeysOf
  <1> QED
    BY <1>1, FS_RemoveElement, FS_CardinalityType

\* An element of key k leaves one of the queues.
Leaves(tq, lq, k, t2, l2) ==
    \/ \E i \in DOMAIN tq : t2 = Without(tq, i) /\ l2 = lq /\ tq[i][2][1] = k
    \/ \E i \in DOMAIN lq : l2 = Without(lq, i) /\ t2 = tq /\ lq[i][2][1] = k

\* The entry that leaves a queue takes its key out of the map: an eviction, or
\* the cleaning of what has expired.
LEMMA Evicted ==
  ASSUME NEW it, NEW tq, NEW lq, NEW x, NEW rw, Good(it, tq, lq, x, rw),
         NEW k \in Key, NEW t2, NEW l2, Leaves(tq, lq, k, t2, l2)
  PROVE  /\ Good([it EXCEPT ![k] = None], t2, l2, x, rw)
         /\ (MaxItems > 0 /\ rw = {}) => Cardinality(KeysOf([it EXCEPT ![k] = None])) < MaxItems
  <1> DEFINE d == [it EXCEPT ![k] = None]
  <1>0. /\ it \in [Key -> Entry \cup {None}] /\ tq \in Queue /\ lq \in Queue
        /\ d \in [Key -> Entry \cup {None}] /\ rw \subseteq Key /\ MaxItems \in Nat
        /\ \A a \in Key : a # k => d[a] = it[a]
        /\ d[k] = None
    BY CacheAssumption DEF Good
  <1>d. KeysOf(d) = KeysOf(it) \ {k} /\ IsFiniteSet(KeysOf(it))
    BY <1>0, KeyDropped DEF Good, Limited
  <1> HIDE DEF d
  <1>q. t2 \in Queue /\ l2 \in Queue
    BY <1>0, Removed DEF Leaves
  <1>1. /\ \A j \in DOMAIN t2 : \E m \in DOMAIN tq : t2[j] = tq[m]
        /\ \A j \in DOMAIN l2 : \E m \in DOMAIN lq : l2[j] = lq[m]
        /\ \A a \in Key : (Single(tq, a) => Single(t2, a)) /\ (Single(lq, a) => Single(l2, a))
    BY <1>0, Removed DEF Leaves
  <1>2. /\ \A m \in DOMAIN tq : tq[m][2][1] = k \/ \E j \in DOMAIN t2 : t2[j] = tq[m]
        /\ \A m \in DOMAIN lq : lq[m][2][1] = k \/ \E j \in DOMAIN l2 : l2[j] = lq[m]
    BY <1>0, Removed DEF Leaves
  <1>3. Covered(d, t2, l2, x)
    <2> SUFFICES ASSUME NEW a \in Key, d[a] # None
                 PROVE  /\ d[a][1] = a
                        /\ x[d[a]] > 0 => \E i \in DOMAIN t2 : t2[i][2] = d[a] /\ t2[i][1] = x[d[a]]
                        /\ (x[d[a]] = 0 /\ MaxItems > 0) => \E i \in DOMAIN l2 : l2[i][2] = d[a]
      BY DEF Covered
    <2>1. a # k /\ d[a] = it[a] /\ it[a][1] = a
      BY <1>0 DEF Good, Covered
    <2>2. /\ x[it[a]] > 0 => \E i \in DOMAIN tq : tq[i][2] = it[a] /\ tq[i][1] = x[it[a]]
          /\ (x[it[a]] = 0 /\ MaxItems > 0) => \E i \in DOMAIN lq : lq[i][2] = it[a]
      BY <2>1 DEF Good, Covered
    <2> QED
      BY <1>2, <2>1, <2>2
  <1>4. Timed(t2)
    BY <1>1 DEF Good, Timed
  <1>5. ASSUME k \notin rw
        PROVE  it[k] # None /\ Lacks(t2, k) /\ Lacks(l2, k)
    <2>1. /\ OfMap(it, tq, k) /\ OfMap(it, lq, k)
          /\ Single(tq, k) /\ Single(lq, k)
          /\ Lacks(tq, k) \/ Lacks(lq, k)
      BY <1>5 DEF Good, Straight
    <2>2. CASE \E i \in DOMAIN tq : t2 = Without(tq, i) /\ l2 = lq /\ tq[i][2][1] = k
      <3>1. PICK i \in DOMAIN tq : t2 = Without(tq, i) /\ l2 = lq /\ tq[i][2][1] = k
        BY <2>2
      <3>2. Lacks(t2, k)
        <4>1. (Single(tq, k) /\ tq[i][2][1] = k) => Lacks(Without(tq, i), k)
          BY <1>0, Removed
        <4> QED
          BY <2>1, <3>1, <4>1
      <3>3. it[k] # None /\ Lacks(lq, k)
        BY <1>0, <2>1, <3>1, QueueTypes DEF OfMap, Lacks
      <3> QED
        BY <3>1, <3>2, <3>3
    <2>3. CASE \E i \in DOMAIN lq : l2 = Without(lq, i) /\ t2 = tq /\ lq[i][2][1] = k
      <3>1. PICK i \in DOMAIN lq : l2 = Without(lq, i) /\ t2 = tq /\ lq[i][2][1] = k
        BY <2>3
      <3>2. Lacks(l2, k)
        <4>1. (Single(lq, k) /\ lq[i][2][1] = k) => Lacks(Without(lq, i), k)
          BY <1>0, Removed
        <4> QED
          BY <2>1, <3>1, <4>1
      <3>3. it[k] # None /\ Lacks(tq, k)
        BY <1>0, <2>1, <3>1, QueueTypes DEF OfMap, Lacks
      <3> QED
        BY <3>1, <3>2, <3>3
    <2> QED
      BY <2>2, <2>3 DEF Leaves
  <1>6. Straight(d, t2, l2, rw)
    <2> SUFFICES ASSUME NEW a \in Key \ rw
                 PROVE  /\ OfMap(d, t2, a) /\ OfMap(d, l2, a)
                        /\ Single(t2, a) /\ Single(l2, a)
                        /\ Lacks(t2, a) \/ Lacks(l2, a)
      BY DEF Straight
    <2>1. /\ OfMap(it, tq, a) /\ OfMap(it, lq, a)
          /\ Single(tq, a) /\ Single(lq, a)
          /\ Lacks(tq, a) \/ Lacks(lq, a)
      BY DEF Good, Straight
    <2>2. Single(t2, a) /\ Single(l2, a)
      BY <1>1, <2>1
    <2>3. Lacks(t2, a) \/ Lacks(l2, a)
      BY <1>1, <2>1 DEF Lacks
    <2>4. OfMap(d, t2, a) /\ OfMap(d, l2, a)
      <3>1. CASE a = k
        BY <1>5, <3>1 DEF Lacks, OfMap
      <3>2. CASE a # k
        BY <1>0, <1>1, <2>1, <3>2 DEF OfMap
      <3> QED
        BY <3>1, <3>2
    <2> QED
      BY <2>2, <2>3, <2>4
  <1>7. /\ Limited(d, rw)
        /\ (MaxItems > 0 /\ rw = {}) => Cardinality(KeysOf(d)) < MaxItems
    <2>1. /\ IsFiniteSet(KeysOf(it) \ {k}) /\ Cardinality(KeysOf(it)) \in Nat
          /\ Cardinality(KeysOf(it) \ {k}) =
              IF k \in KeysOf(it) THEN Cardinality(KeysOf(it)) - 1 ELSE Cardinality(KeysOf(it))
      BY <1>0, <1>d, KeyDropped
    <2>2. rw = {} => k \in KeysOf(it)
      BY <1>5 DEF KeysOf
    <2>3. (MaxItems > 0 /\ rw = {}) => Cardinality(KeysOf(it)) <= MaxItems
      BY DEF Good, Limited
    <2> QED
      BY <1>0, <1>d, <2>1, <2>2, <2>3 DEF Limited
  <1>8. Good(d, t2, l2, x, rw)
    BY <1>0, <1>q, <1>3, <1>4, <1>6, <1>7 DEF Good
  <1> QED
    BY <1>7, <1>8 DEF d

\* An element whose time is no longer the entry's expiry may leave its queue.
LEMMA StaleRemoved ==
  ASSUME NEW it, NEW tq, NEW lq, NEW x, NEW rw, Good(it, tq, lq, x, rw),
         NEW i \in DOMAIN tq, tq[i][1] # x[tq[i][2]]
  PROVE  Good(it, Without(tq, i), lq, x, rw)
  <1>0. /\ it \in [Key -> Entry \cup {None}] /\ tq \in Queue /\ lq \in Queue /\ rw \subseteq Key
        /\ Limited(it, rw)
    BY DEF Good
  <1>1. PICK w : w = Without(tq, i)
    OBVIOUS
  <1>2. /\ w \in Queue
        /\ \A j \in DOMAIN w : \E m \in DOMAIN tq \ {i} : w[j] = tq[m]
        /\ \A m \in DOMAIN tq \ {i} : \E j \in DOMAIN w : w[j] = tq[m]
        /\ \A k \in Key : Single(tq, k) => Single(w, k)
    BY <1>0, <1>1, Removed
  <1>3. Covered(it, w, lq, x)
    BY <1>2 DEF Good, Covered
  <1>4. Timed(w)
    BY <1>2 DEF Good, Timed
  <1>5. Straight(it, w, lq, rw)
    <2> SUFFICES ASSUME NEW a \in Key \ rw
                 PROVE  /\ OfMap(it, w, a) /\ OfMap(it, lq, a)
                        /\ Single(w, a) /\ Single(lq, a)
                        /\ Lacks(w, a) \/ Lacks(lq, a)
      BY DEF Straight
    <2>1. /\ OfMap(it, tq, a) /\ OfMap(it, lq, a)
          /\ Single(tq, a) /\ Single(lq, a)
          /\ Lacks(tq, a) \/ Lacks(lq, a)
      BY DEF Good, Straight
    <2>2. OfMap(it, w, a)
      BY <1>2, <2>1 DEF OfMap
    <2>3. Lacks(tq, a) => Lacks(w, a)
      BY <1>2 DEF Lacks
    <2> QED
      BY <1>2, <2>1, <2>2, <2>3
  <1>6. Good(it, w, lq, x, rw)
    BY <1>0, <1>2, <1>3, <1>4, <1>5 DEF Good
  <1> QED
    BY <1>1, <1>6

\* A new entry is queued likewise, but in no queue if there is no limit.
QueuedFirst(e, tq, lq, y, t2, l2) ==
    \/ y[e] > 0 /\ y[e] \in Nat /\ t2 = Append(tq, <<y[e], e>>) /\ l2 = lq
    \/ \E n \in Nat : y[e] = 0 /\ t2 = tq /\ l2 = IF MaxItems > 0 THEN Append(lq, <<n, e>>) ELSE lq

\* A new key with its entry: it is in one queue, under its expiry, or in none
\* when it has no expiry and the bucket no limit.
LEMMA Inserted ==
  ASSUME NEW it, NEW tq, NEW lq, NEW x, NEW rw, Good(it, tq, lq, x, rw),
         NEW k \in Key, it[k] = None, NEW e \in Entry, e[1] = k,
         (MaxItems > 0 /\ rw = {}) => Cardinality(KeysOf(it)) < MaxItems,
         NEW y, SameExpiry(it, Key, x, y), NEW t2, NEW l2, QueuedFirst(e, tq, lq, y, t2, l2)
  PROVE  Good([it EXCEPT ![k] = e], t2, l2, y, rw)
  <1> DEFINE d == [it EXCEPT ![k] = e]
  <1>0. /\ it \in [Key -> Entry \cup {None}] /\ tq \in Queue /\ lq \in Queue
        /\ d \in [Key -> Entry \cup {None}] /\ rw \subseteq Key /\ MaxItems \in Nat
        /\ \A a \in Key : a # k => d[a] = it[a]
        /\ d[k] = e /\ e # None
    BY CacheAssumption DEF Good, Entry
  <1>1. KeysOf(d) = KeysOf(it) \cup {k} /\ k \notin KeysOf(it)
    BY <1>0 DEF KeysOf
  <1> HIDE DEF d
  <1>2. Limited(d, rw)
    <2>1. IsFiniteSet(KeysOf(it)) /\ Cardinality(KeysOf(it)) \in Nat
      BY FS_CardinalityType DEF Good, Limited
    <2>2. /\ IsFiniteSet(KeysOf(it) \cup {k})
          /\ Cardinality(KeysOf(it) \cup {k}) = Cardinality(KeysOf(it)) + 1
      BY <1>1, <2>1, FS_AddElement
    <2> QED
      BY <1>0, <1>1, <2>1, <2>2 DEF Limited
  <1>a. PICK z : z = y[e]
    OBVIOUS
  <1>n. PICK n \in Nat : \/ z > 0 /\ z \in Nat /\ t2 = Append(tq, <<z, e>>) /\ l2 = lq
                         \/ z = 0 /\ t2 = tq /\ l2 = IF MaxItems > 0 THEN Append(lq, <<n, e>>) ELSE lq
    BY <1>a DEF QueuedFirst
  <1>b. \/ /\ z > 0 /\ t2 \in Queue /\ l2 = lq /\ t2[Len(tq) + 1] = <<z, e>>
           /\ DOMAIN t2 = DOMAIN tq \cup {Len(tq) + 1} /\ \A i \in DOMAIN tq : t2[i] = tq[i]
        \/ /\ z = 0 /\ t2 = tq /\ MaxItems > 0 /\ l2 \in Queue /\ l2[Len(lq) + 1] = <<n, e>>
           /\ DOMAIN l2 = DOMAIN lq \cup {Len(lq) + 1} /\ \A i \in DOMAIN lq : l2[i] = lq[i]
        \/ z = 0 /\ t2 = tq /\ l2 = lq /\ MaxItems = 0
    <2>1. CASE z > 0 /\ z \in Nat /\ t2 = Append(tq, <<z, e>>) /\ l2 = lq
      BY <1>0, <2>1, Appended
    <2>2. CASE z = 0 /\ t2 = tq /\ MaxItems > 0 /\ l2 = Append(lq, <<n, e>>)
      BY <1>0, <2>2, Appended
    <2> QED
      BY <1>0, <1>n, <2>1, <2>2
  <1>3. /\ t2 \in Queue /\ l2 \in Queue
        /\ \A i \in DOMAIN tq : i \in DOMAIN t2 /\ t2[i] = tq[i]
        /\ \A i \in DOMAIN lq : i \in DOMAIN l2 /\ l2[i] = lq[i]
    BY <1>0, <1>b
  <1>4. /\ \A i \in DOMAIN t2 : (i \in DOMAIN tq /\ t2[i] = tq[i]) \/ (i = Len(tq) + 1 /\ t2[i] = <<y[e], e>> /\ y[e] > 0)
        /\ \A i \in DOMAIN l2 : (i \in DOMAIN lq /\ l2[i] = lq[i]) \/ (i = Len(lq) + 1 /\ l2[i] = <<n, e>> /\ y[e] = 0)
    BY <1>a, <1>b
  <1>5. /\ y[e] > 0 => Len(tq) + 1 \in DOMAIN t2 /\ t2[Len(tq) + 1] = <<y[e], e>>
        /\ (y[e] = 0 /\ MaxItems > 0) => Len(lq) + 1 \in DOMAIN l2 /\ l2[Len(lq) + 1] = <<n, e>>
    BY <1>0, <1>a, <1>b
  <1>6. Timed(t2)
    BY <1>4 DEF Good, Timed
  <1>7. Covered(d, t2, l2, y)
    <2> SUFFICES ASSUME NEW a \in Key, d[a] # None
                 PROVE  /\ d[a][1] = a
                        /\ y[d[a]] > 0 => \E i \in DOMAIN t2 : t2[i][2] = d[a] /\ t2[i][1] = y[d[a]]
                        /\ (y[d[a]] = 0 /\ MaxItems > 0) => \E i \in DOMAIN l2 : l2[i][2] = d[a]
      BY DEF Covered
    <2>1. CASE a = k
      BY <1>0, <1>5, <2>1
    <2>2. CASE a # k
      <3>1. d[a] = it[a] /\ y[it[a]] = x[it[a]]
        BY <1>0, <2>2 DEF SameExpiry
      <3>2. /\ it[a][1] = a
            /\ x[it[a]] > 0 => \E i \in DOMAIN tq : tq[i][2] = it[a] /\ tq[i][1] = x[it[a]]
            /\ (x[it[a]] = 0 /\ MaxItems > 0) => \E i \in DOMAIN lq : lq[i][2] = it[a]
        BY <3>1 DEF Good, Covered
      <3> QED
        BY <1>3, <3>1, <3>2
    <2> QED
      BY <2>1, <2>2
  <1>8. Straight(d, t2, l2, rw)
    <2> SUFFICES ASSUME NEW a \in Key \ rw
                 PROVE  /\ OfMap(d, t2, a) /\ OfMap(d, l2, a)
                        /\ Single(t2, a) /\ Single(l2, a)
                        /\ Lacks(t2, a) \/ Lacks(l2, a)
      BY DEF Straight
    <2>1. /\ OfMap(it, tq, a) /\ OfMap(it, lq, a)
          /\ Single(tq, a) /\ Single(lq, a)
          /\ Lacks(tq, a) \/ Lacks(lq, a)
      BY DEF Good, Straight
    <2>2. <<y[e], e>>[2] = e /\ <<n, e>>[2] = e
      OBVIOUS
    <2>3. CASE a # k
      <3>1. /\ \A i \in DOMAIN t2 : t2[i][2][1] = a => i \in DOMAIN tq /\ t2[i] = tq[i]
            /\ \A i \in DOMAIN l2 : l2[i][2][1] = a => i \in DOMAIN lq /\ l2[i] = lq[i]
        BY <1>4, <2>2, <2>3
      <3>2. OfMap(d, t2, a) /\ OfMap(d, l2, a)
        BY <1>0, <2>1, <2>3, <3>1 DEF OfMap
      <3>3. Single(t2, a) /\ Single(l2, a)
        BY <2>1, <3>1 DEF Single
      <3>4. Lacks(t2, a) \/ Lacks(l2, a)
        BY <2>1, <3>1 DEF Lacks
      <3> QED
        BY <3>2, <3>3, <3>4
    <2>4. CASE a = k
      <3>1. Lacks(tq, k) /\ Lacks(lq, k)
        BY <1>0, <2>1, <2>4, QueueTypes DEF OfMap, Lacks
      <3>2. /\ \A i \in DOMAIN t2 : t2[i][2][1] = k => i = Len(tq) + 1 /\ t2[i][2] = e /\ y[e] > 0
            /\ \A i \in DOMAIN l2 : l2[i][2][1] = k => i = Len(lq) + 1 /\ l2[i][2] = e /\ y[e] = 0
        BY <1>4, <2>2, <3>1 DEF Lacks
      <3>3. OfMap(d, t2, a) /\ OfMap(d, l2, a)
        BY <1>0, <2>4, <3>2 DEF OfMap
      <3>4. Single(t2, a) /\ Single(l2, a)
        BY <2>4, <3>2 DEF Single
      <3>5. Lacks(t2, a) \/ Lacks(l2, a)
        BY <2>4, <3>2 DEF Lacks
      <3> QED
        BY <3>3, <3>4, <3>5
    <2> QED
      BY <2>3, <2>4
  <1>9. Good(d, t2, l2, y, rw)
    BY <1>0, <1>2, <1>3, <1>6, <1>7, <1>8 DEF Good
  <1> QED
    BY <1>9 DEF d

\* Entry e is put into one queue or the other according to its expiry y[e].
QueuedAgain(e, tq, lq, y, t2, l2) ==
    \/ y[e] > 0 /\ y[e] \in Nat /\ t2 = Append(tq, <<y[e], e>>) /\ l2 = lq
    \/ \E n \in Nat : y[e] = 0 /\ t2 = tq /\ l2 = Append(lq, <<n, e>>)

\* A key that is set again gets another place in a queue, and one that is deleted
\* leaves its places behind; from then on the queues say nothing about it.
LEMMA Rewritten ==
  ASSUME NEW it, NEW tq, NEW lq, NEW x, NEW rw, Good(it, tq, lq, x, rw),
         NEW k \in Key, it[k] # None, NEW y, SameExpiry(it, Key \ {k}, x, y), NEW t2, NEW l2,
         QueuedAgain(it[k], tq, lq, y, t2, l2)
  PROVE  Good(it, t2, l2, y, rw \cup {k})
  <1>1. PICK e : e = it[k]
    OBVIOUS
  <1>0. /\ it \in [Key -> Entry \cup {None}] /\ tq \in Queue /\ lq \in Queue
        /\ rw \subseteq Key /\ MaxItems \in Nat /\ e \in Entry /\ e[1] = k
    BY <1>1, CacheAssumption DEF Good, Covered
  <1>a. PICK z : z = y[e]
    OBVIOUS
  <1>n. PICK n \in Nat : \/ z > 0 /\ z \in Nat /\ t2 = Append(tq, <<z, e>>) /\ l2 = lq
                         \/ z = 0 /\ t2 = tq /\ l2 = Append(lq, <<n, e>>)
    BY <1>1, <1>a DEF QueuedAgain
  <1>b. \/ /\ z > 0 /\ t2 \in Queue /\ l2 = lq /\ t2[Len(tq) + 1] = <<z, e>>
           /\ DOMAIN t2 = DOMAIN tq \cup {Len(tq) + 1} /\ \A i \in DOMAIN tq : t2[i] = tq[i]
        \/ /\ z = 0 /\ t2 = tq /\ l2 \in Queue /\ l2[Len(lq) + 1] = <<n, e>>
           /\ DOMAIN l2 = DOMAIN lq \cup {Len(lq) + 1} /\ \A i \in DOMAIN lq : l2[i] = lq[i]
    <2>1. CASE z > 0 /\ z \in Nat /\ t2 = Append(tq, <<z, e>>) /\ l2 = lq
      BY <1>0, <2>1, Appended
    <2>2. CASE z = 0 /\ t2 = tq /\ l2 = Append(lq, <<n, e>>)
      BY <1>0, <2>2, Appended
    <2> QED
      BY <1>0, <1>n, <2>1, <2>2
  <1>3. /\ t2 \in Queue /\ l2 \in Queue
        /\ \A i \in DOMAIN tq : i \in DOMAIN t2 /\ t2[i] = tq[i]
        /\ \A i \in DOMAIN lq : i \in DOMAIN l2 /\ l2[i] = lq[i]
    BY <1>0, <1>b
  <1>4. /\ \A i \in DOMAIN t2 : (i \in DOMAIN tq /\ t2[i] = tq[i]) \/ (i = Len(tq) + 1 /\ t2[i] = <<y[e], e>> /\ y[e] > 0)
        /\ \A i \in DOMAIN l2 : (i \in DOMAIN lq /\ l2[i] = lq[i]) \/ (i = Len(lq) + 1 /\ l2[i] = <<n, e>> /\ y[e] = 0)
    BY <1>a, <1>b
  <1>5. /\ y[e] > 0 => Len(tq) + 1 \in DOMAIN t2 /\ t2[Len(tq) + 1] = <<y[e], e>>
        /\ y[e] = 0 => Len(lq) + 1 \in DOMAIN l2 /\ l2[Len(lq) + 1] = <<n, e>>
    BY <1>0, <1>a, <1>b
  <1>6. Timed(t2)
    BY <1>4 DEF Good, Timed
  <1>7. Covered(it, t2, l2, y)
    <2> SUFFICES ASSUME NEW a \in Key, it[a] # None
                 PROVE  /\ it[a][1] = a
                        /\ y[it[a]] > 0 => \E i \in DOMAIN t2 : t2[i][2] = it[a] /\ t2[i][1] = y[it[a]]
                        /\ (y[it[a]] = 0 /\ MaxItems > 0) => \E i \in DOMAIN l2 : l2[i][2] = it[a]
      BY DEF Covered
    <2>1. CASE a = k
      BY <1>0, <1>1, <1>5, <2>1
    <2>2. CASE a # k
      <3>1. y[it[a]] = x[it[a]]
        BY <2>2 DEF SameExpiry
      <3>2. /\ it[a][1] = a
            /\ x[it[a]] > 0 => \E i \in DOMAIN tq : tq[i][2] = it[a] /\ tq[i][1] = x[it[a]]
            /\ (x[it[a]] = 0 /\ MaxItems > 0) => \E i \in DOMAIN lq : lq[i][2] = it[a]
        BY DEF Good, Covered
      <3> QED
        BY <1>3, <3>1, <3>2
    <2> QED
      BY <2>1, <2>2
  <1>8. Straight(it, t2, l2, rw \cup {k})
    <2> SUFFICES ASSUME NEW a \in Key \ (rw \cup {k})
                 PROVE  /\ OfMap(it, t2, a) /\ OfMap(it, l2, a)
                        /\ Single(t2, a) /\ Single(l2, a)
                        /\ Lacks(t2, a) \/ Lacks(l2, a)
      BY DEF Straight
    <2>1. /\ OfMap(it, tq, a) /\ OfMap(it, lq, a)
          /\ Single(tq, a) /\ Single(lq, a)
          /\ Lacks(tq, a) \/ Lacks(lq, a)
      BY DEF Good, Straight
    <2>2. <<y[e], e>>[2] = e /\ <<n, e>>[2] = e /\ a # k
      OBVIOUS
    <2>3. /\ \A i \in DOMAIN t2 : t2[i][2][1] = a => i \in DOMAIN tq /\ t2[i] = tq[i]
          /\ \A i \in DOMAIN l2 : l2[i][2][1] = a => i \in DOMAIN lq /\ l2[i] = lq[i]
      BY <1>0, <1>4, <2>2
    <2>4. OfMap(it, t2, a) /\ OfMap(it, l2, a)
      BY <2>1, <2>3 DEF OfMap
    <2>5. Single(t2, a) /\ Single(l2, a)
      BY <2>1, <2>3 DEF Single
    <2>6. Lacks(t2, a) \/ Lacks(l2, a)
      BY <2>1, <2>3 DEF Lacks
    <2> QED
      BY <2>4, <2>5, <2>6
  <1>9. Limited(it, rw \cup {k})
    BY DEF Good, Limited
  <1> QED
    BY <1>0, <1>3, <1>6, <1>7, <1>8, <1>9 DEF Good

LEMMA Deleted ==
  ASSUME NEW it, NEW tq, NEW lq, NEW x, NEW rw, Good(it, tq, lq, x, rw), NEW k \in Key
  PROVE  Good([it EXCEPT ![k] = None], tq, lq, x, rw \cup {k})
  <1> DEFINE d == [it EXCEPT ![k] = None]
  <1>0. /\ it \in [Key -> Entry \cup {None}] /\ tq \in Queue /\ lq \in Queue
        /\ d \in [Key -> Entry \cup {None}] /\ rw \subseteq Key /\ Timed(tq)
        /\ \A a \in Key : a # k => d[a] = it[a]
        /\ d[k] = None
    BY DEF Good
  <1>1. Limited(d, rw \cup {k})
    BY <1>0, KeyDropped DEF Good, Limited
  <1> HIDE DEF d
  <1>2. Covered(d, tq, lq, x)
    BY <1>0 DEF Good, Covered
  <1>3. Straight(d, tq, lq, rw \cup {k})
    BY <1>0 DEF Good, Straight, OfMap
  <1>4. Good(d, tq, lq, x, rw \cup {k})
    BY <1>0, <1>1, <1>2, <1>3 DEF Good
  <1> QED
    BY <1>4 DEF d

-----------------------------------------------------------------------------
(* The buckets *)

Stored ==
    /\ buckets \subseteq Bucket
    /\ items \in [Bucket -> [Key -> Entry \cup {None}]] /\ exp \in [Entry -> Nat]
    /\ ttlQueue \in [Bucket -> Queue] /\ limitQueue \in [Bucket -> Queue]
    /\ rewritten \in [Bucket -> SUBSET Key]

\* No entry is in two buckets.
Own ==
    \A b, c \in Bucket : \A k, l \in Key :
        (b # c /\ items[b][k] # None) => items[b][k] # items[c][l]

AllGood == \A b \in Bucket : Good(items[b], ttlQueue[b], limitQueue[b], exp, rewritten[b])

BInv == Stored /\ Own /\ AllGood

LEMMA EmptyBucket ==
  ASSUME NEW x
  PROVE  Good([k \in Key |-> None], <<>>, <<>>, x, {})
  <1>1. KeysOf([k \in Key |-> None]) = {}
    BY DEF KeysOf
  <1>2. Limited([k \in Key |-> None], {})
    <2>1. IsFiniteSet({}) /\ Cardinality({}) = 0
      BY FS_EmptySet
    <2>2. PICK m : m = [k \in Key |-> None]
      OBVIOUS
    <2>3. IsFiniteSet(KeysOf(m)) /\ Cardinality(KeysOf(m)) = 0 /\ MaxItems \in Nat
      BY <1>1, <2>1, <2>2, CacheAssumption
    <2>4. Limited(m, {})
      BY <2>3 DEF Limited
    <2> QED
      BY <2>2, <2>4
  <1>3. <<>> \in Queue
    BY DEF Queue
  <1>4. Covered([k \in Key |-> None], <<>>, <<>>, x) /\ Timed(<<>>)
    BY DEF Covered, Timed
  <1>5. Straight([k \in Key |-> None], <<>>, <<>>, {})
    BY DEF Straight, OfMap, Single, Lacks
  <1> QED
    BY <1>2, <1>3, <1>4, <1>5 DEF Good

LEMMA InitBuckets == Init => BInv
  <1> SUFFICES ASSUME Init PROVE BInv
    OBVIOUS
  <1>1. <<>> \in Queue
    BY DEF Queue
  <1>2. Stored
    BY <1>1 DEF Init, Stored
  <1>3. Own
    BY DEF Init, Own
  <1>4. AllGood
    <2> SUFFICES ASSUME NEW b \in Bucket
                 PROVE  Good(items[b], ttlQueue[b], limitQueue[b], exp, rewritten[b])
      BY DEF AllGood
    <2>1. items[b] = [k \in Key |-> None] /\ ttlQueue[b] = <<>> /\ limitQueue[b] = <<>> /\ rewritten[b] = {}
      BY DEF Init
    <2> QED
      BY <2>1, EmptyBucket
  <1> QED
    BY <1>2, <1>3, <1>4 DEF BInv

LEMMA ClearKeeps ==
  ASSUME BInv, Clear
  PROVE  BInv'
  <1>1. <<>> \in Queue
    BY DEF Queue
  <1>2. Stored'
    BY <1>1 DEF BInv, Clear, Stored
  <1>3. Own'
    BY DEF Clear, Own
  <1>4. AllGood'
    <2> SUFFICES ASSUME NEW b \in Bucket
                 PROVE  Good(items'[b], ttlQueue'[b], limitQueue'[b], exp', rewritten'[b])
      BY DEF AllGood
    <2>1. /\ items'[b] = [k \in Key |-> None] /\ ttlQueue'[b] = <<>> /\ limitQueue'[b] = <<>>
          /\ rewritten'[b] = {}
      BY DEF Clear
    <2> QED
      BY <2>1, EmptyBucket
  <1> QED
    BY <1>2, <1>3, <1>4 DEF BInv

\* The entries of map it are in no other bucket than b, and those of the others
\* expire as before.
Apart(b, it) ==
    \A k \in Key : it[k] # None => \A c \in Bucket \ {b}, l \in Key : it[k] # items[c][l]
OthersExpireAsBefore(b) == \A c \in Bucket \ {b} : SameExpiry(items[c], Key, exp, exp')

\* A step on bucket b, after which the map of b has no entry but its old ones
\* and perhaps one that no other bucket has; the expiries of what other
\* buckets hold are kept.
LEMMA OneBucket ==
  ASSUME BInv, NEW b \in Bucket, NEW it \in [Key -> Entry \cup {None}], NEW tq \in Queue,
         NEW lq \in Queue, NEW rw \in SUBSET Key,
         buckets' = buckets,
         items' = [items EXCEPT ![b] = it], ttlQueue' = [ttlQueue EXCEPT ![b] = tq],
         limitQueue' = [limitQueue EXCEPT ![b] = lq], rewritten' = [rewritten EXCEPT ![b] = rw],
         exp' \in [Entry -> Nat],
         Apart(b, it), OthersExpireAsBefore(b),
         Good(it, tq, lq, exp', rw)
  PROVE  BInv'
  <1> USE DEF Apart, OthersExpireAsBefore
  <1>0. /\ items \in [Bucket -> [Key -> Entry \cup {None}]]
        /\ ttlQueue \in [Bucket -> Queue] /\ limitQueue \in [Bucket -> Queue]
        /\ rewritten \in [Bucket -> SUBSET Key]
    BY DEF BInv, Stored
  <1>1. Stored'
    BY <1>0 DEF BInv, Stored
  <1>2. /\ items'[b] = it /\ ttlQueue'[b] = tq /\ limitQueue'[b] = lq /\ rewritten'[b] = rw
        /\ \A c \in Bucket \ {b} : /\ items'[c] = items[c] /\ ttlQueue'[c] = ttlQueue[c]
                                   /\ limitQueue'[c] = limitQueue[c] /\ rewritten'[c] = rewritten[c]
    BY <1>0
  <1>3. Own'
    <2> SUFFICES ASSUME NEW c \in Bucket, NEW d \in Bucket, NEW k \in Key, NEW l \in Key,
                        c # d, items'[c][k] # None
                 PROVE  items'[c][k] # items'[d][l]
      BY DEF Own
    <2>1. CASE c = b
      BY <1>2, <2>1
    <2>2. CASE d = b
      <3>1. items'[c][k] = items[c][k] /\ items'[d][l] = it[l] /\ c # b
        BY <1>2, <2>2
      <3>2. it[l] # None => it[l] # items[c][k]
        BY <3>1
      <3> QED
        BY <3>1, <3>2
    <2>3. CASE c # b /\ d # b
      BY <1>2, <2>3 DEF BInv, Own
    <2> QED
      BY <2>1, <2>2, <2>3
  <1>4. AllGood'
    <2> SUFFICES ASSUME NEW c \in Bucket
                 PROVE  Good(items'[c], ttlQueue'[c], limitQueue'[c], exp', rewritten'[c])
      BY DEF AllGood
    <2>1. CASE c = b
      BY <1>2, <2>1
    <2>2. CASE c # b
      <3>1. Good(items[c], ttlQueue[c], limitQueue[c], exp, rewritten[c])
        BY DEF BInv, AllGood
      <3>2. SameExpiry(items[c], Key, exp, exp')
        BY <2>2
      <3>3. Good(items[c], ttlQueue[c], limitQueue[c], exp', rewritten[c])
        BY <3>1, <3>2, ExpiriesOfMap
      <3> QED
        BY <1>2, <2>2, <3>3
    <2> QED
      BY <2>1, <2>2
  <1> QED
    BY <1>1, <1>3, <1>4 DEF BInv

\* What nothing refers to is in no map, and Forgetting leaves the expiry of what
\* some map still has.
LEMMA Referring ==
  /\ \A b \in Bucket, k \in Key : items[b][k] \in Referenced
  /\ \A b \in Bucket, k \in Key : items'[b][k] \in Referenced'
  BY DEF Referenced

LEMMA Forgotten ==
  ASSUME NEW x \in [Entry -> Nat], Forgetting(x)
  PROVE  /\ exp' \in [Entry -> Nat]
         /\ \A b \in Bucket, k \in Key :
               (items'[b][k] \in Entry) => exp'[items'[b][k]] = x[items'[b][k]]
  <1>1. exp' = [e \in Entry |-> IF e \in Referenced' THEN x[e] ELSE 0]
    BY DEF Forgetting
  <1> QED
    BY <1>1, Referring

LEMMA OverwriteKeeps ==
  ASSUME BInv, now \in Nat, NEW b \in Bucket, NEW k \in Key, NEW ttl \in Nat,
         items[b][k] # None, Overwrite(b, k, ttl), buckets' = buckets
  PROVE  BInv'
  <1>1. PICK e, v, it : e = items[b][k] /\ v = (IF ttl > 0 THEN now + ttl ELSE 0) /\ it = items[b]
    OBVIOUS
  <1>2. PICK t2, l2 : t2 = ttlQueue'[b] /\ l2 = limitQueue'[b]
    OBVIOUS
  <1>3. /\ items \in [Bucket -> [Key -> Entry \cup {None}]] /\ exp \in [Entry -> Nat]
        /\ ttlQueue \in [Bucket -> Queue] /\ limitQueue \in [Bucket -> Queue]
        /\ rewritten \in [Bucket -> SUBSET Key] /\ Good(it, ttlQueue[b], limitQueue[b], exp, rewritten[b])
        /\ Own
    BY <1>1 DEF BInv, Stored, AllGood
  <1>4. /\ it \in [Key -> Entry \cup {None}] /\ e \in Entry /\ e = it[k] /\ it[k] # None /\ e[1] = k
        /\ \A a \in Key : it[a] # None => it[a][1] = a
    BY <1>1, <1>3 DEF Good, Covered
  <1>5. v \in Nat
    BY <1>1
  <1>6. /\ exp' = [exp EXCEPT ![e] = v] /\ items' = items
        /\ rewritten' = [rewritten EXCEPT ![b] = rewritten[b] \cup {k}]
        /\ \/ /\ v > 0 /\ ttlQueue' = [ttlQueue EXCEPT ![b] = Append(ttlQueue[b], <<v, e>>)]
              /\ limitQueue' = limitQueue
           \/ /\ v = 0 /\ limitQueue' = [limitQueue EXCEPT ![b] = Append(limitQueue[b], <<now, e>>)]
              /\ ttlQueue' = ttlQueue
    <2>1. CASE ttl > 0
      BY <1>1, <2>1 DEF Overwrite
    <2>2. CASE ~(ttl > 0)
      BY <1>1, <2>2 DEF Overwrite
    <2> QED
      BY <2>1, <2>2
  <1>7. /\ exp' \in [Entry -> Nat] /\ exp'[e] = v /\ \A f \in Entry : f # e => exp'[f] = exp[f]
    BY <1>3, <1>4, <1>5, <1>6
  <1>8. SameExpiry(it, Key \ {k}, exp, exp')
    BY <1>4, <1>7 DEF SameExpiry
  <1>9. QueuedAgain(it[k], ttlQueue[b], limitQueue[b], exp', t2, l2)
    BY <1>2, <1>3, <1>4, <1>5, <1>6, <1>7 DEF QueuedAgain
  <1>10. PICK rw : rw = rewritten[b] \cup {k}
    OBVIOUS
  <1>11. Good(it, t2, l2, exp', rw)
    BY <1>3, <1>4, <1>8, <1>9, <1>10, Rewritten
  <1>12. t2 \in Queue /\ l2 \in Queue /\ rw \in SUBSET Key
    BY <1>11 DEF Good
  <1>13. /\ items' = [items EXCEPT ![b] = it] /\ rewritten' = [rewritten EXCEPT ![b] = rw]
         /\ ttlQueue' = [ttlQueue EXCEPT ![b] = t2] /\ limitQueue' = [limitQueue EXCEPT ![b] = l2]
    BY <1>1, <1>2, <1>3, <1>6, <1>10
  <1>14. \A a \in Key : it[a] # None => \A c \in Bucket \ {b}, l \in Key : it[a] # items[c][l]
    BY <1>1, <1>3 DEF Own
  <1>15. \A c \in Bucket \ {b} : SameExpiry(items[c], Key, exp, exp')
    <2> SUFFICES ASSUME NEW c \in Bucket \ {b}, NEW l \in Key, items[c][l] # None
                 PROVE  exp'[items[c][l]] = exp[items[c][l]]
      BY DEF SameExpiry
    <2>1. items[c][l] \in Entry /\ items[c][l] # e
      BY <1>3, <1>4, <1>14
    <2> QED
      BY <1>7, <2>1
  <1>16. Apart(b, it) /\ OthersExpireAsBefore(b)
    BY <1>14, <1>15 DEF Apart, OthersExpireAsBefore
  <1> QED
    BY <1>4, <1>7, <1>11, <1>12, <1>13, <1>16, OneBucket

\* A way to make room keeps the bucket in order, and makes room if need be.
LEMMA RoomMade ==
  ASSUME BInv, NEW b \in Bucket, NEW w \in Ways(b)
  PROVE  /\ Good(w[3], w[1], w[2], exp, rewritten[b])
         /\ (MaxItems > 0 /\ rewritten[b] = {}) => Cardinality(KeysOf(w[3])) < MaxItems
         /\ \A a \in Key : w[3][a] # None => w[3][a] = items[b][a]
  <1>0. PICK it, tq, lq : it = items[b] /\ tq = ttlQueue[b] /\ lq = limitQueue[b]
    OBVIOUS
  <1>1. /\ Good(it, tq, lq, exp, rewritten[b]) /\ it \in [Key -> Entry \cup {None}]
        /\ tq \in Queue /\ lq \in Queue
    BY <1>0 DEF BInv, AllGood, Good
  <1>2. CASE ~Full(b)
    <2>1. w[1] = tq /\ w[2] = lq /\ w[3] = it
      BY <1>0, <1>2 DEF Ways
    <2>2. Present(b) = KeysOf(it)
      BY <1>0 DEF Present, KeysOf
    <2>3. Cardinality(KeysOf(it)) \in Nat /\ MaxItems \in Nat
      BY <1>1, FS_CardinalityType, CacheAssumption DEF Good, Limited
    <2>4. MaxItems > 0 => Cardinality(KeysOf(it)) < MaxItems
      BY <1>2, <2>2, <2>3 DEF Full
    <2> QED
      BY <1>0, <1>1, <2>1, <2>4
  <1>3. CASE Full(b)
    <2>1. \/ \E i \in DOMAIN tq : w[1] = Without(tq, i) /\ w[2] = lq /\ w[3] = [it EXCEPT ![tq[i][2][1]] = None]
          \/ \E i \in DOMAIN lq : w[1] = tq /\ w[2] = Without(lq, i) /\ w[3] = [it EXCEPT ![lq[i][2][1]] = None]
      BY <1>0, <1>3 DEF Ways, Heads, Drop
    <2>2. PICK k \in Key : w[3] = [it EXCEPT ![k] = None] /\ Leaves(tq, lq, k, w[1], w[2])
      BY <1>1, <2>1, QueueTypes DEF Leaves
    <2>3. PICK t2, l2 : t2 = w[1] /\ l2 = w[2]
      OBVIOUS
    <2>4. Leaves(tq, lq, k, t2, l2)
      BY <2>2, <2>3
    <2>5. /\ Good([it EXCEPT ![k] = None], t2, l2, exp, rewritten[b])
          /\ (MaxItems > 0 /\ rewritten[b] = {}) => Cardinality(KeysOf([it EXCEPT ![k] = None])) < MaxItems
      BY <1>1, <2>4, Evicted
    <2>6. \A a \in Key : [it EXCEPT ![k] = None][a] # None => [it EXCEPT ![k] = None][a] = it[a]
      BY <1>1
    <2> QED
      BY <1>0, <2>2, <2>3, <2>5, <2>6
  <1> QED
    BY <1>2, <1>3

LEMMA AddKeeps ==
  ASSUME BInv, now \in Nat, NEW b \in Bucket, NEW k \in Key, NEW ttl \in Nat,
         items[b][k] = None, Add(b, k, ttl), buckets' = buckets
  PROVE  BInv'
  <1>1. PICK e, v : /\ e = CHOOSE c \in ({k} \X Copies) \ Referenced : TRUE
                    /\ v = IF ttl > 0 THEN now + ttl ELSE 0
    OBVIOUS
  <1>2. e \in ({k} \X Copies) \ Referenced
    BY <1>1 DEF Add
  <1>3. e \in Entry /\ e[1] = k /\ v \in Nat /\ \A c \in Bucket, l \in Key : items[c][l] # e
    BY <1>1, <1>2, Referring DEF Entry
  <1>4. PICK w \in Ways(b) :
          /\ ttlQueue' = [ttlQueue EXCEPT ![b] = IF v > 0 THEN Append(w[1], <<v, e>>) ELSE w[1]]
          /\ limitQueue' = [limitQueue EXCEPT ![b] =
                              IF v = 0 /\ MaxItems > 0 THEN Append(w[2], <<now, e>>) ELSE w[2]]
          /\ items' = [items EXCEPT ![b] = [w[3] EXCEPT ![k] = e]]
    <2>1. PICK w \in Ways(b) :
            /\ ttlQueue' = [ttlQueue EXCEPT ![b] = IF ttl > 0 THEN Append(w[1], <<now + ttl, e>>) ELSE w[1]]
            /\ limitQueue' = [limitQueue EXCEPT ![b] =
                                IF ttl = 0 /\ MaxItems > 0 THEN Append(w[2], <<now, e>>) ELSE w[2]]
            /\ items' = [items EXCEPT ![b] = [w[3] EXCEPT ![k] = e]]
      BY <1>1 DEF Add
    <2>2. (ttl > 0) <=> (v > 0)
      BY <1>1
    <2>3. (ttl = 0) <=> (v = 0)
      BY <1>1
    <2>4. ttl > 0 => v = now + ttl
      BY <1>1
    <2> QED
      BY <2>1, <2>2, <2>3, <2>4
  <1>5. PICK it, tq, lq : it = w[3] /\ tq = w[1] /\ lq = w[2]
    OBVIOUS
  <1>6. PICK t2, l2, i2 : /\ t2 = IF v > 0 THEN Append(tq, <<v, e>>) ELSE tq
                          /\ l2 = IF v = 0 /\ MaxItems > 0 THEN Append(lq, <<now, e>>) ELSE lq
                          /\ i2 = [it EXCEPT ![k] = e]
    OBVIOUS
  <1>7. /\ ttlQueue' = [ttlQueue EXCEPT ![b] = t2] /\ limitQueue' = [limitQueue EXCEPT ![b] = l2]
        /\ items' = [items EXCEPT ![b] = i2]
    BY <1>4, <1>5, <1>6
  <1>8. /\ Good(it, tq, lq, exp, rewritten[b])
        /\ (MaxItems > 0 /\ rewritten[b] = {}) => Cardinality(KeysOf(it)) < MaxItems
        /\ \A a \in Key : it[a] # None => it[a] = items[b][a]
    BY <1>5, RoomMade
  <1>9. /\ items \in [Bucket -> [Key -> Entry \cup {None}]] /\ exp \in [Entry -> Nat]
        /\ rewritten \in [Bucket -> SUBSET Key] /\ it \in [Key -> Entry \cup {None}]
    BY <1>8 DEF BInv, Stored, Good
  <1>10. /\ i2 \in [Key -> Entry \cup {None}] /\ i2[k] = e /\ it[k] = None /\ items'[b] = i2
         /\ \A a \in Key : a # k => i2[a] = it[a]
         /\ \A c \in Bucket \ {b} : items'[c] = items[c]
    BY <1>3, <1>6, <1>7, <1>8, <1>9
  <1>11. PICK X : X = [exp EXCEPT ![e] = v]
    OBVIOUS
  <1>12. X \in [Entry -> Nat] /\ X[e] = v /\ \A f \in Entry : f # e => X[f] = exp[f]
    BY <1>3, <1>9, <1>11
  <1>13. Forgetting(X) /\ rewritten' = rewritten
    BY <1>1, <1>11 DEF Add
  <1>14. /\ exp' \in [Entry -> Nat]
         /\ \A c \in Bucket, l \in Key : (items'[c][l] \in Entry) => exp'[items'[c][l]] = X[items'[c][l]]
    BY <1>12, <1>13, Forgotten
  <1>15. exp'[e] = v
    BY <1>3, <1>10, <1>12, <1>14
  <1>16. SameExpiry(it, Key, exp, exp')
    <2> SUFFICES ASSUME NEW a \in Key, it[a] # None PROVE exp'[it[a]] = exp[it[a]]
      BY DEF SameExpiry
    <2>1. a # k /\ it[a] \in Entry /\ it[a] = items'[b][a] /\ it[a] # e
      BY <1>3, <1>8, <1>9, <1>10
    <2> QED
      BY <1>12, <1>14, <2>1
  <1>17. \A c \in Bucket \ {b} : SameExpiry(items[c], Key, exp, exp')
    <2> SUFFICES ASSUME NEW c \in Bucket \ {b}, NEW a \in Key, items[c][a] # None
                 PROVE  exp'[items[c][a]] = exp[items[c][a]]
      BY DEF SameExpiry
    <2>1. items[c][a] \in Entry /\ items[c][a] = items'[c][a] /\ items[c][a] # e
      BY <1>3, <1>9, <1>10
    <2> QED
      BY <1>12, <1>14, <2>1
  <1>18. QueuedFirst(e, tq, lq, exp', t2, l2)
    <2>1. CASE v > 0
      <3>1. t2 = Append(tq, <<exp'[e], e>>) /\ l2 = lq /\ exp'[e] > 0 /\ exp'[e] \in Nat
        BY <1>3, <1>6, <1>15, <2>1
      <3> QED
        BY <3>1 DEF QueuedFirst
    <2>2. CASE v = 0
      <3>1. /\ t2 = tq /\ l2 = (IF MaxItems > 0 THEN Append(lq, <<now, e>>) ELSE lq)
            /\ exp'[e] = 0
        BY <1>6, <1>15, <2>2
      <3> QED
        BY <3>1 DEF QueuedFirst
    <2> QED
      BY <1>3, <2>1, <2>2
  <1>19. Good(i2, t2, l2, exp', rewritten[b])
    <2>1. Good([it EXCEPT ![k] = e], t2, l2, exp', rewritten[b])
      BY <1>3, <1>8, <1>10, <1>16, <1>18, Inserted
    <2> QED
      BY <1>6, <2>1
  <1>20. t2 \in Queue /\ l2 \in Queue /\ rewritten[b] \in SUBSET Key /\ rewritten' = [rewritten EXCEPT ![b] = rewritten[b]]
    BY <1>9, <1>13, <1>19 DEF Good
  <1>21. \A a \in Key : i2[a] # None => \A c \in Bucket \ {b}, l \in Key : i2[a] # items[c][l]
    <2> SUFFICES ASSUME NEW a \in Key, i2[a] # None, NEW c \in Bucket \ {b}, NEW l \in Key
                 PROVE  i2[a] # items[c][l]
      OBVIOUS
    <2>1. CASE a = k
      BY <1>3, <1>10, <2>1
    <2>2. CASE a # k
      BY <1>8, <1>10, <2>2 DEF BInv, Own
    <2> QED
      BY <2>1, <2>2
  <1>22. Apart(b, i2) /\ OthersExpireAsBefore(b)
    BY <1>17, <1>21 DEF Apart, OthersExpireAsBefore
  <1> QED
    BY <1>7, <1>10, <1>14, <1>19, <1>20, <1>22, OneBucket

\* What goes out of a map disturbs no other bucket.
LEMMA MapShrinks ==
  ASSUME BInv, NEW b \in Bucket, NEW it \in [Key -> Entry \cup {None}], NEW tq, NEW rw,
         buckets' = buckets, UNCHANGED limitQueue,
         items' = [items EXCEPT ![b] = it], ttlQueue' = [ttlQueue EXCEPT ![b] = tq],
         rewritten' = [rewritten EXCEPT ![b] = rw], Forgetting(exp),
         \A a \in Key : it[a] \in {items[b][a], None},
         Good(it, tq, limitQueue[b], exp, rw)
  PROVE  BInv'
  <1>1. /\ items \in [Bucket -> [Key -> Entry \cup {None}]] /\ exp \in [Entry -> Nat]
        /\ limitQueue \in [Bucket -> Queue]
    BY DEF BInv, Stored
  <1>2. /\ exp' \in [Entry -> Nat]
        /\ \A c \in Bucket, l \in Key : (items'[c][l] \in Entry) => exp'[items'[c][l]] = exp[items'[c][l]]
    BY <1>1, Forgotten
  <1>3. items'[b] = it /\ \A c \in Bucket \ {b} : items'[c] = items[c]
    BY <1>1
  <1>4. SameExpiry(it, Key, exp, exp')
    BY <1>2, <1>3 DEF SameExpiry
  <1>5. \A c \in Bucket \ {b} : SameExpiry(items[c], Key, exp, exp')
    BY <1>1, <1>2, <1>3 DEF SameExpiry
  <1>6. Good(it, tq, limitQueue[b], exp', rw)
    BY <1>4, ExpiriesOfMap
  <1>7. tq \in Queue /\ rw \in SUBSET Key /\ limitQueue[b] \in Queue
    BY <1>6 DEF Good
  <1>8. limitQueue' = [limitQueue EXCEPT ![b] = limitQueue[b]]
    BY <1>1
  <1>9. \A a \in Key : it[a] # None => \A c \in Bucket \ {b}, l \in Key : it[a] # items[c][l]
    BY DEF BInv, Own
  <1>10. Apart(b, it) /\ OthersExpireAsBefore(b)
    BY <1>5, <1>9 DEF Apart, OthersExpireAsBefore
  <1> QED
    BY <1>2, <1>6, <1>7, <1>8, <1>10, OneBucket

LEMMA DeleteKeeps ==
  ASSUME BInv, NEW b \in Bucket, NEW k \in Key, Delete(b, k)
  PROVE  BInv'
  <1>1. PICK it, rw : it = [items[b] EXCEPT ![k] = None] /\ rw = rewritten[b] \cup {k}
    OBVIOUS
  <1>2. /\ items \in [Bucket -> [Key -> Entry \cup {None}]] /\ rewritten \in [Bucket -> SUBSET Key]
        /\ ttlQueue \in [Bucket -> Queue]
        /\ Good(items[b], ttlQueue[b], limitQueue[b], exp, rewritten[b])
    BY DEF BInv, Stored, AllGood
  <1>3. Good(it, ttlQueue[b], limitQueue[b], exp, rw)
    BY <1>1, <1>2, Deleted
  <1>4. it \in [Key -> Entry \cup {None}] /\ \A a \in Key : it[a] \in {items[b][a], None}
    BY <1>1, <1>2
  <1>5. /\ items' = [items EXCEPT ![b] = it] /\ rewritten' = [rewritten EXCEPT ![b] = rw]
        /\ ttlQueue' = [ttlQueue EXCEPT ![b] = ttlQueue[b]] /\ limitQueue' = limitQueue
        /\ buckets' = buckets /\ Forgetting(exp)
    BY <1>1, <1>2 DEF Delete
  <1> QED
    BY <1>3, <1>4, <1>5, MapShrinks

LEMMA CleanKeeps ==
  ASSUME BInv, NEW b \in Bucket, Clean(b)
  PROVE  BInv'
  <1>1. PICK tq, lq : tq = ttlQueue[b] /\ lq = limitQueue[b]
    OBVIOUS
  <1>2. /\ items \in [Bucket -> [Key -> Entry \cup {None}]] /\ rewritten \in [Bucket -> SUBSET Key]
        /\ Good(items[b], tq, lq, exp, rewritten[b]) /\ tq \in Queue
    BY <1>1 DEF BInv, Stored, AllGood, Good
  <1>3. /\ UNCHANGED <<buckets, limitQueue, rewritten>> /\ Forgetting(exp)
        /\ rewritten' = [rewritten EXCEPT ![b] = rewritten[b]]
    BY <1>2 DEF Clean
  <1>4. PICK i \in DOMAIN tq :
          /\ items' = IF tq[i][1] # exp[tq[i][2]] THEN items
                      ELSE [items EXCEPT ![b] = [items[b] EXCEPT ![tq[i][2][1]] = None]]
          /\ ttlQueue' = [ttlQueue EXCEPT ![b] = Without(tq, i)]
    BY <1>1 DEF Clean, CleanPop, Heads, Drop
  <1>5. PICK t2, k : t2 = Without(tq, i) /\ k = tq[i][2][1]
    OBVIOUS
  <1>6. k \in Key /\ ttlQueue' = [ttlQueue EXCEPT ![b] = t2]
    BY <1>2, <1>4, <1>5, QueueTypes
  <1>7. CASE tq[i][1] # exp[tq[i][2]]
    <2>1. Good(items[b], t2, lq, exp, rewritten[b])
      BY <1>2, <1>5, <1>7, StaleRemoved
    <2>2. items' = [items EXCEPT ![b] = items[b]] /\ items[b] \in [Key -> Entry \cup {None}]
      BY <1>2, <1>4, <1>7
    <2> QED
      BY <1>1, <1>3, <1>6, <2>1, <2>2, MapShrinks
  <1>8. CASE tq[i][1] = exp[tq[i][2]]
    <2>1. PICK it : it = [items[b] EXCEPT ![k] = None]
      OBVIOUS
    <2>2. Leaves(tq, lq, k, t2, lq)
      BY <1>5 DEF Leaves
    <2>3. Good(it, t2, lq, exp, rewritten[b])
      BY <1>2, <1>6, <2>1, <2>2, Evicted
    <2>4. /\ it \in [Key -> Entry \cup {None}] /\ \A a \in Key : it[a] \in {items[b][a], None}
          /\ items' = [items EXCEPT ![b] = it]
      BY <1>2, <1>4, <1>5, <1>8, <2>1
    <2> QED
      BY <1>1, <1>3, <1>6, <2>3, <2>4, MapShrinks
  <1> QED
    BY <1>7, <1>8

-----------------------------------------------------------------------------
(* Both together *)

\* Who creates a bucket has said which, and a bucket's mutex is held by its
\* cleaning task while that runs.
Held ==
    /\ load \in Loads /\ mutex \in {None, "tick"}
    /\ cMutex \in Proc \cup {None} /\ bMutex \in Bucket \cup {None}
    /\ asks \in [Proc -> Bucket \cup {None}]
    /\ \A p \in Proc : cMutex = p => asks[p] \in Bucket
    /\ bMutex # None => (executing # Nothing /\ name[executing[2]] = bMutex)

IInv == SInv /\ BInv /\ Held

\* What a workload may use.
LEMMA LoadTypes ==
  ASSUME load \in Loads
  PROVE  load.buckets \subseteq Bucket /\ load.keys \subseteq Key /\ load.tasks \subseteq Task \ Bucket
  BY CacheAssumption

LEMMA InitIInv == Init => IInv
  <1> SUFFICES ASSUME Init PROVE IInv
    OBVIOUS
  <1>1. SInv
    BY SchedInitInv DEF Init
  <1>2. BInv
    BY InitBuckets
  <1>3. Held
    BY CacheAssumption DEF Init, SchedInit, Held
  <1> QED
    BY <1>1, <1>2, <1>3 DEF IInv

LEMMA SameBuckets ==
  ASSUME BInv, UNCHANGED bucketVars
  PROVE  BInv'
  BY DEF BInv, bucketVars, Stored, Own, AllGood

\* Steps of buckets leave the scheduler alone.
LEMMA SameScheduler ==
  ASSUME SInv, UNCHANGED allSchedVars
  PROVE  SInv'
  <1>1. Flags'
    BY DEF SInv, Flags, allSchedVars, schedVars
  <1>2. now' \in 0..MaxTime /\ mutex' = mutex
    BY DEF SInv, Scheduled, allSchedVars, tickVars
  <1> QED
    BY <1>1, <1>2, TasksKept DEF allSchedVars, schedVars, tickVars

LEMMA StepIInv ==
  ASSUME IInv, [Next]_vars
  PROVE  IInv'
  <1>0. /\ SInv /\ BInv /\ Held /\ now \in Nat /\ None \notin Bucket /\ None \notin Proc
        /\ load \in Loads /\ load.buckets \subseteq Bucket /\ load.keys \subseteq Key
        /\ load.tasks \subseteq Task \ Bucket
    BY LoadTypes, CacheAssumption DEF IInv, Held, SInv, Scheduled
  <1>s. ASSUME UNCHANGED <<load, cMutex, bMutex, asks, bucketVars>>, SInv', mutex' \in {None, "tick"},
               bMutex # None => (executing' = executing /\ \A d \in 1..used : name'[d] = name[d])
        PROVE  IInv'
    <2>1. BInv'
      BY <1>0, <1>s, SameBuckets
    <2>2. executing # Nothing => executing[2] \in 1..used
      BY <1>0 DEF SInv, Scheduled
    <2>3. Held'
      BY <1>0, <1>s, <2>2 DEF Held
    <2> QED
      BY <1>s, <2>1, <2>3 DEF IInv
  <1>1. CASE UNCHANGED load /\ Time
    <2>1. SInv'
      BY <1>0, <1>1, SchedulerKeeps DEF Time
    <2> QED
      BY <1>0, <1>1, <1>s, <2>1 DEF Time, Tock, schedVars, tickVars, Held
  <1>2. CASE UNCHANGED load /\ Ticks
    <2>1. SInv'
      BY <1>0, <1>2, SchedulerKeeps DEF Ticks
    <2>2. mutex' \in {None, "tick"} /\ name' = name /\ (executing' = executing \/ executing = Nothing)
      BY <1>0, <1>2 DEF Ticks, TickSteps, Tick, TickDone, TickCancelled, TickRun, TickRests, Holding,
                        schedVars, tickVars, Held
    <2>3. bMutex # None => executing # Nothing
      BY <1>0 DEF Held
    <2> QED
      BY <1>2, <1>s, <2>1, <2>2, <2>3 DEF Ticks
  <1>3. CASE UNCHANGED load /\ UserTaskEnds
    <2>1. SInv'
      BY <1>0, <1>3, ExecutedKeeps DEF UserTaskEnds
    <2>2. bMutex = None
      BY <1>0, <1>3 DEF UserTaskEnds, Held
    <2> QED
      BY <1>0, <1>3, <1>s, <2>1, <2>2 DEF UserTaskEnds, Executed, Held
  <1>4. CASE UNCHANGED load /\ UserCalls
    <2>1. CASE Start \/ Stop
      <3>1. SInv'
        BY <1>0, <2>1, SchedulerKeeps
      <3> QED
        BY <1>0, <1>4, <1>s, <2>1, <3>1 DEF UserCalls, Start, Stop, tickVars, Held
    <2>2. CASE \E n \in load.tasks : StopTask(n)
      <3>1. SInv'
        BY <1>0, <2>2, StopTaskKeeps
      <3> QED
        BY <1>0, <1>4, <1>s, <2>2, <3>1 DEF UserCalls, StopTask, tickVars, Held
    <2>3. CASE /\ mutex = None
               /\ \E n \in load.tasks, d \in {<<0, 1>>, <<1, 0>>}, overwrite, valid \in BOOLEAN :
                     ScheduleTask(n, d[1], d[2], overwrite, valid)
               /\ UNCHANGED <<now, tickVars>>
      <3>1. PICK n \in Task, e \in Nat, t \in Nat, overwrite \in BOOLEAN, valid \in BOOLEAN :
                   ScheduleTask(n, e, t, overwrite, valid)
        BY <1>0, <2>3
      <3>2. SInv'
        BY <1>0, <2>3, <3>1, ScheduleTaskKeeps
      <3>3. mutex' = mutex /\ bMutex = None
        BY <1>0, <2>3, CacheAssumption DEF tickVars, Held, SInv, Live
      <3> QED
        BY <1>0, <1>4, <1>s, <2>3, <3>2, <3>3 DEF UserCalls, Held
    <2> QED
      BY <1>4, <2>1, <2>2, <2>3 DEF UserCalls
  <1>5. CASE UNCHANGED load /\ \E p \in Proc : NewBucket(p)
    <2>1. PICK p \in Proc : NewBucket(p)
      BY <1>5
    <2>2. asks[p] \in Bucket /\ cMutex = p /\ asks[p] \in Task
      BY <1>0, <2>1, CacheAssumption DEF NewBucket, Held
    <2>3. PICK n \in Task : n = asks[p]
      BY <2>2
    <2>4. Every \in Nat /\ 0 \in Nat /\ TRUE \in BOOLEAN /\ FALSE \in BOOLEAN
      BY CacheAssumption
    <2>5. ScheduleTask(n, Every, 0, FALSE, TRUE) /\ mutex = None /\ UNCHANGED <<now, tickVars>>
      BY <2>1, <2>3 DEF NewBucket
    <2>6. SInv'
      BY <1>0, <2>4, <2>5, ScheduleTaskKeeps
    <2>7. BInv'
      BY <1>0, <2>1, <2>2 DEF NewBucket, BInv, Stored, Own, AllGood
    <2>8. executing = Nothing /\ bMutex = None
      BY <1>0, <2>5, CacheAssumption DEF SInv, Live, Held
    <2>9. Held'
      BY <1>0, <1>5, <2>1, <2>8 DEF NewBucket, tickVars, Held
    <2> QED
      BY <2>6, <2>7, <2>9 DEF IInv
  <1>6. CASE UNCHANGED load /\ \E p \in Proc, b \in load.buckets : BucketCall(p, b)
    <2>1. PICK p \in Proc, b \in Bucket : BucketCall(p, b)
      BY <1>0, <1>6
    <2>2. SInv' /\ BInv'
      BY <1>0, <2>1, SameScheduler, SameBuckets DEF BucketCall
    <2>3. Held'
      BY <1>0, <1>6, <2>1 DEF BucketCall, allSchedVars, schedVars, tickVars, Held
    <2> QED
      BY <2>2, <2>3 DEF IInv
  <1>7. CASE UNCHANGED load /\ \E b \in Bucket : CleanBegin(b)
    <2>1. PICK b \in Bucket : CleanBegin(b)
      BY <1>7
    <2>2. SInv' /\ BInv'
      BY <1>0, <2>1, SameScheduler, SameBuckets DEF CleanBegin
    <2>3. Held'
      BY <1>0, <1>7, <2>1 DEF CleanBegin, Cleans, allSchedVars, schedVars, tickVars, Held
    <2> QED
      BY <2>2, <2>3 DEF IInv
  <1>8. CASE UNCHANGED load /\ \E b \in Bucket : CleanEnd(b)
    <2>1. PICK b \in Bucket : CleanEnd(b)
      BY <1>8
    <2>2. executing # Nothing
      BY <1>0, <2>1 DEF CleanEnd, Held
    <2>3. SInv' /\ BInv'
      BY <1>0, <2>1, <2>2, ExecutedKeeps, SameBuckets DEF CleanEnd
    <2>4. Held'
      BY <1>0, <1>8, <2>1 DEF CleanEnd, Executed, Held
    <2> QED
      BY <2>3, <2>4 DEF IInv
  <1>b. ASSUME UNCHANGED <<load, allSchedVars, cMutex, bMutex, asks>>, BInv' PROVE IInv'
    <2>1. SInv'
      BY <1>0, <1>b, SameScheduler
    <2>2. Held'
      BY <1>0, <1>b DEF allSchedVars, schedVars, tickVars, Held
    <2> QED
      BY <1>b, <2>1, <2>2 DEF IInv
  <1>9. CASE UNCHANGED load /\ Clear
    BY <1>0, <1>9, <1>b, ClearKeeps DEF Clear
  <1>10. CASE UNCHANGED load /\ \E b \in Bucket : Clean(b)
    BY <1>0, <1>10, <1>b, CleanKeeps DEF Clean
  <1>11. CASE UNCHANGED load /\ \E b \in load.buckets, k \in load.keys : Delete(b, k)
    BY <1>0, <1>11, <1>b, DeleteKeeps DEF Delete
  <1>12. CASE UNCHANGED load /\ \E b \in load.buckets, k \in load.keys, ttl \in TTL : SetWithTTL(b, k, ttl)
    <2>1. PICK b \in Bucket, k \in Key, ttl \in Nat : SetWithTTL(b, k, ttl)
      BY <1>0, <1>12, CacheAssumption
    <2>2. UNCHANGED <<allSchedVars, cMutex, bMutex, asks, buckets>>
      BY <2>1 DEF SetWithTTL
    <2>3. CASE items[b][k] # None
      BY <1>0, <1>12, <1>b, <2>1, <2>2, <2>3, OverwriteKeeps DEF SetWithTTL
    <2>4. CASE items[b][k] = None
      BY <1>0, <1>12, <1>b, <2>1, <2>2, <2>4, AddKeeps DEF SetWithTTL
    <2> QED
      BY <2>3, <2>4
  <1>13. CASE UNCHANGED vars
    BY <1>0, <1>13, <1>b, SameBuckets DEF vars
  <1> QED
    BY <1>1, <1>2, <1>3, <1>4, <1>5, <1>6, <1>7, <1>8, <1>9, <1>10, <1>11, <1>12, <1>13, Zenon DEF Next

\* IInv holds in every state.
THEOREM InvariantHolds == Spec => []IInv
  BY InitIInv, StepIInv, PTL DEF Spec

\* A name stands for the one task that runs under it: through overwriting, StopTask,
\* failed calls and cancelled definitions still in the heap, a listed task is due or
\* running exactly once, and one that runs unlisted was replaced.
THEOREM TaskNamesAlwaysKept == Spec => []TaskNamesKept
  <1>1. IInv => TaskNamesKept
    BY NamesKept DEF IInv
  <1> QED
    BY <1>1, InvariantHolds, PTL

\* Every entry of a bucket is in a queue under its expiry, so that SetWithTTL finds
\* something to evict from a full bucket; and the limit is kept while no key was
\* deleted or set again.
THEOREM BucketsAlwaysKept == Spec => []BucketsKept
  <1>1. IInv => TypeOK
    <2> SUFFICES ASSUME IInv PROVE TypeOK
      OBVIOUS
    <2>1. SchedTypeOK
      <3>1. now \in 0..MaxTime /\ tasks \in [Task -> Def \cup {None}] /\ cancelled \subseteq 1..used
            /\ used \in 0..MaxDefs /\ name \in [Def -> Task \cup {None}] /\ every \in [Def -> Nat]
        BY Defs DEF IInv, SInv, Scheduled
      <3>2. \A p \in pending : p[1] \in Nat /\ p[2] \in 1..used
        BY DEF IInv, SInv, Scheduled
      <3>3. executing[2] \in Def \cup {None}
        BY Defs DEF IInv, SInv, Scheduled, Nothing
      <3>4. running \in BOOLEAN /\ done \in BOOLEAN
        BY DEF IInv, SInv, Flags
      <3> QED
        BY <3>1, <3>2, <3>3, <3>4, Zenon DEF SchedTypeOK
    <2>2. \A b \in Bucket : \A k \in Key : items[b][k] \in Entry \cup {None}
      BY DEF IInv, BInv, Stored
    <2>3. \A b \in Bucket : \A q \in {ttlQueue[b], limitQueue[b]} :
            \A i \in DOMAIN q : q[i][1] \in Nat /\ q[i][2] \in Entry
      BY QueueTypes DEF IInv, BInv, Stored
    <2> QED
      BY <2>1, <2>2, <2>3 DEF TypeOK, IInv, BInv, Stored, Held
  <1>2. IInv => EntriesAreQueued
    <2> SUFFICES ASSUME IInv, NEW b \in Bucket, NEW k \in Present(b), NEW e, e = items[b][k]
                 PROVE  /\ e[1] = k
                        /\ exp[e] > 0 => \E i \in DOMAIN ttlQueue[b] :
                                            ttlQueue[b][i][2] = e /\ exp[e] \in {0, ttlQueue[b][i][1]}
                        /\ (exp[e] = 0 /\ MaxItems > 0) =>
                              \E i \in DOMAIN limitQueue[b] :
                                 limitQueue[b][i][2] = e /\ 0 \in {0, limitQueue[b][i][1]}
      BY DEF EntriesAreQueued
    <2>1. Covered(items[b], ttlQueue[b], limitQueue[b], exp) /\ k \in Key /\ items[b][k] # None
      BY DEF IInv, BInv, AllGood, Good, Present
    <2> QED
      BY <2>1 DEF Covered
  <1>3. IInv => MaxItemsKept
    <2> SUFFICES ASSUME IInv, NEW b \in Bucket, MaxItems > 0, rewritten[b] = {}
                 PROVE  Cardinality(Present(b)) <= MaxItems
      BY DEF MaxItemsKept
    <2>1. Limited(items[b], rewritten[b])
      BY DEF IInv, BInv, AllGood, Good
    <2>2. Present(b) = KeysOf(items[b])
      BY DEF Present, KeysOf
    <2> QED
      BY <2>1, <2>2 DEF Limited
  <1>4. IInv => BucketsKept
    BY <1>1, <1>2, <1>3 DEF BucketsKept
  <1> QED
    BY <1>4, InvariantHolds, PTL

\* A step of the cleaning task takes a key that was neither deleted nor set again
\* only when its entry has expired.
THEOREM CleansAlwaysExpiredOnly == Spec => CleansExpiredOnly
  <1>1. IInv /\ [Next]_vars =>
          [\A b \in Bucket : Clean(b) =>
              \A k \in Present(b) \ rewritten[b] :
                 items'[b][k] = None => exp[items[b][k]] \in 1..now]_vars
    <2> SUFFICES ASSUME IInv, NEW b \in Bucket, Clean(b), NEW k \in Present(b) \ rewritten[b],
                        items'[b][k] = None
                 PROVE  exp[items[b][k]] \in 1..now
      OBVIOUS
    <2>1. PICK tq, it : tq = ttlQueue[b] /\ it = items[b]
      OBVIOUS
    <2>2. /\ Good(it, tq, limitQueue[b], exp, rewritten[b]) /\ tq \in Queue /\ now \in Nat
          /\ it \in [Key -> Entry \cup {None}] /\ items \in [Bucket -> [Key -> Entry \cup {None}]]
          /\ k \in Key /\ it[k] # None
      BY <2>1 DEF IInv, SInv, Scheduled, BInv, Stored, AllGood, Good, Present
    <2>3. PICK i \in DOMAIN tq :
            /\ tq[i][1] # exp[tq[i][2]] \/ exp[tq[i][2]] <= now
            /\ items' = IF tq[i][1] # exp[tq[i][2]] THEN items
                        ELSE [items EXCEPT ![b] = [it EXCEPT ![tq[i][2][1]] = None]]
      BY <2>1 DEF Clean, CleanPop, Heads, Drop
    <2>4. tq[i][1] = exp[tq[i][2]] /\ tq[i][2][1] = k /\ exp[tq[i][2]] <= now
      BY <2>1, <2>2, <2>3
    <2>5. it[k] = tq[i][2]
      BY <2>2, <2>4 DEF Good, Straight, OfMap
    <2>6. tq[i][1] > 0 /\ tq[i][1] \in Nat
      BY <2>2, QueueTypes DEF Good, Timed
    <2> QED
      BY <2>1, <2>2, <2>4, <2>5, <2>6
  <1> QED
    BY <1>1, InvariantHolds, PTL DEF Spec, CleansExpiredOnly

-----------------------------------------------------------------------------
(* Induction over the natural numbers, for a set of them *)

LEMMA LessThanPairs == \A x, y \in Nat : <<x, y>> \in OpToRel(<, Nat) <=> x < y
  BY DEF OpToRel

LEMMA LeastOf ==
  ASSUME NEW T, T \subseteq Nat, NEW R, \A x, y \in Nat : <<x, y>> \in R <=> x < y,
         \E x \in T : \A y \in T : ~ (<<y, x>> \in R)
  PROVE  \E x \in T : \A y \in T : x <= y
  <1>1. PICK x \in T : \A y \in T : ~ (<<y, x>> \in R)
    OBVIOUS
  <1>2. ASSUME NEW y \in T PROVE x <= y
    <2>1. x \in Nat /\ y \in Nat /\ <<y, x>> \notin R
      BY <1>1
    <2>2. ~(y < x)
      BY <2>1
    <2> QED
      BY <2>1, <2>2
  <1> QED
    BY <1>2

LEMMA LeastElement ==
  ASSUME NEW T, T \subseteq Nat, T # {}
  PROVE  \E x \in T : \A y \in T : x <= y
  <1>1. \E x \in T : \A y \in T : ~ (<<y, x>> \in OpToRel(<, Nat))
    BY NatLessThanWellFounded, WFMin
  <1> QED
    BY <1>1, LessThanPairs, LeastOf

LEMMA SetInduction ==
  ASSUME NEW S, 0 \in S, \A n \in Nat : n \in S => n + 1 \in S
  PROVE  Nat \subseteq S
  <1> DEFINE T == Nat \ S
  <1> SUFFICES ASSUME T # {} PROVE FALSE
    OBVIOUS
  <1>1. PICK x \in T : \A y \in T : x <= y
    BY LeastElement
  <1>2. x # 0 /\ x - 1 \in Nat /\ x - 1 \in S
    BY <1>1
  <1> QED
    BY <1>1, <1>2

-----------------------------------------------------------------------------
(* The heap: parents, order and swaps *)

LEMMA Parents ==
  ASSUME NEW j \in Int, j >= 2
  PROVE  /\ ParentOf(j) \in Int /\ 1 <= ParentOf(j) /\ ParentOf(j) < j
         /\ \A i \in Int : ParentOf(j) = i <=> (j = 2 * i \/ j = 2 * i + 1)
  BY DEF ParentOf

\* Above is the strict part of a total preorder.
LEMMA AboveOrder ==
  ASSUME NEW a \in Pair, NEW b \in Pair, NEW c \in Pair
  PROVE  /\ Above(a, b) => ~Above(b, a)
         /\ (Above(a, b) /\ Above(b, c)) => Above(a, c)
         /\ (~Above(a, b) /\ ~Above(b, c)) => ~Above(a, c)
         /\ ~Above(a, a)
  <1>1. KeyOf(a) \in Int /\ KeyOf(b) \in Int /\ KeyOf(c) \in Int
    BY HeapAssumption
  <1>2. CASE heapType = "min"
    BY <1>1, <1>2 DEF Above
  <1>3. CASE heapType # "min"
    BY <1>1, <1>3 DEF Above
  <1> QED
    BY <1>2, <1>3

LEMMA SwappedFacts ==
  ASSUME NEW d \in Seq(Pair), NEW i \in 1..Len(d), NEW j \in 1..Len(d)
  PROVE  /\ Swapped(d, i, j) \in Seq(Pair) /\ Len(Swapped(d, i, j)) = Len(d)
         /\ Swapped(d, i, j)[i] = d[j] /\ Swapped(d, i, j)[j] = d[i]
         /\ \A k \in 1..Len(d) : (k # i /\ k # j) => Swapped(d, i, j)[k] = d[k]
  BY DEF Swapped

\* A swap loses and doubles nothing.
LEMMA SwappedCopies ==
  ASSUME NEW d \in Seq(Pair), NEW i \in 1..Len(d), NEW j \in 1..Len(d), NEW e
  PROVE  CountOf(Swapped(d, i, j), e) = CountOf(d, e)
  <1> DEFINE w == Swapped(d, i, j)
             S == {k \in 1..Len(d) : d[k] = e}
             T == {k \in 1..Len(w) : w[k] = e}
             f == [k \in S |-> IF k = i THEN j ELSE IF k = j THEN i ELSE k]
  <1>1. /\ Len(w) = Len(d) /\ w[i] = d[j] /\ w[j] = d[i]
        /\ \A k \in 1..Len(d) : (k # i /\ k # j) => w[k] = d[k]
    BY SwappedFacts
  <1> HIDE DEF w
  <1>2. f \in [S -> T]
    BY <1>1
  <1>3. \A a, b \in S : f[a] = f[b] => a = b
    BY <1>1
  <1>4. \A t \in T : \E s \in S : f[s] = t
    <2> SUFFICES ASSUME NEW t \in T PROVE \E s \in S : f[s] = t
      OBVIOUS
    <2>1. CASE t = i
      <3>1. j \in S /\ f[j] = i
        BY <1>1, <2>1
      <3> QED
        BY <3>1, <2>1
    <2>2. CASE t = j
      <3>1. i \in S /\ f[i] = j
        BY <1>1, <2>2
      <3> QED
        BY <3>1, <2>2
    <2>3. CASE t # i /\ t # j
      <3>1. t \in S /\ f[t] = t
        BY <1>1, <2>3
      <3> QED
        BY <3>1
    <2> QED
      BY <2>1, <2>2, <2>3
  <1>5. IsFiniteSet(S)
    <2>1. IsFiniteSet(1..Len(d)) /\ S \in SUBSET (1..Len(d))
      BY FS_Interval
    <2> QED
      BY <2>1, FS_Subset
  <1>6. Cardinality(T) = Cardinality(S)
    <2> HIDE DEF f, S, T
    <2>1. f \in Bijection(S, T)
      BY <1>2, <1>3, <1>4 DEF Bijection, Injection, Surjection, IsInjective
    <2>2. ExistsBijection(S, T)
      BY <2>1 DEF ExistsBijection
    <2> QED
      BY <2>2, <1>5, FS_Bijection
  <1> QED
    BY <1>6 DEF CountOf, w

LEMMA FiniteCopies ==
  ASSUME NEW d \in Seq(Pair), NEW e
  PROVE  /\ IsFiniteSet({k \in 1..Len(d) : d[k] = e}) /\ CountOf(d, e) \in Nat
         /\ CountOf(d, e) > 0 => \E k \in 1..Len(d) : d[k] = e
  <1> DEFINE S == {k \in 1..Len(d) : d[k] = e}
  <1>1. IsFiniteSet(1..Len(d)) /\ S \in SUBSET (1..Len(d))
    BY FS_Interval
  <1>2. IsFiniteSet(S)
    BY <1>1, FS_Subset
  <1>3. Cardinality(S) \in Nat
    BY <1>2, FS_CardinalityType
  <1>4. S = {} => Cardinality(S) = 0
    BY FS_EmptySet
  <1> QED
    BY <1>2, <1>3, <1>4 DEF CountOf

LEMMA AppendCopies ==
  ASSUME NEW d \in Seq(Pair), NEW x \in Pair, NEW e
  PROVE  CountOf(Append(d, x), e) = CountOf(d, e) + (IF x = e THEN 1 ELSE 0)
  <1> DEFINE S == {k \in 1..Len(d) : d[k] = e}
             w == Append(d, x)
             n == Len(d) + 1
             T == {k \in 1..Len(w) : w[k] = e}
  <1>1. Len(w) = n /\ w[n] = x /\ (\A k \in 1..Len(d) : w[k] = d[k]) /\ n \notin 1..Len(d)
    BY AppendProperties
  <1> HIDE DEF w
  <1>2. IsFiniteSet(S)
    BY FiniteCopies
  <1>3. CASE x = e
    <2>1. T = S \cup {n} /\ n \notin S
      BY <1>1, <1>3
    <2>2. Cardinality(S \cup {n}) = IF n \in S THEN Cardinality(S) ELSE Cardinality(S) + 1
      <3> HIDE DEF S, n
      <3> QED
        BY <1>2, FS_AddElement
    <2> QED
      BY <1>3, <2>1, <2>2 DEF CountOf, w
  <1>4. CASE x # e
    <2>1. T = S
      BY <1>1, <1>4
    <2>2. Cardinality(S) \in Nat
      BY <1>2, FS_CardinalityType
    <2>3. CountOf(w, e) = CountOf(d, e) /\ CountOf(d, e) \in Nat
      BY <2>1, <2>2 DEF CountOf
    <2> QED
      BY <1>4, <2>3 DEF w
  <1> QED
    BY <1>3, <1>4

\* The array without its first pair, the last in its place.
Shortened(d) == [SubSeq(d, 1, Len(d) - 1) EXCEPT ![1] = d[Len(d)]]

LEMMA ShortenedFacts ==
  ASSUME NEW d \in Seq(Pair), Len(d) >= 2
  PROVE  /\ Shortened(d) \in Seq(Pair) /\ Len(Shortened(d)) = Len(d) - 1
         /\ Shortened(d)[1] = d[Len(d)]
         /\ \A k \in 2..(Len(d) - 1) : Shortened(d)[k] = d[k]
  <1> DEFINE m == Len(d) - 1
             s == SubSeq(d, 1, m)
  <1>1. /\ s \in Seq(Pair) /\ Len(s) = m /\ \A k \in 1..m : s[k] = d[k]
    OBVIOUS
  <1>2. Shortened(d) = [s EXCEPT ![1] = d[Len(d)]] /\ d[Len(d)] \in Pair /\ m \in Nat /\ m >= 1
    BY DEF Shortened
  <1> HIDE DEF s
  <1> QED
    BY <1>1, <1>2

LEMMA ShortenedCopies ==
  ASSUME NEW d \in Seq(Pair), Len(d) >= 2, NEW e
  PROVE  CountOf(Shortened(d), e) = CountOf(d, e) - (IF d[1] = e THEN 1 ELSE 0)
  <1> DEFINE S == {k \in 1..Len(d) : d[k] = e}
             w == Shortened(d)
             n == Len(d)
             T == {k \in 1..Len(w) : w[k] = e}
             f == [k \in S \ {1} |-> IF k = n THEN 1 ELSE k]
  <1>1. Len(w) = n - 1 /\ w[1] = d[n] /\ (\A k \in 2..(n - 1) : w[k] = d[k]) /\ n \in Nat /\ n >= 2
    BY ShortenedFacts
  <1> HIDE DEF w
  <1>2. IsFiniteSet(S)
    BY FiniteCopies
  <1>3. f \in [S \ {1} -> T]
    BY <1>1
  <1>4. \A a, b \in S \ {1} : f[a] = f[b] => a = b
    BY <1>1
  <1>5. \A t \in T : \E s \in S \ {1} : f[s] = t
    <2> SUFFICES ASSUME NEW t \in T PROVE \E s \in S \ {1} : f[s] = t
      OBVIOUS
    <2>1. CASE t = 1
      <3>1. n \in S \ {1} /\ f[n] = 1
        BY <1>1, <2>1
      <3> QED
        BY <3>1, <2>1
    <2>2. CASE t # 1
      <3>1. t \in S \ {1} /\ f[t] = t
        BY <1>1, <2>2
      <3> QED
        BY <3>1
    <2> QED
      BY <2>1, <2>2
  <1>6. Cardinality(T) = Cardinality(S \ {1})
    <2>1. IsFiniteSet(S \ {1})
      BY <1>2, FS_RemoveElement
    <2> HIDE DEF f, S, T
    <2>2. f \in Bijection(S \ {1}, T)
      BY <1>3, <1>4, <1>5 DEF Bijection, Injection, Surjection, IsInjective
    <2>3. ExistsBijection(S \ {1}, T)
      BY <2>2 DEF ExistsBijection
    <2> QED
      BY <2>1, <2>3, FS_Bijection
  <1>7. Cardinality(S \ {1}) = IF 1 \in S THEN Cardinality(S) - 1 ELSE Cardinality(S)
    BY <1>2, FS_RemoveElement
  <1>8. 1 \in S <=> d[1] = e
    BY <1>1
  <1>9. Cardinality(S) \in Nat
    BY <1>2, FS_CardinalityType
  <1> QED
    BY <1>6, <1>7, <1>8, <1>9 DEF CountOf, w
-----------------------------------------------------------------------------
(* The heap: one round of a loop *)

\* No pair must be above its parent.
HeapOrdered(d) == \A j \in 2..Len(d) : ~Above(d[j], d[ParentOf(j)])

\* Nothing below i must be above what is above i.
Sheltered(d, i) == i # 1 => \A j \in 2..Len(d) : ParentOf(j) = i => ~Above(d[j], d[ParentOf(i)])

\* A heap but for the pair at i and its parent, while it moves up.
UpOk(d, i) ==
    /\ d \in Seq(Pair) /\ i \in 1..Len(d)
    /\ \A j \in 2..Len(d) : j # i => ~Above(d[j], d[ParentOf(j)])
    /\ Sheltered(d, i)

\* A heap but for the pair at i and its children, while it moves down.
DownOk(d, i) ==
    /\ d \in Seq(Pair) /\ i \in 1..Len(d)
    /\ \A j \in 2..Len(d) : ParentOf(j) # i => ~Above(d[j], d[ParentOf(j)])
    /\ Sheltered(d, i)

LEMMA UpSwap ==
  ASSUME NEW d, NEW i, UpOk(d, i), i # 1, Above(d[i], d[ParentOf(i)])
  PROVE  UpOk(Swapped(d, i, ParentOf(i)), ParentOf(i)) /\ ParentOf(i) < i
  <1> DEFINE p == ParentOf(i)
             w == Swapped(d, i, p)
             L == 2..Len(d)
  <1>1. d \in Seq(Pair) /\ i \in 1..Len(d) /\ Len(d) \in Nat /\ i \in L
    BY DEF UpOk
  <1>2. p \in 1..Len(d) /\ p < i
    BY <1>1, Parents
  <1>3. /\ w \in Seq(Pair) /\ Len(w) = Len(d) /\ w[i] = d[p] /\ w[p] = d[i]
        /\ \A k \in 1..Len(d) : (k # i /\ k # p) => w[k] = d[k]
    BY <1>1, <1>2, SwappedFacts
  <1>4. \A k \in 1..Len(d) : d[k] \in Pair
    BY <1>1
  <1>5. \A j \in L : ParentOf(j) \in 1..Len(d) /\ ParentOf(j) < j /\ j \in 1..Len(d)
    BY <1>1, Parents
  <1>6. \A j \in L : j # i => ~Above(d[j], d[ParentOf(j)])
    BY DEF UpOk
  <1>7. \A j \in L : ParentOf(j) = i => ~Above(d[j], d[p])
    BY DEF UpOk, Sheltered
  <1> HIDE DEF w, p, L
  <1>8. Above(d[i], d[p])
    BY DEF p
  <1>9. ASSUME NEW j \in L, j # p PROVE ~Above(w[j], w[ParentOf(j)])
    <2>1. j \in 1..Len(d) /\ ParentOf(j) \in 1..Len(d) /\ ParentOf(j) < j
      BY <1>5
    <2>2. CASE j = i
      <3>1. ~Above(d[p], d[i])
        BY <1>1, <1>2, <1>4, <1>8, AboveOrder
      <3> QED
        BY <1>3, <2>2, <3>1 DEF p
    <2>3. CASE ParentOf(j) = i
      <3>1. j # i /\ w[j] = d[j]
        BY <1>1, <1>3, <1>9, <2>1, <2>3
      <3> QED
        BY <1>3, <1>7, <2>3, <3>1
    <2>4. CASE j # i /\ ParentOf(j) = p
      <3>1. w[j] = d[j] /\ w[ParentOf(j)] = d[i] /\ ~Above(d[j], d[p])
        BY <1>3, <1>6, <1>9, <2>1, <2>4
      <3>2. d[j] \in Pair /\ d[i] \in Pair /\ d[p] \in Pair
        BY <1>1, <1>2, <1>4, <2>1
      <3>3. ~Above(d[j], d[i])
        BY <1>8, <3>1, <3>2, AboveOrder
      <3> QED
        BY <3>1, <3>3
    <2>5. CASE j # i /\ ParentOf(j) # i /\ ParentOf(j) # p
      <3>1. w[j] = d[j] /\ w[ParentOf(j)] = d[ParentOf(j)]
        BY <1>3, <1>9, <2>1, <2>5
      <3> QED
        BY <1>6, <2>5, <3>1
    <2> QED
      BY <2>2, <2>3, <2>4, <2>5
  <1>10. Sheltered(w, p)
    <2> SUFFICES ASSUME p # 1, NEW j \in L, ParentOf(j) = p
                 PROVE  ~Above(w[j], w[ParentOf(p)])
      BY <1>3 DEF Sheltered, L
    <2>1. p \in L /\ ParentOf(p) \in 1..Len(d) /\ ParentOf(p) < p
      <3>1. p \in L
        BY <1>1, <1>2 DEF L
      <3> QED
        BY <3>1, <1>5
    <2>2. w[ParentOf(p)] = d[ParentOf(p)]
      BY <1>1, <1>2, <1>3, <2>1
    <2>3. ~Above(d[p], d[ParentOf(p)])
      BY <1>1, <1>2, <1>6, <2>1
    <2>4. CASE j = i
      BY <1>3, <2>2, <2>3, <2>4
    <2>5. CASE j # i
      <3>1. j \in 1..Len(d) /\ j # p
        BY <1>1, <1>2, <1>5
      <3>2. w[j] = d[j] /\ ~Above(d[j], d[p])
        BY <1>3, <1>6, <2>5, <3>1
      <3>3. d[j] \in Pair /\ d[p] \in Pair /\ d[ParentOf(p)] \in Pair
        BY <1>2, <1>4, <2>1, <3>1
      <3>4. ~Above(d[j], d[ParentOf(p)])
        BY <2>3, <3>2, <3>3, AboveOrder
      <3> QED
        BY <2>2, <3>2, <3>4
    <2> QED
      BY <2>4, <2>5
  <1>11. UpOk(w, p)
    BY <1>2, <1>3, <1>9, <1>10 DEF UpOk, L
  <1> QED
    BY <1>2, <1>11 DEF w, p

LEMMA UpEnd ==
  ASSUME NEW d, NEW i, UpOk(d, i), i = 1 \/ ~Above(d[i], d[ParentOf(i)])
  PROVE  HeapOrdered(d)
  BY DEF UpOk, HeapOrdered

\* The children of i, and what Target chooses among them and i.
LEMMA TargetFacts ==
  ASSUME NEW d \in Seq(Pair), NEW i \in 1..Len(d)
  PROVE  /\ Target(d, i) \in i..Len(d)
         /\ Target(d, i) # i => (ParentOf(Target(d, i)) = i /\ Above(d[Target(d, i)], d[i]))
         /\ \A j \in 2..Len(d) : ParentOf(j) = i => ~Above(d[j], d[Target(d, i)])
  <1> DEFINE l == 2 * i
             t == IF l <= Len(d) /\ Above(d[l], d[i]) THEN l ELSE i
             u == IF l + 1 <= Len(d) /\ Above(d[l + 1], d[t]) THEN l + 1 ELSE t
  <1>1. Target(d, i) = u
    BY DEF Target
  <1>2. i \in Int /\ i >= 1 /\ l \in Int /\ l > i /\ Len(d) \in Nat /\ i <= Len(d)
    OBVIOUS
  <1>3. \A k \in 1..Len(d) : d[k] \in Pair
    OBVIOUS
  <1>4. \A j \in 2..Len(d) : ParentOf(j) = i <=> (j = l \/ j = l + 1)
    BY <1>2, Parents
  <1>5. t \in i..Len(d) /\ d[t] \in Pair /\ (t = l \/ t = i)
    BY <1>2, <1>3
  <1>6. (t # i => Above(d[t], d[i])) /\ ~Above(d[i], d[t])
    <2>1. CASE l <= Len(d) /\ Above(d[l], d[i])
      <3>1. t = l /\ d[l] \in Pair /\ d[i] \in Pair
        BY <1>2, <1>3, <2>1
      <3> QED
        BY <2>1, <3>1, AboveOrder
    <2>2. CASE ~(l <= Len(d) /\ Above(d[l], d[i]))
      <3>1. t = i /\ d[i] \in Pair
        BY <1>2, <1>3, <2>2
      <3> QED
        BY <3>1, AboveOrder
    <2> QED
      BY <2>1, <2>2
  <1>7. l <= Len(d) => ~Above(d[l], d[t])
    <2>1. CASE l <= Len(d) /\ Above(d[l], d[i])
      <3>1. t = l /\ d[l] \in Pair
        BY <1>2, <1>3, <2>1
      <3> QED
        BY <3>1, AboveOrder
    <2>2. CASE ~(l <= Len(d) /\ Above(d[l], d[i]))
      BY <2>2
    <2> QED
      BY <2>1, <2>2
  <1> HIDE DEF t, l
  <1>8. CASE l + 1 <= Len(d) /\ Above(d[l + 1], d[t])
    <2>1. u = l + 1 /\ l + 1 \in 1..Len(d) /\ l \in 1..Len(d) /\ i \in 1..Len(d)
      BY <1>2, <1>8
    <2>2. d[l + 1] \in Pair /\ d[l] \in Pair /\ d[i] \in Pair /\ d[t] \in Pair
      BY <1>3, <1>5, <2>1
    <2>3. Above(d[l + 1], d[i])
      <3>1. CASE t = i
        BY <1>8, <3>1
      <3>2. CASE t # i
        BY <1>6, <1>8, <2>2, <3>2, AboveOrder
      <3> QED
        BY <3>1, <3>2
    <2>4. ~Above(d[l + 1], d[l + 1]) /\ ~Above(d[l], d[l + 1])
      <3>1. ~Above(d[l + 1], d[l + 1]) /\ ~Above(d[t], d[l + 1])
        BY <1>8, <2>2, AboveOrder
      <3>2. ~Above(d[l], d[t])
        BY <1>2, <1>7, <2>1
      <3> QED
        BY <2>2, <3>1, <3>2, AboveOrder
    <2>5. u \in i..Len(d) /\ ParentOf(u) = i
      <3>1. l + 1 \in 2..Len(d) /\ l + 1 \in i..Len(d)
        BY <1>2, <2>1
      <3>2. ParentOf(l + 1) = i
        BY <1>4, <3>1
      <3> QED
        BY <2>1, <3>1, <3>2
    <2> QED
      BY <1>1, <1>4, <2>1, <2>3, <2>4, <2>5
  <1>9. CASE ~(l + 1 <= Len(d) /\ Above(d[l + 1], d[t]))
    <2>1. u = t
      BY <1>9
    <2>2. \A j \in 2..Len(d) : ParentOf(j) = i => ~Above(d[j], d[t])
      BY <1>2, <1>4, <1>7, <1>9
    <2>3. t # i => ParentOf(t) = i
      BY <1>2, <1>4, <1>5
    <2> QED
      BY <1>1, <1>5, <1>6, <2>1, <2>2, <2>3
  <1> QED
    BY <1>8, <1>9

LEMMA DownSwap ==
  ASSUME NEW d, NEW i, DownOk(d, i), Target(d, i) # i
  PROVE  DownOk(Swapped(d, i, Target(d, i)), Target(d, i)) /\ i < Target(d, i)
  <1> DEFINE t == Target(d, i)
             w == Swapped(d, i, t)
             L == 2..Len(d)
  <1>1. d \in Seq(Pair) /\ i \in 1..Len(d) /\ Len(d) \in Nat
    BY DEF DownOk
  <1>2. /\ t \in 1..Len(d) /\ i < t /\ ParentOf(t) = i /\ Above(d[t], d[i])
        /\ \A j \in L : ParentOf(j) = i => ~Above(d[j], d[t])
    BY <1>1, TargetFacts
  <1>3. /\ w \in Seq(Pair) /\ Len(w) = Len(d) /\ w[i] = d[t] /\ w[t] = d[i]
        /\ \A k \in 1..Len(d) : (k # i /\ k # t) => w[k] = d[k]
    BY <1>1, <1>2, SwappedFacts
  <1>4. \A k \in 1..Len(d) : d[k] \in Pair
    BY <1>1
  <1>5. \A j \in L : ParentOf(j) \in 1..Len(d) /\ ParentOf(j) < j /\ j \in 1..Len(d)
    BY <1>1, Parents
  <1>6. \A j \in L : ParentOf(j) # i => ~Above(d[j], d[ParentOf(j)])
    BY DEF DownOk
  <1>7. i # 1 => \A j \in L : ParentOf(j) = i => ~Above(d[j], d[ParentOf(i)])
    BY DEF DownOk, Sheltered
  <1>8. t \in L
    BY <1>1, <1>2
  <1> HIDE DEF w, t, L
  <1>9. ASSUME NEW j \in L, ParentOf(j) # t PROVE ~Above(w[j], w[ParentOf(j)])
    <2>1. j \in 1..Len(d) /\ ParentOf(j) \in 1..Len(d) /\ ParentOf(j) < j
      BY <1>5
    <2>2. CASE j = t
      <3>1. ~Above(d[i], d[t])
        BY <1>1, <1>2, <1>4, AboveOrder
      <3> QED
        BY <1>2, <1>3, <2>2, <3>1
    <2>3. CASE j # t /\ ParentOf(j) = i
      <3>1. w[j] = d[j]
        BY <1>1, <1>3, <2>1, <2>3
      <3> QED
        BY <1>2, <1>3, <2>3, <3>1
    <2>4. CASE j = i
      <3>1. i # 1 /\ w[j] = d[t] /\ w[ParentOf(j)] = d[ParentOf(i)]
        BY <1>1, <1>2, <1>3, <1>9, <2>1, <2>4 DEF L
      <3>2. ~Above(d[t], d[ParentOf(i)])
        BY <1>2, <1>7, <1>8, <3>1
      <3> QED
        BY <3>1, <3>2
    <2>5. CASE j # t /\ j # i /\ ParentOf(j) # i
      <3>1. w[j] = d[j] /\ w[ParentOf(j)] = d[ParentOf(j)]
        BY <1>3, <1>9, <2>1, <2>5
      <3> QED
        BY <1>6, <2>5, <3>1
    <2> QED
      BY <2>2, <2>3, <2>4, <2>5
  <1>10. Sheltered(w, t)
    <2> SUFFICES ASSUME NEW j \in L, ParentOf(j) = t
                 PROVE  ~Above(w[j], w[ParentOf(t)])
      BY <1>3 DEF Sheltered, L
    <2>1. j \in 1..Len(d) /\ j # t /\ j # i
      BY <1>1, <1>2, <1>5
    <2>2. w[j] = d[j] /\ w[ParentOf(t)] = d[t]
      BY <1>2, <1>3, <2>1
    <2>3. ~Above(d[j], d[t])
      BY <1>1, <1>2, <1>6
    <2> QED
      BY <2>2, <2>3
  <1>11. DownOk(w, t)
    BY <1>2, <1>3, <1>9, <1>10 DEF DownOk, L
  <1> QED
    BY <1>2, <1>11 DEF w, t

LEMMA DownEnd ==
  ASSUME NEW d, NEW i, DownOk(d, i), Target(d, i) = i
  PROVE  HeapOrdered(d)
  <1>1. d \in Seq(Pair) /\ i \in 1..Len(d)
    BY DEF DownOk
  <1>2. \A j \in 2..Len(d) : ParentOf(j) = i => ~Above(d[j], d[i])
    BY <1>1, TargetFacts
  <1> QED
    BY <1>2 DEF DownOk, HeapOrdered
-----------------------------------------------------------------------------
(* The heap: the loops *)

Round(way, s) == IF way = "up" THEN Rise(s) ELSE Sink(s)

\* F gives the array and the place after i rounds that begin in s, for every i
\* up to n.
IsRounds(F, way, s, n) == F = [i \in 0..n |-> IF i = 0 THEN s ELSE Round(way, F[i - 1])]

LEMMA RoundsExist ==
  ASSUME NEW way, NEW s
  PROVE  \A n \in Nat : \E F : IsRounds(F, way, s, n)
  <1> DEFINE N == {n \in Nat : \E F : IsRounds(F, way, s, n)}
  <1>1. 0 \in N
    <2>1. IsRounds([i \in 0..0 |-> s], way, s, 0)
      BY DEF IsRounds
    <2> QED
      BY <2>1
  <1>2. ASSUME NEW n \in Nat, n \in N PROVE n + 1 \in N
    <2>1. PICK F : IsRounds(F, way, s, n)
      BY <1>2
    <2> DEFINE G == [i \in 0..(n + 1) |-> IF i <= n THEN F[i] ELSE Round(way, F[n])]
    <2>2. IsRounds(G, way, s, n + 1)
      <3>1. \A i \in 0..n : F[i] = IF i = 0 THEN s ELSE Round(way, F[i - 1])
        BY <2>1 DEF IsRounds
      <3>2. ASSUME NEW i \in 0..(n + 1)
            PROVE  G[i] = IF i = 0 THEN s ELSE Round(way, G[i - 1])
        <4>1. CASE i <= n
          BY <3>1, <4>1
        <4>2. CASE i = n + 1
          BY <4>2
        <4> QED
          BY <4>1, <4>2
      <3> HIDE DEF G
      <3>3. DOMAIN G = 0..(n + 1) /\ G = [i \in 0..(n + 1) |-> G[i]]
        BY DEF G
      <3> QED
        BY <3>2, <3>3 DEF IsRounds
    <2> QED
      BY <2>2
  <1> HIDE DEF N
  <1>3. Nat \subseteq N
    BY <1>1, <1>2, SetInduction
  <1> QED
    BY <1>3 DEF N

\* heapifyUp and heapifyDown are Len(d) rounds.
LEMMA HeapifyUpRounds ==
  ASSUME NEW d \in Seq(Pair), NEW i
  PROVE  \E F : /\ F[0] = [data |-> d, at |-> i]
                /\ \A k \in 1..Len(d) : F[k] = Rise(F[k - 1])
                /\ heapifyUp(d, i) = F[Len(d)].data
  <1> DEFINE n == Len(d)
             s == [data |-> d, at |-> i]
             H == CHOOSE F : F = [k \in 0..n |-> IF k = 0 THEN s ELSE Rise(F[k - 1])]
  <1>0. n \in Nat
    OBVIOUS
  <1>1. \E F : F = [k \in 0..n |-> IF k = 0 THEN s ELSE Rise(F[k - 1])]
    <2>1. PICK F : IsRounds(F, "up", s, n)
      BY <1>0, RoundsExist
    <2>2. F = [k \in 0..n |-> IF k = 0 THEN s ELSE Round("up", F[k - 1])]
      BY <2>1 DEF IsRounds
    <2>3. \A k \in 0..n : Round("up", F[k - 1]) = Rise(F[k - 1])
      BY DEF Round
    <2>4. F = [k \in 0..n |-> IF k = 0 THEN s ELSE Rise(F[k - 1])]
      BY <2>2, <2>3
    <2> QED
      BY <2>4
  <1>2. H = [k \in 0..n |-> IF k = 0 THEN s ELSE Rise(H[k - 1])]
    BY <1>1, Zenon
  <1>3. heapifyUp(d, i) = H[n].data
    BY DEF heapifyUp
  <1> HIDE DEF H, n, s
  <1>4. \A k \in 0..n : H[k] = IF k = 0 THEN s ELSE Rise(H[k - 1])
    BY <1>2, Zenon
  <1>5. H[0] = s /\ \A k \in 1..n : H[k] = Rise(H[k - 1])
    BY <1>0, <1>4
  <1> QED
    BY <1>3, <1>5 DEF n, s

LEMMA HeapifyDownRounds ==
  ASSUME NEW d \in Seq(Pair), NEW i
  PROVE  \E F : /\ F[0] = [data |-> d, at |-> i]
                /\ \A k \in 1..Len(d) : F[k] = Sink(F[k - 1])
                /\ heapifyDown(d, i) = F[Len(d)].data
  <1> DEFINE n == Len(d)
             s == [data |-> d, at |-> i]
             H == CHOOSE F : F = [k \in 0..n |-> IF k = 0 THEN s ELSE Sink(F[k - 1])]
  <1>0. n \in Nat
    OBVIOUS
  <1>1. \E F : F = [k \in 0..n |-> IF k = 0 THEN s ELSE Sink(F[k - 1])]
    <2>1. PICK F : IsRounds(F, "down", s, n)
      BY <1>0, RoundsExist
    <2>2. F = [k \in 0..n |-> IF k = 0 THEN s ELSE Round("down", F[k - 1])]
      BY <2>1 DEF IsRounds
    <2>3. \A k \in 0..n : Round("down", F[k - 1]) = Sink(F[k - 1])
      BY DEF Round
    <2>4. F = [k \in 0..n |-> IF k = 0 THEN s ELSE Sink(F[k - 1])]
      BY <2>2, <2>3
    <2> QED
      BY <2>4
  <1>2. H = [k \in 0..n |-> IF k = 0 THEN s ELSE Sink(H[k - 1])]
    BY <1>1, Zenon
  <1>3. heapifyDown(d, i) = H[n].data
    BY DEF heapifyDown
  <1> HIDE DEF H, n, s
  <1>4. \A k \in 0..n : H[k] = IF k = 0 THEN s ELSE Sink(H[k - 1])
    BY <1>2, Zenon
  <1>5. H[0] = s /\ \A k \in 1..n : H[k] = Sink(H[k - 1])
    BY <1>0, <1>4
  <1> QED
    BY <1>3, <1>5 DEF n, s

\* s comes from d by swaps.
Permuted(w, d) == Len(w) = Len(d) /\ \A e \in Pair : CountOf(w, e) = CountOf(d, e)

\* After k rounds up from i: the loop has ended, or the pair is k places nearer
\* to the front.
Risen(s, d, i, k) ==
    /\ UpOk(s.data, s.at) /\ Permuted(s.data, d)
    /\ (HeapOrdered(s.data) \/ s.at <= i - k)

LEMMA RiseRound ==
  ASSUME NEW d, NEW i \in Int, NEW k \in Int, NEW s, Risen(s, d, i, k)
  PROVE  Risen(Rise(s), d, i, k + 1)
  <1> DEFINE a == s.data
             h == s.at
             p == ParentOf(h)
  <1>1. UpOk(a, h) /\ Permuted(a, d) /\ (HeapOrdered(a) \/ h <= i - k)
    BY DEF Risen
  <1>2. a \in Seq(Pair) /\ h \in 1..Len(a)
    BY <1>1 DEF UpOk
  <1>3. CASE h = 1 \/ ~Above(a[h], a[p])
    <2>1. Rise(s) = s
      BY <1>3 DEF Rise
    <2>2. HeapOrdered(a)
      BY <1>1, <1>3, UpEnd
    <2> QED
      BY <1>1, <2>1, <2>2 DEF Risen
  <1>4. CASE ~(h = 1 \/ ~Above(a[h], a[p]))
    <2>1. Rise(s) = [data |-> Swapped(a, h, p), at |-> p]
      BY <1>4 DEF Rise
    <2>2. UpOk(Swapped(a, h, p), p) /\ p < h
      BY <1>1, <1>4, UpSwap
    <2>3. p \in 1..Len(a) /\ p \in Int /\ h \in Int
      BY <1>2, <1>4, Parents
    <2>4. Permuted(Swapped(a, h, p), d)
      BY <1>1, <1>2, <2>3, SwappedFacts, SwappedCopies DEF Permuted
    <2>5. ~HeapOrdered(a)
      <3>1. h \in 2..Len(a)
        BY <1>2, <1>4
      <3> QED
        BY <1>4, <3>1 DEF HeapOrdered
    <2>6. p <= i - (k + 1)
      BY <1>1, <2>2, <2>3, <2>5
    <2>7. PICK r : r = Rise(s)
      OBVIOUS
    <2>8. r.data = Swapped(a, h, p) /\ r.at = p
      BY <2>1, <2>7
    <2> HIDE DEF a, h, p
    <2>9. Risen(r, d, i, k + 1)
      BY <2>2, <2>4, <2>6, <2>8 DEF Risen
    <2> QED
      BY <2>7, <2>9
  <1> QED
    BY <1>3, <1>4

\* After k rounds down from i: the loop has ended, or the pair is k places
\* further back.
Sunk(s, d, i, k) ==
    /\ DownOk(s.data, s.at) /\ Permuted(s.data, d)
    /\ (HeapOrdered(s.data) \/ s.at >= i + k)

LEMMA SinkRound ==
  ASSUME NEW d, NEW i \in Int, NEW k \in Int, NEW s, Sunk(s, d, i, k)
  PROVE  Sunk(Sink(s), d, i, k + 1)
  <1> DEFINE a == s.data
             h == s.at
             t == Target(a, h)
  <1>1. DownOk(a, h) /\ Permuted(a, d) /\ (HeapOrdered(a) \/ h >= i + k)
    BY DEF Sunk
  <1>2. a \in Seq(Pair) /\ h \in 1..Len(a)
    BY <1>1 DEF DownOk
  <1>3. CASE t = h
    <2>1. Sink(s) = s
      BY <1>3 DEF Sink
    <2>2. HeapOrdered(a)
      BY <1>1, <1>3, DownEnd
    <2> QED
      BY <1>1, <2>1, <2>2 DEF Sunk
  <1>4. CASE t # h
    <2>1. Sink(s) = [data |-> Swapped(a, h, t), at |-> t]
      BY <1>4 DEF Sink
    <2>2. DownOk(Swapped(a, h, t), t) /\ h < t
      BY <1>1, <1>4, DownSwap
    <2>3. t \in 1..Len(a) /\ t \in Int /\ h \in Int /\ ParentOf(t) = h /\ Above(a[t], a[h])
      BY <1>2, <1>4, TargetFacts
    <2>4. Permuted(Swapped(a, h, t), d)
      BY <1>1, <1>2, <2>3, SwappedFacts, SwappedCopies DEF Permuted
    <2>5. ~HeapOrdered(a)
      <3>1. t \in 2..Len(a)
        BY <1>2, <2>2, <2>3
      <3> QED
        BY <2>3, <3>1 DEF HeapOrdered
    <2>6. t >= i + (k + 1)
      BY <1>1, <2>2, <2>3, <2>5
    <2>7. PICK r : r = Sink(s)
      OBVIOUS
    <2>8. r.data = Swapped(a, h, t) /\ r.at = t
      BY <2>1, <2>7
    <2> HIDE DEF a, h, t
    <2>9. Sunk(r, d, i, k + 1)
      BY <2>2, <2>4, <2>6, <2>8 DEF Sunk
    <2> QED
      BY <2>7, <2>9
  <1> QED
    BY <1>3, <1>4

LEMMA HeapifyUpKeeps ==
  ASSUME NEW d, NEW i, UpOk(d, i)
  PROVE  /\ heapifyUp(d, i) \in Seq(Pair) /\ HeapOrdered(heapifyUp(d, i))
         /\ Permuted(heapifyUp(d, i), d)
  <1>1. d \in Seq(Pair) /\ i \in 1..Len(d) /\ i \in Int /\ Len(d) \in Nat
    BY DEF UpOk
  <1>2. PICK F : /\ F[0] = [data |-> d, at |-> i]
                 /\ \A k \in 1..Len(d) : F[k] = Rise(F[k - 1])
                 /\ heapifyUp(d, i) = F[Len(d)].data
    BY <1>1, HeapifyUpRounds
  <1> DEFINE N == {k \in Nat : k <= Len(d) => Risen(F[k], d, i, k)}
  <1>3. 0 \in N
    <2>1. F[0].data = d /\ F[0].at = i /\ Permuted(d, d) /\ i <= i - 0
      BY <1>1, <1>2 DEF Permuted
    <2> QED
      BY <2>1 DEF Risen
  <1>4. ASSUME NEW k \in Nat, k \in N PROVE k + 1 \in N
    <2> SUFFICES ASSUME k + 1 <= Len(d) PROVE Risen(F[k + 1], d, i, k + 1)
      OBVIOUS
    <2>1. k + 1 \in 1..Len(d) /\ (k + 1) - 1 = k /\ k \in Int /\ Risen(F[k], d, i, k)
      BY <1>1, <1>4
    <2>2. F[k + 1] = Rise(F[k])
      BY <1>2, <2>1
    <2> QED
      BY <1>1, <2>1, <2>2, RiseRound
  <1> HIDE DEF N
  <1>5. Nat \subseteq N
    BY <1>3, <1>4, SetInduction
  <1>6. Risen(F[Len(d)], d, i, Len(d))
    BY <1>1, <1>5 DEF N
  <1>7. PICK s : s = F[Len(d)]
    OBVIOUS
  <1>8. UpOk(s.data, s.at) /\ Permuted(s.data, d) /\ (HeapOrdered(s.data) \/ s.at <= i - Len(d))
    BY <1>6, <1>7 DEF Risen
  <1>9. s.data \in Seq(Pair) /\ s.at >= 1 /\ s.at \in Int
    BY <1>8 DEF UpOk
  <1>10. HeapOrdered(s.data)
    BY <1>1, <1>8, <1>9
  <1> QED
    BY <1>2, <1>7, <1>8, <1>9, <1>10

LEMMA HeapifyDownKeeps ==
  ASSUME NEW d, DownOk(d, 1)
  PROVE  /\ heapifyDown(d, 1) \in Seq(Pair) /\ HeapOrdered(heapifyDown(d, 1))
         /\ Permuted(heapifyDown(d, 1), d)
  <1>1. d \in Seq(Pair) /\ Len(d) \in Nat
    BY DEF DownOk
  <1>2. PICK F : /\ F[0] = [data |-> d, at |-> 1]
                 /\ \A k \in 1..Len(d) : F[k] = Sink(F[k - 1])
                 /\ heapifyDown(d, 1) = F[Len(d)].data
    BY <1>1, HeapifyDownRounds
  <1> DEFINE N == {k \in Nat : k <= Len(d) => Sunk(F[k], d, 1, k)}
  <1>3. 0 \in N
    <2>1. F[0].data = d /\ F[0].at = 1 /\ Permuted(d, d) /\ 1 >= 1 + 0
      BY <1>1, <1>2 DEF Permuted
    <2> QED
      BY <2>1 DEF Sunk
  <1>4. ASSUME NEW k \in Nat, k \in N PROVE k + 1 \in N
    <2> SUFFICES ASSUME k + 1 <= Len(d) PROVE Sunk(F[k + 1], d, 1, k + 1)
      OBVIOUS
    <2>1. k + 1 \in 1..Len(d) /\ (k + 1) - 1 = k /\ k \in Int /\ Sunk(F[k], d, 1, k)
      BY <1>1, <1>4
    <2>2. F[k + 1] = Sink(F[k])
      BY <1>2, <2>1
    <2> QED
      BY <1>1, <2>1, <2>2, SinkRound
  <1> HIDE DEF N
  <1>5. Nat \subseteq N
    BY <1>3, <1>4, SetInduction
  <1>6. Sunk(F[Len(d)], d, 1, Len(d))
    BY <1>1, <1>5 DEF N
  <1>7. PICK s : s = F[Len(d)]
    OBVIOUS
  <1>8. DownOk(s.data, s.at) /\ Permuted(s.data, d) /\ (HeapOrdered(s.data) \/ s.at >= 1 + Len(d))
    BY <1>6, <1>7 DEF Sunk
  <1>9. s.data \in Seq(Pair) /\ s.at <= Len(d) /\ s.at \in Int
    BY <1>8 DEF DownOk, Permuted
  <1>10. HeapOrdered(s.data)
    BY <1>1, <1>8, <1>9
  <1> QED
    BY <1>2, <1>7, <1>8, <1>9, <1>10
-----------------------------------------------------------------------------
(* The heap: its operations *)

\* Nothing must be above the first pair.
LEMMA FirstIsTop ==
  ASSUME NEW d \in Seq(Pair), HeapOrdered(d), NEW k \in 1..Len(d)
  PROVE  ~Above(d[k], d[1])
  <1> DEFINE T == {j \in 1..Len(d) : Above(d[j], d[1])}
  <1> SUFFICES ASSUME T # {} PROVE FALSE
    OBVIOUS
  <1>1. T \subseteq Nat
    OBVIOUS
  <1>2. PICK j \in T : \A i \in T : j <= i
    BY <1>1, LeastElement
  <1>3. j \in 1..Len(d) /\ d[j] \in Pair /\ d[1] \in Pair /\ Above(d[j], d[1])
    BY <1>2
  <1>4. j \in 2..Len(d)
    <2>1. j # 1
      BY <1>3, AboveOrder
    <2> QED
      BY <1>3, <2>1
  <1>5. ParentOf(j) \in 1..Len(d) /\ ParentOf(j) < j /\ ParentOf(j) \in Int /\ j \in Int
    BY <1>4, Parents
  <1>6. ParentOf(j) \notin T
    BY <1>2, <1>5
  <1>7. ~Above(d[ParentOf(j)], d[1]) /\ d[ParentOf(j)] \in Pair
    BY <1>5, <1>6
  <1>8. ~Above(d[j], d[ParentOf(j)])
    BY <1>4 DEF HeapOrdered
  <1> QED
    BY <1>3, <1>7, <1>8, AboveOrder

\* What Push appends to is a heap but for its last pair.
LEMMA AppendedUpOk ==
  ASSUME NEW d \in Seq(Pair), HeapOrdered(d), NEW e \in Pair
  PROVE  UpOk(Append(d, e), Len(d) + 1)
  <1> DEFINE w == Append(d, e)
             n == Len(d) + 1
  <1>1. /\ w \in Seq(Pair) /\ Len(w) = n /\ n \in Nat /\ n >= 1
        /\ \A k \in 1..Len(d) : w[k] = d[k]
    BY AppendProperties
  <1> HIDE DEF w
  <1>2. ASSUME NEW j \in 2..n, j # n PROVE ~Above(w[j], w[ParentOf(j)])
    <2>1. j \in 2..Len(d) /\ j \in 1..Len(d) /\ ParentOf(j) \in 1..Len(d)
      BY <1>1, <1>2, Parents
    <2> QED
      BY <1>1, <2>1 DEF HeapOrdered
  <1>3. \A j \in 2..n : ParentOf(j) # n
    BY <1>1, Parents
  <1>4. Sheltered(w, n)
    BY <1>1, <1>3 DEF Sheltered
  <1>5. UpOk(w, n)
    BY <1>1, <1>2, <1>4 DEF UpOk
  <1> QED
    BY <1>5 DEF w, n

\* What Pop leaves is a heap but for its first pair.
LEMMA ShortenedDownOk ==
  ASSUME NEW d \in Seq(Pair), HeapOrdered(d), Len(d) >= 2
  PROVE  DownOk(Shortened(d), 1)
  <1> DEFINE w == Shortened(d)
  <1>1. /\ w \in Seq(Pair) /\ Len(w) = Len(d) - 1 /\ Len(d) \in Nat
        /\ \A k \in 2..(Len(d) - 1) : w[k] = d[k]
    BY ShortenedFacts
  <1> HIDE DEF w
  <1>2. ASSUME NEW j \in 2..Len(w), ParentOf(j) # 1 PROVE ~Above(w[j], w[ParentOf(j)])
    <2>1. /\ j \in 2..Len(d) /\ j \in 2..(Len(d) - 1)
          /\ ParentOf(j) \in 2..(Len(d) - 1)
      <3>1. j \in Int /\ j >= 2 /\ j <= Len(d) - 1
        BY <1>1
      <3>2. ParentOf(j) \in Int /\ 1 <= ParentOf(j) /\ ParentOf(j) < j
        BY <3>1, Parents
      <3> QED
        BY <1>1, <1>2, <3>1, <3>2
    <2> QED
      BY <1>1, <2>1 DEF HeapOrdered
  <1>3. DownOk(w, 1)
    BY <1>1, <1>2 DEF DownOk, Sheltered
  <1> QED
    BY <1>3 DEF w

\* w holds what d holds, and e once more.
HasAlso(w, d, e) ==
    \A f \in Pair : CountOf(w, f) = CountOf(d, f) + (IF e = f THEN 1 ELSE 0)

\* The array after Push.
Pushed(d, e) == heapifyUp(Append(d, e), Len(d) + 1)

LEMMA PushedHeap ==
  ASSUME NEW d \in Seq(Pair), HeapOrdered(d), NEW e \in Pair, NEW w, w = Pushed(d, e)
  PROVE  w \in Seq(Pair) /\ HeapOrdered(w) /\ HasAlso(w, d, e)
  <1>1. UpOk(Append(d, e), Len(d) + 1)
    BY AppendedUpOk
  <1>2. w \in Seq(Pair) /\ HeapOrdered(w) /\ Permuted(w, Append(d, e))
    BY <1>1, HeapifyUpKeeps DEF Pushed
  <1> QED
    BY <1>2, AppendCopies DEF Permuted, HasAlso

LEMMA PoppedHeap ==
  ASSUME data \in Seq(Pair), HeapOrdered(data), data # <<>>, NEW w, w = PoppedData
  PROVE  /\ w \in Seq(Pair) /\ HeapOrdered(w)
         /\ \A f \in Pair : CountOf(w, f) = CountOf(data, f) - (IF data[1] = f THEN 1 ELSE 0)
  <1>1. PICK n \in Nat : n = Len(data)
    OBVIOUS
  <1>2. CASE Len(data) = 1
    <2>1. w = <<>> /\ <<>> \in Seq(Pair) /\ Len(<<>>) = 0
      BY <1>2 DEF PoppedData
    <2>2. HeapOrdered(w)
      BY <2>1 DEF HeapOrdered
    <2>3. ASSUME NEW f \in Pair
          PROVE  CountOf(w, f) = CountOf(data, f) - (IF data[1] = f THEN 1 ELSE 0)
      <3>1. {k \in 1..Len(w) : w[k] = f} = {}
        BY <2>1
      <3>2. CountOf(w, f) = 0
        BY <3>1, FS_EmptySet DEF CountOf
      <3>3. {k \in 1..Len(data) : data[k] = f} = IF data[1] = f THEN {1} ELSE {}
        BY <1>2
      <3>4. CountOf(data, f) = IF data[1] = f THEN 1 ELSE 0
        BY <3>3, FS_EmptySet, FS_Singleton DEF CountOf
      <3> QED
        BY <3>2, <3>4
    <2> QED
      BY <2>1, <2>2, <2>3
  <1>3. CASE Len(data) # 1
    <2>1. Len(data) >= 2
      <3>1. n # 0 /\ n # 1
        BY <1>1, <1>3
      <3>2. n >= 2
        BY <3>1
      <3> QED
        BY <1>1, <3>2
    <2>2. w = heapifyDown(Shortened(data), 1)
      BY <1>3 DEF PoppedData, Shortened
    <2>3. DownOk(Shortened(data), 1)
      BY <2>1, ShortenedDownOk
    <2>4. w \in Seq(Pair) /\ HeapOrdered(w) /\ Permuted(w, Shortened(data))
      BY <2>2, <2>3, HeapifyDownKeeps
    <2> QED
      BY <2>1, <2>4, ShortenedCopies DEF Permuted
  <1> QED
    BY <1>2, <1>3

-----------------------------------------------------------------------------
(* The heap: its specification *)

\* HeapKept needs that the array is a heap between the operations.
HeapInv ==
    /\ data \in Seq(Pair) /\ held \in [Pair -> Nat]
    /\ HeapOrdered(data) /\ PairsKept

\* The order is that of the heap's type, which never changes.
LEMMA OrderStays ==
  ASSUME heapType' = heapType, HeapOrdered(data') PROVE HeapOrdered(data)'
  BY DEF HeapOrdered, Above

LEMMA HeapStep ==
  ASSUME HeapInv, [HeapNext]_heapVars PROVE HeapInv'
  <1>1. data \in Seq(Pair) /\ held \in [Pair -> Nat] /\ HeapOrdered(data) /\ PairsKept
    BY DEF HeapInv
  <1>2. ASSUME NEW e \in Pair, Push(e) PROVE HeapInv'
    <2>1. /\ data' = heapifyUp(Append(data, e), Len(data) + 1)
          /\ held' = [held EXCEPT ![e] = @ + 1] /\ heapType' = heapType
      BY <1>2 DEF Push
    <2>2. PICK w : w = data'
      OBVIOUS
    <2>3. w \in Seq(Pair) /\ HeapOrdered(w) /\ HasAlso(w, data, e)
      <3>1. w = Pushed(data, e)
        BY <2>1, <2>2 DEF Pushed
      <3>2. data \in Seq(Pair) /\ HeapOrdered(data) /\ e \in Pair
        BY <1>1
      <3> QED
        BY <3>1, <3>2, PushedHeap
    <2>4. held' \in [Pair -> Nat] /\ \A f \in Pair : held'[f] = CountOf(data', f)
      BY <1>1, <2>1, <2>2, <2>3 DEF PairsKept, HasAlso
    <2>5. HeapOrdered(data)'
      BY <2>1, <2>2, <2>3, OrderStays
    <2>6. PairsKept'
      BY <2>4 DEF PairsKept, CountOf
    <2> QED
      BY <2>2, <2>3, <2>4, <2>5, <2>6 DEF HeapInv
  <1>3. ASSUME PopTop PROVE HeapInv'
    <2>1. /\ data # <<>> /\ data' = PoppedData /\ heapType' = heapType
          /\ held' = [held EXCEPT ![data[1]] = @ - 1]
      BY <1>3 DEF PopTop
    <2>2. PICK w : w = data'
      OBVIOUS
    <2>3. /\ w \in Seq(Pair) /\ HeapOrdered(w)
          /\ \A f \in Pair : CountOf(w, f) = CountOf(data, f) - (IF data[1] = f THEN 1 ELSE 0)
      BY <1>1, <2>1, <2>2, PoppedHeap
    <2>4. \A f \in Pair : CountOf(w, f) \in Nat
      BY <2>3, FiniteCopies
    <2>5. held' \in [Pair -> Nat] /\ \A f \in Pair : held'[f] = CountOf(data', f)
      BY <1>1, <2>1, <2>2, <2>3, <2>4 DEF PairsKept
    <2>6. HeapOrdered(data)'
      BY <2>1, <2>2, <2>3, OrderStays
    <2>7. PairsKept'
      BY <2>5 DEF PairsKept, CountOf
    <2> QED
      BY <2>2, <2>3, <2>5, <2>6, <2>7 DEF HeapInv
  <1>4. ASSUME UNCHANGED heapVars PROVE HeapInv'
    BY <1>1, <1>4 DEF HeapInv, heapVars, HeapOrdered, Above, PairsKept, CountOf
  <1> QED
    BY <1>2, <1>3, <1>4 DEF HeapNext

LEMMA HeapPop ==
  ASSUME HeapInv PROVE PopTop => \A e \in Pair : held[e] > 0 => ~Above(e, taken')
  <1> SUFFICES ASSUME PopTop, NEW e \in Pair, held[e] > 0 PROVE ~Above(e, taken')
    OBVIOUS
  <1>1. taken' = data[1]
    BY DEF PopTop
  <1>2. CountOf(data, e) > 0 /\ data \in Seq(Pair) /\ HeapOrdered(data)
    BY DEF HeapInv, PairsKept
  <1>3. PICK k \in 1..Len(data) : data[k] = e
    BY <1>2, FiniteCopies
  <1> QED
    BY <1>1, <1>2, <1>3, FirstIsTop

LEMMA HeapInitially == HeapInit => HeapInv
  <1> SUFFICES ASSUME HeapInit PROVE HeapInv
    OBVIOUS
  <1>1. data = <<>> /\ <<>> \in Seq(Pair) /\ Len(<<>>) = 0 /\ held = [e \in Pair |-> 0]
    BY DEF HeapInit
  <1>2. HeapOrdered(data)
    BY <1>1 DEF HeapOrdered
  <1>3. ASSUME NEW e \in Pair PROVE held[e] = CountOf(data, e)
    <2>1. {k \in 1..Len(data) : data[k] = e} = {}
      BY <1>1
    <2> QED
      BY <1>1, <2>1, FS_EmptySet DEF CountOf
  <1> QED
    BY <1>1, <1>2, <1>3 DEF HeapInv, PairsKept

\* The array is a heap between the operations, of every size and for every order
\* of the keys.
THEOREM HeapInvariant == HeapSpec => []HeapInv
  BY HeapInitially, HeapStep, PTL DEF HeapSpec

\* Push and Pop lose and double no pair, and Pop returns one that must be above
\* all others that are held.
THEOREM HeapAlwaysKept == HeapSpec => HeapKept
  <1>1. HeapInv => PairsKept
    BY DEF HeapInv
  <1>2. HeapInv /\ [HeapNext]_heapVars =>
          [PopTop => \A e \in Pair : held[e] > 0 => ~Above(e, taken')]_heapVars
    BY HeapPop
  <1> QED
    BY <1>1, <1>2, HeapInvariant, PTL DEF HeapSpec, HeapKept, PopsFirst
=============================================================================
