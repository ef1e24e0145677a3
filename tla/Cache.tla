-------------------------------- MODULE Cache --------------------------------
(***************************************************************************)
(* The shared cache of pkg/cache: buckets of entries with an expiry or a   *)
(* limit on their number.  Each bucket has a cleaning task in the cache's  *)
(* scheduler.  Two mutexes meet: creating a bucket asks for the            *)
(* scheduler's while it holds the cache's, and a cleaning task asks for    *)
(* the cache's while the scheduler holds its own.                          *)
(*                                                                         *)
(* Another user of the scheduler has tasks of its own names.               *)
(***************************************************************************)
EXTENDS Scheduler, SequencesExt

CONSTANTS
    Bucket,    \* names of buckets
    Key,       \* keys of entries
    Copies,    \* cacheEntry objects of one key; a forgotten one is used again
    MaxQueued, \* bound on the length of the queues
    MaxItems,  \* MaxItems of every bucket; 0 for no limit
    TTL,       \* the lives an entry may be given; 0 for no expiry
    Every,     \* cache.interval
    Proc,      \* goroutines that create buckets
    Loads      \* workloads: the buckets, keys and tasks of others in a behaviour

ASSUME CacheAssumption ==
    /\ Bucket \subseteq Task /\ None \notin Task \cup Proc \cup {"tick"} \cup (Key \X Copies)
    /\ Loads \subseteq [buckets : SUBSET Bucket, keys : SUBSET Key, tasks : SUBSET (Task \ Bucket)]
    /\ MaxItems \in Nat /\ TTL \subseteq Nat /\ Every \in Nat \ {0}

VARIABLES
    load,       \* the workload of this behaviour
    cMutex,     \* holder of cache.mutex as a writer, or None
    bMutex,     \* the bucket whose mutex its cleaning task holds, or None
    asks,       \* the bucket a goroutine is creating
    buckets,    \* keys of cache.buckets
    items,      \* items[b][k]: the entry, or None
    exp,        \* exp of an entry; 0 is the zero time
    ttlQueue, limitQueue,  \* per bucket: pairs of time and entry, as pushed
    rewritten   \* per bucket: keys deleted or set again since the last Clear

bucketVars == <<buckets, items, exp, ttlQueue, limitQueue, rewritten>>
vars == <<load, allSchedVars, cMutex, bMutex, asks, bucketVars>>

\* A cacheEntry: its key, and which of the objects with that key it is.
Entry == Key \X Copies

Present(b) == {k \in Key : items[b][k] # None}

Init ==
    /\ load \in Loads
    /\ SchedInit
    /\ cMutex = None /\ bMutex = None /\ asks = [p \in Proc |-> None]
    /\ buckets = {}
    /\ items = [b \in Bucket |-> [k \in Key |-> None]]
    /\ exp = [e \in Entry |-> 0]
    /\ ttlQueue = [b \in Bucket |-> <<>>] /\ limitQueue = [b \in Bucket |-> <<>>]
    /\ rewritten = [b \in Bucket |-> {}]

-----------------------------------------------------------------------------
(* Creating a bucket *)

\* BucketWithOpts: an existing bucket is returned at once.
BucketCall(p, b) ==
    /\ cMutex = None /\ asks[p] = None /\ b \notin buckets
    /\ cMutex' = p
    /\ asks' = [asks EXCEPT ![p] = b]
    /\ UNCHANGED <<allSchedVars, bMutex, bucketVars>>

\* newBucket schedules the cleaning task, and the bucket is in the map before
\* the mutex is released.
NewBucket(p) ==
    /\ cMutex = p /\ mutex = None
    /\ ScheduleTask(asks[p], Every, 0, FALSE, TRUE)
    /\ buckets' = buckets \cup {asks[p]}
    /\ cMutex' = None
    /\ asks' = [asks EXCEPT ![p] = None]
    /\ UNCHANGED <<now, tickVars, bMutex, items, exp, ttlQueue, limitQueue, rewritten>>

-----------------------------------------------------------------------------
(* Queues: an entry with the least time comes out, whichever it is. *)

Heads(q) == {i \in DOMAIN q : \A j \in DOMAIN q : q[i][1] <= q[j][1]}
Without(q, i) == [j \in 1..(Len(q) - 1) |-> IF j < i THEN q[j] ELSE q[j + 1]]

\* delete(items, key).
Drop(b, k) == [items[b] EXCEPT ![k] = None]

\* The objects something refers to; the others are forgotten.
Referenced ==
    UNION {{items[b][k] : k \in Key} \cup {p[2] : p \in Range(ttlQueue[b] \o limitQueue[b])} :
             b \in Bucket}
Forgetting(x) == exp' = [e \in Entry |-> IF e \in Referenced' THEN x[e] ELSE 0]

-----------------------------------------------------------------------------
(* Entries; each operation runs under the bucket's mutex. *)

\* Mutant of Overwrite: the entry is not put in a queue again.
OverwriteInPlace(b, k, ttl) ==
    LET e == items[b][k] IN
    /\ exp' = [exp EXCEPT ![e] = IF ttl > 0 THEN now + ttl ELSE 0]
    /\ rewritten' = [rewritten EXCEPT ![b] = @ \cup {k}]
    /\ UNCHANGED <<items, ttlQueue, limitQueue>>

\* SetWithTTL of a key that is present.
Overwrite(b, k, ttl) ==
    LET e == items[b][k] IN
    /\ exp' = [exp EXCEPT ![e] = IF ttl > 0 THEN now + ttl ELSE 0]
    /\ IF ttl > 0
       THEN /\ ttlQueue' = [ttlQueue EXCEPT ![b] = Append(@, <<now + ttl, e>>)]
            /\ UNCHANGED limitQueue
       ELSE /\ limitQueue' = [limitQueue EXCEPT ![b] = Append(@, <<now, e>>)]
            /\ UNCHANGED ttlQueue
    /\ rewritten' = [rewritten EXCEPT ![b] = @ \cup {k}]
    /\ UNCHANGED items

Full(b) == MaxItems > 0 /\ Cardinality(Present(b)) >= MaxItems

\* The queues and the map before the new entry: a full bucket loses an entry
\* with an expiry before one without.  With neither the code panics.
Ways(b) ==
    IF ~Full(b) THEN {<<ttlQueue[b], limitQueue[b], items[b]>>}
    ELSE IF ttlQueue[b] # <<>>
    THEN {<<Without(ttlQueue[b], i), limitQueue[b], Drop(b, ttlQueue[b][i][2][1])>> :
            i \in Heads(ttlQueue[b])}
    ELSE {<<ttlQueue[b], Without(limitQueue[b], i), Drop(b, limitQueue[b][i][2][1])>> :
            i \in Heads(limitQueue[b])}

\* SetWithTTL of a new key, with an object that nothing refers to.
Add(b, k, ttl) ==
    LET free == ({k} \X Copies) \ Referenced
        e == CHOOSE c \in free : TRUE
    IN /\ free # {}
       /\ \E w \in Ways(b) :
             /\ ttlQueue' = [ttlQueue EXCEPT ![b] =
                                IF ttl > 0 THEN Append(w[1], <<now + ttl, e>>) ELSE w[1]]
             /\ limitQueue' = [limitQueue EXCEPT ![b] =
                                IF ttl = 0 /\ MaxItems > 0 THEN Append(w[2], <<now, e>>) ELSE w[2]]
             /\ items' = [items EXCEPT ![b] = [w[3] EXCEPT ![k] = e]]
       /\ Forgetting([exp EXCEPT ![e] = IF ttl > 0 THEN now + ttl ELSE 0])
       /\ UNCHANGED rewritten

SetWithTTL(b, k, ttl) ==
    /\ b \in buckets /\ bMutex # b
    /\ Len(ttlQueue[b]) + Len(limitQueue[b]) < MaxQueued
    /\ IF items[b][k] # None THEN Overwrite(b, k, ttl) ELSE Add(b, k, ttl)
    /\ UNCHANGED <<allSchedVars, cMutex, bMutex, asks, buckets>>

\* The entry stays in its queue.
Delete(b, k) ==
    /\ b \in buckets /\ bMutex # b /\ items[b][k] # None
    /\ items' = [items EXCEPT ![b][k] = None]
    /\ rewritten' = [rewritten EXCEPT ![b] = @ \cup {k}]
    /\ UNCHANGED <<allSchedVars, cMutex, bMutex, asks, buckets, ttlQueue, limitQueue>>
    /\ Forgetting(exp)

Clear ==
    /\ cMutex = None /\ bMutex = None
    /\ items' = [b \in Bucket |-> [k \in Key |-> None]]
    /\ ttlQueue' = [b \in Bucket |-> <<>>] /\ limitQueue' = [b \in Bucket |-> <<>>]
    /\ rewritten' = [b \in Bucket |-> {}]
    /\ exp' = [e \in Entry |-> 0]
    /\ UNCHANGED <<allSchedVars, cMutex, bMutex, asks, buckets>>

-----------------------------------------------------------------------------
(* The cleaning task *)

Cleans(b) == executing # Nothing /\ name[executing[2]] = b /\ b \in Bucket

\* Mutant of CleanPop: an entry goes a tick too early.
CleanPopEarly(b) ==
    \E i \in Heads(ttlQueue[b]) :
        LET e == ttlQueue[b][i][2] IN
        /\ ttlQueue[b][i][1] <= now + 1
        /\ items' = [items EXCEPT ![b] = Drop(b, e[1])]
        /\ ttlQueue' = [ttlQueue EXCEPT ![b] = Without(@, i)]

\* One round of the loop: an entry whose expiry was changed leaves the queue;
\* an expired one takes with it what the map has under its key.
CleanPop(b) ==
    \E i \in Heads(ttlQueue[b]) :
        LET e == ttlQueue[b][i][2]
            stale == ttlQueue[b][i][1] # exp[e]
        IN /\ stale \/ exp[e] <= now
           /\ items' = IF stale THEN items ELSE [items EXCEPT ![b] = Drop(b, e[1])]
           /\ ttlQueue' = [ttlQueue EXCEPT ![b] = Without(@, i)]

\* The bucket is looked up under the cache's mutex, and then locked.
CleanBegin(b) ==
    /\ Cleans(b) /\ cMutex = None /\ bMutex = None
    /\ bMutex' = b
    /\ UNCHANGED <<allSchedVars, cMutex, asks, bucketVars>>

Clean(b) ==
    /\ bMutex = b
    /\ CleanPop(b)
    /\ UNCHANGED <<allSchedVars, cMutex, bMutex, asks, buckets, limitQueue, rewritten>>
    /\ Forgetting(exp)

\* Nothing more to pop: the task ends.
CleanEnd(b) ==
    /\ bMutex = b
    /\ \/ ttlQueue[b] = <<>>
       \/ \E i \in Heads(ttlQueue[b]) :
             LET e == ttlQueue[b][i][2] IN ttlQueue[b][i][1] = exp[e] /\ exp[e] > now
    /\ Executed
    /\ bMutex' = None
    /\ UNCHANGED <<cMutex, asks, bucketVars>>

-----------------------------------------------------------------------------
(* The other user of the scheduler: its functions return. *)

UserCalls ==
    /\ load.tasks # {}
    /\ \/ Start \/ Stop
       \/ \E n \in load.tasks : StopTask(n)
       \/ /\ mutex = None
          /\ used + Cardinality(Bucket \ buckets) < MaxDefs
          /\ \E n \in load.tasks, d \in {<<0, 1>>, <<1, 0>>}, overwrite, valid \in BOOLEAN :
                ScheduleTask(n, d[1], d[2], overwrite, valid)
          /\ UNCHANGED <<now, tickVars>>
    /\ UNCHANGED <<cMutex, bMutex, asks, bucketVars>>

UserTaskEnds ==
    /\ executing # Nothing /\ name[executing[2]] \in load.tasks
    /\ Executed
    /\ UNCHANGED <<cMutex, bMutex, asks, bucketVars>>

-----------------------------------------------------------------------------
Ticks == (Tick \/ TickSteps) /\ UNCHANGED <<cMutex, bMutex, asks, bucketVars>>
Time == Tock /\ UNCHANGED <<cMutex, bMutex, asks, bucketVars>>

Next ==
  /\ UNCHANGED load
  /\ \/ Time \/ Ticks \/ UserTaskEnds \/ UserCalls \/ Clear
     \/ \E p \in Proc : NewBucket(p) \/ \E b \in load.buckets : BucketCall(p, b)
     \/ \E b \in Bucket : CleanBegin(b) \/ Clean(b) \/ CleanEnd(b)
     \/ \E b \in load.buckets, k \in load.keys : Delete(b, k) \/ \E ttl \in TTL : SetWithTTL(b, k, ttl)

Spec == Init /\ [][Next]_vars

\* The clock goes on, the ticker's goroutine and the creating ones do, and they
\* get a mutex that is free again and again (Go's mutexes are not starved).
Fairness ==
    /\ WF_vars(Time /\ UNCHANGED load)
    /\ WF_vars(UserTaskEnds /\ UNCHANGED load)
    /\ SF_vars(Ticks /\ UNCHANGED load)
    /\ \A p \in Proc : SF_vars(NewBucket(p) /\ UNCHANGED load)
    /\ \A b \in Bucket : SF_vars((CleanBegin(b) \/ Clean(b) \/ CleanEnd(b)) /\ UNCHANGED load)

FairSpec == Spec /\ Fairness

-----------------------------------------------------------------------------
(* Properties *)

\* The variables of the cache and of its scheduler have their types.
TypeOK ==
    /\ SchedTypeOK /\ load \in Loads
    /\ mutex \in {None, "tick"} /\ bMutex \in Bucket \cup {None} /\ cMutex \in Proc \cup {None}
    /\ asks \in [Proc -> Bucket \cup {None}]
    /\ buckets \subseteq Bucket
    /\ \A b \in Bucket : \A k \in Key : items[b][k] \in Entry \cup {None}
    /\ exp \in [Entry -> Nat]
    /\ \A b \in Bucket : \A q \in {ttlQueue[b], limitQueue[b]} :
          \A i \in DOMAIN q : q[i][1] \in Nat /\ q[i][2] \in Entry

\* Every entry in the map is in a queue under its present expiry: the cleaning
\* task will find it, and a full bucket always has something to evict, so that
\* the panic "no items in limit or ttl queue" is never reached.
EntriesAreQueued ==
    \A b \in Bucket : \A k \in Present(b) :
        LET e == items[b][k]
            in(q, t) == \E i \in DOMAIN q : q[i][2] = e /\ t \in {0, q[i][1]}
        IN /\ e[1] = k
           /\ exp[e] > 0 => in(ttlQueue[b], exp[e])
           /\ (exp[e] = 0 /\ MaxItems > 0) => in(limitQueue[b], 0)

\* MaxItems holds as long as no key was deleted or set again: the entries such
\* keys leave in the queues make room for nothing when they are evicted.
MaxItemsKept ==
    \A b \in Bucket :
        (MaxItems > 0 /\ rewritten[b] = {}) => Cardinality(Present(b)) <= MaxItems

\* The variables have their types, the queues cover the buckets, and the limit on
\* the entries of a bucket is kept.
BucketsKept == TypeOK /\ EntriesAreQueued /\ MaxItemsKept

\* The cleaning task removes what has expired and nothing else, but for keys
\* that were deleted or set again: their old entry can take the new one along.
CleansExpiredOnly ==
    [][\A b \in Bucket : Clean(b) =>
          \A k \in Present(b) \ rewritten[b] :
             items'[b][k] = None => exp[items[b][k]] \in 1..now]_vars

\* Creating a bucket and a cleaning task wait for each other's mutex.
Circle ==
    /\ cMutex # None /\ bMutex = None
    /\ mutex = "tick" /\ executing[2] # None /\ name[executing[2]] \in Bucket

\* The tasks that should have run by now.
Overdue == {p \in pending : p[1] <= now /\ p[2] \notin cancelled}

\* The scheduler always catches up with what is due, the cleaning tasks and the
\* others: unless it is stopped, only the circle of two mutexes prevents it.
DueTasksRun == []<>(Overdue = {} \/ done \/ Circle)

\* Whoever asks for a bucket gets it, unless caught in the circle.
BucketsCreated == []<>(cMutex = None \/ Circle)

\* Only the circle of the two mutexes keeps a task or a bucket waiting.
NothingWaits == DueTasksRun /\ BucketsCreated
=============================================================================
