------------------------------- MODULE KeyLock -------------------------------
(***************************************************************************)
(* pkg/util/keylock/keylock.go: one RWMutex per key, created on first use, *)
(* in a map guarded by mapLock.  The resource manager takes Lock(ns) or    *)
(* RLock(ns) around an operation on a namespace and RLockMain around one   *)
(* on everything.                                                          *)
(*                                                                         *)
(* Goroutines interleave between the steps of getLockBy: the lookup under  *)
(* mapLock.RLock and, after a miss, the insertion under mapLock.Lock.      *)
(***************************************************************************)
CONSTANTS
    Goroutine, \* the callers
    LockKey,   \* keys: namespace names
    Mutex,     \* RWMutex objects
    Warm,      \* the keys that are in the map at the start
    WarmLock,  \* and their mutexes
    Ops,       \* which of the four calls the goroutines make
    NoMutex

Calls == {"Lock", "RLock", "LockMain", "RLockMain"}

ASSUME KeyLockAssumption ==
    /\ Warm \subseteq LockKey
    /\ WarmLock \in [Warm -> Mutex]
    /\ Ops \subseteq Calls
    /\ NoMutex \notin Mutex

VARIABLES
    locks,     \* the map from keys to mutexes
    allocated, \* the mutexes allocated so far
    stage,     \* where each goroutine is
    op,        \* the call it makes
    key,       \* with which key
    mtx        \* the mutex getLockBy gave it

lockVars == <<locks, allocated, stage, op, key, mtx>>

LockInit ==
    /\ locks = [k \in LockKey |-> IF k \in Warm THEN WarmLock[k] ELSE NoMutex]
    /\ allocated = {WarmLock[k] : k \in Warm}
    /\ stage = [p \in Goroutine |-> "idle"]
    /\ op \in [Goroutine -> {"Lock"}]
    /\ key \in [Goroutine -> LockKey]
    /\ mtx = [p \in Goroutine |-> NoMutex]

-----------------------------------------------------------------------------
(* mapLock is held across steps only by the Main calls. *)
MainReader(p) == stage[p] = "held" /\ op[p] = "RLockMain"
MainWriter(p) == stage[p] = "held" /\ op[p] = "LockMain"
MapReadable == \A q \in Goroutine : ~MainWriter(q)
MapWritable == \A q \in Goroutine : ~MainWriter(q) /\ ~MainReader(q)

\* Who holds mutex m, and how.
WritesMutex(p, m) == stage[p] = "held" /\ op[p] = "Lock" /\ mtx[p] = m
ReadsMutex(p, m) == stage[p] = "held" /\ op[p] = "RLock" /\ mtx[p] = m

LockGoto(p, l) == stage' = [stage EXCEPT ![p] = l]

Call(p) ==
    /\ stage[p] = "idle"
    /\ \E o \in Ops, k \in LockKey :
          /\ op' = [op EXCEPT ![p] = o]
          /\ key' = [key EXCEPT ![p] = k]
          /\ LockGoto(p, IF o \in {"Lock", "RLock"} THEN "find" ELSE "wait")
    /\ UNCHANGED <<locks, allocated, mtx>>

\* Mutant of findLock: the key is never found.
findLockMissing(p) ==
    /\ stage[p] = "find"
    /\ MapReadable
    /\ LockGoto(p, "create")
    /\ UNCHANGED <<locks, allocated, op, key, mtx>>

\* findLock.
findLock(p) ==
    /\ stage[p] = "find"
    /\ MapReadable
    /\ \/ /\ locks[key[p]] # NoMutex
          /\ mtx' = [mtx EXCEPT ![p] = locks[key[p]]]
          /\ LockGoto(p, "wait")
       \/ /\ locks[key[p]] = NoMutex
          /\ LockGoto(p, "create")
          /\ UNCHANGED mtx
    /\ UNCHANGED <<locks, allocated, op, key>>

\* The rest of getLockBy: the map is not looked at again.
createLock(p) ==
    /\ stage[p] = "create"
    /\ MapWritable
    /\ \E m \in Mutex \ allocated :
          /\ locks' = [locks EXCEPT ![key[p]] = m]
          /\ allocated' = allocated \cup {m}
          /\ mtx' = [mtx EXCEPT ![p] = m]
    /\ LockGoto(p, "wait")
    /\ UNCHANGED <<op, key>>

\* RWMutex.Lock and RWMutex.RLock of the mutex, or of mapLock.
Acquirable(p) ==
    CASE op[p] = "Lock" -> \A q \in Goroutine : ~WritesMutex(q, mtx[p]) /\ ~ReadsMutex(q, mtx[p])
      [] op[p] = "RLock" -> \A q \in Goroutine : ~WritesMutex(q, mtx[p])
      [] op[p] = "LockMain" -> MapWritable
      [] OTHER -> MapReadable

Acquire(p) ==
    /\ stage[p] = "wait"
    /\ Acquirable(p)
    /\ LockGoto(p, "held")
    /\ UNCHANGED <<locks, allocated, op, key, mtx>>

\* Mutant of Unlock: RLockMain has no unlock.
UnlockExceptMain(p) ==
    /\ stage[p] = "held" /\ op[p] # "RLockMain"
    /\ LockGoto(p, "idle")
    /\ mtx' = [mtx EXCEPT ![p] = NoMutex]
    /\ UNCHANGED <<locks, allocated, op, key>>

\* The UnlockFunc.
Unlock(p) ==
    /\ stage[p] = "held"
    /\ LockGoto(p, "idle")
    /\ mtx' = [mtx EXCEPT ![p] = NoMutex]
    /\ UNCHANGED <<locks, allocated, op, key>>

LockStep(p) == Call(p) \/ findLock(p) \/ createLock(p) \/ Acquire(p) \/ Unlock(p)
LockNext == \E p \in Goroutine : LockStep(p)

LockSpec == LockInit /\ [][LockNext]_lockVars

\* Goroutines run, critical sections end, and sync.RWMutex starves nobody: a
\* waiting writer holds up new readers, and a leaving writer lets readers in.
LockFairness ==
    \A p \in Goroutine : /\ SF_lockVars(findLock(p) \/ createLock(p) \/ Acquire(p))
                          /\ WF_lockVars(Unlock(p))

LockFairSpec == LockSpec /\ LockFairness

-----------------------------------------------------------------------------
(* Properties *)

\* Every variable has its type (the fields of KeyLock and the callers' locals).
LockTypeOK ==
    /\ locks \in [LockKey -> Mutex \cup {NoMutex}]
    /\ allocated \subseteq Mutex
    /\ stage \in [Goroutine -> {"idle", "find", "create", "wait", "held"}]
    /\ op \in [Goroutine -> Calls]
    /\ key \in [Goroutine -> LockKey]
    /\ mtx \in [Goroutine -> Mutex \cup {NoMutex}]

Holds(p, k) == stage[p] = "held" /\ op[p] \in {"Lock", "RLock"} /\ key[p] = k

\* Two goroutines are inside with the same key of K only if both only read.
ExclusiveOn(K) ==
    \A p, q \in Goroutine : \A k \in K :
        (p # q /\ Holds(p, k) /\ Holds(q, k)) => (op[p] = "RLock" /\ op[q] = "RLock")

\* A key that is in the map keeps its mutex, so its holders exclude each other
\* whatever else happens to the map.
WarmKeysExclusive == ExclusiveOn(Warm)

\* No call waits for ever: the three kinds of lock cannot block each other in a
\* circle.
CallsReturn == \A p \in Goroutine : (stage[p] # "idle") ~> (stage[p] = "idle")
=============================================================================
