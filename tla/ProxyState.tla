----------------------------- MODULE ProxyState -----------------------------
(***************************************************************************)
(* A standalone gateway process: change logs applied under proxyLock,      *)
(* persisted, and replayed by the next process after a crash               *)
(* (internal/proxy/proxy_state.go, change_log.go, dynamic_proxy.go).       *)
(*                                                                         *)
(* Admin requests run concurrently.  A request first stamps its change log *)
(* with the time (NewChangeLog), then waits for proxyLock and is applied   *)
(* by processChangeLog; since that function holds the lock to its end, it  *)
(* is one action here.  A failed change starts restartState in a goroutine *)
(* of its own, which takes the lock later, after any number of others.     *)
(***************************************************************************)
EXTENDS Configuration, FiniteSets

CONSTANTS
    Request,      \* bound: the changes that clients ask for
    MaxChanges,   \* bound: change logs submitted by clients
    MaxInFlight,  \* bound: requests that wait at once
    MaxCrashes,   \* bound: crashes of the process
    MaxStoreFails \* bound: StoreChangeLog calls that exhaust their retries

ASSUME BoundsAssumption ==
    /\ Request \subseteq Change
    /\ {MaxChanges, MaxInFlight, MaxCrashes, MaxStoreFails} \subseteq Nat

VARIABLES
    up,             \* the process runs and is ready (Start has finished)
    clock,          \* time.Now().UnixNano(), which never repeats
    inbox,          \* change logs stamped and waiting for proxyLock
    config,         \* the resource manager
    routers,        \* routing table of each namespace
    pendingChanges, \* changes applied since the last reload
    changeLogs,     \* IDs of the change logs this process has applied
    changeHash,     \* the IDs folded into the change hash, in order
    restarts,       \* restartState goroutines waiting for proxyLock
    lock,           \* proxyLock: free, or held by a restartState goroutine
    store,          \* persisted change logs; storage iterates by ID
    accepted,       \* changes that ApplyChangeLog reported as done, in order
    panicked,       \* IDs of stored logs whose processing panicked
    clean,          \* history: no change was applied without being persisted,
                    \* nor persisted without being applied
    submitted, crashes, storeFails

memory == <<config, routers, pendingChanges, changeLogs, changeHash, restarts, lock>>
bounds == <<submitted, crashes, storeFails>>
history == <<accepted, panicked, clean>>
vars == <<up, clock, inbox, memory, store, history, bounds>>

\* The logs of a set as an iteration over the keys finds them: by ID, all of
\* which are below the clock.
ByID(logs) ==
    LET upTo[i \in 0..clock] ==
          IF i = 0 THEN <<>>
          ELSE IF \E l \in logs : l.id = i - 1
               THEN Append(upTo[i - 1], CHOOSE l \in logs : l.id = i - 1)
               ELSE upTo[i - 1]
    IN upTo[clock]

\* Mutant of FetchChangeLogs: the newest log first.
FetchChangeLogsNewestFirst == Reverse(ByID(store))

\* FetchChangeLogs returns the logs in the order of their keys.
FetchChangeLogs == ByID(store)
StoredChanges == [i \in DOMAIN FetchChangeLogs |-> FetchChangeLogs[i].change]
StoredIDs == [i \in DOMAIN FetchChangeLogs |-> FetchChangeLogs[i].id]

NoRouters == [ns \in Namespace |-> NoRoutes]

Init ==
    /\ up = TRUE
    /\ clock = 0
    /\ inbox = {}
    /\ config = InitConfig
    /\ routers = NoRouters
    /\ pendingChanges = FALSE
    /\ changeLogs = <<>>
    /\ changeHash = <<>>
    /\ restarts = 0
    /\ lock = "free"
    /\ store = {}
    /\ accepted = <<>>
    /\ panicked = {}
    /\ clean = TRUE
    /\ submitted = 0 /\ crashes = 0 /\ storeFails = 0

-----------------------------------------------------------------------------
\* An admin handler builds its change log and calls ApplyChangeLog.
NewChangeLog(c) ==
    /\ up
    /\ submitted < MaxChanges /\ Cardinality(inbox) < MaxInFlight
    /\ submitted' = submitted + 1
    /\ inbox' = inbox \cup {[id |-> clock, change |-> c]}
    /\ clock' = clock + 1
    /\ UNCHANGED <<up, memory, store, history, crashes, storeFails>>

\* processChangeLog reloads when the change calls for it or changes are pending,
\* and reloads every namespace in the second case.
Reloads(c) == pendingChanges \/ IsRelatedToRoutes(c)
ReloadFails(S, c) == Reloads(c) /\ SetupRoutesFails(S, c.ns, pendingChanges)

\* The tables after the reload; pendingChanges is reset when it succeeds.
Reload(S, c) ==
    /\ routers' = IF Reloads(c) THEN SetupRoutes(S, routers, c.ns, pendingChanges) ELSE routers
    /\ pendingChanges' = (pendingChanges /\ ReloadFails(S, c))

\* Mutant of Persist: the log is stored under the ID its request came with.
PersistUnrenewed(l) ==
    /\ store' = store \cup {[id |-> l.id, change |-> l.change]}
    /\ changeLogs' = Append(changeLogs, l.id)
    /\ clock' = clock + 1
    /\ UNCHANGED storeFails

\* The deferred functions of a call that ends without an error, in their order:
\* the hash takes the log's own ID, then the log is persisted under a new ID,
\* then it joins changeLogs.
Persist(l) ==
    \/ /\ store' = store \cup {[id |-> clock, change |-> l.change]}
       /\ changeLogs' = Append(changeLogs, l.id)
       /\ clock' = clock + 1
       /\ UNCHANGED storeFails
    \/ /\ storeFails < MaxStoreFails
       /\ storeFails' = storeFails + 1
       /\ clock' = clock + 1
       /\ UNCHANGED <<store, changeLogs>>

\* The change is accepted by the resource manager and by the router.
ProcessAccepted(l) ==
    /\ Outcome(config, l.change) = "ok"
    /\ ~ReloadFails(Changed(config, l.change), l.change)
    /\ config' = Changed(config, l.change)
    /\ Reload(config', l.change)
    /\ changeHash' = Append(changeHash, l.id)
    /\ Persist(l)
    /\ accepted' = IF storeFails' = storeFails THEN Append(accepted, l.change) ELSE accepted
    /\ clean' = (clean /\ storeFails' = storeFails)
    /\ UNCHANGED <<restarts, panicked>>

\* The resource manager takes the change and the router does not: reconfigureState
\* and processChangeLog each start a restart.
ProcessRefusedByRouter(l) ==
    /\ Outcome(config, l.change) = "ok"
    /\ ReloadFails(Changed(config, l.change), l.change)
    /\ config' = Changed(config, l.change)
    /\ Reload(config', l.change)
    /\ restarts' = restarts + 2
    /\ clean' = FALSE
    /\ UNCHANGED <<changeHash, changeLogs, store, clock, accepted, panicked, storeFails>>

\* The resource manager returns an error.
ProcessRefused(l) ==
    /\ Outcome(config, l.change) = "error"
    /\ restarts' = restarts + 1
    /\ UNCHANGED <<config, routers, pendingChanges, changeHash, changeLogs, store,
                   clock, history, storeFails>>

\* The resource manager panics.  err is still nil in the deferred functions, so
\* the log is hashed and persisted; the HTTP server recovers the panic.
ProcessPanics(l) ==
    /\ Outcome(config, l.change) = "panic"
    /\ changeHash' = Append(changeHash, l.id)
    /\ Persist(l)
    /\ panicked' = panicked \cup {l2.id : l2 \in store' \ store}
    /\ clean' = FALSE
    /\ UNCHANGED <<config, routers, pendingChanges, restarts, accepted>>

processChangeLog(l) ==
    /\ up /\ lock = "free"
    /\ inbox' = inbox \ {l}
    /\ \/ ProcessAccepted(l) \/ ProcessRefusedByRouter(l)
       \/ ProcessRefused(l) \/ ProcessPanics(l)
    /\ UNCHANGED <<up, lock, submitted, crashes>>

\* A restartState goroutine gets the lock, clears what it clears (rm.Empty only
\* asks whether the manager is empty), and calls restoreFromChangeLogs, whose
\* first processChangeLog waits for the lock that this goroutine holds.
restartState ==
    /\ up /\ lock = "free" /\ restarts > 0
    /\ lock' = "restarting"
    /\ restarts' = restarts - 1
    /\ changeHash' = <<>>
    /\ pendingChanges' = FALSE
    /\ routers' = NoRouters
    /\ UNCHANGED <<up, clock, inbox, config, changeLogs, store, history, bounds>>

-----------------------------------------------------------------------------
\* The process dies: memory and the requests in flight are gone.
Crash ==
    /\ up
    /\ crashes < MaxCrashes
    /\ crashes' = crashes + 1
    /\ up' = FALSE
    /\ inbox' = {}
    /\ UNCHANGED <<clock, memory, store, history, submitted, storeFails>>

\* NewProxyState and Start: a new process replays the stored change logs and
\* reloads everything.  It is ready only if every log is accepted; an error or
\* a panic ends it.  reconfigureState does not reset pendingChanges.
Start ==
    /\ ~up
    /\ Replayable(StoredChanges)
    /\ ~SetupRoutesFails(Replay(StoredChanges), "", TRUE)
    /\ up' = TRUE
    /\ config' = Replay(StoredChanges)
    /\ routers' = SetupRoutes(config', NoRouters, "", TRUE)
    /\ pendingChanges' = (store # {})
    /\ changeLogs' = StoredIDs
    /\ changeHash' = StoredIDs
    /\ restarts' = 0
    /\ lock' = "free"
    /\ UNCHANGED <<clock, inbox, store, history, bounds>>

Process == \E l \in inbox : processChangeLog(l)

Next ==
    \/ \E c \in Request : NewChangeLog(c)
    \/ Process
    \/ restartState
    \/ Crash
    \/ Start

Spec == Init /\ [][Next]_vars

\* Go's mutex hands the lock to every waiter in turn, goroutines run, and a
\* supervisor starts the process again.
FairSpec ==
    /\ Spec
    /\ \A i \in 0..(2 * MaxChanges) :
          WF_vars(\E l \in inbox : l.id = i /\ processChangeLog(l))
    /\ WF_vars(restartState)
    /\ WF_vars(Start)

-----------------------------------------------------------------------------
(* Properties *)

\* No change has failed since the process started, so no restart is due or stuck.
Settled == up /\ lock = "free" /\ restarts = 0

\* Every variable has its type (the fields of ProxyState and the store).
TypeOK ==
    /\ up \in BOOLEAN /\ clean \in BOOLEAN /\ pendingChanges \in BOOLEAN
    /\ clock \in Nat /\ restarts \in Nat
    /\ \A l \in inbox \cup store : l.id \in 0..clock /\ l.change \in Change
    /\ routers \in [Namespace -> [Route -> Content \cup {Absent}]]
    /\ lock \in {"free", "restarting"}

\* The store holds the changes that clients were told are done, in the order in
\* which they were applied, and beside them only those that panicked: renewing
\* the ID under the lock is what keeps the keys in the order of the changes.
StoreHoldsAccepted ==
    LET kept == ByID({l \in store : l.id \notin panicked})
    IN [i \in DOMAIN kept |-> kept[i].change] = accepted

\* Unless a change was applied and not persisted, the next process accepts every
\* stored log and rebuilds the configuration that this one has.
ReplayRebuildsConfig ==
    clean => /\ Replayable(StoredChanges)
             /\ up => config = Replay(StoredChanges)

\* Once a change is done, each namespace that has routes serves them as they are
\* configured, whether the reload covered one namespace or all.
TablesCurrent ==
    Settled => \A ns \in Namespace :
                  RoutesOf(config, ns) # {} => routers[ns] = config.routes[ns]

\* The change hash stands for the change logs that this process has applied, each
\* under the ID this process knows it by.  It is not the hash of the process
\* before a crash: that one hashed the ID a log came with (change_log.go:66), the
\* next one hashes the renewed ID it was stored under (change_log.go:37).
HashCoversLogs == (clean /\ up /\ lock = "free") => changeHash = changeLogs

\* The variables have their types, a process that follows a crash has the
\* configuration of the one before, and within a process, before and after the
\* crash, the hash stands for the logs applied.
ReplayRebuildsState == TypeOK /\ ReplayRebuildsConfig /\ HashCoversLogs

\* "restart state clears the state and reloads the configuration; this is useful
\* for rollbacks when broken changes are made" (proxy_state.go:335-336).
RestartRollsBack ==
    (restarts > 0) ~> (Settled /\ config = Replay(StoredChanges))
=============================================================================
