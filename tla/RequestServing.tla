--------------------------- MODULE RequestServing ---------------------------
(***************************************************************************)
(* Requests of one route with a JavaScript module, against reloads of its  *)
(* namespace: internal/router/router.go, internal/proxy/module_executor.go,*)
(* request_context.go, proxy_handler.go and setupRoutes.                   *)
(*                                                                         *)
(* A request holds the router's read lock from routing to its last byte.   *)
(* It borrows a module runtime from the pool of the route's provider and   *)
(* returns it at the end; its module may change the state in between       *)
(* (dgate/state), which takes proxyLock.  A change that reloads the        *)
(* namespace holds proxyLock, builds a new provider with a new pool, closes *)
(* the old ones and then takes the router's write lock to replace the mux. *)
(* A change that fails starts restartState, which takes proxyLock for good *)
(* (the subject of ProxyState) and takes the routers away.                 *)
(*                                                                         *)
(* Providers are numbered by the reload that made them.                    *)
(***************************************************************************)
EXTENDS Naturals, FiniteSets

CONSTANTS
    Req,        \* request goroutines
    Admin,      \* the goroutine of an admin change
    Ext,        \* module runtimes (ModuleExtractor)
    MaxBuffers, \* capacity of a pool
    MaxReloads, \* bound: reloads by admin changes
    MaxFails,   \* bound: changes that fail
    Restart,    \* the goroutines of restartState
    None

ASSUME RequestServingAssumption ==
    /\ {Admin, Restart} \cap Req = {} /\ Admin # Restart
    /\ None \notin Req \cup Ext \cup {Admin, Restart}
    /\ {MaxBuffers, MaxReloads, MaxFails} \subseteq Nat

Gen == 0..(MaxReloads + MaxFails + 1)

VARIABLES
    pc,        \* where each request is
    gen,       \* the provider it was routed to
    ext,       \* the runtime it has borrowed
    mux,       \* the provider the router's mux leads to
    provider,  \* the provider in the providers tree, or None
    latest,    \* number of the last provider made
    pool,      \* pool of each provider: "open", "cancelled" or "closed"
    buffer,    \* modExtChan: the runtimes in each pool
    stopped,   \* runtimes that were stopped for good
    lock,      \* owner of proxyLock, or None
    rpc,       \* where the owner of proxyLock is in its reload
    pending,   \* pendingChanges
    reloads,   \* reloads asked for by admin changes
    failures,  \* changes that failed, each of which started restartState
    panicked   \* history: a request has panicked

vars == <<pc, gen, ext, mux, provider, latest, pool, buffer, stopped,
          lock, rpc, pending, reloads, failures, panicked>>

reqVars == <<pc, gen, ext>>
poolVars == <<pool, buffer, stopped>>
reloadVars == <<mux, provider, latest, lock, rpc, pending, reloads, failures>>

\* pending is TRUE after a boot that replayed change logs.
Init ==
    /\ pc = [p \in Req |-> "idle"]
    /\ gen = [p \in Req |-> 0]
    /\ ext = [p \in Req |-> None]
    /\ mux = 0 /\ provider = 0 /\ latest = 0
    /\ pool = [g \in Gen |-> "open"]
    /\ buffer = [g \in Gen |-> {}]
    /\ stopped = {}
    /\ lock = None /\ rpc = "none"
    /\ pending \in BOOLEAN
    /\ reloads = 0 /\ failures = 0
    /\ panicked = FALSE

Goto(p, l) == pc' = [pc EXCEPT ![p] = l]

\* A request holds the router's read lock from Enter to Leave; a waiting writer
\* keeps new readers out.
Readers == {p \in Req : pc[p] \notin {"idle", "door"}}
WriterWaits == rpc = "replace"

-----------------------------------------------------------------------------
(* A request *)

\* ProxyState.ServeHTTP finds the router of the namespace; restartState has cleared
\* the routers, and the request is answered with 404 then.
Route(p) ==
    /\ pc[p] = "idle" /\ lock # Restart
    /\ Goto(p, "door")
    /\ UNCHANGED <<gen, ext, poolVars, reloadVars, panicked>>

\* DynamicRouter.ServeHTTP.
Enter(p) ==
    /\ pc[p] = "door" /\ ~WriterWaits
    /\ Goto(p, "pool")
    /\ gen' = [gen EXCEPT ![p] = mux]
    /\ UNCHANGED <<ext, poolVars, reloadVars, panicked>>

\* provider.ModulePool(): waits for the provider's mutex while Close holds it,
\* and finds nil afterwards, which ends the request with an error.
ModulePool(p) ==
    /\ pc[p] = "pool" /\ pool[gen[p]] # "cancelled"
    /\ Goto(p, IF pool[gen[p]] = "open" THEN "borrow" ELSE "leave")
    /\ UNCHANGED <<gen, ext, poolVars, reloadVars, panicked>>

\* Borrow's look at the pool's context.
BorrowCheck(p) ==
    /\ pc[p] = "borrow"
    /\ Goto(p, IF pool[gen[p]] = "open" THEN "take" ELSE "leave")
    /\ UNCHANGED <<gen, ext, poolVars, reloadVars, panicked>>

\* The runtimes that nobody has: to the program, a new object.
Unused == {e \in Ext : (\A q \in Req : ext[q] # e) /\ (\A g \in Gen : e \notin buffer[g])}
NewExtractor == CHOOSE e \in Unused : TRUE

\* Mutant of BorrowTake: the runtime is used and stays in the pool.
BorrowTakeLeaving(p) ==
    /\ pc[p] = "take"
    /\ \/ \E e \in buffer[gen[p]] : ext' = [ext EXCEPT ![p] = e]
       \/ buffer[gen[p]] = {} /\ Unused # {} /\ ext' = [ext EXCEPT ![p] = NewExtractor]
    /\ Goto(p, "run")
    /\ UNCHANGED <<gen, poolVars, reloadVars, panicked>>

\* Borrow's select: a buffered runtime, nil from a closed channel, a new runtime;
\* or createModExt fails, as it does once restartState has cleared the programs.
BorrowTake(p) ==
    /\ pc[p] = "take"
    /\ \/ \E e \in buffer[gen[p]] :
            /\ buffer' = [buffer EXCEPT ![gen[p]] = @ \ {e}]
            /\ ext' = [ext EXCEPT ![p] = e]
            /\ Goto(p, "run")
            /\ UNCHANGED stopped
       \/ /\ buffer[gen[p]] = {} /\ pool[gen[p]] # "closed"
          /\ Unused # {}
          /\ ext' = [ext EXCEPT ![p] = NewExtractor]
          /\ stopped' = stopped \ {NewExtractor}
          /\ Goto(p, "run")
          /\ UNCHANGED buffer
       \/ /\ buffer[gen[p]] = {}
          /\ Goto(p, "leave")
          /\ UNCHANGED <<ext, buffer, stopped>>
    /\ UNCHANGED <<gen, pool, reloadVars, panicked>>

\* The module runs to its end, or it changes a document or a collection first:
\* the event loop's job waits for proxyLock in ApplyChangeLog, and the request
\* waits for the event loop.  A function that does not return is never given up:
\* the 30 seconds of RunAndWaitForResult are for the promise it returns.
RunModule(p) ==
    /\ pc[p] = "run"
    /\ \E l \in {"return", "write", "spin"} : Goto(p, l)
    /\ UNCHANGED <<gen, ext, poolVars, reloadVars, panicked>>

\* Return's look at the pool's context; a runtime of a cancelled pool is stopped.
ReturnCheck(p) ==
    /\ pc[p] = "return"
    /\ \/ /\ pool[gen[p]] = "open"
          /\ Goto(p, "put")
          /\ UNCHANGED <<ext, stopped>>
       \/ /\ pool[gen[p]] # "open"
          /\ stopped' = stopped \cup {ext[p]}
          /\ ext' = [ext EXCEPT ![p] = None]
          /\ Goto(p, "leave")
    /\ UNCHANGED <<gen, pool, buffer, reloadVars, panicked>>

\* Mutant of ReturnPut: it waits for room in the buffer.
ReturnPutBlocking(p) ==
    /\ pc[p] = "put" /\ Cardinality(buffer[gen[p]]) < MaxBuffers
    /\ buffer' = [buffer EXCEPT ![gen[p]] = @ \cup {ext[p]}]
    /\ ext' = [ext EXCEPT ![p] = None]
    /\ Goto(p, "leave")
    /\ UNCHANGED <<gen, pool, stopped, reloadVars, panicked>>

\* Return's select: into the buffer, or stopped if the buffer is full; a send on
\* a closed channel panics, and the HTTP server recovers.
ReturnPut(p) ==
    /\ pc[p] = "put"
    /\ LET g == gen[p]
           full == Cardinality(buffer[g]) >= MaxBuffers
       IN /\ panicked' = (panicked \/ pool[g] = "closed")
          /\ buffer' = IF pool[g] = "closed" \/ full THEN buffer
                       ELSE [buffer EXCEPT ![g] = @ \cup {ext[p]}]
          /\ stopped' = IF pool[g] # "closed" /\ full THEN stopped \cup {ext[p]} ELSE stopped
    /\ ext' = [ext EXCEPT ![p] = None]
    /\ Goto(p, "leave")
    /\ UNCHANGED <<gen, pool, reloadVars>>

\* The router's read lock is released.
Leave(p) ==
    /\ pc[p] = "leave"
    /\ Goto(p, "idle")
    /\ UNCHANGED <<gen, ext, poolVars, reloadVars, panicked>>

-----------------------------------------------------------------------------
(* Changes under proxyLock *)

\* processChangeLog ends with an error: restartState is started, proxyLock is
\* released, and a module goes on with the error.
ChangeFails ==
    /\ failures < MaxFails
    /\ failures' = failures + 1
    /\ lock' = None /\ rpc' = "none"
    /\ pc' = [p \in Req |-> IF lock = p THEN "return" ELSE pc[p]]

\* A module's change: a document or a collection calls for no reload by itself.
\* It may be refused (a collection that is not there).
ModuleWrite(p) ==
    /\ pc[p] = "write" /\ lock = None
    /\ \/ /\ pending
          /\ lock' = p /\ rpc' = "build"
          /\ Goto(p, "writing")
          /\ UNCHANGED failures
       \/ /\ ~pending
          /\ Goto(p, "return")
          /\ UNCHANGED <<lock, rpc, failures>>
       \/ /\ failures < MaxFails
          /\ failures' = failures + 1
          /\ Goto(p, "return")
          /\ UNCHANGED <<lock, rpc>>
    /\ UNCHANGED <<gen, ext, poolVars, mux, provider, latest, pending, reloads, panicked>>

\* A change of the route, its service or its modules.
AdminChange ==
    /\ lock = None /\ reloads < MaxReloads
    /\ reloads' = reloads + 1
    /\ lock' = Admin /\ rpc' = "build"
    /\ UNCHANGED <<reqVars, poolVars, mux, provider, latest, pending, failures, panicked>>

\* setupRoutes makes a provider with its pool and inserts it; the one it replaces
\* is closed.  A reload of everything clears the tree first, so nothing is closed.
BuildProvider ==
    /\ rpc = "build"
    /\ latest' = latest + 1
    /\ provider' = latest + 1
    /\ \/ /\ ~pending
          /\ pool' = [pool EXCEPT ![provider] = "cancelled"]
          /\ rpc' = "close"
       \/ /\ pending
          /\ rpc' = "paths"
          /\ UNCHANGED pool
    /\ UNCHANGED <<reqVars, mux, buffer, stopped, lock, pending, reloads, failures, panicked>>

\* The change is refused, a module does not compile, or its pool is not made: the
\* reload ends before it touches the provider, of which a reload of everything
\* may have cleared the tree.
BuildFails ==
    /\ rpc = "build"
    /\ ChangeFails
    /\ UNCHANGED <<gen, ext, poolVars, mux, provider, latest, pending, reloads, panicked>>

\* modulePool.Close after its cancel(), and the rest of the provider's Close.
CloseProvider ==
    /\ rpc = "close"
    /\ pool' = [g \in Gen |-> IF pool[g] = "cancelled" THEN "closed" ELSE pool[g]]
    /\ rpc' = "paths"
    /\ UNCHANGED <<reqVars, mux, provider, latest, buffer, stopped, lock, pending,
                   reloads, failures, panicked>>

\* The paths of the route go into the new mux.
HandlePaths ==
    /\ rpc = "paths"
    /\ rpc' = "replace"
    /\ UNCHANGED <<reqVars, poolVars, mux, provider, latest, lock, pending, reloads,
                   failures, panicked>>

\* The methods or a path of the route are refused, with the old provider closed and
\* the old mux still in place.
PathsFail ==
    /\ rpc = "paths"
    /\ ChangeFails
    /\ UNCHANGED <<gen, ext, poolVars, mux, provider, latest, pending, reloads, panicked>>

\* Mutant of ReplaceMux: a router that exists keeps its mux.
ReplaceMuxKeeping ==
    /\ rpc = "replace" /\ Readers = {}
    /\ pending' = FALSE
    /\ lock' = None /\ rpc' = "none"
    /\ UNCHANGED <<reqVars, poolVars, mux, provider, latest, reloads, failures, panicked>>

\* ReplaceMux waits for every reader; then proxyLock is released.
ReplaceMux ==
    /\ rpc = "replace" /\ Readers = {}
    /\ mux' = latest
    /\ pending' = FALSE
    /\ lock' = None /\ rpc' = "none"
    /\ UNCHANGED <<reqVars, poolVars, provider, latest, reloads, failures, panicked>>

\* A goroutine of restartState gets the lock, which it never releases, and clears
\* the routers, the providers and the programs.
restartState ==
    /\ failures > 0 /\ lock = None
    /\ lock' = Restart
    /\ pending' = FALSE
    /\ UNCHANGED <<reqVars, poolVars, mux, provider, latest, rpc, reloads, failures,
                   panicked>>

-----------------------------------------------------------------------------
Step(p) ==
    \/ Enter(p) \/ ModulePool(p) \/ BorrowCheck(p) \/ BorrowTake(p) \/ RunModule(p)
    \/ ReturnCheck(p) \/ ReturnPut(p) \/ Leave(p)

Reload == BuildProvider \/ BuildFails \/ CloseProvider \/ HandlePaths \/ PathsFail \/ ReplaceMux

Next ==
    \/ \E p \in Req : Route(p) \/ Step(p) \/ ModuleWrite(p)
    \/ AdminChange
    \/ Reload
    \/ restartState

Spec == Init /\ [][Next]_vars

\* Goroutines run, and who waits for a lock that stays free gets it.
Fairness ==
    /\ \A p \in Req : WF_vars(Step(p)) /\ WF_vars(ModuleWrite(p))
    /\ WF_vars(Reload)

FairSpec == Spec /\ Fairness

-----------------------------------------------------------------------------
(* Properties *)

\* Every variable has its type (the locals of a request, the pools, the locks).
TypeOK ==
    /\ pc \in [Req -> {"idle", "door", "pool", "borrow", "take", "run", "spin", "write",
                       "writing", "return", "put", "leave"}]
    /\ gen \in [Req -> Gen]
    /\ ext \in [Req -> Ext \cup {None}]
    /\ mux \in Gen /\ provider \in Gen /\ latest \in Gen
    /\ pool \in [Gen -> {"open", "cancelled", "closed"}]
    /\ buffer \in [Gen -> SUBSET Ext]
    /\ stopped \subseteq Ext
    /\ lock \in Req \cup {Admin, Restart, None}
    /\ rpc \in {"none", "build", "close", "paths", "replace"}

\* A JavaScript runtime is in one place: with one request or in one pool, and
\* never after it was stopped.  Two requests in one runtime is what the event
\* loop's "Loop is already started" panics on.
RuntimesExclusive ==
    /\ \A p, q \in Req : (p # q /\ ext[p] # None) => ext[p] # ext[q]
    /\ \A p \in Req, g \in Gen : ext[p] \notin buffer[g]
    /\ \A g, h \in Gen : g # h => buffer[g] \cap buffer[h] = {}
    /\ \A e \in stopped : (\A p \in Req : ext[p] # e) /\ (\A g \in Gen : e \notin buffer[g])

\* Between changes, unless one has failed, the mux leads to the provider in the tree
\* and its pool is open, so a new request of the route gets a runtime.  After a
\* failure the mux may lead to a closed pool (PathsFail), and restartState, which
\* should mend it, takes the routers away and hangs.
RouteServes == (lock = None /\ failures = 0) => (mux = provider /\ pool[mux] = "open")

\* A reload waits for a reader that does not leave: one whose function does not
\* return, one that waits for proxyLock, or the one that reloads.
Circle == rpc = "replace" /\ \E p \in Readers : pc[p] \in {"spin", "write", "writing"}

\* What a request may wait for in vain: its module's function; the new mux of a
\* reload in a circle; proxyLock, held by such a reload or by a restart.
Hangs(p) ==
    \/ pc[p] = "spin"
    \/ Circle /\ pc[p] \in {"door", "write", "writing"}
    \/ lock = Restart /\ pc[p] = "write"

\* Every request ends or hangs in one of these ways: there is no other way for a
\* request to hang, and what is past its module's last change always ends.
RequestsEndOrCircle == \A p \in Req : (pc[p] # "idle") ~> (pc[p] = "idle" \/ Hangs(p))
=============================================================================
