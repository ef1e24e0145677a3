---------------------------- MODULE RequestProofs ----------------------------
(***************************************************************************)
(* Proofs about a request's way through the gateway: RequestServing, for   *)
(* any number of requests, runtimes and reloads and any capacity of the    *)
(* pools; and ServiceProxy, for any number of requests, URLs, retries and  *)
(* reloads.                                                                *)
(*                                                                         *)
(* Almost every step of ServiceProxy changes the record of one request, so *)
(* its inductive invariant is a predicate Kept(p, r) on a request p and    *)
(* its record r, and each action is shown to write a record that satisfies *)
(* it.                                                                     *)
(***************************************************************************)
EXTENDS RequestServing, ServiceProxy, TLAPS

-----------------------------------------------------------------------------
(* RequestServing *)


\* The parts of a request in which it has a runtime.
Holding == {"run", "spin", "write", "writing", "return", "put"}

\* A request has a runtime exactly from Borrow to Return.
HoldsInside == \A p \in Req : (pc[p] \in Holding) <=> (ext[p] # None)

\* proxyLock is held exactly during a reload, or by a restart; a request that holds
\* it is inside its module's change, and so still a reader of the router.
LockOwned ==
    /\ (lock \in {None, Restart}) <=> (rpc = "none")
    /\ lock \in Req => pc[lock] = "writing"

\* Providers are counted by the reloads that make them; a module's reload that
\* ends at all is one that failed.
Counted ==
    /\ reloads \in 0..MaxReloads /\ failures \in 0..MaxFails
    /\ latest + (IF rpc = "build" THEN 1 ELSE 0)
          <= reloads + failures + (IF lock \in Req THEN 1 ELSE 0)

\* The tree holds the latest provider, pools are closed only behind it, and until
\* a change fails the mux follows when the reload ends.
Followed ==
    /\ provider = latest
    /\ \A g \in Gen : g >= latest => pool[g] = "open"
    /\ (rpc \in {"none", "build"} /\ failures = 0) => mux = latest

IInv == TypeOK /\ pending \in BOOLEAN /\ HoldsInside /\ LockOwned /\ Counted /\ Followed
        /\ RuntimesExclusive

-----------------------------------------------------------------------------
LEMMA GenNat == Gen \subseteq Nat /\ MaxReloads \in Nat /\ MaxFails \in Nat /\ MaxBuffers \in Nat
  BY RequestServingAssumption DEF Gen

LEMMA InitInv == Init => IInv
  <1> SUFFICES ASSUME Init PROVE IInv
    OBVIOUS
  <1>1. TypeOK /\ pending \in BOOLEAN
    BY GenNat DEF Init, TypeOK, Gen
  <1>2. HoldsInside
    BY DEF Init, HoldsInside, Holding
  <1>3. LockOwned
    BY RequestServingAssumption DEF Init, LockOwned
  <1>4. Counted /\ Followed
    BY GenNat, RequestServingAssumption DEF Init, Counted, Followed
  <1>5. RuntimesExclusive
    BY DEF Init, RuntimesExclusive
  <1> QED
    BY <1>1, <1>2, <1>3, <1>4, <1>5 DEF IInv

-----------------------------------------------------------------------------
(* Steps of a request leave what a reload works on alone. *)

LEMMA GotoEffect ==
  ASSUME TypeOK, NEW p \in Req, NEW l, Goto(p, l)
  PROVE  pc'[p] = l /\ \A q \in Req : q # p => pc'[q] = pc[q]
  BY DEF TypeOK, Goto

\* A request's own steps neither take nor hold proxyLock.
LEMMA StepKeepsReload ==
  ASSUME IInv, NEW p \in Req, Route(p) \/ Step(p)
  PROVE  /\ UNCHANGED <<reloadVars, pool>>
         /\ lock' \in Req => pc'[lock'] = "writing"
         /\ \A q \in Req : q # p => pc'[q] = pc[q]
  <1>1. UNCHANGED <<reloadVars, pool>> /\ pc[p] # "writing"
    BY DEF Route, Enter, Step, ModulePool, BorrowCheck, BorrowTake, RunModule, ReturnCheck,
           ReturnPut, Leave, reloadVars, poolVars
  <1>2. \E l : Goto(p, l)
    BY DEF Route, Enter, Step, ModulePool, BorrowCheck, BorrowTake, RunModule, ReturnCheck,
           ReturnPut, Leave
  <1>3. \A q \in Req : q # p => pc'[q] = pc[q]
    BY <1>2, GotoEffect DEF IInv
  <1>4. lock' = lock
    BY <1>1 DEF reloadVars
  <1> QED
    BY <1>1, <1>3, <1>4 DEF IInv, LockOwned

LEMMA SameReload ==
  ASSUME IInv, UNCHANGED <<reloadVars, pool>>, lock' \in Req => pc'[lock'] = "writing"
  PROVE  LockOwned' /\ Counted' /\ Followed' /\ (pending \in BOOLEAN)'
  BY DEF IInv, reloadVars, LockOwned, Counted, Followed

\* What a request does with its runtime: nothing, borrow from the pool, make a
\* new one, or give it up to the pool, to a stop, or to a panic.
RuntimeStep(p) ==
    \/ UNCHANGED <<ext, buffer, stopped>> /\ ((pc[p] \in Holding) <=> (pc'[p] \in Holding))
    \/ /\ pc'[p] \in Holding /\ UNCHANGED stopped
       /\ \E e \in buffer[gen[p]] :
            /\ buffer' = [buffer EXCEPT ![gen[p]] = @ \ {e}]
            /\ ext' = [ext EXCEPT ![p] = e]
    \/ /\ pc'[p] \in Holding /\ UNCHANGED buffer
       /\ \E e \in Unused : ext' = [ext EXCEPT ![p] = e] /\ stopped' = stopped \ {e}
    \/ /\ pc[p] \in Holding /\ pc'[p] \notin Holding
       /\ ext' = [ext EXCEPT ![p] = None]
       /\ \/ stopped' = stopped \cup {ext[p]} /\ UNCHANGED buffer
          \/ UNCHANGED <<stopped, buffer>>
          \/ UNCHANGED stopped /\ buffer' = [buffer EXCEPT ![gen[p]] = @ \cup {ext[p]}]

LEMMA RuntimeStepKeeps ==
  ASSUME IInv, NEW p \in Req, RuntimeStep(p),
         \A q \in Req : q # p => pc'[q] = pc[q]
  PROVE  /\ (ext \in [Req -> Ext \cup {None}])' /\ (buffer \in [Gen -> SUBSET Ext])'
         /\ (stopped \subseteq Ext)'
         /\ HoldsInside' /\ RuntimesExclusive'
  <1> DEFINE T == /\ ext \in [Req -> Ext \cup {None}] /\ buffer \in [Gen -> SUBSET Ext]
                  /\ stopped \subseteq Ext
  <1>t. T /\ gen[p] \in Gen /\ HoldsInside /\ RuntimesExclusive
    BY DEF IInv, TypeOK
  <1>n. None \notin Ext
    BY RequestServingAssumption
  <1>1. CASE UNCHANGED <<ext, buffer, stopped>> /\ ((pc[p] \in Holding) <=> (pc'[p] \in Holding))
    BY <1>1, <1>t DEF HoldsInside, RuntimesExclusive
  <1>2. ASSUME pc'[p] \in Holding, UNCHANGED stopped, NEW e \in buffer[gen[p]],
               buffer' = [buffer EXCEPT ![gen[p]] = @ \ {e}],
               ext' = [ext EXCEPT ![p] = e]
        PROVE  T' /\ HoldsInside' /\ RuntimesExclusive'
    <2>1. e \in Ext /\ e # None
      BY <1>2, <1>t, <1>n
    <2>2. T'
      BY <1>2, <1>t, <2>1
    <2>3. HoldsInside'
      BY <1>2, <1>t, <2>1 DEF HoldsInside
    <2>4. RuntimesExclusive'
      BY <1>2, <1>t, <2>1 DEF RuntimesExclusive
    <2> QED
      BY <2>2, <2>3, <2>4
  <1>3. ASSUME pc'[p] \in Holding, UNCHANGED buffer, NEW e \in Unused,
               ext' = [ext EXCEPT ![p] = e], stopped' = stopped \ {e}
        PROVE  T' /\ HoldsInside' /\ RuntimesExclusive'
    <2>1. e \in Ext /\ e # None /\ (\A q \in Req : ext[q] # e) /\ (\A g \in Gen : e \notin buffer[g])
      BY <1>3, <1>n DEF Unused
    <2>2. T'
      BY <1>3, <1>t, <2>1
    <2>3. HoldsInside'
      BY <1>3, <1>t, <2>1 DEF HoldsInside
    <2>4. RuntimesExclusive'
      BY <1>3, <1>t, <2>1 DEF RuntimesExclusive
    <2> QED
      BY <2>2, <2>3, <2>4
  <1>4. ASSUME pc[p] \in Holding, pc'[p] \notin Holding, ext' = [ext EXCEPT ![p] = None],
               \/ stopped' = stopped \cup {ext[p]} /\ UNCHANGED buffer
               \/ UNCHANGED <<stopped, buffer>>
               \/ UNCHANGED stopped /\ buffer' = [buffer EXCEPT ![gen[p]] = @ \cup {ext[p]}]
        PROVE  T' /\ HoldsInside' /\ RuntimesExclusive'
    <2>1. ext[p] \in Ext /\ ext[p] # None
      BY <1>4, <1>t DEF HoldsInside
    <2>2. T'
      BY <1>4, <1>t, <2>1
    <2>3. HoldsInside'
      BY <1>4, <1>t DEF HoldsInside
    <2>4. \A q \in Req : ext'[q] = IF q = p THEN None ELSE ext[q]
      BY <1>4, <1>t
    <2>5. \A g \in Gen : buffer'[g] = buffer[g] \/ buffer'[g] = buffer[g] \cup {ext[p]}
      BY <1>4, <1>t
    <2>6. /\ \A g \in Gen : ext[p] \in buffer'[g] => (g = gen[p] /\ stopped' = stopped)
          /\ stopped' \subseteq stopped \cup {ext[p]}
      BY <1>4, <1>t DEF RuntimesExclusive
    <2>7. \A q, r \in Req : (q # r /\ ext'[q] # None) => ext'[q] # ext'[r]
      BY <1>t, <2>4 DEF RuntimesExclusive
    <2>8. \A q \in Req, g \in Gen : ext'[q] \notin buffer'[g]
      BY <1>t, <1>n, <2>1, <2>4, <2>5 DEF RuntimesExclusive
    <2>9. \A g, h \in Gen : g # h => buffer'[g] \cap buffer'[h] = {}
      BY <1>t, <2>5, <2>6 DEF RuntimesExclusive
    <2>10. \A e \in stopped' : /\ \A q \in Req : ext'[q] # e
                               /\ \A g \in Gen : e \notin buffer'[g]
      <3> SUFFICES ASSUME NEW e \in stopped'
                   PROVE  (\A q \in Req : ext'[q] # e) /\ (\A g \in Gen : e \notin buffer'[g])
        OBVIOUS
      <3>1. e \in Ext /\ e # None
        BY <1>n, <2>2
      <3>2. CASE e = ext[p]
        <4>1. \A q \in Req : ext'[q] # e
          BY <1>t, <2>1, <2>4, <3>1, <3>2 DEF RuntimesExclusive
        <4>2. \A g \in Gen : e \notin buffer'[g]
          BY <1>t, <2>6, <3>2 DEF RuntimesExclusive
        <4> QED
          BY <4>1, <4>2
      <3>3. CASE e # ext[p]
        BY <1>t, <2>4, <2>5, <2>6, <3>1, <3>3 DEF RuntimesExclusive
      <3> QED
        BY <3>2, <3>3
    <2> QED
      BY <2>2, <2>3, <2>7, <2>8, <2>9, <2>10 DEF RuntimesExclusive
  <1> QED
    BY <1>1, <1>2, <1>3, <1>4 DEF RuntimeStep

\* Every step of a request is one of these.
LEMMA StepIsRuntimeStep ==
  ASSUME IInv, NEW p \in Req, Route(p) \/ Step(p)
  PROVE  RuntimeStep(p)
  <1>0. CASE Route(p)
    BY <1>0, GotoEffect DEF IInv, Route, RuntimeStep, Holding, poolVars
  <1>1. CASE Enter(p)
    BY <1>1, GotoEffect DEF IInv, Enter, RuntimeStep, Holding, poolVars
  <1>2. CASE ModulePool(p)
    BY <1>2, GotoEffect DEF IInv, ModulePool, RuntimeStep, Holding, poolVars
  <1>3. CASE BorrowCheck(p)
    BY <1>3, GotoEffect DEF IInv, BorrowCheck, RuntimeStep, Holding, poolVars
  <1>4. CASE BorrowTake(p)
    <2>1. ASSUME Unused # {} PROVE NewExtractor \in Unused
      BY <2>1 DEF NewExtractor
    <2> QED
      BY <1>4, <2>1, GotoEffect DEF IInv, BorrowTake, RuntimeStep, Holding
  <1>5. CASE RunModule(p)
    BY <1>5, GotoEffect DEF IInv, RunModule, RuntimeStep, Holding, poolVars
  <1>6. CASE ReturnCheck(p)
    BY <1>6, GotoEffect DEF IInv, ReturnCheck, RuntimeStep, Holding
  <1>7. CASE ReturnPut(p)
    <2>1. pc[p] \in Holding /\ pc'[p] \notin Holding /\ ext' = [ext EXCEPT ![p] = None]
      BY <1>7, GotoEffect DEF IInv, ReturnPut, Holding
    <2>2. \/ stopped' = stopped \cup {ext[p]} /\ UNCHANGED buffer
          \/ UNCHANGED <<stopped, buffer>>
          \/ UNCHANGED stopped /\ buffer' = [buffer EXCEPT ![gen[p]] = @ \cup {ext[p]}]
      BY <1>7, Zenon DEF ReturnPut
    <2> QED
      BY <2>1, <2>2 DEF RuntimeStep
  <1>8. CASE Leave(p)
    BY <1>8, GotoEffect DEF IInv, Leave, RuntimeStep, Holding, poolVars
  <1> QED
    BY <1>0, <1>1, <1>2, <1>3, <1>4, <1>5, <1>6, <1>7, <1>8 DEF Step

\* The rest of the type invariant, for a step of a request.
LEMMA StepKeepsLocals ==
  ASSUME IInv, NEW p \in Req, Route(p) \/ Step(p)
  PROVE  /\ pc' \in [Req -> {"idle", "door", "pool", "borrow", "take", "run", "spin", "write",
                             "writing", "return", "put", "leave"}]
         /\ gen' \in [Req -> Gen]
  <1>1. CASE Route(p)
    BY <1>1 DEF IInv, TypeOK, Route, Goto
  <1>2. CASE Step(p)
    BY <1>2 DEF IInv, TypeOK, Step, Enter, ModulePool, BorrowCheck, BorrowTake, RunModule,
                ReturnCheck, ReturnPut, Leave, Goto
  <1> QED
    BY <1>1, <1>2

LEMMA RequestKeeps ==
  ASSUME IInv, NEW p \in Req, Route(p) \/ Step(p)
  PROVE  IInv'
  <1>1. /\ UNCHANGED <<reloadVars, pool>>
        /\ lock' \in Req => pc'[lock'] = "writing"
        /\ \A q \in Req : q # p => pc'[q] = pc[q]
    BY StepKeepsReload
  <1>2. LockOwned' /\ Counted' /\ Followed' /\ (pending \in BOOLEAN)'
    BY <1>1, SameReload
  <1>3. RuntimeStep(p)
    BY StepIsRuntimeStep
  <1>4. /\ (ext \in [Req -> Ext \cup {None}])' /\ (buffer \in [Gen -> SUBSET Ext])'
        /\ (stopped \subseteq Ext)'
        /\ HoldsInside' /\ RuntimesExclusive'
    BY <1>1, <1>3, RuntimeStepKeeps
  <1>5. TypeOK'
    BY <1>1, <1>4, StepKeepsLocals DEF IInv, TypeOK, reloadVars
  <1> QED
    BY <1>2, <1>4, <1>5 DEF IInv

-----------------------------------------------------------------------------
(* Changes under proxyLock leave the runtimes alone. *)

LEMMA SameRuntimes ==
  ASSUME IInv, UNCHANGED <<ext, buffer, stopped>>,
         \A q \in Req : (pc[q] \in Holding) <=> (pc'[q] \in Holding)
  PROVE  HoldsInside' /\ RuntimesExclusive'
  BY DEF IInv, HoldsInside, RuntimesExclusive

LEMMA ModuleWriteKeeps ==
  ASSUME IInv, NEW p \in Req, ModuleWrite(p)
  PROVE  IInv'
  <1>1. /\ UNCHANGED <<gen, ext, pool, buffer, stopped, mux, provider, latest, pending,
                      reloads>>
        /\ pc[p] = "write" /\ lock = None /\ rpc = "none"
    BY RequestServingAssumption DEF IInv, LockOwned, ModuleWrite, poolVars
  <1>2. \/ lock' = p /\ rpc' = "build" /\ Goto(p, "writing") /\ failures' = failures
        \/ lock' = None /\ rpc' = "none" /\ Goto(p, "return") /\ failures' = failures
        \/ /\ lock' = None /\ rpc' = "none" /\ Goto(p, "return")
           /\ failures < MaxFails /\ failures' = failures + 1
    BY <1>1 DEF ModuleWrite
  <1>3. HoldsInside' /\ RuntimesExclusive'
    <2>1. \A q \in Req : (pc[q] \in Holding) <=> (pc'[q] \in Holding)
      BY <1>1, <1>2, GotoEffect DEF IInv, Holding
    <2> QED
      BY <1>1, <2>1, SameRuntimes
  <1>4. TypeOK'
    BY <1>1, <1>2 DEF IInv, TypeOK, Goto
  <1>5. LockOwned'
    BY <1>2, GotoEffect, RequestServingAssumption DEF IInv, LockOwned
  <1>6. Counted'
    <2>1. /\ latest \in Nat /\ reloads \in Nat /\ failures \in Nat /\ reloads <= MaxReloads
          /\ failures <= MaxFails
      BY GenNat DEF IInv, TypeOK, Counted, Gen
    <2>2. latest <= reloads + failures
      BY <1>1, <2>1, RequestServingAssumption DEF IInv, Counted
    <2> QED
      BY <1>1, <1>2, <2>1, <2>2, GenNat, RequestServingAssumption DEF Counted
  <1>7. Followed' /\ (pending \in BOOLEAN)'
    BY <1>1, <1>2, GenNat DEF IInv, Followed, Counted
  <1> QED
    BY <1>3, <1>4, <1>5, <1>6, <1>7 DEF IInv

LEMMA AdminChangeKeeps ==
  ASSUME IInv, AdminChange
  PROVE  IInv'
  <1>1. /\ UNCHANGED <<pc, gen, ext, pool, buffer, stopped, mux, provider, latest, pending, failures>>
        /\ lock = None /\ rpc = "none" /\ lock' = Admin /\ rpc' = "build"
        /\ reloads' = reloads + 1 /\ reloads < MaxReloads
    BY RequestServingAssumption DEF IInv, LockOwned, AdminChange, reqVars, poolVars
  <1>2. HoldsInside' /\ RuntimesExclusive'
    BY <1>1, SameRuntimes
  <1>3. TypeOK'
    BY <1>1 DEF IInv, TypeOK
  <1>4. LockOwned'
    BY <1>1, RequestServingAssumption DEF LockOwned
  <1>5. Counted'
    <2>1. latest \in Nat /\ reloads \in Nat /\ failures \in Nat /\ failures <= MaxFails
      BY GenNat DEF IInv, TypeOK, Counted, Gen
    <2>2. latest <= reloads + failures
      BY <1>1, <2>1, RequestServingAssumption DEF IInv, Counted
    <2> QED
      BY <1>1, <2>1, <2>2, GenNat, RequestServingAssumption DEF Counted
  <1>6. Followed' /\ (pending \in BOOLEAN)'
    BY <1>1 DEF IInv, Followed
  <1> QED
    BY <1>2, <1>3, <1>4, <1>5, <1>6 DEF IInv

\* A change that fails releases the lock and takes nothing back: a provider that it
\* made is counted by the failure.
LEMMA ChangeFailsKeeps ==
  ASSUME IInv, BuildFails \/ PathsFail
  PROVE  IInv'
  <1>1. /\ UNCHANGED <<gen, ext, pool, buffer, stopped, mux, provider, latest, pending, reloads>>
        /\ rpc \in {"build", "paths"} /\ rpc' = "none" /\ lock' = None
        /\ failures < MaxFails /\ failures' = failures + 1
        /\ pc' = [p \in Req |-> IF lock = p THEN "return" ELSE pc[p]]
    BY DEF BuildFails, PathsFail, ChangeFails, poolVars
  <1>2. HoldsInside' /\ RuntimesExclusive'
    <2>1. \A q \in Req : (pc[q] \in Holding) <=> (pc'[q] \in Holding)
      BY <1>1 DEF IInv, LockOwned, Holding
    <2> QED
      BY <1>1, <2>1, SameRuntimes
  <1>3. TypeOK'
    <2>1. pc' \in [Req -> {"idle", "door", "pool", "borrow", "take", "run", "spin", "write",
                           "writing", "return", "put", "leave"}]
      BY <1>1 DEF IInv, TypeOK
    <2> QED
      BY <1>1, <2>1 DEF IInv, TypeOK
  <1>4. LockOwned'
    BY <1>1, RequestServingAssumption DEF LockOwned
  <1>5. Counted'
    <2>1. /\ latest \in Nat /\ reloads \in Nat /\ failures \in Nat /\ reloads <= MaxReloads
      BY GenNat DEF IInv, TypeOK, Counted, Gen
    <2>2. latest <= reloads + failures + 1
      BY <1>1, <2>1, RequestServingAssumption DEF IInv, Counted
    <2> QED
      BY <1>1, <2>1, <2>2, GenNat, RequestServingAssumption DEF Counted
  <1>6. Followed' /\ (pending \in BOOLEAN)'
    <2>1. failures' # 0
      BY <1>1, GenNat DEF IInv, Counted
    <2> QED
      BY <1>1, <2>1 DEF IInv, Followed
  <1> QED
    BY <1>2, <1>3, <1>4, <1>5, <1>6 DEF IInv

LEMMA RestartKeeps ==
  ASSUME IInv, restartState
  PROVE  IInv'
  <1>1. /\ UNCHANGED <<pc, gen, ext, pool, buffer, stopped, mux, provider, latest, rpc, reloads, failures>>
        /\ lock = None /\ lock' = Restart /\ pending' = FALSE
    BY DEF restartState, reqVars, poolVars
  <1>2. HoldsInside' /\ RuntimesExclusive'
    BY <1>1, SameRuntimes
  <1>3. TypeOK' /\ LockOwned' /\ Counted'
    BY <1>1, RequestServingAssumption DEF IInv, TypeOK, LockOwned, Counted
  <1>4. Followed' /\ (pending \in BOOLEAN)'
    BY <1>1 DEF IInv, Followed
  <1> QED
    BY <1>2, <1>3, <1>4 DEF IInv

LEMMA BuildProviderKeeps ==
  ASSUME IInv, BuildProvider
  PROVE  IInv'
  <1>1. /\ UNCHANGED <<pc, gen, ext, buffer, stopped, mux, lock, pending, reloads, failures>>
        /\ rpc = "build" /\ rpc' \in {"close", "paths"} /\ lock \notin {None, Restart}
        /\ provider' = latest + 1 /\ latest' = latest + 1
        /\ pool' = pool \/ pool' = [pool EXCEPT ![provider] = "cancelled"]
    BY DEF IInv, LockOwned, BuildProvider, reqVars
  <1>2. /\ latest \in Nat /\ reloads \in Nat /\ reloads <= MaxReloads
        /\ failures \in Nat /\ failures <= MaxFails
        /\ latest + 1 <= reloads + failures + (IF lock \in Req THEN 1 ELSE 0)
        /\ provider = latest
    BY <1>1, GenNat DEF IInv, TypeOK, Counted, Followed, Gen
  <1>3. latest + 1 \in Gen
    BY <1>2, GenNat DEF Gen
  <1>4. HoldsInside' /\ RuntimesExclusive'
    BY <1>1, SameRuntimes
  <1>5. TypeOK'
    BY <1>1, <1>3 DEF IInv, TypeOK
  <1>6. LockOwned'
    BY <1>1 DEF IInv, LockOwned
  <1>7. Counted'
    BY <1>1, <1>2, GenNat DEF IInv, Counted
  <1>8. Followed' /\ (pending \in BOOLEAN)'
    <2>1. ASSUME NEW g \in Gen, g >= latest + 1 PROVE pool'[g] = "open"
      <3>1. g \in Nat /\ g # provider /\ g >= latest
        BY <1>2, <2>1, GenNat
      <3>2. pool[g] = "open"
        BY <3>1 DEF IInv, Followed
      <3> QED
        BY <1>1, <3>1, <3>2 DEF IInv, TypeOK
    <2> QED
      BY <1>1, <2>1 DEF IInv, Followed
  <1> QED
    BY <1>4, <1>5, <1>6, <1>7, <1>8 DEF IInv

LEMMA CloseProviderKeeps ==
  ASSUME IInv, CloseProvider
  PROVE  IInv'
  <1>1. /\ UNCHANGED <<pc, gen, ext, buffer, stopped, mux, provider, latest, lock, pending,
                      reloads, failures>>
        /\ rpc = "close" /\ rpc' = "paths"
        /\ pool' = [g \in Gen |-> IF pool[g] = "cancelled" THEN "closed" ELSE pool[g]]
    BY DEF CloseProvider, reqVars
  <1>2. HoldsInside' /\ RuntimesExclusive'
    BY <1>1, SameRuntimes
  <1>3. TypeOK'
    <2>1. pool' \in [Gen -> {"open", "cancelled", "closed"}]
      BY <1>1 DEF IInv, TypeOK
    <2> QED
      BY <1>1, <2>1 DEF IInv, TypeOK
  <1>4. LockOwned' /\ Counted'
    BY <1>1 DEF IInv, LockOwned, Counted
  <1>5. Followed' /\ (pending \in BOOLEAN)'
    BY <1>1 DEF IInv, Followed
  <1> QED
    BY <1>2, <1>3, <1>4, <1>5 DEF IInv

LEMMA HandlePathsKeeps ==
  ASSUME IInv, HandlePaths
  PROVE  IInv'
  <1>1. /\ UNCHANGED <<pc, gen, ext, pool, buffer, stopped, mux, provider, latest, lock, pending,
                      reloads, failures>>
        /\ rpc = "paths" /\ rpc' = "replace"
    BY DEF HandlePaths, reqVars, poolVars
  <1>2. HoldsInside' /\ RuntimesExclusive'
    BY <1>1, SameRuntimes
  <1>3. TypeOK' /\ LockOwned' /\ Counted'
    BY <1>1 DEF IInv, TypeOK, LockOwned, Counted
  <1>4. Followed' /\ (pending \in BOOLEAN)'
    BY <1>1 DEF IInv, Followed
  <1> QED
    BY <1>2, <1>3, <1>4 DEF IInv

\* The mux is only replaced when no request is inside; so the reload is an admin's.
LEMMA ReplaceMuxKeeps ==
  ASSUME IInv, ReplaceMux
  PROVE  IInv'
  <1>1. /\ UNCHANGED <<pc, gen, ext, pool, buffer, stopped, provider, latest, reloads, failures>>
        /\ rpc = "replace" /\ rpc' = "none" /\ lock' = None
        /\ mux' = latest /\ pending' = FALSE
    BY DEF ReplaceMux, reqVars, poolVars
  <1>2. lock \notin Req
    BY DEF IInv, LockOwned, ReplaceMux, Readers
  <1>3. HoldsInside' /\ RuntimesExclusive'
    BY <1>1, SameRuntimes
  <1>4. TypeOK'
    BY <1>1 DEF IInv, TypeOK
  <1>5. LockOwned' /\ Counted'
    BY <1>1, <1>2, RequestServingAssumption DEF IInv, LockOwned, Counted
  <1>6. Followed' /\ (pending \in BOOLEAN)'
    BY <1>1 DEF IInv, Followed
  <1> QED
    BY <1>3, <1>4, <1>5, <1>6 DEF IInv

-----------------------------------------------------------------------------
LEMMA Stutter == ASSUME IInv, UNCHANGED vars PROVE IInv'
  BY DEF IInv, vars, TypeOK, HoldsInside, LockOwned, Counted, Followed, RuntimesExclusive

\* IInv holds in every state: initially and across every action.
THEOREM Inductive == Spec => []IInv
  <1>1. Init => IInv
    BY InitInv
  <1>2. IInv /\ [Next]_vars => IInv'
    <2> SUFFICES ASSUME IInv, [Next]_vars PROVE IInv'
      OBVIOUS
    <2>1. ASSUME NEW p \in Req, Route(p) \/ Step(p) PROVE IInv'
      BY <2>1, RequestKeeps
    <2>2. ASSUME NEW p \in Req, ModuleWrite(p) PROVE IInv'
      BY <2>2, ModuleWriteKeeps
    <2>3. CASE AdminChange
      BY <2>3, AdminChangeKeeps
    <2>4. CASE BuildProvider
      BY <2>4, BuildProviderKeeps
    <2>5. CASE CloseProvider
      BY <2>5, CloseProviderKeeps
    <2>6. CASE ReplaceMux
      BY <2>6, ReplaceMuxKeeps
    <2>7. CASE UNCHANGED vars
      BY <2>7, Stutter
    <2>8. CASE BuildFails \/ PathsFail
      BY <2>8, ChangeFailsKeeps
    <2>9. CASE HandlePaths
      BY <2>9, HandlePathsKeeps
    <2>10. CASE restartState
      BY <2>10, RestartKeeps
    <2> QED
      BY <2>1, <2>2, <2>3, <2>4, <2>5, <2>6, <2>7, <2>8, <2>9, <2>10 DEF Next, Reload
  <1> QED
    BY <1>1, <1>2, PTL DEF Spec

\* The locals of the requests, the pools and the locks keep their types; in
\* particular the tree of providers always has one for the route.
THEOREM TypeCorrect == Spec => []TypeOK
  <1>1. IInv => TypeOK
    BY DEF IInv
  <1> QED
    BY <1>1, Inductive, PTL

\* No runtime is ever with two requests, in two places, or in use after its stop,
\* whatever the races of Borrow and Return with Close.
THEOREM RuntimesAlwaysExclusive == Spec => []RuntimesExclusive
  <1>1. IInv => RuntimesExclusive
    BY DEF IInv
  <1> QED
    BY <1>1, Inductive, PTL

\* When no change is being applied and none has failed, new requests reach an open
\* pool.  The exception is needed: setupRoutes may fail when it has closed the old
\* provider and not yet replaced the mux.
THEOREM RouteAlwaysServes == Spec => []RouteServes
  <1>1. IInv => RouteServes
    <2> SUFFICES ASSUME IInv, lock = None, failures = 0 PROVE mux = provider /\ pool[mux] = "open"
      BY DEF RouteServes
    <2>1. mux = latest /\ provider = latest /\ latest \in Gen
      BY DEF IInv, LockOwned, Followed, TypeOK
    <2> QED
      BY <2>1, GenNat DEF IInv, Followed
  <1> QED
    BY <1>1, Inductive, PTL

-----------------------------------------------------------------------------
(* ServiceProxy *)


Errors == {"none", "network", "eof", "deadline", "canceled", "module"}
Ended == {"done", "panicked"}
Closing == Ended \cup {"stream"}
Sending == {"try", "await", "silent", "modify_response", "copy", "stream"}
Before == {"idle", "fetch", "modify", "build", "rewrite", "handle"}
Label == Before \cup Sending \cup Ended \cup {"fail", "handle_error", "spin"}

Record == [at : Label, url : Url, target : Url, delivered : Nat, tries : Nat, err : Errors,
           detached : BOOLEAN, sent : Nat, status : Nat, early : BOOLEAN, disturbed : BOOLEAN]

\* The attempts that the transport makes before it gives up.
Allowed(p) == IF p \in Writes THEN 1 ELSE Retries + 1

\* Nothing is attempted before the transport has the request, and the transport
\* gives an error only with the last of the allowed attempts.
Attempts(p, r) ==
    /\ r.at \in Before => r.err = "none" /\ r.tries = 0 /\ r.delivered = 0
    /\ r.at \in Sending => r.err = "none"
    /\ r.at \in {"try", "await", "silent"} => r.tries < Allowed(p)
    /\ r.err \notin {"none", "module"} => r.tries = Allowed(p)
    /\ p \in Writes => r.delivered <= 1 /\ (r.at = "try" => r.delivered = 0)

\* The upstream chosen is in the request's own builder, and then in its URL.
Upstream(p, r) ==
    /\ r.at = "rewrite" => builder[p] = r.url
    /\ r.at \in Sending => r.target = r.url

\* Closing the provider is noted in every request that runs in its context.
Disturbed(r) ==
    /\ closed /\ r.at \notin {"idle", "done", "panicked"} => r.disturbed
    /\ r.err = "canceled" => r.disturbed

\* The tracker has what was sent; before the end, or the body of the upstream's
\* answer, only a function that answered too early has made it send anything.
Tracked(r) ==
    /\ r.early \/ r.status = r.sent
    /\ (r.status = 0) <=> (r.sent = 0)
    /\ r.at \notin Closing /\ r.status # 0 => r.early
    /\ r.at = "stream" => r.status # 0

\* Where a request can be, and with which error.
Phases(r) ==
    /\ r.at \in {"handle", "handle_error"} => ~route.service
    /\ r.at = "handle_error" => r.err = "module"
    /\ r.detached /\ r.at \notin {"copy", "stream", "done", "spin"} => r.err = "module"
    /\ r.at = "spin" => route.module

\* What the end of a request looks like.
EndOf(r) ==
    /\ r.at = "done" => \/ HeadersSent(r)
                        \/ ~route.service /\ r.err = "module" /\ "errorHandler" \in route.fns
    /\ r.at = "panicked" => "errorHandler" \notin route.fns /\ r.err = "module"

Kept(p, r) ==
    /\ r \in Record
    /\ Attempts(p, r) /\ Upstream(p, r) /\ Disturbed(r) /\ Tracked(r) /\ Phases(r) /\ EndOf(r)

Types ==
    /\ route \in [service : BOOLEAN, module : BOOLEAN, fns : SUBSET Fn, timeout : BOOLEAN]
    /\ req \in [Request -> Record]
    /\ ~route.module => route.fns = {}
    /\ builder \in [Request \cup {"shared"} -> Url]
    /\ closed \in BOOLEAN /\ newProviders \in 0..MaxNewProviders

ProxyInv == Types /\ \A p \in Request : Kept(p, req[p])

-----------------------------------------------------------------------------
LEMMA Constants == First \in Url /\ Writes \subseteq Request /\ Retries \in Nat /\ MaxNewProviders \in Nat
                   /\ "shared" \notin Request
  BY ServiceProxyAssumption

LEMMA ProxyInitInv == ProxyInit => ProxyInv
  <1> SUFFICES ASSUME ProxyInit PROVE ProxyInv
    OBVIOUS
  <1> DEFINE r0 == [at |-> "idle", url |-> First, target |-> First, delivered |-> 0,
                    tries |-> 0, err |-> "none", detached |-> FALSE, sent |-> 0, status |-> 0,
                    early |-> FALSE, disturbed |-> FALSE]
  <1>1. r0 \in Record
    BY Constants DEF Record, Label, Before, Errors
  <1>2. req = [p \in Request |-> r0]
    BY DEF ProxyInit
  <1>3. ASSUME NEW p \in Request PROVE Kept(p, r0)
    BY <1>1, Constants DEF ProxyInit, Kept, Attempts, Upstream, Disturbed, Tracked, Phases, EndOf,
       Before, Sending, Closing, Ended, HeadersSent
  <1> HIDE DEF r0
  <1>4. Types
    <2>1. req \in [Request -> Record]
      BY <1>1, <1>2
    <2>2. builder \in [Request \cup {"shared"} -> Url]
      BY Constants DEF ProxyInit
    <2>3. route \in [service : BOOLEAN, module : BOOLEAN, fns : SUBSET Fn, timeout : BOOLEAN]
      BY DEF ProxyInit
    <2>4. newProviders \in 0..MaxNewProviders
      BY Constants DEF ProxyInit
    <2>5. closed \in BOOLEAN
      BY DEF ProxyInit
    <2>6. ~route.module => route.fns = {}
      BY DEF ProxyInit
    <2> QED
      BY <2>1, <2>2, <2>3, <2>4, <2>5, <2>6 DEF Types
  <1> QED
    BY <1>2, <1>3, <1>4 DEF ProxyInv

\* A step of one request that writes a record with the invariant keeps it.
LEMMA SetKeeps ==
  ASSUME ProxyInv, NEW p \in Request, NEW r, Set(p, r), Kept(p, r)
  PROVE  ProxyInv'
  <1>1. Types'
    BY DEF ProxyInv, Types, Set, Kept
  <1>2. ASSUME NEW q \in Request PROVE Kept(q, req[q])'
    <2>1. req'[q] = IF q = p THEN r ELSE req[q]
      BY DEF Set, ProxyInv, Types
    <2>2. Kept(q, req'[q])
      BY <2>1 DEF ProxyInv
    <2> QED
      BY <2>2 DEF Set, Kept, Attempts, Upstream, Disturbed, Phases, Tracked, EndOf, HeadersSent, Allowed
  <1> QED
    BY <1>1, <1>2 DEF ProxyInv

\* Fails gives the request a status and ends it.
LEMMA FailsKept ==
  ASSUME NEW p \in Request, NEW r, Kept(p, r), r.at \notin Closing, NEW s \in Nat \ {0}
  PROVE  Kept(p, Fails(r, s))
  BY DEF Kept, Fails, At, WriteHeader, Record, Attempts, Upstream, Disturbed, Tracked, Phases, EndOf,
     HeadersSent, Label, Ended, Closing, Before, Sending, Allowed

\* v is r after something was written: only its statuses and early differ, and
\* a status that was sent first is noted in early.
Wrote(r, v) ==
    /\ v \in Record
    /\ v.at = r.at /\ v.url = r.url /\ v.target = r.target /\ v.delivered = r.delivered
    /\ v.tries = r.tries /\ v.err = r.err /\ v.detached = r.detached /\ v.disturbed = r.disturbed
    /\ r.early => v.early
    /\ v.early \/ v.status = v.sent
    /\ (v.status = 0) <=> (v.sent = 0)

Consistent(r) == r \in Record /\ (r.early \/ r.status = r.sent) /\ ((r.status = 0) <=> (r.sent = 0))

LEMMA HeaderWrote ==
  ASSUME NEW r, Consistent(r), NEW s \in Nat \ {0}
  PROVE  /\ WriteHeader(r, s) \in Record
         /\ WriteHeader(r, s).status = s
         /\ WriteHeader(r, s).sent = IF r.sent = 0 THEN s ELSE r.sent
         /\ WriteHeader(r, s).early = r.early
         /\ ~HeadersSent(r) => Wrote(r, WriteHeader(r, s))
         /\ Wrote(r, [WriteHeader(r, s) EXCEPT !.early = TRUE])
  <1> DEFINE w == [r EXCEPT !.status = s]
             n == IF r.sent = 0 THEN s ELSE r.sent
             h == [w EXCEPT !.sent = n]
  <1>1. r \in Record /\ r.sent \in Nat /\ n \in Nat /\ n # 0 /\ (r.status = 0 => n = s)
    BY DEF Consistent, Record
  <1>2. w \in Record /\ w.sent = r.sent /\ w.status = s
    BY <1>1 DEF Record
  <1>3. WriteHeader(r, s) = h
    BY <1>2 DEF WriteHeader
  <1> HIDE DEF n
  <1>4. h \in Record /\ h.status = s /\ h.sent = n /\ h.early = r.early
    BY <1>1 DEF Record
  <1>5. h.at = r.at /\ h.url = r.url /\ h.target = r.target /\ h.delivered = r.delivered
        /\ h.tries = r.tries /\ h.err = r.err /\ h.detached = r.detached /\ h.disturbed = r.disturbed
    BY <1>1 DEF Record
  <1> HIDE DEF h
  <1>6. ~HeadersSent(r) => Wrote(r, h)
    BY <1>1, <1>4, <1>5 DEF HeadersSent, Wrote
  <1>7. Wrote(r, [h EXCEPT !.early = TRUE])
    BY <1>1, <1>4, <1>5 DEF Record, Wrote
  <1> QED
    BY <1>3, <1>4, <1>6, <1>7 DEF n

\* What has been written can be written on.
LEMMA WroteOn ==
  ASSUME NEW r, NEW v, NEW w, Wrote(r, v), Wrote(v, w)
  PROVE  Wrote(r, w) /\ Consistent(v)
  BY DEF Wrote, Consistent

LEMMA EndWrote ==
  ASSUME NEW r, Consistent(r)
  PROVE  Wrote(r, End(r)) /\ HeadersSent(End(r))
  <1>1. CASE HeadersSent(r)
    BY <1>1 DEF End, Wrote, Consistent
  <1>2. CASE ~HeadersSent(r)
    <2>1. End(r) = WriteHeader(r, 200) /\ 200 \in Nat \ {0}
      BY <1>2 DEF End
    <2>2. PICK s \in Nat \ {0} : s = 200
      OBVIOUS
    <2>3. Wrote(r, WriteHeader(r, s)) /\ WriteHeader(r, s).status = s
      BY <1>2, HeaderWrote
    <2> QED
      BY <2>1, <2>2, <2>3 DEF HeadersSent
  <1> QED
    BY <1>1, <1>2

LEMMA RedirectWrote ==
  ASSUME NEW r, Consistent(r)
  PROVE  Wrote(r, Redirect(r)) /\ HeadersSent(Redirect(r))
  <1> DEFINE h == WriteHeader(r, 307)
  <1>1. h \in Record /\ h.status = 307 /\ h.early = r.early /\ (~HeadersSent(r) => Wrote(r, h))
        /\ Wrote(r, [h EXCEPT !.early = TRUE])
    BY HeaderWrote
  <1>2. Redirect(r) = [h EXCEPT !.early = @ \/ HeadersSent(r)]
    BY DEF Redirect
  <1> HIDE DEF h
  <1>3. CASE HeadersSent(r)
    <2>1. Redirect(r) = [h EXCEPT !.early = TRUE]
      BY <1>2, <1>3
    <2>2. [h EXCEPT !.early = TRUE].status = 307
      BY <1>1 DEF Record
    <2> QED
      BY <1>1, <2>1, <2>2 DEF HeadersSent
  <1>4. CASE ~HeadersSent(r)
    <2>1. h.early \in BOOLEAN /\ (h.early \/ FALSE) = h.early
      BY <1>1 DEF Record
    <2>2. Redirect(r) = [h EXCEPT !.early = h.early]
      BY <1>2, <1>4, <2>1
    <2>3. Redirect(r) = h
      BY <1>1, <2>2 DEF Record
    <2> QED
      BY <1>1, <1>4, <2>3 DEF HeadersSent
  <1> QED
    BY <1>3, <1>4

LEMMA WrittenWrote ==
  ASSUME NEW r, Consistent(r), NEW w \in Writing
  PROVE  /\ Wrote(r, Written(r, w))
         /\ w = "nothing" => Written(r, w) = r
         /\ w # "nothing" => HeadersSent(Written(r, w))
  <1>1. Wrote(r, r)
    BY DEF Wrote, Consistent
  <1>2. Wrote(r, End(r)) /\ HeadersSent(End(r)) /\ Wrote(r, Redirect(r)) /\ HeadersSent(Redirect(r))
    BY EndWrote, RedirectWrote
  <1>3. Consistent(End(r))
    BY <1>2 DEF Wrote, Consistent
  <1>4. Wrote(r, Redirect(End(r))) /\ HeadersSent(Redirect(End(r)))
    BY <1>2, <1>3, RedirectWrote, WroteOn
  <1>5. Written(r, w) = IF w = "nothing" THEN r ELSE IF w = "answer" THEN End(r)
                        ELSE IF w = "redirect" THEN Redirect(r) ELSE Redirect(End(r))
    BY DEF Written, Writing
  <1> QED
    BY <1>1, <1>2, <1>4, <1>5

LEMMA RunsWrote ==
  ASSUME NEW r, Consistent(r), NEW w \in Writing, NEW ok \in BOOLEAN, NEW last \in BOOLEAN
  PROVE  /\ Wrote(r, Runs(r, w, ok, last))
         /\ Runs(r, w, ok, last) = r \/ HeadersSent(Runs(r, w, ok, last))
         /\ Runs(r, w, ok, last) = r \/ (ok /\ last) \/ Runs(r, w, ok, last).early
  <1> DEFINE v == Written(r, w)
             x == w # "nothing" /\ (~ok \/ ~last)
  <1>1. Runs(r, w, ok, last) = [v EXCEPT !.early = @ \/ x]
    BY DEF Runs
  <1>2. Wrote(r, v) /\ (w = "nothing" => v = r) /\ (w # "nothing" => HeadersSent(v)) /\ v \in Record
    BY WrittenWrote DEF Wrote
  <1> HIDE DEF v
  <1>3. CASE x
    <2>1. [v EXCEPT !.early = @ \/ x] = [v EXCEPT !.early = TRUE]
      BY <1>3
    <2>2. Wrote(r, [v EXCEPT !.early = TRUE]) /\ [v EXCEPT !.early = TRUE].early
          /\ [v EXCEPT !.early = TRUE].status = v.status
      BY <1>2 DEF Wrote, Record
    <2> QED
      BY <1>1, <1>2, <1>3, <2>1, <2>2 DEF HeadersSent
  <1>4. CASE ~x
    <2>1. v.early \in BOOLEAN /\ (v.early \/ FALSE) = v.early
      BY <1>2 DEF Record
    <2>2. [v EXCEPT !.early = @ \/ x] = [v EXCEPT !.early = v.early]
      BY <1>4, <2>1
    <2>3. [v EXCEPT !.early = @ \/ x] = v
      BY <1>2, <2>2 DEF Record
    <2> QED
      BY <1>1, <1>2, <1>4, <2>3
  <1> QED
    BY <1>3, <1>4

\* A function that is not the last writes too early, if it writes.
LEMMA RunsKept ==
  ASSUME NEW p \in Request, NEW r, Kept(p, r), r.at \notin Closing,
         NEW w \in Writing, NEW ok \in BOOLEAN, NEW last \in BOOLEAN, ~(ok /\ last)
  PROVE  Kept(p, Runs(r, w, ok, last)) /\ Runs(r, w, ok, last).at = r.at
         /\ Runs(r, w, ok, last).err = r.err
  <1> DEFINE v == Runs(r, w, ok, last)
  <1>1. Consistent(r)
    BY DEF Kept, Tracked, Consistent
  <1>2. Wrote(r, v) /\ (v = r \/ v.early)
    BY <1>1, RunsWrote
  <1> HIDE DEF v
  <1>3. CASE v = r
    BY <1>3 DEF v
  <1>4. CASE v.early
    <2>1. Attempts(p, v) /\ Upstream(p, v) /\ Disturbed(v)
      BY <1>2 DEF Wrote, Kept, Attempts, Upstream, Disturbed
    <2>2. Tracked(v) /\ Phases(v) /\ EndOf(v)
      BY <1>2, <1>4 DEF Wrote, Kept, Tracked, Phases, EndOf, Closing, Ended
    <2> QED
      BY <1>2, <2>1, <2>2 DEF Wrote, Kept, v
  <1> QED
    BY <1>2, <1>3, <1>4

\* Until the builder has it, the URL may change.
LEMMA UrlKept ==
  ASSUME NEW p \in Request, NEW r, Kept(p, r), r.at = "fetch", NEW u \in Url
  PROVE  Kept(p, [r EXCEPT !.url = u])
  BY DEF Kept, Record, Attempts, Upstream, Disturbed, Tracked, Phases, EndOf,
     HeadersSent, Closing, Ended, Before, Sending, Allowed

\* Going on to a phase before the transport.
LEMMA BeforeKept ==
  ASSUME NEW p \in Request, NEW r, Kept(p, r), r.at \in Before, r.at # "idle" \/ (closed => r.disturbed),
         NEW l \in {"fetch", "modify", "build", "handle"}, l = "handle" => ~route.service
  PROVE  Kept(p, At(r, l))
  <1>1. At(r, l) = [r EXCEPT !.at = l] /\ r \in Record /\ l \in Label
    BY DEF Kept, At, Label, Before
  <1>2. At(r, l) \in Record /\ At(r, l).at = l
    BY <1>1 DEF Record
  <1> QED
    BY <1>1, <1>2 DEF Kept, Record, Attempts, Upstream, Disturbed, Tracked, Phases, EndOf,
     HeadersSent, Closing, Ended, Before, Sending, Allowed

LEMMA EnterInv == ASSUME ProxyInv, NEW p \in Request, Arrive(p) PROVE ProxyInv'
  <1> DEFINE r == [req[p] EXCEPT !.disturbed = closed]
  <1>1. Kept(p, req[p]) /\ req[p].at = "idle" /\ closed \in BOOLEAN
    BY DEF ProxyInv, Types, Arrive
  <1>2. Kept(p, r) /\ r.at = "idle" /\ r.disturbed = closed
    BY <1>1 DEF Kept, Record, Attempts, Upstream, Disturbed, Tracked, Phases, EndOf,
     HeadersSent, Label, Closing, Ended, Before, Sending, Allowed
  <1> HIDE DEF r
  <1>3. CASE closed /\ route.module
    <2>1. Kept(p, Fails(r, 500))
      BY <1>2, FailsKept DEF Closing, Ended
    <2>2. Set(p, Fails(r, 500))
      BY <1>3 DEF Arrive, r
    <2> QED
      BY <2>1, <2>2, SetKeeps
  <1>4. CASE ~(closed /\ route.module)
    <2> DEFINE l == IF route.service THEN "fetch" ELSE "modify"
    <2>1. Kept(p, At(r, l))
      BY <1>2, BeforeKept, Constants DEF Before
    <2>2. Set(p, At(r, l))
      BY <1>4 DEF Arrive, r
    <2> QED
      BY <2>1, <2>2, SetKeeps
  <1> QED
    BY <1>3, <1>4

LEMMA FetchInv == ASSUME ProxyInv, NEW p \in Request, FetchUpstream(p) PROVE ProxyInv'
  <1>1. Kept(p, req[p]) /\ req[p].at = "fetch"
    BY DEF ProxyInv, FetchUpstream
  <1>2. CASE Set(p, At([req[p] EXCEPT !.url = First], "modify"))
    <2> DEFINE r == [req[p] EXCEPT !.url = First]
    <2>1. Kept(p, r) /\ r.at = "fetch"
      BY <1>1, UrlKept, Constants DEF Kept, Record
    <2> HIDE DEF r
    <2>2. Kept(p, At(r, "modify"))
      BY <2>1, BeforeKept DEF Before
    <2> QED
      BY <1>2, <2>2, SetKeeps DEF r
  <1>3. CASE route.module
    <2>1. PICK u \in Url, w \in Writing, ok \in BOOLEAN :
             LET r == Runs(req[p], w, ok, FALSE)
             IN Set(p, IF ok THEN At([r EXCEPT !.url = u], "modify") ELSE Fails(r, 500))
      BY <1>3, Zenon DEF FetchUpstream
    <2> DEFINE r == Runs(req[p], w, ok, FALSE)
    <2>2. Kept(p, r) /\ r.at = "fetch"
      <3>1. req[p].at \notin Closing
        BY <1>1 DEF Closing, Ended
      <3>2. PICK last \in BOOLEAN : last = FALSE
        OBVIOUS
      <3>3. Kept(p, Runs(req[p], w, ok, last)) /\ Runs(req[p], w, ok, last).at = req[p].at
        BY <1>1, <3>1, <3>2, RunsKept
      <3> QED
        BY <1>1, <3>2, <3>3
    <2>3. Set(p, IF ok THEN At([r EXCEPT !.url = u], "modify") ELSE Fails(r, 500))
      BY <2>1
    <2> HIDE DEF r
    <2>4. Kept(p, Fails(r, 500))
      BY <2>2, FailsKept DEF Closing, Ended
    <2>5. Kept(p, [r EXCEPT !.url = u]) /\ [r EXCEPT !.url = u].at = "fetch"
      BY <2>2, UrlKept DEF Kept, Record
    <2>6. Kept(p, At([r EXCEPT !.url = u], "modify"))
      BY <2>5, BeforeKept DEF Before
    <2> QED
      BY <2>3, <2>4, <2>6, SetKeeps
  <1> QED
    BY <1>2, <1>3, Zenon DEF FetchUpstream

LEMMA RequestModifierInv == ASSUME ProxyInv, NEW p \in Request, RequestModifier(p) PROVE ProxyInv'
  <1> DEFINE next == IF route.service THEN "build" ELSE "handle"
  <1>1. Kept(p, req[p]) /\ req[p].at = "modify"
    BY DEF ProxyInv, RequestModifier
  <1>2. next \in {"fetch", "modify", "build", "handle"} /\ (next = "handle" => ~route.service)
    OBVIOUS
  <1>3. CASE Set(p, At(req[p], next))
    <2>1. Kept(p, At(req[p], next))
      BY <1>1, <1>2, BeforeKept DEF Before
    <2> QED
      BY <1>3, <2>1, SetKeeps
  <1>4. CASE "requestModifier" \in route.fns
    <2>1. PICK w \in Writing, ok \in BOOLEAN :
             LET r == Runs(req[p], w, ok, FALSE)
             IN Set(p, IF ok THEN At(r, next) ELSE Fails(r, 500))
      BY <1>4, Zenon DEF RequestModifier
    <2> DEFINE r == Runs(req[p], w, ok, FALSE)
    <2>2. Kept(p, r) /\ r.at = "modify"
      <3>1. req[p].at \notin Closing
        BY <1>1 DEF Closing, Ended
      <3>2. PICK last \in BOOLEAN : last = FALSE
        OBVIOUS
      <3>3. Kept(p, Runs(req[p], w, ok, last)) /\ Runs(req[p], w, ok, last).at = req[p].at
        BY <1>1, <3>1, <3>2, RunsKept
      <3> QED
        BY <1>1, <3>2, <3>3
    <2>3. Set(p, IF ok THEN At(r, next) ELSE Fails(r, 500))
      BY <2>1
    <2> HIDE DEF r
    <2>4. Kept(p, Fails(r, 500))
      BY <2>2, FailsKept DEF Closing, Ended
    <2>5. Kept(p, At(r, next))
      BY <1>2, <2>2, BeforeKept DEF Before
    <2> QED
      BY <2>3, <2>4, <2>5, SetKeeps
  <1> QED
    BY <1>3, <1>4, Zenon DEF RequestModifier

\* Build writes the request's own clone, which no other request reads.
LEMMA BuildInv == ASSUME ProxyInv, NEW p \in Request, Build(p) PROVE ProxyInv'
  <1> DEFINE r == At(req[p], "rewrite")
  <1>1. Kept(p, req[p]) /\ req[p].at = "build"
    BY DEF ProxyInv, Build
  <1>2. r \in Record /\ r.url = req[p].url /\ r.at = "rewrite" /\ r.url \in Url
    BY <1>1 DEF Kept, At, Record, Label, Before
  <1>3. req' = [req EXCEPT ![p] = r] /\ builder' = [builder EXCEPT ![p] = req[p].url]
        /\ UNCHANGED <<route, closed, newProviders>>
    BY DEF Build, Clone, At
  <1>4. Types'
    BY <1>2, <1>3 DEF ProxyInv, Types
  <1>5. ASSUME NEW q \in Request PROVE Kept(q, req[q])'
    <2>1. CASE q = p
      <3>1. req'[p] = r /\ builder'[p] = r.url
        BY <1>2, <1>3 DEF ProxyInv, Types
      <3> QED
        BY <1>1, <1>2, <1>3, <2>1, <3>1 DEF Kept, At, Record, Attempts, Upstream, Disturbed, Tracked,
           Phases, EndOf, HeadersSent, Closing, Ended, Before, Sending, Allowed
    <2>2. CASE q # p
      <3>1. req'[q] = req[q] /\ builder'[q] = builder[q] /\ Kept(q, req[q])
        BY <1>3, <2>2 DEF ProxyInv, Types
      <3> QED
        BY <1>3, <3>1 DEF Kept, Attempts, Upstream, Disturbed, Phases, Tracked, EndOf, HeadersSent,
           Allowed
    <2> QED
      BY <2>1, <2>2
  <1> QED
    BY <1>4, <1>5 DEF ProxyInv

LEMMA RewriteInv == ASSUME ProxyInv, NEW p \in Request, Rewrite(p) PROVE ProxyInv'
  <1> DEFINE r == At([req[p] EXCEPT !.target = builder[p]], "try")
  <1>1. Kept(p, req[p]) /\ req[p].at = "rewrite" /\ Set(p, r)
    BY DEF ProxyInv, Rewrite, Clone, At, Set
  <1>2. builder[p] = req[p].url /\ req[p].url \in Url
    BY <1>1 DEF Kept, Upstream, Record
  <1>3. r \in Record /\ r.at = "try" /\ r.target = r.url
    BY <1>1, <1>2 DEF Kept, At, Record, Label, Sending
  <1>4. Kept(p, r)
    BY <1>1, <1>2, <1>3, Constants DEF Kept, At, Record, Attempts, Upstream, Disturbed, Tracked,
       Phases, EndOf, HeadersSent, Closing, Ended, Before, Sending, Allowed
  <1> QED
    BY <1>1, <1>4, SetKeeps

-----------------------------------------------------------------------------
(* The transport: an attempt that fails is repeated or ends in its error. *)

LEMMA AttemptKept ==
  ASSUME ProxyInv, NEW p \in Request, req[p].at \in {"try", "await", "silent"},
         NEW e \in {"network", "eof", "deadline", "canceled"}, e = "canceled" => closed
  PROVE  Kept(p, AttemptFails(p, e))
  <1>1. Kept(p, req[p]) /\ req[p] \in Record /\ req[p].tries \in Nat
    BY DEF ProxyInv, Kept, Record
  <1>n. req[p].tries + 1 \in Nat /\ {"try", "fail"} \subseteq Label /\ e \in Errors
    BY <1>1 DEF Label, Sending, Errors
  <1>2. CASE req[p].tries < Retries /\ p \notin Writes
    <2> DEFINE r == [req[p] EXCEPT !.at = "try", !.tries = @ + 1]
    <2>1. AttemptFails(p, e) = r
      BY <1>2 DEF AttemptFails
    <2>2. r \in Record /\ r.at = "try" /\ r.tries = req[p].tries + 1
      BY <1>1, <1>n DEF Record
    <2>3. Kept(p, r)
      BY <1>1, <1>2, <2>2, Constants DEF Kept, Record, Attempts, Upstream, Disturbed, Tracked,
         Phases, EndOf, HeadersSent, Closing, Ended, Before, Sending, Allowed
    <2> QED
      BY <2>1, <2>3
  <1>3. CASE ~(req[p].tries < Retries /\ p \notin Writes)
    <2> DEFINE r == [req[p] EXCEPT !.at = "fail", !.tries = @ + 1, !.err = e]
    <2>1. AttemptFails(p, e) = r
      BY <1>3 DEF AttemptFails
    <2>2. r \in Record /\ r.at = "fail" /\ r.tries = req[p].tries + 1 /\ r.err = e
      BY <1>1, <1>n DEF Record
    <2>3. Attempts(p, r)
      BY <1>1, <1>3, <2>2, Constants DEF Kept, Record, Attempts, Ended, Before, Sending, Allowed
    <2>4. Kept(p, r)
      BY <1>1, <2>2, <2>3 DEF Kept, Record, Upstream, Disturbed, Tracked,
         Phases, EndOf, HeadersSent, Attempts, Closing, Ended, Before, Sending
    <2> QED
      BY <2>1, <2>4
  <1> QED
    BY <1>2, <1>3

LEMMA RoundTripInv == ASSUME ProxyInv, NEW p \in Request, RoundTrip(p) PROVE ProxyInv'
  <1>1. Kept(p, req[p]) /\ req[p].at = "try"
    BY DEF ProxyInv, RoundTrip
  <1>2. CASE closed /\ Set(p, AttemptFails(p, "canceled"))
    BY <1>1, <1>2, AttemptKept, SetKeeps
  <1>3. CASE Set(p, AttemptFails(p, "network"))
    BY <1>1, <1>3, AttemptKept, SetKeeps
  <1>4. CASE Set(p, At([req[p] EXCEPT !.delivered = @ + 1], "await"))
    <2> DEFINE r == At([req[p] EXCEPT !.delivered = @ + 1], "await")
    <2>n. req[p] \in Record /\ req[p].delivered + 1 \in Nat /\ "await" \in Label
      BY <1>1 DEF Kept, Record, Label, Sending
    <2>1. r \in Record /\ r.at = "await" /\ r.delivered = req[p].delivered + 1
      BY <2>n DEF At, Record
    <2>2. Attempts(p, r)
      BY <1>1, <2>1 DEF Kept, At, Record, Attempts, Ended, Before, Sending, Allowed
    <2>3. Kept(p, r)
      BY <1>1, <2>1, <2>2 DEF Kept, At, Record, Upstream, Disturbed, Tracked,
         Phases, EndOf, HeadersSent, Closing, Ended, Before, Sending
    <2> QED
      BY <1>4, <2>3, SetKeeps
  <1> QED
    BY <1>2, <1>3, <1>4 DEF RoundTrip

\* Going on with the upstream's answer.
LEMMA SendingKept ==
  ASSUME NEW p \in Request, NEW r, Kept(p, r), r.at \in {"await", "modify_response"},
         NEW l \in {"modify_response", "copy", "silent"}, l = "silent" => r.at = "await"
  PROVE  Kept(p, At(r, l))
  <1>1. At(r, l) = [r EXCEPT !.at = l] /\ r \in Record /\ l \in Label
    BY DEF Kept, At, Label, Sending
  <1>2. At(r, l) \in Record /\ At(r, l).at = l
    BY <1>1 DEF Record
  <1>3. Attempts(p, At(r, l)) /\ Upstream(p, At(r, l))
    BY <1>1, <1>2 DEF Kept, Record, Attempts, Upstream, Before, Sending
  <1>4. Disturbed(At(r, l)) /\ Tracked(At(r, l))
    BY <1>1, <1>2 DEF Kept, Record, Disturbed, Tracked, Closing, Ended, Sending
  <1>5. Phases(At(r, l)) /\ EndOf(At(r, l))
    BY <1>1, <1>2 DEF Kept, Record, Attempts, Phases, EndOf, Sending
  <1> QED
    BY <1>2, <1>3, <1>4, <1>5 DEF Kept

LEMMA AnswerInv == ASSUME ProxyInv, NEW p \in Request, Answer(p) PROVE ProxyInv'
  <1>1. Kept(p, req[p]) /\ req[p].at = "await"
    BY DEF ProxyInv, Answer
  <1>2. CASE Set(p, At(req[p], "modify_response"))
    <2>1. Kept(p, At(req[p], "modify_response"))
      BY <1>1, SendingKept DEF Sending
    <2> QED
      BY <1>2, <2>1, SetKeeps
  <1>3. ASSUME NEW e \in {"network", "eof", "deadline"}, Set(p, AttemptFails(p, e)) PROVE ProxyInv'
    BY <1>1, <1>3, AttemptKept, SetKeeps
  <1>4. CASE closed /\ Set(p, AttemptFails(p, "canceled"))
    BY <1>1, <1>4, AttemptKept, SetKeeps
  <1>5. CASE Set(p, At(req[p], "silent"))
    <2>1. Kept(p, At(req[p], "silent"))
      BY <1>1, SendingKept DEF Sending
    <2> QED
      BY <1>5, <2>1, SetKeeps
  <1> QED
    BY <1>2, <1>3, <1>4, <1>5 DEF Answer

LEMMA SilentInv == ASSUME ProxyInv, NEW p \in Request, Silent(p) PROVE ProxyInv'
  BY AttemptKept, SetKeeps DEF Silent

LEMMA ModifyResponseInv == ASSUME ProxyInv, NEW p \in Request, ModifyResponse(p) PROVE ProxyInv'
  <1> DEFINE r == [req[p] EXCEPT !.detached = TRUE]
             c == At(r, "copy")
             f == At([r EXCEPT !.err = "module"], "fail")
  <1>1. Kept(p, req[p]) /\ req[p].at = "modify_response" /\ req[p] \in Record
    BY DEF ProxyInv, ModifyResponse, Kept
  <1>2. Kept(p, At(req[p], "copy"))
    BY <1>1, SendingKept DEF Sending
  <1>3. c \in Record /\ c.at = "copy" /\ f \in Record /\ f.at = "fail" /\ f.err = "module"
    BY <1>1 DEF At, Record, Label, Sending, Errors
  <1>4. Kept(p, c)
    BY <1>1, <1>3 DEF Kept, At, Record, Attempts, Upstream, Disturbed, Tracked, Phases, EndOf,
     HeadersSent, Closing, Ended, Before, Sending, Allowed
  <1>5. Kept(p, f)
    BY <1>1, <1>3 DEF Kept, At, Record, Attempts, Upstream, Disturbed, Tracked, Phases, EndOf,
     HeadersSent, Closing, Ended, Before, Sending, Allowed
  <1>6. Set(p, At(req[p], "copy")) \/ Set(p, c) \/ Set(p, f)
    BY DEF ModifyResponse
  <1> QED
    BY <1>2, <1>4, <1>5, <1>6, SetKeeps

\* The headers of the answer are the end of it, but for a body that goes on.
LEMMA CopyResponseInv == ASSUME ProxyInv, NEW p \in Request, CopyResponse(p) PROVE ProxyInv'
  <1>1. Kept(p, req[p]) /\ req[p].at = "copy"
    BY DEF ProxyInv, CopyResponse
  <1>2. CASE Set(p, Fails(req[p], 201))
    BY <1>1, <1>2, FailsKept, SetKeeps DEF Closing, Ended
  <1>3. CASE Set(p, At(WriteHeader(req[p], 201), "stream"))
    <2> DEFINE h == WriteHeader(req[p], 201)
               d == [h EXCEPT !.at = "stream"]
    <2>1. Consistent(req[p])
      BY <1>1 DEF Kept, Tracked, Consistent
    <2>2. h \in Record /\ h.status = 201 /\ h.early = req[p].early /\ h.sent # 0
          /\ (~req[p].early => h.sent = 201)
      <3>1. h \in Record /\ h.status = 201 /\ h.early = req[p].early
            /\ h.sent = IF req[p].sent = 0 THEN 201 ELSE req[p].sent
        <4>1. PICK s \in Nat \ {0} : s = 201
          OBVIOUS
        <4>2. WriteHeader(req[p], s) \in Record /\ WriteHeader(req[p], s).status = s
              /\ WriteHeader(req[p], s).early = req[p].early
              /\ WriteHeader(req[p], s).sent = IF req[p].sent = 0 THEN s ELSE req[p].sent
          BY <2>1, HeaderWrote
        <4> QED
          BY <4>1, <4>2
      <3> HIDE DEF h
      <3> QED
        BY <1>1, <3>1 DEF Kept, Tracked, Closing, Ended, Record
    <2>3. h.url = req[p].url /\ h.target = req[p].target /\ h.delivered = req[p].delivered
          /\ h.tries = req[p].tries /\ h.err = req[p].err /\ h.detached = req[p].detached
          /\ h.disturbed = req[p].disturbed
      BY <2>1 DEF WriteHeader, Consistent, Record
    <2> HIDE DEF h
    <2>4. d \in Record /\ d.at = "stream" /\ d.url = h.url /\ d.target = h.target
          /\ d.delivered = h.delivered /\ d.tries = h.tries /\ d.err = h.err
          /\ d.detached = h.detached /\ d.disturbed = h.disturbed /\ d.early = h.early
          /\ d.status = h.status /\ d.sent = h.sent
      BY <2>2 DEF Record, Label, Sending
    <2>5. Attempts(p, d) /\ Upstream(p, d) /\ Disturbed(d)
      BY <1>1, <2>3, <2>4 DEF Kept, Attempts, Upstream, Disturbed, Before, Sending
    <2>6. Tracked(d) /\ Phases(d) /\ EndOf(d)
      BY <1>1, <2>2, <2>3, <2>4 DEF Kept, Tracked, Phases, EndOf, Closing, Ended
    <2>7. At(h, "stream") = d
      BY DEF At
    <2> HIDE DEF d
    <2>8. Kept(p, d) /\ Set(p, d)
      BY <1>3, <2>4, <2>5, <2>6, <2>7 DEF Kept, h
    <2> QED
      BY <2>8, SetKeeps
  <1> QED
    BY <1>2, <1>3 DEF CopyResponse, Fails

LEMMA StreamInv == ASSUME ProxyInv, NEW p \in Request, Stream(p) PROVE ProxyInv'
  <1> DEFINE r == req[p]
             d == [r EXCEPT !.at = "done"]
  <1>1. Kept(p, r) /\ r.at = "stream" /\ r \in Record /\ Set(p, d)
    BY DEF ProxyInv, Stream, Kept, At
  <1>2. d \in Record /\ d.at = "done"
    BY <1>1 DEF Record, Label, Ended
  <1>3. Kept(p, d)
    BY <1>1, <1>2 DEF Kept, Record, Attempts, Upstream, Disturbed, Tracked, Phases, EndOf,
       HeadersSent, Closing, Ended, Before, Sending
  <1> QED
    BY <1>1, <1>3, SetKeeps

\* A function that does not return leaves the request where it is for good.
LEMMA SpinInv == ASSUME ProxyInv, NEW p \in Request, Spin(p) PROVE ProxyInv'
  <1> DEFINE r == req[p]
             d == [r EXCEPT !.at = "spin"]
  <1>1. Kept(p, r) /\ r \in Record /\ Set(p, d) /\ r.at \notin Closing /\ r.at # "idle"
    BY DEF ProxyInv, Spin, Kept, At, Closing, Ended
  <1>2. route.module
    BY DEF Spin, ProxyInv, Types
  <1>3. d \in Record /\ d.at = "spin"
    BY <1>1 DEF Record, Label
  <1>4. Attempts(p, d) /\ Upstream(p, d) /\ Disturbed(d)
    BY <1>1, <1>3 DEF Kept, Record, Attempts, Upstream, Disturbed, Closing, Ended, Before, Sending
  <1>5. Tracked(d) /\ Phases(d) /\ EndOf(d)
    BY <1>1, <1>2, <1>3 DEF Kept, Record, Tracked, Phases, EndOf, Closing, Ended
  <1>6. Kept(p, d)
    BY <1>3, <1>4, <1>5 DEF Kept
  <1> QED
    BY <1>1, <1>6, SetKeeps

-----------------------------------------------------------------------------
(* The end of a request. *)

\* A status that is written once, or never again.
LEMMA OnceKept ==
  ASSUME NEW p \in Request, NEW r, Kept(p, r), r.at \notin Closing, NEW w,
         \/ w = r /\ HeadersSent(r)
         \/ \E s \in Nat \ {0} : w = WriteHeader(r, s)
  PROVE  Kept(p, At(w, "done"))
  <1>1. CASE w = r /\ HeadersSent(r)
    <2>1. At(w, "done") \in Record /\ At(w, "done").at = "done" /\ r \in Record
      BY <1>1 DEF Kept, At, Record, Label, Ended
    <2> QED
      BY <1>1, <2>1 DEF Kept, At, Record, Attempts, Upstream, Disturbed, Tracked, Phases, EndOf,
         HeadersSent, Closing, Ended, Before, Sending, Allowed
  <1>2. ASSUME NEW s \in Nat \ {0}, w = WriteHeader(r, s) PROVE Kept(p, At(w, "done"))
    BY <1>2, FailsKept DEF Fails
  <1> QED
    BY <1>1, <1>2

\* The default handlers write a status if there is none.
LEMMA DefaultsWrite ==
  ASSUME NEW r \in Record
  PROVE  /\ (BadGateway(r) = r /\ HeadersSent(r)) \/ BadGateway(r) = WriteHeader(r, 502)
         /\ \/ DefaultErrorHandler(r) = r /\ HeadersSent(r)
            \/ DefaultErrorHandler(r) = WriteHeader(r, 499) /\ HeadersSent(DefaultErrorHandler(r))
            \/ DefaultErrorHandler(r) = WriteHeader(r, 502) /\ HeadersSent(DefaultErrorHandler(r))
         /\ BadGateway(DefaultErrorHandler(r)) = DefaultErrorHandler(r)
  <1>1. (BadGateway(r) = r /\ HeadersSent(r)) \/ BadGateway(r) = WriteHeader(r, 502)
    BY DEF BadGateway
  <1>2. ASSUME NEW s \in {499, 502} PROVE HeadersSent(WriteHeader(r, s))
    BY DEF HeadersSent, WriteHeader, Record
  <1>3. \/ DefaultErrorHandler(r) = r /\ HeadersSent(r)
        \/ DefaultErrorHandler(r) = WriteHeader(r, 499)
        \/ DefaultErrorHandler(r) = WriteHeader(r, 502)
    BY DEF DefaultErrorHandler
  <1>4. HeadersSent(DefaultErrorHandler(r))
    BY <1>2, <1>3
  <1> QED
    BY <1>1, <1>3, <1>4 DEF BadGateway

\* The last function of a request: either it leaves the record alone, or it has
\* written, in an error too early.
LEMMA LastRun ==
  ASSUME NEW p \in Request, NEW r, Kept(p, r), r.at \notin Closing,
         NEW w \in Writing, NEW ok \in BOOLEAN
  PROVE  LET v == Runs(r, w, ok, TRUE) IN
         /\ ~ok => Kept(p, v) /\ v.at = r.at /\ v.err = r.err
         /\ ok => v = r \/ HeadersSent(v)
         /\ ok => Kept(p, At(v, "done")) \/ v = r
  <1> DEFINE v == Runs(r, w, ok, TRUE)
  <1>1. Consistent(r)
    BY DEF Kept, Tracked, Consistent
  <1>2. Wrote(r, v) /\ (v = r \/ HeadersSent(v))
    BY <1>1, RunsWrote
  <1>3. ~ok => Kept(p, v) /\ v.at = r.at /\ v.err = r.err
    BY RunsKept
  <1> HIDE DEF v
  <1>4. ASSUME HeadersSent(v) PROVE Kept(p, At(v, "done"))
    <2> DEFINE d == [v EXCEPT !.at = "done"]
    <2>1. At(v, "done") = d /\ v \in Record /\ "done" \in Label
      BY <1>2 DEF Wrote, At, Label, Ended
    <2>2. d \in Record /\ d.at = "done" /\ d.url = v.url /\ d.target = v.target
          /\ d.delivered = v.delivered /\ d.tries = v.tries /\ d.err = v.err
          /\ d.detached = v.detached /\ d.disturbed = v.disturbed /\ d.early = v.early
          /\ d.status = v.status /\ d.sent = v.sent
      BY <2>1 DEF Record
    <2> HIDE DEF d
    <2>3. Attempts(p, d) /\ Upstream(p, d) /\ Disturbed(d)
      BY <1>2, <2>2 DEF Wrote, Kept, Attempts, Upstream, Disturbed, Before, Sending
    <2>4. Tracked(d) /\ Phases(d) /\ EndOf(d)
      BY <1>2, <1>4, <2>2 DEF Wrote, Kept, Tracked, Phases, EndOf, HeadersSent, Closing, Ended
    <2> QED
      BY <2>1, <2>2, <2>3, <2>4 DEF Kept
  <1> QED
    BY <1>2, <1>3, <1>4 DEF v

LEMMA ErrorHandlerInv == ASSUME ProxyInv, NEW p \in Request, ErrorHandler(p) PROVE ProxyInv'
  <1>1. Kept(p, req[p]) /\ req[p].at = "fail" /\ req[p] \in Record /\ req[p].at \notin Closing
    BY DEF ProxyInv, ErrorHandler, Kept, Closing, Ended
  <1>2. CASE HeadersSent(req[p])
    <2>1. Kept(p, At(req[p], "done"))
      BY <1>1, <1>2, OnceKept
    <2>2. Set(p, At(req[p], "done"))
      BY <1>2, Zenon DEF ErrorHandler
    <2> QED
      BY <2>1, <2>2, SetKeeps
  <1>3. CASE Set(p, At(BadGateway(req[p]), "done"))
    <2>1. Kept(p, At(BadGateway(req[p]), "done"))
      BY <1>1, DefaultsWrite, OnceKept
    <2> QED
      BY <1>3, <2>1, SetKeeps
  <1>4. CASE /\ "errorHandler" \notin route.fns
             /\ Set(p, IF req[p].detached THEN At(req[p], "panicked")
                       ELSE At(BadGateway(DefaultErrorHandler(req[p])), "done"))
    <2>1. CASE req[p].detached
      <3> DEFINE r == At(req[p], "panicked")
      <3>1. r \in Record /\ r.at = "panicked" /\ r.err = "module"
        BY <1>1, <2>1 DEF Kept, Phases, At, Record, Label, Ended
      <3>2. Kept(p, r)
        BY <1>1, <1>4, <3>1 DEF Kept, At, Record, Attempts, Upstream, Disturbed, Tracked, Phases,
           EndOf, Closing, Ended, Before, Sending
      <3> QED
        BY <1>4, <2>1, <3>2, SetKeeps
    <2>2. CASE ~req[p].detached
      <3>1. Kept(p, At(BadGateway(DefaultErrorHandler(req[p])), "done"))
        BY <1>1, DefaultsWrite, OnceKept
      <3> QED
        BY <1>4, <2>2, <3>1, SetKeeps
    <2> QED
      BY <2>1, <2>2
  <1>5. CASE \E w \in Writing, ok \in BOOLEAN :
               LET r == Runs(req[p], w, ok, TRUE)
               IN /\ req[p].detached => w = "nothing"
                  /\ Set(p, IF ok THEN At(BadGateway(r), "done") ELSE Fails(r, 500))
    <2>1. PICK w \in Writing, ok \in BOOLEAN :
             LET r == Runs(req[p], w, ok, TRUE)
             IN /\ req[p].detached => w = "nothing"
                /\ Set(p, IF ok THEN At(BadGateway(r), "done") ELSE Fails(r, 500))
      BY <1>5, Zenon
    <2> DEFINE r == Runs(req[p], w, ok, TRUE)
    <2>2. /\ ~ok => Kept(p, r) /\ r.at = req[p].at
          /\ ok => r = req[p] \/ HeadersSent(r)
          /\ ok => Kept(p, At(r, "done")) \/ r = req[p]
      BY <1>1, LastRun
    <2>3. Set(p, IF ok THEN At(BadGateway(r), "done") ELSE Fails(r, 500))
      BY <2>1
    <2> HIDE DEF r
    <2>4. CASE ~ok
      BY <1>1, <2>2, <2>3, <2>4, FailsKept, SetKeeps
    <2>5. CASE ok /\ r = req[p]
      <3>1. Kept(p, At(BadGateway(req[p]), "done"))
        BY <1>1, DefaultsWrite, OnceKept
      <3> QED
        BY <2>3, <2>5, <3>1, SetKeeps
    <2>6. CASE ok /\ HeadersSent(r) /\ Kept(p, At(r, "done"))
      BY <2>3, <2>6, SetKeeps DEF BadGateway
    <2> QED
      BY <2>2, <2>4, <2>5, <2>6
  <1> QED
    BY <1>2, <1>3, <1>4, <1>5, Zenon DEF ErrorHandler

LEMMA RequestHandlerInv == ASSUME ProxyInv, NEW p \in Request, RequestHandler(p) PROVE ProxyInv'
  <1>1. Kept(p, req[p]) /\ req[p].at = "handle" /\ req[p] \in Record /\ req[p].at \notin Closing
    BY DEF ProxyInv, RequestHandler, Kept, Closing, Ended
  <1>2. CASE Set(p, Fails(req[p], 501))
    BY <1>1, <1>2, FailsKept, SetKeeps
  <1>3. CASE "requestHandler" \in route.fns
    <2>1. PICK w \in Writing, ok \in BOOLEAN :
             LET r == Runs(req[p], w, ok, TRUE)
             IN Set(p, IF ~ok THEN At([r EXCEPT !.err = "module"], "handle_error")
                       ELSE IF HeadersSent(r) THEN At(r, "done") ELSE Fails(r, 204))
      BY <1>3, Zenon DEF RequestHandler
    <2> DEFINE r == Runs(req[p], w, ok, TRUE)
    <2>2. /\ ~ok => Kept(p, r) /\ r.at = req[p].at
          /\ ok => r = req[p] \/ HeadersSent(r)
          /\ ok => Kept(p, At(r, "done")) \/ r = req[p]
      BY <1>1, LastRun
    <2>3. Set(p, IF ~ok THEN At([r EXCEPT !.err = "module"], "handle_error")
                 ELSE IF HeadersSent(r) THEN At(r, "done") ELSE Fails(r, 204))
      BY <2>1
    <2> HIDE DEF r
    <2>4. CASE ~ok
      <3> DEFINE f == At([r EXCEPT !.err = "module"], "handle_error")
      <3>1. f \in Record /\ f.at = "handle_error" /\ f.err = "module"
        BY <1>1, <2>2, <2>4 DEF Kept, At, Record, Label, Errors
      <3>2. Kept(p, f)
        BY <1>1, <2>2, <2>4, <3>1 DEF Kept, At, Record, Attempts, Upstream, Disturbed, Tracked,
           Phases, EndOf, Closing, Ended, Before, Sending
      <3> QED
        BY <2>3, <2>4, <3>2, SetKeeps
    <2>5. CASE ok /\ r = req[p]
      <3>1. Kept(p, Fails(req[p], 204)) /\ (HeadersSent(r) => Kept(p, At(req[p], "done")))
        BY <1>1, <2>5, FailsKept, OnceKept
      <3> QED
        BY <2>3, <2>5, <3>1, SetKeeps
    <2>6. CASE ok /\ HeadersSent(r) /\ Kept(p, At(r, "done"))
      BY <2>3, <2>6, SetKeeps
    <2> QED
      BY <2>2, <2>4, <2>5, <2>6
  <1> QED
    BY <1>2, <1>3, Zenon DEF RequestHandler

\* The one end without a status: an errorHandler that keeps silent.
LEMMA HandlerErrorInv == ASSUME ProxyInv, NEW p \in Request, HandlerError(p) PROVE ProxyInv'
  <1>1. Kept(p, req[p]) /\ req[p].at = "handle_error" /\ req[p] \in Record /\ req[p].at \notin Closing
        /\ ~route.service /\ req[p].err = "module"
    BY DEF ProxyInv, HandlerError, Kept, Closing, Ended, Phases
  <1>2. CASE Set(p, At(DefaultErrorHandler(req[p]), "done"))
    <2>1. Kept(p, At(DefaultErrorHandler(req[p]), "done"))
      BY <1>1, DefaultsWrite, OnceKept
    <2> QED
      BY <1>2, <2>1, SetKeeps
  <1>3. CASE "errorHandler" \in route.fns
    <2>1. PICK w \in Writing, ok \in BOOLEAN :
             LET r == Runs(req[p], w, ok, TRUE)
             IN Set(p, IF ok THEN At(r, "done") ELSE Fails(r, 500))
      BY <1>3, Zenon DEF HandlerError
    <2> DEFINE r == Runs(req[p], w, ok, TRUE)
    <2>2. /\ ~ok => Kept(p, r) /\ r.at = req[p].at
          /\ ok => Kept(p, At(r, "done")) \/ r = req[p]
      BY <1>1, LastRun, ZenonT(60)
    <2>3. Set(p, IF ok THEN At(r, "done") ELSE Fails(r, 500))
      BY <2>1
    <2> HIDE DEF r
    <2>4. CASE ~ok
      BY <1>1, <2>2, <2>3, <2>4, FailsKept, SetKeeps
    <2>5. CASE ok /\ r = req[p]
      <3> DEFINE d == At(req[p], "done")
      <3>1. d \in Record /\ d.at = "done" /\ d.err = "module"
        BY <1>1 DEF At, Record, Label, Ended
      <3>2. Kept(p, d)
        BY <1>1, <1>3, <3>1 DEF Kept, At, Record, Attempts, Upstream, Disturbed, Tracked, Phases,
           EndOf, Closing, Ended, Before, Sending
      <3> QED
        BY <2>3, <2>5, <3>2, SetKeeps
    <2>6. CASE ok /\ Kept(p, At(r, "done"))
      BY <2>3, <2>6, SetKeeps
    <2> QED
      BY <2>2, <2>4, <2>5, <2>6
  <1> QED
    BY <1>2, <1>3, Zenon DEF HandlerError

-----------------------------------------------------------------------------
(* Reloads *)

\* Close marks every request that runs in the context it cancels.
LEMMA CloseProviderInv == ASSUME ProxyInv, CloseOldProvider PROVE ProxyInv'
  <1> DEFINE r(p) == [req[p] EXCEPT !.disturbed = @ \/ p \in InFlight]
  <1>1. closed' = TRUE /\ UNCHANGED <<route, builder>> /\ req' = [p \in Request |-> r(p)]
        /\ newProviders' = newProviders + 1 /\ newProviders < MaxNewProviders
    BY DEF CloseOldProvider
  <1>2. ASSUME NEW p \in Request PROVE req'[p] = r(p) /\ r(p) \in Record /\ Kept(p, req[p])'
    <2>1. Kept(p, req[p]) /\ req[p] \in Record /\ req'[p] = r(p)
      BY <1>1 DEF ProxyInv, Kept
    <2>2. CASE p \in InFlight
      <3>1. r(p) = [req[p] EXCEPT !.disturbed = TRUE]
        BY <2>2
      <3>2. r(p) \in Record /\ r(p).disturbed = TRUE
        BY <2>1, <3>1 DEF Record
      <3>3. Kept(p, req[p])'
        BY <1>1, <2>1, <3>1, <3>2
        DEF Kept, Record, Attempts, Upstream, Disturbed, Tracked, Phases, EndOf, HeadersSent, Allowed
      <3> QED
        BY <2>1, <3>2, <3>3
    <2>3. CASE p \notin InFlight
      <3>1. r(p) = req[p]
        BY <2>1, <2>3 DEF Record
      <3>2. req[p].at \in {"idle", "done", "panicked"}
        BY <2>3 DEF InFlight
      <3>3. Kept(p, req[p])'
        BY <1>1, <2>1, <3>1, <3>2
        DEF Kept, Attempts, Upstream, Disturbed, Tracked, Phases, EndOf, HeadersSent, Allowed
      <3> QED
        BY <2>1, <3>1, <3>3
    <2> QED
      BY <2>2, <2>3
  <1>3. req' \in [Request -> Record]
    BY <1>1, <1>2
  <1>4. newProviders' \in 0..MaxNewProviders
    BY <1>1, Constants DEF ProxyInv, Types
  <1>5. Types'
    BY <1>1, <1>3, <1>4 DEF ProxyInv, Types
  <1> QED
    BY <1>2, <1>5 DEF ProxyInv

\* No request is in flight when the mux is replaced, so none loses its builder.
LEMMA ReplaceMuxInv == ASSUME ProxyInv, ReplaceProvider PROVE ProxyInv'
  <1>1. closed' = FALSE /\ builder' = [builder EXCEPT !["shared"] = First]
        /\ UNCHANGED <<route, req, newProviders>>
    BY DEF ReplaceProvider
  <1>2. closed' \in BOOLEAN
    BY <1>1
  <1>3. Types'
    BY <1>1, <1>2, Constants DEF ProxyInv, Types
  <1>4. ASSUME NEW p \in Request PROVE Kept(p, req[p])'
    <2>1. Kept(p, req[p]) /\ req'[p] = req[p] /\ builder'[p] = builder[p]
      BY <1>1, Constants DEF ProxyInv, Types
    <2> QED
      BY <1>1, <2>1 DEF Kept, Attempts, Upstream, Disturbed, Tracked, Phases, EndOf, HeadersSent,
         Allowed
  <1> QED
    BY <1>3, <1>4 DEF ProxyInv

-----------------------------------------------------------------------------
\* The inductive invariant: every step of every handler, and every reload, leaves
\* each request's record as Kept says.
THEOREM InvariantHolds == ProxySpec => []ProxyInv
  <1>1. ProxyInv /\ [ProxyNext]_proxyVars => ProxyInv'
    <2> SUFFICES ASSUME ProxyInv, [ProxyNext]_proxyVars PROVE ProxyInv'
      OBVIOUS
    <2>1. CASE \E p \in Request : Arrive(p) \/ Proceed(p) \/ Spin(p)
      BY <2>1, EnterInv, FetchInv, RequestModifierInv, BuildInv, RewriteInv, RoundTripInv, AnswerInv,
         SilentInv, ModifyResponseInv, CopyResponseInv, StreamInv, ErrorHandlerInv, RequestHandlerInv,
         HandlerErrorInv, SpinInv DEF Proceed
    <2>2. CASE CloseOldProvider
      BY <2>2, CloseProviderInv
    <2>3. CASE ReplaceProvider
      BY <2>3, ReplaceMuxInv
    <2>4. CASE UNCHANGED proxyVars
      BY <2>4 DEF proxyVars, ProxyInv, Types, Kept, Attempts, Upstream, Disturbed, Tracked, Phases, EndOf,
         HeadersSent, Allowed
    <2> QED
      BY <2>1, <2>2, <2>3, <2>4 DEF ProxyNext
  <1> QED
    BY ProxyInitInv, <1>1, PTL DEF ProxySpec

\* The upstream never gets a POST or a PUT twice, whatever number of retries the
\* service has: retryRoundTripper gives up on them after one attempt.
THEOREM WritesAlwaysOnce == ProxySpec => []WritesDeliveredOnce
  <1>1. ProxyInv => WritesDeliveredOnce
    BY Constants DEF ProxyInv, Kept, Attempts, WritesDeliveredOnce
  <1> QED
    BY <1>1, InvariantHolds, PTL

\* However many requests build a proxy at once, each is sent to the URL chosen
\* for it, because Clone gives each a builder that no other writes.
THEOREM UpstreamAlwaysOwn == ProxySpec => []OwnUpstream
  <1>1. ProxyInv => OwnUpstream
    BY DEF ProxyInv, Kept, Upstream, Sending, OwnUpstream
  <1> QED
    BY <1>1, InvariantHolds, PTL

\* An upstream error comes after exactly the attempts that are allowed, and a
\* cancellation only from a reload that closed the provider under the request.
THEOREM FailuresAlwaysCaused == ProxySpec => []FailsForCause
  <1>1. ProxyInv => FailsForCause
    BY DEF ProxyInv, Kept, Attempts, Disturbed, Allowed, FailsForCause
  <1> QED
    BY <1>1, InvariantHolds, PTL

\* The safety half of RequestsEnd: a request that has come to its end has a status
\* (or a silent errorHandler), the tracker has the status that was sent unless a
\* function of the module wrote one before another, and the
\* one panic is that of a failed responseModifier without an errorHandler.
EndsWell ==
    \A p \in Request :
        /\ req[p].at = "done" => ReportsWhatWasSent(p) /\ AnsweredExplicitly(p)
        /\ req[p].at = "panicked" => "errorHandler" \notin route.fns /\ req[p].err = "module"

\* Requests end answered, and rightly recorded unless a function of the module
\* wrote a status and another one followed (ReportsWhatWasSent): whatever the
\* functions write, in whatever order, and whatever the upstream does.
THEOREM RequestsEndWell == ProxySpec => []EndsWell
  <1>1. ProxyInv => EndsWell
    BY DEF ProxyInv, Kept, Tracked, EndOf, EndsWell, ReportsWhatWasSent, AnsweredExplicitly
  <1> QED
    BY <1>1, InvariantHolds, PTL
=============================================================================
