-------------------------- MODULE ProxyStateProofs --------------------------
(***************************************************************************)
(* Proofs about ProxyState for any requests and any number of changes,     *)
(* crashes and failed writes: the store holds what clients were told is    *)
(* done in the order in which it was applied, the next process rebuilds    *)
(* from it what this one has, and the tables serve the configuration.      *)
(***************************************************************************)
EXTENDS ProxyState, ConfigurationProofs

-----------------------------------------------------------------------------
(* The iteration over the keys *)

\* What key i - 1 adds to the logs that were found before it.
With(q, S, i) ==
    IF \E l \in S : l.id = i - 1 THEN Append(q, CHOOSE l \in S : l.id = i - 1) ELSE q

\* The logs of S with keys below n, of which ByID is the instance at the clock.
Below(S, n) ==
    LET upTo[i \in 0..n] ==
          IF i = 0 THEN <<>>
          ELSE IF \E l \in S : l.id = i - 1
               THEN Append(upTo[i - 1], CHOOSE l \in S : l.id = i - 1)
               ELSE upTo[i - 1]
    IN upTo[n]
ChangesBelow(S, n) == [i \in DOMAIN Below(S, n) |-> Below(S, n)[i].change]

LEMMA AtTheClock == ASSUME NEW S PROVE ByID(S) = Below(S, clock)
  BY Zenon DEF ByID, Below

IsBelow(F, S, n) == F = [i \in 0..n |-> IF i = 0 THEN <<>> ELSE With(F[i - 1], S, i)]

LEMMA BelowExists ==
  ASSUME NEW S
  PROVE  \A n \in Nat : \E F : IsBelow(F, S, n)
  <1> DEFINE N == {n \in Nat : \E F : IsBelow(F, S, n)}
  <1>1. 0 \in N
    <2>1. IsBelow([i \in 0..0 |-> <<>>], S, 0)
      BY DEF IsBelow
    <2> QED
      BY <2>1
  <1>2. ASSUME NEW n \in Nat, n \in N PROVE n + 1 \in N
    <2>1. PICK F : IsBelow(F, S, n)
      BY <1>2
    <2> DEFINE G == [i \in 0..(n + 1) |-> IF i <= n THEN F[i] ELSE With(F[n], S, n + 1)]
    <2>2. IsBelow(G, S, n + 1)
      <3>1. \A i \in 0..n : F[i] = IF i = 0 THEN <<>> ELSE With(F[i - 1], S, i)
        BY <2>1 DEF IsBelow
      <3>2. ASSUME NEW i \in 0..(n + 1) PROVE G[i] = IF i = 0 THEN <<>> ELSE With(G[i - 1], S, i)
        <4>1. CASE i <= n
          BY <3>1, <4>1
        <4>2. CASE i = n + 1
          BY <4>2
        <4> QED
          BY <4>1, <4>2
      <3> HIDE DEF G
      <3>3. DOMAIN G = 0..(n + 1) /\ G = [i \in 0..(n + 1) |-> G[i]]
        BY DEF G
      <3> QED
        BY <3>2, <3>3 DEF IsBelow
    <2> QED
      BY <2>2
  <1> HIDE DEF N
  <1>3. Nat \subseteq N
    BY <1>1, <1>2, SetInduction
  <1> QED
    BY <1>3 DEF N

Solves(F, S, n) == F[0] = <<>> /\ \A i \in 1..n : F[i] = With(F[i - 1], S, i)

\* The recursion of Below has a solution, and Below is its last value.
LEMMA BelowSolved ==
  ASSUME NEW S, NEW n \in Nat
  PROVE  \E F : Solves(F, S, n) /\ F[n] = Below(S, n)
  <1> DEFINE H == CHOOSE F : F = [i \in 0..n |->
                    IF i = 0 THEN <<>>
                    ELSE IF \E l \in S : l.id = i - 1
                         THEN Append(F[i - 1], CHOOSE l \in S : l.id = i - 1)
                         ELSE F[i - 1]]
  <1>1. \E F : F = [i \in 0..n |->
                    IF i = 0 THEN <<>>
                    ELSE IF \E l \in S : l.id = i - 1
                         THEN Append(F[i - 1], CHOOSE l \in S : l.id = i - 1)
                         ELSE F[i - 1]]
    <2>1. PICK F : IsBelow(F, S, n)
      BY BelowExists
    <2>2. F = [i \in 0..n |->
                    IF i = 0 THEN <<>>
                    ELSE IF \E l \in S : l.id = i - 1
                         THEN Append(F[i - 1], CHOOSE l \in S : l.id = i - 1)
                         ELSE F[i - 1]]
      BY <2>1, Zenon DEF IsBelow, With
    <2> QED
      BY <2>2, Zenon
  <1>2. H = [i \in 0..n |->
                    IF i = 0 THEN <<>>
                    ELSE IF \E l \in S : l.id = i - 1
                         THEN Append(H[i - 1], CHOOSE l \in S : l.id = i - 1)
                         ELSE H[i - 1]]
    BY <1>1, Zenon
  <1>3. Below(S, n) = H[n]
    BY Zenon DEF Below
  <1> HIDE DEF H
  <1>4. \A i \in 0..n : H[i] = IF i = 0 THEN <<>> ELSE With(H[i - 1], S, i)
    BY <1>2, Zenon DEF With
  <1>5. Solves(H, S, n)
    BY <1>4 DEF Solves
  <1> QED
    BY <1>3, <1>5

\* It has only one.
LEMMA BelowUnique ==
  ASSUME NEW S, NEW n \in Nat, NEW F, NEW G, Solves(F, S, n), Solves(G, S, n)
  PROVE  F[n] = G[n]
  <1> DEFINE N == {i \in Nat : i <= n => F[i] = G[i]}
  <1>1. 0 \in N
    BY DEF Solves
  <1>2. ASSUME NEW i \in Nat, i \in N PROVE i + 1 \in N
    <2> SUFFICES ASSUME i + 1 <= n PROVE F[i + 1] = G[i + 1]
      OBVIOUS
    <2>1. i + 1 \in 1..n /\ F[i] = G[i] /\ (i + 1) - 1 = i
      BY <1>2
    <2> QED
      BY <2>1 DEF Solves
  <1> HIDE DEF N
  <1>3. Nat \subseteq N
    BY <1>1, <1>2, SetInduction
  <1> QED
    BY <1>3 DEF N

LEMMA BelowNone == ASSUME NEW S PROVE Below(S, 0) = <<>>
  BY BelowSolved DEF Solves

LEMMA BelowSame ==
  ASSUME NEW S, NEW T, NEW n \in Nat, \A i \in 1..n : \A q : With(q, S, i) = With(q, T, i)
  PROVE  Below(S, n) = Below(T, n)
  <1>1. PICK F : Solves(F, S, n) /\ F[n] = Below(S, n)
    BY BelowSolved
  <1>2. PICK G : Solves(G, T, n) /\ G[n] = Below(T, n)
    BY BelowSolved
  <1>3. Solves(G, S, n)
    BY <1>2 DEF Solves
  <1> QED
    BY <1>1, <1>2, <1>3, BelowUnique

LEMMA BelowNext ==
  ASSUME NEW S, NEW n \in Nat
  PROVE  Below(S, n + 1) = With(Below(S, n), S, n + 1)
  <1>1. PICK F : Solves(F, S, n) /\ F[n] = Below(S, n)
    BY BelowSolved
  <1>2. PICK G : Solves(G, S, n + 1) /\ G[n + 1] = Below(S, n + 1)
    <2>1. n + 1 \in Nat
      OBVIOUS
    <2> QED
      BY <2>1, BelowSolved
  <1>3. Solves(G, S, n)
    BY <1>2 DEF Solves
  <1>4. F[n] = G[n]
    BY <1>1, <1>3, BelowUnique
  <1>5. n + 1 \in 1..(n + 1) /\ (n + 1) - 1 = n
    OBVIOUS
  <1>6. G[n + 1] = With(G[(n + 1) - 1], S, n + 1)
    BY <1>2, <1>5 DEF Solves
  <1> QED
    BY <1>1, <1>2, <1>4, <1>5, <1>6

-----------------------------------------------------------------------------
(* Keys that are used once, and below n *)

Keyed(S, n) ==
    /\ S \subseteq ChangeLog
    /\ \A l \in S : l.id < n
    /\ \A l1, l2 \in S : l1.id = l2.id => l1 = l2

LEMMA BelowType ==
  ASSUME NEW S, S \subseteq ChangeLog
  PROVE  \A n \in Nat : Below(S, n) \in Seq(ChangeLog)
  <1> DEFINE N == {n \in Nat : Below(S, n) \in Seq(ChangeLog)}
  <1>1. 0 \in N
    <2>1. <<>> \in Seq(ChangeLog)
      OBVIOUS
    <2>2. Below(S, 0) = <<>>
      BY BelowNone
    <2> QED
      BY <2>1, <2>2
  <1>2. ASSUME NEW n \in Nat, n \in N PROVE n + 1 \in N
    <2>1. Below(S, n) \in Seq(ChangeLog)
      BY <1>2
    <2>2. PICK q : q = Below(S, n)
      OBVIOUS
    <2>3. With(q, S, n + 1) \in Seq(ChangeLog)
      <3>1. CASE \E l \in S : l.id = (n + 1) - 1
        <4>1. PICK x : x = CHOOSE l \in S : l.id = (n + 1) - 1
          OBVIOUS
        <4>2. x \in S
          BY <3>1, <4>1
        <4>3. With(q, S, n + 1) = Append(q, x)
          BY <3>1, <4>1 DEF With
        <4> QED
          BY <2>1, <2>2, <4>2, <4>3
      <3>2. CASE ~ \E l \in S : l.id = (n + 1) - 1
        BY <2>1, <2>2, <3>2 DEF With
      <3> QED
        BY <3>1, <3>2
    <2> QED
      BY <2>2, <2>3, BelowNext
  <1> HIDE DEF N
  <1>3. Nat \subseteq N
    BY <1>1, <1>2, SetInduction
  <1> QED
    BY <1>3 DEF N

\* A key at which nothing is stored adds nothing.
LEMMA BelowQuiet ==
  ASSUME NEW n \in Nat, NEW S, Keyed(S, n)
  PROVE  Below(S, n + 1) = Below(S, n)
  <1>1. ~ \E l \in S : l.id = (n + 1) - 1
    BY DEF Keyed, ChangeLog
  <1> QED
    BY <1>1, BelowNext DEF With

\* A log stored at a new key comes after the others.
LEMMA BelowFresh ==
  ASSUME NEW n \in Nat, NEW S, Keyed(S, n), NEW x \in ChangeLog, x.id = n
  PROVE  Keyed(S \cup {x}, n + 1) /\ Below(S \cup {x}, n + 1) = Append(Below(S, n), x)
  <1> DEFINE T == S \cup {x}
  <1>0. \A l \in S : l.id \in Nat /\ l.id < n
    BY DEF Keyed, ChangeLog
  <1>1. Keyed(T, n + 1)
    BY <1>0 DEF Keyed
  <1>2. ASSUME NEW i \in 1..n, NEW q PROVE With(q, S, i) = With(q, T, i)
    <2>1. x.id # i - 1
      OBVIOUS
    <2>2. CASE \E l \in S : l.id = i - 1
      <3>1. PICK a \in S : a.id = i - 1
        BY <2>2
      <3>2. (CHOOSE l \in S : l.id = i - 1) = a
        <4>1. \A l \in S : l.id = i - 1 => l = a
          BY <3>1 DEF Keyed
        <4> QED
          BY <3>1, <4>1
      <3>3. (CHOOSE l \in T : l.id = i - 1) = a
        <4>1. \A l \in T : l.id = i - 1 => l = a
          BY <2>1, <3>1 DEF Keyed
        <4>2. a \in T
          BY <3>1
        <4> QED
          BY <3>1, <4>1, <4>2
      <3>4. \E l \in T : l.id = i - 1
        BY <3>1
      <3> QED
        BY <2>2, <3>2, <3>3, <3>4 DEF With
    <2>3. CASE ~ \E l \in S : l.id = i - 1
      <3>1. ~ \E l \in T : l.id = i - 1
        BY <2>1, <2>3
      <3> QED
        BY <2>3, <3>1 DEF With
    <2> QED
      BY <2>2, <2>3
  <1>3. Below(S, n) = Below(T, n)
    <2> HIDE DEF T
    <2> QED
      BY <1>2, BelowSame
  <1>4. With(Below(T, n), T, n + 1) = Append(Below(T, n), x)
    <2>1. (n + 1) - 1 = n
      OBVIOUS
    <2>2. (CHOOSE l \in T : l.id = n) = x
      <3>1. \A l \in T : l.id = n => l = x
        BY <1>0
      <3>2. x \in T
        OBVIOUS
      <3> QED
        BY <3>1, <3>2
    <2> QED
      BY <2>1, <2>2 DEF With
  <1>5. Below(T, n + 1) = With(Below(T, n), T, n + 1)
    BY BelowNext
  <1> QED
    BY <1>1, <1>3, <1>4, <1>5

\* The same for the changes of the logs.
LEMMA ChangesBelowType ==
  ASSUME NEW n \in Nat, NEW S, Keyed(S, n)
  PROVE  ChangesBelow(S, n) \in Seq(Change)
  <1>1. PICK q : q = Below(S, n)
    OBVIOUS
  <1>2. q \in Seq(ChangeLog)
    BY <1>1, BelowType DEF Keyed
  <1>3. [j \in DOMAIN q |-> q[j].change] \in Seq(Change)
    BY <1>2, ColumnType
  <1> QED
    BY <1>1, <1>3, Zenon DEF ChangesBelow

LEMMA ChangesBelowQuiet ==
  ASSUME NEW n \in Nat, NEW S, Keyed(S, n)
  PROVE  Keyed(S, n + 1) /\ ChangesBelow(S, n + 1) = ChangesBelow(S, n)
  <1>1. Keyed(S, n + 1)
    BY DEF Keyed, ChangeLog
  <1>2. Below(S, n + 1) = Below(S, n)
    BY BelowQuiet
  <1> QED
    BY <1>1, <1>2, Zenon DEF ChangesBelow

LEMMA ChangesBelowFresh ==
  ASSUME NEW n \in Nat, NEW S, Keyed(S, n), NEW x \in ChangeLog, x.id = n
  PROVE  /\ Keyed(S \cup {x}, n + 1)
         /\ ChangesBelow(S \cup {x}, n + 1) = Append(ChangesBelow(S, n), x.change)
  <1>1. PICK q : q = Below(S, n)
    OBVIOUS
  <1>2. q \in Seq(ChangeLog)
    BY <1>1, BelowType DEF Keyed
  <1>3. Keyed(S \cup {x}, n + 1) /\ Below(S \cup {x}, n + 1) = Append(q, x)
    BY <1>1, BelowFresh
  <1>4. [j \in DOMAIN Append(q, x) |-> Append(q, x)[j].change]
          = Append([j \in DOMAIN q |-> q[j].change], x.change)
    BY <1>2, ColumnAppend
  <1> QED
    BY <1>1, <1>3, <1>4, Zenon DEF ChangesBelow

-----------------------------------------------------------------------------
(* The invariant *)

\* The stored logs that did not panic.
Kept == {l \in store : l.id \notin panicked}

Typed ==
    /\ up \in BOOLEAN /\ clean \in BOOLEAN /\ pendingChanges \in BOOLEAN
    /\ clock \in Nat /\ restarts \in Nat /\ storeFails \in Nat
    /\ inbox \subseteq ChangeLog /\ config \in Config /\ routers \in Tables
    /\ lock \in {"free", "restarting"}

\* The keys of the store are used once, and no ID is ahead of the clock.
KeysBehindClock ==
    /\ Keyed(store, clock)
    /\ \A l \in inbox : l.id < clock
    /\ \A i \in panicked : i \in Nat /\ i < clock

HoldsAccepted == ChangesBelow(Kept, clock) = accepted

Rebuilds ==
    clean => /\ Replayable(ChangesBelow(store, clock))
             /\ up => config = Replay(ChangesBelow(store, clock))

ServesConfig == Settled => Current(config, routers)

IInv == Typed /\ KeysBehindClock /\ HoldsAccepted /\ Rebuilds /\ HashCoversLogs /\ ServesConfig

LEMMA InitIInv == Init => IInv
  <1> SUFFICES ASSUME Init PROVE IInv
    OBVIOUS
  <1>1. Keyed({}, 0) /\ store = {} /\ Kept = {} /\ clock = 0 /\ 0 \in Nat
    BY DEF Init, Keyed, Kept
  <1>2. ChangesBelow({}, 0) = <<>>
    BY BelowNone DEF ChangesBelow
  <1>3. Typed
    <2>1. NoRouters \in Tables
      BY DEF NoRouters, NoRoutes, Tables
    <2>2. TRUE \in BOOLEAN /\ FALSE \in BOOLEAN
      OBVIOUS
    <2> QED
      BY <2>1, <2>2, InitConfigType DEF Init, Typed
  <1>4. KeysBehindClock /\ HoldsAccepted
    BY <1>1, <1>2 DEF Init, KeysBehindClock, HoldsAccepted
  <1>5. Rebuilds
    BY <1>1, <1>2, ReplayEmpty DEF Init, Rebuilds
  <1>6. HashCoversLogs
    BY DEF Init, HashCoversLogs
  <1>7. ServesConfig
    BY DEF Init, ServesConfig, Current, InitConfig, RoutesOf, NoRoutes
  <1> QED
    BY <1>3, <1>4, <1>5, <1>6, <1>7 DEF IInv

LEMMA KeyedSubset ==
  ASSUME NEW S, NEW n, Keyed(S, n), NEW T, T \subseteq S
  PROVE  Keyed(T, n)
  BY DEF Keyed

\* The clock moves on and nothing is stored.
LEMMA ClockTicks ==
  ASSUME Typed, KeysBehindClock, clock' = clock + 1, store' = store, panicked' = panicked
  PROVE  /\ Keyed(store', clock')
         /\ ChangesBelow(store', clock') = ChangesBelow(store, clock)
         /\ ChangesBelow(Kept', clock') = ChangesBelow(Kept, clock)
  <1>1. clock \in Nat /\ Keyed(store, clock) /\ Keyed(Kept, clock)
    BY KeyedSubset DEF Typed, KeysBehindClock, Kept
  <1>2. Kept' = Kept
    BY DEF Kept
  <1> QED
    BY <1>1, <1>2, ChangesBelowQuiet

\* What the deferred functions leave: the log stored at the clock, behind all
\* others, and joined to changeLogs; or neither.
LEMMA Persisted ==
  ASSUME Typed, KeysBehindClock, NEW l \in ChangeLog, Persist(l)
  PROVE  /\ clock' = clock + 1 /\ storeFails' \in Nat
         /\ \/ /\ storeFails' = storeFails
               /\ \E x \in ChangeLog : x.id = clock /\ x.change = l.change /\ store' = store \cup {x}
               /\ changeLogs' = Append(changeLogs, l.id)
            \/ /\ storeFails' # storeFails
               /\ store' = store /\ changeLogs' = changeLogs
  <1>1. PICK x : x = [id |-> clock, change |-> l.change]
    OBVIOUS
  <1>2. x \in ChangeLog /\ x.id = clock /\ x.change = l.change
    BY <1>1 DEF ChangeLog, Typed
  <1>3. CASE store' = store \cup {[id |-> clock, change |-> l.change]}
              /\ changeLogs' = Append(changeLogs, l.id) /\ clock' = clock + 1 /\ UNCHANGED storeFails
    BY <1>1, <1>2, <1>3 DEF Typed
  <1>4. CASE storeFails' = storeFails + 1 /\ clock' = clock + 1 /\ UNCHANGED <<store, changeLogs>>
    BY <1>4 DEF Typed
  <1> QED
    BY <1>3, <1>4 DEF Persist

\* The tables after a reload that does not fail.
LEMMA ReloadServes ==
  ASSUME Typed, NEW c \in Change, NEW S, S = Changed(config, c), Reload(S, c)
  PROVE  /\ routers' \in Tables /\ pendingChanges' \in BOOLEAN
         /\ (~ReloadFails(S, c) /\ Current(config, routers)) => Current(S, routers')
  <1>0. S \in Config /\ config \in Config /\ routers \in Tables /\ pendingChanges \in BOOLEAN
    BY ChangedRoutes DEF Typed
  <1>1. routers' \in Tables
    <2>1. CASE Reloads(c)
      BY <1>0, <2>1, SetupRoutesType DEF Reload
    <2>2. CASE ~Reloads(c)
      BY <1>0, <2>2 DEF Reload
    <2> QED
      BY <2>1, <2>2
  <1>2. pendingChanges' \in BOOLEAN
    BY Zenon DEF Reload
  <1>3. ASSUME ~ReloadFails(S, c), Current(config, routers) PROVE Current(S, routers')
    <2>1. CASE pendingChanges
      <3>1. pendingChanges = TRUE
        BY <1>0, <2>1, Zenon
      <3>2. routers' = SetupRoutes(S, routers, c.ns, TRUE) /\ ~SetupRoutesFails(S, c.ns, TRUE)
        BY <1>3, <3>1 DEF Reload, Reloads, ReloadFails
      <3> QED
        BY <3>2, ReloadAll
    <2>2. CASE ~pendingChanges /\ IsRelatedToRoutes(c)
      <3>1. pendingChanges = FALSE
        BY <1>0, <2>2, Zenon
      <3>2. routers' = SetupRoutes(S, routers, c.ns, FALSE) /\ ~SetupRoutesFails(S, c.ns, FALSE)
        BY <1>3, <2>2, <3>1 DEF Reload, Reloads, ReloadFails
      <3> QED
        BY <1>0, <1>3, <3>2, ReloadOne
    <2>3. CASE ~pendingChanges /\ ~IsRelatedToRoutes(c)
      <3>1. routers' = routers
        BY <2>3 DEF Reload, Reloads
      <3> QED
        BY <1>0, <1>3, <2>3, <3>1, ReloadNone
    <2> QED
      BY <2>1, <2>2, <2>3
  <1> QED
    BY <1>1, <1>2, <1>3

\* What every call of processChangeLog has in common.
LEMMA CallFrame ==
  ASSUME IInv, NEW l \in inbox, processChangeLog(l)
  PROVE  /\ l \in ChangeLog /\ l.change \in Change /\ up /\ lock = "free"
         /\ up' = up /\ lock' = lock /\ inbox' \subseteq inbox
  BY DEF IInv, Typed, processChangeLog, ChangeLog

LEMMA StepAccepted ==
  ASSUME IInv, NEW l \in inbox, processChangeLog(l), ProcessAccepted(l)
  PROVE  IInv'
  <1> USE DEF IInv
  <1>0. /\ l \in ChangeLog /\ l.change \in Change /\ up /\ lock = "free"
        /\ up' = up /\ lock' = lock /\ inbox' \subseteq inbox
    BY CallFrame
  <1>c. PICK c : c = l.change
    OBVIOUS
  <1>s. PICK S : S = Changed(config, c)
    OBVIOUS
  <1>1. /\ Outcome(config, c) = "ok" /\ ~ReloadFails(S, c) /\ config' = S /\ Reload(S, c)
        /\ changeHash' = Append(changeHash, l.id) /\ Persist(l)
        /\ accepted' = IF storeFails' = storeFails THEN Append(accepted, c) ELSE accepted
        /\ restarts' = restarts /\ panicked' = panicked
    BY <1>c, <1>s DEF ProcessAccepted
  <1>a. clean' = (clean /\ storeFails' = storeFails)
    BY DEF ProcessAccepted
  <1>b. clean' \in BOOLEAN /\ (clean' => clean /\ storeFails' = storeFails)
    BY <1>a, Zenon
  <1>2. /\ clock' = clock + 1 /\ storeFails' \in Nat
        /\ \/ /\ storeFails' = storeFails
              /\ \E x \in ChangeLog : x.id = clock /\ x.change = c /\ store' = store \cup {x}
              /\ changeLogs' = Append(changeLogs, l.id)
           \/ /\ storeFails' # storeFails
              /\ store' = store /\ changeLogs' = changeLogs
    BY <1>0, <1>c, <1>1, Persisted
  <1>3. /\ routers' \in Tables /\ pendingChanges' \in BOOLEAN
        /\ Current(config, routers) => Current(S, routers')
    BY <1>0, <1>c, <1>s, <1>1, ReloadServes
  <1>4. S \in Config /\ clock \in Nat /\ Keyed(store, clock) /\ Keyed(Kept, clock)
    BY <1>0, <1>c, <1>s, ChangedRoutes, KeyedSubset DEF Typed, KeysBehindClock, Kept
  <1>5. Typed'
    BY <1>0, <1>b, <1>1, <1>2, <1>3, <1>4 DEF Typed
  <1>6. ServesConfig'
    <2> SUFFICES ASSUME Settled' PROVE Current(config', routers')
      BY DEF ServesConfig
    <2>1. Settled
      BY <1>0, <1>1 DEF Settled
    <2> QED
      BY <1>1, <1>3, <2>1 DEF ServesConfig
  <1>7. CASE /\ storeFails' = storeFails
             /\ \E x \in ChangeLog : x.id = clock /\ x.change = c /\ store' = store \cup {x}
             /\ changeLogs' = Append(changeLogs, l.id)
    <2>1. PICK x \in ChangeLog : x.id = clock /\ x.change = c /\ store' = store \cup {x}
      BY <1>7
    <2>2. /\ Keyed(store', clock')
          /\ ChangesBelow(store', clock') = Append(ChangesBelow(store, clock), c)
      BY <1>2, <1>4, <2>1, ChangesBelowFresh
    <2>3. ChangesBelow(Kept', clock') = Append(ChangesBelow(Kept, clock), c)
      <3>1. clock \notin panicked
        BY <1>4 DEF KeysBehindClock
      <3>2. Kept' = Kept \cup {x}
        BY <1>1, <2>1, <3>1 DEF Kept
      <3> QED
        BY <1>2, <1>4, <2>1, <3>2, ChangesBelowFresh
    <2>4. KeysBehindClock'
      BY <1>0, <1>1, <1>2, <1>4, <2>2 DEF KeysBehindClock, Typed, ChangeLog
    <2>5. HoldsAccepted'
      BY <1>1, <1>7, <2>3 DEF HoldsAccepted
    <2>6. ASSUME clean'
          PROVE  Replayable(ChangesBelow(store', clock')) /\ config' = Replay(ChangesBelow(store', clock'))
      <3>1. PICK cs : cs = ChangesBelow(store, clock)
        OBVIOUS
      <3>2. cs \in Seq(Change) /\ Replayable(cs) /\ config = Replay(cs)
        BY <1>0, <1>b, <1>4, <2>6, <3>1, ChangesBelowType DEF Rebuilds
      <3>3. Replayable(Append(cs, c)) /\ Replay(Append(cs, c)) = ApplyChange(config, c)
        BY <1>0, <1>c, <1>1, <3>2, ReplayAppend
      <3> QED
        BY <1>s, <1>1, <2>2, <3>1, <3>3 DEF ApplyChange
    <2>7. Rebuilds'
      BY <2>6 DEF Rebuilds
    <2>8. HashCoversLogs'
      BY <1>0, <1>b, <1>1, <1>7 DEF HashCoversLogs
    <2> QED
      BY <1>5, <1>6, <2>4, <2>5, <2>7, <2>8
  <1>8. CASE storeFails' # storeFails /\ store' = store /\ changeLogs' = changeLogs
    <2>1. /\ Keyed(store', clock')
          /\ ChangesBelow(Kept', clock') = ChangesBelow(Kept, clock)
      BY <1>1, <1>2, <1>8, ClockTicks
    <2>2. KeysBehindClock'
      BY <1>0, <1>1, <1>2, <1>4, <2>1 DEF KeysBehindClock, Typed, ChangeLog
    <2>3. HoldsAccepted'
      BY <1>1, <1>8, <2>1 DEF HoldsAccepted
    <2>4. ~clean'
      BY <1>b, <1>8
    <2>5. Rebuilds' /\ HashCoversLogs'
      BY <2>4 DEF Rebuilds, HashCoversLogs
    <2> QED
      BY <1>5, <1>6, <2>2, <2>3, <2>5
  <1> QED
    BY <1>2, <1>7, <1>8

LEMMA StepRefusedByRouter ==
  ASSUME IInv, NEW l \in inbox, processChangeLog(l), ProcessRefusedByRouter(l)
  PROVE  IInv'
  <1> USE DEF IInv
  <1>0. /\ l \in ChangeLog /\ l.change \in Change /\ up /\ lock = "free"
        /\ up' = up /\ lock' = lock /\ inbox' \subseteq inbox
    BY CallFrame
  <1>c. PICK c : c = l.change
    OBVIOUS
  <1>s. PICK S : S = Changed(config, c)
    OBVIOUS
  <1>1. /\ config' = S /\ Reload(S, c) /\ restarts' = restarts + 2 /\ clean' = FALSE
        /\ UNCHANGED <<changeLogs, store, clock, accepted, panicked, storeFails>>
    BY <1>c, <1>s DEF ProcessRefusedByRouter
  <1>2. routers' \in Tables /\ pendingChanges' \in BOOLEAN /\ S \in Config /\ restarts + 2 \in Nat
    BY <1>0, <1>c, <1>s, <1>1, ReloadServes, ChangedRoutes DEF Typed
  <1>3. FALSE \in BOOLEAN /\ ~clean' /\ ~Settled'
    BY <1>1 DEF Settled, Typed
  <1>4. Typed'
    BY <1>0, <1>1, <1>2, <1>3 DEF Typed
  <1>5. KeysBehindClock' /\ HoldsAccepted'
    BY <1>0, <1>1 DEF KeysBehindClock, HoldsAccepted, Kept
  <1>6. Rebuilds' /\ HashCoversLogs' /\ ServesConfig'
    BY <1>3 DEF Rebuilds, HashCoversLogs, ServesConfig
  <1> QED
    BY <1>4, <1>5, <1>6

LEMMA StepRefused ==
  ASSUME IInv, NEW l \in inbox, processChangeLog(l), ProcessRefused(l)
  PROVE  IInv'
  <1> USE DEF IInv
  <1>0. /\ up' = up /\ lock' = lock /\ inbox' \subseteq inbox
        /\ restarts' = restarts + 1 /\ restarts \in Nat
        /\ UNCHANGED <<config, routers, pendingChanges, changeHash, changeLogs, store, clock,
                       accepted, panicked, clean, storeFails>>
    BY CallFrame DEF ProcessRefused, history, Typed
  <1>1. Typed'
    BY <1>0 DEF Typed
  <1>2. KeysBehindClock' /\ HoldsAccepted'
    BY <1>0 DEF KeysBehindClock, HoldsAccepted, Kept
  <1>3. Rebuilds' /\ HashCoversLogs'
    BY <1>0 DEF Rebuilds, HashCoversLogs
  <1>4. ServesConfig'
    BY <1>0 DEF ServesConfig, Settled
  <1> QED
    BY <1>1, <1>2, <1>3, <1>4

LEMMA StepPanics ==
  ASSUME IInv, NEW l \in inbox, processChangeLog(l), ProcessPanics(l)
  PROVE  IInv'
  <1> USE DEF IInv
  <1>0. /\ l \in ChangeLog /\ l.change \in Change /\ up /\ lock = "free"
        /\ up' = up /\ lock' = lock /\ inbox' \subseteq inbox
    BY CallFrame
  <1>1. /\ Persist(l) /\ panicked' = panicked \cup {l2.id : l2 \in store' \ store} /\ clean' = FALSE
        /\ UNCHANGED <<config, routers, pendingChanges, restarts, accepted>>
    BY DEF ProcessPanics
  <1>2. /\ clock' = clock + 1 /\ storeFails' \in Nat
        /\ \/ \E x \in ChangeLog : x.id = clock /\ x.change = l.change /\ store' = store \cup {x}
           \/ store' = store
    BY <1>0, <1>1, Persisted
  <1>3. clock \in Nat /\ Keyed(store, clock) /\ Keyed(Kept, clock)
    BY KeyedSubset DEF Typed, KeysBehindClock, Kept
  <1>4. FALSE \in BOOLEAN /\ ~clean'
    BY <1>1
  <1>5. Typed'
    <2>a. clean' \in BOOLEAN
      BY <1>1, Zenon
    <2>1. clock' \in Nat /\ storeFails' \in Nat /\ up' = up /\ lock' = lock
      BY <1>0, <1>2, <1>3
    <2>2. inbox' \subseteq inbox /\ UNCHANGED <<config, routers, pendingChanges, restarts>>
      BY <1>0, <1>1
    <2> QED
      BY <2>a, <2>1, <2>2 DEF Typed
  <1>6. Rebuilds' /\ HashCoversLogs'
    BY <1>4 DEF Rebuilds, HashCoversLogs
  <1>7. ServesConfig'
    BY <1>0, <1>1 DEF ServesConfig, Settled
  <1>8. Kept' = Kept /\ Keyed(store', clock') /\ \A i \in panicked' : i \in panicked \/ i = clock
    <2>1. CASE store' = store
      <3>1. panicked' = panicked
        BY <1>1, <2>1
      <3> QED
        BY <1>2, <1>3, <2>1, <3>1, ChangesBelowQuiet DEF Kept
    <2>2. CASE \E x \in ChangeLog : x.id = clock /\ x.change = l.change /\ store' = store \cup {x}
      <3>1. PICK x \in ChangeLog : x.id = clock /\ x.change = l.change /\ store' = store \cup {x}
        BY <2>2
      <3>2. \A k \in store : k.id # clock
        BY <1>3 DEF Keyed, ChangeLog
      <3>3. store' \ store = {x}
        BY <3>1, <3>2
      <3>4. panicked' = panicked \cup {clock}
        BY <1>1, <3>1, <3>3
      <3>5. Kept' = Kept
        BY <3>1, <3>2, <3>4 DEF Kept
      <3>6. Keyed(store', clock')
        BY <1>2, <1>3, <3>1, ChangesBelowFresh
      <3> QED
        BY <3>4, <3>5, <3>6
    <2> QED
      BY <1>2, <2>1, <2>2
  <1>9. KeysBehindClock'
    BY <1>0, <1>2, <1>3, <1>8 DEF KeysBehindClock, Typed, ChangeLog
  <1>10. HoldsAccepted'
    <2>1. ChangesBelow(Kept, clock + 1) = ChangesBelow(Kept, clock)
      BY <1>3, ChangesBelowQuiet
    <2> QED
      BY <1>1, <1>2, <1>8, <2>1 DEF HoldsAccepted
  <1> QED
    BY <1>5, <1>6, <1>7, <1>9, <1>10

LEMMA StepNewChangeLog ==
  ASSUME IInv, NEW c \in Request, NewChangeLog(c)
  PROVE  IInv'
  <1> USE DEF IInv
  <1>0. /\ clock' = clock + 1 /\ inbox' = inbox \cup {[id |-> clock, change |-> c]}
        /\ UNCHANGED <<up, config, routers, pendingChanges, changeLogs, changeHash, restarts, lock,
                       store, accepted, panicked, clean, storeFails>>
    BY DEF NewChangeLog, memory, history
  <1>1. c \in Change /\ clock \in Nat
    BY BoundsAssumption DEF Typed
  <1>2. PICK x : x = [id |-> clock, change |-> c]
    OBVIOUS
  <1>3. x \in ChangeLog /\ x.id = clock /\ inbox' = inbox \cup {x}
    BY <1>0, <1>1, <1>2 DEF ChangeLog
  <1>4. Typed'
    BY <1>0, <1>1, <1>3 DEF Typed
  <1>5. /\ Keyed(store', clock')
        /\ ChangesBelow(store', clock') = ChangesBelow(store, clock)
        /\ ChangesBelow(Kept', clock') = ChangesBelow(Kept, clock)
    BY <1>0, ClockTicks
  <1>6. KeysBehindClock'
    BY <1>0, <1>1, <1>3, <1>5 DEF KeysBehindClock, Typed, ChangeLog
  <1>7. HoldsAccepted' /\ Rebuilds' /\ HashCoversLogs'
    BY <1>0, <1>5 DEF HoldsAccepted, Rebuilds, HashCoversLogs
  <1>8. ServesConfig'
    BY <1>0 DEF ServesConfig, Settled
  <1> QED
    BY <1>4, <1>6, <1>7, <1>8

LEMMA StepRestart ==
  ASSUME IInv, restartState
  PROVE  IInv'
  <1> USE DEF IInv
  <1>0. /\ lock' = "restarting" /\ restarts' = restarts - 1 /\ restarts > 0
        /\ pendingChanges' = FALSE /\ routers' = NoRouters
        /\ UNCHANGED <<up, clock, inbox, config, changeLogs, store, accepted, panicked, clean, storeFails>>
    BY DEF restartState, history, bounds
  <1>1. NoRouters \in Tables /\ FALSE \in BOOLEAN /\ restarts - 1 \in Nat
    BY <1>0 DEF NoRouters, NoRoutes, Tables, Typed
  <1>2. Typed'
    BY <1>0, <1>1 DEF Typed
  <1>3. KeysBehindClock' /\ HoldsAccepted'
    BY <1>0 DEF KeysBehindClock, HoldsAccepted, Kept
  <1>4. Rebuilds'
    BY <1>0 DEF Rebuilds
  <1>5. HashCoversLogs' /\ ServesConfig'
    BY <1>0 DEF HashCoversLogs, ServesConfig, Settled
  <1> QED
    BY <1>2, <1>3, <1>4, <1>5

LEMMA StepCrash ==
  ASSUME IInv, Crash
  PROVE  IInv'
  <1> USE DEF IInv
  <1>0. /\ up' = FALSE /\ inbox' = {}
        /\ UNCHANGED <<clock, config, routers, pendingChanges, changeLogs, changeHash, restarts, lock,
                       store, accepted, panicked, clean, storeFails>>
    BY DEF Crash, memory, history
  <1>1. FALSE \in BOOLEAN /\ ~up'
    BY <1>0
  <1>2. Typed'
    BY <1>0, <1>1 DEF Typed
  <1>3. KeysBehindClock' /\ HoldsAccepted'
    BY <1>0 DEF KeysBehindClock, HoldsAccepted, Kept
  <1>4. Rebuilds'
    BY <1>0, <1>1 DEF Rebuilds
  <1>5. HashCoversLogs' /\ ServesConfig'
    BY <1>1 DEF HashCoversLogs, ServesConfig, Settled
  <1> QED
    BY <1>2, <1>3, <1>4, <1>5

LEMMA OfTheStore == StoredChanges = ChangesBelow(store, clock)
  <1>1. FetchChangeLogs = Below(store, clock)
    BY AtTheClock DEF FetchChangeLogs
  <1> QED
    BY <1>1, Zenon DEF StoredChanges, ChangesBelow

LEMMA StepStart ==
  ASSUME IInv, Start
  PROVE  IInv'
  <1> USE DEF IInv
  <1>c. PICK cs : cs = ChangesBelow(store, clock)
    OBVIOUS
  <1>0. /\ ~SetupRoutesFails(Replay(cs), "", TRUE)
        /\ up' = TRUE /\ config' = Replay(cs)
        /\ routers' = SetupRoutes(Replay(cs), NoRouters, "", TRUE)
        /\ changeLogs' = changeHash' /\ restarts' = 0 /\ lock' = "free"
        /\ UNCHANGED <<clock, inbox, store, accepted, panicked, clean, storeFails>>
    BY <1>c, OfTheStore DEF Start, history, bounds
  <1>a. pendingChanges' \in BOOLEAN
    <2>1. pendingChanges' = (store # {})
      BY DEF Start
    <2> QED
      BY <2>1, Zenon
  <1>1. cs \in Seq(Change)
    BY <1>c, ChangesBelowType DEF Typed, KeysBehindClock
  <1>2. Replay(cs) \in Config /\ NoRouters \in Tables /\ TRUE \in BOOLEAN
    BY <1>1, ReplayType DEF NoRouters, NoRoutes, Tables
  <1>3. routers' \in Tables
    BY <1>0, <1>2, SetupRoutesType
  <1>4. Typed'
    BY <1>0, <1>a, <1>2, <1>3 DEF Typed
  <1>5. KeysBehindClock' /\ HoldsAccepted'
    BY <1>0 DEF KeysBehindClock, HoldsAccepted, Kept
  <1>6. Rebuilds'
    BY <1>0, <1>c DEF Rebuilds
  <1>7. HashCoversLogs'
    BY <1>0 DEF HashCoversLogs
  <1>8. ServesConfig'
    BY <1>0, ReloadAll DEF ServesConfig
  <1> QED
    BY <1>4, <1>5, <1>6, <1>7, <1>8

LEMMA StepIInv == IInv /\ [Next]_vars => IInv'
  <1> SUFFICES ASSUME IInv, [Next]_vars PROVE IInv'
    OBVIOUS
  <1>1. CASE UNCHANGED vars
    <2>1. UNCHANGED <<up, clock, inbox, config, routers, pendingChanges, changeLogs, changeHash,
                      restarts, lock, store, accepted, panicked, clean, storeFails>>
      BY <1>1 DEF vars, memory, history, bounds
    <2>2. Typed' /\ KeysBehindClock' /\ HoldsAccepted' /\ Rebuilds'
      BY <2>1 DEF IInv, Typed, KeysBehindClock, HoldsAccepted, Kept, Rebuilds
    <2>3. HashCoversLogs' /\ ServesConfig'
      BY <2>1 DEF IInv, HashCoversLogs, ServesConfig, Settled
    <2> QED
      BY <2>2, <2>3 DEF IInv
  <1>2. ASSUME NEW l \in inbox, processChangeLog(l) PROVE IInv'
    <2>1. \/ ProcessAccepted(l) \/ ProcessRefusedByRouter(l)
          \/ ProcessRefused(l) \/ ProcessPanics(l)
      BY <1>2 DEF processChangeLog
    <2> QED
      BY <1>2, <2>1, StepAccepted, StepRefusedByRouter, StepRefused, StepPanics, Zenon
  <1>3. CASE Next
    BY <1>2, <1>3, StepNewChangeLog, StepRestart, StepCrash, StepStart, Zenon DEF Next, Process
  <1> QED
    BY <1>1, <1>3

\* The invariant holds in every reachable state, for any number of changes, crashes
\* and failed writes.
THEOREM InvariantHolds == Spec => []IInv
  BY InitIInv, StepIInv, PTL DEF Spec

\* The store holds exactly the changes that clients were told are done, in the order
\* in which they were applied, beside those whose processing panicked.
THEOREM StoreAlwaysHoldsAccepted == Spec => []StoreHoldsAccepted
  <1>1. IInv => StoreHoldsAccepted
    <2> SUFFICES ASSUME HoldsAccepted PROVE StoreHoldsAccepted
      BY DEF IInv
    <2>1. ByID({l \in store : l.id \notin panicked}) = Below(Kept, clock)
      BY AtTheClock DEF Kept
    <2> QED
      BY <2>1, Zenon DEF StoreHoldsAccepted, HoldsAccepted, ChangesBelow
  <1> QED
    BY <1>1, InvariantHolds, PTL

\* Types are kept; while every applied change was persisted the stored logs can be
\* replayed and build the configuration of the running process; and the change hash
\* of a process stands for the logs it applied, by the IDs it knows them by (which
\* are not those of the process before a crash).
THEOREM ReplayAlwaysRebuildsState == Spec => []ReplayRebuildsState
  <1>1. IInv => ReplayRebuildsState
    <2> SUFFICES ASSUME IInv PROVE ReplayRebuildsState
      OBVIOUS
    <2>1. TypeOK
      <3>1. ASSUME NEW l \in inbox \cup store PROVE l.id \in 0..clock /\ l.change \in Change
        <4>1. l \in ChangeLog /\ l.id < clock /\ clock \in Nat
          BY DEF IInv, Typed, KeysBehindClock, Keyed
        <4> QED
          BY <4>1 DEF ChangeLog
      <3> QED
        BY <3>1 DEF IInv, Typed, TypeOK, Tables
    <2>2. ReplayRebuildsConfig
      BY OfTheStore DEF IInv, Rebuilds, ReplayRebuildsConfig
    <2> QED
      BY <2>1, <2>2 DEF IInv, ReplayRebuildsState
  <1> QED
    BY <1>1, InvariantHolds, PTL

\* Unless a failed change is still to be cleaned up, each namespace that has routes
\* serves them as they are configured.
THEOREM TablesAlwaysCurrent == Spec => []TablesCurrent
  <1>1. IInv => TablesCurrent
    BY DEF IInv, ServesConfig, TablesCurrent, Current
  <1> QED
    BY <1>1, InvariantHolds, PTL
=============================================================================
