------------------------- MODULE ConfigurationProofs -------------------------
(***************************************************************************)
(* Facts about Configuration that the proofs about one process and about a *)
(* cluster share: what a change does to a configuration, what a reload     *)
(* makes of the tables, and how the replay of a sequence of changes grows  *)
(* with it.  The last needs induction over the sequence, which is done     *)
(* here for sets of natural numbers.                                       *)
(***************************************************************************)
EXTENDS Configuration, SequenceTheorems, WellFoundedInduction, TLAPS

Config ==
    [namespaces : SUBSET Namespace, services : SUBSET Namespace, domains : SUBSET Namespace,
     routes : [Namespace -> [Route -> Content \cup {Absent}]],
     linked : SUBSET (Route \X Namespace)]

Tables == [Namespace -> [Route -> Content \cup {Absent}]]

\* Every namespace that has routes serves them as they are configured.
Current(S, routers) ==
    \A ns \in Namespace : RoutesOf(S, ns) # {} => routers[ns] = S.routes[ns]

\* No route that the router would refuse.
NoneRefused(S) == \A ns \in Namespace : ~Refused(S, ns)

-----------------------------------------------------------------------------
(* Changes *)

LEMMA ChangeFields ==
  ASSUME NEW c \in Change
  PROVE  /\ c.ns \in Namespace
         /\ c.cmd \in {"add_namespace", "delete_namespace", "add_service", "delete_service",
                       "add_domain", "delete_domain", "add_route", "delete_route"}
         /\ c.cmd \in {"add_route", "delete_route"} => c.name \in Route
         /\ c.cmd = "add_route" => c.content \in Content
  BY DEF Change

LEMMA InitConfigType == InitConfig \in Config /\ NoneRefused(InitConfig)
  BY DefaultNsAssumption DEF InitConfig, Config, NoRoutes, Absent, NoneRefused, Refused

\* The routes after a change: one of them is replaced, or none.
LEMMA ChangedRoutes ==
  ASSUME NEW S \in Config, NEW c \in Change
  PROVE  /\ Changed(S, c) \in Config
         /\ \/ c.cmd \in {"add_route", "delete_route"}
            \/ Changed(S, c).routes = S.routes
         /\ \A m \in Namespace \ {c.ns} : Changed(S, c).routes[m] = S.routes[m]
         /\ \A m \in Namespace, q \in Route :
               \/ Changed(S, c).routes[m][q] \in {S.routes[m][q], Absent}
               \/ c.cmd = "add_route" /\ Changed(S, c).routes[m][q] = c.content
  <1>0. S.routes \in Tables /\ S.linked \in SUBSET (Route \X Namespace) /\ c.ns \in Namespace
    BY ChangeFields DEF Config, Tables
  <1>1. CASE c.cmd = "add_route"
    <2> DEFINE R == [S.routes EXCEPT ![c.ns][c.name] = c.content]
               L == IF c.content = "service" THEN S.linked \cup {<<c.name, c.ns>>} ELSE S.linked
    <2>1. Changed(S, c) = [S EXCEPT !.routes[c.ns][c.name] = c.content,
                                    !.linked = IF c.content = "service" THEN @ \cup {<<c.name, c.ns>>} ELSE @]
      BY <1>1 DEF Changed
    <2>2. c.name \in Route /\ c.content \in Content \cup {Absent}
      BY <1>1, ChangeFields
    <2>3. Changed(S, c) = [S EXCEPT !.routes = R, !.linked = L]
      BY <2>1 DEF Config
    <2>4. L \in SUBSET (Route \X Namespace)
      BY <1>0, <2>2
    <2>5. /\ R \in Tables /\ \A m \in Namespace \ {c.ns} : R[m] = S.routes[m]
          /\ \A m \in Namespace, q \in Route : R[m][q] = c.content \/ R[m][q] = S.routes[m][q]
      BY <1>0, <2>2 DEF Tables
    <2> HIDE DEF R, L
    <2>6. Changed(S, c) \in Config /\ Changed(S, c).routes = R
      BY <2>3, <2>4, <2>5 DEF Config, Tables
    <2> QED
      BY <1>1, <2>5, <2>6
  <1>2. CASE c.cmd = "delete_route"
    <2> DEFINE R == [S.routes EXCEPT ![c.ns][c.name] = Absent]
               L == S.linked \ {<<c.name, c.ns>>}
    <2>1. Changed(S, c) = [S EXCEPT !.routes[c.ns][c.name] = Absent, !.linked = @ \ {<<c.name, c.ns>>}]
      BY <1>2 DEF Changed
    <2>2. c.name \in Route /\ Absent \in Content \cup {Absent}
      BY <1>2, ChangeFields
    <2>3. Changed(S, c) = [S EXCEPT !.routes = R, !.linked = L]
      BY <2>1 DEF Config
    <2>4. L \in SUBSET (Route \X Namespace)
      BY <1>0
    <2>5. /\ R \in Tables /\ \A m \in Namespace \ {c.ns} : R[m] = S.routes[m]
          /\ \A m \in Namespace, q \in Route : R[m][q] = Absent \/ R[m][q] = S.routes[m][q]
      BY <1>0, <2>2 DEF Tables
    <2> HIDE DEF R, L
    <2>6. Changed(S, c) \in Config /\ Changed(S, c).routes = R
      BY <2>3, <2>4, <2>5 DEF Config, Tables
    <2> QED
      BY <1>2, <2>5, <2>6
  <1>3. CASE c.cmd \notin {"add_route", "delete_route"}
    <2>1. Changed(S, c) \in Config /\ Changed(S, c).routes = S.routes
      BY <1>3, ChangeFields DEF Changed, Config
    <2> QED
      BY <1>3, <2>1
  <1> QED
    BY <1>1, <1>2, <1>3

LEMMA ChangedNoneRefused ==
  ASSUME NEW S \in Config, NEW c \in Change, NoneRefused(S), ~AsksRefused(c)
  PROVE  NoneRefused(Changed(S, c))
  <1> SUFFICES ASSUME NEW ns \in Namespace, NEW r \in Route
               PROVE  Changed(S, c).routes[ns][r] # "refused"
    BY DEF NoneRefused, Refused
  <1>1. S.routes[ns][r] # "refused" /\ Absent # "refused"
    BY DEF NoneRefused, Refused, Absent
  <1>2. c.cmd = "add_route" => c.content # "refused"
    BY DEF AsksRefused
  <1> QED
    BY <1>1, <1>2, ChangedRoutes

LEMMA ApplyChangeType ==
  ASSUME NEW S \in Config, NEW c \in Change
  PROVE  ApplyChange(S, c) \in Config
  BY ChangedRoutes DEF ApplyChange

-----------------------------------------------------------------------------
(* Reloads *)

LEMMA SetupRoutesType ==
  ASSUME NEW S \in Config, NEW R \in Tables, NEW ns, NEW all
  PROVE  SetupRoutes(S, R, ns, all) \in Tables
  BY DEF SetupRoutes, Tables, Config

LEMMA NoneRefusedReloads ==
  ASSUME NEW S, NoneRefused(S), NEW ns \in Namespace, NEW all
  PROVE  ~SetupRoutesFails(S, ns, all)
  BY DEF NoneRefused, SetupRoutesFails, Scope

\* A reload of everything that does not fail makes the tables current.
LEMMA ReloadAll ==
  ASSUME NEW S, NEW routers, NEW ns, ~SetupRoutesFails(S, ns, TRUE)
  PROVE  Current(S, SetupRoutes(S, routers, ns, TRUE))
  BY DEF SetupRoutesFails, Scope, SetupRoutes, Current

\* So does a reload of the namespace of the change, when they were before it.
LEMMA ReloadOne ==
  ASSUME NEW S \in Config, NEW c \in Change, NEW routers, Current(S, routers),
         ~SetupRoutesFails(Changed(S, c), c.ns, FALSE)
  PROVE  Current(Changed(S, c), SetupRoutes(Changed(S, c), routers, c.ns, FALSE))
  <1> DEFINE S2 == Changed(S, c)
             R2 == SetupRoutes(S2, routers, c.ns, FALSE)
  <1>1. ASSUME NEW ns \in Namespace, RoutesOf(S2, ns) # {} PROVE R2[ns] = S2.routes[ns]
    <2>1. CASE ns = c.ns
      <3>1. ~Refused(S2, c.ns)
        BY DEF SetupRoutesFails, Scope
      <3> QED
        BY <2>1, <3>1 DEF SetupRoutes, Scope
    <2>2. CASE ns # c.ns
      <3>1. S2.routes[ns] = S.routes[ns]
        BY <2>2, ChangedRoutes
      <3>2. RoutesOf(S, ns) # {}
        BY <1>1, <3>1 DEF RoutesOf
      <3>3. R2[ns] = routers[ns]
        BY <2>2 DEF SetupRoutes, Scope
      <3> QED
        BY <3>1, <3>2, <3>3 DEF Current
    <2> QED
      BY <2>1, <2>2
  <1> QED
    BY <1>1 DEF Current

\* And a change that is not about routes needs none.
LEMMA ReloadNone ==
  ASSUME NEW S \in Config, NEW c \in Change, NEW routers, Current(S, routers), ~IsRelatedToRoutes(c)
  PROVE  Current(Changed(S, c), routers)
  <1>1. Changed(S, c).routes = S.routes
    BY ChangedRoutes DEF IsRelatedToRoutes
  <1> QED
    BY <1>1 DEF Current, RoutesOf

-----------------------------------------------------------------------------
(* Induction over the natural numbers, for a set of them *)

LEMMA LessThanPairs == \A x, y \in Nat : <<x, y>> \in OpToRel(<, Nat) <=> x < y
  BY DEF OpToRel

LEMMA LeastOf ==
  ASSUME NEW T, T \subseteq Nat, NEW R, \A x, y \in Nat : <<x, y>> \in R <=> x < y,
         \E x \in T : \A y \in T : ~ (<<y, x>> \in R)
  PROVE  \E x \in T : \A y \in T : x <= y
  <1>1. PICK x \in T : \A y \in T : ~ (<<y, x>> \in R)
    OBVIOUS
  <1>2. ASSUME NEW y \in T PROVE x <= y
    <2>1. x \in Nat /\ y \in Nat /\ <<y, x>> \notin R
      BY <1>1
    <2>2. ~(y < x)
      BY <2>1
    <2> QED
      BY <2>1, <2>2
  <1> QED
    BY <1>2

LEMMA LeastElement ==
  ASSUME NEW T, T \subseteq Nat, T # {}
  PROVE  \E x \in T : \A y \in T : x <= y
  <1>1. \E x \in T : \A y \in T : ~ (<<y, x>> \in OpToRel(<, Nat))
    BY NatLessThanWellFounded, WFMin
  <1> QED
    BY <1>1, LessThanPairs, LeastOf

LEMMA SetInduction ==
  ASSUME NEW S, 0 \in S, \A n \in Nat : n \in S => n + 1 \in S
  PROVE  Nat \subseteq S
  <1> DEFINE T == Nat \ S
  <1> SUFFICES ASSUME T # {} PROVE FALSE
    OBVIOUS
  <1>1. PICK x \in T : \A y \in T : x <= y
    BY LeastElement
  <1>2. x # 0 /\ x - 1 \in Nat /\ x - 1 \in S
    BY <1>1
  <1> QED
    BY <1>1, <1>2

-----------------------------------------------------------------------------
(* Replays *)

\* F gives the configuration after the first i changes of cs, for every i up to n.
IsSteps(F, cs, n) ==
    F = [i \in 0..n |-> IF i = 0 THEN InitConfig ELSE ApplyChange(F[i - 1], cs[i])]

LEMMA StepsExist ==
  ASSUME NEW cs
  PROVE  \A n \in Nat : \E F : IsSteps(F, cs, n)
  <1> DEFINE N == {n \in Nat : \E F : IsSteps(F, cs, n)}
  <1>1. 0 \in N
    <2>1. IsSteps([i \in 0..0 |-> InitConfig], cs, 0)
      BY DEF IsSteps
    <2> QED
      BY <2>1
  <1>2. ASSUME NEW n \in Nat, n \in N PROVE n + 1 \in N
    <2>1. PICK F : IsSteps(F, cs, n)
      BY <1>2
    <2> DEFINE G == [i \in 0..(n + 1) |-> IF i <= n THEN F[i] ELSE ApplyChange(F[n], cs[n + 1])]
    <2>2. IsSteps(G, cs, n + 1)
      <3>1. \A i \in 0..n : F[i] = IF i = 0 THEN InitConfig ELSE ApplyChange(F[i - 1], cs[i])
        BY <2>1 DEF IsSteps
      <3>2. ASSUME NEW i \in 0..(n + 1)
            PROVE  G[i] = IF i = 0 THEN InitConfig ELSE ApplyChange(G[i - 1], cs[i])
        <4>1. CASE i <= n
          BY <3>1, <4>1
        <4>2. CASE i = n + 1
          BY <4>2
        <4> QED
          BY <4>1, <4>2
      <3> HIDE DEF G
      <3>3. DOMAIN G = 0..(n + 1) /\ G = [i \in 0..(n + 1) |-> G[i]]
        BY DEF G
      <3> QED
        BY <3>2, <3>3 DEF IsSteps
    <2> QED
      BY <2>2
  <1> HIDE DEF N
  <1>3. Nat \subseteq N
    BY <1>1, <1>2, SetInduction
  <1> QED
    BY <1>3 DEF N

\* The recursion of Steps has a solution, and Steps is one.
LEMMA StepsDefined ==
  ASSUME NEW cs \in Seq(Change)
  PROVE  /\ Steps(cs)[0] = InitConfig
         /\ \A i \in 1..Len(cs) : Steps(cs)[i] = ApplyChange(Steps(cs)[i - 1], cs[i])
  <1> DEFINE n == Len(cs)
             H == CHOOSE F : F = [i \in 0..n |->
                    IF i = 0 THEN InitConfig ELSE ApplyChange(F[i - 1], cs[i])]
  <1>0. n \in Nat
    OBVIOUS
  <1>1. \E F : F = [i \in 0..n |-> IF i = 0 THEN InitConfig ELSE ApplyChange(F[i - 1], cs[i])]
    BY <1>0, StepsExist DEF IsSteps
  <1>2. H = [i \in 0..n |-> IF i = 0 THEN InitConfig ELSE ApplyChange(H[i - 1], cs[i])]
    BY <1>1, Zenon
  <1>3. Steps(cs) = H
    BY DEF Steps
  <1> HIDE DEF H, n
  <1>4. \A i \in 0..n : H[i] = IF i = 0 THEN InitConfig ELSE ApplyChange(H[i - 1], cs[i])
    BY <1>2, Zenon
  <1>5. H[0] = InitConfig /\ \A i \in 1..n : H[i] = ApplyChange(H[i - 1], cs[i])
    BY <1>0, <1>4
  <1> QED
    BY <1>3, <1>5 DEF n

\* The steps of a sequence are those of what it continues, up to its end.
LEMMA StepsAppend ==
  ASSUME NEW cs \in Seq(Change), NEW c \in Change
  PROVE  \A i \in 0..Len(cs) : Steps(Append(cs, c))[i] = Steps(cs)[i]
  <1> DEFINE ds == Append(cs, c)
             N == {i \in Nat : i <= Len(cs) => Steps(ds)[i] = Steps(cs)[i]}
  <1>1. /\ ds \in Seq(Change) /\ Len(ds) = Len(cs) + 1 /\ Len(cs) \in Nat
        /\ \A i \in 1..Len(cs) : ds[i] = cs[i]
    BY AppendProperties
  <1> HIDE DEF ds
  <1>2. 0 \in N
    <2>1. Steps(ds)[0] = Steps(cs)[0]
      BY <1>1, StepsDefined
    <2> QED
      BY <2>1
  <1>3. ASSUME NEW i \in Nat, i \in N PROVE i + 1 \in N
    <2> SUFFICES ASSUME i + 1 <= Len(cs) PROVE Steps(ds)[i + 1] = Steps(cs)[i + 1]
      OBVIOUS
    <2>1. /\ i + 1 \in 1..Len(cs) /\ i + 1 \in 1..Len(ds) /\ (i + 1) - 1 = i
          /\ Steps(ds)[i] = Steps(cs)[i] /\ ds[i + 1] = cs[i + 1]
      BY <1>1, <1>3
    <2>2. Steps(ds)[i + 1] = ApplyChange(Steps(ds)[(i + 1) - 1], ds[i + 1])
      BY <1>1, <2>1, StepsDefined
    <2>3. Steps(cs)[i + 1] = ApplyChange(Steps(cs)[(i + 1) - 1], cs[i + 1])
      BY <2>1, StepsDefined
    <2> QED
      BY <2>1, <2>2, <2>3
  <1> HIDE DEF N
  <1>4. Nat \subseteq N
    BY <1>2, <1>3, SetInduction
  <1> QED
    BY <1>4 DEF N, ds

LEMMA ReplayEmpty == Replay(<<>>) = InitConfig /\ Replayable(<<>>)
  <1>1. <<>> \in Seq(Change) /\ Len(<<>>) = 0
    OBVIOUS
  <1>2. Steps(<<>>)[0] = InitConfig
    BY <1>1, StepsDefined
  <1>3. Replay(<<>>) = InitConfig
    BY <1>1, <1>2 DEF Replay
  <1>4. Replayable(<<>>)
    BY <1>1 DEF Replayable
  <1> QED
    BY <1>3, <1>4

\* One more change is applied to what the changes before it built, and decides,
\* after them, whether the sequence can be replayed.
LEMMA ReplayAppend ==
  ASSUME NEW cs \in Seq(Change), NEW c \in Change
  PROVE  /\ Replay(Append(cs, c)) = ApplyChange(Replay(cs), c)
         /\ Replayable(Append(cs, c)) <=> Replayable(cs) /\ Outcome(Replay(cs), c) = "ok"
  <1> DEFINE ds == Append(cs, c)
             n == Len(cs)
  <1>1. /\ ds \in Seq(Change) /\ Len(ds) = n + 1 /\ n \in Nat /\ ds[n + 1] = c
        /\ \A i \in 1..n : ds[i] = cs[i]
    BY AppendProperties
  <1>2. \A i \in 0..n : Steps(ds)[i] = Steps(cs)[i]
    BY StepsAppend
  <1> HIDE DEF ds
  <1>3. Steps(ds)[n + 1] = ApplyChange(Steps(ds)[(n + 1) - 1], ds[n + 1]) /\ (n + 1) - 1 = n
    BY <1>1, StepsDefined
  <1>4. Replay(ds) = Steps(ds)[n + 1] /\ Replay(cs) = Steps(cs)[n]
    BY <1>1 DEF Replay
  <1> HIDE DEF n
  <1>5. Steps(ds)[n] = Steps(cs)[n]
    BY <1>1, <1>2
  <1>6. Replay(ds) = ApplyChange(Replay(cs), c)
    BY <1>1, <1>3, <1>4, <1>5
  <1>7. Replayable(ds) <=> \A i \in 1..(n + 1) : Outcome(Steps(ds)[i - 1], ds[i]) = "ok"
    BY <1>1 DEF Replayable
  <1>8. Replayable(cs) <=> \A i \in 1..n : Outcome(Steps(cs)[i - 1], cs[i]) = "ok"
    BY DEF Replayable, n
  <1>9. \A i \in 1..n : Outcome(Steps(ds)[i - 1], ds[i]) = Outcome(Steps(cs)[i - 1], cs[i])
    <2> SUFFICES ASSUME NEW i \in 1..n
                 PROVE  Steps(ds)[i - 1] = Steps(cs)[i - 1] /\ ds[i] = cs[i]
      BY Zenon
    <2>1. i - 1 \in 0..n
      BY <1>1
    <2> QED
      BY <1>1, <1>2, <2>1
  <1>10. Outcome(Steps(ds)[(n + 1) - 1], ds[n + 1]) = Outcome(Replay(cs), c)
    BY <1>1, <1>3, <1>4, <1>5
  <1>11. Replayable(ds) <=> Replayable(cs) /\ Outcome(Replay(cs), c) = "ok"
    <2>1. ASSUME Replayable(ds) PROVE Replayable(cs) /\ Outcome(Replay(cs), c) = "ok"
      <3>1. ASSUME NEW i \in 1..n PROVE Outcome(Steps(cs)[i - 1], cs[i]) = "ok"
        <4>1. i \in 1..(n + 1)
          BY <1>1
        <4> QED
          BY <1>7, <1>9, <2>1, <4>1
      <3>2. n + 1 \in 1..(n + 1)
        BY <1>1
      <3> QED
        BY <1>7, <1>8, <1>10, <2>1, <3>1, <3>2
    <2>2. ASSUME Replayable(cs), Outcome(Replay(cs), c) = "ok" PROVE Replayable(ds)
      <3>1. ASSUME NEW i \in 1..(n + 1) PROVE Outcome(Steps(ds)[i - 1], ds[i]) = "ok"
        <4>1. CASE i = n + 1
          BY <1>10, <2>2, <4>1
        <4>2. CASE i # n + 1
          <5>1. i \in 1..n
            BY <1>1, <4>2
          <5> QED
            BY <1>8, <1>9, <2>2, <5>1
        <4> QED
          BY <4>1, <4>2
      <3> QED
        BY <1>7, <3>1
    <2> QED
      BY <2>1, <2>2
  <1> QED
    BY <1>6, <1>11 DEF ds

\* What changes build is a configuration.
LEMMA ReplayType ==
  ASSUME NEW cs \in Seq(Change)
  PROVE  Replay(cs) \in Config
  <1> DEFINE N == {i \in Nat : i <= Len(cs) => Steps(cs)[i] \in Config}
  <1>1. 0 \in N
    BY StepsDefined, InitConfigType
  <1>2. ASSUME NEW i \in Nat, i \in N PROVE i + 1 \in N
    <2> SUFFICES ASSUME i + 1 <= Len(cs) PROVE Steps(cs)[i + 1] \in Config
      OBVIOUS
    <2>1. i + 1 \in 1..Len(cs) /\ (i + 1) - 1 = i /\ Steps(cs)[i] \in Config
      BY <1>2
    <2>2. Steps(cs)[i + 1] = ApplyChange(Steps(cs)[i], cs[i + 1]) /\ cs[i + 1] \in Change
      BY <2>1, StepsDefined
    <2> QED
      BY <2>1, <2>2, ApplyChangeType
  <1> HIDE DEF N
  <1>3. Nat \subseteq N
    BY <1>1, <1>2, SetInduction
  <1> QED
    BY <1>3 DEF N, Replay

-----------------------------------------------------------------------------
(* The changes and the IDs of a sequence of change logs *)

ChangeLog == [id : Nat, change : Change]

LEMMA ColumnType ==
  ASSUME NEW q \in Seq(ChangeLog)
  PROVE  /\ [j \in DOMAIN q |-> q[j].change] \in Seq(Change)
         /\ [j \in DOMAIN q |-> q[j].id] \in Seq(Nat)
  <1>1. \A j \in 1..Len(q) : q[j] \in ChangeLog
    OBVIOUS
  <1>2. \A j \in 1..Len(q) : q[j].change \in Change /\ q[j].id \in Nat
    BY <1>1 DEF ChangeLog
  <1> QED
    BY <1>2

LEMMA ColumnAppend ==
  ASSUME NEW q \in Seq(ChangeLog), NEW e \in ChangeLog
  PROVE  /\ [j \in DOMAIN Append(q, e) |-> Append(q, e)[j].change]
              = Append([j \in DOMAIN q |-> q[j].change], e.change)
         /\ [j \in DOMAIN Append(q, e) |-> Append(q, e)[j].id]
              = Append([j \in DOMAIN q |-> q[j].id], e.id)
  <1> DEFINE r == Append(q, e)
             a == [j \in DOMAIN q |-> q[j].change]
             b == [j \in DOMAIN q |-> q[j].id]
  <1>1. /\ r \in Seq(ChangeLog) /\ Len(r) = Len(q) + 1 /\ Len(q) \in Nat /\ r[Len(q) + 1] = e
        /\ \A j \in 1..Len(q) : r[j] = q[j]
        /\ DOMAIN r = 1..(Len(q) + 1) /\ DOMAIN q = 1..Len(q)
    BY AppendProperties
  <1>2. \A j \in 1..Len(q) : q[j] \in ChangeLog
    OBVIOUS
  <1>3. e.change \in Change /\ e.id \in Nat /\ \A j \in 1..Len(q) : q[j].change \in Change /\ q[j].id \in Nat
    BY <1>2 DEF ChangeLog
  <1> HIDE DEF r
  <1>4. a \in Seq(Change) /\ Len(a) = Len(q) /\ b \in Seq(Nat) /\ Len(b) = Len(q)
    BY <1>1, <1>3
  <1>5. Append(a, e.change) = [j \in DOMAIN r |-> r[j].change]
    <2>1. /\ Append(a, e.change) \in Seq(Change) /\ Len(Append(a, e.change)) = Len(q) + 1
          /\ \A j \in 1..Len(q) : Append(a, e.change)[j] = a[j]
          /\ Append(a, e.change)[Len(q) + 1] = e.change
      BY <1>3, <1>4, AppendProperties
    <2> DEFINE s == Append(a, e.change)
    <2> HIDE DEF s
    <2>2. DOMAIN s = 1..(Len(q) + 1) /\ s = [j \in 1..(Len(q) + 1) |-> s[j]]
      BY <1>1, <2>1 DEF s
    <2>3. \A j \in 1..(Len(q) + 1) : s[j] = r[j].change
      BY <1>1, <2>1 DEF s
    <2> QED
      BY <1>1, <2>2, <2>3 DEF s
  <1>6. Append(b, e.id) = [j \in DOMAIN r |-> r[j].id]
    <2>1. /\ Append(b, e.id) \in Seq(Nat) /\ Len(Append(b, e.id)) = Len(q) + 1
          /\ \A j \in 1..Len(q) : Append(b, e.id)[j] = b[j]
          /\ Append(b, e.id)[Len(q) + 1] = e.id
      BY <1>3, <1>4, AppendProperties
    <2> DEFINE s == Append(b, e.id)
    <2> HIDE DEF s
    <2>2. DOMAIN s = 1..(Len(q) + 1) /\ s = [j \in 1..(Len(q) + 1) |-> s[j]]
      BY <1>1, <2>1 DEF s
    <2>3. \A j \in 1..(Len(q) + 1) : s[j] = r[j].id
      BY <1>1, <2>1 DEF s
    <2> QED
      BY <1>1, <2>2, <2>3 DEF s
  <1> QED
    BY <1>4, <1>5, <1>6 DEF r
=============================================================================
